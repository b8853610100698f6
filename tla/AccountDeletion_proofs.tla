------------------------ MODULE AccountDeletion_proofs ------------------------
(***************************************************************************)
(* For any number of tokens, deletions, failing writes and crashes: a      *)
(* confirmed deletion never goes on as a session, an obligation takes away *)
(* no other credentials than its own, and the data of a deleted account    *)
(* stay behind the fence.                                                  *)
(***************************************************************************)
EXTENDS AccountDeletion, TLAPS

Settlers == {"mark", "finish", "uncertain", "refused"}
Before   == {"access", "refresh", "mark"}
Announced == {"send", "wait"}

Debts    == [token : Nat, generation : Nat]
Sessions == [token : Nat, access : BOOLEAN, generation : Nat,
             authenticated : BOOLEAN, deleting : BOOLEAN]
Locks    == [who : Ready \cup Settlers \cup {"none", "expire"},
             step : {"none", "look", "rearm", "write", "confirm", "tombstone",
                     "secret", "forget", "unmark"},
             due : Debts]
Jobs     == [step : Before \cup Announced \cup {"none", "deleted", "failed"},
             token : Nat, generation : Nat, retried : BOOLEAN]
Wires    == [at : {"none", "request", "deleted", "refused", "stale"}, token : Nat]
Workers  == [at : {"none", "login", "accept", "restore", "me"},
             generation : Nat, restore : BOOLEAN]
Fences   == [pending : BOOLEAN, denied : BOOLEAN, timer : BOOLEAN]
Cleanups  == [timer : BOOLEAN, generation : Nat]
Tokens   == DOMAIN owner

Typed ==
    /\ process \in {"up", "stopping", "down"}
    /\ item \in Nat /\ tombstone \in BOOLEAN
    /\ identity \in Debts /\ marker \in Debts
    /\ session \in Sessions /\ owed \in SUBSET Nat
    /\ lock \in Locks /\ job \in Jobs /\ wire \in Wires /\ worker \in Workers
    /\ ui \in {"idle", "resolve"} /\ fence \in Fences /\ cleanup \in Cleanups
    /\ meta \in BOOLEAN /\ workspace \in Nat
    /\ owner \in Seq(Nat \ {0}) /\ gone \in SUBSET (Nat \ {0})
    /\ detached \in BOOLEAN

\* The tokens the program holds were issued.
TokensOK ==
    /\ item \in Tokens \cup {0}
    /\ identity.token \in Tokens \cup {0} /\ marker.token \in Tokens \cup {0}
    /\ session.token \in Tokens \cup {0} /\ job.token \in Tokens \cup {0}
    /\ wire.at # "none" => wire.token \in Tokens
    /\ \A t \in Tokens : owner[t] <= Len(owner)
    /\ gone \subseteq 1..Len(owner)

Risky(a) == a \in gone \/ (wire.at = "request" /\ owner[wire.token] = a)

Running == job.step # "none"
SameRun == job.generation = session.generation

\* The keyring and the two records of an obligation.
StoreOK ==
    /\ item # 0 => identity.token = item
    /\ marker.generation # 0 => marker.token # 0 /\ owner[marker.token] \in asked
    /\ Confirmed => identity.token # 0 /\ owner[identity.token] \in asked
    /\ marker.generation = 0 => marker = NoDebt

\* A session is of the stored token, and what is owed is owed for it.
SessionOK ==
    /\ session.generation # 0
    /\ session.authenticated <=> session.token # 0
    /\ session.authenticated /\ Stored # 0 => Stored = session.token
    /\ session.authenticated =>
          /\ marker.generation # 0 => marker.token = session.token
          /\ Confirmed => identity.token = session.token

\* The workspace is that of the session and of the stored credentials.
WorkspaceOK ==
    /\ Stored # 0 => workspace \in {0, owner[Stored]}
    /\ session.token # 0 => workspace \in {0, owner[session.token]}

\* A session is being deleted exactly as long as its job is the current one.
DeletingOK ==
    session.deleting =>
        /\ process = "up" /\ session.authenticated
        /\ Running /\ SameRun /\ job.token = session.token
        /\ meta /\ fence.pending /\ ~fence.denied /\ ui = "idle"
        /\ lock.who \notin {"begin", "recover"}

JobOK ==
    Running =>
        /\ job.token # 0 /\ job.generation # 0
        /\ job.generation <= session.generation
        /\ SameRun => session.deleting
        /\ marker \in {NoDebt, Mine}
        /\ Confirmed => identity = Mine
        /\ job.step \in Before => ~Unsettled
        /\ job.step \in Announced => owner[job.token] \in asked
        /\ job.step \in Announced /\ Confirmed => lock.who \in {"finish", "uncertain"}

\* Once the DELETE is announced, the credentials are gone, owed, or of
\* somebody who signed in meanwhile.
AnnouncedOK ==
    Running /\ ~detached =>
        /\ meta \/ workspace = 0
        /\ ~SameRun => Stored = 0 /\ ~session.authenticated
        /\ job.step \in Announced /\ SameRun => Unsettled \/ identity.token = 0

\* The service deletes nothing behind the back of the current job.
RiskOK ==
    Running /\ SameRun /\ ~detached =>
        /\ job.step \in Before \cup {"send"} => ~Risky(owner[job.token])
        /\ job.step = "wait" /\ owner[job.token] \in gone => wire.at = "deleted"
        /\ job.step = "wait" /\ wire.at = "request" => owner[wire.token] = owner[job.token]
        /\ job.step = "failed" /\ job.generation \notin owed => ~Risky(owner[job.token])

\* A confirmed deletion is being settled or has been left to fail_deletion.
ConfirmedOK ==
    Confirmed /\ session.deleting =>
        \/ lock.who \in {"finish", "uncertain"} /\ lock.step # "look"
        \/ job.step \in {"deleted", "failed"} /\ job.generation \in owed

\* What a holder of state.lock may be in the middle of.
LockOK ==
    /\ lock.step = "none" <=> lock.who = "none"
    /\ lock.who = "none" => lock = Unlocked
    /\ lock.who = "begin" => /\ ~Running /\ ~session.deleting /\ process = "up"
                             /\ fence.pending /\ ~fence.denied /\ ui = "idle"
    /\ lock.who = "mark" => job.step = "mark" /\ lock.step \in {"look", "write"}
    /\ lock.who \in {"finish", "uncertain", "refused"} => job.step = "wait"
    /\ lock.who = "refused" => /\ wire.at \in {"refused", "stale"}
                               /\ lock.step \in {"look", "unmark"}
    /\ lock.who = "login" => worker.at = "login"
    /\ lock.who = "restore" => worker.at = "restore"
    /\ lock.who = "expire" => /\ worker.at = "me" /\ ~session.authenticated
                              /\ worker.generation = session.generation
                              /\ lock.due = NoDebt
    /\ lock.who = "recover" => fence.pending /\ ~session.deleting /\ ui = "idle"

\* The obligation lock.due under settlement, step by step.
DueOK ==
    LET due == lock.due IN
    /\ due = NoDebt \/ (due.generation # 0 /\ due.token \in Tokens)
    /\ lock.who \in Settlers => due \in {NoDebt, Mine}
    /\ lock.who # "mark" /\ due # NoDebt => owner[due.token] \in asked
    /\ lock.step = "confirm" => /\ lock.who \in {"finish", "uncertain"} /\ due = Mine
                                /\ SameRun /\ identity.token = due.token
    /\ lock.step = "write" => lock.who = "mark" /\ due = Mine /\ SameRun /\ marker = NoDebt
    /\ lock.step = "rearm" => due # NoDebt /\ identity = due
    /\ lock.step \in {"tombstone", "secret", "forget", "unmark"} /\ due # NoDebt
          => marker = due
    /\ lock.step \in {"tombstone", "secret", "forget"} /\ due # NoDebt
          => identity.token = due.token
    /\ lock.step \in {"tombstone", "secret", "forget"} /\ due = NoDebt
          => /\ lock.who \in {"sign out", "expire", "timer"}
             /\ lock.who = "timer" => ~session.authenticated
    /\ lock.step \in {"secret", "forget"} => tombstone
    /\ lock.step = "forget" => item = 0
    /\ lock.step = "unmark" =>
          /\ due # NoDebt
          /\ \/ item = 0 /\ identity.token = 0
             \/ lock.who = "refused"
             \/ lock.who \in {"finish", "uncertain"} /\ ~SameRun
    /\ lock.who \in {"finish", "uncertain"} /\ lock.step # "look" /\ lock.step # "unmark" => SameRun

WorkerOK ==
    worker.at # "none" =>
        /\ worker.generation <= session.generation
        /\ worker.generation = session.generation =>
              /\ ~session.authenticated
              /\ worker.at \in {"login", "accept"} => ~fence.pending

FenceOK ==
    /\ process # "down" => fence.pending = meta
    /\ process = "down" => /\ ~fence.pending /\ ~Running /\ lock = Unlocked
                           /\ ui = "idle" /\ ~session.authenticated
                           /\ worker.at = "none"
    /\ fence.denied => fence.pending
    /\ fence.denied => detached \/ (~Running /\ ~Risky(workspace))
    /\ ui = "resolve" => ~session.deleting /\ fence.pending /\ (fence.denied \/ ~Unsettled)

\* Credentials that still load are those of a living account, or owed.
CredentialsOK ==
    /\ Stored # 0 /\ Risky(owner[Stored]) => Unsettled \/ detached
    /\ session.authenticated /\ identity.token = session.token /\ Risky(owner[session.token])
          => Unsettled \/ detached

WorkspaceFenced == Risky(workspace) => meta \/ detached

Safe ==
    /\ TokensOK /\ StoreOK /\ SessionOK /\ WorkspaceOK /\ DeletingOK /\ JobOK
    /\ AnnouncedOK /\ RiskOK /\ ConfirmedOK /\ LockOK /\ DueOK /\ WorkerOK /\ FenceOK
    /\ CredentialsOK /\ WorkspaceFenced /\ ConfirmedNeverAuthenticates

IInv == Typed /\ Safe

-----------------------------------------------------------------------------
(* What the operators of the specification return. *)

LEMMA Fields ==
    /\ Unlocked.who = "none" /\ Unlocked.step = "none" /\ Unlocked.due = NoDebt
    /\ NoDebt.token = 0 /\ NoDebt.generation = 0 /\ NoJob.step = "none"
    /\ Lifted.pending = FALSE /\ Lifted.denied = FALSE
    /\ Mine.token = job.token /\ Mine.generation = job.generation
    /\ \A d, e \in Debts : d = e <=> d.token = e.token /\ d.generation = e.generation
    /\ \A t, g : Debt(t, g).token = t /\ Debt(t, g).generation = g
    /\ \A g : /\ SignedOut(g).token = 0 /\ SignedOut(g).generation = g
              /\ SignedOut(g).authenticated = FALSE /\ SignedOut(g).deleting = FALSE
    /\ \A t, g : /\ SignedIn(t, g).token = t /\ SignedIn(t, g).generation = g
                 /\ SignedIn(t, g).authenticated = TRUE /\ SignedIn(t, g).deleting = FALSE
  BY DEF Unlocked, NoDebt, NoJob, Lifted, Mine, Debt, Debts, SignedOut, SignedIn

LEMMA Parts ==
    ASSUME Typed
    PROVE  /\ session.generation \in Nat /\ session.generation + 1 \in Nat
           /\ session.token \in Nat /\ session.authenticated \in BOOLEAN
           /\ session.deleting \in BOOLEAN
           /\ job.token \in Nat /\ job.generation \in Nat
           /\ identity.token \in Nat /\ identity.generation \in Nat
           /\ marker.token \in Nat /\ marker.generation \in Nat
           /\ {identity, marker, lock.due, Mine, NoDebt} \subseteq Debts
           /\ lock.due.token \in Nat /\ lock.due.generation \in Nat
           /\ worker.generation \in Nat /\ item \in Nat /\ tombstone \in BOOLEAN
  BY DEF Typed, Sessions, Jobs, Debts, Locks, Workers, Mine, Debt, NoDebt

LEMMA DebtTyped ==
    /\ NoDebt \in Debts /\ NoJob \in Jobs /\ Unlocked \in Locks /\ Lifted \in Fences
    /\ \A t, g \in Nat : Debt(t, g) \in Debts
    /\ Typed => Mine \in Debts
  BY DEF NoDebt, NoJob, Unlocked, Lifted, Debt, Mine, Debts, Jobs, Locks,
      Fences, Typed,
         Before, Announced, Ready

LEMMA SessionTyped ==
    ASSUME NEW t \in Nat, NEW g \in Nat
    PROVE  SignedOut(g) \in Sessions /\ SignedIn(t, g) \in Sessions
  BY DEF SignedOut, SignedIn, Sessions

LEMMA EnterTyped ==
    ASSUME NEW who \in Ready \cup Settlers \cup {"expire"}, Enter(who)
    PROVE  lock' \in Locks
  BY DEF Enter, Locks, NoDebt, Debts, Ready

LEMMA RetryFenceTyped ==
    ASSUME Typed, NEW denied \in BOOLEAN, RetryFence(denied)
    PROVE  lock' \in Locks /\ ui' \in {"idle", "resolve"}
<1>1. CASE denied
  BY <1>1 DEF RetryFence, Typed
<1>2. CASE ~denied
  BY <1>2, EnterTyped DEF RetryFence, Typed, Ready
<1> QED  BY <1>1, <1>2

LEMMA ClearedTyped ==
    ASSUME Typed, NEW due
    PROVE  Cleared(due) \in Sessions
<1>1. session \in Sessions /\ session.generation + 1 \in Nat
  BY DEF Typed, Sessions
<1> QED  BY <1>1, SessionTyped DEF Cleared

LEMMA ReturnTyped ==
    ASSUME Typed, NEW done \in BOOLEAN, NEW due, Return(done, due)
    PROVE  /\ lock' \in Locks /\ session' \in Sessions /\ owed' \in SUBSET Nat
           /\ job' \in Jobs /\ worker' \in Workers /\ cleanup' \in Cleanups
           /\ ui' \in {"idle", "resolve"} /\ fence' \in Fences
<1>1. lock' \in Locks
  BY DebtTyped DEF Return
<1>2. session' \in Sessions
  <2>1. /\ session \in Sessions /\ session.generation \in Nat
        /\ session.generation + 1 \in Nat
    BY DEF Typed, Sessions
  <2>2. [session EXCEPT !.generation = session.generation + 1, !.deleting = TRUE] \in Sessions
    BY <2>1 DEF Sessions
  <2> QED  BY <2>1, <2>2, SessionTyped, ClearedTyped DEF Return, SessionAfter
<1>3. owed' \in SUBSET Nat
  BY DEF Return, OwedAfter, Typed, Jobs
<1>4. job' \in Jobs
  <2>1. job \in Jobs /\ session.token \in Nat /\ session.generation \in Nat
    BY DEF Typed, Sessions
  <2>2. [step |-> "access", token |-> session.token,
         generation |-> session.generation + 1, retried |-> FALSE] \in Jobs
    BY <2>1 DEF Jobs, Before
  <2>3. /\ \A s \in {"send", "deleted", "failed"} : [job EXCEPT !.step = s] \in Jobs
        /\ [job EXCEPT !.step = "refresh", !.retried = TRUE] \in Jobs
    BY <2>1 DEF Jobs, Before, Announced
  <2> QED  BY <2>1, <2>2, <2>3 DEF Return, JobAfter
<1>5. worker' \in Workers
  BY DEF Return, WorkerAfter, Typed, Workers
<1>6. cleanup' \in Cleanups
  <2>1. cleanup \in Cleanups /\ session.generation + 1 \in Nat
    BY DEF Typed, Sessions
  <2>2. /\ \A on \in BOOLEAN : [cleanup EXCEPT !.timer = on] \in Cleanups
        /\ [timer |-> TRUE, generation |-> session.generation + 1] \in Cleanups
    BY <2>1 DEF Cleanups
  <2> QED  BY <2>1, <2>2 DEF Return, CleanupAfter
<1>7. ui' \in {"idle", "resolve"} /\ fence' \in Fences
  BY DEF Return, Typed, Fences
<1> QED  BY <1>1, <1>2, <1>3, <1>4, <1>5, <1>6, <1>7


LEMMA GoFacts ==
    ASSUME Typed, NEW step, NEW due, Go(step, due)
    PROVE  /\ lock'.who = lock.who /\ lock'.step = step /\ lock'.due = due
           /\ UNCHANGED <<session, owed, job, ui, fence, worker, cleanup, asked>>
  BY DEF Typed, Locks, Go

LEMMA ReturnFailed ==
    ASSUME Typed, NEW due, lock.who \in Ready \ {"sign out"}, Return(FALSE, due)
    PROVE  /\ lock' = Unlocked /\ UNCHANGED <<session, owed, job, ui, asked>>
           /\ fence'.pending = fence.pending /\ fence'.denied = fence.denied
           /\ worker'.generation = worker.generation /\ worker'.at \in {worker.at, "none"}
           /\ lock.who \in {"login", "restore"} => worker'.at = "none"
  BY DEF Typed, Fences, Workers, Ready, Return, SessionAfter, OwedAfter,
      JobAfter,
         WorkerAfter, CleanupAfter

LEMMA ReturnReady ==
    ASSUME Typed, NEW due, lock.who \in Ready \ {"sign out"}, Return(TRUE, due),
           lock.who = "begin" => ~MayBegin \/ due # NoDebt
    PROVE  /\ lock' = Unlocked /\ UNCHANGED <<owed, job, fence, asked>>
           /\ session' = IF due = NoDebt THEN session ELSE Cleared(due)
           /\ ui' = IF lock.who = "recover" THEN "resolve" ELSE ui
           /\ worker'.generation = worker.generation
           /\ worker'.at \in {worker.at, "none", "accept", "me"}
           /\ worker'.at = "accept" => worker.at = "accept" \/ lock.who = "login"
           /\ worker'.at = "me" => worker.at = "me" \/ (lock.who = "restore" /\ Stored' # 0)
           /\ lock.who = "login" => worker'.at = "accept"
           /\ lock.who = "restore" => worker'.at \in {"none", "me"}
           /\ lock.who \notin {"login", "restore"} => worker'.at = worker.at
  BY DEF Typed, Workers, Ready, Return, SessionAfter, OwedAfter, JobAfter,
         WorkerAfter, CleanupAfter

LEMMA ReturnBegun ==
    ASSUME Typed, lock.who = "begin", MayBegin, Return(TRUE, NoDebt)
    PROVE  /\ lock' = Unlocked /\ UNCHANGED <<owed, fence, asked, ui, worker>>
           /\ session'.generation = session.generation + 1
           /\ session'.deleting /\ session'.token = session.token
           /\ session'.authenticated = session.authenticated
           /\ job'.step = "access" /\ job'.token = session.token
           /\ job'.generation = session.generation + 1
<1>1. lock' = Unlocked /\ UNCHANGED <<owed, fence, asked, ui, worker>>
  BY DEF Ready, Return, OwedAfter, WorkerAfter
<1>2. session' = [session EXCEPT !.generation = session.generation + 1, !.deleting = TRUE]
  BY DEF Ready, Return, SessionAfter
<1>3. job' = [step |-> "access", token |-> session.token,
              generation |-> session.generation + 1, retried |-> FALSE]
  BY DEF Ready, Return, JobAfter
<1> QED  BY <1>1, <1>2, <1>3 DEF Typed, Sessions

LEMMA ReturnSignOut ==
    ASSUME Typed, NEW done \in BOOLEAN, NEW due, lock.who = "sign out", Return(done, due)
    PROVE  /\ lock' = Unlocked /\ UNCHANGED <<owed, job, ui, asked, fence, worker>>
           /\ session' = IF done \/ SignedAway THEN SignedOut(session.generation + 1)
                                               ELSE session
  BY DEF Typed, Ready, Return, SessionAfter, OwedAfter, JobAfter, WorkerAfter,
      CleanupAfter

LEMMA ReturnMark ==
    ASSUME Typed, NEW done \in BOOLEAN, NEW due, lock.who = "mark", Return(done, due)
    PROVE  /\ lock' = Unlocked /\ UNCHANGED <<session, ui, fence, worker>>
           /\ job'.token = job.token /\ job'.generation = job.generation
           /\ job'.step = IF done THEN "send" ELSE "failed"
           /\ asked' = IF marker' = Mine THEN asked \cup {owner[job.token]} ELSE asked
           /\ owed' = IF ~done /\ marker' # NoDebt THEN owed \cup {job.generation} ELSE owed
  BY DEF Typed, Jobs, Ready, Return, SessionAfter, OwedAfter, JobAfter,
      WorkerAfter,
         CleanupAfter

LEMMA ReturnFinish ==
    ASSUME Typed, NEW done \in BOOLEAN, NEW due, lock.who \in {"finish", "uncertain"},
           Return(done, due)
    PROVE  /\ lock' = Unlocked /\ UNCHANGED <<session, ui, fence, worker, asked>>
           /\ job'.token = job.token /\ job'.generation = job.generation
           /\ job'.step \in {"deleted", "failed"}
           /\ job'.step = "deleted" => done /\ Current /\ lock.who = "finish"
           /\ owed' = IF Current \/ ~done THEN owed \cup {job.generation}
                                          ELSE owed \ {job.generation}
  BY DEF Typed, Jobs, Ready, Return, SessionAfter, OwedAfter, JobAfter,
      WorkerAfter,
         CleanupAfter

LEMMA ReturnRefused ==
    ASSUME Typed, NEW done \in BOOLEAN, NEW due, lock.who = "refused", Return(done, due)
    PROVE  /\ lock' = Unlocked /\ UNCHANGED <<session, ui, fence, worker>>
           /\ job'.token = job.token /\ job'.generation = job.generation
           /\ job'.step \in {"refresh", "failed"} /\ (job'.step = "refresh" => done)
           /\ asked' = IF done THEN asked \ {owner[job.token]} ELSE asked
           /\ owed' = IF done THEN owed ELSE owed \cup {job.generation}
  BY DEF Typed, Jobs, Ready, Return, SessionAfter, OwedAfter, JobAfter,
      WorkerAfter,
         CleanupAfter

LEMMA ReturnExpire ==
    ASSUME Typed, NEW done \in BOOLEAN, NEW due, lock.who = "expire", Return(done, due)
    PROVE  /\ lock' = Unlocked /\ UNCHANGED <<owed, job, ui, asked, fence>>
           /\ session' = IF done THEN SignedOut(session.generation) ELSE session
           /\ worker'.generation = worker.generation /\ worker'.at = "none"
  BY DEF Typed, Workers, Ready, Return, SessionAfter, OwedAfter, JobAfter,
      WorkerAfter,
         CleanupAfter

LEMMA ClearedFacts ==
    ASSUME SessionOK, NEW due, due.token # 0
    PROVE  \/ Cleared(due) = session /\ session.token # due.token
           \/ /\ Cleared(due) = SignedOut(session.generation + 1)
              /\ session.token \in {0, due.token}
  BY DEF Cleared, SignedOut, SessionOK

LEMMA WrittenFacts ==
    ASSUME Typed, Written
    PROVE  \/ /\ lock.step \in {"rearm", "write"} /\ marker' = lock.due
              /\ UNCHANGED <<item, tombstone, identity>>
           \/ /\ lock.step = "confirm" /\ identity' = lock.due
              /\ UNCHANGED <<item, tombstone, marker>>
           \/ /\ lock.step = "tombstone" /\ tombstone' = TRUE
              /\ UNCHANGED <<item, identity, marker>>
           \/ /\ lock.step = "secret" /\ item' = 0
              /\ UNCHANGED <<tombstone, identity, marker>>
           \/ /\ lock.step = "forget" /\ identity' = NoDebt
              /\ UNCHANGED <<item, tombstone, marker>>
           \/ /\ lock.step = "unmark" /\ marker' = NoDebt
              /\ UNCHANGED <<item, tombstone, identity>>
  BY DEF Written, Typed, Locks

LEMMA StoreMoves ==
    ASSUME IInv, lock.who \notin Settlers, UNCHANGED store \/ Written
    PROVE  /\ tombstone => tombstone'
           /\ item' \in {item, 0} /\ Stored' \in {Stored, 0}
           /\ item' # 0 => identity' = identity
           /\ identity' \in {identity, NoDebt}
           /\ marker' \in {marker, NoDebt} \/ (Confirmed /\ marker' = identity)
           /\ identity'.token # 0 => identity' = identity /\ (Unsettled => Unsettled')
           /\ Unsettled => Unsettled' \/ identity'.token = 0
           /\ Unsettled' => Unsettled
           /\ Confirmed' => Confirmed /\ identity' = identity
           /\ marker'.generation # 0 => marker' = marker \/ (Confirmed /\ marker' = identity)
           /\ Stored' # 0 => Stored' = Stored /\ identity' = identity /\ (Unsettled => Unsettled')
<1>0. item # 0 => identity.token = item
  BY DEF IInv, Safe, StoreOK
<1>1. CASE UNCHANGED store
  BY <1>0, <1>1, Fields DEF store, Stored, Unsettled, Confirmed
<1>2. CASE Written
  <2>1. /\ lock.step \notin {"write", "confirm"}
        /\ lock.step = "rearm" => identity = lock.due /\ Confirmed
        /\ lock.step \in {"secret", "forget"} => tombstone
        /\ lock.step = "forget" => item = 0
        /\ lock.step = "unmark" => item = 0 /\ identity.token = 0 /\ marker = lock.due /\ lock.due # NoDebt
        /\ ~Confirmed \/ identity.token # 0
    BY Fields, Parts DEF IInv, Safe, DueOK, StoreOK, Settlers, Confirmed
  <2>2. CASE lock.step = "rearm" /\ marker' = lock.due /\ UNCHANGED <<item, tombstone, identity>>
    BY <1>0, Fields, <2>1, <2>2 DEF Confirmed, Stored, Unsettled
  <2>3. CASE lock.step = "tombstone" /\ tombstone' = TRUE /\ UNCHANGED <<item, identity, marker>>
    BY <1>0, Fields, <2>1, <2>3 DEF Confirmed, Stored, Unsettled
  <2>4. CASE lock.step = "secret" /\ item' = 0 /\ UNCHANGED <<tombstone, identity, marker>>
    BY <1>0, Fields, <2>1, <2>4 DEF Confirmed, Stored, Unsettled
  <2>5. CASE lock.step = "forget" /\ identity' = NoDebt /\ UNCHANGED <<item, tombstone, marker>>
    BY <1>0, Fields, <2>1, <2>5 DEF Confirmed, Stored, Unsettled
  <2>6. CASE lock.step = "unmark" /\ marker' = NoDebt /\ UNCHANGED <<item, tombstone, identity>>
    BY <1>0, Fields, <2>1, <2>6 DEF Confirmed, Stored, Unsettled
  <2> QED  BY <1>2, <2>1, <2>2, <2>3, <2>4, <2>5, <2>6, WrittenFacts DEF IInv
<1> QED  BY <1>1, <1>2

LEMMA Later ==
    ASSUME IInv
    PROVE  /\ session.generation + 1 # 0
           /\ Running => /\ job.generation <= session.generation + 1
                         /\ job.generation # session.generation + 1
           /\ worker.at # "none" => /\ worker.generation <= session.generation + 1
                                   /\ worker.generation # session.generation + 1
<1>1. /\ session.generation \in Nat /\ job.generation \in Nat
      /\ worker.generation \in Nat
  BY Parts DEF IInv
<1>2. /\ Running => job.generation <= session.generation
      /\ worker.at # "none" => worker.generation <= session.generation
  BY DEF IInv, Safe, JobOK, WorkerOK
<1> QED  BY <1>1, <1>2

LEMMA EnterFacts ==
    ASSUME NEW who, Enter(who)
    PROVE  lock'.who = who /\ lock'.step = "look" /\ lock'.due = NoDebt
  BY DEF Enter

LEMMA AccountsTyped ==
    ASSUME Typed
    PROVE  /\ Len(owner) \in Nat /\ Tokens = 1..Len(owner)
           /\ \A t \in Tokens : t \in Nat \ {0} /\ owner[t] \in Nat \ {0}
           /\ 0 \notin gone
  BY DEF Typed, Tokens

LEMMA NobodyAtRisk ==
    ASSUME Typed, TokensOK
    PROVE  ~Risky(0)
  BY AccountsTyped DEF Risky, TokensOK

LEMMA OwnerGrows ==
    ASSUME Typed, NEW a \in Nat \ {0}, owner' = Append(owner, a)
    PROVE  /\ owner' \in Seq(Nat \ {0}) /\ Len(owner) + 1 \in Nat
           /\ Len(owner) + 1 \in Tokens' /\ owner'[Len(owner) + 1] = a
           /\ Len(owner') = Len(owner) + 1 /\ Len(owner) + 1 # 0
           /\ \A t \in Tokens : t \in Tokens' /\ owner'[t] = owner[t] /\ t # Len(owner) + 1
           /\ Tokens' = Tokens \cup {Len(owner) + 1}
  BY DEF Typed, Tokens

LEMMA SignInAccountLives ==
    ASSUME Typed, TokensOK
    PROVE  /\ SignInAccount \in Nat \ {0} /\ SignInAccount \notin gone
           /\ SignInAccount <= Len(owner) + 1
<1> DEFINE living == {t \in DOMAIN owner : owner[t] \notin gone}
<1>1. CASE living = {}
  <2>1. SignInAccount = Len(owner) + 1
    BY <1>1 DEF SignInAccount
  <2> QED  BY <2>1, AccountsTyped DEF TokensOK
<1>2. CASE living # {}
  <2>1. PICK t \in living : SignInAccount = owner[t]
    BY <1>2 DEF SignInAccount
  <2>2. t \in Tokens /\ owner[t] \notin gone
    BY DEF Tokens
  <2>3. owner[t] <= Len(owner) /\ owner[t] \in Nat \ {0} /\ Len(owner) \in Nat
    BY <2>2, AccountsTyped DEF TokensOK
  <2> QED  BY <2>1, <2>2, <2>3
<1> QED  BY <1>1, <1>2

LEMMA GoTyped ==
    ASSUME Typed, NEW due \in Debts,
           NEW step \in {"write", "rearm", "confirm", "tombstone", "secret", "forget", "unmark"},
           Go(step, due)
    PROVE  lock' \in Locks
  BY DEF Typed, Go, Locks

LEMMA ResumedTyped ==
    ASSUME Typed
    PROVE  [session EXCEPT !.deleting = FALSE] \in Sessions
  BY DEF Typed, Sessions

LEMMA LookClearsSafe ==
    ASSUME IInv, Unwritten, Looking(Ready), ClearsNext, ~Confirmed, marker = NoDebt,
           Go("tombstone", NoDebt)
    PROVE  Safe'
<1>1. UNCHANGED <<store, wire, meta, workspace, server, detached, process>>
  BY DEF Unwritten
<1>2. /\ lock.step = "look" /\ lock.who \in {"sign out", "timer"}
      /\ lock.who = "timer" => ~session.authenticated
  BY DEF Looking, ClearsNext
<1>3. /\ lock'.who = lock.who /\ lock'.step = "tombstone" /\ lock'.due = NoDebt
      /\ UNCHANGED <<session, owed, job, ui, fence, worker, cleanup, asked>>
  BY GoFacts DEF IInv
<1>c1. TokensOK'
  BY <1>1, <1>2, <1>3, Fields DEF IInv, Safe, TokensOK, Tokens, server, DueOK,
      SameRun, Settlers, store
<1>c6. JobOK'
  BY <1>1, <1>2, <1>3, Fields DEF IInv, Safe, JobOK, Running, SameRun,
      Confirmed, Unsettled, Announced, Before, store, DueOK, Settlers, Tokens,
      server
<1>g0. (StoreOK /\ SessionOK /\ WorkspaceOK)'
  BY <1>1, <1>2, <1>3, Fields DEF IInv, Safe, StoreOK, Confirmed, store,
      SessionOK, Stored, WorkspaceOK, server
<1>g1. (DeletingOK /\ AnnouncedOK /\ RiskOK /\ ConfirmedOK)'
  BY <1>1, <1>2, <1>3, Fields DEF IInv, Safe, DeletingOK, Running, SameRun,
      AnnouncedOK, Stored, Unsettled, Confirmed, Announced, store, RiskOK,
      Risky, Before, server, ConfirmedOK
<1>g2. (LockOK /\ DueOK /\ WorkerOK /\ FenceOK)'
  BY <1>1, <1>2, <1>3, Fields DEF IInv, Safe, LockOK, Running, DueOK, SameRun,
      Settlers, Tokens, store, server, WorkerOK, FenceOK, Risky, Unsettled,
      Confirmed
<1>g3. (CredentialsOK /\ WorkspaceFenced /\ ConfirmedNeverAuthenticates)'
  BY <1>1, <1>2, <1>3, Fields DEF IInv, Safe, CredentialsOK, Stored, Risky,
      Unsettled, Confirmed, store, server, WorkspaceFenced,
      ConfirmedNeverAuthenticates
<1> QED  BY <1>c1, <1>c6, <1>g0, <1>g1, <1>g2, <1>g3 DEF Safe

LEMMA LookDueSafe ==
    ASSUME IInv, Unwritten, Looking(Ready), NEW due,
           due = IF Confirmed THEN identity ELSE marker, due # NoDebt,
           NEW step \in {"rearm", "unmark", "tombstone"}, Go(step, due),
           step = "rearm" => marker # due,
           step # "rearm" => marker = due /\ ~Untrusted,
           step = "unmark" => identity.token = 0,
           step = "tombstone" => identity.token = due.token
    PROVE  Safe'
<1>1. UNCHANGED <<store, wire, meta, workspace, server, detached, process>>
  BY DEF Unwritten
<1>2. lock.step = "look" /\ lock.who \in Ready
  BY DEF Looking
<1>3. /\ lock'.who = lock.who /\ lock'.step = step /\ lock'.due = due
      /\ UNCHANGED <<session, owed, job, ui, fence, worker, cleanup, asked>>
  BY GoFacts DEF IInv
<1>4. /\ due \in {identity, marker} /\ due.generation # 0 /\ due.token # 0
      /\ owner[due.token] \in asked
      /\ step = "rearm" => identity = due
      /\ step = "unmark" => item = 0
      /\ UNCHANGED Mine
  BY <1>3 DEF IInv, Safe, Typed, StoreOK, Debts, NoDebt, Confirmed, Untrusted,
      Mine
<1>c1. TokensOK'
  BY <1>1, <1>2, <1>3, <1>4, Fields DEF IInv, Safe, TokensOK, Tokens, server,
      DueOK, SameRun, Settlers, store
<1>c2. StoreOK'
  BY <1>1, <1>2, <1>3, <1>4, Fields DEF IInv, Safe, StoreOK, Confirmed, store,
      DueOK, SameRun, Settlers, Tokens, server
<1>c6. JobOK'
  BY <1>1, <1>2, <1>3, <1>4, Fields DEF IInv, Safe, JobOK, Running, SameRun,
      Confirmed, Unsettled, Announced, Before, store, DueOK, Settlers, Tokens,
      server
<1>c10. LockOK'
  BY <1>1, <1>2, <1>3, <1>4, Fields DEF IInv, Safe, LockOK, Running, store,
      server, Tokens, Settlers, Ready, Risky, SameRun, Announced, Before,
      Stored, Confirmed, Unsettled, Current
<1>c11. DueOK'
  BY <1>1, <1>2, <1>3, <1>4, Fields DEF IInv, Safe, DueOK, SameRun, Settlers,
      Tokens, store, server, Ready, Risky, Running, Announced, Before, Stored,
      Confirmed, Unsettled, Current, TokensOK
<1>g0. (SessionOK /\ WorkspaceOK /\ DeletingOK /\ AnnouncedOK /\ RiskOK /\
        ConfirmedOK /\ WorkerOK /\ FenceOK /\ CredentialsOK /\
        WorkspaceFenced /\ ConfirmedNeverAuthenticates)'
  BY <1>1, <1>2, <1>3, <1>4, Fields DEF IInv, Safe, SessionOK, Confirmed,
      Stored, store, WorkspaceOK, server, DeletingOK, Running, SameRun,
      AnnouncedOK, Unsettled, Announced, RiskOK, Risky, Before, ConfirmedOK,
      WorkerOK, FenceOK, CredentialsOK, WorkspaceFenced,
      ConfirmedNeverAuthenticates
<1> QED  BY <1>c1, <1>c2, <1>c6, <1>c10, <1>c11, <1>g0 DEF Safe

LEMMA ReadyFailsSafe ==
    ASSUME IInv, lock.who \in Ready \ {"sign out"}, NEW due, Return(FALSE, due),
           UNCHANGED <<wire, meta, workspace, server, detached, process>>,
           UNCHANGED store \/ Written
    PROVE  Safe'
<1>1. /\ lock' = Unlocked /\ UNCHANGED <<session, owed, job, ui, asked>>
      /\ fence'.pending = fence.pending /\ fence'.denied = fence.denied
      /\ worker'.generation = worker.generation /\ worker'.at \in {worker.at, "none"}
  BY ReturnFailed DEF IInv
<1>2. UNCHANGED Mine
  BY <1>1 DEF Mine
<1>3. lock.who \notin Settlers
  BY DEF Ready, Settlers
<1>c2. StoreOK'
  BY <1>1, <1>2, <1>3, StoreMoves, Fields DEF IInv, Safe, StoreOK, Confirmed,
      store, DueOK, SameRun, Settlers, Tokens, server
<1>c3. SessionOK'
  BY <1>1, <1>3, StoreMoves DEF IInv, Safe, SessionOK
<1>c6. JobOK'
  BY <1>1, <1>2, <1>3, StoreMoves, Fields DEF IInv, Safe, JobOK, Running,
      SameRun, Confirmed, Unsettled, Announced, Before, store, DueOK, Settlers,
      Tokens, server
<1>c7. AnnouncedOK'
  BY <1>1, <1>3, StoreMoves DEF IInv, Safe, AnnouncedOK, Running, SameRun
<1>c9. ConfirmedOK'
  BY <1>1, <1>2, <1>3, StoreMoves, Fields DEF IInv, Safe, ConfirmedOK,
      Confirmed, store, DueOK, SameRun, Settlers, Tokens, server
<1>c14. CredentialsOK'
  BY <1>1, <1>3, StoreMoves DEF IInv, Safe, CredentialsOK, SessionOK, Risky,
      server
<1>4. /\ item' \in Tokens \cup {0}
      /\ identity'.token \in Tokens \cup {0} /\ marker'.token \in Tokens \cup {0}
  BY <1>3, StoreMoves, Fields DEF IInv, Safe, TokensOK
<1>g0a. TokensOK'
  BY <1>1, <1>4 DEF IInv, Safe, TokensOK, Tokens, server
<1>g0b. WorkspaceOK'
  BY <1>1, <1>2, <1>3, StoreMoves, Fields DEF IInv, Safe, Tokens, server,
      WorkspaceOK, Stored, store
<1>g1. (DeletingOK /\ RiskOK)'
  BY <1>1, <1>2, <1>3, StoreMoves, Fields DEF IInv, Safe, DeletingOK, Running,
      SameRun, RiskOK, Risky, Before, server
<1>g2. (LockOK /\ DueOK /\ WorkerOK /\ FenceOK)'
  BY <1>1, <1>2, <1>3, StoreMoves, Fields DEF IInv, Safe, LockOK, Running,
      DueOK, SameRun, Settlers, Tokens, store, server, WorkerOK, FenceOK, Risky,
      Unsettled, Confirmed
<1>g3. (WorkspaceFenced /\ ConfirmedNeverAuthenticates)'
  BY <1>1, <1>2, <1>3, StoreMoves, Fields DEF IInv, Safe, WorkspaceFenced,
      Risky, server, ConfirmedNeverAuthenticates, Confirmed, store
<1> QED  BY <1>c2, <1>c3, <1>c6, <1>c7, <1>c9, <1>c14, <1>g0a, <1>g0b, <1>g1, <1>g2,
    <1>g3 DEF Safe

LEMMA ReadyReturnsSafe ==
    ASSUME IInv, Unwritten, Looking(Ready), lock.who # "sign out", Return(TRUE, NoDebt),
           ~Unsettled, lock.who = "begin" => ~MayBegin
    PROVE  Safe'
<1>1. UNCHANGED <<store, wire, meta, workspace, server, detached, process>>
  BY DEF Unwritten
<1>2. lock.step = "look" /\ lock.who \in Ready \ {"sign out"}
  BY DEF Looking
<1>3. session' = session
  BY <1>2, ReturnReady DEF IInv
<1>4. /\ lock' = Unlocked /\ UNCHANGED <<owed, job, fence, asked>>
      /\ ui' = IF lock.who = "recover" THEN "resolve" ELSE ui
      /\ worker'.generation = worker.generation
      /\ worker'.at \in {worker.at, "none", "accept", "me"}
      /\ worker'.at = "accept" => worker.at = "accept" \/ lock.who = "login"
      /\ worker'.at = "me" => worker.at = "me" \/ (lock.who = "restore" /\ Stored' # 0)
  BY <1>2, ReturnReady DEF IInv
<1>c1. TokensOK'
  BY <1>1, <1>2, <1>3, <1>4, Fields DEF IInv, Safe, TokensOK, Tokens, server,
      DueOK, SameRun, Settlers, store
<1>c2. StoreOK'
  BY <1>1, <1>2, <1>3, <1>4, Fields DEF IInv, Safe, StoreOK, Confirmed, store,
      DueOK, SameRun, Settlers, Tokens, server
<1>c6. JobOK'
  BY <1>1, <1>2, <1>3, <1>4, Fields DEF IInv, Safe, JobOK, Running, SameRun,
      Confirmed, Unsettled, Announced, Before, store, DueOK, Settlers, Tokens,
      server
<1>c12. WorkerOK'
  BY <1>1, <1>2, <1>3, <1>4, Fields DEF IInv, Safe, WorkerOK, LockOK, Running
<1>c13. FenceOK'
  BY <1>1, <1>2, <1>3, <1>4, Fields DEF IInv, Safe, FenceOK, Running, Risky,
      Unsettled, Confirmed, store, server, LockOK
<1>g0. (SessionOK /\ WorkspaceOK)'
  BY <1>1, <1>2, <1>3, <1>4, Fields DEF IInv, Safe, SessionOK, Confirmed,
      Stored, store, WorkspaceOK, server
<1>g1. (DeletingOK /\ AnnouncedOK /\ RiskOK /\ ConfirmedOK)'
  BY <1>1, <1>2, <1>3, <1>4, Fields DEF IInv, Safe, DeletingOK, Running,
      SameRun, AnnouncedOK, Stored, Unsettled, Confirmed, Announced, store,
      RiskOK, Risky, Before, server, ConfirmedOK
<1>g2. (LockOK /\ DueOK)'
  BY <1>1, <1>2, <1>3, <1>4, Fields DEF IInv, Safe, LockOK, Running, DueOK,
      SameRun, Settlers, Tokens, store, server
<1>g3. (CredentialsOK /\ WorkspaceFenced /\ ConfirmedNeverAuthenticates)'
  BY <1>1, <1>2, <1>3, <1>4, Fields DEF IInv, Safe, CredentialsOK, Stored,
      Risky, Unsettled, Confirmed, store, server, WorkspaceFenced,
      ConfirmedNeverAuthenticates
<1> QED  BY <1>c1, <1>c2, <1>c6, <1>c12, <1>c13, <1>g0, <1>g1, <1>g2, <1>g3 DEF
    Safe

LEMMA BegunSafe ==
    ASSUME IInv, Unwritten, Looking({"begin"}), MayBegin, Return(TRUE, NoDebt), ~Unsettled
    PROVE  Safe'
<1>1. UNCHANGED <<store, wire, meta, workspace, server, detached, process>>
  BY DEF Unwritten
<1>2. /\ lock.step = "look" /\ lock.who = "begin" /\ process = "up"
      /\ session.authenticated /\ identity.token = session.token /\ ~Untrusted
  BY DEF Looking, MayBegin
<1>3. /\ lock' = Unlocked /\ UNCHANGED <<owed, fence, asked, ui, worker>>
      /\ session'.generation = session.generation + 1
      /\ session'.deleting /\ session'.token = session.token
      /\ session'.authenticated = session.authenticated
      /\ job'.step = "access" /\ job'.token = session.token
      /\ job'.generation = session.generation + 1
  BY <1>2, ReturnBegun DEF IInv
<1>4. item # 0 => identity.token = item
  BY <1>2 DEF Untrusted
<1>c1. TokensOK'
  BY <1>1, <1>2, <1>3, <1>4, Fields DEF IInv, Safe, TokensOK, Tokens, server,
      DueOK, SameRun, Settlers, store
<1>c2. StoreOK'
  BY <1>1, <1>2, <1>3, <1>4, Fields DEF IInv, Safe, StoreOK, Confirmed, store,
      DueOK, SameRun, Settlers, Tokens, server
<1>c3. SessionOK'
  BY <1>1, <1>2, <1>3, <1>4, Fields, Parts DEF IInv, Safe, SessionOK, Confirmed,
      Stored, store
<1>c5. DeletingOK'
  BY <1>1, <1>2, <1>3, <1>4, Fields DEF IInv, Safe, DeletingOK, Running,
      SameRun, LockOK, FenceOK, Risky, Unsettled, Confirmed, store, server,
      CredentialsOK, Stored
<1>c6. JobOK'
  BY <1>1, <1>2, <1>3, <1>4, Fields, Parts DEF IInv, Safe, JobOK, Running,
      SameRun, Confirmed, Unsettled, Announced, Before, store, SessionOK, Stored
<1>c7. AnnouncedOK'
  BY <1>1, <1>2, <1>3, <1>4, Fields DEF IInv, Safe, AnnouncedOK, Running,
      SameRun, Stored, Unsettled, Confirmed, Announced, store, LockOK, FenceOK,
      Risky, server, CredentialsOK
<1>c8. RiskOK'
  BY <1>1, <1>2, <1>3, <1>4, Fields DEF IInv, Safe, RiskOK, Running, SameRun,
      Risky, Before, server, CredentialsOK, Stored, Unsettled, Confirmed, store
<1>c9. ConfirmedOK'
  BY <1>1, <1>2, <1>3, <1>4, Fields DEF IInv, Safe, ConfirmedOK, Confirmed,
      store, JobOK, Running, SameRun, Unsettled, Announced, Before
<1>c12. WorkerOK'
  BY <1>1, <1>2, <1>3, <1>4, Fields, Parts DEF IInv, Safe, WorkerOK
<1>c13. FenceOK'
  BY <1>1, <1>2, <1>3, <1>4, Fields DEF IInv, Safe, FenceOK, Running, Risky,
      Unsettled, Confirmed, store, server, LockOK
<1>g0. (WorkspaceOK /\ LockOK /\ DueOK /\ CredentialsOK /\ WorkspaceFenced /\
        ConfirmedNeverAuthenticates)'
  BY <1>1, <1>2, <1>3, <1>4, Fields DEF IInv, Safe, WorkspaceOK, Stored, store,
      server, LockOK, Running, DueOK, SameRun, Settlers, Tokens, CredentialsOK,
      Risky, Unsettled, Confirmed, WorkspaceFenced, ConfirmedNeverAuthenticates
<1> QED  BY <1>c1, <1>c2, <1>c3, <1>c5, <1>c6, <1>c7, <1>c8, <1>c9, <1>c12,
    <1>c13, <1>g0 DEF Safe

LEMMA ReadySettledSafe ==
    ASSUME IInv, lock.step = "unmark", lock.who \in Ready \ {"sign out"}, marker' = NoDebt,
           UNCHANGED <<item, tombstone, identity>>, Return(TRUE, lock.due),
           UNCHANGED <<wire, meta, workspace, server, detached, process>>
    PROVE  Safe'
<1> DEFINE due == lock.due
<1>1. /\ due # NoDebt /\ due.token # 0 /\ item = 0 /\ identity.token = 0 /\ marker = due
      /\ owner[due.token] \in asked
  BY Fields, Parts DEF IInv, Safe, DueOK, Ready, Settlers, StoreOK
<1>2. /\ lock' = Unlocked /\ UNCHANGED <<owed, job, fence, asked>> /\ session' = Cleared(due)
      /\ ui' = IF lock.who = "recover" THEN "resolve" ELSE ui
      /\ worker'.generation = worker.generation
      /\ worker'.at \in {worker.at, "none", "accept"}
      /\ worker'.at = "accept" => worker.at = "accept" \/ lock.who = "login"
  BY <1>1, ReturnReady DEF IInv, Stored
<1>3. UNCHANGED Mine
  BY <1>2 DEF Mine
<1>4. CASE session' = session /\ session.token # due.token
<2>c6. JobOK'
  BY <1>1, <1>2, <1>3, <1>4, Fields DEF IInv, Safe, JobOK, Running, SameRun,
      Confirmed, Unsettled, Announced, Before, store, StoreOK, DueOK, Settlers,
      Tokens, server
<2>c9. ConfirmedOK'
  BY <1>1, <1>2, <1>3, <1>4, Fields DEF IInv, Safe, ConfirmedOK, Confirmed,
      store, JobOK, Running, SameRun, Unsettled, Announced, Before, DeletingOK
<2>c12. WorkerOK'
  BY <1>1, <1>2, <1>3, <1>4, Fields DEF IInv, Safe, WorkerOK, LockOK, Running
<2>c13. FenceOK'
  BY <1>1, <1>2, <1>3, <1>4, Fields DEF IInv, Safe, FenceOK, Running, Risky,
      Unsettled, Confirmed, store, server, StoreOK, LockOK
<2>c14. CredentialsOK'
  BY <1>1, <1>2, <1>3, <1>4, Fields DEF IInv, Safe, CredentialsOK, Stored,
      Risky, Unsettled, Confirmed, store, server, SessionOK
<2>g0. (TokensOK /\ StoreOK /\ SessionOK /\ WorkspaceOK /\ DeletingOK /\
        AnnouncedOK /\ RiskOK /\ LockOK /\ DueOK /\ WorkspaceFenced /\
        ConfirmedNeverAuthenticates)'
  BY <1>1, <1>2, <1>3, <1>4, Fields DEF IInv, Safe, TokensOK, Tokens, server,
      StoreOK, Confirmed, store, SessionOK, Stored, WorkspaceOK, DeletingOK,
      Running, SameRun, AnnouncedOK, Unsettled, Announced, RiskOK, Risky,
      Before, LockOK, DueOK, Settlers, WorkspaceFenced,
      ConfirmedNeverAuthenticates
<2> QED  BY <2>c6, <2>c9, <2>c12, <2>c13, <2>c14, <2>g0 DEF Safe
<1>w. worker'.at # "none" => worker.at # "none"
  BY <1>2, Fields DEF IInv, Safe, LockOK
<1>5. CASE session' = SignedOut(session.generation + 1) /\ session.token \in {0, due.token}
  <2>1. /\ session'.token = 0 /\ session'.generation = session.generation + 1
        /\ session'.authenticated = FALSE /\ session'.deleting = FALSE
    BY <1>5, Fields
<2>c6. JobOK'
  BY <1>1, <1>2, <1>3, <1>5, <1>w, <2>1, Later, Fields DEF IInv, Safe, JobOK,
      Running, SameRun, Confirmed, Unsettled, Announced, Before, store, StoreOK,
      DueOK, Settlers, Tokens, server
<2>c13. FenceOK'
  BY <1>1, <1>2, <1>3, <1>5, <1>w, <2>1, Later, Fields DEF IInv, Safe, FenceOK,
      Running, Risky, Unsettled, Confirmed, store, server, StoreOK, LockOK
<2>g0a. (TokensOK /\ StoreOK /\ SessionOK)'
  BY <1>1, <1>2, <1>3, <1>5, <1>w, <2>1, Later, Fields DEF IInv, Safe,
      TokensOK, Tokens, server, StoreOK, Confirmed, store, SessionOK, Stored,
      Running, SameRun, Unsettled, Announced, Risky, Before, Settlers
<2>g0b. (WorkspaceOK /\ DeletingOK /\ AnnouncedOK)'
  BY <1>1, <1>2, <1>3, <1>5, <1>w, <2>1, Later, Fields DEF IInv, Safe,
      Tokens, server, Confirmed, store, Stored, WorkspaceOK, DeletingOK,
      Running, SameRun, AnnouncedOK, Unsettled, Announced, Risky, Before,
      Settlers
<2>g0c. (RiskOK /\ ConfirmedOK /\ LockOK)'
  BY <1>1, <1>2, <1>3, <1>5, <1>w, <2>1, Later, Fields DEF IInv, Safe,
      Tokens, server, Confirmed, store, Stored, Running, SameRun, Unsettled,
      Announced, RiskOK, Risky, Before, ConfirmedOK, LockOK, Settlers
<2>g0d. (DueOK /\ WorkerOK /\ CredentialsOK)'
  BY <1>1, <1>2, <1>3, <1>5, <1>w, <2>1, Later, Fields DEF IInv, Safe,
      Tokens, server, Confirmed, store, Stored, Running, SameRun, Unsettled,
      Announced, Risky, Before, DueOK, Settlers, WorkerOK, CredentialsOK
<2>g0e. (WorkspaceFenced /\ ConfirmedNeverAuthenticates)'
  BY <1>1, <1>2, <1>3, <1>5, <1>w, <2>1, Later, Fields DEF IInv, Safe,
      Tokens, server, Confirmed, store, Stored, Running, SameRun, Unsettled,
      Announced, Risky, Before, Settlers, WorkspaceFenced,
      ConfirmedNeverAuthenticates
<2> QED  BY <2>c6, <2>c13, <2>g0a, <2>g0b, <2>g0c, <2>g0d, <2>g0e DEF Safe
<1> QED  BY <1>1, <1>2, <1>4, <1>5, ClearedFacts DEF IInv, Safe

LEMMA SignOutReturnsSafe ==
    ASSUME IInv, lock.who = "sign out", NEW due, NEW done \in BOOLEAN, Return(done, due),
           UNCHANGED <<wire, meta, workspace, server, detached, process>>,
           UNCHANGED store \/ Written,
           done => item' = 0
    PROVE  Safe'
<1>1. /\ lock' = Unlocked /\ UNCHANGED <<owed, job, ui, asked, fence, worker>>
      /\ session' = IF done \/ SignedAway THEN SignedOut(session.generation + 1)
                                          ELSE session
  BY ReturnSignOut DEF IInv
<1>2. UNCHANGED Mine
  BY <1>1 DEF Mine
<1>3. CASE session' = session /\ ~done /\ (~tombstone' \/ lock.step = "look")
<2>c1. TokensOK'
  BY <1>1, <1>2, <1>3, StoreMoves, Fields DEF IInv, Safe, TokensOK, Tokens,
      server, DueOK, SameRun, Settlers, store
<2>c2. StoreOK'
  BY <1>1, <1>2, <1>3, StoreMoves, Fields DEF IInv, Safe, StoreOK, Confirmed,
      store, DueOK, SameRun, Settlers, Tokens, server
<2>c3. SessionOK'
  BY <1>1, <1>3, StoreMoves DEF IInv, Safe, SessionOK, Settlers
<2>c4. WorkspaceOK'
  BY <1>1, <1>2, <1>3, StoreMoves, Fields DEF IInv, Safe, WorkspaceOK, Stored,
      store, server, Tokens, Settlers, Ready, Risky, Running, SameRun,
      Announced, Before, Confirmed, Unsettled, Current
<2>c6. JobOK'
  BY <1>1, <1>2, <1>3, StoreMoves, Fields DEF IInv, Safe, JobOK, Running,
      SameRun, Confirmed, Unsettled, Announced, Before, store, DueOK, Settlers,
      Tokens, server
<2>c7. AnnouncedOK'
  BY <1>1, <1>3, StoreMoves DEF IInv, Safe, AnnouncedOK, Running, SameRun,
      Settlers
<2>c9. ConfirmedOK'
  BY <1>1, <1>2, <1>3, StoreMoves, Fields DEF IInv, Safe, ConfirmedOK,
      Confirmed, store, DueOK, SameRun, Settlers, Tokens, server
<2>c13. FenceOK'
  BY <1>1, <1>2, <1>3, StoreMoves, Fields DEF IInv, Safe, FenceOK, Running,
      Risky, Unsettled, Confirmed, store, server, DueOK, SameRun, Settlers,
      Tokens
<2>c14. CredentialsOK'
  BY <1>1, <1>3, StoreMoves DEF IInv, Safe, CredentialsOK, SessionOK, Risky,
      server, Settlers
<2>c16. ConfirmedNeverAuthenticates'
  BY <1>1, <1>2, <1>3, StoreMoves, Fields DEF IInv, Safe,
      ConfirmedNeverAuthenticates, Confirmed, store, DueOK, SameRun, Settlers,
      Tokens, server
<2>g0. (DeletingOK /\ RiskOK /\ LockOK /\ DueOK /\ WorkerOK /\ WorkspaceFenced)'
  BY <1>1, <1>2, <1>3, StoreMoves, Fields DEF IInv, Safe, DeletingOK, Running,
      SameRun, RiskOK, Risky, Before, server, LockOK, DueOK, Settlers, Tokens,
      store, WorkerOK, WorkspaceFenced
<2> QED  BY <2>c1, <2>c2, <2>c3, <2>c4, <2>c6, <2>c7, <2>c9, <2>c13, <2>c14,
    <2>c16, <2>g0 DEF Safe
<1>4. CASE session' = SignedOut(session.generation + 1) /\ (done \/ tombstone')
  <2>1. /\ session'.token = 0 /\ session'.generation = session.generation + 1
        /\ session'.authenticated = FALSE /\ session'.deleting = FALSE
    BY <1>4, Fields
  <2>2. Stored' = 0
    BY <1>4 DEF Stored
<2>c1. TokensOK'
  BY <1>1, <1>2, <1>4, <2>1, <2>2, Later, StoreMoves, Fields DEF IInv, Safe,
      TokensOK, Tokens, server, DueOK, SameRun, Settlers, store
<2>c2. StoreOK'
  BY <1>1, <1>2, <1>4, <2>1, <2>2, Later, StoreMoves, Fields DEF IInv, Safe,
      StoreOK, Confirmed, store, DueOK, SameRun, Settlers, Tokens, server
<2>c3. SessionOK'
  BY <2>1, <2>2, Later DEF SessionOK
<2>c6. JobOK'
  BY <1>1, <1>2, <1>4, <2>1, <2>2, Later, StoreMoves, Fields DEF IInv, Safe,
      JobOK, Running, SameRun, Confirmed, Unsettled, Announced, Before, store,
      DueOK, Settlers, Tokens, server
<2>c7. AnnouncedOK'
  BY <1>1, <2>1, <2>2, Later DEF IInv, Safe, AnnouncedOK, Running, SameRun
<2>c13. FenceOK'
  BY <1>1, <1>2, <1>4, <2>1, <2>2, Later, StoreMoves, Fields DEF IInv, Safe,
      FenceOK, Running, Risky, Unsettled, Confirmed, store, server, DueOK,
      SameRun, Settlers, Tokens
<2>g0. (WorkspaceOK /\ DeletingOK /\ RiskOK /\ ConfirmedOK /\ LockOK /\ DueOK /\
        WorkerOK /\ CredentialsOK /\ WorkspaceFenced /\
        ConfirmedNeverAuthenticates)'
  BY <1>1, <1>2, <1>4, <2>1, <2>2, Later, StoreMoves, Fields DEF IInv, Safe,
      WorkspaceOK, Stored, store, server, DeletingOK, Running, SameRun, RiskOK,
      Risky, Before, ConfirmedOK, Confirmed, LockOK, DueOK, Settlers, Tokens,
      WorkerOK, CredentialsOK, Unsettled, WorkspaceFenced,
      ConfirmedNeverAuthenticates
<2> QED  BY <2>c1, <2>c2, <2>c3, <2>c6, <2>c7, <2>c13, <2>g0 DEF Safe
<1> QED  BY <1>1, <1>3, <1>4 DEF SignedAway, IInv, Typed

LEMMA MarkReturnsSafe ==
    ASSUME IInv, lock.who = "mark", NEW due, NEW done \in BOOLEAN, Return(done, due),
           UNCHANGED <<wire, meta, workspace, server, detached, process>>,
           UNCHANGED <<item, tombstone, identity>>, marker' \in {marker, Mine},
           done => marker' = Mine,
           marker' = Mine => SameRun
    PROVE  Safe'
<1>1. /\ lock' = Unlocked /\ UNCHANGED <<session, ui, fence, worker>>
      /\ job'.token = job.token /\ job'.generation = job.generation
      /\ job'.step = IF done THEN "send" ELSE "failed"
      /\ asked' = IF marker' = Mine THEN asked \cup {owner[job.token]} ELSE asked
      /\ owed' = IF ~done /\ marker' # NoDebt THEN owed \cup {job.generation} ELSE owed
  BY ReturnMark DEF IInv
<1>2. UNCHANGED Mine
  BY <1>1 DEF Mine
<1>c2. StoreOK'
  BY <1>1, <1>2, Fields DEF IInv, Safe, StoreOK, Confirmed, store, JobOK,
      Running, SameRun, Unsettled, Announced, Before, LockOK, DueOK, Settlers,
      Tokens, server
<1>c3. SessionOK'
  BY <1>1, <1>2, Fields DEF IInv, Safe, SessionOK, Confirmed, Stored, store,
      JobOK, Running, SameRun, Unsettled, Announced, Before, DeletingOK, LockOK
<1>c6. JobOK'
  BY <1>1, <1>2, Fields DEF IInv, Safe, JobOK, Running, SameRun, Confirmed,
      Unsettled, Announced, Before, store, LockOK, DueOK, Settlers, Tokens,
      server
<1>c7. AnnouncedOK'
  BY <1>1, <1>2, Fields DEF IInv, Safe, AnnouncedOK, Running, SameRun, Stored,
      Unsettled, Confirmed, Announced, store, JobOK, Before, LockOK
<1>c8. RiskOK'
  BY <1>1, <1>2, Fields DEF IInv, Safe, RiskOK, Running, SameRun, Risky, Before,
      server, LockOK
<1>c9. ConfirmedOK'
  BY <1>1, <1>2, Fields DEF IInv, Safe, ConfirmedOK, Confirmed, store, LockOK,
      Running
<1>c13. FenceOK'
  BY <1>1, <1>2, Fields DEF IInv, Safe, FenceOK, Running, Risky, Unsettled,
      Confirmed, store, server, JobOK, SameRun, Announced, Before, LockOK
<1>c14. CredentialsOK'
  BY <1>1, <1>2, Fields DEF IInv, Safe, CredentialsOK, Stored, Risky, Unsettled,
      Confirmed, store, server, JobOK, Running, SameRun, Announced, Before,
      LockOK
<1>g0. (TokensOK /\ WorkspaceOK /\ DeletingOK /\ LockOK /\ DueOK /\ WorkerOK /\
        WorkspaceFenced /\ ConfirmedNeverAuthenticates)'
  BY <1>1, <1>2, Fields DEF IInv, Safe, TokensOK, Tokens, server, WorkspaceOK,
      Stored, store, DeletingOK, Running, SameRun, LockOK, DueOK, Settlers,
      WorkerOK, WorkspaceFenced, Risky, ConfirmedNeverAuthenticates, Confirmed
<1> QED  BY <1>c2, <1>c3, <1>c6, <1>c7, <1>c8, <1>c9, <1>c13, <1>c14, <1>g0 DEF
    Safe

LEMMA FinishGoesSafe ==
    ASSUME IInv, Unwritten, Looking({"finish", "uncertain"}),
           NEW step \in {"confirm", "unmark"}, Go(step, Mine),
           step = "confirm" => SameRun /\ identity.token = job.token,
           step = "unmark" => /\ marker = Mine
                              /\ ~SameRun \/ (~Untrusted /\ identity.token = 0)
    PROVE  Safe'
<1>1. UNCHANGED <<store, wire, meta, workspace, server, detached, process>>
  BY DEF Unwritten
<1>2. lock.step = "look" /\ lock.who \in {"finish", "uncertain"}
  BY DEF Looking
<1>3. /\ lock'.who = lock.who /\ lock'.step = step /\ lock'.due = Mine
      /\ UNCHANGED <<session, owed, job, ui, fence, worker, cleanup, asked>>
  BY GoFacts DEF IInv
<1>4. UNCHANGED Mine /\ (~Untrusted /\ identity.token = 0 => item = 0)
  BY <1>3 DEF Mine, Untrusted
<1>5. /\ Mine # NoDebt /\ Mine.token \in Tokens /\ owner[Mine.token] \in asked
      /\ Mine.generation # 0
  BY <1>2, Fields, Parts DEF IInv, Safe, LockOK, JobOK, TokensOK, Running,
      Announced
<1>c1. TokensOK'
  BY <1>1, <1>2, <1>3, <1>4, <1>5, Fields DEF IInv, Safe, TokensOK, Tokens,
      server, DueOK, SameRun, Settlers, store
<1>c2. StoreOK'
  BY <1>1, <1>2, <1>3, <1>4, <1>5, Fields DEF IInv, Safe, StoreOK, Confirmed,
      store, DueOK, SameRun, Settlers, Tokens, server
<1>c6. JobOK'
  BY <1>1, <1>2, <1>3, <1>4, <1>5, Fields DEF IInv, Safe, JobOK, Running,
      SameRun, Confirmed, Unsettled, Announced, Before, store, DueOK, Settlers,
      Tokens, server
<1>g0. (SessionOK /\ WorkspaceOK)'
  BY <1>1, <1>2, <1>3, <1>4, <1>5, Fields DEF IInv, Safe, SessionOK, Confirmed,
      Stored, store, WorkspaceOK, server
<1>g1. (DeletingOK /\ AnnouncedOK /\ RiskOK /\ ConfirmedOK)'
  BY <1>1, <1>2, <1>3, <1>4, <1>5, Fields DEF IInv, Safe, DeletingOK, Running,
      SameRun, AnnouncedOK, Stored, Unsettled, Confirmed, Announced, store,
      RiskOK, Risky, Before, server, ConfirmedOK
<1>g2. (LockOK /\ DueOK /\ WorkerOK /\ FenceOK)'
  BY <1>1, <1>2, <1>3, <1>4, <1>5, Fields DEF IInv, Safe, LockOK, Running,
      DueOK, SameRun, Settlers, Tokens, store, server, WorkerOK, FenceOK, Risky,
      Unsettled, Confirmed
<1>g3. (CredentialsOK /\ WorkspaceFenced /\ ConfirmedNeverAuthenticates)'
  BY <1>1, <1>2, <1>3, <1>4, <1>5, Fields DEF IInv, Safe, CredentialsOK, Stored,
      Risky, Unsettled, Confirmed, store, server, WorkspaceFenced,
      ConfirmedNeverAuthenticates
<1> QED  BY <1>c1, <1>c2, <1>c6, <1>g0, <1>g1, <1>g2, <1>g3 DEF Safe

LEMMA FinishLookReturnsSafe ==
    ASSUME IInv, Unwritten, Looking({"finish", "uncertain"}), NEW due,
           NEW done \in BOOLEAN, Return(done, due),
           \/ ~SameRun /\ marker # Mine /\ done
           \/ /\ Untrusted \/ identity.token \notin {0, job.token} \/ marker # Mine
              /\ SameRun /\ ~done
           \/ SameRun /\ done /\ identity.token = 0 /\ ~Untrusted /\ marker = NoDebt
    PROVE  Safe'
<1>1. UNCHANGED <<store, wire, meta, workspace, server, detached, process>>
  BY DEF Unwritten
<1>2. lock.step = "look" /\ lock.who \in {"finish", "uncertain"}
  BY DEF Looking
<1>3. /\ lock' = Unlocked /\ UNCHANGED <<session, ui, fence, worker, asked>>
      /\ job'.token = job.token /\ job'.generation = job.generation
      /\ job'.step \in {"deleted", "failed"}
      /\ job'.step = "deleted" => done /\ Current /\ lock.who = "finish"
      /\ owed' = IF Current \/ ~done THEN owed \cup {job.generation}
                                     ELSE owed \ {job.generation}
  BY <1>2, ReturnFinish DEF IInv
<1>4. UNCHANGED Mine
  BY <1>3 DEF Mine
<1>c1. TokensOK'
  BY <1>1, <1>2, <1>3, <1>4, Fields DEF IInv, Safe, TokensOK, Tokens, server,
      DueOK, SameRun, Settlers, store
<1>c2. StoreOK'
  BY <1>1, <1>2, <1>3, <1>4, Fields DEF IInv, Safe, StoreOK, Confirmed, store,
      DueOK, SameRun, Settlers, Tokens, server
<1>c6. JobOK'
  BY <1>1, <1>2, <1>3, <1>4, Fields DEF IInv, Safe, JobOK, Running, SameRun,
      Confirmed, Unsettled, Announced, Before, store, LockOK
<1>c7. AnnouncedOK'
  BY <1>1, <1>2, <1>3, <1>4, Fields DEF IInv, Safe, AnnouncedOK, Running,
      SameRun, Stored, Unsettled, Confirmed, Announced, store, LockOK
<1>c8. RiskOK'
  BY <1>1, <1>2, <1>3, <1>4, Fields, Parts DEF IInv, Safe, RiskOK, Running,
      SameRun, Risky, Before, server, store, Tokens, Settlers, Ready, Announced,
      Stored, Confirmed, Unsettled, Current, TokensOK, DeletingOK, JobOK,
      AnnouncedOK, ConfirmedOK, LockOK, DueOK
<1>c9. ConfirmedOK'
  BY <1>1, <1>2, <1>3, <1>4, Fields DEF IInv, Safe, ConfirmedOK, Confirmed,
      store, LockOK, Running
<1>c13. FenceOK'
  BY <1>1, <1>2, <1>3, <1>4, Fields DEF IInv, Safe, FenceOK, Running, Risky,
      Unsettled, Confirmed, store, server, LockOK
<1>g0. (SessionOK /\ WorkspaceOK /\ DeletingOK /\ LockOK /\ DueOK /\ WorkerOK /\
        CredentialsOK /\ WorkspaceFenced /\ ConfirmedNeverAuthenticates)'
  BY <1>1, <1>2, <1>3, <1>4, Fields DEF IInv, Safe, SessionOK, Confirmed,
      Stored, store, WorkspaceOK, server, DeletingOK, Running, SameRun, LockOK,
      DueOK, Settlers, Tokens, WorkerOK, CredentialsOK, Risky, Unsettled,
      WorkspaceFenced, ConfirmedNeverAuthenticates
<1> QED  BY <1>c1, <1>c2, <1>c6, <1>c7, <1>c8, <1>c9, <1>c13, <1>g0 DEF Safe

LEMMA RefusedGoesSafe ==
    ASSUME IInv, Unwritten, Looking({"refused"}), marker = Mine, Go("unmark", Mine)
    PROVE  Safe'
<1>1. UNCHANGED <<store, wire, meta, workspace, server, detached, process>>
  BY DEF Unwritten
<1>2. lock.step = "look" /\ lock.who = "refused"
  BY DEF Looking
<1>3. /\ lock'.who = lock.who /\ lock'.step = "unmark" /\ lock'.due = Mine
      /\ UNCHANGED <<session, owed, job, ui, fence, worker, cleanup, asked>>
  BY GoFacts DEF IInv
<1>4. UNCHANGED Mine
  BY <1>3 DEF Mine
<1>c1. TokensOK'
  BY <1>1, <1>2, <1>3, <1>4, Fields DEF IInv, Safe, TokensOK, Tokens, server,
      DueOK, SameRun, Settlers, store
<1>c2. StoreOK'
  BY <1>1, <1>2, <1>3, <1>4, Fields DEF IInv, Safe, StoreOK, Confirmed, store,
      DueOK, SameRun, Settlers, Tokens, server
<1>c6. JobOK'
  BY <1>1, <1>2, <1>3, <1>4, Fields DEF IInv, Safe, JobOK, Running, SameRun,
      Confirmed, Unsettled, Announced, Before, store, DueOK, Settlers, Tokens,
      server
<1>c11. DueOK'
  BY <1>1, <1>2, <1>3, <1>4, Fields DEF IInv, Safe, DueOK, SameRun, Settlers,
      Tokens, store, server, TokensOK, DeletingOK, Running, JobOK, Confirmed,
      Unsettled, Announced, Before, AnnouncedOK, Stored, LockOK
<1>g0. (SessionOK /\ WorkspaceOK /\ DeletingOK /\ AnnouncedOK /\ RiskOK /\
        ConfirmedOK /\ LockOK /\ WorkerOK /\ FenceOK /\ CredentialsOK /\
        WorkspaceFenced /\ ConfirmedNeverAuthenticates)'
  BY <1>1, <1>2, <1>3, <1>4, Fields DEF IInv, Safe, SessionOK, Confirmed,
      Stored, store, WorkspaceOK, server, DeletingOK, Running, SameRun,
      AnnouncedOK, Unsettled, Announced, RiskOK, Risky, Before, ConfirmedOK,
      LockOK, WorkerOK, FenceOK, CredentialsOK, WorkspaceFenced,
      ConfirmedNeverAuthenticates
<1> QED  BY <1>c1, <1>c2, <1>c6, <1>c11, <1>g0 DEF Safe

LEMMA RefusedReturnsSafe ==
    ASSUME IInv, lock.who = "refused", NEW due, NEW done \in BOOLEAN, Return(done, due),
           UNCHANGED <<wire, meta, workspace, server, detached, process>>,
           UNCHANGED <<item, tombstone, identity>>, marker' \in {marker, NoDebt},
           done => marker' # Mine
    PROVE  Safe'
<1>1. /\ lock' = Unlocked /\ UNCHANGED <<session, ui, fence, worker>>
      /\ job'.token = job.token /\ job'.generation = job.generation
      /\ job'.step \in {"refresh", "failed"} /\ (job'.step = "refresh" => done)
      /\ asked' = IF done THEN asked \ {owner[job.token]} ELSE asked
      /\ owed' = IF done THEN owed ELSE owed \cup {job.generation}
  BY ReturnRefused DEF IInv
<1>2. UNCHANGED Mine
  BY <1>1 DEF Mine
<1>c2. StoreOK'
  BY <1>1, <1>2, Fields DEF IInv, Safe, StoreOK, Confirmed, store, JobOK,
      Running, SameRun, Unsettled, Announced, Before, LockOK, DueOK, Settlers,
      Tokens, server
<1>c6. JobOK'
  BY <1>1, <1>2, Fields DEF IInv, Safe, JobOK, Running, SameRun, Confirmed,
      Unsettled, Announced, Before, store, LockOK
<1>c7. AnnouncedOK'
  BY <1>1, <1>2, Fields DEF IInv, Safe, AnnouncedOK, Running, SameRun, Stored,
      Unsettled, Confirmed, Announced, store, LockOK
<1>c8. RiskOK'
  BY <1>1, <1>2, Fields DEF IInv, Safe, RiskOK, Running, SameRun, Risky, Before,
      server, LockOK
<1>c9. ConfirmedOK'
  BY <1>1, <1>2, Fields DEF IInv, Safe, ConfirmedOK, Confirmed, store, LockOK,
      Running
<1>c13. FenceOK'
  BY <1>1, <1>2, Fields DEF IInv, Safe, FenceOK, Running, Risky, Unsettled,
      Confirmed, store, server, LockOK
<1>c14. CredentialsOK'
  BY <1>1, <1>2, Fields DEF IInv, Safe, CredentialsOK, Stored, Risky, Unsettled,
      Confirmed, store, server, StoreOK, SessionOK, WorkspaceOK, DeletingOK,
      Running, SameRun, JobOK, Announced, Before, AnnouncedOK, RiskOK,
      ConfirmedOK, LockOK
<1>g0. (TokensOK /\ SessionOK /\ WorkspaceOK /\ DeletingOK /\ LockOK /\ DueOK /\
        WorkerOK /\ WorkspaceFenced /\ ConfirmedNeverAuthenticates)'
  BY <1>1, <1>2, Fields DEF IInv, Safe, TokensOK, Tokens, server, SessionOK,
      Confirmed, Stored, store, WorkspaceOK, DeletingOK, Running, SameRun,
      LockOK, DueOK, Settlers, WorkerOK, WorkspaceFenced, Risky,
      ConfirmedNeverAuthenticates
<1> QED  BY <1>c2, <1>c6, <1>c7, <1>c8, <1>c9, <1>c13, <1>c14, <1>g0 DEF Safe

LEMMA MarkGoesSafe ==
    ASSUME IInv, Unwritten, Looking({"mark"}), marker = NoDebt, SameRun, Go("write", Mine)
    PROVE  Safe'
<1>1. UNCHANGED <<store, wire, meta, workspace, server, detached, process>>
  BY DEF Unwritten
<1>2. lock.step = "look" /\ lock.who = "mark"
  BY DEF Looking
<1>3. /\ lock'.who = lock.who /\ lock'.step = "write" /\ lock'.due = Mine
      /\ UNCHANGED <<session, owed, job, ui, fence, worker, cleanup, asked>>
  BY GoFacts DEF IInv
<1>4. UNCHANGED Mine /\ Mine.generation # 0 /\ Mine.token \in Tokens
  BY <1>2, <1>3, Fields DEF IInv, Safe, LockOK, JobOK, TokensOK, Running, Mine
<1>c1. TokensOK'
  BY <1>1, <1>2, <1>3, <1>4, Fields DEF IInv, Safe, TokensOK, Tokens, server,
      DueOK, SameRun, Settlers, store
<1>c2. StoreOK'
  BY <1>1, <1>2, <1>3, <1>4, Fields DEF IInv, Safe, StoreOK, Confirmed, store,
      DueOK, SameRun, Settlers, Tokens, server
<1>c6. JobOK'
  BY <1>1, <1>2, <1>3, <1>4, Fields DEF IInv, Safe, JobOK, Running, SameRun,
      Confirmed, Unsettled, Announced, Before, store, LockOK
<1>g0. (SessionOK /\ WorkspaceOK /\ DeletingOK /\ AnnouncedOK /\ RiskOK /\
        ConfirmedOK /\ LockOK /\ DueOK /\ WorkerOK /\ FenceOK /\
        CredentialsOK /\ WorkspaceFenced /\ ConfirmedNeverAuthenticates)'
  BY <1>1, <1>2, <1>3, <1>4, Fields DEF IInv, Safe, SessionOK, Confirmed,
      Stored, store, WorkspaceOK, server, DeletingOK, Running, SameRun,
      AnnouncedOK, Unsettled, Announced, RiskOK, Risky, Before, ConfirmedOK,
      LockOK, DueOK, Settlers, Tokens, WorkerOK, FenceOK, CredentialsOK,
      WorkspaceFenced, ConfirmedNeverAuthenticates
<1> QED  BY <1>c1, <1>c2, <1>c6, <1>g0 DEF Safe

LEMMA ExpireGoesSafe ==
    ASSUME IInv, Unwritten, Looking({"expire"}), Go("tombstone", NoDebt)
    PROVE  Safe'
<1>1. UNCHANGED <<store, wire, meta, workspace, server, detached, process>>
  BY DEF Unwritten
<1>2. lock.step = "look" /\ lock.who = "expire"
  BY DEF Looking
<1>3. /\ lock'.who = lock.who /\ lock'.step = "tombstone" /\ lock'.due = NoDebt
      /\ UNCHANGED <<session, owed, job, ui, fence, worker, cleanup, asked>>
  BY GoFacts DEF IInv
<1>4. UNCHANGED Mine
  BY <1>3 DEF Mine
<1>c1. TokensOK'
  BY <1>1, <1>2, <1>3, <1>4, Fields DEF IInv, Safe, TokensOK, Tokens, server,
      DueOK, SameRun, Settlers, store
<1>c2. StoreOK'
  BY <1>1, <1>2, <1>3, <1>4, Fields DEF IInv, Safe, StoreOK, Confirmed, store,
      DueOK, SameRun, Settlers, Tokens, server
<1>c6. JobOK'
  BY <1>1, <1>2, <1>3, <1>4, Fields DEF IInv, Safe, JobOK, Running, SameRun,
      Confirmed, Unsettled, Announced, Before, store, DueOK, Settlers, Tokens,
      server
<1>g0. (SessionOK /\ WorkspaceOK /\ DeletingOK /\ AnnouncedOK /\ RiskOK /\
        ConfirmedOK /\ LockOK /\ DueOK /\ WorkerOK /\ FenceOK /\
        CredentialsOK /\ WorkspaceFenced /\ ConfirmedNeverAuthenticates)'
  BY <1>1, <1>2, <1>3, <1>4, Fields DEF IInv, Safe, SessionOK, Confirmed,
      Stored, store, WorkspaceOK, server, DeletingOK, Running, SameRun,
      AnnouncedOK, Unsettled, Announced, RiskOK, Risky, Before, ConfirmedOK,
      LockOK, DueOK, Settlers, Tokens, WorkerOK, FenceOK, CredentialsOK,
      WorkspaceFenced, ConfirmedNeverAuthenticates
<1> QED  BY <1>c1, <1>c2, <1>c6, <1>g0 DEF Safe

LEMMA WriteGoesSafe ==
    ASSUME IInv, Written, NEW step \in {"rearm", "tombstone", "secret", "forget", "unmark"},
           step = Following, Go(step, lock.due),
           UNCHANGED <<wire, meta, workspace, server, detached, process>>
    PROVE  Safe'
<1>1. /\ lock'.who = lock.who /\ lock'.step = step /\ lock'.due = lock.due
      /\ UNCHANGED <<session, owed, job, ui, fence, worker, cleanup, asked>>
  BY GoFacts DEF IInv
<1>2. UNCHANGED Mine
  BY <1>1 DEF Mine
<1>3. CASE lock.step = "confirm" /\ identity' = lock.due /\ UNCHANGED <<item, tombstone, marker>>
  <2>1. /\ step \in {"rearm", "tombstone"} /\ (step = "tombstone" => marker = lock.due)
        /\ lock.who \in {"finish", "uncertain"} /\ lock.due = Mine /\ Mine # NoDebt
        /\ SameRun /\ identity.token = Mine.token /\ session.deleting
        /\ owner[Mine.token] \in asked
        /\ Mine.token # 0 /\ Mine.token \in Tokens /\ Mine.generation # 0
    BY <1>3, Fields, Parts DEF Following, IInv, Safe, DueOK, JobOK, LockOK,
        TokensOK, Running, Announced
<2>c2. StoreOK'
  BY <1>1, <1>2, <1>3, <2>1, Fields DEF IInv, Safe, StoreOK, Confirmed, store,
      DueOK, SameRun, Settlers, Tokens, server
<2>c3. SessionOK'
  BY <1>1, <1>2, <1>3, <2>1, Fields DEF IInv, Safe, SessionOK, Confirmed,
      Stored, store, DeletingOK, Running, SameRun
<2>c6. JobOK'
  BY <1>1, <1>2, <1>3, <2>1, Fields DEF IInv, Safe, JobOK, Running, SameRun,
      Confirmed, Unsettled, Announced, Before, store, LockOK, DueOK, Settlers,
      Tokens, server
<2>g0. (TokensOK /\ WorkspaceOK)'
  BY <1>1, <1>2, <1>3, <2>1, Fields DEF IInv, Safe, TokensOK, Tokens, server,
      WorkspaceOK, Stored, store
<2>g1. (DeletingOK /\ AnnouncedOK /\ RiskOK /\ ConfirmedOK)'
  BY <1>1, <1>2, <1>3, <2>1, Fields DEF IInv, Safe, DeletingOK, Running,
      SameRun, AnnouncedOK, Stored, Unsettled, Confirmed, Announced, store,
      RiskOK, Risky, Before, server, ConfirmedOK
<2>g2. (LockOK /\ DueOK /\ WorkerOK /\ FenceOK)'
  BY <1>1, <1>2, <1>3, <2>1, Fields DEF IInv, Safe, LockOK, Running, DueOK,
      SameRun, Settlers, Tokens, store, server, WorkerOK, FenceOK, Risky,
      Unsettled, Confirmed
<2>g3. (CredentialsOK /\ WorkspaceFenced /\ ConfirmedNeverAuthenticates)'
  BY <1>1, <1>2, <1>3, <2>1, Fields DEF IInv, Safe, CredentialsOK, Stored,
      Risky, Unsettled, Confirmed, store, server, WorkspaceFenced,
      ConfirmedNeverAuthenticates
<2> QED  BY <2>c2, <2>c3, <2>c6, <2>g0, <2>g1, <2>g2, <2>g3 DEF Safe
<1>4. CASE lock.step = "rearm" /\ marker' = lock.due /\ UNCHANGED <<item, tombstone, identity>>
  <2>1. step = "tombstone"
    BY <1>4 DEF Following
  <2>2. /\ lock.due # NoDebt /\ identity = lock.due /\ Confirmed /\ Unsettled /\ Unsettled'
        /\ identity.token # 0
    BY <1>4, Fields, Parts DEF IInv, Safe, DueOK, StoreOK, Confirmed, Unsettled
<2>c2. StoreOK'
  BY <1>1, <1>2, <1>4, <2>1, <2>2, Fields DEF IInv, Safe, StoreOK, Confirmed,
      store, DueOK, SameRun, Settlers, Tokens, server
<2>c6. JobOK'
  BY <1>1, <1>2, <1>4, <2>1, <2>2, Fields DEF IInv, Safe, JobOK, Running,
      SameRun, Confirmed, Unsettled, Announced, Before, store, DueOK, Settlers,
      Tokens, server
<2>g0. (TokensOK /\ SessionOK /\ WorkspaceOK)'
  BY <1>1, <1>2, <1>4, <2>1, <2>2, Fields DEF IInv, Safe, TokensOK, Tokens,
      server, SessionOK, Confirmed, Stored, store, WorkspaceOK
<2>g1. (DeletingOK /\ AnnouncedOK /\ RiskOK /\ ConfirmedOK)'
  BY <1>1, <1>2, <1>4, <2>1, <2>2, Fields DEF IInv, Safe, DeletingOK, Running,
      SameRun, AnnouncedOK, Stored, Unsettled, Confirmed, Announced, store,
      RiskOK, Risky, Before, server, ConfirmedOK
<2>g2. (LockOK /\ DueOK /\ WorkerOK /\ FenceOK)'
  BY <1>1, <1>2, <1>4, <2>1, <2>2, Fields DEF IInv, Safe, LockOK, Running,
      DueOK, SameRun, Settlers, Tokens, store, server, WorkerOK, FenceOK, Risky,
      Unsettled, Confirmed
<2>g3. (CredentialsOK /\ WorkspaceFenced /\ ConfirmedNeverAuthenticates)'
  BY <1>1, <1>2, <1>4, <2>1, <2>2, Fields DEF IInv, Safe, CredentialsOK, Stored,
      Risky, Unsettled, Confirmed, store, server, WorkspaceFenced,
      ConfirmedNeverAuthenticates
<2> QED  BY <2>c2, <2>c6, <2>g0, <2>g1, <2>g2, <2>g3 DEF Safe
<1>5. CASE lock.step = "tombstone" /\ tombstone' = TRUE /\ UNCHANGED <<item, identity, marker>>
  <2>1. step = "secret"
    BY <1>5 DEF Following
<2>c2. StoreOK'
  BY <1>1, <1>2, <1>5, <2>1, Fields DEF IInv, Safe, StoreOK, Confirmed, store,
      DueOK, SameRun, Settlers, Tokens, server
<2>c6. JobOK'
  BY <1>1, <1>2, <1>5, <2>1, Fields DEF IInv, Safe, JobOK, Running, SameRun,
      Confirmed, Unsettled, Announced, Before, store, DueOK, Settlers, Tokens,
      server
<2>g0. TokensOK'
  BY <1>1, <1>2, <1>5, <2>1, Fields DEF IInv, Safe, TokensOK, Tokens, server
<2>g1. SessionOK'
  BY <1>1, <1>2, <1>5, <2>1, Fields DEF IInv, Safe, SessionOK, Confirmed,
      Stored, store
<2>g2. WorkspaceOK'
  BY <1>1, <1>2, <1>5, <2>1, Fields DEF IInv, Safe, WorkspaceOK, Stored, store,
      server
<2>g3. DeletingOK'
  BY <1>1, <1>2, <1>5, <2>1, Fields DEF IInv, Safe, DeletingOK, Running, SameRun
<2>g4. AnnouncedOK'
  BY <1>1, <1>2, <1>5, <2>1, Fields DEF IInv, Safe, AnnouncedOK, Running,
      SameRun, Stored, Unsettled, Confirmed, Announced, store
<2>g5. RiskOK'
  BY <1>1, <1>2, <1>5, <2>1, Fields DEF IInv, Safe, RiskOK, Running, SameRun,
      Risky, Before, server
<2>g6. ConfirmedOK'
  BY <1>1, <1>2, <1>5, <2>1, Fields DEF IInv, Safe, ConfirmedOK, Confirmed,
      store
<2>g7. LockOK'
  BY <1>1, <1>2, <1>5, <2>1, Fields DEF IInv, Safe, LockOK, Running
<2>g8. DueOK'
  BY <1>1, <1>2, <1>5, <2>1, Fields DEF IInv, Safe, DueOK, SameRun, Settlers,
      Tokens, store, server
<2>g9. WorkerOK'
  BY <1>1, <1>2, <1>5, <2>1, Fields DEF IInv, Safe, WorkerOK
<2>g10. FenceOK'
  BY <1>1, <1>2, <1>5, <2>1, Fields DEF IInv, Safe, FenceOK, Running, Risky,
      Unsettled, Confirmed, store, server
<2>g11. CredentialsOK'
  BY <1>1, <1>2, <1>5, <2>1, Fields DEF IInv, Safe, CredentialsOK, Stored,
      Risky, Unsettled, Confirmed, store, server
<2>g12. WorkspaceFenced'
  BY <1>1, <1>2, <1>5, <2>1, Fields DEF IInv, Safe, WorkspaceFenced, Risky,
      server
<2>g13. ConfirmedNeverAuthenticates'
  BY <1>1, <1>2, <1>5, <2>1, Fields DEF IInv, Safe, ConfirmedNeverAuthenticates,
      Confirmed, store
<2> QED  BY <2>c2, <2>c6, <2>g0, <2>g1, <2>g2, <2>g3, <2>g4, <2>g5, <2>g6,
    <2>g7, <2>g8, <2>g9, <2>g10, <2>g11, <2>g12, <2>g13 DEF Safe
<1>6. CASE lock.step = "secret" /\ item' = 0 /\ UNCHANGED <<tombstone, identity, marker>>
  <2>1. step = "forget"
    BY <1>6 DEF Following
<2>c2. StoreOK'
  BY <1>1, <1>2, <1>6, <2>1, Fields DEF IInv, Safe, StoreOK, Confirmed, store,
      DueOK, SameRun, Settlers, Tokens, server
<2>c6. JobOK'
  BY <1>1, <1>2, <1>6, <2>1, Fields DEF IInv, Safe, JobOK, Running, SameRun,
      Confirmed, Unsettled, Announced, Before, store, DueOK, Settlers, Tokens,
      server
<2>g0. TokensOK'
  BY <1>1, <1>2, <1>6, <2>1, Fields DEF IInv, Safe, TokensOK, Tokens, server
<2>g1. SessionOK'
  BY <1>1, <1>2, <1>6, <2>1, Fields DEF IInv, Safe, SessionOK, Confirmed,
      Stored, store
<2>g2. WorkspaceOK'
  BY <1>1, <1>2, <1>6, <2>1, Fields DEF IInv, Safe, WorkspaceOK, Stored, store,
      server
<2>g3. DeletingOK'
  BY <1>1, <1>2, <1>6, <2>1, Fields DEF IInv, Safe, DeletingOK, Running, SameRun
<2>g4. AnnouncedOK'
  BY <1>1, <1>2, <1>6, <2>1, Fields DEF IInv, Safe, AnnouncedOK, Running,
      SameRun, Stored, Unsettled, Confirmed, Announced, store
<2>g5. RiskOK'
  BY <1>1, <1>2, <1>6, <2>1, Fields DEF IInv, Safe, RiskOK, Running, SameRun,
      Risky, Before, server
<2>g6. ConfirmedOK'
  BY <1>1, <1>2, <1>6, <2>1, Fields DEF IInv, Safe, ConfirmedOK, Confirmed,
      store
<2>g7. LockOK'
  BY <1>1, <1>2, <1>6, <2>1, Fields DEF IInv, Safe, LockOK, Running
<2>g8. DueOK'
  BY <1>1, <1>2, <1>6, <2>1, Fields DEF IInv, Safe, DueOK, SameRun, Settlers,
      Tokens, store, server
<2>g9. WorkerOK'
  BY <1>1, <1>2, <1>6, <2>1, Fields DEF IInv, Safe, WorkerOK
<2>g10. FenceOK'
  BY <1>1, <1>2, <1>6, <2>1, Fields DEF IInv, Safe, FenceOK, Running, Risky,
      Unsettled, Confirmed, store, server
<2>g11. CredentialsOK'
  BY <1>1, <1>2, <1>6, <2>1, Fields DEF IInv, Safe, CredentialsOK, Stored,
      Risky, Unsettled, Confirmed, store, server
<2>g12. WorkspaceFenced'
  BY <1>1, <1>2, <1>6, <2>1, Fields DEF IInv, Safe, WorkspaceFenced, Risky,
      server
<2>g13. ConfirmedNeverAuthenticates'
  BY <1>1, <1>2, <1>6, <2>1, Fields DEF IInv, Safe, ConfirmedNeverAuthenticates,
      Confirmed, store
<2> QED  BY <2>c2, <2>c6, <2>g0, <2>g1, <2>g2, <2>g3, <2>g4, <2>g5, <2>g6,
    <2>g7, <2>g8, <2>g9, <2>g10, <2>g11, <2>g12, <2>g13 DEF Safe
<1>7. CASE lock.step = "forget" /\ identity' = NoDebt /\ UNCHANGED <<item, tombstone, marker>>
  <2>1. step = "unmark" /\ lock.due # NoDebt
    BY <1>7 DEF Following
  <2>2. /\ item = 0 /\ tombstone /\ marker = lock.due
    BY <1>7, <2>1 DEF IInv, Safe, DueOK
<2>c2. StoreOK'
  BY <1>1, <1>2, <1>7, <2>1, <2>2, Fields DEF IInv, Safe, StoreOK, Confirmed,
      store, DueOK, SameRun, Settlers, Tokens, server
<2>c6. JobOK'
  BY <1>1, <1>2, <1>7, <2>1, <2>2, Fields DEF IInv, Safe, JobOK, Running,
      SameRun, Confirmed, Unsettled, Announced, Before, store, DueOK, Settlers,
      Tokens, server
<2>g0. (TokensOK /\ SessionOK /\ WorkspaceOK)'
  BY <1>1, <1>2, <1>7, <2>1, <2>2, Fields DEF IInv, Safe, TokensOK, Tokens,
      server, SessionOK, Confirmed, Stored, store, WorkspaceOK
<2>g1. (DeletingOK /\ AnnouncedOK /\ RiskOK /\ ConfirmedOK)'
  BY <1>1, <1>2, <1>7, <2>1, <2>2, Fields DEF IInv, Safe, DeletingOK, Running,
      SameRun, AnnouncedOK, Stored, Unsettled, Confirmed, Announced, store,
      RiskOK, Risky, Before, server, ConfirmedOK
<2>g2. (LockOK /\ DueOK /\ WorkerOK /\ FenceOK)'
  BY <1>1, <1>2, <1>7, <2>1, <2>2, Fields DEF IInv, Safe, LockOK, Running,
      DueOK, SameRun, Settlers, Tokens, store, server, WorkerOK, FenceOK, Risky,
      Unsettled, Confirmed
<2>g3. (CredentialsOK /\ WorkspaceFenced /\ ConfirmedNeverAuthenticates)'
  BY <1>1, <1>2, <1>7, <2>1, <2>2, Fields DEF IInv, Safe, CredentialsOK, Stored,
      Risky, Unsettled, Confirmed, store, server, WorkspaceFenced,
      ConfirmedNeverAuthenticates
<2> QED  BY <2>c2, <2>c6, <2>g0, <2>g1, <2>g2, <2>g3 DEF Safe
<1>8. ~(lock.step = "unmark" \/ lock.step = "write")
  BY DEF Following
<1> QED  BY <1>3, <1>4, <1>5, <1>6, <1>7, <1>8, WrittenFacts DEF IInv

LEMMA TimerClearedSafe ==
    ASSUME IInv, lock.step = "forget", lock.who = "timer", lock.due = NoDebt,
           identity' = NoDebt, UNCHANGED <<item, tombstone, marker>>, Return(TRUE, NoDebt),
           UNCHANGED <<wire, meta, workspace, server, detached, process>>
    PROVE  Safe'
<1>1. /\ lock' = Unlocked /\ UNCHANGED <<owed, job, fence, asked, ui, session>>
      /\ worker'.generation = worker.generation /\ worker'.at = worker.at
  BY ReturnReady DEF IInv, Ready
<1>2. UNCHANGED Mine
  BY <1>1 DEF Mine
<1>3. item = 0 /\ tombstone /\ ~session.authenticated
  BY DEF IInv, Safe, DueOK
<1>c2. StoreOK'
  BY <1>1, <1>2, <1>3, Fields DEF IInv, Safe, StoreOK, Confirmed, store, DueOK,
      SameRun, Settlers, Tokens, server
<1>c6. JobOK'
  BY <1>1, <1>2, <1>3, Fields DEF IInv, Safe, JobOK, Running, SameRun,
      Confirmed, Unsettled, Announced, Before, store, DueOK, Settlers, Tokens,
      server
<1>g0. (TokensOK /\ SessionOK /\ WorkspaceOK /\ DeletingOK /\ AnnouncedOK /\
        RiskOK /\ ConfirmedOK /\ LockOK /\ DueOK /\ WorkerOK /\ FenceOK /\
        CredentialsOK /\ WorkspaceFenced /\ ConfirmedNeverAuthenticates)'
  BY <1>1, <1>2, <1>3, Fields DEF IInv, Safe, TokensOK, Tokens, server,
      SessionOK, Confirmed, Stored, store, WorkspaceOK, DeletingOK, Running,
      SameRun, AnnouncedOK, Unsettled, Announced, RiskOK, Risky, Before,
      ConfirmedOK, LockOK, DueOK, Settlers, WorkerOK, FenceOK, CredentialsOK,
      WorkspaceFenced, ConfirmedNeverAuthenticates
<1> QED  BY <1>c2, <1>c6, <1>g0 DEF Safe

LEMMA ExpireReturnsSafe ==
    ASSUME IInv, lock.who = "expire", NEW done \in BOOLEAN, Return(done, NoDebt),
           UNCHANGED <<wire, meta, workspace, server, detached, process>>,
           UNCHANGED store \/ Written
    PROVE  Safe'
<1>1. /\ lock' = Unlocked /\ UNCHANGED <<owed, job, ui, asked, fence>>
      /\ session' = IF done THEN SignedOut(session.generation) ELSE session
      /\ worker'.generation = worker.generation /\ worker'.at = "none"
  BY ReturnExpire DEF IInv
<1>2. UNCHANGED Mine
  BY <1>1 DEF Mine
<1>3. /\ session'.token = 0 /\ session'.generation = session.generation
      /\ session'.authenticated = FALSE /\ session'.deleting = FALSE
      /\ session.token = 0 /\ ~session.authenticated /\ ~session.deleting
  BY <1>1, Fields, Parts DEF IInv, Safe, LockOK, SessionOK, DeletingOK
<1>4. lock.who \notin Settlers
  BY DEF Settlers
<1>c2. StoreOK'
  BY <1>1, <1>2, <1>3, <1>4, StoreMoves, Fields DEF IInv, Safe, StoreOK,
      Confirmed, store, DueOK, SameRun, Settlers, Tokens, server
<1>c3. SessionOK'
  BY <1>3, StoreMoves, <1>4 DEF IInv, Safe, SessionOK
<1>c6. JobOK'
  BY <1>1, <1>2, <1>3, <1>4, StoreMoves, Fields DEF IInv, Safe, JobOK, Running,
      SameRun, Confirmed, Unsettled, Announced, Before, store, DueOK, Settlers,
      Tokens, server
<1>g0. (TokensOK /\ WorkspaceOK /\ DeletingOK /\ AnnouncedOK /\ RiskOK /\
        ConfirmedOK /\ LockOK /\ DueOK /\ WorkerOK /\ FenceOK /\
        CredentialsOK /\ WorkspaceFenced /\ ConfirmedNeverAuthenticates)'
  BY <1>1, <1>2, <1>3, <1>4, StoreMoves, Fields DEF IInv, Safe, TokensOK,
      Tokens, server, WorkspaceOK, Stored, store, DeletingOK, Running, SameRun,
      AnnouncedOK, Unsettled, Confirmed, Announced, RiskOK, Risky, Before,
      ConfirmedOK, LockOK, DueOK, Settlers, WorkerOK, FenceOK, CredentialsOK,
      WorkspaceFenced, ConfirmedNeverAuthenticates
<1> QED  BY <1>c2, <1>c3, <1>c6, <1>g0 DEF Safe

LEMMA FinishReturnsSafe ==
    ASSUME IInv, lock.who \in {"finish", "uncertain"}, lock.step # "look",
           NEW done \in BOOLEAN, Return(done, lock.due), done => lock.step = "unmark" /\ Written,
           UNCHANGED <<wire, meta, workspace, server, detached, process>>,
           UNCHANGED store \/ Written
    PROVE  Safe'
<1>1. /\ lock' = Unlocked /\ UNCHANGED <<session, ui, fence, worker, asked>>
      /\ job'.token = job.token /\ job'.generation = job.generation
      /\ job'.step \in {"deleted", "failed"}
      /\ job'.step = "deleted" => done /\ Current /\ lock.who = "finish"
      /\ owed' = IF Current \/ ~done THEN owed \cup {job.generation}
                                     ELSE owed \ {job.generation}
  BY ReturnFinish DEF IInv
<1>2. UNCHANGED Mine
  BY <1>1 DEF Mine
<1>3. /\ Running /\ job.step = "wait" /\ job.token # 0 /\ job.token \in Tokens
      /\ job.generation # 0 /\ owner[job.token] \in asked
      /\ Mine.token = job.token /\ Mine.generation = job.generation
  BY Fields DEF IInv, Safe, LockOK, JobOK, TokensOK, Running, Announced
<1>a. SameRun <=> Current
  BY <1>3 DEF IInv, Safe, DeletingOK, JobOK, SameRun, Current
<1>b. /\ lock.step \in {"rearm", "write", "confirm", "tombstone", "secret", "forget", "unmark"}
      /\ lock.due \in {NoDebt, Mine}
  BY Fields DEF IInv, Safe, Typed, Locks, LockOK, DueOK, Settlers
<1>c. /\ lock.due = Mine /\ lock.step # "write"
      /\ SameRun \/ (lock.step = "unmark" /\ ~SameRun)
  BY <1>b DEF IInv, Safe, DueOK
<1>4. CASE UNCHANGED store
<2>c1. TokensOK'
  BY <1>1, <1>2, <1>3, <1>a, <1>c, <1>4, Fields DEF IInv, Safe, TokensOK,
      Tokens, server, DueOK, SameRun, Settlers, store
<2>c2. StoreOK'
  BY <1>1, <1>2, <1>3, <1>a, <1>c, <1>4, Fields DEF IInv, Safe, StoreOK,
      Confirmed, store, DueOK, SameRun, Settlers, Tokens, server
<2>c9. ConfirmedOK'
  BY <1>1, <1>2, <1>3, <1>a, <1>c, <1>4, Fields DEF IInv, Safe, ConfirmedOK,
      Confirmed, store, DeletingOK, Running, SameRun
<2>g0. (SessionOK /\ WorkspaceOK)'
  BY <1>1, <1>2, <1>3, <1>a, <1>c, <1>4, Fields DEF IInv, Safe, SessionOK,
      Confirmed, Stored, store, WorkspaceOK, server
<2>g1. (DeletingOK /\ JobOK /\ AnnouncedOK /\ RiskOK)'
  BY <1>1, <1>2, <1>3, <1>a, <1>c, <1>4, Fields DEF IInv, Safe, DeletingOK,
      Running, SameRun, JobOK, Confirmed, Unsettled, Announced, Before, store,
      AnnouncedOK, Stored, RiskOK, Risky, server
<2>g2. (LockOK /\ DueOK /\ WorkerOK /\ FenceOK)'
  BY <1>1, <1>2, <1>3, <1>a, <1>c, <1>4, Fields DEF IInv, Safe, LockOK, Running,
      DueOK, SameRun, Settlers, Tokens, store, server, WorkerOK, FenceOK, Risky,
      Unsettled, Confirmed
<2>g3. (CredentialsOK /\ WorkspaceFenced /\ ConfirmedNeverAuthenticates)'
  BY <1>1, <1>2, <1>3, <1>a, <1>c, <1>4, Fields DEF IInv, Safe, CredentialsOK,
      Stored, Risky, Unsettled, Confirmed, store, server, WorkspaceFenced,
      ConfirmedNeverAuthenticates
<2> QED  BY <2>c1, <2>c2, <2>c9, <2>g0, <2>g1, <2>g2, <2>g3 DEF Safe
<1>5. CASE lock.step = "rearm" /\ marker' = lock.due /\ UNCHANGED <<item, tombstone, identity>>
<2>c2. StoreOK'
  BY <1>1, <1>2, <1>3, <1>a, <1>c, <1>5, Fields DEF IInv, Safe, StoreOK,
      Confirmed, store, DueOK, SameRun, Settlers, Tokens, server
<2>c3. SessionOK'
  BY <1>1, <1>2, <1>3, <1>a, <1>c, <1>5, Fields DEF IInv, Safe, SessionOK,
      Confirmed, Stored, store, DueOK, SameRun, Settlers, Tokens, server
<2>c13. FenceOK'
  BY <1>1, <1>2, <1>3, <1>a, <1>c, <1>5, Fields DEF IInv, Safe, FenceOK,
      Running, Risky, Unsettled, Confirmed, store, server, DueOK, SameRun,
      Settlers, Tokens
<2>g0a. (TokensOK /\ WorkspaceOK /\ DeletingOK)'
  BY <1>1, <1>2, <1>3, <1>a, <1>c, <1>5, Fields DEF IInv, Safe, TokensOK,
      Tokens, server, WorkspaceOK, Stored, store, DeletingOK, Running, SameRun,
      Confirmed, Unsettled, Announced, Before, Risky, Settlers
<2>g0b. (JobOK /\ AnnouncedOK /\ RiskOK)'
  BY <1>1, <1>2, <1>3, <1>a, <1>c, <1>5, Fields DEF IInv, Safe, Tokens,
      server, Stored, store, Running, SameRun, JobOK, Confirmed, Unsettled,
      Announced, Before, AnnouncedOK, RiskOK, Risky, Settlers
<2>g0c. (ConfirmedOK /\ LockOK /\ DueOK)'
  BY <1>1, <1>2, <1>3, <1>a, <1>c, <1>5, Fields DEF IInv, Safe, Tokens,
      server, Stored, store, Running, SameRun, Confirmed, Unsettled, Announced,
      Before, Risky, ConfirmedOK, LockOK, DueOK, Settlers
<2>g0d. (WorkerOK /\ CredentialsOK /\ WorkspaceFenced)'
  BY <1>1, <1>2, <1>3, <1>a, <1>c, <1>5, Fields DEF IInv, Safe, Tokens,
      server, Stored, store, Running, SameRun, Confirmed, Unsettled, Announced,
      Before, Risky, Settlers, WorkerOK, CredentialsOK, WorkspaceFenced
<2>g0e. ConfirmedNeverAuthenticates'
  BY <1>1, <1>2, <1>3, <1>a, <1>c, <1>5, Fields DEF IInv, Safe, Tokens,
      server, Stored, store, Running, SameRun, Confirmed, Unsettled, Announced,
      Before, Risky, Settlers, ConfirmedNeverAuthenticates
<2> QED  BY <2>c2, <2>c3, <2>c13, <2>g0a, <2>g0b, <2>g0c, <2>g0d, <2>g0e DEF Safe
<1>6. CASE lock.step = "confirm" /\ identity' = lock.due /\ UNCHANGED <<item, tombstone, marker>>
<2>c2. StoreOK'
  BY <1>1, <1>2, <1>3, <1>a, <1>c, <1>6, Fields DEF IInv, Safe, StoreOK,
      Confirmed, store, DueOK, SameRun, Settlers, Tokens, server
<2>c3. SessionOK'
  BY <1>1, <1>2, <1>3, <1>a, <1>c, <1>6, Fields DEF IInv, Safe, SessionOK,
      Confirmed, Stored, store, JobOK, Running, SameRun, Unsettled, Announced,
      Before, DeletingOK
<2>c13. FenceOK'
  BY <1>1, <1>2, <1>3, <1>a, <1>c, <1>6, Fields DEF IInv, Safe, FenceOK,
      Running, Risky, Unsettled, Confirmed, store, server, JobOK, SameRun,
      Announced, Before
<2>c16. ConfirmedNeverAuthenticates'
  BY <1>1, <1>2, <1>3, <1>a, <1>c, <1>6, Fields DEF IInv, Safe,
      ConfirmedNeverAuthenticates, Confirmed, store, JobOK, Running, SameRun,
      Unsettled, Announced, Before
<2>g0a. (TokensOK /\ WorkspaceOK /\ DeletingOK)'
  BY <1>1, <1>2, <1>3, <1>a, <1>c, <1>6, Fields DEF IInv, Safe, TokensOK,
      Tokens, server, WorkspaceOK, Stored, store, DeletingOK, Running, SameRun,
      Confirmed, Unsettled, Announced, Before, Risky, Settlers
<2>g0b. (JobOK /\ AnnouncedOK /\ RiskOK)'
  BY <1>1, <1>2, <1>3, <1>a, <1>c, <1>6, Fields DEF IInv, Safe, Tokens,
      server, Stored, store, Running, SameRun, JobOK, Confirmed, Unsettled,
      Announced, Before, AnnouncedOK, RiskOK, Risky, Settlers
<2>g0c. (ConfirmedOK /\ LockOK /\ DueOK)'
  BY <1>1, <1>2, <1>3, <1>a, <1>c, <1>6, Fields DEF IInv, Safe, Tokens,
      server, Stored, store, Running, SameRun, Confirmed, Unsettled, Announced,
      Before, Risky, ConfirmedOK, LockOK, DueOK, Settlers
<2>g0d. (WorkerOK /\ CredentialsOK /\ WorkspaceFenced)'
  BY <1>1, <1>2, <1>3, <1>a, <1>c, <1>6, Fields DEF IInv, Safe, Tokens,
      server, Stored, store, Running, SameRun, Confirmed, Unsettled, Announced,
      Before, Risky, Settlers, WorkerOK, CredentialsOK, WorkspaceFenced
<2> QED  BY <2>c2, <2>c3, <2>c13, <2>c16, <2>g0a, <2>g0b, <2>g0c, <2>g0d DEF Safe
<1>7. CASE lock.step = "tombstone" /\ tombstone' = TRUE /\ UNCHANGED <<item, identity, marker>>
<2>c2. StoreOK'
  BY <1>1, <1>2, <1>3, <1>a, <1>c, <1>7, Fields DEF IInv, Safe, StoreOK,
      Confirmed, store, DueOK, SameRun, Settlers, Tokens, server
<2>g0a. (TokensOK /\ SessionOK /\ WorkspaceOK)'
  BY <1>1, <1>2, <1>3, <1>a, <1>c, <1>7, Fields DEF IInv, Safe, TokensOK,
      Tokens, server, SessionOK, Confirmed, Stored, store, WorkspaceOK, Running,
      SameRun, Unsettled, Announced, Before, Risky, Settlers
<2>g0b. (DeletingOK /\ JobOK /\ AnnouncedOK)'
  BY <1>1, <1>2, <1>3, <1>a, <1>c, <1>7, Fields DEF IInv, Safe, Tokens,
      server, Confirmed, Stored, store, DeletingOK, Running, SameRun, JobOK,
      Unsettled, Announced, Before, AnnouncedOK, Risky, Settlers
<2>g0c. (RiskOK /\ ConfirmedOK /\ LockOK)'
  BY <1>1, <1>2, <1>3, <1>a, <1>c, <1>7, Fields DEF IInv, Safe, Tokens,
      server, Confirmed, Stored, store, Running, SameRun, Unsettled, Announced,
      Before, RiskOK, Risky, ConfirmedOK, LockOK, Settlers
<2>g0d. (DueOK /\ WorkerOK /\ FenceOK)'
  BY <1>1, <1>2, <1>3, <1>a, <1>c, <1>7, Fields DEF IInv, Safe, Tokens,
      server, Confirmed, Stored, store, Running, SameRun, Unsettled, Announced,
      Before, Risky, DueOK, Settlers, WorkerOK, FenceOK
<2>g0e. (CredentialsOK /\ WorkspaceFenced /\ ConfirmedNeverAuthenticates)'
  BY <1>1, <1>2, <1>3, <1>a, <1>c, <1>7, Fields DEF IInv, Safe, Tokens,
      server, Confirmed, Stored, store, Running, SameRun, Unsettled, Announced,
      Before, Risky, Settlers, CredentialsOK, WorkspaceFenced,
      ConfirmedNeverAuthenticates
<2> QED  BY <2>c2, <2>g0a, <2>g0b, <2>g0c, <2>g0d, <2>g0e DEF Safe
<1>8. CASE lock.step = "secret" /\ item' = 0 /\ UNCHANGED <<tombstone, identity, marker>>
<2>c2. StoreOK'
  BY <1>1, <1>2, <1>3, <1>a, <1>c, <1>8, Fields DEF IInv, Safe, StoreOK,
      Confirmed, store, DueOK, SameRun, Settlers, Tokens, server
<2>g0a. (TokensOK /\ SessionOK /\ WorkspaceOK)'
  BY <1>1, <1>2, <1>3, <1>a, <1>c, <1>8, Fields DEF IInv, Safe, TokensOK,
      Tokens, server, SessionOK, Confirmed, Stored, store, WorkspaceOK, Running,
      SameRun, Unsettled, Announced, Before, Risky, Settlers
<2>g0b. (DeletingOK /\ JobOK /\ AnnouncedOK)'
  BY <1>1, <1>2, <1>3, <1>a, <1>c, <1>8, Fields DEF IInv, Safe, Tokens,
      server, Confirmed, Stored, store, DeletingOK, Running, SameRun, JobOK,
      Unsettled, Announced, Before, AnnouncedOK, Risky, Settlers
<2>g0c. (RiskOK /\ ConfirmedOK /\ LockOK)'
  BY <1>1, <1>2, <1>3, <1>a, <1>c, <1>8, Fields DEF IInv, Safe, Tokens,
      server, Confirmed, Stored, store, Running, SameRun, Unsettled, Announced,
      Before, RiskOK, Risky, ConfirmedOK, LockOK, Settlers
<2>g0d. (DueOK /\ WorkerOK /\ FenceOK)'
  BY <1>1, <1>2, <1>3, <1>a, <1>c, <1>8, Fields DEF IInv, Safe, Tokens,
      server, Confirmed, Stored, store, Running, SameRun, Unsettled, Announced,
      Before, Risky, DueOK, Settlers, WorkerOK, FenceOK
<2>g0e. (CredentialsOK /\ WorkspaceFenced /\ ConfirmedNeverAuthenticates)'
  BY <1>1, <1>2, <1>3, <1>a, <1>c, <1>8, Fields DEF IInv, Safe, Tokens,
      server, Confirmed, Stored, store, Running, SameRun, Unsettled, Announced,
      Before, Risky, Settlers, CredentialsOK, WorkspaceFenced,
      ConfirmedNeverAuthenticates
<2> QED  BY <2>c2, <2>g0a, <2>g0b, <2>g0c, <2>g0d, <2>g0e DEF Safe
<1>9. CASE lock.step = "forget" /\ identity' = NoDebt /\ UNCHANGED <<item, tombstone, marker>>
<2>c2. StoreOK'
  BY <1>1, <1>2, <1>3, <1>a, <1>c, <1>9, Fields DEF IInv, Safe, StoreOK,
      Confirmed, store, DueOK, SameRun, Settlers, Tokens, server
<2>c14. CredentialsOK'
  BY <1>1, <1>2, <1>3, <1>a, <1>c, <1>9, Fields DEF IInv, Safe, CredentialsOK,
      Stored, Risky, Unsettled, Confirmed, store, server, DueOK, SameRun,
      Settlers, Tokens
<2>g0. (TokensOK /\ SessionOK /\ WorkspaceOK /\ DeletingOK /\ JobOK /\
        AnnouncedOK /\ RiskOK /\ ConfirmedOK /\ LockOK /\ DueOK /\ WorkerOK /\
        FenceOK /\ WorkspaceFenced /\ ConfirmedNeverAuthenticates)'
  BY <1>1, <1>2, <1>3, <1>a, <1>c, <1>9, Fields DEF IInv, Safe, TokensOK,
      Tokens, server, SessionOK, Confirmed, Stored, store, WorkspaceOK,
      DeletingOK, Running, SameRun, JobOK, Unsettled, Announced, Before,
      AnnouncedOK, RiskOK, Risky, ConfirmedOK, LockOK, DueOK, Settlers,
      WorkerOK, FenceOK, WorkspaceFenced, ConfirmedNeverAuthenticates
<2> QED  BY <2>c2, <2>c14, <2>g0 DEF Safe
<1>10. CASE lock.step = "unmark" /\ marker' = NoDebt /\ UNCHANGED <<item, tombstone, identity>>
<2>c2. StoreOK'
  BY <1>1, <1>2, <1>3, <1>a, <1>c, <1>10, Fields DEF IInv, Safe, StoreOK,
      Confirmed, store, DueOK, SameRun, Settlers, Tokens, server
<2>c9. ConfirmedOK'
  BY <1>1, <1>2, <1>3, <1>a, <1>c, <1>10, Fields DEF IInv, Safe, ConfirmedOK,
      Confirmed, store, DeletingOK, Running, SameRun
<2>c14. CredentialsOK'
  BY <1>1, <1>2, <1>3, <1>a, <1>c, <1>10, Fields DEF IInv, Safe, CredentialsOK,
      Stored, Risky, Unsettled, Confirmed, store, server, DeletingOK, Running,
      SameRun, JobOK, Announced, Before, AnnouncedOK, DueOK, Settlers, Tokens
<2>g0. (TokensOK /\ SessionOK /\ WorkspaceOK /\ DeletingOK /\ JobOK /\
        AnnouncedOK /\ RiskOK /\ LockOK /\ DueOK /\ WorkerOK /\ FenceOK /\
        WorkspaceFenced /\ ConfirmedNeverAuthenticates)'
  BY <1>1, <1>2, <1>3, <1>a, <1>c, <1>10, Fields DEF IInv, Safe, TokensOK,
      Tokens, server, SessionOK, Confirmed, Stored, store, WorkspaceOK,
      DeletingOK, Running, SameRun, JobOK, Unsettled, Announced, Before,
      AnnouncedOK, RiskOK, Risky, LockOK, DueOK, Settlers, WorkerOK, FenceOK,
      WorkspaceFenced, ConfirmedNeverAuthenticates
<2> QED  BY <2>c2, <2>c9, <2>c14, <2>g0 DEF Safe
<1> QED  BY <1>b, <1>c, <1>4, <1>5, <1>6, <1>7, <1>8, <1>9, <1>10, WrittenFacts
    DEF IInv

LEMMA LookReadySafe ==
    ASSUME IInv, LookReady
    PROVE  Safe'
<1> DEFINE due == IF Confirmed THEN identity ELSE marker
<1>1. Looking(Ready) /\ Unwritten
  BY DEF LookReady
<1>2. CASE due = NoDebt
  <2>1. Proceed
    BY <1>2 DEF LookReady
  <2>2. ~Confirmed /\ marker = NoDebt /\ ~Unsettled
    BY <1>2, Fields DEF Confirmed, Unsettled
  <2>3. CASE ClearsNext
    BY <1>1, <2>1, <2>2, <2>3, LookClearsSafe DEF Proceed
  <2>4. CASE ~ClearsNext
    <3>1. Return(TRUE, NoDebt) /\ lock.who # "sign out"
      BY <2>1, <2>4 DEF Proceed, ClearsNext
    <3>2. CASE lock.who = "begin" /\ MayBegin
      BY <1>1, <2>2, <3>1, <3>2, BegunSafe DEF Looking
    <3>3. CASE ~(lock.who = "begin" /\ MayBegin)
      BY <1>1, <2>2, <3>1, <3>3, ReadyReturnsSafe
    <3> QED  BY <3>2, <3>3
  <2> QED  BY <2>3, <2>4
<1>3. CASE due # NoDebt /\ marker # due
  BY <1>1, <1>3, LookDueSafe DEF LookReady
<1>4. CASE due # NoDebt /\ marker = due
  <2>1. Erase(due)
    BY <1>4 DEF LookReady
  <2>2. CASE Return(FALSE, due)
    <3>1. UNCHANGED store /\ UNCHANGED <<wire, meta, workspace, server, detached, process>>
      BY <1>1 DEF Unwritten
    <3>2. lock.who \in Ready
      BY <1>1 DEF Looking
    <3>3. CASE lock.who = "sign out"
      BY <2>2, <3>1, <3>3, SignOutReturnsSafe
    <3>4. CASE lock.who # "sign out"
      BY <2>2, <3>1, <3>2, <3>4, ReadyFailsSafe
    <3> QED  BY <3>3, <3>4
  <2>3. CASE /\ ~Untrusted /\ identity.token = 0 /\ Go("unmark", due)
    BY <1>1, <1>4, <2>3, LookDueSafe
  <2>4. CASE /\ ~Untrusted /\ identity.token = due.token /\ Go("tombstone", due)
    BY <1>1, <1>4, <2>4, LookDueSafe
  <2> QED  BY <2>1, <2>2, <2>3, <2>4 DEF Erase
<1> QED  BY <1>2, <1>3, <1>4

LEMMA LookMarkSafe ==
    ASSUME IInv, LookMark
    PROVE  Safe'
<1>1. Looking({"mark"}) /\ Unwritten
  BY DEF LookMark
<1>2. UNCHANGED store /\ UNCHANGED <<wire, meta, workspace, server, detached, process>>
  BY <1>1 DEF Unwritten
<1>3. lock.who = "mark"
  BY <1>1 DEF Looking
<1>4. marker = NoDebt /\ Mine # NoDebt
  BY <1>3, Fields DEF IInv, Safe, LockOK, JobOK, Running, Before, Unsettled
<1>5. CASE Current /\ Go("write", Mine)
  BY <1>1, <1>4, <1>5, MarkGoesSafe DEF Current, SameRun
<1>6. CASE Return(FALSE, Mine)
  BY <1>2, <1>3, <1>4, <1>6, MarkReturnsSafe DEF store
<1> QED  BY <1>4, <1>5, <1>6 DEF LookMark

LEMMA LookFinishSafe ==
    ASSUME IInv, LookFinish
    PROVE  Safe'
<1>1. Looking({"finish", "uncertain"}) /\ Unwritten
  BY DEF LookFinish
<1>2. CASE ~SameRun /\ Withdraw
  <2>1. CASE marker = Mine /\ Go("unmark", Mine)
    BY <1>1, <1>2, <2>1, FinishGoesSafe
  <2>2. CASE marker # Mine /\ Return(TRUE, Mine)
    BY <1>1, <1>2, <2>2, FinishLookReturnsSafe
  <2> QED  BY <1>2, <2>1, <2>2 DEF Withdraw
<1>3. CASE SameRun /\ Resolve
  <2>1. CASE /\ ~Untrusted /\ identity.token = job.token /\ Go("confirm", Mine)
    BY <1>1, <1>3, <2>1, FinishGoesSafe
  <2>2. CASE /\ ~Untrusted /\ identity.token = 0 /\ marker = Mine /\ Go("unmark", Mine)
    BY <1>1, <1>3, <2>2, FinishGoesSafe
  <2>3. CASE /\ Untrusted \/ identity.token \notin {0, job.token}
             /\ Return(FALSE, Mine)
    BY <1>1, <1>3, <2>3, FinishLookReturnsSafe
  <2>4. CASE /\ ~Untrusted /\ identity.token = 0 /\ marker # Mine
             /\ Return(marker = NoDebt, Mine)
    <3>1. CASE marker = NoDebt
      <4>1. Return(TRUE, Mine)
        BY <2>4, <3>1
      <4> QED  BY <1>1, <1>3, <2>4, <3>1, <4>1, FinishLookReturnsSafe
    <3>2. CASE marker # NoDebt
      <4>1. Return(FALSE, Mine)
        BY <2>4, <3>2
      <4> QED  BY <1>1, <1>3, <2>4, <3>2, <4>1, FinishLookReturnsSafe
    <3> QED  BY <3>1, <3>2
  <2>5. \/ Untrusted \/ identity.token \notin {0, job.token}
        \/ ~Untrusted /\ identity.token \in {0, job.token}
    OBVIOUS
  <2> QED  BY <1>3, <2>1, <2>2, <2>3, <2>4, <2>5 DEF Resolve
<1>4. Current => SameRun
  BY DEF Current, SameRun
<1> QED  BY <1>2, <1>3, <1>4 DEF LookFinish, SameRun

LEMMA LookRefusedSafe ==
    ASSUME IInv, LookRefused
    PROVE  Safe'
<1>1. Looking({"refused"}) /\ Unwritten /\ Withdraw
  BY DEF LookRefused
<1>2. CASE marker = Mine /\ Go("unmark", Mine)
  BY <1>1, <1>2, RefusedGoesSafe
<1>3. CASE marker # Mine /\ Return(TRUE, Mine)
  <2>1. /\ UNCHANGED <<item, tombstone, identity>> /\ marker' = marker
        /\ UNCHANGED <<wire, meta, workspace, server, detached, process>>
    BY <1>1 DEF Unwritten, store
  <2>2. Mine' = Mine
    BY <1>1, <1>3, ReturnRefused DEF Looking, IInv, Mine
  <2> QED  BY <1>1, <1>3, <2>1, <2>2, RefusedReturnsSafe DEF Looking
<1> QED  BY <1>1, <1>2, <1>3 DEF Withdraw

LEMMA LookExpireSafe ==
    ASSUME IInv, LookExpire
    PROVE  Safe'
  BY ExpireGoesSafe DEF LookExpire

LEMMA WriteSafe ==
    ASSUME IInv, Write
    PROVE  Safe'
<1> DEFINE due == lock.due
<1>1. Written /\ UNCHANGED <<wire, meta, workspace, server, detached, process>>
  BY DEF Write
<1>2. CASE Following # "done"
  <2>1. Following \in {"rearm", "tombstone", "secret", "forget", "unmark"}
    BY <1>2 DEF Following
  <2> QED  BY <1>1, <1>2, <2>1, WriteGoesSafe DEF Write
<1>3. CASE Following = "done"
  <2>1. Return(TRUE, due)
    BY <1>3 DEF Write
  <2>2. \/ lock.step = "write" \/ lock.step = "unmark"
        \/ lock.step = "forget" /\ due = NoDebt
    BY <1>1, <1>3, WrittenFacts DEF Following, IInv
  <2>3. CASE lock.step = "write"
    <3>1. /\ lock.who = "mark" /\ due = Mine /\ SameRun
          /\ marker' = due /\ UNCHANGED <<item, tombstone, identity>>
      BY <1>1, <2>3, WrittenFacts DEF IInv, Safe, DueOK
    <3> QED  BY <1>1, <2>1, <3>1, MarkReturnsSafe
  <2>4. CASE lock.step = "unmark"
    <3>1. /\ marker' = NoDebt /\ UNCHANGED <<item, tombstone, identity>>
          /\ due # NoDebt
          /\ item = 0 \/ lock.who \in {"refused", "finish", "uncertain"}
      BY <1>1, <2>4, WrittenFacts DEF IInv, Safe, DueOK
    <3>2. CASE lock.who \in Ready \ {"sign out"}
      BY <1>1, <2>1, <2>4, <3>1, <3>2, ReadySettledSafe
    <3>3. CASE lock.who = "sign out"
      BY <1>1, <2>1, <3>1, <3>3, SignOutReturnsSafe
    <3>4. CASE lock.who \in {"finish", "uncertain"}
      BY <1>1, <2>1, <2>4, <3>4, FinishReturnsSafe
    <3>5. CASE lock.who = "refused"
      <4>1. due = Mine /\ Mine # NoDebt
        BY <3>1, <3>5 DEF IInv, Safe, DueOK, Settlers
      <4>2. Mine' = Mine
        BY <2>1, <3>5, ReturnRefused DEF IInv, Mine
      <4> QED  BY <1>1, <2>1, <3>1, <3>5, <4>1, RefusedReturnsSafe
    <3>6. lock.who \notin {"mark", "expire", "none"}
      BY <2>4, <3>1, Fields DEF IInv, Safe, DueOK, LockOK
    <3> QED  BY <3>2, <3>3, <3>4, <3>5, <3>6 DEF IInv, Typed, Locks, Settlers
  <2>5. CASE lock.step = "forget" /\ due = NoDebt
    <3>1. /\ identity' = NoDebt /\ UNCHANGED <<item, tombstone, marker>> /\ item = 0
          /\ lock.who \in {"sign out", "expire", "timer"}
      BY <1>1, <2>5, WrittenFacts DEF IInv, Safe, DueOK
    <3>2. CASE lock.who = "sign out"
      BY <1>1, <2>1, <3>1, <3>2, SignOutReturnsSafe
    <3>3. CASE lock.who = "expire"
      BY <1>1, <2>1, <2>5, <3>3, ExpireReturnsSafe
    <3>4. CASE lock.who = "timer"
      BY <1>1, <2>1, <2>5, <3>1, <3>4, TimerClearedSafe
    <3> QED  BY <3>1, <3>2, <3>3, <3>4
  <2> QED  BY <2>2, <2>3, <2>4, <2>5
<1> QED  BY <1>2, <1>3

LEMMA WriteFailsSafe ==
    ASSUME IInv, WriteFails
    PROVE  Safe'
<1> DEFINE due == lock.due
<1>1. /\ UNCHANGED <<wire, meta, workspace, server, detached, process>>
      /\ UNCHANGED store \/ Written
      /\ Return(FALSE, due) /\ lock.step \notin {"none", "look"}
  BY DEF WriteFails
<1>2. CASE lock.who \in Ready \ {"sign out"}
  BY <1>1, <1>2, ReadyFailsSafe
<1>3. CASE lock.who = "sign out"
  BY <1>1, <1>3, SignOutReturnsSafe
<1>4. CASE lock.who = "mark"
  <2>1. lock.step = "write" /\ due = Mine /\ SameRun
    BY <1>1, <1>4 DEF IInv, Safe, LockOK, DueOK
  <2>2. UNCHANGED <<item, tombstone, identity>> /\ marker' \in {marker, Mine}
    BY <1>1, <2>1, WrittenFacts DEF IInv, store
  <2> QED  BY <1>1, <1>4, <2>1, <2>2, MarkReturnsSafe
<1>5. CASE lock.who \in {"finish", "uncertain"}
  BY <1>1, <1>5, FinishReturnsSafe
<1>6. CASE lock.who = "refused"
  <2>1. lock.step = "unmark"
    BY <1>1, <1>6 DEF IInv, Safe, LockOK
  <2>2. UNCHANGED <<item, tombstone, identity>> /\ marker' \in {marker, NoDebt}
    BY <1>1, <2>1, WrittenFacts DEF IInv, store
  <2> QED  BY <1>1, <1>6, <2>2, RefusedReturnsSafe
<1>7. CASE lock.who = "expire"
  <2>1. due = NoDebt
    BY <1>7 DEF IInv, Safe, LockOK
  <2> QED  BY <1>1, <1>7, <2>1, ExpireReturnsSafe
<1>8. lock.who # "none"
  BY <1>1 DEF IInv, Safe, LockOK
<1> QED
  BY <1>2, <1>3, <1>4, <1>5, <1>6, <1>7, <1>8 DEF IInv, Typed, Locks, Settlers

LEMMA DeleteAccountSafe ==
    ASSUME IInv, DeleteAccount
    PROVE  Safe'
<1> USE DEF DeleteAccount, LockOnly, UiFree, Enter, Free
<1>e. lock'.who = "begin" /\ lock'.step = "look" /\ lock'.due = NoDebt
  BY EnterFacts
<1>m. UNCHANGED Mine
  BY DEF Mine
<1>c1. TokensOK'
  BY <1>e, <1>m, Fields DEF IInv, Safe, TokensOK, Tokens, server, DueOK,
      SameRun, Settlers, store
<1>c2. StoreOK'
  BY <1>e, <1>m, Fields DEF IInv, Safe, StoreOK, Confirmed, store, DueOK,
      SameRun, Settlers, Tokens, server
<1>g0. (SessionOK /\ WorkspaceOK /\ DeletingOK /\ JobOK /\ AnnouncedOK /\
        RiskOK /\ ConfirmedOK /\ LockOK /\ DueOK /\ WorkerOK /\ FenceOK /\
        CredentialsOK /\ WorkspaceFenced /\ ConfirmedNeverAuthenticates)'
  BY <1>e, <1>m, Fields DEF IInv, Safe, SessionOK, Confirmed, Stored, store,
      WorkspaceOK, server, DeletingOK, Running, SameRun, JobOK, Unsettled,
      Announced, Before, AnnouncedOK, RiskOK, Risky, ConfirmedOK, LockOK, DueOK,
      Settlers, Tokens, WorkerOK, FenceOK, CredentialsOK, WorkspaceFenced,
      ConfirmedNeverAuthenticates
<1> QED  BY <1>c1, <1>c2, <1>g0 DEF Safe

LEMMA ClickAccountSafe ==
    ASSUME IInv, ClickAccount
    PROVE  Safe'
<1> USE DEF ClickAccount, LockOnly, UiFree, RetryFence, Enter, Free
<1>m. UNCHANGED Mine
  BY DEF Mine
<1>1. CASE fence.denied
<2>c1. TokensOK'
  BY <1>m, <1>1, Fields DEF IInv, Safe, TokensOK, Tokens, server, DueOK,
      SameRun, Settlers, store
<2>c2. StoreOK'
  BY <1>m, <1>1, Fields DEF IInv, Safe, StoreOK, Confirmed, store, DueOK,
      SameRun, Settlers, Tokens, server
<2>c6. JobOK'
  BY <1>m, <1>1, Fields DEF IInv, Safe, JobOK, Running, SameRun, Confirmed,
      Unsettled, Announced, Before, store, DueOK, Settlers, Tokens, server
<2>g0. (SessionOK /\ WorkspaceOK)'
  BY <1>m, <1>1, Fields DEF IInv, Safe, SessionOK, Confirmed, Stored, store,
      WorkspaceOK, server
<2>g1. (DeletingOK /\ AnnouncedOK /\ RiskOK /\ ConfirmedOK)'
  BY <1>m, <1>1, Fields DEF IInv, Safe, DeletingOK, Running, SameRun,
      AnnouncedOK, Stored, Unsettled, Confirmed, Announced, store, RiskOK,
      Risky, Before, server, ConfirmedOK
<2>g2. (LockOK /\ DueOK /\ WorkerOK /\ FenceOK)'
  BY <1>m, <1>1, Fields DEF IInv, Safe, LockOK, Running, DueOK, SameRun,
      Settlers, Tokens, store, server, WorkerOK, FenceOK, Risky, Unsettled,
      Confirmed
<2>g3. (CredentialsOK /\ WorkspaceFenced /\ ConfirmedNeverAuthenticates)'
  BY <1>m, <1>1, Fields DEF IInv, Safe, CredentialsOK, Stored, Risky, Unsettled,
      Confirmed, store, server, WorkspaceFenced, ConfirmedNeverAuthenticates
<2> QED  BY <2>c1, <2>c2, <2>c6, <2>g0, <2>g1, <2>g2, <2>g3 DEF Safe
<1>2. CASE ~fence.denied
  <2>1. lock'.who = "recover" /\ lock'.step = "look" /\ lock'.due = NoDebt
    BY <1>2, EnterFacts
<2>c1. TokensOK'
  BY <1>m, <1>2, <2>1, Fields DEF IInv, Safe, TokensOK, Tokens, server, DueOK,
      SameRun, Settlers, store
<2>c2. StoreOK'
  BY <1>m, <1>2, <2>1, Fields DEF IInv, Safe, StoreOK, Confirmed, store, DueOK,
      SameRun, Settlers, Tokens, server
<2>c6. JobOK'
  BY <1>m, <1>2, <2>1, Fields DEF IInv, Safe, JobOK, Running, SameRun,
      Confirmed, Unsettled, Announced, Before, store, DueOK, Settlers, Tokens,
      server
<2>g0. (SessionOK /\ WorkspaceOK)'
  BY <1>m, <1>2, <2>1, Fields DEF IInv, Safe, SessionOK, Confirmed, Stored,
      store, WorkspaceOK, server
<2>g1. (DeletingOK /\ AnnouncedOK /\ RiskOK /\ ConfirmedOK)'
  BY <1>m, <1>2, <2>1, Fields DEF IInv, Safe, DeletingOK, Running, SameRun,
      AnnouncedOK, Stored, Unsettled, Confirmed, Announced, store, RiskOK,
      Risky, Before, server, ConfirmedOK
<2>g2. (LockOK /\ DueOK /\ WorkerOK /\ FenceOK)'
  BY <1>m, <1>2, <2>1, Fields DEF IInv, Safe, LockOK, Running, DueOK, SameRun,
      Settlers, Tokens, store, server, WorkerOK, FenceOK, Risky, Unsettled,
      Confirmed
<2>g3. (CredentialsOK /\ WorkspaceFenced /\ ConfirmedNeverAuthenticates)'
  BY <1>m, <1>2, <2>1, Fields DEF IInv, Safe, CredentialsOK, Stored, Risky,
      Unsettled, Confirmed, store, server, WorkspaceFenced,
      ConfirmedNeverAuthenticates
<2> QED  BY <2>c1, <2>c2, <2>c6, <2>g0, <2>g1, <2>g2, <2>g3 DEF Safe
<1> QED  BY <1>1, <1>2

LEMMA FenceTimerSafe ==
    ASSUME IInv, FenceTimer
    PROVE  Safe'
<1> USE DEF FenceTimer, LockOnly, UiFree, RetryFence, Enter, Free
<1>m. UNCHANGED Mine
  BY DEF Mine
<1>f. fence'.pending = fence.pending /\ fence'.denied = fence.denied
  BY DEF IInv, Typed, Fences
<1>1. CASE UNCHANGED lock
<2>c1. TokensOK'
  BY <1>m, <1>f, <1>1, Fields DEF IInv, Safe, TokensOK, Tokens, server, DueOK,
      SameRun, Settlers, store
<2>c2. StoreOK'
  BY <1>m, <1>f, <1>1, Fields DEF IInv, Safe, StoreOK, Confirmed, store, DueOK,
      SameRun, Settlers, Tokens, server
<2>c6. JobOK'
  BY <1>m, <1>f, <1>1, Fields DEF IInv, Safe, JobOK, Running, SameRun,
      Confirmed, Unsettled, Announced, Before, store, DueOK, Settlers, Tokens,
      server
<2>g0. (SessionOK /\ WorkspaceOK /\ DeletingOK /\ AnnouncedOK /\ RiskOK /\
        ConfirmedOK /\ LockOK /\ DueOK /\ WorkerOK /\ FenceOK /\
        CredentialsOK /\ WorkspaceFenced /\ ConfirmedNeverAuthenticates)'
  BY <1>m, <1>f, <1>1, Fields DEF IInv, Safe, SessionOK, Confirmed, Stored,
      store, WorkspaceOK, server, DeletingOK, Running, SameRun, AnnouncedOK,
      Unsettled, Announced, RiskOK, Risky, Before, ConfirmedOK, LockOK, DueOK,
      Settlers, Tokens, WorkerOK, FenceOK, CredentialsOK, WorkspaceFenced,
      ConfirmedNeverAuthenticates
<2> QED  BY <2>c1, <2>c2, <2>c6, <2>g0 DEF Safe
<1>2. CASE /\ fence.pending /\ ~session.deleting /\ ~fence.denied
           /\ UNCHANGED ui /\ Enter("recover")
  <2>1. lock'.who = "recover" /\ lock'.step = "look" /\ lock'.due = NoDebt
    BY <1>2, EnterFacts
<2>c1. TokensOK'
  BY <1>m, <1>f, <1>2, <2>1, Fields DEF IInv, Safe, TokensOK, Tokens, server,
      DueOK, SameRun, Settlers, store
<2>c2. StoreOK'
  BY <1>m, <1>f, <1>2, <2>1, Fields DEF IInv, Safe, StoreOK, Confirmed, store,
      DueOK, SameRun, Settlers, Tokens, server
<2>c6. JobOK'
  BY <1>m, <1>f, <1>2, <2>1, Fields DEF IInv, Safe, JobOK, Running, SameRun,
      Confirmed, Unsettled, Announced, Before, store, DueOK, Settlers, Tokens,
      server
<2>g0. (SessionOK /\ WorkspaceOK)'
  BY <1>m, <1>f, <1>2, <2>1, Fields DEF IInv, Safe, SessionOK, Confirmed,
      Stored, store, WorkspaceOK, server
<2>g1. (DeletingOK /\ AnnouncedOK /\ RiskOK /\ ConfirmedOK)'
  BY <1>m, <1>f, <1>2, <2>1, Fields DEF IInv, Safe, DeletingOK, Running,
      SameRun, AnnouncedOK, Stored, Unsettled, Confirmed, Announced, store,
      RiskOK, Risky, Before, server, ConfirmedOK
<2>g2. (LockOK /\ DueOK /\ WorkerOK /\ FenceOK)'
  BY <1>m, <1>f, <1>2, <2>1, Fields DEF IInv, Safe, LockOK, Running, DueOK,
      SameRun, Settlers, Tokens, store, server, WorkerOK, FenceOK, Risky,
      Unsettled, Confirmed
<2>g3. (CredentialsOK /\ WorkspaceFenced /\ ConfirmedNeverAuthenticates)'
  BY <1>m, <1>f, <1>2, <2>1, Fields DEF IInv, Safe, CredentialsOK, Stored,
      Risky, Unsettled, Confirmed, store, server, WorkspaceFenced,
      ConfirmedNeverAuthenticates
<2> QED  BY <2>c1, <2>c2, <2>c6, <2>g0, <2>g1, <2>g2, <2>g3 DEF Safe
<1> QED  BY <1>1, <1>2

LEMMA ResolveFenceSafe ==
    ASSUME IInv, ResolveFence
    PROVE  Safe'
<1> USE DEF ResolveFence, Free, Denied
<1>m. UNCHANGED Mine
  BY DEF Mine
<1>1. UNCHANGED <<store, server, wire, lock>>
  OBVIOUS
<1>2. CASE /\ meta' = FALSE /\ fence' = [Lifted EXCEPT !.timer = fence.timer]
           /\ workspace' = IF Denied THEN workspace ELSE 0
  <2>1. fence'.pending = FALSE /\ fence'.denied = FALSE
    BY <1>2 DEF Lifted
<2>c1. TokensOK'
  BY <1>m, <1>1, <1>2, <2>1, NobodyAtRisk, Fields DEF IInv, Safe, TokensOK,
      Tokens, server, DueOK, SameRun, Settlers, store
<2>c2. StoreOK'
  BY <1>m, <1>1, <1>2, <2>1, NobodyAtRisk, Fields DEF IInv, Safe, StoreOK,
      Confirmed, store, DueOK, SameRun, Settlers, Tokens, server
<2>c6. JobOK'
  BY <1>m, <1>1, <1>2, <2>1, NobodyAtRisk, Fields DEF IInv, Safe, JobOK,
      Running, SameRun, Confirmed, Unsettled, Announced, Before, store, DueOK,
      Settlers, Tokens, server
<2>c7. AnnouncedOK'
  BY <1>m, <1>1, <1>2, <2>1, NobodyAtRisk, Fields DEF IInv, Safe, AnnouncedOK,
      Running, SameRun, Stored, Unsettled, Confirmed, Announced, store, JobOK,
      Before, FenceOK, Risky, server, CredentialsOK
<2>c15. WorkspaceFenced'
  BY <1>m, <1>1, <1>2, <2>1, NobodyAtRisk, Fields DEF IInv, Safe,
      WorkspaceFenced, Risky, server, WorkspaceOK, Stored, store, DueOK,
      SameRun, Settlers, Tokens, WorkerOK, FenceOK, Running, Unsettled,
      Confirmed, CredentialsOK, ConfirmedNeverAuthenticates
<2>g0. (SessionOK /\ WorkspaceOK)'
  BY <1>m, <1>1, <1>2, <2>1, NobodyAtRisk, Fields DEF IInv, Safe, SessionOK,
      Confirmed, Stored, store, WorkspaceOK, server
<2>g1. (DeletingOK /\ RiskOK /\ ConfirmedOK)'
  BY <1>m, <1>1, <1>2, <2>1, NobodyAtRisk, Fields DEF IInv, Safe, DeletingOK,
      Running, SameRun, RiskOK, Risky, Before, server, ConfirmedOK, Confirmed,
      store
<2>g2. (LockOK /\ DueOK /\ WorkerOK /\ FenceOK)'
  BY <1>m, <1>1, <1>2, <2>1, NobodyAtRisk, Fields DEF IInv, Safe, LockOK,
      Running, DueOK, SameRun, Settlers, Tokens, store, server, WorkerOK,
      FenceOK, Risky, Unsettled, Confirmed
<2>g3. (CredentialsOK /\ ConfirmedNeverAuthenticates)'
  BY <1>m, <1>1, <1>2, <2>1, NobodyAtRisk, Fields DEF IInv, Safe, CredentialsOK,
      Stored, Risky, Unsettled, Confirmed, store, server,
      ConfirmedNeverAuthenticates
<2> QED  BY <2>c1, <2>c2, <2>c6, <2>c7, <2>c15, <2>g0, <2>g1, <2>g2, <2>g3 DEF
    Safe
<1>3. CASE /\ fence' = [fence EXCEPT !.denied = Denied, !.timer = TRUE]
           /\ UNCHANGED <<meta, workspace>>
  <2>1. fence'.pending = fence.pending /\ fence'.denied = Denied
    BY <1>3 DEF IInv, Typed, Fences
  <2>2. Denied => detached \/ (~Running /\ ~Risky(workspace))
    BY NobodyAtRisk DEF IInv, Safe, FenceOK, AnnouncedOK, JobOK, SameRun,
        WorkspaceOK, CredentialsOK
<2>c1. TokensOK'
  BY <1>m, <1>1, <1>3, <2>1, <2>2, Fields DEF IInv, Safe, TokensOK, Tokens,
      server, DueOK, SameRun, Settlers, store
<2>c2. StoreOK'
  BY <1>m, <1>1, <1>3, <2>1, <2>2, Fields DEF IInv, Safe, StoreOK, Confirmed,
      store, DueOK, SameRun, Settlers, Tokens, server
<2>c6. JobOK'
  BY <1>m, <1>1, <1>3, <2>1, <2>2, Fields DEF IInv, Safe, JobOK, Running,
      SameRun, Confirmed, Unsettled, Announced, Before, store, DueOK, Settlers,
      Tokens, server
<2>c13. FenceOK'
  BY <1>1, <1>3, <2>1, <2>2 DEF IInv, Safe, FenceOK, Running, Risky, server
<2>g0. (SessionOK /\ WorkspaceOK /\ DeletingOK /\ AnnouncedOK /\ RiskOK /\
        ConfirmedOK /\ LockOK /\ DueOK /\ WorkerOK /\ CredentialsOK /\
        WorkspaceFenced /\ ConfirmedNeverAuthenticates)'
  BY <1>m, <1>1, <1>3, <2>1, <2>2, Fields DEF IInv, Safe, SessionOK, Confirmed,
      Stored, store, WorkspaceOK, server, DeletingOK, Running, SameRun,
      AnnouncedOK, Unsettled, Announced, RiskOK, Risky, Before, ConfirmedOK,
      LockOK, DueOK, Settlers, Tokens, WorkerOK, CredentialsOK, WorkspaceFenced,
      ConfirmedNeverAuthenticates
<2> QED  BY <2>c1, <2>c2, <2>c6, <2>c13, <2>g0 DEF Safe
<1> QED  BY <1>2, <1>3

LEMMA SignOutSafe ==
    ASSUME IInv, SignOut
    PROVE  Safe'
<1> USE DEF SignOut, UiFree, Enter, Free
<1>e. lock'.who = "sign out" /\ lock'.step = "look" /\ lock'.due = NoDebt
  BY EnterFacts
<1>m. UNCHANGED Mine
  BY DEF Mine
<1>c1. TokensOK'
  BY <1>e, <1>m, NobodyAtRisk, Fields DEF IInv, Safe, TokensOK, Tokens, server,
      DueOK, SameRun, Settlers, store
<1>c2. StoreOK'
  BY <1>e, <1>m, NobodyAtRisk, Fields DEF IInv, Safe, StoreOK, Confirmed, store,
      DueOK, SameRun, Settlers, Tokens, server
<1>c6. JobOK'
  BY <1>e, <1>m, NobodyAtRisk, Fields DEF IInv, Safe, JobOK, Running, SameRun,
      Confirmed, Unsettled, Announced, Before, store, DueOK, Settlers, Tokens,
      server
<1>g0. (SessionOK /\ WorkspaceOK)'
  BY <1>e, <1>m, NobodyAtRisk, Fields DEF IInv, Safe, SessionOK, Confirmed,
      Stored, store, WorkspaceOK, server
<1>g1. (DeletingOK /\ AnnouncedOK /\ RiskOK /\ ConfirmedOK)'
  BY <1>e, <1>m, NobodyAtRisk, Fields DEF IInv, Safe, DeletingOK, Running,
      SameRun, AnnouncedOK, Stored, Unsettled, Confirmed, Announced, store,
      RiskOK, Risky, Before, server, ConfirmedOK
<1>g2. (LockOK /\ DueOK /\ WorkerOK /\ FenceOK)'
  BY <1>e, <1>m, NobodyAtRisk, Fields DEF IInv, Safe, LockOK, Running, DueOK,
      SameRun, Settlers, Tokens, store, server, WorkerOK, FenceOK, Risky,
      Unsettled, Confirmed
<1>g3. (CredentialsOK /\ WorkspaceFenced /\ ConfirmedNeverAuthenticates)'
  BY <1>e, <1>m, NobodyAtRisk, Fields DEF IInv, Safe, CredentialsOK, Stored,
      Risky, Unsettled, Confirmed, store, server, WorkspaceFenced,
      ConfirmedNeverAuthenticates
<1> QED  BY <1>c1, <1>c2, <1>c6, <1>g0, <1>g1, <1>g2, <1>g3 DEF Safe

LEMMA LoginSafe ==
    ASSUME IInv, Login
    PROVE  Safe'
<1> USE DEF Login, UiFree, Enter, Free
<1>e. lock'.who = "login" /\ lock'.step = "look" /\ lock'.due = NoDebt
  BY EnterFacts
<1>m. UNCHANGED Mine
  BY DEF Mine
<1>w. worker'.at = "login" /\ worker'.generation = session.generation
  BY DEF IInv, Typed, Workers
<1>c1. TokensOK'
  BY <1>e, <1>m, <1>w, Fields DEF IInv, Safe, TokensOK, Tokens, server, DueOK,
      SameRun, Settlers, store
<1>c2. StoreOK'
  BY <1>e, <1>m, <1>w, Fields DEF IInv, Safe, StoreOK, Confirmed, store, DueOK,
      SameRun, Settlers, Tokens, server
<1>c6. JobOK'
  BY <1>e, <1>m, <1>w, Fields DEF IInv, Safe, JobOK, Running, SameRun,
      Confirmed, Unsettled, Announced, Before, store, DueOK, Settlers, Tokens,
      server
<1>c12. WorkerOK'
  BY <1>e, <1>m, <1>w, Fields, Parts DEF IInv, Safe, WorkerOK
<1>g0. (SessionOK /\ WorkspaceOK /\ DeletingOK /\ AnnouncedOK /\ RiskOK /\
        ConfirmedOK /\ LockOK /\ DueOK /\ FenceOK /\ CredentialsOK /\
        WorkspaceFenced /\ ConfirmedNeverAuthenticates)'
  BY <1>e, <1>m, <1>w, Fields DEF IInv, Safe, SessionOK, Confirmed, Stored,
      store, WorkspaceOK, server, DeletingOK, Running, SameRun, AnnouncedOK,
      Unsettled, Announced, RiskOK, Risky, Before, ConfirmedOK, LockOK, DueOK,
      Settlers, Tokens, FenceOK, CredentialsOK, WorkspaceFenced,
      ConfirmedNeverAuthenticates
<1> QED  BY <1>c1, <1>c2, <1>c6, <1>c12, <1>g0 DEF Safe

LEMMA CleanupTimerSafe ==
    ASSUME IInv, CleanupTimer
    PROVE  Safe'
<1> USE DEF CleanupTimer, LockOnly, UiFree, Enter, Free
<1>e. lock'.who = "timer" /\ lock'.step = "look" /\ lock'.due = NoDebt
  BY EnterFacts
<1>m. UNCHANGED Mine
  BY DEF Mine
<1>c1. TokensOK'
  BY <1>e, <1>m, Fields DEF IInv, Safe, TokensOK, Tokens, server, DueOK,
      SameRun, Settlers, store
<1>c2. StoreOK'
  BY <1>e, <1>m, Fields DEF IInv, Safe, StoreOK, Confirmed, store, DueOK,
      SameRun, Settlers, Tokens, server
<1>c6. JobOK'
  BY <1>e, <1>m, Fields DEF IInv, Safe, JobOK, Running, SameRun, Confirmed,
      Unsettled, Announced, Before, store, DueOK, Settlers, Tokens, server
<1>g0. (SessionOK /\ WorkspaceOK /\ DeletingOK /\ AnnouncedOK /\ RiskOK /\
        ConfirmedOK /\ LockOK /\ DueOK /\ WorkerOK /\ FenceOK /\
        CredentialsOK /\ WorkspaceFenced /\ ConfirmedNeverAuthenticates)'
  BY <1>e, <1>m, Fields DEF IInv, Safe, SessionOK, Confirmed, Stored, store,
      WorkspaceOK, server, DeletingOK, Running, SameRun, AnnouncedOK, Unsettled,
      Announced, RiskOK, Risky, Before, ConfirmedOK, LockOK, DueOK, Settlers,
      Tokens, WorkerOK, FenceOK, CredentialsOK, WorkspaceFenced,
      ConfirmedNeverAuthenticates
<1> QED  BY <1>c1, <1>c2, <1>c6, <1>g0 DEF Safe

LEMMA AcceptLoginSafe ==
    ASSUME IInv, AcceptLogin
    PROVE  Safe'
<1> USE DEF AcceptLogin, SignInFrame, Free, SignInAccount
<1>m. UNCHANGED Mine
  BY DEF Mine
<1>w. worker'.generation = worker.generation /\ worker'.at = "none"
  BY DEF IInv, Typed, Workers
<1>1. CASE UNCHANGED <<store, session, workspace, server, detached>>
<2>c1. TokensOK'
  BY <1>m, <1>w, <1>1, Fields DEF IInv, Safe, TokensOK, Tokens, server, DueOK,
      SameRun, Settlers, store
<2>c2. StoreOK'
  BY <1>m, <1>w, <1>1, Fields DEF IInv, Safe, StoreOK, Confirmed, store, DueOK,
      SameRun, Settlers, Tokens, server
<2>c6. JobOK'
  BY <1>m, <1>w, <1>1, Fields DEF IInv, Safe, JobOK, Running, SameRun,
      Confirmed, Unsettled, Announced, Before, store, DueOK, Settlers, Tokens,
      server
<2>g0. (SessionOK /\ WorkspaceOK /\ DeletingOK /\ AnnouncedOK /\ RiskOK /\
        ConfirmedOK /\ LockOK /\ DueOK /\ WorkerOK /\ FenceOK /\
        CredentialsOK /\ WorkspaceFenced /\ ConfirmedNeverAuthenticates)'
  BY <1>m, <1>w, <1>1, Fields DEF IInv, Safe, SessionOK, Confirmed, Stored,
      store, WorkspaceOK, server, DeletingOK, Running, SameRun, AnnouncedOK,
      Unsettled, Announced, RiskOK, Risky, Before, ConfirmedOK, LockOK, DueOK,
      Settlers, Tokens, WorkerOK, FenceOK, CredentialsOK, WorkspaceFenced,
      ConfirmedNeverAuthenticates
<2> QED  BY <2>c1, <2>c2, <2>c6, <2>g0 DEF Safe
<1>2. CASE ~UNCHANGED <<store, session, workspace, server, detached>>
  <2> DEFINE token == Len(owner) + 1
  <2>0. /\ owner' = Append(owner, SignInAccount) /\ worker.generation = session.generation
        /\ item' = token /\ tombstone' = FALSE /\ identity' = Debt(token, 0)
        /\ session' = SignedIn(token, session.generation)
        /\ workspace' = IF fence.pending THEN workspace ELSE SignInAccount
        /\ detached' = (detached \/ wire.at = "request" \/ job # NoJob)
        /\ UNCHANGED <<marker, gone, revoked>> /\ ~Unsettled /\ process # "stopping"
    BY <1>2
  <2>1. /\ session'.token = token /\ session'.generation = session.generation
        /\ session'.authenticated = TRUE /\ session'.deleting = FALSE
        /\ identity'.token = token /\ identity'.generation = 0
    BY <2>0, Fields
  <2>2. /\ token \in Tokens' /\ owner'[token] = SignInAccount
        /\ Len(owner') = Len(owner) + 1 /\ token # 0
        /\ \A t \in Tokens : t \in Tokens' /\ owner'[t] = owner[t]
        /\ Tokens' = Tokens \cup {token}
        /\ SignInAccount \notin gone /\ SignInAccount <= Len(owner) + 1
    BY <2>0, OwnerGrows, SignInAccountLives DEF IInv, Safe
  <2>3. Running => job # NoJob
    BY Fields DEF Running
  <2>4. \A a : Risky(a)' <=> Risky(a)
    BY <2>0, <2>2 DEF IInv, Safe, TokensOK, Risky
  <2>5. Risky(SignInAccount) => detached'
    BY <2>0, <2>2 DEF Risky
  <2>6. gone \subseteq 1..Len(owner') /\ \A t \in Tokens' : owner'[t] <= Len(owner')
    BY <2>2, AccountsTyped DEF IInv, Safe, TokensOK
  <2>7. workspace' = SignInAccount /\ Stored' = token /\ ~fence.pending
    BY <2>0, <2>2 DEF IInv, Safe, WorkerOK, Stored
  <2> HIDE DEF token
<2>c1. TokensOK'
  BY <2>0, <2>1, <2>2, <2>6 DEF IInv, Safe, TokensOK
<2>c2. StoreOK'
  BY <1>m, <1>w, <2>0, <2>1, <2>2, <2>3, <2>7, Fields DEF IInv, Safe, StoreOK,
      Confirmed, store, JobOK, Running, SameRun, Unsettled, Announced, Before
<2>c3. SessionOK'
  BY <1>m, <1>w, <2>0, <2>1, <2>2, <2>3, <2>7, Fields DEF IInv, Safe, SessionOK,
      Confirmed, Stored, store, JobOK, Running, SameRun, Unsettled, Announced,
      Before
<2>c4. WorkspaceOK'
  BY <2>1, <2>2, <2>7 DEF WorkspaceOK
<2>c6. JobOK'
  BY <1>m, <2>0, <2>1, <2>2 DEF IInv, Safe, JobOK, TokensOK, WorkerOK,
      DeletingOK, Running, SameRun, Unsettled, Confirmed, Announced
<2>c14. CredentialsOK'
  BY <2>1, <2>2, <2>4, <2>5, <2>7 DEF CredentialsOK
<2>c15. WorkspaceFenced'
  BY <2>4, <2>5, <2>7 DEF WorkspaceFenced
<2>g0. (DeletingOK /\ AnnouncedOK /\ RiskOK /\ ConfirmedOK /\ LockOK /\ DueOK /\
        WorkerOK /\ FenceOK /\ ConfirmedNeverAuthenticates)'
  BY <1>m, <1>w, <2>0, <2>1, <2>2, <2>3, <2>7, Fields DEF IInv, Safe,
      DeletingOK, Running, SameRun, AnnouncedOK, Stored, Unsettled, Confirmed,
      Announced, store, RiskOK, Risky, Before, server, ConfirmedOK, LockOK,
      DueOK, Settlers, Tokens, WorkerOK, FenceOK, ConfirmedNeverAuthenticates
<2> QED  BY <2>c1, <2>c2, <2>c3, <2>c4, <2>c6, <2>c14, <2>c15, <2>g0 DEF Safe
<1> QED  BY <1>1, <1>2

LEMMA RestoreSafe ==
    ASSUME IInv, Restore
    PROVE  Safe'
<1> USE DEF Restore, SignInFrame, Free, Enter
<1>e. lock'.who = "restore" /\ lock'.step = "look" /\ lock'.due = NoDebt
  BY EnterFacts
<1>m. UNCHANGED Mine
  BY DEF Mine
<1>w. worker'.at = "restore" /\ worker'.generation = session.generation
  BY DEF IInv, Typed, Workers
<1>c1. TokensOK'
  BY <1>e, <1>m, <1>w, Fields DEF IInv, Safe, TokensOK, Tokens, server, DueOK,
      SameRun, Settlers, store
<1>c2. StoreOK'
  BY <1>e, <1>m, <1>w, Fields DEF IInv, Safe, StoreOK, Confirmed, store, DueOK,
      SameRun, Settlers, Tokens, server
<1>c6. JobOK'
  BY <1>e, <1>m, <1>w, Fields DEF IInv, Safe, JobOK, Running, SameRun,
      Confirmed, Unsettled, Announced, Before, store, DueOK, Settlers, Tokens,
      server
<1>c12. WorkerOK'
  BY <1>e, <1>m, <1>w, Fields, Parts DEF IInv, Safe, WorkerOK
<1>g0. (SessionOK /\ WorkspaceOK /\ DeletingOK /\ AnnouncedOK /\ RiskOK /\
        ConfirmedOK /\ LockOK /\ DueOK /\ FenceOK /\ CredentialsOK /\
        WorkspaceFenced /\ ConfirmedNeverAuthenticates)'
  BY <1>e, <1>m, <1>w, Fields DEF IInv, Safe, SessionOK, Confirmed, Stored,
      store, WorkspaceOK, server, DeletingOK, Running, SameRun, AnnouncedOK,
      Unsettled, Announced, RiskOK, Risky, Before, ConfirmedOK, LockOK, DueOK,
      Settlers, Tokens, FenceOK, CredentialsOK, WorkspaceFenced,
      ConfirmedNeverAuthenticates
<1> QED  BY <1>c1, <1>c2, <1>c6, <1>c12, <1>g0 DEF Safe

LEMMA RestoreAnswerSafe ==
    ASSUME IInv, RestoreAnswer
    PROVE  Safe'
<1> USE DEF RestoreAnswer, SignInFrame, Free, Enter
<1>m. UNCHANGED Mine
  BY DEF Mine
<1>w. worker'.generation = worker.generation /\ worker'.at \in {worker.at, "none"}
  BY DEF IInv, Typed, Workers
<1>1. CASE /\ ~Unsettled /\ Stored # 0 /\ session' = SignedIn(Stored, session.generation)
           /\ Honoured(Stored) /\ worker.generation = session.generation /\ process = "up"
           /\ workspace' = IF fence.pending THEN workspace ELSE owner[Stored]
           /\ UNCHANGED lock /\ worker'.at = "none"
  <2>1. /\ session'.token = Stored /\ session'.generation = session.generation
        /\ session'.authenticated = TRUE /\ session'.deleting = FALSE
    BY <1>1, Fields
<2>c1. TokensOK'
  BY <1>m, <1>w, <1>1, <2>1, Fields DEF IInv, Safe, TokensOK, Tokens, server,
      SessionOK, Confirmed, Stored, store
<2>c2. StoreOK'
  BY <1>m, <1>w, <1>1, <2>1, Fields DEF IInv, Safe, StoreOK, Confirmed, store,
      DueOK, SameRun, Settlers, Tokens, server
<2>c3. SessionOK'
  BY <1>m, <1>w, <1>1, <2>1, Fields DEF IInv, Safe, SessionOK, Confirmed,
      Stored, store, JobOK, Running, SameRun, Unsettled, Announced, Before
<2>c6. JobOK'
  BY <1>m, <1>w, <1>1, <2>1, Fields DEF IInv, Safe, JobOK, Running, SameRun,
      Confirmed, Unsettled, Announced, Before, store, DeletingOK, AnnouncedOK,
      Stored, RiskOK, Risky, server, WorkerOK
<2>c7. AnnouncedOK'
  BY <1>m, <1>w, <1>1, <2>1, Fields DEF IInv, Safe, AnnouncedOK, Running,
      SameRun, Stored, Unsettled, Confirmed, Announced, store, JobOK, Before,
      DeletingOK
<2>c15. WorkspaceFenced'
  BY <1>m, <1>w, <1>1, <2>1, Fields DEF IInv, Safe, WorkspaceFenced, Risky,
      server, CredentialsOK, Stored, Unsettled, Confirmed, store
<2>c16. ConfirmedNeverAuthenticates'
  BY <1>m, <1>w, <1>1, <2>1, Fields DEF IInv, Safe, ConfirmedNeverAuthenticates,
      Confirmed, store, JobOK, Running, SameRun, Unsettled, Announced, Before
<2>g0. (WorkspaceOK /\ DeletingOK /\ RiskOK /\ ConfirmedOK /\ LockOK /\ DueOK /\
        WorkerOK /\ FenceOK /\ CredentialsOK)'
  BY <1>m, <1>w, <1>1, <2>1, Fields DEF IInv, Safe, WorkspaceOK, Stored, store,
      server, DeletingOK, Running, SameRun, RiskOK, Risky, Before, ConfirmedOK,
      Confirmed, LockOK, DueOK, Settlers, Tokens, WorkerOK, FenceOK, Unsettled,
      CredentialsOK
<2> QED  BY <2>c1, <2>c2, <2>c3, <2>c6, <2>c7, <2>c15, <2>c16, <2>g0 DEF Safe
<1>2. CASE /\ worker.generation = session.generation /\ Enter("expire")
           /\ UNCHANGED <<session, workspace, worker>>
  <2>1. lock'.who = "expire" /\ lock'.step = "look" /\ lock'.due = NoDebt
    BY <1>2, EnterFacts
<2>c1. TokensOK'
  BY <1>m, <1>w, <1>2, <2>1, Fields DEF IInv, Safe, TokensOK, Tokens, server,
      DueOK, SameRun, Settlers, store
<2>c2. StoreOK'
  BY <1>m, <1>w, <1>2, <2>1, Fields DEF IInv, Safe, StoreOK, Confirmed, store,
      DueOK, SameRun, Settlers, Tokens, server
<2>c6. JobOK'
  BY <1>m, <1>w, <1>2, <2>1, Fields DEF IInv, Safe, JobOK, Running, SameRun,
      Confirmed, Unsettled, Announced, Before, store, DueOK, Settlers, Tokens,
      server
<2>c10. LockOK'
  BY <1>m, <1>w, <1>2, <2>1, Fields DEF IInv, Safe, LockOK, Running, WorkerOK
<2>g0. (SessionOK /\ WorkspaceOK /\ DeletingOK /\ AnnouncedOK /\ RiskOK /\
        ConfirmedOK /\ DueOK /\ WorkerOK /\ FenceOK /\ CredentialsOK /\
        WorkspaceFenced /\ ConfirmedNeverAuthenticates)'
  BY <1>m, <1>w, <1>2, <2>1, Fields DEF IInv, Safe, SessionOK, Confirmed,
      Stored, store, WorkspaceOK, server, DeletingOK, Running, SameRun,
      AnnouncedOK, Unsettled, Announced, RiskOK, Risky, Before, ConfirmedOK,
      DueOK, Settlers, Tokens, WorkerOK, FenceOK, CredentialsOK,
      WorkspaceFenced, ConfirmedNeverAuthenticates
<2> QED  BY <2>c1, <2>c2, <2>c6, <2>c10, <2>g0 DEF Safe
<1>3. CASE worker'.at = "none" /\ UNCHANGED <<session, workspace, lock>>
<2>c1. TokensOK'
  BY <1>m, <1>w, <1>3, Fields DEF IInv, Safe, TokensOK, Tokens, server, DueOK,
      SameRun, Settlers, store
<2>c2. StoreOK'
  BY <1>m, <1>w, <1>3, Fields DEF IInv, Safe, StoreOK, Confirmed, store, DueOK,
      SameRun, Settlers, Tokens, server
<2>c6. JobOK'
  BY <1>m, <1>w, <1>3, Fields DEF IInv, Safe, JobOK, Running, SameRun,
      Confirmed, Unsettled, Announced, Before, store, DueOK, Settlers, Tokens,
      server
<2>g0. (SessionOK /\ WorkspaceOK /\ DeletingOK /\ AnnouncedOK /\ RiskOK /\
        ConfirmedOK /\ LockOK /\ DueOK /\ WorkerOK /\ FenceOK /\
        CredentialsOK /\ WorkspaceFenced /\ ConfirmedNeverAuthenticates)'
  BY <1>m, <1>w, <1>3, Fields DEF IInv, Safe, SessionOK, Confirmed, Stored,
      store, WorkspaceOK, server, DeletingOK, Running, SameRun, AnnouncedOK,
      Unsettled, Announced, RiskOK, Risky, Before, ConfirmedOK, LockOK, DueOK,
      Settlers, Tokens, WorkerOK, FenceOK, CredentialsOK, WorkspaceFenced,
      ConfirmedNeverAuthenticates
<2> QED  BY <2>c1, <2>c2, <2>c6, <2>g0 DEF Safe
<1>4. worker.at = "me" => worker \in Workers
  BY DEF IInv, Typed
<1> QED  BY <1>1, <1>2, <1>3, <1>4 DEF Workers

LEMMA RefreshAccessSafe ==
    ASSUME IInv, RefreshAccess
    PROVE  Safe'
<1> USE DEF RefreshAccess, Free
<1>1. CASE /\ UNCHANGED <<item, tombstone, identity, owner, session>>
           /\ job' = [job EXCEPT !.step = "failed"]
  <2>1. job'.step = "failed" /\ job'.token = job.token /\ job'.generation = job.generation
    BY <1>1 DEF IInv, Typed, Jobs
  <2>2. UNCHANGED Mine
    BY <2>1 DEF Mine
<2>g0. (TokensOK /\ StoreOK /\ SessionOK /\ WorkspaceOK /\ DeletingOK /\
        JobOK /\ AnnouncedOK /\ RiskOK /\ ConfirmedOK /\ LockOK /\ DueOK /\
        WorkerOK /\ FenceOK /\ CredentialsOK /\ WorkspaceFenced /\
        ConfirmedNeverAuthenticates)'
  BY <1>1, <2>1, <2>2, Fields DEF IInv, Safe, TokensOK, Tokens, server, StoreOK,
      Confirmed, store, SessionOK, Stored, WorkspaceOK, DeletingOK, Running,
      SameRun, JobOK, Unsettled, Announced, Before, AnnouncedOK, RiskOK, Risky,
      ConfirmedOK, LockOK, DueOK, Settlers, WorkerOK, FenceOK, CredentialsOK,
      WorkspaceFenced, ConfirmedNeverAuthenticates
<2> QED  BY <2>g0 DEF Safe
<1>2. CASE /\ Current /\ job.token = session.token /\ Honoured(job.token) /\ ~Unsettled
           /\ identity.token = job.token
           /\ owner' = Append(owner, owner[job.token])
           /\ item' = Len(owner) + 1 /\ identity' = Debt(Len(owner) + 1, 0)
           /\ tombstone' = FALSE
           /\ session' = [session EXCEPT !.token = Len(owner) + 1, !.access = TRUE]
           /\ job' = [job EXCEPT !.token = Len(owner) + 1, !.step = "mark"]
  <2> DEFINE token == Len(owner) + 1
  <2>0. job.token \in Tokens /\ job.token # 0 /\ Running /\ ~Confirmed
    BY <1>2 DEF IInv, Safe, TokensOK, JobOK, Running, Unsettled
  <2>1. /\ session'.token = token /\ session'.generation = session.generation
        /\ session'.authenticated = session.authenticated /\ session'.deleting = session.deleting
        /\ identity'.token = token /\ identity'.generation = 0
        /\ job'.step = "mark" /\ job'.token = token /\ job'.generation = job.generation
    BY <1>2, Fields DEF IInv, Typed, Sessions, Jobs
  <2>2. /\ token \in Tokens' /\ owner'[token] = owner[job.token]
        /\ Len(owner') = Len(owner) + 1 /\ token # 0
        /\ \A t \in Tokens : t \in Tokens' /\ owner'[t] = owner[t]
        /\ Tokens' = Tokens \cup {token}
    BY <1>2, <2>0, OwnerGrows, AccountsTyped DEF IInv
  <2>3. /\ item' = token /\ tombstone' = FALSE /\ Stored' = token
        /\ UNCHANGED <<process, owed, worker, ui, fence, cleanup, meta, workspace,
                       gone, revoked, asked, detached, lock, wire, marker>>
    BY <1>2 DEF Stored
  <2>4. \A a : Risky(a)' <=> Risky(a)
    BY <2>2, <2>3 DEF IInv, Safe, TokensOK, Risky
  <2>6. gone \subseteq 1..Len(owner') /\ \A t \in Tokens' : owner'[t] <= Len(owner')
    BY <2>0, <2>2, <2>3, AccountsTyped DEF IInv, Safe, TokensOK
  <2>7. /\ marker = NoDebt /\ session.token = job.token /\ session.token # 0
        /\ session.authenticated /\ session.deleting /\ job.step \in Before
    BY <1>2, <2>0 DEF Unsettled, Current, Before
  <2>8. detached \/ ~Risky(owner[job.token])
    BY <2>0, <2>7 DEF IInv, Safe, RiskOK, DeletingOK
  <2> HIDE DEF token
<2>c1. TokensOK'
  BY <2>1, <2>2, <2>3, <2>6 DEF IInv, Safe, TokensOK
<2>c3. SessionOK'
  BY <2>1, <2>2, <2>3, <2>7, Fields DEF IInv, Safe, SessionOK, Confirmed
<2>c4. WorkspaceOK'
  BY <2>1, <2>2, <2>3, <2>7 DEF IInv, Safe, WorkspaceOK
<2>c5. DeletingOK'
  BY <2>1, <2>3, <2>7 DEF IInv, Safe, DeletingOK, Running, SameRun
<2>c7. AnnouncedOK'
  BY <2>0, <2>1, <2>2, <2>3, <2>7 DEF IInv, Safe, AnnouncedOK, Running, SameRun,
      Announced, DeletingOK, JobOK
<2>c8. RiskOK'
  BY <2>1, <2>2, <2>3, <2>4, <2>8 DEF RiskOK, Before
<2>c14. CredentialsOK'
  BY <2>1, <2>2, <2>3, <2>4, <2>7, <2>8 DEF CredentialsOK
<2>c15. WorkspaceFenced'
  BY <2>3, <2>4 DEF IInv, Safe, WorkspaceFenced
<2>g0. (StoreOK /\ JobOK /\ ConfirmedOK /\ LockOK /\ DueOK /\ WorkerOK /\
        FenceOK /\ ConfirmedNeverAuthenticates)'
  BY <2>0, <2>1, <2>2, <2>3, <2>7, Fields DEF IInv, Safe, StoreOK, Confirmed,
      store, JobOK, Running, SameRun, Unsettled, Announced, Before, ConfirmedOK,
      LockOK, DueOK, Settlers, Tokens, server, WorkerOK, FenceOK, Risky,
      ConfirmedNeverAuthenticates
<2> QED  BY <2>c1, <2>c3, <2>c4, <2>c5, <2>c7, <2>c8, <2>c14, <2>c15, <2>g0 DEF
    Safe
<1> QED  BY <1>1, <1>2

LEMMA UseAccessSafe ==
    ASSUME IInv, UseAccess
    PROVE  Safe'
<1> USE DEF UseAccess, JobFrame, Free
<1>1. job'.step = "mark" /\ job'.token = job.token /\ job'.generation = job.generation
  BY DEF IInv, Typed, Jobs
<1>2. UNCHANGED Mine
  BY <1>1 DEF Mine
<1>c1. TokensOK'
  BY <1>1, <1>2, Fields DEF IInv, Safe, TokensOK, Tokens, server, DueOK,
      SameRun, Settlers, store
<1>g0. (StoreOK /\ SessionOK /\ WorkspaceOK /\ DeletingOK /\ JobOK /\
        AnnouncedOK /\ RiskOK /\ ConfirmedOK /\ LockOK /\ DueOK /\ WorkerOK /\
        FenceOK /\ CredentialsOK /\ WorkspaceFenced /\
        ConfirmedNeverAuthenticates)'
  BY <1>1, <1>2, Fields DEF IInv, Safe, StoreOK, Confirmed, store, SessionOK,
      Stored, WorkspaceOK, server, DeletingOK, Running, SameRun, JobOK,
      Unsettled, Announced, Before, AnnouncedOK, RiskOK, Risky, ConfirmedOK,
      LockOK, DueOK, Settlers, Tokens, WorkerOK, FenceOK, CredentialsOK,
      WorkspaceFenced, ConfirmedNeverAuthenticates
<1> QED  BY <1>c1, <1>g0 DEF Safe

LEMMA MarkDeletionSafe ==
    ASSUME IInv, MarkDeletion
    PROVE  Safe'
<1> USE DEF MarkDeletion, JobFrame, Free, Enter
<1>e. lock'.who = "mark" /\ lock'.step = "look" /\ lock'.due = NoDebt
  BY EnterFacts
<1>m. UNCHANGED Mine
  BY DEF Mine
<1>c1. TokensOK'
  BY <1>e, <1>m, Fields DEF IInv, Safe, TokensOK, Tokens, server, DueOK,
      SameRun, Settlers, store
<1>g0. (StoreOK /\ SessionOK /\ WorkspaceOK /\ DeletingOK /\ JobOK /\
        AnnouncedOK /\ RiskOK /\ ConfirmedOK /\ LockOK /\ DueOK /\ WorkerOK /\
        FenceOK /\ CredentialsOK /\ WorkspaceFenced /\
        ConfirmedNeverAuthenticates)'
  BY <1>e, <1>m, Fields DEF IInv, Safe, StoreOK, Confirmed, store, SessionOK,
      Stored, WorkspaceOK, server, DeletingOK, Running, SameRun, JobOK,
      Unsettled, Announced, Before, AnnouncedOK, RiskOK, Risky, ConfirmedOK,
      LockOK, DueOK, Settlers, Tokens, WorkerOK, FenceOK, CredentialsOK,
      WorkspaceFenced, ConfirmedNeverAuthenticates
<1> QED  BY <1>c1, <1>g0 DEF Safe

LEMMA SendDeleteSafe ==
    ASSUME IInv, SendDelete
    PROVE  Safe'
<1> USE DEF SendDelete, JobFrame, Free
<1>1. job'.step = "wait" /\ job'.token = job.token /\ job'.generation = job.generation
  BY DEF IInv, Typed, Jobs
<1>2. UNCHANGED Mine
  BY <1>1 DEF Mine
<1>3. wire'.at = "request" /\ wire'.token = job.token
  OBVIOUS
<1>4. owner[job.token] # 0 /\ 0 \notin gone
  BY AccountsTyped DEF IInv, Safe, TokensOK, JobOK, Running
<1>c1. TokensOK'
  BY <1>1, <1>2, <1>3, <1>4, Fields DEF IInv, Safe, TokensOK, Tokens, server,
      JobOK, Running, SameRun, Confirmed, Unsettled, Announced, Before, store
<1>c14. CredentialsOK'
  BY <1>1, <1>2, <1>3, <1>4, Fields DEF IInv, Safe, CredentialsOK, Stored,
      Risky, Unsettled, Confirmed, store, server, StoreOK, SessionOK, JobOK,
      Running, SameRun, Announced, Before, AnnouncedOK
<1>c15. WorkspaceFenced'
  BY <1>1, <1>2, <1>3, <1>4, Fields DEF IInv, Safe, WorkspaceFenced, Risky,
      server, AnnouncedOK, Running, SameRun, Stored, Unsettled, Confirmed,
      Announced, store
<1>g0. (StoreOK /\ SessionOK /\ WorkspaceOK /\ DeletingOK /\ JobOK /\
        AnnouncedOK /\ RiskOK /\ ConfirmedOK /\ LockOK /\ DueOK /\ WorkerOK /\
        FenceOK /\ ConfirmedNeverAuthenticates)'
  BY <1>1, <1>2, <1>3, <1>4, Fields DEF IInv, Safe, StoreOK, Confirmed, store,
      SessionOK, Stored, WorkspaceOK, server, DeletingOK, Running, SameRun,
      JobOK, Unsettled, Announced, Before, AnnouncedOK, RiskOK, Risky,
      ConfirmedOK, LockOK, DueOK, Settlers, Tokens, WorkerOK, FenceOK,
      ConfirmedNeverAuthenticates
<1> QED  BY <1>c1, <1>c14, <1>c15, <1>g0 DEF Safe

LEMMA DeleteAnswerSafe ==
    ASSUME IInv, DeleteAnswer
    PROVE  Safe'
<1> USE DEF DeleteAnswer, JobFrame, Free, Enter
<1>m. UNCHANGED Mine
  BY DEF Mine
<1>1. /\ lock'.who \in {"finish", "refused", "uncertain"} /\ lock'.step = "look" /\ lock'.due = NoDebt
      /\ lock'.who = "refused" => wire.at \in {"refused", "stale"}
  <2>1. ASSUME NEW who, Enter(who)
        PROVE lock'.who = who /\ lock'.step = "look" /\ lock'.due = NoDebt
    BY <2>1, EnterFacts
  <2> QED  BY <2>1
<1>c1. TokensOK'
  BY <1>m, <1>1, Fields DEF IInv, Safe, TokensOK, Tokens, server, DueOK,
      SameRun, Settlers, store
<1>g0. (StoreOK /\ SessionOK /\ WorkspaceOK /\ DeletingOK /\ JobOK /\
        AnnouncedOK /\ RiskOK /\ ConfirmedOK /\ LockOK /\ DueOK /\ WorkerOK /\
        FenceOK /\ CredentialsOK /\ WorkspaceFenced /\
        ConfirmedNeverAuthenticates)'
  BY <1>m, <1>1, Fields DEF IInv, Safe, StoreOK, Confirmed, store, SessionOK,
      Stored, WorkspaceOK, server, DeletingOK, Running, SameRun, JobOK,
      Unsettled, Announced, Before, AnnouncedOK, RiskOK, Risky, ConfirmedOK,
      LockOK, DueOK, Settlers, Tokens, WorkerOK, FenceOK, CredentialsOK,
      WorkspaceFenced, ConfirmedNeverAuthenticates
<1> QED  BY <1>c1, <1>g0 DEF Safe

LEMMA ReportDeletedSafe ==
    ASSUME IInv, ReportDeleted
    PROVE  Safe'
<1> USE DEF ReportDeleted, UiFree, RetryFence, Enter, Free
<1>j. job'.step = "none" /\ job'.token = 0 /\ ~Running'
  BY Fields DEF NoJob, Running
<1>f. Current => /\ session'.token = 0 /\ session'.generation = session.generation + 1
                 /\ session'.authenticated = FALSE /\ session'.deleting = FALSE
                 /\ fence'.pending = TRUE /\ fence'.denied = fence.denied
  BY Fields DEF IInv, Typed, Fences
<1>1. CASE ~Current
<2>c1. TokensOK'
  BY <1>j, <1>1, Fields DEF IInv, Safe, TokensOK, Tokens, server, DueOK,
      SameRun, Settlers, store
<2>c2. StoreOK'
  BY <1>j, <1>1, Fields DEF IInv, Safe, StoreOK, Confirmed, store, DueOK,
      SameRun, Settlers, Tokens, server
<2>c5. DeletingOK'
  BY <1>j, <1>1, Fields DEF IInv, Safe, DeletingOK, Running, SameRun, store,
      server, Tokens, Settlers, Ready, Risky, Announced, Before, Stored,
      Confirmed, Unsettled, Current
<2>c9. ConfirmedOK'
  BY <1>j, <1>1, Fields DEF IInv, Safe, ConfirmedOK, Confirmed, store, server,
      Tokens, Settlers, Ready, Risky, Running, SameRun, Announced, Before,
      Stored, Unsettled, Current, TokensOK, DeletingOK
<2>g0. (SessionOK /\ WorkspaceOK)'
  BY <1>j, <1>1, Fields DEF IInv, Safe, SessionOK, Confirmed, Stored, store,
      WorkspaceOK, server
<2>g1. (JobOK /\ AnnouncedOK /\ RiskOK)'
  BY <1>j, <1>1, Fields DEF IInv, Safe, JobOK, Running, SameRun, Confirmed,
      Unsettled, Announced, Before, store, AnnouncedOK, Stored, RiskOK, Risky,
      server
<2>g2. (LockOK /\ DueOK /\ WorkerOK /\ FenceOK)'
  BY <1>j, <1>1, Fields DEF IInv, Safe, LockOK, Running, DueOK, SameRun,
      Settlers, Tokens, store, server, WorkerOK, FenceOK, Risky, Unsettled,
      Confirmed
<2>g3. (CredentialsOK /\ WorkspaceFenced /\ ConfirmedNeverAuthenticates)'
  BY <1>j, <1>1, Fields DEF IInv, Safe, CredentialsOK, Stored, Risky, Unsettled,
      Confirmed, store, server, WorkspaceFenced, ConfirmedNeverAuthenticates
<2> QED  BY <2>c1, <2>c2, <2>c5, <2>c9, <2>g0, <2>g1, <2>g2, <2>g3 DEF Safe
<1>2. CASE Current /\ fence.denied
<2>c1. TokensOK'
  BY <1>j, <1>f, <1>2, Fields DEF IInv, Safe, TokensOK, Tokens, server, DueOK,
      SameRun, Settlers, store
<2>c2. StoreOK'
  BY <1>j, <1>f, <1>2, Fields DEF IInv, Safe, StoreOK, Confirmed, store, DueOK,
      SameRun, Settlers, Tokens, server
<2>c3. SessionOK'
  BY <1>j, <1>f, <1>2, Fields, Parts DEF IInv, Safe, SessionOK, Confirmed,
      Stored, store
<2>c12. WorkerOK'
  BY <1>j, <1>f, <1>2, Fields, Parts DEF IInv, Safe, WorkerOK
<2>g0. (WorkspaceOK /\ DeletingOK /\ JobOK /\ AnnouncedOK /\ RiskOK /\
        ConfirmedOK /\ LockOK /\ DueOK /\ FenceOK /\ CredentialsOK /\
        WorkspaceFenced /\ ConfirmedNeverAuthenticates)'
  BY <1>j, <1>f, <1>2, Fields DEF IInv, Safe, WorkspaceOK, Stored, store,
      server, DeletingOK, Running, SameRun, JobOK, Confirmed, Unsettled,
      Announced, Before, AnnouncedOK, RiskOK, Risky, ConfirmedOK, LockOK, DueOK,
      Settlers, Tokens, FenceOK, CredentialsOK, WorkspaceFenced,
      ConfirmedNeverAuthenticates
<2> QED  BY <2>c1, <2>c2, <2>c3, <2>c12, <2>g0 DEF Safe
<1>3. CASE Current /\ ~fence.denied
  <2>1. lock'.who = "recover" /\ lock'.step = "look" /\ lock'.due = NoDebt
    BY <1>3, EnterFacts
<2>c1. TokensOK'
  BY <1>j, <1>f, <1>3, <2>1, Later, Fields DEF IInv, Safe, TokensOK, Tokens,
      server, DueOK, SameRun, Settlers, store
<2>c2. StoreOK'
  BY <1>j, <1>f, <1>3, <2>1, Later, Fields DEF IInv, Safe, StoreOK, Confirmed,
      store, DueOK, SameRun, Settlers, Tokens, server
<2>c13. FenceOK'
  BY <1>j, <1>f, <1>3, <2>1, Later, Fields DEF IInv, Safe, FenceOK, Running,
      Risky, Unsettled, Confirmed, store, server, Tokens, Settlers, Ready,
      SameRun, Announced, Before, Stored, Current, TokensOK, DeletingOK
<2>g0. (SessionOK /\ WorkspaceOK /\ DeletingOK /\ JobOK /\ AnnouncedOK /\
        RiskOK /\ ConfirmedOK /\ LockOK /\ DueOK /\ WorkerOK /\ CredentialsOK /\
        WorkspaceFenced /\ ConfirmedNeverAuthenticates)'
  BY <1>j, <1>f, <1>3, <2>1, Later, Fields DEF IInv, Safe, SessionOK, Confirmed,
      Stored, store, WorkspaceOK, server, DeletingOK, Running, SameRun, JobOK,
      Unsettled, Announced, Before, AnnouncedOK, RiskOK, Risky, ConfirmedOK,
      LockOK, DueOK, Settlers, Tokens, WorkerOK, CredentialsOK, WorkspaceFenced,
      ConfirmedNeverAuthenticates
<2> QED  BY <2>c1, <2>c2, <2>c13, <2>g0 DEF Safe
<1> QED  BY <1>1, <1>2, <1>3

LEMMA ReportFailedSafe ==
    ASSUME IInv, ReportFailed
    PROVE  Safe'
<1> USE DEF ReportFailed, UiFree, RetryFence, Over, Enter, Free
<1>j. job'.step = "none" /\ job'.token = 0 /\ ~Running'
  BY Fields DEF NoJob, Running
<1>1. CASE ~Current
<2>c1. TokensOK'
  BY <1>j, <1>1, Fields DEF IInv, Safe, TokensOK, Tokens, server, DueOK,
      SameRun, Settlers, store
<2>c2. StoreOK'
  BY <1>j, <1>1, Fields DEF IInv, Safe, StoreOK, Confirmed, store, DueOK,
      SameRun, Settlers, Tokens, server
<2>c5. DeletingOK'
  BY <1>j, <1>1, Fields DEF IInv, Safe, DeletingOK, Running, SameRun, store,
      server, Tokens, Settlers, Ready, Risky, Announced, Before, Stored,
      Confirmed, Unsettled, Current
<2>c9. ConfirmedOK'
  BY <1>j, <1>1, Fields DEF IInv, Safe, ConfirmedOK, Confirmed, store, server,
      Tokens, Settlers, Ready, Risky, Running, SameRun, Announced, Before,
      Stored, Unsettled, Current, TokensOK, DeletingOK
<2>g0. (SessionOK /\ WorkspaceOK)'
  BY <1>j, <1>1, Fields DEF IInv, Safe, SessionOK, Confirmed, Stored, store,
      WorkspaceOK, server
<2>g1. (JobOK /\ AnnouncedOK /\ RiskOK)'
  BY <1>j, <1>1, Fields DEF IInv, Safe, JobOK, Running, SameRun, Confirmed,
      Unsettled, Announced, Before, store, AnnouncedOK, Stored, RiskOK, Risky,
      server
<2>g2. (LockOK /\ DueOK /\ WorkerOK /\ FenceOK)'
  BY <1>j, <1>1, Fields DEF IInv, Safe, LockOK, Running, DueOK, SameRun,
      Settlers, Tokens, store, server, WorkerOK, FenceOK, Risky, Unsettled,
      Confirmed
<2>g3. (CredentialsOK /\ WorkspaceFenced /\ ConfirmedNeverAuthenticates)'
  BY <1>j, <1>1, Fields DEF IInv, Safe, CredentialsOK, Stored, Risky, Unsettled,
      Confirmed, store, server, WorkspaceFenced, ConfirmedNeverAuthenticates
<2> QED  BY <2>c1, <2>c2, <2>c5, <2>c9, <2>g0, <2>g1, <2>g2, <2>g3 DEF Safe
<1>2. CASE Current /\ Over
  <2>1. /\ session'.token = 0 /\ session'.generation = session.generation + 1
        /\ session'.authenticated = FALSE /\ session'.deleting = FALSE
    BY <1>2, Fields
  <2>2. /\ fence.pending /\ fence'.pending /\ fence'.denied = FALSE /\ UNCHANGED ui
        /\ Enter("recover")
    BY <1>2 DEF IInv, Safe, Typed, Fences, DeletingOK, Current
  <2>3. lock'.who = "recover" /\ lock'.step = "look" /\ lock'.due = NoDebt
    BY <2>2, EnterFacts
<2>c1. TokensOK'
  BY <1>j, <1>2, <2>1, <2>2, <2>3, Later, Fields DEF IInv, Safe, TokensOK,
      Tokens, server, DueOK, SameRun, Settlers, store
<2>c2. StoreOK'
  BY <1>j, <1>2, <2>1, <2>2, <2>3, Later, Fields DEF IInv, Safe, StoreOK,
      Confirmed, store, DueOK, SameRun, Settlers, Tokens, server
<2>g0. (SessionOK /\ WorkspaceOK /\ DeletingOK /\ JobOK /\ AnnouncedOK /\
        RiskOK /\ ConfirmedOK /\ LockOK /\ DueOK /\ WorkerOK /\ FenceOK /\
        CredentialsOK /\ WorkspaceFenced /\ ConfirmedNeverAuthenticates)'
  BY <1>j, <1>2, <2>1, <2>2, <2>3, Later, Fields DEF IInv, Safe, SessionOK,
      Confirmed, Stored, store, WorkspaceOK, server, DeletingOK, Running,
      SameRun, JobOK, Unsettled, Announced, Before, AnnouncedOK, RiskOK, Risky,
      ConfirmedOK, LockOK, DueOK, Settlers, Tokens, WorkerOK, FenceOK,
      CredentialsOK, WorkspaceFenced, ConfirmedNeverAuthenticates
<2> QED  BY <2>c1, <2>c2, <2>g0 DEF Safe
<1>3. CASE Current /\ ~Over
  <2>1. /\ session'.token = session.token /\ session'.generation = session.generation
        /\ session'.authenticated = session.authenticated /\ session'.deleting = FALSE
    BY <1>3 DEF IInv, Typed, Sessions
  <2>2. /\ fence.pending /\ fence'.pending /\ fence'.denied = TRUE /\ ui' = "resolve"
        /\ UNCHANGED lock
    BY <1>3 DEF IInv, Safe, Typed, Fences, DeletingOK, Current
  <2>3. detached \/ ~Risky(workspace)
    BY <1>3, NobodyAtRisk DEF IInv, Safe, RiskOK, Running, SameRun, Current,
        Over, DeletingOK, WorkspaceOK, SessionOK, AnnouncedOK
<2>c1. TokensOK'
  BY <1>j, <1>3, <2>1, <2>2, <2>3, Fields DEF IInv, Safe, TokensOK, Tokens,
      server, DueOK, SameRun, Settlers, store
<2>c2. StoreOK'
  BY <1>j, <1>3, <2>1, <2>2, <2>3, Fields DEF IInv, Safe, StoreOK, Confirmed,
      store, DueOK, SameRun, Settlers, Tokens, server
<2>c16. ConfirmedNeverAuthenticates'
  BY <1>j, <1>3, <2>1, <2>2, <2>3, Fields DEF IInv, Safe,
      ConfirmedNeverAuthenticates, Confirmed, store, ConfirmedOK
<2>g0. (SessionOK /\ WorkspaceOK)'
  BY <1>j, <1>3, <2>1, <2>2, <2>3, Fields DEF IInv, Safe, SessionOK, Confirmed,
      Stored, store, WorkspaceOK, server
<2>g1. (DeletingOK /\ JobOK /\ AnnouncedOK /\ RiskOK /\ ConfirmedOK)'
  BY <1>j, <1>3, <2>1, <2>2, <2>3, Fields DEF IInv, Safe, DeletingOK, Running,
      SameRun, JobOK, Confirmed, Unsettled, Announced, Before, store,
      AnnouncedOK, Stored, RiskOK, Risky, server, ConfirmedOK
<2>g2. (LockOK /\ DueOK /\ WorkerOK /\ FenceOK)'
  BY <1>j, <1>3, <2>1, <2>2, <2>3, Fields DEF IInv, Safe, LockOK, Running,
      DueOK, SameRun, Settlers, Tokens, store, server, WorkerOK, FenceOK, Risky,
      Unsettled, Confirmed
<2>g3. (CredentialsOK /\ WorkspaceFenced)'
  BY <1>j, <1>3, <2>1, <2>2, <2>3, Fields DEF IInv, Safe, CredentialsOK, Stored,
      Risky, Unsettled, Confirmed, store, server, WorkspaceFenced
<2> QED  BY <2>c1, <2>c2, <2>c16, <2>g0, <2>g1, <2>g2, <2>g3 DEF Safe
<1> QED  BY <1>1, <1>2, <1>3

LEMMA HandleDeleteSafe ==
    ASSUME IInv, HandleDelete
    PROVE  Safe'
<1> USE DEF HandleDelete, ServiceFrame
<1>m. UNCHANGED Mine
  BY DEF Mine
<1>1. CASE UNCHANGED gone /\ wire'.at \in {"refused", "stale"} /\ wire'.token = wire.token
<2>c1. TokensOK'
  BY <1>m, <1>1, Fields DEF IInv, Safe, TokensOK, Tokens, server, DueOK,
      SameRun, Settlers, store
<2>g0. StoreOK'
  BY <1>m, <1>1, Fields DEF IInv, Safe, StoreOK, Confirmed, store
<2>g1. SessionOK'
  BY <1>m, <1>1, Fields DEF IInv, Safe, SessionOK, Confirmed, Stored, store
<2>g2. WorkspaceOK'
  BY <1>m, <1>1, Fields DEF IInv, Safe, WorkspaceOK, Stored, store, server
<2>g3. DeletingOK'
  BY <1>m, <1>1, Fields DEF IInv, Safe, DeletingOK, Running, SameRun
<2>g4. JobOK'
  BY <1>m, <1>1, Fields DEF IInv, Safe, JobOK, Running, SameRun, Confirmed,
      Unsettled, Announced, Before, store
<2>g5. AnnouncedOK'
  BY <1>m, <1>1, Fields DEF IInv, Safe, AnnouncedOK, Running, SameRun, Stored,
      Unsettled, Confirmed, Announced, store
<2>g6. RiskOK'
  BY <1>m, <1>1, Fields DEF IInv, Safe, RiskOK, Running, SameRun, Risky, Before,
      server
<2>g7. ConfirmedOK'
  BY <1>m, <1>1, Fields DEF IInv, Safe, ConfirmedOK, Confirmed, store
<2>g8. LockOK'
  BY <1>m, <1>1, Fields DEF IInv, Safe, LockOK, Running
<2>g9. DueOK'
  BY <1>m, <1>1, Fields DEF IInv, Safe, DueOK, SameRun, Settlers, Tokens, store,
      server
<2>g10. WorkerOK'
  BY <1>m, <1>1, Fields DEF IInv, Safe, WorkerOK
<2>g11. FenceOK'
  BY <1>m, <1>1, Fields DEF IInv, Safe, FenceOK, Running, Risky, Unsettled,
      Confirmed, store, server
<2>g12. CredentialsOK'
  BY <1>m, <1>1, Fields DEF IInv, Safe, CredentialsOK, Stored, Risky, Unsettled,
      Confirmed, store, server
<2>g13. WorkspaceFenced'
  BY <1>m, <1>1, Fields DEF IInv, Safe, WorkspaceFenced, Risky, server
<2>g14. ConfirmedNeverAuthenticates'
  BY <1>m, <1>1, Fields DEF IInv, Safe, ConfirmedNeverAuthenticates, Confirmed,
      store
<2> QED  BY <2>c1, <2>g0, <2>g1, <2>g2, <2>g3, <2>g4, <2>g5, <2>g6, <2>g7,
    <2>g8, <2>g9, <2>g10, <2>g11, <2>g12, <2>g13, <2>g14 DEF Safe
<1>2. CASE gone' = gone \cup {owner[wire.token]} /\ wire'.at = "deleted" /\ wire'.token = wire.token
  <2>1. /\ wire.token \in Tokens /\ owner[wire.token] \in 1..Len(owner)
    BY AccountsTyped DEF IInv, Safe, TokensOK
  <2>2. \A a : Risky(a)' => Risky(a)
    BY <1>2 DEF Risky
<2>c1. TokensOK'
  BY <1>m, <1>2, <2>1, <2>2, Fields DEF IInv, Safe, TokensOK, Tokens, server,
      DueOK, SameRun, Settlers, store
<2>g0. StoreOK'
  BY <1>m, <1>2, <2>1, <2>2, Fields DEF IInv, Safe, StoreOK, Confirmed, store
<2>g1. SessionOK'
  BY <1>m, <1>2, <2>1, <2>2, Fields DEF IInv, Safe, SessionOK, Confirmed,
      Stored, store
<2>g2. WorkspaceOK'
  BY <1>m, <1>2, <2>1, <2>2, Fields DEF IInv, Safe, WorkspaceOK, Stored, store,
      server
<2>g3. DeletingOK'
  BY <1>m, <1>2, <2>1, <2>2, Fields DEF IInv, Safe, DeletingOK, Running, SameRun
<2>g4. JobOK'
  BY <1>m, <1>2, <2>1, <2>2, Fields DEF IInv, Safe, JobOK, Running, SameRun,
      Confirmed, Unsettled, Announced, Before, store
<2>g5. AnnouncedOK'
  BY <1>m, <1>2, <2>1, <2>2, Fields DEF IInv, Safe, AnnouncedOK, Running,
      SameRun, Stored, Unsettled, Confirmed, Announced, store
<2>g6. RiskOK'
  BY <1>m, <1>2, <2>1, <2>2, Fields DEF IInv, Safe, RiskOK, Running, SameRun,
      Risky, Before, server
<2>g7. ConfirmedOK'
  BY <1>m, <1>2, <2>1, <2>2, Fields DEF IInv, Safe, ConfirmedOK, Confirmed,
      store
<2>g8. LockOK'
  BY <1>m, <1>2, <2>1, <2>2, Fields DEF IInv, Safe, LockOK, Running
<2>g9. DueOK'
  BY <1>m, <1>2, <2>1, <2>2, Fields DEF IInv, Safe, DueOK, SameRun, Settlers,
      Tokens, store, server
<2>g10. WorkerOK'
  BY <1>m, <1>2, <2>1, <2>2, Fields DEF IInv, Safe, WorkerOK
<2>g11. FenceOK'
  BY <1>m, <1>2, <2>1, <2>2, Fields DEF IInv, Safe, FenceOK, Running, Risky,
      Unsettled, Confirmed, store, server
<2>g12. CredentialsOK'
  BY <1>m, <1>2, <2>1, <2>2, Fields DEF IInv, Safe, CredentialsOK, Stored,
      Risky, Unsettled, Confirmed, store, server
<2>g13. WorkspaceFenced'
  BY <1>m, <1>2, <2>1, <2>2, Fields DEF IInv, Safe, WorkspaceFenced, Risky,
      server
<2>g14. ConfirmedNeverAuthenticates'
  BY <1>m, <1>2, <2>1, <2>2, Fields DEF IInv, Safe, ConfirmedNeverAuthenticates,
      Confirmed, store
<2> QED  BY <2>c1, <2>g0, <2>g1, <2>g2, <2>g3, <2>g4, <2>g5, <2>g6, <2>g7,
    <2>g8, <2>g9, <2>g10, <2>g11, <2>g12, <2>g13, <2>g14 DEF Safe
<1> QED  BY <1>1, <1>2 DEF IInv, Typed, Wires

LEMMA LoseMarkerSafe ==
    ASSUME IInv, LoseMarker
    PROVE  Safe'
<1> USE DEF LoseMarker
<1>m. UNCHANGED Mine
  BY DEF Mine
<1>c2. StoreOK'
  BY <1>m, Fields DEF IInv, Safe, StoreOK, Confirmed, store, DueOK, SameRun,
      Settlers, Tokens, server
<1>g0. (TokensOK /\ SessionOK /\ WorkspaceOK /\ DeletingOK /\ JobOK /\
        AnnouncedOK /\ RiskOK /\ ConfirmedOK /\ LockOK /\ DueOK /\ WorkerOK /\
        FenceOK /\ CredentialsOK /\ WorkspaceFenced /\
        ConfirmedNeverAuthenticates)'
  BY <1>m, Fields DEF IInv, Safe, TokensOK, Tokens, server, SessionOK,
      Confirmed, Stored, store, WorkspaceOK, DeletingOK, Running, SameRun,
      JobOK, Unsettled, Announced, Before, AnnouncedOK, RiskOK, Risky,
      ConfirmedOK, LockOK, DueOK, Settlers, WorkerOK, FenceOK, CredentialsOK,
      WorkspaceFenced, ConfirmedNeverAuthenticates
<1> QED  BY <1>c2, <1>g0 DEF Safe

LEMMA RevokeSafe ==
    ASSUME IInv, Revoke
    PROVE  Safe'
<1> USE DEF Revoke, ServiceFrame
<1>m. UNCHANGED Mine
  BY DEF Mine
<1>c1. TokensOK'
  BY <1>m, Fields DEF IInv, Safe, TokensOK, Tokens, server, DueOK, SameRun,
      Settlers, store
<1>g0. StoreOK'
  BY <1>m, Fields DEF IInv, Safe, StoreOK, Confirmed, store
<1>g1. SessionOK'
  BY <1>m, Fields DEF IInv, Safe, SessionOK, Confirmed, Stored, store
<1>g2. WorkspaceOK'
  BY <1>m, Fields DEF IInv, Safe, WorkspaceOK, Stored, store, server
<1>g3. DeletingOK'
  BY <1>m, Fields DEF IInv, Safe, DeletingOK, Running, SameRun
<1>g4. JobOK'
  BY <1>m, Fields DEF IInv, Safe, JobOK, Running, SameRun, Confirmed, Unsettled,
      Announced, Before, store
<1>g5. AnnouncedOK'
  BY <1>m, Fields DEF IInv, Safe, AnnouncedOK, Running, SameRun, Stored,
      Unsettled, Confirmed, Announced, store
<1>g6. RiskOK'
  BY <1>m, Fields DEF IInv, Safe, RiskOK, Running, SameRun, Risky, Before,
      server
<1>g7. ConfirmedOK'
  BY <1>m, Fields DEF IInv, Safe, ConfirmedOK, Confirmed, store
<1>g8. LockOK'
  BY <1>m, Fields DEF IInv, Safe, LockOK, Running
<1>g9. DueOK'
  BY <1>m, Fields DEF IInv, Safe, DueOK, SameRun, Settlers, Tokens, store,
      server
<1>g10. WorkerOK'
  BY <1>m, Fields DEF IInv, Safe, WorkerOK
<1>g11. FenceOK'
  BY <1>m, Fields DEF IInv, Safe, FenceOK, Running, Risky, Unsettled, Confirmed,
      store, server
<1>g12. CredentialsOK'
  BY <1>m, Fields DEF IInv, Safe, CredentialsOK, Stored, Risky, Unsettled,
      Confirmed, store, server
<1>g13. WorkspaceFenced'
  BY <1>m, Fields DEF IInv, Safe, WorkspaceFenced, Risky, server
<1>g14. ConfirmedNeverAuthenticates'
  BY <1>m, Fields DEF IInv, Safe, ConfirmedNeverAuthenticates, Confirmed, store
<1> QED  BY <1>c1, <1>g0, <1>g1, <1>g2, <1>g3, <1>g4, <1>g5, <1>g6, <1>g7,
    <1>g8, <1>g9, <1>g10, <1>g11, <1>g12, <1>g13, <1>g14 DEF Safe

LEMMA OtherWorkSafe ==
    ASSUME IInv, OtherWork
    PROVE  Safe'
<1> USE DEF OtherWork, LockOnly, Free, Enter
<1>e. lock'.who = "other" /\ lock'.step = "look" /\ lock'.due = NoDebt
  BY EnterFacts
<1>m. UNCHANGED Mine
  BY DEF Mine
<1>c1. TokensOK'
  BY <1>e, <1>m, Fields DEF IInv, Safe, TokensOK, Tokens, server, DueOK,
      SameRun, Settlers, store
<1>c2. StoreOK'
  BY <1>e, <1>m, Fields DEF IInv, Safe, StoreOK, Confirmed, store, DueOK,
      SameRun, Settlers, Tokens, server
<1>c6. JobOK'
  BY <1>e, <1>m, Fields DEF IInv, Safe, JobOK, Running, SameRun, Confirmed,
      Unsettled, Announced, Before, store, DueOK, Settlers, Tokens, server
<1>g0. (SessionOK /\ WorkspaceOK /\ DeletingOK /\ AnnouncedOK /\ RiskOK /\
        ConfirmedOK /\ LockOK /\ DueOK /\ WorkerOK /\ FenceOK /\
        CredentialsOK /\ WorkspaceFenced /\ ConfirmedNeverAuthenticates)'
  BY <1>e, <1>m, Fields DEF IInv, Safe, SessionOK, Confirmed, Stored, store,
      WorkspaceOK, server, DeletingOK, Running, SameRun, AnnouncedOK, Unsettled,
      Announced, RiskOK, Risky, Before, ConfirmedOK, LockOK, DueOK, Settlers,
      Tokens, WorkerOK, FenceOK, CredentialsOK, WorkspaceFenced,
      ConfirmedNeverAuthenticates
<1> QED  BY <1>c1, <1>c2, <1>c6, <1>g0 DEF Safe

LEMMA AccessRejectedSafe ==
    ASSUME IInv, AccessRejected
    PROVE  Safe'
<1> USE DEF AccessRejected, JobFrame, Free
<1>m. UNCHANGED Mine
  BY DEF Mine
<1>1. /\ session'.token = session.token /\ session'.generation = session.generation
      /\ session'.authenticated = session.authenticated /\ session'.deleting = session.deleting
  BY DEF IInv, Typed, Sessions
<1>c1. TokensOK'
  BY <1>m, <1>1, Fields DEF IInv, Safe, TokensOK, Tokens, server, DueOK,
      SameRun, Settlers, store
<1>g0. (StoreOK /\ SessionOK /\ WorkspaceOK /\ DeletingOK /\ JobOK /\
        AnnouncedOK /\ RiskOK /\ ConfirmedOK /\ LockOK /\ DueOK /\ WorkerOK /\
        FenceOK /\ CredentialsOK /\ WorkspaceFenced /\
        ConfirmedNeverAuthenticates)'
  BY <1>m, <1>1, Fields DEF IInv, Safe, StoreOK, Confirmed, store, SessionOK,
      Stored, WorkspaceOK, server, DeletingOK, Running, SameRun, JobOK,
      Unsettled, Announced, Before, AnnouncedOK, RiskOK, Risky, ConfirmedOK,
      LockOK, DueOK, Settlers, Tokens, WorkerOK, FenceOK, CredentialsOK,
      WorkspaceFenced, ConfirmedNeverAuthenticates
<1> QED  BY <1>c1, <1>g0 DEF Safe

LEMMA ShutdownSafe ==
    ASSUME IInv, Shutdown
    PROVE  Safe'
<1> USE DEF Shutdown, UiFree, Free
<1>m. UNCHANGED Mine
  BY DEF Mine
<1>1. /\ session'.token = session.token /\ session'.generation = session.generation + 1
      /\ session'.authenticated = session.authenticated /\ session'.deleting = FALSE
  BY DEF IInv, Typed, Sessions
<1>2. Running => job # NoJob
  BY Fields DEF Running
<1>3. detached => detached'
  OBVIOUS
<1>c1. TokensOK'
  BY <1>m, <1>1, <1>2, Later, Fields DEF IInv, Safe, TokensOK, Tokens, server,
      DueOK, SameRun, Settlers, store
<1>c2. StoreOK'
  BY <1>m, <1>1, <1>2, Later, Fields DEF IInv, Safe, StoreOK, Confirmed, store,
      DueOK, SameRun, Settlers, Tokens, server
<1>c6. JobOK'
  BY <1>m, <1>1, <1>2, Later, Fields DEF IInv, Safe, JobOK, Running, SameRun,
      Confirmed, Unsettled, Announced, Before, store, DueOK, Settlers, Tokens,
      server
<1>c14. CredentialsOK'
  BY <1>1, <1>3 DEF IInv, Safe, CredentialsOK, Risky, Stored, Unsettled,
      Confirmed, store, server
<1>g0. (SessionOK /\ WorkspaceOK)'
  BY <1>m, <1>1, <1>2, Later, Fields DEF IInv, Safe, SessionOK, Confirmed,
      Stored, store, WorkspaceOK, server
<1>g1. (DeletingOK /\ AnnouncedOK /\ RiskOK /\ ConfirmedOK)'
  BY <1>m, <1>1, <1>2, Later, Fields DEF IInv, Safe, DeletingOK, Running,
      SameRun, AnnouncedOK, Stored, Unsettled, Confirmed, Announced, store,
      RiskOK, Risky, Before, server, ConfirmedOK
<1>g2. (LockOK /\ DueOK /\ WorkerOK /\ FenceOK)'
  BY <1>m, <1>1, <1>2, Later, Fields DEF IInv, Safe, LockOK, Running, DueOK,
      SameRun, Settlers, Tokens, store, server, WorkerOK, FenceOK, Risky,
      Unsettled, Confirmed
<1>g3. (WorkspaceFenced /\ ConfirmedNeverAuthenticates)'
  BY <1>m, <1>1, <1>2, Later, Fields DEF IInv, Safe, WorkspaceFenced, Risky,
      server, ConfirmedNeverAuthenticates, Confirmed, store
<1> QED  BY <1>c1, <1>c2, <1>c6, <1>c14, <1>g0, <1>g1, <1>g2, <1>g3 DEF Safe

LEMMA ExitSafe ==
    ASSUME IInv, Exit
    PROVE  Safe'
<1> USE DEF Exit, Free, Die
<1>1. /\ session'.token = 0 /\ session'.generation = 1
      /\ session'.authenticated = FALSE /\ session'.deleting = FALSE
      /\ job'.step = "none" /\ fence'.pending = FALSE /\ fence'.denied = FALSE
      /\ job'.token = 0
  BY Fields DEF NoJob
<1>c1. TokensOK'
  BY <1>1, Fields DEF IInv, Safe, TokensOK, Tokens, server, DueOK, SameRun,
      Settlers, store
<1>c2. StoreOK'
  BY <1>1, Fields DEF IInv, Safe, StoreOK, Confirmed, store, DueOK, SameRun,
      Settlers, Tokens, server
<1>c3. SessionOK'
  BY <1>1 DEF SessionOK
<1>g0. (WorkspaceOK /\ DeletingOK /\ JobOK /\ AnnouncedOK /\ RiskOK /\
        ConfirmedOK /\ LockOK /\ DueOK /\ WorkerOK /\ FenceOK /\
        CredentialsOK /\ WorkspaceFenced /\ ConfirmedNeverAuthenticates)'
  BY <1>1, Fields DEF IInv, Safe, WorkspaceOK, Stored, store, server,
      DeletingOK, Running, SameRun, JobOK, Confirmed, Unsettled, Announced,
      Before, AnnouncedOK, RiskOK, Risky, ConfirmedOK, LockOK, DueOK, Settlers,
      Tokens, WorkerOK, FenceOK, CredentialsOK, WorkspaceFenced,
      ConfirmedNeverAuthenticates
<1> QED  BY <1>c1, <1>c2, <1>c3, <1>g0 DEF Safe

LEMMA CrashSafe ==
    ASSUME IInv, Crash
    PROVE  Safe'
<1> USE DEF Crash, Die
<1>1. /\ session'.token = 0 /\ session'.generation = 1
      /\ session'.authenticated = FALSE /\ session'.deleting = FALSE
      /\ job'.step = "none" /\ fence'.pending = FALSE /\ fence'.denied = FALSE
      /\ job'.token = 0
  BY Fields DEF NoJob
<1>c1. TokensOK'
  BY <1>1, Fields DEF IInv, Safe, TokensOK, Tokens, server, DueOK, SameRun,
      Settlers, store
<1>c2. StoreOK'
  BY <1>1, Fields DEF IInv, Safe, StoreOK, Confirmed, store, DueOK, SameRun,
      Settlers, Tokens, server
<1>c3. SessionOK'
  BY <1>1 DEF SessionOK
<1>g0. (WorkspaceOK /\ DeletingOK /\ JobOK /\ AnnouncedOK /\ RiskOK /\
        ConfirmedOK /\ LockOK /\ DueOK /\ WorkerOK /\ FenceOK /\
        CredentialsOK /\ WorkspaceFenced /\ ConfirmedNeverAuthenticates)'
  BY <1>1, Fields DEF IInv, Safe, WorkspaceOK, Stored, store, server,
      DeletingOK, Running, SameRun, JobOK, Confirmed, Unsettled, Announced,
      Before, AnnouncedOK, RiskOK, Risky, ConfirmedOK, LockOK, DueOK, Settlers,
      Tokens, WorkerOK, FenceOK, CredentialsOK, WorkspaceFenced,
      ConfirmedNeverAuthenticates
<1> QED  BY <1>c1, <1>c2, <1>c3, <1>g0 DEF Safe

LEMMA StartSafe ==
    ASSUME IInv, Start
    PROVE  Safe'
<1> USE DEF Start
<1>m. UNCHANGED Mine
  BY DEF Mine
<1>c1. TokensOK'
  BY <1>m, Fields DEF IInv, Safe, TokensOK, Tokens, server, DueOK, SameRun,
      Settlers, store
<1>c2. StoreOK'
  BY <1>m, Fields DEF IInv, Safe, StoreOK, Confirmed, store, DueOK, SameRun,
      Settlers, Tokens, server
<1>c6. JobOK'
  BY <1>m, Fields DEF IInv, Safe, JobOK, Running, SameRun, Confirmed, Unsettled,
      Announced, Before, store, DueOK, Settlers, Tokens, server
<1>c10. LockOK'
  BY <1>m, Fields DEF IInv, Safe, LockOK, Running, FenceOK, Risky, Unsettled,
      Confirmed, store, server
<1>c12. WorkerOK'
  BY <1>m, Fields DEF IInv, Safe, WorkerOK, FenceOK, Running, Risky, Unsettled,
      Confirmed, store, server
<1>c16. ConfirmedNeverAuthenticates'
  BY <1>m, Fields DEF IInv, Safe, ConfirmedNeverAuthenticates, Confirmed, store,
      FenceOK, Running, Risky, Unsettled, server
<1>g0. (SessionOK /\ WorkspaceOK /\ DeletingOK /\ AnnouncedOK /\ RiskOK /\
        ConfirmedOK /\ DueOK /\ FenceOK /\ CredentialsOK /\ WorkspaceFenced)'
  BY <1>m, Fields DEF IInv, Safe, SessionOK, Confirmed, Stored, store,
      WorkspaceOK, server, DeletingOK, Running, SameRun, AnnouncedOK, Unsettled,
      Announced, RiskOK, Risky, Before, ConfirmedOK, DueOK, Settlers, Tokens,
      FenceOK, CredentialsOK, WorkspaceFenced
<1> QED  BY <1>c1, <1>c2, <1>c6, <1>c10, <1>c12, <1>c16, <1>g0 DEF Safe

LEMMA DeleteAccountTyped ==
    ASSUME IInv, DeleteAccount
    PROVE  Typed'
<1> USE DEF IInv, DeleteAccount
<1>1. UNCHANGED <<process, item, tombstone, identity, marker, session, owed,
                  job, wire, worker, ui, cleanup, workspace, owner, gone,
                  detached>>
  BY DEF LockOnly, store, server
<1>2. (meta \in BOOLEAN)'
  OBVIOUS
<1>3. (fence \in Fences)'
  BY DEF Fences
<1>4. (lock \in Locks)'
  BY EnterTyped DEF Ready, Settlers
<1> QED  BY <1>1, <1>2, <1>3, <1>4 DEF Typed

LEMMA ClickAccountTyped ==
    ASSUME IInv, ClickAccount
    PROVE  Typed'
<1> USE DEF IInv, ClickAccount
<1>1. UNCHANGED <<process, item, tombstone, identity, marker, session, owed,
                  job, wire, worker, fence, cleanup, meta, workspace, owner,
                  gone, detached>>
  BY DEF LockOnly, store, server
<1>2. (lock \in Locks /\ ui \in {"idle", "resolve"})'
  BY RetryFenceTyped DEF Typed, Fences
<1> QED  BY <1>1, <1>2 DEF Typed

LEMMA FenceTimerTyped ==
    ASSUME IInv, FenceTimer
    PROVE  Typed'
<1> USE DEF IInv, FenceTimer
<1>1. UNCHANGED <<process, item, tombstone, identity, marker, session, owed,
                  job, wire, worker, cleanup, meta, workspace, owner, gone,
                  detached>>
  BY DEF LockOnly, store, server
<1>2. (fence \in Fences)'
  BY DEF Typed, Fences
<1>3. (lock \in Locks /\ ui \in {"idle", "resolve"})'
  BY RetryFenceTyped DEF Typed, Fences
<1> QED  BY <1>1, <1>2, <1>3 DEF Typed

LEMMA ResolveFenceTyped ==
    ASSUME IInv, ResolveFence
    PROVE  Typed'
<1> USE DEF IInv, ResolveFence
<1>1. UNCHANGED <<process, item, tombstone, identity, marker, session, owed,
                  lock, job, wire, worker, cleanup, owner, gone, detached>>
  BY DEF store, server
<1>2. (ui \in {"idle", "resolve"})'
  OBVIOUS
<1>3. (meta \in BOOLEAN)'
  BY DEF Typed
<1>4. (workspace \in Nat)'
  BY DEF Typed
<1>5. (fence \in Fences)'
  BY DebtTyped DEF Typed, Fences, Denied, Stored
<1> QED  BY <1>1, <1>2, <1>3, <1>4, <1>5 DEF Typed

LEMMA SignOutTyped ==
    ASSUME IInv, SignOut
    PROVE  Typed'
<1> USE DEF IInv, SignOut
<1>1. UNCHANGED <<process, item, tombstone, identity, marker, session, owed,
                  job, wire, worker, ui, fence, cleanup, meta, owner, gone,
                  detached>>
  BY DEF store, server
<1>2. (workspace \in Nat)'
  OBVIOUS
<1>3. (lock \in Locks)'
  BY EnterTyped DEF Ready, Settlers
<1> QED  BY <1>1, <1>2, <1>3 DEF Typed

LEMMA LoginTyped ==
    ASSUME IInv, Login
    PROVE  Typed'
<1> USE DEF IInv, Login
<1>1. UNCHANGED <<process, item, tombstone, identity, marker, session, owed,
                  job, wire, ui, fence, cleanup, meta, workspace, owner, gone,
                  detached>>
  BY DEF store, server
<1>2. (worker \in Workers)'
  BY DEF Typed, Workers, Sessions
<1>3. (lock \in Locks)'
  BY EnterTyped DEF Ready, Settlers
<1> QED  BY <1>1, <1>2, <1>3 DEF Typed

LEMMA CleanupTimerTyped ==
    ASSUME IInv, CleanupTimer
    PROVE  Typed'
<1> USE DEF IInv, CleanupTimer
<1>1. UNCHANGED <<process, item, tombstone, identity, marker, session, owed,
                  job, wire, worker, ui, fence, cleanup, meta, workspace, owner,
                  gone, detached>>
  BY DEF LockOnly, store, server
<1>2. (lock \in Locks)'
  BY EnterTyped DEF Ready, Settlers
<1> QED  BY <1>1, <1>2 DEF Typed

LEMMA OtherWorkTyped ==
    ASSUME IInv, OtherWork
    PROVE  Typed'
<1> USE DEF IInv, OtherWork
<1>1. UNCHANGED <<process, item, tombstone, identity, marker, session, owed,
                  job, wire, worker, ui, fence, cleanup, meta, workspace, owner,
                  gone, detached>>
  BY DEF LockOnly, store, server
<1>2. (lock \in Locks)'
  BY EnterTyped DEF Ready, Settlers
<1> QED  BY <1>1, <1>2 DEF Typed

LEMMA MarkDeletionTyped ==
    ASSUME IInv, MarkDeletion
    PROVE  Typed'
<1> USE DEF IInv, MarkDeletion
<1>1. UNCHANGED <<process, item, tombstone, identity, marker, session, owed,
                  job, wire, worker, ui, fence, cleanup, meta, workspace, owner,
                  gone, detached>>
  BY DEF JobFrame, store
<1>2. (lock \in Locks)'
  BY EnterTyped DEF Ready, Settlers
<1> QED  BY <1>1, <1>2 DEF Typed

LEMMA RestoreTyped ==
    ASSUME IInv, Restore
    PROVE  Typed'
<1> USE DEF IInv, Restore
<1>1. UNCHANGED <<process, item, tombstone, identity, marker, session, owed,
                  job, wire, ui, fence, cleanup, meta, workspace, owner, gone,
                  detached>>
  BY DEF SignInFrame, store, server
<1>2. (worker \in Workers)'
  BY DEF Typed, Workers, Sessions
<1>3. (lock \in Locks)'
  BY EnterTyped DEF Ready, Settlers
<1> QED  BY <1>1, <1>2, <1>3 DEF Typed

LEMMA RestoreAnswerTyped ==
    ASSUME IInv, RestoreAnswer
    PROVE  Typed'
<1> USE DEF IInv, RestoreAnswer
<1>1. UNCHANGED <<process, item, tombstone, identity, marker, owed, job, wire,
                  ui, fence, cleanup, meta, owner, gone, detached>>
  BY DEF SignInFrame, store, server
<1>2. (session \in Sessions)'
  BY SessionTyped, Parts DEF Typed, Stored
<1>3. (workspace \in Nat)'
  BY AccountsTyped DEF Typed, Stored, TokensOK, Safe
<1>4. (worker \in Workers)'
  BY DEF Typed, Workers
<1>5. (lock \in Locks)'
  BY EnterTyped DEF Typed
<1> QED  BY <1>1, <1>2, <1>3, <1>4, <1>5 DEF Typed

LEMMA UseAccessTyped ==
    ASSUME IInv, UseAccess
    PROVE  Typed'
<1> USE DEF IInv, UseAccess
<1>1. UNCHANGED <<process, item, tombstone, identity, marker, session, owed,
                  lock, wire, worker, ui, fence, cleanup, meta, workspace,
                  owner, gone, detached>>
  BY DEF JobFrame, store, server
<1>2. (job \in Jobs)'
  BY DEF Typed, Jobs, Before
<1> QED  BY <1>1, <1>2 DEF Typed

LEMMA SendDeleteTyped ==
    ASSUME IInv, SendDelete
    PROVE  Typed'
<1> USE DEF IInv, SendDelete
<1>1. UNCHANGED <<process, item, tombstone, identity, marker, session, owed,
                  lock, worker, ui, fence, cleanup, meta, workspace, owner,
                  gone, detached>>
  BY DEF JobFrame, store, server
<1>2. (job \in Jobs)'
  BY DEF Typed, Jobs, Announced
<1>3. (wire \in Wires)'
  BY DEF Typed, Jobs, Wires
<1> QED  BY <1>1, <1>2, <1>3 DEF Typed

LEMMA DeleteAnswerTyped ==
    ASSUME IInv, DeleteAnswer
    PROVE  Typed'
<1> USE DEF IInv, DeleteAnswer
<1>1. UNCHANGED <<process, item, tombstone, identity, marker, session, owed,
                  job, wire, worker, ui, fence, cleanup, meta, workspace, owner,
                  gone, detached>>
  BY DEF JobFrame, store, server
<1>2. (lock \in Locks)'
  BY EnterTyped DEF Ready, Settlers
<1> QED  BY <1>1, <1>2 DEF Typed

LEMMA ReportDeletedTyped ==
    ASSUME IInv, ReportDeleted
    PROVE  Typed'
<1> USE DEF IInv, ReportDeleted
<1>1. UNCHANGED <<process, item, tombstone, identity, marker, wire, worker,
                  cleanup, meta, workspace, owner, gone, detached>>
  BY DEF store, server
<1>2. (job \in Jobs)'
  BY DebtTyped
<1>3. (session \in Sessions)'
  BY SessionTyped, Parts DEF Typed
<1>4. (owed \in SUBSET Nat)'
  BY DEF Typed
<1>5. (fence \in Fences)'
  BY DEF Typed, Fences
<1>6. (lock \in Locks /\ ui \in {"idle", "resolve"})'
  BY RetryFenceTyped DEF Typed, Fences
<1> QED  BY <1>1, <1>2, <1>3, <1>4, <1>5, <1>6 DEF Typed

LEMMA ReportFailedTyped ==
    ASSUME IInv, ReportFailed
    PROVE  Typed'
<1> USE DEF IInv, ReportFailed
<1>1. UNCHANGED <<process, item, tombstone, identity, marker, wire, worker,
                  cleanup, meta, workspace, owner, gone, detached>>
  BY DEF store, server
<1>2. (job \in Jobs)'
  BY DebtTyped
<1>3. (session \in Sessions)'
  BY SessionTyped, Parts, ResumedTyped DEF Typed
<1>4. (owed \in SUBSET Nat)'
  BY DEF Typed
<1>5. (fence \in Fences)'
  BY DEF Typed, Fences
<1>6. (lock \in Locks /\ ui \in {"idle", "resolve"})'
  BY RetryFenceTyped DEF Typed
<1> QED  BY <1>1, <1>2, <1>3, <1>4, <1>5, <1>6 DEF Typed

LEMMA HandleDeleteTyped ==
    ASSUME IInv, HandleDelete
    PROVE  Typed'
<1> USE DEF IInv, HandleDelete
<1>1. UNCHANGED <<process, item, tombstone, identity, marker, session, owed,
                  lock, job, worker, ui, fence, cleanup, meta, workspace, owner,
                  detached>>
  BY DEF ServiceFrame, store
<1>2. (gone \in SUBSET (Nat \ {0}))'
  BY AccountsTyped DEF Typed, TokensOK, Safe
<1>3. (wire \in Wires)'
  BY DEF Typed, Wires
<1> QED  BY <1>1, <1>2, <1>3 DEF Typed

LEMMA LoseMarkerTyped ==
    ASSUME IInv, LoseMarker
    PROVE  Typed'
<1> USE DEF IInv, LoseMarker
<1>1. UNCHANGED <<process, item, tombstone, identity, session, owed, lock, job,
                  wire, worker, ui, fence, cleanup, meta, workspace, owner,
                  gone, detached>>
  BY DEF server
<1>2. (marker \in Debts)'
  BY DebtTyped
<1> QED  BY <1>1, <1>2 DEF Typed

LEMMA RevokeTyped ==
    ASSUME IInv, Revoke
    PROVE  Typed'
<1> USE DEF IInv, Revoke
<1>1. UNCHANGED <<process, item, tombstone, identity, marker, session, owed,
                  lock, job, wire, worker, ui, fence, cleanup, meta, workspace,
                  owner, gone, detached>>
  BY DEF ServiceFrame, store
<1> QED  BY <1>1 DEF Typed

LEMMA AccessRejectedTyped ==
    ASSUME IInv, AccessRejected
    PROVE  Typed'
<1> USE DEF IInv, AccessRejected
<1>1. UNCHANGED <<process, item, tombstone, identity, marker, owed, lock, job,
                  wire, worker, ui, fence, cleanup, meta, workspace, owner,
                  gone, detached>>
  BY DEF JobFrame, store
<1>2. (session \in Sessions)'
  BY DEF Typed, Sessions
<1> QED  BY <1>1, <1>2 DEF Typed

LEMMA ShutdownTyped ==
    ASSUME IInv, Shutdown
    PROVE  Typed'
<1> USE DEF IInv, Shutdown
<1>1. UNCHANGED <<item, tombstone, identity, marker, owed, lock, job, wire,
                  worker, ui, fence, meta, workspace, owner, gone>>
  BY DEF store, server
<1>2. (process \in {"up", "stopping", "down"})'
  OBVIOUS
<1>3. (session \in Sessions)'
  BY Parts DEF Typed, Sessions
<1>4. (cleanup \in Cleanups)'
  BY DEF Typed, Cleanups
<1>5. (detached \in BOOLEAN)'
  BY DEF Typed
<1> QED  BY <1>1, <1>2, <1>3, <1>4, <1>5 DEF Typed

LEMMA ExitTyped ==
    ASSUME IInv, Exit
    PROVE  Typed'
<1> USE DEF IInv, Exit
<1>1. UNCHANGED <<item, tombstone, identity, marker, wire, meta, workspace,
                  owner, gone, detached>>
  BY DEF Die, store, server
<1>2. (process \in {"up", "stopping", "down"} /\ ui \in {"idle", "resolve"})'
  BY DEF Die
<1>3. (session \in Sessions)'
  BY SessionTyped DEF Die
<1>4. (owed \in SUBSET Nat)'
  BY DEF Die
<1>5. (lock \in Locks /\ job \in Jobs /\ fence \in Fences)'
  BY DebtTyped DEF Die
<1>6. (worker \in Workers)'
  BY DEF Workers, Die
<1>7. (cleanup \in Cleanups)'
  BY DEF Cleanups, Die
<1> QED  BY <1>1, <1>2, <1>3, <1>4, <1>5, <1>6, <1>7 DEF Typed

LEMMA CrashTyped ==
    ASSUME IInv, Crash
    PROVE  Typed'
<1> USE DEF IInv, Crash
<1>1. UNCHANGED <<item, tombstone, identity, marker, wire, meta, workspace,
                  owner, gone, detached>>
  BY DEF Die, store, server
<1>2. (process \in {"up", "stopping", "down"} /\ ui \in {"idle", "resolve"})'
  BY DEF Die
<1>3. (session \in Sessions)'
  BY SessionTyped DEF Die
<1>4. (owed \in SUBSET Nat)'
  BY DEF Die
<1>5. (lock \in Locks /\ job \in Jobs /\ fence \in Fences)'
  BY DebtTyped DEF Die
<1>6. (worker \in Workers)'
  BY DEF Workers, Die
<1>7. (cleanup \in Cleanups)'
  BY DEF Cleanups, Die
<1> QED  BY <1>1, <1>2, <1>3, <1>4, <1>5, <1>6, <1>7 DEF Typed

LEMMA StartTyped ==
    ASSUME IInv, Start
    PROVE  Typed'
<1> USE DEF IInv, Start
<1>1. UNCHANGED <<item, tombstone, identity, marker, session, owed, lock, job,
                  wire, worker, ui, cleanup, meta, workspace, owner, gone,
                  detached>>
  BY DEF store, server
<1>2. (process \in {"up", "stopping", "down"})'
  OBVIOUS
<1>3. (fence \in Fences)'
  BY DEF Typed, Fences
<1> QED  BY <1>1, <1>2, <1>3 DEF Typed

LEMMA AcceptLoginTyped ==
    ASSUME IInv, AcceptLogin
    PROVE  Typed'
<1>1. UNCHANGED <<process, marker, owed, lock, job, wire, ui, fence, cleanup,
                  meta, gone>>
  BY DEF AcceptLogin, SignInFrame, store, server
<1>2. worker' \in Workers
  BY DEF AcceptLogin, IInv, Typed, Workers
<1>3. CASE UNCHANGED <<store, session, workspace, server, detached>>
  BY <1>1, <1>2, <1>3 DEF IInv, Typed, store, server
<1>4. CASE /\ owner' = Append(owner, SignInAccount)
           /\ item' = Len(owner) + 1 /\ tombstone' = FALSE /\ identity' = Debt(Len(owner) + 1, 0)
           /\ session' = SignedIn(Len(owner) + 1, session.generation)
           /\ workspace' = IF fence.pending THEN workspace ELSE SignInAccount
           /\ detached' = (detached \/ wire.at = "request" \/ job # NoJob)
  <2>1. SignInAccount \in Nat \ {0}
    BY SignInAccountLives DEF IInv, Safe
  <2>2. owner' \in Seq(Nat \ {0}) /\ item' \in Nat
    BY <1>4, <2>1, OwnerGrows DEF IInv
  <2>3. identity' \in Debts /\ session' \in Sessions
    BY <1>4, <2>2, DebtTyped, SessionTyped, Parts DEF IInv
  <2>4. workspace' \in Nat /\ detached' \in BOOLEAN /\ tombstone' \in BOOLEAN
    BY <1>4, <2>1 DEF IInv, Typed
  <2> QED  BY <1>1, <1>2, <2>2, <2>3, <2>4 DEF IInv, Typed
<1> QED  BY <1>3, <1>4 DEF AcceptLogin

LEMMA RefreshAccessTyped ==
    ASSUME IInv, RefreshAccess
    PROVE  Typed'
<1>1. UNCHANGED <<process, marker, owed, lock, wire, worker, ui, fence, cleanup,
                  meta, workspace, gone, detached>>
  BY DEF RefreshAccess
<1>2. CASE /\ UNCHANGED <<item, tombstone, identity, owner, session>>
           /\ job' = [job EXCEPT !.step = "failed"]
  <2>1. job' \in Jobs
    BY <1>2 DEF IInv, Typed, Jobs
  <2> QED  BY <1>1, <1>2, <2>1 DEF IInv, Typed
<1>3. CASE /\ owner' = Append(owner, owner[job.token]) /\ job.token = session.token /\ Current
           /\ item' = Len(owner) + 1 /\ identity' = Debt(Len(owner) + 1, 0)
           /\ tombstone' = FALSE
           /\ session' = [session EXCEPT !.token = Len(owner) + 1, !.access = TRUE]
           /\ job' = [job EXCEPT !.token = Len(owner) + 1, !.step = "mark"]
  <2>1. owner[job.token] \in Nat \ {0}
    BY <1>3, AccountsTyped DEF IInv, Safe, TokensOK, SessionOK, Current
  <2>2. owner' \in Seq(Nat \ {0}) /\ item' \in Nat /\ Len(owner) + 1 \in Nat
    BY <1>3, <2>1, OwnerGrows DEF IInv
  <2>3. identity' \in Debts
    BY <1>3, <2>2, DebtTyped
  <2>4. session' \in Sessions /\ job' \in Jobs
    BY <1>3, <2>2 DEF IInv, Typed, Sessions, Jobs, Before
  <2> QED  BY <1>1, <1>3, <2>2, <2>3, <2>4 DEF IInv, Typed
<1> QED  BY <1>2, <1>3 DEF RefreshAccess

LEMMA LookTyped ==
    ASSUME IInv, Unwritten,
           \/ \E step \in {"write", "rearm", "unmark", "tombstone", "confirm"},
                  due \in {NoDebt, Mine, identity, marker} : Go(step, due)
           \/ \E done \in BOOLEAN, due \in Debts : Return(done, due)
    PROVE  Typed'
<1>1. UNCHANGED <<process, item, tombstone, identity, marker, wire, meta,
                  workspace, owner, gone, detached>>
  BY DEF Unwritten, store, server
<1>2. CASE \E done \in BOOLEAN, due \in Debts : Return(done, due)
  BY <1>1, <1>2, ReturnTyped DEF IInv, Typed
<1>3. ASSUME NEW step \in {"write", "rearm", "unmark", "tombstone", "confirm"},
             NEW due \in {NoDebt, Mine, identity, marker}, Go(step, due)
      PROVE  Typed'
  <2>1. lock' \in Locks
    BY <1>3, GoTyped, Parts DEF IInv
  <2>2. UNCHANGED <<session, owed, job, ui, fence, worker, cleanup>>
    BY <1>3 DEF Go
  <2> QED  BY <1>1, <2>1, <2>2 DEF IInv, Typed
<1> QED  BY <1>2, <1>3

LEMMA WriteTyped ==
    ASSUME IInv, Write \/ WriteFails
    PROVE  Typed'
<1>1. UNCHANGED <<process, wire, meta, workspace, owner, gone, detached>>
  BY DEF Write, WriteFails, server
<1>2. (item \in Nat /\ tombstone \in BOOLEAN /\ identity \in Debts /\
       marker \in Debts)'
  <2>1. CASE UNCHANGED store
    BY <2>1 DEF store, IInv, Typed
  <2>2. CASE Written
    <3>1. NoDebt \in Debts /\ lock.due \in Debts
      BY Parts DEF IInv
    <3>2. /\ item' \in {item, 0} /\ tombstone' \in {tombstone, TRUE}
          /\ identity' \in {identity, NoDebt, lock.due} /\ marker' \in {marker, NoDebt, lock.due}
      BY <2>2, WrittenFacts DEF IInv
    <3>3. item \in Nat /\ tombstone \in BOOLEAN /\ identity \in Debts /\ marker \in Debts
      BY DEF IInv, Typed
    <3>4. item' \in Nat /\ identity' \in Debts /\ marker' \in Debts
      BY <3>1, <3>2, <3>3
    <3>5. tombstone' \in BOOLEAN
      BY <3>2, <3>3
    <3> QED  BY <3>4, <3>5
  <2> QED  BY <2>1, <2>2 DEF Write, WriteFails
<1>3. CASE Return(TRUE, lock.due) \/ Return(FALSE, lock.due)
  BY <1>1, <1>2, <1>3, ReturnTyped DEF IInv, Typed
<1>4. CASE Following # "done" /\ Go(Following, lock.due)
  <2>1. lock' \in Locks
    BY <1>4, GoTyped, Parts DEF IInv, Following
  <2>2. UNCHANGED <<session, owed, job, ui, fence, worker, cleanup>>
    BY <1>4 DEF Go
  <2> QED  BY <1>1, <1>2, <2>1, <2>2 DEF IInv, Typed
<1> QED  BY <1>3, <1>4 DEF Write, WriteFails

LEMMA SettleTyped ==
    ASSUME IInv, LookReady \/ LookMark \/ LookFinish \/ LookRefused \/ LookExpire
    PROVE  Typed'
<1> DEFINE due == IF Confirmed THEN identity ELSE marker
<1>1. Unwritten
  BY DEF LookReady, LookMark, LookFinish, LookRefused, LookExpire
<1>2. {NoDebt, Mine, identity, marker} \subseteq Debts
  BY Parts DEF IInv
<1>3. CASE LookReady
  BY <1>1, <1>2, <1>3, LookTyped DEF LookReady, Proceed, Erase
<1>4. CASE LookMark
  BY <1>1, <1>2, <1>4, LookTyped DEF LookMark
<1>5. CASE LookFinish
  BY <1>1, <1>2, <1>5, LookTyped DEF LookFinish, Withdraw, Resolve
<1>6. CASE LookRefused \/ LookExpire
  BY <1>1, <1>2, <1>6, LookTyped DEF LookRefused, LookExpire, Withdraw
<1> QED  BY <1>3, <1>4, <1>5, <1>6

-----------------------------------------------------------------------------
(* The theorems. *)

LEMMA InitSafe == Init => IInv
<1> SUFFICES ASSUME Init PROVE IInv
  OBVIOUS
<1> USE DEF Init
<1>1. Typed
  <2>1. owner \in Seq(Nat \ {0}) /\ gone \in SUBSET (Nat \ {0}) /\ owed \in SUBSET Nat
    OBVIOUS
  <2>2. session \in Sessions /\ identity \in Debts /\ marker \in Debts /\ lock \in Locks
    BY DebtTyped, SessionTyped
  <2>3. wire \in Wires /\ worker \in Workers /\ cleanup \in Cleanups
    BY DEF Wires, Workers, Cleanups
  <2>4. job \in Jobs /\ fence \in Fences
    BY DebtTyped
  <2> QED  BY <2>1, <2>2, <2>3, <2>4 DEF Typed
<1>2. /\ session.token = 1 /\ session.generation = 1 /\ session.authenticated = TRUE
      /\ session.deleting = FALSE /\ identity.token = 1 /\ identity.generation = 0
      /\ marker = NoDebt /\ job.token = 0 /\ job.step = "none" /\ lock = Unlocked
      /\ fence.pending = FALSE /\ fence.denied = FALSE /\ worker.at = "none"
      /\ wire.at = "none" /\ item = 1 /\ tombstone = FALSE /\ process = "up"
      /\ workspace = 1 /\ gone = {} /\ meta = FALSE /\ ui = "idle"
  BY Fields DEF NoJob
<1>3. Tokens = {1} /\ owner[1] = 1 /\ Len(owner) = 1
  BY DEF Tokens
<1>4. ~Running /\ ~Confirmed /\ Stored = 1 /\ \A a : ~Risky(a)
  BY <1>2, <1>3 DEF Running, Confirmed, Stored, Risky
<1> HIDE DEF Init
<1>5. TokensOK /\ StoreOK /\ SessionOK /\ WorkspaceOK
  BY <1>2, <1>3, <1>4, Fields DEF TokensOK, StoreOK, SessionOK, WorkspaceOK
<1>6. DeletingOK /\ JobOK /\ AnnouncedOK /\ RiskOK /\ ConfirmedOK
  BY <1>2, <1>4 DEF DeletingOK, JobOK, AnnouncedOK, RiskOK, ConfirmedOK
<1>7. LockOK /\ DueOK
  BY <1>2, Fields DEF LockOK, DueOK, Settlers
<1>8. WorkerOK /\ FenceOK /\ CredentialsOK /\ WorkspaceFenced /\ ConfirmedNeverAuthenticates
  BY <1>2, <1>4 DEF WorkerOK, FenceOK, CredentialsOK, WorkspaceFenced,
      ConfirmedNeverAuthenticates
<1> QED  BY <1>1, <1>5, <1>6, <1>7, <1>8 DEF IInv, Safe

LEMMA NextSafe == IInv /\ [Next]_vars => IInv'
<1> SUFFICES ASSUME IInv, [Next]_vars PROVE IInv'
  OBVIOUS
<1>1. CASE Settle
  <2>1. Typed'
    BY <1>1, SettleTyped, WriteTyped DEF Settle
  <2>2. Safe'
    BY <1>1, LookReadySafe, LookMarkSafe, LookFinishSafe, LookRefusedSafe,
        LookExpireSafe,
       WriteSafe DEF Settle
  <2> QED  BY <2>1, <2>2 DEF IInv
<1>2. CASE WriteFails
  BY <1>2, WriteTyped, WriteFailsSafe DEF IInv
<1>3. CASE User
  BY <1>3, DeleteAccountTyped, DeleteAccountSafe, ClickAccountTyped,
      ClickAccountSafe,
     SignOutTyped, SignOutSafe, LoginTyped, LoginSafe DEF User, IInv
<1>4. CASE Timers
  BY <1>4, FenceTimerTyped, FenceTimerSafe, CleanupTimerTyped, CleanupTimerSafe,
     ResolveFenceTyped, ResolveFenceSafe DEF Timers, IInv
<1>5. CASE SessionWorker
  BY <1>5, AcceptLoginTyped, AcceptLoginSafe, RestoreTyped, RestoreSafe,
     RestoreAnswerTyped, RestoreAnswerSafe DEF SessionWorker, IInv
<1>6. CASE DeletionWorker
  BY <1>6, RefreshAccessTyped, RefreshAccessSafe, UseAccessTyped, UseAccessSafe,
     MarkDeletionTyped, MarkDeletionSafe, SendDeleteTyped, SendDeleteSafe,
     DeleteAnswerTyped, DeleteAnswerSafe, ReportDeletedTyped, ReportDeletedSafe,
     ReportFailedTyped, ReportFailedSafe DEF DeletionWorker, IInv
<1>7. CASE HandleDelete \/ LoseMarker \/ Revoke
  BY <1>7, HandleDeleteTyped, HandleDeleteSafe, LoseMarkerTyped, LoseMarkerSafe,
     RevokeTyped, RevokeSafe DEF IInv
<1>8. CASE OtherWork \/ AccessRejected \/ Shutdown \/ Exit \/ Crash \/ Start
  BY <1>8, OtherWorkTyped, OtherWorkSafe, AccessRejectedTyped,
      AccessRejectedSafe,
     ShutdownTyped, ShutdownSafe, ExitTyped, ExitSafe, CrashTyped, CrashSafe,
     StartTyped, StartSafe DEF IInv
<1>9. CASE UNCHANGED vars
  <2>0. /\ UNCHANGED <<process, item, tombstone, identity, marker, session,
                       owed, lock, job>>
        /\ UNCHANGED <<wire, worker, ui, fence, cleanup, meta, workspace, owner, gone, asked, detached>>
    BY <1>9 DEF vars, store, server
  <2>m. UNCHANGED Mine
    BY <2>0 DEF Mine
  <2>1. Typed'
    BY <2>0 DEF IInv, Typed
  <2>2. Safe'
<3>g0. TokensOK'
  BY <2>0, <2>m, Fields DEF IInv, Safe, TokensOK, Tokens, server
<3>g1. StoreOK'
  BY <2>0, <2>m, Fields DEF IInv, Safe, StoreOK, Confirmed, store
<3>g2. SessionOK'
  BY <2>0, <2>m, Fields DEF IInv, Safe, SessionOK, Confirmed, Stored, store
<3>g3. WorkspaceOK'
  BY <2>0, <2>m, Fields DEF IInv, Safe, WorkspaceOK, Stored, store, server
<3>g4. DeletingOK'
  BY <2>0, <2>m, Fields DEF IInv, Safe, DeletingOK, Running, SameRun
<3>g5. JobOK'
  BY <2>0, <2>m, Fields DEF IInv, Safe, JobOK, Running, SameRun, Confirmed,
      Unsettled, Announced, Before, store
<3>g6. AnnouncedOK'
  BY <2>0, <2>m, Fields DEF IInv, Safe, AnnouncedOK, Running, SameRun, Stored,
      Unsettled, Confirmed, Announced, store
<3>g7. RiskOK'
  BY <2>0, <2>m, Fields DEF IInv, Safe, RiskOK, Running, SameRun, Risky, Before,
      server
<3>g8. ConfirmedOK'
  BY <2>0, <2>m, Fields DEF IInv, Safe, ConfirmedOK, Confirmed, store
<3>g9. LockOK'
  BY <2>0, <2>m, Fields DEF IInv, Safe, LockOK, Running
<3>g10. DueOK'
  BY <2>0, <2>m, Fields DEF IInv, Safe, DueOK, SameRun, Settlers, Tokens, store,
      server
<3>g11. WorkerOK'
  BY <2>0, <2>m, Fields DEF IInv, Safe, WorkerOK
<3>g12. FenceOK'
  BY <2>0, <2>m, Fields DEF IInv, Safe, FenceOK, Running, Risky, Unsettled,
      Confirmed, store, server
<3>g13. CredentialsOK'
  BY <2>0, <2>m, Fields DEF IInv, Safe, CredentialsOK, Stored, Risky, Unsettled,
      Confirmed, store, server
<3>g14. WorkspaceFenced'
  BY <2>0, <2>m, Fields DEF IInv, Safe, WorkspaceFenced, Risky, server
<3>g15. ConfirmedNeverAuthenticates'
  BY <2>0, <2>m, Fields DEF IInv, Safe, ConfirmedNeverAuthenticates, Confirmed,
      store
<3> QED  BY <3>g0, <3>g1, <3>g2, <3>g3, <3>g4, <3>g5, <3>g6, <3>g7, <3>g8,
    <3>g9, <3>g10, <3>g11, <3>g12, <3>g13, <3>g14, <3>g15 DEF Safe
  <2> QED  BY <2>1, <2>2 DEF IInv
<1> QED
  BY <1>1, <1>2, <1>3, <1>4, <1>5, <1>6, <1>7, <1>8, <1>9 DEF Next

THEOREM Invariance == Spec => []IInv
<1> QED  BY InitSafe, NextSafe, PTL DEF Spec

\* A deletion that confirm_account_deletion has written to the identity file
\* never goes on as a session: only the worker that settles it may still hold
\* one, whatever writes failed and however the program was stopped.
THEOREM ConfirmedStaysOut == Spec => []ConfirmedNeverAuthenticates
<1>1. IInv => ConfirmedNeverAuthenticates
  BY DEF IInv, Safe
<1> QED  BY <1>1, Invariance, PTL

\* The data of an account that the service has deleted stay behind the fence of
\* account_lifecycle, over restarts too, until finish_account_deletion scrubs
\* them, unless shutdown has withdrawn the obligation of the running deletion.
THEOREM DeletedDataFenced == Spec => []DeletedIsFenced
<1>1. IInv => DeletedIsFenced
  BY DEF IInv, Safe, WorkspaceFenced, DeletedIsFenced, Risky
<1> QED  BY <1>1, Invariance, PTL

\* settle_obligation takes the stored credentials away only from an account whose
\* DELETE was announced and not refused: never from a later sign-in.
THEOREM ForgetsOnlyAsked == Spec => OnlyAskedForIsForgotten
<1> DEFINE Forgets == item # 0 /\ item' = 0 /\ lock.due # NoDebt => owner[item] \in asked
<1>1. IInv /\ [Next]_vars => [Forgets]_vars
  <2> SUFFICES ASSUME IInv, [Next]_vars, item # 0, item' = 0, lock.due # NoDebt
               PROVE  owner[item] \in asked
    OBVIOUS
  <2>1. Settle \/ WriteFails
    <3>1. CASE User \/ Timers
      BY <3>1 DEF User, DeleteAccount, ClickAccount, SignOut, Login, Timers,
          FenceTimer,
         CleanupTimer, ResolveFence, LockOnly, store
    <3>2. CASE SessionWorker
      BY <3>2, AccountsTyped DEF IInv, SessionWorker, AcceptLogin, Restore,
          RestoreAnswer, store
    <3>3. CASE DeletionWorker
      BY <3>3, AccountsTyped DEF IInv, DeletionWorker, RefreshAccess, UseAccess,
          MarkDeletion,
         SendDelete, DeleteAnswer, ReportDeleted, ReportFailed, JobFrame, store
    <3>4. CASE HandleDelete \/ LoseMarker \/ Revoke \/ OtherWork \/ AccessRejected
      BY <3>4 DEF HandleDelete, LoseMarker, Revoke, OtherWork, AccessRejected,
         ServiceFrame, LockOnly, JobFrame, store
    <3>5. CASE Shutdown \/ Exit \/ Crash \/ Start
      BY <3>5 DEF Shutdown, Exit, Crash, Start, Die, store
    <3> QED  BY <3>1, <3>2, <3>3, <3>4, <3>5 DEF Next, vars, store
  <2>2. Written /\ lock.step = "secret"
    <3>1. CASE Unwritten
      BY <3>1 DEF Unwritten, store
    <3>2. CASE Written
      BY <3>2, WrittenFacts DEF IInv
    <3>3. CASE UNCHANGED store
      BY <3>3 DEF store
    <3> QED  BY <2>1, <3>1, <3>2, <3>3 DEF Settle, LookReady, LookMark,
        LookFinish,
                LookRefused, LookExpire, Write, WriteFails
  <2> QED  BY <2>2, Fields DEF IInv, Safe, DueOK, StoreOK
<1> QED  BY <1>1, Invariance, PTL DEF Spec, OnlyAskedForIsForgotten
===============================================================================
