------------------------- MODULE AccountSession_proofs -------------------------
(***************************************************************************)
(* For any accounts, any number of edits and any history of other devices: *)
(* accounts stay apart, a sign-out leaves nothing behind, the check mark   *)
(* means sent, and the quarantine outlives its dialog.                     *)
(*                                                                         *)
(* The handlers are functions from the state of the device to its next     *)
(* state, and so is their proof: a lemma per handler says what it makes of *)
(* a sound device, and the proof of an action composes these lemmas.       *)
(***************************************************************************)
EXTENDS AccountSession, TLAPS

Fields ==
    {"auth", "worker", "again", "active", "user", "phase", "preview", "known",
     "paused", "retry", "switch", "out", "request", "waiting", "synced",
     "dialogs", "owner", "rev", "seen", "queue", "batch", "saved", "tokens"}

Runs(s, kind) == s.worker # None /\ s.worker.kind = kind /\ ~s.worker.answered
Idle(s) == s.worker = None \/ s.worker.answered

\* A record of the device, a worker that has one of its own.
Shape(s) ==
    /\ s = [f \in Fields |-> s[f]]
    /\ s.worker # None =>
          s.worker = [kind |-> s.worker.kind, body |-> s.worker.body,
                      answered |-> s.worker.answered]
    /\ s.worker # None => s.worker.answered \in BOOLEAN
    /\ s.auth \in BOOLEAN /\ s.active \in BOOLEAN /\ s.synced \in BOOLEAN
    /\ s.tokens \in Users /\ s.owner \in Users /\ s.user \in Users
    /\ s.queue \in SUBSET Edits /\ s.batch \in (SUBSET Edits) \cup {None}
    /\ s.saved # None => s.saved.user \in Accounts

IsBlank(s) ==
    /\ s.owner = None /\ s.seen = {} /\ s.queue = {}
    /\ s.batch = None /\ s.saved = None

\* While a quarantine or a sign-out holds the device no request is under way.
Held(s) ==
    /\ s.switch # None =>
          /\ s.auth /\ s.active /\ Idle(s)
          /\ s.switch = s.tokens /\ BoundTo(s) \notin {None, s.switch}
    /\ s.out # None => s.worker = None /\ s.active
    /\ s.out = "credentials" => s.switch # None \/ IsBlank(s)

\* Whose the workspace is, and whose the session and the resolution are.
Bound(s) ==
    /\ s.auth => s.tokens # None
    /\ s.saved # None => s.owner \in {None, s.saved.user}
    /\ s.batch # None => s.owner # None
    /\ s.auth /\ ~s.active => s.owner # None /\ s.tokens = s.owner
    /\ ~s.active => s.user = None
    /\ s.active /\ s.auth => s.user # None
    /\ s.user # None => BoundTo(s) \in {None, s.user}
    /\ s.user # None /\ s.auth /\ s.switch = None => s.user = s.tokens

\* What a running request carries, and for whom.
Sending(s) ==
    /\ s.request # None =>
          /\ Runs(s, "sync") /\ s.worker.body.edits = s.request
          /\ s.batch = s.request /\ s.saved = None /\ ~s.active
    /\ Runs(s, "sync") => /\ s.worker.body.user = s.owner /\ s.owner # None
                          /\ s.tokens = s.owner
    /\ Runs(s, "login") => ~s.auth /\ s.worker.body \in Accounts
    /\ Runs(s, "sync") \/ Runs(s, "preview") \/ Runs(s, "resolve") => s.auth
    /\ Runs(s, "resolve") =>
          s.active /\ s.saved # None /\ s.saved = s.worker.body
    /\ s.synced => s.auth /\ ~s.active

Sound(s) == Shape(s) /\ Held(s) /\ Bound(s) /\ Sending(s)

\* A prompt may lie over another dialog, nothing else does.
Asked(s) ==
    /\ Len(s.dialogs) \in Nat
    /\ s.dialogs = [i \in 1..Len(s.dialogs) |-> s.dialogs[i]]
    /\ \A i \in 1..Len(s.dialogs) :
          /\ i > 1 => s.dialogs[i].kind = "prompt"
          /\ s.dialogs[i].kind = "switch" => s.switch # None
    /\ s.out # None => s.dialogs = <<>>

\* The edits a device holds on to.
Load(s) ==
    s.queue \cup (IF s.batch = None THEN {} ELSE s.batch)
            \cup (IF s.saved = None THEN {} ELSE s.saved.edits)
            \cup (IF Runs(s, "sync") THEN s.worker.body.edits ELSE {})

\* A handler that changes neither the workspace nor what the user sees of it.
Keeps(s, t) ==
    /\ Load(t) \subseteq Load(s)
    /\ t.owner = s.owner /\ t.seen = s.seen /\ t.queue = s.queue
    /\ t.tokens = s.tokens /\ t.dialogs = s.dialogs /\ t.out = s.out

\* A step that leaves the workspace, the session and the resolution alone.
Stays(s, t) ==
    /\ t = [f \in Fields |-> t[f]]
    /\ t.auth = s.auth /\ t.active = s.active /\ t.user = s.user
    /\ t.tokens = s.tokens /\ t.owner = s.owner /\ t.seen = s.seen
    /\ t.queue = s.queue /\ t.batch = s.batch /\ t.saved = s.saved
    /\ t.out = s.out /\ t.switch = s.switch

-----------------------------------------------------------------------------
(* The handlers.                                                            *)

LEMMA StaysSafe ==
    ASSUME NEW s, NEW t, Sound(s), Stays(s, t),
           \/ t.worker = s.worker /\ t.request \in {s.request, None}
           \/ /\ t.worker = [kind |-> t.worker.kind, body |-> t.worker.body,
                              answered |-> t.worker.answered]
              /\ s.worker # None /\ t.worker.answered = TRUE /\ t.request = None,
           t.synced \in BOOLEAN, t.synced => s.auth /\ ~s.active
    PROVE  /\ Sound(t) /\ Load(t) \subseteq Load(s)
           /\ t.worker = s.worker => Load(t) = Load(s)
           /\ t.dialogs = s.dialogs => Keeps(s, t)
  <1> USE DEF Stays
  <1>1. Shape(t)
    BY DEF Sound, Shape
  <1>2. Held(t)
    BY NoneAssumption DEF Sound, Held, Idle, BoundTo, IsBlank
  <1>3. Bound(t)
    BY DEF Sound, Bound, BoundTo
  <1>4. Sending(t)
    BY DEF Sound, Sending, Runs
  <1>5. /\ Load(t) \subseteq Load(s)
        /\ t.worker = s.worker => Load(t) = Load(s)
    BY DEF Load, Runs
  <1> QED BY <1>1, <1>2, <1>3, <1>4, <1>5 DEF Sound, Keeps

\* The record of a device whose worker has been answered.
LEMMA AnsweredFields ==
    ASSUME NEW s, Shape(s), s.worker # None
    PROVE  LET t == Answered(s) IN
           /\ t = [f \in Fields |-> t[f]]
           /\ t.worker = [kind |-> t.worker.kind, body |-> t.worker.body,
                          answered |-> t.worker.answered]
           /\ t.worker.kind = s.worker.kind /\ t.worker.body = s.worker.body
           /\ t.worker.answered = TRUE
           /\ t.auth = s.auth /\ t.active = s.active /\ t.synced = s.synced
           /\ t.user = s.user /\ t.tokens = s.tokens /\ t.owner = s.owner
           /\ t.seen = s.seen /\ t.queue = s.queue /\ t.batch = s.batch
           /\ t.saved = s.saved /\ t.out = s.out /\ t.switch = s.switch
           /\ t.request = s.request /\ t.waiting = s.waiting
           /\ t.dialogs = s.dialogs
  <1> DEFINE t == Answered(s)
             v == s.worker
             yes == TRUE
             w == [v EXCEPT !.answered = yes]
  <1>1. t = [f \in Fields |-> IF f = "worker" THEN w ELSE s[f]]
    BY DEF Shape, Fields, Answered
  <1>2. v = [kind |-> v.kind, body |-> v.body, answered |-> v.answered]
    BY DEF Shape
  <1> HIDE DEF v, yes
  <1>3. w = [kind |-> v.kind, body |-> v.body, answered |-> yes]
    BY <1>2
  <1> HIDE DEF w
  <1>4. /\ w = [kind |-> w.kind, body |-> w.body, answered |-> w.answered]
        /\ w.kind = v.kind /\ w.body = v.body /\ w.answered = yes
    BY <1>3
  <1> QED BY <1>1, <1>4 DEF Fields, v, yes

LEMMA ContinueSafe ==
    ASSUME NEW s, Sound(s)
    PROVE  LET t == Continue(s) IN
           /\ Sound(t) /\ Keeps(s, t) /\ t.saved = s.saved /\ t.batch = s.batch
           /\ t.auth = s.auth /\ t.active = s.active /\ t.user = s.user
           /\ t.switch = s.switch /\ t.synced = s.synced
           /\ t.waiting = s.waiting /\ t.request = s.request
  <1> DEFINE t == Continue(s)
             job == IF s.phase = "resolve" /\ s.saved # None /\ s.saved.user = s.user
                    THEN Work("resolve", s.saved) ELSE Work("preview", None)
  <1>1. CASE t = s
    <2> HIDE DEF t
    <2> QED BY <1>1 DEF Keeps, t
  <1>2. CASE t = [s EXCEPT !.retry = TRUE]
    <2>1. /\ Stays(s, t) /\ t.worker = s.worker /\ t.request = s.request
          /\ t.synced = s.synced /\ t.waiting = s.waiting
          /\ t.dialogs = s.dialogs
      BY <1>2 DEF Sound, Shape, Fields, Stays
    <2> HIDE DEF t
    <2>2. s.synced \in BOOLEAN /\ (s.synced => s.auth /\ ~s.active)
      BY DEF Sound, Shape, Sending
    <2> QED BY <2>1, <2>2, StaysSafe DEF Stays, t
  <1>3. CASE /\ Proceeds(s) /\ s.worker = None
             /\ \/ t = [s EXCEPT !.known = TRUE, !.worker = job]
                \/ t = [s EXCEPT !.phase = "preview", !.worker = job]
    <2>1. /\ job = [kind |-> job.kind, body |-> job.body,
                    answered |-> job.answered]
          /\ job.answered = FALSE /\ job.kind \in {"resolve", "preview"}
          /\ job.kind = "resolve" => job.body = s.saved /\ s.saved # None
      BY DEF Work
    <2> HIDE DEF job
    <2>2. /\ Stays(s, t) /\ t.worker = job /\ t.request = s.request
          /\ t.synced = s.synced /\ t.waiting = s.waiting
          /\ t.dialogs = s.dialogs
      <3>1. s = [f \in Fields |-> s[f]]
        BY DEF Sound, Shape
      <3> HIDE DEF t
      <3>2. CASE t = [s EXCEPT !.known = TRUE, !.worker = job]
        BY <3>1, <3>2 DEF Fields, Stays
      <3>3. CASE t = [s EXCEPT !.phase = "preview", !.worker = job]
        BY <3>1, <3>3 DEF Fields, Stays
      <3>4. \/ t = [s EXCEPT !.known = TRUE, !.worker = job]
            \/ t = [s EXCEPT !.phase = "preview", !.worker = job]
        BY <1>3 DEF t, job
      <3> QED BY <3>2, <3>3, <3>4
    <2> HIDE DEF t
    <2>3. s.out = None /\ s.switch = None /\ s.auth /\ s.active
      BY <1>3 DEF Proceeds
    <2>4. s.request = None
      BY <1>3 DEF Sound, Sending, Runs
    <2>5. Shape(t)
      BY <2>1, <2>2 DEF Stays, Sound, Shape
    <2>6. Held(t) /\ Bound(t)
      BY <2>2, <2>3, NoneAssumption DEF Stays, Sound, Held, Bound, BoundTo
    <2>7. Sending(t)
      BY <2>1, <2>2, <2>3, <2>4 DEF Stays, Sound, Sending, Runs
    <2>8. Keeps(s, t)
      BY <1>3, <2>1, <2>2 DEF Stays, Keeps, Load, Runs
    <2> QED BY <2>2, <2>5, <2>6, <2>7, <2>8 DEF Stays, Sound, t
  <1>4. \/ t = s
        \/ t = [s EXCEPT !.retry = TRUE]
        \/ /\ Proceeds(s) /\ s.worker = None
           /\ \/ t = [s EXCEPT !.known = TRUE, !.worker = job]
              \/ t = [s EXCEPT !.phase = "preview", !.worker = job]
    <2>1. CASE s.phase = "resolve" /\ s.saved # None /\ s.saved.user = s.user
      BY <2>1 DEF Continue
    <2>2. CASE ~(s.phase = "resolve" /\ s.saved # None /\ s.saved.user = s.user)
      BY <2>2 DEF Continue
    <2> QED BY <2>1, <2>2
  <1> QED BY <1>1, <1>2, <1>3, <1>4

\* A saved request holds the workspace before anything else happens to it.
LEMMA GuardedSafe ==
    ASSUME NEW s, Sound(s)
    PROVE  LET t == Guarded(s) IN
           /\ Sound(t) /\ Keeps(s, t) /\ t.saved = s.saved
           /\ t.auth = s.auth /\ t.switch = s.switch
           /\ t.user \in {s.user, BoundTo(s)} /\ (t.active => ~t.synced)
           /\ s.active \/ s.saved = None => t = s
           /\ t.active = (s.active \/ s.saved # None)
  <1> DEFINE t == Guarded(s)
  <1>1. CASE s.active \/ s.saved = None
    <2>1. t = s
      BY <1>1 DEF Guarded
    <2>2. s.active => ~s.synced
      BY DEF Sound, Sending
    <2>3. s.active = (s.active \/ s.saved # None)
      BY <1>1 DEF Sound, Shape
    <2> HIDE DEF t
    <2> QED BY <2>1, <2>2, <2>3 DEF Keeps, t
  <1>2. CASE ~s.active /\ s.saved # None
    <2>1. t = [Activated(s) EXCEPT !.synced = FALSE]
      BY <1>2 DEF Guarded
    <2>2. /\ t = [f \in Fields |-> t[f]] /\ t.worker = s.worker
          /\ t.auth = s.auth /\ t.active = TRUE /\ t.user = s.saved.user
          /\ t.tokens = s.tokens /\ t.owner = s.owner /\ t.seen = s.seen
          /\ t.queue = s.queue /\ t.batch = s.batch /\ t.saved = s.saved
          /\ t.out = s.out /\ t.switch = s.switch /\ t.synced = FALSE
          /\ t.request = s.request /\ t.dialogs = s.dialogs
      <3> DEFINE b == Begun(s, s.saved.user, "resolve", FALSE)
      <3>1. /\ b = [f \in Fields |-> b[f]] /\ b.worker = s.worker
            /\ b.auth = s.auth /\ b.active = TRUE /\ b.user = s.saved.user
            /\ b.tokens = s.tokens /\ b.owner = s.owner /\ b.seen = s.seen
            /\ b.queue = s.queue /\ b.batch = s.batch /\ b.saved = s.saved
            /\ b.out = s.out /\ b.switch = s.switch
            /\ b.request = s.request /\ b.dialogs = s.dialogs
        BY DEF Sound, Shape, Fields, Begun
      <3>2. t = [b EXCEPT !.synced = FALSE]
        BY <1>2, <2>1 DEF Activated
      <3> HIDE DEF b, t
      <3> QED BY <3>1, <3>2 DEF Fields
    <2> HIDE DEF t
    <2>3. Keeps(s, t)
      BY <2>2 DEF Keeps, Load, Runs
    <2>4. Shape(t)
      BY <1>2, <2>2 DEF Sound, Shape, Users
    <2>5. Held(t)
      BY <1>2, <2>2, NoneAssumption DEF Sound, Held, Idle, BoundTo, IsBlank
    <2>6. Bound(t)
      BY <1>2, <2>2, NoneAssumption DEF Sound, Shape, Held, Bound, BoundTo
    <2>7. Sending(t)
      BY <1>2, <2>2 DEF Sound, Sending, Runs
    <2> QED BY <1>2, <2>2, <2>3, <2>4, <2>5, <2>6, <2>7
        DEF Sound, BoundTo, t
  <1> QED BY <1>1, <1>2 DEF Sound, Shape

\* A claim that leaves the check mark up is an empty one.
LEMMA SynchronizeSafe ==
    ASSUME NEW s, Sound(s)
    PROVE  LET t == Synchronize(s) IN
           /\ Sound(t) /\ Keeps(s, t) /\ t.saved = s.saved
           /\ t.auth = s.auth /\ t.switch = s.switch
           /\ t.user \in {s.user, BoundTo(s)}
           /\ t.synced => t.waiting \/ t.request # None
  <1> DEFINE t == Synchronize(s)
             r == [Activated(s) EXCEPT !.synced = FALSE]
  <1>1. CASE ~s.active /\ s.saved # None
    <2>1. /\ Sound(r) /\ Keeps(s, r) /\ r.saved = s.saved
          /\ r.active /\ ~r.synced /\ r.auth = s.auth
          /\ r.switch = s.switch /\ r.user \in {s.user, BoundTo(s)}
      BY <1>1, GuardedSafe DEF Guarded
    <2>2. t = IF ~r.auth THEN r ELSE Continue(r)
      BY <1>1, <2>1 DEF Synchronize
    <2> HIDE DEF r
    <2>3. CASE ~r.auth
      BY <2>1, <2>2, <2>3
    <2>4. CASE r.auth
      <3>1. t = Continue(r)
        BY <2>2, <2>4
      <3> QED BY <2>1, <3>1, ContinueSafe DEF Keeps
    <2> QED BY <2>3, <2>4
  <1>2. CASE s.active
    <2>1. t = IF ~s.auth THEN s ELSE Continue(s)
      BY <1>2 DEF Synchronize
    <2>2. ~s.synced
      BY <1>2 DEF Sound, Sending
    <2> QED BY <1>2, <2>1, <2>2, ContinueSafe DEF Keeps
  <1>3. CASE ~s.active /\ s.saved = None
    <2> DEFINE u == Claimed(s)
               job == Work("sync", [user |-> u.owner, edits |-> u.batch])
    <2>1. /\ u.saved = s.saved /\ u.queue = s.queue /\ u.seen = s.seen
          /\ u.worker = s.worker /\ u.auth = s.auth /\ u.switch = s.switch
          /\ u.owner = s.owner /\ u.tokens = s.tokens /\ u.out = s.out
          /\ u.active = s.active /\ u.user = s.user
          /\ u.request = s.request /\ u.waiting = s.waiting
          /\ u.dialogs = s.dialogs
          /\ u.batch # None /\ u.batch \in {s.queue, s.batch}
          /\ s.batch # None => u.batch = s.batch
          /\ u.synced \in BOOLEAN /\ (u.synced => s.synced /\ u.batch = {})
          /\ u = [f \in Fields |-> u[f]]
      BY NoneAssumption DEF Sound, Shape, Fields, Edits, Claimed
    <2>2. /\ Shape(u) /\ Held(u) /\ Keeps(s, u) /\ (s.auth => Bound(u))
          /\ s.request # None => u.batch = s.batch
      <3> HIDE DEF u
      <3>1. Shape(u)
        BY <2>1 DEF Sound, Shape
      <3>5. Held(u)
        BY <1>3, <2>1, NoneAssumption
        DEF Sound, Held, BoundTo, IsBlank, Idle
      <3>2. s.auth => Bound(u)
        BY <1>3, <2>1 DEF Sound, Shape, Held, Bound, Sending, Fields, Runs,
          Idle, BoundTo, IsBlank, Users
      <3>3. Keeps(s, u)
        BY <2>1 DEF Keeps, Load, Runs
      <3>4. s.request # None => u.batch = s.batch
        BY <2>1 DEF Sound, Sending
      <3> QED BY <3>1, <3>2, <3>3, <3>4, <3>5
    <2>3. CASE ~s.auth
      <3>1. t = s
        BY <1>3, <2>3 DEF Synchronize
      <3>2. ~s.synced
        BY <2>3 DEF Sound, Sending
      <3> HIDE DEF t, u
      <3> QED BY <3>1, <3>2 DEF Keeps, t
    <2>4. CASE s.auth /\ s.worker # None
      <3>1. t = [u EXCEPT !.waiting = TRUE]
        BY <1>3, <2>1, <2>4 DEF Synchronize
      <3> HIDE DEF u
      <3>2. Sound(u)
        BY <1>3, <2>1, <2>2, <2>4 DEF Sound, Sending, Runs
      <3>3. /\ Stays(u, t) /\ t.worker = u.worker /\ t.request = u.request
            /\ t.waiting = TRUE /\ t.synced = u.synced
            /\ t.dialogs = u.dialogs
        BY <2>1, <3>1 DEF Fields, Stays
      <3> HIDE DEF t
      <3>5. t.synced \in BOOLEAN /\ (t.synced => u.auth /\ ~u.active)
        BY <2>1, <3>2, <3>3 DEF Sound, Sending
      <3>4. Sound(t) /\ Keeps(u, t)
        BY <3>2, <3>3, <3>5, StaysSafe
      <3> QED BY <2>1, <2>2, <3>3, <3>4 DEF Stays, Keeps, t
    <2>5. CASE s.auth /\ s.worker = None
      <3>1. t = [u EXCEPT !.request = u.batch, !.worker = job]
        BY <1>3, <2>1, <2>5 DEF Synchronize
      <3>2. /\ job = [kind |-> job.kind, body |-> job.body,
                      answered |-> job.answered]
            /\ job.kind = "sync" /\ job.answered = FALSE
            /\ job.body.user = u.owner /\ job.body.edits = u.batch
        BY DEF Work
      <3>8. u.owner \in Users /\ u.batch \in SUBSET Edits
        BY <2>1 DEF Sound, Shape
      <3> HIDE DEF u
      <3>11. job \in Syncs
        BY <3>8 DEF Work, Syncs
      <3>9. job # None
        BY <3>11, NoneAssumption
      <3> HIDE DEF job
      <3>3. /\ t.worker = job /\ t.request = u.batch /\ t.saved = u.saved
            /\ t.queue = u.queue /\ t.batch = u.batch /\ t.seen = u.seen
            /\ t.auth = u.auth /\ t.active = u.active /\ t.user = u.user
            /\ t.tokens = u.tokens /\ t.owner = u.owner /\ t.out = u.out
            /\ t.switch = u.switch /\ t.synced = u.synced
            /\ t.dialogs = u.dialogs /\ t = [f \in Fields |-> t[f]]
        BY <2>2, <3>1 DEF Shape, Fields
      <3> HIDE DEF t
      <3>12. Shape(t)
        BY <2>1, <2>2, <3>2, <3>3 DEF Shape
      <3>13. u.switch = None /\ u.out = None
        BY <1>3, <2>1 DEF Sound, Held
      <3>7. Shape(t) /\ Held(t) /\ Bound(t)
        BY <2>2, <2>5, <3>3, <3>12, <3>13, NoneAssumption
        DEF Held, Bound, BoundTo
      <3>4. Sending(t)
        BY <1>3, <2>1, <2>2, <2>5, <3>2, <3>3, <3>9
        DEF Sending, Bound, Runs, Sound
      <3>5. Keeps(s, t)
        BY <2>1, <2>2, <2>5, <3>2, <3>3 DEF Keeps, Load, Runs
      <3>6. /\ t.saved = s.saved /\ t.auth = s.auth /\ t.switch = s.switch
            /\ t.user = s.user
            /\ t.synced => t.request # None
        BY <2>1, <3>3
      <3>10. t.synced => t.waiting \/ t.request # None
        BY <3>6
      <3> QED BY <3>4, <3>5, <3>6, <3>7, <3>10 DEF Sound, t
    <2> QED BY <2>3, <2>4, <2>5 DEF Sound, Shape
  <1> QED BY <1>1, <1>2, <1>3 DEF Sound, Shape

LEMMA CloudFailureSafe ==
    ASSUME NEW s, Sound(s)
    PROVE  LET t == CloudFailure(s) IN
           /\ Sound(t) /\ Keeps(s, t) /\ t.saved = s.saved
           /\ t.switch = s.switch /\ t.auth = s.auth /\ ~t.synced
           /\ t.user = s.user
  <1> DEFINE t == CloudFailure(s)
  <1>1. /\ Stays(s, t) /\ t.worker = s.worker /\ t.request = None
        /\ t.dialogs = s.dialogs
    BY DEF Sound, Shape, Fields, Stays, CloudFailure
  <1>2. t.synced = FALSE
    BY DEF Sound, Shape, Fields, Sending, CloudFailure
  <1> HIDE DEF t
  <1> QED BY <1>1, <1>2, StaysSafe DEF Stays, t

\* The same for a worker whose request has failed.
LEMMA FailedSafe ==
    ASSUME NEW s, Sound(s), s.worker # None
    PROVE  LET t == CloudFailure(Answered(s)) IN
           /\ Sound(t) /\ Keeps(s, t) /\ t.saved = s.saved
           /\ t.switch = s.switch /\ t.auth = s.auth /\ ~t.synced
           /\ t.user = s.user
           /\ t.request = None
  <1> DEFINE a == Answered(s)
             t == CloudFailure(a)
  <1>1. /\ a = [f \in Fields |-> a[f]]
        /\ a.worker = [kind |-> a.worker.kind, body |-> a.worker.body,
                       answered |-> a.worker.answered]
        /\ a.worker.answered = TRUE
        /\ a.auth = s.auth /\ a.active = s.active /\ a.synced = s.synced
        /\ a.user = s.user /\ a.tokens = s.tokens /\ a.owner = s.owner
        /\ a.seen = s.seen /\ a.queue = s.queue /\ a.batch = s.batch
        /\ a.saved = s.saved /\ a.out = s.out /\ a.switch = s.switch
        /\ a.dialogs = s.dialogs
    BY AnsweredFields DEF Sound
  <1> HIDE DEF a
  <1>2. /\ Stays(s, t) /\ t.worker = a.worker /\ t.request = None
        /\ t.dialogs = s.dialogs
    BY <1>1 DEF Fields, Stays, CloudFailure
  <1>3. t.synced = FALSE
    BY <1>1 DEF Sound, Shape, Sending, Fields, CloudFailure
  <1> HIDE DEF t
  <1> QED BY <1>1, <1>2, <1>3, StaysSafe DEF Stays, t, a

LEMMA AnsweredSafe ==
    ASSUME NEW s, Sound(s), s.worker # None, s.request = None
    PROVE  LET t == Answered(s) IN
           /\ Sound(t) /\ Keeps(s, t) /\ t.saved = s.saved
           /\ t.switch = s.switch /\ t.auth = s.auth /\ t.synced = s.synced
           /\ t.active = s.active /\ t.user = s.user
           /\ t.request = s.request /\ t.waiting = s.waiting
  <1> DEFINE t == Answered(s)
  <1>1. /\ Stays(s, t) /\ t.request = s.request /\ t.waiting = s.waiting
        /\ t.worker = [kind |-> t.worker.kind, body |-> t.worker.body,
                       answered |-> t.worker.answered]
        /\ t.worker.answered = TRUE /\ t.synced = s.synced
        /\ t.dialogs = s.dialogs
    BY AnsweredFields DEF Sound, Stays
  <1>2. s.synced \in BOOLEAN /\ (s.synced => s.auth /\ ~s.active)
    BY DEF Sound, Shape, Sending
  <1> HIDE DEF t
  <1> QED BY <1>1, <1>2, StaysSafe DEF Stays, t

\* Signing in where the workspace is free, or already bound to the account.
Admitted(s, user) ==
    /\ Shape(s) /\ Idle(s) /\ s.auth /\ s.tokens = user /\ user \in Accounts
    /\ s.out = None /\ s.request = None /\ s.switch = None
    /\ s.saved # None => s.owner \in {None, s.saved.user}
    /\ s.batch # None => s.owner # None

LEMMA SignedInSafe ==
    ASSUME NEW s, NEW user, Admitted(s, user)
    PROVE  LET t == SignedIn(s, user) IN
           /\ Sound(t) /\ Keeps(s, t) /\ t.saved = s.saved
           /\ t.synced => t.waiting \/ t.request # None
  <1> USE DEF Admitted
  <1> DEFINE t == SignedIn(s, user)
             r == [s EXCEPT !.switch = None, !.synced = FALSE]
             phase == IF s.saved # None THEN "resolve" ELSE "preview"
             b == Begun(r, user, phase, FALSE)
  <1>1. CASE BoundTo(s) \notin {None, user}
    <2>1. t = Quarantined(s, user)
      BY <1>1, NoneAssumption DEF SignedIn
    <2>2. /\ t = [f \in Fields |-> t[f]] /\ t.worker = s.worker
          /\ t.auth = s.auth /\ t.tokens = s.tokens /\ t.owner = s.owner
          /\ t.saved = s.saved /\ t.queue = s.queue /\ t.batch = s.batch
          /\ t.seen = s.seen /\ t.dialogs = s.dialogs /\ t.out = s.out
          /\ t.active = TRUE /\ t.user = BoundTo(s) /\ t.switch = user
          /\ t.request = None /\ t.synced = FALSE
      <3> DEFINE h == Begun(s, BoundTo(s), IF s.saved # None THEN "resolve"
                                           ELSE None, TRUE)
      <3>1. /\ h = [f \in Fields |-> h[f]] /\ h.worker = s.worker
            /\ h.auth = s.auth /\ h.tokens = s.tokens /\ h.owner = s.owner
            /\ h.saved = s.saved /\ h.queue = s.queue /\ h.batch = s.batch
            /\ h.seen = s.seen /\ h.dialogs = s.dialogs /\ h.out = s.out
            /\ h.active = TRUE /\ h.user = BoundTo(s)
        BY DEF Shape, Fields, Begun
      <3>2. t = [h EXCEPT !.switch = user, !.request = None, !.synced = FALSE]
        BY <2>1 DEF Quarantined
      <3> HIDE DEF h
      <3> HIDE DEF t
      <3> QED BY <3>1, <3>2 DEF Fields, Admitted
    <2>3. BoundTo(s) \in Accounts
      BY <1>1 DEF BoundTo, Shape, Users
    <2> HIDE DEF t
    <2>4. Shape(t) /\ Held(t)
      BY <1>1, <2>2, <2>3, NoneAssumption
      DEF Shape, Held, Idle, BoundTo, IsBlank, Users
    <2>5. Bound(t) /\ Sending(t)
      BY <1>1, <2>2, <2>3, NoneAssumption
      DEF Bound, Sending, Runs, Idle, BoundTo
    <2>6. Keeps(s, t)
      BY <2>2 DEF Keeps, Load, Runs
    <2> QED BY <2>2, <2>4, <2>5, <2>6 DEF Sound, t
  <1>2. CASE BoundTo(s) \in {None, user} /\ s.owner # None
    <2> DEFINE c == Cleared(r)
    <2>1. t = Synchronize(c)
      BY <1>2 DEF SignedIn
    <2>2. /\ c = [f \in Fields |-> c[f]] /\ c.worker = s.worker
          /\ c.auth = s.auth /\ c.active = FALSE /\ c.user = None
          /\ c.tokens = s.tokens /\ c.owner = s.owner /\ c.seen = s.seen
          /\ c.queue = s.queue /\ c.batch = s.batch /\ c.saved = s.saved
          /\ c.out = s.out /\ c.switch = None /\ c.synced = FALSE
          /\ c.request = s.request /\ c.dialogs = s.dialogs
      BY DEF Shape, Fields, Cleared
    <2> HIDE DEF c
    <2>3. Shape(c) /\ Held(c)
      BY <2>2, NoneAssumption DEF Shape, Held, Users
    <2>4. Bound(c) /\ Sending(c)
      BY <1>2, <2>2 DEF Bound, BoundTo, Sending, Runs, Idle
    <2>5. Sound(c) /\ Keeps(s, c)
      BY <2>2, <2>3, <2>4 DEF Sound, Keeps, Load, Runs
    <2> QED BY <2>1, <2>2, <2>5, SynchronizeSafe DEF Keeps
  <1>3. CASE BoundTo(s) \in {None, user} /\ s.owner = None
    <2>1. t = Continue(b)
      BY <1>3 DEF SignedIn
    <2>2. /\ b = [f \in Fields |-> b[f]] /\ b.worker = s.worker
          /\ b.auth = s.auth /\ b.active = TRUE /\ b.user = user
          /\ b.tokens = s.tokens /\ b.owner = s.owner /\ b.seen = s.seen
          /\ b.queue = s.queue /\ b.batch = s.batch /\ b.saved = s.saved
          /\ b.out = s.out /\ b.switch = None /\ b.synced = FALSE
          /\ b.request = s.request /\ b.dialogs = s.dialogs
      BY DEF Shape, Fields, Begun
    <2> HIDE DEF b
    <2>3. Shape(b) /\ Held(b)
      BY <2>2, NoneAssumption DEF Shape, Held, Users
    <2>4. Bound(b) /\ Sending(b)
      BY <1>3, <2>2, NoneAssumption DEF Bound, BoundTo, Sending, Runs, Idle
    <2>5. Sound(b) /\ Keeps(s, b)
      BY <2>2, <2>3, <2>4 DEF Sound, Keeps, Load, Runs
    <2> QED BY <2>1, <2>2, <2>5, ContinueSafe DEF Keeps
  <1> QED BY <1>1, <1>2, <1>3

LEMMA PausedSafe ==
    ASSUME NEW s, Sound(s)
    PROVE  LET t == Paused(s) IN
           /\ Sound(t) /\ Keeps(s, t) /\ t.saved = s.saved
           /\ t.switch = s.switch /\ t.auth = s.auth /\ t.user = s.user
           /\ t.synced = s.synced /\ t.waiting = s.waiting
           /\ t.request = s.request
  <1> DEFINE t == Paused(s)
  <1>1. /\ Stays(s, t) /\ t.worker = s.worker /\ t.request = s.request
        /\ t.synced = s.synced /\ t.waiting = s.waiting
        /\ t.dialogs = s.dialogs
    BY DEF Sound, Shape, Fields, Stays, Paused
  <1>2. s.synced \in BOOLEAN /\ (s.synced => s.auth /\ ~s.active)
    BY DEF Sound, Shape, Sending
  <1> HIDE DEF t
  <1> QED BY <1>1, <1>2, StaysSafe DEF Stays, t

\* A fresh request is made for the account that the resolution is for.
LEMMA PreparedSafe ==
    ASSUME NEW s, NEW rev, NEW strategy, Sound(s), s.out = None
    PROVE  LET t == Prepared(s, rev, strategy) IN
           /\ Sound(t) /\ Keeps(s, t)
           /\ \/ t.saved = s.saved
              \/ s.saved = None /\ t.saved.user = s.user
           /\ t.switch = s.switch /\ t.synced = s.synced
           /\ t.auth = s.auth /\ t.user = s.user
           /\ t.waiting = s.waiting /\ t.request = s.request
  <1> DEFINE t == Prepared(s, rev, strategy)
             fresh == [user |-> s.user, rev |-> rev, strategy |-> strategy,
                       edits |-> IF strategy = "keep_remote" THEN {} ELSE s.queue]
             stops == \/ s.user = None
                      \/ IF s.saved # None THEN s.saved.user # s.user
                         ELSE s.batch # None
             b == [s EXCEPT !.saved = IF @ # None THEN @ ELSE fresh,
                            !.phase = "resolve"]
  <1>1. CASE stops
    <2>1. t = Paused(s)
      BY <1>1 DEF Prepared
    <2> QED BY <2>1, PausedSafe
  <1>2. CASE ~stops
    <2>1. t = Continue(b)
      BY <1>2 DEF Prepared
    <2>2. /\ fresh.user = s.user /\ fresh.edits \subseteq s.queue
      OBVIOUS
    <2> HIDE DEF fresh
    <2>3. Shape(b) /\ Held(b)
      BY <1>2, <2>2, NoneAssumption DEF Sound, Shape, Held, Bound, Sending,
        Fields, Runs, Idle, BoundTo, IsBlank, Users
    <2>4. Bound(b) /\ Sending(b)
      BY <1>2, <2>2, NoneAssumption DEF Sound, Shape, Held, Bound, Sending,
        Fields, Runs, Idle, BoundTo, IsBlank, Users
    <2>5. /\ Keeps(s, b)
          /\ \/ b.saved = s.saved
             \/ s.saved = None /\ b.saved.user = s.user
          /\ b.switch = s.switch /\ b.synced = s.synced
          /\ b.auth = s.auth /\ b.user = s.user
          /\ b.waiting = s.waiting /\ b.request = s.request
      BY <2>2 DEF Sound, Shape, Fields, Runs, Keeps, Load
    <2> HIDE DEF b
    <2>6. Sound(b)
      BY <2>3, <2>4 DEF Sound
    <2> QED BY <2>1, <2>5, <2>6, ContinueSafe DEF Keeps
  <1> QED BY <1>1, <1>2

\* AfterPreview asks for the dialog of a prompt, goes on, or gives up.
Prompt(preview) == [kind |-> "prompt", about |-> preview]

LEMMA AfterPreviewSafe ==
    ASSUME NEW s, NEW preview, Sound(s), NEW t \in AfterPreview(s, preview)
    PROVE  /\ Sound(t) /\ Load(t) \subseteq Load(s) /\ t.tokens = s.tokens
           /\ t.owner = s.owner /\ t.seen = s.seen /\ t.queue = s.queue
           /\ \/ t.saved = s.saved
              \/ s.saved = None /\ t.saved.user = s.user
           /\ t.auth = s.auth /\ t.user = s.user
           /\ t.out = s.out /\ t.switch = s.switch /\ t.synced = s.synced
           /\ t.waiting = s.waiting /\ t.request = s.request
           /\ \/ t.dialogs = s.dialogs
              \/ t.dialogs = Append(s.dialogs, Prompt(preview)) /\ s.out = None
  <1> DEFINE r == [s EXCEPT !.phase = "choice", !.preview = preview]
             p == [Paused(s) EXCEPT !.phase = "preview", !.preview = None]
             q == [r EXCEPT !.dialogs = Append(@, [kind  |-> "prompt",
                                                    about |-> preview])]
  <1>1. CASE t = s
    BY <1>1
  <1>2. CASE Decides(s) /\ t \in {p, q}
    <2>1. /\ Stays(s, t) /\ t.worker = s.worker /\ t.request = s.request
          /\ t.synced = s.synced /\ t.waiting = s.waiting
          /\ \/ t.dialogs = s.dialogs
             \/ t.dialogs = Append(s.dialogs, Prompt(preview)) /\ s.out = None
      <3>1. s = [f \in Fields |-> s[f]] /\ s.out = None
        BY <1>2 DEF Sound, Shape, Decides
      <3>2. CASE t = p
        BY <3>1, <3>2 DEF Fields, Stays, Paused
      <3>3. CASE t = q
        BY <3>1, <3>3 DEF Fields, Stays, Prompt
      <3> QED BY <1>2, <3>2, <3>3
    <2>2. s.synced \in BOOLEAN /\ (s.synced => s.auth /\ ~s.active)
      BY DEF Sound, Shape, Sending
    <2>3. Sound(t) /\ Load(t) = Load(s)
      BY <2>1, <2>2, StaysSafe
    <2> QED BY <2>1, <2>3 DEF Stays
  <1>3. ASSUME Decides(s), NEW strategy, t = Prepared(r, preview.rev, strategy)
        PROVE  /\ Sound(t) /\ Keeps(s, t)
               /\ \/ t.saved = s.saved
                  \/ s.saved = None /\ t.saved.user = s.user
               /\ t.auth = s.auth /\ t.user = s.user
               /\ t.switch = s.switch /\ t.synced = s.synced
               /\ t.waiting = s.waiting /\ t.request = s.request
    <2>1. /\ Stays(s, r) /\ r.worker = s.worker /\ r.request = s.request
          /\ r.synced = s.synced /\ r.waiting = s.waiting
          /\ r.dialogs = s.dialogs
      BY DEF Sound, Shape, Fields, Stays
    <2>2. s.synced \in BOOLEAN /\ (s.synced => s.auth /\ ~s.active)
      BY DEF Sound, Shape, Sending
    <2> HIDE DEF r
    <2>3. Sound(r) /\ Keeps(s, r)
      BY <2>1, <2>2, StaysSafe
    <2>4. r.out = None
      BY <1>3, <2>1 DEF Stays, Decides
    <2> QED BY <1>3, <2>1, <2>3, <2>4, PreparedSafe DEF Keeps, Stays
  <1>4. \/ t = s
        \/ Decides(s) /\ t \in {p, q}
        \/ Decides(s) /\ \E strategy : t = Prepared(r, preview.rev, strategy)
    <2> DEFINE autos == AutoStrategies(s.queue # {} \/ s.seen # {},
                                       preview.items # {})
    <2>1. CASE ~Decides(s)
      <3>1. t = s
        BY <2>1 DEF AfterPreview
      <3> HIDE DEF p, q, r
      <3> QED BY <3>1
    <2>2. CASE Decides(s)
      <3>1. t = p \/ t \in IF autos = {} THEN {q}
                           ELSE {Prepared(r, preview.rev, strategy) :
                                   strategy \in autos}
        BY <2>2 DEF AfterPreview
      <3> HIDE DEF p, q, r, autos
      <3> QED BY <2>2, <3>1
    <2> QED BY <2>1, <2>2
  <1>5. CASE Decides(s) /\ \E strategy : t = Prepared(r, preview.rev, strategy)
    BY <1>3, <1>5 DEF Keeps
  <1> QED BY <1>1, <1>2, <1>4, <1>5

LEMMA SettledSafe ==
    ASSUME NEW s, Sound(s), ~s.active
    PROVE  LET t == Settled(s) IN
           /\ Sound(t) /\ Keeps(s, t) /\ t.saved = s.saved
           /\ t.switch = s.switch
           /\ t.synced => t.queue = {} \/ t.waiting \/ t.request # None
  <1> DEFINE t == Settled(s)
             r == [s EXCEPT !.synced = FALSE]
             u == [s EXCEPT !.synced = s.auth]
  <1>1. \A x \in {r, u} :
           /\ Stays(s, x) /\ x.worker = s.worker /\ x.request = s.request
           /\ x.synced \in {FALSE, s.auth} /\ x.dialogs = s.dialogs
    <2>1. s = [f \in Fields |-> s[f]]
      BY DEF Sound, Shape
    <2>2. /\ Stays(s, r) /\ r.worker = s.worker /\ r.request = s.request
          /\ r.synced = FALSE /\ r.dialogs = s.dialogs
      BY <2>1 DEF Fields, Stays
    <2>3. /\ Stays(s, u) /\ u.worker = s.worker /\ u.request = s.request
          /\ u.synced = s.auth /\ u.dialogs = s.dialogs
      BY <2>1 DEF Fields, Stays
    <2> HIDE DEF r, u
    <2> QED BY <2>2, <2>3
  <1>2. s.auth \in BOOLEAN
    BY DEF Sound, Shape
  <1> HIDE DEF r, u
  <1>3. \A x \in {r, u} : Sound(x) /\ Keeps(s, x)
    BY <1>1, <1>2, StaysSafe
  <1>4. CASE s.queue = {}
    <2>1. t = u
      BY <1>4 DEF Settled, u
    <2> HIDE DEF t
    <2> QED BY <1>1, <1>3, <1>4, <2>1 DEF Keeps, Stays, t
  <1>5. CASE s.queue # {}
    <2>1. t = Synchronize(r)
      BY <1>5 DEF Settled, r
    <2>2. Sound(r) /\ Keeps(s, r) /\ r.saved = s.saved /\ r.switch = s.switch
      BY <1>1, <1>3 DEF Stays
    <2> QED BY <2>1, <2>2, SynchronizeSafe DEF Keeps
  <1> QED BY <1>4, <1>5

\* The answer to a sync.
LEMMA AppliedSyncSafe ==
    ASSUME NEW s, NEW c, Sound(s), Runs(s, "sync")
    PROVE  LET t == AppliedSync(Answered(s), c) IN
           /\ Sound(t) /\ Load(t) \subseteq Load(s) /\ t.queue \subseteq s.queue
           /\ t.owner = s.owner /\ t.tokens = s.tokens /\ t.saved = s.saved
           /\ t.seen \in {s.seen, c.items} /\ t.dialogs = s.dialogs
           /\ t.out = s.out /\ t.switch = s.switch
           /\ t.synced => t.queue = {} \/ t.waiting \/ t.request # None
  <1> DEFINE a == Answered(s)
             t == AppliedSync(a, c)
             r == [a EXCEPT !.request = None]
             u == [r EXCEPT !.synced = FALSE]
             v == [r EXCEPT !.queue = @ \ a.batch, !.batch = None,
                            !.rev = c.rev, !.seen = c.items]
  <1>0. /\ a = [f \in Fields |-> a[f]]
        /\ a.worker = [kind |-> a.worker.kind, body |-> a.worker.body,
                       answered |-> a.worker.answered]
        /\ a.worker.answered = TRUE /\ s.worker # None
        /\ Stays(s, a) /\ a.request = s.request /\ a.dialogs = s.dialogs
        /\ a.synced = s.synced
    BY AnsweredFields DEF Sound, Runs, Stays
  <1>1. CASE s.request = None
    <2>1. t = u
      BY <1>0, <1>1 DEF AppliedSync
    <2> HIDE DEF a
    <2>2. /\ Stays(s, u) /\ u.worker = a.worker /\ u.request = None
          /\ u.synced = FALSE /\ u.dialogs = s.dialogs
      <3>1. /\ r = [f \in Fields |-> r[f]] /\ r.worker = a.worker
            /\ Stays(s, r) /\ r.request = None /\ r.dialogs = s.dialogs
        BY <1>0 DEF Fields, Stays
      <3> HIDE DEF r
      <3> QED BY <3>1 DEF Fields, Stays
    <2> HIDE DEF u
    <2>3. Sound(u) /\ Keeps(s, u)
      BY <1>0, <2>2, StaysSafe
    <2> QED BY <2>1, <2>2, <2>3 DEF Keeps, Stays, a
  <1>2. CASE s.request # None
    <2>1. s.saved = None /\ s.batch = s.request /\ ~s.active
      BY <1>2 DEF Sound, Sending
    <2>2. t = Settled(v)
      <3>1. /\ r.saved = s.saved /\ r.batch = s.batch
            /\ a.saved = s.saved /\ a.batch = s.batch /\ a.request = s.request
        <4>1. a = [f \in Fields |-> a[f]] /\ a.saved = s.saved
              /\ a.batch = s.batch /\ a.request = s.request
          BY <1>0 DEF Stays
        <4> HIDE DEF a
        <4> QED BY <4>1 DEF Fields
      <3> HIDE DEF a
      <3> QED BY <1>2, <2>1, <3>1 DEF AppliedSync
    <2> HIDE DEF a
    <2>3. /\ v = [f \in Fields |-> v[f]] /\ v.worker = a.worker
          /\ v.auth = s.auth /\ v.active = s.active /\ v.user = s.user
          /\ v.tokens = s.tokens /\ v.owner = s.owner /\ v.seen = c.items
          /\ v.queue \subseteq s.queue /\ v.batch = None
          /\ v.saved = s.saved /\ v.out = s.out /\ v.switch = s.switch
          /\ v.request = None /\ v.synced = s.synced
          /\ v.dialogs = s.dialogs
      <3>1. /\ Stays(s, r) /\ r.worker = a.worker /\ r.request = None
            /\ r.dialogs = s.dialogs /\ r.synced = s.synced
        BY <1>0 DEF Fields, Stays
      <3>2. v = [r EXCEPT !.queue = @ \ a.batch, !.batch = None,
                          !.rev = c.rev, !.seen = c.items]
        OBVIOUS
      <3> HIDE DEF r, v
      <3> QED BY <3>1, <3>2 DEF Fields, Stays
    <2> HIDE DEF v
    <2>4. Shape(v)
      BY <1>0, <2>3 DEF Sound, Shape
    <2>5. s.out = None /\ s.switch = None
      BY DEF Sound, Held, Idle, Runs
    <2>6. Held(v) /\ Bound(v)
      BY <2>1, <2>3, <2>5, NoneAssumption DEF Sound, Held, Bound, BoundTo
    <2>7. Sending(v) /\ Load(v) \subseteq Load(s)
      BY <1>0, <2>1, <2>3 DEF Sound, Sending, Runs, Load
    <2> QED BY <2>1, <2>2, <2>3, <2>4, <2>6, <2>7, SettledSafe
        DEF Sound, Keeps, a
  <1> QED BY <1>1, <1>2

\* The answer to a resolution: the workspace is the account's from now on.
LEMMA AppliedResolutionSafe ==
    ASSUME NEW s, NEW c, Sound(s), Runs(s, "resolve")
    PROVE  LET t == AppliedResolution(Answered(s), c) IN
           /\ Sound(t) /\ Load(t) \subseteq Load(s) /\ t.queue \subseteq s.queue
           /\ t.tokens = s.tokens /\ t.dialogs = s.dialogs
           /\ t.out = s.out /\ t.switch = s.switch
           /\ \/ t.owner = s.owner /\ t.saved = s.saved /\ t.seen = s.seen
              \/ t.owner = s.saved.user /\ t.saved = None /\ t.seen = c.items
           /\ t.synced => t.queue = {} \/ t.waiting \/ t.request # None
  <1> DEFINE a == Answered(s)
             t == AppliedResolution(a, c)
             v == Cleared(
               [a EXCEPT !.owner = a.user, !.rev = c.rev, !.seen = c.items,
                         !.queue = IF a.saved.strategy = "keep_remote" THEN {}
                                   ELSE @ \ a.saved.edits,
                         !.saved = None])
  <1>0. s.auth /\ s.active /\ s.request = None /\ s.switch = None
        /\ s.saved # None /\ s.user = s.saved.user /\ s.user = s.tokens
        /\ s.owner \in {None, s.user} /\ ~s.synced /\ s.user # None
    BY NoneAssumption DEF Sound, Shape, Held, Bound, Sending, Fields, Runs,
      Idle, BoundTo, IsBlank, Users
  <1>1. /\ Sound(a) /\ Keeps(s, a) /\ a.saved = s.saved /\ a.user = s.user
        /\ a.switch = s.switch /\ a.auth = s.auth /\ a.synced = s.synced
    BY <1>0, AnsweredSafe DEF Runs
  <1>2. CASE ~Decides(a)
    BY <1>0, <1>1, <1>2 DEF AppliedResolution, Keeps
  <1>3. CASE Decides(a)
    <2>1. t = Settled(v)
      BY <1>0, <1>1, <1>3 DEF AppliedResolution
    <2>2. /\ v = [f \in Fields |-> v[f]] /\ v.worker = a.worker
          /\ v.auth = a.auth /\ v.active = FALSE /\ v.synced = a.synced
          /\ v.user = None /\ v.tokens = a.tokens /\ v.owner = a.user
          /\ v.seen = c.items /\ v.batch = a.batch /\ v.saved = None
          /\ v.queue \subseteq a.queue /\ v.out = a.out
          /\ v.switch = a.switch /\ v.request = a.request
          /\ v.dialogs = a.dialogs
      <3>1. a = [f \in Fields |-> a[f]]
        BY <1>1 DEF Sound, Shape
      <3> DEFINE b == [a EXCEPT !.owner = a.user, !.rev = c.rev, !.seen = c.items,
                                !.queue = IF a.saved.strategy = "keep_remote"
                                          THEN {} ELSE @ \ a.saved.edits,
                                !.saved = None]
      <3> HIDE DEF a
      <3>2. /\ b = [f \in Fields |-> b[f]] /\ b.worker = a.worker
            /\ b.auth = a.auth /\ b.synced = a.synced
            /\ b.tokens = a.tokens /\ b.owner = a.user
            /\ b.seen = c.items /\ b.batch = a.batch /\ b.saved = None
            /\ b.queue \subseteq a.queue /\ b.out = a.out
            /\ b.switch = a.switch /\ b.request = a.request
            /\ b.dialogs = a.dialogs
        BY <3>1 DEF Fields
      <3>3. v = Cleared(b)
        OBVIOUS
      <3> HIDE DEF b, v
      <3> QED BY <3>2, <3>3 DEF Fields, Cleared
    <2>3. a.worker.answered = TRUE /\ a.out = None
      <3>1. s.worker # None
        BY DEF Runs
      <3> QED BY <1>1, <1>3, <3>1, AnsweredFields DEF Sound, Decides, Shape
    <2>4. a.batch = s.batch /\ a.tokens = s.tokens
      BY DEF Sound, Shape, Fields, Answered
    <2> HIDE DEF a, v
    <2>5. Shape(v) /\ Held(v)
      <3>1. Shape(v)
        BY <1>1, <2>2 DEF Sound, Shape, Users
      <3> QED BY <1>0, <1>1, <2>2, <2>3, <3>1, NoneAssumption DEF Held
    <2>6. Bound(v) /\ Sending(v) /\ ~v.active
      BY <1>0, <1>1, <2>2, <2>3, <2>4 DEF Sound, Bound, Sending, Runs, BoundTo
    <2>7. Load(v) \subseteq Load(a)
      BY <2>2, <2>3 DEF Load, Runs
    <2> QED BY <1>0, <1>1, <2>1, <2>2, <2>5, <2>6, <2>7, SettledSafe
        DEF Sound, Keeps, t, a
  <1> QED BY <1>2, <1>3

\* A conflict drops the saved request at most.
LEMMA AfterConflictSafe ==
    ASSUME NEW s, Sound(s), Runs(s, "resolve")
    PROVE  LET t == AfterConflict(Answered(s)) IN
           /\ Sound(t) /\ Keeps(s, t)
           /\ t.saved = s.saved \/ t.saved = None
           /\ t.switch = s.switch /\ ~t.synced
  <1> DEFINE a == Answered(s)
             t == AfterConflict(a)
             v == [a EXCEPT !.saved = None, !.phase = "preview", !.known = FALSE,
                            !.preview = None, !.paused = FALSE]
  <1>0. s.auth /\ s.active /\ s.request = None /\ s.switch = None
        /\ s.saved # None /\ s.user = s.saved.user /\ s.user = s.tokens
        /\ s.owner \in {None, s.user} /\ ~s.synced /\ s.user # None
    BY NoneAssumption DEF Sound, Shape, Held, Bound, Sending, Fields, Runs,
      Idle, BoundTo, IsBlank, Users
  <1>1. /\ Sound(a) /\ Keeps(s, a) /\ a.saved = s.saved /\ a.user = s.user
        /\ a.switch = s.switch /\ a.auth = s.auth /\ a.synced = s.synced
    BY <1>0, AnsweredSafe DEF Runs
  <1>2. \/ t = a \/ t = Paused(a) \/ t = Continue(v)
    BY DEF AfterConflict
  <1>3. CASE t = a
    BY <1>0, <1>1, <1>3
  <1>4. CASE t = Paused(a)
    BY <1>0, <1>1, <1>4, PausedSafe DEF Keeps
  <1>5. CASE t = Continue(v)
    <2>1. Shape(v) /\ Held(v)
      BY <1>0, NoneAssumption DEF Sound, Shape, Held, Bound, Sending, Fields,
        Runs, Idle, BoundTo, IsBlank, Users, Answered
    <2>2. Bound(v) /\ Sending(v) /\ ~v.synced
      BY <1>0 DEF Sound, Shape, Held, Bound, Sending, Fields, Runs, Idle,
        BoundTo, IsBlank, Users, Answered
    <2>3. Keeps(s, v) /\ v.saved = None /\ v.switch = s.switch
      BY DEF Sound, Shape, Fields, Runs, Keeps, Load, Answered
    <2> HIDE DEF v
    <2> QED BY <1>5, <2>1, <2>2, <2>3, ContinueSafe DEF Sound, Keeps
  <1> QED BY <1>2, <1>3, <1>4, <1>5

\* The end of a session: a saved request holds the workspace again.
LEMMA ExpiredSafe ==
    ASSUME NEW s, Sound(s), s.worker # None, ~s.worker.answered,
           NEW tokens \in {None, s.tokens}
    PROVE  LET t == Expired(Answered([s EXCEPT !.again = FALSE]), tokens) IN
           /\ Sound(t) /\ Load(t) \subseteq Load(s) /\ t.queue = s.queue
           /\ t.owner = s.owner /\ t.saved = s.saved /\ t.seen = s.seen
           /\ t.tokens = tokens /\ t.dialogs = s.dialogs /\ t.out = s.out
           /\ t.switch = None /\ s.switch = None /\ ~t.synced /\ ~t.auth
           /\ t.user \in {None} \cup (IF t.saved # None THEN {t.saved.user} ELSE {})
  <1> DEFINE t == Expired(Answered([s EXCEPT !.again = FALSE]), tokens)
             b == [Answered([s EXCEPT !.again = FALSE])
                    EXCEPT !.tokens = tokens, !.auth = FALSE, !.synced = FALSE,
                           !.switch = None, !.request = None]
  <1>0. s.out = None /\ s.switch = None
    BY DEF Sound, Held, Idle
  <1>1. /\ b = [f \in Fields |-> b[f]] /\ b.out = None /\ b.switch = None
        /\ b.owner = s.owner /\ b.saved = s.saved /\ b.seen = s.seen
        /\ b.queue = s.queue /\ b.batch = s.batch /\ b.dialogs = s.dialogs
        /\ b.tokens = tokens /\ b.auth = FALSE /\ b.synced = FALSE
        /\ b.request = None
    BY <1>0 DEF Sound, Shape, Fields, Answered
  <1>7. /\ b.worker.answered = TRUE
        /\ b.worker = [kind |-> b.worker.kind, body |-> b.worker.body,
                       answered |-> b.worker.answered]
    BY DEF Sound, Shape, Fields, Answered
  <1>2. t = Activated(Cleared(b))
    BY <1>0 DEF Expired, Sound, Shape, Fields, Answered
  <1> HIDE DEF b
  <1>3. /\ t = [f \in Fields |-> t[f]] /\ t.out = None /\ t.switch = None
        /\ t.owner = s.owner /\ t.saved = s.saved /\ t.seen = s.seen
        /\ t.queue = s.queue /\ t.batch = s.batch /\ t.dialogs = s.dialogs
        /\ t.tokens = tokens /\ t.auth = FALSE /\ t.synced = FALSE
        /\ t.request = None /\ t.worker = b.worker
        /\ t.active = (s.saved # None)
        /\ t.user = IF s.saved # None THEN s.saved.user ELSE None
    <2>1. CASE s.saved = None
      BY <1>1, <1>2, <2>1 DEF Fields, Activated, Cleared
    <2>2. CASE s.saved # None
      <3> DEFINE d == Cleared(b)
      <3>1. /\ d = [f \in Fields |-> d[f]] /\ d.out = None /\ d.switch = None
            /\ d.owner = s.owner /\ d.saved = s.saved /\ d.seen = s.seen
            /\ d.queue = s.queue /\ d.batch = s.batch /\ d.dialogs = s.dialogs
            /\ d.tokens = tokens /\ d.auth = FALSE /\ d.synced = FALSE
            /\ d.request = None /\ d.worker = b.worker
        BY <1>1 DEF Fields, Cleared
      <3>2. t = Begun(d, d.saved.user, "resolve", FALSE)
        BY <1>2, <2>2, <3>1 DEF Activated
      <3> HIDE DEF d, t
      <3> QED BY <2>2, <3>1, <3>2 DEF Fields, Begun
    <2> QED BY <2>1, <2>2
  <1> HIDE DEF t
  <1>4. Shape(t) /\ Held(t)
    BY <1>1, <1>3, <1>7, NoneAssumption DEF Sound, Shape, Held, Users
  <1>5. Bound(t) /\ Sending(t)
    BY <1>1, <1>3, <1>7 DEF Sound, Bound, Sending, Runs, BoundTo
  <1>6. Load(t) \subseteq Load(s)
    BY <1>1, <1>3, <1>7 DEF Load, Runs
  <1> QED BY <1>0, <1>3, <1>4, <1>5, <1>6 DEF Sound, t

-----------------------------------------------------------------------------
(* Sign-out, crash, dialogs.                                                *)

\* What With(Memory, s) and With(Blank, s) leave of s.
LEMMA MergedWith ==
    ASSUME NEW s, s = [f \in Fields |-> s[f]]
    PROVE  /\ LET t == With(Memory, s) IN
              /\ t = [f \in Fields |-> t[f]]
              /\ t.auth = FALSE /\ t.worker = None /\ t.active = FALSE
              /\ t.user = None /\ t.switch = None /\ t.out = None
              /\ t.request = None /\ t.synced = FALSE /\ t.dialogs = <<>>
              /\ t.owner = s.owner /\ t.seen = s.seen /\ t.queue = s.queue
              /\ t.batch = s.batch /\ t.saved = s.saved /\ t.tokens = s.tokens
           /\ LET t == With(Blank, s) IN
              /\ t = [f \in Fields |-> t[f]]
              /\ t.owner = None /\ t.seen = {} /\ t.queue = {}
              /\ t.batch = None /\ t.saved = None
              /\ t.worker = s.worker /\ t.auth = s.auth /\ t.active = s.active
              /\ t.synced = s.synced /\ t.user = s.user /\ t.out = s.out
              /\ t.tokens = s.tokens /\ t.dialogs = s.dialogs
              /\ t.switch = s.switch /\ t.request = s.request
  BY DEF Memory, Blank, Fields, With

LEMMA LeavingSafe ==
    ASSUME NEW s, Sound(s)
    PROVE  LET t == Leaving(s) IN
           /\ Sound(t) /\ Load(t) \subseteq Load(s) /\ t.queue = s.queue
           /\ t.owner = s.owner /\ t.saved = s.saved /\ t.seen = s.seen
           /\ t.tokens = s.tokens /\ t.dialogs = s.dialogs
           /\ t.switch = s.switch /\ t.request = None /\ ~t.synced
           /\ t.out = (IF s.out = None THEN "reset" ELSE s.out)
           /\ t.user \in {s.user, s.owner} /\ t.auth = s.auth
  <1> DEFINE t == Leaving(s)
  <1>1. /\ t = [f \in Fields |-> t[f]] /\ t.worker = None /\ t.auth = s.auth
        /\ t.owner = s.owner /\ t.saved = s.saved /\ t.seen = s.seen
        /\ t.queue = s.queue /\ t.batch = s.batch /\ t.tokens = s.tokens
        /\ t.dialogs = s.dialogs /\ t.switch = s.switch /\ t.request = None
        /\ t.synced = FALSE /\ t.active = TRUE
        /\ t.user = IF s.user # None THEN s.user ELSE s.owner
        /\ t.out = IF s.out = None THEN "reset" ELSE s.out
    <2> DEFINE b == Begun(s, IF s.user # None THEN s.user ELSE s.owner, None, TRUE)
    <2>1. /\ b = [f \in Fields |-> b[f]] /\ b.auth = s.auth
          /\ b.owner = s.owner /\ b.saved = s.saved /\ b.seen = s.seen
          /\ b.queue = s.queue /\ b.batch = s.batch /\ b.tokens = s.tokens
          /\ b.dialogs = s.dialogs /\ b.switch = s.switch /\ b.active = TRUE
          /\ b.user = (IF s.user # None THEN s.user ELSE s.owner)
          /\ b.out = s.out
      BY DEF Sound, Shape, Fields, Begun
    <2>2. t = [b EXCEPT !.out = IF @ = None THEN "reset" ELSE @,
                        !.worker = None, !.request = None, !.synced = FALSE]
      BY DEF Leaving
    <2> HIDE DEF b, t
    <2> QED BY <2>1, <2>2 DEF Fields
  <1> HIDE DEF t
  <1>2. Shape(t)
    BY <1>1 DEF Sound, Shape
  <1>3. Held(t)
    BY <1>1, NoneAssumption DEF Sound, Held, Idle, BoundTo, IsBlank
  <1>4. Bound(t)
    BY <1>1 DEF Sound, Bound, BoundTo
  <1>5. Sending(t)
    BY <1>1 DEF Sound, Sending, Runs
  <1>6. Load(t) \subseteq Load(s)
    BY <1>1 DEF Load, Runs
  <1> QED BY <1>1, <1>2, <1>3, <1>4, <1>5, <1>6 DEF Sound, t

\* The reset: afterwards nothing in the workspace is of the account that leaves.
LEMMA ScrubbedSafe ==
    ASSUME NEW s, Sound(s), s.out # None
    PROVE  LET t == Scrubbed(s) IN
           /\ Sound(t) /\ Load(t) \subseteq Load(s) /\ t.queue \subseteq s.queue
           /\ \/ t.owner = s.owner /\ t.saved = s.saved /\ t.seen = s.seen
              \/ IsBlank(t)
           /\ t.switch = None => IsBlank(t)
           /\ t.tokens = s.tokens /\ t.dialogs = s.dialogs /\ t.switch = s.switch
           /\ t.user = s.user /\ t.auth = s.auth /\ t.request = s.request
           /\ ~t.synced /\ t.out = "credentials"
  <1> DEFINE r == [s EXCEPT !.out = "credentials"]
             t == Scrubbed(s)
             blanks == ~(s.out = "credentials" \/ s.switch # None)
  <1>0. s.active /\ s.worker = None /\ ~s.synced /\ s.request = None
    BY DEF Sound, Held, Sending, Runs
  <1>1. /\ r = [f \in Fields |-> r[f]] /\ r.out = "credentials"
        /\ r.worker = s.worker /\ r.auth = s.auth /\ r.active = s.active
        /\ r.synced = s.synced /\ r.user = s.user /\ r.tokens = s.tokens
        /\ r.dialogs = s.dialogs /\ r.switch = s.switch
        /\ r.request = s.request /\ r.owner = s.owner /\ r.saved = s.saved
        /\ r.seen = s.seen /\ r.queue = s.queue /\ r.batch = s.batch
    BY DEF Sound, Shape, Fields
  <1>2. t = IF blanks THEN With(Blank, r) ELSE r
    BY DEF Scrubbed
  <1> HIDE DEF r
  <1> DEFINE w == With(Blank, r)
  <1>11. /\ w = [f \in Fields |-> w[f]] /\ IsBlank(w)
         /\ w.worker = r.worker /\ w.auth = r.auth /\ w.active = r.active
         /\ w.synced = r.synced /\ w.user = r.user /\ w.out = r.out
         /\ w.tokens = r.tokens /\ w.dialogs = r.dialogs
         /\ w.switch = r.switch /\ w.request = r.request
    BY <1>1, MergedWith DEF IsBlank
  <1>12. (t = w /\ blanks) \/ (t = r /\ ~blanks)
    BY <1>2
  <1> HIDE DEF w
  <1>3. /\ t = [f \in Fields |-> t[f]] /\ t.out = "credentials"
        /\ t.worker = s.worker /\ t.auth = s.auth /\ t.active = s.active
        /\ t.synced = s.synced /\ t.user = s.user /\ t.tokens = s.tokens
        /\ t.dialogs = s.dialogs /\ t.switch = s.switch
        /\ t.request = s.request
    BY <1>1, <1>11, <1>12
  <1>4. /\ blanks => IsBlank(t)
        /\ ~blanks => /\ t.owner = s.owner /\ t.saved = s.saved
                      /\ t.seen = s.seen /\ t.queue = s.queue
                      /\ t.batch = s.batch
    BY <1>1, <1>11, <1>12
  <1> HIDE DEF t
  <1>5. t.switch = None => IsBlank(t)
    BY <1>3, <1>4 DEF Sound, Held, IsBlank
  <1>6. Shape(t)
    BY <1>0, <1>3, <1>4, NoneAssumption DEF Sound, Shape, IsBlank, Users
  <1>7. Held(t)
    BY <1>0, <1>3, <1>4, <1>5 DEF Sound, Held, BoundTo, Idle
  <1>8. Bound(t)
    BY <1>0, <1>3, <1>4 DEF Sound, Bound, BoundTo, IsBlank
  <1>9. Sending(t)
    BY <1>0, <1>3 DEF Sending, Runs
  <1>10. Load(t) \subseteq Load(s) /\ t.queue \subseteq s.queue
    BY <1>0, <1>3, <1>4 DEF Load, Runs, IsBlank
  <1> QED BY <1>0, <1>3, <1>4, <1>5, <1>6, <1>7, <1>8, <1>9, <1>10 DEF Sound, t

LEMMA RestartedSafe ==
    ASSUME NEW s, Sound(s)
    PROVE  LET t == Restarted(s) IN
           /\ Sound(t) /\ Load(t) \subseteq Load(s) /\ t.queue = s.queue
           /\ t.owner = s.owner /\ t.saved = s.saved /\ t.seen = s.seen
           /\ t.tokens = s.tokens /\ t.dialogs = <<>> /\ t.switch = None
           /\ t.user = None /\ ~t.synced /\ t.out = None /\ ~t.auth
  <1> DEFINE m == With(Memory, s)
             t == Restarted(s)
             job == Work("restore", None)
  <1>1. s = [f \in Fields |-> s[f]]
    BY DEF Sound, Shape
  <1>2. t = [m EXCEPT !.worker = job]
    BY DEF Restarted
  <1>3. /\ job.kind = "restore"
        /\ job = [kind |-> job.kind, body |-> job.body, answered |-> job.answered]
        /\ job.answered = FALSE
    BY DEF Work
  <1>4. /\ m = [f \in Fields |-> m[f]]
        /\ m.auth = FALSE /\ m.worker = None /\ m.active = FALSE
        /\ m.user = None /\ m.switch = None /\ m.out = None
        /\ m.request = None /\ m.synced = FALSE /\ m.dialogs = <<>>
        /\ m.owner = s.owner /\ m.seen = s.seen /\ m.queue = s.queue
        /\ m.batch = s.batch /\ m.saved = s.saved /\ m.tokens = s.tokens
    BY <1>1, MergedWith
  <1> HIDE DEF m, job
  <1>5. /\ t = [f \in Fields |-> t[f]] /\ t.worker = job
        /\ t.auth = FALSE /\ t.active = FALSE
        /\ t.user = None /\ t.switch = None /\ t.out = None
        /\ t.request = None /\ t.synced = FALSE /\ t.dialogs = <<>>
        /\ t.owner = s.owner /\ t.seen = s.seen /\ t.queue = s.queue
        /\ t.batch = s.batch /\ t.saved = s.saved /\ t.tokens = s.tokens
    BY <1>2, <1>4 DEF Fields
  <1> HIDE DEF t
  <1>6. Shape(t)
    BY <1>3, <1>5 DEF Sound, Shape, Users
  <1>7. Held(t) /\ Bound(t)
    BY <1>5, NoneAssumption DEF Sound, Held, Bound
  <1>8. Sending(t)
    BY <1>3, <1>5 DEF Sending, Runs
  <1>9. Load(t) \subseteq Load(s)
    BY <1>3, <1>5 DEF Load, Runs
  <1> QED BY <1>5, <1>6, <1>7, <1>8, <1>9 DEF Sound, t

LEMMA SignedOutSafe ==
    ASSUME NEW s, Sound(s), s.out # None
    PROVE  LET t == SignedOut(s) IN
           /\ Sound(t) /\ Load(t) \subseteq Load(s) /\ t.queue = s.queue
           /\ t.owner = s.owner /\ t.saved = s.saved /\ t.seen = s.seen
           /\ t.tokens = None /\ t.dialogs = s.dialogs /\ t.switch = None
           /\ ~t.synced /\ t.out = None /\ ~t.auth
           /\ t.user = IF t.saved # None THEN t.saved.user ELSE None
  <1> DEFINE t == SignedOut(s)
             c == Cleared([s EXCEPT !.tokens = None, !.auth = FALSE, !.out = None,
                                    !.switch = None, !.synced = FALSE])
  <1>0. s.worker = None /\ s.request = None
    BY DEF Sound, Held, Sending, Runs
  <1>1. /\ c = [f \in Fields |-> c[f]] /\ c.worker = None /\ c.auth = FALSE
        /\ c.user = None /\ c.switch = None /\ c.out = None
        /\ c.request = None /\ c.synced = FALSE /\ c.dialogs = s.dialogs
        /\ c.owner = s.owner /\ c.seen = s.seen /\ c.queue = s.queue
        /\ c.batch = s.batch /\ c.saved = s.saved /\ c.tokens = None
        /\ c.active = FALSE
    BY <1>0 DEF Sound, Shape, Fields, Cleared
  <1>2. t = Activated(c)
    BY DEF SignedOut
  <1> HIDE DEF c
  <1>3. /\ t = [f \in Fields |-> t[f]] /\ t.worker = None /\ t.auth = FALSE
        /\ t.switch = None /\ t.out = None
        /\ t.request = None /\ t.synced = FALSE /\ t.dialogs = s.dialogs
        /\ t.owner = s.owner /\ t.seen = s.seen /\ t.queue = s.queue
        /\ t.batch = s.batch /\ t.saved = s.saved /\ t.tokens = None
        /\ t.active = (s.saved # None)
        /\ t.user = IF s.saved # None THEN s.saved.user ELSE None
    <2>1. CASE s.saved = None
      BY <1>1, <1>2, <2>1 DEF Activated
    <2>2. CASE s.saved # None
      <3>1. t = Begun(c, c.saved.user, "resolve", FALSE)
        BY <1>1, <1>2, <2>2 DEF Activated
      <3> HIDE DEF t
      <3> QED BY <1>1, <2>2, <3>1 DEF Fields, Begun
    <2> QED BY <2>1, <2>2
  <1> HIDE DEF t
  <1>4. Shape(t) /\ Held(t)
    BY <1>3, NoneAssumption DEF Sound, Shape, Held, Users
  <1>5. Bound(t) /\ Sending(t)
    BY <1>3 DEF Sound, Bound, Sending, Runs, BoundTo
  <1>6. Load(t) \subseteq Load(s)
    BY <1>3 DEF Load, Runs
  <1> QED BY <1>3, <1>4, <1>5, <1>6 DEF Sound, t

LEMMA ClosedSafe ==
    ASSUME NEW s, Sound(s), Asked(s), s.dialogs # <<>>
    PROVE  LET t == Closed(s) IN
           /\ Sound(t) /\ Asked(t) /\ Load(t) = Load(s) /\ t.queue = s.queue
           /\ t.owner = s.owner /\ t.saved = s.saved /\ t.seen = s.seen
           /\ t.tokens = s.tokens /\ t.switch = s.switch /\ t.user = s.user
           /\ t.synced = s.synced /\ t.waiting = s.waiting
           /\ t.request = s.request /\ t.out = s.out /\ s.out = None
           /\ t.auth = s.auth /\ t.active = s.active /\ t.worker = s.worker
           /\ Last(s.dialogs).kind # "prompt" => t.dialogs = <<>>
  <1> DEFINE t == Closed(s)
             d == Front(s.dialogs)
             n == Len(s.dialogs)
  <1>0. s.out = None
    BY DEF Asked
  <1>1. n \in Nat /\ n # 0
    BY DEF Asked
  <1>2. d = [i \in 1..n - 1 |-> s.dialogs[i]] /\ Len(d) = n - 1
    BY <1>1 DEF Front
  <1>3. Last(s.dialogs) = s.dialogs[n]
    BY DEF Last
  <1>4. Last(s.dialogs).kind # "prompt" => n = 1
    <2>1. n \in 1..n /\ (n > 1 => s.dialogs[n].kind = "prompt")
      BY <1>1 DEF Asked
    <2> HIDE DEF n
    <2>2. n > 1 \/ n = 1
      BY <1>1
    <2> QED BY <1>3, <2>1, <2>2
  <1>5. n = 1 => d = <<>>
    BY <1>1, <1>2
  <1>6. /\ t.dialogs = d /\ t = [f \in Fields |-> t[f]]
        /\ t.worker = s.worker /\ t.auth = s.auth /\ t.active = s.active
        /\ t.synced = s.synced /\ t.user = s.user /\ t.tokens = s.tokens
        /\ t.out = s.out /\ t.switch = s.switch /\ t.waiting = s.waiting
        /\ t.request = s.request /\ t.owner = s.owner /\ t.saved = s.saved
        /\ t.seen = s.seen /\ t.queue = s.queue /\ t.batch = s.batch
    BY DEF Sound, Shape, Fields, Closed
  <1> HIDE DEF d, t
  <1>7. s.synced \in BOOLEAN /\ (s.synced => s.auth /\ ~s.active)
    BY DEF Sound, Shape, Sending
  <1>8. Sound(t) /\ Load(t) = Load(s)
    BY <1>6, <1>7, StaysSafe DEF Stays
  <1>9. Asked(t)
    <2>1. Len(d) \in Nat /\ d = [i \in 1..Len(d) |-> d[i]]
      BY <1>1, <1>2
    <2>2. \A i \in 1..Len(d) : i \in 1..n /\ d[i] = s.dialogs[i]
      BY <1>1, <1>2
    <2> HIDE DEF n
    <2> QED BY <1>0, <1>6, <2>1, <2>2 DEF Asked, n
  <1> QED BY <1>0, <1>4, <1>5, <1>6, <1>8, <1>9 DEF t

-----------------------------------------------------------------------------
(* The inductive invariant.                                                 *)

\* The ledger of edits: whose each one is, the ones a late worker carries that
\* nothing else may touch, and where such a worker took others.
Barred ==
    IF late = None \/ (app.out = "reset" /\ app.switch = None) THEN {}
    ELSE late.job.body.edits

Ledger(w) == [who |-> w, bar |-> Barred, astray |-> astray]

\* Whose an edit on the device may be: nobody's yet, of the owner of the
\* workspace, or of a saved request that its account has stored already.
Home(s, c, w, e) ==
    /\ e \in DOMAIN w.who /\ e \notin w.bar
    /\ \/ w.who[e] \in {None, s.owner}
       \/ s.saved # None /\ w.who[e] = s.saved.user /\ c[s.saved.user].done = s.saved

\* An item of the history of account a: its own, or one that went astray.
Item(a, w, e) ==
    IF e \in Accounts THEN e = a
    ELSE /\ e \in DOMAIN w.who /\ w.who[e] # None
         /\ w.who[e] = a \/ <<e, a>> \in w.astray

\* What the workspace holds, and what it has seen of its owner's history.
Mine(s, c, w) ==
    /\ \A e \in Load(s) : Home(s, c, w, e)
    /\ s.seen # {} => s.owner # None
    /\ \A e \in s.seen : Item(s.owner, w, e)

World(c, w) ==
    /\ c = [a \in Accounts |-> c[a]]
    /\ \A a \in Accounts :
          c[a] = [rev |-> c[a].rev, items |-> c[a].items, done |-> c[a].done]
    /\ \A a \in Accounts : \A e \in c[a].items : Item(a, w, e)
    /\ w.who \in Seq(Users) /\ Len(w.who) <= MaxEdits

Marked(s) ==
    s.synced => s.auth /\ (s.queue = {} \/ s.waiting \/ s.request # None)

\* Nothing is bound to the account that has left.
Gone(s, l) ==
    /\ l \in Users
    /\ l # None =>
        /\ ~s.auth /\ l \notin {s.owner, s.user}
        /\ s.saved # None => s.saved.user # l

Good(s, c, w, l) ==
    Sound(s) /\ Asked(s) /\ World(c, w) /\ Mine(s, c, w) /\ Marked(s) /\ Gone(s, l)

\* What a late worker carries is nobody's yet, or of the user it works for.
Carried ==
    late # None =>
        /\ late.job.kind \in {"sync", "resolve"}
        /\ \A e \in late.job.body.edits :
              e \in DOMAIN whose /\ whose[e] \in {None, late.job.body.user}

IInv == Good(app, cloud, Ledger(whose), left) /\ Carried

\* A step keeps the ledger if it gives none of the edits a late worker carries
\* away, and the sign-out under way if there is one.
Kept ==
    /\ Good(app', cloud', Ledger(whose'), left')
    /\ \A e \in DOMAIN whose :
          /\ e \in DOMAIN whose'
          /\ whose'[e] = whose[e] \/ (e \in Load(app) /\ app.worker # None)
    /\ app.out # None => app'.out = app.out /\ app'.switch = app.switch

LEMMA EditsApart ==
    ASSUME NEW w, w \in Seq(Users), Len(w) <= MaxEdits
    PROVE  /\ DOMAIN w \subseteq Edits /\ DOMAIN w \cap Accounts = {}
           /\ DOMAIN w = 1..Len(w)
  <1>1. Len(w) \in Nat /\ DOMAIN w = 1..Len(w)
    OBVIOUS
  <1>2. 1..Len(w) \subseteq 1..MaxEdits
    BY <1>1, BoundAssumption
  <1> QED BY <1>1, <1>2, NameAssumption DEF Edits

LEMMA MineKept ==
    ASSUME NEW s, NEW t, NEW c, NEW w, Mine(s, c, w),
           Load(t) \subseteq Load(s), t.owner = s.owner,
           t.seen \subseteq s.seen,
           \/ t.saved = s.saved \/ s.saved = None
           \/ c[s.saved.user].done # s.saved
    PROVE  Mine(t, c, w)
  BY DEF Mine, Home

LEMMA MineBlank ==
    ASSUME NEW s, NEW c, NEW w, Sound(s), IsBlank(s)
    PROVE  Mine(s, c, w)
  BY DEF Mine, Load, IsBlank, Sound, Sending, Bound

\* The handlers that keep the workspace, its dialogs and the sign-out.
LEMMA GoodKept ==
    ASSUME NEW s, NEW t, NEW c, NEW w, NEW l, Good(s, c, w, l),
           Sound(t), Keeps(s, t),
           \/ t.saved = s.saved
           \/ s.saved = None /\ t.saved.user = s.user
           \/ t.saved = None /\ c[s.saved.user].done # s.saved,
           t.switch = s.switch, t.auth = s.auth,
           t.user \in {s.user, BoundTo(s)}, Marked(t)
    PROVE  Good(t, c, w, l)
  <1>1. Mine(t, c, w)
    BY MineKept DEF Good, Keeps
  <1>2. Asked(t)
    BY DEF Good, Keeps, Asked
  <1>3. Gone(t, l)
    BY NoneAssumption DEF Good, Gone, Keeps, BoundTo
  <1> QED BY <1>1, <1>2, <1>3 DEF Good

\* Nothing depends on an edit being barred, or on one not having gone astray.
LEMMA LedgerLess ==
    ASSUME NEW s, NEW c, NEW v, NEW w, v.who = w.who,
           w.astray \subseteq v.astray, v.bar \subseteq w.bar
    PROVE  /\ Mine(s, c, w) => Mine(s, c, v)
           /\ World(c, w) => World(c, v)
  BY DEF World, Mine, Home, Item

LEMMA BarredWhile ==
    ASSUME Sound(app), late # None, app.worker # None \/ app.out = None
    PROVE  Barred = late.job.body.edits
  BY NoneAssumption DEF Sound, Held, Barred

\* Edits change hands only while they are on their way to an account.
LEMMA CarriedKept ==
    ASSUME IInv, late' = late,
           \A e \in DOMAIN whose :
              /\ e \in DOMAIN whose'
              /\ whose'[e] = whose[e] \/ (e \in Load(app) /\ app.worker # None)
    PROVE  Carried'
  <1>1. ASSUME late # None, NEW e \in late.job.body.edits
        PROVE  e \in DOMAIN whose /\ e \in DOMAIN whose' /\ whose'[e] = whose[e]
    <2>1. e \in DOMAIN whose
      BY <1>1 DEF IInv, Carried
    <2>2. ~(e \in Load(app) /\ app.worker # None)
      <3>1. app.worker # None => e \in Barred
        BY <1>1, BarredWhile DEF IInv, Good
      <3> QED BY <3>1 DEF IInv, Good, Mine, Home, Ledger
    <2> QED BY <2>1, <2>2
  <1> QED BY <1>1 DEF IInv, Carried

LEMMA KeptSafe ==
    ASSUME IInv, Kept, UNCHANGED loose
    PROVE  IInv'
  <1>1. late' = late /\ astray' = astray
    BY DEF loose
  <1>2. Barred' \subseteq Barred
    BY <1>1, NoneAssumption DEF Kept, Barred
  <1> DEFINE w == Ledger(whose')
             v == [who |-> whose', bar |-> Barred', astray |-> astray']
  <1>3. v.who = w.who /\ w.astray \subseteq v.astray /\ v.bar \subseteq w.bar
    BY <1>1, <1>2 DEF Ledger
  <1>4. Good(app', cloud', w, left')
    BY DEF Kept
  <1> HIDE DEF v, w
  <1>5. Good(app', cloud', v, left')
    BY <1>3, <1>4, LedgerLess DEF Good
  <1>6. Carried'
    BY <1>1, CarriedKept DEF Kept
  <1> QED BY <1>5, <1>6 DEF IInv, Ledger, v

\* A request takes effect in the account it is made for.
LEMMA ReachesSafe ==
    ASSUME Good(app, cloud, Ledger(whose), left), Reaches(app.tokens, app.worker),
           app.worker # None, ~app.worker.answered
    PROVE  /\ World(cloud', Ledger(whose')) /\ Mine(app, cloud', Ledger(whose'))
           /\ \A e \in DOMAIN whose :
                 e \in DOMAIN whose' /\ (whose'[e] = whose[e] \/ e \in Load(app))
  <1> DEFINE w == app.worker
             a == app.tokens
             n == Stored(cloud[a], w)
             sync == Runs(app, "sync")
             resolve == Runs(app, "resolve")
  <1> USE DEF Good
  <1>1. CASE UNCHANGED <<cloud, whose>>
    <2>1. cloud' = cloud /\ whose' = whose
      BY <1>1
    <2> QED BY <2>1
  <1>2. CASE /\ a # None /\ cloud' = [cloud EXCEPT ![a] = n]
             /\ whose' = [e \in DOMAIN whose |->
                           IF whose[e] = None /\ e \in n.items THEN a ELSE whose[e]]
    <2>1. a \in Accounts
      BY <1>2 DEF Sound, Shape, Users
    <2>2. sync => /\ a = app.owner /\ ~resolve
                  /\ w.body.edits \subseteq Load(app)
      BY DEF Sound, Sending, Runs, Load
    <2>3. resolve => /\ w.body = app.saved /\ app.saved # None
                     /\ a = app.saved.user /\ ~app.synced
                     /\ app.saved.edits \subseteq Load(app)
                     /\ app.owner \in {None, a}
      <3>1. resolve => /\ w.body = app.saved /\ app.saved # None
                       /\ app.auth /\ app.active /\ app.switch = None
        BY DEF Sound, Sending, Held, Idle, Runs
      <3>2. resolve => app.saved.user \in Accounts
        BY <3>1 DEF Sound, Shape
      <3> QED BY <1>2, <3>1, <3>2, NoneAssumption
          DEF Sound, Sending, Bound, BoundTo, Load
    <2> DEFINE sent == IF sync THEN w.body.edits
                       ELSE IF resolve THEN app.saved.edits ELSE {}
    <2>4. sent \subseteq Load(app)
      BY <2>2, <2>3
    <2>5. /\ n = [rev |-> n.rev, items |-> n.items, done |-> n.done]
          /\ n.items \subseteq cloud[a].items \cup sent
          /\ resolve \/ cloud[a].items \subseteq n.items
          /\ n.done = cloud[a].done \/ resolve
          /\ resolve => n = cloud[a] \/ n.done = app.saved
          /\ ~sync /\ ~resolve => n = cloud[a]
      <3>1. cloud[a] = [rev |-> cloud[a].rev, items |-> cloud[a].items,
                        done |-> cloud[a].done]
        BY <2>1 DEF World
      <3>2. CASE sync
        BY <2>2, <3>1, <3>2 DEF Stored, Runs
      <3>3. CASE resolve
        BY <2>3, <3>1, <3>3 DEF Stored, Runs
      <3>4. CASE ~sync /\ ~resolve
        BY <3>1, <3>4 DEF Stored, Runs
      <3> QED BY <3>2, <3>3, <3>4
    <2> HIDE DEF n, sent
    <2>6. \A e \in cloud[a].items : Item(a, Ledger(whose), e)
      BY <2>1 DEF World
    <2>7. \A e \in sent : e \in DOMAIN whose /\ whose[e] \in {None, a}
      BY <1>2, <2>2, <2>3, <2>4 DEF Mine, Home, Ledger, Sound, Bound, sent
    <2>8. DOMAIN whose \subseteq Edits /\ DOMAIN whose \cap Accounts = {}
      BY EditsApart DEF World, Ledger
    <2>9. /\ DOMAIN whose' = DOMAIN whose
          /\ \A e \in DOMAIN whose :
                /\ e \in sent /\ e \in n.items => whose'[e] = a
                /\ \/ whose'[e] = whose[e]
                   \/ /\ whose[e] = None /\ whose'[e] = a
                      /\ e \in sent \ cloud[a].items /\ e \in n.items
      BY <1>2, <2>1, <2>5, <2>6, <2>7, <2>8, NoneAssumption DEF Item, Ledger
    <2>10. World(cloud', Ledger(whose'))
      <3>1. /\ cloud' = [b \in Accounts |-> cloud'[b]]
            /\ \A b \in Accounts :
                  cloud'[b] = IF b = a THEN n ELSE cloud[b]
        BY <1>2, <2>1 DEF World
      <3>2. whose' \in Seq(Users) /\ Len(whose') <= MaxEdits
        <4>1. whose \in Seq(Users) /\ DOMAIN whose = 1..Len(whose)
              /\ Len(whose) \in Nat
          BY EditsApart DEF World, Ledger
        <4>2. whose' \in [1..Len(whose) -> Users]
          BY <1>2, <2>1, <4>1 DEF Users
        <4> QED BY <4>1, <4>2 DEF World, Ledger
      <3>3. \A b \in Accounts : \A e \in cloud'[b].items : Item(b, Ledger(whose'), e)
        <4>1. ASSUME NEW b \in Accounts, b # a, NEW e \in cloud'[b].items
              PROVE  Item(b, Ledger(whose'), e)
          <5>1. Item(b, Ledger(whose), e)
            BY <3>1, <4>1 DEF World
          <5> QED BY <2>9, <4>1, <5>1 DEF Item, Ledger
        <4>2. ASSUME NEW e \in n.items
              PROVE  Item(a, Ledger(whose'), e)
          <5>1. CASE e \in sent
            BY <2>1, <2>7, <2>8, <2>9, <4>2, <5>1, NoneAssumption DEF Item, Ledger
          <5>2. CASE e \notin sent
            <6>1. Item(a, Ledger(whose), e)
              BY <2>5, <2>6, <4>2, <5>2
            <6> QED BY <2>9, <6>1 DEF Item, Ledger
          <5> QED BY <5>1, <5>2
        <4> QED BY <2>1, <3>1, <4>1, <4>2
      <3>4. \A b \in Accounts :
               cloud'[b] = [rev |-> cloud'[b].rev, items |-> cloud'[b].items,
                            done |-> cloud'[b].done]
        BY <2>5, <3>1 DEF World
      <3> QED BY <3>1, <3>2, <3>3, <3>4 DEF World, Ledger
    <2>11. Mine(app, cloud', Ledger(whose'))
      <3>1. ASSUME NEW e \in Load(app) PROVE Home(app, cloud', Ledger(whose'), e)
        <4>1. Home(app, cloud, Ledger(whose), e)
          BY DEF Mine
        <4>2. CASE whose'[e] = whose[e] /\ whose[e] \in {None, app.owner}
          BY <2>9, <4>1, <4>2 DEF Home, Ledger
        <4>3. CASE /\ whose'[e] = whose[e] /\ app.saved # None
                   /\ whose[e] = app.saved.user
                   /\ cloud[app.saved.user].done = app.saved
          <5>1. cloud'[app.saved.user].done = app.saved
            BY <1>2, <2>1, <2>3, <2>5, <4>3 DEF World, Sound, Shape
          <5> QED BY <2>9, <4>1, <4>3, <5>1 DEF Home, Ledger
        <4>4. CASE /\ whose[e] = None /\ whose'[e] = a
                   /\ e \in sent \ cloud[a].items /\ e \in n.items
          <5>1. sync \/ (resolve /\ n.done = app.saved)
            BY <2>5, <4>4
          <5>2. cloud'[a].done = n.done
            BY <1>2, <2>1 DEF World
          <5> QED BY <2>2, <2>3, <2>9, <4>1, <4>4, <5>1, <5>2 DEF Home, Ledger
        <4> QED BY <2>9, <4>1, <4>2, <4>3, <4>4 DEF Home, Ledger
      <3>2. ASSUME NEW e \in app.seen PROVE Item(app.owner, Ledger(whose'), e)
        <4>1. Item(app.owner, Ledger(whose), e) /\ app.owner # None
          BY DEF Mine
        <4> QED BY <2>9, <4>1 DEF Item, Ledger
      <3> QED BY <3>1, <3>2 DEF Mine
    <2> QED BY <2>4, <2>9, <2>10, <2>11
  <1>3. UNCHANGED <<cloud, whose>> \/
        /\ a # None /\ cloud' = [cloud EXCEPT ![a] = n]
        /\ whose' = [e \in DOMAIN whose |->
                      IF whose[e] = None /\ e \in n.items THEN a ELSE whose[e]]
    BY NoneAssumption DEF Reaches
  <1> QED BY <1>1, <1>2, <1>3

\* The request of a resolution is the saved one, of the user signed in.
LEMMA SavedSent ==
    ASSUME Sound(app), Runs(app, "resolve"), app.tokens # None
    PROVE  /\ app.auth /\ app.active /\ app.saved # None
           /\ app.saved = app.worker.body /\ app.tokens = app.saved.user
           /\ app.tokens \in Accounts /\ app.owner \in {None, app.tokens}
  <1>1. /\ app.saved = app.worker.body /\ app.saved # None
        /\ app.auth /\ app.active /\ app.switch = None
    BY DEF Sound, Sending, Held, Idle, Runs
  <1>2. app.saved.user \in Accounts
    BY <1>1 DEF Sound, Shape
  <1> QED BY <1>1, <1>2, NoneAssumption DEF Sound, Bound, BoundTo

LEMMA AfterPreviewGood ==
    ASSUME NEW s, NEW preview, NEW c, NEW w, NEW l, Sound(s), Asked(s),
           World(c, w), Mine(s, c, w), Marked(s), Gone(s, l),
           NEW t \in AfterPreview(s, preview)
    PROVE  Good(t, c, w, l)
  <1>1. /\ Sound(t) /\ Load(t) \subseteq Load(s) /\ t.tokens = s.tokens
        /\ t.owner = s.owner /\ t.seen = s.seen /\ t.queue = s.queue
        /\ \/ t.saved = s.saved
           \/ s.saved = None /\ t.saved.user = s.user
        /\ t.auth = s.auth /\ t.user = s.user
        /\ t.out = s.out /\ t.switch = s.switch /\ t.synced = s.synced
        /\ t.waiting = s.waiting /\ t.request = s.request
        /\ \/ t.dialogs = s.dialogs
           \/ t.dialogs = Append(s.dialogs, Prompt(preview)) /\ s.out = None
    BY AfterPreviewSafe
  <1>2. Mine(t, c, w)
    BY <1>1, MineKept
  <1>3. Asked(t)
    <2>1. CASE t.dialogs = s.dialogs
      BY <1>1, <2>1 DEF Asked
    <2>2. CASE t.dialogs = Append(s.dialogs, Prompt(preview)) /\ s.out = None
      <3> DEFINE n == Len(s.dialogs)
      <3>1. n \in Nat /\ s.dialogs = [i \in 1..n |-> s.dialogs[i]]
        BY DEF Asked
      <3>2. t.dialogs = [i \in 1..n + 1 |->
                           IF i = n + 1 THEN Prompt(preview) ELSE s.dialogs[i]]
        BY <2>2, <3>1
      <3>3. Len(t.dialogs) = n + 1
        BY <3>1, <3>2
      <3>4. Prompt(preview).kind = "prompt"
        BY DEF Prompt
      <3> QED BY <1>1, <2>2, <3>1, <3>2, <3>3, <3>4 DEF Asked
    <2> QED BY <1>1, <2>1, <2>2
  <1>4. Marked(t) /\ Gone(t, l)
    BY <1>1 DEF Marked, Gone
  <1> QED BY <1>1, <1>2, <1>3, <1>4 DEF Good

-----------------------------------------------------------------------------
(* Every step keeps the invariant: sessions and requests.                   *)

\* Running(kinds) in the words of the invariant.
LEMMA RunningOne ==
    ASSUME NEW kinds, Running(kinds), Sound(app)
    PROVE  /\ app.worker # None /\ ~app.worker.answered
           /\ app.worker.kind \in kinds
           /\ app.switch = None /\ app.out = None
  BY DEF Running, Sound, Held, Idle

LEMMA LoginSafe == IInv /\ Login => Kept
  <1> SUFFICES ASSUME IInv, Login PROVE Kept
    OBVIOUS
  <1>0. /\ Sound(app) /\ Asked(app) /\ World(cloud, Ledger(whose))
        /\ Mine(app, cloud, Ledger(whose)) /\ Marked(app) /\ Gone(app, left)
        /\ Good(app, cloud, Ledger(whose), left)
    BY DEF IInv, Good
  <1>1. PICK a \in Accounts : app' = [app EXCEPT !.worker = Work("login", a)]
    BY DEF Login
  <1> DEFINE job == Work("login", a)
  <1>2. /\ job = [kind |-> job.kind, body |-> job.body, answered |-> job.answered]
        /\ job.kind = "login" /\ job.body = a /\ job.answered = FALSE
    BY DEF Work
  <1>11. app' = [app EXCEPT !.worker = job]
    BY <1>1
  <1> HIDE DEF job
  <1>3. ~app.auth /\ app.worker = None /\ app.out = None
    BY DEF Login
  <1> DEFINE t == app'
  <1>10. /\ t = [f \in Fields |-> t[f]] /\ t.worker = job
         /\ t.auth = app.auth /\ t.active = app.active /\ t.synced = app.synced
         /\ t.user = app.user /\ t.tokens = app.tokens /\ t.owner = app.owner
         /\ t.seen = app.seen /\ t.queue = app.queue /\ t.batch = app.batch
         /\ t.saved = app.saved /\ t.out = app.out /\ t.switch = app.switch
         /\ t.request = app.request /\ t.dialogs = app.dialogs
    BY <1>0, <1>11 DEF Sound, Shape, Fields
  <1> HIDE DEF t
  <1>4. Shape(t) /\ Held(t) /\ Bound(t)
    BY <1>0, <1>2, <1>3, <1>10
    DEF Sound, Shape, Held, Bound, BoundTo, IsBlank, Idle
  <1>5. Sending(t)
    BY <1>0, <1>2, <1>3, <1>10 DEF Sound, Sending, Runs
  <1>6. Keeps(app, t)
    BY <1>2, <1>10 DEF Runs, Keeps, Load
  <1>7. ~t.synced
    BY <1>0, <1>3, <1>10 DEF Sound, Sending
  <1>8. cloud' = cloud /\ whose' = whose /\ left' = left
    BY DEF Login
  <1>9. Good(t, cloud, Ledger(whose), left)
    BY <1>0, <1>4, <1>5, <1>6, <1>7, <1>10, GoodKept DEF Sound, Marked
  <1> QED BY <1>3, <1>8, <1>9 DEF Kept, t

LEMMA SignInAnsweredSafe == IInv /\ SignInAnswered => Kept
  <1> SUFFICES ASSUME IInv, SignInAnswered PROVE Kept
    OBVIOUS
  <1>0. /\ Sound(app) /\ Asked(app) /\ World(cloud, Ledger(whose))
        /\ Mine(app, cloud, Ledger(whose)) /\ Marked(app) /\ Gone(app, left)
        /\ Good(app, cloud, Ledger(whose), left)
    BY DEF IInv, Good
  <1> DEFINE a == IF app.worker.kind = "login" THEN app.worker.body ELSE app.tokens
             s == [Answered(app) EXCEPT !.tokens = a, !.again = FALSE]
             r == [s EXCEPT !.auth = TRUE]
  <1>1. /\ app' = IF a = None THEN s ELSE SignedIn(r, a)
        /\ left' = IF a = None THEN left ELSE None
        /\ cloud' = cloud /\ whose' = whose
    BY DEF SignInAnswered
  <1>2. /\ app.worker # None /\ ~app.worker.answered
        /\ app.worker.kind \in {"login", "restore"}
        /\ app.switch = None /\ app.out = None /\ app.request = None
    BY <1>0, RunningOne DEF SignInAnswered, Sound, Sending, Runs
  <1>3. a \in Users /\ (a = None => a = app.tokens)
    BY <1>0, <1>2, NoneAssumption DEF Sound, Shape, Sending, Runs, Users
  <1> HIDE DEF a
  <1> DEFINE q == Answered(app)
  <1>6. /\ q = [f \in Fields |-> q[f]]
        /\ q.worker = [kind |-> q.worker.kind, body |-> q.worker.body,
                       answered |-> q.worker.answered]
        /\ q.worker.kind = app.worker.kind /\ q.worker.answered = TRUE
        /\ q.auth = app.auth /\ q.active = app.active /\ q.synced = app.synced
        /\ q.user = app.user /\ q.tokens = app.tokens /\ q.owner = app.owner
        /\ q.seen = app.seen /\ q.queue = app.queue /\ q.batch = app.batch
        /\ q.saved = app.saved /\ q.out = app.out /\ q.switch = app.switch
        /\ q.request = app.request /\ q.waiting = app.waiting
        /\ q.dialogs = app.dialogs
    BY <1>0, <1>2, AnsweredFields DEF Sound
  <1>7. s = [q EXCEPT !.tokens = a, !.again = FALSE] /\ r = [s EXCEPT !.auth = TRUE]
    OBVIOUS
  <1> HIDE DEF q, s, r
  <1>4. CASE a = None
    <2>1. /\ s = [f \in Fields |-> s[f]] /\ s.worker = q.worker
          /\ s.auth = app.auth /\ s.active = app.active /\ s.synced = app.synced
          /\ s.user = app.user /\ s.tokens = app.tokens /\ s.owner = app.owner
          /\ s.seen = app.seen /\ s.queue = app.queue /\ s.batch = app.batch
          /\ s.saved = app.saved /\ s.out = app.out /\ s.switch = app.switch
          /\ s.request = app.request /\ s.waiting = app.waiting
          /\ s.dialogs = app.dialogs
      BY <1>3, <1>4, <1>6, <1>7 DEF Fields
    <2>2. Shape(s) /\ Held(s) /\ Bound(s)
      BY <1>0, <1>2, <1>6, <2>1 DEF Sound, Shape, Held, Bound, BoundTo, IsBlank
    <2>3. Sending(s) /\ Keeps(app, s)
      BY <1>0, <1>2, <1>6, <2>1 DEF Sound, Sending, Runs, Keeps, Load
    <2>4. Good(s, cloud, Ledger(whose), left)
      BY <1>0, <2>1, <2>2, <2>3, GoodKept DEF Sound, Marked
    <2> QED BY <1>1, <1>2, <1>4, <2>4 DEF Kept, s
  <1>5. CASE a # None
    <2>1. a \in Accounts
      BY <1>3, <1>5 DEF Users
    <2>2. /\ r = [f \in Fields |-> r[f]]
          /\ r.worker = [kind |-> r.worker.kind, body |-> r.worker.body,
                         answered |-> r.worker.answered]
          /\ r.worker.answered = TRUE /\ r.tokens = a /\ r.auth = TRUE
          /\ r.active = app.active /\ r.synced = app.synced
          /\ r.owner = app.owner /\ r.user = app.user /\ r.queue = app.queue
          /\ r.batch = app.batch /\ r.saved = app.saved /\ r.out = app.out
          /\ r.request = app.request /\ r.switch = app.switch
          /\ r.seen = app.seen /\ r.dialogs = app.dialogs
      BY <1>6, <1>7 DEF Fields
    <2>3. Admitted(r, a)
      BY <1>0, <1>2, <2>1, <2>2 DEF Sound, Shape, Bound, Idle, Users, Admitted
    <2> DEFINE t == SignedIn(r, a)
    <2>4. /\ Sound(t) /\ Keeps(r, t) /\ t.saved = r.saved
          /\ t.synced => t.waiting \/ t.request # None
      BY <2>3, SignedInSafe
    <2> HIDE DEF t
    <2>5. Load(r) \subseteq Load(app)
      BY <2>2 DEF Load, Runs
    <2>6. Mine(t, cloud, Ledger(whose))
      BY <1>0, <2>2, <2>4, <2>5, MineKept DEF Keeps
    <2>7. Asked(t)
      BY <1>0, <1>2, <2>2, <2>4 DEF Asked, Keeps
    <2>8. Marked(t) /\ Gone(t, None)
      BY <2>4 DEF Marked, Gone, Sound, Sending, Users
    <2> QED BY <1>0, <1>1, <1>2, <1>5, <2>4, <2>6, <2>7, <2>8
        DEF Kept, Good, t, r
  <1> QED BY <1>4, <1>5

LEMMA SignInFailsSafe == IInv /\ SignInFails => Kept
  <1> SUFFICES ASSUME IInv, SignInFails PROVE Kept
    OBVIOUS
  <1>0. /\ Sound(app) /\ Asked(app) /\ World(cloud, Ledger(whose))
        /\ Mine(app, cloud, Ledger(whose)) /\ Marked(app) /\ Gone(app, left)
        /\ Good(app, cloud, Ledger(whose), left)
    BY DEF IInv, Good
  <1> DEFINE s == CloudFailure(Answered(app))
  <1>1. /\ app.worker # None /\ ~app.worker.answered
        /\ app.worker.kind \in {"login", "restore"}
        /\ app.switch = None /\ app.out = None
    BY <1>0, RunningOne DEF SignInFails
  <1>2. /\ Sound(s) /\ Keeps(app, s) /\ s.saved = app.saved
        /\ s.switch = app.switch /\ s.auth = app.auth /\ ~s.synced
        /\ s.user = app.user /\ s.request = None
    BY <1>0, <1>1, FailedSafe
  <1>3. s.worker.answered = TRUE
    <2> DEFINE q == Answered(app)
    <2>1. q = [f \in Fields |-> q[f]] /\ q.worker.answered = TRUE
      BY <1>0, <1>1, AnsweredFields DEF Sound
    <2>2. s = CloudFailure(q)
      OBVIOUS
    <2> HIDE DEF q
    <2> QED BY <2>1, <2>2 DEF Fields, CloudFailure
  <1>4. cloud' = cloud /\ whose' = whose /\ left' = left
    BY DEF SignInFails
  <1>5. \/ /\ app.worker.kind = "login"
           /\ \E a \in {app.tokens, app.worker.body} : app' = [s EXCEPT !.tokens = a]
        \/ app' = [s EXCEPT !.again = TRUE, !.auth = FALSE]
    BY DEF SignInFails
  <1> HIDE DEF s
  <1> DEFINE t == app'
  <1>6. /\ t = [f \in Fields |-> t[f]] /\ t.worker = s.worker
        /\ t.active = s.active /\ t.synced = s.synced /\ t.user = s.user
        /\ t.owner = s.owner /\ t.queue = s.queue /\ t.batch = s.batch
        /\ t.saved = s.saved /\ t.out = s.out /\ t.request = s.request
        /\ t.switch = s.switch /\ t.seen = s.seen /\ t.dialogs = s.dialogs
    BY <1>2, <1>5 DEF Sound, Shape, Fields
  <1>7. /\ t.auth = FALSE /\ t.tokens \in Users
    <2>1. CASE t = [s EXCEPT !.again = TRUE, !.auth = FALSE]
      BY <1>2, <2>1 DEF Sound, Shape, Fields
    <2>2. CASE /\ app.worker.kind = "login"
               /\ \E a \in {app.tokens, app.worker.body} :
                     t = [s EXCEPT !.tokens = a]
      <3>1. app.worker.body \in Users /\ app.tokens \in Users /\ app.auth = FALSE
        BY <1>0, <1>1, <2>2 DEF Sound, Shape, Sending, Runs, Users
      <3>2. s.auth = FALSE /\ s = [f \in Fields |-> s[f]]
        BY <1>2, <3>1 DEF Sound, Shape
      <3> QED BY <2>2, <3>1, <3>2 DEF Fields
    <2> QED BY <1>5, <2>1, <2>2
  <1> HIDE DEF t
  <1>8. Sound(t)
    <2>1. Shape(t) /\ Held(t)
      BY <1>1, <1>2, <1>3, <1>6, <1>7 DEF Sound, Shape, Held, IsBlank, Keeps
    <2>2. Bound(t) /\ Sending(t)
      BY <1>1, <1>2, <1>3, <1>6, <1>7
      DEF Sound, Bound, Sending, Runs, BoundTo
    <2> QED BY <2>1, <2>2 DEF Sound
  <1>9. Load(t) \subseteq Load(s)
    BY <1>3, <1>6 DEF Load, Runs
  <1>10. Mine(t, cloud, Ledger(whose))
    BY <1>0, <1>2, <1>6, <1>9, MineKept DEF Keeps
  <1>11. Asked(t)
    <2>1. /\ t.dialogs = app.dialogs /\ t.out = app.out
          /\ t.switch = app.switch
      BY <1>2, <1>6 DEF Keeps
    <2> QED BY <1>0, <2>1 DEF Asked
  <1>12. Marked(t) /\ Gone(t, left)
    BY <1>0, <1>2, <1>6, <1>7 DEF Keeps, Marked, Gone
  <1> QED BY <1>0, <1>1, <1>4, <1>8, <1>10, <1>11, <1>12 DEF Kept, Good, t

LEMMA SyncAnsweredSafe == IInv /\ SyncAnswered => Kept
  <1> SUFFICES ASSUME IInv, SyncAnswered PROVE Kept
    OBVIOUS
  <1>0. /\ Sound(app) /\ Asked(app) /\ World(cloud, Ledger(whose))
        /\ Mine(app, cloud, Ledger(whose)) /\ Marked(app) /\ Gone(app, left)
        /\ Good(app, cloud, Ledger(whose), left)
    BY DEF IInv, Good
  <1> DEFINE c == cloud'[app.tokens]
             t == AppliedSync(Answered(app), c)
  <1>1. app' = t /\ left' = left /\ Reaches(app.tokens, app.worker) /\ app.tokens # None
    BY DEF SyncAnswered
  <1>2. /\ app.worker # None /\ ~app.worker.answered /\ Runs(app, "sync")
        /\ app.switch = None /\ app.out = None
    BY <1>0, RunningOne DEF SyncAnswered, Runs
  <1>3. /\ World(cloud', Ledger(whose')) /\ Mine(app, cloud', Ledger(whose'))
        /\ \A e \in DOMAIN whose :
              e \in DOMAIN whose' /\ (whose'[e] = whose[e] \/ e \in Load(app))
    BY <1>0, <1>1, <1>2, ReachesSafe
  <1>4. /\ Sound(t) /\ Load(t) \subseteq Load(app)
        /\ t.owner = app.owner /\ t.tokens = app.tokens /\ t.saved = app.saved
        /\ t.seen \in {app.seen, c.items} /\ t.dialogs = app.dialogs
        /\ t.out = app.out /\ t.switch = app.switch
        /\ t.synced => t.queue = {} \/ t.waiting \/ t.request # None
    BY <1>0, <1>2, AppliedSyncSafe
  <1>5. app.auth /\ app.tokens = app.owner /\ app.tokens \in Accounts
    BY <1>0, <1>1, <1>2 DEF Sound, Shape, Sending, Users
  <1>6. \A e \in c.items : Item(app.owner, Ledger(whose'), e)
    BY <1>3, <1>5 DEF World
  <1> HIDE DEF c, t
  <1>7. Mine(t, cloud', Ledger(whose'))
    BY <1>1, <1>3, <1>4, <1>5, <1>6 DEF Mine, Home
  <1>8. Asked(t)
    BY <1>0, <1>4 DEF Asked
  <1>9. Marked(t) /\ Gone(t, left)
    BY <1>0, <1>4, <1>5 DEF Marked, Gone, Sound, Sending
  <1> QED BY <1>1, <1>2, <1>3, <1>4, <1>7, <1>8, <1>9 DEF Kept, Good

LEMMA PreviewAnsweredSafe == IInv /\ PreviewAnswered => Kept
  <1> SUFFICES ASSUME IInv, PreviewAnswered PROVE Kept
    OBVIOUS
  <1>0. /\ Sound(app) /\ Asked(app) /\ World(cloud, Ledger(whose))
        /\ Mine(app, cloud, Ledger(whose)) /\ Marked(app) /\ Gone(app, left)
        /\ Good(app, cloud, Ledger(whose), left)
    BY DEF IInv, Good
  <1> DEFINE s == Answered(app)
             p == [rev   |-> cloud[app.tokens].rev,
                   items |-> cloud[app.tokens].items]
             t == app'
  <1>1. t \in AfterPreview(s, p) /\ left' = left /\ cloud' = cloud /\ whose' = whose
    BY DEF PreviewAnswered
  <1>2. /\ app.worker # None /\ ~app.worker.answered /\ Runs(app, "preview")
        /\ app.switch = None /\ app.out = None
    BY <1>0, RunningOne DEF PreviewAnswered, Runs
  <1>3. app.auth /\ app.request = None
    BY <1>0, <1>2 DEF Sound, Sending, Runs
  <1>4. /\ Sound(s) /\ Keeps(app, s) /\ s.saved = app.saved
        /\ s.switch = app.switch /\ s.auth = app.auth /\ s.synced = app.synced
        /\ s.request = app.request /\ s.waiting = app.waiting
    BY <1>0, <1>2, <1>3, AnsweredSafe
  <1> HIDE DEF s, p, t
  <1>5. Asked(s)
    BY <1>0, <1>4 DEF Asked, Keeps
  <1>6. Mine(s, cloud, Ledger(whose)) /\ Marked(s) /\ Gone(s, left)
    BY <1>0, <1>3, <1>4, MineKept DEF Keeps, Marked, Gone
  <1>7. Good(t, cloud, Ledger(whose), left)
    BY <1>0, <1>1, <1>4, <1>5, <1>6, AfterPreviewGood
  <1> QED BY <1>1, <1>2, <1>7 DEF Kept, t

LEMMA ResolveAnsweredSafe == IInv /\ ResolveAnswered => Kept
  <1> SUFFICES ASSUME IInv, ResolveAnswered PROVE Kept
    OBVIOUS
  <1>0. /\ Sound(app) /\ Asked(app) /\ World(cloud, Ledger(whose))
        /\ Mine(app, cloud, Ledger(whose)) /\ Marked(app) /\ Gone(app, left)
        /\ Good(app, cloud, Ledger(whose), left)
    BY DEF IInv, Good
  <1> DEFINE c == cloud'[app.tokens]
             t == AppliedResolution(Answered(app), c)
  <1>1. app' = t /\ left' = left /\ Reaches(app.tokens, app.worker) /\ app.tokens # None
    BY DEF ResolveAnswered
  <1>2. /\ app.worker # None /\ ~app.worker.answered /\ Runs(app, "resolve")
        /\ app.switch = None /\ app.out = None
    BY <1>0, RunningOne DEF ResolveAnswered, Runs
  <1>3. /\ World(cloud', Ledger(whose')) /\ Mine(app, cloud', Ledger(whose'))
        /\ \A e \in DOMAIN whose :
              e \in DOMAIN whose' /\ (whose'[e] = whose[e] \/ e \in Load(app))
    BY <1>0, <1>1, <1>2, ReachesSafe
  <1>4. /\ Sound(t) /\ Load(t) \subseteq Load(app)
        /\ t.tokens = app.tokens /\ t.dialogs = app.dialogs
        /\ t.out = app.out /\ t.switch = app.switch
        /\ \/ t.owner = app.owner /\ t.saved = app.saved /\ t.seen = app.seen
           \/ t.owner = app.saved.user /\ t.saved = None /\ t.seen = c.items
        /\ t.synced => t.queue = {} \/ t.waiting \/ t.request # None
    BY <1>0, <1>2, AppliedResolutionSafe
  <1>5. /\ app.auth /\ app.saved # None /\ app.tokens = app.saved.user
        /\ app.tokens \in Accounts /\ app.owner \in {None, app.tokens}
    BY <1>0, <1>1, <1>2, SavedSent
  <1>6. \A e \in c.items : Item(app.tokens, Ledger(whose'), e)
    BY <1>3, <1>5 DEF World
  <1> HIDE DEF c, t
  <1>7. Mine(t, cloud', Ledger(whose'))
    BY <1>1, <1>3, <1>4, <1>5, <1>6 DEF Mine, Home
  <1>8. Asked(t)
    BY <1>0, <1>4 DEF Asked
  <1>9. Marked(t) /\ Gone(t, left)
    BY <1>0, <1>4, <1>5 DEF Marked, Gone, Sound, Sending
  <1> QED BY <1>1, <1>2, <1>3, <1>4, <1>7, <1>8, <1>9 DEF Kept, Good

LEMMA ResolveRefusedSafe == IInv /\ ResolveRefused => Kept
  <1> SUFFICES ASSUME IInv, ResolveRefused PROVE Kept
    OBVIOUS
  <1>0. /\ Sound(app) /\ Asked(app) /\ World(cloud, Ledger(whose))
        /\ Mine(app, cloud, Ledger(whose)) /\ Marked(app) /\ Gone(app, left)
        /\ Good(app, cloud, Ledger(whose), left)
    BY DEF IInv, Good
  <1> DEFINE t == AfterConflict(Answered(app))
  <1>1. /\ app' = t /\ left' = left /\ cloud' = cloud /\ whose' = whose
        /\ Conflicts(cloud[app.tokens], app.worker) /\ app.tokens # None
    BY DEF ResolveRefused
  <1>2. /\ app.worker # None /\ ~app.worker.answered /\ Runs(app, "resolve")
        /\ app.switch = None /\ app.out = None
    BY <1>0, RunningOne DEF ResolveRefused, Runs
  <1>3. /\ app.auth /\ app.saved # None /\ app.tokens = app.saved.user
        /\ app.saved = app.worker.body
    BY <1>0, <1>1, <1>2, SavedSent
  <1>4. cloud[app.saved.user].done # app.saved
    BY <1>1, <1>3 DEF Conflicts
  <1>5. /\ Sound(t) /\ Keeps(app, t) /\ (t.saved = app.saved \/ t.saved = None)
        /\ t.switch = app.switch /\ ~t.synced
    BY <1>0, <1>2, AfterConflictSafe
  <1> HIDE DEF t
  <1>6. Mine(t, cloud, Ledger(whose))
    BY <1>0, <1>4, <1>5, MineKept DEF Keeps
  <1>7. Asked(t)
    BY <1>0, <1>5 DEF Asked, Keeps
  <1>8. Marked(t) /\ Gone(t, left)
    BY <1>0, <1>3, <1>5 DEF Marked, Gone
  <1> QED BY <1>0, <1>1, <1>2, <1>5, <1>6, <1>7, <1>8 DEF Kept, Good

LEMMA UnauthorizedSafe == IInv /\ Unauthorized => Kept
  <1> SUFFICES ASSUME IInv, Unauthorized PROVE Kept
    OBVIOUS
  <1>0. /\ Sound(app) /\ Asked(app) /\ World(cloud, Ledger(whose))
        /\ Mine(app, cloud, Ledger(whose)) /\ Marked(app) /\ Gone(app, left)
        /\ Good(app, cloud, Ledger(whose), left)
    BY DEF IInv, Good
  <1>9. PICK tokens \in {None, app.tokens} :
           app' = Expired(Answered([app EXCEPT !.again = FALSE]), tokens)
    BY DEF Unauthorized
  <1> DEFINE t == Expired(Answered([app EXCEPT !.again = FALSE]), tokens)
  <1>1. app' = t /\ left' = left /\ cloud' = cloud /\ whose' = whose
    BY <1>9 DEF Unauthorized
  <1>2. app.worker # None /\ ~app.worker.answered /\ app.out = None
    BY <1>0, RunningOne DEF Unauthorized
  <1>3. /\ Sound(t) /\ Load(t) \subseteq Load(app) /\ t.queue = app.queue
        /\ t.owner = app.owner /\ t.saved = app.saved /\ t.seen = app.seen
        /\ t.dialogs = app.dialogs /\ t.out = app.out
        /\ t.switch = None /\ app.switch = None /\ ~t.synced /\ ~t.auth
        /\ t.user \in {None} \cup (IF t.saved # None THEN {t.saved.user} ELSE {})
    BY <1>0, <1>2, ExpiredSafe
  <1> HIDE DEF t
  <1>4. Mine(t, cloud, Ledger(whose))
    BY <1>0, <1>3, MineKept
  <1>5. Asked(t)
    BY <1>0, <1>3 DEF Asked
  <1>6. Marked(t) /\ Gone(t, left)
    BY <1>0, <1>3 DEF Marked, Gone
  <1> QED BY <1>0, <1>1, <1>2, <1>3, <1>4, <1>5, <1>6 DEF Kept, Good

LEMMA RequestFailsSafe == IInv /\ (RequestFails \/ ApplyFails) => Kept
  <1> SUFFICES ASSUME IInv, RequestFails \/ ApplyFails PROVE Kept
    OBVIOUS
  <1>0. /\ Sound(app) /\ Asked(app) /\ World(cloud, Ledger(whose))
        /\ Mine(app, cloud, Ledger(whose)) /\ Marked(app) /\ Gone(app, left)
        /\ Good(app, cloud, Ledger(whose), left)
    BY DEF IInv, Good
  <1> DEFINE a == Answered(app)
             f == CloudFailure(a)
             t == app'
  <1>1. /\ left' = left /\ (MayReach(app.worker) \/ Reaches(app.tokens, app.worker))
        /\ \/ t = f
           \/ /\ app.worker.kind # "sync" /\ t \in {a, Paused(a)}
              /\ app.worker.kind \in {"sync", "resolve"}
    <2>1. CASE RequestFails
      BY <2>1 DEF RequestFails
    <2>2. CASE ApplyFails
      <3>1. /\ t = IF app.worker.kind = "sync" THEN f
                   ELSE IF Decides(app) THEN Paused(a) ELSE a
            /\ left' = left /\ Reaches(app.tokens, app.worker)
            /\ app.worker.kind \in {"sync", "resolve"}
        BY <2>2 DEF ApplyFails, Running
      <3> HIDE DEF t, f, a
      <3> QED BY <3>1
    <2> QED BY <2>1, <2>2
  <1>2. app.worker # None /\ ~app.worker.answered /\ app.out = None
    BY <1>0, RunningOne DEF RequestFails, ApplyFails
  <1>3. /\ World(cloud', Ledger(whose')) /\ Mine(app, cloud', Ledger(whose'))
        /\ \A e \in DOMAIN whose :
              e \in DOMAIN whose' /\ (whose'[e] = whose[e] \/ e \in Load(app))
    <2>1. CASE Reaches(app.tokens, app.worker)
      BY <1>0, <1>2, <2>1, ReachesSafe
    <2>2. CASE UNCHANGED <<cloud, whose>>
      <3>1. cloud' = cloud /\ whose' = whose
        BY <2>2
      <3> QED BY <1>0, <3>1
    <2> QED BY <1>1, <2>1, <2>2 DEF MayReach
  <1>4. Good(app, cloud', Ledger(whose'), left)
    BY <1>0, <1>3 DEF Good
  <1>5. CASE t = f
    <2>1. /\ Sound(f) /\ Keeps(app, f) /\ f.saved = app.saved
          /\ f.switch = app.switch /\ f.auth = app.auth /\ ~f.synced
          /\ f.user = app.user
      BY <1>0, <1>2, FailedSafe
    <2> HIDE DEF f, t
    <2>2. Good(f, cloud', Ledger(whose'), left)
      BY <1>4, <2>1, GoodKept DEF Marked
    <2> QED BY <1>1, <1>2, <1>3, <1>5, <2>2 DEF Kept, t
  <1>6. CASE /\ app.worker.kind # "sync" /\ t \in {a, Paused(a)}
             /\ app.worker.kind \in {"sync", "resolve"}
    <2>1. app.request = None /\ ~app.synced
      BY <1>0, <1>2, <1>6 DEF Sound, Sending, Runs
    <2>2. /\ Sound(a) /\ Keeps(app, a) /\ a.saved = app.saved
          /\ a.switch = app.switch /\ a.auth = app.auth /\ a.user = app.user
          /\ a.synced = app.synced
      BY <1>0, <1>2, <2>1, AnsweredSafe
    <2> HIDE DEF a, t
    <2>3. /\ Sound(t) /\ Keeps(app, t) /\ t.saved = app.saved
          /\ t.switch = app.switch /\ t.auth = app.auth /\ t.user = app.user
          /\ t.synced = app.synced
      BY <1>6, <2>2, PausedSafe DEF Keeps
    <2>4. Good(t, cloud', Ledger(whose'), left)
      BY <1>4, <2>1, <2>3, GoodKept DEF Marked
    <2> QED BY <1>1, <1>2, <1>3, <2>4 DEF Kept, t
  <1> QED BY <1>1, <1>5, <1>6

-----------------------------------------------------------------------------
(* Timers, the stream, edits.                                               *)

\* A step that only calls handlers which keep the workspace.
LEMMA KeptStep ==
    ASSUME IInv, NEW t, app' = t, UNCHANGED <<cloud, whose, left>>,
           Sound(t), Keeps(app, t), t.saved = app.saved,
           t.switch = app.switch, t.auth = app.auth,
           t.user \in {app.user, BoundTo(app)}, Marked(t)
    PROVE  Kept
  <1>1. cloud' = cloud /\ whose' = whose /\ left' = left
    OBVIOUS
  <1>2. Good(t, cloud, Ledger(whose), left)
    BY GoodKept DEF IInv
  <1> QED BY <1>1, <1>2 DEF Kept, Keeps

LEMMA TickSafe ==
    ASSUME IInv, app' = Synchronize(app), UNCHANGED <<cloud, whose, left>>
    PROVE  Kept
  <1> DEFINE t == Synchronize(app)
  <1>1. /\ Sound(t) /\ Keeps(app, t) /\ t.saved = app.saved
        /\ t.auth = app.auth /\ t.switch = app.switch
        /\ t.user \in {app.user, BoundTo(app)}
        /\ t.synced => t.waiting \/ t.request # None
    BY SynchronizeSafe DEF IInv, Good
  <1> HIDE DEF t
  <1>2. Marked(t)
    BY <1>1 DEF Marked, Sound, Sending
  <1> QED BY <1>1, <1>2, KeptStep DEF t

LEMMA FinishSafe == IInv /\ Finish => Kept
  <1> SUFFICES ASSUME IInv, Finish PROVE Kept
    OBVIOUS
  <1> DEFINE t == [app EXCEPT !.worker = None]
  <1>1. /\ app' = t /\ whose' = whose /\ left' = left
        /\ app.worker # None /\ app.worker.answered
    BY DEF Finish
  <1>2. Sound(app) /\ Good(app, cloud, Ledger(whose), left)
    BY DEF IInv, Good
  <1>3. app.request = None /\ app.out = None
    BY <1>1, <1>2 DEF Sound, Sending, Held, Runs
  <1>4. /\ t = [f \in Fields |-> t[f]] /\ t.worker = None
        /\ t.auth = app.auth /\ t.active = app.active /\ t.synced = app.synced
        /\ t.user = app.user /\ t.tokens = app.tokens /\ t.owner = app.owner
        /\ t.seen = app.seen /\ t.queue = app.queue /\ t.batch = app.batch
        /\ t.saved = app.saved /\ t.out = app.out /\ t.switch = app.switch
        /\ t.request = app.request /\ t.waiting = app.waiting
        /\ t.dialogs = app.dialogs
    BY <1>2 DEF Sound, Shape, Fields
  <1> HIDE DEF t
  <1>5. Shape(t) /\ Held(t) /\ Bound(t)
    BY <1>2, <1>4
    DEF Sound, Shape, Held, Bound, BoundTo, IsBlank, Idle
  <1>6. Sending(t) /\ Keeps(app, t)
    BY <1>2, <1>3, <1>4 DEF Sound, Sending, Runs, Keeps, Load
  <1>7. Marked(t)
    BY <1>2, <1>4 DEF Good, Marked
  <1>8. Good(app, cloud', Ledger(whose), left)
    <2> DEFINE done(a) == IF cloud[a].done = app.saved THEN cloud[a].done ELSE None
    <2>1. \A a \in Accounts :
             cloud[a] = [rev |-> cloud[a].rev, items |-> cloud[a].items,
                         done |-> cloud[a].done]
      BY <1>2 DEF Good, World
    <2>2. cloud' = [a \in Accounts |-> [cloud[a] EXCEPT !.done = done(a)]]
      BY DEF Finish
    <2> HIDE DEF done
    <2>3. /\ cloud' = [a \in Accounts |-> cloud'[a]]
          /\ \A a \in Accounts :
                /\ cloud'[a] = [rev |-> cloud'[a].rev, items |-> cloud'[a].items,
                                done |-> cloud'[a].done]
                /\ cloud'[a].items = cloud[a].items
                /\ cloud'[a].done = done(a)
      <3>1. \A a \in Accounts :
               cloud'[a] = [rev |-> cloud[a].rev, items |-> cloud[a].items,
                            done |-> done(a)]
        <4> TAKE a \in Accounts
        <4> DEFINE c == cloud[a]
                   d == done(a)
        <4>1. c = [rev |-> c.rev, items |-> c.items, done |-> c.done]
          BY <2>1
        <4>2. cloud'[a] = [c EXCEPT !.done = d]
          BY <2>2
        <4> HIDE DEF c, d
        <4>3. cloud'[a] = [rev |-> c.rev, items |-> c.items, done |-> d]
          BY <4>1, <4>2
        <4> QED BY <4>3 DEF c, d
      <3> QED BY <2>2, <3>1
    <2>4. World(cloud', Ledger(whose))
      BY <1>2, <2>3 DEF Good, World
    <2>5. Mine(app, cloud', Ledger(whose))
      <3>1. app.saved # None => app.saved.user \in Accounts
        BY <1>2 DEF Sound, Shape
      <3> QED BY <1>2, <2>3, <3>1 DEF Good, Mine, Home, done
    <2> QED BY <1>2, <2>4, <2>5 DEF Good
  <1>9. Good(t, cloud', Ledger(whose), left)
    BY <1>4, <1>5, <1>6, <1>7, <1>8, GoodKept DEF Sound
  <1> QED BY <1>1, <1>3, <1>9 DEF Kept

LEMMA RestoreRetrySafe == IInv /\ RestoreRetry => Kept
  <1> SUFFICES ASSUME IInv, RestoreRetry PROVE Kept
    OBVIOUS
  <1> DEFINE job == Work("restore", None)
             t == app'
  <1>1. /\ job = [kind |-> job.kind, body |-> job.body, answered |-> job.answered]
        /\ job.kind = "restore" /\ job.answered = FALSE
    BY DEF Work
  <1>2. /\ \/ /\ app.worker = None /\ ~app.auth /\ app.out = None
              /\ t = [app EXCEPT !.again = FALSE, !.worker = job]
           \/ t = [app EXCEPT !.again = FALSE]
        /\ UNCHANGED <<cloud, whose, left>>
    BY DEF RestoreRetry
  <1> HIDE DEF job
  <1>3. Sound(app)
    BY DEF IInv, Good
  <1>4. /\ t = [f \in Fields |-> t[f]]
        /\ \/ t.worker = app.worker
           \/ /\ app.worker = None /\ ~app.auth /\ app.out = None
              /\ t.worker = job
        /\ t.auth = app.auth /\ t.active = app.active /\ t.synced = app.synced
        /\ t.user = app.user /\ t.tokens = app.tokens /\ t.owner = app.owner
        /\ t.seen = app.seen /\ t.queue = app.queue /\ t.batch = app.batch
        /\ t.saved = app.saved /\ t.out = app.out /\ t.switch = app.switch
        /\ t.request = app.request /\ t.waiting = app.waiting
        /\ t.dialogs = app.dialogs
    <2>1. app = [f \in Fields |-> app[f]]
      BY <1>3 DEF Sound, Shape
    <2> HIDE DEF t
    <2>2. CASE t = [app EXCEPT !.again = FALSE]
      BY <2>1, <2>2 DEF Fields
    <2>3. CASE /\ app.worker = None /\ ~app.auth /\ app.out = None
               /\ t = [app EXCEPT !.again = FALSE, !.worker = job]
      BY <2>1, <2>3 DEF Fields
    <2>4. \/ t = [app EXCEPT !.again = FALSE]
          \/ /\ app.worker = None /\ ~app.auth /\ app.out = None
             /\ t = [app EXCEPT !.again = FALSE, !.worker = job]
      BY <1>2 DEF t
    <2> QED BY <2>2, <2>3, <2>4
  <1> HIDE DEF t
  <1>5. Shape(t) /\ Held(t) /\ Bound(t)
    BY <1>1, <1>3, <1>4
    DEF Sound, Shape, Held, Bound, BoundTo, IsBlank, Idle
  <1>6. Sending(t) /\ Keeps(app, t)
    BY <1>1, <1>3, <1>4 DEF Sound, Sending, Runs, Keeps, Load
  <1>7. Marked(t)
    BY <1>4 DEF IInv, Good, Marked
  <1> QED BY <1>2, <1>4, <1>5, <1>6, <1>7, KeptStep DEF Sound, t

\* A flag that no other part of the invariant depends on.
LEMMA FlagSafe ==
    ASSUME NEW s, Sound(s),
           NEW t, t \in {[s EXCEPT !.retry = FALSE], [s EXCEPT !.waiting = FALSE],
                         [s EXCEPT !.paused = FALSE]}
    PROVE  /\ Sound(t) /\ Keeps(s, t) /\ t.saved = s.saved
           /\ t.auth = s.auth /\ t.switch = s.switch /\ t.user = s.user
           /\ t.synced = s.synced /\ t.request = s.request
           /\ t # [s EXCEPT !.waiting = FALSE] => t.waiting = s.waiting
  <1>1. /\ Stays(s, t) /\ t.worker = s.worker /\ t.request = s.request
        /\ t.synced = s.synced /\ t.dialogs = s.dialogs
        /\ t # [s EXCEPT !.waiting = FALSE] => t.waiting = s.waiting
    BY DEF Sound, Shape, Fields, Stays
  <1>2. s.synced \in BOOLEAN /\ (s.synced => s.auth /\ ~s.active)
    BY DEF Sound, Shape, Sending
  <1> QED BY <1>1, <1>2, StaysSafe DEF Stays

LEMMA StreamRefusedSafe == IInv /\ StreamRefused => Kept
  <1> SUFFICES ASSUME IInv, StreamRefused PROVE Kept
    OBVIOUS
  <1> DEFINE t == CloudFailure(app)
  <1>1. app' = t /\ UNCHANGED <<cloud, whose, left>>
    BY DEF StreamRefused
  <1>2. /\ Sound(t) /\ Keeps(app, t) /\ t.saved = app.saved
        /\ t.switch = app.switch /\ t.auth = app.auth /\ ~t.synced
        /\ t.user = app.user
    BY CloudFailureSafe DEF IInv, Good
  <1> HIDE DEF t
  <1> QED BY <1>1, <1>2, KeptStep DEF Marked

LEMMA RetrySyncSafe == IInv /\ RetrySync => Kept
  <1> SUFFICES ASSUME IInv, RetrySync PROVE Kept
    OBVIOUS
  <1> DEFINE s == [app EXCEPT !.waiting = FALSE]
             t == Synchronize(s)
  <1>1. app' = t /\ UNCHANGED <<cloud, whose, left>>
    BY DEF RetrySync
  <1>2. /\ Sound(s) /\ Keeps(app, s) /\ s.saved = app.saved
        /\ s.auth = app.auth /\ s.switch = app.switch /\ s.user = app.user
    BY FlagSafe DEF IInv, Good
  <1>3. BoundTo(s) = BoundTo(app)
    BY <1>2 DEF BoundTo, Keeps
  <1> HIDE DEF s
  <1>4. /\ Sound(t) /\ Keeps(s, t) /\ t.saved = s.saved
        /\ t.auth = s.auth /\ t.switch = s.switch
        /\ t.user \in {s.user, BoundTo(s)}
        /\ t.synced => t.waiting \/ t.request # None
    BY <1>2, SynchronizeSafe
  <1> HIDE DEF t
  <1>5. Keeps(app, t) /\ Marked(t)
    BY <1>2, <1>4 DEF Keeps, Marked, Sound, Sending
  <1> QED BY <1>1, <1>2, <1>3, <1>4, <1>5, KeptStep

LEMMA RetryResolutionSafe == IInv /\ RetryResolution => Kept
  <1> SUFFICES ASSUME IInv, RetryResolution PROVE Kept
    OBVIOUS
  <1> DEFINE s == [app EXCEPT !.retry = FALSE]
             t == Continue(s)
  <1>1. app' = t /\ UNCHANGED <<cloud, whose, left>>
    BY DEF RetryResolution
  <1>2. /\ Sound(s) /\ Keeps(app, s) /\ s.saved = app.saved
        /\ s.auth = app.auth /\ s.switch = app.switch /\ s.user = app.user
        /\ s.synced = app.synced /\ s.request = app.request
    BY FlagSafe DEF IInv, Good
  <1>3. s.waiting = app.waiting
    BY DEF IInv, Good, Sound, Shape, Fields
  <1> HIDE DEF s
  <1>4. /\ Sound(t) /\ Keeps(s, t) /\ t.saved = s.saved
        /\ t.auth = s.auth /\ t.user = s.user
        /\ t.switch = s.switch /\ t.synced = s.synced
        /\ t.waiting = s.waiting /\ t.request = s.request
    BY <1>2, ContinueSafe
  <1> HIDE DEF t
  <1>5. Keeps(app, t) /\ Marked(t)
    BY <1>2, <1>3, <1>4 DEF Keeps, Marked, IInv, Good
  <1> QED BY <1>1, <1>2, <1>4, <1>5, KeptStep

LEMMA EditSafe == IInv /\ Edit => Kept
  <1> SUFFICES ASSUME IInv, Edit PROVE Kept
    OBVIOUS
  <1>0. /\ Sound(app) /\ Asked(app) /\ World(cloud, Ledger(whose))
        /\ Mine(app, cloud, Ledger(whose)) /\ Marked(app) /\ Gone(app, left)
        /\ Good(app, cloud, Ledger(whose), left)
    BY DEF IInv, Good
  <1> DEFINE s == Guarded(app)
             e == Len(whose) + 1
             r == [s EXCEPT !.queue = @ \cup {e}]
             t == Synchronize(r)
  <1>1. /\ Len(whose) < MaxEdits /\ cloud' = cloud /\ left' = left
        /\ IF s.active THEN app' = s /\ whose' = whose
           ELSE app' = t /\ whose' = Append(whose, s.owner)
    BY DEF Edit
  <1>2. /\ Sound(s) /\ Keeps(app, s) /\ s.saved = app.saved
        /\ s.auth = app.auth /\ s.switch = app.switch
        /\ s.user \in {app.user, BoundTo(app)} /\ (s.active => ~s.synced)
        /\ app.active \/ app.saved = None => s = app
        /\ s.active = (app.active \/ app.saved # None)
    BY <1>0, GuardedSafe
  <1>3. CASE s.active
    <2> HIDE DEF s
    <2> QED BY <1>1, <1>2, <1>3, KeptStep DEF Marked
  <1>4. CASE ~s.active
    <2>1. s = app /\ app.saved = None /\ ~app.active /\ app.out = None
      BY <1>0, <1>2, <1>4 DEF Sound, Held
    <2>2. /\ Len(whose) \in Nat /\ e \in Edits /\ whose \in Seq(Users)
          /\ e \notin Barred
      <3>1. /\ Len(whose) \in Nat /\ e \in Edits /\ whose \in Seq(Users)
            /\ e \notin DOMAIN whose
        BY <1>0, <1>1, BoundAssumption DEF World, Ledger, Edits
      <3> QED BY <3>1 DEF IInv, Carried, Barred
    <2>3. r = [app EXCEPT !.queue = @ \cup {e}]
      BY <2>1
    <2> HIDE DEF s, e, r
    <2>4. /\ r = [f \in Fields |-> r[f]] /\ r.worker = app.worker
          /\ r.auth = app.auth /\ r.active = app.active /\ r.synced = app.synced
          /\ r.user = app.user /\ r.tokens = app.tokens /\ r.owner = app.owner
          /\ r.seen = app.seen /\ r.batch = app.batch
          /\ r.queue = app.queue \cup {e}
          /\ r.saved = app.saved /\ r.out = app.out /\ r.switch = app.switch
          /\ r.request = app.request /\ r.waiting = app.waiting
          /\ r.dialogs = app.dialogs
      BY <1>0, <2>3 DEF Sound, Shape, Fields
    <2>5. Shape(r) /\ Held(r) /\ Bound(r)
      <3>1. r.queue \in SUBSET Edits
        BY <1>0, <2>2, <2>4 DEF Sound, Shape
      <3>2. Shape(r)
        BY <1>0, <2>4, <3>1 DEF Sound, Shape
      <3>3. r.out = None /\ r.switch = None
        BY <1>0, <2>1, <2>4 DEF Sound, Held
      <3>4. Held(r)
        BY <3>3, NoneAssumption DEF Held
      <3>5. Bound(r)
        BY <1>0, <2>1, <2>4 DEF Sound, Bound, BoundTo
      <3> QED BY <3>2, <3>4, <3>5
    <2>6. Sending(r) /\ Load(r) \subseteq Load(app) \cup {e}
      BY <1>0, <2>4 DEF Sound, Sending, Runs, Load
    <2>7. Sound(r)
      BY <2>5, <2>6 DEF Sound
    <2>8. /\ Sound(t) /\ Keeps(r, t) /\ t.saved = r.saved
          /\ t.auth = r.auth /\ t.switch = r.switch
          /\ t.user \in {r.user, BoundTo(r)}
          /\ t.synced => t.waiting \/ t.request # None
      BY <2>7, SynchronizeSafe
    <2> DEFINE w == Append(whose, app.owner)
    <2>9. /\ w \in Seq(Users) /\ Len(w) <= MaxEdits
          /\ DOMAIN w = DOMAIN whose \cup {e} /\ w[e] = app.owner
          /\ \A x \in DOMAIN whose : w[x] = whose[x]
      <3>1. app.owner \in Users
        BY <1>0 DEF Sound, Shape
      <3> QED BY <1>1, <2>2, <3>1, BoundAssumption DEF e
    <2>10. app' = t /\ whose' = w
      BY <1>1, <1>4, <2>1
    <2> HIDE DEF t, w
    <2>11. World(cloud, Ledger(w))
      BY <1>0, <2>9 DEF World, Item, Ledger
    <2>12. Mine(t, cloud, Ledger(w))
      <3>1. Load(t) \subseteq Load(app) \cup {e} /\ t.owner = app.owner
            /\ t.seen = app.seen /\ t.saved = None
        BY <2>1, <2>4, <2>6, <2>8 DEF Keeps
      <3>2. \A x \in Load(app) : /\ x \in DOMAIN whose /\ x \notin Barred
                                  /\ whose[x] \in {None, app.owner}
        BY <1>0, <2>1 DEF Mine, Home, Ledger
      <3>3. \A x \in Load(t) : Home(t, cloud, Ledger(w), x)
        BY <2>2, <2>9, <3>1, <3>2 DEF Home, Ledger
      <3>4. \A x \in t.seen : Item(t.owner, Ledger(w), x)
        BY <1>0, <2>9, <3>1 DEF Mine, Item, Ledger
      <3> QED BY <1>0, <3>1, <3>3, <3>4 DEF Mine
    <2>13. Asked(t)
      <3>1. t.dialogs = app.dialogs /\ t.out = app.out /\ t.switch = app.switch
        BY <2>4, <2>8 DEF Keeps
      <3> QED BY <1>0, <3>1 DEF Asked
    <2>14. Marked(t)
      BY <2>8 DEF Marked, Sound, Sending
    <2>15. Gone(t, left)
      <3>1. /\ t.auth = app.auth /\ t.owner = app.owner /\ t.saved = None
            /\ t.user \in {app.user, app.owner}
        BY <2>1, <2>4, <2>8 DEF Keeps, BoundTo
      <3> QED BY <1>0, <3>1 DEF Gone
    <2> QED BY <1>1, <2>1, <2>8, <2>9, <2>10, <2>11, <2>12, <2>13, <2>14, <2>15
        DEF Kept, Good
  <1> QED BY <1>3, <1>4

LEMMA OtherDeviceSafe == IInv /\ OtherDevice => Kept
  <1> SUFFICES ASSUME IInv, OtherDevice PROVE Kept
    OBVIOUS
  <1>0. /\ Sound(app) /\ Asked(app) /\ World(cloud, Ledger(whose))
        /\ Mine(app, cloud, Ledger(whose)) /\ Marked(app) /\ Gone(app, left)
    BY DEF IInv, Good
  <1>1. PICK a \in Accounts :
           cloud' = [cloud EXCEPT ![a].rev = @ + 1, ![a].items = @ \cup {a}]
    BY DEF OtherDevice
  <1>2. app' = app /\ whose' = whose /\ left' = left
    BY DEF OtherDevice
  <1>3. /\ cloud' = [b \in Accounts |-> cloud'[b]]
        /\ \A b \in Accounts :
              cloud'[b] = IF b = a
                          THEN [rev   |-> cloud[a].rev + 1,
                                items |-> cloud[a].items \cup {a},
                                done  |-> cloud[a].done]
                          ELSE cloud[b]
    <2> DEFINE c == cloud[a]
               m == [c EXCEPT !.rev = @ + 1]
               n == [m EXCEPT !.items = @ \cup {a}]
    <2>1. c = [rev |-> c.rev, items |-> c.items, done |-> c.done]
      BY <1>0 DEF World
    <2>2. cloud = [b \in Accounts |-> cloud[b]]
      BY <1>0 DEF World
    <2>3. cloud' = [cloud EXCEPT ![a] = n]
      BY <1>1, <2>1, <2>2
    <2> HIDE DEF c
    <2>4. m = [rev |-> c.rev + 1, items |-> c.items, done |-> c.done]
      BY <2>1
    <2> HIDE DEF m
    <2>5. n = [rev |-> c.rev + 1, items |-> c.items \cup {a}, done |-> c.done]
      BY <2>4
    <2> HIDE DEF n
    <2>6. /\ cloud' = [b \in Accounts |-> cloud'[b]]
          /\ \A b \in Accounts : cloud'[b] = IF b = a THEN n ELSE cloud[b]
      BY <2>2, <2>3
    <2> QED BY <2>5, <2>6 DEF c
  <1>4. \A b \in Accounts :
           /\ cloud'[b] = [rev |-> cloud'[b].rev, items |-> cloud'[b].items,
                           done |-> cloud'[b].done]
           /\ cloud'[b].done = cloud[b].done
           /\ cloud[b].items \subseteq cloud'[b].items
           /\ cloud'[b].items \subseteq
                 cloud[b].items \cup (IF b = a THEN {a} ELSE {})
    BY <1>0, <1>3 DEF World
  <1>5. World(cloud', Ledger(whose))
    BY <1>0, <1>3, <1>4 DEF World, Item
  <1>6. Mine(app, cloud', Ledger(whose))
    BY <1>0, <1>4 DEF Mine, Home, Sound, Shape
  <1> QED BY <1>0, <1>2, <1>5, <1>6 DEF Kept, Good

-----------------------------------------------------------------------------
(* Dialogs, sign-out and restarts.                                          *)

\* A step that may only open or close dialogs, and handlers after it.
LEMMA GoodMoved ==
    ASSUME NEW s, NEW t, NEW c, NEW w, NEW l, Good(s, c, w, l),
           Sound(t), Asked(t), Load(t) \subseteq Load(s),
           t.owner = s.owner, t.seen = s.seen, t.saved = s.saved,
           t.auth = s.auth, t.user = s.user, Marked(t)
    PROVE  Good(t, c, w, l)
  <1>1. Mine(t, c, w)
    BY MineKept DEF Good
  <1>2. Gone(t, l)
    BY DEF Good, Gone
  <1> QED BY <1>1, <1>2 DEF Good

LEMMA ClosedGood ==
    ASSUME NEW s, NEW c, NEW w, NEW l, Good(s, c, w, l), s.dialogs # <<>>
    PROVE  Good(Closed(s), c, w, l)
  <1> DEFINE t == Closed(s)
  <1>1. /\ Sound(t) /\ Asked(t) /\ Load(t) = Load(s) /\ t.queue = s.queue
        /\ t.owner = s.owner /\ t.saved = s.saved /\ t.seen = s.seen
        /\ t.tokens = s.tokens /\ t.user = s.user /\ t.auth = s.auth
        /\ t.synced = s.synced /\ t.waiting = s.waiting
        /\ t.request = s.request
    BY ClosedSafe DEF Good
  <1> HIDE DEF t
  <1>2. Marked(t)
    BY <1>1 DEF Good, Marked
  <1> QED BY <1>1, <1>2, GoodMoved DEF t

LEMMA OpenAccountSafe == IInv /\ OpenAccount => Kept
  <1> SUFFICES ASSUME IInv, OpenAccount PROVE Kept
    OBVIOUS
  <1> DEFINE kind == IF app.switch # None THEN "switch"
                     ELSE IF app.active THEN "resolve" ELSE "signout"
             d == <<[kind |-> kind, about |-> None]>>
             t == [app EXCEPT !.dialogs = d]
  <1>1. /\ app' = t /\ cloud' = cloud /\ whose' = whose /\ left' = left
        /\ app.out = None
    BY DEF OpenAccount
  <1>2. Sound(app) /\ Marked(app) /\ Good(app, cloud, Ledger(whose), left)
    BY DEF IInv, Good
  <1>3. Len(d) = 1 /\ d = [i \in 1..1 |-> d[i]] /\ d[1].kind = kind
    OBVIOUS
  <1>4. kind = "switch" => app.switch # None
    OBVIOUS
  <1> HIDE DEF d, kind
  <1>5. /\ Stays(app, t) /\ t.worker = app.worker /\ t.request = app.request
        /\ t.synced = app.synced /\ t.waiting = app.waiting /\ t.dialogs = d
    BY <1>2 DEF Sound, Shape, Fields, Stays
  <1> HIDE DEF t
  <1>6. app.synced \in BOOLEAN /\ (app.synced => app.auth /\ ~app.active)
    BY <1>2 DEF Sound, Shape, Sending
  <1>7. Sound(t) /\ Load(t) = Load(app)
    BY <1>2, <1>5, <1>6, StaysSafe
  <1>8. Asked(t)
    <2>1. t.out = None /\ t.switch = app.switch /\ Len(t.dialogs) = 1
      BY <1>1, <1>3, <1>5 DEF Stays
    <2>2. t.dialogs = [i \in 1..1 |-> t.dialogs[i]]
      BY <1>3, <1>5
    <2>3. \A i \in 1..1 : i = 1
      OBVIOUS
    <2> QED BY <1>3, <1>4, <1>5, <2>1, <2>2, <2>3 DEF Asked
  <1>9. Marked(t)
    BY <1>2, <1>5 DEF Marked, Stays
  <1>10. Good(t, cloud, Ledger(whose), left)
    BY <1>2, <1>5, <1>7, <1>8, <1>9, GoodMoved DEF Stays
  <1> QED BY <1>1, <1>10 DEF Kept

LEMMA CancelSafe == IInv /\ Cancel => Kept
  <1> SUFFICES ASSUME IInv, Cancel PROVE Kept
    OBVIOUS
  <1> DEFINE s == Closed(app)
             t == Paused(s)
  <1>1. /\ app' = t \/ app' = s
        /\ cloud' = cloud /\ whose' = whose /\ left' = left
    BY DEF Cancel
  <1>2. Good(s, cloud, Ledger(whose), left)
    BY ClosedGood DEF Cancel, IInv
  <1> HIDE DEF s
  <1>3. /\ Sound(t) /\ Keeps(s, t) /\ t.saved = s.saved
        /\ t.switch = s.switch /\ t.auth = s.auth /\ t.user = s.user
        /\ t.synced = s.synced /\ t.waiting = s.waiting
        /\ t.request = s.request
    BY <1>2, PausedSafe DEF Good
  <1> HIDE DEF t
  <1>4. Marked(t)
    BY <1>2, <1>3 DEF Good, Marked, Keeps
  <1>5. Good(t, cloud, Ledger(whose), left)
    BY <1>2, <1>3, <1>4, GoodKept
  <1>6. app.out = None
    BY DEF Cancel, IInv, Good, Asked
  <1> QED BY <1>1, <1>2, <1>5, <1>6 DEF Kept

LEMMA ChooseSafe == IInv /\ Choose => Kept
  <1> SUFFICES ASSUME IInv, Choose PROVE Kept
    OBVIOUS
  <1> DEFINE s == Closed(app)
             rev == Last(app.dialogs).about.rev
  <1>1. PICK strategy \in Strategies : app' = Prepared(s, rev, strategy)
    BY DEF Choose
  <1> DEFINE t == Prepared(s, rev, strategy)
  <1>2. cloud' = cloud /\ whose' = whose /\ left' = left /\ app.dialogs # <<>>
    BY DEF Choose, Top
  <1>3. Good(s, cloud, Ledger(whose), left)
    BY <1>2, ClosedGood DEF IInv
  <1>4. s.out = None
    BY <1>2, ClosedSafe DEF IInv, Good
  <1> HIDE DEF s, rev
  <1>5. /\ Sound(t) /\ Keeps(s, t)
        /\ t.saved = s.saved \/ (s.saved = None /\ t.saved.user = s.user)
        /\ t.switch = s.switch /\ t.synced = s.synced
        /\ t.auth = s.auth /\ t.user = s.user
        /\ t.waiting = s.waiting /\ t.request = s.request
    BY <1>3, <1>4, PreparedSafe DEF Good
  <1>6. app' = t
    BY <1>1
  <1> HIDE DEF t
  <1>7. Marked(t)
    BY <1>3, <1>5 DEF Good, Marked, Keeps
  <1>8. Good(t, cloud, Ledger(whose), left)
    BY <1>3, <1>5, <1>7, GoodKept
  <1>9. app.out = None
    BY <1>2 DEF IInv, Good, Asked
  <1> QED BY <1>2, <1>6, <1>8, <1>9 DEF Kept

LEMMA ResumeSafe == IInv /\ Resume => Kept
  <1> SUFFICES ASSUME IInv, Resume PROVE Kept
    OBVIOUS
  <1> DEFINE r == Closed(app)
             s == [r EXCEPT !.paused = FALSE]
             t == Continue(s)
  <1>1. /\ app' = r \/ app' = t \/ app' \in AfterPreview(s, app.preview)
        /\ cloud' = cloud /\ whose' = whose /\ left' = left
    BY DEF Resume
  <1>2. app.dialogs # <<>>
    BY DEF Resume, Top
  <1>3. Good(r, cloud, Ledger(whose), left)
    BY <1>2, ClosedGood DEF IInv
  <1> HIDE DEF r
  <1>4. /\ Sound(s) /\ Keeps(r, s) /\ s.saved = r.saved
        /\ s.auth = r.auth /\ s.switch = r.switch /\ s.user = r.user
        /\ s.synced = r.synced /\ s.request = r.request
    BY <1>3, FlagSafe DEF Good
  <1>5. s.waiting = r.waiting
    BY <1>3 DEF Good, Sound, Shape, Fields
  <1> HIDE DEF s
  <1>6. Marked(s)
    BY <1>3, <1>4, <1>5 DEF Good, Marked, Keeps
  <1>7. Good(s, cloud, Ledger(whose), left)
    BY <1>3, <1>4, <1>6, GoodKept
  <1>8. /\ Sound(t) /\ Keeps(s, t) /\ t.saved = s.saved
        /\ t.auth = s.auth /\ t.user = s.user
        /\ t.switch = s.switch /\ t.synced = s.synced
        /\ t.waiting = s.waiting /\ t.request = s.request
    BY <1>4, ContinueSafe
  <1> HIDE DEF t
  <1>9. Marked(t)
    BY <1>6, <1>8 DEF Marked, Keeps
  <1>10. Good(t, cloud, Ledger(whose), left)
    BY <1>7, <1>8, <1>9, GoodKept
  <1>12. app.out = None
    BY <1>2 DEF IInv, Good, Asked
  <1>11. CASE app' \in AfterPreview(s, app.preview)
    <2> DEFINE u == app'
    <2>1. u \in AfterPreview(s, app.preview)
      BY <1>11
    <2> HIDE DEF u
    <2>2. Good(u, cloud, Ledger(whose), left)
      BY <1>7, <2>1, AfterPreviewGood DEF Good
    <2> QED BY <1>1, <1>12, <2>2 DEF Kept, u
  <1> QED BY <1>1, <1>3, <1>10, <1>11, <1>12 DEF Kept

LEMMA SwitchSafe == IInv /\ Switch => Kept
  <1> SUFFICES ASSUME IInv, Switch PROVE Kept
    OBVIOUS
  <1>0. /\ Sound(app) /\ Asked(app) /\ World(cloud, Ledger(whose)) /\ Gone(app, left)
    BY DEF IInv, Good
  <1> DEFINE u == app.switch
             s == Closed(app)
             b == With(Blank, s)
             r == [b EXCEPT !.switch = None]
             t == SignedIn(r, u)
  <1>1. /\ app' = t /\ cloud' = cloud /\ whose' = whose /\ left' = left
        /\ app.dialogs # <<>> /\ Last(app.dialogs).kind = "switch"
    BY DEF Switch, Top
  <1>2. /\ Sound(s) /\ s.tokens = app.tokens /\ s.switch = u /\ s.auth = app.auth
        /\ s.out = None /\ s.dialogs = <<>> /\ s.worker = app.worker
    BY <1>0, <1>1, ClosedSafe
  <1>3. u # None
    <2>1. /\ Len(app.dialogs) \in Nat /\ Len(app.dialogs) # 0
          /\ Last(app.dialogs) = app.dialogs[Len(app.dialogs)]
      BY <1>0, <1>1 DEF Asked, Last
    <2> QED BY <1>0, <1>1, <2>1 DEF Asked
  <1> HIDE DEF u, s
  <1>4. s.auth /\ Idle(s) /\ u = s.tokens /\ u \in Accounts
    BY <1>2, <1>3 DEF Sound, Held, Shape, Users
  <1>5. s.request = None
    BY <1>2, <1>4 DEF Sound, Sending, Idle, Runs
  <1>6. /\ b = [f \in Fields |-> b[f]]
        /\ b.owner = None /\ b.seen = {} /\ b.queue = {}
        /\ b.batch = None /\ b.saved = None
        /\ b.worker = s.worker /\ b.auth = s.auth /\ b.active = s.active
        /\ b.synced = s.synced /\ b.user = s.user /\ b.out = s.out
        /\ b.tokens = s.tokens /\ b.dialogs = s.dialogs
        /\ b.request = s.request
    BY <1>2, MergedWith DEF Sound, Shape
  <1> HIDE DEF b
  <1>7. /\ r = [f \in Fields |-> r[f]]
        /\ r.owner = None /\ r.seen = {} /\ r.queue = {}
        /\ r.batch = None /\ r.saved = None
        /\ r.worker = s.worker /\ r.auth = s.auth /\ r.active = s.active
        /\ r.synced = s.synced /\ r.user = s.user /\ r.out = s.out
        /\ r.tokens = s.tokens /\ r.dialogs = s.dialogs
        /\ r.switch = None /\ r.request = s.request
    BY <1>6 DEF Fields
  <1> HIDE DEF r
  <1>8. Admitted(r, u)
    BY <1>2, <1>4, <1>5, <1>7 DEF Admitted, Sound, Shape, Idle, Users
  <1>9. /\ Sound(t) /\ Keeps(r, t) /\ t.saved = None
        /\ t.synced => t.waiting \/ t.request # None
    BY <1>7, <1>8, SignedInSafe
  <1> HIDE DEF t
  <1>10. Load(r) = {}
    BY <1>4, <1>7 DEF Load, Idle, Runs
  <1>11. Mine(t, cloud, Ledger(whose))
    BY <1>7, <1>9, <1>10 DEF Mine, Keeps
  <1>12. Asked(t)
    BY <1>2, <1>7, <1>9 DEF Asked, Keeps
  <1>13. Marked(t)
    BY <1>9 DEF Marked, Sound, Sending
  <1>14. Gone(t, left)
    BY <1>0, <1>2, <1>4 DEF Gone
  <1>15. app.out = None
    BY <1>0, <1>1 DEF Asked
  <1> QED BY <1>0, <1>1, <1>9, <1>11, <1>12, <1>13, <1>14, <1>15 DEF Kept, Good

\* A request that is still out may have been stored.
LEMMA MayReachSafe ==
    ASSUME IInv, MayReach(app.worker)
    PROVE  /\ World(cloud', Ledger(whose')) /\ Mine(app, cloud', Ledger(whose'))
           /\ \A e \in DOMAIN whose :
                 /\ e \in DOMAIN whose'
                 /\ whose'[e] = whose[e] \/ (e \in Load(app) /\ app.worker # None)
  <1>1. CASE /\ app.worker # None /\ ~app.worker.answered
             /\ Reaches(app.tokens, app.worker)
    BY <1>1, ReachesSafe DEF IInv
  <1>2. CASE UNCHANGED <<cloud, whose>>
    <2>1. cloud' = cloud /\ whose' = whose
      BY <1>2
    <2> QED BY <2>1 DEF IInv, Good
  <1> QED BY <1>1, <1>2 DEF MayReach

LEMMA RestartSafe == IInv /\ Restart => IInv'
  <1> SUFFICES ASSUME IInv, Restart PROVE IInv'
    OBVIOUS
  <1> DEFINE t == Restarted(app)
             w == Ledger(whose')
             v == [who |-> whose', bar |-> Barred', astray |-> astray']
  <1>1. app' = t /\ left' = left /\ late' = None /\ astray' = astray
    BY DEF Restart
  <1>2. World(cloud', w) /\ Mine(app, cloud', w)
    BY MayReachSafe DEF Restart
  <1>3. /\ Sound(t) /\ Load(t) \subseteq Load(app)
        /\ t.owner = app.owner /\ t.saved = app.saved /\ t.seen = app.seen
        /\ t.dialogs = <<>> /\ t.user = None /\ ~t.synced
        /\ t.out = None /\ ~t.auth
    BY RestartedSafe DEF IInv, Good
  <1>4. v.who = w.who /\ w.astray \subseteq v.astray /\ v.bar \subseteq w.bar
    BY <1>1 DEF Ledger, Barred
  <1> HIDE DEF t, v, w
  <1>5. World(cloud', v) /\ Mine(app, cloud', v)
    BY <1>2, <1>4, LedgerLess
  <1>6. Mine(t, cloud', v)
    BY <1>3, <1>5, MineKept
  <1>7. Asked(t) /\ Marked(t) /\ Gone(t, left)
    BY <1>3 DEF IInv, Good, Asked, Marked, Gone
  <1> QED BY <1>1, <1>3, <1>5, <1>6, <1>7 DEF IInv, Carried, Good, Ledger, v

\* What a worker carries is nobody's yet, or of the user it works for; and it
\* carries nothing while a quarantine or a sign-out holds the device.
LEMMA CarryingOwn ==
    ASSUME IInv, Carrying(app.worker)
    PROVE  /\ app.switch = None /\ app.out = None
           /\ app.worker.kind \in {"sync", "resolve"}
           /\ \A e \in app.worker.body.edits :
                 e \in DOMAIN whose /\ whose[e] \in {None, app.worker.body.user}
  <1>1. /\ Sound(app) /\ Mine(app, cloud, Ledger(whose))
        /\ app.worker # None /\ ~app.worker.answered
        /\ app.worker.kind \in {"sync", "resolve"}
    BY DEF IInv, Good, Carrying
  <1>2. app.switch = None /\ app.out = None
    BY <1>1 DEF Sound, Held, Idle
  <1>3. /\ app.worker.body.edits \subseteq Load(app)
        /\ app.owner \in {None, app.worker.body.user}
        /\ app.saved # None => app.saved.user = app.worker.body.user
    BY <1>1, NoneAssumption DEF Sound, Bound, Sending, Runs, Load
  <1> QED BY <1>1, <1>2, <1>3 DEF Mine, Home, Ledger

LEMMA SignOutSafe == IInv /\ SignOut => IInv'
  <1> SUFFICES ASSUME IInv, SignOut PROVE IInv'
    OBVIOUS
  <1>0. Sound(app) /\ Asked(app) /\ Gone(app, left)
    BY DEF IInv, Good
  <1> DEFINE r == IF app.dialogs = <<>> THEN app ELSE Closed(app)
             s == Leaving(r)
             x == Scrubbed(s)
             w == Ledger(whose')
             v == [who |-> whose', bar |-> Barred', astray |-> astray']
  <1>1. /\ World(cloud', w) /\ Mine(app, cloud', w) /\ astray' = astray
        /\ late' \in {late, None} \/ (late = None /\ Carrying(app.worker))
        /\ Carried'
    <2>1. CASE MayReach(app.worker) /\ astray' = astray /\ late' \in {late, None}
      <3>1. late' = late => Carried'
        BY <2>1, MayReachSafe, CarriedKept
      <3>2. late' = None => Carried'
        BY DEF Carried
      <3> QED BY <2>1, <3>1, <3>2, MayReachSafe
    <2>2. CASE /\ Carrying(app.worker) /\ late = None /\ late'.job = app.worker
               /\ cloud' = cloud /\ whose' = whose /\ astray' = astray
      BY <2>2, CarryingOwn DEF IInv, Good, Carried
    <2>3. \/ MayReach(app.worker) /\ astray' = astray /\ late' \in {late, None}
          \/ /\ Carrying(app.worker) /\ late = None /\ late'.job = app.worker
             /\ cloud' = cloud /\ whose' = whose /\ astray' = astray
      BY DEF SignOut, LeftBehind, loose
    <2> QED BY <2>1, <2>2, <2>3
  <1>2. \/ app' = s /\ left' = left /\ s.out = "reset" /\ s.switch = None
        \/ app' = CloudFailure(x) /\ left' = left
        \/ app' = Restarted(x) /\ left' = left /\ late' = None
        \/ app' = SignedOut(x) /\ left' = app.tokens
    BY DEF SignOut
  <1>3. /\ Sound(r) /\ Load(r) = Load(app) /\ r.dialogs = <<>>
        /\ r.owner = app.owner /\ r.saved = app.saved /\ r.seen = app.seen
        /\ r.tokens = app.tokens /\ r.switch = app.switch
        /\ r.user = app.user /\ r.auth = app.auth
    <2>1. CASE app.dialogs = <<>>
      BY <1>0, <2>1
    <2>2. CASE app.dialogs # <<>>
      <3>1. Last(app.dialogs).kind # "prompt"
        BY <2>2 DEF SignOut, AsksToLeave, Top
      <3> QED BY <1>0, <2>2, <3>1, ClosedSafe
    <2> QED BY <2>1, <2>2
  <1> HIDE DEF r
  <1>4. /\ Sound(s) /\ Load(s) \subseteq Load(app) /\ s.owner = app.owner
        /\ s.saved = app.saved /\ s.seen = app.seen /\ s.tokens = app.tokens
        /\ s.dialogs = <<>> /\ s.switch = app.switch /\ ~s.synced
        /\ s.out # None /\ s.user \in {app.user, app.owner}
        /\ s.auth = app.auth
    BY <1>3, LeavingSafe, NoneAssumption
  <1> HIDE DEF s
  <1>5. /\ Sound(x) /\ Load(x) \subseteq Load(s)
        /\ \/ x.owner = s.owner /\ x.saved = s.saved /\ x.seen = s.seen
           \/ IsBlank(x)
        /\ x.switch = None => IsBlank(x)
        /\ x.tokens = s.tokens /\ x.dialogs = s.dialogs /\ x.switch = s.switch
        /\ x.user = s.user /\ x.auth = s.auth /\ ~x.synced
        /\ x.out = "credentials"
    BY <1>4, ScrubbedSafe
  <1> HIDE DEF x
  <1>6. Gone(s, left) /\ Gone(x, left)
    BY <1>0, <1>4, <1>5 DEF Gone, IsBlank
  <1>7. v.who = w.who /\ v.astray = w.astray /\ v.bar = Barred' /\ w.bar = Barred
    BY <1>1 DEF Ledger
  <1>8. IInv' <=> Good(app', cloud', v, left')
    BY <1>1 DEF IInv, Ledger
  <1> HIDE DEF v, w
  <1>9. World(cloud', v)
    BY <1>1, <1>7 DEF World, Item
  <1>10. Barred' \subseteq Barred => Mine(s, cloud', v) /\ Mine(x, cloud', v)
    <2> SUFFICES ASSUME Barred' \subseteq Barred
                 PROVE  Mine(s, cloud', v) /\ Mine(x, cloud', v)
      OBVIOUS
    <2>1. Mine(app, cloud', v)
      BY <1>1, <1>7, LedgerLess
    <2>2. Mine(s, cloud', v)
      BY <1>4, <2>1, MineKept
    <2> QED BY <1>5, <2>2, MineKept, MineBlank
  <1>11. Mine(x, cloud', v)
    <2>1. CASE x.switch = None
      BY <1>5, <2>1, MineBlank
    <2>2. CASE x.switch # None
      <3>1. app.switch # None /\ late' \in {late, None}
        BY <1>1, <1>4, <1>5, <2>2, CarryingOwn
      <3>2. Barred' \subseteq Barred
        BY <3>1 DEF Barred
      <3> QED BY <1>10, <3>2
    <2> QED BY <2>1, <2>2
  <1>12. CASE app' = s /\ left' = left /\ s.out = "reset" /\ s.switch = None
    <2>1. Barred' = {}
      BY <1>12 DEF Barred
    <2>2. Mine(s, cloud', v)
      BY <1>10, <2>1
    <2> QED BY <1>4, <1>6, <1>8, <1>9, <1>12, <2>2 DEF Good, Asked, Marked
  <1>13. CASE app' = CloudFailure(x) /\ left' = left
    <2> DEFINE t == CloudFailure(x)
    <2>1. /\ Sound(t) /\ Keeps(x, t) /\ t.saved = x.saved
          /\ t.switch = x.switch /\ t.auth = x.auth /\ ~t.synced
          /\ t.user = x.user
      BY <1>5, CloudFailureSafe
    <2>2. app' = t
      BY <1>13
    <2> HIDE DEF t
    <2>3. Mine(t, cloud', v)
      BY <1>11, <2>1, MineKept DEF Keeps
    <2>4. Asked(t) /\ Marked(t) /\ Gone(t, left)
      BY <1>4, <1>5, <1>6, <2>1 DEF Keeps, Asked, Marked, Gone
    <2> QED BY <1>8, <1>9, <1>13, <2>1, <2>2, <2>3, <2>4 DEF Good
  <1>14. CASE app' = Restarted(x) /\ left' = left
    <2> DEFINE t == Restarted(x)
    <2>1. /\ Sound(t) /\ Load(t) \subseteq Load(x)
          /\ t.owner = x.owner /\ t.saved = x.saved /\ t.seen = x.seen
          /\ t.dialogs = <<>> /\ t.user = None /\ ~t.synced
          /\ t.out = None /\ ~t.auth
      BY <1>5, RestartedSafe
    <2>2. app' = t
      BY <1>14
    <2> HIDE DEF t
    <2>3. Mine(t, cloud', v)
      BY <1>11, <2>1, MineKept
    <2>4. Asked(t) /\ Marked(t) /\ Gone(t, left)
      BY <1>6, <2>1 DEF Asked, Marked, Gone
    <2> QED BY <1>8, <1>9, <1>14, <2>1, <2>2, <2>3, <2>4 DEF Good
  <1>15. CASE app' = SignedOut(x) /\ left' = app.tokens
    <2> DEFINE t == SignedOut(x)
    <2>1. /\ Sound(t) /\ Load(t) \subseteq Load(x)
          /\ t.owner = x.owner /\ t.saved = x.saved /\ t.seen = x.seen
          /\ t.dialogs = x.dialogs /\ ~t.synced /\ t.out = None /\ ~t.auth
          /\ t.user = IF t.saved # None THEN t.saved.user ELSE None
      BY <1>5, SignedOutSafe, NoneAssumption
    <2>2. app' = t
      BY <1>15
    <2> HIDE DEF t
    <2>3. Mine(t, cloud', v)
      BY <1>11, <2>1, MineKept
    <2>4. Gone(t, app.tokens)
      <3>0. app.tokens \in Users
        BY <1>0 DEF Sound, Shape
      <3>1. CASE x.switch = None
        BY <1>5, <2>1, <3>0, <3>1 DEF Gone, IsBlank
      <3>2. CASE x.switch # None
        <4>1. x.switch = app.tokens /\ BoundTo(x) \notin {None, app.tokens}
          BY <1>4, <1>5, <3>2 DEF Sound, Held
        <4>2. x.saved # None => x.owner \in {None, x.saved.user}
          BY <1>5 DEF Sound, Bound
        <4> QED BY <2>1, <3>0, <4>1, <4>2 DEF Gone, BoundTo
      <3> QED BY <3>1, <3>2
    <2>5. Asked(t) /\ Marked(t)
      BY <1>4, <1>5, <2>1 DEF Asked, Marked
    <2> QED BY <1>8, <1>9, <1>15, <2>1, <2>2, <2>3, <2>4, <2>5 DEF Good
  <1> QED BY <1>2, <1>12, <1>13, <1>14, <1>15

-----------------------------------------------------------------------------
(* The worker that a sign-out has left behind.                              *)

LEMMA LateEndsSafe == IInv /\ LateEnds => IInv'
  <1> SUFFICES ASSUME IInv, LateEnds PROVE IInv'
    OBVIOUS
  <1> DEFINE w == Ledger(whose)
             v == [who |-> whose', bar |-> Barred', astray |-> astray']
  <1>1. /\ app' = app /\ cloud' = cloud /\ whose' = whose /\ left' = left
        /\ late' = None /\ astray' = astray
    BY DEF LateEnds
  <1>2. v.who = w.who /\ w.astray \subseteq v.astray /\ v.bar \subseteq w.bar
    BY <1>1 DEF Ledger, Barred
  <1>3. Good(app, cloud, w, left)
    BY DEF IInv
  <1> HIDE DEF v, w
  <1>4. Good(app, cloud, v, left)
    BY <1>2, <1>3, LedgerLess DEF Good
  <1> QED BY <1>1, <1>4 DEF IInv, Carried, Ledger, v

\* It takes what it carries into the history of the session there is: to its
\* own account, or astray.  The workspace was blanked before that session, and
\* holds nothing of it.
LEMMA LateSendsSafe == IInv /\ LateSends => IInv'
  <1> SUFFICES ASSUME IInv, LateSends PROVE IInv'
    OBVIOUS
  <1> DEFINE job == late.job
             edits == job.body.edits
             a == app.tokens
             n == Stored(cloud[a], job)
             v == [who |-> whose', bar |-> Barred', astray |-> astray']
  <1>1. /\ app' = app /\ left' = left /\ late' = None /\ late # None
        /\ app.out = None /\ a \in Accounts /\ Reaches(a, job)
        /\ Good(app, cloud, Ledger(whose), left) /\ Sound(app)
    BY DEF LateSends, IInv, Good, Sound, Shape, Users
  <1>2. /\ job.kind \in {"sync", "resolve"} /\ Barred = edits
        /\ \A e \in edits : e \in DOMAIN whose /\ whose[e] \in {None, job.body.user}
    BY <1>1, BarredWhile DEF IInv, Carried
  <1>3. astray' = astray \cup (IF a = job.body.user THEN {}
                               ELSE (edits \cap cloud'[a].items) \X {a})
    BY DEF LateSends
  <1>4. v.who = whose' /\ v.bar = {} /\ v.astray = astray'
    BY <1>1 DEF Barred
  <1>5. /\ Ledger(whose).who = whose /\ Ledger(whose).bar = edits
        /\ Ledger(whose).astray = astray
    BY <1>2 DEF Ledger
  <1>6. IInv' <=> Good(app', cloud', v, left')
    BY <1>1 DEF IInv, Carried, Ledger
  <1> HIDE DEF v
  <1>7. CASE UNCHANGED <<cloud, whose>>
    <2>1. cloud' = cloud /\ whose' = whose
      BY <1>7
    <2>2. Good(app, cloud, v, left)
      BY <1>1, <1>3, <1>4, <1>5, <2>1, LedgerLess DEF Good
    <2> QED BY <1>1, <1>6, <2>1, <2>2
  <1>8. CASE /\ cloud' = [cloud EXCEPT ![a] = n]
             /\ whose' = [e \in DOMAIN whose |->
                           IF whose[e] = None /\ e \in n.items THEN a ELSE whose[e]]
    <2>1. /\ n = [rev |-> n.rev, items |-> n.items, done |-> n.done]
          /\ n.items \subseteq cloud[a].items \cup edits
          /\ n.done \in {cloud[a].done, app.saved}
      <3>1. cloud[a] = [rev |-> cloud[a].rev, items |-> cloud[a].items,
                        done |-> cloud[a].done]
        BY <1>1 DEF Good, World
      <3>2. CASE job.kind = "sync"
        BY <3>1, <3>2 DEF Stored
      <3>3. CASE job.kind = "resolve"
        BY <3>1, <3>3 DEF Stored
      <3> QED BY <1>2, <3>2, <3>3
    <2> HIDE DEF n
    <2>2. /\ cloud' = [b \in Accounts |-> cloud'[b]]
          /\ \A b \in Accounts : cloud'[b] = IF b = a THEN n ELSE cloud[b]
      BY <1>1, <1>8 DEF Good, World
    <2>3. DOMAIN whose \subseteq Edits /\ DOMAIN whose \cap Accounts = {}
      BY <1>1, <1>5, EditsApart DEF Good, World
    <2>4. \A b \in Accounts : \A e \in cloud[b].items : Item(b, Ledger(whose), e)
      BY <1>1 DEF Good, World
    <2>5. /\ DOMAIN whose' = DOMAIN whose
          /\ \A e \in DOMAIN whose :
                \/ whose'[e] = whose[e]
                \/ whose[e] = None /\ whose'[e] = a /\ e \in edits
      BY <1>1, <1>5, <1>8, <2>1, <2>3, <2>4 DEF Item
    <2>6. astray \subseteq astray'
      BY <1>3
    <2>7. \A b : \A e : Item(b, Ledger(whose), e) => Item(b, v, e)
      BY <1>4, <1>5, <2>5, <2>6 DEF Item
    <2>8. \A e \in n.items \cap edits : Item(a, v, e)
      <3> SUFFICES ASSUME NEW e \in n.items, e \in edits
                   PROVE  Item(a, v, e)
        OBVIOUS
      <3>1. e \in DOMAIN whose /\ whose[e] \in {None, job.body.user} /\ e \notin Accounts
        BY <1>2, <2>3
      <3>2. CASE whose[e] = None
        <4>1. whose'[e] = a
          BY <1>8, <3>1, <3>2
        <4> QED BY <1>1, <1>4, <2>5, <3>1, <4>1, NoneAssumption DEF Item
      <3>3. CASE whose[e] # None
        <4>1. whose'[e] = job.body.user /\ job.body.user # None
          BY <2>5, <3>1, <3>3
        <4>2. a # job.body.user => <<e, a>> \in astray'
          BY <1>1, <1>3, <2>2
        <4> QED BY <1>4, <2>5, <3>1, <4>1, <4>2 DEF Item
      <3> QED BY <3>2, <3>3
    <2>9. World(cloud', v)
      <3>1. whose' \in Seq(Users) /\ Len(whose') <= MaxEdits
        <4>1. /\ whose \in Seq(Users) /\ DOMAIN whose = 1..Len(whose)
              /\ Len(whose) \in Nat /\ Len(whose) <= MaxEdits
          BY <1>1, <1>5, EditsApart DEF Good, World
        <4>2. whose' \in [1..Len(whose) -> Users]
          BY <1>1, <1>8, <4>1 DEF Users
        <4> QED BY <4>1, <4>2
      <3>2. \A b \in Accounts : \A e \in cloud'[b].items : Item(b, v, e)
        BY <1>1, <2>1, <2>2, <2>4, <2>7, <2>8
      <3>3. \A b \in Accounts :
               cloud'[b] = [rev |-> cloud'[b].rev, items |-> cloud'[b].items,
                            done |-> cloud'[b].done]
        BY <1>1, <2>1, <2>2 DEF Good, World
      <3> QED BY <1>4, <2>2, <3>1, <3>2, <3>3 DEF World
    <2>10. Mine(app, cloud', v)
      <3>1. ASSUME NEW e \in Load(app) PROVE Home(app, cloud', v, e)
        <4>1. Home(app, cloud, Ledger(whose), e)
          BY <1>1 DEF Good, Mine
        <4>2. e \in DOMAIN whose /\ e \notin edits /\ whose'[e] = whose[e]
          BY <1>5, <2>5, <4>1 DEF Home
        <4>3. /\ app.saved # None
              /\ cloud[app.saved.user].done = app.saved
              => cloud'[app.saved.user].done = app.saved
          BY <1>1, <2>1, <2>2 DEF Sound, Shape
        <4> QED BY <1>4, <1>5, <2>5, <4>1, <4>2, <4>3 DEF Home
      <3>2. \A e \in app.seen : Item(app.owner, v, e)
        BY <1>1, <2>7 DEF Good, Mine
      <3> QED BY <1>1, <3>1, <3>2 DEF Good, Mine
    <2> QED BY <1>1, <1>6, <2>9, <2>10 DEF Good
  <1>9. UNCHANGED <<cloud, whose>> \/
        /\ cloud' = [cloud EXCEPT ![a] = n]
        /\ whose' = [e \in DOMAIN whose |->
                      IF whose[e] = None /\ e \in n.items THEN a ELSE whose[e]]
    BY <1>1 DEF Reaches
  <1> QED BY <1>7, <1>8, <1>9

-----------------------------------------------------------------------------
(* The theorems.                                                            *)

LEMMA InitSafe == Init => IInv
  <1> SUFFICES ASSUME Init PROVE IInv
    OBVIOUS
  <1>1. /\ app = [f \in Fields |-> app[f]]
        /\ app.auth = FALSE /\ app.worker = None /\ app.active = FALSE
        /\ app.user = None /\ app.switch = None /\ app.out = None
        /\ app.request = None /\ app.synced = FALSE /\ app.dialogs = <<>>
        /\ app.owner = None /\ app.seen = {} /\ app.queue = {}
        /\ app.batch = None /\ app.saved = None /\ app.tokens = None
    BY DEF Init, Memory, Blank, Fields, With
  <1>2. whose = <<>> /\ left = None /\ late = None
    BY DEF Init
  <1>3. Sound(app)
    BY <1>1, NoneAssumption DEF Sound, Shape, Held, Bound, Sending, Fields,
      Runs, Idle, BoundTo, IsBlank, Users
  <1>4. Asked(app) /\ Marked(app) /\ Gone(app, left)
    BY <1>1, <1>2 DEF Asked, Marked, Gone, Users
  <1>5. Mine(app, cloud, Ledger(whose))
    BY <1>1 DEF Mine, Load, Runs
  <1>6. World(cloud, Ledger(whose))
    <2>1. cloud = [a \in Accounts |-> [rev |-> 0, items |-> {}, done |-> None]]
      BY DEF Init
    <2>2. \A a \in Accounts :
             /\ cloud[a] = [rev |-> 0, items |-> {}, done |-> None]
             /\ cloud[a] = [rev |-> cloud[a].rev, items |-> cloud[a].items,
                            done |-> cloud[a].done]
             /\ cloud[a].items = {}
      BY <2>1
    <2>3. cloud = [a \in Accounts |-> cloud[a]]
      BY <2>1
    <2>4. <<>> \in Seq(Users) /\ Len(<<>>) <= MaxEdits
      BY BoundAssumption
    <2> QED BY <1>2, <2>2, <2>3, <2>4 DEF World, Ledger
  <1> QED BY <1>2, <1>3, <1>4, <1>5, <1>6 DEF IInv, Good, Carried

LEMMA StepSafe == IInv /\ [Next]_vars => IInv'
  <1> SUFFICES ASSUME IInv, [Next]_vars PROVE IInv'
    OBVIOUS
  <1>1. CASE Login \/ RestoreRetry \/ Finish
    <2>1. Kept
      BY <1>1, LoginSafe, RestoreRetrySafe, FinishSafe
    <2>2. UNCHANGED loose
      BY <1>1 DEF Login, RestoreRetry, Finish
    <2> QED BY <2>1, <2>2, KeptSafe
  <1>2. CASE WorkerEnds
    <2>1. Kept
      BY <1>2, SignInAnsweredSafe, SignInFailsSafe, SyncAnsweredSafe,
         PreviewAnsweredSafe, ResolveAnsweredSafe, ResolveRefusedSafe,
         UnauthorizedSafe, RequestFailsSafe DEF WorkerEnds
    <2>2. UNCHANGED loose
      BY <1>2 DEF WorkerEnds, SignInAnswered, SignInFails, SyncAnswered,
         PreviewAnswered, ResolveAnswered, ResolveRefused, Unauthorized,
         RequestFails, ApplyFails
    <2> QED BY <2>1, <2>2, KeptSafe
  <1>3. CASE Tick \/ RevisionAvailable
    <2>1. Kept /\ UNCHANGED loose
      BY <1>3, TickSafe DEF Tick, RevisionAvailable
    <2> QED BY <2>1, KeptSafe
  <1>4. CASE StreamRefused \/ RetrySync \/ RetryResolution \/ Edit \/ OtherDevice
    <2>1. Kept
      BY <1>4, StreamRefusedSafe, RetrySyncSafe, RetryResolutionSafe, EditSafe,
         OtherDeviceSafe
    <2>2. UNCHANGED loose
      BY <1>4 DEF StreamRefused, RetrySync, RetryResolution, Edit, OtherDevice
    <2> QED BY <2>1, <2>2, KeptSafe
  <1>5. CASE OpenAccount \/ Cancel \/ Choose \/ Resume \/ Switch
    <2>1. Kept
      BY <1>5, OpenAccountSafe, CancelSafe, ChooseSafe, ResumeSafe, SwitchSafe
    <2>2. UNCHANGED loose
      BY <1>5 DEF OpenAccount, Cancel, Choose, Resume, Switch
    <2> QED BY <2>1, <2>2, KeptSafe
  <1>6. CASE SignOut \/ Restart \/ LateSends \/ LateEnds
    BY <1>6, SignOutSafe, RestartSafe, LateSendsSafe, LateEndsSafe
  <1>7. CASE UNCHANGED vars
    BY <1>7 DEF vars, loose, IInv, Good, Carried, Ledger, Barred
  <1> QED BY <1>1, <1>2, <1>3, <1>4, <1>5, <1>6, <1>7 DEF Next

\* In every reachable state the device is sound: whose the session, the saved
\* request and the workspace are agree as signed_in, prepare_resolution and
\* sign_out leave them, and every edit it holds or has sent is at home.
THEOREM Invariance == Spec => []IInv
  <1>1. Init => IInv
    BY InitSafe
  <1>2. IInv /\ [Next]_vars => IInv'
    BY StepSafe
  <1> QED BY <1>1, <1>2, PTL DEF Spec

\* Nothing of one account ever gets into the history of another: signed_in
\* quarantines a workspace bound elsewhere, and a saved request of
\* prepare_resolution goes out only for its own user.  The one exception is what
\* a worker carried when its session was signed out and then sent with the tokens
\* of another, which authorized_request allows.
THEOREM AccountsStayApart == Spec => []AccountsApart
  <1>1. IInv => AccountsApart
    BY DEF IInv, Good, World, Item, Ledger, AccountsApart
  <1> QED BY <1>1, Invariance, PTL

\* After sign_out the workspace holds neither history nor edits of the account
\* that left, whatever refusals and crashes came before it: the reset of
\* prepare_sign_out is committed before the credentials go.  What a late worker
\* took into another account comes back as history of that account.
THEOREM SignOutIsComplete == Spec => []SignedOutLeavesNothing
  <1>1. IInv => SignedOutLeavesNothing
    <2> SUFFICES ASSUME IInv, left # None
                 PROVE  /\ left \notin app.seen /\ app.owner # left
                        /\ \A e \in app.queue : whose[e] # left
                        /\ \A e \in app.seen \cap Edits :
                              whose[e] # left \/ <<e, app.owner>> \in astray
      BY DEF SignedOutLeavesNothing
    <2>1. /\ Mine(app, cloud, Ledger(whose)) /\ Gone(app, left) /\ Sound(app)
      BY DEF IInv, Good
    <2>2. app.owner # left /\ (app.saved # None => app.saved.user # left)
      BY <2>1 DEF Gone
    <2>3. \A e \in app.queue : whose[e] # left
      BY <2>1, <2>2 DEF Mine, Home, Load, Ledger
    <2>4. \A e \in app.seen : Item(app.owner, Ledger(whose), e)
      BY <2>1 DEF Mine
    <2>5. \A e \in app.seen \cap Edits :
             whose[e] # left \/ <<e, app.owner>> \in astray
      BY <2>2, <2>4, NameAssumption DEF Item, Ledger
    <2>6. left \notin app.seen
      <3>1. left \in Accounts
        BY <2>1 DEF Gone, Users
      <3> QED BY <2>2, <2>4, <3>1 DEF Item
    <2> QED BY <2>2, <2>3, <2>5, <2>6
  <1> QED BY <1>1, Invariance, PTL

\* The check mark of the account button never stands over edits that neither
\* are in the account's history nor under way: apply_sync and apply_resolution
\* set it only when has_sendable_sync_operations finds nothing.
THEOREM SyncedIsSent == Spec => []SyncedMeansSent
  <1>1. IInv => SyncedMeansSent
    BY DEF IInv, Good, Marked, SyncedMeansSent
  <1> QED BY <1>1, Invariance, PTL

\* While the switch dialog of account_action is open the quarantine it asks
\* about stands, so account_switch_user is still set when it is answered.
THEOREM SwitchDialogStands == Spec => []SwitchStands
  <1>1. IInv => SwitchStands
    <2>1. ASSUME IInv
          PROVE  DOMAIN app.dialogs = 1..Len(app.dialogs)
      BY <2>1 DEF IInv, Good, Asked
    <2> QED BY <2>1 DEF IInv, Good, Asked, SwitchStands
  <1> QED BY <1>1, Invariance, PTL

===============================================================================
