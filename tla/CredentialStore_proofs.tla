----------------------- MODULE CredentialStore_proofs -----------------------
(***************************************************************************)
(* For any set of tokens and with power losses: the steps of TokenStore    *)
(* keep IInv, and every one of them is a step of CredentialRegister or     *)
(* leaves the register alone.                                              *)
(***************************************************************************)
EXTENDS CredentialStore, TLAPS

\* A directory whose journal is replaced or unlinked is a directory.
LEMMA WithJournal ==
    ASSUME NEW files \in Files, NEW tokens \in Stored
    PROVE  LET new == [files EXCEPT !.journal = tokens]
           IN  /\ new \in Files /\ new.journal = tokens
               /\ new.tombstone = files.tombstone /\ new.identity = files.identity
  BY DEF Files

\* A directory whose tombstone is installed or removed is a directory.
LEMMA WithTombstone ==
    ASSUME NEW files \in Files, NEW there \in BOOLEAN
    PROVE  LET new == [files EXCEPT !.tombstone = there]
           IN  /\ new \in Files /\ new.tombstone = there
               /\ new.journal = files.journal /\ new.identity = files.identity
  BY DEF Files

\* A directory whose identity sidecar is rewritten is a directory.
LEMMA WithIdentity ==
    ASSUME NEW files \in Files, NEW tokens \in Stored
    PROVE  LET new == [files EXCEPT !.identity = tokens]
           IN  /\ new \in Files /\ new.identity = tokens
               /\ new.journal = files.journal /\ new.tombstone = files.tombstone
  BY DEF Files

\* Changing the step of the running call changes nothing else of it.
LEMMA StepChanged ==
    ASSUME NEW c \in Call, NEW step \in Steps
    PROVE  LET new == [c EXCEPT !.step = step]
           IN  /\ new \in Call /\ new # Idle /\ new.step = step
               /\ new.kind = c.kind /\ new.tokens = c.tokens
               /\ new.before = c.before /\ new.replaying = c.replaying
  BY DEF Call, Idle, Kinds

\* Going to another step leaves the rest of the call and its caller alone.
LEMMA StepTaken ==
    ASSUME call \in Call, NEW step \in Steps, Go(step)
    PROVE  /\ call' \in Call /\ Running' /\ call'.step = step
           /\ call'.kind = call.kind /\ call'.tokens = call.tokens
           /\ call'.before = call.before /\ call'.replaying = call.replaying
           /\ UNCHANGED <<answer, session, powerLost>>
  BY StepChanged DEF Go, Running

\* A running call is a record of Call; Idle is none.
LEMMA RunningCall ==
    ASSUME TypeOK
    PROVE  /\ Running <=> call \in Call
           /\ ~Running <=> call = Idle
  BY DEF TypeOK, Running, Call, Idle, Kinds

\* An empty store satisfies the inductive invariant.
LEMMA InitInvariant == Init => IInv
  <1> SUFFICES ASSUME Init PROVE IInv
    OBVIOUS
  <1>1. TypeOK
    BY DEF Init, TypeOK, NoFiles, Files, Stored
  <1>2. ~Running /\ Value = NoTokens
    BY DEF Init, Running, Value, Effective, NoFiles
  <1>3. ReplayInv /\ SaveInv /\ CommitInv /\ ClearInv /\ ReturnInv
    BY <1>2 DEF ReplayInv, SaveInv, CommitInv, ClearInv, ReturnInv, At
  <1>4. CallerInv
    BY <1>2 DEF Init, CallerInv
  <1> QED BY <1>1, <1>3, <1>4 DEF IInv

\* What load returns, in the three cases of the commit protocol.
LEMMA EffectiveCases ==
    ASSUME NEW journal, NEW tombstone \in BOOLEAN, NEW item
    PROVE  /\ journal # NoTokens => Effective(journal, tombstone, item) = journal
           /\ journal = NoTokens /\ tombstone =>
                  Effective(journal, tombstone, item) = NoTokens
           /\ journal = NoTokens /\ ~tombstone =>
                  Effective(journal, tombstone, item) = item
  BY DEF Effective

\* The request of a running call, as the register sees it.
LEMMA RunningRequest ==
    ASSUME TypeOK, Running
    PROVE  \E r \in Request : r.kind = call.kind /\ r.before = call.before
                              /\ r.after = After
  BY DEF Request

\* A call that returns keeps the invariant if the value is the one its outcome
\* promises, and ends the register's request.
LEMMA ReturnKeeps ==
    ASSUME IInv, Running, NEW outcome \in {"ok", "pending", "refused"},
           Return(outcome),
           dir' \in Files, synced' \in Files, secret' \in Stored,
           Value' = (IF outcome = "refused" THEN call.before ELSE After),
           outcome = "ok" \/ (call.kind = "load" /\ answer = "ok") =>
               dir'.journal = NoTokens /\ synced'.journal = NoTokens
    PROVE  IInv'
  <1> USE DEF IInv
  <1>1. call \in Call /\ ~Running'
    BY RunningCall DEF Return, Running
  <1>2. TypeOK'
    BY <1>1 DEF TypeOK, Return, SessionAfter, Call, Stored
  <1>3. ReplayInv' /\ SaveInv' /\ CommitInv' /\ ClearInv' /\ ReturnInv'
    BY <1>1 DEF ReplayInv, SaveInv, CommitInv, ClearInv, ReturnInv, At
  <1>4. CallerInv'
    <2>1. session' # NoTokens => session' = Value'
      <3>1. CASE call.kind = "save" /\ outcome # "refused"
        BY <3>1 DEF Return, SessionAfter, After
      <3>2. CASE call.kind = "expire" \/ (call.kind = "clear" /\ outcome # "refused")
        BY <3>2 DEF Return, SessionAfter
      <3>3. CASE call.kind \in {"clear", "save"} /\ outcome = "refused"
        BY <3>3 DEF Return, SessionAfter, CallerInv
      <3>4. CASE call.kind \in {"load", "cleanup"}
        BY <3>4 DEF Return, SessionAfter, CallerInv, After
      <3> QED BY <1>1, <3>1, <3>2, <3>3, <3>4 DEF Call, Kinds
    <2>2. answer' = "ok" => outcome = "ok" \/ (call.kind = "load" /\ answer = "ok")
      BY DEF Return
    <2> QED BY <1>1, <2>1, <2>2 DEF CallerInv
  <1> QED BY <1>2, <1>3, <1>4

\* Such a return is the end of the register's request.
LEMMA ReturnEnds ==
    ASSUME IInv, Running, NEW outcome \in {"ok", "pending", "refused"},
           Return(outcome),
           Value' = (IF outcome = "refused" THEN call.before ELSE After),
           Value' \in Fragile',
           Fragile' \subseteq Fragile \cup {call.before, After},
           outcome = "ok" /\ call.kind # "load" => Fragile' = {Value'}
    PROVE  Register!Next
  <1>1. PICK r \in Request : r.kind = call.kind /\ r.before = call.before
                             /\ r.after = After
    BY RunningRequest DEF IInv
  <1>2. Request' = {}
    BY DEF Return, Request, Running
  <1>3. Register!Move(r)
    BY <1>1 DEF Register!Move
  <1>4. Register!End(outcome)
    BY <1>1, <1>2, <1>3 DEF Register!End, Return
  <1> QED BY <1>4 DEF Register!Next

\* A step inside a call works on the register's request.
LEMMA StepWorks ==
    ASSUME IInv, Running, NEW step \in Steps, Go(step),
           Value' \in {call.before, After},
           Value' \in Fragile',
           Fragile' \subseteq Fragile \cup {call.before, After}
    PROVE  Register!Next
  <1>1. PICK r \in Request : r.kind = call.kind /\ r.before = call.before
                             /\ r.after = After
    BY RunningRequest DEF IInv
  <1>2. /\ Running' /\ call'.kind = call.kind /\ call'.tokens = call.tokens
        /\ call'.before = call.before
    BY RunningCall, StepChanged DEF IInv, Go, Running
  <1>3. Request' = Request /\ answer' = answer
    BY <1>2 DEF Go, Request, After
  <1>4. Register!Move(r)
    BY <1>1 DEF Register!Move
  <1>5. Register!Work
    BY <1>1, <1>3, <1>4 DEF Register!Work
  <1> QED BY <1>5 DEF Register!Next

\* What may be on disk includes what the processes see.
LEMMA ValueIsFragile == Value \in Fragile /\ Value' \in Fragile'
  BY DEF Value, Fragile
\* After a directory sync a power loss leaves the value and nothing else.
LEMMA SyncedFragile ==
    ASSUME dir' = synced'
    PROVE  Fragile' = {Value'}
  BY DEF Fragile, Value

\* A return moves no file by itself.
LEMMA UntouchedValue ==
    ASSUME Untouched, secret' = secret
    PROVE  Value' = Value /\ Fragile' = Fragile
  BY DEF Untouched, Value, Fragile

-----------------------------------------------------------------------------
(* One lemma per action: the invariant is kept and the register takes a step. *)

\* A save takes effect when its journal is in place.
LEMMA WriteJournalSafe ==
    ASSUME IInv, WriteJournal
    PROVE  IInv' /\ Register!Next
  <1> DEFINE files == [dir EXCEPT !.journal = call.tokens]
  <1>1. /\ Running /\ call.step = "journal" /\ secret' = secret
        /\ call \in Call /\ dir \in Files /\ synced \in Files /\ secret \in Stored
    BY RunningCall DEF WriteJournal, At, IInv, TypeOK
  <1>2. /\ call.kind = "save" /\ ~call.replaying
        /\ dir.journal = NoTokens /\ Value = call.before /\ call.tokens # NoTokens
        /\ answer = "none" /\ After = call.tokens /\ call.tokens \in Stored
    BY <1>1 DEF IInv, ReplayInv, SaveInv, ClearInv, ReturnInv, CallerInv, Call,
       Kinds, After
  <1>3. files \in Files /\ files.journal = call.tokens
        /\ files.tombstone = dir.tombstone
    BY <1>1, <1>2, WithJournal
  <1>4. Effective(files.journal, files.tombstone, secret) = call.tokens
    BY <1>2, <1>3 DEF Effective
  <1>5. CASE Durable(files) /\ Go("secret")
    <2>1. Value' = After /\ Fragile' = {Value'}
      BY <1>1, <1>2, <1>4, <1>5, SyncedFragile DEF Durable, Value
    <2>2. /\ call' \in Call /\ Running' /\ call'.step = "secret"
          /\ call'.kind = "save" /\ call'.tokens = call.tokens
          /\ call'.before = call.before /\ ~call'.replaying
          /\ UNCHANGED <<answer, session, powerLost>>
      BY <1>1, <1>2, <1>5, StepTaken DEF Steps
    <2>3. Effective(NoTokens, dir'.tombstone, secret') = call.before
      BY <1>1, <1>2, <1>3, <1>5 DEF Durable, Value
    <2>4. IInv'
      BY <1>1, <1>2, <1>3, <1>5, <2>1, <2>2, <2>3
         DEF IInv, TypeOK, ReplayInv, SaveInv, CommitInv, ClearInv, ReturnInv,
             CallerInv, At, Durable, Steps
    <2>5. Register!Next
      BY <1>1, <1>5, <2>1, StepWorks DEF Steps
    <2> QED BY <2>4, <2>5
  <1>6. CASE Unsynced(files) /\ Return("pending")
    <2>1. Value' = After
      BY <1>1, <1>2, <1>4, <1>6 DEF Unsynced, Value
    <2>2. Fragile' \subseteq Fragile \cup {call.before, After}
      BY <1>1, <1>2, <1>3, <1>4, <1>6 DEF Unsynced, Fragile, Effective
    <2> QED
      BY <1>1, <1>2, <1>3, <1>6, <2>1, <2>2, ReturnKeeps, ReturnEnds, ValueIsFragile
         DEF Unsynced
  <1>7. CASE Untouched /\ Return("refused")
    BY <1>1, <1>2, <1>7, UntouchedValue, ReturnKeeps, ReturnEnds, ValueIsFragile
       DEF Untouched
  <1> QED BY <1>5, <1>6, <1>7 DEF WriteJournal
\* Behind the journal the keyring may or may not have been written.
LEMMA SaveSecretSafe ==
    ASSUME IInv, SaveSecret
    PROVE  IInv' /\ Register!Next
  <1>1. /\ Running /\ call.step = "secret" /\ dir' = dir /\ synced' = synced
        /\ call \in Call /\ dir \in Files /\ synced \in Files /\ secret \in Stored
        /\ secret' \in {secret, dir.journal} /\ secret' \in Stored
    BY RunningCall DEF SaveSecret, At, IInv, TypeOK, Untouched, Files
  <1>2. /\ call.replaying \/ call.kind = "save"
        /\ call.replaying => dir.journal = call.before /\ call.before # NoTokens
        /\ ~call.replaying =>
              /\ dir.journal = call.tokens /\ call.tokens # NoTokens
              /\ dir = synced /\ After = call.tokens
              /\ Effective(NoTokens, dir.tombstone, secret) = call.before
    BY <1>1 DEF IInv, ReplayInv, SaveInv, ClearInv, ReturnInv, CallerInv, Call,
       Kinds, After
  <1>3. /\ dir.journal # NoTokens /\ Value' = dir.journal /\ Value = dir.journal
        /\ answer # "ok"
    BY <1>1, <1>2 DEF Value, Effective, IInv, CallerInv
  <1>4. Value' = (IF call.replaying THEN call.before ELSE After)
    BY <1>2, <1>3
  <1>5. Fragile' \subseteq Fragile \cup {call.before, After}
    <2>1. CASE call.replaying
      <3>1. SUFFICES ASSUME NEW journal \in {dir.journal, synced.journal},
                            NEW tombstone \in {dir.tombstone, synced.tombstone}
                     PROVE  Effective(journal, tombstone, secret')
                                \in Fragile \cup {call.before, After}
        BY <1>1 DEF Fragile
      <3>2. Effective(journal, tombstone, secret) \in Fragile
        BY DEF Fragile
      <3>3. tombstone \in BOOLEAN
        BY <1>1 DEF Files
      <3>4. Effective(journal, tombstone, secret')
               \in {Effective(journal, tombstone, secret), dir.journal}
        BY <1>1, <3>3, EffectiveCases
      <3> QED BY <1>2, <2>1, <3>2, <3>4
    <2>2. CASE ~call.replaying
      BY <1>1, <1>2, <1>3, <1>4, <2>2, SyncedFragile
    <2> QED BY <2>1, <2>2
  <1>6. CASE secret' = dir.journal /\ Go("fallback")
    <2>1. /\ call' \in Call /\ Running' /\ call'.step = "fallback"
          /\ call'.kind = call.kind /\ call'.tokens = call.tokens
          /\ call'.before = call.before /\ call'.replaying = call.replaying
          /\ UNCHANGED <<answer, session, powerLost>>
      BY <1>1, <1>6, StepTaken DEF Steps
    <2>2. IInv'
      BY <1>1, <1>2, <1>6, <2>1
         DEF IInv, TypeOK, ReplayInv, SaveInv, CommitInv, ClearInv, ReturnInv,
             CallerInv, At, Steps
    <2>3. Register!Next
      BY <1>1, <1>4, <1>5, <1>6, StepWorks, ValueIsFragile DEF Steps
    <2> QED BY <2>2, <2>3
  <1>7. CASE Return(Interrupted)
    BY <1>1, <1>3, <1>4, <1>5, <1>7, ReturnKeeps, ReturnEnds, ValueIsFragile
       DEF Interrupted
  <1>8. CASE ~call.replaying /\ secret' = secret /\ OnRejection
    <2>1. /\ call' \in Call /\ Running' /\ call'.step = "abort"
          /\ call'.kind = call.kind /\ call'.tokens = call.tokens
          /\ call'.before = call.before /\ call'.replaying = call.replaying
          /\ UNCHANGED <<answer, session, powerLost>>
      BY <1>1, <1>8, StepTaken DEF OnRejection, Steps
    <2>2. IInv'
      BY <1>1, <1>2, <1>8, <2>1
         DEF IInv, TypeOK, ReplayInv, SaveInv, CommitInv, ClearInv, ReturnInv,
             CallerInv, At, Steps
    <2>3. Register!Next
      BY <1>1, <1>4, <1>5, <1>8, StepWorks, ValueIsFragile DEF Steps, OnRejection
    <2> QED BY <2>2, <2>3
  <1> QED BY <1>6, <1>7, <1>8 DEF SaveSecret

\* In the middle of a commit the journal decides, so what happens to the other
\* files can only surface by a power loss that brings an older journal back.
LEMMA CommitValue ==
    ASSUME TypeOK, secret' = secret, dir' \in Files,
           dir.journal # NoTokens, dir'.journal = dir.journal, secret = dir.journal,
           synced' = synced \/ synced' = dir',
           dir'.tombstone => dir.tombstone
    PROVE  /\ Value = dir.journal /\ Value' = dir.journal
           /\ Fragile' \subseteq Fragile \cup {dir.journal}
  <1>1. Value = dir.journal /\ Value' = dir.journal
    BY DEF Value, Effective
  <1>2. CASE synced' = dir'
    BY <1>1, <1>2, SyncedFragile
  <1>3. ASSUME synced' = synced
        PROVE  Fragile' \subseteq Fragile \cup {dir.journal}
    <2>1. SUFFICES ASSUME NEW journal \in {dir.journal, synced.journal},
                          NEW tombstone \in {dir'.tombstone, synced.tombstone}
                   PROVE  Effective(journal, tombstone, secret)
                              \in Fragile \cup {dir.journal}
      BY <1>3 DEF Fragile
    <2>2. tombstone \in BOOLEAN
      BY DEF TypeOK, Files
    <2>3. CASE tombstone \in {dir.tombstone, synced.tombstone}
      BY <2>3 DEF Fragile
    <2>4. CASE ~tombstone /\ journal = NoTokens
      BY <2>2, <2>4, EffectiveCases
    <2>5. CASE journal # NoTokens
      <3>1. Effective(journal, tombstone, secret) = journal
        BY <2>2, <2>5, EffectiveCases
      <3>2. Effective(journal, dir.tombstone, secret) = journal
        BY <2>5 DEF Effective
      <3> QED BY <3>1, <3>2 DEF Fragile
    <2>6. tombstone => tombstone \in {dir.tombstone, synced.tombstone}
      BY DEF TypeOK, Files
    <2> QED BY <2>3, <2>4, <2>5, <2>6
  <1> QED BY <1>1, <1>2, <1>3

\* What a commit finds after the keyring was written.
LEMMA CommitFacts ==
    ASSUME IInv, Running, call.step \in {"fallback", "identity", "unlink"}
    PROVE  /\ call \in Call /\ dir \in Files /\ synced \in Files /\ secret \in Stored
           /\ secret = dir.journal /\ dir.journal # NoTokens /\ answer # "ok"
           /\ call.replaying \/ call.kind = "save"
           /\ call.replaying => dir.journal = call.before
           /\ ~call.replaying => /\ dir.journal = call.tokens /\ After = call.tokens
                                 /\ synced.journal = call.tokens
           /\ call.step # "fallback" => ~dir.tombstone
           /\ call.step = "unlink" => dir = synced
  <1>1. /\ call \in Call /\ dir \in Files /\ synced \in Files /\ secret \in Stored
    BY RunningCall DEF IInv, TypeOK
  <1> QED
    BY <1>1 DEF IInv, ReplayInv, SaveInv, CommitInv, ClearInv, ReturnInv, CallerInv,
       Call, Kinds, After, At

\* A commit write that changes only the files beside the journal.
LEMMA CommitWrite ==
    ASSUME IInv, NEW files \in Files,
           NEW step \in {"fallback", "identity"}, NEW next \in {"identity", "unlink"},
           Write(step, files, next),
           step = "identity" <=> next = "unlink",
           files.journal = dir.journal, ~files.tombstone
    PROVE  IInv' /\ Register!Next
  <1>1. Running /\ call.step = step /\ secret' = secret
    BY DEF Write, At
  <1>2. /\ call \in Call /\ dir \in Files /\ synced \in Files /\ secret \in Stored
        /\ secret = dir.journal /\ dir.journal # NoTokens /\ answer # "ok"
        /\ call.replaying \/ call.kind = "save"
        /\ call.replaying => dir.journal = call.before
        /\ ~call.replaying => dir.journal = call.tokens /\ After = call.tokens
                              /\ synced.journal = call.tokens
    BY <1>1, CommitFacts
  <1>3. dir' \in Files /\ synced' \in Files /\ dir'.journal = dir.journal
        /\ (synced' = synced \/ synced' = dir') /\ (dir'.tombstone => dir.tombstone)
    BY <1>2 DEF Write, Durable, Unsynced, Untouched
  <1>4. /\ Value = dir.journal /\ Value' = dir.journal
        /\ Fragile' \subseteq Fragile \cup {dir.journal}
    BY <1>1, <1>2, <1>3, CommitValue DEF IInv
  <1>5. CASE Durable(files) /\ Go(next)
    <2>1. /\ call' \in Call /\ Running' /\ call'.step = next
          /\ call'.kind = call.kind /\ call'.tokens = call.tokens
          /\ call'.before = call.before /\ call'.replaying = call.replaying
          /\ UNCHANGED <<answer, session, powerLost>>
      BY <1>2, <1>5, StepTaken DEF Steps
    <2>2. IInv'
      BY <1>1, <1>2, <1>3, <1>5, <2>1
         DEF IInv, TypeOK, ReplayInv, SaveInv, CommitInv, ClearInv, ReturnInv,
             CallerInv, At, Steps, Durable
    <2>3. Register!Next
      BY <1>1, <1>2, <1>4, <1>5, StepWorks, ValueIsFragile DEF Steps
    <2> QED BY <2>2, <2>3
  <1>6. CASE Return(Interrupted)
    BY <1>1, <1>2, <1>3, <1>4, <1>6, ReturnKeeps, ReturnEnds, ValueIsFragile
       DEF Interrupted
  <1> QED BY <1>5, <1>6 DEF Write

\* Behind the journal the tombstone of an earlier sign-out goes away.
LEMMA RemoveFallbackSafe ==
    ASSUME IInv, RemoveFallback
    PROVE  IInv' /\ Register!Next
  <1>1. CASE dir.tombstone
    BY <1>1, CommitWrite, WithTombstone DEF RemoveFallback, IInv, TypeOK
  <1>2. CASE ~dir.tombstone
    <2>1. /\ Running /\ call.step = "fallback" /\ Go("identity")
          /\ dir' = dir /\ synced' = synced /\ secret' = secret
      BY <1>2 DEF RemoveFallback, At
    <2>2. /\ call \in Call /\ dir \in Files
          /\ secret = dir.journal /\ dir.journal # NoTokens
          /\ call.replaying \/ call.kind = "save"
          /\ call.replaying => dir.journal = call.before
          /\ ~call.replaying => dir.journal = call.tokens /\ After = call.tokens
      BY <2>1, CommitFacts
    <2>3. /\ call' \in Call /\ Running' /\ call'.step = "identity"
          /\ call'.kind = call.kind /\ call'.tokens = call.tokens
          /\ call'.before = call.before /\ call'.replaying = call.replaying
          /\ UNCHANGED <<answer, session, powerLost>>
      BY <2>1, <2>2, StepTaken DEF Steps
    <2>4. /\ Value = dir.journal /\ Value' = dir.journal
          /\ Fragile' \subseteq Fragile \cup {dir.journal}
      BY <2>1, <2>2, CommitValue DEF IInv
    <2>5. IInv'
      BY <1>2, <2>1, <2>2, <2>3
         DEF IInv, TypeOK, ReplayInv, SaveInv, CommitInv, ClearInv, ReturnInv,
             CallerInv, At, Steps
    <2>6. Register!Next
      BY <2>1, <2>2, <2>4, StepWorks, ValueIsFragile DEF Steps
    <2> QED BY <2>5, <2>6
  <1> QED BY <1>1, <1>2

\* Behind the journal the sidecar is made to name the credentials.
LEMMA WriteIdentitySafe ==
    ASSUME IInv, WriteIdentity
    PROVE  IInv' /\ Register!Next
  <1>1. Running /\ call.step = "identity"
    BY DEF WriteIdentity, Write, At
  <1>2. dir \in Files /\ dir.journal \in Stored /\ ~dir.tombstone
    BY <1>1, CommitFacts DEF Files
  <1>3. /\ Identified \in Files /\ Identified.journal = dir.journal
        /\ Identified.tombstone = dir.tombstone
    BY <1>2, WithIdentity DEF Identified
  <1> QED BY <1>2, <1>3, CommitWrite DEF WriteIdentity

\* Keyring and tombstone agree with the journal when it is unlinked.
LEMMA UnlinkJournalSafe ==
    ASSUME IInv, UnlinkJournal
    PROVE  IInv' /\ Register!Next
  <1> DEFINE files == [dir EXCEPT !.journal = NoTokens]
  <1>1. Running /\ call.step = "unlink" /\ secret' = secret
    BY DEF UnlinkJournal, At
  <1>2. /\ call \in Call /\ dir \in Files /\ synced \in Files /\ secret \in Stored
        /\ secret = dir.journal /\ dir.journal # NoTokens /\ answer # "ok"
        /\ call.replaying \/ call.kind = "save"
        /\ call.replaying => dir.journal = call.before
        /\ ~call.replaying => dir.journal = call.tokens /\ After = call.tokens
        /\ ~dir.tombstone /\ dir = synced
    BY <1>1, CommitFacts
  <1>3. files \in Files /\ files.journal = NoTokens /\ ~files.tombstone
    BY <1>2, WithJournal DEF Stored
  <1>4. dir' \in {dir, files} /\ (synced' = dir \/ synced' = dir')
    BY <1>2 DEF UnlinkJournal, Durable, Unsynced, Untouched
  <1>5. Value' = dir.journal /\ Fragile' \subseteq {dir.journal}
    <2>1. /\ dir'.journal \in {dir.journal, NoTokens} /\ ~dir'.tombstone
          /\ synced'.journal \in {dir.journal, NoTokens} /\ ~synced'.tombstone
      BY <1>2, <1>3, <1>4
    <2>2. \A journal \in {dir.journal, NoTokens}, tombstone \in {FALSE} :
             Effective(journal, tombstone, secret') = dir.journal
      BY <1>1, <1>2 DEF Effective
    <2>3. dir'.tombstone \in {FALSE} /\ synced'.tombstone \in {FALSE}
      BY <1>2, <1>3, <1>4, <2>1 DEF Files
    <2>4. Value' = dir.journal
      BY <2>1, <2>2, <2>3 DEF Value
    <2>5. ASSUME NEW value \in Fragile'
          PROVE  value = dir.journal
      <3>1. PICK journal \in {dir'.journal, synced'.journal},
                 tombstone \in {dir'.tombstone, synced'.tombstone} :
                    value = Effective(journal, tombstone, secret')
        BY <2>5 DEF Fragile
      <3> QED BY <2>1, <2>2, <2>3, <3>1
    <2> QED BY <2>4, <2>5
  <1>6. CASE Durable(files) /\ call.replaying
              /\ call' = [call EXCEPT !.replaying = FALSE,
                                      !.step = FirstStep(call.kind)]
              /\ UNCHANGED <<answer, session, powerLost>>
    <2>1. /\ call' \in Call /\ Running' /\ call'.step = FirstStep(call.kind)
          /\ call'.kind = call.kind /\ call'.tokens = call.tokens
          /\ call'.before = call.before /\ ~call'.replaying
      BY <1>2, <1>6 DEF Call, Running, Idle, Kinds, FirstStep, Steps
    <2>2. dir' \in Files /\ synced' = dir' /\ dir'.journal = NoTokens
      BY <1>3, <1>6 DEF Durable
    <2>3. TypeOK'
      BY <1>1, <1>2, <1>6, <2>1, <2>2 DEF IInv, TypeOK
    <2>4. ReplayInv' /\ SaveInv' /\ CommitInv' /\ ClearInv' /\ ReturnInv'
      BY <1>2, <1>5, <1>6, <2>1, <2>2
         DEF ReplayInv, SaveInv, CommitInv, ClearInv, ReturnInv, At, FirstStep, Steps
    <2>5. CallerInv'
      BY <1>1, <1>6, <2>1, <2>2 DEF IInv, CallerInv
    <2>6. Request' = Request
      BY <1>1, <2>1 DEF Request, After
    <2>7. PICK r \in Request : r.kind = call.kind /\ r.before = call.before
                               /\ r.after = After
      BY <1>1, RunningRequest DEF IInv
    <2>8. Register!Move(r)
      BY <1>2, <1>5, <1>6, <2>7, ValueIsFragile DEF Register!Move
    <2>9. Register!Next
      BY <1>6, <2>6, <2>7, <2>8 DEF Register!Next, Register!Work
    <2> QED BY <2>3, <2>4, <2>5, <2>9 DEF IInv
  <1>7. CASE Durable(files) /\ ~call.replaying /\ Go("return")
    <2>1. /\ call' \in Call /\ Running' /\ call'.step = "return"
          /\ call'.kind = call.kind /\ call'.tokens = call.tokens
          /\ call'.before = call.before /\ call'.replaying = call.replaying
          /\ UNCHANGED <<answer, session, powerLost>>
      BY <1>2, <1>7, StepTaken DEF Steps
    <2>2. IInv'
      BY <1>1, <1>2, <1>3, <1>5, <1>7, <2>1
         DEF IInv, TypeOK, ReplayInv, SaveInv, CommitInv, ClearInv, ReturnInv,
             CallerInv, At, Steps, Durable
    <2>3. Register!Next
      BY <1>1, <1>2, <1>5, <1>7, StepWorks, ValueIsFragile DEF Steps
    <2> QED BY <2>2, <2>3
  <1>8. CASE (Unsynced(files) \/ Untouched) /\ Return(Interrupted)
    <2>1. dir' \in Files /\ synced' \in Files /\ secret' \in Stored
      BY <1>1, <1>2, <1>3, <1>4
    <2>2. Value' = (IF Interrupted = "refused" THEN call.before ELSE After)
      BY <1>2, <1>5 DEF Interrupted
    <2> QED
      BY <1>1, <1>2, <1>5, <1>8, <2>1, <2>2, ReturnKeeps, ReturnEnds, ValueIsFragile
         DEF Interrupted
  <1> QED BY <1>6, <1>7, <1>8 DEF UnlinkJournal

\* A rejected save is undone by unlinking its journal.
LEMMA AbortCommitSafe ==
    ASSUME IInv, AbortCommit
    PROVE  IInv' /\ Register!Next
  <1> DEFINE files == [dir EXCEPT !.journal = NoTokens]
  <1>1. /\ Running /\ call.step = "abort" /\ secret' = secret
        /\ call \in Call /\ dir \in Files /\ synced \in Files /\ secret \in Stored
    BY RunningCall DEF AbortCommit, At, IInv, TypeOK
  <1>2. /\ call.kind = "save" /\ ~call.replaying /\ After = call.tokens
        /\ dir.journal = call.tokens /\ call.tokens # NoTokens
        /\ dir = synced /\ answer = "none"
        /\ Effective(NoTokens, dir.tombstone, secret) = call.before
    BY <1>1 DEF IInv, ReplayInv, SaveInv, ClearInv, ReturnInv, CallerInv, Call,
       Kinds, After
  <1>3. /\ files \in Files /\ files.journal = NoTokens
        /\ files.tombstone = dir.tombstone
    BY <1>1, WithJournal DEF Stored
  <1>4. CASE Durable(files) /\ Return("refused")
    <2>1. Value' = call.before /\ Fragile' = {Value'}
      BY <1>1, <1>2, <1>3, <1>4, SyncedFragile DEF Durable, Value
    <2> QED
      BY <1>1, <1>2, <1>3, <1>4, <2>1, ReturnKeeps, ReturnEnds DEF Durable
  <1>5. CASE Unsynced(files) /\ Go("restore")
    <2>1. Value' = call.before
      BY <1>1, <1>2, <1>3, <1>5 DEF Unsynced, Value
    <2>2. Effective(call.tokens, dir.tombstone, secret) = call.tokens
      BY <1>2 DEF Effective
    <2>3. Fragile' \subseteq {call.before, After}
      BY <1>1, <1>2, <1>3, <1>5, <2>2 DEF Unsynced, Fragile
    <2>4. /\ call' \in Call /\ Running' /\ call'.step = "restore"
          /\ call'.kind = call.kind /\ call'.tokens = call.tokens
          /\ call'.before = call.before /\ call'.replaying = call.replaying
          /\ UNCHANGED <<answer, session, powerLost>>
      BY <1>1, <1>5, StepTaken DEF Steps
    <2>5. IInv'
      BY <1>1, <1>2, <1>3, <1>5, <2>1, <2>4
         DEF IInv, TypeOK, ReplayInv, SaveInv, CommitInv, ClearInv, ReturnInv,
             CallerInv, At, Steps, Unsynced
    <2>6. Register!Next
      BY <1>1, <1>5, <2>1, <2>3, StepWorks, ValueIsFragile DEF Steps
    <2> QED BY <2>5, <2>6
  <1>6. CASE Untouched /\ Return("pending")
    <2>1. Value = After
      BY <1>2 DEF Value, Effective
    <2> QED
      BY <1>1, <1>2, <1>6, <2>1, UntouchedValue, ReturnKeeps, ReturnEnds,
         ValueIsFragile DEF Untouched
  <1> QED BY <1>4, <1>5, <1>6 DEF AbortCommit

\* If the undo may not last, the journal comes back and the save is pending.
LEMMA RestoreJournalSafe ==
    ASSUME IInv, RestoreJournal
    PROVE  IInv' /\ Register!Next
  <1> DEFINE files == [dir EXCEPT !.journal = call.tokens]
  <1>1. /\ Running /\ call.step = "restore" /\ secret' = secret
        /\ call \in Call /\ dir \in Files /\ synced \in Files /\ secret \in Stored
    BY RunningCall DEF RestoreJournal, At, IInv, TypeOK
  <1>2. /\ call.kind = "save" /\ ~call.replaying
        /\ dir.journal = NoTokens /\ Value = call.before /\ call.tokens # NoTokens
        /\ answer = "none" /\ After = call.tokens /\ call.tokens \in Stored
    BY <1>1 DEF IInv, ReplayInv, SaveInv, ClearInv, ReturnInv, CallerInv, Call,
       Kinds, After
  <1>3. files \in Files /\ files.journal = call.tokens
        /\ files.tombstone = dir.tombstone
    BY <1>1, <1>2, WithJournal
  <1>4. CASE (Durable(files) \/ Unsynced(files)) /\ Return("pending")
    <2>1. Value' = After
      BY <1>1, <1>2, <1>3, <1>4 DEF Durable, Unsynced, Value, Effective
    <2>2. Fragile' \subseteq Fragile \cup {call.before, After}
      <3>1. CASE synced' = dir'
        BY <2>1, <3>1, SyncedFragile
      <3>2. CASE Unsynced(files)
        BY <1>1, <1>2, <1>3, <3>2 DEF Unsynced, Fragile, Effective
      <3> QED BY <1>4, <3>1, <3>2 DEF Durable
    <2> QED
      BY <1>1, <1>2, <1>3, <1>4, <2>1, <2>2, ReturnKeeps, ReturnEnds, ValueIsFragile
         DEF Durable, Unsynced
  <1>5. CASE Untouched /\ Return("refused")
    BY <1>1, <1>2, <1>5, UntouchedValue, ReturnKeeps, ReturnEnds, ValueIsFragile
       DEF Untouched
  <1> QED BY <1>4, <1>5 DEF RestoreJournal

\* What a sign-out finds at each of its steps.
LEMMA ClearFacts ==
    ASSUME IInv, Running, call.step \in {"tombstone", "delete", "forget"}
    PROVE  /\ call \in Call /\ dir \in Files /\ synced \in Files /\ secret \in Stored
           /\ call.kind \in {"clear", "expire", "cleanup"} /\ ~call.replaying
           /\ dir.journal = NoTokens /\ After = NoTokens /\ answer = "none"
           /\ call.step = "tombstone" => Value = call.before
           /\ call.step # "tombstone" => dir.tombstone /\ dir = synced
  <1>1. /\ call \in Call /\ dir \in Files /\ synced \in Files /\ secret \in Stored
    BY RunningCall DEF IInv, TypeOK
  <1> QED
    BY <1>1 DEF IInv, ReplayInv, SaveInv, ClearInv, ReturnInv, CallerInv, Call,
       Kinds, After

\* A sign-out takes effect when its tombstone is in place.
LEMMA WriteTombstoneSafe ==
    ASSUME IInv, WriteTombstone
    PROVE  IInv' /\ Register!Next
  <1> DEFINE files == [dir EXCEPT !.tombstone = TRUE]
  <1>1. Running /\ call.step = "tombstone" /\ secret' = secret
    BY DEF WriteTombstone, At
  <1>2. /\ call \in Call /\ dir \in Files /\ synced \in Files /\ secret \in Stored
        /\ call.kind \in {"clear", "expire", "cleanup"} /\ ~call.replaying
        /\ dir.journal = NoTokens /\ After = NoTokens /\ answer = "none"
        /\ Value = call.before
    BY <1>1, ClearFacts
  <1>3. files \in Files /\ files.journal = NoTokens /\ files.tombstone
    BY <1>2, WithTombstone
  <1>4. CASE Durable(files) /\ Go("delete")
    <2>1. Value' = After /\ Fragile' = {Value'}
      BY <1>1, <1>2, <1>3, <1>4, SyncedFragile DEF Durable, Value, Effective
    <2>2. /\ call' \in Call /\ Running' /\ call'.step = "delete"
          /\ call'.kind = call.kind /\ call'.tokens = call.tokens
          /\ call'.before = call.before /\ call'.replaying = call.replaying
          /\ UNCHANGED <<answer, session, powerLost>>
      BY <1>2, <1>4, StepTaken DEF Steps
    <2>3. IInv'
      BY <1>1, <1>2, <1>3, <1>4, <2>1, <2>2
         DEF IInv, TypeOK, ReplayInv, SaveInv, CommitInv, ClearInv, ReturnInv,
             CallerInv, At, Steps, Durable
    <2>4. Register!Next
      BY <1>1, <1>4, <2>1, StepWorks DEF Steps
    <2> QED BY <2>3, <2>4
  <1>5. CASE Unsynced(files) /\ Return("pending")
    <2>1. Value' = After
      BY <1>1, <1>2, <1>3, <1>5 DEF Unsynced, Value, Effective
    <2>2. Fragile' \subseteq Fragile \cup {call.before, After}
      BY <1>1, <1>2, <1>3, <1>5 DEF Unsynced, Fragile, Effective
    <2> QED
      BY <1>1, <1>2, <1>3, <1>5, <2>1, <2>2, ReturnKeeps, ReturnEnds, ValueIsFragile
         DEF Unsynced
  <1>6. CASE Untouched /\ Return("refused")
    BY <1>1, <1>2, <1>6, UntouchedValue, ReturnKeeps, ReturnEnds, ValueIsFragile
       DEF Untouched
  <1> QED BY <1>4, <1>5, <1>6 DEF WriteTombstone

\* Behind a synced tombstone nothing shows, whatever is left in the keyring.
LEMMA SignedOut ==
    ASSUME TypeOK, dir'.journal = NoTokens, dir'.tombstone = TRUE,
           synced'.journal = NoTokens, synced'.tombstone = TRUE
    PROVE  Value' = NoTokens /\ Fragile' = {Value'}
  BY DEF Value, Fragile, Effective

\* Behind the tombstone the keyring no longer matters.
LEMMA DeleteSecretSafe ==
    ASSUME IInv, DeleteSecret
    PROVE  IInv' /\ Register!Next
  <1>1. /\ Running /\ call.step = "delete"
        /\ dir' = dir /\ synced' = synced /\ secret' \in {secret, NoTokens}
    BY DEF DeleteSecret, At, Untouched
  <1>2. /\ call \in Call /\ dir \in Files /\ synced \in Files /\ secret \in Stored
        /\ call.kind \in {"clear", "expire", "cleanup"} /\ ~call.replaying
        /\ dir.journal = NoTokens /\ After = NoTokens /\ answer = "none"
        /\ dir.tombstone = TRUE /\ dir = synced
    BY <1>1, ClearFacts DEF Files
  <1>3. Value' = After /\ Fragile' = {Value'} /\ secret' \in Stored
    BY <1>1, <1>2, SignedOut DEF IInv, Stored
  <1>4. CASE Go("forget")
    <2>1. /\ call' \in Call /\ Running' /\ call'.step = "forget"
          /\ call'.kind = call.kind /\ call'.tokens = call.tokens
          /\ call'.before = call.before /\ call'.replaying = call.replaying
          /\ UNCHANGED <<answer, session, powerLost>>
      BY <1>2, <1>4, StepTaken DEF Steps
    <2>2. IInv'
      BY <1>1, <1>2, <1>3, <2>1
         DEF IInv, TypeOK, ReplayInv, SaveInv, CommitInv, ClearInv, ReturnInv,
             CallerInv, At, Steps
    <2>3. Register!Next
      BY <1>1, <1>3, <1>4, StepWorks DEF Steps
    <2> QED BY <2>2, <2>3
  <1>5. CASE Return("pending")
    BY <1>1, <1>2, <1>3, <1>5, ReturnKeeps, ReturnEnds
  <1> QED BY <1>4, <1>5 DEF DeleteSecret

\* Behind the tombstone the sidecar is cleared.
LEMMA ForgetIdentitySafe ==
    ASSUME IInv, ForgetIdentity
    PROVE  IInv' /\ Register!Next
  <1> DEFINE files == [dir EXCEPT !.identity = NoTokens]
  <1>1. /\ Running /\ call.step = "forget" /\ secret' = secret
    BY DEF ForgetIdentity, Write, At
  <1>2. /\ call \in Call /\ dir \in Files /\ synced \in Files /\ secret \in Stored
        /\ call.kind \in {"clear", "expire", "cleanup"} /\ ~call.replaying
        /\ dir.journal = NoTokens /\ After = NoTokens /\ answer = "none"
        /\ dir.tombstone = TRUE /\ dir = synced
    BY <1>1, ClearFacts DEF Files
  <1>3. files \in Files /\ files.journal = NoTokens /\ files.tombstone = TRUE
    BY <1>2, WithIdentity DEF Stored
  <1>4. dir' \in {dir, files} /\ synced' \in {dir, files}
    BY <1>2 DEF ForgetIdentity, Write, Durable, Unsynced, Untouched
  <1>5. Value' = After /\ Fragile' = {Value'}
    BY <1>2, <1>3, <1>4, SignedOut DEF IInv
  <1>6. CASE Durable(files) /\ Go("return")
    <2>1. /\ call' \in Call /\ Running' /\ call'.step = "return"
          /\ call'.kind = call.kind /\ call'.tokens = call.tokens
          /\ call'.before = call.before /\ call'.replaying = call.replaying
          /\ UNCHANGED <<answer, session, powerLost>>
      BY <1>2, <1>6, StepTaken DEF Steps
    <2>2. IInv'
      BY <1>1, <1>2, <1>3, <1>5, <1>6, <2>1
         DEF IInv, TypeOK, ReplayInv, SaveInv, CommitInv, ClearInv, ReturnInv,
             CallerInv, At, Steps, Durable
    <2>3. Register!Next
      BY <1>1, <1>5, <1>6, StepWorks DEF Steps
    <2> QED BY <2>2, <2>3
  <1>7. CASE Return(Interrupted)
    BY <1>1, <1>2, <1>3, <1>4, <1>5, <1>7, ReturnKeeps, ReturnEnds DEF Interrupted
  <1> QED BY <1>6, <1>7 DEF ForgetIdentity, Write

\* A call that returns normally is durable.
LEMMA FinishSafe ==
    ASSUME IInv, Finish
    PROVE  IInv' /\ Register!Next
  <1>1. /\ Running /\ call.step = "return" /\ Return("ok")
        /\ dir' = dir /\ synced' = synced /\ secret' = secret
    BY DEF Finish, At
  <1>2. /\ call \in Call /\ dir \in Files /\ synced \in Files /\ secret \in Stored
    BY <1>1, RunningCall DEF IInv, TypeOK
  <1>3. /\ dir.journal = NoTokens /\ Value = After
        /\ call.kind # "load" => dir = synced
    BY <1>1, <1>2 DEF IInv, ReturnInv, At, After, Call, Kinds
  <1>4. Value' = Value /\ Fragile' = Fragile
    BY <1>1, UntouchedValue DEF Untouched
  <1>5. call.kind # "load" => Fragile' = {Value'}
    BY <1>1, <1>3, SyncedFragile
  <1>6. call.kind = "load" /\ answer = "ok" => synced.journal = NoTokens
    BY DEF IInv, CallerInv
  <1>7. IInv'
    <2>1. CASE call.kind # "load" \/ answer = "ok"
      BY <1>1, <1>2, <1>3, <1>4, <1>6, <2>1, ReturnKeeps
    <2>2. CASE call.kind = "load" /\ answer # "ok"
      <3>1. /\ call' = Idle /\ ~Running' /\ answer' = answer /\ session' = session
           /\ powerLost' = powerLost
        BY <1>1, <2>2 DEF Return, SessionAfter, Running
      <3>2. After = call.before
        BY <2>2 DEF After
      <3>3. TypeOK'
        BY <1>1, <1>2, <3>1 DEF IInv, TypeOK
      <3> QED
        BY <1>1, <1>3, <1>4, <2>2, <3>1, <3>2, <3>3
           DEF IInv, ReplayInv, SaveInv, CommitInv, ClearInv, ReturnInv, CallerInv, At
    <2> QED BY <2>1, <2>2
  <1>8. Register!Next
    BY <1>1, <1>3, <1>4, <1>5, ReturnEnds, ValueIsFragile
  <1> QED BY <1>7, <1>8

\* A call starts with the replay of an interrupted commit, if there is one.
LEMMA BeginSafe ==
    ASSUME IInv, NEW kind \in Kinds, NEW tokens \in Stored, Begin(kind, tokens),
           kind = "save" => tokens \in Tokens
    PROVE  IInv' /\ Register!Begin(kind, tokens)
  <1>1. /\ ~Running /\ dir' = dir /\ synced' = synced /\ secret' = secret
        /\ session' = session /\ powerLost' = powerLost
        /\ dir \in Files /\ synced \in Files /\ secret \in Stored
    BY DEF Begin, IInv, TypeOK
  <1>2. Value' = Value /\ Fragile' = Fragile
    BY <1>1, UntouchedValue DEF Untouched
  <1>3. Value \in Stored
    BY <1>1 DEF Value, Effective, Files, Stored
  <1>4. /\ call' \in Call /\ Running'
        /\ call'.kind = kind /\ call'.tokens = tokens /\ call'.before = Value
        /\ call'.replaying = (dir.journal # NoTokens) /\ call'.step = Entry(kind)
    BY <1>3 DEF Begin, Call, Idle, Running, Kinds, Steps, Entry, FirstStep
  <1>5. answer' = (IF kind = "load" THEN answer ELSE "none")
    BY DEF Begin
  <1>6. IInv'
    <2>1. TypeOK'
      BY <1>1, <1>4, <1>5 DEF IInv, TypeOK
    <2>2. ReplayInv' /\ SaveInv' /\ CommitInv' /\ ClearInv' /\ ReturnInv'
      <3>1. CASE dir.journal # NoTokens
        BY <1>1, <1>4, <3>1 DEF ReplayInv, SaveInv, CommitInv, ClearInv, ReturnInv,
           At, Entry, Value, Effective
      <3>2. CASE dir.journal = NoTokens
        BY <1>1, <1>2, <1>4, <3>2 DEF ReplayInv, SaveInv, CommitInv, ClearInv,
           ReturnInv, At, Entry, FirstStep, Steps, Kinds
      <3> QED BY <3>1, <3>2
    <2>3. CallerInv'
      BY <1>1, <1>4, <1>5, TokensAssumption
         DEF IInv, CallerInv, Begin, CleanupDue
    <2> QED BY <2>1, <2>2, <2>3 DEF IInv
  <1>7. Register!Begin(kind, tokens)
    <2>1. Request = {}
      BY <1>1 DEF Request
    <2>2. After' = Register!Target(kind, tokens)
      BY <1>4 DEF After, Register!Target
    <2>3. Request' = {[kind |-> kind, before |-> Value,
                       after |-> Register!Target(kind, tokens)]}
      BY <1>4, <2>2 DEF Request
    <2>4. kind = "cleanup" => Value = NoTokens \/ answer # "ok"
      BY <1>1 DEF IInv, CallerInv, Begin, CleanupDue, Value, Effective
    <2> QED BY <1>2, <1>5, <2>1, <2>3, <2>4 DEF Register!Begin
  <1> QED BY <1>6, <1>7

\* A process that dies leaves the value where it is.
LEMMA CrashSafe ==
    ASSUME IInv, Crash
    PROVE  IInv' /\ Register!Crash
  <1>1. /\ call' = Idle /\ ~Running' /\ session' = NoTokens /\ answer' = answer
        /\ dir' = dir /\ synced' = synced /\ secret' = secret /\ powerLost' = powerLost
    BY DEF Crash, Running
  <1>2. TypeOK'
    BY <1>1 DEF IInv, TypeOK, Stored
  <1>3. IInv'
    BY <1>1, <1>2
       DEF IInv, ReplayInv, SaveInv, CommitInv, ClearInv, ReturnInv, CallerInv, At
  <1>4. Register!Crash
    BY <1>1, UntouchedValue DEF Register!Crash, Request, Untouched
  <1> QED BY <1>3, <1>4

\* A power loss leaves one of the fragile values.
LEMMA PowerLossSafe ==
    ASSUME IInv, PowerLoss
    PROVE  IInv' /\ Register!PowerLoss
  <1>1. /\ call' = Idle /\ ~Running' /\ session' = NoTokens /\ answer' = answer
        /\ dir' \in Survivors /\ synced' = dir' /\ secret' = secret /\ powerLost' = TRUE
    BY DEF PowerLoss, Running
  <1>2. /\ dir' \in Files
        /\ dir'.journal \in {dir.journal, synced.journal}
        /\ dir'.tombstone \in {dir.tombstone, synced.tombstone}
    BY <1>1 DEF IInv, TypeOK, Survivors, Files
  <1>3. TypeOK'
    BY <1>1, <1>2 DEF IInv, TypeOK, Stored
  <1>4. IInv'
    BY <1>1, <1>2, <1>3
       DEF IInv, ReplayInv, SaveInv, CommitInv, ClearInv, ReturnInv, CallerInv, At
  <1>5. Value' \in Fragile
    BY <1>1, <1>2 DEF Value, Fragile
  <1>6. Fragile' = {Value'}
    BY <1>1, SyncedFragile
  <1>7. Register!PowerLoss
    BY <1>1, <1>5, <1>6 DEF Register!PowerLoss, Request
  <1> QED BY <1>4, <1>7

\* Every step of the specification keeps IInv and is a step of the register.
LEMMA NextSafe ==
    ASSUME IInv, Next
    PROVE  IInv' /\ Register!Next
  <1>1. ASSUME NEW tokens \in Tokens, Begin("save", tokens)
        PROVE  IInv' /\ Register!Next
    BY <1>1, BeginSafe DEF Kinds, Stored, Register!Next
  <1>2. ASSUME NEW kind \in Kinds \ {"save"}, Begin(kind, NoTokens)
        PROVE  IInv' /\ Register!Next
    <2>1. IInv' /\ Register!Begin(kind, NoTokens)
      BY <1>2, BeginSafe DEF Stored
    <2> QED BY <2>1 DEF Register!Next, Register!Kinds, Kinds
  <1>3. CASE Step
    BY <1>3, WriteJournalSafe, SaveSecretSafe, RemoveFallbackSafe, WriteIdentitySafe,
       UnlinkJournalSafe, AbortCommitSafe, RestoreJournalSafe, WriteTombstoneSafe,
       DeleteSecretSafe, ForgetIdentitySafe, FinishSafe DEF Step
  <1>4. CASE Crash
    BY <1>4, CrashSafe DEF Register!Next
  <1>5. CASE PowerLoss
    BY <1>5, PowerLossSafe DEF Register!Next
  <1> QED BY <1>1, <1>2, <1>3, <1>4, <1>5 DEF Next

-----------------------------------------------------------------------------
(* The identity sidecar.                                                    *)

\* Before a power loss: an undone save finds the keyring as the sidecar names
\* it, a finished one has written both, and the sidecar goes after the item.
IdentityInv ==
    ~powerLost =>
        /\ dir.journal = NoTokens => secret \in {NoTokens, dir.identity}
        /\ (At("secret") \/ At("abort")) /\ ~call.replaying
              => secret \in {NoTokens, dir.identity}
        /\ At("unlink") => dir.identity = dir.journal
        /\ At("forget") => secret = NoTokens

\* A call that returns, or a process that dies, holds no step of a commit.
LEMMA IdleIdentity ==
    ASSUME IInv, ~Running',
           ~powerLost' => (dir'.journal = NoTokens => secret' \in {NoTokens, dir'.identity})
    PROVE  IdentityInv'
  BY DEF IdentityInv, At

LEMMA StepIdentity ==
    ASSUME IInv, IdentityInv, Step
    PROVE  IdentityInv'
  <1>1. /\ call \in Call /\ dir \in Files /\ Running /\ powerLost' = powerLost
        /\ \A outcome : Return(outcome) => ~Running'
    BY RunningCall DEF IInv, TypeOK, Step, WriteJournal, SaveSecret, RemoveFallback,
       WriteIdentity, UnlinkJournal, AbortCommit, RestoreJournal, WriteTombstone,
       DeleteSecret, ForgetIdentity, Finish, Write, At, Return, Running, Go,
       OnRejection
  <1>2. \A step \in Steps : Go(step) =>
            /\ Running' /\ call'.step = step /\ call'.replaying = call.replaying
    BY <1>1, StepTaken
  <1>3. CASE WriteJournal
    <2> DEFINE files == [dir EXCEPT !.journal = call.tokens]
    <2>1. /\ files \in Files /\ files.identity = dir.identity
          /\ files.journal = call.tokens
      BY <1>1, WithJournal DEF Call
    <2>2. /\ dir.journal = NoTokens /\ call.tokens # NoTokens /\ secret' = secret
      BY <1>1, <1>3 DEF WriteJournal, At, IInv, ReplayInv, SaveInv, ClearInv, ReturnInv,
         CallerInv, Call, Kinds
    <2>3. CASE Durable(files) /\ Go("secret")
      BY <1>1, <1>2, <2>1, <2>2, <2>3 DEF Durable, IdentityInv, At, Steps
    <2>4. CASE Unsynced(files) /\ Return("pending")
      BY <1>1, <2>1, <2>2, <2>4, IdleIdentity DEF Unsynced
    <2>5. CASE Untouched /\ Return("refused")
      BY <1>1, <2>2, <2>5, IdleIdentity DEF Untouched, IdentityInv
    <2> QED  BY <1>3, <2>3, <2>4, <2>5 DEF WriteJournal
  <1>4. CASE SaveSecret
    <2>1. dir' = dir /\ dir.journal # NoTokens /\ secret' \in {secret, dir.journal}
      BY <1>1, <1>4 DEF SaveSecret, Untouched, At, IInv, ReplayInv, SaveInv, ClearInv,
         ReturnInv, CallerInv, Call, Kinds
    <2>2. CASE secret' = dir.journal /\ Go("fallback")
      BY <1>2, <2>1, <2>2 DEF IdentityInv, At, Steps
    <2>3. CASE Return(Interrupted)
      BY <1>1, <2>1, <2>3, IdleIdentity
    <2>4. CASE ~call.replaying /\ secret' = secret /\ Go("abort")
      BY <1>1, <1>2, <1>4, <2>1, <2>4 DEF SaveSecret, IdentityInv, At, Steps
    <2> QED  BY <1>4, <2>2, <2>3, <2>4 DEF SaveSecret, OnRejection
  <1>5. CASE RemoveFallback
    <2> DEFINE files == [dir EXCEPT !.tombstone = FALSE]
    <2>1. /\ files \in Files /\ files.identity = dir.identity
          /\ files.journal = dir.journal
      BY <1>1, WithTombstone
    <2>2. secret' = secret /\ dir' \in {dir, files}
      BY <1>5 DEF RemoveFallback, Write, Durable, Unsynced, Untouched
    <2>3. Go("identity") \/ Return(Interrupted)
      BY <1>5 DEF RemoveFallback, Write
    <2> QED  BY <1>1, <1>2, <2>1, <2>2, <2>3, IdleIdentity DEF IdentityInv, At, Steps
  <1>6. CASE WriteIdentity
    <2>1. dir.journal # NoTokens /\ dir.journal \in Stored /\ secret' = secret
      BY <1>1, <1>6 DEF WriteIdentity, Write, At, IInv, ReplayInv, SaveInv, ClearInv,
         ReturnInv, CallerInv, Call, Kinds, Files
    <2>2. /\ Identified \in Files /\ Identified.identity = dir.journal
          /\ Identified.journal = dir.journal
      BY <1>1, <2>1, WithIdentity DEF Identified
    <2>3. CASE Durable(Identified) /\ Go("unlink")
      BY <1>2, <2>1, <2>2, <2>3 DEF Durable, IdentityInv, At, Steps
    <2>4. CASE (Unsynced(Identified) \/ Untouched) /\ Return(Interrupted)
      BY <1>1, <2>1, <2>2, <2>4, IdleIdentity DEF Unsynced, Untouched
    <2> QED  BY <1>6, <2>3, <2>4 DEF WriteIdentity, Write
  <1>7. CASE UnlinkJournal
    <2> DEFINE files == [dir EXCEPT !.journal = NoTokens]
    <2>1. files \in Files /\ files.identity = dir.identity
      BY <1>1, WithJournal DEF Stored
    <2>2. /\ secret' = secret /\ dir' \in {dir, files}
          /\ secret = dir.journal /\ dir.journal # NoTokens
          /\ ~powerLost => dir.identity = dir.journal
      BY <1>1, <1>7 DEF UnlinkJournal, Durable, Unsynced, Untouched, At, IInv, CommitInv,
         ReplayInv, SaveInv, ClearInv, ReturnInv, CallerInv, IdentityInv, Call, Kinds
    <2>3. \/ ~Running'
          \/ Running' /\ call'.step \in {"return", "journal", "tombstone"}
      <3>1. CASE Return(Interrupted) \/ Go("return")
        BY <1>1, <1>2, <3>1 DEF Steps
      <3>2. CASE call' = [call EXCEPT !.replaying = FALSE, !.step = FirstStep(call.kind)]
        BY <1>1, <3>2 DEF FirstStep, Call, Idle, Running
      <3> QED  BY <1>7, <3>1, <3>2 DEF UnlinkJournal
    <2> QED  BY <1>1, <2>1, <2>2, <2>3, IdleIdentity DEF IdentityInv, At
  <1>8. CASE AbortCommit
    <2> DEFINE files == [dir EXCEPT !.journal = NoTokens]
    <2>1. files \in Files /\ files.identity = dir.identity
      BY <1>1, WithJournal DEF Stored
    <2>2. /\ secret' = secret /\ dir' \in {dir, files}
          /\ ~powerLost => secret \in {NoTokens, dir.identity}
      BY <1>1, <1>8 DEF AbortCommit, Durable, Unsynced, Untouched, At, IInv,
         ReplayInv, IdentityInv
    <2>3. Go("restore") \/ Return("refused") \/ Return("pending")
      BY <1>8 DEF AbortCommit
    <2> QED  BY <1>1, <1>2, <2>1, <2>2, <2>3, IdleIdentity DEF IdentityInv, At, Steps
  <1>9. CASE RestoreJournal
    <2> DEFINE files == [dir EXCEPT !.journal = call.tokens]
    <2>1. /\ files \in Files /\ files.identity = dir.identity
      BY <1>1, WithJournal DEF Call
    <2>2. secret' = secret /\ dir' \in {dir, files} /\ dir.journal = NoTokens
      BY <1>1, <1>9 DEF RestoreJournal, Durable, Unsynced, Untouched, At, IInv,
         ReplayInv, SaveInv, ClearInv, ReturnInv, Call, Kinds
    <2>3. ~Running'
      BY <1>1, <1>9 DEF RestoreJournal
    <2> QED  BY <1>1, <2>1, <2>2, <2>3, IdleIdentity DEF IdentityInv
  <1>10. CASE WriteTombstone
    <2> DEFINE files == [dir EXCEPT !.tombstone = TRUE]
    <2>1. /\ files \in Files /\ files.identity = dir.identity
          /\ files.journal = dir.journal
      BY <1>1, WithTombstone
    <2>2. secret' = secret /\ dir' \in {dir, files}
      BY <1>10 DEF WriteTombstone, Durable, Unsynced, Untouched
    <2>3. Go("delete") \/ Return("pending") \/ Return("refused")
      BY <1>10 DEF WriteTombstone
    <2> QED  BY <1>1, <1>2, <2>1, <2>2, <2>3, IdleIdentity DEF IdentityInv, At, Steps
  <1>11. CASE DeleteSecret
    <2>1. dir' = dir /\ secret' \in {secret, NoTokens}
      BY <1>11 DEF DeleteSecret, Untouched
    <2>2. (secret' = NoTokens /\ Go("forget")) \/ Return("pending")
      BY <1>11 DEF DeleteSecret
    <2> QED  BY <1>1, <1>2, <2>1, <2>2, IdleIdentity DEF IdentityInv, At, Steps
  <1>12. CASE ForgetIdentity
    <2>1. secret' = secret /\ (~powerLost => secret = NoTokens)
      BY <1>1, <1>12 DEF ForgetIdentity, Write, IdentityInv
    <2>2. Go("return") \/ Return(Interrupted)
      BY <1>12 DEF ForgetIdentity, Write
    <2> QED  BY <1>1, <1>2, <2>1, <2>2, IdleIdentity DEF IdentityInv, At, Steps
  <1>13. CASE Finish
    BY <1>1, <1>13, IdleIdentity DEF Finish, IdentityInv
  <1> QED  BY <1>3, <1>4, <1>5, <1>6, <1>7, <1>8, <1>9, <1>10, <1>11, <1>12, <1>13
              DEF Step

LEMMA NextIdentity ==
    ASSUME IInv, IdentityInv, Next
    PROVE  IdentityInv'
  <1>1. ASSUME NEW kind \in Kinds, NEW tokens \in Stored, Begin(kind, tokens)
        PROVE  IdentityInv'
    <2>1. /\ call'.step \in {"secret", "return", "journal", "tombstone"}
          /\ call'.step = "secret" => call'.replaying
          /\ UNCHANGED <<dir, secret, powerLost>>
      BY <1>1 DEF Begin, Entry, FirstStep
    <2> QED  BY <2>1 DEF IdentityInv, At
  <1>2. CASE Step
    BY <1>2, StepIdentity
  <1>3. CASE Crash \/ PowerLoss
    BY <1>3, IdleIdentity DEF Crash, PowerLoss, IdentityInv, Running
  <1> QED  BY <1>1, <1>2, <1>3 DEF Next, Kinds, Stored

-----------------------------------------------------------------------------
(* The theorems *)

\* The steps of TokenStore keep what each of them relies on, for any tokens
\* and any interruption.
THEOREM Invariance == Spec => []IInv
  <1>1. Init => IInv
    BY InitInvariant
  <1>2. IInv /\ [Next]_credVars => IInv'
    <2>1. CASE Next
      BY <2>1, NextSafe
    <2>2. CASE UNCHANGED credVars
      BY <2>2 DEF credVars, IInv, TypeOK, ReplayInv, SaveInv, CommitInv, ClearInv,
         ReturnInv, CallerInv, At, Running, Value
    <2> QED BY <2>1, <2>2
  <1> QED BY <1>1, <1>2, PTL DEF Spec

\* Between calls the credentials in memory are the stored ones.
THEOREM SessionAlwaysStored == Spec => []SessionIsStored
  <1>1. IInv => SessionIsStored
    BY DEF IInv, CallerInv, SessionIsStored
  <1> QED BY <1>1, Invariance, PTL

\* Until the machine loses power the identity sidecar names the credentials in
\* the keyring whenever no commit is journalled, whatever write failed and
\* whoever died in between, so that their account can be deleted
\* (_save_account_deletion_identity_locked between the keyring write and the unlinking).
THEOREM IdentityAlwaysKnown == Spec => []IdentityKnown
  <1>1. Init => IdentityInv
    BY DEF Init, IdentityInv, At, Running
  <1>2. IInv /\ IdentityInv /\ [Next]_credVars => IdentityInv'
    <2>1. CASE Next
      BY <2>1, NextIdentity
    <2>2. CASE UNCHANGED credVars
      BY <2>2 DEF credVars, IdentityInv, At, Running
    <2> QED BY <2>1, <2>2
  <1>3. IdentityInv => IdentityKnown
    BY DEF IdentityInv, IdentityKnown
  <1> QED BY <1>1, <1>2, <1>3, Invariance, PTL DEF Spec

\* TokenStore implements the register: RegisterSpec of the runs.
THEOREM RegisterImplemented == Spec => RegisterSpec
  <1>1. Init => Register!Init
    BY DEF Init, Register!Init, NoFiles, Value, Fragile, Effective, Request,
       Running, Idle
  <1>2. IInv /\ [Next]_credVars => [Register!Next]_(Register!vars)
    <2>1. CASE Next
      BY <2>1, NextSafe
    <2>2. CASE UNCHANGED credVars
      BY <2>2 DEF credVars, Register!vars, Value, Fragile, Request, Running, After
    <2> QED BY <2>1, <2>2
  <1> QED BY <1>1, <1>2, Invariance, PTL DEF Spec, RegisterSpec, Register!Spec
=============================================================================
