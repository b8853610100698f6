--------------------------- MODULE CredentialStore ---------------------------
(***************************************************************************)
(* TokenStore (network.py) over the platform keyring: the credentials of a *)
(* session are spread over a keyring item, a signed-out tombstone and an   *)
(* identity sidecar, and a commit journal makes one register of them.      *)
(*                                                                         *)
(* Every call holds token_store_lock, in all processes, so one call runs   *)
(* at a time; each of its durable writes is a step of its own, and between *)
(* two of them the process may die or the machine may lose power.  A file  *)
(* write may fail before or after it replaced the file, the keyring before *)
(* or after it mutated.                                                    *)
(*                                                                         *)
(* Not covered: the legacy secret-tool back end, which normal wiring never *)
(* selects, malformed files, and the deletion marker that blocks a save.   *)
(***************************************************************************)
EXTENDS FiniteSets

CONSTANTS
    Tokens,     \* token responses of the service
    NoTokens    \* nothing stored

ASSUME TokensAssumption == NoTokens \notin Tokens

VARIABLES
    dir,     \* the files beside session.json, as every process sees them
    synced,  \* the same files, as the last directory sync left them on disk
    secret,  \* the keyring item
    call,    \* the call that holds the lock
    answer,  \* how the last write returned (history)
    session, \* state.refresh_token of the running process
    powerLost \* has the machine lost power yet? (history)

credVars == <<dir, synced, secret, call, answer, session, powerLost>>

Stored == Tokens \cup {NoTokens}

\* journal: credential-commit file; tombstone: {"signedOut": true} in
\* session.json; identity: account-identity file.
Files == [journal : Stored, tombstone : BOOLEAN, identity : Stored]

Kinds == {"load", "save", "clear", "expire", "cleanup"}
Steps == {"journal", "secret", "fallback", "identity", "unlink", "abort",
          "restore", "tombstone", "delete", "forget", "return"}

Call == [kind : Kinds, tokens : Stored, before : Stored, replaying : BOOLEAN,
         step : Steps]
Idle == [kind |-> "none"]

TypeOK ==
    /\ dir \in Files /\ synced \in Files
    /\ secret \in Stored
    /\ call \in Call \cup {Idle}
    /\ answer \in {"none", "ok", "pending", "refused"}
    /\ session \in Stored
    /\ powerLost \in BOOLEAN

NoFiles == [journal |-> NoTokens, tombstone |-> FALSE, identity |-> NoTokens]

Init ==
    /\ dir = NoFiles /\ synced = NoFiles
    /\ secret = NoTokens
    /\ call = Idle /\ answer = "none"
    /\ session = NoTokens /\ powerLost = FALSE

\* What load returns, once it has replayed the journal, where it finds these.
Effective(journal, tombstone, item) ==
    CASE journal # NoTokens -> journal
      [] journal = NoTokens /\ tombstone -> NoTokens
      [] OTHER -> item

Value == Effective(dir.journal, dir.tombstone, secret)

\* The directories a power loss may leave: each entry that was not synced is
\* there in its old or its new form.
Survivors ==
    [journal   : {dir.journal, synced.journal},
     tombstone : {dir.tombstone, synced.tombstone},
     identity  : {dir.identity, synced.identity}]

\* The credentials a power loss may leave.
Fragile ==
    {Effective(journal, tombstone, secret) :
        journal \in {dir.journal, synced.journal},
        tombstone \in {dir.tombstone, synced.tombstone}}

-----------------------------------------------------------------------------
(* Calls *)

Running == call # Idle
At(step) == Running /\ call.step = step
Go(step) ==
    /\ call' = [call EXCEPT !.step = step]
    /\ UNCHANGED <<answer, session, powerLost>>

\* Mutant of SessionAfter: the new tokens are adopted before they are saved.
SessionAdoptedFirst(outcome) ==
    CASE call.kind = "expire" -> NoTokens
      [] call.kind = "save" -> call.tokens
      [] call.kind = "clear" /\ outcome # "refused" -> NoTokens
      [] OTHER -> session

\* The credentials the process goes on with: accept_tokens adopts a save that
\* took effect, sign_out gives them up when the tombstone is installed, and
\* expire_session whatever happened to the store.
SessionAfter(outcome) ==
    CASE call.kind = "expire" -> NoTokens
      [] call.kind = "save" /\ outcome # "refused" -> call.tokens
      [] call.kind = "clear" /\ outcome # "refused" -> NoTokens
      [] OTHER -> session

Return(outcome) ==
    /\ call' = Idle
    /\ answer' = IF call.kind = "load" THEN answer ELSE outcome
    /\ session' = SessionAfter(outcome)
    /\ UNCHANGED powerLost

\* The first write of a call, once the journal is empty.
FirstStep(kind) ==
    CASE kind = "load" -> "return"
      [] kind = "save" -> "journal"
      [] OTHER -> "tombstone"

\* Every call replays an interrupted commit before anything else.
Entry(kind) == IF dir.journal # NoTokens THEN "secret" ELSE FirstStep(kind)

\* retry_sign_out_cleanup and clear_if_signed_out: nothing in memory, and the
\* tombstone is there.  The journal is not consulted.
CleanupDue == session = NoTokens /\ dir.tombstone

Begin(kind, tokens) ==
    /\ ~Running
    /\ kind = "cleanup" => CleanupDue
    /\ call' = [kind |-> kind, tokens |-> tokens, before |-> Value,
                replaying |-> dir.journal # NoTokens, step |-> Entry(kind)]
    /\ answer' = IF kind = "load" THEN answer ELSE "none"
    /\ UNCHANGED <<dir, synced, secret, session, powerLost>>

-----------------------------------------------------------------------------
(* Durable writes *)

Durable(files)  == dir' = files /\ synced' = files
Unsynced(files) == dir' = files /\ UNCHANGED synced
Untouched       == UNCHANGED <<dir, synced>>

\* An error while the journal is replayed leaves the call undone; one after
\* the call's own commit point leaves it to be finished.
Interrupted == IF call.replaying THEN "refused" ELSE "pending"

\* A file is replaced or unlinked and its directory synced; an error may come
\* before the change or after it.
Write(step, files, next) ==
    /\ At(step)
    /\ \/ Durable(files) /\ Go(next)
       \/ (Unsynced(files) \/ Untouched) /\ Return(Interrupted)
    /\ UNCHANGED secret

\* _write_credential_commit_locked: the commit point of a save.
WriteJournal ==
    /\ At("journal")
    /\ LET files == [dir EXCEPT !.journal = call.tokens]
       IN  \/ Durable(files) /\ Go("secret")
           \/ Unsynced(files) /\ Return("pending")
           \/ Untouched /\ Return("refused")
    /\ UNCHANGED secret

\* Mutant of OnRejection: a rejected keyring write is reported, not undone.
RejectionReported == Return("refused")

\* A keyring that proves it did not mutate lets the save be undone.
OnRejection == Go("abort")

\* secret_store.save of the journalled credentials.
SaveSecret ==
    /\ At("secret")
    /\ \/ secret' = dir.journal /\ Go("fallback")
       \/ secret' \in {secret, dir.journal} /\ Return(Interrupted)
       \/ ~call.replaying /\ UNCHANGED secret /\ OnRejection
    /\ Untouched

\* _remove_fallback_durable_locked: a missing file is not synced again.
RemoveFallback ==
    IF dir.tombstone
    THEN Write("fallback", [dir EXCEPT !.tombstone = FALSE], "identity")
    ELSE At("fallback") /\ Go("identity") /\ UNCHANGED <<dir, synced, secret>>

\* Mutant of Identified: the sidecar is written by the first save only.
IdentifiedOnce ==
    IF dir.identity = NoTokens THEN [dir EXCEPT !.identity = dir.journal] ELSE dir

Identified == [dir EXCEPT !.identity = dir.journal]

WriteIdentity == Write("identity", Identified, "unlink")

\* _clear_credential_commit_locked ends a replay or a save.
UnlinkJournal ==
    /\ At("unlink")
    /\ LET files == [dir EXCEPT !.journal = NoTokens]
       IN  \/ /\ Durable(files)
              /\ IF call.replaying
                 THEN /\ call' = [call EXCEPT !.replaying = FALSE,
                                              !.step = FirstStep(call.kind)]
                      /\ UNCHANGED <<answer, session, powerLost>>
                 ELSE Go("return")
           \/ (Unsynced(files) \/ Untouched) /\ Return(Interrupted)
    /\ UNCHANGED secret

\* _abort_credential_commit_locked: the save is undone by unlinking the
\* journal; if the unlink may not last, the journal is put back.
AbortCommit ==
    /\ At("abort")
    /\ LET files == [dir EXCEPT !.journal = NoTokens]
       IN  \/ Durable(files) /\ Return("refused")
           \/ Unsynced(files) /\ Go("restore")
           \/ Untouched /\ Return("pending")
    /\ UNCHANGED secret

RestoreJournal ==
    /\ At("restore")
    /\ LET files == [dir EXCEPT !.journal = call.tokens]
       IN  \/ (Durable(files) \/ Unsynced(files)) /\ Return("pending")
           \/ Untouched /\ Return("refused")
    /\ UNCHANGED secret

\* _clear_locked: the tombstone is the commit point of a sign-out.
WriteTombstone ==
    /\ At("tombstone")
    /\ LET files == [dir EXCEPT !.tombstone = TRUE]
       IN  \/ Durable(files) /\ Go("delete")
           \/ Unsynced(files) /\ Return("pending")
           \/ Untouched /\ Return("refused")
    /\ UNCHANGED secret

DeleteSecret ==
    /\ At("delete")
    /\ \/ secret' = NoTokens /\ Go("forget")
       \/ secret' \in {secret, NoTokens} /\ Return("pending")
    /\ Untouched

ForgetIdentity == Write("forget", [dir EXCEPT !.identity = NoTokens], "return")

Finish == At("return") /\ Return("ok") /\ UNCHANGED <<dir, synced, secret>>

-----------------------------------------------------------------------------

\* The process dies; the next one starts without tokens in memory.
Crash ==
    /\ call' = Idle /\ session' = NoTokens
    /\ UNCHANGED <<dir, synced, secret, answer, powerLost>>

PowerLoss ==
    /\ dir' \in Survivors /\ synced' = dir'
    /\ call' = Idle /\ session' = NoTokens
    /\ powerLost' = TRUE
    /\ UNCHANGED <<secret, answer>>

Step ==
    \/ WriteJournal \/ SaveSecret \/ RemoveFallback \/ WriteIdentity
    \/ UnlinkJournal \/ AbortCommit \/ RestoreJournal
    \/ WriteTombstone \/ DeleteSecret \/ ForgetIdentity
    \/ Finish

Next ==
    \/ \E tokens \in Tokens : Begin("save", tokens)
    \/ \E kind \in Kinds \ {"save"} : Begin(kind, NoTokens)
    \/ Step
    \/ Crash
    \/ PowerLoss

Spec == Init /\ [][Next]_credVars

-----------------------------------------------------------------------------
(* Properties *)

\* What the running call does to the register.
After ==
    CASE call.kind = "save" -> call.tokens
      [] call.kind = "load" -> call.before
      [] OTHER -> NoTokens

Request ==
    IF Running
    THEN {[kind |-> call.kind, before |-> call.before, after |-> After]}
    ELSE {}

Register == INSTANCE CredentialRegister WITH
    value   <- Value,
    fragile <- Fragile,
    request <- Request

\* The four places behave as one register, whatever fails in between: see
\* CredentialRegister.
RegisterSpec == Register!Spec

\* Until the machine loses power, whatever dies or fails: the identity sidecar
\* names the credentials in the keyring whenever no commit is journalled, in
\* the middle of a call too.  (A power loss may bring the journal of an older
\* commit back, or take the sidecar away.)  Otherwise the account cannot be
\* deleted: "Stored OAuth credential identity is unavailable."
IdentityKnown ==
    ~powerLost /\ dir.journal = NoTokens => secret \in {NoTokens, dir.identity}

\* Between calls the credentials in memory are the stored ones, so a restart
\* goes on with the same session.
SessionIsStored ==
    ~Running /\ session # NoTokens => session = Value

\* Inductive invariant: what each step of a call finds, by the commit it is in.

\* A replay finds the commit point of the value it started from.
ReplayInv ==
    Running /\ call.replaying =>
        /\ call.step \in {"secret", "fallback", "identity", "unlink"}
        /\ dir.journal = call.before /\ call.before # NoTokens

\* A save has its journal on disk until it is undone, and can be undone as
\* long as the keyring was not written.
SaveInv ==
    Running /\ ~call.replaying /\ call.kind = "save" =>
        /\ call.step \in Steps \ {"tombstone", "delete", "forget"}
        /\ call.step \in {"journal", "restore"} =>
              dir.journal = NoTokens /\ Value = call.before
        /\ call.step \in {"secret", "fallback", "identity", "unlink", "abort"} =>
              dir.journal = call.tokens /\ synced.journal = call.tokens
        /\ call.step \in {"secret", "abort"} =>
              /\ dir = synced
              /\ Effective(NoTokens, dir.tombstone, secret) = call.before

\* Past the keyring write, what is left of a commit hides nothing new.
CommitInv ==
    /\ At("fallback") => secret = dir.journal
    /\ At("identity") => secret = dir.journal /\ ~dir.tombstone
    /\ At("unlink")   => secret = dir.journal /\ ~dir.tombstone /\ dir = synced

ClearInv ==
    Running /\ ~call.replaying /\ call.kind \in {"clear", "expire", "cleanup"} =>
        /\ call.step \in {"tombstone", "delete", "forget", "return"}
        /\ dir.journal = NoTokens
        /\ call.step = "tombstone" => Value = call.before
        /\ call.step # "tombstone" => dir.tombstone /\ dir = synced

ReturnInv ==
    /\ Running /\ ~call.replaying /\ call.kind = "load" => call.step = "return"
    /\ At("return") =>
          /\ dir.journal = NoTokens
          /\ Value = (IF call.kind = "save" THEN call.tokens
                      ELSE IF call.kind = "load" THEN call.before ELSE NoTokens)
          /\ call.kind # "load" => dir = synced

CallerInv ==
    /\ session # NoTokens => session = IF Running THEN call.before ELSE Value
    /\ Running /\ call.kind = "cleanup" => session = NoTokens
    /\ Running /\ call.kind = "save" => call.tokens # NoTokens
    /\ Running /\ call.kind # "load" => answer = "none"
    /\ answer = "ok" => dir.journal = NoTokens /\ synced.journal = NoTokens

IInv ==
    /\ TypeOK /\ ReplayInv /\ SaveInv /\ CommitInv /\ ClearInv
    /\ ReturnInv /\ CallerInv
==============================================================================
