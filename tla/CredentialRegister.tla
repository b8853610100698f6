-------------------------- MODULE CredentialRegister --------------------------
(***************************************************************************)
(* What TokenStore promises its callers: one register that holds the       *)
(* session's credentials.  A call takes effect at once or not at all, even *)
(* when the process dies or the keyring fails after it has written, and    *)
(* the way the call ends tells the caller which.                           *)
(*                                                                         *)
(* `fragile` is what a power loss may leave in place of the value: nothing *)
(* else once a write has returned normally.                                *)
(***************************************************************************)
CONSTANTS Tokens, NoTokens

VARIABLES value, fragile, request, answer

vars == <<value, fragile, request, answer>>

Kinds == {"load", "save", "clear", "expire", "cleanup"}

Init ==
    /\ value = NoTokens /\ fragile = {NoTokens}
    /\ request = {} /\ answer = "none"

Target(kind, tokens) ==
    CASE kind = "save" -> tokens
      [] kind = "load" -> value
      [] OTHER -> NoTokens

\* The clean-up of a sign-out may only find credentials that no caller was
\* told are saved.
Begin(kind, tokens) ==
    /\ request = {}
    /\ kind = "cleanup" => value = NoTokens \/ answer # "ok"
    /\ request' = {[kind |-> kind, before |-> value,
                    after |-> Target(kind, tokens)]}
    /\ answer' = IF kind = "load" THEN answer ELSE "none"
    /\ UNCHANGED <<value, fragile>>

\* While a call runs the value is the one before it or the one after it.
Move(r) ==
    /\ value' \in {r.before, r.after}
    /\ fragile' \subseteq fragile \cup {r.before, r.after}
    /\ value' \in fragile'

Work ==
    /\ \E r \in request : Move(r)
    /\ UNCHANGED <<request, answer>>

\* A call that returns normally is durable; one that reports "pending" has
\* taken effect; one that is refused has not.
End(outcome) ==
    /\ \E r \in request :
        /\ Move(r)
        /\ value' = IF outcome = "refused" THEN r.before ELSE r.after
        /\ outcome = "ok" /\ r.kind # "load" => fragile' = {value'}
        /\ answer' = IF r.kind = "load" THEN answer ELSE outcome
    /\ request' = {}

\* The process dies in the middle of a call, or between calls.
Crash ==
    /\ request' = {}
    /\ UNCHANGED <<value, fragile, answer>>

PowerLoss ==
    /\ value' \in fragile
    /\ fragile' = {value'}
    /\ request' = {}
    /\ UNCHANGED answer

Next ==
    \/ \E tokens \in Tokens : Begin("save", tokens)
    \/ \E kind \in Kinds \ {"save"} : Begin(kind, NoTokens)
    \/ Work
    \/ \E outcome \in {"ok", "pending", "refused"} : End(outcome)
    \/ Crash
    \/ PowerLoss

Spec == Init /\ [][Next]_vars
===============================================================================
