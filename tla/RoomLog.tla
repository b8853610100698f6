------------------------------- MODULE RoomLog -------------------------------
(***************************************************************************)
(* What the log of a room promises, whatever its devices say to each       *)
(* other: a log only grows, by records its own device wrote or by records  *)
(* it copied from one other device, and never holds two payloads of one    *)
(* ID.                                                                     *)
(***************************************************************************)
EXTENDS Naturals

CONSTANTS Device, Creator, Record, Genesis

VARIABLE log

Own(d) == {r \in Record : r.author = d}

Key(r) == <<IF r.domain = "retarget" THEN "timer" ELSE r.domain, r.id>>

OnePayload(records) ==
    \A r \in records : \A s \in records : Key(r) = Key(s) => r = s

Init == log = [d \in Device |-> IF d = Creator THEN {Genesis} ELSE {}]

Extend(d) ==
    /\ log[d] \subseteq log'[d]
    /\ OnePayload(log'[d])
    /\ \E e \in Device : log'[d] \subseteq log[d] \cup log[e] \cup Own(d)
    /\ \A c \in Device \ {d} : log'[c] = log[c]

Next == \E d \in Device : Extend(d)

Spec == Init /\ [][Next]_log
==============================================================================
