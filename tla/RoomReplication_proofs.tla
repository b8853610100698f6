------------------------ MODULE RoomReplication_proofs ------------------------
(***************************************************************************)
(* For any number of devices, edits, clashes and cut connections, and any  *)
(* size of a batch: no edit of a room is lost or published twice, a room   *)
(* in conflict has two payloads under one ID, and the logs of the devices  *)
(* implement RoomLog.                                                      *)
(*                                                                         *)
(* The invariant that makes it so: nobody holds a record its author has    *)
(* not published (Published), whatever a connection is about to fetch      *)
(* still is in the log of the peer (Fetched), and two edits of one ID are  *)
(* of one domain (OneDomain), so an author never clashes with itself.      *)
(***************************************************************************)
EXTENDS RoomReplication, FiniteSetTheorems, TLAPS

Typed ==
    /\ made \subseteq Record
    /\ records \in [Device -> SUBSET made]
    /\ queue \in [Device -> SUBSET made]
    /\ conflict \in [Device -> BOOLEAN]
    /\ pull \in [Device -> [Device -> Pull]]

\* The IDs of the edits are 0..n, so NextId is a new one.
IdsDense  == \E n \in Nat : {r.id : r \in made} = 0..n
OneDomain == \A r, s \in made : r.id = s.id => r.domain = s.domain

OwnQueue    == \A d \in Device : \A r \in queue[d] :
                   r.author = d /\ r \notin records[d]
Published   == \A d \in Device : \A r \in records[d] : r \in records[r.author]
OnePayloads == \A d \in Device : \A r, s \in records[d] : Key(r) = Key(s) => r = s
Fetched     == \A d, e \in Device : pull[d][e].missing \subseteq records[e]

\* What holds of the logs and queues, and what the connections add to it.
LogInv == EditsKept /\ OwnQueue /\ Published /\ OnePayloads
IInv   == Typed /\ IdsDense /\ OneDomain /\ LogInv /\ Fetched /\ ConflictIsReal

\* The shape of every change of a log: the device d makes the edits `fresh`,
\* publishes `new` of what it has queued and takes `batch` from the log of e.
Grows(d, e, fresh, new, batch) ==
    /\ fresh \in SUBSET Record /\ fresh \cap made = {}
    /\ \A r \in fresh : r.author = d
    /\ new \in SUBSET (queue[d] \cup fresh)
    /\ batch \in SUBSET records[e]
    /\ \A r \in new : ~Clashes(records[d], r)
    /\ \A r \in batch : ~Clashes(records[d] \cup new, r)
    /\ made' = made \cup fresh
    /\ queue' = [queue EXCEPT ![d] = (queue[d] \cup fresh) \ new]
    /\ records' = [records EXCEPT ![d] = records[d] \cup new \cup batch]

\* A change of that shape keeps what holds of the logs and is a step of
\* RoomLog, when two edits of one ID still are of one domain.
LEMMA GrowsSafe ==
    ASSUME IInv, OneDomain', NEW d \in Device, NEW e \in Device,
           NEW fresh, NEW new, NEW batch, Grows(d, e, fresh, new, batch)
    PROVE  /\ made' \subseteq Record
           /\ records' \in [Device -> SUBSET made']
           /\ queue' \in [Device -> SUBSET made']
           /\ \A c \in Device : records[c] \subseteq records'[c]
           /\ LogInv' /\ Log!Next
<1> USE DEF Grows
<1>1. /\ made \subseteq Record /\ made \subseteq made' /\ made' \subseteq Record
      /\ records \in [Device -> SUBSET made] /\ queue \in [Device -> SUBSET made]
  BY DEF IInv, Typed
<1>2. /\ records[d] \subseteq made /\ records[e] \subseteq made
      /\ queue[d] \subseteq made /\ new \subseteq made'
  BY <1>1
<1>3. records' \in [Device -> SUBSET made'] /\ queue' \in [Device -> SUBSET made']
  BY <1>1, <1>2
<1>4. /\ records'[d] = records[d] \cup new \cup batch
      /\ queue'[d] = (queue[d] \cup fresh) \ new
      /\ \A c \in Device \ {d} : records'[c] = records[c] /\ queue'[c] = queue[c]
  BY <1>1
<1>5. \A c \in Device : records[c] \subseteq records'[c]
  BY <1>4
<1>6. \A r \in queue[d] \cup fresh :
          r.author = d /\ r \notin records[d] /\ r \notin batch
  <2>1. \A r \in fresh : r \notin records[d] /\ r \notin records[e]
    BY <1>2
  <2>2. \A r \in queue[d] : r.author = d /\ r \notin records[d]
    BY DEF IInv, LogInv, OwnQueue
  <2>3. \A r \in records[e] : r \in records[r.author]
    BY DEF IInv, LogInv, Published
  <2> QED  BY <2>1, <2>2, <2>3
<1>7. OwnQueue'
  BY <1>4, <1>6 DEF IInv, LogInv, OwnQueue
<1>8. Published'
  <2> SUFFICES ASSUME NEW c \in Device, NEW r \in records'[c]
               PROVE  r \in records'[r.author]
    BY DEF Published
  <2>1. r.author \in Device
    BY <1>1, <1>3 DEF Record
  <2>2. CASE \E x \in Device : r \in records[x]
    BY <2>1, <2>2, <1>5 DEF IInv, LogInv, Published
  <2>3. CASE c = d /\ r \in new
    BY <2>3, <1>4, <1>6
  <2> QED  BY <2>2, <2>3, <1>4
<1>9. EditsKept'
  <2> SUFFICES ASSUME NEW r \in made'
               PROVE  (r \in queue'[r.author]) # (r \in records'[r.author])
    BY DEF EditsKept
  <2>1. r.author \in Device
    BY <1>1 DEF Record
  <2>2. r \in made => (r \in queue[r.author]) # (r \in records[r.author])
    BY DEF IInv, LogInv, EditsKept
  <2>3. CASE r.author # d
    BY <2>1, <2>2, <2>3, <1>4
  <2>4. CASE r.author = d
    <3>1. r \in batch => r \in records[d]
      BY <2>4 DEF IInv, LogInv, Published
    <3>2. r \in fresh => r \notin records[d]
      BY <1>6
    <3>3. CASE r \in queue[d] \cup fresh
      BY <3>3, <2>4, <1>4, <1>6
    <3>4. CASE r \notin queue[d] \cup fresh
      BY <3>4, <3>1, <2>2, <2>4, <1>4
    <3> QED  BY <3>3, <3>4
  <2> QED  BY <2>3, <2>4
<1>10. OnePayloads'
  <2> SUFFICES ASSUME NEW r \in records'[d], NEW s \in records'[d], Key(r) = Key(s)
               PROVE  r = s
    BY <1>4 DEF OnePayloads, IInv, LogInv
  <2>1. \A x, y \in records[d] : Key(x) = Key(y) => x = y
    BY DEF IInv, LogInv, OnePayloads
  <2>2. \A x, y \in records[e] : Key(x) = Key(y) => x = y
    BY DEF IInv, LogInv, OnePayloads
  <2>3. \A x, y \in new : Key(x) = Key(y) => x = y
    <3> SUFFICES ASSUME NEW x \in new, NEW y \in new, Key(x) = Key(y)
                 PROVE  x = y
      OBVIOUS
    <3>1. x.id = y.id /\ x.author = y.author
      BY <1>6 DEF Key
    <3>2. x.domain = y.domain
      BY <3>1, <1>2 DEF OneDomain
    <3> QED  BY <3>1, <3>2, <1>1, <1>2 DEF Record
  <2>4. \A x \in new, y \in records[d] : Key(x) = Key(y) => x = y
    BY DEF Clashes
  <2>5. \A x \in batch, y \in records[d] \cup new : Key(x) = Key(y) => x = y
    BY DEF Clashes
  <2> QED  BY <1>4, <2>1, <2>2, <2>3, <2>4, <2>5
<1>11. Log!Next
  <2>1. Log!OnePayload(records'[d])
    BY <1>10 DEF Log!OnePayload, Log!Key, OnePayloads, Key
  <2>2. new \subseteq Log!Own(d)
    BY <1>1, <1>2, <1>6 DEF Log!Own
  <2>3. records'[d] \subseteq records[d] \cup records[e] \cup Log!Own(d)
    BY <2>2, <1>4
  <2> QED  BY <2>1, <2>3, <1>4, <1>5 DEF Log!Next, Log!Extend
<1> QED  BY <1>1, <1>3, <1>5, <1>7, <1>8, <1>9, <1>10, <1>11 DEF LogInv
-------------------------------------------------------------------------------
(* The connections. *)

\* What the connections may become: nothing they are about to fetch is new.
Shrunk(next) ==
    /\ next \in [Device -> [Device -> Pull]]
    /\ \A c, x \in Device : next[c][x].missing \subseteq pull[c][x].missing

LEMMA OffTyped == Off \in Pull /\ Off.missing = {}
  BY DEF Off, Pull, Stages

LEMMA StoppedShrunk ==
    ASSUME Typed, NEW d \in Device
    PROVE  Shrunk(StoppedPulls(d))
  BY OffTyped DEF Typed, Shrunk, StoppedPulls

LEMMA ClosedShrunk ==
    ASSUME Typed, NEW d \in Device, NEW e \in Device
    PROVE  Shrunk(Closed(d, e))
<1>1. Closed(d, e) \in [Device -> [Device -> Pull]]
  BY OffTyped DEF Typed, Closed
<1>2. \A c, x \in Device : \/ Closed(d, e)[c][x] = Off
                           \/ Closed(d, e)[c][x] = pull[c][x]
  BY DEF Typed, Closed
<1> QED  BY <1>1, <1>2, OffTyped DEF Shrunk

LEMMA RaiseShrunk ==
    ASSUME Typed, NEW d \in Device, NEW e \in Device, NEW repair,
           Raise(d, e, repair)
    PROVE  Shrunk(pull')
  BY StoppedShrunk, ClosedShrunk DEF Raise

\* A step that leaves logs, queues and conflicts alone.
LEMMA QuietSafe ==
    ASSUME IInv, UNCHANGED <<made, records, queue, conflict>>, Shrunk(pull')
    PROVE  IInv' /\ UNCHANGED records
<1>1. Typed' /\ Fetched'
  BY DEF IInv, Typed, Fetched, Shrunk
<1> QED  BY <1>1 DEF IInv, IdsDense, OneDomain, LogInv, EditsKept, OwnQueue,
                     Published, OnePayloads, ConflictIsReal

\* A step that changes one log.
LEMMA GrowthSafe ==
    ASSUME IInv, OneDomain', IdsDense', NEW d \in Device, NEW e \in Device,
           NEW fresh, NEW new, NEW batch, Grows(d, e, fresh, new, batch),
           conflict' \in [Device -> BOOLEAN], ConflictIsReal',
           Shrunk(pull')
    PROVE  IInv' /\ Log!Next
<1>1. /\ made' \subseteq Record /\ LogInv' /\ Log!Next
      /\ records' \in [Device -> SUBSET made']
      /\ queue' \in [Device -> SUBSET made']
      /\ \A c \in Device : records[c] \subseteq records'[c]
  BY GrowsSafe
<1>2. Typed'
  BY <1>1 DEF Typed, Shrunk
<1>3. Fetched'
  BY <1>1 DEF IInv, Fetched, Shrunk
<1> QED  BY <1>1, <1>2, <1>3 DEF IInv

\* What is made stays made, so a real conflict stays real.
LEMMA ConflictStays ==
    ASSUME IInv, made \subseteq made', UNCHANGED conflict
    PROVE  /\ ConflictIsReal'
           /\ conflict' \in [Device -> BOOLEAN]
  BY DEF IInv, Typed, ConflictIsReal, Clashes

LEMMA SamePulls ==
    ASSUME IInv, UNCHANGED pull
    PROVE  Shrunk(pull')
  BY DEF IInv, Typed, Shrunk
-------------------------------------------------------------------------------
(* Edits and captures. *)

\* A new edit of d is queued and, unless the room needs repair, captured.
LEMMA PublishSafe ==
    ASSUME IInv, OneDomain', IdsDense', NEW d \in Device, NEW r \in Record,
           r.author = d, r \notin made, Publish(d, r)
    PROVE  IInv' /\ Log!Next
<1> DEFINE pending == queue[d] \cup {r}
           new == IF conflict[d] THEN {} ELSE Publishable(d, pending)
<1>1. /\ records \in [Device -> SUBSET made] /\ queue \in [Device -> SUBSET made]
  BY DEF IInv, Typed
<1>2. new \subseteq pending
  BY DEF Publishable
<1>3. \A s \in new : ~Clashes(records[d], s)
  BY DEF Publish, CaptureOK
<1>4. queue' = [queue EXCEPT ![d] = (queue[d] \cup {r}) \ new]
  BY DEF Publish, LeftQueued
<1>5. records' = [records EXCEPT ![d] = records[d] \cup new \cup {}]
  <2>1. CASE conflict[d]
    BY <2>1, <1>1 DEF Publish
  <2>2. CASE ~conflict[d]
    BY <2>2 DEF Publish, Captured
  <2> QED  BY <2>1, <2>2
<1>6. made' = made \cup {r} /\ UNCHANGED <<conflict, pull>>
  BY DEF Publish
<1> HIDE DEF new
<1>7. Grows(d, d, {r}, new, {})
  BY <1>2, <1>3, <1>4, <1>5, <1>6 DEF Grows
<1> QED  BY <1>6, <1>7, GrowthSafe, ConflictStays, SamePulls

\* The ID of an edit is the number of IDs used so far, and therefore new.
LEMMA NextIdIsNew ==
    ASSUME IInv
    PROVE  /\ NextId \in Nat \ {0}
           /\ {r.id : r \in made} = 0..(NextId - 1)
<1>1. PICK n \in Nat : {r.id : r \in made} = 0..n
  BY DEF IInv, IdsDense
<1>2. Cardinality(0..n) = n + 1
  BY FS_Interval
<1>3. NextId = n + 1
  BY <1>1, <1>2 DEF NextId
<1>4. NextId \in Nat \ {0} /\ NextId - 1 = n
  BY <1>3
<1> QED  BY <1>1, <1>4

LEMMA EditSafe ==
    ASSUME IInv, NEW d \in Device, NEW domain \in Domains, Edit(d, domain)
    PROVE  IInv' /\ Log!Next
<1> DEFINE r == [id |-> NextId, domain |-> domain, author |-> d]
<1>1. NextId \in Nat /\ NextId <= MaxEdits /\ \A s \in made : s.id \in 0..(NextId - 1)
  BY NextIdIsNew DEF Edit
<1>2. MaxEdits \in Nat
  BY LimitsAssumption
<1>3. r \in Record /\ r.author = d /\ r.id = NextId /\ r \notin made
  BY <1>1, <1>2 DEF Record
<1>4. Publish(d, r) /\ made' = made \cup {r}
  BY DEF Edit, Publish
<1> HIDE DEF r
<1>5. OneDomain'
  BY <1>1, <1>3, <1>4 DEF IInv, OneDomain
<1>6. IdsDense'
  <2>1. {s.id : s \in made'} = {s.id : s \in made} \cup {NextId}
    BY <1>3, <1>4
  <2>2. {s.id : s \in made'} = 0..NextId
    BY <2>1, NextIdIsNew
  <2> QED  BY <2>2, <1>1 DEF IdsDense
<1> QED  BY <1>3, <1>4, <1>5, <1>6, PublishSafe

LEMMA EditClashingSafe ==
    ASSUME IInv, NEW d \in Device, NEW s \in made, EditClashing(d, s)
    PROVE  IInv' /\ Log!Next
<1> DEFINE r == [s EXCEPT !.author = d]
<1>1. s \in Record
  BY DEF IInv, Typed
<1>2. /\ r \in Record /\ r.author = d /\ r.id = s.id /\ r.domain = s.domain
      /\ r \notin made
  BY <1>1 DEF Record, EditClashing
<1>3. Publish(d, r) /\ made' = made \cup {r}
  BY DEF EditClashing, Publish
<1> HIDE DEF r
<1>4. OneDomain'
  BY <1>2, <1>3 DEF IInv, OneDomain
<1>5. {x.id : x \in made'} = {x.id : x \in made}
  BY <1>2, <1>3
<1>6. IdsDense'
  BY <1>5 DEF IInv, IdsDense
<1> QED  BY <1>2, <1>3, <1>4, <1>6, PublishSafe

\* Without a new edit the facts about IDs stay.
LEMMA SameIds ==
    ASSUME IInv, UNCHANGED made
    PROVE  OneDomain' /\ IdsDense'
  BY DEF IInv, OneDomain, IdsDense

LEMMA CaptureSafe ==
    ASSUME IInv, NEW d \in Device, Capture(d)
    PROVE  IInv' /\ Log!Next
<1> DEFINE new == Publishable(d, queue[d])
<1>1. new \subseteq queue[d]
  BY DEF Publishable
<1>2. \A s \in new : ~Clashes(records[d], s)
  BY DEF Capture, CaptureOK
<1>3. queue' = [queue EXCEPT ![d] = (queue[d] \cup {}) \ new]
  BY DEF Capture, LeftQueued
<1>4. records' = [records EXCEPT ![d] = records[d] \cup new \cup {}]
  BY DEF Capture, Captured
<1>5. UNCHANGED <<made, conflict, pull>>
  BY DEF Capture
<1> HIDE DEF new
<1>6. Grows(d, d, {}, new, {})
  BY <1>1, <1>2, <1>3, <1>4, <1>5 DEF Grows
<1> QED  BY <1>5, <1>6, GrowthSafe, ConflictStays, SamePulls, SameIds
-------------------------------------------------------------------------------
(* Exchanges. *)

LEMMA InventorySafe ==
    ASSUME IInv, NEW d \in Device, NEW e \in Device, Inventory(d, e)
    PROVE  IInv' /\ UNCHANGED records
<1> DEFINE missing == Missing(d, e)
<1>1. UNCHANGED <<made, records, queue>>
  BY DEF Inventory
<1>2. missing \subseteq records[e] /\ missing \subseteq Record
  BY DEF Missing, IInv, Typed
<1>3. CASE UNCHANGED conflict /\ pull' = [pull EXCEPT
               ![d][e].stage = IF missing # {} THEN "fetch" ELSE "serving",
               ![d][e].missing = missing, ![d][e].changed = FALSE]
  <2> DEFINE stage == IF missing # {} THEN "fetch" ELSE "serving"
             next  == [pull[d][e] EXCEPT !.stage = stage, !.missing = missing,
                                         !.changed = FALSE]
  <2> HIDE DEF missing
  <2>1. pull \in [Device -> [Device -> Pull]] /\ pull[d][e] \in Pull
    BY DEF IInv, Typed
  <2>2. next \in Pull /\ next.missing = missing
    BY <2>1, <1>2 DEF Pull, Stages
  <2>3. pull' = [pull EXCEPT ![d][e] = next]
    BY <2>1, <1>3 DEF Pull
  <2> HIDE DEF next
  <2>4. /\ pull'[d][e].missing = missing
        /\ \A c, x \in Device : c # d \/ x # e => pull'[c][x] = pull[c][x]
        /\ pull' \in [Device -> [Device -> Pull]]
    BY <2>1, <2>2, <2>3
  <2>5. Typed'
    BY <2>4, <1>1, <1>3 DEF IInv, Typed
  <2>6. Fetched'
    BY <2>4, <1>1, <1>2 DEF IInv, Fetched
  <2> QED  BY <2>5, <2>6, <1>1, <1>3 DEF IInv, IdsDense, OneDomain, LogInv,
              EditsKept, OwnQueue, Published, OnePayloads, ConflictIsReal
<1>4. CASE /\ \E r \in records[e] : Clashes(records[d], r)
           /\ conflict' = [conflict EXCEPT ![d] = TRUE]
           /\ Raise(d, e, TRUE)
  <2>1. Shrunk(pull')
    BY <1>4, RaiseShrunk DEF IInv
  <2>2. Typed' /\ Fetched'
    BY <2>1, <1>1, <1>4 DEF IInv, Typed, Fetched, Shrunk
  <2>3. records[d] \subseteq made /\ records[e] \subseteq made
    BY DEF IInv, Typed
  <2>4. ConflictIsReal'
    BY <2>3, <1>1, <1>4 DEF ConflictIsReal, Clashes
  <2> QED  BY <2>2, <2>4, <1>1 DEF IInv, IdsDense, OneDomain, LogInv,
              EditsKept, OwnQueue, Published, OnePayloads
<1> QED  BY <1>3, <1>4 DEF Inventory

LEMMA FetchSafe ==
    ASSUME IInv, NEW d \in Device, NEW e \in Device, Fetch(d, e)
    PROVE  IInv' /\ [Log!Next]_records
<1> DEFINE batch == FirstBatch(pull[d][e].missing)
           new == Publishable(d, QueueAtInsert(d))
           log == LogAtInsert(d)
<1>1. UNCHANGED made
  BY DEF Fetch
<1>2. batch \subseteq pull[d][e].missing /\ batch \subseteq records[e]
  BY DEF FirstBatch, IInv, Fetched
<1>3. new \subseteq queue[d] /\ log = records[d] \cup new
  BY DEF Publishable, QueueAtInsert, LogAtInsert, Captured
<1>4. ASSUME Admits(d, batch)
      PROVE  \A r \in new : ~Clashes(records[d], r)
  BY <1>4 DEF Admits, CaptureOK
<1>5. ASSUME NEW l, Commit(d, l)
      PROVE  /\ records' = [records EXCEPT ![d] = l]
             /\ queue' = [queue EXCEPT ![d] = (queue[d] \cup {}) \ new]
  <2>1. queue \in [Device -> SUBSET made]
    BY DEF IInv, Typed
  <2>2. CASE room[d] = "active"
    BY <1>5, <2>2 DEF Commit, LeftQueued, QueueAtInsert
  <2>3. CASE room[d] # "active"
    <3>1. new = {} /\ queue' = queue
      BY <1>5, <2>3 DEF Commit, QueueAtInsert, Publishable
    <3> QED  BY <1>5, <2>1, <3>1 DEF Commit
  <2> QED  BY <2>2, <2>3
<1> HIDE DEF batch, new, log
<1>6. CASE /\ Accepts(d, batch) /\ Commit(d, log \cup batch) /\ UNCHANGED conflict
           /\ pull' = [pull EXCEPT ![d][e] =
                  Continue(@, batch, ~(batch \subseteq log))]
  <2>1. Admits(d, batch) /\ \A r \in batch : ~Clashes(log, r)
    BY <1>6 DEF Accepts, log
  <2>2. records' = [records EXCEPT ![d] = records[d] \cup new \cup batch]
    BY <1>3, <1>5, <1>6
  <2>3. queue' = [queue EXCEPT ![d] = (queue[d] \cup {}) \ new]
    BY <1>5, <1>6
  <2>4. Grows(d, e, {}, new, batch)
    BY <2>1, <2>2, <2>3, <1>1, <1>2, <1>3, <1>4 DEF Grows
  <2>5. pull \in [Device -> [Device -> Pull]] /\ pull[d][e] \in Pull
    BY DEF IInv, Typed
  <2> DEFINE next == Continue(pull[d][e], batch, ~(batch \subseteq log))
  <2>6. next \in Pull /\ next.missing \subseteq pull[d][e].missing
    BY <2>5 DEF Continue, Pull, Stages
  <2> HIDE DEF next
  <2>7. Shrunk(pull')
    BY <1>6, <2>5, <2>6 DEF Shrunk, next
  <2> QED  BY <2>4, <2>7, <1>1, <1>6, GrowthSafe, ConflictStays, SameIds
<1>7. CASE /\ FindsClash(d, batch) /\ Commit(d, log) /\ Raise(d, e, TRUE)
           /\ conflict' = [conflict EXCEPT ![d] = TRUE]
  <2>1. Admits(d, batch) /\ \E r \in batch : Clashes(log, r)
    BY <1>7 DEF FindsClash, log
  <2>2. records' = [records EXCEPT ![d] = records[d] \cup new \cup {}]
    BY <1>3, <1>5, <1>7
  <2>3. queue' = [queue EXCEPT ![d] = (queue[d] \cup {}) \ new]
    BY <1>5, <1>7
  <2>4. Grows(d, e, {}, new, {})
    BY <2>1, <2>2, <2>3, <1>1, <1>3, <1>4 DEF Grows
  <2>5. Shrunk(pull')
    BY <1>7, RaiseShrunk DEF IInv
  <2>6. batch \subseteq made /\ log \subseteq made
    BY <1>2, <1>3 DEF IInv, Typed
  <2>7. ConflictIsReal' /\ conflict' \in [Device -> BOOLEAN]
    BY <2>1, <2>6, <1>1, <1>7 DEF ConflictIsReal, Clashes, IInv, Typed
  <2> QED  BY <2>4, <2>5, <2>7, <1>1, GrowthSafe, SameIds
<1>8. CASE /\ Raise(d, e, conflict[d] \/ CaptureClashes(d, QueueAtInsert(d)))
           /\ UNCHANGED <<records, queue, conflict>>
  BY <1>1, <1>8, RaiseShrunk, QuietSafe DEF IInv
<1> QED  BY <1>6, <1>7, <1>8 DEF Fetch, batch, log

\* The other steps of an exchange.
LEMMA TalkSafe ==
    ASSUME IInv, NEW d \in Device, NEW e \in Device,
           Connect(d, e) \/ HelloAnswered(d, e) \/ EndExchange(d, e) \/ Drop(d, e)
    PROVE  IInv' /\ UNCHANGED records
<1>1. UNCHANGED <<made, records, queue, conflict>>
  BY DEF Connect, HelloAnswered, EndExchange, Drop
<1>2. pull \in [Device -> [Device -> Pull]]
  BY DEF IInv, Typed
<1>3. CASE Connect(d, e)
  <2>1. At("hello", TRUE) \in Pull /\ At("inventory", FALSE) \in Pull
    BY DEF At, Off, Pull, Stages
  <2>2. At("hello", TRUE).missing = {} /\ At("inventory", FALSE).missing = {}
    BY DEF At, Off
  <2>3. d # e /\ pull' = [pull EXCEPT ![d][e] = At("hello", TRUE),
                                      ![e][d] = At("inventory", FALSE)]
    BY <1>3 DEF Connect
  <2>4. Shrunk(pull')
    BY <2>1, <2>2, <2>3, <1>2 DEF Shrunk
  <2> QED  BY <2>4, <1>1, QuietSafe
<1>4. CASE HelloAnswered(d, e)
  <2> DEFINE next == [pull[d][e] EXCEPT !.stage = "inventory"]
  <2>1. pull[d][e] \in Pull
    BY <1>2
  <2>2. next \in Pull /\ next.missing = pull[d][e].missing
    BY <2>1 DEF Pull, Stages
  <2>3. pull' = [pull EXCEPT ![d][e] = next]
    BY <1>2, <1>4 DEF HelloAnswered
  <2> HIDE DEF next
  <2>4. Shrunk(pull')
    BY <1>2, <2>2, <2>3 DEF Shrunk
  <2> QED  BY <2>4, <1>1, QuietSafe
<1>5. CASE EndExchange(d, e) \/ Drop(d, e)
  <2>1. Shrunk(pull')
    BY <1>5, ClosedShrunk, RaiseShrunk DEF IInv, EndExchange, Drop
  <2> QED  BY <2>1, <1>1, QuietSafe
<1> QED  BY <1>3, <1>4, <1>5

\* Endpoints, joins and upgrades.
LEMMA EndpointSafe ==
    ASSUME IInv, NEW d \in Device,
           \/ CaptureRaises(d) \/ StartRoom(d) \/ StopEndpoint(d) \/ Upgrade(d)
           \/ \E e \in Device : Join(d, e)
    PROVE  IInv' /\ UNCHANGED records
<1>1. UNCHANGED <<made, records, queue, conflict>>
  BY DEF CaptureRaises, StartRoom, StopEndpoint, Upgrade, Join
<1>2. pull' = StoppedPulls(d) \/ UNCHANGED pull
  BY DEF CaptureRaises, StartRoom, StopEndpoint, Upgrade, Join
<1>3. Shrunk(pull')
  BY <1>2, StoppedShrunk, SamePulls DEF IInv
<1> QED  BY <1>1, <1>3, QuietSafe
-------------------------------------------------------------------------------
(* The specification. *)

LEMMA InitInvariant == Init => IInv /\ Log!Init
<1> SUFFICES ASSUME Init PROVE IInv /\ Log!Init
  OBVIOUS
<1>1. Genesis \in Record /\ Genesis.author = Creator /\ Genesis.id = 0
  BY LimitsAssumption, DevicesAssumption DEF Genesis, Record, Domains
<1>2. Typed
  BY <1>1, OffTyped DEF Init, Typed
<1>3. IdsDense
  <2>1. {r.id : r \in made} = {0} /\ 0..0 = {0}
    BY <1>1 DEF Init
  <2> QED  BY <2>1 DEF IdsDense
<1>4. OneDomain /\ OwnQueue /\ OnePayloads
  BY DEF Init, OneDomain, OwnQueue, OnePayloads
<1>5. EditsKept /\ Published
  BY <1>1, DevicesAssumption DEF Init, EditsKept, Published
<1>6. Fetched /\ ConflictIsReal
  BY OffTyped DEF Init, Fetched, ConflictIsReal
<1>7. Log!Init
  BY DEF Init, Log!Init
<1> QED  BY <1>2, <1>3, <1>4, <1>5, <1>6, <1>7 DEF IInv, LogInv

\* Every step keeps the invariant and is a step of RoomLog or none.
LEMMA NextSafe ==
    ASSUME IInv, [Next]_vars
    PROVE  IInv' /\ [Log!Next]_records
<1>1. CASE UNCHANGED vars
  <2>1. Shrunk(pull')
    BY <1>1, SamePulls DEF vars
  <2> QED  BY <1>1, <2>1, QuietSafe DEF vars
<1>2. ASSUME NEW d \in Device,
             \/ \E domain \in Domains : Edit(d, domain)
             \/ \E r \in made : EditClashing(d, r)
             \/ Capture(d)
      PROVE  IInv' /\ Log!Next
  BY <1>2, EditSafe, EditClashingSafe, CaptureSafe
<1>3. ASSUME NEW d \in Device,
             \/ CaptureRaises(d) \/ StartRoom(d) \/ StopEndpoint(d)
             \/ Upgrade(d) \/ \E e \in Device : Join(d, e)
      PROVE  IInv' /\ UNCHANGED records
  BY <1>3, EndpointSafe
<1>4. ASSUME NEW d \in Device, NEW e \in Device,
             Drop(d, e) \/ Exchanging(d, e)
      PROVE  IInv' /\ [Log!Next]_records
  BY <1>4, TalkSafe, InventorySafe, FetchSafe DEF Exchanging
<1> QED  BY <1>1, <1>2, <1>3, <1>4 DEF Next

\* The strengthened invariant holds in every reachable state.
THEOREM Invariance == Spec => []IInv
  BY InitInvariant, NextSafe, PTL DEF Spec

\* No edit of a room is lost and none is published twice, whatever is held
\* back, refused, cut or repeated.
THEOREM EditsAreKept == Spec => []EditsKept
<1>1. IInv => EditsKept
  BY DEF IInv, LogInv
<1> QED  BY <1>1, Invariance, PTL

\* A room is never frozen without two payloads under one ID.
THEOREM ConflictsAreReal == Spec => []ConflictIsReal
<1>1. IInv => ConflictIsReal
  BY DEF IInv
<1> QED  BY <1>1, Invariance, PTL

\* The logs of the devices implement RoomLog.
THEOREM LogImplemented == Spec => LogSpec
  BY InitInvariant, NextSafe, Invariance, PTL DEF Spec, LogSpec, Log!Spec
===============================================================================
