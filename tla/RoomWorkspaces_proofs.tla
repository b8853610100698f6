------------------------ MODULE RoomWorkspaces_proofs ------------------------
(***************************************************************************)
(* For any number of rooms, edits, route changes, crashes and conflicts:   *)
(* as long as no capture has committed in a room after the room was left,  *)
(* every edit stays in the workspace it was made in, and a number is never *)
(* given twice.                                                            *)
(***************************************************************************)
EXTENDS RoomWorkspaces, FiniteSetTheorems, WellFoundedInduction, TLAPS

Homes == {None} \cup Rooms

Edits      == [home : Nat, n : Nat, id : Nat]
Workspaces == [seq : Nat, pending : SUBSET Edits]
RoomRows   == [genesis : BOOLEAN, conflict : BOOLEAN,
               ws : Workspaces, ret : Workspaces]

\* The store: a device is in a room exactly when its mode says so, and the
\* rows are those of the first rooms.
Stored ==
    /\ mode \in Mode /\ active \in Homes /\ (mode = "iroh" <=> active # None)
    /\ live \in Workspaces
    /\ row \in [Room -> RoomRows \cup {NoRow}]
    /\ log \in [Room -> SUBSET Edits]
    /\ \E n \in Nat : Rooms = 1..n
    /\ IsFiniteSet(made)

\* The rooms that the controller and the service name have rows.
Named == capture \in Homes /\ joining \in Homes /\ late \in Nat

\* Only the join that was submitted last may complete.
OnlyLast ==
    /\ jobs \in Seq(Job)
    /\ \A i \in 1..Len(jobs) : jobs[i].current => i = Len(jobs)

\* The controller follows the store; only a join that it has not heard of yet
\* has moved the store ahead of it, and then no other join completes.
NoneCurrent == \A i \in 1..Len(jobs) : ~jobs[i].current
Settled == outcome = "joined" /\ ~joinPending /\ NoneCurrent
Routed ==
    /\ ctl = mode \/ (joining # None /\ mode = "iroh")
    /\ joining # None /\ mode = "iroh" => Settled

\* Edits are at home, where their numbers are not used again.
Placed ==
    /\ \A e \in made : e \in Edits /\ e.home \in Homes
    /\ \A r \in Room \ Rooms : log[r] = {}
    /\ EditsAtHome /\ NumbersFresh

IInv == Stored /\ Named /\ OnlyLast /\ Routed /\ (late = 0 => Placed)

-----------------------------------------------------------------------------
(* The operators of the specification.                                      *)

LEMMA RowShape == NoRow \notin RoomRows
  BY DEF NoRow, RoomRows

\* The room entered by the mode alone is one that is eligible.
LEMMA NewestEligible ==
    ASSUME Stored, Eligible # {}
    PROVE  Newest \in Eligible
<1>1. PICK n \in Nat : Rooms = 1..n
  BY DEF Stored
<1>2. Eligible \subseteq 1..n
  BY <1>1 DEF Eligible
<1> DEFINE T == {n - r : r \in Eligible}
<1>3. T \subseteq Nat /\ T # {}
  <2>1. \A r \in Eligible : n - r \in Nat
    BY <1>2
  <2> QED  BY <2>1
<1>4. PICK x \in T : \A y \in T : <<y, x>> \notin OpToRel(<, Nat)
  BY <1>3, NatLessThanWellFounded, WFMin
<1>5. \A y \in T : ~(y < x)
  BY <1>3, <1>4 DEF OpToRel
<1>6. PICK r \in Eligible : x = n - r
  OBVIOUS
<1>7. \A s \in Eligible : r >= s
  BY <1>2, <1>5, <1>6
<1> QED  BY <1>7 DEF Newest, Max

\* A new room is the one after those that have rows.
LEMMA NextIsNew ==
    ASSUME Stored, NEW r \in Room, IsNext(r)
    PROVE  r \notin Rooms /\ \E n \in Nat : Rooms \cup {r} = 1..n
<1>1. PICK n \in Nat : Rooms = 1..n
  BY DEF Stored
<1>2. Cardinality(Rooms) = n
  BY <1>1, FS_Interval
<1>3. r = n + 1
  BY <1>2 DEF IsNext
<1>4. Rooms \cup {r} = 1..(n + 1)
  BY <1>1, <1>3
<1> QED  BY <1>1, <1>3, <1>4

LEMMA HomeTyped ==
    ASSUME Stored, NEW home \in Homes
    PROVE  HomeWorkspace(home) \in Workspaces
<1>1. \A r \in Rooms : row[r] \in RoomRows
  BY DEF Stored, Rooms
<1> QED  BY <1>1 DEF Stored, HomeWorkspace, Homes, RoomRows

LEMMA EmptiedTyped ==
    ASSUME NEW ws \in Workspaces
    PROVE  /\ Emptied(ws) \in Workspaces
           /\ Emptied(ws).pending = {} /\ Emptied(ws).seq = ws.seq
  BY DEF Emptied, Workspaces

LEMMA NewRowTyped ==
    ASSUME NEW ws \in Workspaces, NEW genesis \in BOOLEAN
    PROVE  /\ NewRow(genesis, ws) \in RoomRows
           /\ NewRow(genesis, ws).ws = Emptied(ws) /\ NewRow(genesis, ws).ret = ws
  BY EmptiedTyped DEF NewRow, RoomRows

-----------------------------------------------------------------------------
(* What a change of the store does to the edits.                            *)

\* Every home keeps its workspace.
LEMMA PlacedSame ==
    ASSUME Stored, Placed, made' = made, log' = log, Rooms' = Rooms,
           \A h \in Homes : HomeWorkspace(h)' = HomeWorkspace(h)
    PROVE  Placed'
<1>1. Homes' = Homes
  BY DEF Homes
<1>2. EditsAtHome'
  BY DEF Placed, EditsAtHome, Homes
<1>3. NumbersFresh'
  BY DEF Placed, NumbersFresh
<1> QED  BY <1>1, <1>2, <1>3 DEF Placed

\* The queue of one room goes to its log.
LEMMA PlacedCaptured ==
    ASSUME Stored, Placed, NEW a \in Rooms, made' = made, Rooms' = Rooms,
           log' = [log EXCEPT ![a] = @ \cup HomeWorkspace(a).pending],
           HomeWorkspace(a)' = Emptied(HomeWorkspace(a)),
           \A h \in Homes \ {a} : HomeWorkspace(h)' = HomeWorkspace(h)
    PROVE  Placed'
<1>1. Homes' = Homes /\ a \in Homes /\ a \in Room /\ None \notin Room
  BY DEF Homes, Rooms, None, Room
<1>2. /\ HomeWorkspace(a)'.pending = {}
      /\ HomeWorkspace(a)'.seq = HomeWorkspace(a).seq
  BY <1>1, HomeTyped, EmptiedTyped
<1>3. /\ log'[a] = log[a] \cup HomeWorkspace(a).pending
      /\ \A r \in Room \ {a} : log'[r] = log[r]
  BY <1>1 DEF Stored
<1>4. EditsAtHome'
  <2> SUFFICES ASSUME NEW h \in Homes
               PROVE  LET mine == {e \in made : e.home = h}
                          kept == HomeWorkspace(h)'.pending
                      IN  IF h = None THEN kept = mine
                          ELSE kept \cup log'[h] = mine /\ kept \cap log'[h] = {}
    BY <1>1 DEF EditsAtHome, Homes
  <2>1. CASE h = a
    BY <1>1, <1>2, <1>3, <2>1 DEF Placed, EditsAtHome, Homes
  <2>2. CASE h # a
    BY <1>1, <1>3, <2>2 DEF Placed, EditsAtHome, Homes, Rooms
  <2> QED  BY <2>1, <2>2
<1>5. NumbersFresh'
  BY <1>1, <1>2 DEF Placed, NumbersFresh
<1> QED  BY <1>1, <1>3, <1>4, <1>5 DEF Placed

\* One edit more, queued or in the log.
LEMMA PlacedEdited ==
    ASSUME Stored, Placed, NEW a \in Homes, NEW e \in Edits,
           e.home = a, e.n = HomeWorkspace(a).seq + 1,
           made' = made \cup {e}, Rooms' = Rooms,
           HomeWorkspace(a)'.seq = e.n,
           \/ /\ log' = log
              /\ HomeWorkspace(a)'.pending = HomeWorkspace(a).pending \cup {e}
           \/ /\ a # None
              /\ log' = [log EXCEPT ![a] = @ \cup (HomeWorkspace(a).pending \cup {e})]
              /\ HomeWorkspace(a)'.pending = {},
           \A h \in Homes \ {a} : HomeWorkspace(h)' = HomeWorkspace(h)
    PROVE  Placed'
<1>1. Homes' = Homes /\ (a # None => a \in Room) /\ None \notin Room
  BY DEF Homes, Rooms, None, Room
<1>2. HomeWorkspace(a).seq \in Nat
  BY HomeTyped DEF Workspaces
<1>3. e \notin made
  BY <1>2 DEF Placed, NumbersFresh, Edits
<1>4. \A r \in Room \ {a} : log'[r] = log[r]
  BY DEF Stored
<1>5. EditsAtHome'
  <2> SUFFICES ASSUME NEW h \in Homes
               PROVE  LET mine == {f \in made' : f.home = h}
                          kept == HomeWorkspace(h)'.pending
                      IN  IF h = None THEN kept = mine
                          ELSE kept \cup log'[h] = mine /\ kept \cap log'[h] = {}
    BY <1>1 DEF EditsAtHome, Homes
  <2>1. CASE h # a
    <3>1. {f \in made' : f.home = h} = {f \in made : f.home = h}
      BY <2>1
    <3>2. HomeWorkspace(h)' = HomeWorkspace(h) /\ (h # None => log'[h] = log[h])
      BY <1>4, <2>1 DEF Homes, Rooms
    <3> QED  BY <3>1, <3>2 DEF Placed, EditsAtHome, Homes
  <2>2. CASE h = a
    <3> DEFINE mine == {f \in made : f.home = a}
    <3>1. {f \in made' : f.home = h} = mine \cup {e} /\ e \notin mine
      BY <1>3, <2>2
    <3>2. IF a = None THEN HomeWorkspace(a).pending = mine
          ELSE /\ HomeWorkspace(a).pending \cup log[a] = mine
               /\ HomeWorkspace(a).pending \cap log[a] = {}
      BY DEF Placed, EditsAtHome, Homes
    <3>3. CASE /\ log' = log
               /\ HomeWorkspace(a)'.pending = HomeWorkspace(a).pending \cup {e}
      BY <2>2, <3>1, <3>2, <3>3
    <3>4. CASE /\ a # None
               /\ log' = [log EXCEPT ![a] = @ \cup (HomeWorkspace(a).pending \cup {e})]
               /\ HomeWorkspace(a)'.pending = {}
      <4>1. log'[a] = log[a] \cup HomeWorkspace(a).pending \cup {e}
        BY <1>1, <3>4 DEF Stored
      <4> QED  BY <2>2, <3>1, <3>2, <3>4, <4>1
    <3> QED  BY <3>3, <3>4
  <2> QED  BY <2>1, <2>2
<1>6. NumbersFresh'
  <2> SUFFICES ASSUME NEW f \in made' PROVE f.n <= HomeWorkspace(f.home)'.seq
    BY DEF NumbersFresh
  <2>1. CASE f = e
    BY <1>2, <2>1
  <2>2. CASE f # e /\ f.home = a
    <3>1. f \in made /\ f.n \in Nat /\ f.n <= HomeWorkspace(a).seq
      BY <2>2 DEF Placed, NumbersFresh, Edits
    <3> QED  BY <1>2, <2>2, <3>1
  <2>3. CASE f # e /\ f.home # a
    BY <2>3 DEF Placed, NumbersFresh
  <2> QED  BY <2>1, <2>2, <2>3
<1>7. \A r \in Room \ Rooms : log'[r] = {}
  BY <1>1, <1>4 DEF Placed, Homes
<1> QED  BY <1>1, <1>5, <1>6, <1>7 DEF Placed

\* A new room starts with nothing queued.
LEMMA PlacedNewRoom ==
    ASSUME Stored, Placed, NEW r \in Room \ Rooms,
           made' = made, log' = log, Rooms' = Rooms \cup {r},
           HomeWorkspace(r)'.pending = {},
           \A h \in Homes : HomeWorkspace(h)' = HomeWorkspace(h)
    PROVE  Placed'
<1>1. Homes' = Homes \cup {r} /\ r # None /\ r \notin Homes
  BY DEF Homes, None, Room
<1>2. EditsAtHome'
  <2> SUFFICES ASSUME NEW h \in Homes \cup {r}
               PROVE  LET mine == {f \in made : f.home = h}
                          kept == HomeWorkspace(h)'.pending
                      IN  IF h = None THEN kept = mine
                          ELSE kept \cup log[h] = mine /\ kept \cap log[h] = {}
    BY <1>1 DEF EditsAtHome, Homes
  <2>1. CASE h = r
    <3>1. {f \in made : f.home = r} = {}
      BY <1>1 DEF Placed
    <3> QED  BY <1>1, <2>1, <3>1 DEF Placed
  <2>2. CASE h # r
    BY <2>2 DEF Placed, EditsAtHome, Homes
  <2> QED  BY <2>1, <2>2
<1>3. NumbersFresh'
  BY DEF Placed, NumbersFresh
<1> QED  BY <1>1, <1>2, <1>3 DEF Placed

-----------------------------------------------------------------------------
(* What the operators do to the rows.                                       *)

LEMMA WorkspaceSaved ==
    ASSUME Stored, NEW a \in Rooms, NEW w \in Workspaces,
           row' = [row EXCEPT ![a].ws = w]
    PROVE  /\ Rooms' = Rooms
           /\ row' \in [Room -> RoomRows \cup {NoRow}]
           /\ row'[a].ws = w /\ row'[a].ret = row[a].ret
           /\ \A r \in Room \ {a} : row'[r] = row[r]
<1>1. row[a] \in RoomRows /\ a \in Room
  BY DEF Stored, Rooms
<1>2. /\ row'[a] = [row[a] EXCEPT !.ws = w]
      /\ \A r \in Room \ {a} : row'[r] = row[r]
      /\ row' = [row EXCEPT ![a] = row'[a]]
  BY <1>1 DEF Stored
<1>3. row'[a] \in RoomRows /\ row'[a].ws = w /\ row'[a].ret = row[a].ret
  BY <1>1, <1>2 DEF RoomRows
<1> QED  BY <1>1, <1>2, <1>3, RowShape DEF Stored, Rooms

LEMMA ReturnSaved ==
    ASSUME Stored, NEW a \in Rooms, NEW w \in Workspaces,
           row' = [row EXCEPT ![a].ret = w]
    PROVE  /\ Rooms' = Rooms
           /\ row' \in [Room -> RoomRows \cup {NoRow}]
           /\ row'[a].ret = w /\ row'[a].ws = row[a].ws
           /\ \A r \in Room \ {a} : row'[r] = row[r]
<1>1. row[a] \in RoomRows /\ a \in Room
  BY DEF Stored, Rooms
<1>2. /\ row'[a] = [row[a] EXCEPT !.ret = w]
      /\ \A r \in Room \ {a} : row'[r] = row[r]
      /\ row' = [row EXCEPT ![a] = row'[a]]
  BY <1>1 DEF Stored
<1>3. row'[a] \in RoomRows /\ row'[a].ret = w /\ row'[a].ws = row[a].ws
  BY <1>1, <1>2 DEF RoomRows
<1> QED  BY <1>1, <1>2, <1>3, RowShape DEF Stored, Rooms

\* A genesis or a conflict leaves the workspaces of the room alone.
LEMMA RowMarked ==
    ASSUME Stored, NEW a \in Rooms,
           \/ row' = [row EXCEPT ![a].genesis = TRUE]
           \/ row' = [row EXCEPT ![a].conflict = TRUE]
    PROVE  /\ Rooms' = Rooms
           /\ row' \in [Room -> RoomRows \cup {NoRow}]
           /\ \A r \in Rooms : row'[r].ws = row[r].ws /\ row'[r].ret = row[r].ret
<1>1. row[a] \in RoomRows /\ a \in Room
  BY DEF Stored, Rooms
<1>2. /\ \/ row'[a] = [row[a] EXCEPT !.genesis = TRUE]
         \/ row'[a] = [row[a] EXCEPT !.conflict = TRUE]
      /\ \A r \in Room \ {a} : row'[r] = row[r]
      /\ row' = [row EXCEPT ![a] = row'[a]]
  BY <1>1 DEF Stored
<1>3. row'[a] \in RoomRows /\ row'[a].ret = row[a].ret /\ row'[a].ws = row[a].ws
  BY <1>1, <1>2 DEF RoomRows
<1> QED  BY <1>1, <1>2, <1>3, RowShape DEF Stored, Rooms

LEMMA RowInserted ==
    ASSUME Stored, NEW r \in Room, IsNext(r), NEW genesis \in BOOLEAN,
           row' = [row EXCEPT ![r] = NewRow(genesis, live)]
    PROVE  /\ r \notin Rooms /\ Rooms' = Rooms \cup {r}
           /\ \E n \in Nat : Rooms' = 1..n
           /\ row' \in [Room -> RoomRows \cup {NoRow}]
           /\ row'[r].ws = Emptied(live) /\ row'[r].ret = live
           /\ \A s \in Room \ {r} : row'[s] = row[s]
<1>1. /\ NewRow(genesis, live) \in RoomRows
      /\ NewRow(genesis, live).ws = Emptied(live) /\ NewRow(genesis, live).ret = live
  BY NewRowTyped DEF Stored
<1>2. /\ row'[r] = NewRow(genesis, live)
      /\ \A s \in Room \ {r} : row'[s] = row[s]
      /\ row' \in [Room -> RoomRows \cup {NoRow}]
  BY <1>1 DEF Stored
<1>3. Rooms' = Rooms \cup {r}
  BY <1>1, <1>2, RowShape DEF Rooms
<1> QED  BY <1>1, <1>2, <1>3, NextIsNew

-----------------------------------------------------------------------------
(* The changes of the store.                                                *)

\* capture_local_records in the room that is entered.
LEMMA CapturedSafe ==
    ASSUME Stored, active # None, CapturedIn(active, live), UNCHANGED <<mode, active, made>>
    PROVE  Stored' /\ Homes' = Homes /\ (Placed => Placed')
<1>1. active \in Rooms /\ active \in Room
  BY DEF Stored, Homes, Rooms
<1>2. /\ Emptied(live) \in Workspaces /\ live' = Emptied(live)
      /\ live.pending \in SUBSET Edits
  BY EmptiedTyped DEF Stored, CapturedIn, Workspaces
<1>3. /\ Rooms' = Rooms /\ row' \in [Room -> RoomRows \cup {NoRow}]
      /\ row'[active].ret = row[active].ret
      /\ \A r \in Room \ {active} : row'[r] = row[r]
  BY <1>1, <1>2, WorkspaceSaved DEF CapturedIn
<1>4. Homes' = Homes
  BY <1>3 DEF Homes
<1>5. Stored'
  BY <1>1, <1>2, <1>3, <1>4 DEF Stored, CapturedIn
<1>6. ASSUME Placed PROVE Placed'
  <2>1. HomeWorkspace(active) = live /\ HomeWorkspace(active)' = Emptied(live)
    BY <1>2 DEF HomeWorkspace
  <2>2. \A h \in Homes \ {active} : HomeWorkspace(h)' = HomeWorkspace(h)
    BY <1>3 DEF HomeWorkspace, Homes, Rooms
  <2>3. log' = [log EXCEPT ![active] = @ \cup HomeWorkspace(active).pending]
    BY <2>1 DEF CapturedIn
  <2> QED  BY <1>1, <1>3, <1>6, <2>1, <2>2, <2>3, PlacedCaptured
<1> QED  BY <1>4, <1>5, <1>6

\* Leaving a room.
LEMMA DeactivatedSafe ==
    ASSUME Stored, active # None, Deactivated, made' = made,
           mode' \in Mode \ {"iroh"}
    PROVE  Stored' /\ Homes' = Homes /\ (Placed => Placed')
<1>1. PICK a \in Rooms : a = active /\ a \in Room
  BY DEF Stored, Homes, Rooms
<1>2. /\ Emptied(live) \in Workspaces /\ live.pending \in SUBSET Edits
      /\ live \in Workspaces
  BY EmptiedTyped DEF Stored, Workspaces
<1>3. PICK w \in {live, Emptied(live)} :
          /\ row' = [row EXCEPT ![active].ws = w]
          /\ IF w = live /\ log' = log THEN TRUE
             ELSE w = Emptied(live) /\ log' = [log EXCEPT ![active] = @ \cup live.pending]
  BY DEF Deactivated
<1>4. /\ Rooms' = Rooms /\ row' \in [Room -> RoomRows \cup {NoRow}]
      /\ row'[a].ws = w
      /\ \A r \in Room \ {a} : row'[r] = row[r]
  BY <1>1, <1>2, <1>3, WorkspaceSaved
<1>5. /\ live' = row[active].ret /\ live' \in Workspaces
      /\ active' = None /\ None \in Homes'
      /\ log' \in [Room -> SUBSET Edits]
  BY <1>1, <1>2, <1>3 DEF Deactivated, Stored, Homes, Rooms, RoomRows, NoRow
<1>6. Homes' = Homes
  BY <1>4 DEF Homes
<1>7. Stored'
  BY <1>4, <1>5, <1>6 DEF Stored
<1>8. ASSUME Placed PROVE Placed'
  <2>1. HomeWorkspace(a) = live /\ HomeWorkspace(a)' = w
    BY <1>1, <1>4, <1>5 DEF HomeWorkspace
  <2>2. \A h \in Homes \ {a} : HomeWorkspace(h)' = HomeWorkspace(h)
    BY <1>1, <1>4, <1>5 DEF HomeWorkspace, Homes, Rooms
  <2>3. CASE w = live /\ log' = log
    BY <1>4, <1>8, <2>1, <2>2, <2>3, PlacedSame
  <2>4. CASE /\ w = Emptied(live)
             /\ log' = [log EXCEPT ![active] = @ \cup live.pending]
    BY <1>1, <1>4, <1>8, <2>1, <2>2, <2>4, PlacedCaptured
  <2> QED  BY <1>3, <2>3, <2>4
<1> QED  BY <1>6, <1>7, <1>8

\* Entering a room from outside of rooms.
LEMMA EnteredSafe ==
    ASSUME Stored, active = None, NEW r \in Rooms, Entered(r),
           UNCHANGED <<log, made>>, mode' = "iroh"
    PROVE  Stored' /\ Homes' = Homes /\ (Placed => Placed')
<1>1. /\ Rooms' = Rooms /\ row' \in [Room -> RoomRows \cup {NoRow}]
      /\ row'[r].ret = live /\ row'[r].ws = row[r].ws
      /\ \A s \in Room \ {r} : row'[s] = row[s]
  BY ReturnSaved DEF Entered, Stored
<1>2. live' = row[r].ws /\ live' \in Workspaces /\ active' = r /\ r # None
  BY DEF Entered, Stored, Rooms, RoomRows, NoRow, None, Room
<1>3. Homes' = Homes
  BY <1>1 DEF Homes
<1>4. Stored'
  BY <1>1, <1>2, <1>3 DEF Stored, Homes, Mode
<1>5. \A h \in Homes : HomeWorkspace(h)' = HomeWorkspace(h)
  BY <1>1, <1>2 DEF HomeWorkspace, Homes, Rooms
<1> QED  BY <1>1, <1>3, <1>4, <1>5, PlacedSame

\* set_mode.
LEMMA SetModeSafe ==
    ASSUME Stored, NEW m \in Mode, SetModeOK(m), SetMode(m), made' = made
    PROVE  Stored' /\ Homes' = Homes /\ (Placed => Placed')
<1>1. CASE m # mode /\ mode = "iroh"
  BY <1>1, DeactivatedSafe DEF SetMode, Stored
<1>2. CASE m # mode /\ mode # "iroh" /\ m = "iroh"
  <2>1. Newest \in Rooms
    BY <1>2, NewestEligible DEF SetModeOK, Eligible
  <2> QED  BY <1>2, <2>1, EnteredSafe DEF SetMode, Stored
<1>3. CASE m = mode \/ (mode # "iroh" /\ m # "iroh")
  <2>1. UNCHANGED <<active, live, row, log>> /\ mode' = m
    BY <1>3 DEF SetMode
  <2>2. Rooms' = Rooms /\ Homes' = Homes
    BY <2>1 DEF Rooms, Homes
  <2>3. Stored'
    BY <1>3, <2>1, <2>2 DEF Stored
  <2>4. \A h \in Homes : HomeWorkspace(h)' = HomeWorkspace(h)
    BY <2>1 DEF HomeWorkspace
  <2> QED  BY <2>1, <2>2, <2>3, <2>4, PlacedSame
<1> QED  BY <1>1, <1>2, <1>3

LEMMA StoreUnchanged ==
    ASSUME Stored, UNCHANGED store
    PROVE  Stored' /\ Homes' = Homes /\ (Placed => Placed')
<1>1. Rooms' = Rooms /\ Homes' = Homes
  BY DEF Rooms, Homes, store
<1>2. Stored'
  BY <1>1 DEF Stored, store
<1>3. \A h \in Homes : HomeWorkspace(h)' = HomeWorkspace(h)
  BY DEF HomeWorkspace, store
<1> QED  BY <1>1, <1>2, <1>3, PlacedSame DEF store

-----------------------------------------------------------------------------
(* The submitted coroutines.                                                *)

LEMMA HeadJob ==
    ASSUME OnlyLast, jobs # <<>>
    PROVE  /\ Head(jobs) \in Job /\ Head(jobs) = jobs[1] /\ 1 \in 1..Len(jobs)
           /\ Len(Tail(jobs)) = Len(jobs) - 1 /\ Tail(jobs) \in Seq(Job)
           /\ \A i \in 1..Len(Tail(jobs)) : Tail(jobs)[i] = jobs[i + 1]
<1>1. jobs \in Seq(Job) /\ jobs # <<>>
  BY DEF OnlyLast
<1> HIDE DEF Job
<1> QED  BY <1>1

LEMMA JobsDropped ==
    ASSUME OnlyLast, jobs # <<>>, jobs' = Tail(jobs)
    PROVE  /\ OnlyLast' /\ (NoneCurrent => NoneCurrent')
           /\ Head(jobs).current => NoneCurrent'
<1>1. /\ Head(jobs) = jobs[1] /\ 1 \in 1..Len(jobs)
      /\ Len(jobs') = Len(jobs) - 1 /\ jobs' \in Seq(Job)
      /\ \A i \in 1..Len(jobs') : jobs'[i] = jobs[i + 1]
  BY HeadJob
<1>2. Len(jobs) \in Nat /\ Len(jobs') \in Nat
  <2>1. Len(jobs) \in Nat
    BY DEF OnlyLast
  <2>2. jobs' \in Seq(Job)
    BY <1>1
  <2> QED  BY <2>1, <2>2
<1>3. \A i \in 1..Len(jobs') :
          i + 1 \in 1..Len(jobs) /\ jobs'[i].current = jobs[i + 1].current
  BY <1>1, <1>2
<1>4. \A i \in 1..Len(jobs') : jobs'[i].current => i + 1 = Len(jobs)
  BY <1>3 DEF OnlyLast
<1>5. OnlyLast'
  <2>1. \A i \in 1..Len(jobs') : jobs'[i].current => i = Len(jobs')
    <3> TAKE i \in 1..Len(jobs')
    <3> HAVE jobs'[i].current
    <3>1. i + 1 = Len(jobs)
      BY <1>4
    <3>2. i \in Nat /\ Len(jobs') = Len(jobs) - 1
      BY <1>1, <1>2
    <3> QED  BY <1>2, <3>1, <3>2
  <2> QED  BY <1>1, <2>1 DEF OnlyLast
<1>6. NoneCurrent => NoneCurrent'
  BY <1>3 DEF NoneCurrent
<1>7. Head(jobs).current => NoneCurrent'
  <2>1. Head(jobs).current => Len(jobs) = 1
    BY <1>1 DEF OnlyLast
  <2> QED  BY <1>1, <1>2, <2>1 DEF NoneCurrent
<1> QED  BY <1>5, <1>6, <1>7

LEMMA JobsKept ==
    ASSUME OnlyLast, jobs # <<>>, NEW job \in Job, Keep(job),
           job.current = Head(jobs).current
    PROVE  OnlyLast' /\ (NoneCurrent => NoneCurrent')
<1>1. /\ Head(jobs) = jobs[1] /\ 1 \in 1..Len(jobs)
      /\ Len(Tail(jobs)) = Len(jobs) - 1 /\ Tail(jobs) \in Seq(Job)
      /\ \A i \in 1..Len(Tail(jobs)) : Tail(jobs)[i] = jobs[i + 1]
  BY HeadJob
<1>2. Len(jobs) \in Nat
  BY DEF OnlyLast
<1>3. jobs' \in Seq(Job) /\ Len(jobs') = Len(jobs) /\ jobs'[1] = job
  BY <1>1, <1>2 DEF Keep
<1>4. \A i \in 2..Len(jobs) : jobs'[i] = jobs[i]
  BY <1>1, <1>2 DEF Keep
<1>5. \A i \in 1..Len(jobs) : jobs'[i].current = jobs[i].current
  <2> TAKE i \in 1..Len(jobs)
  <2>1. CASE i = 1
    BY <1>1, <1>3, <2>1
  <2>2. CASE i # 1
    BY <1>2, <1>4, <2>2
  <2> QED  BY <2>1, <2>2
<1>6. OnlyLast'
  BY <1>3, <1>5 DEF OnlyLast
<1>7. NoneCurrent => NoneCurrent'
  BY <1>3, <1>5 DEF NoneCurrent
<1> QED  BY <1>6, <1>7

LEMMA JobStaged ==
    ASSUME OnlyLast, jobs # <<>>, NEW s \in Stage, Staged(s)
    PROVE  OnlyLast' /\ (NoneCurrent => NoneCurrent')
<1>1. Head(jobs) \in Job
  BY HeadJob
<1>2. /\ [Head(jobs) EXCEPT !.stage = s] \in Job
      /\ [Head(jobs) EXCEPT !.stage = s].current = Head(jobs).current
  BY <1>1 DEF Job
<1> QED  BY <1>2, JobsKept DEF Staged

LEMMA NewJobTyped ==
    ASSUME NEW kind \in {"start", "join"}, NEW r \in Room
    PROVE  NewJob(kind, r) \in Job /\ NewJob(kind, r).current = (kind = "join")
  BY DEF NewJob, Job, Stage, Mode

\* Submitting or stopping gives up every join that was there.
LEMMA InvalidatedTyped ==
    ASSUME OnlyLast
    PROVE  /\ Invalidated \in Seq(Job) /\ Len(Invalidated) = Len(jobs)
           /\ \A i \in 1..Len(Invalidated) : ~Invalidated[i].current
<1>1. \A i \in 1..Len(jobs) : /\ [jobs[i] EXCEPT !.current = FALSE] \in Job
                              /\ ~[jobs[i] EXCEPT !.current = FALSE].current
  <2> TAKE i \in 1..Len(jobs)
  <2>1. jobs[i] \in Job
    BY DEF OnlyLast
  <2> QED  BY <2>1 DEF Job
<1>2. Len(jobs) \in Nat
  BY DEF OnlyLast
<1>3. /\ Len(Invalidated) = Len(jobs)
      /\ \A i \in 1..Len(jobs) : Invalidated[i] = [jobs[i] EXCEPT !.current = FALSE]
  BY <1>2 DEF Invalidated
<1>4. Invalidated \in Seq(Job)
  BY <1>1, <1>2 DEF Invalidated
<1> QED  BY <1>1, <1>3, <1>4

LEMMA JobSubmitted ==
    ASSUME OnlyLast, NEW kind \in {"start", "join"}, NEW r \in Room,
           jobs' = Append(Invalidated, NewJob(kind, r))
    PROVE  OnlyLast' /\ (kind = "start" => NoneCurrent')
<1>1. NewJob(kind, r) \in Job /\ NewJob(kind, r).current = (kind = "join")
  BY NewJobTyped
<1>2. /\ jobs' \in Seq(Job) /\ Len(jobs') = Len(Invalidated) + 1
      /\ jobs'[Len(jobs')] = NewJob(kind, r) /\ Len(Invalidated) \in Nat
      /\ \A i \in 1..Len(Invalidated) : jobs'[i] = Invalidated[i]
  BY <1>1, InvalidatedTyped
<1>3. \A i \in 1..Len(jobs') : jobs'[i].current => i = Len(jobs') /\ kind = "join"
  <2> TAKE i \in 1..Len(jobs')
  <2>1. CASE i = Len(jobs')
    BY <1>1, <1>2, <2>1
  <2>2. CASE i # Len(jobs')
    <3>1. i \in 1..Len(Invalidated)
      BY <1>2, <2>2
    <3> QED  BY <1>2, <3>1, InvalidatedTyped
  <2> QED  BY <2>1, <2>2
<1>4. OnlyLast'
  BY <1>2, <1>3 DEF OnlyLast
<1>5. kind = "start" => NoneCurrent'
  BY <1>3 DEF NoneCurrent
<1> QED  BY <1>4, <1>5

LEMMA ServiceStopped ==
    ASSUME OnlyLast, StopService
    PROVE  OnlyLast' /\ NoneCurrent'
<1>1. \A i \in 1..Len(jobs) :
          /\ [Invalidated[i] EXCEPT !.cancelled = TRUE] \in Job
          /\ ~[Invalidated[i] EXCEPT !.cancelled = TRUE].current
  <2> TAKE i \in 1..Len(jobs)
  <2>1. Invalidated[i] \in Job /\ ~Invalidated[i].current
    BY InvalidatedTyped
  <2> QED  BY <2>1 DEF Job
<1>2. Len(jobs) \in Nat
  BY DEF OnlyLast
<1>3. /\ Len(jobs') = Len(jobs)
      /\ \A i \in 1..Len(jobs) : jobs'[i] = [Invalidated[i] EXCEPT !.cancelled = TRUE]
  BY <1>2, InvalidatedTyped DEF StopService
<1>4. jobs' \in Seq(Job)
  BY <1>1, <1>2, InvalidatedTyped DEF StopService
<1>5. NoneCurrent'
  BY <1>1, <1>3 DEF NoneCurrent
<1> QED  BY <1>4, <1>5 DEF OnlyLast, NoneCurrent

LEMMA StopBeginsJobs ==
    ASSUME OnlyLast, StopBegins
    PROVE  OnlyLast' /\ (NoneCurrent => NoneCurrent')
<1> DEFINE older == Cardinality({i \in 1..Len(jobs) : jobs[i].cancelled})
           newer == SubSeq(jobs, older + 1, Len(jobs))
           dying == IF older > 0 /\ Head(jobs).stage # "queued"
                    THEN <<Dying(Head(jobs))>> ELSE <<>>
           Left(j) == [j EXCEPT !.owner = @ /\ j.stage # "binding"]
           left  == [i \in 1..Len(newer) |-> Left(newer[i])]
<1>1. jobs' = dying \o left
  BY DEF StopBegins
<1>2. jobs \in Seq(Job) /\ Len(jobs) \in Nat
  BY DEF OnlyLast
<1>3. older \in Nat /\ older <= Len(jobs)
  <2>1. IsFiniteSet(1..Len(jobs)) /\ Cardinality(1..Len(jobs)) = Len(jobs)
    BY <1>2, FS_Interval
  <2> QED  BY <2>1, FS_Subset, FS_CardinalityType
<1> HIDE DEF older
<1>4. /\ newer \in Seq(Job) /\ Len(newer) = Len(jobs) - older
      /\ \A i \in 1..Len(newer) : newer[i] = jobs[older + i]
  BY <1>2, <1>3
<1> HIDE DEF newer
<1>5. \A j \in Job : Left(j) \in Job /\ Left(j).current = j.current
  BY DEF Job
<1> HIDE DEF Left
<1>6. /\ left \in Seq(Job) /\ Len(left) = Len(newer)
      /\ \A i \in 1..Len(left) : left[i].current = jobs[older + i].current
  BY <1>2, <1>3, <1>4, <1>5
<1> HIDE DEF left
<1>7. /\ dying \in Seq(Job) /\ Len(dying) \in {0, 1}
      /\ Len(dying) = 1 => ~dying[1].current
  <2>1. CASE older > 0
    <3>1. Head(jobs) \in Job
      BY <1>2, <1>3, <2>1, HeadJob
    <3>2. Dying(Head(jobs)) \in Job /\ ~Dying(Head(jobs)).current
      <4>1. Head(jobs).kind \in {"start", "join"} /\ Head(jobs).room \in Room
        BY <3>1 DEF Job
      <4>2. NewJob(Head(jobs).kind, Head(jobs).room) \in Job
        BY <4>1, NewJobTyped
      <4> QED  BY <4>2 DEF Dying, Job, Stage
    <3> QED  BY <3>2
  <2>2. CASE ~(older > 0)
    BY <2>2
  <2> QED  BY <2>1, <2>2
<1> HIDE DEF dying
<1>8. /\ jobs' \in Seq(Job) /\ Len(jobs') = Len(dying) + Len(left)
      /\ \A i \in 1..Len(jobs') : jobs'[i] = IF i <= Len(dying) THEN dying[i]
                                             ELSE left[i - Len(dying)]
  BY <1>1, <1>6, <1>7
<1>9. ASSUME NEW i \in 1..Len(jobs'), jobs'[i].current
      PROVE  \E k \in 1..Len(jobs) : jobs[k].current /\ (k = Len(jobs) => i = Len(jobs'))
  <2>1. i > Len(dying)
    <3>1. CASE i <= Len(dying)
      <4>1. i = 1 /\ Len(dying) = 1 /\ jobs'[i] = dying[1]
        BY <1>7, <1>8, <3>1
      <4> QED  BY <1>7, <1>9, <4>1
    <3> QED  BY <1>7, <1>8, <3>1
  <2> DEFINE m == i - Len(dying)
  <2>2. m \in 1..Len(left) /\ jobs'[i] = left[m]
    BY <1>2, <1>3, <1>4, <1>6, <1>7, <1>8, <2>1
  <2>3. older + m \in 1..Len(jobs) /\ jobs[older + m].current
    <3>1. older + m \in 1..Len(jobs)
      BY <1>2, <1>3, <1>4, <1>6, <2>2
    <3>2. left[m].current = jobs[older + m].current
      BY <1>6, <2>2
    <3> QED  BY <1>9, <2>2, <3>1, <3>2
  <2>4. older + m = Len(jobs) => i = Len(jobs')
    BY <1>2, <1>3, <1>4, <1>6, <1>7, <1>8
  <2> QED  BY <2>3, <2>4
<1>10. OnlyLast'
  BY <1>8, <1>9 DEF OnlyLast
<1>11. NoneCurrent => NoneCurrent'
  BY <1>9 DEF NoneCurrent
<1> QED  BY <1>10, <1>11

-----------------------------------------------------------------------------
(* The store, action by action.                                             *)

LEMMA MakeEditSafe ==
    ASSUME Stored, MakeEdit
    PROVE  Stored' /\ Homes' = Homes /\ (Placed => Placed')
<1>1. PICK a \in Homes : a = active
  BY DEF Stored
<1> DEFINE e  == [home |-> a, n |-> live.seq + 1, id |-> Cardinality(made) + 1]
           ws == [seq |-> e.n, pending |-> live.pending \cup {e}]
<1>2. HomeWorkspace(a) = live
  BY <1>1 DEF HomeWorkspace
<1>3. e \in Edits /\ e.home = a /\ e.n = live.seq + 1
  <2>1. a \in Nat /\ live.seq \in Nat /\ Cardinality(made) \in Nat
    BY FS_CardinalityType DEF Homes, Rooms, Room, None, Stored, Workspaces
  <2> QED  BY <2>1 DEF Edits
<1>4. ws \in Workspaces /\ ws.seq = e.n /\ ws.pending = live.pending \cup {e}
  BY <1>3 DEF Stored, Workspaces, Edits
<1>5. /\ Emptied(ws) \in Workspaces
      /\ Emptied(ws).seq = e.n /\ Emptied(ws).pending = {}
  BY <1>4, EmptiedTyped
<1> HIDE DEF e, ws
<1>6. /\ made' = made \cup {e} /\ active' = a /\ mode' = mode
      /\ \/ a = None /\ live' = ws /\ UNCHANGED <<row, log>>
         \/ a # None /\ live' = ws /\ row' = [row EXCEPT ![a].ws = ws] /\ UNCHANGED log
         \/ a # None /\ CapturedIn(a, ws)
  BY <1>1 DEF MakeEdit, e, ws
<1>7. IsFiniteSet(made')
  BY <1>6, FS_AddElement DEF Stored
<1>8. CASE a = None /\ live' = ws /\ UNCHANGED <<row, log>>
  <2>1. Rooms' = Rooms /\ Homes' = Homes
    BY <1>8 DEF Rooms, Homes
  <2>2. Stored'
    BY <1>1, <1>4, <1>6, <1>7, <1>8, <2>1 DEF Stored
  <2>3. HomeWorkspace(a)' = ws
    BY <1>6, <1>8 DEF HomeWorkspace
  <2>4. \A h \in Homes \ {a} : HomeWorkspace(h)' = HomeWorkspace(h)
    BY <1>1, <1>6, <1>8 DEF HomeWorkspace
  <2> QED  BY <1>2, <1>3, <1>4, <1>6, <1>8, <2>1, <2>2, <2>3, <2>4, PlacedEdited
<1>9. CASE a # None /\ live' = ws /\ row' = [row EXCEPT ![a].ws = ws] /\ UNCHANGED log
  <2>1. a \in Rooms
    BY <1>9 DEF Homes
  <2>2. /\ Rooms' = Rooms /\ row' \in [Room -> RoomRows \cup {NoRow}]
        /\ row'[a].ret = row[a].ret /\ \A r \in Room \ {a} : row'[r] = row[r]
    BY <1>4, <1>9, <2>1, WorkspaceSaved
  <2>3. Homes' = Homes
    BY <2>2 DEF Homes
  <2>4. Stored'
    BY <1>1, <1>4, <1>6, <1>7, <1>9, <2>2, <2>3 DEF Stored
  <2>5. HomeWorkspace(a)' = ws
    BY <1>6, <1>9 DEF HomeWorkspace
  <2>6. \A h \in Homes \ {a} : HomeWorkspace(h)' = HomeWorkspace(h)
    BY <1>1, <1>6, <2>1, <2>2 DEF HomeWorkspace, Homes, Rooms
  <2> QED  BY <1>2, <1>3, <1>4, <1>6, <1>9, <2>2, <2>3, <2>4, <2>5, <2>6, PlacedEdited
<1>10. CASE a # None /\ CapturedIn(a, ws)
  <2>1. a \in Rooms /\ a \in Room
    BY <1>10 DEF Homes, Rooms
  <2>2. /\ Rooms' = Rooms /\ row' \in [Room -> RoomRows \cup {NoRow}]
        /\ row'[a].ret = row[a].ret /\ \A r \in Room \ {a} : row'[r] = row[r]
    BY <1>5, <1>10, <2>1, WorkspaceSaved DEF CapturedIn
  <2>3. Homes' = Homes
    BY <2>2 DEF Homes
  <2>4. /\ log' = [log EXCEPT ![a] = @ \cup (live.pending \cup {e})]
        /\ log' \in [Room -> SUBSET Edits]
    BY <1>3, <1>4, <1>10, <2>1 DEF CapturedIn, Stored, Workspaces
  <2>5. Stored'
    BY <1>1, <1>5, <1>6, <1>7, <1>10, <2>2, <2>3, <2>4 DEF Stored, CapturedIn
  <2>6. HomeWorkspace(a)' = Emptied(ws)
    BY <1>6, <1>10 DEF HomeWorkspace, CapturedIn
  <2>7. \A h \in Homes \ {a} : HomeWorkspace(h)' = HomeWorkspace(h)
    BY <1>1, <1>6, <2>1, <2>2 DEF HomeWorkspace, Homes, Rooms
  <2> QED  BY <1>2, <1>3, <1>5, <1>6, <1>10, <2>2, <2>3, <2>4, <2>5, <2>6, <2>7, PlacedEdited
<1> QED  BY <1>6, <1>8, <1>9, <1>10

\* A capture that commits after its room was left is counted in late.
LEMMA CaptureCommitsSafe ==
    ASSUME Stored, Named, CaptureCommits
    PROVE  /\ Stored' /\ Homes' = Homes /\ late' \in Nat
           /\ late' = 0 => late = 0 /\ (Placed => Placed')
<1>1. PICK a \in Rooms : a = capture
  BY DEF CaptureCommits, Named, Homes
<1>2. CASE UNCHANGED <<log, live, row, late>>
  <2>1. UNCHANGED store
    BY <1>2 DEF CaptureCommits, store
  <2> QED  BY <1>2, <2>1, StoreUnchanged DEF Named
<1>3. CASE CapturedIn(a, live) /\ active = a /\ late' = late
  <2>1. active # None /\ UNCHANGED <<mode, active, made>>
    BY <1>3 DEF CaptureCommits, Rooms, Room, None
  <2> QED  BY <1>3, <2>1, CapturedSafe DEF Named
<1>4. CASE CapturedIn(a, live) /\ late' = late + 1
  <2>1. Emptied(live) \in Workspaces /\ live.pending \in SUBSET Edits
    BY EmptiedTyped DEF Stored, Workspaces
  <2>2. Rooms' = Rooms /\ row' \in [Room -> RoomRows \cup {NoRow}]
    BY <1>4, <2>1, WorkspaceSaved DEF CapturedIn
  <2>3. log' \in [Room -> SUBSET Edits]
    BY <1>4, <2>1 DEF CapturedIn, Stored, Rooms
  <2>4. Homes' = Homes
    BY <2>2 DEF Homes
  <2>5. Stored'
    BY <1>4, <2>1, <2>2, <2>3, <2>4 DEF CaptureCommits, CapturedIn, Stored
  <2> QED  BY <1>4, <2>4, <2>5 DEF Named
<1> QED  BY <1>1, <1>2, <1>3, <1>4 DEF CaptureCommits

\* A row with today's workspace as the one to return to, entered at once.
LEMMA CreateRoomSafe ==
    ASSUME Stored, Routed, NEW r \in Room, CreateRoom(r)
    PROVE  Stored' /\ Homes' = Homes \cup {r} /\ (Placed => Placed')
<1>1. active = None
  BY DEF CreateRoom, InRoom, Routed, Stored
<1>2. /\ IsNext(r) /\ row' = [row EXCEPT ![r] = NewRow(TRUE, live)]
      /\ live' = Emptied(live) /\ active' = r /\ mode' = "iroh"
      /\ UNCHANGED <<log, made>>
  BY DEF CreateRoom
<1>3. /\ r \notin Rooms /\ Rooms' = Rooms \cup {r}
      /\ \E n \in Nat : Rooms' = 1..n
      /\ row' \in [Room -> RoomRows \cup {NoRow}]
      /\ row'[r].ret = live /\ \A s \in Room \ {r} : row'[s] = row[s]
  BY <1>2, RowInserted
<1>4. Homes' = Homes \cup {r} /\ r # None
  BY <1>3 DEF Homes, Room, None
<1>5. live' \in Workspaces /\ live'.pending = {}
  BY <1>2, EmptiedTyped DEF Stored
<1>6. Stored'
  BY <1>2, <1>3, <1>4, <1>5 DEF Stored, Mode
<1>7. \A h \in Homes : HomeWorkspace(h)' = HomeWorkspace(h)
  BY <1>1, <1>2, <1>3, <1>4 DEF HomeWorkspace, Homes, Rooms
<1>8. HomeWorkspace(r)'.pending = {}
  BY <1>2, <1>5 DEF HomeWorkspace
<1> QED  BY <1>2, <1>3, <1>4, <1>6, <1>7, <1>8, PlacedNewRoom

\* A join gives its room a row, but does not enter it.
LEMMA PreparedSafe ==
    ASSUME Stored, Routed, NEW r \in Room, Prepared(r), joining' \in {None, r},
           UNCHANGED <<mode, active, live, log, made, ctl>>
    PROVE  /\ Stored' /\ Homes \subseteq Homes' /\ (Placed => Placed')
           /\ joining' \in Homes' /\ mode' # "iroh" /\ ctl' = mode'
<1>1. /\ active = None /\ mode # "iroh" /\ ctl = mode
      /\ joining' \in {None, r} /\ UNCHANGED <<mode, active, live, log, made, ctl>>
  BY DEF Prepared, InRoom, Routed, Stored
<1>2. CASE row' = row /\ r \in Rooms
  <2>1. UNCHANGED store
    BY <1>1, <1>2 DEF store
  <2>2. Stored' /\ Homes' = Homes /\ (Placed => Placed')
    BY <2>1, StoreUnchanged
  <2> QED  BY <1>1, <1>2, <2>2 DEF Homes
<1>3. CASE IsNext(r) /\ row' = [row EXCEPT ![r] = NewRow(FALSE, live)]
  <2>1. /\ r \notin Rooms /\ Rooms' = Rooms \cup {r}
        /\ \E n \in Nat : Rooms' = 1..n
        /\ row' \in [Room -> RoomRows \cup {NoRow}]
        /\ row'[r].ws = Emptied(live) /\ \A s \in Room \ {r} : row'[s] = row[s]
    BY <1>3, RowInserted
  <2>2. Homes' = Homes \cup {r} /\ r # None
    BY <2>1 DEF Homes, Room, None
  <2>3. Stored'
    BY <1>1, <2>1, <2>2 DEF Stored
  <2>4. \A h \in Homes : HomeWorkspace(h)' = HomeWorkspace(h)
    BY <1>1, <2>1, <2>2 DEF HomeWorkspace, Homes, Rooms
  <2>5. HomeWorkspace(r)'.pending = {}
    BY <1>1, <2>1, <2>2, EmptiedTyped DEF HomeWorkspace, Stored
  <2>6. joining' \in Homes' /\ mode' # "iroh" /\ ctl' = mode'
    BY <1>1, <2>2 DEF Homes
  <2>7. Placed => Placed'
    BY <1>1, <2>1, <2>2, <2>3, <2>4, <2>5, PlacedNewRoom
  <2> QED  BY <2>2, <2>3, <2>6, <2>7
<1> QED  BY <1>2, <1>3 DEF Prepared

\* A join completes only while the device is outside of rooms.
LEMMA CompleteJoinSafe ==
    ASSUME Stored, Named, Routed, OnlyLast, CompleteJoin
    PROVE  /\ Stored' /\ Homes' = Homes /\ (Placed => Placed')
           /\ \/ UNCHANGED <<store, joinPending, outcome>>
              \/ /\ Head(jobs).current /\ jobs' = Tail(jobs) /\ joining # None
                 /\ mode # "iroh" /\ mode' = "iroh"
                 /\ ~joinPending' /\ outcome' = "joined"
<1>1. CASE UNCHANGED <<store, joinPending, outcome>>
  BY <1>1, StoreUnchanged
<1>2. CASE /\ Head(jobs).current /\ jobs' = Tail(jobs)
           /\ joining = Head(jobs).room /\ row[joining].genesis
           /\ Entered(joining) /\ mode' = "iroh" /\ UNCHANGED <<log, made>>
           /\ ~joinPending' /\ outcome' = "joined"
  <2>1. Head(jobs) \in Job /\ Head(jobs) = jobs[1] /\ 1 \in 1..Len(jobs)
    BY HeadJob DEF CompleteJoin, HasJob
  <2>2. joining \in Rooms /\ joining # None
    BY <1>2, <2>1 DEF Named, Homes, Job, Room, None
  <2>3. mode # "iroh" /\ active = None
    BY <1>2, <2>1, <2>2 DEF Routed, Settled, NoneCurrent, Stored
  <2> QED  BY <1>2, <2>2, <2>3, EnteredSafe
<1> QED  BY <1>1, <1>2 DEF CompleteJoin, Superseded, Done

\* A genesis or a conflict arrives.
LEMMA MarkedSafe ==
    ASSUME Stored, NEW r \in Rooms, UNCHANGED <<mode, active, live, log, made>>,
           \/ row' = [row EXCEPT ![r].genesis = TRUE]
           \/ row' = [row EXCEPT ![r].conflict = TRUE]
    PROVE  Stored' /\ Homes' = Homes /\ (Placed => Placed')
<1>1. /\ Rooms' = Rooms /\ row' \in [Room -> RoomRows \cup {NoRow}]
      /\ \A s \in Rooms : row'[s].ws = row[s].ws /\ row'[s].ret = row[s].ret
  BY RowMarked
<1>2. Homes' = Homes
  BY <1>1 DEF Homes
<1>3. Stored'
  BY <1>1, <1>2 DEF Stored
<1>4. active \in Rooms \/ active = None
  BY DEF Stored, Homes
<1>5. \A h \in Homes : HomeWorkspace(h)' = HomeWorkspace(h)
  BY <1>1, <1>4 DEF HomeWorkspace, Homes
<1> QED  BY <1>1, <1>2, <1>3, <1>5, PlacedSame

-----------------------------------------------------------------------------
(* The controller and the service: the steps that move the route.           *)

LEMMA KeptInv ==
    ASSUME IInv,
           Stored', Homes \subseteq Homes', late' = 0 => late = 0 /\ (Placed => Placed'),
           late' \in Nat, capture' \in Homes', joining' \in Homes', OnlyLast', Routed'
    PROVE  IInv'
  BY DEF IInv, Named

\* A step that leaves the store, the controller and the counters alone.
LEMMA ServiceSafe ==
    ASSUME IInv, UNCHANGED <<store, control, late>>, capture' \in {None, active, capture},
           OnlyLast', Settled => Settled'
    PROVE  IInv'
<1>1. Stored' /\ Homes' = Homes /\ (Placed => Placed')
  BY StoreUnchanged DEF IInv
<1>2. capture' \in Homes' /\ joining' \in Homes' /\ late' = late
  BY <1>1 DEF IInv, Named, Stored, control, Homes
<1>3. Routed'
  BY DEF IInv, Routed, store, control
<1> QED  BY <1>1, <1>2, <1>3, KeptInv DEF IInv, Named

LEMMA InitSafe == Init => IInv
<1> SUFFICES ASSUME Init PROVE IInv
  OBVIOUS
<1>1. Rooms = {} /\ Homes = {None} /\ Rooms = 1..0 /\ 0 \in Nat
  BY DEF Init, Rooms, Homes
<1>2. Stored
  BY <1>1, FS_EmptySet DEF Init, Stored, Mode, None, Workspaces
<1>3. OnlyLast
  BY DEF Init, OnlyLast
<1>4. Placed
  BY <1>1 DEF Init, Placed, EditsAtHome, NumbersFresh, HomeWorkspace
<1> QED  BY <1>1, <1>2, <1>3, <1>4 DEF IInv, Init, Named, Routed

LEMMA EditSafe == IInv /\ MakeEdit => IInv'
<1> SUFFICES ASSUME IInv, MakeEdit PROVE IInv'
  OBVIOUS
<1>1. /\ UNCHANGED <<mode, control, service, late>> /\ OnlyLast' /\ Routed'
      /\ capture' = capture /\ joining' = joining
  BY DEF MakeEdit, control, service, bounds, IInv, OnlyLast, Routed, Settled, NoneCurrent
<1> QED  BY <1>1, MakeEditSafe, KeptInv DEF IInv, Named

LEMMA ReadsSafe == IInv /\ CaptureReads => IInv'
<1> SUFFICES ASSUME IInv, CaptureReads PROVE IInv'
  OBVIOUS
<1>1. OnlyLast' /\ (Settled => Settled')
  BY DEF CaptureReads, IInv, OnlyLast, Settled, NoneCurrent
<1> QED  BY <1>1, ServiceSafe DEF CaptureReads, bounds

LEMMA CommitsSafe == IInv /\ CaptureCommits => IInv'
<1> SUFFICES ASSUME IInv, CaptureCommits PROVE IInv'
  OBVIOUS
<1>1. /\ UNCHANGED <<mode, control, jobs, joinPending, outcome>> /\ OnlyLast' /\ Routed'
      /\ capture' = None /\ joining' = joining
  BY DEF CaptureCommits, control, IInv, OnlyLast, Routed, Settled, NoneCurrent
<1>2. Stored' /\ Homes' = Homes /\ late' \in Nat /\ (late' = 0 => late = 0 /\ (Placed => Placed'))
  BY CaptureCommitsSafe DEF IInv
<1> QED  BY <1>1, <1>2, KeptInv DEF IInv, Named, Homes

LEMMA CreateSafe == ASSUME NEW r \in Room PROVE IInv /\ CreateRoom(r) => IInv'
<1> SUFFICES ASSUME IInv, CreateRoom(r) PROVE IInv'
  OBVIOUS
<1>1. Stored' /\ Homes' = Homes \cup {r} /\ (Placed => Placed')
  BY CreateRoomSafe DEF IInv
<1>2. OnlyLast'
  BY JobSubmitted DEF CreateRoom, StartService, IInv
<1>3. joining' = None /\ capture' = capture /\ late' = late /\ ctl' = mode'
  BY DEF CreateRoom
<1> QED  BY <1>1, <1>2, <1>3, KeptInv DEF IInv, Named, Routed, Homes

LEMMA JoinSafe == ASSUME NEW r \in Room PROVE IInv /\ JoinRoom(r) => IInv'
<1> SUFFICES ASSUME IInv, JoinRoom(r) PROVE IInv'
  OBVIOUS
<1>1. /\ Stored' /\ Homes \subseteq Homes' /\ (Placed => Placed')
      /\ joining' \in Homes' /\ mode' # "iroh" /\ ctl' = mode'
  BY PreparedSafe DEF IInv, JoinRoom
<1>2. OnlyLast'
  BY JobSubmitted DEF JoinRoom, IInv
<1>3. capture' = capture /\ late' = late
  BY DEF JoinRoom, Prepared
<1> QED  BY <1>1, <1>2, <1>3, KeptInv DEF IInv, Named, Routed

LEMMA UnstartedSafe == ASSUME NEW r \in Room PROVE IInv /\ JoinUnstarted(r) => IInv'
<1> SUFFICES ASSUME IInv, JoinUnstarted(r) PROVE IInv'
  OBVIOUS
<1>1. joining = None /\ capture' = capture /\ late' = late
      /\ UNCHANGED <<mode, active, live, log, made, ctl, joining>>
  BY DEF JoinUnstarted, Prepared
<1>2. /\ Stored' /\ Homes \subseteq Homes' /\ (Placed => Placed')
      /\ joining' \in Homes' /\ mode' # "iroh" /\ ctl' = mode'
  BY <1>1, PreparedSafe DEF IInv, JoinUnstarted
<1>3. OnlyLast'
  <2>1. CASE StopService
    BY <2>1, ServiceStopped DEF IInv
  <2>2. CASE jobs' = Invalidated
    BY <2>2, InvalidatedTyped DEF IInv, OnlyLast
  <2> QED  BY <2>1, <2>2 DEF JoinUnstarted
<1> QED  BY <1>1, <1>2, <1>3, KeptInv DEF IInv, Named, Routed

\* The route is moved: the controller gives up the join, if there is one.
LEMMA MovedSafe ==
    ASSUME IInv, NEW m \in Mode, SetModeOK(m), SetMode(m), UNCHANGED <<made, capture, late>>,
           ctl' = m, joining' = None, OnlyLast'
    PROVE  IInv'
<1>1. Stored' /\ Homes' = Homes /\ (Placed => Placed')
  BY SetModeSafe DEF IInv
<1>2. mode' = m
  BY DEF SetMode
<1> QED  BY <1>1, <1>2, KeptInv DEF IInv, Named, Routed, Homes

LEMMA ChangeSafe == ASSUME NEW m \in Mode PROVE IInv /\ ChangeMode(m) => IInv'
<1> SUFFICES ASSUME IInv, ChangeMode(m) PROVE IInv'
  OBVIOUS
<1>1. OnlyLast'
  <2>1. CASE StopService
    BY <2>1, ServiceStopped DEF IInv
  <2>2. CASE m = "iroh" /\ ctl # "iroh" /\ StartService(active')
    <3>1. Stored'
      BY SetModeSafe DEF ChangeMode, IInv
    <3>2. active' \in Room
      BY <2>2, <3>1 DEF ChangeMode, SetMode, Stored, Homes, Rooms
    <3> QED  BY <2>2, <3>2, JobSubmitted DEF StartService, IInv
  <2>3. CASE UNCHANGED jobs
    BY <2>3 DEF IInv, OnlyLast
  <2> QED  BY <2>1, <2>2, <2>3 DEF ChangeMode
<1> QED  BY <1>1, MovedSafe DEF ChangeMode

LEMMA CancelSafe == ASSUME NEW m \in Mode PROVE IInv /\ CancelByMode(m) => IInv'
<1> SUFFICES ASSUME IInv, CancelByMode(m) PROVE IInv'
  OBVIOUS
<1>1. OnlyLast'
  BY ServiceStopped DEF CancelByMode, IInv
<1> QED  BY <1>1, MovedSafe DEF CancelByMode

LEMMA LeaveSafe == IInv /\ LeaveRoom => IInv'
<1> SUFFICES ASSUME IInv, LeaveRoom PROVE IInv'
  OBVIOUS
<1>1. OnlyLast'
  BY ServiceStopped DEF LeaveRoom, IInv
<1> QED  BY <1>1, MovedSafe DEF LeaveRoom, Mode

-----------------------------------------------------------------------------
(* The signals and the event loop leave the store alone, but for a join.    *)

\* A step of the GUI thread after which the controller follows the store.
LEMMA GuiSafe ==
    ASSUME IInv, UNCHANGED <<store, capture, late>>, joining' \in {None, joining},
           OnlyLast', Routed'
    PROVE  IInv'
<1>1. Stored' /\ Homes' = Homes /\ (Placed => Placed')
  BY StoreUnchanged DEF IInv
<1> QED  BY <1>1, KeptInv DEF IInv, Named, Homes

LEMMA RefusedSafe == IInv /\ CancelRefused => IInv'
<1> SUFFICES ASSUME IInv, CancelRefused PROVE IInv'
  OBVIOUS
<1>1. UNCHANGED <<store, capture, late>> /\ mode' = mode /\ joining' = None /\ ctl' = mode
  BY DEF CancelRefused, store
<1>2. OnlyLast'
  BY ServiceStopped DEF CancelRefused, IInv
<1> QED  BY <1>1, <1>2, GuiSafe DEF Routed

LEMMA TimerSafe == IInv /\ SyncTimer => IInv'
<1> SUFFICES ASSUME IInv, SyncTimer PROVE IInv'
  OBVIOUS
<1>1. /\ UNCHANGED <<store, capture, late, jobs, joinPending, outcome, joining, ctl>>
      /\ mode' = mode
  BY DEF SyncTimer, store, service, bounds
<1>2. OnlyLast' /\ Routed'
  BY <1>1 DEF IInv, OnlyLast, Routed, Settled, NoneCurrent
<1> QED  BY <1>1, <1>2, GuiSafe

LEMMA NotConnectedSafe == IInv /\ NotConnected => IInv'
<1> SUFFICES ASSUME IInv, NotConnected PROVE IInv'
  OBVIOUS
<1>1. UNCHANGED <<store, capture, late>> /\ mode' = mode
  BY DEF NotConnected, store, bounds
<1>2. CASE JoinOver
  <2>1. OnlyLast' /\ joining' = None /\ ctl' = mode
    BY <1>2, ServiceStopped DEF NotConnected, IInv
  <2> QED  BY <1>1, <2>1, GuiSafe DEF Routed
<1>3. CASE ~JoinOver
  <2>1. UNCHANGED <<joining, ctl, jobs, joinPending, outcome>>
    BY <1>3 DEF NotConnected
  <2>2. OnlyLast' /\ Routed'
    BY <1>1, <2>1 DEF IInv, OnlyLast, Routed, Settled, NoneCurrent
  <2> QED  BY <1>1, <2>1, <2>2, GuiSafe
<1> QED  BY <1>2, <1>3

LEMMA JoinedSafe == IInv /\ Joined => IInv'
<1> SUFFICES ASSUME IInv, Joined PROVE IInv'
  OBVIOUS
<1>1. /\ UNCHANGED <<store, capture, late, jobs, joinPending, outcome>> /\ mode' = mode
      /\ joining' \in {None, joining}
  BY DEF Joined, store, service, bounds
<1>2. OnlyLast'
  BY <1>1 DEF IInv, OnlyLast
<1>3. Routed'
  <2>1. CASE active = joining /\ joining # None /\ joining' = None /\ ctl' = "iroh"
    BY <1>1, <2>1 DEF IInv, Stored, Routed
  <2>2. CASE UNCHANGED <<joining, ctl>>
    BY <1>1, <2>2 DEF IInv, Routed, Settled, NoneCurrent
  <2> QED  BY <2>1, <2>2 DEF Joined
<1> QED  BY <1>1, <1>2, <1>3, GuiSafe

LEMMA FailureSafe == IInv /\ Failure => IInv'
<1> SUFFICES ASSUME IInv, Failure PROVE IInv'
  OBVIOUS
<1>1. /\ UNCHANGED <<store, capture, late, jobs, joinPending, outcome, ctl>> /\ mode' = mode
      /\ joining' \in {None, joining}
  BY DEF Failure, store, service, bounds
<1>2. OnlyLast'
  BY <1>1 DEF IInv, OnlyLast
<1>3. Routed'
  BY <1>1 DEF Failure, IInv, Routed, Settled, NoneCurrent
<1> QED  BY <1>1, <1>2, <1>3, GuiSafe

\* A step of the event loop that changes neither store nor joins.
LEMMA LoopSafe ==
    ASSUME IInv, UNCHANGED <<store, control, late, capture>>,
           OnlyLast', NoneCurrent => NoneCurrent',
           UNCHANGED <<joinPending, outcome>> \/ ~NoneCurrent
    PROVE  IInv'
  BY ServiceSafe DEF Settled

LEMMA BeginSafe == IInv /\ BeginJob => IInv'
<1> SUFFICES ASSUME IInv, BeginJob PROVE IInv'
  OBVIOUS
<1> DEFINE job   == Head(jobs)
           begun == [job EXCEPT !.origin = IF job.kind = "join"
                                           THEN <<mode, active>> ELSE @,
                                !.owner = TRUE]
<1>1. jobs # <<>> /\ job \in Job
  BY HeadJob DEF BeginJob, HasJob, IInv
<1>2. active \in Room \cup {None} /\ mode \in Mode
  BY DEF IInv, Stored, Homes, Rooms
<1>3. \A s \in {"exchange", "binding"} :
          [begun EXCEPT !.stage = s] \in Job /\ [begun EXCEPT !.stage = s].current = job.current
  BY <1>1, <1>2 DEF Job, Stage
<1>4. \/ Done
      \/ \E s \in {"exchange", "binding"} : Keep([begun EXCEPT !.stage = s])
  BY DEF BeginJob
<1>5. OnlyLast' /\ (NoneCurrent => NoneCurrent')
  BY <1>1, <1>3, <1>4, JobsDropped, JobsKept DEF Done, IInv
<1> QED  BY <1>5, LoopSafe DEF BeginJob, bounds

LEMMA BindSafe == IInv /\ BindEndpoint => IInv'
<1> SUFFICES ASSUME IInv, BindEndpoint PROVE IInv'
  OBVIOUS
<1>1. jobs # <<>> /\ (Done \/ \E s \in Stage : Staged(s))
  BY DEF BindEndpoint, HasJob, Stage
<1>2. OnlyLast' /\ (NoneCurrent => NoneCurrent')
  BY <1>1, JobsDropped, JobStaged DEF Done, IInv
<1> QED  BY <1>2, LoopSafe DEF BindEndpoint, bounds

LEMMA FailsSafe == IInv /\ JobFails => IInv'
<1> SUFFICES ASSUME IInv, JobFails PROVE IInv'
  OBVIOUS
<1>1. jobs # <<>> /\ (Done \/ Staged("failed")) /\ "failed" \in Stage
  BY DEF JobFails, HasJob, Stage
<1>2. OnlyLast' /\ (NoneCurrent => NoneCurrent')
  BY <1>1, JobsDropped, JobStaged DEF Done, IInv
<1> QED  BY <1>2, LoopSafe DEF JobFails, bounds

LEMMA ReportsSafe == IInv /\ JoinReports => IInv'
<1> SUFFICES ASSUME IInv, JoinReports PROVE IInv'
  OBVIOUS
<1>1. jobs # <<>> /\ Done
  BY DEF JoinReports, HasJob
<1>2. OnlyLast' /\ (NoneCurrent => NoneCurrent')
  BY <1>1, JobsDropped DEF Done, IInv
<1>3. UNCHANGED <<joinPending, outcome>> \/ ~NoneCurrent
  BY <1>1, HeadJob DEF JoinReports, NoneCurrent, IInv
<1> QED  BY <1>2, <1>3, LoopSafe DEF JoinReports, bounds

LEMMA CompleteSafe == IInv /\ CompleteJoin => IInv'
<1> SUFFICES ASSUME IInv, CompleteJoin PROVE IInv'
  OBVIOUS
<1>1. /\ Stored' /\ Homes' = Homes /\ (Placed => Placed')
      /\ \/ UNCHANGED <<store, joinPending, outcome>>
         \/ /\ Head(jobs).current /\ jobs' = Tail(jobs) /\ joining # None
            /\ mode # "iroh" /\ mode' = "iroh"
            /\ ~joinPending' /\ outcome' = "joined"
  BY CompleteJoinSafe DEF IInv
<1>2. jobs # <<>> /\ (Done \/ Staged("failed")) /\ "failed" \in Stage
  BY DEF CompleteJoin, HasJob, Stage
<1>3. OnlyLast' /\ (NoneCurrent => NoneCurrent')
  BY <1>2, JobsDropped, JobStaged DEF Done, IInv
<1>4. UNCHANGED <<joining, ctl, capture, late>>
  BY DEF CompleteJoin, control, bounds
<1>5. Routed'
  <2>1. CASE UNCHANGED <<store, joinPending, outcome>>
    BY <1>3, <1>4, <2>1 DEF Routed, Settled, IInv, store
  <2>2. CASE /\ Head(jobs).current /\ jobs' = Tail(jobs) /\ joining # None
             /\ mode' = "iroh" /\ ~joinPending' /\ outcome' = "joined"
    <3>1. NoneCurrent'
      BY <1>2, <2>2, JobsDropped DEF IInv
    <3> QED  BY <1>4, <2>2, <3>1 DEF Routed, Settled
  <2> QED  BY <1>1, <2>1, <2>2
<1> QED  BY <1>1, <1>3, <1>4, <1>5, KeptInv DEF IInv, Named

LEMMA UnwindSafe == IInv /\ Unwind => IInv'
<1> SUFFICES ASSUME IInv, Unwind PROVE IInv'
  OBVIOUS
<1>1. jobs # <<>> /\ Done
  BY DEF Unwind, HasJob
<1>2. OnlyLast' /\ (NoneCurrent => NoneCurrent')
  BY <1>1, JobsDropped DEF Done, IInv
<1> QED  BY <1>2, LoopSafe DEF Unwind, bounds

LEMMA StopBeginsSafe == IInv /\ StopBegins => IInv'
<1> SUFFICES ASSUME IInv, StopBegins PROVE IInv'
  OBVIOUS
<1>1. OnlyLast' /\ (NoneCurrent => NoneCurrent')
  BY StopBeginsJobs DEF IInv
<1> QED  BY <1>1, LoopSafe DEF StopBegins, bounds

LEMMA StopEndsSafe == IInv /\ StopEnds => IInv'
<1> SUFFICES ASSUME IInv, StopEnds PROVE IInv'
  OBVIOUS
<1>1. OnlyLast' /\ (NoneCurrent => NoneCurrent')
  BY DEF StopEnds, IInv, OnlyLast, NoneCurrent
<1> QED  BY <1>1, LoopSafe DEF StopEnds, bounds

LEMMA ArrivesSafe ==
    ASSUME NEW r \in Room, NEW met \in BOOLEAN
    PROVE  IInv /\ (GenesisArrives(r) \/ ConflictArrives(r, met)) => IInv'
<1> SUFFICES ASSUME IInv, GenesisArrives(r) \/ ConflictArrives(r, met) PROVE IInv'
  OBVIOUS
<1>1. /\ r \in Rooms /\ UNCHANGED <<mode, active, live, log, made>>
      /\ \/ row' = [row EXCEPT ![r].genesis = TRUE]
         \/ row' = [row EXCEPT ![r].conflict = TRUE]
  BY DEF GenesisArrives, ConflictArrives
<1>2. Stored' /\ Homes' = Homes /\ (Placed => Placed')
  BY <1>1, MarkedSafe DEF IInv
<1>3. UNCHANGED <<control, jobs, joinPending, outcome, capture, late>>
  BY DEF GenesisArrives, ConflictArrives, service, bounds
<1>4. OnlyLast' /\ Routed' /\ UNCHANGED joining
  BY <1>1, <1>3 DEF IInv, OnlyLast, Routed, Settled, NoneCurrent, control
<1> QED  BY <1>2, <1>3, <1>4, KeptInv DEF IInv, Named

LEMMA RestartSafe == IInv /\ Restart => IInv'
<1> SUFFICES ASSUME IInv, Restart PROVE IInv'
  OBVIOUS
<1>1. UNCHANGED <<store, late>> /\ joining' = None /\ capture' = None
  BY DEF Restart
<1>2. Stored' /\ Homes' = Homes /\ (Placed => Placed') /\ mode' = mode
  BY <1>1, StoreUnchanged DEF IInv, store
<1>3. Routed'
  BY <1>1, <1>2 DEF Restart, Routed
<1>4. OnlyLast'
  <2>1. CASE mode = "iroh"
    <3>1. active \in Room
      BY <2>1 DEF IInv, Stored, Homes, Rooms
    <3>2. NewJob("start", active) \in Job /\ ~NewJob("start", active).current
      BY <3>1, NewJobTyped
    <3> QED  BY <2>1, <3>2 DEF Restart, OnlyLast
  <2>2. CASE mode # "iroh"
    BY <2>2 DEF Restart, OnlyLast
  <2> QED  BY <2>1, <2>2
<1> QED  BY <1>1, <1>2, <1>3, <1>4, KeptInv DEF IInv, Named, Homes

LEMMA NextSafe == IInv /\ [Next]_vars => IInv'
<1> SUFFICES ASSUME IInv, [Next]_vars PROVE IInv'
  OBVIOUS
<1>1. CASE \/ MakeEdit \/ CaptureReads \/ CaptureCommits
           \/ LeaveRoom \/ CancelRefused \/ SyncTimer \/ Restart
  BY <1>1, EditSafe, ReadsSafe, CommitsSafe, LeaveSafe, RefusedSafe, TimerSafe, RestartSafe
<1>2. CASE Gui
  BY <1>2, NotConnectedSafe, JoinedSafe, FailureSafe DEF Gui
<1>3. CASE LoopStep
  BY <1>3, BeginSafe, BindSafe, FailsSafe, ReportsSafe, CompleteSafe, UnwindSafe,
     StopBeginsSafe, StopEndsSafe DEF LoopStep
<1>4. CASE \E m \in Mode : ChangeMode(m) \/ CancelByMode(m)
  BY <1>4, ChangeSafe, CancelSafe
<1>5. CASE \E r \in Room : \/ CreateRoom(r) \/ JoinRoom(r) \/ JoinUnstarted(r)
                           \/ GenesisArrives(r)
                           \/ \E met \in BOOLEAN : ConflictArrives(r, met)
  BY <1>5, CreateSafe, JoinSafe, UnstartedSafe, ArrivesSafe
<1>6. CASE UNCHANGED vars
  <2>1. OnlyLast' /\ (NoneCurrent => NoneCurrent')
    BY <1>6 DEF vars, service, IInv, OnlyLast, NoneCurrent
  <2> QED  BY <1>6, <2>1, LoopSafe DEF vars, service, bounds
<1> QED  BY <1>1, <1>2, <1>3, <1>4, <1>5, <1>6 DEF Next

\* Through any number of rooms, joins that are completed, cancelled or fail on
\* the other thread, route changes and restarts, the store knows its route, the
\* controller runs behind it only for a join it has not heard of, and every
\* edit is where it belongs (storage_replication_lifecycle.py,
\* replication_controller.py, iroh_network.py).
THEOREM Invariance == Spec => []IInv
  BY InitSafe, NextSafe, PTL DEF Spec

\* An edit made outside of rooms stays in the workspace outside of rooms, and
\* one made in a room in that room, queued or in its log, once, as long as no
\* capture has committed after its room was left (set_mode, create_iroh_room,
\* prepare_join, complete_join, _deactivate_mode_locked).
THEOREM EditsStayAtHome == Spec => [](late = 0 => EditsAtHome)
<1>1. IInv => (late = 0 => EditsAtHome)
  BY DEF IInv, Placed
<1> QED  BY <1>1, Invariance, PTL

\* Under the same proviso the numbering of a workspace goes on where it
\* stopped, whatever was entered and left in between, so that no edit can be
\* refused for a number its device has used already.
THEOREM NumbersStayFresh == Spec => [](late = 0 => NumbersFresh)
<1>1. IInv => (late = 0 => NumbersFresh)
  BY DEF IInv, Placed
<1> QED  BY <1>1, Invariance, PTL
==============================================================================
