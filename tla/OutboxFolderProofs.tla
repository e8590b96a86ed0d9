-------------------------- MODULE OutboxFolderProofs --------------------------
(***************************************************************************)
(* Theorems about OutboxFolder for every set of file names and documents   *)
(* and any number of disturbances: its types, what a file in the archive   *)
(* stands for, how often a document can be queued, and which files stay.   *)
(***************************************************************************)
EXTENDS OutboxFolder, FiniteSetTheorems, TLAPS

USE PartnersAssumption, NoIdAssumption, FaultsAssumption, NamesAssumption, NothingAssumption

-----------------------------------------------------------------------------
(***************************************************************************)
(* Where watchLoop stands.  From the read on it holds a whole document in  *)
(* fileData, and the file is still there: the same document, or one that   *)
(* was saved over it.  From the insert on a row holds that document.       *)
(***************************************************************************)
Holding == pc \in {"insert", "move", "remove"}

Blank(t) == \A i \in DOMAIN t : t[i].doc = Nothing => t[i] = NoFile

Position ==
    /\ Holding => /\ copy.doc \in Documents /\ copy.whole
                  /\ Present(file)
                  /\ outbox[file] = copy \/ outbox[file].doc \in raced
    /\ pc \in {"move", "remove"} =>
          key \in Ids /\ Stored(rows, key) /\ content[key] = copy.doc
    /\ ~Holding => copy = NoFile
    /\ pc = "remove" => file \in unheard

\* What is saved under a uuid belongs to a row.
Filed ==
    \A id \in Ids :
        /\ ~Stored(rows, id) => content[id] = Nothing /\ archive[id] = NoFile
        /\ archive[id] # NoFile /\ archive[id].doc \notin raced =>
              content[id] = archive[id].doc /\ archive[id].whole

Typed == TypeOK /\ Blank(outbox)

Safe == Typed /\ Position /\ Filed

(***************************************************************************)
(* Copies.  A document is under one name at most, so the row the loop has  *)
(* just inserted is charged either to the file's departure or to the       *)
(* disturbance that kept the file there.                                   *)
(***************************************************************************)
Unique ==
    /\ \A f, g \in Names : outbox[f].doc # Nothing /\ outbox[f].doc = outbox[g].doc => f = g
    /\ \A f \in Names : Holding /\ outbox[f].doc = copy.doc => f = file

\* The document can be queued once more.
Pending(d) ==
    \/ \E f \in Names : outbox[f].doc = d
    \/ pc = "insert" /\ copy.doc = d

\* It has just been queued and nothing went wrong yet.
UnderWay(d) == node = "up" /\ pc = "move" /\ copy.doc = d

Budget ==
    \A d \in Documents :
        /\ IsFiniteSet(Copies(d))
        /\ Cardinality(Copies(d)) <= 1 + faults
        /\ Pending(d) /\ ~UnderWay(d) => Cardinality(Copies(d)) <= faults

\* A whole file has an event, is being processed, or is accounted for.
Announced(f) == \E i \in 1 .. Len(events) : events[i] = f

Accounted ==
    \A f \in Names : outbox[f].whole =>
        \/ f \in skipped \cup unheard \/ Announced(f)
        \/ pc # "idle" /\ file = f

IInv == Safe /\ Unique /\ Budget /\ Accounted
-----------------------------------------------------------------------------
Tables == [Ids -> Row]

LEMMA EmptyTableFacts == EmptyTable \in Tables
  <1>1. Absent \in Row
    BY DEF Absent, AnyPartner, Row, Payload, JobTypes, Statuses
  <1> QED
    BY <1>1 DEF EmptyTable, Tables

LEMMA FileFacts ==
    /\ NoFile \in File /\ NoFile.doc = Nothing /\ ~NoFile.whole
    /\ \A x \in File : x.doc \in Documents => x # NoFile
    /\ \A x \in File : x.whole => x # NoFile
  BY DEF NoFile, File

\* The folder after a file is written, or removed, is a folder with one file changed.
LEMMA PutFacts ==
    ASSUME outbox \in [Names -> File], Blank(outbox), NEW f \in Names, NEW x \in File,
           x.doc = Nothing => x = NoFile, outbox' = [outbox EXCEPT ![f] = x]
    PROVE  /\ outbox' \in [Names -> File] /\ Blank(outbox)' /\ outbox'[f] = x
           /\ \A g \in Names : g # f => outbox'[g] = outbox[g]
  BY DEF Blank

LEMMA FinishFacts ==
    ASSUME outbox \in [Names -> File], Blank(outbox), NEW f \in Names, Finish(f)
    PROVE  /\ outbox' \in [Names -> File] /\ Blank(outbox)'
           /\ outbox'[f].doc = outbox[f].doc /\ outbox'[f].whole
           /\ outbox[f].doc \in Documents
           /\ \A g \in Names : g # f => outbox'[g] = outbox[g]
  <1> DEFINE x == [outbox[f] EXCEPT !.whole = TRUE]
  <1>1. outbox[f].doc # Nothing /\ outbox[f] \in File
    BY DEF Finish, Present, Blank
  <1>2. x \in File /\ x.doc = outbox[f].doc /\ x.whole
    BY <1>1 DEF File
  <1>3. outbox' = [outbox EXCEPT ![f] = x]
    BY DEF Finish
  <1>4. outbox[f].doc \in Documents
    BY <1>1 DEF File
  <1> HIDE DEF x
  <1> QED
    BY <1>1, <1>2, <1>3, <1>4, PutFacts

\* The insert takes a fresh uuid, and the loop remembers it.
Inserted(id) ==
    /\ node = "up" /\ pc' = "move" /\ key' = id
    /\ UNCHANGED <<node, partners, faults, outbox, archive, events, recent, file, copy,
                   skipped, unheard, raced>>
    /\ rows' \in Tables /\ stamp' \in Nat
    /\ ~Stored(rows, id) /\ Stored(rows', id)
    /\ \A j \in Ids : j # id => rows'[j] = rows[j]
    /\ content' = [content EXCEPT ![id] = copy.doc]

LEMMA InsertRowFacts ==
    ASSUME Typed, InsertRow
    PROVE  /\ pc = "insert"
           /\ \/ \E id \in Ids : Inserted(id)
              \/ /\ DbFails /\ LeftBehind /\ Idle
                 /\ UNCHANGED <<tableVars, content, node, partners, outbox, archive, events,
                                recent, skipped, raced>>
  <1>1. ASSUME NEW id \in Ids, DbOk, InsertNew(id, "OUTBOUND", "QUEUED", FilePayload),
               content' = [content EXCEPT ![id] = copy.doc], key' = id, pc' = "move",
               UNCHANGED <<file, copy, unheard>>,
               UNCHANGED <<node, partners, outbox, archive, events, recent, skipped, raced>>
        PROVE  Inserted(id)
    <2> DEFINE row == NewRow("OUTBOUND", "QUEUED", FilePayload, stamp)
    <2>1. row \in Row /\ row.status # "ABSENT"
      BY DEF Typed, TypeOK, StoreTypeOK, NewRow, Row, FilePayload, Payload, ResolveJobType,
             JobTypes, AnyPartner, Statuses
    <2>2. rows \in Tables /\ stamp \in Nat
      BY DEF Typed, TypeOK, StoreTypeOK, Tables
    <2>3. ~Stored(rows, id) /\ stamp' = stamp + 1 /\ rows' = [rows EXCEPT ![id] = row]
      BY <1>1 DEF InsertNew, CanInsert, Insert
    <2> HIDE DEF row
    <2>4. /\ rows' \in Tables /\ Stored(rows', id)
          /\ \A j \in Ids : j # id => rows'[j] = rows[j]
      BY <2>1, <2>2, <2>3 DEF Tables, Stored
    <2> QED
      BY <1>1, <2>2, <2>3, <2>4 DEF Inserted, DbOk
  <1> QED
    BY <1>1 DEF InsertRow

LEMMA DisturbFacts ==
    ASSUME faults \in 0 .. MaxFaults
    PROVE  /\ Disturb => faults' \in 0 .. MaxFaults /\ faults' = faults + 1
           /\ DbFails => \/ faults' \in 0 .. MaxFaults /\ faults' = faults + 1
                         \/ faults' = faults
           /\ BeginShutdown => faults' \in 0 .. MaxFaults /\ faults' = faults + 1
           /\ Exit => \/ faults' \in 0 .. MaxFaults /\ faults' = faults + 1
                      \/ faults' = faults /\ node = "stopping"
  BY DEF Disturb, DbFails, BeginShutdown, Exit

LEMMA TypedInit == Init => Typed
  <1> SUFFICES ASSUME Init PROVE Typed
    OBVIOUS
  <1>1. /\ StoreTypeOK /\ archive \in [Ids -> File] /\ content \in [Ids -> Documents \cup {Nothing}]
    BY EmptyTableFacts, FileFacts DEF Init, StoreInit, StoreTypeOK, Tables
  <1>2. outbox \in [Names -> File] /\ Blank(outbox)
    BY FileFacts DEF Init, Blank
  <1>3. /\ events \in Seq(Names) /\ recent \subseteq Names /\ skipped \subseteq Names
        /\ unheard \subseteq Names /\ raced \subseteq Documents
        /\ pc \in {"idle", "read", "insert", "move", "remove"}
        /\ file \in Names /\ copy \in File /\ key \in Ids \cup {NoId}
    BY FileFacts DEF Init
  <1> QED
    BY <1>1, <1>2, <1>3 DEF Typed, TypeOK

LEMMA TypedNext == Typed /\ [Next]_vars => Typed'
  <1> SUFFICES ASSUME Typed, [Next]_vars PROVE Typed'
    OBVIOUS
  <1> USE DEF Typed, TypeOK
  <1>1. ASSUME UNCHANGED storeVars PROVE StoreTypeOK'
    BY <1>1 DEF storeVars, StoreTypeOK
  <1>2. ASSUME NEW f \in Names, Notify(f) PROVE events' \in Seq(Names) /\ unheard' \subseteq Names
    BY <1>2 DEF Notify
  <1>3. ASSUME Idle PROVE /\ pc' \in {"idle", "read", "insert", "move", "remove"}
                          /\ file' \in Names /\ copy' \in File /\ key' \in Ids \cup {NoId}
    BY <1>3, FileFacts DEF Idle
  <1>4. ASSUME NothingHeard PROVE events' \in Seq(Names) /\ unheard' \subseteq Names
    BY <1>4 DEF NothingHeard
  <1>5. ASSUME NEW f \in Names, NEW d \in Documents, NEW whole \in BOOLEAN,
               Appear(f, d, whole) \/ Overwrite(f, d, whole)
        PROVE  Typed'
    <2>1. [doc |-> d, whole |-> whole] \in File /\ d # Nothing
      BY DEF File
    <2>2. outbox' \in [Names -> File] /\ Blank(outbox)'
      BY <1>5, <2>1, PutFacts DEF Appear, Overwrite
    <2>3. raced' \subseteq Documents
      BY <1>5 DEF Appear, Overwrite
    <2> QED
      BY <1>1, <1>2, <1>5, <2>2, <2>3 DEF Appear, Overwrite, loopVars
  <1>6. ASSUME NEW f \in Names, Finish(f) PROVE Typed'
    BY <1>1, <1>2, <1>6, FinishFacts DEF Finish, loopVars
  <1>7. ASSUME NEW f \in Names, Touch(f) PROVE Typed'
    BY <1>1, <1>2, <1>7 DEF Touch, loopVars
  <1>8. CASE Debounce
    <2>1. Head(events) \in Names /\ Tail(events) \in Seq(Names)
      BY <1>8 DEF Debounce
    <2> QED
      BY <1>1, <1>8, <2>1 DEF Debounce, loopVars
  <1>9. CASE TakeEvent
    <2>1. Head(events) \in Names /\ Tail(events) \in Seq(Names)
      BY <1>9 DEF TakeEvent
    <2> QED
      BY <1>1, <1>9, <2>1 DEF TakeEvent
  <1>10. ASSUME NEW f \in Names, WindowCloses(f) PROVE Typed'
    BY <1>1, <1>10 DEF WindowCloses, loopVars
  <1>11. CASE Read
    BY <1>1, <1>3, <1>11 DEF Read
  <1>12. CASE InsertRow
    <2>1. ASSUME NEW id \in Ids, Inserted(id) PROVE Typed'
      BY <2>1 DEF Inserted, StoreTypeOK, Tables, File
    <2>2. ASSUME DbFails, LeftBehind, Idle,
                 UNCHANGED <<tableVars, content, node, partners, outbox, archive, events,
                             recent, skipped, raced>>
          PROVE  Typed'
      <3>1. faults' \in 0 .. MaxFaults
        BY <2>2, DisturbFacts DEF StoreTypeOK
      <3> QED
        BY <1>3, <2>2, <3>1 DEF LeftBehind, StoreTypeOK, tableVars
    <2> QED
      BY <1>12, <2>1, <2>2, InsertRowFacts
  <1>13. CASE MoveFile
    <2>1. outbox' \in [Names -> File] /\ Blank(outbox)'
      BY <1>13, FileFacts, PutFacts DEF MoveFile
    <2>2. archive' \in [Ids -> File] /\ skipped' \subseteq Names /\ unheard' \subseteq Names
      BY <1>13 DEF MoveFile, Gone
    <2> QED
      BY <1>1, <1>3, <1>13, <2>1, <2>2 DEF MoveFile
  <1>14. CASE MoveFails
    <2>1. faults' \in 0 .. MaxFaults
      BY <1>14, DisturbFacts DEF MoveFails, StoreTypeOK
    <2>2. archive' \in [Ids -> File] /\ unheard' \subseteq Names
      BY <1>14 DEF MoveFails, LeftBehind
    <2>3. /\ pc' \in {"idle", "read", "insert", "move", "remove"}
          /\ file' \in Names /\ copy' \in File /\ key' \in Ids \cup {NoId}
      BY <1>3, <1>14 DEF MoveFails
    <2> QED
      BY <1>14, <2>1, <2>2, <2>3 DEF MoveFails, StoreTypeOK, tableVars
  <1>15. CASE RemoveFile
    <2>1. faults' \in 0 .. MaxFaults
      BY <1>15, DisturbFacts DEF RemoveFile, StoreTypeOK
    <2>2. outbox' \in [Names -> File] /\ Blank(outbox)'
      BY <1>15, FileFacts, PutFacts DEF RemoveFile
    <2>3. skipped' \subseteq Names /\ unheard' \subseteq Names
      BY <1>15 DEF RemoveFile, Gone
    <2> QED
      BY <1>3, <1>15, <2>1, <2>2, <2>3 DEF RemoveFile, StoreTypeOK, tableVars
  <1>16. CASE Shutdown
    <2>1. faults' \in 0 .. MaxFaults
      BY <1>16, DisturbFacts DEF Shutdown, StoreTypeOK
    <2> QED
      BY <1>4, <1>16, <2>1 DEF Shutdown, BeginShutdown, StoreTypeOK, loopVars
  <1>17. CASE Halt
    <2>1. faults' \in 0 .. MaxFaults
      BY <1>17, DisturbFacts DEF Halt, StoreTypeOK
    <2> QED
      BY <1>3, <1>4, <1>17, <2>1 DEF Halt, Exit, StoreTypeOK
  <1>18. CASE Restart \/ UNCHANGED vars
    BY <1>18 DEF Restart, Boot, vars, storeVars, folderVars, loopVars, StoreTypeOK
  <1> QED
    BY <1>5, <1>6, <1>7, <1>8, <1>9, <1>10, <1>11, <1>12, <1>13, <1>14, <1>15, <1>16, <1>17,
       <1>18 DEF Next, Erp, Loop

\* The file system, the table and the loop's variables keep their types.
THEOREM TypeCorrect == Spec => []TypeOK
  <1>1. Spec => []Typed
    BY TypedInit, TypedNext, PTL DEF Spec
  <1> QED
    BY <1>1, PTL DEF Typed
-----------------------------------------------------------------------------
\* Nothing but the loop itself takes away what it holds.
LEMMA PositionKept ==
    ASSUME Position, UNCHANGED <<loopVars, rows, content>>,
           raced \subseteq raced', unheard \subseteq unheard',
           Holding => /\ outbox'[file] # NoFile
                      /\ outbox'[file] = outbox[file] \/ outbox'[file].doc \in raced'
    PROVE  Position'
  <1>1. UNCHANGED <<pc, file, copy, key, rows, content>> /\ Holding' = Holding
    BY DEF loopVars, Holding
  <1> QED
    BY <1>1 DEF Position, Present, Stored

LEMMA AtRestPosition ==
    ASSUME Idle
    PROVE  Position'
  BY DEF Idle, Position, Holding

LEMMA PositionInit == Init => Position
  BY DEF Init, Position, Holding

LEMMA PositionNext == Typed /\ Position /\ Filed /\ [Next]_vars => Position'
  <1> SUFFICES ASSUME Typed, Position, Filed, [Next]_vars PROVE Position'
    OBVIOUS
  <1>types. outbox \in [Names -> File] /\ Blank(outbox) /\ file \in Names
    BY DEF Typed, TypeOK
  <1>heard. \A f : Notify(f) => unheard \subseteq unheard'
    BY DEF Notify
  <1>1. ASSUME NEW f \in Names, NEW d \in Documents, NEW whole \in BOOLEAN, Appear(f, d, whole)
        PROVE  Position'
    <2>1. Holding => outbox'[file] = outbox[file] /\ outbox[file] # NoFile
      BY <1>1, <1>types DEF Appear, Position, Present
    <2> QED
      BY <1>1, <1>heard, <2>1, PositionKept DEF Appear, storeVars
  <1>2. ASSUME NEW f \in Names, NEW d \in Documents, NEW whole \in BOOLEAN, Overwrite(f, d, whole)
        PROVE  Position'
    <2> DEFINE x == [doc |-> d, whole |-> whole]
    <2>1. x \in File /\ x # NoFile /\ x.doc = d
      BY FileFacts DEF File
    <2>2. outbox' = [outbox EXCEPT ![f] = x] /\ raced \subseteq raced'
      BY <1>2 DEF Overwrite
    <2>3. Holding /\ f = file => d \in raced'
      BY <1>2 DEF Overwrite, Holding
    <2> HIDE DEF x
    <2>4. Holding => outbox[file] # NoFile
      BY DEF Position, Present
    <2>5. Holding => /\ outbox'[file] # NoFile
                     /\ outbox'[file] = outbox[file] \/ outbox'[file].doc \in raced'
      BY <1>types, <2>1, <2>2, <2>3, <2>4
    <2> QED
      BY <1>2, <1>heard, <2>2, <2>5, PositionKept DEF Overwrite, storeVars
  <1>3. ASSUME NEW f \in Names, Finish(f) PROVE Position'
    <2>1. /\ outbox'[f].doc = outbox[f].doc /\ outbox'[f].whole /\ outbox' \in [Names -> File]
          /\ ~outbox[f].whole /\ \A g \in Names : g # f => outbox'[g] = outbox[g]
      BY <1>3, <1>types, FinishFacts DEF Finish
    <2>2. Holding => /\ outbox'[file] # NoFile
                     /\ outbox'[file] = outbox[file] \/ outbox'[file].doc \in raced
      BY <1>types, <2>1, FileFacts DEF Position, Present
    <2> QED
      BY <1>3, <1>heard, <2>2, PositionKept DEF Finish, storeVars
  <1>4. ASSUME NEW f \in Names, Touch(f) PROVE Position'
    BY <1>4, <1>heard, PositionKept DEF Touch, storeVars, Position, Present
  <1>5. CASE Debounce \/ (\E f \in Names : WindowCloses(f))
    BY <1>5, PositionKept DEF Debounce, WindowCloses, storeVars, Position, Present
  <1>6. CASE TakeEvent
    BY <1>6 DEF TakeEvent, Position, Holding
  <1>7. CASE Read
    <2>1. CASE Present(file) /\ outbox[file].whole /\ pc' = "insert" /\ copy' = outbox[file]
               /\ UNCHANGED <<file, key>>
      <3>1. outbox[file].doc \in Documents
        BY <1>types, <2>1 DEF Present, Blank, File
      <3> QED
        BY <1>7, <2>1, <3>1 DEF Read, Position, Holding, Present
    <2> QED
      BY <1>7, <2>1, AtRestPosition DEF Read
  <1>8. CASE InsertRow
    <2>1. ASSUME NEW id \in Ids, Inserted(id), pc = "insert" PROVE Position'
      <3>1. content'[id] = copy.doc
        BY <2>1 DEF Inserted, Typed, TypeOK
      <3> QED
        BY <2>1, <3>1 DEF Inserted, Position, Holding, Present
    <2> QED
      BY <1>8, <2>1, InsertRowFacts, AtRestPosition
  <1>9. CASE MoveFails
    <2>1. CASE archive' = [archive EXCEPT ![key] = outbox[file]] /\ pc' = "remove"
               /\ UNCHANGED <<file, copy, key>>
      BY <1>9, <2>1 DEF MoveFails, LeftBehind, tableVars, Position, Holding, Present, Stored
    <2> QED
      BY <1>9, <2>1, AtRestPosition DEF MoveFails
  <1>10. CASE MoveFile \/ RemoveFile \/ Halt
    BY <1>10, AtRestPosition DEF MoveFile, RemoveFile, Halt
  <1>11. CASE Shutdown
    BY <1>11, PositionKept DEF Shutdown, BeginShutdown, NothingHeard, Position, Present
  <1>12. CASE Restart \/ UNCHANGED vars
    BY <1>12, PositionKept DEF Restart, Boot, vars, storeVars, folderVars, Position, Present
  <1> QED
    BY <1>1, <1>2, <1>3, <1>4, <1>5, <1>6, <1>7, <1>8, <1>9, <1>10, <1>11, <1>12
    DEF Next, Erp, Loop

LEMMA FiledInit == Init => Filed
  BY DEF Init, Filed

\* The steps that write neither the archive nor the table.
LEMMA FiledKept ==
    ASSUME Filed, UNCHANGED <<rows, content, archive>>, raced \subseteq raced'
    PROVE  Filed'
  BY DEF Filed, Stored

LEMMA FiledNext == Typed /\ Position /\ Filed /\ [Next]_vars => Filed'
  <1> SUFFICES ASSUME Typed, Position, Filed, [Next]_vars PROVE Filed'
    OBVIOUS
  <1>types. archive \in [Ids -> File] /\ content \in [Ids -> Documents \cup {Nothing}]
    BY DEF Typed, TypeOK
  <1>1. CASE Erp
    BY <1>1, FiledKept DEF Erp, Appear, Overwrite, Finish, Touch, storeVars
  <1>2. CASE Debounce \/ TakeEvent \/ Read \/ RemoveFile \/ (\E f \in Names : WindowCloses(f))
    BY <1>2, FiledKept DEF Debounce, TakeEvent, Read, RemoveFile, WindowCloses, storeVars, tableVars
  <1>3. CASE InsertRow
    <2>1. ASSUME NEW id \in Ids, Inserted(id) PROVE Filed'
      <3>1. /\ archive' = archive /\ raced' = raced /\ archive[id] = NoFile
            /\ content'[id] = copy.doc /\ \A j \in Ids : j # id => content'[j] = content[j]
            /\ Stored(rows', id) /\ \A j \in Ids : j # id => rows'[j] = rows[j]
        BY <1>types, <2>1 DEF Inserted, Filed
      <3> QED
        BY <3>1 DEF Filed, Stored
    <2> QED
      BY <1>3, <2>1, InsertRowFacts, FiledKept DEF tableVars
  <1>4. ASSUME pc = "move", UNCHANGED <<rows, content, raced>>,
               archive' = [archive EXCEPT ![key] = outbox[file]]
        PROVE  Filed'
    <2>1. /\ key \in Ids /\ Stored(rows, key) /\ content[key] = copy.doc /\ copy.whole
          /\ outbox[file] = copy \/ outbox[file].doc \in raced
      BY <1>4 DEF Position, Holding
    <2>2. archive'[key] = outbox[file] /\ \A j \in Ids : j # key => archive'[j] = archive[j]
      BY <1>4, <1>types, <2>1
    <2> QED
      BY <1>4, <2>1, <2>2 DEF Filed, Stored
  <1>5. CASE MoveFile
    BY <1>4, <1>5 DEF MoveFile, storeVars
  <1>6. CASE MoveFails
    BY <1>4, <1>6, FiledKept DEF MoveFails, tableVars
  <1>7. CASE Shutdown \/ Halt \/ Restart \/ UNCHANGED vars
    BY <1>7, FiledKept DEF Shutdown, BeginShutdown, Halt, Exit, Restart, Boot, vars, storeVars,
                           folderVars
  <1> QED
    BY <1>1, <1>2, <1>3, <1>5, <1>6, <1>7 DEF Next, Loop

LEMMA SafeAlways == Spec => []Safe
  <1>1. Init => Safe
    BY TypedInit, PositionInit, FiledInit DEF Safe
  <1>2. Safe /\ [Next]_vars => Safe'
    BY TypedNext, PositionNext, FiledNext DEF Safe
  <1> QED
    BY <1>1, <1>2, PTL DEF Spec

\* A document leaves the outbox for the archive only when a row holds it under the
\* archive's name, unless it was saved over a file that was being processed.
THEOREM ArchiveFollowsTheTable == Spec => []ArchivedIsQueued
  <1>1. Safe => ArchivedIsQueued
    BY DEF Safe, Filed, ArchivedIsQueued
  <1> QED
    BY <1>1, SafeAlways, PTL
-----------------------------------------------------------------------------
\* Files that go, and a loop that keeps or drops what it holds, share no document.
LEMMA UniqueKept ==
    ASSUME Unique, Position,
           \A f \in Names : outbox'[f].doc = outbox[f].doc \/ outbox'[f].doc = Nothing,
           Holding' => Holding /\ file' = file /\ copy' = copy
    PROVE  Unique'
  BY DEF Unique, Position

LEMMA UniqueInit == Init => Unique
  BY FileFacts DEF Init, Unique, Holding

LEMMA NotSubmittedFacts ==
    ASSUME NEW d \in Documents, d \notin Submitted
    PROVE  copy.doc # d /\ (\A f \in Names : outbox[f].doc # d) /\ Copies(d) = {}
  BY DEF Submitted, Copies

LEMMA UniqueNext == Typed /\ Position /\ Unique /\ [Next]_vars => Unique'
  <1> SUFFICES ASSUME Typed, Position, Unique, [Next]_vars PROVE Unique'
    OBVIOUS
  <1>types. outbox \in [Names -> File] /\ Blank(outbox) /\ file \in Names
    BY DEF Typed, TypeOK
  <1>1. ASSUME NEW f \in Names, NEW d \in Documents, NEW whole \in BOOLEAN,
               Appear(f, d, whole) \/ Overwrite(f, d, whole)
        PROVE  Unique'
    <2> DEFINE x == [doc |-> d, whole |-> whole]
    <2>1. x \in File /\ x.doc = d
      BY DEF File
    <2>2. /\ outbox' = [outbox EXCEPT ![f] = x] /\ d \notin Submitted
          /\ UNCHANGED <<pc, file, copy>>
      BY <1>1 DEF Appear, Overwrite, loopVars
    <2> HIDE DEF x
    <2>3. outbox'[f].doc = d /\ \A g \in Names : g # f => outbox'[g] = outbox[g]
      BY <1>types, <2>1, <2>2
    <2> QED
      BY <2>2, <2>3, NotSubmittedFacts DEF Unique, Holding
  <1>2. ASSUME NEW f \in Names, Finish(f) PROVE Unique'
    <2>1. \A g \in Names : outbox'[g].doc = outbox[g].doc
      BY <1>2, <1>types, FinishFacts
    <2> QED
      BY <1>2, <2>1, UniqueKept DEF Finish, loopVars, Holding
  <1>3. CASE (\E f \in Names : Touch(f) \/ WindowCloses(f)) \/ Debounce
    BY <1>3, UniqueKept DEF Touch, WindowCloses, Debounce, loopVars, Holding
  <1>4. CASE TakeEvent
    BY <1>4, UniqueKept DEF TakeEvent, Holding
  <1>5. CASE Read
    <2>1. CASE Present(file) /\ pc' = "insert" /\ copy' = outbox[file] /\ UNCHANGED <<file, key>>
      <3>1. outbox[file].doc # Nothing /\ outbox' = outbox
        BY <1>5, <1>types, <2>1 DEF Present, Blank, Read
      <3> QED
        BY <1>types, <2>1, <3>1 DEF Unique
    <2> QED
      BY <1>5, <2>1, UniqueKept DEF Read, Idle, Holding
  <1>6. CASE InsertRow
    BY <1>6, InsertRowFacts, UniqueKept DEF Inserted, Idle, Holding
  <1>7. CASE MoveFile \/ MoveFails \/ RemoveFile
    <2>1. \A f \in Names : outbox'[f].doc = outbox[f].doc \/ outbox'[f].doc = Nothing
      BY <1>7, <1>types, FileFacts DEF MoveFile, MoveFails, RemoveFile
    <2> QED
      BY <1>7, <2>1, UniqueKept DEF MoveFile, MoveFails, RemoveFile, Idle, Holding
  <1>8. CASE Shutdown \/ Halt
    BY <1>8, UniqueKept DEF Shutdown, Halt, Idle, loopVars, Holding
  <1>9. CASE Restart \/ UNCHANGED vars
    BY <1>9, UniqueKept DEF Restart, vars, folderVars, loopVars, Holding
  <1> QED
    BY <1>1, <1>2, <1>3, <1>4, <1>5, <1>6, <1>7, <1>8, <1>9 DEF Next, Erp, Loop
-----------------------------------------------------------------------------
\* A step that queues nothing keeps the budget when it lets a document wait in the
\* folder only if it already did, or never was queued, or a disturbance pays for it.
LEMMA BudgetKept ==
    ASSUME Budget, faults \in Nat, UNCHANGED content,
           \/ faults' = faults + 1
           \/ /\ faults' = faults
              /\ \A d \in Documents : Pending(d)' /\ ~UnderWay(d)' =>
                    Copies(d) = {} \/ (Pending(d) /\ ~UnderWay(d))
    PROVE  Budget'
  <1> SUFFICES ASSUME NEW d \in Documents
               PROVE  /\ IsFiniteSet(Copies(d)') /\ Cardinality(Copies(d)') <= 1 + faults'
                      /\ Pending(d)' /\ ~UnderWay(d)' => Cardinality(Copies(d)') <= faults'
    BY DEF Budget
  <1>1. Copies(d)' = Copies(d)
    BY DEF Copies
  <1>2. /\ IsFiniteSet(Copies(d)) /\ Cardinality(Copies(d)) <= 1 + faults
        /\ Pending(d) /\ ~UnderWay(d) => Cardinality(Copies(d)) <= faults
    BY DEF Budget
  <1>3. Cardinality(Copies(d)) \in Nat
    BY <1>2, FS_CardinalityType
  <1>4. Copies(d) = {} => Cardinality(Copies(d)) = 0
    BY FS_EmptySet
  <1> QED
    BY <1>1, <1>2, <1>3, <1>4

LEMMA BudgetInit == Init => Budget
  <1> SUFFICES ASSUME Init, NEW d \in Documents
               PROVE  /\ IsFiniteSet(Copies(d)) /\ Cardinality(Copies(d)) = 0
    BY DEF Budget, Init, StoreInit
  <1>1. Copies(d) = {}
    BY DEF Init, Copies
  <1> QED
    BY <1>1, FS_EmptySet

\* The insert is the one step that uses a document's allowance up.
LEMMA BudgetInserted ==
    ASSUME Typed, Filed, Budget, pc = "insert", NEW id \in Ids, Inserted(id)
    PROVE  Budget'
  <1> SUFFICES ASSUME NEW d \in Documents
               PROVE  /\ IsFiniteSet(Copies(d)') /\ Cardinality(Copies(d)') <= 1 + faults'
                      /\ Pending(d)' /\ ~UnderWay(d)' => Cardinality(Copies(d)') <= faults'
    BY DEF Budget
  <1>1. /\ content[id] = Nothing /\ content'[id] = copy.doc
        /\ \A j \in Ids : j # id => content'[j] = content[j]
    BY DEF Inserted, Filed, Typed, TypeOK
  <1>2. /\ IsFiniteSet(Copies(d)) /\ Cardinality(Copies(d)) <= 1 + faults
        /\ Pending(d) => Cardinality(Copies(d)) <= faults
    BY DEF Budget, UnderWay
  <1>3. Cardinality(Copies(d)) \in Nat /\ faults \in Nat /\ faults' = faults
    BY <1>2, FS_CardinalityType DEF Inserted, Typed, TypeOK, StoreTypeOK
  <1>4. CASE d = copy.doc
    <2>1. Copies(d)' = Copies(d) \cup {id} /\ id \notin Copies(d)
      BY <1>1, <1>4 DEF Copies
    <2>2. IsFiniteSet(Copies(d)') /\ Cardinality(Copies(d)') = Cardinality(Copies(d)) + 1
      BY <1>2, <2>1, FS_AddElement
    <2>3. Pending(d) /\ UnderWay(d)'
      BY <1>4 DEF Pending, UnderWay, Inserted
    <2> QED
      BY <1>2, <1>3, <2>2, <2>3
  <1>5. CASE d # copy.doc
    <2>1. Copies(d)' = Copies(d)
      BY <1>1, <1>5 DEF Copies
    <2>2. Pending(d)' => Pending(d)
      BY DEF Pending, Inserted
    <2> QED
      BY <1>2, <1>3, <2>1, <2>2
  <1> QED
    BY <1>4, <1>5

LEMMA BudgetNext == Safe /\ Unique /\ Budget /\ [Next]_vars => Budget'
  <1> SUFFICES ASSUME Safe, Unique, Budget, [Next]_vars PROVE Budget'
    OBVIOUS
  <1>types. /\ faults \in 0 .. MaxFaults /\ faults \in Nat
            /\ outbox \in [Names -> File] /\ Blank(outbox) /\ file \in Names
            /\ Typed /\ Position /\ Filed
    BY DEF Safe, Typed, TypeOK, StoreTypeOK
  <1>1. ASSUME NEW f \in Names, NEW d \in Documents, NEW whole \in BOOLEAN,
               Appear(f, d, whole) \/ Overwrite(f, d, whole)
        PROVE  Budget'
    <2> DEFINE x == [doc |-> d, whole |-> whole]
    <2>1. x \in File /\ x.doc = d
      BY DEF File
    <2>2. /\ outbox' = [outbox EXCEPT ![f] = x] /\ d \notin Submitted
          /\ UNCHANGED <<node, pc, copy, content, faults>>
      BY <1>1 DEF Appear, Overwrite, loopVars, storeVars
    <2> HIDE DEF x
    <2>3. outbox'[f].doc = d /\ \A g \in Names : g # f => outbox'[g] = outbox[g]
      BY <1>types, <2>1, <2>2
    <2>4. ASSUME NEW e \in Documents, Pending(e)', ~UnderWay(e)'
          PROVE  Copies(e) = {} \/ (Pending(e) /\ ~UnderWay(e))
      BY <2>2, <2>3, <2>4, NotSubmittedFacts DEF Pending, UnderWay
    <2> QED
      BY <1>types, <2>2, <2>4, BudgetKept
  <1>2. ASSUME NEW f \in Names, Finish(f) PROVE Budget'
    <2>1. \A g \in Names : outbox'[g].doc = outbox[g].doc
      BY <1>2, <1>types, FinishFacts
    <2> QED
      BY <1>2, <1>types, <2>1, BudgetKept DEF Finish, loopVars, storeVars, Pending, UnderWay
  <1>3. CASE (\E f \in Names : Touch(f) \/ WindowCloses(f)) \/ Debounce
    BY <1>3, <1>types, BudgetKept
    DEF Touch, WindowCloses, Debounce, loopVars, storeVars, Pending, UnderWay
  <1>4. CASE TakeEvent
    BY <1>4, <1>types, BudgetKept DEF TakeEvent, storeVars, Pending, UnderWay
  <1>5. CASE Read
    BY <1>5, <1>types, BudgetKept DEF Read, Idle, storeVars, Pending, UnderWay
  <1>6. CASE InsertRow
    <2>1. ASSUME DbFails, Idle, UNCHANGED <<content, outbox>>, pc = "insert" PROVE Budget'
      BY <1>types, <2>1, DisturbFacts, BudgetKept DEF Idle, Pending, UnderWay
    <2> QED
      BY <1>6, <1>types, <2>1, InsertRowFacts, BudgetInserted
  <1>7. CASE MoveFile
    <2>1. outbox'[file].doc = Nothing /\ \A f \in Names : f # file => outbox'[f] = outbox[f]
      BY <1>7, <1>types, FileFacts DEF MoveFile
    <2>2. pc = "move" /\ pc' = "idle" /\ UNCHANGED <<node, content, faults>>
      BY <1>7 DEF MoveFile, Idle, storeVars
    <2>3. ASSUME NEW d \in Documents, Pending(d)' PROVE Pending(d) /\ ~UnderWay(d)
      <3>1. PICK f \in Names : f # file /\ outbox[f].doc = d
        BY <2>1, <2>2, <2>3 DEF Pending
      <3>2. copy.doc # d
        BY <2>2, <3>1 DEF Unique, Holding
      <3> QED
        BY <3>1, <3>2 DEF Pending, UnderWay
    <2> QED
      BY <1>types, <2>2, <2>3, BudgetKept
  <1>8. CASE MoveFails
    BY <1>8, <1>types, DisturbFacts, BudgetKept DEF MoveFails
  <1>9. CASE RemoveFile
    <2>1. \A f \in Names : outbox'[f].doc \in {outbox[f].doc, Nothing}
      BY <1>9, <1>types, FileFacts DEF RemoveFile
    <2>2. pc = "remove" /\ pc' = "idle" /\ UNCHANGED content
      BY <1>9 DEF RemoveFile, Idle
    <2>3. faults' = faults \/ faults' = faults + 1
      BY <1>9, <1>types, DisturbFacts DEF RemoveFile
    <2>4. ASSUME NEW d \in Documents, Pending(d)' PROVE Pending(d) /\ ~UnderWay(d)
      BY <2>1, <2>2, <2>4 DEF Pending, UnderWay
    <2> QED
      BY <1>types, <2>2, <2>3, <2>4, BudgetKept
  <1>10. CASE Shutdown
    BY <1>10, <1>types, DisturbFacts, BudgetKept DEF Shutdown
  <1>11. CASE Halt
    BY <1>11, <1>types, DisturbFacts, BudgetKept DEF Halt, Idle, Pending, UnderWay
  <1>12. CASE Restart
    BY <1>12, <1>types, BudgetKept DEF Restart, Boot, folderVars, loopVars, Pending, UnderWay
  <1>13. CASE UNCHANGED vars
    BY <1>13, <1>types, BudgetKept DEF vars, storeVars, folderVars, loopVars, Pending, UnderWay
  <1> QED
    BY <1>1, <1>2, <1>3, <1>4, <1>5, <1>6, <1>7, <1>8, <1>9, <1>10, <1>11, <1>12, <1>13
    DEF Next, Erp, Loop
-----------------------------------------------------------------------------
(***************************************************************************)
(* Which files stay.  The queue of events is read only at its head.        *)
(***************************************************************************)
Noted(f) == f \in skipped \cup unheard \/ Announced(f)

\* Whoever writes a file is heard, or the file is noted as unheard.
LEMMA NotifyFacts ==
    ASSUME events \in Seq(Names), NEW f \in Names, Notify(f), skipped' = skipped
    PROVE  Noted(f)' /\ \A g \in Names : Noted(g) => Noted(g)'
  <1>1. CASE node = "up"
    <2>1. /\ events' = Append(events, f) /\ UNCHANGED <<unheard, skipped>>
          /\ Len(events) \in Nat
      BY <1>1 DEF Notify
    <2>2. /\ Len(events') = Len(events) + 1 /\ events'[Len(events) + 1] = f
          /\ \A i \in 1 .. Len(events) : events'[i] = events[i]
      BY <2>1
    <2>3. Announced(f)'
      BY <2>1, <2>2 DEF Announced
    <2>4. \A g \in Names : Announced(g) => Announced(g)'
      BY <2>1, <2>2 DEF Announced
    <2> QED
      BY <2>1, <2>3, <2>4 DEF Noted
  <1>2. CASE node # "up"
    <2>1. unheard' = unheard \cup {f} /\ UNCHANGED <<events, skipped>>
      BY <1>2 DEF Notify
    <2>2. \A g \in Names : Announced(g)' <=> Announced(g)
      BY <2>1 DEF Announced
    <2> QED
      BY <2>1, <2>2 DEF Noted
  <1> QED
    BY <1>1, <1>2

\* Taking an event off the queue loses that one only.
LEMMA TakeFacts ==
    ASSUME events \in Seq(Names), events # <<>>, events' = Tail(events)
    PROVE  \A g \in Names : Announced(g) => g = Head(events) \/ Announced(g)'
  <1> SUFFICES ASSUME NEW g \in Names, Announced(g), g # Head(events) PROVE Announced(g)'
    OBVIOUS
  <1>1. PICK i \in 1 .. Len(events) : events[i] = g
    BY DEF Announced
  <1>2. Len(events) \in Nat /\ Head(events) = events[1]
    OBVIOUS
  <1>3. i - 1 \in 1 .. Len(events')
    BY <1>1, <1>2
  <1>4. events'[i - 1] = events[i]
    BY <1>1, <1>2, <1>3
  <1> QED
    BY <1>1, <1>3, <1>4 DEF Announced

LEMMA AccountedInit == Init => Accounted
  BY FileFacts DEF Init, Accounted

\* A step that writes no file whole and forgets none.
LEMMA AccountedKept ==
    ASSUME Accounted,
           \A f \in Names : outbox'[f].whole =>
               /\ outbox[f].whole
               /\ Noted(f) => Noted(f)' \/ (pc' # "idle" /\ file' = f)
               /\ pc # "idle" /\ file = f => Noted(f)' \/ (pc' # "idle" /\ file' = f)
    PROVE  Accounted'
  BY DEF Accounted, Noted

LEMMA AccountedNext == Safe /\ Accounted /\ [Next]_vars => Accounted'
  <1> SUFFICES ASSUME Safe, Accounted, [Next]_vars PROVE Accounted'
    OBVIOUS
  <1>types. /\ outbox \in [Names -> File] /\ Blank(outbox) /\ file \in Names
            /\ events \in Seq(Names)
    BY DEF Safe, Typed, TypeOK
  <1>heard. ASSUME UNCHANGED <<events, skipped>>, unheard \subseteq unheard'
            PROVE  \A g \in Names : Noted(g) => Noted(g)'
    BY <1>heard DEF Noted, Announced
  <1>1. ASSUME NEW f \in Names, Notify(f), \A g \in Names : g # f => outbox'[g] = outbox[g],
               UNCHANGED <<loopVars, skipped>>
        PROVE  Accounted'
    BY <1>1, <1>types, NotifyFacts DEF Accounted, Noted, loopVars
  <1>2. ASSUME NEW f \in Names, NEW d \in Documents, NEW whole \in BOOLEAN,
               Appear(f, d, whole) \/ Overwrite(f, d, whole)
        PROVE  Accounted'
    <2>1. \A g \in Names : g # f => outbox'[g] = outbox[g]
      BY <1>2, <1>types DEF Appear, Overwrite
    <2> QED
      BY <1>1, <1>2, <2>1 DEF Appear, Overwrite
  <1>3. ASSUME NEW f \in Names, Finish(f) PROVE Accounted'
    <2>1. \A g \in Names : g # f => outbox'[g] = outbox[g]
      BY <1>3, <1>types DEF Finish
    <2> QED
      BY <1>1, <1>3, <2>1 DEF Finish
  <1>4. ASSUME NEW f \in Names, Touch(f) PROVE Accounted'
    BY <1>1, <1>4 DEF Touch
  <1>5. CASE Debounce
    <2>1. \A g \in Names : Noted(g) => Noted(g)'
      BY <1>5, <1>types, TakeFacts DEF Debounce, Noted
    <2> QED
      BY <1>5, <2>1, AccountedKept DEF Debounce, loopVars
  <1>6. CASE TakeEvent
    <2>1. /\ pc = "idle" /\ pc' = "read" /\ file' = Head(events)
          /\ UNCHANGED <<outbox, skipped, unheard>>
      BY <1>6 DEF TakeEvent
    <2>2. \A g \in Names : Noted(g) => Noted(g)' \/ file' = g
      BY <1>6, <1>types, <2>1, TakeFacts DEF TakeEvent, Noted
    <2> QED
      BY <2>1, <2>2, AccountedKept
  <1>7. ASSUME NEW f \in Names, WindowCloses(f) PROVE Accounted'
    BY <1>7, <1>heard, AccountedKept DEF WindowCloses, loopVars
  <1>8. CASE Read
    <2>1. /\ UNCHANGED <<outbox, events, skipped, unheard, file>>
          /\ pc' = "insert" \/ ~outbox[file].whole
      BY <1>8, <1>types, FileFacts DEF Read, Idle, Present
    <2>2. \A g \in Names : Noted(g) => Noted(g)'
      BY <1>heard, <2>1
    <2> QED
      BY <1>types, <2>1, <2>2, AccountedKept
  <1>left. ASSUME LeftBehind, UNCHANGED <<outbox, events, skipped, file>> PROVE Accounted'
    <2>1. file \in unheard' /\ \A g \in Names : Noted(g) => Noted(g)'
      BY <1>left, <1>heard DEF LeftBehind
    <2>2. \A g \in Names : g = file => Noted(g)'
      BY <2>1 DEF Noted
    <2> QED
      BY <1>left, <2>1, <2>2, AccountedKept
  <1>9. CASE InsertRow
    <2>1. ASSUME NEW id \in Ids, Inserted(id) PROVE Accounted'
      <3>1. UNCHANGED <<outbox, events, skipped, unheard, file>> /\ pc' = "move"
        BY <2>1 DEF Inserted
      <3>2. \A g \in Names : Noted(g) => Noted(g)'
        BY <1>heard, <3>1
      <3> QED
        BY <3>1, <3>2, AccountedKept
    <2>2. ASSUME LeftBehind, Idle, UNCHANGED <<outbox, events, skipped>> PROVE Accounted'
      BY <1>left, <2>2 DEF Idle
    <2> QED
      BY <1>9, <2>1, <2>2, InsertRowFacts DEF Safe
  <1>10. ASSUME outbox' = [outbox EXCEPT ![file] = NoFile], Gone, UNCHANGED events
         PROVE  Accounted'
    <2>1. ~outbox'[file].whole /\ \A g \in Names : g # file => outbox'[g] = outbox[g]
      BY <1>10, <1>types, FileFacts
    <2>2. \A g \in Names : g # file /\ Noted(g) => Noted(g)'
      BY <1>10 DEF Gone, Noted, Announced
    <2> QED
      BY <1>types, <2>1, <2>2, AccountedKept
  <1>11. CASE MoveFile
    BY <1>10, <1>11 DEF MoveFile
  <1>12. CASE MoveFails
    BY <1>left, <1>12 DEF MoveFails, Idle
  <1>13. CASE RemoveFile
    <2>1. CASE UNCHANGED <<outbox, skipped, unheard>>
      <3>1. file \in unheard /\ UNCHANGED events
        BY <1>13 DEF RemoveFile, Safe, Position
      <3>2. \A g \in Names : g = file \/ Noted(g) => Noted(g)'
        BY <1>heard, <2>1, <3>1 DEF Noted
      <3> QED
        BY <2>1, <3>2, AccountedKept
    <2> QED
      BY <1>10, <1>13, <2>1 DEF RemoveFile
  <1>14. CASE Shutdown \/ Halt
    <2>1. NothingHeard /\ outbox' = outbox
      BY <1>14 DEF Shutdown, Halt
    <2>2. \A f \in Names : outbox[f].whole => f \in unheard'
      BY <1>types, <2>1, FileFacts DEF NothingHeard, Present
    <2> QED
      BY <2>1, <2>2 DEF Accounted
  <1>15. CASE Restart \/ UNCHANGED vars
    BY <1>15, <1>heard, AccountedKept DEF Restart, vars, folderVars, loopVars
  <1> QED
    BY <1>2, <1>3, <1>4, <1>5, <1>6, <1>7, <1>8, <1>9, <1>11, <1>12, <1>13, <1>14, <1>15
    DEF Next, Erp, Loop
-----------------------------------------------------------------------------
LEMMA IInvAlways == Spec => []IInv
  <1>1. Init => IInv
    BY TypedInit, PositionInit, FiledInit, UniqueInit, BudgetInit, AccountedInit DEF IInv, Safe
  <1>2. IInv /\ [Next]_vars => IInv'
    BY TypedNext, PositionNext, FiledNext, UniqueNext, BudgetNext, AccountedNext DEF IInv, Safe
  <1> QED
    BY <1>1, <1>2, PTL DEF Spec

\* However the ERP's writes, the failing statements and the restarts fall, one
\* document is queued once and, beyond that, once for each disturbance.
THEOREM OneRowPerDisturbance == Spec => []QueuedOncePerDisturbance
  <1>1. IInv => QueuedOncePerDisturbance
    BY DEF IInv, Budget, QueuedOncePerDisturbance
  <1> QED
    BY <1>1, IInvAlways, PTL

\* With the loop at rest and no event waiting, a complete file left in the outbox was
\* debounced, came or was there without a watcher, or failed: no other way is open.
THEOREM NoFileIsForgotten == Spec => []OnlySkippedFilesStay
  <1>1. IInv => OnlySkippedFilesStay
    <2> SUFFICES ASSUME Accounted, AtRest, NEW f \in Names, outbox[f].whole
                 PROVE  f \in skipped \cup unheard
      BY DEF IInv, OnlySkippedFilesStay
    <2>1. ~Announced(f)
      BY DEF AtRest, Announced
    <2> QED
      BY <2>1 DEF Accounted, AtRest
  <1> QED
    BY <1>1, IInvAlways, PTL
=============================================================================
