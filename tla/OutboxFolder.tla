----------------------------- MODULE OutboxFolder -----------------------------
(***************************************************************************)
(* The watched folder (internal/watcher/fs_worker.go).  The ERP writes     *)
(* documents into files of ./fidex/outbox; one goroutine takes the file    *)
(* system's events one by one, waits, reads the file, inserts its content  *)
(* as a QUEUED row under a fresh uuid and moves the file to the archive.   *)
(*                                                                         *)
(* The file system, the table and the goroutine's debouncing map are three *)
(* places without a transaction: the ERP writes while the goroutine sleeps *)
(* or reads, statements fail, the process dies between insert and rename.  *)
(* Ids are the uuids.  The ERP writes a file in one or in two steps, uses  *)
(* names again, and may do so while the folder still holds the file.       *)
(***************************************************************************)
EXTENDS NodeStore, Sequences, FiniteSets

CONSTANTS
    Names,        \* names of .json files in the outbox
    Documents,    \* documents the ERP submits through the folder, once each
    Nothing,
    MaxPending    \* bound on unhandled events while a file is touched again

ASSUME NamesAssumption   == Names # {}
ASSUME NothingAssumption == Nothing \notin Documents

File == [doc : Documents \cup {Nothing}, whole : BOOLEAN]
NoFile == [doc |-> Nothing, whole |-> FALSE]

VARIABLES
    outbox,    \* the folder: file of each name
    archive,   \* the archive: file <uuid>.json
    content,   \* the payload column of the rows inserted here
    events,    \* events of the watcher that are not handled yet
    recent,    \* names whose timestamp in processedFiles is younger than 500ms
    pc,        \* where watchLoop stands
    file,      \* the name it processes
    copy,      \* fileData: what it read
    key,       \* the uuid it inserted copy under
    skipped,   \* history: names that had an event debounced since they appeared
    unheard,   \* history: names that were there, or came, without a watcher, or whose
               \* processing failed, since they appeared
    raced      \* history: documents written over a file being processed

loopVars   == <<pc, file, copy, key>>
folderVars == <<outbox, archive, content, events, recent, loopVars, skipped, unheard, raced>>
vars == <<storeVars, folderVars>>

Idle == pc' = "idle" /\ copy' = NoFile /\ UNCHANGED <<file, key>>

Init ==
    /\ StoreInit
    /\ outbox = [f \in Names |-> NoFile]
    /\ archive = [id \in Ids |-> NoFile]
    /\ content = [id \in Ids |-> Nothing]
    /\ events = <<>> /\ recent = {} /\ skipped = {} /\ unheard = {} /\ raced = {}
    /\ pc = "idle" /\ copy = NoFile
    /\ file = CHOOSE f \in Names : TRUE
    /\ key = NoId

-----------------------------------------------------------------------------
(***************************************************************************)
(* The ERP.  Events exist only while the watcher does: Start does not look *)
(* at what is already in the folder.                                       *)
(***************************************************************************)
Present(f) == outbox[f] # NoFile
Submitted == {d \in Documents :
                 \/ copy.doc = d \/ \E f \in Names : outbox[f].doc = d
                 \/ \E id \in Ids : archive[id].doc = d \/ content[id] = d}

Notify(f) ==
    IF node = "up" THEN events' = Append(events, f) /\ UNCHANGED unheard
                   ELSE unheard' = unheard \cup {f} /\ UNCHANGED events

\* The file appears, complete (moved or written at once) or only begun.
Appear(f, d, whole) ==
    /\ ~Present(f) /\ d \notin Submitted
    /\ outbox' = [outbox EXCEPT ![f] = [doc |-> d, whole |-> whole]]
    /\ Notify(f)
    /\ UNCHANGED <<storeVars, archive, content, recent, loopVars, skipped, raced>>

\* Another document is saved under the name of one that is still there.
Overwrite(f, d, whole) ==
    /\ Present(f) /\ d \notin Submitted /\ Len(events) < MaxPending
    /\ outbox' = [outbox EXCEPT ![f] = [doc |-> d, whole |-> whole]]
    /\ raced' = IF pc # "idle" /\ file = f THEN raced \cup {d} ELSE raced
    /\ Notify(f)
    /\ UNCHANGED <<storeVars, archive, content, recent, loopVars, skipped>>

\* The rest of the file is written.
Finish(f) ==
    /\ Present(f) /\ ~outbox[f].whole
    /\ outbox' = [outbox EXCEPT ![f].whole = TRUE]
    /\ Notify(f)
    /\ UNCHANGED <<storeVars, archive, content, recent, loopVars, skipped, raced>>

\* A file that is still there is written again, unchanged: the one way to have
\* the watcher look at a file it left behind.
Touch(f) ==
    /\ Present(f) /\ outbox[f].whole
    /\ node = "up" /\ Len(events) < MaxPending
    /\ Notify(f)
    /\ UNCHANGED <<storeVars, outbox, archive, content, recent, loopVars, skipped, raced>>
-----------------------------------------------------------------------------
(***************************************************************************)
(* watchLoop and processFile.                                              *)
(*   idle - in the select          read - sleeping before os.ReadFile      *)
(*   insert - content is valid     move - the row is inserted              *)
(*   remove - copied to the archive after os.Rename failed                 *)
(***************************************************************************)
Debounce ==
    /\ pc = "idle" /\ events # <<>> /\ Head(events) \in recent
    /\ events' = Tail(events)
    /\ skipped' = skipped \cup {Head(events)}
    /\ UNCHANGED <<storeVars, outbox, archive, content, recent, loopVars, unheard, raced>>

\* Mutant of TakeEvent: one timer for the folder, whose events are taken together.
TakeAllEvents ==
    /\ pc = "idle" /\ events # <<>> /\ Head(events) \notin recent
    /\ file' = Head(events) /\ recent' = recent \cup {Head(events)}
    /\ events' = <<>>
    /\ pc' = "read"
    /\ UNCHANGED <<storeVars, outbox, archive, content, copy, key, skipped, unheard, raced>>

TakeEvent ==
    /\ pc = "idle" /\ events # <<>> /\ Head(events) \notin recent
    /\ file' = Head(events) /\ recent' = recent \cup {Head(events)}
    /\ events' = Tail(events)
    /\ pc' = "read"
    /\ UNCHANGED <<storeVars, outbox, archive, content, copy, key, skipped, unheard, raced>>

\* 500ms after the timestamp; cleanupProcessedFiles only saves memory.
WindowCloses(f) ==
    /\ f \in recent
    /\ recent' = recent \ {f}
    /\ UNCHANGED <<storeVars, outbox, archive, content, events, loopVars, skipped, unheard, raced>>

\* Mutant of Read: what is there is taken, valid or not.
ReadAnything ==
    /\ pc = "read"
    /\ IF Present(file)
       THEN pc' = "insert" /\ copy' = outbox[file] /\ UNCHANGED <<file, key>>
       ELSE Idle
    /\ UNCHANGED <<storeVars, outbox, archive, content, events, recent, skipped, unheard, raced>>

\* A file that is gone, or not yet valid JSON, ends the processing.
Read ==
    /\ pc = "read"
    /\ IF Present(file) /\ outbox[file].whole
       THEN pc' = "insert" /\ copy' = outbox[file] /\ UNCHANGED <<file, key>>
       ELSE Idle
    /\ UNCHANGED <<storeVars, outbox, archive, content, events, recent, skipped, unheard, raced>>

Gone       == skipped' = skipped \ {file} /\ unheard' = unheard \ {file}
LeftBehind == unheard' = unheard \cup {file}

FilePayload == [job |-> "", complete |-> TRUE, to |-> AnyPartner, about |-> NoId]

InsertRow ==
    /\ pc = "insert"
    /\ \/ /\ DbOk
          /\ \E id \in Ids : /\ InsertNew(id, "OUTBOUND", "QUEUED", FilePayload)
                             /\ content' = [content EXCEPT ![id] = copy.doc]
                             /\ key' = id
          /\ pc' = "move" /\ UNCHANGED <<file, copy, unheard>>
       \/ DbFails /\ LeftBehind /\ Idle /\ UNCHANGED <<tableVars, content>>
    /\ UNCHANGED <<node, partners, outbox, archive, events, recent, skipped, raced>>

\* Mutant of MoveFile: the file is linked, not renamed.
CopyFile ==
    /\ pc = "move" /\ Present(file)
    /\ archive' = [archive EXCEPT ![key] = outbox[file]]
    /\ Idle
    /\ UNCHANGED <<storeVars, outbox, content, events, recent, skipped, unheard, raced>>

\* os.Rename(file, archive/<uuid>.json), in a step of its own.
MoveFile ==
    /\ pc = "move" /\ Present(file)
    /\ archive' = [archive EXCEPT ![key] = outbox[file]]
    /\ outbox' = [outbox EXCEPT ![file] = NoFile]
    /\ Gone /\ Idle
    /\ UNCHANGED <<storeVars, content, events, recent, raced>>

\* Rename fails and copyFile does, or does not, save the file.
MoveFails ==
    /\ pc = "move" /\ Disturb /\ LeftBehind
    /\ \/ /\ archive' = [archive EXCEPT ![key] = outbox[file]]
          /\ pc' = "remove" /\ UNCHANGED <<file, copy, key>>
       \/ UNCHANGED archive /\ Idle
    /\ UNCHANGED <<node, tableVars, partners, outbox, content, events, recent, skipped, raced>>

\* os.Remove after the copy; its failure is a warning.
RemoveFile ==
    /\ pc = "remove"
    /\ \/ /\ outbox' = [outbox EXCEPT ![file] = NoFile]
          /\ Gone /\ UNCHANGED faults
       \/ Disturb /\ UNCHANGED <<outbox, skipped, unheard>>
    /\ Idle
    /\ UNCHANGED <<node, tableVars, partners, archive, content, events, recent, raced>>
-----------------------------------------------------------------------------
(***************************************************************************)
(* The process.  Stop closes the watcher, which drops its events; what the *)
(* goroutine is doing goes on until the process ends.                      *)
(***************************************************************************)
NothingHeard == events' = <<>> /\ unheard' = unheard \cup {f \in Names : Present(f)}

Shutdown ==
    /\ BeginShutdown /\ NothingHeard
    /\ UNCHANGED <<outbox, archive, content, recent, loopVars, skipped, raced>>

Halt ==
    /\ Exit /\ NothingHeard
    /\ recent' = {} /\ Idle
    /\ UNCHANGED <<outbox, archive, content, skipped, raced>>

Restart == Boot /\ UNCHANGED folderVars
-----------------------------------------------------------------------------
Erp ==
    \/ \E f \in Names, d \in Documents, whole \in BOOLEAN :
            Appear(f, d, whole) \/ Overwrite(f, d, whole)
    \/ \E f \in Names : Finish(f) \/ Touch(f)

Loop ==
    \/ Debounce \/ TakeEvent \/ Read \/ InsertRow \/ MoveFile \/ MoveFails
    \/ RemoveFile \/ \E f \in Names : WindowCloses(f)

Next == Erp \/ Loop \/ Shutdown \/ Halt \/ Restart

Spec == Init /\ [][Next]_vars
-----------------------------------------------------------------------------
TypeOK ==
    /\ StoreTypeOK
    /\ outbox \in [Names -> File] /\ archive \in [Ids -> File]
    /\ content \in [Ids -> Documents \cup {Nothing}]
    /\ events \in Seq(Names) /\ recent \subseteq Names /\ skipped \subseteq Names
    /\ unheard \subseteq Names
    /\ raced \subseteq Documents
    /\ pc \in {"idle", "read", "insert", "move", "remove"}
    /\ file \in Names /\ copy \in File /\ key \in Ids \cup {NoId}

\* Whatever fails or dies between the insert and the rename, a document leaves
\* the outbox only when a row holds it and the row's archive file holds the same
\* document, whole.  The exception is a document saved over a file that is being
\* processed: it is archived in the other's name and never sent.
ArchivedIsQueued ==
    \A id \in Ids : archive[id] # NoFile /\ archive[id].doc \notin raced =>
        /\ Stored(rows, id)
        /\ content[id] = archive[id].doc /\ archive[id].whole

\* A document is queued, under different uuids, at most once plus once for every
\* disturbance: a second event of a file, or a file name used again, does not
\* send a document twice.
Copies(d) == {id \in Ids : content[id] = d}

QueuedOncePerDisturbance ==
    \A d \in Documents : Cardinality(Copies(d)) <= 1 + faults

\* When the watcher is at rest, a whole file stays in the outbox for one of three
\* reasons only: its last event was debounced, it was there or came while no watcher
\* listened (Start does not look at the folder), or its processing failed.  No other
\* interleaving of writes with the sleep, the read and the rename loses a file.
AtRest == node = "up" /\ pc = "idle" /\ events = <<>>

OnlySkippedFilesStay ==
    AtRest => \A f \in Names : outbox[f].whole => f \in skipped \cup unheard

(***************************************************************************)
(* memory-bank/02_productContext.md:136-138: a JSON file saved in the      *)
(* outbox "is automatically detected and processed".  A file completed     *)
(* less than 500ms after its first event is not: fs_worker.go:97-99.       *)
(***************************************************************************)
CompleteFilesAreProcessed ==
    AtRest /\ faults = 0 => \A f \in Names : ~outbox[f].whole
=============================================================================
