------------------------------ MODULE Tenancy ------------------------------
(***************************************************************************)
(* A workspace as a whole: it is deleted, after a window in which that can *)
(* be called off, by a purge in stages (requestWorkspaceDeletion to        *)
(* runPurgeStage in src/cloudflare/workspace.ts,                           *)
(* src/domain/tenant-lifecycle.ts); and it is exported in chunks and       *)
(* restored into a replacement (beginExport to restoreFromExport,          *)
(* src/domain/tenant-export.ts).  Of the content there are rooms, messages *)
(* and files; of the people, who is an owner.                              *)
(***************************************************************************)
EXTENDS Storage

CONSTANTS
    PurgeCalls,         \* calls of purgeWorkspace at one time
    Collectors          \* requests of the client that collects an export, at one time

(* Bounds on deletions that are asked for, on calls of the purge, on        *)
(* requests for chunks and on restores.                                     *)
ASSUME TenancyAssumption ==
    \A sc \in Scenarios : /\ sc.tenant.deletions \in Nat /\ sc.tenant.purges \in Nat
                          /\ sc.tenant.chunks \in Nat /\ sc.tenant.restores \in Nat

VARIABLES
    done,               \* purge_stages
    purging,            \* what each call of the purge waits for
    asIs,               \* history: the content when the deletion was asked for
    told,               \* history: the receipts that callers were given
    together,           \* history: two calls of the purge were under way at one time
    run,                \* export_runs, the one there is
    recorded,           \* export_chunks
    collecting,         \* what each request of the collector holds
    copy,               \* the chunks the collector keeps (external)
    snapshot,           \* history: the lines there were when the export began
    doubled,            \* history: chunks that two requests read before one was recorded
    replacement         \* the workspace that is restored into

purgeVars == <<done, purging, asIs, told, together>>
exportVars == <<run, recorded, collecting, copy, snapshot, doubled, replacement>>
tenancyVars == <<purgeVars, exportVars>>

Stages == <<"attachments", "content", "vault", "audit", "scheduler", "control_rows", "routing">>
Window == 1

NoPurge == [pc |-> "idle", keys |-> {}, at |-> 0]
NoRun == [open |-> FALSE, steady |-> FALSE, expires |-> 0, manifest |-> {}]
NoRequest == [pc |-> "idle", chunk |-> None, body |-> {}]
Nowhere == [made |-> FALSE, epoch |-> 1, lines |-> {}]

Owner(p) == Enters(p) /\ OwnerIn(local, p)

(* The files: this module moves only rows and what the bucket holds.        *)
FilesAside == UNCHANGED <<transfers, sweep, blemished, overdue, peak>>
RowsStay == UNCHANGED roomVars /\ UNCHANGED <<files, objects, stranded>>

-----------------------------------------------------------------------------
(* Deleting.  The name typed out and the gesture are left out, and only an  *)
(* owner gets this far.                                                     *)
RequestWorkspaceDeletion(p) ==
    /\ Within("deletions")
    /\ Owner(p)
    /\ deletion' = [on |-> TRUE, after |-> clock + Window, started |-> FALSE, receipt |-> 0]
    /\ asIs' = content
    /\ FilesAside /\ RowsStay
    /\ UNCHANGED <<done, purging, told, together, exportVars>>

(* Faulty variant: a deletion can be called off although its purge has begun. *)
CancelAnyDeletion(p) ==
    /\ Free
    /\ deletion.on /\ OwnerIn(local, p)
    /\ deletion' = NoDeletion
    /\ FilesAside /\ RowsStay /\ UNCHANGED tenancyVars

(* Who may not enter any more can still call it off, until the purge begins.*)
CancelWorkspaceDeletion(p) ==
    /\ Free
    /\ deletion.on /\ ~deletion.started
    /\ OwnerIn(local, p)
    /\ deletion' = NoDeletion
    /\ FilesAside /\ RowsStay /\ UNCHANGED tenancyVars

(* nextPurgeStage *)
Undone == {k \in DOMAIN Stages : Stages[k] \notin done}
NextStage == IF Undone = {} THEN "none" ELSE Stages[CHOOSE k \in Undone : \A o \in Undone : k <= o]

(* runPurgeStage deletes whole tables: what members wrote and what they     *)
(* kept of it, in the stage of the content.                                 *)
EmptyRooms ==
    /\ rooms' = [r \in Rooms |-> NoRoom] /\ inRoom' = [r \in Rooms |-> {}]
    /\ posts' = <<>> /\ notices' = {}
    /\ prefs' = [p \in People |-> [quiet |-> FALSE, keyword |-> FALSE]]
    /\ levels' = [r \in Rooms |-> [p \in People |-> "mentions"]]
    /\ subscribed' = {} /\ saved' = {} /\ pins' = {} /\ reactions' = {}
    /\ read' = [rooms |-> [r \in Rooms |-> [p \in People |-> 0]], threads |-> <<>>]
    /\ drafts' = [r \in Rooms |-> NoDraft]
    /\ UNCHANGED <<screens, texts, cleared, demoted, start>>

(* And the copies an export made, in the stage of the scheduler.  No other  *)
(* stage has rows here; once that of the control rows is done there are no  *)
(* members, and nobody has asked for them since the deletion.               *)
RunStage(stage) ==
    /\ IF stage = "content" THEN EmptyRooms ELSE UNCHANGED roomVars
    /\ IF stage = "scheduler" THEN recorded' = <<>> /\ run' = NoRun ELSE UNCHANGED <<recorded, run>>
    /\ done' = done \cup ({stage} \ {"none"})

(* purgeWorkspace, once the window is over or is skipped: a call runs one   *)
(* stage.  That of the attachments waits for the bucket.                    *)
BeginPurge(c, skipped) ==
    LET stage == NextStage
    IN  /\ Within("purges")
        /\ purging[c].pc = "idle"
        /\ deletion.on /\ deletion.receipt = 0
        /\ clock >= deletion.after \/ skipped
        /\ deletion' = [deletion EXCEPT !.started = TRUE]
        /\ together' = (together \/ \E other \in PurgeCalls : purging[other].pc # "idle")
        /\ IF stage = "attachments"
           THEN /\ purging' = [purging EXCEPT ![c] =
                      [pc |-> "deleting", keys |-> {f \in Files : files[f].state # "none"}, at |-> clock]]
                /\ UNCHANGED <<roomVars, recorded, run, done>>
           ELSE /\ RunStage(stage)
                /\ purging' = [purging EXCEPT ![c] =
                      IF stage \in {"routing", "none"} THEN [pc |-> "sealing", keys |-> {}, at |-> clock]
                      ELSE NoPurge]
        /\ FilesAside /\ UNCHANGED <<files, objects, stranded, asIs, told>>
        /\ UNCHANGED <<collecting, copy, snapshot, doubled, replacement>>

(* The bucket has answered, or failed, which reclaimObjects only counts:    *)
(* either way the rows of the files go.                                     *)
PurgeAttachments(c, removed) ==
    LET call == purging[c]
    IN  /\ call.pc = "deleting"
        /\ IF removed THEN Free ELSE Within("faults")
        /\ objects' = IF removed THEN objects \ call.keys ELSE objects
        /\ stranded' = IF removed THEN stranded ELSE stranded \cup call.keys
        /\ files' = [f \in Files |-> NoFile]
        /\ done' = done \cup {"attachments"}
        /\ purging' = [purging EXCEPT ![c] = NoPurge]
        /\ FilesAside /\ UNCHANGED <<roomVars, deletion, asIs, told, together, exportVars>>

(* The receipt's digest is there: it is stored and handed out.              *)
SealPurge(c) ==
    /\ Free
    /\ purging[c].pc = "sealing"
    /\ deletion' = [deletion EXCEPT !.receipt = purging[c].at]
    /\ told' = told \cup {purging[c].at}
    /\ purging' = [purging EXCEPT ![c] = NoPurge]
    /\ FilesAside /\ RowsStay /\ UNCHANGED <<done, asIs, together, exportVars>>

(* A later call is given the receipt that is stored. *)
ReadReceipt ==
    /\ Free
    /\ deletion.receipt # 0
    /\ told' = told \cup {deletion.receipt}
    /\ FilesAside /\ RowsStay /\ UNCHANGED <<deletion, done, purging, asIs, together, exportVars>>

(* The object restarts while a call waits; a delete may have reached the    *)
(* bucket before.                                                           *)
LosePurge(c, removed) ==
    /\ Within("faults")
    /\ purging[c].pc # "idle"
    /\ objects' = IF removed THEN objects \ purging[c].keys ELSE objects
    /\ purging' = [purging EXCEPT ![c] = NoPurge]
    /\ FilesAside
    /\ UNCHANGED <<roomVars, files, stranded, deletion, done, asIs, told, together, exportVars>>

-----------------------------------------------------------------------------
(* Exporting.  A chunk is the rooms, or one message, of which a request     *)
(* names the offset; a line is a room, or a message with its room and root. *)
Chunks == {[table |-> "channels", offset |-> 0]}
          \cup [table : {"messages"}, offset : 0 .. start.posts - 1]
Line(room, post, root, deleted) == [room |-> room, post |-> post, root |-> root, deleted |-> deleted]
Rows(x) ==
    IF x.table = "channels" THEN {Line(r, 0, 0, FALSE) : r \in {r \in Rooms : rooms[r].made}}
    ELSE {Line(posts[m].room, m, posts[m].root, posts[m].deleted) : m \in {x.offset + 1} \cap Posts}
LinesOf(bodies) == UNION {bodies[x] : x \in DOMAIN bodies}
Everything == LinesOf([x \in Chunks |-> Rows(x)])

(* What concerns an export leaves the rest as it is. *)
ExportAside == /\ UNCHANGED <<deletion, purgeVars>>
               /\ FilesAside /\ RowsStay

BeginExport(p) ==
    /\ Free
    /\ Owner(p) /\ ~run.open /\ run.expires = 0
    /\ run' = [open |-> TRUE, steady |-> TRUE, expires |-> clock + 1, manifest |-> {}]
    /\ snapshot' = Everything
    /\ ExportAside /\ UNCHANGED <<recorded, collecting, copy, doubled, replacement>>

(* requireExportRun *)
Running == run.open /\ run.expires > clock

Keep(x, body) == [y \in DOMAIN copy \cup {x} |-> IF y = x THEN body ELSE copy[y]]

(* Faulty variant: a chunk is serialised again, also when it was recorded. *)
ExportChunkAgain(k, p, x) ==
    /\ Within("chunks")
    /\ Owner(p) /\ Running
    /\ collecting[k].pc = "idle"
    /\ IF x \in DOMAIN recorded
       THEN copy' = Keep(x, Rows(x)) /\ UNCHANGED <<collecting, doubled>>
       ELSE /\ collecting' = [collecting EXCEPT ![k] = [pc |-> "holding", chunk |-> x, body |-> Rows(x)]]
            /\ doubled' = IF \E other \in Collectors : collecting[other].chunk = x
                          THEN doubled \cup {x} ELSE doubled
            /\ UNCHANGED copy
    /\ ExportAside /\ UNCHANGED <<run, recorded, snapshot, replacement>>

(* A chunk that was recorded is returned as it is; another one is read, and *)
(* the collector sends it back to be recorded.                              *)
ExportChunk(k, p, x) ==
    /\ Within("chunks")
    /\ Owner(p) /\ Running
    /\ collecting[k].pc = "idle"
    /\ IF x \in DOMAIN recorded
       THEN copy' = Keep(x, recorded[x]) /\ UNCHANGED <<collecting, doubled>>
       ELSE /\ collecting' = [collecting EXCEPT ![k] = [pc |-> "holding", chunk |-> x, body |-> Rows(x)]]
            /\ doubled' = IF \E other \in Collectors : collecting[other].chunk = x
                          THEN doubled \cup {x} ELSE doubled
            /\ UNCHANGED copy
    /\ ExportAside /\ UNCHANGED <<run, recorded, snapshot, replacement>>

BeginRecording(k, p) ==
    /\ Free
    /\ Owner(p) /\ Running
    /\ collecting[k].pc = "holding"
    /\ collecting' = [collecting EXCEPT ![k].pc = "hashing"]
    /\ ExportAside /\ UNCHANGED <<run, recorded, copy, snapshot, doubled, replacement>>

(* recordExportChunk, when the digest is there: the first one stays, and    *)
(* none goes in without its run, which may have been swept.  The collector  *)
(* keeps what it sent.                                                      *)
RecordExportChunk(k) ==
    LET x == collecting[k].chunk
        body == collecting[k].body
    IN  /\ Free
        /\ collecting[k].pc = "hashing"
        /\ IF run.open
           THEN /\ recorded' = [y \in DOMAIN recorded \cup {x} |->
                                   IF y \in DOMAIN recorded THEN recorded[y] ELSE body]
                /\ copy' = Keep(x, body)
           ELSE UNCHANGED <<recorded, copy>>
        /\ collecting' = [collecting EXCEPT ![k] = NoRequest]
        /\ ExportAside /\ UNCHANGED <<run, snapshot, doubled, replacement>>

(* The collector goes away with what it holds, and asks again. *)
LoseChunk(k) ==
    /\ Within("faults")
    /\ collecting[k].pc # "idle"
    /\ collecting' = [collecting EXCEPT ![k] = NoRequest]
    /\ ExportAside /\ UNCHANGED <<run, recorded, copy, snapshot, doubled, replacement>>

(* finishExport: its hash covers what is recorded.  A collector asks for it *)
(* when it has every chunk.                                                 *)
FinishExport(p) ==
    /\ Free
    /\ Owner(p) /\ Running
    /\ DOMAIN copy = Chunks /\ run.manifest = {}
    /\ run' = [run EXCEPT !.manifest = DOMAIN recorded]
    /\ ExportAside /\ UNCHANGED <<recorded, collecting, copy, snapshot, doubled, replacement>>

(* The collector keeps the manifest it was given. *)
SweepExpiredExports ==
    /\ Free
    /\ run.open /\ run.expires <= clock
    /\ run' = [run EXCEPT !.open = FALSE]
    /\ recorded' = <<>>
    /\ ExportAside /\ UNCHANGED <<collecting, copy, snapshot, doubled, replacement>>

(* restoreFromExport: into an object without members, the lines of the      *)
(* chunks the manifest names, parents first; a line whose room or root is   *)
(* not there fails it as a whole.                                           *)
RestoreFromExport ==
    LET lines == LinesOf(copy)
        whole == \A line \in lines : line.post # 0 =>
                    /\ \E room \in lines : room.post = 0 /\ room.room = line.room
                    /\ line.root # 0 => \E root \in lines : root.post = line.root
    IN  /\ Within("restores")
        /\ run.manifest # {}
        /\ ~replacement.made
        /\ replacement' = IF whole
              THEN [made |-> TRUE, epoch |-> replacement.epoch + 1, lines |-> lines] ELSE replacement
        /\ ExportAside /\ UNCHANGED <<run, recorded, collecting, copy, snapshot, doubled>>

-----------------------------------------------------------------------------
TenancyInit ==
    /\ done = {} /\ purging = [c \in PurgeCalls |-> NoPurge]
    /\ asIs = content /\ told = {} /\ together = FALSE
    /\ run = NoRun /\ recorded = <<>> /\ collecting = [k \in Collectors |-> NoRequest]
    /\ copy = <<>> /\ snapshot = {} /\ doubled = {} /\ replacement = Nowhere

DeletionStep ==
    \/ \E p \in People : RequestWorkspaceDeletion(p) \/ CancelWorkspaceDeletion(p)
    \/ ReadReceipt
    \/ \E c \in PurgeCalls, flag \in BOOLEAN :
          BeginPurge(c, flag) \/ PurgeAttachments(c, flag) \/ LosePurge(c, flag)
    \/ \E c \in PurgeCalls : SealPurge(c)

ExportStep ==
    \/ \E p \in People :
          \/ BeginExport(p) \/ FinishExport(p)
          \/ \E k \in Collectors : BeginRecording(k, p) \/ \E x \in Chunks : ExportChunk(k, p, x)
    \/ \E k \in Collectors : RecordExportChunk(k) \/ LoseChunk(k)
    \/ SweepExpiredExports \/ RestoreFromExport

(* What members write meanwhile, as long as they get in. *)
WritingStep ==
    /\ \/ Has({"send"}) /\ SendStep
       \/ Has({"rooms"}) /\ RoomStep
    /\ ~deletion.on
    /\ run' = [run EXCEPT !.steady = @ /\ (run.manifest # {} \/ Everything' = Everything)]
    /\ UNCHANGED <<billingVars, storageVars, purgeVars>>
    /\ UNCHANGED <<recorded, collecting, copy, snapshot, doubled, replacement>>

-----------------------------------------------------------------------------
(* Properties. *)

(* However calls overlap, wait, fail and are repeated: until its purge      *)
(* begins a deletion has lost nothing that members wrote, and a workspace   *)
(* whose deletion was called off has not begun to be purged; one with a     *)
(* receipt holds nothing any more, not even in the bucket, except what a    *)
(* failed delete or a lost request left there; the receipts that callers    *)
(* were given are the one that is stored, if no two calls overlapped        *)
(* (requestWorkspaceDeletion, cancelWorkspaceDeletion, purgeWorkspace).     *)
(* A collector has the bytes that were recorded, unless two of its requests *)
(* read the chunk before one was recorded; a replacement holds no message   *)
(* without its room and its root, and, if nobody wrote during the export,   *)
(* it holds what there was (exportChunk, restoreFromExport).                *)
TenancyHolds ==
    /\ IF deletion.started THEN deletion.on ELSE done = {} /\ (deletion.on => content = asIs)
    /\ deletion.receipt # 0 =>
          /\ posts = <<>> /\ notices = {} /\ recorded = <<>>
          /\ \A r \in Rooms : ~rooms[r].made /\ inRoom[r] = {}
          /\ \A f \in Files : files[f].state = "none" /\ (f \in objects \ stranded => UnderWay(f))
    /\ ~together => told \subseteq {deletion.receipt}
    /\ \A x \in DOMAIN copy \cap DOMAIN recorded : copy[x] = recorded[x] \/ x \in doubled
    /\ replacement.made =>
          /\ \A line \in replacement.lines : line.post # 0 =>
                /\ Line(line.room, 0, 0, FALSE) \in replacement.lines
                /\ line.root # 0 => \E root \in replacement.lines :
                                       root.post = line.root /\ root.room = line.room
          /\ run.steady => replacement.lines = snapshot
=============================================================================
