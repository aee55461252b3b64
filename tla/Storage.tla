------------------------------ MODULE Storage ------------------------------
(***************************************************************************)
(* Files: an upload is reserved against the allowance, a Worker moves the  *)
(* bytes into the bucket and has the object confirm them, a file joins a   *)
(* message, and what is deleted or was never completed is reclaimed by a   *)
(* sweep (reserveUpload to sweepAbandonedUploads and reclaimStorage in     *)
(* src/cloudflare/workspace.ts, src/cloudflare/file-gateway.ts).  The      *)
(* bucket is external.  A file is one unit of the allowance.               *)
(***************************************************************************)
EXTENDS Rooms, Billing

CONSTANTS
    Files,
    Transfers           \* PUT requests at one time

(* Bounds on uploads that are reserved, on transfers and on sweeps.         *)
ASSUME StorageAssumption ==
    \A sc \in Scenarios : /\ sc.tenant.uploads \in Nat /\ sc.tenant.transfers \in Nat
                          /\ sc.tenant.sweeps \in Nat

VARIABLES
    files,              \* files
    objects,            \* what the bucket holds (external)
    transfers,          \* what each PUT request has read and done
    sweep,              \* the keys a sweep is deleting
    deletion,           \* workspace_deletion, which module Tenancy writes
    blemished,          \* history: files moved twice, or confirmed by an answer that was lost
    stranded,           \* history: objects a lost request or a failed delete left
    overdue,            \* history: files confirmed in time, when their time had passed
    peak                \* history: the largest allowance there was

storageVars == <<files, objects, transfers, sweep, deletion, blemished, stranded, overdue, peak>>

Ttl == 1
NoFile == [state |-> "none", by |-> None, room |-> None, post |-> 0, expires |-> 0, gone |-> FALSE]
NoTransfer == [pc |-> "idle", file |-> None, by |-> None, at |-> 0]
NoSweep == [pc |-> "idle", keys |-> {}]
NoDeletion == [on |-> FALSE, after |-> 0, started |-> FALSE, receipt |-> 0]

(* authorizeActor: nobody gets into a workspace that is being deleted.      *)
Enters(p) == Acts(p) /\ ~deletion.on

(* readStorageStatus: a reservation counts until it expires. *)
Uses(f) == files[f].state = "stored" \/ (files[f].state = "reserved" /\ files[f].expires > clock)
InUse == {f \in Files : Uses(f)}

(* What concerns files leaves the rest as it is, but for the bounds.        *)
Within(what) ==
    /\ Spend(what)
    /\ UNCHANGED <<clock, events, subscription, receipts, accepting, allowance, projecting,
                   changes, buying, disordered, projected>>
Free == UNCHANGED billingVars

-----------------------------------------------------------------------------
(* Uploads.  The reservation of a member of the room, if the file still     *)
(* fits; the request has projected the allowance before (module Billing).   *)
ReserveUpload(p, f, r) ==
    /\ Within("uploads")
    /\ Enters(p) /\ Sees(p, r) /\ p \in inRoom[r]
    /\ files[f].state = "none"
    /\ Cardinality(InUse) + 1 <= allowance.quota
    /\ files' = [files EXCEPT ![f] = [NoFile EXCEPT !.state = "reserved", !.by = p, !.room = r,
                                                    !.expires = clock + Ttl]]
    /\ UNCHANGED <<objects, transfers, sweep, deletion, blemished, stranded, overdue, peak>>

(* beginTransfer: only a read. *)
StartTransfer(u, p, f) ==
    /\ Within("transfers")
    /\ transfers[u].pc = "idle"
    /\ Enters(p) /\ files[f].state = "reserved" /\ files[f].by = p /\ files[f].expires > clock
    /\ transfers' = [transfers EXCEPT ![u] = [pc |-> "moving", file |-> f, by |-> p, at |-> 0]]
    /\ blemished' = IF \E other \in Transfers : transfers[other].file = f
                    THEN blemished \cup {f} ELSE blemished
    /\ UNCHANGED <<files, objects, sweep, deletion, stranded, overdue, peak>>

(* The bytes are in the bucket; a body that was not as long as it said does *)
(* not stay, and the Worker asks for the others with the time it has then.  *)
Moved(u, asLongAsItSaid) ==
    /\ Free
    /\ transfers[u].pc = "moving"
    /\ objects' = objects \cup {transfers[u].file}
    /\ transfers' = [transfers EXCEPT ![u].pc = IF asLongAsItSaid THEN "confirming" ELSE "removing",
                                      ![u].at = clock]
    /\ UNCHANGED <<files, sweep, deletion, blemished, stranded, overdue, peak>>

Answered(u, accepted) ==
    transfers' = IF accepted THEN [transfers EXCEPT ![u] = NoTransfer]
                 ELSE [transfers EXCEPT ![u].pc = "removing"]

(* Faulty variant: only the uploader is compared, not the file's state. *)
ConfirmUploadAnyState(u, heard) ==
    LET f == transfers[u].file
        accepted == Enters(transfers[u].by)
    IN  /\ transfers[u].pc = "confirming"
        /\ IF heard THEN Free ELSE Within("faults")
        /\ files' = IF accepted THEN [files EXCEPT ![f].state = "stored", ![f].expires = 0] ELSE files
        /\ Answered(u, accepted /\ heard)
        /\ blemished' = IF heard THEN blemished ELSE blemished \cup {f}
        /\ overdue' = IF accepted /\ ~Uses(f) THEN overdue \cup {f} ELSE overdue
        /\ UNCHANGED <<objects, sweep, deletion, stranded, peak>>

(* confirmUpload: a reservation becomes a file that is stored, if it had    *)
(* not expired when it was asked; a file that is stored stays so.  The      *)
(* Worker may not hear the answer.                                          *)
ConfirmUpload(u, heard) ==
    LET f == transfers[u].file
        accepted == /\ Enters(transfers[u].by)
                    /\ \/ files[f].state = "stored"
                       \/ files[f].state = "reserved" /\ files[f].expires > transfers[u].at
    IN  /\ transfers[u].pc = "confirming"
        /\ IF heard THEN Free ELSE Within("faults")
        /\ files' = IF accepted THEN [files EXCEPT ![f].state = "stored", ![f].expires = 0] ELSE files
        /\ Answered(u, accepted /\ heard)
        /\ blemished' = IF heard THEN blemished ELSE blemished \cup {f}
        /\ overdue' = IF accepted /\ ~Uses(f) THEN overdue \cup {f} ELSE overdue
        /\ UNCHANGED <<objects, sweep, deletion, stranded, peak>>

(* The bytes of an upload that was refused do not get to stay. *)
RemoveRefused(u) ==
    /\ Free
    /\ transfers[u].pc = "removing"
    /\ objects' = objects \ {transfers[u].file}
    /\ transfers' = [transfers EXCEPT ![u] = NoTransfer]
    /\ UNCHANGED <<files, sweep, deletion, blemished, stranded, overdue, peak>>

(* The Worker, or the browser that waits for it, goes away. *)
LoseTransfer(u) ==
    /\ Within("faults")
    /\ transfers[u].pc # "idle"
    /\ transfers' = [transfers EXCEPT ![u] = NoTransfer]
    /\ stranded' = stranded \cup {transfers[u].file}
    /\ UNCHANGED <<files, objects, sweep, deletion, blemished, overdue, peak>>

(* attachFilesToMessage *)
AttachFile(p, f, m) ==
    /\ Free
    /\ Enters(p) /\ posts[m].author = p
    /\ files[f].state = "stored" /\ files[f].by = p
    /\ files[f].room = posts[m].room /\ files[f].post = 0
    /\ files' = [files EXCEPT ![f].post = m]
    /\ UNCHANGED <<objects, transfers, sweep, deletion, blemished, stranded, overdue, peak>>

(* authorizeDownload and deleteFile: who sees the room, and may read the    *)
(* item the file hangs on.                                                  *)
Reaches(p, f) ==
    /\ Enters(p) /\ Sees(p, files[f].room)
    /\ files[f].post # 0 => MayRead(p, files[f].post)

DeleteFile(p, f) ==
    /\ Free
    /\ files[f].state \in {"reserved", "stored"} /\ Reaches(p, f)
    /\ files[f].by = p \/ Moderator(p)
    /\ files' = [files EXCEPT ![f].state = "deleted", ![f].expires = 0]
    /\ UNCHANGED <<objects, transfers, sweep, deletion, blemished, stranded, overdue, peak>>

-----------------------------------------------------------------------------
(* reclaimStorage: reservations that expired become deleted files           *)
(* (sweepAbandonedUploads), and the objects of the deleted ones are removed.*)
BeginReclaim ==
    LET abandoned == {f \in Files : files[f].state = "reserved" /\ files[f].expires <= clock}
        swept == [f \in Files |-> IF f \in abandoned
                                  THEN [files[f] EXCEPT !.state = "deleted", !.expires = 0] ELSE files[f]]
    IN  /\ Within("sweeps")
        /\ sweep.pc = "idle"
        /\ files' = swept
        /\ sweep' = [pc |-> "deleting",
                     keys |-> {f \in Files : swept[f].state = "deleted" /\ ~swept[f].gone}]
        /\ UNCHANGED <<objects, transfers, deletion, blemished, stranded, overdue, peak>>

(* The bucket has answered, or failed, which reclaimObjects only counts;    *)
(* either way the rows are marked, and no sweep looks at them again.        *)
EndReclaim(removed) ==
    /\ IF removed THEN Free ELSE Within("faults")
    /\ sweep.pc = "deleting"
    /\ objects' = IF removed THEN objects \ sweep.keys ELSE objects
    /\ stranded' = IF removed THEN stranded ELSE stranded \cup sweep.keys
    /\ files' = [f \in Files |-> IF f \in sweep.keys /\ files[f].state # "none"
                                 THEN [files[f] EXCEPT !.gone = TRUE] ELSE files[f]]
    /\ sweep' = NoSweep
    /\ UNCHANGED <<transfers, deletion, blemished, overdue, peak>>

(* The object restarts while it waits for the bucket: the next sweep finds  *)
(* the same rows.                                                           *)
LoseReclaim(removed) ==
    /\ Within("faults")
    /\ sweep.pc = "deleting"
    /\ objects' = IF removed THEN objects \ sweep.keys ELSE objects
    /\ sweep' = NoSweep
    /\ UNCHANGED <<files, transfers, deletion, blemished, stranded, overdue, peak>>

-----------------------------------------------------------------------------
StorageInit ==
    /\ files = [f \in Files |-> NoFile]
    /\ objects = {} /\ transfers = [u \in Transfers |-> NoTransfer]
    /\ sweep = NoSweep /\ deletion = NoDeletion
    /\ blemished = {} /\ stranded = {} /\ overdue = {} /\ peak = 0

UploadStep ==
    \/ \E p \in People, f \in Files :
          \/ \E r \in Rooms : ReserveUpload(p, f, r)
          \/ \E u \in Transfers : StartTransfer(u, p, f)
          \/ \E m \in Posts : AttachFile(p, f, m)
          \/ DeleteFile(p, f)
    \/ \E u \in Transfers : \/ \E fine \in BOOLEAN : Moved(u, fine) \/ ConfirmUpload(u, fine)
                            \/ RemoveRefused(u) \/ LoseTransfer(u)

ReclaimStep ==
    \/ BeginReclaim
    \/ \E removed \in BOOLEAN : EndReclaim(removed) \/ LoseReclaim(removed)

(* The allowance moves under the files. *)
FundingStep ==
    /\ EventStep \/ AllowanceStep \/ Tick
    /\ peak' = MaxOf(peak, allowance'.quota)
    /\ UNCHANGED <<files, objects, transfers, sweep, deletion, blemished, stranded, overdue>>

-----------------------------------------------------------------------------
(* Properties. *)

UnderWay(f) == \E u \in Transfers : transfers[u].file = f

(* Whatever uploads, deletions, sweeps and lost requests overlap: a file    *)
(* that is stored has its bytes, unless it was moved twice, the Worker did  *)
(* not hear that it was confirmed, or the workspace is being purged; bytes  *)
(* that nobody can reach are on their way out, unless a request was lost or *)
(* the bucket failed; there is never more than the largest allowance there  *)
(* was, whoever reserves at the same time, but for what was confirmed with  *)
(* a time from before it lapsed; and a file hangs on a message of its       *)
(* uploader in its room (confirmUpload, handleFileTransferRequest,          *)
(* reclaimStorage).                                                         *)
StorageHolds ==
    /\ \A f \in Files :
          /\ files[f].state = "stored" /\ ~deletion.started => f \in objects \cup blemished /\ ~files[f].gone
          /\ f \in objects \ stranded => \/ files[f].state \in {"reserved", "stored"}
                                         \/ files[f].state = "deleted" /\ ~files[f].gone
                                         \/ UnderWay(f)
          /\ files[f].post # 0 => LET m == posts[files[f].post]
                                  IN  m.author = files[f].by /\ m.room = files[f].room
    /\ Cardinality(InUse \ overdue) <= peak
=============================================================================
