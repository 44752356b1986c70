---------------------------- MODULE BlobCleanup -----------------------------
(****************************************************************************)
(* backend/store/blob_cleanup_queue.go, backend/syncer/blob_cleanup.go and   *)
(* backend/blob/blob.go: one path of the blob store.  Those who keep the     *)
(* same content (a message fetched again, a sent copy, a remote image) write *)
(* the file, record it in blobs, and refer to that row.  A row nobody refers *)
(* to any more is queued, and the queue deletes its file and its row inside  *)
(* one transaction, which checks the row again under its lock.  The compose  *)
(* path (backend/web/compose.go) takes back what it could not store without  *)
(* the queue.                                                                *)
(*                                                                          *)
(* A step is a transaction, or a part of the one that waits for the disk.    *)
(****************************************************************************)
EXTENDS Integers, FiniteSets

CONSTANTS
    Keepers,     \* who may keep this content: messages, contacts, images
    MaxSaves,    \* bound: times the file is written
    MaxAccidents \* bound: crashes, and statements or deletions that fail

ASSUME BlobsAssumption == {MaxSaves, MaxAccidents} \subseteq Nat

VARIABLES
    file,     \* the path exists on disk
    blob,     \* the row of blobs with this path: its id and created_at; id 0: none
    rowIds,   \* ids given so far
    refersTo, \* of each keeper, the blob its own row refers to, or 0
    keeper,   \* of each keeper: where it is, the id CreateBlob gave it
    queue,    \* blob_cleanup_queue: snapshots of blob rows
    cleaning, \* open transactions of CompleteBlobCleanup
    interrupted, \* auxiliary: a transaction that had deleted the file did not commit
    saves, accidents

rowState  == <<blob, rowIds, refersTo, queue>>
blobsVars == <<file, rowState, keeper, cleaning, interrupted, saves, accidents>>

RowType == [id : Nat, stamp : Nat]

BlobsTypeOK ==
    /\ file \in BOOLEAN /\ interrupted \in BOOLEAN
    /\ blob \in RowType /\ blob.id <= rowIds /\ rowIds \in 0 .. MaxSaves
    /\ refersTo \in [Keepers -> 0 .. rowIds]
    /\ keeper \in [Keepers -> [pc : {"idle", "saved", "recorded", "release", "retract", "unlink"},
                               id : 0 .. rowIds]]
    /\ queue \subseteq RowType
    /\ \A e, f \in queue : e.id = f.id => e = f
    /\ cleaning \subseteq [entry : queue, by : {"row", "path"}, deleted : BOOLEAN]
    /\ \A t, u \in cleaning : t.entry = u.entry => t = u
    /\ saves \in 0 .. MaxSaves /\ accidents \in 0 .. MaxAccidents

NoRow  == [id |-> 0, stamp |-> 0]
AtRest == [pc |-> "idle", id |-> 0]

BlobsInit ==
    /\ file = FALSE /\ blob = NoRow /\ rowIds = 0 /\ interrupted = FALSE
    /\ refersTo = [k \in Keepers |-> 0] /\ keeper = [k \in Keepers |-> AtRest]
    /\ queue = {} /\ cleaning = {} /\ saves = 0 /\ accidents = 0

-----------------------------------------------------------------------------
(* Mutated: the row is not locked while its transaction runs. *)
LockedMutant == FALSE

(* The blob row is locked FOR UPDATE by the transaction that deletes it. *)
Locked == \E t \in cleaning : t.by = "row"

Referenced(id) == \E k \in Keepers : refersTo[k] = id

(* The row is the version that was queued; created_at has a resolution of one *)
(* second, so an upsert may leave it as it was.                               *)
Same(e) == blob = e

(* ON CONFLICT(user_id, blob_id): the snapshot of a blob replaces the last. *)
Queued == {e \in queue : e.id # blob.id} \cup {blob}

InQueue(id) == \E e \in queue : e.id = id

Accident == accidents < MaxAccidents /\ accidents' = accidents + 1
KeeperGoes(k, pc) == keeper' = [keeper EXCEPT ![k].pc = pc]
KeeperRests(k)    == keeper' = [keeper EXCEPT ![k] = AtRest]

-----------------------------------------------------------------------------
(* save: os.WriteFile at a path made of the content's hash. *)
Save(k) ==
    /\ keeper[k].pc = "idle" /\ refersTo[k] = 0
    /\ saves < MaxSaves /\ saves' = saves + 1
    /\ file' = TRUE /\ interrupted' = FALSE /\ KeeperGoes(k, "saved")
    /\ UNCHANGED <<rowState, cleaning, accidents>>

(* CreateBlob: insert, or touch the row that has the path.  When it fails the *)
(* file is left behind, or compose takes it back.                             *)
Record(k) ==
    /\ keeper[k].pc = "saved" /\ ~Locked
    /\ \/ /\ blob.id = 0 /\ rowIds' = rowIds + 1
          /\ blob' = [id |-> rowIds + 1, stamp |-> saves]
       \/ /\ blob.id # 0 /\ UNCHANGED rowIds
          /\ \E stamp \in {blob.stamp, saves} : blob' = [blob EXCEPT !.stamp = stamp]
    /\ keeper' = [keeper EXCEPT ![k].pc = "recorded", ![k].id = blob'.id]
    /\ UNCHANGED <<file, refersTo, queue, cleaning, interrupted, saves, accidents>>

RecordFails(k) ==
    /\ keeper[k].pc = "saved" /\ Accident
    /\ KeeperRests(k) \/ KeeperGoes(k, "retract")
    /\ UNCHANGED <<file, rowState, cleaning, interrupted, saves>>

(* CreateMessage, SetContactIcon, UpsertRemoteImageCache: the foreign key, or  *)
(* the FOR SHARE lock of the last, needs the row to be there still.            *)
Refer(k) ==
    /\ keeper[k].pc = "recorded" /\ ~Locked /\ blob.id = keeper[k].id
    /\ refersTo' = [refersTo EXCEPT ![k] = blob.id] /\ KeeperRests(k)
    /\ UNCHANGED <<file, blob, rowIds, queue, cleaning, interrupted, saves, accidents>>

ReferFails(k) ==
    /\ keeper[k].pc = "recorded"
    /\ \/ ~Locked /\ blob.id # keeper[k].id /\ UNCHANGED accidents
       \/ Accident
    /\ KeeperGoes(k, "release") \/ KeeperGoes(k, "retract")
    /\ UNCHANGED <<file, rowState, cleaning, interrupted, saves>>

(* Retention, expunge or purge drops the keeper's row, then the blob. *)
Drop(k) ==
    /\ keeper[k].pc = "idle" /\ refersTo[k] # 0
    /\ keeper' = [keeper EXCEPT ![k] = [pc |-> "release", id |-> refersTo[k]]]
    /\ refersTo' = [refersTo EXCEPT ![k] = 0]
    /\ UNCHANGED <<file, blob, rowIds, queue, cleaning, interrupted, saves, accidents>>

(* deleteUnreferencedBlob: QueueBlobCleanupIfUnreferenced; the entry is then  *)
(* completed at once, or by a later drain.                                    *)
Release(k) ==
    /\ keeper[k].pc = "release" /\ ~Locked /\ KeeperRests(k)
    /\ queue' = IF blob.id = keeper[k].id /\ ~Referenced(blob.id) THEN Queued ELSE queue
    /\ UNCHANGED <<file, blob, rowIds, refersTo, cleaning, interrupted, saves, accidents>>

-----------------------------------------------------------------------------
(* Mutated: an entry that no longer applies is not removed. *)
CompleteMutant(e) ==
    /\ e \in queue /\ \A t \in cleaning : t.entry # e
    /\ blob.id = e.id /\ Same(e) /\ ~Referenced(e.id) /\ UNCHANGED queue
    /\ cleaning' = cleaning \cup {[entry |-> e, by |-> "row", deleted |-> FALSE]}
    /\ UNCHANGED <<file, blob, rowIds, refersTo, keeper, interrupted, saves, accidents>>

(* CompleteBlobCleanup of an entry: the row is gone and nobody has the path,  *)
(* or the row is the one that was queued and nobody refers to it.  Otherwise  *)
(* the entry is finished and nothing is deleted.                              *)
Complete(e) ==
    /\ e \in queue /\ \A t \in cleaning : t.entry # e
    /\ \/ /\ blob.id = e.id /\ Same(e) /\ ~Referenced(e.id) /\ UNCHANGED queue
          /\ cleaning' = cleaning \cup {[entry |-> e, by |-> "row", deleted |-> FALSE]}
       \/ /\ blob.id = 0 /\ UNCHANGED queue
          /\ cleaning' = cleaning \cup {[entry |-> e, by |-> "path", deleted |-> FALSE]}
       \/ /\ \/ blob.id = e.id /\ (~Same(e) \/ Referenced(e.id))
             \/ blob.id \notin {0, e.id}
          /\ queue' = queue \ {e} /\ UNCHANGED cleaning
    /\ UNCHANGED <<file, blob, rowIds, refersTo, keeper, interrupted, saves, accidents>>

(* deletePath, inside the transaction. *)
DeletePath(t) ==
    /\ t \in cleaning /\ ~t.deleted /\ file' = FALSE
    /\ cleaning' = (cleaning \ {t}) \cup {[t EXCEPT !.deleted = TRUE]}
    /\ UNCHANGED <<rowState, keeper, interrupted, saves, accidents>>

(* The transaction removes the row and the entry. *)
Commit(t) ==
    /\ t \in cleaning /\ t.deleted
    /\ cleaning' = cleaning \ {t} /\ queue' = queue \ {t.entry}
    /\ blob' = IF t.by = "row" THEN NoRow ELSE blob
    /\ UNCHANGED <<file, rowIds, refersTo, keeper, interrupted, saves, accidents>>

(* The deletion or a statement fails, and the transaction is rolled back: the *)
(* row and the entry survive, whether the file does or not.                   *)
Rollback(t) ==
    /\ t \in cleaning /\ Accident
    /\ cleaning' = cleaning \ {t} /\ interrupted' = (interrupted \/ t.deleted)
    /\ UNCHANGED <<file, rowState, keeper, saves>>

-----------------------------------------------------------------------------
(* deleteUnreferencedRawMessage by path, cleanupOrphanedBlob by id: compose    *)
(* deletes the row if nothing refers to it, then, in no transaction, the file. *)
Retract(k) ==
    /\ keeper[k].pc = "retract" /\ ~Locked
    /\ \/ keeper[k].id = 0 /\ blob.id = 0 /\ KeeperGoes(k, "unlink") /\ UNCHANGED blob
       \/ keeper[k].id \notin {0, blob.id} /\ KeeperRests(k) /\ UNCHANGED blob
       \/ /\ blob.id # 0 /\ keeper[k].id \in {0, blob.id} /\ Referenced(blob.id)
          /\ KeeperRests(k) /\ UNCHANGED blob
       \/ /\ blob.id # 0 /\ keeper[k].id \in {0, blob.id} /\ ~Referenced(blob.id)
          /\ KeeperGoes(k, "unlink") /\ blob' = NoRow
    /\ UNCHANGED <<file, rowIds, refersTo, queue, cleaning, interrupted, saves, accidents>>

Unlink(k) ==
    /\ keeper[k].pc = "unlink" /\ file' = FALSE /\ KeeperRests(k)
    /\ UNCHANGED <<rowState, cleaning, interrupted, saves, accidents>>

(* The process stops: what is on disk and committed stays. *)
CrashAll ==
    /\ Accident /\ (cleaning # {} \/ \E k \in Keepers : keeper[k].pc # "idle")
    /\ keeper' = [k \in Keepers |-> AtRest] /\ cleaning' = {}
    /\ interrupted' = (interrupted \/ \E t \in cleaning : t.deleted)
    /\ UNCHANGED <<file, rowState, saves>>

Drains == (\E e \in queue : Complete(e)) \/ (\E t \in cleaning : DeletePath(t) \/ Commit(t))

BlobsNext ==
    \/ \E k \in Keepers :
           \/ Save(k) \/ Record(k) \/ RecordFails(k) \/ Refer(k) \/ ReferFails(k)
           \/ Drop(k) \/ Release(k) \/ Retract(k) \/ Unlink(k)
    \/ \E t \in cleaning : Rollback(t)
    \/ Drains
    \/ CrashAll

BlobsFairness == WF_blobsVars(Drains)
BlobsSpec == BlobsInit /\ [][BlobsNext]_blobsVars /\ BlobsFairness

-----------------------------------------------------------------------------
(* The row of blobs that a message, an attachment, a contact or an image      *)
(* refers to is there; and a transaction that deletes the file by its row     *)
(* holds the very row that was queued, which nobody refers to, from the first *)
(* check to the commit: a reference made meanwhile waits for it, and fails.   *)
ReferencesKept ==
    /\ \A k \in Keepers : refersTo[k] # 0 => blob.id = refersTo[k]
    /\ \A t \in cleaning : t.by = "row" => blob = t.entry /\ ~Referenced(t.entry.id)

(* The file of such a row is there, but for "the only window it cannot close" *)
(* (blob_cleanup_queue.go:148): the transaction that deleted the file stopped *)
(* before its commit.                                                         *)
FilesKept == \A k \in Keepers : refersTo[k] # 0 => file \/ interrupted

(* The queue drains: an entry whose blob was taken up again, replaced or      *)
(* removed by compose is finished too, after any crash or failure.            *)
QueueDrains == queue # {} ~> queue = {}
=============================================================================
