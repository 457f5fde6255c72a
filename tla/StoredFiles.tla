----------------------------- MODULE StoredFiles -----------------------------
(***************************************************************************)
(* The two kinds of files the system keeps beside its database: the        *)
(* workbooks of user exports (user_export_service.py and the artifact      *)
(* store of core/file_storage.py) and uploaded files (file_service.py).    *)
(* No transaction spans the disk and the database, so each operation here  *)
(* is a sequence of steps with an I/O error, a failed commit or the end of *)
(* the process possible between any two.                                   *)
(*                                                                         *)
(* An export started by the assistant owns an artifact directory with a    *)
(* manifest, a payload and, while it is written, a lock file; one started  *)
(* from the console has a file under a random key.  Retention deletes the  *)
(* task of an old export in one transaction and retires its artifact only  *)
(* after that commit, in another one.                                      *)
(***************************************************************************)
EXTENDS FiniteSets, Naturals

CONSTANTS Export,      \* exports asked for
          AiExport,    \* those the assistant executes
          Worker,      \* runs of the retention task
          Upload,      \* uploaded files
          MaxCrashes   \* processes that may end

VARIABLES task,        \* the committed UserExportTask: "none" or "success"
          old,         \* created more than 30 days ago
          settled,     \* every write of the assistant that names it is proved
          manifest,    \* "none", "live" or "retired"
          payload,     \* the file with the workbook is there, complete
          lockfile,    \* writer.lock is there
          job,         \* where the request that exports stands
          reply,       \* a download of this export
          pass,        \* where a retention run stands
          row,         \* row lock on the task: a retention run or "free"
          listed,      \* uploads with a committed sys_file row
          disk,        \* uploads whose file is on disk
          adding,      \* uploads of the open upload request
          removing,    \* uploads of the open deletion
          begun,       \* uploads whose deletion unlinked the file
          viewing,     \* a reader of this upload
          crashes

exportVars == <<task, old, settled, manifest, payload, lockfile, job>>
uploadVars == <<listed, disk, adding, removing, begun, viewing>>
vars == <<exportVars, reply, pass, row, uploadVars, crashes>>

Idle == [at |-> "idle", todo |-> {}, own |-> {}]

Init == /\ task = [e \in Export |-> "none"]
        /\ old = [e \in Export |-> FALSE]
        /\ settled = [e \in Export |-> FALSE]
        /\ manifest = [e \in Export |-> "none"]
        /\ payload = [e \in Export |-> FALSE]
        /\ lockfile = [e \in Export |-> FALSE]
        /\ job = [e \in Export |-> "idle"]
        /\ reply = [e \in Export |-> "none"]
        /\ pass = [w \in Worker |-> Idle]
        /\ row = [e \in Export |-> "free"]
        /\ listed = {} /\ disk = {} /\ adding = {} /\ removing = {} /\ begun = {}
        /\ viewing = [f \in Upload |-> "none"]
        /\ crashes = 0

-----------------------------------------------------------------------------
(* The artifact store.                                                     *)

\* _inspect_artifact: no writer, a live manifest and the bytes it describes.
Inspectable(e) == ~lockfile[e] /\ manifest[e] = "live" /\ payload[e]

\* read: an owned artifact is inspected, a random key is only looked for.
Readable(e) == IF e \in AiExport THEN Inspectable(e) ELSE payload[e]

\* cleanup_resource: files under random keys are never planned for removal.
Cleanable(e) == e \in AiExport /\ Inspectable(e)

-----------------------------------------------------------------------------
(* An export request: everything before its commit is one transaction, so  *)
(* the task it writes is seen by nobody and every failure, the FAILED task *)
(* included, is rolled back with the request.                              *)

\* The proposal of the assistant counts the rows: none or too many end it.
ProposeExport(e) ==
    /\ job[e] = "idle" /\ e \in AiExport
    /\ \E next \in {"proposed", "failed"} : job' = [job EXCEPT ![e] = next]
    /\ UNCHANGED <<task, old, settled, manifest, payload, lockfile,
                   reply, pass, row, uploadVars, crashes>>

\* The task is created and set RUNNING.
CreateTask(e) ==
    /\ job[e] = IF e \in AiExport THEN "proposed" ELSE "idle"
    /\ job' = [job EXCEPT ![e] = "running"]
    /\ UNCHANGED <<task, old, settled, manifest, payload, lockfile,
                   reply, pass, row, uploadVars, crashes>>

\* The named users are not all visible, or there are too many rows.
QueryFails(e) ==
    /\ job[e] = "running"
    /\ job' = [job EXCEPT ![e] = "failed"]
    /\ UNCHANGED <<task, old, settled, manifest, payload, lockfile,
                   reply, pass, row, uploadVars, crashes>>

\* FileStorage.save: a file under a random key; an error may leave a part.
SaveFile(e) ==
    /\ job[e] = "running" /\ e \notin AiExport
    /\ \/ job' = [job EXCEPT ![e] = "stored"]
          /\ payload' = [payload EXCEPT ![e] = TRUE]
       \/ job' = [job EXCEPT ![e] = "failed"] /\ UNCHANGED payload
    /\ UNCHANGED <<task, old, settled, manifest, lockfile,
                   reply, pass, row, uploadVars, crashes>>

\* _artifact_writer: the lock file is created or the write is refused.
OpenWriter(e) ==
    /\ job[e] = "running" /\ e \in AiExport /\ ~lockfile[e]
    /\ lockfile' = [lockfile EXCEPT ![e] = TRUE]
    /\ job' = [job EXCEPT ![e] = "writing"]
    /\ UNCHANGED <<task, old, settled, manifest, payload,
                   reply, pass, row, uploadVars, crashes>>

\* _publish of the manifest; an error after the link leaves it in place.
PublishManifest(e) ==
    /\ job[e] = "writing" /\ manifest[e] = "none"
    /\ \/ manifest' = [manifest EXCEPT ![e] = "live"] /\ UNCHANGED <<job, lockfile>>
       \/ /\ \E m \in {"none", "live"} : manifest' = [manifest EXCEPT ![e] = m]
          /\ job' = [job EXCEPT ![e] = "failed"]
          /\ lockfile' = [lockfile EXCEPT ![e] = FALSE]
    /\ UNCHANGED <<task, old, settled, payload, reply, pass, row, uploadVars, crashes>>

\* _publish of the payload, then the lock file is removed either way.
PublishPayload(e) ==
    /\ job[e] = "writing" /\ manifest[e] = "live"
    /\ \E p \in BOOLEAN, ok \in BOOLEAN :
          /\ ok => p
          /\ payload' = [payload EXCEPT ![e] = p]
          /\ job' = [job EXCEPT ![e] = IF ok THEN "stored" ELSE "failed"]
    /\ lockfile' = [lockfile EXCEPT ![e] = FALSE]
    /\ UNCHANGED <<task, old, settled, manifest, reply, pass, row, uploadVars, crashes>>

\* validate_file_completion: the assistant's completion reads the artifact back.
Verified(e) == Inspectable(e)

\* The task is set SUCCESS, or FAILED when the flush fails.
MarkTask(e) ==
    /\ job[e] = "stored"
    /\ \E next \in {"marked", "failed"} : job' = [job EXCEPT ![e] = next]
    /\ UNCHANGED <<task, old, settled, manifest, payload, lockfile,
                   reply, pass, row, uploadVars, crashes>>

\* The console's request commits, with or without a reply, or is rolled back.
CommitRequest(e) ==
    /\ job[e] = "marked" /\ e \notin AiExport
    /\ \/ /\ task' = [task EXCEPT ![e] = "success"]
          /\ job' = [job EXCEPT ![e] = "done"]
       \/ job' = [job EXCEPT ![e] = "failed"] /\ UNCHANGED task
    /\ UNCHANGED <<old, settled, manifest, payload, lockfile,
                   reply, pass, row, uploadVars, crashes>>

\* The assistant's tool needs a link its user may follow, its completion the
\* verified artifact; one commit keeps the task and the proof of the write.
\* Another unbound file write of the operator may still be unproved.
CompleteExport(e) ==
    /\ job[e] = "marked" /\ e \in AiExport
    /\ \/ /\ Verified(e)
          /\ task' = [task EXCEPT ![e] = "success"]
          /\ \E s \in BOOLEAN : settled' = [settled EXCEPT ![e] = s]
          /\ job' = [job EXCEPT ![e] = "done"]
       \/ job' = [job EXCEPT ![e] = "failed"] /\ UNCHANGED <<task, settled>>
    /\ UNCHANGED <<old, manifest, payload, lockfile,
                   reply, pass, row, uploadVars, crashes>>

\* Thirty days pass.
Age(e) ==
    /\ task[e] = "success" /\ ~old[e]
    /\ old' = [old EXCEPT ![e] = TRUE]
    /\ UNCHANGED <<task, settled, manifest, payload, lockfile, job,
                   reply, pass, row, uploadVars, crashes>>

-----------------------------------------------------------------------------
(* A download selects the task, then reads the file without a lock.        *)

\* The owner asks from the console: the task is there and SUCCESS.
AskDownload(e) ==
    /\ reply[e] = "none" /\ task[e] = "success"
    /\ reply' = [reply EXCEPT ![e] = "selected"]
    /\ UNCHANGED <<exportVars, pass, row, uploadVars, crashes>>

\* The link in the conversation is authorised first and hides the task when
\* the reader may no longer see the result.
AskByLink(e) ==
    /\ reply[e] = "none" /\ e \in AiExport /\ task[e] = "success"
    /\ \E seen \in {"selected", "hidden"} : reply' = [reply EXCEPT ![e] = seen]
    /\ UNCHANGED <<exportVars, pass, row, uploadVars, crashes>>

\* The bytes, or AI_EXPORT_FILE_EXPIRED / AI_ARTIFACT_UNVERIFIED.
AnswerDownload(e) ==
    /\ reply[e] = "selected"
    /\ reply' = [reply EXCEPT ![e] = IF Readable(e) THEN "bytes" ELSE "missing"]
    /\ UNCHANGED <<exportVars, pass, row, uploadVars, crashes>>

-----------------------------------------------------------------------------
(* Retention: clean_expired_export_tasks and cleanup_expired_export_tasks. *)

\* The old tasks whose file can be identified and whose writes are proved.
ScanTasks(w) ==
    /\ pass[w].at = "idle"
    /\ LET found == {e \in Export : task[e] = "success" /\ old[e]
                                     /\ Cleanable(e) /\ settled[e]}
       IN  found # {} /\ pass' = [pass EXCEPT ![w] =
                                     [at |-> "delete", todo |-> found, own |-> {}]]
    /\ UNCHANGED <<exportVars, reply, row, uploadVars, crashes>>

\* Still the row that was planned, with the same file.
StillPlanned(e) == task[e] = "success" /\ old[e] /\ Cleanable(e)

\* Faulty variant: the file goes with the row, before the commit is known.
DeleteTaskWithFile(w, e) ==
    /\ pass[w].at = "delete" /\ e \in pass[w].todo /\ row[e] = "free"
    /\ pass' = [pass EXCEPT ![w].todo = @ \ {e},
                            ![w].own = IF StillPlanned(e) THEN @ \cup {e} ELSE @]
    /\ row' = [row EXCEPT ![e] = w]
    /\ manifest' = [manifest EXCEPT ![e] = IF StillPlanned(e) THEN "retired" ELSE @]
    /\ UNCHANGED <<task, old, settled, payload, lockfile, job, reply, uploadVars, crashes>>

\* lock_cleanup_row, the second check, the delete and stage_cleanup.
DeleteTask(w, e) ==
    /\ pass[w].at = "delete" /\ e \in pass[w].todo /\ row[e] = "free"
    /\ pass' = [pass EXCEPT ![w].todo = @ \ {e},
                            ![w].own = IF StillPlanned(e) THEN @ \cup {e} ELSE @]
    /\ row' = [row EXCEPT ![e] = w]
    /\ UNCHANGED <<exportVars, reply, uploadVars, crashes>>

Released(w) == [e \in Export |-> IF row[e] = w THEN "free" ELSE row[e]]

\* The intentions are taken and the transaction ends.  Only a commit that
\* returned is followed by the removal of the files.
CommitDelete(w) ==
    /\ pass[w].at = "delete" /\ pass[w].todo = {}
    /\ \E done \in BOOLEAN, heard \in BOOLEAN :
          /\ heard => done
          /\ task' = [e \in Export |-> IF done /\ e \in pass[w].own
                                       THEN "none" ELSE task[e]]
          /\ pass' = [pass EXCEPT ![w] =
                IF heard THEN [at |-> "drain", todo |-> pass[w].own, own |-> {}] ELSE Idle]
    /\ row' = Released(w)
    /\ UNCHANGED <<old, settled, manifest, payload, lockfile, job,
                   reply, uploadVars, crashes>>

\* finish_committed_cleanup plans the dependencies again and wants no row;
\* otherwise, or when a writer holds the directory, the file is kept.
OpenCleanup(w, e) ==
    /\ pass[w].at = "drain" /\ e \in pass[w].todo /\ row[e] = "free"
    /\ IF settled[e] /\ task[e] = "none" /\ ~lockfile[e]
       THEN /\ lockfile' = [lockfile EXCEPT ![e] = TRUE]
            /\ pass' = [pass EXCEPT ![w].at = "retire", ![w].own = {e}]
       ELSE pass' = [pass EXCEPT ![w].todo = @ \ {e}] /\ UNCHANGED lockfile
    /\ UNCHANGED <<task, old, settled, manifest, payload, job,
                   reply, row, uploadVars, crashes>>

\* The manifest is replaced by a retired one, which nothing reads again.
RetireManifest(w, e) ==
    /\ pass[w].at = "retire" /\ e \in pass[w].own /\ manifest[e] = "live" /\ payload[e]
    /\ manifest' = [manifest EXCEPT ![e] = "retired"]
    /\ UNCHANGED <<task, old, settled, payload, lockfile, job,
                   reply, pass, row, uploadVars, crashes>>

\* The payload is unlinked, or an error keeps it; the lock file goes.
UnlinkPayload(w, e) ==
    /\ pass[w].at = "retire" /\ e \in pass[w].own
    /\ \/ manifest[e] = "retired" /\ payload' = [payload EXCEPT ![e] = FALSE]
       \/ UNCHANGED payload
    /\ lockfile' = [lockfile EXCEPT ![e] = FALSE]
    /\ pass' = [pass EXCEPT ![w].at = "drain", ![w].todo = @ \ {e}, ![w].own = {}]
    /\ UNCHANGED <<task, old, settled, manifest, job, reply, row, uploadVars, crashes>>

EndPass(w) ==
    /\ pass[w].at = "drain" /\ pass[w].todo = {}
    /\ pass' = [pass EXCEPT ![w] = Idle]
    /\ UNCHANGED <<exportVars, reply, row, uploadVars, crashes>>

-----------------------------------------------------------------------------
(* Uploads: the file is written before the row, and unlinked before it.    *)

\* upload: the next file of the request is checked and written.
WriteUpload(f) ==
    /\ f \notin listed \cup adding \cup disk \cup begun
    /\ disk' = disk \cup {f} /\ adding' = adding \cup {f}
    /\ UNCHANGED <<exportVars, reply, pass, row, listed, removing, begun, viewing, crashes>>

\* A later file of the request has the wrong type, size or content: the
\* request is rolled back, the files it wrote stay.
RefuseUpload ==
    /\ adding # {}
    /\ adding' = {}
    /\ UNCHANGED <<exportVars, reply, pass, row, listed, disk, removing, begun,
                   viewing, crashes>>

\* The request commits its rows.
CommitUpload ==
    /\ adding # {}
    /\ listed' = listed \cup adding /\ adding' = {}
    /\ UNCHANGED <<exportVars, reply, pass, row, disk, removing, begun, viewing, crashes>>

\* delete and batch_delete: every file asked for must be visible.
StartRemoval(F) ==
    /\ removing = {} /\ F # {} /\ F \subseteq listed
    /\ removing' = F
    /\ UNCHANGED <<exportVars, reply, pass, row, listed, disk, adding, begun, viewing, crashes>>

\* _delete_disk_file of one record.
UnlinkUpload(f) ==
    /\ f \in removing \ begun
    /\ disk' = disk \ {f} /\ begun' = begun \cup {f}
    /\ UNCHANGED <<exportVars, reply, pass, row, listed, adding, removing, viewing, crashes>>

\* The rows go together when all files went, or an error keeps all rows.
EndRemoval ==
    /\ removing # {}
    /\ \/ removing \subseteq begun /\ listed' = listed \ removing
       \/ UNCHANGED listed
    /\ removing' = {}
    /\ UNCHANGED <<exportVars, reply, pass, row, disk, adding, begun, viewing, crashes>>

\* read_chat_image: the uploader's own row is selected.
AskImage(f) ==
    /\ viewing[f] = "none" /\ f \in listed
    /\ viewing' = [viewing EXCEPT ![f] = "image"]
    /\ UNCHANGED <<exportVars, reply, pass, row, listed, disk, adding, removing,
                   begun, crashes>>

\* A thread opens the file and decodes it again.
OpenImage(f) ==
    /\ viewing[f] = "image"
    /\ viewing' = [viewing EXCEPT ![f] = IF f \in disk THEN "bytes" ELSE "missing"]
    /\ UNCHANGED <<exportVars, reply, pass, row, listed, disk, adding, removing,
                   begun, crashes>>

\* load_protected_file: row, type and the tenant's policy, which may refuse.
AskAttachment(f) ==
    /\ viewing[f] = "none" /\ f \in listed
    /\ \E next \in {"attachment", "refused"} : viewing' = [viewing EXCEPT ![f] = next]
    /\ UNCHANGED <<exportVars, reply, pass, row, listed, disk, adding, removing,
                   begun, crashes>>

\* The bounded read, then the content check.
ReadAttachment(f) ==
    /\ viewing[f] = "attachment"
    /\ \E good \in {"bytes", "refused"} :
          viewing' = [viewing EXCEPT ![f] = IF f \in disk THEN good ELSE "missing"]
    /\ UNCHANGED <<exportVars, reply, pass, row, listed, disk, adding, removing,
                   begun, crashes>>

-----------------------------------------------------------------------------
\* The process ends: its transactions are rolled back, its lock files stay.
Crash ==
    /\ crashes < MaxCrashes
    /\ crashes' = crashes + 1
    /\ job' = [e \in Export |-> IF job[e] \in {"running", "writing", "stored", "marked"}
                                THEN "failed" ELSE job[e]]
    /\ pass' = [w \in Worker |-> Idle]
    /\ row' = [e \in Export |-> "free"]
    /\ adding' = {} /\ removing' = {}
    /\ UNCHANGED <<task, old, settled, manifest, payload, lockfile,
                   reply, listed, disk, begun, viewing>>

Next == \/ \E e \in Export : \/ ProposeExport(e) \/ CreateTask(e)
                             \/ QueryFails(e) \/ SaveFile(e) \/ MarkTask(e)
                             \/ OpenWriter(e) \/ PublishManifest(e)
                             \/ PublishPayload(e) \/ CommitRequest(e)
                             \/ CompleteExport(e) \/ Age(e)
                             \/ AskDownload(e) \/ AskByLink(e) \/ AnswerDownload(e)
        \/ \E w \in Worker : \/ ScanTasks(w) \/ CommitDelete(w) \/ EndPass(w)
                             \/ \E e \in Export : \/ DeleteTask(w, e)
                                                  \/ OpenCleanup(w, e)
                                                  \/ RetireManifest(w, e)
                                                  \/ UnlinkPayload(w, e)
        \/ \E f \in Upload : \/ WriteUpload(f) \/ UnlinkUpload(f)
                             \/ AskImage(f) \/ OpenImage(f)
                             \/ AskAttachment(f) \/ ReadAttachment(f)
        \/ RefuseUpload \/ CommitUpload \/ EndRemoval
        \/ \E F \in SUBSET Upload : StartRemoval(F)
        \/ Crash

Spec == Init /\ [][Next]_vars

-----------------------------------------------------------------------------
(* Every committed export that is not being removed has its workbook, whole *)
(* and readable, whatever fails or ends half-way, and a download that found *)
(* the task finds the file unless retention removed the task meanwhile; an  *)
(* uploaded file that is listed has its bytes unless a deletion of it       *)
(* already unlinked them (export_users_to_excel, download_export_file,      *)
(* cleanup_expired_export_tasks, finish_committed_cleanup, upload).         *)
RowsHaveFiles ==
    /\ \A e \in Export : task[e] = "success" => Readable(e)
    /\ \A e \in Export : reply[e] = "missing" => task[e] = "none"
    /\ listed \ begun \subseteq disk
    /\ \A f \in Upload : viewing[f] = "missing" => f \in begun
=============================================================================
