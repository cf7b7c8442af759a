-------------------------------- MODULE Files -------------------------------
(***************************************************************************)
(* The stored files of one message (its body and attachments, all in one   *)
(* directory) and the database rows that name them.  A request works under *)
(* the message's row lock until its transaction commits or rolls back; the *)
(* removals it registered (afterCommit, createdFile) come after that, when *)
(* another request may already hold the lock (transaction.go, atomic).     *)
(***************************************************************************)
EXTENDS Naturals, Sequences

CONSTANTS
    Req,         \* requests that can run at the same time (bounds the inputs)
    Nobody,      \* holder of a row lock that is free
    Name,        \* attachment names
    NoName,      \* the name in a request that uploads nothing
    Path,        \* paths in the message's directory
    NoPath,      \* no file
    Candidates,  \* the paths resolveFilePath tries for a name, in order
    BodyPath,    \* paths os.CreateTemp gives a body (bounds the inputs)
    MayFail      \* whether commits are lost, and the process restarts

ASSUME RequestAssumption == Nobody \notin Req /\ NoName \notin Name
ASSUME PathAssumption    == /\ NoPath \notin Path
                            /\ BodyPath \subseteq Path
                            /\ Candidates \in [Name -> Seq(Path \ BodyPath)]
                            /\ MayFail \in BOOLEAN

VARIABLES
    phase,     \* of the message
    body,      \* msg.filepath
    attached,  \* msg_attachment.filepath of each name
    disk,      \* the paths that exist
    lock,      \* the request that holds the message's row lock
    req,       \* the requests running
    replaced,  \* history: paths that a second upload of a name left behind
    refused,   \* history: paths of uploads refused after createdFile
    stopped    \* history: the process stopped, or a commit's answer was lost

vars == <<phase, body, attached, disk, lock, req, replaced, refused, stopped>>

\* file is the file a request wrote; remove are those it is still to remove.
Request == [pc : {"idle", "upload", "save", "after"}, name : Name \cup {NoName},
            file : Path \cup {NoPath}, remove : SUBSET Path]

TypeOK ==
    /\ phase \in {"none", "draft", "sent", "gone"}
    /\ body \in Path \cup {NoPath}
    /\ attached \in [Name -> Path \cup {NoPath}]
    /\ disk \subseteq Path
    /\ lock \in Req \cup {Nobody}
    /\ req \in [Req -> Request]
    /\ replaced \subseteq Path
    /\ refused \subseteq Path
    /\ stopped \in BOOLEAN

Idle == [pc |-> "idle", name |-> NoName, file |-> NoPath, remove |-> {}]

Init ==
    /\ phase = "none"
    /\ body = NoPath
    /\ attached = [n \in Name |-> NoPath]
    /\ disk = {}
    /\ lock = Nobody
    /\ req = [r \in Req |-> Idle]
    /\ replaced = {}
    /\ refused = {}
    /\ stopped = FALSE

Rows == ({body} \cup {attached[n] : n \in Name}) \ {NoPath}

\* Another request can begin: r runs nothing and the row lock is free.
Begins(r) == req[r].pc = "idle" /\ lock = Nobody

\* r, with its transaction over, still has the files in gone to remove.
After(r, gone) ==
    req' = [req EXCEPT ![r] = IF gone = {} THEN Idle
                              ELSE [Idle EXCEPT !.pc = "after", !.remove = gone]]

-----------------------------------------------------------------------------
(***************************************************************************)
(* The body (Create and Update; a reaction's body is saved in the same way)*)
(***************************************************************************)

\* saveMessageData
SaveBody(r, p) ==
    /\ Begins(r)
    /\ phase \in {"none", "draft"}
    /\ p \in BodyPath \ disk
    /\ disk' = disk \cup {p}
    /\ lock' = r
    /\ req' = [req EXCEPT ![r] = [Idle EXCEPT !.pc = "save", !.file = p]]
    /\ UNCHANGED <<phase, body, attached, replaced, refused, stopped>>

\* Mutant of CommitBody: the old body is left where it is.
CommitBodyKeepsOld(r) ==
    /\ req[r].pc = "save"
    /\ body' = req[r].file
    /\ phase' = "draft"
    /\ lock' = Nobody
    /\ After(r, {})
    /\ UNCHANGED <<attached, disk, replaced, refused, stopped>>

CommitBody(r) ==
    /\ req[r].pc = "save"
    /\ body' = req[r].file
    /\ phase' = "draft"
    /\ lock' = Nobody
    /\ After(r, {body} \ {NoPath})
    /\ UNCHANGED <<attached, disk, replaced, refused, stopped>>

RollbackBody(r) ==
    /\ req[r].pc = "save"
    /\ lock' = Nobody
    /\ After(r, {req[r].file})
    /\ UNCHANGED <<phase, body, attached, disk, replaced, refused, stopped>>

-----------------------------------------------------------------------------
(***************************************************************************)
(* Attachments                                                             *)
(***************************************************************************)

\* resolveFilePath, where there is a path left.
FirstFree(n) ==
    LET c    == Candidates[n]
        free == {i \in DOMAIN c : c[i] \notin disk} IN
    IF free = {} THEN NoPath ELSE c[CHOOSE i \in free : \A j \in free : i <= j]

\* Mutant of WriteUpload: that no path is left is not noticed.
WriteUploadAnyway(r, n) ==
    /\ Begins(r)
    /\ phase = "draft"
    /\ disk' = disk \cup {FirstFree(n)}
    /\ lock' = r
    /\ req' = [req EXCEPT ![r] = [Idle EXCEPT !.pc = "upload", !.name = n,
                                              !.file = FirstFree(n)]]
    /\ UNCHANGED <<phase, body, attached, replaced, refused, stopped>>

\* Upload, up to the file being written.
WriteUpload(r, n) ==
    /\ Begins(r)
    /\ phase = "draft"
    /\ FirstFree(n) # NoPath
    /\ disk' = disk \cup {FirstFree(n)}
    /\ lock' = r
    /\ req' = [req EXCEPT ![r] = [Idle EXCEPT !.pc = "upload", !.name = n,
                                              !.file = FirstFree(n)]]
    /\ UNCHANGED <<phase, body, attached, replaced, refused, stopped>>

\* An upload over MaxAttachSize removes its file before it is registered.
OversizedUpload(r) ==
    /\ req[r].pc = "upload"
    /\ disk' = disk \ {req[r].file}
    /\ lock' = Nobody
    /\ After(r, {})
    /\ UNCHANGED <<phase, body, attached, replaced, refused, stopped>>

\* A second upload of a name takes over its row; the first file stays.
CommitUpload(r) ==
    LET q == req[r] IN
    /\ q.pc = "upload"
    /\ attached' = [attached EXCEPT ![q.name] = q.file]
    /\ replaced' = replaced \cup ({attached[q.name]} \ {NoPath})
    /\ lock' = Nobody
    /\ After(r, {})
    /\ UNCHANGED <<phase, body, disk, refused, stopped>>

\* The message would exceed MaxMsgSize, or a statement fails: the file is
\* removed at once, and again by the rollback callback.
RefuseUpload(r) ==
    /\ req[r].pc = "upload"
    /\ disk' = disk \ {req[r].file}
    /\ refused' = refused \cup {req[r].file}
    /\ lock' = Nobody
    /\ After(r, {req[r].file})
    /\ UNCHANGED <<phase, body, attached, replaced, stopped>>

\* Mutant of DeleteAttachment: the file is removed before the commit.
DeleteAttachmentEarly(r, n) ==
    /\ Begins(r)
    /\ phase = "draft"
    /\ attached[n] # NoPath
    /\ disk' = disk \ {attached[n]}
    /\ attached' \in {[attached EXCEPT ![n] = NoPath], attached}
    /\ UNCHANGED <<phase, body, lock, req, replaced, refused, stopped>>

DeleteAttachment(r, n) ==
    /\ Begins(r)
    /\ phase = "draft"
    /\ attached[n] # NoPath
    /\ attached' = [attached EXCEPT ![n] = NoPath]
    /\ After(r, {attached[n]})
    /\ UNCHANGED <<phase, body, disk, lock, replaced, refused, stopped>>

-----------------------------------------------------------------------------
(***************************************************************************)
(* The message as a whole                                                  *)
(***************************************************************************)

Send(r) ==
    /\ Begins(r)
    /\ phase = "draft"
    /\ phase' = "sent"
    /\ UNCHANGED <<body, attached, disk, lock, req, replaced, refused, stopped>>

\* A draft is deleted, or a sent message nobody holds is removed.
DeleteMessage(r) ==
    /\ Begins(r)
    /\ phase \in {"draft", "sent"}
    /\ phase' = "gone"
    /\ body' = NoPath
    /\ attached' = [n \in Name |-> NoPath]
    /\ After(r, Rows)
    /\ UNCHANGED <<disk, lock, replaced, refused, stopped>>

-----------------------------------------------------------------------------
(***************************************************************************)
(* After the transaction                                                   *)
(***************************************************************************)

RemoveFile(r, p) ==
    /\ p \in req[r].remove
    /\ disk' = disk \ {p}
    /\ After(r, req[r].remove \ {p})
    /\ UNCHANGED <<phase, body, attached, lock, replaced, refused, stopped>>

\* The acknowledgement of a commit is lost: no callback runs, whether the
\* transaction was committed or not.
LoseCommit(r) ==
    LET q == req[r] IN
    /\ MayFail
    /\ \/ q.pc = "save" /\ UNCHANGED attached
          /\ \/ body' = q.file /\ phase' = "draft"
             \/ UNCHANGED <<body, phase>>
       \/ q.pc = "upload" /\ UNCHANGED <<body, phase>>
          /\ \/ attached' = [attached EXCEPT ![q.name] = q.file]
             \/ UNCHANGED attached
    /\ lock' = Nobody
    /\ After(r, {})
    /\ stopped' = TRUE
    /\ UNCHANGED <<disk, replaced, refused>>

\* The process restarts; PostgreSQL rolls open transactions back.
Crash ==
    /\ MayFail
    /\ lock' = Nobody
    /\ req' = [r \in Req |-> Idle]
    /\ stopped' = TRUE
    /\ UNCHANGED <<phase, body, attached, disk, replaced, refused>>

Next ==
    \/ \E r \in Req :
          \/ \E p \in BodyPath : SaveBody(r, p)
          \/ CommitBody(r) \/ RollbackBody(r)
          \/ \E n \in Name : WriteUpload(r, n) \/ DeleteAttachment(r, n)
          \/ CommitUpload(r) \/ OversizedUpload(r) \/ RefuseUpload(r)
          \/ Send(r) \/ DeleteMessage(r)
          \/ \E p \in req[r].remove : RemoveFile(r, p)
          \/ LoseCommit(r)
    \/ Crash

Spec == Init /\ [][Next]_vars

-----------------------------------------------------------------------------
(***************************************************************************)
(* Properties                                                              *)
(***************************************************************************)

\* A row whose file is missing names a path that an upload refused after
\* createdFile had used: nothing else a request does, and no failure, lost
\* commit or restart, takes away a file some row names (atomic runs removals
\* only once the commit is certain).
OnlyRefusedLose == Rows \subseteq disk \cup refused

\* With nothing running, and no restart or lost commit before, the only
\* files no row names are those a second upload of a name left behind.
OrphansAreReplaced ==
    (\A r \in Req : req[r].pc = "idle") /\ ~stopped
        => disk \subseteq Rows \cup replaced

\* Every row names a file that exists (atomic: "retain files rather than risk
\* deleting payloads referenced by a committed row").
RowHasFile == Rows \subseteq disk
=============================================================================
