----------------------------- MODULE FilesProofs ----------------------------
(***************************************************************************)
(* Which files rows and removals can meet, for any requests, names, paths  *)
(* and failures.                                                           *)
(*                                                                         *)
(* Only one request at a time writes (Locked).  Apart from the paths of    *)
(* refused uploads, two rows never name one file (Distinct), the file      *)
(* being written is named by no row (Written), and a file still to be      *)
(* removed is on disk, is named by no row, is not the one being written,   *)
(* and no second request is to remove it (Pending).                        *)
(***************************************************************************)
EXTENDS Files, WellFoundedInduction, TLAPS

Writes(r) == req[r].pc \in {"save", "upload"}

Locked == \A r \in Req : /\ Writes(r) => lock = r
                         /\ req[r].pc = "save" => req[r].file \in BodyPath
                         /\ req[r].pc = "upload" => req[r].name \in Name
                         /\ Writes(r) => req[r].file \in Path
                         /\ req[r].remove # {} => req[r].pc = "after"

Typed == TypeOK /\ Locked

Distinct ==
    \A n \in Name :
        attached[n] \notin refused \cup {NoPath} =>
            /\ attached[n] # body
            /\ \A k \in Name \ {n} : attached[k] # attached[n]

Written ==
    \A r \in Req : Writes(r) =>
        \/ req[r].file \in refused
        \/ req[r].file \in disk \ Rows

Pending ==
    \A r \in Req : \A p \in req[r].remove \ refused :
        /\ p \in disk \ Rows
        /\ \A o \in Req : Writes(o) => req[o].file # p
        /\ \A o \in Req \ {r} : p \notin req[o].remove

NothingNeededGoes == Distinct /\ Written /\ Pending /\ OnlyRefusedLose

\* What accounts for a file while the process runs.
Account(p) ==
    \/ p \in Rows \cup replaced
    \/ \E r \in Req : p \in req[r].remove \/ (Writes(r) /\ req[r].file = p)

\* Every file on disk is accounted for.
Accounted == ~stopped => \A p \in disk : Account(p)

IInv == Typed /\ NothingNeededGoes /\ Accounted

LEMMA RowsHave ==
    \A p : p \in Rows <=> /\ p # NoPath
                          /\ p = body \/ \E n \in Name : attached[n] = p
  BY DEF Rows

\* Request r goes on, and no other.
Changes(r) == /\ req' \in [Req -> Request]
              /\ \A o \in Req \ {r} : req'[o] = req[o]

-----------------------------------------------------------------------------
(***************************************************************************)
(* Types, and the lock                                                     *)
(***************************************************************************)

LEMMA IdleType ==
    /\ Idle \in Request
    /\ Idle.pc = "idle"
    /\ Idle.remove = {}
  BY DEF Idle, Request

LEMMA AfterEffect ==
    ASSUME TypeOK, NEW r \in Req, NEW gone \in SUBSET Path, After(r, gone)
    PROVE  /\ Changes(r)
           /\ req'[r].remove = gone
           /\ req'[r].pc = IF gone = {} THEN "idle" ELSE "after"
  <1> DEFINE q == IF gone = {} THEN Idle
                  ELSE [Idle EXCEPT !.pc = "after", !.remove = gone]
  <1>1. /\ q \in Request
        /\ q.remove = gone
        /\ q.pc = IF gone = {} THEN "idle" ELSE "after"
    BY DEF Idle, Request
  <1>2. req' = [req EXCEPT ![r] = q]
    BY DEF After
  <1> HIDE DEF q
  <1> QED BY <1>1, <1>2 DEF Changes, TypeOK

LEMMA LeastNumber ==
    ASSUME NEW T, T \subseteq Nat, T # {}
    PROVE  \E i \in T : \A j \in T : i <= j
  <1>1. \A i, j \in Nat : <<i, j>> \in OpToRel(<, Nat) <=> i < j
    BY DEF OpToRel
  <1>2. PICK less : /\ IsWellFoundedOn(less, Nat)
                    /\ \A i, j \in Nat : <<i, j>> \in less <=> i < j
    BY <1>1, NatLessThanWellFounded, Zenon
  <1> DEFINE L == less
  <1>0. IsWellFoundedOn(L, Nat)
    BY <1>2
  <1> HIDE DEF L
  <1>3. PICK i \in T : \A j \in T : ~ (<<j, i>> \in L)
    BY <1>0, WFMin
  <1>4. \A j \in T : i \in Nat /\ j \in Nat /\ ~(j < i)
    BY <1>2, <1>3 DEF L
  <1> QED BY <1>4

\* resolveFilePath finds a path of the directory that no file has.
LEMMA FirstFreeIsFree ==
    ASSUME NEW n \in Name, FirstFree(n) # NoPath
    PROVE  FirstFree(n) \in Path \ disk
  <1> DEFINE c == Candidates[n]
             free == {i \in DOMAIN c : c[i] \notin disk}
  <1>1. c \in Seq(Path \ BodyPath)
    BY PathAssumption
  <1>2. /\ DOMAIN c \subseteq Nat
        /\ \A i \in DOMAIN c : c[i] \in Path
    BY <1>1
  <1>3. free # {}
    BY DEF FirstFree
  <1>4. free \subseteq Nat
    BY <1>2
  <1> HIDE DEF free
  <1>5. \E i \in free : \A j \in free : i <= j
    BY <1>3, <1>4, LeastNumber
  <1> DEFINE least == CHOOSE k \in free : \A j \in free : k <= j
  <1>6. least \in free
    BY <1>5
  <1>7. FirstFree(n) = c[least]
    BY <1>3 DEF FirstFree, free
  <1> HIDE DEF least
  <1> QED BY <1>2, <1>6, <1>7 DEF free

LEMMA SaveEffect ==
    ASSUME TypeOK, NEW r \in Req, NEW p \in BodyPath, SaveBody(r, p)
    PROVE  /\ Changes(r)
           /\ req'[r].pc = "save"
           /\ req'[r].file = p
           /\ req'[r].remove = {}
           /\ p \in Path \ disk
           /\ disk' = disk \cup {p}
           /\ lock = Nobody /\ lock' = r
           /\ UNCHANGED <<phase, body, attached, replaced, refused, stopped>>
  <1> DEFINE q == [Idle EXCEPT !.pc = "save", !.file = p]
  <1>1. p \in Path
    BY PathAssumption
  <1>2. q \in Request /\ q.pc = "save" /\ q.file = p /\ q.remove = {}
    BY <1>1 DEF Idle, Request
  <1>3. req' = [req EXCEPT ![r] = q]
    BY DEF SaveBody
  <1>4. /\ p \notin disk /\ disk' = disk \cup {p} /\ lock = Nobody /\ lock' = r
        /\ UNCHANGED <<phase, body, attached, replaced, refused, stopped>>
    BY DEF SaveBody, Begins
  <1> HIDE DEF q
  <1>5. Changes(r) /\ req'[r] = q
    BY <1>2, <1>3 DEF Changes, TypeOK
  <1> QED BY <1>1, <1>2, <1>4, <1>5

LEMMA UploadEffect ==
    ASSUME TypeOK, NEW r \in Req, NEW n \in Name, WriteUpload(r, n)
    PROVE  /\ Changes(r)
           /\ req'[r].pc = "upload"
           /\ req'[r].name = n
           /\ req'[r].remove = {}
           /\ req'[r].file \in Path \ disk
           /\ disk' = disk \cup {req'[r].file}
           /\ lock = Nobody /\ lock' = r
           /\ UNCHANGED <<phase, body, attached, replaced, refused, stopped>>
  <1> DEFINE q == [Idle EXCEPT !.pc = "upload", !.name = n,
                               !.file = FirstFree(n)]
  <1>1. FirstFree(n) \in Path \ disk
    BY FirstFreeIsFree DEF WriteUpload
  <1>2. /\ q \in Request /\ q.pc = "upload" /\ q.name = n
        /\ q.file = FirstFree(n) /\ q.remove = {}
    BY <1>1 DEF Idle, Request
  <1>3. req' = [req EXCEPT ![r] = q]
    BY DEF WriteUpload
  <1>4. /\ disk' = disk \cup {FirstFree(n)} /\ lock = Nobody /\ lock' = r
        /\ UNCHANGED <<phase, body, attached, replaced, refused, stopped>>
    BY DEF WriteUpload, Begins
  <1> HIDE DEF q
  <1>5. Changes(r) /\ req'[r] = q
    BY <1>2, <1>3 DEF Changes, TypeOK
  <1> QED BY <1>1, <1>2, <1>4, <1>5

\* The steps that end the transaction of r, the only request that writes, and
\* what is left to remove then.
Ends(r, gone) ==
    /\ Writes(r)
    /\ gone \in SUBSET Path
    /\ After(r, gone)
    /\ lock' = Nobody

\* What the steps are.
LEMMA StepCases ==
    ASSUME [Next]_vars
    PROVE  \/ \E r \in Req :
                \/ \E p \in BodyPath : SaveBody(r, p)
                \/ CommitBody(r) \/ RollbackBody(r)
                \/ \E n \in Name : WriteUpload(r, n) \/ DeleteAttachment(r, n)
                \/ CommitUpload(r) \/ OversizedUpload(r) \/ RefuseUpload(r)
                \/ Send(r) \/ DeleteMessage(r)
                \/ \E p \in req[r].remove : RemoveFile(r, p)
                \/ LoseCommit(r)
           \/ Crash
           \/ UNCHANGED vars
  BY DEF Next

LEMMA EndEffect ==
    ASSUME Typed, NEW r \in Req, NEW gone, Ends(r, gone)
    PROVE  /\ Changes(r)
           /\ req'[r].remove = gone
           /\ ~Writes(r)'
           /\ gone # {} => req'[r].pc = "after"
           /\ \A o \in Req : ~Writes(o)'
  <1>1. /\ Changes(r)
        /\ req'[r].remove = gone
        /\ req'[r].pc = IF gone = {} THEN "idle" ELSE "after"
    BY AfterEffect DEF Ends, Typed
  <1>2. \A o \in Req \ {r} : ~Writes(o)
    BY DEF Ends, Typed, Locked
  <1> QED BY <1>1, <1>2 DEF Writes, Changes

\* Where the transactions of a request that writes end.
LEMMA Endings ==
    ASSUME Typed, NEW r \in Req
    PROVE  /\ CommitBody(r) =>
                /\ Ends(r, {body} \ {NoPath})
                /\ req[r].pc = "save" /\ body' = req[r].file /\ phase' = "draft"
                /\ UNCHANGED <<attached, disk, replaced, refused, stopped>>
           /\ RollbackBody(r) =>
                /\ Ends(r, {req[r].file})
                /\ UNCHANGED <<phase, body, attached, disk, replaced, refused,
                               stopped>>
           /\ CommitUpload(r) =>
                /\ Ends(r, {})
                /\ req[r].pc = "upload" /\ req[r].name \in Name
                /\ attached' = [attached EXCEPT ![req[r].name] = req[r].file]
                /\ replaced' = replaced \cup ({attached[req[r].name]} \ {NoPath})
                /\ UNCHANGED <<phase, body, disk, refused, stopped>>
           /\ OversizedUpload(r) =>
                /\ Ends(r, {})
                /\ disk' = disk \ {req[r].file}
                /\ UNCHANGED <<phase, body, attached, replaced, refused,
                               stopped>>
           /\ RefuseUpload(r) =>
                /\ Ends(r, {req[r].file})
                /\ disk' = disk \ {req[r].file}
                /\ refused' = refused \cup {req[r].file}
                /\ UNCHANGED <<phase, body, attached, replaced, stopped>>
           /\ LoseCommit(r) =>
                /\ Ends(r, {})
                /\ stopped' = TRUE
                /\ \/ UNCHANGED <<body, phase, attached>>
                   \/ body' = req[r].file /\ phase' = "draft"
                      /\ attached' = attached
                   \/ /\ req[r].name \in Name
                      /\ attached' = [attached EXCEPT ![req[r].name] = req[r].file]
                      /\ UNCHANGED <<body, phase>>
                /\ UNCHANGED <<disk, replaced, refused>>
  <1>1. {body} \ {NoPath} \in SUBSET Path /\ (Writes(r) => {req[r].file} \in SUBSET Path)
    BY DEF Typed, Locked, TypeOK
  <1>2. req[r].pc = "upload" => req[r].name \in Name
    BY DEF Typed, Locked
  <1>3. CommitBody(r) => /\ Ends(r, {body} \ {NoPath})
                         /\ req[r].pc = "save" /\ body' = req[r].file
                         /\ phase' = "draft"
                         /\ UNCHANGED <<attached, disk, replaced, refused, stopped>>
    BY <1>1 DEF CommitBody, Ends, Writes
  <1>4. RollbackBody(r) => /\ Ends(r, {req[r].file})
                           /\ UNCHANGED <<phase, body, attached, disk, replaced,
                                          refused, stopped>>
    BY <1>1 DEF RollbackBody, Ends, Writes
  <1> QED BY <1>1, <1>2, <1>3, <1>4 DEF CommitUpload, OversizedUpload,
          RefuseUpload, LoseCommit, Ends, Writes

\* The steps of a request that runs nothing, while nobody writes.
LEMMA Beginnings ==
    ASSUME Typed, NEW r \in Req
    PROVE  /\ \A n \in Name : DeleteAttachment(r, n) =>
                /\ Begins(r)
                /\ attached[n] \in Path
                /\ After(r, {attached[n]})
                /\ attached' = [attached EXCEPT ![n] = NoPath]
                /\ UNCHANGED <<phase, body, disk, lock, replaced, refused,
                               stopped>>
           /\ DeleteMessage(r) =>
                /\ Begins(r)
                /\ Rows \in SUBSET Path
                /\ After(r, Rows)
                /\ phase' = "gone"
                /\ body' = NoPath
                /\ attached' = [n \in Name |-> NoPath]
                /\ UNCHANGED <<disk, lock, replaced, refused, stopped>>
  BY DEF DeleteAttachment, DeleteMessage, Typed, TypeOK, Rows

LEMMA TypedInit == Init => Typed
  <1> SUFFICES ASSUME Init PROVE Typed
    OBVIOUS
  <1>1. stopped \in BOOLEAN
    BY Zenon DEF Init
  <1> QED BY <1>1, IdleType DEF Init, Typed, TypeOK, Locked, Writes

LEMMA TypedStep == Typed /\ [Next]_vars => Typed'
  <1> SUFFICES ASSUME Typed, [Next]_vars PROVE Typed'
    OBVIOUS
  <1>0. NoPath \notin Path
    BY PathAssumption
  <1>1. ASSUME NEW r \in Req, NEW p \in BodyPath, SaveBody(r, p)
        PROVE  Typed'
    BY <1>1, SaveEffect, RequestAssumption
       DEF Typed, TypeOK, Locked, Writes, Changes
  <1>2. ASSUME NEW r \in Req, NEW n \in Name, WriteUpload(r, n)
        PROVE  Typed'
    BY <1>2, UploadEffect, RequestAssumption
       DEF Typed, TypeOK, Locked, Writes, Changes
  <1>3. ASSUME NEW r \in Req, NEW gone, Ends(r, gone),
               phase' \in {"none", "draft", "sent", "gone"},
               body' \in Path \cup {NoPath},
               attached' \in [Name -> Path \cup {NoPath}],
               disk' \subseteq Path, replaced' \subseteq Path,
               refused' \subseteq Path, stopped' \in BOOLEAN
        PROVE  Typed'
    <2>1. Changes(r) /\ (\A o \in Req : ~Writes(o)')
          /\ (req'[r].remove # {} => req'[r].pc = "after")
      BY <1>3, EndEffect
    <2>2. TypeOK'
      BY <1>3, <2>1 DEF TypeOK, Changes, Ends
    <2>3. Locked'
      BY <2>1 DEF Locked, Writes, Changes, Typed
    <2> QED BY <2>2, <2>3 DEF Typed
  <1>4. ASSUME NEW r \in Req,
               CommitBody(r) \/ RollbackBody(r) \/ CommitUpload(r)
                 \/ OversizedUpload(r) \/ RefuseUpload(r) \/ LoseCommit(r)
        PROVE  Typed'
    <2>1. \E gone : Ends(r, gone)
      BY <1>4, Endings
    <2>2. req[r].file \in Path /\ TypeOK
      BY <2>1 DEF Ends, Typed, Locked
    <2>3. /\ phase' \in {"none", "draft", "sent", "gone"}
          /\ body' \in Path \cup {NoPath}
          /\ disk' \subseteq Path
          /\ refused' \subseteq Path
          /\ stopped' \in BOOLEAN
      BY <1>4, <2>2, Endings DEF TypeOK
    <2>4. /\ attached' \in [Name -> Path \cup {NoPath}]
          /\ replaced' \subseteq Path
      <3>1. /\ \/ attached' = attached
               \/ /\ req[r].name \in Name
                  /\ attached' = [attached EXCEPT ![req[r].name] = req[r].file]
            /\ \/ replaced' = replaced
               \/ /\ req[r].name \in Name
                  /\ replaced' = replaced
                                   \cup ({attached[req[r].name]} \ {NoPath})
        BY <1>4, Endings
      <3> QED BY <2>2, <3>1 DEF TypeOK
    <2> QED BY <2>1, <2>3, <2>4, <1>3
  <1>5. ASSUME NEW r \in Req, NEW gone \in SUBSET Path, After(r, gone),
               req[r].pc \in {"idle", "after"}, lock' = lock,
               phase' \in {"none", "draft", "sent", "gone"},
               body' \in Path \cup {NoPath},
               attached' \in [Name -> Path \cup {NoPath}],
               disk' \subseteq Path, UNCHANGED <<replaced, refused, stopped>>
        PROVE  Typed'
    BY <1>5, AfterEffect DEF Typed, TypeOK, Locked, Writes, Changes
  <1>6. ASSUME NEW r \in Req, NEW n \in Name, DeleteAttachment(r, n)
        PROVE  Typed'
    <2>1. /\ {attached[n]} \in SUBSET Path /\ After(r, {attached[n]})
          /\ req[r].pc = "idle" /\ lock' = lock
          /\ attached' = [attached EXCEPT ![n] = NoPath]
          /\ UNCHANGED <<phase, body, disk, replaced, refused, stopped>>
      BY <1>6, Beginnings DEF Begins
    <2>2. attached' \in [Name -> Path \cup {NoPath}]
      BY <2>1 DEF Typed, TypeOK
    <2> QED BY <2>1, <2>2, <1>5 DEF Typed, TypeOK
  <1>7. ASSUME NEW r \in Req, DeleteMessage(r)
        PROVE  Typed'
    <2>1. /\ Rows \in SUBSET Path /\ After(r, Rows) /\ req[r].pc = "idle"
          /\ lock' = lock /\ phase' = "gone" /\ body' = NoPath
          /\ attached' \in [Name -> Path \cup {NoPath}]
          /\ UNCHANGED <<disk, replaced, refused, stopped>>
      BY <1>7, Beginnings DEF Begins
    <2> QED BY <2>1, <1>5 DEF Typed, TypeOK
  <1>8. ASSUME NEW r \in Req, NEW p \in req[r].remove, RemoveFile(r, p)
        PROVE  Typed'
    <2>1. req[r].remove \ {p} \in SUBSET Path /\ req[r].pc = "after"
      BY DEF Typed, Locked, TypeOK, Request
    <2> QED BY <1>5, <1>8, <2>1 DEF RemoveFile, Typed, TypeOK
  <1>9. ASSUME NEW r \in Req, Send(r)
        PROVE  Typed'
    BY <1>9 DEF Send, Typed, TypeOK, Locked, Writes
  <1>10. CASE Crash
    <2>1. stopped' \in BOOLEAN
      BY <1>10, Zenon DEF Crash
    <2> QED BY <1>10, <2>1, IdleType DEF Crash, Typed, TypeOK, Locked, Writes
  <1>11. CASE UNCHANGED vars
    BY <1>11 DEF vars, Typed, TypeOK, Locked, Writes
  <1> QED BY <1>1, <1>2, <1>4, <1>6, <1>7, <1>8, <1>9, <1>10, <1>11, StepCases

\* Rows, files, lock and requests are as Files types them: in particular the
\* path an upload is given is one of the directory that no file has
\* (resolveFilePath).
THEOREM FilesTyped == Spec => []TypeOK
  <1>1. Typed => TypeOK
    BY DEF Typed
  <1> QED BY <1>1, TypedInit, TypedStep, PTL DEF Spec

-----------------------------------------------------------------------------
(***************************************************************************)
(* No file a row names is removed                                          *)
(***************************************************************************)

LEMMA RowsHaveNext ==
    \A p : p \in Rows' <=> /\ p # NoPath
                           /\ p = body' \/ \E n \in Name : attached'[n] = p
  BY DEF Rows

LEMMA RowsKept ==
    ASSUME UNCHANGED <<body, attached>>
    PROVE  Rows' = Rows
  BY DEF Rows

\* A request writes a file that is new.
LEMMA StartsWriting ==
    ASSUME Typed, NothingNeededGoes, NEW r \in Req, NEW p,
           Changes(r), Writes(r)', req'[r].file = p, req'[r].remove = {},
           lock = Nobody, p \notin disk, disk' = disk \cup {p},
           UNCHANGED <<body, attached, refused>>
    PROVE  NothingNeededGoes'
  <1> USE DEF NothingNeededGoes
  <1>1. Rows' = Rows
    BY RowsKept
  <1>2. \A o \in Req \ {r} : ~Writes(o)' /\ req'[o] = req[o]
    BY RequestAssumption DEF Typed, Locked, Writes, Changes
  <1>3. Distinct' /\ OnlyRefusedLose'
    BY <1>1 DEF Distinct, OnlyRefusedLose
  <1>4. Written'
    BY <1>1, <1>2 DEF Written, OnlyRefusedLose
  <1>5. Pending'
    BY <1>1, <1>2 DEF Pending
  <1> QED BY <1>3, <1>4, <1>5

\* After a step that leaves no request writing, r has the files in gone to
\* remove.  What becomes a row or leaves the disk is at most the file r wrote,
\* or nothing (F), and never one another request is to remove.
LEMMA LeavesToRemove ==
    ASSUME Typed, NothingNeededGoes, NEW r \in Req, NEW gone, NEW F,
           Changes(r), req'[r].remove = gone, \A o \in Req : ~Writes(o)',
           Rows' \subseteq Rows \cup F, disk \ F \subseteq disk',
           refused \subseteq refused',
           \A o \in Req \ {r} : req[o].remove \cap F \subseteq refused,
           \A p \in gone \ refused' :
               /\ p \in disk' \ Rows'
               /\ \A o \in Req \ {r} : p \notin req[o].remove
    PROVE  Written' /\ Pending'
  <1> USE DEF NothingNeededGoes
  <1>1. Written'
    BY DEF Written
  <1>2. ASSUME NEW o \in Req \ {r}, NEW p \in req'[o].remove \ refused'
        PROVE  /\ p \in disk' \ Rows'
               /\ \A x \in Req \ {o} : p \notin req'[x].remove
    <2>1. p \in req[o].remove \ refused
      BY <1>2 DEF Changes
    <2>2. p \in disk \ Rows /\ p \notin F
      BY <1>2, <2>1 DEF Pending
    <2>3. p \notin gone
      BY <1>2, <2>1
    <2>4. \A x \in Req \ {o} : p \notin req'[x].remove
      BY <1>2, <2>1, <2>3 DEF Pending, Changes
    <2> QED BY <2>2, <2>4
  <1>3. ASSUME NEW p \in req'[r].remove \ refused'
        PROVE  /\ p \in disk' \ Rows'
               /\ \A x \in Req \ {r} : p \notin req'[x].remove
    BY <1>3 DEF Changes
  <1>4. Pending'
    BY <1>2, <1>3 DEF Pending
  <1> QED BY <1>1, <1>4

\* The file a request wrote is no row, and nobody's to remove.
LEMMA OwnFile ==
    ASSUME Typed, NothingNeededGoes, NEW r \in Req, Writes(r)
    PROVE  /\ req[r].file \in Path
           /\ req[r].file \in refused \/ req[r].file \in disk \ Rows
           /\ \A o \in Req : req[o].remove \cap {req[r].file} \subseteq refused
  BY DEF Typed, Locked, NothingNeededGoes, Written, Pending

\* The new body is committed; r removes the old one, or no callback runs.
LEMMA CommitBodyKeeps ==
    ASSUME Typed, NothingNeededGoes, NEW r \in Req, NEW gone, Ends(r, gone),
           gone \subseteq {body} \ {NoPath},
           body' = req[r].file,
           UNCHANGED <<attached, disk, refused>>
    PROVE  NothingNeededGoes'
  <1> PICK f : f = req[r].file
    OBVIOUS
  <1>1. /\ Ends(r, gone) /\ Writes(r) /\ body' = f
        /\ UNCHANGED <<attached, disk, refused>>
    BY DEF Ends
  <1>2. /\ f \in Path /\ f # NoPath
        /\ f \in refused \/ f \in disk \ Rows
        /\ \A o \in Req : req[o].remove \cap {f} \subseteq refused
    BY <1>1, OwnFile, PathAssumption
  <1>3. Distinct /\ OnlyRefusedLose /\ Pending
    BY DEF NothingNeededGoes
  <1>4. Distinct'
    BY <1>1, <1>2, <1>3, RowsHave DEF Distinct
  <1>5. Rows' \subseteq Rows \cup {f}
    BY <1>1, RowsHave, RowsHaveNext
  <1>6. OnlyRefusedLose'
    BY <1>1, <1>2, <1>3, <1>5 DEF OnlyRefusedLose
  <1>7. ASSUME NEW p \in gone \ refused'
        PROVE  /\ p \in disk' \ Rows'
               /\ \A o \in Req \ {r} : p \notin req[o].remove
    <2>1. p = body /\ p # NoPath /\ p \in Rows /\ p \notin refused
      BY <1>1, <1>7, RowsHave
    <2>2. p # f /\ \A n \in Name : attached[n] # p
      BY <1>2, <1>3, <2>1 DEF Distinct
    <2>3. p \notin Rows'
      BY <1>1, <2>2, RowsHaveNext
    <2>4. p \in disk'
      BY <1>1, <1>3, <2>1 DEF OnlyRefusedLose
    <2> QED BY <1>3, <2>1, <2>3, <2>4 DEF Pending
  <1>8. /\ Changes(r) /\ req'[r].remove = gone
        /\ \A o \in Req : ~Writes(o)'
    BY <1>1, EndEffect
  <1>9. Written' /\ Pending'
    BY <1>1, <1>2, <1>5, <1>7, <1>8, LeavesToRemove
  <1> QED BY <1>4, <1>6, <1>9 DEF NothingNeededGoes

LEMMA CommitUploadKeeps ==
    ASSUME Typed, NothingNeededGoes, NEW r \in Req, Ends(r, {}),
           NEW n \in Name,
           attached' = [attached EXCEPT ![n] = req[r].file],
           UNCHANGED <<body, disk, refused>>
    PROVE  NothingNeededGoes'
  <1> PICK f : f = req[r].file
    OBVIOUS
  <1>1. /\ f \in Path /\ f # NoPath
        /\ f \in refused \/ f \in disk \ Rows
        /\ \A o \in Req : req[o].remove \cap {f} \subseteq refused
    BY OwnFile, PathAssumption DEF Ends
  <1>2. \A k \in Name : attached'[k] = IF k = n THEN f ELSE attached[k]
    BY DEF Typed, TypeOK
  <1>3. Distinct /\ OnlyRefusedLose
    BY DEF NothingNeededGoes
  <1>4. Distinct'
    BY <1>1, <1>2, <1>3, RowsHave DEF Distinct
  <1>5. Rows' \subseteq Rows \cup {f}
    BY <1>2, RowsHave, RowsHaveNext
  <1>6. OnlyRefusedLose'
    BY <1>1, <1>3, <1>5 DEF OnlyRefusedLose
  <1>7. /\ Changes(r) /\ req'[r].remove = {}
        /\ \A o \in Req : ~Writes(o)'
    BY EndEffect
  <1>8. Written' /\ Pending'
    BY <1>1, <1>5, <1>7, LeavesToRemove
  <1> QED BY <1>4, <1>6, <1>8 DEF NothingNeededGoes

\* The steps that end a transaction and leave the rows as they are.
LEMMA NoRowKeeps ==
    ASSUME Typed, NothingNeededGoes, NEW r \in Req, NEW gone, Ends(r, gone),
           UNCHANGED <<body, attached>>,
           gone \subseteq {req[r].file}, disk' \subseteq disk,
           disk \ {req[r].file} \subseteq disk',
           refused \subseteq refused',
           gone \subseteq disk' \cup refused'
    PROVE  NothingNeededGoes'
  <1> PICK f : f = req[r].file
    OBVIOUS
  <1>1. /\ f \in refused \/ f \in disk \ Rows
        /\ \A o \in Req : req[o].remove \cap {f} \subseteq refused
    BY OwnFile DEF Ends
  <1>2. Rows' = Rows
    BY RowsKept
  <1>3. Distinct' /\ OnlyRefusedLose'
    BY <1>1, <1>2 DEF NothingNeededGoes, Distinct, OnlyRefusedLose
  <1>4. ASSUME NEW p \in gone \ refused'
        PROVE  /\ p \in disk' \ Rows'
               /\ \A o \in Req \ {r} : p \notin req[o].remove
    BY <1>1, <1>2, <1>4
  <1>5. /\ Changes(r) /\ req'[r].remove = gone
        /\ \A o \in Req : ~Writes(o)'
    BY EndEffect
  <1>6. Written' /\ Pending'
    BY <1>1, <1>2, <1>4, <1>5, LeavesToRemove
  <1> QED BY <1>3, <1>6 DEF NothingNeededGoes

\* Rows that go while nobody writes leave their files to r.
LEMMA DeletingKeeps ==
    ASSUME Typed, NothingNeededGoes, NEW r \in Req, NEW gone \in SUBSET Path,
           Begins(r), After(r, gone), gone \subseteq Rows,
           Rows' \subseteq Rows, gone \cap Rows' \subseteq refused,
           UNCHANGED <<disk, refused>>, Distinct'
    PROVE  NothingNeededGoes'
  <1>1. \A o \in Req : ~Writes(o)
    BY RequestAssumption DEF Begins, Typed, Locked
  <1>2. /\ Changes(r) /\ req'[r].remove = gone
        /\ req'[r].pc \in {"idle", "after"}
    BY AfterEffect DEF Typed
  <1>3. \A o \in Req : ~Writes(o)'
    BY <1>1, <1>2 DEF Changes, Writes
  <1>4. OnlyRefusedLose'
    BY DEF OnlyRefusedLose, NothingNeededGoes
  <1>5. ASSUME NEW p \in gone \ refused'
        PROVE  /\ p \in disk' \ Rows'
               /\ \A o \in Req \ {r} : p \notin req[o].remove
    BY <1>5 DEF NothingNeededGoes, OnlyRefusedLose, Pending
  <1> DEFINE F == {}
  <1>6. \A o \in Req \ {r} : req[o].remove \cap F \subseteq refused
    OBVIOUS
  <1>7. Rows' \subseteq Rows \cup F /\ disk \ F \subseteq disk'
    OBVIOUS
  <1> HIDE DEF F
  <1>8. Written' /\ Pending'
    BY <1>2, <1>3, <1>5, <1>6, <1>7, LeavesToRemove
  <1> QED BY <1>4, <1>8 DEF NothingNeededGoes

LEMMA RemovingKeeps ==
    ASSUME Typed, NothingNeededGoes, NEW r \in Req, NEW p \in req[r].remove,
           RemoveFile(r, p)
    PROVE  NothingNeededGoes'
  <1> USE DEF NothingNeededGoes
  <1>1. req[r].remove \ {p} \in SUBSET Path /\ req[r].pc = "after"
    BY DEF Typed, Locked, TypeOK, Request
  <1>2. /\ After(r, req[r].remove \ {p})
        /\ disk' = disk \ {p}
        /\ UNCHANGED <<body, attached, refused>>
    BY DEF RemoveFile
  <1>3. /\ Changes(r) /\ req'[r].remove = req[r].remove \ {p}
        /\ req'[r].pc \in {"idle", "after"}
    BY <1>1, <1>2, AfterEffect DEF Typed
  <1>4. Rows' = Rows
    BY <1>2, RowsKept
  <1>5. \/ p \in refused
        \/ /\ p \notin Rows
           /\ \A o \in Req : Writes(o) => req[o].file # p
           /\ \A o \in Req \ {r} : p \notin req[o].remove
    BY DEF Pending
  <1>6. \A o \in Req : Writes(o)' => Writes(o) /\ req'[o] = req[o]
    BY <1>3 DEF Changes, Writes
  <1>7. \A o \in Req : req'[o].remove \subseteq req[o].remove
    BY <1>3 DEF Changes
  <1>8. Distinct' /\ OnlyRefusedLose'
    BY <1>2, <1>4, <1>5 DEF Distinct, OnlyRefusedLose
  <1>9. Written'
    BY <1>2, <1>4, <1>5, <1>6 DEF Written
  <1>10. ASSUME NEW o \in Req, NEW q \in req'[o].remove \ refused'
         PROVE  /\ q \in disk' \ Rows'
                /\ \A x \in Req : Writes(x)' => req'[x].file # q
                /\ \A x \in Req \ {o} : q \notin req'[x].remove
    <2>1. q \in req[o].remove \ refused
      BY <1>2, <1>7, <1>10
    <2>2. /\ q \in disk \ Rows
          /\ \A x \in Req : Writes(x) => req[x].file # q
          /\ \A x \in Req \ {o} : q \notin req[x].remove
      BY <2>1 DEF Pending
    <2>3. q # p
      BY <1>3, <1>10, <2>1, <2>2
    <2> QED BY <1>2, <1>4, <1>6, <1>7, <2>2, <2>3
  <1>11. Pending'
    BY <1>10 DEF Pending
  <1> QED BY <1>8, <1>9, <1>11
LEMMA NothingNeededInit == Init => NothingNeededGoes
  <1> SUFFICES ASSUME Init PROVE NothingNeededGoes
    OBVIOUS
  <1>1. Rows = {}
    BY DEF Init, Rows
  <1>2. Distinct
    BY DEF Init, Distinct
  <1> QED BY <1>1, <1>2, IdleType
          DEF Init, NothingNeededGoes, Written, Pending, OnlyRefusedLose, Writes

LEMMA NothingNeededStep ==
    Typed /\ NothingNeededGoes /\ [Next]_vars => NothingNeededGoes'
  <1> SUFFICES ASSUME Typed, NothingNeededGoes, [Next]_vars
               PROVE  NothingNeededGoes'
    OBVIOUS
  <1>0. TypeOK
    BY DEF Typed
  <1>1. ASSUME NEW r \in Req, NEW p \in BodyPath, SaveBody(r, p)
        PROVE  NothingNeededGoes'
    <2>1. /\ Changes(r) /\ Writes(r)' /\ req'[r].file = p
          /\ req'[r].remove = {} /\ lock = Nobody /\ p \notin disk
          /\ disk' = disk \cup {p} /\ UNCHANGED <<body, attached, refused>>
      BY <1>0, <1>1, SaveEffect DEF Writes
    <2> QED BY <2>1, StartsWriting
  <1>2. ASSUME NEW r \in Req, NEW n \in Name, WriteUpload(r, n)
        PROVE  NothingNeededGoes'
    <2> PICK p : p = req'[r].file
      OBVIOUS
    <2>1. /\ Changes(r) /\ Writes(r)' /\ req'[r].file = p
          /\ req'[r].remove = {} /\ lock = Nobody /\ p \notin disk
          /\ disk' = disk \cup {p} /\ UNCHANGED <<body, attached, refused>>
      BY <1>0, <1>2, UploadEffect DEF Writes
    <2> QED BY <2>1, StartsWriting
  <1>3. ASSUME NEW r \in Req, CommitBody(r)
        PROVE  NothingNeededGoes'
    <2> PICK gone : gone = {body} \ {NoPath}
      OBVIOUS
    <2>1. /\ Ends(r, gone) /\ body' = req[r].file
          /\ UNCHANGED <<attached, disk, refused>>
      BY <1>3, Endings
    <2> QED BY <2>1, CommitBodyKeeps
  <1>4. ASSUME NEW r \in Req, CommitUpload(r)
        PROVE  NothingNeededGoes'
    <2> PICK n : n = req[r].name
      OBVIOUS
    <2>1. /\ Ends(r, {}) /\ n \in Name
          /\ attached' = [attached EXCEPT ![n] = req[r].file]
          /\ UNCHANGED <<body, disk, refused>>
      BY <1>4, Endings
    <2> QED BY <2>1, CommitUploadKeeps
  <1>5. ASSUME NEW r \in Req,
               RollbackBody(r) \/ OversizedUpload(r) \/ RefuseUpload(r)
        PROVE  NothingNeededGoes'
    <2> PICK f : f = req[r].file
      OBVIOUS
    <2>1. CASE RollbackBody(r)
      <3>1. /\ Ends(r, {f})
            /\ UNCHANGED <<body, attached, disk, refused>>
        BY <2>1, Endings
      <3>2. f \in disk \cup refused
        BY <3>1, OwnFile DEF Ends
      <3> QED BY <3>1, <3>2, NoRowKeeps
    <2>2. CASE OversizedUpload(r)
      <3>1. /\ Ends(r, {}) /\ disk' = disk \ {f}
            /\ UNCHANGED <<body, attached, refused>>
        BY <2>2, Endings
      <3> QED BY <3>1, NoRowKeeps
    <2>3. CASE RefuseUpload(r)
      <3>1. /\ Ends(r, {f}) /\ disk' = disk \ {f}
            /\ refused' = refused \cup {f}
            /\ UNCHANGED <<body, attached>>
        BY <2>3, Endings
      <3> QED BY <3>1, NoRowKeeps
    <2> QED BY <1>5, <2>1, <2>2, <2>3
  <1>6. ASSUME NEW r \in Req, LoseCommit(r)
        PROVE  NothingNeededGoes'
    <2> PICK n : n = req[r].name
      OBVIOUS
    <2>1. /\ Ends(r, {})
          /\ \/ UNCHANGED <<body, attached>>
             \/ body' = req[r].file /\ attached' = attached
             \/ /\ n \in Name
                /\ attached' = [attached EXCEPT ![n] = req[r].file]
                /\ body' = body
          /\ UNCHANGED <<disk, refused>>
      BY <1>6, Endings
    <2>2. CASE UNCHANGED <<body, attached>>
      BY <2>1, <2>2, NoRowKeeps
    <2>3. CASE body' = req[r].file /\ attached' = attached
      BY <2>1, <2>3, CommitBodyKeeps
    <2>4. CASE /\ n \in Name
               /\ attached' = [attached EXCEPT ![n] = req[r].file]
               /\ body' = body
      BY <2>1, <2>4, CommitUploadKeeps
    <2> QED BY <2>1, <2>2, <2>3, <2>4
  <1>7. ASSUME NEW r \in Req, NEW n \in Name, DeleteAttachment(r, n)
        PROVE  NothingNeededGoes'
    <2> PICK p : p = attached[n]
      OBVIOUS
    <2>1. /\ Begins(r) /\ p \in Path /\ After(r, {p})
          /\ attached' = [attached EXCEPT ![n] = NoPath]
          /\ UNCHANGED <<body, disk, refused>>
      BY <1>7, Beginnings
    <2>2. \A k \in Name : attached'[k] = IF k = n THEN NoPath ELSE attached[k]
      BY <1>0, <2>1 DEF TypeOK
    <2>3. Distinct
      BY DEF NothingNeededGoes
    <2>4. Distinct'
      BY <2>1, <2>2, <2>3 DEF Distinct
    <2>5. p \in Rows /\ Rows' \subseteq Rows
      BY <2>1, <2>2, RowsHave, RowsHaveNext, PathAssumption
    <2>6. p \in Rows' => p \in refused
      BY <2>1, <2>2, <2>3, RowsHaveNext, PathAssumption DEF Distinct
    <2> QED BY <2>1, <2>4, <2>5, <2>6, DeletingKeeps
  <1>8. ASSUME NEW r \in Req, DeleteMessage(r)
        PROVE  NothingNeededGoes'
    <2> PICK gone : gone = Rows
      OBVIOUS
    <2>1. /\ Begins(r) /\ gone \in SUBSET Path /\ After(r, gone)
          /\ body' = NoPath /\ attached' = [n \in Name |-> NoPath]
          /\ UNCHANGED <<disk, refused>>
      BY <1>8, Beginnings
    <2>2. Rows' = {} /\ Distinct'
      BY <2>1, RowsHaveNext DEF Distinct
    <2> QED BY <2>1, <2>2, DeletingKeeps
  <1>9. ASSUME NEW r \in Req, NEW p \in req[r].remove, RemoveFile(r, p)
        PROVE  NothingNeededGoes'
    BY <1>9, RemovingKeeps
  <1>10. ASSUME UNCHANGED <<body, attached, disk, req, refused>>
         PROVE  NothingNeededGoes'
    <2>1. Rows' = Rows
      BY <1>10, RowsKept
    <2> QED BY <1>10, <2>1 DEF NothingNeededGoes, Distinct, Written, Pending,
               OnlyRefusedLose, Writes
  <1>11. CASE Crash
    <2>1. /\ UNCHANGED <<body, attached, disk, refused>>
          /\ \A r \in Req : req'[r] = Idle
      BY <1>11 DEF Crash
    <2>2. Rows' = Rows
      BY <2>1, RowsKept
    <2>3. Written' /\ Pending'
      BY <2>1, IdleType DEF Written, Pending, Writes
    <2>4. Distinct' /\ OnlyRefusedLose'
      BY <2>1, <2>2 DEF NothingNeededGoes, Distinct, OnlyRefusedLose
    <2> QED BY <2>3, <2>4 DEF NothingNeededGoes
  <1>12. ASSUME NEW r \in Req, Send(r)
         PROVE  NothingNeededGoes'
    BY <1>10, <1>12 DEF Send
  <1>13. CASE UNCHANGED vars
    BY <1>10, <1>13 DEF vars
  <1> QED BY <1>1, <1>2, <1>3, <1>4, <1>5, <1>6, <1>7, <1>8, <1>9, <1>11,
             <1>12, <1>13, StepCases

\* OnlyRefusedLose, whatever requests run, whichever paths the uploads are
\* given, and wherever the process stops or the answer to a commit is lost.
THEOREM RowsKeepTheirFiles == Spec => []OnlyRefusedLose
  <1>1. NothingNeededGoes => OnlyRefusedLose
    BY DEF NothingNeededGoes
  <1> QED BY <1>1, TypedInit, TypedStep, NothingNeededInit, NothingNeededStep,
             PTL DEF Spec
-----------------------------------------------------------------------------
(***************************************************************************)
(* No file is left that nothing names                                      *)
(***************************************************************************)

\* Of the other requests, what accounted for a file still does.
LEMMA OthersAccount ==
    ASSUME NEW r \in Req, Changes(r), NEW p, NEW o \in Req \ {r},
           p \in req[o].remove \/ (Writes(o) /\ req[o].file = p)
    PROVE  Account(p)'
  BY DEF Changes, Account, Writes

\* A step of r keeps the account when each file that stays is still named by
\* a row or left behind, or was r's and is now a row or r's to remove.
LEMMA AccountsFor ==
    ASSUME Accounted, NEW r \in Req, Changes(r), stopped' = stopped,
           replaced \subseteq replaced',
           \A p \in disk' \ disk : Account(p)',
           \A p \in Rows \cap disk' : Account(p)',
           \A p \in disk' :
               p \in req[r].remove \/ (Writes(r) /\ req[r].file = p)
                   => Account(p)'
    PROVE  Accounted'
  <1> SUFFICES ASSUME ~stopped, NEW p \in disk' PROVE Account(p)'
    BY DEF Accounted
  <1>1. CASE p \notin disk
    BY <1>1
  <1>2. CASE p \in disk
    <2>1. Account(p)
      BY <1>2 DEF Accounted
    <2>2. CASE p \in replaced
      BY <2>2 DEF Account
    <2>3. CASE p \in Rows
      BY <2>3
    <2>4. ASSUME NEW o \in Req,
                 p \in req[o].remove \/ (Writes(o) /\ req[o].file = p)
          PROVE  Account(p)'
      BY <2>4, OthersAccount
    <2> QED BY <2>1, <2>2, <2>3, <2>4 DEF Account
  <1> QED BY <1>1, <1>2

LEMMA AccountedInit == Init => Accounted
  BY DEF Init, Accounted

LEMMA AccountedStep ==
    Typed /\ NothingNeededGoes /\ Accounted /\ [Next]_vars => Accounted'
  <1> SUFFICES ASSUME Typed, NothingNeededGoes, Accounted, [Next]_vars
               PROVE  Accounted'
    OBVIOUS
  <1>0. /\ TypeOK
        /\ \A r \in Req : Writes(r) => req[r].pc # "after" /\ req[r].remove = {}
        /\ \A r \in Req : Begins(r) => ~Writes(r) /\ req[r].remove = {}
    BY DEF Typed, Locked, Writes, Begins
  <1>1. ASSUME NEW r \in Req, NEW p \in Path, Begins(r), Changes(r), Writes(r)',
               req'[r].file = p, disk' = disk \cup {p},
               UNCHANGED <<body, attached, replaced, stopped>>
        PROVE  Accounted'
    <2>1. Rows' = Rows
      BY <1>1, RowsKept
    <2>2. Account(p)' /\ \A q \in Rows : Account(q)'
      BY <1>1, <2>1 DEF Account
    <2> QED BY <1>0, <1>1, <2>2, AccountsFor
  <1>2. ASSUME NEW r \in Req, NEW p \in BodyPath, SaveBody(r, p)
        PROVE  Accounted'
    <2>1. /\ Begins(r) /\ Changes(r) /\ Writes(r)' /\ req'[r].file = p
          /\ p \in Path /\ disk' = disk \cup {p}
          /\ UNCHANGED <<body, attached, replaced, stopped>>
      BY <1>0, <1>2, SaveEffect DEF Writes, SaveBody
    <2> QED BY <2>1, <1>1
  <1>3. ASSUME NEW r \in Req, NEW n \in Name, WriteUpload(r, n)
        PROVE  Accounted'
    <2> PICK p : p = req'[r].file
      OBVIOUS
    <2>1. /\ Begins(r) /\ Changes(r) /\ Writes(r)' /\ req'[r].file = p
          /\ p \in Path /\ disk' = disk \cup {p}
          /\ UNCHANGED <<body, attached, replaced, stopped>>
      BY <1>0, <1>3, UploadEffect DEF Writes, WriteUpload
    <2> QED BY <2>1, <1>1
  \* A transaction that ends: its file is a row, gone, or still to be removed.
  <1>4. ASSUME NEW r \in Req, NEW gone, Ends(r, gone), stopped' = stopped,
               replaced \subseteq replaced', disk' \subseteq disk,
               Rows \subseteq Rows' \cup replaced' \cup gone,
               req[r].file \in Rows' \cup gone \/ req[r].file \notin disk'
        PROVE  Accounted'
    <2>1. Changes(r) /\ req'[r].remove = gone
      BY <1>4, EndEffect
    <2>2. \A p \in Rows' \cup replaced' \cup gone : Account(p)'
      BY <2>1 DEF Account
    <2>3. req[r].remove = {}
      BY <1>0, <1>4 DEF Ends
    <2> QED BY <1>4, <2>1, <2>2, <2>3, AccountsFor
  <1>5. ASSUME NEW r \in Req, CommitBody(r)
        PROVE  Accounted'
    <2> PICK gone : gone = {body} \ {NoPath}
      OBVIOUS
    <2>1. /\ Ends(r, gone) /\ body' = req[r].file
          /\ UNCHANGED <<attached, disk, replaced, stopped>>
      BY <1>5, Endings
    <2>2. req[r].file \in Rows'
      BY <2>1, OwnFile, RowsHaveNext, PathAssumption DEF Ends
    <2>3. Rows \subseteq Rows' \cup gone
      BY <2>1, RowsHave, RowsHaveNext
    <2> QED BY <2>1, <2>2, <2>3, <1>4
  <1>6. ASSUME NEW r \in Req, CommitUpload(r)
        PROVE  Accounted'
    <2> PICK n : n = req[r].name
      OBVIOUS
    <2> PICK f : f = req[r].file
      OBVIOUS
    <2>1. /\ Ends(r, {}) /\ n \in Name
          /\ attached' = [attached EXCEPT ![n] = f]
          /\ replaced' = replaced \cup ({attached[n]} \ {NoPath})
          /\ UNCHANGED <<body, disk, stopped>>
      BY <1>6, Endings
    <2>2. \A k \in Name : attached'[k] = IF k = n THEN f ELSE attached[k]
      BY <1>0, <2>1 DEF TypeOK
    <2>3. f \in Path /\ f # NoPath
      BY <2>1, OwnFile, PathAssumption DEF Ends
    <2>4. f \in Rows'
      BY <2>1, <2>2, <2>3, RowsHaveNext
    <2>5. Rows \subseteq Rows' \cup replaced'
      BY <2>1, <2>2, RowsHave, RowsHaveNext
    <2> QED BY <2>1, <2>4, <2>5, <1>4
  <1>7. ASSUME NEW r \in Req,
               RollbackBody(r) \/ OversizedUpload(r) \/ RefuseUpload(r)
        PROVE  Accounted'
    <2> PICK f : f = req[r].file
      OBVIOUS
    <2>1. PICK gone : /\ Ends(r, gone) /\ disk' \subseteq disk
                      /\ f \in gone \/ f \notin disk'
                      /\ UNCHANGED <<body, attached, replaced, stopped>>
      BY <1>7, Endings
    <2>2. Rows' = Rows
      BY <2>1, RowsKept
    <2> QED BY <2>1, <2>2, <1>4
  \* A request that begins and ends at once, leaving files to remove.
  <1>8. ASSUME NEW r \in Req, NEW gone \in SUBSET Path, Begins(r),
               After(r, gone), Rows \subseteq Rows' \cup gone,
               UNCHANGED <<disk, replaced, stopped>>
        PROVE  Accounted'
    <2>1. Changes(r) /\ req'[r].remove = gone
      BY <1>0, <1>8, AfterEffect
    <2>2. \A p \in Rows' \cup gone : Account(p)'
      BY <2>1 DEF Account
    <2> QED BY <1>0, <1>8, <2>1, <2>2, AccountsFor
  <1>9. ASSUME NEW r \in Req, NEW n \in Name, DeleteAttachment(r, n)
        PROVE  Accounted'
    <2> PICK p : p = attached[n]
      OBVIOUS
    <2>1. /\ Begins(r) /\ p \in Path /\ After(r, {p})
          /\ attached' = [attached EXCEPT ![n] = NoPath]
          /\ UNCHANGED <<body, disk, replaced, stopped>>
      BY <1>9, Beginnings
    <2>2. \A k \in Name : attached'[k] = IF k = n THEN NoPath ELSE attached[k]
      BY <1>0, <2>1 DEF TypeOK
    <2>3. Rows \subseteq Rows' \cup {p}
      BY <2>1, <2>2, RowsHave, RowsHaveNext
    <2> QED BY <2>1, <2>3, <1>8
  <1>10. ASSUME NEW r \in Req, DeleteMessage(r)
         PROVE  Accounted'
    <2> PICK gone : gone = Rows
      OBVIOUS
    <2>1. /\ Begins(r) /\ gone \in SUBSET Path /\ After(r, gone)
          /\ UNCHANGED <<disk, replaced, stopped>>
      BY <1>10, Beginnings
    <2> QED BY <2>1, <1>8
  <1>11. ASSUME NEW r \in Req, NEW p \in req[r].remove, RemoveFile(r, p)
         PROVE  Accounted'
    <2>1. req[r].remove \ {p} \in SUBSET Path /\ ~Writes(r)
      BY <1>0, <1>11 DEF TypeOK, Request
    <2>2. /\ After(r, req[r].remove \ {p}) /\ disk' = disk \ {p}
          /\ UNCHANGED <<body, attached, replaced, stopped>>
      BY <1>11 DEF RemoveFile
    <2>3. Changes(r) /\ req'[r].remove = req[r].remove \ {p}
      BY <1>0, <2>1, <2>2, AfterEffect
    <2>4. Rows' = Rows
      BY <2>2, RowsKept
    <2>5. \A q \in Rows' \cup (req[r].remove \ {p}) : Account(q)'
      BY <2>3 DEF Account
    <2> QED BY <2>1, <2>2, <2>3, <2>4, <2>5, AccountsFor
  <1>12. ASSUME stopped' = TRUE
         PROVE  Accounted'
    BY <1>12 DEF Accounted
  <1>13. ASSUME NEW r \in Req, LoseCommit(r)
         PROVE  Accounted'
    BY <1>12, <1>13 DEF LoseCommit
  <1>14. CASE Crash
    BY <1>12, <1>14 DEF Crash
  <1>15. ASSUME UNCHANGED <<body, attached, disk, req, replaced, stopped>>
         PROVE  Accounted'
    <2>1. Rows' = Rows
      BY <1>15, RowsKept
    <2> QED BY <1>15, <2>1 DEF Accounted, Account, Writes
  <1>16. ASSUME NEW r \in Req, Send(r)
         PROVE  Accounted'
    BY <1>15, <1>16 DEF Send
  <1>17. CASE UNCHANGED vars
    BY <1>15, <1>17 DEF vars
  <1> QED BY <1>2, <1>3, <1>5, <1>6, <1>7, <1>9, <1>10, <1>11, <1>13, <1>14,
             <1>16, <1>17, StepCases

\* OrphansAreReplaced, for any number of requests: every removal a transaction
\* leaves (afterCommit, createdFile) finds its file, and none is forgotten.
THEOREM NothingIsLeftBehind == Spec => []OrphansAreReplaced
  <1>1. Typed /\ Accounted => OrphansAreReplaced
    <2> SUFFICES ASSUME Typed, Accounted, ~stopped, NEW p \in disk,
                        \A r \in Req : req[r].pc = "idle"
                 PROVE  p \in Rows \cup replaced
      BY DEF OrphansAreReplaced
    <2>1. \A r \in Req : ~Writes(r) /\ req[r].remove = {}
      BY DEF Typed, Locked, Writes
    <2> QED BY <2>1 DEF Accounted, Account
  <1>2. Init => IInv
    BY TypedInit, NothingNeededInit, AccountedInit DEF IInv
  <1>3. IInv /\ [Next]_vars => IInv'
    BY TypedStep, NothingNeededStep, AccountedStep DEF IInv
  <1>4. IInv => Typed /\ Accounted
    BY DEF IInv
  <1> QED BY <1>1, <1>2, <1>3, <1>4, PTL DEF Spec
=============================================================================
