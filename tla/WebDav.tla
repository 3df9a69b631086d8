------------------------------- MODULE WebDav -------------------------------
(***************************************************************************)
(* The WebDAV module: requests that change files (KWebDavService), the     *)
(* table of locks they ask (KDavLockManager) and the file system calls     *)
(* they make (KFSResource).  Requests run on threads of their own; a step  *)
(* is one section under the table's mutex or one call of the system.       *)
(*                                                                         *)
(* Names are siblings in one directory.  A name leads to an inode, and an  *)
(* open file stays with its inode when the name is removed, renamed or     *)
(* made anew.  A request makes at most one inode and one lock token, so    *)
(* its own name stands for both.  The content of a file is the sequence of *)
(* the writers of its units.                                               *)
(***************************************************************************)
EXTENDS Naturals, Sequences, FiniteSets

CONSTANTS Names,      \* files and collections
          Req,        \* requests, and the inodes and tokens they make
          Plans,      \* what the requests may be for, together
          None,
          Units,      \* units in the body of an upload
          MaxFaults   \* failing calls, and tokens that outlive their 3600 seconds

Methods == {"put", "delete", "move", "copy", "lock", "refresh", "unlock", "mkcol"}

\* What a request asks for: a method, a name and a destination.
Job == {j \in [op : Methods, name : Names, dst : Names \cup {None}] :
          (j.dst # None) = (j.op \in {"copy", "move"})}

ASSUME DavAssumption == /\ Names \cap Req = {} /\ None \notin Names \cup Req
                        /\ Plans \subseteq [Req -> Job]
                        /\ Units \in Nat \ {0} /\ MaxFaults \in Nat

VARIABLES entry,      \* the inode of each name, or None
          node,       \* what an inode is: Dir, or the content of a file
          fileLocks,  \* KDavLockManager::fileLocks
          token,      \* the lock token of each request that made one
          tokenIndex, \* KDavLockManager::tokenIndex
          rq,         \* the requests
          faults

davVars == <<entry, node, fileLocks, token, tokenIndex, rq, faults>>
lockVars == <<fileLocks, token, tokenIndex>>
fsVars == <<entry, node>>

Inode == Names \cup Req
Dir == <<"dir">>
Hole == "hole"
Body(w) == [i \in 1..Units |-> w]

\* No lock on a name: fileLocks has no entry for it.
NoFile == [id |-> None, type |-> "none", locks |-> {}]
\* held: the client may count on it, granted and since neither given back nor expired.
NoToken == [type |-> "none", index |-> 0, expired |-> FALSE, name |-> None, id |-> None,
            held |-> FALSE]
NoJob == [op |-> "none", name |-> None, dst |-> None, tok |-> None, type |-> "none",
         overwrite |-> TRUE, at |-> "new", looked |-> {}, saw |-> {}, bound |-> "none", dstBound |-> "none",
         tmp |-> FALSE, ino |-> None, src |-> None, out |-> 0, buf |-> <<>>,
         got |-> 0, result |-> TRUE, lost |-> FALSE, status |-> 0]

DavInit ==
  /\ node = [i \in Inode |-> IF i \in Names THEN Body(i) ELSE <<>>]
  /\ entry \in [Names -> Names \cup {None}] /\ \A f \in Names : entry[f] \in {f, None}
  /\ fileLocks = [f \in Names |-> NoFile]
  /\ token = [r \in Req |-> NoToken]
  /\ tokenIndex = 0
  /\ \E plan \in Plans : rq = [r \in Req |->
       [NoJob EXCEPT !.op = plan[r].op, !.name = plan[r].name, !.dst = plan[r].dst]]
  /\ faults = 0

-----------------------------------------------------------------------------
(* Steps of a request *)

At(r, place) == rq[r].at = place
Go(r, place) == rq' = [rq EXCEPT ![r].at = place]
Done(r, status) == [NoJob EXCEPT !.op = rq[r].op, !.at = "done", !.status = status]
Send(r, status) == rq' = [rq EXCEPT ![r] = Done(r, status)]
Fault == faults < MaxFaults /\ faults' = faults + 1
FsOnly == UNCHANGED lockVars
LocksOnly == UNCHANGED <<fsVars, faults>>
Quiet == UNCHANGED <<fsVars, lockVars, faults>>

KindOf(i) == IF i = None THEN "none" ELSE IF node[i] = Dir THEN "dir" ELSE "file"
\* What stat says of a name.
bindResource(f) == KindOf(entry[f])

-----------------------------------------------------------------------------
(* The lock table *)

\* A mutant: one expired token takes the others of the file along.
FindLockAllOrNone(f) ==
  IF \E t \in fileLocks[f].locks : token[t].expired THEN NoFile ELSE fileLocks[f]

\* The tokens of a file that have not expired; a file without any is erased.
internalFindLockOnFile(f) ==
  LET live == {t \in fileLocks[f].locks : ~token[t].expired}
  IN IF live = {} THEN NoFile ELSE [fileLocks[f] EXCEPT !.locks = live]

\* locks is a map by the token's text, time and index: begin() is the oldest.
FirstToken(locks) ==
  IF locks = {} THEN None
  ELSE CHOOSE t \in locks : \A u \in locks : token[t].index <= token[u].index

addLockToken(file, t) ==
  ~(token[t].type = "exclusive" /\ file.type # "none") /\ file.type # "exclusive"

\* The tokens clients count on for a name.
Held(f) == {t \in Req : token[t].held /\ token[t].name = f}

\* find_file_locked and check_file_locked: the request goes on to a place, or is
\* refused.
Look(r, f, place) ==
  LET file == internalFindLockOnFile(f)
      first == FirstToken(file.locks)
      status == IF first = None THEN 200
                ELSE IF rq[r].tok = None THEN 423
                ELSE IF rq[r].tok # first THEN 412 ELSE 200
  IN /\ fileLocks' = [fileLocks EXCEPT ![f] = file]
     /\ IF status = 200
        THEN rq' = [rq EXCEPT ![r].at = place, ![r].looked = @ \cup {f},
                              ![r].saw = @ \cup Held(f) \cup file.locks]
        ELSE Send(r, status)
     /\ UNCHANGED <<token, tokenIndex>> /\ LocksOnly

\* KDavLockManager::new_token
NewToken(r) ==
  /\ At(r, "newToken")
  /\ token' = [token EXCEPT ![r].type = rq[r].type, ![r].index = tokenIndex]
  /\ tokenIndex' = tokenIndex + 1
  /\ Go(r, "lock") /\ UNCHANGED fileLocks /\ LocksOnly

\* KDavLockManager::lock
Lock(r) ==
  LET f == rq[r].name
      found == internalFindLockOnFile(f)
      file == IF found = NoFile THEN [NoFile EXCEPT !.id = r] ELSE found
  IN /\ At(r, "lock")
     /\ IF addLockToken(file, r)
        THEN /\ fileLocks' = [fileLocks EXCEPT ![f] = [file EXCEPT !.type = token[r].type,
                                                                   !.locks = @ \cup {r}]]
             /\ token' = [token EXCEPT ![r].name = f, ![r].id = file.id, ![r].held = TRUE]
             /\ Go(r, "bind")
        ELSE fileLocks' = [fileLocks EXCEPT ![f] = file] /\ Send(r, 423) /\ UNCHANGED token
     /\ UNCHANGED tokenIndex /\ LocksOnly

\* KDavLockManager::unlock: a file made anew since is another file.
unlock(t) ==
  LET f == token[t].name
      left == [fileLocks[f] EXCEPT !.locks = @ \ {t}]
  IN /\ fileLocks' = IF fileLocks[f].id # token[t].id THEN fileLocks
                     ELSE [fileLocks EXCEPT ![f] = IF left.locks = {} THEN NoFile ELSE left]
     /\ token' = [token EXCEPT ![t].held = FALSE]
     /\ UNCHANGED tokenIndex /\ LocksOnly

\* doUnlock, and doLock without a document, look for the first token on the file.
Find(r) ==
  LET file == internalFindLockOnFile(rq[r].name)
      first == FirstToken(file.locks)
      refresh == rq[r].op = "refresh"
  IN /\ At(r, "find")
     /\ fileLocks' = [fileLocks EXCEPT ![rq[r].name] = file]
     /\ IF first = None THEN Send(r, IF refresh THEN 400 ELSE 409)
        ELSE IF rq[r].tok = None THEN Send(r, 400)
        ELSE IF rq[r].tok # first THEN Send(r, IF refresh THEN 412 ELSE 403)
        ELSE Go(r, rq[r].op)
     /\ UNCHANGED <<token, tokenIndex>> /\ LocksOnly

Unlock(r) == At(r, "unlock") /\ unlock(rq[r].tok) /\ Send(r, 204)

\* KLockToken::refresh, without the table's mutex
RefreshLock(r) ==
  /\ At(r, "refresh")
  /\ token' = [token EXCEPT ![rq[r].tok].expired = FALSE]
  /\ Send(r, 200) /\ UNCHANGED <<fileLocks, tokenIndex>> /\ LocksOnly

\* KLockToken::isExpire becomes true.
Expire(t) ==
  /\ token[t].name # None /\ ~token[t].expired /\ Fault
  /\ token' = [token EXCEPT ![t].expired = TRUE, ![t].held = FALSE]
  /\ UNCHANGED <<fileLocks, tokenIndex, rq, fsVars>>

-----------------------------------------------------------------------------
(* Files *)

\* The name a request makes a file under.
Target(r) == IF rq[r].op \in {"copy", "move"} THEN rq[r].dst ELSE rq[r].name

\* makeFile has failed.
NotMade(r) == IF rq[r].op = "lock" THEN Go(r, "giveBack") ELSE Send(r, 403)

\* makeFile: fopen makes the file or truncates the one there is ...
MakeFile(r) ==
  LET f == Target(r)
      made == IF entry[f] = None THEN r ELSE entry[f]
  IN /\ At(r, "make") /\ FsOnly
     /\ \/ /\ bindResource(f) # "dir"
           /\ entry' = [entry EXCEPT ![f] = made]
           /\ node' = [node EXCEPT ![made] = <<>>]
           /\ rq' = [rq EXCEPT ![r].at = "made", ![r].ino = made]
           /\ UNCHANGED faults
        \/ bindResource(f) = "dir" /\ NotMade(r) /\ UNCHANGED <<fsVars, faults>>
        \/ Fault /\ NotMade(r) /\ UNCHANGED fsVars

\* ... and stat binds the name, if it is still there.
MadeBound(r) ==
  LET kind == bindResource(Target(r))
      next == CASE rq[r].op = "put" -> "body" [] rq[r].op = "copy" -> "copy"
  IN /\ At(r, "made") /\ Quiet
     /\ IF kind = "none" THEN NotMade(r)
        ELSE IF rq[r].op = "lock" THEN Send(r, 201)
        ELSE rq' = [rq EXCEPT ![r].at = next, ![r].bound = kind]

\* doLock: the file of the lock is made when there is none.
LockBind(r) ==
  /\ At(r, "bind") /\ Quiet
  /\ IF bindResource(rq[r].name) = "none" THEN Go(r, "make") ELSE Send(r, 200)

LockGiveBack(r) == At(r, "giveBack") /\ unlock(r) /\ Send(r, 403)

\* unlink or rmdir, as stat said; it fails on the other kind.
Removable(f, kind) == entry[f] # None /\ bindResource(f) = kind

\* A file's content after a write at an offset.
Written(content, offset, units) ==
  LET end == offset + Len(units)
      len == IF end > Len(content) THEN end ELSE Len(content)
  IN IF units = <<>> THEN content
     ELSE [i \in 1..len |-> IF i > offset /\ i <= end THEN units[i - offset]
                            ELSE IF i <= Len(content) THEN content[i] ELSE Hole]

\* The buffer of the stream reaches the file.
Flush(r, units) ==
  node' = [node EXCEPT ![rq[r].ino] = Written(@, rq[r].out, units)]

\* fwrite: the unit stays in the buffer, or the buffer is written out.
Write(r, unit, next) ==
  LET units == Append(rq[r].buf, unit)
  IN \/ /\ rq' = [rq EXCEPT ![r].buf = units, ![r].got = @ + 1, ![r].at = next]
        /\ UNCHANGED <<fsVars, faults>>
     \/ /\ Flush(r, units)
        /\ rq' = [rq EXCEPT ![r].buf = <<>>, ![r].out = @ + Len(units), ![r].got = @ + 1,
                            ![r].at = next]
        /\ UNCHANGED <<entry, faults>>

-----------------------------------------------------------------------------
(* doPut *)

PutLook(r) == At(r, "look") /\ rq[r].op = "put" /\ Look(r, rq[r].name, "stat")

\* A file is replaced by a temporary one, which only this request knows.
PutStat(r) ==
  LET kind == bindResource(rq[r].name)
  IN /\ At(r, "stat") /\ Quiet
     /\ rq' = [rq EXCEPT ![r].at = IF kind = "file" THEN "makeTemp" ELSE "make",
                         ![r].dstBound = kind]

\* Without write access to the directory the file is written in place.
PutMakeTemp(r) ==
  /\ At(r, "makeTemp") /\ FsOnly
  /\ \/ /\ rq' = [rq EXCEPT ![r].at = "body", ![r].tmp = TRUE, ![r].ino = r]
        /\ UNCHANGED <<fsVars, faults>>
     \/ Fault /\ Go(r, "make") /\ UNCHANGED fsVars

PutBreaks(r, left) == rq' = [rq EXCEPT ![r].at = "close", ![r].result = FALSE, ![r].buf = left]

\* The loop over the body: a unit is read and written, the client stops, or the
\* disk refuses and the buffer is lost.
PutBody(r) ==
  /\ At(r, "body") /\ FsOnly
  /\ \/ Write(r, r, IF rq[r].got + 1 = Units THEN "close" ELSE "body")
     \/ Fault /\ (\E left \in {<<>>, rq[r].buf} : PutBreaks(r, left)) /\ UNCHANGED fsVars

PutStatus(r) == IF rq[r].dstBound # "none" THEN 204 ELSE 201

\* What follows the loop once the file is closed.
PutClosed(r, lost) ==
  LET next == CASE rq[r].tmp /\ rq[r].result -> "rename"
                [] ~rq[r].tmp /\ ~rq[r].result /\ rq[r].dstBound = "none" -> "undo"
                [] OTHER -> "done"
  IN IF next = "done" THEN Send(r, IF rq[r].result THEN PutStatus(r) ELSE 500)
     ELSE rq' = [rq EXCEPT ![r].at = next, ![r].lost = lost, ![r].buf = <<>>]

\* KFSResource::close does not look at what fclose returns.
PutClose(r) ==
  /\ At(r, "close") /\ FsOnly
  /\ \/ Flush(r, rq[r].buf) /\ PutClosed(r, FALSE) /\ UNCHANGED <<entry, faults>>
     \/ rq[r].buf # <<>> /\ Fault /\ PutClosed(r, TRUE) /\ UNCHANGED fsVars

\* rename over the file, or removal of the temporary one when that fails.
PutRename(r) ==
  /\ At(r, "rename") /\ FsOnly
  /\ \/ /\ bindResource(rq[r].name) # "dir"
        /\ entry' = [entry EXCEPT ![rq[r].name] = r]
        /\ Send(r, PutStatus(r)) /\ UNCHANGED <<node, faults>>
     \/ bindResource(rq[r].name) = "dir" /\ Send(r, 500) /\ UNCHANGED <<fsVars, faults>>
     \/ Fault /\ Send(r, 500) /\ UNCHANGED fsVars

\* A new file whose upload broke is removed, by its name.
PutUndo(r) ==
  /\ At(r, "undo") /\ FsOnly /\ Send(r, 500)
  /\ entry' = IF Removable(rq[r].name, rq[r].bound)
              THEN [entry EXCEPT ![rq[r].name] = None] ELSE entry
  /\ UNCHANGED <<node, faults>>

-----------------------------------------------------------------------------
(* doDelete, doMkcol, doMove and doCopy *)

DeleteLook(r) == At(r, "look") /\ rq[r].op = "delete" /\ Look(r, rq[r].name, "bindSrc")
MoveLook(r) == At(r, "look") /\ rq[r].op = "move" /\ Look(r, rq[r].name, "lookDst")
\* doMove and doCopy: the lock on the destination.
LookDst(r) == At(r, "lookDst") /\ Look(r, rq[r].dst, "bindSrc")

BindSrc(r) ==
  LET kind == bindResource(rq[r].name)
      next == CASE rq[r].op = "delete" -> "remove" [] rq[r].op = "move" -> "bindDst"
                [] rq[r].op = "copy" -> "openSrc"
  IN /\ At(r, "bindSrc") /\ Quiet
     /\ IF kind = "none" THEN Send(r, 404)
        ELSE rq' = [rq EXCEPT ![r].at = next, ![r].bound = kind]

Remove(r) ==
  /\ At(r, "remove") /\ FsOnly
  /\ \/ /\ Removable(rq[r].name, rq[r].bound)
        /\ entry' = [entry EXCEPT ![rq[r].name] = None]
        /\ Send(r, 204) /\ UNCHANGED <<node, faults>>
     \/ ~Removable(rq[r].name, rq[r].bound) /\ Send(r, 403) /\ UNCHANGED <<fsVars, faults>>

\* mkdir takes a free name and asks no lock; stat follows.
Mkdir(r) ==
  /\ At(r, "mkdir") /\ FsOnly /\ UNCHANGED faults
  /\ \/ /\ entry[rq[r].name] = None
        /\ entry' = [entry EXCEPT ![rq[r].name] = r]
        /\ node' = [node EXCEPT ![r] = Dir]
        /\ Go(r, "mkdirBound")
     \/ entry[rq[r].name] # None /\ Send(r, 409) /\ UNCHANGED fsVars
MkdirBound(r) ==
  /\ At(r, "mkdirBound") /\ Quiet
  /\ Send(r, IF bindResource(rq[r].name) = "none" THEN 409 ELSE 201)

\* doCopy opens its source; a directory opens too.
OpenSrc(r) ==
  /\ At(r, "openSrc") /\ Quiet
  /\ IF entry[rq[r].name] = None THEN Send(r, 403)
     ELSE rq' = [rq EXCEPT ![r].at = "bindDst", ![r].src = entry[rq[r].name]]

\* The step that makes the destination.
Arrive(r) == IF rq[r].op = "copy" THEN "make" ELSE "renameTo"

BindDst(r) ==
  LET kind == bindResource(rq[r].dst)
  IN /\ At(r, "bindDst") /\ Quiet
     /\ IF kind # "none" /\ ~rq[r].overwrite THEN Send(r, 412)
        ELSE rq' = [rq EXCEPT ![r].at = IF kind = "none" THEN Arrive(r) ELSE "removeDst",
                              ![r].dstBound = kind]

RemoveDst(r) ==
  /\ At(r, "removeDst") /\ FsOnly /\ UNCHANGED <<node, faults>>
  /\ IF Removable(rq[r].dst, rq[r].dstBound)
     THEN entry' = [entry EXCEPT ![rq[r].dst] = None] /\ Go(r, Arrive(r))
     ELSE Send(r, 403) /\ UNCHANGED entry

DstStatus(r) == IF rq[r].dstBound # "none" THEN 204 ELSE 201

\* rename replaces a file by a file and an empty directory by a directory.
RenameTo(r) ==
  LET from == rq[r].name
      to == rq[r].dst
      ok == entry[from] # None /\ bindResource(to) \in {"none", bindResource(from)}
  IN /\ At(r, "renameTo") /\ FsOnly
     /\ \/ /\ ok /\ entry' = [entry EXCEPT ![to] = entry[from], ![from] = None]
           /\ Send(r, DstStatus(r)) /\ UNCHANGED <<node, faults>>
        \/ ~ok /\ Send(r, 403) /\ UNCHANGED <<fsVars, faults>>
        \/ Fault /\ Send(r, 403) /\ UNCHANGED fsVars

\* Reading a directory fails, and fread returns 0 as at the end.
CopyEnds(r) == node[rq[r].src] = Dir \/ rq[r].got >= Len(node[rq[r].src])

\* KFSResource::copy; the destructor of the destination closes it.
Copy(r) ==
  /\ At(r, "copy") /\ FsOnly
  /\ \/ ~CopyEnds(r) /\ Write(r, node[rq[r].src][rq[r].got + 1], "copy")
     \/ CopyEnds(r) /\ Flush(r, rq[r].buf) /\ Send(r, DstStatus(r)) /\ UNCHANGED <<entry, faults>>
     \/ ~CopyEnds(r) /\ Fault /\ Send(r, 403) /\ UNCHANGED fsVars
     \/ ~CopyEnds(r) /\ Fault /\ Flush(r, rq[r].buf) /\ Send(r, DstStatus(r)) /\ UNCHANGED entry
     \/ CopyEnds(r) /\ rq[r].buf # <<>> /\ Fault /\ Send(r, DstStatus(r)) /\ UNCHANGED fsVars

-----------------------------------------------------------------------------
(* KWebDavService::service *)

\* Tokens that clients have been told of.
Known == {t \in Req : rq[t].op = "lock" /\ rq[t].status \in {200, 201}}

\* The first step of each handler.
Handler == [put |-> "look", delete |-> "look", move |-> "look", copy |-> "lookDst",
            lock |-> "newToken", refresh |-> "find", unlock |-> "find", mkcol |-> "mkdir"]

Service(r) ==
  LET op == rq[r].op
  IN /\ At(r, "new") /\ Quiet
     /\ \E t \in Known \cup {None}, type \in {"none", "share", "exclusive"},
           overwrite \in BOOLEAN :
          /\ (type # "none") = (op = "lock")
          /\ op \in {"lock", "mkcol"} => t = None
          /\ op = "unlock" => t # None
          /\ op \notin {"copy", "move"} => overwrite
          /\ IF rq[r].name = rq[r].dst THEN Send(r, 403)
             ELSE rq' = [rq EXCEPT ![r].tok = t, ![r].type = type, ![r].overwrite = overwrite,
                                   ![r].at = Handler[op]]

LockStep(r) == \/ NewToken(r) \/ Lock(r) \/ LockBind(r) \/ LockGiveBack(r)
               \/ Find(r) \/ Unlock(r) \/ RefreshLock(r)
PutStep(r) == \/ PutLook(r) \/ PutStat(r) \/ PutMakeTemp(r) \/ PutBody(r) \/ PutClose(r)
              \/ PutRename(r) \/ PutUndo(r)
FileStep(r) == \/ MakeFile(r) \/ MadeBound(r) \/ Mkdir(r) \/ MkdirBound(r)
               \/ DeleteLook(r) \/ MoveLook(r) \/ LookDst(r) \/ BindSrc(r) \/ Remove(r)
               \/ OpenSrc(r) \/ BindDst(r) \/ RemoveDst(r) \/ RenameTo(r) \/ Copy(r)

DavNext == \/ \E r \in Req : Service(r) \/ LockStep(r) \/ PutStep(r) \/ FileStep(r)
           \/ \E t \in Req : Expire(t)

DavSpec == DavInit /\ [][DavNext]_davVars

-----------------------------------------------------------------------------
(* Properties *)

\* A step changes what is found under a name: the name, or the file it leads to.
Changed(f) == \/ entry'[f] # entry[f]
              \/ entry[f] # None /\ node'[entry[f]] # node[entry[f]]

\* The request was entitled to change a name: every lock on it that clients count
\* on was granted after the request had looked for locks, or the request showed a
\* token of the file when it looked.  A LOCK changes its own file, and MKCOL takes
\* a free name without asking.
Entitled(r, f) ==
  \/ Held(f) = {} \/ r \in Held(f) \/ token[r].expired \/ rq[r].op = "mkcol"
  \/ f \in rq[r].looked /\ (Held(f) \cap rq[r].saw # {} => rq[r].tok \in rq[r].saw)

\* PUT over an existing file puts the whole body in its place in one step, unless
\* fclose failed unnoticed.
AllAtOnce(r, f) ==
  rq[r].op = "put" /\ rq[r].tmp => entry'[f] = r /\ (node'[r] = Body(r) \/ rq[r].lost)

\* The names a request is to change.
Targets(r) == {Target(r)} \cup (IF rq[r].op = "move" THEN {rq[r].name} ELSE {})

\* Files change only by requests that may change them (doPut, doMove, doCopy,
\* doDelete and doLock against the lock table, with locks that are granted, given
\* back, refreshed and expire meanwhile), and an upload that replaces a file does so
\* completely or not at all.  A file that is moved while a request writes in it
\* changes under its new name too, which that request was not asked to change.
ChangesEntitled ==
  [][\A r \in Req, f \in Names :
       rq'[r] # rq[r] /\ Changed(f) /\ f \in Targets(r)
         => Entitled(r, f) /\ AllAtOnce(r, f)]_davVars
=============================================================================
