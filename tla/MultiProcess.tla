---------------------------- MODULE MultiProcess ----------------------------
(***************************************************************************)
(* Worker processes in multi-process mode: KMPCmdProcess (KCmdProcess.cpp)  *)
(* keeps the children of one application on a free and a busy list and      *)
(* gives each child to one request at a time.  KProcessManage keeps the     *)
(* object in its map, as in module VirtualProcess.                          *)
(*                                                                         *)
(* A step is one section under stLock (the lists), under KProcessManage's   *)
(* lock (the map), or one unlocked action.  killProcess, refresh and clean  *)
(* hold the map's lock around stLock.  Time and the number of requests a    *)
(* child has served only decide whether a step may happen.                  *)
(***************************************************************************)
EXTENDS Naturals, FiniteSets, SequencesExt

CONSTANTS Callers,  \* clients, each asks for one connection at a time
          Turns,    \* bound: [Callers -> number of requests]
          Groups,   \* addresses of KMPCmdProcess objects
          Kids      \* addresses of KSingleListenPipeStream objects

VARIABLES group,  \* the object in the map, or 0
          grefs,  \* [Groups -> references]
          free,   \* [Groups -> freeProcessList]
          busy,   \* [Groups -> busyProcessList, as a set]
          kid,    \* [Kids -> "none", "up", exited ("down") or "killed"]
          boss,   \* the request that holds LockCommand, or 0
          call    \* the requests

procVars == <<group, grefs, free, busy, kid, boss, call>>

NoCall == [at |-> "start", gc |-> 0, kid |-> 0, own |-> 0, dead |-> FALSE, back |-> "done", turn |-> 1]

Go(r, c) == call' = [call EXCEPT ![r] = c]
At(r, place) == call[r].at = place
To(r, place) == Go(r, [call[r] EXCEPT !.at = place])

\* release: the last one destroys the object, and ~KMPCmdProcess what is on
\* its lists.  fs, bs and ks are the lists and children as the step leaves them.
Release(v, fs, bs, ks) ==
  LET last == grefs[v] = 1 IN
  /\ grefs' = [grefs EXCEPT ![v] = @ - 1]
  /\ free' = IF last THEN [fs EXCEPT ![v] = <<>>] ELSE fs
  /\ busy' = IF last THEN [bs EXCEPT ![v] = {}] ELSE bs
  /\ kid' = [c \in Kids |-> IF last /\ c \in ToSet(fs[v]) \cup bs[v] THEN "none" ELSE ks[c]]

-----------------------------------------------------------------------------
(* KProcessManage::GetUpstream and KMPCmdProcess::GetUpstream *)

Refs(r) ==
  /\ At(r, "start")
  /\ LET v == IF group # 0 THEN group ELSE CHOOSE g \in Groups : grefs[g] = 0 IN
     /\ group' = v
     /\ grefs' = [grefs EXCEPT ![v] = IF group # 0 THEN @ + 1 ELSE 2]
     /\ Go(r, [call[r] EXCEPT !.at = "take", !.gc = v])
  /\ UNCHANGED <<free, busy, kid, boss>>

\* Mutant: the child is used while it stays on the free list.
TakeShared(r) ==
  /\ At(r, "take") /\ free[call[r].gc] # <<>>
  /\ LET v == call[r].gc IN
     /\ grefs' = [grefs EXCEPT ![v] = @ + 1]
     /\ Go(r, [call[r] EXCEPT !.at = "open", !.kid = Head(free[v]), !.own = v])
  /\ UNCHANGED <<group, free, busy, kid, boss>>

\* The first free child becomes busy; get_connection adds a reference.
TakeFree(r) ==
  /\ At(r, "take") /\ free[call[r].gc] # <<>>
  /\ LET v == call[r].gc
         c == Head(free[v])
     IN /\ free' = [free EXCEPT ![v] = Tail(@)]
        /\ busy' = [busy EXCEPT ![v] = @ \cup {c}]
        /\ grefs' = [grefs EXCEPT ![v] = @ + 1]
        /\ Go(r, [call[r] EXCEPT !.at = "open", !.kid = c, !.own = v])
  /\ UNCHANGED <<group, kid, boss>>

\* getConnection: an idle connection, perhaps to a child that has gone, or a
\* new one.
OpenWorks(r) == At(r, "open") /\ To(r, "release") /\ UNCHANGED <<group, grefs, free, busy, kid, boss>>

\* A child that does not answer is discarded and the next one tried.
OpenFails(r) ==
  /\ At(r, "open")
  /\ kid' = [kid EXCEPT ![call[r].kid] = "killed"]
  /\ Go(r, [call[r] EXCEPT !.at = "gc", !.back = "take"])
  /\ UNCHANGED <<group, grefs, free, busy, boss>>

NoneFree(r) ==
  /\ At(r, "take") /\ free[call[r].gc] = <<>>
  /\ To(r, "lock")
  /\ UNCHANGED <<group, grefs, free, busy, kid, boss>>

LockCommand(r) ==
  /\ At(r, "lock") /\ boss = 0
  /\ boss' = r
  /\ To(r, "power")
  /\ UNCHANGED <<group, grefs, free, busy, kid>>

\* Power returns NULL: no thread, no listener, or Exec failed.
PowerFails(r) ==
  /\ At(r, "power") /\ To(r, "release")
  /\ boss' = 0
  /\ UNCHANGED <<group, grefs, free, busy, kid>>

PowerWorks(r) ==
  /\ At(r, "power")
  /\ LET c == CHOOSE k \in Kids : kid[k] = "none" IN
     /\ kid' = [kid EXCEPT ![c] = "up"]
     /\ Go(r, [call[r] EXCEPT !.at = "result", !.kid = c])
  /\ UNCHANGED <<group, grefs, free, busy, boss>>

PowerResult(r) ==
  /\ At(r, "result")
  /\ LET v == call[r].gc IN
     /\ grefs' = [grefs EXCEPT ![v] = @ + 1]
     /\ busy' = [busy EXCEPT ![v] = @ \cup {call[r].kid}]
     /\ Go(r, [call[r] EXCEPT !.at = "connecting", !.own = v])
  /\ UNCHANGED <<group, free, kid, boss>>

TryConnectWorks(r) ==
  /\ At(r, "connecting") /\ To(r, "release")
  /\ boss' = 0
  /\ UNCHANGED <<group, grefs, free, busy, kid>>

TryConnectFails(r) ==
  /\ At(r, "connecting")
  /\ kid' = [kid EXCEPT ![call[r].kid] = "killed"]
  /\ Go(r, [call[r] EXCEPT !.at = "gc", !.back = "unlock"])
  /\ UNCHANGED <<group, grefs, free, busy, boss>>

UnlockCommand(r) ==
  /\ At(r, "unlock") /\ To(r, "release")
  /\ boss' = 0
  /\ UNCHANGED <<group, grefs, free, busy, kid>>

\* gc->release() at the end of KProcessManage::GetUpstream.
EndGetUpstream(r) ==
  /\ At(r, "release")
  /\ Release(call[r].gc, free, busy, kid)
  /\ Go(r, [call[r] EXCEPT !.gc = 0, !.at = IF call[r].kid = 0 THEN "done" ELSE "using", !.back = "done"])
  /\ UNCHANGED <<group, boss>>

\* The request is over, or health(Err) kills the child first.
Finish(r) ==
  /\ At(r, "using") /\ To(r, "gc")
  /\ kid' = kid \/ kid' = [kid EXCEPT ![call[r].kid] = "killed"]
  /\ UNCHANGED <<group, grefs, free, busy, boss>>

-----------------------------------------------------------------------------
(* KMPCmdProcess::gcProcess *)

\* Before stLock: a child that has served max_request requests is killed, and
\* whether it is killed is read.
GcRead(r) ==
  /\ At(r, "gc")
  /\ \E worn \in BOOLEAN :
       /\ kid' = [kid EXCEPT ![call[r].kid] = IF worn THEN "killed" ELSE @]
       /\ Go(r, [call[r] EXCEPT !.at = "list", !.dead = kid'[call[r].kid] = "killed"])
  /\ UNCHANGED <<group, grefs, free, busy, boss>>

\* Under stLock, then the deletion and the release.
GcList(r) ==
  /\ At(r, "list")
  /\ LET v == call[r].own
         c == call[r].kid
         dead == call[r].dead
     IN Release(v, IF dead THEN free ELSE [free EXCEPT ![v] = <<c>> \o @],
                [busy EXCEPT ![v] = @ \ {c}], IF dead THEN [kid EXCEPT ![c] = "none"] ELSE kid)
  /\ Go(r, [call[r] EXCEPT !.at = call[r].back, !.kid = 0, !.own = 0, !.dead = FALSE])
  /\ UNCHANGED <<group, boss>>

-----------------------------------------------------------------------------
(* The administrator, the timer and the children *)

\* killProcess(pid): the child is killed where it is used and deleted where it is
\* free.  If no other is left the map lets go of the object.
KillProcess(c) ==
  /\ group # 0 /\ c \in busy[group] \cup ToSet(free[group])
  /\ LET v == group
         fs == [free EXCEPT ![v] = SelectSeq(@, LAMBDA k : k # c)]
         ks == [kid EXCEPT ![c] = IF c \in busy[v] THEN "killed" ELSE "none"]
         all == fs[v] = <<>> /\ \A k \in busy[v] : ks[k] = "killed"
     IN IF all THEN Release(v, fs, busy, ks) /\ group' = 0
        ELSE free' = fs /\ kid' = ks /\ UNCHANGED <<group, grefs, busy>>
  /\ UNCHANGED <<boss, call>>

\* killProcess(0) of killAllProcess: every busy child is killed, every free one
\* deleted.
KillAll ==
  /\ group # 0
  /\ LET v == group
         ks == [c \in Kids |-> IF c \in busy[v] THEN "killed" ELSE IF c \in ToSet(free[v]) THEN "none" ELSE kid[c]]
     IN Release(v, [free EXCEPT ![v] = <<>>], busy, ks)
  /\ group' = 0
  /\ UNCHANGED <<boss, call>>

\* refresh: canDestroy deletes children from the end of the free list that have
\* been idle; an object without children is dropped.
Refresh(n) ==
  /\ group # 0 /\ n \in 0..Len(free[group])
  /\ LET v == group
         idle == ToSet(SubSeq(free[v], n + 1, Len(free[v])))
         fs == [free EXCEPT ![v] = SubSeq(@, 1, n)]
         ks == [c \in Kids |-> IF c \in idle THEN "none" ELSE kid[c]]
     IN IF n = 0 /\ busy[v] = {} THEN Release(v, fs, busy, ks) /\ group' = 0
        ELSE free' = fs /\ kid' = ks /\ UNCHANGED <<group, grefs, busy>>
  /\ UNCHANGED <<boss, call>>

KidExits(c) ==
  /\ kid[c] = "up"
  /\ kid' = [kid EXCEPT ![c] = "down"]
  /\ UNCHANGED <<group, grefs, free, busy, boss, call>>

-----------------------------------------------------------------------------
ProcInit ==
  /\ group = 0 /\ boss = 0
  /\ grefs = [v \in Groups |-> 0]
  /\ free = [v \in Groups |-> <<>>]
  /\ busy = [v \in Groups |-> {}]
  /\ kid = [c \in Kids |-> "none"]
  /\ call = [r \in Callers |-> NoCall]

Serve(r) ==
  \/ Refs(r) \/ TakeFree(r) \/ OpenWorks(r) \/ OpenFails(r) \/ NoneFree(r)
  \/ LockCommand(r) \/ PowerFails(r) \/ PowerWorks(r) \/ PowerResult(r)
  \/ TryConnectWorks(r) \/ TryConnectFails(r) \/ UnlockCommand(r)
  \/ EndGetUpstream(r) \/ Finish(r) \/ GcRead(r) \/ GcList(r)

Again(r) ==
  /\ At(r, "done") /\ call[r].turn < Turns[r]
  /\ Go(r, [NoCall EXCEPT !.turn = call[r].turn + 1])
  /\ UNCHANGED <<group, grefs, free, busy, kid, boss>>

ProcNext ==
  \/ \E r \in Callers : Serve(r) \/ Again(r)
  \/ KillAll
  \/ \E n \in 0..Cardinality(Kids) : Refresh(n)
  \/ \E c \in Kids : KillProcess(c) \/ KidExits(c)

-----------------------------------------------------------------------------
(* Properties *)

Users(c) == {r \in Callers : call[r].kid = c}

\* A child serves one request at a time ("MP(多进程,单线程)", KProcessManage.h:33),
\* a free one none, and each child that runs is on one list of an object that is
\* alive or in the hands of the request that has just started it: none is lost
\* and none is deleted while in use, whatever is killed in between.  The
\* references of an object are the map's, those of requests that look for a
\* connection and those of children in use.
KidsOwned ==
  /\ \A c \in Kids :
       LET freeAt == {<<v, i>> \in Groups \X (1..Cardinality(Kids)) : i \in DOMAIN free[v] /\ free[v][i] = c}
           busyAt == {v \in Groups : c \in busy[v]}
           begun  == {r \in Users(c) : At(r, "result")}
       IN /\ Cardinality(freeAt) + Cardinality(busyAt) + Cardinality(begun)
               = IF kid[c] = "none" THEN 0 ELSE 1
          /\ Cardinality(Users(c)) = IF busyAt \cup begun = {} THEN 0 ELSE 1
  /\ \A v \in Groups :
       grefs[v] = (IF group = v THEN 1 ELSE 0) + Cardinality({r \in Callers : call[r].gc = v})
                  + Cardinality({r \in Callers : call[r].own = v})
=============================================================================
