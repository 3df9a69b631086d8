------------------------------ MODULE ConfigTree ------------------------------
(***************************************************************************)
(* The configuration tree (KConfigTree.cpp): files with XML documents, a   *)
(* tree of listeners that are told the difference between the document a   *)
(* file had and the one it has now, reload, edits from the console, saving *)
(* and renaming over several files.                                        *)
(*                                                                         *)
(* A document maps two nodes of the tree to the list of their bodies.      *)
(* "merge" has a listener that keeps the bodies of every file apart and    *)
(* edits its lists as it is told (KTable and its chains); "single" has one *)
(* that uses the node of the first file only and is not of the kind        *)
(* ev_merge (most settings).  Every operation holds `locker` from its      *)
(* first line to its last; what an editor does to the files, and a crash,  *)
(* can still come between the steps of a save.                             *)
(***************************************************************************)
EXTENDS Integers, Sequences, FiniteSets, SequencesExt, FiniteSetsExt

CONSTANTS
  Files,      \* configuration files, 1..n in the order a scan finds them
  Docs,       \* [Files -> set of documents]: [merge: Seq, single: Seq]
  Start,      \* [Files -> Nat \ {0}]: <!--#start N -->, 100 for config.xml
  Factory,    \* the document of config-default.xml
  MaxFails    \* Bound: saves that fail

VARIABLES
  disk,   \* [Files -> [is, doc]]: a document, a typo, <!--#stop--> or no file
  stale,  \* [Files -> BOOLEAN]: last_modified differs from the file's; so it does
          \* for a file that is not known
  mem,    \* [file, order, seen], the running configuration (below)
  op,     \* the operation that holds locker
  unsaved,\* history: files whose running document could not be saved
  fails   \* saves that failed

confVars == <<disk, stale, mem, op, unsaved, fails>>

Keys == {"merge", "single"}
Nil == [merge |-> <<>>, single |-> <<>>]     \* nodes == nullptr
NoFile == [is |-> "none", doc |-> Nil]
Typo == [is |-> "typo", doc |-> Nil]
Stop == [is |-> "stop", doc |-> Nil]
File(doc) == [is |-> "doc", doc |-> doc]
Main == 1                                    \* config.xml, the file "default"
Idle == [at |-> "idle"]

(***************************************************************************)
(* Difference of two lists of bodies (KConfigFile::diff) and its use.      *)
(***************************************************************************)

\* from: the bodies both begin with; then equal bodies are taken off both ends, but
\* one body more than `from` is left of each.
Diff(o, n) ==
  LET from == Max({k \in 0..Min({Len(o), Len(n)}) : \A i \in 1..k : o[i] = n[i]})
      tail == Max({k \in 0..Min({Len(o), Len(n)}) :
                     /\ k = 0 \/ Min({Len(o), Len(n)}) - k >= from + 1
                     /\ \A i \in 0..(k - 1) : o[Len(o) - i] = n[Len(n) - i]})
  IN  [from |-> from, oldTo |-> Len(o) - tail, newTo |-> Len(n) - tail]

\* KTable::on_file_event: bodies from+1..newTo of n go behind the old ones of the
\* range, which are then erased.
OnFileEvent(list, d, n) ==
  SubSeq(list, 1, d.from) \o SubSeq(n, d.from + 1, d.newTo)
    \o SubSeq(list, d.oldTo + 1, Len(list))

(***************************************************************************)
(* KConfigTree::notice.  In m: file[f] is [known, index, nodes], order[k]  *)
(* the list of files that have node k, seen what the listeners have made   *)
(* of the events, factory whether the main file is config-default.xml.     *)
(***************************************************************************)

\* EvNew: a file goes behind the files with a smaller index at the head of the list.
Ahead(m, k, f) ==
  Max({j \in 0..Len(m.order[k]) :
         \A i \in 1..j : m.file[f].index > m.file[m.order[k][i]].index})

\* Mutant: the next file is not announced when the first one goes.
RemovedSilently(m, f, k) ==
  LET rest == SelectSeq(m.order[k], LAMBDA g : g # f) IN
  [m EXCEPT !.order[k] = rest,
            !.seen.merge[f] = IF k = "merge" THEN <<>> ELSE @,
            !.seen.single = IF k = "single" /\ rest = <<>> THEN <<>> ELSE @]

\* EvRemove: a listener without ev_merge hears of the first file only, and gets an
\* update to the next one's node when there is one.
Removed(m, f, k) ==
  LET rest == SelectSeq(m.order[k], LAMBDA g : g # f) IN
  [m EXCEPT !.order[k] = rest,
            !.seen.merge[f] = IF k = "merge" THEN <<>> ELSE @,
            !.seen.single = IF k # "single" \/ Head(m.order[k]) # f THEN @
                            ELSE IF rest = <<>> THEN <<>>
                            ELSE m.file[Head(rest)].nodes.single]

Added(m, f, k, n) ==
  LET a == Ahead(m, k, f) IN
  [m EXCEPT !.order[k] = InsertAt(@, a + 1, f),
            !.seen.merge[f] =
               IF k = "merge" THEN OnFileEvent(@, [from |-> 0, oldTo |-> 0, newTo |-> Len(n)], n) ELSE @,
            !.seen.single = IF k = "single" /\ a = 0 THEN n ELSE @]

Updated(m, f, k, o, n) ==
  [m EXCEPT !.seen.merge[f] = IF k = "merge" THEN OnFileEvent(@, Diff(o, n), n) ELSE @,
            !.seen.single = IF k = "single" /\ Head(m.order[k]) = f THEN n ELSE @]

\* KConfigFile::diff of one node.
DiffNode(m, f, k, n) ==
  LET o == m.file[f].nodes[k] IN
  IF o = n THEN m
  ELSE IF o = <<>> THEN Added(m, f, k, n)
  ELSE IF n = <<>> THEN Removed(m, f, k)
  ELSE Updated(m, f, k, o, n)

\* KConfigFile::update.
Update(m, f, doc) ==
  LET events == DiffNode(DiffNode(m, f, "merge", doc.merge), f, "single", doc.single)
  IN  [events EXCEPT !.file[f].nodes = doc]

(***************************************************************************)
(* Loading.                                                                *)
(***************************************************************************)
Unknown == [known |-> FALSE, index |-> 0, nodes |-> Nil]

\* What a scan finds: config-default.xml stands in for a missing config.xml.
Found(f) == IF f = Main /\ disk[f] = NoFile THEN File(Factory) ELSE disk[f]

\* KConfigFile::load: the index, which is kept until the file is stopped.
LoadedIndex(m, f) ==
  CASE Found(f) = Stop -> 0
    [] m.file[f].index = 0 -> Start[f]
    [] OTHER -> m.file[f].index

\* Mutant: a file that does not load loses its configuration.
PreparedAll(f) == Found(f) # NoFile /\ stale[f]

\* KConfigScanInfoProvider::new_file: the files whose new document will be applied.
\* One that was changed and does not load keeps its running configuration.
Prepared(f) ==
  Found(f) # NoFile /\ Found(f) # Typo /\ stale[f]

\* kconfig::reload: every changed file is loaded, the documents are applied in the order
\* of their indexes, then files that were not found are cleared.
ReloadAll(m) ==
  LET scanned ==
        [m EXCEPT !.factory = disk[Main] = NoFile, !.file = [f \in Files |->
           IF Found(f) # NoFile /\ stale[f]
           THEN [m.file[f] EXCEPT !.known = TRUE, !.index = LoadedIndex(m, f)]
           ELSE m.file[f]]]
      ready == SetToSortSeq({f \in Files : Prepared(f)},
                 LAMBDA f, g : \/ scanned.file[f].index < scanned.file[g].index
                               \/ scanned.file[f].index = scanned.file[g].index /\ f < g)
      applied == FoldLeft(LAMBDA acc, f : Update(acc, f, Found(f).doc), scanned, ready)
      lost == SetToSortSeq({f \in Files : Found(f) = NoFile /\ m.file[f].known}, <)
  IN  FoldLeft(LAMBDA acc, f : [Update(acc, f, Nil) EXCEPT !.file[f] = Unknown], applied, lost)

Reload ==
  /\ op = Idle /\ UNCHANGED <<disk, op, fails>>
  /\ stale' = [f \in Files |-> ~Prepared(f) /\ (stale[f] \/ Found(f) = NoFile)]
  /\ unsaved' = {f \in unsaved : ~Prepared(f) /\ Found(f) # NoFile}
  /\ mem' = ReloadAll(mem)

\* The file a KConfigFile names: config-default.xml after a scan without config.xml.
Named(f) == IF f = Main /\ mem.factory THEN File(Factory) ELSE disk[f]

\* kconfig::reload_config, always forced: KConfigFile::reload of a known file, and a
\* file not known yet is loaded like a scanned one.  A known file that is gone leaves,
\* but the main one stays, without a document.
ReloadOne(f) ==
  LET c == Named(f)
      read == [mem EXCEPT !.file[f].known = TRUE,
                          !.file[f].index = IF c = Stop THEN 0
                                            ELSE IF @ = 0 THEN Start[f] ELSE @]
      gone == Update(mem, f, Nil)
  IN  /\ op = Idle
      /\ mem.file[Main].known   \* the console answers after the first reload
      /\ mem.file[f].known \/ c # NoFile
      /\ mem' = CASE c = Typo -> read
                  [] c = NoFile /\ f # Main -> [gone EXCEPT !.file[f] = Unknown]
                  [] c = NoFile /\ f = Main -> gone
                  [] OTHER -> Update(read, f, c.doc)
      /\ stale' = [stale EXCEPT ![f] = CASE c = Typo -> @
                                         [] c = NoFile -> TRUE
                                         [] OTHER -> f = Main /\ mem.factory /\ disk[f] # NoFile]
      /\ unsaved' = IF c = Typo THEN unsaved ELSE unsaved \ {f}
      /\ UNCHANGED <<disk, op, fails>>

(***************************************************************************)
(* Saving (KConfigFile::save, KDefaultConfigFileDriver::save).  op.todo    *)
(* are the files still to be saved, the first one at `step`.               *)
(***************************************************************************)
Saving(kind, todo, orig, undo) ==
  [at |-> "unlink", kind |-> kind, todo |-> todo, orig |-> orig, undo |-> undo, done |-> <<>>]

\* The console changes one node of a file (update, add, remove, move_down): a clone of
\* the document is edited, its difference announced and the file saved.
Inserted(l, b) == {InsertAt(l, i, b) : i \in 1..(Len(l) + 1)}
Edits(l, bodies) ==
  UNION {Inserted(l, b) : b \in bodies}
    \cup {RemoveAt(l, i) : i \in DOMAIN l}
    \cup {[l EXCEPT ![i] = b] : i \in DOMAIN l, b \in bodies}
    \cup {[l EXCEPT ![i] = l[i + 1], ![i + 1] = l[i]] : i \in 1..(Len(l) - 1)}

ConsoleEdit(f, k, doc) ==
  /\ op = Idle
  /\ mem.file[f].known /\ mem.file[f].nodes # Nil
  /\ doc[k] \in Edits(mem.file[f].nodes[k], {1, 2}) \ {mem.file[f].nodes[k]}
  /\ \A h \in Keys \ {k} : doc[h] = mem.file[f].nodes[h]
  /\ mem' = Update(mem, f, doc)
  /\ op' = Saving("edit", <<f>>, <<>>, FALSE)
  /\ UNCHANGED <<disk, stale, unsaved, fails>>

\* kconfig::rename_table over the files that name the table: what is called a becomes b,
\* first in the file that defines it.  b must be free.
Rewrite(doc, a, b) == [doc EXCEPT !.merge = [i \in DOMAIN @ |-> IF @[i] = a THEN b ELSE @[i]]]
Names(m) == UNION {Range(m.file[f].nodes.merge) : f \in Files}
RenameStart(a, b) ==
  LET todo == SetToSortSeq({f \in Files : a \in Range(mem.file[f].nodes.merge)}, <) IN
  /\ op = Idle
  /\ a \in Names(mem) /\ b \notin Names(mem)
  /\ mem' = Update(mem, Head(todo), Rewrite(mem.file[Head(todo)].nodes, a, b))
  /\ op' = [Saving("rename", todo, [f \in Files |-> mem.file[f].nodes], FALSE)
              EXCEPT !.done = <<a, b>>]
  /\ UNCHANGED <<disk, stale, unsaved, fails>>

\* The document is written to a file of its own, the old file unlinked and the new one
\* renamed; what happens to the first one alone changes nothing a reload sees.
SaveUnlink ==
  /\ op.at = "unlink"
  /\ disk' = [disk EXCEPT ![Head(op.todo)] = NoFile]
  /\ stale' = [stale EXCEPT ![Head(op.todo)] = TRUE]
  /\ op' = [op EXCEPT !.at = "move"]
  /\ UNCHANGED <<mem, unsaved, fails>>

\* Mutant: the file whose save failed is not taken back.
RollBackEarlier(files, orig) ==
  FoldLeft(LAMBDA acc, f : Update(acc, f, orig[f]), mem, Front(files))

\* Every file up to the one that failed gets its old document back (each is saved again
\* in the steps that follow).
RollBack(files, orig) ==
  FoldLeft(LAMBDA acc, f : Update(acc, f, orig[f]), mem, files)

\* The files of a renaming that have been changed, the one being saved last.
Changed == SelectSeq(SetToSortSeq(Files, <),
             LAMBDA f : op.orig[f] # mem.file[f].nodes)

\* A save is over: the next file of a renaming, or the end of the operation.
AfterSave(saved) ==
  LET rest == Tail(op.todo)
      a == op.done[1]
      b == op.done[2]
  IN  CASE op.kind = "edit" -> op' = Idle /\ UNCHANGED mem
        [] op.kind = "rename" /\ ~op.undo /\ ~saved ->
             /\ mem' = RollBack(Changed, op.orig)
             /\ op' = [op EXCEPT !.at = "unlink", !.todo = Changed, !.undo = TRUE]
        [] op.kind = "rename" /\ (op.undo \/ saved) /\ rest = <<>> ->
             op' = Idle /\ UNCHANGED mem
        [] op.kind = "rename" /\ op.undo /\ rest # <<>> ->
             op' = [op EXCEPT !.at = "unlink", !.todo = rest] /\ UNCHANGED mem
        [] op.kind = "rename" /\ ~op.undo /\ saved /\ rest # <<>> ->
             /\ mem' = Update(mem, Head(rest), Rewrite(mem.file[Head(rest)].nodes, a, b))
             /\ op' = [op EXCEPT !.at = "unlink", !.todo = rest]

SaveMove ==
  LET f == Head(op.todo) IN
  /\ op.at = "move"
  /\ disk' = [disk EXCEPT ![f] = File(mem.file[f].nodes)]
  /\ stale' = [stale EXCEPT ![f] = (f = Main /\ mem.factory)]
  /\ unsaved' = unsaved \ {f}
  /\ AfterSave(TRUE)
  /\ UNCHANGED fails

\* Writing, unlinking or renaming fails; in the last case the old file is gone.
SaveFails ==
  /\ op.at \in {"unlink", "move"} /\ fails < MaxFails
  /\ fails' = fails + 1
  /\ unsaved' = unsaved \cup {Head(op.todo)}
  /\ AfterSave(FALSE)
  /\ UNCHANGED <<disk, stale>>

(***************************************************************************)
(* The world outside: an editor, and a crash with the restart after it.    *)
(***************************************************************************)
Edit(f, c) ==
  /\ c # disk[f]
  /\ disk' = [disk EXCEPT ![f] = c]
  /\ stale' = [stale EXCEPT ![f] = TRUE]
  /\ UNCHANGED <<mem, op, unsaved, fails>>

Empty == [file |-> [f \in Files |-> Unknown], factory |-> FALSE,
          order |-> [k \in Keys |-> <<>>],
          seen |-> [merge |-> [f \in Files |-> <<>>], single |-> <<>>]]

Crash ==
  /\ mem # Empty
  /\ mem' = Empty /\ op' = Idle /\ unsaved' = {}
  /\ stale' = [f \in Files |-> TRUE]
  /\ UNCHANGED <<disk, fails>>

ConfInit ==
  /\ disk = [f \in Files |-> NoFile]
  /\ stale = [f \in Files |-> TRUE]
  /\ mem = Empty /\ op = Idle /\ unsaved = {} /\ fails = 0

ConfNext ==
  \/ Reload
  \/ \E f \in Files : ReloadOne(f)
  \/ \E f \in Files : \E k \in Keys, doc \in Docs[f] : ConsoleEdit(f, k, doc)
  \/ \E a, b \in {1, 2} : RenameStart(a, b)
  \/ SaveUnlink \/ SaveMove \/ SaveFails
  \/ \E f \in Files : \E c \in {File(d) : d \in Docs[f]} \cup {NoFile, Typo, Stop} : Edit(f, c)
  \/ Crash

(***************************************************************************)
(* Properties.                                                             *)
(***************************************************************************)

\* What the listeners have made of all the events they were sent is what the files say:
\* a merging listener has the bodies of every file in their order, another one those of
\* the file with the smallest index (KConfigTree::notice, KConfigFile::diff).
InForce ==
  LET having == {f \in Files : mem.file[f].nodes.single # <<>>} IN
  /\ \A f \in Files : mem.seen.merge[f] = mem.file[f].nodes.merge
  /\ IF having = {} THEN mem.seen.single = <<>>
     ELSE \E f \in having :
            /\ \A g \in having : mem.file[f].index <= mem.file[g].index
            /\ mem.seen.single = mem.file[f].nodes.single

\* After a reload every file that can be read runs as it is on disk, unless the last
\* change from the console could not be saved; a stopped or missing one has no
\* configuration, and one that does not load runs as before ("A typo in config.xml used
\* to remove every listen and vhost", KConfigScanInfoProvider::new_file).
ReloadConverges ==
  [][Reload =>
       \A f \in Files :
         CASE Found(f) = Typo -> mem'.file[f].nodes = mem.file[f].nodes /\ mem'.file[f].known
           [] Found(f) = NoFile -> ~mem'.file[f].known
           [] OTHER -> (f \in unsaved \/ mem'.file[f].nodes = Found(f).doc)]_confVars

\* Renaming a table changes every file or, when one cannot be saved, none: neither the
\* running configuration nor the files are left with both names, except files whose
\* saving failed again or that were changed by hand meanwhile (kconfig::rename_table).
RenameAllOrNothing ==
  [][(op.at # "idle" /\ op'.at = "idle" /\ mem' # Empty) =>
       (op.kind = "rename" =>
          /\ IF op.undo THEN \A f \in Files : mem'.file[f].nodes = op.orig[f]
             ELSE op.done[1] \notin Names(mem')
          /\ \A f \in Files :
               \/ f \in unsaved' \/ stale'[f] \/ ~(disk'[f].is = "doc")
               \/ disk'[f].doc = mem'.file[f].nodes)]_confVars
===============================================================================
