----------------------------- MODULE AccessChains -----------------------------
(***************************************************************************)
(* Access control of one KAccess: tables of chains, the configuration      *)
(* events that change them and the walk a request makes through them       *)
(* (KAccess.cpp, KTable.cpp, KChain.h/.cpp, the console's table handlers). *)
(*                                                                         *)
(* A table is an OBJECT.  A chain with the action table:NAME keeps the     *)
(* object the name had when the chain was parsed (KSafeJump), so a name    *)
(* and the objects chains hold may come apart.  Every configuration event  *)
(* runs under the write lock of the KAccess and a walk under its read      *)
(* lock: each is one step, and the walk is an operator (Check), evaluated  *)
(* in every state for every answer the ACL modules can give.               *)
(***************************************************************************)
EXTENDS Naturals, Sequences, FiniteSets, SequencesExt

CONSTANTS
  Forms,      \* the <chain> elements an administrator writes into a table
  Names,      \* names of tables; "BEGIN" is the entry table
  Objs,       \* KTable objects, 1..n; 0 is the null pointer
  Files,      \* configuration files with chains, 1..n in loading order
  Room,       \* most chains of a table in a file: [Names -> [Files -> Nat]]
  MaxJumps,   \* table jumps allowed in one walk (32 in KTable::match)
  Truths,     \* what the ACL modules may answer: [acl -> BOOLEAN]
  Defaults    \* default actions of <request action='...'>

VARIABLES
  tabs,    \* [Objs -> [name, chains: [Files -> Seq(chain)]]]
  names,   \* KAccess::tables: [Names -> Objs \cup {0}]
  bound,   \* the KTable bound to the node table@NAME of the configuration tree
  dflt,    \* KAccess::default_jump_type
  asked,   \* a table the console has found deletable and not deleted yet
  overtaken, \* history: an event about that table came in between
  gone     \* history: a table was removed while chains held it

accessVars == <<tabs, names, bound, dflt, asked, overtaken, gone>>

NoName == "none"
FreeTable == [name |-> NoName, chains |-> [f \in Files |-> <<>>]]

(***************************************************************************)
(* Chains.  An element of acls and of marks is [m, neg, or]: the module,   *)
(* revers and or.                                                          *)
(***************************************************************************)

\* KTable::parse_chain over KChain::parse_config: a chain that cannot be parsed
\* is replaced by a fresh one, which matches everything and does nothing.
ParseChain(form, o) ==
  IF form.act = "bad"
  THEN [acls |-> <<>>, marks |-> <<>>, act |-> "continue", to |-> 0, jump |-> 0]
  ELSE [acls |-> form.acls, marks |-> form.marks, act |-> form.act,
        to |-> form.to, jump |-> o]

\* The tables chains jump to, and the chains that jump to table o.
Held(ts) == UNION {{c.jump : c \in Range(ts[o].chains[f])} : o \in Objs, f \in Files} \ {0}
Holders(ts, o) ==
  {p \in Objs \X Files \X (1..3) :
     /\ p[3] \in DOMAIN ts[p[1]].chains[p[2]]
     /\ ts[p[1]].chains[p[2]][p[3]].jump = o}

\* A KTable is deleted with its last reference: the map, the tree and chains.
Collect(ts, ns, bs) ==
  LET used == Held(ts) \cup Range(ns) \cup Range(bs) IN
  [o \in Objs |-> IF o \in used THEN ts[o] ELSE FreeTable]

Fresh(ts) == CHOOSE o \in Objs : ts[o] = FreeTable /\
                \A q \in Objs : ts[q] = FreeTable => o <= q
HasFresh(ts) == \E o \in Objs : ts[o] = FreeTable

\* KAccess::get_table: the object of a name, made when there is none.
GetTable(n) == IF names[n] # 0 THEN names[n] ELSE Fresh(tabs)

Commit(ts, ns, bs) ==
  tabs' = Collect(ts, ns, bs) /\ names' = ns /\ bound' = bs

\* An event about table n comes between the console's question and its deletion.
Touch(n) == overtaken' = (overtaken \/ (n = asked /\ n # NoName))

(***************************************************************************)
(* Configuration events (KAccess::on_config_event, KTable::on_config_event)*)
(***************************************************************************)

\* EvNew | EvSubDir of a table.
TableNew(n) ==
  LET o == GetTable(n) IN
  /\ bound[n] = 0 /\ (names[n] = 0 => HasFresh(tabs))
  /\ Commit([tabs EXCEPT ![o].name = n],
            [names EXCEPT ![n] = o], [bound EXCEPT ![n] = o])
  /\ Touch(n)
  /\ UNCHANGED <<dflt, asked, gone>>

\* EvRemove | EvSubDir of a table: its chains have been removed by their own
\* events before; the name is erased and the object cleared, whoever holds it.
RemoveEvent(n) ==
  /\ bound[n] # 0
  /\ Commit([tabs EXCEPT ![bound[n]].chains = [f \in Files |-> <<>>]],
            [names EXCEPT ![n] = 0], [bound EXCEPT ![n] = 0])

\* Some chain outside the table jumps to it.
HeldOutside(n) == bound[n] \in Held([tabs EXCEPT ![bound[n]] = FreeTable])

\* A reload finds the table missing from its files; nobody asks for references.
ReloadRemoves(n) ==
  /\ RemoveEvent(n)
  /\ gone' = HeldOutside(n)
  /\ Touch(n)
  /\ UNCHANGED <<dflt, asked>>

\* Mutant: the references of chains are not looked at.
CanDeleteHeld(n) ==
  /\ names[n] # 0 /\ n # "BEGIN"
  /\ \A f \in Files : tabs[names[n]].chains[f] = <<>>

\* KAccess::can_delete_table: map and tree hold a table; any further reference is a
\* chain's.
CanDelete(n) ==
  /\ names[n] # 0 /\ n # "BEGIN"
  /\ Cardinality(Holders(tabs, names[n])) + 1
       + (IF bound[n] = names[n] THEN 1 ELSE 0) <= 2
  /\ \A f \in Files : tabs[names[n]].chains[f] = <<>>

\* Console /tabledel: the question under the read lock, the removal later under the
\* lock of the configuration, as its own event.  The table's node may be gone by then.
AskDelete(n) ==
  /\ asked = NoName /\ CanDelete(n)
  /\ asked' = n
  /\ UNCHANGED <<tabs, names, bound, dflt, overtaken, gone>>
DoDelete ==
  /\ asked # NoName
  /\ asked' = NoName /\ overtaken' = FALSE
  /\ IF bound[asked] # 0
     THEN RemoveEvent(asked) /\ gone' = (overtaken /\ HeldOutside(asked))
     ELSE UNCHANGED <<tabs, names, bound, gone>>
  /\ UNCHANGED dflt

\* KTable::on_file_event: new chains are inserted behind the old ones of the range
\* from..old_to, then the old ones are erased.
OnFileEvent(s, from, oldTo, new) ==
  LET k == oldTo - from
      inserted == SubSeq(s, 1, from + k) \o new \o SubSeq(s, from + k + 1, Len(s))
  IN  SubSeq(inserted, 1, from) \o SubSeq(inserted, from + k + 1, Len(inserted))

\* KTable::on_config_event: the chains from+1..oldTo of file f become new.  Parsing
\* table:NAME looks the name up and makes the table when it does not exist.
ChainsChange(n, f, from, oldTo, forms) ==
  LET o == bound[n]
      s == tabs[o].chains[f]
      to == {x.to : x \in {y \in Range(forms) : y.act = "table"}}
      target == IF to = {} THEN NoName ELSE CHOOSE x \in to : TRUE
      t == IF target = NoName THEN 0 ELSE GetTable(target)
      made == IF t = 0 THEN tabs ELSE [tabs EXCEPT ![t].name = target]
      new == [i \in DOMAIN forms |->
                ParseChain(forms[i], IF forms[i].act = "table" THEN t ELSE 0)]
  IN  /\ o # 0 /\ from <= oldTo /\ oldTo <= Len(s)
      /\ (from < oldTo \/ forms # <<>>)
      /\ Len(s) - (oldTo - from) + Len(forms) <= Room[n][f]
      /\ (target # NoName => names[target] # 0 \/ HasFresh(tabs))
      /\ Commit([made EXCEPT ![o].chains[f] = OnFileEvent(@, from, oldTo, new)],
                IF t = 0 THEN names ELSE [names EXCEPT ![target] = t], bound)
      /\ Touch(target)
      /\ UNCHANGED <<dflt, asked, gone>>

\* KAccess::parse_config: <request action='...'> changes the default action.
SetDefault(a) ==
  /\ a # dflt /\ dflt' = a
  /\ UNCHANGED <<tabs, names, bound, asked, overtaken, gone>>

AccessInit ==
  /\ tabs = [o \in Objs |-> IF o = 1 THEN [FreeTable EXCEPT !.name = "BEGIN"] ELSE FreeTable]
  /\ names = [n \in Names |-> IF n = "BEGIN" THEN 1 ELSE 0]
  /\ bound = names
  /\ dflt \in Defaults
  /\ asked = NoName /\ overtaken = FALSE /\ gone = FALSE

\* Bound: nothing is compared once a held table is gone, so the model stops there.
AccessNext ==
 /\ ~gone
 /\ \/ \E n \in Names : TableNew(n) \/ ReloadRemoves(n) \/ AskDelete(n)
    \/ DoDelete
    \/ \E n \in Names, f \in Files, from \in 0..1 :
          \/ \E x \in Forms[n] : ChainsChange(n, f, from, from, <<x>>) \* a chain is added
          \/ ChainsChange(n, f, from, from + 1, <<>>)              \* removed
    \/ \E n \in Names : \E x \in Forms[n] : ChainsChange(n, 1, 0, 1, <<x>>)  \* edited
    \/ \E a \in Defaults : SetDefault(a)

(***************************************************************************)
(* The walk of a request.  `at` says which mark gave the source.           *)
(***************************************************************************)
NoSource == <<>>
Gives(m) == m \in {"before", "after"}    \* the mark sets fo

\* An ACL module's answer with revers applied.
AclValue(a, truth) == truth[a.m] # a.neg

\* The ACL loop of KChain::match from the i-th ACL.
RECURSIVE AclLoop(_, _, _, _, _)
AclLoop(acls, i, result, lastOr, truth) ==
  IF i > Len(acls) THEN result
  ELSE IF result /\ lastOr THEN AclLoop(acls, i + 1, result, acls[i].or, truth)
  ELSE LET r == AclValue(acls[i], truth) IN
       IF ~r /\ ~acls[i].or THEN r ELSE AclLoop(acls, i + 1, r, acls[i].or, truth)

\* A mark's result with revers applied; every kind but "false" returns true.
MarkValue(k) == (k.m # "false") # k.neg

\* The mark loop of KChain::match: what it returns and the mark that gave a source.
RECURSIVE MarkLoop(_, _, _, _, _)
MarkLoop(marks, i, result, lastOr, deferred) ==
  IF i > Len(marks)
  THEN [is |-> IF ~result THEN "no" ELSE IF deferred THEN "defer" ELSE "yes", by |-> 0]
  ELSE IF result /\ lastOr THEN MarkLoop(marks, i + 1, result, marks[i].or, deferred)
  ELSE LET k == marks[i]
           later == deferred \/ k.m = "defer"
       IN  IF k.m = "finish" THEN [is |-> "finish", by |-> 0]
           ELSE IF Gives(k.m) THEN [is |-> "source", by |-> i]
           ELSE IF ~MarkValue(k) /\ ~k.or THEN [is |-> "no", by |-> 0]
           ELSE MarkLoop(marks, i + 1, MarkValue(k), k.or, later)

\* KChain::match.
ChainMatch(c, truth) ==
  IF AclLoop(c.acls, 1, TRUE, FALSE, truth)
  THEN MarkLoop(c.marks, 1, TRUE, FALSE, FALSE)
  ELSE [is |-> "no", by |-> 0]

\* KTable::match from chain i of file f of table o: the jump type returned, the
\* source set so far and the number of tables jumped to.
RECURSIVE TableMatch(_, _, _, _, _, _)
TableMatch(o, f, i, src, jumps, truth) ==
  IF f > Cardinality(Files) THEN [v |-> "continue", src |-> src, jumps |-> jumps]
  ELSE IF i > Len(tabs[o].chains[f]) THEN TableMatch(o, f + 1, 1, src, jumps, truth)
  ELSE
  LET c == tabs[o].chains[f][i]
      r == ChainMatch(c, truth)
      given == IF r.is = "source" THEN <<tabs[o].name, f, i, c.marks[r.by].m>> ELSE src
      Stop(v) == [v |-> v, src |-> given, jumps |-> jumps]
      Go(k) == TableMatch(o, f, k, given, jumps, truth)
  IN  IF r.is = "defer" THEN Go(i + 1)
      ELSE IF given # NoSource THEN Stop(c.act)
      ELSE IF r.is = "no" THEN Go(i + 1)
      ELSE IF r.is = "finish" THEN Stop("deny")
      ELSE IF c.act = "continue" THEN Go(i + 1)
      ELSE IF c.act = "skip" THEN Go(IF c.to > i THEN c.to + 1 ELSE i + 1)
      ELSE IF c.act # "table" THEN Stop(c.act)
      ELSE IF jumps + 1 > MaxJumps
           THEN [v |-> "deny", src |-> given, jumps |-> jumps + 1]
      ELSE LET nested == TableMatch(c.jump, 1, 1, given, jumps + 1, truth) IN
           IF nested.v # "continue" THEN nested
           ELSE TableMatch(o, f, i + 1, nested.src, nested.jumps, truth)

\* What KAccess::check makes of the jump type and the source: a source decides by the
\* stage it works at, return and continue mean the default action, server answers with
\* a source of its own (proxy and wback are like it).
Concluded(r) ==
  LET v == IF r.v \in {"return", "continue"} THEN dflt ELSE r.v IN
  IF r.src # NoSource
  THEN [v |-> IF r.src[4] = "before" THEN "deny" ELSE "allow", src |-> r.src]
  ELSE IF v = "server" THEN [v |-> "allow", src |-> <<"jump">>]
  ELSE [v |-> v, src |-> NoSource]

\* KAccess::check.
Check(truth) ==
  LET r == IF bound["BEGIN"] = 0
           THEN [v |-> dflt, src |-> NoSource, jumps |-> 0]
           ELSE TableMatch(bound["BEGIN"], 1, 1, NoSource, 0, truth)
  IN  [is |-> Concluded(r), jumps |-> r.jumps]

(***************************************************************************)
(* What docs/acl_mark.md says of the same tables, without loops and by the *)
(* NAMES of tables: groups of OR-ed modules, the first chain that decides. *)
(***************************************************************************)

\* `or` joins a module to the next one: the first and last module of i's group.
FirstOf(ms, i) == CHOOSE a \in 1..i : (a = 1 \/ ~ms[a - 1].or) /\ \A b \in a..(i - 1) : ms[b].or
Group(ms, i) == {j \in DOMAIN ms : FirstOf(ms, j) = FirstOf(ms, i)}

AclsHold(c, truth) ==
  \A i \in DOMAIN c.acls : \E j \in Group(c.acls, i) : AclValue(c.acls[j], truth)

\* A mark runs when the groups before it hold, nothing before it in its own group does
\* and no mark that ran before has ended the chain.
Runs(c) ==
  LET ms == c.marks
      R[k \in 1..Len(ms)] ==
        \A j \in 1..(k - 1) :
          /\ R[j] => ms[j].m # "finish" /\ ~Gives(ms[j].m)
          /\ IF j \in Group(ms, k) THEN ~MarkValue(ms[j])
             ELSE \E h \in Group(ms, j) : MarkValue(ms[h])
  IN  {k \in 1..Len(ms) : R[k]}

\* The marks of a chain that ran and are of one of the kinds.
Ran(c, kinds) == {k \in Runs(c) : c.marks[k].m \in kinds}

Outcome(c, truth) ==
  IF ~AclsHold(c, truth) THEN "no"
  ELSE IF Ran(c, {"before", "after"}) # {} THEN "source"
  ELSE IF Ran(c, {"finish"}) # {} THEN "finish"
  ELSE IF \E i \in DOMAIN c.marks : \A j \in Group(c.marks, i) : ~MarkValue(c.marks[j]) THEN "no"
  ELSE IF Ran(c, {"defer"}) # {} THEN "defer" ELSE "yes"

\* The verdict of the table called n, `depth` jumps below BEGIN: that of the first chain
\* that is reached (not skipped over) and decides.  `late` tells that a table jumped to
\* gave a source with the action continue, of which the document does not speak.
RECURSIVE Documented(_, _, _)
Documented(n, depth, truth) ==
  LET chains == IF names[n] = 0 THEN FreeTable.chains ELSE tabs[names[n]].chains
      At(p) == chains[p[1]][p[2]]
      places == {p \in Files \X (1..3) : p[2] \in DOMAIN chains[p[1]]}
      Before(p, q) == p[1] < q[1] \/ (p[1] = q[1] /\ p[2] < q[2])
      out == [p \in places |-> Outcome(At(p), truth)]
      Reached[p \in places] ==
        \A q \in places :
          (q[1] = p[1] /\ q[2] < p[2] /\ At(q).act = "skip" /\ out[q] = "yes" /\ Reached[q])
            => p[2] > At(q).to
      reached == {p \in places : Reached[p]}
      nested == [p \in {q \in reached : out[q] = "yes" /\ At(q).act = "table"} |->
                   IF depth + 1 > MaxJumps THEN [v |-> "deny", src |-> NoSource, late |-> FALSE]
                   ELSE Documented(At(p).to, depth + 1, truth)]
      Decides(p) == \/ out[p] \in {"source", "finish"}
                    \/ out[p] = "yes" /\ At(p).act \notin {"continue", "skip", "table"}
                    \/ p \in DOMAIN nested /\ (nested[p].v # "continue" \/ nested[p].src # NoSource)
      deciding == {p \in reached : Decides(p)}
      first == CHOOSE p \in deciding : \A q \in deciding : p = q \/ Before(p, q)
  IN  IF deciding = {} THEN [v |-> "continue", src |-> NoSource, late |-> FALSE]
      ELSE IF first \in DOMAIN nested
      THEN [nested[first] EXCEPT !.late = @ \/ nested[first].v = "continue"]
      ELSE IF out[first] = "source"
      THEN [v |-> At(first).act, late |-> FALSE,
            src |-> <<n, first[1], first[2],
                      At(first).marks[CHOOSE k \in Ran(At(first), {"before", "after"}) : TRUE].m>>]
      ELSE [v |-> IF out[first] = "finish" THEN "deny" ELSE At(first).act,
            src |-> NoSource, late |-> FALSE]

\* Every request gets the verdict, and the source, that docs/acl_mark.md promises for
\* the tables as they are NAMED now, whatever was added, edited, removed and made again
\* before: the jump a chain keeps still leads to the table of that name.  Excepted are a
\* name that a reload (or a deletion overtaken by a new rule) removed while chains still
\* jumped to it, a walk with more than MaxJumps jumps in all, which is denied although
\* the document limits the depth, and the late source above.
VerdictAsDocumented ==
  ~gone =>
    \A truth \in Truths :
      LET code == Check(truth) IN
      IF code.jumps > MaxJumps THEN code.is = [v |-> "deny", src |-> NoSource]
      ELSE IF bound["BEGIN"] = 0 THEN code.is.v \in {dflt, "allow"}
      ELSE LET doc == Documented("BEGIN", 0, truth) IN
           doc.late \/ code.is = Concluded(doc)
===============================================================================
