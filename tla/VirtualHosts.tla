---------------------------- MODULE VirtualHosts ----------------------------
(***************************************************************************)
(* Virtual hosts and listeners: KVirtualHostManage, KDynamicListen and the  *)
(* host tables of the listeners (KVirtualHostContainer, KDomainMap), with   *)
(* the connection limit of a host (KConnectionLimit).                       *)
(*                                                                         *)
(* Configuration events run one at a time under the manager's lock.         *)
(* Requests look hosts up without it: each listener's table has a lock of   *)
(* its own, so a request may come between any two changes of tables that    *)
(* an event makes.  A step of an event below changes one table.             *)
(***************************************************************************)
EXTENDS Naturals, FiniteSets, SequencesExt

CONSTANTS Names,       \* names of virtual hosts
          Configs,     \* what <vh> of each name may say: hosts, binds, max_connect
          GlobalSets,  \* what one <listen> may say: an address and whether TLS
          Taken,       \* addresses whose bind may fail
          MaxListens,  \* bound: number of <listen> elements
          Sites,       \* host names requests ask for, last label first
          Clients,     \* requests
          Room,        \* addresses of KVirtualHost objects, by the host's name
          Limits       \* addresses of KConnectionLimit objects

VARIABLES avh,      \* the host of each name, or 0
          vhs,      \* KVirtualHost objects: configuration, limit, references
          listens,  \* the listeners by address
          services, \* conf.services: the <listen> elements in force
          event,    \* the configuration event being handled
          cnt,      \* cur_connect of each limit
          asks      \* the requests

hostVars == <<avh, vhs, listens, services, event, cnt, asks>>

None == <<0, 0>>
VhObjs == UNION {Room[n] : n \in Names}

-----------------------------------------------------------------------------
(* KDomainMap: a tree of labels, as a function from the paths of its nodes;  *)
(* a node has a list of exact and a list of wide bindings.                   *)

EmptyNode == [exact |-> <<>>, wide |-> <<>>]
NewTree == (<<>> :> EmptyNode)

Side(h) == IF h.wide THEN "wide" ELSE "exact"

\* add: nodes on the way are created; dynamic bindings go first, global last.
TreeAdd(t, h, high, svh) ==
  LET way == {SubSeq(h.name, 1, n) : n \in 0..Len(h.name)}
      u == [p \in DOMAIN t \cup way |-> IF p \in DOMAIN t THEN t[p] ELSE EmptyNode]
  IN [u EXCEPT ![h.name][Side(h)] = IF high THEN <<svh>> \o @ ELSE Append(@, svh)]

\* An emptied node is removed, and its parent if that leaves it empty.
RECURSIVE Pruned(_, _)
Pruned(t, path) ==
  IF path = <<>> \/ t[path] # EmptyNode \/ \E p \in DOMAIN t : IsStrictPrefix(path, p) THEN t
  ELSE Pruned([p \in DOMAIN t \ {path} |-> t[p]], Front(path))

\* del: the first binding to this host.
TreeDel(t, h, svh) ==
  IF h.name \notin DOMAIN t \/ ~Contains(t[h.name][Side(h)], svh) THEN t
  ELSE Pruned([t EXCEPT ![h.name][Side(h)] = RemoveFirst(@, svh)], h.name)

\* find: an exact binding of the whole name, else a wide one of the deepest node
\* above it.
RECURSIVE FindBelow(_, _, _)
FindBelow(t, path, rest) ==
  LET list(l) == IF l = <<>> THEN None ELSE Head(l) IN
  IF rest = <<>> THEN list(t[path].exact)
  ELSE LET child == Append(path, Head(rest))
           below == IF child \in DOMAIN t THEN FindBelow(t, child, Tail(rest)) ELSE None
       IN IF below # None THEN below ELSE list(t[path].wide)

Find(t, site) == FindBelow(t, <<>>, site)

\* bind_vh and unbind_vh: all hosts of a virtual host, under the table's lock.
BindVh(t, o, high) ==
  FoldLeftDomain(LAMBDA u, i : TreeAdd(u, vhs[o].conf.hosts[i], high, <<o, i>>), t, vhs[o].conf.hosts)
UnbindVh(t, o) ==
  FoldLeftDomain(LAMBDA u, i : TreeDel(u, vhs[o].conf.hosts[i], <<o, i>>), t, vhs[o].conf.hosts)

-----------------------------------------------------------------------------
(* What an event has to do, in order *)

Entered == {avh[n] : n \in Names} \ {0}
IsGlobal(o) == vhs[o].conf.binds = <<>>
Globals == SetToSeq({o \in Entered : IsGlobal(o)})
GlobalKeys == SetToSeq({k \in DOMAIN listens : listens[k].flag})

Add(b, g, o) == [do |-> "add", key |-> b.key, ssl |-> b.ssl, global |-> g, vh |-> o]
Del(b, g, o) == [Add(b, g, o) EXCEPT !.do = "del"]
Bind(k, o, high) == [do |-> IF high THEN "bindhigh" ELSE "bindlow", key |-> k, vh |-> o]
Unbind(k, o) == [do |-> "unbind", key |-> k, vh |-> o]
Register(n, o) == [do |-> "register", key |-> n, vh |-> o]
Map(s, Op(_)) == [i \in DOMAIN s |-> Op(s[i])]

\* InternalBindVirtualHost and InternalUnBindVirtualHost: a host without binds
\* belongs to every global listener.
BindAll(o, c) ==
  IF c.binds = <<>> THEN Map(GlobalKeys, LAMBDA k : Bind(k, o, FALSE))
  ELSE Map(c.binds, LAMBDA b : Add(b, 0, o))
UnbindAll(o) ==
  IF IsGlobal(o) THEN Map(GlobalKeys, LAMBDA k : Unbind(k, o))
  ELSE Map(vhs[o].conf.binds, LAMBDA b : Del(b, 0, o))

\* Mutant: the old host is unbound before the new one is bound.
UnbindFirst(o, c, old) == UnbindAll(old) \o BindAll(o, c) \o <<Register(c.vh, o)>>

\* updateVirtualHost: the new host is bound before the old one is unbound.
BindFirst(o, c, old) == BindAll(o, c) \o <<Register(c.vh, o)>> \o UnbindAll(old)

-----------------------------------------------------------------------------
(* KVirtualHostManage::on_config_event *)

Conf == [n \in Names |-> IF avh[n] = 0 THEN <<>> ELSE <<vhs[avh[n]].conf>>]
Told(todo, keeps, confs, lists) ==
  event' = [busy |-> TRUE, todo |-> todo, keeps |-> keeps,
            confs |-> <<Conf, confs>>, lists |-> <<services, lists>>]

NoEvent == [busy |-> FALSE, todo |-> <<>>, keeps |-> {}, confs |-> <<>>, lists |-> <<>>]
Quiet == ~event.busy

NewObj(n) == CHOOSE o \in Room[n] : vhs[o].refs = 0
NewLimit == CHOOSE l \in Limits : \A o \in VhObjs : vhs[o].lim # l /\ \A r \in Clients : asks[r].lim # l

\* initConnect: the limit of the old host is taken over, if both have one.
InitConnect(c, old) == IF c.max = 0 THEN 0
                       ELSE IF old # 0 /\ vhs[old].lim # 0 THEN vhs[old].lim ELSE NewLimit

\* Two references: the configuration tree's and the handler's own.
Create(c, old) == [conf |-> c, lim |-> InitConnect(c, old), refs |-> 2]

VhNew(n, c) ==
  /\ Quiet /\ avh[n] = 0
  /\ LET new == NewObj(n)
     IN /\ vhs' = [vhs EXCEPT ![new] = Create(c, 0)]
        /\ cnt' = IF vhs'[new].lim = 0 THEN cnt ELSE [cnt EXCEPT ![vhs'[new].lim] = 0]
        /\ Told(BindAll(new, c) \o <<Register(n, new)>>, {new}, [Conf EXCEPT ![n] = <<c>>], services)
  /\ UNCHANGED <<avh, listens, services, asks>>

\* The handler takes the tree's reference to the old host, and the map lets go.
VhUpdate(n, c) ==
  /\ Quiet /\ avh[n] # 0 /\ vhs[avh[n]].conf # c
  /\ LET old == avh[n]
         new == NewObj(n)
     IN /\ vhs' = [vhs EXCEPT ![new] = Create(c, old), ![old].refs = @ - 1]
        /\ cnt' = IF vhs'[new].lim \in {0, vhs[old].lim} THEN cnt
                  ELSE [cnt EXCEPT ![vhs'[new].lim] = 0]
        /\ Told(BindFirst(new, c, old), {old, new}, [Conf EXCEPT ![n] = <<c>>], services)
  /\ avh' = [avh EXCEPT ![n] = 0]
  /\ UNCHANGED <<listens, services, asks>>

VhRemove(n) ==
  /\ Quiet /\ avh[n] # 0
  /\ vhs' = [vhs EXCEPT ![avh[n]].refs = @ - 1]
  /\ Told(UnbindAll(avh[n]), {avh[n]}, [Conf EXCEPT ![n] = <<>>], services)
  /\ avh' = [avh EXCEPT ![n] = 0]
  /\ UNCHANGED <<listens, services, cnt, asks>>

\* on_listen_file_event: what the difference adds, then what it removes.
ListenChange(add, del) ==
  /\ Quiet /\ (add # {} \/ del # {})
  /\ del \subseteq DOMAIN services
  /\ LET kept == RemoveAt(services, CHOOSE i \in del : TRUE)
         rest == IF del = {} THEN services ELSE kept
     IN services' = rest \o SetToSeq(add)
  /\ Len(services') <= MaxListens
  /\ Told(Map(SetToSeq(add), LAMBDA b : Add(b, 1, 0))
            \o Map(SetToSeq(del), LAMBDA i : Del(services[i], 1, 0)), {}, Conf, services')
  /\ UNCHANGED <<avh, vhs, listens, cnt, asks>>

-----------------------------------------------------------------------------
(* KDynamicListen *)

Item == Head(event.todo)
Then(more) == event' = [event EXCEPT !.todo = more \o Tail(@)]

NewListen == [global |-> 0, dynamic |-> 0, ssl |-> 0, flag |-> FALSE, tls |-> FALSE,
              open |-> FALSE, tree |-> NewTree]

\* add: a listener that becomes global gets the global hosts, before its flags
\* change and it is started; a host that asked for it is bound then.
AddListen ==
  /\ event.todo # <<>> /\ Item.do = "add"
  /\ LET new == Item.key \notin DOMAIN listens
         glob == Item.global > 0 /\ (new \/ ~listens[Item.key].flag)
     IN /\ listens' = IF new THEN listens @@ (Item.key :> NewListen) ELSE listens
        /\ Then((IF glob THEN Map(Globals, LAMBDA o : Bind(Item.key, o, FALSE)) ELSE <<>>)
                \o <<[Item EXCEPT !.do = "start"]>>
                \o (IF Item.vh = 0 THEN <<>> ELSE <<Bind(Item.key, Item.vh, TRUE)>>))
  /\ UNCHANGED <<avh, vhs, services, cnt, asks>>

\* SetFlag, sync_flag, kserver_load_ssl and init_listen, which may fail and is
\* tried again by the next add.
StartListen ==
  /\ event.todo # <<>> /\ Item.do = "start"
  /\ LET l == listens[Item.key] IN
     \E ok \in {l.open \/ Item.key \notin Taken, TRUE} :
       listens' = [listens EXCEPT ![Item.key] =
         [l EXCEPT !.global = @ + Item.global, !.dynamic = @ + 1 - Item.global, !.ssl = @ + Item.ssl,
                   !.flag = l.global + Item.global > 0, !.tls = @ \/ Item.ssl > 0, !.open = ok]]
  /\ Then(<<>>)
  /\ UNCHANGED <<avh, vhs, services, cnt, asks>>

BindStep ==
  /\ event.todo # <<>> /\ Item.do \in {"bindhigh", "bindlow"}
  /\ listens' = [listens EXCEPT ![Item.key].tree = BindVh(@, Item.vh, Item.do = "bindhigh")]
  /\ Then(<<>>)
  /\ UNCHANGED <<avh, vhs, services, cnt, asks>>

UnbindStep ==
  /\ event.todo # <<>> /\ Item.do = "unbind"
  /\ listens' = [listens EXCEPT ![Item.key].tree = UnbindVh(@, Item.vh)]
  /\ Then(<<>>)
  /\ UNCHANGED <<avh, vhs, services, cnt, asks>>

\* Mutant: a listener that stops being global keeps the global hosts.
KeepsGlobals(l) == FALSE

\* Delete: the last <listen> of an address takes the global hosts with it.
LosesGlobals(l) == Item.global > 0 /\ l.global = 1

DelListen ==
  /\ event.todo # <<>> /\ Item.do = "del"
  /\ LET l == listens[Item.key] IN
     /\ listens' = [listens EXCEPT ![Item.key] =
          [l EXCEPT !.global = @ - Item.global, !.dynamic = @ - (1 - Item.global), !.ssl = @ - Item.ssl]]
     /\ Then((IF Item.vh = 0 THEN <<>> ELSE <<Unbind(Item.key, Item.vh)>>)
             \o (IF LosesGlobals(l) THEN Map(Globals, LAMBDA o : Unbind(Item.key, o)) ELSE <<>>)
             \o <<[Item EXCEPT !.do = "close"]>>)
  /\ UNCHANGED <<avh, vhs, services, cnt, asks>>

\* A listener nobody asks for any more is closed.
CloseListen ==
  /\ event.todo # <<>> /\ Item.do = "close"
  /\ LET l == listens[Item.key] IN
     listens' = IF l.global = 0 /\ l.dynamic = 0 THEN [k \in DOMAIN listens \ {Item.key} |-> listens[k]]
                ELSE [listens EXCEPT ![Item.key] =
                       [l EXCEPT !.flag = l.global > 0, !.tls = @ /\ l.ssl > 0]]
  /\ Then(<<>>)
  /\ UNCHANGED <<avh, vhs, services, cnt, asks>>

\* internalAddVirtualHost enters the host, once it is bound, with a reference.
RegisterVh ==
  /\ event.todo # <<>> /\ Item.do = "register"
  /\ avh' = [avh EXCEPT ![Item.key] = Item.vh]
  /\ vhs' = [vhs EXCEPT ![Item.vh].refs = @ + 1]
  /\ Then(<<>>)
  /\ UNCHANGED <<listens, services, cnt, asks>>

\* A host nobody refers to is deleted; its reference to its limit goes too.
NoVh == [conf |-> [vh |-> "", hosts |-> <<>>, binds |-> <<>>, max |-> 0], lim |-> 0, refs |-> 0]
Release(v) == IF v.refs = 1 THEN NoVh ELSE [v EXCEPT !.refs = @ - 1]

\* The handler returns.
EventDone ==
  /\ event.busy /\ event.todo = <<>>
  /\ vhs' = [o \in VhObjs |-> IF o \in event.keeps THEN Release(vhs[o]) ELSE vhs[o]]
  /\ event' = NoEvent
  /\ UNCHANGED <<avh, listens, services, cnt, asks>>

-----------------------------------------------------------------------------
(* Requests: query_virtual *)

NoAsk == [at |-> "none", svh |-> None, lim |-> 0]

\* Mutant: the host found is not referenced under the table's lock.
FoundUnreferenced(o) == UNCHANGED vhs

\* queryVirtualHost refers to the host while it still holds the table's lock.
Found(o) == vhs' = [vhs EXCEPT ![o].refs = @ + 1]

Query(r, k, site) ==
  /\ asks[r].at = "none" /\ k \in DOMAIN listens /\ listens[k].open
  /\ LET svh == Find(listens[k].tree, site) IN
     /\ svh # None
     /\ Found(svh[1])
     /\ asks' = [asks EXCEPT ![r] = [at |-> "found", svh |-> svh, lim |-> 0]]
  /\ UNCHANGED <<avh, listens, services, event, cnt>>

\* addConnection: counted first, then compared.
AddConnection(r) ==
  /\ asks[r].at = "found"
  /\ LET v == vhs[asks[r].svh[1]] IN
     IF v.lim = 0 THEN asks' = [asks EXCEPT ![r].at = "in"] /\ UNCHANGED cnt
     ELSE /\ cnt' = [cnt EXCEPT ![v.lim] = @ + 1]
          /\ asks' = [asks EXCEPT ![r].at = IF cnt[v.lim] + 1 > v.conf.max THEN "refused" ELSE "in",
                                  ![r].lim = v.lim]
  /\ UNCHANGED <<avh, vhs, listens, services, event>>

\* Refused: counted off at once.  Served: counted off by the clean-up hook.
EndAsk(r) ==
  /\ asks[r].at \in {"in", "refused"}
  /\ cnt' = IF asks[r].lim = 0 THEN cnt ELSE [cnt EXCEPT ![asks[r].lim] = @ - 1]
  /\ vhs' = [vhs EXCEPT ![asks[r].svh[1]] = Release(@)]
  /\ asks' = [asks EXCEPT ![r] = NoAsk]
  /\ UNCHANGED <<avh, listens, services, event>>

-----------------------------------------------------------------------------
HostInit ==
  /\ avh = [n \in Names |-> 0]
  /\ vhs = [o \in VhObjs |-> NoVh]
  /\ listens = <<>>
  /\ services = <<>>
  /\ event = NoEvent
  /\ cnt = [l \in Limits |-> 0]
  /\ asks = [r \in Clients |-> NoAsk]

HostNext ==
  \/ \E n \in Names : VhRemove(n) \/ \E c \in Configs[n] : VhNew(n, c) \/ VhUpdate(n, c)
  \/ \E add \in {{}} \cup {{b} : b \in GlobalSets}, del \in {{}} \cup {{i} : i \in 1..MaxListens} :
       ListenChange(add, del)
  \/ AddListen \/ StartListen \/ BindStep \/ UnbindStep \/ DelListen \/ CloseListen
  \/ RegisterVh \/ EventDone
  \/ \E r \in Clients : AddConnection(r) \/ EndAsk(r)
                        \/ \E k \in DOMAIN listens, site \in Sites : Query(r, k, site)

-----------------------------------------------------------------------------
(* Properties *)

Lists(ls, k) == {i \in DOMAIN ls : ls[i].key = k}
Binds(c, k) == {i \in DOMAIN c.binds : c.binds[i].key = k}
OnKey(c, ls, k) == IF c.binds = <<>> THEN Lists(ls, k) # {} ELSE Binds(c, k) # {}

\* The patterns a configuration serves at an address.
Patterns(confs, ls, k) ==
  UNION {ToSet(confs[n][1].hosts) : n \in {m \in Names : confs[m] # <<>> /\ OnKey(confs[m][1], ls, k)}}

\* The pattern that should answer: the name itself, else the longest wide one.
Matches(h, site) == IF h.wide THEN IsStrictPrefix(h.name, site) ELSE h.name = site
Better(h, g) == (g.wide /\ ~h.wide) \/ (g.wide = h.wide /\ Len(h.name) >= Len(g.name))
Answers(pats, site) ==
  LET ms == {h \in pats : Matches(h, site)} IN {h \in ms : \A g \in ms : Better(h, g)}

Occurrences(t, svh, h) ==
  Len(SelectSeq(IF h.name \in DOMAIN t THEN t[h.name][Side(h)] ELSE <<>>, LAMBDA s : s = svh))

\* Between events the listeners are exactly those the configuration asks for,
\* open for TLS exactly if somebody asked, each table holds each host as often
\* as it is bound, no empty node is left behind (Delete asserts that the table of
\* a closed listener is empty), and a lookup gives the most specific host.
TablesMatch ==
  Quiet =>
    LET Cur(o) == vhs[o].conf
        Bound(k) == UNION {{<<o, i>> : i \in Binds(Cur(o), k)} : o \in Entered}
    IN
    /\ DOMAIN listens = {services[i].key : i \in DOMAIN services}
                        \cup UNION {{b.key : b \in ToSet(Cur(o).binds)} : o \in Entered}
    /\ \A k \in DOMAIN listens : LET l == listens[k] IN
         /\ l.global = Cardinality(Lists(services, k)) /\ l.dynamic = Cardinality(Bound(k))
         /\ l.flag = (l.global > 0)
         /\ l.tls = (\E i \in Lists(services, k) : services[i].ssl > 0)
                    \/ (\E p \in Bound(k) : Cur(p[1]).binds[p[2]].ssl > 0)
         /\ \A p \in DOMAIN l.tree \ {<<>>} :
              l.tree[p] # EmptyNode \/ \E q \in DOMAIN l.tree : IsStrictPrefix(p, q)
         /\ \A o \in Entered : \A i \in DOMAIN Cur(o).hosts :
              Occurrences(l.tree, <<o, i>>, Cur(o).hosts[i]) =
                IF IsGlobal(o) THEN (IF l.global > 0 THEN 1 ELSE 0)
                ELSE Cardinality(Binds(Cur(o), k))
         /\ \A site \in Sites : LET svh == Find(l.tree, site) IN
              IF svh = None THEN Answers(Patterns(Conf, services, k), site) = {}
              ELSE /\ svh[1] \in Entered
                   /\ vhs[svh[1]].conf.hosts[svh[2]] \in Answers(Patterns(Conf, services, k), site)

\* While a host or a listener is replaced, a site that both the old and the new
\* configuration serve at an address is found there at every moment
\* (updateVirtualHost and on_listen_file_event add before they remove).
NeverUnserved ==
  event.busy => \A k \in DOMAIN listens, site \in Sites :
    Find(listens[k].tree, site) = None =>
      \E v \in 1..2 : \A h \in Patterns(event.confs[v], event.lists[v], k) : ~Matches(h, site)

\* A host that a table still names or a request uses has not been deleted, and
\* its references are counted: VH_REFS_CONNECT_DELTA takes two of them for the
\* map's and the configuration tree's and the rest for connections.  The limit
\* of a host counts the requests that are in.
HostsCounted ==
  /\ \A k \in DOMAIN listens : \A p \in DOMAIN listens[k].tree :
       \A svh \in ToSet(listens[k].tree[p].exact) \cup ToSet(listens[k].tree[p].wide) : vhs[svh[1]].refs > 0
  /\ \A o \in VhObjs :
       LET users == Cardinality({r \in Clients : asks[r].svh[1] = o}) IN
       /\ users > 0 => vhs[o].refs >= users
       /\ Quiet => vhs[o].refs = users + IF o \in Entered THEN 2 ELSE 0
  /\ \A l \in Limits : cnt[l] = Cardinality({r \in Clients : asks[r].lim = l})
=============================================================================
