----------------------------- MODULE MCSettings -----------------------------
(***************************************************************************)
(* The parts that hold the configuration, for TLC: the configuration tree   *)
(* with its files, the access tables, and the virtual hosts with their      *)
(* listeners.  They share no variable, so one instance checks them all: the *)
(* initial state chooses the part that runs.                                *)
(***************************************************************************)
EXTENDS Naturals, Sequences

VARIABLES part,
          disk, stale, mem, op, unsaved, fails,                  \* ConfigTree
          tabs, names, bound, dflt, asked, overtaken, gone,      \* AccessChains
          avh, vhs, listens, services, event, cnt, asks          \* VirtualHosts

confVars == <<disk, stale, mem, op, unsaved, fails>>
accessVars == <<tabs, names, bound, dflt, asked, overtaken, gone>>
hostVars == <<avh, vhs, listens, services, event, cnt, asks>>

\* Documents: the bodies of a merging node and of another one.
Doc(m, s) == [merge |-> m, single |-> s]
Docs == <<{Doc(<<1>>, <<>>), Doc(<<1, 2>>, <<>>), Doc(<<2, 1>>, <<>>), Doc(<<1, 1, 2>>, <<>>),
           Doc(<<2>>, <<2>>), Doc(<<1>>, <<2>>)},
          {Doc(<<1>>, <<>>), Doc(<<2>>, <<1>>), Doc(<<>>, <<1>>)}>>
C == INSTANCE ConfigTree WITH
       Files <- 1..2, Start <- <<2, 1>>, Factory <- Doc(<<1>>, <<>>), MaxFails <- 1

\* Chains: acls and marks with their negation and or-flag, and the action.
Mod(m) == [m |-> m, neg |-> FALSE, or |-> FALSE]
Not(m) == [m |-> m, neg |-> TRUE, or |-> FALSE]
Or(x) == [x EXCEPT !.or = TRUE]
Chain(acls, marks, act, to) == [acls |-> acls, marks |-> marks, act |-> act, to |-> to]
Deny == Chain(<<Or(Mod("a")), Mod("b")>>, <<Mod("true"), Or(Mod("defer")), Mod("false")>>, "deny", 0)
Serve == Chain(<<Mod("a"), Or(Not("b")), Mod("a")>>, <<Or(Mod("false")), Mod("before")>>, "server", 0)
Jump == Chain(<<Not("a")>>, <<Or(Mod("true")), Mod("finish")>>, "table", "T1")
Finish == Chain(<<Mod("b")>>, <<Or(Mod("false")), Mod("after"), Mod("finish")>>, "continue", 0)
Skip == Chain(<<>>, <<Mod("true")>>, "skip", 2)
Bad == Chain(<<Not("b")>>, <<Mod("defer"), Not("false"), Mod("before")>>, "bad", 0)
Plain == Chain(<<Not("b")>>, <<>>, "server", 0)
Forms == [n \in {"BEGIN", "T1"} |->
            IF n = "BEGIN" THEN {Deny, Serve, Jump, Finish, Skip} ELSE {Jump, Finish, Bad, Plain}]
A == INSTANCE AccessChains WITH
       Names <- {"BEGIN", "T1"}, Objs <- 1..3, Files <- 1..2, MaxJumps <- 1,
       Room <- [n \in {"BEGIN", "T1"} |-> IF n = "BEGIN" THEN <<2, 1>> ELSE <<1, 0>>],
       Truths <- [{"a", "b"} -> BOOLEAN], Defaults <- {"deny", "server"}

\* Hosts: v global or bound to two addresses, w global with a name of v's.
Host(name, wide) == [name |-> name, wide |-> wide]
On(key, ssl) == [key |-> key, ssl |-> ssl]
Vh(n, hosts, binds, max) == [vh |-> n, hosts |-> hosts, binds |-> binds, max |-> max]
x == <<"x">>
yx == <<"x", "y">>
VhConfigs == [n \in {"v", "w"} |->
  IF n = "v"
  THEN {Vh("v", <<Host(x, FALSE), Host(x, TRUE)>>, <<>>, 1),
        Vh("v", <<Host(x, FALSE), Host(yx, TRUE)>>, <<On("p1", 0), On("p2", 1)>>, 1)}
  ELSE {Vh("w", <<Host(x, FALSE), Host(yx, FALSE), Host(<<>>, TRUE)>>, <<>>, 0)}]
H == INSTANCE VirtualHosts WITH
       Names <- {"v", "w"}, Configs <- VhConfigs, GlobalSets <- {On("p1", 1)}, Taken <- {"p2"},
       MaxListens <- 2, Sites <- {x, yx, <<"x", "z", "y">>, <<"x", "y", "z">>}, Clients <- {1},
       Room <- [n \in {"v", "w"} |-> IF n = "v" THEN 1..3 ELSE 4..5], Limits <- 1..2

SettingsInit ==
  /\ part \in {"conf", "access", "hosts"}
  /\ C!ConfInit /\ A!AccessInit /\ H!HostInit
  /\ part = "access" \/ dflt = "deny"

SettingsNext ==
  \/ part = "conf" /\ C!ConfNext /\ UNCHANGED <<part, accessVars, hostVars>>
  \/ part = "access" /\ A!AccessNext /\ UNCHANGED <<part, confVars, hostVars>>
  \/ part = "hosts" /\ H!HostNext /\ UNCHANGED <<part, confVars, accessVars>>

Spec == SettingsInit /\ [][SettingsNext]_<<part, confVars, accessVars, hostVars>>

-----------------------------------------------------------------------------
(* Properties, stated in the modules of the parts *)

\* The listeners have what the files say (ConfigTree).
InForce == C!InForce

\* A reload brings the files into force (ConfigTree).
ReloadConverges == C!ReloadConverges

\* Renaming a table changes every file or none (ConfigTree).
RenameAllOrNothing == C!RenameAllOrNothing

\* A request gets the verdict docs/acl_mark.md promises (AccessChains).
VerdictAsDocumented == part = "access" => A!VerdictAsDocumented

\* Between events the listeners and their tables are the configured ones
\* (VirtualHosts).
TablesMatch == H!TablesMatch

\* A site served before and after an event is served during it (VirtualHosts).
NeverUnserved == H!NeverUnserved

\* Hosts and limits are counted exactly, and none is deleted in use
\* (VirtualHosts).
HostsCounted == H!HostsCounted
=============================================================================
