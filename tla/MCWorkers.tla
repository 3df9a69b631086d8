----------------------------- MODULE MCWorkers -----------------------------
(***************************************************************************)
(* The worker processes of an application and an extension that runs in    *)
(* them, for TLC: VirtualProcess, and WebDav, whose requests are served on *)
(* several threads of such a process.  They share no variable, so one      *)
(* instance checks both: the initial state chooses the part that runs, and *)
(* the other stays as it is.                                               *)
(***************************************************************************)
EXTENDS VirtualProcess, WebDav, TLC

VARIABLE part

\* Two clients lock a name, or one locks it and one writes it, and a third request
\* of any kind works on the same name, or on that name and another.
On(op, f) == [op |-> op, name |-> f, dst |-> None]
To(op, f, g) == [op |-> op, name |-> f, dst |-> g]
LockAnd(p, r, q, j) == p[r] = On("lock", "f") /\ p[q] = j
Third == {On(op, "f") : op \in {"put", "delete", "refresh", "unlock", "mkcol"}}
           \cup {To(op, "f", g) : op \in {"move", "copy"}, g \in {"f", "g"}}
           \cup {To(op, "g", "f") : op \in {"move", "copy"}}
DavJobs == Third \cup {On("lock", "f"), On("lock", "g")}
Quiescent == [r \in Req |-> On("mkcol", "f")]
DavPlans ==
  {p \in [Req -> DavJobs] : \E r, q, s \in Req :
     /\ Cardinality({r, q, s}) = 3
     /\ \/ LockAnd(p, r, q, On("lock", "f")) /\ p[s] \in Third
        \/ LockAnd(p, r, q, On("lock", "g")) /\ p[s] = To("move", "f", "g")
        \/ LockAnd(p, r, q, On("put", "f")) /\ p[s] \in {On("delete", "f"), To("move", "f", "g")}
        \/ p = Quiescent}

\* Requests are interchangeable, and so are addresses of objects.
Symmetry == Permutations(Rq) \cup Permutations(VP)

WorkersInit ==
  /\ part \in {"process", "webdav"}
  /\ Init /\ DavInit
  /\ part = "process" => rq = [r \in Req |-> [NoJob EXCEPT !.op = "mkcol", !.name = "f"]]
                          /\ entry = [f \in Names |-> f]

WorkersNext ==
  \/ part = "process" /\ Next /\ UNCHANGED <<part, davVars>>
  \/ part = "webdav" /\ DavNext /\ UNCHANGED <<part, vars>>

WorkersSpec == WorkersInit /\ [][WorkersNext]_<<part, vars, davVars>>

=============================================================================
