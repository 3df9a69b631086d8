----------------------------- MODULE MCCaching -----------------------------
(***************************************************************************)
(* How responses get into the cache and what becomes of them there, for     *)
(* TLC: the body of a response on its way to the client and the cache       *)
(* (ResponseBody), and the objects of one URL (ObjectCache).  They share no *)
(* variable, so one instance checks both: the initial state chooses the     *)
(* part that runs, and the other stays as it is.                            *)
(***************************************************************************)
EXTENDS ResponseBody, ObjectCache, TLC

VARIABLE part

\* Every answer, but for combinations of choices that different stages make: a
\* part of a body passes no filter, and flushing matters where a stage keeps
\* something back.  The two kinds of compressor differ in nothing modelled.
AnswersOfInterest ==
  {a \in Answer :
     /\ a.partial # "no" => a.filter = "none" /\ a.compress = "no" /\ a.cache # "no" /\ ~a.fcgi
     /\ a.flush => a.filter = "pass" \/ a.compress # "no"
     /\ a.compress # "other"
     /\ a.cache = "no" => ~a.large
     /\ a.fcgi => a.framing # "length" \/ a.filter = "none"}
PlainAnswer == [framing |-> "length", fcgi |-> FALSE, large |-> FALSE, filter |-> "none",
                compress |-> "no", cache |-> "memory", partial |-> "no", flush |-> FALSE]

Symmetry == Permutations(Obj) \cup Permutations(Rq)

CachingInit ==
  /\ part \in {"body", "objects"}
  /\ BodyInit /\ Init
  /\ part = "body" \/ plan = PlainAnswer

CachingNext ==
  \/ part = "body" /\ BodyNext /\ UNCHANGED <<part, vars>>
  \/ part = "objects" /\ Next /\ UNCHANGED <<part, bodyVars>>

CachingSpec == CachingInit /\ [][CachingNext]_<<part, bodyVars, vars>>
=============================================================================
