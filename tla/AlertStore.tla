----------------------------- MODULE AlertStore -----------------------------
(***************************************************************************)
(* What the correlation-response service promises of its anomalies, with   *)
(* no handlers, no tables and no failures: every identifier stands for a   *)
(* case that only moves forward, one change at a time.                     *)
(*                                                                         *)
(* A case is stored with its decision, then attributed, then perhaps       *)
(* linked into the asset graph, and its client may be promised that it is  *)
(* there.  From the first of these on it can be judged and told in a       *)
(* narrative, any number of times, independently of how far it has come.   *)
(***************************************************************************)
CONSTANTS
  Ids,         \* identifiers the service may issue
  Decisions,   \* what a case can be decided to
  Verdicts,    \* what a review can make of it
  NoDecision

VARIABLE cases

Absent ==
  [ stage |-> "absent", decision |-> NoDecision, verdict |-> "new",
    narrative |-> "none", answer |-> "open" ]

Init == cases = [a \in Ids |-> Absent]

Exists(a) == cases[a].stage # "absent"

\* The decision, whichever it is, comes with the case, and never changes.
Open(a) ==
  LET decision == cases'[a].decision
  IN  /\ ~Exists(a)
      /\ decision \in Decisions
      /\ cases' = [cases EXCEPT ![a].stage = "stored", ![a].decision = decision]

Attribute(a) ==
  /\ cases[a].stage = "stored"
  /\ cases' = [cases EXCEPT ![a].stage = "attributed"]

\* Nothing is added to the graph behind a client that has its answer.
Link(a) ==
  /\ cases[a].stage = "attributed" /\ cases[a].answer = "open"
  /\ cases' = [cases EXCEPT ![a].stage = "linked"]

\* Only a case with both of its rows is promised; the graph may be missing.
Promise(a) ==
  /\ cases[a].stage \in {"attributed", "linked"}
  /\ cases' = [cases EXCEPT ![a].answer = "success"]

\* A case that was judged is never back in the review queue.
Judge(a, v) ==
  /\ Exists(a)
  /\ cases' = [cases EXCEPT ![a].verdict = v]

Tell(a) ==
  /\ Exists(a)
  /\ cases' = [cases EXCEPT ![a].narrative = "stored"]

Next ==
  \E a \in Ids :
    \/ Open(a) \/ Attribute(a) \/ Link(a) \/ Promise(a) \/ Tell(a)
    \/ \E v \in Verdicts : Judge(a, v)

Spec == Init /\ [][Next]_cases
=============================================================================
