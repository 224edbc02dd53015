--------------------------- MODULE StoreRefinement ---------------------------
(***************************************************************************)
(* The handlers of the correlation-response service, with their failures,  *)
(* as an implementation of AlertStore: a case is put together from the     *)
(* rows under its identifier, the relationships of the graph and the       *)
(* answers given, whatever request each of them came from.                 *)
(***************************************************************************)
EXTENDS Response

Issued == AnomalyIds \ StrayIds

Attributed(a) == attributions[a] # None
Linked(a)     == \E e \in edges : e.id = a
Promised(a)   ==
  \E r \in Requests : req[r].op = "correlate" /\ req[r].id = a /\ req[r].code = 200

StageOf(a) ==
  IF ~Stored(a) THEN "absent"
  ELSE IF ~Attributed(a) THEN "stored"
  ELSE IF ~Linked(a) THEN "attributed" ELSE "linked"

CaseOf(a) ==
  [ stage     |-> StageOf(a),
    decision  |-> IF Stored(a) THEN anomalies[a].decision ELSE None,
    verdict   |-> IF Stored(a) THEN anomalies[a].status ELSE "new",
    narrative |-> IF Stored(a) /\ anomalies[a].narrative # "none" THEN "stored" ELSE "none",
    answer    |-> IF Promised(a) THEN "success" ELSE "open" ]

Cases == [a \in Issued |-> CaseOf(a)]

Store == INSTANCE AlertStore
  WITH Ids <- Issued, Verdicts <- Statuses \ {"new"}, NoDecision <- None, cases <- Cases

\* The service implements the store it promises: handlers that race on one row, die
\* between two calls, lose answers or see calls refused never make a case go back, skip
\* a stage, be promised with a row missing, be linked behind the client's answer, change
\* its decision, lose its narrative or return to the review queue (main.py, correlate,
\* _apply_human_review and generate_narrative_endpoint over supabase_store.py).
ImplementsStore == Store!Spec
=============================================================================
