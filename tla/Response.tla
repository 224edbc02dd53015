------------------------------ MODULE Response ------------------------------
(***************************************************************************)
(* The correlation-response service: its request handlers, run             *)
(* concurrently by a thread pool and several workers, over the Postgres    *)
(* tables anomalies, attributions, audit_logs and soar_actions and the     *)
(* EXHIBITED relationships of the asset graph.                             *)
(*                                                                         *)
(* A request is a record that walks from one database call to the next;    *)
(* between two calls any other request may take a step.  No call is part   *)
(* of a transaction.  A write may be applied, refused, or applied with its *)
(* answer lost; a read may fail; a worker may die.  MaxFaults bounds how   *)
(* many of these happen.                                                   *)
(*                                                                         *)
(* All requests carry the token of one tenant, so the user_id filters      *)
(* select every row.  Handlers that only read one row or one page and      *)
(* answer it change nothing and are left out.                              *)
(***************************************************************************)
EXTENDS Decision, FiniteSets

CONSTANTS
  Requests,      \* identities of the requests; each is served once
  AnomalyIds,    \* anomaly identifiers, issued ones and mistaken ones
  StrayIds,      \* identifiers a client may send that uuid4 never issued
  Detections,    \* bodies of POST /correlate
  Ops,           \* operations the clients call
  GraphEnabled,  \* is Neo4j configured?
  PriorEdges,    \* relationships already in the graph
  PageSize,      \* limit of the list endpoints
  MaxFaults,     \* bound on failed calls and dead workers
  None

Assets == {d.asset : d \in Detections} \union {e.asset : e \in PriorEdges}

ReviewOps == {"approve", "reject"}
SoarOps   == {"isolate_endpoint", "block_ip", "revoke_credential"}
ListOps   == {"list_anomalies", "list_attributions"}
AllOps    == {"correlate", "decide", "narrative"} \union ReviewOps \union SoarOps \union ListOps

\* The statuses this service writes.
Statuses == {"new", "acknowledged", "false_positive"}

AnomalyRow ==
  [ det : Detections, status : Statuses, decision : Decisions,
    narrative : Techniques \union {"none"} ]

AttributionRow == [ technique : Techniques, confidence : Confidence ]

ActionTypes ==
  {"human_approved", "human_rejected", "decision_computed", "narrative_generated"} \union SoarOps

AuditRow ==
  [ by : Requests, id : AnomalyIds, action : ActionTypes,
    prev : Statuses \union {"none"}, new : Statuses \union {"none"},
    level : DecisionLevels \union {"none"} ]

SoarRow == [ by : Requests, id : AnomalyIds, action : SoarOps ]

Edge == [ asset : Assets, technique : Techniques, id : AnomalyIds ]

Pcs == { "idle", "insert_anomaly", "insert_attribution", "update_graph",
         "enrich", "update_status", "reread", "read_attribution", "compute", "audit",
         "save_narrative", "record", "count", "done", "crashed" }

\* Answer classes: success, not found, any 5xx; 0 before an answer.
Codes == {0, 200, 404, 500}

RequestState ==
  [ op : AllOps \union {"none"}, pc : Pcs, id : AnomalyIds \union {None},
    det : Detections \union {None}, dec : Decisions \union {None},
    attr : AttributionRow \union {None}, graph : {"unused", "answered", "down"},
    prev : Statuses \union {"none"}, final : Statuses \union {"none"},
    items : Nat, total : Nat, code : Codes ]

Idle ==
  [ op |-> "none", pc |-> "idle", id |-> None, det |-> None, dec |-> None,
    attr |-> None, graph |-> "unused", prev |-> "none", final |-> "none",
    items |-> 0, total |-> 0, code |-> 0 ]

ASSUME ResponseAssumption ==
  /\ IsFiniteSet(AnomalyIds) /\ StrayIds \subseteq AnomalyIds
  /\ \A d \in Detections : d.attack \in STRING /\ d.confidence \in Confidence
  /\ Ops \subseteq AllOps
  /\ GraphEnabled \in BOOLEAN
  /\ IsFiniteSet(PriorEdges)
  /\ PriorEdges \subseteq [asset : Assets, technique : Techniques, id : StrayIds]
  /\ PageSize \in Nat \ {0} /\ MaxFaults \in Nat
  /\ None \notin AnomalyIds /\ None \notin Detections
  /\ None \notin AnomalyRow /\ None \notin AttributionRow /\ None \notin Decisions

VARIABLES
  anomalies,     \* table anomalies: id -> row, or None
  attributions,  \* table attributions: id -> row, or None
  audit,         \* table audit_logs
  soar,          \* table soar_actions
  edges,         \* EXHIBITED relationships of the graph
  req,           \* the requests in service and served
  faults

vars == <<anomalies, attributions, audit, soar, edges, req, faults>>
tables == <<anomalies, attributions, audit, soar, edges>>

TypeOK ==
  /\ anomalies    \in [AnomalyIds -> AnomalyRow \union {None}]
  /\ attributions \in [AnomalyIds -> AttributionRow \union {None}]
  /\ audit \subseteq AuditRow
  /\ soar  \subseteq SoarRow
  /\ edges \subseteq Edge /\ IsFiniteSet(edges)
  /\ req \in [Requests -> RequestState]
  /\ faults \in 0 .. MaxFaults

Init ==
  /\ anomalies    = [a \in AnomalyIds |-> None]
  /\ attributions = [a \in AnomalyIds |-> None]
  /\ audit = {}
  /\ soar  = {}
  /\ edges = PriorEdges
  /\ req   = [r \in Requests |-> Idle]
  /\ faults = 0

Stored(a) == anomalies[a] # None

---------------------------------------------------------------------------
(* Database calls.                                                         *)

WriteOutcomes == {"ok", "refused", "unacknowledged"}
Applied(o) == o # "refused"

AcceptedUnchecked(o, a) == Applied(o)

\* An insert of a row that refers to anomaly a: the foreign key refuses it when
\* there is none.
Accepted(o, a) == Applied(o) /\ Stored(a)

Fault == /\ faults < MaxFaults
         /\ faults' = faults + 1

CallCosts(o) == IF o = "ok" THEN UNCHANGED faults ELSE Fault

Goto(r, pc)     == req' = [req EXCEPT ![r].pc = pc]
Answer(r, code) == req' = [req EXCEPT ![r].pc = "done", ![r].code = code]

AfterSwallowing(r, o, next) == Goto(r, next)

\* What follows a write whose failure the handler raises.
After(r, o, next) == IF o = "ok" THEN Goto(r, next) ELSE Answer(r, 500)

---------------------------------------------------------------------------
(* Entry of a handler.                                                     *)

\* Clients name anomalies they saw in a list, or an identifier of their own.
Targets == {a \in AnomalyIds : Stored(a)} \union StrayIds

\* Handlers that first fetch the anomaly: missing is 404, unreadable 503.
Fetch(r, op, a, next) ==
  LET begun == [Idle EXCEPT !.op = op, !.id = a]
  IN  \/ /\ Stored(a)
         /\ req' = [req EXCEPT ![r] =
                     [begun EXCEPT !.pc = next, !.prev = anomalies[a].status]]
         /\ UNCHANGED faults
      \/ /\ ~Stored(a)
         /\ req' = [req EXCEPT ![r] = [begun EXCEPT !.pc = "done", !.code = 404]]
         /\ UNCHANGED faults
      \/ /\ Fault
         /\ req' = [req EXCEPT ![r] = [begun EXCEPT !.pc = "done", !.code = 500]]

---------------------------------------------------------------------------
(* POST /correlate: attribution, decision, anomaly row, attribution row,   *)
(* graph relationship, threat intelligence, in this order.                 *)

ConnectedAssets(t) == Cardinality({e.asset : e \in {x \in edges : x.technique = t}})

\* How the blast radius query of a decision can end.
GraphAnswers == IF GraphEnabled THEN {"answered", "down"} ELSE {"unused"}

GraphCosts(g) == IF g = "down" THEN Fault ELSE UNCHANGED faults

DecisionFor(attack, confidence, technique, g) ==
  ComputeDecision(attack, confidence, GraphEnabled,
                  CountConnectedAssets(g = "answered", ConnectedAssets(technique)))

\* A new uuid4: no row and no other correlation has it.
Fresh(a) ==
  /\ a \notin StrayIds /\ ~Stored(a)
  /\ \A q \in Requests : req[q].id # a

Correlate(r, d) ==
  IF d.attack = "BENIGN"
    THEN /\ req' = [req EXCEPT ![r] =
                     [Idle EXCEPT !.op = "correlate", !.det = d, !.pc = "done", !.code = 200]]
         /\ UNCHANGED <<tables, faults>>
    ELSE \E a \in AnomalyIds, g \in GraphAnswers :
           /\ Fresh(a)
           /\ GraphCosts(g)
           /\ req' = [req EXCEPT ![r] =
                [Idle EXCEPT !.op = "correlate", !.det = d, !.id = a, !.graph = g,
                   !.pc  = "insert_anomaly",
                   !.dec = DecisionFor(d.attack, d.confidence, CorrelateTechnique(d.attack), g)]]
           /\ UNCHANGED tables

InsertAnomaly(r) ==
  /\ req[r].pc = "insert_anomaly"
  /\ \E o \in WriteOutcomes :
       /\ CallCosts(o)
       /\ anomalies' =
            IF Applied(o)
              THEN [anomalies EXCEPT ![req[r].id] =
                     [det |-> req[r].det, status |-> "new", decision |-> req[r].dec,
                      narrative |-> "none"]]
              ELSE anomalies
       /\ After(r, o, "insert_attribution")
  /\ UNCHANGED <<attributions, audit, soar, edges>>

InsertAttribution(r) ==
  /\ req[r].pc = "insert_attribution"
  /\ \E o \in WriteOutcomes :
       /\ CallCosts(o)
       /\ attributions' =
            IF Accepted(o, req[r].id)
              THEN [attributions EXCEPT ![req[r].id] =
                     [technique  |-> CorrelateTechnique(req[r].det.attack),
                      confidence |-> req[r].det.confidence]]
              ELSE attributions
       /\ After(r, o, "update_graph")
  /\ UNCHANGED <<anomalies, audit, soar, edges>>

\* Best effort: the correlation goes on whatever the graph does.
UpdateGraph(r) ==
  /\ req[r].pc = "update_graph"
  /\ \E o \in IF GraphEnabled THEN WriteOutcomes ELSE {"ok"} :
       /\ CallCosts(o)
       /\ edges' =
            IF GraphEnabled /\ Applied(o)
              THEN edges \union {[asset |-> req[r].det.asset, id |-> req[r].id,
                                  technique |-> CorrelateTechnique(req[r].det.attack)]}
              ELSE edges
  /\ Goto(r, "enrich")
  /\ UNCHANGED <<anomalies, attributions, audit, soar>>

\* The answer is completed from the threat intelligence corpus, which a process
\* loads on first use; see ReadFails for a lookup that raises.
Enrich(r) ==
  /\ req[r].pc = "enrich"
  /\ Answer(r, 200)
  /\ UNCHANGED <<tables, faults>>

---------------------------------------------------------------------------
(* Human review: fetch, UPDATE, fetch again, audit.  The fetch that the    *)
(* store makes just before the UPDATE finds the row again, since no code   *)
(* path deletes one; if it fails the effect is that of a refused UPDATE.   *)

VerdictOutsideCheck(op) == IF op = "approve" THEN "acknowledged" ELSE "rejected"

Verdict(op) == IF op = "approve" THEN "acknowledged" ELSE "false_positive"

Review(r, op, a) ==
  /\ Fetch(r, op, a, "update_status")
  /\ UNCHANGED tables

UpdateStatusByReplacingRow(r) ==
  /\ req[r].pc = "update_status"
  /\ \E o \in WriteOutcomes :
       /\ CallCosts(o)
       /\ anomalies' =
            IF Applied(o)
              THEN [anomalies EXCEPT ![req[r].id].status = Verdict(req[r].op),
                                     ![req[r].id].narrative = "none"]
              ELSE anomalies
       /\ After(r, o, "reread")
  /\ UNCHANGED <<attributions, audit, soar, edges>>

UpdateStatus(r) ==
  /\ req[r].pc = "update_status"
  /\ \E o \in WriteOutcomes :
       /\ CallCosts(o)
       /\ anomalies' =
            IF Applied(o)
              THEN [anomalies EXCEPT ![req[r].id].status = Verdict(req[r].op)]
              ELSE anomalies
       /\ After(r, o, "reread")
  /\ UNCHANGED <<attributions, audit, soar, edges>>

RereadUnaudited(r) ==
  /\ req[r].pc = "reread"
  /\ Answer(r, 200)
  /\ UNCHANGED <<tables, faults>>

Reread(r) ==
  /\ req[r].pc = "reread"
  /\ req' = [req EXCEPT ![r].pc = "audit", ![r].final = anomalies[req[r].id].status]
  /\ UNCHANGED <<tables, faults>>

---------------------------------------------------------------------------
(* POST /decide and POST /narrative: fetch the anomaly, then its           *)
(* attribution, which may be missing.                                      *)

Decide(r, a) ==
  /\ Fetch(r, "decide", a, "read_attribution")
  /\ UNCHANGED tables

Narrate(r, a) ==
  /\ Fetch(r, "narrative", a, "read_attribution")
  /\ UNCHANGED tables

ReadAttributionUnaudited(r) ==
  /\ req[r].pc = "read_attribution"
  /\ req' = [req EXCEPT ![r].attr = attributions[req[r].id],
                        ![r].pc = IF req[r].op = "decide" THEN "compute" ELSE "save_narrative"]
  /\ UNCHANGED <<tables, faults>>

ReadAttribution(r) ==
  /\ req[r].pc = "read_attribution"
  /\ req' = [req EXCEPT ![r].attr = attributions[req[r].id],
                        ![r].pc = IF req[r].op = "decide" THEN "compute" ELSE "audit"]
  /\ UNCHANGED <<tables, faults>>

TitleAsLabel(a) == "Distributed Denial of Service"

\* The handlers look the label up from the row's title: ATTACK_TITLES is
\* one-to-one and a label it lacks is its own title, so that the lookup gives
\* back the label of the detection.
AttackLabel(a) == anomalies[a].det.attack

ComputeQueryingByLabel(r) ==
  /\ req[r].pc = "compute"
  /\ \E g \in GraphAnswers :
       /\ GraphCosts(g)
       /\ req' = [req EXCEPT ![r].pc = "audit", ![r].graph = g,
            ![r].dec = DecisionFor(AttackLabel(req[r].id),
                                   IF req[r].attr = None THEN 0 ELSE req[r].attr.confidence,
                                   AttackLabel(req[r].id), g)]
  /\ UNCHANGED tables

\* The confidence comes from the attribution: a missing one counts as 0 and matches no technique.
Compute(r) ==
  LET attr == req[r].attr
  IN  /\ req[r].pc = "compute"
      /\ \E g \in GraphAnswers :
           /\ GraphCosts(g)
           /\ req' = [req EXCEPT ![r].pc = "audit", ![r].graph = g,
                ![r].dec = DecisionFor(AttackLabel(req[r].id),
                                       IF attr = None THEN 0 ELSE attr.confidence,
                                       IF attr = None THEN "" ELSE attr.technique, g)]
      /\ UNCHANGED tables

NarrativeOf(attr) == IF attr = None THEN "T0000" ELSE attr.technique

\* The narrative is stored after it is audited; a failure is swallowed.
SaveNarrative(r) ==
  /\ req[r].pc = "save_narrative"
  /\ \E o \in WriteOutcomes :
       /\ CallCosts(o)
       /\ anomalies' =
            IF Applied(o)
              THEN [anomalies EXCEPT ![req[r].id].narrative = NarrativeOf(req[r].attr)]
              ELSE anomalies
  /\ Answer(r, 200)
  /\ UNCHANGED <<attributions, audit, soar, edges>>

---------------------------------------------------------------------------
(* POST /soar/...: no fetch; after the simulated delay the action is       *)
(* recorded, then audited, and both failures are swallowed.                *)

Soar(r, op, a) ==
  /\ req' = [req EXCEPT ![r] = [Idle EXCEPT !.op = op, !.id = a, !.pc = "record"]]
  /\ UNCHANGED <<tables, faults>>

RecordSoarUnaudited(r) ==
  /\ req[r].pc = "record"
  /\ \E o \in WriteOutcomes :
       /\ CallCosts(o)
       /\ soar' = IF Accepted(o, req[r].id)
                    THEN soar \union {[by |-> r, id |-> req[r].id, action |-> req[r].op]}
                    ELSE soar
  /\ Answer(r, 200)
  /\ UNCHANGED <<anomalies, attributions, audit, edges>>

RecordSoar(r) ==
  /\ req[r].pc = "record"
  /\ \E o \in WriteOutcomes :
       /\ CallCosts(o)
       /\ soar' = IF Accepted(o, req[r].id)
                    THEN soar \union {[by |-> r, id |-> req[r].id, action |-> req[r].op]}
                    ELSE soar
  /\ Goto(r, "audit")
  /\ UNCHANGED <<anomalies, attributions, audit, edges>>

---------------------------------------------------------------------------
(* log_action, the last call of every audited handler but the narrative's. *)

ActionType(op) ==
  CASE op = "approve"   -> "human_approved"
    [] op = "reject"    -> "human_rejected"
    [] op = "decide"    -> "decision_computed"
    [] op = "narrative" -> "narrative_generated"
    [] OTHER            -> op

AuditEntryFromUpdatedRow(r) ==
  LET q == req[r]
  IN  [ by |-> r, id |-> q.id, action |-> ActionType(q.op),
        prev  |-> IF q.op \in ReviewOps THEN q.final ELSE "none",
        new   |-> IF q.op \in ReviewOps THEN Verdict(q.op) ELSE "none",
        level |-> IF q.op = "decide" THEN q.dec.level ELSE "none" ]

AuditEntry(r) ==
  LET q == req[r]
  IN  [ by |-> r, id |-> q.id, action |-> ActionType(q.op),
        prev  |-> IF q.op \in ReviewOps THEN q.prev ELSE "none",
        new   |-> IF q.op \in ReviewOps THEN Verdict(q.op) ELSE "none",
        level |-> IF q.op = "decide" THEN q.dec.level ELSE "none" ]

LogAction(r) ==
  /\ req[r].pc = "audit"
  /\ \E o \in WriteOutcomes :
       /\ CallCosts(o)
       /\ audit' = IF Accepted(o, req[r].id)
                     THEN audit \union {AuditEntry(r)} ELSE audit
  /\ IF req[r].op = "narrative" THEN Goto(r, "save_narrative") ELSE Answer(r, 200)
  /\ UNCHANGED <<anomalies, attributions, soar, edges>>

---------------------------------------------------------------------------
(* GET /anomalies and GET /attributions: a page, then the total.           *)

AnomalyCount     == Cardinality({a \in AnomalyIds : Stored(a)})
AttributionCount == Cardinality({a \in AnomalyIds : attributions[a] # None})

PageOf(n) == IF n <= PageSize THEN n ELSE PageSize

ListPage(r, op) ==
  /\ req' = [req EXCEPT ![r] =
               [Idle EXCEPT !.op = op, !.pc = "count",
                  !.items = PageOf(IF op = "list_anomalies" THEN AnomalyCount
                                                            ELSE AttributionCount)]]
  /\ UNCHANGED <<tables, faults>>

CountAttributionRows(r) ==
  /\ req[r].pc = "count"
  /\ req' = [req EXCEPT ![r].pc = "done", ![r].code = 200, ![r].total = AttributionCount]
  /\ UNCHANGED <<tables, faults>>

CountRows(r) ==
  /\ req[r].pc = "count"
  /\ req' = [req EXCEPT ![r].pc = "done", ![r].code = 200, ![r].total = AnomalyCount]
  /\ UNCHANGED <<tables, faults>>

---------------------------------------------------------------------------
(* Failures and the next-state relation.                                   *)

\* A read that raises: a query (StoreUnavailableError, answered 503), or the
\* corpus, whose file may be unreadable and whose index is still None for a
\* thread that comes while another one loads it (answered 500).  The narrative's
\* lookup follows its attribution and fails like it.
ReadFails(r) ==
  /\ req[r].pc \in {"reread", "read_attribution", "count", "enrich"}
  /\ Fault
  /\ Answer(r, 500)
  /\ UNCHANGED tables

\* The worker serving the request dies (crash, restart or worker timeout).
Crash(r) ==
  /\ req[r].pc \notin {"idle", "done", "crashed"}
  /\ Fault
  /\ Goto(r, "crashed")
  /\ UNCHANGED tables

Begin(r) ==
  /\ req[r].pc = "idle"
  /\ \/ /\ "correlate" \in Ops
        /\ \E d \in Detections : Correlate(r, d)
     \/ \E op \in Ops \intersect ReviewOps, a \in Targets : Review(r, op, a)
     \/ /\ "decide" \in Ops
        /\ \E a \in Targets : Decide(r, a)
     \/ /\ "narrative" \in Ops
        /\ \E a \in Targets : Narrate(r, a)
     \/ \E op \in Ops \intersect SoarOps, a \in Targets : Soar(r, op, a)
     \/ \E op \in Ops \intersect ListOps : ListPage(r, op)

Step(r) ==
  \/ InsertAnomaly(r) \/ InsertAttribution(r) \/ UpdateGraph(r) \/ Enrich(r)
  \/ UpdateStatus(r)  \/ Reread(r)
  \/ ReadAttribution(r) \/ Compute(r) \/ SaveNarrative(r)
  \/ RecordSoar(r) \/ LogAction(r) \/ CountRows(r)
  \/ ReadFails(r)  \/ Crash(r)

\* Every request has been served, or has not been sent.
Quiet ==
  /\ \A r \in Requests : req[r].pc \in {"idle", "done", "crashed"}
  /\ UNCHANGED vars

Next == (\E r \in Requests : Begin(r) \/ Step(r)) \/ Quiet

Spec == Init /\ [][Next]_vars

---------------------------------------------------------------------------
(* Properties.                                                             *)

Reviews(a) == {r \in Requests : req[r].op \in ReviewOps /\ req[r].id = a}
EntriesOf(r) == {e \in audit : e.by = r}

\* A request that has not reached its audit insert yet.
BeforeAudit(r) == req[r].pc \notin {"done", "crashed", "save_narrative"}

\* A correlation answered 200 left both of its rows behind, with the decision it
\* answered and the technique it attributed, whatever ran or failed around it:
\* put() raises, so main.correlate cannot answer past a lost row.
CorrelateIsDurable ==
  \A r \in Requests :
    req[r].op = "correlate" /\ req[r].code = 200 /\ req[r].id # None =>
      /\ Stored(req[r].id)
      /\ anomalies[req[r].id].decision = req[r].dec
      /\ attributions[req[r].id] # None
      /\ attributions[req[r].id].technique = CorrelateTechnique(req[r].det.attack)

\* Rows refer to rows that exist, in Postgres by its foreign keys and across
\* stores by the order of the writes: a relationship of the graph that is not
\* there from before belongs to an anomaly with both of its rows.
ReferencesExist ==
  /\ \A a \in AnomalyIds : attributions[a] # None => Stored(a)
  /\ \A e \in audit \union soar : Stored(e.id)
  /\ \A e \in edges \ PriorEdges : Stored(e.id) /\ attributions[e.id] # None

\* What no step of any handler may do to a stored anomaly: drop it, change the
\* decision it was correlated with, forget its narrative, or return it to the
\* review queue.  Updates touch one column each, so that two handlers working on
\* one row cannot undo each other.
RowsEvolve ==
  [][ \A a \in AnomalyIds : Stored(a) =>
        /\ anomalies'[a] # None
        /\ anomalies'[a].det = anomalies[a].det
        /\ anomalies'[a].decision = anomalies[a].decision
        /\ anomalies[a].narrative # "none" => anomalies'[a].narrative # "none"
        /\ anomalies[a].status # "new" => anomalies'[a].status # "new" ]_vars

\* The status of a reviewed anomaly is the verdict of one of its reviews, and
\* that review has an audit entry unless it is still to write it or a failure
\* hit the service (_apply_human_review updates first and audits last).
StatusIsAccounted ==
  \A a \in AnomalyIds : Stored(a) /\ anomalies[a].status # "new" =>
    \E r \in Reviews(a) :
      /\ Verdict(req[r].op) = anomalies[a].status
      /\ BeforeAudit(r) \/ EntriesOf(r) # {} \/ faults > 0

\* A review in the trail did change the status, away from "new", and its
\* answer and its entry never show "new" as the outcome; without failures the
\* trail of an anomaly under no running review starts from "new" somewhere: two
\* racing reviews may both claim to, but they cannot both miss it.
ReviewTrail ==
  /\ \A e \in audit : e.action \in {"human_approved", "human_rejected"} =>
       anomalies[e.id].status # "new"
  /\ \A r \in Requests : req[r].final # "new"
  /\ \A a \in AnomalyIds :
       faults = 0 /\ (\A r \in Reviews(a) : ~BeforeAudit(r))
         /\ (\E r \in Reviews(a) : req[r].code = 200) =>
       \E e \in audit : e.id = a /\ e.prev = "new"

\* A stored narrative was audited before it was stored, and names the technique
\* attributed to its anomaly, or T0000 when it was written for a row whose
\* attribution had not arrived (generate_narrative_endpoint).
NarrativeIsTraced ==
  \A a \in AnomalyIds : Stored(a) /\ anomalies[a].narrative # "none" =>
    /\ \/ faults > 0
       \/ \E e \in audit : e.id = a /\ e.action = "narrative_generated"
    /\ \/ anomalies[a].narrative = "T0000"
       \/ attributions[a] # None /\ anomalies[a].narrative = attributions[a].technique

\* Of the two records a SOAR action leaves, the audit entry comes second; it is
\* there once the action is answered, unless a call failed; and no entry is
\* there without the action's own record unless a call failed.
SoarIsTraced ==
  \A r \in Requests : req[r].op \in SoarOps =>
    LET recorded == \E x \in soar : x.by = r
    IN  /\ recorded /\ ~BeforeAudit(r) => EntriesOf(r) # {} \/ faults > 0
        /\ EntriesOf(r) # {} => recorded \/ faults > 0

\* A page never shows more rows than the total answered with it, although the
\* total is a second query, and for attributions counts the other table.
PageWithinTotal ==
  \A r \in Requests : req[r].op \in ListOps /\ req[r].code = 200 =>
    req[r].items <= req[r].total

DecideAnswers == {r \in Requests : req[r].op = "decide" /\ req[r].dec # None}

\* Without a graph, /decide recomputes the decision stored at correlate time,
\* unless the attribution it reads is missing: then it is "monitor".
DecideAgrees ==
  ~GraphEnabled => \A r \in DecideAnswers :
    IF req[r].attr # None THEN req[r].dec = anomalies[req[r].id].decision
                          ELSE req[r].dec.level = "monitor"

\* With a graph that answers, /decide is never laxer than the stored decision:
\* relationships are only added, so a blast radius only grows, and an anomaly
\* that needed a human still needs one.
DecideNeverRelaxes ==
  \A r \in DecideAnswers :
    req[r].graph # "down" /\ req[r].attr # None
      /\ anomalies[req[r].id].decision.human => req[r].dec.human

\* decision.py, lines 46-50 and 91-95: a graph that is unavailable gives no
\* blast radius, and the static estimate of label_to_mitre.json is used.
UnavailableGraphFallsBack ==
  \A r \in Requests : req[r].op = "correlate" /\ req[r].graph = "down" =>
    req[r].dec.radius = StaticBlastRadius(req[r].det.attack)

\* soar.py, lines 3-4: each action writes to the soar_actions table and emits an
\* audit log entry.  (Stated of answered actions when no call failed.)
SoarActionsAreRecorded ==
  \A r \in Requests : req[r].op \in SoarOps /\ req[r].code = 200 /\ faults = 0 =>
    (\E x \in soar : x.by = r) /\ EntriesOf(r) # {}
=============================================================================
