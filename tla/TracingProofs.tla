--------------------------- MODULE TracingProofs ---------------------------
(***************************************************************************)
(* What the correlation-response service can account for: statuses,        *)
(* narratives, actions, totals and recomputed decisions, for any requests, *)
(* identifiers and graph, with any failures.                               *)
(***************************************************************************)
EXTENDS ResponseProofs

---------------------------------------------------------------------------
(* Reviews, narratives and SOAR actions.                                   *)

SoarOf(r) == {x \in soar : x.by = r}

\* No correlation draws an identifier of a client.
StraysStayStray == \A a \in StrayIds : ~Stored(a)

\* Records of a request appear when it comes to write them, and only a failure keeps a
\* request from its end.
RecordsComeInTime ==
  \A r \in Requests :
    /\ req[r].pc \in {"idle", "record"} => SoarOf(r) = {}
    /\ EntriesOf(r) # {} => ~BeforeAudit(r)
    /\ req[r].pc = "crashed" => faults > 0

\* Without failures a SOAR action on a stored anomaly leaves both records, and on an
\* identifier of the client's own none.
ActionsAreCounted ==
  \A r \in Requests : req[r].op \in SoarOps =>
    /\ req[r].id \in AnomalyIds
    /\ Stored(req[r].id) \/ req[r].id \in StrayIds
    /\ faults = 0 /\ req[r].pc \in {"audit", "done"} =>
         (SoarOf(r) # {} <=> Stored(req[r].id))
    /\ faults = 0 /\ req[r].pc = "done" =>
         (EntriesOf(r) # {} <=> Stored(req[r].id))

\* The attribution a handler read is still that of the anomaly.
AttributionsLast ==
  \A r \in Requests : req[r].attr # None =>
    req[r].id \in AnomalyIds /\ attributions[req[r].id] = req[r].attr

\* A handler about to store a narrative has audited it.
NarrativesAreAnnounced ==
  \A r \in Requests : req[r].pc = "save_narrative" =>
    faults > 0 \/ \E e \in audit : e.id = req[r].id /\ e.action = "narrative_generated"

IdleServesNothing == \A r \in Requests : req[r].pc = "idle" => req[r].op = "none"

\* A review that has updated the row, or was answered, left it outside the queue; one that
\* finds it in the queue at its update found it there before.
ReviewsDecide ==
  \A r \in Requests : req[r].op \in ReviewOps =>
    /\ req[r].pc \in {"reread", "audit"} \/ req[r].code = 200 =>
         /\ req[r].id \in AnomalyIds
         /\ Stored(req[r].id) /\ anomalies[req[r].id].status # "new"
    /\ req[r].pc = "update_status" /\ anomalies[req[r].id].status = "new" => req[r].prev = "new"

\* Without failures, an anomaly out of the queue was taken out of it by a review that says so
\* or will.
FirstReviewIsTold ==
  faults = 0 => \A a \in AnomalyIds : Stored(a) /\ anomalies[a].status # "new" =>
    \/ \E e \in audit : e.id = a /\ e.prev = "new"
    \/ \E r \in Reviews(a) : req[r].prev = "new" /\ req[r].pc \in {"reread", "audit"}

ReviewedRowsInTrail ==
  \A e \in audit : e.action \in {"human_approved", "human_rejected"} =>
    Stored(e.id) /\ anomalies[e.id].status # "new"

OutcomesAreVerdicts == \A r \in Requests : req[r].final # "new"

TraceInv ==
  /\ StraysStayStray /\ RecordsComeInTime /\ ActionsAreCounted
  /\ AttributionsLast /\ NarrativesAreAnnounced /\ NarrativeIsTraced
  /\ IdleServesNothing /\ StatusIsAccounted
  /\ ReviewsDecide /\ FirstReviewIsTold /\ ReviewedRowsInTrail /\ OutcomesAreVerdicts

---------------------------------------------------------------------------
(* Totals.                                                                 *)

\* A page under way fits the rows there are; one that was answered fits its total.
PagesFit ==
  \A r \in Requests : req[r].op \in ListOps =>
    /\ req[r].pc = "count" => req[r].items <= AnomalyCount
    /\ req[r].code = 200 => req[r].items <= req[r].total

---------------------------------------------------------------------------
(* Decisions.                                                              *)

\* The decision for a detection as the graph is now.
DecisionNow(d) == DecisionFor(d.attack, d.confidence, CorrelateTechnique(d.attack), "answered")

\* How a decision made before relates to the one that would be made now.
Agrees(dec, d) ==
  /\ ~GraphEnabled => dec = DecisionNow(d)
  /\ dec.human => DecisionNow(d).human

DecisionsAgree ==
  /\ \A a \in AnomalyIds : Stored(a) => Agrees(anomalies[a].decision, anomalies[a].det)
  /\ \A a \in AnomalyIds : attributions[a] # None =>
       /\ attributions[a].technique  = CorrelateTechnique(anomalies[a].det.attack)
       /\ attributions[a].confidence = anomalies[a].det.confidence
  /\ \A r \in Requests : req[r].pc = "insert_anomaly" => Agrees(req[r].dec, req[r].det)
  /\ \A r \in Requests : req[r].pc = "insert_attribution" => anomalies[req[r].id].det = req[r].det

\* Only Compute makes a decision after the attribution is read.
DecisionsComeLast == \A r \in Requests : req[r].pc = "read_attribution" => req[r].dec = None

\* The decision a /decide recomputed, against the stored one.
RecomputedDecisionsAgree ==
  \A r \in DecideAnswers :
    LET stored == anomalies[req[r].id].decision
    IN  /\ req[r].id \in AnomalyIds /\ Stored(req[r].id)
        /\ ~GraphEnabled => IF req[r].attr # None THEN req[r].dec = stored
                                                  ELSE req[r].dec.level = "monitor"
        /\ req[r].graph # "down" /\ req[r].attr # None /\ stored.human => req[r].dec.human

---------------------------------------------------------------------------
(* What a step writes into its request and the tables.                     *)

Same(r) ==
  /\ \A q \in Requests \ {r} : req'[q] = req[q]
  /\ req'[r].op = req[r].op /\ req'[r].id = req[r].id /\ req'[r].det = req[r].det
  /\ req'[r].prev = req[r].prev

\* What a request carries, but for its place and its answer.
Load(r) == <<req[r].dec, req[r].attr, req[r].graph, req[r].final, req[r].items, req[r].total>>

LEMMA GotoFields ==
  ASSUME TypeOK, NEW r \in Requests, NEW pc, Goto(r, pc)
  PROVE  /\ Same(r) /\ UNCHANGED Load(r)
         /\ req'[r].pc = pc /\ req'[r].code = req[r].code
BY DEF Goto, TypeOK, RequestState, Same, Load

LEMMA AnswerFields ==
  ASSUME TypeOK, NEW r \in Requests, NEW code, Answer(r, code)
  PROVE  /\ Same(r) /\ UNCHANGED Load(r)
         /\ req'[r].pc = "done" /\ req'[r].code = code
BY DEF Answer, TypeOK, RequestState, Same, Load

LEMMA AfterFields ==
  ASSUME TypeOK, NEW r \in Requests, NEW o, NEW next, After(r, o, next)
  PROVE  /\ Same(r) /\ UNCHANGED Load(r)
         /\ \/ o = "ok" /\ req'[r].pc = next /\ req'[r].code = req[r].code
            \/ o # "ok" /\ req'[r].pc = "done" /\ req'[r].code = 500
<1>1. CASE o = "ok"
  BY <1>1, GotoFields DEF After
<1>2. CASE o # "ok"
  BY <1>2, AnswerFields DEF After
<1> QED BY <1>1, <1>2

LEMMA FaultsGrow ==
  ASSUME TypeOK
  PROVE  /\ faults \in Nat
         /\ Fault => faults' \in Nat /\ faults' > 0 /\ faults' >= faults
         /\ \A o : CallCosts(o) =>
              /\ faults' \in Nat /\ faults' >= faults
              /\ o # "ok" => faults' > 0
              /\ o = "ok" => faults' = faults
<1>1. faults \in Nat
  BY ResponseAssumption DEF TypeOK
<1>2. Fault => faults' \in Nat /\ faults' > 0 /\ faults' >= faults
  BY <1>1 DEF Fault
<1> QED BY <1>1, <1>2 DEF CallCosts

\* What moves in one step of a handler.
LEMMA StepFields ==
  ASSUME IInv, NEW r \in Requests, Step(r)
  PROVE  /\ Same(r)
         /\ req[r].pc \notin {"idle", "done", "crashed"}
         /\ faults' \in Nat /\ faults' >= faults
         /\ UNCHANGED Load(r) \/ Reread(r) \/ ReadAttribution(r) \/ Compute(r) \/ CountRows(r)
<1>1. TypeOK
  BY DEF IInv
<1>2. CASE InsertAnomaly(r) \/ InsertAttribution(r) \/ UpdateStatus(r)
  BY <1>1, <1>2, AfterFields, FaultsGrow DEF InsertAnomaly, InsertAttribution, UpdateStatus
<1>3. CASE UpdateGraph(r) \/ RecordSoar(r)
  BY <1>1, <1>3, GotoFields, FaultsGrow DEF UpdateGraph, RecordSoar
<1>4. CASE Crash(r)
  BY <1>1, <1>4, GotoFields, FaultsGrow DEF Crash
<1>5. CASE Enrich(r)
  BY <1>1, <1>5, AnswerFields, FaultsGrow DEF Enrich
<1>6. CASE SaveNarrative(r)
  BY <1>1, <1>6, AnswerFields, FaultsGrow DEF SaveNarrative
<1>7. CASE ReadFails(r)
  BY <1>1, <1>7, AnswerFields, FaultsGrow DEF ReadFails
<1>8. CASE LogAction(r)
  BY <1>1, <1>8, AnswerFields, GotoFields, FaultsGrow DEF LogAction
<1>9. CASE Reread(r)
  BY <1>1, <1>9, FaultsGrow DEF Reread, TypeOK, RequestState, Same
<1>10. CASE ReadAttribution(r)
  BY <1>1, <1>10, FaultsGrow DEF ReadAttribution, TypeOK, RequestState, Same
<1>11. CASE CountRows(r)
  BY <1>1, <1>11, FaultsGrow DEF CountRows, TypeOK, RequestState, Same
<1>12. CASE Compute(r)
  <2>1. PICK g, dec : /\ req' = [req EXCEPT ![r].pc = "audit", ![r].graph = g, ![r].dec = dec]
                      /\ GraphCosts(g)
    BY <1>12 DEF Compute
  <2>2. req[r].pc = "compute"
    BY <1>12 DEF Compute
  <2>3. faults' \in Nat /\ faults' >= faults
    BY SMTT(60), <1>1, <2>1, FaultsGrow DEF GraphCosts
  <2> QED BY <1>1, <1>12, <2>1, <2>2, <2>3 DEF TypeOK, RequestState, Same
<1> QED BY <1>2, <1>3, <1>4, <1>5, <1>6, <1>7, <1>8, <1>9, <1>10, <1>11, <1>12 DEF Step

\* Which steps write which table.
LEMMA Writers ==
  ASSUME NEW r \in Requests, Step(r)
  PROVE  /\ UNCHANGED anomalies \/ InsertAnomaly(r) \/ UpdateStatus(r) \/ SaveNarrative(r)
         /\ UNCHANGED attributions \/ InsertAttribution(r)
         /\ UNCHANGED audit \/ LogAction(r)
         /\ UNCHANGED soar \/ RecordSoar(r)
         /\ UNCHANGED edges \/ UpdateGraph(r)
BY DEF Step, InsertAnomaly, InsertAttribution, UpdateGraph, Enrich, UpdateStatus, Reread,
       ReadAttribution, Compute, SaveNarrative, RecordSoar, LogAction, CountRows, ReadFails,
       Crash, tables

\* A request as a handler takes it up.
Taken(x) ==
  /\ x.attr = None /\ x.final = "none" /\ x.pc # "crashed"
  /\ x.pc # "done" => x.code = 0
  /\ x.op \in ReviewOps =>
       \/ /\ x.pc = "update_status" /\ x.id \in AnomalyIds
          /\ Stored(x.id) /\ x.prev = anomalies[x.id].status
       \/ x.pc = "done" /\ x.code # 200
  /\ x.op \in SoarOps => x.pc = "record" /\ x.id \in Targets
  /\ x.op \in ListOps =>
       /\ x.pc = "count"
       /\ x.items = PageOf(AnomalyCount) \/ x.items = PageOf(AttributionCount)
  /\ x.op # "correlate" => x.dec = None
  /\ x.pc # "insert_attribution"
  /\ x.pc = "insert_anomaly" =>
       /\ x.det \in Detections
       /\ \E g \in GraphAnswers : x.dec = DecisionFor(x.det.attack, x.det.confidence,
                                            CorrelateTechnique(x.det.attack), g)
  /\ x.pc \notin {"idle", "reread", "audit", "save_narrative", "crashed"}

LEMMA FetchFields ==
  ASSUME IInv, NEW r \in Requests, NEW op \in ReviewOps \cup {"decide", "narrative"},
         NEW a \in Targets, NEW next, Fetch(r, op, a, next),
         next = IF op \in ReviewOps THEN "update_status" ELSE "read_attribution"
  PROVE  \E x : /\ req' = [req EXCEPT ![r] = x]
                /\ Taken(x)
<1> DEFINE begun == [Idle EXCEPT !.op = op, !.id = a]
           found == [begun EXCEPT !.pc = next, !.prev = anomalies[a].status]
           over(code) == [begun EXCEPT !.pc = "done", !.code = code]
<1>1. a \in AnomalyIds
  BY ResponseAssumption DEF Targets
<1>2. op \notin SoarOps \cup ListOps \cup {"correlate"}
  BY DEF ReviewOps, SoarOps, ListOps
<1>3. /\ found.op = op /\ found.id = a /\ found.pc = next /\ found.prev = anomalies[a].status
      /\ found.code = 0 /\ found.attr = None /\ found.final = "none" /\ found.dec = None
  BY DEF Idle
<1>4. ASSUME NEW code
      PROVE  /\ over(code).op = op /\ over(code).pc = "done" /\ over(code).code = code
             /\ over(code).attr = None /\ over(code).final = "none" /\ over(code).dec = None
  BY DEF Idle
<1>5. \/ Stored(a) /\ req' = [req EXCEPT ![r] = found]
      \/ req' = [req EXCEPT ![r] = over(404)]
      \/ req' = [req EXCEPT ![r] = over(500)]
  BY DEF Fetch
<1> HIDE DEF found, over
<1>6. Stored(a) => Taken(found)
  <2>1. CASE op \in ReviewOps
    BY <1>1, <1>2, <1>3, <2>1 DEF Taken
  <2>2. CASE op \notin ReviewOps
    BY <1>2, <1>3, <2>2 DEF Taken
  <2> QED BY <2>1, <2>2
<1>7. Taken(over(404)) /\ Taken(over(500))
  BY <1>2, <1>4 DEF Taken
<1> QED BY <1>5, <1>6, <1>7

LEMMA CorrelateFields ==
  ASSUME IInv, NEW r \in Requests, NEW d \in Detections, Correlate(r, d)
  PROVE  \E x : /\ req' = [req EXCEPT ![r] = x]
                /\ Taken(x)
<1>1. "correlate" \notin ReviewOps \cup SoarOps \cup ListOps
  BY DEF ReviewOps, SoarOps, ListOps
<1>2. CASE d.attack = "BENIGN"
  <2> DEFINE x == [Idle EXCEPT !.op = "correlate", !.det = d, !.pc = "done", !.code = 200]
  <2>1. req' = [req EXCEPT ![r] = x]
    BY <1>2 DEF Correlate
  <2>2. x.op = "correlate" /\ x.pc = "done" /\ x.attr = None /\ x.final = "none"
    BY DEF Idle
  <2> HIDE DEF x
  <2>3. Taken(x)
    BY <1>1, <2>2 DEF Taken
  <2> QED BY <2>1, <2>3
<1>3. CASE d.attack # "BENIGN"
  <2>1. PICK a \in AnomalyIds, g \in GraphAnswers :
             req' = [req EXCEPT ![r] =
                  [Idle EXCEPT !.op = "correlate", !.det = d, !.id = a, !.graph = g,
                     !.pc  = "insert_anomaly",
                     !.dec = DecisionFor(d.attack, d.confidence, CorrelateTechnique(d.attack), g)]]
    BY <1>3 DEF Correlate
  <2>2. PICK dec : dec = DecisionFor(d.attack, d.confidence, CorrelateTechnique(d.attack), g)
    OBVIOUS
  <2> DEFINE x == [Idle EXCEPT !.op = "correlate", !.det = d, !.id = a, !.graph = g,
                     !.pc  = "insert_anomaly", !.dec = dec]
  <2>3. req' = [req EXCEPT ![r] = x]
    BY <2>1, <2>2
  <2>4. /\ x.op = "correlate" /\ x.pc = "insert_anomaly" /\ x.attr = None /\ x.final = "none"
        /\ x.det = d /\ x.dec = dec /\ x.code = 0
    BY DEF Idle
  <2> HIDE DEF x
  <2>5. Taken(x)
    BY <1>1, <2>2, <2>4 DEF Taken
  <2> QED BY <2>3, <2>5
<1> QED BY <1>2, <1>3

LEMMA BeginFields ==
  ASSUME IInv, NEW r \in Requests, Begin(r)
  PROVE  /\ UNCHANGED tables /\ req[r].pc = "idle"
         /\ faults' \in Nat /\ faults' >= faults
         /\ \A q \in Requests \ {r} : req'[q] = req[q]
         /\ Taken(req'[r])
<1>1. UNCHANGED tables /\ req[r].pc = "idle"
  BY DEF Begin, Correlate, Review, Decide, Narrate, Soar, ListPage
<1>2. faults' \in Nat /\ faults' >= faults
  <2>1. UNCHANGED faults \/ Fault
    <3>1. \A op, a, next : Fetch(r, op, a, next) => UNCHANGED faults \/ Fault
      BY DEF Fetch
    <3>2. \A d : Correlate(r, d) => UNCHANGED faults \/ Fault
      BY DEF Correlate, GraphCosts
    <3> QED BY <3>1, <3>2 DEF Begin, Review, Decide, Narrate, Soar, ListPage
  <2> QED BY <2>1, FaultsGrow DEF IInv
<1>3. \E x : req' = [req EXCEPT ![r] = x] /\ Taken(x)
  <2>1. CASE \E op \in ReviewOps, a \in Targets : Review(r, op, a)
    BY <2>1, FetchFields DEF Review
  <2>2. CASE \E a \in Targets : Decide(r, a)
    BY <2>2, FetchFields DEF Decide, ReviewOps
  <2>3. CASE \E a \in Targets : Narrate(r, a)
    BY <2>3, FetchFields DEF Narrate, ReviewOps
  <2>4. CASE \E d \in Detections : Correlate(r, d)
    BY <2>4, CorrelateFields
  <2>5. ASSUME NEW op \in SoarOps, NEW a \in Targets, Soar(r, op, a)
        PROVE  \E x : req' = [req EXCEPT ![r] = x] /\ Taken(x)
    <3> DEFINE x == [Idle EXCEPT !.op = op, !.id = a, !.pc = "record"]
    <3>1. req' = [req EXCEPT ![r] = x]
      BY <2>5 DEF Soar
    <3>2. /\ x.op = op /\ x.id = a /\ x.pc = "record" /\ x.code = 0
          /\ x.attr = None /\ x.final = "none" /\ x.dec = None
      BY DEF Idle
    <3>3. op \notin ReviewOps \cup ListOps
      BY DEF ReviewOps, SoarOps, ListOps
    <3> HIDE DEF x
    <3>4. Taken(x)
      BY <2>5, <3>2, <3>3 DEF Taken
    <3> QED BY <3>1, <3>4
  <2>6. ASSUME NEW op \in ListOps, ListPage(r, op)
        PROVE  \E x : req' = [req EXCEPT ![r] = x] /\ Taken(x)
    <3>1. PICK n : /\ n = PageOf(AnomalyCount) \/ n = PageOf(AttributionCount)
                   /\ req' = [req EXCEPT ![r] = [Idle EXCEPT !.op = op, !.pc = "count",
                                                             !.items = n]]
      BY <2>6 DEF ListPage
    <3> DEFINE x == [Idle EXCEPT !.op = op, !.pc = "count", !.items = n]
    <3>2. /\ x.op = op /\ x.pc = "count" /\ x.code = 0 /\ x.items = n
          /\ x.attr = None /\ x.final = "none" /\ x.dec = None
      BY DEF Idle
    <3>3. op \notin ReviewOps \cup SoarOps
      BY DEF ReviewOps, SoarOps, ListOps
    <3>4. req' = [req EXCEPT ![r] = x]
      BY <3>1
    <3> HIDE DEF x
    <3>5. Taken(x)
      BY <2>6, <3>1, <3>2, <3>3 DEF Taken
    <3> QED BY <3>4, <3>5
  <2> QED BY <2>1, <2>2, <2>3, <2>4, <2>5, <2>6 DEF Begin
<1>4. PICK x : req' = [req EXCEPT ![r] = x] /\ Taken(x)
  BY <1>3
<1>5. req'[r] = x /\ \A q \in Requests \ {r} : req'[q] = req[q]
  BY <1>4 DEF IInv, TypeOK
<1> QED BY <1>1, <1>2, <1>4, <1>5

---------------------------------------------------------------------------
(* Each part of TraceInv is kept.                                          *)

LEMMA StraysKept ==
  ASSUME IInv, StraysStayStray, [Next]_vars
  PROVE  StraysStayStray'
<1>1. ASSUME NEW r \in Requests, Step(r)  PROVE StraysStayStray'
  <2>1. CASE UNCHANGED anomalies
    BY <2>1 DEF StraysStayStray, Stored
  <2>2. CASE InsertAnomaly(r)
    <3>1. req[r].id \notin StrayIds /\ req[r].pc = "insert_anomaly"
      BY <2>2 DEF InsertAnomaly, IInv, Sound
    <3> QED BY <2>2, <3>1, ResponseAssumption
            DEF InsertAnomaly, StraysStayStray, Stored, IInv, TypeOK
  <2>3. CASE UpdateStatus(r) \/ SaveNarrative(r)
    <3>1. Stored(req[r].id)
      BY <2>3 DEF UpdateStatus, SaveNarrative, IInv, Sound
    <3> QED BY <2>3, <3>1, ResponseAssumption
            DEF UpdateStatus, SaveNarrative, StraysStayStray, Stored, IInv, TypeOK
  <2> QED BY <1>1, <2>1, <2>2, <2>3, Writers
<1>2. ASSUME NEW r \in Requests, Begin(r)  PROVE StraysStayStray'
  BY <1>2, BeginFields DEF StraysStayStray, Stored, tables
<1>3. CASE UNCHANGED vars
  BY <1>3 DEF StraysStayStray, Stored, vars
<1> QED BY <1>1, <1>2, <1>3 DEF Next, Quiet

\* What LogAction and RecordSoar do to the records of the requests.
LEMMA LogFields ==
  ASSUME IInv, NEW r \in Requests, LogAction(r)
  PROVE  /\ Same(r) /\ UNCHANGED Load(r)
         /\ req[r].pc = "audit"
         /\ IF req[r].op = "narrative"
              THEN req'[r].pc = "save_narrative" /\ req'[r].code = req[r].code
              ELSE req'[r].pc = "done" /\ req'[r].code = 200
         /\ audit \subseteq audit' /\ audit' \subseteq audit \cup {AuditEntry(r)}
         /\ Stored(req[r].id) => faults' > 0 \/ AuditEntry(r) \in audit'
         /\ ~Stored(req[r].id) => audit' = audit
         /\ UNCHANGED <<anomalies, attributions, soar, edges>>
<1>1. TypeOK
  BY DEF IInv
<1>2. PICK o \in WriteOutcomes :
         /\ CallCosts(o)
         /\ audit' = IF Accepted(o, req[r].id)
                       THEN audit \cup {AuditEntry(r)} ELSE audit
  BY DEF LogAction
<1>3. /\ req[r].pc = "audit"
      /\ IF req[r].op = "narrative" THEN Goto(r, "save_narrative") ELSE Answer(r, 200)
      /\ UNCHANGED <<anomalies, attributions, soar, edges>>
  BY DEF LogAction
<1>4. /\ Same(r) /\ UNCHANGED Load(r)
      /\ IF req[r].op = "narrative"
           THEN req'[r].pc = "save_narrative" /\ req'[r].code = req[r].code
           ELSE req'[r].pc = "done" /\ req'[r].code = 200
  BY <1>1, <1>3, GotoFields, AnswerFields
<1>5. o = "ok" \/ faults' > 0
  BY <1>1, <1>2, FaultsGrow
<1> HIDE DEF Same, Load
<1> QED BY <1>2, <1>3, <1>4, <1>5 DEF Accepted, Applied

LEMMA RecordFields ==
  ASSUME IInv, NEW r \in Requests, RecordSoar(r)
  PROVE  /\ Same(r) /\ UNCHANGED Load(r)
         /\ req[r].pc = "record" /\ req'[r].pc = "audit" /\ req'[r].code = req[r].code
         /\ \/ soar' = soar /\ (faults' > 0 \/ ~Stored(req[r].id))
            \/ /\ soar' = soar \cup {[by |-> r, id |-> req[r].id, action |-> req[r].op]}
               /\ Stored(req[r].id)
         /\ UNCHANGED <<anomalies, attributions, audit, edges>>
<1>1. TypeOK
  BY DEF IInv
<1>2. PICK o \in WriteOutcomes :
         /\ CallCosts(o)
         /\ soar' = IF Accepted(o, req[r].id)
                      THEN soar \cup {[by |-> r, id |-> req[r].id, action |-> req[r].op]}
                      ELSE soar
  BY DEF RecordSoar
<1>3. o = "ok" \/ faults' > 0
  BY <1>1, <1>2, FaultsGrow
<1>4. /\ req[r].pc = "record" /\ Goto(r, "audit")
      /\ UNCHANGED <<anomalies, attributions, audit, edges>>
  BY DEF RecordSoar
<1> QED BY <1>1, <1>2, <1>3, <1>4, GotoFields DEF Accepted, Applied

\* A request whose place is not that of its audit or action record leaves the records.
LEMMA RecordsOf ==
  ASSUME IInv, NEW r \in Requests, Step(r)
  PROVE  /\ \A q \in Requests \ {r} : SoarOf(q)' = SoarOf(q) /\ EntriesOf(q)' = EntriesOf(q)
         /\ req[r].pc # "record" => SoarOf(r)' = SoarOf(r)
         /\ req[r].pc # "audit"  => EntriesOf(r)' = EntriesOf(r)
<1>1. \A q \in Requests \ {r} : SoarOf(q)' = SoarOf(q)
  BY Writers, RecordFields DEF SoarOf
<1>2. \A q \in Requests \ {r} : EntriesOf(q)' = EntriesOf(q)
  <2>1. AuditEntry(r).by = r
    BY DEF AuditEntry
  <2> QED BY <2>1, Writers, LogFields DEF EntriesOf
<1>3. req[r].pc # "record" => SoarOf(r)' = SoarOf(r)
  BY Writers DEF SoarOf, RecordSoar
<1>4. req[r].pc # "audit" => EntriesOf(r)' = EntriesOf(r)
  BY Writers DEF EntriesOf, LogAction
<1> QED BY <1>1, <1>2, <1>3, <1>4

\* Where a request can be after a step.
LEMMA NextPlace ==
  ASSUME IInv, NEW r \in Requests, Step(r)
  PROVE  \/ req'[r].pc \in {"insert_attribution", "update_graph", "enrich", "reread", "audit",
                            "compute", "save_narrative", "done"}
         \/ req'[r].pc = "crashed" /\ Crash(r) /\ faults' > 0
<1>1. TypeOK
  BY DEF IInv
<1>2. CASE InsertAnomaly(r) \/ InsertAttribution(r) \/ UpdateStatus(r)
  BY <1>1, <1>2, AfterFields DEF InsertAnomaly, InsertAttribution, UpdateStatus
<1>3. CASE UpdateGraph(r) \/ RecordSoar(r)
  BY <1>1, <1>3, GotoFields DEF UpdateGraph, RecordSoar
<1>4. CASE Enrich(r) \/ SaveNarrative(r) \/ ReadFails(r)
  BY <1>1, <1>4, AnswerFields DEF Enrich, SaveNarrative, ReadFails
<1>5. CASE LogAction(r)
  BY <1>5, LogFields
<1>6. CASE Crash(r)
  BY <1>1, <1>6, GotoFields, FaultsGrow DEF Crash
<1>7. CASE Reread(r)
  BY <1>1, <1>7 DEF Reread, TypeOK, RequestState
<1>8. CASE ReadAttribution(r)
  BY <1>1, <1>8 DEF ReadAttribution, TypeOK, RequestState
<1>9. CASE CountRows(r)
  BY <1>1, <1>9 DEF CountRows, TypeOK, RequestState
<1>10. CASE Compute(r)
  <2>1. PICK g, dec : req' = [req EXCEPT ![r].pc = "audit", ![r].graph = g, ![r].dec = dec]
    BY <1>10 DEF Compute
  <2> QED BY <1>1, <2>1 DEF TypeOK, RequestState
<1> QED BY <1>2, <1>3, <1>4, <1>5, <1>6, <1>7, <1>8, <1>9, <1>10 DEF Step

LEMMA RecordsComeKept ==
  ASSUME IInv, RecordsComeInTime, [Next]_vars
  PROVE  RecordsComeInTime'
<1>1. ASSUME NEW r \in Requests, Step(r), NEW q \in Requests
      PROVE  /\ req'[q].pc \in {"idle", "record"} => SoarOf(q)' = {}
             /\ EntriesOf(q)' # {} => ~BeforeAudit(q)'
             /\ req'[q].pc = "crashed" => faults' > 0
  <2>1. CASE q # r
    <3>1. req'[q] = req[q] /\ SoarOf(q)' = SoarOf(q) /\ EntriesOf(q)' = EntriesOf(q)
      BY <1>1, <2>1, StepFields, RecordsOf DEF Same
    <3>2. faults > 0 => faults' > 0
      BY <1>1, StepFields, FaultsGrow DEF IInv
    <3> QED BY <3>1, <3>2 DEF RecordsComeInTime, BeforeAudit
  <2>2. CASE q = r
    <3>1. req'[r].pc \notin {"idle", "record"}
      BY <1>1, NextPlace
    <3>2. req'[r].pc = "crashed" => faults' > 0
      BY <1>1, NextPlace
    <3>3. EntriesOf(r)' # {} => ~BeforeAudit(r)'
      <4>1. CASE LogAction(r)
        BY <4>1, LogFields DEF BeforeAudit
      <4>2. CASE ~LogAction(r)
        <5>1. EntriesOf(r)' = EntriesOf(r)
          BY <1>1, <4>2, Writers DEF EntriesOf
        <5>2. ~BeforeAudit(r) => ~BeforeAudit(r)'
          <6>1. req[r].pc = "save_narrative" => SaveNarrative(r) \/ Crash(r)
            BY <1>1 DEF Step, InsertAnomaly, InsertAttribution, UpdateStatus, UpdateGraph,
                  RecordSoar, Enrich, ReadFails, LogAction, Reread, ReadAttribution,
                  Compute, CountRows
          <6>2. SaveNarrative(r) \/ Crash(r) => req'[r].pc \in {"done", "crashed"}
            BY AnswerFields, GotoFields DEF IInv, SaveNarrative, Crash
          <6>3. req[r].pc \notin {"done", "crashed"}
            BY <1>1, StepFields
          <6> QED BY <6>1, <6>2, <6>3 DEF BeforeAudit
        <5> QED BY <5>1, <5>2 DEF RecordsComeInTime
      <4> QED BY <4>1, <4>2
    <3> QED BY <2>2, <3>1, <3>2, <3>3
  <2> QED BY <2>1, <2>2
<1>2. ASSUME NEW r \in Requests, Begin(r), NEW q \in Requests
      PROVE  /\ req'[q].pc \in {"idle", "record"} => SoarOf(q)' = {}
             /\ EntriesOf(q)' # {} => ~BeforeAudit(q)'
             /\ req'[q].pc = "crashed" => faults' > 0
  <2>1. SoarOf(q)' = SoarOf(q) /\ EntriesOf(q)' = EntriesOf(q)
    BY <1>2, BeginFields DEF tables, SoarOf, EntriesOf
  <2>2. CASE q # r
    <3>1. req'[q] = req[q] /\ (faults > 0 => faults' > 0)
      BY <1>2, <2>2, BeginFields, FaultsGrow DEF IInv
    <3> QED BY <2>1, <3>1 DEF RecordsComeInTime, BeforeAudit
  <2>3. CASE q = r
    <3>1. SoarOf(r) = {} /\ EntriesOf(r) = {}
      BY <1>2, BeginFields DEF RecordsComeInTime, BeforeAudit
    <3>2. req'[r].pc # "crashed"
      BY <1>2, BeginFields DEF Taken
    <3> QED BY <2>1, <2>3, <3>1, <3>2
  <2> QED BY <2>2, <2>3
<1>3. CASE UNCHANGED vars
  BY <1>3 DEF RecordsComeInTime, SoarOf, EntriesOf, BeforeAudit, vars
<1>4. CASE \E r \in Requests : Begin(r) \/ Step(r)
  BY <1>1, <1>2, <1>4 DEF RecordsComeInTime
<1> QED BY <1>3, <1>4 DEF Next, Quiet

LEMMA AttributionsKept ==
  ASSUME IInv, AttributionsLast, [Next]_vars
  PROVE  AttributionsLast'
<1>1. ASSUME NEW a \in AnomalyIds, NEW r \in Requests, Step(r), attributions[a] # None
      PROVE  attributions'[a] = attributions[a]
  <2>1. CASE InsertAttribution(r)
    <3>1. req[r].id # a
      BY <1>1, <2>1 DEF InsertAttribution, IInv, Sound
    <3> QED BY <2>1, <3>1 DEF InsertAttribution, IInv, TypeOK
  <2> QED BY <1>1, <2>1, Writers
<1>2. ASSUME NEW r \in Requests, Step(r), NEW q \in Requests, req'[q].attr # None
      PROVE  req'[q].id \in AnomalyIds /\ attributions'[req'[q].id] = req'[q].attr
  <2>1. CASE q = r /\ ReadAttribution(r)
    <3>1. req[r].id \in AnomalyIds
      BY <2>1 DEF ReadAttribution, IInv, Sound
    <3>2. req'[r].id = req[r].id /\ req'[r].attr = attributions[req[r].id]
      BY <2>1 DEF ReadAttribution, IInv, TypeOK, RequestState
    <3>3. UNCHANGED attributions
      BY <2>1 DEF ReadAttribution, tables
    <3> QED BY <2>1, <3>1, <3>2, <3>3
  <2>2. CASE ~ (q = r /\ ReadAttribution(r))
    <3>1. req'[q].attr = req[q].attr /\ req'[q].id = req[q].id
      <4>1. CASE q # r
        BY <1>2, <4>1, StepFields DEF Same
      <4>2. CASE q = r
        <5>1. Reread(r) \/ CountRows(r) => req'[r].attr = req[r].attr
          BY DEF Reread, CountRows, IInv, TypeOK, RequestState
        <5>2. Compute(r) => req'[r].attr = req[r].attr
          <6>1. SUFFICES ASSUME Compute(r) PROVE req'[r].attr = req[r].attr
            OBVIOUS
          <6>2. PICK g, dec :
                  req' = [req EXCEPT ![r].pc = "audit", ![r].graph = g, ![r].dec = dec]
            BY <6>1 DEF Compute
          <6> QED BY <6>2 DEF IInv, TypeOK, RequestState
        <5> QED BY <1>2, <2>2, <4>2, <5>1, <5>2, StepFields DEF Same, Load
      <4> QED BY <4>1, <4>2
    <3> QED BY <1>1, <1>2, <3>1 DEF AttributionsLast, IInv, TypeOK, RequestState
  <2> QED BY <2>1, <2>2
<1>3. ASSUME NEW r \in Requests, Begin(r), NEW q \in Requests, req'[q].attr # None
      PROVE  req'[q].id \in AnomalyIds /\ attributions'[req'[q].id] = req'[q].attr
  <2>1. UNCHANGED attributions /\ q # r /\ req'[q] = req[q]
    BY <1>3, BeginFields DEF tables, Taken
  <2> QED BY <1>3, <2>1 DEF AttributionsLast
<1>4. CASE UNCHANGED vars
  BY <1>4 DEF AttributionsLast, vars
<1> QED BY <1>2, <1>3, <1>4 DEF AttributionsLast, Next, Quiet

\* Rows stay, and leave the queue for good.
LEMMA RowsStay ==
  ASSUME IInv, [Next]_vars, NEW a \in AnomalyIds, Stored(a)
  PROVE  /\ Stored(a)'
         /\ anomalies'[a].decision = anomalies[a].decision
         /\ anomalies'[a].det = anomalies[a].det
         /\ anomalies[a].status # "new" => anomalies'[a].status # "new"
BY SMTT(60), NextEvolves DEF Evolves, Stored

\* The places of the handlers of a SOAR action.
LEMMA SoarPlaces ==
  ASSUME IInv, NEW r \in Requests, Step(r), req[r].op \in SoarOps
  PROVE  RecordSoar(r) \/ LogAction(r) \/ Crash(r)
<1>1. req[r].pc \in {"record", "audit"}
  <2>1. Sound(r) /\ req[r].pc \in Pcs
    BY DEF IInv, TypeOK, RequestState
  <2>2. req[r].op \notin {"correlate", "decide", "narrative"} \cup ReviewOps \cup ListOps
    BY DEF SoarOps, ReviewOps, ListOps
  <2>3. req[r].pc \notin {"idle", "done", "crashed"}
    BY StepFields
  <2> QED BY <2>1, <2>2, <2>3 DEF Sound, Pcs
<1> QED BY <1>1 DEF Step, InsertAnomaly, InsertAttribution, UpdateGraph, Enrich, UpdateStatus,
        Reread, ReadAttribution, Compute, SaveNarrative, CountRows, ReadFails

LEMMA ActionsKept ==
  ASSUME IInv, StraysStayStray, RecordsComeInTime, ActionsAreCounted, [Next]_vars
  PROVE  ActionsAreCounted'
<1> DEFINE Counted(q) == req[q].op \in SoarOps =>
              /\ req[q].id \in AnomalyIds
              /\ Stored(req[q].id) \/ req[q].id \in StrayIds
              /\ faults = 0 /\ req[q].pc \in {"audit", "done"} =>
                   (SoarOf(q) # {} <=> Stored(req[q].id))
              /\ faults = 0 /\ req[q].pc = "done" =>
                   (EntriesOf(q) # {} <=> Stored(req[q].id))
<1>1. StraysStayStray'
  BY StraysKept
<1>2. ASSUME NEW q \in Requests, req[q].op \in SoarOps
      PROVE  anomalies'[req[q].id] # None <=> Stored(req[q].id)
  <2>1. PICK a \in AnomalyIds : a = req[q].id /\ (Stored(a) \/ a \in StrayIds)
    BY <1>2 DEF ActionsAreCounted
  <2>2. CASE Stored(a)
    <3>1. Stored(a)'
      BY <2>2, RowsStay
    <3> QED BY <2>1, <2>2, <3>1 DEF Stored
  <2>3. CASE a \in StrayIds
    BY <1>1, <2>1, <2>3 DEF StraysStayStray, Stored
  <2> QED BY <2>1, <2>2, <2>3
<1>3. ASSUME NEW q \in Requests, req'[q] = req[q], SoarOf(q)' = SoarOf(q),
             EntriesOf(q)' = EntriesOf(q), faults' = 0 => faults = 0
      PROVE  Counted(q)'
  BY <1>2, <1>3 DEF ActionsAreCounted, Stored
<1>4. ASSUME NEW r \in Requests, Step(r), NEW q \in Requests
      PROVE  Counted(q)'
  <2>1. faults' = 0 => faults = 0
    BY <1>4, StepFields, FaultsGrow DEF IInv
  <2>2. CASE q # r
    BY <1>3, <1>4, <2>1, <2>2, StepFields, RecordsOf DEF Same
  <2>3. CASE q = r /\ req[r].op \notin SoarOps
    BY <1>4, <2>3, StepFields DEF Same
  <2>4. CASE q = r /\ req[r].op \in SoarOps
    <3>1. /\ req'[r].op = req[r].op /\ req'[r].id = req[r].id
          /\ req[r].id \in AnomalyIds
          /\ Stored(req[r].id) \/ req[r].id \in StrayIds
      BY <1>4, <2>4, StepFields DEF Same, ActionsAreCounted
    <3>2. anomalies'[req[r].id] # None <=> Stored(req[r].id)
      BY <1>2, <2>4
    <3>3. CASE RecordSoar(r)
      <4>1. SoarOf(r) = {}
        BY <3>3 DEF RecordSoar, RecordsComeInTime
      <4>2. faults' = 0 => (SoarOf(r)' # {} <=> Stored(req[r].id))
        <5>1. CASE soar' = soar /\ (faults' > 0 \/ ~Stored(req[r].id))
          BY <4>1, <5>1 DEF SoarOf
        <5>2. CASE /\ soar' = soar \cup {[by |-> r, id |-> req[r].id, action |-> req[r].op]}
                   /\ Stored(req[r].id)
          <6> DEFINE x == [by |-> r, id |-> req[r].id, action |-> req[r].op]
          <6>1. x.by = r
            OBVIOUS
          <6>2. x \in soar'
            BY <5>2
          <6> HIDE DEF x
          <6>3. x \in SoarOf(r)'
            BY <6>1, <6>2 DEF SoarOf
          <6> QED BY <5>2, <6>3
        <5> QED BY <3>3, <5>1, <5>2, RecordFields
      <4>3. req'[r].pc = "audit"
        BY <3>3, RecordFields
      <4> QED BY <2>4, <3>1, <3>2, <4>2, <4>3 DEF Stored
    <3>4. CASE LogAction(r)
      <4>1. req[r].pc = "audit" /\ req'[r].pc = "done"
        BY <2>4, <3>4, LogFields DEF SoarOps
      <4>2. SoarOf(r)' = SoarOf(r)
        BY <3>4, LogFields DEF SoarOf
      <4>3. EntriesOf(r) = {}
        BY <4>1 DEF RecordsComeInTime, BeforeAudit
      <4>4. faults' = 0 => (EntriesOf(r)' # {} <=> Stored(req[r].id))
        <5>1. AuditEntry(r).by = r
          BY DEF AuditEntry
        <5>2. CASE Stored(req[r].id)
          <6>1. faults' > 0 \/ AuditEntry(r) \in audit'
            BY <3>4, <5>2, LogFields
          <6> QED BY <5>1, <5>2, <6>1 DEF EntriesOf
        <5>3. CASE ~Stored(req[r].id)
          BY <3>4, <4>3, <5>3, LogFields DEF EntriesOf
        <5> QED BY <5>2, <5>3
      <4> QED BY <2>1, <2>4, <3>1, <3>2, <4>1, <4>2, <4>4 DEF Stored, ActionsAreCounted
    <3>5. CASE Crash(r)
      <4>1. faults' > 0
        BY <3>5, FaultsGrow DEF Crash, IInv
      <4> QED BY <2>4, <3>1, <3>2, <4>1 DEF Stored
    <3> QED BY <1>4, <2>4, <3>3, <3>4, <3>5, SoarPlaces
  <2> QED BY <2>2, <2>3, <2>4
<1>5. ASSUME NEW r \in Requests, Begin(r), NEW q \in Requests
      PROVE  Counted(q)'
  <2>1. /\ faults' = 0 => faults = 0
        /\ SoarOf(q)' = SoarOf(q) /\ EntriesOf(q)' = EntriesOf(q)
    BY <1>5, BeginFields, FaultsGrow DEF IInv, SoarOf, EntriesOf, tables
  <2>2. CASE q # r
    BY <1>3, <1>5, <2>1, <2>2, BeginFields
  <2>3. CASE q = r
    <3>1. req'[r].op \in SoarOps => req'[r].pc = "record" /\ req'[r].id \in Targets
      BY <1>5, BeginFields DEF Taken
    <3>2. \A a \in Targets : a \in AnomalyIds /\ (Stored(a)' \/ a \in StrayIds)
      BY <1>5, BeginFields, ResponseAssumption DEF Targets, Stored, tables
    <3> QED BY <2>3, <3>1, <3>2 DEF Stored
  <2> QED BY <2>2, <2>3
<1>6. CASE UNCHANGED vars
  BY <1>6 DEF ActionsAreCounted, SoarOf, EntriesOf, Stored, vars
<1>7. CASE \E r \in Requests : Begin(r) \/ Step(r)
  <2>1. \A q \in Requests : Counted(q)'
    BY <1>4, <1>5, <1>7
  <2> QED BY <2>1 DEF ActionsAreCounted
<1> QED BY <1>6, <1>7 DEF Next, Quiet

\* The two updates of the table anomalies.
LEMMA UpdateFields ==
  ASSUME IInv, NEW r \in Requests, UpdateStatus(r), NEW a, a = req[r].id
  PROVE  /\ Same(r) /\ UNCHANGED Load(r)
         /\ req[r].pc = "update_status" /\ req[r].op \in ReviewOps
         /\ a \in AnomalyIds /\ Stored(a)
         /\ \A b \in AnomalyIds \ {a} : anomalies'[b] = anomalies[b]
         /\ anomalies'[a].narrative = anomalies[a].narrative
         /\ \/ req'[r].pc = "reread" /\ req'[r].code = req[r].code
               /\ anomalies'[a].status = Verdict(req[r].op)
            \/ /\ req'[r].pc = "done" /\ req'[r].code = 500 /\ faults' > 0
               /\ anomalies'[a].status \in {anomalies[a].status, Verdict(req[r].op)}
<1>1. TypeOK /\ req[r].pc = "update_status"
  BY DEF IInv, UpdateStatus
<1>2. req[r].op \in ReviewOps /\ a \in AnomalyIds /\ Stored(a)
  BY <1>1 DEF IInv, Sound
<1>3. PICK o \in WriteOutcomes :
           /\ CallCosts(o)
           /\ anomalies' = IF Applied(o)
                            THEN [anomalies EXCEPT ![a].status = Verdict(req[r].op)]
                            ELSE anomalies
           /\ After(r, o, "reread")
  BY DEF UpdateStatus
<1>4. anomalies[a] \in AnomalyRow
  BY <1>1, <1>2 DEF TypeOK, Stored
<1>5. /\ \A b \in AnomalyIds \ {a} : anomalies'[b] = anomalies[b]
      /\ anomalies'[a].narrative = anomalies[a].narrative
      /\ anomalies'[a].status \in {anomalies[a].status, Verdict(req[r].op)}
      /\ o = "ok" => anomalies'[a].status = Verdict(req[r].op)
  BY <1>1, <1>2, <1>3, <1>4 DEF TypeOK, AnomalyRow, Applied
<1> QED BY <1>1, <1>2, <1>3, <1>5, AfterFields, FaultsGrow

LEMMA SaveFields ==
  ASSUME IInv, NEW r \in Requests, SaveNarrative(r), NEW a, a = req[r].id
  PROVE  /\ Same(r) /\ UNCHANGED Load(r)
         /\ req[r].pc = "save_narrative" /\ req'[r].pc = "done" /\ req[r].op = "narrative"
         /\ a \in AnomalyIds /\ Stored(a)
         /\ \A b \in AnomalyIds \ {a} : anomalies'[b] = anomalies[b]
         /\ anomalies'[a].status = anomalies[a].status
         /\ anomalies'[a].narrative \in {anomalies[a].narrative, NarrativeOf(req[r].attr)}
         /\ UNCHANGED attributions /\ UNCHANGED audit
<1>1. /\ TypeOK /\ req[r].pc = "save_narrative" /\ Answer(r, 200)
      /\ UNCHANGED attributions /\ UNCHANGED audit
  BY DEF IInv, SaveNarrative
<1>2. req[r].op = "narrative" /\ a \in AnomalyIds /\ Stored(a)
  BY <1>1 DEF IInv, Sound
<1>3. \/ UNCHANGED anomalies
      \/ anomalies' = [anomalies EXCEPT ![a].narrative = NarrativeOf(req[r].attr)]
  BY DEF SaveNarrative
<1>4. anomalies[a] \in AnomalyRow
  BY <1>1, <1>2 DEF TypeOK, Stored
<1>5. /\ \A b \in AnomalyIds \ {a} : anomalies'[b] = anomalies[b]
      /\ anomalies'[a].status = anomalies[a].status
      /\ anomalies'[a].narrative \in {anomalies[a].narrative, NarrativeOf(req[r].attr)}
  BY <1>1, <1>2, <1>3, <1>4 DEF TypeOK, AnomalyRow
<1> QED BY <1>1, <1>2, <1>5, AnswerFields

\* An insert makes a row where there was none, and leaves the others.
LEMMA InsertFields ==
  ASSUME IInv, NEW r \in Requests, InsertAnomaly(r), NEW a \in AnomalyIds
  PROVE  \/ anomalies'[a] = anomalies[a]
         \/ /\ a = req[r].id /\ ~Stored(a) /\ attributions[a] = None
            /\ anomalies'[a] = [det |-> req[r].det, status |-> "new", decision |-> req[r].dec,
                                narrative |-> "none"]
            /\ anomalies'[a].status = "new" /\ anomalies'[a].narrative = "none"
            /\ anomalies'[a].det = req[r].det /\ anomalies'[a].decision = req[r].dec
<1>1. req[r].pc = "insert_anomaly"
  BY DEF InsertAnomaly
<1>2. ~Stored(req[r].id) /\ attributions[req[r].id] = None /\ req[r].id \in AnomalyIds
  BY <1>1 DEF IInv, Sound
<1>3. \/ UNCHANGED anomalies
      \/ anomalies' = [anomalies EXCEPT ![req[r].id] =
                        [det |-> req[r].det, status |-> "new", decision |-> req[r].dec,
                         narrative |-> "none"]]
  BY DEF InsertAnomaly
<1> QED BY <1>2, <1>3 DEF IInv, TypeOK

\* Which step brings a request to a place of its own.
LEMMA Arrivals ==
  ASSUME IInv, NEW r \in Requests, Step(r)
  PROVE  /\ req'[r].pc = "save_narrative" => LogAction(r)
         /\ req'[r].pc = "reread" => UpdateStatus(r)
         /\ req'[r].pc = "insert_attribution" => InsertAnomaly(r)
<1>1. TypeOK
  BY DEF IInv
<1>2. Reread(r) => req'[r].pc = "audit"
  BY <1>1 DEF Reread, TypeOK, RequestState
<1>3. ReadAttribution(r) => req'[r].pc \in {"compute", "audit"}
  BY <1>1 DEF ReadAttribution, TypeOK, RequestState
<1>4. CountRows(r) => req'[r].pc = "done"
  BY <1>1 DEF CountRows, TypeOK, RequestState
<1>5. Compute(r) => req'[r].pc = "audit"
  <2>1. SUFFICES ASSUME Compute(r)  PROVE req'[r].pc = "audit"
    OBVIOUS
  <2>2. PICK g, dec : req' = [req EXCEPT ![r].pc = "audit", ![r].graph = g, ![r].dec = dec]
    BY <2>1 DEF Compute
  <2> QED BY <1>1, <2>2 DEF TypeOK, RequestState
<1>6. InsertAnomaly(r) => req'[r].pc \in {"insert_attribution", "done"}
  BY <1>1, AfterFields DEF InsertAnomaly
<1>7. InsertAttribution(r) => req'[r].pc \in {"update_graph", "done"}
  BY <1>1, AfterFields DEF InsertAttribution
<1>8. UpdateStatus(r) => req'[r].pc \in {"reread", "done"}
  BY <1>1, AfterFields DEF UpdateStatus
<1>9. UpdateGraph(r) \/ RecordSoar(r) \/ Crash(r) => req'[r].pc \in {"enrich", "audit", "crashed"}
  BY <1>1, GotoFields DEF UpdateGraph, RecordSoar, Crash
<1>10. Enrich(r) \/ SaveNarrative(r) \/ ReadFails(r) => req'[r].pc = "done"
  BY <1>1, AnswerFields DEF Enrich, SaveNarrative, ReadFails
<1>11. LogAction(r) => req'[r].pc \in {"save_narrative", "done"}
  BY LogFields
<1> QED BY <1>2, <1>3, <1>4, <1>5, <1>6, <1>7, <1>8, <1>9, <1>10, <1>11 DEF Step

LEMMA NarrativesKept ==
  ASSUME IInv, AttributionsLast, NarrativesAreAnnounced, NarrativeIsTraced, [Next]_vars
  PROVE  NarrativesAreAnnounced' /\ NarrativeIsTraced'
<1> DEFINE Told(a) == \E e \in audit : e.id = a /\ e.action = "narrative_generated"
           Names(a) == \/ anomalies[a].narrative = "T0000"
                       \/ attributions[a] # None /\ anomalies[a].narrative = attributions[a].technique
<1>1. ASSUME NEW a, Told(a), audit \subseteq audit'  PROVE Told(a)'
  BY <1>1
<1>2. ASSUME NEW r \in Requests, Step(r)  PROVE audit \subseteq audit'
  BY <1>2, Writers, LogFields
<1>3. ASSUME NEW r \in Requests, Step(r), NEW q \in Requests, req'[q].pc = "save_narrative"
      PROVE  faults' > 0 \/ Told(req[q].id)'
  <2>1. PICK a : a = req[q].id
    OBVIOUS
  <2>2. CASE q # r
    <3>1. req'[q] = req[q] /\ (faults > 0 => faults' > 0)
      BY <1>3, <2>2, StepFields, FaultsGrow DEF Same, IInv
    <3>2. faults > 0 \/ Told(a)
      BY <1>3, <2>1, <3>1 DEF NarrativesAreAnnounced
    <3>3. faults' > 0 \/ Told(a)'
      BY <1>1, <1>2, <1>3, <3>1, <3>2
    <3> QED BY <2>1, <3>1, <3>3
  <2>3. CASE q = r
    <3>1. LogAction(r) /\ req[r].op = "narrative"
      <4>1. LogAction(r)
        BY <1>3, <2>3, Arrivals
      <4> QED BY <1>3, <2>3, <4>1, LogFields
    <3>2. Stored(req[r].id) /\ req'[r].id = req[r].id
      <4>1. req[r].pc = "audit" /\ req'[r].id = req[r].id
        BY <3>1, LogFields DEF Same
      <4> QED BY <3>1, <4>1 DEF IInv, Sound
    <3>3. AuditEntry(r).id = req[r].id /\ AuditEntry(r).action = "narrative_generated"
      BY <3>1 DEF AuditEntry, ActionType
    <3>4. faults' > 0 \/ AuditEntry(r) \in audit'
      BY <3>1, <3>2, LogFields
    <3> QED BY <2>3, <3>2, <3>3, <3>4
  <2> QED BY <2>2, <2>3
<1>4. ASSUME NEW r \in Requests, Step(r), NEW a \in AnomalyIds, Stored(a)',
             anomalies'[a].narrative # "none"
      PROVE  (faults' > 0 \/ Told(a)') /\ Names(a)'
  <2>1. attributions[a] # None => attributions'[a] = attributions[a]
    <3>1. CASE InsertAttribution(r)
      <4>1. req[r].id # a \/ attributions[a] = None
        BY <3>1 DEF InsertAttribution, IInv, Sound
      <4> QED BY <3>1, <4>1 DEF InsertAttribution, IInv, TypeOK
    <3> QED BY <1>4, <3>1, Writers
  <2>2. faults > 0 => faults' > 0
    BY <1>4, StepFields, FaultsGrow DEF IInv
  <2>3. ASSUME Stored(a), anomalies'[a].narrative = anomalies[a].narrative
        PROVE  (faults' > 0 \/ Told(a)') /\ Names(a)'
    <3>1. (faults > 0 \/ Told(a)) /\ Names(a)
      BY <1>4, <2>3 DEF NarrativeIsTraced
    <3> QED BY <1>1, <1>2, <1>4, <2>1, <2>2, <2>3, <3>1
  <2>4. CASE UNCHANGED anomalies[a]
    BY <1>4, <2>3, <2>4 DEF Stored
  <2>5. CASE InsertAnomaly(r) /\ anomalies'[a] # anomalies[a]
    BY <1>4, <2>5, InsertFields
  <2>6. CASE UpdateStatus(r)
    <3>1. anomalies'[a] = anomalies[a] \/ Stored(a)
      BY <2>6, UpdateFields
    <3>2. anomalies'[a].narrative = anomalies[a].narrative
      BY <2>6, UpdateFields
    <3> QED BY <2>3, <2>4, <3>1, <3>2
  <2>7. CASE SaveNarrative(r)
    <3>1. anomalies'[a] = anomalies[a] \/ (Stored(a) /\ a = req[r].id)
      BY <2>7, SaveFields
    <3>2. CASE Stored(a) /\ a = req[r].id /\ anomalies'[a].narrative = NarrativeOf(req[r].attr)
      <4>1. faults > 0 \/ Told(a)
        BY <2>7, <3>2 DEF NarrativesAreAnnounced, SaveNarrative
      <4>2. req[r].attr # None => attributions[a] = req[r].attr
        BY <3>2 DEF AttributionsLast
      <4>3. UNCHANGED attributions
        BY <2>7, SaveFields
      <4>4. Names(a)'
        BY <3>2, <4>2, <4>3 DEF NarrativeOf
      <4> QED BY <1>1, <1>2, <1>4, <2>2, <4>1, <4>4
    <3>3. CASE Stored(a) /\ anomalies'[a].narrative = anomalies[a].narrative
      BY <2>3, <3>3
    <3> QED BY <2>4, <2>7, <3>1, <3>2, <3>3, SaveFields
  <2> QED BY <1>4, <2>4, <2>5, <2>6, <2>7, Writers
<1>5. CASE \E r \in Requests : Step(r)
  BY <1>3, <1>4, <1>5 DEF NarrativesAreAnnounced, NarrativeIsTraced
<1>6. ASSUME NEW r \in Requests, Begin(r)  PROVE NarrativesAreAnnounced' /\ NarrativeIsTraced'
  <2>1. UNCHANGED tables /\ (faults > 0 => faults' > 0)
    BY <1>6, BeginFields, FaultsGrow DEF IInv
  <2>2. \A q \in Requests : req'[q].pc = "save_narrative" => req'[q] = req[q]
    BY <1>6, BeginFields DEF Taken
  <2>3. NarrativesAreAnnounced'
    BY <2>1, <2>2 DEF NarrativesAreAnnounced, tables
  <2>4. NarrativeIsTraced'
    BY <2>1 DEF NarrativeIsTraced, tables, Stored
  <2> QED BY <2>3, <2>4
<1>7. CASE UNCHANGED vars
  BY <1>7 DEF NarrativesAreAnnounced, NarrativeIsTraced, vars, Stored
<1> QED BY <1>5, <1>6, <1>7 DEF Next, Quiet

LEMMA IdleKept ==
  ASSUME IInv, IdleServesNothing, [Next]_vars
  PROVE  IdleServesNothing'
<1>1. ASSUME NEW r \in Requests, Step(r)  PROVE IdleServesNothing'
  <2>1. req'[r].pc # "idle"
    BY <1>1, NextPlace
  <2> QED BY <1>1, <2>1, StepFields DEF IdleServesNothing, Same
<1>2. ASSUME NEW r \in Requests, Begin(r)  PROVE IdleServesNothing'
  BY <1>2, BeginFields DEF IdleServesNothing, Taken
<1>3. CASE UNCHANGED vars
  BY <1>3 DEF IdleServesNothing, vars
<1> QED BY <1>1, <1>2, <1>3 DEF Next, Quiet

\* The steps of a review.
LEMMA ReviewSteps ==
  ASSUME IInv, NEW r \in Requests, Step(r), req[r].op \in ReviewOps
  PROVE  \/ UpdateStatus(r)
         \/ /\ Reread(r)
            /\ req[r].pc = "reread" /\ req'[r].pc = "audit" /\ req'[r].code = req[r].code
         \/ /\ LogAction(r)
            /\ req[r].pc = "audit" /\ req'[r].pc = "done" /\ req'[r].code = 200
            /\ req[r].id \in AnomalyIds /\ Stored(req[r].id)
            /\ faults' > 0 \/ AuditEntry(r) \in audit'
         \/ /\ faults' > 0 /\ UNCHANGED tables
            /\ \/ req'[r].pc = "done" /\ req'[r].code = 500
               \/ req'[r].pc = "crashed" /\ req'[r].code = req[r].code
<1>1. TypeOK /\ Sound(r)
  BY DEF IInv
<1>2. req[r].op \notin {"correlate", "decide", "narrative"} \cup SoarOps \cup ListOps
  BY DEF SoarOps, ReviewOps, ListOps
<1>3. req[r].pc \in {"update_status", "reread", "audit"}
  <2>1. req[r].pc \notin {"idle", "done", "crashed"} /\ req[r].pc \in Pcs
    BY <1>1, StepFields DEF TypeOK, RequestState
  <2> QED BY <1>1, <1>2, <2>1 DEF Sound, Pcs
<1>4. UpdateStatus(r) \/ Reread(r) \/ LogAction(r) \/ ReadFails(r) \/ Crash(r)
  BY <1>3 DEF Step, InsertAnomaly, InsertAttribution, UpdateGraph, Enrich,
        ReadAttribution, Compute, SaveNarrative, CountRows, RecordSoar
<1>5. CASE Reread(r)
  BY <1>1, <1>5 DEF Reread, TypeOK, RequestState
<1>6. CASE LogAction(r)
  <2>1. req[r].pc = "audit"
    BY <1>6 DEF LogAction
  <2>2. req[r].id \in AnomalyIds /\ Stored(req[r].id)
    BY <1>1, <2>1 DEF Sound
  <2> QED BY <1>2, <1>6, <2>1, <2>2, LogFields
<1>7. CASE ReadFails(r)
  BY <1>1, <1>7, AnswerFields, FaultsGrow DEF ReadFails
<1>8. CASE Crash(r)
  BY <1>1, <1>8, GotoFields, FaultsGrow DEF Crash
<1> QED BY <1>4, <1>5, <1>6, <1>7, <1>8

\* A row out of the queue was out of it before the step, with the same status, or a review
\* takes it out now.
LEMMA StatusMoves ==
  ASSUME IInv, NEW r \in Requests, Step(r), NEW a \in AnomalyIds, Stored(a)',
         anomalies'[a].status # "new"
  PROVE  \/ Stored(a) /\ anomalies'[a].status = anomalies[a].status
         \/ UpdateStatus(r) /\ a = req[r].id /\ anomalies'[a].status = Verdict(req[r].op)
<1>1. CASE UNCHANGED anomalies[a]
  BY <1>1 DEF Stored
<1>2. CASE InsertAnomaly(r) /\ anomalies'[a] # anomalies[a]
  BY <1>2, InsertFields
<1>3. CASE UpdateStatus(r)
  <2>1. CASE a = req[r].id
    <3>1. /\ Stored(a)
          /\ anomalies'[a].status \in {anomalies[a].status, Verdict(req[r].op)}
      BY <1>3, <2>1, UpdateFields
    <3> QED BY <1>3, <2>1, <3>1
  <2>2. CASE a # req[r].id
    BY <1>1, <1>3, <2>2, UpdateFields
  <2> QED BY <2>1, <2>2
<1>4. CASE SaveNarrative(r)
  <2>1. CASE a = req[r].id
    BY <1>4, <2>1, SaveFields
  <2>2. CASE a # req[r].id
    BY <1>1, <1>4, <2>2, SaveFields
  <2> QED BY <2>1, <2>2
<1> QED BY <1>1, <1>2, <1>3, <1>4, Writers

LEMMA StatusKept ==
  ASSUME IInv, IdleServesNothing, StatusIsAccounted, [Next]_vars
  PROVE  StatusIsAccounted'
<1> DEFINE Backs(q, a) == /\ req[q].op \in ReviewOps /\ req[q].id = a
                          /\ Verdict(req[q].op) = anomalies[a].status
                          /\ BeforeAudit(q) \/ EntriesOf(q) # {} \/ faults > 0
<1>1. StatusIsAccounted <=> \A a \in AnomalyIds : Stored(a) /\ anomalies[a].status # "new" =>
                              \E q \in Requests : Backs(q, a)
  BY DEF StatusIsAccounted, Reviews
<1>2. StatusIsAccounted' <=> \A a \in AnomalyIds :
                               Stored(a)' /\ anomalies'[a].status # "new" =>
                                 \E q \in Requests : Backs(q, a)'
  BY DEF StatusIsAccounted, Reviews
<1>3. ASSUME NEW r \in Requests, Step(r), NEW a \in AnomalyIds, Stored(a)',
             anomalies'[a].status # "new"
      PROVE  \E q \in Requests : Backs(q, a)'
  <2>1. Same(r) /\ (faults > 0 => faults' > 0)
    BY <1>3, StepFields, FaultsGrow DEF IInv
  <2>2. CASE Stored(a) /\ anomalies'[a].status = anomalies[a].status
    <3>1. PICK q \in Requests : Backs(q, a)
      BY <1>1, <1>3, <2>2
    <3>2. EntriesOf(q) \subseteq EntriesOf(q)'
      BY <1>3, Writers, LogFields DEF EntriesOf
    <3>3. req'[q].op = req[q].op /\ req'[q].id = req[q].id
      BY <2>1 DEF Same
    <3>4. BeforeAudit(q)' \/ EntriesOf(q)' # {} \/ faults' > 0
      <4>1. CASE q # r
        <5>1. req'[q] = req[q]
          BY <2>1, <4>1 DEF Same
        <5> QED BY <2>1, <3>1, <3>2, <5>1 DEF BeforeAudit
      <4>2. CASE q = r
        <5>1. CASE UpdateStatus(r)
          <6>1. req'[r].pc = "reread" \/ faults' > 0
            BY <5>1, UpdateFields
          <6> QED BY <4>2, <6>1 DEF BeforeAudit
        <5>2. CASE req'[r].pc = "audit"
          BY <4>2, <5>2 DEF BeforeAudit
        <5>3. CASE AuditEntry(r) \in audit'
          <6>1. AuditEntry(r).by = r
            BY DEF AuditEntry
          <6> QED BY <4>2, <5>3, <6>1 DEF EntriesOf
        <5> QED BY <1>3, <3>1, <4>2, <5>1, <5>2, <5>3, ReviewSteps
      <4> QED BY <4>1, <4>2
    <3> QED BY <2>2, <3>1, <3>3, <3>4
  <2>3. CASE UpdateStatus(r) /\ a = req[r].id /\ anomalies'[a].status = Verdict(req[r].op)
    <3>1. req[r].op \in ReviewOps /\ (req'[r].pc = "reread" \/ faults' > 0)
      BY <2>3, UpdateFields
    <3>2. req'[r].op = req[r].op /\ req'[r].id = a
      BY <2>1, <2>3 DEF Same
    <3> QED BY <2>3, <3>1, <3>2 DEF BeforeAudit
  <2> QED BY <1>3, <2>2, <2>3, StatusMoves
<1>4. ASSUME NEW r \in Requests, Begin(r), NEW a \in AnomalyIds, Stored(a)',
             anomalies'[a].status # "new"
      PROVE  \E q \in Requests : Backs(q, a)'
  <2>1. UNCHANGED tables /\ (faults > 0 => faults' > 0)
    BY <1>4, BeginFields, FaultsGrow DEF IInv
  <2>2. PICK q \in Requests : Backs(q, a)
    BY <1>1, <1>4, <2>1 DEF tables, Stored
  <2>3. q # r
    BY <1>4, <2>2, BeginFields DEF IdleServesNothing, ReviewOps
  <2>4. req'[q] = req[q]
    BY <1>4, <2>3, BeginFields
  <2> QED BY <2>1, <2>2, <2>4 DEF tables, BeforeAudit, EntriesOf
<1>5. CASE UNCHANGED vars
  BY <1>5 DEF StatusIsAccounted, Reviews, Stored, BeforeAudit, EntriesOf, vars
<1>6. CASE \E r \in Requests : Begin(r) \/ Step(r)
  <2>1. \A a \in AnomalyIds : Stored(a)' /\ anomalies'[a].status # "new" =>
                               \E q \in Requests : Backs(q, a)'
    BY <1>3, <1>4, <1>6
  <2> HIDE DEF Backs
  <2> QED BY <1>2, <2>1
<1> QED BY <1>5, <1>6 DEF Next, Quiet

LEMMA VerdictsMove ==
  ASSUME NEW op \in ReviewOps
  PROVE  Verdict(op) # "new"
BY DEF Verdict

LEMMA DecidingKept ==
  ASSUME IInv, ReviewsDecide, [Next]_vars
  PROVE  ReviewsDecide'
<1> DEFINE Out(q) == /\ req[q].id \in AnomalyIds
                     /\ Stored(req[q].id) /\ anomalies[req[q].id].status # "new"
           Decides(q) == req[q].op \in ReviewOps =>
             /\ req[q].pc \in {"reread", "audit"} \/ req[q].code = 200 => Out(q)
             /\ req[q].pc = "update_status" /\ anomalies[req[q].id].status = "new" =>
                  req[q].prev = "new"
<1>1. ReviewsDecide <=> \A q \in Requests : Decides(q)
  BY DEF ReviewsDecide
<1>2. ReviewsDecide' <=> \A q \in Requests : Decides(q)'
  BY DEF ReviewsDecide
<1>3. ASSUME NEW q \in Requests, Out(q), req'[q].id = req[q].id
      PROVE  Out(q)'
  <2>1. PICK a \in AnomalyIds : a = req[q].id
    BY <1>3
  <2>2. Stored(a)' /\ anomalies'[a].status # "new"
    BY <1>3, <2>1, RowsStay
  <2> QED BY <1>3, <2>1, <2>2 DEF Stored
<1>4. ASSUME NEW q \in Requests, Decides(q), req'[q] = req[q]
      PROVE  Decides(q)'
  <2>1. ASSUME req[q].op \in ReviewOps, req[q].pc = "update_status",
               anomalies'[req[q].id].status = "new"
        PROVE  req[q].prev = "new"
    <3>1. PICK a \in AnomalyIds : a = req[q].id /\ Stored(a)
      BY <2>1 DEF IInv, Sound
    <3>2. anomalies[a].status = "new"
      BY <2>1, <3>1, RowsStay
    <3> QED BY <1>4, <2>1, <3>1, <3>2
  <2>2. Out(q) => Out(q)'
    BY <1>3, <1>4
  <2> QED BY <1>4, <2>1, <2>2
<1>5. ASSUME NEW r \in Requests, Step(r), NEW q \in Requests, Decides(q)
      PROVE  Decides(q)'
  <2>1. Same(r)
    BY <1>5, StepFields
  <2>2. CASE q # r
    BY <1>4, <1>5, <2>1, <2>2 DEF Same
  <2>3. CASE q = r /\ req[r].op \notin ReviewOps
    BY <2>1, <2>3 DEF Same
  <2>4. CASE q = r /\ req[r].op \in ReviewOps
    <3>1. CASE UpdateStatus(r)
      <4>1. CASE req'[r].pc = "done" /\ req'[r].code = 500
        BY <2>4, <4>1
      <4>2. CASE req'[r].pc = "reread" /\ anomalies'[req[r].id].status = Verdict(req[r].op)
        <5>1. PICK a \in AnomalyIds : a = req[r].id /\ Stored(a)
          BY <3>1, UpdateFields
        <5>2. Stored(a)' /\ anomalies'[a].status # "new"
          BY <2>4, <4>2, <5>1, RowsStay, VerdictsMove
        <5>3. Out(r)'
          BY <2>1, <5>1, <5>2 DEF Same, Stored
        <5> QED BY <2>4, <4>2, <5>3
      <4> QED BY <3>1, <4>1, <4>2, UpdateFields
    <3>2. CASE Reread(r) \/ LogAction(r)
      <4>1. req[r].pc \in {"reread", "audit"} /\ req'[r].pc # "update_status"
        BY <1>5, <2>4, <3>2, NextPlace DEF Reread, LogAction
      <4>2. Out(r)'
        BY <1>3, <1>5, <2>1, <2>4, <4>1 DEF Same
      <4> QED BY <2>4, <4>1, <4>2
    <3>3. CASE req'[r].pc = "done" /\ req'[r].code = 500
      BY <2>4, <3>3
    <3>4. CASE req'[r].pc = "crashed" /\ req'[r].code = req[r].code
      BY <1>3, <1>5, <2>1, <2>4, <3>4 DEF Same
    <3> QED BY <1>5, <2>4, <3>1, <3>2, <3>3, <3>4, ReviewSteps
  <2> QED BY <2>2, <2>3, <2>4
<1>6. ASSUME NEW r \in Requests, Begin(r), NEW q \in Requests, Decides(q)
      PROVE  Decides(q)'
  <2>1. CASE q # r
    BY <1>4, <1>6, <2>1, BeginFields
  <2>2. CASE q = r
    <3>1. UNCHANGED anomalies /\ Taken(req'[r])
      BY <1>6, BeginFields DEF tables
    <3>2. req'[r].op \in ReviewOps =>
            \/ /\ req'[r].pc = "update_status"
               /\ req'[r].prev = anomalies[req'[r].id].status
            \/ req'[r].pc = "done" /\ req'[r].code # 200
      BY <3>1 DEF Taken
    <3>3. req'[r].pc # "done" => req'[r].code = 0
      BY <3>1 DEF Taken
    <3> QED BY <2>2, <3>1, <3>2, <3>3
  <2> QED BY <2>1, <2>2
<1>7. CASE UNCHANGED vars
  BY <1>7 DEF ReviewsDecide, Stored, vars
<1>8. CASE \E r \in Requests : Begin(r) \/ Step(r)
  <2> HIDE DEF Decides
  <2> QED BY <1>1, <1>2, <1>5, <1>6, <1>8
<1> QED BY <1>7, <1>8 DEF Next, Quiet

LEMMA FirstReviewKept ==
  ASSUME IInv, IdleServesNothing, ReviewsDecide, FirstReviewIsTold, [Next]_vars
  PROVE  FirstReviewIsTold'
<1> DEFINE Tells(q, a) == /\ req[q].op \in ReviewOps /\ req[q].id = a
                          /\ req[q].prev = "new" /\ req[q].pc \in {"reread", "audit"}
           Told(a) == \E e \in audit : e.id = a /\ e.prev = "new"
<1>1. FirstReviewIsTold <=>
        (faults = 0 => \A a \in AnomalyIds : Stored(a) /\ anomalies[a].status # "new" =>
                         Told(a) \/ \E q \in Requests : Tells(q, a))
  BY DEF FirstReviewIsTold, Reviews
<1>2. FirstReviewIsTold' <=>
        (faults' = 0 => \A a \in AnomalyIds : Stored(a)' /\ anomalies'[a].status # "new" =>
                         Told(a)' \/ \E q \in Requests : Tells(q, a)')
  BY DEF FirstReviewIsTold, Reviews
<1>3. ASSUME NEW r \in Requests, Step(r), faults' = 0, NEW a \in AnomalyIds, Stored(a)',
             anomalies'[a].status # "new"
      PROVE  Told(a)' \/ \E q \in Requests : Tells(q, a)'
  <2>1. Same(r) /\ faults = 0
    BY <1>3, StepFields, FaultsGrow DEF IInv
  <2>2. Told(a) => Told(a)'
    BY <1>3, Writers, LogFields
  <2>3. ASSUME NEW q \in Requests, Tells(q, a)
        PROVE  Told(a)' \/ Tells(q, a)'
    <3>1. CASE q # r
      BY <2>1, <2>3, <3>1 DEF Same
    <3>2. CASE q = r /\ LogAction(r)
      <4>1. req[r].pc = "audit" /\ ~UpdateStatus(r)
        BY <3>2 DEF UpdateStatus, LogAction
      <4>2. AuditEntry(r) \in audit'
        BY <1>3, <2>3, <3>2, <4>1, ReviewSteps
      <4>3. AuditEntry(r).id = a /\ AuditEntry(r).prev = "new"
        BY <2>3, <3>2 DEF AuditEntry
      <4> QED BY <4>2, <4>3
    <3>3. CASE q = r /\ ~LogAction(r)
      <4> ~UpdateStatus(r)
        BY <2>3, <3>3 DEF UpdateStatus
      <4>1. req'[r].pc = "audit"
        BY <1>3, <2>3, <3>3, ReviewSteps
      <4>2. req'[r].prev = req[r].prev /\ req'[r].op = req[r].op /\ req'[r].id = req[r].id
        BY <2>1 DEF Same
      <4> QED BY <2>3, <3>3, <4>1, <4>2
    <3> QED BY <3>1, <3>2, <3>3
  <2>4. CASE Stored(a) /\ anomalies[a].status # "new"
    BY <1>1, <2>1, <2>2, <2>3, <2>4
  <2>5. CASE /\ UpdateStatus(r) /\ a = req[r].id /\ anomalies[a].status = "new"
    <3>1. req[r].op \in ReviewOps /\ req[r].pc = "update_status" /\ req'[r].pc = "reread"
      BY <1>3, <2>5, UpdateFields
    <3>2. req[r].prev = "new"
      BY <2>5, <3>1 DEF ReviewsDecide
    <3> QED BY <2>1, <2>5, <3>1, <3>2 DEF Same
  <2>6. UpdateStatus(r) /\ a = req[r].id => Stored(a)
    BY UpdateFields
  <2> QED BY <1>3, <2>4, <2>5, <2>6, StatusMoves
<1>4. ASSUME NEW r \in Requests, Begin(r), faults' = 0, NEW a \in AnomalyIds, Stored(a)',
             anomalies'[a].status # "new"
      PROVE  Told(a)' \/ \E q \in Requests : Tells(q, a)'
  <2>1. UNCHANGED tables /\ faults = 0
    BY <1>4, BeginFields, FaultsGrow DEF IInv
  <2>2. Told(a) \/ \E q \in Requests : Tells(q, a)
    BY <1>1, <1>4, <2>1 DEF tables, Stored
  <2>3. ASSUME NEW q \in Requests, Tells(q, a)  PROVE Tells(q, a)'
    <3>1. q # r
      BY <1>4, <2>3, BeginFields
    <3> QED BY <1>4, <2>3, <3>1, BeginFields
  <2> QED BY <2>1, <2>2, <2>3 DEF tables
<1>5. CASE UNCHANGED vars
  BY <1>5 DEF FirstReviewIsTold, Reviews, Stored, vars
<1>6. CASE \E r \in Requests : Begin(r) \/ Step(r)
  <2> HIDE DEF Tells, Told
  <2> QED BY <1>2, <1>3, <1>4, <1>6
<1> QED BY <1>5, <1>6 DEF Next, Quiet

LEMMA TrailRowsKept ==
  ASSUME IInv, ReviewsDecide, ReviewedRowsInTrail, [Next]_vars
  PROVE  ReviewedRowsInTrail'
<1>1. ASSUME NEW e \in audit, e.action \in {"human_approved", "human_rejected"}
      PROVE  Stored(e.id)' /\ anomalies'[e.id].status # "new"
  <2>1. PICK a \in AnomalyIds : a = e.id
    BY DEF IInv, TypeOK, AuditRow
  <2>2. Stored(a) /\ anomalies[a].status # "new"
    BY <1>1, <2>1 DEF ReviewedRowsInTrail
  <2> QED BY <2>1, <2>2, RowsStay DEF Stored
<1>2. ASSUME NEW r \in Requests, LogAction(r), NEW e, e = AuditEntry(r),
             e.action \in {"human_approved", "human_rejected"}
      PROVE  Stored(e.id)' /\ anomalies'[e.id].status # "new"
  <2>1. req[r].op \in ReviewOps
    <3>1. req[r].op \in {"decide", "narrative"} \cup ReviewOps \cup SoarOps
      BY <1>2 DEF LogAction, IInv, Sound
    <3> QED BY <1>2, <3>1 DEF AuditEntry, ActionType, SoarOps, ReviewOps
  <2>2. Stored(req[r].id) /\ anomalies[req[r].id].status # "new" /\ UNCHANGED anomalies
    BY <1>2, <2>1 DEF ReviewsDecide, LogAction
  <2>3. e.id = req[r].id
    BY <1>2 DEF AuditEntry
  <2> QED BY <2>2, <2>3 DEF Stored
<1>3. ASSUME NEW r \in Requests, Step(r)  PROVE ReviewedRowsInTrail'
  <2>1. UNCHANGED audit \/ (LogAction(r) /\ audit' \subseteq audit \cup {AuditEntry(r)})
    BY <1>3, Writers, LogFields
  <2> QED BY <1>1, <1>2, <2>1 DEF ReviewedRowsInTrail
<1>4. ASSUME NEW r \in Requests, Begin(r)  PROVE ReviewedRowsInTrail'
  BY <1>1, <1>4, BeginFields DEF ReviewedRowsInTrail, tables
<1>5. CASE UNCHANGED vars
  BY <1>1, <1>5 DEF ReviewedRowsInTrail, vars
<1> QED BY <1>3, <1>4, <1>5 DEF Next, Quiet

LEMMA OutcomesKept ==
  ASSUME IInv, ReviewsDecide, OutcomesAreVerdicts, [Next]_vars
  PROVE  OutcomesAreVerdicts'
<1>1. ASSUME NEW r \in Requests, Step(r)  PROVE OutcomesAreVerdicts'
  <2>1. req'[r].final # "new"
    <3>1. CASE Reread(r)
      <4>1. req'[r].final = anomalies[req[r].id].status /\ req[r].pc = "reread"
        BY <3>1 DEF Reread, IInv, TypeOK, RequestState
      <4>2. req[r].op \in ReviewOps
        BY <4>1 DEF IInv, Sound
      <4> QED BY <4>1, <4>2 DEF ReviewsDecide
    <3>2. ReadAttribution(r) \/ CountRows(r) => req'[r].final = req[r].final
      BY DEF ReadAttribution, CountRows, IInv, TypeOK, RequestState
    <3>3. ASSUME Compute(r)  PROVE req'[r].final = req[r].final
      <4>1. PICK g, dec :
              req' = [req EXCEPT ![r].pc = "audit", ![r].graph = g, ![r].dec = dec]
        BY <3>3 DEF Compute
      <4> QED BY <4>1 DEF IInv, TypeOK, RequestState
    <3> QED BY <1>1, <3>1, <3>2, <3>3, StepFields DEF Load, OutcomesAreVerdicts
  <2> QED BY <1>1, <2>1, StepFields DEF Same, OutcomesAreVerdicts
<1>2. ASSUME NEW r \in Requests, Begin(r)  PROVE OutcomesAreVerdicts'
  BY <1>2, BeginFields DEF OutcomesAreVerdicts, Taken
<1>3. CASE UNCHANGED vars
  BY <1>3 DEF OutcomesAreVerdicts, vars
<1> QED BY <1>1, <1>2, <1>3 DEF Next, Quiet

LEMMA InitTrace ==
  ASSUME Init
  PROVE  TraceInv
<1>1. \A r \in Requests : /\ req[r].pc = "idle" /\ req[r].op = "none" /\ req[r].attr = None
                          /\ req[r].final = "none"
  BY DEF Init, Idle
<1>2. \A a \in AnomalyIds : ~Stored(a)
  BY DEF Init, Stored
<1>3. audit = {} /\ soar = {}
  BY DEF Init
<1>4. "none" \notin SoarOps \cup ReviewOps
  BY DEF SoarOps, ReviewOps
<1>5. \A r \in Requests : SoarOf(r) = {} /\ EntriesOf(r) = {}
  BY <1>3 DEF SoarOf, EntriesOf
<1>6. StraysStayStray /\ RecordsComeInTime /\ IdleServesNothing /\ OutcomesAreVerdicts
  BY <1>1, <1>2, <1>5, ResponseAssumption
     DEF StraysStayStray, RecordsComeInTime, IdleServesNothing, OutcomesAreVerdicts
<1>7. ActionsAreCounted /\ AttributionsLast /\ ReviewsDecide
  BY <1>1, <1>4 DEF ActionsAreCounted, AttributionsLast, ReviewsDecide
<1>8. NarrativesAreAnnounced /\ NarrativeIsTraced /\ StatusIsAccounted
  BY <1>1, <1>2 DEF NarrativesAreAnnounced, NarrativeIsTraced, StatusIsAccounted
<1>9. FirstReviewIsTold /\ ReviewedRowsInTrail
  BY <1>2, <1>3 DEF FirstReviewIsTold, ReviewedRowsInTrail
<1> QED BY <1>6, <1>7, <1>8, <1>9 DEF TraceInv

LEMMA NextTrace ==
  ASSUME IInv, TraceInv, [Next]_vars
  PROVE  TraceInv'
BY StraysKept, RecordsComeKept, ActionsKept, AttributionsKept, NarrativesKept, IdleKept,
   StatusKept, DecidingKept, FirstReviewKept, TrailRowsKept, OutcomesKept DEF TraceInv

THEOREM TraceInvariance == Spec => []TraceInv
<1>1. Init => TraceInv
  BY InitTrace
<1>2. IInv /\ TraceInv /\ [Next]_vars => TraceInv'
  BY NextTrace
<1> QED BY <1>1, <1>2, Invariance, PTL DEF Spec

\* A row that left the review queue carries the verdict of a review of it, which the audit
\* trail shows unless it is still to come or a call failed.
THEOREM StatusesAccounted == Spec => []StatusIsAccounted
<1>1. TraceInv => StatusIsAccounted
  BY DEF TraceInv
<1> QED BY <1>1, TraceInvariance, PTL

\* A stored narrative was audited before, and names the technique of its anomaly or T0000.
THEOREM NarrativesTraced == Spec => []NarrativeIsTraced
<1>1. TraceInv => NarrativeIsTraced
  BY DEF TraceInv
<1> QED BY <1>1, TraceInvariance, PTL

\* Without failures the two records of a SOAR action are both there at its end, or neither.
THEOREM SoarTraced == Spec => []SoarIsTraced
<1>1. ASSUME IInv, TraceInv  PROVE SoarIsTraced
  <2>1. SUFFICES ASSUME NEW r \in Requests, req[r].op \in SoarOps
                 PROVE  /\ SoarOf(r) # {} /\ ~BeforeAudit(r) => EntriesOf(r) # {} \/ faults > 0
                        /\ EntriesOf(r) # {} => SoarOf(r) # {} \/ faults > 0
    BY DEF SoarIsTraced, SoarOf
  <2>2. faults = 0 \/ faults > 0
    BY <1>1, FaultsGrow DEF IInv
  <2>3. ~BeforeAudit(r) => req[r].pc = "done" \/ faults > 0
    <3>1. req[r].pc # "save_narrative"
      BY <1>1, <2>1 DEF IInv, Sound, SoarOps
    <3> QED BY <1>1, <3>1 DEF BeforeAudit, TraceInv, RecordsComeInTime
  <2>4. EntriesOf(r) # {} => ~BeforeAudit(r)
    BY <1>1 DEF TraceInv, RecordsComeInTime
  <2>5. faults = 0 /\ req[r].pc = "done" => (SoarOf(r) # {} <=> EntriesOf(r) # {})
    BY <1>1, <2>1 DEF TraceInv, ActionsAreCounted
  <2> QED BY <2>2, <2>3, <2>4, <2>5
<1> QED BY <1>1, Invariance, TraceInvariance, PTL

\* The trail shows only reviews that took effect, never "new" as an outcome, and, without
\* failures, the review that took an anomaly out of the queue.
THEOREM ReviewsTrailed == Spec => []ReviewTrail
<1>1. ASSUME TraceInv  PROVE ReviewTrail
  <2>1. /\ \A e \in audit : e.action \in {"human_approved", "human_rejected"} =>
             anomalies[e.id].status # "new"
        /\ \A r \in Requests : req[r].final # "new"
    BY <1>1 DEF TraceInv, ReviewedRowsInTrail, OutcomesAreVerdicts
  <2>2. ASSUME NEW a \in AnomalyIds, faults = 0, \A r \in Reviews(a) : ~BeforeAudit(r),
               NEW r \in Reviews(a), req[r].code = 200
        PROVE  \E e \in audit : e.id = a /\ e.prev = "new"
    <3>1. r \in Requests /\ req[r].op \in ReviewOps /\ req[r].id = a
      BY DEF Reviews
    <3>2. Stored(a) /\ anomalies[a].status # "new"
      BY <1>1, <2>2, <3>1 DEF TraceInv, ReviewsDecide
    <3>3. \A q \in Reviews(a) : req[q].pc \notin {"reread", "audit"}
      BY <2>2 DEF BeforeAudit
    <3> QED BY <1>1, <2>2, <3>2, <3>3 DEF TraceInv, FirstReviewIsTold
  <2> QED BY <2>1, <2>2 DEF ReviewTrail
<1> QED BY <1>1, TraceInvariance, PTL

---------------------------------------------------------------------------
(* Pages and totals.                                                       *)

LEMMA CountTypes ==
  ASSUME IInv
  PROVE  AnomalyCount \in Nat /\ AttributionCount \in Nat /\ AttributionCount <= AnomalyCount
<1> DEFINE rows == {a \in AnomalyIds : Stored(a)}
           attributed == {a \in AnomalyIds : attributions[a] # None}
<1>1. IsFiniteSet(rows)
  BY ResponseAssumption, FS_Subset
<1>2. attributed \subseteq rows
  BY DEF IInv, ReferencesExist
<1> HIDE DEF rows, attributed
<1>3. IsFiniteSet(attributed) /\ Cardinality(attributed) <= Cardinality(rows)
  BY <1>1, <1>2, FS_Subset
<1>4. Cardinality(rows) \in Nat /\ Cardinality(attributed) \in Nat
  BY <1>1, <1>3, FS_CardinalityType
<1> QED BY <1>3, <1>4 DEF AnomalyCount, AttributionCount, rows, attributed

LEMMA CountGrows ==
  ASSUME IInv, [Next]_vars
  PROVE  AnomalyCount' \in Nat /\ AnomalyCount <= AnomalyCount'
<1> DEFINE rows == {a \in AnomalyIds : Stored(a)}
           later == {a \in AnomalyIds : Stored(a)'}
<1>1. IsFiniteSet(later)
  BY ResponseAssumption, FS_Subset
<1>2. rows \subseteq later
  BY RowsStay
<1>3. AnomalyCount = Cardinality(rows) /\ AnomalyCount' = Cardinality(later)
  BY DEF AnomalyCount
<1> HIDE DEF rows, later
<1>4. Cardinality(rows) <= Cardinality(later) /\ Cardinality(later) \in Nat
  BY <1>1, <1>2, FS_Subset, FS_CardinalityType
<1> QED BY <1>3, <1>4

LEMMA PagesKept ==
  ASSUME IInv, PagesFit, [Next]_vars
  PROVE  PagesFit'
<1> DEFINE Fits(q) == req[q].op \in ListOps =>
              /\ req[q].pc = "count" => req[q].items <= AnomalyCount
              /\ req[q].code = 200 => req[q].items <= req[q].total
<1>1. /\ AnomalyCount \in Nat /\ AnomalyCount' \in Nat /\ AnomalyCount <= AnomalyCount'
      /\ AttributionCount \in Nat /\ AttributionCount <= AnomalyCount
      /\ \A q \in Requests : req[q].items \in Nat
  BY CountTypes, CountGrows DEF IInv, TypeOK, RequestState
<1>2. ASSUME NEW q \in Requests, req'[q] = req[q]  PROVE Fits(q)'
  <2>1. Fits(q) /\ req[q].items \in Nat
    BY <1>1 DEF PagesFit
  <2> HIDE DEF AnomalyCount
  <2> QED BY <1>1, <1>2, <2>1
<1>3. ASSUME NEW r \in Requests, Step(r), NEW q \in Requests  PROVE Fits(q)'
  <2>1. CASE q # r
    BY <1>2, <1>3, <2>1, StepFields DEF Same
  <2>2. CASE q = r /\ req[r].op \notin ListOps
    BY <1>3, <2>2, StepFields DEF Same
  <2>3. CASE q = r /\ req[r].op \in ListOps
    <3>1. req[r].pc \in {"count", "audit"}
      <4>1. Sound(r) /\ req[r].pc \in Pcs /\ req[r].pc \notin {"idle", "done", "crashed"}
        BY <1>3, StepFields DEF IInv, TypeOK, RequestState
      <4>2. req[r].op \notin {"correlate", "decide", "narrative"} \cup ReviewOps \cup SoarOps
        BY <2>3 DEF SoarOps, ReviewOps, ListOps
      <4> QED BY <4>1, <4>2 DEF Sound, Pcs
    <3>2. req[r].pc = "count"
      BY <2>3, <3>1 DEF IInv, Sound, SoarOps, ReviewOps, ListOps
    <3>3. CountRows(r) \/ ReadFails(r) \/ Crash(r)
      BY <1>3, <3>2 DEF Step, InsertAnomaly, InsertAttribution, UpdateGraph, Enrich,
           UpdateStatus, Reread, ReadAttribution, Compute, SaveNarrative, RecordSoar, LogAction
    <3>4. CASE CountRows(r)
      <4>1. PICK n : n = AnomalyCount
        OBVIOUS
      <4>2. req' = [req EXCEPT ![r].pc = "done", ![r].code = 200, ![r].total = n]
        BY <3>4, <4>1 DEF CountRows
      <4>3. req'[r].pc = "done" /\ req'[r].total = n /\ req'[r].items = req[r].items
        BY <4>2 DEF IInv, TypeOK, RequestState
      <4>4. req[r].items <= n
        BY <2>3, <3>2, <4>1 DEF PagesFit
      <4> QED BY <2>3, <4>3, <4>4
    <3>5. CASE ReadFails(r)
      BY <2>3, <3>5, AnswerFields DEF ReadFails, IInv
    <3>6. CASE Crash(r)
      <4>1. /\ req'[r].pc = "crashed" /\ req'[r].code = req[r].code
            /\ req'[r].items = req[r].items /\ req'[r].total = req[r].total
        BY <3>6, GotoFields DEF Crash, IInv, Load
      <4> QED BY <2>3, <4>1 DEF PagesFit
    <3> QED BY <3>3, <3>4, <3>5, <3>6
  <2> QED BY <2>1, <2>2, <2>3
<1>4. ASSUME NEW r \in Requests, Begin(r), NEW q \in Requests  PROVE Fits(q)'
  <2>1. CASE q # r
    BY <1>2, <1>4, <2>1, BeginFields
  <2>2. CASE q = r
    <3>1. Taken(req'[r])
      BY <1>4, BeginFields
    <3>2. req'[r].op \in ListOps =>
            /\ req'[r].pc = "count" /\ req'[r].code = 0
            /\ req'[r].items = PageOf(AnomalyCount) \/ req'[r].items = PageOf(AttributionCount)
      BY <3>1 DEF Taken
    <3>3. \A n \in Nat : PageOf(n) \in Nat /\ PageOf(n) <= n
      BY ResponseAssumption DEF PageOf
    <3>4. req'[r].op \in ListOps => req'[r].items <= AnomalyCount'
      <4> HIDE DEF AnomalyCount, AttributionCount
      <4> QED BY <1>1, <3>2, <3>3
    <3> QED BY <2>2, <3>2, <3>4
  <2> QED BY <2>1, <2>2
<1>5. CASE UNCHANGED vars
  BY <1>2, <1>5 DEF vars, PagesFit
<1>6. CASE \E r \in Requests : Begin(r) \/ Step(r)
  <2>1. \A q \in Requests : Fits(q)'
    BY <1>3, <1>4, <1>6
  <2> QED BY <2>1 DEF PagesFit
<1> QED BY <1>5, <1>6 DEF Next, Quiet

\* A page never shows more rows than its total, which is counted later and, for
\* attributions, in the other table.
THEOREM PagesWithinTotals == Spec => []PageWithinTotal
<1>1. Init => PagesFit
  BY DEF Init, Idle, PagesFit, ListOps
<1>2. IInv /\ PagesFit /\ [Next]_vars => PagesFit'
  BY PagesKept
<1>3. PagesFit => PageWithinTotal
  BY DEF PagesFit, PageWithinTotal
<1> QED BY <1>1, <1>2, <1>3, Invariance, PTL DEF Spec

---------------------------------------------------------------------------
(* Decisions recomputed.                                                   *)

\* Without a graph its answer does not matter.
LEMMA StaticDecision ==
  ASSUME ~GraphEnabled, NEW attack, NEW confidence, NEW t, NEW g, NEW u, NEW h
  PROVE  DecisionFor(attack, confidence, t, g) = DecisionFor(attack, confidence, u, h)
<1> DEFINE dec(n) == ComputeDecision(attack, confidence, GraphEnabled, n)
<1>1. \A m, n : dec(m) = dec(n)
  BY DEF ComputeDecision
<1>2. \A v, i : DecisionFor(attack, confidence, v, i)
                  = dec(CountConnectedAssets(i = "answered", ConnectedAssets(v)))
  BY DEF DecisionFor
<1> HIDE DEF dec
<1> QED BY <1>1, <1>2

\* A larger blast radius never takes a human out of a decision.
LEMMA HumanStays ==
  ASSUME NEW attack, NEW confidence \in Confidence, NEW used,
         NEW m \in Nat, NEW n \in Nat, m <= n,
         ComputeDecision(attack, confidence, used, m).human
  PROVE  ComputeDecision(attack, confidence, used, n).human
<1> DEFINE radius(k) == IF used THEN k ELSE StaticBlastRadius(attack)
           asks(k) == DecisionLevel(confidence, radius(k)) \in {"recommend", "alert_only"}
<1>1. \A k : ComputeDecision(attack, confidence, used, k).human = asks(k)
  BY DEF ComputeDecision
<1>2. StaticBlastRadius(attack) \in Nat
  <2>1. ASSUME NEW l \in KnownLabels  PROVE StaticEstimate[l] \in Nat
    BY DEF StaticEstimate, KnownLabels, DosVariants
  <2> QED BY <2>1 DEF StaticBlastRadius
<1>3. radius(m) \in Nat /\ radius(n) \in Nat /\ radius(m) <= radius(n)
  BY <1>2
<1>4. asks(m)
  BY <1>1
<1> HIDE DEF radius
<1>5. asks(n)
  BY <1>3, <1>4 DEF DecisionLevel, Confidence
<1> HIDE DEF asks
<1> QED BY <1>1, <1>5

LEMMA Connected ==
  ASSUME NEW E, IsFiniteSet(E), NEW D \in SUBSET E, NEW t
  PROVE  LET assets(S) == {e.asset : e \in {x \in S : x.technique = t}}
         IN  /\ Cardinality(assets(D)) \in Nat /\ Cardinality(assets(E)) \in Nat
             /\ Cardinality(assets(D)) <= Cardinality(assets(E))
<1> DEFINE linked == {x \in E : x.technique = t}
           named == {e.asset : e \in linked}
           before == {e.asset : e \in {x \in D : x.technique = t}}
<1>1. IsFiniteSet(linked)
  BY FS_Subset
<1>2. IsFiniteSet(named)
  <2>1. [e \in linked |-> e.asset] \in Surjection(linked, named)
    <3> HIDE DEF linked
    <3> QED BY DEF Surjection
  <2> HIDE DEF linked, named
  <2> QED BY <1>1, <2>1, FS_Surjection
<1>3. before \subseteq named
  OBVIOUS
<1>4. before = {e.asset : e \in {x \in D : x.technique = t}}
      /\ named = {e.asset : e \in {x \in E : x.technique = t}}
  OBVIOUS
<1> HIDE DEF before, named
<1>5. /\ Cardinality(before) \in Nat /\ Cardinality(named) \in Nat
      /\ Cardinality(before) <= Cardinality(named)
  BY <1>2, <1>3, FS_Subset, FS_CardinalityType
<1> QED BY <1>4, <1>5

LEMMA RadiusGrows ==
  ASSUME IInv, [Next]_vars, NEW t
  PROVE  /\ ConnectedAssets(t) \in Nat /\ ConnectedAssets(t)' \in Nat
         /\ ConnectedAssets(t) <= ConnectedAssets(t)'
<1>1. IsFiniteSet(edges') /\ edges \subseteq edges'
  <2>1. TypeOK'
    BY NextIInv DEF IInv
  <2>2. \A r \in Requests : Begin(r) => edges' = edges
    BY BeginFields DEF tables
  <2>3. \A r \in Requests : Step(r) => edges \subseteq edges'
    BY Writers DEF UpdateGraph
  <2>4. UNCHANGED vars => edges' = edges
    BY DEF vars
  <2> QED BY <2>1, <2>2, <2>3, <2>4 DEF Next, Quiet, TypeOK
<1> QED BY ZenonT(60), <1>1, Connected DEF ConnectedAssets

\* A decision agrees with what would be decided now, also after a step.
LEMMA AgreementStays ==
  ASSUME IInv, [Next]_vars, NEW d \in Detections, NEW dec, Agrees(dec, d)
  PROVE  Agrees(dec, d)'
<1> DEFINE t == CorrelateTechnique(d.attack)
           of(n) == ComputeDecision(d.attack, d.confidence, GraphEnabled, n)
<1>1. /\ DecisionNow(d)  = of(ConnectedAssets(t))
      /\ DecisionNow(d)' = of(ConnectedAssets(t)')
  BY DEF DecisionNow, DecisionFor, CountConnectedAssets
<1>2. /\ ConnectedAssets(t) \in Nat /\ ConnectedAssets(t)' \in Nat
      /\ ConnectedAssets(t) <= ConnectedAssets(t)'
  BY RadiusGrows
<1>3. d.confidence \in Confidence
  BY ResponseAssumption
<1>4. ~GraphEnabled => \A m, n : of(m) = of(n)
  BY DEF ComputeDecision
<1>5. of(ConnectedAssets(t)).human => of(ConnectedAssets(t)').human
  BY <1>2, <1>3, HumanStays
<1> HIDE DEF of, t
<1> QED BY <1>1, <1>4, <1>5 DEF Agrees

\* So does one made now, whatever the graph does.
LEMMA DecidedNow ==
  ASSUME IInv, NEW d \in Detections, NEW g \in GraphAnswers,
         NEW dec, dec = DecisionFor(d.attack, d.confidence, CorrelateTechnique(d.attack), g)
  PROVE  /\ Agrees(dec, d)
         /\ g # "down" => dec = DecisionNow(d)
<1> DEFINE t == CorrelateTechnique(d.attack)
           of(n) == ComputeDecision(d.attack, d.confidence, GraphEnabled, n)
<1>1. ConnectedAssets(t) \in Nat
  BY Connected DEF IInv, TypeOK, ConnectedAssets
<1>2. d.confidence \in Confidence
  BY ResponseAssumption
<1>3. DecisionNow(d) = of(ConnectedAssets(t))
  BY DEF DecisionNow, DecisionFor, CountConnectedAssets
<1>4. dec = of(IF g = "answered" THEN ConnectedAssets(t) ELSE 0)
  BY DEF DecisionFor, CountConnectedAssets
<1>5. of(0).human => of(ConnectedAssets(t)).human
  BY <1>1, <1>2, HumanStays
<1>6. ~GraphEnabled => \A m, n : of(m) = of(n)
  BY DEF ComputeDecision
<1>7. g # "down" /\ g # "answered" => ~GraphEnabled
  BY DEF GraphAnswers
<1> HIDE DEF of, t
<1> QED BY <1>3, <1>4, <1>5, <1>6, <1>7 DEF Agrees

\* The attribution a correlation writes.
LEMMA AttributeFields ==
  ASSUME IInv, NEW r \in Requests, InsertAttribution(r), NEW a \in AnomalyIds
  PROVE  \/ attributions'[a] = attributions[a]
         \/ /\ a = req[r].id
            /\ attributions'[a] = [technique  |-> CorrelateTechnique(req[r].det.attack),
                                   confidence |-> req[r].det.confidence]
<1>1. \/ UNCHANGED attributions
      \/ attributions' = [attributions EXCEPT ![req[r].id] =
                           [technique  |-> CorrelateTechnique(req[r].det.attack),
                            confidence |-> req[r].det.confidence]]
  BY DEF InsertAttribution
<1> QED BY <1>1 DEF IInv, TypeOK

LEMMA DecisionsKept ==
  ASSUME IInv, DecisionsAgree, [Next]_vars
  PROVE  DecisionsAgree'
<1> DEFINE RowAgrees(a) == Stored(a) => Agrees(anomalies[a].decision, anomalies[a].det)
           Copies(a) == attributions[a] # None =>
             /\ attributions[a].technique  = CorrelateTechnique(anomalies[a].det.attack)
             /\ attributions[a].confidence = anomalies[a].det.confidence
           Carried(q) ==
             /\ req[q].pc = "insert_anomaly" => Agrees(req[q].dec, req[q].det)
             /\ req[q].pc = "insert_attribution" => anomalies[req[q].id].det = req[q].det
<1>1. /\ \A a \in AnomalyIds : RowAgrees(a) /\ Copies(a)
      /\ \A q \in Requests : Carried(q)
  BY DEF DecisionsAgree
<1>2. ASSUME NEW a \in AnomalyIds, Stored(a)  PROVE RowAgrees(a)'
  <2> PICK d \in Detections : d = anomalies[a].det
    BY <1>2 DEF IInv, TypeOK, Stored, AnomalyRow
  <2>1. PICK dec : d = anomalies[a].det /\ dec = anomalies[a].decision
    OBVIOUS
  <2>2. Agrees(dec, d)'
    BY <1>1, <1>2, <2>1, AgreementStays
  <2>3. anomalies'[a].det = d /\ anomalies'[a].decision = dec
    BY <1>2, <2>1, RowsStay
  <2> QED BY <2>2, <2>3 DEF Agrees, DecisionNow, DecisionFor, ConnectedAssets
<1>3. ASSUME NEW a \in AnomalyIds, attributions[a] # None, attributions'[a] = attributions[a]
      PROVE  Copies(a)'
  <2>1. Stored(a)
    BY <1>3 DEF IInv, ReferencesExist
  <2> QED BY <1>1, <1>3, <2>1, RowsStay
<1>4. ASSUME NEW q \in Requests, req'[q] = req[q]  PROVE Carried(q)'
  <2>1. ASSUME req[q].pc = "insert_anomaly"  PROVE Agrees(req[q].dec, req[q].det)'
    <3> PICK d \in Detections : d = req[q].det
      BY <2>1 DEF IInv, Sound
    <3>1. PICK dec : d = req[q].det /\ dec = req[q].dec
      OBVIOUS
    <3>2. Agrees(dec, d)'
      BY <1>1, <2>1, <3>1, AgreementStays
    <3>3. req'[q].dec = dec /\ req'[q].det = d
      BY <1>4, <3>1
    <3> QED BY <3>2, <3>3 DEF Agrees, DecisionNow, DecisionFor, ConnectedAssets
  <2>2. ASSUME req[q].pc = "insert_attribution"  PROVE anomalies'[req'[q].id].det = req'[q].det
    <3>1. PICK a \in AnomalyIds : a = req[q].id /\ Stored(a)
      BY <2>2 DEF IInv, Sound
    <3> QED BY <1>1, <1>4, <2>2, <3>1, RowsStay
  <2> QED BY <1>4, <2>1, <2>2
<1>5. ASSUME NEW r \in Requests, Step(r), NEW a \in AnomalyIds
      PROVE  RowAgrees(a)' /\ Copies(a)'
  <2>1. RowAgrees(a)'
    <3>1. CASE Stored(a)
      BY <1>2, <3>1
    <3>2. CASE ~Stored(a) /\ InsertAnomaly(r) /\ a = req[r].id
      <4> PICK d \in Detections : d = req[r].det
        BY <3>2 DEF InsertAnomaly, IInv, Sound
      <4>1. PICK dec : d = req[r].det /\ dec = req[r].dec
        OBVIOUS
      <4>2. Agrees(dec, d)
        BY <1>1, <3>2, <4>1 DEF InsertAnomaly
      <4>3. Agrees(dec, d)'
        BY <4>2, AgreementStays
      <4>4. Stored(a)' => anomalies'[a].det = d /\ anomalies'[a].decision = dec
        BY <3>2, <4>1, InsertFields DEF Stored
      <4> QED BY <4>3, <4>4 DEF Agrees, DecisionNow, DecisionFor, ConnectedAssets
    <3>3. CASE ~Stored(a) /\ ~(InsertAnomaly(r) /\ a = req[r].id)
      <4>1. anomalies'[a] = anomalies[a]
        <5>1. InsertAnomaly(r) => anomalies'[a] = anomalies[a]
          BY <3>3, InsertFields
        <5>2. UpdateStatus(r) => anomalies'[a] = anomalies[a]
          BY <3>3, UpdateFields
        <5>3. SaveNarrative(r) => anomalies'[a] = anomalies[a]
          BY <3>3, SaveFields
        <5> QED BY <1>5, <5>1, <5>2, <5>3, Writers
      <4> QED BY <3>3, <4>1 DEF Stored
    <3> QED BY <3>1, <3>2, <3>3
  <2>2. Copies(a)'
    <3>1. CASE attributions'[a] = attributions[a]
      BY <1>3, <3>1
    <3>2. CASE InsertAttribution(r) /\ a = req[r].id
      <4>1. req[r].pc = "insert_attribution"
        BY <3>2 DEF InsertAttribution
      <4>2. attributions[a] = None /\ anomalies[a].det = req[r].det /\ UNCHANGED anomalies
        BY <1>1, <3>2, <4>1 DEF IInv, Sound, InsertAttribution
      <4>3. PICK t : t = CorrelateTechnique(req[r].det.attack)
        OBVIOUS
      <4>4. \/ attributions'[a] = None
            \/ attributions'[a] = [technique |-> t, confidence |-> req[r].det.confidence]
        BY <3>2, <4>2, <4>3, AttributeFields
      <4>5. attributions'[a] # None =>
              attributions'[a].technique = t /\ attributions'[a].confidence = req[r].det.confidence
        BY <4>4
      <4>6. anomalies'[a].det = req[r].det
        BY <4>2
      <4> QED BY <4>3, <4>5, <4>6
    <3> QED BY <1>5, <3>1, <3>2, Writers, AttributeFields
  <2> QED BY <2>1, <2>2
<1>6. ASSUME NEW r \in Requests, Step(r), NEW q \in Requests  PROVE Carried(q)'
  <2>1. CASE q # r
    BY <1>4, <1>6, <2>1, StepFields DEF Same
  <2>2. CASE q = r
    <3>1. req'[r].pc # "insert_anomaly"
      BY <1>6, NextPlace
    <3>2. ASSUME req'[r].pc = "insert_attribution"
          PROVE  anomalies'[req'[r].id].det = req'[r].det
      <4>1. InsertAnomaly(r)
        BY <1>6, <3>2, Arrivals
      <4>2. PICK a \in AnomalyIds : a = req[r].id
        BY <4>1 DEF InsertAnomaly, IInv, Sound
      <4>3. PICK o \in WriteOutcomes :
              /\ anomalies' = IF Applied(o)
                   THEN [anomalies EXCEPT ![a] =
                          [det |-> req[r].det, status |-> "new", decision |-> req[r].dec,
                           narrative |-> "none"]]
                   ELSE anomalies
              /\ After(r, o, "insert_attribution")
        BY <4>1, <4>2 DEF InsertAnomaly
      <4>4. o = "ok"
        BY <3>2, <4>3, AfterFields DEF IInv
      <4>5. anomalies'[a].det = req[r].det
        BY <4>3, <4>4 DEF Applied, IInv, TypeOK
      <4>6. req'[r].id = a /\ req'[r].det = req[r].det
        BY <1>6, <4>2, StepFields DEF Same
      <4> QED BY <4>5, <4>6
    <3> QED BY <2>2, <3>1, <3>2
  <2> QED BY <2>1, <2>2
<1>7. ASSUME NEW r \in Requests, Begin(r)
      PROVE  /\ \A a \in AnomalyIds : RowAgrees(a)' /\ Copies(a)'
             /\ \A q \in Requests : Carried(q)'
  <2>1. UNCHANGED tables /\ Taken(req'[r])
    BY <1>7, BeginFields
  <2>2. ASSUME NEW a \in AnomalyIds  PROVE RowAgrees(a)' /\ Copies(a)'
    <3>1. RowAgrees(a)'
      BY <1>2, <2>1 DEF tables, Stored
    <3>2. Copies(a)'
      BY <1>1, <2>1 DEF tables
    <3> QED BY <3>1, <3>2
  <2>3. Carried(r)'
    <3>1. ASSUME req'[r].pc = "insert_anomaly"  PROVE Agrees(req[r].dec, req[r].det)'
      <4> PICK d \in Detections, g \in GraphAnswers :
               /\ d = req'[r].det
               /\ req'[r].dec
                   = DecisionFor(d.attack, d.confidence, CorrelateTechnique(d.attack), g)
        BY <2>1, <3>1 DEF Taken
      <4>1. PICK dec :
               /\ dec = req'[r].dec
               /\ dec = DecisionFor(d.attack, d.confidence, CorrelateTechnique(d.attack), g)
        OBVIOUS
      <4>2. Agrees(dec, d)
        BY <4>1, DecidedNow
      <4>3. Agrees(dec, d)'
        BY <4>2, AgreementStays
      <4>4. req'[r].dec = dec /\ req'[r].det = d
        BY <4>1
      <4> QED BY <4>3, <4>4 DEF Agrees, DecisionNow, DecisionFor, ConnectedAssets
    <3>2. req'[r].pc # "insert_attribution"
      BY <2>1 DEF Taken
    <3> QED BY <3>1, <3>2
  <2>4. \A q \in Requests \ {r} : Carried(q)'
    BY <1>4, <1>7, BeginFields
  <2> QED BY <2>2, <2>3, <2>4
<1>8. CASE UNCHANGED vars
  <2>1. \A a \in AnomalyIds : RowAgrees(a)'
    BY <1>2, <1>8 DEF vars, Stored
  <2>2. \A a \in AnomalyIds : Copies(a)'
    BY <1>1, <1>8 DEF vars
  <2>3. \A q \in Requests : Carried(q)'
    BY <1>4, <1>8 DEF vars
  <2> QED BY <2>1, <2>2, <2>3 DEF DecisionsAgree
<1>9. CASE \E r \in Requests : Begin(r) \/ Step(r)
  <2>1. /\ \A a \in AnomalyIds : RowAgrees(a)' /\ Copies(a)'
        /\ \A q \in Requests : Carried(q)'
    BY <1>5, <1>6, <1>7, <1>9
  <2> QED BY <2>1 DEF DecisionsAgree
<1> QED BY <1>8, <1>9 DEF Next, Quiet

LEMMA DecisionsLastKept ==
  ASSUME IInv, DecisionsComeLast, [Next]_vars
  PROVE  DecisionsComeLast'
<1>1. ASSUME NEW r \in Requests, Step(r)  PROVE DecisionsComeLast'
  <2>1. req'[r].pc # "read_attribution"
    BY <1>1, NextPlace
  <2> QED BY <1>1, <2>1, StepFields DEF DecisionsComeLast, Same
<1>2. ASSUME NEW r \in Requests, Begin(r)  PROVE DecisionsComeLast'
  <2>1. req'[r].pc = "read_attribution" => req'[r].op # "correlate"
    <3>1. TypeOK' /\ \A q \in Requests : Sound(q)'
      BY NextIInv DEF IInv
    <3> QED BY <3>1 DEF Sound
  <2> QED BY <1>2, <2>1, BeginFields DEF DecisionsComeLast, Taken
<1>3. CASE UNCHANGED vars
  BY <1>3 DEF DecisionsComeLast, vars
<1> QED BY <1>1, <1>2, <1>3 DEF Next, Quiet

LEMMA RecomputedKept ==
  ASSUME IInv, AttributionsLast, DecisionsAgree, DecisionsComeLast,
         RecomputedDecisionsAgree, [Next]_vars
  PROVE  RecomputedDecisionsAgree'
<1> DEFINE Compared(q, stored) ==
             /\ ~GraphEnabled => IF req[q].attr # None THEN req[q].dec = stored
                                                       ELSE req[q].dec.level = "monitor"
             /\ req[q].graph # "down" /\ req[q].attr # None /\ stored.human => req[q].dec.human
           Recomputed(q) ==
             req[q].op = "decide" /\ req[q].dec # None =>
               /\ req[q].id \in AnomalyIds /\ Stored(req[q].id)
               /\ Compared(q, anomalies[req[q].id].decision)
<1>1. RecomputedDecisionsAgree <=> \A q \in Requests : Recomputed(q)
  BY DEF RecomputedDecisionsAgree, DecideAnswers
<1>2. RecomputedDecisionsAgree' <=> \A q \in Requests : Recomputed(q)'
  BY DEF RecomputedDecisionsAgree, DecideAnswers
<1>3. ASSUME NEW q \in Requests, Recomputed(q),
             req'[q].op = req[q].op, req'[q].id = req[q].id, req'[q].dec = req[q].dec,
             req'[q].attr = req[q].attr, req'[q].graph = req[q].graph
      PROVE  Recomputed(q)'
  <2>1. SUFFICES ASSUME req[q].op = "decide", req[q].dec # None  PROVE Recomputed(q)'
    BY <1>3
  <2>2. PICK a \in AnomalyIds : a = req[q].id /\ Stored(a)
    BY <1>3, <2>1
  <2>3. Stored(a)' /\ anomalies'[a].decision = anomalies[a].decision
    BY <2>2, RowsStay
  <2> QED BY <1>3, <2>1, <2>2, <2>3 DEF Stored
<1>4. ASSUME NEW r \in Requests, Compute(r)  PROVE Recomputed(r)'
  <2>1. req[r].pc = "compute" /\ req[r].op = "decide" /\ UNCHANGED tables
    BY <1>4 DEF Compute, IInv, Sound
  <2>2. PICK a \in AnomalyIds : a = req[r].id /\ Stored(a)
    BY <2>1 DEF IInv, Sound
  <2>3. PICK d \in Detections : d = anomalies[a].det
    BY <2>2 DEF IInv, TypeOK, Stored, AnomalyRow
  <2>4. PICK attr : attr = req[r].attr
    OBVIOUS
  <2>5. PICK g \in GraphAnswers :
          req' = [req EXCEPT ![r].pc = "audit", ![r].graph = g,
                    ![r].dec = DecisionFor(AttackLabel(req[r].id),
                                           IF attr = None THEN 0 ELSE attr.confidence,
                                           IF attr = None THEN "" ELSE attr.technique, g)]
    BY <1>4, <2>4 DEF Compute
  <2>6. PICK dec : dec = DecisionFor(d.attack, IF attr = None THEN 0 ELSE attr.confidence,
                                     IF attr = None THEN "" ELSE attr.technique, g)
    OBVIOUS
  <2>7. req' = [req EXCEPT ![r].pc = "audit", ![r].graph = g, ![r].dec = dec]
    BY <2>2, <2>3, <2>5, <2>6 DEF AttackLabel
  <2>8. /\ req'[r].op = "decide" /\ req'[r].id = a /\ req'[r].attr = attr
        /\ req'[r].dec = dec /\ req'[r].graph = g
    BY <2>1, <2>2, <2>4, <2>7 DEF IInv, TypeOK, RequestState
  <2>9. anomalies'[a] = anomalies[a] /\ Stored(a)'
    BY <2>1, <2>2 DEF tables, Stored
  <2>10. PICK stored : stored = anomalies[a].decision
    OBVIOUS
  <2>11. CASE attr = None
    <3>1. dec.level = DecisionLevel(0, IF GraphEnabled
              THEN CountConnectedAssets(g = "answered", ConnectedAssets(""))
              ELSE StaticBlastRadius(d.attack))
      BY <2>6, <2>11 DEF DecisionFor, ComputeDecision
    <3>2. \A k : DecisionLevel(0, k) = "monitor"
      BY DEF DecisionLevel
    <3> QED BY <2>2, <2>8, <2>9, <2>11, <3>1, <3>2 DEF Stored
  <2>12. CASE attr # None
    <3>1. attributions[a] = attr
      BY <2>2, <2>4, <2>12 DEF AttributionsLast
    <3>2. attr.technique = CorrelateTechnique(d.attack) /\ attr.confidence = d.confidence
      BY <2>3, <2>12, <3>1 DEF DecisionsAgree
    <3>3. dec = DecisionFor(d.attack, d.confidence, CorrelateTechnique(d.attack), g)
      BY <2>6, <2>12, <3>2
    <3>4. Agrees(stored, d)
      BY <2>2, <2>3, <2>10 DEF DecisionsAgree
    <3>5. g # "down" => dec = DecisionNow(d)
      BY <3>3, DecidedNow
    <3>6. ~GraphEnabled => g # "down"
      BY DEF GraphAnswers
    <3>7. /\ ~GraphEnabled => dec = stored
          /\ g # "down" /\ stored.human => dec.human
      BY <3>4, <3>5, <3>6 DEF Agrees
    <3> QED BY <2>2, <2>8, <2>9, <2>10, <2>12, <3>7 DEF Stored
  <2> QED BY <2>11, <2>12
<1>5. ASSUME NEW r \in Requests, Step(r), NEW q \in Requests, Recomputed(q)
      PROVE  Recomputed(q)'
  <2>1. Same(r)
    BY <1>5, StepFields
  <2>2. CASE q # r
    <3>1. req'[q] = req[q]
      BY <2>1, <2>2 DEF Same
    <3> QED BY <1>3, <1>5, <3>1
  <2>3. CASE q = r /\ Compute(r)
    BY <1>4, <2>3
  <2>4. CASE q = r /\ UNCHANGED Load(r)
    <3>1. /\ req'[r].op = req[r].op /\ req'[r].id = req[r].id /\ req'[r].dec = req[r].dec
          /\ req'[r].attr = req[r].attr /\ req'[r].graph = req[r].graph
      BY <2>1, <2>4 DEF Same, Load
    <3> QED BY <1>3, <1>5, <2>4, <3>1
  <2>5. CASE q = r /\ (Reread(r) \/ CountRows(r))
    <3>1. req'[r].op # "decide"
      <4>1. req[r].op # "decide"
        BY <2>5 DEF Reread, CountRows, IInv, Sound, ReviewOps, ListOps
      <4> QED BY <2>1, <4>1 DEF Same
    <3> QED BY <2>5, <3>1
  <2>6. CASE q = r /\ ReadAttribution(r)
    <3>1. req[r].dec = None
      BY <2>6 DEF ReadAttribution, DecisionsComeLast
    <3>2. req'[r].dec = req[r].dec
      BY <2>6 DEF ReadAttribution, IInv, TypeOK, RequestState
    <3> QED BY <2>6, <3>1, <3>2
  <2> QED BY <1>5, <2>2, <2>3, <2>4, <2>5, <2>6, StepFields
<1>6. ASSUME NEW r \in Requests, Begin(r), NEW q \in Requests, Recomputed(q)
      PROVE  Recomputed(q)'
  <2>1. CASE q # r
    <3>1. req'[q] = req[q]
      BY <1>6, <2>1, BeginFields
    <3> QED BY <1>3, <1>6, <3>1
  <2>2. CASE q = r
    <3>1. req'[r].op # "correlate" => req'[r].dec = None
      BY <1>6, BeginFields DEF Taken
    <3> QED BY <2>2, <3>1
  <2> QED BY <2>1, <2>2
<1>7. CASE UNCHANGED vars
  BY <1>7 DEF RecomputedDecisionsAgree, DecideAnswers, Stored, vars
<1>8. CASE \E r \in Requests : Begin(r) \/ Step(r)
  <2> HIDE DEF Recomputed
  <2> QED BY <1>1, <1>2, <1>5, <1>6, <1>8
<1> QED BY <1>7, <1>8 DEF Next, Quiet

DecideInv == DecisionsAgree /\ DecisionsComeLast /\ RecomputedDecisionsAgree

LEMMA InitDecide ==
  ASSUME Init
  PROVE  DecideInv
<1>1. \A r \in Requests : req[r].pc = "idle" /\ req[r].op = "none"
  BY DEF Init, Idle
<1>2. \A a \in AnomalyIds : ~Stored(a) /\ attributions[a] = None
  BY DEF Init, Stored
<1> QED BY <1>1, <1>2
        DEF DecideInv, DecisionsAgree, DecisionsComeLast, RecomputedDecisionsAgree, DecideAnswers

THEOREM DecideInvariance == Spec => []DecideInv
<1>1. Init => DecideInv
  BY InitDecide
<1>2. IInv /\ TraceInv /\ DecideInv /\ [Next]_vars => DecideInv'
  BY DecisionsKept, DecisionsLastKept, RecomputedKept DEF DecideInv, TraceInv
<1> QED BY <1>1, <1>2, Invariance, TraceInvariance, PTL DEF Spec

\* Without a graph /decide answers the stored decision, or "monitor" when the attribution
\* has not arrived.
THEOREM DecidesAgree == Spec => []DecideAgrees
<1>1. DecideInv => DecideAgrees
  BY DEF DecideInv, RecomputedDecisionsAgree, DecideAgrees
<1> QED BY <1>1, DecideInvariance, PTL

\* With a graph that answers, a stored decision that asks for a human is recomputed to one
\* that does, since the blast radius only grows.
THEOREM DecidesNeverRelax == Spec => []DecideNeverRelaxes
<1>1. DecideInv => DecideNeverRelaxes
  BY DEF DecideInv, RecomputedDecisionsAgree, DecideNeverRelaxes
<1> QED BY <1>1, DecideInvariance, PTL
=============================================================================
