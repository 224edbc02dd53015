--------------------------- MODULE PipelineProofs ---------------------------
(***************************************************************************)
(* Proofs about the path of a signal through both services: for any number *)
(* of ingests, of runs of the bridge and of correlations, with any         *)
(* failures of the tables of both services and of the calls between them.  *)
(*                                                                         *)
(* B's own invariant is not proved again: BP is the module that proves it, *)
(* with the values that Pipeline gives B.                                  *)
(***************************************************************************)
EXTENDS Pipeline, FiniteSetTheorems, TLAPS

BP == INSTANCE TracingProofs
       WITH Ops <- {"correlate"}, StrayIds <- {}, GraphEnabled <- FALSE,
            PriorEdges <- {}, PageSize <- 1

---------------------------------------------------------------------------
(* B and BP are the same service, operator by operator.                    *)

LEMMA SameValues ==
  /\ B!Confidence = BP!Confidence /\ B!Techniques = BP!Techniques
  /\ B!Decisions = BP!Decisions /\ B!AnomalyRow = BP!AnomalyRow
  /\ B!AttributionRow = BP!AttributionRow
BY DEF B!Confidence, BP!Confidence, B!Techniques, BP!Techniques, B!Decisions, BP!Decisions,
       B!DecisionLevels, BP!DecisionLevels, B!ResponseActions, BP!ResponseActions,
       B!AnomalyRow, BP!AnomalyRow, B!Statuses, BP!Statuses, B!AttributionRow, BP!AttributionRow

LEMMA SameFinite == \A S : BP!IsFiniteSet(S) <=> IsFiniteSet(S)
BY DEF BP!IsFiniteSet, IsFiniteSet

\* The values that Pipeline gives B are values B is proved for.
LEMMA BAssumed == BP!ResponseAssumption
<1>1. ASSUME NEW d \in Detections  PROVE d.attack \in STRING /\ d.confidence \in BP!Confidence
  BY SameValues, PipelineAssumption DEF Detections
<1>2. {"correlate"} \subseteq BP!AllOps
  BY DEF BP!AllOps
<1>3. BP!IsFiniteSet({}) /\ BP!IsFiniteSet(AnomalyIds)
  BY SameFinite, FS_EmptySet, PipelineAssumption
<1> QED
  BY <1>1, <1>2, <1>3, SameValues, PipelineAssumption DEF BP!ResponseAssumption

LEMMA SameFault == B!Fault <=> BP!Fault
BY DEF B!Fault, BP!Fault

LEMMA SameStep ==
  ASSUME NEW r
  PROVE  B!Step(r) <=> BP!Step(r)
<1> USE DEF B!WriteOutcomes, BP!WriteOutcomes, B!tables, BP!tables, B!Applied, BP!Applied,
            B!Stored, BP!Stored, B!Accepted, BP!Accepted, B!Fault, BP!Fault, B!CallCosts,
            BP!CallCosts, B!Goto, BP!Goto, B!Answer, BP!Answer, B!After, BP!After
<1>1. B!InsertAnomaly(r) <=> BP!InsertAnomaly(r)
  BY DEF B!InsertAnomaly, BP!InsertAnomaly
<1>2. B!InsertAttribution(r) <=> BP!InsertAttribution(r)
  BY DEF B!InsertAttribution, BP!InsertAttribution, B!CorrelateTechnique, BP!CorrelateTechnique,
         B!Spelling, BP!Spelling, B!MitreId, BP!MitreId, B!KnownLabels, BP!KnownLabels,
         B!DosVariants, BP!DosVariants
<1>3. B!UpdateGraph(r) <=> BP!UpdateGraph(r)
  BY DEF B!UpdateGraph, BP!UpdateGraph, B!CorrelateTechnique, BP!CorrelateTechnique, B!Spelling,
         BP!Spelling, B!MitreId, BP!MitreId, B!KnownLabels, BP!KnownLabels, B!DosVariants,
         BP!DosVariants
<1>4. B!Enrich(r) <=> BP!Enrich(r)
  BY DEF B!Enrich, BP!Enrich
<1>5. B!UpdateStatus(r) <=> BP!UpdateStatus(r)
  BY DEF B!UpdateStatus, BP!UpdateStatus, B!Verdict, BP!Verdict
<1>6. B!Reread(r) <=> BP!Reread(r)
  BY DEF B!Reread, BP!Reread
<1>7. B!ReadAttribution(r) <=> BP!ReadAttribution(r)
  BY DEF B!ReadAttribution, BP!ReadAttribution
<1>8. B!Compute(r) <=> BP!Compute(r)
  BY DEF B!Compute, BP!Compute, B!GraphAnswers, BP!GraphAnswers, B!GraphCosts, BP!GraphCosts,
         B!DecisionFor, BP!DecisionFor, B!ComputeDecision, BP!ComputeDecision,
         B!CountConnectedAssets, BP!CountConnectedAssets, B!ConnectedAssets, BP!ConnectedAssets,
         B!RecommendedAction, BP!RecommendedAction, B!DecisionLevel, BP!DecisionLevel,
         B!StaticBlastRadius, BP!StaticBlastRadius, B!StaticEstimate, BP!StaticEstimate,
         B!Cardinality, BP!Cardinality, B!AttackLabel, BP!AttackLabel, B!CorrelateTechnique,
         BP!CorrelateTechnique, B!Spelling, BP!Spelling, B!MitreId, BP!MitreId, B!KnownLabels,
         BP!KnownLabels, B!DosVariants, BP!DosVariants
<1>9. B!SaveNarrative(r) <=> BP!SaveNarrative(r)
  BY DEF B!SaveNarrative, BP!SaveNarrative, B!NarrativeOf, BP!NarrativeOf
<1>10. B!RecordSoar(r) <=> BP!RecordSoar(r)
  BY DEF B!RecordSoar, BP!RecordSoar
<1>11. B!LogAction(r) <=> BP!LogAction(r)
  BY DEF B!LogAction, BP!LogAction, B!AuditEntry, BP!AuditEntry, B!ActionType, BP!ActionType,
         B!Verdict, BP!Verdict, B!ReviewOps, BP!ReviewOps, B!SoarOps, BP!SoarOps
<1>12. B!CountRows(r) <=> BP!CountRows(r)
  BY DEF B!CountRows, BP!CountRows, B!AnomalyCount, BP!AnomalyCount, B!Cardinality,
         BP!Cardinality
<1>13. B!ReadFails(r) <=> BP!ReadFails(r)
  BY DEF B!ReadFails, BP!ReadFails
<1>14. B!Crash(r) <=> BP!Crash(r)
  BY DEF B!Crash, BP!Crash
<1> QED
  BY <1>1, <1>2, <1>3, <1>4, <1>5, <1>6, <1>7, <1>8, <1>9, <1>10, <1>11, <1>12, <1>13, <1>14
  DEF B!Step, BP!Step

LEMMA SameCorrelate ==
  ASSUME NEW r, NEW d
  PROVE  B!Correlate(r, d) <=> BP!Correlate(r, d)
BY DEF B!Correlate, BP!Correlate, B!Idle, BP!Idle, B!Fresh, BP!Fresh, B!Stored, BP!Stored,
       B!tables, BP!tables, B!Fault, BP!Fault, B!GraphAnswers, BP!GraphAnswers, B!GraphCosts,
       BP!GraphCosts, B!DecisionFor, BP!DecisionFor, B!ComputeDecision, BP!ComputeDecision,
       B!CountConnectedAssets, BP!CountConnectedAssets, B!ConnectedAssets, BP!ConnectedAssets,
       B!RecommendedAction, BP!RecommendedAction, B!DecisionLevel, BP!DecisionLevel,
       B!StaticBlastRadius, BP!StaticBlastRadius, B!StaticEstimate, BP!StaticEstimate,
       B!Cardinality, BP!Cardinality, B!CorrelateTechnique, BP!CorrelateTechnique, B!Spelling,
       BP!Spelling, B!MitreId, BP!MitreId, B!KnownLabels, BP!KnownLabels, B!DosVariants,
       BP!DosVariants

LEMMA SameInit == B!Init <=> BP!Init
BY DEF B!Init, BP!Init, B!Idle, BP!Idle

LEMMA SameTypes == B!TypeOK <=> BP!TypeOK
BY SameValues
   DEF B!TypeOK, BP!TypeOK, B!AuditRow, BP!AuditRow, B!SoarRow, BP!SoarRow, B!Edge, BP!Edge,
       B!Assets, BP!Assets, B!RequestState, BP!RequestState, B!Statuses, BP!Statuses,
       B!DecisionLevels, BP!DecisionLevels, B!ActionTypes, BP!ActionTypes, B!AllOps, BP!AllOps,
       B!SoarOps, BP!SoarOps, B!ReviewOps, BP!ReviewOps, B!ListOps, BP!ListOps, B!Pcs, BP!Pcs,
       B!Codes, BP!Codes, B!IsFiniteSet, BP!IsFiniteSet

---------------------------------------------------------------------------
(* What B is to this module.                                               *)

Attempts == {r \in Requests : req[r].op = "correlate"}

\* B serves nothing but the correlations it is sent.
OnlyCorrelations ==
  \A r \in Requests :
    /\ req[r].op \in {"none", "correlate"}
    /\ req[r].op = "none" => req[r].pc = "idle"

\* Every row of B was written by a correlation, for its detection.
Origin(a) == \E r \in Attempts : req[r].id = a /\ req[r].det = anomalies[a].det

BInv ==
  /\ BP!IInv /\ BP!IdleServesNothing
  /\ OnlyCorrelations
  /\ \A a \in AnomalyIds : Stored(a) => Origin(a)

\* A step that does not concern B.
BRests == UNCHANGED bVars /\ (B!Fault \/ UNCHANGED faults)

\* A request of B goes on being the same correlation, and its answer stays.
BKeeps ==
  \A r \in Attempts :
    /\ r \in Attempts'
    /\ req'[r].id = req[r].id /\ req'[r].det = req[r].det
    /\ req[r].pc = "done" => req'[r] = req[r]

LEMMA SameStored == \A a : BP!Stored(a) <=> Stored(a)
BY DEF BP!Stored, Stored

LEMMA IdleNotAttempt ==
  ASSUME BInv, NEW r \in Requests
  PROVE  r \in Attempts <=> req[r].pc # "idle"
BY DEF BInv, OnlyCorrelations, BP!IdleServesNothing, Attempts

LEMMA BRestKeeps ==
  ASSUME BInv, BRests
  PROVE  BInv' /\ BKeeps /\ Attempts' = Attempts /\ (B!TypeOK)'
<1>1. faults' \in 0 .. MaxFaults
  <2>1. BP!Fault \/ UNCHANGED faults
    BY SameFault DEF BRests
  <2> QED BY <2>1, BAssumed, BP!FaultType DEF BInv, BP!IInv, BP!ResponseAssumption
<1>2. BP!IInv'
  BY <1>1 DEF BInv, BRests, bVars, BP!IInv, BP!TypeOK, BP!ReferencesExist, BP!Unshared, BP!Sound,
              BP!Stored
<1>3. BP!IdleServesNothing' /\ OnlyCorrelations' /\ Attempts' = Attempts /\ BKeeps
  BY DEF BInv, BRests, bVars, BP!IdleServesNothing, OnlyCorrelations, Attempts, BKeeps
<1>4. ASSUME NEW a \in AnomalyIds, Stored(a)'  PROVE Origin(a)'
  BY <1>3, <1>4 DEF BInv, BRests, bVars, Stored, Origin
<1>5. (B!TypeOK)'
  BY <1>2, SameTypes, PTL DEF BP!IInv
<1> QED BY <1>2, <1>3, <1>4, <1>5 DEF BInv

LEMMA BStepKeeps ==
  ASSUME BInv, NEW r \in Requests, B!Step(r)
  PROVE  BInv' /\ BKeeps /\ Attempts' = Attempts /\ (B!TypeOK)'
<1>1. BP!Step(r) /\ BP!IInv
  BY SameStep DEF BInv
<1>2. BP!IInv'
  BY <1>1, BAssumed, BP!StepKeeps DEF BP!ResponseAssumption
<1>3. BP!Same(r) /\ req[r].pc \notin {"idle", "done", "crashed"}
  BY <1>1, BAssumed, BP!StepFields DEF BP!ResponseAssumption
<1>4. BP!Next
  BY <1>1 DEF BP!Next
<1>5. BP!IdleServesNothing'
  BY <1>1, <1>4, BAssumed, BP!IdleKept DEF BP!ResponseAssumption, BInv
<1>6. req'[r].pc # "idle"
  BY <1>1, BAssumed, BP!NextPlace DEF BP!ResponseAssumption
<1>7. \A q \in Requests :
        req'[q].op = req[q].op /\ req'[q].id = req[q].id /\ req'[q].det = req[q].det
  BY <1>3 DEF BP!Same
<1>8. OnlyCorrelations'
  BY <1>3, <1>6, <1>7 DEF BInv, OnlyCorrelations, BP!Same
<1>9. Attempts' = Attempts /\ BKeeps
  BY <1>3, <1>7 DEF Attempts, BKeeps, BP!Same
<1>10. ASSUME NEW a \in AnomalyIds, Stored(a)'  PROVE Origin(a)'
  <2>1. CASE Stored(a)
    <3>1. BP!Evolves(a)
      BY <1>1, <1>4, <2>1, SameStored, BAssumed, BP!NextEvolves DEF BP!ResponseAssumption
    <3>2. PICK q \in Attempts : req[q].id = a /\ req[q].det = anomalies[a].det
      BY <2>1 DEF BInv, Origin
    <3>3. q \in Attempts' /\ req'[q].id = a /\ req'[q].det = anomalies'[a].det
      BY <1>7, <1>9, <3>1, <3>2 DEF BP!Evolves, Attempts
    <3> QED BY <3>3 DEF Origin
  <2>2. CASE ~Stored(a)
    <3>1. BP!InsertAnomaly(r) /\ req[r].id = a
      <4>1. BP!InsertAnomaly(r) \/ BP!UpdateStatus(r) \/ BP!SaveNarrative(r)
        BY <1>1, <1>10, <2>2, BAssumed, BP!Writers DEF BP!ResponseAssumption, Stored
      <4>2. req[r].pc \in {"update_status", "save_narrative"}
              => req[r].op \notin {"none", "correlate"}
        BY <1>1 DEF BP!IInv, BP!Sound, BP!ReviewOps
      <4>3. BP!InsertAnomaly(r)
        BY <4>1, <4>2 DEF BP!UpdateStatus, BP!SaveNarrative, BInv, OnlyCorrelations
      <4> QED BY <1>1, <1>10, <2>2, <4>3 DEF BP!InsertAnomaly, BP!IInv, BP!TypeOK, Stored
    <3>2. anomalies'[a].det = req[r].det
      BY <1>1, <1>10, <2>2, <3>1 DEF BP!InsertAnomaly, BP!IInv, BP!TypeOK, Stored
    <3>3. r \in Attempts
      BY <3>1 DEF BP!InsertAnomaly, BInv, OnlyCorrelations, Attempts
    <3> QED BY <1>7, <1>9, <3>1, <3>2, <3>3 DEF Origin
  <2> QED BY <2>1, <2>2
<1>11. (B!TypeOK)'
  BY <1>2, SameTypes, PTL DEF BP!IInv
<1> QED BY <1>2, <1>5, <1>8, <1>9, <1>10, <1>11 DEF BInv

\* B is sent a detection.
LEMMA BCorrelateKeeps ==
  ASSUME BInv, NEW r \in Requests, NEW d \in Detections, req[r].pc = "idle", B!Correlate(r, d)
  PROVE  /\ BInv' /\ BKeeps /\ (B!TypeOK)'
         /\ r \notin Attempts /\ Attempts' = Attempts \union {r} /\ req'[r].det = d
         /\ UNCHANGED <<anomalies, attributions, audit, soar, edges>>
<1>1. BP!Correlate(r, d) /\ BP!IInv
  BY SameCorrelate DEF BInv
<1>2. BP!IInv'
  BY <1>1, BAssumed, BP!CorrelateKeeps DEF BP!ResponseAssumption
<1>3. PICK x : req' = [req EXCEPT ![r] = x] /\ x.op = "correlate" /\ x.det = d /\ x.pc # "idle"
  <2>1. CASE d.attack = "BENIGN"
    <3> DEFINE x == [BP!Idle EXCEPT !.op = "correlate", !.det = d, !.pc = "done", !.code = 200]
    <3>1. req' = [req EXCEPT ![r] = x]
      BY <1>1, <2>1 DEF BP!Correlate
    <3>2. x.op = "correlate" /\ x.det = d /\ x.pc # "idle"
      BY DEF BP!Idle
    <3> HIDE DEF x
    <3> QED BY <3>1, <3>2
  <2>2. CASE d.attack # "BENIGN"
    <3>1. PICK a \in AnomalyIds, g \in BP!GraphAnswers :
             req' = [req EXCEPT ![r] =
                  [BP!Idle EXCEPT !.op = "correlate", !.det = d, !.id = a, !.graph = g,
                     !.pc  = "insert_anomaly",
                     !.dec = BP!DecisionFor(d.attack, d.confidence,
                                            BP!CorrelateTechnique(d.attack), g)]]
      BY <1>1, <2>2 DEF BP!Correlate
    <3>2. PICK dec :
            dec = BP!DecisionFor(d.attack, d.confidence, BP!CorrelateTechnique(d.attack), g)
      OBVIOUS
    <3> DEFINE x == [BP!Idle EXCEPT !.op = "correlate", !.det = d, !.id = a, !.graph = g,
                       !.pc = "insert_anomaly", !.dec = dec]
    <3>3. req' = [req EXCEPT ![r] = x]
      BY <3>1, <3>2
    <3>4. x.op = "correlate" /\ x.det = d /\ x.pc # "idle"
      BY DEF BP!Idle
    <3> HIDE DEF x
    <3> QED BY <3>3, <3>4
  <2> QED BY <2>1, <2>2
<1>4. req \in [Requests -> BP!RequestState]
  BY <1>1 DEF BP!IInv, BP!TypeOK
<1>5. /\ req'[r].op = "correlate" /\ req'[r].det = d /\ req'[r].pc # "idle"
      /\ \A q \in Requests \ {r} : req'[q] = req[q]
  BY <1>3, <1>4
<1>6. UNCHANGED <<anomalies, attributions, audit, soar, edges>>
  BY <1>1 DEF BP!Correlate, BP!tables
<1>7. r \notin Attempts
  BY IdleNotAttempt
<1>8. Attempts' = Attempts \union {r} /\ BKeeps
  BY <1>5, <1>7 DEF Attempts, BKeeps
<1>9. BP!IdleServesNothing' /\ OnlyCorrelations'
  BY <1>5 DEF BInv, BP!IdleServesNothing, OnlyCorrelations
<1>10. ASSUME NEW a \in AnomalyIds, Stored(a)'  PROVE Origin(a)'
  BY <1>6, <1>8, <1>10 DEF BInv, Stored, Origin, BKeeps
<1>11. (B!TypeOK)'
  BY <1>2, SameTypes, PTL DEF BP!IInv
<1> QED BY <1>2, <1>5, <1>6, <1>7, <1>8, <1>9, <1>10, <1>11 DEF BInv

LEMMA BInit == ASSUME B!Init PROVE BInv /\ B!TypeOK /\ Attempts = {}
<1>1. BP!Init
  BY SameInit
<1>2. BP!IInv
  BY <1>1, BAssumed, BP!InitIInv DEF BP!ResponseAssumption
<1>3. \A r \in Requests : req[r].op = "none" /\ req[r].pc = "idle"
  BY <1>1 DEF BP!Init, BP!Idle
<1>4. \A a \in AnomalyIds : ~Stored(a)
  BY <1>1 DEF BP!Init, Stored
<1>5. B!TypeOK
  BY <1>2, SameTypes DEF BP!IInv
<1> QED BY <1>2, <1>3, <1>4, <1>5 DEF BInv, BP!IdleServesNothing, OnlyCorrelations, Attempts

---------------------------------------------------------------------------
(* The inductive invariant: the ingests.                                   *)

\* An ingest that hands a detection on, or has.
Handed(i) == ing[i].pc = "forward" \/ ing[i].call # None

\* What is handed on is aligned with a row, which has a detection too.
Handing(g) ==
  /\ g.sid \in SignalIds
  /\ \E s \in signals : s.sid = g.sid /\ (g.det # None => s.det # None)
  /\ g.det # None => g.det.signal = g.sid

\* The request of B an ingest waits for, or waited for, is about its detection.
Calling(g) ==
  /\ g.call \in Attempts /\ g.det # None /\ req[g.call].det = g.det
  /\ ForwardEnabled

IngestSound(i) ==
  LET g == ing[i]
  IN  /\ g.pc = "idle" => g.det = None
      /\ g.pc \in {"idle", "enqueue"} => g.call = None /\ g.fwd = "none"
      /\ g.pc \in {"forward", "waiting"} => g.fwd = "none"
      /\ g.pc = "forward" => g.call = None
      /\ g.pc = "waiting" => g.call # None
      /\ Handed(i) => Handing(g)
      /\ g.call # None => Calling(g)
      /\ g.fwd # "none" => g.code = 200 /\ Handing(g)
      /\ g.fwd = "ok" => /\ g.call # None
                         /\ req[g.call].pc = "done" /\ req[g.call].code = 200
                         /\ req[g.call].id # None

\* A row is handed on by one ingest, and a request of B serves one ingest.
HandoffsDiffer ==
  \A i, j \in Ingests : i # j /\ Handed(i) /\ Handed(j) => ing[i].sid # ing[j].sid

CallsDiffer ==
  \A i, j \in Ingests : i # j /\ ing[i].call # None => ing[i].call # ing[j].call

IngestInv == (\A i \in Ingests : IngestSound(i)) /\ HandoffsDiffer /\ CallsDiffer

\* Without the bridge every request of B serves an ingest.
HandoffsOnly == \A r \in Attempts : \E i \in Ingests : ing[i].call = r

---------------------------------------------------------------------------
(* The inductive invariant: the names of rows.                             *)

\* The ids a row is known by: its own, and that of the detection stored with
\* it, which differs when each was minted on its own.
Names(s) == {s.sid} \union (IF s.det = None THEN {} ELSE {s.det.signal})

RowSound(s) == s.det # None => s.det.signal = s.sid \/ {s.sid, s.det.signal} \subseteq MintedIds

NamesApart == \A s, t \in signals : s # t => Names(s) \intersect Names(t) = {}

\* A detection scored under an id of its own, which no row has yet.
Minted(i) == ing[i].pc = "enqueue" /\ ing[i].sid = None /\ ing[i].det # None

PendingSound(i) ==
  /\ ing[i].pc = "enqueue" /\ ing[i].sid # None =>
       /\ ing[i].sid \in ClientIds
       /\ ing[i].det # None => ing[i].det.signal = ing[i].sid
  /\ Minted(i) =>
       /\ ing[i].det.signal \in MintedIds
       /\ \A s \in signals : ing[i].det.signal \notin Names(s)
       /\ \A j \in Ingests \ {i} : Minted(j) => ing[j].det.signal # ing[i].det.signal

NamesInv ==
  /\ \A s \in signals : RowSound(s)
  /\ NamesApart
  /\ \A i \in Ingests : PendingSound(i)

\* What the bridge is to send, and what was sent to B, comes from a row.
SentAreStored ==
  /\ \A f \in Backfills : \A d \in fill[f].todo : \E s \in signals : s.det = d
  /\ \A r \in Attempts : \E s \in signals : s.det # None /\ req[r].det.signal \in Names(s)

---------------------------------------------------------------------------
(* The inductive invariant: what a row costs B.                            *)

AttemptsAt(s) == {r \in Attempts : req[r].det.signal \in Names(s)}
Active == {f \in Backfills : fill[f].pc # "idle"}
HandedOn(s) == \A i \in Ingests : ing[i].pc = "forward" => ing[i].sid # s.sid

\* Each correlation of a row is charged to the handoff, which is None here, or to a run of
\* the bridge, and none of them twice: the handoff is over, and the run has no
\* more to send of this row.
Charged(s, g) ==
  /\ g \in [AttemptsAt(s) -> Backfills \union {None}]
  /\ \A q, r \in AttemptsAt(s) : g[q] = g[r] => q = r
  /\ \A r \in AttemptsAt(s) :
       IF g[r] = None THEN ForwardEnabled /\ HandedOn(s)
                      ELSE g[r] \in Active /\ s.det \notin fill[g[r]].todo

Chargeable(s) == \E g \in [AttemptsAt(s) -> Backfills \union {None}] : Charged(s, g)

ChargeInv == \A s \in signals : s.det # None => Chargeable(s)

IInv ==
  /\ TypeOK /\ BInv
  /\ IngestInv /\ NamesInv /\ SentAreStored /\ ChargeInv
  /\ Backfills = {} => HandoffsOnly

---------------------------------------------------------------------------
(* What a step leaves alone.                                               *)

Elsewhere(i) == \A j \in Ingests \ {i} : ing'[j] = ing[j]

LEMMA NoneIsNothing ==
  None \notin SignalIds /\ None \notin Detections /\ None \notin Requests /\ None \notin Backfills
BY PipelineAssumption

\* An ingest that a step does not touch stays sound, whatever B does and
\* whichever rows come.
LEMMA StaysSound ==
  ASSUME BKeeps, signals \subseteq signals', NEW j \in Ingests, IngestSound(j), ing'[j] = ing[j]
  PROVE  IngestSound(j)'
<1> DEFINE g == ing[j]
<1>1. Handing(g) => Handing(g)'
  BY DEF Handing
<1>2. g.call # None => req'[g.call].det = req[g.call].det /\ g.call \in Attempts'
  BY DEF IngestSound, Calling, BKeeps
<1>3. g.call # None => Calling(g)'
  BY <1>2 DEF IngestSound, Calling
<1>4. g.fwd = "ok" => req'[g.call] = req[g.call]
  BY DEF IngestSound, Calling, BKeeps
<1> QED BY <1>1, <1>3, <1>4 DEF IngestSound, Handed

LEMMA IngestsStay ==
  ASSUME IngestInv, BKeeps, signals \subseteq signals', UNCHANGED ing
  PROVE  IngestInv'
<1>1. \A i \in Ingests : IngestSound(i)'
  BY StaysSound DEF IngestInv
<1>2. HandoffsDiffer' /\ CallsDiffer'
  BY DEF IngestInv, HandoffsDiffer, CallsDiffer, Handed
<1> QED BY <1>1, <1>2 DEF IngestInv

\* One ingest moves.
LEMMA IngestMoves ==
  ASSUME IngestInv, BKeeps, signals \subseteq signals', NEW i \in Ingests, Elsewhere(i),
         IngestSound(i)',
         \A j \in Ingests \ {i} : Handed(i)' /\ Handed(j) => ing'[i].sid # ing[j].sid,
         \A j \in Ingests \ {i} : ing'[i].call # None => ing'[i].call # ing[j].call
  PROVE  IngestInv'
<1>1. \A j \in Ingests : IngestSound(j)'
  BY StaysSound DEF IngestInv, Elsewhere
<1>2. \A j \in Ingests \ {i} : Handed(j)' <=> Handed(j)
  BY DEF Handed, Elsewhere
<1>3. HandoffsDiffer'
  BY <1>2 DEF IngestInv, HandoffsDiffer, Elsewhere
<1>4. CallsDiffer'
  BY DEF IngestInv, CallsDiffer, Elsewhere
<1> QED BY <1>1, <1>3, <1>4 DEF IngestInv

LEMMA NamesStay ==
  ASSUME NamesInv, UNCHANGED signals,
         \A i \in Ingests : ing'[i].pc = "enqueue" => ing'[i] = ing[i]
  PROVE  NamesInv'
<1>1. \A i \in Ingests : Minted(i)' => Minted(i) /\ ing'[i] = ing[i]
  BY DEF Minted
<1>2. \A i \in Ingests : PendingSound(i)'
  BY <1>1 DEF NamesInv, PendingSound
<1> QED BY <1>2 DEF NamesInv, NamesApart

LEMMA SentStay ==
  ASSUME SentAreStored, BKeeps, Attempts' = Attempts, signals \subseteq signals',
         \A f \in Backfills : fill'[f].todo \subseteq fill[f].todo
  PROVE  SentAreStored'
BY DEF SentAreStored, BKeeps

\* The charges of a row stand.
LEMMA StaysCharged ==
  ASSUME NEW s, Chargeable(s), AttemptsAt(s)' = AttemptsAt(s), HandedOn(s) => HandedOn(s)',
         \A f \in Active : f \in Active' /\ fill'[f].todo \subseteq fill[f].todo
  PROVE  Chargeable(s)'
<1>1. PICK g \in [AttemptsAt(s) -> Backfills \union {None}] : Charged(s, g)
  BY DEF Chargeable
<1>2. Charged(s, g)'
  BY <1>1 DEF Charged
<1> QED BY <1>1, <1>2 DEF Chargeable

LEMMA SameAttempts ==
  ASSUME BKeeps, Attempts' = Attempts
  PROVE  \A s : AttemptsAt(s)' = AttemptsAt(s)
BY DEF BKeeps, AttemptsAt

LEMMA HandoffsStay ==
  ASSUME HandoffsOnly, Attempts' = Attempts, \A i \in Ingests : ing'[i].call = ing[i].call
  PROVE  HandoffsOnly'
BY DEF HandoffsOnly

---------------------------------------------------------------------------
(* The ingests.                                                            *)

\* An ingest moves on, keeping what it carries, and starts no handoff.
LEMMA IngestGoesOn ==
  ASSUME IInv, NEW i \in Ingests, BRests, UNCHANGED <<signals, fill>>, Elsewhere(i),
         ing' \in [Ingests -> IngestState], IngestSound(i)',
         ing'[i].pc \notin {"enqueue", "forward"}, ing'[i].call = ing[i].call,
         ing[i].call # None => ing'[i].sid = ing[i].sid
  PROVE  IInv'
<1>1. BInv' /\ BKeeps /\ Attempts' = Attempts /\ (B!TypeOK)'
  BY BRestKeeps DEF IInv
<1>2. TypeOK'
  BY <1>1 DEF IInv, TypeOK
<1>3. IngestInv'
  <2>1. Handed(i)' => ing[i].call # None
    BY DEF Handed
  <2>2. \A j \in Ingests \ {i} : Handed(i)' /\ Handed(j) => ing'[i].sid # ing[j].sid
    BY <2>1 DEF IInv, IngestInv, HandoffsDiffer, Handed
  <2>3. \A j \in Ingests \ {i} : ing'[i].call # None => ing'[i].call # ing[j].call
    BY DEF IInv, IngestInv, CallsDiffer
  <2> QED BY <1>1, <2>2, <2>3, IngestMoves DEF IInv
<1>4. NamesInv'
  BY NamesStay DEF IInv, Elsewhere
<1>5. SentAreStored'
  BY <1>1, SentStay DEF IInv
<1>6. \A j \in Ingests : ing'[j].pc = "forward" => ing'[j] = ing[j]
  BY DEF Elsewhere
<1>7. ChargeInv'
  <2>1. \A s : HandedOn(s) => HandedOn(s)'
    BY <1>6 DEF HandedOn
  <2> QED BY <1>1, <2>1, SameAttempts, StaysCharged DEF IInv, ChargeInv, Active
<1>8. Backfills = {} => HandoffsOnly'
  BY <1>1, HandoffsStay DEF IInv, Elsewhere
<1> QED BY <1>1, <1>2, <1>3, <1>4, <1>5, <1>7, <1>8 DEF IInv

\* The types of the fields, each under a name of its own.
IngestPcs == {"idle", "enqueue", "forward", "waiting", "answered", "crashed"}
Handoffs  == {"none", "skipped", "error", "ok"}
Codes     == {0, 200, 400, 500}

LEMMA IngestType ==
  IngestState = [pc : IngestPcs, sid : SignalIds \union {None}, det : Detections \union {None},
                 call : Requests \union {None}, fwd : Handoffs, code : Codes]
BY DEF IngestState, IngestPcs, Handoffs, Codes

LEMMA IngestValues ==
  /\ "enqueue" \in IngestPcs /\ "forward" \in IngestPcs /\ "waiting" \in IngestPcs
  /\ "answered" \in IngestPcs
  /\ 200 \in Codes /\ 400 \in Codes /\ 500 \in Codes
BY DEF IngestPcs, Codes

LEMMA IngestBecomes ==
  ASSUME TypeOK, NEW i \in Ingests, NEW x \in IngestState, ing' = [ing EXCEPT ![i] = x]
  PROVE  ing' \in [Ingests -> IngestState] /\ Elsewhere(i) /\ ing'[i] = x
BY DEF TypeOK, Elsewhere

\* Fields of an answered ingest.
LEMMA ReturnFields ==
  ASSUME TypeOK, NEW i \in Ingests, NEW code \in Codes,
         NEW fwd \in Handoffs, Return(i, code, fwd)
  PROVE  /\ ing' \in [Ingests -> IngestState] /\ Elsewhere(i)
         /\ ing'[i].pc = "answered" /\ ing'[i].code = code /\ ing'[i].fwd = fwd
         /\ ing'[i].sid = ing[i].sid /\ ing'[i].det = ing[i].det /\ ing'[i].call = ing[i].call
<1> DEFINE x == [ing[i] EXCEPT !.pc = "answered", !.code = code, !.fwd = fwd]
<1>1. ing[i] \in IngestState
  BY DEF TypeOK
<1>2. x \in IngestState
  BY <1>1, IngestType, IngestValues
<1>3. /\ x.pc = "answered" /\ x.code = code /\ x.fwd = fwd
      /\ x.sid = ing[i].sid /\ x.det = ing[i].det /\ x.call = ing[i].call
  BY <1>1, IngestType
<1>4. ing' = [ing EXCEPT ![i] = x]
  BY ZenonT(60) DEF Return
<1> HIDE DEF x
<1> QED BY <1>2, <1>3, <1>4, IngestBecomes

\* An ingest that has a row is answered 200.
LEMMA ReturnKeeps ==
  ASSUME IInv, NEW i \in Ingests, NEW fwd \in {"skipped", "error", "ok"}, Return(i, 200, fwd),
         BRests, UNCHANGED <<signals, fill>>, ing[i].pc \in {"forward", "waiting"},
         fwd = "ok" => /\ ing[i].call # None /\ req[ing[i].call].pc = "done"
                       /\ req[ing[i].call].code = 200 /\ req[ing[i].call].id # None
  PROVE  IInv'
<1>1. /\ ing' \in [Ingests -> IngestState] /\ Elsewhere(i)
      /\ ing'[i].pc = "answered" /\ ing'[i].code = 200 /\ ing'[i].fwd = fwd
      /\ ing'[i].sid = ing[i].sid /\ ing'[i].det = ing[i].det /\ ing'[i].call = ing[i].call
  BY ReturnFields DEF IInv, Handoffs, Codes
<1>2. BKeeps
  BY BRestKeeps DEF IInv
<1>3. IngestSound(i)
  BY DEF IInv, IngestInv
<1>4. Handing(ing[i]) /\ (ing[i].call # None => Calling(ing[i]))
  BY <1>3 DEF IngestSound, Handed
<1>5. Handing(ing[i])'
  BY <1>1, <1>4 DEF Handing
<1>6. ing[i].call # None => Calling(ing[i])'
  BY <1>1, <1>2, <1>4 DEF Calling, BKeeps
<1>7. fwd = "ok" => req'[ing[i].call] = req[ing[i].call]
  BY <1>2, <1>4 DEF Calling, BKeeps
<1>8. IngestSound(i)'
  BY <1>1, <1>5, <1>6, <1>7 DEF IngestSound, Handed
<1> QED BY <1>1, <1>8, IngestGoesOn

LEMMA ForwardSkippedKeeps ==
  ASSUME IInv, NEW i \in Ingests, ForwardSkipped(i)
  PROVE  IInv'
BY ReturnKeeps DEF ForwardSkipped, BRests

LEMMA ForwardErrorKeeps ==
  ASSUME IInv, NEW i \in Ingests, ForwardError(i)
  PROVE  IInv'
BY ReturnKeeps DEF ForwardError, BRests

LEMMA ForwardReplyKeeps ==
  ASSUME IInv, NEW i \in Ingests, ForwardReply(i)
  PROVE  IInv'
<1>1. ing[i].call # None
  BY DEF IInv, IngestInv, IngestSound, ForwardReply
<1>2. ReplyOf(ing[i].call) \in {"skipped", "error", "ok"}
  BY DEF ReplyOf
<1>3. ReplyOf(ing[i].call) = "ok" => req[ing[i].call].code = 200 /\ req[ing[i].call].id # None
  BY DEF ReplyOf
<1> QED BY <1>1, <1>2, <1>3, ReturnKeeps DEF ForwardReply, BRests

LEMMA IngestCrashKeeps ==
  ASSUME IInv, NEW i \in Ingests, IngestCrash(i)
  PROVE  IInv'
<1>1. ing[i] \in IngestState
  BY DEF IInv, TypeOK
<1>2. /\ ing' \in [Ingests -> IngestState] /\ Elsewhere(i)
      /\ ing'[i].pc = "crashed" /\ ing'[i].code = ing[i].code /\ ing'[i].fwd = ing[i].fwd
      /\ ing'[i].sid = ing[i].sid /\ ing'[i].det = ing[i].det /\ ing'[i].call = ing[i].call
  BY DEF IInv, TypeOK, IngestState, IngestCrash, Elsewhere
<1>3. BRests
  BY DEF IngestCrash, BRests
<1>4. BKeeps
  BY <1>3, BRestKeeps DEF IInv
<1>5. IngestSound(i) /\ ing[i].fwd = "none"
  BY DEF IInv, IngestInv, IngestSound, IngestCrash
<1>6. ing[i].call # None => Handing(ing[i])' /\ Calling(ing[i])'
  BY <1>2, <1>4, <1>5 DEF IngestSound, Handed, Handing, Calling, BKeeps, IngestCrash
<1>7. IngestSound(i)'
  BY <1>2, <1>5, <1>6 DEF IngestSound, Handed
<1> QED BY <1>2, <1>3, <1>7, IngestGoesOn DEF IngestCrash

\* Scoring: refused, or the request goes on to its row.
LEMMA ScoreRefusedKeeps ==
  ASSUME IInv, NEW i \in Ingests, NEW sid \in ClientIds \union {None},
         ing[i].pc = "idle", BRests, UNCHANGED <<signals, fill>>,
         ing' = [ing EXCEPT ![i].pc = "answered", ![i].code = 400, ![i].sid = sid]
  PROVE  IInv'
<1>1. sid \in SignalIds \union {None}
  BY DEF SignalIds
<1>2. /\ ing' \in [Ingests -> IngestState] /\ Elsewhere(i)
      /\ ing'[i].pc = "answered" /\ ing'[i].fwd = ing[i].fwd /\ ing'[i].call = ing[i].call
  <2> DEFINE x == [ing[i] EXCEPT !.pc = "answered", !.code = 400, !.sid = sid]
  <2>1. ing[i] \in IngestState
    BY DEF IInv, TypeOK
  <2>2. x \in IngestState
    <3>1. "answered" \in IngestPcs /\ 400 \in Codes
      BY IngestValues
    <3>2. SUFFICES ASSUME NEW pc \in IngestPcs, NEW code \in Codes
                   PROVE  [ing[i] EXCEPT !.pc = pc, !.code = code, !.sid = sid] \in IngestState
      BY <3>1
    <3> QED BY ZenonT(60), <1>1, <2>1, IngestType
  <2>3. x.pc = "answered" /\ x.fwd = ing[i].fwd /\ x.call = ing[i].call
    BY <2>1, IngestType
  <2>4. ing' = [ing EXCEPT ![i] = x]
    BY ZenonT(60)
  <2> HIDE DEF x
  <2>5. ing' \in [Ingests -> IngestState] /\ Elsewhere(i) /\ ing'[i] = x
    BY <2>2, <2>4, IngestBecomes DEF IInv
  <2> QED BY <2>3, <2>5
<1>3. ing[i].fwd = "none" /\ ing[i].call = None
  BY DEF IInv, IngestInv, IngestSound
<1>4. IngestSound(i)'
  BY <1>2, <1>3 DEF IngestSound, Handed
<1> QED BY <1>2, <1>3, <1>4, IngestGoesOn

LEMMA UnmintedNames ==
  ASSUME NEW m \in Unminted
  PROVE  /\ m \in MintedIds
         /\ \A s \in signals : m \notin Names(s)
         /\ \A j \in Ingests : ing[j].det # None => ing[j].det.signal # m
         /\ m \notin StoredIds
BY DEF Unminted, StoredIds, Scored, Names

LEMMA ScoredKeeps ==
  ASSUME IInv, NEW i \in Ingests, ing[i].pc = "idle", BRests, UNCHANGED <<signals, fill>>,
         NEW sid \in ClientIds \union {None}, NEW det \in Detections \union {None},
         det # None => det.signal \in IdFor(sid),
         Elsewhere(i), ing' \in [Ingests -> IngestState],
         /\ ing'[i].pc = "enqueue" /\ ing'[i].sid = sid /\ ing'[i].det = det
         /\ ing'[i].fwd = ing[i].fwd /\ ing'[i].call = ing[i].call
  PROVE  IInv'
<1>1. BInv' /\ BKeeps /\ Attempts' = Attempts /\ (B!TypeOK)'
  BY BRestKeeps DEF IInv
<1>2. TypeOK'
  BY <1>1 DEF IInv, TypeOK
<1>3. ing[i].fwd = "none" /\ ing[i].call = None
  BY DEF IInv, IngestInv, IngestSound
<1>4. IngestSound(i)' /\ ~Handed(i)'
  BY <1>3 DEF IngestSound, Handed
<1>5. IngestInv'
  BY <1>1, <1>3, <1>4, IngestMoves DEF IInv
<1>6. NamesInv'
  <2>1. ASSUME det # None, sid = None
        PROVE  /\ det.signal \in MintedIds
               /\ \A s \in signals : det.signal \notin Names(s)
               /\ \A j \in Ingests : ing[j].det # None => ing[j].det.signal # det.signal
    BY <2>1, UnmintedNames DEF IdFor
  <2>2. \A j \in Ingests \ {i} : Minted(j)' => Minted(j) /\ ing'[j] = ing[j]
    BY DEF Minted, Elsewhere
  <2>3. PendingSound(i)'
    <3>1. sid # None => sid \in ClientIds /\ (det # None => det.signal = sid)
      BY DEF IdFor
    <3>2. ASSUME Minted(i)'
          PROVE  /\ det.signal \in MintedIds
                 /\ \A s \in signals : det.signal \notin Names(s)
                 /\ \A j \in Ingests \ {i} : Minted(j)' => ing'[j].det.signal # det.signal
      BY <2>1, <2>2, <3>2 DEF Minted
    <3> QED BY <3>1, <3>2 DEF PendingSound
  <2>4. ASSUME NEW j \in Ingests \ {i}  PROVE PendingSound(j)'
    <3>1. PendingSound(j)
      BY DEF IInv, NamesInv
    <3>2. Minted(i)' /\ Minted(j) => ing'[i].det.signal # ing[j].det.signal
      BY <2>1 DEF Minted
    <3> QED BY <2>2, <3>1, <3>2 DEF PendingSound, Elsewhere
  <2> QED BY <2>3, <2>4 DEF IInv, NamesInv, NamesApart
<1>7. SentAreStored'
  BY <1>1, SentStay DEF IInv
<1>8. \A j \in Ingests : ing'[j].pc = "forward" => ing'[j] = ing[j]
  BY DEF Elsewhere
<1>9. ChargeInv'
  <2>1. \A s : HandedOn(s) => HandedOn(s)'
    BY <1>8 DEF HandedOn
  <2> QED BY <1>1, <2>1, SameAttempts, StaysCharged DEF IInv, ChargeInv, Active
<1>10. Backfills = {} => HandoffsOnly'
  BY <1>1, HandoffsStay DEF IInv, Elsewhere
<1> QED BY <1>1, <1>2, <1>5, <1>6, <1>7, <1>9, <1>10 DEF IInv

LEMMA ScoreKeeps ==
  ASSUME IInv, NEW i \in Ingests, Score(i)
  PROVE  IInv'
<1>1. PICK sid \in ClientIds \union {None} :
        \/ ing' = [ing EXCEPT ![i].pc = "answered", ![i].code = 400, ![i].sid = sid]
        \/ ing' = [ing EXCEPT ![i].pc = "enqueue", ![i].sid = sid]
        \/ \E k \in Kinds, m \in IdFor(sid) :
             ing' = [ing EXCEPT ![i].pc = "enqueue", ![i].sid = sid, ![i].det = Detect(m, k)]
  BY DEF Score
<1>2. ing[i].pc = "idle" /\ BRests /\ UNCHANGED <<signals, fill>>
  BY DEF Score, BRests
<1>3. sid \in SignalIds \union {None} /\ IdFor(sid) \subseteq SignalIds
  BY DEF SignalIds, IdFor, Unminted
<1>4. CASE ing' = [ing EXCEPT ![i].pc = "answered", ![i].code = 400, ![i].sid = sid]
  BY <1>2, <1>4, ScoreRefusedKeeps
<1>5. CASE ing' = [ing EXCEPT ![i].pc = "enqueue", ![i].sid = sid]
  <2> DEFINE x == [ing[i] EXCEPT !.pc = "enqueue", !.sid = sid]
  <2>1. ing[i] \in IngestState /\ ing[i].det = None
    BY <1>2 DEF IInv, TypeOK, IngestInv, IngestSound
  <2>2. x \in IngestState
    BY <1>3, <2>1, IngestType, IngestValues
  <2>3. /\ x.pc = "enqueue" /\ x.sid = sid /\ x.det = None
        /\ x.fwd = ing[i].fwd /\ x.call = ing[i].call
    BY <2>1, IngestType
  <2>4. ing' = [ing EXCEPT ![i] = x]
    BY <1>5
  <2> HIDE DEF x
  <2>5. ing' \in [Ingests -> IngestState] /\ Elsewhere(i) /\ ing'[i] = x
    BY <2>2, <2>4, IngestBecomes DEF IInv
  <2> QED BY <1>2, <2>3, <2>5, ScoredKeeps
<1>6. ASSUME NEW k \in Kinds, NEW m \in IdFor(sid),
             ing' = [ing EXCEPT ![i].pc = "enqueue", ![i].sid = sid, ![i].det = Detect(m, k)]
      PROVE  IInv'
  <2>1. Detect(m, k) \in Detections /\ Detect(m, k).signal = m
    BY <1>3 DEF Detect, Detections
  <2> DEFINE x == [ing[i] EXCEPT !.pc = "enqueue", !.sid = sid, !.det = Detect(m, k)]
  <2>2. ing[i] \in IngestState
    BY DEF IInv, TypeOK
  <2>3. x \in IngestState
    BY <1>3, <2>1, <2>2, IngestType, IngestValues
  <2>4. /\ x.pc = "enqueue" /\ x.sid = sid /\ x.det = Detect(m, k)
        /\ x.fwd = ing[i].fwd /\ x.call = ing[i].call
    BY <2>2, IngestType
  <2>5. ing' = [ing EXCEPT ![i] = x]
    BY <1>6
  <2> HIDE DEF x
  <2>6. ing' \in [Ingests -> IngestState] /\ Elsewhere(i) /\ ing'[i] = x
    BY <2>3, <2>5, IngestBecomes DEF IInv
  <2> QED BY <1>2, <2>1, <2>4, <2>6, ScoredKeeps
<1> QED BY <1>1, <1>4, <1>5, <1>6

---------------------------------------------------------------------------
(* A row is stored.                                                        *)

Row(sid, det) == [sid |-> sid, det |-> det]

\* An id that no row has makes a row whose names no row has, nor a detection
\* that waits for its own row.
LEMMA RowIsNew ==
  ASSUME IInv, NEW i \in Ingests, ing[i].pc = "enqueue", NEW sid \in IdFor(ing[i].sid),
         UniqueId(sid)
  PROVE  LET s == Row(sid, ing[i].det)
         IN  /\ RowSound(s)
             /\ \A t \in signals : Names(s) \intersect Names(t) = {}
             /\ \A j \in Ingests \ {i} : Minted(j) => ing[j].det.signal \notin Names(s)
<1> DEFINE det == ing[i].det
           s == Row(sid, det)
<1>1. s.sid = sid /\ s.det = det
  BY DEF Row
<1>2. PendingSound(i) /\ \A j \in Ingests : PendingSound(j)
  BY DEF IInv, NamesInv
<1>3. \A t \in signals : t.sid # sid
  BY DEF UniqueId, StoredIds
<1>4. CASE ing[i].sid # None
  <2>1. sid = ing[i].sid /\ sid \in ClientIds \ MintedIds
    BY <1>2, <1>4, PipelineAssumption DEF IdFor, PendingSound
  <2>2. Names(s) = {sid} /\ RowSound(s)
    BY <1>1, <1>2, <1>4, <2>1 DEF PendingSound, Names, RowSound
  <2>3. ASSUME NEW t \in signals  PROVE sid \notin Names(t)
    BY <1>3, <2>1 DEF IInv, NamesInv, RowSound, Names
  <2>4. \A j \in Ingests : Minted(j) => ing[j].det.signal # sid
    BY <1>2, <2>1 DEF PendingSound
  <2> QED BY <2>2, <2>3, <2>4
<1>5. CASE ing[i].sid = None
  <2>1. sid \in Unminted
    BY <1>5 DEF IdFor
  <2>2. det # None => Minted(i)
    BY <1>5 DEF Minted
  <2>3. Names(s) = {sid} \union (IF det = None THEN {} ELSE {det.signal})
    BY <1>1 DEF Names
  <2>4. RowSound(s)
    BY <1>1, <1>2, <2>1, <2>2, UnmintedNames DEF RowSound, PendingSound
  <2>5. ASSUME NEW t \in signals
        PROVE  sid \notin Names(t) /\ (det # None => det.signal \notin Names(t))
    BY <1>2, <2>1, <2>2, UnmintedNames DEF PendingSound
  <2>6. ASSUME NEW j \in Ingests \ {i}, Minted(j)
        PROVE  ing[j].det.signal # sid /\ (det # None => ing[j].det.signal # det.signal)
    BY <1>2, <2>1, <2>2, <2>6, UnmintedNames DEF PendingSound, Minted
  <2> QED BY <2>3, <2>4, <2>5, <2>6
<1> QED BY <1>4, <1>5

LEMMA RowStoredKeeps ==
  ASSUME IInv, NEW i \in Ingests, ing[i].pc = "enqueue", NEW sid \in IdFor(ing[i].sid),
         UniqueId(sid), BRests, UNCHANGED fill,
         NEW det, det = ing[i].det, signals' = signals \union {Row(sid, det)},
         Elsewhere(i), ing' \in [Ingests -> IngestState],
         ing'[i].pc \in {"answered", "forward"}, ing'[i].call = None, ing'[i].fwd = "none",
         ing'[i].pc = "forward" => ing'[i].sid = sid /\ ing'[i].det = Aligned(det, sid)
  PROVE  IInv'
<1> DEFINE s == Row(sid, det)
<1>1. BInv' /\ BKeeps /\ Attempts' = Attempts /\ (B!TypeOK)'
  BY BRestKeeps DEF IInv
<1>2. sid \in SignalIds /\ det \in Detections \union {None}
  <2>1. sid \in SignalIds
    BY DEF IInv, TypeOK, IngestState, IdFor, Unminted, SignalIds
  <2> QED BY <2>1 DEF IInv, TypeOK, IngestState
<1>3. s.sid = sid /\ s.det = det /\ s \in [sid : SignalIds, det : Detections \union {None}]
  BY <1>2 DEF Row
<1>4. /\ RowSound(s)
      /\ \A t \in signals : Names(s) \intersect Names(t) = {}
      /\ \A j \in Ingests \ {i} : Minted(j) => ing[j].det.signal \notin Names(s)
  BY RowIsNew
<1>5. \A t \in signals : t.sid # sid
  BY DEF UniqueId, StoredIds
<1> HIDE DEF s
<1>6. TypeOK'
  BY <1>1, <1>3 DEF IInv, TypeOK, s
<1>7. IngestInv'
  <2>1. IngestSound(i)'
    <3>1. ASSUME ing'[i].pc = "forward"  PROVE Handing(ing[i])'
      <4>1. det # None => Aligned(det, sid).signal = sid
        BY <1>2 DEF Aligned, Detections
      <4>2. Aligned(det, sid) # None => det # None
        BY DEF Aligned
      <4>3. Aligned(det, sid) # None => Aligned(det, sid).signal = sid
        BY <4>1, <4>2
      <4> QED BY <1>2, <1>3, <3>1, <4>2, <4>3 DEF Handing, s
    <3> QED BY <3>1 DEF IngestSound, Handed
  <2>2. ASSUME NEW j \in Ingests \ {i}, Handed(i)', Handed(j)  PROVE ing'[i].sid # ing[j].sid
    <3>1. Handing(ing[j])
      BY <2>2 DEF IInv, IngestInv, IngestSound
    <3> QED BY <1>5, <2>2, <3>1 DEF Handed, Handing
  <2> QED BY <1>1, <2>1, <2>2, IngestMoves DEF IInv
<1>8. NamesInv'
  <2>1. \A j \in Ingests : Minted(j)' => j # i /\ Minted(j) /\ ing'[j] = ing[j]
    BY DEF Minted, Elsewhere
  <2>2. ASSUME NEW j \in Ingests  PROVE PendingSound(j)'
    <3>1. PendingSound(j)
      BY DEF IInv, NamesInv
    <3>2. ing'[j].pc = "enqueue" => j # i /\ ing'[j] = ing[j]
      BY DEF Elsewhere
    <3> QED BY <1>4, <2>1, <3>1, <3>2 DEF PendingSound, s
  <2>3. \A t \in signals' : RowSound(t)
    BY <1>4 DEF IInv, NamesInv, s
  <2>4. NamesApart'
    <3>1. \A t, u \in signals : t # u => Names(t) \intersect Names(u) = {}
      BY DEF IInv, NamesInv, NamesApart
    <3>2. \A t, u \in signals \union {s} : t # u => Names(t) \intersect Names(u) = {}
      BY <1>4, <3>1
    <3> QED BY <3>2 DEF NamesApart, s
  <2> QED BY <2>2, <2>3, <2>4 DEF NamesInv
<1>9. SentAreStored'
  BY <1>1, SentStay DEF IInv
<1>10. ChargeInv'
  <2>1. AttemptsAt(s)' = {}
    <3>1. \A r \in Attempts : req[r].det.signal \notin Names(s)
      BY <1>4 DEF IInv, SentAreStored
    <3> QED BY <1>1, <3>1, SameAttempts DEF AttemptsAt
  <2>2. Chargeable(s)'
    <3> DEFINE g == [r \in {} |-> None]
    <3>1. g \in [AttemptsAt(s)' -> Backfills \union {None}]
      BY <2>1
    <3>2. Charged(s, g)'
      BY <2>1, <3>1 DEF Charged
    <3> QED BY <3>1, <3>2 DEF Chargeable
  <2>3. ASSUME NEW t \in signals, t.det # None  PROVE Chargeable(t)'
    <3>1. HandedOn(t) => HandedOn(t)'
      BY <1>5 DEF HandedOn, Elsewhere
    <3>2. Chargeable(t)
      BY <2>3 DEF IInv, ChargeInv
    <3> QED BY <1>1, <3>1, <3>2, SameAttempts, StaysCharged DEF Active
  <2> QED BY <2>2, <2>3 DEF ChargeInv, s
<1>11. Backfills = {} => HandoffsOnly'
  <2>1. ing[i].call = None
    BY DEF IInv, IngestInv, IngestSound
  <2> QED BY <1>1, <2>1, HandoffsStay DEF IInv, Elsewhere
<1> QED BY <1>1, <1>6, <1>7, <1>8, <1>9, <1>10, <1>11 DEF IInv

LEMMA EnqueueKeeps ==
  ASSUME IInv, NEW i \in Ingests, Enqueue(i)
  PROVE  IInv'
<1>1. PICK sid \in IdFor(ing[i].sid), o \in B!WriteOutcomes :
        /\ B!CallCosts(o)
        /\ signals' = IF B!Applied(o) /\ UniqueId(sid)
                        THEN signals \union {Row(sid, ing[i].det)} ELSE signals
        /\ IF Acknowledged(o, sid)
             THEN ing' = [ing EXCEPT ![i].pc = "forward", ![i].sid = sid,
                                     ![i].det = Aligned(ing[i].det, sid)]
             ELSE Return(i, 500, "none")
  BY DEF Enqueue, Row
<1>2. ing[i].pc = "enqueue" /\ BRests /\ UNCHANGED fill
  BY <1>1 DEF Enqueue, BRests, B!CallCosts
<1>3. ing[i].call = None /\ ing[i].fwd = "none"
  BY <1>2 DEF IInv, IngestInv, IngestSound
<1>4. sid \in SignalIds
  BY DEF IInv, TypeOK, IngestState, IdFor, Unminted, SignalIds
<1>5. ASSUME Return(i, 500, "none")
      PROVE  /\ ing' \in [Ingests -> IngestState] /\ Elsewhere(i)
             /\ ing'[i].pc = "answered" /\ ing'[i].fwd = "none" /\ ing'[i].call = None
  BY <1>3, <1>5, ReturnFields, IngestValues DEF IInv, Handoffs
<1>6. CASE ~ UniqueId(sid) \/ ~ B!Applied(o)
  <2>1. UNCHANGED signals /\ Return(i, 500, "none")
    BY <1>1, <1>6 DEF Acknowledged, B!Applied
  <2>2. IngestSound(i)'
    BY <1>5, <2>1 DEF IngestSound, Handed
  <2> QED BY <1>2, <1>3, <1>5, <2>1, <2>2, IngestGoesOn
<1>7. CASE UniqueId(sid) /\ B!Applied(o) /\ ~ Acknowledged(o, sid)
  BY <1>1, <1>2, <1>5, <1>7, RowStoredKeeps
<1>8. CASE UniqueId(sid) /\ B!Applied(o) /\ Acknowledged(o, sid)
  <2> DEFINE x == [ing[i] EXCEPT !.pc = "forward", !.sid = sid, !.det = Aligned(ing[i].det, sid)]
  <2>1. ing[i] \in IngestState /\ ing[i].det \in Detections \union {None}
    BY DEF IInv, TypeOK, IngestState
  <2>2. Aligned(ing[i].det, sid) \in Detections \union {None}
    BY <1>4, <2>1 DEF Aligned, Detections
  <2>3. x \in IngestState
    BY <1>4, <2>1, <2>2, IngestType, IngestValues
  <2>4. /\ x.pc = "forward" /\ x.sid = sid /\ x.det = Aligned(ing[i].det, sid)
        /\ x.call = None /\ x.fwd = "none"
    BY <1>3, <2>1, IngestType
  <2>5. ing' = [ing EXCEPT ![i] = x]
    BY <1>1, <1>8
  <2> HIDE DEF x
  <2>6. ing' \in [Ingests -> IngestState] /\ Elsewhere(i) /\ ing'[i] = x
    BY <2>3, <2>5, IngestBecomes DEF IInv
  <2> QED BY <1>1, <1>2, <1>8, <2>4, <2>6, RowStoredKeeps
<1> QED BY <1>6, <1>7, <1>8

---------------------------------------------------------------------------
(* A detection is sent to B.                                               *)

\* A new correlation is one of the row that its detection names, and of no other.
LEMMA NewAttempt ==
  ASSUME IInv, NEW r \in Requests, NEW d, r \notin Attempts, Attempts' = Attempts \union {r},
         BKeeps, req'[r].det = d, NEW s \in signals, d.signal \in Names(s)
  PROVE  /\ AttemptsAt(s)' = AttemptsAt(s) \union {r}
         /\ \A t \in signals \ {s} : AttemptsAt(t)' = AttemptsAt(t)
<1>1. \A q \in Attempts : req'[q].det = req[q].det
  BY DEF BKeeps
<1>2. AttemptsAt(s)' = AttemptsAt(s) \union {r}
  BY <1>1 DEF AttemptsAt
<1>3. \A t \in signals \ {s} : d.signal \notin Names(t)
  BY DEF IInv, NamesInv, NamesApart
<1>4. \A t \in signals \ {s} : AttemptsAt(t)' = AttemptsAt(t)
  BY <1>1, <1>3 DEF AttemptsAt
<1> QED BY <1>2, <1>4

\* The new correlation can be charged to what has none of this row's yet.
LEMMA NewCharge ==
  ASSUME NEW s, NEW g \in [AttemptsAt(s) -> Backfills \union {None}], Charged(s, g),
         NEW r, r \notin AttemptsAt(s), AttemptsAt(s)' = AttemptsAt(s) \union {r},
         NEW x \in Backfills \union {None}, \A q \in AttemptsAt(s) : g[q] # x,
         IF x = None THEN ForwardEnabled /\ HandedOn(s)'
                     ELSE x \in Active' /\ s.det \notin fill'[x].todo,
         HandedOn(s) => HandedOn(s)',
         \A f \in Active : f \in Active' /\ fill'[f].todo \subseteq fill[f].todo
  PROVE  Chargeable(s)'
<1> DEFINE k == [q \in AttemptsAt(s) \union {r} |-> IF q = r THEN x ELSE g[q]]
<1>1. k \in [AttemptsAt(s)' -> Backfills \union {None}]
  OBVIOUS
<1>2. PICK h \in [AttemptsAt(s)' -> Backfills \union {None}] :
             h[r] = x /\ \A q \in AttemptsAt(s) : h[q] = g[q]
  BY <1>1
<1>3. \A p, q \in AttemptsAt(s) \union {r} : h[p] = h[q] => p = q
  BY <1>2 DEF Charged
<1>4. ASSUME NEW q \in AttemptsAt(s) \union {r}
      PROVE  IF h[q] = None THEN ForwardEnabled /\ HandedOn(s)'
                            ELSE h[q] \in Active' /\ s.det \notin fill'[h[q]].todo
  <2>1. CASE q = r
    BY <1>2, <2>1
  <2>2. CASE q # r
    BY <1>2, <2>2 DEF Charged
  <2> QED BY <2>1, <2>2
<1>5. Charged(s, h)'
  BY <1>3, <1>4 DEF Charged
<1> QED BY <1>5 DEF Chargeable

LEMMA ForwardPostKeeps ==
  ASSUME IInv, NEW i \in Ingests, ForwardPost(i)
  PROVE  IInv'
<1>1. PICK r \in Requests :
        /\ req[r].pc = "idle" /\ B!Correlate(r, ing[i].det)
        /\ ing' = [ing EXCEPT ![i].pc = "waiting", ![i].call = r]
  BY DEF ForwardPost
<1>2. ing[i].pc = "forward" /\ ~Skips(ing[i].det) /\ UNCHANGED <<signals, fill>>
  BY DEF ForwardPost
<1>3. ForwardEnabled /\ ing[i].det \in Detections
  BY <1>2, PipelineAssumption DEF IInv, TypeOK, IngestState, Skips, Replayable
<1>4. /\ BInv' /\ BKeeps /\ (B!TypeOK)'
      /\ r \notin Attempts /\ Attempts' = Attempts \union {r} /\ req'[r].det = ing[i].det
  BY <1>1, <1>3, BCorrelateKeeps DEF IInv
<1>5. /\ ing' \in [Ingests -> IngestState] /\ Elsewhere(i)
      /\ ing'[i].pc = "waiting" /\ ing'[i].call = r /\ ing'[i].fwd = ing[i].fwd
      /\ ing'[i].sid = ing[i].sid /\ ing'[i].det = ing[i].det
  <2> DEFINE x == [ing[i] EXCEPT !.pc = "waiting", !.call = r]
  <2>1. ing[i] \in IngestState
    BY DEF IInv, TypeOK
  <2>2. x \in IngestState
    BY <2>1, IngestType, IngestValues
  <2>3. /\ x.pc = "waiting" /\ x.call = r /\ x.fwd = ing[i].fwd
        /\ x.sid = ing[i].sid /\ x.det = ing[i].det
    BY <2>1, IngestType
  <2>4. ing' = [ing EXCEPT ![i] = x]
    BY <1>1
  <2> HIDE DEF x
  <2>5. ing' \in [Ingests -> IngestState] /\ Elsewhere(i) /\ ing'[i] = x
    BY <2>2, <2>4, IngestBecomes DEF IInv
  <2> QED BY <2>3, <2>5
<1>6. TypeOK'
  BY <1>2, <1>4, <1>5 DEF IInv, TypeOK
<1>7. IngestSound(i)
  BY DEF IInv, IngestInv
<1>8. Handed(i) /\ Handing(ing[i]) /\ ing[i].call = None /\ ing[i].fwd = "none"
  BY <1>2, <1>7 DEF IngestSound, Handed
<1>9. IngestInv'
  <2>1. Handing(ing[i])'
    BY <1>2, <1>5, <1>8 DEF Handing
  <2>2. Calling(ing[i])'
    BY <1>3, <1>4, <1>5, NoneIsNothing DEF Calling
  <2>3. IngestSound(i)'
    BY <1>1, <1>5, <1>8, <2>1, <2>2, NoneIsNothing DEF IngestSound, Handed
  <2>4. \A j \in Ingests \ {i} : Handed(i)' /\ Handed(j) => ing'[i].sid # ing[j].sid
    BY <1>5, <1>8 DEF IInv, IngestInv, HandoffsDiffer
  <2>5. \A j \in Ingests \ {i} : r # ing[j].call
    BY <1>4, NoneIsNothing DEF IInv, IngestInv, IngestSound, Calling
  <2> QED BY <1>2, <1>4, <1>5, <2>3, <2>4, <2>5, IngestMoves DEF IInv
<1>10. NamesInv'
  BY <1>2, <1>5, NamesStay DEF IInv, Elsewhere
<1>11. PICK s \in signals : s.sid = ing[i].sid /\ s.det # None
  BY <1>3, <1>8, NoneIsNothing DEF Handing
<1>12. ing[i].det.signal \in Names(s)
  BY <1>3, <1>8, <1>11, NoneIsNothing DEF Handing, Names
<1>13. SentAreStored'
  <2>1. \A q \in Attempts : \E t \in signals : t.det # None /\ req'[q].det.signal \in Names(t)
    <3>1. \A q \in Attempts : \E t \in signals : t.det # None /\ req[q].det.signal \in Names(t)
      BY DEF IInv, SentAreStored
    <3>2. \A q \in Attempts : req'[q].det = req[q].det
      BY <1>4 DEF BKeeps
    <3> QED BY <3>1, <3>2
  <2>2. \E t \in signals : t.det # None /\ req'[r].det.signal \in Names(t)
    BY <1>4, <1>11, <1>12
  <2> QED BY <1>2, <1>4, <2>1, <2>2 DEF IInv, SentAreStored
<1>14. ChargeInv'
  <2>1. /\ AttemptsAt(s)' = AttemptsAt(s) \union {r}
        /\ \A t \in signals \ {s} : AttemptsAt(t)' = AttemptsAt(t)
    BY <1>4, <1>12, NewAttempt
  <2>2. \A j \in Ingests : ing'[j].pc = "forward" => j # i /\ ing'[j] = ing[j]
    BY <1>5 DEF Elsewhere
  <2>3. \A t : HandedOn(t) => HandedOn(t)'
    BY <2>2 DEF HandedOn
  <2>4. \A f \in Active : f \in Active' /\ fill'[f].todo \subseteq fill[f].todo
    BY <1>2 DEF Active
  <2>5. Chargeable(s)'
    <3>1. PICK g \in [AttemptsAt(s) -> Backfills \union {None}] : Charged(s, g)
      BY <1>11 DEF IInv, ChargeInv, Chargeable
    <3>2. ~HandedOn(s)
      BY <1>2, <1>11 DEF HandedOn
    <3>3. \A q \in AttemptsAt(s) : g[q] # None
      BY <3>1, <3>2 DEF Charged
    <3>4. HandedOn(s)'
      <4>1. \A j \in Ingests \ {i} : Handed(j) => ing[j].sid # ing[i].sid
        BY <1>8 DEF IInv, IngestInv, HandoffsDiffer
      <4> QED BY <1>11, <2>2, <4>1 DEF HandedOn, Handed
    <3>5. r \notin AttemptsAt(s)
      BY <1>4 DEF AttemptsAt
    <3> QED BY <1>3, <2>1, <2>3, <2>4, <3>1, <3>3, <3>4, <3>5, NewCharge
  <2>6. ASSUME NEW t \in signals \ {s}, t.det # None  PROVE Chargeable(t)'
    BY <2>1, <2>3, <2>4, <2>6, StaysCharged DEF IInv, ChargeInv
  <2> QED BY <1>2, <2>5, <2>6 DEF ChargeInv
<1>15. Backfills = {} => HandoffsOnly'
  <2>1. ASSUME HandoffsOnly  PROVE HandoffsOnly'
    <3>1. ASSUME NEW q \in Attempts  PROVE \E j \in Ingests : ing'[j].call = q
      <4>1. PICK j \in Ingests : ing[j].call = q
        BY <2>1 DEF HandoffsOnly
      <4>2. j # i
        BY <1>8, <4>1, NoneIsNothing DEF Attempts
      <4> QED BY <1>5, <4>1, <4>2 DEF Elsewhere
    <3> QED BY <1>4, <1>5, <3>1 DEF HandoffsOnly
  <2> QED BY <2>1 DEF IInv
<1> QED BY <1>4, <1>6, <1>9, <1>10, <1>13, <1>14, <1>15 DEF IInv

---------------------------------------------------------------------------
(* The bridge.                                                             *)

OtherRuns(f) == \A h \in Backfills \ {f} : fill'[h] = fill[h]

FillPcs == {"idle", "sending", "waiting", "done"}

LEMMA FillType ==
  /\ FillState = [pc : FillPcs, todo : SUBSET Detections, call : Requests \union {None}]
  /\ "sending" \in FillPcs /\ "waiting" \in FillPcs /\ "done" \in FillPcs
BY DEF FillState, FillPcs

LEMMA RunBecomes ==
  ASSUME TypeOK, NEW f \in Backfills, NEW x \in FillState, fill' = [fill EXCEPT ![f] = x]
  PROVE  fill' \in [Backfills -> FillState] /\ OtherRuns(f) /\ fill'[f] = x
BY DEF TypeOK, OtherRuns

\* A run that has fetched goes on, with no more to send than before.
LEMMA RunGoesOn ==
  ASSUME IInv, NEW f \in Backfills, BRests, UNCHANGED <<signals, ing>>, OtherRuns(f),
         fill' \in [Backfills -> FillState],
         fill'[f].pc # "idle", fill'[f].todo \subseteq fill[f].todo
  PROVE  IInv'
<1>1. BInv' /\ BKeeps /\ Attempts' = Attempts /\ (B!TypeOK)'
  BY BRestKeeps DEF IInv
<1>2. TypeOK'
  BY <1>1 DEF IInv, TypeOK
<1>3. IngestInv' /\ NamesInv'
  BY <1>1, IngestsStay, NamesStay DEF IInv
<1>4. \A h \in Backfills : fill'[h].todo \subseteq fill[h].todo
  BY DEF OtherRuns
<1>5. SentAreStored'
  BY <1>1, <1>4, SentStay DEF IInv
<1>6. ChargeInv'
  <2>1. \A h \in Active : h \in Active'
    BY DEF Active, OtherRuns
  <2>2. \A s : HandedOn(s) => HandedOn(s)'
    BY DEF HandedOn
  <2> QED BY <1>1, <1>4, <2>1, <2>2, SameAttempts, StaysCharged DEF IInv, ChargeInv, Active
<1>7. Backfills = {} => HandoffsOnly'
  OBVIOUS
<1> QED BY <1>1, <1>2, <1>3, <1>5, <1>6, <1>7 DEF IInv

LEMMA RunMoves ==
  ASSUME IInv, NEW f \in Backfills, BRests, UNCHANGED <<signals, ing>>,
         NEW x \in FillState, fill' = [fill EXCEPT ![f] = x],
         x.pc # "idle", x.todo \subseteq fill[f].todo
  PROVE  IInv'
BY RunBecomes, RunGoesOn DEF IInv

LEMMA SendFailsKeeps ==
  ASSUME IInv, NEW f \in Backfills, SendFails(f)
  PROVE  IInv'
<1>1. PICK d : fill' = [fill EXCEPT ![f].todo = @ \ {d}]
  BY DEF SendFails
<1> DEFINE x == [fill[f] EXCEPT !.todo = @ \ {d}]
<1>2. fill[f] \in FillState /\ fill[f].pc = "sending"
  BY DEF IInv, TypeOK, SendFails
<1>3. x \in FillState /\ x.pc = "sending" /\ x.todo = fill[f].todo \ {d}
  BY <1>2, FillType
<1>4. fill' = [fill EXCEPT ![f] = x]
  BY <1>1
<1> HIDE DEF x
<1>5. BRests /\ UNCHANGED <<signals, ing>>
  BY DEF SendFails, BRests
<1> QED BY <1>3, <1>4, <1>5, RunMoves

LEMMA MoveRunKeeps ==
  ASSUME IInv, NEW f \in Backfills, NEW pc \in {"sending", "done"},
         fill' = [fill EXCEPT ![f].pc = pc], BRests, UNCHANGED <<signals, ing>>
  PROVE  IInv'
<1> DEFINE x == [fill[f] EXCEPT !.pc = pc]
<1>1. fill[f] \in FillState /\ pc \in FillPcs
  BY FillType DEF IInv, TypeOK
<1>2. x \in FillState /\ x.pc = pc /\ x.todo = fill[f].todo
  BY <1>1, FillType
<1>3. fill' = [fill EXCEPT ![f] = x]
  OBVIOUS
<1> HIDE DEF x
<1> QED BY <1>2, <1>3, RunMoves

LEMMA RunSteps ==
  ASSUME IInv, NEW f \in Backfills, SendReturns(f) \/ Finish(f) \/ Abort(f)
  PROVE  IInv'
<1>1. BRests /\ UNCHANGED <<signals, ing>>
  BY DEF SendReturns, Finish, Abort, BRests
<1> QED BY <1>1, MoveRunKeeps DEF SendReturns, Finish, Abort

LEMMA FetchKeeps ==
  ASSUME IInv, NEW f \in Backfills, Fetch(f)
  PROVE  IInv'
<1>1. BRests /\ UNCHANGED <<signals, ing>> /\ fill[f].pc = "idle"
  BY DEF Fetch, BRests
<1>2. PICK page \in SUBSET signals :
             fill' = [fill EXCEPT ![f].pc = "sending",
                        ![f].todo = {s.det : s \in {y \in page : Replayable(y.det)}}]
  BY DEF Fetch
<1>3. PICK todo \in SUBSET Detections :
        /\ \A d \in todo : \E s \in signals : s.det = d
        /\ fill' = [fill EXCEPT ![f].pc = "sending", ![f].todo = todo]
  <2>1. \A s \in signals : s.det \in Detections \union {None}
    BY DEF IInv, TypeOK
  <2>2. {s.det : s \in {y \in page : Replayable(y.det)}} \subseteq Detections
    BY <2>1 DEF Replayable
  <2> QED BY <1>2, <2>2
<1> DEFINE x == [fill[f] EXCEPT !.pc = "sending", !.todo = todo]
<1>4. fill[f] \in FillState
  BY DEF IInv, TypeOK
<1>5. x \in FillState /\ x.pc = "sending" /\ x.todo = todo
  BY <1>4, FillType
<1>6. fill' = [fill EXCEPT ![f] = x]
  BY <1>3
<1> HIDE DEF x
<1>7. fill' \in [Backfills -> FillState] /\ OtherRuns(f) /\ fill'[f] = x
  BY <1>5, <1>6, RunBecomes DEF IInv
<1>8. BInv' /\ BKeeps /\ Attempts' = Attempts /\ (B!TypeOK)'
  BY <1>1, BRestKeeps DEF IInv
<1>9. TypeOK'
  BY <1>1, <1>7, <1>8 DEF IInv, TypeOK
<1>10. IngestInv' /\ NamesInv'
  BY <1>1, <1>8, IngestsStay, NamesStay DEF IInv
<1>11. SentAreStored'
  <2>1. \A r \in Attempts' : \E s \in signals : s.det # None /\ req'[r].det.signal \in Names(s)
    BY <1>8 DEF IInv, SentAreStored, BKeeps
  <2>2. \A h \in Backfills : \A d \in fill'[h].todo : \E s \in signals : s.det = d
    BY <1>3, <1>5, <1>7 DEF IInv, SentAreStored, OtherRuns
  <2> QED BY <1>1, <2>1, <2>2 DEF SentAreStored
<1>12. ChargeInv'
  <2>1. \A h \in Active : h \in Active' /\ fill'[h].todo \subseteq fill[h].todo
    BY <1>1, <1>7 DEF Active, OtherRuns
  <2>2. \A s : HandedOn(s) => HandedOn(s)'
    BY <1>1 DEF HandedOn
  <2> QED BY <1>1, <1>8, <2>1, <2>2, SameAttempts, StaysCharged DEF IInv, ChargeInv
<1>13. Backfills = {} => HandoffsOnly'
  OBVIOUS
<1> QED BY <1>8, <1>9, <1>10, <1>11, <1>12, <1>13 DEF IInv

LEMMA SendKeeps ==
  ASSUME IInv, NEW f \in Backfills, Send(f)
  PROVE  IInv'
<1>1. PICK d \in fill[f].todo, r \in Requests :
        /\ req[r].pc = "idle" /\ B!Correlate(r, d)
        /\ fill' = [fill EXCEPT ![f].pc = "waiting", ![f].call = r, ![f].todo = @ \ {d}]
  BY DEF Send
<1>2. fill[f].pc = "sending" /\ UNCHANGED <<signals, ing>> /\ fill[f] \in FillState
  BY DEF Send, IInv, TypeOK
<1>3. d \in Detections
  BY <1>1, <1>2, FillType
<1>4. /\ BInv' /\ BKeeps /\ (B!TypeOK)'
      /\ r \notin Attempts /\ Attempts' = Attempts \union {r} /\ req'[r].det = d
  BY <1>1, <1>3, BCorrelateKeeps DEF IInv
<1> DEFINE x == [fill[f] EXCEPT !.pc = "waiting", !.call = r, !.todo = @ \ {d}]
<1>5. x \in FillState /\ x.pc = "waiting" /\ x.todo = fill[f].todo \ {d}
  BY <1>2, FillType
<1>6. fill' = [fill EXCEPT ![f] = x]
  BY <1>1
<1> HIDE DEF x
<1>7. fill' \in [Backfills -> FillState] /\ OtherRuns(f) /\ fill'[f] = x
  BY <1>5, <1>6, RunBecomes DEF IInv
<1>8. TypeOK'
  BY <1>2, <1>4, <1>7 DEF IInv, TypeOK
<1>9. IngestInv' /\ NamesInv'
  BY <1>2, <1>4, IngestsStay, NamesStay DEF IInv
<1>10. PICK s \in signals : s.det = d
  BY <1>1 DEF IInv, SentAreStored
<1>11. s.det # None /\ d.signal \in Names(s)
  BY <1>3, <1>10, NoneIsNothing DEF Names
<1>12. \A h \in Backfills : fill'[h].todo \subseteq fill[h].todo
  BY <1>5, <1>7 DEF OtherRuns
<1>13. SentAreStored'
  <2>1. \A q \in Attempts : \E t \in signals : t.det # None /\ req'[q].det.signal \in Names(t)
    <3>1. \A q \in Attempts : \E t \in signals : t.det # None /\ req[q].det.signal \in Names(t)
      BY DEF IInv, SentAreStored
    <3>2. \A q \in Attempts : req'[q].det = req[q].det
      BY <1>4 DEF BKeeps
    <3> QED BY <3>1, <3>2
  <2>2. \E t \in signals : t.det # None /\ req'[r].det.signal \in Names(t)
    BY <1>4, <1>11
  <2>3. \A h \in Backfills : \A e \in fill'[h].todo : \E t \in signals : t.det = e
    BY <1>12 DEF IInv, SentAreStored
  <2> QED BY <1>2, <1>4, <2>1, <2>2, <2>3 DEF SentAreStored
<1>14. ChargeInv'
  <2>1. /\ AttemptsAt(s)' = AttemptsAt(s) \union {r}
        /\ \A t \in signals \ {s} : AttemptsAt(t)' = AttemptsAt(t)
    BY <1>4, <1>11, NewAttempt
  <2>2. \A t : HandedOn(t) => HandedOn(t)'
    BY <1>2 DEF HandedOn
  <2>3. f \in Active' /\ \A h \in Active : h \in Active' /\ fill'[h].todo \subseteq fill[h].todo
    BY <1>5, <1>7, <1>12 DEF Active, OtherRuns
  <2>4. Chargeable(s)'
    <3>1. PICK g \in [AttemptsAt(s) -> Backfills \union {None}] : Charged(s, g)
      BY <1>11 DEF IInv, ChargeInv, Chargeable
    <3>2. \A q \in AttemptsAt(s) : g[q] # f
      BY <1>1, <1>10, <3>1, NoneIsNothing DEF Charged
    <3>3. s.det \notin fill'[f].todo
      BY <1>5, <1>7, <1>10
    <3>4. r \notin AttemptsAt(s)
      BY <1>4 DEF AttemptsAt
    <3> QED BY <2>1, <2>2, <2>3, <3>1, <3>2, <3>3, <3>4, NewCharge, NoneIsNothing
  <2>5. ASSUME NEW t \in signals \ {s}, t.det # None  PROVE Chargeable(t)'
    BY <2>1, <2>2, <2>3, <2>5, StaysCharged DEF IInv, ChargeInv
  <2> QED BY <1>2, <2>4, <2>5 DEF ChargeInv
<1> QED BY <1>4, <1>8, <1>9, <1>13, <1>14 DEF IInv

---------------------------------------------------------------------------
(* The invariant holds.                                                    *)

LEMMA BStepInv ==
  ASSUME IInv, BStep
  PROVE  IInv'
<1>1. UNCHANGED <<signals, ing, fill>>
  BY DEF BStep
<1>2. BInv' /\ BKeeps /\ Attempts' = Attempts /\ (B!TypeOK)'
  BY BStepKeeps DEF IInv, BStep
<1>3. TypeOK'
  BY <1>1, <1>2 DEF IInv, TypeOK
<1>4. IngestInv' /\ NamesInv' /\ SentAreStored'
  BY <1>1, <1>2, IngestsStay, NamesStay, SentStay DEF IInv
<1>5. ChargeInv'
  BY <1>1, <1>2, SameAttempts, StaysCharged DEF IInv, ChargeInv, Active, HandedOn
<1>6. Backfills = {} => HandoffsOnly'
  BY <1>1, <1>2, HandoffsStay DEF IInv
<1> QED BY <1>2, <1>3, <1>4, <1>5, <1>6 DEF IInv

LEMMA InitKeeps ==
  ASSUME Init
  PROVE  IInv
<1>1. BInv /\ B!TypeOK /\ Attempts = {} /\ signals = {}
  BY BInit DEF Init
<1>2. \A i \in Ingests : ing[i] = [pc |-> "idle", sid |-> None, det |-> None, call |-> None,
                                   fwd |-> "none", code |-> 0]
  BY DEF Init
<1>3. \A f \in Backfills : fill[f] = [pc |-> "idle", todo |-> {}, call |-> None]
  BY DEF Init
<1>4. TypeOK
  BY <1>1 DEF Init, TypeOK, IngestState, FillState
<1>5. IngestInv
  BY <1>2 DEF IngestInv, IngestSound, HandoffsDiffer, CallsDiffer, Handed
<1>6. NamesInv
  BY <1>1, <1>2 DEF NamesInv, NamesApart, PendingSound, Minted
<1>7. SentAreStored /\ ChargeInv /\ HandoffsOnly
  BY <1>1, <1>3 DEF SentAreStored, ChargeInv, HandoffsOnly
<1> QED BY <1>1, <1>4, <1>5, <1>6, <1>7 DEF IInv

LEMMA NextKeeps ==
  ASSUME IInv, [Next]_vars
  PROVE  IInv'
<1>1. ASSUME NEW i \in Ingests, Ingest(i)  PROVE IInv'
  BY <1>1, ScoreKeeps, EnqueueKeeps, ForwardSkippedKeeps, ForwardPostKeeps, ForwardReplyKeeps,
     ForwardErrorKeeps, IngestCrashKeeps DEF Ingest
<1>2. ASSUME NEW f \in Backfills, Backfill(f)  PROVE IInv'
  BY <1>2, FetchKeeps, SendKeeps, SendFailsKeeps, RunSteps DEF Backfill
<1>3. CASE UNCHANGED vars
  <2>1. BRests /\ UNCHANGED <<signals, ing, fill>>
    BY <1>3 DEF vars, bVars, BRests
  <2>2. BInv' /\ BKeeps /\ Attempts' = Attempts /\ (B!TypeOK)'
    BY <2>1, BRestKeeps DEF IInv
  <2>3. TypeOK'
    BY <2>1, <2>2 DEF IInv, TypeOK
  <2>4. IngestInv' /\ NamesInv' /\ SentAreStored'
    BY <2>1, <2>2, IngestsStay, NamesStay, SentStay DEF IInv
  <2>5. ChargeInv'
    BY <2>1, <2>2, SameAttempts, StaysCharged DEF IInv, ChargeInv, Active, HandedOn
  <2>6. Backfills = {} => HandoffsOnly'
    BY <2>1, <2>2, HandoffsStay DEF IInv
  <2> QED BY <2>2, <2>3, <2>4, <2>5, <2>6 DEF IInv
<1> QED BY <1>1, <1>2, <1>3, BStepInv DEF Next, Quiet

\* The invariant of the signal path.
THEOREM PathInvariance == Spec => []IInv
BY InitKeeps, NextKeeps, PTL DEF Spec

\* Tables, ingests and runs of the bridge keep their types: among other things no
\* row is stored under an id that is none, whichever of the request, the scorer
\* and the queue minted it.
THEOREM PathTypes == Spec => []TypeOK
<1>1. IInv => TypeOK
  BY DEF IInv
<1> QED BY <1>1, PathInvariance, PTL

\* An ingest whose handoff was heard of, well or badly, is answered 200 and has
\* its row, whatever B does.
THEOREM IngestsSurvive == Spec => []IngestSurvivesB
<1>1. IInv => IngestSurvivesB
  BY DEF IInv, IngestInv, IngestSound, Handing, IngestSurvivesB, StoredIds
<1> QED BY <1>1, PathInvariance, PTL

\* A handoff reported "ok" has an anomaly with both rows, made from the
\* detection of its ingest and leading back to the ingest's own row.
THEOREM HandoffsDurable == Spec => []ForwardOkIsDurable
<1>1. ASSUME IInv, NEW i \in Ingests, ing[i].fwd = "ok"
      PROVE  LET a == req[ing[i].call].id
             IN  Stored(a) /\ attributions[a] # None /\ anomalies[a].det = ing[i].det
                 /\ ing[i].sid \in StoredIds /\ anomalies[a].det.signal = ing[i].sid
  <2> DEFINE r == ing[i].call
             a == req[r].id
  <2>1. IngestSound(i)
    BY <1>1 DEF IInv, IngestInv
  <2>2. /\ r # None /\ req[r].code = 200 /\ a # None
        /\ Handing(ing[i]) /\ Calling(ing[i])
    BY <1>1, <2>1 DEF IngestSound
  <2>3. r \in Requests /\ req[r].op = "correlate"
    BY <2>2 DEF Calling, Attempts
  <2>4. BP!IInv
    BY <1>1 DEF IInv, BInv
  <2>5. a \in AnomalyIds /\ Stored(a) /\ attributions[a] # None
    BY <2>2, <2>3, <2>4 DEF BP!IInv, BP!Sound, BP!Stored, Stored
  <2>6. PICK q \in Attempts : req[q].id = a /\ req[q].det = anomalies[a].det
    BY <1>1, <2>5 DEF IInv, BInv, Origin
  <2>7. q = r
    BY <2>2, <2>3, <2>4, <2>6 DEF BP!IInv, BP!Unshared, Attempts
  <2>8. anomalies[a].det = ing[i].det /\ ing[i].det.signal = ing[i].sid
    BY <2>2, <2>6, <2>7 DEF Calling, Handing
  <2>9. ing[i].sid \in StoredIds
    BY <2>2 DEF Handing, StoredIds
  <2> QED BY <2>5, <2>8, <2>9
<1>2. IInv => ForwardOkIsDurable
  BY <1>1 DEF ForwardOkIsDurable
<1> QED BY <1>2, PathInvariance, PTL

\* Where an anomaly comes from when there is no bridge: one ingest, which handed
\* on the detection of a row of its own.
LEMMA HandoffOf ==
  ASSUME IInv, Backfills = {}, NEW a \in AnomalyIds, Stored(a)
  PROVE  \E i \in Ingests :
           /\ Handed(i) /\ ing[i].call \in Requests /\ req[ing[i].call].id = a
           /\ ing[i].sid \in StoredIds /\ anomalies[a].det.signal = ing[i].sid
<1>1. PICK r \in Attempts : req[r].id = a /\ req[r].det = anomalies[a].det
  BY DEF IInv, BInv, Origin
<1>2. PICK i \in Ingests : ing[i].call = r
  BY <1>1 DEF IInv, HandoffsOnly
<1>3. r \in Requests /\ r # None
  BY <1>1, NoneIsNothing DEF Attempts
<1>4. IngestSound(i) /\ Handed(i)
  BY <1>2, <1>3 DEF IInv, IngestInv, Handed
<1>5. Handing(ing[i]) /\ Calling(ing[i])
  BY <1>2, <1>3, <1>4 DEF IngestSound
<1> QED BY <1>1, <1>2, <1>3, <1>4, <1>5 DEF Handing, Calling, StoredIds

\* Without the bridge, every anomaly leads back to a stored signal.
THEOREM AnomaliesTraced == ASSUME Backfills = {} PROVE Spec => []AnomalyRefersToSignal
<1>1. IInv => AnomalyRefersToSignal
  BY HandoffOf DEF AnomalyRefersToSignal
<1> QED BY <1>1, PathInvariance, PTL

\* Without the bridge, a signal has at most one anomaly, however often it is sent
\* and whatever fails.
THEOREM OneAnomalyEach == ASSUME Backfills = {} PROVE Spec => []OneAnomalyPerSignal
<1>1. ASSUME IInv, NEW a \in AnomalyIds, NEW b \in AnomalyIds, Stored(a), Stored(b), a # b
      PROVE  anomalies[a].det.signal # anomalies[b].det.signal
  <2>1. PICK i \in Ingests : /\ Handed(i) /\ req[ing[i].call].id = a
                             /\ anomalies[a].det.signal = ing[i].sid
    BY <1>1, HandoffOf
  <2>2. PICK j \in Ingests : /\ Handed(j) /\ req[ing[j].call].id = b
                             /\ anomalies[b].det.signal = ing[j].sid
    BY <1>1, HandoffOf
  <2>3. i # j
    BY <1>1, <2>1, <2>2
  <2> QED BY <1>1, <2>1, <2>2, <2>3 DEF IInv, IngestInv, HandoffsDiffer
<1>2. IInv => OneAnomalyPerSignal
  BY <1>1 DEF OneAnomalyPerSignal
<1> QED BY <1>2, PathInvariance, PTL

\* What B promises of itself, it keeps in the composition: a correlation answered
\* 200 has both rows, and no row refers to one that is not there.
THEOREM PromisesOfB == Spec => [](B!CorrelateIsDurable /\ B!ReferencesExist)
<1>1. ASSUME IInv  PROVE BP!CorrelateIsDurable /\ BP!ReferencesExist
  <2>1. BP!ReferencesExist /\ \A r \in Requests : BP!Sound(r)
    BY <1>1 DEF IInv, BInv, BP!IInv
  <2>2. BP!CorrelateIsDurable
    BY <2>1 DEF BP!Sound, BP!CorrelateIsDurable
  <2> QED BY <2>1, <2>2
<1>2. BP!CorrelateIsDurable => B!CorrelateIsDurable
  BY Zenon DEF B!CorrelateIsDurable, BP!CorrelateIsDurable, B!Stored, BP!Stored,
               B!CorrelateTechnique, BP!CorrelateTechnique, B!Spelling, BP!Spelling, B!MitreId,
               BP!MitreId, B!KnownLabels, BP!KnownLabels, B!DosVariants, BP!DosVariants
<1>3. BP!ReferencesExist => B!ReferencesExist
  BY Zenon DEF B!ReferencesExist, BP!ReferencesExist, B!Stored, BP!Stored
<1>4. IInv => B!CorrelateIsDurable /\ B!ReferencesExist
  BY <1>1, <1>2, <1>3
<1> QED BY <1>4, PathInvariance, PTL


---------------------------------------------------------------------------
(* The composition implements the store of cases.                          *)

\* Seen from B, a step of the path begins a correlation, is a step of B, or is none.
LEMMA BSees ==
  ASSUME IInv, [Next]_vars
  PROVE  (\E r \in Requests : BP!Begin(r) \/ BP!Step(r)) \/ UNCHANGED bVars
<1>1. ASSUME NEW i \in Ingests, Ingest(i), ~UNCHANGED bVars
      PROVE  \E r \in Requests : BP!Begin(r)
  <2>1. ForwardPost(i)
    <3>1. Score(i) => UNCHANGED bVars
      BY Zenon DEF Score
    <3>2. Enqueue(i) \/ ForwardSkipped(i) \/ ForwardReply(i) => UNCHANGED bVars
      BY Zenon DEF Enqueue, ForwardSkipped, ForwardReply
    <3>3. ForwardError(i) \/ IngestCrash(i) => UNCHANGED bVars
      BY Zenon DEF ForwardError, IngestCrash
    <3> QED BY <1>1, <3>1, <3>2, <3>3 DEF Ingest
  <2>2. PICK r \in Requests : req[r].pc = "idle" /\ B!Correlate(r, ing[i].det)
    BY <2>1 DEF ForwardPost
  <2>3. ing[i].det \in Detections
    BY <2>1, PipelineAssumption DEF ForwardPost, IInv, TypeOK, IngestState, Skips, Replayable
  <2>4. BP!Correlate(r, ing[i].det)
    BY <2>2, SameCorrelate
  <2> QED BY <2>2, <2>3, <2>4 DEF BP!Begin
<1>2. ASSUME NEW f \in Backfills, Backfill(f), ~UNCHANGED bVars
      PROVE  \E r \in Requests : BP!Begin(r)
  <2>1. Send(f)
    BY <1>2 DEF Backfill, Fetch, SendFails, SendReturns, Finish, Abort
  <2>2. PICK d \in fill[f].todo, r \in Requests : req[r].pc = "idle" /\ B!Correlate(r, d)
    BY <2>1 DEF Send
  <2>3. d \in Detections
    BY <2>2, FillType DEF IInv, TypeOK
  <2>4. BP!Correlate(r, d)
    BY <2>2, SameCorrelate
  <2> QED BY <2>2, <2>3, <2>4 DEF BP!Begin
<1>3. BStep => \E r \in Requests : BP!Step(r)
  BY SameStep DEF BStep
<1>4. Quiet \/ UNCHANGED vars => UNCHANGED bVars
  BY DEF Quiet, vars, bVars
<1> QED BY <1>1, <1>2, <1>3, <1>4 DEF Next

\* A correlation has no answer before its last step, in the composition either.
LEMMA StaysUnanswered ==
  ASSUME IInv, BP!Unanswered, [Next]_vars
  PROVE  BP!Unanswered'
<1>1. CASE \E r \in Requests : BP!Begin(r) \/ BP!Step(r)
  BY <1>1, BAssumed, BP!NextUnanswered DEF BP!ResponseAssumption, BP!Next, IInv, BInv
<1>2. CASE UNCHANGED bVars
  BY <1>2 DEF bVars, BP!Unanswered
<1> QED BY <1>1, <1>2, BSees

LEMMA PathShows ==
  ASSUME IInv, BP!Unanswered, [Next]_vars
  PROVE  [BP!Store!Next]_(BP!Cases)
<1>1. CASE \E r \in Requests : BP!Begin(r) \/ BP!Step(r)
  BY <1>1, BAssumed, BP!NextShows DEF BP!ResponseAssumption, BP!Next, IInv, BInv
<1>2. CASE UNCHANGED bVars
  BY <1>2 DEF bVars, BP!Cases, BP!CaseOf, BP!StageOf, BP!Stored, BP!Attributed, BP!Linked,
              BP!Promised
<1> QED BY <1>1, <1>2, BSees

\* With ingests that hand on, bridges that repeat, callers that give up and all the
\* failures in between, the anomalies still are cases that only move forward: a repeated
\* or abandoned call can open a case of its own, and never reopens or undoes another.
THEOREM PathImplementsStore == Spec => BP!ImplementsStore
<1>1. Init => BP!Unanswered
  BY SameInit, BAssumed, BP!InitUnanswered DEF Init, BP!ResponseAssumption
<1>2. IInv /\ BP!Unanswered /\ [Next]_vars => BP!Unanswered'
  BY StaysUnanswered
<1>3. Spec => []BP!Unanswered
  BY <1>1, <1>2, PathInvariance, PTL DEF Spec
<1>4. Init => BP!Store!Init
  BY SameInit, BAssumed, BP!InitShows DEF Init, BP!ResponseAssumption
<1>5. IInv /\ BP!Unanswered /\ [Next]_vars => [BP!Store!Next]_(BP!Cases)
  BY PathShows
<1> QED BY <1>3, <1>4, <1>5, PathInvariance, PTL DEF Spec, BP!ImplementsStore, BP!Store!Spec
---------------------------------------------------------------------------
(* Counting: what a row costs B.                                           *)

\* The anomalies of a row.
AnomaliesOf(s) ==
  {a \in AnomalyIds : Stored(a) /\ anomalies[a].det.signal \in {s.sid, s.det.signal}}

\* What they can be charged to.
Payers == Active \union (IF ForwardEnabled THEN {None} ELSE {})

LEMMA PayersCounted ==
  /\ IsFiniteSet(Payers) /\ IsFiniteSet(Active)
  /\ Cardinality(Payers) = (IF ForwardEnabled THEN 1 ELSE 0) + Cardinality(Active)
<1>1. IsFiniteSet(Active)
  <2>1. Active \in SUBSET Backfills /\ IsFiniteSet(Backfills)
    BY PipelineAssumption DEF Active
  <2> QED BY <2>1, FS_Subset
<1>2. None \notin Active
  BY NoneIsNothing DEF Active
<1>3. Cardinality(Active) \in Nat
  BY <1>1, FS_CardinalityType
<1>4. CASE ForwardEnabled
  <2>1. Payers = Active \union {None}
    BY <1>4 DEF Payers
  <2>2. IsFiniteSet(Payers) /\ Cardinality(Payers) = Cardinality(Active) + 1
    BY <1>1, <1>2, <2>1, FS_AddElement
  <2> QED BY <1>1, <1>3, <1>4, <2>2
<1>5. CASE ~ForwardEnabled
  <2>1. Payers = Active
    BY <1>5 DEF Payers
  <2> QED BY <1>1, <1>3, <1>5, <2>1
<1> QED BY <1>4, <1>5, PipelineAssumption

\* Each anomaly of a row has a payer of its own.
LEMMA PaidApart ==
  ASSUME IInv, NEW s \in signals, s.det # None
  PROVE  \E h : h \in Injection(AnomaliesOf(s), Payers)
<1>1. PICK g \in [AttemptsAt(s) -> Backfills \union {None}] : Charged(s, g)
  BY DEF IInv, ChargeInv, Chargeable
<1> DEFINE From(a) == CHOOSE r \in Attempts : req[r].id = a /\ req[r].det = anomalies[a].det
           h == [a \in AnomaliesOf(s) |-> g[From(a)]]
<1>2. ASSUME NEW a \in AnomaliesOf(s)
      PROVE  /\ From(a) \in Attempts /\ req[From(a)].id = a
             /\ From(a) \in AttemptsAt(s)
  <2>1. \E r \in Attempts : req[r].id = a /\ req[r].det = anomalies[a].det
    BY DEF IInv, BInv, Origin, AnomaliesOf
  <2>2. From(a) \in Attempts /\ req[From(a)].id = a /\ req[From(a)].det = anomalies[a].det
    BY <2>1
  <2> QED BY <2>2 DEF AttemptsAt, Names, AnomaliesOf
<1>3. \A r \in AttemptsAt(s) : g[r] \in Payers
  BY <1>1 DEF Charged, Payers
<1> HIDE DEF From
<1>4. h \in [AnomaliesOf(s) -> Payers]
  BY <1>2, <1>3
<1>5. ASSUME NEW a \in AnomaliesOf(s), NEW b \in AnomaliesOf(s), h[a] = h[b]  PROVE a = b
  <2>1. From(a) = From(b)
    BY <1>1, <1>2, <1>5 DEF Charged
  <2> QED BY <1>2, <2>1
<1> HIDE DEF h
<1>6. h \in Injection(AnomaliesOf(s), Payers)
  BY <1>4, <1>5 DEF Injection, IsInjective
<1> QED BY <1>6

\* However many failures, and however often the runs of the bridge overlap, a row
\* has at most one anomaly for its handoff and one for each run that began.
THEOREM BackfillBounded == Spec => []BackfillIsBounded
<1>1. ASSUME IInv, NEW s \in signals, s.det # None
      PROVE  Cardinality(AnomaliesOf(s)) <= (IF ForwardEnabled THEN 1 ELSE 0) + Cardinality(Active)
  <2>1. PICK h : h \in Injection(AnomaliesOf(s), Payers)
    BY <1>1, PaidApart
  <2>2. Cardinality(AnomaliesOf(s)) <= Cardinality(Payers)
    BY <2>1, PayersCounted, FS_Injection
  <2> QED BY <2>2, PayersCounted
<1>2. IInv => BackfillIsBounded
  BY <1>1 DEF BackfillIsBounded, AnomaliesOf, Active
<1> QED BY <1>2, PathInvariance, PTL
=============================================================================
