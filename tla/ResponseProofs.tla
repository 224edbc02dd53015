--------------------------- MODULE ResponseProofs ---------------------------
(***************************************************************************)
(* Proofs about the correlation-response service, for every set of         *)
(* requests, detections and identifiers, with and without a graph.         *)
(***************************************************************************)
EXTENDS StoreRefinement, FiniteSetTheorems, TLAPS

---------------------------------------------------------------------------
(* The inductive invariant.                                                *)

\* What a request knows of the tables when it comes to each of its steps: a
\* correlation owns its identifier, and its rows are there as it goes on; a
\* handler that fetched an anomaly still finds it; only a SOAR action may come
\* to its audit entry without one.
Sound(r) ==
  LET q == req[r]
  IN  /\ q.pc = "insert_anomaly" =>
           /\ q.op = "correlate" /\ q.id \in AnomalyIds \ StrayIds
           /\ q.det \in Detections /\ q.dec \in Decisions
           /\ ~Stored(q.id)
      /\ q.pc \in {"insert_attribution", "update_graph", "enrich"} =>
           /\ q.op = "correlate" /\ q.id \in AnomalyIds
           /\ q.det \in Detections
           /\ Stored(q.id) /\ anomalies[q.id].decision = q.dec
      /\ q.pc \in {"insert_anomaly", "insert_attribution"} => attributions[q.id] = None
      /\ q.pc \in {"update_graph", "enrich"} =>
           /\ attributions[q.id] # None
           /\ attributions[q.id].technique = CorrelateTechnique(q.det.attack)
      /\ q.pc \in {"update_status", "reread"} =>
           q.op \in ReviewOps /\ q.id \in AnomalyIds /\ Stored(q.id)
      /\ q.pc = "read_attribution" =>
           q.op \in {"decide", "narrative"} /\ q.id \in AnomalyIds /\ Stored(q.id)
      /\ q.pc = "compute" =>
           q.op = "decide" /\ q.id \in AnomalyIds /\ Stored(q.id)
      /\ q.pc = "save_narrative" =>
           q.op = "narrative" /\ q.id \in AnomalyIds /\ Stored(q.id)
      /\ q.pc = "record" =>
           q.op \in SoarOps /\ q.id \in AnomalyIds
      /\ q.pc = "audit" =>
           /\ q.op \in {"decide", "narrative"} \union ReviewOps \union SoarOps
           /\ q.id \in AnomalyIds
           /\ q.op \in {"decide", "narrative"} \union ReviewOps => Stored(q.id)
           /\ q.op = "decide" => q.dec \in Decisions
      /\ q.pc = "count" => q.op \in ListOps
      /\ q.op = "correlate" /\ q.code = 200 /\ q.id # None =>
           /\ q.id \in AnomalyIds
           /\ Stored(q.id) /\ anomalies[q.id].decision = q.dec
           /\ attributions[q.id] # None
           /\ attributions[q.id].technique = CorrelateTechnique(q.det.attack)

\* No two correlations draw the same identifier.
Unshared ==
  \A q, r \in Requests :
    req[q].op = "correlate" /\ req[r].op = "correlate" /\ req[q].id = req[r].id =>
      q = r \/ req[q].id = None

IInv ==
  /\ TypeOK
  /\ ReferencesExist
  /\ Unshared
  /\ \A r \in Requests : Sound(r)

---------------------------------------------------------------------------
(* The pure operators.                                                     *)

LEMMA TechniqueType ==
  ASSUME NEW attack
  PROVE  CorrelateTechnique(attack) \in Techniques
<1>1. ASSUME NEW l \in KnownLabels  PROVE MitreId[l] \in Techniques
  BY DEF MitreId, KnownLabels, DosVariants, Techniques
<1>2. ASSUME NEW s \in DOMAIN Spelling  PROVE Spelling[s] \in KnownLabels
  BY DEF Spelling, KnownLabels
<1>3. "T0000" \in Techniques
  BY DEF Techniques
<1> QED BY <1>1, <1>2, <1>3 DEF CorrelateTechnique

LEMMA DecisionType ==
  ASSUME NEW attack, NEW confidence, NEW used, NEW assets \in Nat
  PROVE  ComputeDecision(attack, confidence, used, assets) \in Decisions
<1> DEFINE radius == IF used THEN assets ELSE StaticBlastRadius(attack)
<1> DEFINE level == DecisionLevel(confidence, radius)
<1>1. radius \in Nat
  <2>1. ASSUME NEW l \in KnownLabels  PROVE StaticEstimate[l] \in Nat
    BY DEF StaticEstimate, KnownLabels, DosVariants
  <2> QED BY <2>1 DEF StaticBlastRadius
<1>2. level \in DecisionLevels
  <2> HIDE DEF radius
  <2> QED BY DEF DecisionLevel, DecisionLevels
<1>3. RecommendedAction(attack) \in ResponseActions \union {"none"}
  BY DEF RecommendedAction, ResponseActions
<1>4. ComputeDecision(attack, confidence, used, assets) =
        [ level  |-> level,
          human  |-> level \in {"recommend", "alert_only"},
          action |-> IF level \in {"auto_execute", "recommend"}
                       THEN RecommendedAction(attack) ELSE "none",
          radius |-> radius ]
  BY DEF ComputeDecision
<1> HIDE DEF radius, level
<1> QED BY <1>1, <1>2, <1>3, <1>4 DEF Decisions

LEMMA DecisionForType ==
  ASSUME TypeOK, NEW attack, NEW confidence, NEW technique, NEW g
  PROVE  DecisionFor(attack, confidence, technique, g) \in Decisions
<1> DEFINE linked == {x \in edges : x.technique = technique}
<1>1. IsFiniteSet(linked)
  BY FS_Subset DEF TypeOK
<1>2. IsFiniteSet({e.asset : e \in linked})
  <2> DEFINE named == {e.asset : e \in linked}
  <2>1. [e \in linked |-> e.asset] \in Surjection(linked, named)
    <3> HIDE DEF linked
    <3> QED BY DEF Surjection
  <2> HIDE DEF linked, named
  <2>2. IsFiniteSet(named)
    BY <1>1, <2>1, FS_Surjection
  <2> QED BY <2>2 DEF named
<1>3. ConnectedAssets(technique) \in Nat
  BY <1>2, FS_CardinalityType DEF ConnectedAssets
<1>4. CountConnectedAssets(g = "answered", ConnectedAssets(technique)) \in Nat
  BY <1>3 DEF CountConnectedAssets
<1> QED BY <1>4, DecisionType DEF DecisionFor

---------------------------------------------------------------------------
(* How a step moves its request.                                           *)

Moves(r) ==
  /\ req' \in [Requests -> RequestState]
  /\ \A q \in Requests : q # r => req'[q] = req[q]

\* It stays the same request, about the same anomaly and detection.
Carries(r) ==
  /\ req'[r].op  = req[r].op
  /\ req'[r].id  = req[r].id
  /\ req'[r].det = req[r].det

LEMMA ReplaceMoves ==
  ASSUME TypeOK, NEW r \in Requests, NEW x \in RequestState, req' = [req EXCEPT ![r] = x]
  PROVE  Moves(r) /\ req'[r] = x
BY DEF TypeOK, Moves

LEMMA GotoMoves ==
  ASSUME TypeOK, NEW r \in Requests, NEW pc \in Pcs, Goto(r, pc)
  PROVE  /\ Moves(r) /\ Carries(r)
         /\ req'[r].pc = pc /\ req'[r].code = req[r].code /\ req'[r].dec = req[r].dec
<1> DEFINE x == [req[r] EXCEPT !.pc = pc]
<1>1. req[r] \in RequestState
  BY DEF TypeOK
<1>2. x \in RequestState
  BY <1>1 DEF RequestState
<1>3. /\ x.op = req[r].op /\ x.id = req[r].id /\ x.det = req[r].det
      /\ x.pc = pc /\ x.code = req[r].code /\ x.dec = req[r].dec
  BY <1>1 DEF RequestState
<1>4. req' = [req EXCEPT ![r] = x]
  BY DEF Goto
<1> HIDE DEF x
<1> QED BY <1>2, <1>3, <1>4, ReplaceMoves DEF Carries

LEMMA AnswerMoves ==
  ASSUME TypeOK, NEW r \in Requests, NEW code \in Codes, Answer(r, code)
  PROVE  /\ Moves(r) /\ Carries(r)
         /\ req'[r].pc = "done" /\ req'[r].code = code /\ req'[r].dec = req[r].dec
<1> DEFINE x == [req[r] EXCEPT !.pc = "done", !.code = code]
<1>1. req[r] \in RequestState /\ "done" \in Pcs
  BY DEF TypeOK, Pcs
<1>2. x \in RequestState
  BY <1>1 DEF RequestState
<1>3. /\ x.op = req[r].op /\ x.id = req[r].id /\ x.det = req[r].det
      /\ x.pc = "done" /\ x.code = code /\ x.dec = req[r].dec
  BY <1>1 DEF RequestState
<1>4. req' = [req EXCEPT ![r] = x]
  BY DEF Answer, TypeOK
<1> HIDE DEF x
<1> QED BY <1>2, <1>3, <1>4, ReplaceMoves DEF Carries

\* A write whose failure is raised answers 5xx unless it is acknowledged.
LEMMA AfterMoves ==
  ASSUME TypeOK, NEW r \in Requests, NEW o, NEW next \in Pcs, After(r, o, next)
  PROVE  /\ Moves(r) /\ Carries(r) /\ req'[r].dec = req[r].dec
         /\ \/ o = "ok" /\ req'[r].pc = next /\ req'[r].code = req[r].code
            \/ o # "ok" /\ req'[r].pc = "done" /\ req'[r].code = 500
<1>1. CASE o = "ok"
  <2>1. Goto(r, next)
    BY <1>1 DEF After
  <2> QED BY <1>1, <2>1, GotoMoves
<1>2. CASE o # "ok"
  <2>1. Answer(r, 500) /\ 500 \in Codes
    BY <1>2 DEF After, Codes
  <2> QED BY <1>2, <2>1, AnswerMoves
<1> QED BY <1>1, <1>2

---------------------------------------------------------------------------
(* What a step of one request leaves to the others.                        *)

\* Rows stay, with their detection, decision and attribution.
Preserved ==
  \A a \in AnomalyIds :
    /\ Stored(a) => /\ anomalies'[a] # None
                    /\ anomalies'[a].decision = anomalies[a].decision
                    /\ anomalies'[a].det = anomalies[a].det
    /\ attributions[a] # None => attributions'[a] = attributions[a]

\* Only the correlation that owns an identifier makes rows appear under it.
AppearsOnlyFor(r) ==
  \A a \in AnomalyIds :
    \/ ~Stored(a) /\ anomalies'[a] # None
    \/ attributions[a] = None /\ attributions'[a] # None
    => req[r].op = "correlate" /\ req[r].id = a

LEMMA OthersStaySound ==
  ASSUME IInv, NEW r \in Requests, NEW q \in Requests, q # r, req'[q] = req[q],
         Preserved, AppearsOnlyFor(r)
  PROVE  Sound(q)'
<1> DEFINE a == req[q].id
<1>1. Sound(q)
  BY DEF IInv
<1>2. ASSUME a \in AnomalyIds, Stored(a)
      PROVE  anomalies'[a] # None /\ anomalies'[a].decision = anomalies[a].decision
  BY <1>2 DEF Preserved
<1>3. ASSUME a \in AnomalyIds, attributions[a] # None
      PROVE  attributions'[a] = attributions[a]
  BY <1>3 DEF Preserved
<1>4. ASSUME a \in AnomalyIds, req[q].op = "correlate"
      PROVE  /\ ~Stored(a) => anomalies'[a] = None
             /\ attributions[a] = None => attributions'[a] = None
  <2>1. a # None
    BY <1>4, ResponseAssumption
  <2>2. ~ (req[r].op = "correlate" /\ req[r].id = a)
    BY <1>4, <2>1 DEF IInv, Unshared
  <2> QED BY <1>4, <2>2 DEF AppearsOnlyFor
<1> QED BY <1>1, <1>2, <1>3, <1>4 DEF Sound, Stored

\* A step that moves one request, keeps what that request is about, and does
\* its own part of the invariant, keeps the invariant.
LEMMA Frame ==
  ASSUME IInv, NEW r \in Requests, Moves(r), Carries(r),
         Preserved, AppearsOnlyFor(r),
         TypeOK', ReferencesExist', Sound(r)'
  PROVE  IInv'
<1>1. ASSUME NEW q \in Requests  PROVE Sound(q)'
  <2>1. CASE q = r
    BY <2>1
  <2>2. CASE q # r
    BY <2>2, OthersStaySound DEF Moves
  <2> QED BY <2>1, <2>2
<1>2. ASSUME NEW q \in Requests  PROVE req'[q].op = req[q].op /\ req'[q].id = req[q].id
  BY DEF Moves, Carries
<1>3. Unshared'
  BY <1>2 DEF Unshared, IInv
<1> QED BY <1>1, <1>3 DEF IInv

\* The same for a step that leaves the tables alone.
LEMMA FrameTables ==
  ASSUME IInv, NEW r \in Requests, Moves(r), Carries(r),
         UNCHANGED tables, faults' \in 0 .. MaxFaults, Sound(r)'
  PROVE  IInv'
<1>1. Preserved /\ AppearsOnlyFor(r)
  BY DEF Preserved, AppearsOnlyFor, Stored, tables
<1>2. TypeOK'
  BY DEF IInv, TypeOK, tables, Moves
<1>3. ReferencesExist'
  BY DEF IInv, ReferencesExist, tables, Stored
<1> QED BY <1>1, <1>2, <1>3, Frame

LEMMA FaultType ==
  ASSUME TypeOK, Fault \/ UNCHANGED faults
  PROVE  faults' \in 0 .. MaxFaults
BY ResponseAssumption DEF TypeOK, Fault

LEMMA CostType ==
  ASSUME TypeOK, NEW o, CallCosts(o) \/ GraphCosts(o)
  PROVE  faults' \in 0 .. MaxFaults
BY FaultType DEF CallCosts, GraphCosts

---------------------------------------------------------------------------
(* The steps that leave the tables alone.                                  *)

LEMMA ReadFailsKeeps ==
  ASSUME IInv, NEW r \in Requests, ReadFails(r)
  PROVE  IInv'
<1>1. /\ Moves(r) /\ Carries(r) /\ req'[r].pc = "done" /\ req'[r].code = 500
  BY AnswerMoves DEF IInv, ReadFails, Codes
<1>2. UNCHANGED tables /\ faults' \in 0 .. MaxFaults
  BY FaultType DEF IInv, ReadFails
<1>3. Sound(r)'
  BY <1>1 DEF Sound
<1> QED BY <1>1, <1>2, <1>3, FrameTables

LEMMA CrashKeeps ==
  ASSUME IInv, NEW r \in Requests, Crash(r)
  PROVE  IInv'
<1>1. /\ Moves(r) /\ Carries(r) /\ req'[r].pc = "crashed" /\ req'[r].code = req[r].code
      /\ req'[r].dec = req[r].dec
  BY GotoMoves DEF IInv, Crash, Pcs
<1>2. UNCHANGED tables /\ faults' \in 0 .. MaxFaults
  BY FaultType DEF IInv, Crash
<1>3. Sound(r)'
  BY <1>1, <1>2 DEF IInv, Sound, Carries, tables, Stored
<1> QED BY <1>1, <1>2, <1>3, FrameTables

LEMMA RereadKeeps ==
  ASSUME IInv, NEW r \in Requests, Reread(r)
  PROVE  IInv'
<1> DEFINE x == [req[r] EXCEPT !.pc = "audit", !.final = anomalies[req[r].id].status]
<1>1. /\ req[r] \in RequestState /\ req[r].id \in AnomalyIds /\ req[r].op \in ReviewOps
      /\ Stored(req[r].id) /\ req' = [req EXCEPT ![r] = x]
      /\ UNCHANGED tables /\ UNCHANGED faults
  BY DEF IInv, TypeOK, Sound, Reread
<1>2. anomalies[req[r].id].status \in Statuses /\ "audit" \in Pcs
  BY <1>1 DEF IInv, TypeOK, Stored, AnomalyRow, Pcs
<1>3. x \in RequestState
  BY <1>1, <1>2 DEF RequestState
<1>4. x.op = req[r].op /\ x.id = req[r].id /\ x.det = req[r].det /\ x.pc = "audit"
  BY <1>1 DEF RequestState
<1> HIDE DEF x
<1>5. Moves(r) /\ Carries(r) /\ req'[r] = x
  BY <1>1, <1>3, <1>4, ReplaceMoves DEF IInv, Carries
<1>6. Sound(r)'
  BY <1>1, <1>4, <1>5 DEF Sound, Stored, tables, ReviewOps
<1>7. faults' \in 0 .. MaxFaults
  BY <1>1, FaultType DEF IInv
<1> QED BY <1>1, <1>5, <1>6, <1>7, FrameTables

LEMMA ReadAttributionKeeps ==
  ASSUME IInv, NEW r \in Requests, ReadAttribution(r)
  PROVE  IInv'
<1> DEFINE next == IF req[r].op = "decide" THEN "compute" ELSE "audit"
<1> DEFINE x == [req[r] EXCEPT !.attr = attributions[req[r].id], !.pc = next]
<1>1. /\ req[r] \in RequestState /\ req[r].id \in AnomalyIds
      /\ req[r].op \in {"decide", "narrative"}
      /\ Stored(req[r].id) /\ req' = [req EXCEPT ![r] = x]
      /\ UNCHANGED tables /\ UNCHANGED faults
  BY DEF IInv, TypeOK, Sound, ReadAttribution
<1>2. attributions[req[r].id] \in AttributionRow \union {None} /\ next \in Pcs
  BY <1>1 DEF IInv, TypeOK, Pcs
<1>3. /\ req[r].op = "decide" => next = "compute"
      /\ req[r].op # "decide" => next = "audit"
  OBVIOUS
<1> HIDE DEF next
<1>4. x \in RequestState
  BY <1>1, <1>2 DEF RequestState
<1>5. x.op = req[r].op /\ x.id = req[r].id /\ x.det = req[r].det /\ x.pc = next
  BY <1>1 DEF RequestState
<1> HIDE DEF x
<1>6. Moves(r) /\ Carries(r) /\ req'[r] = x
  BY <1>1, <1>4, <1>5, ReplaceMoves DEF IInv, Carries
<1>7. Sound(r)'
  BY <1>1, <1>3, <1>5, <1>6 DEF Sound, Stored, tables
<1>8. faults' \in 0 .. MaxFaults
  BY <1>1, FaultType DEF IInv
<1> QED BY <1>1, <1>6, <1>7, <1>8, FrameTables

LEMMA ComputeKeeps ==
  ASSUME IInv, NEW r \in Requests, Compute(r)
  PROVE  IInv'
<1>1. /\ req[r] \in RequestState /\ req[r].id \in AnomalyIds
      /\ req[r].op = "decide" /\ Stored(req[r].id) /\ UNCHANGED tables
  BY DEF IInv, TypeOK, Sound, Compute
<1>2. PICK g \in GraphAnswers, dec \in Decisions :
           /\ GraphCosts(g)
           /\ req' = [req EXCEPT ![r].pc = "audit", ![r].graph = g, ![r].dec = dec]
  BY DecisionForType DEF IInv, Compute
<1> DEFINE x == [req[r] EXCEPT !.pc = "audit", !.graph = g, !.dec = dec]
<1>3. req' = [req EXCEPT ![r] = x]
  BY <1>2 DEF IInv, TypeOK
<1>4. g \in {"unused", "answered", "down"} /\ "audit" \in Pcs
  BY <1>2 DEF GraphAnswers, Pcs
<1>5. x \in RequestState
  BY <1>1, <1>2, <1>4 DEF RequestState
<1>6. /\ x.op = req[r].op /\ x.id = req[r].id /\ x.det = req[r].det
      /\ x.pc = "audit" /\ x.dec = dec
  BY <1>1 DEF RequestState
<1> HIDE DEF x
<1>7. Moves(r) /\ Carries(r) /\ req'[r] = x
  BY <1>3, <1>5, <1>6, ReplaceMoves DEF IInv, Carries
<1>8. Sound(r)'
  BY <1>1, <1>2, <1>6, <1>7 DEF Sound, Stored, tables
<1>9. faults' \in 0 .. MaxFaults
  BY <1>2, CostType DEF IInv
<1> QED BY <1>1, <1>7, <1>8, <1>9, FrameTables

LEMMA EnrichKeeps ==
  ASSUME IInv, NEW r \in Requests, Enrich(r)
  PROVE  IInv'
<1>1. /\ Moves(r) /\ Carries(r) /\ req'[r].dec = req[r].dec
      /\ req'[r].pc = "done" /\ req'[r].code = 200
  BY AnswerMoves DEF IInv, Enrich, Codes
<1>2. UNCHANGED tables /\ UNCHANGED faults /\ req[r].pc = "enrich"
  BY DEF Enrich
<1>3. Sound(r)'
  BY <1>1, <1>2 DEF IInv, Sound, Carries, tables, Stored
<1>4. faults' \in 0 .. MaxFaults
  BY <1>2, FaultType DEF IInv
<1> QED BY <1>1, <1>2, <1>3, <1>4, FrameTables

LEMMA CountRowsKeeps ==
  ASSUME IInv, NEW r \in Requests, CountRows(r)
  PROVE  IInv'
<1> DEFINE x == [req[r] EXCEPT !.pc = "done", !.code = 200, !.total = AnomalyCount]
<1>1. /\ req[r] \in RequestState /\ req[r].op \in ListOps
      /\ req' = [req EXCEPT ![r] = x]
      /\ UNCHANGED tables /\ UNCHANGED faults
  BY ZenonT(60) DEF IInv, TypeOK, Sound, CountRows
<1>2. AnomalyCount \in Nat
  BY ResponseAssumption, FS_Subset, FS_CardinalityType DEF AnomalyCount
<1>3. "done" \in Pcs /\ 200 \in Codes
  BY DEF Pcs, Codes
<1>4. x \in RequestState
  <2>1. ASSUME NEW code \in Codes, NEW n \in Nat
        PROVE  [req[r] EXCEPT !.pc = "done", !.code = code, !.total = n] \in RequestState
    BY <1>1, <1>3 DEF RequestState
  <2> QED BY <1>2, <1>3, <2>1
<1>5. x.op = req[r].op /\ x.id = req[r].id /\ x.det = req[r].det /\ x.pc = "done"
  BY <1>1 DEF RequestState
<1> HIDE DEF x
<1>6. Moves(r) /\ Carries(r) /\ req'[r] = x
  BY <1>1, <1>4, <1>5, ReplaceMoves DEF IInv, Carries
<1>7. Sound(r)'
  BY <1>1, <1>5, <1>6 DEF Sound, ListOps
<1>8. faults' \in 0 .. MaxFaults
  BY <1>1, FaultType DEF IInv
<1> QED BY <1>1, <1>6, <1>7, <1>8, FrameTables

---------------------------------------------------------------------------
(* The steps that write.                                                   *)

LEMMA InsertAnomalyKeeps ==
  ASSUME IInv, NEW r \in Requests, InsertAnomaly(r)
  PROVE  IInv'
<1> DEFINE a == req[r].id
<1> DEFINE row == [det |-> req[r].det, status |-> "new", decision |-> req[r].dec,
                   narrative |-> "none"]
<1>1. /\ req[r].op = "correlate" /\ a \in AnomalyIds /\ req[r].det \in Detections
      /\ req[r].dec \in Decisions /\ ~Stored(a) /\ attributions[a] = None
      /\ UNCHANGED <<attributions, audit, soar, edges>>
      /\ req[r].pc = "insert_anomaly"
  BY DEF IInv, Sound, InsertAnomaly
<1>2. PICK o \in WriteOutcomes :
           /\ CallCosts(o)
           /\ anomalies' = IF Applied(o) THEN [anomalies EXCEPT ![a] = row] ELSE anomalies
           /\ After(r, o, "insert_attribution")
  BY DEF InsertAnomaly
<1>3. /\ row \in AnomalyRow /\ row # None
      /\ row.decision = req[r].dec
  BY <1>1, ResponseAssumption DEF AnomalyRow, Statuses
<1> HIDE DEF row
<1>4. anomalies' \in [AnomalyIds -> AnomalyRow \union {None}]
  BY <1>2, <1>3 DEF IInv, TypeOK
<1>5. ASSUME NEW b \in AnomalyIds, b # a  PROVE anomalies'[b] = anomalies[b]
  BY <1>2, <1>5 DEF IInv, TypeOK
<1>6. Applied(o) => anomalies'[a] = row
  BY <1>1, <1>2 DEF IInv, TypeOK
<1>7. Preserved /\ AppearsOnlyFor(r)
  BY <1>1, <1>5 DEF Preserved, AppearsOnlyFor, Stored
<1>8. /\ Moves(r) /\ Carries(r) /\ req'[r].dec = req[r].dec
      /\ \/ o = "ok" /\ req'[r].pc = "insert_attribution" /\ req'[r].code = req[r].code
         \/ o # "ok" /\ req'[r].pc = "done" /\ req'[r].code = 500
  BY <1>2, AfterMoves DEF IInv, Pcs
<1>9. TypeOK'
  BY <1>1, <1>2, <1>4, <1>8, CostType DEF IInv, TypeOK, Moves
<1>10. ReferencesExist'
  BY <1>1, <1>5, <1>7 DEF IInv, TypeOK, ReferencesExist, Preserved, Stored, AuditRow, SoarRow, Edge
<1>11. Sound(r)'
  <2>1. CASE o = "ok"
    <3>1. req[r].code # 200
      BY <1>1, ResponseAssumption DEF IInv, Sound
    <3> QED BY <1>1, <1>3, <1>6, <1>8, <2>1, <3>1 DEF Sound, Stored, Carries, Applied
  <2>2. CASE o # "ok"
    BY <1>8, <2>2 DEF Sound
  <2> QED BY <2>1, <2>2
<1> QED BY <1>7, <1>8, <1>9, <1>10, <1>11, Frame

LEMMA InsertAttributionKeeps ==
  ASSUME IInv, NEW r \in Requests, InsertAttribution(r)
  PROVE  IInv'
<1> DEFINE a == req[r].id
<1> DEFINE row == [technique  |-> CorrelateTechnique(req[r].det.attack),
                   confidence |-> req[r].det.confidence]
<1>1. /\ req[r].op = "correlate" /\ a \in AnomalyIds /\ req[r].det \in Detections
      /\ Stored(a) /\ anomalies[a].decision = req[r].dec /\ attributions[a] = None
      /\ UNCHANGED <<anomalies, audit, soar, edges>>
      /\ req[r].pc = "insert_attribution"
  BY DEF IInv, Sound, InsertAttribution
<1>2. PICK o \in WriteOutcomes :
           /\ CallCosts(o)
           /\ attributions' = IF Applied(o) THEN [attributions EXCEPT ![a] = row]
                                            ELSE attributions
           /\ After(r, o, "update_graph")
  BY <1>1 DEF InsertAttribution, Accepted
<1>3. /\ row \in AttributionRow /\ row # None
      /\ row.technique = CorrelateTechnique(req[r].det.attack)
  BY <1>1, ResponseAssumption, TechniqueType DEF AttributionRow
<1> HIDE DEF row
<1>4. attributions' \in [AnomalyIds -> AttributionRow \union {None}]
  BY <1>2, <1>3 DEF IInv, TypeOK
<1>5. ASSUME NEW b \in AnomalyIds, b # a  PROVE attributions'[b] = attributions[b]
  BY <1>2, <1>5 DEF IInv, TypeOK
<1>6. Applied(o) => attributions'[a] = row
  BY <1>1, <1>2 DEF IInv, TypeOK
<1>7. Preserved /\ AppearsOnlyFor(r)
  BY <1>1, <1>5 DEF Preserved, AppearsOnlyFor, Stored
<1>8. /\ Moves(r) /\ Carries(r) /\ req'[r].dec = req[r].dec
      /\ \/ o = "ok" /\ req'[r].pc = "update_graph" /\ req'[r].code = req[r].code
         \/ o # "ok" /\ req'[r].pc = "done" /\ req'[r].code = 500
  BY <1>2, AfterMoves DEF IInv, Pcs
<1>9. TypeOK'
  BY <1>1, <1>2, <1>4, <1>8, CostType DEF IInv, TypeOK, Moves
<1>10. ReferencesExist'
  BY <1>1, <1>5, <1>7 DEF IInv, TypeOK, ReferencesExist, Preserved, Stored, AuditRow, SoarRow, Edge
<1>11. Sound(r)'
  <2>1. CASE o = "ok"
    BY <1>1, <1>3, <1>6, <1>8, <2>1 DEF Sound, Stored, Carries, Applied
  <2>2. CASE o # "ok"
    BY <1>8, <2>2 DEF Sound
  <2> QED BY <2>1, <2>2
<1> QED BY <1>7, <1>8, <1>9, <1>10, <1>11, Frame

LEMMA UpdateGraphKeeps ==
  ASSUME IInv, NEW r \in Requests, UpdateGraph(r)
  PROVE  IInv'
<1> DEFINE a == req[r].id
<1> DEFINE e == [asset |-> req[r].det.asset, technique |-> CorrelateTechnique(req[r].det.attack),
                 id |-> a]
<1>1. /\ req[r].op = "correlate" /\ a \in AnomalyIds /\ req[r].det \in Detections
      /\ Stored(a) /\ anomalies[a].decision = req[r].dec
      /\ attributions[a] # None
      /\ attributions[a].technique = CorrelateTechnique(req[r].det.attack)
      /\ UNCHANGED <<anomalies, attributions, audit, soar>>
  BY DEF IInv, Sound, UpdateGraph
<1>2. PICK o : CallCosts(o) /\ (edges' = edges \union {e} \/ edges' = edges)
  BY DEF UpdateGraph
<1>3. e \in Edge /\ e.id = a
  BY <1>1, TechniqueType DEF Edge, Assets
<1> HIDE DEF e
<1>4. edges' \subseteq Edge /\ IsFiniteSet(edges')
  <2>1. edges \subseteq Edge /\ IsFiniteSet(edges) /\ IsFiniteSet(edges \union {e})
    BY FS_AddElement DEF IInv, TypeOK
  <2> QED BY <1>2, <1>3, <2>1
<1>5. Preserved /\ AppearsOnlyFor(r)
  BY <1>1 DEF Preserved, AppearsOnlyFor, Stored
<1>6. /\ Moves(r) /\ Carries(r) /\ req'[r].dec = req[r].dec
      /\ req'[r].pc = "enrich" /\ req'[r].code = req[r].code
  BY GotoMoves DEF IInv, UpdateGraph, Pcs
<1>7. TypeOK'
  BY <1>1, <1>2, <1>4, <1>6, CostType DEF IInv, TypeOK, Moves
<1>8. ReferencesExist'
  BY <1>1, <1>2, <1>3 DEF IInv, ReferencesExist, Stored
<1>9. Sound(r)'
  BY <1>1, <1>6 DEF Sound, Stored, Carries
<1> QED BY <1>5, <1>6, <1>7, <1>8, <1>9, Frame

\* An update of one column of a stored row keeps everything the others rely on.
LEMMA UpdateKeeps ==
  ASSUME IInv, NEW r \in Requests, NEW x \in AnomalyRow,
         req[r].id \in AnomalyIds, Stored(req[r].id),
         x.det = anomalies[req[r].id].det, x.decision = anomalies[req[r].id].decision,
         anomalies' \in {anomalies, [anomalies EXCEPT ![req[r].id] = x]},
         UNCHANGED <<attributions, audit, soar, edges>>, faults' \in 0 .. MaxFaults,
         Moves(r), Carries(r), Sound(r)'
  PROVE  IInv'
<1>1. x # None
  BY ResponseAssumption
<1>2. anomalies' \in [AnomalyIds -> AnomalyRow \union {None}]
  BY DEF IInv, TypeOK
<1>3. Preserved /\ AppearsOnlyFor(r)
  BY <1>1 DEF IInv, TypeOK, Preserved, AppearsOnlyFor, Stored
<1>4. TypeOK'
  BY <1>2 DEF IInv, TypeOK, Moves
<1>5. ReferencesExist'
  BY <1>3 DEF IInv, TypeOK, ReferencesExist, Preserved, Stored, AuditRow, SoarRow, Edge
<1> QED BY <1>3, <1>4, <1>5, Frame

LEMMA UpdateStatusKeeps ==
  ASSUME IInv, NEW r \in Requests, UpdateStatus(r)
  PROVE  IInv'
<1> DEFINE a == req[r].id
<1> DEFINE x == [anomalies[a] EXCEPT !.status = Verdict(req[r].op)]
<1>1. /\ req[r].op \in ReviewOps /\ a \in AnomalyIds /\ Stored(a)
      /\ UNCHANGED <<attributions, audit, soar, edges>>
  BY DEF IInv, Sound, UpdateStatus
<1>2. PICK o \in WriteOutcomes :
           /\ CallCosts(o)
           /\ anomalies' = IF Applied(o) THEN [anomalies EXCEPT ![a] = x] ELSE anomalies
           /\ After(r, o, "reread")
  BY DEF UpdateStatus, IInv, TypeOK
<1>3. anomalies[a] \in AnomalyRow /\ Verdict(req[r].op) \in Statuses
  BY <1>1 DEF IInv, TypeOK, Stored, Verdict, Statuses
<1>4. x \in AnomalyRow /\ x.det = anomalies[a].det /\ x.decision = anomalies[a].decision
  BY <1>3 DEF AnomalyRow
<1> HIDE DEF x
<1>5. x # None
  BY <1>4, ResponseAssumption
<1>6. /\ Moves(r) /\ Carries(r)
      /\ \/ o = "ok" /\ req'[r].pc = "reread"
         \/ o # "ok" /\ req'[r].pc = "done"
  BY <1>2, AfterMoves DEF IInv, Pcs
<1>7. anomalies'[a] # None
  BY <1>1, <1>2, <1>5 DEF IInv, TypeOK, Stored
<1>8. Sound(r)'
  BY <1>1, <1>6, <1>7 DEF Sound, Carries, ReviewOps, Stored
<1>9. faults' \in 0 .. MaxFaults
  BY <1>2, CostType DEF IInv
<1> QED BY <1>1, <1>2, <1>4, <1>6, <1>8, <1>9, UpdateKeeps

LEMMA SaveNarrativeKeeps ==
  ASSUME IInv, NEW r \in Requests, SaveNarrative(r)
  PROVE  IInv'
<1> DEFINE a == req[r].id
<1> DEFINE x == [anomalies[a] EXCEPT !.narrative = NarrativeOf(req[r].attr)]
<1>1. /\ req[r].op = "narrative" /\ a \in AnomalyIds /\ Stored(a)
      /\ UNCHANGED <<attributions, audit, soar, edges>>
  BY DEF IInv, Sound, SaveNarrative
<1>2. PICK o \in WriteOutcomes :
           /\ CallCosts(o)
           /\ anomalies' = IF Applied(o) THEN [anomalies EXCEPT ![a] = x] ELSE anomalies
  BY DEF SaveNarrative, IInv, TypeOK
<1>3. anomalies[a] \in AnomalyRow /\ NarrativeOf(req[r].attr) \in Techniques
  BY <1>1 DEF IInv, TypeOK, Stored, RequestState, AttributionRow, NarrativeOf, Techniques
<1>4. x \in AnomalyRow /\ x.det = anomalies[a].det /\ x.decision = anomalies[a].decision
  BY <1>3 DEF AnomalyRow
<1> HIDE DEF x
<1>5. Moves(r) /\ Carries(r) /\ req'[r].pc = "done"
  BY AnswerMoves DEF IInv, SaveNarrative, Codes
<1>6. Sound(r)'
  BY <1>1, <1>5 DEF Sound, Carries
<1>7. faults' \in 0 .. MaxFaults
  BY <1>2, CostType DEF IInv
<1> QED BY <1>1, <1>2, <1>4, <1>5, <1>6, <1>7, UpdateKeeps

LEMMA RecordSoarKeeps ==
  ASSUME IInv, NEW r \in Requests, RecordSoar(r)
  PROVE  IInv'
<1> DEFINE entry == [by |-> r, id |-> req[r].id, action |-> req[r].op]
<1>1. /\ req[r].op \in SoarOps /\ req[r].id \in AnomalyIds
      /\ UNCHANGED <<anomalies, attributions, audit, edges>>
  BY DEF IInv, Sound, RecordSoar
<1>2. PICK o \in WriteOutcomes :
           /\ CallCosts(o)
           /\ soar' = IF Accepted(o, req[r].id) THEN soar \union {entry} ELSE soar
  BY DEF RecordSoar
<1>3. entry \in SoarRow /\ entry.id = req[r].id
  BY <1>1 DEF SoarRow
<1> HIDE DEF entry
<1>4. \A x \in soar' : x \in soar \/ (x.id = req[r].id /\ Stored(req[r].id))
  BY <1>2, <1>3 DEF Accepted
<1>5. Moves(r) /\ Carries(r) /\ req'[r].pc = "audit" /\ req'[r].code = req[r].code
  BY GotoMoves DEF IInv, RecordSoar, Pcs
<1>6. Preserved /\ AppearsOnlyFor(r)
  BY <1>1 DEF Preserved, AppearsOnlyFor, Stored
<1>7. TypeOK'
  BY <1>1, <1>2, <1>3, <1>5, CostType DEF IInv, TypeOK, Moves
<1>8. ReferencesExist'
  BY <1>1, <1>4 DEF IInv, ReferencesExist, Stored
<1>9. Sound(r)'
  BY <1>1, <1>5 DEF Sound, Carries, SoarOps, ReviewOps
<1> QED BY <1>5, <1>6, <1>7, <1>8, <1>9, Frame

LEMMA LogActionKeeps ==
  ASSUME IInv, NEW r \in Requests, LogAction(r)
  PROVE  IInv'
<1>1. /\ req[r] \in RequestState /\ req[r].id \in AnomalyIds
      /\ req[r].op \in {"decide", "narrative"} \union ReviewOps \union SoarOps
      /\ req[r].op \in {"decide", "narrative"} \union ReviewOps => Stored(req[r].id)
      /\ req[r].op = "decide" => req[r].dec \in Decisions
      /\ UNCHANGED <<anomalies, attributions, soar, edges>>
  BY DEF IInv, TypeOK, Sound, LogAction
<1>2. PICK o \in WriteOutcomes :
           /\ CallCosts(o)
           /\ audit' = IF Accepted(o, req[r].id) THEN audit \union {AuditEntry(r)} ELSE audit
  BY DEF LogAction
<1>3. AuditEntry(r) \in AuditRow /\ AuditEntry(r).id = req[r].id
  <2>1. ActionType(req[r].op) \in ActionTypes
    BY <1>1 DEF ActionType, ActionTypes, ReviewOps, SoarOps
  <2>2. (IF req[r].op \in ReviewOps THEN req[r].prev ELSE "none") \in Statuses \union {"none"}
    BY <1>1 DEF RequestState
  <2>3. (IF req[r].op \in ReviewOps THEN Verdict(req[r].op) ELSE "none") \in Statuses \union {"none"}
    BY DEF Verdict, Statuses
  <2>4. (IF req[r].op = "decide" THEN req[r].dec.level ELSE "none") \in DecisionLevels \union {"none"}
    BY <1>1 DEF Decisions
  <2> QED BY <1>1, <2>1, <2>2, <2>3, <2>4 DEF AuditEntry, AuditRow
<1>4. \A x \in audit' : x \in audit \/ (x.id = req[r].id /\ Stored(req[r].id))
  BY <1>2, <1>3 DEF Accepted
<1>5. /\ Moves(r) /\ Carries(r)
      /\ \/ req[r].op = "narrative" /\ req'[r].pc = "save_narrative"
         \/ req[r].op # "narrative" /\ req'[r].pc = "done"
  <2>1. "save_narrative" \in Pcs /\ 200 \in Codes
    BY DEF Pcs, Codes
  <2> QED BY <2>1, GotoMoves, AnswerMoves DEF IInv, LogAction
<1>6. Preserved /\ AppearsOnlyFor(r)
  BY <1>1 DEF Preserved, AppearsOnlyFor, Stored
<1>7. TypeOK'
  BY <1>1, <1>2, <1>3, <1>5, CostType DEF IInv, TypeOK, Moves
<1>8. ReferencesExist'
  BY <1>1, <1>4 DEF IInv, ReferencesExist, Stored
<1>9. Sound(r)'
  BY <1>1, <1>5 DEF Sound, Carries, SoarOps, ReviewOps, Stored
<1> QED BY <1>5, <1>6, <1>7, <1>8, <1>9, Frame

---------------------------------------------------------------------------
(* The steps that take a request up.                                       *)

\* A request taken up as x, with the tables as they were: all that is left to
\* show is that x is sound, and that a correlation draws a new identifier.
LEMMA Takes ==
  ASSUME IInv, NEW r \in Requests, NEW x \in RequestState,
         req' = [req EXCEPT ![r] = x], UNCHANGED tables, faults' \in 0 .. MaxFaults,
         x.op = "correlate" =>
           x.id = None \/ \A q \in Requests : req[q].id # x.id,
         Sound(r)'
  PROVE  IInv'
<1>1. Moves(r) /\ req'[r] = x
  BY ReplaceMoves DEF IInv
<1>2. Preserved /\ AppearsOnlyFor(r)
  BY DEF Preserved, AppearsOnlyFor, Stored, tables
<1>3. TypeOK'
  BY <1>1 DEF IInv, TypeOK, tables, Moves
<1>4. ReferencesExist'
  BY DEF IInv, ReferencesExist, tables, Stored
<1>5. ASSUME NEW q \in Requests  PROVE Sound(q)'
  BY <1>1, <1>2, OthersStaySound DEF Moves
<1>6. Unshared'
  <2> SUFFICES ASSUME NEW p \in Requests, NEW q \in Requests,
                      req'[p].op = "correlate", req'[q].op = "correlate",
                      req'[p].id = req'[q].id, p # q
               PROVE  req'[p].id = None
    BY DEF Unshared
  <2>1. CASE p # r /\ q # r
    BY <1>1, <2>1 DEF IInv, Unshared, Moves
  <2>2. CASE p = r
    BY <1>1, <2>2 DEF Moves
  <2>3. CASE q = r
    BY <1>1, <2>3 DEF Moves
  <2> QED BY <2>1, <2>2, <2>3
<1> QED BY <1>3, <1>4, <1>5, <1>6 DEF IInv

LEMMA IdleType == Idle \in RequestState
<1>1. "idle" \in Pcs /\ 0 \in Codes
  BY DEF Pcs, Codes
<1>2. ASSUME NEW pc \in Pcs, NEW code \in Codes
      PROVE  [ op |-> "none", pc |-> pc, id |-> None, det |-> None, dec |-> None,
               attr |-> None, graph |-> "unused", prev |-> "none", final |-> "none",
               items |-> 0, total |-> 0, code |-> code ] \in RequestState
  BY DEF RequestState
<1> QED BY <1>1, <1>2 DEF Idle

LEMMA FetchTakes ==
  ASSUME IInv, NEW r \in Requests, NEW op \in AllOps, op # "correlate",
         NEW a \in AnomalyIds, NEW next \in Pcs, Fetch(r, op, a, next)
  PROVE  \E x \in RequestState :
           /\ req' = [req EXCEPT ![r] = x]
           /\ x.op = op /\ x.id = a
           /\ \/ x.pc = next /\ Stored(a)
              \/ x.pc = "done"
           /\ faults' \in 0 .. MaxFaults
<1> DEFINE begun == [Idle EXCEPT !.op = op, !.id = a]
<1>1. begun \in RequestState /\ begun.op = op /\ begun.id = a
  BY IdleType DEF RequestState
<1>2. "done" \in Pcs /\ 404 \in Codes /\ 500 \in Codes
  BY DEF Pcs, Codes
<1> DEFINE Found == /\ Stored(a)
                    /\ req' = [req EXCEPT ![r] =
                                [begun EXCEPT !.pc = next, !.prev = anomalies[a].status]]
           Over(code) == req' = [req EXCEPT ![r] = [begun EXCEPT !.pc = "done", !.code = code]]
<1>3. Found \/ Over(404) \/ Over(500)
  BY DEF Fetch
<1>4. faults' \in 0 .. MaxFaults
  <2>1. UNCHANGED faults \/ Fault
    BY DEF Fetch
  <2> QED BY <2>1, FaultType DEF IInv
<1> HIDE DEF begun
<1>5. ASSUME NEW x, x = [begun EXCEPT !.pc = next, !.prev = anomalies[a].status], Stored(a)
      PROVE  x \in RequestState /\ x.op = op /\ x.id = a /\ x.pc = next
  <2>1. anomalies[a].status \in Statuses
    BY <1>5 DEF IInv, TypeOK, Stored, AnomalyRow
  <2> QED BY <1>1, <1>5, <2>1 DEF RequestState
<1>6. ASSUME NEW x, NEW code \in Codes, x = [begun EXCEPT !.pc = "done", !.code = code]
      PROVE  x \in RequestState /\ x.op = op /\ x.id = a /\ x.pc = "done"
  BY ZenonT(60), <1>1, <1>2, <1>6 DEF RequestState
<1>7. CASE Found
  <2>1. PICK x : x = [begun EXCEPT !.pc = next, !.prev = anomalies[a].status]
    OBVIOUS
  <2> QED BY <1>4, <1>5, <1>7, <2>1
<1>8. CASE \E code \in Codes : Over(code)
  <2>1. PICK code \in Codes : Over(code)
    BY <1>8
  <2>2. PICK x : x = [begun EXCEPT !.pc = "done", !.code = code]
    OBVIOUS
  <2> QED BY <1>4, <1>6, <2>1, <2>2
<1> HIDE DEF Found, Over
<1> QED BY <1>2, <1>3, <1>7, <1>8

\* The handlers that start with a fetch.
LEMMA FetchKeeps ==
  ASSUME IInv, NEW r \in Requests, NEW op \in AllOps, NEW a \in AnomalyIds,
         NEW next \in Pcs, Fetch(r, op, a, next), UNCHANGED tables,
         \/ op \in ReviewOps /\ next = "update_status"
         \/ op \in {"decide", "narrative"} /\ next = "read_attribution"
  PROVE  IInv'
<1>1. op # "correlate"
  BY DEF ReviewOps
<1>2. PICK x \in RequestState :
           /\ req' = [req EXCEPT ![r] = x]
           /\ x.op = op /\ x.id = a
           /\ \/ x.pc = next /\ Stored(a)
              \/ x.pc = "done"
           /\ faults' \in 0 .. MaxFaults
  BY <1>1, FetchTakes
<1>3. req'[r] = x
  BY <1>2 DEF IInv, TypeOK
<1>4. Sound(r)'
  BY <1>1, <1>2, <1>3 DEF Sound, Stored, tables
<1> QED BY <1>1, <1>2, <1>4, Takes

LEMMA CorrelateKeeps ==
  ASSUME IInv, NEW r \in Requests, NEW d \in Detections, Correlate(r, d)
  PROVE  IInv'
<1>1. "insert_anomaly" \in Pcs /\ "done" \in Pcs /\ 200 \in Codes
  BY DEF Pcs, Codes
<1>2. CASE d.attack = "BENIGN"
  <2> DEFINE x == [Idle EXCEPT !.op = "correlate", !.det = d, !.pc = "done", !.code = 200]
  <2>1. req' = [req EXCEPT ![r] = x] /\ UNCHANGED tables /\ UNCHANGED faults
    BY <1>2 DEF Correlate
  <2>2. ASSUME NEW code \in Codes
        PROVE  [Idle EXCEPT !.op = "correlate", !.det = d, !.pc = "done", !.code = code]
                 \in RequestState
    BY <1>1, IdleType DEF RequestState, AllOps
  <2>3. x \in RequestState
    BY <1>1, <2>2
  <2>4. x.op = "correlate" /\ x.id = None /\ x.pc = "done"
    BY DEF Idle
  <2> HIDE DEF x
  <2>5. req'[r] = x
    BY <2>1 DEF IInv, TypeOK
  <2>6. Sound(r)'
    BY <2>4, <2>5 DEF Sound
  <2>7. faults' \in 0 .. MaxFaults
    BY <2>1, FaultType DEF IInv
  <2> QED BY <2>1, <2>3, <2>4, <2>6, <2>7, Takes
<1>3. CASE d.attack # "BENIGN"
  <2>1. PICK a \in AnomalyIds, g \in GraphAnswers, dec \in Decisions :
             /\ Fresh(a) /\ GraphCosts(g)
             /\ req' = [req EXCEPT ![r] =
                  [Idle EXCEPT !.op = "correlate", !.det = d, !.id = a, !.graph = g,
                               !.pc = "insert_anomaly", !.dec = dec]]
             /\ UNCHANGED tables
    BY <1>3, DecisionForType DEF IInv, Correlate
  <2> DEFINE x == [Idle EXCEPT !.op = "correlate", !.det = d, !.id = a, !.graph = g,
                               !.pc = "insert_anomaly", !.dec = dec]
  <2>2. g \in {"unused", "answered", "down"}
    BY <2>1 DEF GraphAnswers
  <2>3. x \in RequestState
    BY <1>1, <2>2, IdleType DEF RequestState, AllOps
  <2>4. /\ x.op = "correlate" /\ x.id = a /\ x.det = d /\ x.dec = dec
        /\ x.pc = "insert_anomaly" /\ x.code = 0
    BY DEF Idle
  <2>5. req' = [req EXCEPT ![r] = x]
    BY <2>1
  <2> HIDE DEF x
  <2>6. req'[r] = x
    BY <2>5 DEF IInv, TypeOK
  <2>7. /\ a \notin StrayIds /\ ~Stored(a) /\ attributions[a] = None
        /\ \A q \in Requests : req[q].id # a
    BY <2>1 DEF Fresh, IInv, ReferencesExist
  <2>8. Sound(r)'
    <3>1. /\ req'[r].op = "correlate" /\ req'[r].id = a /\ req'[r].det = d /\ req'[r].dec = dec
          /\ req'[r].pc = "insert_anomaly" /\ req'[r].code = 0
      BY <2>4, <2>6
    <3>2. a \in AnomalyIds \ StrayIds /\ ~Stored(a)' /\ attributions'[a] = None
      BY <2>1, <2>7 DEF Stored, tables
    <3> QED BY <3>1, <3>2 DEF Sound
  <2>9. faults' \in 0 .. MaxFaults
    BY <2>1, CostType DEF IInv
  <2> QED BY <2>1, <2>3, <2>4, <2>5, <2>7, <2>8, <2>9, Takes
<1> QED BY <1>2, <1>3

LEMMA SoarKeeps ==
  ASSUME IInv, NEW r \in Requests, NEW op \in SoarOps, NEW a \in AnomalyIds, Soar(r, op, a)
  PROVE  IInv'
<1> DEFINE x == [Idle EXCEPT !.op = op, !.id = a, !.pc = "record"]
<1>1. "record" \in Pcs /\ op \in AllOps /\ op # "correlate"
  BY DEF Pcs, AllOps, SoarOps
<1>2. x \in RequestState
  BY <1>1, IdleType DEF RequestState
<1>3. x.op = op /\ x.id = a /\ x.pc = "record"
  BY DEF Idle
<1>4. req' = [req EXCEPT ![r] = x] /\ UNCHANGED tables /\ UNCHANGED faults
  BY DEF Soar
<1> HIDE DEF x
<1>5. req'[r] = x
  BY <1>4 DEF IInv, TypeOK
<1>6. Sound(r)'
  BY <1>1, <1>3, <1>5 DEF Sound
<1>7. faults' \in 0 .. MaxFaults
  BY <1>4, FaultType DEF IInv
<1> QED BY <1>1, <1>2, <1>3, <1>4, <1>6, <1>7, Takes

LEMMA ListPageKeeps ==
  ASSUME IInv, NEW r \in Requests, NEW op \in ListOps, ListPage(r, op)
  PROVE  IInv'
<1>1. "count" \in Pcs /\ op \in AllOps /\ op # "correlate"
  BY DEF Pcs, AllOps, ListOps
<1>2. AnomalyCount \in Nat /\ AttributionCount \in Nat
  BY ResponseAssumption, FS_Subset, FS_CardinalityType DEF AnomalyCount, AttributionCount
<1>3. PICK n \in Nat :
           /\ req' = [req EXCEPT ![r] = [Idle EXCEPT !.op = op, !.pc = "count", !.items = n]]
           /\ UNCHANGED tables /\ UNCHANGED faults
  BY <1>2, ResponseAssumption DEF ListPage, PageOf
<1> DEFINE x == [Idle EXCEPT !.op = op, !.pc = "count", !.items = n]
<1>4. x \in RequestState
  BY <1>1, IdleType DEF RequestState
<1>5. x.op = op /\ x.pc = "count"
  BY DEF Idle
<1>6. req' = [req EXCEPT ![r] = x]
  BY <1>3
<1> HIDE DEF x
<1>7. req'[r] = x
  BY <1>6 DEF IInv, TypeOK
<1>8. Sound(r)'
  BY <1>1, <1>5, <1>7 DEF Sound
<1>9. faults' \in 0 .. MaxFaults
  BY <1>3, FaultType DEF IInv
<1> QED BY <1>1, <1>3, <1>4, <1>5, <1>6, <1>8, <1>9, Takes

LEMMA BeginKeeps ==
  ASSUME IInv, NEW r \in Requests, Begin(r)
  PROVE  IInv'
<1>1. Targets \subseteq AnomalyIds
  BY ResponseAssumption DEF Targets
<1>2. /\ "update_status" \in Pcs /\ "read_attribution" \in Pcs
      /\ ReviewOps \subseteq AllOps /\ "decide" \in AllOps /\ "narrative" \in AllOps
  BY DEF Pcs, AllOps, ReviewOps
<1>3. CASE \E d \in Detections : Correlate(r, d)
  BY <1>3, CorrelateKeeps
<1>4. CASE \E op \in ReviewOps, a \in Targets : Review(r, op, a)
  BY <1>1, <1>2, <1>4, FetchKeeps DEF Review
<1>5. CASE \E a \in Targets : Decide(r, a)
  BY <1>1, <1>2, <1>5, FetchKeeps DEF Decide
<1>6. CASE \E a \in Targets : Narrate(r, a)
  BY <1>1, <1>2, <1>6, FetchKeeps DEF Narrate
<1>7. CASE \E op \in SoarOps, a \in Targets : Soar(r, op, a)
  BY <1>1, <1>7, SoarKeeps
<1>8. CASE \E op \in ListOps : ListPage(r, op)
  BY <1>8, ListPageKeeps
<1> QED BY <1>3, <1>4, <1>5, <1>6, <1>7, <1>8 DEF Begin

LEMMA StepKeeps ==
  ASSUME IInv, NEW r \in Requests, Step(r)
  PROVE  IInv'
BY InsertAnomalyKeeps, InsertAttributionKeeps, UpdateGraphKeeps, EnrichKeeps,
   UpdateStatusKeeps,    RereadKeeps, ReadAttributionKeeps, ComputeKeeps, SaveNarrativeKeeps, RecordSoarKeeps,
   LogActionKeeps, CountRowsKeeps, ReadFailsKeeps, CrashKeeps
   DEF Step

---------------------------------------------------------------------------
(* The invariant holds.                                                    *)

LEMMA InitIInv ==
  ASSUME Init
  PROVE  IInv
<1>1. TypeOK
  <2>1. PriorEdges \subseteq Edge
    BY ResponseAssumption DEF Edge
  <2>2. 0 \in 0 .. MaxFaults
    BY ResponseAssumption
  <2> QED BY <2>1, <2>2, IdleType, ResponseAssumption DEF Init, TypeOK
<1>2. ReferencesExist
  BY DEF Init, ReferencesExist
<1>3. \A r \in Requests : req[r].op = "none" /\ req[r].pc = "idle"
  BY DEF Init, Idle
<1>4. Unshared
  BY <1>3 DEF Unshared
<1>5. ASSUME NEW r \in Requests  PROVE Sound(r)
  BY <1>3 DEF Sound
<1> QED BY <1>1, <1>2, <1>4, <1>5 DEF IInv

LEMMA NextIInv ==
  ASSUME IInv, [Next]_vars
  PROVE  IInv'
<1>1. CASE \E r \in Requests : Begin(r) \/ Step(r)
  BY <1>1, BeginKeeps, StepKeeps
<1>2. CASE UNCHANGED vars
  BY <1>2 DEF IInv, TypeOK, ReferencesExist, Unshared, Sound, Stored, vars
<1> QED BY <1>1, <1>2 DEF Next, Quiet

THEOREM Invariance == Spec => []IInv
BY InitIInv, NextIInv, PTL DEF Spec

\* Every table and every request keeps its type: among other things a status
\* never leaves the values of the CHECK constraint.
THEOREM TypeCorrect == Spec => []TypeOK
<1>1. IInv => TypeOK
  BY DEF IInv
<1> QED BY <1>1, Invariance, PTL

\* Every row refers to rows that exist, and every relationship the service adds
\* to the graph belongs to an anomaly with both of its rows, whatever fails.
THEOREM ReferencesAlwaysExist == Spec => []ReferencesExist
<1>1. IInv => ReferencesExist
  BY DEF IInv
<1> QED BY <1>1, Invariance, PTL

\* A correlation that was answered 200 has both of its rows, for ever.
THEOREM CorrelationsDurable == Spec => []CorrelateIsDurable
<1>1. IInv => CorrelateIsDurable
  BY DEF IInv, Sound, CorrelateIsDurable
<1> QED BY <1>1, Invariance, PTL

---------------------------------------------------------------------------
(* What no step does to a stored anomaly.                                  *)

Evolves(a) ==
  /\ anomalies'[a] # None
  /\ anomalies'[a].det = anomalies[a].det
  /\ anomalies'[a].decision = anomalies[a].decision
  /\ anomalies[a].narrative # "none" => anomalies'[a].narrative # "none"
  /\ anomalies[a].status # "new" => anomalies'[a].status # "new"

\* The three writes to the table anomalies.
LEMMA InsertAnomalyEvolves ==
  ASSUME IInv, NEW r \in Requests, InsertAnomaly(r), NEW a \in AnomalyIds, Stored(a)
  PROVE  Evolves(a)
<1>1. a # req[r].id
  BY DEF IInv, Sound, InsertAnomaly
<1>2. anomalies'[a] = anomalies[a]
  BY <1>1 DEF IInv, TypeOK, InsertAnomaly
<1> QED BY <1>2 DEF Evolves, Stored

LEMMA UpdateStatusEvolves ==
  ASSUME IInv, NEW r \in Requests, UpdateStatus(r), NEW a \in AnomalyIds, Stored(a)
  PROVE  Evolves(a)
<1> DEFINE x == [anomalies[a] EXCEPT !.status = Verdict(req[r].op)]
<1>1. anomalies'[a] = anomalies[a] \/ anomalies'[a] = x
  BY DEF IInv, TypeOK, UpdateStatus
<1>2. anomalies[a] \in AnomalyRow /\ Verdict(req[r].op) \in Statuses \ {"new"}
  BY DEF IInv, TypeOK, Stored, Verdict, Statuses
<1>3. /\ x \in AnomalyRow
      /\ x.det = anomalies[a].det /\ x.decision = anomalies[a].decision
      /\ x.narrative = anomalies[a].narrative /\ x.status # "new"
  BY <1>2 DEF AnomalyRow
<1> HIDE DEF x
<1>4. x # None
  BY <1>3, ResponseAssumption
<1> QED BY <1>1, <1>3, <1>4 DEF Evolves, Stored

LEMMA SaveNarrativeEvolves ==
  ASSUME IInv, NEW r \in Requests, SaveNarrative(r), NEW a \in AnomalyIds, Stored(a)
  PROVE  Evolves(a)
<1> DEFINE x == [anomalies[a] EXCEPT !.narrative = NarrativeOf(req[r].attr)]
<1>1. anomalies'[a] = anomalies[a] \/ anomalies'[a] = x
  BY DEF IInv, TypeOK, SaveNarrative
<1>2. anomalies[a] \in AnomalyRow
  BY DEF IInv, TypeOK, Stored
<1>3. NarrativeOf(req[r].attr) \in Techniques /\ "none" \notin Techniques
  BY DEF IInv, TypeOK, RequestState, AttributionRow, NarrativeOf, Techniques
<1>4. /\ x \in AnomalyRow
      /\ x.det = anomalies[a].det /\ x.decision = anomalies[a].decision
      /\ x.narrative # "none" /\ x.status = anomalies[a].status
  BY <1>2, <1>3 DEF AnomalyRow
<1> HIDE DEF x
<1>5. x # None
  BY <1>4, ResponseAssumption
<1> QED BY <1>1, <1>4, <1>5 DEF Evolves, Stored

LEMMA NextEvolves ==
  ASSUME IInv, [Next]_vars, NEW a \in AnomalyIds, Stored(a)
  PROVE  Evolves(a)
<1>1. CASE UNCHANGED anomalies
  BY SMTT(60), <1>1 DEF Evolves, Stored
<1>2. ASSUME NEW r \in Requests, Begin(r)  PROVE UNCHANGED anomalies
  BY <1>2 DEF Begin, Correlate, Review, Decide, Narrate, Soar, ListPage, tables
<1>3. ASSUME NEW r \in Requests, Step(r)
      PROVE  UNCHANGED anomalies \/ InsertAnomaly(r) \/ UpdateStatus(r) \/ SaveNarrative(r)
  BY <1>3 DEF Step, InsertAttribution, UpdateGraph, Enrich, Reread, ReadAttribution, Compute,
              RecordSoar, LogAction, CountRows, ReadFails, Crash, tables
<1>4. UNCHANGED vars => UNCHANGED anomalies
  BY DEF vars
<1> QED BY <1>1, <1>2, <1>3, <1>4, InsertAnomalyEvolves, UpdateStatusEvolves,
           SaveNarrativeEvolves DEF Next, Quiet

\* No handler drops a stored anomaly, changes its detection or its decision,
\* loses its narrative or sends it back to the review queue.
THEOREM RowsOnlyEvolve == Spec => RowsEvolve
<1>1. ASSUME IInv, [Next]_vars
      PROVE  [\A a \in AnomalyIds : Stored(a) =>
                /\ anomalies'[a] # None
                /\ anomalies'[a].det = anomalies[a].det
                /\ anomalies'[a].decision = anomalies[a].decision
                /\ anomalies[a].narrative # "none" => anomalies'[a].narrative # "none"
                /\ anomalies[a].status # "new" => anomalies'[a].status # "new"]_vars
  BY <1>1, NextEvolves DEF Evolves
<1> QED BY <1>1, Invariance, PTL DEF Spec, RowsEvolve

---------------------------------------------------------------------------
(* The service implements AlertStore.                                      *)

\* A request is not answered before its last step.
Unanswered == \A r \in Requests : req[r].pc # "done" => req[r].code = 0

\* How a step shows to the clients: it leaves the answer of its request open, or gives it
\* and ends, and only the last call of a correlation answers one with 200.
Serves(r) ==
  /\ \A q \in Requests \ {r} : req'[q] = req[q]
  /\ req[r].pc # "done"
  /\ req'[r].op = req[r].op /\ req'[r].id = req[r].id
  /\ req'[r].code = req[r].code \/ req'[r].pc = "done"
  /\ req[r].op = "correlate" /\ req'[r].code = 200 => Enrich(r) \/ req[r].code = 200

LEMMA GotoServes ==
  ASSUME IInv, NEW r \in Requests, req[r].pc # "done", NEW pc \in Pcs, Goto(r, pc)
  PROVE  Serves(r)
<1>1. Moves(r) /\ Carries(r) /\ req'[r].code = req[r].code
  BY GotoMoves DEF IInv
<1> QED BY <1>1 DEF Serves, Moves, Carries

LEMMA AnswerServes ==
  ASSUME IInv, NEW r \in Requests, req[r].pc # "done", NEW code \in Codes, Answer(r, code),
         code = 200 => Enrich(r) \/ req[r].op # "correlate"
  PROVE  Serves(r)
<1>1. Moves(r) /\ Carries(r) /\ req'[r].pc = "done" /\ req'[r].code = code
  BY AnswerMoves DEF IInv
<1> QED BY <1>1 DEF Serves, Moves, Carries

LEMMA AfterServes ==
  ASSUME IInv, NEW r \in Requests, req[r].pc # "done", NEW o, NEW next \in Pcs,
         After(r, o, next)
  PROVE  Serves(r)
<1>1. CASE o = "ok"
  BY <1>1, GotoServes DEF After
<1>2. CASE o # "ok"
  BY <1>2, AnswerServes DEF After, Codes
<1> QED BY <1>1, <1>2

LEMMA StepServes ==
  ASSUME IInv, NEW r \in Requests, Step(r)
  PROVE  Serves(r)
<1> DEFINE op == req[r].op
<1>1. /\ {"insert_attribution", "update_graph", "enrich", "reread", "audit",
          "save_narrative", "crashed"} \subseteq Pcs
      /\ 200 \in Codes /\ 500 \in Codes
  BY DEF Pcs, Codes
<1>2. Sound(r) /\ req[r] \in RequestState
  BY DEF IInv, TypeOK
<1>3. CASE InsertAnomaly(r) \/ InsertAttribution(r) \/ UpdateStatus(r)
  BY <1>1, <1>3, AfterServes DEF InsertAnomaly, InsertAttribution, UpdateStatus
<1>4. CASE UpdateGraph(r) \/ RecordSoar(r) \/ Crash(r)
  BY <1>1, <1>4, GotoServes DEF UpdateGraph, RecordSoar, Crash
<1>5. CASE Enrich(r)
  <2>1. req[r].pc # "done" /\ Answer(r, 200)
    BY <1>5 DEF Enrich
  <2> QED BY <1>1, <1>5, <2>1, AnswerServes
<1>6. CASE SaveNarrative(r)
  <2>1. req[r].pc = "save_narrative" /\ Answer(r, 200)
    BY <1>6 DEF SaveNarrative
  <2>2. op # "correlate"
    BY <1>2, <2>1 DEF Sound
  <2> QED BY <1>1, <2>1, <2>2, AnswerServes
<1>7. CASE LogAction(r)
  <2>1. /\ req[r].pc = "audit"
        /\ Goto(r, "save_narrative") \/ Answer(r, 200)
    BY <1>7 DEF LogAction
  <2>2. op # "correlate"
    BY <1>2, <2>1 DEF Sound, ReviewOps, SoarOps
  <2> QED BY <1>1, <2>1, <2>2, AnswerServes, GotoServes
<1>8. CASE ReadFails(r)
  <2>1. req[r].pc # "done" /\ Answer(r, 500)
    BY <1>8 DEF ReadFails
  <2> QED BY <1>1, <2>1, AnswerServes
<1>9. CASE Reread(r)
  BY <1>9 DEF Reread, Serves, IInv, TypeOK, RequestState
<1>10. CASE ReadAttribution(r)
  BY <1>10 DEF ReadAttribution, Serves, IInv, TypeOK, RequestState
<1>11. CASE Compute(r)
  <2>1. PICK g, dec : req' = [req EXCEPT ![r].pc = "audit", ![r].graph = g, ![r].dec = dec]
    BY <1>11 DEF Compute
  <2>2. req[r].pc # "done"
    BY <1>11 DEF Compute
  <2> QED BY <2>1, <2>2 DEF Serves, IInv, TypeOK, RequestState
<1>12. CASE CountRows(r)
  <2>1. PICK n : req' = [req EXCEPT ![r].pc = "done", ![r].code = 200, ![r].total = n]
    BY <1>12 DEF CountRows
  <2>2. req[r].pc = "count"
    BY <1>12 DEF CountRows
  <2>3. op # "correlate"
    BY <1>2, <2>2 DEF Sound, ListOps
  <2> QED BY <2>1, <2>2, <2>3 DEF Serves, IInv, TypeOK, RequestState
<1> QED BY <1>3, <1>4, <1>5, <1>6, <1>7, <1>8, <1>9, <1>10, <1>11, <1>12 DEF Step

\* A request that is taken up has no answer, but when it is over at once, and then no
\* correlation with an identifier is answered.
LEMMA BeginServes ==
  ASSUME IInv, NEW r \in Requests, Begin(r)
  PROVE  /\ \A q \in Requests \ {r} : req'[q] = req[q]
         /\ req'[r].pc # "done" => req'[r].code = 0
         /\ req'[r].op = "correlate" /\ req'[r].code = 200 => req'[r].id = None
         /\ UNCHANGED tables
<1> DEFINE Taken(x) == /\ req' = [req EXCEPT ![r] = x]
                       /\ x.pc # "done" => x.code = 0
                       /\ x.op = "correlate" /\ x.code = 200 => x.id = None
<1>1. UNCHANGED tables
  BY DEF Begin, Correlate, Review, Decide, Narrate, Soar, ListPage
<1>2. ASSUME NEW op \in AllOps, op # "correlate", NEW a, NEW next, Fetch(r, op, a, next)
      PROVE  \E x : Taken(x)
  <2> DEFINE begun == [Idle EXCEPT !.op = op, !.id = a]
             found == [begun EXCEPT !.pc = next, !.prev = anomalies[a].status]
             over(code) == [begun EXCEPT !.pc = "done", !.code = code]
  <2>1. found.op = op /\ found.code = 0
    BY DEF Idle
  <2>2. \A code : over(code).op = op /\ over(code).pc = "done"
    BY DEF Idle
  <2>3. \/ req' = [req EXCEPT ![r] = found]
        \/ req' = [req EXCEPT ![r] = over(404)]
        \/ req' = [req EXCEPT ![r] = over(500)]
    BY <1>2 DEF Fetch
  <2> HIDE DEF found, over
  <2> QED BY <1>2, <2>1, <2>2, <2>3
<1>3. ASSUME NEW d \in Detections, Correlate(r, d)
      PROVE  \E x : Taken(x)
  <2>1. CASE d.attack = "BENIGN"
    <3> DEFINE x == [Idle EXCEPT !.op = "correlate", !.det = d, !.pc = "done", !.code = 200]
    <3>1. req' = [req EXCEPT ![r] = x]
      BY <1>3, <2>1 DEF Correlate
    <3>2. x.pc = "done" /\ x.id = None
      BY DEF Idle
    <3> HIDE DEF x
    <3> QED BY <3>1, <3>2
  <2>2. CASE d.attack # "BENIGN"
    <3>1. PICK a, g, dec :
               req' = [req EXCEPT ![r] =
                  [Idle EXCEPT !.op = "correlate", !.det = d, !.id = a, !.graph = g,
                               !.pc = "insert_anomaly", !.dec = dec]]
      BY <1>3, <2>2 DEF Correlate
    <3> DEFINE x == [Idle EXCEPT !.op = "correlate", !.det = d, !.id = a, !.graph = g,
                                 !.pc = "insert_anomaly", !.dec = dec]
    <3>2. x.code = 0
      BY DEF Idle
    <3>3. req' = [req EXCEPT ![r] = x]
      BY <3>1
    <3> HIDE DEF x
    <3>4. Taken(x)
      BY <3>2, <3>3
    <3> HIDE DEF Taken
    <3> QED BY <3>4
  <2> QED BY <2>1, <2>2
<1>4. ASSUME NEW op, NEW a, Soar(r, op, a)
      PROVE  \E x : Taken(x)
  <2> DEFINE x == [Idle EXCEPT !.op = op, !.id = a, !.pc = "record"]
  <2>1. x.code = 0 /\ req' = [req EXCEPT ![r] = x]
    BY <1>4 DEF Idle, Soar
  <2> HIDE DEF x
  <2>2. Taken(x)
    BY <2>1
  <2> HIDE DEF Taken
  <2> QED BY <2>2
<1>5. ASSUME NEW op, ListPage(r, op)
      PROVE  \E x : Taken(x)
  <2>1. PICK n : req' = [req EXCEPT ![r] = [Idle EXCEPT !.op = op, !.pc = "count", !.items = n]]
    BY <1>5 DEF ListPage
  <2> DEFINE x == [Idle EXCEPT !.op = op, !.pc = "count", !.items = n]
  <2>2. x.code = 0 /\ req' = [req EXCEPT ![r] = x]
    BY <2>1 DEF Idle
  <2> HIDE DEF x
  <2>3. Taken(x)
    BY <2>2
  <2> HIDE DEF Taken
  <2> QED BY <2>3
<1>6. \E x : Taken(x)
  <2> HIDE DEF Taken
  <2>1. CASE \E op \in ReviewOps, a \in Targets : Review(r, op, a)
    BY <1>2, <2>1 DEF Review, ReviewOps, AllOps
  <2>2. CASE \E a \in Targets : Decide(r, a) \/ Narrate(r, a)
    BY <1>2, <2>2 DEF Decide, Narrate, AllOps
  <2> QED BY <1>3, <1>4, <1>5, <2>1, <2>2 DEF Begin
<1>7. PICK x : Taken(x)
  BY <1>6
<1>8. req'[r] = x /\ \A q \in Requests \ {r} : req'[q] = req[q]
  BY <1>7 DEF IInv, TypeOK
<1> QED BY <1>1, <1>7, <1>8

LEMMA InitUnanswered ==
  ASSUME Init
  PROVE  Unanswered
BY DEF Init, Idle, Unanswered

LEMMA NextUnanswered ==
  ASSUME IInv, Unanswered, [Next]_vars
  PROVE  Unanswered'
<1>1. ASSUME NEW r \in Requests, Begin(r)  PROVE Unanswered'
  BY <1>1, BeginServes DEF Unanswered
<1>2. ASSUME NEW r \in Requests, Step(r)  PROVE Unanswered'
  BY <1>2, StepServes DEF Unanswered, Serves
<1>3. CASE UNCHANGED vars
  BY <1>3 DEF Unanswered, vars
<1> QED BY <1>1, <1>2, <1>3 DEF Next, Quiet

---------------------------------------------------------------------------
(* How the cases show a step.                                              *)

LEMMA CaseStays ==
  ASSUME NEW a, UNCHANGED anomalies[a], UNCHANGED attributions[a],
         Linked(a)' <=> Linked(a), Promised(a)' <=> Promised(a)
  PROVE  CaseOf(a)' = CaseOf(a)
<1>1. Stored(a)' = Stored(a) /\ Attributed(a)' = Attributed(a)
  BY DEF Stored, Attributed
<1>2. Linked(a)' = Linked(a) /\ Promised(a)' = Promised(a)
  BY DEF Linked, Promised
<1>3. StageOf(a)' = StageOf(a)
  BY <1>1, <1>2 DEF StageOf
<1> QED BY <1>1, <1>2, <1>3 DEF CaseOf

\* Nothing is promised by any step but the last call of a correlation.
LEMMA PromisesStay ==
  ASSUME Unanswered, NEW r \in Requests, Serves(r), NEW a,
         ~ Enrich(r) \/ req[r].id # a
  PROVE  Promised(a)' <=> Promised(a)
<1>1. ASSUME NEW q \in Requests, q # r  PROVE req'[q] = req[q]
  BY <1>1 DEF Serves
<1>2. req[r].code # 200
  BY DEF Unanswered, Serves
<1>3. ~ (req'[r].op = "correlate" /\ req'[r].id = a /\ req'[r].code = 200)
  BY <1>2 DEF Serves
<1> QED BY <1>1, <1>2, <1>3 DEF Promised

LEMMA BeginIsQuiet ==
  ASSUME IInv, Unanswered, NEW r \in Requests, Begin(r)
  PROVE  UNCHANGED Cases
<1> SUFFICES ASSUME NEW a \in Issued  PROVE CaseOf(a)' = CaseOf(a)
  BY DEF Cases
<1>1. a # None
  BY ResponseAssumption DEF Issued
<1>2. req[r].pc = "idle"
  BY DEF Begin
<1>3. req[r].code # 200
  BY <1>2 DEF Unanswered
<1>4. Promised(a)' <=> Promised(a)
  BY <1>1, <1>3, BeginServes DEF Promised
<1>5. UNCHANGED tables
  BY BeginServes
<1> QED BY <1>4, <1>5, CaseStays DEF tables, Linked

\* What a step does to the tables, it does under the identifier of its request.
LEMMA StepElsewhere ==
  ASSUME IInv, Unanswered, NEW r \in Requests, Step(r), NEW a \in Issued, a # req[r].id
  PROVE  CaseOf(a)' = CaseOf(a)
<1>1. Promised(a)' <=> Promised(a)
  BY StepServes, PromisesStay
<1>2. UNCHANGED anomalies[a]
  BY DEF Step, InsertAnomaly, InsertAttribution, UpdateGraph, Enrich, UpdateStatus, Reread,
         ReadAttribution, Compute, SaveNarrative, RecordSoar, LogAction, CountRows, ReadFails,
         Crash, tables, IInv, TypeOK, Issued
<1>3. UNCHANGED attributions[a]
  BY DEF Step, InsertAnomaly, InsertAttribution, UpdateGraph, Enrich, UpdateStatus, Reread,
         ReadAttribution, Compute, SaveNarrative, RecordSoar, LogAction, CountRows, ReadFails,
         Crash, tables, IInv, TypeOK, Issued
<1>4. Linked(a)' <=> Linked(a)
  <2>1. CASE UpdateGraph(r)
    BY <2>1 DEF UpdateGraph, Linked
  <2>2. CASE ~ UpdateGraph(r)
    <3>1. UNCHANGED edges
      BY <2>2 DEF Step, InsertAnomaly, InsertAttribution, Enrich, UpdateStatus, Reread,
         ReadAttribution, Compute, SaveNarrative, RecordSoar, LogAction, CountRows, ReadFails,
         Crash, tables
    <3> QED BY <3>1 DEF Linked
  <2> QED BY <2>1, <2>2
<1> QED BY <1>1, <1>2, <1>3, <1>4, CaseStays

\* The changes a case may show: what the actions of AlertStore do to the case they name.
CaseMoves(x, y) ==
  \/ y = x
  \/ x.stage = "absent" /\ y.decision \in Decisions
       /\ y = [x EXCEPT !.stage = "stored", !.decision = y.decision]
  \/ x.stage = "stored" /\ y = [x EXCEPT !.stage = "attributed"]
  \/ x.stage = "attributed" /\ x.answer = "open" /\ y = [x EXCEPT !.stage = "linked"]
  \/ x.stage \in {"attributed", "linked"} /\ y = [x EXCEPT !.answer = "success"]
  \/ x.stage # "absent" /\ \E v \in Statuses \ {"new"} : y = [x EXCEPT !.verdict = v]
  \/ x.stage # "absent" /\ y = [x EXCEPT !.narrative = "stored"]

LEMMA CaseStep ==
  ASSUME NEW a \in Issued, CaseMoves(CaseOf(a), CaseOf(a)'),
         \A b \in Issued \ {a} : CaseOf(b)' = CaseOf(b)
  PROVE  [Store!Next]_Cases
<1> DEFINE x == CaseOf(a)
           y == CaseOf(a)'
<1>1. Cases[a] = x /\ Cases'[a] = y
  BY DEF Cases
<1>2. Cases' = [Cases EXCEPT ![a] = y]
  BY DEF Cases
<1>3. CASE y = x
  BY <1>2, <1>3 DEF Cases
<1>4. CASE x.stage = "absent" /\ y.decision \in Decisions
             /\ y = [x EXCEPT !.stage = "stored", !.decision = y.decision]
  <2>1. Cases' = [Cases EXCEPT ![a].stage = "stored", ![a].decision = y.decision]
    BY <1>1, <1>2, <1>4 DEF Cases
  <2>2. Store!Open(a)
    BY <1>1, <1>4, <2>1 DEF Store!Open, Store!Exists
  <2> QED BY <2>2 DEF Store!Next
<1>5. CASE x.stage = "stored" /\ y = [x EXCEPT !.stage = "attributed"]
  <2>1. Store!Attribute(a)
    BY <1>1, <1>2, <1>5 DEF Store!Attribute, Cases
  <2> QED BY <2>1 DEF Store!Next
<1>6. CASE x.stage = "attributed" /\ x.answer = "open" /\ y = [x EXCEPT !.stage = "linked"]
  <2>1. Store!Link(a)
    BY <1>1, <1>2, <1>6 DEF Store!Link, Cases
  <2> QED BY <2>1 DEF Store!Next
<1>7. CASE x.stage \in {"attributed", "linked"} /\ y = [x EXCEPT !.answer = "success"]
  <2>1. Store!Promise(a)
    BY <1>1, <1>2, <1>7 DEF Store!Promise, Cases
  <2> QED BY <2>1 DEF Store!Next
<1>8. CASE x.stage # "absent" /\ \E v \in Statuses \ {"new"} : y = [x EXCEPT !.verdict = v]
  <2>1. PICK v \in Statuses \ {"new"} : y = [x EXCEPT !.verdict = v]
    BY <1>8
  <2>2. Store!Judge(a, v)
    BY <1>1, <1>2, <1>8, <2>1 DEF Store!Judge, Store!Exists, Cases
  <2> QED BY <2>2 DEF Store!Next
<1>9. CASE x.stage # "absent" /\ y = [x EXCEPT !.narrative = "stored"]
  <2>1. Store!Tell(a)
    BY <1>1, <1>2, <1>9 DEF Store!Tell, Store!Exists, Cases
  <2> QED BY <2>1 DEF Store!Next
<1> QED BY <1>3, <1>4, <1>5, <1>6, <1>7, <1>8, <1>9 DEF CaseMoves

---------------------------------------------------------------------------
(* The steps that a case shows.                                            *)

\* What stays of a case when a step changes one thing about it.
LEMMA InsertAnomalyShows ==
  ASSUME IInv, Unanswered, NEW r \in Requests, InsertAnomaly(r), NEW a \in Issued, a = req[r].id
  PROVE  CaseMoves(CaseOf(a), CaseOf(a)')
<1>1. /\ req[r].pc = "insert_anomaly" /\ UNCHANGED attributions /\ UNCHANGED edges
      /\ ~Stored(a) /\ attributions[a] = None /\ req[r].dec \in Decisions
      /\ a \in AnomalyIds
  BY DEF InsertAnomaly, IInv, Sound, Issued
<1>2. Promised(a)' = Promised(a) /\ Linked(a)' = Linked(a)
  <2>1. Serves(r) /\ ~Enrich(r)
    BY <1>1, StepServes DEF Step, Enrich
  <2>2. Promised(a)' <=> Promised(a)
    BY <2>1, PromisesStay
  <2> QED BY <1>1, <2>2 DEF Linked, Promised
<1>3. CASE anomalies' = anomalies
  BY <1>1, <1>2, <1>3, CaseStays DEF CaseMoves
<1>4. CASE anomalies' # anomalies
  <2> DEFINE x == [det |-> req[r].det, status |-> "new", decision |-> req[r].dec,
                   narrative |-> "none"]
  <2>1. anomalies'[a] = x
    BY <1>1, <1>4 DEF InsertAnomaly, IInv, TypeOK
  <2>2. x \in AnomalyRow
    BY <1>1, <2>1 DEF AnomalyRow, Statuses, IInv, Sound
  <2>3. x.status = "new" /\ x.decision = req[r].dec /\ x.narrative = "none" /\ x # None
    BY <2>2, ResponseAssumption
  <2> HIDE DEF x
  <2>4. Stored(a)' /\ StageOf(a)' = "stored" /\ StageOf(a) = "absent"
    BY <1>1, <2>1, <2>3 DEF Stored, StageOf, Attributed
  <2> DEFINE n == IF Promised(a) THEN "success" ELSE "open"
             w == req[r].dec
  <2>5. CaseOf(a) = [stage |-> "absent", decision |-> None, verdict |-> "new",
                     narrative |-> "none", answer |-> n]
    BY <1>1, <2>4 DEF CaseOf
  <2>6. CaseOf(a)' = [stage |-> "stored", decision |-> w, verdict |-> "new",
                      narrative |-> "none", answer |-> n]
    BY <1>2, <2>1, <2>3, <2>4 DEF CaseOf
  <2>7. CaseOf(a)' = [CaseOf(a) EXCEPT !.stage = "stored", !.decision = w]
    <3> HIDE DEF n, w
    <3>1. PICK old, half : old = CaseOf(a) /\ half = [old EXCEPT !.stage = "stored"]
      OBVIOUS
    <3>2. old = [stage |-> "absent", decision |-> None, verdict |-> "new",
               narrative |-> "none", answer |-> n]
      BY <2>5, <3>1
    <3>3. half = [stage |-> "stored", decision |-> None, verdict |-> "new",
               narrative |-> "none", answer |-> n]
      BY <3>1, <3>2
    <3>4. [half EXCEPT !.decision = w] =
            [stage |-> "stored", decision |-> w, verdict |-> "new",
             narrative |-> "none", answer |-> n]
      BY <3>3
    <3>5. [old EXCEPT !.stage = "stored", !.decision = w] = [half EXCEPT !.decision = w]
      BY <3>1
    <3> QED BY <2>6, <3>1, <3>4, <3>5
  <2>8. CaseOf(a).stage = "absent" /\ CaseOf(a)'.decision = w /\ w \in Decisions
    BY <1>1, <2>5, <2>6
  <2>9. CaseOf(a)' = [CaseOf(a) EXCEPT !.stage = "stored", !.decision = CaseOf(a)'.decision]
    BY <2>7, <2>8
  <2> QED BY <2>8, <2>9 DEF CaseMoves
<1> QED BY <1>3, <1>4

\* A case whose stage alone, or whose promise alone, may have changed.
LEMMA StageShows ==
  ASSUME NEW a, Stored(a), UNCHANGED anomalies[a], Promised(a)' = Promised(a)
  PROVE  CaseOf(a)' = [CaseOf(a) EXCEPT !.stage = StageOf(a)']
BY DEF CaseOf, Stored

LEMMA InsertAttributionShows ==
  ASSUME IInv, Unanswered, NEW r \in Requests, InsertAttribution(r), NEW a \in Issued,
         a = req[r].id
  PROVE  CaseMoves(CaseOf(a), CaseOf(a)')
<1>1. /\ req[r].pc = "insert_attribution" /\ UNCHANGED anomalies /\ UNCHANGED edges
      /\ Stored(a) /\ attributions[a] = None
  BY DEF InsertAttribution, IInv, Sound
<1>2. Promised(a)' = Promised(a) /\ Linked(a)' = Linked(a)
  <2>1. Serves(r) /\ ~Enrich(r)
    BY <1>1, StepServes DEF Step, Enrich
  <2>2. Promised(a)' <=> Promised(a)
    BY <2>1, PromisesStay
  <2> QED BY <1>1, <2>2 DEF Linked, Promised
<1>3. ~Linked(a)
  <2>1. ASSUME NEW e \in edges, e.id = a  PROVE FALSE
    <3>1. e \notin PriorEdges
      BY <2>1, ResponseAssumption DEF Issued
    <3> QED BY <1>1, <2>1, <3>1 DEF IInv, ReferencesExist
  <2> QED BY <2>1 DEF Linked
<1>4. StageOf(a) = "stored"
  BY <1>1 DEF StageOf, Attributed
<1>5. StageOf(a)' \in {"stored", "attributed"}
  BY <1>1, <1>2, <1>3 DEF StageOf, Attributed, Stored
<1>6. CaseOf(a).stage = "stored" /\ CaseOf(a)' = [CaseOf(a) EXCEPT !.stage = StageOf(a)']
  BY <1>1, <1>2, <1>4, StageShows DEF CaseOf
<1>7. CASE StageOf(a)' = "stored"
  <2>1. CaseOf(a)' = CaseOf(a)
    BY <1>1, <1>2, <1>4, <1>7 DEF CaseOf, Stored
  <2> QED BY <2>1 DEF CaseMoves
<1> QED BY <1>5, <1>6, <1>7 DEF CaseMoves

LEMMA UpdateGraphShows ==
  ASSUME IInv, Unanswered, NEW r \in Requests, UpdateGraph(r), NEW a \in Issued, a = req[r].id
  PROVE  CaseMoves(CaseOf(a), CaseOf(a)')
<1>1. /\ req[r].pc = "update_graph" /\ UNCHANGED anomalies /\ UNCHANGED attributions
      /\ req[r].op = "correlate" /\ Stored(a) /\ attributions[a] # None /\ a # None
      /\ edges \subseteq edges'
  BY ResponseAssumption DEF UpdateGraph, IInv, Sound, Issued
<1>2. Promised(a)' = Promised(a)
  <2>1. Serves(r) /\ ~Enrich(r)
    BY <1>1, StepServes DEF Step, Enrich
  <2>2. Promised(a)' <=> Promised(a)
    BY <2>1, PromisesStay
  <2> QED BY <2>2 DEF Promised
<1>3. ~Promised(a)
  <2>1. ASSUME NEW q \in Requests, req[q].op = "correlate", req[q].id = a, req[q].code = 200
        PROVE  FALSE
    <3>1. q = r
      BY <1>1, <2>1 DEF IInv, Unshared
    <3> QED BY <1>1, <2>1, <3>1 DEF Unanswered
  <2> QED BY <2>1 DEF Promised
<1>4. Stored(a)' /\ Attributed(a) /\ Attributed(a)'
  BY <1>1 DEF Stored, Attributed
<1>5. CASE Linked(a)
  <2>1. Linked(a)' = Linked(a)
    BY <1>1, <1>5 DEF Linked
  <2> QED BY <1>1, <1>2, <2>1, CaseStays DEF CaseMoves
<1>6. CASE ~Linked(a)
  <2>1. StageOf(a) = "attributed" /\ StageOf(a)' \in {"attributed", "linked"}
    BY <1>1, <1>4, <1>6 DEF StageOf
  <2>2. /\ CaseOf(a).stage = "attributed" /\ CaseOf(a).answer = "open"
        /\ CaseOf(a)' = [CaseOf(a) EXCEPT !.stage = StageOf(a)']
    BY <1>1, <1>2, <1>3, <2>1, StageShows DEF CaseOf
  <2>3. CASE StageOf(a)' = "attributed"
    <3>1. CaseOf(a)' = CaseOf(a)
      BY <1>1, <1>2, <2>1, <2>3 DEF CaseOf, Stored
    <3> QED BY <3>1 DEF CaseMoves
  <2> QED BY <2>1, <2>2, <2>3 DEF CaseMoves
<1> QED BY <1>5, <1>6

LEMMA EnrichShows ==
  ASSUME IInv, NEW r \in Requests, Enrich(r), NEW a \in Issued, a = req[r].id
  PROVE  CaseMoves(CaseOf(a), CaseOf(a)')
<1>1. /\ req[r].pc = "enrich" /\ UNCHANGED tables /\ Answer(r, 200)
      /\ req[r].op = "correlate" /\ Stored(a) /\ attributions[a] # None
  BY DEF Enrich, IInv, Sound
<1>2. Promised(a)'
  <2>1. req'[r].op = "correlate" /\ req'[r].id = a /\ req'[r].code = 200
    BY <1>1, AnswerMoves DEF IInv, Carries, Codes
  <2> QED BY <2>1 DEF Promised
<1>3. Stored(a)' /\ StageOf(a)' = StageOf(a)
  BY <1>1 DEF StageOf, Stored, Attributed, Linked, tables
<1>4. CaseOf(a).stage \in {"attributed", "linked"}
  BY <1>1 DEF CaseOf, StageOf, Attributed
<1>5. CaseOf(a)' = [CaseOf(a) EXCEPT !.answer = "success"]
  <2>1. UNCHANGED anomalies
    BY <1>1 DEF tables
  <2>2. Stored(a)' = Stored(a)
    BY <2>1 DEF Stored
  <2> QED BY <1>2, <1>3, <2>1, <2>2 DEF CaseOf
<1> QED BY <1>4, <1>5 DEF CaseMoves

\* The two updates of a stored row change one column each.
LEMMA UpdateStatusShows ==
  ASSUME IInv, Unanswered, NEW r \in Requests, UpdateStatus(r), NEW a \in Issued, a = req[r].id
  PROVE  CaseMoves(CaseOf(a), CaseOf(a)')
<1> DEFINE v == Verdict(req[r].op)
           x == [anomalies[a] EXCEPT !.status = v]
<1>1. /\ req[r].pc = "update_status" /\ UNCHANGED attributions /\ UNCHANGED edges
      /\ Stored(a) /\ a \in AnomalyIds /\ anomalies[a] \in AnomalyRow
      /\ v \in Statuses \ {"new"}
  BY DEF UpdateStatus, IInv, TypeOK, Sound, Issued, Stored, Verdict, Statuses
<1>2. Promised(a)' = Promised(a) /\ Linked(a)' = Linked(a) /\ Attributed(a)' = Attributed(a)
  <2>1. Serves(r) /\ ~Enrich(r)
    BY <1>1, StepServes DEF Step, Enrich
  <2>2. Promised(a)' <=> Promised(a)
    BY <2>1, PromisesStay
  <2> QED BY <1>1, <2>2 DEF Linked, Promised, Attributed
<1>3. UNCHANGED anomalies \/ anomalies'[a] = x
  BY <1>1 DEF UpdateStatus, IInv, TypeOK
<1>4. CASE UNCHANGED anomalies
  BY <1>1, <1>2, <1>4, CaseStays DEF CaseMoves
<1>5. CASE anomalies'[a] = x
  <2> HIDE DEF v
  <2>1. /\ x \in AnomalyRow /\ x.status = v
        /\ x.decision = anomalies[a].decision /\ x.narrative = anomalies[a].narrative
    BY <1>1 DEF AnomalyRow
  <2> HIDE DEF x
  <2>2. Stored(a)' = Stored(a) /\ StageOf(a)' = StageOf(a)
    BY <1>1, <1>2, <1>5, <2>1, ResponseAssumption DEF Stored, StageOf
  <2>3. CaseOf(a)' = [CaseOf(a) EXCEPT !.verdict = v]
    BY <1>1, <1>2, <1>5, <2>1, <2>2 DEF CaseOf
  <2>4. CaseOf(a).stage # "absent"
    BY <1>1 DEF CaseOf, StageOf
  <2> QED BY <1>1, <2>3, <2>4 DEF CaseMoves
<1> QED BY <1>3, <1>4, <1>5

LEMMA SaveNarrativeShows ==
  ASSUME IInv, Unanswered, NEW r \in Requests, SaveNarrative(r), NEW a \in Issued, a = req[r].id
  PROVE  CaseMoves(CaseOf(a), CaseOf(a)')
<1> DEFINE t == NarrativeOf(req[r].attr)
           x == [anomalies[a] EXCEPT !.narrative = t]
<1>1. /\ req[r].pc = "save_narrative" /\ UNCHANGED attributions /\ UNCHANGED edges
      /\ Stored(a) /\ a \in AnomalyIds /\ anomalies[a] \in AnomalyRow
  BY DEF SaveNarrative, IInv, TypeOK, Sound, Issued, Stored
<1>2. t \in Techniques /\ t # "none"
  BY DEF IInv, TypeOK, RequestState, AttributionRow, NarrativeOf, Techniques
<1>3. Promised(a)' = Promised(a) /\ Linked(a)' = Linked(a) /\ Attributed(a)' = Attributed(a)
  <2>1. Serves(r) /\ ~Enrich(r)
    BY <1>1, StepServes DEF Step, Enrich
  <2>2. Promised(a)' <=> Promised(a)
    BY <2>1, PromisesStay
  <2> QED BY <1>1, <2>2 DEF Linked, Promised, Attributed
<1>4. UNCHANGED anomalies \/ anomalies'[a] = x
  BY <1>1 DEF SaveNarrative, IInv, TypeOK
<1>5. CASE UNCHANGED anomalies
  BY <1>1, <1>3, <1>5, CaseStays DEF CaseMoves
<1>6. CASE anomalies'[a] = x
  <2> HIDE DEF t
  <2>1. /\ x \in AnomalyRow /\ x.status = anomalies[a].status
        /\ x.decision = anomalies[a].decision /\ x.narrative = t
    BY <1>1, <1>2 DEF AnomalyRow
  <2> HIDE DEF x
  <2>2. Stored(a)' = Stored(a) /\ StageOf(a)' = StageOf(a)
    BY <1>1, <1>3, <1>6, <2>1, ResponseAssumption DEF Stored, StageOf
  <2>3. CaseOf(a)' = [CaseOf(a) EXCEPT !.narrative = "stored"]
    BY <1>1, <1>2, <1>3, <1>6, <2>1, <2>2 DEF CaseOf
  <2>4. CaseOf(a).stage # "absent"
    BY <1>1 DEF CaseOf, StageOf
  <2> QED BY <2>3, <2>4 DEF CaseMoves
<1> QED BY <1>4, <1>5, <1>6

\* The other steps change no table a case is put together from, and promise nothing.
LEMMA OtherStepsShow ==
  ASSUME IInv, Unanswered, NEW r \in Requests, NEW a \in Issued,
         \/ Reread(r) \/ ReadAttribution(r) \/ Compute(r) \/ RecordSoar(r)
         \/ LogAction(r) \/ CountRows(r) \/ ReadFails(r) \/ Crash(r)
  PROVE  CaseMoves(CaseOf(a), CaseOf(a)')
<1>1. UNCHANGED anomalies /\ UNCHANGED attributions /\ UNCHANGED edges
  BY DEF Reread, ReadAttribution, Compute, RecordSoar, LogAction, CountRows, ReadFails, Crash,
         tables
<1>2. Serves(r)
  BY StepServes DEF Step
<1>3. ~Enrich(r)
  <2>1. CASE Crash(r)
    <3>1. Enrich(r) => req'[r].pc = "done" /\ req'[r].pc = "crashed"
      BY <2>1, AnswerMoves, GotoMoves DEF IInv, Crash, Enrich, Codes, Pcs
    <3> QED BY <3>1
  <2>2. CASE ReadFails(r)
    <3>1. Enrich(r) => req'[r].code = 200 /\ req'[r].code = 500
      BY <2>2, AnswerMoves DEF IInv, ReadFails, Enrich, Codes
    <3> QED BY <3>1
  <2> QED BY <2>1, <2>2 DEF Enrich, Reread, ReadAttribution, Compute, RecordSoar, LogAction,
                            CountRows
<1>4. Promised(a)' <=> Promised(a)
  BY <1>2, <1>3, PromisesStay
<1> QED BY <1>1, <1>4, CaseStays DEF CaseMoves, Linked

---------------------------------------------------------------------------
(* The refinement.                                                         *)

LEMMA StepShows ==
  ASSUME IInv, Unanswered, NEW r \in Requests, Step(r)
  PROVE  [Store!Next]_Cases
<1>1. PICK a : a = req[r].id
  OBVIOUS
<1>2. ASSUME NEW b \in Issued \ {a}  PROVE CaseOf(b)' = CaseOf(b)
  BY <1>1, StepElsewhere
<1>3. CASE a \in Issued
  <2>1. CaseMoves(CaseOf(a), CaseOf(a)')
    BY <1>1, <1>3, InsertAnomalyShows, InsertAttributionShows, UpdateGraphShows, EnrichShows,
       UpdateStatusShows, SaveNarrativeShows, OtherStepsShow DEF Step
  <2> QED BY <1>2, <1>3, <2>1, CaseStep
<1>4. CASE a \notin Issued
  <2>1. UNCHANGED Cases
    BY <1>2, <1>4 DEF Cases
  <2> QED BY <2>1
<1> QED BY <1>3, <1>4

LEMMA NextShows ==
  ASSUME IInv, Unanswered, [Next]_vars
  PROVE  [Store!Next]_Cases
<1>1. ASSUME NEW r \in Requests, Begin(r)  PROVE [Store!Next]_Cases
  BY <1>1, BeginIsQuiet
<1>2. CASE UNCHANGED vars
  BY <1>2 DEF vars, Cases, CaseOf, StageOf, Stored, Attributed, Linked, Promised
<1> QED BY <1>1, <1>2, StepShows DEF Next, Quiet

LEMMA InitShows ==
  ASSUME Init
  PROVE  Store!Init
<1> SUFFICES ASSUME NEW a \in Issued
             PROVE  CaseOf(a) = Store!Absent
  BY DEF Store!Init, Cases
<1>1. ~Stored(a) /\ ~Promised(a)
  BY DEF Init, Idle, Issued, Stored, Promised
<1> QED BY <1>1 DEF CaseOf, StageOf, Store!Absent

\* The service with its races, lost answers, refused calls and dead workers implements the
\* store of cases that only move forward, for any requests, identifiers and graph.
THEOREM StoreImplemented == Spec => ImplementsStore
<1>1. Spec => []Unanswered
  BY InitUnanswered, NextUnanswered, Invariance, PTL DEF Spec
<1>2. Init => Store!Init
  BY InitShows
<1>3. IInv /\ Unanswered /\ [Next]_vars => [Store!Next]_Cases
  BY NextShows
<1> QED BY <1>1, <1>2, <1>3, Invariance, PTL DEF Spec, ImplementsStore, Store!Spec
=============================================================================
