------------------------------ MODULE Pipeline ------------------------------
(***************************************************************************)
(* The path of a signal through both services: the scored ingest of the    *)
(* ingestion-detection service, its best-effort handoff to POST /correlate *)
(* of the correlation-response service, and the backfill bridge that reads *)
(* stored signals and correlates them again.                               *)
(*                                                                         *)
(* B, the correlation-response service, is module Response, restricted to  *)
(* the correlations this module sends it.  A call to B is one of B's       *)
(* requests: the caller may stop waiting for it at any time, and B goes on *)
(* serving it.                                                             *)
(***************************************************************************)
EXTENDS Naturals, FiniteSets

CONSTANTS
  Ingests,         \* requests to POST /signals/ingest; each is served once
  Kinds,           \* what the classifier can say: attack, confidence, asset
  ClientIds,       \* signal ids clients choose
  MintedIds,       \* signal ids the service can mint (uuid4)
  ForwardEnabled,  \* correlation_forward_enabled
  Backfills,       \* runs of the backfill bridge
  BackfillLimit,   \* how many signals a run fetches at most
  Requests, AnomalyIds, MaxFaults, None

SignalIds == ClientIds \union MintedIds

Detections == [signal : SignalIds, attack : {k.attack : k \in Kinds},
               confidence : {k.confidence : k \in Kinds}, asset : {k.asset : k \in Kinds}]

VARIABLES
  anomalies, attributions, audit, soar, edges, req, faults,   \* of B
  signals,  \* rows of table signals: id and the detection stored with it
  ing,      \* the ingest requests
  fill      \* the backfill runs

B == INSTANCE Response
       WITH Ops <- {"correlate"}, StrayIds <- {}, GraphEnabled <- FALSE,
            PriorEdges <- {}, PageSize <- 1

\* Finitely many anomalies and runs, for what is counted; None is no value of
\* the system.
ASSUME PipelineAssumption ==
  /\ ClientIds \intersect MintedIds = {}
  /\ \A k \in Kinds : k.attack \in STRING /\ k.confidence \in B!Confidence
  /\ ForwardEnabled \in BOOLEAN
  /\ BackfillLimit \in Nat
  /\ MaxFaults \in Nat
  /\ IsFiniteSet(AnomalyIds) /\ IsFiniteSet(Backfills)
  /\ None \notin SignalIds /\ None \notin Detections
  /\ None \notin Requests /\ None \notin AnomalyIds /\ None \notin Backfills
  /\ None \notin B!AnomalyRow /\ None \notin B!AttributionRow /\ None \notin B!Decisions

bVars == <<anomalies, attributions, audit, soar, edges, req>>
vars  == <<anomalies, attributions, audit, soar, edges, req, faults, signals, ing, fill>>

IngestState ==
  [ pc : {"idle", "enqueue", "forward", "waiting", "answered", "crashed"},
    sid : SignalIds \union {None},      \* id the client sent; then the row's id
    det : Detections \union {None},
    call : Requests \union {None},      \* the request of B it waits for
    fwd : {"none", "skipped", "error", "ok"},
    code : {0, 200, 400, 500} ]         \* 400: refused by the scorer (422, 503)

FillState ==
  [ pc : {"idle", "sending", "waiting", "done"},
    todo : SUBSET Detections,
    call : Requests \union {None} ]

TypeOK ==
  /\ B!TypeOK
  /\ signals \subseteq [sid : SignalIds, det : Detections \union {None}]
  /\ ing  \in [Ingests -> IngestState]
  /\ fill \in [Backfills -> FillState]

Init ==
  /\ B!Init
  /\ signals = {}
  /\ ing  = [i \in Ingests |-> [pc |-> "idle", sid |-> None, det |-> None, call |-> None,
                                fwd |-> "none", code |-> 0]]
  /\ fill = [f \in Backfills |-> [pc |-> "idle", todo |-> {}, call |-> None]]

StoredIds == {s.sid : s \in signals}

\* The detections in the table and in service.
Scored == ({s.det : s \in signals} \union {ing[i].det : i \in Ingests}) \ {None}

\* uuid4: an id that no row, request or detection has.
Unminted ==
  MintedIds \ (StoredIds \union {ing[i].sid : i \in Ingests} \union {d.signal : d \in Scored})

Return(i, code, fwd) ==
  ing' = [ing EXCEPT ![i].pc = "answered", ![i].code = code, ![i].fwd = fwd]

---------------------------------------------------------------------------
(* _ingest_signal.                                                         *)

Detect(sid, k) ==
  [signal |-> sid, attack |-> k.attack, confidence |-> k.confidence, asset |-> k.asset]

IdOfRequest(sid) == {sid}

\* The client's id is kept; without one, whoever needs an id mints one.
IdFor(sid) == IF sid = None THEN Unminted ELSE {sid}

\* Scoring comes first, and its detection carries a signal id.
Score(i) ==
  /\ ing[i].pc = "idle"
  /\ \E sid \in ClientIds \union {None} :
       \/ ing' = [ing EXCEPT ![i].pc = "answered", ![i].code = 400, ![i].sid = sid]
       \/ ing' = [ing EXCEPT ![i].pc = "enqueue", ![i].sid = sid]        \* score=false
       \/ \E k \in Kinds, m \in IdFor(sid) :
            ing' = [ing EXCEPT ![i].pc = "enqueue", ![i].sid = sid, ![i].det = Detect(m, k)]
  /\ UNCHANGED <<bVars, faults, signals, fill>>

AlignedInRow(det, sid) == det

Aligned(det, sid) == IF det = None THEN None ELSE [det EXCEPT !.signal = sid]

AnyId(sid) == sid \in SignalIds

\* signal_id is UNIQUE: a second row with it is refused.
UniqueId(sid) == sid \notin StoredIds

Attempted(o, sid) == TRUE

Acknowledged(o, sid) == o = "ok" /\ UniqueId(sid)

\* enqueue: a request without an id gets one, which need not be the one its
\* detection got.  The row keeps the detection as it was scored; what is handed
\* on is aligned with the row.
Enqueue(i) ==
  /\ ing[i].pc = "enqueue"
  /\ \E sid \in IdFor(ing[i].sid), o \in B!WriteOutcomes :
       /\ B!CallCosts(o)
       /\ signals' = IF B!Applied(o) /\ UniqueId(sid)
                       THEN signals \union {[sid |-> sid, det |-> ing[i].det]}
                       ELSE signals
       /\ IF Acknowledged(o, sid)
            THEN ing' = [ing EXCEPT ![i].pc = "forward", ![i].sid = sid,
                                    ![i].det = Aligned(ing[i].det, sid)]
            ELSE Return(i, 500, "none")
  /\ UNCHANGED <<bVars, fill>>

\* forward_detection_to_correlate, up to its POST.
Replayable(det) == IF det = None THEN FALSE ELSE det.attack # "BENIGN"

Skips(det) == ~ForwardEnabled \/ ~Replayable(det)

ForwardSkipped(i) ==
  /\ ing[i].pc = "forward"
  /\ Skips(ing[i].det)
  /\ Return(i, 200, "skipped")
  /\ UNCHANGED <<bVars, faults, signals, fill>>

ForwardPost(i) ==
  /\ ing[i].pc = "forward"
  /\ ~Skips(ing[i].det)
  /\ \E r \in Requests :
       /\ req[r].pc = "idle"
       /\ B!Correlate(r, ing[i].det)
       /\ ing' = [ing EXCEPT ![i].pc = "waiting", ![i].call = r]
  /\ UNCHANGED <<signals, fill>>

\* B answers in time.
ReplyOf(r) ==
  IF req[r].code # 200 THEN "error" ELSE IF req[r].id = None THEN "skipped" ELSE "ok"

ForwardReply(i) ==
  /\ ing[i].pc = "waiting"
  /\ req[ing[i].call].pc = "done"
  /\ Return(i, 200, ReplyOf(ing[i].call))
  /\ UNCHANGED <<bVars, faults, signals, fill>>

ForwardErrorWithoutTimeout(i) ==
  /\ ing[i].pc = "forward" /\ ~Skips(ing[i].det) /\ B!Fault
  /\ Return(i, 200, "error")
  /\ UNCHANGED <<bVars, signals, fill>>

ForwardErrorRaised(i) ==
  /\ ing[i].pc = "waiting"
  /\ Return(i, 500, "error")
  /\ UNCHANGED <<bVars, faults, signals, fill>>

\* No answer: B is down, its answer is lost, or it is late.  Never retried.
ForwardError(i) ==
  /\ \/ ing[i].pc = "forward" /\ ~Skips(ing[i].det) /\ B!Fault
     \/ ing[i].pc = "waiting" /\ UNCHANGED faults
  /\ Return(i, 200, "error")
  /\ UNCHANGED <<bVars, signals, fill>>

IngestCrash(i) ==
  /\ ing[i].pc \in {"enqueue", "forward", "waiting"}
  /\ B!Fault
  /\ ing' = [ing EXCEPT ![i].pc = "crashed"]
  /\ UNCHANGED <<bVars, signals, fill>>

---------------------------------------------------------------------------
(* replay_to_correlate: fetch the recent signals, send each detection.     *)

Fetch(f) ==
  /\ fill[f].pc = "idle"
  /\ \E page \in SUBSET signals :
       /\ Cardinality(page) = IF Cardinality(signals) <= BackfillLimit
                                THEN Cardinality(signals) ELSE BackfillLimit
       /\ page # {}
       /\ fill' = [fill EXCEPT ![f].pc = "sending",
                               ![f].todo = {s.det : s \in {x \in page : Replayable(x.det)}}]
  /\ UNCHANGED <<bVars, faults, signals, ing>>

SendAgain(f) ==
  /\ fill[f].pc = "sending"
  /\ \E d \in fill[f].todo, r \in Requests :
       /\ req[r].pc = "idle"
       /\ B!Correlate(r, d)
       /\ fill' = [fill EXCEPT ![f].pc = "waiting", ![f].call = r]
  /\ UNCHANGED <<signals, ing>>

Send(f) ==
  /\ fill[f].pc = "sending"
  /\ \E d \in fill[f].todo, r \in Requests :
       /\ req[r].pc = "idle"
       /\ B!Correlate(r, d)
       /\ fill' = [fill EXCEPT ![f].pc = "waiting", ![f].call = r, ![f].todo = @ \ {d}]
  /\ UNCHANGED <<signals, ing>>

\* B cannot be reached.
SendFails(f) ==
  /\ fill[f].pc = "sending"
  /\ B!Fault
  /\ \E d \in fill[f].todo : fill' = [fill EXCEPT ![f].todo = @ \ {d}]
  /\ UNCHANGED <<bVars, signals, ing>>

\* The answer, or an HTTP error or timeout: the loop goes on with the next.
SendReturns(f) ==
  /\ fill[f].pc = "waiting"
  /\ fill' = [fill EXCEPT ![f].pc = "sending"]
  /\ UNCHANGED <<bVars, faults, signals, ing>>

Finish(f) ==
  /\ fill[f].pc = "sending"
  /\ fill[f].todo = {}
  /\ fill' = [fill EXCEPT ![f].pc = "done"]
  /\ UNCHANGED <<bVars, faults, signals, ing>>

\* Whatever is no HTTP error ends the run (an answer that is not JSON, a signal).
Abort(f) ==
  /\ fill[f].pc \in {"sending", "waiting"}
  /\ B!Fault
  /\ fill' = [fill EXCEPT ![f].pc = "done"]
  /\ UNCHANGED <<bVars, signals, ing>>

---------------------------------------------------------------------------
(* Specification.                                                          *)

Ingest(i) ==
  \/ Score(i) \/ Enqueue(i) \/ ForwardSkipped(i) \/ ForwardPost(i)
  \/ ForwardReply(i) \/ ForwardError(i) \/ IngestCrash(i)

Backfill(f) == Fetch(f) \/ Send(f) \/ SendFails(f) \/ SendReturns(f) \/ Finish(f)
               \/ Abort(f)

BStep == (\E r \in Requests : B!Step(r)) /\ UNCHANGED <<signals, ing, fill>>

\* Everything begun has ended, or needs one more call than Requests bounds.
Quiet ==
  /\ \A i \in Ingests : ing[i].pc \in {"idle", "answered", "crashed"}
  /\ \A r \in Requests : req[r].pc \in {"idle", "done", "crashed"}
  /\ \/ \A f \in Backfills : fill[f].pc \in {"idle", "done"}
     \/ \A r \in Requests : req[r].pc # "idle"
  /\ UNCHANGED vars

Next ==
  \/ \E i \in Ingests : Ingest(i)
  \/ \E f \in Backfills : Backfill(f)
  \/ BStep
  \/ Quiet

\* The worker that serves an ingest keeps running it, and its HTTP client gives
\* up on B after its timeout.  Nothing is assumed of B.
Fairness ==
  \A i \in Ingests :
    WF_vars(Enqueue(i) \/ ForwardSkipped(i) \/ ForwardPost(i) \/ ForwardError(i))

Spec == Init /\ [][Next]_vars /\ Fairness

---------------------------------------------------------------------------
(* Properties.                                                             *)

Stored(a) == anomalies[a] # None

\* An ingest that reports its handoff "ok" has an anomaly with both rows, made
\* from its own detection and pointing at its own signal.
ForwardOkIsDurable ==
  \A i \in Ingests : ing[i].fwd = "ok" =>
    LET a == req[ing[i].call].id
    IN  Stored(a) /\ attributions[a] # None /\ anomalies[a].det = ing[i].det
        /\ ing[i].sid \in StoredIds /\ anomalies[a].det.signal = ing[i].sid

\* raw_signal_ref leads back to a stored signal ("Align detection.signal_id with
\* the persisted row before handoff", ingestion_detection/main.py:384).
AnomalyRefersToSignal ==
  \A a \in AnomalyIds : Stored(a) => anomalies[a].det.signal \in StoredIds

\* Without the backfill bridge a signal has at most one anomaly, however often
\* the client resends it and whatever is lost: the second row is refused before
\* anything is handed on, and the handoff is never repeated.
OneAnomalyPerSignal ==
  \A a, b \in AnomalyIds : Stored(a) /\ Stored(b) /\ a # b =>
    anomalies[a].det.signal # anomalies[b].det.signal

\* Once the signal's row is acknowledged, the ingest is answered 200, whatever
\* becomes of the handoff: "ingest must still return 200 if B is down".
IngestSurvivesB ==
  \A i \in Ingests : ing[i].fwd # "none" => ing[i].code = 200 /\ ing[i].sid \in StoredIds

\* A row of signals never has more anomalies than its one handoff and one for
\* each run of the bridge: a run sends a detection once, whatever fails.
BackfillIsBounded ==
  \A s \in signals : s.det # None =>
    Cardinality({a \in AnomalyIds :
                   Stored(a) /\ anomalies[a].det.signal \in {s.sid, s.det.signal}})
      <= (IF ForwardEnabled THEN 1 ELSE 0)
           + Cardinality({f \in Backfills : fill[f].pc # "idle"})

\* An ingest that has begun is answered, even if B never answers it.
IngestIsAnswered ==
  \A i \in Ingests : ing[i].pc = "enqueue" ~> ing[i].pc \in {"answered", "crashed"}
=============================================================================
