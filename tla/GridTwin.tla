------------------------------ MODULE GridTwin ------------------------------
(* The simulated substation, shown by the digital twin screen and by the   *)
(* landing page.                                                           *)

Grid == {"nominal", "anomaly", "mitigated"}

(* Inject, Authorize (or Execute) and Clear (or Reset), as the state shows *)
(* their buttons.                                                          *)
TwinMoves == {<<"nominal", "anomaly">>, <<"anomaly", "mitigated">>,
              <<"anomaly", "nominal">>, <<"mitigated", "nominal">>}

(* The diagram: the alarm colours, and the breaker of the first feeder.    *)
Substation(grid) == [alarm |-> grid = "anomaly",
                     breaker |-> IF grid = "mitigated" THEN "open" ELSE "closed"]
=============================================================================
