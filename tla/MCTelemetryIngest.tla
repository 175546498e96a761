------------------------- MODULE MCTelemetryIngest -------------------------
(* Small instances of TelemetryIngest. *)
EXTENDS TelemetryIngest

CONSTANTS h1, h2

TwoHandlers == {h1, h2}

(* Claude Code exports metrics and logs of one session. *)
TwoExporters == {"metrics", "logs"}
OneSession == {"s"}
SameSession == [x \in Exporters |-> "s"]

(* The third event of an exporter differs from its second only in the      *)
(* model, so that the two have one fingerprint.                            *)
TwoAlike ==
    [e \in Events |-> [exporter |-> e.exporter,
                       number |-> IF e.number = 3 THEN 2 ELSE e.number]]
AllFingerprints == Events
=============================================================================
