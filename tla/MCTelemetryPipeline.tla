------------------------ MODULE MCTelemetryPipeline ------------------------
(* Instances of TelemetryPipeline for model checking. *)
EXTENDS TelemetryPipeline
=============================================================================
