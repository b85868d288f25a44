-------------------------- MODULE MCExtractionJobs --------------------------
(* Instances of ExtractionJobs for TLC. *)
EXTENDS ExtractionJobs
=============================================================================
