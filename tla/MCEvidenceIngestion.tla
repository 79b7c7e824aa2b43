-------------------------- MODULE MCEvidenceIngestion --------------------------
(***************************************************************************)
(* EvidenceIngestion on a small instance.                                  *)
(***************************************************************************)
EXTENDS EvidenceIngestion
================================================================================
