---------------------------- MODULE MCAuditReview ----------------------------
(* Small instances of AuditReview for TLC. *)
EXTENDS AuditReview, TLC

Symmetric == Permutations(Requests) \union Permutations(Keys)
=============================================================================
