----------------------------- MODULE MCAuditLog -----------------------------
(* AuditLog with interchangeable events.                                   *)
EXTENDS AuditLog, TLC

EventSymmetry == Permutations(Events)
=============================================================================
