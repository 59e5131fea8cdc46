----------------------------- MODULE MCAuditLog -----------------------------
(* AuditLog with a channel smaller than the number of concurrent calls. *)
EXTENDS AuditLog

CONSTANTS c1, c2, c3, c4
=============================================================================
