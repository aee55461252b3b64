---------------------------- MODULE MCAuditChain ----------------------------
EXTENDS AuditChain

(* The hash is the list of what it covers. *)
MCHashOf(n, at, payload, prev) == <<n, at, payload, prev>>
=============================================================================
