------------------------------ MODULE MCAuditLog ------------------------------
(***************************************************************************)
(* Instances of AuditLog for TLC: two kinds of events, and a clock that    *)
(* may stand still between them.                                           *)
(***************************************************************************)
EXTENDS AuditLog

CONSTANTS detector, route

MCMaterials == {detector, route}
===============================================================================
