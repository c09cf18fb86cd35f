-------------------------- MODULE MC_AuditLedger ---------------------------
(* A small instance of AuditLedger for TLC.                                *)
EXTENDS AuditLedger

CONSTANTS c1, c2

MCContent == {c1, c2}
=============================================================================
