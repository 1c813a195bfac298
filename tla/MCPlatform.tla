----------------------------- MODULE MCPlatform -----------------------------
(* Two calls, of which one is for a user the worker finds, and two         *)
(* workers; three lock holders; two runs at a time of three migrations.    *)
EXTENDS Platform

CONSTANTS known, unknown

MCWrites == <<2, 1, 2>>
=============================================================================
