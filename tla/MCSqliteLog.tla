---------------------------- MODULE MCSqliteLog -----------------------------
(***************************************************************************)
(* Two processes on one database file: process p1 has a request thread and *)
(* the background scoring thread, p2 one request thread.                   *)
(***************************************************************************)
EXTENDS SqliteLog

CONSTANTS s1, k1, request, worker, other, p1, p2

MCProcOf == [w \in {request, worker, other} |-> IF w = other THEN p2 ELSE p1]
=============================================================================
