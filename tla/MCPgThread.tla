----------------------------- MODULE MCPgThread -----------------------------
(* PgThread for TLC: callers and graphs are interchangeable.                *)
EXTENDS PgThread, TLC

Symmetry == Permutations(Clients) \cup Permutations(Graphs)
=============================================================================
