----------------------------- MODULE MCQueryLog -----------------------------
(* Constants for checking QueryLog. *)
EXTENDS QueryLog

\* Pieces have every length up to CHUNK_SZ + 1.
PieceLengths == 0 .. (CHUNK_SZ + 1)

Bytes == {<<n, k>> : n \in 0 .. MaxMessages, k \in 0 .. 6}
=============================================================================
