--------------------------- MODULE MCWalPipeline ---------------------------
(* Small instances of WalPipeline: what the WAL holds.                      *)
EXTENDS WalPipeline

CONSTANTS n1, n2, a, b, cfg, other

\* Two tables of the tenant and a change of the configuration, which is never
\* coalesced.
WalFlow == <<<<a>>, <<b>>, <<cfg>>>>
\* Two tables of the tenant and one no tenant has configured.
WalFaults == <<<<a>>, <<b>>, <<other>>>>
WalTwo == <<<<a>>, <<b>>>>
\* A transaction of two rows.
WalOneTransaction == <<<<a, a>>>>
=============================================================================
