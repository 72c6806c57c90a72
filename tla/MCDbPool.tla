------------------------------ MODULE MCDbPool ------------------------------
(* Two connections and three queries: both connections in use and a query   *)
(* waiting, both leaked and three waiting, and, after a recycle, as many    *)
(* old connections in use as new ones.                                      *)
EXTENDS DbPool
=============================================================================
