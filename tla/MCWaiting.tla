----------------------------- MODULE MCWaiting ------------------------------
(* Waiting for one hash, and for a list that names one of two hashes twice. *)
EXTENDS Waiting

CONSTANTS h1, h2

MCAskedLists == {<<h1>>, <<h1, h2, h1>>}
==============================================================================
