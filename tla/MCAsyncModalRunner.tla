-------------------------- MODULE MCAsyncModalRunner --------------------------
(* The modal runners on a small instance. *)
EXTENDS AsyncModalRunner
=============================================================================
