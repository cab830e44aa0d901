----------------------------- MODULE MCSession -----------------------------
(* Session with two languages. *)
EXTENDS Session

MCTargets == <<"fr", "de">>
MCMayHang == {"fr"}
=============================================================================
