------------------------------ MODULE MCProber ------------------------------
(***************************************************************************)
(* Prober for TLC: lists of up to two candidates, one of them undialable.  *)
(***************************************************************************)
EXTENDS Prober

MCCandLists == {<<>>, <<"lan">>, <<"lan", "bad", "wan">>}
MCDialable == {"lan", "wan"}
=============================================================================
