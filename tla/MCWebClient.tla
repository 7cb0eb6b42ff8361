---------------------------- MODULE MCWebClient -----------------------------
(***************************************************************************)
(* WebClient with a stick at rest or in a gentle curve, which pwm_scale    *)
(* rounds to a position with one side at zero: <<100, 10>> or <<5, 0>>.    *)
(***************************************************************************)
EXTENDS WebClient, TLC

RestAndCurve == {<<0, 0>>, <<70, 80>>}

\* Nothing tells one browser from another.
ClientSymmetry == Permutations(Clients)
=============================================================================
