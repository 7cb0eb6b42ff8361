----------------------------- MODULE MCRoverApp -----------------------------
(***************************************************************************)
(* RoverApp on small sets of commands.  The socketpair holds two messages, *)
(* so that every thread can be found blocked in send().                    *)
(***************************************************************************)
EXTENDS RoverApp

\* A web client's stick: full speed ahead on the left, standing on the right.
OneStick == {<<100, 0>>}
=============================================================================
