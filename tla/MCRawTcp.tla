------------------------------ MODULE MCRawTcp ------------------------------
(***************************************************************************)
(* Two pairs of ends and two interceptors that both match the first pair;  *)
(* the second pair is captured only when a raw socket attaches itself.     *)
(***************************************************************************)
EXTENDS RawTcp

Overlapping == {<<"i", "e1">>, <<"j", "e1">>}

=============================================================================
