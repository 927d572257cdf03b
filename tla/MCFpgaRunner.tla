----------------------------- MODULE MCFpgaRunner -----------------------------
(* FpgaRunner under a caller that makes MaxCalls calls in any order.          *)
EXTENDS FpgaRunner

CONSTANT MaxCalls
VARIABLE calls

mcvars == <<vars, calls>>

MCPrompts == {<<"txt", "img", "txt">>, <<"txt", "txt">>, <<"img", "img">>, <<>>,
              <<"txt", "txt", "txt", "txt">>}

MCInit == Init /\ calls = 0
MCNext ==
  \/ calls < MaxCalls /\ Call /\ calls' = calls + 1
  \/ (Step \/ Return) /\ UNCHANGED calls
MCSpec == MCInit /\ [][MCNext]_mcvars

=============================================================================
