--------------------------- MODULE MCFpgaCompletion ---------------------------
(* Small instances of FpgaCompletion.                                         *)
EXTENDS FpgaCompletion, SequencesExt

MCTasks ==
  {<<"txt", "img", "txt">>, <<"img">>, <<"txt">>, <<"img", "txt", "img">>,
   <<"aud", "txt">>, <<"img", "txt", "txt">>, <<"lit", "img">>, <<"img", "lit">>}
MCPrompts == {TokenIds(t) : t \in MCTasks}

=============================================================================
