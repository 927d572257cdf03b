------------------------------ MODULE FpgaClaims ------------------------------
(***************************************************************************)
(* What comments and notes of the repository say of the FPGA path, stated   *)
(* over FpgaCompletion.  The code does not bear these out; each one has a   *)
(* run that shows the behaviour.                                            *)
(***************************************************************************)
EXTENDS MCFpgaCompletion

(* "write back to DDR (act_out, used by the next layer or lm_head)": what     *)
(* layer l + 1 of a prefill reads is what layer l wrote.  The host swaps the  *)
(* two buffers and the kernel's use_ping swaps them back on odd layers.       *)
LayerFeedsNext ==
  op.name = "prefill"
    => \A t \in op.tile .. op.tile + TileSize(op.len, op.tile) - 1 :
         act[ActIn(op.layer)][t].stage = op.layer

(* "exact generation" with window_tokens = 1: the decode step that follows    *)
(* token g starts from the activation written for token g.  The activation    *)
(* is written at row cur_pos, the kernel reads row 0.                         *)
DecodeReadsNewToken ==
  (op.name = "decode" /\ op.layer = 0 /\ generated # <<>>)
    => LET row == act[ActIn(0)][0] IN row.kind = "gen" /\ row.idx = Len(generated)

ClaimTasks == {<<"img", "txt">>}
ClaimPrompts == {<<"img", "txt">>}

=============================================================================
