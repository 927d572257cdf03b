--------------------------- MODULE CompletionService ---------------------------
(***************************************************************************)
(* What the FPGA completion path promises its clients, without buffers,     *)
(* kernels or return codes: requests are served one at a time; a request    *)
(* gets one answer and keeps it; an answer that carries tokens carries at   *)
(* most NPredict of them, at consecutive positions, and none of them comes  *)
(* from another request's data; all until the process ends.                 *)
(***************************************************************************)
EXTENDS Naturals, Sequences

CONSTANTS Requests, NPredict

VARIABLES answer, serving, tokens, up  \* up: the process is running

vars == <<answer, serving, tokens, up>>

Nobody == <<>>
Waiting == [status |-> "waiting", tokens |-> <<>>]
Refusal(status) == [status |-> status, tokens |-> <<>>]

Init ==
  /\ answer = [r \in Requests |-> Waiting]
  /\ serving = Nobody
  /\ tokens = <<>>
  /\ up = TRUE

Serve(r) ==
  /\ serving = Nobody /\ answer[r] = Waiting
  /\ serving' = <<r>> /\ tokens' = <<>>
  /\ UNCHANGED <<answer, up>>

(* The next token continues the positions of the tokens before it.            *)
Emit ==
  /\ serving # Nobody /\ Len(tokens) < NPredict
  /\ Len(tokens') = Len(tokens) + 1
  /\ SubSeq(tokens', 1, Len(tokens)) = tokens
  /\ tokens'[Len(tokens')].who \notin Requests \ {serving[1]}
  /\ tokens # <<>> => tokens'[Len(tokens')].pos = tokens[Len(tokens)].pos + 1
  /\ UNCHANGED <<answer, serving, up>>

Deliver ==
  /\ serving # Nobody /\ tokens # <<>>
  /\ answer' = [answer EXCEPT ![serving[1]] = [status |-> "result", tokens |-> tokens]]
  /\ serving' = Nobody /\ tokens' = <<>>
  /\ UNCHANGED up

(* Refused before it is served, or given up in the middle; either way without *)
(* a single token.                                                            *)
Refuse(r) ==
  /\ serving \in {Nobody, <<r>>} /\ answer[r] = Waiting
  /\ \E status \in {"cpu", "error"} : answer' = [answer EXCEPT ![r] = Refusal(status)]
  /\ serving' = Nobody /\ tokens' = <<>>
  /\ UNCHANGED up

Work ==
  /\ up = TRUE
  /\ \/ \E r \in Requests : Serve(r) \/ Refuse(r)
     \/ Emit
     \/ Deliver

(* The process ends; whoever is being served, or waits, is not answered.      *)
Crash ==
  /\ up = TRUE /\ up' = FALSE
  /\ serving' = Nobody /\ tokens' = <<>>
  /\ UNCHANGED answer

Next == Work \/ Crash

Spec == Init /\ [][Next]_vars /\ WF_vars(Work)

=============================================================================
