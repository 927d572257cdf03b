---------------------------- MODULE FpgaCompletion ----------------------------
(***************************************************************************)
(* llama-server's FPGA path: run_fpga_completion_task, executed by the      *)
(* single task loop thread, driving one FpgaRunner session for one request  *)
(* after the other.  The device keeps its buffers from request to request.  *)
(***************************************************************************)
EXTENDS FpgaRunner

CONSTANTS
  Tasks,     \* prompts of requests: sequences over {"txt", "img", "lit", "aud"},
             \* where "img" and "aud" are media chunks and "lit" is a text token
             \* whose id is 49190
  NPredict   \* bound of the token loop (n_predict)

ASSUME CompletionAssumption ==
  /\ Tasks \subseteq Seq({"txt", "img", "lit", "aud"})
  /\ NPredict \in Nat \ {0}
  /\ NoOne \notin Requests

VARIABLES
  pc,         \* where run_fpga_completion_task is
  task,       \* the request being served
  seq_len,    \* length returned by build_prefill_activations
  cur_pos,    \* cur_pos, and cur_kv, which is always equal to it
  generated,  \* for each generated token, what the sampled logits scored
  answer,     \* what each client has been sent
  embeddable  \* the loaded embedding table is one fpga_token_embedding_i8 can read

server == <<pc, task, seq_len, cur_pos, generated, answer, embeddable>>
allvars == <<vars, server>>

NoTask == [who |-> NoOne, tokens |-> <<>>]
Waiting == [status |-> "waiting", tokens |-> <<>>]

InitServer ==
  /\ Init
  /\ pc = "idle" /\ task = NoTask
  /\ seq_len = 0 /\ cur_pos = 0 /\ generated = <<>>
  /\ answer = [r \in Requests |-> Waiting]
  /\ embeddable \in BOOLEAN

-----------------------------------------------------------------------------
(* Admission: the checks before the first call into the session.              *)

HasMedia(tokens) == \E i \in DOMAIN tokens : tokens[i] \in {"img", "aud"}

(* The token loop stops with an error answer at audio, and at an image once   *)
(* token_ids holds a 49190.                                                   *)
RefusedAt(tokens, i) ==
  \/ tokens[i] = "aud"
  \/ tokens[i] = "img" /\ \E j \in 1 .. i - 1 : tokens[j] \in {"img", "lit"}

IsText(tok) == tok \in {"txt", "lit"}

(* Outcome of the token loop: the first token that stops it decides.  An      *)
(* embedding that cannot be read is an exception nobody catches.              *)
Outcome(tokens) ==
  LET stops == {i \in DOMAIN tokens :
                  RefusedAt(tokens, i) \/ (~embeddable /\ IsText(tokens[i]))}
  IN  IF stops = {} THEN "accepted"
      ELSE IF RefusedAt(tokens, CHOOSE i \in stops : \A j \in stops : i <= j)
           THEN "refused" ELSE "crash"

(* The id sequence and the embeddings handed to build_prefill_activations:    *)
(* every text token has an embedding, a literal 49190 among them.             *)
TokenIds(tokens) == [i \in DOMAIN tokens |-> IF tokens[i] = "txt" THEN "txt" ELSE "img"]
TextTokens(tokens) == {i \in DOMAIN tokens : IsText(tokens[i])}
TaskEmbeddings(t) == TextEmbeddings(t.who, Cardinality(TextTokens(t.tokens)))

Send(r, status, toks) ==
  answer' = [answer EXCEPT ![r] = [status |-> status, tokens |-> toks]]

(* return false: the request goes on to the CPU slots.                        *)
FallBack(r, tokens) ==
  /\ pc = "idle" /\ answer[r] = Waiting
  /\ ~HasMedia(tokens)
  /\ Send(r, "cpu", <<>>)
  /\ UNCHANGED <<vars, pc, task, seq_len, cur_pos, generated, embeddable>>

(* Mutant: the error is sent but the function does not return.                *)
Reject_GoesOn(r, tokens, stream) ==
  /\ pc = "idle" /\ answer[r] = Waiting
  /\ HasMedia(tokens) /\ (stream \/ Outcome(tokens) = "refused")
  /\ Send(r, "error", <<>>)
  /\ task' = [who |-> r, tokens |-> tokens]
  /\ generated' = <<>>
  /\ pc' = "patches"
  /\ UNCHANGED <<vars, seq_len, cur_pos, embeddable>>

Reject(r, tokens, stream) ==
  /\ pc = "idle" /\ answer[r] = Waiting
  /\ HasMedia(tokens) /\ (stream \/ Outcome(tokens) = "refused")
  /\ Send(r, "error", <<>>)
  /\ UNCHANGED <<vars, pc, task, seq_len, cur_pos, generated, embeddable>>

Admit(r, tokens, stream) ==
  /\ pc = "idle" /\ answer[r] = Waiting
  /\ HasMedia(tokens) /\ ~stream /\ Outcome(tokens) = "accepted"
  /\ task' = [who |-> r, tokens |-> tokens]
  /\ generated' = <<>>
  /\ pc' = "patches"
  /\ UNCHANGED <<vars, seq_len, cur_pos, answer, embeddable>>

(* The exception leaves the task loop thread: the process is gone.            *)
Crash(r, tokens, stream) ==
  /\ pc = "idle" /\ answer[r] = Waiting
  /\ HasMedia(tokens) /\ ~stream /\ Outcome(tokens) = "crash"
  /\ pc' = "crashed"
  /\ UNCHANGED <<vars, task, seq_len, cur_pos, generated, answer, embeddable>>

-----------------------------------------------------------------------------
(* The calls, one per stage, and what the task does with the return code.     *)

CallSession ==
  /\ \/ pc = "patches" /\ \E shape_ok \in BOOLEAN : WriteVisionPatches(task.who, shape_ok)
     \/ pc = "encode"  /\ EncodeImage
     \/ pc = "build"   /\ BuildPrefillActivations(TokenIds(task.tokens), TaskEmbeddings(task))
     \/ pc = "prefill" /\ RunPrefill(seq_len)
     \/ pc = "decode"  /\ RunDecode(cur_pos, 1)
     \/ pc = "logits"  /\ ReadLogits
     \/ pc = "embed"   /\ WriteDecodeTokenActivation(cur_pos, Row(task.who, "gen", Len(generated)))
  /\ UNCHANGED server

SessionStep == Step /\ UNCHANGED server

(* Mutant: a failed call ends the task without an answer.                     *)
CallFailed_Silent ==
  /\ ret.rc = "error" /\ Return
  /\ pc' = "idle" /\ task' = NoTask
  /\ UNCHANGED <<seq_len, cur_pos, generated, answer, embeddable>>

(* rc != 0 at any stage: one error answer, and the loop takes the next task.  *)
CallFailed ==
  /\ ret.rc = "error" /\ Return
  /\ Send(task.who, "error", <<>>)
  /\ pc' = "idle" /\ task' = NoTask
  /\ UNCHANGED <<seq_len, cur_pos, generated, embeddable>>

After(p) == pc = p /\ ret.rc = "ok" /\ Return

(* Mutant: encode_image is not called.                                        *)
StageDone_NoEncode ==
  /\ \/ After("patches") /\ pc' = "build"
     \/ After("decode")  /\ pc' = "logits"
  /\ UNCHANGED <<task, seq_len, cur_pos, generated, answer, embeddable>>

StageDone ==
  /\ \/ After("patches") /\ pc' = "encode"
     \/ After("encode")  /\ pc' = "build"
     \/ After("decode")  /\ pc' = "logits"
  /\ UNCHANGED <<task, seq_len, cur_pos, generated, answer, embeddable>>

BuildDone ==
  /\ After("build")
  /\ seq_len' = ret.seq_len /\ pc' = "prefill"
  /\ UNCHANGED <<task, cur_pos, generated, answer, embeddable>>

PrefillDone ==
  /\ After("prefill")
  /\ cur_pos' = seq_len /\ pc' = "decode"
  /\ UNCHANGED <<task, seq_len, generated, answer, embeddable>>

(* Mutant: the token's embedding is not looked up before it is written.       *)
Sample_NoLookup ==
  /\ After("logits")
  /\ generated' = Append(generated, [who |-> logits.row.who, pos |-> logits.pos])
  /\ pc' \in {"send", "embed"}
  /\ UNCHANGED <<task, seq_len, cur_pos, answer, embeddable>>

(* Top-1 over the logits just copied; the token may be EOS.                   *)
Sample ==
  /\ After("logits")
  /\ generated' = Append(generated, [who |-> logits.row.who, pos |-> logits.pos])
  /\ pc' \in {"send", IF embeddable THEN "embed" ELSE "crashed"}
  /\ UNCHANGED <<task, seq_len, cur_pos, answer, embeddable>>

(* Mutant: cur_pos stays where it was.                                        *)
TokenWritten_SamePos ==
  /\ After("embed")
  /\ pc' = IF Len(generated) < NPredict THEN "decode" ELSE "send"
  /\ UNCHANGED <<task, seq_len, cur_pos, generated, answer, embeddable>>

(* Mutant: the token loop runs once too often.                                *)
TokenWritten_OneMore ==
  /\ After("embed")
  /\ cur_pos' = cur_pos + 1
  /\ pc' = IF Len(generated) <= NPredict THEN "decode" ELSE "send"
  /\ UNCHANGED <<task, seq_len, generated, answer, embeddable>>

TokenWritten ==
  /\ After("embed")
  /\ cur_pos' = cur_pos + 1
  /\ pc' = IF Len(generated) < NPredict THEN "decode" ELSE "send"
  /\ UNCHANGED <<task, seq_len, generated, answer, embeddable>>

SendResult ==
  /\ pc = "send"
  /\ Send(task.who, "result", generated)
  /\ pc' = "idle" /\ task' = NoTask
  /\ UNCHANGED <<vars, seq_len, cur_pos, generated, embeddable>>

RunTask == CallSession \/ SessionStep \/ CallFailed \/ StageDone \/ BuildDone
             \/ PrefillDone \/ Sample \/ TokenWritten \/ SendResult

NextServer ==
  \/ \E r \in Requests, tokens \in Tasks, stream \in BOOLEAN :
       \/ FallBack(r, tokens)
       \/ Reject(r, tokens, stream)
       \/ Admit(r, tokens, stream)
       \/ Crash(r, tokens, stream)
  \/ RunTask

SpecServer == InitServer /\ [][NextServer]_allvars

(* The task loop thread runs a task to its end, every XRT wait() returns, and *)
(* the loop takes a posted task when it has none.                             *)
FairServer == SpecServer /\ WF_allvars(NextServer)

-----------------------------------------------------------------------------
(* Properties.                                                                *)

(* Types of the server's variables.                                           *)
TypeOK ==
  /\ pc \in {"idle", "patches", "encode", "build", "prefill", "decode", "logits", "embed", "send", "crashed"}
  /\ pc = "idle" => task = NoTask
  /\ pc \notin {"idle", "crashed"} => task.who \in Requests
  /\ seq_len \in 0 .. MaxSeq /\ cur_pos \in 0 .. MaxSeq
  /\ Len(generated) <= NPredict
  /\ \A r \in Requests : answer[r].status \in {"waiting", "cpu", "error", "result"}

(* A row made from this request's own data.  Text tokens 49190 after the      *)
(* image make further placeholders: the image moves to the last one, and the  *)
(* rows of the others stay zeroed.                                            *)
SeveralPlaceholders == Before(TokenIds(task.tokens), Len(task.tokens) + 1, "img") > 1
OwnRow(row) == row.who = task.who \/ (SeveralPlaceholders /\ row.kind = "zero")

(* Whenever the lm_head scores of a step are about to be sampled, they were   *)
(* computed by this request's decode call for the current position: never by  *)
(* an earlier step, nor by an earlier request that failed half-way and left   *)
(* its buffers behind.                                                        *)
LogitsOfThisStep ==
  (pc = "logits" /\ ret.rc = "ok")
    => OwnRow(logits.row) /\ logits.pos = cur_pos

(* Before each decode launch, every earlier position of the layer's cache     *)
(* holds K/V of this request at that position: no gap, nothing of an earlier  *)
(* request.  It is stated for positions the cache layout has room for.        *)
HistoryIsOwn ==
  (op.name = "decode" /\ op.pos < HwMaxSeq)
    => \A p \in 0 .. op.pos - 1 :
         OwnRow(kv[op.layer][p].row) /\ kv[op.layer][p].pos = p

(* The image rows of the prompt staged for prefill are this request's image,  *)
(* fully encoded, and its text rows this request's text: nothing an earlier   *)
(* request, or a call that failed, left in the buffer.                        *)
StagedIsOwn ==
  (op.name = "prefill" /\ op.layer = 0 /\ op.tile = 0)
    => \A t \in 0 .. op.len - 1 :
         OwnRow(act["ping"][t]) /\ act["ping"][t].kind \in {"txt", "img", "zero"}

(* run_decode_ttft bounds no position, and a prompt that fills the rows is     *)
(* decoded one position past them; the row that cannot be written ends the    *)
(* answer there, so that no step is computed from such a step                 *)
(* (smolvlm2_xrt_runner.cpp:251-281, 381-395, server.cpp:3347-3380).          *)
OnlyLastTokenPastLimit ==
  \A r \in Requests : \A i \in 1 .. Len(answer[r].tokens) - 1 : answer[r].tokens[i].pos < MaxSeq

(* A client's answer, once sent, is never sent again or changed.              *)
AnswerOnce ==
  [][\A r \in Requests : answer[r] # Waiting => answer'[r] = answer[r]]_allvars

(* Every request is eventually answered, whatever fails, unless the exception *)
(* of an unreadable embedding table ends the process.                         *)
EveryRequestAnswered == \A r \in Requests : <>(answer[r] # Waiting \/ pc = "crashed")

(* With an embedding table the path cannot read (a quantized one), the only   *)
(* answers with tokens are those that end with their first token: the second  *)
(* one is never generated from an activation nobody wrote.                    *)
NoEmbeddingNoSecondToken ==
  ~embeddable => \A r \in Requests : Len(answer[r].tokens) <= 1

(* The path implements the service its clients rely on.                       *)
Service == INSTANCE CompletionService WITH
  up <- pc # "crashed",
  serving <- IF pc \in {"idle", "crashed"} THEN <<>> ELSE <<task.who>>,
  tokens <- IF pc \in {"idle", "crashed"} THEN <<>> ELSE generated
ServiceSpec == Service!Spec

=============================================================================
