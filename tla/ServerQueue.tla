------------------------------ MODULE ServerQueue ------------------------------
(***************************************************************************)
(* llama-server's task queue: HTTP handler threads post the tasks of their  *)
(* requests, wait for the results and cancel what is left when the client   *)
(* goes away or a task fails; one loop thread runs the tasks, on the FPGA   *)
(* (media, run_fpga_completion_task) or on the CPU slots (text), and defers *)
(* a task no slot can take.                                                 *)
(*                                                                          *)
(* A step is what happens under one lock of mutex_tasks or mutex_results,   *)
(* so the handlers and the loop interleave as the locks allow.              *)
(***************************************************************************)
EXTENDS Naturals, FiniteSets, Sequences

CONSTANTS
  Requests,   \* HTTP requests, each from one client
  TasksOf,    \* the tasks of a request, one per prompt
  NumSlots,   \* CPU slots
  MaybeMedia, \* tasks that may carry an image, which the FPGA path takes
  PinnedTo,   \* the id_slot of a task, or AnySlot
  AnySlot,
  MaxTokens   \* tokens a slot generates at most (n_predict)

Slots == 1 .. NumSlots
Tasks == UNION {TasksOf[r] : r \in Requests}
NoTask == 0

ASSUME QueueAssumption ==
  /\ NumSlots \in Nat \ {0} /\ MaxTokens \in Nat \ {0}
  /\ TasksOf \in [Requests -> (SUBSET (Nat \ {0})) \ {{}}]
  /\ \A r \in Requests : IsFiniteSet(TasksOf[r])
  /\ \A r, s \in Requests : r # s => TasksOf[r] \cap TasksOf[s] = {}
  /\ MaybeMedia \subseteq Tasks
  /\ PinnedTo \in [Tasks -> Slots \cup {AnySlot}]

VARIABLES
  media,     \* the tasks that do carry an image
  pc,        \* where the handler of a request is
  got,       \* results received by the handler of a request
  waiting,   \* waiting_task_ids
  results,   \* queue_results
  queue,     \* queue_tasks
  deferred,  \* queue_tasks_deferred
  slot,      \* task of a slot and the tokens it may still generate
  loop,      \* where the loop thread is, with the message or slot in hand
  returned   \* history: tasks a release has moved back to the queue

client == <<pc, got>>
vars == <<media, client, waiting, results, queue, deferred, slot, loop, returned>>

Msg(type, t) == [type |-> type, task |-> t]
Run(t) == Msg("run", t)
Cancel(t) == Msg("cancel", t)
NextResponse == Msg("next", NoTask)
Idle == [task |-> NoTask, left |-> 0]
At(place) == [at |-> place, msg |-> NextResponse, slot |-> 0]

(* The k-th of a set of numbers, and what is left of a sequence of which only  *)
(* the elements at some positions are kept.                                   *)
Nth(S, k) == CHOOSE n \in S : Cardinality({m \in S : m <= n}) = k
Keep(s, I) == [k \in 1 .. Cardinality(I) |-> s[Nth(I, k)]]

Init ==
  /\ media \in SUBSET MaybeMedia
  /\ pc = [r \in Requests |-> "new"]
  /\ got = [r \in Requests |-> 0]
  /\ waiting = {} /\ results = <<>>
  /\ queue = <<>> /\ deferred = <<>>
  /\ slot = [s \in Slots |-> Idle]
  /\ loop = At("pop")
  /\ returned = {}

-----------------------------------------------------------------------------
(* The handler of a request.                                                  *)

Enlist(r) ==
  /\ pc[r] = "new"
  /\ waiting' = waiting \cup TasksOf[r]
  /\ pc' = [pc EXCEPT ![r] = "enlisted"]
  /\ UNCHANGED <<media, got, results, queue, deferred, slot, loop, returned>>

NumTasks(r) == Cardinality(TasksOf[r])
Id(r, i) == Nth(TasksOf[r], i)

Post(r) ==
  /\ pc[r] = "enlisted"
  /\ queue' = queue \o [i \in 1 .. NumTasks(r) |-> Run(Id(r, i))]
  /\ pc' = [pc EXCEPT ![r] = "wait"]
  /\ UNCHANGED <<media, got, waiting, results, deferred, slot, loop, returned>>

ResultsOf(r) == {i \in DOMAIN results : results[i].task \in TasksOf[r]}

(* recv_with_timeout returns the request's first result; the connection is    *)
(* looked at before the result is.                                            *)
Receive(r) ==
  /\ pc[r] = "wait"
  /\ \E i \in ResultsOf(r), is_connection_closed \in BOOLEAN :
       /\ \A j \in ResultsOf(r) : i <= j
       /\ results' = Keep(results, DOMAIN results \ {i})
       /\ LET last == got[r] + 1 = NumTasks(r)
          IN  IF is_connection_closed \/ results[i].error
              THEN pc' = [pc EXCEPT ![r] = "cancel"] /\ UNCHANGED got
              ELSE /\ pc' = [pc EXCEPT ![r] = IF last THEN "answered" ELSE "wait"]
                   /\ got' = [got EXCEPT ![r] = @ + 1]
  /\ UNCHANGED <<media, waiting, queue, deferred, slot, loop, returned>>

(* A second without a result is over and the client is found to be gone.      *)
GiveUp(r) ==
  /\ pc[r] = "wait" /\ ResultsOf(r) = {}
  /\ pc' = [pc EXCEPT ![r] = "cancel"]
  /\ UNCHANGED <<media, got, waiting, results, queue, deferred, slot, loop, returned>>

(* cancel_tasks, first half: no more results for the task, and none kept.     *)
RemoveWaiting_KeepsResults(r, t) ==  \* Mutant: the results stay in the queue.
  /\ pc[r] = "cancel"
  /\ t \in TasksOf[r] \cap waiting
  /\ \A u \in TasksOf[r] \cap waiting : t <= u
  /\ waiting' = waiting \ {t}
  /\ UNCHANGED <<media, client, results, queue, deferred, slot, loop, returned>>

RemoveWaiting(r, t) ==
  /\ pc[r] = "cancel"
  /\ t \in TasksOf[r] \cap waiting
  /\ \A u \in TasksOf[r] \cap waiting : t <= u
  /\ waiting' = waiting \ {t}
  /\ results' = Keep(results, {i \in DOMAIN results : results[i].task # t})
  /\ UNCHANGED <<media, client, queue, deferred, slot, loop, returned>>

(* cancel_tasks, second half: one cancel task per task, at the front of the   *)
(* queue; posting it erases the task from both queues (cleanup_pending_task). *)
(* The order of an unordered_set is taken to be that of the ids.              *)
PostCancel(r) ==
  /\ pc[r] = "cancel" /\ TasksOf[r] \cap waiting = {}
  /\ LET pending == {Run(t) : t \in TasksOf[r]}
         cancels == [i \in 1 .. NumTasks(r) |-> Cancel(Id(r, NumTasks(r) + 1 - i))]
     IN  queue' = cancels \o Keep(queue, {i \in DOMAIN queue : queue[i] \notin pending})
  /\ deferred' = Keep(deferred, {i \in DOMAIN deferred : deferred[i] \notin TasksOf[r]})
  /\ pc' = [pc EXCEPT ![r] = "cancelled"]
  /\ UNCHANGED <<media, got, waiting, results, slot, loop, returned>>

(* remove_waiting_task_ids.                                                   *)
Finish(r) ==
  /\ pc[r] \in {"answered", "cancelled"}
  /\ waiting' = waiting \ TasksOf[r]
  /\ pc' = [pc EXCEPT ![r] = IF pc[r] = "answered" THEN "done" ELSE "gone"]
  /\ UNCHANGED <<media, got, results, queue, deferred, slot, loop, returned>>

Ended(r) == pc[r] \in {"done", "gone"}

Handler(r) ==
  \/ Enlist(r) \/ Post(r) \/ Receive(r)
  \/ \E t \in Tasks : RemoveWaiting(r, t)
  \/ PostCancel(r) \/ Finish(r)

-----------------------------------------------------------------------------
(* What the loop thread does to the shared state.                             *)

(* send: a result nobody waits for is dropped.                                *)
Send(t, error) ==
  results' = IF t \in waiting
             THEN Append(results, [task |-> t, error |-> error])
             ELSE results

(* release of a slot, and pop_deferred_task, which it calls back.             *)
Release_NoPop(s) ==  \* Mutant: the deferred tasks are not told.
  /\ slot' = [slot EXCEPT ![s] = Idle]
  /\ UNCHANGED <<queue, deferred, returned>>

Release_ToBack(s) ==  \* Mutant: the deferred task queues up again.
  /\ slot' = [slot EXCEPT ![s] = Idle]
  /\ IF deferred = <<>>
     THEN UNCHANGED <<queue, deferred, returned>>
     ELSE /\ queue' = Append(queue, Run(Head(deferred)))
          /\ deferred' = Tail(deferred)
          /\ returned' = returned \cup {Head(deferred)}

Release(s) ==
  /\ slot' = [slot EXCEPT ![s] = Idle]
  /\ IF deferred = <<>>
     THEN UNCHANGED <<queue, deferred, returned>>
     ELSE /\ queue' = <<Run(Head(deferred))>> \o queue
          /\ deferred' = Tail(deferred)
          /\ returned' = returned \cup {Head(deferred)}

-----------------------------------------------------------------------------
(* The loop: pop and process until the queue is empty, update the slots, wait.*)

PopTask ==
  /\ loop.at = "pop" /\ queue # <<>>
  /\ loop' = [At("process") EXCEPT !.msg = Head(queue)]
  /\ queue' = Tail(queue)
  /\ UNCHANGED <<media, client, waiting, results, deferred, slot, returned>>

QueueEmpty ==
  /\ loop.at = "pop" /\ queue = <<>>
  /\ loop' = At("update")
  /\ UNCHANGED <<media, client, waiting, results, queue, deferred, slot, returned>>

Processing(type) == loop.at = "process" /\ loop.msg.type = type
ToPop == loop' = At("pop")
task == loop.msg.task

(* run_fpga_completion_task: the one answer FpgaCompletion shows it gives.    *)
RunOnFpga ==
  /\ Processing("run") /\ task \in media
  /\ \E error \in BOOLEAN : Send(task, error)
  /\ ToPop
  /\ UNCHANGED <<media, client, waiting, queue, deferred, slot, returned>>

FreeSlots(t) == {s \in Slots : slot[s] = Idle /\ PinnedTo[t] \in {AnySlot, s}}

LaunchSlot ==
  /\ Processing("run") /\ task \notin media
  /\ \E s \in FreeSlots(task) :
       slot' = [slot EXCEPT ![s] = [task |-> task, left |-> MaxTokens]]
  /\ ToPop
  /\ UNCHANGED <<media, client, waiting, results, queue, deferred, returned>>

(* launch_slot_with_task returns false: an error answer, and the slot it was  *)
(* given stays idle without a release.                                        *)
LaunchFails ==
  /\ Processing("run") /\ task \notin media
  /\ FreeSlots(task) # {}
  /\ Send(task, TRUE)
  /\ ToPop
  /\ UNCHANGED <<media, client, waiting, queue, deferred, slot, returned>>

Defer_Forgets ==  \* Mutant: the task is dropped instead.
  /\ Processing("run") /\ task \notin media
  /\ FreeSlots(task) = {}
  /\ ToPop
  /\ UNCHANGED <<media, client, waiting, results, queue, deferred, slot, returned>>

Defer ==
  /\ Processing("run") /\ task \notin media
  /\ FreeSlots(task) = {}
  /\ deferred' = Append(deferred, task)
  /\ ToPop
  /\ UNCHANGED <<media, client, waiting, results, queue, slot, returned>>

ProcessCancel ==
  /\ Processing("cancel")
  /\ \/ \E s \in Slots : slot[s].task = task /\ Release(s)
     \/ /\ \A s \in Slots : slot[s].task # task
        /\ UNCHANGED <<queue, deferred, slot, returned>>
  /\ ToPop
  /\ UNCHANGED <<media, client, waiting, results>>

ProcessNext ==
  /\ Processing("next")
  /\ ToPop
  /\ UNCHANGED <<media, client, waiting, results, queue, deferred, slot, returned>>

AllIdle == \A s \in Slots : slot[s] = Idle

NothingToUpdate ==
  /\ loop.at = "update" /\ AllIdle
  /\ loop' = At("wait")
  /\ UNCHANGED <<media, client, waiting, results, queue, deferred, slot, returned>>

(* update_slots posts NEXT_RESPONSE before anything else.                     *)
StartUpdate ==
  /\ loop.at = "update" /\ ~AllIdle
  /\ queue' = Append(queue, NextResponse)
  /\ loop' = [At("decoded") EXCEPT !.slot = 1]
  /\ UNCHANGED <<media, client, waiting, results, deferred, slot, returned>>

(* llama_decode fails, on the first part of the batch or on a later one, when *)
(* slots of an earlier part may have been served: an error for every slot.    *)
DecodeFails ==
  /\ loop.at = "decoded"
  /\ loop' = [At("failed") EXCEPT !.slot = 1]
  /\ UNCHANGED <<media, client, waiting, results, queue, deferred, slot, returned>>

NextSlot ==
  loop' = IF loop.slot = NumSlots THEN At("wait") ELSE [loop EXCEPT !.slot = @ + 1]

UpdateSlot_NoLimit ==  \* Mutant: the token limit is not looked at.
  LET s == loop.slot
  IN  /\ loop.at = "decoded"
      /\ \/ /\ slot[s] = Idle
            /\ UNCHANGED <<results, queue, deferred, slot, returned>>
         \/ /\ slot[s] # Idle
            /\ slot' = [slot EXCEPT ![s].left = @ - 1]
            /\ UNCHANGED <<results, queue, deferred, returned>>
      /\ NextSlot
      /\ UNCHANGED <<media, client, waiting>>

(* One slot after the other: skip it, generate one token, or send the final   *)
(* response (an error, if the slot cannot go on) and release it.              *)
UpdateSlot ==
  LET s == loop.slot
  IN  /\ loop.at = "decoded"
      /\ \/ /\ slot[s] = Idle
            /\ UNCHANGED <<results, queue, deferred, slot, returned>>
         \/ /\ slot[s].left > 1
            /\ slot' = [slot EXCEPT ![s].left = @ - 1]
            /\ UNCHANGED <<results, queue, deferred, returned>>
         \/ /\ slot[s] # Idle
            /\ \E error \in BOOLEAN : Send(slot[s].task, error)
            /\ Release(s)
      /\ NextSlot
      /\ UNCHANGED <<media, client, waiting>>

(* send_error reads slot.task->id of every slot, and an idle slot has no      *)
(* task: the process does not survive it.                                     *)
FailSlot ==
  LET s == loop.slot
  IN  /\ loop.at = "failed"
      /\ IF slot[s] = Idle
         THEN /\ loop' = At("crashed")
              /\ pc' = [r \in Requests |-> IF Ended(r) THEN pc[r] ELSE "lost"]
              /\ UNCHANGED <<results, queue, deferred, slot, returned>>
         ELSE Send(slot[s].task, TRUE) /\ Release(s) /\ NextSlot /\ UNCHANGED pc
      /\ UNCHANGED <<media, got, waiting>>

WakeUp ==
  /\ loop.at = "wait" /\ queue # <<>>
  /\ ToPop
  /\ UNCHANGED <<media, client, waiting, results, queue, deferred, slot, returned>>

Loop ==
  \/ PopTask \/ QueueEmpty
  \/ RunOnFpga \/ LaunchSlot \/ LaunchFails \/ Defer \/ ProcessCancel \/ ProcessNext
  \/ NothingToUpdate \/ StartUpdate \/ DecodeFails \/ UpdateSlot \/ FailSlot \/ WakeUp

Next == Loop \/ \E r \in Requests : Handler(r) \/ GiveUp(r)

Spec == Init /\ [][Next]_vars

(* Every thread is scheduled; whether a client leaves is up to the client.    *)
FairSpec ==
  /\ Spec
  /\ WF_vars(Loop)
  /\ \A r \in Requests : WF_vars(Handler(r))

-----------------------------------------------------------------------------
(* Properties.                                                                *)

(* Types: messages and tasks are real ones, the loop has a message or a slot  *)
(* in hand where it needs one, and a busy slot has tokens left.               *)
QueueTypeOK ==
  /\ media \subseteq MaybeMedia
  /\ pc \in [Requests -> {"new", "enlisted", "wait", "cancel", "answered",
                          "cancelled", "done", "gone", "lost"}]
  /\ \A r \in Requests : got[r] \in 0 .. NumTasks(r)
  /\ waiting \subseteq Tasks
  /\ results \in Seq([task : Tasks, error : BOOLEAN])
  /\ queue \in Seq([type : {"run", "cancel"}, task : Tasks] \cup {NextResponse})
  /\ deferred \in Seq(Tasks)
  /\ slot \in [Slots -> [task : Tasks, left : 1 .. MaxTokens] \cup {Idle}]
  /\ loop.at \in {"pop", "process", "update", "decoded", "failed", "wait", "crashed"}
  /\ loop.at \in {"decoded", "failed"} => loop.slot \in Slots
  /\ loop.msg \in [type : {"run", "cancel"}, task : Tasks] \cup {NextResponse}

(* Where a task or its result is: in one of the queues, in the loop thread's  *)
(* hands, in a slot or among the results.                                     *)
Copies(t) ==
  {<<"queue", i>> : i \in {j \in DOMAIN queue : queue[j] = Run(t)}}
    \cup {<<"deferred", i>> : i \in {j \in DOMAIN deferred : deferred[j] = t}}
    \cup {<<"slot", s>> : s \in {q \in Slots : slot[q].task = t}}
    \cup {<<"result", i>> : i \in {j \in DOMAIN results : results[j].task = t}}
    \cup (IF loop.at = "process" /\ loop.msg = Run(t) THEN {<<"loop", 0>>} ELSE {})

(* No task is ever lost or duplicated on its way through the queues, the      *)
(* slots and the results: while its handler waits, a request has one copy of  *)
(* each task it has no result of yet, and no task ever has two.               *)
EachTaskOnce ==
  /\ \A t \in Tasks : Cardinality(Copies(t)) <= 1
  /\ \A r \in Requests : pc[r] = "wait" =>
       Cardinality(UNION {Copies(t) : t \in TasksOf[r]})
         = NumTasks(r) - got[r]

(* Every result in the queue is one somebody waits for: what a cancelled or   *)
(* finished request leaves behind never stays in it.                          *)
NoStrayResult == \A i \in DOMAIN results : results[i].task \in waiting

(* The slot a task was taken off the deferred queue for is not taken by a     *)
(* younger task: one not pinned to a slot is deferred only once.              *)
DeferredOnce ==
  \A i \in DOMAIN deferred : PinnedTo[deferred[i]] = AnySlot => deferred[i] \notin returned

(* While no request is given up, by its client or for an error, every request *)
(* gets all its results, however its tasks compete for the slots.             *)
EveryRequestServed ==
  [](\A r \in Requests : pc[r] \notin {"cancel", "lost"})
    => \A r \in Requests : <>(pc[r] = "done")

(* A task is deferred only until a slot is available: the loop does not go to *)
(* sleep, with every slot idle, on a deferred task.                           *)
DeferredHasSlot == (loop.at = "wait" /\ queue = <<>>) => deferred = <<>>

=============================================================================
