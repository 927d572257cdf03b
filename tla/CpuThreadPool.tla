---------------------------- MODULE CpuThreadPool ----------------------------
(***************************************************************************)
(* The thread pool of ggml's CPU backend, as it is without OpenMP: workers  *)
(* that poll and then sleep for the next graph, the barrier between the     *)
(* nodes of a graph, the chunks of a product taken from a shared counter,   *)
(* pausing, resuming and freeing.  Thread 0 is the caller of                *)
(* ggml_graph_compute; one atomic access is one step, in program order, and *)
(* what is done under the mutex is one step; the two loads that begin the   *)
(* barrier are one.  Every node is a MUL_MAT.                               *)
(***************************************************************************)
EXTENDS Integers

CONSTANTS
  MaxThreads,  \* n_threads_max
  Nodes,       \* nodes of a graph
  Chunks,      \* chunks a product is cut into if that is enough for the threads
  Spread,      \* chunks per thread that are enough: 4 in ggml_compute_forward_mul_mat
  MaxGraphs    \* bound: graphs computed

ASSUME PoolAssumption ==
  /\ {MaxThreads, Nodes, Chunks, Spread} \subseteq Nat \ {0}
  /\ MaxGraphs \in Nat

Threads == 0 .. MaxThreads - 1
Workers == Threads \ {0}

VARIABLES
  pool,        \* ggml_threadpool: n_graph, n_threads_cur, n_barrier, n_barrier_passed, current_chunk, stop, pause, abort
  sleeping,    \* workers waiting on cond
  pc,          \* where a thread is
  last_graph,  \* ggml_compute_state: the graph a thread has last taken note of
  local,       \* locals of a thread: new_graph, nth, node_n, current_chunk, n_threads and n_passed of the barrier, where it returns to
  done,        \* history: how often each chunk of this graph's nodes has been computed
  grown        \* history: some graph used more threads than the one before it

vars == <<pool, sleeping, pc, last_graph, local, done, grown>>
history == <<done, grown>>

At(t, place) == pc[t] = place
Goto(t, place) == pc' = [pc EXCEPT ![t] = place]
Active(t) == t < pool.n_threads_cur

NothingDone == [n \in 0 .. Nodes - 1 |-> [c \in 0 .. Chunks + MaxThreads |-> 0]]

Init ==
  /\ \E paused \in BOOLEAN :
       pool = [n_graph |-> 0, n_threads_cur |-> MaxThreads, n_barrier |-> 0, n_barrier_passed |-> 0,
               current_chunk |-> 0, stop |-> FALSE, pause |-> paused, abort |-> -1]
  /\ sleeping = {}
  /\ pc = [t \in Threads |-> IF t = 0 THEN "idle" ELSE "top"]
  /\ last_graph = [t \in Threads |-> 0]
  /\ local = [t \in Threads |-> [new_graph |-> 0, nth |-> 0, node_n |-> 0, chunk |-> 0,
                                 n_threads |-> 0, n_passed |-> 0, then |-> "top"]]
  /\ done = NothingDone /\ grown = FALSE

-----------------------------------------------------------------------------
(* The caller.                                                                *)

(* ggml_graph_compute: the parameters are reset.                              *)
GraphCompute(n) ==
  /\ At(0, "idle") /\ pool.n_graph < MaxGraphs
  /\ pool' = [pool EXCEPT !.current_chunk = 0, !.abort = -1]
  /\ local' = [local EXCEPT ![0].nth = n]
  /\ done' = NothingDone /\ grown' = (grown \/ n > pool.n_threads_cur)
  /\ Goto(0, "kickoff")
  /\ UNCHANGED <<sleeping, last_graph>>

Kickoff_NoBroadcast ==  \* Mutant: workers that sleep are not woken.
  /\ At(0, "kickoff")
  /\ pool' = [pool EXCEPT !.n_threads_cur = local[0].nth, !.n_graph = @ + 1, !.pause = FALSE]
  /\ Goto(0, "begin")
  /\ UNCHANGED <<sleeping, last_graph, local, history>>

(* ggml_graph_compute_kickoff, which also resumes a paused pool.              *)
Kickoff ==
  /\ At(0, "kickoff")
  /\ pool' = [pool EXCEPT !.n_threads_cur = local[0].nth, !.n_graph = @ + 1, !.pause = FALSE]
  /\ sleeping' = {}
  /\ Goto(0, "begin")
  /\ UNCHANGED <<last_graph, local, history>>

(* ggml_threadpool_pause and _resume, between graphs.                         *)
PauseOrResume ==
  /\ At(0, "idle")
  /\ pool' = [pool EXCEPT !.pause = ~@]
  /\ sleeping' = {}
  /\ UNCHANGED <<pc, last_graph, local, history>>

(* ggml_threadpool_free: stop, wake everybody, join.                          *)
Free ==
  /\ At(0, "idle")
  /\ pool' = [pool EXCEPT !.stop = TRUE, !.pause = FALSE]
  /\ sleeping' = {}
  /\ Goto(0, "join")
  /\ UNCHANGED <<last_graph, local, history>>

Join ==
  /\ At(0, "join") /\ \A t \in Workers : At(t, "exit")
  /\ Goto(0, "freed")
  /\ UNCHANGED <<pool, sleeping, last_graph, local, history>>

-----------------------------------------------------------------------------
(* A worker between graphs.                                                   *)

Sleep(t) == Goto(t, "asleep") /\ sleeping' = sleeping \cup {t}

(* ggml_graph_compute_secondary_thread, the top of the loop; a thread the    *)
(* current graph does not use goes to sleep without polling.                  *)
Top(t) ==
  /\ At(t, "top")
  /\ \/ pool.pause /\ Sleep(t) /\ local' = [local EXCEPT ![t].then = "top"]
     \/ /\ ~pool.pause
        /\ Goto(t, IF pool.stop THEN "exit" ELSE IF Active(t) THEN "poll" ELSE "lock")
        /\ UNCHANGED <<sleeping, local>>
  /\ UNCHANGED <<pool, last_graph, history>>

Wake(t) ==
  /\ At(t, "asleep") /\ t \notin sleeping
  /\ Goto(t, local[t].then)
  /\ UNCHANGED <<pool, sleeping, last_graph, local, history>>

(* ggml_graph_compute_poll_for_work gives up after some rounds, or at once    *)
(* when the pool stops or pauses.                                             *)
PollEnds(t) ==
  /\ At(t, "poll")
  /\ Goto(t, "lock")
  /\ UNCHANGED <<pool, sleeping, last_graph, local, history>>

(* ..._thread_ready, unlocked: n_graph is read, and then n_threads_cur.       *)
PollSees(t) ==
  /\ At(t, "poll") /\ ~pool.stop /\ ~pool.pause
  /\ pool.n_graph # last_graph[t]
  /\ local' = [local EXCEPT ![t].new_graph = pool.n_graph]
  /\ Goto(t, "decide")
  /\ UNCHANGED <<pool, sleeping, last_graph, history>>

PollDecides(t) ==
  /\ At(t, "decide")
  /\ last_graph' = [last_graph EXCEPT ![t] = local[t].new_graph]
  /\ Goto(t, IF Active(t) THEN "begin" ELSE "poll")
  /\ UNCHANGED <<pool, sleeping, local, history>>

(* ..._check_for_work, locked: ready, or asleep until the next broadcast.     *)
Lock(t) ==
  /\ At(t, "lock")
  /\ IF pool.stop \/ pool.pause THEN Goto(t, "top") /\ UNCHANGED <<sleeping, last_graph, local>>
     ELSE /\ last_graph' = [last_graph EXCEPT ![t] = pool.n_graph]
          /\ IF pool.n_graph # last_graph[t] /\ Active(t) THEN Goto(t, "begin") /\ UNCHANGED <<sleeping, local>>
             ELSE Sleep(t) /\ local' = [local EXCEPT ![t].then = "lock"]
  /\ UNCHANGED <<pool, history>>

-----------------------------------------------------------------------------
(* ggml_barrier, entered with the place to go on at.                          *)

Barrier(t, then) ==
  IF pool.n_threads_cur = 1
  THEN Goto(t, then) /\ UNCHANGED local
  ELSE /\ local' = [local EXCEPT ![t].n_threads = pool.n_threads_cur,
                                 ![t].n_passed = pool.n_barrier_passed, ![t].then = then]
       /\ Goto(t, "arrive")

(* Mutant: the barrier opens for the last but one.                            *)
Arrive_Early(t) ==
  /\ At(t, "arrive")
  /\ pool' = [pool EXCEPT !.n_barrier = @ + 1]
  /\ Goto(t, IF pool.n_barrier + 2 >= local[t].n_threads THEN "reset" ELSE "spin")
  /\ UNCHANGED <<sleeping, last_graph, local, history>>

Arrive(t) ==
  /\ At(t, "arrive")
  /\ pool' = [pool EXCEPT !.n_barrier = @ + 1]
  /\ Goto(t, IF pool.n_barrier = local[t].n_threads - 1 THEN "reset" ELSE "spin")
  /\ UNCHANGED <<sleeping, last_graph, local, history>>

ResetBarrier_Not(t) ==  \* Mutant: the arrivals of this barrier count for the next one.
  /\ At(t, "reset")
  /\ Goto(t, "open")
  /\ UNCHANGED <<pool, sleeping, last_graph, local, history>>

ResetBarrier(t) ==
  /\ At(t, "reset")
  /\ pool' = [pool EXCEPT !.n_barrier = 0]
  /\ Goto(t, "open")
  /\ UNCHANGED <<sleeping, last_graph, local, history>>

OpenBarrier(t) ==
  /\ At(t, "open")
  /\ pool' = [pool EXCEPT !.n_barrier_passed = @ + 1]
  /\ Goto(t, local[t].then)
  /\ UNCHANGED <<sleeping, last_graph, local, history>>

Spin(t) ==
  /\ At(t, "spin") /\ pool.n_barrier_passed # local[t].n_passed
  /\ Goto(t, local[t].then)
  /\ UNCHANGED <<pool, sleeping, last_graph, local, history>>

-----------------------------------------------------------------------------
(* ggml_graph_compute_thread, for the caller and the workers alike.           *)

Begin(t) ==
  /\ At(t, "begin")
  /\ local' = [local EXCEPT ![t].nth = pool.n_threads_cur, ![t].node_n = 0]
  /\ Goto(t, "node")
  /\ UNCHANGED <<pool, sleeping, last_graph, history>>

Node(t) == local[t].node_n
Home(t) == IF t = 0 THEN "idle" ELSE "top"

(* Mutant: no barrier after the last node.                                    *)
LoopTest_NoLastBarrier(t) ==
  /\ At(t, "node")
  /\ Goto(t, IF Node(t) < Nodes /\ pool.abort # Node(t) THEN "mul_mat" ELSE Home(t))
  /\ UNCHANGED <<pool, sleeping, last_graph, local, history>>

LoopTest(t) ==
  /\ At(t, "node")
  /\ IF Node(t) < Nodes /\ pool.abort # Node(t)
     THEN Goto(t, "mul_mat") /\ UNCHANGED local
     ELSE Barrier(t, Home(t))
  /\ UNCHANGED <<pool, sleeping, last_graph, history>>

(* ggml_compute_forward_mul_mat: thread 0 sets the counter behind the first   *)
(* chunk of each thread, all meet, each takes chunks until there are no more. *)
SetChunk_Zero(t) ==  \* Mutant: the counter starts at the first chunk.
  /\ At(t, "mul_mat")
  /\ pool' = [pool EXCEPT !.current_chunk = IF t = 0 THEN 0 ELSE @]
  /\ local' = [local EXCEPT ![t].chunk = t]
  /\ Goto(t, "set")
  /\ UNCHANGED <<sleeping, last_graph, history>>

SetChunk(t) ==
  /\ At(t, "mul_mat")
  /\ pool' = [pool EXCEPT !.current_chunk = IF t = 0 THEN local[t].nth ELSE @]
  /\ local' = [local EXCEPT ![t].chunk = t]
  /\ Goto(t, "set")
  /\ UNCHANGED <<sleeping, last_graph, history>>

MeetInMulMat(t) ==
  /\ At(t, "set") /\ Barrier(t, "chunk")
  /\ UNCHANGED <<pool, sleeping, last_graph, history>>

ChunkCount(nth) == IF Chunks < Spread * nth THEN nth ELSE Chunks

ComputeChunk(t) ==
  LET nth == local[t].nth  c == local[t].chunk
  IN  /\ At(t, "chunk")
      /\ IF c < ChunkCount(nth)
         THEN /\ done' = [done EXCEPT ![Node(t)][c] = @ + 1]
              /\ Goto(t, IF nth >= ChunkCount(nth) THEN "after" ELSE "take")
         ELSE Goto(t, "after") /\ UNCHANGED done
      /\ UNCHANGED <<pool, sleeping, last_graph, local, grown>>

TakeChunk(t) ==
  /\ At(t, "take")
  /\ local' = [local EXCEPT ![t].chunk = pool.current_chunk]
  /\ pool' = [pool EXCEPT !.current_chunk = @ + 1]
  /\ Goto(t, "chunk")
  /\ UNCHANGED <<sleeping, last_graph, history>>

(* After a node thread 0 asks the abort callback; node_n counts on.           *)
AfterNode(t) ==
  /\ At(t, "after")
  /\ pool' \in {pool} \cup (IF t = 0 THEN {[pool EXCEPT !.abort = Node(t) + 1]} ELSE {})
  /\ local' = [local EXCEPT ![t].node_n = @ + 1]
  /\ Goto(t, "meet")
  /\ UNCHANGED <<sleeping, last_graph, history>>

MeetAfterNode(t) ==
  /\ At(t, "meet")
  /\ IF Node(t) < Nodes THEN Barrier(t, "node") ELSE Goto(t, "node") /\ UNCHANGED local
  /\ UNCHANGED <<pool, sleeping, last_graph, history>>

-----------------------------------------------------------------------------
Step(t) ==
  \/ t = 0 /\ (Kickoff \/ Join)
  \/ t # 0 /\ (Top(t) \/ Wake(t) \/ PollEnds(t) \/ PollSees(t) \/ PollDecides(t) \/ Lock(t))
  \/ Begin(t) \/ LoopTest(t) \/ SetChunk(t) \/ MeetInMulMat(t) \/ ComputeChunk(t)
  \/ TakeChunk(t) \/ AfterNode(t) \/ MeetAfterNode(t)
  \/ Arrive(t) \/ ResetBarrier(t) \/ OpenBarrier(t) \/ Spin(t)

Next ==
  \/ \E n \in 1 .. MaxThreads : GraphCompute(n)
  \/ PauseOrResume \/ Free
  \/ \E t \in Threads : Step(t)

Spec == Init /\ [][Next]_vars

(* The operating system runs every thread, and locks are granted.             *)
FairSpec == Spec /\ \A t \in Threads : WF_vars(Step(t))

-----------------------------------------------------------------------------
Places ==
  {"idle", "kickoff", "join", "freed", "top", "asleep", "poll", "decide", "lock", "exit",
   "begin", "node", "mul_mat", "set", "chunk", "take", "after", "meet",
   "arrive", "reset", "open", "spin"}
InGraph(t) == pc[t] \in {"begin", "node", "mul_mat", "set", "chunk", "take", "after", "meet",
                         "arrive", "reset", "open", "spin"}

(* Places of threads and counters; only a worker sleeps; while the number of *)
(* threads has not grown, a barrier never counts more arrivals than it awaits.*)
TypeOK ==
  /\ pc \in [Threads -> Places]
  /\ sleeping \subseteq {t \in Workers : At(t, "asleep")}
  /\ pool.n_threads_cur \in 1 .. MaxThreads /\ pool.n_barrier \in Nat
  /\ grown \/ pool.n_barrier <= pool.n_threads_cur
  /\ pool.n_graph \in 0 .. MaxGraphs
  /\ last_graph \in [Threads -> 0 .. pool.n_graph]

(* No chunk of a node is computed twice, however the threads take turns at    *)
(* the counter (ggml-cpu.c:1309-1400).                                        *)
ChunkOnce == grown \/ \A n \in DOMAIN done : \A c \in DOMAIN done[n] : done[n][c] <= 1

(* A thread past the barrier after a node finds every chunk of it computed:   *)
(* the next node reads this one's result (ggml-cpu.c:532-567, 2889-2905).     *)
WholeBeforeNext ==
  grown \/ \A t \in Threads :
    InGraph(t) /\ pc[t] \notin {"begin", "meet", "arrive", "reset", "open", "spin"} =>
      \A n \in 0 .. Node(t) - 1 :
        n + 1 < Nodes => \A c \in 0 .. ChunkCount(local[t].nth) - 1 : done[n][c] = 1

(* ggml-cpu.c:3155: "No worker threads should be accessing the parameters     *)
(* below at this stage", when ggml_graph_compute resets them.  It holds as    *)
(* long as no graph uses more threads than the one before it: a worker may    *)
(* have read the number of an earlier graph, which did not use it, and then   *)
(* the thread count of a later one, which does; it works on the later graph,  *)
(* takes the number of that one for news, and works on it a second time,      *)
(* alone.  A worker on its way out of the last barrier accesses nothing.      *)
LeavingLast(t) == At(t, "spin") /\ local[t].then = "top" /\ pool.n_barrier_passed # local[t].n_passed
NoWorkerInGraph == At(0, "idle") /\ ~grown => \A t \in Workers : ~InGraph(t) \/ LeavingLast(t)

(* A graph that is started is computed, and a pool that is freed joins its    *)
(* workers: no wake-up is lost between polling and sleeping, paused or not    *)
(* (ggml-cpu.c:2946-3053, 2605-2637).                                         *)
Busy == pc[0] \notin {"idle", "freed"}
CallerReturns == Busy /\ ~grown ~> ~Busy \/ grown

=============================================================================
