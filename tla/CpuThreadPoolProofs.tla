------------------------- MODULE CpuThreadPoolProofs -------------------------
(***************************************************************************)
(* Proofs about CpuThreadPool, for any number of threads, nodes and chunks: *)
(* the barrier, which one counter, one reset and one generation make up,    *)
(* keeps the threads of a graph in step, so that a node is computed once    *)
(* and whole before the next one begins.                                    *)
(***************************************************************************)
EXTENDS CpuThreadPool, FiniteSetTheorems, TLAPS

(* The threads of the current graph, and those of them that are in it or have *)
(* been: the caller, and a worker that has taken note of it.                  *)
Team == 0 .. pool.n_threads_cur - 1
Joined(t) == t \in Team /\ (t = 0 \/ last_graph[t] = pool.n_graph)

InBarrier(t) == pc[t] \in {"arrive", "reset", "open", "spin"}
Waiting(t) == At(t, "spin") /\ local[t].n_passed = pool.n_barrier_passed
Released(t) == At(t, "spin") /\ local[t].n_passed # pool.n_barrier_passed
Leaving(t) == Released(t) /\ local[t].then = Home(t)

(* A graph is cut by its barriers into segments, two per node: up to the one  *)
(* in mul_mat, and from there to the one after the node.  Seg is the segment  *)
(* of a thread in the graph; it counts until the thread's barrier opens.      *)
Past == -1
EndSeg(n) == IF n = Nodes THEN 2 * Nodes - 1 ELSE 2 * n
Seg(t) ==
  CASE At(t, "begin") -> 0
    [] At(t, "node") -> EndSeg(Node(t))
    [] pc[t] \in {"mul_mat", "set"} -> 2 * Node(t)
    [] pc[t] \in {"chunk", "take", "after"} -> 2 * Node(t) + 1
    [] At(t, "meet") -> 2 * Node(t) - 1
    [] InBarrier(t) /\ local[t].then = "chunk" -> 2 * Node(t)
    [] InBarrier(t) /\ local[t].then = "node" -> 2 * Node(t) - 1
    [] OTHER -> EndSeg(Node(t))
Eff(t) ==
  IF ~Joined(t) THEN 0
  ELSE IF ~InGraph(t) \/ Leaving(t) THEN Past
  ELSE IF Released(t) THEN Seg(t) + 1 ELSE Seg(t)

Cells == 0 .. Chunks + MaxThreads
Count == ChunkCount(pool.n_threads_cur)

(* Types, with what a thread keeps for later: these hold also when the number *)
(* of threads grows.                                                          *)
PoolType ==
  pool \in [n_graph : 0 .. MaxGraphs, n_threads_cur : 1 .. MaxThreads, n_barrier : Nat,
            n_barrier_passed : Nat, current_chunk : Nat, stop : BOOLEAN, pause : BOOLEAN, abort : Int]
LocalSet == [new_graph : Nat, nth : Nat, node_n : Nat, chunk : Nat, n_threads : Nat,
             n_passed : Nat, then : {"top", "lock", "idle", "chunk", "node"}]
ThreadType ==
  /\ local \in [Threads -> LocalSet]
  /\ pc \in [Threads -> Places]
  /\ last_graph \in [Threads -> 0 .. pool.n_graph]
  /\ sleeping \subseteq {t \in Workers : At(t, "asleep")}
HistoryType == done \in [0 .. Nodes - 1 -> [Cells -> Nat]] /\ grown \in BOOLEAN

CallerPlaces == {"idle", "kickoff", "join", "freed"}
WorkerPlaces == {"top", "asleep", "poll", "decide", "lock", "exit"}
PlaceOK(t) ==
  /\ pc[t] \notin IF t = 0 THEN WorkerPlaces ELSE CallerPlaces
  /\ At(t, "kickoff") => local[t].nth \in 1 .. MaxThreads /\ pool.n_graph < MaxGraphs
  /\ At(t, "asleep") => local[t].then \in {"top", "lock"}
  /\ At(t, "decide") => local[t].new_graph \in 0 .. pool.n_graph
  /\ InBarrier(t) => local[t].then \in {"chunk", "node", Home(t)}
Types == PoolType /\ ThreadType /\ HistoryType /\ \A t \in Threads : PlaceOK(t)

(* A thread of the team that has read of a new graph has read of this one and *)
(* has not joined it, and nobody but a thread of the team is in the graph,    *)
(* but for one that has yet to see that the last barrier has opened.          *)
JoinOK(t) ==
  /\ At(t, "kickoff") => local[t].nth <= pool.n_threads_cur
  /\ At(t, "decide") /\ t \in Team => local[t].new_graph = pool.n_graph /\ last_graph[t] # pool.n_graph
  /\ local[t].n_passed <= pool.n_barrier_passed
  /\ InGraph(t) => Leaving(t) \/ Joined(t)

(* A thread in the graph.                                                     *)
GraphOK(t) ==
  InGraph(t) /\ Joined(t) /\ ~Leaving(t) =>
    /\ ~At(t, "begin") => local[t].nth = pool.n_threads_cur /\ Node(t) <= Nodes
    /\ pc[t] \in {"mul_mat", "set", "chunk", "take", "after"} => Node(t) < Nodes
    /\ pc[t] \in {"mul_mat", "set"} => pool.abort # Node(t)
    /\ At(t, "set") => local[t].chunk = t
    /\ At(t, "meet") => Node(t) >= 1
    /\ InBarrier(t) =>
         /\ pool.n_threads_cur > 1
         /\ local[t].then = "chunk" =>
              Node(t) < Nodes /\ local[t].chunk = t /\ (Released(t) \/ pool.abort # Node(t))
         /\ local[t].then = "node" => Node(t) \in 1 .. Nodes - 1
         /\ local[t].then = Home(t) => Node(t) = Nodes \/ pool.abort = Node(t)
         /\ ~At(t, "spin") => local[t].n_threads = pool.n_threads_cur /\ local[t].n_passed = pool.n_barrier_passed

(* The threads of the team are all in the same segment.                       *)
Together == \A t \in Team : Eff(t) = Eff(0)

(* The barrier counts those who wait; whoever completes the count finds all   *)
(* others waiting.                                                            *)
Waiters == {t \in Threads : Waiting(t)}
BarrierOK ==
  /\ \A t \in Threads : pc[t] \in {"reset", "open"} =>
       /\ \A u \in Team \ {t} : Waiting(u)
       /\ pool.n_barrier = IF At(t, "open") THEN 0 ELSE pool.n_threads_cur
  /\ (\A t \in Threads : pc[t] \notin {"reset", "open"}) =>
       pool.n_barrier = Cardinality(Waiters) /\ pool.n_barrier < pool.n_threads_cur

(* The chunk a thread is about to compute.                                    *)
Holds(t, c) ==
  /\ Joined(t) /\ local[t].chunk = c
  /\ At(t, "chunk") \/ (Released(t) /\ local[t].then = "chunk")
Holding(t) == Holds(t, local[t].chunk)

(* What is computed so far: whole nodes, none of a later node, and of the     *)
(* node of an odd segment those chunks that are taken and not held.           *)
ChunksOK(k) ==
  /\ pool.current_chunk >= pool.n_threads_cur
  /\ \A c \in Cells : done[k][c] = 1 => c < Count /\ c < pool.current_chunk
  /\ \A c \in 0 .. Count - 1 :
       c < pool.current_chunk => done[k][c] = 1 \/ \E t \in Team : Holds(t, c)
  /\ \A t \in Team : Holding(t) =>
       /\ local[t].chunk < pool.current_chunk
       /\ local[t].chunk < Count => done[k][local[t].chunk] = 0
  /\ \A t, u \in Team : Holding(t) /\ Holding(u) /\ local[t].chunk = local[u].chunk => t = u
  /\ \A t \in Team : At(t, "take") => pool.n_threads_cur < Count
  /\ \A t \in Team : ~Holding(t) /\ ~At(t, "take")
       => Count = pool.n_threads_cur \/ pool.current_chunk >= Count
DoneOK ==
  /\ \A n \in 0 .. Nodes - 1, c \in Cells :
       /\ done[n][c] <= 1
       /\ 2 * n + 1 < Eff(0) => done[n][c] = IF c < Count THEN 1 ELSE 0
       /\ 2 * n + 1 > Eff(0) => Eff(0) = Past \/ done[n][c] = 0
  /\ \A n \in 0 .. Nodes - 1 : Eff(0) = 2 * n + 1 => ChunksOK(n)
ZeroOK ==
  /\ At(0, "kickoff") => pool.abort = -1 /\ \A n \in 0 .. Nodes - 1, c \in Cells : done[n][c] = 0
  /\ At(0, "set") \/ (InBarrier(0) /\ ~Released(0) /\ local[0].then = "chunk")
       => pool.current_chunk = pool.n_threads_cur

Kept ==
  /\ \A t \in Threads : JoinOK(t) /\ GraphOK(t)
  /\ Together /\ BarrierOK /\ DoneOK /\ ZeroOK
IInv == Types /\ (grown \/ Kept)

-----------------------------------------------------------------------------
(* Types.                                                                     *)

LEMMA ThreadsAre ==
  /\ 0 \in Threads
  /\ \A t \in Threads : t \in Nat
  /\ Workers \subseteq Threads
  /\ MaxThreads \in Nat /\ MaxThreads >= 1 /\ Nodes \in Nat /\ Nodes >= 1
  /\ Chunks \in Nat /\ Chunks >= 1 /\ Spread \in Nat /\ Spread >= 1 /\ MaxGraphs \in Nat
BY PoolAssumption DEF Threads, Workers

LEMMA InitTypes == Init => Types
<1>1. SUFFICES ASSUME Init PROVE Types
  OBVIOUS
<1>2. PoolType
  BY <1>1, ThreadsAre DEF Init, PoolType
<1>3. ThreadType
  BY <1>1, ThreadsAre DEF Init, ThreadType, LocalSet, Places
<1>4. HistoryType
  BY <1>1, ThreadsAre DEF Init, HistoryType, NothingDone, Cells
<1>5. \A t \in Threads : PlaceOK(t)
  BY <1>1 DEF Init, PlaceOK, At, WorkerPlaces, CallerPlaces, InBarrier
<1>6. QED
  BY <1>2, <1>3, <1>4, <1>5 DEF Types

(* What a step of one thread is made of: it goes to p with locals l and note  *)
(* g of a graph.                                                              *)
Moved(t, p, l, g) ==
  /\ pc' = [pc EXCEPT ![t] = p]
  /\ local' = [local EXCEPT ![t] = l]
  /\ last_graph' = [last_graph EXCEPT ![t] = g]
PoolMoved == PoolType' /\ pool'.n_graph = pool.n_graph
SleepMoved(t, p) ==
  \/ sleeping' = sleeping
  \/ t \in Workers /\ p = "asleep" /\ sleeping' = sleeping \cup {t}

LEMMA OneMoved ==
  ASSUME Types, NEW t \in Threads, NEW p \in Places, NEW l \in LocalSet, NEW g \in 0 .. pool.n_graph,
         Moved(t, p, l, g)
  PROVE  /\ pc'[t] = p /\ local'[t] = l /\ last_graph'[t] = g
         /\ \A u \in Threads \ {t} :
              pc'[u] = pc[u] /\ local'[u] = local[u] /\ last_graph'[u] = last_graph[u]
         /\ pc' \in [Threads -> Places] /\ local' \in [Threads -> LocalSet]
         /\ last_graph' \in [Threads -> 0 .. pool.n_graph]
BY DEF Types, ThreadType, Moved

(* The place a thread may go to with locals l.                                *)
MayGo(t, p, l) ==
  /\ p \in Places \ (IF t = 0 THEN WorkerPlaces ELSE CallerPlaces) /\ p # "kickoff"
  /\ l \in LocalSet
  /\ p = "asleep" => l.then \in {"top", "lock"}
  /\ p = "decide" => l.new_graph \in 0 .. pool.n_graph
  /\ p \in {"arrive", "reset", "open", "spin"} => l.then \in {"chunk", "node", Home(t)}

LEMMA MovedTypes ==
  ASSUME Types, NEW t \in Threads, NEW p, NEW l, NEW g \in 0 .. pool.n_graph, MayGo(t, p, l),
         Moved(t, p, l, g), PoolMoved, HistoryType', SleepMoved(t, p), t \notin sleeping
  PROVE  Types'
<1>1. p \in Places /\ l \in LocalSet
  BY DEF MayGo
<1>2. /\ pc'[t] = p /\ local'[t] = l
      /\ \A u \in Threads \ {t} : pc'[u] = pc[u] /\ local'[u] = local[u]
      /\ pc' \in [Threads -> Places] /\ local' \in [Threads -> LocalSet]
      /\ last_graph' \in [Threads -> 0 .. pool.n_graph]
  BY <1>1, OneMoved
<1>3. pool'.n_graph = pool.n_graph
  BY DEF PoolMoved
<1>4. sleeping' \subseteq {u \in Workers : At(u, "asleep")'}
  BY <1>2, ThreadsAre DEF SleepMoved, At, Types, ThreadType
<1>5. ThreadType'
  BY <1>2, <1>3, <1>4 DEF ThreadType
<1>6. PlaceOK(t)'
  BY <1>2, <1>3 DEF MayGo, PlaceOK, At, InBarrier, Home
<1>7. ASSUME NEW u \in Threads \ {t} PROVE PlaceOK(u)'
  <2>1. pc'[u] = pc[u] /\ local'[u] = local[u] /\ PlaceOK(u)
    BY <1>2 DEF Types
  <2>2. QED
    BY <2>1, <1>3 DEF PlaceOK, At, InBarrier, Home
<1>8. QED
  BY <1>5, <1>6, <1>7 DEF Types, PoolMoved

LEMMA ActiveTeam ==
  ASSUME Types
  PROVE  /\ pool.n_threads_cur \in 1 .. MaxThreads /\ 0 \in Team /\ Team \subseteq Threads
         /\ \A t \in Threads : Active(t) <=> t \in Team
BY ThreadsAre DEF Types, PoolType, Active, Team, Threads

LEMMA TopMoves ==
  ASSUME Types, NEW t \in Workers, Top(t)
  PROVE  \E p \in {"asleep", "exit", "poll", "lock"} :
           /\ Moved(t, p, IF p = "asleep" THEN [local[t] EXCEPT !.then = "top"] ELSE local[t], last_graph[t])
           /\ SleepMoved(t, p)
BY ThreadsAre DEF Top, Goto, At, Moved, Types, ThreadType, LocalSet, Sleep, SleepMoved, Active

LEMMA WakeMoves ==
  ASSUME Types, NEW t \in Workers, Wake(t)
  PROVE  t \notin sleeping /\ Moved(t, local[t].then, local[t], last_graph[t])
BY ThreadsAre DEF Wake, Goto, At, Moved, Types, ThreadType, LocalSet

LEMMA PollEndsMoves ==
  ASSUME Types, NEW t \in Workers, PollEnds(t)
  PROVE  Moved(t, "lock", local[t], last_graph[t])
BY ThreadsAre DEF PollEnds, Goto, At, Moved, Types, ThreadType, LocalSet

LEMMA PollSeesMoves ==
  ASSUME Types, NEW t \in Workers, PollSees(t)
  PROVE  Moved(t, "decide", [local[t] EXCEPT !.new_graph = pool.n_graph], last_graph[t])
BY ThreadsAre DEF PollSees, Goto, At, Moved, Types, ThreadType, LocalSet

LEMMA PollDecidesMoves ==
  ASSUME Types, NEW t \in Workers, PollDecides(t)
  PROVE  Moved(t, IF t \in Team THEN "begin" ELSE "poll", local[t], local[t].new_graph)
BY ThreadsAre, ActiveTeam DEF PollDecides, Goto, At, Moved, Types, ThreadType, LocalSet

LEMMA LockMoves ==
  ASSUME Types, NEW t \in Workers, Lock(t)
  PROVE  \/ Moved(t, "top", local[t], last_graph[t]) /\ sleeping' = sleeping
         \/ /\ pool.n_graph # last_graph[t] /\ t \in Team
            /\ Moved(t, "begin", local[t], pool.n_graph) /\ sleeping' = sleeping
         \/ /\ pool.n_graph = last_graph[t] \/ t \notin Team
            /\ Moved(t, "asleep", [local[t] EXCEPT !.then = "lock"], pool.n_graph)
            /\ SleepMoved(t, "asleep")
<1>1. Active(t) <=> t \in Team
  BY ActiveTeam, ThreadsAre
<1> QED
  BY <1>1, ThreadsAre DEF Lock, Goto, At, Moved, Types, ThreadType, LocalSet, Sleep, SleepMoved

LEMMA BeginMoves ==
  ASSUME Types, NEW t \in Threads, Begin(t)
  PROVE  Moved(t, "node", [local[t] EXCEPT !.nth = pool.n_threads_cur, !.node_n = 0], last_graph[t])
BY ThreadsAre DEF Begin, Goto, At, Moved, Types, ThreadType, LocalSet

(* A thread that comes to a barrier goes on at once when it is alone.          *)
BarrierMoved(t, then) ==
  IF pool.n_threads_cur = 1 THEN Moved(t, then, local[t], last_graph[t])
  ELSE Moved(t, "arrive", [local[t] EXCEPT !.n_threads = pool.n_threads_cur,
                                           !.n_passed = pool.n_barrier_passed, !.then = then], last_graph[t])

LEMMA LoopTestMoves ==
  ASSUME Types, NEW t \in Threads, LoopTest(t)
  PROVE  \/ /\ Node(t) < Nodes /\ pool.abort # Node(t)
            /\ Moved(t, "mul_mat", local[t], last_graph[t])
         \/ /\ ~(Node(t) < Nodes /\ pool.abort # Node(t))
            /\ BarrierMoved(t, Home(t))
BY ThreadsAre DEF LoopTest, Goto, At, Moved, Types, ThreadType, LocalSet, Barrier, BarrierMoved

LEMMA SetChunkMoves ==
  ASSUME Types, NEW t \in Threads, SetChunk(t)
  PROVE  Moved(t, "set", [local[t] EXCEPT !.chunk = t], last_graph[t])
BY ThreadsAre DEF SetChunk, Goto, At, Moved, Types, ThreadType, LocalSet

LEMMA MeetInMulMatMoves ==
  ASSUME Types, NEW t \in Threads, MeetInMulMat(t)
  PROVE  BarrierMoved(t, "chunk")
BY ThreadsAre DEF MeetInMulMat, Goto, At, Moved, Types, ThreadType, LocalSet, Barrier, BarrierMoved

LEMMA ComputeChunkMoves ==
  ASSUME Types, NEW t \in Threads, ComputeChunk(t)
  PROVE  \E p \in {"after", "take"} : Moved(t, p, local[t], last_graph[t])
BY ThreadsAre DEF ComputeChunk, Goto, At, Moved, Types, ThreadType, LocalSet

LEMMA TakeChunkMoves ==
  ASSUME Types, NEW t \in Threads, TakeChunk(t)
  PROVE  Moved(t, "chunk", [local[t] EXCEPT !.chunk = pool.current_chunk], last_graph[t])
BY ThreadsAre DEF TakeChunk, Goto, At, Moved, Types, ThreadType, LocalSet

LEMMA AfterNodeMoves ==
  ASSUME Types, NEW t \in Threads, AfterNode(t)
  PROVE  Moved(t, "meet", [local[t] EXCEPT !.node_n = @ + 1], last_graph[t])
BY ThreadsAre DEF AfterNode, Goto, At, Moved, Types, ThreadType, LocalSet

LEMMA MeetAfterNodeMoves ==
  ASSUME Types, NEW t \in Threads, MeetAfterNode(t)
  PROVE  IF Node(t) < Nodes THEN BarrierMoved(t, "node")
         ELSE Moved(t, "node", local[t], last_graph[t])
BY ThreadsAre DEF MeetAfterNode, Goto, At, Moved, Types, ThreadType, LocalSet, Barrier, BarrierMoved, Node

LEMMA ArriveMoves ==
  ASSUME Types, NEW t \in Threads, Arrive(t)
  PROVE  Moved(t, IF pool.n_barrier = local[t].n_threads - 1 THEN "reset" ELSE "spin", local[t], last_graph[t])
BY ThreadsAre DEF Arrive, Goto, At, Moved, Types, ThreadType, LocalSet

LEMMA ResetBarrierMoves ==
  ASSUME Types, NEW t \in Threads, ResetBarrier(t)
  PROVE  Moved(t, "open", local[t], last_graph[t])
BY ThreadsAre DEF ResetBarrier, Goto, At, Moved, Types, ThreadType, LocalSet

LEMMA OpenBarrierMoves ==
  ASSUME Types, NEW t \in Threads, OpenBarrier(t)
  PROVE  Moved(t, local[t].then, local[t], last_graph[t])
BY ThreadsAre DEF OpenBarrier, Goto, At, Moved, Types, ThreadType, LocalSet

LEMMA SpinMoves ==
  ASSUME Types, NEW t \in Threads, Spin(t)
  PROVE  Moved(t, local[t].then, local[t], last_graph[t])
BY ThreadsAre DEF Spin, Goto, At, Moved, Types, ThreadType, LocalSet

(* What a thread finds at its place.                                          *)
LEMMA AtPlace ==
  ASSUME Types, NEW t \in Threads
  PROVE  /\ local[t] \in LocalSet /\ pc[t] \in Places /\ last_graph[t] \in 0 .. pool.n_graph
         /\ pc[t] # "asleep" => t \notin sleeping
         /\ PlaceOK(t)
         /\ pool.n_graph \in Nat /\ pool.n_barrier_passed \in Nat /\ pool.n_threads_cur \in Nat
BY DEF Types, ThreadType, PoolType, At

LEMMA BarrierTypes ==
  ASSUME Types, NEW t \in Threads, pc[t] # "asleep", NEW then \in {"chunk", "node", Home(t)},
         BarrierMoved(t, then), PoolMoved, HistoryType', sleeping' = sleeping
  PROVE  Types'
<1> DEFINE l == [local[t] EXCEPT !.n_threads = pool.n_threads_cur,
                                 !.n_passed = pool.n_barrier_passed, !.then = then]
<1>1. then # "asleep" /\ MayGo(t, then, local[t])
  BY AtPlace DEF MayGo, Home, Places, CallerPlaces, WorkerPlaces, LocalSet
<1>2. l \in LocalSet /\ l.then = then
  BY AtPlace DEF Home, LocalSet
<1>3. MayGo(t, "arrive", l)
  BY <1>2 DEF MayGo, Places, CallerPlaces, WorkerPlaces
<1>4. SleepMoved(t, then) /\ SleepMoved(t, "arrive") /\ t \notin sleeping /\ last_graph[t] \in 0 .. pool.n_graph
  BY AtPlace DEF SleepMoved
<1> HIDE DEF l
<1>5. CASE pool.n_threads_cur = 1
  <2>1. Moved(t, then, local[t], last_graph[t])
    BY <1>5 DEF BarrierMoved
  <2>2. QED
    BY <1>1, <1>4, <2>1, MovedTypes
<1>6. CASE pool.n_threads_cur # 1
  <2>1. Moved(t, "arrive", l, last_graph[t])
    BY <1>6 DEF BarrierMoved, l
  <2>2. QED
    BY <1>3, <1>4, <2>1, MovedTypes
<1>7. QED
  BY <1>5, <1>6

LEMMA TopTypes == ASSUME Types, NEW t \in Workers, Top(t) PROVE Types'
<1>1. t \in Threads /\ pc[t] # "asleep" /\ t \notin sleeping
  BY ThreadsAre, AtPlace DEF Top, At
<1>2. PICK p \in {"asleep", "exit", "poll", "lock"} :
        /\ Moved(t, p, IF p = "asleep" THEN [local[t] EXCEPT !.then = "top"] ELSE local[t], last_graph[t])
        /\ SleepMoved(t, p)
  BY TopMoves
<1> DEFINE l == IF p = "asleep" THEN [local[t] EXCEPT !.then = "top"] ELSE local[t]
<1>3. MayGo(t, p, l)
  BY <1>1, AtPlace, ThreadsAre DEF Workers, MayGo, Places, CallerPlaces, WorkerPlaces, LocalSet
<1>4. PoolMoved /\ HistoryType'
  BY DEF Top, history, PoolMoved, Types, PoolType, HistoryType
<1>5. last_graph[t] \in 0 .. pool.n_graph
  BY <1>1, AtPlace
<1> HIDE DEF l
<1>6. Moved(t, p, l, last_graph[t])
  BY <1>2 DEF l
<1>7. QED
  BY <1>1, <1>2, <1>3, <1>4, <1>5, <1>6, MovedTypes

LEMMA WakeTypes == ASSUME Types, NEW t \in Workers, Wake(t) PROVE Types'
<1>1. t \in Threads /\ t \notin sleeping /\ Moved(t, local[t].then, local[t], last_graph[t])
  BY ThreadsAre, WakeMoves
<1>2. MayGo(t, local[t].then, local[t]) /\ last_graph[t] \in 0 .. pool.n_graph
  BY <1>1, AtPlace, ThreadsAre DEF Wake, At, PlaceOK, Workers, MayGo, Places, CallerPlaces, WorkerPlaces
<1>3. PoolMoved /\ HistoryType' /\ SleepMoved(t, local[t].then)
  BY DEF Wake, history, PoolMoved, Types, PoolType, HistoryType, SleepMoved
<1>4. QED
  BY <1>1, <1>2, <1>3, MovedTypes

LEMMA PollEndsTypes == ASSUME Types, NEW t \in Workers, PollEnds(t) PROVE Types'
<1>1. t \in Threads /\ pc[t] # "asleep" /\ t \notin sleeping
  BY ThreadsAre, AtPlace DEF PollEnds, At
<1>2. Moved(t, "lock", local[t], last_graph[t])
  BY PollEndsMoves
<1>3. last_graph[t] \in 0 .. pool.n_graph
  BY <1>1, AtPlace DEF PollEnds, At, PlaceOK
<1>4. MayGo(t, "lock", local[t])
  BY <1>1, AtPlace, ThreadsAre DEF PollEnds, At, PlaceOK, InBarrier, Home, Workers, MayGo, Places, CallerPlaces, WorkerPlaces, LocalSet
<1>5. PoolMoved /\ HistoryType' /\ SleepMoved(t, "lock")
  BY <1>1, ThreadsAre DEF PollEnds, history, PoolMoved, Types, PoolType, HistoryType, SleepMoved
<1>6. QED
  BY <1>1, <1>2, <1>3, <1>4, <1>5, MovedTypes

LEMMA PollSeesTypes == ASSUME Types, NEW t \in Workers, PollSees(t) PROVE Types'
<1>1. t \in Threads /\ pc[t] # "asleep" /\ t \notin sleeping
  BY ThreadsAre, AtPlace DEF PollSees, At
<1>2. Moved(t, "decide", [local[t] EXCEPT !.new_graph = pool.n_graph], last_graph[t])
  BY PollSeesMoves
<1>3. last_graph[t] \in 0 .. pool.n_graph
  BY <1>1, AtPlace DEF PollSees, At, PlaceOK
<1>4. MayGo(t, "decide", [local[t] EXCEPT !.new_graph = pool.n_graph])
  BY <1>1, AtPlace, ThreadsAre DEF PollSees, At, PlaceOK, InBarrier, Home, Workers, MayGo, Places, CallerPlaces, WorkerPlaces, LocalSet
<1>5. PoolMoved /\ HistoryType' /\ SleepMoved(t, "decide")
  BY <1>1, ThreadsAre DEF PollSees, history, PoolMoved, Types, PoolType, HistoryType, SleepMoved
<1>6. QED
  BY <1>1, <1>2, <1>3, <1>4, <1>5, MovedTypes

LEMMA PollDecidesTypes == ASSUME Types, NEW t \in Workers, PollDecides(t) PROVE Types'
<1>1. t \in Threads /\ pc[t] # "asleep" /\ t \notin sleeping
  BY ThreadsAre, AtPlace DEF PollDecides, At
<1>2. Moved(t, IF t \in Team THEN "begin" ELSE "poll", local[t], local[t].new_graph)
  BY PollDecidesMoves
<1>3. local[t].new_graph \in 0 .. pool.n_graph
  BY <1>1, AtPlace DEF PollDecides, At, PlaceOK
<1>4. MayGo(t, IF t \in Team THEN "begin" ELSE "poll", local[t])
  BY <1>1, AtPlace, ThreadsAre DEF PollDecides, At, PlaceOK, InBarrier, Home, Workers, MayGo, Places, CallerPlaces, WorkerPlaces, LocalSet
<1>5. PoolMoved /\ HistoryType' /\ SleepMoved(t, IF t \in Team THEN "begin" ELSE "poll")
  BY <1>1, ThreadsAre DEF PollDecides, history, PoolMoved, Types, PoolType, HistoryType, SleepMoved
<1>6. QED
  BY <1>1, <1>2, <1>3, <1>4, <1>5, MovedTypes

LEMMA LockTypes == ASSUME Types, NEW t \in Workers, Lock(t) PROVE Types'
<1>1. t \in Threads /\ pc[t] # "asleep" /\ t \notin sleeping
  BY ThreadsAre, AtPlace DEF Lock, At
<1>2. PoolMoved /\ HistoryType'
  BY DEF Lock, history, PoolMoved, Types, PoolType, HistoryType
<1> DEFINE l == [local[t] EXCEPT !.then = "lock"]
<1>3. /\ MayGo(t, "top", local[t]) /\ MayGo(t, "begin", local[t]) /\ MayGo(t, "asleep", l)
      /\ last_graph[t] \in 0 .. pool.n_graph /\ pool.n_graph \in 0 .. pool.n_graph
  BY <1>1, AtPlace, ThreadsAre DEF Workers, MayGo, Places, CallerPlaces, WorkerPlaces, LocalSet
<1> HIDE DEF l
<1>4. \/ Moved(t, "top", local[t], last_graph[t]) /\ sleeping' = sleeping
      \/ Moved(t, "begin", local[t], pool.n_graph) /\ sleeping' = sleeping
      \/ Moved(t, "asleep", l, pool.n_graph) /\ SleepMoved(t, "asleep")
  BY LockMoves DEF l
<1>5. CASE Moved(t, "top", local[t], last_graph[t]) /\ sleeping' = sleeping
  BY <1>1, <1>2, <1>3, <1>5, MovedTypes DEF SleepMoved
<1>6. CASE Moved(t, "begin", local[t], pool.n_graph) /\ sleeping' = sleeping
  BY <1>1, <1>2, <1>3, <1>6, MovedTypes DEF SleepMoved
<1>7. CASE Moved(t, "asleep", l, pool.n_graph) /\ SleepMoved(t, "asleep")
  BY <1>1, <1>2, <1>3, <1>7, MovedTypes
<1>8. QED
  BY <1>4, <1>5, <1>6, <1>7

LEMMA BeginTypes == ASSUME Types, NEW t \in Threads, Begin(t) PROVE Types'
<1>1. t \in Threads /\ pc[t] # "asleep" /\ t \notin sleeping
  BY ThreadsAre, AtPlace DEF Begin, At
<1>2. Moved(t, "node", [local[t] EXCEPT !.nth = pool.n_threads_cur, !.node_n = 0], last_graph[t])
  BY BeginMoves
<1>3. last_graph[t] \in 0 .. pool.n_graph
  BY <1>1, AtPlace DEF Begin, At, PlaceOK
<1>4. MayGo(t, "node", [local[t] EXCEPT !.nth = pool.n_threads_cur, !.node_n = 0])
  BY <1>1, AtPlace, ThreadsAre DEF Begin, At, PlaceOK, InBarrier, Home, Workers, MayGo, Places, CallerPlaces, WorkerPlaces, LocalSet
<1>5. PoolMoved /\ HistoryType' /\ SleepMoved(t, "node")
  BY <1>1, ThreadsAre DEF Begin, history, PoolMoved, Types, PoolType, HistoryType, SleepMoved
<1>6. QED
  BY <1>1, <1>2, <1>3, <1>4, <1>5, MovedTypes

LEMMA LoopTestTypes == ASSUME Types, NEW t \in Threads, LoopTest(t) PROVE Types'
<1>1. pc[t] # "asleep" /\ t \notin sleeping
  BY AtPlace DEF LoopTest, At
<1>2. PoolMoved /\ HistoryType' /\ sleeping' = sleeping /\ SleepMoved(t, "mul_mat")
  BY DEF LoopTest, history, PoolMoved, Types, PoolType, HistoryType, SleepMoved
<1>3. CASE Moved(t, "mul_mat", local[t], last_graph[t])
  <2>1. MayGo(t, "mul_mat", local[t]) /\ last_graph[t] \in 0 .. pool.n_graph
    BY AtPlace DEF MayGo, Places, CallerPlaces, WorkerPlaces
  <2>2. QED
    BY <1>1, <1>2, <1>3, <2>1, MovedTypes
<1>4. CASE BarrierMoved(t, Home(t))
  BY <1>1, <1>2, <1>4, BarrierTypes
<1>5. QED
  BY <1>3, <1>4, LoopTestMoves

LEMMA SetChunkTypes == ASSUME Types, NEW t \in Threads, SetChunk(t) PROVE Types'
<1>1. t \in Threads /\ pc[t] # "asleep" /\ t \notin sleeping
  BY ThreadsAre, AtPlace DEF SetChunk, At
<1>2. Moved(t, "set", [local[t] EXCEPT !.chunk = t], last_graph[t])
  BY SetChunkMoves
<1>3. last_graph[t] \in 0 .. pool.n_graph
  BY <1>1, AtPlace DEF SetChunk, At, PlaceOK
<1>4. MayGo(t, "set", [local[t] EXCEPT !.chunk = t])
  BY <1>1, AtPlace, ThreadsAre DEF SetChunk, At, PlaceOK, InBarrier, Home, Workers, MayGo, Places, CallerPlaces, WorkerPlaces, LocalSet
<1>5. PoolMoved /\ HistoryType' /\ SleepMoved(t, "set")
  BY <1>1, ThreadsAre, AtPlace DEF SetChunk, history, PoolMoved, Types, PoolType, HistoryType, SleepMoved, LocalSet
<1>6. QED
  BY <1>1, <1>2, <1>3, <1>4, <1>5, MovedTypes

LEMMA MeetInMulMatTypes == ASSUME Types, NEW t \in Threads, MeetInMulMat(t) PROVE Types'
<1>1. pc[t] # "asleep" /\ PoolMoved /\ HistoryType' /\ sleeping' = sleeping
  BY DEF MeetInMulMat, At, history, PoolMoved, Types, PoolType, HistoryType
<1>2. QED
  BY <1>1, MeetInMulMatMoves, BarrierTypes

LEMMA CountedUp ==
  ASSUME NEW A, NEW B, NEW f \in [A -> [B -> Nat]], NEW a, NEW b
  PROVE  [f EXCEPT ![a][b] = @ + 1] \in [A -> [B -> Nat]]
<1> DEFINE g == [f[a] EXCEPT ![b] = f[a][b] + 1]
<1>1. ASSUME a \in A PROVE g \in [B -> Nat]
  <2>1. f[a] \in [B -> Nat]
    BY <1>1
  <2>2. b \in B => f[a][b] + 1 \in Nat
    BY <2>1
  <2> DEFINE v == f[a][b] + 1
  <2> HIDE DEF v
  <2>3. [f[a] EXCEPT ![b] = v] \in [B -> Nat]
    BY <2>1, <2>2 DEF v
  <2>4. QED
    BY <2>3 DEF v
<1>2. [f EXCEPT ![a][b] = @ + 1] = [x \in A |-> IF x = a THEN g ELSE f[x]]
  BY Zenon
<1> HIDE DEF g
<1>3. QED
  BY <1>1, <1>2

LEMMA ComputeChunkTypes == ASSUME Types, NEW t \in Threads, ComputeChunk(t) PROVE Types'
<1>1. pc[t] # "asleep" /\ t \notin sleeping
  BY AtPlace DEF ComputeChunk, At
<1>2. PICK p \in {"after", "take"} : Moved(t, p, local[t], last_graph[t])
  BY ComputeChunkMoves
<1>3. MayGo(t, p, local[t]) /\ last_graph[t] \in 0 .. pool.n_graph
  BY AtPlace DEF MayGo, Places, CallerPlaces, WorkerPlaces
<1>4. HistoryType'
  <2>1. done' = done \/ done' = [done EXCEPT ![Node(t)][local[t].chunk] = @ + 1]
    BY DEF ComputeChunk
  <2>2. [done EXCEPT ![Node(t)][local[t].chunk] = @ + 1] \in [0 .. Nodes - 1 -> [Cells -> Nat]]
    BY CountedUp DEF Types, HistoryType
  <2>3. QED
    BY <2>1, <2>2 DEF ComputeChunk, Types, HistoryType
<1>5. PoolMoved /\ SleepMoved(t, p)
  BY DEF ComputeChunk, PoolMoved, Types, PoolType, SleepMoved
<1>6. QED
  BY <1>1, <1>2, <1>3, <1>4, <1>5, MovedTypes

LEMMA TakeChunkTypes == ASSUME Types, NEW t \in Threads, TakeChunk(t) PROVE Types'
<1>1. t \in Threads /\ pc[t] # "asleep" /\ t \notin sleeping
  BY ThreadsAre, AtPlace DEF TakeChunk, At
<1>2. Moved(t, "chunk", [local[t] EXCEPT !.chunk = pool.current_chunk], last_graph[t])
  BY TakeChunkMoves
<1>3. last_graph[t] \in 0 .. pool.n_graph
  BY <1>1, AtPlace DEF TakeChunk, At, PlaceOK
<1>4. MayGo(t, "chunk", [local[t] EXCEPT !.chunk = pool.current_chunk])
  BY <1>1, AtPlace, ThreadsAre DEF Types, PoolType, TakeChunk, At, PlaceOK, InBarrier, Home, Workers, MayGo, Places, CallerPlaces, WorkerPlaces, LocalSet
<1>5. PoolMoved /\ HistoryType' /\ SleepMoved(t, "chunk")
  <2>1. pool' = [pool EXCEPT !.current_chunk = @ + 1] /\ PoolType
    BY DEF TakeChunk, Types
  <2>2. PoolMoved
    BY <2>1 DEF PoolMoved, PoolType
  <2>3. QED
    BY <2>2 DEF TakeChunk, history, Types, HistoryType, SleepMoved
<1>6. QED
  BY <1>1, <1>2, <1>3, <1>4, <1>5, MovedTypes

LEMMA AfterNodeTypes == ASSUME Types, NEW t \in Threads, AfterNode(t) PROVE Types'
<1>1. t \in Threads /\ pc[t] # "asleep" /\ t \notin sleeping
  BY ThreadsAre, AtPlace DEF AfterNode, At
<1>2. Moved(t, "meet", [local[t] EXCEPT !.node_n = @ + 1], last_graph[t])
  BY AfterNodeMoves
<1>3. last_graph[t] \in 0 .. pool.n_graph
  BY <1>1, AtPlace DEF AfterNode, At, PlaceOK
<1>4. MayGo(t, "meet", [local[t] EXCEPT !.node_n = @ + 1])
  BY <1>1, AtPlace, ThreadsAre DEF AfterNode, At, PlaceOK, InBarrier, Home, Workers, MayGo, Places, CallerPlaces, WorkerPlaces, LocalSet
<1>5. PoolMoved /\ HistoryType' /\ SleepMoved(t, "meet")
  <2>1. pool' \in {pool, [pool EXCEPT !.abort = Node(t) + 1]}
    BY DEF AfterNode
  <2>2. Node(t) + 1 \in Int
    BY AtPlace DEF Node, LocalSet
  <2>3. PoolMoved
    BY <2>1, <2>2 DEF PoolMoved, Types, PoolType
  <2>4. QED
    BY <2>3 DEF AfterNode, history, Types, HistoryType, SleepMoved
<1>6. QED
  BY <1>1, <1>2, <1>3, <1>4, <1>5, MovedTypes

LEMMA MeetAfterNodeTypes == ASSUME Types, NEW t \in Threads, MeetAfterNode(t) PROVE Types'
<1>1. /\ pc[t] # "asleep" /\ t \notin sleeping
      /\ PoolMoved /\ HistoryType' /\ sleeping' = sleeping /\ SleepMoved(t, "node")
  BY AtPlace DEF MeetAfterNode, At, history, PoolMoved, Types, PoolType, HistoryType, SleepMoved
<1>2. CASE BarrierMoved(t, "node")
  BY <1>1, <1>2, BarrierTypes
<1>3. CASE Moved(t, "node", local[t], last_graph[t])
  <2>1. MayGo(t, "node", local[t]) /\ last_graph[t] \in 0 .. pool.n_graph
    BY AtPlace DEF MayGo, Places, CallerPlaces, WorkerPlaces
  <2>2. QED
    BY <1>1, <1>3, <2>1, MovedTypes
<1>4. QED
  BY <1>2, <1>3, MeetAfterNodeMoves

LEMMA ArriveTypes == ASSUME Types, NEW t \in Threads, Arrive(t) PROVE Types'
<1>1. t \in Threads /\ pc[t] # "asleep" /\ t \notin sleeping
  BY ThreadsAre, AtPlace DEF Arrive, At
<1>2. Moved(t, IF pool.n_barrier = local[t].n_threads - 1 THEN "reset" ELSE "spin", local[t], last_graph[t])
  BY ArriveMoves
<1>3. last_graph[t] \in 0 .. pool.n_graph
  BY <1>1, AtPlace DEF Arrive, At, PlaceOK
<1>4. MayGo(t, IF pool.n_barrier = local[t].n_threads - 1 THEN "reset" ELSE "spin", local[t])
  BY <1>1, AtPlace, ThreadsAre DEF Arrive, At, PlaceOK, InBarrier, Home, Workers, MayGo, Places, CallerPlaces, WorkerPlaces, LocalSet
<1>5. PoolMoved /\ HistoryType' /\ SleepMoved(t, IF pool.n_barrier = local[t].n_threads - 1 THEN "reset" ELSE "spin")
  <2>1. pool' \in {pool, [pool EXCEPT !.n_barrier = @ + 1]}
    BY DEF Arrive
  <2>2. Node(t) + 1 \in Int
    BY AtPlace DEF Node, LocalSet
  <2>3. PoolMoved
    BY <2>1, <2>2 DEF PoolMoved, Types, PoolType
  <2>4. QED
    BY <2>3 DEF Arrive, history, Types, HistoryType, SleepMoved
<1>6. QED
  BY <1>1, <1>2, <1>3, <1>4, <1>5, MovedTypes

LEMMA ResetBarrierTypes == ASSUME Types, NEW t \in Threads, ResetBarrier(t) PROVE Types'
<1>1. t \in Threads /\ pc[t] # "asleep" /\ t \notin sleeping
  BY ThreadsAre, AtPlace DEF ResetBarrier, At
<1>2. Moved(t, "open", local[t], last_graph[t])
  BY ResetBarrierMoves
<1>3. last_graph[t] \in 0 .. pool.n_graph
  BY <1>1, AtPlace DEF ResetBarrier, At, PlaceOK
<1>4. MayGo(t, "open", local[t])
  BY <1>1, AtPlace, ThreadsAre DEF ResetBarrier, At, PlaceOK, InBarrier, Home, Workers, MayGo, Places, CallerPlaces, WorkerPlaces, LocalSet
<1>5. PoolMoved /\ HistoryType' /\ SleepMoved(t, "open")
  BY <1>1, ThreadsAre DEF ResetBarrier, history, PoolMoved, Types, PoolType, HistoryType, SleepMoved
<1>6. QED
  BY <1>1, <1>2, <1>3, <1>4, <1>5, MovedTypes

LEMMA OpenBarrierTypes == ASSUME Types, NEW t \in Threads, OpenBarrier(t) PROVE Types'
<1>1. t \in Threads /\ pc[t] # "asleep" /\ t \notin sleeping
  BY ThreadsAre, AtPlace DEF OpenBarrier, At
<1>2. Moved(t, local[t].then, local[t], last_graph[t])
  BY OpenBarrierMoves
<1>3. last_graph[t] \in 0 .. pool.n_graph
  BY <1>1, AtPlace DEF OpenBarrier, At, PlaceOK
<1>4. MayGo(t, local[t].then, local[t])
  BY <1>1, AtPlace, ThreadsAre DEF OpenBarrier, At, PlaceOK, InBarrier, Home, Workers, MayGo, Places, CallerPlaces, WorkerPlaces, LocalSet
<1>5. PoolMoved /\ HistoryType' /\ SleepMoved(t, local[t].then)
  <2>1. pool' \in {pool, [pool EXCEPT !.n_barrier_passed = @ + 1]}
    BY DEF OpenBarrier
  <2>2. Node(t) + 1 \in Int
    BY AtPlace DEF Node, LocalSet
  <2>3. PoolMoved
    BY <2>1, <2>2 DEF PoolMoved, Types, PoolType
  <2>4. QED
    BY <2>3 DEF OpenBarrier, history, Types, HistoryType, SleepMoved
<1>6. QED
  BY <1>1, <1>2, <1>3, <1>4, <1>5, MovedTypes

LEMMA SpinTypes == ASSUME Types, NEW t \in Threads, Spin(t) PROVE Types'
<1>1. t \in Threads /\ pc[t] # "asleep" /\ t \notin sleeping
  BY ThreadsAre, AtPlace DEF Spin, At
<1>2. Moved(t, local[t].then, local[t], last_graph[t])
  BY SpinMoves
<1>3. last_graph[t] \in 0 .. pool.n_graph
  BY <1>1, AtPlace DEF Spin, At, PlaceOK
<1>4. MayGo(t, local[t].then, local[t])
  BY <1>1, AtPlace, ThreadsAre DEF Spin, At, PlaceOK, InBarrier, Home, Workers, MayGo, Places, CallerPlaces, WorkerPlaces, LocalSet
<1>5. PoolMoved /\ HistoryType' /\ SleepMoved(t, local[t].then)
  BY <1>1, ThreadsAre DEF Spin, history, PoolMoved, Types, PoolType, HistoryType, SleepMoved
<1>6. QED
  BY <1>1, <1>2, <1>3, <1>4, <1>5, MovedTypes


(* The caller between graphs.                                                 *)
LEMMA CallerTypes ==
  ASSUME Types, (\E n \in 1 .. MaxThreads : GraphCompute(n)) \/ PauseOrResume \/ Free \/ Kickoff \/ Join
  PROVE  Types'
<1>1. 0 \in Threads /\ local[0] \in LocalSet /\ last_graph[0] \in 0 .. pool.n_graph /\ PlaceOK(0)
  BY ThreadsAre, AtPlace
<1>2. ASSUME NEW u \in Threads \ {0}, pc'[u] = pc[u], local'[u] = local[u], pool'.n_graph >= pool.n_graph,
             PoolType, PoolType'
      PROVE  PlaceOK(u)'
  <2>1. pool.n_graph \in Nat /\ pool'.n_graph \in Nat
    BY <1>2 DEF PoolType
  <2>2. PlaceOK(u) /\ local[u] \in LocalSet
    BY AtPlace
  <2>3. QED
    BY <1>2, <2>1, <2>2 DEF PlaceOK, At, InBarrier, Home, CallerPlaces, LocalSet
<1>3. ASSUME NEW n \in 1 .. MaxThreads, GraphCompute(n) PROVE Types'
  <2>1. PoolType' /\ pool'.n_graph = pool.n_graph
    <3>1. pool' = [pool EXCEPT !.current_chunk = 0, !.abort = -1] /\ -1 \in Int
      BY <1>3 DEF GraphCompute
    <3>2. QED
      BY <3>1 DEF Types, PoolType
  <2>2. HistoryType'
    BY <1>3, ThreadsAre DEF GraphCompute, Types, HistoryType, NothingDone, Cells
  <2>3. [local[0] EXCEPT !.nth = n] \in LocalSet
    BY <1>1, ThreadsAre DEF LocalSet
  <2>4. Moved(0, "kickoff", [local[0] EXCEPT !.nth = n], last_graph[0])
    BY <1>3, ThreadsAre DEF GraphCompute, Moved, Goto, Types, ThreadType
  <2>5. /\ pc'[0] = "kickoff" /\ local'[0].nth = n
        /\ \A u \in Threads \ {0} : pc'[u] = pc[u] /\ local'[u] = local[u]
        /\ pc' \in [Threads -> Places] /\ local' \in [Threads -> LocalSet]
        /\ last_graph' \in [Threads -> 0 .. pool.n_graph]
    <3>1. "kickoff" \in Places
      BY DEF Places
    <3>2. local'[0] = [local[0] EXCEPT !.nth = n]
      BY <1>1, <2>3, <2>4, <3>1, OneMoved
    <3>3. QED
      BY <1>1, <2>3, <2>4, <3>1, <3>2, OneMoved DEF LocalSet
  <2>6. PlaceOK(0)'
    BY <2>1, <2>5, <1>3 DEF PlaceOK, At, InBarrier, WorkerPlaces, GraphCompute
  <2>7. ThreadType'
    <3>1. sleeping' \subseteq {u \in Workers : At(u, "asleep")'}
      BY <1>3, <2>5 DEF GraphCompute, Types, ThreadType, At, Workers
    <3>2. QED
      BY <2>1, <2>5, <3>1 DEF ThreadType
  <2>8. \A u \in Threads : PlaceOK(u)'
    BY <1>2, <2>1, <2>5, <2>6 DEF Types, PoolType
  <2>9. QED
    BY <2>1, <2>2, <2>7, <2>8 DEF Types
<1>4. ASSUME Kickoff PROVE Types'
  <2>1. PoolType' /\ pool'.n_graph = pool.n_graph + 1 /\ pool.n_graph \in Nat
    <3>1. pool' = [pool EXCEPT !.n_threads_cur = local[0].nth, !.n_graph = @ + 1, !.pause = FALSE]
      BY <1>4 DEF Kickoff
    <3>2. local[0].nth \in 1 .. MaxThreads /\ pool.n_graph < MaxGraphs
      BY <1>1, <1>4 DEF Kickoff, PlaceOK, At
    <3>3. PoolType
      BY DEF Types
    <3>4. pool.n_graph + 1 \in 0 .. MaxGraphs /\ pool.n_graph \in Nat
      BY <3>2, <3>3, ThreadsAre DEF PoolType
    <3>5. QED
      BY <3>1, <3>2, <3>3, <3>4 DEF PoolType
  <2>2. /\ pc'[0] = "begin" /\ \A u \in Threads \ {0} : pc'[u] = pc[u]
        /\ pc' \in [Threads -> Places]
    BY <1>4, ThreadsAre DEF Kickoff, Goto, Types, ThreadType, Places
  <2>3. ThreadType' /\ HistoryType'
    BY <1>4, <2>1, <2>2 DEF Kickoff, history, Types, ThreadType, HistoryType
  <2>4. PlaceOK(0)'
    BY <2>2 DEF PlaceOK, At, InBarrier, WorkerPlaces
  <2>5. \A u \in Threads : PlaceOK(u)'
    BY <1>2, <1>4, <2>1, <2>2, <2>4 DEF Kickoff, Types, PoolType
  <2>6. QED
    BY <2>1, <2>3, <2>5 DEF Types
<1>5. ASSUME PauseOrResume \/ Free \/ Join PROVE Types'
  <2>1. PoolType' /\ pool'.n_graph = pool.n_graph
    BY <1>5 DEF PauseOrResume, Free, Join, Types, PoolType
  <2>2. /\ pc'[0] \in {"idle", "join", "freed"} /\ \A u \in Threads \ {0} : pc'[u] = pc[u]
        /\ pc' \in [Threads -> Places] /\ local' = local /\ last_graph' = last_graph
    BY <1>5, ThreadsAre DEF PauseOrResume, Free, Join, At, Goto, Types, ThreadType, Places
  <2>3. sleeping' \subseteq {u \in Workers : At(u, "asleep")'}
    BY <1>5, <2>2, ThreadsAre DEF PauseOrResume, Free, Join, Types, ThreadType, At, Workers
  <2>4. ThreadType' /\ HistoryType'
    BY <1>5, <2>1, <2>2, <2>3 DEF PauseOrResume, Free, Join, history, Types, ThreadType, HistoryType
  <2>5. PlaceOK(0)'
    BY <2>2 DEF PlaceOK, At, InBarrier, WorkerPlaces
  <2>6. \A u \in Threads : PlaceOK(u)'
    BY <1>2, <2>1, <2>2, <2>5 DEF Types, PoolType
  <2>7. QED
    BY <2>1, <2>4, <2>6 DEF Types
<1>6. QED
  BY <1>3, <1>4, <1>5

LEMMA TypesStep == Types /\ [Next]_vars => Types'
<1> SUFFICES ASSUME Types, [Next]_vars PROVE Types'
  OBVIOUS
<1>1. ASSUME NEW t \in Workers,
             Top(t) \/ Wake(t) \/ PollEnds(t) \/ PollSees(t) \/ PollDecides(t) \/ Lock(t)
      PROVE  Types'
  BY <1>1, TopTypes, WakeTypes, PollEndsTypes, PollSeesTypes, PollDecidesTypes, LockTypes
<1>2. ASSUME NEW t \in Threads,
             \/ Begin(t) \/ LoopTest(t) \/ SetChunk(t) \/ MeetInMulMat(t) \/ ComputeChunk(t)
             \/ TakeChunk(t) \/ AfterNode(t) \/ MeetAfterNode(t)
             \/ Arrive(t) \/ ResetBarrier(t) \/ OpenBarrier(t) \/ Spin(t)
      PROVE  Types'
  BY <1>2, BeginTypes, LoopTestTypes, SetChunkTypes, MeetInMulMatTypes, ComputeChunkTypes, TakeChunkTypes, AfterNodeTypes, MeetAfterNodeTypes, ArriveTypes, ResetBarrierTypes, OpenBarrierTypes, SpinTypes
<1>3. CASE UNCHANGED vars
  BY <1>3 DEF vars, Types, PoolType, ThreadType, HistoryType, PlaceOK, At, InBarrier
<1>4. QED
  BY <1>1, <1>2, <1>3, CallerTypes DEF Next, Step, Workers

THEOREM PoolTypes == Spec => []Types
<1>1. QED
  BY InitTypes, TypesStep, PTL DEF Spec

-----------------------------------------------------------------------------
(* What a step leaves alone.                                                  *)

Alike(u) == pc'[u] = pc[u] /\ local'[u] = local[u] /\ last_graph'[u] = last_graph[u]
SamePhase ==
  /\ pool'.n_graph = pool.n_graph /\ pool'.n_threads_cur = pool.n_threads_cur
  /\ pool'.n_barrier_passed = pool.n_barrier_passed
SameChunks == done' = done /\ pool'.current_chunk = pool.current_chunk

LEMMA FrameThread ==
  ASSUME NEW u, Alike(u), SamePhase
  PROVE  /\ Team' = Team /\ Eff(u)' = Eff(u)
         /\ Joined(u)' <=> Joined(u)
         /\ Waiting(u)' <=> Waiting(u)
         /\ \A c : Holds(u, c)' <=> Holds(u, c)
         /\ Holding(u)' <=> Holding(u)
         /\ At(u, "take")' <=> At(u, "take")
         /\ JoinOK(u) => JoinOK(u)'
         /\ pool'.abort = pool.abort => (GraphOK(u) => GraphOK(u)')
<1>1. Team' = Team
  BY DEF SamePhase, Team
<1>2. Joined(u)' <=> Joined(u)
  BY <1>1 DEF Alike, SamePhase, Joined
<1>3. (Waiting(u)' <=> Waiting(u)) /\ (Released(u)' <=> Released(u)) /\ (Leaving(u)' <=> Leaving(u))
  BY DEF Alike, SamePhase, Waiting, Released, Leaving, At, Home
<1>4. (InGraph(u)' <=> InGraph(u)) /\ (InBarrier(u)' <=> InBarrier(u)) /\ Node(u)' = Node(u)
  BY DEF Alike, InGraph, InBarrier, Node
<1>5. Seg(u)' = Seg(u)
  BY <1>4 DEF Alike, Seg, At, EndSeg
<1>6. Eff(u)' = Eff(u)
  BY <1>2, <1>3, <1>4, <1>5 DEF Eff
<1>7. \A c : Holds(u, c)' <=> Holds(u, c)
  BY <1>2, <1>3 DEF Holds, Alike, At
<1>8. Holding(u)' <=> Holding(u)
  BY <1>2, <1>3 DEF Holding, Holds, Alike, At
<1>9. At(u, "take")' <=> At(u, "take")
  BY DEF Alike, At
<1>10. JoinOK(u) => JoinOK(u)'
  BY <1>1, <1>2, <1>3, <1>4 DEF Alike, SamePhase, JoinOK, At
<1>11. pool'.abort = pool.abort => (GraphOK(u) => GraphOK(u)')
  BY <1>2, <1>3, <1>4 DEF Alike, SamePhase, GraphOK, At, Home
<1>12. QED
  BY <1>1, <1>2, <1>3, <1>6, <1>7, <1>8, <1>9, <1>10, <1>11

LEMMA FrameTogether ==
  ASSUME Types, Together, SamePhase, NEW t \in Threads, \A u \in Threads \ {t} : Alike(u),
         t \in Team => Eff(t)' = Eff(t)
  PROVE  Together' /\ Eff(0)' = Eff(0)
<1>1. 0 \in Team /\ Team \subseteq Threads
  BY ActiveTeam
<1>2. Team' = Team
  BY DEF Team, SamePhase
<1>3. \A u \in Team : Eff(u)' = Eff(u)
  BY <1>1, FrameThread
<1>4. QED
  BY <1>1, <1>2, <1>3 DEF Together

LEMMA FrameBarrier ==
  ASSUME BarrierOK, SamePhase, Team \subseteq Threads, NEW t \in Threads, \A u \in Threads \ {t} : Alike(u),
         pool'.n_barrier = pool.n_barrier, Waiting(t)' <=> Waiting(t),
         pc[t] \notin {"reset", "open"}, pc'[t] \notin {"reset", "open"}
  PROVE  BarrierOK'
<1>1. Team' = Team
  BY DEF Team, SamePhase
<1>2. \A u \in Threads : Waiting(u)' <=> Waiting(u)
  BY FrameThread
<1>3. \A u \in Threads : \/ pc'[u] = pc[u]
                         \/ pc[u] \notin {"reset", "open"} /\ pc'[u] \notin {"reset", "open"}
  BY DEF Alike
<1>4. Waiters' = Waiters
  BY <1>2 DEF Waiters
<1>5. QED
  <2>1. \A u \in Team : Waiting(u) => Waiting(u)'
    BY <1>2
  <2>2. QED
    BY <1>1, <1>2, <1>3, <1>4, <2>1 DEF BarrierOK, At, SamePhase

LEMMA FrameDone ==
  ASSUME DoneOK, SamePhase, SameChunks, Team \subseteq Threads,
         NEW t \in Threads, \A u \in Threads \ {t} : Alike(u), Eff(0)' = Eff(0),
         t \in Team => /\ \A c : Holds(t, c)' <=> Holds(t, c)
                       /\ Holding(t)' <=> Holding(t)
                       /\ Holding(t) => local'[t].chunk = local[t].chunk
                       /\ At(t, "take")' <=> At(t, "take")
  PROVE  DoneOK'
<1>1. Team' = Team /\ Count' = Count
  BY DEF Team, SamePhase, Count
<1>2. ASSUME NEW u \in Team
      PROVE  /\ \A c : Holds(u, c)' <=> Holds(u, c)
             /\ Holding(u)' <=> Holding(u)
             /\ Holding(u) => local'[u].chunk = local[u].chunk
             /\ At(u, "take")' <=> At(u, "take")
  <2>1. CASE u = t
    BY <2>1
  <2>2. CASE u # t
    <3>1. Alike(u)
      BY <2>2
    <3>2. QED
      BY <3>1, FrameThread DEF Alike
  <2>3. QED
    BY <2>1, <2>2
<1>3. ASSUME NEW k, ChunksOK(k) PROVE ChunksOK(k)'
  BY <1>1, <1>2, <1>3 DEF ChunksOK, SamePhase, SameChunks
<1>4. QED
  BY <1>1, <1>3 DEF DoneOK, SameChunks

LEMMA FrameZero ==
  ASSUME ZeroOK, SamePhase, SameChunks, Alike(0), pool'.abort = pool.abort
  PROVE  ZeroOK'
BY DEF ZeroOK, SamePhase, SameChunks, Alike, At, InBarrier, Released

(* A step of t that counts neither at the barrier nor among the chunks.       *)
Quiet(t) ==
  /\ SamePhase /\ SameChunks /\ pool'.abort = pool.abort /\ pool'.n_barrier = pool.n_barrier
  /\ \A u \in Threads \ {t} : Alike(u)
  /\ Waiting(t)' <=> Waiting(t)
  /\ pc[t] \notin {"reset", "open"} /\ pc'[t] \notin {"reset", "open"}
  /\ t \in Team => /\ Eff(t)' = Eff(t)
                   /\ \A c : Holds(t, c)' <=> Holds(t, c)
                   /\ Holding(t)' <=> Holding(t)
                   /\ Holding(t) => local'[t].chunk = local[t].chunk
                   /\ At(t, "take")' <=> At(t, "take")

(* A step of t within a graph: who waits, what is computed and what thread 0   *)
(* keeps is left to show.                                                     *)
LEMMA PhaseStep ==
  ASSUME Types, Kept, NEW t \in Threads, SamePhase, pool'.abort = pool.abort,
         \A u \in Threads \ {t} : Alike(u), t \in Team => Eff(t)' = Eff(t),
         JoinOK(t)', GraphOK(t)', BarrierOK', DoneOK', ZeroOK'
  PROVE  Kept'
<1>1. Together'
  BY FrameTogether DEF Kept
<1>2. \A u \in Threads : JoinOK(u)' /\ GraphOK(u)'
  BY FrameThread DEF Kept
<1>3. QED
  BY <1>1, <1>2 DEF Kept

LEMMA QuietStep ==
  ASSUME Types, Kept, NEW t \in Threads, Quiet(t), JoinOK(t)', GraphOK(t)', ZeroOK'
  PROVE  Kept'
<1>1. Team \subseteq Threads
  BY ActiveTeam
<1>2. Eff(0)' = Eff(0)
  BY FrameTogether DEF Kept, Quiet
<1>3. BarrierOK'
  BY <1>1, FrameBarrier DEF Kept, Quiet
<1>4. DoneOK'
  <2>1. DoneOK /\ SamePhase /\ SameChunks /\ \A u \in Threads \ {t} : Alike(u)
    BY DEF Kept, Quiet
  <2>2. t \in Team => /\ \A c : Holds(t, c)' <=> Holds(t, c)
                      /\ Holding(t)' <=> Holding(t)
                      /\ Holding(t) => local'[t].chunk = local[t].chunk
                      /\ At(t, "take")' <=> At(t, "take")
    BY DEF Quiet
  <2>3. QED
    BY <1>1, <1>2, <2>1, <2>2, FrameDone
<1>5. QED
  BY <1>3, <1>4, PhaseStep DEF Quiet

Went(t, p, l, g) ==
  /\ pc'[t] = p /\ local'[t] = l /\ last_graph'[t] = g
  /\ \A u \in Threads \ {t} : Alike(u)

LEMMA Goes ==
  ASSUME Types, NEW t \in Threads, NEW p \in Places, NEW l \in LocalSet, NEW g \in 0 .. pool.n_graph,
         Moved(t, p, l, g)
  PROVE  Went(t, p, l, g)
BY OneMoved DEF Went, Alike

Outside == {"top", "asleep", "poll", "decide", "lock", "exit", "idle", "join", "freed"}

PoolAlike ==
  /\ SamePhase /\ pool'.abort = pool.abort /\ pool'.n_barrier = pool.n_barrier
  /\ pool'.current_chunk = pool.current_chunk
LEMMA SamePool == pool' = pool => PoolAlike
BY DEF PoolAlike, SamePhase

(* Out of the graph a thread may move as it likes, as long as it takes no note *)
(* of the current graph.                                                      *)
LEMMA OutsideStep ==
  ASSUME Types, Kept, NEW t \in Threads, pc[t] \in Outside, NEW p \in Outside, NEW l, NEW g,
         Went(t, p, l, g), PoolAlike,
         done' = done, l.n_passed = local[t].n_passed,
         t \in Team => (g = pool.n_graph <=> last_graph[t] = pool.n_graph),
         p = "decide" /\ t \in Team => l.new_graph = pool.n_graph /\ g # pool.n_graph
  PROVE  Kept'
<1>1. SamePhase /\ SameChunks /\ pool'.abort = pool.abort /\ pool'.n_barrier = pool.n_barrier
  BY DEF PoolAlike, SameChunks
<1>2. pc'[t] = p /\ local'[t] = l /\ last_graph'[t] = g /\ \A u \in Threads \ {t} : Alike(u)
  BY DEF Went
<1>3. ~InGraph(t) /\ ~InGraph(t)' /\ Team' = Team
  BY <1>1, <1>2 DEF InGraph, Outside, Team, SamePhase
<1>4. ~Waiting(t) /\ ~Waiting(t)' /\ ~Released(t) /\ ~Released(t)'
  BY <1>2 DEF Waiting, Released, At, Outside
<1>5. t \in Team => (Joined(t)' <=> Joined(t))
  BY <1>1, <1>2, <1>3 DEF Joined, SamePhase
<1>6. t \in Team => Eff(t)' = Eff(t)
  BY <1>3, <1>5 DEF Eff
<1>7. (\A c : ~Holds(t, c) /\ ~Holds(t, c)') /\ ~Holding(t) /\ ~Holding(t)'
  BY <1>2, <1>4 DEF Holds, Holding, At, Outside
<1>8. Quiet(t)
  <2>1. ~At(t, "take") /\ ~At(t, "take")' /\ pc[t] \notin {"reset", "open"} /\ pc'[t] \notin {"reset", "open"}
    BY <1>2 DEF At, Outside
  <2>2. QED
    BY <1>1, <1>2, <1>4, <1>6, <1>7, <2>1 DEF Quiet
<1>9. JoinOK(t)'
  <2>1. JoinOK(t)
    BY DEF Kept
  <2>2. QED
    BY <1>1, <1>2, <1>3, <2>1 DEF JoinOK, At, Outside, SamePhase
<1>10. GraphOK(t)'
  BY <1>3 DEF GraphOK
<1>11. ZeroOK'
  <2>1. ZeroOK
    BY DEF Kept
  <2>2. CASE t = 0
    BY <1>2, <2>2 DEF ZeroOK, At, InBarrier, Outside
  <2>3. CASE t # 0
    <3>1. Alike(0)
      BY <1>2, <2>3, ThreadsAre
    <3>2. QED
      BY <1>1, <2>1, <3>1, FrameZero
  <2>4. QED
    BY <2>2, <2>3
<1>12. QED
  BY <1>8, <1>9, <1>10, <1>11, QuietStep

LEMMA TopKept == ASSUME Types, Kept, NEW t \in Workers, Top(t) PROVE Kept'
<1>1. t \in Threads /\ local[t] \in LocalSet /\ last_graph[t] \in 0 .. pool.n_graph /\ pc[t] \in Outside
  BY ThreadsAre, AtPlace DEF Top, At, Outside
<1>2. PICK p \in {"asleep", "exit", "poll", "lock"} :
        Moved(t, p, IF p = "asleep" THEN [local[t] EXCEPT !.then = "top"] ELSE local[t], last_graph[t])
  BY TopMoves
<1> DEFINE l == IF p = "asleep" THEN [local[t] EXCEPT !.then = "top"] ELSE local[t]
<1>3. l \in LocalSet /\ l.n_passed = local[t].n_passed
  BY <1>1 DEF LocalSet
<1>4. p \in Places /\ p \in Outside /\ p # "decide"
  BY DEF Places, Outside
<1>5. pool' = pool /\ done' = done
  BY DEF Top, history
<1> HIDE DEF l
<1>6. Moved(t, p, l, last_graph[t])
  BY <1>2 DEF l
<1>7. Went(t, p, l, last_graph[t])
  BY <1>1, <1>3, <1>4, <1>6, Goes
<1>8. QED
  BY <1>1, <1>3, <1>4, <1>5, <1>7, SamePool, OutsideStep

LEMMA WakeKept == ASSUME Types, Kept, NEW t \in Workers, Wake(t) PROVE Kept'
<1>1. t \in Threads /\ local[t] \in LocalSet /\ last_graph[t] \in 0 .. pool.n_graph /\ pc[t] \in Outside
  BY ThreadsAre, AtPlace DEF Wake, At, Outside
<1>2. local[t].then \in {"top", "lock"}
  BY <1>1, AtPlace DEF Wake, PlaceOK
<1>3. local[t].then \in Places /\ local[t].then \in Outside /\ local[t].then # "decide"
  BY <1>2 DEF Places, Outside
<1>4. Went(t, local[t].then, local[t], last_graph[t])
  BY <1>1, <1>3, WakeMoves, Goes
<1>5. pool' = pool /\ done' = done
  BY DEF Wake, history
<1>6. QED
  BY <1>1, <1>3, <1>4, <1>5, SamePool, OutsideStep

LEMMA PollEndsKept == ASSUME Types, Kept, NEW t \in Workers, PollEnds(t) PROVE Kept'
<1>1. t \in Threads /\ local[t] \in LocalSet /\ last_graph[t] \in 0 .. pool.n_graph /\ pc[t] \in Outside
  BY ThreadsAre, AtPlace DEF PollEnds, At, Outside
<1>2. "lock" \in Places /\ "lock" \in Outside
  BY DEF Places, Outside
<1>3. Went(t, "lock", local[t], last_graph[t])
  BY <1>1, <1>2, PollEndsMoves, Goes
<1>4. pool' = pool /\ done' = done
  BY DEF PollEnds, history
<1>5. QED
  BY <1>1, <1>2, <1>3, <1>4, SamePool, OutsideStep

LEMMA PollSeesKept == ASSUME Types, Kept, NEW t \in Workers, PollSees(t) PROVE Kept'
<1> DEFINE l == [local[t] EXCEPT !.new_graph = pool.n_graph]
<1>1. t \in Threads /\ local[t] \in LocalSet /\ last_graph[t] \in 0 .. pool.n_graph /\ pc[t] \in Outside
  BY ThreadsAre, AtPlace DEF PollSees, At, Outside
<1>2. "decide" \in Places /\ "decide" \in Outside
  BY DEF Places, Outside
<1>3. l \in LocalSet /\ l.n_passed = local[t].n_passed /\ l.new_graph = pool.n_graph
  BY <1>1, AtPlace DEF LocalSet
<1>4. pool' = pool /\ done' = done /\ pool.n_graph # last_graph[t]
  BY DEF PollSees, history
<1>5. Moved(t, "decide", l, last_graph[t])
  BY PollSeesMoves
<1> HIDE DEF l
<1>6. Went(t, "decide", l, last_graph[t])
  BY <1>1, <1>2, <1>3, <1>5, Goes
<1>7. QED
  BY <1>1, <1>2, <1>3, <1>4, <1>6, SamePool, OutsideStep

(* A thread joins the current graph.                                          *)
LEMMA JoinStep ==
  ASSUME Types, Kept, NEW t \in Workers, t \in Team, pc[t] \in Outside,
         last_graph[t] # pool.n_graph, Went(t, "begin", local[t], pool.n_graph), pool' = pool, done' = done
  PROVE  Kept'
<1>1. SamePhase /\ SameChunks /\ pool'.abort = pool.abort /\ pool'.n_barrier = pool.n_barrier /\ t # 0
  BY DEF SamePhase, SameChunks, Workers
<1>2. pc'[t] = "begin" /\ local'[t] = local[t] /\ last_graph'[t] = pool.n_graph
      /\ (\A u \in Threads \ {t} : Alike(u)) /\ t \in Threads
  BY ThreadsAre DEF Went
<1>3. Team' = Team /\ ~Joined(t) /\ Joined(t)'
  BY <1>1, <1>2 DEF Joined, Team, SamePhase
<1>4. ~Waiting(t) /\ ~Waiting(t)' /\ ~Released(t) /\ ~Released(t)' /\ ~Leaving(t) /\ ~Leaving(t)'
  BY <1>2 DEF Waiting, Released, Leaving, At, Outside
<1>5. Eff(t)' = Eff(t)
  <2>1. InGraph(t)' /\ Seg(t)' = 0
    BY <1>2 DEF InGraph, Seg, At, InBarrier
  <2>2. QED
    BY <1>3, <1>4, <2>1 DEF Eff
<1>6. (\A c : ~Holds(t, c) /\ ~Holds(t, c)') /\ ~Holding(t) /\ ~Holding(t)'
  BY <1>2, <1>4 DEF Holds, Holding, At, Outside
<1>7. Quiet(t)
  <2>1. ~At(t, "take") /\ ~At(t, "take")' /\ pc[t] \notin {"reset", "open"} /\ pc'[t] \notin {"reset", "open"}
    BY <1>2 DEF At, Outside
  <2>2. QED
    BY <1>1, <1>2, <1>4, <1>5, <1>6, <2>1 DEF Quiet
<1>8. JoinOK(t)'
  <2>1. JoinOK(t)
    BY <1>2 DEF Kept
  <2>2. QED
    BY <1>1, <1>2, <1>3, <2>1 DEF JoinOK, At, SamePhase
<1>9. GraphOK(t)'
  BY <1>2 DEF GraphOK, At, InBarrier
<1>10. ZeroOK'
  <2>1. Alike(0) /\ ZeroOK
    BY <1>1, <1>2, ThreadsAre DEF Kept
  <2>2. QED
    BY <1>1, <2>1, FrameZero
<1>11. QED
  BY <1>2, <1>7, <1>8, <1>9, <1>10, QuietStep

LEMMA PollDecidesKept == ASSUME Types, Kept, NEW t \in Workers, PollDecides(t) PROVE Kept'
<1>1. t \in Threads /\ local[t] \in LocalSet /\ last_graph[t] \in 0 .. pool.n_graph /\ pc[t] \in Outside
  BY ThreadsAre, AtPlace DEF PollDecides, At, Outside
<1>2. local[t].new_graph \in 0 .. pool.n_graph /\ JoinOK(t) /\ At(t, "decide")
  BY <1>1, AtPlace DEF PollDecides, PlaceOK, Kept
<1>3. pool' = pool /\ done' = done
  BY DEF PollDecides, history
<1>4. "begin" \in Places /\ "poll" \in Places /\ "poll" \in Outside
  BY DEF Places, Outside
<1>5. CASE t \in Team
  <2>1. local[t].new_graph = pool.n_graph /\ last_graph[t] # pool.n_graph
    BY <1>2, <1>5 DEF JoinOK
  <2>2. Moved(t, "begin", local[t], pool.n_graph) /\ pool.n_graph \in 0 .. pool.n_graph
    BY <1>2, <1>5, <2>1, PollDecidesMoves
  <2>3. Went(t, "begin", local[t], pool.n_graph)
    BY <1>1, <1>4, <2>2, Goes
  <2>4. QED
    BY <1>1, <1>3, <1>5, <2>1, <2>3, JoinStep
<1>6. CASE t \notin Team
  <2>1. Moved(t, "poll", local[t], local[t].new_graph)
    BY <1>6, PollDecidesMoves
  <2>2. Went(t, "poll", local[t], local[t].new_graph)
    BY <1>1, <1>2, <1>4, <2>1, Goes
  <2>3. QED
    BY <1>1, <1>3, <1>4, <1>6, <2>2, SamePool, OutsideStep
<1>7. QED
  BY <1>5, <1>6

LEMMA LockKept == ASSUME Types, Kept, NEW t \in Workers, Lock(t) PROVE Kept'
<1>1. t \in Threads /\ local[t] \in LocalSet /\ last_graph[t] \in 0 .. pool.n_graph /\ pc[t] \in Outside
      /\ pool.n_graph \in 0 .. pool.n_graph
  BY ThreadsAre, AtPlace DEF Lock, At, Outside
<1>2. pool' = pool /\ done' = done
  BY DEF Lock, history
<1>3. {"begin", "top", "asleep"} \subseteq Places /\ {"top", "asleep"} \subseteq Outside
  BY DEF Places, Outside
<1>4. CASE Moved(t, "top", local[t], last_graph[t])
  <2>1. Went(t, "top", local[t], last_graph[t])
    BY <1>1, <1>3, <1>4, Goes
  <2>2. QED
    BY <1>1, <1>2, <1>3, <2>1, SamePool, OutsideStep
<1>5. CASE pool.n_graph # last_graph[t] /\ t \in Team /\ Moved(t, "begin", local[t], pool.n_graph)
  <2>1. Went(t, "begin", local[t], pool.n_graph)
    BY <1>1, <1>3, <1>5, Goes
  <2>2. QED
    BY <1>1, <1>2, <1>5, <2>1, JoinStep
<1>6. CASE /\ pool.n_graph = last_graph[t] \/ t \notin Team
           /\ Moved(t, "asleep", [local[t] EXCEPT !.then = "lock"], pool.n_graph)
  <2> DEFINE l == [local[t] EXCEPT !.then = "lock"]
  <2>1. l \in LocalSet /\ l.n_passed = local[t].n_passed
    BY <1>1 DEF LocalSet
  <2>2. Moved(t, "asleep", l, pool.n_graph)
    BY <1>6
  <2> HIDE DEF l
  <2>3. Went(t, "asleep", l, pool.n_graph)
    BY <1>1, <1>3, <2>1, <2>2, Goes
  <2>4. QED
    BY <1>1, <1>2, <1>3, <1>6, <2>1, <2>3, SamePool, OutsideStep
<1>7. QED
  BY <1>4, <1>5, <1>6, LockMoves

LEMMA PauseFreeJoinKept == ASSUME Types, Kept, PauseOrResume \/ Free \/ Join PROVE Kept'
<1>1. 0 \in Threads /\ pc[0] \in Outside
  BY ThreadsAre DEF PauseOrResume, Free, Join, At, Outside
<1>2. PoolAlike /\ done' = done
  BY DEF PauseOrResume, Free, Join, PoolAlike, SamePhase, Types, PoolType, history
<1>3. \E p \in {"idle", "join", "freed"} : Went(0, p, local[0], last_graph[0])
  BY <1>1 DEF PauseOrResume, Free, Join, At, Goto, Went, Alike, Types, ThreadType
<1>4. PICK p \in {"idle", "join", "freed"} : Went(0, p, local[0], last_graph[0])
  BY <1>3
<1>5. p \in Outside /\ p # "decide"
  BY DEF Outside
<1>6. QED
  BY <1>1, <1>2, <1>4, <1>5, OutsideStep

-----------------------------------------------------------------------------
(* A thread in the graph that is not spinning.                                *)

Inner == {"begin", "node", "mul_mat", "set", "chunk", "take", "after", "meet", "arrive", "reset", "open"}

LEMMA InnerThread ==
  ASSUME Types, Kept, NEW t \in Threads, pc[t] \in Inner
  PROVE  /\ t \in Team /\ Joined(t) /\ InGraph(t) /\ ~Leaving(t) /\ ~Waiting(t) /\ ~Released(t)
         /\ Eff(t) = Seg(t) /\ Eff(0) = Seg(t)
         /\ GraphOK(t) /\ JoinOK(t) /\ ZeroOK /\ local[t] \in LocalSet /\ last_graph[t] \in 0 .. pool.n_graph
         /\ pool.n_threads_cur \in Nat /\ pool.n_barrier_passed \in Nat
         /\ \A c : Holds(t, c) <=> At(t, "chunk") /\ local[t].chunk = c
         /\ Holding(t) <=> At(t, "chunk")
<1>1. InGraph(t) /\ ~Waiting(t) /\ ~Released(t) /\ ~Leaving(t)
  BY DEF Inner, InGraph, Waiting, Released, Leaving, At
<1>2. GraphOK(t) /\ JoinOK(t) /\ ZeroOK
  BY DEF Kept
<1>3. Joined(t) /\ t \in Team
  BY <1>1, <1>2 DEF JoinOK, Joined
<1>4. Eff(t) = Seg(t) /\ Eff(0) = Seg(t)
  BY <1>1, <1>3 DEF Eff, Kept, Together
<1>5. \A c : Holds(t, c) <=> At(t, "chunk") /\ local[t].chunk = c
  BY <1>1, <1>3 DEF Holds
<1>6. QED
  BY <1>1, <1>2, <1>3, <1>4, <1>5, AtPlace DEF Holding

LEMMA InnerMoved ==
  ASSUME Types, Kept, NEW t \in Threads, pc[t] \in Inner, SamePhase, NEW p \in Inner, NEW l,
         l.n_passed <= pool.n_barrier_passed, Went(t, p, l, last_graph[t])
  PROVE  /\ pc'[t] = p /\ local'[t] = l /\ Team' = Team
         /\ Joined(t)' /\ JoinOK(t)' /\ InGraph(t)' /\ ~Leaving(t)' /\ ~Waiting(t)' /\ ~Released(t)'
         /\ Eff(t)' = Seg(t)'
         /\ \A c : Holds(t, c)' <=> p = "chunk" /\ l.chunk = c
         /\ Holding(t)' <=> p = "chunk"
<1>1. pc'[t] = p /\ local'[t] = l /\ last_graph'[t] = last_graph[t]
  BY DEF Went
<1>2. Team' = Team
  BY DEF Team, SamePhase
<1>3. Joined(t)'
  BY <1>1, <1>2, InnerThread DEF Joined, SamePhase
<1>4. InGraph(t)' /\ ~Waiting(t)' /\ ~Released(t)' /\ ~Leaving(t)'
  BY <1>1 DEF Inner, InGraph, Waiting, Released, Leaving, At
<1>5. JoinOK(t)'
  BY <1>1, <1>3, <1>4 DEF JoinOK, At, Inner, SamePhase
<1>6. Eff(t)' = Seg(t)'
  BY <1>3, <1>4 DEF Eff
<1>7. \A c : Holds(t, c)' <=> p = "chunk" /\ l.chunk = c
  BY <1>1, <1>3, <1>4 DEF Holds, At
<1>8. QED
  BY <1>1, <1>2, <1>3, <1>4, <1>5, <1>6, <1>7 DEF Holding

LEMMA ZeroKept ==
  ASSUME ZeroOK, SamePhase, SameChunks, pool'.abort = pool.abort, NEW t \in Threads, 0 \in Threads,
         \A u \in Threads \ {t} : Alike(u),
         pc'[t] \notin {"kickoff", "set"}, InBarrier(t)' => local'[t].then # "chunk"
  PROVE  ZeroOK'
<1>1. CASE t = 0
  BY <1>1 DEF ZeroOK, At
<1>2. CASE t # 0
  BY <1>2, FrameZero
<1>3. QED
  BY <1>1, <1>2

(* The common case: neither the chunks nor the barrier are touched.           *)
LEMMA InnerStep ==
  ASSUME Types, Kept, NEW t \in Threads, pc[t] \in Inner \ {"chunk", "take", "reset", "open"},
         PoolAlike, done' = done,
         NEW p \in Inner \ {"chunk", "take", "reset", "open"}, NEW l,
         l.n_passed <= pool.n_barrier_passed, Went(t, p, l, last_graph[t]),
         Seg(t)' = Seg(t), GraphOK(t)', ZeroOK'
  PROVE  Kept'
<1>1. /\ SamePhase /\ SameChunks /\ pool'.abort = pool.abort /\ pool'.n_barrier = pool.n_barrier
      /\ \A u \in Threads \ {t} : Alike(u)
  BY DEF PoolAlike, SameChunks, Went
<1>2. /\ pc'[t] = p /\ JoinOK(t)' /\ ~Waiting(t)' /\ Eff(t)' = Seg(t)'
      /\ \A c : ~Holds(t, c)'
      /\ ~Holding(t)'
  BY <1>1, InnerMoved
<1>3. /\ ~Waiting(t) /\ Eff(t) = Seg(t) /\ \A c : ~Holds(t, c)
      /\ ~Holding(t)
  BY InnerThread DEF At
<1>4. /\ ~At(t, "take") /\ ~At(t, "take")' /\ pc[t] \notin {"reset", "open"} /\ pc'[t] \notin {"reset", "open"}
  BY <1>2 DEF At
<1>5. Quiet(t)
  BY <1>1, <1>2, <1>3, <1>4 DEF Quiet
<1>6. QED
  BY <1>2, <1>5, QuietStep

LEMMA BeginKept == ASSUME Types, Kept, NEW t \in Threads, Begin(t) PROVE Kept'
<1> DEFINE l == [local[t] EXCEPT !.nth = pool.n_threads_cur, !.node_n = 0]
<1>1. At(t, "begin") /\ pool' = pool /\ done' = done
  BY DEF Begin, history
<1>2. pc[t] \in Inner \ {"chunk", "take", "reset", "open"} /\ "node" \in Inner \ {"chunk", "take", "reset", "open"}
      /\ "node" \in Places
  BY <1>1 DEF Inner, At, Places
<1>3. local[t] \in LocalSet /\ local[t].n_passed <= pool.n_barrier_passed /\ pool.n_threads_cur \in Nat
      /\ last_graph[t] \in 0 .. pool.n_graph /\ ZeroOK
  BY <1>2, InnerThread DEF JoinOK
<1>4. l \in LocalSet /\ l.n_passed = local[t].n_passed /\ l.nth = pool.n_threads_cur /\ l.node_n = 0
  BY <1>3 DEF LocalSet
<1>5. Moved(t, "node", l, last_graph[t])
  BY BeginMoves
<1> HIDE DEF l
<1>6. Went(t, "node", l, last_graph[t])
  BY <1>2, <1>3, <1>4, <1>5, Goes
<1>7. pc'[t] = "node" /\ local'[t] = l
  BY <1>6 DEF Went
<1>8. Seg(t)' = Seg(t)
  <2>1. Seg(t) = 0
    BY <1>1 DEF Seg, At, InBarrier
  <2>2. Seg(t)' = EndSeg(0)
    BY <1>4, <1>7 DEF Seg, At, InBarrier, Node
  <2>3. QED
    BY <2>1, <2>2, ThreadsAre DEF EndSeg
<1>9. GraphOK(t)'
  BY <1>1, <1>4, <1>7, ThreadsAre DEF GraphOK, At, InBarrier, Node
<1>10. PoolAlike
  BY <1>1, SamePool
<1>11. ZeroOK'
  BY <1>1, <1>3, <1>6, <1>7, <1>10, ZeroKept, ThreadsAre DEF PoolAlike, SameChunks, Went, InBarrier
<1>12. QED
  BY <1>1, <1>2, <1>3, <1>4, <1>6, <1>8, <1>9, <1>10, <1>11, InnerStep

LEMMA BarrierKept ==
  ASSUME Types, Kept, NEW t \in Threads, pc[t] \in {"node", "set", "meet"}, pool.n_threads_cur # 1,
         NEW then, BarrierMoved(t, then), pool' = pool, done' = done,
         At(t, "node") => then = Home(t) /\ ~(Node(t) < Nodes /\ pool.abort # Node(t)),
         At(t, "set") => then = "chunk",
         At(t, "meet") => then = "node" /\ Node(t) < Nodes
  PROVE  Kept'
<1> DEFINE l == [local[t] EXCEPT !.n_threads = pool.n_threads_cur,
                                 !.n_passed = pool.n_barrier_passed, !.then = then]
<1>1. pc[t] \in Inner \ {"chunk", "take", "reset", "open"} /\ "arrive" \in Inner \ {"chunk", "take", "reset", "open"}
      /\ "arrive" \in Places
  BY DEF Inner, At, Places
<1>2. /\ local[t] \in LocalSet /\ pool.n_threads_cur \in Nat /\ pool.n_barrier_passed \in Nat
      /\ last_graph[t] \in 0 .. pool.n_graph /\ ZeroOK /\ GraphOK(t) /\ InGraph(t) /\ Joined(t) /\ ~Leaving(t)
  BY <1>1, InnerThread DEF JoinOK
<1>3. then \in {"chunk", "node", Home(t)}
  BY DEF At
<1>4. /\ l \in LocalSet /\ l.n_passed = pool.n_barrier_passed /\ l.n_threads = pool.n_threads_cur /\ l.then = then
      /\ l.nth = local[t].nth /\ l.node_n = local[t].node_n /\ l.chunk = local[t].chunk
  BY <1>2, <1>3 DEF LocalSet, Home
<1>5. Moved(t, "arrive", l, last_graph[t])
  BY DEF BarrierMoved
<1> HIDE DEF l
<1>6. Went(t, "arrive", l, last_graph[t])
  BY <1>1, <1>2, <1>4, <1>5, Goes
<1>7. pc'[t] = "arrive" /\ local'[t] = l
  BY <1>6 DEF Went
<1>8. Node(t)' = Node(t)
  BY <1>4, <1>7 DEF Node
<1>9. pool.n_threads_cur > 1 /\ Node(t) \in Nat
  BY <1>2, ActiveTeam DEF Node, LocalSet
<1>10. Seg(t)' = Seg(t)
  <2>1. CASE At(t, "node")
    BY <2>1, <1>4, <1>7, <1>8 DEF Seg, At, InBarrier, EndSeg, Home
  <2>2. CASE At(t, "set")
    BY <2>2, <1>4, <1>7, <1>8 DEF Seg, At, InBarrier, EndSeg, Home
  <2>3. CASE At(t, "meet")
    BY <2>3, <1>4, <1>7, <1>8 DEF Seg, At, InBarrier, EndSeg, Home
  <2>4. QED
    BY <2>1, <2>2, <2>3 DEF At
<1>11. GraphOK(t)'
  <2>1. Node(t) <= Nodes /\ local[t].nth = pool.n_threads_cur
    BY <1>2 DEF GraphOK, At
  <2>2. CASE At(t, "node")
    BY <2>2, <2>1, <1>4, <1>7, <1>8, <1>9, ThreadsAre DEF GraphOK, At, InBarrier, Home
  <2>3. CASE At(t, "set")
    <3>1. Node(t) < Nodes /\ pool.abort # Node(t) /\ local[t].chunk = t
      BY <1>2, <2>3 DEF GraphOK, At
    <3>2. QED
      BY <2>3, <3>1, <2>1, <1>4, <1>7, <1>8, <1>9 DEF GraphOK, At, InBarrier, Home
  <2>4. CASE At(t, "meet")
    <3>1. Node(t) >= 1
      BY <1>2, <2>4 DEF GraphOK
    <3>2. Node(t) \in 1 .. Nodes - 1
      BY <2>4, <3>1, <1>9, ThreadsAre
    <3>3. QED
      BY <2>4, <3>2, <2>1, <1>4, <1>7, <1>8, <1>9 DEF GraphOK, At, InBarrier, Home
  <2>5. QED
    BY <2>2, <2>3, <2>4 DEF At
<1>12. PoolAlike
  BY SamePool
<1>13. ZeroOK'
  <2>1. CASE At(t, "set") /\ t = 0
    BY <2>1, <1>2, <1>7 DEF ZeroOK, At, InBarrier
  <2>2. CASE ~At(t, "set")
    <3>1. local'[t].then # "chunk"
      BY <2>2, <1>4, <1>7 DEF At, Home
    <3>2. QED
      BY <3>1, <1>2, <1>6, <1>7, <1>12, ZeroKept, ThreadsAre DEF PoolAlike, SameChunks, Went, InBarrier
  <2>3. CASE t # 0
    BY <2>3, <1>2, <1>6, <1>12, FrameZero, ThreadsAre DEF PoolAlike, SameChunks, Went
  <2>4. QED
    BY <2>1, <2>2, <2>3
<1>14. QED
  BY <1>1, <1>2, <1>4, <1>6, <1>10, <1>11, <1>12, <1>13, InnerStep

-----------------------------------------------------------------------------
(* The barriers of a node open: the first lets everybody compute the chunk of *)
(* its own number, the second is reached with every chunk computed.           *)

LEMMA DoneOpens ==
  ASSUME DoneOK, done' = done, Team' = Team, pool'.n_threads_cur = pool.n_threads_cur,
         pool.n_threads_cur \in Nat, Team \subseteq Threads, pool'.current_chunk = pool.n_threads_cur,
         NEW k \in 0 .. Nodes - 1, Eff(0) = 2 * k, Eff(0)' = 2 * k + 1,
         \A u \in Team : Holds(u, u)' /\ ~At(u, "take")'
  PROVE  DoneOK'
<1>1. Count' = Count /\ Team = 0 .. pool.n_threads_cur - 1
  BY DEF Count, Team
<1>2. \A c \in Cells : done[k][c] = 0
  BY ThreadsAre DEF DoneOK, Past
<1>3. \A u \in Team : Holding(u)' /\ local'[u].chunk = u /\ u < pool'.current_chunk
  BY <1>1 DEF Holding, Holds
<1>4. ChunksOK(k)'
  <2>1. pool'.current_chunk >= pool'.n_threads_cur
    OBVIOUS
  <2>2. \A c \in Cells : done'[k][c] # 1
    BY <1>2
  <2>3. \A c \in 0 .. Count' - 1 : c < pool'.current_chunk => \E t \in Team' : Holds(t, c)'
    <3>1. \A c \in 0 .. Count' - 1 : c < pool'.current_chunk => c \in Team'
      BY <1>1
    <3>2. QED
      BY <3>1
  <2>4. \A t \in Team' : local'[t].chunk < Count' => done'[k][local'[t].chunk] = 0
    <3>1. \A t \in Team' : t \in Cells
      BY ThreadsAre DEF Cells, Threads
    <3>2. QED
      BY <1>2, <1>3, <3>1
  <2>5. QED
    BY <1>1, <1>3, <2>1, <2>2, <2>3, <2>4 DEF ChunksOK
<1>5. QED
  <2>1. \A n \in 0 .. Nodes - 1, c \in Cells :
          /\ done[n][c] <= 1
          /\ 2 * n + 1 < 2 * k => done[n][c] = IF c < Count THEN 1 ELSE 0
          /\ 2 * n + 1 > 2 * k => done[n][c] = 0
    BY DEF DoneOK, Past
  <2>2. \A n \in 0 .. Nodes - 1 : /\ 2 * n + 1 < 2 * k + 1 => 2 * n + 1 < 2 * k
                                  /\ 2 * n + 1 > 2 * k + 1 => 2 * n + 1 > 2 * k
                                  /\ 2 * k + 1 = 2 * n + 1 => n = k
    BY ThreadsAre
  <2>3. \A n \in 0 .. Nodes - 1 : Eff(0)' = 2 * n + 1 => ChunksOK(n)'
    BY <1>4, <2>2
  <2>4. QED
    BY <1>1, <2>1, <2>2, <2>3 DEF DoneOK

LEMMA DoneCloses ==
  ASSUME DoneOK, HistoryType, done' = done, Team' = Team, pool'.n_threads_cur = pool.n_threads_cur,
         PoolType,
         NEW k \in 0 .. Nodes - 1, Eff(0) = 2 * k + 1, Eff(0)' = 2 * k + 2,
         \A u \in Team : (\A c : ~Holds(u, c)) /\ ~At(u, "take")
  PROVE  DoneOK'
<1>1. Count' = Count /\ 0 \in Team
  BY DEF Count, Team, PoolType
<1>2. ChunksOK(k)
  BY DEF DoneOK
<1>3. Count \in Nat
  BY ThreadsAre DEF Count, ChunkCount, PoolType
<1>4. \A c \in Cells : done[k][c] = IF c < Count THEN 1 ELSE 0
  <2>1. Count = pool.n_threads_cur \/ pool.current_chunk >= Count
    BY <1>1, <1>2 DEF ChunksOK, Holding
  <2>2. pool.current_chunk >= Count
    BY <1>2, <1>3, <2>1 DEF ChunksOK, PoolType
  <2>3. \A c \in 0 .. Count - 1 : done[k][c] = 1
    BY <1>2, <1>3, <2>2 DEF ChunksOK, PoolType
  <2>4. \A c \in Cells : done[k][c] \in Nat /\ done[k][c] <= 1
    BY DEF DoneOK, HistoryType
  <2>5. \A c \in Cells : ~(c < Count) => done[k][c] # 1
    BY <1>2 DEF ChunksOK
  <2>6. \A c \in Cells : c < Count => c \in 0 .. Count - 1
    BY <1>3, ThreadsAre DEF Cells
  <2>7. QED
    BY <2>3, <2>4, <2>5, <2>6
<1>5. \A n \in 0 .. Nodes - 1 : /\ 2 * n + 1 < 2 * k + 2 => n = k \/ 2 * n + 1 < 2 * k + 1
                                /\ 2 * n + 1 > 2 * k + 2 => 2 * n + 1 > 2 * k + 1
                                /\ 2 * k + 2 # 2 * n + 1
  BY ThreadsAre
<1>6. \A n \in 0 .. Nodes - 1, c \in Cells :
        /\ done[n][c] <= 1
        /\ 2 * n + 1 < 2 * k + 1 => done[n][c] = IF c < Count THEN 1 ELSE 0
        /\ 2 * n + 1 > 2 * k + 1 => done[n][c] = 0
  BY DEF DoneOK, Past
<1>7. QED
  BY <1>1, <1>4, <1>5, <1>6 DEF DoneOK

LEMMA DonePast == ASSUME DoneOK, done' = done, Eff(0)' = Past PROVE DoneOK'
<1>1. \A n \in 0 .. Nodes - 1 : ~(2 * n + 1 < Past) /\ Past # 2 * n + 1
  BY ThreadsAre DEF Past
<1>2. QED
  BY <1>1 DEF DoneOK

(* A thread that is alone passes its barriers without counting.               *)
LEMMA AloneStep ==
  ASSUME Types, Kept, NEW t \in Threads, pc[t] \in {"node", "set", "meet"}, pool.n_threads_cur = 1,
         pool' = pool, done' = done, NEW p \in {"node", "chunk", "idle"}, Went(t, p, local[t], last_graph[t]),
         GraphOK(t)', DoneOK'
  PROVE  Kept'
<1>1. pc[t] \in Inner
  BY DEF Inner
<1>2. t = 0 /\ Team = {0} /\ Team' = {0}
  BY <1>1, InnerThread DEF Team
<1>3. PoolAlike /\ SameChunks
  BY SamePool DEF SameChunks
<1>4. pc'[t] = p /\ local'[t] = local[t] /\ last_graph'[t] = last_graph[t] /\ \A u \in Threads \ {t} : Alike(u)
  BY DEF Went
<1>5. ~Waiting(t) /\ ~Waiting(t)' /\ pc[t] \notin {"reset", "open"} /\ pc'[t] \notin {"reset", "open"}
  BY <1>4 DEF Waiting, At
<1>6. BarrierOK'
  BY <1>2, <1>3, <1>4, <1>5, FrameBarrier, ThreadsAre DEF Kept, PoolAlike
<1>7. JoinOK(t)'
  <2>1. JoinOK(t) /\ Joined(t)
    BY <1>1, InnerThread
  <2>2. Joined(t)'
    BY <1>2 DEF Joined
  <2>3. QED
    BY <1>3, <1>4, <2>1, <2>2 DEF JoinOK, At, PoolAlike, SamePhase
<1>8. \A u \in Threads : JoinOK(u)' /\ GraphOK(u)'
  BY <1>3, <1>4, <1>7, FrameThread DEF Kept, PoolAlike
<1>9. Together'
  BY <1>2 DEF Together
<1>10. ZeroOK'
  BY <1>2, <1>4 DEF ZeroOK, At, InBarrier
<1>11. QED
  BY <1>6, <1>8, <1>9, <1>10 DEF Kept

LEMMA LoopTestKept == ASSUME Types, Kept, NEW t \in Threads, LoopTest(t) PROVE Kept'
<1>1. At(t, "node") /\ pool' = pool /\ done' = done /\ pc[t] \in {"node", "set", "meet"}
  BY DEF LoopTest, history, At
<1>2. pc[t] \in Inner \ {"chunk", "take", "reset", "open"} /\ "mul_mat" \in Inner \ {"chunk", "take", "reset", "open"}
      /\ "mul_mat" \in Places /\ "idle" \in Places /\ "top" \in Places
  BY <1>1 DEF Inner, At, Places
<1>3. /\ local[t] \in LocalSet /\ local[t].n_passed <= pool.n_barrier_passed
      /\ last_graph[t] \in 0 .. pool.n_graph /\ ZeroOK /\ GraphOK(t) /\ InGraph(t) /\ Joined(t) /\ ~Leaving(t)
  BY <1>2, InnerThread DEF JoinOK
<1>4. CASE Node(t) < Nodes /\ pool.abort # Node(t) /\ Moved(t, "mul_mat", local[t], last_graph[t])
  <2>1. Went(t, "mul_mat", local[t], last_graph[t])
    BY <1>2, <1>3, <1>4, Goes
  <2>2. pc'[t] = "mul_mat" /\ local'[t] = local[t] /\ Node(t)' = Node(t)
    BY <2>1 DEF Went, Node
  <2>3. Seg(t)' = Seg(t)
    <3>1. Node(t) # Nodes
      BY <1>3, <1>4, ThreadsAre DEF Node, LocalSet
    <3>2. QED
      BY <1>1, <2>2, <3>1 DEF Seg, At, EndSeg, InBarrier
  <2>4. GraphOK(t)'
    BY <1>1, <1>3, <1>4, <2>2 DEF GraphOK, At, InBarrier
  <2>5. PoolAlike
    BY <1>1, SamePool
  <2>6. ZeroOK'
    BY <1>1, <1>3, <2>1, <2>2, <2>5, ZeroKept, ThreadsAre DEF PoolAlike, SameChunks, Went, InBarrier
  <2>7. QED
    BY <1>1, <1>2, <1>3, <2>1, <2>3, <2>4, <2>5, <2>6, InnerStep
<1>5. CASE ~(Node(t) < Nodes /\ pool.abort # Node(t)) /\ BarrierMoved(t, Home(t)) /\ pool.n_threads_cur # 1
  BY <1>1, <1>5, BarrierKept DEF At
<1>6. CASE BarrierMoved(t, Home(t)) /\ pool.n_threads_cur = 1
  <2>1. t = 0 /\ Home(t) = "idle"
    BY <1>2, <1>6, InnerThread DEF Team, Home
  <2>2. Went(t, "idle", local[t], last_graph[t])
    BY <1>2, <1>3, <1>6, <2>1, Goes DEF BarrierMoved
  <2>3. ~InGraph(t)' /\ Eff(0)' = Past
    <3>1. pc'[0] = "idle" /\ pool'.n_threads_cur = 1
      BY <1>1, <1>6, <2>1, <2>2 DEF Went
    <3>2. Joined(0)'
      BY <3>1 DEF Joined, Team
    <3>3. QED
      BY <2>1, <3>1, <3>2 DEF Eff, InGraph
  <2>4. GraphOK(t)'
    BY <2>3 DEF GraphOK
  <2>5. DoneOK'
    BY <1>1, <2>3, DonePast DEF Kept
  <2>6. QED
    BY <1>1, <1>6, <2>2, <2>4, <2>5, AloneStep
<1>7. QED
  BY <1>4, <1>5, <1>6, LoopTestMoves

LEMMA MeetInMulMatKept == ASSUME Types, Kept, NEW t \in Threads, MeetInMulMat(t) PROVE Kept'
<1>1. At(t, "set") /\ pool' = pool /\ done' = done /\ pc[t] \in {"node", "set", "meet"} /\ BarrierMoved(t, "chunk")
  BY MeetInMulMatMoves DEF MeetInMulMat, history, At
<1>2. pc[t] \in Inner /\ "chunk" \in Places
  BY <1>1 DEF Inner, At, Places
<1>3. /\ local[t] \in LocalSet /\ last_graph[t] \in 0 .. pool.n_graph /\ GraphOK(t) /\ InGraph(t) /\ Joined(t) /\ ~Leaving(t)
      /\ Eff(0) = Seg(t) /\ t \in Team /\ ZeroOK /\ pool.n_threads_cur \in Nat
  BY <1>2, InnerThread
<1>4. CASE pool.n_threads_cur # 1
  BY <1>1, <1>4, BarrierKept DEF At
<1>5. CASE pool.n_threads_cur = 1
  <2>1. t = 0 /\ Team = {0} /\ Team' = {0} /\ Team' = Team
    BY <1>1, <1>3, <1>5 DEF Team
  <2>2. Went(t, "chunk", local[t], last_graph[t])
    BY <1>1, <1>2, <1>3, <1>5, Goes DEF BarrierMoved
  <2>3. pc'[t] = "chunk" /\ local'[t] = local[t] /\ Node(t)' = Node(t)
    BY <2>2 DEF Went, Node
  <2>4. Node(t) \in 0 .. Nodes - 1 /\ local[t].chunk = t /\ local[t].nth = pool.n_threads_cur
    BY <1>1, <1>3, ThreadsAre DEF GraphOK, At, Node, LocalSet
  <2>5. GraphOK(t)'
    BY <1>1, <2>3, <2>4, ThreadsAre DEF GraphOK, At, InBarrier
  <2>6. Eff(0) = 2 * Node(t)
    BY <1>1, <1>3 DEF Seg, At, InBarrier
  <2>7. Joined(t)' /\ ~Released(t)' /\ ~Leaving(t)' /\ InGraph(t)'
    BY <2>1, <2>3 DEF Joined, Released, Leaving, InGraph, At
  <2>8. Eff(0)' = 2 * Node(t) + 1
    BY <2>1, <2>3, <2>7 DEF Eff, Seg, At, InBarrier
  <2>9. Holds(0, 0)' /\ ~At(0, "take")'
    BY <2>1, <2>3, <2>4, <2>7 DEF Holds, At
  <2>10. pool.current_chunk = pool.n_threads_cur
    BY <1>1, <1>3, <2>1 DEF ZeroOK, At
  <2>11. DoneOK /\ Team \subseteq Threads
    BY ActiveTeam DEF Kept
  <2>12. DoneOK'
    BY <1>1, <1>3, <2>1, <2>4, <2>6, <2>8, <2>9, <2>10, <2>11, DoneOpens
  <2>13. QED
    BY <1>1, <1>5, <2>2, <2>5, <2>12, AloneStep
<1>6. QED
  BY <1>4, <1>5

LEMMA MeetAfterNodeKept == ASSUME Types, Kept, NEW t \in Threads, MeetAfterNode(t) PROVE Kept'
<1>1. At(t, "meet") /\ pool' = pool /\ done' = done /\ pc[t] \in {"node", "set", "meet"}
  BY DEF MeetAfterNode, history, At
<1>2. pc[t] \in Inner \ {"chunk", "take", "reset", "open"} /\ "node" \in Inner \ {"chunk", "take", "reset", "open"}
      /\ "node" \in Places
  BY <1>1 DEF Inner, At, Places
<1>3. /\ local[t] \in LocalSet /\ last_graph[t] \in 0 .. pool.n_graph /\ GraphOK(t) /\ InGraph(t) /\ Joined(t) /\ ~Leaving(t)
      /\ Eff(0) = Seg(t) /\ t \in Team /\ ZeroOK /\ pool.n_threads_cur \in Nat /\ local[t].n_passed <= pool.n_barrier_passed
      /\ JoinOK(t)
  BY <1>2, InnerThread DEF JoinOK
<1>4. Node(t) \in 1 .. Nodes /\ local[t].nth = pool.n_threads_cur
  BY <1>1, <1>3, ThreadsAre DEF GraphOK, At, Node, LocalSet
<1>5. CASE Node(t) < Nodes /\ BarrierMoved(t, "node") /\ pool.n_threads_cur # 1
  BY <1>1, <1>5, BarrierKept DEF At
<1>6. CASE Moved(t, "node", local[t], last_graph[t])
  <2>1. Went(t, "node", local[t], last_graph[t])
    BY <1>2, <1>3, <1>6, Goes
  <2>2. pc'[t] = "node" /\ local'[t] = local[t] /\ Node(t)' = Node(t)
    BY <2>1 DEF Went, Node
  <2>3. GraphOK(t)'
    BY <1>1, <1>4, <2>2 DEF GraphOK, At, InBarrier
  <2>4. Seg(t) = 2 * Node(t) - 1 /\ Seg(t)' = EndSeg(Node(t))
    BY <1>1, <2>2 DEF Seg, At, InBarrier
  <2>5. CASE Node(t) = Nodes
    <3>1. Seg(t)' = Seg(t)
      BY <2>4, <2>5 DEF EndSeg
    <3>2. PoolAlike
      BY <1>1, SamePool
    <3>3. ZeroOK'
      BY <1>1, <1>3, <2>1, <2>2, <3>2, ZeroKept, ThreadsAre DEF PoolAlike, SameChunks, Went, InBarrier
    <3>4. QED
      BY <1>1, <1>2, <1>3, <2>1, <2>3, <3>1, <3>2, <3>3, InnerStep
  <2>6. CASE Node(t) # Nodes /\ pool.n_threads_cur = 1
    <3>1. t = 0 /\ Team = {0} /\ Team' = {0} /\ Team' = Team
      BY <1>1, <1>3, <2>6 DEF Team
    <3>2. Joined(t)' /\ ~Released(t)' /\ ~Leaving(t)' /\ InGraph(t)'
      BY <2>2, <3>1 DEF Joined, Released, Leaving, InGraph, At
    <3>3. Eff(0)' = 2 * Node(t)
      BY <2>4, <2>6, <3>1, <3>2 DEF Eff, EndSeg
    <3>4. (\A c : ~Holds(0, c)) /\ ~At(0, "take")
      BY <1>1, <3>1 DEF Holds, Released, At
    <3>5. Node(t) - 1 \in 0 .. Nodes - 1 /\ Eff(0) = 2 * (Node(t) - 1) + 1 /\ Eff(0)' = 2 * (Node(t) - 1) + 2
      BY <1>3, <1>4, <2>4, <3>3, ThreadsAre
    <3>6. DoneOK /\ HistoryType /\ PoolType
      BY DEF Kept, Types
    <3>7. DoneOK'
      BY <1>1, <3>1, <3>4, <3>5, <3>6, DoneCloses
    <3>8. QED
      BY <1>1, <2>1, <2>3, <2>6, <3>7, AloneStep
  <2>7. CASE Node(t) # Nodes /\ pool.n_threads_cur # 1
    <3>1. BarrierMoved(t, "node")
      BY <1>4, <2>7, MeetAfterNodeMoves, ThreadsAre
    <3>2. Node(t) < Nodes
      BY <1>4, <2>7, ThreadsAre
    <3>3. QED
      BY <1>1, <2>7, <3>1, <3>2, BarrierKept DEF At
  <2>8. QED
    BY <2>5, <2>6, <2>7
<1>7. CASE Node(t) < Nodes /\ BarrierMoved(t, "node") /\ pool.n_threads_cur = 1
  BY <1>6, <1>7 DEF BarrierMoved
<1>8. QED
  BY <1>5, <1>6, <1>7, MeetAfterNodeMoves

LEMMA SpinKept == ASSUME Types, Kept, NEW t \in Threads, Spin(t) PROVE Kept'
<1> DEFINE p == local[t].then
<1>1. At(t, "spin") /\ pool' = pool /\ done' = done /\ Released(t) /\ ~Waiting(t) /\ InGraph(t) /\ InBarrier(t)
  BY DEF Spin, history, Released, Waiting, At, InGraph, InBarrier
<1>2. /\ local[t] \in LocalSet /\ last_graph[t] \in 0 .. pool.n_graph /\ PlaceOK(t)
      /\ GraphOK(t) /\ JoinOK(t) /\ ZeroOK /\ pool.n_threads_cur \in Nat
  BY AtPlace DEF Kept
<1>3. p \in {"chunk", "node", Home(t)} /\ p \in Places
  BY <1>1, <1>2 DEF PlaceOK, Home, Places
<1>4. Went(t, p, local[t], last_graph[t])
  BY <1>2, <1>3, SpinMoves, Goes
<1>5. pc'[t] = p /\ local'[t] = local[t] /\ last_graph'[t] = last_graph[t] /\ Node(t)' = Node(t)
      /\ \A u \in Threads \ {t} : Alike(u)
  BY <1>4 DEF Went, Node
<1>6. p \notin {"spin", "take", "reset", "open", "arrive", "set", "kickoff", "decide"}
  BY <1>3 DEF Home
<1>7. PoolAlike /\ SamePhase /\ SameChunks /\ Team' = Team
  BY <1>1, SamePool DEF PoolAlike, SameChunks, Team
<1>8. Joined(t)' <=> Joined(t)
  BY <1>5, <1>7 DEF Joined, SamePhase
<1>9. ~Released(t)' /\ ~Leaving(t)' /\ ~Waiting(t)' /\ ~InBarrier(t)'
  BY <1>5, <1>6 DEF Released, Leaving, Waiting, InBarrier, At
<1>10. Leaving(t) <=> p = Home(t)
  BY <1>1 DEF Leaving
<1>11. InGraph(t)' <=> p # Home(t)
  BY <1>3, <1>5 DEF InGraph, Home
<1>12. Joined(t) /\ ~Leaving(t) => /\ local[t].nth = pool.n_threads_cur /\ Node(t) <= Nodes /\ Node(t) \in Nat
                                   /\ p = "chunk" => Node(t) < Nodes /\ local[t].chunk = t
                                   /\ p = "node" => Node(t) \in 1 .. Nodes - 1
  BY <1>1, <1>2 DEF GraphOK, At, Node, LocalSet
<1>13. Eff(t)' = Eff(t)
  <2>1. CASE ~Joined(t)
    BY <2>1, <1>8 DEF Eff
  <2>2. CASE Joined(t) /\ Leaving(t)
    BY <2>2, <1>8, <1>10, <1>11 DEF Eff
  <2>3. CASE Joined(t) /\ p = "chunk" /\ ~Leaving(t)
    <3>1. Seg(t) = 2 * Node(t) /\ Seg(t)' = 2 * Node(t) + 1
      BY <2>3, <1>1, <1>5 DEF Seg, At, InBarrier
    <3>2. QED
      BY <2>3, <3>1, <1>1, <1>8, <1>9, <1>10, <1>11 DEF Eff
  <2>4. CASE Joined(t) /\ p = "node" /\ ~Leaving(t)
    <3>1. Seg(t) = 2 * Node(t) - 1 /\ Seg(t)' = EndSeg(Node(t))
      BY <2>4, <1>1, <1>5 DEF Seg, At, InBarrier
    <3>2. Seg(t)' = Seg(t) + 1
      BY <3>1, <2>4, <1>12, ThreadsAre DEF EndSeg
    <3>3. QED
      BY <2>4, <3>2, <1>1, <1>8, <1>9, <1>10, <1>11 DEF Eff
  <2>5. QED
    BY <2>1, <2>2, <2>3, <2>4, <1>3, <1>10
<1>14. \A c : Holds(t, c)' <=> Holds(t, c)
  BY <1>1, <1>5, <1>8, <1>9 DEF Holds, At
<1>15. Holding(t)' <=> Holding(t)
  BY <1>5, <1>14 DEF Holding
<1>16. Quiet(t)
  <2>1. /\ ~At(t, "take") /\ ~At(t, "take")' /\ pc[t] \notin {"reset", "open"} /\ pc'[t] \notin {"reset", "open"}
        /\ pool'.abort = pool.abort /\ pool'.n_barrier = pool.n_barrier
    BY <1>1, <1>5, <1>6 DEF At
  <2>2. QED
    BY <1>1, <1>5, <1>7, <1>9, <1>13, <1>14, <1>15, <2>1 DEF Quiet
<1>17. JoinOK(t)'
  BY <1>1, <1>2, <1>5, <1>6, <1>7, <1>8, <1>10, <1>11 DEF JoinOK, At, SamePhase
<1>18. GraphOK(t)'
  BY <1>1, <1>3, <1>5, <1>6, <1>8, <1>9, <1>10, <1>11, <1>12, ThreadsAre DEF GraphOK, At
<1>19. ZeroOK'
  BY <1>1, <1>2, <1>5, <1>6, <1>7, <1>9, ZeroKept, ThreadsAre
<1>20. QED
  BY <1>16, <1>17, <1>18, <1>19, QuietStep

(* Thread 0 sets the counter while all are before the first barrier.          *)
LEMMA SetChunkKept == ASSUME Types, Kept, NEW t \in Threads, SetChunk(t) PROVE Kept'
<1> DEFINE l == [local[t] EXCEPT !.chunk = t]
<1>1. At(t, "mul_mat") /\ done' = done /\ pool' = [pool EXCEPT !.current_chunk = IF t = 0 THEN local[t].nth ELSE @]
  BY DEF SetChunk, history, At
<1>2. pc[t] \in Inner \ {"chunk", "take", "reset", "open"} /\ "set" \in Inner \ {"chunk", "take", "reset", "open"}
      /\ "set" \in Places
  BY <1>1 DEF Inner, At, Places
<1>3. /\ local[t] \in LocalSet /\ local[t].n_passed <= pool.n_barrier_passed
      /\ last_graph[t] \in 0 .. pool.n_graph /\ ZeroOK /\ GraphOK(t) /\ InGraph(t) /\ Joined(t) /\ ~Leaving(t)
      /\ Eff(0) = Seg(t) /\ Eff(t) = Seg(t) /\ pool.n_threads_cur \in Nat
  BY <1>2, InnerThread DEF JoinOK
<1>4. l \in LocalSet /\ l.n_passed = local[t].n_passed /\ l.nth = local[t].nth /\ l.node_n = local[t].node_n /\ l.chunk = t
  BY <1>3, ThreadsAre DEF LocalSet
<1>5. Moved(t, "set", l, last_graph[t])
  BY SetChunkMoves
<1> HIDE DEF l
<1>6. Went(t, "set", l, last_graph[t])
  BY <1>2, <1>3, <1>4, <1>5, Goes
<1>7. pc'[t] = "set" /\ local'[t] = l /\ Node(t)' = Node(t) /\ \A u \in Threads \ {t} : Alike(u)
  BY <1>4, <1>6 DEF Went, Node
<1>8. /\ SamePhase /\ pool'.abort = pool.abort /\ pool'.n_barrier = pool.n_barrier
      /\ pool'.current_chunk = IF t = 0 THEN local[t].nth ELSE pool.current_chunk
  BY <1>1 DEF SamePhase, Types, PoolType
<1>9. Seg(t) = 2 * Node(t) /\ Seg(t)' = 2 * Node(t)
  BY <1>1, <1>7 DEF Seg, At, InBarrier
<1>10. local[t].nth = pool.n_threads_cur /\ Node(t) < Nodes /\ Node(t) \in Nat /\ pool.abort # Node(t)
  BY <1>1, <1>3 DEF GraphOK, At, Node, LocalSet
<1>11. GraphOK(t)'
  BY <1>3, <1>4, <1>7, <1>8, <1>10, ThreadsAre DEF GraphOK, At, InBarrier, SamePhase
<1>12. CASE t # 0
  <2>1. PoolAlike
    BY <1>8, <1>12 DEF PoolAlike
  <2>2. ZeroOK'
    BY <1>1, <1>3, <1>7, <1>12, <2>1, FrameZero, ThreadsAre DEF PoolAlike, SameChunks
  <2>3. QED
    BY <1>1, <1>2, <1>3, <1>4, <1>6, <1>9, <1>11, <2>1, <2>2, InnerStep
<1>13. CASE t = 0
  <2>1. JoinOK(t)' /\ ~Waiting(t)' /\ Eff(t)' = Seg(t)' /\ Team' = Team
    BY <1>2, <1>3, <1>4, <1>6, <1>8, InnerMoved
  <2>2. ~Waiting(t) /\ pc[t] \notin {"reset", "open"} /\ pc'[t] \notin {"reset", "open"}
    BY <1>1, <1>7 DEF Waiting, At
  <2>3. BarrierOK'
    BY <1>7, <1>8, <2>1, <2>2, FrameBarrier, ActiveTeam DEF Kept
  <2>4. DoneOK'
    <3>1. \A n \in 0 .. Nodes - 1 : 2 * Node(t) # 2 * n + 1
      BY <1>10, ThreadsAre
    <3>2. Eff(0)' = 2 * Node(t) /\ Eff(0) = 2 * Node(t) /\ Count' = Count
      BY <1>3, <1>8, <1>9, <1>13, <2>1 DEF Count, SamePhase
    <3>3. QED
      BY <1>1, <3>1, <3>2 DEF DoneOK, Kept
  <2>5. ZeroOK'
    BY <1>7, <1>8, <1>10, <1>13 DEF ZeroOK, At, SamePhase
  <2>6. QED
    BY <1>3, <1>7, <1>8, <1>9, <1>11, <2>1, <2>3, <2>4, <2>5, PhaseStep
<1>14. QED
  BY <1>12, <1>13

(* Thread 0 may abort after a node, while all compute the second half of it.  *)
LEMMA AfterNodeKept == ASSUME Types, Kept, NEW t \in Threads, AfterNode(t) PROVE Kept'
<1> DEFINE l == [local[t] EXCEPT !.node_n = @ + 1]
<1>1. At(t, "after") /\ done' = done
      /\ pool' \in {pool} \cup (IF t = 0 THEN {[pool EXCEPT !.abort = Node(t) + 1]} ELSE {})
  BY DEF AfterNode, history, At
<1>2. pc[t] \in Inner \ {"chunk", "take", "reset", "open"} /\ "meet" \in Inner \ {"chunk", "take", "reset", "open"}
      /\ "meet" \in Places
  BY <1>1 DEF Inner, At, Places
<1>3. /\ local[t] \in LocalSet /\ local[t].n_passed <= pool.n_barrier_passed
      /\ last_graph[t] \in 0 .. pool.n_graph /\ ZeroOK /\ GraphOK(t) /\ InGraph(t) /\ Joined(t) /\ ~Leaving(t)
      /\ Eff(0) = Seg(t) /\ Eff(t) = Seg(t) /\ pool.n_threads_cur \in Nat
  BY <1>2, InnerThread DEF JoinOK
<1>4. l \in LocalSet /\ l.n_passed = local[t].n_passed /\ l.nth = local[t].nth /\ l.node_n = local[t].node_n + 1
      /\ l.chunk = local[t].chunk
  BY <1>3, ThreadsAre DEF LocalSet
<1>5. Moved(t, "meet", l, last_graph[t])
  BY AfterNodeMoves
<1> HIDE DEF l
<1>6. Went(t, "meet", l, last_graph[t])
  BY <1>2, <1>3, <1>4, <1>5, Goes
<1>7. pc'[t] = "meet" /\ local'[t] = l /\ Node(t)' = Node(t) + 1 /\ \A u \in Threads \ {t} : Alike(u)
  BY <1>4, <1>6 DEF Went, Node
<1>8. local[t].nth = pool.n_threads_cur /\ Node(t) < Nodes /\ Node(t) \in Nat
  BY <1>1, <1>3 DEF GraphOK, At, Node, LocalSet
<1>9. Seg(t) = 2 * Node(t) + 1 /\ Seg(t)' = Seg(t)
  <2>1. Seg(t) = 2 * Node(t) + 1 /\ Seg(t)' = 2 * (Node(t) + 1) - 1
    BY <1>1, <1>7 DEF Seg, At, InBarrier
  <2>2. QED
    BY <2>1, <1>8
<1>10. SamePhase /\ SameChunks /\ pool'.n_barrier = pool.n_barrier /\ pool'.current_chunk = pool.current_chunk
  BY <1>1 DEF SamePhase, SameChunks, Types, PoolType
<1>11. GraphOK(t)'
  BY <1>3, <1>4, <1>7, <1>8, <1>10, ThreadsAre DEF GraphOK, At, InBarrier, SamePhase
<1>12. JoinOK(t)' /\ ~Waiting(t)' /\ Eff(t)' = Seg(t)' /\ Team' = Team /\ (\A c : ~Holds(t, c)') /\ ~Holding(t)'
  BY <1>2, <1>3, <1>4, <1>6, <1>10, InnerMoved
<1>13. ~Waiting(t) /\ pc[t] \notin {"reset", "open"} /\ pc'[t] \notin {"reset", "open"}
       /\ (\A c : ~Holds(t, c)) /\ ~Holding(t) /\ ~At(t, "take") /\ ~At(t, "take")'
  BY <1>1, <1>2, <1>7, InnerThread DEF Waiting, At
<1>14. BarrierOK'
  BY <1>7, <1>10, <1>12, <1>13, FrameBarrier, ActiveTeam DEF Kept
<1>15. Together' /\ Eff(0)' = Eff(0)
  BY <1>3, <1>7, <1>9, <1>10, <1>12, FrameTogether DEF Kept
<1>16. DoneOK'
  BY <1>7, <1>10, <1>12, <1>13, <1>15, FrameDone, ActiveTeam DEF Kept
<1>17. ZeroOK'
  <2>1. CASE t = 0
    BY <1>7, <2>1 DEF ZeroOK, At, InBarrier
  <2>2. CASE t # 0
    <3>1. pool'.abort = pool.abort
      BY <1>1, <2>2
    <3>2. QED
      BY <1>3, <1>7, <1>10, <2>2, <3>1, FrameZero, ThreadsAre
  <2>3. QED
    BY <2>1, <2>2
<1>18. ASSUME NEW u \in Threads PROVE JoinOK(u)' /\ GraphOK(u)'
  <2>1. CASE u = t
    BY <2>1, <1>11, <1>12
  <2>2. CASE u # t
    <3>1. Alike(u) /\ JoinOK(u) /\ GraphOK(u) /\ local[u] \in LocalSet
      BY <1>7, <2>2, AtPlace DEF Kept
    <3>2. JoinOK(u)'
      BY <3>1, <1>10, FrameThread
    <3>3. ASSUME InGraph(u), Joined(u), ~Leaving(u)
          PROVE  /\ pc[u] \notin {"mul_mat", "set"}
                 /\ InBarrier(u) /\ local[u].then = "chunk" => Released(u)
                 /\ InBarrier(u) /\ local[u].then = Home(u) => Node(u) = Nodes
      <4>1. Eff(u) = 2 * Node(t) + 1
        BY <1>3, <1>9, <3>3 DEF Kept, Together, Joined
      <4>2. Node(u) \in Nat
        BY <3>1 DEF Node, LocalSet
      <4>3. 2 * Node(u) # 2 * Node(t) + 1
        BY <4>2, <1>8
      <4>4. pc[u] \notin {"mul_mat", "set"}
        <5>1. CASE pc[u] \in {"mul_mat", "set"}
          <6>1. ~Released(u) /\ Seg(u) = 2 * Node(u)
            BY <5>1 DEF Released, At, Seg, InBarrier
          <6>2. QED
            BY <6>1, <3>3, <4>1, <4>3 DEF Eff
        <5>2. QED
          BY <5>1
      <4>5. ASSUME InBarrier(u), local[u].then = "chunk", ~Released(u) PROVE FALSE
        <5>1. Seg(u) = 2 * Node(u)
          BY <4>5 DEF Seg, InBarrier, At
        <5>2. QED
          BY <5>1, <3>3, <4>1, <4>3, <4>5 DEF Eff
      <4>6. ASSUME InBarrier(u), local[u].then = Home(u), Node(u) # Nodes PROVE FALSE
        <5>1. ~Released(u)
          BY <3>3, <4>6 DEF Leaving
        <5>2. Seg(u) = 2 * Node(u)
          BY <4>6 DEF Seg, InBarrier, At, Home, EndSeg
        <5>3. QED
          BY <5>1, <5>2, <3>3, <4>1, <4>3 DEF Eff
      <4>7. QED
        BY <4>4, <4>5, <4>6
    <3>4. /\ (InGraph(u)' <=> InGraph(u)) /\ (Joined(u)' <=> Joined(u)) /\ (Leaving(u)' <=> Leaving(u))
          /\ (Released(u)' <=> Released(u)) /\ (InBarrier(u)' <=> InBarrier(u)) /\ Node(u)' = Node(u)
      BY <3>1, <1>10, <1>12 DEF Alike, SamePhase, InGraph, Joined, Leaving, Released, InBarrier, Node, At, Home
    <3>5. GraphOK(u)'
      BY <3>1, <3>3, <3>4, <1>10 DEF GraphOK, Alike, SamePhase, At, Home
    <3>6. QED
      BY <3>2, <3>5
  <2>3. QED
    BY <2>1, <2>2
<1>19. QED
  BY <1>14, <1>15, <1>16, <1>17, <1>18 DEF Kept

-----------------------------------------------------------------------------
(* The chunks of a node.                                                      *)

LEMMA Products == \A a, b \in Nat : a >= 1 => a * b >= b
<1> SUFFICES ASSUME NEW a \in Nat, NEW b \in Nat, a >= 1 PROVE a * b >= b
  OBVIOUS
<1>1. a - 1 \in Nat /\ (a - 1) * b \in Nat
  OBVIOUS
<1>2. a * b = (a - 1) * b + b
  OBVIOUS
<1>3. QED
  BY <1>1, <1>2

LEMMA CountFits ==
  ASSUME PoolType
  PROVE  /\ Count \in Nat /\ Count >= pool.n_threads_cur /\ pool.n_threads_cur \in Nat
         /\ \A c \in Nat : c < Count => c \in Cells
<1>1. pool.n_threads_cur \in Nat /\ pool.n_threads_cur <= MaxThreads
  BY ThreadsAre DEF PoolType
<1>2. Spread * pool.n_threads_cur >= pool.n_threads_cur /\ Spread * pool.n_threads_cur \in Nat
  BY <1>1, Products, ThreadsAre
<1>3. Count \in Nat /\ Count >= pool.n_threads_cur /\ Count <= Chunks + MaxThreads
  BY <1>1, <1>2, ThreadsAre DEF Count, ChunkCount
<1>4. QED
  BY <1>1, <1>3, ThreadsAre DEF Cells

(* A thread about to compute or to take a chunk is in the second half of its   *)
(* node.                                                                      *)
LEMMA SecondHalf ==
  ASSUME Types, Kept, NEW t \in Threads, pc[t] \in {"chunk", "take"}
  PROVE  /\ pc[t] \in Inner /\ t \in Team /\ Joined(t) /\ JoinOK(t)
         /\ Node(t) \in 0 .. Nodes - 1 /\ local[t].nth = pool.n_threads_cur
         /\ Seg(t) = 2 * Node(t) + 1 /\ Eff(0) = 2 * Node(t) + 1
         /\ ChunksOK(Node(t)) /\ local[t].n_passed <= pool.n_barrier_passed
         /\ local[t] \in LocalSet /\ last_graph[t] \in 0 .. pool.n_graph
         /\ ~(At(0, "set") \/ (InBarrier(0) /\ ~Released(0) /\ local[0].then = "chunk"))
<1>1. pc[t] \in Inner
  BY DEF Inner
<1>2. /\ t \in Team /\ Joined(t) /\ JoinOK(t) /\ GraphOK(t) /\ ~Leaving(t) /\ InGraph(t) /\ local[t] \in LocalSet
      /\ Eff(0) = Seg(t) /\ last_graph[t] \in 0 .. pool.n_graph
  BY <1>1, InnerThread
<1>3. Node(t) \in 0 .. Nodes - 1 /\ local[t].nth = pool.n_threads_cur
  BY <1>2, ThreadsAre DEF GraphOK, At, Node, LocalSet
<1>4. Seg(t) = 2 * Node(t) + 1
  BY DEF Seg, At, InBarrier
<1>5. ChunksOK(Node(t))
  BY <1>2, <1>3, <1>4 DEF Kept, DoneOK
<1>6. ASSUME At(0, "set") \/ (InBarrier(0) /\ ~Released(0) /\ local[0].then = "chunk") PROVE FALSE
  <2>1. Joined(0) /\ Node(0) \in Nat
    BY ActiveTeam, AtPlace, ThreadsAre DEF Joined, Node, LocalSet
  <2>2. InGraph(0) /\ ~Released(0) /\ ~Leaving(0)
    BY <1>6 DEF InGraph, InBarrier, Released, Leaving, At
  <2>3. Seg(0) = 2 * Node(0)
    BY <1>6 DEF Seg, InBarrier, At
  <2>4. Eff(0) = 2 * Node(0)
    BY <2>1, <2>2, <2>3 DEF Eff
  <2>5. QED
    BY <1>2, <1>3, <1>4, <2>1, <2>4
<1>7. QED
  BY <1>1, <1>2, <1>3, <1>4, <1>5, <1>6 DEF JoinOK

(* What a step among the chunks of a node has to show.                        *)
LEMMA ChunkStep ==
  ASSUME Types, Kept, NEW t \in Threads, pc[t] \in {"chunk", "take"}, SamePhase,
         pool'.abort = pool.abort, pool'.n_barrier = pool.n_barrier,
         NEW p \in {"chunk", "take", "after"}, NEW l, Went(t, p, l, last_graph[t]),
         l.n_passed = local[t].n_passed, l.nth = local[t].nth, l.node_n = local[t].node_n,
         \A c \in Cells : done'[Node(t)][c] <= 1,
         \A n \in (0 .. Nodes - 1) \ {Node(t)} : done'[n] = done[n],
         ChunksOK(Node(t))'
  PROVE  Kept'
<1> DEFINE k == Node(t)
<1>1. /\ pc[t] \in Inner /\ t \in Team /\ local[t].n_passed <= pool.n_barrier_passed
      /\ k \in 0 .. Nodes - 1 /\ local[t].nth = pool.n_threads_cur
      /\ Seg(t) = 2 * k + 1 /\ Eff(0) = 2 * k + 1
      /\ ~(At(0, "set") \/ (InBarrier(0) /\ ~Released(0) /\ local[0].then = "chunk"))
  BY SecondHalf
<1>2. p \in Inner
  BY DEF Inner
<1>3. pc'[t] = p /\ local'[t] = l /\ JoinOK(t)' /\ ~Waiting(t)' /\ Eff(t)' = Seg(t)' /\ Team' = Team
  BY <1>1, <1>2, InnerMoved
<1>4. \A u \in Threads \ {t} : Alike(u)
  BY DEF Went
<1>5. Node(t)' = k
  BY <1>3 DEF Node
<1>6. Seg(t)' = 2 * k + 1
  BY <1>3, <1>5 DEF Seg, At, InBarrier
<1>7. Eff(t) = Seg(t) /\ ~Waiting(t) /\ pc[t] \notin {"reset", "open"} /\ pc'[t] \notin {"reset", "open"}
  BY <1>1, <1>3, InnerThread
<1>8. GraphOK(t)'
  BY <1>1, <1>3, <1>5, ThreadsAre DEF GraphOK, At, InBarrier, SamePhase
<1>9. BarrierOK'
  BY <1>3, <1>4, <1>7, FrameBarrier, ActiveTeam DEF Kept
<1>10. Eff(t)' = Eff(t)
  BY <1>1, <1>3, <1>6, <1>7
<1>11. Eff(0)' = Eff(0)
  BY <1>4, <1>10, FrameTogether DEF Kept
<1>12. DoneOK'
  <2>1. Count' = Count
    BY DEF Count, SamePhase
  <2>2. ASSUME NEW n \in 0 .. Nodes - 1, NEW c \in Cells
        PROVE  /\ done'[n][c] <= 1
               /\ 2 * n + 1 < Eff(0) => done'[n][c] = IF c < Count THEN 1 ELSE 0
               /\ 2 * n + 1 > Eff(0) => Eff(0) = Past \/ done'[n][c] = 0
    <3>1. CASE n = k
      BY <1>1, <3>1
    <3>2. CASE n # k
      <4>1. done'[n][c] = done[n][c]
        BY <3>2
      <4>2. QED
        BY <4>1 DEF Kept, DoneOK
    <3>3. QED
      BY <3>1, <3>2
  <2>3. \A n \in 0 .. Nodes - 1 : Eff(0) = 2 * n + 1 => n = k
    BY <1>1
  <2>4. \A n \in 0 .. Nodes - 1 : Eff(0) = 2 * n + 1 => ChunksOK(n)'
    BY <1>5, <2>3 DEF ChunksOK
  <2>5. QED
    BY <1>11, <2>1, <2>2, <2>4 DEF DoneOK
<1>13. ZeroOK'
  <2>1. CASE t = 0
    BY <1>3, <2>1 DEF ZeroOK, At, InBarrier
  <2>2. CASE t # 0
    <3>1. Alike(0)
      BY <1>4, <2>2, ThreadsAre
    <3>2. ~At(0, "kickoff")
      <4>1. 0 \in Team
        BY ActiveTeam
      <4>2. At(0, "kickoff") => Eff(0) = Past
        BY <4>1 DEF Eff, Joined, InGraph, At
      <4>3. QED
        BY <1>1, <4>2 DEF Past
    <3>3. QED
      BY <1>1, <3>1, <3>2 DEF ZeroOK, Alike, SamePhase, At, InBarrier, Released
  <2>3. QED
    BY <2>1, <2>2
<1>14. QED
  BY <1>3, <1>4, <1>8, <1>9, <1>10, <1>12, <1>13, PhaseStep

LEMMA ComputeChunkKept == ASSUME Types, Kept, NEW t \in Threads, ComputeChunk(t) PROVE Kept'
<1> DEFINE k == Node(t)
           c == local[t].chunk
<1>1. At(t, "chunk") /\ pool' = pool /\ pc[t] \in {"chunk", "take"}
  BY DEF ComputeChunk, At
<1>2. /\ t \in Team /\ Joined(t) /\ k \in 0 .. Nodes - 1 /\ local[t].nth = pool.n_threads_cur
      /\ ChunksOK(k) /\ local[t] \in LocalSet /\ last_graph[t] \in 0 .. pool.n_graph
      /\ local[t].n_passed <= pool.n_barrier_passed /\ pc[t] \in Inner
  BY <1>1, SecondHalf
<1>3. PICK p \in {"after", "take"} : Moved(t, p, local[t], last_graph[t])
  BY ComputeChunkMoves
<1>4. Went(t, p, local[t], last_graph[t])
  BY <1>2, <1>3, Goes DEF Places
<1>5. /\ SamePhase /\ pool'.abort = pool.abort /\ pool'.n_barrier = pool.n_barrier
      /\ pool'.current_chunk = pool.current_chunk /\ pool'.n_threads_cur = pool.n_threads_cur
  BY <1>1 DEF SamePhase
<1>6. Count \in Nat /\ Count >= pool.n_threads_cur /\ pool.n_threads_cur \in Nat
      /\ (\A x \in Nat : x < Count => x \in Cells) /\ c \in Nat /\ pool.current_chunk \in Nat
  BY <1>2, CountFits DEF Types, PoolType, LocalSet
<1>7. /\ Team' = Team /\ Count' = Count /\ pc'[t] = p /\ local'[t] = local[t] /\ ~Holding(t)'
      /\ (\A x : ~Holds(t, x)') /\ \A x : Holds(t, x) <=> x = c
  <2>1. p \in Inner /\ p # "chunk"
    BY DEF Inner
  <2>2. \A x : Holds(t, x) <=> x = c
    BY <1>1, <1>2, InnerThread
  <2>3. Count' = Count
    BY <1>5 DEF Count
  <2>4. QED
    BY <1>2, <1>4, <1>5, <2>1, <2>2, <2>3, InnerMoved
<1>8. ASSUME NEW u \in Team \ {t}
      PROVE  /\ \A x : Holds(u, x)' <=> Holds(u, x)
             /\ Holding(u)' <=> Holding(u)
             /\ At(u, "take")' <=> At(u, "take")
             /\ local'[u] = local[u]
  <2>1. Alike(u)
    BY <1>4, ActiveTeam DEF Went
  <2>2. QED
    BY <1>5, <2>1, FrameThread DEF Alike
<1>9. Holding(t) /\ c < pool.current_chunk
  BY <1>2, <1>7 DEF Holding, ChunksOK
<1>10. done \in [0 .. Nodes - 1 -> [Cells -> Nat]] /\ \A n \in 0 .. Nodes - 1, x \in Cells : done[n][x] <= 1
  BY DEF Types, HistoryType, Kept, DoneOK
<1>11. CASE c < Count
  <2>1. c \in Cells /\ done[k][c] = 0
    BY <1>2, <1>6, <1>9, <1>11 DEF ChunksOK
  <2>2. done' = [done EXCEPT ![k][c] = @ + 1] /\ p = IF pool.n_threads_cur >= Count THEN "after" ELSE "take"
    <3>1. c < ChunkCount(local[t].nth)
      BY <1>2, <1>11 DEF Count
    <3>2. done' = [done EXCEPT ![k][c] = @ + 1]
      BY <3>1 DEF ComputeChunk
    <3>3. pc' = [pc EXCEPT ![t] = IF pool.n_threads_cur >= Count THEN "after" ELSE "take"]
      BY <1>2, <3>1 DEF ComputeChunk, Goto, Count
    <3>4. QED
      BY <1>7, <3>2, <3>3 DEF Types, ThreadType
  <2>3. /\ done'[k][c] = 1
        /\ \A x \in Cells \ {c} : done'[k][x] = done[k][x]
        /\ \A n \in (0 .. Nodes - 1) \ {k} : done'[n] = done[n]
    BY <1>2, <1>10, <2>1, <2>2
  <2>4. ChunksOK(k)'
    <3>1. \A x \in Cells : done'[k][x] = 1 => x < Count /\ x < pool.current_chunk
      BY <1>2, <1>9, <1>11, <2>3 DEF ChunksOK
    <3>2. ASSUME NEW x \in 0 .. Count - 1, x < pool.current_chunk
          PROVE  done'[k][x] = 1 \/ \E u \in Team : Holds(u, x)'
      <4>1. x \in Cells /\ (done[k][x] = 1 \/ \E u \in Team : Holds(u, x))
        BY <1>2, <1>6, <3>2 DEF ChunksOK
      <4>2. CASE x = c
        BY <2>3, <4>2
      <4>3. CASE x # c /\ done[k][x] = 1
        BY <2>3, <4>1, <4>3
      <4>4. CASE x # c /\ \E u \in Team : Holds(u, x)
        BY <1>7, <1>8, <4>4
      <4>5. QED
        BY <4>1, <4>2, <4>3, <4>4
    <3>3. ASSUME NEW u \in Team, Holding(u)'
          PROVE  /\ local'[u].chunk < pool.current_chunk
                 /\ local'[u].chunk < Count => done'[k][local'[u].chunk] = 0
      <4>1. u # t /\ Holding(u) /\ local'[u] = local[u] /\ local[u].chunk \in Nat
        BY <1>7, <1>8, <3>3, AtPlace, ActiveTeam DEF LocalSet
      <4>2. local[u].chunk # c
        BY <1>2, <1>9, <4>1 DEF ChunksOK
      <4>3. /\ local[u].chunk < pool.current_chunk
            /\ local[u].chunk < Count => done[k][local[u].chunk] = 0
        BY <1>2, <4>1 DEF ChunksOK
      <4>4. QED
        BY <1>6, <2>3, <4>1, <4>2, <4>3
    <3>4. \A u, v \in Team : Holding(u)' /\ Holding(v)' /\ local'[u].chunk = local'[v].chunk => u = v
      <4>1. \A u \in Team : Holding(u)' => Holding(u) /\ local'[u] = local[u]
        BY <1>7, <1>8
      <4>2. QED
        BY <1>2, <4>1 DEF ChunksOK
    <3>5. \A u \in Team : At(u, "take")' => pool.n_threads_cur < Count
      <4>1. At(t, "take")' => pool.n_threads_cur < Count
        BY <1>6, <1>7, <2>2 DEF At
      <4>2. QED
        BY <1>2, <1>8, <4>1 DEF ChunksOK
    <3>6. \A u \in Team : ~Holding(u)' /\ ~At(u, "take")' => Count = pool.n_threads_cur \/ pool.current_chunk >= Count
      <4>1. ~At(t, "take")' => Count = pool.n_threads_cur
        BY <1>6, <1>7, <2>2 DEF At
      <4>2. QED
        BY <1>2, <1>8, <4>1 DEF ChunksOK
    <3>7. pool.current_chunk >= pool.n_threads_cur
      BY <1>2 DEF ChunksOK
    <3>8. Node(t)' = k
      BY <1>7 DEF Node
    <3>9. QED
      BY <1>5, <1>7, <3>1, <3>2, <3>3, <3>4, <3>5, <3>6, <3>7, <3>8 DEF ChunksOK
  <2>5. \A x \in Cells : done'[k][x] <= 1
    BY <1>2, <1>10, <2>3
  <2>6. QED
    BY <1>1, <1>4, <1>5, <2>3, <2>4, <2>5, ChunkStep
<1>12. CASE ~(c < Count)
  <2>1. done' = done /\ p = "after"
    <3>1. ~(c < ChunkCount(local[t].nth))
      BY <1>2, <1>12 DEF Count
    <3>2. done' = done /\ pc' = [pc EXCEPT ![t] = "after"]
      BY <3>1 DEF ComputeChunk, Goto
    <3>3. QED
      BY <1>7, <3>2 DEF Types, ThreadType
  <2>2. ChunksOK(k)'
    <3>1. \A x \in 0 .. Count - 1 : x < pool.current_chunk => done'[k][x] = 1 \/ \E u \in Team : Holds(u, x)'
      <4>1. \A x \in 0 .. Count - 1 : ~Holds(t, x)
        BY <1>6, <1>7, <1>12
      <4>2. QED
        BY <1>2, <1>8, <2>1, <4>1 DEF ChunksOK
    <3>2. \A u \in Team : Holding(u)' => Holding(u) /\ local'[u] = local[u]
      BY <1>7, <1>8
    <3>3. \A u \in Team : At(u, "take")' => At(u, "take")
      BY <1>7, <1>8, <2>1 DEF At
    <3>4. pool.current_chunk >= Count
      BY <1>6, <1>9, <1>12
    <3>5. Node(t)' = k
      BY <1>7 DEF Node
    <3>6. QED
      BY <1>2, <1>5, <1>7, <2>1, <3>1, <3>2, <3>3, <3>4, <3>5 DEF ChunksOK
  <2>3. \A x \in Cells : done'[k][x] <= 1
    BY <1>2, <1>10, <2>1
  <2>4. \A n \in (0 .. Nodes - 1) \ {k} : done'[n] = done[n]
    BY <2>1
  <2>5. QED
    BY <1>1, <1>4, <1>5, <2>2, <2>3, <2>4, ChunkStep
<1>13. QED
  BY <1>11, <1>12

LEMMA TakeChunkKept == ASSUME Types, Kept, NEW t \in Threads, TakeChunk(t) PROVE Kept'
<1> DEFINE k == Node(t)
           cc == pool.current_chunk
           l == [local[t] EXCEPT !.chunk = cc]
<1>1. At(t, "take") /\ done' = done /\ pc[t] \in {"chunk", "take"} /\ pool' = [pool EXCEPT !.current_chunk = @ + 1]
  BY DEF TakeChunk, At, history
<1>2. /\ t \in Team /\ Joined(t) /\ k \in 0 .. Nodes - 1
      /\ ChunksOK(k) /\ local[t] \in LocalSet /\ last_graph[t] \in 0 .. pool.n_graph
      /\ local[t].n_passed <= pool.n_barrier_passed /\ pc[t] \in Inner
  BY <1>1, SecondHalf
<1>3. Count \in Nat /\ pool.n_threads_cur \in Nat /\ (\A x \in Nat : x < Count => x \in Cells) /\ cc \in Nat
  BY CountFits DEF Types, PoolType
<1>4. l \in LocalSet /\ l.n_passed = local[t].n_passed /\ l.nth = local[t].nth /\ l.node_n = local[t].node_n /\ l.chunk = cc
  BY <1>2, <1>3 DEF LocalSet
<1>5. Moved(t, "chunk", l, last_graph[t])
  BY TakeChunkMoves
<1>6. /\ SamePhase /\ pool'.abort = pool.abort /\ pool'.n_barrier = pool.n_barrier
      /\ pool'.current_chunk = cc + 1 /\ pool'.n_threads_cur = pool.n_threads_cur
  BY <1>1 DEF SamePhase, Types, PoolType
<1> HIDE DEF l
<1>7. Went(t, "chunk", l, last_graph[t])
  BY <1>2, <1>4, <1>5, Goes DEF Places
<1>8. /\ Team' = Team /\ Count' = Count /\ pc'[t] = "chunk" /\ local'[t] = l /\ Holding(t)'
      /\ (\A x : Holds(t, x)' <=> x = cc) /\ (\A x : ~Holds(t, x)) /\ ~Holding(t)
  <2>1. "chunk" \in Inner
    BY DEF Inner
  <2>2. (\A x : ~Holds(t, x)) /\ ~Holding(t)
    BY <1>1, <1>2, InnerThread DEF At
  <2>3. Count' = Count
    BY <1>6 DEF Count
  <2>4. /\ Team' = Team /\ pc'[t] = "chunk" /\ local'[t] = l /\ Holding(t)'
        /\ \A x : Holds(t, x)' <=> l.chunk = x
    BY <1>2, <1>4, <1>6, <1>7, <2>1, InnerMoved
  <2>5. QED
    BY <1>4, <2>2, <2>3, <2>4
<1>9. ASSUME NEW u \in Team \ {t}
      PROVE  /\ \A x : Holds(u, x)' <=> Holds(u, x)
             /\ Holding(u)' <=> Holding(u)
             /\ At(u, "take")' <=> At(u, "take")
             /\ local'[u] = local[u]
  <2>1. Alike(u)
    BY <1>7, ActiveTeam DEF Went
  <2>2. QED
    BY <1>6, <2>1, FrameThread DEF Alike
<1>10. done \in [0 .. Nodes - 1 -> [Cells -> Nat]] /\ \A n \in 0 .. Nodes - 1, x \in Cells : done[n][x] <= 1
  BY DEF Types, HistoryType, Kept, DoneOK
<1>11. ChunksOK(k)'
  <2>1. cc + 1 >= pool.n_threads_cur
    BY <1>2, <1>3 DEF ChunksOK
  <2>2. \A x \in Cells : done[k][x] = 1 => x < Count /\ x < cc + 1
    <3>1. \A x \in Cells : x \in Nat
      BY ThreadsAre DEF Cells
    <3>2. QED
      BY <1>2, <1>3, <3>1 DEF ChunksOK
  <2>3. ASSUME NEW x \in 0 .. Count - 1, x < cc + 1
        PROVE  done[k][x] = 1 \/ \E u \in Team : Holds(u, x)'
    <3>1. CASE x = cc
      BY <1>2, <1>8, <3>1
    <3>2. CASE x # cc
      <4>1. x < cc
        BY <1>3, <2>3, <3>2
      <4>2. done[k][x] = 1 \/ \E u \in Team : Holds(u, x)
        BY <1>2, <4>1 DEF ChunksOK
      <4>3. QED
        BY <1>8, <1>9, <4>2
    <3>3. QED
      BY <3>1, <3>2
  <2>4. ASSUME NEW u \in Team, Holding(u)'
        PROVE  /\ local'[u].chunk < cc + 1
               /\ local'[u].chunk < Count => done[k][local'[u].chunk] = 0
    <3>1. CASE u = t
      <4>1. local'[u].chunk = cc
        BY <1>4, <1>8, <3>1
      <4>2. ASSUME cc < Count PROVE done[k][cc] = 0
        <5>1. cc \in Cells
          BY <1>3, <4>2
        <5>2. done[k][cc] # 1
          BY <1>2, <1>3, <5>1 DEF ChunksOK
        <5>3. done[k][cc] \in Nat /\ done[k][cc] <= 1
          BY <1>2, <1>10, <5>1
        <5>4. QED
          BY <5>2, <5>3
      <4>3. QED
        BY <1>3, <4>1, <4>2
    <3>2. CASE u # t
      <4>1. Holding(u) /\ local'[u] = local[u] /\ local[u].chunk \in Nat
        BY <1>9, <2>4, <3>2, AtPlace, ActiveTeam DEF LocalSet
      <4>2. /\ local[u].chunk < cc
            /\ local[u].chunk < Count => done[k][local[u].chunk] = 0
        BY <1>2, <4>1 DEF ChunksOK
      <4>3. QED
        BY <1>3, <4>1, <4>2
    <3>3. QED
      BY <3>1, <3>2
  <2>5. \A u, v \in Team : Holding(u)' /\ Holding(v)' /\ local'[u].chunk = local'[v].chunk => u = v
    <3>1. \A u \in Team \ {t} : Holding(u)' => Holding(u) /\ local'[u] = local[u] /\ local[u].chunk < cc
      BY <1>2, <1>9 DEF ChunksOK
    <3>2. local'[t].chunk = cc /\ ~(cc < cc)
      BY <1>3, <1>4, <1>8
    <3>3. QED
      BY <1>2, <3>1, <3>2 DEF ChunksOK
  <2>6. \A u \in Team : At(u, "take")' => At(u, "take")
    BY <1>8, <1>9 DEF At
  <2>7. \A u \in Team : ~Holding(u)' /\ ~At(u, "take")' => Count = pool.n_threads_cur \/ cc + 1 >= Count
    <3>1. \A u \in Team : ~Holding(u)' /\ ~At(u, "take")' => ~Holding(u) /\ ~At(u, "take")
      BY <1>8, <1>9
    <3>2. cc >= Count => cc + 1 >= Count
      BY <1>3
    <3>3. QED
      BY <1>2, <3>1, <3>2 DEF ChunksOK
  <2>8. Node(t)' = k
    BY <1>4, <1>8 DEF Node
  <2>9. \A u \in Team : At(u, "take")' => pool.n_threads_cur < Count
    BY <1>2, <2>6 DEF ChunksOK
  <2>10. QED
    BY <1>1, <1>6, <1>8, <2>1, <2>2, <2>3, <2>4, <2>5, <2>7, <2>8, <2>9 DEF ChunksOK
<1>12. \A x \in Cells : done'[k][x] <= 1
  BY <1>1, <1>2, <1>10
<1>13. \A n \in (0 .. Nodes - 1) \ {k} : done'[n] = done[n]
  BY <1>1
<1>14. QED
  BY <1>1, <1>4, <1>6, <1>7, <1>11, <1>12, <1>13, ChunkStep

-----------------------------------------------------------------------------
(* The barrier.                                                               *)

LEMMA WaitersCount ==
  ASSUME Types, Kept
  PROVE  /\ IsFiniteSet(Team) /\ Cardinality(Team) = pool.n_threads_cur
         /\ Waiters \subseteq Team /\ IsFiniteSet(Waiters)
<1>1. Waiters \subseteq Team
  BY DEF Waiters, Waiting, Kept, JoinOK, Leaving, Released, InGraph, Joined, At
<1>2. pool.n_threads_cur - 1 \in Int /\ 0 \in Int /\ pool.n_threads_cur >= 1 /\ pool.n_threads_cur \in Int
  BY ActiveTeam
<1>3. IsFiniteSet(Team) /\ Cardinality(Team) = pool.n_threads_cur
  <2>1. IsFiniteSet(0 .. pool.n_threads_cur - 1)
        /\ Cardinality(0 .. pool.n_threads_cur - 1) =
             IF 0 > pool.n_threads_cur - 1 THEN 0 ELSE (pool.n_threads_cur - 1) - 0 + 1
    BY <1>2, FS_Interval
  <2>2. QED
    BY <1>2, <2>1 DEF Team
<1>4. QED
  BY <1>1, <1>3, FS_Subset

LEMMA ArriveKept == ASSUME Types, Kept, NEW t \in Threads, Arrive(t) PROVE Kept'
<1> DEFINE p == IF pool.n_barrier = local[t].n_threads - 1 THEN "reset" ELSE "spin"
           C == pool.n_threads_cur
<1>1. At(t, "arrive") /\ done' = done /\ pool' = [pool EXCEPT !.n_barrier = @ + 1] /\ InBarrier(t) /\ ~At(t, "spin")
  BY DEF Arrive, history, At, InBarrier
<1>2. pc[t] \in Inner /\ p \in Places
  BY <1>1 DEF Inner, At, Places
<1>3. /\ local[t] \in LocalSet /\ last_graph[t] \in 0 .. pool.n_graph /\ ZeroOK /\ GraphOK(t) /\ InGraph(t) /\ Joined(t)
      /\ ~Leaving(t) /\ ~Waiting(t) /\ ~Released(t) /\ Eff(t) = Seg(t) /\ t \in Team /\ C \in Nat /\ JoinOK(t)
      /\ pool.n_barrier_passed \in Nat /\ (\A c : ~Holds(t, c)) /\ ~Holding(t)
  BY <1>1, <1>2, InnerThread DEF At
<1>4. local[t].n_threads = C /\ local[t].n_passed = pool.n_barrier_passed
  BY <1>1, <1>3 DEF GraphOK
<1>5. Went(t, p, local[t], last_graph[t])
  BY <1>2, <1>3, ArriveMoves, Goes
<1>6. pc'[t] = p /\ local'[t] = local[t] /\ last_graph'[t] = last_graph[t] /\ Node(t)' = Node(t)
      /\ \A u \in Threads \ {t} : Alike(u)
  BY <1>5 DEF Went, Node
<1>7. /\ SamePhase /\ SameChunks /\ pool'.abort = pool.abort /\ pool'.n_barrier = pool.n_barrier + 1
      /\ pool.n_barrier \in Nat /\ pool'.n_barrier_passed = pool.n_barrier_passed
      /\ pool'.n_threads_cur = C
  BY <1>1 DEF SamePhase, SameChunks, Types, PoolType
<1>8. p \in {"reset", "spin"}
  OBVIOUS
<1> HIDE DEF p
<1>9. /\ Team' = Team /\ Joined(t)' /\ InGraph(t)' /\ InBarrier(t)' /\ ~Released(t)' /\ ~Leaving(t)'
      /\ (Waiting(t)' <=> p = "spin")
  BY <1>3, <1>4, <1>6, <1>7, <1>8 DEF Team, Joined, InGraph, InBarrier, Released, Leaving, Waiting, At, SamePhase
<1>10. Eff(t)' = Eff(t)
  <2>1. Seg(t)' = Seg(t)
    BY <1>1, <1>6, <1>8 DEF Seg, At, InBarrier, Home
  <2>2. QED
    BY <1>3, <1>9, <2>1 DEF Eff
<1>11. JoinOK(t)'
  BY <1>3, <1>6, <1>7, <1>8, <1>9 DEF JoinOK, At
<1>12. GraphOK(t)'
  BY <1>1, <1>3, <1>4, <1>6, <1>7, <1>8, <1>9 DEF GraphOK, At, Home
<1>13. \A u \in Threads : pc[u] \notin {"reset", "open"}
  <2>1. ASSUME NEW u \in Threads, pc[u] \in {"reset", "open"} PROVE FALSE
    <3>1. u # t
      BY <1>1, <2>1 DEF At
    <3>2. Waiting(t)
      BY <1>3, <2>1, <3>1 DEF Kept, BarrierOK
    <3>3. QED
      BY <1>3, <3>2
  <2>2. QED
    BY <2>1
<1>14. pool.n_barrier = Cardinality(Waiters) /\ pool.n_barrier < C
  BY <1>13 DEF Kept, BarrierOK
<1>15. /\ \A u \in Threads \ {t} : Waiting(u)' <=> Waiting(u)
       /\ \A u \in Threads \ {t} : pc'[u] = pc[u]
  BY <1>6, <1>7, FrameThread DEF Alike
<1>16. BarrierOK'
  <2>1. IsFiniteSet(Team) /\ Cardinality(Team) = C /\ Waiters \subseteq Team /\ IsFiniteSet(Waiters)
        /\ t \notin Waiters /\ Waiters \subseteq Team \ {t} /\ Team \subseteq Threads
    BY <1>3, WaitersCount, ActiveTeam DEF Waiters
  <2>2. CASE p = "reset"
    <3>1. pool.n_barrier = C - 1
      BY <1>4, <2>2 DEF p
    <3>2. IsFiniteSet(Team \ {t}) /\ Cardinality(Team \ {t}) = C - 1
      BY <1>3, <2>1, FS_RemoveElement
    <3>3. Waiters = Team \ {t}
      BY <1>14, <2>1, <3>1, <3>2, FS_Subset
    <3>4. \A u \in Team \ {t} : Waiting(u)'
      BY <1>15, <2>1, <3>3 DEF Waiters
    <3>5. \A u \in Threads : pc'[u] \in {"reset", "open"} => u = t
      BY <1>13, <1>15
    <3>6. pool'.n_barrier = C /\ ~At(t, "open")'
      BY <1>6, <1>3, <1>7, <2>2, <3>1 DEF At
    <3>7. QED
      BY <1>6, <1>7, <1>9, <2>2, <3>4, <3>5, <3>6 DEF BarrierOK
  <2>3. CASE p = "spin"
    <3>1. pool.n_barrier # C - 1
      BY <1>4, <2>3 DEF p
    <3>2. Waiters' = Waiters \cup {t}
      BY <1>9, <1>15, <2>3 DEF Waiters
    <3>3. Cardinality(Waiters') = pool.n_barrier + 1
      BY <1>14, <2>1, <3>2, FS_AddElement
    <3>4. \A u \in Threads : pc'[u] \notin {"reset", "open"}
      BY <1>6, <1>13, <1>15, <2>3
    <3>5. pool.n_barrier + 1 < C
      BY <1>3, <1>7, <1>14, <3>1
    <3>6. QED
      BY <1>7, <3>3, <3>4, <3>5 DEF BarrierOK
  <2>4. QED
    BY <1>8, <2>2, <2>3
<1>17. Eff(0)' = Eff(0)
  BY <1>6, <1>7, <1>10, FrameTogether DEF Kept
<1>18. DoneOK'
  <2>1. (\A c : ~Holds(t, c)') /\ ~Holding(t)' /\ ~At(t, "take") /\ ~At(t, "take")'
    BY <1>1, <1>6, <1>8, <1>9 DEF Holds, Holding, At
  <2>2. QED
    BY <1>3, <1>6, <1>7, <1>17, <2>1, FrameDone, ActiveTeam DEF Kept
<1>19. ZeroOK'
  <2>1. CASE t = 0
    BY <1>1, <1>3, <1>6, <1>7, <1>8, <2>1 DEF ZeroOK, At, SameChunks
  <2>2. CASE t # 0
    BY <1>3, <1>6, <1>7, <2>2, FrameZero, ThreadsAre
  <2>3. QED
    BY <2>1, <2>2
<1>20. QED
  BY <1>6, <1>7, <1>10, <1>11, <1>12, <1>16, <1>18, <1>19, PhaseStep

LEMMA ResetBarrierKept == ASSUME Types, Kept, NEW t \in Threads, ResetBarrier(t) PROVE Kept'
<1>1. At(t, "reset") /\ done' = done /\ pool' = [pool EXCEPT !.n_barrier = 0] /\ InBarrier(t) /\ ~At(t, "spin")
  BY DEF ResetBarrier, history, At, InBarrier
<1>2. pc[t] \in Inner /\ "open" \in Inner /\ "open" \in Places
  BY <1>1 DEF Inner, At, Places
<1>3. /\ local[t] \in LocalSet /\ last_graph[t] \in 0 .. pool.n_graph /\ ZeroOK /\ GraphOK(t) /\ InGraph(t) /\ Joined(t)
      /\ ~Leaving(t) /\ ~Waiting(t) /\ ~Released(t) /\ Eff(t) = Seg(t) /\ t \in Team /\ JoinOK(t)
      /\ (\A c : ~Holds(t, c)) /\ ~Holding(t)
  BY <1>1, <1>2, InnerThread DEF At
<1>4. local[t].n_threads = pool.n_threads_cur /\ local[t].n_passed = pool.n_barrier_passed
      /\ local[t].n_passed <= pool.n_barrier_passed
  BY <1>1, <1>3 DEF GraphOK, JoinOK
<1>5. Went(t, "open", local[t], last_graph[t])
  BY <1>2, <1>3, ResetBarrierMoves, Goes
<1>6. pc'[t] = "open" /\ local'[t] = local[t] /\ last_graph'[t] = last_graph[t] /\ Node(t)' = Node(t)
      /\ \A u \in Threads \ {t} : Alike(u)
  BY <1>5 DEF Went, Node
<1>7. /\ SamePhase /\ SameChunks /\ pool'.abort = pool.abort /\ pool'.n_barrier = 0
      /\ pool'.n_barrier_passed = pool.n_barrier_passed
      /\ pool'.n_threads_cur = pool.n_threads_cur
  BY <1>1 DEF SamePhase, SameChunks, Types, PoolType
<1>8. /\ Team' = Team /\ Joined(t)' /\ InGraph(t)' /\ ~Released(t)' /\ ~Leaving(t)' /\ JoinOK(t)' /\ Eff(t)' = Seg(t)'
      /\ (\A c : ~Holds(t, c)') /\ ~Holding(t)'
  BY <1>2, <1>4, <1>5, <1>7, InnerMoved
<1>9. Seg(t)' = Seg(t)
  BY <1>1, <1>6 DEF Seg, At, InBarrier, Home
<1>10. GraphOK(t)'
  <2>1. InBarrier(t)'
    BY <1>6 DEF InBarrier
  <2>2. QED
    BY <1>1, <1>3, <1>4, <1>6, <1>7, <1>8, <2>1 DEF GraphOK, At, Home
<1>11. BarrierOK'
  <2>1. \A u \in Team \ {t} : Waiting(u)
    BY <1>1 DEF Kept, BarrierOK, At
  <2>2. \A u \in Team \ {t} : Waiting(u)'
    BY <1>6, <1>7, <2>1, FrameThread, ActiveTeam
  <2>3. ASSUME NEW u \in Threads \ {t}, pc'[u] \in {"reset", "open"} PROVE FALSE
    <3>1. pc[u] \in {"reset", "open"}
      BY <1>6, <2>3 DEF Alike
    <3>2. Waiting(t)
      BY <1>3, <3>1 DEF Kept, BarrierOK
    <3>3. QED
      BY <1>3, <3>2
  <2>4. QED
    BY <1>6, <1>7, <1>8, <2>2, <2>3 DEF BarrierOK, At
<1>12. Eff(0)' = Eff(0) /\ Eff(t)' = Eff(t)
  BY <1>3, <1>6, <1>7, <1>8, <1>9, FrameTogether DEF Kept
<1>13. DoneOK'
  <2>1. ~At(t, "take") /\ ~At(t, "take")'
    BY <1>1, <1>6 DEF At
  <2>2. QED
    BY <1>3, <1>6, <1>7, <1>8, <1>12, <2>1, FrameDone, ActiveTeam DEF Kept
<1>14. ZeroOK'
  <2>1. CASE t = 0
    BY <1>1, <1>3, <1>6, <1>7, <2>1 DEF ZeroOK, At, SameChunks, Released
  <2>2. CASE t # 0
    BY <1>3, <1>6, <1>7, <2>2, FrameZero, ThreadsAre
  <2>3. QED
    BY <2>1, <2>2
<1>15. QED
  BY <1>6, <1>7, <1>8, <1>10, <1>11, <1>12, <1>13, <1>14, PhaseStep

(* A thread at a barrier that has not opened.                                 *)
Meets(t) == t \in Team /\ Joined(t) /\ InBarrier(t) /\ ~Released(t)

LEMMA MeetsSeg ==
  ASSUME Types, Kept, NEW t \in Threads, Meets(t)
  PROVE  /\ Node(t) \in Nat /\ local[t].nth = pool.n_threads_cur /\ Node(t) <= Nodes
         /\ local[t].then \in {"chunk", "node", Home(t)} /\ Home(t) \notin {"chunk", "node"}
         /\ local[t].then = "chunk" =>
              Eff(0) = 2 * Node(t) /\ Node(t) < Nodes /\ local[t].chunk = t /\ pool.abort # Node(t)
         /\ local[t].then = "node" => Eff(0) = 2 * Node(t) - 1 /\ Node(t) \in 1 .. Nodes - 1
         /\ local[t].then = Home(t) =>
              \/ Node(t) = Nodes /\ Eff(0) = 2 * Nodes - 1
              \/ Node(t) < Nodes /\ pool.abort = Node(t) /\ Eff(0) = 2 * Node(t)
<1>1. InGraph(t) /\ ~Leaving(t) /\ ~At(t, "begin")
  BY DEF Meets, InGraph, InBarrier, Leaving, At
<1>2. GraphOK(t) /\ PlaceOK(t) /\ local[t] \in LocalSet
  BY AtPlace DEF Kept
<1>3. Eff(0) = Seg(t)
  BY <1>1 DEF Kept, Together, Meets, Eff
<1>4. /\ Node(t) \in Nat /\ local[t].nth = pool.n_threads_cur /\ Node(t) <= Nodes
      /\ local[t].then \in {"chunk", "node", Home(t)} /\ Home(t) \notin {"chunk", "node"}
      /\ local[t].then = "chunk" => Node(t) < Nodes /\ local[t].chunk = t /\ pool.abort # Node(t)
      /\ local[t].then = "node" => Node(t) \in 1 .. Nodes - 1
      /\ local[t].then = Home(t) => Node(t) = Nodes \/ pool.abort = Node(t)
  BY <1>1, <1>2 DEF GraphOK, PlaceOK, Meets, Node, LocalSet, Home
<1>5. Seg(t) = IF local[t].then = "chunk" THEN 2 * Node(t)
               ELSE IF local[t].then = "node" THEN 2 * Node(t) - 1 ELSE EndSeg(Node(t))
  BY DEF Seg, At, InBarrier, Meets
<1>6. local[t].then = Home(t) =>
        \/ Node(t) = Nodes /\ Eff(0) = 2 * Nodes - 1
        \/ Node(t) < Nodes /\ pool.abort = Node(t) /\ Eff(0) = 2 * Node(t)
  BY <1>3, <1>4, <1>5, ThreadsAre DEF EndSeg
<1>7. QED
  BY <1>3, <1>4, <1>5, <1>6

(* Those who meet at a barrier meet at the same one.                          *)
LEMMA MeetTheSame ==
  ASSUME Types, Kept, NEW t \in Threads, NEW u \in Threads, Meets(t), Meets(u)
  PROVE  /\ local[t].then = "chunk" => local[u].then = "chunk" /\ Node(u) = Node(t)
         /\ local[t].then = "node" => local[u].then = "node" /\ Node(u) = Node(t)
<1>1. Node(t) \in Nat /\ Node(u) \in Nat /\ Nodes \in Nat
  BY MeetsSeg, ThreadsAre
<1>2. \A a, b \in Nat : 2 * a # 2 * b - 1
  OBVIOUS
<1>3. 2 * Node(t) # 2 * Node(u) - 1 /\ 2 * Node(t) # 2 * Nodes - 1 /\ 2 * Node(u) # 2 * Node(t) - 1
  BY <1>1, <1>2
<1>4. /\ 2 * Node(t) = 2 * Node(u) => Node(t) = Node(u)
      /\ 2 * Node(t) - 1 = 2 * Node(u) - 1 => Node(t) = Node(u)
      /\ 2 * Node(t) - 1 = 2 * Nodes - 1 => Node(t) = Nodes
  BY <1>1
<1>5. CASE local[t].then = "chunk"
  <2>1. Eff(0) = 2 * Node(t) /\ pool.abort # Node(t) /\ local[t].then # "node"
    BY <1>5, MeetsSeg
  <2>2. local[u].then = "chunk" /\ Node(u) = Node(t)
    BY <1>3, <1>4, <2>1, MeetsSeg
  <2>3. QED
    BY <2>1, <2>2
<1>6. CASE local[t].then = "node"
  <2>1. Eff(0) = 2 * Node(t) - 1 /\ Node(t) # Nodes /\ local[t].then # "chunk"
    BY <1>1, <1>6, MeetsSeg
  <2>2. local[u].then = "node" /\ Node(u) = Node(t)
    BY <1>3, <1>4, <2>1, MeetsSeg
  <2>3. QED
    BY <2>1, <2>2
<1>7. QED
  BY <1>5, <1>6

LEMMA OpenBarrierKept == ASSUME Types, Kept, NEW t \in Threads, OpenBarrier(t) PROVE Kept'
<1> DEFINE p == local[t].then
<1>1. At(t, "open") /\ done' = done /\ pool' = [pool EXCEPT !.n_barrier_passed = @ + 1] /\ InBarrier(t)
  BY DEF OpenBarrier, history, At, InBarrier
<1>2. pc[t] \in Inner
  BY <1>1 DEF Inner, At
<1>3. /\ local[t] \in LocalSet /\ last_graph[t] \in 0 .. pool.n_graph /\ ZeroOK /\ GraphOK(t) /\ Joined(t)
      /\ ~Waiting(t) /\ ~Released(t) /\ t \in Team /\ JoinOK(t) /\ Meets(t)
  BY <1>1, <1>2, InnerThread DEF Meets
<1>4. p \in {"chunk", "node", Home(t)} /\ p \in Places /\ Home(t) \in {"idle", "top"}
  BY <1>3, MeetsSeg DEF Home, Places
<1>5. Went(t, p, local[t], last_graph[t])
  BY <1>3, <1>4, OpenBarrierMoves, Goes
<1>6. pc'[t] = p /\ local'[t] = local[t] /\ last_graph'[t] = last_graph[t] /\ Node(t)' = Node(t)
      /\ \A u \in Threads \ {t} : Alike(u)
  BY <1>5 DEF Went, Node
<1>7. /\ pool'.n_barrier_passed = pool.n_barrier_passed + 1 /\ pool'.n_graph = pool.n_graph
      /\ pool'.n_threads_cur = pool.n_threads_cur /\ pool'.abort = pool.abort /\ pool'.n_barrier = 0
      /\ pool'.current_chunk = pool.current_chunk
      /\ pool.n_barrier_passed \in Nat /\ pool.n_threads_cur \in Nat /\ pool.n_threads_cur >= 1
  <2>1. pool.n_barrier = 0
    BY <1>1 DEF Kept, BarrierOK, At
  <2>2. QED
    BY <1>1, <2>1, ThreadsAre DEF Types, PoolType
<1>8. /\ Team' = Team /\ Count' = Count /\ 0 \in Team /\ Team \subseteq Threads
      /\ \A u \in Threads : Joined(u)' <=> Joined(u)
  BY <1>6, <1>7, ActiveTeam DEF Team, Count, Joined, Alike
<1>9. \A u \in Team \ {t} : Waiting(u) /\ Meets(u)
  <2>1. \A u \in Team \ {t} : Waiting(u)
    BY <1>1 DEF Kept, BarrierOK, At
  <2>2. \A u \in Team \ {t} : InGraph(u) /\ InBarrier(u) /\ ~Released(u) /\ ~Leaving(u)
    BY <2>1 DEF Waiting, InGraph, InBarrier, Released, Leaving, At
  <2>3. \A u \in Team \ {t} : Joined(u)
    BY <1>8, <2>2 DEF Kept, JoinOK
  <2>4. QED
    BY <2>1, <2>2, <2>3 DEF Meets
<1>10. \A u \in Team : Meets(u)
  BY <1>3, <1>9
(* The others are released by the step, t goes on at once.                    *)
<1>11. ASSUME NEW u \in Team \ {t}
       PROVE  /\ Released(u)' /\ InGraph(u)' /\ InBarrier(u)' /\ Node(u)' = Node(u) /\ local'[u] = local[u]
              /\ Joined(u)' /\ (Leaving(u)' <=> local[u].then = Home(u)) /\ Seg(u)' = Seg(u) /\ pc'[u] = "spin"
  <2>1. Alike(u) /\ Waiting(u) /\ At(u, "spin") /\ Joined(u)
    BY <1>6, <1>8, <1>9 DEF Waiting, Meets
  <2>2. Released(u)'
    BY <1>7, <2>1 DEF Alike, Released, Waiting, At
  <2>3. InGraph(u)' /\ InBarrier(u)' /\ Node(u)' = Node(u) /\ local'[u] = local[u] /\ pc'[u] = "spin"
    BY <2>1 DEF Alike, InGraph, InBarrier, Node, At
  <2>4. Seg(u)' = Seg(u)
    BY <2>1, <2>3 DEF Alike, Seg, InBarrier, At
  <2>5. Leaving(u)' <=> local[u].then = Home(u)
    BY <2>2, <2>3 DEF Leaving, Home
  <2>6. Joined(u)'
    BY <1>8, <2>1
  <2>7. QED
    BY <2>2, <2>3, <2>4, <2>5, <2>6
<1>12. ~Released(t)' /\ ~Leaving(t)' /\ ~Waiting(t)' /\ ~InBarrier(t)' /\ Joined(t)'
       /\ (InGraph(t)' <=> p # Home(t))
  BY <1>3, <1>4, <1>6, <1>8 DEF Released, Leaving, Waiting, InBarrier, InGraph, At
(* Threads outside the team at most have yet to leave.                        *)
<1>13. \A u \in Threads \ Team : InGraph(u) => Leaving(u)
  BY DEF Kept, JoinOK, Joined
<1>14. \A u \in Threads : pc'[u] \notin {"reset", "open"}
  <2>1. ASSUME NEW u \in Threads, pc'[u] \in {"reset", "open"} PROVE FALSE
    <3>1. u # t
      BY <1>4, <1>6, <2>1
    <3>2. u \notin Team
      BY <1>11, <2>1, <3>1
    <3>3. pc[u] \in {"reset", "open"}
      BY <1>6, <2>1, <3>1 DEF Alike
    <3>4. InGraph(u) /\ ~Leaving(u)
      BY <3>3 DEF InGraph, Leaving, Released, At
    <3>5. QED
      BY <1>13, <3>2, <3>4
  <2>2. QED
    BY <2>1
<1>15. \A u \in Threads : local'[u].n_passed <= pool.n_barrier_passed /\ local'[u].n_passed \in Nat
  BY <1>6, AtPlace DEF Kept, JoinOK, Alike, LocalSet
<1>16. \A u \in Threads : ~Waiting(u)'
  BY <1>7, <1>15 DEF Waiting
<1>17. BarrierOK'
  <2>1. Waiters' = {}
    BY <1>16 DEF Waiters
  <2>2. Cardinality(Waiters') = 0
    BY <2>1, FS_EmptySet
  <2>3. QED
    BY <1>7, <1>14, <2>2 DEF BarrierOK
<1>18. \A u \in Threads : JoinOK(u)'
  <2>1. JoinOK(t)'
    BY <1>4, <1>6, <1>7, <1>12, <1>15 DEF JoinOK, At
  <2>2. ASSUME NEW u \in Threads \ {t} PROVE JoinOK(u)'
    <3>1. Alike(u) /\ JoinOK(u)
      BY <1>6 DEF Kept
    <3>2. InGraph(u)' => Leaving(u)' \/ Joined(u)'
      <4>1. CASE u \in Team
        BY <1>11, <4>1
      <4>2. CASE u \notin Team
        <5>1. InGraph(u)' => Leaving(u)
          BY <1>13, <3>1, <4>2 DEF InGraph, Alike
        <5>2. Leaving(u) => Leaving(u)'
          BY <1>7, <1>15, <3>1 DEF Leaving, Released, Alike, At, Home
        <5>3. QED
          BY <5>1, <5>2
      <4>3. QED
        BY <4>1, <4>2
    <3>3. QED
      BY <1>7, <1>8, <1>15, <3>1, <3>2 DEF JoinOK, Alike, At
  <2>3. QED
    BY <2>1, <2>2
<1>19. /\ local[t].nth = pool.n_threads_cur /\ Node(t) \in Nat /\ Node(t) <= Nodes
       /\ p = "chunk" => Node(t) < Nodes
       /\ p = "node" => Node(t) \in 1 .. Nodes - 1
  BY <1>3, MeetsSeg
<1>20. \A u \in Threads : GraphOK(u)'
  <2>1. GraphOK(t)'
    BY <1>4, <1>6, <1>7, <1>12, <1>19 DEF GraphOK, At
  <2>2. ASSUME NEW u \in Team \ {t} PROVE GraphOK(u)'
    <3>1. Meets(u) /\ u \in Threads
      BY <1>8, <1>10
    <3>2. /\ local[u].nth = pool.n_threads_cur /\ Node(u) <= Nodes
          /\ local[u].then = "chunk" => Node(u) < Nodes /\ local[u].chunk = u
          /\ local[u].then = "node" => Node(u) \in 1 .. Nodes - 1
      BY <3>1, MeetsSeg
    <3>3. pool.n_threads_cur > 1
      BY <3>1 DEF Kept, GraphOK, Meets, InBarrier, InGraph, Leaving
    <3>4. QED
      BY <1>7, <1>11, <3>2, <3>3 DEF GraphOK, At
  <2>3. ASSUME NEW u \in Threads \ Team PROVE GraphOK(u)'
    BY <1>8, <2>3 DEF GraphOK, Joined
  <2>4. QED
    BY <2>1, <2>2, <2>3
<1>21. DoneOK /\ HistoryType /\ PoolType
  BY DEF Kept, Types
<1>22. CASE p = "chunk"
  <2> DEFINE k == Node(t)
  <2>1. k \in 0 .. Nodes - 1 /\ Eff(0) = 2 * k
    BY <1>3, <1>19, <1>22, MeetsSeg, ThreadsAre
  <2>2. \A u \in Team : local[u].then = "chunk" /\ Node(u) = k /\ local[u].chunk = u /\ Home(u) # "chunk"
    <3>1. \A u \in Team : local[u].then = "chunk" /\ Node(u) = k
      BY <1>3, <1>8, <1>10, <1>22, MeetTheSame
    <3>2. QED
      BY <1>8, <1>10, <3>1, MeetsSeg
  <2>3. \A u \in Team : Eff(u)' = 2 * k + 1 /\ Holds(u, u)' /\ ~At(u, "take")'
    <3>1. Eff(t)' = 2 * k + 1 /\ Holds(t, t)' /\ ~At(t, "take")'
      <4>1. Seg(t)' = 2 * k + 1
        BY <1>6, <1>22 DEF Seg, At, InBarrier
      <4>2. p # Home(t) /\ local[t].chunk = t
        BY <1>3, <1>22, <2>2
      <4>3. QED
        BY <1>6, <1>12, <1>22, <4>1, <4>2 DEF Eff, Holds, At
    <3>2. ASSUME NEW u \in Team \ {t} PROVE Eff(u)' = 2 * k + 1 /\ Holds(u, u)' /\ ~At(u, "take")'
      <4>1. Seg(u) = 2 * k
        BY <1>10, <2>2 DEF Seg, Meets, InBarrier, At
      <4>2. ~Leaving(u)'
        BY <1>11, <2>2
      <4>3. Eff(u)' = 2 * k + 1
        BY <1>11, <4>1, <4>2 DEF Eff
      <4>4. QED
        BY <1>11, <2>2, <4>3 DEF Holds, At
    <3>3. QED
      BY <3>1, <3>2
  <2>4. pool.current_chunk = pool.n_threads_cur
    BY <1>3, <1>8, <1>10, <2>2 DEF ZeroOK, Meets
  <2>5. Together'
    BY <1>8, <2>3 DEF Together
  <2>6. Eff(0)' = 2 * k + 1
    BY <1>8, <2>3
  <2> HIDE DEF k
  <2>7. DoneOK'
    BY <1>1, <1>7, <1>8, <1>21, <2>1, <2>3, <2>4, <2>6, DoneOpens
  <2>8. ZeroOK'
    <3>1. CASE t = 0
      BY <1>6, <1>12, <1>22, <3>1 DEF ZeroOK, At
    <3>2. CASE t # 0
      BY <1>8, <1>11, <3>2 DEF ZeroOK, At
    <3>3. QED
      BY <3>1, <3>2
  <2>9. QED
    BY <1>17, <1>18, <1>20, <2>5, <2>7, <2>8 DEF Kept
<1>23. CASE p = "node"
  <2> DEFINE k == Node(t) - 1
  <2>1. k \in 0 .. Nodes - 1 /\ Eff(0) = 2 * k + 1 /\ k + 1 < Nodes /\ k \in Nat /\ Node(t) = k + 1
    <3>1. Eff(0) = 2 * Node(t) - 1 /\ Node(t) \in 1 .. Nodes - 1
      BY <1>3, <1>23, MeetsSeg
    <3>2. QED
      BY <3>1, ThreadsAre
  <2>2. \A u \in Team : local[u].then = "node" /\ Node(u) = k + 1 /\ Home(u) # "node"
    <3>1. \A u \in Team : local[u].then = "node" /\ Node(u) = k + 1
      BY <1>3, <1>8, <1>10, <1>23, <2>1, MeetTheSame
    <3>2. QED
      BY <1>8, <1>10, <3>1, MeetsSeg
  <2> HIDE DEF k
  <2>3. \A u \in Team : Eff(u)' = 2 * k + 2 /\ (\A c : ~Holds(u, c)) /\ ~At(u, "take")
    <3>1. Eff(t)' = 2 * k + 2
      <4>1. Seg(t)' = EndSeg(k + 1)
        BY <1>6, <1>23, <2>1 DEF Seg, At, InBarrier
      <4>2. EndSeg(k + 1) = 2 * k + 2
        BY <2>1, ThreadsAre DEF EndSeg
      <4>3. p # Home(t)
        BY <1>3, <1>23, <2>2
      <4>4. QED
        BY <1>12, <4>1, <4>2, <4>3 DEF Eff
    <3>2. ASSUME NEW u \in Team \ {t} PROVE Eff(u)' = 2 * k + 2
      <4>1. Seg(u) = 2 * (k + 1) - 1
        BY <1>10, <2>2 DEF Seg, Meets, InBarrier, At
      <4>2. ~Leaving(u)'
        BY <1>11, <2>2
      <4>3. Eff(u)' = 2 * (k + 1) - 1 + 1
        BY <1>11, <4>1, <4>2 DEF Eff
      <4>4. QED
        BY <2>1, <4>3
    <3>3. \A u \in Team : (\A c : ~Holds(u, c)) /\ ~At(u, "take")
      BY <1>10 DEF Meets, Holds, At, InBarrier
    <3>4. QED
      BY <3>1, <3>2, <3>3
  <2>4. Together'
    BY <1>8, <2>3 DEF Together
  <2>5. Eff(0)' = 2 * k + 2
    BY <1>8, <2>3
  <2>6. DoneOK'
    BY <1>1, <1>7, <1>8, <1>21, <2>1, <2>3, <2>5, DoneCloses
  <2>7. ZeroOK'
    <3>1. CASE t = 0
      BY <1>6, <1>12, <1>23, <3>1 DEF ZeroOK, At
    <3>2. CASE t # 0
      BY <1>8, <1>11, <3>2 DEF ZeroOK, At
    <3>3. QED
      BY <3>1, <3>2
  <2>8. QED
    BY <1>17, <1>18, <1>20, <2>4, <2>6, <2>7 DEF Kept
<1>24. CASE p = Home(t)
  <2>1. \A u \in Team : local[u].then = Home(u)
    <3>1. p \notin {"chunk", "node"}
      BY <1>4, <1>24
    <3>2. ASSUME NEW u \in Team PROVE local[u].then = Home(u)
      <4>1. local[u].then \in {"chunk", "node", Home(u)}
        BY <1>8, <1>10, MeetsSeg
      <4>2. local[u].then \notin {"chunk", "node"}
        BY <1>3, <1>8, <1>10, <3>1, MeetTheSame
      <4>3. QED
        BY <4>1, <4>2
    <3>3. QED
      BY <3>2
  <2>2. \A u \in Team : Eff(u)' = Past
    <3>1. Eff(t)' = Past
      BY <1>12, <1>24 DEF Eff
    <3>2. \A u \in Team \ {t} : Eff(u)' = Past
      BY <1>11, <2>1 DEF Eff
    <3>3. QED
      BY <3>1, <3>2
  <2>3. Together' /\ Eff(0)' = Past
    BY <1>8, <2>2 DEF Together
  <2>4. DoneOK'
    BY <1>1, <1>21, <2>3, DonePast
  <2>5. ZeroOK'
    <3>1. CASE t = 0
      BY <1>4, <1>6, <1>12, <1>24, <3>1 DEF ZeroOK, At
    <3>2. CASE t # 0
      BY <1>8, <1>11, <3>2 DEF ZeroOK, At
    <3>3. QED
      BY <3>1, <3>2
  <2>6. QED
    BY <1>17, <1>18, <1>20, <2>3, <2>4, <2>5 DEF Kept
<1>25. QED
  BY <1>4, <1>22, <1>23, <1>24

-----------------------------------------------------------------------------
(* The caller begins a graph.                                                 *)

(* While the caller is out of the graph, the whole team is.                    *)
LEMMA AllOut ==
  ASSUME Types, Kept, ~InGraph(0)
  PROVE  /\ Eff(0) = Past
         /\ \A u \in Team : Joined(u)
         /\ \A u \in Threads : InGraph(u) => Leaving(u)
         /\ \A u \in Threads : ~Waiting(u) /\ pc[u] \notin {"reset", "open"}
<1>1. 0 \in Team /\ Joined(0)
  BY ActiveTeam DEF Joined
<1>2. Eff(0) = Past
  BY <1>1 DEF Eff
<1>3. \A u \in Team : Eff(u) = Past
  BY <1>2 DEF Kept, Together
<1>4. \A u \in Team : Joined(u)
  BY <1>3 DEF Eff, Past
<1>5. ASSUME NEW u \in Threads, InGraph(u) PROVE Leaving(u)
  <2>1. CASE u \in Team /\ ~Leaving(u)
    <3>1. Seg(u) \in Int /\ Seg(u) >= 0
      <4>1. Joined(u) /\ GraphOK(u) /\ local[u] \in LocalSet /\ PlaceOK(u)
        BY <1>4, <2>1, AtPlace DEF Kept
      <4>2. Node(u) \in Nat
        BY <4>1 DEF Node, LocalSet
      <4>3. At(u, "meet") => Node(u) >= 1
        BY <1>5, <2>1, <4>1 DEF GraphOK
      <4>4. InBarrier(u) /\ local[u].then = "node" => Node(u) >= 1
        BY <1>5, <2>1, <4>1, ThreadsAre DEF GraphOK
      <4>5. EndSeg(Node(u)) \in Int /\ EndSeg(Node(u)) >= 0
        BY <4>2, ThreadsAre DEF EndSeg
      <4>6. CASE At(u, "meet")
        BY <4>2, <4>3, <4>6 DEF Seg, At, InBarrier
      <4>7. CASE InBarrier(u) /\ local[u].then = "node"
        BY <4>2, <4>4, <4>7 DEF Seg, At, InBarrier
      <4>8. CASE ~At(u, "meet") /\ ~(InBarrier(u) /\ local[u].then = "node")
        BY <4>2, <4>5, <4>8 DEF Seg
      <4>9. QED
        BY <4>6, <4>7, <4>8
    <3>2. Eff(u) = Seg(u) \/ Eff(u) = Seg(u) + 1
      BY <1>4, <1>5, <2>1 DEF Eff
    <3>3. QED
      BY <1>3, <2>1, <3>1, <3>2 DEF Past
  <2>2. CASE u \notin Team
    BY <1>5, <2>2 DEF Kept, JoinOK, Joined
  <2>3. QED
    BY <2>1, <2>2
<1>6. ASSUME NEW u \in Threads PROVE ~Waiting(u) /\ pc[u] \notin {"reset", "open"}
  <2>1. InGraph(u) => At(u, "spin") /\ Released(u)
    BY <1>5 DEF Leaving, Released
  <2>2. QED
    BY <2>1 DEF InGraph, Waiting, Released, At
<1>7. QED
  BY <1>2, <1>4, <1>5, <1>6

LEMMA GraphComputeKept ==
  ASSUME Types, Kept, NEW n \in 1 .. MaxThreads, GraphCompute(n), ~grown'
  PROVE  Kept'
<1>1. At(0, "idle") /\ pool' = [pool EXCEPT !.current_chunk = 0, !.abort = -1] /\ done' = NothingDone
      /\ n <= pool.n_threads_cur /\ local' = [local EXCEPT ![0].nth = n] /\ pc' = [pc EXCEPT ![0] = "kickoff"]
      /\ last_graph' = last_graph
  <2>1. pool.n_threads_cur \in Int /\ n \in Int
    BY ThreadsAre DEF Types, PoolType
  <2>2. ~(n > pool.n_threads_cur)
    BY DEF GraphCompute
  <2>3. QED
    BY <2>1, <2>2 DEF GraphCompute, Goto
<1>2. 0 \in Threads /\ local[0] \in LocalSet /\ last_graph[0] \in 0 .. pool.n_graph /\ JoinOK(0)
  BY ThreadsAre, AtPlace DEF Kept
<1>3. /\ pc'[0] = "kickoff" /\ local'[0].nth = n /\ local'[0].n_passed = local[0].n_passed
      /\ \A u \in Threads \ {0} : Alike(u)
  BY <1>1, <1>2 DEF Types, ThreadType, LocalSet, Alike
<1>4. /\ SamePhase /\ pool'.abort = -1 /\ pool'.n_barrier = pool.n_barrier
      /\ pool'.n_threads_cur = pool.n_threads_cur /\ pool'.n_barrier_passed = pool.n_barrier_passed
  BY <1>1 DEF SamePhase, Types, PoolType
<1>5. ~InGraph(0) /\ ~InGraph(0)' /\ Team' = Team /\ 0 \in Team
  BY <1>1, <1>3, <1>4, ActiveTeam DEF InGraph, At, Team
<1>6. Joined(0)' /\ Joined(0) /\ ~Waiting(0) /\ ~Waiting(0)'
  BY <1>1, <1>3, <1>5 DEF Joined, Waiting, At
<1>7. Eff(0)' = Past /\ Eff(0) = Past /\ \A u \in Threads : InGraph(u) => Leaving(u)
  BY <1>5, <1>6, AllOut DEF Eff
<1>8. Together'
  BY <1>3, <1>4, <1>7, FrameTogether, ThreadsAre DEF Kept
<1>9. BarrierOK'
  BY <1>1, <1>3, <1>4, <1>6, FrameBarrier, ThreadsAre, ActiveTeam DEF Kept, At
<1>10. JoinOK(0)'
  BY <1>1, <1>2, <1>3, <1>4, <1>5 DEF JoinOK, At
<1>11. \A u \in Threads : JoinOK(u)'
  BY <1>3, <1>4, <1>10, FrameThread DEF Kept
<1>12. ASSUME NEW u \in Threads PROVE GraphOK(u)'
  <2>1. CASE u = 0
    BY <1>5, <2>1 DEF GraphOK
  <2>2. CASE u # 0
    <3>1. Alike(u)
      BY <1>3, <2>2
    <3>2. InGraph(u)' => Leaving(u)'
      BY <1>4, <1>7, <3>1 DEF Alike, InGraph, Leaving, Released, At, Home
    <3>3. QED
      BY <3>2 DEF GraphOK
  <2>3. QED
    BY <2>1, <2>2
<1>13. \A m \in 0 .. Nodes - 1, c \in Cells : done'[m][c] = 0
  BY <1>1, ThreadsAre DEF NothingDone, Cells
<1>14. DoneOK'
  <2>1. \A m \in 0 .. Nodes - 1 : ~(2 * m + 1 < Past) /\ Past # 2 * m + 1
    BY ThreadsAre DEF Past
  <2>2. QED
    BY <1>7, <1>13, <2>1 DEF DoneOK
<1>15. ZeroOK'
  BY <1>3, <1>4, <1>13 DEF ZeroOK, At, InBarrier
<1>16. QED
  BY <1>8, <1>9, <1>11, <1>12, <1>14, <1>15 DEF Kept

(* A new graph: nobody but the caller has joined it.                          *)
LEMMA KickoffKept == ASSUME Types, Kept, Kickoff PROVE Kept'
<1>1. /\ At(0, "kickoff") /\ done' = done /\ local' = local /\ last_graph' = last_graph
      /\ pc' = [pc EXCEPT ![0] = "begin"]
      /\ pool' = [pool EXCEPT !.n_threads_cur = local[0].nth, !.n_graph = @ + 1, !.pause = FALSE]
  BY DEF Kickoff, Goto, history
<1>2. 0 \in Threads /\ JoinOK(0) /\ PlaceOK(0) /\ ZeroOK
  BY ThreadsAre, AtPlace DEF Kept
<1>3. /\ pool'.n_graph = pool.n_graph + 1 /\ pool.n_graph \in Nat /\ pool'.n_threads_cur = local[0].nth
      /\ pool'.n_barrier = pool.n_barrier /\ pool'.n_barrier_passed = pool.n_barrier_passed /\ pool'.abort = pool.abort
  BY <1>1 DEF Types, PoolType
<1>4. /\ pool.n_threads_cur \in Nat /\ pool'.n_threads_cur \in 1 .. MaxThreads /\ pool'.n_threads_cur <= pool.n_threads_cur
      /\ pool.n_threads_cur <= MaxThreads
  BY <1>1, <1>2, <1>3, ThreadsAre DEF JoinOK, PlaceOK, Types, PoolType
<1>5. pc'[0] = "begin" /\ \A u \in Threads \ {0} : pc'[u] = pc[u]
  BY <1>1, <1>2 DEF Types, ThreadType
<1>6. Team' \subseteq Team /\ 0 \in Team' /\ Team' \subseteq Threads
  BY <1>3, <1>4, ThreadsAre DEF Team, Threads
<1>7. ~InGraph(0)
  BY <1>1 DEF InGraph, At
<1>8. /\ \A u \in Team : Joined(u)
      /\ \A u \in Threads : InGraph(u) => Leaving(u)
      /\ \A u \in Threads : ~Waiting(u) /\ pc[u] \notin {"reset", "open"}
  BY <1>7, AllOut
<1>9. Joined(0)' /\ Eff(0)' = 0
  <2>1. Joined(0)'
    BY <1>6 DEF Joined
  <2>2. InGraph(0)' /\ ~Leaving(0)' /\ ~Released(0)' /\ Seg(0)' = 0
    BY <1>5 DEF InGraph, Leaving, Released, Seg, At, InBarrier
  <2>3. QED
    BY <2>1, <2>2 DEF Eff
<1>10. ASSUME NEW u \in Threads \ {0}
       PROVE  /\ ~Joined(u)' /\ Eff(u)' = 0 /\ (InGraph(u)' => Leaving(u)') /\ ~Waiting(u)' /\ pc'[u] \notin {"reset", "open"}
  <2>1. last_graph[u] \in 0 .. pool.n_graph
    BY AtPlace
  <2>2. ~Joined(u)'
    BY <1>1, <1>3, <2>1 DEF Joined
  <2>3. pc'[u] = pc[u] /\ local'[u] = local[u]
    BY <1>1, <1>5
  <2>4. InGraph(u)' => Leaving(u)'
    BY <1>3, <1>8, <2>3 DEF InGraph, Leaving, Released, At, Home
  <2>5. ~Waiting(u)' /\ pc'[u] \notin {"reset", "open"}
    BY <1>3, <1>8, <2>3 DEF Waiting, At
  <2>6. QED
    BY <2>2, <2>4, <2>5 DEF Eff
<1>11. Together'
  BY <1>6, <1>9, <1>10 DEF Together
<1>12. BarrierOK'
  <2>1. Waiters = {} /\ pool.n_barrier = Cardinality(Waiters)
    BY <1>8 DEF Waiters, Kept, BarrierOK
  <2>2. ~Waiting(0)' /\ pc'[0] \notin {"reset", "open"}
    BY <1>5 DEF Waiting, At
  <2>3. Waiters' = {}
    BY <1>10, <2>2 DEF Waiters
  <2>4. pool'.n_barrier = 0 /\ Cardinality(Waiters') = 0
    BY <1>3, <2>1, <2>3, FS_EmptySet
  <2>5. QED
    BY <1>4, <1>10, <2>2, <2>4 DEF BarrierOK
<1>13. JoinOK(0)'
  BY <1>1, <1>2, <1>3, <1>5, <1>9 DEF JoinOK, At
<1>14. ASSUME NEW u \in Threads \ {0} PROVE JoinOK(u)'
  <2>1. JoinOK(u) /\ pc'[u] = pc[u] /\ local'[u] = local[u]
    BY <1>1, <1>5 DEF Kept
  <2>2. ~At(u, "kickoff")
    BY AtPlace DEF PlaceOK, At, CallerPlaces
  <2>3. u \in Team' => ~At(u, "decide")
    <3>1. ASSUME u \in Team', At(u, "decide") PROVE FALSE
      <4>1. u \in Team /\ Joined(u)
        BY <1>6, <1>8, <3>1
      <4>2. last_graph[u] = pool.n_graph
        BY <4>1 DEF Joined
      <4>3. last_graph[u] # pool.n_graph
        BY <2>1, <3>1, <4>1 DEF JoinOK
      <4>4. QED
        BY <4>2, <4>3
    <3>2. QED
      BY <3>1
  <2>4. QED
    BY <1>3, <1>10, <2>1, <2>2, <2>3 DEF JoinOK, At
<1>15. \A u \in Threads : GraphOK(u)'
  <2>1. GraphOK(0)'
    BY <1>5 DEF GraphOK, At, InBarrier
  <2>2. \A u \in Threads \ {0} : GraphOK(u)'
    BY <1>10 DEF GraphOK
  <2>3. QED
    BY <2>1, <2>2
<1>16. DoneOK'
  <2>1. \A n \in 0 .. Nodes - 1, c \in Cells : done'[n][c] = 0
    BY <1>1, <1>2 DEF ZeroOK
  <2>2. \A n \in 0 .. Nodes - 1 : ~(2 * n + 1 < 0) /\ 0 # 2 * n + 1
    BY ThreadsAre
  <2>3. QED
    BY <1>9, <2>1, <2>2 DEF DoneOK
<1>17. ZeroOK'
  BY <1>5 DEF ZeroOK, At, InBarrier
<1>18. QED
  BY <1>11, <1>12, <1>13, <1>14, <1>15, <1>16, <1>17 DEF Kept

-----------------------------------------------------------------------------
(* The invariant.                                                             *)

LEMMA InitKept == Init => Kept
<1> SUFFICES ASSUME Init PROVE Kept
  OBVIOUS
<1>1. Types
  BY InitTypes
<1>2. /\ \A t \in Threads : ~InGraph(t) /\ pc[t] \in {"idle", "top"} /\ last_graph[t] = 0 /\ local[t].n_passed = 0
      /\ pool.n_graph = 0 /\ pool.n_barrier = 0 /\ pool.n_barrier_passed = 0 /\ done = NothingDone
  BY DEF Init, InGraph
<1>3. \A t \in Threads : ~Waiting(t) /\ ~Released(t) /\ ~InBarrier(t)
  BY <1>2 DEF Waiting, Released, InBarrier, At
<1>4. Team \subseteq Threads /\ 0 \in Team /\ pool.n_threads_cur >= 1 /\ \A t \in Team : Eff(t) = Past
  BY <1>1, <1>2, ActiveTeam DEF Eff, Joined
<1>5. \A t \in Threads : JoinOK(t) /\ GraphOK(t)
  BY <1>2 DEF JoinOK, GraphOK, At
<1>6. Together
  BY <1>4 DEF Together
<1>7. BarrierOK
  <2>1. Waiters = {}
    BY <1>3 DEF Waiters
  <2>2. Cardinality(Waiters) = 0
    BY <2>1, FS_EmptySet
  <2>3. pool.n_threads_cur \in Int
    BY <1>1, ThreadsAre DEF Types, PoolType
  <2>4. QED
    BY <1>2, <1>4, <2>2, <2>3 DEF BarrierOK
<1>8. DoneOK
  <2>1. \A n \in 0 .. Nodes - 1, c \in Cells : done[n][c] = 0
    BY <1>2, ThreadsAre DEF NothingDone, Cells
  <2>2. \A n \in 0 .. Nodes - 1 : ~(2 * n + 1 < Past) /\ Past # 2 * n + 1
    BY ThreadsAre DEF Past
  <2>3. QED
    BY <1>4, <2>1, <2>2 DEF DoneOK
<1>9. ZeroOK
  BY <1>2, ThreadsAre DEF ZeroOK, At, InBarrier
<1>10. QED
  BY <1>5, <1>6, <1>7, <1>8, <1>9 DEF Kept

LEMMA KeptStep == Types /\ Kept /\ [Next]_vars /\ ~grown' => Kept'
<1> SUFFICES ASSUME Types, Kept, [Next]_vars, ~grown' PROVE Kept'
  OBVIOUS
<1>1. ASSUME NEW t \in Workers,
             Top(t) \/ Wake(t) \/ PollEnds(t) \/ PollSees(t) \/ PollDecides(t) \/ Lock(t)
      PROVE  Kept'
  BY <1>1, TopKept, WakeKept, PollEndsKept, PollSeesKept, PollDecidesKept, LockKept
<1>2. ASSUME NEW t \in Threads,
             Begin(t) \/ LoopTest(t) \/ SetChunk(t) \/ MeetInMulMat(t) \/ AfterNode(t) \/ MeetAfterNode(t)
      PROVE  Kept'
  BY <1>2, BeginKept, LoopTestKept, SetChunkKept, MeetInMulMatKept, AfterNodeKept, MeetAfterNodeKept
<1>3. ASSUME NEW t \in Threads,
             ComputeChunk(t) \/ TakeChunk(t) \/ Arrive(t) \/ ResetBarrier(t) \/ OpenBarrier(t) \/ Spin(t)
      PROVE  Kept'
  BY <1>3, ComputeChunkKept, TakeChunkKept, ArriveKept, ResetBarrierKept, OpenBarrierKept, SpinKept
<1>4. CASE \E n \in 1 .. MaxThreads : GraphCompute(n)
  BY <1>4, GraphComputeKept
<1>5. CASE PauseOrResume \/ Free \/ Join
  BY <1>5, PauseFreeJoinKept
<1>6. CASE Kickoff
  BY <1>6, KickoffKept
<1>7. CASE UNCHANGED vars
  <2>1. pool' = pool /\ sleeping' = sleeping /\ pc' = pc /\ last_graph' = last_graph /\ local' = local /\ done' = done
    BY <1>7 DEF vars
  <2>2. 0 \in Threads /\ (\A u \in Threads : Alike(u)) /\ PoolAlike /\ SameChunks
    BY <2>1, SamePool, ThreadsAre DEF Alike, SameChunks
  <2>3. Team' = Team /\ Team \subseteq Threads /\ Eff(0)' = Eff(0) /\ Waiters' = Waiters
    BY <2>2, FrameThread, ActiveTeam DEF PoolAlike, Waiters
  <2>4. BarrierOK'
    BY <2>1, <2>3, FrameThread, <2>2 DEF Kept, BarrierOK, At, PoolAlike
  <2>5. DoneOK'
    BY <2>2, <2>3, FrameDone, FrameThread DEF Kept, PoolAlike, Alike
  <2>6. ZeroOK'
    BY <2>2, FrameZero DEF Kept, PoolAlike
  <2>7. QED
    BY <2>2, <2>4, <2>5, <2>6, FrameThread, PhaseStep DEF Kept, PoolAlike
<1>8. QED
  BY <1>1, <1>2, <1>3, <1>4, <1>5, <1>6, <1>7 DEF Next, Step, Workers

LEMMA GrownStays == [Next]_vars => (grown => grown')
BY DEF Next, Step, vars, history, GraphCompute, PauseOrResume, Free, Kickoff, Join, Top, Wake, PollEnds, PollSees,
       PollDecides, Lock, Begin, LoopTest, SetChunk, MeetInMulMat, ComputeChunk, TakeChunk, AfterNode,
       MeetAfterNode, Arrive, ResetBarrier, OpenBarrier, Spin

(* The invariant holds: as long as no graph uses more threads than the one    *)
(* before it, the barrier keeps the threads of a graph in step.               *)
THEOREM PoolInvariant == Spec => []IInv
<1>1. Init => IInv
  BY InitTypes, InitKept DEF IInv
<1>2. IInv /\ [Next]_vars => IInv'
  BY TypesStep, KeptStep, GrownStays DEF IInv, Types, HistoryType
<1>3. QED
  BY <1>1, <1>2, PTL DEF Spec

(* Places and counters; the barrier counts at most the threads it awaits.     *)
THEOREM PoolTypeOK == Spec => []TypeOK
<1>1. IInv => TypeOK
  <2> SUFFICES ASSUME IInv PROVE TypeOK
    OBVIOUS
  <2>1. Types
    BY DEF IInv
  <2>2. ASSUME Kept PROVE pool.n_barrier <= pool.n_threads_cur
    <3>1. pool.n_threads_cur \in Nat
      BY <2>1, ThreadsAre DEF Types, PoolType
    <3>2. CASE \E t \in Threads : pc[t] \in {"reset", "open"}
      BY <2>2, <3>1, <3>2 DEF Kept, BarrierOK
    <3>3. CASE \A t \in Threads : pc[t] \notin {"reset", "open"}
      <4>1. pool.n_barrier < pool.n_threads_cur /\ pool.n_barrier \in Nat
        BY <2>1, <2>2, <3>3 DEF Kept, BarrierOK, Types, PoolType
      <4>2. QED
        BY <3>1, <4>1
    <3>4. QED
      BY <3>2, <3>3
  <2>3. QED
    BY <2>1, <2>2 DEF IInv, Types, PoolType, ThreadType, TypeOK
<1>2. QED
  BY <1>1, PoolInvariant, PTL

(* No chunk of a node is computed twice.                                      *)
THEOREM PoolChunkOnce == Spec => []ChunkOnce
<1>1. IInv => ChunkOnce
  <2> SUFFICES ASSUME Types, Kept PROVE ChunkOnce
    BY DEF IInv, ChunkOnce
  <2>1. DOMAIN done = 0 .. Nodes - 1 /\ \A n \in 0 .. Nodes - 1 : DOMAIN done[n] = Cells
    BY DEF Types, HistoryType
  <2>2. QED
    BY <2>1 DEF Kept, DoneOK, ChunkOnce
<1>2. QED
  BY <1>1, PoolInvariant, PTL

(* Past the barrier after a node every chunk of it is computed.               *)
THEOREM PoolWholeBeforeNext == Spec => []WholeBeforeNext
<1>1. IInv => WholeBeforeNext
  <2> SUFFICES ASSUME Types, Kept,
                      NEW t \in Threads, InGraph(t), pc[t] \notin {"begin", "meet", "arrive", "reset", "open", "spin"},
                      NEW n \in 0 .. Node(t) - 1, n + 1 < Nodes,
                      NEW c \in 0 .. ChunkCount(local[t].nth) - 1
               PROVE  done[n][c] = 1
    BY DEF IInv, WholeBeforeNext
  <2>1. pc[t] \in Inner /\ ~At(t, "begin")
    BY DEF Inner, InGraph, At
  <2>2. GraphOK(t) /\ Joined(t) /\ ~Leaving(t) /\ Eff(0) = Seg(t) /\ local[t] \in LocalSet
    BY <2>1, InnerThread
  <2>3. local[t].nth = pool.n_threads_cur /\ Node(t) \in Nat /\ Nodes \in Nat
    BY <2>1, <2>2, ThreadsAre DEF GraphOK, Node, LocalSet
  <2>4. n \in 0 .. Nodes - 1 /\ n <= Node(t) - 1 /\ n < Nodes - 1
    BY <2>3
  <2>5. Seg(t) \in {EndSeg(Node(t)), 2 * Node(t), 2 * Node(t) + 1}
    BY DEF Seg, InGraph, At, InBarrier
  <2>6. 2 * n + 1 < Eff(0)
    BY <2>2, <2>3, <2>4, <2>5 DEF EndSeg
  <2>7. c < Count /\ c \in Cells
    <3>1. PoolType
      BY DEF Types
    <3>2. Count \in Nat /\ c \in 0 .. Count - 1
      BY <2>3, <3>1, CountFits DEF Count
    <3>3. QED
      BY <3>1, <3>2, CountFits
  <2>8. QED
    BY <2>4, <2>6, <2>7 DEF Kept, DoneOK
<1>2. QED
  BY <1>1, PoolInvariant, PTL

(* When the caller resets the parameters of the next graph, no worker is in    *)
(* the last one, unless on its way out of the last barrier.                   *)
THEOREM PoolNoWorkerInGraph == Spec => []NoWorkerInGraph
<1>1. IInv => NoWorkerInGraph
  <2> SUFFICES ASSUME Types, Kept, At(0, "idle"), NEW t \in Workers, InGraph(t) PROVE LeavingLast(t)
    BY DEF IInv, NoWorkerInGraph
  <2>1. t \in Threads /\ t # 0
    BY ThreadsAre DEF Workers
  <2>2. Leaving(t)
    BY <2>1, AllOut DEF InGraph, At
  <2>3. QED
    BY <2>1, <2>2 DEF Leaving, Released, LeavingLast, Home
<1>2. QED
  BY <1>1, PoolInvariant, PTL

=============================================================================
