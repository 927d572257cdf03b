--------------------------- MODULE ServerQueueProofs ---------------------------
(***************************************************************************)
(* llama-server's queue, for every number of requests, tasks and slots: no  *)
(* task is lost or duplicated while its handler waits, no result stays for  *)
(* nobody, and the slot a task was taken off the deferred queue for is not  *)
(* taken by a younger one.                                                  *)
(***************************************************************************)
EXTENDS ServerQueue, FiniteSetTheorems, SequenceTheorems, TLAPS

-----------------------------------------------------------------------------
(* Sets of numbers in their order.                                            *)

Rank(S, n) == Cardinality({m \in S : m <= n})

LEMMA RankType ==
  ASSUME NEW S \in SUBSET Nat, IsFiniteSet(S), NEW n \in S
  PROVE  Rank(S, n) \in 1 .. Cardinality(S)
<1> DEFINE upTo == {m \in S : m <= n}
<1>1. upTo \in SUBSET S /\ n \in upTo
  OBVIOUS
<1>2. IsFiniteSet(upTo) /\ Cardinality(upTo) <= Cardinality(S)
  BY <1>1, FS_Subset
<1>3. Cardinality(upTo) \in Nat /\ Cardinality(upTo) # 0 /\ Cardinality(S) \in Nat
  BY <1>1, <1>2, FS_CardinalityType, FS_EmptySet
<1>4. QED
  BY <1>2, <1>3 DEF Rank

LEMMA RankGrows ==
  ASSUME NEW S \in SUBSET Nat, IsFiniteSet(S), NEW m \in S, NEW n \in S, m < n
  PROVE  Rank(S, m) < Rank(S, n)
<1> DEFINE upToM == {i \in S : i <= m}
           upToN == {i \in S : i <= n}
<1>1. \A i \in S : i \in Nat
  OBVIOUS
<1>2. \A i \in S : i <= m => i <= n
  BY <1>1
<1>3. n <= n /\ ~(n <= m)
  BY <1>1
<1>4. upToN \in SUBSET S /\ upToM \in SUBSET upToN /\ n \in upToN /\ n \notin upToM
  BY <1>2, <1>3
<1> HIDE DEF upToM, upToN
<1>5. IsFiniteSet(upToN)
  BY <1>4, FS_Subset
<1>6. /\ IsFiniteSet(upToM) /\ Cardinality(upToM) <= Cardinality(upToN)
      /\ Cardinality(upToM) # Cardinality(upToN)
  BY <1>4, <1>5, FS_Subset
<1>7. Cardinality(upToM) \in Nat /\ Cardinality(upToN) \in Nat
  BY <1>5, <1>6, FS_CardinalityType
<1>8. Cardinality(upToM) < Cardinality(upToN)
  BY <1>6, <1>7
<1>9. QED
  BY <1>8 DEF Rank, upToM, upToN

LEMMA RankReaches ==
  ASSUME NEW S \in SUBSET Nat, IsFiniteSet(S), NEW k \in 1 .. Cardinality(S)
  PROVE  \E n \in S : Rank(S, n) = k
<1> DEFINE f == [n \in S |-> Rank(S, n)]
<1>1. Cardinality(S) \in Nat
  BY FS_CardinalityType
<1>2. f \in [S -> 1 .. Cardinality(S)]
  BY RankType
<1>3. ASSUME NEW m \in S, NEW n \in S, m # n
      PROVE  f[m] # f[n]
  <2>1. m \in Nat /\ n \in Nat /\ Rank(S, m) \in Int /\ Rank(S, n) \in Int
    BY RankType
  <2>2. CASE m < n
    BY <2>1, <2>2, RankGrows
  <2>3. CASE n < m
    BY <2>1, <2>3, RankGrows
  <2>4. QED
    BY <1>3, <2>1, <2>2, <2>3
<1>4. f \in Injection(S, 1 .. Cardinality(S))
  BY <1>2, <1>3 DEF Injection, IsInjective
<1>5. IsFiniteSet(1 .. Cardinality(S)) /\ Cardinality(1 .. Cardinality(S)) = Cardinality(S)
  BY <1>1, FS_Interval
<1>6. f \in Surjection(S, 1 .. Cardinality(S))
  BY <1>4, <1>5, FS_Injection
<1>7. QED
  BY <1>6 DEF Surjection

(* What Nth says.                                                             *)
LEMMA NthElement ==
  ASSUME NEW S \in SUBSET Nat, IsFiniteSet(S), NEW k \in 1 .. Cardinality(S)
  PROVE  Nth(S, k) \in S /\ Rank(S, Nth(S, k)) = k
<1>1. \E n \in S : Cardinality({m \in S : m <= n}) = k
  BY RankReaches DEF Rank
<1>2. QED
  BY <1>1 DEF Nth, Rank

LEMMA NthReaches ==
  ASSUME NEW S \in SUBSET Nat, IsFiniteSet(S), NEW n \in S
  PROVE  \E k \in 1 .. Cardinality(S) : Nth(S, k) = n
<1>1. Rank(S, n) \in 1 .. Cardinality(S)
  BY RankType
<1> DEFINE m == Nth(S, Rank(S, n))
<1>2. m \in S /\ Rank(S, m) = Rank(S, n)
  BY <1>1, NthElement
<1> HIDE DEF m
<1>3. ~(m < n) /\ ~(n < m)
  <2>1. m < n => Rank(S, m) < Rank(S, n)
    BY <1>2, RankGrows
  <2>2. n < m => Rank(S, n) < Rank(S, m)
    BY <1>2, RankGrows
  <2>3. QED
    BY <1>1, <1>2, <2>1, <2>2
<1>4. m = n
  BY <1>2, <1>3
<1>5. QED
  BY <1>1, <1>4 DEF m

LEMMA NthGrows ==
  ASSUME NEW S \in SUBSET Nat, IsFiniteSet(S),
         NEW k \in 1 .. Cardinality(S), NEW l \in 1 .. Cardinality(S), k < l
  PROVE  Nth(S, k) < Nth(S, l)
<1>1. /\ Nth(S, k) \in S /\ Rank(S, Nth(S, k)) = k
      /\ Nth(S, l) \in S /\ Rank(S, Nth(S, l)) = l
  BY NthElement
<1> DEFINE m == Nth(S, k)
           n == Nth(S, l)
<1> HIDE DEF m, n
<1>2. m \in S /\ n \in S /\ Rank(S, m) = k /\ Rank(S, n) = l
  BY <1>1 DEF m, n
<1>3. ~(n < m)
  <2> SUFFICES ASSUME n < m
               PROVE  FALSE
    OBVIOUS
  <2>1. Rank(S, n) < Rank(S, m)
    BY <1>2, RankGrows
  <2>2. QED
    BY <1>2, <2>1
<1>4. m # n
  BY <1>2
<1>5. m < n
  BY <1>2, <1>3, <1>4
<1>6. QED
  BY <1>5 DEF m, n

-----------------------------------------------------------------------------
(* What is in a sequence, and whether more than once.                         *)

Has(s, X) == \E i \in DOMAIN s : s[i] \in X
Once(s, X) == \A i, j \in DOMAIN s : s[i] \in X /\ s[j] \in X => i = j

LEMMA KeepFacts ==
  ASSUME NEW T, NEW s \in Seq(T), NEW I \in SUBSET DOMAIN s
  PROVE  /\ Keep(s, I) \in Seq(T)
         /\ \A k \in DOMAIN Keep(s, I) : Nth(I, k) \in I /\ Keep(s, I)[k] = s[Nth(I, k)]
         /\ \A k, l \in DOMAIN Keep(s, I) : k < l => Nth(I, k) < Nth(I, l)
         /\ \A i \in I : \E k \in DOMAIN Keep(s, I) : Nth(I, k) = i
<1>1. Len(s) \in Nat /\ DOMAIN s = 1 .. Len(s)
  BY LenProperties
<1>2. I \in SUBSET Nat /\ IsFiniteSet(I)
  <2>1. IsFiniteSet(1 .. Len(s))
    BY <1>1, FS_Interval
  <2>2. QED
    BY <1>1, <2>1, FS_Subset
<1>3. Cardinality(I) \in Nat
  BY <1>2, FS_CardinalityType
<1>4. DOMAIN Keep(s, I) = 1 .. Cardinality(I)
  BY DEF Keep
<1>5. \A k \in 1 .. Cardinality(I) : Nth(I, k) \in I
  BY <1>2, NthElement
<1>6. \A k \in 1 .. Cardinality(I) : Keep(s, I)[k] = s[Nth(I, k)]
  BY DEF Keep
<1>7. \A k \in 1 .. Cardinality(I) : Keep(s, I)[k] \in T
  BY <1>1, <1>5, <1>6, ElementOfSeq
<1>8. Keep(s, I) \in [1 .. Cardinality(I) -> T]
  BY <1>7 DEF Keep
<1>9. Keep(s, I) \in Seq(T)
  BY <1>3, <1>8, SeqDef
<1>10. \A k, l \in 1 .. Cardinality(I) : k < l => Nth(I, k) < Nth(I, l)
  BY <1>2, NthGrows
<1>11. \A i \in I : \E k \in 1 .. Cardinality(I) : Nth(I, k) = i
  BY <1>2, NthReaches
<1>12. QED
  BY <1>4, <1>5, <1>6, <1>9, <1>10, <1>11

LEMMA KeepHas ==
  ASSUME NEW T, NEW s \in Seq(T), NEW I \in SUBSET DOMAIN s, NEW X
  PROVE  /\ Has(Keep(s, I), X) <=> \E i \in I : s[i] \in X
         /\ Once(s, X) => Once(Keep(s, I), X)
<1> DEFINE kept == Keep(s, I)
           at(k) == Nth(I, k)
<1>1. /\ \A k \in DOMAIN kept : at(k) \in I /\ kept[k] = s[at(k)]
      /\ \A k, l \in DOMAIN kept : k < l => at(k) < at(l)
      /\ \A i \in I : \E k \in DOMAIN kept : at(k) = i
  BY KeepFacts
<1>2. kept \in Seq(T)
  BY KeepFacts
<1>3. DOMAIN kept \subseteq Nat /\ DOMAIN s \subseteq Nat
  BY <1>2, LenProperties
<1> HIDE DEF kept, at
<1>4. Has(kept, X) <=> \E i \in I : s[i] \in X
  BY <1>1 DEF Has
<1>5. ASSUME Once(s, X), NEW k \in DOMAIN kept, NEW l \in DOMAIN kept, kept[k] \in X, kept[l] \in X
      PROVE  k = l
  <2>1. at(k) = at(l)
    BY <1>1, <1>5 DEF Once
  <2>2. at(k) \in Nat
    BY <1>1, <1>3
  <2>3. ~(k < l) /\ ~(l < k)
    BY <1>1, <2>1, <2>2
  <2>4. QED
    BY <1>3, <2>3
<1>6. QED
  BY <1>4, <1>5 DEF Once, kept

LEMMA AppendHas ==
  ASSUME NEW T, NEW s \in Seq(T), NEW e \in T, NEW X
  PROVE  /\ Has(Append(s, e), X) <=> Has(s, X) \/ e \in X
         /\ Once(s, X) /\ ~(e \in X /\ Has(s, X)) => Once(Append(s, e), X)
<1> DEFINE a == Append(s, e)
<1>1. /\ a \in Seq(T) /\ Len(a) = Len(s) + 1
      /\ \A i \in 1 .. Len(s) : a[i] = s[i]
      /\ a[Len(s) + 1] = e
  BY AppendProperties
<1>2. DOMAIN a = 1 .. Len(a) /\ DOMAIN s = 1 .. Len(s) /\ Len(s) \in Nat
  BY <1>1, LenProperties
<1> HIDE DEF a
<1>3. DOMAIN a = DOMAIN s \cup {Len(s) + 1}
  BY <1>1, <1>2
<1>4. Has(a, X) <=> Has(s, X) \/ e \in X
  BY <1>1, <1>2, <1>3 DEF Has
<1>5. Once(s, X) /\ ~(e \in X /\ Has(s, X)) => Once(a, X)
  BY <1>1, <1>2, <1>3 DEF Has, Once
<1>6. QED
  BY <1>4, <1>5 DEF a

LEMMA ConcatHas ==
  ASSUME NEW T, NEW a \in Seq(T), NEW b \in Seq(T), NEW X
  PROVE  /\ Has(a \o b, X) <=> Has(a, X) \/ Has(b, X)
         /\ Once(a, X) /\ Once(b, X) /\ ~(Has(a, X) /\ Has(b, X)) => Once(a \o b, X)
<1> DEFINE c == a \o b
<1>1. /\ c \in Seq(T) /\ Len(c) = Len(a) + Len(b)
      /\ \A i \in 1 .. Len(a) + Len(b) : c[i] = IF i <= Len(a) THEN a[i] ELSE b[i - Len(a)]
  BY ConcatProperties
<1>2. /\ DOMAIN c = 1 .. Len(a) + Len(b) /\ DOMAIN a = 1 .. Len(a) /\ DOMAIN b = 1 .. Len(b)
      /\ Len(a) \in Nat /\ Len(b) \in Nat
  BY <1>1, LenProperties
<1> HIDE DEF c
<1>3. \A i \in DOMAIN a : i \in DOMAIN c /\ c[i] = a[i]
  BY <1>1, <1>2
<1>4. \A i \in DOMAIN b : Len(a) + i \in DOMAIN c /\ c[Len(a) + i] = b[i]
  BY <1>1, <1>2
<1>5. \A i \in DOMAIN c : \/ i \in DOMAIN a
                          \/ i - Len(a) \in DOMAIN b /\ c[i] = b[i - Len(a)]
  BY <1>1, <1>2
<1>6. Has(c, X) <=> Has(a, X) \/ Has(b, X)
  BY <1>3, <1>4, <1>5 DEF Has
<1>7. ASSUME Once(a, X), Once(b, X), ~(Has(a, X) /\ Has(b, X)),
             NEW i \in DOMAIN c, NEW j \in DOMAIN c, c[i] \in X, c[j] \in X
      PROVE  i = j
  <2>1. CASE i \in DOMAIN a
    <3>1. j \in DOMAIN a
      BY <1>3, <1>5, <1>7, <2>1 DEF Has
    <3>2. QED
      BY <1>3, <1>7, <2>1, <3>1 DEF Once
  <2>2. CASE i \notin DOMAIN a
    <3>1. i - Len(a) \in DOMAIN b /\ c[i] = b[i - Len(a)]
      BY <1>5, <2>2
    <3>2. j - Len(a) \in DOMAIN b /\ c[j] = b[j - Len(a)]
      BY <1>3, <1>5, <1>7, <3>1 DEF Has
    <3>3. i - Len(a) = j - Len(a)
      BY <1>7, <3>1, <3>2 DEF Once
    <3>4. QED
      BY <1>2, <3>3
  <2>3. QED
    BY <2>1, <2>2
<1>8. QED
  BY <1>6, <1>7 DEF Once, c

LEMMA TailHas ==
  ASSUME NEW T, NEW s \in Seq(T), s # <<>>, NEW X
  PROVE  /\ Has(s, X) <=> Head(s) \in X \/ Has(Tail(s), X)
         /\ Once(s, X) => Once(Tail(s), X) /\ ~(Head(s) \in X /\ Has(Tail(s), X))
<1> DEFINE u == Tail(s)
<1>1. /\ u \in Seq(T) /\ Len(u) = Len(s) - 1
      /\ \A i \in 1 .. Len(u) : u[i] = s[i + 1]
      /\ Head(s) = s[1]
  BY HeadTailProperties
<1>2. DOMAIN u = 1 .. Len(u) /\ DOMAIN s = 1 .. Len(s) /\ Len(s) \in Nat \ {0}
  BY <1>1, LenProperties, EmptySeq
<1> HIDE DEF u
<1>3. \A i \in DOMAIN u : i + 1 \in DOMAIN s /\ u[i] = s[i + 1] /\ i + 1 # 1
  BY <1>1, <1>2
<1>4. \A i \in DOMAIN s : i = 1 \/ (i - 1 \in DOMAIN u /\ u[i - 1] = s[i])
  BY <1>1, <1>2
<1>5. 1 \in DOMAIN s
  BY <1>2
<1>6. Has(s, X) <=> s[1] \in X \/ Has(u, X)
  BY <1>3, <1>4, <1>5 DEF Has
<1>7. Once(s, X) => Once(u, X) /\ ~(s[1] \in X /\ Has(u, X))
  <2> SUFFICES ASSUME Once(s, X)
               PROVE  Once(u, X) /\ ~(s[1] \in X /\ Has(u, X))
    OBVIOUS
  <2>1. ASSUME NEW i \in DOMAIN u, NEW j \in DOMAIN u, u[i] \in X, u[j] \in X
        PROVE  i = j
    <3>1. i + 1 = j + 1
      BY <1>3, <2>1 DEF Once
    <3>2. QED
      BY <1>2, <3>1, <1>1
  <2>2. ~(s[1] \in X /\ Has(u, X))
    BY <1>3, <1>5 DEF Once, Has
  <2>3. QED
    BY <2>1, <2>2 DEF Once
<1>8. QED
  BY <1>1, <1>6, <1>7 DEF u

LEMMA ConsHas ==
  ASSUME NEW T, NEW s \in Seq(T), NEW e \in T, NEW X
  PROVE  /\ Has(<<e>> \o s, X) <=> e \in X \/ Has(s, X)
         /\ Once(s, X) /\ ~(e \in X /\ Has(s, X)) => Once(<<e>> \o s, X)
<1>1. <<e>> \in Seq(T) /\ DOMAIN <<e>> = {1} /\ <<e>>[1] = e
  OBVIOUS
<1>2. (Has(<<e>>, X) <=> e \in X) /\ Once(<<e>>, X)
  BY <1>1 DEF Has, Once
<1>3. QED
  BY <1>1, <1>2, ConcatHas

-----------------------------------------------------------------------------
(* The inductive invariant, in parts.                                         *)

Messages == [type : {"run", "cancel"}, task : Tasks] \cup {NextResponse}
ResultSet == [task : Tasks, error : BOOLEAN]
SlotSet == [task : Tasks, left : 1 .. MaxTokens] \cup {Idle}
LoopSet ==
  [at : {"pop", "process", "update", "decoded", "failed", "wait", "crashed"},
   msg : Messages, slot : 0 .. NumSlots]

Types ==
  /\ media \subseteq MaybeMedia
  /\ pc \in [Requests -> {"new", "enlisted", "wait", "cancel", "answered",
                          "cancelled", "done", "gone", "lost"}]
  /\ got \in [Requests -> Nat]
  /\ waiting \subseteq Tasks
  /\ results \in Seq(ResultSet) /\ queue \in Seq(Messages) /\ deferred \in Seq(Tasks)
  /\ slot \in [Slots -> SlotSet]
  /\ loop \in LoopSet
  /\ loop.at \in {"decoded", "failed"} => loop.slot \in Slots
  /\ returned \subseteq Tasks /\ IsFiniteSet(returned)

(* The five places a task, or its result, can be in.                          *)
ResultsFor(t) == {res \in ResultSet : res.task = t}
InQueue(t) == Has(queue, {Run(t)})
InDeferred(t) == Has(deferred, {t})
InSlot(t) == \E s \in Slots : slot[s].task = t
InResults(t) == Has(results, ResultsFor(t))
InLoop(t) == loop.at = "process" /\ loop.msg = Run(t)
Present(t) == InQueue(t) \/ InDeferred(t) \/ InSlot(t) \/ InResults(t) \/ InLoop(t)
CancelQueued(t) == Has(queue, {Cancel(t)})
Cancelling(t) == CancelQueued(t) \/ (loop.at = "process" /\ loop.msg = Cancel(t))

(* It is in at most one of them, and there at most once.                      *)
OneSlot(t) == \A s, q \in Slots : slot[s].task = t /\ slot[q].task = t => s = q
Unique(t) ==
  Once(queue, {Run(t)}) /\ Once(deferred, {t}) /\ Once(results, ResultsFor(t)) /\ OneSlot(t)
Apart(t) ==
  /\ InQueue(t) => ~InDeferred(t) /\ ~InSlot(t) /\ ~InResults(t) /\ ~InLoop(t)
  /\ InDeferred(t) => ~InSlot(t) /\ ~InResults(t) /\ ~InLoop(t)
  /\ InSlot(t) => ~InResults(t) /\ ~InLoop(t)
  /\ InResults(t) => ~InLoop(t)
Places == \A t \in Tasks : Unique(t) /\ Apart(t)

(* What the tasks of a request can be at each place of its handler: they come *)
(* into being when they are posted, are waited for from before that until     *)
(* after the last result, and are cancelled only when nobody waits any more.  *)
Live(r) == {t \in TasksOf[r] : Present(t)}
RequestOK(r) ==
  /\ pc[r] \in {"new", "enlisted"} =>
       got[r] = 0 /\ \A t \in TasksOf[r] : ~Present(t) /\ t \notin returned
  /\ pc[r] \notin {"cancelled", "gone", "lost"} => \A t \in TasksOf[r] : ~Cancelling(t)
  /\ pc[r] \in {"enlisted", "wait", "answered"} => TasksOf[r] \subseteq waiting
  /\ pc[r] = "cancelled" => TasksOf[r] \cap waiting = {}
  /\ got[r] <= NumTasks(r)
  /\ pc[r] \in {"wait", "answered"} => Cardinality(Live(r)) = NumTasks(r) - got[r]
  /\ pc[r] = "answered" => got[r] = NumTasks(r)
Requested == \A r \in Requests : RequestOK(r)

(* The tasks a release has moved back are ahead of all others, and there is   *)
(* an idle slot for each.                                                     *)
Returned == {Run(t) : t \in returned}
QueueOrder ==
  \A i, j \in DOMAIN queue :
    j < i /\ queue[i] \in Returned /\ queue[j].type = "run" => queue[j] \in Returned
LoopOrder ==
  loop.at = "process" /\ loop.msg.type = "run" /\ loop.msg \notin Returned => ~Has(queue, Returned)
Coming == {t \in returned : InQueue(t) \/ InLoop(t)}
IdleSlots == {s \in Slots : slot[s] = Idle}
RoomOK == Cardinality(Coming) <= Cardinality(IdleSlots)

QInv ==
  Types /\ Places /\ Requested /\ NoStrayResult /\ QueueOrder /\ LoopOrder /\ RoomOK /\ DeferredOnce

-----------------------------------------------------------------------------
(* Tasks, messages, slots.                                                    *)

LEMMA TaskFacts ==
  /\ Tasks \subseteq Nat \ {0}
  /\ \A r \in Requests : TasksOf[r] \subseteq Tasks /\ IsFiniteSet(TasksOf[r])
  /\ \A t \in Tasks : \E r \in Requests : t \in TasksOf[r]
  /\ \A r, q \in Requests : r # q => TasksOf[r] \cap TasksOf[q] = {}
BY QueueAssumption DEF Tasks

LEMMA MessageFacts ==
  /\ \A t, u : /\ Run(t) = Run(u) => t = u
               /\ Cancel(t) = Cancel(u) => t = u
               /\ Run(t) # Cancel(u) /\ Run(t) # NextResponse /\ Cancel(t) # NextResponse
  /\ \A t : Run(t).type = "run" /\ Cancel(t).type = "cancel" /\ Run(t).task = t /\ Cancel(t).task = t
  /\ NextResponse.type = "next"
BY DEF Run, Cancel, Msg, NextResponse

LEMMA MessageTypes ==
  /\ \A t \in Tasks : Run(t) \in Messages /\ Cancel(t) \in Messages
  /\ NextResponse \in Messages
  /\ \A m \in Messages : /\ m.type = "run" => m.task \in Tasks /\ m = Run(m.task)
                         /\ m.type = "cancel" => m.task \in Tasks /\ m = Cancel(m.task)
                         /\ m.type = "next" => m = NextResponse
                         /\ m.type \in {"run", "cancel", "next"}
BY DEF Run, Cancel, Msg, NextResponse, Messages

LEMMA SlotFacts ==
  /\ \A x \in SlotSet : x # Idle => x.task \in Tasks /\ x.left \in 1 .. MaxTokens
  /\ Idle \in SlotSet /\ Idle.task \notin Tasks
  /\ \A t \in Tasks, n \in 1 .. MaxTokens : [task |-> t, left |-> n] \in SlotSet
<1>1. Idle.task \notin Tasks
  BY TaskFacts DEF Idle, NoTask
<1>2. QED
  BY <1>1 DEF SlotSet

LEMMA LoopFacts ==
  ASSUME NEW place \in {"pop", "update", "decoded", "failed", "wait", "crashed"}
  PROVE  /\ At(place) \in LoopSet /\ At(place).at = place
         /\ \A s \in Slots : /\ [At(place) EXCEPT !.slot = s] \in LoopSet
                             /\ [At(place) EXCEPT !.slot = s].at = place
                             /\ [At(place) EXCEPT !.slot = s].slot = s
BY MessageTypes, QueueAssumption DEF At, LoopSet, Slots

(* Where a request's own tasks are not, nothing changes when only they do.    *)
LEMMA OtherTasks ==
  ASSUME NEW r \in Requests, NEW q \in Requests, q # r
  PROVE  \A t \in TasksOf[q] : t \in Tasks /\ t \notin TasksOf[r]
BY TaskFacts

-----------------------------------------------------------------------------
(* What a step has to show of requests, and of idle slots.                    *)

LEMMA SameRequest ==
  ASSUME NEW r \in Requests, RequestOK(r), pc'[r] = pc[r], got'[r] = got[r],
         \A t \in TasksOf[r] : /\ Present(t)' <=> Present(t)
                               /\ Cancelling(t)' => Cancelling(t)
                               /\ t \in waiting' <=> t \in waiting
                               /\ t \in returned' => t \in returned
  PROVE  RequestOK(r)'
<1>1. Live(r)' = Live(r)
  BY DEF Live
<1>2. NumTasks(r)' = NumTasks(r)
  BY DEF NumTasks
<1>3. QED
  BY <1>1, <1>2 DEF RequestOK

(* The loop creates no task, and loses one only if nobody waits for it or it   *)
(* is being cancelled.                                                        *)
LEMMA LoopRequests ==
  ASSUME Requested, UNCHANGED <<client, waiting>>,
         \A t \in Tasks : /\ Present(t)' => Present(t)
                          /\ Present(t) /\ t \in waiting /\ ~Cancelling(t) => Present(t)'
                          /\ Cancelling(t)' => Cancelling(t)
                          /\ t \in returned' => t \in returned \/ Present(t)
  PROVE  Requested'
<1> SUFFICES ASSUME NEW r \in Requests
             PROVE  RequestOK(r)'
  BY DEF Requested
<1>1. RequestOK(r) /\ UNCHANGED <<pc, got, waiting>> /\ NumTasks(r)' = NumTasks(r)
  BY DEF Requested, client, NumTasks
<1>2. \A t \in TasksOf[r] : t \in Tasks
  BY TaskFacts
<1>3. pc[r] \in {"wait", "answered"} => Live(r)' = Live(r)
  BY <1>1, <1>2 DEF RequestOK, Live
<1>4. pc[r] \in {"new", "enlisted"} => \A t \in TasksOf[r] : ~Present(t)' /\ t \notin returned'
  BY <1>1, <1>2 DEF RequestOK
<1>5. pc[r] \notin {"cancelled", "gone", "lost"} => \A t \in TasksOf[r] : ~Cancelling(t)'
  BY <1>1, <1>2 DEF RequestOK
<1>6. QED
  BY <1>1, <1>3, <1>4, <1>5 DEF RequestOK

LEMMA IdleFinite ==
  /\ IsFiniteSet(Slots) /\ IsFiniteSet(IdleSlots) /\ Cardinality(IdleSlots) \in Nat
<1>1. IsFiniteSet(Slots)
  BY QueueAssumption, FS_Interval DEF Slots
<1>2. IsFiniteSet(IdleSlots)
  BY <1>1, FS_Subset DEF IdleSlots
<1>3. QED
  BY <1>1, <1>2, FS_CardinalityType

LEMMA ComingFinite ==
  ASSUME Types
  PROVE  IsFiniteSet(Coming) /\ Cardinality(Coming) \in Nat
<1>1. IsFiniteSet(Coming)
  BY FS_Subset DEF Types, Coming
<1>2. QED
  BY <1>1, FS_CardinalityType

LEMMA RoomKept ==
  ASSUME Types, Types', RoomOK, Coming' \subseteq Coming, IdleSlots \subseteq IdleSlots'
  PROVE  RoomOK'
<1>1. IsFiniteSet(Coming) /\ Cardinality(Coming) \in Nat /\ IsFiniteSet(IdleSlots)
  BY ComingFinite, IdleFinite
<1>2. IsFiniteSet(IdleSlots') /\ Cardinality(IdleSlots') \in Nat
  <2>1. IdleSlots' \subseteq Slots
    BY DEF IdleSlots
  <2>2. QED
    BY <2>1, IdleFinite, FS_Subset, FS_CardinalityType
<1>3. QED
  BY <1>1, <1>2, FS_Subset, FS_CardinalityType DEF RoomOK

-----------------------------------------------------------------------------
(* What the parts of a step do to the places of a task.                       *)

LEMMA SameQueue ==
  ASSUME queue' = queue
  PROVE  \A t : /\ InQueue(t)' <=> InQueue(t)
                /\ CancelQueued(t)' <=> CancelQueued(t)
                /\ Once(queue', {Run(t)}) <=> Once(queue, {Run(t)})
BY DEF InQueue, CancelQueued

LEMMA SameDeferred ==
  ASSUME deferred' = deferred
  PROVE  \A t : /\ InDeferred(t)' <=> InDeferred(t)
                /\ Once(deferred', {t}) <=> Once(deferred, {t})
BY DEF InDeferred

LEMMA SameResults ==
  ASSUME results' = results
  PROVE  \A t : /\ InResults(t)' <=> InResults(t)
                /\ Once(results', ResultsFor(t)) <=> Once(results, ResultsFor(t))
BY DEF InResults

LEMMA SameSlots ==
  ASSUME slot' = slot
  PROVE  /\ IdleSlots' = IdleSlots
         /\ \A t : (InSlot(t)' <=> InSlot(t)) /\ (OneSlot(t)' <=> OneSlot(t))
BY DEF InSlot, OneSlot, IdleSlots

LEMMA NotProcessing ==
  ASSUME loop'.at # "process"
  PROVE  LoopOrder' /\ \A t : ~InLoop(t)' /\ (Cancelling(t)' <=> CancelQueued(t)')
BY DEF LoopOrder, InLoop, Cancelling

(* Send.                                                                      *)
LEMMA SendFacts ==
  ASSUME Types, NoStrayResult, NEW t \in Tasks, NEW error \in BOOLEAN, Send(t, error),
         waiting' = waiting
  PROVE  /\ results' \in Seq(ResultSet) /\ NoStrayResult'
         /\ \A u \in Tasks : /\ InResults(u)' <=> InResults(u) \/ (u = t /\ t \in waiting)
                             /\ Once(results, ResultsFor(u)) /\ ~(u = t /\ InResults(u))
                                  => Once(results', ResultsFor(u))
<1> DEFINE res == [task |-> t, error |-> error]
<1>1. /\ res \in ResultSet /\ res.task = t /\ results \in Seq(ResultSet)
      /\ \A u : res \in ResultsFor(u) <=> u = t
  BY DEF ResultSet, ResultsFor, Types
<1> HIDE DEF res
<1>2. CASE t \notin waiting
  BY <1>1, <1>2, SameResults DEF Send, NoStrayResult
<1>3. CASE t \in waiting
  <2>1. results' = Append(results, res)
    BY <1>3 DEF Send, res
  <2>2. \A u : /\ Has(results', ResultsFor(u)) <=> Has(results, ResultsFor(u)) \/ u = t
               /\ Once(results, ResultsFor(u)) /\ ~(u = t /\ Has(results, ResultsFor(u)))
                    => Once(results', ResultsFor(u))
    BY <1>1, <2>1, AppendHas
  <2>3. results' \in Seq(ResultSet)
    BY <1>1, <2>1, AppendProperties
  <2>4. /\ \A i \in DOMAIN results : results'[i] = results[i]
        /\ \A i \in DOMAIN results' : i \in DOMAIN results \/ results'[i] = res
    <3>1. /\ Len(results') = Len(results) + 1 /\ results'[Len(results) + 1] = res
          /\ \A i \in 1 .. Len(results) : results'[i] = results[i]
      BY <1>1, <2>1, AppendProperties
    <3>2. DOMAIN results = 1 .. Len(results) /\ DOMAIN results' = 1 .. Len(results')
      BY <1>1, <2>3, LenProperties
    <3>3. Len(results) \in Nat
      BY <1>1, LenProperties
    <3>4. QED
      BY <3>1, <3>2, <3>3
  <2>5. NoStrayResult'
    BY <1>1, <1>3, <2>4 DEF NoStrayResult
  <2>6. QED
    BY <1>3, <2>2, <2>3, <2>5 DEF InResults
<1>4. QED
  BY <1>2, <1>3

(* Release: the slot is idle, and the eldest deferred task, if there is one,  *)
(* is the first of the queue.                                                 *)
LEMMA SlotFreed ==
  ASSUME Types, Places, NEW s \in Slots, slot[s] # Idle, slot' = [slot EXCEPT ![s] = Idle]
  PROVE  /\ slot' \in [Slots -> SlotSet] /\ slot[s].task \in Tasks /\ InSlot(slot[s].task)
         /\ s \notin IdleSlots /\ IdleSlots' = IdleSlots \cup {s}
         /\ \A t \in Tasks : (InSlot(t)' <=> InSlot(t) /\ t # slot[s].task) /\ OneSlot(t)'
<1>1. slot \in [Slots -> SlotSet] /\ slot[s] \in SlotSet
  BY DEF Types
<1>2. slot[s].task \in Tasks /\ InSlot(slot[s].task)
  BY <1>1, SlotFacts DEF InSlot
<1>3. slot' \in [Slots -> SlotSet] /\ \A q \in Slots : slot'[q] = IF q = s THEN Idle ELSE slot[q]
  BY <1>1, SlotFacts
<1>4. s \notin IdleSlots /\ IdleSlots' = IdleSlots \cup {s}
  BY <1>3 DEF IdleSlots
<1>5. ASSUME NEW t \in Tasks
      PROVE  (InSlot(t)' <=> InSlot(t) /\ t # slot[s].task) /\ OneSlot(t)'
  <2>1. OneSlot(t) /\ Idle.task # t
    BY SlotFacts DEF Places, Unique
  <2>2. QED
    BY <1>3, <2>1 DEF OneSlot, InSlot
<1>6. QED
  BY <1>2, <1>3, <1>4, <1>5

LEMMA Popped ==
  ASSUME Types, Places, QueueOrder, DeferredOnce, deferred # <<>>,
         queue' = <<Run(Head(deferred))>> \o queue, deferred' = Tail(deferred),
         returned' = returned \cup {Head(deferred)}
  PROVE  /\ Head(deferred) \in Tasks /\ InDeferred(Head(deferred))
         /\ queue' \in Seq(Messages) /\ deferred' \in Seq(Tasks)
         /\ returned' \subseteq Tasks /\ IsFiniteSet(returned')
         /\ \A t \in Tasks : /\ InQueue(t)' <=> InQueue(t) \/ t = Head(deferred)
                             /\ CancelQueued(t)' <=> CancelQueued(t)
                             /\ InDeferred(t)' <=> InDeferred(t) /\ t # Head(deferred)
                             /\ Once(queue', {Run(t)}) /\ Once(deferred', {t})
         /\ QueueOrder' /\ DeferredOnce'
<1> DEFINE h == Head(deferred)
<1>1. h \in Tasks /\ deferred \in Seq(Tasks) /\ deferred' \in Seq(Tasks) /\ queue \in Seq(Messages)
  BY HeadTailProperties DEF Types
<1>2. \A X : /\ Has(deferred, X) <=> h \in X \/ Has(deferred', X)
             /\ Once(deferred, X) => Once(deferred', X) /\ ~(h \in X /\ Has(deferred', X))
  BY <1>1, TailHas
<1>3. Run(h) \in Messages
  BY <1>1, MessageTypes
<1>4. \A X : /\ Has(queue', X) <=> Run(h) \in X \/ Has(queue, X)
             /\ Once(queue, X) /\ ~(Run(h) \in X /\ Has(queue, X)) => Once(queue', X)
  BY <1>1, <1>3, ConsHas
<1>5. queue' \in Seq(Messages) /\ Len(queue') = Len(queue) + 1 /\ queue'[1] = Run(h)
      /\ \A i \in 2 .. Len(queue) + 1 : queue'[i] = queue[i - 1]
  <2>1. <<Run(h)>> \in Seq(Messages) /\ Len(<<Run(h)>>) = 1 /\ <<Run(h)>>[1] = Run(h)
    BY <1>3
  <2>2. Len(queue) \in Nat
    BY <1>1, LenProperties
  <2>3. /\ queue' \in Seq(Messages) /\ Len(queue') = 1 + Len(queue)
        /\ \A i \in 1 .. 1 + Len(queue) : queue'[i] = IF i <= 1 THEN <<Run(h)>>[i] ELSE queue[i - 1]
    BY <1>1, <2>1, ConcatProperties
  <2>4. QED
    BY <2>1, <2>2, <2>3
<1>6. /\ \A i \in DOMAIN deferred' : i + 1 \in DOMAIN deferred /\ deferred'[i] = deferred[i + 1]
      /\ 1 \in DOMAIN deferred /\ deferred[1] = h
      /\ \A i \in DOMAIN deferred' : i + 1 # 1
  <2>1. /\ Len(deferred') = Len(deferred) - 1
        /\ \A i \in 1 .. Len(deferred') : deferred'[i] = deferred[i + 1]
    BY <1>1, HeadTailProperties
  <2>2. /\ DOMAIN deferred' = 1 .. Len(deferred') /\ DOMAIN deferred = 1 .. Len(deferred)
        /\ Len(deferred) \in Nat \ {0}
    BY <1>1, LenProperties, EmptySeq
  <2>3. QED
    BY <2>1, <2>2
<1> HIDE DEF h
<1>7. InDeferred(h) /\ ~InQueue(h) /\ Once(deferred, {h})
  <2>1. InDeferred(h)
    BY <1>2 DEF InDeferred
  <2>2. QED
    BY <1>1, <2>1 DEF Places, Apart, Unique
<1>8. ASSUME NEW t \in Tasks
      PROVE  /\ InQueue(t)' <=> InQueue(t) \/ t = h
             /\ CancelQueued(t)' <=> CancelQueued(t)
             /\ InDeferred(t)' <=> InDeferred(t) /\ t # h
             /\ Once(queue', {Run(t)}) /\ Once(deferred', {t})
  <2>1. Once(deferred, {t}) /\ Once(queue, {Run(t)})
    BY DEF Places, Unique
  <2>2. /\ Has(queue', {Run(t)}) <=> Has(queue, {Run(t)}) \/ t = h
        /\ Has(queue', {Cancel(t)}) <=> Has(queue, {Cancel(t)})
    BY <1>4, MessageFacts
  <2>3. Has(deferred', {t}) <=> Has(deferred, {t}) /\ t # h
    BY <1>2, <2>1
  <2>4. Once(queue', {Run(t)})
    BY <1>4, <1>7, <2>1, MessageFacts DEF InQueue
  <2>5. Once(deferred', {t})
    BY <1>2, <2>1
  <2>6. QED
    BY <2>2, <2>3, <2>4, <2>5 DEF InQueue, CancelQueued, InDeferred
<1>9. returned' \subseteq Tasks /\ IsFiniteSet(returned')
  BY <1>1, FS_AddElement DEF Types, h
<1>10. Returned' = Returned \cup {Run(h)}
  BY DEF Returned, h
<1>11. QueueOrder'
  <2> SUFFICES ASSUME NEW i \in DOMAIN queue', NEW j \in DOMAIN queue', j < i,
                      queue'[i] \in Returned', queue'[j].type = "run"
               PROVE  queue'[j] \in Returned'
    BY DEF QueueOrder
  <2>1. /\ DOMAIN queue' = 1 .. Len(queue) + 1 /\ DOMAIN queue = 1 .. Len(queue)
        /\ Len(queue) \in Nat
    BY <1>1, <1>5, LenProperties
  <2>2. CASE j = 1
    BY <1>5, <1>10, <2>2
  <2>3. CASE j # 1
    <3>1. /\ i - 1 \in DOMAIN queue /\ j - 1 \in DOMAIN queue /\ j - 1 < i - 1
          /\ queue'[i] = queue[i - 1] /\ queue'[j] = queue[j - 1]
      BY <1>5, <2>1, <2>3
    <3>2. queue[i - 1] # Run(h)
      BY <1>7, <3>1 DEF InQueue, Has
    <3>3. queue[i - 1] \in Returned
      BY <1>10, <3>1, <3>2
    <3>4. queue[j - 1] \in Returned
      BY <3>1, <3>3 DEF QueueOrder
    <3>5. QED
      BY <1>10, <3>1, <3>4
  <2>4. QED
    BY <2>2, <2>3
<1>12. DeferredOnce'
  <2> SUFFICES ASSUME NEW i \in DOMAIN deferred', PinnedTo[deferred'[i]] = AnySlot
               PROVE  deferred'[i] \notin returned'
    BY DEF DeferredOnce
  <2>1. deferred'[i] \notin returned
    BY <1>6 DEF DeferredOnce
  <2>2. deferred'[i] # h
    BY <1>6, <1>7 DEF Once
  <2>3. QED
    BY <2>1, <2>2 DEF h
<1>13. QED
  BY <1>1, <1>5, <1>7, <1>8, <1>9, <1>11, <1>12 DEF h

(* Release as a whole: moved is what is taken off the deferred queue.         *)
LEMMA ReleaseFacts ==
  ASSUME Types, Places, QueueOrder, DeferredOnce, NEW s \in Slots, slot[s] # Idle, Release(s)
  PROVE  \E moved \in SUBSET Tasks :
           /\ queue' \in Seq(Messages) /\ deferred' \in Seq(Tasks)
           /\ returned' = returned \cup moved
           /\ returned' \subseteq Tasks /\ IsFiniteSet(returned')
           /\ \A t, u \in moved : t = u
           /\ \A t \in Tasks : /\ InQueue(t)' <=> InQueue(t) \/ t \in moved
                               /\ CancelQueued(t)' <=> CancelQueued(t)
                               /\ InDeferred(t)' <=> InDeferred(t) /\ t \notin moved
                               /\ t \in moved => InDeferred(t)
                               /\ Once(queue', {Run(t)}) /\ Once(deferred', {t})
           /\ QueueOrder' /\ DeferredOnce'
<1>1. CASE deferred = <<>>
  <2>1. UNCHANGED <<queue, deferred, returned>>
    BY <1>1 DEF Release
  <2>2. QueueOrder' /\ DeferredOnce'
    BY <2>1 DEF QueueOrder, DeferredOnce, Returned
  <2>3. queue' \in Seq(Messages) /\ deferred' \in Seq(Tasks) /\ returned' = returned \cup {}
        /\ returned' \subseteq Tasks /\ IsFiniteSet(returned')
    BY <2>1 DEF Types
  <2>4. \A t \in Tasks : Once(queue', {Run(t)}) /\ Once(deferred', {t})
    BY <2>1 DEF Places, Unique
  <2>5. {} \in SUBSET Tasks
    OBVIOUS
  <2>6. QED
    BY <2>1, <2>2, <2>3, <2>4, <2>5, SameQueue, SameDeferred
<1>2. CASE deferred # <<>>
  <2> DEFINE h == Head(deferred)
  <2>1. /\ queue' = <<Run(Head(deferred))>> \o queue /\ deferred' = Tail(deferred)
        /\ returned' = returned \cup {Head(deferred)}
    BY <1>2 DEF Release
  <2>2. /\ h \in Tasks /\ InDeferred(h)
        /\ queue' \in Seq(Messages) /\ deferred' \in Seq(Tasks)
        /\ returned' \subseteq Tasks /\ IsFiniteSet(returned')
        /\ \A t \in Tasks : /\ InQueue(t)' <=> InQueue(t) \/ t = h
                            /\ CancelQueued(t)' <=> CancelQueued(t)
                            /\ InDeferred(t)' <=> InDeferred(t) /\ t # h
                            /\ Once(queue', {Run(t)}) /\ Once(deferred', {t})
        /\ QueueOrder' /\ DeferredOnce'
    BY <1>2, <2>1, Popped
  <2>3. returned' = returned \cup {h}
    BY <2>1
  <2> HIDE DEF h
  <2>4. {h} \in SUBSET Tasks /\ \A t : t \in {h} <=> t = h
    BY <2>2
  <2>5. QED
    BY <2>2, <2>3, <2>4
<1>3. QED
  BY <1>1, <1>2

LEMMA RoomReleased ==
  ASSUME Types, Types', RoomOK, NEW s \in Slots, s \notin IdleSlots, IdleSlots' = IdleSlots \cup {s},
         NEW moved, \A t, u \in moved : t = u, Coming' \subseteq Coming \cup moved
  PROVE  RoomOK'
<1>1. IsFiniteSet(Coming) /\ Cardinality(Coming) \in Nat /\ IsFiniteSet(IdleSlots)
      /\ Cardinality(IdleSlots) \in Nat
  BY ComingFinite, IdleFinite
<1>2. Cardinality(IdleSlots') = Cardinality(IdleSlots) + 1
  BY <1>1, FS_AddElement
<1>3. PICK h : Coming' \subseteq Coming \cup {h}
  OBVIOUS
<1>4. /\ IsFiniteSet(Coming \cup {h})
      /\ Cardinality(Coming \cup {h}) <= Cardinality(Coming) + 1
      /\ Cardinality(Coming \cup {h}) \in Nat
  <2>1. /\ IsFiniteSet(Coming \cup {h})
        /\ Cardinality(Coming \cup {h}) = IF h \in Coming THEN Cardinality(Coming) ELSE Cardinality(Coming) + 1
    BY <1>1, FS_AddElement
  <2>2. QED
    BY <1>1, <2>1
<1>5. IsFiniteSet(Coming') /\ Cardinality(Coming') <= Cardinality(Coming \cup {h})
  BY <1>3, <1>4, FS_Subset
<1>6. Cardinality(Coming') \in Nat
  BY <1>5, FS_CardinalityType
<1>7. QED
  BY <1>1, <1>2, <1>4, <1>5, <1>6 DEF RoomOK

-----------------------------------------------------------------------------
(* The steps of the loop.                                                     *)

(* Its places only: nothing in hand.                                          *)
LEMMA LoopMoves ==
  ASSUME QInv, loop' \in LoopSet, loop'.at # "process", \A t \in Tasks : ~InLoop(t),
         loop'.at \in {"decoded", "failed"} => loop'.slot \in Slots,
         UNCHANGED <<media, client, waiting, results, queue, deferred, slot, returned>>
  PROVE  QInv'
<1>1. Types'
  BY DEF QInv, Types, client
<1>2. \A t : /\ InQueue(t)' <=> InQueue(t)
             /\ InDeferred(t)' <=> InDeferred(t)
             /\ InSlot(t)' <=> InSlot(t)
             /\ InResults(t)' <=> InResults(t)
             /\ ~InLoop(t)' /\ (Cancelling(t)' <=> CancelQueued(t))
  BY SameQueue, SameDeferred, SameResults, SameSlots, NotProcessing
<1>3. Places'
  <2>1. \A t \in Tasks : Apart(t)'
    BY <1>2 DEF QInv, Places, Apart
  <2>2. \A t \in Tasks : Unique(t)'
    BY SameQueue, SameDeferred, SameResults, SameSlots DEF QInv, Places, Unique
  <2>3. QED
    BY <2>1, <2>2 DEF Places
<1>4. Requested'
  <2>1. \A t \in Tasks : (Present(t)' <=> Present(t)) /\ (Cancelling(t)' => Cancelling(t))
    BY <1>2 DEF Present, Cancelling
  <2>2. QED
    BY <2>1, LoopRequests DEF QInv
<1>5. NoStrayResult' /\ QueueOrder' /\ DeferredOnce'
  BY DEF QInv, NoStrayResult, QueueOrder, DeferredOnce, Returned
<1>6. RoomOK'
  <2>1. Coming' \subseteq Coming
    BY <1>2 DEF Coming, QInv, Types
  <2>2. QED
    BY <1>1, <2>1, SameSlots, RoomKept DEF QInv
<1>7. QED
  BY <1>1, <1>3, <1>4, <1>5, <1>6, NotProcessing DEF QInv

LEMMA PopTaskKeeps ==
  ASSUME QInv, PopTask
  PROVE  QInv'
<1> DEFINE m == Head(queue)
<1>1. /\ loop.at = "pop" /\ queue # <<>> /\ queue' = Tail(queue)
      /\ loop' = [At("process") EXCEPT !.msg = m]
      /\ UNCHANGED <<media, client, pc, got, waiting, results, deferred, slot, returned>>
  BY DEF PopTask, client
<1>2. queue \in Seq(Messages) /\ queue' \in Seq(Messages) /\ m \in Messages
  BY <1>1, HeadTailProperties DEF QInv, Types
<1>3. \A X : /\ Has(queue, X) <=> m \in X \/ Has(queue', X)
             /\ Once(queue, X) => Once(queue', X) /\ ~(m \in X /\ Has(queue', X))
  BY <1>1, <1>2, TailHas
<1>4. /\ \A i \in DOMAIN queue' : i + 1 \in DOMAIN queue /\ queue'[i] = queue[i + 1] /\ 1 < i + 1
      /\ 1 \in DOMAIN queue /\ queue[1] = m
      /\ \A i, j \in DOMAIN queue' : j < i => j + 1 < i + 1
  <2>1. /\ Len(queue') = Len(queue) - 1
        /\ \A i \in 1 .. Len(queue') : queue'[i] = queue[i + 1]
    BY <1>1, <1>2, HeadTailProperties
  <2>2. /\ DOMAIN queue' = 1 .. Len(queue') /\ DOMAIN queue = 1 .. Len(queue)
        /\ Len(queue) \in Nat \ {0}
    BY <1>1, <1>2, LenProperties, EmptySeq
  <2>3. QED
    BY <2>1, <2>2
<1> HIDE DEF m
<1>5. loop' \in LoopSet /\ loop'.at = "process" /\ loop'.msg = m
  <2>1. 0 \in 0 .. NumSlots
    BY QueueAssumption
  <2>2. QED
    BY <1>1, <1>2, <2>1 DEF At, LoopSet
<1>6. \A t \in Tasks : /\ InLoop(t)' <=> m = Run(t)
                       /\ InQueue(t) <=> m = Run(t) \/ InQueue(t)'
                       /\ ~(m = Run(t) /\ InQueue(t)')
                       /\ Once(queue', {Run(t)})
                       /\ ~InLoop(t)
  <2>1. \A t \in Tasks : Once(queue, {Run(t)})
    BY DEF QInv, Places, Unique
  <2>2. QED
    BY <1>1, <1>3, <1>5, <2>1 DEF InLoop, InQueue
<1>7. \A t : Cancelling(t)' <=> Cancelling(t)
  BY <1>1, <1>3, <1>5 DEF Cancelling, CancelQueued
<1>8. \A t : /\ InDeferred(t)' <=> InDeferred(t)
             /\ InSlot(t)' <=> InSlot(t)
             /\ InResults(t)' <=> InResults(t)
  BY <1>1, SameDeferred, SameResults, SameSlots
<1>9. Types'
  BY <1>1, <1>2, <1>5 DEF QInv, Types
<1>10. Places'
  <2>1. \A t \in Tasks : Apart(t)'
    BY <1>6, <1>8 DEF QInv, Places, Apart
  <2>2. \A t \in Tasks : Unique(t)'
    BY <1>1, <1>6, SameDeferred, SameResults, SameSlots DEF QInv, Places, Unique
  <2>3. QED
    BY <2>1, <2>2 DEF Places
<1>11. Requested'
  <2>1. \A t \in Tasks : Present(t)' <=> Present(t)
    BY <1>6, <1>8 DEF Present
  <2>2. QED
    BY <1>1, <1>7, <2>1, LoopRequests DEF QInv
<1>12. NoStrayResult' /\ DeferredOnce' /\ Returned' = Returned
  BY <1>1 DEF QInv, NoStrayResult, DeferredOnce, Returned
<1>13. QueueOrder'
  BY <1>4, <1>12 DEF QInv, QueueOrder
<1>14. LoopOrder'
  <2> SUFFICES ASSUME m.type = "run", m \notin Returned, NEW i \in DOMAIN queue', queue'[i] \in Returned
               PROVE  FALSE
    BY <1>5, <1>12 DEF LoopOrder, Has
  <2>1. m \in Returned
    BY <1>4 DEF QInv, QueueOrder
  <2>2. QED
    BY <2>1
<1>15. RoomOK'
  <2>1. Coming' \subseteq Coming
    BY <1>1, <1>6 DEF Coming, QInv, Types
  <2>2. QED
    BY <1>1, <1>9, <2>1, SameSlots, RoomKept DEF QInv
<1>16. QED
  BY <1>9, <1>10, <1>11, <1>12, <1>13, <1>14, <1>15 DEF QInv

(* The task in hand.                                                          *)
LEMMA InHand ==
  ASSUME QInv, Processing("run"), ToPop
  PROVE  /\ task \in Tasks /\ InLoop(task) /\ \A t \in Tasks : InLoop(t) <=> t = task
         /\ ~InQueue(task) /\ ~InDeferred(task) /\ ~InSlot(task) /\ ~InResults(task)
         /\ loop' \in LoopSet /\ loop'.at = "pop"
         /\ \A t : Cancelling(t) <=> CancelQueued(t)
<1>1. loop \in LoopSet /\ loop.at = "process" /\ loop.msg.type = "run"
  BY DEF Processing, QInv, Types
<1>2. loop.msg \in Messages
  BY <1>1 DEF LoopSet
<1>3. task \in Tasks /\ loop.msg = Run(task)
  BY <1>1, <1>2, MessageTypes DEF task
<1>4. InLoop(task) /\ \A t \in Tasks : InLoop(t) <=> t = task
  BY <1>1, <1>3, MessageFacts DEF InLoop
<1>5. ~InQueue(task) /\ ~InDeferred(task) /\ ~InSlot(task) /\ ~InResults(task)
  BY <1>3, <1>4 DEF QInv, Places, Apart
<1>6. loop' \in LoopSet /\ loop'.at = "pop"
  BY LoopFacts DEF ToPop
<1>7. \A t : Cancelling(t) <=> CancelQueued(t)
  BY <1>3, MessageFacts DEF Cancelling
<1>8. QED
  BY <1>3, <1>4, <1>5, <1>6, <1>7

(* Answered at once, by the FPGA or because a launch failed.                  *)
LEMMA AnswerKeeps ==
  ASSUME QInv, Processing("run"), ToPop, NEW error \in BOOLEAN, Send(task, error),
         UNCHANGED <<media, client, waiting, queue, deferred, slot, returned>>
  PROVE  QInv'
<1> DEFINE t0 == task
<1>1. /\ t0 \in Tasks /\ InLoop(t0) /\ \A t \in Tasks : InLoop(t) <=> t = t0
      /\ ~InQueue(t0) /\ ~InDeferred(t0) /\ ~InSlot(t0) /\ ~InResults(t0)
      /\ loop' \in LoopSet /\ loop'.at = "pop"
      /\ \A t : Cancelling(t) <=> CancelQueued(t)
  BY InHand
<1>2. /\ results' \in Seq(ResultSet) /\ NoStrayResult'
      /\ \A u \in Tasks : /\ InResults(u)' <=> InResults(u) \/ (u = t0 /\ t0 \in waiting)
                          /\ Once(results, ResultsFor(u)) /\ ~(u = t0 /\ InResults(u))
                               => Once(results', ResultsFor(u))
  BY <1>1, SendFacts DEF QInv
<1> HIDE DEF t0
<1>3. \A t : /\ InQueue(t)' <=> InQueue(t)
             /\ InDeferred(t)' <=> InDeferred(t)
             /\ InSlot(t)' <=> InSlot(t)
             /\ ~InLoop(t)' /\ (Cancelling(t)' <=> CancelQueued(t))
  BY <1>1, SameQueue, SameDeferred, SameSlots, NotProcessing
<1>4. Types'
  BY <1>1, <1>2 DEF QInv, Types, client
<1>5. Places'
  <2>1. \A t \in Tasks : Apart(t)'
    BY <1>1, <1>2, <1>3 DEF QInv, Places, Apart
  <2>2. \A t \in Tasks : Unique(t)'
    BY <1>1, <1>2, SameQueue, SameDeferred, SameSlots DEF QInv, Places, Unique
  <2>3. QED
    BY <2>1, <2>2 DEF Places
<1>6. Requested'
  <2>1. \A t \in Tasks : /\ Present(t)' => Present(t)
                         /\ Present(t) /\ t \in waiting /\ ~Cancelling(t) => Present(t)'
                         /\ Cancelling(t)' => Cancelling(t)
    BY <1>1, <1>2, <1>3 DEF Present
  <2>2. QED
    BY <2>1, LoopRequests DEF QInv
<1>7. QueueOrder' /\ DeferredOnce'
  BY DEF QInv, QueueOrder, DeferredOnce, Returned
<1>8. RoomOK'
  <2>1. Coming' \subseteq Coming
    BY <1>3 DEF Coming, QInv, Types
  <2>2. QED
    BY <1>4, <2>1, SameSlots, RoomKept DEF QInv
<1>9. LoopOrder'
  BY <1>1, NotProcessing
<1>10. QED
  BY <1>2, <1>4, <1>5, <1>6, <1>7, <1>8, <1>9 DEF QInv

LEMMA LaunchKeeps ==
  ASSUME QInv, LaunchSlot
  PROVE  QInv'
<1> DEFINE t0 == task
<1>1. /\ Processing("run") /\ ToPop
      /\ UNCHANGED <<media, client, pc, got, waiting, results, queue, deferred, returned>>
  BY DEF LaunchSlot, client
<1>2. PICK s \in Slots : slot[s] = Idle /\ slot' = [slot EXCEPT ![s] = [task |-> task, left |-> MaxTokens]]
  BY DEF LaunchSlot, FreeSlots
<1>3. /\ t0 \in Tasks /\ InLoop(t0) /\ \A t \in Tasks : InLoop(t) <=> t = t0
      /\ ~InQueue(t0) /\ ~InDeferred(t0) /\ ~InSlot(t0) /\ ~InResults(t0)
      /\ loop' \in LoopSet /\ loop'.at = "pop"
      /\ \A t : Cancelling(t) <=> CancelQueued(t)
  BY <1>1, InHand
<1>4. /\ slot \in [Slots -> SlotSet] /\ slot' \in [Slots -> SlotSet]
      /\ slot'[s].task = t0 /\ slot'[s] # Idle
      /\ \A q \in Slots : q # s => slot'[q] = slot[q]
  <2>1. [task |-> t0, left |-> MaxTokens] \in SlotSet /\ [task |-> t0, left |-> MaxTokens].task = t0
    BY <1>3, QueueAssumption, SlotFacts
  <2>2. [task |-> t0, left |-> MaxTokens] # Idle
    BY <1>3, <2>1, SlotFacts
  <2>3. slot \in [Slots -> SlotSet]
    BY DEF QInv, Types
  <2>4. QED
    BY <1>2, <2>1, <2>2, <2>3
<1> HIDE DEF t0
<1>5. /\ s \in IdleSlots /\ IdleSlots' = IdleSlots \ {s}
      /\ \A t \in Tasks : (InSlot(t)' <=> InSlot(t) \/ t = t0) /\ OneSlot(t)'
  <2>1. s \in IdleSlots /\ IdleSlots' = IdleSlots \ {s}
    BY <1>2, <1>4 DEF IdleSlots
  <2>2. ASSUME NEW t \in Tasks
        PROVE  (InSlot(t)' <=> InSlot(t) \/ t = t0) /\ OneSlot(t)'
    <3>1. OneSlot(t) /\ slot[s].task # t
      BY <1>2, SlotFacts DEF QInv, Places, Unique
    <3>2. QED
      BY <1>3, <1>4, <3>1 DEF OneSlot, InSlot
  <2>3. QED
    BY <2>1, <2>2
<1>6. \A t : /\ InQueue(t)' <=> InQueue(t)
             /\ InDeferred(t)' <=> InDeferred(t)
             /\ InResults(t)' <=> InResults(t)
             /\ ~InLoop(t)' /\ (Cancelling(t)' <=> CancelQueued(t))
  BY <1>1, <1>3, SameQueue, SameDeferred, SameResults, NotProcessing
<1>7. Types'
  BY <1>1, <1>3, <1>4 DEF QInv, Types
<1>8. Places'
  <2>1. \A t \in Tasks : Apart(t)'
    BY <1>3, <1>5, <1>6 DEF QInv, Places, Apart
  <2>2. \A t \in Tasks : Unique(t)'
    BY <1>1, <1>5, SameQueue, SameDeferred, SameResults DEF QInv, Places, Unique
  <2>3. QED
    BY <2>1, <2>2 DEF Places
<1>9. Requested'
  <2>1. \A t \in Tasks : (Present(t)' <=> Present(t)) /\ (Cancelling(t)' => Cancelling(t))
    BY <1>3, <1>5, <1>6 DEF Present
  <2>2. QED
    BY <1>1, <2>1, LoopRequests DEF QInv
<1>10. NoStrayResult' /\ QueueOrder' /\ DeferredOnce'
  BY <1>1 DEF QInv, NoStrayResult, QueueOrder, DeferredOnce, Returned
<1>11. RoomOK'
  <2>1. IsFiniteSet(Coming) /\ Cardinality(Coming) \in Nat /\ IsFiniteSet(IdleSlots)
        /\ Cardinality(IdleSlots) \in Nat
    BY ComingFinite, IdleFinite DEF QInv
  <2>2. Cardinality(IdleSlots') = Cardinality(IdleSlots) - 1 /\ Cardinality(IdleSlots) >= 1
    <3>1. Cardinality(IdleSlots') = Cardinality(IdleSlots) - 1
      BY <1>5, <2>1, FS_RemoveElement
    <3>2. Cardinality(IdleSlots) # 0
      BY <1>5, <2>1, FS_EmptySet
    <3>3. QED
      BY <2>1, <3>1, <3>2
  <2>3. CASE t0 \in returned
    <3>1. t0 \in Coming
      BY <1>3, <2>3 DEF Coming
    <3>2. Coming' = Coming \ {t0}
      BY <1>1, <1>3, <1>6 DEF Coming, QInv, Types
    <3>3. Cardinality(Coming') = Cardinality(Coming) - 1
      BY <2>1, <3>1, <3>2, FS_RemoveElement
    <3>4. QED
      BY <2>1, <2>2, <3>3 DEF QInv, RoomOK
  <2>4. CASE t0 \notin returned
    <3>1. loop.at = "process" /\ loop.msg.type = "run" /\ loop.msg \notin Returned
      <4>1. loop.msg = Run(t0) /\ loop.at = "process"
        BY <1>3 DEF InLoop
      <4>2. QED
        BY <2>4, <4>1, MessageFacts DEF Returned
    <3>2. ~Has(queue, Returned)
      BY <3>1 DEF QInv, LoopOrder
    <3>3. \A t \in returned : ~InQueue(t)
      BY <3>2 DEF Returned, Has, InQueue
    <3>4. Coming' = {}
      BY <1>1, <1>6, <3>3 DEF Coming
    <3>5. QED
      BY <2>1, <2>2, <3>4, FS_EmptySet DEF RoomOK
  <2>5. QED
    BY <2>3, <2>4
<1>12. LoopOrder'
  BY <1>3, NotProcessing
<1>13. QED
  BY <1>7, <1>8, <1>9, <1>10, <1>11, <1>12 DEF QInv

LEMMA DeferKeeps ==
  ASSUME QInv, Defer
  PROVE  QInv'
<1> DEFINE t0 == task
<1>1. /\ Processing("run") /\ ToPop /\ FreeSlots(t0) = {} /\ deferred' = Append(deferred, t0)
      /\ UNCHANGED <<media, client, pc, got, waiting, results, queue, slot, returned>>
  BY DEF Defer, client
<1>2. /\ t0 \in Tasks /\ InLoop(t0) /\ \A t \in Tasks : InLoop(t) <=> t = t0
      /\ ~InQueue(t0) /\ ~InDeferred(t0) /\ ~InSlot(t0) /\ ~InResults(t0)
      /\ loop' \in LoopSet /\ loop'.at = "pop"
      /\ \A t : Cancelling(t) <=> CancelQueued(t)
  BY <1>1, InHand
<1> HIDE DEF t0
<1>3. deferred \in Seq(Tasks) /\ deferred' \in Seq(Tasks)
  BY <1>1, <1>2, AppendProperties DEF QInv, Types
<1>4. \A t \in Tasks : (InDeferred(t)' <=> InDeferred(t) \/ t = t0) /\ Once(deferred', {t})
  <2>1. \A t : /\ Has(deferred', {t}) <=> Has(deferred, {t}) \/ t0 \in {t}
               /\ Once(deferred, {t}) /\ ~(t0 \in {t} /\ Has(deferred, {t})) => Once(deferred', {t})
    BY <1>1, <1>2, <1>3, AppendHas
  <2>2. \A t \in Tasks : Once(deferred, {t})
    BY DEF QInv, Places, Unique
  <2>3. QED
    BY <1>2, <2>1, <2>2 DEF InDeferred
<1>5. \A t : /\ InQueue(t)' <=> InQueue(t)
             /\ InSlot(t)' <=> InSlot(t)
             /\ InResults(t)' <=> InResults(t)
             /\ ~InLoop(t)' /\ (Cancelling(t)' <=> CancelQueued(t))
  BY <1>1, <1>2, SameQueue, SameSlots, SameResults, NotProcessing
<1>6. Types'
  BY <1>1, <1>2, <1>3 DEF QInv, Types
<1>7. Places'
  <2>1. \A t \in Tasks : Apart(t)'
    BY <1>2, <1>4, <1>5 DEF QInv, Places, Apart
  <2>2. \A t \in Tasks : Unique(t)'
    BY <1>1, <1>4, SameQueue, SameSlots, SameResults DEF QInv, Places, Unique
  <2>3. QED
    BY <2>1, <2>2 DEF Places
<1>8. Requested'
  <2>1. \A t \in Tasks : (Present(t)' <=> Present(t)) /\ (Cancelling(t)' => Cancelling(t))
    BY <1>2, <1>4, <1>5 DEF Present
  <2>2. QED
    BY <1>1, <2>1, LoopRequests DEF QInv
<1>9. NoStrayResult' /\ QueueOrder'
  BY <1>1 DEF QInv, NoStrayResult, QueueOrder, Returned
<1>10. RoomOK'
  <2>1. Coming' \subseteq Coming
    BY <1>1, <1>5 DEF Coming, QInv, Types
  <2>2. QED
    BY <1>1, <1>6, <2>1, SameSlots, RoomKept DEF QInv
<1>11. PinnedTo[t0] = AnySlot => t0 \notin returned
  <2> SUFFICES ASSUME PinnedTo[t0] = AnySlot, t0 \in returned
               PROVE  FALSE
    OBVIOUS
  <2>1. IdleSlots = {}
    BY <1>1 DEF IdleSlots, FreeSlots
  <2>2. t0 \in Coming
    BY <1>2 DEF Coming
  <2>3. IsFiniteSet(Coming) /\ Cardinality(Coming) \in Nat
    BY ComingFinite DEF QInv
  <2>4. Cardinality(IdleSlots) = 0 /\ Cardinality(Coming) # 0
    BY <2>1, <2>2, <2>3, FS_EmptySet
  <2>5. QED
    BY <2>3, <2>4 DEF QInv, RoomOK
<1>12. DeferredOnce'
  <2>1. /\ \A i \in DOMAIN deferred : deferred'[i] = deferred[i]
        /\ \A i \in DOMAIN deferred' : i \in DOMAIN deferred \/ deferred'[i] = t0
    <3>1. /\ Len(deferred') = Len(deferred) + 1 /\ deferred'[Len(deferred) + 1] = t0
          /\ \A i \in 1 .. Len(deferred) : deferred'[i] = deferred[i]
      BY <1>1, <1>2, <1>3, AppendProperties
    <3>2. /\ DOMAIN deferred = 1 .. Len(deferred) /\ DOMAIN deferred' = 1 .. Len(deferred')
          /\ Len(deferred) \in Nat
      BY <1>3, LenProperties
    <3>3. QED
      BY <3>1, <3>2
  <2>2. QED
    BY <1>1, <1>11, <2>1 DEF QInv, DeferredOnce
<1>13. LoopOrder'
  BY <1>2, NotProcessing
<1>14. QED
  BY <1>6, <1>7, <1>8, <1>9, <1>10, <1>12, <1>13 DEF QInv


LEMMA NextSlotMoves ==
  ASSUME QInv, loop.at \in {"decoded", "failed"}, NextSlot
  PROVE  /\ loop' \in LoopSet /\ loop'.at # "process"
         /\ loop'.at \in {"decoded", "failed"} => loop'.slot \in Slots
<1>1. loop \in LoopSet /\ loop.slot \in 1 .. NumSlots /\ NumSlots \in Nat
  BY QueueAssumption DEF QInv, Types, Slots
<1>2. CASE loop.slot = NumSlots
  BY <1>2, LoopFacts DEF NextSlot
<1>3. CASE loop.slot # NumSlots
  <2>1. loop.slot + 1 \in 1 .. NumSlots
    BY <1>1, <1>3
  <2>2. loop' = [loop EXCEPT !.slot = loop.slot + 1]
    BY <1>3 DEF NextSlot
  <2>3. loop' \in LoopSet /\ loop'.at = loop.at /\ loop'.slot = loop.slot + 1
    BY <1>1, <2>1, <2>2 DEF LoopSet
  <2>4. QED
    BY <2>1, <2>3 DEF Slots
<1>4. QED
  BY <1>2, <1>3

LEMMA NoTaskInHand ==
  ASSUME loop.at # "process" \/ loop.msg.type # "run"
  PROVE  \A t \in Tasks : ~InLoop(t)
BY MessageFacts DEF InLoop

(* Nothing to do in this step but to go on.                                   *)
LEMMA MovesOnly ==
  ASSUME QInv, QueueEmpty \/ ProcessNext \/ NothingToUpdate \/ DecodeFails \/ WakeUp
  PROVE  QInv'
<1>1. /\ \A t \in Tasks : ~InLoop(t)
      /\ UNCHANGED <<media, client, waiting, results, queue, deferred, slot, returned>>
  BY NoTaskInHand DEF QueueEmpty, ProcessNext, Processing, NothingToUpdate, DecodeFails, WakeUp
<1>2. 1 \in Slots
  BY QueueAssumption DEF Slots
<1>3. /\ loop' \in LoopSet /\ loop'.at # "process"
      /\ loop'.at \in {"decoded", "failed"} => loop'.slot \in Slots
  <2>1. \/ loop' = At("update") \/ loop' = At("pop") \/ loop' = At("wait")
        \/ loop' = [At("failed") EXCEPT !.slot = 1]
    BY DEF QueueEmpty, ProcessNext, ToPop, NothingToUpdate, DecodeFails, WakeUp
  <2>2. CASE loop' = At("update")
    BY <2>2, LoopFacts
  <2>3. CASE loop' = At("pop")
    BY <2>3, LoopFacts
  <2>4. CASE loop' = At("wait")
    BY <2>4, LoopFacts
  <2>5. CASE loop' = [At("failed") EXCEPT !.slot = 1]
    BY <1>2, <2>5, LoopFacts
  <2>6. QED
    BY <2>1, <2>2, <2>3, <2>4, <2>5
<1>4. QED
  BY <1>1, <1>3, LoopMoves

LEMMA StartUpdateKeeps ==
  ASSUME QInv, StartUpdate
  PROVE  QInv'
<1>1. /\ loop.at = "update" /\ queue' = Append(queue, NextResponse)
      /\ loop' = [At("decoded") EXCEPT !.slot = 1]
      /\ UNCHANGED <<media, client, pc, got, waiting, results, deferred, slot, returned>>
  BY DEF StartUpdate, client
<1>2. queue \in Seq(Messages) /\ NextResponse \in Messages
  BY MessageTypes DEF QInv, Types
<1>3. queue' \in Seq(Messages)
  BY <1>1, <1>2, AppendProperties
<1>4. loop' \in LoopSet /\ loop'.at = "decoded" /\ loop'.slot \in Slots
  <2>1. 1 \in Slots
    BY QueueAssumption DEF Slots
  <2>2. QED
    BY <1>1, <2>1, LoopFacts
<1>5. \A X : /\ Has(queue', X) <=> Has(queue, X) \/ NextResponse \in X
             /\ Once(queue, X) /\ ~(NextResponse \in X /\ Has(queue, X)) => Once(queue', X)
  BY <1>1, <1>2, AppendHas
<1>6. \A t : /\ InQueue(t)' <=> InQueue(t)
             /\ CancelQueued(t)' <=> CancelQueued(t)
             /\ Once(queue, {Run(t)}) => Once(queue', {Run(t)})
  BY <1>5, MessageFacts DEF InQueue, CancelQueued
<1>7. \A t : /\ InDeferred(t)' <=> InDeferred(t)
             /\ InSlot(t)' <=> InSlot(t)
             /\ InResults(t)' <=> InResults(t)
             /\ ~InLoop(t) /\ ~InLoop(t)'
             /\ (Cancelling(t)' <=> Cancelling(t))
  <2>1. \A t : ~InLoop(t) /\ (Cancelling(t) <=> CancelQueued(t))
    BY <1>1 DEF InLoop, Cancelling
  <2>2. QED
    BY <1>1, <1>4, <1>6, <2>1, SameDeferred, SameSlots, SameResults, NotProcessing
<1>8. Types'
  BY <1>1, <1>3, <1>4 DEF QInv, Types
<1>9. Places'
  <2>1. \A t \in Tasks : Apart(t)'
    BY <1>6, <1>7 DEF QInv, Places, Apart
  <2>2. \A t \in Tasks : Unique(t)'
    BY <1>1, <1>6, SameDeferred, SameSlots, SameResults DEF QInv, Places, Unique
  <2>3. QED
    BY <2>1, <2>2 DEF Places
<1>10. Requested'
  <2>1. \A t \in Tasks : (Present(t)' <=> Present(t)) /\ (Cancelling(t)' => Cancelling(t))
    BY <1>6, <1>7 DEF Present
  <2>2. QED
    BY <1>1, <2>1, LoopRequests DEF QInv
<1>11. NoStrayResult' /\ DeferredOnce' /\ Returned' = Returned
  BY <1>1 DEF QInv, NoStrayResult, DeferredOnce, Returned
<1>12. QueueOrder'
  <2>1. /\ \A i \in DOMAIN queue : queue'[i] = queue[i]
        /\ \A i \in DOMAIN queue' : i \in DOMAIN queue \/ queue'[i] = NextResponse
    <3>1. /\ Len(queue') = Len(queue) + 1 /\ queue'[Len(queue) + 1] = NextResponse
          /\ \A i \in 1 .. Len(queue) : queue'[i] = queue[i]
      BY <1>1, <1>2, AppendProperties
    <3>2. /\ DOMAIN queue = 1 .. Len(queue) /\ DOMAIN queue' = 1 .. Len(queue')
          /\ Len(queue) \in Nat
      BY <1>2, <1>3, LenProperties
    <3>3. QED
      BY <3>1, <3>2
  <2>2. NextResponse \notin Returned /\ NextResponse.type # "run"
    BY MessageFacts DEF Returned
  <2>3. QED
    BY <1>11, <2>1, <2>2 DEF QInv, QueueOrder
<1>13. LoopOrder'
  BY <1>4, NotProcessing
<1>14. RoomOK'
  <2>1. Coming' \subseteq Coming
    BY <1>1, <1>6, <1>7 DEF Coming, QInv, Types
  <2>2. QED
    BY <1>1, <1>8, <2>1, SameSlots, RoomKept DEF QInv
<1>15. QED
  BY <1>8, <1>9, <1>10, <1>11, <1>12, <1>13, <1>14 DEF QInv

(* A slot gives up its task, which is answered, or whose cancel is in hand.   *)
LEMMA ReleaseKeeps ==
  ASSUME QInv, NEW s \in Slots, slot[s] # Idle, Release(s),
         results' \in Seq(ResultSet), NoStrayResult',
         \A t \in Tasks : /\ InResults(t) => InResults(t)'
                          /\ InResults(t)' => InResults(t) \/ t = slot[s].task
                          /\ Once(results', ResultsFor(t)),
         \A t \in Tasks : t = slot[s].task => InResults(t)' \/ t \notin waiting \/ Cancelling(t),
         loop' \in LoopSet, loop'.at # "process", \A t \in Tasks : ~InLoop(t),
         loop'.at \in {"decoded", "failed"} => loop'.slot \in Slots,
         UNCHANGED <<media, client, waiting>>
  PROVE  QInv'
<1> DEFINE t0 == slot[s].task
<1>1. /\ slot' \in [Slots -> SlotSet] /\ t0 \in Tasks /\ InSlot(t0)
      /\ s \notin IdleSlots /\ IdleSlots' = IdleSlots \cup {s}
      /\ \A t \in Tasks : (InSlot(t)' <=> InSlot(t) /\ t # t0) /\ OneSlot(t)'
  <2>1. slot' = [slot EXCEPT ![s] = Idle]
    BY DEF Release
  <2>2. QED
    BY <2>1, SlotFreed DEF QInv
<1>2. PICK moved \in SUBSET Tasks :
           /\ queue' \in Seq(Messages) /\ deferred' \in Seq(Tasks)
           /\ returned' = returned \cup moved
           /\ returned' \subseteq Tasks /\ IsFiniteSet(returned')
           /\ \A t, u \in moved : t = u
           /\ \A t \in Tasks : /\ InQueue(t)' <=> InQueue(t) \/ t \in moved
                               /\ CancelQueued(t)' <=> CancelQueued(t)
                               /\ InDeferred(t)' <=> InDeferred(t) /\ t \notin moved
                               /\ t \in moved => InDeferred(t)
                               /\ Once(queue', {Run(t)}) /\ Once(deferred', {t})
           /\ QueueOrder' /\ DeferredOnce'
  BY ReleaseFacts DEF QInv
<1>3. /\ \A t \in Tasks : /\ InResults(t) => InResults(t)'
                          /\ InResults(t)' => InResults(t) \/ t = t0
                          /\ Once(results', ResultsFor(t))
      /\ \A t \in Tasks : t = t0 => InResults(t)' \/ t \notin waiting \/ Cancelling(t)
  OBVIOUS
<1> HIDE DEF t0
<1>4. LoopOrder' /\ \A t : ~InLoop(t)' /\ (Cancelling(t)' <=> CancelQueued(t)')
  BY NotProcessing
<1>5. \A t \in Tasks : Cancelling(t)' => Cancelling(t)
  BY <1>2, <1>4 DEF Cancelling
<1>6. Types'
  BY <1>1, <1>2 DEF QInv, Types, client
<1>7. Places'
  <2>1. ASSUME NEW t \in Tasks
        PROVE  Apart(t)'
    <3>1. Apart(t) /\ ~InLoop(t)
      BY DEF QInv, Places
    <3>2. /\ InQueue(t)' <=> InQueue(t) \/ t \in moved
          /\ InDeferred(t)' <=> InDeferred(t) /\ t \notin moved
          /\ t \in moved => InDeferred(t)
      BY <1>2
    <3>3. InSlot(t)' <=> InSlot(t) /\ t # t0
      BY <1>1
    <3>4. InResults(t)' => InResults(t) \/ t = t0
      BY <1>3
    <3>5. ~InLoop(t)' /\ InSlot(t0)
      BY <1>1, <1>4
    <3>6. t = t0 => InSlot(t)
      BY <3>5
    <3>7. QED
      BY <3>1, <3>2, <3>3, <3>4, <3>5, <3>6 DEF Apart
  <2>2. \A t \in Tasks : Unique(t)'
    BY <1>1, <1>2, <1>3 DEF Unique
  <2>3. QED
    BY <2>1, <2>2 DEF Places
<1>8. Requested'
  <2>1. ASSUME NEW t \in Tasks
        PROVE  /\ Present(t)' => Present(t)
               /\ Present(t) /\ t \in waiting /\ ~Cancelling(t) => Present(t)'
               /\ t \in returned' => t \in returned \/ Present(t)
    <3>1. ~InLoop(t) /\ ~InLoop(t)'
      BY <1>4
    <3>2. /\ InQueue(t)' <=> InQueue(t) \/ t \in moved
          /\ InDeferred(t)' <=> InDeferred(t) /\ t \notin moved
          /\ t \in moved => InDeferred(t)
          /\ t \in returned' => t \in returned \/ t \in moved
      BY <1>2
    <3>3. (InSlot(t)' <=> InSlot(t) /\ t # t0) /\ (t = t0 => InSlot(t))
      BY <1>1
    <3>4. /\ InResults(t) => InResults(t)'
          /\ InResults(t)' => InResults(t) \/ t = t0
          /\ t = t0 => (InResults(t)' \/ t \notin waiting \/ Cancelling(t))
      BY <1>3
    <3>5. QED
      BY <3>1, <3>2, <3>3, <3>4 DEF Present
  <2>2. QED
    BY <1>5, <2>1, LoopRequests DEF QInv
<1>9. RoomOK'
  <2>1. Coming' \subseteq Coming \cup moved
    <3>1. ASSUME NEW t \in Coming', t \notin moved
          PROVE  t \in Coming
      <4>1. t \in returned' /\ InQueue(t)'
        BY <1>4, <3>1 DEF Coming
      <4>2. t \in returned /\ t \in Tasks
        BY <1>2, <3>1, <4>1
      <4>3. InQueue(t)
        BY <1>2, <3>1, <4>1, <4>2
      <4>4. QED
        BY <4>2, <4>3 DEF Coming
    <3>2. QED
      BY <3>1
  <2>2. QED
    BY <1>1, <1>2, <1>6, <2>1, RoomReleased DEF QInv
<1>10. QED
  BY <1>2, <1>4, <1>6, <1>7, <1>8, <1>9 DEF QInv

(* Its task is answered first.                                                *)
LEMMA ServedKeeps ==
  ASSUME QInv, NEW s \in Slots, slot[s] # Idle, NEW error \in BOOLEAN, Send(slot[s].task, error),
         Release(s), loop.at \in {"decoded", "failed"}, NextSlot, UNCHANGED <<media, client, waiting>>
  PROVE  QInv'
<1> DEFINE t0 == slot[s].task
<1>1. t0 \in Tasks /\ InSlot(t0)
  <2>1. slot[s] \in SlotSet
    BY DEF QInv, Types
  <2>2. QED
    BY <2>1, SlotFacts DEF InSlot
<1>2. /\ results' \in Seq(ResultSet) /\ NoStrayResult'
      /\ \A u \in Tasks : /\ InResults(u)' <=> InResults(u) \/ (u = t0 /\ t0 \in waiting)
                          /\ Once(results, ResultsFor(u)) /\ ~(u = t0 /\ InResults(u))
                               => Once(results', ResultsFor(u))
  BY <1>1, SendFacts DEF QInv
<1>3. /\ loop' \in LoopSet /\ loop'.at # "process"
      /\ loop'.at \in {"decoded", "failed"} => loop'.slot \in Slots
  BY NextSlotMoves
<1>4. \A t \in Tasks : ~InLoop(t)
  BY NoTaskInHand
<1>5. \A u \in Tasks : Once(results, ResultsFor(u)) /\ ~(u = t0 /\ InResults(u))
  BY <1>1 DEF QInv, Places, Unique, Apart
<1>6. \A u \in Tasks : /\ InResults(u) => InResults(u)'
                       /\ InResults(u)' => InResults(u) \/ u = t0
                       /\ Once(results', ResultsFor(u))
  BY <1>2, <1>5
<1>7. \A t \in Tasks : t = t0 => InResults(t)' \/ t \notin waiting
  BY <1>2
<1>8. QED
  BY <1>2, <1>3, <1>4, <1>6, <1>7, ReleaseKeeps

LEMMA ProcessCancelKeeps ==
  ASSUME QInv, ProcessCancel
  PROVE  QInv'
<1>1. /\ Processing("cancel") /\ ToPop /\ results' = results
      /\ UNCHANGED <<media, client, waiting>>
  BY DEF ProcessCancel
<1>2. \A t \in Tasks : ~InLoop(t)
  BY <1>1, NoTaskInHand DEF Processing
<1>3. loop' \in LoopSet /\ loop'.at = "pop"
  BY <1>1, LoopFacts DEF ToPop
<1>4. task \in Tasks /\ Cancelling(task)
  <2>1. loop.msg \in Messages
    BY DEF QInv, Types, LoopSet
  <2>2. QED
    BY <1>1, <2>1, MessageTypes DEF Processing, task, Cancelling
<1>5. CASE UNCHANGED <<queue, deferred, slot, returned>>
  <2>1. UNCHANGED <<media, client, waiting, results, queue, deferred, slot, returned>>
    BY <1>1, <1>5
  <2>2. loop'.at \notin {"process", "decoded", "failed"}
    BY <1>3
  <2>3. QED
    BY <1>2, <1>3, <2>1, <2>2, LoopMoves
<1>6. ASSUME NEW s \in Slots, slot[s].task = task, Release(s)
      PROVE  QInv'
  <2>1. slot[s] # Idle
    BY <1>4, <1>6, SlotFacts
  <2>2. results' \in Seq(ResultSet)
    BY <1>1 DEF QInv, Types
  <2>3. NoStrayResult'
    BY <1>1 DEF QInv, NoStrayResult
  <2>4. \A t \in Tasks : /\ InResults(t)' <=> InResults(t)
                         /\ Once(results', ResultsFor(t))
    BY <1>1, SameResults DEF QInv, Places, Unique
  <2>5. \A t \in Tasks : t = slot[s].task => Cancelling(t)
    BY <1>4, <1>6
  <2>6. loop'.at \notin {"process", "decoded", "failed"}
    BY <1>3
  <2>7. QED
    BY <1>1, <1>2, <1>3, <1>6, <2>1, <2>2, <2>3, <2>4, <2>5, <2>6, ReleaseKeeps
<1>7. QED
  BY <1>5, <1>6 DEF ProcessCancel

LEMMA UpdateSlotKeeps ==
  ASSUME QInv, UpdateSlot
  PROVE  QInv'
<1> DEFINE s == loop.slot
<1>1. loop.at = "decoded" /\ s \in Slots /\ NextSlot /\ UNCHANGED <<media, client, pc, got, waiting>>
  BY DEF UpdateSlot, QInv, Types, client
<1>2. /\ loop' \in LoopSet /\ loop'.at # "process"
      /\ loop'.at \in {"decoded", "failed"} => loop'.slot \in Slots
  BY <1>1, NextSlotMoves
<1>3. \A t \in Tasks : ~InLoop(t)
  BY <1>1, NoTaskInHand
<1>4. slot[s] \in SlotSet /\ slot \in [Slots -> SlotSet]
  BY <1>1 DEF QInv, Types
<1>5. CASE slot[s] = Idle /\ UNCHANGED <<results, queue, deferred, slot, returned>>
  BY <1>1, <1>2, <1>3, <1>5, LoopMoves
<1>6. CASE /\ slot[s].left > 1 /\ slot' = [slot EXCEPT ![s].left = @ - 1]
           /\ UNCHANGED <<results, queue, deferred, returned>>
  <2> DEFINE x == [slot[s] EXCEPT !.left = slot[s].left - 1]
  <2>1. slot[s] # Idle
    BY <1>6 DEF Idle
  <2>2. slot[s] \in [task : Tasks, left : 1 .. MaxTokens] /\ slot[s].left - 1 \in 1 .. MaxTokens
    BY <1>4, <1>6, <2>1, QueueAssumption DEF SlotSet
  <2>3. x \in SlotSet /\ x.task = slot[s].task /\ slot[s].task \in Tasks
    BY <2>2 DEF SlotSet
  <2>4. x # Idle
    BY <2>3, SlotFacts
  <2>5. slot' = [slot EXCEPT ![s] = x]
    BY <1>6
  <2> HIDE DEF x
  <2>6. slot' \in [Slots -> SlotSet] /\ \A q \in Slots : slot'[q] = IF q = s THEN x ELSE slot[q]
    BY <1>4, <2>3, <2>5
  <2>7. IdleSlots' = IdleSlots
    BY <2>1, <2>4, <2>6 DEF IdleSlots
  <2>8. \A t : (InSlot(t)' <=> InSlot(t)) /\ (OneSlot(t)' <=> OneSlot(t))
    <3>1. \A q \in Slots : slot'[q].task = slot[q].task
      BY <2>3, <2>6
    <3>2. QED
      BY <3>1 DEF InSlot, OneSlot
  <2>9. \A t : /\ InQueue(t)' <=> InQueue(t)
               /\ InDeferred(t)' <=> InDeferred(t)
               /\ InResults(t)' <=> InResults(t)
               /\ ~InLoop(t)' /\ (Cancelling(t)' <=> CancelQueued(t))
    BY <1>2, <1>6, SameQueue, SameDeferred, SameResults, NotProcessing
  <2>10. Types'
    BY <1>1, <1>2, <1>6, <2>6 DEF QInv, Types
  <2>11. Places'
    <3>1. \A t \in Tasks : Apart(t)'
      BY <2>8, <2>9 DEF QInv, Places, Apart
    <3>2. \A t \in Tasks : Unique(t)'
      BY <1>6, <2>8, SameQueue, SameDeferred, SameResults DEF QInv, Places, Unique
    <3>3. QED
      BY <3>1, <3>2 DEF Places
  <2>12. Requested'
    <3>1. \A t \in Tasks : (Present(t)' <=> Present(t)) /\ (Cancelling(t)' => Cancelling(t))
      BY <1>3, <2>8, <2>9 DEF Present, Cancelling
    <3>2. QED
      BY <1>1, <1>6, <3>1, LoopRequests DEF QInv
  <2>13. NoStrayResult' /\ QueueOrder' /\ DeferredOnce'
    BY <1>1, <1>6 DEF QInv, NoStrayResult, QueueOrder, DeferredOnce, Returned
  <2>14. RoomOK'
    <3>1. Coming' \subseteq Coming
      BY <1>6, <2>9 DEF Coming, QInv, Types
    <3>2. IdleSlots \subseteq IdleSlots'
      BY <2>7
    <3>3. QED
      BY <2>10, <3>1, <3>2, RoomKept DEF QInv
  <2>15. LoopOrder'
    BY <1>2, NotProcessing
  <2>16. QED
    BY <2>10, <2>11, <2>12, <2>13, <2>14, <2>15 DEF QInv
<1>7. ASSUME slot[s] # Idle, NEW error \in BOOLEAN, Send(slot[s].task, error), Release(s)
      PROVE  QInv'
  BY <1>1, <1>7, ServedKeeps
<1>8. QED
  BY <1>5, <1>6, <1>7 DEF UpdateSlot

LEMMA FailSlotKeeps ==
  ASSUME QInv, FailSlot
  PROVE  QInv'
<1> DEFINE s == loop.slot
<1>1. loop.at = "failed" /\ s \in Slots /\ UNCHANGED <<media, got, waiting>>
  BY DEF FailSlot, QInv, Types
<1>2. CASE slot[s] # Idle
  <2>1. Send(slot[s].task, TRUE) /\ Release(s) /\ NextSlot /\ UNCHANGED <<media, client, waiting>>
    BY <1>1, <1>2 DEF FailSlot, client
  <2>2. QED
    BY <1>1, <1>2, <2>1, ServedKeeps
<1>3. CASE slot[s] = Idle
  <2>1. /\ loop' = At("crashed")
        /\ pc' = [r \in Requests |-> IF Ended(r) THEN pc[r] ELSE "lost"]
        /\ UNCHANGED <<results, queue, deferred, slot, returned>>
    BY <1>3 DEF FailSlot
  <2>2. loop' \in LoopSet /\ loop'.at = "crashed"
    BY <2>1, LoopFacts
  <2>3. \A t : /\ InQueue(t)' <=> InQueue(t)
               /\ InDeferred(t)' <=> InDeferred(t)
               /\ InSlot(t)' <=> InSlot(t)
               /\ InResults(t)' <=> InResults(t)
               /\ ~InLoop(t)' /\ (Cancelling(t)' <=> CancelQueued(t))
    BY <2>1, <2>2, SameQueue, SameDeferred, SameResults, SameSlots, NotProcessing
  <2>4. Types'
    BY <1>1, <2>1, <2>2 DEF QInv, Types
  <2>5. Places'
    <3>1. \A t \in Tasks : Apart(t)'
      BY <2>3 DEF QInv, Places, Apart
    <3>2. \A t \in Tasks : Unique(t)'
      BY <2>1, SameQueue, SameDeferred, SameResults, SameSlots DEF QInv, Places, Unique
    <3>3. QED
      BY <3>1, <3>2 DEF Places
  <2>6. Requested'
    <3> SUFFICES ASSUME NEW r \in Requests
                 PROVE  RequestOK(r)'
      BY DEF Requested
    <3>1. pc'[r] \in {"done", "gone", "lost"} /\ (pc'[r] = "done" => pc[r] = "done")
      BY <2>1 DEF Ended
    <3>2. RequestOK(r) /\ NumTasks(r)' = NumTasks(r) /\ got' = got
      BY <1>1 DEF QInv, Requested, NumTasks
    <3>3. pc[r] = "done" => \A t \in TasksOf[r] : ~Cancelling(t)'
      BY <2>3, <3>2 DEF RequestOK, Cancelling
    <3>4. QED
      BY <3>1, <3>2, <3>3 DEF RequestOK
  <2>7. NoStrayResult' /\ QueueOrder' /\ DeferredOnce'
    BY <1>1, <2>1 DEF QInv, NoStrayResult, QueueOrder, DeferredOnce, Returned
  <2>8. RoomOK'
    <3>1. Coming' \subseteq Coming
      BY <2>1, <2>3 DEF Coming, QInv, Types
    <3>2. QED
      BY <2>1, <2>4, <3>1, SameSlots, RoomKept DEF QInv
  <2>9. LoopOrder'
    BY <2>2, NotProcessing
  <2>10. QED
    BY <2>4, <2>5, <2>6, <2>7, <2>8, <2>9 DEF QInv
<1>4. QED
  BY <1>2, <1>3

LEMMA LoopKeeps ==
  ASSUME QInv, Loop
  PROVE  QInv'
<1>1. ASSUME RunOnFpga
      PROVE  QInv'
  BY <1>1, AnswerKeeps DEF RunOnFpga
<1>2. ASSUME LaunchFails
      PROVE  QInv'
  BY <1>2, AnswerKeeps DEF LaunchFails
<1>3. QED
  BY <1>1, <1>2, PopTaskKeeps, LaunchKeeps, DeferKeeps, MovesOnly, StartUpdateKeeps,
     ProcessCancelKeeps, UpdateSlotKeeps, FailSlotKeeps DEF Loop

-----------------------------------------------------------------------------
(* The steps of the handlers.                                                 *)

LEMMA SameLoop ==
  ASSUME loop' = loop
  PROVE  \A t : (InLoop(t)' <=> InLoop(t))
BY DEF InLoop

(* A handler leaves the tasks of the other requests where they are.           *)
LEMMA HandlerRequests ==
  ASSUME QInv, NEW r \in Requests, RequestOK(r)', UNCHANGED <<slot, loop, returned>>,
         \A q \in Requests : q # r => pc'[q] = pc[q] /\ got'[q] = got[q],
         \A t \in Tasks : t \notin TasksOf[r] =>
           /\ InQueue(t)' <=> InQueue(t)
           /\ CancelQueued(t)' <=> CancelQueued(t)
           /\ InDeferred(t)' <=> InDeferred(t)
           /\ InResults(t)' <=> InResults(t)
           /\ t \in waiting' <=> t \in waiting
  PROVE  Requested'
<1> SUFFICES ASSUME NEW q \in Requests, q # r
             PROVE  RequestOK(q)'
  BY DEF Requested
<1>1. ASSUME NEW t \in TasksOf[q]
      PROVE  /\ Present(t)' <=> Present(t)
             /\ Cancelling(t)' => Cancelling(t)
             /\ t \in waiting' <=> t \in waiting
             /\ t \in returned' => t \in returned
  <2>1. t \in Tasks /\ t \notin TasksOf[r]
    BY OtherTasks
  <2>2. /\ InQueue(t)' <=> InQueue(t)
        /\ CancelQueued(t)' <=> CancelQueued(t)
        /\ InDeferred(t)' <=> InDeferred(t)
        /\ InResults(t)' <=> InResults(t)
        /\ t \in waiting' <=> t \in waiting
    BY <2>1
  <2>3. (InSlot(t)' <=> InSlot(t)) /\ (InLoop(t)' <=> InLoop(t))
    BY SameSlots, SameLoop
  <2>4. Present(t)' <=> Present(t)
    BY <2>2, <2>3 DEF Present
  <2>5. Cancelling(t)' => Cancelling(t)
    BY <2>2 DEF Cancelling
  <2>6. QED
    BY <2>2, <2>4, <2>5
<1>2. RequestOK(q)
  BY DEF QInv, Requested
<1>3. QED
  BY <1>1, <1>2, SameRequest

(* Neither does it touch the queues, unless it posts or cancels.              *)
LEMMA ReceiverKeeps ==
  ASSUME QInv, NEW r \in Requests, RequestOK(r)', Types', NoStrayResult',
         UNCHANGED <<queue, deferred, slot, loop, returned>>,
         \A q \in Requests : q # r => pc'[q] = pc[q] /\ got'[q] = got[q],
         \A t \in Tasks : (InResults(t)' => InResults(t)) /\ Once(results', ResultsFor(t)),
         \A t \in Tasks : t \notin TasksOf[r] =>
           (InResults(t)' <=> InResults(t)) /\ (t \in waiting' <=> t \in waiting)
  PROVE  QInv'
<1>1. \A t : /\ InQueue(t)' <=> InQueue(t)
             /\ CancelQueued(t)' <=> CancelQueued(t)
             /\ InDeferred(t)' <=> InDeferred(t)
             /\ InSlot(t)' <=> InSlot(t)
             /\ InLoop(t)' <=> InLoop(t)
  BY SameQueue, SameDeferred, SameSlots, SameLoop
<1>2. Requested'
  BY <1>1, HandlerRequests
<1>3. Places'
  <2>1. \A t \in Tasks : Apart(t)'
    BY <1>1 DEF QInv, Places, Apart
  <2>2. \A t \in Tasks : Unique(t)'
    BY SameQueue, SameDeferred, SameSlots DEF QInv, Places, Unique
  <2>3. QED
    BY <2>1, <2>2 DEF Places
<1>4. QueueOrder' /\ LoopOrder' /\ DeferredOnce'
  BY DEF QInv, QueueOrder, LoopOrder, DeferredOnce, Returned
<1>5. RoomOK'
  <2>1. Coming' \subseteq Coming
    BY <1>1 DEF Coming
  <2>2. QED
    BY <2>1, SameSlots, RoomKept DEF QInv
<1>6. QED
  BY <1>2, <1>3, <1>4, <1>5 DEF QInv

LEMMA ResultsUnchanged ==
  ASSUME QInv, results' = results
  PROVE  /\ \A t \in Tasks : (InResults(t)' <=> InResults(t)) /\ Once(results', ResultsFor(t))
         /\ waiting \subseteq waiting' => NoStrayResult'
<1>1. \A t \in Tasks : (InResults(t)' <=> InResults(t)) /\ Once(results', ResultsFor(t))
  BY SameResults DEF QInv, Places, Unique
<1>2. waiting \subseteq waiting' => NoStrayResult'
  BY DEF QInv, NoStrayResult
<1>3. QED
  BY <1>1, <1>2

LEMMA EnlistKeeps ==
  ASSUME QInv, NEW r \in Requests, Enlist(r)
  PROVE  QInv'
<1>1. /\ pc[r] = "new" /\ waiting' = waiting \cup TasksOf[r] /\ pc' = [pc EXCEPT ![r] = "enlisted"]
      /\ UNCHANGED <<media, got, results, queue, deferred, slot, loop, returned>>
  BY DEF Enlist
<1>2. pc'[r] = "enlisted" /\ got'[r] = got[r] /\ \A q \in Requests : q # r => pc'[q] = pc[q] /\ got'[q] = got[q]
  BY <1>1 DEF QInv, Types
<1>3. Types'
  <2>1. waiting' \subseteq Tasks
    BY <1>1, TaskFacts DEF QInv, Types
  <2>2. QED
    BY <1>1, <2>1 DEF QInv, Types
<1>4. /\ \A t \in Tasks : (InResults(t)' <=> InResults(t)) /\ Once(results', ResultsFor(t))
      /\ NoStrayResult'
  BY <1>1, ResultsUnchanged
<1>5. RequestOK(r)'
  <2>1. RequestOK(r) /\ NumTasks(r)' = NumTasks(r)
    BY DEF QInv, Requested, NumTasks
  <2>2. \A t \in TasksOf[r] : (Present(t)' <=> Present(t)) /\ (Cancelling(t)' <=> Cancelling(t))
    BY <1>1, SameQueue, SameDeferred, SameSlots, SameResults, SameLoop DEF Present, Cancelling
  <2>3. QED
    BY <1>1, <1>2, <2>1, <2>2 DEF RequestOK
<1>6. \A t \in Tasks : t \notin TasksOf[r] => (t \in waiting' <=> t \in waiting)
  BY <1>1
<1>7. QED
  BY <1>1, <1>2, <1>3, <1>4, <1>5, <1>6, ReceiverKeeps

LEMMA GiveUpKeeps ==
  ASSUME QInv, NEW r \in Requests, GiveUp(r)
  PROVE  QInv'
<1>1. /\ pc[r] = "wait" /\ pc' = [pc EXCEPT ![r] = "cancel"]
      /\ UNCHANGED <<media, got, waiting, results, queue, deferred, slot, loop, returned>>
  BY DEF GiveUp
<1>2. pc'[r] = "cancel" /\ got'[r] = got[r] /\ \A q \in Requests : q # r => pc'[q] = pc[q] /\ got'[q] = got[q]
  BY <1>1 DEF QInv, Types
<1>3. Types'
  BY <1>1 DEF QInv, Types
<1>4. /\ \A t \in Tasks : (InResults(t)' <=> InResults(t)) /\ Once(results', ResultsFor(t))
      /\ NoStrayResult'
  BY <1>1, ResultsUnchanged
<1>5. RequestOK(r)'
  <2>1. RequestOK(r) /\ NumTasks(r)' = NumTasks(r)
    BY DEF QInv, Requested, NumTasks
  <2>2. \A t \in TasksOf[r] : Cancelling(t)' <=> Cancelling(t)
    BY <1>1, SameQueue DEF Cancelling
  <2>3. QED
    BY <1>1, <1>2, <2>1, <2>2 DEF RequestOK
<1>6. QED
  BY <1>1, <1>2, <1>3, <1>4, <1>5, ReceiverKeeps

LEMMA LiveFinite ==
  ASSUME NEW r \in Requests
  PROVE  /\ IsFiniteSet(Live(r)) /\ Cardinality(Live(r)) \in Nat
         /\ NumTasks(r) \in Nat
<1>1. IsFiniteSet(TasksOf[r]) /\ Live(r) \subseteq TasksOf[r]
  BY TaskFacts DEF Live
<1>2. QED
  BY <1>1, FS_Subset, FS_CardinalityType DEF NumTasks

LEMMA FinishKeeps ==
  ASSUME QInv, NEW r \in Requests, Finish(r)
  PROVE  QInv'
<1>1. /\ pc[r] \in {"answered", "cancelled"} /\ waiting' = waiting \ TasksOf[r]
      /\ pc' = [pc EXCEPT ![r] = IF pc[r] = "answered" THEN "done" ELSE "gone"]
      /\ UNCHANGED <<media, got, results, queue, deferred, slot, loop, returned>>
  BY DEF Finish
<1>2. /\ pc'[r] = (IF pc[r] = "answered" THEN "done" ELSE "gone") /\ got'[r] = got[r]
      /\ \A q \in Requests : q # r => pc'[q] = pc[q] /\ got'[q] = got[q]
  BY <1>1 DEF QInv, Types
<1>3. Types'
  BY <1>1, <1>2 DEF QInv, Types
<1>4. RequestOK(r) /\ NumTasks(r)' = NumTasks(r)
  BY DEF QInv, Requested, NumTasks
<1>5. \A t \in Tasks : (InResults(t)' <=> InResults(t)) /\ Once(results', ResultsFor(t))
  BY <1>1, ResultsUnchanged
<1>6. NoStrayResult'
  <2> SUFFICES ASSUME NEW i \in DOMAIN results
               PROVE  results[i].task \notin TasksOf[r]
    BY <1>1 DEF QInv, NoStrayResult
  <2>1. results[i].task \in waiting /\ results[i] \in ResultSet
    BY ElementOfSeq, LenProperties DEF QInv, NoStrayResult, Types
  <2>2. CASE pc[r] = "cancelled"
    BY <1>4, <2>1, <2>2 DEF RequestOK
  <2>3. CASE pc[r] = "answered"
    <3>1. Cardinality(Live(r)) = NumTasks(r) - got[r] /\ got[r] = NumTasks(r)
      BY <1>4, <2>3 DEF RequestOK
    <3>2. Live(r) = {}
      BY <3>1, LiveFinite, FS_EmptySet
    <3>3. InResults(results[i].task)
      BY <2>1 DEF InResults, Has, ResultsFor
    <3>4. QED
      BY <3>2, <3>3 DEF Live, Present
  <2>4. QED
    BY <1>1, <2>2, <2>3
<1>7. RequestOK(r)'
  <2>1. \A t \in TasksOf[r] : Cancelling(t)' <=> Cancelling(t)
    BY <1>1, SameQueue DEF Cancelling
  <2>2. QED
    BY <1>1, <1>2, <1>4, <2>1 DEF RequestOK
<1>8. \A t \in Tasks : t \notin TasksOf[r] => (t \in waiting' <=> t \in waiting)
  BY <1>1
<1>9. QED
  BY <1>1, <1>2, <1>3, <1>5, <1>6, <1>7, <1>8, ReceiverKeeps

(* Results taken out of their queue.                                          *)
LEMMA ResultsKept ==
  ASSUME QInv, NEW I \in SUBSET DOMAIN results, results' = Keep(results, I)
  PROVE  /\ results' \in Seq(ResultSet)
         /\ \A t \in Tasks : /\ InResults(t)' <=> \E i \in I : results[i].task = t
                             /\ InResults(t) <=> \E i \in DOMAIN results : results[i].task = t
                             /\ Once(results', ResultsFor(t))
         /\ (\A i \in I : results[i].task \in waiting') => NoStrayResult'
<1>1. results \in Seq(ResultSet) /\ \A t \in Tasks : Once(results, ResultsFor(t))
  BY DEF QInv, Types, Places, Unique
<1>2. /\ results' \in Seq(ResultSet)
      /\ \A k \in DOMAIN results' : Nth(I, k) \in I /\ results'[k] = results[Nth(I, k)]
  BY <1>1, KeepFacts
<1>3. \A X : /\ Has(results', X) <=> \E i \in I : results[i] \in X
             /\ Once(results, X) => Once(results', X)
  BY <1>1, KeepHas
<1>4. \A i \in DOMAIN results : results[i] \in ResultSet
  BY <1>1, ElementOfSeq, LenProperties
<1>5. \A i \in DOMAIN results : \A t : results[i] \in ResultsFor(t) <=> results[i].task = t
  BY <1>4 DEF ResultsFor
<1>6. \A t \in Tasks : /\ InResults(t)' <=> \E i \in I : results[i].task = t
                       /\ InResults(t) <=> \E i \in DOMAIN results : results[i].task = t
                       /\ Once(results', ResultsFor(t))
  BY <1>1, <1>3, <1>5 DEF InResults, Has
<1>7. (\A i \in I : results[i].task \in waiting') => NoStrayResult'
  BY <1>2 DEF NoStrayResult
<1>8. QED
  BY <1>2, <1>6, <1>7

LEMMA RemoveWaitingKeeps ==
  ASSUME QInv, NEW r \in Requests, NEW t0 \in Tasks, RemoveWaiting(r, t0)
  PROVE  QInv'
<1> DEFINE I == {i \in DOMAIN results : results[i].task # t0}
<1>1. /\ pc[r] = "cancel" /\ t0 \in TasksOf[r] /\ waiting' = waiting \ {t0}
      /\ results' = Keep(results, I) /\ I \in SUBSET DOMAIN results
      /\ UNCHANGED <<media, pc, got, queue, deferred, slot, loop, returned>>
  BY DEF RemoveWaiting, client
<1>2. \A i \in DOMAIN results : i \in I <=> results[i].task # t0
  OBVIOUS
<1> HIDE DEF I
<1>3. /\ results' \in Seq(ResultSet)
      /\ \A t \in Tasks : /\ InResults(t)' <=> \E i \in I : results[i].task = t
                          /\ InResults(t) <=> \E i \in DOMAIN results : results[i].task = t
                          /\ Once(results', ResultsFor(t))
      /\ (\A i \in I : results[i].task \in waiting') => NoStrayResult'
  BY <1>1, ResultsKept
<1>4. NoStrayResult'
  BY <1>1, <1>2, <1>3 DEF QInv, NoStrayResult
<1>5. Types'
  BY <1>1, <1>3 DEF QInv, Types
<1>6. \A t \in Tasks : (InResults(t)' <=> InResults(t) /\ t # t0)
  BY <1>1, <1>2, <1>3
<1>7. RequestOK(r)'
  <2>1. RequestOK(r) /\ NumTasks(r)' = NumTasks(r)
    BY DEF QInv, Requested, NumTasks
  <2>2. \A t \in TasksOf[r] : Cancelling(t)' <=> Cancelling(t)
    BY <1>1, SameQueue DEF Cancelling
  <2>3. pc'[r] = "cancel" /\ got'[r] = got[r]
    BY <1>1
  <2>4. QED
    BY <1>1, <2>1, <2>2, <2>3 DEF RequestOK
<1>8. \A t \in Tasks : t \notin TasksOf[r] => (InResults(t)' <=> InResults(t)) /\ (t \in waiting' <=> t \in waiting)
  BY <1>1, <1>6
<1>9. \A q \in Requests : q # r => pc'[q] = pc[q] /\ got'[q] = got[q]
  BY <1>1
<1>10. \A t \in Tasks : (InResults(t)' => InResults(t)) /\ Once(results', ResultsFor(t))
  BY <1>3, <1>6
<1>11. QED
  BY <1>1, <1>4, <1>5, <1>7, <1>8, <1>9, <1>10, ReceiverKeeps

LEMMA ReceiveKeeps ==
  ASSUME QInv, NEW r \in Requests, Receive(r)
  PROVE  QInv'
<1>1. PICK i \in ResultsOf(r), closed \in BOOLEAN :
        /\ results' = Keep(results, DOMAIN results \ {i})
        /\ IF closed \/ results[i].error
           THEN pc' = [pc EXCEPT ![r] = "cancel"] /\ UNCHANGED got
           ELSE /\ pc' = [pc EXCEPT ![r] = IF got[r] + 1 = NumTasks(r) THEN "answered" ELSE "wait"]
                /\ got' = [got EXCEPT ![r] = @ + 1]
  BY DEF Receive
<1>2. /\ pc[r] = "wait"
      /\ UNCHANGED <<media, waiting, queue, deferred, slot, loop, returned>>
  BY DEF Receive
<1> DEFINE t0 == results[i].task
<1>3. i \in DOMAIN results /\ t0 \in TasksOf[r] /\ t0 \in Tasks
  BY TaskFacts DEF ResultsOf
<1>4. /\ results' \in Seq(ResultSet)
      /\ \A t \in Tasks : /\ InResults(t)' <=> \E j \in DOMAIN results \ {i} : results[j].task = t
                          /\ InResults(t) <=> \E j \in DOMAIN results : results[j].task = t
                          /\ Once(results', ResultsFor(t))
      /\ (\A j \in DOMAIN results \ {i} : results[j].task \in waiting') => NoStrayResult'
  BY <1>1, ResultsKept
<1>5. NoStrayResult'
  BY <1>2, <1>4 DEF QInv, NoStrayResult
<1>6. \A j \in DOMAIN results : results[j].task = t0 => j = i
  <2>1. Once(results, ResultsFor(t0))
    BY <1>3 DEF QInv, Places, Unique
  <2>2. \A j \in DOMAIN results : results[j] \in ResultSet
    BY ElementOfSeq, LenProperties DEF QInv, Types
  <2>3. QED
    BY <1>3, <2>1, <2>2 DEF Once, ResultsFor
<1> HIDE DEF t0
<1>7. \A t \in Tasks : (InResults(t)' <=> InResults(t) /\ t # t0)
  BY <1>3, <1>4, <1>6 DEF t0
<1>8. /\ \A q \in Requests : q # r => pc'[q] = pc[q] /\ got'[q] = got[q]
      /\ \/ pc'[r] = "cancel" /\ got'[r] = got[r]
         \/ /\ pc'[r] = (IF got[r] + 1 = NumTasks(r) THEN "answered" ELSE "wait")
            /\ got'[r] = got[r] + 1
  BY <1>1 DEF QInv, Types
<1>9. Types'
  <2>1. pc' \in [Requests -> {"new", "enlisted", "wait", "cancel", "answered",
                              "cancelled", "done", "gone", "lost"}]
    BY <1>1 DEF QInv, Types
  <2>2. got' \in [Requests -> Nat]
    <3>1. got \in [Requests -> Nat] /\ got[r] + 1 \in Nat
      BY DEF QInv, Types
    <3>2. got' = got \/ got' = [got EXCEPT ![r] = got[r] + 1]
      BY <1>1
    <3>3. QED
      BY <3>1, <3>2
  <2>3. QED
    BY <1>2, <1>4, <2>1, <2>2 DEF QInv, Types
<1>10. RequestOK(r)'
  <2>1. RequestOK(r) /\ NumTasks(r)' = NumTasks(r)
    BY DEF QInv, Requested, NumTasks
  <2>2. \A t \in TasksOf[r] : Cancelling(t)' <=> Cancelling(t)
    BY <1>2, SameQueue DEF Cancelling
  <2>3. /\ Cardinality(Live(r)) = NumTasks(r) - got[r] /\ got[r] <= NumTasks(r)
        /\ got[r] \in Nat /\ TasksOf[r] \subseteq waiting
    BY <1>2, <2>1 DEF RequestOK, QInv, Types
  <2>4. t0 \in Live(r) /\ Live(r)' = Live(r) \ {t0}
    <3>1. InResults(t0)
      BY <1>3, <1>4 DEF t0
    <3>2. \A t \in Tasks : Present(t)' <=> Present(t) /\ t # t0
      <4>1. \A t \in Tasks : InResults(t) => ~InQueue(t) /\ ~InDeferred(t) /\ ~InSlot(t) /\ ~InLoop(t)
        BY DEF QInv, Places, Apart
      <4>2. \A t : /\ InQueue(t)' <=> InQueue(t)
                   /\ InDeferred(t)' <=> InDeferred(t)
                   /\ InSlot(t)' <=> InSlot(t)
                   /\ InLoop(t)' <=> InLoop(t)
        BY <1>2, SameQueue, SameDeferred, SameSlots, SameLoop
      <4>3. QED
        BY <1>7, <3>1, <4>1, <4>2 DEF Present
    <3>3. Present(t0)
      BY <3>1 DEF Present
    <3>4. QED
      BY <1>3, <3>2, <3>3, TaskFacts DEF Live
  <2>5. Cardinality(Live(r)') = Cardinality(Live(r)) - 1 /\ Cardinality(Live(r)) >= 1
    <3>1. Cardinality(Live(r)') = Cardinality(Live(r)) - 1
      BY <2>4, LiveFinite, FS_RemoveElement
    <3>2. Cardinality(Live(r)) # 0
      BY <2>4, LiveFinite, FS_EmptySet
    <3>3. QED
      BY <3>1, <3>2, LiveFinite
  <2>6. CASE pc'[r] = "cancel" /\ got'[r] = got[r]
    BY <1>2, <2>1, <2>2, <2>6 DEF RequestOK
  <2>7. CASE /\ pc'[r] = (IF got[r] + 1 = NumTasks(r) THEN "answered" ELSE "wait")
             /\ got'[r] = got[r] + 1
    <3>1. got'[r] <= NumTasks(r) /\ Cardinality(Live(r)') = NumTasks(r) - got'[r]
      BY <2>3, <2>5, <2>7, LiveFinite
    <3>2. pc'[r] \in {"wait", "answered"} /\ (pc'[r] = "answered" => got'[r] = NumTasks(r))
      BY <2>7
    <3>3. QED
      BY <1>2, <2>1, <2>2, <2>3, <3>1, <3>2 DEF RequestOK
  <2>8. QED
    BY <1>8, <2>6, <2>7
<1>11. \A t \in Tasks : t \notin TasksOf[r] => (InResults(t)' <=> InResults(t)) /\ (t \in waiting' <=> t \in waiting)
  BY <1>2, <1>3, <1>7
<1>12. \A t \in Tasks : (InResults(t)' => InResults(t)) /\ Once(results', ResultsFor(t))
  BY <1>4, <1>7
<1>13. UNCHANGED <<queue, deferred, slot, loop, returned>>
  BY <1>2
<1>14. \A q \in Requests : q # r => pc'[q] = pc[q] /\ got'[q] = got[q]
  BY <1>8
<1>15. QED
  BY <1>5, <1>9, <1>10, <1>11, <1>12, <1>13, <1>14, ReceiverKeeps

LEMMA RunsFacts ==
  ASSUME NEW r \in Requests
  PROVE  LET runs == [i \in 1 .. NumTasks(r) |-> Run(Id(r, i))]
         IN  /\ runs \in Seq(Messages)
             /\ \A i \in DOMAIN runs : \E t \in TasksOf[r] : runs[i] = Run(t)
             /\ \A t \in TasksOf[r] : Has(runs, {Run(t)})
             /\ \A t : Once(runs, {Run(t)})
<1> DEFINE runs == [i \in 1 .. NumTasks(r) |-> Run(Id(r, i))]
           S == TasksOf[r]
<1>1. S \in SUBSET Nat /\ IsFiniteSet(S) /\ S \subseteq Tasks
  BY TaskFacts
<1>2. NumTasks(r) = Cardinality(S) /\ NumTasks(r) \in Nat
  BY LiveFinite DEF NumTasks
<1>3. \A i \in 1 .. NumTasks(r) : runs[i] = Run(Nth(S, i))
  BY DEF Id
<1>4. DOMAIN runs = 1 .. NumTasks(r)
  OBVIOUS
<1>5. \A i \in 1 .. NumTasks(r) : Nth(S, i) \in S
  BY <1>1, <1>2, NthElement
<1>6. runs \in Seq(Messages)
  <2>1. \A i \in 1 .. NumTasks(r) : runs[i] \in Messages
    BY <1>1, <1>3, <1>5, MessageTypes
  <2>2. runs \in [1 .. NumTasks(r) -> Messages]
    BY <2>1
  <2>3. QED
    BY <1>2, <2>2, SeqDef
<1> HIDE DEF runs, S
<1>7. \A t \in S : Has(runs, {Run(t)})
  <2> SUFFICES ASSUME NEW t \in S
               PROVE  Has(runs, {Run(t)})
    OBVIOUS
  <2>1. PICK i \in 1 .. NumTasks(r) : Nth(S, i) = t
    BY <1>1, <1>2, NthReaches
  <2>2. QED
    BY <1>3, <1>4, <2>1 DEF Has
<1>8. ASSUME NEW t, NEW i \in DOMAIN runs, NEW j \in DOMAIN runs, runs[i] = Run(t), runs[j] = Run(t)
      PROVE  i = j
  <2>1. Nth(S, i) = t /\ Nth(S, j) = t
    BY <1>3, <1>4, <1>8, MessageFacts
  <2>2. i \in Nat /\ j \in Nat /\ t \in Nat
    <3>1. i \in 1 .. NumTasks(r) /\ j \in 1 .. NumTasks(r)
      BY <1>4
    <3>2. t \in S
      BY <1>5, <2>1, <3>1
    <3>3. QED
      BY <1>1, <1>2, <3>1, <3>2
  <2>3. ~(i < j) /\ ~(j < i)
    <3>1. i < j => Nth(S, i) < Nth(S, j)
      BY <1>1, <1>2, <1>4, NthGrows
    <3>2. j < i => Nth(S, j) < Nth(S, i)
      BY <1>1, <1>2, <1>4, NthGrows
    <3>3. QED
      BY <2>1, <2>2, <3>1, <3>2
  <2>4. QED
    BY <2>2, <2>3
<1>9. \A i \in DOMAIN runs : \E t \in S : runs[i] = Run(t)
  BY <1>3, <1>4, <1>5
<1>10. \A t : Once(runs, {Run(t)})
  BY <1>8 DEF Once
<1>11. QED
  BY <1>6, <1>7, <1>9, <1>10 DEF runs, S

LEMMA CancelsFacts ==
  ASSUME NEW r \in Requests
  PROVE  LET cancels == [i \in 1 .. NumTasks(r) |-> Cancel(Id(r, NumTasks(r) + 1 - i))]
         IN  /\ cancels \in Seq(Messages)
             /\ \A i \in DOMAIN cancels : \E t \in TasksOf[r] : cancels[i] = Cancel(t)
<1> DEFINE cancels == [i \in 1 .. NumTasks(r) |-> Cancel(Id(r, NumTasks(r) + 1 - i))]
           S == TasksOf[r]
<1>1. S \in SUBSET Nat /\ IsFiniteSet(S) /\ S \subseteq Tasks
  BY TaskFacts
<1>2. NumTasks(r) = Cardinality(S) /\ NumTasks(r) \in Nat
  BY LiveFinite DEF NumTasks
<1>3. \A i \in 1 .. NumTasks(r) : cancels[i] = Cancel(Nth(S, NumTasks(r) + 1 - i))
  BY DEF Id
<1>4. \A i \in 1 .. NumTasks(r) : NumTasks(r) + 1 - i \in 1 .. NumTasks(r)
  BY <1>2
<1>5. \A i \in 1 .. NumTasks(r) : Nth(S, i) \in S
  BY <1>1, <1>2, NthElement
<1>6. \A i \in 1 .. NumTasks(r) : \E t \in S : cancels[i] = Cancel(t)
  BY <1>3, <1>4, <1>5
<1>7. \A i \in 1 .. NumTasks(r) : cancels[i] \in Messages
  BY <1>1, <1>6, MessageTypes
<1>8. cancels \in [1 .. NumTasks(r) -> Messages]
  BY <1>7
<1>9. cancels \in Seq(Messages)
  BY <1>2, <1>8, SeqDef
<1>10. QED
  BY <1>6, <1>9

(* The tasks of a request come into being.                                    *)
LEMMA PostKeeps ==
  ASSUME QInv, NEW r \in Requests, Post(r)
  PROVE  QInv'
<1> DEFINE runs == [i \in 1 .. NumTasks(r) |-> Run(Id(r, i))]
<1>1. /\ pc[r] = "enlisted" /\ queue' = queue \o runs /\ pc' = [pc EXCEPT ![r] = "wait"]
      /\ UNCHANGED <<media, got, waiting, results, deferred, slot, loop, returned>>
  BY DEF Post
<1>2. /\ runs \in Seq(Messages)
      /\ \A i \in DOMAIN runs : \E t \in TasksOf[r] : runs[i] = Run(t)
      /\ \A t \in TasksOf[r] : Has(runs, {Run(t)})
      /\ \A t : Once(runs, {Run(t)})
  BY RunsFacts
<1> HIDE DEF runs
<1>3. queue \in Seq(Messages)
  BY DEF QInv, Types
<1>4. \A X : /\ Has(queue', X) <=> Has(queue, X) \/ Has(runs, X)
             /\ Once(queue, X) /\ Once(runs, X) /\ ~(Has(queue, X) /\ Has(runs, X)) => Once(queue', X)
  BY <1>1, <1>2, <1>3, ConcatHas
<1>5. RequestOK(r) /\ NumTasks(r)' = NumTasks(r)
  BY DEF QInv, Requested, NumTasks
<1>6. got[r] = 0 /\ \A t \in TasksOf[r] : ~Present(t) /\ t \notin returned
  BY <1>1, <1>5 DEF RequestOK
<1>7. \A t : /\ Has(runs, {Run(t)}) <=> t \in TasksOf[r]
             /\ ~Has(runs, {Cancel(t)})
  BY <1>2, MessageFacts DEF Has
<1>8. \A t \in Tasks : /\ InQueue(t)' <=> InQueue(t) \/ t \in TasksOf[r]
                       /\ CancelQueued(t)' <=> CancelQueued(t)
                       /\ Once(queue', {Run(t)})
  <2>1. \A t : /\ InQueue(t)' <=> InQueue(t) \/ t \in TasksOf[r]
               /\ CancelQueued(t)' <=> CancelQueued(t)
    BY <1>4, <1>7 DEF InQueue, CancelQueued
  <2>2. \A t \in TasksOf[r] : ~Has(queue, {Run(t)})
    BY <1>6 DEF Present, InQueue
  <2>3. \A t \in Tasks : Once(queue, {Run(t)})
    BY DEF QInv, Places, Unique
  <2>4. \A t \in Tasks : Once(queue', {Run(t)})
    BY <1>2, <1>4, <1>7, <2>2, <2>3
  <2>5. QED
    BY <2>1, <2>4
<1>9. \A t : /\ InDeferred(t)' <=> InDeferred(t)
             /\ InSlot(t)' <=> InSlot(t)
             /\ InResults(t)' <=> InResults(t)
             /\ InLoop(t)' <=> InLoop(t)
  BY <1>1, SameDeferred, SameSlots, SameResults, SameLoop
<1>10. Types'
  <2>1. queue' \in Seq(Messages)
    BY <1>1, <1>2, <1>3, ConcatProperties
  <2>2. pc' \in [Requests -> {"new", "enlisted", "wait", "cancel", "answered",
                              "cancelled", "done", "gone", "lost"}]
    BY <1>1 DEF QInv, Types
  <2>3. QED
    BY <1>1, <2>1, <2>2 DEF QInv, Types
<1>11. Places'
  <2>1. \A t \in Tasks : Apart(t)'
    <3>1. \A t \in TasksOf[r] : ~InQueue(t) /\ ~InDeferred(t) /\ ~InSlot(t) /\ ~InResults(t) /\ ~InLoop(t)
      BY <1>6 DEF Present
    <3>2. QED
      BY <1>8, <1>9, <3>1 DEF QInv, Places, Apart
  <2>2. \A t \in Tasks : Unique(t)'
    BY <1>1, <1>8, SameDeferred, SameSlots, SameResults DEF QInv, Places, Unique
  <2>3. QED
    BY <2>1, <2>2 DEF Places
<1>12. /\ pc'[r] = "wait" /\ got'[r] = got[r]
       /\ \A q \in Requests : q # r => pc'[q] = pc[q] /\ got'[q] = got[q]
  BY <1>1 DEF QInv, Types
<1>13. RequestOK(r)'
  <2>1. Live(r)' = TasksOf[r]
    <3>1. \A t \in TasksOf[r] : Present(t)'
      BY <1>8, TaskFacts DEF Present
    <3>2. QED
      BY <3>1 DEF Live
  <2>2. Cardinality(Live(r)') = NumTasks(r) - got[r] /\ got[r] <= NumTasks(r)
    BY <1>6, <2>1, LiveFinite DEF NumTasks
  <2>3. \A t \in TasksOf[r] : ~Cancelling(t)'
    <3>1. \A t \in TasksOf[r] : t \in Tasks /\ ~Cancelling(t)
      BY <1>1, <1>5, TaskFacts DEF RequestOK
    <3>2. QED
      BY <1>1, <1>8, <3>1 DEF Cancelling
  <2>4. TasksOf[r] \subseteq waiting'
    BY <1>1, <1>5 DEF RequestOK
  <2>5. QED
    BY <1>5, <1>12, <2>2, <2>3, <2>4 DEF RequestOK
<1>14. Requested'
  <2>1. UNCHANGED <<slot, loop, returned>> /\ waiting' = waiting
    BY <1>1
  <2>2. QED
    BY <1>8, <1>9, <1>12, <1>13, <2>1, HandlerRequests
<1>15. NoStrayResult' /\ DeferredOnce' /\ Returned' = Returned
  BY <1>1 DEF QInv, NoStrayResult, DeferredOnce, Returned
<1>16. ~Has(runs, Returned)
  <2>1. \A t \in TasksOf[r] : Run(t) \notin Returned
    BY <1>6, MessageFacts DEF Returned
  <2>2. QED
    BY <1>2, <2>1 DEF Has
<1>17. QueueOrder'
  <2>1. /\ \A i \in DOMAIN queue : queue'[i] = queue[i]
        /\ \A i \in DOMAIN queue' : i \in DOMAIN queue \/ \E k \in DOMAIN runs : queue'[i] = runs[k]
        /\ \A i \in DOMAIN queue, j \in DOMAIN queue' : j < i => j \in DOMAIN queue
    <3>1. /\ queue' \in Seq(Messages) /\ Len(queue') = Len(queue) + Len(runs)
          /\ \A i \in 1 .. Len(queue) + Len(runs) :
               queue'[i] = IF i <= Len(queue) THEN queue[i] ELSE runs[i - Len(queue)]
      BY <1>1, <1>2, <1>3, ConcatProperties
    <3>2. /\ DOMAIN queue = 1 .. Len(queue) /\ DOMAIN queue' = 1 .. Len(queue) + Len(runs)
          /\ DOMAIN runs = 1 .. Len(runs) /\ Len(queue) \in Nat /\ Len(runs) \in Nat
      BY <1>2, <1>3, <3>1, LenProperties
    <3>3. \A i \in DOMAIN queue : queue'[i] = queue[i]
      BY <3>1, <3>2
    <3>4. \A i \in DOMAIN queue' : i \in DOMAIN queue \/ (i - Len(queue) \in DOMAIN runs /\ queue'[i] = runs[i - Len(queue)])
      BY <3>1, <3>2
    <3>5. \A i \in DOMAIN queue, j \in DOMAIN queue' : j < i => j \in DOMAIN queue
      BY <3>2
    <3>6. QED
      BY <3>3, <3>4, <3>5
  <2> SUFFICES ASSUME NEW i \in DOMAIN queue', NEW j \in DOMAIN queue', j < i,
                      queue'[i] \in Returned, queue'[j].type = "run"
               PROVE  queue'[j] \in Returned
    BY <1>15 DEF QueueOrder
  <2>2. i \in DOMAIN queue /\ queue'[i] = queue[i]
    BY <1>16, <2>1 DEF Has
  <2>3. j \in DOMAIN queue /\ queue'[j] = queue[j]
    BY <2>1, <2>2
  <2>4. QED
    BY <2>2, <2>3 DEF QInv, QueueOrder
<1>18. LoopOrder'
  <2>1. Has(queue', Returned) <=> Has(queue, Returned)
    BY <1>4, <1>16
  <2>2. QED
    BY <1>1, <1>15, <2>1 DEF QInv, LoopOrder
<1>19. RoomOK'
  <2>1. \A t \in returned : t \in Tasks /\ t \notin TasksOf[r]
    BY <1>6 DEF QInv, Types
  <2>2. Coming' \subseteq Coming
    BY <1>1, <1>8, <1>9, <2>1 DEF Coming
  <2>3. QED
    BY <1>1, <1>10, <2>2, SameSlots, RoomKept DEF QInv
<1>20. QED
  BY <1>10, <1>11, <1>14, <1>15, <1>17, <1>18, <1>19 DEF QInv

(* Its tasks are erased from both queues, and their cancels put in front.     *)
LEMMA PostCancelKeeps ==
  ASSUME QInv, NEW r \in Requests, PostCancel(r)
  PROVE  QInv'
<1> DEFINE cancels == [i \in 1 .. NumTasks(r) |-> Cancel(Id(r, NumTasks(r) + 1 - i))]
           I == {i \in DOMAIN queue : queue[i] \notin {Run(t) : t \in TasksOf[r]}}
           J == {i \in DOMAIN deferred : deferred[i] \notin TasksOf[r]}
           kept == Keep(queue, I)
<1>1. /\ pc[r] = "cancel" /\ TasksOf[r] \cap waiting = {}
      /\ queue' = cancels \o kept /\ deferred' = Keep(deferred, J)
      /\ pc' = [pc EXCEPT ![r] = "cancelled"]
      /\ UNCHANGED <<media, got, waiting, results, slot, loop, returned>>
  BY DEF PostCancel
<1>2. /\ cancels \in Seq(Messages)
      /\ \A i \in DOMAIN cancels : \E t \in TasksOf[r] : cancels[i] = Cancel(t)
  BY CancelsFacts
<1>3. /\ queue \in Seq(Messages) /\ deferred \in Seq(Tasks)
      /\ \A t \in Tasks : Once(queue, {Run(t)}) /\ Once(deferred, {t})
  BY DEF QInv, Types, Places, Unique
<1>4. I \in SUBSET DOMAIN queue /\ J \in SUBSET DOMAIN deferred
  OBVIOUS
<1>5. \A i : /\ i \in I <=> i \in DOMAIN queue /\ \A t \in TasksOf[r] : queue[i] # Run(t)
             /\ i \in J <=> i \in DOMAIN deferred /\ deferred[i] \notin TasksOf[r]
  OBVIOUS
<1> HIDE DEF cancels, I, J
<1>6. /\ kept \in Seq(Messages)
      /\ \A k \in DOMAIN kept : Nth(I, k) \in I /\ kept[k] = queue[Nth(I, k)]
      /\ \A k, l \in DOMAIN kept : k < l => Nth(I, k) < Nth(I, l)
  BY <1>3, <1>4, KeepFacts
<1>7. \A X : /\ Has(kept, X) <=> \E i \in I : queue[i] \in X
             /\ Once(queue, X) => Once(kept, X)
  BY <1>3, <1>4, KeepHas
<1>8. /\ deferred' \in Seq(Tasks)
      /\ \A k \in DOMAIN deferred' : Nth(J, k) \in J /\ deferred'[k] = deferred[Nth(J, k)]
  BY <1>1, <1>3, <1>4, KeepFacts
<1>9. \A X : /\ Has(deferred', X) <=> \E i \in J : deferred[i] \in X
             /\ Once(deferred, X) => Once(deferred', X)
  BY <1>1, <1>3, <1>4, KeepHas
<1> HIDE DEF kept
<1>10. \A X : /\ Has(queue', X) <=> Has(cancels, X) \/ Has(kept, X)
              /\ Once(cancels, X) /\ Once(kept, X) /\ ~(Has(cancels, X) /\ Has(kept, X)) => Once(queue', X)
  BY <1>1, <1>2, <1>6, ConcatHas
<1>11. \A t : /\ ~Has(cancels, {Run(t)})
              /\ Has(cancels, {Cancel(t)}) => t \in TasksOf[r]
  BY <1>2, MessageFacts DEF Has
<1>12. \A t \in Tasks : /\ InQueue(t)' <=> InQueue(t) /\ t \notin TasksOf[r]
                        /\ t \notin TasksOf[r] => (CancelQueued(t)' <=> CancelQueued(t))
                        /\ InDeferred(t)' <=> InDeferred(t) /\ t \notin TasksOf[r]
                        /\ Once(queue', {Run(t)}) /\ Once(deferred', {t})
  <2> SUFFICES ASSUME NEW t \in Tasks
               PROVE  /\ InQueue(t)' <=> InQueue(t) /\ t \notin TasksOf[r]
                      /\ t \notin TasksOf[r] => (CancelQueued(t)' <=> CancelQueued(t))
                      /\ InDeferred(t)' <=> InDeferred(t) /\ t \notin TasksOf[r]
                      /\ Once(queue', {Run(t)}) /\ Once(deferred', {t})
    OBVIOUS
  <2>1. Has(kept, {Run(t)}) <=> Has(queue, {Run(t)}) /\ t \notin TasksOf[r]
    <3>1. Has(kept, {Run(t)}) <=> \E i \in I : queue[i] = Run(t)
      BY <1>7
    <3>2. Has(queue, {Run(t)}) <=> \E i \in DOMAIN queue : queue[i] = Run(t)
      BY DEF Has
    <3>3. \A u : Run(u) = Run(t) => u = t
      BY MessageFacts
    <3>4. \A i \in DOMAIN queue : queue[i] = Run(t) => (i \in I <=> t \notin TasksOf[r])
      BY <1>5, <3>3
    <3>5. QED
      BY <1>5, <3>1, <3>2, <3>4
  <2>2. Has(kept, {Cancel(t)}) <=> Has(queue, {Cancel(t)})
    BY <1>5, <1>7, MessageFacts DEF Has
  <2>3. Has(deferred', {t}) <=> Has(deferred, {t}) /\ t \notin TasksOf[r]
    BY <1>9, <1>5 DEF Has
  <2>4. Once(cancels, {Run(t)})
    BY <1>11 DEF Once, Has
  <2>5. Once(queue', {Run(t)})
    BY <1>3, <1>7, <1>10, <1>11, <2>4
  <2>6. Once(deferred', {t})
    BY <1>3, <1>9
  <2>7. QED
    BY <1>10, <1>11, <2>1, <2>2, <2>3, <2>5, <2>6 DEF InQueue, InDeferred, CancelQueued
<1>13. \A t : /\ InSlot(t)' <=> InSlot(t)
              /\ InResults(t)' <=> InResults(t)
              /\ InLoop(t)' <=> InLoop(t)
  BY <1>1, SameSlots, SameResults, SameLoop
<1>14. Types'
  <2>1. queue' \in Seq(Messages)
    BY <1>1, <1>2, <1>6, ConcatProperties
  <2>2. pc' \in [Requests -> {"new", "enlisted", "wait", "cancel", "answered",
                              "cancelled", "done", "gone", "lost"}]
    BY <1>1 DEF QInv, Types
  <2>3. QED
    BY <1>1, <1>8, <2>1, <2>2 DEF QInv, Types
<1>15. Places'
  <2>1. \A t \in Tasks : Apart(t)'
    BY <1>12, <1>13 DEF QInv, Places, Apart
  <2>2. \A t \in Tasks : Unique(t)'
    BY <1>1, <1>12, SameSlots, SameResults DEF QInv, Places, Unique
  <2>3. QED
    BY <2>1, <2>2 DEF Places
<1>16. /\ pc'[r] = "cancelled" /\ got'[r] = got[r]
       /\ \A q \in Requests : q # r => pc'[q] = pc[q] /\ got'[q] = got[q]
  BY <1>1 DEF QInv, Types
<1>17. RequestOK(r)'
  <2>1. RequestOK(r) /\ NumTasks(r)' = NumTasks(r)
    BY DEF QInv, Requested, NumTasks
  <2>2. QED
    BY <1>1, <1>16, <2>1 DEF RequestOK
<1>18. Requested'
  <2>1. UNCHANGED <<slot, loop, returned>> /\ waiting' = waiting
    BY <1>1
  <2>2. QED
    BY <1>12, <1>13, <1>16, <1>17, <2>1, HandlerRequests
<1>19. NoStrayResult' /\ Returned' = Returned
  BY <1>1 DEF QInv, NoStrayResult, Returned
<1>20. ~Has(cancels, Returned)
  BY <1>2, MessageFacts DEF Has, Returned
<1>21. QueueOrder'
  <2>1. /\ queue' \in Seq(Messages) /\ Len(queue') = Len(cancels) + Len(kept)
        /\ \A i \in 1 .. Len(cancels) + Len(kept) :
             queue'[i] = IF i <= Len(cancels) THEN cancels[i] ELSE kept[i - Len(cancels)]
    BY <1>1, <1>2, <1>6, ConcatProperties
  <2>2. /\ DOMAIN cancels = 1 .. Len(cancels) /\ DOMAIN queue' = 1 .. Len(cancels) + Len(kept)
        /\ DOMAIN kept = 1 .. Len(kept) /\ Len(cancels) \in Nat /\ Len(kept) \in Nat
    BY <1>2, <1>6, <2>1, LenProperties
  <2> SUFFICES ASSUME NEW i \in DOMAIN queue', NEW j \in DOMAIN queue', j < i,
                      queue'[i] \in Returned, queue'[j].type = "run"
               PROVE  queue'[j] \in Returned
    BY <1>19 DEF QueueOrder
  <2>3. \A k \in DOMAIN queue' : \/ k \in DOMAIN cancels /\ queue'[k] = cancels[k]
                                 \/ k - Len(cancels) \in DOMAIN kept /\ queue'[k] = kept[k - Len(cancels)]
    BY <2>1, <2>2
  <2>4. \A k \in DOMAIN cancels : cancels[k].type # "run" /\ cancels[k] \notin Returned
    BY <1>2, MessageFacts DEF Returned
  <2>5. /\ i - Len(cancels) \in DOMAIN kept /\ queue'[i] = kept[i - Len(cancels)]
        /\ j - Len(cancels) \in DOMAIN kept /\ queue'[j] = kept[j - Len(cancels)]
    BY <2>3, <2>4
  <2> DEFINE k == Nth(I, i - Len(cancels))
             l == Nth(I, j - Len(cancels))
  <2>6. j - Len(cancels) < i - Len(cancels)
    BY <2>2
  <2>7. /\ k \in DOMAIN queue /\ l \in DOMAIN queue /\ l < k
        /\ queue'[i] = queue[k] /\ queue'[j] = queue[l]
    BY <1>5, <1>6, <2>5, <2>6
  <2> HIDE DEF k, l
  <2>8. QED
    BY <2>7 DEF QInv, QueueOrder
<1>22. LoopOrder'
  <2>1. Has(queue', Returned) => Has(queue, Returned)
    BY <1>5, <1>7, <1>10, <1>20 DEF Has
  <2>2. QED
    BY <1>1, <1>19, <2>1 DEF QInv, LoopOrder
<1>23. DeferredOnce'
  BY <1>1, <1>8, <1>5 DEF QInv, DeferredOnce
<1>24. RoomOK'
  <2>1. \A t \in returned : t \in Tasks
    BY DEF QInv, Types
  <2>2. Coming' \subseteq Coming
    BY <1>1, <1>12, <1>13, <2>1 DEF Coming
  <2>3. QED
    BY <1>1, <1>14, <2>2, SameSlots, RoomKept DEF QInv
<1>25. QED
  BY <1>14, <1>15, <1>18, <1>19, <1>21, <1>22, <1>23, <1>24 DEF QInv

-----------------------------------------------------------------------------
(* The invariant.                                                             *)

LEMMA InitKeeps ==
  ASSUME Init
  PROVE  QInv
<1>1. /\ media \subseteq MaybeMedia /\ pc = [r \in Requests |-> "new"] /\ got = [r \in Requests |-> 0]
      /\ waiting = {} /\ results = <<>> /\ queue = <<>> /\ deferred = <<>>
      /\ slot = [s \in Slots |-> Idle] /\ loop = At("pop") /\ returned = {}
  BY DEF Init
<1>2. loop \in LoopSet /\ loop.at = "pop"
  BY <1>1, LoopFacts
<1>3. \A s \in Slots : slot[s] = Idle
  BY <1>1
<1>4. \A t \in Tasks : ~Present(t) /\ ~Cancelling(t)
  <2>1. \A X : ~Has(queue, X) /\ ~Has(deferred, X) /\ ~Has(results, X)
    BY <1>1 DEF Has
  <2>2. \A t \in Tasks : ~InSlot(t)
    BY <1>3, SlotFacts DEF InSlot
  <2>3. QED
    BY <1>2, <2>1, <2>2 DEF Present, InQueue, InDeferred, InResults, InLoop, Cancelling, CancelQueued
<1>5. Types
  <2>1. slot \in [Slots -> SlotSet]
    BY <1>1, SlotFacts
  <2>2. IsFiniteSet(returned)
    BY <1>1, FS_EmptySet
  <2>3. results \in Seq(ResultSet) /\ queue \in Seq(Messages) /\ deferred \in Seq(Tasks)
    BY <1>1
  <2>4. QED
    BY <1>1, <1>2, <2>1, <2>2, <2>3 DEF Types
<1>6. Places
  <2>1. \A t \in Tasks : Apart(t)
    BY <1>4 DEF Present, Apart
  <2>2. \A t \in Tasks : Unique(t)
    <3>1. \A X : Once(queue, X) /\ Once(deferred, X) /\ Once(results, X)
      BY <1>1 DEF Once
    <3>2. \A t \in Tasks : OneSlot(t)
      BY <1>3, SlotFacts DEF OneSlot
    <3>3. QED
      BY <3>1, <3>2 DEF Unique
  <2>3. QED
    BY <2>1, <2>2 DEF Places
<1>7. Requested
  <2> SUFFICES ASSUME NEW r \in Requests
               PROVE  RequestOK(r)
    BY DEF Requested
  <2>1. pc[r] = "new" /\ got[r] = 0
    BY <1>1
  <2>2. \A t \in TasksOf[r] : ~Present(t) /\ ~Cancelling(t) /\ t \notin returned
    BY <1>1, <1>4, TaskFacts
  <2>3. 0 <= NumTasks(r)
    BY LiveFinite
  <2>4. QED
    BY <2>1, <2>2, <2>3 DEF RequestOK
<1>8. NoStrayResult /\ QueueOrder /\ DeferredOnce
  BY <1>1 DEF NoStrayResult, QueueOrder, DeferredOnce
<1>9. LoopOrder
  BY <1>2 DEF LoopOrder
<1>10. RoomOK
  <2>1. Coming = {}
    BY <1>1 DEF Coming
  <2>2. QED
    BY <2>1, IdleFinite, FS_EmptySet DEF RoomOK
<1>11. QED
  BY <1>5, <1>6, <1>7, <1>8, <1>9, <1>10 DEF QInv

LEMMA StutterKeeps ==
  ASSUME QInv, UNCHANGED vars
  PROVE  QInv'
<1>1. UNCHANGED <<media, pc, got, waiting, results, queue, deferred, slot, loop, returned>>
  BY DEF vars, client
<1>2. \A t : /\ Present(t)' <=> Present(t)
             /\ Cancelling(t)' <=> Cancelling(t)
             /\ Apart(t)' <=> Apart(t)
             /\ Unique(t)' <=> Unique(t)
             /\ InQueue(t)' <=> InQueue(t)
             /\ InLoop(t)' <=> InLoop(t)
  BY <1>1, SameQueue, SameDeferred, SameSlots, SameResults, SameLoop
     DEF Present, Cancelling, Apart, Unique
<1>3. Types'
  BY <1>1 DEF QInv, Types
<1>4. Places'
  BY <1>2 DEF QInv, Places
<1>5. Requested'
  BY <1>1, <1>2, SameRequest DEF QInv, Requested
<1>6. NoStrayResult' /\ QueueOrder' /\ LoopOrder' /\ DeferredOnce'
  BY <1>1 DEF QInv, NoStrayResult, QueueOrder, LoopOrder, DeferredOnce, Returned
<1>7. RoomOK'
  <2>1. Coming' \subseteq Coming
    BY <1>1, <1>2 DEF Coming
  <2>2. QED
    BY <1>1, <1>3, <2>1, SameSlots, RoomKept DEF QInv
<1>8. QED
  BY <1>3, <1>4, <1>5, <1>6, <1>7 DEF QInv

LEMMA NextKeeps ==
  ASSUME QInv, [Next]_vars
  PROVE  QInv'
<1>1. CASE Loop
  BY <1>1, LoopKeeps
<1>2. ASSUME NEW r \in Requests, Handler(r) \/ GiveUp(r)
      PROVE  QInv'
  BY <1>2, EnlistKeeps, PostKeeps, ReceiveKeeps, RemoveWaitingKeeps, PostCancelKeeps, FinishKeeps,
     GiveUpKeeps DEF Handler
<1>3. CASE UNCHANGED vars
  BY <1>3, StutterKeeps
<1>4. QED
  BY <1>1, <1>2, <1>3 DEF Next

(* The inductive invariant: where every task is, what a handler's place says  *)
(* of its tasks, and why a returned task finds a slot.                        *)
THEOREM QueueInvariant == Spec => []QInv
<1>1. Init => QInv
  BY InitKeeps
<1>2. QInv /\ [Next]_vars => QInv'
  BY NextKeeps
<1>3. QED
  BY <1>1, <1>2, PTL DEF Spec

-----------------------------------------------------------------------------
(* The properties.                                                            *)

(* The types of the shared state, and the message or slot the loop has.       *)
THEOREM QueueTypes == Spec => []QueueTypeOK
<1>1. QInv => QueueTypeOK
  <2> SUFFICES ASSUME QInv
               PROVE  QueueTypeOK
    OBVIOUS
  <2>1. \A r \in Requests : got[r] \in 0 .. NumTasks(r)
    <3> SUFFICES ASSUME NEW r \in Requests
                 PROVE  got[r] \in 0 .. NumTasks(r)
      OBVIOUS
    <3>1. got[r] \in Nat /\ got[r] <= NumTasks(r) /\ NumTasks(r) \in Nat
      BY LiveFinite DEF QInv, Types, Requested, RequestOK
    <3>2. QED
      BY <3>1
  <2>2. loop \in LoopSet
    BY DEF QInv, Types
  <2>3. /\ loop.at \in {"pop", "process", "update", "decoded", "failed", "wait", "crashed"}
        /\ loop.msg \in [type : {"run", "cancel"}, task : Tasks] \cup {NextResponse}
    BY <2>2 DEF LoopSet, Messages
  <2>4. QED
    BY <2>1, <2>3 DEF QInv, Types, QueueTypeOK, ResultSet, Messages, SlotSet
<1>2. QED
  BY <1>1, QueueInvariant, PTL

(* Every result left in queue_results is one a handler still waits for.       *)
THEOREM QueueNoStray == Spec => []NoStrayResult
<1>1. QInv => NoStrayResult
  BY DEF QInv
<1>2. QED
  BY <1>1, QueueInvariant, PTL

(* pop_deferred_task puts the task in front of the queue, where no task can   *)
(* overtake it to the slot: one pinned to no slot is deferred only once.      *)
THEOREM QueueDeferredOnce == Spec => []DeferredOnce
<1>1. QInv => DeferredOnce
  BY DEF QInv
<1>2. QED
  BY <1>1, QueueInvariant, PTL

LEMMA CopiesFacts ==
  ASSUME QInv
  PROVE  /\ \A t \in Tasks : /\ \A x, y \in Copies(t) : x = y
                             /\ Copies(t) # {} <=> Present(t)
         /\ \A t, u : t # u => Copies(t) \cap Copies(u) = {}
<1>1. ASSUME NEW t
      PROVE  \A x : x \in Copies(t) <=>
                 \/ \E i \in DOMAIN queue : x = <<"queue", i>> /\ queue[i] = Run(t)
                 \/ \E i \in DOMAIN deferred : x = <<"deferred", i>> /\ deferred[i] = t
                 \/ \E s \in Slots : x = <<"slot", s>> /\ slot[s].task = t
                 \/ \E i \in DOMAIN results : x = <<"result", i>> /\ results[i].task = t
                 \/ x = <<"loop", 0>> /\ InLoop(t)
  BY DEF Copies, InLoop
<1>2. ASSUME NEW t \in Tasks
      PROVE  /\ \A x, y \in Copies(t) : x = y
             /\ Copies(t) # {} <=> Present(t)
  <2>1. /\ InQueue(t) <=> \E i \in DOMAIN queue : queue[i] = Run(t)
        /\ InDeferred(t) <=> \E i \in DOMAIN deferred : deferred[i] = t
        /\ InSlot(t) <=> \E s \in Slots : slot[s].task = t
        /\ InResults(t) <=> \E i \in DOMAIN results : results[i].task = t
    <3>1. \A i \in DOMAIN results : results[i] \in ResultSet
      BY ElementOfSeq, LenProperties DEF QInv, Types
    <3>2. QED
      BY <3>1 DEF InQueue, InDeferred, InSlot, InResults, Has, ResultsFor
  <2>2. Copies(t) # {} <=> Present(t)
    BY <1>1, <2>1 DEF Present
  <2>3. Unique(t) /\ Apart(t)
    BY DEF QInv, Places
  <2>4. /\ \A i, j \in DOMAIN queue : queue[i] = Run(t) /\ queue[j] = Run(t) => i = j
        /\ \A i, j \in DOMAIN deferred : deferred[i] = t /\ deferred[j] = t => i = j
        /\ \A s, q \in Slots : slot[s].task = t /\ slot[q].task = t => s = q
        /\ \A i, j \in DOMAIN results : results[i].task = t /\ results[j].task = t => i = j
    <3>1. \A i \in DOMAIN results : results[i] \in ResultSet
      BY ElementOfSeq, LenProperties DEF QInv, Types
    <3>2. QED
      BY <2>3, <3>1 DEF Unique, Once, OneSlot, ResultsFor
  <2>5. \A x, y \in Copies(t) : x = y
    <3> SUFFICES ASSUME NEW x \in Copies(t), NEW y \in Copies(t)
                 PROVE  x = y
      OBVIOUS
    <3>1. CASE InQueue(t)
      BY <1>1, <2>1, <2>3, <2>4, <3>1 DEF Apart
    <3>2. CASE InDeferred(t)
      BY <1>1, <2>1, <2>3, <2>4, <3>2 DEF Apart
    <3>3. CASE InSlot(t)
      BY <1>1, <2>1, <2>3, <2>4, <3>3 DEF Apart
    <3>4. CASE InResults(t)
      BY <1>1, <2>1, <2>3, <2>4, <3>4 DEF Apart
    <3>5. CASE InLoop(t)
      BY <1>1, <2>1, <2>3, <3>5 DEF Apart
    <3>6. QED
      BY <2>2, <3>1, <3>2, <3>3, <3>4, <3>5 DEF Present
  <2>6. QED
    BY <2>2, <2>5
<1>3. ASSUME NEW t, NEW u, t # u, NEW x \in Copies(t), x \in Copies(u)
      PROVE  FALSE
  <2>1. InLoop(t) => ~InLoop(u)
    BY <1>3, MessageFacts DEF InLoop
  <2>2. Run(t) # Run(u)
    BY <1>3, MessageFacts
  <2>3. QED
    BY <1>1, <1>3, <2>1, <2>2
<1>4. QED
  BY <1>2, <1>3

(* No task has two copies, and a request that waits has one of each task it   *)
(* has no result of: the copies are as many as the live tasks.                *)
THEOREM QueueEachTaskOnce == Spec => []EachTaskOnce
<1>1. QInv => EachTaskOnce
  <2> SUFFICES ASSUME QInv
               PROVE  EachTaskOnce
    OBVIOUS
  <2>1. ASSUME NEW t \in Tasks
        PROVE  Cardinality(Copies(t)) <= 1
    <3>1. PICK x : Copies(t) \subseteq {x}
      BY CopiesFacts
    <3>2. IsFiniteSet({x}) /\ Cardinality({x}) = 1
      BY FS_Singleton
    <3>3. QED
      BY <3>1, <3>2, FS_Subset
  <2>2. ASSUME NEW r \in Requests, pc[r] = "wait"
        PROVE  Cardinality(UNION {Copies(t) : t \in TasksOf[r]}) = NumTasks(r) - got[r]
    <3> DEFINE U == UNION {Copies(t) : t \in TasksOf[r]}
               f == [t \in Live(r) |-> CHOOSE x \in Copies(t) : TRUE]
    <3>1. \A t \in TasksOf[r] : t \in Tasks
      BY TaskFacts
    <3>2. \A t \in Live(r) : f[t] \in Copies(t) /\ t \in TasksOf[r]
      BY <3>1, CopiesFacts DEF Live
    <3>3. f \in [Live(r) -> U]
      BY <3>2
    <3>4. \A t, u \in Live(r) : f[t] = f[u] => t = u
      BY <3>2, CopiesFacts
    <3>5. \A x \in U : \E t \in Live(r) : f[t] = x
      <4> SUFFICES ASSUME NEW t \in TasksOf[r], NEW x \in Copies(t)
                   PROVE  \E u \in Live(r) : f[u] = x
        OBVIOUS
      <4>1. t \in Live(r)
        BY <3>1, CopiesFacts DEF Live
      <4>2. f[t] = x
        BY <3>1, <3>2, <4>1, CopiesFacts
      <4>3. QED
        BY <4>1, <4>2
    <3>6. f \in Bijection(Live(r), U)
      <4> HIDE DEF f, U
      <4>1. QED
        BY <3>3, <3>4, <3>5 DEF Bijection, Injection, Surjection, IsInjective
    <3>7. Cardinality(U) = Cardinality(Live(r))
      <4>1. ExistsBijection(Live(r), U)
        BY <3>6 DEF ExistsBijection
      <4> HIDE DEF f, U
      <4>2. QED
        BY <4>1, LiveFinite, FS_Bijection
    <3>8. QED
      BY <2>2, <3>7 DEF QInv, Requested, RequestOK
  <2>3. QED
    BY <2>1, <2>2 DEF EachTaskOnce
<1>2. QED
  BY <1>1, QueueInvariant, PTL

=============================================================================
