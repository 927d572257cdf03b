----------------------- MODULE KernelDataflowProofs -----------------------
(***************************************************************************)
(* Theorems about the DATAFLOW region, for every number of heads, rows and  *)
(* columns and every depth of the streams.                                  *)
(*                                                                          *)
(* The loops of a function are unrolled into the sequence of its reads and  *)
(* writes; Trace gives what it has done on one stream after some of them,   *)
(* Elements what it does altogether.  Every stream has one function that    *)
(* writes it and one that reads it, so that it holds what the one has       *)
(* written and the other has not yet taken.  What the orders of the two     *)
(* ends say of that difference gives the theorems.                          *)
(***************************************************************************)
EXTENDS KernelDataflow, SequenceTheorems, WellFoundedInduction, TLAPS

-----------------------------------------------------------------------------
(* Loops.                                                                     *)

(* What holds of 0 and of the successor of each number it holds of.           *)
LEMMA Upwards ==
  ASSUME NEW S \in SUBSET Nat, 0 \in S, \A n \in S : n + 1 \in S
  PROVE  \A n \in Nat : n \in S
<1> SUFFICES ASSUME Nat \ S # {} PROVE FALSE
  OBVIOUS
<1>1. PICK d \in Nat \ S : \A e \in Nat \ S : ~(<<e, d>> \in OpToRel(<, Nat))
  BY NatLessThanWellFounded, WFMin, Zenon
<1>2. \A e \in Nat \ S : ~(e < d)
  BY <1>1 DEF OpToRel
<1>3. d - 1 \in S
  BY <1>2
<1>4. (d - 1) + 1 = d
  OBVIOUS
<1>5. QED
  BY <1>3, <1>4

(* The recursion of Unrolled, up to m.                                        *)
UpTo(g, body, m) == g = [i \in 0 .. m |-> IF i = 0 THEN <<>> ELSE g[i - 1] \o body[i - 1]]

(* There is such a function, and only one.                                    *)
LEMMA UpToExists ==
  ASSUME NEW body, NEW n \in Nat
  PROVE  \E g : UpTo(g, body, n)
<1> DEFINE S == {m \in Nat : \E g : UpTo(g, body, m)}
<1>1. UpTo([i \in 0 .. 0 |-> <<>>], body, 0)
  BY DEF UpTo
<1>2. ASSUME NEW m \in S PROVE m + 1 \in S
  <2>1. PICK g : UpTo(g, body, m)
    OBVIOUS
  <2> DEFINE h == [i \in 0 .. m + 1 |-> IF i <= m THEN g[i] ELSE g[m] \o body[m]]
  <2>2. \A i \in 0 .. m : g[i] = IF i = 0 THEN <<>> ELSE g[i - 1] \o body[i - 1]
    BY <2>1 DEF UpTo
  <2>3. \A i \in 0 .. m + 1 : h[i] = IF i = 0 THEN <<>> ELSE h[i - 1] \o body[i - 1]
    <3> SUFFICES ASSUME NEW i \in 0 .. m + 1 
                 PROVE  h[i] = IF i = 0 THEN <<>> ELSE h[i - 1] \o body[i - 1]
      OBVIOUS
    <3>1. CASE i <= m
      BY <3>1, <2>2
    <3>2. CASE i = m + 1
      <4>1. h[i] = g[m] \o body[m] /\ h[i - 1] = g[m] /\ i - 1 = m /\ i # 0
        BY <3>2
      <4>2. QED
        BY <4>1
    <3>3. QED
      BY <3>1, <3>2
  <2>4. h = [i \in 0 .. m + 1 |-> IF i = 0 THEN <<>> ELSE h[i - 1] \o body[i - 1]]
    <3>1. h = [i \in 0 .. m + 1 |-> h[i]]
      OBVIOUS
    <3> HIDE DEF h
    <3>2. QED
      BY <3>1, <2>3
  <2> HIDE DEF h
  <2>5. QED
    BY <2>4 DEF UpTo
<1>3. 0 \in S
  BY <1>1
<1> HIDE DEF S
<1>4. \A m \in Nat : m \in S
  BY <1>2, <1>3, Upwards DEF S
<1>5. QED
  BY <1>4 DEF S

LEMMA UpToUnique ==
  ASSUME NEW body, NEW m \in Nat, NEW n \in Nat, NEW g, NEW h,
         UpTo(g, body, m), UpTo(h, body, n)
  PROVE  \A i \in Nat : i <= m /\ i <= n => g[i] = h[i]
<1> DEFINE S == {i \in Nat : i <= m /\ i <= n => g[i] = h[i]}
<1>1. \A i \in 0 .. m : g[i] = IF i = 0 THEN <<>> ELSE g[i - 1] \o body[i - 1]
  BY DEF UpTo
<1>2. \A i \in 0 .. n : h[i] = IF i = 0 THEN <<>> ELSE h[i - 1] \o body[i - 1]
  BY DEF UpTo
<1>3. 0 \in S
  BY <1>1, <1>2
<1>4. ASSUME NEW i \in S PROVE i + 1 \in S
  <2> SUFFICES ASSUME i + 1 <= m, i + 1 <= n PROVE g[i + 1] = h[i + 1]
    OBVIOUS
  <2>1. g[i + 1] = g[i] \o body[i] /\ h[i + 1] = h[i] \o body[i]
    <3>1. i + 1 \in 0 .. m /\ i + 1 \in 0 .. n /\ i + 1 # 0 /\ (i + 1) - 1 = i
      OBVIOUS
    <3>2. QED
      BY <3>1, <1>1, <1>2
  <2>2. g[i] = h[i]
    OBVIOUS
  <2>3. QED
    BY <2>1, <2>2
<1> HIDE DEF S
<1>5. \A i \in Nat : i \in S
  BY <1>3, <1>4, Upwards DEF S
<1>6. QED
  BY <1>5 DEF S

(* So Unrolled is what its recursion says.                                    *)
LEMMA UnrolledStep ==
  ASSUME NEW body
  PROVE  /\ Unrolled(body, 0) = <<>>
         /\ \A n \in Nat : Unrolled(body, n + 1) = Unrolled(body, n) \o body[n]
<1> DEFINE G == [m \in Nat |-> CHOOSE g : UpTo(g, body, m)]
           F == [i \in Nat |-> G[i][i]]
<1>1. \A m \in Nat : UpTo(G[m], body, m)
  BY UpToExists
<1> HIDE DEF G
<1>2. \A m, n, k \in Nat : k <= m /\ k <= n => G[m][k] = G[n][k]
  <2> TAKE m, n, k \in Nat
  <2>1. UpTo(G[m], body, m) /\ UpTo(G[n], body, n)
    BY <1>1
  <2>2. QED
    BY <2>1, UpToUnique
<1>3. F = [i \in Nat |-> IF i = 0 THEN <<>> ELSE F[i - 1] \o body[i - 1]]
  <2>1. ASSUME NEW i \in Nat PROVE F[i] = IF i = 0 THEN <<>> ELSE F[i - 1] \o body[i - 1]
    <3>1. G[i][i] = IF i = 0 THEN <<>> ELSE G[i][i - 1] \o body[i - 1]
      <4>1. G[i] = [k \in 0 .. i |-> IF k = 0 THEN <<>> ELSE G[i][k - 1] \o body[k - 1]]
        BY <1>1 DEF UpTo
      <4>2. i \in 0 .. i
        OBVIOUS
      <4>3. QED
        BY <4>1, <4>2
    <3>2. CASE i = 0
      BY <3>1, <3>2
    <3>3. CASE i # 0
      <4>1. i - 1 \in Nat /\ i - 1 <= i
        BY <3>3
      <4>2. G[i][i - 1] = G[i - 1][i - 1]
        <5>1. i - 1 <= i - 1
          BY <4>1
        <5>2. QED
          BY <1>2, <4>1, <5>1
      <4>3. F[i] = G[i][i] /\ F[i - 1] = G[i - 1][i - 1]
        BY <4>1
      <4> HIDE DEF F
      <4>4. QED
        BY <3>1, <3>3, <4>2, <4>3
    <3>4. QED
      BY <3>2, <3>3
  <2>2. F = [i \in Nat |-> F[i]]
    OBVIOUS
  <2> HIDE DEF F
  <2>3. QED
    BY <2>1, <2>2
<1> DEFINE H == CHOOSE f : f = [i \in Nat |-> IF i = 0 THEN <<>> ELSE f[i - 1] \o body[i - 1]]
<1> HIDE DEF F
<1>4. H = [i \in Nat |-> IF i = 0 THEN <<>> ELSE H[i - 1] \o body[i - 1]]
  BY <1>3
<1>5. \A n \in Nat : Unrolled(body, n) = H[n]
  BY Zenon DEF Unrolled
<1> HIDE DEF H
<1>6. H[0] = <<>>
  BY <1>4
<1>7. ASSUME NEW n \in Nat PROVE H[n + 1] = H[n] \o body[n]
  <2>1. n + 1 \in Nat /\ n + 1 # 0 /\ (n + 1) - 1 = n
    OBVIOUS
  <2>2. H[n + 1] = H[(n + 1) - 1] \o body[(n + 1) - 1]
    BY <1>4, <2>1
  <2>3. QED
    BY <2>1, <2>2
<1>8. \A n \in Nat : n + 1 \in Nat
  OBVIOUS
<1>9. QED
  BY <1>5, <1>6, <1>7, <1>8
(* The passes make up a sequence of what they are sequences of.               *)
LEMMA UnrolledType ==
  ASSUME NEW T, NEW n \in Nat, NEW body, \A i \in 0 .. n - 1 : body[i] \in Seq(T)
  PROVE  \A i \in 0 .. n : Unrolled(body, i) \in Seq(T)
<1> DEFINE S == {i \in Nat : i <= n => Unrolled(body, i) \in Seq(T)}
<1>1. 0 \in S
  BY UnrolledStep, EmptySeq
<1>2. ASSUME NEW i \in S PROVE i + 1 \in S
  <2> SUFFICES ASSUME i + 1 <= n PROVE Unrolled(body, i + 1) \in Seq(T)
    OBVIOUS
  <2>1. i \in 0 .. n - 1 /\ Unrolled(body, i) \in Seq(T)
    OBVIOUS
  <2>2. Unrolled(body, i + 1) = Unrolled(body, i) \o body[i]
    BY UnrolledStep
  <2>3. QED
    BY <2>1, <2>2, ConcatProperties
<1> HIDE DEF S
<1>3. \A i \in Nat : i \in S
  BY <1>1, <1>2, Upwards DEF S
<1>4. QED
  BY <1>3 DEF S

(* Only the passes of the loop matter.                                        *)
LEMMA UnrolledSame ==
  ASSUME NEW n \in Nat, NEW b, NEW c, \A i \in 0 .. n - 1 : b[i] = c[i]
  PROVE  Unrolled(b, n) = Unrolled(c, n)
<1> DEFINE S == {i \in Nat : i <= n => Unrolled(b, i) = Unrolled(c, i)}
<1>1. 0 \in S
  BY UnrolledStep
<1>2. ASSUME NEW i \in S PROVE i + 1 \in S
  <2> SUFFICES ASSUME i + 1 <= n PROVE Unrolled(b, i + 1) = Unrolled(c, i + 1)
    OBVIOUS
  <2>1. b[i] = c[i] /\ Unrolled(b, i) = Unrolled(c, i)
    OBVIOUS
  <2>2. Unrolled(b, i + 1) = Unrolled(b, i) \o b[i] /\ Unrolled(c, i + 1) = Unrolled(c, i) \o c[i]
    BY UnrolledStep
  <2>3. QED
    BY <2>1, <2>2
<1> HIDE DEF S
<1>3. \A i \in Nat : i \in S
  BY <1>1, <1>2, Upwards DEF S
<1>4. QED
  BY <1>3 DEF S

(* A loop whose passes are all as long as each other, and one whose passes    *)
(* are single elements.                                                       *)
AllOfSize(body, n, T, size) == \A i \in 0 .. n - 1 : body[i] \in Seq(T) /\ Len(body[i]) = size

LEMMA UnrolledLen ==
  ASSUME NEW T, NEW n \in Nat, NEW size \in Nat, NEW body, AllOfSize(body, n, T, size)
  PROVE  \A i \in 0 .. n : Unrolled(body, i) \in Seq(T) /\ Len(Unrolled(body, i)) = i * size
<1>0. \A i \in 0 .. n : Unrolled(body, i) \in Seq(T)
  <2>1. \A i \in 0 .. n - 1 : body[i] \in Seq(T)
    BY DEF AllOfSize
  <2>2. QED
    BY <2>1, UnrolledType
<1> DEFINE S == {i \in Nat : i <= n => Len(Unrolled(body, i)) = i * size}
<1>1. 0 \in S
  <2>1. Len(Unrolled(body, 0)) = 0
    BY UnrolledStep, EmptySeq
  <2>2. 0 * size = 0
    OBVIOUS
  <2>3. QED
    BY <2>1, <2>2
<1>2. ASSUME NEW i \in S PROVE i + 1 \in S
  <2> SUFFICES ASSUME i + 1 <= n PROVE Len(Unrolled(body, i + 1)) = (i + 1) * size
    OBVIOUS
  <2>1. i \in 0 .. n - 1 /\ i \in 0 .. n /\ Len(Unrolled(body, i)) = i * size
    OBVIOUS
  <2>2. Unrolled(body, i) \in Seq(T) /\ body[i] \in Seq(T) /\ Len(body[i]) = size
    BY <2>1, <1>0 DEF AllOfSize
  <2>3. Unrolled(body, i + 1) = Unrolled(body, i) \o body[i]
    BY UnrolledStep
  <2>4. Len(Unrolled(body, i + 1)) = i * size + size
    BY <2>1, <2>2, <2>3, ConcatProperties
  <2>5. (i + 1) * size = i * size + size
    OBVIOUS
  <2>6. QED
    BY <2>4, <2>5
<1> HIDE DEF S
<1>3. \A i \in Nat : i \in S
  BY <1>1, <1>2, Upwards DEF S
<1>4. QED
  BY <1>0, <1>3 DEF S

Units(body, n, T, e) == \A i \in 0 .. n - 1 : e[i] \in T /\ body[i] = <<e[i]>>

LEMMA UnrolledUnits ==
  ASSUME NEW T, NEW n \in Nat, NEW e, NEW body, Units(body, n, T, e)
  PROVE  /\ Unrolled(body, n) \in Seq(T) /\ Len(Unrolled(body, n)) = n
         /\ \A k \in 1 .. n : Unrolled(body, n)[k] = e[k - 1]
<1> DEFINE S == {i \in Nat : i <= n => /\ Unrolled(body, i) \in Seq(T) /\ Len(Unrolled(body, i)) = i
                                       /\ \A k \in 1 .. i : Unrolled(body, i)[k] = e[k - 1]}
<1>1. 0 \in S
  <2>1. Unrolled(body, 0) = <<>>
    BY UnrolledStep
  <2>2. <<>> \in Seq(T) /\ Len(<<>>) = 0
    BY EmptySeq
  <2>3. \A k \in 1 .. 0 : FALSE
    OBVIOUS
  <2>4. Unrolled(body, 0) \in Seq(T) /\ Len(Unrolled(body, 0)) = 0
    BY <2>1, <2>2
  <2>5. QED
    BY <2>3, <2>4
<1>2. ASSUME NEW i \in S PROVE i + 1 \in S
  <2> SUFFICES ASSUME i + 1 <= n
               PROVE  /\ Unrolled(body, i + 1) \in Seq(T) /\ Len(Unrolled(body, i + 1)) = i + 1
                      /\ \A k \in 1 .. i + 1 : Unrolled(body, i + 1)[k] = e[k - 1]
    OBVIOUS
  <2> DEFINE u == Unrolled(body, i)
  <2>1. /\ i \in 0 .. n - 1 /\ u \in Seq(T) /\ Len(u) = i
        /\ \A k \in 1 .. i : u[k] = e[k - 1]
    OBVIOUS
  <2>3. /\ e[i] \in T /\ <<e[i]>> \in Seq(T) /\ Len(<<e[i]>>) = 1 /\ <<e[i]>>[1] = e[i]
        /\ body[i] = <<e[i]>>
    BY <2>1 DEF Units
  <2>2. Unrolled(body, i + 1) = u \o <<e[i]>>
    BY <2>1, <2>3, UnrolledStep
  <2> HIDE DEF u
  <2>4. /\ u \o <<e[i]>> \in Seq(T) /\ Len(u \o <<e[i]>>) = i + 1
        /\ \A k \in 1 .. i + 1 : (u \o <<e[i]>>)[k] = IF k <= i THEN u[k] ELSE <<e[i]>>[k - i]
    BY <2>1, <2>3, ConcatProperties
  <2>5. \A k \in 1 .. i + 1 : (u \o <<e[i]>>)[k] = e[k - 1]
    <3> TAKE k \in 1 .. i + 1
    <3>1. CASE k <= i
      BY <3>1, <2>1, <2>4
    <3>2. CASE k = i + 1
      BY <3>2, <2>3, <2>4
    <3>3. QED
      BY <3>1, <3>2, <2>1
  <2>6. QED
    BY <2>2, <2>4, <2>5
<1> HIDE DEF S
<1>3. \A i \in Nat : i \in S
  BY <1>1, <1>2, Upwards DEF S
<1>4. QED
  BY <1>3 DEF S

(* A loop of one pass, and one whose passes do nothing.                       *)
LEMMA UnrolledOnce ==
  ASSUME NEW T, NEW body, body[0] \in Seq(T)
  PROVE  Unrolled(body, 1) = body[0]
<1>1. Unrolled(body, 0) = <<>> /\ Unrolled(body, 0 + 1) = Unrolled(body, 0) \o body[0]
  BY UnrolledStep
<1>2. 0 + 1 = 1
  OBVIOUS
<1>3. QED
  BY <1>1, <1>2, ConcatEmptySeq

LEMMA UnrolledSilent ==
  ASSUME NEW n \in Nat, NEW body, \A i \in 0 .. n - 1 : body[i] = <<>>
  PROVE  Unrolled(body, n) = <<>>
<1>1. AllOfSize(body, n, {}, 0)
  BY EmptySeq DEF AllOfSize
<1>2. n \in 0 .. n /\ n * 0 = 0
  OBVIOUS
<1>3. \A i \in 0 .. n : Unrolled(body, i) \in Seq({}) /\ Len(Unrolled(body, i)) = i * 0
  <2>1. 0 \in Nat
    OBVIOUS
  <2>2. QED
    BY <1>1, <2>1, UnrolledLen
<1>4. QED
  BY <1>2, <1>3, EmptySeq

(* A loop of loops over single elements that counts on from pass to pass.     *)
Listed(q, n, T, e) == q \in Seq(T) /\ Len(q) = n /\ \A k \in 1 .. n : q[k] = e[k - 1]
CountsOn(body, n, size, e) == \A i \in 0 .. n - 1, k \in 1 .. size : body[i][k] = e[i * size + k - 1]

LEMMA UnrolledBlocks ==
  ASSUME NEW T, NEW n \in Nat, NEW size \in Nat, NEW e,
         NEW body, AllOfSize(body, n, T, size), CountsOn(body, n, size, e)
  PROVE  Listed(Unrolled(body, n), n * size, T, e)
<1>1. \A i \in 0 .. n : Unrolled(body, i) \in Seq(T) /\ Len(Unrolled(body, i)) = i * size
  BY UnrolledLen
<1> DEFINE S == {i \in Nat : i <= n => \A k \in 1 .. i * size : Unrolled(body, i)[k] = e[k - 1]}
<1>2. 0 \in S
  <2>1. 0 * size = 0
    OBVIOUS
  <2>2. QED
    BY <2>1
<1>3. ASSUME NEW i \in S PROVE i + 1 \in S
  <2> SUFFICES ASSUME i + 1 <= n, NEW k \in 1 .. (i + 1) * size PROVE Unrolled(body, i + 1)[k] = e[k - 1]
    OBVIOUS
  <2> DEFINE u == Unrolled(body, i)
             m == i * size
  <2>1. /\ i \in 0 .. n - 1 /\ u \in Seq(T) /\ Len(u) = m /\ m \in Nat
        /\ \A l \in 1 .. m : u[l] = e[l - 1]
    BY <1>1
  <2>2. Unrolled(body, i + 1) = u \o body[i]
    BY UnrolledStep
  <2>3. /\ body[i] \in Seq(T) /\ Len(body[i]) = size
        /\ \A l \in 1 .. size : body[i][l] = e[m + l - 1]
    BY <2>1 DEF AllOfSize, CountsOn
  <2>4. (i + 1) * size = m + size
    OBVIOUS
  <2> HIDE DEF u, m
  <2>5. k \in 1 .. Len(u) + Len(body[i])
    BY <2>1, <2>3, <2>4
  <2>6. (u \o body[i])[k] = IF k <= Len(u) THEN u[k] ELSE body[i][k - Len(u)]
    BY <2>1, <2>3, <2>5, ConcatProperties
  <2>7. CASE k <= m
    BY <2>7, <2>1, <2>2, <2>6
  <2>8. CASE k > m
    <3>1. k - m \in 1 .. size /\ m + (k - m) - 1 = k - 1
      BY <2>8, <2>1, <2>3, <2>5
    <3>2. body[i][k - m] = e[k - 1]
      BY <3>1, <2>3
    <3>3. (u \o body[i])[k] = body[i][k - m]
      BY <2>8, <2>1, <2>6
    <3>4. QED
      BY <3>2, <3>3, <2>2
  <2>9. QED
    BY <2>7, <2>8, <2>1, <2>5
<1> HIDE DEF S
<1>4. \A i \in Nat : i \in S
  BY <1>2, <1>3, Upwards DEF S
<1>5. n \in 0 .. n
  OBVIOUS
<1>6. QED
  BY <1>1, <1>4, <1>5 DEF S, Listed
-----------------------------------------------------------------------------
(* What a program reads from a stream, or writes to it, in order.             *)

Place == Nat \X Nat
Op    == [io : {"read", "write"}, stream : Streams, el : Place]

Picked(op, io, s) == IF op.io = io /\ op.stream = s THEN <<op.el>> ELSE <<>>

(* The first i operations of p, and all of them.                              *)
Trace(p, io, s, i) == Unrolled([j \in Nat |-> Picked(p[j + 1], io, s)], i)
Elements(p, io, s) == Trace(p, io, s, Len(p))

LEMMA PickedType ==
  ASSUME NEW op \in Op, NEW io, NEW s
  PROVE  Picked(op, io, s) \in Seq(Place)
BY DEF Picked, Op, Place

(* The trace grows with the operations.                                       *)
LEMMA TraceStart ==
  ASSUME NEW p, NEW io, NEW s
  PROVE  Trace(p, io, s, 0) = <<>>
BY UnrolledStep DEF Trace

LEMMA TraceStep ==
  ASSUME NEW p, NEW io, NEW s, NEW i \in Nat
  PROVE  Trace(p, io, s, i + 1) = Trace(p, io, s, i) \o Picked(p[i + 1], io, s)
<1> DEFINE body == [j \in Nat |-> Picked(p[j + 1], io, s)]
<1>1. body[i] = Picked(p[i + 1], io, s)
  OBVIOUS
<1> HIDE DEF body
<1>2. Unrolled(body, i + 1) = Unrolled(body, i) \o body[i]
  BY UnrolledStep
<1>3. QED
  BY <1>1, <1>2 DEF Trace, body

(* What is traced are places.                                                 *)
LEMMA TraceType ==
  ASSUME NEW p \in Seq(Op), NEW io, NEW s, NEW i \in 0 .. Len(p)
  PROVE  Trace(p, io, s, i) \in Seq(Place)
<1> DEFINE body == [j \in Nat |-> Picked(p[j + 1], io, s)]
<1>1. ASSUME NEW j \in 0 .. Len(p) - 1 PROVE body[j] \in Seq(Place)
  <2>1. p[j + 1] \in Op /\ j \in Nat
    OBVIOUS
  <2>2. QED
    BY <2>1, PickedType
<1> HIDE DEF body
<1>2. Len(p) \in Nat
  OBVIOUS
<1>3. \A j \in 0 .. Len(p) : Unrolled(body, j) \in Seq(Place)
  BY <1>1, <1>2, UnrolledType
<1>4. QED
  BY <1>3 DEF Trace, body

LEMMA ElementsType ==
  ASSUME NEW p \in Seq(Op), NEW io, NEW s
  PROVE  Elements(p, io, s) \in Seq(Place)
BY TraceType DEF Elements

(* The trace of a part is the beginning of the trace of the whole.            *)
LEMMA TraceGrows ==
  ASSUME NEW p \in Seq(Op), NEW io, NEW s, NEW i \in 0 .. Len(p)
  PROVE  \A j \in i .. Len(p) :
           /\ Len(Trace(p, io, s, i)) <= Len(Trace(p, io, s, j))
           /\ \A k \in 1 .. Len(Trace(p, io, s, i)) : Trace(p, io, s, j)[k] = Trace(p, io, s, i)[k]
<1> DEFINE u == Trace(p, io, s, i)
           Begins(d) == /\ Len(u) <= Len(Trace(p, io, s, i + d))
                        /\ \A k \in 1 .. Len(u) : Trace(p, io, s, i + d)[k] = u[k]
           S == {d \in Nat : i + d <= Len(p) => Begins(d)}
<1>0. u \in Seq(Place)
  BY TraceType
<1>5. \A m \in Nat : Trace(p, io, s, m + 1) = Trace(p, io, s, m) \o Picked(p[m + 1], io, s)
  BY TraceStep
<1>1. 0 \in S
  BY <1>0
<1>2. ASSUME NEW d \in S PROVE d + 1 \in S
  <2> SUFFICES ASSUME i + (d + 1) <= Len(p) PROVE Begins(d + 1)
    OBVIOUS
  <2> DEFINE m == i + d
             v == Trace(p, io, s, m)
             w == Picked(p[m + 1], io, s)
  <2>1. m \in Nat /\ m \in 0 .. Len(p) /\ p[m + 1] \in Op /\ i + (d + 1) = m + 1 /\ Begins(d)
    OBVIOUS
  <2>2. v \in Seq(Place) /\ w \in Seq(Place)
    BY <2>1, TraceType, PickedType
  <2>4. Len(u) <= Len(v) /\ \A k \in 1 .. Len(u) : v[k] = u[k]
    BY <2>1
  <2> HIDE DEF m
  <2>3. Trace(p, io, s, i + (d + 1)) = v \o w
    <3>1. m \in Nat
      BY <2>1
    <3>2. Trace(p, io, s, m + 1) = Trace(p, io, s, m) \o Picked(p[m + 1], io, s)
      BY ONLY <3>1, <1>5, Zenon
    <3>3. QED
      BY <2>1, <3>2
  <2> HIDE DEF u, v, w
  <2>5. Len(u) <= Len(v \o w) /\ \A k \in 1 .. Len(u) : (v \o w)[k] = u[k]
    BY <1>0, <2>2, <2>4
  <2>6. QED
    BY <2>3, <2>5
<1> HIDE DEF S
<1>3. \A d \in Nat : d \in S
  BY <1>1, <1>2, Upwards DEF S
<1>4. ASSUME NEW j \in i .. Len(p)
      PROVE  /\ Len(Trace(p, io, s, i)) <= Len(Trace(p, io, s, j))
             /\ \A k \in 1 .. Len(Trace(p, io, s, i)) : Trace(p, io, s, j)[k] = Trace(p, io, s, i)[k]
  <2>1. j - i \in Nat /\ i + (j - i) = j
    OBVIOUS
  <2>2. j - i \in S
    BY <1>3, <2>1
  <2>3. Begins(j - i)
    BY <2>1, <2>2 DEF S
  <2>4. QED
    BY <2>1, <2>3
<1>6. QED
  BY <1>4

(* The trace of two programs one after the other.                             *)
LEMMA TraceFirst ==
  ASSUME NEW p \in Seq(Op), NEW q \in Seq(Op), NEW io, NEW s
  PROVE  \A i \in 0 .. Len(p) : Trace(p \o q, io, s, i) = Trace(p, io, s, i)
<1>1. ASSUME NEW i \in 0 .. Len(p) PROVE Trace(p \o q, io, s, i) = Trace(p, io, s, i)
  <2> DEFINE b == [j \in Nat |-> Picked((p \o q)[j + 1], io, s)]
             c == [j \in Nat |-> Picked(p[j + 1], io, s)]
  <2>1. ASSUME NEW j \in 0 .. i - 1 PROVE b[j] = c[j]
    <3>1. (p \o q)[j + 1] = p[j + 1] /\ j \in Nat
      OBVIOUS
    <3>2. QED
      BY <3>1
  <2>2. i \in Nat
    OBVIOUS
  <2> HIDE DEF b, c
  <2>3. Unrolled(b, i) = Unrolled(c, i)
    BY <2>1, <2>2, UnrolledSame
  <2>4. QED
    BY <2>3 DEF Trace, b, c
<1>2. QED
  BY <1>1

LEMMA TraceSecond ==
  ASSUME NEW p \in Seq(Op), NEW q \in Seq(Op), NEW io, NEW s
  PROVE  \A j \in 0 .. Len(q) :
           Trace(p \o q, io, s, Len(p) + j) = Elements(p, io, s) \o Trace(q, io, s, j)
<1> DEFINE u == Elements(p, io, s)
           S == {j \in Nat : j <= Len(q) => Trace(p \o q, io, s, Len(p) + j) = u \o Trace(q, io, s, j)}
<1>0. u \in Seq(Place)
  BY ElementsType
<1>1. 0 \in S
  <2>1. Len(p) + 0 = Len(p) /\ Len(p) \in 0 .. Len(p)
    OBVIOUS
  <2>2. Trace(p \o q, io, s, Len(p)) = u
    BY <2>1, TraceFirst DEF Elements
  <2>3. u \o Trace(q, io, s, 0) = u
    BY <1>0, TraceStart, ConcatEmptySeq
  <2> HIDE DEF u
  <2>4. QED
    BY <2>1, <2>2, <2>3
<1>2. ASSUME NEW j \in S PROVE j + 1 \in S
  <2> SUFFICES ASSUME j + 1 <= Len(q)
               PROVE  Trace(p \o q, io, s, Len(p) + (j + 1)) = u \o Trace(q, io, s, j + 1)
    OBVIOUS
  <2> DEFINE v == Trace(q, io, s, j)
             w == Picked(q[j + 1], io, s)
             m == Len(p) + j
  <2>1. /\ j \in Nat /\ j \in 0 .. Len(q) /\ m \in Nat
        /\ Len(p) + (j + 1) = m + 1 /\ q[j + 1] \in Op
        /\ (p \o q)[m + 1] = q[j + 1]
    OBVIOUS
  <2>2. v \in Seq(Place) /\ w \in Seq(Place)
    BY <2>1, TraceType, PickedType
  <2>3. Trace(q, io, s, j + 1) = v \o w
    BY <2>1, TraceStep
  <2>5. Trace(p \o q, io, s, m) = u \o v
    BY <2>1
  <2> HIDE DEF m
  <2>4. Trace(p \o q, io, s, m + 1) = Trace(p \o q, io, s, m) \o w
    <3>1. m \in Nat
      BY <2>1
    <3>2. Trace(p \o q, io, s, m + 1) = Trace(p \o q, io, s, m) \o Picked((p \o q)[m + 1], io, s)
      BY ONLY <3>1, TraceStep
    <3>3. QED
      BY <2>1, <3>2 DEF w
  <2> HIDE DEF u, v, w
  <2>6. (u \o v) \o w = u \o (v \o w)
    BY ONLY <1>0, <2>2, ConcatAssociative
  <2>7. QED
    BY <2>1, <2>3, <2>4, <2>5, <2>6
<1> HIDE DEF S
<1>3. \A j \in Nat : j \in S
  BY <1>1, <1>2, Upwards DEF S
<1>4. QED
  BY <1>3 DEF S

LEMMA ElementsConcat ==
  ASSUME NEW p \in Seq(Op), NEW q \in Seq(Op), NEW io, NEW s
  PROVE  Elements(p \o q, io, s) = Elements(p, io, s) \o Elements(q, io, s)
<1>1. Len(p \o q) = Len(p) + Len(q) /\ Len(q) \in 0 .. Len(q)
  OBVIOUS
<1>2. \A j \in 0 .. Len(q) :
        Trace(p \o q, io, s, Len(p) + j) = Elements(p, io, s) \o Trace(q, io, s, j)
  BY TraceSecond
<1>3. Trace(p \o q, io, s, Len(p) + Len(q)) = Elements(p, io, s) \o Trace(q, io, s, Len(q))
  BY ONLY <1>1, <1>2
<1>4. QED
  BY <1>1, <1>3 DEF Elements

(* No operation, one, and a loop.                                             *)
LEMMA ElementsNone ==
  ASSUME NEW io, NEW s
  PROVE  Elements(<<>>, io, s) = <<>>
BY TraceStart DEF Elements

LEMMA ElementsOne ==
  ASSUME NEW op \in Op, NEW io, NEW s
  PROVE  Elements(<<op>>, io, s) = Picked(op, io, s)
<1>1. Len(<<op>>) = 1 /\ <<op>>[1] = op /\ 0 + 1 = 1
  OBVIOUS
<1>2. Trace(<<op>>, io, s, 0 + 1) = Trace(<<op>>, io, s, 0) \o Picked(<<op>>[0 + 1], io, s)
  BY TraceStep
<1>3. Trace(<<op>>, io, s, 0) = <<>>
  BY TraceStart
<1>4. Elements(<<op>>, io, s) = Trace(<<op>>, io, s, 1)
  BY <1>1 DEF Elements
<1>5. Trace(<<op>>, io, s, 1) = <<>> \o Picked(op, io, s)
  BY ONLY <1>1, <1>2, <1>3
<1>6. <<>> \o Picked(op, io, s) = Picked(op, io, s)
  BY PickedType, ConcatEmptySeq
<1>7. QED
  BY <1>4, <1>5, <1>6

(* part holds what each pass of body reads or writes.                         *)
Shows(part, body, n, io, s) == \A i \in 0 .. n - 1 : body[i] \in Seq(Op) /\ part[i] = Elements(body[i], io, s)

LEMMA ElementsUnrolled ==
  ASSUME NEW n \in Nat, NEW body, NEW io, NEW s, NEW part, Shows(part, body, n, io, s)
  PROVE  Elements(Unrolled(body, n), io, s) = Unrolled(part, n)
<1>1. \A i \in 0 .. n : Unrolled(body, i) \in Seq(Op)
  <2>1. \A i \in 0 .. n - 1 : body[i] \in Seq(Op)
    BY DEF Shows
  <2>2. QED
    BY <2>1, UnrolledType
<1> DEFINE S == {i \in Nat : i <= n => Elements(Unrolled(body, i), io, s) = Unrolled(part, i)}
<1>2. 0 \in S
  BY UnrolledStep, ElementsNone
<1>3. ASSUME NEW i \in S PROVE i + 1 \in S
  <2> SUFFICES ASSUME i + 1 <= n
               PROVE  Elements(Unrolled(body, i + 1), io, s) = Unrolled(part, i + 1)
    OBVIOUS
  <2>1. /\ i \in 0 .. n - 1 /\ i \in 0 .. n /\ i \in Nat
        /\ Elements(Unrolled(body, i), io, s) = Unrolled(part, i)
    OBVIOUS
  <2>2. Unrolled(body, i) \in Seq(Op) /\ body[i] \in Seq(Op) /\ part[i] = Elements(body[i], io, s)
    BY <1>1, <2>1 DEF Shows
  <2>3. /\ Unrolled(body, i + 1) = Unrolled(body, i) \o body[i]
        /\ Unrolled(part, i + 1) = Unrolled(part, i) \o part[i]
    BY <2>1, UnrolledStep
  <2>4. Elements(Unrolled(body, i) \o body[i], io, s) = Elements(Unrolled(body, i), io, s) \o Elements(body[i], io, s)
    <3>1. Unrolled(body, i) \in Seq(Op) /\ body[i] \in Seq(Op)
      BY <2>2
    <3>2. QED
      BY ONLY <3>1, ElementsConcat
  <2>5. QED
    BY <2>1, <2>2, <2>3, <2>4
<1> HIDE DEF S
<1>4. \A i \in Nat : i \in S
  BY <1>2, <1>3, Upwards DEF S
<1>5. QED
  BY <1>4 DEF S

-----------------------------------------------------------------------------
(* A part that does nothing on a stream can be left out.                      *)
LEMMA JoinIo ==
  ASSUME NEW p \in Seq(Op), NEW q \in Seq(Op), NEW io, NEW r
  PROVE  /\ p \o q \in Seq(Op)
         /\ Elements(p, io, r) = <<>> => Elements(p \o q, io, r) = Elements(q, io, r)
         /\ Elements(q, io, r) = <<>> => Elements(p \o q, io, r) = Elements(p, io, r)
<1>1. Elements(p \o q, io, r) = Elements(p, io, r) \o Elements(q, io, r)
  BY ElementsConcat
<1>2. Elements(p, io, r) \in Seq(Place) /\ Elements(q, io, r) \in Seq(Place)
  BY ElementsType
<1>3. p \o q \in Seq(Op)
  BY ConcatProperties
<1>4. QED
  BY <1>1, <1>2, <1>3, ConcatEmptySeq

(* One read, and one write.                                                   *)
LEMMA GetIo ==
  ASSUME NEW s \in Streams, NEW el \in Place, NEW io, NEW r
  PROVE  /\ Get(s, el) \in Seq(Op)
         /\ Elements(Get(s, el), io, r) = IF io = "read" /\ r = s THEN <<el>> ELSE <<>>
<1>1. [io |-> "read", stream |-> s, el |-> el] \in Op
  BY DEF Op
<1>2. QED
  BY <1>1, ElementsOne DEF Get, Picked

LEMMA PutIo ==
  ASSUME NEW s \in Streams, NEW el \in Place, NEW io, NEW r
  PROVE  /\ Put(s, el) \in Seq(Op)
         /\ Elements(Put(s, el), io, r) = IF io = "write" /\ r = s THEN <<el>> ELSE <<>>
<1>1. [io |-> "write", stream |-> s, el |-> el] \in Op
  BY DEF Op
<1>2. QED
  BY <1>1, ElementsOne DEF Put, Picked

-----------------------------------------------------------------------------
(* The orders in which elements travel.                                       *)

Slice(t, first, cols) == For(cols, LAMBDA c : <<<<t, first + c>>>>)
Row(t, cols)          == For(cols, LAMBDA c : <<<<t, c>>>>)
RowMajor(rows, cols)  == For(rows, LAMBDA t : Row(t, cols))
Scales(rows)          == For(rows, LAMBDA t : <<<<t, 0>>>>)

(* What each loop over a row, and each function made of them, reads and       *)
(* writes.                                                                    *)
LEMMA ReadRowIo ==
  ASSUME NEW s \in Streams, NEW t \in Nat, NEW cols \in Nat, NEW io, NEW r
  PROVE  /\ ReadRow(s, t, cols) \in Seq(Op)
         /\ Elements(ReadRow(s, t, cols), io, r) =
              IF io = "read" /\ r = s THEN Row(t, cols)
              ELSE <<>>
<1> DEFINE b == [c \in 0 .. cols - 1 |-> Get(s, <<t, c>>)]
           e == [c \in 0 .. cols - 1 |->
                  IF io = "read" /\ r = s THEN <<<<t, c>>>>
                  ELSE <<>>]
<1>1. cols \in Nat
  OBVIOUS
<1>2. ASSUME NEW c \in 0 .. cols - 1
      PROVE  b[c] \in Seq(Op) /\ e[c] = Elements(b[c], io, r)
  <2> DEFINE x == Get(s, <<t, c>>)
  <2>1. c \in Nat /\ <<t, c>> \in Place
    BY DEF Place
  <2>2. /\ x \in Seq(Op)
        /\ Elements(x, io, r) = IF io = "read" /\ r = s THEN <<<<t, c>>>> ELSE <<>>
    BY <1>1, <2>1, GetIo
  <2>3. QED
    BY <2>2
<1> HIDE DEF b
<1>3. \A c \in 0 .. cols : Unrolled(b, c) \in Seq(Op)
  BY <1>1, <1>2, UnrolledType
<1>4. ReadRow(s, t, cols) = Unrolled(b, cols)
  BY DEF ReadRow, For, b
<1>5. CASE io = "read" /\ r = s
  <2> DEFINE d == [c \in 0 .. cols - 1 |-> <<<<t, c>>>>]
  <2>1. \A c \in 0 .. cols - 1 : d[c] = Elements(b[c], io, r)
    BY <1>2, <1>5
  <2> HIDE DEF d, e
  <2>2. Elements(Unrolled(b, cols), io, r) = Unrolled(d, cols)
    <3>1. Shows(d, b, cols, io, r)
      BY <1>2, <2>1 DEF Shows
    <3>2. QED
      BY <1>1, <3>1, ElementsUnrolled
  <2>3. Unrolled(d, cols) = Row(t, cols)
    BY DEF d, For, Row
  <2>4. QED
    BY <1>1, <1>3, <1>4, <1>5, <2>2, <2>3
<1>6. CASE ~(io = "read" /\ r = s)
  <2>1. \A c \in 0 .. cols - 1 : e[c] = <<>>
    BY <1>6
  <2> HIDE DEF e
  <2>2. Elements(Unrolled(b, cols), io, r) = Unrolled(e, cols)
    <3>1. Shows(e, b, cols, io, r)
      BY <1>2 DEF Shows
    <3>2. QED
      BY <1>1, <3>1, ElementsUnrolled
  <2>3. Unrolled(e, cols) = <<>>
    BY <1>1, <2>1, UnrolledSilent
  <2>4. QED
    BY <1>1, <1>3, <1>4, <1>6, <2>2, <2>3
<1>7. QED
  BY <1>5, <1>6

LEMMA WriteRowIo ==
  ASSUME NEW s \in Streams, NEW t \in Nat, NEW cols \in Nat, NEW io, NEW r
  PROVE  /\ WriteRow(s, t, cols) \in Seq(Op)
         /\ Elements(WriteRow(s, t, cols), io, r) =
              IF io = "write" /\ r = s THEN Row(t, cols)
              ELSE <<>>
<1> DEFINE b == [c \in 0 .. cols - 1 |-> Put(s, <<t, c>>)]
           e == [c \in 0 .. cols - 1 |->
                  IF io = "write" /\ r = s THEN <<<<t, c>>>>
                  ELSE <<>>]
<1>1. cols \in Nat
  OBVIOUS
<1>2. ASSUME NEW c \in 0 .. cols - 1
      PROVE  b[c] \in Seq(Op) /\ e[c] = Elements(b[c], io, r)
  <2> DEFINE x == Put(s, <<t, c>>)
  <2>1. c \in Nat /\ <<t, c>> \in Place
    BY DEF Place
  <2>2. /\ x \in Seq(Op)
        /\ Elements(x, io, r) = IF io = "write" /\ r = s THEN <<<<t, c>>>> ELSE <<>>
    BY <1>1, <2>1, PutIo
  <2>3. QED
    BY <2>2
<1> HIDE DEF b
<1>3. \A c \in 0 .. cols : Unrolled(b, c) \in Seq(Op)
  BY <1>1, <1>2, UnrolledType
<1>4. WriteRow(s, t, cols) = Unrolled(b, cols)
  BY DEF WriteRow, For, b
<1>5. CASE io = "write" /\ r = s
  <2> DEFINE d == [c \in 0 .. cols - 1 |-> <<<<t, c>>>>]
  <2>1. \A c \in 0 .. cols - 1 : d[c] = Elements(b[c], io, r)
    BY <1>2, <1>5
  <2> HIDE DEF d, e
  <2>2. Elements(Unrolled(b, cols), io, r) = Unrolled(d, cols)
    <3>1. Shows(d, b, cols, io, r)
      BY <1>2, <2>1 DEF Shows
    <3>2. QED
      BY <1>1, <3>1, ElementsUnrolled
  <2>3. Unrolled(d, cols) = Row(t, cols)
    BY DEF d, For, Row
  <2>4. QED
    BY <1>1, <1>3, <1>4, <1>5, <2>2, <2>3
<1>6. CASE ~(io = "write" /\ r = s)
  <2>1. \A c \in 0 .. cols - 1 : e[c] = <<>>
    BY <1>6
  <2> HIDE DEF e
  <2>2. Elements(Unrolled(b, cols), io, r) = Unrolled(e, cols)
    <3>1. Shows(e, b, cols, io, r)
      BY <1>2 DEF Shows
    <3>2. QED
      BY <1>1, <3>1, ElementsUnrolled
  <2>3. Unrolled(e, cols) = <<>>
    BY <1>1, <2>1, UnrolledSilent
  <2>4. QED
    BY <1>1, <1>3, <1>4, <1>6, <2>2, <2>3
<1>7. QED
  BY <1>5, <1>6

LEMMA CopyRowIo ==
  ASSUME NEW in \in Streams, NEW out \in Streams, NEW first \in Nat, NEW t \in Nat, NEW cols \in Nat, NEW io, NEW r
  PROVE  /\ CopyRow(in, first, out, t, cols) \in Seq(Op)
         /\ Elements(CopyRow(in, first, out, t, cols), io, r) =
              IF io = "read" /\ r = in THEN Slice(t, first, cols)
              ELSE IF io = "write" /\ r = out THEN Row(t, cols)
              ELSE <<>>
<1> DEFINE b == [c \in 0 .. cols - 1 |-> Get(in, <<t, first + c>>) \o Put(out, <<t, c>>)]
           e == [c \in 0 .. cols - 1 |->
                  IF io = "read" /\ r = in THEN <<<<t, first + c>>>>
                  ELSE IF io = "write" /\ r = out THEN <<<<t, c>>>>
                  ELSE <<>>]
<1>1. cols \in Nat
  OBVIOUS
<1>2. ASSUME NEW c \in 0 .. cols - 1
      PROVE  b[c] \in Seq(Op) /\ e[c] = Elements(b[c], io, r)
  <2> DEFINE x == Get(in, <<t, first + c>>)
             y == Put(out, <<t, c>>)
  <2>1. c \in Nat /\ <<t, c>> \in Place /\ <<t, first + c>> \in Place
    BY DEF Place
  <2>2. /\ x \in Seq(Op)
        /\ Elements(x, io, r) = IF io = "read" /\ r = in THEN <<<<t, first + c>>>> ELSE <<>>
    BY <1>1, <2>1, GetIo
  <2>3. /\ y \in Seq(Op)
        /\ Elements(y, io, r) = IF io = "write" /\ r = out THEN <<<<t, c>>>> ELSE <<>>
    BY <1>1, <2>1, PutIo
  <2> HIDE DEF x, y
  <2>4. /\ x \o y \in Seq(Op)
        /\ Elements(x, io, r) = <<>> => Elements(x \o y, io, r) = Elements(y, io, r)
        /\ Elements(y, io, r) = <<>> => Elements(x \o y, io, r) = Elements(x, io, r)
    BY <2>2, <2>3, JoinIo
  <2>5. b[c] = x \o y
    BY DEF x, y
  <2>6. QED
    BY <2>2, <2>3, <2>4, <2>5
<1> HIDE DEF b
<1>3. \A c \in 0 .. cols : Unrolled(b, c) \in Seq(Op)
  BY <1>1, <1>2, UnrolledType
<1>4. CopyRow(in, first, out, t, cols) = Unrolled(b, cols)
  BY DEF CopyRow, For, b
<1>5. CASE io = "read" /\ r = in
  <2> DEFINE d == [c \in 0 .. cols - 1 |-> <<<<t, first + c>>>>]
  <2>1. \A c \in 0 .. cols - 1 : d[c] = Elements(b[c], io, r)
    BY <1>2, <1>5
  <2> HIDE DEF d, e
  <2>2. Elements(Unrolled(b, cols), io, r) = Unrolled(d, cols)
    <3>1. Shows(d, b, cols, io, r)
      BY <1>2, <2>1 DEF Shows
    <3>2. QED
      BY <1>1, <3>1, ElementsUnrolled
  <2>3. Unrolled(d, cols) = Slice(t, first, cols)
    BY DEF d, For, Row, Slice
  <2>4. QED
    BY <1>1, <1>3, <1>4, <1>5, <2>2, <2>3
<1>6. CASE (io = "write" /\ r = out) /\ ~(io = "read" /\ r = in)
  <2> DEFINE d == [c \in 0 .. cols - 1 |-> <<<<t, c>>>>]
  <2>1. \A c \in 0 .. cols - 1 : d[c] = Elements(b[c], io, r)
    BY <1>2, <1>6
  <2> HIDE DEF d, e
  <2>2. Elements(Unrolled(b, cols), io, r) = Unrolled(d, cols)
    <3>1. Shows(d, b, cols, io, r)
      BY <1>2, <2>1 DEF Shows
    <3>2. QED
      BY <1>1, <3>1, ElementsUnrolled
  <2>3. Unrolled(d, cols) = Row(t, cols)
    BY DEF d, For, Row, Slice
  <2>4. QED
    BY <1>1, <1>3, <1>4, <1>6, <2>2, <2>3
<1>7. CASE ~(io = "read" /\ r = in) /\ ~(io = "write" /\ r = out)
  <2>1. \A c \in 0 .. cols - 1 : e[c] = <<>>
    BY <1>7
  <2> HIDE DEF e
  <2>2. Elements(Unrolled(b, cols), io, r) = Unrolled(e, cols)
    <3>1. Shows(e, b, cols, io, r)
      BY <1>2 DEF Shows
    <3>2. QED
      BY <1>1, <3>1, ElementsUnrolled
  <2>3. Unrolled(e, cols) = <<>>
    BY <1>1, <2>1, UnrolledSilent
  <2>4. QED
    BY <1>1, <1>3, <1>4, <1>7, <2>2, <2>3
<1>8. QED
  BY <1>5, <1>6, <1>7

LEMMA QuantiseIo ==
  ASSUME NEW in \in Streams, NEW out \in Streams, NEW sc \in Streams, out # sc,
         NEW rows \in Nat, NEW cols \in Nat, NEW io, NEW r
  PROVE  /\ Quantise(in, out, sc, rows, cols) \in Seq(Op)
         /\ Elements(Quantise(in, out, sc, rows, cols), io, r) =
              IF io = "read" /\ r = in THEN RowMajor(rows, cols)
              ELSE IF io = "write" /\ r = out THEN RowMajor(rows, cols)
              ELSE IF io = "write" /\ r = sc THEN Scales(rows)
              ELSE <<>>
<1> DEFINE b == [t \in 0 .. rows - 1 |-> ReadRow(in, t, cols) \o Put(sc, <<t, 0>>) \o WriteRow(out, t, cols)]
           e == [t \in 0 .. rows - 1 |->
                  IF io = "read" /\ r = in THEN Row(t, cols)
                  ELSE IF io = "write" /\ r = out THEN Row(t, cols)
                  ELSE IF io = "write" /\ r = sc THEN <<<<t, 0>>>>
                  ELSE <<>>]
<1>1. rows \in Nat
  OBVIOUS
<1>2. ASSUME NEW t \in 0 .. rows - 1
      PROVE  b[t] \in Seq(Op) /\ e[t] = Elements(b[t], io, r)
  <2> DEFINE x == ReadRow(in, t, cols)
             y == Put(sc, <<t, 0>>)
             z == WriteRow(out, t, cols)
  <2>1. t \in Nat /\ <<t, 0>> \in Place
    BY DEF Place
  <2>2. /\ x \in Seq(Op)
        /\ Elements(x, io, r) = IF io = "read" /\ r = in THEN Row(t, cols) ELSE <<>>
    BY <1>1, <2>1, ReadRowIo
  <2>3. /\ y \in Seq(Op)
        /\ Elements(y, io, r) = IF io = "write" /\ r = sc THEN <<<<t, 0>>>> ELSE <<>>
    BY <1>1, <2>1, PutIo
  <2>4. /\ z \in Seq(Op)
        /\ Elements(z, io, r) = IF io = "write" /\ r = out THEN Row(t, cols) ELSE <<>>
    BY <1>1, <2>1, WriteRowIo
  <2> HIDE DEF x, y, z
  <2>5. /\ x \o y \in Seq(Op)
        /\ Elements(x, io, r) = <<>> => Elements(x \o y, io, r) = Elements(y, io, r)
        /\ Elements(y, io, r) = <<>> => Elements(x \o y, io, r) = Elements(x, io, r)
    BY <2>2, <2>3, JoinIo
  <2> DEFINE w == x \o y
  <2> HIDE DEF w
  <2>6. /\ w \o z \in Seq(Op)
        /\ Elements(w, io, r) = <<>> => Elements(w \o z, io, r) = Elements(z, io, r)
        /\ Elements(z, io, r) = <<>> => Elements(w \o z, io, r) = Elements(w, io, r)
    <3>1. w \in Seq(Op)
      BY <2>5 DEF w
    <3>2. QED
      BY <3>1, <2>4, JoinIo
  <2>7. b[t] = x \o y \o z
    BY DEF x, y, z
  <2>8. QED
    BY <2>2, <2>3, <2>4, <2>5, <2>6, <2>7 DEF w
<1> HIDE DEF b
<1>3. \A t \in 0 .. rows : Unrolled(b, t) \in Seq(Op)
  BY <1>1, <1>2, UnrolledType
<1>4. Quantise(in, out, sc, rows, cols) = Unrolled(b, rows)
  BY DEF Quantise, For, b
<1>5. CASE io = "read" /\ r = in
  <2> DEFINE d == [t \in 0 .. rows - 1 |-> Row(t, cols)]
  <2>1. \A t \in 0 .. rows - 1 : d[t] = Elements(b[t], io, r)
    BY <1>2, <1>5
  <2> HIDE DEF d, e
  <2>2. Elements(Unrolled(b, rows), io, r) = Unrolled(d, rows)
    <3>1. Shows(d, b, rows, io, r)
      BY <1>2, <2>1 DEF Shows
    <3>2. QED
      BY <1>1, <3>1, ElementsUnrolled
  <2>3. Unrolled(d, rows) = RowMajor(rows, cols)
    BY DEF d, For, RowMajor, Scales
  <2>4. QED
    BY <1>1, <1>3, <1>4, <1>5, <2>2, <2>3
<1>6. CASE (io = "write" /\ r = out) /\ ~(io = "read" /\ r = in)
  <2> DEFINE d == [t \in 0 .. rows - 1 |-> Row(t, cols)]
  <2>1. \A t \in 0 .. rows - 1 : d[t] = Elements(b[t], io, r)
    BY <1>2, <1>6
  <2> HIDE DEF d, e
  <2>2. Elements(Unrolled(b, rows), io, r) = Unrolled(d, rows)
    <3>1. Shows(d, b, rows, io, r)
      BY <1>2, <2>1 DEF Shows
    <3>2. QED
      BY <1>1, <3>1, ElementsUnrolled
  <2>3. Unrolled(d, rows) = RowMajor(rows, cols)
    BY DEF d, For, RowMajor, Scales
  <2>4. QED
    BY <1>1, <1>3, <1>4, <1>6, <2>2, <2>3
<1>7. CASE (io = "write" /\ r = sc) /\ ~(io = "read" /\ r = in) /\ ~(io = "write" /\ r = out)
  <2> DEFINE d == [t \in 0 .. rows - 1 |-> <<<<t, 0>>>>]
  <2>1. \A t \in 0 .. rows - 1 : d[t] = Elements(b[t], io, r)
    BY <1>2, <1>7
  <2> HIDE DEF d, e
  <2>2. Elements(Unrolled(b, rows), io, r) = Unrolled(d, rows)
    <3>1. Shows(d, b, rows, io, r)
      BY <1>2, <2>1 DEF Shows
    <3>2. QED
      BY <1>1, <3>1, ElementsUnrolled
  <2>3. Unrolled(d, rows) = Scales(rows)
    BY DEF d, For, RowMajor, Scales
  <2>4. QED
    BY <1>1, <1>3, <1>4, <1>7, <2>2, <2>3
<1>8. CASE ~(io = "read" /\ r = in) /\ ~(io = "write" /\ r = out) /\ ~(io = "write" /\ r = sc)
  <2>1. \A t \in 0 .. rows - 1 : e[t] = <<>>
    BY <1>8
  <2> HIDE DEF e
  <2>2. Elements(Unrolled(b, rows), io, r) = Unrolled(e, rows)
    <3>1. Shows(e, b, rows, io, r)
      BY <1>2 DEF Shows
    <3>2. QED
      BY <1>1, <3>1, ElementsUnrolled
  <2>3. Unrolled(e, rows) = <<>>
    BY <1>1, <2>1, UnrolledSilent
  <2>4. QED
    BY <1>1, <1>3, <1>4, <1>8, <2>2, <2>3
<1>9. QED
  BY <1>5, <1>6, <1>7, <1>8

-----------------------------------------------------------------------------
(* Tiles.                                                                     *)

(* The constants, and what follows for the derived sizes.                     *)
LEMMA Sizes ==
  /\ HKv \in Nat \ {0} /\ Ratio \in Nat \ {0} /\ Ffn \in Nat \ {0} /\ Vocab \in Nat \ {0}
  /\ TileM \in Nat \ {0} /\ QTile \in Nat \ {0} /\ FifoD \in Nat \ {0}
  /\ HQ \in Nat \ {0} /\ NQkv \in Nat \ {0} /\ 2 * Ffn \in Nat \ {0}
<1>1. /\ HKv \in Nat \ {0} /\ Ratio \in Nat \ {0} /\ Ffn \in Nat \ {0} /\ Vocab \in Nat \ {0}
      /\ TileM \in Nat \ {0} /\ QTile \in Nat \ {0} /\ FifoD \in Nat \ {0}
  BY DataflowAssumption
<1>2. HQ \in Nat /\ HQ # 0
  BY <1>1 DEF HQ
<1>3. QED
  BY <1>1, <1>2 DEF NQkv

(* Quotients, and multiples of a natural number.                              *)
LEMMA Division ==
  ASSUME NEW a \in Nat, NEW b \in Nat \ {0}
  PROVE  /\ a \div b \in Nat /\ a % b \in 0 .. b - 1
         /\ (a \div b) * b <= a /\ a < (a \div b + 1) * b
OBVIOUS

LEMMA Products ==
  ASSUME NEW i \in Nat, NEW j \in Nat, NEW a \in Nat
  PROVE  /\ i * a \in Nat /\ (i + 1) * a = i * a + a
         /\ i <= j => i * a <= j * a
         /\ i < j => i * a + a <= j * a
<1>1. i * a \in Nat /\ (i + 1) * a = i * a + a
  OBVIOUS
<1>2. ASSUME i <= j PROVE i * a <= j * a
  <2>1. j - i \in Nat
    BY <1>2
  <2>2. (j - i) * a \in Nat
    BY <2>1
  <2>3. j * a = i * a + (j - i) * a
    BY <1>2
  <2>4. j * a \in Nat
    OBVIOUS
  <2>5. QED
    BY <1>1, <2>2, <2>3, <2>4
<1>3. ASSUME i < j PROVE i * a + a <= j * a
  <2>1. j - (i + 1) \in Nat
    BY <1>3
  <2>2. (j - (i + 1)) * a \in Nat
    BY <2>1
  <2>3. j * a = (i + 1) * a + (j - (i + 1)) * a
    BY <1>3
  <2>4. j * a \in Nat
    OBVIOUS
  <2>5. QED
    BY <1>1, <2>2, <2>3, <2>4
<1>4. QED
  BY <1>1, <1>2, <1>3

(* The tiles cover the range, and none is past its end.                       *)
LEMMA TilesFacts ==
  ASSUME NEW n \in Nat \ {0}, NEW tile \in Nat \ {0}
  PROVE  Tiles(n, tile) \in Nat \ {0} /\ (Tiles(n, tile) - 1) * tile < n /\ n <= Tiles(n, tile) * tile
<1> DEFINE a == n + tile - 1
           q == a \div tile
<1>1. a \in Nat
  OBVIOUS
<1>2. q \in Nat /\ q * tile <= a /\ a < (q + 1) * tile
  BY <1>1, Division
<1>3. (q + 1) * tile = q * tile + tile /\ q * tile \in Nat /\ (q - 1) * tile = q * tile - tile
  BY <1>2
<1>4. q # 0
  <2>1. q = 0 => q * tile = 0
    OBVIOUS
  <2> HIDE DEF q
  <2>2. QED
    BY <2>1, <1>2, <1>3
<1>5. Tiles(n, tile) = q
  BY DEF Tiles
<1>6. n <= q * tile /\ q * tile - tile < n
  <2> HIDE DEF q
  <2>1. QED
    BY <1>2, <1>3
<1> HIDE DEF q
<1>7. QED
  BY <1>2, <1>3, <1>4, <1>5, <1>6

LEMMA TileLenFacts ==
  ASSUME NEW n \in Nat \ {0}, NEW tile \in Nat \ {0}, NEW i \in 0 .. Tiles(n, tile) - 1
  PROVE  /\ i \in Nat /\ TileLen(n, tile, i) \in Nat
         /\ i + 1 < Tiles(n, tile) => i * tile + TileLen(n, tile, i) = (i + 1) * tile
         /\ i + 1 = Tiles(n, tile) => i * tile + TileLen(n, tile, i) = n
<1> DEFINE c == Tiles(n, tile)
<1>1. c \in Nat \ {0} /\ (c - 1) * tile < n /\ n <= c * tile
  BY TilesFacts
<1> HIDE DEF c
<1>2. i \in Nat /\ i <= c - 1 /\ c - 1 \in Nat
  BY <1>1 DEF c
<1>3. i * tile \in Nat /\ (i + 1) * tile = i * tile + tile /\ i * tile <= (c - 1) * tile /\ (c - 1) * tile \in Nat
  BY <1>2, Products
<1>4. TileLen(n, tile, i) = IF i * tile + tile <= n THEN tile ELSE n - i * tile
  BY <1>3 DEF TileLen
<1>5. i + 1 < c => i * tile + tile <= (c - 1) * tile
  <2>1. i < c - 1 => i * tile + tile <= (c - 1) * tile
    BY ONLY <1>2, tile \in Nat, Products
  <2>2. QED
    BY <1>1, <1>2, <2>1
<1>6. i + 1 = c => n <= i * tile + tile
  BY <1>1, <1>3
<1>7. QED
  BY <1>1, <1>2, <1>3, <1>4, <1>5, <1>6 DEF c

-----------------------------------------------------------------------------

(* Loops over the rows.                                                       *)
LEMMA ResToStreamIo ==
  ASSUME NEW out \in Streams, NEW rows \in Nat, NEW io, NEW r
  PROVE  /\ ResToStream(out, rows) \in Seq(Op)
         /\ Elements(ResToStream(out, rows), io, r) =
              IF io = "write" /\ r = out THEN RowMajor(rows, HQ)
              ELSE <<>>
<1> DEFINE b == [t \in 0 .. rows - 1 |-> WriteRow(out, t, HQ)]
           e == [t \in 0 .. rows - 1 |->
                  IF io = "write" /\ r = out THEN Row(t, HQ)
                  ELSE <<>>]
<1>1. rows \in Nat
  OBVIOUS
<1>2. ASSUME NEW t \in 0 .. rows - 1
      PROVE  b[t] \in Seq(Op) /\ e[t] = Elements(b[t], io, r)
  <2> DEFINE x == WriteRow(out, t, HQ)
  <2>1. t \in Nat
    OBVIOUS
  <2>2. /\ x \in Seq(Op)
        /\ Elements(x, io, r) = IF io = "write" /\ r = out THEN Row(t, HQ) ELSE <<>>
    BY <1>1, <2>1, WriteRowIo, Sizes
  <2>3. QED
    BY <2>2
<1> HIDE DEF b
<1>3. \A t \in 0 .. rows : Unrolled(b, t) \in Seq(Op)
  BY <1>1, <1>2, UnrolledType
<1>4. ResToStream(out, rows) = Unrolled(b, rows)
  BY DEF ResToStream, For, b
<1>5. CASE io = "write" /\ r = out
  <2> DEFINE d == [t \in 0 .. rows - 1 |-> Row(t, HQ)]
  <2>1. \A t \in 0 .. rows - 1 : d[t] = Elements(b[t], io, r)
    BY <1>2, <1>5
  <2> HIDE DEF d, e
  <2>2. Elements(Unrolled(b, rows), io, r) = Unrolled(d, rows)
    <3>1. Shows(d, b, rows, io, r)
      BY <1>2, <2>1 DEF Shows
    <3>2. QED
      BY <1>1, <3>1, ElementsUnrolled
  <2>3. Unrolled(d, rows) = RowMajor(rows, HQ)
    BY DEF d, For, RowMajor
  <2>4. QED
    BY <1>1, <1>3, <1>4, <1>5, <2>2, <2>3
<1>6. CASE ~(io = "write" /\ r = out)
  <2>1. \A t \in 0 .. rows - 1 : e[t] = <<>>
    BY <1>6
  <2> HIDE DEF e
  <2>2. Elements(Unrolled(b, rows), io, r) = Unrolled(e, rows)
    <3>1. Shows(e, b, rows, io, r)
      BY <1>2 DEF Shows
    <3>2. QED
      BY <1>1, <3>1, ElementsUnrolled
  <2>3. Unrolled(e, rows) = <<>>
    BY <1>1, <2>1, UnrolledSilent
  <2>4. QED
    BY <1>1, <1>3, <1>4, <1>6, <2>2, <2>3
<1>7. QED
  BY <1>5, <1>6

LEMMA ReadRowsIo ==
  ASSUME NEW in \in Streams, NEW rows \in Nat, NEW cols \in Nat, NEW io, NEW r
  PROVE  /\ ReadRows(in, rows, cols) \in Seq(Op)
         /\ Elements(ReadRows(in, rows, cols), io, r) =
              IF io = "read" /\ r = in THEN RowMajor(rows, cols)
              ELSE <<>>
<1> DEFINE b == [t \in 0 .. rows - 1 |-> ReadRow(in, t, cols)]
           e == [t \in 0 .. rows - 1 |->
                  IF io = "read" /\ r = in THEN Row(t, cols)
                  ELSE <<>>]
<1>1. rows \in Nat
  OBVIOUS
<1>2. ASSUME NEW t \in 0 .. rows - 1
      PROVE  b[t] \in Seq(Op) /\ e[t] = Elements(b[t], io, r)
  <2> DEFINE x == ReadRow(in, t, cols)
  <2>1. t \in Nat
    OBVIOUS
  <2>2. /\ x \in Seq(Op)
        /\ Elements(x, io, r) = IF io = "read" /\ r = in THEN Row(t, cols) ELSE <<>>
    BY <1>1, <2>1, ReadRowIo
  <2>3. QED
    BY <2>2
<1> HIDE DEF b
<1>3. \A t \in 0 .. rows : Unrolled(b, t) \in Seq(Op)
  BY <1>1, <1>2, UnrolledType
<1>4. ReadRows(in, rows, cols) = Unrolled(b, rows)
  BY DEF ReadRows, For, b
<1>5. CASE io = "read" /\ r = in
  <2> DEFINE d == [t \in 0 .. rows - 1 |-> Row(t, cols)]
  <2>1. \A t \in 0 .. rows - 1 : d[t] = Elements(b[t], io, r)
    BY <1>2, <1>5
  <2> HIDE DEF d, e
  <2>2. Elements(Unrolled(b, rows), io, r) = Unrolled(d, rows)
    <3>1. Shows(d, b, rows, io, r)
      BY <1>2, <2>1 DEF Shows
    <3>2. QED
      BY <1>1, <3>1, ElementsUnrolled
  <2>3. Unrolled(d, rows) = RowMajor(rows, cols)
    BY DEF d, For, RowMajor
  <2>4. QED
    BY <1>1, <1>3, <1>4, <1>5, <2>2, <2>3
<1>6. CASE ~(io = "read" /\ r = in)
  <2>1. \A t \in 0 .. rows - 1 : e[t] = <<>>
    BY <1>6
  <2> HIDE DEF e
  <2>2. Elements(Unrolled(b, rows), io, r) = Unrolled(e, rows)
    <3>1. Shows(e, b, rows, io, r)
      BY <1>2 DEF Shows
    <3>2. QED
      BY <1>1, <3>1, ElementsUnrolled
  <2>3. Unrolled(e, rows) = <<>>
    BY <1>1, <2>1, UnrolledSilent
  <2>4. QED
    BY <1>1, <1>3, <1>4, <1>6, <2>2, <2>3
<1>7. QED
  BY <1>5, <1>6

LEMMA ReadScalesIo ==
  ASSUME NEW sc \in Streams, NEW m \in Nat, NEW io, NEW r
  PROVE  /\ ReadScales(sc, m) \in Seq(Op)
         /\ Elements(ReadScales(sc, m), io, r) =
              IF io = "read" /\ r = sc THEN Scales(m)
              ELSE <<>>
<1> DEFINE b == [t \in 0 .. m - 1 |-> Get(sc, <<t, 0>>)]
           e == [t \in 0 .. m - 1 |->
                  IF io = "read" /\ r = sc THEN <<<<t, 0>>>>
                  ELSE <<>>]
<1>1. m \in Nat
  OBVIOUS
<1>2. ASSUME NEW t \in 0 .. m - 1
      PROVE  b[t] \in Seq(Op) /\ e[t] = Elements(b[t], io, r)
  <2> DEFINE x == Get(sc, <<t, 0>>)
  <2>1. t \in Nat /\ <<t, 0>> \in Place
    BY DEF Place
  <2>2. /\ x \in Seq(Op)
        /\ Elements(x, io, r) = IF io = "read" /\ r = sc THEN <<<<t, 0>>>> ELSE <<>>
    BY <1>1, <2>1, GetIo
  <2>3. QED
    BY <2>2
<1> HIDE DEF b
<1>3. \A t \in 0 .. m : Unrolled(b, t) \in Seq(Op)
  BY <1>1, <1>2, UnrolledType
<1>4. ReadScales(sc, m) = Unrolled(b, m)
  BY DEF ReadScales, For, b
<1>5. CASE io = "read" /\ r = sc
  <2> DEFINE d == [t \in 0 .. m - 1 |-> <<<<t, 0>>>>]
  <2>1. \A t \in 0 .. m - 1 : d[t] = Elements(b[t], io, r)
    BY <1>2, <1>5
  <2> HIDE DEF d, e
  <2>2. Elements(Unrolled(b, m), io, r) = Unrolled(d, m)
    <3>1. Shows(d, b, m, io, r)
      BY <1>2, <2>1 DEF Shows
    <3>2. QED
      BY <1>1, <3>1, ElementsUnrolled
  <2>3. Unrolled(d, m) = Scales(m)
    BY DEF d, For, Scales
  <2>4. QED
    BY <1>1, <1>3, <1>4, <1>5, <2>2, <2>3
<1>6. CASE ~(io = "read" /\ r = sc)
  <2>1. \A t \in 0 .. m - 1 : e[t] = <<>>
    BY <1>6
  <2> HIDE DEF e
  <2>2. Elements(Unrolled(b, m), io, r) = Unrolled(e, m)
    <3>1. Shows(e, b, m, io, r)
      BY <1>2 DEF Shows
    <3>2. QED
      BY <1>1, <3>1, ElementsUnrolled
  <2>3. Unrolled(e, m) = <<>>
    BY <1>1, <2>1, UnrolledSilent
  <2>4. QED
    BY <1>1, <1>3, <1>4, <1>6, <2>2, <2>3
<1>7. QED
  BY <1>5, <1>6

(* The order of a product: TILE_M rows of a column, the tiles of a column, the *)
(* columns.                                                                   *)
TileOf(m, nt, mt)  == For(TileLen(m, TileM, mt), LAMBDA i : <<<<mt * TileM + i, nt>>>>)
ColumnOf(m, nt)    == For(Tiles(m, TileM), LAMBDA mt : TileOf(m, nt, mt))
ProductOrder(m, n) == For(n, LAMBDA nt : ColumnOf(m, nt))

WriteTile(out, m, nt, mt) == For(TileLen(m, TileM, mt), LAMBDA i : Put(out, <<mt * TileM + i, nt>>))
WriteColumn(out, m, nt)   == For(Tiles(m, TileM), LAMBDA mt : WriteTile(out, m, nt, mt))

(* A tile of a product, a column, the product.                                *)
LEMMA WriteTileIo ==
  ASSUME NEW out \in Streams, NEW m \in Nat \ {0}, NEW nt \in Nat, NEW mt \in 0 .. Tiles(m, TileM) - 1, NEW io, NEW r
  PROVE  /\ WriteTile(out, m, nt, mt) \in Seq(Op)
         /\ Elements(WriteTile(out, m, nt, mt), io, r) =
              IF io = "write" /\ r = out THEN TileOf(m, nt, mt)
              ELSE <<>>
<1> DEFINE b == [i \in 0 .. TileLen(m, TileM, mt) - 1 |-> Put(out, <<mt * TileM + i, nt>>)]
           e == [i \in 0 .. TileLen(m, TileM, mt) - 1 |->
                  IF io = "write" /\ r = out THEN <<<<mt * TileM + i, nt>>>>
                  ELSE <<>>]
<1>1. TileLen(m, TileM, mt) \in Nat /\ mt * TileM \in Nat
  BY Sizes, TileLenFacts, Products
<1>2. ASSUME NEW i \in 0 .. TileLen(m, TileM, mt) - 1
      PROVE  b[i] \in Seq(Op) /\ e[i] = Elements(b[i], io, r)
  <2> DEFINE x == Put(out, <<mt * TileM + i, nt>>)
  <2>1. i \in Nat /\ <<mt * TileM + i, nt>> \in Place
    BY <1>1 DEF Place
  <2>2. /\ x \in Seq(Op)
        /\ Elements(x, io, r) = IF io = "write" /\ r = out THEN <<<<mt * TileM + i, nt>>>> ELSE <<>>
    BY <1>1, <2>1, PutIo
  <2>3. QED
    BY <2>2
<1> HIDE DEF b
<1>3. \A i \in 0 .. TileLen(m, TileM, mt) : Unrolled(b, i) \in Seq(Op)
  BY <1>1, <1>2, UnrolledType
<1>4. WriteTile(out, m, nt, mt) = Unrolled(b, TileLen(m, TileM, mt))
  BY DEF WriteTile, For, b
<1>5. CASE io = "write" /\ r = out
  <2> DEFINE d == [i \in 0 .. TileLen(m, TileM, mt) - 1 |-> <<<<mt * TileM + i, nt>>>>]
  <2>1. \A i \in 0 .. TileLen(m, TileM, mt) - 1 : d[i] = Elements(b[i], io, r)
    BY <1>2, <1>5
  <2> HIDE DEF d, e
  <2>2. Elements(Unrolled(b, TileLen(m, TileM, mt)), io, r) = Unrolled(d, TileLen(m, TileM, mt))
    <3>1. Shows(d, b, TileLen(m, TileM, mt), io, r)
      BY <1>2, <2>1 DEF Shows
    <3>2. QED
      BY <1>1, <3>1, ElementsUnrolled
  <2>3. Unrolled(d, TileLen(m, TileM, mt)) = TileOf(m, nt, mt)
    BY DEF d, For, TileOf
  <2>4. QED
    BY <1>1, <1>3, <1>4, <1>5, <2>2, <2>3
<1>6. CASE ~(io = "write" /\ r = out)
  <2>1. \A i \in 0 .. TileLen(m, TileM, mt) - 1 : e[i] = <<>>
    BY <1>6
  <2> HIDE DEF e
  <2>2. Elements(Unrolled(b, TileLen(m, TileM, mt)), io, r) = Unrolled(e, TileLen(m, TileM, mt))
    <3>1. Shows(e, b, TileLen(m, TileM, mt), io, r)
      BY <1>2 DEF Shows
    <3>2. QED
      BY <1>1, <3>1, ElementsUnrolled
  <2>3. Unrolled(e, TileLen(m, TileM, mt)) = <<>>
    BY <1>1, <2>1, UnrolledSilent
  <2>4. QED
    BY <1>1, <1>3, <1>4, <1>6, <2>2, <2>3
<1>7. QED
  BY <1>5, <1>6

LEMMA WriteColumnIo ==
  ASSUME NEW out \in Streams, NEW m \in Nat \ {0}, NEW nt \in Nat, NEW io, NEW r
  PROVE  /\ WriteColumn(out, m, nt) \in Seq(Op)
         /\ Elements(WriteColumn(out, m, nt), io, r) =
              IF io = "write" /\ r = out THEN ColumnOf(m, nt)
              ELSE <<>>
<1> DEFINE b == [mt \in 0 .. Tiles(m, TileM) - 1 |-> WriteTile(out, m, nt, mt)]
           e == [mt \in 0 .. Tiles(m, TileM) - 1 |->
                  IF io = "write" /\ r = out THEN TileOf(m, nt, mt)
                  ELSE <<>>]
<1>1. Tiles(m, TileM) \in Nat
  BY Sizes, TilesFacts
<1>2. ASSUME NEW mt \in 0 .. Tiles(m, TileM) - 1
      PROVE  b[mt] \in Seq(Op) /\ e[mt] = Elements(b[mt], io, r)
  <2> DEFINE x == WriteTile(out, m, nt, mt)
  <2>1. mt \in Nat
    OBVIOUS
  <2>2. /\ x \in Seq(Op)
        /\ Elements(x, io, r) = IF io = "write" /\ r = out THEN TileOf(m, nt, mt) ELSE <<>>
    BY <1>1, <2>1, WriteTileIo
  <2>3. QED
    BY <2>2
<1> HIDE DEF b
<1>3. \A mt \in 0 .. Tiles(m, TileM) : Unrolled(b, mt) \in Seq(Op)
  BY <1>1, <1>2, UnrolledType
<1>4. WriteColumn(out, m, nt) = Unrolled(b, Tiles(m, TileM))
  BY DEF WriteColumn, For, b
<1>5. CASE io = "write" /\ r = out
  <2> DEFINE d == [mt \in 0 .. Tiles(m, TileM) - 1 |-> TileOf(m, nt, mt)]
  <2>1. \A mt \in 0 .. Tiles(m, TileM) - 1 : d[mt] = Elements(b[mt], io, r)
    BY <1>2, <1>5
  <2> HIDE DEF d, e
  <2>2. Elements(Unrolled(b, Tiles(m, TileM)), io, r) = Unrolled(d, Tiles(m, TileM))
    <3>1. Shows(d, b, Tiles(m, TileM), io, r)
      BY <1>2, <2>1 DEF Shows
    <3>2. QED
      BY <1>1, <3>1, ElementsUnrolled
  <2>3. Unrolled(d, Tiles(m, TileM)) = ColumnOf(m, nt)
    BY DEF d, For, ColumnOf
  <2>4. QED
    BY <1>1, <1>3, <1>4, <1>5, <2>2, <2>3
<1>6. CASE ~(io = "write" /\ r = out)
  <2>1. \A mt \in 0 .. Tiles(m, TileM) - 1 : e[mt] = <<>>
    BY <1>6
  <2> HIDE DEF e
  <2>2. Elements(Unrolled(b, Tiles(m, TileM)), io, r) = Unrolled(e, Tiles(m, TileM))
    <3>1. Shows(e, b, Tiles(m, TileM), io, r)
      BY <1>2 DEF Shows
    <3>2. QED
      BY <1>1, <3>1, ElementsUnrolled
  <2>3. Unrolled(e, Tiles(m, TileM)) = <<>>
    BY <1>1, <2>1, UnrolledSilent
  <2>4. QED
    BY <1>1, <1>3, <1>4, <1>6, <2>2, <2>3
<1>7. QED
  BY <1>5, <1>6

LEMMA WriteProductIo ==
  ASSUME NEW out \in Streams, NEW m \in Nat \ {0}, NEW n \in Nat, NEW io, NEW r
  PROVE  /\ WriteProduct(out, m, n) \in Seq(Op)
         /\ Elements(WriteProduct(out, m, n), io, r) =
              IF io = "write" /\ r = out THEN ProductOrder(m, n)
              ELSE <<>>
<1> DEFINE b == [nt \in 0 .. n - 1 |-> WriteColumn(out, m, nt)]
           e == [nt \in 0 .. n - 1 |->
                  IF io = "write" /\ r = out THEN ColumnOf(m, nt)
                  ELSE <<>>]
<1>1. n \in Nat
  OBVIOUS
<1>2. ASSUME NEW nt \in 0 .. n - 1
      PROVE  b[nt] \in Seq(Op) /\ e[nt] = Elements(b[nt], io, r)
  <2> DEFINE x == WriteColumn(out, m, nt)
  <2>1. nt \in Nat
    OBVIOUS
  <2>2. /\ x \in Seq(Op)
        /\ Elements(x, io, r) = IF io = "write" /\ r = out THEN ColumnOf(m, nt) ELSE <<>>
    BY <1>1, <2>1, WriteColumnIo
  <2>3. QED
    BY <2>2
<1> HIDE DEF b
<1>3. \A nt \in 0 .. n : Unrolled(b, nt) \in Seq(Op)
  BY <1>1, <1>2, UnrolledType
<1>4. WriteProduct(out, m, n) = Unrolled(b, n)
  BY DEF WriteProduct, WriteColumn, WriteTile, For, b
<1>5. CASE io = "write" /\ r = out
  <2> DEFINE d == [nt \in 0 .. n - 1 |-> ColumnOf(m, nt)]
  <2>1. \A nt \in 0 .. n - 1 : d[nt] = Elements(b[nt], io, r)
    BY <1>2, <1>5
  <2> HIDE DEF d, e
  <2>2. Elements(Unrolled(b, n), io, r) = Unrolled(d, n)
    <3>1. Shows(d, b, n, io, r)
      BY <1>2, <2>1 DEF Shows
    <3>2. QED
      BY <1>1, <3>1, ElementsUnrolled
  <2>3. Unrolled(d, n) = ProductOrder(m, n)
    BY DEF d, For, ProductOrder
  <2>4. QED
    BY <1>1, <1>3, <1>4, <1>5, <2>2, <2>3
<1>6. CASE ~(io = "write" /\ r = out)
  <2>1. \A nt \in 0 .. n - 1 : e[nt] = <<>>
    BY <1>6
  <2> HIDE DEF e
  <2>2. Elements(Unrolled(b, n), io, r) = Unrolled(e, n)
    <3>1. Shows(e, b, n, io, r)
      BY <1>2 DEF Shows
    <3>2. QED
      BY <1>1, <3>1, ElementsUnrolled
  <2>3. Unrolled(e, n) = <<>>
    BY <1>1, <2>1, UnrolledSilent
  <2>4. QED
    BY <1>1, <1>3, <1>4, <1>6, <2>2, <2>3
<1>7. QED
  BY <1>5, <1>6

(* The order of attention: the keys of a head, its tiles of queries.          *)
HeadOf(rows, h)       == For(rows, LAMBDA t : <<<<t, h>>>>)
HeadMajor(rows)       == For(HKv, LAMBDA h : HeadOf(rows, h))
QueriesOf(rows, h, qt) == For(QueryCount(rows, qt), LAMBDA q : <<Query(h, qt, q)>>)
HeadQueries(rows, h)  == For(Tiles(rows, QTile), LAMBDA qt : QueriesOf(rows, h, qt))
QueryOrder(rows)      == For(HKv, LAMBDA h : HeadQueries(rows, h))

ReadKv(rows, h)           == For(rows, LAMBDA t : Get("k_rot", <<t, h>>) \o Get("v_pass", <<t, h>>))
ReadQueries(rows, h, qt)  == For(QueryCount(rows, qt), LAMBDA q : Get("q_rot", Query(h, qt, q)))
WriteQueries(rows, h, qt) == For(QueryCount(rows, qt), LAMBDA q : Put("attn_o", Query(h, qt, q)))
AttendHead(rows, h)       == For(Tiles(rows, QTile), LAMBDA qt : ReadQueries(rows, h, qt) \o WriteQueries(rows, h, qt))

(* The streams by name, for the steps that need one of them.                  *)
LEMMA NamedStreams ==
  \A s \in {"raw_act", "norm1_q", "norm1_sc", "qkv_out", "q_pre", "k_pre", "v_pass", "q_rot", "k_rot",
            "attn_o", "o_flat", "o_q", "o_sc", "oproj_out", "res_buf_1", "raw_act2", "norm2_q",
            "norm2_sc", "gateup_out", "ffn_act", "ffn_sc", "down_out", "res_buf_1_out",
            "lm_raw", "lm_q", "lm_sc", "lm_out"} : s \in Streams
BY DEF Streams

(* The queries of a tile are places.                                          *)
LEMMA QueryFacts ==
  ASSUME NEW rows \in Nat \ {0}, NEW qt \in 0 .. Tiles(rows, QTile) - 1
  PROVE  /\ QueryCount(rows, qt) \in Nat
         /\ \A h \in Nat, q \in Nat : Query(h, qt, q) \in Place
<1>1. TileLen(rows, QTile, qt) \in Nat /\ qt \in Nat
  BY Sizes, TileLenFacts
<1>2. QueryCount(rows, qt) \in Nat
  BY <1>1, Sizes DEF QueryCount
<1>3. ASSUME NEW h \in Nat, NEW q \in Nat PROVE Query(h, qt, q) \in Place
  <2>1. q \div Ratio \in Nat /\ q % Ratio \in Nat
    <3>1. Ratio \in Nat \ {0}
      BY Sizes
    <3>2. q \div Ratio \in Nat /\ q % Ratio \in 0 .. Ratio - 1
      BY ONLY <3>1, q \in Nat, Division
    <3>3. QED
      BY <3>1, <3>2
  <2>2. qt * QTile \in Nat /\ h * Ratio \in Nat
    BY <1>1, Sizes, Products
  <2>3. QED
    BY <2>1, <2>2 DEF Query, Place
<1>4. QED
  BY <1>2, <1>3

(* The loops of attention.                                                    *)
LEMMA ReadKvIo ==
  ASSUME NEW rows \in Nat, NEW h \in Nat, NEW io, NEW r
  PROVE  /\ ReadKv(rows, h) \in Seq(Op)
         /\ Elements(ReadKv(rows, h), io, r) =
              IF io = "read" /\ r = "k_rot" THEN HeadOf(rows, h)
              ELSE IF io = "read" /\ r = "v_pass" THEN HeadOf(rows, h)
              ELSE <<>>
<1> DEFINE b == [t \in 0 .. rows - 1 |-> Get("k_rot", <<t, h>>) \o Get("v_pass", <<t, h>>)]
           e == [t \in 0 .. rows - 1 |->
                  IF io = "read" /\ r = "k_rot" THEN <<<<t, h>>>>
                  ELSE IF io = "read" /\ r = "v_pass" THEN <<<<t, h>>>>
                  ELSE <<>>]
<1>1. rows \in Nat
  OBVIOUS
<1>2. ASSUME NEW t \in 0 .. rows - 1
      PROVE  b[t] \in Seq(Op) /\ e[t] = Elements(b[t], io, r)
  <2> DEFINE x == Get("k_rot", <<t, h>>)
             y == Get("v_pass", <<t, h>>)
  <2>1. t \in Nat /\ <<t, h>> \in Place
    BY DEF Place
  <2>2. /\ x \in Seq(Op)
        /\ Elements(x, io, r) = IF io = "read" /\ r = "k_rot" THEN <<<<t, h>>>> ELSE <<>>
    BY <1>1, <2>1, NamedStreams, GetIo
  <2>3. /\ y \in Seq(Op)
        /\ Elements(y, io, r) = IF io = "read" /\ r = "v_pass" THEN <<<<t, h>>>> ELSE <<>>
    BY <1>1, <2>1, NamedStreams, GetIo
  <2> HIDE DEF x, y
  <2>4. /\ x \o y \in Seq(Op)
        /\ Elements(x, io, r) = <<>> => Elements(x \o y, io, r) = Elements(y, io, r)
        /\ Elements(y, io, r) = <<>> => Elements(x \o y, io, r) = Elements(x, io, r)
    BY <2>2, <2>3, JoinIo
  <2>5. b[t] = x \o y
    BY DEF x, y
  <2>6. QED
    BY <2>2, <2>3, <2>4, <2>5
<1> HIDE DEF b
<1>3. \A t \in 0 .. rows : Unrolled(b, t) \in Seq(Op)
  BY <1>1, <1>2, UnrolledType
<1>4. ReadKv(rows, h) = Unrolled(b, rows)
  BY DEF ReadKv, For, b
<1>5. CASE io = "read" /\ r = "k_rot"
  <2> DEFINE d == [t \in 0 .. rows - 1 |-> <<<<t, h>>>>]
  <2>1. \A t \in 0 .. rows - 1 : d[t] = Elements(b[t], io, r)
    BY <1>2, <1>5
  <2> HIDE DEF d, e
  <2>2. Elements(Unrolled(b, rows), io, r) = Unrolled(d, rows)
    <3>1. Shows(d, b, rows, io, r)
      BY <1>2, <2>1 DEF Shows
    <3>2. QED
      BY <1>1, <3>1, ElementsUnrolled
  <2>3. Unrolled(d, rows) = HeadOf(rows, h)
    BY DEF d, For, HeadOf
  <2>4. QED
    BY <1>1, <1>3, <1>4, <1>5, <2>2, <2>3
<1>6. CASE (io = "read" /\ r = "v_pass") /\ ~(io = "read" /\ r = "k_rot")
  <2> DEFINE d == [t \in 0 .. rows - 1 |-> <<<<t, h>>>>]
  <2>1. \A t \in 0 .. rows - 1 : d[t] = Elements(b[t], io, r)
    BY <1>2, <1>6
  <2> HIDE DEF d, e
  <2>2. Elements(Unrolled(b, rows), io, r) = Unrolled(d, rows)
    <3>1. Shows(d, b, rows, io, r)
      BY <1>2, <2>1 DEF Shows
    <3>2. QED
      BY <1>1, <3>1, ElementsUnrolled
  <2>3. Unrolled(d, rows) = HeadOf(rows, h)
    BY DEF d, For, HeadOf
  <2>4. QED
    BY <1>1, <1>3, <1>4, <1>6, <2>2, <2>3
<1>7. CASE ~(io = "read" /\ r = "k_rot") /\ ~(io = "read" /\ r = "v_pass")
  <2>1. \A t \in 0 .. rows - 1 : e[t] = <<>>
    BY <1>7
  <2> HIDE DEF e
  <2>2. Elements(Unrolled(b, rows), io, r) = Unrolled(e, rows)
    <3>1. Shows(e, b, rows, io, r)
      BY <1>2 DEF Shows
    <3>2. QED
      BY <1>1, <3>1, ElementsUnrolled
  <2>3. Unrolled(e, rows) = <<>>
    BY <1>1, <2>1, UnrolledSilent
  <2>4. QED
    BY <1>1, <1>3, <1>4, <1>7, <2>2, <2>3
<1>8. QED
  BY <1>5, <1>6, <1>7

LEMMA ReadQueriesIo ==
  ASSUME NEW rows \in Nat \ {0}, NEW h \in Nat, NEW qt \in 0 .. Tiles(rows, QTile) - 1, NEW io, NEW r
  PROVE  /\ ReadQueries(rows, h, qt) \in Seq(Op)
         /\ Elements(ReadQueries(rows, h, qt), io, r) =
              IF io = "read" /\ r = "q_rot" THEN QueriesOf(rows, h, qt)
              ELSE <<>>
<1> DEFINE b == [q \in 0 .. QueryCount(rows, qt) - 1 |-> Get("q_rot", Query(h, qt, q))]
           e == [q \in 0 .. QueryCount(rows, qt) - 1 |->
                  IF io = "read" /\ r = "q_rot" THEN <<Query(h, qt, q)>>
                  ELSE <<>>]
<1>1. QueryCount(rows, qt) \in Nat
  BY QueryFacts
<1>2. ASSUME NEW q \in 0 .. QueryCount(rows, qt) - 1
      PROVE  b[q] \in Seq(Op) /\ e[q] = Elements(b[q], io, r)
  <2> DEFINE x == Get("q_rot", Query(h, qt, q))
  <2>1. q \in Nat /\ Query(h, qt, q) \in Place
    BY <1>1, QueryFacts
  <2>2. /\ x \in Seq(Op)
        /\ Elements(x, io, r) = IF io = "read" /\ r = "q_rot" THEN <<Query(h, qt, q)>> ELSE <<>>
    BY <1>1, <2>1, NamedStreams, GetIo
  <2>3. QED
    BY <2>2
<1> HIDE DEF b
<1>3. \A q \in 0 .. QueryCount(rows, qt) : Unrolled(b, q) \in Seq(Op)
  BY <1>1, <1>2, UnrolledType
<1>4. ReadQueries(rows, h, qt) = Unrolled(b, QueryCount(rows, qt))
  BY DEF ReadQueries, For, b
<1>5. CASE io = "read" /\ r = "q_rot"
  <2> DEFINE d == [q \in 0 .. QueryCount(rows, qt) - 1 |-> <<Query(h, qt, q)>>]
  <2>1. \A q \in 0 .. QueryCount(rows, qt) - 1 : d[q] = Elements(b[q], io, r)
    BY <1>2, <1>5
  <2> HIDE DEF d, e
  <2>2. Elements(Unrolled(b, QueryCount(rows, qt)), io, r) = Unrolled(d, QueryCount(rows, qt))
    <3>1. Shows(d, b, QueryCount(rows, qt), io, r)
      BY <1>2, <2>1 DEF Shows
    <3>2. QED
      BY <1>1, <3>1, ElementsUnrolled
  <2>3. Unrolled(d, QueryCount(rows, qt)) = QueriesOf(rows, h, qt)
    BY DEF d, For, QueriesOf
  <2>4. QED
    BY <1>1, <1>3, <1>4, <1>5, <2>2, <2>3
<1>6. CASE ~(io = "read" /\ r = "q_rot")
  <2>1. \A q \in 0 .. QueryCount(rows, qt) - 1 : e[q] = <<>>
    BY <1>6
  <2> HIDE DEF e
  <2>2. Elements(Unrolled(b, QueryCount(rows, qt)), io, r) = Unrolled(e, QueryCount(rows, qt))
    <3>1. Shows(e, b, QueryCount(rows, qt), io, r)
      BY <1>2 DEF Shows
    <3>2. QED
      BY <1>1, <3>1, ElementsUnrolled
  <2>3. Unrolled(e, QueryCount(rows, qt)) = <<>>
    BY <1>1, <2>1, UnrolledSilent
  <2>4. QED
    BY <1>1, <1>3, <1>4, <1>6, <2>2, <2>3
<1>7. QED
  BY <1>5, <1>6

LEMMA WriteQueriesIo ==
  ASSUME NEW rows \in Nat \ {0}, NEW h \in Nat, NEW qt \in 0 .. Tiles(rows, QTile) - 1, NEW io, NEW r
  PROVE  /\ WriteQueries(rows, h, qt) \in Seq(Op)
         /\ Elements(WriteQueries(rows, h, qt), io, r) =
              IF io = "write" /\ r = "attn_o" THEN QueriesOf(rows, h, qt)
              ELSE <<>>
<1> DEFINE b == [q \in 0 .. QueryCount(rows, qt) - 1 |-> Put("attn_o", Query(h, qt, q))]
           e == [q \in 0 .. QueryCount(rows, qt) - 1 |->
                  IF io = "write" /\ r = "attn_o" THEN <<Query(h, qt, q)>>
                  ELSE <<>>]
<1>1. QueryCount(rows, qt) \in Nat
  BY QueryFacts
<1>2. ASSUME NEW q \in 0 .. QueryCount(rows, qt) - 1
      PROVE  b[q] \in Seq(Op) /\ e[q] = Elements(b[q], io, r)
  <2> DEFINE x == Put("attn_o", Query(h, qt, q))
  <2>1. q \in Nat /\ Query(h, qt, q) \in Place
    BY <1>1, QueryFacts
  <2>2. /\ x \in Seq(Op)
        /\ Elements(x, io, r) = IF io = "write" /\ r = "attn_o" THEN <<Query(h, qt, q)>> ELSE <<>>
    BY <1>1, <2>1, NamedStreams, PutIo
  <2>3. QED
    BY <2>2
<1> HIDE DEF b
<1>3. \A q \in 0 .. QueryCount(rows, qt) : Unrolled(b, q) \in Seq(Op)
  BY <1>1, <1>2, UnrolledType
<1>4. WriteQueries(rows, h, qt) = Unrolled(b, QueryCount(rows, qt))
  BY DEF WriteQueries, For, b
<1>5. CASE io = "write" /\ r = "attn_o"
  <2> DEFINE d == [q \in 0 .. QueryCount(rows, qt) - 1 |-> <<Query(h, qt, q)>>]
  <2>1. \A q \in 0 .. QueryCount(rows, qt) - 1 : d[q] = Elements(b[q], io, r)
    BY <1>2, <1>5
  <2> HIDE DEF d, e
  <2>2. Elements(Unrolled(b, QueryCount(rows, qt)), io, r) = Unrolled(d, QueryCount(rows, qt))
    <3>1. Shows(d, b, QueryCount(rows, qt), io, r)
      BY <1>2, <2>1 DEF Shows
    <3>2. QED
      BY <1>1, <3>1, ElementsUnrolled
  <2>3. Unrolled(d, QueryCount(rows, qt)) = QueriesOf(rows, h, qt)
    BY DEF d, For, QueriesOf
  <2>4. QED
    BY <1>1, <1>3, <1>4, <1>5, <2>2, <2>3
<1>6. CASE ~(io = "write" /\ r = "attn_o")
  <2>1. \A q \in 0 .. QueryCount(rows, qt) - 1 : e[q] = <<>>
    BY <1>6
  <2> HIDE DEF e
  <2>2. Elements(Unrolled(b, QueryCount(rows, qt)), io, r) = Unrolled(e, QueryCount(rows, qt))
    <3>1. Shows(e, b, QueryCount(rows, qt), io, r)
      BY <1>2 DEF Shows
    <3>2. QED
      BY <1>1, <3>1, ElementsUnrolled
  <2>3. Unrolled(e, QueryCount(rows, qt)) = <<>>
    BY <1>1, <2>1, UnrolledSilent
  <2>4. QED
    BY <1>1, <1>3, <1>4, <1>6, <2>2, <2>3
<1>7. QED
  BY <1>5, <1>6

LEMMA AttendHeadIo ==
  ASSUME NEW rows \in Nat \ {0}, NEW h \in Nat, NEW io, NEW r
  PROVE  /\ AttendHead(rows, h) \in Seq(Op)
         /\ Elements(AttendHead(rows, h), io, r) =
              IF io = "read" /\ r = "q_rot" THEN HeadQueries(rows, h)
              ELSE IF io = "write" /\ r = "attn_o" THEN HeadQueries(rows, h)
              ELSE <<>>
<1> DEFINE b == [qt \in 0 .. Tiles(rows, QTile) - 1 |-> ReadQueries(rows, h, qt) \o WriteQueries(rows, h, qt)]
           e == [qt \in 0 .. Tiles(rows, QTile) - 1 |->
                  IF io = "read" /\ r = "q_rot" THEN QueriesOf(rows, h, qt)
                  ELSE IF io = "write" /\ r = "attn_o" THEN QueriesOf(rows, h, qt)
                  ELSE <<>>]
<1>1. Tiles(rows, QTile) \in Nat
  BY Sizes, TilesFacts
<1>2. ASSUME NEW qt \in 0 .. Tiles(rows, QTile) - 1
      PROVE  b[qt] \in Seq(Op) /\ e[qt] = Elements(b[qt], io, r)
  <2> DEFINE x == ReadQueries(rows, h, qt)
             y == WriteQueries(rows, h, qt)
  <2>1. qt \in Nat
    OBVIOUS
  <2>2. /\ x \in Seq(Op)
        /\ Elements(x, io, r) = IF io = "read" /\ r = "q_rot" THEN QueriesOf(rows, h, qt) ELSE <<>>
    BY <1>1, <2>1, ReadQueriesIo
  <2>3. /\ y \in Seq(Op)
        /\ Elements(y, io, r) = IF io = "write" /\ r = "attn_o" THEN QueriesOf(rows, h, qt) ELSE <<>>
    BY <1>1, <2>1, WriteQueriesIo
  <2> HIDE DEF x, y
  <2>4. /\ x \o y \in Seq(Op)
        /\ Elements(x, io, r) = <<>> => Elements(x \o y, io, r) = Elements(y, io, r)
        /\ Elements(y, io, r) = <<>> => Elements(x \o y, io, r) = Elements(x, io, r)
    BY <2>2, <2>3, JoinIo
  <2>5. b[qt] = x \o y
    BY DEF x, y
  <2>6. QED
    BY <2>2, <2>3, <2>4, <2>5
<1> HIDE DEF b
<1>3. \A qt \in 0 .. Tiles(rows, QTile) : Unrolled(b, qt) \in Seq(Op)
  BY <1>1, <1>2, UnrolledType
<1>4. AttendHead(rows, h) = Unrolled(b, Tiles(rows, QTile))
  BY DEF AttendHead, For, b
<1>5. CASE io = "read" /\ r = "q_rot"
  <2> DEFINE d == [qt \in 0 .. Tiles(rows, QTile) - 1 |-> QueriesOf(rows, h, qt)]
  <2>1. \A qt \in 0 .. Tiles(rows, QTile) - 1 : d[qt] = Elements(b[qt], io, r)
    BY <1>2, <1>5
  <2> HIDE DEF d, e
  <2>2. Elements(Unrolled(b, Tiles(rows, QTile)), io, r) = Unrolled(d, Tiles(rows, QTile))
    <3>1. Shows(d, b, Tiles(rows, QTile), io, r)
      BY <1>2, <2>1 DEF Shows
    <3>2. QED
      BY <1>1, <3>1, ElementsUnrolled
  <2>3. Unrolled(d, Tiles(rows, QTile)) = HeadQueries(rows, h)
    BY DEF d, For, HeadQueries
  <2>4. QED
    BY <1>1, <1>3, <1>4, <1>5, <2>2, <2>3
<1>6. CASE (io = "write" /\ r = "attn_o") /\ ~(io = "read" /\ r = "q_rot")
  <2> DEFINE d == [qt \in 0 .. Tiles(rows, QTile) - 1 |-> QueriesOf(rows, h, qt)]
  <2>1. \A qt \in 0 .. Tiles(rows, QTile) - 1 : d[qt] = Elements(b[qt], io, r)
    BY <1>2, <1>6
  <2> HIDE DEF d, e
  <2>2. Elements(Unrolled(b, Tiles(rows, QTile)), io, r) = Unrolled(d, Tiles(rows, QTile))
    <3>1. Shows(d, b, Tiles(rows, QTile), io, r)
      BY <1>2, <2>1 DEF Shows
    <3>2. QED
      BY <1>1, <3>1, ElementsUnrolled
  <2>3. Unrolled(d, Tiles(rows, QTile)) = HeadQueries(rows, h)
    BY DEF d, For, HeadQueries
  <2>4. QED
    BY <1>1, <1>3, <1>4, <1>6, <2>2, <2>3
<1>7. CASE ~(io = "read" /\ r = "q_rot") /\ ~(io = "write" /\ r = "attn_o")
  <2>1. \A qt \in 0 .. Tiles(rows, QTile) - 1 : e[qt] = <<>>
    BY <1>7
  <2> HIDE DEF e
  <2>2. Elements(Unrolled(b, Tiles(rows, QTile)), io, r) = Unrolled(e, Tiles(rows, QTile))
    <3>1. Shows(e, b, Tiles(rows, QTile), io, r)
      BY <1>2 DEF Shows
    <3>2. QED
      BY <1>1, <3>1, ElementsUnrolled
  <2>3. Unrolled(e, Tiles(rows, QTile)) = <<>>
    BY <1>1, <2>1, UnrolledSilent
  <2>4. QED
    BY <1>1, <1>3, <1>4, <1>7, <2>2, <2>3
<1>8. QED
  BY <1>5, <1>6, <1>7

-----------------------------------------------------------------------------
(* The functions.                                                             *)

(* A row and a part of one, element by element.                               *)
LEMMA RowFacts ==
  ASSUME NEW t \in Nat, NEW cols \in Nat
  PROVE  /\ Row(t, cols) \in Seq(Place) /\ Len(Row(t, cols)) = cols
         /\ \A k \in 1 .. cols : Row(t, cols)[k] = <<t, k - 1>>
         /\ Slice(t, 0, cols) = Row(t, cols)
<1> DEFINE e == [c \in 0 .. cols - 1 |-> <<t, c>>]
           b == [c \in 0 .. cols - 1 |-> <<<<t, c>>>>]
           d == [c \in 0 .. cols - 1 |-> <<<<t, 0 + c>>>>]
<1>1. \A c \in 0 .. cols - 1 : e[c] \in Place /\ b[c] = <<e[c]>> /\ d[c] = b[c]
  BY DEF Place
<1>2. \A k \in 1 .. cols : k - 1 \in 0 .. cols - 1 /\ e[k - 1] = <<t, k - 1>>
  OBVIOUS
<1> HIDE DEF e, b, d
<1>3. /\ Unrolled(b, cols) \in Seq(Place) /\ Len(Unrolled(b, cols)) = cols
      /\ \A k \in 1 .. cols : Unrolled(b, cols)[k] = e[k - 1]
  <2>1. Units(b, cols, Place, e)
    BY <1>1 DEF Units
  <2>2. QED
    BY <2>1, UnrolledUnits
<1>4. Unrolled(d, cols) = Unrolled(b, cols)
  BY <1>1, UnrolledSame
<1>5. Row(t, cols) = Unrolled(b, cols) /\ Slice(t, 0, cols) = Unrolled(d, cols)
  BY DEF Row, Slice, For, b, d
<1>6. QED
  BY <1>2, <1>3, <1>4, <1>5

LEMMA SliceFacts ==
  ASSUME NEW t \in Nat, NEW first \in Nat, NEW cols \in Nat
  PROVE  /\ Slice(t, first, cols) \in Seq(Place) /\ Len(Slice(t, first, cols)) = cols
         /\ \A k \in 1 .. cols : Slice(t, first, cols)[k] = <<t, first + (k - 1)>>
<1> DEFINE e == [c \in 0 .. cols - 1 |-> <<t, first + c>>]
           b == [c \in 0 .. cols - 1 |-> <<<<t, first + c>>>>]
<1>1. \A c \in 0 .. cols - 1 : e[c] \in Place /\ b[c] = <<e[c]>>
  BY DEF Place
<1>2. \A k \in 1 .. cols : k - 1 \in 0 .. cols - 1 /\ e[k - 1] = <<t, first + (k - 1)>>
  OBVIOUS
<1> HIDE DEF e, b
<1>3. /\ Unrolled(b, cols) \in Seq(Place) /\ Len(Unrolled(b, cols)) = cols
      /\ \A k \in 1 .. cols : Unrolled(b, cols)[k] = e[k - 1]
  <2>1. Units(b, cols, Place, e)
    BY <1>1 DEF Units
  <2>2. QED
    BY <2>1, UnrolledUnits
<1>4. Slice(t, first, cols) = Unrolled(b, cols)
  BY DEF Slice, For, b
<1>5. QED
  BY <1>2, <1>3, <1>4

(* The queries, keys and values of a token make up its row.                   *)
LEMMA SlicesOfRow ==
  ASSUME NEW t \in Nat, NEW a \in Nat, NEW b \in Nat, NEW c \in Nat
  PROVE  (Row(t, a) \o Slice(t, a, b)) \o Slice(t, a + b, c) = Row(t, a + b + c)
<1> DEFINE x == Row(t, a)
           y == Slice(t, a, b)
           z == Slice(t, a + b, c)
           w == Row(t, a + b + c)
<1>1. x \in Seq(Place) /\ Len(x) = a /\ \A k \in 1 .. a : x[k] = <<t, k - 1>>
  BY RowFacts
<1>2. y \in Seq(Place) /\ Len(y) = b /\ \A k \in 1 .. b : y[k] = <<t, a + (k - 1)>>
  BY SliceFacts
<1>3. z \in Seq(Place) /\ Len(z) = c /\ \A k \in 1 .. c : z[k] = <<t, a + b + (k - 1)>>
  <2>1. a + b \in Nat
    OBVIOUS
  <2>2. QED
    BY <2>1, SliceFacts
<1>4. w \in Seq(Place) /\ Len(w) = a + b + c /\ \A k \in 1 .. a + b + c : w[k] = <<t, k - 1>>
  <2>1. a + b + c \in Nat
    OBVIOUS
  <2>2. QED
    BY <2>1, RowFacts
<1> HIDE DEF x, y, z, w
<1>5. /\ x \o y \in Seq(Place) /\ Len(x \o y) = a + b
      /\ \A k \in 1 .. a + b : (x \o y)[k] = IF k <= a THEN x[k] ELSE y[k - a]
  BY <1>1, <1>2, ConcatProperties
<1>6. \A k \in 1 .. a + b : (x \o y)[k] = <<t, k - 1>>
  <2> TAKE k \in 1 .. a + b
  <2>1. CASE k <= a
    BY <2>1, <1>1, <1>5
  <2>2. CASE ~(k <= a)
    <3>1. k - a \in 1 .. b /\ a + ((k - a) - 1) = k - 1
      BY <2>2
    <3>2. y[k - a] = <<t, k - 1>>
      BY <3>1, <1>2
    <3>3. (x \o y)[k] = y[k - a]
      BY <2>2, <1>5
    <3>4. QED
      BY <3>2, <3>3
  <2>3. QED
    BY <2>1, <2>2
<1> DEFINE v == x \o y
<1> HIDE DEF v
<1>7. v \in Seq(Place) /\ Len(v) = a + b /\ \A k \in 1 .. a + b : v[k] = <<t, k - 1>>
  BY <1>5, <1>6 DEF v
<1>8. /\ v \o z \in Seq(Place) /\ Len(v \o z) = a + b + c
      /\ \A k \in 1 .. a + b + c : (v \o z)[k] = IF k <= a + b THEN v[k] ELSE z[k - (a + b)]
  <2>1. /\ v \o z \in Seq(Place) /\ Len(v \o z) = Len(v) + Len(z)
        /\ \A k \in 1 .. Len(v) + Len(z) : (v \o z)[k] = IF k <= Len(v) THEN v[k] ELSE z[k - Len(v)]
    <3>1. v \in Seq(Place) /\ z \in Seq(Place)
      BY <1>3, <1>7
    <3>2. QED
      BY ONLY <3>1, ConcatProperties
  <2>2. QED
    BY <2>1, <1>3, <1>7
<1>9. \A k \in 1 .. a + b + c : (v \o z)[k] = <<t, k - 1>>
  <2> TAKE k \in 1 .. a + b + c
  <2>1. CASE k <= a + b
    BY <2>1, <1>7, <1>8
  <2>2. CASE ~(k <= a + b)
    <3>1. k - (a + b) \in 1 .. c /\ a + b + ((k - (a + b)) - 1) = k - 1
      BY <2>2
    <3>2. z[k - (a + b)] = <<t, k - 1>>
      BY <3>1, <1>3
    <3>3. QED
      BY <2>2, <3>2, <1>8
  <2>3. QED
    BY <2>1, <2>2
<1>10. v \o z = w
  BY <1>4, <1>8, <1>9, SeqEqual
<1>11. QED
  BY <1>10 DEF v, x, y, z, w

(* A row passed on.                                                           *)
LEMMA CopyIo ==
  ASSUME NEW in \in Streams, NEW out \in Streams, NEW t \in Nat, NEW cols \in Nat, NEW io, NEW r
  PROVE  /\ CopyRow(in, 0, out, t, cols) \in Seq(Op)
         /\ Elements(CopyRow(in, 0, out, t, cols), io, r) =
              IF io = "read" /\ r = in THEN Row(t, cols)
              ELSE IF io = "write" /\ r = out THEN Row(t, cols)
              ELSE <<>>
<1>1. /\ CopyRow(in, 0, out, t, cols) \in Seq(Op)
      /\ Elements(CopyRow(in, 0, out, t, cols), io, r) =
           IF io = "read" /\ r = in THEN Slice(t, 0, cols)
           ELSE IF io = "write" /\ r = out THEN Row(t, cols)
           ELSE <<>>
  BY 0 \in Nat, CopyRowIo
<1>2. Slice(t, 0, cols) = Row(t, cols)
  BY RowFacts
<1>3. QED
  BY <1>1, <1>2

(* What the functions read and write.                                         *)
LEMMA RopeIo ==
  ASSUME NEW in \in Streams, NEW out \in Streams, NEW heads \in Nat, NEW rows \in Nat, NEW io, NEW r
  PROVE  /\ Rope(in, out, heads, rows) \in Seq(Op)
         /\ Elements(Rope(in, out, heads, rows), io, r) =
              IF io = "read" /\ r = in THEN RowMajor(rows, heads)
              ELSE IF io = "write" /\ r = out THEN RowMajor(rows, heads)
              ELSE <<>>
<1> DEFINE b == [t \in 0 .. rows - 1 |-> CopyRow(in, 0, out, t, heads)]
           e == [t \in 0 .. rows - 1 |->
                  IF io = "read" /\ r = in THEN Row(t, heads)
                  ELSE IF io = "write" /\ r = out THEN Row(t, heads)
                  ELSE <<>>]
<1>1. rows \in Nat
  OBVIOUS
<1>2. ASSUME NEW t \in 0 .. rows - 1
      PROVE  b[t] \in Seq(Op) /\ e[t] = Elements(b[t], io, r)
  <2> DEFINE x == CopyRow(in, 0, out, t, heads)
  <2>1. t \in Nat
    OBVIOUS
  <2>2. /\ x \in Seq(Op)
        /\ Elements(x, io, r) = IF io = "read" /\ r = in THEN Row(t, heads)
          ELSE IF io = "write" /\ r = out THEN Row(t, heads)
          ELSE <<>>
    BY <1>1, <2>1, CopyIo
  <2>3. QED
    BY <2>2
<1> HIDE DEF b
<1>3. \A t \in 0 .. rows : Unrolled(b, t) \in Seq(Op)
  BY <1>1, <1>2, UnrolledType
<1>4. Rope(in, out, heads, rows) = Unrolled(b, rows)
  BY DEF Rope, For, b
<1>5. CASE io = "read" /\ r = in
  <2> DEFINE d == [t \in 0 .. rows - 1 |-> Row(t, heads)]
  <2>1. \A t \in 0 .. rows - 1 : d[t] = Elements(b[t], io, r)
    BY <1>2, <1>5
  <2> HIDE DEF d, e
  <2>2. Elements(Unrolled(b, rows), io, r) = Unrolled(d, rows)
    <3>1. Shows(d, b, rows, io, r)
      BY <1>2, <2>1 DEF Shows
    <3>2. QED
      BY <1>1, <3>1, ElementsUnrolled
  <2>3. Unrolled(d, rows) = RowMajor(rows, heads)
    BY DEF d, For, RowMajor
  <2>4. QED
    BY <1>1, <1>3, <1>4, <1>5, <2>2, <2>3
<1>6. CASE (io = "write" /\ r = out) /\ ~(io = "read" /\ r = in)
  <2> DEFINE d == [t \in 0 .. rows - 1 |-> Row(t, heads)]
  <2>1. \A t \in 0 .. rows - 1 : d[t] = Elements(b[t], io, r)
    BY <1>2, <1>6
  <2> HIDE DEF d, e
  <2>2. Elements(Unrolled(b, rows), io, r) = Unrolled(d, rows)
    <3>1. Shows(d, b, rows, io, r)
      BY <1>2, <2>1 DEF Shows
    <3>2. QED
      BY <1>1, <3>1, ElementsUnrolled
  <2>3. Unrolled(d, rows) = RowMajor(rows, heads)
    BY DEF d, For, RowMajor
  <2>4. QED
    BY <1>1, <1>3, <1>4, <1>6, <2>2, <2>3
<1>7. CASE ~(io = "read" /\ r = in) /\ ~(io = "write" /\ r = out)
  <2>1. \A t \in 0 .. rows - 1 : e[t] = <<>>
    BY <1>7
  <2> HIDE DEF e
  <2>2. Elements(Unrolled(b, rows), io, r) = Unrolled(e, rows)
    <3>1. Shows(e, b, rows, io, r)
      BY <1>2 DEF Shows
    <3>2. QED
      BY <1>1, <3>1, ElementsUnrolled
  <2>3. Unrolled(e, rows) = <<>>
    BY <1>1, <2>1, UnrolledSilent
  <2>4. QED
    BY <1>1, <1>3, <1>4, <1>7, <2>2, <2>3
<1>8. QED
  BY <1>5, <1>6, <1>7

LEMMA OScatterIo ==
  ASSUME NEW rows \in Nat, NEW io, NEW r
  PROVE  /\ OScatter(rows) \in Seq(Op)
         /\ Elements(OScatter(rows), io, r) =
              IF io = "read" /\ r = "attn_o" THEN RowMajor(rows, HQ)
              ELSE IF io = "write" /\ r = "o_flat" THEN RowMajor(rows, HQ)
              ELSE <<>>
<1> DEFINE b == [t \in 0 .. rows - 1 |-> CopyRow("attn_o", 0, "o_flat", t, HQ)]
           e == [t \in 0 .. rows - 1 |->
                  IF io = "read" /\ r = "attn_o" THEN Row(t, HQ)
                  ELSE IF io = "write" /\ r = "o_flat" THEN Row(t, HQ)
                  ELSE <<>>]
<1>1. rows \in Nat
  OBVIOUS
<1>2. ASSUME NEW t \in 0 .. rows - 1
      PROVE  b[t] \in Seq(Op) /\ e[t] = Elements(b[t], io, r)
  <2> DEFINE x == CopyRow("attn_o", 0, "o_flat", t, HQ)
  <2>1. t \in Nat
    OBVIOUS
  <2>2. /\ x \in Seq(Op)
        /\ Elements(x, io, r) = IF io = "read" /\ r = "attn_o" THEN Row(t, HQ)
          ELSE IF io = "write" /\ r = "o_flat" THEN Row(t, HQ)
          ELSE <<>>
    BY <1>1, <2>1, Sizes, NamedStreams, CopyIo
  <2>3. QED
    BY <2>2
<1> HIDE DEF b
<1>3. \A t \in 0 .. rows : Unrolled(b, t) \in Seq(Op)
  BY <1>1, <1>2, UnrolledType
<1>4. OScatter(rows) = Unrolled(b, rows)
  BY DEF OScatter, For, b
<1>5. CASE io = "read" /\ r = "attn_o"
  <2> DEFINE d == [t \in 0 .. rows - 1 |-> Row(t, HQ)]
  <2>1. \A t \in 0 .. rows - 1 : d[t] = Elements(b[t], io, r)
    BY <1>2, <1>5
  <2> HIDE DEF d, e
  <2>2. Elements(Unrolled(b, rows), io, r) = Unrolled(d, rows)
    <3>1. Shows(d, b, rows, io, r)
      BY <1>2, <2>1 DEF Shows
    <3>2. QED
      BY <1>1, <3>1, ElementsUnrolled
  <2>3. Unrolled(d, rows) = RowMajor(rows, HQ)
    BY DEF d, For, RowMajor
  <2>4. QED
    BY <1>1, <1>3, <1>4, <1>5, <2>2, <2>3
<1>6. CASE (io = "write" /\ r = "o_flat") /\ ~(io = "read" /\ r = "attn_o")
  <2> DEFINE d == [t \in 0 .. rows - 1 |-> Row(t, HQ)]
  <2>1. \A t \in 0 .. rows - 1 : d[t] = Elements(b[t], io, r)
    BY <1>2, <1>6
  <2> HIDE DEF d, e
  <2>2. Elements(Unrolled(b, rows), io, r) = Unrolled(d, rows)
    <3>1. Shows(d, b, rows, io, r)
      BY <1>2, <2>1 DEF Shows
    <3>2. QED
      BY <1>1, <3>1, ElementsUnrolled
  <2>3. Unrolled(d, rows) = RowMajor(rows, HQ)
    BY DEF d, For, RowMajor
  <2>4. QED
    BY <1>1, <1>3, <1>4, <1>6, <2>2, <2>3
<1>7. CASE ~(io = "read" /\ r = "attn_o") /\ ~(io = "write" /\ r = "o_flat")
  <2>1. \A t \in 0 .. rows - 1 : e[t] = <<>>
    BY <1>7
  <2> HIDE DEF e
  <2>2. Elements(Unrolled(b, rows), io, r) = Unrolled(e, rows)
    <3>1. Shows(e, b, rows, io, r)
      BY <1>2 DEF Shows
    <3>2. QED
      BY <1>1, <3>1, ElementsUnrolled
  <2>3. Unrolled(e, rows) = <<>>
    BY <1>1, <2>1, UnrolledSilent
  <2>4. QED
    BY <1>1, <1>3, <1>4, <1>7, <2>2, <2>3
<1>8. QED
  BY <1>5, <1>6, <1>7

LEMMA SiluGateIo ==
  ASSUME NEW rows \in Nat, NEW io, NEW r
  PROVE  /\ SiluGate(rows) \in Seq(Op)
         /\ Elements(SiluGate(rows), io, r) =
              IF io = "read" /\ r = "gateup_out" THEN RowMajor(rows, 2 * Ffn)
              ELSE IF io = "write" /\ r = "ffn_act" THEN RowMajor(rows, Ffn)
              ELSE IF io = "write" /\ r = "ffn_sc" THEN Scales(rows)
              ELSE <<>>
<1> DEFINE b == [t \in 0 .. rows - 1 |-> ReadRow("gateup_out", t, 2 * Ffn) \o Put("ffn_sc", <<t, 0>>) \o WriteRow("ffn_act", t, Ffn)]
           e == [t \in 0 .. rows - 1 |->
                  IF io = "read" /\ r = "gateup_out" THEN Row(t, 2 * Ffn)
                  ELSE IF io = "write" /\ r = "ffn_act" THEN Row(t, Ffn)
                  ELSE IF io = "write" /\ r = "ffn_sc" THEN <<<<t, 0>>>>
                  ELSE <<>>]
<1>1. rows \in Nat
  OBVIOUS
<1>2. ASSUME NEW t \in 0 .. rows - 1
      PROVE  b[t] \in Seq(Op) /\ e[t] = Elements(b[t], io, r)
  <2> DEFINE x == ReadRow("gateup_out", t, 2 * Ffn)
             y == Put("ffn_sc", <<t, 0>>)
             z == WriteRow("ffn_act", t, Ffn)
  <2>1. t \in Nat /\ <<t, 0>> \in Place
    BY DEF Place
  <2>2. /\ x \in Seq(Op)
        /\ Elements(x, io, r) = IF io = "read" /\ r = "gateup_out" THEN Row(t, 2 * Ffn) ELSE <<>>
    BY <1>1, <2>1, Sizes, NamedStreams, ReadRowIo
  <2>3. /\ y \in Seq(Op)
        /\ Elements(y, io, r) = IF io = "write" /\ r = "ffn_sc" THEN <<<<t, 0>>>> ELSE <<>>
    BY <1>1, <2>1, NamedStreams, PutIo
  <2>4. /\ z \in Seq(Op)
        /\ Elements(z, io, r) = IF io = "write" /\ r = "ffn_act" THEN Row(t, Ffn) ELSE <<>>
    BY <1>1, <2>1, Sizes, NamedStreams, WriteRowIo
  <2> HIDE DEF x, y, z
  <2>5. /\ x \o y \in Seq(Op)
        /\ Elements(x, io, r) = <<>> => Elements(x \o y, io, r) = Elements(y, io, r)
        /\ Elements(y, io, r) = <<>> => Elements(x \o y, io, r) = Elements(x, io, r)
    BY <2>2, <2>3, JoinIo
  <2> DEFINE w == x \o y
  <2> HIDE DEF w
  <2>6. /\ w \o z \in Seq(Op)
        /\ Elements(w, io, r) = <<>> => Elements(w \o z, io, r) = Elements(z, io, r)
        /\ Elements(z, io, r) = <<>> => Elements(w \o z, io, r) = Elements(w, io, r)
    <3>1. w \in Seq(Op)
      BY <2>5 DEF w
    <3>2. QED
      BY <3>1, <2>4, JoinIo
  <2>7. b[t] = x \o y \o z
    BY DEF x, y, z
  <2>8. QED
    BY <2>2, <2>3, <2>4, <2>5, <2>6, <2>7 DEF w
<1> HIDE DEF b
<1>3. \A t \in 0 .. rows : Unrolled(b, t) \in Seq(Op)
  BY <1>1, <1>2, UnrolledType
<1>4. SiluGate(rows) = Unrolled(b, rows)
  BY DEF SiluGate, For, b
<1>5. CASE io = "read" /\ r = "gateup_out"
  <2> DEFINE d == [t \in 0 .. rows - 1 |-> Row(t, 2 * Ffn)]
  <2>1. \A t \in 0 .. rows - 1 : d[t] = Elements(b[t], io, r)
    BY <1>2, <1>5
  <2> HIDE DEF d, e
  <2>2. Elements(Unrolled(b, rows), io, r) = Unrolled(d, rows)
    <3>1. Shows(d, b, rows, io, r)
      BY <1>2, <2>1 DEF Shows
    <3>2. QED
      BY <1>1, <3>1, ElementsUnrolled
  <2>3. Unrolled(d, rows) = RowMajor(rows, 2 * Ffn)
    BY DEF d, For, RowMajor, Scales
  <2>4. QED
    BY <1>1, <1>3, <1>4, <1>5, <2>2, <2>3
<1>6. CASE (io = "write" /\ r = "ffn_act") /\ ~(io = "read" /\ r = "gateup_out")
  <2> DEFINE d == [t \in 0 .. rows - 1 |-> Row(t, Ffn)]
  <2>1. \A t \in 0 .. rows - 1 : d[t] = Elements(b[t], io, r)
    BY <1>2, <1>6
  <2> HIDE DEF d, e
  <2>2. Elements(Unrolled(b, rows), io, r) = Unrolled(d, rows)
    <3>1. Shows(d, b, rows, io, r)
      BY <1>2, <2>1 DEF Shows
    <3>2. QED
      BY <1>1, <3>1, ElementsUnrolled
  <2>3. Unrolled(d, rows) = RowMajor(rows, Ffn)
    BY DEF d, For, RowMajor, Scales
  <2>4. QED
    BY <1>1, <1>3, <1>4, <1>6, <2>2, <2>3
<1>7. CASE (io = "write" /\ r = "ffn_sc") /\ ~(io = "read" /\ r = "gateup_out") /\ ~(io = "write" /\ r = "ffn_act")
  <2> DEFINE d == [t \in 0 .. rows - 1 |-> <<<<t, 0>>>>]
  <2>1. \A t \in 0 .. rows - 1 : d[t] = Elements(b[t], io, r)
    BY <1>2, <1>7
  <2> HIDE DEF d, e
  <2>2. Elements(Unrolled(b, rows), io, r) = Unrolled(d, rows)
    <3>1. Shows(d, b, rows, io, r)
      BY <1>2, <2>1 DEF Shows
    <3>2. QED
      BY <1>1, <3>1, ElementsUnrolled
  <2>3. Unrolled(d, rows) = Scales(rows)
    BY DEF d, For, RowMajor, Scales
  <2>4. QED
    BY <1>1, <1>3, <1>4, <1>7, <2>2, <2>3
<1>8. CASE ~(io = "read" /\ r = "gateup_out") /\ ~(io = "write" /\ r = "ffn_act") /\ ~(io = "write" /\ r = "ffn_sc")
  <2>1. \A t \in 0 .. rows - 1 : e[t] = <<>>
    BY <1>8
  <2> HIDE DEF e
  <2>2. Elements(Unrolled(b, rows), io, r) = Unrolled(e, rows)
    <3>1. Shows(e, b, rows, io, r)
      BY <1>2 DEF Shows
    <3>2. QED
      BY <1>1, <3>1, ElementsUnrolled
  <2>3. Unrolled(e, rows) = <<>>
    BY <1>1, <2>1, UnrolledSilent
  <2>4. QED
    BY <1>1, <1>3, <1>4, <1>8, <2>2, <2>3
<1>9. QED
  BY <1>5, <1>6, <1>7, <1>8

LEMMA AttentionIo ==
  ASSUME NEW rows \in Nat \ {0}, NEW io, NEW r
  PROVE  /\ Attention(rows) \in Seq(Op)
         /\ Elements(Attention(rows), io, r) =
              IF io = "read" /\ r = "k_rot" THEN HeadMajor(rows)
              ELSE IF io = "read" /\ r = "v_pass" THEN HeadMajor(rows)
              ELSE IF io = "read" /\ r = "q_rot" THEN QueryOrder(rows)
              ELSE IF io = "write" /\ r = "attn_o" THEN QueryOrder(rows)
              ELSE <<>>
<1> DEFINE b == [h \in 0 .. HKv - 1 |-> ReadKv(rows, h) \o AttendHead(rows, h)]
           e == [h \in 0 .. HKv - 1 |->
                  IF io = "read" /\ r = "k_rot" THEN HeadOf(rows, h)
                  ELSE IF io = "read" /\ r = "v_pass" THEN HeadOf(rows, h)
                  ELSE IF io = "read" /\ r = "q_rot" THEN HeadQueries(rows, h)
                  ELSE IF io = "write" /\ r = "attn_o" THEN HeadQueries(rows, h)
                  ELSE <<>>]
<1>1. HKv \in Nat
  BY Sizes
<1>2. ASSUME NEW h \in 0 .. HKv - 1
      PROVE  b[h] \in Seq(Op) /\ e[h] = Elements(b[h], io, r)
  <2> DEFINE x == ReadKv(rows, h)
             y == AttendHead(rows, h)
  <2>1. h \in Nat
    OBVIOUS
  <2>2. /\ x \in Seq(Op)
        /\ Elements(x, io, r) = IF io = "read" /\ r = "k_rot" THEN HeadOf(rows, h)
          ELSE IF io = "read" /\ r = "v_pass" THEN HeadOf(rows, h)
          ELSE <<>>
    BY <1>1, <2>1, ReadKvIo
  <2>3. /\ y \in Seq(Op)
        /\ Elements(y, io, r) = IF io = "read" /\ r = "q_rot" THEN HeadQueries(rows, h)
          ELSE IF io = "write" /\ r = "attn_o" THEN HeadQueries(rows, h)
          ELSE <<>>
    BY <1>1, <2>1, AttendHeadIo
  <2> HIDE DEF x, y
  <2>4. /\ x \o y \in Seq(Op)
        /\ Elements(x, io, r) = <<>> => Elements(x \o y, io, r) = Elements(y, io, r)
        /\ Elements(y, io, r) = <<>> => Elements(x \o y, io, r) = Elements(x, io, r)
    BY <2>2, <2>3, JoinIo
  <2>5. b[h] = x \o y
    BY DEF x, y
  <2>6. QED
    BY <2>2, <2>3, <2>4, <2>5
<1> HIDE DEF b
<1>3. \A h \in 0 .. HKv : Unrolled(b, h) \in Seq(Op)
  BY <1>1, <1>2, UnrolledType
<1>4. Attention(rows) = Unrolled(b, HKv)
  BY DEF Attention, ReadKv, AttendHead, ReadQueries, WriteQueries, For, b
<1>5. CASE io = "read" /\ r = "k_rot"
  <2> DEFINE d == [h \in 0 .. HKv - 1 |-> HeadOf(rows, h)]
  <2>1. \A h \in 0 .. HKv - 1 : d[h] = Elements(b[h], io, r)
    BY <1>2, <1>5
  <2> HIDE DEF d, e
  <2>2. Elements(Unrolled(b, HKv), io, r) = Unrolled(d, HKv)
    <3>1. Shows(d, b, HKv, io, r)
      BY <1>2, <2>1 DEF Shows
    <3>2. QED
      BY <1>1, <3>1, ElementsUnrolled
  <2>3. Unrolled(d, HKv) = HeadMajor(rows)
    BY DEF d, For, HeadMajor, QueryOrder
  <2>4. QED
    BY <1>1, <1>3, <1>4, <1>5, <2>2, <2>3
<1>6. CASE (io = "read" /\ r = "v_pass") /\ ~(io = "read" /\ r = "k_rot")
  <2> DEFINE d == [h \in 0 .. HKv - 1 |-> HeadOf(rows, h)]
  <2>1. \A h \in 0 .. HKv - 1 : d[h] = Elements(b[h], io, r)
    BY <1>2, <1>6
  <2> HIDE DEF d, e
  <2>2. Elements(Unrolled(b, HKv), io, r) = Unrolled(d, HKv)
    <3>1. Shows(d, b, HKv, io, r)
      BY <1>2, <2>1 DEF Shows
    <3>2. QED
      BY <1>1, <3>1, ElementsUnrolled
  <2>3. Unrolled(d, HKv) = HeadMajor(rows)
    BY DEF d, For, HeadMajor, QueryOrder
  <2>4. QED
    BY <1>1, <1>3, <1>4, <1>6, <2>2, <2>3
<1>7. CASE (io = "read" /\ r = "q_rot") /\ ~(io = "read" /\ r = "k_rot") /\ ~(io = "read" /\ r = "v_pass")
  <2> DEFINE d == [h \in 0 .. HKv - 1 |-> HeadQueries(rows, h)]
  <2>1. \A h \in 0 .. HKv - 1 : d[h] = Elements(b[h], io, r)
    BY <1>2, <1>7
  <2> HIDE DEF d, e
  <2>2. Elements(Unrolled(b, HKv), io, r) = Unrolled(d, HKv)
    <3>1. Shows(d, b, HKv, io, r)
      BY <1>2, <2>1 DEF Shows
    <3>2. QED
      BY <1>1, <3>1, ElementsUnrolled
  <2>3. Unrolled(d, HKv) = QueryOrder(rows)
    BY DEF d, For, HeadMajor, QueryOrder
  <2>4. QED
    BY <1>1, <1>3, <1>4, <1>7, <2>2, <2>3
<1>8. CASE (io = "write" /\ r = "attn_o") /\ ~(io = "read" /\ r = "k_rot") /\ ~(io = "read" /\ r = "v_pass") /\ ~(io = "read" /\ r = "q_rot")
  <2> DEFINE d == [h \in 0 .. HKv - 1 |-> HeadQueries(rows, h)]
  <2>1. \A h \in 0 .. HKv - 1 : d[h] = Elements(b[h], io, r)
    BY <1>2, <1>8
  <2> HIDE DEF d, e
  <2>2. Elements(Unrolled(b, HKv), io, r) = Unrolled(d, HKv)
    <3>1. Shows(d, b, HKv, io, r)
      BY <1>2, <2>1 DEF Shows
    <3>2. QED
      BY <1>1, <3>1, ElementsUnrolled
  <2>3. Unrolled(d, HKv) = QueryOrder(rows)
    BY DEF d, For, HeadMajor, QueryOrder
  <2>4. QED
    BY <1>1, <1>3, <1>4, <1>8, <2>2, <2>3
<1>9. CASE ~(io = "read" /\ r = "k_rot") /\ ~(io = "read" /\ r = "v_pass") /\ ~(io = "read" /\ r = "q_rot") /\ ~(io = "write" /\ r = "attn_o")
  <2>1. \A h \in 0 .. HKv - 1 : e[h] = <<>>
    BY <1>9
  <2> HIDE DEF e
  <2>2. Elements(Unrolled(b, HKv), io, r) = Unrolled(e, HKv)
    <3>1. Shows(e, b, HKv, io, r)
      BY <1>2 DEF Shows
    <3>2. QED
      BY <1>1, <3>1, ElementsUnrolled
  <2>3. Unrolled(e, HKv) = <<>>
    BY <1>1, <2>1, UnrolledSilent
  <2>4. QED
    BY <1>1, <1>3, <1>4, <1>9, <2>2, <2>3
<1>10. QED
  BY <1>5, <1>6, <1>7, <1>8, <1>9

LEMMA GemmIo ==
  ASSUME NEW act \in Streams, NEW sc \in Streams, act # sc, NEW out \in Streams,
         NEW m \in Nat \ {0}, NEW k \in Nat, NEW n \in Nat, NEW io, NEW r
  PROVE  /\ Gemm(act, sc, out, m, k, n) \in Seq(Op)
         /\ Elements(Gemm(act, sc, out, m, k, n), io, r) =
              IF io = "read" /\ r = act THEN RowMajor(m, k)
              ELSE IF io = "read" /\ r = sc THEN Scales(m)
              ELSE IF io = "write" /\ r = out THEN ProductOrder(m, n)
              ELSE <<>>
<1> DEFINE x == ReadRows(act, m, k)
           y == ReadScales(sc, m)
           z == WriteProduct(out, m, n)
<1>1. /\ x \in Seq(Op)
      /\ Elements(x, io, r) = IF io = "read" /\ r = act THEN RowMajor(m, k) ELSE <<>>
  BY ReadRowsIo
<1>2. /\ y \in Seq(Op)
      /\ Elements(y, io, r) = IF io = "read" /\ r = sc THEN Scales(m) ELSE <<>>
  BY ReadScalesIo
<1>3. /\ z \in Seq(Op)
      /\ Elements(z, io, r) = IF io = "write" /\ r = out THEN ProductOrder(m, n) ELSE <<>>
  BY WriteProductIo
<1> HIDE DEF x, y, z
<1>4. /\ x \o y \in Seq(Op)
      /\ Elements(x, io, r) = <<>> => Elements(x \o y, io, r) = Elements(y, io, r)
      /\ Elements(y, io, r) = <<>> => Elements(x \o y, io, r) = Elements(x, io, r)
  BY <1>1, <1>2, JoinIo
<1> DEFINE w == x \o y
<1> HIDE DEF w
<1>5. /\ w \o z \in Seq(Op)
      /\ Elements(w, io, r) = <<>> => Elements(w \o z, io, r) = Elements(z, io, r)
      /\ Elements(z, io, r) = <<>> => Elements(w \o z, io, r) = Elements(w, io, r)
  <2>1. w \in Seq(Op)
    BY <1>4 DEF w
  <2>2. QED
    BY <2>1, <1>3, JoinIo
<1>6. Gemm(act, sc, out, m, k, n) = x \o y \o z
  BY DEF x, y, z, Gemm
<1>7. QED
  BY <1>1, <1>2, <1>3, <1>4, <1>5, <1>6 DEF w

(* The one place of a buffer handed over whole.                               *)
LEMMA Origin == <<0, 0>> \in Place
BY DEF Place

LEMMA ResidualAddIo ==
  ASSUME NEW in \in Streams, NEW out \in Streams, NEW rows \in Nat, NEW io, NEW r
  PROVE  /\ ResidualAdd(in, out, rows) \in Seq(Op)
         /\ Elements(ResidualAdd(in, out, rows), io, r) =
              IF io = "read" /\ r = in THEN RowMajor(rows, HQ)
              ELSE IF io = "write" /\ r = out THEN <<<<0, 0>>>>
              ELSE <<>>
<1> DEFINE x == ReadRows(in, rows, HQ)
           y == Put(out, <<0, 0>>)
<1>1. /\ x \in Seq(Op)
      /\ Elements(x, io, r) = IF io = "read" /\ r = in THEN RowMajor(rows, HQ) ELSE <<>>
  BY Sizes, ReadRowsIo
<1>2. /\ y \in Seq(Op)
      /\ Elements(y, io, r) = IF io = "write" /\ r = out THEN <<<<0, 0>>>> ELSE <<>>
  BY Origin, PutIo
<1> HIDE DEF x, y
<1>3. /\ x \o y \in Seq(Op)
      /\ Elements(x, io, r) = <<>> => Elements(x \o y, io, r) = Elements(y, io, r)
      /\ Elements(y, io, r) = <<>> => Elements(x \o y, io, r) = Elements(x, io, r)
  BY <1>1, <1>2, JoinIo
<1>4. ResidualAdd(in, out, rows) = x \o y
  BY DEF x, y, ResidualAdd
<1>5. QED
  BY <1>1, <1>2, <1>3, <1>4

LEMMA IfLmHeadIo ==
  ASSUME NEW p \in Seq(Op), NEW io, NEW r
  PROVE  /\ IfLmHead(p) \in Seq(Op)
         /\ Elements(IfLmHead(p), io, r) = IF RunLmHead THEN Elements(p, io, r) ELSE <<>>
<1>1. CASE RunLmHead
  BY <1>1 DEF IfLmHead
<1>2. CASE ~RunLmHead
  BY <1>2, EmptySeq, ElementsNone DEF IfLmHead
<1>3. QED
  BY <1>1, <1>2

LEMMA LmRowIo ==
  ASSUME NEW io, NEW r
  PROVE  /\ IfLmHead(WriteRow("lm_raw", 0, HQ)) \in Seq(Op)
         /\ Elements(IfLmHead(WriteRow("lm_raw", 0, HQ)), io, r) =
              IF io = "write" /\ r = "lm_raw" THEN (IF RunLmHead THEN Row(0, HQ) ELSE <<>>) ELSE <<>>
<1> DEFINE p == WriteRow("lm_raw", 0, HQ)
<1>1. p \in Seq(Op) /\ Elements(p, io, r) = IF io = "write" /\ r = "lm_raw" THEN Row(0, HQ) ELSE <<>>
  <2>1. 0 \in Nat /\ HQ \in Nat /\ "lm_raw" \in Streams
    BY Sizes, NamedStreams
  <2>2. QED
    BY <2>1, WriteRowIo
<1> HIDE DEF p
<1>2. IfLmHead(p) \in Seq(Op) /\ Elements(IfLmHead(p), io, r) = IF RunLmHead THEN Elements(p, io, r) ELSE <<>>
  BY <1>1, IfLmHeadIo
<1>3. QED
  BY <1>1, <1>2 DEF p

LEMMA StoreActIo ==
  ASSUME NEW io, NEW r
  PROVE  /\ StoreAct \in Seq(Op)
         /\ Elements(StoreAct, io, r) =
              IF io = "read" /\ r = "res_buf_1_out" THEN <<<<0, 0>>>>
              ELSE IF io = "write" /\ r = "lm_raw" THEN (IF RunLmHead THEN Row(0, HQ) ELSE <<>>)
              ELSE <<>>
<1> DEFINE x == Get("res_buf_1_out", <<0, 0>>)
           y == IfLmHead(WriteRow("lm_raw", 0, HQ))
<1>1. /\ x \in Seq(Op)
      /\ Elements(x, io, r) = IF io = "read" /\ r = "res_buf_1_out" THEN <<<<0, 0>>>> ELSE <<>>
  BY Origin, NamedStreams, GetIo
<1>2. /\ y \in Seq(Op)
      /\ Elements(y, io, r) = IF io = "write" /\ r = "lm_raw" THEN (IF RunLmHead THEN Row(0, HQ) ELSE <<>>) ELSE <<>>
  BY LmRowIo
<1> HIDE DEF x, y
<1>3. /\ x \o y \in Seq(Op)
      /\ Elements(x, io, r) = <<>> => Elements(x \o y, io, r) = Elements(y, io, r)
      /\ Elements(y, io, r) = <<>> => Elements(x \o y, io, r) = Elements(x, io, r)
  BY <1>1, <1>2, JoinIo
<1>4. StoreAct = x \o y
  BY DEF x, y, StoreAct
<1>5. QED
  BY <1>1, <1>2, <1>3, <1>4

LEMMA ResToStream2Io ==
  ASSUME NEW rows \in Nat, NEW io, NEW r
  PROVE  /\ Get("res_buf_1", <<0, 0>>) \o ResToStream("raw_act2", rows) \in Seq(Op)
         /\ Elements(Get("res_buf_1", <<0, 0>>) \o ResToStream("raw_act2", rows), io, r) =
              IF io = "read" /\ r = "res_buf_1" THEN <<<<0, 0>>>>
              ELSE IF io = "write" /\ r = "raw_act2" THEN RowMajor(rows, HQ)
              ELSE <<>>
<1> DEFINE x == Get("res_buf_1", <<0, 0>>)
           y == ResToStream("raw_act2", rows)
<1>1. /\ x \in Seq(Op)
      /\ Elements(x, io, r) = IF io = "read" /\ r = "res_buf_1" THEN <<<<0, 0>>>> ELSE <<>>
  BY Origin, NamedStreams, GetIo
<1>2. /\ y \in Seq(Op)
      /\ Elements(y, io, r) = IF io = "write" /\ r = "raw_act2" THEN RowMajor(rows, HQ) ELSE <<>>
  BY NamedStreams, ResToStreamIo
<1> HIDE DEF x, y
<1>3. /\ x \o y \in Seq(Op)
      /\ Elements(x, io, r) = <<>> => Elements(x \o y, io, r) = Elements(y, io, r)
      /\ Elements(y, io, r) = <<>> => Elements(x \o y, io, r) = Elements(x, io, r)
  BY <1>1, <1>2, JoinIo
<1>4. Get("res_buf_1", <<0, 0>>) \o ResToStream("raw_act2", rows) = x \o y
  BY DEF x, y
<1>5. QED
  BY <1>1, <1>2, <1>3, <1>4

LEMMA SplitIo ==
  ASSUME NEW rows \in Nat, NEW io, NEW r
  PROVE  /\ Split(rows) \in Seq(Op)
         /\ Elements(Split(rows), io, r) =
              IF io = "read" /\ r = "qkv_out" THEN RowMajor(rows, NQkv)
              ELSE IF io = "write" /\ r = "q_pre" THEN RowMajor(rows, HQ)
              ELSE IF io = "write" /\ r = "k_pre" THEN RowMajor(rows, HKv)
              ELSE IF io = "write" /\ r = "v_pass" THEN RowMajor(rows, HKv)
              ELSE <<>>
<1> DEFINE x(t) == CopyRow("qkv_out", 0, "q_pre", t, HQ)
           y(t) == CopyRow("qkv_out", HQ, "k_pre", t, HKv)
           z(t) == CopyRow("qkv_out", HQ + HKv, "v_pass", t, HKv)
           b == [t \in 0 .. rows - 1 |-> x(t) \o y(t) \o z(t)]
           one(t) == IF io = "read" /\ r = "qkv_out" THEN Row(t, NQkv)
                     ELSE IF io = "write" /\ r = "q_pre" THEN Row(t, HQ)
                     ELSE IF io = "write" /\ r = "k_pre" THEN Row(t, HKv)
                     ELSE IF io = "write" /\ r = "v_pass" THEN Row(t, HKv)
                     ELSE <<>>
<1>1. HQ \in Nat /\ HKv \in Nat /\ HQ + HKv \in Nat /\ NQkv = HQ + HKv + HKv
  BY Sizes DEF NQkv
<1>2. ASSUME NEW t \in 0 .. rows - 1
      PROVE  b[t] \in Seq(Op) /\ Elements(b[t], io, r) = one(t)
  <2>1. t \in Nat
    OBVIOUS
  <2>2. /\ x(t) \in Seq(Op)
        /\ Elements(x(t), io, r) = IF io = "read" /\ r = "qkv_out" THEN Row(t, HQ)
                                   ELSE IF io = "write" /\ r = "q_pre" THEN Row(t, HQ) ELSE <<>>
    BY <1>1, <2>1, NamedStreams, CopyIo
  <2>3. /\ y(t) \in Seq(Op)
        /\ Elements(y(t), io, r) = IF io = "read" /\ r = "qkv_out" THEN Slice(t, HQ, HKv)
                                   ELSE IF io = "write" /\ r = "k_pre" THEN Row(t, HKv) ELSE <<>>
    <3>1. "qkv_out" \in Streams /\ "k_pre" \in Streams /\ HQ \in Nat
      BY <1>1, NamedStreams
    <3>2. QED
      BY ONLY <1>1, <2>1, <3>1, CopyRowIo
  <2>4. /\ z(t) \in Seq(Op)
        /\ Elements(z(t), io, r) = IF io = "read" /\ r = "qkv_out" THEN Slice(t, HQ + HKv, HKv)
                                   ELSE IF io = "write" /\ r = "v_pass" THEN Row(t, HKv) ELSE <<>>
    <3>1. "qkv_out" \in Streams /\ "v_pass" \in Streams /\ HQ + HKv \in Nat
      BY <1>1, NamedStreams
    <3>2. QED
      BY ONLY <1>1, <2>1, <3>1, CopyRowIo
  <2>5. b[t] = x(t) \o y(t) \o z(t)
    OBVIOUS
  <2>6. (Row(t, HQ) \o Slice(t, HQ, HKv)) \o Slice(t, HQ + HKv, HKv) = Row(t, NQkv)
    <3>1. (Row(t, HQ) \o Slice(t, HQ, HKv)) \o Slice(t, HQ + HKv, HKv) = Row(t, HQ + HKv + HKv)
      BY ONLY <1>1, <2>1, SlicesOfRow, Zenon
    <3>2. QED
      BY ONLY <1>1, <3>1
  <2> DEFINE p == x(t)
             q == y(t)
             s == z(t)
  <2> HIDE DEF p, q, s
  <2>7. /\ p \o q \in Seq(Op) /\ Elements(p \o q, io, r) = Elements(p, io, r) \o Elements(q, io, r)
        /\ Elements(p, io, r) = <<>> => Elements(p \o q, io, r) = Elements(q, io, r)
        /\ Elements(q, io, r) = <<>> => Elements(p \o q, io, r) = Elements(p, io, r)
    BY <2>2, <2>3, JoinIo, ElementsConcat DEF p, q
  <2> DEFINE w == p \o q
  <2> HIDE DEF w
  <2>8. /\ w \o s \in Seq(Op) /\ Elements(w \o s, io, r) = Elements(w, io, r) \o Elements(s, io, r)
        /\ Elements(w, io, r) = <<>> => Elements(w \o s, io, r) = Elements(s, io, r)
        /\ Elements(s, io, r) = <<>> => Elements(w \o s, io, r) = Elements(w, io, r)
    <3>1. w \in Seq(Op) /\ s \in Seq(Op)
      BY <2>4, <2>7 DEF w, s
    <3>2. QED
      BY <3>1, JoinIo, ElementsConcat
  <2>9. b[t] = w \o s
    BY <2>5 DEF w, p, q, s
  <2>10. Elements(w \o s, io, r) = one(t)
    <3>1. CASE io = "read" /\ r = "qkv_out"
      <4>1. /\ Elements(p, io, r) = Row(t, HQ) /\ Elements(q, io, r) = Slice(t, HQ, HKv)
            /\ Elements(s, io, r) = Slice(t, HQ + HKv, HKv)
        BY <3>1, <2>2, <2>3, <2>4 DEF p, q, s
      <4>2. Elements(w \o s, io, r) = (Row(t, HQ) \o Slice(t, HQ, HKv)) \o Slice(t, HQ + HKv, HKv)
        BY <4>1, <2>7, <2>8 DEF w
      <4>3. QED
        BY <3>1, <4>2, <2>6
    <3>2. CASE ~(io = "read" /\ r = "qkv_out")
      <4>1. /\ Elements(p, io, r) = IF io = "write" /\ r = "q_pre" THEN Row(t, HQ) ELSE <<>>
            /\ Elements(q, io, r) = IF io = "write" /\ r = "k_pre" THEN Row(t, HKv) ELSE <<>>
            /\ Elements(s, io, r) = IF io = "write" /\ r = "v_pass" THEN Row(t, HKv) ELSE <<>>
        BY <3>2, <2>2, <2>3, <2>4 DEF p, q, s
      <4>2. QED
        BY <3>2, <4>1, <2>7, <2>8 DEF w
    <3>3. QED
      BY <3>1, <3>2
  <2>11. QED
    BY <2>8, <2>9, <2>10
<1>3. Split(rows) = Unrolled(b, rows)
  BY DEF Split, For
<1> HIDE DEF b
<1>4. Unrolled(b, rows) \in Seq(Op)
  <2>1. \A t \in 0 .. rows - 1 : b[t] \in Seq(Op)
    BY <1>2
  <2>2. \A t \in 0 .. rows : Unrolled(b, t) \in Seq(Op)
    BY ONLY rows \in Nat, <2>1, UnrolledType
  <2>3. QED
    BY <2>2
<1> DEFINE whole == IF io = "read" /\ r = "qkv_out" THEN RowMajor(rows, NQkv)
                    ELSE IF io = "write" /\ r = "q_pre" THEN RowMajor(rows, HQ)
                    ELSE IF io = "write" /\ r = "k_pre" THEN RowMajor(rows, HKv)
                    ELSE IF io = "write" /\ r = "v_pass" THEN RowMajor(rows, HKv)
                    ELSE <<>>
           e == [t \in 0 .. rows - 1 |-> one(t)]
<1>5. Unrolled(e, rows) = whole
  <2>1. ASSUME NEW n, \A t \in 0 .. rows - 1 : one(t) = Row(t, n) PROVE Unrolled(e, rows) = RowMajor(rows, n)
    <3>1. e = [t \in 0 .. rows - 1 |-> Row(t, n)]
      BY <2>1
    <3> HIDE DEF e
    <3>2. QED
      BY <3>1 DEF RowMajor, For
  <2>2. CASE io = "read" /\ r = "qkv_out"
    BY <2>1, <2>2
  <2>3. CASE ~(io = "read" /\ r = "qkv_out") /\ io = "write" /\ r = "q_pre"
    BY <2>1, <2>3
  <2>4. CASE ~(io = "read" /\ r = "qkv_out") /\ io = "write" /\ r = "k_pre"
    BY <2>1, <2>4
  <2>5. CASE ~(io = "read" /\ r = "qkv_out") /\ io = "write" /\ r = "v_pass"
    BY <2>1, <2>5
  <2>6. CASE ~(io = "read" /\ r = "qkv_out") /\ ~(io = "write" /\ r \in {"q_pre", "k_pre", "v_pass"})
    <3>1. \A t \in 0 .. rows - 1 : e[t] = <<>>
      BY <2>6
    <3> HIDE DEF e
    <3>2. Unrolled(e, rows) = <<>>
      BY <3>1, UnrolledSilent
    <3>3. QED
      BY <3>2, <2>6
  <2>7. QED
    BY <2>2, <2>3, <2>4, <2>5, <2>6
<1>6. Elements(Unrolled(b, rows), io, r) = Unrolled(e, rows)
  <2>1. \A t \in 0 .. rows - 1 : e[t] = Elements(b[t], io, r)
    BY <1>2
  <2> HIDE DEF e
  <2>2. Shows(e, b, rows, io, r)
    BY <1>2, <2>1 DEF Shows
  <2>3. QED
    BY <2>2, ElementsUnrolled
<1>7. QED
  BY <1>3, <1>4, <1>5, <1>6

-----------------------------------------------------------------------------
(* The ends of a stream, and what travels along it: written in one order and  *)
(* read in another.                                                           *)

Writer(s) ==
  CASE s = "raw_act" -> "res_to_stream"
    [] s \in {"norm1_q", "norm1_sc"} -> "rmsnorm"
    [] s = "qkv_out" -> "qkv_gemm"
    [] s \in {"q_pre", "k_pre", "v_pass"} -> "split"
    [] s = "q_rot" -> "rope_q"
    [] s = "k_rot" -> "rope_k"
    [] s = "attn_o" -> "attention"
    [] s = "o_flat" -> "o_scatter"
    [] s \in {"o_q", "o_sc"} -> "act_quant"
    [] s = "oproj_out" -> "o_gemm"
    [] s = "res_buf_1" -> "residual"
    [] s = "raw_act2" -> "res_to_stream2"
    [] s \in {"norm2_q", "norm2_sc"} -> "rmsnorm2"
    [] s = "gateup_out" -> "gateup_gemm"
    [] s \in {"ffn_act", "ffn_sc"} -> "silu"
    [] s = "down_out" -> "down_gemm"
    [] s = "res_buf_1_out" -> "residual2"
    [] s = "lm_raw" -> "store"
    [] s \in {"lm_q", "lm_sc"} -> "lm_norm"
    [] s = "lm_out" -> "lm_gemm"
Reader(s) ==
  CASE s = "raw_act" -> "rmsnorm"
    [] s \in {"norm1_q", "norm1_sc"} -> "qkv_gemm"
    [] s = "qkv_out" -> "split"
    [] s = "q_pre" -> "rope_q"
    [] s = "k_pre" -> "rope_k"
    [] s \in {"v_pass", "q_rot", "k_rot"} -> "attention"
    [] s = "attn_o" -> "o_scatter"
    [] s = "o_flat" -> "act_quant"
    [] s \in {"o_q", "o_sc"} -> "o_gemm"
    [] s = "oproj_out" -> "residual"
    [] s = "res_buf_1" -> "res_to_stream2"
    [] s = "raw_act2" -> "rmsnorm2"
    [] s \in {"norm2_q", "norm2_sc"} -> "gateup_gemm"
    [] s = "gateup_out" -> "silu"
    [] s \in {"ffn_act", "ffn_sc"} -> "down_gemm"
    [] s = "down_out" -> "residual2"
    [] s = "res_buf_1_out" -> "store"
    [] s = "lm_raw" -> "lm_norm"
    [] s \in {"lm_q", "lm_sc"} -> "lm_gemm"
    [] s = "lm_out" -> "lm_out"

Written(rows, s) ==
  CASE s \in {"raw_act", "norm1_q", "q_pre", "q_rot", "o_flat", "o_q", "raw_act2", "norm2_q"} -> RowMajor(rows, HQ)
    [] s \in {"norm1_sc", "o_sc", "norm2_sc", "ffn_sc"} -> Scales(rows)
    [] s = "qkv_out" -> ProductOrder(rows, NQkv)
    [] s \in {"k_pre", "v_pass", "k_rot"} -> RowMajor(rows, HKv)
    [] s = "attn_o" -> QueryOrder(rows)
    [] s \in {"oproj_out", "down_out"} -> ProductOrder(rows, HQ)
    [] s \in {"res_buf_1", "res_buf_1_out"} -> <<<<0, 0>>>>
    [] s = "gateup_out" -> ProductOrder(rows, 2 * Ffn)
    [] s = "ffn_act" -> RowMajor(rows, Ffn)
    [] s = "lm_raw" -> (IF RunLmHead THEN Row(0, HQ) ELSE <<>>)
    [] s = "lm_q" -> (IF RunLmHead THEN RowMajor(1, HQ) ELSE <<>>)
    [] s = "lm_sc" -> (IF RunLmHead THEN Scales(1) ELSE <<>>)
    [] s = "lm_out" -> (IF RunLmHead THEN ProductOrder(1, Vocab) ELSE <<>>)

Wanted(rows, s) ==
  CASE s \in {"raw_act", "norm1_q", "q_pre", "attn_o", "o_flat", "o_q", "oproj_out", "raw_act2", "norm2_q", "down_out"} -> RowMajor(rows, HQ)
    [] s \in {"norm1_sc", "o_sc", "norm2_sc", "ffn_sc"} -> Scales(rows)
    [] s = "qkv_out" -> RowMajor(rows, NQkv)
    [] s = "k_pre" -> RowMajor(rows, HKv)
    [] s \in {"v_pass", "k_rot"} -> HeadMajor(rows)
    [] s = "q_rot" -> QueryOrder(rows)
    [] s \in {"res_buf_1", "res_buf_1_out"} -> <<<<0, 0>>>>
    [] s = "gateup_out" -> RowMajor(rows, 2 * Ffn)
    [] s = "ffn_act" -> RowMajor(rows, Ffn)
    [] s \in {"lm_raw", "lm_q"} -> (IF RunLmHead THEN RowMajor(1, HQ) ELSE <<>>)
    [] s = "lm_sc" -> (IF RunLmHead THEN Scales(1) ELSE <<>>)
    [] s = "lm_out" -> (IF RunLmHead THEN Row(0, Vocab) ELSE <<>>)

Sole(p, f, rows) ==
  /\ p \in Seq(Op)
  /\ \A s \in Streams : Elements(p, "write", s) = IF Writer(s) = f THEN Written(rows, s) ELSE <<>>
  /\ \A s \in Streams : Elements(p, "read", s) = IF Reader(s) = f THEN Wanted(rows, s) ELSE <<>>

(* Writer, Reader, Written and Wanted, stream by stream.                      *)
LEMMA WriterValues ==
  /\ Writer("raw_act") = "res_to_stream"
  /\ Writer("norm1_q") = "rmsnorm"
  /\ Writer("norm1_sc") = "rmsnorm"
  /\ Writer("qkv_out") = "qkv_gemm"
  /\ Writer("q_pre") = "split"
  /\ Writer("k_pre") = "split"
  /\ Writer("v_pass") = "split"
  /\ Writer("q_rot") = "rope_q"
  /\ Writer("k_rot") = "rope_k"
  /\ Writer("attn_o") = "attention"
  /\ Writer("o_flat") = "o_scatter"
  /\ Writer("o_q") = "act_quant"
  /\ Writer("o_sc") = "act_quant"
  /\ Writer("oproj_out") = "o_gemm"
  /\ Writer("res_buf_1") = "residual"
  /\ Writer("raw_act2") = "res_to_stream2"
  /\ Writer("norm2_q") = "rmsnorm2"
  /\ Writer("norm2_sc") = "rmsnorm2"
  /\ Writer("gateup_out") = "gateup_gemm"
  /\ Writer("ffn_act") = "silu"
  /\ Writer("ffn_sc") = "silu"
  /\ Writer("down_out") = "down_gemm"
  /\ Writer("res_buf_1_out") = "residual2"
  /\ Writer("lm_raw") = "store"
  /\ Writer("lm_q") = "lm_norm"
  /\ Writer("lm_sc") = "lm_norm"
  /\ Writer("lm_out") = "lm_gemm"
BY DEF Writer

LEMMA ReaderValues ==
  /\ Reader("raw_act") = "rmsnorm"
  /\ Reader("norm1_q") = "qkv_gemm"
  /\ Reader("norm1_sc") = "qkv_gemm"
  /\ Reader("qkv_out") = "split"
  /\ Reader("q_pre") = "rope_q"
  /\ Reader("k_pre") = "rope_k"
  /\ Reader("v_pass") = "attention"
  /\ Reader("q_rot") = "attention"
  /\ Reader("k_rot") = "attention"
  /\ Reader("attn_o") = "o_scatter"
  /\ Reader("o_flat") = "act_quant"
  /\ Reader("o_q") = "o_gemm"
  /\ Reader("o_sc") = "o_gemm"
  /\ Reader("oproj_out") = "residual"
  /\ Reader("res_buf_1") = "res_to_stream2"
  /\ Reader("raw_act2") = "rmsnorm2"
  /\ Reader("norm2_q") = "gateup_gemm"
  /\ Reader("norm2_sc") = "gateup_gemm"
  /\ Reader("gateup_out") = "silu"
  /\ Reader("ffn_act") = "down_gemm"
  /\ Reader("ffn_sc") = "down_gemm"
  /\ Reader("down_out") = "residual2"
  /\ Reader("res_buf_1_out") = "store"
  /\ Reader("lm_raw") = "lm_norm"
  /\ Reader("lm_q") = "lm_gemm"
  /\ Reader("lm_sc") = "lm_gemm"
  /\ Reader("lm_out") = "lm_out"
BY DEF Reader

LEMMA WrittenValues ==
  ASSUME NEW rows
  PROVE   /\ Written(rows, "raw_act") = RowMajor(rows, HQ)
         /\ Written(rows, "norm1_q") = RowMajor(rows, HQ)
         /\ Written(rows, "norm1_sc") = Scales(rows)
         /\ Written(rows, "qkv_out") = ProductOrder(rows, NQkv)
         /\ Written(rows, "q_pre") = RowMajor(rows, HQ)
         /\ Written(rows, "k_pre") = RowMajor(rows, HKv)
         /\ Written(rows, "v_pass") = RowMajor(rows, HKv)
         /\ Written(rows, "q_rot") = RowMajor(rows, HQ)
         /\ Written(rows, "k_rot") = RowMajor(rows, HKv)
         /\ Written(rows, "attn_o") = QueryOrder(rows)
         /\ Written(rows, "o_flat") = RowMajor(rows, HQ)
         /\ Written(rows, "o_q") = RowMajor(rows, HQ)
         /\ Written(rows, "o_sc") = Scales(rows)
         /\ Written(rows, "oproj_out") = ProductOrder(rows, HQ)
         /\ Written(rows, "res_buf_1") = <<<<0, 0>>>>
         /\ Written(rows, "raw_act2") = RowMajor(rows, HQ)
         /\ Written(rows, "norm2_q") = RowMajor(rows, HQ)
         /\ Written(rows, "norm2_sc") = Scales(rows)
         /\ Written(rows, "gateup_out") = ProductOrder(rows, 2 * Ffn)
         /\ Written(rows, "ffn_act") = RowMajor(rows, Ffn)
         /\ Written(rows, "ffn_sc") = Scales(rows)
         /\ Written(rows, "down_out") = ProductOrder(rows, HQ)
         /\ Written(rows, "res_buf_1_out") = <<<<0, 0>>>>
         /\ Written(rows, "lm_raw") = (IF RunLmHead THEN Row(0, HQ) ELSE <<>>)
         /\ Written(rows, "lm_q") = (IF RunLmHead THEN RowMajor(1, HQ) ELSE <<>>)
         /\ Written(rows, "lm_sc") = (IF RunLmHead THEN Scales(1) ELSE <<>>)
         /\ Written(rows, "lm_out") = (IF RunLmHead THEN ProductOrder(1, Vocab) ELSE <<>>)
BY DEF Written

LEMMA WantedValues ==
  ASSUME NEW rows
  PROVE   /\ Wanted(rows, "raw_act") = RowMajor(rows, HQ)
         /\ Wanted(rows, "norm1_q") = RowMajor(rows, HQ)
         /\ Wanted(rows, "norm1_sc") = Scales(rows)
         /\ Wanted(rows, "qkv_out") = RowMajor(rows, NQkv)
         /\ Wanted(rows, "q_pre") = RowMajor(rows, HQ)
         /\ Wanted(rows, "k_pre") = RowMajor(rows, HKv)
         /\ Wanted(rows, "v_pass") = HeadMajor(rows)
         /\ Wanted(rows, "q_rot") = QueryOrder(rows)
         /\ Wanted(rows, "k_rot") = HeadMajor(rows)
         /\ Wanted(rows, "attn_o") = RowMajor(rows, HQ)
         /\ Wanted(rows, "o_flat") = RowMajor(rows, HQ)
         /\ Wanted(rows, "o_q") = RowMajor(rows, HQ)
         /\ Wanted(rows, "o_sc") = Scales(rows)
         /\ Wanted(rows, "oproj_out") = RowMajor(rows, HQ)
         /\ Wanted(rows, "res_buf_1") = <<<<0, 0>>>>
         /\ Wanted(rows, "raw_act2") = RowMajor(rows, HQ)
         /\ Wanted(rows, "norm2_q") = RowMajor(rows, HQ)
         /\ Wanted(rows, "norm2_sc") = Scales(rows)
         /\ Wanted(rows, "gateup_out") = RowMajor(rows, 2 * Ffn)
         /\ Wanted(rows, "ffn_act") = RowMajor(rows, Ffn)
         /\ Wanted(rows, "ffn_sc") = Scales(rows)
         /\ Wanted(rows, "down_out") = RowMajor(rows, HQ)
         /\ Wanted(rows, "res_buf_1_out") = <<<<0, 0>>>>
         /\ Wanted(rows, "lm_raw") = (IF RunLmHead THEN RowMajor(1, HQ) ELSE <<>>)
         /\ Wanted(rows, "lm_q") = (IF RunLmHead THEN RowMajor(1, HQ) ELSE <<>>)
         /\ Wanted(rows, "lm_sc") = (IF RunLmHead THEN Scales(1) ELSE <<>>)
         /\ Wanted(rows, "lm_out") = (IF RunLmHead THEN Row(0, Vocab) ELSE <<>>)
BY DEF Wanted

(* Each function reads and writes what Reader, Writer, Wanted and Written     *)
(* say.                                                                       *)
LEMMA ResToStreamSole ==
  ASSUME NEW rows \in Nat \ {0}
  PROVE  Sole(ProgramOf(rows)["res_to_stream"], "res_to_stream", rows)
<1> DEFINE p == ResToStream("raw_act", rows)
<1>1. ProgramOf(rows)["res_to_stream"] = p
  BY DEF ProgramOf, Functions
<1>0. /\ HQ \in Nat /\ NQkv \in Nat /\ HKv \in Nat /\ Ffn \in Nat /\ 2 * Ffn \in Nat /\ Vocab \in Nat
      /\ 0 \in Nat /\ 1 \in Nat \ {0}
      /\ "raw_act" \in Streams
  BY Sizes, NamedStreams
<1>2. p \in Seq(Op)
  BY <1>0, ResToStreamIo
<1>3. ASSUME NEW r PROVE Elements(p, "write", r) = IF r = "raw_act" THEN RowMajor(rows, HQ) ELSE <<>>
  BY <1>0, ResToStreamIo
<1>4. ASSUME NEW r PROVE Elements(p, "read", r) = <<>>
  BY <1>0, ResToStreamIo
<1> HIDE DEF p
<1>5. ASSUME NEW s \in Streams
      PROVE  Elements(p, "write", s) = IF Writer(s) = "res_to_stream" THEN Written(rows, s) ELSE <<>>
  <2>1. CASE s \in {"raw_act"}
    BY <2>1, <1>3, <1>4, WriterValues, WrittenValues
  <2>2. CASE s \notin {"raw_act"}
    <3>1. Writer(s) # "res_to_stream"
      BY <2>2, WriterValues DEF Streams
    <3>2. QED
      BY <2>2, <3>1, <1>3, <1>4
  <2>3. QED
    BY <2>1, <2>2
<1>6. ASSUME NEW s \in Streams
      PROVE  Elements(p, "read", s) = IF Reader(s) = "res_to_stream" THEN Wanted(rows, s) ELSE <<>>
  <2>1. Reader(s) # "res_to_stream"
    BY ReaderValues DEF Streams
  <2>2. QED
    BY <2>1, <1>3, <1>4
<1>7. QED
  BY <1>1, <1>2, <1>5, <1>6 DEF Sole

LEMMA RmsnormSole ==
  ASSUME NEW rows \in Nat \ {0}
  PROVE  Sole(ProgramOf(rows)["rmsnorm"], "rmsnorm", rows)
<1> DEFINE p == Quantise("raw_act", "norm1_q", "norm1_sc", rows, HQ)
<1>1. ProgramOf(rows)["rmsnorm"] = p
  BY DEF ProgramOf, Functions
<1>0. /\ HQ \in Nat /\ NQkv \in Nat /\ HKv \in Nat /\ Ffn \in Nat /\ 2 * Ffn \in Nat /\ Vocab \in Nat
      /\ 0 \in Nat /\ 1 \in Nat \ {0}
      /\ "raw_act" \in Streams
      /\ "norm1_q" \in Streams
      /\ "norm1_sc" \in Streams
      /\ "norm1_q" # "norm1_sc"
  BY Sizes, NamedStreams
<1>2. p \in Seq(Op)
  BY <1>0, QuantiseIo
<1>3. ASSUME NEW r
      PROVE  Elements(p, "write", r) =
                IF r = "norm1_q" THEN RowMajor(rows, HQ)
                ELSE IF r = "norm1_sc" THEN Scales(rows)
                ELSE <<>>
  BY <1>0, QuantiseIo
<1>4. ASSUME NEW r PROVE Elements(p, "read", r) = IF r = "raw_act" THEN RowMajor(rows, HQ) ELSE <<>>
  BY <1>0, QuantiseIo
<1> HIDE DEF p
<1>5. ASSUME NEW s \in Streams
      PROVE  Elements(p, "write", s) = IF Writer(s) = "rmsnorm" THEN Written(rows, s) ELSE <<>>
  <2>1. CASE s \in {"norm1_q", "norm1_sc"}
    BY <2>1, <1>3, <1>4, WriterValues, WrittenValues
  <2>2. CASE s \notin {"norm1_q", "norm1_sc"}
    <3>1. Writer(s) # "rmsnorm"
      BY <2>2, WriterValues DEF Streams
    <3>2. QED
      BY <2>2, <3>1, <1>3, <1>4
  <2>3. QED
    BY <2>1, <2>2
<1>6. ASSUME NEW s \in Streams
      PROVE  Elements(p, "read", s) = IF Reader(s) = "rmsnorm" THEN Wanted(rows, s) ELSE <<>>
  <2>1. CASE s \in {"raw_act"}
    BY <2>1, <1>3, <1>4, ReaderValues, WantedValues
  <2>2. CASE s \notin {"raw_act"}
    <3>1. Reader(s) # "rmsnorm"
      BY <2>2, ReaderValues DEF Streams
    <3>2. QED
      BY <2>2, <3>1, <1>3, <1>4
  <2>3. QED
    BY <2>1, <2>2
<1>7. QED
  BY <1>1, <1>2, <1>5, <1>6 DEF Sole

LEMMA QkvGemmSole ==
  ASSUME NEW rows \in Nat \ {0}
  PROVE  Sole(ProgramOf(rows)["qkv_gemm"], "qkv_gemm", rows)
<1> DEFINE p == Gemm("norm1_q", "norm1_sc", "qkv_out", rows, HQ, NQkv)
<1>1. ProgramOf(rows)["qkv_gemm"] = p
  BY DEF ProgramOf, Functions
<1>0. /\ HQ \in Nat /\ NQkv \in Nat /\ HKv \in Nat /\ Ffn \in Nat /\ 2 * Ffn \in Nat /\ Vocab \in Nat
      /\ 0 \in Nat /\ 1 \in Nat \ {0}
      /\ "norm1_q" \in Streams
      /\ "norm1_sc" \in Streams
      /\ "qkv_out" \in Streams
      /\ "norm1_q" # "norm1_sc"
  BY Sizes, NamedStreams
<1>2. p \in Seq(Op)
  BY <1>0, GemmIo
<1>3. ASSUME NEW r PROVE Elements(p, "write", r) = IF r = "qkv_out" THEN ProductOrder(rows, NQkv) ELSE <<>>
  BY <1>0, GemmIo
<1>4. ASSUME NEW r
      PROVE  Elements(p, "read", r) =
                IF r = "norm1_q" THEN RowMajor(rows, HQ)
                ELSE IF r = "norm1_sc" THEN Scales(rows)
                ELSE <<>>
  BY <1>0, GemmIo
<1> HIDE DEF p
<1>5. ASSUME NEW s \in Streams
      PROVE  Elements(p, "write", s) = IF Writer(s) = "qkv_gemm" THEN Written(rows, s) ELSE <<>>
  <2>1. CASE s \in {"qkv_out"}
    BY <2>1, <1>3, <1>4, WriterValues, WrittenValues
  <2>2. CASE s \notin {"qkv_out"}
    <3>1. Writer(s) # "qkv_gemm"
      BY <2>2, WriterValues DEF Streams
    <3>2. QED
      BY <2>2, <3>1, <1>3, <1>4
  <2>3. QED
    BY <2>1, <2>2
<1>6. ASSUME NEW s \in Streams
      PROVE  Elements(p, "read", s) = IF Reader(s) = "qkv_gemm" THEN Wanted(rows, s) ELSE <<>>
  <2>1. CASE s \in {"norm1_q", "norm1_sc"}
    BY <2>1, <1>3, <1>4, ReaderValues, WantedValues
  <2>2. CASE s \notin {"norm1_q", "norm1_sc"}
    <3>1. Reader(s) # "qkv_gemm"
      BY <2>2, ReaderValues DEF Streams
    <3>2. QED
      BY <2>2, <3>1, <1>3, <1>4
  <2>3. QED
    BY <2>1, <2>2
<1>7. QED
  BY <1>1, <1>2, <1>5, <1>6 DEF Sole

LEMMA SplitSole ==
  ASSUME NEW rows \in Nat \ {0}
  PROVE  Sole(ProgramOf(rows)["split"], "split", rows)
<1> DEFINE p == Split(rows)
<1>1. ProgramOf(rows)["split"] = p
  BY DEF ProgramOf, Functions
<1>0. /\ HQ \in Nat /\ NQkv \in Nat /\ HKv \in Nat /\ Ffn \in Nat /\ 2 * Ffn \in Nat /\ Vocab \in Nat
      /\ 0 \in Nat /\ 1 \in Nat \ {0}
  BY Sizes, NamedStreams
<1>2. p \in Seq(Op)
  BY <1>0, SplitIo
<1>3. ASSUME NEW r
      PROVE  Elements(p, "write", r) =
                IF r = "q_pre" THEN RowMajor(rows, HQ)
                ELSE IF r = "k_pre" THEN RowMajor(rows, HKv)
                ELSE IF r = "v_pass" THEN RowMajor(rows, HKv)
                ELSE <<>>
  BY <1>0, SplitIo
<1>4. ASSUME NEW r PROVE Elements(p, "read", r) = IF r = "qkv_out" THEN RowMajor(rows, NQkv) ELSE <<>>
  BY <1>0, SplitIo
<1> HIDE DEF p
<1>5. ASSUME NEW s \in Streams
      PROVE  Elements(p, "write", s) = IF Writer(s) = "split" THEN Written(rows, s) ELSE <<>>
  <2>1. CASE s \in {"q_pre", "k_pre", "v_pass"}
    BY <2>1, <1>3, <1>4, WriterValues, WrittenValues
  <2>2. CASE s \notin {"q_pre", "k_pre", "v_pass"}
    <3>1. Writer(s) # "split"
      BY <2>2, WriterValues DEF Streams
    <3>2. QED
      BY <2>2, <3>1, <1>3, <1>4
  <2>3. QED
    BY <2>1, <2>2
<1>6. ASSUME NEW s \in Streams
      PROVE  Elements(p, "read", s) = IF Reader(s) = "split" THEN Wanted(rows, s) ELSE <<>>
  <2>1. CASE s \in {"qkv_out"}
    BY <2>1, <1>3, <1>4, ReaderValues, WantedValues
  <2>2. CASE s \notin {"qkv_out"}
    <3>1. Reader(s) # "split"
      BY <2>2, ReaderValues DEF Streams
    <3>2. QED
      BY <2>2, <3>1, <1>3, <1>4
  <2>3. QED
    BY <2>1, <2>2
<1>7. QED
  BY <1>1, <1>2, <1>5, <1>6 DEF Sole

LEMMA RopeQSole ==
  ASSUME NEW rows \in Nat \ {0}
  PROVE  Sole(ProgramOf(rows)["rope_q"], "rope_q", rows)
<1> DEFINE p == Rope("q_pre", "q_rot", HQ, rows)
<1>1. ProgramOf(rows)["rope_q"] = p
  BY DEF ProgramOf, Functions
<1>0. /\ HQ \in Nat /\ NQkv \in Nat /\ HKv \in Nat /\ Ffn \in Nat /\ 2 * Ffn \in Nat /\ Vocab \in Nat
      /\ 0 \in Nat /\ 1 \in Nat \ {0}
      /\ "q_pre" \in Streams
      /\ "q_rot" \in Streams
  BY Sizes, NamedStreams
<1>2. p \in Seq(Op)
  BY <1>0, RopeIo
<1>3. ASSUME NEW r PROVE Elements(p, "write", r) = IF r = "q_rot" THEN RowMajor(rows, HQ) ELSE <<>>
  BY <1>0, RopeIo
<1>4. ASSUME NEW r PROVE Elements(p, "read", r) = IF r = "q_pre" THEN RowMajor(rows, HQ) ELSE <<>>
  BY <1>0, RopeIo
<1> HIDE DEF p
<1>5. ASSUME NEW s \in Streams
      PROVE  Elements(p, "write", s) = IF Writer(s) = "rope_q" THEN Written(rows, s) ELSE <<>>
  <2>1. CASE s \in {"q_rot"}
    BY <2>1, <1>3, <1>4, WriterValues, WrittenValues
  <2>2. CASE s \notin {"q_rot"}
    <3>1. Writer(s) # "rope_q"
      BY <2>2, WriterValues DEF Streams
    <3>2. QED
      BY <2>2, <3>1, <1>3, <1>4
  <2>3. QED
    BY <2>1, <2>2
<1>6. ASSUME NEW s \in Streams
      PROVE  Elements(p, "read", s) = IF Reader(s) = "rope_q" THEN Wanted(rows, s) ELSE <<>>
  <2>1. CASE s \in {"q_pre"}
    BY <2>1, <1>3, <1>4, ReaderValues, WantedValues
  <2>2. CASE s \notin {"q_pre"}
    <3>1. Reader(s) # "rope_q"
      BY <2>2, ReaderValues DEF Streams
    <3>2. QED
      BY <2>2, <3>1, <1>3, <1>4
  <2>3. QED
    BY <2>1, <2>2
<1>7. QED
  BY <1>1, <1>2, <1>5, <1>6 DEF Sole

LEMMA RopeKSole ==
  ASSUME NEW rows \in Nat \ {0}
  PROVE  Sole(ProgramOf(rows)["rope_k"], "rope_k", rows)
<1> DEFINE p == Rope("k_pre", "k_rot", HKv, rows)
<1>1. ProgramOf(rows)["rope_k"] = p
  BY DEF ProgramOf, Functions
<1>0. /\ HQ \in Nat /\ NQkv \in Nat /\ HKv \in Nat /\ Ffn \in Nat /\ 2 * Ffn \in Nat /\ Vocab \in Nat
      /\ 0 \in Nat /\ 1 \in Nat \ {0}
      /\ "k_pre" \in Streams
      /\ "k_rot" \in Streams
  BY Sizes, NamedStreams
<1>2. p \in Seq(Op)
  BY <1>0, RopeIo
<1>3. ASSUME NEW r PROVE Elements(p, "write", r) = IF r = "k_rot" THEN RowMajor(rows, HKv) ELSE <<>>
  BY <1>0, RopeIo
<1>4. ASSUME NEW r PROVE Elements(p, "read", r) = IF r = "k_pre" THEN RowMajor(rows, HKv) ELSE <<>>
  BY <1>0, RopeIo
<1> HIDE DEF p
<1>5. ASSUME NEW s \in Streams
      PROVE  Elements(p, "write", s) = IF Writer(s) = "rope_k" THEN Written(rows, s) ELSE <<>>
  <2>1. CASE s \in {"k_rot"}
    BY <2>1, <1>3, <1>4, WriterValues, WrittenValues
  <2>2. CASE s \notin {"k_rot"}
    <3>1. Writer(s) # "rope_k"
      BY <2>2, WriterValues DEF Streams
    <3>2. QED
      BY <2>2, <3>1, <1>3, <1>4
  <2>3. QED
    BY <2>1, <2>2
<1>6. ASSUME NEW s \in Streams
      PROVE  Elements(p, "read", s) = IF Reader(s) = "rope_k" THEN Wanted(rows, s) ELSE <<>>
  <2>1. CASE s \in {"k_pre"}
    BY <2>1, <1>3, <1>4, ReaderValues, WantedValues
  <2>2. CASE s \notin {"k_pre"}
    <3>1. Reader(s) # "rope_k"
      BY <2>2, ReaderValues DEF Streams
    <3>2. QED
      BY <2>2, <3>1, <1>3, <1>4
  <2>3. QED
    BY <2>1, <2>2
<1>7. QED
  BY <1>1, <1>2, <1>5, <1>6 DEF Sole

LEMMA AttentionSole ==
  ASSUME NEW rows \in Nat \ {0}
  PROVE  Sole(ProgramOf(rows)["attention"], "attention", rows)
<1> DEFINE p == Attention(rows)
<1>1. ProgramOf(rows)["attention"] = p
  BY DEF ProgramOf, Functions
<1>0. /\ HQ \in Nat /\ NQkv \in Nat /\ HKv \in Nat /\ Ffn \in Nat /\ 2 * Ffn \in Nat /\ Vocab \in Nat
      /\ 0 \in Nat /\ 1 \in Nat \ {0}
  BY Sizes, NamedStreams
<1>2. p \in Seq(Op)
  BY <1>0, AttentionIo
<1>3. ASSUME NEW r PROVE Elements(p, "write", r) = IF r = "attn_o" THEN QueryOrder(rows) ELSE <<>>
  BY <1>0, AttentionIo
<1>4. ASSUME NEW r
      PROVE  Elements(p, "read", r) =
                IF r = "v_pass" THEN HeadMajor(rows)
                ELSE IF r = "q_rot" THEN QueryOrder(rows)
                ELSE IF r = "k_rot" THEN HeadMajor(rows)
                ELSE <<>>
  BY <1>0, AttentionIo
<1> HIDE DEF p
<1>5. ASSUME NEW s \in Streams
      PROVE  Elements(p, "write", s) = IF Writer(s) = "attention" THEN Written(rows, s) ELSE <<>>
  <2>1. CASE s \in {"attn_o"}
    BY <2>1, <1>3, <1>4, WriterValues, WrittenValues
  <2>2. CASE s \notin {"attn_o"}
    <3>1. Writer(s) # "attention"
      BY <2>2, WriterValues DEF Streams
    <3>2. QED
      BY <2>2, <3>1, <1>3, <1>4
  <2>3. QED
    BY <2>1, <2>2
<1>6. ASSUME NEW s \in Streams
      PROVE  Elements(p, "read", s) = IF Reader(s) = "attention" THEN Wanted(rows, s) ELSE <<>>
  <2>1. CASE s \in {"v_pass", "q_rot", "k_rot"}
    BY <2>1, <1>3, <1>4, ReaderValues, WantedValues
  <2>2. CASE s \notin {"v_pass", "q_rot", "k_rot"}
    <3>1. Reader(s) # "attention"
      BY <2>2, ReaderValues DEF Streams
    <3>2. QED
      BY <2>2, <3>1, <1>3, <1>4
  <2>3. QED
    BY <2>1, <2>2
<1>7. QED
  BY <1>1, <1>2, <1>5, <1>6 DEF Sole

LEMMA OScatterSole ==
  ASSUME NEW rows \in Nat \ {0}
  PROVE  Sole(ProgramOf(rows)["o_scatter"], "o_scatter", rows)
<1> DEFINE p == OScatter(rows)
<1>1. ProgramOf(rows)["o_scatter"] = p
  BY DEF ProgramOf, Functions
<1>0. /\ HQ \in Nat /\ NQkv \in Nat /\ HKv \in Nat /\ Ffn \in Nat /\ 2 * Ffn \in Nat /\ Vocab \in Nat
      /\ 0 \in Nat /\ 1 \in Nat \ {0}
  BY Sizes, NamedStreams
<1>2. p \in Seq(Op)
  BY <1>0, OScatterIo
<1>3. ASSUME NEW r PROVE Elements(p, "write", r) = IF r = "o_flat" THEN RowMajor(rows, HQ) ELSE <<>>
  BY <1>0, OScatterIo
<1>4. ASSUME NEW r PROVE Elements(p, "read", r) = IF r = "attn_o" THEN RowMajor(rows, HQ) ELSE <<>>
  BY <1>0, OScatterIo
<1> HIDE DEF p
<1>5. ASSUME NEW s \in Streams
      PROVE  Elements(p, "write", s) = IF Writer(s) = "o_scatter" THEN Written(rows, s) ELSE <<>>
  <2>1. CASE s \in {"o_flat"}
    BY <2>1, <1>3, <1>4, WriterValues, WrittenValues
  <2>2. CASE s \notin {"o_flat"}
    <3>1. Writer(s) # "o_scatter"
      BY <2>2, WriterValues DEF Streams
    <3>2. QED
      BY <2>2, <3>1, <1>3, <1>4
  <2>3. QED
    BY <2>1, <2>2
<1>6. ASSUME NEW s \in Streams
      PROVE  Elements(p, "read", s) = IF Reader(s) = "o_scatter" THEN Wanted(rows, s) ELSE <<>>
  <2>1. CASE s \in {"attn_o"}
    BY <2>1, <1>3, <1>4, ReaderValues, WantedValues
  <2>2. CASE s \notin {"attn_o"}
    <3>1. Reader(s) # "o_scatter"
      BY <2>2, ReaderValues DEF Streams
    <3>2. QED
      BY <2>2, <3>1, <1>3, <1>4
  <2>3. QED
    BY <2>1, <2>2
<1>7. QED
  BY <1>1, <1>2, <1>5, <1>6 DEF Sole

LEMMA ActQuantSole ==
  ASSUME NEW rows \in Nat \ {0}
  PROVE  Sole(ProgramOf(rows)["act_quant"], "act_quant", rows)
<1> DEFINE p == Quantise("o_flat", "o_q", "o_sc", rows, HQ)
<1>1. ProgramOf(rows)["act_quant"] = p
  BY DEF ProgramOf, Functions
<1>0. /\ HQ \in Nat /\ NQkv \in Nat /\ HKv \in Nat /\ Ffn \in Nat /\ 2 * Ffn \in Nat /\ Vocab \in Nat
      /\ 0 \in Nat /\ 1 \in Nat \ {0}
      /\ "o_flat" \in Streams
      /\ "o_q" \in Streams
      /\ "o_sc" \in Streams
      /\ "o_q" # "o_sc"
  BY Sizes, NamedStreams
<1>2. p \in Seq(Op)
  BY <1>0, QuantiseIo
<1>3. ASSUME NEW r
      PROVE  Elements(p, "write", r) =
                IF r = "o_q" THEN RowMajor(rows, HQ)
                ELSE IF r = "o_sc" THEN Scales(rows)
                ELSE <<>>
  BY <1>0, QuantiseIo
<1>4. ASSUME NEW r PROVE Elements(p, "read", r) = IF r = "o_flat" THEN RowMajor(rows, HQ) ELSE <<>>
  BY <1>0, QuantiseIo
<1> HIDE DEF p
<1>5. ASSUME NEW s \in Streams
      PROVE  Elements(p, "write", s) = IF Writer(s) = "act_quant" THEN Written(rows, s) ELSE <<>>
  <2>1. CASE s \in {"o_q", "o_sc"}
    BY <2>1, <1>3, <1>4, WriterValues, WrittenValues
  <2>2. CASE s \notin {"o_q", "o_sc"}
    <3>1. Writer(s) # "act_quant"
      BY <2>2, WriterValues DEF Streams
    <3>2. QED
      BY <2>2, <3>1, <1>3, <1>4
  <2>3. QED
    BY <2>1, <2>2
<1>6. ASSUME NEW s \in Streams
      PROVE  Elements(p, "read", s) = IF Reader(s) = "act_quant" THEN Wanted(rows, s) ELSE <<>>
  <2>1. CASE s \in {"o_flat"}
    BY <2>1, <1>3, <1>4, ReaderValues, WantedValues
  <2>2. CASE s \notin {"o_flat"}
    <3>1. Reader(s) # "act_quant"
      BY <2>2, ReaderValues DEF Streams
    <3>2. QED
      BY <2>2, <3>1, <1>3, <1>4
  <2>3. QED
    BY <2>1, <2>2
<1>7. QED
  BY <1>1, <1>2, <1>5, <1>6 DEF Sole

LEMMA OGemmSole ==
  ASSUME NEW rows \in Nat \ {0}
  PROVE  Sole(ProgramOf(rows)["o_gemm"], "o_gemm", rows)
<1> DEFINE p == Gemm("o_q", "o_sc", "oproj_out", rows, HQ, HQ)
<1>1. ProgramOf(rows)["o_gemm"] = p
  BY DEF ProgramOf, Functions
<1>0. /\ HQ \in Nat /\ NQkv \in Nat /\ HKv \in Nat /\ Ffn \in Nat /\ 2 * Ffn \in Nat /\ Vocab \in Nat
      /\ 0 \in Nat /\ 1 \in Nat \ {0}
      /\ "o_q" \in Streams
      /\ "o_sc" \in Streams
      /\ "oproj_out" \in Streams
      /\ "o_q" # "o_sc"
  BY Sizes, NamedStreams
<1>2. p \in Seq(Op)
  BY <1>0, GemmIo
<1>3. ASSUME NEW r PROVE Elements(p, "write", r) = IF r = "oproj_out" THEN ProductOrder(rows, HQ) ELSE <<>>
  BY <1>0, GemmIo
<1>4. ASSUME NEW r
      PROVE  Elements(p, "read", r) =
                IF r = "o_q" THEN RowMajor(rows, HQ)
                ELSE IF r = "o_sc" THEN Scales(rows)
                ELSE <<>>
  BY <1>0, GemmIo
<1> HIDE DEF p
<1>5. ASSUME NEW s \in Streams
      PROVE  Elements(p, "write", s) = IF Writer(s) = "o_gemm" THEN Written(rows, s) ELSE <<>>
  <2>1. CASE s \in {"oproj_out"}
    BY <2>1, <1>3, <1>4, WriterValues, WrittenValues
  <2>2. CASE s \notin {"oproj_out"}
    <3>1. Writer(s) # "o_gemm"
      BY <2>2, WriterValues DEF Streams
    <3>2. QED
      BY <2>2, <3>1, <1>3, <1>4
  <2>3. QED
    BY <2>1, <2>2
<1>6. ASSUME NEW s \in Streams
      PROVE  Elements(p, "read", s) = IF Reader(s) = "o_gemm" THEN Wanted(rows, s) ELSE <<>>
  <2>1. CASE s \in {"o_q", "o_sc"}
    BY <2>1, <1>3, <1>4, ReaderValues, WantedValues
  <2>2. CASE s \notin {"o_q", "o_sc"}
    <3>1. Reader(s) # "o_gemm"
      BY <2>2, ReaderValues DEF Streams
    <3>2. QED
      BY <2>2, <3>1, <1>3, <1>4
  <2>3. QED
    BY <2>1, <2>2
<1>7. QED
  BY <1>1, <1>2, <1>5, <1>6 DEF Sole

LEMMA ResidualSole ==
  ASSUME NEW rows \in Nat \ {0}
  PROVE  Sole(ProgramOf(rows)["residual"], "residual", rows)
<1> DEFINE p == ResidualAdd("oproj_out", "res_buf_1", rows)
<1>1. ProgramOf(rows)["residual"] = p
  BY DEF ProgramOf, Functions
<1>0. /\ HQ \in Nat /\ NQkv \in Nat /\ HKv \in Nat /\ Ffn \in Nat /\ 2 * Ffn \in Nat /\ Vocab \in Nat
      /\ 0 \in Nat /\ 1 \in Nat \ {0}
      /\ "oproj_out" \in Streams
      /\ "res_buf_1" \in Streams
  BY Sizes, NamedStreams
<1>2. p \in Seq(Op)
  BY <1>0, ResidualAddIo
<1>3. ASSUME NEW r PROVE Elements(p, "write", r) = IF r = "res_buf_1" THEN <<<<0, 0>>>> ELSE <<>>
  BY <1>0, ResidualAddIo
<1>4. ASSUME NEW r PROVE Elements(p, "read", r) = IF r = "oproj_out" THEN RowMajor(rows, HQ) ELSE <<>>
  BY <1>0, ResidualAddIo
<1> HIDE DEF p
<1>5. ASSUME NEW s \in Streams
      PROVE  Elements(p, "write", s) = IF Writer(s) = "residual" THEN Written(rows, s) ELSE <<>>
  <2>1. CASE s \in {"res_buf_1"}
    BY <2>1, <1>3, <1>4, WriterValues, WrittenValues
  <2>2. CASE s \notin {"res_buf_1"}
    <3>1. Writer(s) # "residual"
      BY <2>2, WriterValues DEF Streams
    <3>2. QED
      BY <2>2, <3>1, <1>3, <1>4
  <2>3. QED
    BY <2>1, <2>2
<1>6. ASSUME NEW s \in Streams
      PROVE  Elements(p, "read", s) = IF Reader(s) = "residual" THEN Wanted(rows, s) ELSE <<>>
  <2>1. CASE s \in {"oproj_out"}
    BY <2>1, <1>3, <1>4, ReaderValues, WantedValues
  <2>2. CASE s \notin {"oproj_out"}
    <3>1. Reader(s) # "residual"
      BY <2>2, ReaderValues DEF Streams
    <3>2. QED
      BY <2>2, <3>1, <1>3, <1>4
  <2>3. QED
    BY <2>1, <2>2
<1>7. QED
  BY <1>1, <1>2, <1>5, <1>6 DEF Sole

LEMMA ResToStream2Sole ==
  ASSUME NEW rows \in Nat \ {0}
  PROVE  Sole(ProgramOf(rows)["res_to_stream2"], "res_to_stream2", rows)
<1> DEFINE p == Get("res_buf_1", <<0, 0>>) \o ResToStream("raw_act2", rows)
<1>1. ProgramOf(rows)["res_to_stream2"] = p
  BY DEF ProgramOf, Functions
<1>0. /\ HQ \in Nat /\ NQkv \in Nat /\ HKv \in Nat /\ Ffn \in Nat /\ 2 * Ffn \in Nat /\ Vocab \in Nat
      /\ 0 \in Nat /\ 1 \in Nat \ {0}
      /\ "res_buf_1" \in Streams
      /\ "raw_act2" \in Streams
  BY Sizes, NamedStreams
<1>2. p \in Seq(Op)
  BY <1>0, ResToStream2Io
<1>3. ASSUME NEW r PROVE Elements(p, "write", r) = IF r = "raw_act2" THEN RowMajor(rows, HQ) ELSE <<>>
  BY <1>0, ResToStream2Io
<1>4. ASSUME NEW r PROVE Elements(p, "read", r) = IF r = "res_buf_1" THEN <<<<0, 0>>>> ELSE <<>>
  BY <1>0, ResToStream2Io
<1> HIDE DEF p
<1>5. ASSUME NEW s \in Streams
      PROVE  Elements(p, "write", s) = IF Writer(s) = "res_to_stream2" THEN Written(rows, s) ELSE <<>>
  <2>1. CASE s \in {"raw_act2"}
    BY <2>1, <1>3, <1>4, WriterValues, WrittenValues
  <2>2. CASE s \notin {"raw_act2"}
    <3>1. Writer(s) # "res_to_stream2"
      BY <2>2, WriterValues DEF Streams
    <3>2. QED
      BY <2>2, <3>1, <1>3, <1>4
  <2>3. QED
    BY <2>1, <2>2
<1>6. ASSUME NEW s \in Streams
      PROVE  Elements(p, "read", s) = IF Reader(s) = "res_to_stream2" THEN Wanted(rows, s) ELSE <<>>
  <2>1. CASE s \in {"res_buf_1"}
    BY <2>1, <1>3, <1>4, ReaderValues, WantedValues
  <2>2. CASE s \notin {"res_buf_1"}
    <3>1. Reader(s) # "res_to_stream2"
      BY <2>2, ReaderValues DEF Streams
    <3>2. QED
      BY <2>2, <3>1, <1>3, <1>4
  <2>3. QED
    BY <2>1, <2>2
<1>7. QED
  BY <1>1, <1>2, <1>5, <1>6 DEF Sole

LEMMA Rmsnorm2Sole ==
  ASSUME NEW rows \in Nat \ {0}
  PROVE  Sole(ProgramOf(rows)["rmsnorm2"], "rmsnorm2", rows)
<1> DEFINE p == Quantise("raw_act2", "norm2_q", "norm2_sc", rows, HQ)
<1>1. ProgramOf(rows)["rmsnorm2"] = p
  BY DEF ProgramOf, Functions
<1>0. /\ HQ \in Nat /\ NQkv \in Nat /\ HKv \in Nat /\ Ffn \in Nat /\ 2 * Ffn \in Nat /\ Vocab \in Nat
      /\ 0 \in Nat /\ 1 \in Nat \ {0}
      /\ "raw_act2" \in Streams
      /\ "norm2_q" \in Streams
      /\ "norm2_sc" \in Streams
      /\ "norm2_q" # "norm2_sc"
  BY Sizes, NamedStreams
<1>2. p \in Seq(Op)
  BY <1>0, QuantiseIo
<1>3. ASSUME NEW r
      PROVE  Elements(p, "write", r) =
                IF r = "norm2_q" THEN RowMajor(rows, HQ)
                ELSE IF r = "norm2_sc" THEN Scales(rows)
                ELSE <<>>
  BY <1>0, QuantiseIo
<1>4. ASSUME NEW r PROVE Elements(p, "read", r) = IF r = "raw_act2" THEN RowMajor(rows, HQ) ELSE <<>>
  BY <1>0, QuantiseIo
<1> HIDE DEF p
<1>5. ASSUME NEW s \in Streams
      PROVE  Elements(p, "write", s) = IF Writer(s) = "rmsnorm2" THEN Written(rows, s) ELSE <<>>
  <2>1. CASE s \in {"norm2_q", "norm2_sc"}
    BY <2>1, <1>3, <1>4, WriterValues, WrittenValues
  <2>2. CASE s \notin {"norm2_q", "norm2_sc"}
    <3>1. Writer(s) # "rmsnorm2"
      BY <2>2, WriterValues DEF Streams
    <3>2. QED
      BY <2>2, <3>1, <1>3, <1>4
  <2>3. QED
    BY <2>1, <2>2
<1>6. ASSUME NEW s \in Streams
      PROVE  Elements(p, "read", s) = IF Reader(s) = "rmsnorm2" THEN Wanted(rows, s) ELSE <<>>
  <2>1. CASE s \in {"raw_act2"}
    BY <2>1, <1>3, <1>4, ReaderValues, WantedValues
  <2>2. CASE s \notin {"raw_act2"}
    <3>1. Reader(s) # "rmsnorm2"
      BY <2>2, ReaderValues DEF Streams
    <3>2. QED
      BY <2>2, <3>1, <1>3, <1>4
  <2>3. QED
    BY <2>1, <2>2
<1>7. QED
  BY <1>1, <1>2, <1>5, <1>6 DEF Sole

LEMMA GateupGemmSole ==
  ASSUME NEW rows \in Nat \ {0}
  PROVE  Sole(ProgramOf(rows)["gateup_gemm"], "gateup_gemm", rows)
<1> DEFINE p == Gemm("norm2_q", "norm2_sc", "gateup_out", rows, HQ, 2 * Ffn)
<1>1. ProgramOf(rows)["gateup_gemm"] = p
  BY DEF ProgramOf, Functions
<1>0. /\ HQ \in Nat /\ NQkv \in Nat /\ HKv \in Nat /\ Ffn \in Nat /\ 2 * Ffn \in Nat /\ Vocab \in Nat
      /\ 0 \in Nat /\ 1 \in Nat \ {0}
      /\ "norm2_q" \in Streams
      /\ "norm2_sc" \in Streams
      /\ "gateup_out" \in Streams
      /\ "norm2_q" # "norm2_sc"
  BY Sizes, NamedStreams
<1>2. p \in Seq(Op)
  BY <1>0, GemmIo
<1>3. ASSUME NEW r PROVE Elements(p, "write", r) = IF r = "gateup_out" THEN ProductOrder(rows, 2 * Ffn) ELSE <<>>
  BY <1>0, GemmIo
<1>4. ASSUME NEW r
      PROVE  Elements(p, "read", r) =
                IF r = "norm2_q" THEN RowMajor(rows, HQ)
                ELSE IF r = "norm2_sc" THEN Scales(rows)
                ELSE <<>>
  BY <1>0, GemmIo
<1> HIDE DEF p
<1>5. ASSUME NEW s \in Streams
      PROVE  Elements(p, "write", s) = IF Writer(s) = "gateup_gemm" THEN Written(rows, s) ELSE <<>>
  <2>1. CASE s \in {"gateup_out"}
    BY <2>1, <1>3, <1>4, WriterValues, WrittenValues
  <2>2. CASE s \notin {"gateup_out"}
    <3>1. Writer(s) # "gateup_gemm"
      BY <2>2, WriterValues DEF Streams
    <3>2. QED
      BY <2>2, <3>1, <1>3, <1>4
  <2>3. QED
    BY <2>1, <2>2
<1>6. ASSUME NEW s \in Streams
      PROVE  Elements(p, "read", s) = IF Reader(s) = "gateup_gemm" THEN Wanted(rows, s) ELSE <<>>
  <2>1. CASE s \in {"norm2_q", "norm2_sc"}
    BY <2>1, <1>3, <1>4, ReaderValues, WantedValues
  <2>2. CASE s \notin {"norm2_q", "norm2_sc"}
    <3>1. Reader(s) # "gateup_gemm"
      BY <2>2, ReaderValues DEF Streams
    <3>2. QED
      BY <2>2, <3>1, <1>3, <1>4
  <2>3. QED
    BY <2>1, <2>2
<1>7. QED
  BY <1>1, <1>2, <1>5, <1>6 DEF Sole

LEMMA SiluSole ==
  ASSUME NEW rows \in Nat \ {0}
  PROVE  Sole(ProgramOf(rows)["silu"], "silu", rows)
<1> DEFINE p == SiluGate(rows)
<1>1. ProgramOf(rows)["silu"] = p
  BY DEF ProgramOf, Functions
<1>0. /\ HQ \in Nat /\ NQkv \in Nat /\ HKv \in Nat /\ Ffn \in Nat /\ 2 * Ffn \in Nat /\ Vocab \in Nat
      /\ 0 \in Nat /\ 1 \in Nat \ {0}
  BY Sizes, NamedStreams
<1>2. p \in Seq(Op)
  BY <1>0, SiluGateIo
<1>3. ASSUME NEW r
      PROVE  Elements(p, "write", r) =
                IF r = "ffn_act" THEN RowMajor(rows, Ffn)
                ELSE IF r = "ffn_sc" THEN Scales(rows)
                ELSE <<>>
  BY <1>0, SiluGateIo
<1>4. ASSUME NEW r PROVE Elements(p, "read", r) = IF r = "gateup_out" THEN RowMajor(rows, 2 * Ffn) ELSE <<>>
  BY <1>0, SiluGateIo
<1> HIDE DEF p
<1>5. ASSUME NEW s \in Streams
      PROVE  Elements(p, "write", s) = IF Writer(s) = "silu" THEN Written(rows, s) ELSE <<>>
  <2>1. CASE s \in {"ffn_act", "ffn_sc"}
    BY <2>1, <1>3, <1>4, WriterValues, WrittenValues
  <2>2. CASE s \notin {"ffn_act", "ffn_sc"}
    <3>1. Writer(s) # "silu"
      BY <2>2, WriterValues DEF Streams
    <3>2. QED
      BY <2>2, <3>1, <1>3, <1>4
  <2>3. QED
    BY <2>1, <2>2
<1>6. ASSUME NEW s \in Streams
      PROVE  Elements(p, "read", s) = IF Reader(s) = "silu" THEN Wanted(rows, s) ELSE <<>>
  <2>1. CASE s \in {"gateup_out"}
    BY <2>1, <1>3, <1>4, ReaderValues, WantedValues
  <2>2. CASE s \notin {"gateup_out"}
    <3>1. Reader(s) # "silu"
      BY <2>2, ReaderValues DEF Streams
    <3>2. QED
      BY <2>2, <3>1, <1>3, <1>4
  <2>3. QED
    BY <2>1, <2>2
<1>7. QED
  BY <1>1, <1>2, <1>5, <1>6 DEF Sole

LEMMA DownGemmSole ==
  ASSUME NEW rows \in Nat \ {0}
  PROVE  Sole(ProgramOf(rows)["down_gemm"], "down_gemm", rows)
<1> DEFINE p == Gemm("ffn_act", "ffn_sc", "down_out", rows, Ffn, HQ)
<1>1. ProgramOf(rows)["down_gemm"] = p
  BY DEF ProgramOf, Functions
<1>0. /\ HQ \in Nat /\ NQkv \in Nat /\ HKv \in Nat /\ Ffn \in Nat /\ 2 * Ffn \in Nat /\ Vocab \in Nat
      /\ 0 \in Nat /\ 1 \in Nat \ {0}
      /\ "ffn_act" \in Streams
      /\ "ffn_sc" \in Streams
      /\ "down_out" \in Streams
      /\ "ffn_act" # "ffn_sc"
  BY Sizes, NamedStreams
<1>2. p \in Seq(Op)
  BY <1>0, GemmIo
<1>3. ASSUME NEW r PROVE Elements(p, "write", r) = IF r = "down_out" THEN ProductOrder(rows, HQ) ELSE <<>>
  BY <1>0, GemmIo
<1>4. ASSUME NEW r
      PROVE  Elements(p, "read", r) =
                IF r = "ffn_act" THEN RowMajor(rows, Ffn)
                ELSE IF r = "ffn_sc" THEN Scales(rows)
                ELSE <<>>
  BY <1>0, GemmIo
<1> HIDE DEF p
<1>5. ASSUME NEW s \in Streams
      PROVE  Elements(p, "write", s) = IF Writer(s) = "down_gemm" THEN Written(rows, s) ELSE <<>>
  <2>1. CASE s \in {"down_out"}
    BY <2>1, <1>3, <1>4, WriterValues, WrittenValues
  <2>2. CASE s \notin {"down_out"}
    <3>1. Writer(s) # "down_gemm"
      BY <2>2, WriterValues DEF Streams
    <3>2. QED
      BY <2>2, <3>1, <1>3, <1>4
  <2>3. QED
    BY <2>1, <2>2
<1>6. ASSUME NEW s \in Streams
      PROVE  Elements(p, "read", s) = IF Reader(s) = "down_gemm" THEN Wanted(rows, s) ELSE <<>>
  <2>1. CASE s \in {"ffn_act", "ffn_sc"}
    BY <2>1, <1>3, <1>4, ReaderValues, WantedValues
  <2>2. CASE s \notin {"ffn_act", "ffn_sc"}
    <3>1. Reader(s) # "down_gemm"
      BY <2>2, ReaderValues DEF Streams
    <3>2. QED
      BY <2>2, <3>1, <1>3, <1>4
  <2>3. QED
    BY <2>1, <2>2
<1>7. QED
  BY <1>1, <1>2, <1>5, <1>6 DEF Sole

LEMMA Residual2Sole ==
  ASSUME NEW rows \in Nat \ {0}
  PROVE  Sole(ProgramOf(rows)["residual2"], "residual2", rows)
<1> DEFINE p == ResidualAdd("down_out", "res_buf_1_out", rows)
<1>1. ProgramOf(rows)["residual2"] = p
  BY DEF ProgramOf, Functions
<1>0. /\ HQ \in Nat /\ NQkv \in Nat /\ HKv \in Nat /\ Ffn \in Nat /\ 2 * Ffn \in Nat /\ Vocab \in Nat
      /\ 0 \in Nat /\ 1 \in Nat \ {0}
      /\ "down_out" \in Streams
      /\ "res_buf_1_out" \in Streams
  BY Sizes, NamedStreams
<1>2. p \in Seq(Op)
  BY <1>0, ResidualAddIo
<1>3. ASSUME NEW r PROVE Elements(p, "write", r) = IF r = "res_buf_1_out" THEN <<<<0, 0>>>> ELSE <<>>
  BY <1>0, ResidualAddIo
<1>4. ASSUME NEW r PROVE Elements(p, "read", r) = IF r = "down_out" THEN RowMajor(rows, HQ) ELSE <<>>
  BY <1>0, ResidualAddIo
<1> HIDE DEF p
<1>5. ASSUME NEW s \in Streams
      PROVE  Elements(p, "write", s) = IF Writer(s) = "residual2" THEN Written(rows, s) ELSE <<>>
  <2>1. CASE s \in {"res_buf_1_out"}
    BY <2>1, <1>3, <1>4, WriterValues, WrittenValues
  <2>2. CASE s \notin {"res_buf_1_out"}
    <3>1. Writer(s) # "residual2"
      BY <2>2, WriterValues DEF Streams
    <3>2. QED
      BY <2>2, <3>1, <1>3, <1>4
  <2>3. QED
    BY <2>1, <2>2
<1>6. ASSUME NEW s \in Streams
      PROVE  Elements(p, "read", s) = IF Reader(s) = "residual2" THEN Wanted(rows, s) ELSE <<>>
  <2>1. CASE s \in {"down_out"}
    BY <2>1, <1>3, <1>4, ReaderValues, WantedValues
  <2>2. CASE s \notin {"down_out"}
    <3>1. Reader(s) # "residual2"
      BY <2>2, ReaderValues DEF Streams
    <3>2. QED
      BY <2>2, <3>1, <1>3, <1>4
  <2>3. QED
    BY <2>1, <2>2
<1>7. QED
  BY <1>1, <1>2, <1>5, <1>6 DEF Sole

LEMMA StoreSole ==
  ASSUME NEW rows \in Nat \ {0}
  PROVE  Sole(ProgramOf(rows)["store"], "store", rows)
<1> DEFINE p == StoreAct
<1>1. ProgramOf(rows)["store"] = p
  BY DEF ProgramOf, Functions
<1>0. /\ HQ \in Nat /\ NQkv \in Nat /\ HKv \in Nat /\ Ffn \in Nat /\ 2 * Ffn \in Nat /\ Vocab \in Nat
      /\ 0 \in Nat /\ 1 \in Nat \ {0}
  BY Sizes, NamedStreams
<1>2. p \in Seq(Op)
  BY <1>0, StoreActIo
<1>3. ASSUME NEW r
      PROVE  Elements(p, "write", r) =
                IF r = "lm_raw" THEN (IF RunLmHead THEN Row(0, HQ)
                ELSE <<>>)
                ELSE <<>>
  BY <1>0, StoreActIo
<1>4. ASSUME NEW r PROVE Elements(p, "read", r) = IF r = "res_buf_1_out" THEN <<<<0, 0>>>> ELSE <<>>
  BY <1>0, StoreActIo
<1> HIDE DEF p
<1>5. ASSUME NEW s \in Streams
      PROVE  Elements(p, "write", s) = IF Writer(s) = "store" THEN Written(rows, s) ELSE <<>>
  <2>1. CASE s \in {"lm_raw"}
    BY <2>1, <1>3, <1>4, WriterValues, WrittenValues
  <2>2. CASE s \notin {"lm_raw"}
    <3>1. Writer(s) # "store"
      BY <2>2, WriterValues DEF Streams
    <3>2. QED
      BY <2>2, <3>1, <1>3, <1>4
  <2>3. QED
    BY <2>1, <2>2
<1>6. ASSUME NEW s \in Streams
      PROVE  Elements(p, "read", s) = IF Reader(s) = "store" THEN Wanted(rows, s) ELSE <<>>
  <2>1. CASE s \in {"res_buf_1_out"}
    BY <2>1, <1>3, <1>4, ReaderValues, WantedValues
  <2>2. CASE s \notin {"res_buf_1_out"}
    <3>1. Reader(s) # "store"
      BY <2>2, ReaderValues DEF Streams
    <3>2. QED
      BY <2>2, <3>1, <1>3, <1>4
  <2>3. QED
    BY <2>1, <2>2
<1>7. QED
  BY <1>1, <1>2, <1>5, <1>6 DEF Sole

LEMMA LmNormSole ==
  ASSUME NEW rows \in Nat \ {0}
  PROVE  Sole(ProgramOf(rows)["lm_norm"], "lm_norm", rows)
<1> DEFINE q == Quantise("lm_raw", "lm_q", "lm_sc", 1, HQ)
           p == IfLmHead(q)
<1>1. ProgramOf(rows)["lm_norm"] = p
  BY DEF ProgramOf, Functions
<1>0. /\ HQ \in Nat /\ NQkv \in Nat /\ HKv \in Nat /\ Ffn \in Nat /\ 2 * Ffn \in Nat /\ Vocab \in Nat
      /\ 0 \in Nat /\ 1 \in Nat \ {0}
      /\ "lm_raw" \in Streams
      /\ "lm_q" \in Streams
      /\ "lm_sc" \in Streams
      /\ "lm_q" # "lm_sc"
  BY Sizes, NamedStreams
<1>2. q \in Seq(Op)
  BY <1>0, QuantiseIo
<1>3. ASSUME NEW r PROVE Elements(q, "write", r) = IF r = "lm_q" THEN RowMajor(1, HQ) ELSE IF r = "lm_sc" THEN Scales(1) ELSE <<>>
  BY <1>0, QuantiseIo
<1>4. ASSUME NEW r PROVE Elements(q, "read", r) = IF r = "lm_raw" THEN RowMajor(1, HQ) ELSE <<>>
  BY <1>0, QuantiseIo
<1> HIDE DEF q
<1>5. p \in Seq(Op)
  BY <1>2, IfLmHeadIo
<1>6. ASSUME NEW io, NEW r PROVE Elements(p, io, r) = IF RunLmHead THEN Elements(q, io, r) ELSE <<>>
  BY <1>2, IfLmHeadIo
<1> HIDE DEF p
<1>7. ASSUME NEW s \in Streams
      PROVE  Elements(p, "write", s) = IF Writer(s) = "lm_norm" THEN Written(rows, s) ELSE <<>>
  <2>1. CASE s \in {"lm_q", "lm_sc"}
    BY <2>1, <1>3, <1>4, <1>6, WriterValues, WrittenValues
  <2>2. CASE s \notin {"lm_q", "lm_sc"}
    <3>1. Writer(s) # "lm_norm"
      BY <2>2, WriterValues DEF Streams
    <3>2. QED
      BY <2>2, <3>1, <1>3, <1>4, <1>6
  <2>3. QED
    BY <2>1, <2>2
<1>8. ASSUME NEW s \in Streams
      PROVE  Elements(p, "read", s) = IF Reader(s) = "lm_norm" THEN Wanted(rows, s) ELSE <<>>
  <2>1. CASE s \in {"lm_raw"}
    BY <2>1, <1>3, <1>4, <1>6, ReaderValues, WantedValues
  <2>2. CASE s \notin {"lm_raw"}
    <3>1. Reader(s) # "lm_norm"
      BY <2>2, ReaderValues DEF Streams
    <3>2. QED
      BY <2>2, <3>1, <1>3, <1>4, <1>6
  <2>3. QED
    BY <2>1, <2>2
<1>9. QED
  BY <1>1, <1>5, <1>7, <1>8 DEF Sole

LEMMA LmGemmSole ==
  ASSUME NEW rows \in Nat \ {0}
  PROVE  Sole(ProgramOf(rows)["lm_gemm"], "lm_gemm", rows)
<1> DEFINE q == Gemm("lm_q", "lm_sc", "lm_out", 1, HQ, Vocab)
           p == IfLmHead(q)
<1>1. ProgramOf(rows)["lm_gemm"] = p
  BY DEF ProgramOf, Functions
<1>0. /\ HQ \in Nat /\ NQkv \in Nat /\ HKv \in Nat /\ Ffn \in Nat /\ 2 * Ffn \in Nat /\ Vocab \in Nat
      /\ 0 \in Nat /\ 1 \in Nat \ {0}
      /\ "lm_q" \in Streams
      /\ "lm_sc" \in Streams
      /\ "lm_out" \in Streams
      /\ "lm_q" # "lm_sc"
  BY Sizes, NamedStreams
<1>2. q \in Seq(Op)
  BY <1>0, GemmIo
<1>3. ASSUME NEW r PROVE Elements(q, "write", r) = IF r = "lm_out" THEN ProductOrder(1, Vocab) ELSE <<>>
  BY <1>0, GemmIo
<1>4. ASSUME NEW r PROVE Elements(q, "read", r) = IF r = "lm_q" THEN RowMajor(1, HQ) ELSE IF r = "lm_sc" THEN Scales(1) ELSE <<>>
  BY <1>0, GemmIo
<1> HIDE DEF q
<1>5. p \in Seq(Op)
  BY <1>2, IfLmHeadIo
<1>6. ASSUME NEW io, NEW r PROVE Elements(p, io, r) = IF RunLmHead THEN Elements(q, io, r) ELSE <<>>
  BY <1>2, IfLmHeadIo
<1> HIDE DEF p
<1>7. ASSUME NEW s \in Streams
      PROVE  Elements(p, "write", s) = IF Writer(s) = "lm_gemm" THEN Written(rows, s) ELSE <<>>
  <2>1. CASE s \in {"lm_out"}
    BY <2>1, <1>3, <1>4, <1>6, WriterValues, WrittenValues
  <2>2. CASE s \notin {"lm_out"}
    <3>1. Writer(s) # "lm_gemm"
      BY <2>2, WriterValues DEF Streams
    <3>2. QED
      BY <2>2, <3>1, <1>3, <1>4, <1>6
  <2>3. QED
    BY <2>1, <2>2
<1>8. ASSUME NEW s \in Streams
      PROVE  Elements(p, "read", s) = IF Reader(s) = "lm_gemm" THEN Wanted(rows, s) ELSE <<>>
  <2>1. CASE s \in {"lm_q", "lm_sc"}
    BY <2>1, <1>3, <1>4, <1>6, ReaderValues, WantedValues
  <2>2. CASE s \notin {"lm_q", "lm_sc"}
    <3>1. Reader(s) # "lm_gemm"
      BY <2>2, ReaderValues DEF Streams
    <3>2. QED
      BY <2>2, <3>1, <1>3, <1>4, <1>6
  <2>3. QED
    BY <2>1, <2>2
<1>9. QED
  BY <1>1, <1>5, <1>7, <1>8 DEF Sole

LEMMA LmOutSole ==
  ASSUME NEW rows \in Nat \ {0}
  PROVE  Sole(ProgramOf(rows)["lm_out"], "lm_out", rows)
<1> DEFINE q == ReadRow("lm_out", 0, Vocab)
           p == IfLmHead(q)
<1>1. ProgramOf(rows)["lm_out"] = p
  BY DEF ProgramOf, Functions
<1>0. /\ HQ \in Nat /\ NQkv \in Nat /\ HKv \in Nat /\ Ffn \in Nat /\ 2 * Ffn \in Nat /\ Vocab \in Nat
      /\ 0 \in Nat /\ 1 \in Nat \ {0}
      /\ "lm_out" \in Streams
  BY Sizes, NamedStreams
<1>2. q \in Seq(Op)
  BY <1>0, ReadRowIo
<1>3. ASSUME NEW r PROVE Elements(q, "write", r) = <<>>
  BY <1>0, ReadRowIo
<1>4. ASSUME NEW r PROVE Elements(q, "read", r) = IF r = "lm_out" THEN Row(0, Vocab) ELSE <<>>
  BY <1>0, ReadRowIo
<1> HIDE DEF q
<1>5. p \in Seq(Op)
  BY <1>2, IfLmHeadIo
<1>6. ASSUME NEW io, NEW r PROVE Elements(p, io, r) = IF RunLmHead THEN Elements(q, io, r) ELSE <<>>
  BY <1>2, IfLmHeadIo
<1> HIDE DEF p
<1>7. ASSUME NEW s \in Streams
      PROVE  Elements(p, "write", s) = IF Writer(s) = "lm_out" THEN Written(rows, s) ELSE <<>>
  <2>1. Writer(s) # "lm_out"
    BY WriterValues DEF Streams
  <2>2. QED
    BY <2>1, <1>3, <1>4, <1>6
<1>8. ASSUME NEW s \in Streams
      PROVE  Elements(p, "read", s) = IF Reader(s) = "lm_out" THEN Wanted(rows, s) ELSE <<>>
  <2>1. CASE s \in {"lm_out"}
    BY <2>1, <1>3, <1>4, <1>6, ReaderValues, WantedValues
  <2>2. CASE s \notin {"lm_out"}
    <3>1. Reader(s) # "lm_out"
      BY <2>2, ReaderValues DEF Streams
    <3>2. QED
      BY <2>2, <3>1, <1>3, <1>4, <1>6
  <2>3. QED
    BY <2>1, <2>2
<1>9. QED
  BY <1>1, <1>5, <1>7, <1>8 DEF Sole

(* All of them, and the functions at the ends of a stream.                    *)
LEMMA ProgramsSole ==
  ASSUME NEW rows \in Nat \ {0}, NEW f \in Functions
  PROVE  Sole(ProgramOf(rows)[f], f, rows)
BY ResToStreamSole, RmsnormSole, QkvGemmSole, SplitSole, RopeQSole, RopeKSole, AttentionSole, OScatterSole,
   ActQuantSole, OGemmSole, ResidualSole, ResToStream2Sole, Rmsnorm2Sole, GateupGemmSole, SiluSole,
   DownGemmSole, Residual2Sole, StoreSole, LmNormSole, LmGemmSole, LmOutSole DEF Functions

LEMMA EndsTyped ==
  \A s \in Streams : Writer(s) \in Functions /\ Reader(s) \in Functions
BY WriterValues, ReaderValues DEF Streams, Functions

-----------------------------------------------------------------------------
(* How much travels along a stream, and in which order if there is one row.   *)

(* The length of each order, and what is left of it for one row.              *)
LEMMA RowMajorFacts ==
  ASSUME NEW rows \in Nat, NEW cols \in Nat
  PROVE  RowMajor(rows, cols) \in Seq(Place) /\ Len(RowMajor(rows, cols)) = rows * cols
<1> DEFINE b == [t \in 0 .. rows - 1 |-> Row(t, cols)]
<1>1. AllOfSize(b, rows, Place, cols)
  BY RowFacts DEF AllOfSize
<1>2. RowMajor(rows, cols) = Unrolled(b, rows)
  BY DEF RowMajor, For
<1> HIDE DEF b
<1>3. Unrolled(b, rows) \in Seq(Place) /\ Len(Unrolled(b, rows)) = rows * cols
  BY <1>1, UnrolledLen
<1>4. QED
  BY <1>2, <1>3

LEMMA RowMajorOfOne ==
  ASSUME NEW cols \in Nat
  PROVE  RowMajor(1, cols) = Row(0, cols)
<1> DEFINE b == [t \in 0 .. 1 - 1 |-> Row(t, cols)]
<1>1. b[0] = Row(0, cols) /\ Row(0, cols) \in Seq(Place)
  BY 0 \in Nat, RowFacts
<1>2. RowMajor(1, cols) = Unrolled(b, 1)
  BY DEF RowMajor, For
<1> HIDE DEF b
<1>3. Unrolled(b, 1) = b[0]
  BY <1>1, UnrolledOnce
<1>4. QED
  BY <1>1, <1>2, <1>3

(* The tiles of a range of n make up n.                                       *)
Tiled(body, n, tile, T, c) ==
  \A i \in 0 .. Tiles(n, tile) - 1 : body[i] \in Seq(T) /\ Len(body[i]) = TileLen(n, tile, i) * c

LEMMA UnrolledTiles ==
  ASSUME NEW n \in Nat \ {0}, NEW tile \in Nat \ {0}, NEW T, NEW c \in Nat, NEW body,
         Tiled(body, n, tile, T, c)
  PROVE  /\ Unrolled(body, Tiles(n, tile)) \in Seq(T)
         /\ Len(Unrolled(body, Tiles(n, tile))) = n * c
<1> DEFINE m == Tiles(n, tile)
           upTo(i) == (IF i = m THEN n ELSE i * tile) * c
           S == {i \in Nat : i <= m => Unrolled(body, i) \in Seq(T) /\ Len(Unrolled(body, i)) = upTo(i)}
<1>0. m \in Nat \ {0}
  BY TilesFacts
<1>1. 0 \in S
  <2>1. Unrolled(body, 0) = <<>> /\ <<>> \in Seq(T) /\ Len(<<>>) = 0
    BY UnrolledStep, EmptySeq
  <2>2. upTo(0) = 0
    BY <1>0
  <2>3. QED
    BY <2>1, <2>2
<1>2. ASSUME NEW i \in S PROVE i + 1 \in S
  <2> SUFFICES ASSUME i + 1 <= m
               PROVE  Unrolled(body, i + 1) \in Seq(T) /\ Len(Unrolled(body, i + 1)) = upTo(i + 1)
    OBVIOUS
  <2> DEFINE u == Unrolled(body, i)
             l == TileLen(n, tile, i)
  <2>1. i \in 0 .. m - 1 /\ i \in Nat /\ u \in Seq(T) /\ Len(u) = upTo(i)
    BY <1>0
  <2>2. upTo(i) = (i * tile) * c
    BY <1>0, <2>1
  <2>3. body[i] \in Seq(T) /\ Len(body[i]) = l * c
    BY <2>1 DEF Tiled
  <2>4. /\ l \in Nat
        /\ i + 1 < m => i * tile + l = (i + 1) * tile
        /\ i + 1 = m => i * tile + l = n
    BY <2>1, TileLenFacts
  <2>5. Unrolled(body, i + 1) = u \o body[i]
    BY <2>1, UnrolledStep
  <2> HIDE DEF u, l, m
  <2>6. u \o body[i] \in Seq(T) /\ Len(u \o body[i]) = (i * tile) * c + l * c
    <3>1. u \in Seq(T) /\ body[i] \in Seq(T)
      BY <2>1, <2>3
    <3>2. u \o body[i] \in Seq(T) /\ Len(u \o body[i]) = Len(u) + Len(body[i])
      BY ONLY <3>1, ConcatProperties
    <3>3. QED
      BY <3>2, <2>1, <2>2, <2>3
  <2>7. (i * tile) * c + l * c = (i * tile + l) * c
    BY <2>1, <2>4
  <2>8. (i * tile + l) * c = upTo(i + 1)
    <3>1. CASE i + 1 = m
      BY <3>1, <2>4
    <3>2. CASE i + 1 # m
      BY <3>2, <1>0, <2>1, <2>4
    <3>3. QED
      BY <3>1, <3>2
  <2>9. QED
    BY <2>5, <2>6, <2>7, <2>8
<1> HIDE DEF S
<1>3. \A i \in Nat : i \in S
  BY <1>1, <1>2, Upwards DEF S
<1>4. m \in S /\ m <= m
  BY <1>0, <1>3
<1>5. QED
  BY <1>4 DEF S

(* The order of a product.                                                    *)
LEMMA ColumnFacts ==
  ASSUME NEW m \in Nat \ {0}, NEW nt \in Nat
  PROVE  ColumnOf(m, nt) \in Seq(Place) /\ Len(ColumnOf(m, nt)) = m
<1> DEFINE b == [mt \in 0 .. Tiles(m, TileM) - 1 |-> TileOf(m, nt, mt)]
<1>1. ASSUME NEW mt \in 0 .. Tiles(m, TileM) - 1
      PROVE  TileOf(m, nt, mt) \in Seq(Place) /\ Len(TileOf(m, nt, mt)) = TileLen(m, TileM, mt) * 1
  <2> DEFINE l == TileLen(m, TileM, mt)
             e == [i \in 0 .. l - 1 |-> <<mt * TileM + i, nt>>]
             d == [i \in 0 .. l - 1 |-> <<<<mt * TileM + i, nt>>>>]
  <2>1. l \in Nat /\ mt \in Nat /\ mt * TileM \in Nat
    BY Sizes, TileLenFacts, Products
  <2>2. TileOf(m, nt, mt) = Unrolled(d, l)
    BY DEF TileOf, For
  <2> HIDE DEF l
  <2>3. Units(d, l, Place, e)
    BY <2>1 DEF Units, Place
  <2> HIDE DEF d, e
  <2>4. Unrolled(d, l) \in Seq(Place) /\ Len(Unrolled(d, l)) = l
    BY <2>1, <2>3, UnrolledUnits
  <2>5. QED
    BY <2>1, <2>2, <2>4 DEF l
<1>2. Tiled(b, m, TileM, Place, 1)
  BY <1>1 DEF Tiled
<1>3. ColumnOf(m, nt) = Unrolled(b, Tiles(m, TileM))
  BY DEF ColumnOf, For
<1> HIDE DEF b
<1>4. Unrolled(b, Tiles(m, TileM)) \in Seq(Place) /\ Len(Unrolled(b, Tiles(m, TileM))) = m * 1
  <2>1. TileM \in Nat \ {0} /\ 1 \in Nat
    BY Sizes
  <2>2. QED
    BY <1>2, <2>1, UnrolledTiles
<1>5. QED
  BY <1>3, <1>4

LEMMA ProductFacts ==
  ASSUME NEW m \in Nat \ {0}, NEW n \in Nat
  PROVE  ProductOrder(m, n) \in Seq(Place) /\ Len(ProductOrder(m, n)) = n * m
<1> DEFINE b == [nt \in 0 .. n - 1 |-> ColumnOf(m, nt)]
<1>1. AllOfSize(b, n, Place, m)
  BY ColumnFacts DEF AllOfSize
<1>2. ProductOrder(m, n) = Unrolled(b, n)
  BY DEF ProductOrder, For
<1> HIDE DEF b
<1>3. Unrolled(b, n) \in Seq(Place) /\ Len(Unrolled(b, n)) = n * m
  BY <1>1, UnrolledLen
<1>4. QED
  BY <1>2, <1>3

LEMMA OneTile ==
  ASSUME NEW tile \in Nat \ {0}
  PROVE  Tiles(1, tile) = 1 /\ TileLen(1, tile, 0) = 1
<1>1. Tiles(1, tile) \in Nat \ {0} /\ (Tiles(1, tile) - 1) * tile < 1
  BY 1 \in Nat \ {0}, TilesFacts
<1>2. Tiles(1, tile) - 1 = 0
  <2> DEFINE q == Tiles(1, tile) - 1
  <2>1. q \in Nat /\ q * tile < 1
    BY <1>1
  <2> HIDE DEF q
  <2>2. 0 < q => 0 * tile + tile <= q * tile
    BY <2>1, 0 \in Nat, Products
  <2>3. q = 0
    BY <2>1, <2>2
  <2>4. QED
    BY <2>3 DEF q
<1>3. QED
  BY <1>1, <1>2 DEF TileLen

LEMMA ProductOfOne ==
  ASSUME NEW n \in Nat
  PROVE  ProductOrder(1, n) = Row(0, n)
<1>1. ASSUME NEW nt \in 0 .. n - 1 PROVE ColumnOf(1, nt) = <<<<0, nt>>>>
  <2> DEFINE d == [i \in 0 .. 1 - 1 |-> <<<<0 * TileM + i, nt>>>>]
             b == [mt \in 0 .. 1 - 1 |-> TileOf(1, nt, mt)]
             el == <<<<0, nt>>>>
  <2>1. Tiles(1, TileM) = 1 /\ TileLen(1, TileM, 0) = 1 /\ 0 * TileM = 0
    BY Sizes, OneTile
  <2>2. d[0] = el /\ el \in Seq(Place)
    BY <2>1 DEF Place
  <2>3. TileOf(1, nt, 0) = Unrolled(d, 1)
    BY <2>1 DEF TileOf, For
  <2>4. b[0] = TileOf(1, nt, 0) /\ ColumnOf(1, nt) = Unrolled(b, 1)
    BY <2>1 DEF ColumnOf, For
  <2> HIDE DEF d, b, el
  <2>5. Unrolled(d, 1) = el
    BY <2>2, UnrolledOnce
  <2>6. Unrolled(b, 1) = b[0]
    BY <2>2, <2>3, <2>4, <2>5, UnrolledOnce
  <2>7. QED
    BY <2>3, <2>4, <2>5, <2>6 DEF el
<1> DEFINE x == [nt \in 0 .. n - 1 |-> ColumnOf(1, nt)]
           y == [nt \in 0 .. n - 1 |-> <<<<0, nt>>>>]
<1>2. \A nt \in 0 .. n - 1 : x[nt] = y[nt]
  BY <1>1
<1>3. ProductOrder(1, n) = Unrolled(x, n) /\ Row(0, n) = Unrolled(y, n)
  BY DEF ProductOrder, Row, For
<1> HIDE DEF x, y
<1>4. QED
  BY <1>2, <1>3, UnrolledSame

(* The orders of attention.                                                   *)
LEMMA HeadFacts ==
  ASSUME NEW rows \in Nat, NEW h \in Nat
  PROVE  HeadOf(rows, h) \in Seq(Place) /\ Len(HeadOf(rows, h)) = rows
<1> DEFINE e == [t \in 0 .. rows - 1 |-> <<t, h>>]
           d == [t \in 0 .. rows - 1 |-> <<<<t, h>>>>]
<1>1. Units(d, rows, Place, e)
  BY DEF Units, Place
<1>2. HeadOf(rows, h) = Unrolled(d, rows)
  BY DEF HeadOf, For
<1> HIDE DEF d, e
<1>3. QED
  BY <1>1, <1>2, UnrolledUnits

LEMMA HeadMajorFacts ==
  ASSUME NEW rows \in Nat
  PROVE  HeadMajor(rows) \in Seq(Place) /\ Len(HeadMajor(rows)) = HKv * rows
<1> DEFINE b == [h \in 0 .. HKv - 1 |-> HeadOf(rows, h)]
<1>1. AllOfSize(b, HKv, Place, rows)
  BY Sizes, HeadFacts DEF AllOfSize
<1>2. HeadMajor(rows) = Unrolled(b, HKv)
  BY DEF HeadMajor, For
<1> HIDE DEF b
<1>3. Unrolled(b, HKv) \in Seq(Place) /\ Len(Unrolled(b, HKv)) = HKv * rows
  BY <1>1, Sizes, UnrolledLen
<1>4. QED
  BY <1>2, <1>3

LEMMA HeadMajorOfOne == HeadMajor(1) = Row(0, HKv)
<1>1. ASSUME NEW h \in 0 .. HKv - 1 PROVE HeadOf(1, h) = <<<<0, h>>>>
  <2> DEFINE d == [t \in 0 .. 1 - 1 |-> <<<<t, h>>>>]
             el == <<<<0, h>>>>
  <2>1. d[0] = el /\ el \in Seq(Place)
    BY Sizes DEF Place
  <2>2. HeadOf(1, h) = Unrolled(d, 1)
    BY DEF HeadOf, For
  <2> HIDE DEF d, el
  <2>3. Unrolled(d, 1) = el
    BY <2>1, UnrolledOnce
  <2>4. QED
    BY <2>2, <2>3 DEF el
<1> DEFINE x == [h \in 0 .. HKv - 1 |-> HeadOf(1, h)]
           y == [h \in 0 .. HKv - 1 |-> <<<<0, h>>>>]
<1>2. \A h \in 0 .. HKv - 1 : x[h] = y[h]
  BY <1>1
<1>3. HeadMajor(1) = Unrolled(x, HKv) /\ Row(0, HKv) = Unrolled(y, HKv)
  BY DEF HeadMajor, Row, For
<1> HIDE DEF x, y
<1>4. QED
  BY <1>2, <1>3, Sizes, UnrolledSame

LEMMA HeadQueriesFacts ==
  ASSUME NEW rows \in Nat \ {0}, NEW h \in Nat
  PROVE  HeadQueries(rows, h) \in Seq(Place) /\ Len(HeadQueries(rows, h)) = rows * Ratio
<1> DEFINE m == Tiles(rows, QTile)
           d == [qt \in 0 .. m - 1 |-> QueriesOf(rows, h, qt)]
<1>1. ASSUME NEW qt \in 0 .. m - 1
      PROVE  QueriesOf(rows, h, qt) \in Seq(Place) /\ Len(QueriesOf(rows, h, qt)) = TileLen(rows, QTile, qt) * Ratio
  <2> DEFINE l == QueryCount(rows, qt)
             e == [q \in 0 .. l - 1 |-> Query(h, qt, q)]
             c == [q \in 0 .. l - 1 |-> <<Query(h, qt, q)>>]
  <2>1. l \in Nat /\ \A q \in 0 .. l - 1 : Query(h, qt, q) \in Place
    BY Sizes, QueryFacts
  <2>2. QueriesOf(rows, h, qt) = Unrolled(c, l)
    BY DEF QueriesOf, For
  <2>3. l = TileLen(rows, QTile, qt) * Ratio
    BY DEF QueryCount
  <2> HIDE DEF l
  <2>4. Units(c, l, Place, e)
    BY <2>1 DEF Units
  <2> HIDE DEF c, e
  <2>5. Unrolled(c, l) \in Seq(Place) /\ Len(Unrolled(c, l)) = l
    BY <2>1, <2>4, UnrolledUnits
  <2>6. QED
    BY <2>2, <2>3, <2>5
<1>2. Tiled(d, rows, QTile, Place, Ratio)
  BY <1>1 DEF Tiled
<1>3. HeadQueries(rows, h) = Unrolled(d, Tiles(rows, QTile))
  BY DEF HeadQueries, For
<1> HIDE DEF d
<1>4. Unrolled(d, Tiles(rows, QTile)) \in Seq(Place) /\ Len(Unrolled(d, Tiles(rows, QTile))) = rows * Ratio
  BY <1>2, Sizes, UnrolledTiles
<1>5. QED
  BY <1>3, <1>4

LEMMA QueryOrderFacts ==
  ASSUME NEW rows \in Nat \ {0}
  PROVE  QueryOrder(rows) \in Seq(Place) /\ Len(QueryOrder(rows)) = HKv * (rows * Ratio)
<1> DEFINE b == [h \in 0 .. HKv - 1 |-> HeadQueries(rows, h)]
           z == rows * Ratio
<1>1. z \in Nat
  BY Sizes
<1>2. AllOfSize(b, HKv, Place, z)
  BY Sizes, HeadQueriesFacts DEF AllOfSize
<1>3. QueryOrder(rows) = Unrolled(b, HKv)
  BY DEF QueryOrder, For
<1> HIDE DEF b, z
<1>4. Unrolled(b, HKv) \in Seq(Place) /\ Len(Unrolled(b, HKv)) = HKv * z
  BY <1>1, <1>2, Sizes, UnrolledLen
<1>5. QED
  BY <1>3, <1>4 DEF z

LEMMA QueryOrderOfOne == QueryOrder(1) = Row(0, HQ)
<1>0. HKv \in Nat /\ Ratio \in Nat \ {0} /\ QTile \in Nat \ {0} /\ HQ \in Nat /\ HQ = HKv * Ratio
  BY Sizes DEF HQ
<1>1. Tiles(1, QTile) = 1 /\ TileLen(1, QTile, 0) = 1 /\ QueryCount(1, 0) = Ratio
  BY <1>0, OneTile DEF QueryCount
<1> DEFINE b == [h \in 0 .. HKv - 1 |-> HeadQueries(1, h)]
           e == [k \in 0 .. HQ - 1 |-> <<0, k>>]
<1>2. ASSUME NEW h \in 0 .. HKv - 1
      PROVE  /\ HeadQueries(1, h) \in Seq(Place) /\ Len(HeadQueries(1, h)) = Ratio
             /\ \A k \in 1 .. Ratio : HeadQueries(1, h)[k] = <<0, h * Ratio + k - 1>>
  <2> DEFINE x == [q \in 0 .. Ratio - 1 |-> <<0, h * Ratio + q>>]
             d == [q \in 0 .. Ratio - 1 |-> <<Query(h, 0, q)>>]
             c == [qt \in 0 .. 1 - 1 |-> QueriesOf(1, h, qt)]
  <2>1. ASSUME NEW q \in 0 .. Ratio - 1
        PROVE  Query(h, 0, q) = <<0, h * Ratio + q>> /\ <<0, h * Ratio + q>> \in Place
    <3>1. q \div Ratio = 0 /\ q % Ratio = q
      BY <1>0
    <3>2. 0 * QTile = 0 /\ h \in Nat
      BY <1>0
    <3>3. h * Ratio \in Nat
      BY <1>0, <3>2, Products
    <3>4. QED
      BY <3>1, <3>2, <3>3 DEF Query, Place
  <2>2. Units(d, Ratio, Place, x)
    BY <2>1 DEF Units
  <2>3. QueriesOf(1, h, 0) = Unrolled(d, Ratio)
    BY <1>1 DEF QueriesOf, For
  <2>4. c[0] = QueriesOf(1, h, 0) /\ HeadQueries(1, h) = Unrolled(c, 1)
    BY <1>1 DEF HeadQueries, For
  <2>5. \A k \in 1 .. Ratio : x[k - 1] = <<0, h * Ratio + k - 1>>
    <3> TAKE k \in 1 .. Ratio
    <3>1. k - 1 \in 0 .. Ratio - 1 /\ h * Ratio \in Int
      BY <1>0
    <3>2. x[k - 1] = <<0, h * Ratio + (k - 1)>>
      BY <3>1
    <3>3. h * Ratio + (k - 1) = h * Ratio + k - 1
      BY <3>1
    <3>4. QED
      BY <3>2, <3>3
  <2> HIDE DEF d, c, x
  <2>6. /\ Unrolled(d, Ratio) \in Seq(Place) /\ Len(Unrolled(d, Ratio)) = Ratio
        /\ \A k \in 1 .. Ratio : Unrolled(d, Ratio)[k] = x[k - 1]
    BY <1>0, <2>2, UnrolledUnits
  <2>7. Unrolled(c, 1) = c[0]
    BY <2>3, <2>4, <2>6, UnrolledOnce
  <2>8. QED
    BY <2>3, <2>4, <2>5, <2>6, <2>7
<1>3. AllOfSize(b, HKv, Place, Ratio)
  BY <1>2 DEF AllOfSize
<1>4. CountsOn(b, HKv, Ratio, e)
  <2> SUFFICES ASSUME NEW h \in 0 .. HKv - 1, NEW k \in 1 .. Ratio
               PROVE  b[h][k] = e[h * Ratio + k - 1]
    BY DEF CountsOn
  <2> DEFINE i == h * Ratio
  <2>1. i \in Nat /\ i + Ratio <= HQ
    <3>1. h \in Nat /\ h < HKv
      BY <1>0
    <3>2. QED
      BY <1>0, <3>1, Products
  <2>2. b[h][k] = <<0, i + k - 1>>
    BY <1>2
  <2> HIDE DEF i
  <2>3. i + k - 1 \in 0 .. HQ - 1
    BY <1>0, <2>1
  <2>4. e[i + k - 1] = <<0, i + k - 1>>
    BY <2>3
  <2>5. QED
    BY <2>2, <2>4 DEF i
<1>5. QueryOrder(1) = Unrolled(b, HKv)
  BY DEF QueryOrder, For
<1> HIDE DEF b
<1>6. /\ Unrolled(b, HKv) \in Seq(Place) /\ Len(Unrolled(b, HKv)) = HQ
      /\ \A k \in 1 .. HQ : Unrolled(b, HKv)[k] = e[k - 1]
  <2> HIDE DEF e
  <2>1. Listed(Unrolled(b, HKv), HKv * Ratio, Place, e)
    BY <1>0, <1>3, <1>4, UnrolledBlocks
  <2>2. QED
    BY <1>0, <2>1 DEF Listed
<1>7. \A k \in 1 .. HQ : Unrolled(b, HKv)[k] = <<0, k - 1>>
  <2> TAKE k \in 1 .. HQ
  <2>1. Unrolled(b, HKv)[k] = e[k - 1]
    BY <1>6
  <2>2. k - 1 \in 0 .. HQ - 1
    BY <1>0
  <2>3. e[k - 1] = <<0, k - 1>>
    BY <2>2
  <2>4. QED
    BY <2>1, <2>3
<1>8. /\ Row(0, HQ) \in Seq(Place) /\ Len(Row(0, HQ)) = HQ
      /\ \A k \in 1 .. HQ : Row(0, HQ)[k] = <<0, k - 1>>
  BY <1>0, 0 \in Nat, RowFacts
<1>9. Unrolled(b, HKv) = Row(0, HQ)
  BY <1>6, <1>7, <1>8, SeqEqual
<1>10. QED
  BY <1>5, <1>9

-----------------------------------------------------------------------------
(* What is wanted from a stream is what is written to it: as much of it,      *)
(* and in the same order for one row or off the streams of ColumnMajor.       *)
LEMMA SameOrder ==
  ASSUME NEW rows \in Nat \ {0}, NEW s \in Streams, rows = 1 \/ s \notin ColumnMajor
  PROVE  Written(rows, s) = Wanted(rows, s)
<1>0. /\ HQ \in Nat /\ NQkv \in Nat /\ HKv \in Nat /\ 2 * Ffn \in Nat /\ Ffn \in Nat /\ Vocab \in Nat
  BY Sizes
<1>1. RowMajor(1, HQ) = Row(0, HQ) /\ ProductOrder(1, Vocab) = Row(0, Vocab)
  BY <1>0, RowMajorOfOne, ProductOfOne
<1>2. CASE s \in ColumnMajor
  <2>1. rows = 1
    BY <1>2
  <2>2. /\ ProductOrder(1, NQkv) = RowMajor(1, NQkv)
        /\ ProductOrder(1, HQ) = RowMajor(1, HQ)
        /\ ProductOrder(1, 2 * Ffn) = RowMajor(1, 2 * Ffn)
        /\ HeadMajor(1) = RowMajor(1, HKv)
        /\ QueryOrder(1) = RowMajor(1, HQ)
    BY <1>0, RowMajorOfOne, ProductOfOne, HeadMajorOfOne, QueryOrderOfOne
  <2>3. QED
    BY <1>2, <2>1, <2>2, WrittenValues, WantedValues DEF ColumnMajor
<1>3. CASE s \notin ColumnMajor
  BY <1>1, <1>3, WrittenValues, WantedValues DEF ColumnMajor, Streams
<1>4. QED
  BY <1>2, <1>3

LEMMA SameLength ==
  ASSUME NEW rows \in Nat \ {0}, NEW s \in Streams
  PROVE  Len(Written(rows, s)) = Len(Wanted(rows, s))
<1>0. /\ HQ \in Nat /\ NQkv \in Nat /\ HKv \in Nat /\ 2 * Ffn \in Nat /\ Ratio \in Nat /\ HQ = HKv * Ratio
  BY Sizes DEF HQ
<1>1. CASE s \in ColumnMajor
  <2>1. /\ Len(ProductOrder(rows, NQkv)) = NQkv * rows
        /\ Len(ProductOrder(rows, HQ)) = HQ * rows
        /\ Len(ProductOrder(rows, 2 * Ffn)) = 2 * Ffn * rows
    BY <1>0, ProductFacts
  <2>2. /\ Len(RowMajor(rows, NQkv)) = rows * NQkv
        /\ Len(RowMajor(rows, HQ)) = rows * HQ
        /\ Len(RowMajor(rows, HKv)) = rows * HKv
        /\ Len(RowMajor(rows, 2 * Ffn)) = rows * (2 * Ffn)
    BY <1>0, RowMajorFacts
  <2>3. Len(HeadMajor(rows)) = HKv * rows /\ Len(QueryOrder(rows)) = HKv * (rows * Ratio)
    BY HeadMajorFacts, QueryOrderFacts
  <2>4. /\ rows * NQkv = NQkv * rows /\ rows * HQ = HQ * rows /\ rows * (2 * Ffn) = 2 * Ffn * rows
        /\ rows * HKv = HKv * rows
    BY <1>0
  <2>5. HKv * (rows * Ratio) = rows * HQ
    BY <1>0
  <2>6. QED
    BY <1>1, <2>1, <2>2, <2>3, <2>4, <2>5, WrittenValues, WantedValues DEF ColumnMajor
<1>2. CASE s \notin ColumnMajor
  BY <1>2, SameOrder
<1>3. QED
  BY <1>1, <1>2

-----------------------------------------------------------------------------
(* The state of a launch.                                                     *)

WroteTo(s)  == Trace(Program[Writer(s)], "write", s, at[Writer(s)])
TookFrom(s) == Trace(Program[Reader(s)], "read", s, at[Reader(s)])

(* A stream holds what has been written to it and not read from it yet, in    *)
(* the order it was written.                                                  *)
Carries(s) ==
  /\ Len(WroteTo(s)) = Len(TookFrom(s)) + Len(fifo[s])
  /\ \A k \in 1 .. Len(fifo[s]) : fifo[s][k] = WroteTo(s)[Len(TookFrom(s)) + k]

Shape ==
  /\ launch \in Launches
  /\ at \in [Functions -> Nat]
  /\ fifo \in [Streams -> Seq(Place)]

Inv ==
  /\ Shape
  /\ TypeOK
  /\ \A s \in Streams : Carries(s)

(* The program of a function touches only the streams it is an end of.        *)
LEMMA ProgramFacts ==
  ASSUME Shape
  PROVE  /\ launch.rows \in Nat \ {0} /\ launch.fifoAttn \in Nat \ {0} /\ launch.fifoSc \in Nat \ {0}
         /\ \A f \in Functions :
              /\ Program[f] = ProgramOf(launch.rows)[f]
              /\ Program[f] \in Seq(Op)
              /\ Sole(Program[f], f, launch.rows)
<1>1. launch.rows \in Nat \ {0} /\ launch.fifoAttn \in Nat \ {0} /\ launch.fifoSc \in Nat \ {0}
  BY DataflowAssumption DEF Shape
<1>2. Program = ProgramOf(launch.rows)
  BY DEF Program, Programs, Shape
<1>3. QED
  BY <1>1, <1>2, ProgramsSole DEF Sole

(* The depth of a stream, and the next operation of a function.               *)
LEMMA DepthFacts ==
  ASSUME Shape, NEW s \in Streams
  PROVE  Depth(s) \in Nat \ {0}
BY ProgramFacts, Sizes DEF Depth

LEMMA OpFacts ==
  ASSUME Shape, NEW f \in Functions, at[f] \in 0 .. Len(Program[f]), ~Finished(f)
  PROVE  /\ NextIo(f) \in Op
         /\ at[f] \in Nat /\ at[f] + 1 \in 0 .. Len(Program[f])
         /\ NextIo(f).io \in {"read", "write"} /\ NextIo(f).stream \in Streams /\ NextIo(f).el \in Place
<1>1. Program[f] \in Seq(Op)
  BY ProgramFacts
<1>2. at[f] + 1 \in 1 .. Len(Program[f])
  BY <1>1 DEF Finished
<1>3. NextIo(f) \in Op
  BY <1>1, <1>2 DEF NextIo
<1>4. QED
  BY <1>2, <1>3 DEF Op

(* Nothing is traced on a stream by a function that is not its end.           *)
LEMMA TraceWithin ==
  ASSUME NEW p \in Seq(Op), NEW io, NEW s, NEW i \in 0 .. Len(p)
  PROVE  /\ Trace(p, io, s, i) \in Seq(Place)
         /\ Len(Trace(p, io, s, i)) <= Len(Elements(p, io, s))
         /\ \A k \in 1 .. Len(Trace(p, io, s, i)) : Elements(p, io, s)[k] = Trace(p, io, s, i)[k]
         /\ Elements(p, io, s) \in Seq(Place)
<1>1. Len(p) \in i .. Len(p)
  OBVIOUS
<1>2. QED
  BY <1>1, TraceGrows, TraceType, ElementsType DEF Elements

(* A function does its next operation on a stream it is the end of.           *)
LEMMA OnlyEnds ==
  ASSUME Shape, NEW f \in Functions, at[f] \in 0 .. Len(Program[f]), ~Finished(f)
  PROVE  f = IF NextIo(f).io = "read" THEN Reader(NextIo(f).stream) ELSE Writer(NextIo(f).stream)
<1> DEFINE p == Program[f]
           i == at[f]
           op == p[i + 1]
           s == op.stream
           io == op.io
<1>1. /\ p \in Seq(Op) /\ Sole(p, f, launch.rows)
      /\ i \in Nat /\ i \in 0 .. Len(p) /\ i + 1 \in 0 .. Len(p)
      /\ op \in Op /\ io \in {"read", "write"} /\ s \in Streams /\ op.el \in Place
  BY ProgramFacts, OpFacts DEF NextIo
<1>2. NextIo(f) = op
  BY DEF NextIo
<1> HIDE DEF p, i
<1>3. Trace(p, io, s, i + 1) = Trace(p, io, s, i) \o <<op.el>>
  BY <1>1, TraceStep DEF Picked
<1>4. Trace(p, io, s, i) \in Seq(Place)
  BY <1>1, TraceType
<1>5. Len(Trace(p, io, s, i + 1)) = Len(Trace(p, io, s, i)) + 1
  BY <1>1, <1>3, <1>4
<1>6. Len(Trace(p, io, s, i + 1)) <= Len(Elements(p, io, s))
  BY <1>1, TraceWithin
<1>7. Elements(p, io, s) # <<>>
  BY <1>4, <1>5, <1>6
<1> HIDE DEF op, s, io
<1>8. CASE io = "read"
  BY <1>1, <1>2, <1>7, <1>8 DEF Sole, io, s
<1>9. CASE io = "write"
  BY <1>1, <1>2, <1>7, <1>9 DEF Sole, io, s
<1>10. QED
  BY <1>1, <1>8, <1>9

-----------------------------------------------------------------------------
(* Inv holds at first and every step keeps it.                                *)
LEMMA InvInit ==
  ASSUME Init
  PROVE  Inv
<1>1. Shape
  BY EmptySeq DEF Init, Shape
<1>2. ASSUME NEW f \in Functions PROVE at[f] = 0 /\ Program[f] \in Seq(Op)
  BY <1>1, ProgramFacts DEF Init
<1>3. TypeOK
  <2>1. \A f \in Functions : at[f] \in 0 .. Len(Program[f])
    BY <1>2
  <2>2. ASSUME NEW s \in Streams PROVE Len(fifo[s]) <= Depth(s)
    <3>1. Len(fifo[s]) = 0
      BY DEF Init
    <3>2. QED
      BY <1>1, <3>1, DepthFacts
  <2>3. QED
    BY <2>1, <2>2 DEF TypeOK
<1>4. ASSUME NEW s \in Streams PROVE Carries(s)
  <2>1. fifo[s] = <<>>
    BY DEF Init
  <2>2. at[Writer(s)] = 0 /\ at[Reader(s)] = 0
    BY <1>2, EndsTyped
  <2>3. WroteTo(s) = <<>> /\ TookFrom(s) = <<>>
    BY <2>2, TraceStart DEF WroteTo, TookFrom
  <2>4. QED
    BY <2>1, <2>3, EmptySeq DEF Carries
<1>5. QED
  BY <1>1, <1>3, <1>4 DEF Inv

(* What one operation adds to the traces of the streams.                      *)
LEMMA StepTraces ==
  ASSUME Inv, NEW f \in Functions, ~Finished(f), UNCHANGED launch,
         at' = [at EXCEPT ![f] = @ + 1]
  PROVE  /\ Program' = Program
         /\ \A s \in Streams : WroteTo(s)' =
              IF NextIo(f).io = "write" /\ s = NextIo(f).stream THEN WroteTo(s) \o <<NextIo(f).el>> ELSE WroteTo(s)
         /\ \A s \in Streams : TookFrom(s)' =
              IF NextIo(f).io = "read" /\ s = NextIo(f).stream THEN TookFrom(s) \o <<NextIo(f).el>> ELSE TookFrom(s)
<1>1. Program' = Program
  BY DEF Program, Programs
<1>2. /\ at[f] \in 0 .. Len(Program[f]) /\ at[f] \in Nat /\ at'[f] = at[f] + 1
      /\ NextIo(f) \in Op /\ NextIo(f).io \in {"read", "write"} /\ NextIo(f).stream \in Streams
  BY OpFacts DEF Inv, TypeOK, Shape
<1>3. \A g \in Functions : g # f => at'[g] = at[g]
  BY DEF Inv, Shape
<1>4. f = IF NextIo(f).io = "read" THEN Reader(NextIo(f).stream) ELSE Writer(NextIo(f).stream)
  BY <1>2, OnlyEnds DEF Inv
<1>5. \A g \in Functions : Program[g] \in Seq(Op) /\ at[g] \in 0 .. Len(Program[g])
  BY ProgramFacts DEF Inv, TypeOK
<1>6. ASSUME NEW io, NEW s PROVE Trace(Program[f], io, s, at[f] + 1) =
        Trace(Program[f], io, s, at[f]) \o (IF NextIo(f).io = io /\ NextIo(f).stream = s THEN <<NextIo(f).el>> ELSE <<>>)
  <2>1. at[f] \in Nat
    BY <1>2
  <2>2. Trace(Program[f], io, s, at[f] + 1) = Trace(Program[f], io, s, at[f]) \o Picked(Program[f][at[f] + 1], io, s)
    BY ONLY <2>1, TraceStep
  <2>3. QED
    BY <2>2 DEF NextIo, Picked
<1>7. ASSUME NEW s \in Streams
      PROVE  WroteTo(s)' = IF NextIo(f).io = "write" /\ s = NextIo(f).stream THEN WroteTo(s) \o <<NextIo(f).el>> ELSE WroteTo(s)
  <2>0. Writer(s) \in Functions /\ WroteTo(s)' = Trace(Program[Writer(s)], "write", s, at'[Writer(s)])
    BY <1>1, EndsTyped DEF WroteTo
  <2>1. CASE Writer(s) # f
    <3>1. ~(NextIo(f).io = "write" /\ s = NextIo(f).stream)
      BY <2>1, <1>4
    <3>2. QED
      BY <2>0, <2>1, <3>1, <1>3 DEF WroteTo
  <2>2. CASE Writer(s) = f
    <3> DEFINE w == Trace(Program[f], "write", s, at[f])
    <3>1. w \in Seq(Place) /\ WroteTo(s) = w
      BY <1>5, <2>2, TraceType DEF WroteTo
    <3>2. WroteTo(s)' = w \o (IF NextIo(f).io = "write" /\ NextIo(f).stream = s THEN <<NextIo(f).el>> ELSE <<>>)
      BY <1>2, <1>6, <2>0, <2>2
    <3> HIDE DEF w
    <3>3. w \o <<>> = w
      BY <3>1, ConcatEmptySeq
    <3>4. QED
      BY <3>1, <3>2, <3>3
  <2>3. QED
    BY <2>1, <2>2
<1>8. ASSUME NEW s \in Streams
      PROVE  TookFrom(s)' = IF NextIo(f).io = "read" /\ s = NextIo(f).stream THEN TookFrom(s) \o <<NextIo(f).el>> ELSE TookFrom(s)
  <2>0. Reader(s) \in Functions /\ TookFrom(s)' = Trace(Program[Reader(s)], "read", s, at'[Reader(s)])
    BY <1>1, EndsTyped DEF TookFrom
  <2>1. CASE Reader(s) # f
    <3>1. ~(NextIo(f).io = "read" /\ s = NextIo(f).stream)
      BY <2>1, <1>4
    <3>2. QED
      BY <2>0, <2>1, <3>1, <1>3 DEF TookFrom
  <2>2. CASE Reader(s) = f
    <3> DEFINE w == Trace(Program[f], "read", s, at[f])
    <3>1. w \in Seq(Place) /\ TookFrom(s) = w
      BY <1>5, <2>2, TraceType DEF TookFrom
    <3>2. TookFrom(s)' = w \o (IF NextIo(f).io = "read" /\ NextIo(f).stream = s THEN <<NextIo(f).el>> ELSE <<>>)
      BY <1>2, <1>6, <2>0, <2>2
    <3> HIDE DEF w
    <3>3. w \o <<>> = w
      BY <3>1, ConcatEmptySeq
    <3>4. QED
      BY <3>1, <3>2, <3>3
  <2>3. QED
    BY <2>1, <2>2
<1>9. QED
  BY <1>1, <1>7, <1>8

(* The four ways the elements of a stream, of what it carried and of what was *)
(* taken from it can change.                                                  *)
Held(w, r, q) == Len(w) = Len(r) + Len(q) /\ \A k \in 1 .. Len(q) : q[k] = w[Len(r) + k]

LEMMA HeldWrite ==
  ASSUME NEW w \in Seq(Place), NEW r \in Seq(Place), NEW q \in Seq(Place), NEW el \in Place, Held(w, r, q)
  PROVE  Held(w \o <<el>>, r, Append(q, el)) /\ Append(q, el) \in Seq(Place) /\ Len(Append(q, el)) = Len(q) + 1
<1>1. /\ Len(w) = Len(r) + Len(q) /\ \A k \in 1 .. Len(q) : q[k] = w[Len(r) + k]
      /\ Len(w) \in Nat /\ Len(r) \in Nat /\ Len(q) \in Nat
  BY DEF Held
<1> DEFINE v == w \o <<el>>
           u == Append(q, el)
<1>2. Len(v) = Len(w) + 1 /\ v[Len(w) + 1] = el /\ \A k \in 1 .. Len(w) : v[k] = w[k]
  OBVIOUS
<1>3. u \in Seq(Place) /\ Len(u) = Len(q) + 1 /\ u[Len(q) + 1] = el /\ \A k \in 1 .. Len(q) : u[k] = q[k]
  OBVIOUS
<1> HIDE DEF v, u
<1>4. ASSUME NEW k \in 1 .. Len(u) PROVE u[k] = v[Len(r) + k]
  <2>1. CASE k = Len(q) + 1
    <3>1. Len(r) + k = Len(w) + 1
      BY <1>1, <2>1
    <3>2. QED
      BY <2>1, <3>1, <1>2, <1>3
  <2>2. CASE k # Len(q) + 1
    <3>1. k \in 1 .. Len(q) /\ Len(r) + k \in 1 .. Len(w)
      BY <1>1, <1>3, <2>2
    <3>2. QED
      BY <3>1, <1>1, <1>2, <1>3
  <2>3. QED
    BY <2>1, <2>2
<1>5. Len(v) = Len(r) + Len(u)
  BY <1>1, <1>2, <1>3
<1>6. QED
  BY <1>3, <1>4, <1>5 DEF Held, u, v

LEMMA HeldRead ==
  ASSUME NEW w \in Seq(Place), NEW r \in Seq(Place), NEW q \in Seq(Place), NEW el, Held(w, r, q), q # <<>>
  PROVE  Held(w, r \o <<el>>, Tail(q)) /\ Tail(q) \in Seq(Place) /\ Len(Tail(q)) = Len(q) - 1
<1>1. /\ Len(w) = Len(r) + Len(q) /\ \A k \in 1 .. Len(q) : q[k] = w[Len(r) + k]
      /\ Len(w) \in Nat /\ Len(r) \in Nat /\ Len(q) \in Nat /\ Len(q) # 0
  BY EmptySeq DEF Held
<1> DEFINE v == r \o <<el>>
           u == Tail(q)
<1>2. Len(v) = Len(r) + 1
  OBVIOUS
<1>3. u \in Seq(Place) /\ Len(u) = Len(q) - 1 /\ \A k \in 1 .. Len(q) - 1 : u[k] = q[k + 1]
  BY HeadTailProperties
<1> HIDE DEF v, u
<1>4. ASSUME NEW k \in 1 .. Len(u) PROVE u[k] = w[Len(v) + k]
  <2>1. k + 1 \in 1 .. Len(q) /\ k \in 1 .. Len(q) - 1 /\ Len(r) + (k + 1) = Len(v) + k
    BY <1>1, <1>2, <1>3
  <2>2. q[k + 1] = w[Len(r) + (k + 1)]
    BY <2>1, <1>1
  <2>3. QED
    BY <2>1, <2>2, <1>3
<1>5. Len(w) = Len(v) + Len(u)
  BY <1>1, <1>2, <1>3
<1>6. QED
  BY <1>3, <1>4, <1>5 DEF Held, u, v

(* Carries in the terms of Held.                                              *)
LEMMA TracesTyped ==
  ASSUME Inv, NEW s \in Streams
  PROVE  /\ WroteTo(s) \in Seq(Place) /\ TookFrom(s) \in Seq(Place) /\ fifo[s] \in Seq(Place)
         /\ Held(WroteTo(s), TookFrom(s), fifo[s])
<1>1. Writer(s) \in Functions /\ Reader(s) \in Functions
  BY EndsTyped
<1>2. \A g \in Functions : Program[g] \in Seq(Op) /\ at[g] \in 0 .. Len(Program[g])
  BY ProgramFacts DEF Inv, TypeOK
<1>3. WroteTo(s) \in Seq(Place) /\ TookFrom(s) \in Seq(Place)
  BY <1>1, <1>2, TraceType DEF WroteTo, TookFrom
<1>4. QED
  BY <1>3 DEF Inv, Shape, Carries, Held

(* A read, then a write.                                                      *)
LEMMA ReadKeeps ==
  ASSUME Inv, NEW f \in Functions, Read(f)
  PROVE  Inv'
<1> DEFINE op == NextIo(f)
           x == op.stream
<1>1. /\ ~Finished(f) /\ op.io = "read" /\ fifo[x] # <<>> /\ UNCHANGED launch
      /\ fifo' = [fifo EXCEPT ![x] = Tail(@)] /\ at' = [at EXCEPT ![f] = @ + 1]
  BY DEF Read
<1>2. Shape /\ TypeOK
  BY DEF Inv
<1>3. /\ at[f] \in 0 .. Len(Program[f]) /\ at[f] + 1 \in 0 .. Len(Program[f]) /\ op \in Op /\ x \in Streams
  BY <1>1, <1>2, OpFacts DEF TypeOK
<1>4. /\ Program' = Program
      /\ \A s \in Streams : WroteTo(s)' = WroteTo(s)
      /\ \A s \in Streams : TookFrom(s)' = IF s = x THEN TookFrom(s) \o <<op.el>> ELSE TookFrom(s)
  BY <1>1, StepTraces
<1>5. /\ Held(WroteTo(x), TookFrom(x) \o <<op.el>>, Tail(fifo[x]))
      /\ Tail(fifo[x]) \in Seq(Place) /\ Len(Tail(fifo[x])) = Len(fifo[x]) - 1
  BY <1>1, <1>3, TracesTyped, HeldRead
<1> HIDE DEF op, x
<1>6. /\ fifo'[x] = Tail(fifo[x]) /\ \A s \in Streams : s # x => fifo'[s] = fifo[s]
      /\ fifo' \in [Streams -> Seq(Place)]
  BY <1>1, <1>2, <1>3, <1>5 DEF Shape
<1>7. at' \in [Functions -> Nat] /\ at'[f] = at[f] + 1 /\ \A g \in Functions : g # f => at'[g] = at[g]
  BY <1>1, <1>2 DEF Shape
<1>8. Shape'
  BY <1>1, <1>2, <1>6, <1>7 DEF Shape
<1>9. TypeOK'
  <2>1. ASSUME NEW g \in Functions PROVE at'[g] \in 0 .. Len(Program'[g])
    BY <1>2, <1>3, <1>4, <1>7 DEF TypeOK
  <2>2. ASSUME NEW s \in Streams PROVE Len(fifo'[s]) <= Depth(s)'
    <3>1. Depth(s)' = Depth(s) /\ Depth(s) \in Nat
      BY <1>1, <1>2, DepthFacts DEF Depth
    <3>2. Len(fifo[s]) <= Depth(s) /\ Len(fifo[s]) \in Nat
      BY <1>2 DEF TypeOK, Shape
    <3>3. Len(fifo'[s]) = Len(fifo[s]) \/ Len(fifo'[s]) = Len(fifo[s]) - 1
      BY <1>5, <1>6
    <3>4. QED
      BY <3>1, <3>2, <3>3
  <2>3. QED
    BY <2>1, <2>2 DEF TypeOK
<1>10. ASSUME NEW s \in Streams PROVE Carries(s)'
  <2>1. Held(WroteTo(s)', TookFrom(s)', fifo'[s])
    <3>1. CASE s = x
      BY <3>1, <1>4, <1>5, <1>6
    <3>2. CASE s # x
      BY <3>2, <1>4, <1>6, TracesTyped
    <3>3. QED
      BY <3>1, <3>2
  <2>2. QED
    BY <2>1 DEF Held, Carries
<1>11. QED
  BY <1>8, <1>9, <1>10 DEF Inv

LEMMA WriteKeeps ==
  ASSUME Inv, NEW f \in Functions, Write(f)
  PROVE  Inv'
<1> DEFINE op == NextIo(f)
           x == op.stream
<1>1. /\ ~Finished(f) /\ op.io = "write" /\ Len(fifo[x]) < Depth(x) /\ UNCHANGED launch
      /\ fifo' = [fifo EXCEPT ![x] = Append(@, op.el)] /\ at' = [at EXCEPT ![f] = @ + 1]
  BY DEF Write
<1>2. Shape /\ TypeOK
  BY DEF Inv
<1>3. /\ at[f] \in 0 .. Len(Program[f]) /\ at[f] + 1 \in 0 .. Len(Program[f])
      /\ op \in Op /\ x \in Streams /\ op.el \in Place
  BY <1>1, <1>2, OpFacts DEF TypeOK
<1>4. /\ Program' = Program
      /\ \A s \in Streams : WroteTo(s)' = IF s = x THEN WroteTo(s) \o <<op.el>> ELSE WroteTo(s)
      /\ \A s \in Streams : TookFrom(s)' = TookFrom(s)
  BY <1>1, StepTraces
<1>5. /\ Held(WroteTo(x) \o <<op.el>>, TookFrom(x), Append(fifo[x], op.el))
      /\ Append(fifo[x], op.el) \in Seq(Place) /\ Len(Append(fifo[x], op.el)) = Len(fifo[x]) + 1
  BY <1>1, <1>3, TracesTyped, HeldWrite
<1> HIDE DEF op, x
<1>6. /\ fifo'[x] = Append(fifo[x], op.el) /\ \A s \in Streams : s # x => fifo'[s] = fifo[s]
      /\ fifo' \in [Streams -> Seq(Place)]
  BY <1>1, <1>2, <1>3, <1>5 DEF Shape
<1>7. at' \in [Functions -> Nat] /\ at'[f] = at[f] + 1 /\ \A g \in Functions : g # f => at'[g] = at[g]
  BY <1>1, <1>2 DEF Shape
<1>8. Shape'
  BY <1>1, <1>2, <1>6, <1>7 DEF Shape
<1>9. TypeOK'
  <2>1. ASSUME NEW g \in Functions PROVE at'[g] \in 0 .. Len(Program'[g])
    BY <1>2, <1>3, <1>4, <1>7 DEF TypeOK
  <2>2. ASSUME NEW s \in Streams PROVE Len(fifo'[s]) <= Depth(s)'
    <3>1. Depth(s)' = Depth(s) /\ Depth(s) \in Nat
      BY <1>1, <1>2, DepthFacts DEF Depth
    <3>2. Len(fifo[s]) <= Depth(s) /\ Len(fifo[s]) \in Nat
      BY <1>2 DEF TypeOK, Shape
    <3>3. CASE s = x
      BY <3>1, <3>2, <3>3, <1>1, <1>5, <1>6
    <3>4. CASE s # x
      BY <3>1, <3>2, <3>4, <1>6
    <3>5. QED
      BY <3>3, <3>4
  <2>3. QED
    BY <2>1, <2>2 DEF TypeOK
<1>10. ASSUME NEW s \in Streams PROVE Carries(s)'
  <2>1. Held(WroteTo(s)', TookFrom(s)', fifo'[s])
    <3>1. CASE s = x
      BY <3>1, <1>4, <1>5, <1>6
    <3>2. CASE s # x
      BY <3>2, <1>4, <1>6, TracesTyped
    <3>3. QED
      BY <3>1, <3>2
  <2>2. QED
    BY <2>1 DEF Held, Carries
<1>11. QED
  BY <1>8, <1>9, <1>10 DEF Inv

(* Every stream holds, in order, the elements its one writer has written      *)
(* and its one reader has not taken (Carries), beside the types: the          *)
(* inductive invariant of the region.                                         *)
THEOREM Invariant == Spec => []Inv
<1>1. Init => Inv
  BY InvInit
<1>2. Inv /\ [Next]_vars => Inv'
  <2> SUFFICES ASSUME Inv, [Next]_vars PROVE Inv'
    OBVIOUS
  <2>1. CASE UNCHANGED vars
    <3>1. launch' = launch /\ at' = at /\ fifo' = fifo
      BY <2>1 DEF vars
    <3>2. QED
      BY <3>1 DEF Inv, Shape, TypeOK, Carries, WroteTo, TookFrom, Program, Programs, Depth
  <2>2. CASE Next
    BY <2>2, ReadKeeps, WriteKeeps DEF Next
  <2>3. QED
    BY <2>1, <2>2
<1>3. QED
  BY <1>1, <1>2, PTL DEF Spec

-----------------------------------------------------------------------------
(* No function runs past the end of its loops and no FIFO ever holds more     *)
(* than its depth (hls::stream with a pragma STREAM depth).                   *)
THEOREM TypeCorrect == Spec => []TypeOK
<1>1. Inv => TypeOK
  BY DEF Inv
<1>2. QED
  BY <1>1, Invariant, PTL

(* What a function does on a stream in a whole launch.                        *)
LEMMA WholeTraces ==
  ASSUME Inv, NEW s \in Streams
  PROVE  /\ Elements(Program[Writer(s)], "write", s) = Written(launch.rows, s)
         /\ Elements(Program[Reader(s)], "read", s) = Wanted(launch.rows, s)
<1>1. Writer(s) \in Functions /\ Reader(s) \in Functions
  BY EndsTyped
<1>2. Sole(Program[Writer(s)], Writer(s), launch.rows) /\ Sole(Program[Reader(s)], Reader(s), launch.rows)
  BY <1>1, ProgramFacts DEF Inv
<1>3. QED
  BY <1>2 DEF Sole

(* When all functions have finished, as much was taken from a stream as was   *)
(* written to it.                                                             *)
LEMMA NothingLeftHolds ==
  ASSUME Inv
  PROVE  NothingLeft
<1> SUFFICES ASSUME AllFinished, NEW s \in Streams PROVE fifo[s] = <<>>
  BY DEF NothingLeft
<1>1. Writer(s) \in Functions /\ Reader(s) \in Functions
  BY EndsTyped
<1>2. at[Writer(s)] = Len(Program[Writer(s)]) /\ at[Reader(s)] = Len(Program[Reader(s)])
  BY <1>1 DEF AllFinished, Finished
<1>3. WroteTo(s) = Written(launch.rows, s) /\ TookFrom(s) = Wanted(launch.rows, s)
  BY <1>2, WholeTraces DEF WroteTo, TookFrom, Elements
<1>4. Len(WroteTo(s)) = Len(TookFrom(s))
  BY <1>3, SameLength, ProgramFacts DEF Inv
<1>5. /\ WroteTo(s) \in Seq(Place) /\ TookFrom(s) \in Seq(Place) /\ fifo[s] \in Seq(Place)
      /\ Len(WroteTo(s)) = Len(TookFrom(s)) + Len(fifo[s])
  BY TracesTyped DEF Held
<1>6. Len(fifo[s]) = 0
  BY <1>4, <1>5
<1>7. QED
  BY <1>5, <1>6, EmptySeq

(* A launch that completes leaves no element in any of the static streams     *)
(* of the kernel, for the next launch to read as its own.                     *)
THEOREM StreamsEndEmpty == Spec => []NothingLeft
<1>1. Inv => NothingLeft
  BY NothingLeftHolds
<1>2. QED
  BY <1>1, Invariant, PTL

(* The element at the head of a stream is the next one written, and if both   *)
(* ends go alike the next one wanted.                                         *)
LEMMA InOrderHolds ==
  ASSUME Inv
  PROVE  InOrder
<1> SUFFICES ASSUME NEW s \in Streams, launch.rows = 1 \/ s \notin ColumnMajor,
                    NEW f \in Functions, ~Finished(f), NextIo(f).io = "read", NextIo(f).stream = s,
                    fifo[s] # <<>>
             PROVE  Head(fifo[s]) = NextIo(f).el
  BY DEF InOrder, OrderOn
<1> DEFINE p == Program[f]
           i == at[f]
           w == WroteTo(s)
           r == TookFrom(s)
           q == fifo[s]
           all == Written(launch.rows, s)
           el == NextIo(f).el
<1>1. Shape /\ i \in 0 .. Len(p) /\ i \in Nat /\ i + 1 \in 0 .. Len(p) /\ NextIo(f) \in Op /\ el \in Place
  BY OpFacts DEF Inv, TypeOK
<1>2. f = Reader(s)
  BY <1>1, OnlyEnds
<1>3. p \in Seq(Op) /\ Program[Writer(s)] \in Seq(Op) /\ at[Writer(s)] \in 0 .. Len(Program[Writer(s)])
  BY <1>1, EndsTyped, ProgramFacts DEF Inv, TypeOK
<1>4. Elements(Program[Writer(s)], "write", s) = all /\ Elements(p, "read", s) = all
  BY <1>2, WholeTraces, SameOrder, ProgramFacts DEF Inv
<1>5. w \in Seq(Place) /\ r \in Seq(Place) /\ q \in Seq(Place) /\ Held(w, r, q)
  BY TracesTyped
<1>6. Len(w) <= Len(all) /\ \A k \in 1 .. Len(w) : all[k] = w[k]
  BY <1>3, <1>4, TraceWithin DEF WroteTo
<1>7. Trace(p, "read", s, i + 1) = r \o <<el>>
  <2>1. Trace(p, "read", s, i + 1) = Trace(p, "read", s, i) \o Picked(p[i + 1], "read", s)
    BY <1>1, TraceStep
  <2>2. Picked(p[i + 1], "read", s) = <<el>>
    BY DEF NextIo, Picked
  <2>3. QED
    BY <2>1, <2>2, <1>2 DEF TookFrom
<1>8. \A k \in 1 .. Len(r \o <<el>>) : all[k] = (r \o <<el>>)[k]
  BY <1>1, <1>3, <1>4, <1>7, TraceWithin
<1> HIDE DEF p, i, w, r, q, all, el
<1>9. Len(q) \in Nat /\ Len(q) # 0 /\ Len(r) \in Nat /\ Len(w) \in Nat
  BY <1>5, EmptySeq DEF q
<1>10. 1 \in 1 .. Len(q) /\ Len(r) + 1 \in 1 .. Len(w)
  BY <1>5, <1>9 DEF Held
<1>11. q[1] = all[Len(r) + 1]
  BY <1>5, <1>6, <1>10 DEF Held
<1>12. all[Len(r) + 1] = el
  <2>1. Len(r \o <<el>>) = Len(r) + 1 /\ (r \o <<el>>)[Len(r) + 1] = el
    BY <1>1, <1>5
  <2>2. Len(r) + 1 \in 1 .. Len(r \o <<el>>)
    BY <2>1, <1>9
  <2>3. QED
    BY <2>1, <2>2, <1>8
<1>13. Head(q) = q[1]
  BY <1>5, <1>9
<1>14. QED
  BY <1>11, <1>12, <1>13 DEF q, el

(* In a launch of one row on every stream, and in any launch on the streams   *)
(* that both ends go through row by row, a function only ever takes the       *)
(* element its loops mean: K, V and Q never change places between SPLIT and   *)
(* attention.                                                                 *)
THEOREM TakenInOrder == Spec => []InOrder
<1>1. Inv => InOrder
  BY InOrderHolds
<1>2. QED
  BY <1>1, Invariant, PTL

-----------------------------------------------------------------------------
(* Which operations of a program come before which.                           *)

(* The first m operations on s1 come before the one on s2 that follows n.     *)
Precedes(p, io1, s1, m, io2, s2, n) ==
  \A i \in 0 .. Len(p) : Len(Trace(p, io2, s2, i)) > n => Len(Trace(p, io1, s1, i)) >= m

(* A program in two parts: what the first does comes before what only the     *)
(* second does.                                                               *)
LEMMA PrecedesAt ==
  ASSUME NEW x \in Seq(Op), NEW y \in Seq(Op), NEW io1, NEW s1, NEW m \in Nat, NEW io2, NEW s2, NEW n \in Nat,
         Len(Elements(x, io1, s1)) >= m, Len(Elements(x, io2, s2)) <= n
  PROVE  Precedes(x \o y, io1, s1, m, io2, s2, n)
<1> SUFFICES ASSUME NEW i \in 0 .. Len(x \o y), Len(Trace(x \o y, io2, s2, i)) > n
             PROVE  Len(Trace(x \o y, io1, s1, i)) >= m
  BY DEF Precedes
<1>1. Len(x \o y) = Len(x) + Len(y)
  OBVIOUS
<1>2. CASE i <= Len(x)
  <2>1. i \in 0 .. Len(x)
    BY <1>2
  <2>2. Trace(x \o y, io2, s2, i) = Trace(x, io2, s2, i)
    BY <2>1, TraceFirst
  <2>3. /\ Trace(x, io2, s2, i) \in Seq(Place) /\ Elements(x, io2, s2) \in Seq(Place)
        /\ Len(Trace(x, io2, s2, i)) <= Len(Elements(x, io2, s2))
    BY <2>1, TraceWithin
  <2>4. QED
    BY <2>2, <2>3
<1>3. CASE ~(i <= Len(x))
  <2> DEFINE j == i - Len(x)
             u == Elements(x, io1, s1)
             v == Trace(y, io1, s1, j)
  <2>1. j \in 0 .. Len(y) /\ Len(x) + j = i
    BY <1>1, <1>3
  <2> HIDE DEF j
  <2>2. Trace(x \o y, io1, s1, i) = u \o v
    <3>1. \A k \in 0 .. Len(y) :
            Trace(x \o y, io1, s1, Len(x) + k) = Elements(x, io1, s1) \o Trace(y, io1, s1, k)
      BY TraceSecond
    <3>2. QED
      BY <2>1, <3>1
  <2>3. u \in Seq(Place) /\ v \in Seq(Place) /\ Len(u) >= m
    BY <2>1, ElementsType, TraceType
  <2> HIDE DEF u, v
  <2>4. Len(u \o v) = Len(u) + Len(v)
    BY <2>3
  <2>5. QED
    BY <2>2, <2>3, <2>4
<1>4. QED
  BY <1>2, <1>3

AllIn(body, n, T) == \A i \in 0 .. n - 1 : body[i] \in Seq(T)

Extends(q, u, T) == \E rest \in Seq(T) : q = u \o rest

(* The passes of a loop go on from those before.                              *)
LEMMA ExtendsOn ==
  ASSUME NEW T, NEW q, NEW u \in Seq(T), NEW v \in Seq(T), Extends(q, u, T)
  PROVE  Extends(q \o v, u, T)
<1>1. PICK rest \in Seq(T) : q = u \o rest
  BY DEF Extends
<1>2. (u \o rest) \o v = u \o (rest \o v)
  BY ConcatAssociative
<1>3. rest \o v \in Seq(T)
  BY ConcatProperties
<1>4. QED
  BY <1>1, <1>2, <1>3 DEF Extends

LEMMA UnrolledRest ==
  ASSUME NEW T, NEW n \in Nat, NEW body, AllIn(body, n, T), NEW t \in 0 .. n
  PROVE  \A m \in t .. n : Extends(Unrolled(body, m), Unrolled(body, t), T)
<1> DEFINE u == Unrolled(body, t)
           S == {d \in Nat : t + d <= n => Extends(Unrolled(body, t + d), u, T)}
<1>0. u \in Seq(T)
  <2>1. \A i \in 0 .. n - 1 : body[i] \in Seq(T)
    BY DEF AllIn
  <2>2. QED
    BY <2>1, UnrolledType
<1>1. 0 \in S
  <2>1. u = u \o <<>> /\ <<>> \in Seq(T)
    BY <1>0, ConcatEmptySeq, EmptySeq
  <2>2. Extends(u, u, T)
    BY <2>1 DEF Extends
  <2>3. t + 0 = t
    OBVIOUS
  <2>4. QED
    BY <2>2, <2>3
<1>2. ASSUME NEW d \in S PROVE d + 1 \in S
  <2> SUFFICES ASSUME t + (d + 1) <= n PROVE Extends(Unrolled(body, t + (d + 1)), u, T)
    OBVIOUS
  <2> DEFINE m == t + d
  <2>1. m \in Nat /\ m \in 0 .. n - 1 /\ t + (d + 1) = m + 1
    OBVIOUS
  <2>2. Extends(Unrolled(body, m), u, T)
    OBVIOUS
  <2> HIDE DEF m, u
  <2>3. body[m] \in Seq(T)
    BY <2>1 DEF AllIn
  <2>4. Unrolled(body, m + 1) = Unrolled(body, m) \o body[m]
    BY <2>1, UnrolledStep
  <2>5. Extends(Unrolled(body, m) \o body[m], u, T)
    BY <1>0, <2>2, <2>3, ExtendsOn
  <2>6. QED
    BY <2>1, <2>4, <2>5
<1> HIDE DEF S
<1>3. \A d \in Nat : d \in S
  BY <1>1, <1>2, Upwards DEF S
<1>4. ASSUME NEW m \in t .. n PROVE Extends(Unrolled(body, m), u, T)
  <2>1. m - t \in Nat /\ t + (m - t) = m
    OBVIOUS
  <2>2. m - t \in S
    BY <1>3, <2>1
  <2>3. QED
    BY <2>1, <2>2 DEF S
<1>5. QED
  BY <1>4

(* A pass of a loop taken out of it: what comes before, the pass, the rest.   *)
LEMMA UnrolledAt ==
  ASSUME NEW T, NEW n \in Nat, NEW body, AllIn(body, n, T), NEW t \in 0 .. n - 1
  PROVE  /\ Unrolled(body, t) \in Seq(T) /\ body[t] \in Seq(T)
         /\ Extends(Unrolled(body, n), Unrolled(body, t) \o body[t], T)
<1>1. \A i \in 0 .. n - 1 : body[i] \in Seq(T)
  BY DEF AllIn
<1>2. \A i \in 0 .. n : Unrolled(body, i) \in Seq(T)
  BY <1>1, UnrolledType
<1>3. t \in Nat /\ t \in 0 .. n /\ t + 1 \in 0 .. n /\ n \in t + 1 .. n
  OBVIOUS
<1> DEFINE v == t + 1
<1> HIDE DEF v
<1>4. \A m \in v .. n : Extends(Unrolled(body, m), Unrolled(body, v), T)
  <2>1. v \in 0 .. n
    BY <1>3 DEF v
  <2>2. QED
    BY <2>1, UnrolledRest
<1>5. Unrolled(body, t + 1) = Unrolled(body, t) \o body[t]
  BY <1>3, UnrolledStep
<1>6. QED
  BY <1>1, <1>2, <1>3, <1>4, <1>5 DEF v

(* A pass in two parts x and y: the operations before the cut come first.     *)
LEMMA PrecedesInPass ==
  ASSUME NEW n \in Nat, NEW body, AllIn(body, n, Op), NEW t \in 0 .. n - 1,
         NEW x \in Seq(Op), NEW y \in Seq(Op), body[t] = x \o y,
         NEW io1, NEW s1, NEW m \in Nat, NEW io2, NEW s2, NEW l \in Nat,
         Len(Elements(Unrolled(body, t), io1, s1)) + Len(Elements(x, io1, s1)) >= m,
         Len(Elements(Unrolled(body, t), io2, s2)) + Len(Elements(x, io2, s2)) <= l
  PROVE  Precedes(Unrolled(body, n), io1, s1, m, io2, s2, l)
<1> DEFINE u == Unrolled(body, t)
<1>1. u \in Seq(Op)
  BY UnrolledAt
<1>2. PICK rest \in Seq(Op) : Unrolled(body, n) = (u \o (x \o y)) \o rest
  <2>1. Extends(Unrolled(body, n), u \o body[t], Op)
    BY UnrolledAt
  <2>2. QED
    BY <2>1 DEF Extends
<1> HIDE DEF u
<1>3. (u \o (x \o y)) \o rest = (u \o x) \o (y \o rest)
  <2>1. (u \o x) \o y = u \o (x \o y)
    BY ONLY <1>1, x \in Seq(Op), y \in Seq(Op), ConcatAssociative
  <2>2. u \o x \in Seq(Op)
    BY <1>1, ConcatProperties
  <2> DEFINE v == u \o x
  <2> HIDE DEF v
  <2>3. v \in Seq(Op)
    BY <2>2 DEF v
  <2>4. (v \o y) \o rest = v \o (y \o rest)
    BY ONLY <2>3, y \in Seq(Op), rest \in Seq(Op), ConcatAssociative
  <2>5. QED
    BY <2>1, <2>4 DEF v
<1>4. u \o x \in Seq(Op) /\ y \o rest \in Seq(Op)
  BY ONLY <1>1, x \in Seq(Op), y \in Seq(Op), rest \in Seq(Op), ConcatProperties
<1>5. ASSUME NEW io, NEW s
      PROVE  Len(Elements(u \o x, io, s)) = Len(Elements(u, io, s)) + Len(Elements(x, io, s))
  <2>1. Elements(u \o x, io, s) = Elements(u, io, s) \o Elements(x, io, s)
    BY ONLY <1>1, x \in Seq(Op), ElementsConcat
  <2>2. Elements(u, io, s) \in Seq(Place) /\ Elements(x, io, s) \in Seq(Place)
    BY <1>1, ElementsType
  <2>3. QED
    BY <2>1, <2>2, ConcatProperties
<1>6. Len(Elements(u \o x, io1, s1)) >= m /\ Len(Elements(u \o x, io2, s2)) <= l
  BY <1>5 DEF u
<1>7. Precedes((u \o x) \o (y \o rest), io1, s1, m, io2, s2, l)
  BY <1>4, <1>6, PrecedesAt
<1>8. QED
  BY <1>2, <1>3, <1>7

-----------------------------------------------------------------------------
(* A program that follows each element it reads from one stream by one read   *)
(* from another stream, or written to it, before it reads the next.           *)
InHand(p, in, how, out, i) ==
  /\ Len(Trace(p, how, out, i)) <= Len(Trace(p, "read", in, i))
  /\ Len(Trace(p, "read", in, i)) <= Len(Trace(p, how, out, i)) + 1
HandsOn(p, in, how, out) ==
  /\ p \in Seq(Op)
  /\ \A i \in 0 .. Len(p) : InHand(p, in, how, out, i)
  /\ Len(Elements(p, "read", in)) = Len(Elements(p, how, out))

(* No operation, two programs in turn, a loop, one element.                   *)
LEMMA HandsOnNone ==
  ASSUME NEW in, NEW how, NEW out
  PROVE  HandsOn(<<>>, in, how, out)
<1>1. <<>> \in Seq(Op) /\ Len(<<>>) = 0
  BY EmptySeq
<1>2. Trace(<<>>, how, out, 0) = <<>> /\ Trace(<<>>, "read", in, 0) = <<>>
  BY TraceStart
<1>3. QED
  BY <1>1, <1>2 DEF HandsOn, InHand, Elements

LEMMA HandsOnJoin ==
  ASSUME NEW p, NEW q, NEW in, NEW how, NEW out, HandsOn(p, in, how, out), HandsOn(q, in, how, out)
  PROVE  HandsOn(p \o q, in, how, out)
<1>1. p \in Seq(Op) /\ q \in Seq(Op)
  BY DEF HandsOn
<1>2. Len(p \o q) = Len(p) + Len(q) /\ p \o q \in Seq(Op)
  BY <1>1, ConcatProperties
<1> DEFINE a(x) == Len(Elements(x, "read", in))
           b(x) == Len(Elements(x, how, out))
<1>3. ASSUME NEW io, NEW s
      PROVE  /\ Elements(p, io, s) \in Seq(Place)
             /\ \A i \in 0 .. Len(p) : Trace(p \o q, io, s, i) = Trace(p, io, s, i)
             /\ \A j \in 0 .. Len(q) : Len(Trace(p \o q, io, s, Len(p) + j)) = Len(Elements(p, io, s)) + Len(Trace(q, io, s, j))
             /\ \A j \in 0 .. Len(q) : Len(Trace(q, io, s, j)) \in Nat
  <2>1. Elements(p, io, s) \in Seq(Place)
    BY <1>1, ElementsType
  <2>2. \A i \in 0 .. Len(p) : Trace(p \o q, io, s, i) = Trace(p, io, s, i)
    BY <1>1, TraceFirst
  <2>3. ASSUME NEW j \in 0 .. Len(q)
        PROVE  /\ Len(Trace(p \o q, io, s, Len(p) + j)) = Len(Elements(p, io, s)) + Len(Trace(q, io, s, j))
               /\ Len(Trace(q, io, s, j)) \in Nat
    <3>1. Trace(p \o q, io, s, Len(p) + j) = Elements(p, io, s) \o Trace(q, io, s, j)
      BY <1>1, TraceSecond
    <3>2. Trace(q, io, s, j) \in Seq(Place)
      BY <1>1, TraceType
    <3>3. QED
      BY <2>1, <3>1, <3>2, ConcatProperties
  <2>4. QED
    BY <2>1, <2>2, <2>3
<1>4. a(p) = b(p) /\ a(p) \in Nat
  BY <1>3 DEF HandsOn
<1>5. ASSUME NEW i \in 0 .. Len(p \o q) PROVE InHand(p \o q, in, how, out, i)
  <2>1. CASE i <= Len(p)
    <3>1. i \in 0 .. Len(p)
      BY <2>1
    <3>2. InHand(p, in, how, out, i)
      BY <3>1 DEF HandsOn
    <3>3. QED
      BY <3>1, <3>2, <1>3 DEF InHand
  <2>2. CASE ~(i <= Len(p))
    <3> DEFINE j == i - Len(p)
    <3>1. j \in 0 .. Len(q) /\ i = Len(p) + j
      BY <1>1, <1>2, <2>2
    <3> HIDE DEF j
    <3>2. InHand(q, in, how, out, j)
      BY <3>1 DEF HandsOn
    <3>3. /\ Len(Trace(p \o q, "read", in, i)) = a(p) + Len(Trace(q, "read", in, j))
          /\ Len(Trace(p \o q, how, out, i)) = b(p) + Len(Trace(q, how, out, j))
          /\ Len(Trace(q, "read", in, j)) \in Nat /\ Len(Trace(q, how, out, j)) \in Nat
      BY <3>1, <1>3
    <3> HIDE DEF a, b
    <3>4. QED
      BY <3>2, <3>3, <1>4 DEF InHand
  <2>3. QED
    BY <2>1, <2>2
<1>6. a(p \o q) = b(p \o q)
  <2>1. Len(q) \in 0 .. Len(q)
    BY <1>1
  <2>2. a(p \o q) = a(p) + a(q) /\ b(p \o q) = b(p) + b(q)
    BY <2>1, <1>2, <1>3 DEF Elements
  <2>3. a(q) = b(q)
    BY DEF HandsOn
  <2> HIDE DEF a, b
  <2>4. QED
    BY <2>2, <2>3, <1>4
<1>7. QED
  BY <1>2, <1>5, <1>6 DEF HandsOn

LEMMA HandsOnUnrolled ==
  ASSUME NEW n \in Nat, NEW body, NEW in, NEW how, NEW out, \A i \in 0 .. n - 1 : HandsOn(body[i], in, how, out)
  PROVE  HandsOn(Unrolled(body, n), in, how, out)
<1> DEFINE S == {i \in Nat : i <= n => HandsOn(Unrolled(body, i), in, how, out)}
<1>1. 0 \in S
  BY UnrolledStep, HandsOnNone
<1>2. ASSUME NEW i \in S PROVE i + 1 \in S
  <2> SUFFICES ASSUME i + 1 <= n PROVE HandsOn(Unrolled(body, i + 1), in, how, out)
    OBVIOUS
  <2>1. HandsOn(Unrolled(body, i), in, how, out) /\ HandsOn(body[i], in, how, out)
    OBVIOUS
  <2>2. Unrolled(body, i + 1) = Unrolled(body, i) \o body[i]
    BY UnrolledStep
  <2>3. QED
    BY <2>1, <2>2, HandsOnJoin
<1> HIDE DEF S
<1>3. \A i \in Nat : i \in S
  BY <1>1, <1>2, Upwards DEF S
<1>4. QED
  BY <1>3 DEF S

LEMMA HandsOnOne ==
  ASSUME NEW in \in Streams, NEW how \in {"read", "write"}, NEW out \in Streams, how = "write" \/ in # out,
         NEW x \in Place, NEW y \in Place
  PROVE  HandsOn(Get(in, x) \o <<[io |-> how, stream |-> out, el |-> y]>>, in, how, out)
<1> DEFINE p == Get(in, x) \o <<[io |-> how, stream |-> out, el |-> y]>>
<1>1. /\ p \in Seq(Op) /\ Len(p) = 2
      /\ p[1] = [io |-> "read", stream |-> in, el |-> x] /\ p[2] = [io |-> how, stream |-> out, el |-> y]
  <2>1. Get(in, x) \in Seq(Op) /\ [io |-> how, stream |-> out, el |-> y] \in Op
    BY GetIo DEF Op
  <2>2. Len(Get(in, x)) = 1
    BY DEF Get
  <2>3. QED
    BY <2>1, <2>2 DEF Get
<1> HIDE DEF p
<1>2. /\ Picked(p[1], "read", in) = <<x>> /\ Picked(p[1], how, out) = <<>>
      /\ Picked(p[2], "read", in) = <<>> /\ Picked(p[2], how, out) = <<y>>
  BY <1>1 DEF Picked
<1>3. ASSUME NEW io, NEW s
      PROVE  /\ Trace(p, io, s, 0) = <<>> /\ Trace(p, io, s, 1) = <<>> \o Picked(p[1], io, s)
             /\ Trace(p, io, s, 2) = (<<>> \o Picked(p[1], io, s)) \o Picked(p[2], io, s)
  <2>1. Trace(p, io, s, 0) = <<>>
    BY TraceStart
  <2>2. Trace(p, io, s, 0 + 1) = Trace(p, io, s, 0) \o Picked(p[0 + 1], io, s)
    BY TraceStep
  <2>3. Trace(p, io, s, 1 + 1) = Trace(p, io, s, 1) \o Picked(p[1 + 1], io, s)
    BY TraceStep
  <2>4. 0 + 1 = 1 /\ 1 + 1 = 2
    OBVIOUS
  <2>5. QED
    BY <2>1, <2>2, <2>3, <2>4
<1>4. /\ Len(Trace(p, "read", in, 0)) = 0 /\ Len(Trace(p, how, out, 0)) = 0
      /\ Len(Trace(p, "read", in, 1)) = 1 /\ Len(Trace(p, how, out, 1)) = 0
      /\ Len(Trace(p, "read", in, 2)) = 1 /\ Len(Trace(p, how, out, 2)) = 1
  BY <1>2, <1>3
<1>5. \A i \in 0 .. 2 : i = 0 \/ i = 1 \/ i = 2
  OBVIOUS
<1>6. \A i \in 0 .. Len(p) : InHand(p, in, how, out, i)
  <2>1. ASSUME NEW i \in {0, 1, 2} PROVE InHand(p, in, how, out, i)
    <3> DEFINE a == Len(Trace(p, "read", in, i))
               b == Len(Trace(p, how, out, i))
    <3>1. a \in {0, 1} /\ b \in {0, 1} /\ b <= a
      BY <1>4
    <3> HIDE DEF a, b
    <3>2. a <= b + 1
      BY <3>1
    <3>3. QED
      BY <3>1, <3>2 DEF InHand, a, b
  <2>2. QED
    BY <2>1, <1>1, <1>5
<1>7. Len(Elements(p, "read", in)) = Len(Elements(p, how, out))
  BY <1>1, <1>4 DEF Elements
<1>8. QED
  BY <1>1, <1>6, <1>7 DEF HandsOn, p

(* So does one that does neither.                                             *)
LEMMA HandsOnIdle ==
  ASSUME NEW p \in Seq(Op), NEW in, NEW how, NEW out, Elements(p, "read", in) = <<>>, Elements(p, how, out) = <<>>
  PROVE  HandsOn(p, in, how, out)
<1>1. ASSUME NEW i \in 0 .. Len(p) PROVE InHand(p, in, how, out, i)
  <2>1. /\ Trace(p, "read", in, i) \in Seq(Place) /\ Len(Trace(p, "read", in, i)) <= Len(Elements(p, "read", in))
        /\ Trace(p, how, out, i) \in Seq(Place) /\ Len(Trace(p, how, out, i)) <= Len(Elements(p, how, out))
    BY TraceWithin
  <2>2. Len(Trace(p, "read", in, i)) = 0 /\ Len(Trace(p, how, out, i)) = 0
    BY <2>1
  <2>3. QED
    BY <2>2 DEF InHand
<1>2. QED
  BY <1>1 DEF HandsOn

(* rope_apply_stream.                                                         *)
LEMMA RopeHandsOn ==
  ASSUME NEW in \in Streams, NEW out \in Streams, NEW heads \in Nat, NEW rows \in Nat
  PROVE  HandsOn(Rope(in, out, heads, rows), in, "write", out)
<1>1. ASSUME NEW t \in 0 .. rows - 1 PROVE HandsOn(CopyRow(in, 0, out, t, heads), in, "write", out)
  <2> DEFINE b == [c \in 0 .. heads - 1 |-> Get(in, <<t, 0 + c>>) \o Put(out, <<t, c>>)]
  <2>1. ASSUME NEW c \in 0 .. heads - 1 PROVE HandsOn(b[c], in, "write", out)
    <3>1. <<t, 0 + c>> \in Place /\ <<t, c>> \in Place
      BY DEF Place
    <3>2. QED
      BY <3>1, HandsOnOne DEF Put
  <2>2. CopyRow(in, 0, out, t, heads) = Unrolled(b, heads)
    BY DEF CopyRow, For
  <2> HIDE DEF b
  <2>3. HandsOn(Unrolled(b, heads), in, "write", out)
    BY <2>1, HandsOnUnrolled
  <2>4. QED
    BY <2>2, <2>3
<1> DEFINE b == [t \in 0 .. rows - 1 |-> CopyRow(in, 0, out, t, heads)]
<1>2. \A t \in 0 .. rows - 1 : HandsOn(b[t], in, "write", out)
  BY <1>1
<1>3. Rope(in, out, heads, rows) = Unrolled(b, rows)
  BY DEF Rope, For
<1> HIDE DEF b
<1>4. HandsOn(Unrolled(b, rows), in, "write", out)
  BY <1>2, HandsOnUnrolled
<1>5. QED
  BY <1>3, <1>4

-----------------------------------------------------------------------------
(* What has to wait in the streams.                                           *)

(* How much two programs in turn do on a stream, and how much a loop does.    *)
LEMMA CountJoin ==
  ASSUME NEW p \in Seq(Op), NEW q \in Seq(Op), NEW io, NEW s
  PROVE  /\ p \o q \in Seq(Op)
         /\ Len(Elements(p, io, s)) \in Nat /\ Len(Elements(q, io, s)) \in Nat
         /\ Len(Elements(p \o q, io, s)) = Len(Elements(p, io, s)) + Len(Elements(q, io, s))
<1>1. Elements(p \o q, io, s) = Elements(p, io, s) \o Elements(q, io, s)
  BY ElementsConcat
<1>2. Elements(p, io, s) \in Seq(Place) /\ Elements(q, io, s) \in Seq(Place)
  BY ElementsType
<1>3. p \o q \in Seq(Op)
  BY ConcatProperties
<1>4. QED
  BY <1>1, <1>2, <1>3, ConcatProperties

EachPass(body, n, io, s, size) ==
  \A i \in 0 .. n - 1 : body[i] \in Seq(Op) /\ Len(Elements(body[i], io, s)) = size

LEMMA LoopCount ==
  ASSUME NEW n \in Nat, NEW body, NEW io, NEW s, NEW size \in Nat, EachPass(body, n, io, s, size)
  PROVE  \A t \in 0 .. n : Len(Elements(Unrolled(body, t), io, s)) = t * size
<1> SUFFICES ASSUME NEW t \in 0 .. n PROVE Len(Elements(Unrolled(body, t), io, s)) = t * size
  OBVIOUS
<1> DEFINE part == [i \in 0 .. n - 1 |-> Elements(body[i], io, s)]
<1>1. t \in Nat /\ t \in 0 .. t /\ \A i \in 0 .. t - 1 : i \in 0 .. n - 1
  OBVIOUS
<1>2. Shows(part, body, t, io, s)
  BY <1>1 DEF Shows, EachPass
<1>3. AllOfSize(part, t, Place, size)
  BY <1>1, ElementsType DEF AllOfSize, EachPass
<1> HIDE DEF part
<1>4. Elements(Unrolled(body, t), io, s) = Unrolled(part, t)
  BY <1>1, <1>2, ElementsUnrolled
<1>5. Len(Unrolled(part, t)) = t * size
  <2>1. \A i \in 0 .. t : Unrolled(part, i) \in Seq(Place) /\ Len(Unrolled(part, i)) = i * size
    BY <1>1, <1>3, UnrolledLen
  <2>2. QED
    BY <1>1, <2>1
<1>6. QED
  BY <1>4, <1>5

(* One scale a row.                                                           *)
LEMMA ScalesFacts ==
  ASSUME NEW rows \in Nat
  PROVE  Scales(rows) \in Seq(Place) /\ Len(Scales(rows)) = rows
<1> DEFINE e == [t \in 0 .. rows - 1 |-> <<t, 0>>]
           d == [t \in 0 .. rows - 1 |-> <<<<t, 0>>>>]
<1>1. Units(d, rows, Place, e)
  BY DEF Units, Place
<1>2. Scales(rows) = Unrolled(d, rows)
  BY DEF Scales, For
<1> HIDE DEF d, e
<1>3. QED
  BY <1>1, <1>2, UnrolledUnits

(* rmsnorm_quant has written the scale of its last row before the row.        *)
LEMMA QuantisePrecedes ==
  ASSUME NEW in \in Streams, NEW out \in Streams, NEW sc \in Streams, out # sc,
         NEW rows \in Nat \ {0}, NEW cols \in Nat
  PROVE  Precedes(Quantise(in, out, sc, rows, cols), "write", sc, rows, "write", out, (rows - 1) * cols)
<1> DEFINE x(t) == ReadRow(in, t, cols) \o Put(sc, <<t, 0>>)
           y(t) == WriteRow(out, t, cols)
           b == [t \in 0 .. rows - 1 |-> ReadRow(in, t, cols) \o Put(sc, <<t, 0>>) \o WriteRow(out, t, cols)]
           n == rows - 1
<1>1. ASSUME NEW t \in Nat
      PROVE  /\ x(t) \in Seq(Op) /\ y(t) \in Seq(Op)
             /\ Len(Elements(x(t), "write", sc)) = 1 /\ Len(Elements(x(t), "write", out)) = 0
             /\ Len(Elements(y(t), "write", sc)) = 0 /\ Len(Elements(y(t), "write", out)) = cols
  <2>1. <<t, 0>> \in Place
    BY DEF Place
  <2>2. /\ ReadRow(in, t, cols) \in Seq(Op)
        /\ Elements(ReadRow(in, t, cols), "write", sc) = <<>>
        /\ Elements(ReadRow(in, t, cols), "write", out) = <<>>
    BY ReadRowIo
  <2>3. /\ Put(sc, <<t, 0>>) \in Seq(Op)
        /\ Elements(Put(sc, <<t, 0>>), "write", sc) = <<<<t, 0>>>>
        /\ Elements(Put(sc, <<t, 0>>), "write", out) = <<>>
    BY <2>1, PutIo
  <2>4. /\ y(t) \in Seq(Op)
        /\ Elements(y(t), "write", sc) = <<>>
        /\ Elements(y(t), "write", out) = Row(t, cols)
    BY WriteRowIo
  <2>5. Len(Row(t, cols)) = cols
    BY RowFacts
  <2>6. /\ x(t) \in Seq(Op)
        /\ Elements(x(t), "write", sc) = <<<<t, 0>>>>
        /\ Elements(x(t), "write", out) = <<>>
    BY <2>2, <2>3, JoinIo
  <2> HIDE DEF x, y
  <2>7. QED
    BY <2>4, <2>5, <2>6
<1>2. ASSUME NEW t \in 0 .. rows - 1 PROVE b[t] = x(t) \o y(t) /\ t \in Nat
  OBVIOUS
<1>3. n \in Nat /\ n \in 0 .. rows - 1 /\ n \in 0 .. rows /\ n + 1 = rows
  OBVIOUS
<1>4. Quantise(in, out, sc, rows, cols) = Unrolled(b, rows)
  BY DEF Quantise, For
<1> HIDE DEF b, x, y, n
<1>5. ASSUME NEW t \in 0 .. rows - 1
      PROVE  b[t] \in Seq(Op) /\ Len(Elements(b[t], "write", sc)) = 1 /\ Len(Elements(b[t], "write", out)) = cols
  <2>1. /\ x(t) \in Seq(Op) /\ y(t) \in Seq(Op)
        /\ Len(Elements(x(t), "write", sc)) = 1 /\ Len(Elements(x(t), "write", out)) = 0
        /\ Len(Elements(y(t), "write", sc)) = 0 /\ Len(Elements(y(t), "write", out)) = cols
    BY <1>1, <1>2
  <2>2. /\ x(t) \o y(t) \in Seq(Op)
        /\ Len(Elements(x(t) \o y(t), "write", sc)) = Len(Elements(x(t), "write", sc)) + Len(Elements(y(t), "write", sc))
    BY <2>1, CountJoin
  <2>3. Len(Elements(x(t) \o y(t), "write", out)) = Len(Elements(x(t), "write", out)) + Len(Elements(y(t), "write", out))
    BY <2>1, CountJoin
  <2>7. b[t] = x(t) \o y(t)
    BY <1>2
  <2>4. Len(Elements(b[t], "write", sc)) = 1
    <3>1. Len(Elements(b[t], "write", sc)) = 1 + 0
      BY <2>7, <2>1, <2>2
    <3>2. QED
      BY <3>1
  <2>5. Len(Elements(b[t], "write", out)) = cols
    <3>1. Len(Elements(b[t], "write", out)) = 0 + cols
      BY <2>7, <2>1, <2>3
    <3>2. QED
      BY <3>1
  <2>6. QED
    BY <1>2, <2>2, <2>4, <2>5
<1>6. EachPass(b, rows, "write", sc, 1) /\ EachPass(b, rows, "write", out, cols)
  BY <1>5 DEF EachPass
<1>7. Len(Elements(Unrolled(b, n), "write", sc)) = n /\ Len(Elements(Unrolled(b, n), "write", out)) = n * cols
  <2>1. Len(Elements(Unrolled(b, n), "write", sc)) = n * 1
    BY <1>3, <1>6, 1 \in Nat, LoopCount
  <2>2. Len(Elements(Unrolled(b, n), "write", out)) = n * cols
    BY <1>3, <1>6, LoopCount
  <2>3. QED
    BY <1>3, <2>1, <2>2
<1>8. x(n) \in Seq(Op) /\ y(n) \in Seq(Op) /\ b[n] = x(n) \o y(n) /\ AllIn(b, rows, Op)
  BY <1>1, <1>2, <1>3, <1>5 DEF AllIn
<1>9. /\ Len(Elements(Unrolled(b, n), "write", sc)) + Len(Elements(x(n), "write", sc)) >= rows
      /\ Len(Elements(Unrolled(b, n), "write", out)) + Len(Elements(x(n), "write", out)) <= n * cols
  <2>1. Len(Elements(x(n), "write", sc)) = 1 /\ Len(Elements(x(n), "write", out)) = 0
    BY <1>1, <1>3
  <2>2. n * cols \in Nat
    BY <1>3
  <2>3. Len(Elements(Unrolled(b, n), "write", sc)) + Len(Elements(x(n), "write", sc)) = n + 1
    BY <1>7, <2>1
  <2>4. Len(Elements(Unrolled(b, n), "write", out)) + Len(Elements(x(n), "write", out)) = n * cols + 0
    BY <1>7, <2>1
  <2> DEFINE m == n * cols
  <2> HIDE DEF m
  <2>5. n + 1 >= rows /\ m + 0 <= m
    BY <1>3, <2>2 DEF m
  <2>6. QED
    BY <2>3, <2>4, <2>5 DEF m
<1>10. Precedes(Unrolled(b, rows), "write", sc, rows, "write", out, n * cols)
  <2>1. n * cols \in Nat /\ rows \in Nat
    BY <1>3
  <2>2. QED
    BY <1>3, <1>8, <1>9, <2>1, PrecedesInPass
<1>11. QED
  BY <1>4, <1>10 DEF n

(* w4a8_gemm has read all rows before a scale.                                *)
LEMMA GemmPrecedes ==
  ASSUME NEW act \in Streams, NEW sc \in Streams, act # sc, NEW out \in Streams,
         NEW m \in Nat \ {0}, NEW k \in Nat, NEW n \in Nat
  PROVE  Precedes(Gemm(act, sc, out, m, k, n), "read", act, m * k, "read", sc, 0)
<1> DEFINE x == ReadRows(act, m, k)
           y == ReadScales(sc, m)
           z == WriteProduct(out, m, n)
<1>1. x \in Seq(Op) /\ Elements(x, "read", act) = RowMajor(m, k) /\ Elements(x, "read", sc) = <<>>
  BY ReadRowsIo
<1>2. y \in Seq(Op) /\ z \in Seq(Op)
  BY ReadScalesIo, WriteProductIo
<1>3. Gemm(act, sc, out, m, k, n) = (x \o y) \o z
  BY DEF Gemm
<1>4. Len(RowMajor(m, k)) = m * k /\ m * k \in Nat
  BY RowMajorFacts
<1> HIDE DEF x, y, z
<1>5. (x \o y) \o z = x \o (y \o z) /\ y \o z \in Seq(Op)
  <2>1. x \in Seq(Op) /\ y \in Seq(Op) /\ z \in Seq(Op)
    BY <1>1, <1>2
  <2>2. (x \o y) \o z = x \o (y \o z)
    BY ONLY <2>1, ConcatAssociative
  <2>3. y \o z \in Seq(Op)
    BY ONLY <2>1, ConcatProperties
  <2>4. QED
    BY <2>2, <2>3
<1>6. Len(Elements(x, "read", act)) >= m * k /\ Len(Elements(x, "read", sc)) <= 0
  BY <1>1, <1>4
<1>7. Precedes(x \o (y \o z), "read", act, m * k, "read", sc, 0)
  BY <1>1, <1>4, <1>5, <1>6, 0 \in Nat, PrecedesAt
<1>8. QED
  BY <1>3, <1>5, <1>7

-----------------------------------------------------------------------------
(* The SPLIT loop: a token's queries, its keys, its values.                   *)
SplitQ(t) == CopyRow("qkv_out", 0, "q_pre", t, HQ)
SplitK(t) == CopyRow("qkv_out", HQ, "k_pre", t, HKv)
SplitV(t) == CopyRow("qkv_out", HQ + HKv, "v_pass", t, HKv)
SplitBody(rows) == [t \in 0 .. rows - 1 |-> SplitQ(t) \o SplitK(t) \o SplitV(t)]

(* How much each of the three does, and all of the tokens so far.             *)
LEMMA SplitParts ==
  ASSUME NEW t \in Nat
  PROVE  /\ SplitQ(t) \in Seq(Op) /\ SplitK(t) \in Seq(Op) /\ SplitV(t) \in Seq(Op)
         /\ Len(Elements(SplitQ(t), "write", "q_pre")) = HQ
         /\ Len(Elements(SplitQ(t), "write", "k_pre")) = 0
         /\ Len(Elements(SplitQ(t), "write", "v_pass")) = 0
         /\ Len(Elements(SplitK(t), "write", "q_pre")) = 0
         /\ Len(Elements(SplitK(t), "write", "k_pre")) = HKv
         /\ Len(Elements(SplitK(t), "write", "v_pass")) = 0
         /\ Len(Elements(SplitV(t), "write", "q_pre")) = 0
         /\ Len(Elements(SplitV(t), "write", "k_pre")) = 0
         /\ Len(Elements(SplitV(t), "write", "v_pass")) = HKv
<1>1. HQ \in Nat /\ HKv \in Nat /\ HQ + HKv \in Nat /\ 0 \in Nat
  BY Sizes
<1>2. "qkv_out" \in Streams /\ "q_pre" \in Streams /\ "k_pre" \in Streams /\ "v_pass" \in Streams
  BY NamedStreams
<1>3. Len(Row(t, HQ)) = HQ /\ Len(Row(t, HKv)) = HKv /\ Len(<<>>) = 0
  BY <1>1, RowFacts
<1>4. ASSUME NEW r
      PROVE  /\ SplitQ(t) \in Seq(Op)
             /\ Elements(SplitQ(t), "write", r) = IF r = "q_pre" THEN Row(t, HQ) ELSE <<>>
  BY <1>1, <1>2, CopyRowIo DEF SplitQ
<1>5. ASSUME NEW r
      PROVE  /\ SplitK(t) \in Seq(Op)
             /\ Elements(SplitK(t), "write", r) = IF r = "k_pre" THEN Row(t, HKv) ELSE <<>>
  BY <1>1, <1>2, CopyRowIo DEF SplitK
<1>6. ASSUME NEW r
      PROVE  /\ SplitV(t) \in Seq(Op)
             /\ Elements(SplitV(t), "write", r) = IF r = "v_pass" THEN Row(t, HKv) ELSE <<>>
  BY <1>1, <1>2, CopyRowIo DEF SplitV
<1>7. QED
  BY <1>3, <1>4, <1>5, <1>6

LEMMA SplitCounts ==
  ASSUME NEW rows \in Nat
  PROVE  /\ Split(rows) = Unrolled(SplitBody(rows), rows)
         /\ AllIn(SplitBody(rows), rows, Op)
         /\ \A t \in 0 .. rows :
              /\ Len(Elements(Unrolled(SplitBody(rows), t), "write", "q_pre")) = t * HQ
              /\ Len(Elements(Unrolled(SplitBody(rows), t), "write", "k_pre")) = t * HKv
              /\ Len(Elements(Unrolled(SplitBody(rows), t), "write", "v_pass")) = t * HKv
<1> DEFINE b == SplitBody(rows)
<1>1. Split(rows) = Unrolled(b, rows)
  BY DEF Split, For, SplitBody, SplitQ, SplitK, SplitV
<1>2. ASSUME NEW t \in 0 .. rows - 1
      PROVE  /\ b[t] \in Seq(Op)
             /\ Len(Elements(b[t], "write", "q_pre")) = HQ /\ Len(Elements(b[t], "write", "k_pre")) = HKv
             /\ Len(Elements(b[t], "write", "v_pass")) = HKv
  <2> DEFINE x == SplitQ(t)
             y == SplitK(t)
             z == SplitV(t)
             w == x \o y
  <2>1. /\ x \in Seq(Op) /\ y \in Seq(Op) /\ z \in Seq(Op)
        /\ Len(Elements(x, "write", "q_pre")) = HQ /\ Len(Elements(x, "write", "k_pre")) = 0
        /\ Len(Elements(x, "write", "v_pass")) = 0
        /\ Len(Elements(y, "write", "q_pre")) = 0  /\ Len(Elements(y, "write", "k_pre")) = HKv
        /\ Len(Elements(y, "write", "v_pass")) = 0
        /\ Len(Elements(z, "write", "q_pre")) = 0  /\ Len(Elements(z, "write", "k_pre")) = 0
        /\ Len(Elements(z, "write", "v_pass")) = HKv
    BY SplitParts
  <2>2. b[t] = w \o z
    BY DEF SplitBody
  <2> HIDE DEF x, y, z
  <2>3. \A s : /\ w \in Seq(Op) /\ Len(Elements(w, "write", s)) = Len(Elements(x, "write", s)) + Len(Elements(y, "write", s))
    <3>1. x \in Seq(Op) /\ y \in Seq(Op)
      BY <2>1
    <3>2. QED
      BY ONLY <3>1, CountJoin
  <2> HIDE DEF w
  <2>4. \A s : /\ w \o z \in Seq(Op) /\ Len(Elements(w \o z, "write", s)) = Len(Elements(w, "write", s)) + Len(Elements(z, "write", s))
    <3>1. w \in Seq(Op) /\ z \in Seq(Op)
      BY <2>1, <2>3
    <3>2. QED
      BY ONLY <3>1, CountJoin
  <2>5. HQ \in Nat /\ HKv \in Nat
    BY Sizes
  <2>6. QED
    BY <2>1, <2>2, <2>3, <2>4, <2>5
<1> HIDE DEF b
<1>3. HQ \in Nat /\ HKv \in Nat
  BY Sizes
<1>4. /\ EachPass(b, rows, "write", "q_pre", HQ) /\ EachPass(b, rows, "write", "k_pre", HKv)
      /\ EachPass(b, rows, "write", "v_pass", HKv)
  BY <1>2 DEF EachPass
<1>5. \A t \in 0 .. rows : Len(Elements(Unrolled(b, t), "write", "q_pre")) = t * HQ
  BY <1>3, <1>4, LoopCount
<1>6. \A t \in 0 .. rows : Len(Elements(Unrolled(b, t), "write", "k_pre")) = t * HKv
  BY <1>3, <1>4, LoopCount
<1>7. \A t \in 0 .. rows : Len(Elements(Unrolled(b, t), "write", "v_pass")) = t * HKv
  BY <1>3, <1>4, LoopCount
<1>8. AllIn(b, rows, Op)
  BY <1>2 DEF AllIn
<1>9. QED
  BY <1>1, <1>5, <1>6, <1>7, <1>8 DEF b

(* All queries of a token come before its first key.                          *)
LEMMA QueriesBeforeKeys ==
  ASSUME NEW rows \in Nat, NEW t \in 0 .. rows - 1
  PROVE  Precedes(Split(rows), "write", "q_pre", (t + 1) * HQ, "write", "k_pre", t * HKv)
<1> DEFINE b == SplitBody(rows)
           x == SplitQ(t)
           y == SplitK(t)
           z == SplitV(t)
<1>1. /\ x \in Seq(Op) /\ y \in Seq(Op) /\ z \in Seq(Op)
      /\ Len(Elements(x, "write", "q_pre")) = HQ /\ Len(Elements(x, "write", "k_pre")) = 0
  BY SplitParts
<1>2. /\ Split(rows) = Unrolled(b, rows) /\ AllIn(b, rows, Op)
      /\ Len(Elements(Unrolled(b, t), "write", "q_pre")) = t * HQ
      /\ Len(Elements(Unrolled(b, t), "write", "k_pre")) = t * HKv
  BY SplitCounts
<1>3. b[t] = (x \o y) \o z
  BY DEF SplitBody
<1>4. (t + 1) * HQ \in Nat /\ t * HKv \in Nat /\ t * HQ \in Nat /\ (t + 1) * HQ = t * HQ + HQ /\ HQ \in Nat
  BY Sizes, Products
<1> DEFINE m == (t + 1) * HQ
           l == t * HKv
<1> HIDE DEF b, x, y, z, m, l
<1>5. (x \o y) \o z = x \o (y \o z) /\ y \o z \in Seq(Op)
  BY ONLY <1>1, ConcatAssociative, ConcatProperties
<1>6. /\ Len(Elements(Unrolled(b, t), "write", "q_pre")) + Len(Elements(x, "write", "q_pre")) >= m
      /\ Len(Elements(Unrolled(b, t), "write", "k_pre")) + Len(Elements(x, "write", "k_pre")) <= l
  BY <1>1, <1>2, <1>4 DEF m, l
<1>7. m \in Nat /\ l \in Nat /\ b[t] = x \o (y \o z)
  BY <1>3, <1>4, <1>5 DEF m, l
<1>8. Precedes(Unrolled(b, rows), "write", "q_pre", m, "write", "k_pre", l)
  BY <1>1, <1>2, <1>5, <1>6, <1>7, PrecedesInPass
<1>9. QED
  BY <1>2, <1>8 DEF m, l

(* All keys of a token come before its first value.                           *)
LEMMA KeysBeforeValues ==
  ASSUME NEW rows \in Nat, NEW t \in 0 .. rows - 1
  PROVE  Precedes(Split(rows), "write", "k_pre", (t + 1) * HKv, "write", "v_pass", t * HKv)
<1> DEFINE b == SplitBody(rows)
           x == SplitQ(t)
           y == SplitK(t)
           z == SplitV(t)
           w == x \o y
           m == (t + 1) * HKv
           l == t * HKv
<1>1. /\ x \in Seq(Op) /\ y \in Seq(Op) /\ z \in Seq(Op)
      /\ Len(Elements(x, "write", "k_pre")) = 0 /\ Len(Elements(x, "write", "v_pass")) = 0
      /\ Len(Elements(y, "write", "k_pre")) = HKv /\ Len(Elements(y, "write", "v_pass")) = 0
  BY SplitParts
<1>2. /\ Split(rows) = Unrolled(b, rows) /\ AllIn(b, rows, Op)
      /\ Len(Elements(Unrolled(b, t), "write", "k_pre")) = l
      /\ Len(Elements(Unrolled(b, t), "write", "v_pass")) = l
  BY SplitCounts
<1>3. b[t] = w \o z
  BY DEF SplitBody
<1>4. m \in Nat /\ l \in Nat /\ m = l + HKv /\ HKv \in Nat
  BY Sizes, Products
<1> HIDE DEF b, x, y, z, m, l
<1>5. ASSUME NEW s
      PROVE  /\ w \in Seq(Op)
             /\ Len(Elements(w, "write", s)) = Len(Elements(x, "write", s)) + Len(Elements(y, "write", s))
  <2>1. x \in Seq(Op) /\ y \in Seq(Op) /\ w = x \o y
    BY <1>1
  <2>2. QED
    BY ONLY <2>1, CountJoin
<1>6. Len(Elements(w, "write", "k_pre")) = 0 + HKv /\ Len(Elements(w, "write", "v_pass")) = 0 + 0
  BY <1>1, <1>5
<1> HIDE DEF w
<1>7. /\ Len(Elements(Unrolled(b, t), "write", "k_pre")) + Len(Elements(w, "write", "k_pre")) = l + HKv
      /\ Len(Elements(Unrolled(b, t), "write", "v_pass")) + Len(Elements(w, "write", "v_pass")) = l + 0
  BY <1>2, <1>4, <1>6
<1>8. /\ Len(Elements(Unrolled(b, t), "write", "k_pre")) + Len(Elements(w, "write", "k_pre")) >= m
      /\ Len(Elements(Unrolled(b, t), "write", "v_pass")) + Len(Elements(w, "write", "v_pass")) <= l
  BY <1>4, <1>7
<1>9. Precedes(Unrolled(b, rows), "write", "k_pre", m, "write", "v_pass", l)
  BY <1>1, <1>2, <1>3, <1>4, <1>5, <1>8, PrecedesInPass
<1>10. QED
  BY <1>2, <1>9 DEF m, l

(* What is counted before a pass of a loop comes before anything counted      *)
(* after it.                                                                  *)
LEMMA PrecedesPass ==
  ASSUME NEW n \in Nat, NEW body, AllIn(body, n, Op), NEW t \in 0 .. n - 1,
         NEW io1, NEW s1, NEW m \in Nat, NEW io2, NEW s2, NEW l \in Nat,
         Len(Elements(Unrolled(body, t), io1, s1)) = m,
         Len(Elements(Unrolled(body, t), io2, s2)) = l
  PROVE  Precedes(Unrolled(body, n), io1, s1, m, io2, s2, l)
<1>1. body[t] \in Seq(Op)
  BY DEF AllIn
<1>2. <<>> \in Seq(Op) /\ body[t] = <<>> \o body[t]
  BY <1>1, EmptySeq, ConcatEmptySeq
<1>3. \A io, s : Len(Elements(<<>>, io, s)) = 0
  BY ElementsNone
<1>4. /\ Len(Elements(Unrolled(body, t), io1, s1)) + Len(Elements(<<>>, io1, s1)) = m + 0
      /\ Len(Elements(Unrolled(body, t), io2, s2)) + Len(Elements(<<>>, io2, s2)) = l + 0
  BY <1>3
<1>5. /\ Len(Elements(Unrolled(body, t), io1, s1)) + Len(Elements(<<>>, io1, s1)) >= m
      /\ Len(Elements(Unrolled(body, t), io2, s2)) + Len(Elements(<<>>, io2, s2)) <= l
  BY <1>4
<1>6. QED
  BY <1>1, <1>2, <1>5, PrecedesInPass

(* SPLIT is done with a token when it begins the next one.                    *)
LEMMA TokensInTurn ==
  ASSUME NEW rows \in Nat, NEW t \in 0 .. rows - 1
  PROVE  /\ Precedes(Split(rows), "write", "v_pass", t * HKv, "write", "q_pre", t * HQ)
         /\ Precedes(Split(rows), "write", "k_pre", t * HKv, "write", "q_pre", t * HQ)
         /\ Precedes(Split(rows), "write", "v_pass", t * HKv, "write", "k_pre", t * HKv)
<1> DEFINE m == t * HKv
           l == t * HQ
           b == SplitBody(rows)
<1>1. /\ Split(rows) = Unrolled(b, rows) /\ AllIn(b, rows, Op)
      /\ Len(Elements(Unrolled(b, t), "write", "v_pass")) = m
      /\ Len(Elements(Unrolled(b, t), "write", "k_pre")) = m
      /\ Len(Elements(Unrolled(b, t), "write", "q_pre")) = l
  BY SplitCounts
<1>2. m \in Nat /\ l \in Nat
  BY Sizes, Products
<1> HIDE DEF m, l, b
<1>3. Precedes(Unrolled(b, rows), "write", "v_pass", m, "write", "q_pre", l)
  BY <1>1, <1>2, PrecedesPass
<1>4. Precedes(Unrolled(b, rows), "write", "k_pre", m, "write", "q_pre", l)
  BY <1>1, <1>2, PrecedesPass
<1>5. Precedes(Unrolled(b, rows), "write", "v_pass", m, "write", "k_pre", m)
  BY <1>1, <1>2, PrecedesPass
<1>6. QED
  BY <1>1, <1>3, <1>4, <1>5 DEF m, l

-----------------------------------------------------------------------------
(* Attention: the keys and values of a head, then its queries.                *)
AttentionBody(rows) == [h \in 0 .. HKv - 1 |-> ReadKv(rows, h) \o AttendHead(rows, h)]

(* How much the heads so far read, and how much the next one does.            *)
LEMMA AttentionCounts ==
  ASSUME NEW rows \in Nat \ {0}
  PROVE  /\ Attention(rows) = Unrolled(AttentionBody(rows), HKv)
         /\ AllIn(AttentionBody(rows), HKv, Op)
         /\ \A h \in 0 .. HKv :
              /\ Len(Elements(Unrolled(AttentionBody(rows), h), "read", "k_rot")) = h * rows
              /\ Len(Elements(Unrolled(AttentionBody(rows), h), "read", "q_rot")) = h * (rows * Ratio)
         /\ \A h \in 0 .. HKv - 1 :
              /\ ReadKv(rows, h) \in Seq(Op) /\ AttendHead(rows, h) \in Seq(Op)
              /\ AttentionBody(rows)[h] = ReadKv(rows, h) \o AttendHead(rows, h)
              /\ Len(Elements(ReadKv(rows, h), "read", "k_rot")) = rows
              /\ Len(Elements(ReadKv(rows, h), "read", "q_rot")) = 0
<1> DEFINE b == AttentionBody(rows)
           z == rows * Ratio
<1>1. Attention(rows) = Unrolled(b, HKv)
  BY DEF Attention, For, AttentionBody, ReadKv, AttendHead, ReadQueries, WriteQueries
<1>2. HKv \in Nat /\ z \in Nat
  BY Sizes
<1>3. ASSUME NEW h \in 0 .. HKv - 1
      PROVE  /\ ReadKv(rows, h) \in Seq(Op) /\ AttendHead(rows, h) \in Seq(Op)
             /\ b[h] = ReadKv(rows, h) \o AttendHead(rows, h)
             /\ Len(Elements(ReadKv(rows, h), "read", "k_rot")) = rows
             /\ Len(Elements(ReadKv(rows, h), "read", "q_rot")) = 0
             /\ Len(Elements(AttendHead(rows, h), "read", "k_rot")) = 0
             /\ Len(Elements(AttendHead(rows, h), "read", "q_rot")) = z
  <2>1. h \in Nat
    OBVIOUS
  <2>2. Len(HeadOf(rows, h)) = rows /\ Len(HeadQueries(rows, h)) = z /\ Len(<<>>) = 0
    BY <2>1, HeadFacts, HeadQueriesFacts
  <2>3. /\ ReadKv(rows, h) \in Seq(Op)
        /\ Elements(ReadKv(rows, h), "read", "k_rot") = HeadOf(rows, h)
        /\ Elements(ReadKv(rows, h), "read", "q_rot") = <<>>
    BY <2>1, ReadKvIo
  <2>4. /\ AttendHead(rows, h) \in Seq(Op)
        /\ Elements(AttendHead(rows, h), "read", "k_rot") = <<>>
        /\ Elements(AttendHead(rows, h), "read", "q_rot") = HeadQueries(rows, h)
    BY <2>1, AttendHeadIo
  <2>5. b[h] = ReadKv(rows, h) \o AttendHead(rows, h)
    BY DEF AttentionBody
  <2>6. QED
    BY <2>2, <2>3, <2>4, <2>5
<1> HIDE DEF b, z
<1>4. ASSUME NEW h \in 0 .. HKv - 1
      PROVE  /\ b[h] \in Seq(Op)
             /\ Len(Elements(b[h], "read", "k_rot")) = rows /\ Len(Elements(b[h], "read", "q_rot")) = z
  <2> DEFINE x == ReadKv(rows, h)
             y == AttendHead(rows, h)
  <2>1. /\ x \in Seq(Op) /\ y \in Seq(Op) /\ b[h] = x \o y
        /\ Len(Elements(x, "read", "k_rot")) = rows /\ Len(Elements(x, "read", "q_rot")) = 0
        /\ Len(Elements(y, "read", "k_rot")) = 0 /\ Len(Elements(y, "read", "q_rot")) = z
    BY <1>3
  <2> HIDE DEF x, y
  <2>2. \A s : x \o y \in Seq(Op) /\ Len(Elements(x \o y, "read", s)) = Len(Elements(x, "read", s)) + Len(Elements(y, "read", s))
    BY <2>1, CountJoin
  <2>3. Len(Elements(b[h], "read", "k_rot")) = rows + 0 /\ Len(Elements(b[h], "read", "q_rot")) = 0 + z
    BY <2>1, <2>2
  <2>4. QED
    BY <1>2, <2>1, <2>2, <2>3
<1>5. EachPass(b, HKv, "read", "k_rot", rows) /\ EachPass(b, HKv, "read", "q_rot", z) /\ AllIn(b, HKv, Op)
  BY <1>4 DEF EachPass, AllIn
<1>6. \A h \in 0 .. HKv : Len(Elements(Unrolled(b, h), "read", "k_rot")) = h * rows
  BY <1>2, <1>5, LoopCount
<1>7. \A h \in 0 .. HKv : Len(Elements(Unrolled(b, h), "read", "q_rot")) = h * z
  BY <1>2, <1>5, LoopCount
<1>8. QED
  BY <1>1, <1>3, <1>5, <1>6, <1>7 DEF b, z

(* The keys of every row and of every head up to h come before a query of h.  *)
LEMMA KeysBeforeQueries ==
  ASSUME NEW rows \in Nat \ {0}, NEW h \in 0 .. HKv - 1
  PROVE  Precedes(Attention(rows), "read", "k_rot", (h + 1) * rows, "read", "q_rot", h * (rows * Ratio))
<1> DEFINE b == AttentionBody(rows)
           x == ReadKv(rows, h)
           y == AttendHead(rows, h)
           m == (h + 1) * rows
           l == h * (rows * Ratio)
<1>1. h \in 0 .. HKv /\ h \in Nat /\ HKv \in Nat
  BY Sizes
<1>2. /\ Attention(rows) = Unrolled(b, HKv) /\ AllIn(b, HKv, Op)
      /\ Len(Elements(Unrolled(b, h), "read", "k_rot")) = h * rows
      /\ Len(Elements(Unrolled(b, h), "read", "q_rot")) = l
      /\ x \in Seq(Op) /\ y \in Seq(Op) /\ b[h] = x \o y
      /\ Len(Elements(x, "read", "k_rot")) = rows /\ Len(Elements(x, "read", "q_rot")) = 0
  BY <1>1, AttentionCounts
<1>3. m = h * rows + rows /\ m \in Nat
  BY <1>1, Products
<1>4. l \in Nat
  <2>1. rows * Ratio \in Nat
    BY Sizes
  <2>2. QED
    BY <1>1, <2>1, Products
<1> HIDE DEF b, x, y, m, l
<1>5. /\ Len(Elements(Unrolled(b, h), "read", "k_rot")) + Len(Elements(x, "read", "k_rot")) = m
      /\ Len(Elements(Unrolled(b, h), "read", "q_rot")) + Len(Elements(x, "read", "q_rot")) = l + 0
  BY <1>2, <1>3
<1>6. /\ Len(Elements(Unrolled(b, h), "read", "k_rot")) + Len(Elements(x, "read", "k_rot")) >= m
      /\ Len(Elements(Unrolled(b, h), "read", "q_rot")) + Len(Elements(x, "read", "q_rot")) <= l
  BY <1>3, <1>4, <1>5
<1>7. Precedes(Unrolled(b, HKv), "read", "k_rot", m, "read", "q_rot", l)
  BY <1>1, <1>2, <1>3, <1>4, <1>6, PrecedesInPass
<1>8. QED
  BY <1>2, <1>7 DEF m, l

(* The queries of the heads before come before a key of head h.               *)
LEMMA QueriesBeforeNextHead ==
  ASSUME NEW rows \in Nat \ {0}, NEW h \in 0 .. HKv - 1
  PROVE  Precedes(Attention(rows), "read", "q_rot", h * (rows * Ratio), "read", "k_rot", h * rows)
<1> DEFINE b == AttentionBody(rows)
           m == h * (rows * Ratio)
           l == h * rows
<1>1. h \in 0 .. HKv /\ h \in Nat /\ HKv \in Nat
  BY Sizes
<1>2. /\ Attention(rows) = Unrolled(b, HKv) /\ AllIn(b, HKv, Op)
      /\ Len(Elements(Unrolled(b, h), "read", "k_rot")) = l
      /\ Len(Elements(Unrolled(b, h), "read", "q_rot")) = m
  BY <1>1, AttentionCounts
<1>3. m \in Nat /\ l \in Nat
  <2>1. rows * Ratio \in Nat
    BY Sizes
  <2>2. QED
    BY <1>1, <2>1, Products
<1> HIDE DEF m, l, b
<1>4. Precedes(Unrolled(b, HKv), "read", "q_rot", m, "read", "k_rot", l)
  BY <1>1, <1>2, <1>3, PrecedesPass
<1>5. QED
  BY <1>2, <1>4 DEF m, l

(* Attention reads the value of a token before the key of the next.           *)
LEMMA AttentionHandsOn ==
  ASSUME NEW rows \in Nat \ {0}
  PROVE  HandsOn(Attention(rows), "k_rot", "read", "v_pass")
<1> DEFINE b == AttentionBody(rows)
<1>1. Attention(rows) = Unrolled(b, HKv) /\ HKv \in Nat
  BY AttentionCounts, Sizes
<1>2. ASSUME NEW h \in 0 .. HKv - 1 PROVE HandsOn(b[h], "k_rot", "read", "v_pass")
  <2> DEFINE c == [t \in 0 .. rows - 1 |-> Get("k_rot", <<t, h>>) \o Get("v_pass", <<t, h>>)]
             x == ReadKv(rows, h)
             y == AttendHead(rows, h)
  <2>0. h \in Nat
    OBVIOUS
  <2>1. ASSUME NEW t \in 0 .. rows - 1 PROVE HandsOn(c[t], "k_rot", "read", "v_pass")
    <3>1. <<t, h>> \in Place /\ "k_rot" \in Streams /\ "v_pass" \in Streams /\ "k_rot" # "v_pass"
      BY <2>0, NamedStreams DEF Place
    <3>2. QED
      BY <3>1, HandsOnOne DEF Get
  <2>2. x = Unrolled(c, rows)
    BY DEF ReadKv, For
  <2> HIDE DEF c
  <2>3. HandsOn(x, "k_rot", "read", "v_pass")
    BY <2>1, <2>2, HandsOnUnrolled
  <2>4. HandsOn(y, "k_rot", "read", "v_pass")
    <3>1. /\ y \in Seq(Op)
          /\ Elements(y, "read", "k_rot") = <<>> /\ Elements(y, "read", "v_pass") = <<>>
      BY <2>0, AttendHeadIo
    <3>2. QED
      BY <3>1, HandsOnIdle
  <2>5. b[h] = x \o y
    BY DEF AttentionBody
  <2>6. QED
    BY <2>3, <2>4, <2>5, HandsOnJoin
<1> HIDE DEF b
<1>3. HandsOn(Unrolled(b, HKv), "k_rot", "read", "v_pass")
  BY <1>1, <1>2, HandsOnUnrolled
<1>4. QED
  BY <1>1, <1>3

-----------------------------------------------------------------------------
(* A launch completes only if its streams hold what must wait in them.        *)

Wrote(s) == Len(WroteTo(s))
Took(s)  == Len(TookFrom(s))

(* A stream holds what was written and not taken, at most its depth.          *)
LEMMA Flow ==
  ASSUME Inv, NEW s \in Streams
  PROVE  /\ Wrote(s) \in Nat /\ Took(s) \in Nat /\ Len(fifo[s]) \in Nat
         /\ Wrote(s) = Took(s) + Len(fifo[s])
         /\ Len(fifo[s]) <= Depth(s)
<1>1. /\ WroteTo(s) \in Seq(Place) /\ TookFrom(s) \in Seq(Place) /\ fifo[s] \in Seq(Place)
      /\ Held(WroteTo(s), TookFrom(s), fifo[s])
  BY TracesTyped
<1>2. Len(fifo[s]) <= Depth(s)
  BY DEF Inv, TypeOK
<1>3. QED
  BY <1>1, <1>2 DEF Held, Wrote, Took

(* What function f has done on a stream.                                      *)
Does(f, io, s) == Len(Trace(Program[f], io, s, at[f]))

(* The counts used below, by the function at that end.                        *)
LEMMA EndsDo ==
  /\ Wrote("norm1_q") = Does("rmsnorm", "write", "norm1_q")
  /\ Wrote("norm1_sc") = Does("rmsnorm", "write", "norm1_sc")
  /\ Took("norm1_q") = Does("qkv_gemm", "read", "norm1_q")
  /\ Took("norm1_sc") = Does("qkv_gemm", "read", "norm1_sc")
  /\ Wrote("q_pre") = Does("split", "write", "q_pre")
  /\ Wrote("k_pre") = Does("split", "write", "k_pre")
  /\ Wrote("v_pass") = Does("split", "write", "v_pass")
  /\ Took("q_pre") = Does("rope_q", "read", "q_pre")
  /\ Wrote("q_rot") = Does("rope_q", "write", "q_rot")
  /\ Took("k_pre") = Does("rope_k", "read", "k_pre")
  /\ Wrote("k_rot") = Does("rope_k", "write", "k_rot")
  /\ Took("q_rot") = Does("attention", "read", "q_rot")
  /\ Took("k_rot") = Does("attention", "read", "k_rot")
  /\ Took("v_pass") = Does("attention", "read", "v_pass")
BY WriterValues, ReaderValues DEF Took, Wrote, TookFrom, WroteTo, Does

(* The order of the operations in the programs under way.                     *)
TokenOrder(t) ==
  /\ Precedes(Program["split"], "write", "q_pre", (t + 1) * HQ, "write", "k_pre", t * HKv)
  /\ Precedes(Program["split"], "write", "k_pre", (t + 1) * HKv, "write", "v_pass", t * HKv)
  /\ Precedes(Program["split"], "write", "v_pass", t * HKv, "write", "q_pre", t * HQ)
  /\ Precedes(Program["split"], "write", "k_pre", t * HKv, "write", "q_pre", t * HQ)
  /\ Precedes(Program["split"], "write", "v_pass", t * HKv, "write", "k_pre", t * HKv)
HeadOrder(h) ==
  /\ Precedes(Program["attention"], "read", "k_rot", (h + 1) * launch.rows, "read", "q_rot", h * (launch.rows * Ratio))
  /\ Precedes(Program["attention"], "read", "q_rot", h * (launch.rows * Ratio), "read", "k_rot", h * launch.rows)
ProgramOrder ==
  /\ Precedes(Program["qkv_gemm"], "read", "norm1_q", launch.rows * HQ, "read", "norm1_sc", 0)
  /\ Precedes(Program["rmsnorm"], "write", "norm1_sc", launch.rows, "write", "norm1_q", (launch.rows - 1) * HQ)
  /\ \A t \in 0 .. launch.rows - 1 : TokenOrder(t)
  /\ \A h \in 0 .. HKv - 1 : HeadOrder(h)
  /\ HandsOn(Program["attention"], "k_rot", "read", "v_pass")
  /\ HandsOn(Program["rope_q"], "q_pre", "write", "q_rot")
  /\ HandsOn(Program["rope_k"], "k_pre", "write", "k_rot")

(* The programs under way are those of the launch.                            *)
LEMMA ProgramOrderHolds ==
  ASSUME Shape
  PROVE  ProgramOrder
<1> DEFINE rows == launch.rows
<1>1. rows \in Nat \ {0} /\ HQ \in Nat /\ HKv \in Nat /\ NQkv \in Nat
  BY ProgramFacts, Sizes
<1>2. \A f \in Functions : Program[f] = ProgramOf(rows)[f]
  BY ProgramFacts
<1>3. /\ Program["qkv_gemm"] = Gemm("norm1_q", "norm1_sc", "qkv_out", rows, HQ, NQkv)
      /\ Program["rmsnorm"] = Quantise("raw_act", "norm1_q", "norm1_sc", rows, HQ)
      /\ Program["split"] = Split(rows)
      /\ Program["attention"] = Attention(rows)
      /\ Program["rope_q"] = Rope("q_pre", "q_rot", HQ, rows)
      /\ Program["rope_k"] = Rope("k_pre", "k_rot", HKv, rows)
  BY <1>2 DEF ProgramOf, Functions
<1>4. /\ "norm1_q" \in Streams /\ "norm1_sc" \in Streams /\ "qkv_out" \in Streams /\ "raw_act" \in Streams
      /\ "q_pre" \in Streams /\ "q_rot" \in Streams /\ "k_pre" \in Streams /\ "k_rot" \in Streams
      /\ "norm1_q" # "norm1_sc"
  BY NamedStreams
<1> HIDE DEF rows
<1>5. Precedes(Program["qkv_gemm"], "read", "norm1_q", rows * HQ, "read", "norm1_sc", 0)
  <2>1. Precedes(Gemm("norm1_q", "norm1_sc", "qkv_out", rows, HQ, NQkv), "read", "norm1_q", rows * HQ, "read", "norm1_sc", 0)
    BY ONLY <1>1, <1>4, GemmPrecedes
  <2>2. QED
    BY <1>3, <2>1
<1>6. Precedes(Program["rmsnorm"], "write", "norm1_sc", rows, "write", "norm1_q", (rows - 1) * HQ)
  <2>1. Precedes(Quantise("raw_act", "norm1_q", "norm1_sc", rows, HQ),
                 "write", "norm1_sc", rows, "write", "norm1_q", (rows - 1) * HQ)
    BY ONLY <1>1, <1>4, QuantisePrecedes
  <2>2. QED
    BY <1>3, <2>1
<1>7. ASSUME NEW t \in 0 .. rows - 1 PROVE TokenOrder(t)
  <2>1. Precedes(Split(rows), "write", "q_pre", (t + 1) * HQ, "write", "k_pre", t * HKv)
    BY <1>1, QueriesBeforeKeys
  <2>2. Precedes(Split(rows), "write", "k_pre", (t + 1) * HKv, "write", "v_pass", t * HKv)
    BY <1>1, KeysBeforeValues
  <2>3. /\ Precedes(Split(rows), "write", "v_pass", t * HKv, "write", "q_pre", t * HQ)
        /\ Precedes(Split(rows), "write", "k_pre", t * HKv, "write", "q_pre", t * HQ)
        /\ Precedes(Split(rows), "write", "v_pass", t * HKv, "write", "k_pre", t * HKv)
    BY <1>1, TokensInTurn
  <2>4. QED
    BY <1>3, <2>1, <2>2, <2>3 DEF TokenOrder
<1>8. ASSUME NEW h \in 0 .. HKv - 1 PROVE HeadOrder(h)
  <2>1. Precedes(Attention(rows), "read", "k_rot", (h + 1) * rows, "read", "q_rot", h * (rows * Ratio))
    BY <1>1, KeysBeforeQueries
  <2>2. Precedes(Attention(rows), "read", "q_rot", h * (rows * Ratio), "read", "k_rot", h * rows)
    BY <1>1, QueriesBeforeNextHead
  <2>3. QED
    BY <1>3, <2>1, <2>2 DEF HeadOrder, rows
<1>9. HandsOn(Program["attention"], "k_rot", "read", "v_pass")
  BY <1>1, <1>3, AttentionHandsOn
<1>10. HandsOn(Program["rope_q"], "q_pre", "write", "q_rot")
  BY <1>1, <1>3, <1>4, RopeHandsOn
<1>11. HandsOn(Program["rope_k"], "k_pre", "write", "k_rot")
  BY <1>1, <1>3, <1>4, RopeHandsOn
<1>12. QED
  BY <1>5, <1>6, <1>7, <1>8, <1>9, <1>10, <1>11 DEF ProgramOrder, rows

(* What Precedes and HandsOn say of the operations done so far.               *)
LEMMA DoneBefore ==
  ASSUME Inv, NEW f \in Functions, NEW io1, NEW s1, NEW m, NEW io2, NEW s2, NEW n,
         Precedes(Program[f], io1, s1, m, io2, s2, n), Does(f, io2, s2) > n
  PROVE  Does(f, io1, s1) >= m
<1>1. at[f] \in 0 .. Len(Program[f])
  BY DEF Inv, TypeOK
<1>2. QED
  BY <1>1 DEF Precedes, Does

LEMMA HandedOn ==
  ASSUME Inv, NEW f \in Functions, NEW in, NEW how, NEW out, HandsOn(Program[f], in, how, out)
  PROVE  Does(f, how, out) <= Does(f, "read", in) /\ Does(f, "read", in) <= Does(f, how, out) + 1
<1>1. at[f] \in 0 .. Len(Program[f])
  BY DEF Inv, TypeOK
<1>2. InHand(Program[f], in, how, out, at[f])
  BY <1>1 DEF HandsOn
<1>3. QED
  BY <1>2 DEF InHand, Does

(* What that order means for the counts.                                      *)
InStep ==
  /\ Took("norm1_sc") > 0 => Took("norm1_q") >= launch.rows * HQ
  /\ Wrote("norm1_q") > (launch.rows - 1) * HQ => Wrote("norm1_sc") >= launch.rows
  /\ \A h \in 0 .. HKv - 1 : Took("q_rot") > h * (launch.rows * Ratio) => Took("k_rot") >= (h + 1) * launch.rows
  /\ \A t \in 0 .. launch.rows - 1 :
       /\ Wrote("k_pre") > t * HKv => Wrote("q_pre") >= (t + 1) * HQ
       /\ Wrote("v_pass") > t * HKv => Wrote("k_pre") >= (t + 1) * HKv
  /\ Took("k_rot") <= Took("v_pass") + 1 /\ Took("v_pass") <= Took("k_rot")
  /\ Took("q_pre") <= Wrote("q_rot") + 1 /\ Wrote("q_rot") <= Took("q_pre")
  /\ Took("k_pre") <= Wrote("k_rot") + 1 /\ Wrote("k_rot") <= Took("k_pre")

(* InStep follows from Inv.                                                   *)
LEMMA InStepHolds ==
  ASSUME Inv
  PROVE  InStep
<1>1. ProgramOrder
  BY ProgramOrderHolds DEF Inv
<1>2. /\ "qkv_gemm" \in Functions /\ "rmsnorm" \in Functions /\ "split" \in Functions
      /\ "attention" \in Functions /\ "rope_q" \in Functions /\ "rope_k" \in Functions
  BY DEF Functions
<1>3. Took("norm1_sc") > 0 => Took("norm1_q") >= launch.rows * HQ
  <2>1. Does("qkv_gemm", "read", "norm1_sc") > 0 => Does("qkv_gemm", "read", "norm1_q") >= launch.rows * HQ
    BY <1>1, <1>2, DoneBefore DEF ProgramOrder
  <2>2. QED
    BY <2>1, EndsDo
<1>4. Wrote("norm1_q") > (launch.rows - 1) * HQ => Wrote("norm1_sc") >= launch.rows
  <2>1. Does("rmsnorm", "write", "norm1_q") > (launch.rows - 1) * HQ => Does("rmsnorm", "write", "norm1_sc") >= launch.rows
    BY <1>1, <1>2, DoneBefore DEF ProgramOrder
  <2>2. QED
    BY <2>1, EndsDo
<1>5. ASSUME NEW h \in 0 .. HKv - 1
      PROVE  Took("q_rot") > h * (launch.rows * Ratio) => Took("k_rot") >= (h + 1) * launch.rows
  <2>1. HeadOrder(h)
    BY <1>1 DEF ProgramOrder
  <2>2. Does("attention", "read", "q_rot") > h * (launch.rows * Ratio)
          => Does("attention", "read", "k_rot") >= (h + 1) * launch.rows
    BY <2>1, <1>2, DoneBefore DEF HeadOrder
  <2>3. QED
    BY <2>2, EndsDo
<1>6. ASSUME NEW t \in 0 .. launch.rows - 1
      PROVE  /\ Wrote("k_pre") > t * HKv => Wrote("q_pre") >= (t + 1) * HQ
             /\ Wrote("v_pass") > t * HKv => Wrote("k_pre") >= (t + 1) * HKv
  <2>1. TokenOrder(t)
    BY <1>1 DEF ProgramOrder
  <2>2. Does("split", "write", "k_pre") > t * HKv => Does("split", "write", "q_pre") >= (t + 1) * HQ
    BY <2>1, <1>2, DoneBefore DEF TokenOrder
  <2>3. Does("split", "write", "v_pass") > t * HKv => Does("split", "write", "k_pre") >= (t + 1) * HKv
    BY <2>1, <1>2, DoneBefore DEF TokenOrder
  <2>4. QED
    BY <2>2, <2>3, EndsDo
<1>7. Took("k_rot") <= Took("v_pass") + 1 /\ Took("v_pass") <= Took("k_rot")
  <2>1. HandsOn(Program["attention"], "k_rot", "read", "v_pass")
    BY <1>1 DEF ProgramOrder
  <2>2. QED
    BY <2>1, <1>2, HandedOn, EndsDo
<1>8. Took("q_pre") <= Wrote("q_rot") + 1 /\ Wrote("q_rot") <= Took("q_pre")
  <2>1. HandsOn(Program["rope_q"], "q_pre", "write", "q_rot")
    BY <1>1 DEF ProgramOrder
  <2>2. QED
    BY <2>1, <1>2, HandedOn, EndsDo
<1>9. Took("k_pre") <= Wrote("k_rot") + 1 /\ Wrote("k_rot") <= Took("k_pre")
  <2>1. HandsOn(Program["rope_k"], "k_pre", "write", "k_rot")
    BY <1>1 DEF ProgramOrder
  <2>2. QED
    BY <2>1, <1>2, HandedOn, EndsDo
<1>10. QED
  BY <1>3, <1>4, <1>5, <1>6, <1>7, <1>8, <1>9 DEF InStep

(* A launch that has completed had deep enough streams.                       *)
CompletesOnlyIf == AllFinished => StreamsHold

(* The conditions of StreamsHold that the launch has already met.             *)
MetSoFar ==
  /\ \A h \in 0 .. HKv - 1 :
       Took("q_rot") > h * (launch.rows * Ratio) => QueriesHeld(h) <= FifoD + 1 + launch.fifoAttn
  /\ Took("v_pass") > 0 => HKv - 1 <= FifoD + 1 + FifoD
  /\ Took("norm1_sc") > 0 => launch.rows <= launch.fifoSc

(* The streams that have to hold something.                                   *)
LEMMA StreamDepths ==
  /\ Depth("q_pre") = FifoD /\ Depth("k_pre") = FifoD /\ Depth("k_rot") = FifoD /\ Depth("v_pass") = FifoD
  /\ Depth("q_rot") = launch.fifoAttn /\ Depth("norm1_sc") = launch.fifoSc
BY DEF Depth

(* A state in which the next step takes the first scale, value, or query of a *)
(* head h.                                                                    *)
LEMMA ScalesWait ==
  ASSUME Inv, Took("norm1_sc") = 0, Took("norm1_q") >= launch.rows * HQ
  PROVE  launch.rows <= launch.fifoSc
<1> DEFINE rows == launch.rows
<1>1. /\ Wrote("norm1_q") \in Nat /\ Took("norm1_q") \in Nat /\ Wrote("norm1_q") >= Took("norm1_q")
      /\ Wrote("norm1_sc") \in Nat /\ Wrote("norm1_sc") <= launch.fifoSc
  <2>1. "norm1_q" \in Streams /\ "norm1_sc" \in Streams
    BY NamedStreams
  <2>2. /\ Wrote("norm1_q") \in Nat /\ Took("norm1_q") \in Nat /\ Len(fifo["norm1_q"]) \in Nat
        /\ Wrote("norm1_q") = Took("norm1_q") + Len(fifo["norm1_q"])
    BY <2>1, Flow
  <2>3. /\ Wrote("norm1_sc") \in Nat /\ Len(fifo["norm1_sc"]) \in Nat
        /\ Wrote("norm1_sc") = Took("norm1_sc") + Len(fifo["norm1_sc"])
        /\ Len(fifo["norm1_sc"]) <= Depth("norm1_sc")
    BY <2>1, Flow
  <2>4. Took("norm1_sc") = 0 /\ Depth("norm1_sc") = launch.fifoSc
    BY StreamDepths
  <2>5. Wrote("norm1_sc") = 0 + Len(fifo["norm1_sc"]) /\ Len(fifo["norm1_sc"]) <= launch.fifoSc
    BY <2>3, <2>4
  <2>6. Wrote("norm1_sc") = Len(fifo["norm1_sc"])
    BY <2>3, <2>5
  <2>7. QED
    BY <2>2, <2>3, <2>5, <2>6
<1>2. rows \in Nat \ {0} /\ HQ \in Nat \ {0} /\ launch.fifoSc \in Nat
  BY ProgramFacts, Sizes DEF Inv
<1>3. rows * HQ \in Nat /\ (rows - 1) * HQ \in Nat /\ rows * HQ = (rows - 1) * HQ + HQ
  <2>1. rows - 1 \in Nat
    BY <1>2
  <2>2. (rows - 1) * HQ \in Nat /\ ((rows - 1) + 1) * HQ = (rows - 1) * HQ + HQ
    BY ONLY <1>2, <2>1, Products
  <2>3. (rows - 1) + 1 = rows
    BY <1>2
  <2>4. rows * HQ = (rows - 1) * HQ + HQ
    BY <2>2, <2>3
  <2>5. QED
    BY <1>2, <2>2, <2>4
<1>4. Took("norm1_q") >= rows * HQ
  OBVIOUS
<1>5. Wrote("norm1_q") > (rows - 1) * HQ => Wrote("norm1_sc") >= rows
  BY InStepHolds DEF InStep
<1> DEFINE a == rows * HQ
           b == (rows - 1) * HQ
<1> HIDE DEF rows, a, b
<1>6. Wrote("norm1_q") > b
  BY <1>1, <1>2, <1>3, <1>4 DEF a, b
<1>7. Wrote("norm1_sc") >= rows
  BY <1>5, <1>6 DEF b
<1>8. QED
  BY <1>1, <1>2, <1>7 DEF rows

(* The first value waits behind the keys of the other heads.                  *)
LEMMA KeysWait ==
  ASSUME Inv, Took("v_pass") = 0, Wrote("v_pass") > 0
  PROVE  HKv - 1 <= FifoD + 1 + FifoD
<1>1. Took("k_rot") <= 1 /\ Wrote("k_pre") >= HKv /\ Took("k_pre") <= Wrote("k_rot") + 1
  <2>1. Took("k_rot") \in Nat
    BY Flow, NamedStreams
  <2>2. launch.rows \in Nat \ {0} /\ HKv \in Nat
    BY ProgramFacts, Sizes DEF Inv
  <2>3. 0 \in 0 .. launch.rows - 1 /\ 0 * HKv = 0 /\ (0 + 1) * HKv = HKv
    BY <2>2
  <2>4. Wrote("v_pass") > 0 * HKv => Wrote("k_pre") >= (0 + 1) * HKv
    BY <2>3, InStepHolds DEF InStep
  <2>5. Took("k_rot") <= Took("v_pass") + 1 /\ Took("k_pre") <= Wrote("k_rot") + 1
    BY InStepHolds DEF InStep
  <2>6. Took("k_rot") <= 0 + 1
    BY <2>5
  <2>7. Wrote("k_pre") >= HKv
    BY <2>3, <2>4
  <2>8. QED
    BY <2>1, <2>5, <2>6, <2>7
<1>2. /\ Wrote("k_pre") = Took("k_pre") + Len(fifo["k_pre"]) /\ Len(fifo["k_pre"]) <= FifoD
      /\ Wrote("k_pre") \in Nat /\ Took("k_pre") \in Nat /\ Len(fifo["k_pre"]) \in Nat
  BY Flow, NamedStreams, StreamDepths
<1>3. /\ Wrote("k_rot") = Took("k_rot") + Len(fifo["k_rot"]) /\ Len(fifo["k_rot"]) <= FifoD
      /\ Wrote("k_rot") \in Nat /\ Took("k_rot") \in Nat /\ Len(fifo["k_rot"]) \in Nat
  BY Flow, NamedStreams, StreamDepths
<1>4. HKv \in Nat /\ FifoD \in Nat
  BY Sizes
<1>5. QED
  BY <1>1, <1>2, <1>3, <1>4

(* The queries of a head wait behind its keys.                                *)
LEMMA QueriesWait ==
  ASSUME Inv, NEW h \in 0 .. HKv - 1,
         Took("q_rot") = h * (launch.rows * Ratio), Took("k_rot") >= (h + 1) * launch.rows
  PROVE  QueriesHeld(h) <= FifoD + 1 + launch.fifoAttn
<1> DEFINE rows == launch.rows
           n == (h + 1) * rows
           tiles == Tiles(n, HKv)
           t == tiles - 1
<1>1. rows \in Nat \ {0} /\ HQ \in Nat /\ HKv \in Nat \ {0} /\ h \in Nat /\ Ratio \in Nat /\ FifoD \in Nat /\ launch.fifoAttn \in Nat
  BY ProgramFacts, Sizes DEF Inv
<1>2. n \in Nat \ {0} /\ n <= HKv * rows
  <2>1. n = h * rows + rows /\ h * rows \in Nat /\ n \in Nat
    <3>1. h * rows \in Nat /\ (h + 1) * rows = h * rows + rows
      BY ONLY <1>1, Products
    <3>2. QED
      BY <1>1, <3>1
  <2>2. h + 1 \in Nat /\ h + 1 <= HKv
    BY <1>1
  <2>3. n <= HKv * rows
    BY <1>1, <2>2, Products
  <2> HIDE DEF n
  <2>4. n # 0
    BY <1>1, <2>1
  <2>5. QED
    BY <2>1, <2>3, <2>4
<1>3. Took("k_rot") >= n /\ Took("q_rot") = h * (rows * Ratio)
  OBVIOUS
<1>4. QueriesHeld(h) = tiles * HQ - h * rows * Ratio
  BY DEF QueriesHeld
<1> HIDE DEF n
<1>5. tiles \in Nat \ {0} /\ t * HKv < n /\ n <= tiles * HKv
  BY <1>1, <1>2, TilesFacts
<1> HIDE DEF tiles
<1>6. t \in Nat /\ t + 1 = tiles
  BY <1>5
<1>7. t \in 0 .. rows - 1
  <2>1. t >= rows => rows * HKv <= t * HKv
    BY <1>1, <1>6, Products
  <2>2. HKv * rows = rows * HKv /\ t * HKv \in Nat /\ rows * HKv \in Nat
    BY <1>1, <1>6
  <2> DEFINE a == t * HKv
             b == rows * HKv
  <2> HIDE DEF a, b
  <2>3. ~(t >= rows)
    BY <2>1, <2>2, <1>2, <1>5 DEF a, b
  <2>4. QED
    BY <2>3, <1>1, <1>6
<1>8. /\ Wrote("k_rot") \in Nat /\ Took("k_rot") \in Nat /\ Wrote("k_rot") >= Took("k_rot")
      /\ Wrote("k_pre") \in Nat /\ Took("k_pre") \in Nat /\ Wrote("k_pre") >= Took("k_pre")
  <2>1. "k_rot" \in Streams /\ "k_pre" \in Streams
    BY NamedStreams
  <2>2. /\ Wrote("k_rot") \in Nat /\ Took("k_rot") \in Nat /\ Len(fifo["k_rot"]) \in Nat
        /\ Wrote("k_rot") = Took("k_rot") + Len(fifo["k_rot"])
    BY <2>1, Flow
  <2>3. /\ Wrote("k_pre") \in Nat /\ Took("k_pre") \in Nat /\ Len(fifo["k_pre"]) \in Nat
        /\ Wrote("k_pre") = Took("k_pre") + Len(fifo["k_pre"])
    BY <2>1, Flow
  <2>4. Wrote("k_rot") >= Took("k_rot")
    BY <2>2
  <2>5. Wrote("k_pre") >= Took("k_pre")
    BY <2>3
  <2>6. QED
    BY <2>2, <2>3, <2>4, <2>5
<1>9. /\ Wrote("q_pre") = Took("q_pre") + Len(fifo["q_pre"]) /\ Len(fifo["q_pre"]) <= FifoD
      /\ Wrote("q_rot") = Took("q_rot") + Len(fifo["q_rot"]) /\ Len(fifo["q_rot"]) <= launch.fifoAttn
      /\ Wrote("q_pre") \in Nat /\ Took("q_pre") \in Nat /\ Len(fifo["q_pre"]) \in Nat
      /\ Wrote("q_rot") \in Nat /\ Took("q_rot") \in Nat /\ Len(fifo["q_rot"]) \in Nat
  BY Flow, NamedStreams, StreamDepths
<1>10. /\ Wrote("k_rot") <= Took("k_pre") /\ Took("q_pre") <= Wrote("q_rot") + 1
       /\ Wrote("k_pre") > t * HKv => Wrote("q_pre") >= (t + 1) * HQ
  BY <1>7, InStepHolds DEF InStep
<1>11. t * HKv \in Nat /\ tiles * HQ \in Nat /\ h * rows * Ratio = h * (rows * Ratio) /\ h * rows * Ratio \in Nat
  BY <1>1, <1>5, <1>6
<1> DEFINE a == t * HKv
           b == tiles * HQ
           c == h * rows * Ratio
<1> HIDE DEF t, rows, a, b, c
<1>12. Wrote("k_pre") > a
  BY <1>2, <1>3, <1>5, <1>8, <1>10, <1>11 DEF a
<1>13. Wrote("q_pre") >= b
  BY <1>6, <1>10, <1>12 DEF a, b
<1>14. b - c <= FifoD + 1 + launch.fifoAttn
  <2>1. b \in Nat /\ c \in Nat
    BY <1>11 DEF b, c
  <2>2. Took("q_rot") = c
    BY <1>3, <1>11 DEF c
  <2>3. Wrote("q_rot") <= c + launch.fifoAttn
    BY <1>1, <1>9, <2>1, <2>2
  <2>4. Took("q_pre") <= c + launch.fifoAttn + 1
    BY ONLY <1>1, <1>9, <1>10, <2>1, <2>3, SMTT(30)
  <2>5. Wrote("q_pre") <= c + launch.fifoAttn + 1 + FifoD
    BY ONLY <1>1, <1>9, <2>1, <2>4, SMTT(30)
  <2>6. QED
    BY ONLY <1>1, <1>9, <1>13, <2>1, <2>5, SMTT(30)
<1>15. QED
  BY <1>4, <1>14 DEF b, c

-----------------------------------------------------------------------------
(* Nothing has been taken at first.                                           *)
LEMMA MetAtInit ==
  ASSUME Init
  PROVE  MetSoFar
<1>1. Inv
  BY InvInit
<1>2. ASSUME NEW s \in Streams PROVE Took(s) = 0
  <2>1. Reader(s) \in Functions /\ at[Reader(s)] = 0
    BY EndsTyped DEF Init
  <2>2. TookFrom(s) = <<>>
    BY <2>1, TraceStart DEF TookFrom
  <2>3. QED
    BY <2>2, EmptySeq DEF Took
<1>3. Took("q_rot") = 0 /\ Took("v_pass") = 0 /\ Took("norm1_sc") = 0
  BY <1>2, NamedStreams
<1>4. launch.rows \in Nat \ {0} /\ Ratio \in Nat
  BY <1>1, ProgramFacts, Sizes DEF Inv
<1>5. ASSUME NEW h \in 0 .. HKv - 1 PROVE ~(0 > h * (launch.rows * Ratio))
  <2> DEFINE z == launch.rows * Ratio
  <2>1. z \in Nat /\ h \in Nat
    BY <1>4
  <2> HIDE DEF z
  <2>2. h * z \in Nat
    BY <2>1, Products
  <2>3. ~(0 > h * z)
    BY <2>2
  <2>4. QED
    BY <2>3 DEF z
<1>6. ~(0 > 0)
  OBVIOUS
<1>7. QED
  BY <1>3, <1>5, <1>6 DEF MetSoFar

(* What a step does to the counts.                                            *)
LEMMA ReadCounts ==
  ASSUME Inv, NEW f \in Functions, Read(f)
  PROVE  /\ launch' = launch
         /\ NextIo(f).stream \in Streams
         /\ fifo[NextIo(f).stream] # <<>>
         /\ \A s \in Streams :
              /\ Took(s) \in Nat
              /\ Took(s)' = IF s = NextIo(f).stream THEN Took(s) + 1 ELSE Took(s)
<1>1. ~Finished(f) /\ UNCHANGED launch /\ at' = [at EXCEPT ![f] = @ + 1] /\ NextIo(f).io = "read"
      /\ fifo[NextIo(f).stream] # <<>>
  BY DEF Read
<1>2. NextIo(f).stream \in Streams /\ NextIo(f).el \in Place
  BY <1>1, OpFacts DEF Inv, TypeOK
<1>3. \A s \in Streams : TookFrom(s)' = IF s = NextIo(f).stream THEN TookFrom(s) \o <<NextIo(f).el>> ELSE TookFrom(s)
  BY <1>1, StepTraces
<1>4. ASSUME NEW s \in Streams
      PROVE  Took(s) \in Nat /\ Took(s)' = IF s = NextIo(f).stream THEN Took(s) + 1 ELSE Took(s)
  <2> DEFINE r == TookFrom(s)
             el == NextIo(f).el
  <2>1. r \in Seq(Place) /\ el \in Place
    BY <1>2, TracesTyped
  <2>2. Took(s) = Len(r) /\ Took(s)' = Len(TookFrom(s)')
    BY DEF Took
  <2>3. TookFrom(s)' = IF s = NextIo(f).stream THEN r \o <<el>> ELSE r
    BY <1>3
  <2> HIDE DEF r, el
  <2>4. Len(r \o <<el>>) = Len(r) + 1 /\ Len(r) \in Nat
    BY <2>1
  <2>5. QED
    BY <2>2, <2>3, <2>4
<1>5. QED
  BY <1>1, <1>2, <1>4

(* A write takes nothing.                                                     *)
LEMMA WriteCounts ==
  ASSUME Inv, NEW f \in Functions, Write(f)
  PROVE  launch' = launch /\ \A s \in Streams : Took(s)' = Took(s)
<1>1. ~Finished(f) /\ UNCHANGED launch /\ at' = [at EXCEPT ![f] = @ + 1] /\ NextIo(f).io = "write"
  BY DEF Write
<1>2. \A s \in Streams : TookFrom(s)' = TookFrom(s)
  BY <1>1, StepTraces
<1>3. QED
  BY <1>1, <1>2 DEF Took

(* What is taken from was written to.                                         *)
LEMMA NotEmpty ==
  ASSUME Inv, NEW s \in Streams, fifo[s] # <<>>, Took(s) = 0
  PROVE  Wrote(s) > 0
<1>1. fifo[s] \in Seq(Place)
  BY TracesTyped
<1>2. Len(fifo[s]) \in Nat /\ Len(fifo[s]) # 0
  BY <1>1, EmptySeq
<1>3. Wrote(s) = Took(s) + Len(fifo[s]) /\ Wrote(s) \in Nat
  BY Flow
<1>4. Wrote(s) = 0 + Len(fifo[s])
  BY <1>3
<1>5. QED
  BY <1>2, <1>4

(* A read of the first scale, value or query of a head meets its condition.   *)
LEMMA ReadMeets ==
  ASSUME Inv, MetSoFar, NEW f \in Functions, Read(f)
  PROVE  MetSoFar'
<1> DEFINE x == NextIo(f).stream
<1>1. /\ launch' = launch /\ x \in Streams /\ fifo[x] # <<>>
      /\ \A s \in Streams : Took(s) \in Nat /\ Took(s)' = IF s = x THEN Took(s) + 1 ELSE Took(s)
  BY ReadCounts
<1>2. InStep'
  <2>1. Inv'
    BY ReadKeeps
  <2>2. Inv' => InStep'
    BY InStepHolds, PTL
  <2>3. QED
    BY <2>1, <2>2
<1>3. "q_rot" \in Streams /\ "k_rot" \in Streams /\ "v_pass" \in Streams /\ "norm1_sc" \in Streams /\ "norm1_q" \in Streams
  BY NamedStreams
<1> HIDE DEF x
<1>4. launch.rows \in Nat \ {0} /\ Ratio \in Nat /\ HKv \in Nat
  BY ProgramFacts, Sizes DEF Inv
<1>5. ASSUME NEW h \in 0 .. HKv - 1, Took("q_rot")' > h * (launch.rows * Ratio)
      PROVE  QueriesHeld(h) <= FifoD + 1 + launch.fifoAttn
  <2> DEFINE z == launch.rows * Ratio
             c == h * z
  <2>1. c \in Nat
    <3>1. z \in Nat /\ h \in Nat
      BY <1>4
    <3> HIDE DEF z
    <3>2. QED
      BY <3>1, Products
  <2>2. Took("q_rot")' > c
    BY <1>5
  <2>3. CASE Took("q_rot") > c
    BY <2>3 DEF MetSoFar
  <2>4. CASE ~(Took("q_rot") > c)
    <3>1. Took("q_rot") \in Nat /\ Took("q_rot")' = IF "q_rot" = x THEN Took("q_rot") + 1 ELSE Took("q_rot")
      BY <1>1, <1>3
    <3> HIDE DEF c
    <3>2. Took("q_rot") = c /\ x = "q_rot"
      BY <2>1, <2>2, <2>4, <3>1
    <3>3. Took("k_rot")' = Took("k_rot")
      BY <1>1, <1>3, <3>2
    <3>4. Took("k_rot")' >= (h + 1) * launch.rows
      <4>1. Took("q_rot")' > h * (launch'.rows * Ratio) => Took("k_rot")' >= (h + 1) * launch'.rows
        BY <1>2 DEF InStep
      <4>2. QED
        BY <4>1, <1>1, <1>5
    <3>5. Took("q_rot") = h * (launch.rows * Ratio) /\ Took("k_rot") >= (h + 1) * launch.rows
      BY <3>2, <3>3, <3>4 DEF c
    <3>6. QED
      BY <3>5, QueriesWait
  <2>5. QED
    BY <2>3, <2>4
<1>6. ASSUME Took("v_pass")' > 0
      PROVE  HKv - 1 <= FifoD + 1 + FifoD
  <2>1. CASE Took("v_pass") > 0
    BY <2>1 DEF MetSoFar
  <2>2. CASE ~(Took("v_pass") > 0)
    <3>1. Took("v_pass") \in Nat /\ Took("v_pass")' = IF "v_pass" = x THEN Took("v_pass") + 1 ELSE Took("v_pass")
      BY <1>1, <1>3
    <3>2. Took("v_pass") = 0 /\ x = "v_pass"
      BY <1>6, <2>2, <3>1
    <3>3. Wrote("v_pass") > 0
      BY <1>1, <1>3, <3>2, NotEmpty
    <3>4. QED
      BY <3>2, <3>3, KeysWait
  <2>3. QED
    BY <2>1, <2>2
<1>7. ASSUME Took("norm1_sc")' > 0
      PROVE  launch.rows <= launch.fifoSc
  <2>1. CASE Took("norm1_sc") > 0
    BY <2>1 DEF MetSoFar
  <2>2. CASE ~(Took("norm1_sc") > 0)
    <3>1. Took("norm1_sc") \in Nat /\ Took("norm1_sc")' = IF "norm1_sc" = x THEN Took("norm1_sc") + 1 ELSE Took("norm1_sc")
      BY <1>1, <1>3
    <3>2. Took("norm1_sc") = 0 /\ x = "norm1_sc"
      BY <1>7, <2>2, <3>1
    <3>3. Took("norm1_q")' = Took("norm1_q")
      BY <1>1, <1>3, <3>2
    <3>4. Took("norm1_q")' >= launch.rows * HQ
      <4>1. Took("norm1_sc")' > 0 => Took("norm1_q")' >= launch'.rows * HQ
        BY <1>2 DEF InStep
      <4>2. QED
        BY <4>1, <1>1, <1>7
    <3>5. Took("norm1_q") >= launch.rows * HQ
      BY <3>3, <3>4
    <3>6. QED
      BY <3>2, <3>5, ScalesWait
  <2>3. QED
    BY <2>1, <2>2
<1>8. QED
  BY <1>1, <1>5, <1>6, <1>7 DEF MetSoFar, QueriesHeld

(* A write does not touch what was met.                                       *)
LEMMA WriteMeets ==
  ASSUME Inv, MetSoFar, NEW f \in Functions, Write(f)
  PROVE  MetSoFar'
<1>1. launch' = launch /\ \A s \in Streams : Took(s)' = Took(s)
  BY WriteCounts
<1>2. Took("q_rot")' = Took("q_rot") /\ Took("v_pass")' = Took("v_pass") /\ Took("norm1_sc")' = Took("norm1_sc")
  BY <1>1, NamedStreams
<1>3. QED
  BY <1>1, <1>2 DEF MetSoFar, QueriesHeld

(* No launch takes the first scale, the first value or a query of a head      *)
(* unless its streams are deep enough to hold what is written before it and   *)
(* taken after it (rope_split_qk, attention.h and w4a8_gemm in their          *)
(* orders).                                                                   *)
THEOREM ConditionsMet == Spec => []MetSoFar
<1>1. Init => MetSoFar
  BY MetAtInit
<1>2. Inv /\ MetSoFar /\ [Next]_vars => MetSoFar'
  <2> SUFFICES ASSUME Inv, MetSoFar, [Next]_vars PROVE MetSoFar'
    OBVIOUS
  <2>1. ASSUME NEW f \in Functions, Read(f) PROVE MetSoFar'
    BY <2>1, ReadMeets
  <2>2. ASSUME NEW f \in Functions, Write(f) PROVE MetSoFar'
    BY <2>2, WriteMeets
  <2>3. CASE UNCHANGED vars
    BY <2>3 DEF vars, MetSoFar, QueriesHeld, Took, TookFrom, Program, Programs
  <2>4. QED
    BY <2>1, <2>2, <2>3 DEF Next
<1>3. QED
  BY <1>1, <1>2, Invariant, PTL DEF Spec

(* At the end of a launch everything has been taken.                          *)
LEMMA AllTaken ==
  ASSUME Inv, AllFinished, NEW s \in Streams
  PROVE  Took(s) = Len(Wanted(launch.rows, s))
<1>1. Reader(s) \in Functions
  BY EndsTyped
<1>2. at[Reader(s)] = Len(Program[Reader(s)])
  BY <1>1 DEF AllFinished, Finished
<1>3. TookFrom(s) = Wanted(launch.rows, s)
  BY <1>2, WholeTraces DEF TookFrom, Elements
<1>4. QED
  BY <1>3 DEF Took

(* By the end the first scale, the first value and the queries of every       *)
(* head have been taken.                                                      *)
LEMMA CompletesOnlyIfHolds ==
  ASSUME Inv, MetSoFar
  PROVE  CompletesOnlyIf
<1> SUFFICES ASSUME AllFinished PROVE StreamsHold
  BY DEF CompletesOnlyIf
<1> DEFINE rows == launch.rows
           z == rows * Ratio
<1>1. rows \in Nat \ {0} /\ Ratio \in Nat \ {0} /\ HKv \in Nat \ {0}
  BY ProgramFacts, Sizes DEF Inv
<1>2. /\ Took("q_rot") = Len(QueryOrder(rows)) /\ Took("v_pass") = Len(HeadMajor(rows))
      /\ Took("norm1_sc") = Len(Scales(rows))
  BY AllTaken, NamedStreams, WantedValues
<1>3. Took("q_rot") = HKv * z /\ Took("v_pass") = HKv * rows /\ Took("norm1_sc") = rows
  BY <1>1, <1>2, QueryOrderFacts, HeadMajorFacts, ScalesFacts
<1>4. z \in Nat /\ z > 0 /\ HKv * rows > 0
  BY <1>1
<1>5. Took("norm1_sc") > 0 /\ Took("v_pass") > 0
  BY <1>1, <1>3, <1>4
<1>6. ASSUME NEW h \in 0 .. HKv - 1 PROVE Took("q_rot") > h * z
  <2>1. h \in Nat /\ HKv \in Nat /\ h < HKv
    BY <1>1
  <2> HIDE DEF z
  <2>2. h * z \in Nat /\ HKv * z \in Nat /\ h * z + z <= HKv * z
    BY <1>4, <2>1, Products
  <2> DEFINE a == h * z
             b == HKv * z
  <2> HIDE DEF a, b
  <2>3. b > a
    BY <1>4, <2>2 DEF a, b
  <2>4. QED
    BY <1>3, <2>3 DEF a, b
<1>7. QED
  BY <1>5, <1>6 DEF MetSoFar, StreamsHold

(* A launch whose streams are too shallow for the scales of its rows, the     *)
(* keys of its heads or the queries of a head never completes: its            *)
(* functions wait for each other for ever.                                    *)
THEOREM CompletedOnlyIf == Spec => []CompletesOnlyIf
<1>1. Inv /\ MetSoFar => CompletesOnlyIf
  BY CompletesOnlyIfHolds
<1>2. QED
  BY <1>1, Invariant, ConditionsMet, PTL

-----------------------------------------------------------------------------
(* A launch whose streams hold what must wait in them never gets stuck.       *)

(* What is left to show once CompletesOnlyIf is known.                         *)
NeverStuck == StreamsHold /\ Stuck => AllFinished

(* The next operation of f.                                                   *)
Waits(f, io, s) == ~Finished(f) /\ NextIo(f).io = io /\ NextIo(f).stream = s

(* A function that has not finished waits on one of its own streams.          *)
LEMMA WaitsForOne ==
  ASSUME Inv, NEW f \in Functions, ~Finished(f)
  PROVE  \/ \E s \in Streams : f = Reader(s) /\ Waits(f, "read", s)
         \/ \E s \in Streams : f = Writer(s) /\ Waits(f, "write", s)
<1>1. /\ NextIo(f).io \in {"read", "write"} /\ NextIo(f).stream \in Streams
      /\ f = IF NextIo(f).io = "read" THEN Reader(NextIo(f).stream) ELSE Writer(NextIo(f).stream)
  BY OpFacts, OnlyEnds DEF Inv, TypeOK
<1>2. QED
  BY <1>1 DEF Waits

LEMMA WaitsAtEnd ==
  ASSUME Inv, NEW f \in Functions, NEW s \in Streams
  PROVE  /\ Waits(f, "read", s) => f = Reader(s)
         /\ Waits(f, "write", s) => f = Writer(s)
<1>1. ~Finished(f) => f = IF NextIo(f).io = "read" THEN Reader(NextIo(f).stream) ELSE Writer(NextIo(f).stream)
  BY OnlyEnds DEF Inv, TypeOK
<1>2. QED
  BY <1>1 DEF Waits

(* Its next operation counts one more on its stream and none on the others.   *)
LEMMA CountsNext ==
  ASSUME Inv, NEW f \in Functions, NEW io, NEW s, Waits(f, io, s)
  PROVE  /\ at[f] + 1 \in 0 .. Len(Program[f])
         /\ Does(f, io, s) \in Nat
         /\ Len(Trace(Program[f], io, s, at[f] + 1)) = Does(f, io, s) + 1
         /\ \A i, r : i # io \/ r # s => Len(Trace(Program[f], i, r, at[f] + 1)) = Does(f, i, r)
<1> DEFINE p == Program[f]
           op == NextIo(f)
           j == at[f]
<1>1. p \in Seq(Op) /\ j \in 0 .. Len(p)
  BY ProgramFacts DEF Inv, TypeOK
<1>2. op \in Op /\ j \in Nat /\ j + 1 \in 0 .. Len(p) /\ op = p[j + 1] /\ op.io = io /\ op.stream = s
  <2>1. ~Finished(f) /\ op.io = io /\ op.stream = s
    BY DEF Waits
  <2>2. op = p[j + 1]
    BY DEF NextIo
  <2>3. QED
    BY <1>1, <2>1, <2>2, OpFacts DEF Inv
<1>3. \A i, r : Does(f, i, r) = Len(Trace(p, i, r, j))
  BY DEF Does
<1> HIDE DEF p, op, j
<1>4. \A i, r : Trace(p, i, r, j + 1) = Trace(p, i, r, j) \o Picked(op, i, r) /\ Trace(p, i, r, j) \in Seq(Place)
  BY <1>1, <1>2, TraceStep, TraceType
<1>5. Picked(op, io, s) = <<op.el>> /\ op.el \in Place
  BY <1>2 DEF Picked, Op
<1>6. Len(Trace(p, io, s, j + 1)) = Len(Trace(p, io, s, j)) + 1 /\ Len(Trace(p, io, s, j)) \in Nat
  <2> DEFINE u == Trace(p, io, s, j)
             e == op.el
  <2>1. u \in Seq(Place) /\ e \in Place /\ Trace(p, io, s, j + 1) = u \o <<e>>
    BY <1>4, <1>5
  <2> HIDE DEF u, e
  <2>2. Len(u \o <<e>>) = Len(u) + 1 /\ Len(u) \in Nat
    BY <2>1
  <2>3. QED
    BY <2>1, <2>2 DEF u
<1>7. ASSUME NEW i, NEW r, i # io \/ r # s
      PROVE  Len(Trace(p, i, r, j + 1)) = Len(Trace(p, i, r, j))
  <2>1. Picked(op, i, r) = <<>>
    BY <1>2, <1>7 DEF Picked
  <2>2. QED
    BY <1>4, <2>1, ConcatEmptySeq
<1>8. QED
  BY <1>2, <1>3, <1>6, <1>7 DEF p, j

(* What Precedes and HandsOn say when the next operation is that one.         *)
LEMMA DoneBeforeNext ==
  ASSUME Inv, NEW f \in Functions, NEW io1, NEW s1, NEW m, NEW io2, NEW s2, NEW n \in Nat,
         Precedes(Program[f], io1, s1, m, io2, s2, n), Waits(f, io2, s2), io1 # io2 \/ s1 # s2,
         Does(f, io2, s2) >= n
  PROVE  Does(f, io1, s1) >= m
<1> DEFINE j == at[f] + 1
<1>1. /\ j \in 0 .. Len(Program[f]) /\ Does(f, io2, s2) \in Nat
      /\ Len(Trace(Program[f], io2, s2, j)) = Does(f, io2, s2) + 1
      /\ Len(Trace(Program[f], io1, s1, j)) = Does(f, io1, s1)
  BY CountsNext
<1> HIDE DEF j
<1>2. Len(Trace(Program[f], io2, s2, j)) > n
  BY <1>1
<1>3. Len(Trace(Program[f], io1, s1, j)) >= m
  BY <1>1, <1>2 DEF Precedes
<1>4. QED
  BY <1>1, <1>3

LEMMA HandedOnNext ==
  ASSUME Inv, NEW f \in Functions, NEW in, NEW how, NEW out, how = "write" \/ in # out,
         HandsOn(Program[f], in, how, out)
  PROVE  /\ Waits(f, "read", in) => Does(f, "read", in) + 1 <= Does(f, how, out) + 1
         /\ Waits(f, how, out) => Does(f, how, out) + 1 <= Does(f, "read", in)
<1> DEFINE j == at[f] + 1
<1>1. j \in 0 .. Len(Program[f]) => InHand(Program[f], in, how, out, j)
  BY DEF HandsOn
<1>2. ASSUME Waits(f, "read", in) PROVE Does(f, "read", in) + 1 <= Does(f, how, out) + 1
  <2>1. /\ j \in 0 .. Len(Program[f])
        /\ Len(Trace(Program[f], "read", in, j)) = Does(f, "read", in) + 1
        /\ Len(Trace(Program[f], how, out, j)) = Does(f, how, out)
    BY <1>2, CountsNext
  <2>2. QED
    BY <1>1, <2>1 DEF InHand
<1>3. ASSUME Waits(f, how, out) PROVE Does(f, how, out) + 1 <= Does(f, "read", in)
  <2>1. /\ j \in 0 .. Len(Program[f])
        /\ Len(Trace(Program[f], how, out, j)) = Does(f, how, out) + 1
        /\ Len(Trace(Program[f], "read", in, j)) = Does(f, "read", in)
    BY <1>3, CountsNext
  <2>2. QED
    BY <1>1, <2>1 DEF InHand
<1>4. QED
  BY <1>2, <1>3

-----------------------------------------------------------------------------
(* What a function that waits for ever says of the function at the other end. *)

(* How far the two ends of a stream are.                                      *)
LEMMA EndCounts ==
  ASSUME Inv, NEW s \in Streams
  PROVE  /\ Len(Written(launch.rows, s)) \in Nat
         /\ Wrote(s) = Does(Writer(s), "write", s) /\ Took(s) = Does(Reader(s), "read", s)
         /\ Finished(Writer(s)) => Wrote(s) = Len(Written(launch.rows, s))
         /\ Finished(Reader(s)) => Took(s) = Len(Written(launch.rows, s))
         /\ Waits(Writer(s), "write", s) => Wrote(s) + 1 <= Len(Written(launch.rows, s))
         /\ Waits(Reader(s), "read", s) => Took(s) + 1 <= Len(Written(launch.rows, s))
<1> DEFINE w == Writer(s)
           r == Reader(s)
           n == Len(Written(launch.rows, s))
<1>1. w \in Functions /\ r \in Functions
  BY EndsTyped
<1>2. Program[w] \in Seq(Op) /\ Program[r] \in Seq(Op) /\ launch.rows \in Nat \ {0}
  BY <1>1, ProgramFacts DEF Inv
<1>3. Elements(Program[w], "write", s) = Written(launch.rows, s) /\ Elements(Program[r], "read", s) = Wanted(launch.rows, s)
  BY WholeTraces
<1>4. Len(Wanted(launch.rows, s)) = n
  BY <1>2, SameLength
<1>5. n \in Nat
  BY <1>2, <1>3, ElementsType
<1>6. Wrote(s) = Does(w, "write", s) /\ Took(s) = Does(r, "read", s)
  BY DEF Wrote, Took, WroteTo, TookFrom, Does
<1>7. Finished(w) => Wrote(s) = n
  BY <1>3 DEF Finished, Elements, Wrote, WroteTo
<1>8. Finished(r) => Took(s) = n
  BY <1>3, <1>4 DEF Finished, Elements, Took, TookFrom
<1> HIDE DEF n
<1>9. ASSUME Waits(w, "write", s) PROVE Wrote(s) + 1 <= n
  <2>1. /\ at[w] + 1 \in 0 .. Len(Program[w])
        /\ Len(Trace(Program[w], "write", s, at[w] + 1)) = Does(w, "write", s) + 1
    BY <1>1, <1>9, CountsNext
  <2>2. Len(Trace(Program[w], "write", s, at[w] + 1)) <= Len(Elements(Program[w], "write", s))
    BY <1>2, <2>1, TraceWithin
  <2>3. QED
    BY <1>3, <1>6, <2>1, <2>2 DEF n
<1>10. ASSUME Waits(r, "read", s) PROVE Took(s) + 1 <= n
  <2>1. /\ at[r] + 1 \in 0 .. Len(Program[r])
        /\ Len(Trace(Program[r], "read", s, at[r] + 1)) = Does(r, "read", s) + 1
    BY <1>1, <1>10, CountsNext
  <2>2. Len(Trace(Program[r], "read", s, at[r] + 1)) <= Len(Elements(Program[r], "read", s))
    BY <1>2, <2>1, TraceWithin
  <2>3. QED
    BY <1>3, <1>4, <1>6, <2>1, <2>2
<1>11. QED
  BY <1>5, <1>6, <1>7, <1>8, <1>9, <1>10 DEF n

(* Everything written has been taken and the writer is kept from more by      *)
(* another stream.                                                            *)
LEMMA Starved ==
  ASSUME Inv, Stuck, NEW s \in Streams, Waits(Reader(s), "read", s)
  PROVE  /\ Wrote(s) = Took(s) /\ Took(s) \in Nat /\ Took(s) + 1 <= Len(Written(launch.rows, s))
         /\ ~Finished(Writer(s)) /\ ~Waits(Writer(s), "write", s)
<1>1. Reader(s) \in Functions /\ Writer(s) \in Functions
  BY EndsTyped
<1>2. ~Ready(Reader(s)) /\ ~Ready(Writer(s))
  BY <1>1 DEF Stuck
<1>3. fifo[s] = <<>>
  BY <1>2 DEF Ready, Waits
<1>4. /\ Wrote(s) \in Nat /\ Took(s) \in Nat /\ Wrote(s) = Took(s) + Len(fifo[s])
  BY Flow
<1>5. Len(fifo[s]) = 0
  BY <1>3, EmptySeq
<1>6. Wrote(s) = Took(s)
  BY <1>4, <1>5
<1>7. Took(s) + 1 <= Len(Written(launch.rows, s)) /\ Len(Written(launch.rows, s)) \in Nat
  BY EndCounts
<1>8. ~Finished(Writer(s))
  <2>1. Finished(Writer(s)) => Wrote(s) = Len(Written(launch.rows, s))
    BY EndCounts
  <2>2. QED
    BY <1>4, <1>6, <1>7, <2>1
<1>9. ~Waits(Writer(s), "write", s)
  <2>1. Depth(s) \in Nat \ {0}
    BY DepthFacts DEF Inv
  <2>2. Len(fifo[s]) < Depth(s)
    BY <1>5, <2>1
  <2>3. QED
    BY <1>2, <2>2 DEF Ready, Waits
<1>10. QED
  BY <1>4, <1>6, <1>7, <1>8, <1>9

(* The stream is full and the reader is kept from it by another stream.       *)
LEMMA Blocked ==
  ASSUME Inv, Stuck, NEW s \in Streams, Waits(Writer(s), "write", s)
  PROVE  /\ Wrote(s) = Took(s) + Depth(s) /\ Took(s) \in Nat /\ Depth(s) \in Nat \ {0}
         /\ Wrote(s) + 1 <= Len(Written(launch.rows, s))
         /\ ~Finished(Reader(s)) /\ ~Waits(Reader(s), "read", s)
<1>1. Reader(s) \in Functions /\ Writer(s) \in Functions
  BY EndsTyped
<1>2. ~Ready(Reader(s)) /\ ~Ready(Writer(s))
  BY <1>1 DEF Stuck
<1>3. Depth(s) \in Nat \ {0}
  BY DepthFacts DEF Inv
<1>4. /\ Wrote(s) \in Nat /\ Took(s) \in Nat /\ Wrote(s) = Took(s) + Len(fifo[s])
      /\ Len(fifo[s]) \in Nat /\ Len(fifo[s]) <= Depth(s)
  BY Flow
<1>5. Len(fifo[s]) = Depth(s)
  <2>1. ~(Len(fifo[s]) < Depth(s))
    BY <1>2 DEF Ready, Waits
  <2>2. QED
    BY <1>3, <1>4, <2>1
<1>6. Wrote(s) = Took(s) + Depth(s)
  BY <1>4, <1>5
<1>7. Wrote(s) + 1 <= Len(Written(launch.rows, s)) /\ Len(Written(launch.rows, s)) \in Nat
  BY EndCounts
<1>8. ~Finished(Reader(s))
  <2>1. Finished(Reader(s)) => Took(s) = Len(Written(launch.rows, s))
    BY EndCounts
  <2> DEFINE n == Len(Written(launch.rows, s))
             d == Depth(s)
  <2>2. n \in Nat /\ d \in Nat \ {0} /\ Wrote(s) = Took(s) + d /\ Wrote(s) + 1 <= n
    BY <1>3, <1>6, <1>7
  <2> HIDE DEF n, d
  <2>3. Took(s) # n
    BY <1>4, <2>2
  <2>4. QED
    BY <2>1, <2>3 DEF n
<1>9. ~Waits(Reader(s), "read", s)
  <2>1. fifo[s] # <<>>
    BY <1>3, <1>5, EmptySeq
  <2>2. QED
    BY <1>2, <2>1 DEF Ready, Waits
<1>10. QED
  BY <1>3, <1>4, <1>6, <1>7, <1>8, <1>9

-----------------------------------------------------------------------------
(* The streams of each function.                                              *)
LEMMA OneStreamEach ==
  \A r \in Streams :
    /\ Reader(r) = "lm_out" => r = "lm_out"
    /\ Reader(r) = "lm_norm" => r = "lm_raw"
    /\ Reader(r) = "store" => r = "res_buf_1_out"
    /\ Reader(r) = "residual2" => r = "down_out"
    /\ Reader(r) = "silu" => r = "gateup_out"
    /\ Reader(r) = "rmsnorm2" => r = "raw_act2"
    /\ Reader(r) = "res_to_stream2" => r = "res_buf_1"
    /\ Reader(r) = "residual" => r = "oproj_out"
    /\ Reader(r) = "act_quant" => r = "o_flat"
    /\ Reader(r) = "o_scatter" => r = "attn_o"
    /\ Reader(r) = "rope_q" => r = "q_pre"
    /\ Reader(r) = "rope_k" => r = "k_pre"
    /\ Reader(r) = "split" => r = "qkv_out"
    /\ Reader(r) = "rmsnorm" => r = "raw_act"
    /\ Writer(r) = "lm_gemm" => r = "lm_out"
    /\ Writer(r) = "store" => r = "lm_raw"
    /\ Writer(r) = "residual2" => r = "res_buf_1_out"
    /\ Writer(r) = "down_gemm" => r = "down_out"
    /\ Writer(r) = "gateup_gemm" => r = "gateup_out"
    /\ Writer(r) = "res_to_stream2" => r = "raw_act2"
    /\ Writer(r) = "residual" => r = "res_buf_1"
    /\ Writer(r) = "o_gemm" => r = "oproj_out"
    /\ Writer(r) = "o_scatter" => r = "o_flat"
    /\ Writer(r) = "attention" => r = "attn_o"
    /\ Writer(r) = "rope_q" => r = "q_rot"
    /\ Writer(r) = "rope_k" => r = "k_rot"
    /\ Writer(r) = "qkv_gemm" => r = "qkv_out"
    /\ Writer(r) = "res_to_stream" => r = "raw_act"
BY WriterValues, ReaderValues DEF Streams

LEMMA TwoStreamsEach ==
  \A r \in Streams :
    /\ Reader(r) = "lm_gemm" => r \in {"lm_q", "lm_sc"}
    /\ Reader(r) = "down_gemm" => r \in {"ffn_act", "ffn_sc"}
    /\ Reader(r) = "gateup_gemm" => r \in {"norm2_q", "norm2_sc"}
    /\ Reader(r) = "o_gemm" => r \in {"o_q", "o_sc"}
    /\ Reader(r) = "qkv_gemm" => r \in {"norm1_q", "norm1_sc"}
    /\ Reader(r) = "attention" => r \in {"q_rot", "k_rot", "v_pass"}
    /\ Writer(r) = "lm_norm" => r \in {"lm_q", "lm_sc"}
    /\ Writer(r) = "silu" => r \in {"ffn_act", "ffn_sc"}
    /\ Writer(r) = "rmsnorm2" => r \in {"norm2_q", "norm2_sc"}
    /\ Writer(r) = "act_quant" => r \in {"o_q", "o_sc"}
    /\ Writer(r) = "rmsnorm" => r \in {"norm1_q", "norm1_sc"}
    /\ Writer(r) = "split" => r \in {"q_pre", "k_pre", "v_pass"}
BY WriterValues, ReaderValues DEF Streams

LEMMA NoStreamEach ==
  \A r \in Streams : Writer(r) # "lm_out" /\ Reader(r) # "res_to_stream"
BY WriterValues, ReaderValues DEF Streams

(* Function f does not wait to write.                                         *)
Flows(f) == \A s \in Streams : ~Waits(f, "write", s)

(* A function whose only stream out goes to one with no other stream in.      *)
LEMMA FlowsAlone ==
  ASSUME Inv, Stuck, NEW f \in Functions, NEW g \in Functions, NEW s \in Streams,
         Writer(s) = f, Reader(s) = g, Flows(g),
         \A r \in Streams : Writer(r) = f => r = s,
         \A r \in Streams : Reader(r) = g => r = s
  PROVE  Flows(f)
<1> SUFFICES ASSUME NEW x \in Streams, Waits(f, "write", x) PROVE FALSE
  BY DEF Flows
<1>1. x = s
  BY WaitsAtEnd
<1>2. ~Finished(g) /\ ~Waits(g, "read", s)
  BY <1>1, Blocked
<1>3. PICK y \in Streams : g = Reader(y) /\ Waits(g, "read", y)
  BY <1>2, WaitsForOne DEF Flows
<1>4. y = s
  BY <1>3
<1>5. QED
  BY <1>2, <1>3, <1>4

(* A quantiser and the GEMM it feeds: a row's scale and the row itself.        *)
LEMMA FlowsInPair ==
  ASSUME Inv, Stuck, NEW f \in Functions, NEW g \in Functions, NEW q \in Streams, NEW sc \in Streams, q # sc,
         Writer(q) = f, Reader(q) = g, Writer(sc) = f, Reader(sc) = g, Flows(g),
         \A r \in Streams : Writer(r) = f => r \in {q, sc},
         \A r \in Streams : Reader(r) = g => r \in {q, sc},
         ~Finished(g) => Precedes(Program[g], "read", q, Len(Written(launch.rows, q)), "read", sc, 0),
         Len(Written(launch.rows, sc)) <= Depth(sc)
  PROVE  Flows(f)
<1> SUFFICES ASSUME NEW x \in Streams, Waits(f, "write", x) PROVE FALSE
  BY DEF Flows
<1>1. x \in {q, sc}
  BY WaitsAtEnd
<1>2. CASE x = sc
  <2>1. /\ Wrote(sc) = Took(sc) + Depth(sc) /\ Took(sc) \in Nat /\ Depth(sc) \in Nat
        /\ Wrote(sc) + 1 <= Len(Written(launch.rows, sc)) /\ Len(Written(launch.rows, sc)) \in Nat
    BY <1>2, Blocked, EndCounts
  <2> DEFINE n == Len(Written(launch.rows, sc))
             d == Depth(sc)
  <2>2. Wrote(sc) = Took(sc) + d /\ d \in Nat /\ Wrote(sc) + 1 <= n /\ n \in Nat /\ n <= d
    BY <2>1
  <2> HIDE DEF n, d
  <2>3. QED
    BY <2>1, <2>2
<1>3. CASE x = q
  <2>1. ~Finished(g) /\ ~Waits(g, "read", q) /\ Wrote(q) + 1 <= Len(Written(launch.rows, q))
    BY <1>3, Blocked
  <2>2. PICK y \in Streams : g = Reader(y) /\ Waits(g, "read", y)
    BY <2>1, WaitsForOne DEF Flows
  <2>3. y = sc
    BY <2>1, <2>2
  <2>4. Does(g, "read", sc) >= 0
    <3>1. Does(g, "read", sc) \in Nat
      BY <2>2, <2>3, CountsNext
    <3>2. QED
      BY <3>1
  <2>5. Does(g, "read", q) >= Len(Written(launch.rows, q))
    BY <2>1, <2>2, <2>3, <2>4, DoneBeforeNext
  <2>6. Took(q) >= Len(Written(launch.rows, q)) /\ Len(Written(launch.rows, q)) \in Nat
    BY <2>5, EndCounts
  <2>7. Wrote(q) = Took(q) + Len(fifo[q]) /\ Took(q) \in Nat /\ Len(fifo[q]) \in Nat /\ Wrote(q) \in Nat
    BY Flow
  <2> DEFINE n == Len(Written(launch.rows, q))
  <2>8. Took(q) >= n /\ Wrote(q) + 1 <= n /\ n \in Nat
    BY <2>1, <2>6
  <2> HIDE DEF n
  <2>9. QED
    BY <2>7, <2>8
<1>4. QED
  BY <1>1, <1>2, <1>3

-----------------------------------------------------------------------------
(* The GEMMs that read a pair of streams.                                     *)
PairHolds(g, q, sc) ==
  /\ ~Finished(g) => Precedes(Program[g], "read", q, Len(Written(launch.rows, q)), "read", sc, 0)
  /\ Len(Written(launch.rows, sc)) <= Depth(sc)

(* A GEMM takes all rows first, and the scales of all of them have room.      *)
LEMMA PairsHold ==
  ASSUME Inv, StreamsHold
  PROVE  /\ PairHolds("lm_gemm", "lm_q", "lm_sc")
         /\ PairHolds("down_gemm", "ffn_act", "ffn_sc")
         /\ PairHolds("gateup_gemm", "norm2_q", "norm2_sc")
         /\ PairHolds("o_gemm", "o_q", "o_sc")
         /\ PairHolds("qkv_gemm", "norm1_q", "norm1_sc")
<1> DEFINE rows == launch.rows
<1>1. /\ rows \in Nat \ {0} /\ launch.fifoSc \in Nat \ {0} /\ HQ \in Nat /\ Ffn \in Nat /\ Vocab \in Nat
      /\ NQkv \in Nat /\ 2 * Ffn \in Nat /\ 1 \in Nat \ {0}
  BY ProgramFacts, Sizes DEF Inv
<1>2. rows <= launch.fifoSc
  BY DEF StreamsHold
<1>3. \A f \in Functions : Program[f] = ProgramOf(rows)[f] /\ at[f] \in 0 .. Len(Program[f])
  BY ProgramFacts DEF Inv, TypeOK
<1>4. /\ Depth("lm_sc") = launch.fifoSc /\ Depth("ffn_sc") = launch.fifoSc /\ Depth("norm2_sc") = launch.fifoSc
      /\ Depth("o_sc") = launch.fifoSc /\ Depth("norm1_sc") = launch.fifoSc
  BY DEF Depth
<1>5. Len(Scales(rows)) = rows /\ Len(Scales(1)) = 1 /\ Len(<<>>) = 0
  BY <1>1, ScalesFacts, EmptySeq
<1>6. /\ Len(RowMajor(rows, HQ)) = rows * HQ /\ Len(RowMajor(rows, Ffn)) = rows * Ffn
      /\ Len(RowMajor(1, HQ)) = 1 * HQ
  BY <1>1, RowMajorFacts
<1>7. PairHolds("lm_gemm", "lm_q", "lm_sc")
  <2>1. Len(Written(rows, "lm_sc")) <= Depth("lm_sc")
    <3>1. Len(Written(rows, "lm_sc")) \in {0, 1}
      BY <1>5, WrittenValues
    <3>2. Depth("lm_sc") \in Nat \ {0}
      BY <1>1, <1>4
    <3>3. \A a \in {0, 1}, d \in Nat \ {0} : a <= d
      OBVIOUS
    <3>4. QED
      BY <3>1, <3>2, <3>3
  <2>2. ASSUME ~Finished("lm_gemm")
        PROVE  Precedes(Program["lm_gemm"], "read", "lm_q", Len(Written(rows, "lm_q")), "read", "lm_sc", 0)
    <3>1. Program["lm_gemm"] = IfLmHead(Gemm("lm_q", "lm_sc", "lm_out", 1, HQ, Vocab)) /\ at["lm_gemm"] \in 0 .. Len(Program["lm_gemm"])
      BY <1>3 DEF ProgramOf, Functions
    <3>2. RunLmHead
      <4>1. Program["lm_gemm"] # <<>>
        BY <1>5, <2>2, <3>1 DEF Finished
      <4>2. QED
        BY <3>1, <4>1 DEF IfLmHead
    <3>3. Program["lm_gemm"] = Gemm("lm_q", "lm_sc", "lm_out", 1, HQ, Vocab) /\ Len(Written(rows, "lm_q")) = 1 * HQ
      BY <1>6, <3>1, <3>2, WrittenValues DEF IfLmHead
    <3>4. Precedes(Gemm("lm_q", "lm_sc", "lm_out", 1, HQ, Vocab), "read", "lm_q", 1 * HQ, "read", "lm_sc", 0)
      BY <1>1, NamedStreams, GemmPrecedes
    <3>5. QED
      BY <3>3, <3>4
  <2>3. QED
    BY <2>1, <2>2 DEF PairHolds
<1>8. PairHolds("down_gemm", "ffn_act", "ffn_sc")
  <2>1. Len(Written(rows, "ffn_sc")) <= Depth("ffn_sc")
    BY <1>1, <1>2, <1>4, <1>5, WrittenValues
  <2>2. Program["down_gemm"] = Gemm("ffn_act", "ffn_sc", "down_out", rows, Ffn, HQ)
    BY <1>3 DEF ProgramOf, Functions
  <2>3. Len(Written(rows, "ffn_act")) = rows * Ffn
    BY <1>6, WrittenValues
  <2>4. Precedes(Gemm("ffn_act", "ffn_sc", "down_out", rows, Ffn, HQ), "read", "ffn_act", rows * Ffn, "read", "ffn_sc", 0)
    BY <1>1, NamedStreams, GemmPrecedes
  <2>5. QED
    BY <2>1, <2>2, <2>3, <2>4 DEF PairHolds
<1>9. PairHolds("gateup_gemm", "norm2_q", "norm2_sc")
  <2>1. Len(Written(rows, "norm2_sc")) <= Depth("norm2_sc")
    BY <1>1, <1>2, <1>4, <1>5, WrittenValues
  <2>2. Program["gateup_gemm"] = Gemm("norm2_q", "norm2_sc", "gateup_out", rows, HQ, 2 * Ffn)
    BY <1>3 DEF ProgramOf, Functions
  <2>3. Len(Written(rows, "norm2_q")) = rows * HQ
    BY <1>6, WrittenValues
  <2>4. Precedes(Gemm("norm2_q", "norm2_sc", "gateup_out", rows, HQ, 2 * Ffn), "read", "norm2_q", rows * HQ, "read", "norm2_sc", 0)
    BY <1>1, NamedStreams, GemmPrecedes
  <2>5. QED
    BY <2>1, <2>2, <2>3, <2>4 DEF PairHolds
<1>10. PairHolds("o_gemm", "o_q", "o_sc")
  <2>1. Len(Written(rows, "o_sc")) <= Depth("o_sc")
    BY <1>1, <1>2, <1>4, <1>5, WrittenValues
  <2>2. Program["o_gemm"] = Gemm("o_q", "o_sc", "oproj_out", rows, HQ, HQ)
    BY <1>3 DEF ProgramOf, Functions
  <2>3. Len(Written(rows, "o_q")) = rows * HQ
    BY <1>6, WrittenValues
  <2>4. Precedes(Gemm("o_q", "o_sc", "oproj_out", rows, HQ, HQ), "read", "o_q", rows * HQ, "read", "o_sc", 0)
    BY <1>1, NamedStreams, GemmPrecedes
  <2>5. QED
    BY <2>1, <2>2, <2>3, <2>4 DEF PairHolds
<1>11. PairHolds("qkv_gemm", "norm1_q", "norm1_sc")
  <2>1. Len(Written(rows, "norm1_sc")) <= Depth("norm1_sc")
    BY <1>1, <1>2, <1>4, <1>5, WrittenValues
  <2>2. Program["qkv_gemm"] = Gemm("norm1_q", "norm1_sc", "qkv_out", rows, HQ, NQkv)
    BY <1>3 DEF ProgramOf, Functions
  <2>3. Len(Written(rows, "norm1_q")) = rows * HQ
    BY <1>6, WrittenValues
  <2>4. Precedes(Gemm("norm1_q", "norm1_sc", "qkv_out", rows, HQ, NQkv), "read", "norm1_q", rows * HQ, "read", "norm1_sc", 0)
    BY <1>1, NamedStreams, GemmPrecedes
  <2>5. QED
    BY <2>1, <2>2, <2>3, <2>4 DEF PairHolds
<1>12. QED
  BY <1>7, <1>8, <1>9, <1>10, <1>11

(* From the last function up to attention nothing waits to write.             *)
LEMMA DownstreamFlows ==
  ASSUME Inv, Stuck, StreamsHold
  PROVE  /\ Flows("lm_out")
         /\ Flows("lm_gemm")
         /\ Flows("lm_norm")
         /\ Flows("store")
         /\ Flows("residual2")
         /\ Flows("down_gemm")
         /\ Flows("silu")
         /\ Flows("gateup_gemm")
         /\ Flows("rmsnorm2")
         /\ Flows("res_to_stream2")
         /\ Flows("residual")
         /\ Flows("o_gemm")
         /\ Flows("act_quant")
         /\ Flows("o_scatter")
         /\ Flows("attention")
<1>1. Flows("lm_out")
  BY WaitsAtEnd, NoStreamEach DEF Flows, Functions
<1>2. Flows("lm_gemm")
  <2>1. "lm_gemm" \in Functions /\ "lm_out" \in Functions /\ "lm_out" \in Streams
    BY NamedStreams DEF Functions
  <2>2. Writer("lm_out") = "lm_gemm" /\ Reader("lm_out") = "lm_out"
    BY WriterValues, ReaderValues
  <2>3. \A r \in Streams : (Writer(r) = "lm_gemm" => r = "lm_out") /\ (Reader(r) = "lm_out" => r = "lm_out")
    BY OneStreamEach
  <2>4. QED
    BY <1>1, <2>1, <2>2, <2>3, FlowsAlone
<1>3. Flows("lm_norm")
  <2>1. /\ "lm_norm" \in Functions /\ "lm_gemm" \in Functions /\ "lm_q" \in Streams /\ "lm_sc" \in Streams
        /\ "lm_q" # "lm_sc"
    BY NamedStreams DEF Functions
  <2>2. /\ Writer("lm_q") = "lm_norm" /\ Reader("lm_q") = "lm_gemm"
        /\ Writer("lm_sc") = "lm_norm" /\ Reader("lm_sc") = "lm_gemm"
    BY WriterValues, ReaderValues
  <2>3. \A r \in Streams :
          (Writer(r) = "lm_norm" => r \in {"lm_q", "lm_sc"}) /\ (Reader(r) = "lm_gemm" => r \in {"lm_q", "lm_sc"})
    BY TwoStreamsEach
  <2>4. PairHolds("lm_gemm", "lm_q", "lm_sc")
    BY PairsHold
  <2>5. QED
    BY <1>2, <2>1, <2>2, <2>3, <2>4, FlowsInPair DEF PairHolds
<1>4. Flows("store")
  <2>1. "store" \in Functions /\ "lm_norm" \in Functions /\ "lm_raw" \in Streams
    BY NamedStreams DEF Functions
  <2>2. Writer("lm_raw") = "store" /\ Reader("lm_raw") = "lm_norm"
    BY WriterValues, ReaderValues
  <2>3. \A r \in Streams : (Writer(r) = "store" => r = "lm_raw") /\ (Reader(r) = "lm_norm" => r = "lm_raw")
    BY OneStreamEach
  <2>4. QED
    BY <1>3, <2>1, <2>2, <2>3, FlowsAlone
<1>5. Flows("residual2")
  <2>1. "residual2" \in Functions /\ "store" \in Functions /\ "res_buf_1_out" \in Streams
    BY NamedStreams DEF Functions
  <2>2. Writer("res_buf_1_out") = "residual2" /\ Reader("res_buf_1_out") = "store"
    BY WriterValues, ReaderValues
  <2>3. \A r \in Streams : (Writer(r) = "residual2" => r = "res_buf_1_out") /\ (Reader(r) = "store" => r = "res_buf_1_out")
    BY OneStreamEach
  <2>4. QED
    BY <1>4, <2>1, <2>2, <2>3, FlowsAlone
<1>6. Flows("down_gemm")
  <2>1. "down_gemm" \in Functions /\ "residual2" \in Functions /\ "down_out" \in Streams
    BY NamedStreams DEF Functions
  <2>2. Writer("down_out") = "down_gemm" /\ Reader("down_out") = "residual2"
    BY WriterValues, ReaderValues
  <2>3. \A r \in Streams : (Writer(r) = "down_gemm" => r = "down_out") /\ (Reader(r) = "residual2" => r = "down_out")
    BY OneStreamEach
  <2>4. QED
    BY <1>5, <2>1, <2>2, <2>3, FlowsAlone
<1>7. Flows("silu")
  <2>1. /\ "silu" \in Functions /\ "down_gemm" \in Functions /\ "ffn_act" \in Streams /\ "ffn_sc" \in Streams
        /\ "ffn_act" # "ffn_sc"
    BY NamedStreams DEF Functions
  <2>2. /\ Writer("ffn_act") = "silu" /\ Reader("ffn_act") = "down_gemm"
        /\ Writer("ffn_sc") = "silu" /\ Reader("ffn_sc") = "down_gemm"
    BY WriterValues, ReaderValues
  <2>3. \A r \in Streams :
          (Writer(r) = "silu" => r \in {"ffn_act", "ffn_sc"}) /\ (Reader(r) = "down_gemm" => r \in {"ffn_act", "ffn_sc"})
    BY TwoStreamsEach
  <2>4. PairHolds("down_gemm", "ffn_act", "ffn_sc")
    BY PairsHold
  <2>5. QED
    BY <1>6, <2>1, <2>2, <2>3, <2>4, FlowsInPair DEF PairHolds
<1>8. Flows("gateup_gemm")
  <2>1. "gateup_gemm" \in Functions /\ "silu" \in Functions /\ "gateup_out" \in Streams
    BY NamedStreams DEF Functions
  <2>2. Writer("gateup_out") = "gateup_gemm" /\ Reader("gateup_out") = "silu"
    BY WriterValues, ReaderValues
  <2>3. \A r \in Streams : (Writer(r) = "gateup_gemm" => r = "gateup_out") /\ (Reader(r) = "silu" => r = "gateup_out")
    BY OneStreamEach
  <2>4. QED
    BY <1>7, <2>1, <2>2, <2>3, FlowsAlone
<1>9. Flows("rmsnorm2")
  <2>1. /\ "rmsnorm2" \in Functions /\ "gateup_gemm" \in Functions /\ "norm2_q" \in Streams /\ "norm2_sc" \in Streams
        /\ "norm2_q" # "norm2_sc"
    BY NamedStreams DEF Functions
  <2>2. /\ Writer("norm2_q") = "rmsnorm2" /\ Reader("norm2_q") = "gateup_gemm"
        /\ Writer("norm2_sc") = "rmsnorm2" /\ Reader("norm2_sc") = "gateup_gemm"
    BY WriterValues, ReaderValues
  <2>3. \A r \in Streams :
          (Writer(r) = "rmsnorm2" => r \in {"norm2_q", "norm2_sc"}) /\ (Reader(r) = "gateup_gemm" => r \in {"norm2_q", "norm2_sc"})
    BY TwoStreamsEach
  <2>4. PairHolds("gateup_gemm", "norm2_q", "norm2_sc")
    BY PairsHold
  <2>5. QED
    BY <1>8, <2>1, <2>2, <2>3, <2>4, FlowsInPair DEF PairHolds
<1>10. Flows("res_to_stream2")
  <2>1. "res_to_stream2" \in Functions /\ "rmsnorm2" \in Functions /\ "raw_act2" \in Streams
    BY NamedStreams DEF Functions
  <2>2. Writer("raw_act2") = "res_to_stream2" /\ Reader("raw_act2") = "rmsnorm2"
    BY WriterValues, ReaderValues
  <2>3. \A r \in Streams : (Writer(r) = "res_to_stream2" => r = "raw_act2") /\ (Reader(r) = "rmsnorm2" => r = "raw_act2")
    BY OneStreamEach
  <2>4. QED
    BY <1>9, <2>1, <2>2, <2>3, FlowsAlone
<1>11. Flows("residual")
  <2>1. "residual" \in Functions /\ "res_to_stream2" \in Functions /\ "res_buf_1" \in Streams
    BY NamedStreams DEF Functions
  <2>2. Writer("res_buf_1") = "residual" /\ Reader("res_buf_1") = "res_to_stream2"
    BY WriterValues, ReaderValues
  <2>3. \A r \in Streams : (Writer(r) = "residual" => r = "res_buf_1") /\ (Reader(r) = "res_to_stream2" => r = "res_buf_1")
    BY OneStreamEach
  <2>4. QED
    BY <1>10, <2>1, <2>2, <2>3, FlowsAlone
<1>12. Flows("o_gemm")
  <2>1. "o_gemm" \in Functions /\ "residual" \in Functions /\ "oproj_out" \in Streams
    BY NamedStreams DEF Functions
  <2>2. Writer("oproj_out") = "o_gemm" /\ Reader("oproj_out") = "residual"
    BY WriterValues, ReaderValues
  <2>3. \A r \in Streams : (Writer(r) = "o_gemm" => r = "oproj_out") /\ (Reader(r) = "residual" => r = "oproj_out")
    BY OneStreamEach
  <2>4. QED
    BY <1>11, <2>1, <2>2, <2>3, FlowsAlone
<1>13. Flows("act_quant")
  <2>1. /\ "act_quant" \in Functions /\ "o_gemm" \in Functions /\ "o_q" \in Streams /\ "o_sc" \in Streams
        /\ "o_q" # "o_sc"
    BY NamedStreams DEF Functions
  <2>2. /\ Writer("o_q") = "act_quant" /\ Reader("o_q") = "o_gemm"
        /\ Writer("o_sc") = "act_quant" /\ Reader("o_sc") = "o_gemm"
    BY WriterValues, ReaderValues
  <2>3. \A r \in Streams :
          (Writer(r) = "act_quant" => r \in {"o_q", "o_sc"}) /\ (Reader(r) = "o_gemm" => r \in {"o_q", "o_sc"})
    BY TwoStreamsEach
  <2>4. PairHolds("o_gemm", "o_q", "o_sc")
    BY PairsHold
  <2>5. QED
    BY <1>12, <2>1, <2>2, <2>3, <2>4, FlowsInPair DEF PairHolds
<1>14. Flows("o_scatter")
  <2>1. "o_scatter" \in Functions /\ "act_quant" \in Functions /\ "o_flat" \in Streams
    BY NamedStreams DEF Functions
  <2>2. Writer("o_flat") = "o_scatter" /\ Reader("o_flat") = "act_quant"
    BY WriterValues, ReaderValues
  <2>3. \A r \in Streams : (Writer(r) = "o_scatter" => r = "o_flat") /\ (Reader(r) = "act_quant" => r = "o_flat")
    BY OneStreamEach
  <2>4. QED
    BY <1>13, <2>1, <2>2, <2>3, FlowsAlone
<1>15. Flows("attention")
  <2>1. "attention" \in Functions /\ "o_scatter" \in Functions /\ "attn_o" \in Streams
    BY NamedStreams DEF Functions
  <2>2. Writer("attn_o") = "attention" /\ Reader("attn_o") = "o_scatter"
    BY WriterValues, ReaderValues
  <2>3. \A r \in Streams : (Writer(r) = "attention" => r = "attn_o") /\ (Reader(r) = "o_scatter" => r = "attn_o")
    BY OneStreamEach
  <2>4. QED
    BY <1>14, <2>1, <2>2, <2>3, FlowsAlone
<1>16. QED
  BY <1>1, <1>2, <1>3, <1>4, <1>5, <1>6, <1>7, <1>8, <1>9, <1>10, <1>11, <1>12, <1>13, <1>14, <1>15

(* From SPLIT back to the first function, once SPLIT does not wait to         *)
(* write.                                                                     *)
LEMMA UpstreamFlows ==
  ASSUME Inv, Stuck, StreamsHold, Flows("split")
  PROVE  Flows("qkv_gemm") /\ Flows("rmsnorm") /\ Flows("res_to_stream")
<1>1. Flows("split")
  OBVIOUS
<1>2. Flows("qkv_gemm")
  <2>1. "qkv_gemm" \in Functions /\ "split" \in Functions /\ "qkv_out" \in Streams
    BY NamedStreams DEF Functions
  <2>2. Writer("qkv_out") = "qkv_gemm" /\ Reader("qkv_out") = "split"
    BY WriterValues, ReaderValues
  <2>3. \A r \in Streams : (Writer(r) = "qkv_gemm" => r = "qkv_out") /\ (Reader(r) = "split" => r = "qkv_out")
    BY OneStreamEach
  <2>4. QED
    BY <1>1, <2>1, <2>2, <2>3, FlowsAlone
<1>3. Flows("rmsnorm")
  <2>1. /\ "rmsnorm" \in Functions /\ "qkv_gemm" \in Functions /\ "norm1_q" \in Streams /\ "norm1_sc" \in Streams
        /\ "norm1_q" # "norm1_sc"
    BY NamedStreams DEF Functions
  <2>2. /\ Writer("norm1_q") = "rmsnorm" /\ Reader("norm1_q") = "qkv_gemm"
        /\ Writer("norm1_sc") = "rmsnorm" /\ Reader("norm1_sc") = "qkv_gemm"
    BY WriterValues, ReaderValues
  <2>3. \A r \in Streams :
          (Writer(r) = "rmsnorm" => r \in {"norm1_q", "norm1_sc"}) /\ (Reader(r) = "qkv_gemm" => r \in {"norm1_q", "norm1_sc"})
    BY TwoStreamsEach
  <2>4. PairHolds("qkv_gemm", "norm1_q", "norm1_sc")
    BY PairsHold
  <2>5. QED
    BY <1>2, <2>1, <2>2, <2>3, <2>4, FlowsInPair DEF PairHolds
<1>4. Flows("res_to_stream")
  <2>1. "res_to_stream" \in Functions /\ "rmsnorm" \in Functions /\ "raw_act" \in Streams
    BY NamedStreams DEF Functions
  <2>2. Writer("raw_act") = "res_to_stream" /\ Reader("raw_act") = "rmsnorm"
    BY WriterValues, ReaderValues
  <2>3. \A r \in Streams : (Writer(r) = "res_to_stream" => r = "raw_act") /\ (Reader(r) = "rmsnorm" => r = "raw_act")
    BY OneStreamEach
  <2>4. QED
    BY <1>3, <2>1, <2>2, <2>3, FlowsAlone
<1>5. QED
  BY <1>2, <1>3, <1>4

-----------------------------------------------------------------------------
(* SPLIT, the two rope functions and attention: two ways to the same place.   *)

(* A rope function between two streams, when the function behind it starves   *)
(* and when the one in front of it is blocked.                                *)
RopeOn(f, in, out) ==
  /\ f \in Functions /\ in \in Streams /\ out \in Streams
  /\ Reader(in) = f /\ Writer(out) = f
  /\ \A r \in Streams : Reader(r) = f => r = in
  /\ \A r \in Streams : Writer(r) = f => r = out
  /\ HandsOn(Program[f], in, "write", out)

(* The two that rope_apply_stream is instantiated for.                        *)
LEMMA Ropes ==
  ASSUME Inv
  PROVE  RopeOn("rope_q", "q_pre", "q_rot") /\ RopeOn("rope_k", "k_pre", "k_rot")
<1>1. HandsOn(Program["rope_q"], "q_pre", "write", "q_rot") /\ HandsOn(Program["rope_k"], "k_pre", "write", "k_rot")
  BY ProgramOrderHolds DEF Inv, ProgramOrder
<1>2. /\ Reader("q_pre") = "rope_q" /\ Writer("q_rot") = "rope_q"
      /\ Reader("k_pre") = "rope_k" /\ Writer("k_rot") = "rope_k"
  BY WriterValues, ReaderValues
<1>3. "rope_q" \in Functions /\ "rope_k" \in Functions
  BY DEF Functions
<1>4. QED
  BY <1>1, <1>2, <1>3, NamedStreams, OneStreamEach DEF RopeOn

(* Attention starves: the rope function has nothing in hand and SPLIT has     *)
(* to write.                                                                  *)
LEMMA RopeStarved ==
  ASSUME Inv, Stuck, NEW f, NEW in, NEW out, RopeOn(f, in, out), Waits(Reader(out), "read", out)
  PROVE  /\ Wrote(in) = Took(out) /\ Took(out) \in Nat /\ Took(out) + 1 <= Len(Written(launch.rows, out))
         /\ ~Finished(Writer(in))
<1>1. f \in Functions /\ in \in Streams /\ out \in Streams /\ Reader(in) = f /\ Writer(out) = f
  BY DEF RopeOn
<1>2. /\ Wrote(out) = Took(out) /\ Took(out) \in Nat /\ Took(out) + 1 <= Len(Written(launch.rows, out))
      /\ ~Finished(f) /\ ~Waits(f, "write", out)
  BY <1>1, Starved
<1>3. Waits(f, "read", in)
  BY <1>1, <1>2, WaitsForOne DEF RopeOn
<1>4. Wrote(in) = Took(in) /\ Took(in) \in Nat /\ ~Finished(Writer(in))
  BY <1>1, <1>3, Starved
<1>5. HandsOn(Program[f], in, "write", out)
  BY DEF RopeOn
<1>6. Does(f, "read", in) + 1 <= Does(f, "write", out) + 1
  BY <1>1, <1>3, <1>5, HandedOnNext
<1>7. Does(f, "write", out) <= Does(f, "read", in)
  BY <1>1, <1>5, HandedOn
<1>8. Does(f, "read", in) = Took(in) /\ Does(f, "write", out) = Wrote(out)
  BY <1>1, EndCounts
<1>9. QED
  BY <1>2, <1>4, <1>6, <1>7, <1>8

(* SPLIT is blocked: two streams are full, with one element in hand between   *)
(* them.                                                                      *)
LEMMA RopeBlocked ==
  ASSUME Inv, Stuck, NEW f, NEW in, NEW out, RopeOn(f, in, out), Waits(Writer(in), "write", in)
  PROVE  /\ Wrote(in) = Took(out) + Depth(out) + 1 + Depth(in)
         /\ Took(out) \in Nat /\ Depth(out) \in Nat \ {0} /\ Depth(in) \in Nat \ {0}
         /\ ~Finished(Reader(out)) /\ ~Waits(Reader(out), "read", out)
<1>1. f \in Functions /\ in \in Streams /\ out \in Streams /\ Reader(in) = f /\ Writer(out) = f
  BY DEF RopeOn
<1>2. /\ Wrote(in) = Took(in) + Depth(in) /\ Took(in) \in Nat /\ Depth(in) \in Nat \ {0}
      /\ ~Finished(f) /\ ~Waits(f, "read", in)
  BY <1>1, Blocked
<1>3. Waits(f, "write", out)
  BY <1>1, <1>2, WaitsForOne DEF RopeOn
<1>4. /\ Wrote(out) = Took(out) + Depth(out) /\ Took(out) \in Nat /\ Depth(out) \in Nat \ {0}
      /\ ~Finished(Reader(out)) /\ ~Waits(Reader(out), "read", out)
  BY <1>1, <1>3, Blocked
<1>5. HandsOn(Program[f], in, "write", out)
  BY DEF RopeOn
<1>6. Does(f, "write", out) + 1 <= Does(f, "read", in)
  BY <1>1, <1>3, <1>5, HandedOnNext
<1>7. Does(f, "read", in) <= Does(f, "write", out) + 1
  BY <1>1, <1>5, HandedOn
<1>8. Does(f, "read", in) = Took(in) /\ Does(f, "write", out) = Wrote(out)
  BY <1>1, EndCounts
<1>9. Took(in) = Took(out) + Depth(out) + 1
  BY <1>2, <1>4, <1>6, <1>7, <1>8
<1>10. QED
  BY <1>2, <1>4, <1>9

(* The streams around SPLIT and attention.                                    *)
LEMMA AttentionStreams ==
  /\ Reader("q_rot") = "attention" /\ Reader("k_rot") = "attention" /\ Reader("v_pass") = "attention"
  /\ Writer("q_pre") = "split" /\ Writer("k_pre") = "split" /\ Writer("v_pass") = "split"
  /\ "q_rot" \in Streams /\ "k_rot" \in Streams /\ "v_pass" \in Streams /\ "q_pre" \in Streams /\ "k_pre" \in Streams
  /\ "attention" \in Functions /\ "split" \in Functions
BY WriterValues, ReaderValues, NamedStreams DEF Functions

(* Where attention is when it waits to read, and what has come by then.        *)
LEMMA AwaitsQuery ==
  ASSUME Inv, Stuck, Waits("attention", "read", "q_rot")
  PROVE  /\ Wrote("q_pre") = Took("q_rot") /\ Took("q_rot") \in Nat
         /\ \E h \in 0 .. HKv - 1 :
              /\ Took("k_rot") >= (h + 1) * launch.rows
              /\ Took("q_rot") < (h + 1) * (launch.rows * Ratio)
<1> DEFINE rows == launch.rows
           z == rows * Ratio
           n == Took("q_rot")
           h == n \div z
<1>1. rows \in Nat \ {0} /\ Ratio \in Nat \ {0} /\ HKv \in Nat \ {0} /\ z \in Nat \ {0}
  BY ProgramFacts, Sizes DEF Inv
<1>2. /\ Wrote("q_pre") = n /\ n \in Nat /\ n + 1 <= Len(Written(rows, "q_rot"))
  BY Ropes, RopeStarved, AttentionStreams
<1>3. Len(Written(rows, "q_rot")) = HKv * z
  <2>1. Len(Written(rows, "q_rot")) = Len(Wanted(rows, "q_rot"))
    BY <1>1, SameLength, NamedStreams
  <2>2. QED
    BY <1>1, <2>1, WantedValues, QueryOrderFacts
<1> HIDE DEF rows, z, n
<1>4. h \in Nat /\ h * z <= n /\ n < (h + 1) * z
  BY <1>1, <1>2, Division
<1> HIDE DEF h
<1>5. h \in 0 .. HKv - 1
  <2>1. HKv <= h => HKv * z <= h * z
    BY <1>1, <1>4, Products
  <2> DEFINE a == HKv * z
             b == h * z
  <2>2. a \in Nat /\ b \in Nat
    BY <1>1, <1>4, Products
  <2>3. b <= n /\ n + 1 <= a
    BY <1>2, <1>3, <1>4
  <2>4. HKv <= h => a <= b
    BY <2>1
  <2> HIDE DEF a, b
  <2>5. ~(HKv <= h)
    BY <1>2, <2>2, <2>3, <2>4
  <2>6. QED
    BY <1>1, <1>4, <2>5
<1>6. Took("k_rot") >= (h + 1) * rows
  <2>1. HeadOrder(h)
    BY <1>5, ProgramOrderHolds DEF Inv, ProgramOrder
  <2>2. Precedes(Program["attention"], "read", "k_rot", (h + 1) * rows, "read", "q_rot", h * z)
    BY <2>1 DEF HeadOrder, rows, z
  <2>3. h * z \in Nat
    BY <1>1, <1>4, Products
  <2>4. Does("attention", "read", "q_rot") >= h * z
    BY <1>4, EndsDo DEF n
  <2>5. Does("attention", "read", "k_rot") >= (h + 1) * rows
    BY <2>2, <2>3, <2>4, AttentionStreams, DoneBeforeNext
  <2>6. QED
    BY <2>5, EndsDo
<1>7. n < (h + 1) * z
  BY <1>4
<1>8. QED
  BY <1>2, <1>5, <1>6, <1>7 DEF rows, z, n

LEMMA AwaitsKey ==
  ASSUME Inv, Stuck, Waits("attention", "read", "k_rot")
  PROVE  /\ Wrote("k_pre") = Took("k_rot") /\ Took("k_rot") \in Nat /\ Took("v_pass") >= Took("k_rot")
         /\ \E h \in 0 .. HKv - 1 :
              /\ Took("q_rot") >= h * (launch.rows * Ratio)
              /\ Took("k_rot") < (h + 1) * launch.rows
<1> DEFINE rows == launch.rows
           z == rows * Ratio
           n == Took("k_rot")
           h == n \div rows
<1>1. rows \in Nat \ {0} /\ HKv \in Nat \ {0}
  BY ProgramFacts, Sizes DEF Inv
<1>2. /\ Wrote("k_pre") = n /\ n \in Nat /\ n + 1 <= Len(Written(rows, "k_rot"))
  BY Ropes, RopeStarved, AttentionStreams
<1>3. Len(Written(rows, "k_rot")) = rows * HKv
  BY <1>1, WrittenValues, RowMajorFacts
<1>4. rows * HKv = HKv * rows
  BY <1>1
<1> HIDE DEF rows, z, n
<1>5. h \in Nat /\ h * rows <= n /\ n < (h + 1) * rows
  BY <1>1, <1>2, Division
<1> HIDE DEF h
<1>6. h \in 0 .. HKv - 1
  <2>1. HKv <= h => HKv * rows <= h * rows
    BY <1>1, <1>5, Products
  <2> DEFINE a == HKv * rows
             b == h * rows
  <2>2. a \in Nat /\ b \in Nat
    BY <1>1, <1>5, Products
  <2>3. b <= n /\ n + 1 <= a
    BY <1>2, <1>3, <1>4, <1>5
  <2>4. HKv <= h => a <= b
    BY <2>1
  <2> HIDE DEF a, b
  <2>5. ~(HKv <= h)
    BY <1>2, <2>2, <2>3, <2>4
  <2>6. QED
    BY <1>1, <1>5, <2>5
<1>7. Took("q_rot") >= h * z
  <2>1. HeadOrder(h)
    BY <1>6, ProgramOrderHolds DEF Inv, ProgramOrder
  <2>2. Precedes(Program["attention"], "read", "q_rot", h * z, "read", "k_rot", h * rows)
    BY <2>1 DEF HeadOrder, rows, z
  <2>3. h * rows \in Nat
    BY <1>1, <1>5, Products
  <2>4. Does("attention", "read", "k_rot") >= h * rows
    BY <1>5, EndsDo DEF n
  <2>5. Does("attention", "read", "q_rot") >= h * z
    BY <2>2, <2>3, <2>4, AttentionStreams, DoneBeforeNext
  <2>6. QED
    BY <2>5, EndsDo
<1>8. Took("v_pass") >= n
  <2>1. HandsOn(Program["attention"], "k_rot", "read", "v_pass")
    BY ProgramOrderHolds DEF Inv, ProgramOrder
  <2>2. Does("attention", "read", "k_rot") + 1 <= Does("attention", "read", "v_pass") + 1
    BY <2>1, AttentionStreams, HandedOnNext
  <2>3. Took("k_rot") + 1 <= Took("v_pass") + 1
    BY <2>2, EndsDo
  <2>4. Took("v_pass") \in Nat
    BY Flow, NamedStreams
  <2>5. QED
    BY <1>2, <2>3, <2>4 DEF n
<1>9. n < (h + 1) * rows
  BY <1>5
<1>10. QED
  BY <1>2, <1>6, <1>7, <1>8, <1>9 DEF rows, z, n

LEMMA AwaitsValue ==
  ASSUME Inv, Stuck, Waits("attention", "read", "v_pass")
  PROVE  Wrote("v_pass") = Took("v_pass") /\ Took("v_pass") \in Nat /\ Took("k_rot") = Took("v_pass") + 1
<1>1. Wrote("v_pass") = Took("v_pass") /\ Took("v_pass") \in Nat
  BY Starved, AttentionStreams
<1>2. HandsOn(Program["attention"], "k_rot", "read", "v_pass")
  BY ProgramOrderHolds DEF Inv, ProgramOrder
<1>3. Does("attention", "read", "v_pass") + 1 <= Does("attention", "read", "k_rot")
  BY <1>2, AttentionStreams, HandedOnNext
<1>4. Took("v_pass") + 1 <= Took("k_rot")
  BY <1>3, EndsDo
<1>5. Took("k_rot") <= Took("v_pass") + 1
  BY InStepHolds DEF InStep
<1>6. Took("k_rot") \in Nat
  BY Flow, NamedStreams
<1>7. QED
  BY <1>1, <1>4, <1>5, <1>6

-----------------------------------------------------------------------------
(* Where SPLIT is when it waits to write, and what it has written by then.     *)
LEMMA TokenOf ==
  ASSUME NEW rows \in Nat \ {0}, NEW size \in Nat \ {0}, NEW n \in Nat, n + 1 <= rows * size
  PROVE  \E t \in 0 .. rows - 1 : t * size \in Nat /\ t * size <= n /\ n < (t + 1) * size
<1> DEFINE t == n \div size
<1>1. t \in Nat /\ t * size <= n /\ n < (t + 1) * size
  BY Division
<1> HIDE DEF t
<1>2. rows <= t => rows * size <= t * size
  BY <1>1, Products
<1> DEFINE a == rows * size
           b == t * size
<1>3. a \in Nat /\ b \in Nat /\ b <= n /\ n + 1 <= a /\ (rows <= t => a <= b)
  BY <1>1, <1>2, Products
<1> HIDE DEF a, b
<1>4. ~(rows <= t)
  BY <1>3
<1>5. t \in 0 .. rows - 1
  BY <1>1, <1>4
<1>6. t * size \in Nat
  BY <1>3 DEF b
<1>7. QED
  BY <1>1, <1>5, <1>6

(* How much SPLIT has to write.                                               *)
LEMMA SplitCountsTyped ==
  ASSUME Inv
  PROVE  /\ Wrote("q_pre") \in Nat /\ Wrote("k_pre") \in Nat /\ Wrote("v_pass") \in Nat
         /\ launch.rows \in Nat \ {0} /\ HKv \in Nat \ {0} /\ HQ \in Nat \ {0}
         /\ Len(Written(launch.rows, "q_pre")) = launch.rows * HQ
         /\ Len(Written(launch.rows, "k_pre")) = launch.rows * HKv
         /\ Len(Written(launch.rows, "v_pass")) = launch.rows * HKv
<1>1. launch.rows \in Nat \ {0} /\ HKv \in Nat \ {0} /\ HQ \in Nat \ {0}
  BY ProgramFacts, Sizes DEF Inv
<1>2. Wrote("q_pre") \in Nat /\ Wrote("k_pre") \in Nat /\ Wrote("v_pass") \in Nat
  BY Flow, NamedStreams
<1>3. Len(RowMajor(launch.rows, HQ)) = launch.rows * HQ /\ Len(RowMajor(launch.rows, HKv)) = launch.rows * HKv
  BY <1>1, RowMajorFacts
<1>4. QED
  BY <1>1, <1>2, <1>3, WrittenValues

(* It waits to write a query, a key, a value.                                 *)
LEMMA SplitOnQuery ==
  ASSUME Inv, Waits("split", "write", "q_pre")
  PROVE  \E t \in 0 .. launch.rows - 1 :
           /\ Wrote("q_pre") < (t + 1) * HQ
           /\ Wrote("v_pass") >= t * HKv /\ Wrote("k_pre") >= t * HKv /\ Wrote("k_pre") <= t * HKv
<1>1. Wrote("q_pre") + 1 <= launch.rows * HQ
  BY EndCounts, AttentionStreams, SplitCountsTyped
<1>2. PICK t \in 0 .. launch.rows - 1 :
        t * HQ \in Nat /\ t * HQ <= Wrote("q_pre") /\ Wrote("q_pre") < (t + 1) * HQ
  BY <1>1, SplitCountsTyped, TokenOf
<1>3. TokenOrder(t)
  BY ProgramOrderHolds DEF Inv, ProgramOrder
<1>4. Does("split", "write", "q_pre") >= t * HQ
  BY <1>2, EndsDo
<1>5. Does("split", "write", "v_pass") >= t * HKv
  BY <1>2, <1>3, <1>4, AttentionStreams, DoneBeforeNext DEF TokenOrder
<1>6. Does("split", "write", "k_pre") >= t * HKv
  BY <1>2, <1>3, <1>4, AttentionStreams, DoneBeforeNext DEF TokenOrder
<1>7. Wrote("k_pre") > t * HKv => Wrote("q_pre") >= (t + 1) * HQ
  BY InStepHolds DEF InStep
<1>8. Wrote("k_pre") <= t * HKv
  <2> DEFINE a == t * HKv
             b == (t + 1) * HQ
  <2>1. a \in Nat /\ b \in Nat
    <3>1. t \in Nat /\ HKv \in Nat /\ HQ \in Nat
      BY SplitCountsTyped
    <3>2. QED
      BY ONLY <3>1
  <2>2. (Wrote("k_pre") > a => Wrote("q_pre") >= b) /\ Wrote("q_pre") < b
    BY <1>2, <1>7
  <2> HIDE DEF a, b
  <2>3. Wrote("k_pre") <= a
    BY <2>1, <2>2, SplitCountsTyped
  <2>4. QED
    BY <2>3 DEF a
<1>9. QED
  BY <1>2, <1>5, <1>6, <1>8, EndsDo

LEMMA SplitOnKey ==
  ASSUME Inv, Waits("split", "write", "k_pre")
  PROVE  \E t \in 0 .. launch.rows - 1 :
           /\ Wrote("k_pre") < (t + 1) * HKv
           /\ Wrote("q_pre") >= (t + 1) * HQ /\ Wrote("v_pass") >= t * HKv
<1>1. Wrote("k_pre") + 1 <= launch.rows * HKv
  BY EndCounts, AttentionStreams, SplitCountsTyped
<1>2. PICK t \in 0 .. launch.rows - 1 :
        t * HKv \in Nat /\ t * HKv <= Wrote("k_pre") /\ Wrote("k_pre") < (t + 1) * HKv
  BY <1>1, SplitCountsTyped, TokenOf
<1>3. TokenOrder(t)
  BY ProgramOrderHolds DEF Inv, ProgramOrder
<1>4. Does("split", "write", "k_pre") >= t * HKv
  BY <1>2, EndsDo
<1>5. Does("split", "write", "q_pre") >= (t + 1) * HQ
  BY <1>2, <1>3, <1>4, AttentionStreams, DoneBeforeNext DEF TokenOrder
<1>6. Does("split", "write", "v_pass") >= t * HKv
  BY <1>2, <1>3, <1>4, AttentionStreams, DoneBeforeNext DEF TokenOrder
<1>7. QED
  BY <1>2, <1>5, <1>6, EndsDo

LEMMA SplitOnValue ==
  ASSUME Inv, Waits("split", "write", "v_pass")
  PROVE  \E t \in 0 .. launch.rows - 1 :
           /\ Wrote("v_pass") < (t + 1) * HKv
           /\ Wrote("k_pre") >= (t + 1) * HKv /\ Wrote("q_pre") >= (t + 1) * HQ
<1>1. Wrote("v_pass") + 1 <= launch.rows * HKv
  BY EndCounts, AttentionStreams, SplitCountsTyped
<1>2. PICK t \in 0 .. launch.rows - 1 :
        t * HKv \in Nat /\ t * HKv <= Wrote("v_pass") /\ Wrote("v_pass") < (t + 1) * HKv
  BY <1>1, SplitCountsTyped, TokenOf
<1>3. TokenOrder(t)
  BY ProgramOrderHolds DEF Inv, ProgramOrder
<1>4. Does("split", "write", "v_pass") >= t * HKv
  BY <1>2, EndsDo
<1>5. Does("split", "write", "k_pre") >= (t + 1) * HKv
  BY <1>2, <1>3, <1>4, AttentionStreams, DoneBeforeNext DEF TokenOrder
<1>6. Wrote("k_pre") >= (t + 1) * HKv
  BY <1>5, EndsDo
<1>7. Wrote("k_pre") > t * HKv
  <2>1. (t + 1) * HKv = t * HKv + HKv /\ HKv \in Nat \ {0}
    BY SplitCountsTyped, Products
  <2> DEFINE a == t * HKv
             b == (t + 1) * HKv
  <2>2. a \in Nat /\ b = a + HKv /\ Wrote("k_pre") >= b
    BY <1>2, <1>6, <2>1
  <2> HIDE DEF a, b
  <2>3. Wrote("k_pre") > a
    BY <2>1, <2>2, SplitCountsTyped
  <2>4. QED
    BY <2>3 DEF a
<1>8. Wrote("q_pre") >= (t + 1) * HQ
  BY <1>7, InStepHolds DEF InStep
<1>9. QED
  BY <1>2, <1>6, <1>8

-----------------------------------------------------------------------------
(* Attention and SPLIT cannot wait for each other.                            *)

(* Attention waits for a query, SPLIT is past the queries of its token.        *)
LEMMA PastQueries ==
  ASSUME Inv, Stuck, Waits("attention", "read", "q_rot"),
         NEW t \in 0 .. launch.rows - 1, NEW m \in Nat,
         Wrote("q_pre") >= (t + 1) * HQ, m < (t + 1) * HKv, m >= Took("k_rot")
  PROVE  FALSE
<1> DEFINE rows == launch.rows
           z == rows * Ratio
<1>1. rows \in Nat \ {0} /\ HKv \in Nat /\ Ratio \in Nat \ {0} /\ z \in Nat
  BY ProgramFacts, Sizes DEF Inv
<1>2. PICK h \in 0 .. HKv - 1 : Took("k_rot") >= (h + 1) * rows /\ Took("q_rot") < (h + 1) * z
  BY AwaitsQuery
<1>3. Wrote("q_pre") = Took("q_rot") /\ Took("q_rot") \in Nat /\ Took("k_rot") \in Nat
  BY AwaitsQuery, Flow, NamedStreams
<1>4. (t + 1) * HQ = ((t + 1) * HKv) * Ratio /\ (h + 1) * z = ((h + 1) * rows) * Ratio
  <2>1. t \in Nat /\ h \in Nat
    BY <1>1
  <2>2. QED
    BY <1>1, <2>1 DEF HQ
<1>5. (t + 1) * HKv \in Nat /\ (h + 1) * rows \in Nat
  BY <1>1
<1> DEFINE a == (t + 1) * HKv
           b == (h + 1) * rows
<1>6. /\ a \in Nat /\ b \in Nat /\ m < a /\ Took("k_rot") >= b
      /\ Wrote("q_pre") >= a * Ratio /\ Took("q_rot") < b * Ratio
  BY <1>2, <1>4, <1>5
<1> HIDE DEF a, b
<1>7. b <= a
  BY <1>3, <1>6
<1>8. b * Ratio <= a * Ratio /\ a * Ratio \in Nat /\ b * Ratio \in Nat
  BY <1>1, <1>6, <1>7, Products
<1> DEFINE u == a * Ratio
           v == b * Ratio
<1>9. Wrote("q_pre") >= u /\ Took("q_rot") < v /\ v <= u /\ u \in Nat /\ v \in Nat
  BY <1>6, <1>8
<1> HIDE DEF u, v
<1>10. QED
  BY <1>3, <1>9

(* The queries still to come for a head do not fit the streams on their way.  *)
LEMMA QueriesFit ==
  ASSUME Inv, Stuck, StreamsHold, Waits("attention", "read", "k_rot"), Waits("split", "write", "q_pre")
  PROVE  FALSE
<1> DEFINE rows == launch.rows
           z == rows * Ratio
<1>1. rows \in Nat \ {0} /\ HKv \in Nat \ {0} /\ HQ \in Nat /\ Ratio \in Nat /\ z \in Nat
      /\ FifoD \in Nat /\ launch.fifoAttn \in Nat
  BY ProgramFacts, Sizes DEF Inv
<1>2. PICK h \in 0 .. HKv - 1 : Took("q_rot") >= h * z /\ Took("k_rot") < (h + 1) * rows
  BY AwaitsKey
<1>3. Wrote("k_pre") = Took("k_rot") /\ Took("k_rot") \in Nat
  BY AwaitsKey
<1>4. PICK t \in 0 .. rows - 1 : Wrote("q_pre") < (t + 1) * HQ /\ Wrote("k_pre") >= t * HKv
  BY SplitOnQuery
<1>5. Wrote("q_pre") = Took("q_rot") + launch.fifoAttn + 1 + FifoD /\ Took("q_rot") \in Nat
  BY Ropes, RopeBlocked, AttentionStreams, StreamDepths
<1>6. Tiles((h + 1) * rows, HKv) * HQ - h * rows * Ratio <= FifoD + 1 + launch.fifoAttn
  BY DEF StreamsHold, QueriesHeld
<1> DEFINE n == (h + 1) * rows
           tiles == Tiles(n, HKv)
<1>7. h \in Nat /\ t \in Nat /\ n \in Nat \ {0}
  <2>1. h \in Nat /\ t \in Nat
    BY <1>1
  <2>2. (h + 1) * rows = h * rows + rows /\ h * rows \in Nat
    BY ONLY <1>1, <2>1, Products
  <2> DEFINE c == h * rows
  <2>3. n = c + rows /\ c \in Nat
    BY <2>2
  <2> HIDE DEF c, n
  <2>4. n \in Nat \ {0}
    BY <1>1, <2>3
  <2>5. QED
    BY <2>1, <2>4
<1>8. Took("k_rot") < n
  BY <1>2
<1>9. tiles * HQ - h * rows * Ratio <= FifoD + 1 + launch.fifoAttn
  BY <1>6
<1> HIDE DEF n
<1>10. tiles \in Nat \ {0} /\ n <= tiles * HKv
  BY <1>1, <1>7, TilesFacts
<1> HIDE DEF tiles, rows, z
<1>11. t + 1 <= tiles
  <2>1. tiles <= t => tiles * HKv <= t * HKv
    BY <1>1, <1>7, <1>10, Products
  <2> DEFINE a == t * HKv
             b == tiles * HKv
  <2>2. a \in Nat /\ b \in Nat /\ n <= b /\ Wrote("k_pre") >= a /\ (tiles <= t => b <= a)
    BY <1>1, <1>4, <1>7, <1>10, <2>1
  <2> HIDE DEF a, b
  <2>3. ~(tiles <= t)
    BY <1>3, <1>7, <1>8, <2>2
  <2>4. QED
    BY <1>7, <1>10, <2>3
<1>12. (t + 1) * HQ <= tiles * HQ /\ (t + 1) * HQ \in Nat /\ tiles * HQ \in Nat
  BY <1>1, <1>7, <1>10, <1>11, Products
<1>13. h * rows * Ratio = h * z /\ h * z \in Nat
  BY <1>1, <1>7 DEF z
<1> DEFINE a == (t + 1) * HQ
           b == tiles * HQ
           c == h * z
<1>14. /\ a \in Nat /\ b \in Nat /\ c \in Nat /\ a <= b /\ b - c <= FifoD + 1 + launch.fifoAttn
       /\ Took("q_rot") >= c /\ Wrote("q_pre") < a
  BY <1>2, <1>4, <1>9, <1>12, <1>13
<1> HIDE DEF a, b, c
<1>15. QED
  BY <1>1, <1>5, <1>14

(* The keys of the other heads fit the streams on their way.                  *)
LEMMA KeysFit ==
  ASSUME Inv, Stuck, StreamsHold, Waits("attention", "read", "v_pass"), Waits("split", "write", "k_pre")
  PROVE  FALSE
<1>1. HKv \in Nat \ {0} /\ FifoD \in Nat /\ HKv - 1 <= FifoD + 1 + FifoD
  BY Sizes DEF StreamsHold
<1>2. /\ Wrote("v_pass") = Took("v_pass") /\ Took("v_pass") \in Nat
      /\ Took("k_rot") = Took("v_pass") + 1
  BY AwaitsValue
<1>3. Wrote("k_pre") = Took("k_rot") + FifoD + 1 + FifoD
  BY Ropes, RopeBlocked, AttentionStreams, StreamDepths
<1>4. PICK t \in 0 .. launch.rows - 1 : Wrote("k_pre") < (t + 1) * HKv /\ Wrote("v_pass") >= t * HKv
  BY SplitOnKey
<1>5. (t + 1) * HKv = t * HKv + HKv /\ t * HKv \in Nat
  <2>1. t \in Nat
    BY SplitCountsTyped
  <2>2. QED
    BY ONLY <1>1, <2>1, Products
<1> DEFINE a == t * HKv
           b == (t + 1) * HKv
<1>6. a \in Nat /\ b = a + HKv /\ Wrote("k_pre") < b /\ Wrote("v_pass") >= a
  BY <1>4, <1>5
<1> HIDE DEF a, b
<1>7. QED
  BY <1>1, <1>2, <1>3, <1>6

(* Keys are taken after they are written.                                     *)
LEMMA CountsInStep ==
  ASSUME Inv
  PROVE  Wrote("k_pre") >= Took("k_rot")
<1>1. /\ Wrote("k_rot") \in Nat /\ Took("k_rot") \in Nat /\ Len(fifo["k_rot"]) \in Nat
      /\ Wrote("k_rot") = Took("k_rot") + Len(fifo["k_rot"])
  BY Flow, NamedStreams
<1>2. /\ Wrote("k_pre") \in Nat /\ Took("k_pre") \in Nat /\ Len(fifo["k_pre"]) \in Nat
      /\ Wrote("k_pre") = Took("k_pre") + Len(fifo["k_pre"])
  BY Flow, NamedStreams
<1>3. Wrote("k_rot") <= Took("k_pre")
  BY InStepHolds DEF InStep
<1>4. Wrote("k_rot") >= Took("k_rot")
  BY <1>1
<1>5. Wrote("k_pre") >= Took("k_pre")
  BY <1>2
<1>6. QED
  BY <1>1, <1>2, <1>3, <1>4, <1>5

(* The six ways in which SPLIT could wait to write while attention waits to   *)
(* read.                                                                      *)
LEMMA SplitFlows ==
  ASSUME Inv, Stuck, StreamsHold
  PROVE  Flows("split")
<1> SUFFICES ASSUME NEW s \in Streams, Waits("split", "write", s) PROVE FALSE
  BY DEF Flows
<1>1. s \in {"q_pre", "k_pre", "v_pass"}
  BY WaitsAtEnd, AttentionStreams, TwoStreamsEach
<1>2. /\ s = "q_pre" => ~Finished("attention") /\ ~Waits("attention", "read", "q_rot")
      /\ s = "k_pre" => ~Finished("attention") /\ ~Waits("attention", "read", "k_rot")
  BY Ropes, RopeBlocked, AttentionStreams
<1>3. s = "v_pass" => ~Finished("attention") /\ ~Waits("attention", "read", "v_pass")
  BY Blocked, AttentionStreams
<1>4. ~Finished("attention")
  BY <1>1, <1>2, <1>3
<1>5. Flows("attention")
  BY DownstreamFlows
<1>6. PICK r \in Streams : Reader(r) = "attention" /\ Waits("attention", "read", r)
  BY <1>4, <1>5, AttentionStreams, WaitsForOne DEF Flows
<1>7. r \in {"q_rot", "k_rot", "v_pass"}
  BY <1>6, TwoStreamsEach
<1>8. CASE s = "q_pre" /\ r = "k_rot"
  BY <1>6, <1>8, QueriesFit
<1>9. CASE s = "q_pre" /\ r = "v_pass"
  <2>1. PICK t \in 0 .. launch.rows - 1 : Wrote("v_pass") >= t * HKv /\ Wrote("k_pre") <= t * HKv
    BY <1>9, SplitOnQuery
  <2>2. Wrote("v_pass") = Took("v_pass") /\ Took("v_pass") \in Nat /\ Took("k_rot") = Took("v_pass") + 1
    BY <1>6, <1>9, AwaitsValue
  <2>3. Wrote("k_pre") >= Took("k_rot")
    BY CountsInStep
  <2> DEFINE a == t * HKv
  <2>4. a \in Nat /\ Wrote("v_pass") >= a /\ Wrote("k_pre") <= a
    BY <2>1, SplitCountsTyped
  <2> HIDE DEF a
  <2>5. QED
    BY <2>2, <2>3, <2>4, SplitCountsTyped
<1>10. CASE s = "k_pre" /\ r = "q_rot"
  <2>1. PICK t \in 0 .. launch.rows - 1 : Wrote("k_pre") < (t + 1) * HKv /\ Wrote("q_pre") >= (t + 1) * HQ
    BY <1>10, SplitOnKey
  <2>2. Wrote("k_pre") >= Took("k_rot") /\ Wrote("k_pre") \in Nat
    BY CountsInStep, SplitCountsTyped
  <2>3. QED
    BY <1>6, <1>10, <2>1, <2>2, PastQueries
<1>11. CASE s = "k_pre" /\ r = "v_pass"
  BY <1>6, <1>11, KeysFit
<1>12. CASE s = "v_pass" /\ r = "q_rot"
  <2>1. PICK t \in 0 .. launch.rows - 1 : Wrote("v_pass") < (t + 1) * HKv /\ Wrote("q_pre") >= (t + 1) * HQ
    BY <1>12, SplitOnValue
  <2>2. Wrote("v_pass") >= Took("k_rot") /\ Wrote("v_pass") \in Nat
    <3>1. Wrote("v_pass") = Took("v_pass") + Depth("v_pass") /\ Took("v_pass") \in Nat /\ Depth("v_pass") \in Nat \ {0}
      BY <1>12, Blocked, AttentionStreams
    <3>2. Took("k_rot") <= Took("v_pass") + 1 /\ Took("k_rot") \in Nat
      BY InStepHolds, Flow, NamedStreams DEF InStep
    <3>3. QED
      BY <3>1, <3>2
  <2>3. QED
    BY <1>6, <1>12, <2>1, <2>2, PastQueries
<1>13. CASE s = "v_pass" /\ r = "k_rot"
  <2>1. PICK t \in 0 .. launch.rows - 1 : Wrote("v_pass") < (t + 1) * HKv /\ Wrote("k_pre") >= (t + 1) * HKv
    BY <1>13, SplitOnValue
  <2>2. Wrote("k_pre") = Took("k_rot") /\ Took("v_pass") >= Took("k_rot")
    BY <1>6, <1>13, AwaitsKey
  <2>3. Wrote("v_pass") = Took("v_pass") + Depth("v_pass") /\ Took("v_pass") \in Nat /\ Depth("v_pass") \in Nat \ {0}
    BY <1>13, Blocked, AttentionStreams
  <2> DEFINE a == (t + 1) * HKv
  <2>4. a \in Nat /\ Wrote("v_pass") < a /\ Wrote("k_pre") >= a
    BY <2>1, SplitCountsTyped
  <2> HIDE DEF a
  <2>5. QED
    BY <2>2, <2>3, <2>4, SplitCountsTyped
<1>14. QED
  BY <1>1, <1>2, <1>3, <1>6, <1>7, <1>8, <1>9, <1>10, <1>11, <1>12, <1>13

-----------------------------------------------------------------------------
(* What follows: no function waits at all, from the first to the last.        *)

(* A function that does not wait to write and whose writers have finished.    *)
LEMMA FinishedWhenFed ==
  ASSUME Inv, Stuck, NEW f \in Functions, Flows(f), \A s \in Streams : Reader(s) = f => Finished(Writer(s))
  PROVE  Finished(f)
<1> SUFFICES ASSUME ~Finished(f) PROVE FALSE
  OBVIOUS
<1>1. PICK s \in Streams : f = Reader(s) /\ Waits(f, "read", s)
  BY WaitsForOne DEF Flows
<1>2. ~Finished(Writer(s))
  BY <1>1, Starved
<1>3. QED
  BY <1>1, <1>2

(* So it goes through all of them, from the first.                            *)
LEMMA StuckAtEnd ==
  ASSUME Inv, Stuck, StreamsHold
  PROVE  AllFinished
<1>1. Flows("split")
  BY SplitFlows
<1>2. Finished("res_to_stream")
  <2>1. "res_to_stream" \in Functions /\ Flows("res_to_stream")
    BY <1>1, UpstreamFlows DEF Functions
  <2>2. \A s \in Streams : Reader(s) # "res_to_stream"
    BY NoStreamEach
  <2>3. QED
    BY <2>1, <2>2, FinishedWhenFed
<1>3. Finished("rmsnorm")
  <2>1. "rmsnorm" \in Functions /\ Flows("rmsnorm")
    BY <1>1, UpstreamFlows DEF Functions
  <2>2. \A s \in Streams : Reader(s) = "rmsnorm" => s = "raw_act"
    BY OneStreamEach
  <2>3. Writer("raw_act") = "res_to_stream"
    BY WriterValues
  <2>4. QED
    BY <1>2, <2>1, <2>2, <2>3, FinishedWhenFed
<1>4. Finished("qkv_gemm")
  <2>1. "qkv_gemm" \in Functions /\ Flows("qkv_gemm")
    BY <1>1, UpstreamFlows DEF Functions
  <2>2. \A s \in Streams : Reader(s) = "qkv_gemm" => s \in {"norm1_q", "norm1_sc"}
    BY TwoStreamsEach
  <2>3. Writer("norm1_q") = "rmsnorm" /\ Writer("norm1_sc") = "rmsnorm"
    BY WriterValues
  <2>4. QED
    BY <1>3, <2>1, <2>2, <2>3, FinishedWhenFed
<1>5. Finished("split")
  <2>1. "split" \in Functions /\ Flows("split")
    BY <1>1 DEF Functions
  <2>2. \A s \in Streams : Reader(s) = "split" => s = "qkv_out"
    BY OneStreamEach
  <2>3. Writer("qkv_out") = "qkv_gemm"
    BY WriterValues
  <2>4. QED
    BY <1>4, <2>1, <2>2, <2>3, FinishedWhenFed
<1>6. Finished("attention")
  <2> SUFFICES ASSUME ~Finished("attention") PROVE FALSE
    OBVIOUS
  <2>1. Flows("attention")
    BY DownstreamFlows
  <2>2. PICK r \in Streams : Reader(r) = "attention" /\ Waits("attention", "read", r)
    BY <2>1, AttentionStreams, WaitsForOne DEF Flows
  <2>3. r \in {"q_rot", "k_rot", "v_pass"}
    BY <2>2, TwoStreamsEach
  <2>4. CASE r = "q_rot"
    BY <1>5, <2>2, <2>4, Ropes, RopeStarved, AttentionStreams
  <2>5. CASE r = "k_rot"
    BY <1>5, <2>2, <2>5, Ropes, RopeStarved, AttentionStreams
  <2>6. CASE r = "v_pass"
    BY <1>5, <2>2, <2>6, Starved, AttentionStreams
  <2>7. QED
    BY <2>3, <2>4, <2>5, <2>6
<1>7. Finished("rope_q")
  <2> SUFFICES ASSUME ~Finished("rope_q") PROVE FALSE
    OBVIOUS
  <2>1. RopeOn("rope_q", "q_pre", "q_rot")
    BY Ropes
  <2>2. Waits("rope_q", "read", "q_pre") \/ Waits("rope_q", "write", "q_rot")
    BY <2>1, WaitsForOne DEF RopeOn
  <2>3. CASE Waits("rope_q", "read", "q_pre")
    BY <1>5, <2>1, <2>3, Starved, AttentionStreams DEF RopeOn
  <2>4. CASE Waits("rope_q", "write", "q_rot")
    BY <1>6, <2>1, <2>4, Blocked, AttentionStreams DEF RopeOn
  <2>5. QED
    BY <2>2, <2>3, <2>4
<1>8. Finished("rope_k")
  <2> SUFFICES ASSUME ~Finished("rope_k") PROVE FALSE
    OBVIOUS
  <2>1. RopeOn("rope_k", "k_pre", "k_rot")
    BY Ropes
  <2>2. Waits("rope_k", "read", "k_pre") \/ Waits("rope_k", "write", "k_rot")
    BY <2>1, WaitsForOne DEF RopeOn
  <2>3. CASE Waits("rope_k", "read", "k_pre")
    BY <1>5, <2>1, <2>3, Starved, AttentionStreams DEF RopeOn
  <2>4. CASE Waits("rope_k", "write", "k_rot")
    BY <1>6, <2>1, <2>4, Blocked, AttentionStreams DEF RopeOn
  <2>5. QED
    BY <2>2, <2>3, <2>4
<1>9. Finished("o_scatter")
  <2>1. "o_scatter" \in Functions /\ Flows("o_scatter")
    BY DownstreamFlows DEF Functions
  <2>2. \A s \in Streams : Reader(s) = "o_scatter" => s = "attn_o"
    BY OneStreamEach
  <2>3. Writer("attn_o") = "attention"
    BY WriterValues
  <2>4. QED
    BY <1>6, <2>1, <2>2, <2>3, FinishedWhenFed
<1>10. Finished("act_quant")
  <2>1. "act_quant" \in Functions /\ Flows("act_quant")
    BY DownstreamFlows DEF Functions
  <2>2. \A s \in Streams : Reader(s) = "act_quant" => s = "o_flat"
    BY OneStreamEach
  <2>3. Writer("o_flat") = "o_scatter"
    BY WriterValues
  <2>4. QED
    BY <1>9, <2>1, <2>2, <2>3, FinishedWhenFed
<1>11. Finished("o_gemm")
  <2>1. "o_gemm" \in Functions /\ Flows("o_gemm")
    BY DownstreamFlows DEF Functions
  <2>2. \A s \in Streams : Reader(s) = "o_gemm" => s \in {"o_q", "o_sc"}
    BY TwoStreamsEach
  <2>3. Writer("o_q") = "act_quant" /\ Writer("o_sc") = "act_quant"
    BY WriterValues
  <2>4. QED
    BY <1>10, <2>1, <2>2, <2>3, FinishedWhenFed
<1>12. Finished("residual")
  <2>1. "residual" \in Functions /\ Flows("residual")
    BY DownstreamFlows DEF Functions
  <2>2. \A s \in Streams : Reader(s) = "residual" => s = "oproj_out"
    BY OneStreamEach
  <2>3. Writer("oproj_out") = "o_gemm"
    BY WriterValues
  <2>4. QED
    BY <1>11, <2>1, <2>2, <2>3, FinishedWhenFed
<1>13. Finished("res_to_stream2")
  <2>1. "res_to_stream2" \in Functions /\ Flows("res_to_stream2")
    BY DownstreamFlows DEF Functions
  <2>2. \A s \in Streams : Reader(s) = "res_to_stream2" => s = "res_buf_1"
    BY OneStreamEach
  <2>3. Writer("res_buf_1") = "residual"
    BY WriterValues
  <2>4. QED
    BY <1>12, <2>1, <2>2, <2>3, FinishedWhenFed
<1>14. Finished("rmsnorm2")
  <2>1. "rmsnorm2" \in Functions /\ Flows("rmsnorm2")
    BY DownstreamFlows DEF Functions
  <2>2. \A s \in Streams : Reader(s) = "rmsnorm2" => s = "raw_act2"
    BY OneStreamEach
  <2>3. Writer("raw_act2") = "res_to_stream2"
    BY WriterValues
  <2>4. QED
    BY <1>13, <2>1, <2>2, <2>3, FinishedWhenFed
<1>15. Finished("gateup_gemm")
  <2>1. "gateup_gemm" \in Functions /\ Flows("gateup_gemm")
    BY DownstreamFlows DEF Functions
  <2>2. \A s \in Streams : Reader(s) = "gateup_gemm" => s \in {"norm2_q", "norm2_sc"}
    BY TwoStreamsEach
  <2>3. Writer("norm2_q") = "rmsnorm2" /\ Writer("norm2_sc") = "rmsnorm2"
    BY WriterValues
  <2>4. QED
    BY <1>14, <2>1, <2>2, <2>3, FinishedWhenFed
<1>16. Finished("silu")
  <2>1. "silu" \in Functions /\ Flows("silu")
    BY DownstreamFlows DEF Functions
  <2>2. \A s \in Streams : Reader(s) = "silu" => s = "gateup_out"
    BY OneStreamEach
  <2>3. Writer("gateup_out") = "gateup_gemm"
    BY WriterValues
  <2>4. QED
    BY <1>15, <2>1, <2>2, <2>3, FinishedWhenFed
<1>17. Finished("down_gemm")
  <2>1. "down_gemm" \in Functions /\ Flows("down_gemm")
    BY DownstreamFlows DEF Functions
  <2>2. \A s \in Streams : Reader(s) = "down_gemm" => s \in {"ffn_act", "ffn_sc"}
    BY TwoStreamsEach
  <2>3. Writer("ffn_act") = "silu" /\ Writer("ffn_sc") = "silu"
    BY WriterValues
  <2>4. QED
    BY <1>16, <2>1, <2>2, <2>3, FinishedWhenFed
<1>18. Finished("residual2")
  <2>1. "residual2" \in Functions /\ Flows("residual2")
    BY DownstreamFlows DEF Functions
  <2>2. \A s \in Streams : Reader(s) = "residual2" => s = "down_out"
    BY OneStreamEach
  <2>3. Writer("down_out") = "down_gemm"
    BY WriterValues
  <2>4. QED
    BY <1>17, <2>1, <2>2, <2>3, FinishedWhenFed
<1>19. Finished("store")
  <2>1. "store" \in Functions /\ Flows("store")
    BY DownstreamFlows DEF Functions
  <2>2. \A s \in Streams : Reader(s) = "store" => s = "res_buf_1_out"
    BY OneStreamEach
  <2>3. Writer("res_buf_1_out") = "residual2"
    BY WriterValues
  <2>4. QED
    BY <1>18, <2>1, <2>2, <2>3, FinishedWhenFed
<1>20. Finished("lm_norm")
  <2>1. "lm_norm" \in Functions /\ Flows("lm_norm")
    BY DownstreamFlows DEF Functions
  <2>2. \A s \in Streams : Reader(s) = "lm_norm" => s = "lm_raw"
    BY OneStreamEach
  <2>3. Writer("lm_raw") = "store"
    BY WriterValues
  <2>4. QED
    BY <1>19, <2>1, <2>2, <2>3, FinishedWhenFed
<1>21. Finished("lm_gemm")
  <2>1. "lm_gemm" \in Functions /\ Flows("lm_gemm")
    BY DownstreamFlows DEF Functions
  <2>2. \A s \in Streams : Reader(s) = "lm_gemm" => s \in {"lm_q", "lm_sc"}
    BY TwoStreamsEach
  <2>3. Writer("lm_q") = "lm_norm" /\ Writer("lm_sc") = "lm_norm"
    BY WriterValues
  <2>4. QED
    BY <1>20, <2>1, <2>2, <2>3, FinishedWhenFed
<1>22. Finished("lm_out")
  <2>1. "lm_out" \in Functions /\ Flows("lm_out")
    BY DownstreamFlows DEF Functions
  <2>2. \A s \in Streams : Reader(s) = "lm_out" => s = "lm_out"
    BY OneStreamEach
  <2>3. Writer("lm_out") = "lm_gemm"
    BY WriterValues
  <2>4. QED
    BY <1>21, <2>1, <2>2, <2>3, FinishedWhenFed
<1>23. QED
  BY <1>2, <1>3, <1>4, <1>5, <1>6, <1>7, <1>8, <1>9, <1>10, <1>11, <1>12, <1>13, <1>14, <1>15, <1>16, <1>17,
     <1>18, <1>19, <1>20, <1>21, <1>22 DEF AllFinished, Functions

(* A launch whose streams are deep enough for those never comes to a state,   *)
(* short of its end, in which every function of the region waits on an        *)
(* empty or a full stream: the region is free of deadlock.                    *)
THEOREM NeverStuckEarly == Spec => []NeverStuck
<1>1. Inv => NeverStuck
  BY StuckAtEnd DEF NeverStuck
<1>2. QED
  BY <1>1, Invariant, PTL

(* No step is left when no function is ready.                                 *)
LEMMA StuckStays == Stuck => ~Next
<1> SUFFICES ASSUME Stuck, NEW f \in Functions, Read(f) \/ Write(f) PROVE FALSE
  BY DEF Next
<1>1. Ready(f)
  BY DEF Read, Write, Ready
<1>2. QED
  BY <1>1 DEF Stuck

(* Both: when a launch can go no further it has completed if and only if      *)
(* its streams hold what must wait in them.                                   *)
THEOREM CompletesExactlyIf == Spec => []EndsAsHeld
<1>1. NeverStuck /\ CompletesOnlyIf => EndsAsHeld
  BY DEF NeverStuck, CompletesOnlyIf, EndsAsHeld
<1>2. QED
  BY <1>1, NeverStuckEarly, CompletedOnlyIf, PTL
=============================================================================
