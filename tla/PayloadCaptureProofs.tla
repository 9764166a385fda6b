------------------------ MODULE PayloadCaptureProofs ------------------------
(***************************************************************************)
(* Proofs about PayloadCapture, for all message types, shapes, limits and    *)
(* environments: what flattening makes of a type, what reading a message by  *)
(* a flat schema pushes, and with that the properties of the hooks.          *)
(*                                                                         *)
(* Types are nested in each other, and the definitions follow them: layout,  *)
(* flattening, interpretation and the units of a message are recursive       *)
(* functions.  Recursion gives each of them its equation, and its            *)
(* RankInduction a proof that goes up the depth of the types; an instance of *)
(* it stands before each recursive definition that is reasoned about.        *)
(*                                                                         *)
(* The steps: sequences one after the other (FlattenPlaces); where the cells *)
(* of a field lie (InlineCells, ItemCells); what a schema is flattened to    *)
(* (FlatSchemaIsFlat); what is read with it (EveryFieldRead); that no two    *)
(* units share a name (OneUnitPerKey); what a diagnostic array is read as,   *)
(* status by status (DiagnosticRead); and IInv, the inductive invariant,     *)
(* which says what an entry holds and how `captured' came out of it.         *)
(***************************************************************************)
EXTENDS PayloadCapture, SequenceTheorems, TLAPS

\* The layout of a type, by recursion on how deep messages are nested in it.
TypeRecursion == INSTANCE Recursion WITH Dom <- Types, Rank <- Depth, Step <- LayoutOf

-----------------------------------------------------------------------------
(* Sequences one after the other.                                           *)

\* A function on 1 .. n is a sequence.
LEMMA FunctionIsSeq ==
  ASSUME NEW A, NEW n \in Nat, NEW s \in [1 .. n -> A]
  PROVE  s \in Seq(A) /\ Len(s) = n
OBVIOUS

\* The function FlattenSeq is defined by, stage by stage.
StageStep(stages, seqs, i) == IF i = 1 THEN seqs[i] ELSE stages[i - 1] \o seqs[i]
AreStages(f, seqs, n) == f = [i \in 1 .. n |-> StageStep(f, seqs, i)]
IsStaged(f, seqs, n) == \A i \in 1 .. n : f[i] = StageStep(f, seqs, i)
Stages(seqs) == CHOOSE f : AreStages(f, seqs, Len(seqs))
First(seqs, n) == [k \in 1 .. n |-> seqs[k]]

\* The flat sequence is the last stage.
LEMMA FlattenSeqIsStage ==
  ASSUME NEW seqs
  PROVE  FlattenSeq(seqs) = IF Len(seqs) = 0 THEN seqs ELSE Stages(seqs)[Len(seqs)]
BY DEF FlattenSeq, Stages, AreStages, StageStep

\* Up to each number there is a function that follows the steps,
LEMMA StagesUpto ==
  ASSUME NEW A, NEW seqs \in Seq(Seq(A)), NEW n \in 0 .. Len(seqs)
  PROVE  \E f \in [1 .. n -> Seq(A)] : AreStages(f, seqs, n)
<1> DEFINE P(k) == \E f \in [1 .. k -> Seq(A)] : AreStages(f, seqs, k)
           T == {k \in 0 .. n : P(k)}
<1>1. n \in Nat /\ n <= Len(seqs) /\ \A i \in 1 .. Len(seqs) : seqs[i] \in Seq(A)
  OBVIOUS
<1>2. P(0)
  <2> DEFINE e == [i \in 1 .. 0 |-> <<>>]
  <2>1. e \in [1 .. 0 -> Seq(A)] /\ AreStages(e, seqs, 0)
    BY DEF AreStages
  <2> QED BY <2>1
<1>3. ASSUME NEW k \in 1 .. n, P(k - 1) PROVE P(k)
  <2>1. PICK f \in [1 .. k - 1 -> Seq(A)] : AreStages(f, seqs, k - 1)
    BY <1>3
  <2> DEFINE g == [i \in 1 .. k |-> StageStep(f, seqs, i)]
  <2>2. ASSUME NEW i \in 1 .. k, i # 1
        PROVE i - 1 \in 1 .. k - 1 /\ i - 1 \in 1 .. k
    BY <1>1, <2>2
  <2>3. ASSUME NEW i \in 1 .. k, i # 1
        PROVE f[i - 1] = g[i - 1] /\ f[i - 1] \in Seq(A)
    BY <2>1, <2>2, <2>3 DEF AreStages
  <2>4. ASSUME NEW i \in 1 .. k PROVE g[i] \in Seq(A)
    <3>1. seqs[i] \in Seq(A)
      BY <1>1
    <3> QED BY <2>3, <3>1 DEF StageStep
  <2>5. g \in [1 .. k -> Seq(A)]
    BY <2>4
  <2>6. ASSUME NEW i \in 1 .. k PROVE g[i] = StageStep(g, seqs, i)
    BY <2>3 DEF StageStep
  <2>7. AreStages(g, seqs, k)
    BY <2>6 DEF AreStages
  <2> HIDE DEF g
  <2> QED BY <2>5, <2>7
<1> HIDE DEF P
<1>4. T = 0 .. n
  <2>1. 0 \in T /\ \A k \in 1 .. n : k - 1 \in T => k \in T
    BY <1>1, <1>2, <1>3
  <2>2. T \in SUBSET (0 .. n)
    OBVIOUS
  <2> HIDE DEF T
  <2> QED BY <1>1, <2>1, <2>2, TypeRecursion!IndexInduction
<1> QED BY <1>1, <1>4 DEF P

\* there is only one,
LEMMA StagesAgree ==
  ASSUME NEW seqs, NEW n \in Nat, NEW f, NEW g,
         IsStaged(f, seqs, n), IsStaged(g, seqs, n)
  PROVE  \A i \in 1 .. n : f[i] = g[i]
<1> DEFINE T == {k \in 0 .. n : k # 0 => f[k] = g[k]}
<1>1. ASSUME NEW k \in 1 .. n, k - 1 \in T PROVE k \in T
  <2>1. k = 1 \/ f[k - 1] = g[k - 1]
    BY <1>1
  <2> QED BY <2>1 DEF StageStep, IsStaged
<1>2. T = 0 .. n
  <2>1. 0 \in T /\ T \in SUBSET (0 .. n)
    OBVIOUS
  <2> HIDE DEF T
  <2> QED BY <1>1, <2>1, TypeRecursion!IndexInduction
<1> QED BY <1>2

\* and so the chosen one follows them to the end.
LEMMA StagesExist ==
  ASSUME NEW A, NEW seqs \in Seq(Seq(A))
  PROVE  \A i \in 1 .. Len(seqs) :
           Stages(seqs)[i] \in Seq(A) /\ Stages(seqs)[i] = StageStep(Stages(seqs), seqs, i)
<1>1. PICK f \in [1 .. Len(seqs) -> Seq(A)] : AreStages(f, seqs, Len(seqs))
  BY StagesUpto
<1>2. AreStages(Stages(seqs), seqs, Len(seqs))
  BY <1>1 DEF Stages
<1> DEFINE st == Stages(seqs)
<1> HIDE DEF st
<1>3. ASSUME NEW i \in 1 .. Len(seqs)
      PROVE  st[i] = StageStep(st, seqs, i) /\ f[i] = StageStep(f, seqs, i)
  BY <1>1, <1>2 DEF AreStages, st
<1>4. \A i \in 1 .. Len(seqs) : st[i] = f[i]
  <2>1. Len(seqs) \in Nat
    OBVIOUS
  <2>2. IsStaged(st, seqs, Len(seqs)) /\ IsStaged(f, seqs, Len(seqs))
    BY <1>3 DEF IsStaged
  <2> DEFINE n == Len(seqs)
  <2> HIDE DEF n
  <2>3. n \in Nat /\ IsStaged(st, seqs, n) /\ IsStaged(f, seqs, n)
    BY <2>1, <2>2 DEF n
  <2>4. \A i \in 1 .. n : st[i] = f[i]
    <3>1. \A a, b : IsStaged(a, seqs, n) /\ IsStaged(b, seqs, n) => \A i \in 1 .. n : a[i] = b[i]
      BY <2>3, StagesAgree
    <3> QED BY ONLY <2>3, <3>1
  <2> QED BY <2>4 DEF n
<1>5. \A i \in 1 .. Len(seqs) : f[i] \in Seq(A)
  OBVIOUS
<1>6. \A i \in 1 .. Len(seqs) : st[i] = StageStep(st, seqs, i)
  BY <1>3
<1>7. \A i \in 1 .. Len(seqs) : st[i] \in Seq(A) /\ st[i] = StageStep(st, seqs, i)
  BY <1>4, <1>5, <1>6
<1> QED BY <1>7 DEF st

\* The first n of a sequence.
LEMMA FirstIsSeq ==
  ASSUME NEW B, NEW seqs \in Seq(B), NEW n \in 0 .. Len(seqs)
  PROVE  /\ First(seqs, n) \in Seq(B) /\ Len(First(seqs, n)) = n
         /\ \A k \in 1 .. n : First(seqs, n)[k] = seqs[k]
         /\ First(seqs, Len(seqs)) = seqs
BY DEF First

\* FlattenSeq appends one sequence after the other.
LEMMA FlattenSteps ==
  ASSUME NEW A, NEW seqs \in Seq(Seq(A)), NEW n \in 0 .. Len(seqs)
  PROVE  /\ FlattenSeq(First(seqs, n)) \in Seq(A)
         /\ n = 0 => FlattenSeq(First(seqs, n)) = <<>>
         /\ n # 0 => FlattenSeq(First(seqs, n)) =
                       FlattenSeq(First(seqs, n - 1)) \o seqs[n]
<1>1. ASSUME NEW m \in 1 .. Len(seqs)
      PROVE FlattenSeq(First(seqs, m)) = Stages(seqs)[m]
  <2>1. m \in Nat /\ m # 0 /\ m \in 0 .. Len(seqs)
    OBVIOUS
  <2> DEFINE q == First(seqs, m)
  <2>2. q \in Seq(Seq(A)) /\ Len(q) = m /\ \A i \in 1 .. m : q[i] = seqs[i]
    BY <2>1, FirstIsSeq
  <2> HIDE DEF q
  <2>3. \A i \in 1 .. m : i \in 1 .. Len(seqs)
    OBVIOUS
  <2>4. IsStaged(Stages(seqs), seqs, m)
    BY <2>3, StagesExist DEF IsStaged
  <2>5. IsStaged(Stages(q), seqs, m)
    <3>1. \A i \in 1 .. m : Stages(q)[i] = StageStep(Stages(q), q, i)
      BY <2>2, StagesExist
    <3> QED BY <2>2, <3>1 DEF IsStaged, StageStep
  <2>6. \A i \in 1 .. m : Stages(q)[i] = Stages(seqs)[i]
    BY <2>1, <2>4, <2>5, StagesAgree
  <2>7. FlattenSeq(q) = Stages(q)[m]
    BY <2>1, <2>2, FlattenSeqIsStage
  <2>8. m \in 1 .. m
    BY <2>1
  <2> QED BY <2>6, <2>7, <2>8 DEF q
<1>2. First(seqs, 0) = <<>> /\ FlattenSeq(<<>>) = <<>>
  BY FlattenSeqIsStage DEF First
<1>3. CASE n = 0
  <2>1. FlattenSeq(First(seqs, n)) = <<>> /\ <<>> \in Seq(A)
    BY <1>2, <1>3
  <2> QED BY <1>3, <2>1
<1>4. CASE n # 0
  <2>1. n \in 1 .. Len(seqs) /\ (n # 1 => n - 1 \in 1 .. Len(seqs))
    BY <1>4
  <2>2. FlattenSeq(First(seqs, n)) = StageStep(Stages(seqs), seqs, n)
        /\ FlattenSeq(First(seqs, n)) \in Seq(A)
    BY <1>1, <2>1, StagesExist
  <2>3. CASE n = 1
    <3>1. seqs[1] \in Seq(A) 
      BY <2>1, <2>3
    <3>2. <<>> \o seqs[1] = seqs[1]
      BY <3>1
    <3> QED BY <1>2, <2>2, <2>3, <3>2 DEF StageStep
  <2>4. CASE n # 1
    BY <1>1, <1>4, <2>1, <2>2, <2>4 DEF StageStep
  <2> QED BY <2>3, <2>4
<1> QED BY <1>3, <1>4

\* The first n sequences, one after the other.
Joined(seqs, n) == FlattenSeq(First(seqs, n))

\* What is joined is a sequence.
LEMMA JoinedType ==
  ASSUME NEW A, NEW seqs \in Seq(Seq(A)), NEW n \in 0 .. Len(seqs)
  PROVE  Joined(seqs, n) \in Seq(A) /\ Len(Joined(seqs, n)) \in Nat
<1>1. Joined(seqs, n) \in Seq(A)
  BY FlattenSteps DEF Joined
<1> QED BY <1>1

\* None joined are the empty sequence, all joined the flat one.
LEMMA JoinedAll ==
  ASSUME NEW A, NEW seqs \in Seq(Seq(A))
  PROVE  /\ Joined(seqs, 0) = <<>>
         /\ Joined(seqs, Len(seqs)) = FlattenSeq(seqs)
<1>1. 0 \in 0 .. Len(seqs) /\ Len(seqs) \in 0 .. Len(seqs)
  OBVIOUS
<1>2. First(seqs, Len(seqs)) = seqs
  BY <1>1, FirstIsSeq
<1> QED BY <1>1, <1>2, FlattenSteps DEF Joined

\* One more is appended at the end.
LEMMA JoinedStep ==
  ASSUME NEW A, NEW seqs \in Seq(Seq(A)), NEW n \in 1 .. Len(seqs)
  PROVE  /\ Len(Joined(seqs, n - 1)) \in Nat /\ Len(seqs[n]) \in Nat
         /\ Len(Joined(seqs, n)) = Len(Joined(seqs, n - 1)) + Len(seqs[n])
         /\ \A j \in 1 .. Len(Joined(seqs, n - 1)) :
              Joined(seqs, n)[j] = Joined(seqs, n - 1)[j]
         /\ \A k \in 1 .. Len(seqs[n]) :
              Joined(seqs, n)[Len(Joined(seqs, n - 1)) + k] = seqs[n][k]
<1>1. n - 1 \in 0 .. Len(seqs) /\ n \in 0 .. Len(seqs) /\ n # 0
  OBVIOUS
<1>2. Joined(seqs, n) = Joined(seqs, n - 1) \o seqs[n]
  BY <1>1, FlattenSteps DEF Joined
<1>3. Joined(seqs, n - 1) \in Seq(A) /\ seqs[n] \in Seq(A)
  BY <1>1, JoinedType
<1> DEFINE s == Joined(seqs, n - 1)
           t == seqs[n]
<1>4. s \in Seq(A) /\ t \in Seq(A) /\ Joined(seqs, n) = s \o t
  BY <1>2, <1>3
<1> HIDE DEF s, t
<1>5. /\ Len(s) \in Nat /\ Len(t) \in Nat
      /\ Len(s \o t) = Len(s) + Len(t)
      /\ \A j \in 1 .. Len(s) : (s \o t)[j] = s[j]
      /\ \A k \in 1 .. Len(t) : (s \o t)[Len(s) + k] = t[k]
  BY <1>4
<1> QED BY <1>4, <1>5 DEF s, t

\* Where the n-th sequence starts in the flat one.
Start(seqs, n) == Len(Joined(seqs, n - 1))

Placed(seqs, m) ==
  \A n \in 1 .. m : \A k \in 1 .. Len(seqs[n]) :
    /\ Start(seqs, n) + k \in 1 .. Len(Joined(seqs, m))
    /\ Joined(seqs, m)[Start(seqs, n) + k] = seqs[n][k]

NothingElse(seqs, m) ==
  \A j \in 1 .. Len(Joined(seqs, m)) :
    \E n \in 1 .. m : \E k \in 1 .. Len(seqs[n]) : j = Start(seqs, n) + k

\* Appending one more leaves the others where they are,
LEMMA PlacedStep ==
  ASSUME NEW A, NEW seqs \in Seq(Seq(A)), NEW m \in 1 .. Len(seqs),
         Placed(seqs, m - 1)
  PROVE  Placed(seqs, m)
<1> SUFFICES ASSUME NEW n \in 1 .. m, NEW k \in 1 .. Len(seqs[n])
             PROVE  /\ Start(seqs, n) + k \in 1 .. Len(Joined(seqs, m))
                    /\ Joined(seqs, m)[Start(seqs, n) + k] = seqs[n][k]
  BY DEF Placed
<1>0. /\ Len(Joined(seqs, m - 1)) \in Nat /\ Len(seqs[m]) \in Nat
      /\ Len(Joined(seqs, m)) = Len(Joined(seqs, m - 1)) + Len(seqs[m])
      /\ \A j \in 1 .. Len(Joined(seqs, m - 1)) :
           Joined(seqs, m)[j] = Joined(seqs, m - 1)[j]
      /\ \A l \in 1 .. Len(seqs[m]) :
           Joined(seqs, m)[Len(Joined(seqs, m - 1)) + l] = seqs[m][l]
  BY JoinedStep
<1>1. CASE n = m
  <2>1. Start(seqs, n) = Len(Joined(seqs, m - 1)) /\ k \in 1 .. Len(seqs[m])
    BY <1>1 DEF Start
  <2> QED BY <1>0, <1>1, <2>1
<1>2. CASE n # m
  <2>1. n \in 1 .. m - 1
    BY <1>2
  <2>2. /\ Start(seqs, n) + k \in 1 .. Len(Joined(seqs, m - 1))
        /\ Joined(seqs, m - 1)[Start(seqs, n) + k] = seqs[n][k]
    BY <2>1 DEF Placed
  <2>3. Start(seqs, n) + k \in 1 .. Len(Joined(seqs, m))
    <3> DEFINE a == Len(Joined(seqs, m - 1))
               b == Len(Joined(seqs, m))
               i == Start(seqs, n) + k
    <3>1. a \in Nat /\ b \in Nat /\ a <= b
      <4>1. a \in Nat /\ Len(seqs[m]) \in Nat /\ b = a + Len(seqs[m])
        BY <1>0
      <4> HIDE DEF a, b
      <4> QED BY <4>1
    <3>3. i \in 1 .. a
      BY <2>2
    <3> HIDE DEF a, b, i
    <3>2. i \in 1 .. b
      BY <3>1, <3>3
    <3> QED BY <3>2 DEF b, i
  <2>4. Joined(seqs, m)[Start(seqs, n) + k] = Joined(seqs, m - 1)[Start(seqs, n) + k]
    BY <1>0, <2>2
  <2> QED BY <2>2, <2>3, <2>4
<1> QED BY <1>1, <1>2

\* and puts nothing else into the sequence.
LEMMA NothingElseStep ==
  ASSUME NEW A, NEW seqs \in Seq(Seq(A)), NEW m \in 1 .. Len(seqs),
         NothingElse(seqs, m - 1)
  PROVE  NothingElse(seqs, m)
<1> SUFFICES ASSUME NEW j \in 1 .. Len(Joined(seqs, m))
             PROVE  \E n \in 1 .. m : \E k \in 1 .. Len(seqs[n]) : j = Start(seqs, n) + k
  BY DEF NothingElse
<1>0. /\ Len(Joined(seqs, m - 1)) \in Nat /\ Len(seqs[m]) \in Nat
      /\ Len(Joined(seqs, m)) = Len(Joined(seqs, m - 1)) + Len(seqs[m])
  BY JoinedStep
<1>1. CASE j <= Len(Joined(seqs, m - 1))
  <2>1. j \in 1 .. Len(Joined(seqs, m - 1))
    BY <1>0, <1>1
  <2>2. PICK n \in 1 .. m - 1 : \E k \in 1 .. Len(seqs[n]) : j = Start(seqs, n) + k
    BY <2>1 DEF NothingElse
  <2>3. n \in 1 .. m
    OBVIOUS
  <2> QED BY <2>2, <2>3
<1>2. CASE j > Len(Joined(seqs, m - 1))
  <2> DEFINE k == j - Len(Joined(seqs, m - 1))
  <2>1. k \in 1 .. Len(seqs[m]) /\ j = Start(seqs, m) + k
    <3> DEFINE a == Len(Joined(seqs, m - 1))
               b == Len(Joined(seqs, m))
               l == Len(seqs[m])
    <3>1. a \in Nat /\ l \in Nat /\ b = a + l /\ j \in 1 .. b /\ j > a
      BY <1>0, <1>2
    <3> HIDE DEF a, b, l
    <3>2. j - a \in 1 .. l /\ j = a + (j - a)
      BY <3>1
    <3> QED BY <3>2 DEF a, l, Start
  <2>2. m \in 1 .. m
    OBVIOUS
  <2> QED BY <2>1, <2>2
<1> QED BY <1>0, <1>1, <1>2

\* The flat sequence holds every element of every sequence at its place, and
\* nothing else.
LEMMA FlattenPlaces ==
  ASSUME NEW A, NEW seqs \in Seq(Seq(A))
  PROVE  /\ FlattenSeq(seqs) \in Seq(A)
         /\ \A n \in 1 .. Len(seqs) : Start(seqs, n) \in Nat
         /\ \A n \in 1 .. Len(seqs) : \A k \in 1 .. Len(seqs[n]) :
              /\ Start(seqs, n) + k \in 1 .. Len(FlattenSeq(seqs))
              /\ FlattenSeq(seqs)[Start(seqs, n) + k] = seqs[n][k]
         /\ \A j \in 1 .. Len(FlattenSeq(seqs)) :
              \E n \in 1 .. Len(seqs) : \E k \in 1 .. Len(seqs[n]) :
                j = Start(seqs, n) + k
<1> DEFINE T == {m \in 0 .. Len(seqs) : Placed(seqs, m) /\ NothingElse(seqs, m)}
<1>1. Placed(seqs, 0) /\ NothingElse(seqs, 0)
  BY JoinedAll DEF Placed, NothingElse
<1>2. T = 0 .. Len(seqs)
  <2>1. 0 \in T /\ \A m \in 1 .. Len(seqs) : m - 1 \in T => m \in T
    BY <1>1, PlacedStep, NothingElseStep
  <2>2. T \in SUBSET (0 .. Len(seqs)) /\ Len(seqs) \in Nat
    OBVIOUS
  <2> HIDE DEF T
  <2> QED BY <2>1, <2>2, TypeRecursion!IndexInduction
<1>3. Len(seqs) \in 0 .. Len(seqs)
  OBVIOUS
<1>4. Placed(seqs, Len(seqs)) /\ NothingElse(seqs, Len(seqs))
  BY <1>2, <1>3
<1>5. Joined(seqs, Len(seqs)) = FlattenSeq(seqs) /\ Joined(seqs, Len(seqs)) \in Seq(A)
  BY <1>3, JoinedAll, JoinedType
<1>6. \A n \in 1 .. Len(seqs) : Start(seqs, n) \in Nat
  BY JoinedStep DEF Start
<1>7. /\ \A n \in 1 .. Len(seqs) : \A k \in 1 .. Len(seqs[n]) :
              /\ Start(seqs, n) + k \in 1 .. Len(FlattenSeq(seqs))
              /\ FlattenSeq(seqs)[Start(seqs, n) + k] = seqs[n][k]
      /\ \A j \in 1 .. Len(FlattenSeq(seqs)) :
              \E n \in 1 .. Len(seqs) : \E k \in 1 .. Len(seqs[n]) :
                j = Start(seqs, n) + k
  BY <1>4, <1>5 DEF Placed, NothingElse
<1> QED BY <1>5, <1>6, <1>7

\* Sequences of the same length lie side by side.
LEMMA FlattenBlocks ==
  ASSUME NEW A, NEW seqs \in Seq(Seq(A)), NEW c \in Nat,
         \A n \in 1 .. Len(seqs) : Len(seqs[n]) = c
  PROVE  /\ Len(FlattenSeq(seqs)) = Len(seqs) * c
         /\ \A n \in 1 .. Len(seqs) : Start(seqs, n) = (n - 1) * c
<1> DEFINE T == {m \in 0 .. Len(seqs) : Len(Joined(seqs, m)) = m * c}
<1>1. ASSUME NEW m \in 1 .. Len(seqs), Len(Joined(seqs, m - 1)) = (m - 1) * c
      PROVE  Len(Joined(seqs, m)) = m * c
  <2>1. Len(Joined(seqs, m)) = Len(Joined(seqs, m - 1)) + c
    <3>1. Len(Joined(seqs, m)) = Len(Joined(seqs, m - 1)) + Len(seqs[m])
      BY JoinedStep
    <3> QED BY <3>1
  <2>2. m \in Nat
    OBVIOUS
  <2>3. (m - 1) * c + c = m * c
    BY <2>2
  <2> QED BY <1>1, <2>1, <2>3
<1>2. Len(Joined(seqs, 0)) = 0 * c
  BY JoinedAll
<1>3. T = 0 .. Len(seqs)
  <2>1. 0 \in T /\ \A m \in 1 .. Len(seqs) : m - 1 \in T => m \in T
    BY <1>1, <1>2
  <2>2. T \in SUBSET (0 .. Len(seqs)) /\ Len(seqs) \in Nat
    OBVIOUS
  <2> HIDE DEF T
  <2> QED BY <2>1, <2>2, TypeRecursion!IndexInduction
<1>4. ASSUME NEW n \in 1 .. Len(seqs) PROVE Start(seqs, n) = (n - 1) * c
  <2>1. n - 1 \in 0 .. Len(seqs)
    OBVIOUS
  <2>2. n - 1 \in T
    BY <1>3, <2>1
  <2> QED BY <2>2 DEF Start
<1>5. Len(seqs) \in T
  BY <1>3
<1> QED BY <1>4, <1>5, JoinedAll

\* The number of items that a field declares fits in a usize.
SizedField == {f \in Field : f.array_size \in 0 .. UsizeLimit - 1}
Cell == [path : Path, field : SizedField]

\* A field of a type: what the assumptions say of it.
LEMMA FieldFacts ==
  ASSUME NEW t \in Types, NEW n \in 1 .. Len(Fields[t])
  PROVE  /\ Fields[t] \in Seq(Field) /\ Len(Fields[t]) \in Nat
         /\ Fields[t][n] \in Field
         /\ Fields[t][n].array_size \in 0 .. UsizeLimit - 1
         /\ Fields[t][n].type_id = "message" =>
              /\ Fields[t][n].of \in Types
              /\ Depth[Fields[t][n].of] \in Nat /\ Depth[t] \in Nat
              /\ Depth[Fields[t][n].of] < Depth[t]
              /\ Fields[t][n].has_get
<1>1. Fields[t] \in Seq(Field) /\ Depth \in [Types -> Nat]
  BY FieldsAssumption
<1>2. Fields[t][n] \in Field /\ Len(Fields[t]) \in Nat
  BY <1>1
<1>3. Fields[t][n].array_size \in Nat /\ UsizeLimit \in Nat
  BY <1>2, DefaultsAreNumbers DEF Field
<1>4. Fields[t][n].array_size < UsizeLimit
  BY MemoryAssumption
<1>5. Fields[t][n].type_id = "message" =>
              /\ Fields[t][n].of \in Types
              /\ Depth[Fields[t][n].of] < Depth[t]
              /\ Fields[t][n].has_get
  BY FieldsAssumption
<1> QED BY <1>1, <1>2, <1>3, <1>4, <1>5

\* The path of an index.
LEMMA DecimalFacts ==
  ASSUME NEW i \in 0 .. UsizeLimit - 1
  PROVE  Decimal[i] \in STRING
BY MemoryAssumption

\* Cells below a path are as many, with the path in front of their own.
LEMMA UnderFacts ==
  ASSUME NEW path \in Path, NEW cells \in Seq(Cell)
  PROVE  /\ Under(path, cells) \in Seq(Cell)
         /\ Len(Under(path, cells)) = Len(cells)
         /\ \A k \in 1 .. Len(cells) :
              Under(path, cells)[k] =
                [path |-> path \o cells[k].path, field |-> cells[k].field]
<1>1. ASSUME NEW k \in 1 .. Len(cells)
      PROVE  [path |-> path \o cells[k].path, field |-> cells[k].field] \in Cell
  <2> DEFINE c == cells[k]
  <2>1. c \in Cell
    OBVIOUS
  <2> HIDE DEF c
  <2>2. path \o c.path \in Path /\ c.field \in SizedField
    BY <2>1 DEF Cell, Path
  <2>3. [path |-> path \o c.path, field |-> c.field] \in Cell
    BY <2>2 DEF Cell
  <2> QED BY <2>3 DEF c
<1>2. Under(path, cells) = [k \in 1 .. Len(cells) |->
         [path |-> path \o cells[k].path, field |-> cells[k].field]]
  BY DEF Under
<1>3. Len(cells) \in Nat
  OBVIOUS
<1>4. Under(path, cells) \in [1 .. Len(cells) -> Cell]
  BY <1>1, <1>2
<1> QED BY <1>2, <1>3, <1>4, FunctionIsSeq

\* The layout of the item of a field, given those of the types.
LEMMA ItemLayoutType ==
  ASSUME NEW layout, NEW t \in Types, NEW n \in 1 .. Len(Fields[t]),
         Fields[t][n].type_id = "message" => layout[Fields[t][n].of] \in Seq(Cell)
  PROVE  ItemLayout(Fields[t][n], layout) \in Seq(Cell)
<1> DEFINE f == Fields[t][n]
<1>1. f \in SizedField
  BY FieldFacts DEF SizedField
<1> HIDE DEF f
<1>2. <<[path |-> <<>>, field |-> f]>> \in Seq(Cell)
  <2>1. <<>> \in Path
    BY DEF Path
  <2>2. [path |-> <<>>, field |-> f] \in Cell
    BY <1>1, <2>1 DEF Cell
  <2> QED BY <2>2
<1>3. f.type_id = "message" => layout[f.of] \in Seq(Cell)
  BY DEF f
<1>4. ItemLayout(f, layout) \in Seq(Cell)
  BY <1>2, <1>3 DEF ItemLayout
<1> QED BY <1>4 DEF f

\* The items of an array that lies inline.
ItemLayouts(f, layout) ==
  [i \in 1 .. f.array_size |-> Under(<<f.name, Decimal[i - 1]>>, ItemLayout(f, layout))]

\* The items of an inline array: one layout each, below their index.
LEMMA ItemLayoutsType ==
  ASSUME NEW layout, NEW t \in Types, NEW n \in 1 .. Len(Fields[t]),
         ItemLayout(Fields[t][n], layout) \in Seq(Cell)
  PROVE  /\ ItemLayouts(Fields[t][n], layout) \in Seq(Seq(Cell))
         /\ Len(ItemLayouts(Fields[t][n], layout)) = Fields[t][n].array_size
         /\ Fields[t][n].array_size \in Nat
         /\ Fields[t][n].name \in STRING
         /\ \A i \in 1 .. Fields[t][n].array_size :
              /\ <<Fields[t][n].name, Decimal[i - 1]>> \in Path
              /\ ItemLayouts(Fields[t][n], layout)[i] =
                   Under(<<Fields[t][n].name, Decimal[i - 1]>>, ItemLayout(Fields[t][n], layout))
<1> DEFINE f == Fields[t][n]
<1>1. f \in Field /\ f.array_size \in 0 .. UsizeLimit - 1 /\ UsizeLimit \in Nat
  BY FieldFacts, DefaultsAreNumbers
<1>2. f.name \in STRING /\ f.array_size \in Nat
  BY <1>1 DEF Field
<1>3. ItemLayout(f, layout) \in Seq(Cell)
  OBVIOUS
<1> HIDE DEF f
<1>4. ASSUME NEW i \in 1 .. f.array_size
      PROVE  /\ <<f.name, Decimal[i - 1]>> \in Path
             /\ Under(<<f.name, Decimal[i - 1]>>, ItemLayout(f, layout)) \in Seq(Cell)
  <2>1. i - 1 \in 0 .. UsizeLimit - 1
    BY <1>1
  <2>2. <<f.name, Decimal[i - 1]>> \in Path
    BY <1>2, <2>1, DecimalFacts DEF Path
  <2> QED BY <1>3, <2>2, UnderFacts
<1>5. /\ ItemLayouts(f, layout) \in Seq(Seq(Cell))
      /\ Len(ItemLayouts(f, layout)) = f.array_size
      /\ \A i \in 1 .. f.array_size :
           ItemLayouts(f, layout)[i] = Under(<<f.name, Decimal[i - 1]>>, ItemLayout(f, layout))
  <2>1. ItemLayouts(f, layout) \in [1 .. f.array_size -> Seq(Cell)]
    BY <1>4 DEF ItemLayouts
  <2> QED BY <1>2, <2>1, FunctionIsSeq DEF ItemLayouts
<1> QED BY <1>2, <1>4, <1>5 DEF f

\* The layout of a field, given those of the types.
LEMMA FieldLayoutType ==
  ASSUME NEW layout, NEW t \in Types, NEW n \in 1 .. Len(Fields[t]),
         Fields[t][n].type_id = "message" => layout[Fields[t][n].of] \in Seq(Cell)
  PROVE  FieldLayout(Fields[t][n], layout) \in Seq(Cell)
<1> DEFINE f == Fields[t][n]
<1>1. f \in Field /\ f \in SizedField /\ f.name \in STRING
  BY FieldFacts DEF Field, SizedField
<1>2. ItemLayout(f, layout) \in Seq(Cell)
  BY ItemLayoutType
<1>3. ItemLayouts(f, layout) \in Seq(Seq(Cell))
  BY <1>2, ItemLayoutsType
<1> HIDE DEF f
<1>4. <<f.name>> \in Path
  BY <1>1 DEF Path
<1>5. Under(<<f.name>>, ItemLayout(f, layout)) \in Seq(Cell)
  BY <1>2, <1>4, UnderFacts
<1>6. <<[path |-> <<f.name>>, field |-> f]>> \in Seq(Cell)
  <2>1. [path |-> <<f.name>>, field |-> f] \in Cell
    BY <1>1, <1>4 DEF Cell
  <2> QED BY <2>1
<1>7. FlattenSeq(ItemLayouts(f, layout)) \in Seq(Cell)
  BY <1>3, FlattenPlaces
<1>8. f.is_array \in BOOLEAN
  BY <1>1 DEF Field
<1>9. FieldLayout(f, layout) \in Seq(Cell)
  BY <1>5, <1>6, <1>7, <1>8 DEF FieldLayout, ItemLayouts, IsSequence
<1> QED BY <1>9 DEF f

\* The layout of a type depends on those of less deep types only,
LEMMA LayoutWellRanked == TypeRecursion!WellRanked
<1>1. Depth \in [Types -> Nat]
  BY FieldsAssumption
<1>2. ASSUME NEW t \in Types, NEW g, NEW h,
             \A u \in TypeRecursion!Below(t) : g[u] = h[u]
      PROVE  LayoutOf(g, t) = LayoutOf(h, t)
  <2>1. ASSUME NEW n \in 1 .. Len(Fields[t])
        PROVE FieldLayout(Fields[t][n], g) = FieldLayout(Fields[t][n], h)
    <3>1. Fields[t][n].type_id = "message" => Fields[t][n].of \in TypeRecursion!Below(t)
      BY FieldFacts DEF TypeRecursion!Below
    <3>2. ItemLayout(Fields[t][n], g) = ItemLayout(Fields[t][n], h)
      BY <1>2, <3>1 DEF ItemLayout
    <3> QED BY <3>2 DEF FieldLayout
  <2> QED BY <2>1 DEF LayoutOf
<1> QED BY <1>1, <1>2 DEF TypeRecursion!WellRanked

\* so that every type has the layout its definition says.
LEMMA LayoutEquation ==
  /\ Layout = [t \in Types |-> LayoutOf(Layout, t)]
  /\ \A t \in Types : Layout[t] = LayoutOf(Layout, t)
<1>1. TypeRecursion!Fcn = [t \in Types |-> LayoutOf(TypeRecursion!Fcn, t)]
  BY LayoutWellRanked, TypeRecursion!RecursionEquation
<1>2. TypeLayout = TypeRecursion!Fcn
  BY DEF TypeLayout, TypeRecursion!Fcn
<1>3. TypeLayout = [t \in Types |-> LayoutOf(TypeLayout, t)]
  BY <1>1, <1>2
<1>4. Layout = TypeLayout
  BY <1>3 DEF Layout
<1> QED BY <1>3, <1>4

FieldLayouts(t) == [n \in 1 .. Len(Fields[t]) |-> FieldLayout(Fields[t][n], Layout)]

\* A layout is a sequence of cells.
LEMMA LayoutType ==
  /\ Layout \in [Types -> Seq(Cell)]
  /\ \A t \in Types : FieldLayouts(t) \in Seq(Seq(Cell))
<1> DEFINE T == {t \in Types : Layout[t] \in Seq(Cell)}
<1>1. Depth \in [Types -> Nat]
  BY FieldsAssumption
<1>2. ASSUME NEW t \in Types,
             \A n \in 1 .. Len(Fields[t]) :
               Fields[t][n].type_id = "message" => Layout[Fields[t][n].of] \in Seq(Cell)
      PROVE  FieldLayouts(t) \in Seq(Seq(Cell)) /\ Layout[t] \in Seq(Cell)
  <2>1. \A n \in 1 .. Len(Fields[t]) : FieldLayout(Fields[t][n], Layout) \in Seq(Cell)
    BY <1>2, FieldLayoutType
  <2>2. Len(Fields[t]) \in Nat
    BY FieldsAssumption
  <2>3. FieldLayouts(t) \in Seq(Seq(Cell))
    BY <2>1, <2>2 DEF FieldLayouts
  <2>4. Layout[t] = FlattenSeq(FieldLayouts(t))
    BY LayoutEquation DEF LayoutOf, FieldLayouts
  <2> QED BY <2>3, <2>4, FlattenPlaces
<1>3. ASSUME NEW t \in Types, \A u \in Types : Depth[u] < Depth[t] => u \in T
      PROVE  t \in T
  <2>1. \A n \in 1 .. Len(Fields[t]) :
               Fields[t][n].type_id = "message" => Layout[Fields[t][n].of] \in Seq(Cell)
    BY <1>3, FieldFacts
  <2> QED BY <1>2, <2>1
<1>4. T = Types
  <2>1. T \in SUBSET Types
    OBVIOUS
  <2> HIDE DEF T
  <2> QED BY <1>1, <1>3, <2>1, TypeRecursion!RankInduction
<1>5. \A t \in Types : Layout[t] \in Seq(Cell)
  BY <1>4
<1>6. Layout \in [Types -> Seq(Cell)]
  BY <1>5, LayoutEquation
<1>7. ASSUME NEW t \in Types PROVE FieldLayouts(t) \in Seq(Seq(Cell))
  <2>1. \A n \in 1 .. Len(Fields[t]) :
               Fields[t][n].type_id = "message" => Layout[Fields[t][n].of] \in Seq(Cell)
    BY <1>5, FieldFacts
  <2> QED BY <1>2, <2>1
<1> QED BY <1>6, <1>7

InlineRecursion == INSTANCE Recursion WITH Dom <- Types, Rank <- Depth, Step <- AllInline

FlatteningRank == [x \in Flattening |-> Depth[x.schema]]
FlatRecursion ==
  INSTANCE Recursion WITH Dom <- Flattening, Rank <- FlatteningRank, Step <- FlattenAll

-----------------------------------------------------------------------------
(* Paths.                                                                   *)

\* A sequence with one more element is one.
LEMMA AppendType ==
  ASSUME NEW A, NEW q \in Seq(A), NEW e \in A
  PROVE  Append(q, e) \in Seq(A) /\ <<e>> \in Seq(A)
OBVIOUS

\* Joining paths, and adding a segment.
LEMMA PathFacts ==
  ASSUME NEW p \in Path, NEW q \in Path
  PROVE  /\ p \o q \in Path /\ <<>> \o p = p /\ p \o <<>> = p
         /\ <<>> \in Path
         /\ \A s \in STRING : /\ Append(p, s) \in Path /\ Append(p, s) = p \o <<s>>
                              /\ <<s>> \in Path
<1>1. p \in Seq(STRING) /\ q \in Seq(STRING)
  BY DEF Path
<1>2. p \o q \in Seq(STRING)
  BY <1>1
<1>3. <<>> \o p = p /\ p \o <<>> = p
  BY <1>1, ConcatEmptySeq
<1>4. <<>> \in Seq(STRING)
  OBVIOUS
<1>5. ASSUME NEW s \in STRING
      PROVE Append(p, s) \in Seq(STRING) /\ <<s>> \in Seq(STRING) /\ Append(p, s) = p \o <<s>>
  <2>1. Append(p, s) \in Seq(STRING)
    BY <1>1, AppendType
  <2>2. <<s>> \in Seq(STRING)
    BY <1>1, AppendType
  <2>3. Append(p, s) = p \o <<s>>
    BY <1>1, AppendIsConcat
  <2> QED BY <2>1, <2>2, <2>3
<1> QED BY <1>2, <1>3, <1>4, <1>5 DEF Path

\* It does not matter which paths are joined first.
Regrouped(p, q, r) == (p \o q) \o r = p \o (q \o r)

LEMMA PathAssociative ==
  ASSUME NEW p \in Path, NEW q \in Path, NEW r \in Path
  PROVE  Regrouped(p, q, r)
BY ConcatAssociative DEF Path, Regrouped

-----------------------------------------------------------------------------
(* The fields that lie inline in a message.                                 *)

\* The inline fields of a type are those its definition says.
LEMMA InlineEquation == \A t \in Types : InlineFields[t] = AllInline(InlineFields, t)
<1>1. InlineRecursion!WellRanked
  <2>1. Depth \in [Types -> Nat]
    BY FieldsAssumption
  <2>2. ASSUME NEW t \in Types, NEW g, NEW h,
               \A u \in InlineRecursion!Below(t) : g[u] = h[u]
        PROVE  AllInline(g, t) = AllInline(h, t)
    <3>1. ASSUME NEW n \in 1 .. Len(Fields[t])
          PROVE  FieldsInline(t, n, g) = FieldsInline(t, n, h)
      <4>1. IsStruct(Fields[t][n]) => g[Fields[t][n].of] = h[Fields[t][n].of]
        BY <2>2, FieldFacts DEF InlineRecursion!Below, IsStruct
      <4> QED BY <4>1 DEF FieldsInline
    <3> QED BY <3>1 DEF AllInline
  <2> QED BY <2>1, <2>2 DEF InlineRecursion!WellRanked
<1>2. InlineRecursion!Fcn = [t \in Types |-> AllInline(InlineRecursion!Fcn, t)]
  BY <1>1, InlineRecursion!RecursionEquation
<1>3. InlineFields = InlineRecursion!Fcn
  BY DEF InlineFields, InlineRecursion!Fcn
<1> QED BY <1>2, <1>3

\* A field of the type itself, and one of a struct in it.
Direct(t, n) ==
  [struct |-> <<>>, base |-> 0, own |-> OffsetOf(t, n), field |-> Fields[t][n]]
InStruct(t, n, g) ==
  [struct |-> <<Fields[t][n].name>> \o g.struct, base |-> OffsetOf(t, n) + g.base,
   own |-> g.own, field |-> g.field]

\* An inline field is one of the type itself, or one of a struct in it.
LEMMA InlineCases ==
  ASSUME NEW t \in Types, NEW g
  PROVE  g \in InlineFields[t] <=>
           \E n \in 1 .. Len(Fields[t]) :
             \/ ~IsStruct(Fields[t][n]) /\ g = Direct(t, n)
             \/ /\ IsStruct(Fields[t][n])
                /\ \E h \in InlineFields[Fields[t][n].of] : g = InStruct(t, n, h)
<1> DEFINE Of(n) == FieldsInline(t, n, InlineFields)
<1>1. g \in InlineFields[t] <=> \E n \in 1 .. Len(Fields[t]) : g \in Of(n)
  <2>1. InlineFields[t] = UNION {Of(n) : n \in 1 .. Len(Fields[t])}
    BY InlineEquation DEF AllInline
  <2> QED BY <2>1
<1>2. ASSUME NEW n \in 1 .. Len(Fields[t])
      PROVE  g \in Of(n) <=>
             \/ ~IsStruct(Fields[t][n]) /\ g = Direct(t, n)
             \/ /\ IsStruct(Fields[t][n])
                /\ \E h \in InlineFields[Fields[t][n].of] : g = InStruct(t, n, h)
  BY DEF FieldsInline, Direct, InStruct
<1> HIDE DEF Of
<1> QED BY <1>1, <1>2

\* The type of a struct is less deep.
LEMMA StructFacts ==
  ASSUME NEW t \in Types, NEW n \in 1 .. Len(Fields[t]), IsStruct(Fields[t][n])
  PROVE  Fields[t][n].of \in Types /\ Depth[Fields[t][n].of] < Depth[t]
BY FieldFacts DEF IsStruct

\* The offset of a field is where its layout starts.
LEMMA OffsetIsStart ==
  ASSUME NEW t \in Types, NEW n \in 1 .. Len(Fields[t])
  PROVE  OffsetOf(t, n) = Start(FieldLayouts(t), n)
<1>1. [k \in 1 .. n - 1 |-> FieldLayout(Fields[t][k], Layout)] = First(FieldLayouts(t), n - 1)
  <2>1. ASSUME NEW k \in 1 .. n - 1
        PROVE  FieldLayouts(t)[k] = FieldLayout(Fields[t][k], Layout)
    <3>1. Len(Fields[t]) \in Nat
      BY FieldFacts
    <3>2. k \in 1 .. Len(Fields[t])
      BY <3>1
    <3> QED BY <3>2 DEF FieldLayouts
  <2> QED BY <2>1 DEF First
<1> QED BY <1>1 DEF OffsetOf, Start, Joined

\* From its offset on, memory holds the layout of the field.
LEMMA OffsetFacts ==
  ASSUME NEW t \in Types, NEW n \in 1 .. Len(Fields[t])
  PROVE  /\ OffsetOf(t, n) \in Nat
         /\ FieldLayout(Fields[t][n], Layout) \in Seq(Cell)
         /\ \A k \in 1 .. Len(FieldLayout(Fields[t][n], Layout)) :
              /\ OffsetOf(t, n) + k \in 1 .. SizeOf(t)
              /\ Layout[t][OffsetOf(t, n) + k] = FieldLayout(Fields[t][n], Layout)[k]
<1>1. FieldLayouts(t) \in Seq(Seq(Cell)) /\ Len(FieldLayouts(t)) = Len(Fields[t])
  <2>1. Len(Fields[t]) \in Nat
    BY FieldFacts
  <2> QED BY <2>1, LayoutType DEF FieldLayouts
<1>2. Layout[t] = FlattenSeq(FieldLayouts(t))
  BY LayoutEquation DEF LayoutOf, FieldLayouts
<1>3. FieldLayouts(t)[n] = FieldLayout(Fields[t][n], Layout)
  BY DEF FieldLayouts
<1>4. OffsetOf(t, n) = Start(FieldLayouts(t), n)
  BY OffsetIsStart
<1>5. n \in 1 .. Len(FieldLayouts(t))
  BY <1>1
<1>6. Start(FieldLayouts(t), n) \in Nat
  BY <1>1, <1>5, FlattenPlaces
<1>7. \A k \in 1 .. Len(FieldLayouts(t)[n]) :
        /\ Start(FieldLayouts(t), n) + k \in 1 .. Len(FlattenSeq(FieldLayouts(t)))
        /\ FlattenSeq(FieldLayouts(t))[Start(FieldLayouts(t), n) + k] = FieldLayouts(t)[n][k]
  BY <1>1, <1>5, FlattenPlaces
<1>8. FieldLayouts(t)[n] \in Seq(Cell)
  BY <1>1, <1>5
<1> QED BY <1>2, <1>3, <1>4, <1>6, <1>7, <1>8 DEF SizeOf

\* The field is one of a type that is at most as deep.
FieldWithin(f, t) ==
  \E u \in Types : \E n \in 1 .. Len(Fields[u]) : f = Fields[u][n] /\ Depth[u] <= Depth[t]

InlineField(g, t) ==
  /\ g.struct \in Path /\ g.base \in Nat /\ g.own \in Nat
  /\ FieldWithin(g.field, t) /\ ~IsStruct(g.field)

\* An inline field is a field of some type, and no struct.
LEMMA InlineTypes == \A t \in Types : \A g \in InlineFields[t] : InlineField(g, t)
<1> DEFINE T == {t \in Types : \A g \in InlineFields[t] : InlineField(g, t)}
<1>1. Depth \in [Types -> Nat]
  BY FieldsAssumption
<1>2. ASSUME NEW t \in Types, \A u \in Types : Depth[u] < Depth[t] => u \in T,
             NEW g \in InlineFields[t]
      PROVE  InlineField(g, t)
  <2>1. PICK n \in 1 .. Len(Fields[t]) :
             \/ ~IsStruct(Fields[t][n]) /\ g = Direct(t, n)
             \/ /\ IsStruct(Fields[t][n])
                /\ \E h \in InlineFields[Fields[t][n].of] : g = InStruct(t, n, h)
    BY InlineCases
  <2>2. OffsetOf(t, n) \in Nat
    BY OffsetFacts
  <2>3. CASE ~IsStruct(Fields[t][n]) /\ g = Direct(t, n)
    <3>1. FieldWithin(Fields[t][n], t)
      BY <1>1 DEF FieldWithin
    <3> QED BY <2>2, <2>3, <3>1 DEF Direct, InlineField, Path
  <2>4. ASSUME IsStruct(Fields[t][n]),
               NEW h \in InlineFields[Fields[t][n].of], g = InStruct(t, n, h)
        PROVE  InlineField(g, t)
    <3> DEFINE u == Fields[t][n].of
    <3>1. u \in Types /\ Depth[u] < Depth[t]
      BY <2>4, StructFacts
    <3>2. InlineField(h, u)
      BY <1>2, <2>4, <3>1
    <3>3. FieldWithin(h.field, t)
      <4>1. PICK v \in Types : \E k \in 1 .. Len(Fields[v]) : h.field = Fields[v][k] /\ Depth[v] <= Depth[u]
        BY <3>2 DEF InlineField, FieldWithin
      <4>2. Depth[v] <= Depth[t]
        <5>1. Depth[v] \in Nat /\ Depth[u] \in Nat /\ Depth[t] \in Nat
          BY <1>1, <3>1
        <5> QED BY <3>1, <4>1, <5>1
      <4> QED BY <4>1, <4>2 DEF FieldWithin
    <3>4. Fields[t][n].name \in STRING
      BY FieldFacts DEF Field
    <3>5. <<Fields[t][n].name>> \o h.struct \in Path
      BY <3>2, <3>4 DEF InlineField, Path
    <3>6. h.base \in Nat /\ h.own \in Nat /\ ~IsStruct(h.field)
      BY <3>2 DEF InlineField
    <3> QED BY <2>2, <2>4, <3>3, <3>5, <3>6 DEF InStruct, InlineField
  <2> QED BY <2>1, <2>3, <2>4
<1>3. T = Types
  <2>1. \A t \in Types : (\A u \in Types : Depth[u] < Depth[t] => u \in T) => t \in T
    BY <1>2
  <2>2. T \in SUBSET Types
    OBVIOUS
  <2> HIDE DEF T
  <2> QED BY <1>1, <2>1, <2>2, TypeRecursion!RankInduction
<1> QED BY <1>3

\* What lies in memory at the place of an inline field: its own layout, below
\* the path of its struct.
CellsAt(t, g) ==
  \A k \in 1 .. Len(FieldLayout(g.field, Layout)) :
    /\ g.base + g.own + k \in 1 .. SizeOf(t)
    /\ Layout[t][g.base + g.own + k] =
         [path |-> g.struct \o FieldLayout(g.field, Layout)[k].path,
          field |-> FieldLayout(g.field, Layout)[k].field]

\* At the place of an inline field, memory holds its layout.
LEMMA InlineCells == \A t \in Types : \A g \in InlineFields[t] : CellsAt(t, g)
<1> DEFINE T == {t \in Types : \A g \in InlineFields[t] : CellsAt(t, g)}
<1>1. Depth \in [Types -> Nat]
  BY FieldsAssumption
<1>2. ASSUME NEW t \in Types, \A u \in Types : Depth[u] < Depth[t] => u \in T,
             NEW g \in InlineFields[t]
      PROVE  CellsAt(t, g)
  <2>1. PICK n \in 1 .. Len(Fields[t]) :
             \/ ~IsStruct(Fields[t][n]) /\ g = Direct(t, n)
             \/ /\ IsStruct(Fields[t][n])
                /\ \E h \in InlineFields[Fields[t][n].of] : g = InStruct(t, n, h)
    BY InlineCases
  <2> DEFINE f == Fields[t][n]
             cells == FieldLayout(f, Layout)
  <2>2. /\ OffsetOf(t, n) \in Nat /\ cells \in Seq(Cell)
        /\ \A k \in 1 .. Len(cells) :
              /\ OffsetOf(t, n) + k \in 1 .. SizeOf(t)
              /\ Layout[t][OffsetOf(t, n) + k] = cells[k]
    BY OffsetFacts
  <2>3. CASE ~IsStruct(f) /\ g = Direct(t, n)
    <3>1. g.field = f /\ g.struct = <<>> /\ g.base = 0 /\ g.own = OffsetOf(t, n)
      BY <2>3 DEF Direct
    <3> SUFFICES ASSUME NEW k \in 1 .. Len(cells)
                 PROVE  /\ 0 + OffsetOf(t, n) + k \in 1 .. SizeOf(t)
                        /\ Layout[t][0 + OffsetOf(t, n) + k] =
                             [path |-> <<>> \o cells[k].path, field |-> cells[k].field]
      BY <3>1 DEF CellsAt
    <3>2. cells[k] \in Cell
      BY <2>2
    <3>3. <<>> \o cells[k].path = cells[k].path
      BY <3>2, PathFacts DEF Cell
    <3>4. cells[k] = [path |-> cells[k].path, field |-> cells[k].field]
      BY <3>2 DEF Cell
    <3>5. 0 + OffsetOf(t, n) + k = OffsetOf(t, n) + k
      BY <2>2
    <3> QED BY <2>2, <3>3, <3>4, <3>5
  <2>4. ASSUME IsStruct(f), NEW h \in InlineFields[f.of], g = InStruct(t, n, h)
        PROVE  CellsAt(t, g)
    <3>1. f.of \in Types /\ Depth[f.of] < Depth[t]
      BY <2>4, StructFacts
    <3>2. CellsAt(f.of, h) /\ InlineField(h, f.of)
      BY <1>2, <2>4, <3>1, InlineTypes
    <3>3. f.name \in STRING
      BY FieldFacts DEF Field
    <3>4. <<f.name>> \in Path /\ h.struct \in Path /\ h.base \in Nat /\ h.own \in Nat
      BY <3>2, <3>3 DEF InlineField, Path
    <3>5. Layout[f.of] \in Seq(Cell)
      BY <3>1, LayoutType
    <3>6. cells = Under(<<f.name>>, Layout[f.of])
      <4>1. ~f.is_array /\ f.type_id = "message"
        BY <2>4 DEF IsStruct
      <4>0. f.is_array \in BOOLEAN
        BY FieldFacts DEF Field
      <4>2. ItemLayout(f, Layout) = Layout[f.of]
        BY <4>1 DEF ItemLayout
      <4> HIDE DEF f
      <4>3. FieldLayout(f, Layout) = Under(<<f.name>>, ItemLayout(f, Layout))
        BY <4>0, <4>1 DEF FieldLayout, IsSequence
      <4> QED BY <4>2, <4>3 DEF f
    <3>7. /\ Len(cells) = SizeOf(f.of)
          /\ \A k \in 1 .. SizeOf(f.of) :
               cells[k] = [path |-> <<f.name>> \o Layout[f.of][k].path,
                           field |-> Layout[f.of][k].field]
      <4> DEFINE inside == Layout[f.of]
                 name == <<f.name>>
      <4>1. inside \in Seq(Cell) /\ name \in Path /\ cells = Under(name, inside)
        BY <3>4, <3>5, <3>6
      <4> HIDE DEF inside, name, cells
      <4>2. /\ Len(cells) = Len(inside)
            /\ \A k \in 1 .. Len(inside) :
                 cells[k] = [path |-> name \o inside[k].path, field |-> inside[k].field]
        BY <4>1, UnderFacts
      <4>3. Len(inside) = SizeOf(f.of)
        BY DEF SizeOf, inside
      <4> QED BY <4>2, <4>3 DEF inside, name
    <3> DEFINE inner == FieldLayout(h.field, Layout)
    <3>8. g.field = h.field /\ g.struct = <<f.name>> \o h.struct
          /\ g.base = OffsetOf(t, n) + h.base /\ g.own = h.own
      BY <2>4 DEF InStruct
    <3> SUFFICES ASSUME NEW k \in 1 .. Len(inner)
                 PROVE  /\ OffsetOf(t, n) + h.base + h.own + k \in 1 .. SizeOf(t)
                        /\ Layout[t][OffsetOf(t, n) + h.base + h.own + k] =
                             [path |-> (<<f.name>> \o h.struct) \o inner[k].path,
                              field |-> inner[k].field]
      BY <3>8 DEF CellsAt
    <3> DEFINE j == h.base + h.own + k
    <3>9. /\ j \in 1 .. SizeOf(f.of)
          /\ Layout[f.of][j] = [path |-> h.struct \o inner[k].path, field |-> inner[k].field]
      BY <3>2 DEF CellsAt
    <3>10. inner[k].path \in Path
      <4>1. FieldWithin(h.field, f.of)
        BY <3>2 DEF InlineField
      <4>2. inner \in Seq(Cell)
        BY <4>1, OffsetFacts DEF FieldWithin
      <4>3. inner[k] \in Cell
        BY <4>2
      <4> QED BY <4>3 DEF Cell
    <3>11. OffsetOf(t, n) + j \in 1 .. SizeOf(t) /\ Layout[t][OffsetOf(t, n) + j] = cells[j]
      BY <2>2, <3>7, <3>9
    <3>12. cells[j] = [path |-> <<f.name>> \o (h.struct \o inner[k].path), field |-> inner[k].field]
      <4> DEFINE c == Layout[f.of][j]
                 below == <<f.name>>
      <4>1. cells[j] = [path |-> below \o c.path, field |-> c.field]
        BY <3>7, <3>9
      <4>2. c.path = h.struct \o inner[k].path /\ c.field = inner[k].field
        <5>1. c = [path |-> h.struct \o inner[k].path, field |-> inner[k].field]
          BY <3>9
        <5> HIDE DEF c, inner
        <5> QED BY <5>1
      <4> HIDE DEF c, below, cells, inner, j
      <4>3. cells[j] = [path |-> below \o (h.struct \o inner[k].path), field |-> inner[k].field]
        BY <4>1, <4>2
      <4> QED BY <4>3 DEF below
    <3>13. (<<f.name>> \o h.struct) \o inner[k].path = <<f.name>> \o (h.struct \o inner[k].path)
      <4>1. Regrouped(<<f.name>>, h.struct, inner[k].path)
        BY <3>4, <3>10, PathAssociative
      <4> QED BY <3>4, <3>10, <4>1 DEF Regrouped
    <3>14. OffsetOf(t, n) + h.base + h.own + k = OffsetOf(t, n) + j
      BY <2>2, <3>4
    <3> QED BY <3>11, <3>12, <3>13, <3>14
  <2> QED BY <2>1, <2>3, <2>4
<1>3. T = Types
  <2>1. \A t \in Types : (\A u \in Types : Depth[u] < Depth[t] => u \in T) => t \in T
    BY <1>2
  <2>2. T \in SUBSET Types
    OBVIOUS
  <2> HIDE DEF T
  <2> QED BY <1>1, <2>1, <2>2, TypeRecursion!RankInduction
<1> QED BY <1>3

-----------------------------------------------------------------------------
(* Flattening.                                                              *)

\* The flat member of a field: where it lies, and where in its struct.
Flat(f, key, offset, own) ==
  CASE ~f.is_array ->
         [kind |-> "scalar", key |-> key, type_id |-> f.type_id, offset |-> offset]
    [] f.is_array /\ f.type_id # "message" ->
         [kind |-> "scalar_array", key |-> key, type_id |-> f.type_id, offset |-> own,
          array_size |-> f.array_size, is_upper_bound |-> f.is_upper_bound,
          has_get |-> f.has_get]
    [] f.is_array /\ f.type_id = "message" ->
         [kind |-> "message_sequence", key |-> key, offset |-> offset,
          message_schema |-> f.of,
          array_size |-> f.array_size, is_upper_bound |-> f.is_upper_bound,
          has_get |-> f.has_get]

FlatOf(g, prefix, initial_offset) ==
  Flat(g.field, prefix \o PathOf(g), initial_offset + g.base + g.own, g.own)

\* A field within a type has the components of a field.
LEMMA FieldTypes ==
  ASSUME NEW t \in Types, NEW f, FieldWithin(f, t)
  PROVE  /\ f \in Field /\ f.name \in STRING /\ f.is_array \in BOOLEAN
         /\ f.array_size \in 0 .. UsizeLimit - 1 /\ f.array_size \in Nat
         /\ f.is_upper_bound \in BOOLEAN /\ f.has_get \in BOOLEAN
         /\ f.type_id \in ScalarType \cup {"message"}
         /\ f.type_id = "message" => f.of \in Types /\ Depth[f.of] < Depth[t] /\ f.has_get
<1>1. PICK u \in Types : \E n \in 1 .. Len(Fields[u]) : f = Fields[u][n] /\ Depth[u] <= Depth[t]
  BY DEF FieldWithin
<1>2. /\ f \in Field /\ f.array_size \in 0 .. UsizeLimit - 1
      /\ f.type_id = "message" =>
              /\ f.of \in Types /\ Depth[f.of] \in Nat /\ Depth[u] \in Nat
              /\ Depth[f.of] < Depth[u] /\ f.has_get
  BY <1>1, FieldFacts
<1>3. Depth[t] \in Nat
  BY FieldsAssumption
<1>4. f.array_size \in Nat /\ f.is_array \in BOOLEAN /\ f.name \in STRING
      /\ f.is_upper_bound \in BOOLEAN /\ f.has_get \in BOOLEAN
      /\ f.type_id \in ScalarType \cup {"message"}
  BY <1>2 DEF Field
<1>5. f.type_id = "message" => Depth[f.of] < Depth[t]
  BY <1>1, <1>2, <1>3
<1> QED BY <1>2, <1>4, <1>5

\* The flat member of a field is one.
LEMMA FlatType ==
  ASSUME NEW t \in Types, NEW f, FieldWithin(f, t), ~IsStruct(f),
         NEW key \in Path, NEW offset \in Nat, NEW own \in Nat
  PROVE  Flat(f, key, offset, own) \in FlatMember
<1>0. DOMAIN Decimal = 0 .. UsizeLimit - 1
  BY MemoryAssumption
<1>1. /\ f.is_array \in BOOLEAN /\ f.array_size \in DOMAIN Decimal /\ f.is_upper_bound \in BOOLEAN
      /\ f.has_get \in BOOLEAN /\ f.type_id \in ScalarType \cup {"message"}
      /\ f.type_id = "message" => f.of \in Types
  BY <1>0, FieldTypes
<1>2. CASE ~f.is_array
  <2>1. f.type_id \in ScalarType
    BY <1>1, <1>2 DEF IsStruct
  <2>2. Flat(f, key, offset, own) =
         [kind |-> "scalar", key |-> key, type_id |-> f.type_id, offset |-> offset]
    BY <1>2 DEF Flat
  <2> QED BY <2>1, <2>2 DEF FlatMember
<1>3. CASE f.is_array /\ f.type_id # "message"
  <2>1. f.type_id \in ScalarType
    BY <1>1, <1>3
  <2>2. Flat(f, key, offset, own) =
         [kind |-> "scalar_array", key |-> key, type_id |-> f.type_id, offset |-> own,
          array_size |-> f.array_size, is_upper_bound |-> f.is_upper_bound,
          has_get |-> f.has_get]
    BY <1>3 DEF Flat
  <2> QED BY <1>1, <2>1, <2>2 DEF FlatMember
<1>4. CASE f.is_array /\ f.type_id = "message"
  <2>2. Flat(f, key, offset, own) =
         [kind |-> "message_sequence", key |-> key, offset |-> offset,
          message_schema |-> f.of,
          array_size |-> f.array_size, is_upper_bound |-> f.is_upper_bound,
          has_get |-> f.has_get]
    BY <1>4 DEF Flat
  <2> QED BY <1>1, <1>4, <2>2 DEF FlatMember
<1> QED BY <1>1, <1>2, <1>3, <1>4

\* A struct is flattened in place.
LEMMA FlattenNested ==
  ASSUME NEW t \in Types, NEW n \in 1 .. Len(Fields[t]), NEW p \in Path,
         NEW off \in Nat, NEW flattened, IsStruct(Fields[t][n])
  PROVE  flatten(MemberSchema(t, n), p, off, flattened) =
           flattened[[schema |-> Fields[t][n].of,
                      prefix |-> Append(p, Fields[t][n].name),
                      initial_offset |-> off + OffsetOf(t, n)]]
<1> DEFINE f == Fields[t][n]
           o == OffsetOf(t, n)
           m == MemberSchema(t, n)
<1>1. m = [kind |-> "nested", name |-> f.name, offset |-> o, schema |-> f.of]
  BY DEF MemberSchema, IsStruct
<1> QED BY <1>1 DEF flatten

\* Any other field becomes one flat member.
LEMMA FlattenAlone ==
  ASSUME NEW t \in Types, NEW n \in 1 .. Len(Fields[t]), NEW p \in Path,
         NEW off \in Nat, NEW flattened, ~IsStruct(Fields[t][n])
  PROVE  flatten(MemberSchema(t, n), p, off, flattened) = <<FlatOf(Direct(t, n), p, off)>>
<1> DEFINE f == Fields[t][n]
           o == OffsetOf(t, n)
           m == MemberSchema(t, n)
<1>1. f \in Field /\ f.is_array \in BOOLEAN /\ f.name \in STRING /\ o \in Nat
  BY FieldFacts, OffsetFacts DEF Field
<1>2. FlatOf(Direct(t, n), p, off) = Flat(f, Append(p, f.name), off + o, o)
  <2>1. Direct(t, n).field = f /\ Direct(t, n).base = 0 /\ Direct(t, n).own = o
        /\ Direct(t, n).struct = <<>>
    BY DEF Direct
  <2>2. PathOf(Direct(t, n)) = <<f.name>>
    <3>1. Append(<<>>, f.name) = <<f.name>>
      BY <1>1, PathFacts
    <3> QED BY <2>1, <3>1 DEF PathOf
  <2>3. p \o <<f.name>> = Append(p, f.name)
    BY <1>1, PathFacts
  <2>4. off + 0 + o = off + o
    BY <1>1
  <2> QED BY <2>1, <2>2, <2>3, <2>4 DEF FlatOf
<1>4. CASE ~IsStruct(f) /\ ~f.is_array
  <2>1. m = [kind |-> "scalar", name |-> f.name, offset |-> o, type_id |-> f.type_id]
    BY <1>4 DEF MemberSchema, IsStruct
  <2>2. flatten(m, p, off, flattened) = <<FlatScalar(m, p, off)>>
    <3> HIDE DEF m
    <3> QED BY <2>1 DEF flatten
  <2>3. FlatScalar(m, p, off) = Flat(f, Append(p, f.name), off + o, o)
    <3> HIDE DEF m, f, o
    <3> QED BY <1>4, <2>1 DEF Flat, FlatScalar
  <2> QED BY <1>2, <1>4, <2>2, <2>3
<1>5. CASE f.is_array /\ f.type_id # "message"
  <2> DEFINE item == [kind |-> "scalar", name |-> f.name, offset |-> o, type_id |-> f.type_id]
  <2>1. m = [kind |-> "array", item_schema |-> item, offset |-> o,
             array_size |-> f.array_size, is_upper_bound |-> f.is_upper_bound,
             has_get |-> f.has_get]
    BY <1>5 DEF MemberSchema
  <2>2. flatten(m, p, off, flattened) = <<FlatScalarArray(m, p)>>
    <3> HIDE DEF m
    <3> QED BY <2>1 DEF flatten
  <2>3. FlatScalarArray(m, p) = Flat(f, Append(p, f.name), off + o, o)
    <3> HIDE DEF m, f, o
    <3> QED BY <1>5, <2>1 DEF Flat, FlatScalarArray
  <2> QED BY <1>2, <1>5, <2>2, <2>3 DEF IsStruct
<1>6. CASE f.is_array /\ f.type_id = "message"
  <2> DEFINE item == [kind |-> "nested", name |-> f.name, offset |-> o, schema |-> f.of]
  <2>1. m = [kind |-> "array", item_schema |-> item, offset |-> o,
             array_size |-> f.array_size, is_upper_bound |-> f.is_upper_bound,
             has_get |-> f.has_get]
    BY <1>6 DEF MemberSchema
  <2>2. flatten(m, p, off, flattened) = <<FlatMessageSequence(m, p, off)>>
    <3> HIDE DEF m
    <3> QED BY <2>1 DEF flatten
  <2>3. FlatMessageSequence(m, p, off) = Flat(f, Append(p, f.name), off + o, o)
    <3> HIDE DEF m, f, o
    <3> QED BY <1>6, <2>1 DEF Flat, FlatMessageSequence
  <2> QED BY <1>2, <1>6, <2>2, <2>3 DEF IsStruct
<1> QED BY <1>1, <1>4, <1>5, <1>6

\* The members of a schema, before they are put in one sequence.
FlatBlocks(t, p, off, flattened) ==
  [n \in 1 .. Len(Fields[t]) |-> flatten(MemberSchema(t, n), p, off, flattened)]

\* Flattening a schema joins what its members are flattened to.
LEMMA FlattenAllBlocks ==
  ASSUME NEW t \in Types, NEW p, NEW off, NEW flattened
  PROVE  FlattenAll(flattened, [schema |-> t, prefix |-> p, initial_offset |-> off]) =
           FlattenSeq(FlatBlocks(t, p, off, flattened))
<1> DEFINE members == convert_c_message_members_to_schemas(t)
<1>1. Len(members) = Len(Fields[t])
  <2>1. Len(Fields[t]) \in Nat
    BY FieldsAssumption
  <2> QED BY <2>1 DEF convert_c_message_members_to_schemas
<1>2. \A n \in 1 .. Len(Fields[t]) : members[n] = MemberSchema(t, n)
  BY DEF convert_c_message_members_to_schemas
<1>3. from_message_type_support(t).members = members
  BY DEF from_message_type_support
<1> HIDE DEF members
<1> QED BY <1>1, <1>2, <1>3 DEF FlattenAll, FlattenEach, FlatBlocks

Args(t, p, off) == [schema |-> t, prefix |-> p, initial_offset |-> off]

\* The arguments a struct is flattened with.
LEMMA StructArgs ==
  ASSUME NEW t \in Types, NEW n \in 1 .. Len(Fields[t]), NEW p \in Path,
         NEW off \in Nat, IsStruct(Fields[t][n])
  PROVE  /\ Append(p, Fields[t][n].name) \in Path
         /\ off + OffsetOf(t, n) \in Nat
         /\ Args(Fields[t][n].of, Append(p, Fields[t][n].name), off + OffsetOf(t, n))
              \in Flattening
<1>1. Fields[t][n].name \in STRING /\ OffsetOf(t, n) \in Nat /\ Fields[t][n].of \in Types
  BY FieldFacts, OffsetFacts, StructFacts DEF Field
<1>2. Append(p, Fields[t][n].name) \in Path
  BY <1>1, PathFacts
<1>3. off + OffsetOf(t, n) \in Nat
  BY <1>1
<1> QED BY <1>1, <1>2, <1>3 DEF Args, Flattening

\* The flattening of a schema is what its definition says.
LEMMA FlattenEquation ==
  ASSUME NEW t \in Types, NEW p \in Path, NEW off \in Nat
  PROVE  FlattenMembers[Args(t, p, off)] = FlattenSeq(FlatBlocks(t, p, off, FlattenMembers))
<1>1. FlatRecursion!WellRanked
  <2>1. FlatteningRank \in [Flattening -> Nat]
    BY FieldsAssumption DEF FlatteningRank, Flattening
  <2>2. ASSUME NEW x \in Flattening, NEW g, NEW h,
               \A y \in FlatRecursion!Below(x) : g[y] = h[y]
        PROVE  FlattenAll(g, x) = FlattenAll(h, x)
    <3> DEFINE u == x.schema
               q == x.prefix
               o == x.initial_offset
    <3>1. u \in Types /\ q \in Path /\ o \in Nat /\ x = Args(u, q, o)
      BY DEF Flattening, Args
    <3> HIDE DEF u, q, o
    <3>2. ASSUME NEW n \in 1 .. Len(Fields[u])
          PROVE  flatten(MemberSchema(u, n), q, o, g) = flatten(MemberSchema(u, n), q, o, h)
      <4>1. CASE IsStruct(Fields[u][n])
        <5> DEFINE y == Args(Fields[u][n].of, Append(q, Fields[u][n].name), o + OffsetOf(u, n))
        <5>1. y \in Flattening
          BY <3>1, <4>1, StructArgs
        <5>2. y.schema = Fields[u][n].of
          BY DEF Args
        <5>3. Depth[Fields[u][n].of] < Depth[u]
          BY <3>1, <4>1, StructFacts
        <5>4. x.schema = u
          BY <3>1 DEF Args
        <5>5. flatten(MemberSchema(u, n), q, o, g) = g[y]
              /\ flatten(MemberSchema(u, n), q, o, h) = h[y]
          BY <3>1, <4>1, FlattenNested DEF Args
        <5> HIDE DEF y
        <5>6. y \in FlatRecursion!Below(x)
          BY <5>1, <5>2, <5>3, <5>4 DEF FlatRecursion!Below, FlatteningRank
        <5> QED BY <2>2, <5>5, <5>6
      <4>2. CASE ~IsStruct(Fields[u][n])
        <5> DEFINE m == MemberSchema(u, n)
                   alone == <<FlatOf(Direct(u, n), q, o)>>
        <5>1. flatten(m, q, o, g) = alone
          BY <3>1, <4>2, FlattenAlone
        <5>2. flatten(m, q, o, h) = alone
          BY <3>1, <4>2, FlattenAlone
        <5> HIDE DEF m, alone
        <5>3. flatten(m, q, o, g) = flatten(m, q, o, h)
          BY <5>1, <5>2
        <5> QED BY <5>3 DEF m
      <4> QED BY <4>1, <4>2
    <3>3. FlatBlocks(u, q, o, g) = FlatBlocks(u, q, o, h)
      BY <3>2 DEF FlatBlocks
    <3>4. FlattenAll(g, Args(u, q, o)) = FlattenAll(h, Args(u, q, o))
      BY <3>1, <3>3, FlattenAllBlocks DEF Args
    <3> QED BY <3>1, <3>4
  <2> QED BY <2>1, <2>2 DEF FlatRecursion!WellRanked
<1>2. FlatRecursion!Fcn = [x \in Flattening |-> FlattenAll(FlatRecursion!Fcn, x)]
  BY <1>1, FlatRecursion!RecursionEquation
<1>3. FlattenMembers = FlatRecursion!Fcn
  BY DEF FlattenMembers, FlatRecursion!Fcn
<1>4. Args(t, p, off) \in Flattening
  BY DEF Args, Flattening
<1>5. FlattenMembers[Args(t, p, off)] = FlattenAll(FlattenMembers, Args(t, p, off))
  BY <1>2, <1>3, <1>4
<1>6. FlattenAll(FlattenMembers, Args(t, p, off)) = FlattenSeq(FlatBlocks(t, p, off, FlattenMembers))
  BY FlattenAllBlocks DEF Args
<1> QED BY <1>5, <1>6

\* A member of a struct is the member of its type, moved.
LEMMA FlatOfMoved ==
  ASSUME NEW t \in Types, NEW n \in 1 .. Len(Fields[t]), IsStruct(Fields[t][n]),
         NEW h \in InlineFields[Fields[t][n].of], NEW p \in Path, NEW off \in Nat
  PROVE  FlatOf(h, Append(p, Fields[t][n].name), off + OffsetOf(t, n)) =
           FlatOf(InStruct(t, n, h), p, off)
<1> DEFINE name == Fields[t][n].name
           o == OffsetOf(t, n)
<1>1. name \in STRING /\ o \in Nat /\ Fields[t][n].of \in Types
  BY FieldFacts, OffsetFacts, StructFacts DEF Field
<1>2. InlineField(h, Fields[t][n].of)
  BY <1>1, InlineTypes
<1>3. h.struct \in Path /\ h.base \in Nat /\ h.own \in Nat /\ h.field.name \in STRING
  BY <1>1, <1>2, FieldTypes DEF InlineField
<1>4. InStruct(t, n, h).struct = <<name>> \o h.struct /\ InStruct(t, n, h).base = o + h.base
      /\ InStruct(t, n, h).own = h.own /\ InStruct(t, n, h).field = h.field
  BY DEF InStruct
<1> HIDE DEF name, o
<1>5. Append(p, name) \o PathOf(h) = p \o PathOf(InStruct(t, n, h))
  <2> DEFINE a == <<name>>
             b == h.struct
             c == <<h.field.name>>
  <2>1. a \in Path /\ b \in Path /\ c \in Path
    BY <1>1, <1>3, PathFacts
  <2>2. PathOf(h) = b \o c /\ Append(p, name) = p \o a /\ b \o c \in Path /\ a \o b \in Path
    BY <1>1, <1>3, <2>1, PathFacts DEF PathOf
  <2>3. PathOf(InStruct(t, n, h)) = (a \o b) \o c
    BY <1>3, <1>4, <2>1, PathFacts DEF PathOf
  <2> HIDE DEF a, b, c
  <2>4. (a \o b) \o c = a \o (b \o c)
    <3>1. Regrouped(a, b, c)
      BY <2>1, PathAssociative
    <3> QED BY <2>1, <3>1 DEF Regrouped
  <2>5. (p \o a) \o (b \o c) = p \o (a \o (b \o c))
    <3>1. Regrouped(p, a, b \o c)
      BY <2>1, <2>2, PathAssociative
    <3> QED BY <2>1, <2>2, <3>1 DEF Regrouped
  <2> QED BY <2>2, <2>3, <2>4, <2>5
<1>6. off + o + h.base + h.own = off + (o + h.base) + h.own
  BY <1>1, <1>3
<1>7. FlatOf(h, Append(p, name), off + o) = FlatOf(InStruct(t, n, h), p, off)
  BY <1>4, <1>5, <1>6 DEF FlatOf
<1> QED BY <1>7 DEF name, o

\* The flat member of an inline field is one, and has its path as key.
LEMMA FlatOfType ==
  ASSUME NEW t \in Types, NEW g \in InlineFields[t], NEW p \in Path, NEW off \in Nat
  PROVE  /\ FlatOf(g, p, off) \in FlatMember
         /\ PathOf(g) \in Path /\ p \o PathOf(g) \in Path
<1>1. InlineField(g, t)
  BY InlineTypes
<1>2. g.struct \in Path /\ g.base \in Nat /\ g.own \in Nat /\ g.field.name \in STRING
  BY <1>1, FieldTypes DEF InlineField
<1>3. PathOf(g) \in Path
  BY <1>2, PathFacts DEF PathOf
<1>4. p \o PathOf(g) \in Path
  BY <1>3, PathFacts
<1>5. off + g.base + g.own \in Nat
  BY <1>2
<1>6. FieldWithin(g.field, t) /\ ~IsStruct(g.field)
  BY <1>1 DEF InlineField
<1>7. Flat(g.field, p \o PathOf(g), off + g.base + g.own, g.own) \in FlatMember
  BY <1>2, <1>4, <1>5, <1>6, FlatType
<1> QED BY <1>3, <1>4, <1>7 DEF FlatOf

\* What flattening makes of a schema: a flat member for each field that lies
\* inline, and nothing else.
IsFlat(t, p, off, members) ==
  /\ members \in Seq(FlatMember)
  /\ \A g \in InlineFields[t] : \E k \in 1 .. Len(members) : members[k] = FlatOf(g, p, off)
  /\ \A k \in 1 .. Len(members) : \E g \in InlineFields[t] : members[k] = FlatOf(g, p, off)

AllFlat(t) == \A p \in Path, off \in Nat : IsFlat(t, p, off, FlattenMembers[Args(t, p, off)])

\* A struct is flattened to the members of its type, moved, given that the
\* type is.
LEMMA FlattenStruct ==
  ASSUME NEW t \in Types, \A v \in Types : Depth[v] < Depth[t] => AllFlat(v),
         NEW n \in 1 .. Len(Fields[t]), NEW p \in Path, NEW off \in Nat,
         IsStruct(Fields[t][n]),
         NEW block, block = flatten(MemberSchema(t, n), p, off, FlattenMembers)
  PROVE  /\ block \in Seq(FlatMember)
         /\ \A h \in InlineFields[Fields[t][n].of] :
              \E k \in 1 .. Len(block) : block[k] = FlatOf(InStruct(t, n, h), p, off)
         /\ \A k \in 1 .. Len(block) : \E h \in InlineFields[Fields[t][n].of] :
              block[k] = FlatOf(InStruct(t, n, h), p, off)
<1> DEFINE u == Fields[t][n].of
           q == Append(p, Fields[t][n].name)
           o == off + OffsetOf(t, n)
<1>1. u \in Types /\ Depth[u] < Depth[t]
  BY StructFacts
<1>2. q \in Path /\ o \in Nat
  BY StructArgs
<1>3. block = FlattenMembers[Args(u, q, o)]
  BY FlattenNested DEF Args
<1>4. \A h \in InlineFields[u] : FlatOf(h, q, o) = FlatOf(InStruct(t, n, h), p, off)
  BY FlatOfMoved
<1>5. AllFlat(u)
  BY <1>1
<1> HIDE DEF u, q, o
<1>6. IsFlat(u, q, o, block)
  BY <1>2, <1>3, <1>5 DEF AllFlat
<1>7. /\ block \in Seq(FlatMember)
      /\ \A h \in InlineFields[u] :
              \E k \in 1 .. Len(block) : block[k] = FlatOf(InStruct(t, n, h), p, off)
      /\ \A k \in 1 .. Len(block) : \E h \in InlineFields[u] :
              block[k] = FlatOf(InStruct(t, n, h), p, off)
  BY <1>4, <1>6 DEF IsFlat
<1> QED BY <1>7 DEF u

\* Members joined from blocks are those of the blocks.
LEMMA JoinedMembers ==
  ASSUME NEW A, NEW blocks \in Seq(Seq(A))
  PROVE  /\ FlattenSeq(blocks) \in Seq(A)
         /\ \A n \in 1 .. Len(blocks) : \A k \in 1 .. Len(blocks[n]) :
              \E j \in 1 .. Len(FlattenSeq(blocks)) : FlattenSeq(blocks)[j] = blocks[n][k]
         /\ \A j \in 1 .. Len(FlattenSeq(blocks)) :
              \E n \in 1 .. Len(blocks) : \E k \in 1 .. Len(blocks[n]) :
                FlattenSeq(blocks)[j] = blocks[n][k]
<1> DEFINE all == FlattenSeq(blocks)
<1>1. /\ all \in Seq(A)
      /\ \A n \in 1 .. Len(blocks) : \A k \in 1 .. Len(blocks[n]) :
              /\ Start(blocks, n) + k \in 1 .. Len(all)
              /\ all[Start(blocks, n) + k] = blocks[n][k]
      /\ \A j \in 1 .. Len(all) :
              \E n \in 1 .. Len(blocks) : \E k \in 1 .. Len(blocks[n]) :
                j = Start(blocks, n) + k
  BY FlattenPlaces
<1> HIDE DEF all
<1>2. /\ all \in Seq(A)
      /\ \A n \in 1 .. Len(blocks) : \A k \in 1 .. Len(blocks[n]) :
              \E j \in 1 .. Len(all) : all[j] = blocks[n][k]
  BY <1>1
<1>3. \A j \in 1 .. Len(all) :
              \E n \in 1 .. Len(blocks) : \E k \in 1 .. Len(blocks[n]) :
                all[j] = blocks[n][k]
  BY <1>1
<1> QED BY <1>2, <1>3 DEF all

\* Every type is flattened to its inline fields.
LEMMA AllTypesFlat == \A t \in Types : AllFlat(t)
<1> DEFINE T == {t \in Types : AllFlat(t)}
<1>1. Depth \in [Types -> Nat]
  BY FieldsAssumption
<1>2. ASSUME NEW t \in Types, \A u \in Types : Depth[u] < Depth[t] => AllFlat(u)
      PROVE  AllFlat(t)
  <2> SUFFICES ASSUME NEW p \in Path, NEW off \in Nat
               PROVE  IsFlat(t, p, off, FlattenMembers[Args(t, p, off)])
    BY DEF AllFlat
  <2> DEFINE blocks == FlatBlocks(t, p, off, FlattenMembers)
             members == FlattenSeq(blocks)
             Block(n) == flatten(MemberSchema(t, n), p, off, FlattenMembers)
  <2>1. FlattenMembers[Args(t, p, off)] = members
    BY FlattenEquation
  <2>2. ASSUME NEW n \in 1 .. Len(Fields[t]), IsStruct(Fields[t][n])
        PROVE  /\ Block(n) \in Seq(FlatMember)
               /\ \A h \in InlineFields[Fields[t][n].of] :
                    \E k \in 1 .. Len(Block(n)) : Block(n)[k] = FlatOf(InStruct(t, n, h), p, off)
               /\ \A k \in 1 .. Len(Block(n)) : \E h \in InlineFields[Fields[t][n].of] :
                    Block(n)[k] = FlatOf(InStruct(t, n, h), p, off)
    BY <1>2, <2>2, FlattenStruct
  <2>3. ASSUME NEW n \in 1 .. Len(Fields[t]), ~IsStruct(Fields[t][n])
        PROVE  /\ Block(n) \in Seq(FlatMember) /\ Len(Block(n)) = 1
               /\ Block(n)[1] = FlatOf(Direct(t, n), p, off)
    <3>0. flatten(MemberSchema(t, n), p, off, FlattenMembers) =
            <<FlatOf(Direct(t, n), p, off)>>
      BY <2>3, FlattenAlone
    <3>1. Block(n) = <<FlatOf(Direct(t, n), p, off)>>
      BY <3>0
    <3>2. Direct(t, n) \in InlineFields[t]
      BY <2>3, InlineCases
    <3>3. FlatOf(Direct(t, n), p, off) \in FlatMember
      BY <3>2, FlatOfType
    <3> HIDE DEF Block
    <3> QED BY <3>1, <3>3
  <2> HIDE DEF Block
  <2>4. blocks \in Seq(Seq(FlatMember)) /\ Len(blocks) = Len(Fields[t])
        /\ \A n \in 1 .. Len(Fields[t]) : blocks[n] = Block(n)
    <3>1. Len(Fields[t]) \in Nat
      BY FieldsAssumption
    <3>2. blocks = [n \in 1 .. Len(Fields[t]) |-> Block(n)]
      BY DEF FlatBlocks, Block
    <3>3. \A n \in 1 .. Len(Fields[t]) : Block(n) \in Seq(FlatMember)
      BY <2>2, <2>3
    <3> HIDE DEF blocks
    <3>4. blocks \in [1 .. Len(Fields[t]) -> Seq(FlatMember)]
      BY <3>2, <3>3
    <3> QED BY <3>1, <3>2, <3>4, FunctionIsSeq
  <2> HIDE DEF blocks
  <2>5. /\ members \in Seq(FlatMember)
        /\ \A n \in 1 .. Len(blocks) : \A k \in 1 .. Len(blocks[n]) :
              \E j \in 1 .. Len(members) : members[j] = blocks[n][k]
        /\ \A j \in 1 .. Len(members) :
              \E n \in 1 .. Len(blocks) : \E k \in 1 .. Len(blocks[n]) :
                members[j] = blocks[n][k]
    BY <2>4, JoinedMembers
  <2> HIDE DEF members
  <2>6. ASSUME NEW g \in InlineFields[t]
        PROVE  \E j \in 1 .. Len(members) : members[j] = FlatOf(g, p, off)
    <3>1. PICK n \in 1 .. Len(Fields[t]) :
             \/ ~IsStruct(Fields[t][n]) /\ g = Direct(t, n)
             \/ /\ IsStruct(Fields[t][n])
                /\ \E h \in InlineFields[Fields[t][n].of] : g = InStruct(t, n, h)
      BY InlineCases
    <3>2. \E k \in 1 .. Len(Block(n)) : Block(n)[k] = FlatOf(g, p, off)
      BY <2>2, <2>3, <3>1
    <3>3. PICK k \in 1 .. Len(Block(n)) : Block(n)[k] = FlatOf(g, p, off)
      BY <3>2
    <3>4. n \in 1 .. Len(blocks) /\ blocks[n] = Block(n)
      BY <2>4
    <3>5. \E j \in 1 .. Len(members) : members[j] = blocks[n][k]
      BY <2>5, <3>4
    <3> QED BY <3>3, <3>4, <3>5
  <2>7. ASSUME NEW j \in 1 .. Len(members)
        PROVE  \E g \in InlineFields[t] : members[j] = FlatOf(g, p, off)
    <3>4. PICK n \in 1 .. Len(blocks) : \E k \in 1 .. Len(blocks[n]) : members[j] = blocks[n][k]
      BY <2>5
    <3>5. n \in 1 .. Len(Fields[t]) /\ blocks[n] = Block(n)
      BY <2>4
    <3>0. \E k \in 1 .. Len(Block(n)) : members[j] = Block(n)[k]
      BY <3>4, <3>5
    <3>1. PICK k \in 1 .. Len(Block(n)) : members[j] = Block(n)[k]
      BY <3>0
    <3>2. CASE IsStruct(Fields[t][n])
      <4>1. PICK h \in InlineFields[Fields[t][n].of] :
                   members[j] = FlatOf(InStruct(t, n, h), p, off)
        BY <2>2, <3>1, <3>2, <3>5
      <4>2. InStruct(t, n, h) \in InlineFields[t]
        BY <3>2, <3>5, InlineCases
      <4> QED BY <4>1, <4>2
    <3>3. CASE ~IsStruct(Fields[t][n])
      <4>1. k = 1 /\ members[j] = FlatOf(Direct(t, n), p, off)
        BY <2>3, <3>1, <3>3, <3>5
      <4>2. Direct(t, n) \in InlineFields[t]
        BY <3>3, <3>5, InlineCases
      <4> QED BY <4>1, <4>2
    <3> QED BY <3>2, <3>3
  <2> QED BY <2>1, <2>5, <2>6, <2>7 DEF IsFlat
<1>3. T = Types
  <2>1. \A t \in Types : (\A u \in Types : Depth[u] < Depth[t] => u \in T) => t \in T
    BY <1>2
  <2>2. T \in SUBSET Types
    OBVIOUS
  <2> HIDE DEF T
  <2> QED BY <1>1, <2>1, <2>2, TypeRecursion!RankInduction
<1> QED BY <1>3

\* The flat schema of a type has its name and its size, and as members the
\* fields that lie inline in it, each at its offset.
THEOREM FlatSchemaIsFlat ==
  \A t \in Types : /\ FlatSchema(t).name = t /\ FlatSchema(t).size = SizeOf(t)
                   /\ IsFlat(t, <<>>, 0, FlatSchema(t).members)
<1> SUFFICES ASSUME NEW t \in Types
             PROVE  /\ FlatSchema(t).name = t /\ FlatSchema(t).size = SizeOf(t)
                    /\ IsFlat(t, <<>>, 0, FlatSchema(t).members)
  OBVIOUS
<1>1. FlatSchema(t).name = t /\ FlatSchema(t).size = SizeOf(t)
      /\ FlatSchema(t).members = FlattenMembers[Args(t, <<>>, 0)]
  BY DEF FlatSchema, from_nested_members, from_message_type_support, Args
<1>2. AllFlat(t) /\ <<>> \in Path /\ 0 \in Nat
  BY AllTypesFlat DEF Path
<1>3. IsFlat(t, <<>>, 0, FlattenMembers[Args(t, <<>>, 0)])
  BY <1>2 DEF AllFlat
<1> QED BY <1>1, <1>3

-----------------------------------------------------------------------------
(* Results.                                                                 *)

Elements(s) == {s[k] : k \in 1 .. Len(s)}

Result == [out : Seq(Attribute), ok : BOOLEAN]

\* The least of a set of numbers, as Min chooses it.
LEMMA MinOf ==
  ASSUME NEW S \in SUBSET Nat, S # {}
  PROVE  Min(S) \in S /\ \A n \in S : Min(S) <= n
<1>1. \E m \in S : \A n \in S : m <= n
  BY TypeRecursion!LeastNatural
<1> QED BY <1>1 DEF Min

\* Done and Failed are results.
LEMMA ResultFacts ==
  ASSUME NEW out \in Seq(Attribute)
  PROVE  /\ Done(out) \in Result /\ Done(out).out = out /\ Done(out).ok
         /\ Failed(out) \in Result /\ Failed(out).out = out /\ ~Failed(out).ok
BY DEF Done, Failed, Result

\* What is in no attribute, and in one.
LEMMA NothingPushed ==
  /\ <<>> \in Seq(Attribute) /\ Elements(<<>>) = {}
  /\ \A a : Elements(<<a>>) = {a}
  /\ \A a \in Attribute : <<a>> \in Seq(Attribute)
BY DEF Elements

\* The attributes of results one after the other.
LEMMA JoinedResults ==
  ASSUME NEW n \in Nat, NEW results \in [1 .. n -> Result]
  PROVE  /\ FlattenSeq([i \in 1 .. n |-> results[i].out]) \in Seq(Attribute)
         /\ Elements(FlattenSeq([i \in 1 .. n |-> results[i].out])) =
              UNION {Elements(results[i].out) : i \in 1 .. n}
<1> DEFINE blocks == [i \in 1 .. n |-> results[i].out]
           all == FlattenSeq(blocks)
<1>1. \A i \in 1 .. n : results[i].out \in Seq(Attribute)
  BY DEF Result
<1>2. blocks \in [1 .. n -> Seq(Attribute)] /\ \A i \in 1 .. n : blocks[i] = results[i].out
  BY <1>1
<1> HIDE DEF blocks
<1>3. blocks \in Seq(Seq(Attribute)) /\ Len(blocks) = n
  BY <1>2, FunctionIsSeq
<1>4. /\ all \in Seq(Attribute)
      /\ \A i \in 1 .. Len(blocks) : \A k \in 1 .. Len(blocks[i]) :
              \E j \in 1 .. Len(all) : all[j] = blocks[i][k]
      /\ \A j \in 1 .. Len(all) :
              \E i \in 1 .. Len(blocks) : \E k \in 1 .. Len(blocks[i]) :
                all[j] = blocks[i][k]
  BY <1>3, JoinedMembers
<1> HIDE DEF all
<1>5. Elements(all) = UNION {Elements(blocks[i]) : i \in 1 .. n}
  <2>1. ASSUME NEW a \in Elements(all)
        PROVE  a \in UNION {Elements(blocks[i]) : i \in 1 .. n}
    <3>1. PICK j \in 1 .. Len(all) : a = all[j]
      BY <2>1 DEF Elements
    <3>2. PICK i \in 1 .. Len(blocks) : \E k \in 1 .. Len(blocks[i]) : all[j] = blocks[i][k]
      BY <1>4
    <3>3. a \in Elements(blocks[i])
      BY <3>1, <3>2 DEF Elements
    <3> QED BY <1>3, <3>3
  <2>2. ASSUME NEW i \in 1 .. n, NEW a \in Elements(blocks[i])
        PROVE  a \in Elements(all)
    <3>1. PICK k \in 1 .. Len(blocks[i]) : a = blocks[i][k]
      BY <2>2 DEF Elements
    <3>2. PICK j \in 1 .. Len(all) : all[j] = blocks[i][k]
      BY <1>3, <1>4
    <3> QED BY <3>1, <3>2 DEF Elements
  <2> QED BY <2>1, <2>2
<1>6. Elements(all) = UNION {Elements(results[i].out) : i \in 1 .. n}
  BY <1>2, <1>5
<1> QED BY <1>4, <1>6 DEF all, blocks

\* A loop that returns at the first None pushes part of what its rounds push,
\* and all of it if none fails.
LEMMA UntilFailureFacts ==
  ASSUME NEW n \in Nat, NEW results \in [1 .. n -> Result]
  PROVE  /\ UntilFailure(results) \in Result
         /\ Elements(UntilFailure(results).out)
              \subseteq UNION {Elements(results[i].out) : i \in 1 .. n}
         /\ (\A i \in 1 .. n : results[i].ok) =>
              /\ UntilFailure(results).ok
              /\ Elements(UntilFailure(results).out) =
                   UNION {Elements(results[i].out) : i \in 1 .. n}
<1> DEFINE I == {i \in 1 .. Len(results) : ~results[i].ok}
           failure == IF I # {} THEN Min(I) ELSE 0
           last == IF failure = 0 THEN Len(results) ELSE failure
           part == [i \in 1 .. last |-> results[i].out]
<1>1. Len(results) = n
  BY FunctionIsSeq
<1>2. UntilFailure(results) = [out |-> FlattenSeq(part), ok |-> failure = 0]
  BY DEF UntilFailure, SelectInSeq
<1>3. I \in SUBSET Nat /\ I \in SUBSET (1 .. n)
  BY <1>1
<1>4. failure \in 0 .. n /\ (failure = 0 <=> I = {})
  <2> HIDE DEF I
  <2>1. I # {} => Min(I) \in I
    BY <1>3, MinOf
  <2>2. I # {} => Min(I) \in 0 .. n /\ Min(I) # 0
    <3> DEFINE m == Min(I)
    <3>1. I # {} => m \in 1 .. n
      BY <1>3, <2>1
    <3> HIDE DEF m
    <3>2. I # {} => m \in 0 .. n /\ m # 0
      BY <3>1
    <3> QED BY <3>2 DEF m
  <2>3. 0 \in 0 .. n
    OBVIOUS
  <2> QED BY <2>2, <2>3
<1>5. (\A i \in 1 .. n : results[i].ok) => I = {}
  BY <1>1
<1> HIDE DEF I, failure
<1>6. last \in 0 .. n /\ last \in Nat /\ (failure = 0 => last = n)
  BY <1>1, <1>4
<1> HIDE DEF last
<1> DEFINE first == [i \in 1 .. last |-> results[i]]
<1>7. first \in [1 .. last -> Result] /\ \A i \in 1 .. last : first[i] = results[i]
  BY <1>6
<1>8. part = [i \in 1 .. last |-> first[i].out]
  BY <1>7
<1> HIDE DEF first, part
<1>9. /\ FlattenSeq(part) \in Seq(Attribute)
      /\ Elements(FlattenSeq(part)) = UNION {Elements(first[i].out) : i \in 1 .. last}
  BY <1>6, <1>7, <1>8, JoinedResults
<1>10. Elements(FlattenSeq(part)) = UNION {Elements(results[i].out) : i \in 1 .. last}
  BY <1>7, <1>9
<1>11. 1 .. last \subseteq 1 .. n
  BY <1>6
<1>12. Elements(FlattenSeq(part)) \subseteq UNION {Elements(results[i].out) : i \in 1 .. n}
  BY <1>10, <1>11
<1>13. UntilFailure(results) \in Result
       /\ UntilFailure(results).out = FlattenSeq(part)
       /\ UntilFailure(results).ok = (failure = 0)
  BY <1>2, <1>9 DEF Result
<1>14. ASSUME \A i \in 1 .. n : results[i].ok
       PROVE  failure = 0 /\ last = n
  BY <1>4, <1>5, <1>6, <1>14
<1> QED BY <1>10, <1>12, <1>13, <1>14

\* A loop that ignores failures pushes all that its rounds push.
LEMMA IgnoringFailuresFacts ==
  ASSUME NEW n \in Nat, NEW results \in [1 .. n -> Result]
  PROVE  /\ IgnoringFailures(results) \in Seq(Attribute)
         /\ Elements(IgnoringFailures(results)) =
              UNION {Elements(results[i].out) : i \in 1 .. n}
<1>1. Len(results) = n
  BY FunctionIsSeq
<1> QED BY <1>1, JoinedResults DEF IgnoringFailures

-----------------------------------------------------------------------------
(* Words.                                                                   *)

Word == [kind : {"leaf", "sequence", "junk"}, path : Path, valid : BOOLEAN,
         items : 0 .. UsizeLimit - 1, size : Nat]

\* The number of items fits in a usize.
LEMMA ItemsType ==
  ASSUME NEW f, f.array_size \in 0 .. UsizeLimit - 1, NEW shape \in MessageShapes
  PROVE  Items(f, shape) \in 0 .. UsizeLimit - 1 /\ Items(f, shape) \in Nat
<1>1. UsizeLimit \in Nat
  BY DefaultsAreNumbers
<1>2. \A name \in DOMAIN shape.len : shape.len[name] \in 0 .. UsizeLimit - 1
  BY MemoryAssumption
<1>3. Items(f, shape) \in 0 .. UsizeLimit - 1
  <2>1. CASE ~IsSequence(f)
    <3>1. Items(f, shape) = f.array_size
      BY <2>1 DEF Items
    <3> QED BY <3>1
  <2>2. CASE IsSequence(f) /\ f.name \in DOMAIN shape.len
    <3>1. Items(f, shape) = shape.len[f.name]
      BY <2>2 DEF Items
    <3> QED BY <1>2, <2>2, <3>1
  <2>3. CASE IsSequence(f) /\ f.name \notin DOMAIN shape.len
    <3>1. Items(f, shape) = 0
      BY <2>3 DEF Items
    <3>2. 0 \in 0 .. UsizeLimit - 1
      BY <1>1, DefaultsAreNumbers
    <3> QED BY <3>1, <3>2
  <2> QED BY <2>1, <2>2, <2>3
<1> QED BY <1>1, <1>3

\* Every cell belongs to a field, and has a path.
LEMMA CellFacts ==
  ASSUME NEW t \in Types, NEW k \in 1 .. SizeOf(t)
  PROVE  /\ Layout[t][k] \in Cell
         /\ Layout[t][k].path \in Path /\ Layout[t][k].path # <<>>
         /\ Layout[t][k].field.array_size \in 0 .. UsizeLimit - 1
<1>1. Layout[t] \in Seq(Cell) /\ FieldLayouts(t) \in Seq(Seq(Cell))
      /\ Len(FieldLayouts(t)) = Len(Fields[t])
  <2>1. Len(Fields[t]) \in Nat
    BY FieldsAssumption
  <2> QED BY <2>1, LayoutType DEF FieldLayouts
<1>2. Layout[t] = FlattenSeq(FieldLayouts(t))
  BY LayoutEquation DEF LayoutOf, FieldLayouts
<1>3. PICK n \in 1 .. Len(FieldLayouts(t)) : \E j \in 1 .. Len(FieldLayouts(t)[n]) :
        Layout[t][k] = FieldLayouts(t)[n][j]
  <2> DEFINE blocks == FieldLayouts(t)
             all == FlattenSeq(blocks)
  <2>1. k \in 1 .. Len(all) /\ Layout[t][k] = all[k] /\ blocks \in Seq(Seq(Cell))
    BY <1>1, <1>2 DEF SizeOf
  <2>2. \A j \in 1 .. Len(all) : \E n \in 1 .. Len(blocks) : \E i \in 1 .. Len(blocks[n]) :
          all[j] = blocks[n][i]
    BY <2>1, JoinedMembers
  <2> HIDE DEF all, blocks
  <2>3. \E n \in 1 .. Len(blocks) : \E i \in 1 .. Len(blocks[n]) : all[k] = blocks[n][i]
    BY <2>1, <2>2
  <2> QED BY <2>1, <2>3 DEF blocks
<1> DEFINE f == Fields[t][n]
           cells == FieldLayout(f, Layout)
<1>4. n \in 1 .. Len(Fields[t]) /\ FieldLayouts(t)[n] = cells
  BY <1>1 DEF FieldLayouts
<1>5. PICK j \in 1 .. Len(cells) : Layout[t][k] = cells[j]
  BY <1>3, <1>4
<1>6. f.name \in STRING /\ f.is_array \in BOOLEAN /\ cells \in Seq(Cell)
      /\ f.array_size \in Nat
  BY <1>4, FieldFacts, OffsetFacts DEF Field
<1>7. ItemLayout(f, Layout) \in Seq(Cell)
  <2>1. f.type_id = "message" => Layout[f.of] \in Seq(Cell)
    BY <1>4, FieldFacts, LayoutType
  <2> QED BY <1>4, <2>1, ItemLayoutType
<1>8. ASSUME NEW p \in Path, p # <<>>, NEW q \in Path
      PROVE  p \o q # <<>>
  BY <1>8, ConcatEqualIffEmpty DEF Path
<1>9. cells[j].path # <<>>
  <2>1. CASE ~f.is_array
    <3> DEFINE item == ItemLayout(f, Layout)
               name == <<f.name>>
    <3>1. cells = Under(name, item)
      <4> HIDE DEF f
      <4> QED BY <1>6, <2>1 DEF FieldLayout, IsSequence
    <3>2. name \in Path /\ name # <<>>
      <4>1. name # <<>>
        OBVIOUS
      <4>2. <<f.name>> \in Path
        BY <1>6, AppendType DEF Path
      <4> QED BY <4>1, <4>2
    <3>3. item \in Seq(Cell)
      BY <1>7
    <3> HIDE DEF item, name, cells
    <3>4. Len(cells) = Len(item) /\ cells[j] = [path |-> name \o item[j].path, field |-> item[j].field]
      BY <3>1, <3>2, <3>3, UnderFacts
    <3>5. item[j] \in Cell
      BY <3>3, <3>4
    <3>6. item[j].path \in Path
      BY <3>5 DEF Cell
    <3> QED BY <1>8, <3>2, <3>4, <3>6
  <2>2. CASE IsSequence(f)
    <3>1. cells = <<[path |-> <<f.name>>, field |-> f]>>
      <4> HIDE DEF f
      <4> QED BY <1>6, <2>2 DEF FieldLayout, IsSequence
    <3>2. j = 1 /\ cells[j] = [path |-> <<f.name>>, field |-> f]
      BY <3>1
    <3> QED BY <3>2
  <2>3. CASE f.is_array /\ ~IsSequence(f)
    <3> DEFINE item == ItemLayout(f, Layout)
               items == ItemLayouts(f, Layout)
               at(i) == <<f.name, Decimal[i - 1]>>
    <3>1. cells = FlattenSeq(items)
      <4> HIDE DEF f
      <4> QED BY <1>6, <2>3 DEF FieldLayout, IsSequence, ItemLayouts
    <3>2. items \in Seq(Seq(Cell)) /\ Len(items) = f.array_size
          /\ \A i \in 1 .. f.array_size : at(i) \in Path /\ items[i] = Under(at(i), item)
      BY <1>4, <1>7, ItemLayoutsType
    <3>3. item \in Seq(Cell) /\ \A i \in 1 .. f.array_size : at(i) # <<>>
      BY <1>7
    <3> HIDE DEF item, items, at, cells, f
    <3>4. PICK i \in 1 .. f.array_size : \E m \in 1 .. Len(items[i]) : cells[j] = items[i][m]
      <4>1. \A k0 \in 1 .. Len(FlattenSeq(items)) :
              \E i \in 1 .. Len(items) : \E m \in 1 .. Len(items[i]) :
                FlattenSeq(items)[k0] = items[i][m]
        <5>1. items \in Seq(Seq(Cell))
          BY <3>2
        <5> QED BY ONLY <5>1, JoinedMembers
      <4> QED BY <1>5, <3>1, <3>2, <4>1
    <3>5. PICK m \in 1 .. Len(items[i]) : cells[j] = items[i][m]
      BY <3>4
    <3>6. Len(items[i]) = Len(item)
          /\ cells[j] = [path |-> at(i) \o item[m].path, field |-> item[m].field]
      <4>1. at(i) \in Path /\ items[i] = Under(at(i), item)
        BY <3>2
      <4> DEFINE p == at(i)
      <4> HIDE DEF p
      <4>2. p \in Path /\ item \in Seq(Cell)
        BY <3>3, <4>1 DEF p
      <4>3. /\ Len(Under(p, item)) = Len(item)
            /\ \A k0 \in 1 .. Len(item) : Under(p, item)[k0] =
                  [path |-> p \o item[k0].path, field |-> item[k0].field]
        BY <4>2, UnderFacts
      <4> QED BY <3>5, <4>1, <4>3 DEF p
    <3>7. item[m] \in Cell
      BY <3>3, <3>6
    <3>8. item[m].path \in Path
      BY <3>7 DEF Cell
    <3>9. cells[j].path = at(i) \o item[m].path
      <4> DEFINE c == cells[j]
                 whole == at(i) \o item[m].path
                 f0 == item[m].field
      <4>1. c = [path |-> whole, field |-> f0]
        BY <3>6
      <4> HIDE DEF c, whole, f0
      <4>2. c.path = whole
        BY <4>1
      <4> QED BY <4>2 DEF c, whole
    <3>10. at(i) \in Path /\ at(i) # <<>>
      BY <3>2, <3>3
    <3> QED BY <1>8, <3>8, <3>9, <3>10
  <2> QED BY <1>6, <2>1, <2>2, <2>3
<1>10. Layout[t][k] \in Cell
  BY <1>5, <1>6
<1>11. Layout[t][k].path \in Path /\ Layout[t][k].field \in SizedField
  BY <1>10 DEF Cell
<1> QED BY <1>5, <1>9, <1>10, <1>11 DEF SizedField

\* A word is a leaf, the header of a sequence, or not in the message at all;
\* only the leaf that is said to be bad does not decode.
LEMMA WordFacts ==
  ASSUME NEW message \in Message, NEW offset \in Nat
  PROVE  /\ WordAt(message, offset) \in Word
         /\ WordAt(message, offset).kind = "leaf" =>
              /\ WordAt(message, offset).path # <<>>
              /\ WordAt(message, offset).valid =
                   (WordAt(message, offset).path # message.shape.bad)
<1> DEFINE place == message.base + offset + 1
           cell == Layout[message.of][place]
           path == message.at \o cell.path
           word == WordAt(message, offset)
<1>1. /\ message.of \in Types /\ message.at \in Path /\ message.base \in Nat
      /\ message.shape \in MessageShapes /\ message.lang \in Langs
  BY DEF Message
<1>2. place \in Nat /\ place >= 1 /\ SizeOf(message.of) \in Nat
  <2>1. Layout[message.of] \in Seq(Cell)
    BY <1>1, LayoutType
  <2> QED BY <1>1, <2>1 DEF SizeOf
<1>3. CASE place > SizeOf(message.of)
  <2>1. word = Junk
    BY <1>2, <1>3 DEF WordAt, CellWord
  <2>2. <<>> \in Path
    BY DEF Path
  <2>3. 0 \in 0 .. UsizeLimit - 1
    BY DefaultsAreNumbers
  <2> QED BY <2>1, <2>2, <2>3 DEF Junk, Word
<1>4. CASE place <= SizeOf(message.of)
  <2>1. place \in 1 .. SizeOf(message.of)
    BY <1>2, <1>4
  <2>2. cell.path \in Path /\ cell.path # <<>> /\ cell.field.array_size \in 0 .. UsizeLimit - 1
    BY <1>1, <2>1, CellFacts
  <2>3. path \in Path
    BY <1>1, <2>2, PathFacts
  <2>4. path # <<>>
    BY <1>1, <2>2, ConcatEqualIffEmpty DEF Path
  <2>5. CASE IsSequence(cell.field)
    <3> DEFINE items == Items(cell.field, message.shape)
    <3>1. word = Header(path, items, message.lang)
      BY <1>2, <1>4, <2>5 DEF WordAt, CellWord
    <3>2. items \in 0 .. UsizeLimit - 1 /\ items \in Nat
      BY <1>1, <2>2, ItemsType
    <3> HIDE DEF items, path, word
    <3>3. (IF message.lang = "cpp" /\ items # 0 THEN Address ELSE items) \in Nat
      BY <3>2, AddressAssumption
    <3>4. word \in Word /\ word.kind = "sequence"
      BY <2>3, <3>1, <3>2, <3>3 DEF Header, Word
    <3> QED BY <3>4 DEF word
  <2>6. CASE ~IsSequence(cell.field)
    <3>1. word = Leaf(path, message.shape)
      BY <1>2, <1>4, <2>6 DEF WordAt, CellWord
    <3> HIDE DEF path, word
    <3>3. 0 \in 0 .. UsizeLimit - 1
      BY DefaultsAreNumbers
    <3>2. word \in Word /\ word.path # <<>> /\ word.valid = (word.path # message.shape.bad)
      BY <2>3, <2>4, <3>1, <3>3 DEF Leaf, Word
    <3> QED BY <3>2 DEF word
  <2> QED BY <2>5, <2>6
<1> QED BY <1>2, <1>3, <1>4

\* Pushing a word that was read as a scalar.
Pushes(key, type_id, word, r) ==
  /\ r \in Result
  /\ \A a \in Elements(r.out) : a.key = key
  /\ word.kind = "leaf" =>
       Elements(r.out) \subseteq {[key |-> key, value |-> word.path]}
  /\ type_id # "long_double" /\ (word.kind = "leaf" => word.valid) => r.ok
  /\ type_id # "long_double" /\ word.kind = "leaf" /\ word.valid =>
       Elements(r.out) = {[key |-> key, value |-> word.path]}

\* Pushing a word pushes its path under the key, or fails.
LEMMA PushFacts ==
  ASSUME NEW key \in Path, NEW type_id, NEW word \in Word
  PROVE  Pushes(key, type_id, word, PushValue(key, ros_to_attr_val(type_id, word)))
<1> DEFINE r == PushValue(key, ros_to_attr_val(type_id, word))
<1> SUFFICES
         /\ r \in Result
         /\ \A a \in Elements(r.out) : a.key = key
         /\ word.kind = "leaf" =>
              Elements(r.out) \subseteq {[key |-> key, value |-> word.path]}
         /\ type_id # "long_double" /\ (word.kind = "leaf" => word.valid) => r.ok
         /\ type_id # "long_double" /\ word.kind = "leaf" /\ word.valid =>
              Elements(r.out) = {[key |-> key, value |-> word.path]}
  BY DEF Pushes
<1> DEFINE val == ros_to_attr_val(type_id, word)
           a(v) == [key |-> key, value |-> v]
<1>1. word.path \in Path /\ word.valid \in BOOLEAN
  BY DEF Word
<1>2. JunkValue \in Path
  BY DEF JunkValue, Path
<1>3. ASSUME NEW v \in Path
      PROVE  /\ PushValue(key, {v}) = Done(<<a(v)>>)
             /\ Done(<<a(v)>>) \in Result /\ Done(<<a(v)>>).ok
             /\ Elements(Done(<<a(v)>>).out) = {a(v)}
  <2>1. (CHOOSE w \in {v} : TRUE) = v
    OBVIOUS
  <2>2. a(v) \in Attribute
    BY DEF Attribute, Path
  <2>3. PushValue(key, {v}) = Done(<<a(v)>>)
    BY <2>1 DEF PushValue
  <2> HIDE DEF a
  <2>4. <<a(v)>> \in Seq(Attribute) /\ Elements(<<a(v)>>) = {a(v)}
    BY <2>2, NothingPushed
  <2> QED BY <2>3, <2>4, ResultFacts
<1>4. /\ PushValue(key, {}) = Failed(<<>>)
      /\ Failed(<<>>) \in Result /\ Elements(Failed(<<>>).out) = {}
  BY NothingPushed, ResultFacts DEF PushValue
<1>5. CASE type_id = "long_double"
  <2>1. val = {}
    BY <1>5 DEF ros_to_attr_val
  <2> QED BY <1>4, <1>5, <2>1
<1>6. CASE type_id # "long_double" /\ word.kind # "leaf"
  <2>1. val = {JunkValue}
    BY <1>6 DEF ros_to_attr_val
  <2>2. r = Done(<<a(JunkValue)>>) /\ r \in Result /\ r.ok /\ Elements(r.out) = {a(JunkValue)}
    BY <1>2, <1>3, <2>1
  <2> QED BY <1>6, <2>2
<1>7. CASE type_id # "long_double" /\ word.kind = "leaf" /\ type_id = "wstring" /\ ~word.valid
  <2>1. val = {}
    BY <1>7 DEF ros_to_attr_val
  <2> QED BY <1>4, <1>7, <2>1
<1>8. CASE type_id # "long_double" /\ word.kind = "leaf" /\ ~(type_id = "wstring" /\ ~word.valid)
  <2>1. val = {word.path}
    BY <1>8 DEF ros_to_attr_val
  <2>2. r = Done(<<a(word.path)>>) /\ r \in Result /\ r.ok /\ Elements(r.out) = {a(word.path)}
    BY <1>1, <1>3, <2>1
  <2> QED BY <1>8, <2>2
<1> QED BY <1>5, <1>6, <1>7, <1>8

-----------------------------------------------------------------------------
(* What lies in memory.                                                     *)

\* A type has a size and a layout.
LEMMA SizeType == \A t \in Types : SizeOf(t) \in Nat /\ Layout[t] \in Seq(Cell)
<1>1. \A t \in Types : Layout[t] \in Seq(Cell)
  BY LayoutType
<1> QED BY <1>1 DEF SizeOf

\* Each sequence ends within the whole.
LEMMA JoinedWithin ==
  ASSUME NEW A, NEW seqs \in Seq(Seq(A)), NEW n \in 1 .. Len(seqs)
  PROVE  Start(seqs, n) + Len(seqs[n]) <= Len(FlattenSeq(seqs))
<1> DEFINE T == {m \in 0 .. Len(seqs) : m < n \/ Len(Joined(seqs, n)) <= Len(Joined(seqs, m))}
<1>1. /\ Len(Joined(seqs, n)) = Start(seqs, n) + Len(seqs[n])
      /\ Len(Joined(seqs, n)) \in Nat
  <2>1. n \in 0 .. Len(seqs)
    OBVIOUS
  <2> QED BY <2>1, JoinedStep, JoinedType DEF Start
<1>2. 0 \in T
  OBVIOUS
<1>3. ASSUME NEW m \in 1 .. Len(seqs), m - 1 \in T PROVE m \in T
  <2>1. CASE m < n
    BY <2>1
  <2>2. CASE m = n
    BY <1>1, <2>2
  <2>3. CASE m > n
    <3>1. Len(Joined(seqs, m - 1)) \in Nat /\ Len(seqs[m]) \in Nat
          /\ Len(Joined(seqs, m)) = Len(Joined(seqs, m - 1)) + Len(seqs[m])
      BY JoinedStep
    <3>2. Len(Joined(seqs, n)) <= Len(Joined(seqs, m - 1))
      BY <1>3, <2>3
    <3>3. Len(Joined(seqs, n)) <= Len(Joined(seqs, m))
      <4> DEFINE a == Len(Joined(seqs, n))
                 b == Len(Joined(seqs, m - 1))
                 c == Len(seqs[m])
                 d == Len(Joined(seqs, m))
      <4>1. a \in Nat /\ b \in Nat /\ c \in Nat /\ d = b + c /\ a <= b
        BY <1>1, <3>1, <3>2
      <4> HIDE DEF a, b, c, d
      <4>2. a <= d
        BY <4>1
      <4> QED BY <4>2 DEF a, d
    <3> QED BY <3>3
  <2> QED BY <2>1, <2>2, <2>3
<1>4. T = 0 .. Len(seqs)
  <2>1. T \in SUBSET (0 .. Len(seqs)) /\ Len(seqs) \in Nat
    OBVIOUS
  <2> HIDE DEF T
  <2> QED BY <1>2, <1>3, <2>1, TypeRecursion!IndexInduction
<1>5. Len(Joined(seqs, n)) <= Len(Joined(seqs, Len(seqs)))
  <2>1. Len(seqs) \in T
    BY <1>4
  <2> QED BY <2>1
<1> QED BY <1>1, <1>5, JoinedAll

FieldSize(f) == Len(FieldLayout(f, Layout))

\* A field ends within its type.
LEMMA OffsetWithin ==
  ASSUME NEW t \in Types, NEW n \in 1 .. Len(Fields[t])
  PROVE  OffsetOf(t, n) + FieldSize(Fields[t][n]) <= SizeOf(t)
<1>1. FieldLayouts(t) \in Seq(Seq(Cell)) /\ Len(FieldLayouts(t)) = Len(Fields[t])
  <2>1. Len(Fields[t]) \in Nat
    BY FieldFacts
  <2> QED BY <2>1, LayoutType DEF FieldLayouts
<1>2. Layout[t] = FlattenSeq(FieldLayouts(t))
  BY LayoutEquation DEF LayoutOf, FieldLayouts
<1>3. FieldLayouts(t)[n] = FieldLayout(Fields[t][n], Layout)
  BY DEF FieldLayouts
<1>4. OffsetOf(t, n) = Start(FieldLayouts(t), n)
  BY OffsetIsStart
<1> DEFINE blocks == FieldLayouts(t)
<1>5. n \in 1 .. Len(blocks) /\ blocks \in Seq(Seq(Cell))
  BY <1>1
<1> HIDE DEF blocks
<1>6. Start(blocks, n) + Len(blocks[n]) <= Len(FlattenSeq(blocks))
  BY <1>5, JoinedWithin
<1> QED BY <1>2, <1>3, <1>4, <1>6 DEF SizeOf, FieldSize, blocks

\* A struct is as large as its type.
LEMMA StructLayout ==
  ASSUME NEW t \in Types, NEW n \in 1 .. Len(Fields[t]), IsStruct(Fields[t][n])
  PROVE  FieldSize(Fields[t][n]) = SizeOf(Fields[t][n].of)
<1> DEFINE f == Fields[t][n]
           inside == Layout[f.of]
           name == <<f.name>>
<1>1. f.is_array \in BOOLEAN /\ f.name \in STRING /\ f.of \in Types
  BY FieldFacts, StructFacts DEF Field
<1>2. FieldLayout(f, Layout) = Under(name, inside)
  <2>1. ~f.is_array /\ f.type_id = "message"
    BY DEF IsStruct
  <2> HIDE DEF f
  <2> QED BY <1>1, <2>1 DEF FieldLayout, ItemLayout, IsSequence
<1>3. name \in Path /\ inside \in Seq(Cell)
  <2>1. <<f.name>> \in Path
    BY <1>1, AppendType DEF Path
  <2> QED BY <1>1, <2>1, SizeType
<1> HIDE DEF f, name, inside
<1>4. Len(Under(name, inside)) = Len(inside)
  BY <1>3, UnderFacts
<1>5. FieldSize(f) = Len(inside)
  BY <1>2, <1>4 DEF FieldSize
<1> QED BY <1>5 DEF f, inside, SizeOf

\* An inline field ends within the message.
LEMMA InlineWithin ==
  \A t \in Types : \A g \in InlineFields[t] :
    g.base + g.own + FieldSize(g.field) <= SizeOf(t) /\ FieldSize(g.field) \in Nat
<1> DEFINE Within(t, g) ==
             g.base + g.own + FieldSize(g.field) <= SizeOf(t) /\ FieldSize(g.field) \in Nat
           T == {t \in Types : \A g \in InlineFields[t] : Within(t, g)}
<1>1. Depth \in [Types -> Nat]
  BY FieldsAssumption
<1>2. ASSUME NEW t \in Types, \A u \in Types : Depth[u] < Depth[t] => u \in T,
             NEW g \in InlineFields[t]
      PROVE  Within(t, g)
  <2>1. PICK n \in 1 .. Len(Fields[t]) :
             \/ ~IsStruct(Fields[t][n]) /\ g = Direct(t, n)
             \/ /\ IsStruct(Fields[t][n])
                /\ \E h \in InlineFields[Fields[t][n].of] : g = InStruct(t, n, h)
    BY InlineCases
  <2>2. OffsetOf(t, n) \in Nat /\ SizeOf(t) \in Nat
        /\ OffsetOf(t, n) + FieldSize(Fields[t][n]) <= SizeOf(t)
    BY OffsetFacts, OffsetWithin, SizeType
  <2>3. CASE ~IsStruct(Fields[t][n]) /\ g = Direct(t, n)
    <3>1. g.field = Fields[t][n] /\ g.base = 0 /\ g.own = OffsetOf(t, n)
      BY <2>3 DEF Direct
    <3>2. FieldLayout(Fields[t][n], Layout) \in Seq(Cell)
      BY OffsetFacts
    <3>3. FieldSize(Fields[t][n]) \in Nat
      BY <3>2 DEF FieldSize
    <3> QED BY <2>2, <3>1, <3>3
  <2>4. ASSUME IsStruct(Fields[t][n]),
               NEW h \in InlineFields[Fields[t][n].of], g = InStruct(t, n, h)
        PROVE  Within(t, g)
    <3> DEFINE inner == Fields[t][n].of
    <3>1. inner \in Types /\ Depth[inner] < Depth[t]
      BY <2>4, StructFacts
    <3>2. h.base + h.own + FieldSize(h.field) <= SizeOf(inner) /\ FieldSize(h.field) \in Nat
      BY <1>2, <2>4, <3>1
    <3>3. h.base \in Nat /\ h.own \in Nat /\ SizeOf(inner) \in Nat
      BY <2>4, <3>1, InlineTypes, SizeType DEF InlineField
    <3>4. g.field = h.field /\ g.base = OffsetOf(t, n) + h.base /\ g.own = h.own
      BY <2>4 DEF InStruct
    <3>5. FieldSize(Fields[t][n]) = SizeOf(inner)
      BY <2>4, StructLayout
    <3> HIDE DEF inner
    <3> QED BY <2>2, <3>2, <3>3, <3>4, <3>5
  <2> QED BY <2>1, <2>3, <2>4
<1>3. T = Types
  <2>1. \A t \in Types : (\A u \in Types : Depth[u] < Depth[t] => u \in T) => t \in T
    BY <1>2
  <2>2. T \in SUBSET Types
    OBVIOUS
  <2> HIDE DEF T
  <2> QED BY <1>1, <2>1, <2>2, TypeRecursion!RankInduction
<1> QED BY <1>3

\* The cells of a field that is not a struct.
LEMMA FieldCells ==
  ASSUME NEW t \in Types, NEW f, FieldWithin(f, t), ~IsStruct(f)
  PROVE  /\ ~f.is_array \/ IsSequence(f) =>
              FieldLayout(f, Layout) = <<[path |-> <<f.name>>, field |-> f]>>
         /\ f.is_array /\ ~IsSequence(f) =>
              \A i \in 1 .. f.array_size, k \in 1 .. Len(ItemLayout(f, Layout)) :
                LET c == ItemLayout(f, Layout)[k]
                    j == (i - 1) * Len(ItemLayout(f, Layout)) + k
                IN /\ j \in 1 .. FieldSize(f)
                   /\ FieldLayout(f, Layout)[j] =
                        [path |-> <<f.name, Decimal[i - 1]>> \o c.path, field |-> c.field]
<1>1. PICK v \in Types : \E n \in 1 .. Len(Fields[v]) : f = Fields[v][n]
  BY DEF FieldWithin
<1>2. PICK n \in 1 .. Len(Fields[v]) : f = Fields[v][n]
  BY <1>1
<1> DEFINE item == ItemLayout(f, Layout)
           cells == FieldLayout(f, Layout)
           at(i) == <<f.name, Decimal[i - 1]>>
<1>3. /\ f.name \in STRING /\ f.is_array \in BOOLEAN /\ f \in SizedField /\ f.array_size \in Nat
      /\ f.type_id = "message" => f.of \in Types
  BY FieldTypes DEF SizedField
<1>4. item \in Seq(Cell)
  <2>1. f.type_id = "message" => Layout[f.of] \in Seq(Cell)
    BY <1>3, LayoutType
  <2> QED BY <1>2, <2>1, ItemLayoutType
<1>5. ASSUME ~f.is_array \/ IsSequence(f)
      PROVE  cells = <<[path |-> <<f.name>>, field |-> f]>>
  <2>1. CASE IsSequence(f)
    BY <1>3, <2>1 DEF FieldLayout, IsSequence
  <2>2. CASE ~f.is_array
    <3> DEFINE alone == <<[path |-> <<>>, field |-> f]>>
    <3>1. cells = Under(<<f.name>>, item)
      BY <1>3, <2>2 DEF FieldLayout, IsSequence
    <3>2. item = alone
      BY <2>2 DEF ItemLayout, IsStruct
    <3>3. Under(<<f.name>>, alone) = <<[path |-> <<f.name>> \o <<>>, field |-> f]>>
      BY DEF Under
    <3>4. <<f.name>> \o <<>> = <<f.name>>
      <4>1. <<f.name>> \in Path
        BY <1>3, AppendType DEF Path
      <4> QED BY <4>1, PathFacts
    <3> HIDE DEF cells, item, alone
    <3>5. cells = <<[path |-> <<f.name>> \o <<>>, field |-> f]>>
      BY <3>1, <3>2, <3>3
    <3> QED BY <3>4, <3>5
  <2> QED BY <1>5, <2>1, <2>2
<1>6. ASSUME f.is_array /\ ~IsSequence(f), NEW i \in 1 .. f.array_size, NEW k \in 1 .. Len(item)
      PROVE  /\ (i - 1) * Len(item) + k \in 1 .. FieldSize(f)
             /\ cells[(i - 1) * Len(item) + k] =
                        [path |-> at(i) \o item[k].path, field |-> item[k].field]
  <2> DEFINE items == ItemLayouts(f, Layout)
             c == Len(item)
             whole == FlattenSeq(items)
  <2>1. cells = whole
    BY <1>3, <1>6 DEF FieldLayout, IsSequence, ItemLayouts
  <2>2. items \in Seq(Seq(Cell)) /\ Len(items) = f.array_size
        /\ \A j \in 1 .. f.array_size : at(j) \in Path /\ items[j] = Under(at(j), item)
    BY <1>2, <1>4, ItemLayoutsType
  <2> HIDE DEF items, item, at
  <2>3. \A j \in 1 .. Len(items) :
          /\ Len(items[j]) = Len(item)
          /\ \A m \in 1 .. Len(item) :
               items[j][m] = [path |-> at(j) \o item[m].path, field |-> item[m].field]
    <3> SUFFICES ASSUME NEW j \in 1 .. Len(items)
                 PROVE  /\ Len(items[j]) = Len(item)
                        /\ \A m \in 1 .. Len(item) :
                             items[j][m] = [path |-> at(j) \o item[m].path, field |-> item[m].field]
      OBVIOUS
    <3> DEFINE p == at(j)
    <3>1. p \in Path /\ items[j] = Under(p, item)
      BY <2>2
    <3> HIDE DEF p
    <3>2. /\ Len(Under(p, item)) = Len(item)
          /\ \A m \in 1 .. Len(item) :
               Under(p, item)[m] = [path |-> p \o item[m].path, field |-> item[m].field]
      BY <1>4, <3>1, UnderFacts
    <3> QED BY <3>1, <3>2 DEF p
  <2>4. c \in Nat /\ \A j \in 1 .. Len(items) : Len(items[j]) = c
    BY <1>4, <2>3
  <2> HIDE DEF c
  <2>5. \A j \in 1 .. Len(items) : Start(items, j) = (j - 1) * c
    BY <2>2, <2>4, FlattenBlocks
  <2>6. i \in 1 .. Len(items) /\ k \in 1 .. Len(items[i])
    BY <2>2, <2>3
  <2>7. Start(items, i) + k \in 1 .. Len(whole) /\ whole[Start(items, i) + k] = items[i][k]
    BY <2>2, <2>6, FlattenPlaces
  <2> HIDE DEF whole, cells
  <2>8. (i - 1) * c + k \in 1 .. Len(whole) /\ whole[(i - 1) * c + k] = items[i][k]
    BY <2>5, <2>6, <2>7
  <2>9. items[i][k] = [path |-> at(i) \o item[k].path, field |-> item[k].field]
    BY <2>3, <2>6
  <2>10. (i - 1) * Len(item) + k \in 1 .. Len(cells)
         /\ cells[(i - 1) * Len(item) + k] =
              [path |-> at(i) \o item[k].path, field |-> item[k].field]
    BY <2>1, <2>8, <2>9 DEF c
  <2> QED BY <2>10 DEF FieldSize, cells
<1> QED BY <1>5, <1>6

\* The units of a place are those of the places in it.
PlaceRank == [place \in Place |-> Depth[place.type]]
UnitsRecursion ==
  INSTANCE Recursion WITH Dom <- Place, Rank <- PlaceRank, Step <- UnitsIn

\* Index i of an array is a path segment.
LEMMA IndexFacts ==
  ASSUME NEW len \in 0 .. UsizeLimit - 1, NEW i \in 1 .. len
  PROVE  i - 1 \in 0 .. UsizeLimit - 1 /\ Decimal[i - 1] \in STRING /\ i - 1 \in Nat
<1>1. UsizeLimit \in Nat
  BY DefaultsAreNumbers
<1>2. i - 1 \in 0 .. UsizeLimit - 1 /\ i - 1 \in Nat
  BY <1>1
<1> QED BY <1>2, DecimalFacts

\* A field that lies inline in a message.
LEMMA InlineFacts ==
  ASSUME NEW t \in Types, NEW g \in InlineFields[t]
  PROVE  /\ g.base \in Nat /\ g.own \in Nat /\ PathOf(g) \in Path /\ PathOf(g) # <<>>
         /\ g.base + g.own <= SizeOf(t)
         /\ FieldWithin(g.field, t) /\ ~IsStruct(g.field)
         /\ g.struct \in Path /\ g.field.name \in STRING /\ PathOf(g) = g.struct \o <<g.field.name>>
<1>1. g.struct \in Path /\ g.base \in Nat /\ g.own \in Nat /\ FieldWithin(g.field, t) /\ ~IsStruct(g.field)
  BY InlineTypes DEF InlineField
<1>2. g.base + g.own + FieldSize(g.field) <= SizeOf(t) /\ FieldSize(g.field) \in Nat
      /\ SizeOf(t) \in Nat
  BY InlineWithin, SizeType
<1>3. g.base + g.own <= SizeOf(t)
  BY <1>1, <1>2
<1>4. g.field.name \in STRING
  BY <1>1, FieldTypes
<1>5. PathOf(g) \in Path /\ PathOf(g) = g.struct \o <<g.field.name>>
  BY <1>1, <1>4, PathFacts DEF PathOf
<1>6. <<g.field.name>> \in Path /\ <<g.field.name>> # <<>>
  <2>1. <<g.field.name>> \in Path
    BY <1>4, AppendType DEF Path
  <2> QED BY <2>1
<1>7. PathOf(g) # <<>>
  BY <1>1, <1>5, <1>6, ConcatEqualIffEmpty DEF Path
<1> QED BY <1>1, <1>3, <1>4, <1>5, <1>7

\* An item of a sequence of messages is a place, of a less deep type.
LEMMA ItemPlaceFacts ==
  ASSUME NEW pl \in Place, NEW g \in InlineFields[pl.type], g.field.type_id = "message",
         NEW i \in 1 .. Items(g.field, pl.shape)
  PROVE  /\ ItemPlace(g, pl, i - 1) \in Place
         /\ ItemPlace(g, pl, i - 1).type = g.field.of
         /\ ItemPlace(g, pl, i - 1).path = pl.path \o PathOf(g) \o <<Decimal[i - 1]>>
         /\ ItemPlace(g, pl, i - 1).lang = pl.lang
         /\ ItemPlace(g, pl, i - 1).shape = pl.shape
         /\ pl.type \in Types /\ g.field.of \in Types
         /\ Depth[g.field.of] < Depth[pl.type]
<1>1. pl.type \in Types /\ pl.path \in Path /\ pl.lang \in Langs /\ pl.shape \in MessageShapes
  BY DEF Place
<1>2. FieldWithin(g.field, pl.type) /\ PathOf(g) \in Path
  BY <1>1, InlineFacts
<1>3. g.field.array_size \in 0 .. UsizeLimit - 1
      /\ g.field.of \in Types /\ Depth[g.field.of] < Depth[pl.type]
  BY <1>1, <1>2, FieldTypes
<1>4. Items(g.field, pl.shape) \in 0 .. UsizeLimit - 1
  BY <1>1, <1>3, ItemsType
<1>5. <<Decimal[i - 1]>> \in Path
  BY <1>4, IndexFacts, AppendType DEF Path
<1>6. pl.path \o PathOf(g) \in Path
  BY <1>1, <1>2, PathFacts
<1>7. pl.path \o PathOf(g) \o <<Decimal[i - 1]>> \in Path
  BY <1>5, <1>6, PathFacts
<1> QED BY <1>1, <1>3, <1>7 DEF ItemPlace, Place

\* The units of a place are those its definition says.
LEMMA UnitsEquation == \A pl \in Place : Units[pl] = UnitsIn(Units, pl)
<1>1. UnitsRecursion!WellRanked
  <2>1. PlaceRank \in [Place -> Nat]
    BY FieldsAssumption DEF PlaceRank, Place
  <2>2. ASSUME NEW pl \in Place, NEW g, NEW h,
               \A x \in UnitsRecursion!Below(pl) : g[x] = h[x]
        PROVE  UnitsIn(g, pl) = UnitsIn(h, pl)
    <3>1. ASSUME NEW m \in InlineFields[pl.type]
          PROVE  UnitsOf(m, pl, g) = UnitsOf(m, pl, h)
      <4>1. ASSUME m.field.type_id = "message", NEW i \in 1 .. Items(m.field, pl.shape)
            PROVE  g[ItemPlace(m, pl, i - 1)] = h[ItemPlace(m, pl, i - 1)]
        <5> DEFINE x == ItemPlace(m, pl, i - 1)
        <5>1. x \in Place /\ x.type = m.field.of /\ Depth[m.field.of] < Depth[pl.type]
          BY <4>1, ItemPlaceFacts
        <5> HIDE DEF x
        <5>2. x \in UnitsRecursion!Below(pl)
          BY <5>1 DEF UnitsRecursion!Below, PlaceRank
        <5>3. g[x] = h[x]
          BY <2>2, <5>2
        <5> QED BY <5>3 DEF x
      <4> QED BY <4>1 DEF UnitsOf
    <3> QED BY <3>1 DEF UnitsIn
  <2> QED BY <2>1, <2>2 DEF UnitsRecursion!WellRanked
<1>2. UnitsRecursion!Fcn = [pl \in Place |-> UnitsIn(UnitsRecursion!Fcn, pl)]
  BY <1>1, UnitsRecursion!RecursionEquation
<1>3. Units = UnitsRecursion!Fcn
  BY DEF Units, UnitsRecursion!Fcn
<1> QED BY <1>2, <1>3

-----------------------------------------------------------------------------
(* The handle of a message shows a place: what it points to is what lies     *)
(* there.                                                                   *)

Shows(message, pl) ==
  /\ message \in Message /\ pl \in Place
  /\ message.lang = pl.lang /\ message.shape = pl.shape
  /\ \A k \in 1 .. SizeOf(pl.type) :
       /\ message.base + k \in 1 .. SizeOf(message.of)
       /\ message.at \o Layout[message.of][message.base + k].path =
            pl.path \o Layout[pl.type][k].path
       /\ Layout[message.of][message.base + k].field = Layout[pl.type][k].field

\* The types of a handle and of the place it shows.
LEMMA ShownTypes ==
  ASSUME NEW message, NEW pl, Shows(message, pl)
  PROVE  /\ message \in Message /\ pl \in Place
         /\ message.of \in Types /\ message.at \in Path /\ message.base \in Nat
         /\ message.shape = pl.shape /\ message.lang = pl.lang /\ message.size \in Nat
         /\ message.junk \in Nat
         /\ pl.type \in Types /\ pl.path \in Path /\ pl.lang \in Langs
         /\ pl.shape \in MessageShapes
         /\ SizeOf(pl.type) \in Nat /\ SizeOf(message.of) \in Nat
<1>1. message \in Message /\ pl \in Place
         /\ message.shape = pl.shape /\ message.lang = pl.lang
  BY DEF Shows
<1>2. /\ message.of \in Types /\ message.at \in Path /\ message.base \in Nat
      /\ message.size \in Nat /\ message.junk \in Nat
  BY <1>1 DEF Message
<1>3. pl.type \in Types /\ pl.path \in Path /\ pl.lang \in Langs /\ pl.shape \in MessageShapes
  BY <1>1 DEF Place
<1> QED BY <1>1, <1>2, <1>3, SizeType

\* A word that is read is the one that lies in the place.
LEMMA WordShown ==
  ASSUME NEW message, NEW pl, Shows(message, pl), NEW k \in 1 .. SizeOf(pl.type)
  PROVE  WordAt(message, k - 1) =
           IF IsSequence(Layout[pl.type][k].field)
             THEN Header(pl.path \o Layout[pl.type][k].path,
                         Items(Layout[pl.type][k].field, pl.shape), pl.lang)
             ELSE Leaf(pl.path \o Layout[pl.type][k].path, pl.shape)
<1> DEFINE place == message.base + k
           cell == Layout[message.of][place]
           shown == Layout[pl.type][k]
           path == pl.path \o shown.path
<1>1. message.base \in Nat /\ SizeOf(message.of) \in Nat /\ k \in Nat
      /\ message.shape = pl.shape /\ message.lang = pl.lang
  BY ShownTypes
<1>2. place \in 1 .. SizeOf(message.of) /\ message.at \o cell.path = path
      /\ cell.field = shown.field
  BY DEF Shows
<1>3. message.base + (k - 1) + 1 = place /\ place <= SizeOf(message.of)
      /\ ~(place > SizeOf(message.of))
  <2> DEFINE base == message.base
             size == SizeOf(message.of)
             put == place
  <2>1. base \in Nat /\ size \in Nat /\ k \in Nat /\ put \in 1 .. size
    BY <1>1, <1>2
  <2>2. put = base + k
    OBVIOUS
  <2> HIDE DEF base, size, put
  <2>3. base + (k - 1) + 1 = put /\ put <= size /\ ~(put > size)
    BY <2>1, <2>2
  <2> QED BY <2>3 DEF base, size, put
<1> HIDE DEF place
<1>4. CASE IsSequence(cell.field)
  <2>1. WordAt(message, k - 1) =
          Header(message.at \o cell.path, Items(cell.field, message.shape), message.lang)
    BY <1>3, <1>4 DEF WordAt, CellWord
  <2> QED BY <1>1, <1>2, <1>4, <2>1
<1>5. CASE ~IsSequence(cell.field)
  <2>1. WordAt(message, k - 1) = Leaf(message.at \o cell.path, message.shape)
    BY <1>3, <1>5 DEF WordAt, CellWord
  <2> QED BY <1>1, <1>2, <1>5, <2>1
<1> QED BY <1>4, <1>5

\* The path of a cell of an inline field.
LEMMA CellPath ==
  ASSUME NEW pl \in Place, NEW g \in InlineFields[pl.type], NEW tail \in Path
  PROVE  pl.path \o (g.struct \o (<<g.field.name>> \o tail)) = (pl.path \o PathOf(g)) \o tail
<1> DEFINE a == pl.path
           b == g.struct
           c == <<g.field.name>>
<1>1. a \in Path /\ b \in Path /\ c \in Path /\ b \o c \in Path /\ PathOf(g) = b \o c
  <2>1. pl.type \in Types /\ pl.path \in Path
    BY DEF Place
  <2>2. b \in Path /\ g.field.name \in STRING /\ PathOf(g) = b \o c
    BY <2>1, InlineFacts
  <2>3. c \in Path
    BY <2>2, AppendType DEF Path
  <2> QED BY <2>1, <2>2, <2>3, PathFacts
<1> HIDE DEF a, b, c
<1>2. (b \o c) \o tail = b \o (c \o tail)
  <2>1. Regrouped(b, c, tail)
    BY <1>1, PathAssociative
  <2> QED BY <1>1, <2>1 DEF Regrouped
<1>3. (a \o (b \o c)) \o tail = a \o ((b \o c) \o tail)
  <2>1. Regrouped(a, b \o c, tail)
    BY <1>1, PathAssociative
  <2> QED BY <1>1, <2>1 DEF Regrouped
<1>4. a \o (b \o (c \o tail)) = (a \o PathOf(g)) \o tail
  BY <1>1, <1>2, <1>3
<1> QED BY <1>4 DEF a, b, c

\* What is read at the place of an inline field: a scalar, or the header of a
\* sequence.
LEMMA OwnWord ==
  ASSUME NEW message, NEW pl, Shows(message, pl), NEW g \in InlineFields[pl.type]
  PROVE  /\ ~g.field.is_array =>
              WordAt(message, g.base + g.own) = Leaf(pl.path \o PathOf(g), pl.shape)
         /\ IsSequence(g.field) =>
              WordAt(message, g.base + g.own) =
                Header(pl.path \o PathOf(g), Items(g.field, pl.shape), pl.lang)
<1> DEFINE f == g.field
           o == g.base + g.own
<1>1. pl \in Place /\ pl.type \in Types /\ pl.path \in Path
  BY ShownTypes
<1>2. o \in Nat /\ FieldWithin(f, pl.type) /\ ~IsStruct(f) /\ f.name \in STRING
      /\ PathOf(g) \in Path /\ g.struct \in Path
      /\ PathOf(g) = g.struct \o <<f.name>>
  <2>1. g.base \in Nat /\ g.own \in Nat /\ FieldWithin(f, pl.type) /\ ~IsStruct(f)
        /\ f.name \in STRING
    BY <1>1, InlineFacts
  <2>2. PathOf(g) \in Path /\ g.struct \in Path /\ PathOf(g) = g.struct \o <<f.name>>
    BY <1>1, InlineFacts
  <2>3. o \in Nat
    BY <2>1
  <2> HIDE DEF o, f
  <2> QED BY <2>1, <2>2, <2>3 DEF f
<1>3. f.is_array \in BOOLEAN
  BY <1>1, <1>2, FieldTypes
<1>4. CellsAt(pl.type, g)
  BY <1>1, InlineCells
<1> SUFFICES ASSUME ~f.is_array \/ IsSequence(f)
             PROVE  WordAt(message, o) =
                      IF IsSequence(f)
                        THEN Header(pl.path \o PathOf(g), Items(f, pl.shape), pl.lang)
                        ELSE Leaf(pl.path \o PathOf(g), pl.shape)
  BY <1>3 DEF IsSequence
<1>5. FieldLayout(f, Layout) = <<[path |-> <<f.name>>, field |-> f]>>
  BY <1>1, <1>2, FieldCells
<1>6. 1 \in 1 .. Len(FieldLayout(f, Layout))
      /\ FieldLayout(f, Layout)[1] = [path |-> <<f.name>>, field |-> f]
  BY <1>5
<1>7. o + 1 \in 1 .. SizeOf(pl.type)
      /\ Layout[pl.type][o + 1] =
           [path |-> g.struct \o FieldLayout(f, Layout)[1].path,
            field |-> FieldLayout(f, Layout)[1].field]
  BY <1>4, <1>6 DEF CellsAt
<1> DEFINE cell == Layout[pl.type][o + 1]
           first == FieldLayout(f, Layout)[1]
<1>8. cell.path = PathOf(g) /\ cell.field = f
  <2>1. first.path = <<f.name>> /\ first.field = f
    BY <1>6
  <2>2. cell = [path |-> g.struct \o first.path, field |-> first.field]
    BY <1>7
  <2> HIDE DEF cell, first
  <2>3. cell.path = g.struct \o <<f.name>> /\ cell.field = f
    BY <2>1, <2>2
  <2> QED BY <1>2, <2>3
<1>9. (o + 1) - 1 = o
  BY <1>2
<1> DEFINE k == o + 1
<1>10. k \in 1 .. SizeOf(pl.type) /\ cell = Layout[pl.type][k] /\ k - 1 = o
  BY <1>7, <1>9
<1> HIDE DEF k, o, cell, f
<1>11. WordAt(message, k - 1) =
           IF IsSequence(Layout[pl.type][k].field)
             THEN Header(pl.path \o Layout[pl.type][k].path,
                         Items(Layout[pl.type][k].field, pl.shape), pl.lang)
             ELSE Leaf(pl.path \o Layout[pl.type][k].path, pl.shape)
  BY <1>10, WordShown
<1>12. WordAt(message, o) =
           IF IsSequence(f)
             THEN Header(pl.path \o PathOf(g), Items(f, pl.shape), pl.lang)
             ELSE Leaf(pl.path \o PathOf(g), pl.shape)
  BY <1>8, <1>10, <1>11
<1> QED BY <1>12 DEF f

\* The cells of the items of an array that lies inline: cell k of item i.
ItemCellAt(g, i, k) ==
  g.base + g.own + ((i - 1) * Len(ItemLayout(g.field, Layout)) + k)

IsItemCell(pl, g, i, k, j) ==
  /\ j \in 1 .. SizeOf(pl.type)
  /\ pl.path \o Layout[pl.type][j].path =
       (pl.path \o PathOf(g) \o <<Decimal[i - 1]>>) \o ItemLayout(g.field, Layout)[k].path
  /\ Layout[pl.type][j].field = ItemLayout(g.field, Layout)[k].field
  /\ ItemLayout(g.field, Layout)[k].path \in Path

\* The cells of an item of an inline array are those of its type.
LEMMA ItemCells ==
  ASSUME NEW pl \in Place, NEW g \in InlineFields[pl.type],
         g.field.is_array, ~IsSequence(g.field), NEW i \in 1 .. g.field.array_size,
         NEW k \in 1 .. Len(ItemLayout(g.field, Layout))
  PROVE  IsItemCell(pl, g, i, k, ItemCellAt(g, i, k))
<1> DEFINE j == ItemCellAt(g, i, k)
           f == g.field
           item == ItemLayout(f, Layout)
           m == (i - 1) * Len(item) + k
           cells == FieldLayout(f, Layout)
           c == item[k]
<1>1. pl.type \in Types /\ pl.path \in Path
  BY DEF Place
<1>2. FieldWithin(f, pl.type) /\ ~IsStruct(f) /\ PathOf(g) \in Path /\ g.struct \in Path
      /\ f.name \in STRING
  BY <1>1, InlineFacts
<1>3. f.array_size \in 0 .. UsizeLimit - 1
  BY <1>1, <1>2, FieldTypes
<1>4. m \in 1 .. Len(cells)
      /\ cells[m] = [path |-> <<f.name, Decimal[i - 1]>> \o c.path, field |-> c.field]
  BY <1>1, <1>2, FieldCells DEF FieldSize
<1>5. CellsAt(pl.type, g)
  BY <1>1, InlineCells
<1> HIDE DEF m
<1>6. j \in 1 .. SizeOf(pl.type)
      /\ Layout[pl.type][j] = [path |-> g.struct \o cells[m].path, field |-> cells[m].field]
  <2>1. j = g.base + g.own + m
    BY DEF m, ItemCellAt
  <2> QED BY <1>4, <1>5, <2>1 DEF CellsAt
<1>7. c.path \in Path
  <2>1. PICK v \in Types : \E n \in 1 .. Len(Fields[v]) : f = Fields[v][n]
    BY <1>2 DEF FieldWithin
  <2>2. f.type_id = "message" => Layout[f.of] \in Seq(Cell)
    BY <1>1, <1>2, FieldTypes, SizeType
  <2>3. item \in Seq(Cell)
    BY <2>1, <2>2, ItemLayoutType
  <2>4. c \in Cell
    BY <2>3
  <2> QED BY <2>4 DEF Cell
<1>8. Decimal[i - 1] \in STRING
  BY <1>3, IndexFacts
<1> DEFINE tail == <<Decimal[i - 1]>> \o c.path
           dec == <<Decimal[i - 1]>>
           name == <<f.name>>
           here == pl.path \o PathOf(g)
<1> HIDE DEF j
<1>9. dec \in Path /\ name \in Path
  BY <1>2, <1>8, AppendType DEF Path
<1>10. <<f.name, Decimal[i - 1]>> = name \o dec
  OBVIOUS
<1>11. here \in Path
  BY <1>1, <1>2, PathFacts
<1> DEFINE cell == Layout[pl.type][j]
           inner == cells[m]
           p == c.path
<1>12. cell.path = g.struct \o inner.path /\ cell.field = inner.field
  <2> HIDE DEF inner
  <2>1. cell = [path |-> g.struct \o inner.path, field |-> inner.field]
    BY <1>6 DEF inner
  <2> HIDE DEF cell
  <2> QED BY <2>1
<1>13. inner.path = (name \o dec) \o p /\ inner.field = c.field
  <2> HIDE DEF c, name, dec
  <2>1. inner = [path |-> (name \o dec) \o c.path, field |-> c.field]
    BY <1>4, <1>10
  <2> HIDE DEF inner
  <2> QED BY <2>1
<1> HIDE DEF cell, inner, p, name, dec, here
<1>14. p \in Path
  BY <1>7 DEF p
<1>15. (name \o dec) \o p = name \o (dec \o p) /\ dec \o p \in Path
  <2>1. Regrouped(name, dec, p)
    BY <1>9, <1>14, PathAssociative
  <2> QED BY <1>9, <1>14, <2>1, PathFacts DEF Regrouped
<1>16. pl.path \o (g.struct \o (name \o (dec \o p))) = here \o (dec \o p)
  BY <1>15, CellPath DEF name, here
<1>17. here \o (dec \o p) = (here \o dec) \o p
  <2>1. Regrouped(here, dec, p)
    BY <1>9, <1>11, <1>14, PathAssociative
  <2> QED BY <1>9, <1>11, <1>14, <2>1 DEF Regrouped
<1>18. pl.path \o cell.path = (here \o dec) \o p /\ cell.field = c.field
  BY <1>12, <1>13, <1>15, <1>16, <1>17
<1> QED BY <1>6, <1>7, <1>18 DEF cell, here, dec, p, j, IsItemCell

\* What is read at the place of an item of an array of scalars.
LEMMA ItemWord ==
  ASSUME NEW message, NEW pl, Shows(message, pl), NEW g \in InlineFields[pl.type],
         g.field.is_array, ~IsSequence(g.field), g.field.type_id # "message",
         NEW i \in 1 .. g.field.array_size
  PROVE  WordAt(message, g.base + g.own + (i - 1)) =
           Leaf(pl.path \o PathOf(g) \o <<Decimal[i - 1]>>, pl.shape)
<1> DEFINE f == g.field
           item == ItemLayout(f, Layout)
           j == g.base + g.own + ((i - 1) * Len(item) + 1)
           here == pl.path \o PathOf(g) \o <<Decimal[i - 1]>>
           cell == Layout[pl.type][j]
<1>1. pl \in Place /\ pl.type \in Types /\ pl.path \in Path
  BY ShownTypes
<1>2. item = <<[path |-> <<>>, field |-> f]>>
  BY DEF ItemLayout
<1>3. Len(item) = 1 /\ item[1].path = <<>> /\ item[1].field = f /\ 1 \in 1 .. Len(item)
  BY <1>2
<1>4. FieldWithin(f, pl.type) /\ PathOf(g) \in Path /\ g.base \in Nat /\ g.own \in Nat
  BY <1>1, InlineFacts
<1>5. f.array_size \in 0 .. UsizeLimit - 1
  BY <1>1, <1>4, FieldTypes
<1>6. here \in Path
  <2>1. Decimal[i - 1] \in STRING
    BY <1>5, IndexFacts
  <2>2. <<Decimal[i - 1]>> \in Path
    BY <2>1, AppendType DEF Path
  <2>3. pl.path \o PathOf(g) \in Path
    BY <1>1, <1>4, PathFacts
  <2> QED BY <2>2, <2>3, PathFacts
<1>7. /\ j \in 1 .. SizeOf(pl.type)
      /\ pl.path \o cell.path = here \o item[1].path
      /\ cell.field = item[1].field
  <2> DEFINE one == 1
  <2>1. one \in 1 .. Len(ItemLayout(g.field, Layout)) /\ j = ItemCellAt(g, i, one)
    BY <1>3 DEF ItemCellAt
  <2> HIDE DEF one, j
  <2>2. IsItemCell(pl, g, i, one, j)
    BY <1>1, <2>1, ItemCells
  <2> QED BY <2>2 DEF one, IsItemCell
<1>8. here \o <<>> = here
  BY <1>6, PathFacts
<1>9. pl.path \o cell.path = here /\ cell.field = f
  BY <1>3, <1>7, <1>8
<1>10. j - 1 = g.base + g.own + (i - 1)
  <2>1. (i - 1) * 1 = i - 1
    BY <1>5
  <2> QED BY <1>3, <1>4, <1>5, <2>1
<1> HIDE DEF j, here
<1>11. WordAt(message, j - 1) =
         IF IsSequence(cell.field)
             THEN Header(pl.path \o cell.path, Items(cell.field, pl.shape), pl.lang)
             ELSE Leaf(pl.path \o cell.path, pl.shape)
  BY <1>7, WordShown
<1>12. WordAt(message, j - 1) = Leaf(here, pl.shape)
  BY <1>9, <1>11
<1> QED BY <1>10, <1>12 DEF here

-----------------------------------------------------------------------------
(* Interpretation: the equation of the recursive function.                  *)

Call(member, prefix, message, limit) ==
  [member |-> member, prefix |-> prefix, message |-> message, limit |-> limit]

\* A member is ranked by the type of its items.
InterpretRank ==
  [x \in Interpretation |->
     IF x.member.kind = "message_sequence" THEN Depth[x.member.message_schema] + 1 ELSE 0]
InterpretRecursion ==
  INSTANCE Recursion WITH Dom <- Interpretation, Rank <- InterpretRank,
                          Step <- InterpretMember

\* The components of a flat member.
LEMMA MemberFacts ==
  ASSUME NEW m \in FlatMember
  PROVE  /\ m.kind \in {"scalar", "scalar_array", "message_sequence"}
         /\ m.key \in Path /\ m.offset \in Nat
         /\ m.kind = "message_sequence" =>
              /\ m.message_schema \in Types /\ m.array_size \in 0 .. UsizeLimit - 1
<1>1. DOMAIN Decimal = 0 .. UsizeLimit - 1
  BY MemoryAssumption
<1>2. CASE m.kind = "scalar"
  BY <1>2 DEF FlatMember
<1>3. CASE m.kind = "scalar_array"
  BY <1>3 DEF FlatMember
<1>4. CASE m.kind = "message_sequence"
  BY <1>1, <1>4 DEF FlatMember
<1> QED BY <1>2, <1>3, <1>4 DEF FlatMember

\* The items of a sequence are messages, each under a path of its own.
LEMMA MessageItemType ==
  ASSUME NEW m \in FlatMember, m.kind = "message_sequence",
         NEW message \in Message, NEW prefix \in Path
  PROVE  /\ item_count(m, message) \in 0 .. UsizeLimit - 1
         /\ \A i \in 1 .. item_count(m, message) :
              /\ MessageItem(m, message, i - 1) \in Message
              /\ prefix \o m.key \o <<Decimal[i - 1]>> \in Path
<1>1. m.key \in Path /\ m.offset \in Nat /\ m.message_schema \in Types
      /\ m.array_size \in 0 .. UsizeLimit - 1
  BY MemberFacts
<1> DEFINE header == WordAt(message, m.offset)
           size == SizeOf(m.message_schema)
           count == item_count(m, message)
<1>2. header \in Word
  BY <1>1, WordFacts
<1>3. header.items \in 0 .. UsizeLimit - 1 /\ header.path \in Path
  BY <1>2 DEF Word
<1>4. count \in 0 .. UsizeLimit - 1
  BY <1>1, <1>3 DEF item_count
<1>5. size \in Nat
  BY <1>1, SizeType
<1>6. /\ message.of \in Types /\ message.at \in Path /\ message.base \in Nat
      /\ message.size \in Nat /\ message.lang \in Langs
      /\ message.shape \in MessageShapes /\ message.junk \in Nat
  BY DEF Message
<1> HIDE DEF count, header, size
<1>7. ASSUME NEW i \in 1 .. count
      PROVE  /\ MessageItem(m, message, i - 1) \in Message
             /\ prefix \o m.key \o <<Decimal[i - 1]>> \in Path
  <2>1. i - 1 \in Nat /\ Decimal[i - 1] \in STRING
    BY <1>4, IndexFacts
  <2>2. Append(header.path, Decimal[i - 1]) \in Path
    BY <1>3, <2>1, PathFacts
  <2>3. message.base + m.offset + (i - 1) * size \in Nat
    <3> DEFINE n == i - 1
    <3>1. n \in Nat
      BY <2>1
    <3> HIDE DEF n
    <3>2. n * size \in Nat
      BY <1>5, <3>1
    <3> DEFINE all == n * size
    <3> HIDE DEF all
    <3>3. message.base + m.offset + all \in Nat
      BY <1>1, <1>6, <3>2 DEF all
    <3> QED BY <3>3 DEF all, n
  <2>4. MessageItem(m, message, i - 1) =
          [of    |-> IF Inline(m) THEN message.of ELSE m.message_schema,
           at    |-> IF Inline(m) THEN message.at ELSE Append(header.path, Decimal[i - 1]),
           base  |-> IF Inline(m) THEN message.base + m.offset + (i - 1) * size ELSE 0,
           size  |-> size, lang |-> message.lang, shape |-> message.shape,
           junk  |-> message.junk]
    BY DEF MessageItem, header, size
  <2> DEFINE of == IF Inline(m) THEN message.of ELSE m.message_schema
             at == IF Inline(m) THEN message.at ELSE Append(header.path, Decimal[i - 1])
             base == IF Inline(m) THEN message.base + m.offset + (i - 1) * size ELSE 0
  <2>5. of \in Types /\ at \in Path /\ base \in Nat
    BY <1>1, <1>6, <2>2, <2>3
  <2> HIDE DEF of, at, base
  <2>6. [of |-> of, at |-> at, base |-> base, size |-> size, lang |-> message.lang,
         shape |-> message.shape, junk |-> message.junk] \in Message
    BY <1>5, <1>6, <2>5 DEF Message
  <2>7. MessageItem(m, message, i - 1) \in Message
    BY <2>4, <2>6 DEF of, at, base
  <2>8. <<Decimal[i - 1]>> \in Path
    BY <2>1, AppendType DEF Path
  <2>9. prefix \o m.key \in Path
    BY <1>1, PathFacts
  <2>10. prefix \o m.key \o <<Decimal[i - 1]>> \in Path
    BY <2>8, <2>9, PathFacts
  <2> QED BY <2>7, <2>10
<1> QED BY <1>4, <1>7 DEF count

\* The rank of the members of the schema of an item.
LEMMA InnerRank ==
  ASSUME NEW t \in Types, NEW g \in InlineFields[t]
  PROVE  /\ FlatOf(g, <<>>, 0) \in FlatMember
         /\ FlatOf(g, <<>>, 0).kind = "message_sequence" =>
              /\ FlatOf(g, <<>>, 0).message_schema \in Types
              /\ Depth[FlatOf(g, <<>>, 0).message_schema] < Depth[t]
<1> DEFINE f == g.field
           m == FlatOf(g, <<>>, 0)
<1>1. FieldWithin(f, t)
  BY InlineFacts
<1>2. f.is_array \in BOOLEAN /\ (f.type_id = "message" => f.of \in Types /\ Depth[f.of] < Depth[t])
  BY <1>1, FieldTypes
<1>3. <<>> \in Path /\ 0 \in Nat
  BY DEF Path
<1>4. m \in FlatMember
  BY <1>3, FlatOfType
<1>5. m.kind = "message_sequence" => f.type_id = "message" /\ m.message_schema = f.of
  <2>1. CASE ~f.is_array
    BY <2>1 DEF FlatOf, Flat
  <2>2. CASE f.is_array /\ f.type_id # "message"
    BY <2>2 DEF FlatOf, Flat
  <2>3. CASE f.is_array /\ f.type_id = "message"
    BY <2>3 DEF FlatOf, Flat
  <2> QED BY <1>2, <2>1, <2>2, <2>3
<1> QED BY <1>2, <1>4, <1>5

\* What a sequence of messages is read with.
Inner(m, prefix, message, limit, i, interpret) ==
  Interpret(FlatSchema(m.message_schema).members, prefix \o m.key \o <<Decimal[i - 1]>>,
            MessageItem(m, message, i - 1), limit, interpret)

\* Interpreting a member depends on that of members of lower rank only,
LEMMA InterpretWellRanked == InterpretRecursion!WellRanked
<1>1. InterpretRank \in [Interpretation -> Nat]
  <2>1. ASSUME NEW x \in Interpretation
        PROVE  (IF x.member.kind = "message_sequence"
                  THEN Depth[x.member.message_schema] + 1 ELSE 0) \in Nat
    <3>1. x.member \in FlatMember
      BY DEF Interpretation
    <3>2. x.member.kind = "message_sequence" => x.member.message_schema \in Types
      BY <3>1, MemberFacts
    <3>3. x.member.kind = "message_sequence" => Depth[x.member.message_schema] \in Nat
      BY <3>2, FieldsAssumption
    <3> QED BY <3>3
  <2> QED BY <2>1 DEF InterpretRank
<1>2. ASSUME NEW x \in Interpretation, NEW g, NEW h,
             \A y \in InterpretRecursion!Below(x) : g[y] = h[y]
      PROVE  InterpretMember(g, x) = InterpretMember(h, x)
  <2> DEFINE m == x.member
             message == x.message
             prefix == x.prefix
             limit == x.limit
  <2>1. m \in FlatMember /\ message \in Message /\ prefix \in Path /\ limit \in Nat
    BY DEF Interpretation
  <2> HIDE DEF m, message, prefix, limit
  <2>2. m.kind \in {"scalar", "scalar_array", "message_sequence"}
    BY <2>1, MemberFacts
  <2>3. CASE m.kind # "message_sequence"
    BY <2>2, <2>3 DEF InterpretMember, m, message, prefix, limit
  <2>4. CASE m.kind = "message_sequence"
    <3> DEFINE t == m.message_schema
               count == item_count(m, message)
               members == FlatSchema(t).members
    <3>1. t \in Types
      BY <2>1, <2>4, MemberFacts
    <3>2. \A i \in 1 .. count :
            /\ MessageItem(m, message, i - 1) \in Message
            /\ prefix \o m.key \o <<Decimal[i - 1]>> \in Path
      BY <2>1, <2>4, MessageItemType
    <3>3. IsFlat(t, <<>>, 0, members)
      BY <3>1, FlatSchemaIsFlat
    <3> HIDE DEF t, count, members
    <3>4. ASSUME NEW i \in 1 .. count, NEW n \in 1 .. Len(members)
          PROVE  LET y == Call(members[n], prefix \o m.key \o <<Decimal[i - 1]>>,
                               MessageItem(m, message, i - 1), limit)
                 IN g[y] = h[y]
      <4> DEFINE y == Call(members[n], prefix \o m.key \o <<Decimal[i - 1]>>,
                           MessageItem(m, message, i - 1), limit)
      <4>1. PICK k \in InlineFields[t] : members[n] = FlatOf(k, <<>>, 0)
        BY <3>3 DEF IsFlat
      <4>2. /\ members[n] \in FlatMember
            /\ members[n].kind = "message_sequence" =>
                 members[n].message_schema \in Types /\ Depth[members[n].message_schema] < Depth[t]
        BY <3>1, <4>1, InnerRank
      <4>3. y \in Interpretation
        BY <2>1, <3>2, <4>2 DEF Call, Interpretation
      <4>4. y.member = members[n]
        BY DEF Call
      <4>5. x.member.kind = "message_sequence" /\ x.member.message_schema = t
        BY <2>4 DEF m, t
      <4> HIDE DEF y
      <4>6. InterpretRank[x] = Depth[t] + 1 /\ InterpretRank[y] =
              IF members[n].kind = "message_sequence"
                THEN Depth[members[n].message_schema] + 1 ELSE 0
        BY <4>3, <4>4, <4>5 DEF InterpretRank
      <4>7. Depth[t] \in Nat
            /\ (members[n].kind = "message_sequence" => Depth[members[n].message_schema] \in Nat)
        BY <3>1, <4>2, FieldsAssumption
      <4>8. InterpretRank[y] < InterpretRank[x]
        BY <4>2, <4>6, <4>7
      <4>9. y \in InterpretRecursion!Below(x)
        BY <4>3, <4>8 DEF InterpretRecursion!Below
      <4> QED BY <1>2, <4>9 DEF y
    <3>5. \A i \in 1 .. count :
            Inner(m, prefix, message, limit, i, g) = Inner(m, prefix, message, limit, i, h)
      BY <3>4 DEF Inner, Interpret, Call, members, t
    <3>6. MessageSequenceInterpret(m, prefix, message, limit, g) =
            MessageSequenceInterpret(m, prefix, message, limit, h)
      <4> DEFINE G == [i \in 1 .. count |-> UntilFailure(Inner(m, prefix, message, limit, i, g))]
                 H == [i \in 1 .. count |-> UntilFailure(Inner(m, prefix, message, limit, i, h))]
      <4>1. G = H
        BY <3>5
      <4>2. MessageSequenceInterpret(m, prefix, message, limit, g) = for_each_item(m, message, G)
        BY DEF MessageSequenceInterpret, Inner, count
      <4>3. MessageSequenceInterpret(m, prefix, message, limit, h) = for_each_item(m, message, H)
        BY DEF MessageSequenceInterpret, Inner, count
      <4> HIDE DEF G, H
      <4> QED BY <4>1, <4>2, <4>3
    <3>7. \A e : InterpretMember(e, x) = MessageSequenceInterpret(m, prefix, message, limit, e)
      BY <2>4 DEF InterpretMember, m, message, prefix, limit
    <3> QED BY <3>6, <3>7
  <2> QED BY <2>3, <2>4
<1> QED BY <1>1, <1>2 DEF InterpretRecursion!WellRanked

\* so that every member is interpreted as its definition says.
LEMMA InterpretEquation ==
  \A x \in Interpretation : interpret_message[x] = InterpretMember(interpret_message, x)
<1>1. InterpretRecursion!Fcn =
        [x \in Interpretation |-> InterpretMember(InterpretRecursion!Fcn, x)]
  BY InterpretWellRanked, InterpretRecursion!RecursionEquation
<1>2. interpret_message = InterpretRecursion!Fcn
  BY DEF interpret_message, InterpretRecursion!Fcn
<1> QED BY <1>1, <1>2

-----------------------------------------------------------------------------
(* The items of a sequence show their places.                               *)

\* The handle of an item shows the item's place, and its size is the type's.
LEMMA ItemShown ==
  ASSUME NEW message, NEW pl, Shows(message, pl), NEW g \in InlineFields[pl.type],
         g.field.is_array, g.field.type_id = "message",
         NEW i \in 1 .. Items(g.field, pl.shape),
         NEW m, m = FlatOf(g, <<>>, 0)
  PROVE  /\ Shows(MessageItem(m, message, i - 1), ItemPlace(g, pl, i - 1))
         /\ MessageItem(m, message, i - 1).size = SizeOf(g.field.of)
<1> DEFINE f == g.field
           t == f.of
           size == SizeOf(t)
           item == MessageItem(m, message, i - 1)
           ipl == ItemPlace(g, pl, i - 1)
           o == g.base + g.own
<1>1. /\ pl \in Place /\ pl.type \in Types /\ pl.path \in Path /\ message \in Message
      /\ message.base \in Nat /\ message.shape = pl.shape /\ message.lang = pl.lang
      /\ message.at \in Path /\ pl.shape \in MessageShapes
  BY ShownTypes
<1>2. /\ g.base \in Nat /\ g.own \in Nat /\ FieldWithin(f, pl.type) /\ PathOf(g) \in Path
      /\ ~IsStruct(f)
  BY <1>1, InlineFacts
<1>3. /\ f.array_size \in 0 .. UsizeLimit - 1 /\ f.is_upper_bound \in BOOLEAN /\ t \in Types
  BY <1>1, <1>2, FieldTypes
<1>4. Items(f, pl.shape) \in 0 .. UsizeLimit - 1
  BY <1>1, <1>3, ItemsType
<1>5. i - 1 \in Nat /\ Decimal[i - 1] \in STRING /\ i \in Nat
  BY <1>4, IndexFacts
<1>6. /\ ipl \in Place /\ ipl.type = t /\ ipl.lang = pl.lang /\ ipl.shape = pl.shape
      /\ ipl.path = pl.path \o PathOf(g) \o <<Decimal[i - 1]>>
  BY <1>1, ItemPlaceFacts
<1>7. m \in FlatMember /\ <<>> \in Path /\ 0 \in Nat
  <2>1. <<>> \in Path /\ 0 \in Nat
    BY DEF Path
  <2> QED BY <1>1, <2>1, FlatOfType
<1>8. /\ m.kind = "message_sequence" /\ m.offset = 0 + g.base + g.own /\ m.message_schema = t
      /\ m.array_size = f.array_size /\ m.is_upper_bound = f.is_upper_bound
  BY DEF FlatOf, Flat
<1>9. m.offset = o /\ o \in Nat
  BY <1>2, <1>8
<1>10. Inline(m) <=> ~IsSequence(f)
  BY <1>8, <1>3 DEF Inline, IsSequence
<1>11. size \in Nat
  BY <1>3, SizeType
<1> HIDE DEF ipl
<1>12. CASE IsSequence(f)
  <2> DEFINE here == pl.path \o PathOf(g)
             header == WordAt(message, m.offset)
  <2>1. header = Header(here, Items(f, pl.shape), pl.lang)
    BY <1>9, <1>12, OwnWord
  <2>2. header.path = here
    BY <2>1 DEF Header
  <2>3. here \in Path
    BY <1>1, <1>2, PathFacts
  <2>4. Append(here, Decimal[i - 1]) = here \o <<Decimal[i - 1]>>
    BY <1>5, <2>3, PathFacts
  <2>5. /\ item.of = t /\ item.at = Append(header.path, Decimal[i - 1]) /\ item.base = 0
        /\ item.size = size /\ item.lang = message.lang /\ item.shape = message.shape
        /\ item.junk = message.junk
    BY <1>8, <1>10, <1>12 DEF MessageItem
  <2>6. item \in Message
    <3>1. Items(f, pl.shape) = header.items
      BY <2>1 DEF Header
    <3>2. item_count(m, message) = header.items
      BY <1>10, <1>12 DEF item_count
    <3>3. i \in 1 .. item_count(m, message)
      BY <3>1, <3>2
    <3> QED BY <1>1, <1>7, <1>8, <3>3, MessageItemType
  <2> HIDE DEF item, header
  <2>7. item.at = ipl.path
    BY <1>6, <2>2, <2>4, <2>5
  <2>8. \A k \in 1 .. SizeOf(t) : 0 + k \in 1 .. SizeOf(t) /\ 0 + k = k
    BY <1>11
  <2>9. Shows(item, ipl)
    BY <1>1, <1>6, <2>5, <2>6, <2>7, <2>8 DEF Shows
  <2> QED BY <2>5, <2>9 DEF item, ipl
<1>13. CASE ~IsSequence(f)
  <2>1. /\ item.of = message.of /\ item.at = message.at
        /\ item.base = message.base + m.offset + (i - 1) * size
        /\ item.size = size /\ item.lang = message.lang /\ item.shape = message.shape
        /\ item.junk = message.junk
    BY <1>8, <1>10, <1>13 DEF MessageItem
  <2>2. Items(f, pl.shape) = f.array_size
    BY <1>13 DEF Items
  <2>3. item \in Message
    <3>1. item_count(m, message) = f.array_size
      BY <1>8, <1>10, <1>13 DEF item_count
    <3>2. i \in 1 .. item_count(m, message)
      BY <2>2, <3>1
    <3> QED BY <1>1, <1>7, <1>8, <3>2, MessageItemType
  <2>4. ItemLayout(f, Layout) = Layout[t] /\ Len(ItemLayout(f, Layout)) = size
    BY DEF ItemLayout, SizeOf
  <2>5. ASSUME NEW k \in 1 .. size
        PROVE  /\ item.base + k \in 1 .. SizeOf(item.of)
               /\ item.at \o Layout[item.of][item.base + k].path = ipl.path \o Layout[t][k].path
               /\ Layout[item.of][item.base + k].field = Layout[t][k].field
    <3> DEFINE j == ItemCellAt(g, i, k)
    <3>1. i \in 1 .. g.field.array_size /\ k \in 1 .. Len(ItemLayout(g.field, Layout))
      BY <2>2, <2>4
    <3>2. IsItemCell(pl, g, i, k, j)
      BY <1>1, <1>13, <3>1, ItemCells
    <3>3. j = o + ((i - 1) * size + k)
      BY <2>4 DEF ItemCellAt
    <3>4. message.base + j = item.base + k
      <4> DEFINE n == (i - 1) * size
                 b == message.base
      <4>1. n \in Nat
        <5> DEFINE i1 == i - 1
        <5>1. i1 \in Nat
          BY <1>5
        <5> HIDE DEF i1
        <5>2. i1 * size \in Nat
          BY <1>11, <5>1
        <5> QED BY <5>2 DEF i1
      <4>2. item.base = b + o + n /\ j = o + (n + k) /\ b \in Nat /\ o \in Nat /\ k \in Nat
        BY <1>1, <1>9, <1>11, <2>1, <3>3
      <4> HIDE DEF n, b, j, o, item
      <4>3. b + j = item.base + k
        BY <4>1, <4>2
      <4> QED BY <4>3 DEF b
    <3>5. /\ j \in 1 .. SizeOf(pl.type)
          /\ pl.path \o Layout[pl.type][j].path =
               (pl.path \o PathOf(g) \o <<Decimal[i - 1]>>) \o ItemLayout(f, Layout)[k].path
          /\ Layout[pl.type][j].field = ItemLayout(f, Layout)[k].field
      BY <3>2 DEF IsItemCell
    <3> HIDE DEF j, item
    <3>6. /\ message.base + j \in 1 .. SizeOf(message.of)
          /\ message.at \o Layout[message.of][message.base + j].path =
               pl.path \o Layout[pl.type][j].path
          /\ Layout[message.of][message.base + j].field = Layout[pl.type][j].field
      BY <3>5 DEF Shows
    <3> QED BY <1>6, <2>1, <2>4, <3>4, <3>5, <3>6
  <2> HIDE DEF item
  <2>6. Shows(item, ipl)
    <3>1. /\ item \in Message /\ ipl \in Place
          /\ item.lang = ipl.lang /\ item.shape = ipl.shape
      BY <1>1, <1>6, <2>1, <2>3
    <3>2. ipl.type = t /\ SizeOf(ipl.type) = size
      BY <1>6
    <3>3. \A k \in 1 .. SizeOf(ipl.type) :
            /\ item.base + k \in 1 .. SizeOf(item.of)
            /\ item.at \o Layout[item.of][item.base + k].path =
                 ipl.path \o Layout[ipl.type][k].path
            /\ Layout[item.of][item.base + k].field = Layout[ipl.type][k].field
      BY <2>5, <3>2
    <3> QED BY <3>1, <3>3 DEF Shows
  <2> QED BY <2>1, <2>6 DEF item, ipl
<1> QED BY <1>12, <1>13

-----------------------------------------------------------------------------
(* What reading an inline field pushes.                                     *)

\* A unit that may end the reading of its member, and one that is in sight.
Fails(u, shape) ==
  \/ u.valueless
  \/ shape.bad \in Keys(u)
  \/ u.misread /\ shape.bad # <<>>
Seen(u, limit) == ~u.misread /\ ~u.hidden /\ (u.is_array => u.len <= limit)

\* The attribute says what the unit holds, or comes from an array that is misread.
Backed(a, u, limit) ==
  \/ /\ a.key \in Keys(u) /\ a = True(a.key)
     /\ ~u.misread /\ (u.is_array => u.len <= limit)
  \/ u.misread /\ \E s \in STRING : a.key = Append(u.path, s)

\* Of the units, nothing else is pushed, and all that is in sight if none fails.
Sound(units, limit, r) == \A a \in Elements(r.out) : \E u \in units : Backed(a, u, limit)
Complete(units, shape, limit, inside, r) ==
  (\A u \in units : ~Fails(u, shape)) =>
    /\ r.ok
    /\ inside => \A u \in units : Seen(u, limit) =>
                   \A key \in Keys(u) : True(key) \in Elements(r.out)

Reading(g, pl, message, limit) ==
  interpret_message[Call(FlatOf(g, <<>>, 0), pl.path, message, limit)]
Reads(g, pl, message, limit) ==
  LET r == Reading(g, pl, message, limit)
      units == UnitsOf(g, pl, Units)
  IN /\ r \in Result
     /\ Sound(units, limit, r)
     /\ Complete(units, pl.shape, limit, g.base + g.own <= message.size, r)

\* Limits that a configuration has.
Limit == {n \in 0 .. UsizeLimit - 1 : n < Address}

\* Nothing is read where nothing is in sight, or where a unit fails.
LEMMA NothingRead ==
  ASSUME NEW units, NEW shape, NEW limit, NEW inside, NEW r,
         \/ r = Done(<<>>) /\ (inside => \A u \in units : ~Seen(u, limit))
         \/ r = Failed(<<>>) /\ \E u \in units : Fails(u, shape)
  PROVE  r \in Result /\ Sound(units, limit, r) /\ Complete(units, shape, limit, inside, r)
<1>1. r \in Result /\ Elements(r.out) = {} /\ (r = Done(<<>>) => r.ok)
  BY NothingPushed, ResultFacts
<1> QED BY <1>1 DEF Sound, Complete

\* Reading an inline field is one step of the interpretation.
LEMMA ReadingIsCall ==
  ASSUME NEW message, NEW pl, Shows(message, pl), NEW g \in InlineFields[pl.type],
         NEW limit \in Limit
  PROVE  Reading(g, pl, message, limit) =
           InterpretMember(interpret_message, Call(FlatOf(g, <<>>, 0), pl.path, message, limit))
<1>1. pl.path \in Path /\ message \in Message /\ pl.type \in Types /\ limit \in Nat
  BY ShownTypes DEF Limit
<1>2. <<>> \in Path /\ 0 \in Nat
  BY DEF Path
<1>3. FlatOf(g, <<>>, 0) \in FlatMember
  BY <1>1, <1>2, FlatOfType
<1>4. Call(FlatOf(g, <<>>, 0), pl.path, message, limit) \in Interpretation
  BY <1>1, <1>3 DEF Call, Interpretation
<1> QED BY <1>4, InterpretEquation DEF Reading

\* The flat member of a field.
LEMMA FlatOfFacts ==
  ASSUME NEW t \in Types, NEW g \in InlineFields[t]
  PROVE  LET f == g.field
             m == FlatOf(g, <<>>, 0)
         IN /\ m.key = PathOf(g)
            /\ ~f.is_array => m.kind = "scalar" /\ m.type_id = f.type_id
                              /\ m.offset = g.base + g.own
            /\ f.is_array => /\ m.array_size = f.array_size
                             /\ m.is_upper_bound = f.is_upper_bound
                             /\ m.has_get = f.has_get
            /\ f.is_array /\ f.type_id # "message" =>
                 m.kind = "scalar_array" /\ m.type_id = f.type_id /\ m.offset = g.own
            /\ f.is_array /\ f.type_id = "message" =>
                 m.kind = "message_sequence" /\ m.message_schema = f.of
                 /\ m.offset = g.base + g.own
<1> DEFINE f == g.field
           m == FlatOf(g, <<>>, 0)
           o == g.base + g.own
           key == <<>> \o PathOf(g)
<1>1. g.base \in Nat /\ g.own \in Nat /\ PathOf(g) \in Path
  BY InlineFacts
<1>2. 0 + g.base + g.own = o
  BY <1>1
<1>3. key = PathOf(g)
  BY <1>1, PathFacts
<1>4. m = Flat(f, key, o, g.own)
  BY <1>2 DEF FlatOf
<1>5. FieldWithin(f, t)
  BY InlineFacts
<1>6. f.is_array \in BOOLEAN
  BY <1>5, FieldTypes
<1> HIDE DEF m, key, o, f
<1>7. CASE ~f.is_array
  <2>1. m = [kind |-> "scalar", key |-> key, type_id |-> f.type_id, offset |-> o]
    BY <1>4, <1>7 DEF Flat
  <2>2. m.key = key /\ m.kind = "scalar" /\ m.type_id = f.type_id /\ m.offset = o
    BY <2>1
  <2> QED BY <1>3, <1>7, <2>2 DEF f, m, o
<1>8. CASE f.is_array /\ f.type_id # "message"
  <2>1. m = [kind |-> "scalar_array", key |-> key, type_id |-> f.type_id, offset |-> g.own,
             array_size |-> f.array_size, is_upper_bound |-> f.is_upper_bound,
             has_get |-> f.has_get]
    BY <1>4, <1>8 DEF Flat
  <2>2. /\ m.key = key /\ m.kind = "scalar_array" /\ m.type_id = f.type_id /\ m.offset = g.own
        /\ m.array_size = f.array_size /\ m.is_upper_bound = f.is_upper_bound
        /\ m.has_get = f.has_get
    BY <2>1
  <2> QED BY <1>3, <1>8, <2>2 DEF f, m, o
<1>9. CASE f.is_array /\ f.type_id = "message"
  <2>1. m = [kind |-> "message_sequence", key |-> key, offset |-> o, message_schema |-> f.of,
             array_size |-> f.array_size, is_upper_bound |-> f.is_upper_bound,
             has_get |-> f.has_get]
    BY <1>4, <1>9 DEF Flat
  <2>2. /\ m.key = key /\ m.kind = "message_sequence" /\ m.message_schema = f.of /\ m.offset = o
        /\ m.array_size = f.array_size /\ m.is_upper_bound = f.is_upper_bound
        /\ m.has_get = f.has_get
    BY <2>1
  <2> QED BY <1>3, <1>9, <2>2 DEF f, m, o
<1> QED BY <1>6, <1>7, <1>8, <1>9

\* What a leaf says.
LEMMA LeafSays ==
  ASSUME NEW path, NEW shape
  PROVE  /\ Leaf(path, shape).kind = "leaf" /\ Leaf(path, shape).path = path
         /\ Leaf(path, shape).valid = (path # shape.bad)
<1> DEFINE valid == path # shape.bad
<1>1. Leaf(path, shape) = [kind |-> "leaf", path |-> path, valid |-> valid,
                           items |-> 0, size |-> 0]
  BY DEF Leaf
<1> HIDE DEF valid
<1>2. /\ Leaf(path, shape).kind = "leaf" /\ Leaf(path, shape).path = path
      /\ Leaf(path, shape).valid = valid
  BY <1>1
<1> QED BY <1>2 DEF valid

\* Reading a scalar field.
LEMMA ScalarReads ==
  ASSUME NEW message, NEW pl, Shows(message, pl), NEW g \in InlineFields[pl.type],
         NEW limit \in Limit, ~g.field.is_array
  PROVE  Reads(g, pl, message, limit)
<1> DEFINE f == g.field
           m == FlatOf(g, <<>>, 0)
           u == Unit(g, pl)
           r == Reading(g, pl, message, limit)
           o == g.base + g.own
           here == pl.path \o PathOf(g)
           word == WordAt(message, m.offset)
           inside == o <= message.size
<1>1. pl.type \in Types /\ pl.path \in Path /\ message \in Message /\ message.size \in Nat
      /\ pl.shape \in MessageShapes
  BY ShownTypes
<1>2. m.key = PathOf(g) /\ m.kind = "scalar" /\ m.type_id = f.type_id /\ m.offset = o
  BY <1>1, FlatOfFacts
<1>3. PathOf(g) \in Path /\ g.base \in Nat /\ g.own \in Nat /\ ~IsStruct(f)
  BY <1>1, InlineFacts
<1>4. here \in Path /\ o \in Nat
  BY <1>1, <1>3, PathFacts
<1>5. word = Leaf(here, pl.shape)
  BY <1>2, OwnWord
<1>6. word \in Word
  BY <1>1, <1>2, <1>4, WordFacts
<1>7. /\ u.path = here /\ ~u.is_array /\ ~u.misread /\ ~u.hidden
      /\ u.valueless = (f.type_id = "long_double")
  BY DEF Unit
<1>8. UnitsOf(g, pl, Units) = {u}
  BY <1>3 DEF UnitsOf, IsStruct
<1>9. Keys(u) = {here}
  BY <1>7 DEF Keys
<1>10. r = IF m.offset <= message.size
             THEN PushValue(here, ros_to_attr_val(f.type_id, word)) ELSE Done(<<>>)
  <2> DEFINE x == Call(m, pl.path, message, limit)
  <2>1. r = InterpretMember(interpret_message, x)
    BY ReadingIsCall
  <2>2. x.member = m /\ x.prefix = pl.path /\ x.message = message
    BY DEF Call
  <2> HIDE DEF x, m, r
  <2>3. r = ScalarInterpret(m, pl.path, message)
    BY <1>2, <2>1, <2>2 DEF InterpretMember
  <2> QED BY <1>2, <2>3 DEF ScalarInterpret, InSlice
<1> SUFFICES /\ r \in Result /\ Sound({u}, limit, r)
             /\ Complete({u}, pl.shape, limit, inside, r)
  BY <1>8 DEF Reads
<1>11. CASE ~inside
  <2>1. r = Done(<<>>)
    BY <1>2, <1>10, <1>11
  <2> HIDE DEF r, u, inside
  <2> QED BY <1>11, <2>1, NothingRead
<1>12. CASE inside
  <2> DEFINE key == here
  <2>1. r = PushValue(key, ros_to_attr_val(f.type_id, word))
    BY <1>2, <1>10, <1>12
  <2>2. word.kind = "leaf" /\ word.path = key /\ word.valid = (key # pl.shape.bad)
    <3> DEFINE shape == pl.shape
    <3>1. word = Leaf(key, shape)
      BY <1>5
    <3> HIDE DEF word, key, shape
    <3>2. word.kind = "leaf" /\ word.path = key /\ word.valid = (key # shape.bad)
      BY <3>1, LeafSays
    <3> QED BY <3>2 DEF shape
  <2>3. key \in Path /\ Keys(u) = {key}
    BY <1>4, <1>9
  <2> HIDE DEF r, u, inside, word, key, f
  <2>4. /\ r \in Result
        /\ Elements(r.out) \subseteq {[key |-> key, value |-> key]}
        /\ f.type_id # "long_double" /\ key # pl.shape.bad =>
             r.ok /\ Elements(r.out) = {[key |-> key, value |-> key]}
    <3>1. Pushes(key, f.type_id, word, r)
      BY <1>6, <2>1, <2>3, PushFacts
    <3> QED BY <2>2, <3>1 DEF Pushes
  <2>5. Elements(r.out) \subseteq {True(key)}
        /\ (f.type_id # "long_double" /\ key # pl.shape.bad =>
              r.ok /\ Elements(r.out) = {True(key)})
    BY <2>4 DEF True
  <2>6. True(key).key = key
    BY DEF True
  <2>7. Sound({u}, limit, r)
    BY <1>7, <2>3, <2>5, <2>6 DEF Sound, Backed
  <2>8. Complete({u}, pl.shape, limit, inside, r)
    BY <1>7, <2>3, <2>5 DEF Complete, Fails
  <2> QED BY <2>4, <2>7, <2>8
<1> QED BY <1>11, <1>12

\* An array that is not misread has the length and the items of its unit, or is
\* a C++ vector, whose length is taken for an address.
LEMMA RightLength ==
  ASSUME NEW message, NEW pl, Shows(message, pl), NEW g \in InlineFields[pl.type],
         g.field.is_array, g.field.type_id # "message", ~Unit(g, pl).misread,
         NEW m, m = FlatOf(g, <<>>, 0)
  PROVE  \/ /\ scalar_array_len(m, message) = Unit(g, pl).len
            /\ \A i \in 1 .. Unit(g, pl).len :
                 ScalarItem(m, message, i - 1) =
                   Leaf(pl.path \o PathOf(g) \o <<Decimal[i - 1]>>, pl.shape)
         \/ Unit(g, pl).hidden /\ scalar_array_len(m, message) = Address
<1> DEFINE f == g.field
           u == Unit(g, pl)
           n == Items(f, pl.shape)
           here == pl.path \o PathOf(g)
           len == scalar_array_len(m, message)
           word == WordAt(message, m.offset)
<1>1. /\ pl.type \in Types /\ pl.path \in Path /\ pl.shape \in MessageShapes
      /\ pl.lang \in Langs
  BY ShownTypes
<1>2. /\ g.base \in Nat /\ g.own \in Nat /\ PathOf(g) \in Path /\ FieldWithin(f, pl.type)
  BY <1>1, InlineFacts
<1>3. /\ f.array_size \in 0 .. UsizeLimit - 1 /\ f.array_size \in Nat
      /\ f.is_upper_bound \in BOOLEAN
  BY <1>1, <1>2, FieldTypes
<1>4. m.array_size = f.array_size /\ m.is_upper_bound = f.is_upper_bound /\ m.offset = g.own
  BY <1>1, FlatOfFacts
<1>5. /\ u.len = n /\ u.hidden = (f.array_size = 0 /\ pl.lang = "cpp")
      /\ g.base = 0 /\ ~(f.is_upper_bound /\ n < f.array_size)
  BY DEF Unit
<1>6. n \in 0 .. UsizeLimit - 1 /\ n \in Nat
  BY <1>1, <1>3, ItemsType
<1>7. m.offset = g.base + g.own /\ here \in Path
  BY <1>1, <1>2, <1>4, <1>5, PathFacts
<1>8. Inline(m) <=> ~IsSequence(f)
  BY <1>3, <1>4 DEF Inline, IsSequence
<1>9. \A i \in 1 .. n : Decimal[i - 1] \in STRING /\ i - 1 \in Nat /\ i - 1 < n
  BY <1>6, IndexFacts
<1>10. CASE ~IsSequence(f)
  <2>1. n = f.array_size /\ f.array_size # 0
    BY <1>10 DEF Items, IsSequence
  <2>2. len = n
    BY <1>4, <2>1 DEF scalar_array_len, SizeRead
  <2>3. ASSUME NEW i \in 1 .. n
        PROVE  ScalarItem(m, message, i - 1) = Leaf(here \o <<Decimal[i - 1]>>, pl.shape)
    <3>1. ScalarItem(m, message, i - 1) = WordAt(message, m.offset + (i - 1))
      BY <1>8, <1>10 DEF ScalarItem, SequenceItem
    <3>2. i \in 1 .. g.field.array_size
      BY <2>1
    <3>3. WordAt(message, g.base + g.own + (i - 1)) = Leaf(here \o <<Decimal[i - 1]>>, pl.shape)
      BY <1>10, <3>2, ItemWord
    <3> QED BY <1>7, <3>1, <3>3
  <2> QED BY <1>5, <2>2, <2>3
<1>11. CASE IsSequence(f)
  <2>1. word = Header(here, n, pl.lang)
    BY <1>7, <1>11, OwnWord
  <2>2. word.kind = "sequence" /\ word.path = here /\ word.items = n
        /\ word.size = IF pl.lang = "cpp" /\ n # 0 THEN Address ELSE n
    BY <2>1 DEF Header
  <2>3. ASSUME NEW i \in 1 .. n
        PROVE  ScalarItem(m, message, i - 1) = Leaf(here \o <<Decimal[i - 1]>>, pl.shape)
    <3>1. ScalarItem(m, message, i - 1) = Leaf(Append(word.path, Decimal[i - 1]), message.shape)
      BY <1>8, <1>9, <1>11, <2>2 DEF ScalarItem, SequenceItem
    <3>2. message.shape = pl.shape
      BY ShownTypes
    <3>3. Append(here, Decimal[i - 1]) = here \o <<Decimal[i - 1]>>
      BY <1>7, <1>9, PathFacts
    <3> QED BY <2>2, <3>1, <3>2, <3>3
  <2>4. CASE f.array_size = 0
    <3>1. len = IF pl.lang = "cpp" /\ n # 0 THEN Address ELSE n
      BY <1>4, <2>2, <2>4 DEF scalar_array_len, SizeRead
    <3>2. CASE pl.lang = "cpp" /\ n # 0
      <4>1. u.hidden /\ len = Address
        BY <1>5, <2>4, <3>1, <3>2
      <4> QED BY <4>1
    <3>3. CASE ~(pl.lang = "cpp" /\ n # 0)
      <4>1. len = u.len
        BY <1>5, <3>1, <3>3
      <4> QED BY <1>5, <2>3, <4>1
    <3> QED BY <3>2, <3>3
  <2>5. CASE f.array_size # 0
    <3>1. len = f.array_size
      BY <1>4, <2>5 DEF scalar_array_len, SizeRead
    <3>2. n <= f.array_size
      <4>1. PICK v \in Types : \E k \in 1 .. Len(Fields[v]) : f = Fields[v][k]
        BY <1>2 DEF FieldWithin
      <4>2. PICK k \in 1 .. Len(Fields[v]) : f = Fields[v][k]
        BY <4>1
      <4>3. IsSequence(Fields[v][k]) /\ Fields[v][k].array_size # 0
        BY <1>11, <2>5, <4>2
      <4>4. Items(Fields[v][k], pl.shape) <= Fields[v][k].array_size
        BY <1>1, <4>3, MemoryAssumption
      <4> QED BY <4>2, <4>4
    <3>3. f.is_upper_bound
      BY <1>11, <2>5 DEF IsSequence
    <3>4. n = f.array_size
      BY <1>3, <1>5, <1>6, <3>2, <3>3
    <3>5. len = u.len
      BY <1>5, <3>1, <3>4
    <3> QED BY <1>5, <2>3, <3>5
  <2> QED BY <2>4, <2>5
<1> QED BY <1>10, <1>11

\* The components of a leaf.
LEMMA LeafFacts ==
  ASSUME NEW path, NEW shape
  PROVE  /\ Leaf(path, shape).kind = "leaf" /\ Leaf(path, shape).path = path
         /\ Leaf(path, shape).valid = (path # shape.bad)
<1> DEFINE ok == path # shape.bad
<1>1. Leaf(path, shape) = [kind |-> "leaf", path |-> path, valid |-> ok, items |-> 0, size |-> 0]
  BY DEF Leaf
<1> HIDE DEF ok
<1>2. /\ Leaf(path, shape).kind = "leaf" /\ Leaf(path, shape).path = path
      /\ Leaf(path, shape).valid = ok
  BY <1>1
<1> QED BY <1>2 DEF ok

\* What the items of a scalar array may be.
LEMMA ItemWordFacts ==
  ASSUME NEW message \in Message, NEW m \in FlatMember, m.kind = "scalar_array",
         NEW i \in Nat, Decimal[i] \in STRING
  PROVE  /\ scalar_array_len(m, message) \in Nat
         /\ ScalarItem(m, message, i) \in Word
         /\ ScalarItem(m, message, i).kind = "leaf" =>
              /\ ScalarItem(m, message, i).path # <<>>
              /\ ScalarItem(m, message, i).valid =
                   (ScalarItem(m, message, i).path # message.shape.bad)
<1> DEFINE header == WordAt(message, m.offset)
           word == ScalarItem(m, message, i)
<1>1. m.offset \in Nat
  BY MemberFacts
<1>2. m.array_size \in Nat
  <2>1. DOMAIN Decimal = 0 .. UsizeLimit - 1 /\ UsizeLimit \in Nat
    BY MemoryAssumption, DefaultsAreNumbers
  <2>2. m.array_size \in DOMAIN Decimal
    BY DEF FlatMember
  <2> QED BY <2>1, <2>2
<1>3. message.junk \in Nat
  BY DEF Message
<1>4. header \in Word
  BY <1>1, WordFacts
<1>5. header.size \in Nat /\ header.path \in Path
  BY <1>4 DEF Word
<1>6. scalar_array_len(m, message) \in Nat
  BY <1>2, <1>3, <1>5 DEF scalar_array_len, SizeRead
<1>7. CASE Inline(m)
  <2>1. word = WordAt(message, m.offset + i)
    BY <1>7 DEF ScalarItem, SequenceItem
  <2>2. m.offset + i \in Nat
    BY <1>1
  <2> DEFINE o == m.offset + i
             w == WordAt(message, o)
  <2>3. o \in Nat
    BY <2>2
  <2> HIDE DEF o
  <2>4. w \in Word /\ (w.kind = "leaf" => w.path # <<>> /\ w.valid = (w.path # message.shape.bad))
    BY <2>3, WordFacts
  <2>5. word = w
    BY <2>1 DEF o
  <2> HIDE DEF w, word
  <2>6. word \in Word /\ (word.kind = "leaf" => word.path # <<>> /\ word.valid = (word.path # message.shape.bad))
    BY <2>4, <2>5
  <2> QED BY <1>6, <2>6 DEF word
<1>8. CASE ~Inline(m) /\ header.kind = "sequence" /\ i < header.items
  <2> DEFINE path == Append(header.path, Decimal[i])
             bad == message.shape.bad
  <2>1. word = Leaf(path, message.shape)
    BY <1>8 DEF ScalarItem, SequenceItem
  <2>2. path \in Path /\ path # <<>>
    <3>1. header.path \in Seq(STRING)
      BY <1>5 DEF Path
    <3> HIDE DEF header
    <3>2. path \in Seq(STRING) /\ path # <<>>
      BY <3>1, AppendProperties
    <3> QED BY <3>2 DEF Path
  <2>3. 0 \in 0 .. UsizeLimit - 1
    BY DefaultsAreNumbers
  <2>4. word = [kind |-> "leaf", path |-> path, valid |-> path # bad, items |-> 0, size |-> 0]
    BY <2>1 DEF Leaf
  <2> HIDE DEF path, word, bad
  <2>5. word \in Word /\ (word.kind = "leaf" => word.path # <<>> /\ word.valid = (word.path # bad))
    BY <2>2, <2>3, <2>4 DEF Word
  <2> QED BY <1>6, <2>5 DEF word, bad
<1>9. CASE ~Inline(m) /\ ~(header.kind = "sequence" /\ i < header.items)
  <2>1. word = Junk
    BY <1>9 DEF ScalarItem, SequenceItem
  <2>2. <<>> \in Path /\ 0 \in 0 .. UsizeLimit - 1
    BY DefaultsAreNumbers DEF Path
  <2>3. Junk \in Word /\ Junk.kind = "junk"
    BY <2>2 DEF Junk, Word
  <2> HIDE DEF word
  <2>4. word \in Word /\ word.kind = "junk"
    BY <2>1, <2>3
  <2> QED BY <1>6, <2>4 DEF word
<1> QED BY <1>7, <1>8, <1>9

\* Reading an array of scalars.
LEMMA ArrayReads ==
  ASSUME NEW message, NEW pl, Shows(message, pl), NEW g \in InlineFields[pl.type],
         NEW limit \in Limit, g.field.is_array, g.field.type_id # "message"
  PROVE  Reads(g, pl, message, limit)
<1> DEFINE f == g.field
           m == FlatOf(g, <<>>, 0)
           u == Unit(g, pl)
           r == Reading(g, pl, message, limit)
           here == pl.path \o PathOf(g)
           inside == g.base + g.own <= message.size
           len == scalar_array_len(m, message)
           type_id == f.type_id
           Key(i) == here \o <<Decimal[i - 1]>>
           Item(i) == ScalarItem(m, message, i - 1)
           Push(i) == PushValue(Key(i), ros_to_attr_val(type_id, Item(i)))
           bad == pl.shape.bad
<1>1. /\ pl.type \in Types /\ pl.path \in Path /\ message \in Message /\ message.size \in Nat
      /\ pl.shape \in MessageShapes /\ message.shape = pl.shape /\ bad \in Path
  <2>1. pl.shape \in MessageShapes
    BY ShownTypes
  <2>2. bad \in Path
    BY <2>1, MemoryAssumption
  <2> QED BY <2>2, ShownTypes
<1>2. /\ m.key = PathOf(g) /\ m.kind = "scalar_array" /\ m.type_id = type_id /\ m.offset = g.own
      /\ m.has_get = f.has_get
  BY <1>1, FlatOfFacts
<1>3. PathOf(g) \in Path /\ g.base \in Nat /\ g.own \in Nat /\ FieldWithin(f, pl.type)
  BY <1>1, InlineFacts
<1>4. here \in Path /\ f.has_get \in BOOLEAN /\ Items(f, pl.shape) \in Nat
  <2>1. here \in Path
    BY <1>1, <1>3, PathFacts
  <2>2. f.has_get \in BOOLEAN /\ f.array_size \in 0 .. UsizeLimit - 1
    BY <1>1, <1>3, FieldTypes
  <2> QED BY <1>1, <2>1, <2>2, ItemsType
<1>5. m \in FlatMember
  <2>1. <<>> \in Path /\ 0 \in Nat
    BY DEF Path
  <2> QED BY <1>1, <2>1, FlatOfType
<1>6. /\ u.path = here /\ u.is_array /\ u.len \in Nat
      /\ ~u.misread => g.base = 0
      /\ u.valueless <=> type_id = "long_double" \/ ~f.has_get
  BY <1>4 DEF Unit
<1>7. UnitsOf(g, pl, Units) = {u}
  BY DEF UnitsOf
<1>8. r = ScalarArrayInterpret(m, pl.path, message, limit)
  <2> DEFINE x == Call(m, pl.path, message, limit)
  <2>1. r = InterpretMember(interpret_message, x)
    BY ReadingIsCall
  <2>2. x.member = m /\ x.prefix = pl.path /\ x.message = message /\ x.limit = limit
    BY DEF Call
  <2> HIDE DEF x, m, r
  <2> QED BY <1>2, <2>1, <2>2 DEF InterpretMember
<1>9. len \in Nat /\ limit \in 0 .. UsizeLimit - 1 /\ limit < Address /\ limit \in Nat
      /\ UsizeLimit \in Nat
  <2>1. 0 \in 0 .. UsizeLimit - 1 /\ UsizeLimit \in Nat
    BY DefaultsAreNumbers
  <2>2. 0 \in Nat /\ Decimal[0] \in STRING
    BY <2>1, DecimalFacts
  <2>3. len \in Nat
    BY <1>1, <1>2, <1>5, <2>2, ItemWordFacts
  <2> QED BY <2>1, <2>3 DEF Limit
<1>10. ~u.misread =>
         \/ /\ len = u.len
            /\ \A i \in 1 .. u.len : Item(i) = Leaf(Key(i), pl.shape)
         \/ u.hidden /\ len = Address
  BY RightLength
<1> SUFFICES /\ r \in Result /\ Sound({u}, limit, r)
             /\ Complete({u}, pl.shape, limit, inside, r)
  BY <1>7 DEF Reads
<1>11. CASE ~InSlice(m, message) \/ TooLong(len, limit)
  <2>1. r = Done(<<>>)
    BY <1>8, <1>11 DEF ScalarArrayInterpret, ReadItems
  <2>2. ASSUME inside, Seen(u, limit) PROVE FALSE
    <3>1. ~u.misread /\ ~u.hidden /\ u.len <= limit
      BY <1>6, <2>2 DEF Seen
    <3>2. len = u.len /\ g.base = 0
      BY <1>6, <1>10, <3>1
    <3>3. InSlice(m, message)
      BY <1>2, <1>3, <2>2, <3>2 DEF InSlice
    <3>4. ~TooLong(len, limit)
      BY <1>6, <1>9, <3>1, <3>2 DEF TooLong
    <3> QED BY <1>11, <3>3, <3>4
  <2> HIDE DEF r, u, inside
  <2> QED BY <2>1, <2>2, NothingRead
<1>12. CASE InSlice(m, message) /\ ~TooLong(len, limit) /\ ~f.has_get
  <2>1. r = Failed(<<>>)
    BY <1>2, <1>8, <1>12 DEF ScalarArrayInterpret, ReadItems
  <2>2. Fails(u, pl.shape)
    BY <1>6, <1>12 DEF Fails
  <2> HIDE DEF r, u, inside
  <2> QED BY <2>1, <2>2, NothingRead
<1>13. CASE InSlice(m, message) /\ ~TooLong(len, limit) /\ f.has_get
  <2> DEFINE results == [i \in 1 .. len |-> Push(i)]
  <2>1. r = UntilFailure(results)
    BY <1>2, <1>8, <1>13 DEF ScalarArrayInterpret, ReadItems
  <2>2. len <= limit /\ len \in 0 .. UsizeLimit - 1 /\ len # Address
    <3>1. len <= limit
      BY <1>9, <1>13 DEF TooLong
    <3>2. Address \in Nat
      BY AddressAssumption
    <3> HIDE DEF len
    <3> QED BY <1>9, <3>1, <3>2
  <2>3. ASSUME NEW i \in 1 .. len
        PROVE  /\ Decimal[i - 1] \in STRING /\ Key(i) \in Path
               /\ Item(i) \in Word
               /\ Item(i).kind = "leaf" => Item(i).path # <<>> /\ Item(i).valid = (Item(i).path # bad)
               /\ Pushes(Key(i), type_id, Item(i), Push(i))
    <3>1. i - 1 \in Nat /\ Decimal[i - 1] \in STRING
      BY <2>2, IndexFacts
    <3>2. Key(i) \in Path
      <4>1. <<Decimal[i - 1]>> \in Path
        BY <3>1, AppendType DEF Path
      <4> QED BY <1>4, <4>1, PathFacts
    <3>3. /\ Item(i) \in Word
          /\ Item(i).kind = "leaf" => Item(i).path # <<>> /\ Item(i).valid = (Item(i).path # bad)
      <4> DEFINE n == i - 1
      <4>1. n \in Nat /\ Decimal[n] \in STRING
        BY <3>1
      <4> HIDE DEF n, m
      <4>2. /\ ScalarItem(m, message, n) \in Word
            /\ ScalarItem(m, message, n).kind = "leaf" =>
                 /\ ScalarItem(m, message, n).path # <<>>
                 /\ ScalarItem(m, message, n).valid =
                      (ScalarItem(m, message, n).path # message.shape.bad)
        BY <1>1, <1>2, <1>5, <4>1, ItemWordFacts
      <4> QED BY <1>1, <4>2 DEF n
    <3> HIDE DEF Key, Item
    <3>4. Pushes(Key(i), type_id, Item(i), Push(i))
      BY <3>2, <3>3, PushFacts
    <3> QED BY <3>1, <3>2, <3>3, <3>4
  <2> HIDE DEF Push, Item, m, u, len
  <2>4. results \in [1 .. len -> Result] /\ \A i \in 1 .. len : results[i] = Push(i)
    BY <2>3 DEF Pushes
  <2>5. len \in Nat
    BY <1>9
  <2> HIDE DEF results, r
  <2>6. /\ r \in Result
        /\ Elements(r.out) \subseteq UNION {Elements(results[i].out) : i \in 1 .. len}
        /\ (\A i \in 1 .. len : results[i].ok) =>
             r.ok /\ Elements(r.out) = UNION {Elements(results[i].out) : i \in 1 .. len}
    BY <2>1, <2>4, <2>5, UntilFailureFacts
  <2>7. ~u.misread => len = u.len /\ \A i \in 1 .. len : Item(i) = Leaf(Key(i), pl.shape)
    BY <1>10, <2>2 DEF Item, u, len, m
  <2>8. ~u.misread => Keys(u) = {Key(i) : i \in 1 .. len}
    <3> SUFFICES ASSUME ~u.misread PROVE Keys(u) = {Key(i) : i \in 1 .. len}
      OBVIOUS
    <3>1. Keys(u) = {Append(here, Decimal[i - 1]) : i \in 1 .. len}
      BY <1>6, <2>7 DEF Keys, u
    <3>2. \A i \in 1 .. len : Append(here, Decimal[i - 1]) = Key(i)
      BY <1>4, <2>3, PathFacts
    <3> QED BY <3>1, <3>2
  <2>9. Sound({u}, limit, r)
    <3> SUFFICES ASSUME NEW a \in Elements(r.out) PROVE Backed(a, u, limit)
      BY DEF Sound
    <3>1. PICK i \in 1 .. len : a \in Elements(Push(i).out)
      BY <2>4, <2>6
    <3>2. a.key = Key(i)
      BY <2>3, <3>1 DEF Pushes
    <3>3. CASE u.misread
      <4>1. Key(i) = Append(u.path, Decimal[i - 1])
        BY <1>4, <1>6, <2>3, PathFacts DEF u
      <4> QED BY <2>3, <3>2, <3>3, <4>1 DEF Backed
    <3>4. CASE ~u.misread
      <4>1. Item(i) = Leaf(Key(i), pl.shape)
        BY <2>7, <3>4
      <4>2. Item(i).kind = "leaf" /\ Item(i).path = Key(i)
        BY <4>1 DEF Leaf
      <4>3. a = [key |-> Key(i), value |-> Key(i)]
        BY <2>3, <3>1, <4>2 DEF Pushes
      <4>4. a = True(a.key)
        BY <3>2, <4>3 DEF True
      <4>5. a.key \in Keys(u)
        BY <2>8, <3>2, <3>4
      <4>6. u.len <= limit
        BY <2>2, <2>7, <3>4
      <4> QED BY <3>4, <4>4, <4>5, <4>6 DEF Backed
    <3> QED BY <3>3, <3>4
  <2>10. Complete({u}, pl.shape, limit, inside, r)
    <3> SUFFICES ASSUME ~Fails(u, pl.shape)
                 PROVE  /\ r.ok
                        /\ inside => (Seen(u, limit) => \A key \in Keys(u) : True(key) \in Elements(r.out))
      BY DEF Complete
    <3>1. type_id # "long_double" /\ bad \notin Keys(u) /\ (u.misread => bad = <<>>)
      BY <1>6 DEF Fails, u
    <3>2. ASSUME NEW i \in 1 .. len PROVE Item(i).kind = "leaf" => Item(i).valid
      <4>1. CASE u.misread
        BY <2>3, <3>1, <4>1
      <4>2. CASE ~u.misread
        <5>1. Item(i) = Leaf(Key(i), pl.shape)
          BY <2>7, <4>2
        <5> DEFINE key == Key(i)
                   shape == pl.shape
        <5>2. Leaf(key, shape).valid = (key # shape.bad)
          <6> HIDE DEF key, shape, bad
          <6> QED BY LeafFacts
        <5>3. Item(i).valid = (key # shape.bad)
          BY <5>1, <5>2
        <5>4. key \in Keys(u)
          BY <2>8, <4>2
        <5> HIDE DEF key
        <5> QED BY <3>1, <5>3, <5>4
      <4> QED BY <4>1, <4>2
    <3>3. \A i \in 1 .. len : results[i].ok
      BY <2>3, <2>4, <3>1, <3>2 DEF Pushes
    <3>4. r.ok /\ Elements(r.out) = UNION {Elements(results[i].out) : i \in 1 .. len}
      BY <2>6, <3>3
    <3>5. ASSUME Seen(u, limit), NEW key \in Keys(u) PROVE True(key) \in Elements(r.out)
      <4>1. ~u.misread
        BY <3>5 DEF Seen
      <4>2. PICK i \in 1 .. len : key = Key(i)
        BY <2>8, <4>1
      <4>3. Item(i) = Leaf(Key(i), pl.shape)
        BY <2>7, <4>1
      <4>4. Item(i).kind = "leaf" /\ Item(i).path = Key(i)
        BY <4>3 DEF Leaf
      <4>5. Elements(Push(i).out) = {[key |-> Key(i), value |-> Key(i)]}
        BY <2>3, <3>1, <3>2, <4>4 DEF Pushes
      <4>6. True(key) \in Elements(results[i].out)
        BY <2>4, <4>2, <4>5 DEF True
      <4> QED BY <3>4, <4>6
    <3> QED BY <3>4, <3>5
  <2> QED BY <2>6, <2>9, <2>10
<1> QED BY <1>4, <1>11, <1>12, <1>13

\* What reading each member of the flat schema of a place's type gives.
ReadResults(message, pl, limit) ==
  Interpret(FlatSchema(pl.type).members, pl.path, message, limit, interpret_message)
AllRead(message, pl, limit) == \A g \in InlineFields[pl.type] : Reads(g, pl, message, limit)

\* The results are those of the inline fields.
AreReadings(results, message, pl, limit) ==
  /\ Len(FlatSchema(pl.type).members) \in Nat
  /\ results \in [1 .. Len(FlatSchema(pl.type).members) -> Result]
  /\ \A k \in 1 .. Len(FlatSchema(pl.type).members) :
       \E g \in InlineFields[pl.type] : results[k] = Reading(g, pl, message, limit)
  /\ \A g \in InlineFields[pl.type] :
       \E k \in 1 .. Len(FlatSchema(pl.type).members) :
         results[k] = Reading(g, pl, message, limit)

\* The results of the members are the readings of the inline fields.
LEMMA MembersRead ==
  ASSUME NEW message, NEW pl, Shows(message, pl), NEW limit \in Limit,
         AllRead(message, pl, limit)
  PROVE  AreReadings(ReadResults(message, pl, limit), message, pl, limit)
<1> DEFINE members == FlatSchema(pl.type).members
           n == Len(members)
           results == ReadResults(message, pl, limit)
           fields == InlineFields[pl.type]
<1>1. pl.type \in Types
  BY ShownTypes
<1>2. IsFlat(pl.type, <<>>, 0, members)
  BY <1>1, FlatSchemaIsFlat
<1>3. /\ members \in Seq(FlatMember)
      /\ \A g \in fields : \E k \in 1 .. n : members[k] = FlatOf(g, <<>>, 0)
      /\ \A k \in 1 .. n : \E g \in fields : members[k] = FlatOf(g, <<>>, 0)
  BY <1>2 DEF IsFlat
<1>4. n \in Nat
  BY <1>3
<1>5. results = [k \in 1 .. n |-> interpret_message[Call(members[k], pl.path, message, limit)]]
  BY DEF ReadResults, Interpret, Call
<1> HIDE DEF members, results
<1>6. \A k \in 1 .. n : results[k] = interpret_message[Call(members[k], pl.path, message, limit)]
  BY <1>5
<1>7. \A k \in 1 .. n : \E g \in fields : results[k] = Reading(g, pl, message, limit)
  BY <1>3, <1>6 DEF Reading
<1>8. \A g \in fields : \E k \in 1 .. n : results[k] = Reading(g, pl, message, limit)
  BY <1>3, <1>6 DEF Reading
<1>9. \A g \in fields : Reading(g, pl, message, limit) \in Result
  BY DEF AllRead, Reads
<1>10. \A k \in 1 .. n : results[k] \in Result
  BY <1>7, <1>9
<1>11. results \in [1 .. n -> Result]
  BY <1>5, <1>10
<1> QED BY <1>4, <1>7, <1>8, <1>11 DEF AreReadings, members, results

\* The units of a field are units of its place.
LEMMA UnitsOfField ==
  ASSUME NEW pl \in Place
  PROVE  /\ \A g \in InlineFields[pl.type] : UnitsOf(g, pl, Units) \subseteq Units[pl]
         /\ \A u \in Units[pl] : \E g \in InlineFields[pl.type] : u \in UnitsOf(g, pl, Units)
BY UnitsEquation DEF UnitsIn

\* A whole item: the first member that fails ends it.
LEMMA ItemReads ==
  ASSUME NEW message, NEW pl, Shows(message, pl), NEW limit \in Limit,
         AllRead(message, pl, limit), message.size = SizeOf(pl.type),
         NEW r, r = UntilFailure(ReadResults(message, pl, limit))
  PROVE  /\ r \in Result
         /\ Sound(Units[pl], limit, r)
         /\ Complete(Units[pl], pl.shape, limit, TRUE, r)
<1> DEFINE n == Len(FlatSchema(pl.type).members)
           results == ReadResults(message, pl, limit)
           fields == InlineFields[pl.type]
<1>1. pl \in Place /\ pl.type \in Types
  BY ShownTypes
<1>2. AreReadings(results, message, pl, limit)
  BY MembersRead
<1>3. n \in Nat /\ results \in [1 .. n -> Result]
  BY <1>2 DEF AreReadings
<1>4. \A k \in 1 .. n : \E g \in fields : results[k] = Reading(g, pl, message, limit)
  BY <1>2 DEF AreReadings
<1>5. \A g \in fields : \E k \in 1 .. n : results[k] = Reading(g, pl, message, limit)
  BY <1>2 DEF AreReadings
<1> HIDE DEF n, results
<1>6. /\ r \in Result
      /\ Elements(r.out) \subseteq UNION {Elements(results[k].out) : k \in 1 .. n}
      /\ (\A k \in 1 .. n : results[k].ok) =>
           r.ok /\ Elements(r.out) = UNION {Elements(results[k].out) : k \in 1 .. n}
  BY <1>3, UntilFailureFacts DEF results
<1>7. ASSUME NEW g \in fields
      PROVE  /\ Sound(UnitsOf(g, pl, Units), limit, Reading(g, pl, message, limit))
             /\ Complete(UnitsOf(g, pl, Units), pl.shape, limit, TRUE,
                         Reading(g, pl, message, limit))
  <2>1. Reads(g, pl, message, limit)
    BY DEF AllRead
  <2>2. g.base + g.own <= message.size
    BY <1>1, InlineFacts
  <2>3. Complete(UnitsOf(g, pl, Units), pl.shape, limit, g.base + g.own <= message.size,
                 Reading(g, pl, message, limit))
        /\ Sound(UnitsOf(g, pl, Units), limit, Reading(g, pl, message, limit))
    BY <2>1 DEF Reads
  <2> QED BY <2>2, <2>3 DEF Complete
<1>8. Sound(Units[pl], limit, r)
  <2> SUFFICES ASSUME NEW a \in Elements(r.out) PROVE \E u \in Units[pl] : Backed(a, u, limit)
    BY DEF Sound
  <2>1. PICK k \in 1 .. n : a \in Elements(results[k].out)
    BY <1>6
  <2>2. PICK g \in fields : results[k] = Reading(g, pl, message, limit)
    BY <1>4
  <2>3. PICK u \in UnitsOf(g, pl, Units) : Backed(a, u, limit)
    BY <1>7, <2>1, <2>2 DEF Sound
  <2> QED BY <1>1, <2>3, UnitsOfField
<1>9. Complete(Units[pl], pl.shape, limit, TRUE, r)
  <2> SUFFICES ASSUME \A u \in Units[pl] : ~Fails(u, pl.shape)
               PROVE  /\ r.ok
                      /\ \A u \in Units[pl] : Seen(u, limit) =>
                           \A key \in Keys(u) : True(key) \in Elements(r.out)
    BY DEF Complete
  <2>1. \A g \in fields : \A u \in UnitsOf(g, pl, Units) : ~Fails(u, pl.shape)
    BY <1>1, UnitsOfField
  <2>2. \A k \in 1 .. n : results[k].ok
    BY <1>4, <1>7, <2>1 DEF Complete
  <2>3. r.ok /\ Elements(r.out) = UNION {Elements(results[k].out) : k \in 1 .. n}
    BY <1>6, <2>2
  <2>4. ASSUME NEW u \in Units[pl], Seen(u, limit), NEW key \in Keys(u)
        PROVE  True(key) \in Elements(r.out)
    <3>1. PICK g \in fields : u \in UnitsOf(g, pl, Units)
      BY <1>1, UnitsOfField
    <3>2. True(key) \in Elements(Reading(g, pl, message, limit).out)
      BY <1>7, <2>1, <2>4, <3>1 DEF Complete
    <3>3. PICK k \in 1 .. n : results[k] = Reading(g, pl, message, limit)
      BY <1>5
    <3> QED BY <2>3, <3>2, <3>3
  <2> QED BY <2>3, <2>4
<1> QED BY <1>6, <1>8, <1>9

\* A sequence of messages, given that its items are read as they should be.
LEMMA MessagesRead ==
  ASSUME NEW message, NEW pl, Shows(message, pl), NEW g \in InlineFields[pl.type],
         NEW limit \in Limit, g.field.is_array, g.field.type_id = "message",
         NEW m, m = FlatOf(g, <<>>, 0),
         \A i \in 1 .. Items(g.field, pl.shape) :
           AllRead(MessageItem(m, message, i - 1), ItemPlace(g, pl, i - 1), limit)
  PROVE  Reads(g, pl, message, limit)
<1> DEFINE f == g.field
           r == Reading(g, pl, message, limit)
           units == UnitsOf(g, pl, Units)
           inside == g.base + g.own <= message.size
           count == item_count(m, message)
           n == Items(f, pl.shape)
           Item(i) == MessageItem(m, message, i - 1)
           At(i) == ItemPlace(g, pl, i - 1)
           Read(i) == UntilFailure(ReadResults(Item(i), At(i), limit))
           results == [i \in 1 .. n |-> Read(i)]
<1>1. /\ pl \in Place /\ pl.type \in Types /\ pl.path \in Path /\ message \in Message
      /\ message.size \in Nat /\ pl.shape \in MessageShapes
  BY ShownTypes
<1>2. /\ m.key = PathOf(g) /\ m.kind = "message_sequence" /\ m.message_schema = f.of
      /\ m.offset = g.base + g.own /\ m.has_get = f.has_get
      /\ m.array_size = f.array_size /\ m.is_upper_bound = f.is_upper_bound
  BY <1>1, FlatOfFacts
<1>3. FieldWithin(f, pl.type)
  BY <1>1, InlineFacts
<1>4. f.has_get /\ f.array_size \in 0 .. UsizeLimit - 1 /\ f.is_upper_bound \in BOOLEAN
  BY <1>1, <1>3, FieldTypes
<1>5. n \in 0 .. UsizeLimit - 1 /\ n \in Nat
  BY <1>1, <1>4, ItemsType
<1>6. count = n
  <2>1. CASE ~IsSequence(f)
    <3>1. n = f.array_size
      BY <2>1 DEF Items
    <3>2. Inline(m)
      BY <1>2, <1>4, <2>1 DEF Inline, IsSequence
    <3> QED BY <1>2, <3>1, <3>2 DEF item_count
  <2>2. CASE IsSequence(f)
    <3>1. WordAt(message, m.offset) = Header(pl.path \o PathOf(g), n, pl.lang)
      BY <1>2, <2>2, OwnWord
    <3>2. ~Inline(m)
      BY <1>2, <1>4, <2>2 DEF Inline, IsSequence
    <3>3. Header(pl.path \o PathOf(g), n, pl.lang).items = n
      <4> HIDE DEF n
      <4> QED BY DEF Header
    <3> QED BY <3>1, <3>2, <3>3 DEF item_count
  <2> QED BY <2>1, <2>2
<1>7. r = IF InSlice(m, message) THEN UntilFailure(results) ELSE Done(<<>>)
  <2> DEFINE x == Call(m, pl.path, message, limit)
             given == [i \in 1 .. count |->
                        UntilFailure(Interpret(FlatSchema(m.message_schema).members,
                           pl.path \o m.key \o <<Decimal[i - 1]>>,
                           MessageItem(m, message, i - 1), limit, interpret_message))]
  <2>1. r = InterpretMember(interpret_message, x)
    BY ReadingIsCall
  <2>2. x.member = m /\ x.prefix = pl.path /\ x.message = message /\ x.limit = limit
    BY DEF Call
  <2> HIDE DEF x, r
  <2>3. r = MessageSequenceInterpret(m, pl.path, message, limit, interpret_message)
    BY <1>2, <2>1, <2>2 DEF InterpretMember
  <2>4. r = for_each_item(m, message, given)
    BY <2>3 DEF MessageSequenceInterpret
  <2>5. given = results
    <3>1. ASSUME NEW i \in 1 .. n
          PROVE  /\ At(i).type = m.message_schema
                 /\ At(i).path = pl.path \o m.key \o <<Decimal[i - 1]>>
      BY <1>1, <1>2, ItemPlaceFacts
    <3>2. ASSUME NEW i \in 1 .. n
          PROVE  Read(i) =
                   UntilFailure(Interpret(FlatSchema(m.message_schema).members,
                           pl.path \o m.key \o <<Decimal[i - 1]>>,
                           MessageItem(m, message, i - 1), limit, interpret_message))
      BY <3>1 DEF ReadResults
    <3> HIDE DEF Read, n, count
    <3> QED BY <1>6, <3>2
  <2> HIDE DEF given, results
  <2> QED BY <1>2, <1>4, <2>4, <2>5 DEF for_each_item
<1>8. units = UNION {Units[At(i)] : i \in 1 .. n}
  BY DEF UnitsOf
<1>9. ASSUME NEW i \in 1 .. n
      PROVE  /\ Read(i) \in Result
             /\ Sound(Units[At(i)], limit, Read(i))
             /\ Complete(Units[At(i)], pl.shape, limit, TRUE, Read(i))
  <2> DEFINE item == Item(i)
             at == At(i)
  <2>1. Shows(item, at) /\ item.size = SizeOf(f.of)
    BY ItemShown
  <2>2. at.type = f.of /\ at.shape = pl.shape
    BY <1>1, ItemPlaceFacts
  <2>3. AllRead(item, at, limit)
    OBVIOUS
  <2> DEFINE one == UntilFailure(ReadResults(item, at, limit))
  <2> HIDE DEF item, at
  <2>4. item.size = SizeOf(at.type)
    BY <2>1, <2>2
  <2> HIDE DEF one
  <2>5. one \in Result /\ Sound(Units[at], limit, one) /\ Complete(Units[at], at.shape, limit, TRUE, one)
    BY <2>1, <2>3, <2>4, ItemReads DEF one
  <2>6. one \in Result /\ Sound(Units[at], limit, one) /\ Complete(Units[at], pl.shape, limit, TRUE, one)
    BY <2>2, <2>5
  <2> QED BY <2>6 DEF one, item, at
<1> HIDE DEF Read, At, n
<1> SUFFICES /\ r \in Result /\ Sound(units, limit, r)
             /\ Complete(units, pl.shape, limit, inside, r)
  BY DEF Reads
<1>10. CASE ~InSlice(m, message)
  <2>1. r = Done(<<>>)
    BY <1>7, <1>10
  <2>2. ~inside
    BY <1>2, <1>10 DEF InSlice
  <2> HIDE DEF r, units, inside
  <2> QED BY <2>1, <2>2, NothingRead
<1>11. CASE InSlice(m, message)
  <2>1. r = UntilFailure(results)
    BY <1>7, <1>11
  <2>2. results \in [1 .. n -> Result] /\ \A i \in 1 .. n : results[i] = Read(i)
    BY <1>9
  <2> HIDE DEF results, r, units, inside
  <2>3. /\ r \in Result
        /\ Elements(r.out) \subseteq UNION {Elements(results[i].out) : i \in 1 .. n}
        /\ (\A i \in 1 .. n : results[i].ok) =>
             r.ok /\ Elements(r.out) = UNION {Elements(results[i].out) : i \in 1 .. n}
    BY <1>5, <2>1, <2>2, UntilFailureFacts
  <2>4. Sound(units, limit, r)
    <3> SUFFICES ASSUME NEW a \in Elements(r.out) PROVE \E u \in units : Backed(a, u, limit)
      BY DEF Sound
    <3>1. PICK i \in 1 .. n : a \in Elements(results[i].out)
      BY <2>3
    <3>2. PICK u \in Units[At(i)] : Backed(a, u, limit)
      BY <1>9, <2>2, <3>1 DEF Sound
    <3> QED BY <1>8, <3>2
  <2>5. Complete(units, pl.shape, limit, inside, r)
    <3> SUFFICES ASSUME \A u \in units : ~Fails(u, pl.shape)
                 PROVE  /\ r.ok
                        /\ \A u \in units : Seen(u, limit) =>
                             \A key \in Keys(u) : True(key) \in Elements(r.out)
      BY DEF Complete
    <3>1. \A i \in 1 .. n : \A u \in Units[At(i)] : ~Fails(u, pl.shape)
      BY <1>8
    <3>2. \A i \in 1 .. n : results[i].ok
      BY <1>9, <2>2, <3>1 DEF Complete
    <3>3. r.ok /\ Elements(r.out) = UNION {Elements(results[i].out) : i \in 1 .. n}
      BY <2>3, <3>2
    <3>4. ASSUME NEW u \in units, Seen(u, limit), NEW key \in Keys(u)
          PROVE  True(key) \in Elements(r.out)
      <4>1. PICK i \in 1 .. n : u \in Units[At(i)]
        BY <1>8
      <4>2. True(key) \in Elements(Read(i).out)
        BY <1>9, <3>1, <3>4, <4>1 DEF Complete
      <4> QED BY <2>2, <3>3, <4>2
    <3> QED BY <3>3, <3>4
  <2> QED BY <2>3, <2>4, <2>5
<1> QED BY <1>10, <1>11

\* Reading a message by its flat schema, whatever its type, pushes what the
\* inline fields hold, and stops only at what fails.
THEOREM EveryFieldRead ==
  \A pl \in Place : \A message \in Message : \A limit \in Limit :
    Shows(message, pl) => AllRead(message, pl, limit)
<1> DEFINE Good(t) == \A pl \in Place : \A message \in Message : \A limit \in Limit :
                        pl.type = t /\ Shows(message, pl) => AllRead(message, pl, limit)
           T == {t \in Types : Good(t)}
<1>1. ASSUME NEW t \in Types, \A v \in Types : Depth[v] < Depth[t] => v \in T
      PROVE  t \in T
  <2> SUFFICES ASSUME NEW pl \in Place, NEW message \in Message, NEW limit \in Limit,
                      pl.type = t, Shows(message, pl), NEW g \in InlineFields[pl.type]
               PROVE  Reads(g, pl, message, limit)
    BY DEF AllRead
  <2>1. FieldWithin(g.field, t) /\ ~IsStruct(g.field)
    BY InlineFacts
  <2>2. CASE ~g.field.is_array
    BY <2>2, ScalarReads
  <2>3. CASE g.field.is_array /\ g.field.type_id # "message"
    BY <2>3, ArrayReads
  <2>4. CASE g.field.is_array /\ g.field.type_id = "message"
    <3> DEFINE m == FlatOf(g, <<>>, 0)
    <3>1. ASSUME NEW i \in 1 .. Items(g.field, pl.shape)
          PROVE  AllRead(MessageItem(m, message, i - 1), ItemPlace(g, pl, i - 1), limit)
      <4> DEFINE item == MessageItem(m, message, i - 1)
                 at == ItemPlace(g, pl, i - 1)
      <4>1. Shows(item, at)
        BY <2>4, ItemShown
      <4>2. at \in Place /\ at.type = g.field.of /\ g.field.of \in Types
            /\ Depth[g.field.of] < Depth[t]
        BY <2>4, ItemPlaceFacts
      <4>3. item \in Message
        BY <4>1 DEF Shows
      <4>4. Good(g.field.of)
        BY <1>1, <4>2
      <4> HIDE DEF item, at
      <4>5. AllRead(item, at, limit)
        BY <4>1, <4>2, <4>3, <4>4
      <4> QED BY <4>5 DEF item, at
    <3> HIDE DEF m
    <3> QED BY <2>4, <3>1, MessagesRead DEF m
  <2>5. g.field.is_array \in BOOLEAN
    BY <2>1, FieldTypes
  <2> QED BY <2>2, <2>3, <2>4, <2>5
<1>2. Depth \in [Types -> Nat] /\ T \in SUBSET Types
  BY FieldsAssumption
<1>3. T = Types
  <2> HIDE DEF T
  <2> QED BY <1>1, <1>2, TypeRecursion!RankInduction
<1>4. \A pl \in Place : pl.type \in Types
  BY DEF Place
<1> QED BY <1>3, <1>4

-----------------------------------------------------------------------------
(* Different units have paths that neither is the start of the other.       *)

\* Where both paths have a segment, it is the same.
Comparable(p, q) == \A k \in Nat \ {0} : k <= Len(p) /\ k <= Len(q) => p[k] = q[k]

\* Comparable paths with the same start have comparable rests,
LEMMA ComparableRest ==
  ASSUME NEW a \in Path, NEW p \in Path, NEW q \in Path, Comparable(a \o p, a \o q)
  PROVE  Comparable(p, q)
<1>1. a \in Seq(STRING) /\ p \in Seq(STRING) /\ q \in Seq(STRING)
  BY DEF Path
<1> DEFINE n == Len(a)
<1>2. n \in Nat /\ Len(p) \in Nat /\ Len(q) \in Nat
  BY <1>1
<1>3. ASSUME NEW s \in Seq(STRING)
      PROVE  /\ Len(a \o s) = n + Len(s)
             /\ \A k \in 1 .. Len(s) : (a \o s)[n + k] = s[k]
  <2>1. Len(a \o s) = n + Len(s) /\ Len(s) \in Nat
    BY <1>1
  <2>2. ASSUME NEW k \in 1 .. Len(s) PROVE (a \o s)[n + k] = s[k]
    <3>1. n + k \in 1 .. (n + Len(s)) /\ ~(n + k <= n) /\ (n + k) - n = k
      BY <1>2, <2>1
    <3> QED BY <1>1, <3>1
  <2> QED BY <2>1, <2>2
<1>4. ASSUME NEW k \in Nat \ {0}, k <= Len(p), k <= Len(q) PROVE p[k] = q[k]
  <2>1. k \in 1 .. Len(p) /\ k \in 1 .. Len(q)
    BY <1>2, <1>4
  <2>2. (a \o p)[n + k] = p[k] /\ (a \o q)[n + k] = q[k]
    BY <1>1, <1>3, <2>1
  <2>3. Len(a \o p) = n + Len(p) /\ Len(a \o q) = n + Len(q)
    BY <1>1, <1>3
  <2>4. n + k \in Nat \ {0} /\ n + k <= n + Len(p) /\ n + k <= n + Len(q)
    BY <1>2, <2>1
  <2>5. (a \o p)[n + k] = (a \o q)[n + k]
    BY <2>3, <2>4 DEF Comparable
  <2> QED BY <2>2, <2>5
<1> QED BY <1>4 DEF Comparable

\* and a common first segment.
LEMMA ComparableFirst ==
  ASSUME NEW x \in STRING, NEW y \in STRING, NEW p \in Path, NEW q \in Path,
         Comparable(<<x>> \o p, <<y>> \o q)
  PROVE  x = y
<1>1. p \in Seq(STRING) /\ q \in Seq(STRING)
  BY DEF Path
<1>2. (<<x>> \o p)[1] = x /\ Len(<<x>> \o p) = 1 + Len(p) /\ Len(p) \in Nat
  BY <1>1
<1>3. (<<y>> \o q)[1] = y /\ Len(<<y>> \o q) = 1 + Len(q) /\ Len(q) \in Nat
  BY <1>1
<1>4. 1 \in Nat \ {0} /\ 1 <= 1 + Len(p) /\ 1 <= 1 + Len(q)
  BY <1>2, <1>3
<1> QED BY <1>2, <1>3, <1>4 DEF Comparable

\* Prefixes of one key are comparable.
LEMMA PrefixesComparable ==
  ASSUME NEW key \in Path, NEW p \in Path, NEW q \in Path,
         IsPrefix(p, key), IsPrefix(q, key)
  PROVE  Comparable(p, q)
<1>1. key \in Seq(STRING) /\ p \in Seq(STRING) /\ q \in Seq(STRING)
  BY DEF Path
<1>2. ASSUME NEW s \in Seq(STRING), IsPrefix(s, key)
      PROVE  \A k \in 1 .. Len(s) : s[k] = key[k]
  <2>1. Len(s) \in Nat /\ Len(key) \in Nat /\ Len(s) <= Len(key)
        /\ SubSeq(s, 1, Len(s)) = SubSeq(key, 1, Len(s))
    BY <1>1, <1>2 DEF IsPrefix
  <2>2. ASSUME NEW k \in 1 .. Len(s)
        PROVE  SubSeq(s, 1, Len(s))[k] = s[k] /\ SubSeq(key, 1, Len(s))[k] = key[k]
    <3>1. SubSeq(s, 1, Len(s)) = s
      BY <2>1
    <3>2. \A j \in 1 .. Len(s) : j \in 1 .. Len(key)
      BY <2>1
    <3>3. SubSeq(key, 1, Len(s))[k] = key[k]
      BY <1>1, <2>1, <3>2
    <3> QED BY <3>1, <3>3
  <2> QED BY <2>1, <2>2
<1>3. ASSUME NEW k \in Nat \ {0}, k <= Len(p), k <= Len(q) PROVE p[k] = q[k]
  <2>1. k \in 1 .. Len(p) /\ k \in 1 .. Len(q)
    BY <1>1, <1>3
  <2> QED BY <1>1, <1>2, <2>1
<1> QED BY <1>3 DEF Comparable

\* A path is the start of what it is lengthened to.
LEMMA PrefixOfLonger ==
  ASSUME NEW p \in Path, NEW q \in Path
  PROVE  IsPrefix(p, p \o q)
<1>1. p \in Seq(STRING) /\ q \in Seq(STRING)
  BY DEF Path
<1>2. Len(p) \in Nat /\ Len(p \o q) = Len(p) + Len(q) /\ Len(q) \in Nat
  BY <1>1
<1>3. Len(p) <= Len(p \o q)
  BY <1>2
<1>4. SubSeq(p, 1, Len(p)) = p
  BY <1>1
<1>5. SubSeq(p \o q, 1, Len(p)) = p
  <2> DEFINE s == SubSeq(p \o q, 1, Len(p))
  <2>1. s = [k \in 1 .. Len(p) |-> (p \o q)[k]]
    BY <1>1, <1>2
  <2>2. \A k \in 1 .. Len(p) : (p \o q)[k] = p[k]
    BY <1>1
  <2>3. p = [k \in 1 .. Len(p) |-> p[k]]
    BY <1>1
  <2> HIDE DEF s
  <2> QED BY <2>1, <2>2, <2>3 DEF s
<1> QED BY <1>3, <1>4, <1>5 DEF IsPrefix

\* What a field's path begins with, and what follows.
Heads(t, n, g, tail) ==
  /\ Fields[t][n].name \in STRING /\ tail \in Path /\ PathOf(g) = <<Fields[t][n].name>> \o tail
  /\ \/ ~IsStruct(Fields[t][n]) /\ g = Direct(t, n)
     \/ /\ IsStruct(Fields[t][n])
        /\ \E h \in InlineFields[Fields[t][n].of] : g = InStruct(t, n, h) /\ tail = PathOf(h)

\* The path of an inline field begins with the name of a field of the type.
LEMMA FieldHeads ==
  ASSUME NEW t \in Types, NEW g \in InlineFields[t]
  PROVE  \E n \in 1 .. Len(Fields[t]) : \E tail \in Path : Heads(t, n, g, tail)
<1>1. PICK n \in 1 .. Len(Fields[t]) :
        \/ ~IsStruct(Fields[t][n]) /\ g = Direct(t, n)
        \/ /\ IsStruct(Fields[t][n])
           /\ \E h \in InlineFields[Fields[t][n].of] : g = InStruct(t, n, h)
  BY InlineCases
<1> DEFINE name == Fields[t][n].name
<1>2. name \in STRING
  BY FieldFacts DEF Field
<1>3. <<>> \in Path /\ <<name>> \in Path
  BY <1>2, AppendType DEF Path
<1>4. CASE ~IsStruct(Fields[t][n]) /\ g = Direct(t, n)
  <2>1. PathOf(g) = Append(<<>>, name)
    BY <1>4 DEF Direct, PathOf
  <2>2. PathOf(g) = <<name>> \o <<>>
    BY <1>2, <1>3, <2>1, PathFacts
  <2>3. Heads(t, n, g, <<>>)
    BY <1>2, <1>3, <1>4, <2>2 DEF Heads
  <2> QED BY <1>3, <2>3
<1>5. CASE IsStruct(Fields[t][n]) /\ \E h \in InlineFields[Fields[t][n].of] : g = InStruct(t, n, h)
  <2>1. PICK h \in InlineFields[Fields[t][n].of] : g = InStruct(t, n, h)
    BY <1>5
  <2>2. Fields[t][n].of \in Types
    BY <1>5, StructFacts
  <2>3. h.struct \in Path /\ h.field.name \in STRING /\ PathOf(h) = h.struct \o <<h.field.name>>
        /\ PathOf(h) \in Path
    BY <2>2, InlineFacts
  <2>4. PathOf(g) = g.struct \o <<g.field.name>>
    BY InlineFacts
  <2>5. g.struct = <<name>> \o h.struct /\ g.field = h.field
    BY <2>1 DEF InStruct
  <2> HIDE DEF name
  <2>6. <<h.field.name>> \in Path
    BY <2>3, PathFacts
  <2> DEFINE first == <<name>>
             last == <<h.field.name>>
  <2>7. PathOf(g) = first \o PathOf(h)
    <3>1. first \in Path /\ last \in Path /\ PathOf(h) = h.struct \o last
          /\ PathOf(g) = (first \o h.struct) \o last
      BY <1>3, <2>3, <2>4, <2>5, <2>6 DEF name
    <3> HIDE DEF first, last
    <3>2. (first \o h.struct) \o last = first \o (h.struct \o last)
      <4>1. Regrouped(first, h.struct, last)
        BY <2>3, <3>1, PathAssociative
      <4> QED BY <2>3, <3>1, <4>1 DEF Regrouped
    <3> QED BY <3>1, <3>2
  <2>8. Heads(t, n, g, PathOf(h))
    BY <1>2, <1>5, <2>1, <2>3, <2>7 DEF Heads, name
  <2> QED BY <2>3, <2>8
<1> QED BY <1>1, <1>4, <1>5

PathsDiffer(t) ==
  \A g, h \in InlineFields[t] : \A p, q \in Path :
    Comparable(PathOf(g) \o p, PathOf(h) \o q) => g = h

\* No inline field has a path that continues that of another one.
LEMMA InlinePathsDiffer == \A t \in Types : PathsDiffer(t)
<1> DEFINE T == {t \in Types : PathsDiffer(t)}
<1>1. ASSUME NEW t \in Types, \A v \in Types : Depth[v] < Depth[t] => v \in T
      PROVE  t \in T
  <2> SUFFICES ASSUME NEW g \in InlineFields[t], NEW h \in InlineFields[t],
                      NEW p \in Path, NEW q \in Path,
                      Comparable(PathOf(g) \o p, PathOf(h) \o q)
               PROVE  g = h
    BY DEF PathsDiffer
  <2>1. PICK n \in 1 .. Len(Fields[t]) : \E tail \in Path : Heads(t, n, g, tail)
    BY FieldHeads
  <2>2. PICK a \in Path : Heads(t, n, g, a)
    BY <2>1
  <2>3. PICK k \in 1 .. Len(Fields[t]) : \E tail \in Path : Heads(t, k, h, tail)
    BY FieldHeads
  <2>4. PICK b \in Path : Heads(t, k, h, b)
    BY <2>3
  <2> DEFINE x == Fields[t][n].name
             y == Fields[t][k].name
  <2>5. x \in STRING /\ y \in STRING /\ PathOf(g) = <<x>> \o a /\ PathOf(h) = <<y>> \o b
    BY <2>2, <2>4 DEF Heads
  <2>6. <<x>> \in Path /\ <<y>> \in Path /\ a \o p \in Path /\ b \o q \in Path
    BY <2>5, PathFacts
  <2>7. Comparable(<<x>> \o (a \o p), <<y>> \o (b \o q))
    <3> DEFINE first == <<x>>
               other == <<y>>
    <3>1. first \in Path /\ other \in Path /\ PathOf(g) = first \o a /\ PathOf(h) = other \o b
      BY <2>5, <2>6
    <3> HIDE DEF first, other
    <3>2. (first \o a) \o p = first \o (a \o p) /\ (other \o b) \o q = other \o (b \o q)
      <4>1. Regrouped(first, a, p)
        BY <3>1, PathAssociative
      <4>2. Regrouped(other, b, q)
        BY <3>1, PathAssociative
      <4> QED BY <3>1, <4>1, <4>2 DEF Regrouped
    <3>3. Comparable(first \o (a \o p), other \o (b \o q))
      BY <3>1, <3>2
    <3> QED BY <3>3 DEF first, other
  <2>8. x = y
    <3> HIDE DEF x, y
    <3> QED BY <2>5, <2>6, <2>7, ComparableFirst
  <2>9. n = k
    BY <2>8, FieldsAssumption
  <2>10. Comparable(a \o p, b \o q)
    <3> HIDE DEF x, y
    <3> QED BY <2>6, <2>7, <2>8, ComparableRest
  <2>11. CASE ~IsStruct(Fields[t][n])
    BY <2>2, <2>4, <2>9, <2>11 DEF Heads
  <2>12. CASE IsStruct(Fields[t][n])
    <3> DEFINE v == Fields[t][n].of
    <3>1. v \in Types /\ Depth[v] < Depth[t]
      BY <2>12, StructFacts
    <3>2. PICK g1 \in InlineFields[v] : g = InStruct(t, n, g1) /\ a = PathOf(g1)
      BY <2>2, <2>12 DEF Heads
    <3>3. PICK h1 \in InlineFields[v] : h = InStruct(t, n, h1) /\ b = PathOf(h1)
      BY <2>4, <2>9, <2>12 DEF Heads
    <3>4. PathsDiffer(v)
      BY <1>1, <3>1
    <3>5. g1 = h1
      BY <2>10, <3>2, <3>3, <3>4 DEF PathsDiffer
    <3> QED BY <3>2, <3>3, <3>5
  <2> QED BY <2>11, <2>12
<1>2. Depth \in [Types -> Nat] /\ T \in SUBSET Types
  BY FieldsAssumption
<1>3. T = Types
  <2> HIDE DEF T
  <2> QED BY <1>1, <1>2, TypeRecursion!RankInduction
<1> QED BY <1>3

\* A unit of a field: what it says of itself, and that it lies under the field.
IsUnit(u, p) ==
  /\ u.path \in Path /\ u.is_array \in BOOLEAN /\ u.misread \in BOOLEAN /\ u.len \in Nat
  /\ u.is_array => u.len \in 0 .. UsizeLimit - 1
  /\ u.path # <<>>
  /\ \E rest \in Path : u.path = p \o rest

\* The unit of a field lies under it.
LEMMA OwnUnit ==
  ASSUME NEW pl \in Place, NEW g \in InlineFields[pl.type]
  PROVE  IsUnit(Unit(g, pl), pl.path \o PathOf(g))
<1> DEFINE u == Unit(g, pl)
           here == pl.path \o PathOf(g)
<1>1. pl.type \in Types /\ pl.path \in Path /\ pl.shape \in MessageShapes
  BY DEF Place
<1>2. PathOf(g) \in Path /\ PathOf(g) # <<>> /\ g.base \in Nat /\ FieldWithin(g.field, pl.type)
  BY <1>1, InlineFacts
<1>3. g.field.is_array \in BOOLEAN /\ g.field.array_size \in 0 .. UsizeLimit - 1
  BY <1>1, <1>2, FieldTypes
<1>4. Items(g.field, pl.shape) \in 0 .. UsizeLimit - 1
  BY <1>1, <1>3, ItemsType
<1>5. /\ u.path = here /\ u.is_array = g.field.is_array /\ u.misread \in BOOLEAN
      /\ u.len = IF g.field.is_array THEN Items(g.field, pl.shape) ELSE 1
  BY DEF Unit
<1>6. here \in Path /\ <<>> \in Path /\ here = here \o <<>> /\ here # <<>>
  <2>1. here \in Path /\ <<>> \in Path
    BY <1>1, <1>2, PathFacts
  <2>2. here # <<>>
    BY <1>1, <1>2 DEF Path
  <2> HIDE DEF here
  <2> QED BY <2>1, <2>2, PathFacts
<1> HIDE DEF u, here
<1>7. u.len \in Nat /\ (u.is_array => u.len \in 0 .. UsizeLimit - 1)
  BY <1>3, <1>4, <1>5
<1>8. IsUnit(u, here)
  BY <1>3, <1>5, <1>6, <1>7 DEF IsUnit
<1> QED BY <1>8 DEF u, here

AreUnits(pl) ==
  \A g \in InlineFields[pl.type] : \A u \in UnitsOf(g, pl, Units) : IsUnit(u, pl.path \o PathOf(g))

\* Every unit of a field lies under its path.
LEMMA UnitTypes == \A pl \in Place : AreUnits(pl)
<1> DEFINE Good(t) == \A pl \in Place : pl.type = t => AreUnits(pl)
           T == {t \in Types : Good(t)}
<1>1. ASSUME NEW t \in Types, \A v \in Types : Depth[v] < Depth[t] => v \in T
      PROVE  t \in T
  <2> SUFFICES ASSUME NEW pl \in Place, pl.type = t, NEW g \in InlineFields[pl.type],
                      NEW u \in UnitsOf(g, pl, Units)
               PROVE  IsUnit(u, pl.path \o PathOf(g))
    BY DEF AreUnits
  <2>1. CASE g.field.type_id # "message"
    BY <2>1, OwnUnit DEF UnitsOf
  <2>2. CASE g.field.type_id = "message"
    <3>1. PICK i \in 1 .. Items(g.field, pl.shape) : u \in Units[ItemPlace(g, pl, i - 1)]
      BY <2>2 DEF UnitsOf
    <3> DEFINE at == ItemPlace(g, pl, i - 1)
               here == pl.path \o PathOf(g)
               index == <<Decimal[i - 1]>>
    <3>2. at \in Place /\ at.type \in Types /\ Depth[at.type] < Depth[t] /\ at.path = here \o index
      BY <2>2, ItemPlaceFacts
    <3>3. here \in Path /\ index \in Path
      <4>1. pl.type \in Types /\ pl.path \in Path /\ pl.shape \in MessageShapes
        BY DEF Place
      <4>2. PathOf(g) \in Path /\ FieldWithin(g.field, pl.type)
        BY <4>1, InlineFacts
      <4>3. Items(g.field, pl.shape) \in 0 .. UsizeLimit - 1
        BY <4>1, <4>2, FieldTypes, ItemsType
      <4>4. Decimal[i - 1] \in STRING
        BY <4>3, IndexFacts
      <4>5. <<Decimal[i - 1]>> \in Path
        BY <4>4, AppendType DEF Path
      <4> QED BY <4>1, <4>2, <4>5, PathFacts
    <3> HIDE DEF at
    <3>4. AreUnits(at)
      BY <1>1, <3>2
    <3>5. PICK h \in InlineFields[at.type] : u \in UnitsOf(h, at, Units)
      BY <3>1, <3>2, UnitsOfField DEF at
    <3>6. IsUnit(u, at.path \o PathOf(h))
      BY <3>4, <3>5 DEF AreUnits
    <3>7. PICK rest \in Path : u.path = (at.path \o PathOf(h)) \o rest
      BY <3>6 DEF IsUnit
    <3>8. PathOf(h) \in Path
      BY <3>2, InlineFacts
    <3> HIDE DEF here, index
    <3>9. u.path = here \o (index \o (PathOf(h) \o rest))
          /\ index \o (PathOf(h) \o rest) \in Path
      <4>1. PathOf(h) \o rest \in Path /\ here \o index \in Path
        BY <3>3, <3>8, PathFacts
      <4>2. (at.path \o PathOf(h)) \o rest = (here \o index) \o (PathOf(h) \o rest)
        <5>1. Regrouped(here \o index, PathOf(h), rest)
          BY <3>2, <3>8, <4>1, PathAssociative
        <5> QED BY <3>2, <3>8, <4>1, <5>1 DEF Regrouped
      <4>3. (here \o index) \o (PathOf(h) \o rest) = here \o (index \o (PathOf(h) \o rest))
        <5>1. Regrouped(here, index, PathOf(h) \o rest)
          BY <3>3, <4>1, PathAssociative
        <5> QED BY <3>3, <4>1, <5>1 DEF Regrouped
      <4>4. index \o (PathOf(h) \o rest) \in Path
        BY <3>3, <4>1, PathFacts
      <4> QED BY <3>7, <4>2, <4>3, <4>4
    <3>10. IsUnit(u, here)
      BY <3>6, <3>9 DEF IsUnit
    <3> QED BY <3>10 DEF here
  <2> QED BY <2>1, <2>2
<1>2. Depth \in [Types -> Nat] /\ T \in SUBSET Types
  BY FieldsAssumption
<1>3. T = Types
  <2> HIDE DEF T
  <2> QED BY <1>1, <1>2, TypeRecursion!RankInduction
<1>4. \A pl \in Place : pl.type \in Types
  BY DEF Place
<1> QED BY <1>3, <1>4

\* Four paths in a row, joined from the left or from the right.
Regroups(a, b, c, d) ==
  /\ ((a \o b) \o c) \o d = a \o (b \o (c \o d))
  /\ b \o (c \o d) \in Path /\ c \o d \in Path

\* Four paths regroup.
LEMMA FourPaths ==
  ASSUME NEW a \in Path, NEW b \in Path, NEW c \in Path, NEW d \in Path
  PROVE  Regroups(a, b, c, d)
<1>1. a \o b \in Path /\ c \o d \in Path
  BY PathFacts
<1>2. b \o (c \o d) \in Path
  BY <1>1, PathFacts
<1>3. ((a \o b) \o c) \o d = (a \o b) \o (c \o d)
  <2>1. Regrouped(a \o b, c, d)
    BY <1>1, PathAssociative
  <2> QED BY <1>1, <2>1 DEF Regrouped
<1>4. (a \o b) \o (c \o d) = a \o (b \o (c \o d))
  <2>1. Regrouped(a, b, c \o d)
    BY <1>1, PathAssociative
  <2> QED BY <1>1, <2>1 DEF Regrouped
<1> QED BY <1>1, <1>2, <1>3, <1>4 DEF Regroups

\* The unit of a place lies under it.
LEMMA UnitUnder ==
  ASSUME NEW pl \in Place, NEW u \in Units[pl]
  PROVE  u.path \in Path /\ \E rest \in Path : u.path = pl.path \o rest
<1>1. PICK g \in InlineFields[pl.type] : u \in UnitsOf(g, pl, Units)
  BY UnitsOfField
<1>2. IsUnit(u, pl.path \o PathOf(g))
  BY <1>1, UnitTypes DEF AreUnits
<1>3. PICK rest \in Path : u.path = (pl.path \o PathOf(g)) \o rest
  BY <1>2 DEF IsUnit
<1>4. pl.path \in Path /\ pl.type \in Types
  BY DEF Place
<1>5. PathOf(g) \in Path
  BY <1>4, InlineFacts
<1>6. u.path = pl.path \o (PathOf(g) \o rest)
  <2>1. Regrouped(pl.path, PathOf(g), rest)
    BY <1>3, <1>4, <1>5, PathAssociative
  <2> QED BY <1>3, <1>4, <1>5, <2>1 DEF Regrouped
<1>7. PathOf(g) \o rest \in Path
  BY <1>5, PathFacts
<1> QED BY <1>2, <1>6, <1>7 DEF IsUnit

UnitsDiffer(pl) ==
  \A u, v \in Units[pl] : \A p, q \in Path : Comparable(u.path \o p, v.path \o q) => u = v

\* No unit has a path that continues that of another one.
LEMMA UnitPathsDiffer == \A pl \in Place : UnitsDiffer(pl)
<1> DEFINE Good(t) == \A pl \in Place : pl.type = t => UnitsDiffer(pl)
           T == {t \in Types : Good(t)}
<1>1. ASSUME NEW t \in Types, \A v \in Types : Depth[v] < Depth[t] => v \in T
      PROVE  t \in T
  <2> SUFFICES ASSUME NEW pl \in Place, pl.type = t,
                      NEW u \in Units[pl], NEW v \in Units[pl], NEW p \in Path, NEW q \in Path,
                      Comparable(u.path \o p, v.path \o q)
               PROVE  u = v
    BY DEF UnitsDiffer
  <2>1. pl.path \in Path /\ pl.shape \in MessageShapes
    BY DEF Place
  <2>2. PICK g \in InlineFields[t] : u \in UnitsOf(g, pl, Units)
    BY UnitsOfField
  <2>3. PICK h \in InlineFields[t] : v \in UnitsOf(h, pl, Units)
    BY UnitsOfField
  <2>4. IsUnit(u, pl.path \o PathOf(g)) /\ IsUnit(v, pl.path \o PathOf(h))
    BY <2>2, <2>3, UnitTypes DEF AreUnits
  <2>5. PICK a \in Path : u.path = (pl.path \o PathOf(g)) \o a
    BY <2>4 DEF IsUnit
  <2>6. PICK b \in Path : v.path = (pl.path \o PathOf(h)) \o b
    BY <2>4 DEF IsUnit
  <2>7. PathOf(g) \in Path /\ PathOf(h) \in Path /\ FieldWithin(g.field, t)
    BY InlineFacts
  <2>8. Comparable(PathOf(g) \o (a \o p), PathOf(h) \o (b \o q))
        /\ a \o p \in Path /\ b \o q \in Path
    <3> DEFINE here == pl.path
               x == PathOf(g)
               y == PathOf(h)
    <3>1. here \in Path /\ x \in Path /\ y \in Path
          /\ a \in Path /\ b \in Path /\ p \in Path /\ q \in Path
          /\ u.path = (here \o x) \o a /\ v.path = (here \o y) \o b
      BY <2>1, <2>5, <2>6, <2>7
    <3> HIDE DEF here, x, y
    <3>2. Regroups(here, x, a, p) /\ Regroups(here, y, b, q)
      BY <3>1, FourPaths
    <3>3. Comparable(here \o (x \o (a \o p)), here \o (y \o (b \o q)))
      BY <3>1, <3>2 DEF Regroups
    <3>4. /\ x \o (a \o p) \in Path /\ y \o (b \o q) \in Path
          /\ a \o p \in Path /\ b \o q \in Path
      BY <3>2 DEF Regroups
    <3>5. Comparable(x \o (a \o p), y \o (b \o q))
      BY <3>1, <3>3, <3>4, ComparableRest
    <3> QED BY <3>4, <3>5 DEF x, y
  <2>9. g = h
    BY <2>8, InlinePathsDiffer DEF PathsDiffer
  <2>10. CASE g.field.type_id # "message"
    BY <2>2, <2>3, <2>9, <2>10 DEF UnitsOf
  <2>11. CASE g.field.type_id = "message"
    <3>1. PICK i \in 1 .. Items(g.field, pl.shape) : u \in Units[ItemPlace(g, pl, i - 1)]
      BY <2>2, <2>11 DEF UnitsOf
    <3>2. PICK j \in 1 .. Items(g.field, pl.shape) : v \in Units[ItemPlace(g, pl, j - 1)]
      BY <2>3, <2>9, <2>11 DEF UnitsOf
    <3> DEFINE here == pl.path \o PathOf(g)
               at == ItemPlace(g, pl, i - 1)
               bt == ItemPlace(g, pl, j - 1)
               x == Decimal[i - 1]
               y == Decimal[j - 1]
    <3>3. Items(g.field, pl.shape) \in 0 .. UsizeLimit - 1
      BY <2>1, <2>7, FieldTypes, ItemsType
    <3>4. x \in STRING /\ y \in STRING
          /\ i - 1 \in 0 .. UsizeLimit - 1 /\ j - 1 \in 0 .. UsizeLimit - 1
      BY <3>3, IndexFacts
    <3>5. /\ at \in Place /\ at.type \in Types /\ Depth[at.type] < Depth[t]
          /\ at.path = here \o <<x>>
          /\ bt \in Place /\ bt.path = here \o <<y>>
      BY <2>11, ItemPlaceFacts
    <3>6. PICK c \in Path : u.path = at.path \o c
      BY <3>1, <3>5, UnitUnder
    <3>7. PICK d \in Path : v.path = bt.path \o d
      BY <3>2, <3>5, UnitUnder
    <3> DEFINE first == <<x>>
               other == <<y>>
    <3>8. /\ first \in Path /\ other \in Path /\ here \in Path
          /\ c \in Path /\ d \in Path /\ p \in Path /\ q \in Path
      BY <2>1, <2>7, <3>4, <3>6, <3>7, PathFacts
    <3>9. u.path = (here \o first) \o c /\ v.path = (here \o other) \o d
      BY <3>5, <3>6, <3>7
    <3>10. Comparable(first \o (c \o p), other \o (d \o q))
      <4> HIDE DEF first, other, here, at, bt
      <4>1. Regroups(here, first, c, p) /\ Regroups(here, other, d, q)
        BY <3>8, FourPaths
      <4>2. Comparable(here \o (first \o (c \o p)), here \o (other \o (d \o q)))
        BY <3>9, <4>1 DEF Regroups
      <4>3. first \o (c \o p) \in Path /\ other \o (d \o q) \in Path
        BY <4>1 DEF Regroups
      <4> QED BY <3>8, <4>2, <4>3, ComparableRest
    <3>11. x = y
      <4>1. c \o p \in Path /\ d \o q \in Path
        BY PathFacts
      <4> HIDE DEF x, y
      <4> QED BY <3>4, <3>10, <4>1, ComparableFirst
    <3>12. i = j
      <4>1. i - 1 = j - 1
        BY <3>4, <3>11, MemoryAssumption
      <4> QED BY <4>1
    <3>13. UnitsDiffer(at)
      <4> HIDE DEF at
      <4> QED BY <1>1, <3>5
    <3>14. u \in Units[at] /\ v \in Units[at]
      BY <3>1, <3>2, <3>12
    <3> HIDE DEF at
    <3> QED BY <3>13, <3>14 DEF UnitsDiffer
  <2> QED BY <2>10, <2>11
<1>2. Depth \in [Types -> Nat] /\ T \in SUBSET Types
  BY FieldsAssumption
<1>3. T = Types
  <2> HIDE DEF T
  <2> QED BY <1>1, <1>2, TypeRecursion!RankInduction
<1>4. \A pl \in Place : pl.type \in Types
  BY DEF Place
<1> QED BY <1>3, <1>4

\* At most one unit has a path that a key begins with.
LEMMA OneUnitPerKey ==
  ASSUME NEW pl \in Place, NEW u \in Units[pl], NEW v \in Units[pl], NEW key \in Path,
         IsPrefix(u.path, key), IsPrefix(v.path, key)
  PROVE  u = v
<1>1. u.path \in Path /\ v.path \in Path
  BY UnitUnder
<1>2. Comparable(u.path, v.path)
  BY <1>1, PrefixesComparable
<1>3. <<>> \in Path /\ u.path \o <<>> = u.path /\ v.path \o <<>> = v.path
  BY <1>1, PathFacts
<1>4. Comparable(u.path \o <<>>, v.path \o <<>>)
  BY <1>2, <1>3
<1>5. UnitsDiffer(pl)
  BY UnitPathsDiffer
<1> QED BY <1>3, <1>4, <1>5 DEF UnitsDiffer

-----------------------------------------------------------------------------
(* Whatever is interpreted, what is pushed are attributes.                  *)

\* The call for member n of the schema of item i of a sequence of messages.
InnerCall(x, i, n) ==
  Call(FlatSchema(x.member.message_schema).members[n],
       x.prefix \o x.member.key \o <<Decimal[i - 1]>>,
       MessageItem(x.member, x.message, i - 1), x.limit)

\* The members of an item are interpreted with arguments of lower rank.
LEMMA InnerCallType ==
  ASSUME NEW x \in Interpretation, x.member.kind = "message_sequence",
         NEW i \in 1 .. item_count(x.member, x.message),
         NEW n \in 1 .. Len(FlatSchema(x.member.message_schema).members)
  PROVE  InnerCall(x, i, n) \in Interpretation /\ InterpretRank[InnerCall(x, i, n)] < InterpretRank[x]
<1> DEFINE m == x.member
           t == m.message_schema
           members == FlatSchema(t).members
           y == InnerCall(x, i, n)
           path == x.prefix \o m.key \o <<Decimal[i - 1]>>
           item == MessageItem(m, x.message, i - 1)
<1>1. m \in FlatMember /\ x.message \in Message /\ x.prefix \in Path /\ x.limit \in Nat
  BY DEF Interpretation
<1>2. t \in Types
  BY <1>1, MemberFacts
<1>3. path \in Path /\ item \in Message
  BY <1>1, MessageItemType
<1>4. PICK k \in InlineFields[t] : members[n] = FlatOf(k, <<>>, 0)
  BY <1>2, FlatSchemaIsFlat DEF IsFlat
<1>5. /\ members[n] \in FlatMember
      /\ members[n].kind = "message_sequence" =>
           members[n].message_schema \in Types /\ Depth[members[n].message_schema] < Depth[t]
  BY <1>2, <1>4, InnerRank
<1>6. y = Call(members[n], path, item, x.limit)
  BY DEF InnerCall
<1> HIDE DEF members, path, item, y
<1>7. y \in Interpretation /\ y.member = members[n]
  BY <1>1, <1>3, <1>5, <1>6 DEF Call, Interpretation
<1>8. InterpretRank[x] = Depth[t] + 1
      /\ InterpretRank[y] = IF members[n].kind = "message_sequence"
                              THEN Depth[members[n].message_schema] + 1 ELSE 0
  BY <1>7 DEF InterpretRank
<1>9. Depth[t] \in Nat
      /\ (members[n].kind = "message_sequence" => Depth[members[n].message_schema] \in Nat)
  BY <1>2, <1>5, FieldsAssumption
<1>10. InterpretRank[y] < InterpretRank[x]
  BY <1>5, <1>8, <1>9
<1> QED BY <1>7, <1>10 DEF y

\* Reading a scalar gives a result,
LEMMA ScalarResult ==
  ASSUME NEW m \in FlatMember, m.kind = "scalar", NEW prefix \in Path, NEW message \in Message
  PROVE  ScalarInterpret(m, prefix, message) \in Result
<1>1. m.key \in Path /\ m.offset \in Nat
  BY MemberFacts
<1>2. prefix \o m.key \in Path
  BY <1>1, PathFacts
<1> DEFINE word == WordAt(message, m.offset)
           key == prefix \o m.key
           r == PushValue(key, ros_to_attr_val(m.type_id, word))
<1>3. word \in Word
  BY <1>1, WordFacts
<1> HIDE DEF word, key
<1>4. Pushes(key, m.type_id, word, r)
  BY <1>2, <1>3, PushFacts DEF key
<1>5. r \in Result /\ Done(<<>>) \in Result
  BY <1>4, NothingPushed, ResultFacts DEF Pushes
<1> QED BY <1>5 DEF ScalarInterpret, key, word

\* so does reading an array of scalars,
LEMMA ArrayType ==
  ASSUME NEW m \in FlatMember, m.kind = "scalar_array", NEW prefix \in Path,
         NEW message \in Message, NEW limit \in Limit
  PROVE  ScalarArrayInterpret(m, prefix, message, limit) \in Result
<1> DEFINE len == scalar_array_len(m, message)
           Key(i) == prefix \o m.key \o <<Decimal[i - 1]>>
           Item(i) == ScalarItem(m, message, i - 1)
           Push(i) == PushValue(Key(i), ros_to_attr_val(m.type_id, Item(i)))
           results == [i \in 1 .. len |-> Push(i)]
           r == ScalarArrayInterpret(m, prefix, message, limit)
<1>1. Done(<<>>) \in Result /\ Failed(<<>>) \in Result
  BY NothingPushed, ResultFacts
<1>2. len \in Nat
  <2>1. 0 \in 0 .. UsizeLimit - 1 /\ 0 \in Nat
    BY DefaultsAreNumbers
  <2>2. Decimal[0] \in STRING
    BY <2>1, DecimalFacts
  <2> QED BY <2>1, <2>2, ItemWordFacts
<1>3. CASE ~InSlice(m, message) \/ TooLong(len, limit)
  <2>1. r = Done(<<>>)
    BY <1>3 DEF ScalarArrayInterpret, ReadItems
  <2> QED BY <1>1, <2>1
<1>4. CASE InSlice(m, message) /\ ~TooLong(len, limit) /\ ~m.has_get
  <2>1. r = Failed(<<>>)
    BY <1>4 DEF ScalarArrayInterpret, ReadItems
  <2> QED BY <1>1, <2>1
<1>5. CASE InSlice(m, message) /\ ~TooLong(len, limit) /\ m.has_get
  <2>1. r = UntilFailure(results)
    BY <1>5 DEF ScalarArrayInterpret, ReadItems
  <2>2. len \in 0 .. UsizeLimit - 1
    <3>1. ~(len > limit) /\ limit \in 0 .. UsizeLimit - 1 /\ UsizeLimit \in Nat
      BY <1>5, DefaultsAreNumbers DEF TooLong, Limit
    <3> HIDE DEF len
    <3> QED BY <1>2, <3>1
  <2>3. ASSUME NEW i \in 1 .. len PROVE Push(i) \in Result
    <3> DEFINE n == i - 1
    <3>1. n \in Nat /\ Decimal[n] \in STRING
      BY <2>2, IndexFacts
    <3>2. Key(i) \in Path
      <4>1. <<Decimal[n]>> \in Path /\ m.key \in Path
        BY <3>1, AppendType, MemberFacts DEF Path
      <4>2. prefix \o m.key \in Path
        BY <4>1, PathFacts
      <4> QED BY <4>1, <4>2, PathFacts
    <3>3. Item(i) \in Word
      <4> HIDE DEF n
      <4>1. ScalarItem(m, message, n) \in Word
        BY <3>1, ItemWordFacts
      <4> QED BY <4>1 DEF n
    <3> HIDE DEF Key, Item, n
    <3>4. Pushes(Key(i), m.type_id, Item(i), Push(i))
      BY <3>2, <3>3, PushFacts
    <3> QED BY <3>4 DEF Pushes
  <2> HIDE DEF Push, len
  <2>4. results \in [1 .. len -> Result]
    BY <2>3
  <2> HIDE DEF results
  <2> QED BY <1>2, <2>1, <2>4, UntilFailureFacts
<1> QED BY <1>3, <1>4, <1>5

\* and with that interpreting any member.
LEMMA InterpretType ==
  ASSUME NEW x \in Interpretation, x.limit \in Limit
  PROVE  interpret_message[x] \in Result
<1> DEFINE T == {y \in Interpretation : y.limit \in Limit => interpret_message[y] \in Result}
<1>1. ASSUME NEW y \in Interpretation,
             \A z \in Interpretation : InterpretRank[z] < InterpretRank[y] => z \in T
      PROVE  y \in T
  <2> SUFFICES ASSUME y.limit \in Limit PROVE interpret_message[y] \in Result
    OBVIOUS
  <2> DEFINE m == y.member
             r == InterpretMember(interpret_message, y)
  <2>1. m \in FlatMember /\ y.message \in Message /\ y.prefix \in Path /\ y.limit \in Nat
    BY DEF Interpretation
  <2>2. m.kind \in {"scalar", "scalar_array", "message_sequence"}
    BY <2>1, MemberFacts
  <2>3. interpret_message[y] = r
    BY InterpretEquation
  <2>4. CASE m.kind = "scalar"
    <3>1. r = ScalarInterpret(m, y.prefix, y.message)
      BY <2>4 DEF InterpretMember
    <3> QED BY <2>1, <2>3, <2>4, <3>1, ScalarResult
  <2>5. CASE m.kind = "scalar_array"
    <3>1. r = ScalarArrayInterpret(m, y.prefix, y.message, y.limit)
      BY <2>5 DEF InterpretMember
    <3> QED BY <2>1, <2>3, <2>5, <3>1, ArrayType
  <2>6. CASE m.kind = "message_sequence"
    <3> DEFINE count == item_count(m, y.message)
               members == FlatSchema(m.message_schema).members
               one(i) == [n \in 1 .. Len(members) |-> interpret_message[InnerCall(y, i, n)]]
               results == [i \in 1 .. count |-> UntilFailure(one(i))]
    <3>1. r = for_each_item(m, y.message, results)
      <4>1. r = MessageSequenceInterpret(m, y.prefix, y.message, y.limit, interpret_message)
        BY <2>6 DEF InterpretMember
      <4> QED BY <4>1 DEF MessageSequenceInterpret, Interpret, InnerCall, Call
    <3>2. m.message_schema \in Types /\ UsizeLimit \in Nat
      BY <2>1, <2>6, MemberFacts, DefaultsAreNumbers
    <3>3. members \in Seq(FlatMember)
      BY <3>2, FlatSchemaIsFlat DEF IsFlat
    <3>4. Len(members) \in Nat /\ count \in 0 .. UsizeLimit - 1
      BY <2>1, <2>6, <3>3, MessageItemType
    <3>5. ASSUME NEW i \in 1 .. count, NEW n \in 1 .. Len(members)
          PROVE  interpret_message[InnerCall(y, i, n)] \in Result
      <4>1. InnerCall(y, i, n) \in Interpretation /\ InterpretRank[InnerCall(y, i, n)] < InterpretRank[y]
        BY <2>6, InnerCallType
      <4>2. InnerCall(y, i, n).limit = y.limit
        BY DEF InnerCall, Call
      <4> QED BY <1>1, <4>1, <4>2
    <3>6. \A i \in 1 .. count : UntilFailure(one(i)) \in Result
      <4> TAKE i \in 1 .. count
      <4>1. one(i) \in [1 .. Len(members) -> Result]
        BY <3>5
      <4> HIDE DEF one, members
      <4> QED BY <3>4, <4>1, UntilFailureFacts
    <3> HIDE DEF count, one
    <3>7. results \in [1 .. count -> Result] /\ count \in Nat
      BY <3>2, <3>4, <3>6
    <3> HIDE DEF results
    <3>8. UntilFailure(results) \in Result /\ Done(<<>>) \in Result /\ Failed(<<>>) \in Result
      BY <3>7, UntilFailureFacts, NothingPushed, ResultFacts
    <3> QED BY <2>3, <3>1, <3>8 DEF for_each_item
  <2> QED BY <2>2, <2>4, <2>5, <2>6
<1>2. InterpretRank \in [Interpretation -> Nat] /\ T \in SUBSET Interpretation
  BY InterpretWellRanked DEF InterpretRecursion!WellRanked
<1>3. T = Interpretation
  <2> HIDE DEF T
  <2> QED BY <1>1, <1>2, TypeRecursion!RankInduction
<1> QED BY <1>3

-----------------------------------------------------------------------------
(* What a hook makes of a message is a sequence of events.                  *)

Event == Seq(Attribute)

\* A schema that entries hold: that of a type, under some name.
IsSchemaOf(schema, t) ==
  /\ t \in Types /\ schema.name \in STRING /\ schema.members = FlatSchema(t).members

\* Each member of the flat schema of a type is one, and is read.
LEMMA ReadType ==
  ASSUME NEW t \in Types, NEW message \in Message, NEW prefix \in Path, NEW limit \in Limit
  PROVE  LET members == FlatSchema(t).members
         IN /\ members \in Seq(FlatMember)
            /\ \A n \in 1 .. Len(members) :
                 interpret_message[Call(members[n], prefix, message, limit)] \in Result
<1> DEFINE members == FlatSchema(t).members
<1>1. members \in Seq(FlatMember)
  BY FlatSchemaIsFlat DEF IsFlat
<1> HIDE DEF members
<1>2. ASSUME NEW n \in 1 .. Len(members)
      PROVE  interpret_message[Call(members[n], prefix, message, limit)] \in Result
  <2> DEFINE x == Call(members[n], prefix, message, limit)
  <2>1. x \in Interpretation /\ x.limit = limit
    BY <1>1 DEF Call, Interpretation, Limit
  <2> HIDE DEF x
  <2> QED BY <2>1, InterpretType DEF x
<1> QED BY <1>1, <1>2 DEF members

\* Reading all members gives the attributes of an event.
LEMMA MembersType ==
  ASSUME NEW t \in Types, NEW message \in Message, NEW limit \in Limit
  PROVE  InterpretMembers(FlatSchema(t).members, message, limit) \in Event
<1> DEFINE members == FlatSchema(t).members
           results == [n \in 1 .. Len(members) |->
                         interpret_message[Call(members[n], <<>>, message, limit)]]
<1>1. <<>> \in Path
  BY DEF Path
<1>2. /\ members \in Seq(FlatMember)
      /\ \A n \in 1 .. Len(members) :
           interpret_message[Call(members[n], <<>>, message, limit)] \in Result
  BY <1>1, ReadType
<1>3. InterpretMembers(members, message, limit) = IgnoringFailures(results)
  BY DEF InterpretMembers, Interpret, Call
<1> HIDE DEF members
<1>4. Len(members) \in Nat /\ results \in [1 .. Len(members) -> Result]
  BY <1>2
<1> HIDE DEF results
<1> QED BY <1>3, <1>4, IgnoringFailuresFacts DEF members, Event

\* A value that is looked up is that of an attribute with the key.
LEMMA ValueOfFacts ==
  ASSUME NEW kvs \in Event, NEW key
  PROVE  /\ \A v \in ValueOf(kvs, key) : v \in Path /\ [key |-> key, value |-> v] \in Elements(kvs)
         /\ ValueOf(kvs, key) # {} => (CHOOSE v \in ValueOf(kvs, key) : TRUE) \in ValueOf(kvs, key)
<1> DEFINE I == {n \in 1 .. Len(kvs) : kvs[n].key = key}
           n == IF I # {} THEN Min(I) ELSE 0
<1>1. ValueOf(kvs, key) = IF n = 0 THEN {} ELSE {kvs[n].value}
  BY DEF ValueOf, SelectInSeq
<1>2. I \in SUBSET Nat
  OBVIOUS
<1>3. n # 0 => n \in I
  <2> HIDE DEF I
  <2> QED BY <1>2, MinOf
<1> HIDE DEF n
<1>4. n # 0 => n \in 1 .. Len(kvs) /\ kvs[n].key = key
  BY <1>3
<1>5. ASSUME n # 0
      PROVE  kvs[n].value \in Path /\ [key |-> key, value |-> kvs[n].value] \in Elements(kvs)
  <2> DEFINE a == kvs[n]
  <2>1. a \in Attribute /\ a.key = key /\ a \in Elements(kvs)
    BY <1>4, <1>5 DEF Event, Elements
  <2> HIDE DEF a
  <2>2. a = [key |-> a.key, value |-> a.value] /\ a.value \in Path
    BY <2>1 DEF Attribute, Path
  <2>3. [key |-> key, value |-> a.value] \in Elements(kvs)
    BY <2>1, <2>2
  <2> QED BY <2>2, <2>3 DEF a
<1> QED BY <1>1, <1>5

\* The first attribute of an event is the name of the schema.
LEMMA SchemaNameType ==
  ASSUME NEW schema, schema.name \in STRING
  PROVE  /\ SchemaName(schema) \in Event /\ Len(SchemaName(schema)) = 1
         /\ SchemaName(schema)[1].key = <<"event.ros.schema.name">>
<1> DEFINE k == "event.ros.schema.name"
           a == [key |-> <<k>>, value |-> <<schema.name>>]
<1>1. k \in STRING
  BY NamesAssumption DEF OwnNames
<1>2. <<k>> \in Seq(STRING) /\ <<schema.name>> \in Seq(STRING)
  <2> HIDE DEF k
  <2> QED BY <1>1
<1>3. a \in Attribute
  BY <1>2 DEF Attribute
<1>4. SchemaName(schema) = <<a>> /\ a.key = <<k>>
  BY DEF SchemaName
<1> HIDE DEF a
<1>5. <<a>> \in Event /\ Len(<<a>>) = 1 /\ <<a>>[1] = a
  BY <1>3 DEF Event
<1> QED BY <1>4, <1>5

\* The attribute has the message of a Log entry in the place of its name.
Renamed(a, kvs) ==
  /\ a.key \in NameKeys /\ [key |-> <<"msg">>, value |-> a.value] \in Elements(kvs)
  /\ a.key = <<"event.name">> \/ \E b \in Elements(kvs) : b.key = a.key

IsNamed(schema, kvs, r) ==
  /\ r \in Event /\ Len(r) \in Nat /\ Len(r) >= 1
  /\ \A a \in Attributes(r) : a \in Elements(kvs) \/ (schema.name = "Log" /\ Renamed(a, kvs))
  /\ \A a \in Elements(kvs) : a \in Attributes(r) \/ (schema.name = "Log" /\ a.key \in NameKeys)

\* The attributes after the schema's name, with the message of a Log entry as
\* name or without.
LEMMA NamedFacts ==
  ASSUME NEW schema, schema.name \in STRING, NEW kvs \in Event
  PROVE  IsNamed(schema, kvs, NamedByLogMessage(schema, SchemaName(schema) \o kvs))
<1> DEFINE first == SchemaName(schema)
           all == first \o kvs
           r == NamedByLogMessage(schema, all)
           I == {n \in 1 .. Len(all) : all[n].key \in NameKeys}
           named == IF I # {} THEN Min(I) ELSE 0
           msg == extract_log_message(schema, all)
           v == CHOOSE value \in msg : TRUE
           tail == [key |-> <<"event.name">>, value |-> v]
<1>1. first \in Event /\ Len(first) = 1 /\ first[1].key = <<"event.ros.schema.name">>
  BY SchemaNameType
<1> HIDE DEF first
<1>2. /\ all \in Event /\ Len(all) = 1 + Len(kvs) /\ Len(kvs) \in Nat /\ Len(all) \in Nat
      /\ all[1] = first[1] /\ \A n \in 2 .. Len(all) : n - 1 \in 1 .. Len(kvs) /\ all[n] = kvs[n - 1]
      /\ \A n \in 1 .. Len(kvs) : n + 1 \in 2 .. Len(all) /\ all[n + 1] = kvs[n]
  <2>1. first \in Seq(Attribute) /\ kvs \in Seq(Attribute) /\ Len(first) = 1
    BY <1>1 DEF Event
  <2>2. Len(all) = 1 + Len(kvs) /\ Len(kvs) \in Nat /\ all \in Event
    <3>1. all \in Seq(Attribute) /\ Len(all) = Len(first) + Len(kvs)
      BY <2>1, ConcatProperties
    <3>2. Len(kvs) \in Nat
      BY <2>1
    <3> HIDE DEF all
    <3> QED BY <2>1, <3>1, <3>2 DEF Event
  <2>3. all[1] = first[1]
    BY <2>1, <2>2
  <2>4. \A n \in 2 .. Len(all) : n - 1 \in 1 .. Len(kvs) /\ all[n] = kvs[n - 1]
    BY <2>1, <2>2
  <2>5. \A n \in 1 .. Len(kvs) : n + 1 \in 2 .. Len(all) /\ all[n + 1] = kvs[n]
    <3> TAKE n \in 1 .. Len(kvs)
    <3>1. n + 1 \in 2 .. Len(all) /\ (n + 1) - 1 = n
      BY <2>2
    <3> HIDE DEF all
    <3> QED BY <2>4, <3>1
  <2> HIDE DEF all
  <2> QED BY <2>2, <2>3, <2>4, <2>5
<1>3. all[1].key \notin NameKeys /\ all[1].key # <<"msg">>
  BY <1>1, <1>2 DEF NameKeys
<1> HIDE DEF all
<1>4. Attributes(all) = Elements(kvs)
  <2>1. \A a \in Attributes(all) : a \in Elements(kvs)
    BY <1>2 DEF Attributes, Elements
  <2>2. \A a \in Elements(kvs) : a \in Attributes(all)
    <3> SUFFICES ASSUME NEW n \in 1 .. Len(kvs) PROVE kvs[n] \in Attributes(all)
      BY DEF Elements
    <3> QED BY <1>2 DEF Attributes
  <2> QED BY <2>1, <2>2
<1>5. r = CASE msg = {} -> all
            [] msg # {} /\ named # 0 -> [all EXCEPT ![named].value = v]
            [] OTHER -> Append(all, tail)
  BY DEF NamedByLogMessage, SelectInSeq
<1>6. msg # {} =>
        /\ schema.name = "Log" /\ v \in Path
        /\ [key |-> <<"msg">>, value |-> v] \in Elements(kvs)
  <2> SUFFICES ASSUME msg # {}
               PROVE  /\ schema.name = "Log" /\ v \in Path
                      /\ [key |-> <<"msg">>, value |-> v] \in Elements(kvs)
    OBVIOUS
  <2> DEFINE found == ValueOf(all, <<"msg">>)
             a == [key |-> <<"msg">>, value |-> v]
  <2>1. schema.name = "Log" /\ msg = found
    BY DEF extract_log_message
  <2>2. (CHOOSE value \in found : TRUE) \in found
    BY <1>2, <2>1, ValueOfFacts
  <2>3. v \in Path /\ a \in Elements(all)
    BY <1>2, <2>1, <2>2, ValueOfFacts
  <2> HIDE DEF v
  <2>4. PICK n \in 1 .. Len(all) : a = all[n]
    BY <2>3 DEF Elements
  <2>5. n # 1
    BY <1>3, <2>4
  <2>6. a \in Attributes(all)
    BY <2>4, <2>5 DEF Attributes
  <2> QED BY <1>4, <2>1, <2>3, <2>6
<1>7. named # 0 => named \in 2 .. Len(all) /\ all[named].key \in NameKeys
  <2>1. I \in SUBSET Nat
    OBVIOUS
  <2>2. named # 0 => named \in I
    <3> HIDE DEF I
    <3> QED BY <2>1, MinOf
  <2> HIDE DEF named
  <2> QED BY <1>2, <1>3, <2>2
<1> HIDE DEF named, msg, v, I, r
<1>8. CASE msg = {}
  <2>1. r = all
    BY <1>5, <1>8
  <2> QED BY <1>2, <1>4, <2>1 DEF IsNamed, r, all, first
<1>9. CASE msg # {} /\ named # 0
  <2> DEFINE old == all[named]
             new == [key |-> old.key, value |-> v]
  <2>1. named \in 2 .. Len(all) /\ old.key \in NameKeys /\ named \in 1 .. Len(all)
    BY <1>7, <1>9
  <2>2. old \in Attribute /\ old \in Elements(kvs)
    <3>1. old \in Attribute
      BY <1>2, <2>1 DEF Event
    <3>2. old \in Attributes(all)
      BY <2>1 DEF Attributes
    <3> QED BY <1>4, <3>1, <3>2
  <2>3. v \in Path
    BY <1>6, <1>9
  <2>4. new \in Attribute /\ [old EXCEPT !.value = v] = new
    <3> HIDE DEF old
    <3>1. old.key \in Seq(STRING) /\ old = [key |-> old.key, value |-> old.value]
      BY <2>2 DEF Attribute
    <3> QED BY <2>3, <3>1 DEF Attribute, Path
  <2>5. r = [all EXCEPT ![named] = new]
    <3>1. r = [all EXCEPT ![named].value = v]
      BY <1>5, <1>9
    <3> HIDE DEF new
    <3> QED BY <2>4, <3>1
  <2> HIDE DEF new
  <2>6. /\ r \in Event /\ Len(r) = Len(all) /\ r[named] = new
        /\ \A n \in 1 .. Len(all) : n # named => r[n] = all[n]
    BY <1>2, <2>1, <2>4, <2>5 DEF Event
  <2>7. new.key = old.key /\ new.value = v
    BY DEF new
  <2>8. Renamed(new, kvs)
    BY <1>6, <1>9, <2>1, <2>2, <2>7 DEF Renamed
  <2>9. ASSUME NEW a \in Attributes(r) PROVE a \in Elements(kvs) \/ Renamed(a, kvs)
    <3>1. PICK n \in 2 .. Len(r) : a = r[n]
      BY DEF Attributes
    <3>2. CASE n = named
      BY <2>6, <2>8, <3>1, <3>2
    <3>3. CASE n # named
      <4>1. a \in Attributes(all)
        BY <1>2, <2>6, <3>1, <3>3 DEF Attributes
      <4> QED BY <1>4, <4>1
    <3> QED BY <3>2, <3>3
  <2>10. ASSUME NEW a \in Elements(kvs) PROVE a \in Attributes(r) \/ a.key \in NameKeys
    <3>1. PICK n \in 2 .. Len(all) : a = all[n]
      BY <1>4 DEF Attributes
    <3>2. CASE n = named
      BY <2>1, <3>1, <3>2
    <3>3. CASE n # named
      <4>1. a = r[n] /\ n \in 2 .. Len(r)
        BY <1>2, <2>6, <3>1, <3>3
      <4> QED BY <4>1 DEF Attributes
    <3> QED BY <3>2, <3>3
  <2> QED BY <1>2, <1>6, <1>9, <2>6, <2>9, <2>10 DEF IsNamed, r, all, first
<1>10. CASE msg # {} /\ named = 0
  <2>1. r = Append(all, tail)
    BY <1>5, <1>10
  <2>2. tail \in Attribute /\ tail.key = <<"event.name">> /\ tail.value = v
    <3> DEFINE k == "event.name"
    <3>1. k \in STRING
      BY NamesAssumption DEF OwnNames
    <3>2. <<k>> \in Seq(STRING)
      <4> HIDE DEF k
      <4> QED BY <3>1
    <3>3. v \in Seq(STRING)
      BY <1>6, <1>10 DEF Path
    <3> QED BY <3>2, <3>3 DEF Attribute
  <2> HIDE DEF tail
  <2>3. /\ r \in Event /\ Len(r) = Len(all) + 1 /\ r[Len(all) + 1] = tail
        /\ \A n \in 1 .. Len(all) : r[n] = all[n]
    BY <1>2, <2>1, <2>2 DEF Event
  <2>4. Renamed(tail, kvs)
    <3>1. tail.key \in NameKeys
      BY <2>2 DEF NameKeys
    <3> QED BY <1>6, <1>10, <2>2, <3>1 DEF Renamed
  <2>5. ASSUME NEW a \in Attributes(r) PROVE a \in Elements(kvs) \/ Renamed(a, kvs)
    <3>1. PICK n \in 2 .. Len(r) : a = r[n]
      BY DEF Attributes
    <3>2. CASE n = Len(all) + 1
      BY <2>3, <2>4, <3>1, <3>2
    <3>3. CASE n # Len(all) + 1
      <4>1. n \in 2 .. Len(all)
        BY <1>2, <2>3, <3>1, <3>3
      <4>2. a \in Attributes(all)
        BY <1>2, <2>3, <3>1, <4>1 DEF Attributes
      <4> QED BY <1>4, <4>2
    <3> QED BY <3>2, <3>3
  <2>6. ASSUME NEW a \in Elements(kvs) PROVE a \in Attributes(r)
    <3>1. PICK n \in 2 .. Len(all) : a = all[n]
      BY <1>4 DEF Attributes
    <3>2. a = r[n] /\ n \in 2 .. Len(r)
      BY <1>2, <2>3, <3>1
    <3> QED BY <3>2 DEF Attributes
  <2> QED BY <1>2, <1>6, <1>10, <2>3, <2>5, <2>6 DEF IsNamed, r, all, first
<1> QED BY <1>8, <1>9, <1>10

\* A value that is found is one.
LEMMA LookedUp ==
  ASSUME NEW kvs \in Event, NEW key, NEW v, v = ValueOf(kvs, key), v # {}
  PROVE  (CHOOSE value \in v : TRUE) \in Path
<1>1. (CHOOSE value \in ValueOf(kvs, key) : TRUE) \in ValueOf(kvs, key)
  BY ValueOfFacts
<1>2. \A value \in ValueOf(kvs, key) : value \in Path
  BY ValueOfFacts
<1> QED BY <1>1, <1>2

\* The attributes of an item of the values field.
LEMMA KeyValueType ==
  ASSUME config.max_array_len \in Limit, NEW m \in FlatMember, m.kind = "message_sequence",
         NEW item \in Message
  PROVE  KeyValuePair(m, item) \in Event
<1> DEFINE members == FlatSchema(m.message_schema).members
           kvs == InterpretMembers(members, item, config.max_array_len)
           k == ValueOf(kvs, <<"key">>)
           v == ValueOf(kvs, <<"value">>)
           kc == CHOOSE key \in k : TRUE
           vc == CHOOSE value \in v : TRUE
           ks == normalize_string_for_attr_key(kc)
           ka == Append(ks, "key")
           a == [key |-> ks, value |-> vc]
           b == [key |-> ka, value |-> kc]
<1>1. m.message_schema \in Types
  BY MemberFacts
<1>2. kvs \in Event
  BY <1>1, MembersType
<1>3. KeyValuePair(m, item) = IF k = {} \/ v = {} THEN <<>> ELSE <<a, b>>
  BY DEF KeyValuePair, KeyAndValue
<1> HIDE DEF kvs
<1>4. k # {} => kc \in Path
  BY <1>2, LookedUp
<1>5. v # {} => vc \in Path
  BY <1>2, LookedUp
<1> HIDE DEF k, v, kc, vc
<1>6. <<>> \in Event
  BY NothingPushed DEF Event
<1>7. ASSUME k # {}, v # {} PROVE <<a, b>> \in Event
  <2> DEFINE n == "normalized"
             e == "key"
  <2>1. n \in STRING /\ e \in STRING
    BY NamesAssumption DEF OwnNames
  <2>2. ks = <<n>> \o kc
    BY DEF normalize_string_for_attr_key
  <2>3. <<n>> \in Path
    <3> HIDE DEF n
    <3> QED BY <1>4, <1>7, <2>1, PathFacts
  <2>4. ks \in Path
    <3> DEFINE first == <<n>>
    <3> HIDE DEF first, ks
    <3>1. ks = first \o kc /\ first \in Path
      BY <2>2, <2>3 DEF first
    <3> QED BY <1>4, <1>7, <3>1, PathFacts
  <2>5. Append(ks, e) \in Path
    <3> HIDE DEF ks, e
    <3> QED BY <2>1, <2>4, PathFacts
  <2>6. a \in Attribute /\ b \in Attribute
    <3>1. ks \in Seq(STRING) /\ ka \in Seq(STRING) /\ kc \in Seq(STRING) /\ vc \in Seq(STRING)
      BY <1>4, <1>5, <1>7, <2>4, <2>5 DEF Path
    <3> HIDE DEF ks, ka
    <3> QED BY <3>1 DEF Attribute
  <2> HIDE DEF a, b
  <2> QED BY <2>6 DEF Event
<1> QED BY <1>3, <1>6, <1>7

-----------------------------------------------------------------------------
(* The events of a diagnostic message.                                      *)

\* What a scalar of a message under a path says, under its own name.
Own(g, at) == [key |-> PathOf(g), value |-> at \o PathOf(g)]

\* The result pushes these attributes, and does not fail.
PushesAll(r, attributes) == r \in Result /\ r.ok /\ Elements(r.out) = attributes

\* Reading a scalar that has a value pushes that value.
LEMMA PlainPushed ==
  ASSUME config.max_array_len \in Limit, NEW message, NEW pl, Shows(message, pl),
         message.size = SizeOf(pl.type), NEW g \in InlineFields[pl.type], IsPlain(g)
  PROVE  PushesAll(Pushed(FlatOf(g, <<>>, 0), message), {Own(g, pl.path)})
<1> DEFINE m == FlatOf(g, <<>>, 0)
           limit == config.max_array_len
           x == Call(m, <<>>, message, limit)
           key == PathOf(g)
           here == pl.path \o key
           word == WordAt(message, m.offset)
           a == [key |-> key, value |-> here]
           r == Pushed(m, message)
<1>1. pl.type \in Types /\ pl.path \in Path /\ message \in Message /\ limit \in Nat
  BY ShownTypes DEF Limit
<1>2. /\ m.key = key /\ m.kind = "scalar" /\ m.type_id = "value"
      /\ m.offset = g.base + g.own
  BY <1>1, FlatOfFacts DEF IsPlain
<1>3. key \in Path /\ g.base + g.own <= SizeOf(pl.type)
  BY <1>1, InlineFacts
<1>4. <<>> \in Path /\ 0 \in Nat
  BY DEF Path
<1>5. here \in Path /\ <<>> \o key = key
  BY <1>1, <1>3, PathFacts
<1>6. m \in FlatMember
  BY <1>1, <1>4, FlatOfType
<1>7. ros_to_attr_val(m.type_id, word) = {here}
  <2> DEFINE shape == pl.shape
             v == "value"
  <2>1. word = Leaf(here, shape)
    BY <1>2, OwnWord DEF IsPlain
  <2> HIDE DEF word, here, shape
  <2>2. word.kind = "leaf" /\ word.path = here
    BY <2>1, LeafSays
  <2>3. ros_to_attr_val(v, word) = {word.path}
    BY <2>2 DEF ros_to_attr_val
  <2> QED BY <1>2, <2>2, <2>3
<1>8. r = PushValue(<<>> \o m.key, ros_to_attr_val(m.type_id, word))
  <2>1. x \in Interpretation
    BY <1>1, <1>4, <1>6 DEF Call, Interpretation
  <2>2. r = InterpretMember(interpret_message, x)
    BY <2>1, InterpretEquation DEF Pushed, Call
  <2>3. x.member = m /\ x.prefix = <<>> /\ x.message = message
    BY DEF Call
  <2> HIDE DEF x, r, m
  <2>4. r = ScalarInterpret(m, <<>>, message)
    BY <1>2, <2>2, <2>3 DEF InterpretMember
  <2>5. InSlice(m, message)
    BY <1>2, <1>3 DEF InSlice
  <2> QED BY <2>4, <2>5 DEF ScalarInterpret
<1> HIDE DEF r, m, word, key, here
<1>9. r = Done(<<a>>)
  <2>1. r = PushValue(key, {here})
    BY <1>2, <1>5, <1>7, <1>8
  <2>2. (CHOOSE v \in {here} : TRUE) = here
    OBVIOUS
  <2> QED BY <2>1, <2>2 DEF PushValue
<1>10. a \in Attribute
  BY <1>3, <1>5 DEF Attribute, Path
<1> HIDE DEF a
<1>11. <<a>> \in Seq(Attribute) /\ Elements(<<a>>) = {a}
  BY <1>10, NothingPushed
<1>12. PushesAll(r, {a})
  <2> DEFINE out == <<a>>
  <2> HIDE DEF out
  <2>1. r = Done(out) /\ out \in Seq(Attribute) /\ Elements(out) = {a}
    BY <1>9, <1>11 DEF out
  <2>2. r \in Result /\ r.out = out /\ r.ok
    BY <2>1, ResultFacts
  <2> QED BY <2>1, <2>2 DEF PushesAll
<1>13. a = Own(g, pl.path)
  BY DEF a, key, here, Own
<1> QED BY <1>12, <1>13 DEF r, m

\* A loop has a round for each of the fields, and one for field g pushes S[g].
HasRounds(results, n, S, D) ==
  /\ n \in Nat /\ results \in [1 .. n -> Result]
  /\ \A k \in 1 .. n : \E g \in D : PushesAll(results[k], S[g])
  /\ \A g \in D : \E k \in 1 .. n : PushesAll(results[k], S[g])
AllOf(S, D) == UNION {S[g] : g \in D}

\* Such a loop pushes what there is for the fields.
LEMMA FieldLoop ==
  ASSUME NEW results, NEW n, NEW S, NEW D, HasRounds(results, n, S, D)
  PROVE  /\ PushesAll(UntilFailure(results), AllOf(S, D))
         /\ IgnoringFailures(results) \in Event
         /\ Elements(IgnoringFailures(results)) = AllOf(S, D)
<1> DEFINE pushed(k) == Elements(results[k].out)
           all == UNION {pushed(k) : k \in 1 .. n}
<1>1. n \in Nat /\ results \in [1 .. n -> Result]
  BY DEF HasRounds
<1>2. \A k \in 1 .. n : results[k].ok /\ \E g \in D : pushed(k) = S[g]
  BY DEF HasRounds, PushesAll
<1>3. \A g \in D : \E k \in 1 .. n : pushed(k) = S[g]
  BY DEF HasRounds, PushesAll
<1>4. /\ UntilFailure(results) \in Result /\ UntilFailure(results).ok
      /\ Elements(UntilFailure(results).out) = all
  BY <1>1, <1>2, UntilFailureFacts
<1>5. IgnoringFailures(results) \in Event /\ Elements(IgnoringFailures(results)) = all
  BY <1>1, IgnoringFailuresFacts DEF Event
<1> HIDE DEF pushed
<1>6. all = AllOf(S, D)
  BY <1>2, <1>3 DEF AllOf
<1> QED BY <1>4, <1>5, <1>6 DEF PushesAll

\* The members of the flat schema of a type are those of the inline fields.
LEMMA SchemaMembers ==
  ASSUME NEW t \in Types
  PROVE  LET members == FlatSchema(t).members
         IN /\ members \in Seq(FlatMember) /\ Len(members) \in Nat
            /\ \A k \in 1 .. Len(members) : \E g \in InlineFields[t] :
                 members[k] = FlatOf(g, <<>>, 0)
            /\ \A g \in InlineFields[t] : \E k \in 1 .. Len(members) :
                 members[k] = FlatOf(g, <<>>, 0)
<1>1. IsFlat(t, <<>>, 0, FlatSchema(t).members)
  BY FlatSchemaIsFlat
<1> QED BY <1>1 DEF IsFlat

\* A sequence of two.
LEMMA TwoElements ==
  ASSUME NEW A, NEW x \in A, NEW y \in A
  PROVE  <<x>> \o <<y>> = <<x, y>> /\ <<x>> \in Seq(A) /\ <<y>> \in Seq(A) /\ <<x, y>> \in Seq(A)
<1> DEFINE a == <<x>> \o <<y>>
           b == <<x, y>>
<1>1. <<x>> \in Seq(A) /\ <<y>> \in Seq(A) /\ b \in Seq(A)
  OBVIOUS
<1>2. Len(<<x>>) = 1 /\ Len(<<y>>) = 1 /\ Len(b) = 2 /\ b[1] = x /\ b[2] = y
  OBVIOUS
<1>3. a \in Seq(A) /\ Len(a) = 2 /\ a[1] = x /\ a[2] = y
  BY <1>1, <1>2
<1> HIDE DEF a, b
<1>4. \A i \in 1 .. Len(a) : a[i] = b[i]
  BY <1>2, <1>3
<1> QED BY <1>1, <1>2, <1>3, <1>4, SeqEqual DEF a, b

\* Two segments after a path, added one by one or at once.
LEMMA TwoSegments ==
  ASSUME NEW p \in Path, NEW x \in STRING, NEW y \in STRING
  PROVE  (p \o <<x>>) \o <<y>> = p \o <<x, y>> /\ <<x, y>> \in Path
<1> DEFINE one == <<x>>
           two == <<y>>
           both == <<x, y>>
<1>1. one \o two = both /\ one \in Path /\ two \in Path /\ both \in Path
  BY TwoElements DEF Path
<1> HIDE DEF one, two, both
<1>2. (p \o one) \o two = p \o (one \o two)
  BY <1>1, PathAssociative DEF Regrouped
<1> QED BY <1>1, <1>2 DEF one, two, both

\* What is said of the sequence of the given name in a message of the place.
AreItems(m, name, t, message, pl) ==
  /\ m \in FlatMember /\ t \in Types /\ IsSequenceOf(m, name, t) /\ name \in STRING
  /\ InSlice(m, message) /\ m.has_get
  /\ item_count(m, message) = ItemCount(name, pl.shape)
  /\ ItemCount(name, pl.shape) \in 0 .. UsizeLimit - 1
  /\ \A i \in 1 .. ItemCount(name, pl.shape) : \E place :
       /\ Shows(MessageItem(m, message, i - 1), place)
       /\ MessageItem(m, message, i - 1).size = SizeOf(t)
       /\ place.type = t /\ place.shape = pl.shape
       /\ place.path = pl.path \o <<name, Decimal[i - 1]>>

\* A sequence has the items that the shape says, each in its place.
LEMMA ItemsFound ==
  ASSUME NEW message, NEW pl, Shows(message, pl), message.size = SizeOf(pl.type),
         NEW g \in InlineFields[pl.type], NEW name, NEW t, IsItems(g, name, t),
         NEW m, m = FlatOf(g, <<>>, 0)
  PROVE  AreItems(m, name, t, message, pl)
<1> DEFINE f == g.field
           o == g.base + g.own
           n == Items(f, pl.shape)
           here == pl.path \o PathOf(g)
<1>1. /\ pl \in Place /\ pl.type \in Types /\ pl.path \in Path /\ message \in Message
      /\ pl.shape \in MessageShapes
  BY ShownTypes
<1>2. /\ g.struct = <<>> /\ f.name = name /\ IsSequence(f) /\ f.is_array
      /\ f.type_id = "message" /\ f.of = t
  BY DEF IsItems, IsSequence
<1>3. /\ PathOf(g) \in Path /\ o <= SizeOf(pl.type) /\ FieldWithin(f, pl.type)
      /\ name \in STRING
  BY <1>1, <1>2, InlineFacts
<1>4. /\ f.array_size \in 0 .. UsizeLimit - 1 /\ f.is_upper_bound \in BOOLEAN /\ t \in Types
      /\ f.has_get
  BY <1>1, <1>2, <1>3, FieldTypes
<1>5. /\ m.key = PathOf(g) /\ m.kind = "message_sequence" /\ m.message_schema = t
      /\ m.offset = o /\ m.array_size = f.array_size
      /\ m.is_upper_bound = f.is_upper_bound /\ m.has_get = f.has_get
  BY <1>1, <1>2, FlatOfFacts
<1>6. PathOf(g) = <<name>>
  BY <1>2 DEF PathOf
<1>7. m \in FlatMember
  <2>1. <<>> \in Path /\ 0 \in Nat
    BY DEF Path
  <2> QED BY <1>1, <2>1, FlatOfType
<1>8. n \in 0 .. UsizeLimit - 1 /\ n = ItemCount(name, pl.shape)
  <2>1. n \in 0 .. UsizeLimit - 1
    BY <1>1, <1>4, ItemsType
  <2>2. n = ItemCount(name, pl.shape)
    BY <1>2 DEF Items, ItemCount
  <2> QED BY <2>1, <2>2
<1>9. item_count(m, message) = n
  <2>1. ~Inline(m)
    BY <1>2, <1>4, <1>5 DEF Inline, IsSequence
  <2>2. WordAt(message, m.offset) = Header(here, n, pl.lang)
    BY <1>2, <1>5, OwnWord
  <2> HIDE DEF n, here
  <2>3. Header(here, n, pl.lang).items = n
    BY DEF Header
  <2> QED BY <2>1, <2>2, <2>3 DEF item_count
<1>10. InSlice(m, message)
  BY <1>3, <1>5 DEF InSlice
<1>11. ASSUME NEW i \in 1 .. n
       PROVE  /\ Shows(MessageItem(m, message, i - 1), ItemPlace(g, pl, i - 1))
              /\ MessageItem(m, message, i - 1).size = SizeOf(t)
              /\ ItemPlace(g, pl, i - 1).type = t
              /\ ItemPlace(g, pl, i - 1).shape = pl.shape
              /\ ItemPlace(g, pl, i - 1).path = pl.path \o <<name, Decimal[i - 1]>>
  <2> DEFINE d == Decimal[i - 1]
             ipl == ItemPlace(g, pl, i - 1)
  <2>1. /\ ipl.type = t /\ ipl.shape = pl.shape
        /\ ipl.path = pl.path \o PathOf(g) \o <<d>>
    BY <1>1, <1>2, ItemPlaceFacts
  <2>2. /\ Shows(MessageItem(m, message, i - 1), ipl)
        /\ MessageItem(m, message, i - 1).size = SizeOf(t)
    BY <1>2, ItemShown
  <2>3. d \in STRING
    BY <1>8, IndexFacts
  <2> HIDE DEF ipl
  <2>4. ipl.path = pl.path \o <<name, d>>
    <3> HIDE DEF d
    <3> QED BY <1>1, <1>3, <1>6, <2>1, <2>3, TwoSegments
  <2> QED BY <2>1, <2>2, <2>4 DEF ipl
<1> HIDE DEF n
<1>12. \A i \in 1 .. n : \E place :
         /\ Shows(MessageItem(m, message, i - 1), place)
         /\ MessageItem(m, message, i - 1).size = SizeOf(t)
         /\ place.type = t /\ place.shape = pl.shape
         /\ place.path = pl.path \o <<name, Decimal[i - 1]>>
  <2> TAKE i \in 1 .. n
  <2> WITNESS ItemPlace(g, pl, i - 1)
  <2> QED BY <1>11
<1>13. IsSequenceOf(m, name, t)
  BY <1>5, <1>6 DEF IsSequenceOf
<1> QED BY <1>3, <1>4, <1>5, <1>7, <1>8, <1>9, <1>10, <1>12, <1>13 DEF AreItems

\* Where an attribute has the key, one is found.
LEMMA ValueFound ==
  ASSUME NEW kvs \in Event, NEW key, NEW v, [key |-> key, value |-> v] \in Elements(kvs)
  PROVE  ValueOf(kvs, key) # {}
<1> DEFINE I == {n \in 1 .. Len(kvs) : kvs[n].key = key}
           n == IF I # {} THEN Min(I) ELSE 0
<1>1. ValueOf(kvs, key) = IF n = 0 THEN {} ELSE {kvs[n].value}
  BY DEF ValueOf, SelectInSeq
<1>2. I # {} /\ I \in SUBSET Nat
  <2> DEFINE a == [key |-> key, value |-> v]
  <2>1. PICK k \in 1 .. Len(kvs) : kvs[k] = a
    BY DEF Elements
  <2>2. a.key = key
    OBVIOUS
  <2> HIDE DEF a
  <2> QED BY <2>1, <2>2
<1>3. Min(I) \in I /\ n = Min(I)
  <2> HIDE DEF I
  <2> QED BY <1>2, MinOf
<1>4. n # 0
  BY <1>3
<1> QED BY <1>1, <1>4

\* The attributes that are looked up are those of the scalar with the name.
LEMMA NamedValue ==
  ASSUME NEW kvs \in Event, NEW D, NEW at,
         Elements(kvs) = {Own(g, at) : g \in D}, NEW key,
         \E g \in D : PathOf(g) = key
  PROVE  /\ ValueOf(kvs, key) # {}
         /\ (CHOOSE v \in ValueOf(kvs, key) : TRUE) = at \o key
<1> DEFINE found == ValueOf(kvs, key)
           v == CHOOSE value \in found : TRUE
<1>1. PICK g \in D : PathOf(g) = key
  OBVIOUS
<1>2. [key |-> key, value |-> at \o key] \in Elements(kvs)
  BY <1>1 DEF Own
<1>3. found # {}
  BY <1>2, ValueFound
<1>4. v \in found
  BY <1>3, ValueOfFacts
<1>5. [key |-> key, value |-> v] \in Elements(kvs)
  BY <1>4, ValueOfFacts
<1> HIDE DEF v
<1>6. PICK h \in D : [key |-> key, value |-> v] = [key |-> PathOf(h), value |-> at \o PathOf(h)]
  BY <1>5 DEF Own
<1>7. key = PathOf(h) /\ v = at \o PathOf(h)
  BY <1>6
<1> QED BY <1>3, <1>7 DEF v

\* An item of the values field is read as its key and its value.
LEMMA PairRead ==
  ASSUME config.max_array_len \in Limit, "DiagnosticArray" \in Types,
         NEW m \in FlatMember, NEW of, IsSequenceOf(m, of, "KeyValue"),
         NEW item, NEW pl, Shows(item, pl), pl.type = "KeyValue", item.size = SizeOf("KeyValue")
  PROVE  /\ KeyValuePair(m, item) \in Event
         /\ Elements(KeyValuePair(m, item)) = PairAttributes(pl.path)
<1> DEFINE t == "KeyValue"
           members == FlatSchema(t).members
           D == InlineFields[t]
           at == pl.path
           S == [g \in D |-> {Own(g, at)}]
           results == [n \in 1 .. Len(members) |-> Pushed(members[n], item)]
           kvs == InterpretMembers(members, item, config.max_array_len)
<1>1. t \in Types /\ (\A g \in D : IsPlain(g))
      /\ (\A name \in {"key", "value"} : \E g \in D : PathOf(g) = <<name>>)
  BY DiagnosticAssumption
<1>2. /\ Len(members) \in Nat
      /\ \A k \in 1 .. Len(members) : \E g \in D : members[k] = FlatOf(g, <<>>, 0)
      /\ \A g \in D : \E k \in 1 .. Len(members) : members[k] = FlatOf(g, <<>>, 0)
  BY <1>1, SchemaMembers
<1>3. kvs = IgnoringFailures(results)
  BY DEF InterpretMembers, Interpret, Pushed
<1>4. \A g \in D : PushesAll(Pushed(FlatOf(g, <<>>, 0), item), S[g])
  BY <1>1, PlainPushed
<1>5. at \in Path
  BY ShownTypes
<1> HIDE DEF members, D, S
<1>6. /\ \A k \in 1 .. Len(members) : \E g \in D : PushesAll(results[k], S[g])
      /\ \A g \in D : \E k \in 1 .. Len(members) : PushesAll(results[k], S[g])
  BY <1>2, <1>4
<1>7. results \in [1 .. Len(members) -> Result]
  BY <1>6 DEF PushesAll
<1> HIDE DEF results, kvs
<1>8. HasRounds(results, Len(members), S, D)
  BY <1>2, <1>6, <1>7 DEF HasRounds
<1>9. kvs \in Event /\ Elements(kvs) = AllOf(S, D)
  BY <1>3, <1>8, FieldLoop
<1>10. AllOf(S, D) = {Own(g, at) : g \in D}
  BY DEF AllOf, S
<1>11. Elements(kvs) = {Own(g, at) : g \in D}
  BY <1>9, <1>10
<1> DEFINE k == ValueOf(kvs, <<"key">>)
           v == ValueOf(kvs, <<"value">>)
           kc == at \o <<"key">>
           vc == at \o <<"value">>
           ks == normalize_string_for_attr_key(kc)
           a == [key |-> ks, value |-> vc]
           b == [key |-> Append(ks, "key"), value |-> kc]
<1>12. k # {} /\ (CHOOSE key \in k : TRUE) = kc
  <2> DEFINE name == <<"key">>
  <2>1. \E g \in D : PathOf(g) = name
    BY <1>1 DEF D
  <2> HIDE DEF name
  <2>2. ValueOf(kvs, name) # {} /\ (CHOOSE x \in ValueOf(kvs, name) : TRUE) = at \o name
    BY <1>9, <1>11, <2>1, NamedValue
  <2> QED BY <2>2 DEF name
<1>13. v # {} /\ (CHOOSE value \in v : TRUE) = vc
  <2> DEFINE name == <<"value">>
  <2>1. \E g \in D : PathOf(g) = name
    BY <1>1 DEF D
  <2> HIDE DEF name
  <2>2. ValueOf(kvs, name) # {} /\ (CHOOSE x \in ValueOf(kvs, name) : TRUE) = at \o name
    BY <1>9, <1>11, <2>1, NamedValue
  <2> QED BY <2>2 DEF name
<1>14. KeyValuePair(m, item) = <<a, b>>
  <2>1. KeyValuePair(m, item) = KeyAndValue(kvs)
    BY DEF KeyValuePair, kvs, members, IsSequenceOf
  <2> HIDE DEF kc, vc
  <2> QED BY <1>12, <1>13, <2>1 DEF KeyAndValue
<1>15. KeyValuePair(m, item) \in Event
  BY KeyValueType, ShownTypes DEF IsSequenceOf
<1>16. Elements(<<a, b>>) = {a, b}
  <2> HIDE DEF a, b
  <2> QED BY DEF Elements
<1>17. PairAttributes(at) = {a, b}
  BY DEF PairAttributes
<1> QED BY <1>14, <1>15, <1>16, <1>17

\* The attributes of the first items of the values field under a path.
ValueAttributes(at, n) ==
  UNION {PairAttributes(at \o <<"values", Decimal[j - 1]>>) : j \in 1 .. n}

\* The values field is read as the pairs of all its items.
LEMMA ValuesRead ==
  ASSUME config.max_array_len \in Limit, "DiagnosticArray" \in Types,
         NEW message, NEW pl, NEW m, NEW name, name = "values",
         AreItems(m, name, "KeyValue", message, pl)
  PROVE  PushesAll(Done(for_each_item(m, message, ValuePairs(m, message)).out),
                   ValueAttributes(pl.path, ItemCount(name, pl.shape)))
<1> DEFINE t == "KeyValue"
           n == ItemCount(name, pl.shape)
           item(j) == MessageItem(m, message, j - 1)
           at(j) == pl.path \o <<name, Decimal[j - 1]>>
           pairs == ValuePairs(m, message)
           S == [j \in 1 .. n |-> PairAttributes(at(j))]
           r == UntilFailure(pairs)
<1>1. /\ m \in FlatMember /\ IsSequenceOf(m, name, t) /\ InSlice(m, message) /\ m.has_get
      /\ item_count(m, message) = n /\ n \in Nat
      /\ \A j \in 1 .. n : \E place :
           /\ Shows(item(j), place) /\ item(j).size = SizeOf(t)
           /\ place.type = t /\ place.path = at(j)
  <2>1. \A j \in 1 .. n : \E place :
          /\ Shows(item(j), place) /\ item(j).size = SizeOf(t)
          /\ place.type = t /\ place.path = at(j)
    BY DEF AreItems
  <2>2. n \in 0 .. UsizeLimit - 1
    BY DEF AreItems
  <2>3. n \in Nat
    BY <2>2, DefaultsAreNumbers
  <2>4. /\ m \in FlatMember /\ IsSequenceOf(m, name, t) /\ InSlice(m, message) /\ m.has_get
        /\ item_count(m, message) = n
    BY DEF AreItems
  <2> HIDE DEF n, item, at
  <2> QED BY <2>1, <2>3, <2>4
<1>2. pairs = [j \in 1 .. n |-> Done(KeyValuePair(m, item(j)))]
  BY <1>1 DEF ValuePairs
<1> HIDE DEF n, pairs, at, item
<1>3. ASSUME NEW j \in 1 .. n
      PROVE  pairs[j] \in Result /\ PushesAll(pairs[j], S[j])
  <2> DEFINE kvs == KeyValuePair(m, item(j))
  <2>1. kvs \in Event /\ Elements(kvs) = PairAttributes(at(j))
    BY <1>1, PairRead
  <2>2. pairs[j] = Done(kvs) /\ S[j] = PairAttributes(at(j))
    BY <1>2
  <2> HIDE DEF kvs, S
  <2> QED BY <2>1, <2>2, ResultFacts DEF PushesAll, Event
<1> HIDE DEF S
<1>4. HasRounds(pairs, n, S, 1 .. n)
  <2>1. \A j \in 1 .. n : pairs[j] \in Result /\ PushesAll(pairs[j], S[j])
    BY <1>3
  <2>2. pairs \in [1 .. n -> Result]
    BY <1>2, <2>1
  <2> QED BY <1>1, <2>1, <2>2 DEF HasRounds
<1>5. PushesAll(r, AllOf(S, 1 .. n))
  BY <1>4, FieldLoop
<1>6. for_each_item(m, message, pairs) = r
  BY <1>1 DEF for_each_item
<1>7. AllOf(S, 1 .. n) = ValueAttributes(pl.path, n)
  BY DEF AllOf, S, ValueAttributes, at
<1> HIDE DEF r
<1>8. PushesAll(Done(r.out), AllOf(S, 1 .. n))
  <2>1. r.out \in Seq(Attribute)
    BY <1>5 DEF PushesAll, Result
  <2> QED BY <1>5, <2>1, ResultFacts DEF PushesAll
<1> QED BY <1>6, <1>7, <1>8 DEF pairs, n

\* A member is the one of a scalar, or the sequence of items.
LEMMA MemberKind ==
  ASSUME NEW t \in Types, NEW g \in InlineFields[t], NEW name, NEW u
  PROVE  /\ IsPlain(g) => ~IsSequenceOf(FlatOf(g, <<>>, 0), name, u) /\ ~IsItems(g, name, u)
         /\ IsItems(g, name, u) => IsSequenceOf(FlatOf(g, <<>>, 0), name, u)
<1> DEFINE m == FlatOf(g, <<>>, 0)
<1>1. IsPlain(g) => m.kind = "scalar"
  BY FlatOfFacts DEF IsPlain
<1>2. IsItems(g, name, u) =>
        m.kind = "message_sequence" /\ m.message_schema = u /\ m.key = <<name>>
  <2> SUFFICES ASSUME IsItems(g, name, u)
               PROVE  m.kind = "message_sequence" /\ m.message_schema = u /\ m.key = <<name>>
    OBVIOUS
  <2>1. g.field.is_array /\ g.field.type_id = "message" /\ g.field.of = u
    BY DEF IsItems, IsSequence
  <2>2. PathOf(g) = <<name>>
    BY DEF IsItems, PathOf
  <2> QED BY <2>1, <2>2, FlatOfFacts
<1>3. IsPlain(g) => ~IsItems(g, name, u)
  BY DEF IsPlain, IsItems
<1> HIDE DEF m
<1> QED BY <1>1, <1>2, <1>3 DEF IsSequenceOf, m

\* The fields of a status item are read as its own and its values.
LEMMA StatusRead ==
  ASSUME config.max_array_len \in Limit, "DiagnosticArray" \in Types,
         NEW item, NEW pl, Shows(item, pl), NEW t, t = "DiagnosticStatus", pl.type = t,
         item.size = SizeOf(t)
  PROVE  PushesAll(StatusFields(FlatSchema(t).members, item),
                   StatusAttributes(pl.path, ItemCount("values", pl.shape)))
<1> DEFINE name == "values"
           members == FlatSchema(t).members
           D == InlineFields[t]
           at == pl.path
           n == ItemCount(name, pl.shape)
           values == ValueAttributes(at, n)
           field(m) == IF as_values_field(m)
                         THEN Done(for_each_item(m, item, ValuePairs(m, item)).out)
                         ELSE Pushed(m, item)
           S == [g \in D |-> IF IsPlain(g) THEN {Own(g, at)} ELSE values]
           results == [k \in 1 .. Len(members) |-> field(members[k])]
<1>1. /\ t \in Types /\ \A g \in D : IsPlain(g) \/ IsItems(g, name, "KeyValue")
      /\ \E g \in D : IsItems(g, name, "KeyValue")
  BY DiagnosticAssumption
<1>2. /\ Len(members) \in Nat
      /\ \A k \in 1 .. Len(members) : \E g \in D : members[k] = FlatOf(g, <<>>, 0)
      /\ \A g \in D : \E k \in 1 .. Len(members) : members[k] = FlatOf(g, <<>>, 0)
  BY <1>1, SchemaMembers
<1>3. StatusFields(members, item) = UntilFailure(results)
  BY DEF StatusFields
<1>4. ASSUME NEW g \in D
      PROVE  PushesAll(field(FlatOf(g, <<>>, 0)), S[g])
  <2> DEFINE m == FlatOf(g, <<>>, 0)
             keyed == "KeyValue"
             r == field(m)
  <2>1. r = IF as_values_field(m)
              THEN Done(for_each_item(m, item, ValuePairs(m, item)).out) ELSE Pushed(m, item)
    OBVIOUS
  <2> SUFFICES PushesAll(r, S[g])
    OBVIOUS
  <2> HIDE DEF r, field
  <2>2. CASE IsPlain(g)
    <3>1. ~as_values_field(m)
      BY <1>1, <2>2, MemberKind DEF as_values_field
    <3>2. PushesAll(Pushed(m, item), {Own(g, at)})
      BY <2>2, PlainPushed
    <3>3. S[g] = {Own(g, at)}
      BY <2>2
    <3>4. r = Pushed(m, item)
      BY <2>1, <3>1
    <3> HIDE DEF m, S
    <3> QED BY <3>2, <3>3, <3>4
  <2>3. CASE ~IsPlain(g)
    <3>1. IsItems(g, name, keyed)
      BY <1>1, <2>3
    <3>2. as_values_field(m)
      BY <1>1, <3>1, MemberKind DEF as_values_field
    <3> HIDE DEF m, keyed
    <3>3. AreItems(m, name, keyed, item, pl)
      BY <3>1, ItemsFound DEF m
    <3>4. PushesAll(Done(for_each_item(m, item, ValuePairs(m, item)).out), values)
      BY <3>3, ValuesRead DEF keyed
    <3>5. S[g] = values
      BY <2>3
    <3>6. r = Done(for_each_item(m, item, ValuePairs(m, item)).out)
      BY <2>1, <3>2
    <3> HIDE DEF S, values
    <3> QED BY <3>4, <3>5, <3>6
  <2> QED BY <2>2, <2>3
<1> HIDE DEF field, members
<1>5. AllOf(S, D) = StatusAttributes(at, n)
  <2>1. PICK g \in D : ~IsPlain(g)
    BY <1>1, MemberKind
  <2> DEFINE plain == {Own(h, at) : h \in {i \in D : IsPlain(i)}}
  <2>2. StatusAttributes(at, n) = plain \cup values
    BY DEF StatusAttributes, PlainAttributes, ValueAttributes, Own
  <2> HIDE DEF values, D
  <2>3. AllOf(S, D) \subseteq plain \cup values
    BY DEF AllOf
  <2>4. plain \subseteq AllOf(S, D)
    BY DEF AllOf
  <2>5. values \subseteq AllOf(S, D)
    BY <2>1 DEF AllOf
  <2> HIDE DEF plain
  <2> QED BY <2>2, <2>3, <2>4, <2>5
<1> HIDE DEF S, D
<1>6. HasRounds(results, Len(members), S, D)
  <2>1. \A k \in 1 .. Len(members) : \E g \in D : PushesAll(results[k], S[g])
    BY <1>2, <1>4
  <2>2. \A g \in D : \E k \in 1 .. Len(members) : PushesAll(results[k], S[g])
    BY <1>2, <1>4
  <2>3. results \in [1 .. Len(members) -> Result]
    BY <2>1 DEF PushesAll
  <2> HIDE DEF results
  <2> QED BY <1>2, <2>1, <2>2, <2>3 DEF HasRounds
<1> HIDE DEF results
<1> QED BY <1>3, <1>5, <1>6, FieldLoop DEF members

\* A round of a loop for each of the events.
EventRounds(events, n) == [i \in 1 .. n |-> Done(<<events[i]>>)]

\* A loop that pushes an event in each of its rounds pushes them in order.
LEMMA EventLoop ==
  ASSUME NEW n \in Nat, NEW events \in [1 .. n -> Event],
         NEW results, results = EventRounds(events, n),
         NEW out, out = UntilFailure(results).out
  PROVE  out \in Seq(Event) /\ Len(out) = n /\ \A i \in 1 .. n : out[i] = events[i]
<1> DEFINE I == {i \in 1 .. Len(results) : ~results[i].ok}
           failure == IF I # {} THEN Min(I) ELSE 0
           last == IF failure = 0 THEN Len(results) ELSE failure
           part == [i \in 1 .. last |-> results[i].out]
           seqs == [i \in 1 .. n |-> <<events[i]>>]
<1>1. Len(results) = n /\ \A i \in 1 .. n : results[i].ok /\ results[i].out = <<events[i]>>
  <2>1. results = [i \in 1 .. n |-> [out |-> <<events[i]>>, ok |-> TRUE]]
    BY DEF EventRounds, Done
  <2>2. Len(results) = n
    BY <2>1
  <2> QED BY <2>1, <2>2
<1>2. I = {}
  BY <1>1
<1>3. failure = 0 /\ last = n
  BY <1>1, <1>2
<1>4. part = seqs
  BY <1>1, <1>3
<1>5. out = FlattenSeq(part)
  BY DEF UntilFailure, SelectInSeq
<1>6. seqs \in Seq(Seq(Event)) /\ Len(seqs) = n
  <2>1. \A i \in 1 .. n : <<events[i]>> \in Seq(Event)
    OBVIOUS
  <2>2. seqs \in [1 .. n -> Seq(Event)]
    BY <2>1
  <2> QED BY <2>2, FunctionIsSeq
<1>7. \A i \in 1 .. n : Len(seqs[i]) = 1 /\ seqs[i][1] = events[i]
  OBVIOUS
<1> HIDE DEF part, seqs
<1>8. Len(FlattenSeq(seqs)) = n /\ \A i \in 1 .. n : Start(seqs, i) = i - 1
  <2>1. /\ Len(FlattenSeq(seqs)) = Len(seqs) * 1
        /\ \A i \in 1 .. Len(seqs) : Start(seqs, i) = (i - 1) * 1
    BY <1>6, <1>7, FlattenBlocks
  <2> QED BY <1>6, <2>1
<1>9. FlattenSeq(seqs) \in Seq(Event) /\ \A i \in 1 .. n : FlattenSeq(seqs)[i] = events[i]
  <2>1. /\ FlattenSeq(seqs) \in Seq(Event)
        /\ \A i \in 1 .. n : \A k \in 1 .. Len(seqs[i]) :
             FlattenSeq(seqs)[Start(seqs, i) + k] = seqs[i][k]
    <3> DEFINE E == Event
               len == Len(seqs)
    <3>1. seqs \in Seq(Seq(E)) /\ len = n
      BY <1>6
    <3> HIDE DEF E
    <3>2. FlattenSeq(seqs) \in Seq(E)
      BY <3>1, FlattenPlaces
    <3>3. \A i \in 1 .. len : \A k \in 1 .. Len(seqs[i]) :
            FlattenSeq(seqs)[Start(seqs, i) + k] = seqs[i][k]
      BY <3>1, FlattenPlaces, Zenon
    <3> HIDE DEF len
    <3> QED BY <3>1, <3>2, <3>3 DEF E
  <2>2. ASSUME NEW i \in 1 .. n PROVE FlattenSeq(seqs)[i] = events[i]
    <3>1. FlattenSeq(seqs)[Start(seqs, i) + 1] = seqs[i][1]
      BY <1>7, <2>1
    <3>2. Start(seqs, i) + 1 = i
      BY <1>8
    <3> QED BY <1>7, <3>1, <3>2
  <2> QED BY <2>1, <2>2
<1> QED BY <1>4, <1>5, <1>8, <1>9

\* The attributes of an event, past the name of the schema.
LEMMA EventAttributes ==
  ASSUME NEW first \in Event, Len(first) = 1, NEW p \in Event, NEW q \in Event
  PROVE  (first \o p) \o q \in Event /\ Attributes((first \o p) \o q) = Elements(p) \cup Elements(q)
<1> DEFINE event == (first \o p) \o q
           m == Len(p)
           n == Len(q)
<1>1. first \in Seq(Attribute) /\ p \in Seq(Attribute) /\ q \in Seq(Attribute)
      /\ m \in Nat /\ n \in Nat
  BY DEF Event
<1> DEFINE head == first \o p
<1>2. head \in Seq(Attribute) /\ Len(head) = 1 + m /\ \A k \in 1 .. m : head[k + 1] = p[k]
  <2>1. head \in Seq(Attribute) /\ Len(head) = Len(first) + m
    BY <1>1, ConcatProperties
  <2>2. ASSUME NEW k \in 1 .. m PROVE head[k + 1] = p[k]
    <3>1. k + 1 \in 1 .. Len(first) + m /\ ~(k + 1 <= Len(first)) /\ (k + 1) - Len(first) = k
      BY <1>1
    <3>2. head[k + 1] = IF k + 1 <= Len(first) THEN first[k + 1] ELSE p[(k + 1) - Len(first)]
      BY <1>1, <3>1, ConcatProperties
    <3> QED BY <3>1, <3>2
  <2> HIDE DEF head
  <2> QED BY <2>1, <2>2
<1> HIDE DEF head
<1>3. event \in Seq(Attribute) /\ Len(event) = 1 + m + n
  <2>1. head \o q \in Seq(Attribute) /\ Len(head \o q) = Len(head) + n
    BY <1>1, <1>2, ConcatProperties
  <2> QED BY <1>2, <2>1 DEF head
<1>4. \A k \in 1 .. m : event[k + 1] = p[k]
  <2>1. \A k \in 1 .. m : (head \o q)[k + 1] = head[k + 1]
    BY <1>1, <1>2
  <2> QED BY <1>2, <2>1 DEF head
<1>5. \A k \in 1 .. n : event[(k + 1) + m] = q[k]
  <2>1. \A k \in 1 .. n : (head \o q)[(k + 1) + m] = q[k]
    BY <1>1, <1>2
  <2> QED BY <2>1 DEF head
<1> HIDE DEF event
<1>6. Attributes(event) \subseteq Elements(p) \cup Elements(q)
  <2> SUFFICES ASSUME NEW k \in 2 .. Len(event) PROVE event[k] \in Elements(p) \cup Elements(q)
    BY DEF Attributes
  <2>1. CASE k <= 1 + m
    <3>1. k - 1 \in 1 .. m /\ (k - 1) + 1 = k
      BY <1>1, <1>3, <2>1
    <3>2. event[k] = p[k - 1]
      BY <1>4, <3>1
    <3> QED BY <3>1, <3>2 DEF Elements
  <2>2. CASE k > 1 + m
    <3> DEFINE j == k - (1 + m)
    <3>1. j \in 1 .. n /\ (j + 1) + m = k
      BY <1>1, <1>3, <2>2
    <3>2. event[k] = q[j]
      BY <1>5, <3>1
    <3> QED BY <3>1, <3>2 DEF Elements
  <2> QED BY <1>1, <1>3, <2>1, <2>2
<1>7. Elements(p) \subseteq Attributes(event)
  <2> SUFFICES ASSUME NEW k \in 1 .. m PROVE p[k] \in Attributes(event)
    BY DEF Elements
  <2>1. k + 1 \in 2 .. Len(event)
    BY <1>1, <1>3
  <2> QED BY <1>4, <2>1 DEF Attributes
<1>8. Elements(q) \subseteq Attributes(event)
  <2> SUFFICES ASSUME NEW k \in 1 .. n PROVE q[k] \in Attributes(event)
    BY DEF Elements
  <2>1. (k + 1) + m \in 2 .. Len(event)
    BY <1>1, <1>3
  <2> QED BY <1>5, <2>1 DEF Attributes
<1> QED BY <1>3, <1>6, <1>7, <1>8 DEF event, Event

\* The members outside of the status field are the scalars of the array.
LEMMA CommonRead ==
  ASSUME config.max_array_len \in Limit, NEW message, NEW pl, Shows(message, pl),
         NEW t, t = "DiagnosticArray", pl.type = t, message.size = SizeOf(t),
         NEW schema, IsSchemaOf(schema, t)
  PROVE  \E p \in Event : /\ CommonAttributes(schema, message) = SchemaName(schema) \o p
                          /\ Elements(p) = PlainAttributes(t, pl.path)
<1> DEFINE name == "status"
           members == schema.members
           D == InlineFields[t]
           at == pl.path
           field(m) == IF as_status_field(m) THEN Done(<<>>) ELSE Pushed(m, message)
           S == [g \in D |-> IF IsPlain(g) THEN {Own(g, at)} ELSE {}]
           results == [k \in 1 .. Len(members) |-> field(members[k])]
           p == IgnoringFailures(results)
<1>1. t \in Types /\ \A g \in D : IsPlain(g) \/ IsItems(g, name, "DiagnosticStatus")
  BY DiagnosticAssumption DEF IsSchemaOf
<1>2. /\ Len(members) \in Nat
      /\ \A k \in 1 .. Len(members) : \E g \in D : members[k] = FlatOf(g, <<>>, 0)
      /\ \A g \in D : \E k \in 1 .. Len(members) : members[k] = FlatOf(g, <<>>, 0)
  <2> DEFINE flat == FlatSchema(t).members
  <2>1. members = flat
    BY DEF IsSchemaOf
  <2>2. /\ Len(flat) \in Nat
        /\ \A k \in 1 .. Len(flat) : \E g \in D : flat[k] = FlatOf(g, <<>>, 0)
        /\ \A g \in D : \E k \in 1 .. Len(flat) : flat[k] = FlatOf(g, <<>>, 0)
    BY <1>1, SchemaMembers
  <2> HIDE DEF members, flat, D
  <2> QED BY <2>1, <2>2
<1>3. CommonAttributes(schema, message) = SchemaName(schema) \o p
  BY DEF CommonAttributes
<1>4. ASSUME NEW g \in D
      PROVE  PushesAll(field(FlatOf(g, <<>>, 0)), S[g])
  <2> DEFINE m == FlatOf(g, <<>>, 0)
             status == "DiagnosticStatus"
             r == field(m)
  <2>1. r = IF as_status_field(m) THEN Done(<<>>) ELSE Pushed(m, message)
    OBVIOUS
  <2> SUFFICES PushesAll(r, S[g])
    OBVIOUS
  <2> HIDE DEF r, field
  <2>2. CASE IsPlain(g)
    <3>1. ~as_status_field(m)
      BY <1>1, <2>2, MemberKind DEF as_status_field
    <3>2. PushesAll(Pushed(m, message), {Own(g, at)})
      BY <2>2, PlainPushed
    <3>3. S[g] = {Own(g, at)}
      BY <2>2
    <3>4. r = Pushed(m, message)
      BY <2>1, <3>1
    <3> HIDE DEF m, S
    <3> QED BY <3>2, <3>3, <3>4
  <2>3. CASE ~IsPlain(g)
    <3>1. IsItems(g, name, status)
      BY <1>1, <2>3
    <3>2. as_status_field(m)
      BY <1>1, <3>1, MemberKind DEF as_status_field
    <3>3. r = Done(<<>>) /\ S[g] = {}
      BY <2>1, <2>3, <3>2
    <3> HIDE DEF m, S
    <3> QED BY <3>3, NothingPushed, ResultFacts DEF PushesAll
  <2> QED BY <2>2, <2>3
<1> HIDE DEF field, members
<1>5. AllOf(S, D) = PlainAttributes(t, at)
  <2> DEFINE plain == {Own(h, at) : h \in {i \in D : IsPlain(i)}}
  <2>1. PlainAttributes(t, at) = plain
    BY DEF PlainAttributes, Own
  <2> HIDE DEF D
  <2>2. AllOf(S, D) \subseteq plain
    BY DEF AllOf
  <2>3. plain \subseteq AllOf(S, D)
    BY DEF AllOf
  <2> HIDE DEF plain
  <2> QED BY <2>1, <2>2, <2>3
<1> HIDE DEF S, D
<1>6. HasRounds(results, Len(members), S, D)
  <2>1. \A k \in 1 .. Len(members) : \E g \in D : PushesAll(results[k], S[g])
    BY <1>2, <1>4
  <2>2. \A g \in D : \E k \in 1 .. Len(members) : PushesAll(results[k], S[g])
    BY <1>2, <1>4
  <2>3. results \in [1 .. Len(members) -> Result]
    BY <2>1 DEF PushesAll
  <2> HIDE DEF results
  <2> QED BY <1>2, <2>1, <2>2, <2>3 DEF HasRounds
<1> HIDE DEF results
<1>7. p \in Event /\ Elements(p) = PlainAttributes(t, at)
  BY <1>5, <1>6, FieldLoop
<1> HIDE DEF p
<1> QED BY <1>3, <1>7

\* The events of a diagnostic message of the shape.
AreDiagnosticEvents(events, shape) ==
  /\ events \in Seq(Event) /\ Len(events) = ItemCount("status", shape)
  /\ \A i \in 1 .. Len(events) :
       Attributes(events[i]) =
         PlainAttributes("DiagnosticArray", <<>>) \cup
         StatusAttributes(<<"status", Decimal[i - 1]>>, ItemCount("values", shape))

\* A status item becomes an event with the common members, its own and its values.
IsStatusEvent(r, p, path, shape) ==
  \E event \in Event :
    /\ r = Done(<<event>>)
    /\ Attributes(event) =
         Elements(p) \cup StatusAttributes(path, ItemCount("values", shape))

LEMMA StatusItemRead ==
  ASSUME config.max_array_len \in Limit, "DiagnosticArray" \in Types,
         NEW item, NEW pl, Shows(item, pl), NEW t, t = "DiagnosticStatus", pl.type = t,
         item.size = SizeOf(t), NEW m, m.message_schema = t,
         NEW first \in Event, Len(first) = 1, NEW p \in Event,
         NEW common, common = first \o p
  PROVE  IsStatusEvent(StatusEvent(m, common, item), p, pl.path, pl.shape)
<1> DEFINE fields == StatusFields(FlatSchema(t).members, item)
           event == common \o fields.out
           own == StatusAttributes(pl.path, ItemCount("values", pl.shape))
<1>1. PushesAll(fields, own)
  BY StatusRead
<1>2. StatusEvent(m, common, item) = IF fields.ok THEN Done(<<event>>) ELSE Failed(<<>>)
  BY DEF StatusEvent, ItemEvent
<1> HIDE DEF fields, own
<1>3. fields.ok /\ fields.out \in Event /\ Elements(fields.out) = own
  BY <1>1 DEF PushesAll, Result, Event
<1>4. event \in Event /\ Attributes(event) = Elements(p) \cup own
  BY <1>3, EventAttributes
<1>5. StatusEvent(m, common, item) = Done(<<event>>)
  BY <1>2, <1>3
<1> HIDE DEF event
<1> QED BY <1>4, <1>5 DEF own, IsStatusEvent

\* A diagnostic message becomes an event for each of its status items.
LEMMA DiagnosticRead ==
  ASSUME config.max_array_len \in Limit, NEW message, NEW pl, Shows(message, pl),
         NEW t, t = "DiagnosticArray", pl.type = t, pl.path = <<>>, message.size = SizeOf(t),
         NEW schema, IsSchemaOf(schema, t)
  PROVE  AreDiagnosticEvents(DiagnosticEvents(schema, message), pl.shape)
<1> DEFINE name == "status"
           u == "DiagnosticStatus"
           members == schema.members
           D == InlineFields[t]
           n == ItemCount(name, pl.shape)
           values == ItemCount("values", pl.shape)
           common == CommonAttributes(schema, message)
           first == SchemaName(schema)
           events == DiagnosticEvents(schema, message)
           I == {k \in 1 .. Len(members) : as_status_field(members[k])}
           status == IF I # {} THEN Min(I) ELSE 0
           m == members[status]
           item(i) == MessageItem(m, message, i - 1)
           results == [i \in 1 .. n |-> StatusEvent(m, common, item(i))]
           at(i) == <<name, Decimal[i - 1]>>
<1>1. /\ t \in Types /\ \E g \in D : IsItems(g, name, u)
      /\ \A g \in D : IsPlain(g) \/ IsItems(g, name, u)
  BY DiagnosticAssumption DEF IsSchemaOf
<1>2. /\ Len(members) \in Nat
      /\ \A k \in 1 .. Len(members) : \E g \in D : members[k] = FlatOf(g, <<>>, 0)
      /\ \A g \in D : \E k \in 1 .. Len(members) : members[k] = FlatOf(g, <<>>, 0)
  <2> DEFINE flat == FlatSchema(t).members
  <2>1. members = flat
    BY DEF IsSchemaOf
  <2>2. /\ Len(flat) \in Nat
        /\ \A k \in 1 .. Len(flat) : \E g \in D : flat[k] = FlatOf(g, <<>>, 0)
        /\ \A g \in D : \E k \in 1 .. Len(flat) : flat[k] = FlatOf(g, <<>>, 0)
    BY <1>1, SchemaMembers
  <2> HIDE DEF members, flat, D
  <2> QED BY <2>1, <2>2
<1>3. status \in I /\ status # 0
  <2>1. PICK g \in D : IsItems(g, name, u)
    BY <1>1
  <2>2. PICK k \in 1 .. Len(members) : members[k] = FlatOf(g, <<>>, 0)
    BY <1>2
  <2>3. as_status_field(members[k])
    BY <1>1, <2>1, <2>2, MemberKind DEF as_status_field
  <2>4. I # {} /\ I \in SUBSET Nat
    BY <2>2, <2>3
  <2>5. 0 \notin I
    OBVIOUS
  <2> HIDE DEF I
  <2>6. Min(I) \in I
    BY <2>4, MinOf
  <2> QED BY <2>4, <2>5, <2>6
<1>4. events = StatusEvents(m, common, message)
  <2>1. events = IF status = 0 THEN <<common>> ELSE StatusEvents(members[status], common, message)
    BY DEF DiagnosticEvents, EventPerStatus, SelectInSeq
  <2> HIDE DEF status
  <2> QED BY <1>3, <2>1
<1>5. PICK g \in D : m = FlatOf(g, <<>>, 0) /\ IsItems(g, name, u)
  <2> HIDE DEF status
  <2>1. status \in 1 .. Len(members) /\ as_status_field(m)
    BY <1>3
  <2>2. PICK g \in D : m = FlatOf(g, <<>>, 0)
    BY <1>2, <2>1
  <2>3. ~IsPlain(g)
    BY <1>1, <2>1, <2>2, MemberKind DEF as_status_field
  <2> HIDE DEF m
  <2> QED BY <1>1, <2>2, <2>3
<1> HIDE DEF m, members, status, I
<1>6. AreItems(m, name, u, message, pl)
  BY <1>5, ItemsFound
<1>7. PICK p \in Event : common = first \o p /\ Elements(p) = PlainAttributes(t, pl.path)
  BY CommonRead
<1>8. first \in Event /\ Len(first) = 1
  BY SchemaNameType DEF IsSchemaOf
<1> HIDE DEF common, first, events
<1>9. /\ InSlice(m, message) /\ m.has_get /\ item_count(m, message) = n /\ n \in Nat
      /\ m.message_schema = u
  <2>1. InSlice(m, message) /\ m.has_get /\ item_count(m, message) = n /\ n \in 0 .. UsizeLimit - 1
    BY <1>6 DEF AreItems
  <2>2. m.message_schema = u
    BY <1>6 DEF AreItems, IsSequenceOf
  <2> QED BY <2>1, <2>2, DefaultsAreNumbers
<1>10. ASSUME NEW i \in 1 .. n
       PROVE  \E event \in Event :
                /\ results[i] = Done(<<event>>)
                /\ Attributes(event) = Elements(p) \cup StatusAttributes(at(i), values)
  <2>1. PICK place : /\ Shows(item(i), place) /\ item(i).size = SizeOf(u)
                     /\ place.type = u /\ place.shape = pl.shape
                     /\ place.path = pl.path \o at(i)
    BY <1>6 DEF AreItems
  <2>2. place.path = at(i)
    <3> DEFINE d == Decimal[i - 1]
    <3>1. n \in 0 .. UsizeLimit - 1 /\ name \in STRING
      BY <1>6 DEF AreItems
    <3>2. d \in STRING
      BY <3>1, IndexFacts
    <3>3. at(i) \in Path
      <4> HIDE DEF name, d
      <4>1. <<>> \in Path
        BY DEF Path
      <4> QED BY <3>1, <3>2, <4>1, TwoSegments DEF d
    <3> HIDE DEF at
    <3> QED BY <2>1, <3>3, PathFacts
  <2> HIDE DEF at, item
  <2>3. results[i] = StatusEvent(m, common, item(i))
    OBVIOUS
  <2> HIDE DEF results
  <2>4. IsStatusEvent(StatusEvent(m, common, item(i)), p, place.path, place.shape)
    <3> DEFINE it == item(i)
    <3>1. Shows(it, place) /\ place.type = u
      BY <2>1
    <3>2. it.size = SizeOf(u)
      BY <2>1
    <3>3. "DiagnosticArray" \in Types /\ config.max_array_len \in Limit
      BY <1>1
    <3>4. m.message_schema = u
      BY <1>9
    <3>5. first \in Event /\ Len(first) = 1
      BY <1>8
    <3>6. p \in Event /\ common = first \o p
      BY <1>7
    <3>7. u = "DiagnosticStatus"
      OBVIOUS
    <3> HIDE DEF u, it
    <3>8. IsStatusEvent(StatusEvent(m, common, it), p, place.path, place.shape)
      BY <3>1, <3>2, <3>3, <3>4, <3>5, <3>6, <3>7, StatusItemRead
    <3> QED BY <3>8 DEF it
  <2> QED BY <2>1, <2>2, <2>3, <2>4 DEF IsStatusEvent
<1>11. PICK made \in [1 .. n -> Event] : \A i \in 1 .. n :
         /\ results[i] = Done(<<made[i]>>)
         /\ Attributes(made[i]) = Elements(p) \cup StatusAttributes(at(i), values)
  <2> DEFINE Is(i, event) ==
               /\ results[i] = Done(<<event>>)
               /\ Attributes(event) = Elements(p) \cup StatusAttributes(at(i), values)
             chosen == [i \in 1 .. n |-> CHOOSE event \in Event : Is(i, event)]
  <2> HIDE DEF Is
  <2>1. \A i \in 1 .. n : \E event \in Event : Is(i, event)
    BY <1>10 DEF Is
  <2>2. chosen \in [1 .. n -> Event] /\ \A i \in 1 .. n : Is(i, chosen[i])
    BY <2>1
  <2> HIDE DEF chosen
  <2> QED BY <2>2 DEF Is
<1>12. results = EventRounds(made, n)
  BY <1>11 DEF EventRounds
<1>13. events = UntilFailure(results).out
  BY <1>4, <1>9 DEF StatusEvents, for_each_item
<1> HIDE DEF results, n
<1>14. events \in Seq(Event) /\ Len(events) = n /\ \A i \in 1 .. n : events[i] = made[i]
  BY <1>9, <1>12, <1>13, EventLoop
<1>15. \A i \in 1 .. Len(events) :
         Attributes(events[i]) = PlainAttributes(t, <<>>) \cup StatusAttributes(at(i), values)
  BY <1>7, <1>11, <1>14
<1> QED BY <1>14, <1>15 DEF AreDiagnosticEvents, events, n

-----------------------------------------------------------------------------
(* The inductive invariant of the hooks.                                    *)

\* The handle of a whole message, and the event that is made of it.
Whole(t, shape, size, lang, junk) ==
  [of |-> t, at |-> <<>>, base |-> 0, size |-> size, lang |-> lang,
   shape |-> shape, junk |-> junk]
EventOf(schema, message, limit) ==
  NamedByLogMessage(schema,
    SchemaName(schema) \o InterpretMembers(schema.members, message, limit))

\* An endpoint of a topic or of a service, with the entry the hook made for it.
IsTopicEndpoint ==
  /\ endpoint.role \in {"publisher", "subscription"}
  /\ endpoint.request \in Types /\ endpoint.response = endpoint.request
  /\ endpoint.lang \in Langs
  /\ entry = IF endpoint.topic \in config.ignored_topics THEN NoEntry
             ELSE [request |-> FlatSchema(endpoint.request),
                   response |-> FlatSchema(endpoint.request)]
IsServiceEndpoint ==
  /\ endpoint.role \in {"service", "client"}
  /\ endpoint.lang \in Langs
  /\ \E service \in Services :
       /\ endpoint.request = service.request /\ endpoint.response = service.response
       /\ entry = from_service_type_support(service)

EndpointInv ==
  /\ env \in Environments /\ config = from_env(env)
  /\ endpoint = NoEndpoint => entry = NoEntry /\ handled = NoMessage
  /\ endpoint # NoEndpoint => IsTopicEndpoint \/ IsServiceEndpoint

\* What was captured is what the schema of the message's direction makes of it,
\* and of a diagnostic message the events of its status items.
CapturedInv ==
  /\ handled = NoMessage => captured = <<>>
  /\ handled # NoMessage =>
       /\ endpoint # NoEndpoint
       /\ handled.direction \in {"request", "response"}
       /\ handled.t = endpoint[handled.direction] /\ handled.shape \in MessageShapes
       /\ entry = NoEntry => captured = <<>>
       /\ entry # NoEntry /\ IsDiagnostic => AreDiagnosticEvents(captured, handled.shape)
       /\ entry # NoEntry /\ ~IsDiagnostic =>
            \E junk \in JunkNumbers :
              captured = <<EventOf(entry[handled.direction],
                                   Whole(handled.t, handled.shape, VisibleSize,
                                         endpoint.lang, junk),
                                   config.max_array_len)>>

IInv == EndpointInv /\ CapturedInv

\* A configuration's limit is one that an array may have.
LEMMA ConfigFacts ==
  ASSUME NEW e \in Environments
  PROVE  /\ from_env(e).max_array_len \in Limit
         /\ from_env(e).buffer_size \in Nat
<1>1. /\ DefaultArrayLen \in 0 .. UsizeLimit - 1 /\ DefaultBufferSize \in 0 .. UsizeLimit - 1
  BY DefaultsAreNumbers
<1>2. from_env(e).max_array_len = usize_env_var(e.max_array_len, DefaultArrayLen)
      /\ from_env(e).buffer_size = usize_env_var(e.buffer_size, DefaultBufferSize)
  BY DEF from_env
<1>3. usize_env_var(e.max_array_len, DefaultArrayLen) \in 0 .. UsizeLimit - 1
      /\ usize_env_var(e.buffer_size, DefaultBufferSize) \in 0 .. UsizeLimit - 1
  BY <1>1 DEF usize_env_var
<1>4. usize_env_var(e.max_array_len, DefaultArrayLen) < Address
  <2>1. e.max_array_len.kind = "text" =>
          e.max_array_len.number \notin Address .. UsizeLimit - 1
    BY AddressAssumption
  <2>2. Address \in Nat /\ DefaultArrayLen < Address /\ UsizeLimit \in Nat
    BY AddressAssumption, DefaultsAreNumbers
  <2> QED BY <1>1, <2>1, <2>2 DEF usize_env_var, string_env_var
<1> HIDE DEF from_env
<1> QED BY <1>2, <1>3, <1>4 DEF Limit

\* The schema an entry has for a type.
HasSchema(schema, t) == IsSchemaOf(schema, t) /\ schema.size = SizeOf(t)

\* The entry of a topic has the schema of the topic's type,
LEMMA TopicSchema ==
  ASSUME NEW t \in Types
  PROVE  HasSchema(FlatSchema(t), t) /\ FlatSchema(t).name = t
<1>1. FlatSchema(t).name = t /\ FlatSchema(t).size = SizeOf(t)
  BY FlatSchemaIsFlat
<1>2. t \in STRING
  BY EndpointsAssumption
<1> QED BY <1>1, <1>2 DEF HasSchema, IsSchemaOf

\* that of a service those of its types, under the name of the service.
LEMMA ServiceSchema ==
  ASSUME NEW service \in Services
  PROVE  LET e == from_service_type_support(service)
         IN /\ HasSchema(e.request, service.request) /\ e.request.name # "Log"
            /\ HasSchema(e.response, service.response) /\ e.response.name # "Log"
            /\ e # NoEntry
<1> DEFINE name == service.name
           Renaming(t) == [FlatSchema(t) EXCEPT !.name = name]
<1>1. /\ name \in STRING /\ name # "Log"
      /\ service.request \in Types /\ service.response \in Types
  BY EndpointsAssumption
<1>2. ASSUME NEW t \in Types PROVE HasSchema(Renaming(t), t) /\ Renaming(t).name = name
  <2> DEFINE members == FlatSchema(t).members
             size == SizeOf(t)
  <2>1. FlatSchema(t) = [name |-> t, size |-> size, members |-> members]
    BY DEF FlatSchema, from_nested_members, from_message_type_support
  <2> HIDE DEF members, size, name
  <2>2. Renaming(t) = [name |-> name, size |-> size, members |-> members]
    BY <2>1
  <2>3. Renaming(t).name = name /\ Renaming(t).size = size /\ Renaming(t).members = members
    BY <2>2
  <2> QED BY <1>1, <2>3 DEF HasSchema, IsSchemaOf, size, members
<1> HIDE DEF Renaming
<1>3. from_service_type_support(service) =
        [request |-> Renaming(service.request), response |-> Renaming(service.response)]
  BY DEF from_service_type_support, Renaming
<1> QED BY <1>1, <1>2, <1>3 DEF NoEntry

\* The invariant holds initially.
LEMMA CaptureInit == Init => IInv
BY DEF Init, IInv, EndpointInv, CapturedInv, IsDiagnostic, VisibleSize, NoEndpoint, NoMessage

\* An endpoint is created: nothing was handled yet.
LEMMA TopicCreated ==
  ASSUME IInv, NEW role \in {"publisher", "subscription"}, NEW topic \in Topics,
         NEW t \in Messages, NEW lang \in Langs, CreateTopicEndpoint(role, topic, t, lang)
  PROVE  IInv'
<1>1. t \in Types
  BY EndpointsAssumption
<1>2. /\ endpoint = NoEndpoint /\ handled = NoMessage /\ captured = <<>>
      /\ env' = env /\ config' = config /\ handled' = handled /\ captured' = captured
      /\ endpoint' = [role |-> role, topic |-> topic, lang |-> lang, request |-> t, response |-> t]
      /\ entry' = IF topic \in config.ignored_topics THEN NoEntry
                  ELSE [request |-> FlatSchema(t), response |-> FlatSchema(t)]
  BY DEF CreateTopicEndpoint, Creates, IInv, EndpointInv, CapturedInv
<1>3. /\ endpoint'.role = role /\ endpoint'.topic = topic /\ endpoint'.lang = lang
      /\ endpoint'.request = t /\ endpoint'.response = t
  BY <1>2
<1>4. IsTopicEndpoint'
  BY <1>1, <1>2, <1>3 DEF IsTopicEndpoint
<1>5. EndpointInv'
  BY <1>2, <1>3, <1>4 DEF IInv, EndpointInv, NoEndpoint
<1>6. CapturedInv'
  BY <1>2 DEF CapturedInv
<1> QED BY <1>5, <1>6 DEF IInv

\* A service or a client is created.
LEMMA ServiceCreated ==
  ASSUME IInv, NEW role \in {"service", "client"}, NEW service \in Services, NEW lang \in Langs,
         CreateServiceEndpoint(role, service, lang)
  PROVE  IInv'
<1>1. /\ endpoint = NoEndpoint /\ handled = NoMessage /\ captured = <<>>
      /\ env' = env /\ config' = config /\ handled' = handled /\ captured' = captured
      /\ endpoint' = [role |-> role, topic |-> "none", lang |-> lang,
                      request |-> service.request, response |-> service.response]
      /\ entry' = from_service_type_support(service)
  BY DEF CreateServiceEndpoint, Creates, IInv, EndpointInv, CapturedInv
<1>2. /\ endpoint'.role = role /\ endpoint'.lang = lang
      /\ endpoint'.request = service.request /\ endpoint'.response = service.response
  BY <1>1
<1>3. IsServiceEndpoint'
  BY <1>1, <1>2 DEF IsServiceEndpoint
<1>4. EndpointInv'
  BY <1>1, <1>2, <1>3 DEF IInv, EndpointInv, NoEndpoint
<1>5. CapturedInv'
  BY <1>1 DEF CapturedInv
<1> QED BY <1>4, <1>5 DEF IInv

\* The handle of a whole message is one.
LEMMA WholeType ==
  ASSUME NEW t \in Types, NEW shape \in MessageShapes, NEW size \in Nat, NEW lang \in Langs,
         NEW junk \in JunkNumbers
  PROVE  Whole(t, shape, size, lang, junk) \in Message
<1>1. junk \in Nat /\ <<>> \in Path /\ 0 \in Nat
  BY MemoryAssumption DEF Path
<1> QED BY <1>1 DEF Whole, Message

\* Where a whole message is.
PlaceOf(t, lang, shape) == [type |-> t, path |-> <<>>, lang |-> lang, shape |-> shape]

\* The handle of a whole message shows the message.
LEMMA WholeShows ==
  ASSUME NEW t \in Types, NEW shape \in MessageShapes, NEW size \in Nat, NEW lang \in Langs,
         NEW junk \in JunkNumbers
  PROVE  Shows(Whole(t, shape, size, lang, junk), PlaceOf(t, lang, shape))
<1> DEFINE message == Whole(t, shape, size, lang, junk)
           pl == PlaceOf(t, lang, shape)
<1>1. message \in Message /\ <<>> \in Path
  BY WholeType DEF Path
<1>2. pl \in Place
  BY <1>1 DEF PlaceOf, Place
<1>3. message.of = t /\ message.at = <<>> /\ message.base = 0
      /\ message.lang = lang /\ message.shape = shape
  BY DEF Whole
<1>4. pl.type = t /\ pl.path = <<>> /\ pl.lang = lang /\ pl.shape = shape
  BY DEF PlaceOf
<1> HIDE DEF message, pl
<1>5. SizeOf(t) \in Nat
  BY SizeType
<1>6. \A k \in 1 .. SizeOf(t) : 0 + k = k /\ k \in 1 .. SizeOf(t)
  BY <1>5
<1>7. \A k \in 1 .. SizeOf(pl.type) :
       /\ message.base + k \in 1 .. SizeOf(message.of)
       /\ message.at \o Layout[message.of][message.base + k].path =
            pl.path \o Layout[pl.type][k].path
       /\ Layout[message.of][message.base + k].field = Layout[pl.type][k].field
  BY <1>3, <1>4, <1>6
<1>8. Shows(message, pl)
  BY <1>1, <1>2, <1>3, <1>4, <1>7 DEF Shows
<1> QED BY <1>8 DEF message, pl

\* A message is handled, and what is captured is what its schema makes of it.
LEMMA MessageHandled ==
  ASSUME IInv, endpoint # NoEndpoint, NEW direction \in {"request", "response"},
         NEW shape \in MessageShapes, NEW junk \in JunkNumbers, NEW role,
         Handles(role, direction, shape),
         entry = NoEntry => captured' = captured,
         entry # NoEntry /\ IsDiagnostic' => AreDiagnosticEvents(captured', shape),
         entry # NoEntry /\ ~IsDiagnostic' =>
           captured' = <<EventOf(entry[direction],
                                 Whole(endpoint[direction], shape, VisibleSize',
                                       endpoint.lang, junk),
                                 config.max_array_len)>>
  PROVE  IInv'
<1>1. /\ handled = NoMessage /\ captured = <<>>
      /\ env' = env /\ config' = config /\ endpoint' = endpoint /\ entry' = entry
      /\ handled' = [t |-> endpoint[direction], shape |-> shape, direction |-> direction]
  BY DEF Handles, IInv, CapturedInv
<1>2. /\ handled'.t = endpoint[direction] /\ handled'.shape = shape
      /\ handled'.direction = direction /\ handled' # NoMessage
  BY <1>1 DEF NoMessage
<1>3. EndpointInv'
  BY <1>1 DEF IInv, EndpointInv, IsTopicEndpoint, IsServiceEndpoint
<1>4. CapturedInv'
  <2>1. handled'.t = endpoint'[handled'.direction] /\ endpoint' # NoEndpoint'
    BY <1>1, <1>2 DEF NoEndpoint
  <2>2. entry' = NoEntry => captured' = <<>>
    BY <1>1 DEF NoEntry
  <2>3. entry' # NoEntry /\ ~IsDiagnostic' =>
          captured' = <<EventOf(entry'[handled'.direction],
                                Whole(handled'.t, handled'.shape, VisibleSize',
                                      endpoint'.lang, junk),
                                config'.max_array_len)>>
    BY <1>1, <1>2
  <2>4. entry' # NoEntry /\ IsDiagnostic' => AreDiagnosticEvents(captured', handled'.shape)
    BY <1>1, <1>2
  <2>5. (entry # NoEntry)' /\ (~IsDiagnostic)' =>
          \E j \in JunkNumbers :
            captured' = <<EventOf(entry'[handled'.direction],
                                Whole(handled'.t, handled'.shape, VisibleSize',
                                      endpoint'.lang, j),
                                config'.max_array_len)>>
    BY <2>3 DEF NoEntry
  <2>6. (entry = NoEntry)' => captured' = <<>>
    BY <2>2 DEF NoEntry
  <2>7. (entry # NoEntry)' /\ IsDiagnostic' => AreDiagnosticEvents(captured', handled'.shape)
    BY <2>4 DEF NoEntry
  <2> QED BY <1>2, <2>1, <2>5, <2>6, <2>7 DEF CapturedInv
<1> QED BY <1>3, <1>4 DEF IInv

\* A publisher or a subscription handles a message.
LEMMA TopicHandled ==
  ASSUME IInv, endpoint # NoEndpoint, NEW role \in {"publisher", "subscription"},
         NEW shape \in Shapes(endpoint.request), NEW junk \in JunkNumbers,
         TopicMessage(role, shape, junk)
  PROVE  IInv'
<1> DEFINE t == endpoint.request
           schema == FlatSchema(t)
           message == Whole(t, shape, SizeOf(t), endpoint.lang, junk)
<1>1. /\ Handles(role, "request", shape) /\ endpoint.role = role
      /\ endpoint' = endpoint /\ config' = config
      /\ handled' = [t |-> t, shape |-> shape, direction |-> "request"]
  BY DEF TopicMessage, Handles
<1>2. IsTopicEndpoint
  BY <1>1 DEF IInv, EndpointInv, IsServiceEndpoint
<1>3. t \in Types /\ endpoint.lang \in Langs /\ config.max_array_len \in Limit
      /\ shape \in MessageShapes /\ SizeOf(t) \in Nat
  <2>1. t \in Types /\ endpoint.lang \in Langs
    BY <1>2 DEF IsTopicEndpoint
  <2>2. config.max_array_len \in Limit
    BY ConfigFacts DEF IInv, EndpointInv
  <2>3. shape \in MessageShapes
    BY <2>1, MemoryAssumption
  <2> QED BY <2>1, <2>2, <2>3, SizeType
<1>4. HasSchema(schema, t) /\ schema.name = t /\ schema.size = SizeOf(t)
  BY <1>3, TopicSchema DEF HasSchema
<1>5. VisibleSize' = SizeOf(t)
  <2>1. endpoint'.role # "service" /\ handled'.t = t
    BY <1>1
  <2> QED BY <2>1 DEF VisibleSize
<1>6. IsDiagnostic' <=> t = "DiagnosticArray"
  <2>1. endpoint'.role \in {"publisher", "subscription"} /\ handled'.t = t
    BY <1>1
  <2> QED BY <2>1 DEF IsDiagnostic
<1> DEFINE pl == PlaceOf(t, endpoint.lang, shape)
<1>7. /\ Shows(message, pl) /\ message.size = SizeOf(t) /\ IsSchemaOf(schema, t)
      /\ pl.type = t /\ pl.path = <<>> /\ pl.shape = shape
  <2>1. Shows(message, pl)
    BY <1>3, WholeShows
  <2>2. message.size = SizeOf(t) /\ pl.type = t /\ pl.path = <<>> /\ pl.shape = shape
    BY DEF Whole, PlaceOf
  <2>3. IsSchemaOf(schema, t)
    BY <1>4 DEF HasSchema
  <2> QED BY <2>1, <2>2, <2>3
<1> HIDE DEF pl
<1>8. CASE entry = NoEntry
  <2>1. captured' = captured
    BY <1>8 DEF TopicMessage
  <2> QED BY <1>1, <1>3, <1>8, <2>1, MessageHandled
<1>9. CASE entry # NoEntry
  <2>1. entry.request = schema
    BY <1>2, <1>9 DEF IsTopicEndpoint
  <2>2. captured' = interpret_potentially_compound_message(schema, message)
    <3> HIDE DEF schema
    <3>1. captured' = interpret_potentially_compound_message(schema,
                        Slice(t, shape, schema.size, junk))
      BY <1>9, <2>1 DEF TopicMessage
    <3>2. Slice(t, shape, schema.size, junk) = message
      BY <1>4 DEF Slice, Whole
    <3> QED BY <3>1, <3>2
  <2> HIDE DEF schema, message
  <2>3. t = "DiagnosticArray" => AreDiagnosticEvents(captured', shape)
    <3> SUFFICES ASSUME t = "DiagnosticArray" PROVE AreDiagnosticEvents(captured', shape)
      OBVIOUS
    <3>1. captured' = DiagnosticEvents(schema, message)
      BY <1>4, <2>2 DEF interpret_potentially_compound_message
    <3> QED BY <1>3, <1>7, <3>1, DiagnosticRead
  <2>4. t # "DiagnosticArray" => captured' = <<EventOf(schema, message, config.max_array_len)>>
    BY <1>4, <2>2 DEF interpret_potentially_compound_message, interpret_single_message, EventOf
  <2>5. t # "DiagnosticArray" =>
          captured' = <<EventOf(entry["request"],
                                Whole(endpoint["request"], shape, VisibleSize',
                                      endpoint.lang, junk),
                                config.max_array_len)>>
    BY <1>5, <2>1, <2>4 DEF message
  <2> QED BY <1>1, <1>3, <1>6, <1>9, <2>3, <2>5, MessageHandled
<1> QED BY <1>8, <1>9

\* A service or a client handles a request or a response.
LEMMA ServiceHandled ==
  ASSUME IInv, endpoint # NoEndpoint, NEW role \in {"service", "client"},
         NEW direction \in {"request", "response"},
         NEW shape \in Shapes(endpoint[direction]), NEW junk \in JunkNumbers,
         NEW size, size = IF role = "service" /\ direction = "response"
                            THEN entry.request.size ELSE entry[direction].size,
         Handles(role, direction, shape),
         captured' = <<interpret_single_message(entry[direction],
                         Slice(endpoint[direction], shape, size, junk))>>
  PROVE  IInv'
<1> DEFINE t == endpoint[direction]
           schema == entry[direction]
<1>1. /\ endpoint.role = role /\ endpoint' = endpoint
      /\ handled' = [t |-> t, shape |-> shape, direction |-> direction]
  BY DEF Handles
<1>2. PICK service \in Services :
        /\ endpoint.request = service.request /\ endpoint.response = service.response
        /\ entry = from_service_type_support(service)
  BY <1>1 DEF IInv, EndpointInv, IsTopicEndpoint, IsServiceEndpoint
<1>3. /\ endpoint.request \in Types /\ endpoint.response \in Types
      /\ HasSchema(entry.request, endpoint.request) /\ HasSchema(entry.response, endpoint.response)
      /\ entry # NoEntry
  <2>1. service.request \in Types /\ service.response \in Types
    BY EndpointsAssumption
  <2> QED BY <1>2, <2>1, ServiceSchema
<1>4. t \in Types /\ shape \in MessageShapes
  <2>1. t \in Types
    BY <1>3
  <2> QED BY <2>1, MemoryAssumption
<1>5. size = VisibleSize'
  <2>1. /\ endpoint'.role = role /\ handled'.direction = direction /\ handled'.t = t
        /\ endpoint'.request = endpoint.request
    BY <1>1
  <2>2. VisibleSize' = IF role = "service" /\ direction = "response"
                         THEN SizeOf(endpoint.request) ELSE SizeOf(t)
    BY <2>1 DEF VisibleSize
  <2>3. entry.request.size = SizeOf(endpoint.request) /\ schema.size = SizeOf(t)
    BY <1>3 DEF HasSchema
  <2> QED BY <2>2, <2>3
<1>6. ~IsDiagnostic'
  BY <1>1 DEF IsDiagnostic
<1>7. captured' = <<EventOf(schema, Whole(t, shape, size, endpoint.lang, junk),
                            config.max_array_len)>>
  BY DEF interpret_single_message, EventOf, Slice, Whole
<1> QED BY <1>3, <1>4, <1>5, <1>6, <1>7, MessageHandled

\* Every step keeps the invariant.
LEMMA CaptureNext == IInv /\ [Next]_vars => IInv'
<1> SUFFICES ASSUME IInv, [Next]_vars PROVE IInv'
  OBVIOUS
<1>1. ASSUME NEW topic \in Topics, NEW t \in Messages, NEW lang \in Langs,
             TopicHook(topic, t, lang)
      PROVE  IInv'
  <2>1. CASE modality_after_rmw_create_publisher(topic, t, lang)
    BY <2>1, TopicCreated DEF modality_after_rmw_create_publisher
  <2>2. CASE modality_after_rmw_create_subscription(topic, t, lang)
    BY <2>2, TopicCreated DEF modality_after_rmw_create_subscription
  <2> QED BY <1>1, <2>1, <2>2 DEF TopicHook
<1>2. ASSUME NEW service \in Services, NEW lang \in Langs, ServiceHook(service, lang)
      PROVE  IInv'
  <2>1. CASE modality_after_rmw_create_service(service, lang)
    BY <2>1, ServiceCreated DEF modality_after_rmw_create_service
  <2>2. CASE modality_after_rmw_create_client(service, lang)
    BY <2>2, ServiceCreated DEF modality_after_rmw_create_client
  <2> QED BY <1>2, <2>1, <2>2 DEF ServiceHook
<1>3. ASSUME endpoint # NoEndpoint, NEW junk \in JunkNumbers, NEW shape \in Shapes(endpoint.request),
             \/ modality_before_rmw_publish(shape, junk)
             \/ modality_after_rmw_take_with_info(shape, junk)
             \/ modality_after_rmw_send_request(shape, junk)
             \/ modality_after_rmw_take_request(shape, junk)
      PROVE  IInv'
  <2>1. CASE modality_before_rmw_publish(shape, junk)
    BY <1>3, <2>1, TopicHandled DEF modality_before_rmw_publish
  <2>2. CASE modality_after_rmw_take_with_info(shape, junk)
    BY <1>3, <2>2, TopicHandled DEF modality_after_rmw_take_with_info
  <2>3. ASSUME NEW role \in {"service", "client"}, RequestMessage(role, shape, junk)
        PROVE  IInv'
    BY <1>3, <2>3, ServiceHandled DEF RequestMessage
  <2>4. CASE modality_after_rmw_send_request(shape, junk)
    BY <2>3, <2>4 DEF modality_after_rmw_send_request
  <2>5. CASE modality_after_rmw_take_request(shape, junk)
    BY <2>3, <2>5 DEF modality_after_rmw_take_request
  <2> QED BY <1>3, <2>1, <2>2, <2>4, <2>5
<1>4. ASSUME endpoint # NoEndpoint, NEW junk \in JunkNumbers, NEW shape \in Shapes(endpoint.response),
             \/ modality_after_rmw_send_response(shape, junk)
             \/ modality_after_rmw_take_response(shape, junk)
      PROVE  IInv'
  <2>1. CASE modality_after_rmw_send_response(shape, junk)
    BY <1>4, <2>1, ServiceHandled DEF modality_after_rmw_send_response, ResponseMessage
  <2>2. CASE modality_after_rmw_take_response(shape, junk)
    BY <1>4, <2>2, ServiceHandled DEF modality_after_rmw_take_response, ResponseMessage
  <2> QED BY <1>4, <2>1, <2>2
<1>5. CASE UNCHANGED vars
  BY <1>5 DEF vars, IInv, EndpointInv, CapturedInv, IsTopicEndpoint, IsServiceEndpoint,
              IsDiagnostic, VisibleSize
<1> QED BY <1>1, <1>2, <1>3, <1>4, <1>5 DEF Next

\* The invariant holds in every reachable state.
LEMMA CaptureInvariant == Spec => []IInv
BY CaptureInit, CaptureNext, PTL DEF Spec

-----------------------------------------------------------------------------
(* What the invariant says of an event.                                     *)

\* What is in the attributes of a whole message.
IsContent(t, pl, size, limit, kvs) ==
  /\ kvs \in Event
  /\ \A a \in Elements(kvs) : \E u \in Units[pl] : Backed(a, u, limit)
  /\ \A g \in InlineFields[t] :
       (\A u \in UnitsOf(g, pl, Units) : ~Fails(u, pl.shape)) /\ g.base + g.own <= size =>
         \A u \in UnitsOf(g, pl, Units) : Seen(u, limit) =>
           \A key \in Keys(u) : True(key) \in Elements(kvs)

\* Every attribute of a whole message tells what is there, and every member that
\* does not fail is read.
LEMMA WholeRead ==
  ASSUME NEW t \in Types, NEW shape \in MessageShapes, NEW size \in Nat, NEW lang \in Langs,
         NEW junk \in JunkNumbers, NEW limit \in Limit
  PROVE  IsContent(t, PlaceOf(t, lang, shape), size, limit,
                   InterpretMembers(FlatSchema(t).members,
                                    Whole(t, shape, size, lang, junk), limit))
<1> DEFINE message == Whole(t, shape, size, lang, junk)
           pl == PlaceOf(t, lang, shape)
           members == FlatSchema(t).members
           kvs == InterpretMembers(members, message, limit)
           results == ReadResults(message, pl, limit)
<1>1. message \in Message /\ pl \in Place /\ Shows(message, pl)
      /\ pl.type = t /\ pl.path = <<>> /\ message.size = size
  <2>1. Shows(message, pl)
    BY WholeShows
  <2>2. pl.type = t /\ pl.path = <<>> /\ message.size = size
    BY DEF PlaceOf, Whole
  <2> QED BY <2>1, <2>2, ShownTypes
<1>2. kvs = IgnoringFailures(results) /\ kvs \in Event
  <2>1. kvs \in Event
    BY <1>1, MembersType
  <2> HIDE DEF message, pl
  <2> QED BY <1>1, <2>1 DEF InterpretMembers, ReadResults
<1> HIDE DEF message, pl, kvs
<1>3. AllRead(message, pl, limit)
  BY <1>1, EveryFieldRead
<1>4. AreReadings(results, message, pl, limit)
  BY <1>1, <1>3, MembersRead
<1> HIDE DEF results, members
<1> DEFINE n == Len(FlatSchema(t).members)
<1>5. /\ n \in Nat /\ results \in [1 .. n -> Result]
      /\ \A k \in 1 .. n : \E g \in InlineFields[t] : results[k] = Reading(g, pl, message, limit)
      /\ \A g \in InlineFields[t] : \E k \in 1 .. n : results[k] = Reading(g, pl, message, limit)
  BY <1>1, <1>4 DEF AreReadings
<1> HIDE DEF n
<1>6. Elements(kvs) = UNION {Elements(results[i].out) : i \in 1 .. n}
  BY <1>2, <1>5, IgnoringFailuresFacts
<1>7. \A g \in InlineFields[t] :
        /\ UnitsOf(g, pl, Units) \subseteq Units[pl]
        /\ Sound(UnitsOf(g, pl, Units), limit, Reading(g, pl, message, limit))
        /\ Complete(UnitsOf(g, pl, Units), pl.shape, limit, g.base + g.own <= size,
                    Reading(g, pl, message, limit))
  BY <1>1, <1>3, UnitsOfField DEF AllRead, Reads
<1>8. ASSUME NEW a \in Elements(kvs)
      PROVE  \E u \in Units[pl] : Backed(a, u, limit)
  <2>1. PICK k \in 1 .. n : a \in Elements(results[k].out)
    BY <1>6
  <2>2. PICK g \in InlineFields[t] : results[k] = Reading(g, pl, message, limit)
    BY <1>5
  <2> QED BY <1>7, <2>1, <2>2 DEF Sound
<1>9. ASSUME NEW h \in InlineFields[t], \A u \in UnitsOf(h, pl, Units) : ~Fails(u, pl.shape),
             h.base + h.own <= size
      PROVE  \A u \in UnitsOf(h, pl, Units) : Seen(u, limit) =>
               \A key \in Keys(u) : True(key) \in Elements(kvs)
  <2>1. PICK k \in 1 .. n : results[k] = Reading(h, pl, message, limit)
    BY <1>5
  <2>2. \A u \in UnitsOf(h, pl, Units) : Seen(u, limit) =>
          \A key \in Keys(u) : True(key) \in Elements(Reading(h, pl, message, limit).out)
    BY <1>7, <1>9 DEF Complete
  <2> QED BY <1>6, <2>1, <2>2
<1>10. IsContent(t, pl, size, limit, kvs)
  BY <1>2, <1>8, <1>9 DEF IsContent
<1> QED BY <1>10 DEF kvs, pl, message, members

\* The configuration is what the README says the variables mean.
LEMMA ConfigIsDocumented ==
  ASSUME EndpointInv
  PROVE  /\ config.max_array_len = DocumentedLimit /\ config.ignored_topics = DocumentedIgnored
         /\ config.max_array_len \in Limit /\ config.buffer_size \in Nat
<1>1. env \in Environments /\ config = from_env(env)
  BY DEF EndpointInv
<1>2. config.max_array_len \in Limit /\ config.buffer_size \in Nat
  BY <1>1, ConfigFacts
<1>3. config.max_array_len = DocumentedLimit
  BY <1>1 DEF from_env, usize_env_var, string_env_var, DocumentedLimit
<1>4. config.ignored_topics = DocumentedIgnored
  BY <1>1 DEF from_env, string_env_var, trim, DocumentedIgnored
<1> QED BY <1>2, <1>3, <1>4

\* What is known of the message that was handled.
LEMMA HandledFacts ==
  ASSUME IInv, Answered
  PROVE  /\ handled.t \in Types /\ handled.shape \in MessageShapes /\ endpoint.lang \in Langs
         /\ HandledPlace \in Place /\ VisibleSize \in Nat /\ endpoint.request \in Types
         /\ HandledPlace = PlaceOf(handled.t, endpoint.lang, handled.shape)
         /\ entry # NoEntry =>
              HasSchema(entry[handled.direction], handled.t)
              /\ (entry[handled.direction].name = "Log" => IsLog)
<1>1. /\ endpoint # NoEndpoint /\ handled.direction \in {"request", "response"}
      /\ handled.t = endpoint[handled.direction] /\ handled.shape \in MessageShapes
  BY DEF IInv, CapturedInv, Answered
<1>4. /\ handled.t \in Types /\ endpoint.lang \in Langs /\ endpoint.request \in Types
      /\ entry # NoEntry =>
              HasSchema(entry[handled.direction], handled.t)
              /\ (entry[handled.direction].name = "Log" => IsLog)
  <2>1. IsTopicEndpoint \/ IsServiceEndpoint
    BY <1>1 DEF IInv, EndpointInv
  <2>2. CASE IsTopicEndpoint
    <3>1. /\ endpoint.request \in Types /\ endpoint.response = endpoint.request
          /\ endpoint.lang \in Langs
          /\ entry # NoEntry => entry.request = FlatSchema(endpoint.request)
                                /\ entry.response = FlatSchema(endpoint.request)
      BY <2>2 DEF IsTopicEndpoint
    <3>2. HasSchema(FlatSchema(endpoint.request), endpoint.request)
          /\ FlatSchema(endpoint.request).name = endpoint.request
      BY <3>1, TopicSchema
    <3>3. handled.t = endpoint.request
          /\ (entry # NoEntry => entry[handled.direction] = FlatSchema(endpoint.request))
      BY <1>1, <3>1
    <3> QED BY <3>1, <3>2, <3>3 DEF IsLog
  <2>3. CASE IsServiceEndpoint
    <3>1. PICK service \in Services :
         /\ endpoint.request = service.request /\ endpoint.response = service.response
         /\ entry = from_service_type_support(service)
      BY <2>3 DEF IsServiceEndpoint
    <3>2. /\ service.request \in Types /\ service.response \in Types
          /\ HasSchema(entry.request, service.request) /\ entry.request.name # "Log"
          /\ HasSchema(entry.response, service.response) /\ entry.response.name # "Log"
      BY <3>1, ServiceSchema, EndpointsAssumption
    <3>3. /\ handled.t \in Types
          /\ HasSchema(entry[handled.direction], handled.t)
          /\ entry[handled.direction].name # "Log"
      BY <1>1, <3>1, <3>2
    <3> QED BY <2>3, <3>1, <3>2, <3>3 DEF IsServiceEndpoint
  <2> QED BY <2>1, <2>2, <2>3
<1>5. HandledPlace = PlaceOf(handled.t, endpoint.lang, handled.shape)
  BY DEF HandledPlace, PlaceOf
<1>6. HandledPlace \in Place
  <2>1. <<>> \in Path
    BY DEF Path
  <2> QED BY <1>1, <1>4, <1>5, <2>1 DEF PlaceOf, Place
<1>7. VisibleSize \in Nat
  BY <1>4, SizeType DEF VisibleSize
<1> QED BY <1>1, <1>4, <1>5, <1>6, <1>7

\* The event of a message holds what is in the message, under its own names but
\* for the name of a Log entry.
IsEvent(kvs, r) ==
  /\ captured = <<r>> /\ Len(captured) = 1 /\ captured[1] = r /\ r \in Event
  /\ IsContent(handled.t, HandledPlace, VisibleSize, DocumentedLimit, kvs)
  /\ \A a \in Attributes(r) : a \in Elements(kvs) \/ (IsLog /\ Renamed(a, kvs))
  /\ \A a \in Elements(kvs) : a \in Attributes(r) \/ (IsLog /\ a.key \in NameKeys)

\* Where there is an entry and the message is no diagnostic one, there is such
\* an event.
LEMMA EventFacts ==
  ASSUME IInv, Answered, entry # NoEntry, ~IsDiagnostic
  PROVE  \E kvs, r : IsEvent(kvs, r)
<1> DEFINE t == handled.t
           schema == entry[handled.direction]
           limit == config.max_array_len
<1>1. PICK junk \in JunkNumbers :
        captured = <<EventOf(schema, Whole(t, handled.shape, VisibleSize, endpoint.lang, junk),
                             limit)>>
  BY DEF IInv, CapturedInv, Answered
<1> DEFINE message == Whole(t, handled.shape, VisibleSize, endpoint.lang, junk)
           kvs == InterpretMembers(FlatSchema(t).members, message, limit)
           r == EventOf(schema, message, limit)
<1>2. /\ t \in Types /\ handled.shape \in MessageShapes /\ endpoint.lang \in Langs
      /\ VisibleSize \in Nat /\ HasSchema(schema, t) /\ (schema.name = "Log" => IsLog)
      /\ HandledPlace = PlaceOf(t, endpoint.lang, handled.shape)
  BY HandledFacts
<1>3. limit \in Limit /\ limit = DocumentedLimit
  BY ConfigIsDocumented DEF IInv
<1>4. IsContent(t, HandledPlace, VisibleSize, DocumentedLimit, kvs)
  BY <1>2, <1>3, WholeRead
<1>5. schema.name \in STRING /\ schema.members = FlatSchema(t).members
  BY <1>2 DEF HasSchema, IsSchemaOf
<1>6. kvs \in Event
  BY <1>4 DEF IsContent
<1>7. r = NamedByLogMessage(schema, SchemaName(schema) \o kvs)
  BY <1>5 DEF EventOf
<1> HIDE DEF schema, kvs, message, r, limit
<1>8. IsNamed(schema, kvs, r)
  BY <1>5, <1>6, <1>7, NamedFacts
<1>9. captured = <<r>>
  BY <1>1 DEF r, message
<1>10. Len(captured) = 1 /\ captured[1] = r
  BY <1>9
<1>11. IsEvent(kvs, r)
  BY <1>2, <1>4, <1>8, <1>9, <1>10 DEF IsEvent, IsNamed
<1> QED BY <1>11

\* Without an entry there is no event.
LEMMA NothingCaptured ==
  ASSUME IInv, Answered, entry = NoEntry
  PROVE  captured = <<>> /\ Len(captured) = 0
BY DEF IInv, CapturedInv, Answered

\* A unit of the message that was handled.
LEMMA HandledUnitFacts ==
  ASSUME IInv, Answered, NEW u \in HandledUnits
  PROVE  /\ u.path \in Path /\ u.path # <<>> /\ u.is_array \in BOOLEAN /\ u.misread \in BOOLEAN
         /\ u.is_array => u.len \in 0 .. UsizeLimit - 1
         /\ \E n \in 1 .. Len(Fields[handled.t]) : \E tail \in Path :
              Fields[handled.t][n].name \in STRING /\ u.path = <<Fields[handled.t][n].name>> \o tail
<1> DEFINE pl == HandledPlace
<1>1. handled.t \in Types /\ pl \in Place
  BY HandledFacts
<1>2. pl.type = handled.t /\ pl.path = <<>>
  BY DEF HandledPlace
<1>3. u \in Units[pl]
  BY DEF HandledUnits
<1> HIDE DEF pl
<1>4. PICK g \in InlineFields[handled.t] : u \in UnitsOf(g, pl, Units)
  BY <1>1, <1>2, <1>3, UnitsOfField
<1>5. PathOf(g) \in Path
  BY <1>1, InlineFacts
<1>6. IsUnit(u, pl.path \o PathOf(g))
  BY <1>1, <1>2, <1>4, UnitTypes DEF AreUnits
<1>7. pl.path \o PathOf(g) = PathOf(g)
  BY <1>2, <1>5, PathFacts
<1>8. PICK rest \in Path : u.path = PathOf(g) \o rest
  BY <1>6, <1>7 DEF IsUnit
<1>9. PICK n \in 1 .. Len(Fields[handled.t]) : \E tail \in Path : Heads(handled.t, n, g, tail)
  BY <1>1, FieldHeads
<1>10. PICK tail \in Path : Heads(handled.t, n, g, tail)
  BY <1>9
<1> DEFINE name == Fields[handled.t][n].name
<1>11. name \in STRING /\ PathOf(g) = <<name>> \o tail
  BY <1>10 DEF Heads
<1> HIDE DEF name
<1>12. <<name>> \in Path /\ tail \o rest \in Path
  BY <1>11, PathFacts, AppendType DEF Path
<1>13. u.path = <<name>> \o (tail \o rest)
  <2>1. Regrouped(<<name>>, tail, rest)
    BY <1>8, <1>11, <1>12, PathAssociative
  <2> QED BY <1>8, <1>11, <1>12, <2>1 DEF Regrouped
<1> QED BY <1>6, <1>12, <1>13, <1>11 DEF IsUnit, name

\* The key of an attribute that a unit backs: the path of the unit, and one
\* segment more for an item of an array.
LEMMA BackedKeys ==
  ASSUME IInv, Answered, NEW u \in HandledUnits, NEW a, NEW limit, Backed(a, u, limit)
  PROVE  /\ a.key \in Path /\ IsPrefix(u.path, a.key)
         /\ u.is_array \/ u.misread => Len(a.key) >= 2
<1>1. /\ u.path \in Path /\ u.path # <<>> /\ u.is_array \in BOOLEAN
      /\ u.is_array => u.len \in 0 .. UsizeLimit - 1
  BY HandledUnitFacts
<1>2. ASSUME NEW s \in STRING, a.key = Append(u.path, s)
      PROVE  a.key \in Path /\ IsPrefix(u.path, a.key) /\ Len(a.key) >= 2
  <2>1. a.key \in Path /\ <<s>> \in Path /\ a.key = u.path \o <<s>>
    BY <1>1, <1>2, PathFacts
  <2>2. IsPrefix(u.path, a.key)
    BY <1>1, <2>1, PrefixOfLonger
  <2>3. Len(u.path) \in Nat /\ Len(u.path) # 0 /\ Len(a.key) = Len(u.path) + 1
    BY <1>1, <1>2, EmptySeq, AppendProperties DEF Path
  <2> QED BY <2>1, <2>2, <2>3
<1>3. CASE u.misread /\ \E s \in STRING : a.key = Append(u.path, s)
  BY <1>2, <1>3
<1>4. CASE a.key \in Keys(u) /\ ~u.misread
  <2>1. CASE u.is_array
    <3>1. PICK i \in 1 .. u.len : a.key = Append(u.path, Decimal[i - 1])
      BY <1>4, <2>1 DEF Keys
    <3>2. Decimal[i - 1] \in STRING
      BY <1>1, <2>1, IndexFacts
    <3> QED BY <1>2, <3>1, <3>2
  <2>2. CASE ~u.is_array
    <3>1. a.key = u.path
      BY <1>4, <2>2 DEF Keys
    <3>2. u.path \o <<>> = u.path /\ <<>> \in Path
      BY <1>1, PathFacts
    <3>3. IsPrefix(u.path, a.key)
      BY <1>1, <3>1, <3>2, PrefixOfLonger
    <3> QED BY <1>1, <1>4, <2>2, <3>1, <3>3
  <2> QED BY <2>1, <2>2
<1> QED BY <1>3, <1>4 DEF Backed

\* The invariant implies that every variable has its type,
LEMMA TypeFromInv == IInv => TypeOK
<1> SUFFICES ASSUME IInv PROVE TypeOK
  OBVIOUS
<1>1. env \in Environments /\ config.max_array_len \in Nat /\ config.buffer_size \in Nat
  BY ConfigIsDocumented, DefaultsAreNumbers DEF IInv, EndpointInv, Limit
<1>2. ASSUME endpoint # NoEndpoint
      PROVE  /\ endpoint.role \in {"publisher", "subscription", "service", "client"}
             /\ {endpoint.request, endpoint.response} \subseteq Types
  BY <1>2, EndpointsAssumption
     DEF IInv, EndpointInv, IsTopicEndpoint, IsServiceEndpoint
<1>3. captured \in Seq(Event)
  <2>1. CASE handled = NoMessage \/ entry = NoEntry
    <3>1. captured = <<>>
      BY <2>1 DEF IInv, CapturedInv
    <3> QED BY <3>1
  <2>2. CASE handled # NoMessage /\ entry # NoEntry /\ IsDiagnostic
    BY <2>2 DEF IInv, CapturedInv, AreDiagnosticEvents
  <2>3. CASE handled # NoMessage /\ entry # NoEntry /\ ~IsDiagnostic
    <3>1. PICK r : captured = <<r>> /\ r \in Event
      BY <2>3, EventFacts DEF IsEvent, Answered
    <3> QED BY <3>1, AppendType
  <2> QED BY <2>1, <2>2, <2>3
<1> QED BY <1>1, <1>2, <1>3 DEF TypeOK, Event

\* A key of one segment is that of a unit that is no array.
LEMMA ShortKeys ==
  ASSUME IInv, Answered, NEW u \in HandledUnits, NEW a, NEW limit, Backed(a, u, limit),
         Len(a.key) = 1
  PROVE  ~u.is_array /\ ~u.misread /\ a.key = u.path /\ a = True(a.key)
<1> DEFINE len == Len(a.key)
<1>1. u.is_array \/ u.misread => len >= 2
  BY BackedKeys
<1>2. ~(2 <= 1) /\ len = 1
  OBVIOUS
<1> HIDE DEF len
<1>3. ~(u.is_array \/ u.misread)
  BY <1>1, <1>2
<1> QED BY <1>3 DEF Backed, Keys

\* that what is captured is in the message,
LEMMA FaithfulFromInv == IInv => FaithfulPayload
<1> SUFFICES ASSUME IInv, Answered, ~IsDiagnostic, NEW n \in 1 .. Len(captured),
                    NEW a \in Attributes(captured[n])
             PROVE  \/ \E u \in HandledUnits : a.key \in Keys(u) /\ a = True(a.key)
                    \/ \E u \in HandledUnits : u.misread /\ IsPrefix(u.path, a.key)
                    \/ IsLog /\ a.key \in NameKeys /\ a.value = <<"msg">>
  BY DEF FaithfulPayload
<1>1. entry # NoEntry
  BY NothingCaptured
<1>2. PICK kvs, r : IsEvent(kvs, r)
  BY <1>1, EventFacts
<1>3. a \in Attributes(r)
  BY <1>2 DEF IsEvent
<1>4. \A b \in Elements(kvs) : \E u \in HandledUnits : Backed(b, u, DocumentedLimit)
  BY <1>2 DEF IsEvent, IsContent, HandledUnits
<1>5. CASE a \in Elements(kvs)
  <2>1. PICK u \in HandledUnits : Backed(a, u, DocumentedLimit)
    BY <1>4, <1>5
  <2>2. IsPrefix(u.path, a.key)
    BY <2>1, BackedKeys
  <2>3. (a.key \in Keys(u) /\ a = True(a.key)) \/ u.misread
    BY <2>1 DEF Backed
  <2> QED BY <2>2, <2>3
<1>6. CASE IsLog /\ Renamed(a, kvs)
  <2> DEFINE b == [key |-> <<"msg">>, value |-> a.value]
  <2>1. b \in Elements(kvs) /\ a.key \in NameKeys
    BY <1>6 DEF Renamed
  <2>2. b.key = <<"msg">> /\ Len(b.key) = 1 /\ b.value = a.value
    OBVIOUS
  <2> HIDE DEF b
  <2>3. PICK u \in HandledUnits : Backed(b, u, DocumentedLimit)
    BY <1>4, <2>1
  <2>4. b = True(b.key)
    BY <2>2, <2>3, ShortKeys
  <2>5. b.value = b.key
    BY <2>4 DEF True
  <2> QED BY <1>6, <2>1, <2>2, <2>5
<1> QED BY <1>2, <1>3, <1>5, <1>6 DEF IsEvent

\* that a failure costs one member at most,
LEMMA LossFromInv == IInv => LossIsLocal
<1> SUFFICES ASSUME IInv, Answered, ~IsDiagnostic, entry # NoEntry,
                    NEW g \in HandledMembers, ~MayFail(g), NEW u \in MemberUnits(g),
                    Visible(g, u), ~(IsLog /\ u.path \in NameKeys), NEW key \in Keys(u)
             PROVE  True(key) \in Attributes(captured[1])
  BY DEF LossIsLocal
<1>1. PICK kvs, r : IsEvent(kvs, r)
  BY EventFacts
<1>2. /\ g \in InlineFields[handled.t] /\ MemberUnits(g) = UnitsOf(g, HandledPlace, Units)
      /\ HandledPlace.shape = handled.shape /\ HandledPlace.type = handled.t
  BY DEF HandledMembers, MemberUnits, HandledPlace
<1>3. \A v \in MemberUnits(g) : ~Fails(v, handled.shape)
  BY DEF MayFail, Fails
<1>4. Seen(u, DocumentedLimit) /\ g.base + g.own <= VisibleSize
  BY DEF Visible, Seen
<1>5. True(key) \in Elements(kvs)
  BY <1>1, <1>2, <1>3, <1>4 DEF IsEvent, IsContent
<1>6. ~(IsLog /\ True(key).key \in NameKeys)
  <2> SUFFICES ASSUME IsLog, True(key).key \in NameKeys PROVE FALSE
    OBVIOUS
  <2>1. u \in HandledUnits
    <3>1. HandledPlace \in Place
      BY HandledFacts
    <3> QED BY <1>2, <3>1, UnitsOfField DEF HandledUnits
  <2>2. True(key).key = key
    BY DEF True
  <2>3. Backed(True(key), u, DocumentedLimit)
    BY <1>4, <2>2 DEF Backed, Seen
  <2>4. Len(True(key).key) = 1
    BY DEF NameKeys
  <2>5. key = u.path
    BY <2>1, <2>2, <2>3, <2>4, ShortKeys
  <2> QED BY <2>2, <2>5
<1> QED BY <1>1, <1>5, <1>6 DEF IsEvent

\* No field has the name that the hook gives the name of an event.
LEMMA NotTheEventName ==
  ASSUME IInv, Answered, NEW u \in HandledUnits
  PROVE  ~IsPrefix(u.path, <<"event.name">>)
<1> SUFFICES ASSUME IsPrefix(u.path, <<"event.name">>) PROVE FALSE
  OBVIOUS
<1>1. PICK n \in 1 .. Len(Fields[handled.t]) : \E tail \in Path :
              Fields[handled.t][n].name \in STRING /\ u.path = <<Fields[handled.t][n].name>> \o tail
  BY HandledUnitFacts
<1>2. PICK tail \in Path :
        Fields[handled.t][n].name \in STRING /\ u.path = <<Fields[handled.t][n].name>> \o tail
  BY <1>1
<1> DEFINE name == Fields[handled.t][n].name
           own == "event.name"
           key == <<own>>
<1>3. own \in STRING /\ name # own
  BY HandledFacts, NamesAssumption DEF OwnNames
<1>4. name \in STRING /\ u.path = <<name>> \o tail /\ IsPrefix(u.path, key)
  BY <1>2
<1> HIDE DEF name, own
<1>5. <<>> \in Path /\ key \in Path /\ key \o <<>> = key /\ u.path \in Path
  BY <1>3, PathFacts, AppendType, HandledUnitFacts DEF Path
<1>6. IsPrefix(key, key)
  BY <1>5, PrefixOfLonger
<1>7. Comparable(u.path, key)
  BY <1>4, <1>5, <1>6, PrefixesComparable
<1>8. name = own
  BY <1>3, <1>4, <1>5, <1>7, ComparableFirst
<1> QED BY <1>3, <1>8

\* and that the configuration is honoured.
LEMMA ConfigFromInv == IInv => ConfigIsHonoured
<1> SUFFICES ASSUME IInv, Answered
             PROVE  /\ IsIgnored => captured = <<>>
                    /\ ~IsIgnored /\ ~IsDiagnostic => Len(captured) = 1
                    /\ ~IsDiagnostic =>
                         \A u \in HandledUnits :
                           u.is_array /\ ~u.misread /\ u.len > DocumentedLimit =>
                             \A n \in 1 .. Len(captured) : \A a \in Attributes(captured[n]) :
                               ~IsPrefix(u.path, a.key)
  BY DEF ConfigIsHonoured
<1>1. /\ IsTopicEndpoint \/ IsServiceEndpoint
      /\ config.ignored_topics = DocumentedIgnored
  BY ConfigIsDocumented DEF IInv, EndpointInv, CapturedInv, Answered
<1>2. IsIgnored => entry = NoEntry
  BY <1>1 DEF IsIgnored, IsTopicEndpoint, IsServiceEndpoint
<1>3. ~IsIgnored => entry # NoEntry
  <2>1. CASE IsTopicEndpoint
    <3>1. ~IsIgnored => entry = [request |-> FlatSchema(endpoint.request),
                                 response |-> FlatSchema(endpoint.request)]
      BY <1>1, <2>1 DEF IsIgnored, IsTopicEndpoint
    <3>2. \A x, y : [request |-> x, response |-> y] # NoEntry
      BY DEF NoEntry
    <3> QED BY <3>1, <3>2
  <2>2. CASE IsServiceEndpoint
    BY <2>2, ServiceSchema DEF IsServiceEndpoint
  <2> QED BY <1>1, <2>1, <2>2
<1>4. IsIgnored => captured = <<>>
  BY <1>2, NothingCaptured
<1>5. ~IsIgnored /\ ~IsDiagnostic => Len(captured) = 1
  BY <1>3, EventFacts DEF IsEvent
<1>6. ASSUME ~IsDiagnostic, NEW u \in HandledUnits,
             u.is_array, ~u.misread, u.len > DocumentedLimit,
             NEW n \in 1 .. Len(captured), NEW a \in Attributes(captured[n]),
             IsPrefix(u.path, a.key)
      PROVE  FALSE
  <2>1. entry # NoEntry
    BY NothingCaptured
  <2>2. PICK kvs, r : IsEvent(kvs, r)
    BY <1>6, <2>1, EventFacts
  <2>3. a \in Attributes(r)
    BY <2>2 DEF IsEvent
  <2>4. ASSUME NEW b \in Elements(kvs), b.key = a.key
        PROVE  FALSE
    <3>1. PICK v \in HandledUnits : Backed(b, v, DocumentedLimit)
      BY <2>2 DEF IsEvent, IsContent, HandledUnits
    <3>2. b.key \in Path /\ IsPrefix(v.path, b.key)
      BY <3>1, BackedKeys
    <3>3. u = v
      <4>1. HandledPlace \in Place
        BY HandledFacts
      <4> QED BY <1>6, <2>4, <3>2, <4>1, OneUnitPerKey DEF HandledUnits
    <3>4. u.len \in Nat /\ DocumentedLimit \in Nat
      <4>1. u.len \in 0 .. UsizeLimit - 1
        BY <1>6, HandledUnitFacts
      <4>2. DocumentedLimit \in Limit
        BY ConfigIsDocumented DEF IInv
      <4> QED BY <4>1, <4>2 DEF Limit
    <3> QED BY <1>6, <3>1, <3>3, <3>4 DEF Backed
  <2>5. CASE Renamed(a, kvs)
    <3>1. a.key # <<"event.name">>
      BY <1>6, NotTheEventName
    <3> QED BY <2>4, <2>5, <3>1 DEF Renamed
  <2> QED BY <2>2, <2>3, <2>4, <2>5 DEF IsEvent
<1> QED BY <1>4, <1>5, <1>6

\* A diagnostic message is an event per status item.
LEMMA DiagnosticFromInv == IInv => OneEventPerStatus
BY DEF IInv, CapturedInv, AreDiagnosticEvents, OneEventPerStatus, Answered

-----------------------------------------------------------------------------
(* The properties of the specification.                                     *)

\* The configuration, the endpoint and the events that are made of a message
\* have their types, whatever the message types are and however deep messages
\* are nested in them.
THEOREM CaptureTypes == Spec => []TypeOK
<1>1. Spec => []IInv
  BY CaptureInvariant
<1> QED BY <1>1, TypeFromInv, PTL

\* What an event says under a name is in the message under that name, for every
\* message type, limit and language.
THEOREM CaptureIsFaithful == Spec => []FaithfulPayload
<1>1. Spec => []IInv
  BY CaptureInvariant
<1> QED BY <1>1, FaithfulFromInv, PTL

\* A field that fails costs at most the member it belongs to, wherever it is in
\* the message.
THEOREM LossStaysLocal == Spec => []LossIsLocal
<1>1. Spec => []IInv
  BY CaptureInvariant
<1> QED BY <1>1, LossFromInv, PTL

\* The variables of the environment mean what the README says, for every value
\* they may hold.
THEOREM ConfigHonoured == Spec => []ConfigIsHonoured
<1>1. Spec => []IInv
  BY CaptureInvariant
<1> QED BY <1>1, ConfigFromInv, PTL

\* A diagnostic message is handed on as one event per status item, with the
\* members of the message, of the item and of the item's values, whatever else
\* the three types hold and however many items and values there are.
THEOREM EventPerStatusItem == Spec => []OneEventPerStatus
<1>1. Spec => []IInv
  BY CaptureInvariant
<1> QED BY <1>1, DiagnosticFromInv, PTL
=============================================================================
