--------------------------- MODULE SQVMExecProofs ---------------------------
(***************************************************************************)
(* Proofs about SQVMExec: the call stack, the C stack and the trap stack   *)
(* fit each other whatever scripts and the host do.                        *)
(***************************************************************************)
EXTENDS SQVMExec, SQFacts

-----------------------------------------------------------------------------
(* Running totals. *)

\* Totals satisfies the recursion it is written with.
LEMMA TotalsDefined ==
  ASSUME NEW d \in Seq(Nat), NEW R
  PROVE  Totals(d, R) = [i \in 0 .. Len(d) |-> IF i = 0 THEN 0
                           ELSE (IF i \in R THEN 0 ELSE Totals(d, R)[i - 1]) + d[i]]
<1>. DEFINE N == Len(d)
            Walk(f, n) == f = [i \in 0 .. n |-> IF i = 0 THEN 0
                                                 ELSE (IF i \in R THEN 0 ELSE f[i - 1]) + d[i]]
            S == {n \in Nat : n <= N => \E f : Walk(f, n)}
<1>0. N \in Nat
  BY LenProperties
<1>1. 0 \in S
  <2>1. Walk([i \in 0 .. 0 |-> 0], 0)
    <3>1. 0 .. 0 = {0}
      OBVIOUS
    <3>. QED  BY <3>1
  <2>. QED  BY <2>1
<1>2. ASSUME NEW n \in Nat, n \in S PROVE n + 1 \in S
  <2>. HIDE DEF Walk
  <2>. SUFFICES ASSUME n + 1 <= N PROVE \E f : Walk(f, n + 1)
    OBVIOUS
  <2>1. PICK f : Walk(f, n)
    BY <1>0, <1>2
  <2>. HIDE DEF S
  <2>. DEFINE Step(i, x) == IF i = 0 THEN 0 ELSE (IF i \in R THEN 0 ELSE x) + d[i]
              g == [i \in 0 .. n + 1 |-> IF i = n + 1 THEN Step(n + 1, f[n]) ELSE f[i]]
  <2>2. \A x, y : Step(0, x) = Step(0, y)
    OBVIOUS
  <2>3. f = [i \in 0 .. n |-> Step(i, f[i - 1])]
    BY <2>1 DEF Walk
  <2>. HIDE DEF Step
  <2>4. \A i \in 0 .. n : f[i] = Step(i, f[i - 1])
    BY <2>3
  <2>5. \A i \in 0 .. n : g[i] = f[i]
    OBVIOUS
  <2>6. g[n + 1] = Step(n + 1, f[n]) /\ g = [i \in 0 .. n + 1 |-> g[i]]
    OBVIOUS
  <2>. HIDE DEF g
  <2>7. ASSUME NEW i \in 0 .. n + 1 PROVE g[i] = Step(i, g[i - 1])
    <3>1. CASE i = n + 1
      <4>1. g[n + 1 - 1] = f[n]
        BY <2>5
      <4>. QED  BY <2>6, <3>1, <4>1
    <3>2. CASE i = 0
      BY <2>2, <2>4, <2>5, <3>2
    <3>3. CASE i \in 1 .. n
      <4>1. i - 1 \in 0 .. n /\ i \in 0 .. n
        BY <3>3
      <4>. QED  BY <2>4, <2>5, <4>1
    <3>. QED  BY <3>1, <3>2, <3>3
  <2>8. g = [i \in 0 .. n + 1 |-> Step(i, g[i - 1])]
    BY <2>6, <2>7
  <2>9. Walk(g, n + 1)
    BY <2>8 DEF Walk, Step
  <2>. QED  BY <2>9
<1>3. \A n \in Nat : n \in S
  <2>. HIDE DEF S
  <2>. QED  BY <1>1, <1>2, SetInduction
<1>4. \E f : Walk(f, N)
  <2>. HIDE DEF Walk
  <2>. QED  BY <1>0, <1>3
<1>. QED  BY <1>4 DEF Totals, N

\* The totals are natural numbers and grow from one position to the next.
LEMMA TotalsSteps ==
  ASSUME NEW d \in Seq(Nat), NEW R
  PROVE  /\ Totals(d, R) \in [0 .. Len(d) -> Nat]
         /\ Totals(d, R)[0] = 0
         /\ \A i \in 1 .. Len(d) :
              Totals(d, R)[i] = (IF i \in R THEN 0 ELSE Totals(d, R)[i - 1]) + d[i]
<1>. DEFINE t == Totals(d, R)
            S == {n \in Nat : n <= Len(d) => t[n] \in Nat}
<1>0. Len(d) \in Nat /\ \A i \in 1 .. Len(d) : d[i] \in Nat
  BY LenProperties, ElementOfSeq
<1>1. t = [i \in 0 .. Len(d) |-> IF i = 0 THEN 0 ELSE (IF i \in R THEN 0 ELSE t[i - 1]) + d[i]]
  BY TotalsDefined
<1>. HIDE DEF t
<1>2. t[0] = 0 /\ \A i \in 1 .. Len(d) : t[i] = (IF i \in R THEN 0 ELSE t[i - 1]) + d[i]
  <2>. DEFINE Step(i, x) == IF i = 0 THEN 0 ELSE (IF i \in R THEN 0 ELSE x) + d[i]
  <2>1. t = [i \in 0 .. Len(d) |-> Step(i, t[i - 1])]
    BY <1>1
  <2>. HIDE DEF Step
  <2>2. \A i \in 0 .. Len(d) : t[i] = Step(i, t[i - 1])
    BY <2>1
  <2>. QED  BY <1>0, <2>2 DEF Step
<1>3. 0 \in S
  BY <1>2
<1>4. ASSUME NEW n \in Nat, n \in S PROVE n + 1 \in S
  <2>. SUFFICES ASSUME n + 1 <= Len(d) PROVE t[n + 1] \in Nat
    OBVIOUS
  <2>1. t[n] \in Nat /\ d[n + 1] \in Nat
    BY <1>0, <1>4
  <2>2. t[n + 1] = (IF n + 1 \in R THEN 0 ELSE t[n + 1 - 1]) + d[n + 1]
    BY <1>0, <1>2
  <2>3. t[n + 1 - 1] = t[n]
    OBVIOUS
  <2>. QED  BY <2>1, <2>2, <2>3
<1>5. \A n \in Nat : n \in S
  <2>. HIDE DEF S
  <2>. QED  BY <1>3, <1>4, SetInduction
<1>6. \A i \in 0 .. Len(d) : t[i] \in Nat
  BY <1>0, <1>5
<1>7. t \in [0 .. Len(d) -> Nat]
  BY <1>1, <1>6
<1>. QED  BY <1>2, <1>7 DEF t

\* Totals up to k depend on the first k elements only.
LEMMA TotalsAgree ==
  ASSUME NEW d \in Seq(Nat), NEW e \in Seq(Nat), NEW R, NEW Q,
         NEW k \in Nat, k <= Len(d), k <= Len(e),
         \A i \in 1 .. k : d[i] = e[i] /\ (i \in R <=> i \in Q)
  PROVE  \A i \in 0 .. k : Totals(d, R)[i] = Totals(e, Q)[i]
<1>. DEFINE S == {n \in Nat : n <= k => Totals(d, R)[n] = Totals(e, Q)[n]}
<1>0. Len(d) \in Nat /\ Len(e) \in Nat
  BY LenProperties
<1>1. 0 \in S
  BY TotalsSteps
<1>2. ASSUME NEW n \in Nat, n \in S PROVE n + 1 \in S
  <2>. SUFFICES ASSUME n + 1 <= k PROVE Totals(d, R)[n + 1] = Totals(e, Q)[n + 1]
    OBVIOUS
  <2>1. n + 1 \in 1 .. k /\ n + 1 \in 1 .. Len(d) /\ n + 1 \in 1 .. Len(e) /\ n + 1 - 1 = n
    BY <1>0
  <2>2. Totals(d, R)[n + 1] = (IF n + 1 \in R THEN 0 ELSE Totals(d, R)[n + 1 - 1]) + d[n + 1]
    BY <2>1, TotalsSteps
  <2>3. Totals(e, Q)[n + 1] = (IF n + 1 \in Q THEN 0 ELSE Totals(e, Q)[n + 1 - 1]) + e[n + 1]
    BY <2>1, TotalsSteps
  <2>4. Totals(d, R)[n] = Totals(e, Q)[n]
    BY <1>2
  <2>. QED  BY <2>1, <2>2, <2>3, <2>4
<1>3. \A n \in Nat : n \in S
  <2>. HIDE DEF S
  <2>. QED  BY <1>1, <1>2, SetInduction
<1>. QED  BY <1>3

-----------------------------------------------------------------------------
(* The counts over the frames. *)

LEMMA FrameFacts ==
  ASSUME NEW f \in FrameType
  PROVE  /\ f.etraps \in Nat /\ f.base \in Nat /\ f.root \in BOOLEAN
         /\ f.fn \in {"script", "native"} /\ f.gen \in Gens \cup {None}
BY DEF FrameType

LEMMA CountsSteps ==
  ASSUME NEW cl \in Seq(FrameType)
  PROVE  /\ Len(cl) \in Nat /\ DOMAIN cl = 1 .. Len(cl)
         /\ \A i \in 1 .. Len(cl) : cl[i] \in FrameType
         /\ \A i \in 0 .. Len(cl) : Owner(cl)[i] \in Nat /\ Open(cl)[i] \in Nat /\ Below(cl)[i] \in Nat
         /\ Owner(cl)[0] = 0 /\ Open(cl)[0] = 0 /\ Below(cl)[0] = 0
         /\ \A i \in 1 .. Len(cl) :
              /\ Owner(cl)[i] = Owner(cl)[i - 1] + (IF IsStart(cl[i]) THEN 1 ELSE 0)
              /\ Open(cl)[i] = (IF IsStart(cl[i]) THEN 0 ELSE Open(cl)[i - 1]) + cl[i].etraps
              /\ Below(cl)[i] = Below(cl)[i - 1] + cl[i].etraps
<1>. DEFINE d == TrapsOf(cl)
            e == [i \in 1 .. Len(cl) |-> IF IsStart(cl[i]) THEN 1 ELSE 0]
<1>1. Len(cl) \in Nat /\ DOMAIN cl = 1 .. Len(cl) /\ \A i \in 1 .. Len(cl) : cl[i] \in FrameType
  BY LenProperties, ElementOfSeq
<1>2. d \in [1 .. Len(cl) -> Nat] /\ \A i \in 1 .. Len(cl) : d[i] = cl[i].etraps
  BY <1>1, FrameFacts DEF TrapsOf
<1>3. e \in [1 .. Len(cl) -> Nat] /\ \A i \in 1 .. Len(cl) : e[i] = IF IsStart(cl[i]) THEN 1 ELSE 0
  OBVIOUS
<1>. HIDE DEF d, e
<1>4. d \in Seq(Nat) /\ Len(d) = Len(cl) /\ e \in Seq(Nat) /\ Len(e) = Len(cl)
  BY <1>1, <1>2, <1>3, FunctionIsSeq
<1>5. \A i \in 1 .. Len(cl) : i \in Starts(cl) <=> IsStart(cl[i])
  BY <1>1 DEF Starts
<1>6. Owner(cl) = Totals(e, {}) /\ Open(cl) = Totals(d, Starts(cl)) /\ Below(cl) = Totals(d, {})
  BY DEF Owner, Open, Below, d, e
<1>7. /\ Totals(e, {}) \in [0 .. Len(cl) -> Nat] /\ Totals(e, {})[0] = 0
      /\ \A i \in 1 .. Len(cl) : Totals(e, {})[i] = Totals(e, {})[i - 1] + e[i]
  BY <1>4, TotalsSteps
<1>8. /\ Totals(d, {}) \in [0 .. Len(cl) -> Nat] /\ Totals(d, {})[0] = 0
      /\ \A i \in 1 .. Len(cl) : Totals(d, {})[i] = Totals(d, {})[i - 1] + d[i]
  BY <1>4, TotalsSteps
<1>9. /\ Totals(d, Starts(cl)) \in [0 .. Len(cl) -> Nat] /\ Totals(d, Starts(cl))[0] = 0
      /\ \A i \in 1 .. Len(cl) :
           Totals(d, Starts(cl))[i] =
             (IF i \in Starts(cl) THEN 0 ELSE Totals(d, Starts(cl))[i - 1]) + d[i]
  BY <1>4, TotalsSteps
<1>10. \A i \in 1 .. Len(cl) : Owner(cl)[i] = Owner(cl)[i - 1] + (IF IsStart(cl[i]) THEN 1 ELSE 0)
  BY <1>3, <1>6, <1>7
<1>11. \A i \in 1 .. Len(cl) :
         Open(cl)[i] = (IF IsStart(cl[i]) THEN 0 ELSE Open(cl)[i - 1]) + cl[i].etraps
  BY <1>2, <1>5, <1>6, <1>9
<1>12. \A i \in 1 .. Len(cl) : Below(cl)[i] = Below(cl)[i - 1] + cl[i].etraps
  BY <1>2, <1>6, <1>8
<1>. QED  BY <1>1, <1>6, <1>7, <1>8, <1>9, <1>10, <1>11, <1>12

LEMMA CountsAgree ==
  ASSUME NEW cl \in Seq(FrameType), NEW dl \in Seq(FrameType),
         NEW k \in Nat, k <= Len(cl), k <= Len(dl), \A i \in 1 .. k : cl[i] = dl[i]
  PROVE  \A i \in 0 .. k : /\ Owner(cl)[i] = Owner(dl)[i] /\ Open(cl)[i] = Open(dl)[i]
                           /\ Below(cl)[i] = Below(dl)[i]
<1>. DEFINE S == {n \in Nat : n <= k => /\ Owner(cl)[n] = Owner(dl)[n] /\ Open(cl)[n] = Open(dl)[n]
                                        /\ Below(cl)[n] = Below(dl)[n]}
<1>1. 0 \in S
  BY CountsSteps
<1>2. ASSUME NEW n \in Nat, n \in S PROVE n + 1 \in S
  <2>. SUFFICES ASSUME n + 1 <= k
                PROVE  /\ Owner(cl)[n + 1] = Owner(dl)[n + 1] /\ Open(cl)[n + 1] = Open(dl)[n + 1]
                       /\ Below(cl)[n + 1] = Below(dl)[n + 1]
    OBVIOUS
  <2>1. /\ n + 1 \in 1 .. k /\ n + 1 \in 1 .. Len(cl) /\ n + 1 \in 1 .. Len(dl) /\ n + 1 - 1 = n
        /\ cl[n + 1] = dl[n + 1]
    BY CountsSteps
  <2>2. Owner(cl)[n] = Owner(dl)[n] /\ Open(cl)[n] = Open(dl)[n] /\ Below(cl)[n] = Below(dl)[n]
    BY <1>2
  <2>3. /\ Owner(cl)[n + 1] = Owner(cl)[n] + (IF IsStart(cl[n + 1]) THEN 1 ELSE 0)
        /\ Open(cl)[n + 1] = (IF IsStart(cl[n + 1]) THEN 0 ELSE Open(cl)[n]) + cl[n + 1].etraps
        /\ Below(cl)[n + 1] = Below(cl)[n] + cl[n + 1].etraps
    <3>1. n + 1 \in 1 .. Len(cl)
      BY <2>1
    <3>. QED  BY <2>1, <3>1, CountsSteps
  <2>4. /\ Owner(dl)[n + 1] = Owner(dl)[n] + (IF IsStart(dl[n + 1]) THEN 1 ELSE 0)
        /\ Open(dl)[n + 1] = (IF IsStart(dl[n + 1]) THEN 0 ELSE Open(dl)[n]) + dl[n + 1].etraps
        /\ Below(dl)[n + 1] = Below(dl)[n] + dl[n + 1].etraps
    <3>1. n + 1 \in 1 .. Len(dl)
      BY <2>1
    <3>. QED  BY <2>1, <3>1, CountsSteps
  <2>. QED  BY <2>1, <2>2, <2>3, <2>4
<1>3. \A n \in Nat : n \in S
  <2>. HIDE DEF S
  <2>. QED  BY <1>1, <1>2, SetInduction
<1>. QED  BY <1>3

\* Owner and Below do not fall from one frame to the next.
LEMMA CountsGrow ==
  ASSUME NEW cl \in Seq(FrameType), NEW i \in 0 .. Len(cl), NEW j \in i .. Len(cl)
  PROVE  Owner(cl)[i] <= Owner(cl)[j] /\ Below(cl)[i] <= Below(cl)[j]
<1>. DEFINE S == {n \in Nat : i + n <= Len(cl) => /\ Owner(cl)[i] <= Owner(cl)[i + n]
                                                  /\ Below(cl)[i] <= Below(cl)[i + n]}
<1>0. Len(cl) \in Nat /\ i \in Nat
  BY CountsSteps
<1>1. 0 \in S
  BY <1>0, CountsSteps
<1>2. ASSUME NEW n \in Nat, n \in S PROVE n + 1 \in S
  <2>. SUFFICES ASSUME i + (n + 1) <= Len(cl)
                PROVE  Owner(cl)[i] <= Owner(cl)[i + (n + 1)] /\ Below(cl)[i] <= Below(cl)[i + (n + 1)]
    OBVIOUS
  <2>. DEFINE m == i + n
  <2>1. m \in Nat /\ m + 1 \in 1 .. Len(cl) /\ m + 1 - 1 = m /\ i + (n + 1) = m + 1 /\ m \in 0 .. Len(cl)
    BY <1>0
  <2>2. Owner(cl)[i] <= Owner(cl)[m] /\ Below(cl)[i] <= Below(cl)[m]
    BY <1>0, <1>2
  <2>. HIDE DEF m
  <2>3. /\ Owner(cl)[m + 1] = Owner(cl)[m] + (IF IsStart(cl[m + 1]) THEN 1 ELSE 0)
        /\ Below(cl)[m + 1] = Below(cl)[m] + cl[m + 1].etraps
        /\ Owner(cl)[m] \in Nat /\ Below(cl)[m] \in Nat /\ cl[m + 1] \in FrameType
        /\ Owner(cl)[i] \in Nat /\ Below(cl)[i] \in Nat
    BY <2>1, CountsSteps
  <2>4. cl[m + 1].etraps \in Nat
    BY <2>3, FrameFacts
  <2>5. Owner(cl)[m] <= Owner(cl)[m + 1] /\ Below(cl)[m] <= Below(cl)[m + 1]
    BY <2>3, <2>4
  <2>6. Owner(cl)[m + 1] \in Nat /\ Below(cl)[m + 1] \in Nat
    BY <2>3, <2>4, SMTT(30)
  <2>7. Owner(cl)[i] <= Owner(cl)[m + 1] /\ Below(cl)[i] <= Below(cl)[m + 1]
    BY <2>2, <2>3, <2>5, <2>6
  <2>8. i + (n + 1) = m + 1
    BY <2>1
  <2>. QED  BY <2>7, <2>8
<1>3. \A n \in Nat : n \in S
  <2>. HIDE DEF S
  <2>. QED  BY <1>1, <1>2, SetInduction
<1>4. j - i \in Nat /\ i + (j - i) = j /\ j <= Len(cl)
  BY <1>0
<1>. QED  BY <1>3, <1>4

-----------------------------------------------------------------------------
(* Frames and those who run them. *)

\* The last frame of its owner.
IsEnd(cl, i) == i = Len(cl) \/ IsStart(cl[i + 1])

\* Frame i of cl has its owner in rn, of its kind, and the last frame of an owner
\* shows the traps the owner has counted (foreach over a generator with open traps
\* does not count them: sqvm.cpp:575).
FrameFits(cl, rn, i) ==
  /\ i = 1 => IsStart(cl[i])
  /\ Owner(cl)[i] \in 1 .. Len(rn)
  /\ cl[i].fn = "native" <=> rn[Owner(cl)[i]].k = "native"
  /\ cl[i].fn = "native" => ~cl[i].root /\ cl[i].etraps = 0 /\ cl[i].gen = None
  /\ ~ForeachInTry /\ IsEnd(cl, i) => rn[Owner(cl)[i]].traps = Open(cl)[i]

Fits(cl, rn) == Owner(cl)[Len(cl)] = Len(rn) /\ \A i \in 1 .. Len(cl) : FrameFits(cl, rn, i)

LEMMA EntryFacts ==
  ASSUME NEW rn \in Seq(EntryType)
  PROVE  /\ Len(rn) \in Nat /\ DOMAIN rn = 1 .. Len(rn)
         /\ \A n \in 1 .. Len(rn) : rn[n] \in EntryType /\ rn[n].traps \in Int
<1>1. \A e \in EntryType : e.traps \in Int
  BY DEF EntryType
<1>2. \A n \in 1 .. Len(rn) : rn[n] \in EntryType
  BY ElementOfSeq
<1>. QED  BY <1>1, <1>2, LenProperties

\* The top frame belongs to the top entry.
LEMMA TopFits ==
  ASSUME NEW cl \in Seq(FrameType), NEW rn \in Seq(EntryType), Fits(cl, rn), cl # <<>>
  PROVE  /\ Len(cl) \in Nat \ {0} /\ Len(rn) \in Nat \ {0} /\ rn # <<>>
         /\ Last(cl) = cl[Len(cl)] /\ Last(rn) = rn[Len(rn)]
         /\ Last(cl) \in FrameType /\ Last(rn) \in EntryType
         /\ Last(cl).fn = "native" <=> Last(rn).k = "native"
         /\ ~ForeachInTry => Last(rn).traps = Open(cl)[Len(cl)]
         /\ ~ForeachInTry /\ IsStart(Last(cl)) => Last(rn).traps = Last(cl).etraps
         /\ Last(cl).fn = "native" => ~Last(cl).root /\ Last(cl).etraps = 0 /\ Last(cl).gen = None
         /\ ~IsStart(Last(cl)) => Len(cl) > 1 /\ ~(Last(cl).fn = "native")
<1>1. Len(cl) \in Nat \ {0} /\ Len(cl) \in 1 .. Len(cl)
  BY EmptySeq
<1>2. FrameFits(cl, rn, Len(cl)) /\ Owner(cl)[Len(cl)] = Len(rn)
  BY <1>1 DEF Fits
<1>3. Len(rn) \in Nat \ {0} /\ rn # <<>>
  BY <1>2, EntryFacts, EmptySeq DEF FrameFits
<1>4. /\ Last(cl) = cl[Len(cl)] /\ Last(rn) = rn[Len(rn)]
      /\ Last(cl) \in FrameType /\ Last(rn) \in EntryType
  BY <1>1, <1>3, FrontFacts
<1>5. ~ForeachInTry => Last(rn).traps = Open(cl)[Len(cl)]
  BY <1>2, <1>4 DEF FrameFits, IsEnd
<1>6. ~ForeachInTry /\ IsStart(Last(cl)) => Last(rn).traps = Last(cl).etraps
  <2>1. cl[Len(cl)].etraps \in Nat
    BY <1>4, FrameFacts
  <2>2. Open(cl)[Len(cl)] = (IF IsStart(cl[Len(cl)]) THEN 0 ELSE Open(cl)[Len(cl) - 1]) + cl[Len(cl)].etraps
    BY <1>1, CountsSteps
  <2>. QED  BY <1>4, <1>5, <2>1, <2>2
<1>7. ~IsStart(Last(cl)) => Len(cl) > 1 /\ ~(Last(cl).fn = "native")
  <2>1. Len(cl) = 1 \/ Len(cl) > 1
    <3>1. \A n \in Nat \ {0} : n = 1 \/ n > 1
      OBVIOUS
    <3>. QED  BY <1>1, <3>1
  <2>2. Len(cl) = 1 => IsStart(cl[Len(cl)])
    BY <1>2 DEF FrameFits
  <2>. QED  BY <1>4, <2>1, <2>2 DEF IsStart
<1>. QED  BY <1>1, <1>2, <1>3, <1>4, <1>5, <1>6, <1>7 DEF FrameFits

\* A call from C: a first frame and its owner.
LEMMA FitsEnter ==
  ASSUME NEW cl \in Seq(FrameType), NEW rn \in Seq(EntryType), Fits(cl, rn),
         NEW f \in FrameType, NEW e \in EntryType, IsStart(f),
         f.fn = "native" <=> e.k = "native", ~ForeachInTry => e.traps = f.etraps,
         f.fn = "native" => ~f.root /\ f.etraps = 0 /\ f.gen = None
  PROVE  Fits(Append(cl, f), Append(rn, e))
<1>. DEFINE dl == Append(cl, f)
            sn == Append(rn, e)
            N == Len(cl)
            M == Len(rn)
<1>1. /\ dl \in Seq(FrameType) /\ Len(dl) = N + 1 /\ N \in Nat
      /\ (\A i \in 1 .. N : dl[i] = cl[i]) /\ dl[N + 1] = f
  BY AppendFacts
<1>2. /\ sn \in Seq(EntryType) /\ Len(sn) = M + 1 /\ M \in Nat
      /\ (\A i \in 1 .. M : sn[i] = rn[i]) /\ sn[M + 1] = e
  BY AppendFacts
<1>3. Owner(cl)[N] = M /\ \A i \in 1 .. N : FrameFits(cl, rn, i)
  BY DEF Fits
<1>. HIDE DEF dl, sn, N, M
<1>4. \A i \in 0 .. N : Owner(dl)[i] = Owner(cl)[i] /\ Open(dl)[i] = Open(cl)[i]
  <2>1. N \in Nat /\ N <= Len(cl) /\ N <= Len(dl)
    BY <1>1 DEF N
  <2>. QED  BY <1>1, <2>1, CountsAgree
<1>5. N + 1 \in 1 .. Len(dl) /\ N + 1 - 1 = N /\ N \in 0 .. N
  BY <1>1
<1>6. Owner(dl)[N + 1] = M + 1
  <2>0. \A i \in 1 .. Len(dl) : Owner(dl)[i] = Owner(dl)[i - 1] + (IF IsStart(dl[i]) THEN 1 ELSE 0)
    BY <1>1, CountsSteps
  <2>1. Owner(dl)[N + 1] = Owner(dl)[N + 1 - 1] + (IF IsStart(dl[N + 1]) THEN 1 ELSE 0)
    BY <1>5, <2>0
  <2>. QED  BY <1>1, <1>3, <1>4, <1>5, <2>1
<1>7. Open(dl)[N + 1] = f.etraps
  <2>0. \A i \in 1 .. Len(dl) : Open(dl)[i] = (IF IsStart(dl[i]) THEN 0 ELSE Open(dl)[i - 1]) + dl[i].etraps
    BY <1>1, CountsSteps
  <2>1. Open(dl)[N + 1] = (IF IsStart(dl[N + 1]) THEN 0 ELSE Open(dl)[N + 1 - 1]) + dl[N + 1].etraps
    BY <1>5, <2>0
  <2>2. f.etraps \in Nat
    BY FrameFacts
  <2>. QED  BY <1>1, <2>1, <2>2
<1>8. ASSUME NEW i \in 1 .. N PROVE FrameFits(dl, sn, i)
  <2>0. i \in 0 .. N
    BY <1>1
  <2>1. FrameFits(cl, rn, i) /\ dl[i] = cl[i] /\ Owner(dl)[i] = Owner(cl)[i] /\ Open(dl)[i] = Open(cl)[i]
    BY <1>1, <1>3, <1>4, <2>0, Zenon
  <2>2. Owner(cl)[i] \in 1 .. M /\ sn[Owner(cl)[i]] = rn[Owner(cl)[i]] /\ Owner(cl)[i] \in 1 .. M + 1
    BY <1>2, <2>1 DEF FrameFits, M
  <2>3. IsEnd(dl, i) => IsEnd(cl, i)
    <3>1. CASE i = N
      BY <3>1 DEF IsEnd, N
    <3>2. CASE i # N
      <4>1. i + 1 \in 1 .. N /\ i # N + 1
        BY <1>1, <3>2
      <4>. QED  BY <1>1, <4>1 DEF IsEnd
    <3>. QED  BY <3>1, <3>2
  <2>. QED  BY <1>2, <2>1, <2>2, <2>3 DEF FrameFits
<1>9. FrameFits(dl, sn, N + 1)
  <2>1. M + 1 \in 1 .. M + 1
    BY <1>2
  <2>. QED  BY <1>1, <1>2, <1>6, <1>7, <2>1 DEF FrameFits
<1>10. \A i \in 1 .. N + 1 : FrameFits(dl, sn, i)
  <2>1. \A i \in 1 .. N + 1 : i \in 1 .. N \/ i = N + 1
    BY <1>1
  <2>. QED  BY <1>8, <1>9, <2>1
<1>11. Fits(dl, sn)
  BY <1>1, <1>2, <1>6, <1>10 DEF Fits
<1>. QED  BY <1>11 DEF dl, sn

\* A frame on top of its caller's, run by the same owner.
LEMMA FitsNest ==
  ASSUME NEW cl \in Seq(FrameType), NEW rn \in Seq(EntryType), Fits(cl, rn), cl # <<>>,
         NEW f \in FrameType, NEW e \in EntryType, ~IsStart(f), ~(Last(rn).k = "native"),
         e.k = Last(rn).k, ~ForeachInTry => e.traps = Last(rn).traps + f.etraps
  PROVE  Fits(Append(cl, f), Top(rn, e))
<1>. DEFINE dl == Append(cl, f)
            sn == Top(rn, e)
            N == Len(cl)
            M == Len(rn)
<1>1. /\ dl \in Seq(FrameType) /\ Len(dl) = N + 1 /\ N \in Nat \ {0}
      /\ (\A i \in 1 .. N : dl[i] = cl[i]) /\ dl[N + 1] = f
  BY AppendFacts, TopFits
<1>2. /\ sn \in Seq(EntryType) /\ Len(sn) = M /\ M \in Nat \ {0}
      /\ (\A i \in 1 .. M - 1 : sn[i] = rn[i]) /\ sn[M] = e
  BY TopFacts, TopFits
<1>3. Owner(cl)[N] = M /\ (\A i \in 1 .. N : FrameFits(cl, rn, i)) /\ Last(rn) = rn[M]
  BY TopFits DEF Fits
<1>4. (~ForeachInTry => e.traps = Open(cl)[N] + f.etraps) /\ e.k = rn[M].k
  BY <1>3, TopFits
<1>. HIDE DEF dl, sn, N, M
<1>5. \A i \in 0 .. N : Owner(dl)[i] = Owner(cl)[i] /\ Open(dl)[i] = Open(cl)[i]
  <2>1. N \in Nat /\ N <= Len(cl) /\ N <= Len(dl)
    BY <1>1 DEF N
  <2>. QED  BY <1>1, <2>1, CountsAgree
<1>6. N + 1 \in 1 .. Len(dl) /\ N + 1 - 1 = N /\ N \in 0 .. N
  BY <1>1
<1>7. Owner(dl)[N + 1] = M
  <2>0. \A i \in 1 .. Len(dl) : Owner(dl)[i] = Owner(dl)[i - 1] + (IF IsStart(dl[i]) THEN 1 ELSE 0)
    BY <1>1, CountsSteps
  <2>1. Owner(dl)[N + 1] = Owner(dl)[N + 1 - 1] + (IF IsStart(dl[N + 1]) THEN 1 ELSE 0)
    BY <1>6, <2>0
  <2>. QED  BY <1>1, <1>2, <1>3, <1>5, <1>6, <2>1
<1>8. Open(dl)[N + 1] = Open(cl)[N] + f.etraps
  <2>0. \A i \in 1 .. Len(dl) : Open(dl)[i] = (IF IsStart(dl[i]) THEN 0 ELSE Open(dl)[i - 1]) + dl[i].etraps
    BY <1>1, CountsSteps
  <2>1. Open(dl)[N + 1] = (IF IsStart(dl[N + 1]) THEN 0 ELSE Open(dl)[N + 1 - 1]) + dl[N + 1].etraps
    BY <1>6, <2>0
  <2>. QED  BY <1>1, <1>5, <1>6, <2>1
<1>9. ASSUME NEW i \in 1 .. N PROVE FrameFits(dl, sn, i)
  <2>1. FrameFits(cl, rn, i) /\ dl[i] = cl[i] /\ Owner(dl)[i] = Owner(cl)[i] /\ Open(dl)[i] = Open(cl)[i]
    BY <1>1, <1>3, <1>5
  <2>2. Owner(cl)[i] \in 1 .. M
    BY <2>1 DEF FrameFits, M
  <2>3. sn[Owner(cl)[i]].k = rn[Owner(cl)[i]].k
    <3>1. Owner(cl)[i] \in 1 .. M - 1 \/ Owner(cl)[i] = M
      BY <1>2, <2>2
    <3>. QED  BY <1>2, <1>4, <3>1
  <2>4. ASSUME IsEnd(dl, i)
        PROVE  IsEnd(cl, i) /\ sn[Owner(cl)[i]] = rn[Owner(cl)[i]]
    <3>1. i \in 1 .. N - 1
      <4>1. i # N + 1
        BY <1>1
      <4>2. IsStart(dl[i + 1])
        BY <1>1, <2>4, <4>1 DEF IsEnd
      <4>3. i # N
        BY <1>1, <4>2
      <4>. QED  BY <1>1, <4>3
    <3>2. i + 1 \in 1 .. N /\ i + 1 - 1 = i
      BY <1>1, <3>1
    <3>3. IsStart(cl[i + 1])
      BY <1>1, <2>4, <3>1, <3>2 DEF IsEnd
    <3>4. Owner(cl)[i + 1] = Owner(cl)[i] + 1
      BY <3>2, <3>3, CountsSteps DEF N
    <3>5. Owner(cl)[i + 1] \in 1 .. M
      BY <1>3, <3>2 DEF FrameFits, M
    <3>6. Owner(cl)[i] \in 1 .. M - 1
      BY <1>2, <2>2, <3>4, <3>5
    <3>. QED  BY <1>2, <3>3, <3>6 DEF IsEnd
  <2>5. ~ForeachInTry /\ IsEnd(dl, i) => sn[Owner(cl)[i]].traps = Open(cl)[i]
    BY <2>1, <2>4 DEF FrameFits
  <2>. QED  BY <1>2, <2>1, <2>2, <2>3, <2>5 DEF FrameFits
<1>10. FrameFits(dl, sn, N + 1)
  <2>1. M \in 1 .. M /\ N + 1 # 1
    BY <1>1, <1>2
  <2>2. f.fn # "native"
    BY DEF IsStart
  <2>3. ~(e.k = "native")
    OBVIOUS
  <2>. QED  BY <1>1, <1>2, <1>4, <1>7, <1>8, <2>1, <2>2, <2>3 DEF FrameFits
<1>11. \A i \in 1 .. N + 1 : FrameFits(dl, sn, i)
  <2>1. \A i \in 1 .. N + 1 : i \in 1 .. N \/ i = N + 1
    BY <1>1
  <2>. QED  BY <1>9, <1>10, <2>1
<1>12. Fits(dl, sn)
  BY <1>1, <1>2, <1>7, <1>11 DEF Fits
<1>. QED  BY <1>12 DEF dl, sn

\* A first frame is left, and its owner with it.
LEMMA FitsLeave ==
  ASSUME NEW cl \in Seq(FrameType), NEW rn \in Seq(EntryType), Fits(cl, rn), cl # <<>>,
         IsStart(Last(cl))
  PROVE  Fits(Front(cl), Front(rn))
<1>. DEFINE dl == Front(cl)
            sn == Front(rn)
            N == Len(cl)
            M == Len(rn)
<1>1. /\ dl \in Seq(FrameType) /\ Len(dl) = N - 1 /\ N \in Nat \ {0} /\ Last(cl) = cl[N]
      /\ \A i \in 1 .. N - 1 : dl[i] = cl[i]
  BY FrontFacts
<1>2. /\ sn \in Seq(EntryType) /\ Len(sn) = M - 1 /\ M \in Nat \ {0}
      /\ \A i \in 1 .. M - 1 : sn[i] = rn[i]
  BY FrontFacts, TopFits
<1>3. Owner(cl)[N] = M /\ \A i \in 1 .. N : FrameFits(cl, rn, i)
  BY DEF Fits
<1>. HIDE DEF dl, sn, N, M
<1>4. \A i \in 0 .. N - 1 : Owner(dl)[i] = Owner(cl)[i] /\ Open(dl)[i] = Open(cl)[i]
  <2>1. N - 1 \in Nat /\ N - 1 <= Len(cl) /\ N - 1 <= Len(dl)
    BY <1>1 DEF N
  <2>. QED  BY <1>1, <2>1, CountsAgree
<1>5. N \in 1 .. N /\ N - 1 \in 0 .. N - 1 /\ N - 1 \in 0 .. N
  BY <1>1
<1>6. Owner(cl)[N - 1] = M - 1
  <2>1. Owner(cl)[N] = Owner(cl)[N - 1] + (IF IsStart(cl[N]) THEN 1 ELSE 0) /\ Owner(cl)[N - 1] \in Nat
    BY <1>5, CountsSteps DEF N
  <2>. QED  BY <1>1, <1>2, <1>3, <2>1
<1>7. ASSUME NEW i \in 1 .. N - 1 PROVE FrameFits(dl, sn, i)
  <2>0. i \in 1 .. N /\ i \in 0 .. N - 1 /\ i \in 0 .. N /\ N - 1 \in i .. N
    BY <1>1
  <2>1. FrameFits(cl, rn, i) /\ dl[i] = cl[i] /\ Owner(dl)[i] = Owner(cl)[i] /\ Open(dl)[i] = Open(cl)[i]
    BY <1>1, <1>3, <1>4, <2>0
  <2>2. Owner(cl)[i] <= Owner(cl)[N - 1]
    BY <2>0, CountsGrow DEF N
  <2>3. Owner(cl)[i] \in 1 .. M
    BY <2>1 DEF FrameFits, M
  <2>4. Owner(cl)[i] \in 1 .. M - 1
    BY <1>2, <1>6, <2>2, <2>3
  <2>5. IsEnd(dl, i) => IsEnd(cl, i)
    <3>1. CASE i = N - 1
      <4>1. i + 1 = N
        BY <1>1, <3>1
      <4>. QED  BY <1>1, <4>1 DEF IsEnd
    <3>2. CASE i # N - 1
      <4>1. i + 1 \in 1 .. N - 1
        BY <1>1, <3>2
      <4>. QED  BY <1>1, <3>2, <4>1 DEF IsEnd
    <3>. QED  BY <3>1, <3>2
  <2>. QED  BY <1>2, <2>1, <2>4, <2>5 DEF FrameFits
<1>8. Fits(dl, sn)
  BY <1>1, <1>2, <1>4, <1>5, <1>6, <1>7 DEF Fits
<1>. QED  BY <1>8 DEF dl, sn

\* A frame on top of its caller's is left: the owner counts its traps no more.
LEMMA FitsLeaveInner ==
  ASSUME NEW cl \in Seq(FrameType), NEW rn \in Seq(EntryType), Fits(cl, rn), cl # <<>>,
         ~IsStart(Last(cl)),
         NEW e \in EntryType, e.k = Last(rn).k, ~ForeachInTry => e.traps = Last(rn).traps - Last(cl).etraps
  PROVE  Fits(Front(cl), Top(rn, e)) /\ ~(e.k = "native") /\ Front(cl) # <<>>
<1>. DEFINE dl == Front(cl)
            sn == Top(rn, e)
            N == Len(cl)
            M == Len(rn)
<1>1. /\ dl \in Seq(FrameType) /\ Len(dl) = N - 1 /\ N \in Nat \ {0} /\ N > 1 /\ Last(cl) = cl[N]
      /\ \A i \in 1 .. N - 1 : dl[i] = cl[i]
  BY FrontFacts, TopFits
<1>2. /\ sn \in Seq(EntryType) /\ Len(sn) = M /\ M \in Nat \ {0}
      /\ (\A i \in 1 .. M - 1 : sn[i] = rn[i]) /\ sn[M] = e
  BY TopFacts, TopFits
<1>3. Owner(cl)[N] = M /\ (\A i \in 1 .. N : FrameFits(cl, rn, i)) /\ Last(rn) = rn[M]
  BY TopFits DEF Fits
<1>4. (~ForeachInTry => e.traps = Open(cl)[N] - cl[N].etraps) /\ e.k = rn[M].k
  BY <1>1, <1>3, TopFits
<1>5. dl # <<>> /\ ~(e.k = "native")
  <2>1. \A n \in Nat \ {0} : n > 1 => n - 1 # 0
    OBVIOUS
  <2>. QED  BY <1>1, <2>1, EmptySeq, TopFits
<1>. HIDE DEF dl, sn, N, M
<1>6. \A i \in 0 .. N - 1 : Owner(dl)[i] = Owner(cl)[i] /\ Open(dl)[i] = Open(cl)[i]
  <2>1. N - 1 \in Nat /\ N - 1 <= Len(cl) /\ N - 1 <= Len(dl)
    BY <1>1 DEF N
  <2>. QED  BY <1>1, <2>1, CountsAgree
<1>7. N \in 1 .. N /\ N - 1 \in 0 .. N - 1 /\ N - 1 \in 0 .. N
  BY <1>1
<1>8. Owner(cl)[N - 1] = M /\ (~ForeachInTry => Open(cl)[N - 1] = e.traps)
  <2>1. /\ Owner(cl)[N] = Owner(cl)[N - 1] + (IF IsStart(cl[N]) THEN 1 ELSE 0) /\ Owner(cl)[N - 1] \in Nat
        /\ Open(cl)[N] = (IF IsStart(cl[N]) THEN 0 ELSE Open(cl)[N - 1]) + cl[N].etraps
        /\ Open(cl)[N - 1] \in Nat /\ cl[N].etraps \in Nat
    BY <1>7, CountsSteps, FrameFacts DEF N
  <2>2. Owner(cl)[N] = Owner(cl)[N - 1]
    BY <1>1, <2>1
  <2>3. Open(cl)[N] = Open(cl)[N - 1] + cl[N].etraps
    BY <1>1, <2>1
  <2>. QED  BY <1>3, <1>4, <2>1, <2>2, <2>3
<1>9. ASSUME NEW i \in 1 .. N - 1 PROVE FrameFits(dl, sn, i)
  <2>0. i \in 1 .. N /\ i \in 0 .. N - 1
    BY <1>1
  <2>1. FrameFits(cl, rn, i) /\ dl[i] = cl[i] /\ Owner(dl)[i] = Owner(cl)[i] /\ Open(dl)[i] = Open(cl)[i]
    BY <1>1, <1>3, <1>6, <2>0
  <2>2. Owner(cl)[i] \in 1 .. M
    BY <2>1 DEF FrameFits, M
  <2>3. sn[Owner(cl)[i]].k = rn[Owner(cl)[i]].k
    <3>1. Owner(cl)[i] \in 1 .. M - 1 \/ Owner(cl)[i] = M
      BY <1>2, <2>2
    <3>. QED  BY <1>2, <1>4, <3>1
  <2>4. ASSUME ~ForeachInTry, IsEnd(dl, i) PROVE sn[Owner(cl)[i]].traps = Open(cl)[i]
    <3>1. CASE i = N - 1
      BY <1>2, <1>8, <2>4, <3>1
    <3>2. CASE i # N - 1
      <4>1. i + 1 \in 1 .. N - 1 /\ i + 1 \in 1 .. N /\ i + 1 - 1 = i
        BY <1>1, <3>2
      <4>2. IsStart(cl[i + 1])
        BY <1>1, <2>4, <3>2, <4>1 DEF IsEnd
      <4>3. Owner(cl)[i + 1] = Owner(cl)[i] + 1
        BY <4>1, <4>2, CountsSteps DEF N
      <4>4. Owner(cl)[i + 1] \in 1 .. M
        BY <1>3, <4>1 DEF FrameFits, M
      <4>5. Owner(cl)[i] \in 1 .. M - 1
        BY <1>2, <2>2, <4>3, <4>4
      <4>. QED  BY <1>2, <2>1, <2>4, <4>2, <4>5 DEF IsEnd, FrameFits
    <3>. QED  BY <3>1, <3>2
  <2>. QED  BY <1>2, <2>1, <2>2, <2>3, <2>4 DEF FrameFits
<1>10. Fits(dl, sn)
  BY <1>1, <1>2, <1>6, <1>7, <1>8, <1>9 DEF Fits
<1>. QED  BY <1>5, <1>10 DEF dl, sn

\* The top frame opens or closes traps, and its owner counts them.
LEMMA FitsTop ==
  ASSUME NEW cl \in Seq(FrameType), NEW rn \in Seq(EntryType), Fits(cl, rn), cl # <<>>,
         NEW f \in FrameType, f.fn = Last(cl).fn, f.root = Last(cl).root, ~(f.fn = "native"),
         NEW e \in EntryType, e.k = Last(rn).k,
         ~ForeachInTry => e.traps = Last(rn).traps + (f.etraps - Last(cl).etraps)
  PROVE  Fits(Top(cl, f), Top(rn, e))
<1>. DEFINE dl == Top(cl, f)
            sn == Top(rn, e)
            N == Len(cl)
            M == Len(rn)
<1>1. /\ dl \in Seq(FrameType) /\ Len(dl) = N /\ N \in Nat \ {0} /\ Last(cl) = cl[N]
      /\ (\A i \in 1 .. N - 1 : dl[i] = cl[i]) /\ dl[N] = f
  BY TopFacts, TopFits
<1>2. /\ sn \in Seq(EntryType) /\ Len(sn) = M /\ M \in Nat \ {0}
      /\ (\A i \in 1 .. M - 1 : sn[i] = rn[i]) /\ sn[M] = e
  BY TopFacts, TopFits
<1>3. Owner(cl)[N] = M /\ (\A i \in 1 .. N : FrameFits(cl, rn, i)) /\ Last(rn) = rn[M]
  BY TopFits DEF Fits
<1>4. (~ForeachInTry => e.traps = Open(cl)[N] + (f.etraps - cl[N].etraps)) /\ e.k = rn[M].k
  BY <1>1, <1>3, TopFits
<1>. HIDE DEF dl, sn, N, M
<1>5. \A i \in 0 .. N - 1 : Owner(dl)[i] = Owner(cl)[i] /\ Open(dl)[i] = Open(cl)[i]
  <2>1. N - 1 \in Nat /\ N - 1 <= Len(cl) /\ N - 1 <= Len(dl)
    BY <1>1 DEF N
  <2>. QED  BY <1>1, <2>1, CountsAgree, ZenonT(40)
<1>6. N \in 1 .. N /\ N - 1 \in 0 .. N - 1 /\ N - 1 \in 0 .. N
  BY <1>1
<1>7. IsStart(f) <=> IsStart(cl[N])
  BY <1>1 DEF IsStart
<1>8. Owner(dl)[N] = M /\ (~ForeachInTry => Open(dl)[N] = e.traps)
  <2>1. /\ Owner(cl)[N] = Owner(cl)[N - 1] + (IF IsStart(cl[N]) THEN 1 ELSE 0) /\ Owner(cl)[N - 1] \in Nat
        /\ Open(cl)[N] = (IF IsStart(cl[N]) THEN 0 ELSE Open(cl)[N - 1]) + cl[N].etraps
        /\ Open(cl)[N - 1] \in Nat /\ cl[N].etraps \in Nat
    BY <1>6, CountsSteps, FrameFacts DEF N
  <2>2. /\ Owner(dl)[N] = Owner(dl)[N - 1] + (IF IsStart(dl[N]) THEN 1 ELSE 0)
        /\ Open(dl)[N] = (IF IsStart(dl[N]) THEN 0 ELSE Open(dl)[N - 1]) + dl[N].etraps
    BY <1>1, <1>6, CountsSteps
  <2>3. f.etraps \in Nat
    BY FrameFacts
  <2>4. Owner(dl)[N] = Owner(cl)[N]
    BY <1>1, <1>5, <1>6, <1>7, <2>1, <2>2
  <2>5. Open(dl)[N] = (IF IsStart(cl[N]) THEN 0 ELSE Open(cl)[N - 1]) + f.etraps
    BY <1>1, <1>5, <1>6, <1>7, <2>2
  <2>. QED  BY <1>3, <1>4, <2>1, <2>3, <2>4, <2>5
<1>9. ASSUME NEW i \in 1 .. N - 1 PROVE FrameFits(dl, sn, i)
  <2>0. i \in 1 .. N /\ i \in 0 .. N - 1 /\ i # N /\ i + 1 \in 1 .. N /\ i + 1 - 1 = i
    BY <1>1
  <2>1. FrameFits(cl, rn, i) /\ dl[i] = cl[i] /\ Owner(dl)[i] = Owner(cl)[i] /\ Open(dl)[i] = Open(cl)[i]
    BY <1>1, <1>3, <1>5, <2>0
  <2>2. Owner(cl)[i] \in 1 .. M
    BY <2>1 DEF FrameFits, M
  <2>3. sn[Owner(cl)[i]].k = rn[Owner(cl)[i]].k
    <3>1. Owner(cl)[i] \in 1 .. M - 1 \/ Owner(cl)[i] = M
      BY <1>2, <2>2
    <3>. QED  BY <1>2, <1>4, <3>1
  <2>4. ASSUME ~ForeachInTry, IsEnd(dl, i) PROVE sn[Owner(cl)[i]].traps = Open(cl)[i]
    <3>1. IsStart(cl[i + 1])
      <4>1. IsStart(dl[i + 1])
        BY <1>1, <2>0, <2>4 DEF IsEnd
      <4>2. i + 1 \in 1 .. N - 1 \/ i + 1 = N
        BY <1>1
      <4>. QED  BY <1>1, <1>7, <4>1, <4>2
    <3>2. Owner(cl)[i + 1] = Owner(cl)[i] + 1
      BY <2>0, <3>1, CountsSteps DEF N
    <3>3. Owner(cl)[i + 1] \in 1 .. M
      BY <1>3, <2>0 DEF FrameFits, M
    <3>4. Owner(cl)[i] \in 1 .. M - 1
      BY <1>2, <2>2, <3>2, <3>3
    <3>. QED  BY <1>2, <2>1, <2>4, <3>1, <3>4 DEF IsEnd, FrameFits
  <2>. QED  BY <1>2, <2>1, <2>2, <2>3, <2>4 DEF FrameFits
<1>10. FrameFits(dl, sn, N)
  <2>1. M \in 1 .. M
    BY <1>2
  <2>2. ~(e.k = "native")
    BY TopFits
  <2>3. N = 1 => IsStart(f)
    BY <1>1, <1>3, <1>6, <1>7 DEF FrameFits
  <2>. QED  BY <1>1, <1>2, <1>8, <2>1, <2>2, <2>3 DEF FrameFits
<1>11. \A i \in 1 .. N : FrameFits(dl, sn, i)
  <2>1. \A i \in 1 .. N : i \in 1 .. N - 1 \/ i = N
    BY <1>1
  <2>. QED  BY <1>9, <1>10, <2>1
<1>12. Fits(dl, sn)
  BY <1>1, <1>2, <1>8, <1>11 DEF Fits
<1>. QED  BY <1>12 DEF dl, sn

\* Where an Execute is does not matter.
LEMMA FitsSame ==
  ASSUME NEW cl \in Seq(FrameType), NEW rn \in Seq(EntryType), Fits(cl, rn),
         NEW sn \in Seq(EntryType), Len(sn) = Len(rn),
         \A n \in 1 .. Len(rn) : sn[n].k = rn[n].k /\ sn[n].traps = rn[n].traps
  PROVE  Fits(cl, sn)
<1>1. ASSUME NEW i \in 1 .. Len(cl) PROVE FrameFits(cl, sn, i)
  <2>1. FrameFits(cl, rn, i)
    BY DEF Fits
  <2>. QED  BY <2>1 DEF FrameFits
<1>. QED  BY <1>1 DEF Fits

-----------------------------------------------------------------------------
(* The traps of the frames. *)

\* The traps of f, beginning above position b, hold its base; so for the first k frames.
HasTraps(et, b, f) == \A j \in 1 .. f.etraps : et[b + j] = f.base
Holds(cl, et, k) == \A i \in 1 .. k : HasTraps(et, Below(cl)[i - 1], cl[i])
Belong(cl, et) == Len(et) = Below(cl)[Len(cl)] /\ Holds(cl, et, Len(cl))

\* Two sequences have the same first k elements.
Agree(s, t, k) == \A i \in 1 .. k : s[i] = t[i]

\* The first k frames keep their traps when both stacks change above them.
LEMMA BelongBelow ==
  ASSUME NEW cl \in Seq(FrameType), NEW et \in Seq(Nat), Belong(cl, et),
         NEW dl \in Seq(FrameType), NEW ft \in Seq(Nat),
         NEW k \in Nat, k <= Len(cl), k <= Len(dl), Agree(dl, cl, k),
         Agree(ft, et, Below(cl)[k])
  PROVE  /\ Below(dl)[k] = Below(cl)[k] /\ Below(cl)[k] \in Nat /\ Below(cl)[k] <= Len(et)
         /\ Holds(dl, ft, k)
<1>1. \A i \in 0 .. k : Below(dl)[i] = Below(cl)[i] /\ Below(cl)[i] \in Nat
  <2>1. \A i \in 0 .. k : i \in 0 .. Len(cl)
    BY CountsSteps
  <2>2. \A i \in 1 .. k : dl[i] = cl[i]
    BY DEF Agree
  <2>. QED  BY <2>1, <2>2, CountsAgree, CountsSteps
<1>2. k \in 0 .. k /\ k \in 0 .. Len(cl) /\ Len(cl) \in k .. Len(cl)
  BY CountsSteps
<1>3. Below(cl)[k] <= Len(et)
  BY <1>2, CountsGrow DEF Belong
<1>4. ASSUME NEW i \in 1 .. k, NEW j \in 1 .. dl[i].etraps
      PROVE  ft[Below(dl)[i - 1] + j] = dl[i].base
  <2>1. /\ i \in 0 .. k /\ i - 1 \in 0 .. k /\ i \in 1 .. Len(cl) /\ i \in 0 .. Len(cl) /\ k \in i .. Len(cl)
        /\ dl[i] = cl[i]
    BY CountsSteps DEF Agree
  <2>2. cl[i].etraps \in Nat
    BY <2>1, CountsSteps, FrameFacts
  <2>3. et[Below(cl)[i - 1] + j] = cl[i].base
    BY <2>1 DEF Belong, Holds, HasTraps
  <2>4. Below(cl)[i] = Below(cl)[i - 1] + cl[i].etraps
    BY <2>1, CountsSteps
  <2>5. Below(cl)[i] <= Below(cl)[k]
    BY <2>1, CountsGrow
  <2>6. Below(cl)[i - 1] \in Nat /\ Below(cl)[i] \in Nat /\ Below(cl)[k] \in Nat
    BY <1>1, <1>2, <2>1
  <2>7. Below(cl)[i - 1] + j \in 1 .. Below(cl)[k]
    <3>1. \A a, b, c, t \in Nat : \A p \in 1 .. t : b = a + t /\ b <= c => a + p \in 1 .. c
      OBVIOUS
    <3>2. j \in 1 .. cl[i].etraps
      BY <2>1
    <3>. QED  BY <2>2, <2>4, <2>5, <2>6, <3>1, <3>2
  <2>8. ft[Below(cl)[i - 1] + j] = et[Below(cl)[i - 1] + j]
    BY <2>7 DEF Agree
  <2>9. Below(dl)[i - 1] = Below(cl)[i - 1]
    BY <1>1, <2>1
  <2>. QED  BY <2>1, <2>3, <2>8, <2>9
<1>. QED  BY <1>1, <1>2, <1>3, <1>4 DEF Holds, HasTraps

\* A new top frame, or another one in its place, and its traps.
LEMMA BelongAbove ==
  ASSUME NEW cl \in Seq(FrameType), NEW et \in Seq(Nat), Belong(cl, et),
         NEW dl \in Seq(FrameType), NEW ft \in Seq(Nat),
         NEW k \in Nat, k <= Len(cl), Len(dl) = k + 1, Agree(dl, cl, k),
         Agree(ft, et, Below(cl)[k]), NEW f, f = dl[Len(dl)],
         Len(ft) = Below(cl)[k] + f.etraps, HasTraps(ft, Below(cl)[k], f)
  PROVE  Belong(dl, ft)
<1>. DEFINE n == Len(dl)
<1>1. n \in Nat /\ n = k + 1 /\ k <= n
  OBVIOUS
<1>2. Below(dl)[k] = Below(cl)[k] /\ Below(cl)[k] \in Nat /\ Holds(dl, ft, k)
  BY <1>1, BelongBelow
<1>3. \A i \in 1 .. n : Below(dl)[i] = Below(dl)[i - 1] + dl[i].etraps
  BY CountsSteps
<1>. HIDE DEF n
<1>4. n \in 1 .. n /\ n - 1 = k /\ \A i \in 1 .. n : i \in 1 .. k \/ i = n
  BY <1>1
<1>5. Below(dl)[n] = Below(dl)[k] + dl[n].etraps
  BY <1>3, <1>4
<1>6. Holds(dl, ft, n)
  <2>. SUFFICES ASSUME NEW i \in 1 .. n PROVE HasTraps(ft, Below(dl)[i - 1], dl[i])
    BY DEF Holds
  <2>1. CASE i = n
    BY <1>2, <1>4, <2>1 DEF n
  <2>2. CASE i \in 1 .. k
    BY <1>2, <2>2 DEF Holds
  <2>. QED  BY <1>4, <2>1, <2>2
<1>7. Len(ft) = Below(dl)[n]
  BY <1>2, <1>5 DEF n
<1>. QED  BY <1>6, <1>7 DEF Belong, n

\* The traps of the top frame are the last ones.
LEMMA TopBelongs ==
  ASSUME NEW cl \in Seq(FrameType), NEW et \in Seq(Nat), Belong(cl, et), cl # <<>>
  PROVE  /\ Below(cl)[Len(cl) - 1] \in Nat
         /\ Len(et) = Below(cl)[Len(cl) - 1] + Last(cl).etraps
         /\ Last(cl).etraps \in Nat
         /\ \A j \in 1 .. Last(cl).etraps : /\ et[Below(cl)[Len(cl) - 1] + j] = Last(cl).base
                                            /\ et[Len(et) + 1 - j] = Last(cl).base
         /\ Last(cl).etraps > 0 => et # <<>> /\ Last(et) = Last(cl).base
<1>. DEFINE N == Len(cl)
            b == Below(cl)[N - 1]
            t == Last(cl).etraps
<1>1. N \in Nat \ {0} /\ Last(cl) = cl[N] /\ Last(cl) \in FrameType
  BY FrontFacts
<1>2. N \in 1 .. N /\ N - 1 \in 0 .. N
  BY <1>1
<1>3. b \in Nat /\ Below(cl)[N] = b + t /\ t \in Nat
  BY <1>1, <1>2, CountsSteps, FrameFacts
<1>4. Len(et) = b + t /\ \A j \in 1 .. t : et[b + j] = Last(cl).base
  BY <1>1, <1>2, <1>3 DEF Belong, Holds, HasTraps
<1>. HIDE DEF N, b, t
<1>5. ASSUME NEW j \in 1 .. t PROVE et[Len(et) + 1 - j] = Last(cl).base
  <2>1. t + 1 - j \in 1 .. t /\ Len(et) + 1 - j = b + (t + 1 - j)
    BY <1>3, <1>4
  <2>. QED  BY <1>4, <2>1
<1>6. ASSUME t > 0 PROVE et # <<>> /\ Last(et) = Last(cl).base
  <2>1. 1 \in 1 .. t /\ Len(et) + 1 - 1 = Len(et) /\ Len(et) # 0
    BY <1>3, <1>4, <1>6
  <2>2. et[Len(et)] = Last(cl).base
    <3>1. et[Len(et) + 1 - 1] = Last(cl).base
      BY <1>5, <2>1
    <3>. QED  BY <2>1, <3>1
  <2>. QED  BY <2>1, <2>2, EmptySeq DEF Last
<1>. QED  BY <1>3, <1>4, <1>5, <1>6 DEF N, b, t

LEMMA BelongPush ==
  ASSUME NEW cl \in Seq(FrameType), NEW et \in Seq(Nat), Belong(cl, et),
         NEW f \in FrameType, NEW ft \in Seq(Nat), Len(ft) = f.etraps,
         \A j \in 1 .. f.etraps : ft[j] = f.base
  PROVE  Belong(Append(cl, f), et \o ft) /\ et \o ft \in Seq(Nat)
<1>. DEFINE dl == Append(cl, f)
            gt == et \o ft
            N == Len(cl)
<1>1. /\ dl \in Seq(FrameType) /\ Len(dl) = N + 1 /\ N \in Nat
      /\ (\A i \in 1 .. N : dl[i] = cl[i]) /\ dl[N + 1] = f
  BY AppendFacts
<1>2. /\ gt \in Seq(Nat) /\ Len(gt) = Len(et) + f.etraps /\ Len(et) \in Nat
      /\ (\A p \in 1 .. Len(et) : gt[p] = et[p])
  <2>1. /\ gt \in Seq(Nat) /\ Len(gt) = Len(et) + Len(ft) /\ Len(et) \in Nat /\ Len(ft) \in Nat
        /\ \A p \in 1 .. Len(et) + Len(ft) : gt[p] = IF p <= Len(et) THEN et[p] ELSE ft[p - Len(et)]
    BY ConcatProperties, LenProperties
  <2>2. \A a, b \in Nat : \A p \in 1 .. a : p <= a /\ p \in 1 .. a + b
    OBVIOUS
  <2>. QED  BY <2>1, <2>2
<1>3. \A j \in 1 .. f.etraps : gt[Len(et) + j] = f.base
  <2>1. \A j \in 1 .. f.etraps : Len(et) + j \in 1 .. Len(et) + f.etraps /\ Len(et) + j > Len(et)
                                 /\ Len(et) + j - Len(et) = j
    BY <1>2, FrameFacts
  <2>2. \A p \in 1 .. Len(et) + Len(ft) : gt[p] = IF p <= Len(et) THEN et[p] ELSE ft[p - Len(et)]
    BY ConcatProperties
  <2>. QED
    <3>. SUFFICES ASSUME NEW j \in 1 .. f.etraps PROVE gt[Len(et) + j] = f.base
      OBVIOUS
    <3>1. ~(Len(et) + j <= Len(et)) /\ Len(et) + j \in 1 .. Len(et) + Len(ft)
      BY <1>2, <2>1
    <3>2. gt[Len(et) + j] = ft[Len(et) + j - Len(et)]
      BY <2>2, <3>1
    <3>. QED  BY <2>1, <3>2
<1>4. Below(cl)[N] = Len(et) /\ N <= Len(cl)
  BY <1>1 DEF Belong
<1>. HIDE DEF dl, gt, N
<1>6. Agree(dl, cl, N) /\ Agree(gt, et, Below(cl)[N]) /\ HasTraps(gt, Below(cl)[N], f)
  BY <1>1, <1>2, <1>3, <1>4 DEF Agree, HasTraps
<1>7. Len(gt) = Below(cl)[N] + f.etraps
  BY <1>2, <1>4
<1>5. Belong(dl, gt)
  <2>1. f = dl[Len(dl)]
    BY <1>1
  <2>. QED  BY <1>1, <1>2, <1>4, <1>6, <1>7, <2>1, BelongAbove
<1>. QED  BY <1>2, <1>5 DEF dl, gt

LEMMA BelongPop ==
  ASSUME NEW cl \in Seq(FrameType), NEW et \in Seq(Nat), Belong(cl, et), cl # <<>>,
         NEW ft \in Seq(Nat), Len(ft) = Len(et) - Last(cl).etraps,
         Agree(ft, et, Len(ft))
  PROVE  Belong(Front(cl), ft)
<1>. DEFINE dl == Front(cl)
            k == Len(cl) - 1
<1>1. /\ dl \in Seq(FrameType) /\ Len(dl) = k /\ k \in Nat /\ k <= Len(cl)
      /\ \A i \in 1 .. k : dl[i] = cl[i]
  <2>1. \A n \in Nat \ {0} : n - 1 \in Nat /\ n - 1 <= n
    OBVIOUS
  <2>. QED  BY <2>1, FrontFacts
<1>2. Len(ft) = Below(cl)[k]
  <2>1. /\ Below(cl)[k] \in Nat /\ Last(cl).etraps \in Nat
        /\ Len(et) = Below(cl)[k] + Last(cl).etraps
    BY TopBelongs
  <2>. QED  BY <2>1
<1>. HIDE DEF dl, k
<1>3. k <= Len(dl) /\ Agree(dl, cl, k) /\ Agree(ft, et, Below(cl)[k])
  BY <1>1, <1>2 DEF Agree
<1>4. Below(dl)[k] = Below(cl)[k] /\ Holds(dl, ft, k)
  BY <1>1, <1>3, BelongBelow
<1>5. Belong(dl, ft)
  BY <1>1, <1>2, <1>4 DEF Belong
<1>. QED  BY <1>5 DEF dl

\* The top frame opens a trap.
LEMMA BelongOpen ==
  ASSUME NEW cl \in Seq(FrameType), NEW et \in Seq(Nat), Belong(cl, et), cl # <<>>,
         NEW f \in FrameType, f.etraps = Last(cl).etraps + 1, f.base = Last(cl).base
  PROVE  Belong(Top(cl, f), Append(et, f.base)) /\ Append(et, f.base) \in Seq(Nat)
<1>. DEFINE dl == Top(cl, f)
            ft == Append(et, f.base)
            k == Len(cl) - 1
            b == Below(cl)[k]
            t == Last(cl).etraps
<1>0. \A n \in Nat \ {0} : n - 1 \in Nat /\ n - 1 <= n /\ n = n - 1 + 1
  OBVIOUS
<1>1. /\ dl \in Seq(FrameType) /\ Len(dl) = k + 1 /\ k \in Nat /\ k <= Len(cl)
      /\ (\A i \in 1 .. k : dl[i] = cl[i]) /\ dl[Len(dl)] = f
  <2>1. /\ dl \in Seq(FrameType) /\ Len(dl) = Len(cl) /\ Len(cl) \in Nat \ {0}
        /\ (\A i \in 1 .. Len(cl) - 1 : dl[i] = cl[i]) /\ dl[Len(cl)] = f
    BY TopFacts
  <2>. QED  BY <1>0, <2>1
<1>2. b \in Nat /\ t \in Nat /\ Len(et) = b + t /\ \A j \in 1 .. t : et[b + j] = f.base
  BY TopBelongs
<1>3. f.base \in Nat
  BY FrameFacts
<1>4. /\ ft \in Seq(Nat) /\ Len(ft) = Len(et) + 1
      /\ (\A p \in 1 .. Len(et) : ft[p] = et[p]) /\ ft[Len(et) + 1] = f.base
  BY <1>3, AppendFacts
<1>. HIDE DEF dl, ft, k, b, t
<1>5. Len(ft) = b + f.etraps
  BY <1>2, <1>4 DEF t
<1>6. Agree(ft, et, b)
  <2>1. \A p \in 1 .. b : p \in 1 .. Len(et)
    BY <1>2
  <2>. QED  BY <1>4, <2>1 DEF Agree
<1>7. HasTraps(ft, b, f)
  <2>. SUFFICES ASSUME NEW j \in 1 .. t + 1 PROVE ft[b + j] = f.base
    BY DEF HasTraps, t
  <2>1. CASE j = t + 1
    <3>1. b + j = Len(et) + 1
      BY <1>2, <2>1
    <3>. QED  BY <1>4, <3>1
  <2>2. CASE j # t + 1
    <3>1. j \in 1 .. t /\ b + j \in 1 .. Len(et)
      BY <1>2, <2>2
    <3>. QED  BY <1>2, <1>4, <3>1
  <2>. QED  BY <2>1, <2>2
<1>8. Agree(dl, cl, k)
  BY <1>1 DEF Agree
<1>9. Belong(dl, ft)
  <2>1. Agree(ft, et, Below(cl)[k]) /\ Len(ft) = Below(cl)[k] + f.etraps /\ HasTraps(ft, Below(cl)[k], f)
    BY <1>5, <1>6, <1>7 DEF b
  <2>2. f = dl[Len(dl)]
    BY <1>1
  <2>. QED  BY <1>1, <1>4, <1>8, <2>1, <2>2, BelongAbove
<1>. QED  BY <1>4, <1>9 DEF dl, ft

\* The top frame closes its last trap.
LEMMA BelongClose ==
  ASSUME NEW cl \in Seq(FrameType), NEW et \in Seq(Nat), Belong(cl, et), cl # <<>>,
         Last(cl).etraps > 0,
         NEW f \in FrameType, f.etraps = Last(cl).etraps - 1, f.base = Last(cl).base
  PROVE  Belong(Top(cl, f), Front(et)) /\ Front(et) \in Seq(Nat)
<1>. DEFINE dl == Top(cl, f)
            ft == Front(et)
            k == Len(cl) - 1
            b == Below(cl)[k]
            t == Last(cl).etraps
<1>0. \A n \in Nat \ {0} : n - 1 \in Nat /\ n - 1 <= n /\ n = n - 1 + 1
  OBVIOUS
<1>1. /\ dl \in Seq(FrameType) /\ Len(dl) = k + 1 /\ k \in Nat /\ k <= Len(cl)
      /\ (\A i \in 1 .. k : dl[i] = cl[i]) /\ dl[Len(dl)] = f
  <2>1. /\ dl \in Seq(FrameType) /\ Len(dl) = Len(cl) /\ Len(cl) \in Nat \ {0}
        /\ (\A i \in 1 .. Len(cl) - 1 : dl[i] = cl[i]) /\ dl[Len(cl)] = f
    BY TopFacts
  <2>. QED  BY <1>0, <2>1
<1>2. b \in Nat /\ t \in Nat /\ Len(et) = b + t /\ \A j \in 1 .. t : et[b + j] = f.base
  BY TopBelongs
<1>3. et # <<>>
  BY TopBelongs
<1>4. /\ ft \in Seq(Nat) /\ Len(ft) = Len(et) - 1 /\ \A p \in 1 .. Len(et) - 1 : ft[p] = et[p]
  BY <1>3, FrontFacts
<1>. HIDE DEF dl, ft, k, b
<1>5. Len(ft) = b + f.etraps
  BY <1>2, <1>4
<1>6. Agree(ft, et, b)
  <2>1. \A p \in 1 .. b : p \in 1 .. Len(et) - 1
    BY <1>2
  <2>. QED  BY <1>4, <2>1 DEF Agree
<1>7. HasTraps(ft, b, f)
  <2>. SUFFICES ASSUME NEW j \in 1 .. t - 1 PROVE ft[b + j] = f.base
    BY DEF HasTraps
  <2>1. j \in 1 .. t /\ b + j \in 1 .. Len(et) - 1
    BY <1>2, SMTT(30)
  <2>. QED  BY <1>2, <1>4, <2>1
<1>8. Agree(dl, cl, k)
  BY <1>1 DEF Agree
<1>9. Belong(dl, ft)
  <2>1. Agree(ft, et, Below(cl)[k]) /\ Len(ft) = Below(cl)[k] + f.etraps /\ HasTraps(ft, Below(cl)[k], f)
    BY <1>5, <1>6, <1>7 DEF b
  <2>2. f = dl[Len(dl)]
    BY <1>1
  <2>. QED  BY <1>1, <1>4, <1>8, <2>1, <2>2, BelongAbove
<1>. QED  BY <1>4, <1>9 DEF dl, ft

-----------------------------------------------------------------------------
(* Generators. *)

GenType == [Gens -> [st : {"none", "running", "suspended", "dead"}, traps : Seq(Int),
                     etraps : Nat, root : BOOLEAN]]

\* A generator runs in one frame and has no traps of its own then, a suspended one
\* holds those of its frame.
OneGen(cl, gs, g) ==
  /\ gs[g].st = "running" <=> \E i \in 1 .. Len(cl) : cl[i].gen = g
  /\ \A i, j \in 1 .. Len(cl) : cl[i].gen = g /\ cl[j].gen = g => i = j
  /\ gs[g].st = "suspended" => gs[g].traps = [i \in 1 .. gs[g].etraps |-> 0]
  /\ gs[g].st = "running" => gs[g].traps = <<>>
GenOK(cl, gs) == \A g \in Gens : OneGen(cl, gs, g)

\* Frames that belong to no generator may come and go.
LEMMA GenPlain ==
  ASSUME NEW cl \in Seq(FrameType), NEW gs, GenOK(cl, gs), NEW f \in FrameType, f.gen = None
  PROVE  GenOK(Append(cl, f), gs)
<1>1. /\ Len(Append(cl, f)) = Len(cl) + 1 /\ Len(cl) \in Nat
      /\ (\A i \in 1 .. Len(cl) : Append(cl, f)[i] = cl[i]) /\ Append(cl, f)[Len(cl) + 1] = f
  BY AppendFacts
<1>2. \A i \in 1 .. Len(cl) + 1 : i \in 1 .. Len(cl) \/ i = Len(cl) + 1
  BY <1>1
<1>3. \A i \in 1 .. Len(cl) : i \in 1 .. Len(cl) + 1
  BY <1>1
<1>. SUFFICES ASSUME NEW g \in Gens PROVE OneGen(Append(cl, f), gs, g)
  BY DEF GenOK
<1>4. OneGen(cl, gs, g) /\ f.gen # g
  BY ExecAssumption DEF GenOK
<1>5. \A i \in 1 .. Len(cl) + 1 : Append(cl, f)[i].gen = g => i \in 1 .. Len(cl) /\ cl[i].gen = g
  BY <1>1, <1>2, <1>4
<1>6. (\E i \in 1 .. Len(cl) + 1 : Append(cl, f)[i].gen = g) <=> (\E i \in 1 .. Len(cl) : cl[i].gen = g)
  BY <1>1, <1>3, <1>5
<1>7. \A i, j \in 1 .. Len(cl) + 1 : Append(cl, f)[i].gen = g /\ Append(cl, f)[j].gen = g => i = j
  BY <1>4, <1>5 DEF OneGen
<1>. QED  BY <1>1, <1>4, <1>6, <1>7 DEF OneGen

ResumedAs(gs, hs, h) ==
  /\ \A g \in Gens \ {h} : hs[g] = gs[g]
  /\ hs[h].st = "running" /\ hs[h].traps = <<>>

\* A generator that is resumed.
LEMMA GenResume ==
  ASSUME NEW cl \in Seq(FrameType), NEW gs, GenOK(cl, gs), NEW f \in FrameType,
         NEW h \in Gens, f.gen = h, gs[h].st = "suspended",
         NEW hs, ResumedAs(gs, hs, h)
  PROVE  GenOK(Append(cl, f), hs)
<1>1. /\ Len(Append(cl, f)) = Len(cl) + 1 /\ Len(cl) \in Nat
      /\ (\A i \in 1 .. Len(cl) : Append(cl, f)[i] = cl[i]) /\ Append(cl, f)[Len(cl) + 1] = f
  BY AppendFacts
<1>2. /\ \A i \in 1 .. Len(cl) + 1 : i \in 1 .. Len(cl) \/ i = Len(cl) + 1
      /\ \A i \in 1 .. Len(cl) : i \in 1 .. Len(cl) + 1
      /\ Len(cl) + 1 \in 1 .. Len(cl) + 1
  BY <1>1
<1>. SUFFICES ASSUME NEW g \in Gens PROVE OneGen(Append(cl, f), hs, g)
  BY DEF GenOK
<1>3. OneGen(cl, gs, g)
  BY DEF GenOK
<1>4. CASE g = h
  <2>1. \A i \in 1 .. Len(cl) : cl[i].gen # h
    BY <1>3, <1>4 DEF OneGen
  <2>2. \A i \in 1 .. Len(cl) + 1 : Append(cl, f)[i].gen = h <=> i = Len(cl) + 1
    BY <1>1, <1>2, <2>1
  <2>. QED  BY <1>1, <1>2, <1>4, <2>2 DEF OneGen, ResumedAs
<1>5. CASE g # h
  <2>1. hs[g] = gs[g] /\ f.gen # g
    BY <1>5 DEF ResumedAs
  <2>2. \A i \in 1 .. Len(cl) + 1 : Append(cl, f)[i].gen = g => i \in 1 .. Len(cl) /\ cl[i].gen = g
    BY <1>1, <1>2, <2>1
  <2>3. (\E i \in 1 .. Len(cl) + 1 : Append(cl, f)[i].gen = g) <=> (\E i \in 1 .. Len(cl) : cl[i].gen = g)
    BY <1>1, <1>2, <2>2
  <2>4. \A i, j \in 1 .. Len(cl) + 1 : Append(cl, f)[i].gen = g /\ Append(cl, f)[j].gen = g => i = j
    BY <1>3, <2>2 DEF OneGen
  <2>. QED  BY <1>1, <1>3, <2>1, <2>3, <2>4 DEF OneGen
<1>. QED  BY <1>4, <1>5

\* Generator h, if it is one, does not run any more; the others are what they were.
LeftBy(gs, hs, h) ==
  \A g \in Gens :
    /\ g # h => hs[g] = gs[g]
    /\ g = h => /\ hs[g].st # "running"
                /\ hs[g].st = "suspended" => hs[g].traps = [i \in 1 .. hs[g].etraps |-> 0]

\* A frame is left, by the generator it belongs to.
LEMMA GenLeave ==
  ASSUME NEW cl \in Seq(FrameType), NEW gs, GenOK(cl, gs), cl # <<>>,
         NEW hs, LeftBy(gs, hs, Last(cl).gen)
  PROVE  GenOK(Front(cl), hs)
<1>. DEFINE N == Len(cl)
            dl == Front(cl)
<1>1. /\ Len(dl) = N - 1 /\ N \in Nat \ {0} /\ Last(cl) = cl[N]
      /\ \A i \in 1 .. N - 1 : dl[i] = cl[i]
  BY FrontFacts
<1>. HIDE DEF N, dl
<1>2. /\ \A i \in 1 .. N : i \in 1 .. N - 1 \/ i = N
      /\ \A i \in 1 .. N - 1 : i \in 1 .. N /\ i # N
      /\ N \in 1 .. N
  BY <1>1
<1>3. ASSUME NEW g \in Gens PROVE OneGen(dl, hs, g)
  <2>1. OneGen(cl, gs, g)
    BY DEF GenOK
  <2>2. \A i, j \in 1 .. N : cl[i].gen = g /\ cl[j].gen = g => i = j
    BY <2>1 DEF OneGen, N
  <2>3. CASE g = Last(cl).gen
    <3>1. \A i \in 1 .. N - 1 : dl[i].gen # g
      BY <1>1, <1>2, <2>2, <2>3
    <3>. QED  BY <1>1, <2>3, <3>1 DEF OneGen, LeftBy
  <2>4. CASE g # Last(cl).gen
    <3>1. hs[g] = gs[g] /\ cl[N].gen # g
      BY <1>1, <2>4 DEF LeftBy
    <3>2. (\E i \in 1 .. N - 1 : dl[i].gen = g) <=> (\E i \in 1 .. N : cl[i].gen = g)
      BY <1>1, <1>2, <3>1
    <3>3. \A i, j \in 1 .. N - 1 : dl[i].gen = g /\ dl[j].gen = g => i = j
      BY <1>1, <1>2, <2>2
    <3>. QED  BY <1>1, <2>1, <3>1, <3>2, <3>3 DEF OneGen, N
  <2>. QED  BY <2>3, <2>4
<1>. QED  BY <1>3 DEF GenOK, dl

\* The top frame changes, but for its generator.
LEMMA GenTop ==
  ASSUME NEW cl \in Seq(FrameType), NEW gs, GenOK(cl, gs), cl # <<>>,
         NEW f \in FrameType, f.gen = Last(cl).gen
  PROVE  GenOK(Top(cl, f), gs)
<1>. DEFINE N == Len(cl)
            dl == Top(cl, f)
<1>1. Len(dl) = N /\ N \in Nat \ {0} /\ (\A i \in 1 .. N - 1 : dl[i] = cl[i]) /\ dl[N] = f
  BY TopFacts
<1>2. Last(cl) = cl[N]
  BY FrontFacts
<1>. HIDE DEF N, dl
<1>3. \A i \in 1 .. N : i \in 1 .. N - 1 \/ i = N
  BY <1>1
<1>4. \A i \in 1 .. N : dl[i].gen = cl[i].gen
  BY <1>1, <1>2, <1>3
<1>5. ASSUME NEW g \in Gens PROVE OneGen(dl, gs, g)
  <2>1. OneGen(cl, gs, g)
    BY DEF GenOK
  <2>. QED  BY <1>1, <1>4, <2>1 DEF OneGen, N
<1>. QED  BY <1>5 DEF GenOK, dl

-----------------------------------------------------------------------------
(* The C stack. *)

\* Instructions are executed by an Execute.
Callers(rn) ==
  \A n \in 1 .. Len(rn) :
    rn[n].via \in {"op", "meta"} => n > 1 /\ rn[n - 1].k = "exec"

SameCaller(d, e) == d.k = e.k /\ d.via = e.via

LEMMA CallersPush ==
  ASSUME NEW rn \in Seq(EntryType), Callers(rn), NEW e \in EntryType,
         e.via \in {"op", "meta"} => rn # <<>> /\ Last(rn).k = "exec"
  PROVE  Callers(Append(rn, e))
<1>. DEFINE M == Len(rn)
            sn == Append(rn, e)
<1>1. /\ sn \in Seq(EntryType) /\ Len(sn) = M + 1 /\ M \in Nat
      /\ (\A i \in 1 .. M : sn[i] = rn[i]) /\ sn[M + 1] = e
  BY AppendFacts
<1>2. rn # <<>> => Last(rn) = rn[M] /\ M \in Nat \ {0}
  BY FrontFacts
<1>3. \A n \in 1 .. M : rn[n].via \in {"op", "meta"} => n > 1 /\ rn[n - 1].k = "exec"
  BY DEF Callers
<1>. HIDE DEF M, sn
<1>4. ASSUME NEW n \in 1 .. M + 1, sn[n].via \in {"op", "meta"}
      PROVE  n > 1 /\ sn[n - 1].k = "exec"
  <2>1. CASE n = M + 1
    <3>1. M \in Nat \ {0} /\ rn[M].k = "exec"
      BY <1>1, <1>2, <1>4, <2>1
    <3>2. n > 1 /\ n - 1 = M /\ M \in 1 .. M
      BY <2>1, <3>1
    <3>. QED  BY <1>1, <3>1, <3>2
  <2>2. CASE n # M + 1
    <3>1. n \in 1 .. M
      BY <1>1, <2>2
    <3>2. n > 1 /\ rn[n - 1].k = "exec"
      BY <1>1, <1>3, <1>4, <3>1
    <3>3. n - 1 \in 1 .. M
      BY <1>1, <3>1, <3>2
    <3>. QED  BY <1>1, <3>2, <3>3
  <2>. QED  BY <2>1, <2>2
<1>. QED  BY <1>1, <1>4 DEF Callers, sn

LEMMA CallersPop ==
  ASSUME NEW rn \in Seq(EntryType), Callers(rn), rn # <<>>
  PROVE  Callers(Front(rn))
<1>. DEFINE M == Len(rn)
            sn == Front(rn)
<1>1. M \in Nat \ {0} /\ Len(sn) = M - 1 /\ \A i \in 1 .. M - 1 : sn[i] = rn[i]
  BY FrontFacts
<1>2. \A n \in 1 .. M : rn[n].via \in {"op", "meta"} => n > 1 /\ rn[n - 1].k = "exec"
  BY DEF Callers
<1>. HIDE DEF M, sn
<1>3. ASSUME NEW n \in 1 .. M - 1, sn[n].via \in {"op", "meta"}
      PROVE  n > 1 /\ sn[n - 1].k = "exec"
  <2>1. n \in 1 .. M
    BY <1>1
  <2>2. n > 1 /\ rn[n - 1].k = "exec"
    BY <1>1, <1>2, <1>3, <2>1
  <2>3. n - 1 \in 1 .. M - 1
    BY <1>1, <2>2
  <2>. QED  BY <1>1, <2>2, <2>3
<1>. QED  BY <1>1, <1>3 DEF Callers, sn

LEMMA CallersSame ==
  ASSUME NEW rn \in Seq(EntryType), Callers(rn), NEW sn \in Seq(EntryType), Len(sn) = Len(rn),
         \A n \in 1 .. Len(rn) : SameCaller(sn[n], rn[n])
  PROVE  Callers(sn)
<1>0. Len(rn) \in Nat
  BY LenProperties
<1>. SUFFICES ASSUME NEW n \in 1 .. Len(rn), sn[n].via \in {"op", "meta"}
              PROVE  n > 1 /\ sn[n - 1].k = "exec"
  BY DEF Callers
<1>1. rn[n].via \in {"op", "meta"}
  BY DEF SameCaller
<1>2. n > 1 /\ rn[n - 1].k = "exec"
  BY <1>1 DEF Callers
<1>3. n - 1 \in 1 .. Len(rn)
  BY <1>0, <1>2
<1>. QED  BY <1>2, <1>3 DEF SameCaller

LEMMA CallersTop ==
  ASSUME NEW rn \in Seq(EntryType), Callers(rn), rn # <<>>,
         NEW e \in EntryType, SameCaller(e, Last(rn))
  PROVE  Callers(Top(rn, e))
<1>. DEFINE M == Len(rn)
            sn == Top(rn, e)
<1>1. sn \in Seq(EntryType) /\ Len(sn) = M /\ M \in Nat \ {0}
  BY TopFacts
<1>2. (\A i \in 1 .. M - 1 : sn[i] = rn[i]) /\ sn[M] = e
  BY TopFacts
<1>3. Last(rn) = rn[M]
  BY FrontFacts
<1>. HIDE DEF M, sn
<1>4. \A n \in 1 .. M : n \in 1 .. M - 1 \/ n = M
  BY <1>1
<1>5. \A n \in 1 .. M : SameCaller(sn[n], rn[n])
  BY <1>2, <1>3, <1>4 DEF SameCaller
<1>6. Callers(sn)
  BY <1>1, <1>5, CallersSame DEF M
<1>. QED  BY <1>6 DEF sn

\* An entry with another state, or other traps.
WithState(e, st) == [e EXCEPT !.state = st]
WithTraps(e, n) == [e EXCEPT !.traps = @ + n]

LEMMA WithFacts ==
  ASSUME NEW e \in EntryType
  PROVE  /\ \A st \in {"run", "raised", "unwinding"} :
              /\ WithState(e, st) \in EntryType /\ SameCaller(WithState(e, st), e)
              /\ WithState(e, st).traps = e.traps
         /\ \A n \in Int : /\ WithTraps(e, n) \in EntryType /\ SameCaller(WithTraps(e, n), e)
                           /\ WithTraps(e, n).traps = e.traps + n
         /\ e.traps \in Int
BY DEF EntryType, WithState, WithTraps, SameCaller

\* What the actions write, in terms of Top.
LEMMA TopForms ==
  ASSUME NEW rn \in Seq(EntryType), rn # <<>>
  PROVE  /\ \A st : [rn EXCEPT ![Len(rn)].state = st] = Top(rn, WithState(Last(rn), st))
         /\ \A n : [rn EXCEPT ![Len(rn)].traps = @ + n] = Top(rn, WithTraps(Last(rn), n))
         /\ \A n, st : [rn EXCEPT ![Len(rn)].traps = @ - 1, ![Len(rn)].state = "run"]
                         = Top(rn, WithState(WithTraps(Last(rn), -1), "run"))
BY DEF Top, WithState, WithTraps, Last

\* Changing the state of the top entry leaves everything as it was.
LEMMA StateOnly ==
  ASSUME NEW cl \in Seq(FrameType), NEW rn \in Seq(EntryType), Fits(cl, rn), Callers(rn), rn # <<>>,
         NEW st \in {"run", "raised", "unwinding"}
  PROVE  LET sn == Top(rn, WithState(Last(rn), st))
         IN  /\ sn \in Seq(EntryType) /\ Len(sn) = Len(rn) /\ sn # <<>>
             /\ Fits(cl, sn) /\ Callers(sn) /\ SameCaller(Last(sn), Last(rn))
<1>. DEFINE M == Len(rn)
            e == WithState(Last(rn), st)
            sn == Top(rn, e)
<1>0. Last(rn) \in EntryType /\ Last(rn) = rn[M]
  BY FrontFacts
<1>1. e \in EntryType /\ SameCaller(e, Last(rn)) /\ e.traps = Last(rn).traps
  BY <1>0, WithFacts
<1>. HIDE DEF e
<1>2. sn \in Seq(EntryType) /\ Len(sn) = M /\ M \in Nat \ {0} /\ sn # <<>>
  BY <1>1, TopFacts
<1>3. (\A i \in 1 .. M - 1 : sn[i] = rn[i]) /\ sn[M] = e
  BY <1>1, TopFacts
<1>4. Callers(sn)
  BY <1>1, CallersTop
<1>. HIDE DEF M, sn
<1>5. \A n \in 1 .. M : n \in 1 .. M - 1 \/ n = M
  BY <1>2
<1>6. \A n \in 1 .. M : sn[n].k = rn[n].k /\ sn[n].traps = rn[n].traps
  BY <1>0, <1>1, <1>3, <1>5 DEF SameCaller
<1>7. Fits(cl, sn)
  BY <1>2, <1>6, FitsSame DEF M
<1>8. Last(sn) = e
  BY <1>2, <1>3 DEF Last
<1>. QED  BY <1>1, <1>2, <1>4, <1>7, <1>8 DEF M, sn, e

-----------------------------------------------------------------------------
(* The inductive invariant, first for given stacks. *)

Running(cl, et, cs, gs, nn) ==
  /\ cl \in Seq(FrameType) /\ et \in Seq(Nat) /\ cs \in Seq(EntryType) /\ gs \in GenType
  /\ nn = Len(cs) /\ nn <= MaxNativeCalls
  /\ Fits(cl, cs) /\ Callers(cs) /\ Belong(cl, et) /\ GenOK(cl, gs)

\* A suspended machine is as the one sq_wakeupvm will make of it.
StackInv ==
  /\ susp \in [on : BOOLEAN, root : BOOLEAN, traps : Int]
  /\ failed \in BOOLEAN /\ (~ForeachInTry => ~failed)
  /\ ~susp.on => Running(calls, etraps, cstack, gens, nnative)
  /\ susp.on => /\ cstack = <<>> /\ nnative = 0
                /\ calls # <<>> /\ susp.root = Last(calls).root
                /\ Running(calls, etraps, <<Exec("api", susp.traps, "run")>>, gens, 1)

LEMMA RunningFacts ==
  ASSUME NEW cl, NEW et, NEW cs, NEW gs, NEW nn, Running(cl, et, cs, gs, nn)
  PROVE  /\ Len(cl) \in Nat /\ Len(cs) \in Nat /\ nn \in Nat /\ Len(et) \in Nat
         /\ cs # <<>> <=> nn > 0
         /\ cs # <<>> => cl # <<>> /\ Last(cs) = cs[Len(cs)] /\ Last(cs) \in EntryType
         /\ cl # <<>> => /\ cs # <<>> /\ Last(cl) = cl[Len(cl)] /\ Last(cl) \in FrameType
                         /\ Last(cl).fn = "native" <=> Last(cs).k = "native"
<1>. USE DEF Running
<1>1. Len(cl) \in Nat /\ Len(cs) \in Nat /\ nn \in Nat /\ Len(et) \in Nat
  BY LenProperties
<1>2. cs # <<>> <=> nn > 0
  BY <1>1, EmptySeq
<1>3. cs # <<>> => cl # <<>>
  <2>1. cl = <<>> => Len(cs) = 0
    BY CountsSteps, EmptySeq DEF Fits
  <2>. QED  BY <2>1, EmptySeq
<1>4. cs # <<>> => Last(cs) = cs[Len(cs)] /\ Last(cs) \in EntryType
  BY FrontFacts
<1>5. cl # <<>> => /\ cs # <<>> /\ Last(cl) = cl[Len(cl)] /\ Last(cl) \in FrameType
                   /\ Last(cl).fn = "native" <=> Last(cs).k = "native"
  BY TopFits
<1>. QED  BY <1>1, <1>2, <1>3, <1>4, <1>5

\* The state of the top entry changes.
LEMMA MoveState ==
  ASSUME NEW cl, NEW et, NEW cs, NEW gs, NEW nn, Running(cl, et, cs, gs, nn), cs # <<>>,
         NEW st \in {"run", "raised", "unwinding"}
  PROVE  /\ Running(cl, et, Top(cs, WithState(Last(cs), st)), gs, nn)
         /\ Top(cs, WithState(Last(cs), st)) # <<>>
         /\ SameCaller(Last(Top(cs, WithState(Last(cs), st))), Last(cs))
BY StateOnly DEF Running

\* A call from C with a fresh frame.
LEMMA MoveEnter ==
  ASSUME NEW cl, NEW et, NEW cs, NEW gs, NEW nn, Running(cl, et, cs, gs, nn),
         nn + 1 <= MaxNativeCalls,
         NEW f \in FrameType, NEW e \in EntryType, IsStart(f),
         f.fn = "native" <=> e.k = "native", e.traps = 0, f.etraps = 0, f.gen = None,
         f.fn = "native" => ~f.root,
         e.via \in {"op", "meta"} => cs # <<>> /\ Last(cs).k = "exec"
  PROVE  Running(Append(cl, f), et, Append(cs, e), gs, nn + 1)
<1>1. /\ cl \in Seq(FrameType) /\ et \in Seq(Nat) /\ cs \in Seq(EntryType) /\ gs \in GenType
      /\ nn = Len(cs) /\ Fits(cl, cs) /\ Callers(cs) /\ Belong(cl, et) /\ GenOK(cl, gs)
  BY DEF Running
<1>2. Append(cl, f) \in Seq(FrameType) /\ Append(cs, e) \in Seq(EntryType) /\ Len(Append(cs, e)) = nn + 1
  BY <1>1, AppendFacts
<1>3. Fits(Append(cl, f), Append(cs, e))
  BY <1>1, FitsEnter
<1>4. Belong(Append(cl, f), et)
  <2>1. <<>> \in Seq(Nat) /\ Len(<<>>) = 0 /\ \A j \in 1 .. f.etraps : <<>>[j] = f.base
    BY EmptySeq
  <2>2. et \o <<>> = et
    BY <1>1, ConcatEmptySeq
  <2>3. Belong(Append(cl, f), et \o <<>>)
    BY <1>1, <2>1, BelongPush
  <2>. QED  BY <2>2, <2>3
<1>5. Callers(Append(cs, e))
  BY <1>1, CallersPush
<1>6. GenOK(Append(cl, f), gs)
  BY <1>1, GenPlain
<1>. QED  BY <1>1, <1>2, <1>3, <1>4, <1>5, <1>6 DEF Running

\* A script calls a script.
LEMMA MoveCall ==
  ASSUME NEW cl, NEW et, NEW cs, NEW gs, NEW nn, Running(cl, et, cs, gs, nn), cs # <<>>,
         Last(cs).k = "exec",
         NEW f \in FrameType, ~IsStart(f), f.etraps = 0, f.gen = None
  PROVE  Running(Append(cl, f), et, cs, gs, nn)
<1>1. /\ cl \in Seq(FrameType) /\ et \in Seq(Nat) /\ cs \in Seq(EntryType) /\ gs \in GenType
      /\ nn = Len(cs) /\ Fits(cl, cs) /\ Callers(cs) /\ Belong(cl, et) /\ GenOK(cl, gs)
  BY DEF Running
<1>2. Append(cl, f) \in Seq(FrameType)
  BY <1>1, AppendFacts
<1>3. cl # <<>> /\ Last(cs) \in EntryType
  BY RunningFacts
<1>4. Top(cs, Last(cs)) = cs
  BY <1>1 DEF Top, Last
<1>5. Last(cs).traps = Last(cs).traps + f.etraps
  BY <1>3, WithFacts
<1>6. Fits(Append(cl, f), Top(cs, Last(cs)))
  BY <1>1, <1>3, <1>5, FitsNest
<1>7. Belong(Append(cl, f), et)
  <2>1. <<>> \in Seq(Nat) /\ Len(<<>>) = 0 /\ \A j \in 1 .. f.etraps : <<>>[j] = f.base
    BY EmptySeq
  <2>2. et \o <<>> = et
    BY <1>1, ConcatEmptySeq
  <2>3. Belong(Append(cl, f), et \o <<>>)
    BY <1>1, <2>1, BelongPush
  <2>. QED  BY <2>2, <2>3
<1>8. GenOK(Append(cl, f), gs)
  BY <1>1, GenPlain
<1>. QED  BY <1>1, <1>2, <1>4, <1>6, <1>7, <1>8 DEF Running

\* A generator comes back with its frame and its traps, run by a new Execute.
LEMMA MoveResumeEnter ==
  ASSUME NEW cl, NEW et, NEW cs, NEW gs, NEW nn, Running(cl, et, cs, gs, nn),
         nn + 1 <= MaxNativeCalls,
         NEW f \in FrameType, f.fn = "script", f.root, NEW h \in Gens, f.gen = h,
         gs[h].st = "suspended", NEW hs \in GenType, ResumedAs(gs, hs, h),
         NEW ft \in Seq(Nat), Len(ft) = f.etraps, \A j \in 1 .. f.etraps : ft[j] = f.base,
         NEW e \in EntryType, e.k = "exec", e.via = "api", e.traps = f.etraps
  PROVE  Running(Append(cl, f), et \o ft, Append(cs, e), hs, nn + 1)
<1>1. /\ cl \in Seq(FrameType) /\ et \in Seq(Nat) /\ cs \in Seq(EntryType) /\ gs \in GenType
      /\ nn = Len(cs) /\ Fits(cl, cs) /\ Callers(cs) /\ Belong(cl, et) /\ GenOK(cl, gs)
  BY DEF Running
<1>2. Append(cl, f) \in Seq(FrameType) /\ Append(cs, e) \in Seq(EntryType) /\ Len(Append(cs, e)) = nn + 1
  BY <1>1, AppendFacts
<1>3. Fits(Append(cl, f), Append(cs, e))
  BY <1>1, FitsEnter DEF IsStart
<1>4. Belong(Append(cl, f), et \o ft) /\ et \o ft \in Seq(Nat)
  BY <1>1, BelongPush
<1>5. Callers(Append(cs, e))
  BY <1>1, CallersPush
<1>6. GenOK(Append(cl, f), hs)
  BY <1>1, GenResume
<1>. QED  BY <1>2, <1>3, <1>4, <1>5, <1>6 DEF Running

\* The same, run by the Execute whose script resumes it.
LEMMA MoveResumeNest ==
  ASSUME NEW cl, NEW et, NEW cs, NEW gs, NEW nn, Running(cl, et, cs, gs, nn), cs # <<>>,
         Last(cs).k = "exec",
         NEW f \in FrameType, f.fn = "script", ~f.root, NEW h \in Gens, f.gen = h,
         gs[h].st = "suspended", NEW hs \in GenType, ResumedAs(gs, hs, h),
         NEW ft \in Seq(Nat), Len(ft) = f.etraps, \A j \in 1 .. f.etraps : ft[j] = f.base,
         NEW e \in EntryType, SameCaller(e, Last(cs)),
         ~ForeachInTry => e.traps = Last(cs).traps + f.etraps
  PROVE  Running(Append(cl, f), et \o ft, Top(cs, e), hs, nn)
<1>1. /\ cl \in Seq(FrameType) /\ et \in Seq(Nat) /\ cs \in Seq(EntryType) /\ gs \in GenType
      /\ nn = Len(cs) /\ Fits(cl, cs) /\ Callers(cs) /\ Belong(cl, et) /\ GenOK(cl, gs)
      /\ nn <= MaxNativeCalls
  BY DEF Running
<1>2. Append(cl, f) \in Seq(FrameType) /\ Top(cs, e) \in Seq(EntryType) /\ Len(Top(cs, e)) = nn
  BY <1>1, AppendFacts, TopFacts
<1>3. cl # <<>>
  BY RunningFacts
<1>4. Fits(Append(cl, f), Top(cs, e))
  BY <1>1, <1>3, FitsNest DEF IsStart, SameCaller
<1>5. Belong(Append(cl, f), et \o ft) /\ et \o ft \in Seq(Nat)
  BY <1>1, BelongPush
<1>6. Callers(Top(cs, e))
  BY <1>1, CallersTop
<1>7. GenOK(Append(cl, f), hs)
  BY <1>1, GenResume
<1>. QED  BY <1>1, <1>2, <1>4, <1>5, <1>6, <1>7 DEF Running

\* A first frame is left, with its traps.
LEMMA MoveLeave ==
  ASSUME NEW cl, NEW et, NEW cs, NEW gs, NEW nn, Running(cl, et, cs, gs, nn), cl # <<>>,
         IsStart(Last(cl)),
         NEW ft \in Seq(Nat), Len(ft) = Len(et) - Last(cl).etraps, Agree(ft, et, Len(ft)),
         NEW hs \in GenType, LeftBy(gs, hs, Last(cl).gen)
  PROVE  /\ Running(Front(cl), ft, Front(cs), hs, nn - 1)
         /\ ~ForeachInTry => Last(cs).traps = Last(cl).etraps
         /\ Last(cs).via \in {"op", "meta"} =>
              Front(cs) # <<>> /\ Last(Front(cs)).k = "exec" /\ Front(cl) # <<>>
<1>1. /\ cl \in Seq(FrameType) /\ et \in Seq(Nat) /\ cs \in Seq(EntryType) /\ gs \in GenType
      /\ nn = Len(cs) /\ Fits(cl, cs) /\ Callers(cs) /\ Belong(cl, et) /\ GenOK(cl, gs)
      /\ nn <= MaxNativeCalls
  BY DEF Running
<1>2. cs # <<>>
  BY RunningFacts
<1>3. Front(cl) \in Seq(FrameType)
  BY <1>1, FrontFacts
<1>4. Front(cs) \in Seq(EntryType) /\ Len(Front(cs)) = nn - 1 /\ nn \in Nat \ {0}
  BY <1>1, <1>2, FrontFacts
<1>5. nn - 1 <= MaxNativeCalls
  BY <1>1, <1>4, ExecAssumption
<1>6. Fits(Front(cl), Front(cs)) /\ Belong(Front(cl), ft) /\ Callers(Front(cs)) /\ GenOK(Front(cl), hs)
  BY <1>1, <1>2, FitsLeave, BelongPop, CallersPop, GenLeave
<1>7. Running(Front(cl), ft, Front(cs), hs, nn - 1)
  BY <1>3, <1>4, <1>5, <1>6 DEF Running
<1>8. ~ForeachInTry => Last(cs).traps = Last(cl).etraps
  BY <1>1, TopFits
<1>9. ASSUME Last(cs).via \in {"op", "meta"}
      PROVE  Front(cs) # <<>> /\ Last(Front(cs)).k = "exec" /\ Front(cl) # <<>>
  <2>1. Last(cs) = cs[nn]
    BY <1>1, <1>2, FrontFacts
  <2>2. nn \in 1 .. nn
    BY <1>4
  <2>3. nn > 1 /\ cs[nn - 1].k = "exec"
    BY <1>1, <1>9, <2>1, <2>2 DEF Callers
  <2>4. nn - 1 \in 1 .. nn - 1 /\ nn - 1 # 0 /\ nn - 1 > 0
    BY <1>4, <2>3
  <2>5. Front(cs)[nn - 1] = cs[nn - 1]
    BY <1>1, <1>2, <2>4, FrontFacts
  <2>6. Front(cs) # <<>>
    BY <1>4, <2>4, EmptySeq
  <2>7. Front(cl) # <<>> /\ Last(Front(cs)) = Front(cs)[nn - 1]
    BY <1>4, <1>7, <2>6, RunningFacts
  <2>. QED  BY <2>3, <2>5, <2>6, <2>7
<1>. QED  BY <1>7, <1>8, <1>9

\* A frame on top of its caller's is left.
LEMMA MoveLeaveInner ==
  ASSUME NEW cl, NEW et, NEW cs, NEW gs, NEW nn, Running(cl, et, cs, gs, nn), cl # <<>>,
         ~IsStart(Last(cl)),
         NEW ft \in Seq(Nat), Len(ft) = Len(et) - Last(cl).etraps, Agree(ft, et, Len(ft)),
         NEW hs \in GenType, LeftBy(gs, hs, Last(cl).gen),
         NEW e \in EntryType, SameCaller(e, Last(cs)),
         ~ForeachInTry => e.traps = Last(cs).traps - Last(cl).etraps
  PROVE  Running(Front(cl), ft, Top(cs, e), hs, nn)
<1>1. /\ cl \in Seq(FrameType) /\ et \in Seq(Nat) /\ cs \in Seq(EntryType) /\ gs \in GenType
      /\ nn = Len(cs) /\ Fits(cl, cs) /\ Callers(cs) /\ Belong(cl, et) /\ GenOK(cl, gs)
      /\ nn <= MaxNativeCalls
  BY DEF Running
<1>2. cs # <<>>
  BY RunningFacts
<1>3. Front(cl) \in Seq(FrameType)
  BY <1>1, FrontFacts
<1>4. Top(cs, e) \in Seq(EntryType) /\ Len(Top(cs, e)) = nn
  BY <1>1, <1>2, TopFacts
<1>5. Fits(Front(cl), Top(cs, e))
  BY <1>1, FitsLeaveInner DEF SameCaller
<1>6. Belong(Front(cl), ft) /\ Callers(Top(cs, e)) /\ GenOK(Front(cl), hs)
  BY <1>1, <1>2, BelongPop, CallersTop, GenLeave
<1>. QED  BY <1>1, <1>3, <1>4, <1>5, <1>6 DEF Running

\* The top frame opens or closes a trap.
LEMMA MoveTrap ==
  ASSUME NEW cl, NEW et, NEW cs, NEW gs, NEW nn, Running(cl, et, cs, gs, nn), cl # <<>>,
         Last(cs).k = "exec",
         NEW f \in FrameType, f.fn = Last(cl).fn, f.root = Last(cl).root, f.gen = Last(cl).gen,
         NEW ft \in Seq(Nat), Belong(Top(cl, f), ft),
         NEW e \in EntryType, SameCaller(e, Last(cs)),
         e.traps = Last(cs).traps + (f.etraps - Last(cl).etraps)
  PROVE  Running(Top(cl, f), ft, Top(cs, e), gs, nn)
<1>1. /\ cl \in Seq(FrameType) /\ et \in Seq(Nat) /\ cs \in Seq(EntryType) /\ gs \in GenType
      /\ nn = Len(cs) /\ Fits(cl, cs) /\ Callers(cs) /\ Belong(cl, et) /\ GenOK(cl, gs)
      /\ nn <= MaxNativeCalls
  BY DEF Running
<1>2. cs # <<>> /\ ~(f.fn = "native")
  BY RunningFacts
<1>3. Top(cl, f) \in Seq(FrameType)
  BY <1>1, TopFacts
<1>4. Top(cs, e) \in Seq(EntryType) /\ Len(Top(cs, e)) = nn
  BY <1>1, <1>2, TopFacts
<1>5. Fits(Top(cl, f), Top(cs, e))
  BY <1>1, <1>2, FitsTop DEF SameCaller
<1>6. Callers(Top(cs, e)) /\ GenOK(Top(cl, f), gs)
  BY <1>1, <1>2, CallersTop, GenTop
<1>. QED  BY <1>1, <1>3, <1>4, <1>5, <1>6 DEF Running

-----------------------------------------------------------------------------
(* The actions. *)

\* Code runs only while the machine is not suspended.
LEMMA NotSuspended ==
  ASSUME StackInv, cstack # <<>> \/ Idle
  PROVE  ~susp.on /\ Running(calls, etraps, cstack, gens, nnative)
BY DEF StackInv, Idle

\* What is to be shown for a step that leaves susp and failed alone.
LEMMA Still ==
  ASSUME StackInv, ~susp.on, UNCHANGED <<susp, failed>>,
         Running(calls, etraps, cstack, gens, nnative)'
  PROVE  StackInv'
BY DEF StackInv

LEMMA FrameMade ==
  ASSUME Running(calls, etraps, cstack, gens, nnative)
  PROVE  /\ StackBase \in Nat /\ CallBase \in Nat /\ TopBase \in Nat
         /\ Frame("script", FALSE, 0, None, CallBase) \in FrameType
         /\ Frame("script", TRUE, 0, None, CallBase) \in FrameType
         /\ Frame("native", FALSE, 0, None, CallBase) \in FrameType
<1>1. calls # <<>> => Last(calls) \in FrameType
  BY RunningFacts
<1>2. StackBase \in Nat
  BY <1>1, FrameFacts DEF StackBase, Cur
<1>3. CallBase \in Nat /\ TopBase \in Nat
  BY <1>2 DEF CallBase, TopBase
<1>. QED  BY <1>2, <1>3 DEF Frame, FrameType

LEMMA EntriesMade ==
  ASSUME NEW via \in {"op", "meta", "api", "handler"}
  PROVE  /\ Native(via) \in EntryType /\ Exec(via, 0, "run") \in EntryType
         /\ \A traps \in Int : \A state \in {"run", "raised", "unwinding"} :
              Exec(via, traps, state) \in EntryType
BY DEF Exec, Native, EntryType

LEMMA StepOpCall ==
  ASSUME StackInv, OpCall PROVE StackInv'
<1>. DEFINE f == Frame("script", FALSE, 0, None, CallBase)
<1>1. cstack # <<>> /\ Last(cstack).k = "exec" /\ calls' = Append(calls, f)
      /\ UNCHANGED <<etraps, cstack, gens, nnative, susp, failed>>
  BY DEF OpCall, Executing, Here
<1>2. ~susp.on /\ Running(calls, etraps, cstack, gens, nnative)
  BY <1>1, NotSuspended
<1>3. f \in FrameType
  BY <1>2, FrameMade
<1>4. ~IsStart(f) /\ f.etraps = 0 /\ f.gen = None
  BY DEF Frame, IsStart
<1>. HIDE DEF f
<1>5. Running(Append(calls, f), etraps, cstack, gens, nnative)
  BY <1>1, <1>2, <1>3, <1>4, MoveCall
<1>6. Running(calls', etraps', cstack', gens', nnative')
  BY <1>1, <1>5
<1>. QED  BY <1>1, <1>2, <1>6, Still

\* A call that fails, or is refused.
LEMMA FailsTo ==
  ASSUME NEW cl, NEW et, NEW cs, NEW gs, NEW nn, Running(cl, et, cs, gs, nn),
         NEW via, via \in {"op", "meta"} => cs # <<>>, NEW next \in FailTo(cs, via)
  PROVE  Running(cl, et, next, gs, nn)
<1>0. cs \in Seq(EntryType)
  BY DEF Running
<1>1. next = cs \/ (next = Thrown(cs) /\ via \in {"op", "meta"})
  BY DEF FailTo
<1>2. CASE next = Thrown(cs) /\ via \in {"op", "meta"}
  <2>1. next = Top(cs, WithState(Last(cs), "raised"))
    BY <1>0, <1>2, TopForms DEF Thrown
  <2>. QED  BY <1>2, <2>1, MoveState
<1>3. CASE next = cs
  BY <1>3
<1>. QED  BY <1>1, <1>2, <1>3

LEMMA StepThrown ==
  ASSUME StackInv, cstack # <<>>, cstack' = Thrown(cstack),
         UNCHANGED <<calls, etraps, gens, nnative, susp, failed>>
  PROVE  StackInv'
<1>1. ~susp.on /\ Running(calls, etraps, cstack, gens, nnative)
  BY NotSuspended
<1>2. Thrown(cstack) \in FailTo(cstack, "op")
  BY DEF FailTo
<1>3. Running(calls, etraps, Thrown(cstack), gens, nnative)
  BY <1>1, <1>2, FailsTo
<1>4. Running(calls', etraps', cstack', gens', nnative')
  BY <1>3
<1>. QED  BY <1>1, <1>4, Still

LEMMA StepExecuteCall ==
  ASSUME StackInv, ~susp.on, NEW via \in {"meta", "api"}, ExecuteCall(via),
         via = "meta" => cstack # <<>> /\ Last(cstack).k = "exec",
         UNCHANGED <<etraps, gens, susp, failed>>
  PROVE  StackInv'
<1>. DEFINE f == Frame("script", TRUE, 0, None, CallBase)
            e == Exec(via, 0, "run")
<1>1. Running(calls, etraps, cstack, gens, nnative)
  BY DEF StackInv
<1>2. nnative \in Nat
  BY <1>1, RunningFacts
<1>3. CASE nnative + 1 > MaxNativeCalls
  <2>1. cstack' \in FailTo(cstack, via) /\ UNCHANGED <<calls, nnative>>
    BY <1>3 DEF ExecuteCall
  <2>2. Running(calls, etraps, cstack', gens, nnative)
    BY <1>1, <2>1, FailsTo
  <2>3. Running(calls', etraps', cstack', gens', nnative')
    BY <2>1, <2>2
  <2>. QED  BY <2>3, Still
<1>4. CASE ~(nnative + 1 > MaxNativeCalls)
  <2>1. nnative' = nnative + 1 /\ calls' = Append(calls, f) /\ cstack' = Append(cstack, e)
    BY <1>4 DEF ExecuteCall
  <2>2. nnative + 1 <= MaxNativeCalls
    BY <1>2, <1>4, ExecAssumption
  <2>3. f \in FrameType /\ e \in EntryType
    <3>1. via \in {"op", "meta", "api", "handler"}
      OBVIOUS
    <3>. QED  BY <1>1, <3>1, FrameMade, EntriesMade
  <2>4. /\ IsStart(f) /\ ~(f.fn = "native") /\ ~(e.k = "native") /\ e.traps = 0 /\ f.etraps = 0
        /\ f.gen = None /\ e.via = via
    BY DEF Frame, Exec, IsStart
  <2>. HIDE DEF f, e
  <2>5. Running(Append(calls, f), etraps, Append(cstack, e), gens, nnative + 1)
    BY <1>1, <2>2, <2>3, <2>4, MoveEnter
  <2>6. Running(calls', etraps', cstack', gens', nnative')
    BY <2>1, <2>5
  <2>. QED  BY <2>6, Still
<1>. QED  BY <1>3, <1>4

LEMMA StepCallNative ==
  ASSUME StackInv, ~susp.on, NEW via \in {"op", "meta", "api"}, CallNative(via),
         via # "api" => cstack # <<>> /\ Last(cstack).k = "exec",
         UNCHANGED <<etraps, gens, susp, failed>>
  PROVE  StackInv'
<1>. DEFINE f == Frame("native", FALSE, 0, None, CallBase)
            e == Native(via)
<1>1. Running(calls, etraps, cstack, gens, nnative)
  BY DEF StackInv
<1>2. nnative \in Nat
  BY <1>1, RunningFacts
<1>3. CASE nnative + 1 > MaxNativeCalls
  <2>1. cstack' \in FailTo(cstack, via) /\ UNCHANGED <<calls, nnative>>
    BY <1>3 DEF CallNative
  <2>2. Running(calls, etraps, cstack', gens, nnative)
    BY <1>1, <2>1, FailsTo
  <2>3. Running(calls', etraps', cstack', gens', nnative')
    BY <2>1, <2>2
  <2>. QED  BY <2>3, Still
<1>4. CASE ~(nnative + 1 > MaxNativeCalls)
  <2>1. nnative' = nnative + 1 /\ calls' = Append(calls, f) /\ cstack' = Append(cstack, e)
    BY <1>4 DEF CallNative
  <2>2. nnative + 1 <= MaxNativeCalls
    BY <1>2, <1>4, ExecAssumption
  <2>3. f \in FrameType /\ e \in EntryType
    <3>1. via \in {"op", "meta", "api", "handler"}
      OBVIOUS
    <3>. QED  BY <1>1, <3>1, FrameMade, EntriesMade
  <2>4. /\ IsStart(f) /\ f.fn = "native" /\ e.k = "native" /\ e.traps = 0 /\ f.etraps = 0
        /\ f.gen = None /\ e.via = via /\ ~f.root
    BY DEF Frame, Native, IsStart
  <2>. HIDE DEF f, e
  <2>5. Running(Append(calls, f), etraps, Append(cstack, e), gens, nnative + 1)
    BY <1>1, <2>2, <2>3, <2>4, MoveEnter
  <2>6. Running(calls', etraps', cstack', gens', nnative')
    BY <2>1, <2>5
  <2>. QED  BY <2>6, Still
<1>. QED  BY <1>3, <1>4

LEMMA StepCalls ==
  ASSUME StackInv, OpCallNative \/ OpMeta \/ ApiCall PROVE StackInv'
<1>1. CASE OpCallNative
  <2>1. cstack # <<>> /\ Last(cstack).k = "exec" /\ CallNative("op") /\ UNCHANGED <<etraps, gens, susp, failed>>
    BY <1>1 DEF OpCallNative, Executing, Here
  <2>. QED  BY <2>1, NotSuspended, StepCallNative
<1>2. CASE OpMeta
  <2>1. /\ cstack # <<>> /\ Last(cstack).k = "exec" /\ (ExecuteCall("meta") \/ CallNative("meta"))
        /\ UNCHANGED <<etraps, gens, susp, failed>>
    BY <1>2 DEF OpMeta, Executing, Here
  <2>. QED  BY <2>1, NotSuspended, StepCallNative, StepExecuteCall
<1>3. CASE ApiCall
  <2>1. /\ (cstack # <<>> \/ Idle)
        /\ UNCHANGED <<etraps, gens, susp, failed>>
    BY <1>3 DEF ApiCall, MayCallAPI, InNative
  <2>2. ExecuteCall("api") \/ CallNative("api")
    BY <1>3 DEF ApiCall
  <2>3. ~susp.on
    BY <2>1, NotSuspended
  <2>. QED  BY <2>1, <2>2, <2>3, StepCallNative, StepExecuteCall
<1>. QED  BY <1>1, <1>2, <1>3

\* Traps of the top frame.
LEMMA StepPushTrap ==
  ASSUME StackInv, PushTrap PROVE StackInv'
<1>. DEFINE f == [Cur EXCEPT !.etraps = @ + 1]
            e == WithTraps(Last(cstack), 1)
<1>1. /\ cstack # <<>> /\ Last(cstack).k = "exec" /\ etraps' = Append(etraps, Cur.base)
      /\ calls' = [calls EXCEPT ![Len(calls)].etraps = @ + 1] /\ cstack' = CountTraps(1)
      /\ UNCHANGED <<gens, nnative, susp, failed>>
  BY DEF PushTrap, Executing, Here
<1>2. ~susp.on /\ Running(calls, etraps, cstack, gens, nnative)
  BY <1>1, NotSuspended
<1>3. /\ calls # <<>> /\ Cur = Last(calls) /\ Cur \in FrameType /\ Last(cstack) \in EntryType
      /\ Cur = calls[Len(calls)]
  BY <1>1, <1>2, RunningFacts DEF Cur
<1>4. calls \in Seq(FrameType) /\ cstack \in Seq(EntryType) /\ etraps \in Seq(Nat) /\ Belong(calls, etraps)
  BY <1>2 DEF Running
<1>5. calls' = Top(calls, f)
  BY <1>1, <1>3 DEF Top
<1>6. cstack' = Top(cstack, e)
  BY <1>1, <1>4, TopForms DEF CountTraps
<1>7. f \in FrameType /\ f.etraps = Cur.etraps + 1 /\ f.base = Cur.base /\ f.fn = Cur.fn
      /\ f.root = Cur.root /\ f.gen = Cur.gen /\ Cur.etraps \in Nat
  BY <1>3 DEF FrameType
<1>8. e \in EntryType /\ SameCaller(e, Last(cstack)) /\ e.traps = Last(cstack).traps + 1
      /\ Last(cstack).traps \in Int
  BY <1>3, WithFacts
<1>9. e.traps = Last(cstack).traps + (f.etraps - Cur.etraps)
  BY <1>7, <1>8
<1>. HIDE DEF f, e
<1>10. Belong(Top(calls, f), etraps') /\ etraps' \in Seq(Nat)
  BY <1>1, <1>3, <1>4, <1>7, BelongOpen
<1>11. Running(Top(calls, f), etraps', Top(cstack, e), gens, nnative)
  BY <1>1, <1>2, <1>3, <1>7, <1>8, <1>9, <1>10, MoveTrap
<1>12. Running(calls', etraps', cstack', gens', nnative')
  BY <1>1, <1>5, <1>6, <1>11
<1>. QED  BY <1>1, <1>2, <1>12, Still

LEMMA StepPopTrap ==
  ASSUME StackInv, PopTrap PROVE StackInv'
<1>. DEFINE f == [Cur EXCEPT !.etraps = @ - 1]
            e == WithTraps(Last(cstack), -1)
<1>1. /\ cstack # <<>> /\ Last(cstack).k = "exec" /\ etraps' = Front(etraps) /\ Cur.etraps > 0
      /\ calls' = [calls EXCEPT ![Len(calls)].etraps = @ - 1] /\ cstack' = CountTraps(-1)
      /\ UNCHANGED <<gens, nnative, susp, failed>>
  BY DEF PopTrap, Executing, Here
<1>2. ~susp.on /\ Running(calls, etraps, cstack, gens, nnative)
  BY <1>1, NotSuspended
<1>3. /\ calls # <<>> /\ Cur = Last(calls) /\ Cur \in FrameType /\ Last(cstack) \in EntryType
      /\ Cur = calls[Len(calls)]
  BY <1>1, <1>2, RunningFacts DEF Cur
<1>4. calls \in Seq(FrameType) /\ cstack \in Seq(EntryType) /\ etraps \in Seq(Nat) /\ Belong(calls, etraps)
  BY <1>2 DEF Running
<1>5. calls' = Top(calls, f)
  BY <1>1, <1>3 DEF Top
<1>6. cstack' = Top(cstack, e)
  BY <1>1, <1>4, TopForms DEF CountTraps
<1>7. f \in FrameType /\ f.etraps = Cur.etraps - 1 /\ f.base = Cur.base /\ f.fn = Cur.fn
      /\ f.root = Cur.root /\ f.gen = Cur.gen /\ Cur.etraps \in Nat
  BY <1>1, <1>3 DEF FrameType
<1>8. e \in EntryType /\ SameCaller(e, Last(cstack)) /\ e.traps = Last(cstack).traps + -1
      /\ Last(cstack).traps \in Int
  BY <1>3, WithFacts
<1>9. e.traps = Last(cstack).traps + (f.etraps - Cur.etraps)
  BY <1>7, <1>8
<1>. HIDE DEF f, e
<1>10. Belong(Top(calls, f), etraps') /\ etraps' \in Seq(Nat)
  BY <1>1, <1>3, <1>4, <1>7, BelongClose
<1>11. Running(Top(calls, f), etraps', Top(cstack, e), gens, nnative)
  BY <1>1, <1>2, <1>3, <1>7, <1>8, <1>9, <1>10, MoveTrap
<1>12. Running(calls', etraps', cstack', gens', nnative')
  BY <1>1, <1>5, <1>6, <1>11
<1>. QED  BY <1>1, <1>2, <1>12, Still

\* The trap that catches holds the base of the frame that opened it.
LEMMA StepCatch ==
  ASSUME StackInv, Catch PROVE StackInv'
<1>. DEFINE f == [Cur EXCEPT !.etraps = @ - 1]
            d == WithTraps(Last(cstack), -1)
            e == WithState(d, "run")
<1>1. /\ cstack # <<>> /\ Last(cstack).k = "exec" /\ etraps' = Front(etraps) /\ Cur.etraps > 0
      /\ calls' = [calls EXCEPT ![Len(calls)].etraps = @ - 1, ![Len(calls)].base = Last(etraps)]
      /\ cstack' = [cstack EXCEPT ![Len(cstack)].traps = @ - 1, ![Len(cstack)].state = "run"]
      /\ UNCHANGED <<gens, nnative, susp, failed>>
  BY DEF Catch, Throwing, Here
<1>2. ~susp.on /\ Running(calls, etraps, cstack, gens, nnative)
  BY <1>1, NotSuspended
<1>3. /\ calls # <<>> /\ Cur = Last(calls) /\ Cur \in FrameType /\ Last(cstack) \in EntryType
      /\ Cur = calls[Len(calls)]
  BY <1>1, <1>2, RunningFacts DEF Cur
<1>4. calls \in Seq(FrameType) /\ cstack \in Seq(EntryType) /\ etraps \in Seq(Nat) /\ Belong(calls, etraps)
  BY <1>2 DEF Running
<1>5. calls' = Top(calls, f)
  <2>1. Last(etraps) = Cur.base
    BY <1>1, <1>3, <1>4, TopBelongs
  <2>2. f = [Cur EXCEPT !.etraps = @ - 1, !.base = Last(etraps)]
    BY <1>3, <2>1 DEF FrameType
  <2>3. calls' = [calls EXCEPT ![Len(calls)] = [Cur EXCEPT !.etraps = @ - 1, !.base = Last(etraps)]]
    BY <1>1, <1>3
  <2>. HIDE DEF f
  <2>. QED  BY <2>2, <2>3 DEF Top
<1>6. cstack' = Top(cstack, e)
  BY <1>1, <1>4, TopForms
<1>7. f \in FrameType /\ f.etraps = Cur.etraps - 1 /\ f.base = Cur.base /\ f.fn = Cur.fn
      /\ f.root = Cur.root /\ f.gen = Cur.gen /\ Cur.etraps \in Nat
  BY <1>1, <1>3 DEF FrameType
<1>8. e \in EntryType /\ SameCaller(e, Last(cstack)) /\ e.traps = Last(cstack).traps + -1
      /\ Last(cstack).traps \in Int
  <2>1. d \in EntryType /\ SameCaller(d, Last(cstack)) /\ d.traps = Last(cstack).traps + -1
        /\ Last(cstack).traps \in Int
    BY <1>3, WithFacts
  <2>. HIDE DEF d
  <2>2. e \in EntryType /\ SameCaller(e, d) /\ e.traps = d.traps
    BY <2>1, WithFacts
  <2>. QED  BY <2>1, <2>2 DEF SameCaller
<1>9. e.traps = Last(cstack).traps + (f.etraps - Cur.etraps)
  BY <1>7, <1>8
<1>. HIDE DEF f, e
<1>10. Belong(Top(calls, f), etraps') /\ etraps' \in Seq(Nat)
  BY <1>1, <1>3, <1>4, <1>7, BelongClose
<1>11. Running(Top(calls, f), etraps', Top(cstack, e), gens, nnative)
  BY <1>1, <1>2, <1>3, <1>7, <1>8, <1>9, <1>10, MoveTrap
<1>12. Running(calls', etraps', cstack', gens', nnative')
  BY <1>1, <1>5, <1>6, <1>11
<1>. QED  BY <1>1, <1>2, <1>12, Still

\* Killing the generator of the frame that is left.
LEMMA Killed ==
  ASSUME gens \in GenType, NEW f \in FrameType
  PROVE  Kill(f) \in GenType /\ LeftBy(gens, Kill(f), f.gen)
<1>1. CASE f.gen = None
  BY <1>1, ExecAssumption DEF Kill, LeftBy
<1>2. CASE f.gen # None
  <2>1. f.gen \in Gens
    BY <1>2, FrameFacts
  <2>2. Kill(f) = [gens EXCEPT ![f.gen].st = "dead"]
    BY <1>2 DEF Kill
  <2>3. Kill(f) \in GenType
    BY <2>1, <2>2, SMTT(30) DEF GenType
  <2>4. Kill(f)[f.gen].st = "dead" /\ \A g \in Gens : g # f.gen => Kill(f)[g] = gens[g]
    BY <2>1, <2>2 DEF GenType
  <2>. QED  BY <2>3, <2>4 DEF LeftBy
<1>. QED  BY <1>1, <1>2

\* What is to be shown for a step that may note a failed assertion.
LEMMA Ends ==
  ASSUME StackInv, ~susp.on, UNCHANGED susp, failed' \in BOOLEAN, ~ForeachInTry => ~failed',
         Running(calls, etraps, cstack, gens, nnative)'
  PROVE  StackInv'
BY DEF StackInv

LEMMA AgreeSelf ==
  ASSUME NEW et \in Seq(Nat)
  PROVE  Len(et) \in Nat /\ Len(et) = Len(et) - 0 /\ Agree(et, et, Len(et))
BY LenProperties DEF Agree

LEMMA TopSelf ==
  ASSUME NEW T, NEW s \in Seq(T), s # <<>>
  PROVE  Top(s, Last(s)) = s
BY DEF Top, Last

LEMMA StepOpReturn ==
  ASSUME StackInv, OpReturn PROVE StackInv'
<1>1. /\ cstack # <<>> /\ Last(cstack).k = "exec" /\ Cur.etraps = 0 /\ gens' = Kill(Cur)
      /\ Return(cstack) /\ UNCHANGED <<etraps, susp>>
  BY DEF OpReturn, Executing, Here
<1>2. ~susp.on /\ Running(calls, etraps, cstack, gens, nnative)
  BY <1>1, NotSuspended
<1>3. /\ calls # <<>> /\ Cur = Last(calls) /\ Cur \in FrameType /\ Last(cstack) \in EntryType
      /\ ~(Cur.fn = "native")
  BY <1>1, <1>2, RunningFacts DEF Cur
<1>4. cstack \in Seq(EntryType) /\ etraps \in Seq(Nat) /\ gens \in GenType
  BY <1>2 DEF Running
<1>5. gens' \in GenType /\ LeftBy(gens, gens', Cur.gen)
  BY <1>1, <1>3, <1>4, Killed
<1>6. Len(etraps) = Len(etraps) - Cur.etraps /\ Agree(etraps, etraps, Len(etraps))
  BY <1>1, <1>4, AgreeSelf
<1>7. CASE Cur.root
  <2>1. /\ calls' = Front(calls) /\ cstack' = Front(cstack) /\ nnative' = nnative - 1
        /\ failed' = (failed \/ Last(cstack).traps # 0)
    BY <1>1, <1>7 DEF Return
  <2>2. IsStart(Last(calls))
    BY <1>3, <1>7 DEF IsStart
  <2>3. /\ Running(Front(calls), etraps, Front(cstack), gens', nnative - 1)
        /\ ~ForeachInTry => Last(cstack).traps = Cur.etraps
    BY <1>2, <1>3, <1>4, <1>5, <1>6, <2>2, MoveLeave
  <2>4. Running(calls', etraps', cstack', gens', nnative')
    BY <1>1, <2>1, <2>3
  <2>5. failed' \in BOOLEAN /\ (~ForeachInTry => ~failed')
    BY <1>1, <2>1, <2>3 DEF StackInv
  <2>. QED  BY <1>1, <1>2, <2>4, <2>5, Ends
<1>8. CASE ~Cur.root
  <2>1. calls' = Front(calls) /\ cstack' = cstack /\ UNCHANGED <<nnative, failed>>
    BY <1>1, <1>8 DEF Return
  <2>2. ~IsStart(Last(calls))
    BY <1>3, <1>8 DEF IsStart
  <2>3. SameCaller(Last(cstack), Last(cstack)) /\ Last(cstack).traps = Last(cstack).traps - Last(calls).etraps
    BY <1>1, <1>3, WithFacts DEF SameCaller
  <2>4. Running(Front(calls), etraps, Top(cstack, Last(cstack)), gens', nnative)
    BY <1>2, <1>3, <1>4, <1>5, <1>6, <2>2, <2>3, MoveLeaveInner
  <2>5. Running(calls', etraps', cstack', gens', nnative')
    BY <1>1, <1>4, <2>1, <2>4, TopSelf
  <2>. QED  BY <1>1, <1>2, <2>1, <2>5, Still
<1>. QED  BY <1>7, <1>8

LEMMA StepUnwind ==
  ASSUME StackInv, Unwind PROVE StackInv'
<1>1. /\ cstack # <<>> /\ Last(cstack).k = "exec" /\ Cur.etraps = 0 /\ gens' = Kill(Cur)
      /\ calls' = Front(calls) /\ UNCHANGED <<etraps, susp, failed>>
  BY DEF Unwind, Throwing, Here
<1>2. ~susp.on /\ Running(calls, etraps, cstack, gens, nnative)
  BY <1>1, NotSuspended
<1>3. /\ calls # <<>> /\ Cur = Last(calls) /\ Cur \in FrameType /\ Last(cstack) \in EntryType
      /\ ~(Cur.fn = "native")
  BY <1>1, <1>2, RunningFacts DEF Cur
<1>4. cstack \in Seq(EntryType) /\ etraps \in Seq(Nat) /\ gens \in GenType
  BY <1>2 DEF Running
<1>5. gens' \in GenType /\ LeftBy(gens, gens', Cur.gen)
  BY <1>1, <1>3, <1>4, Killed
<1>6. Len(etraps) = Len(etraps) - Cur.etraps /\ Agree(etraps, etraps, Len(etraps))
  BY <1>1, <1>4, AgreeSelf
<1>7. CASE Cur.root
  <2>1. nnative' = nnative - 1 /\ cstack' \in FailTo(Front(cstack), Last(cstack).via)
    BY <1>7 DEF Unwind, Here
  <2>2. IsStart(Last(calls))
    BY <1>3, <1>7 DEF IsStart
  <2>3. /\ Running(Front(calls), etraps, Front(cstack), gens', nnative - 1)
        /\ Last(cstack).via \in {"op", "meta"} => Front(cstack) # <<>>
    BY <1>2, <1>3, <1>4, <1>5, <1>6, <2>2, MoveLeave
  <2>4. Running(Front(calls), etraps, cstack', gens', nnative - 1)
    BY <2>1, <2>3, FailsTo
  <2>5. Running(calls', etraps', cstack', gens', nnative')
    BY <1>1, <2>1, <2>4
  <2>. QED  BY <1>1, <1>2, <2>5, Still
<1>8. CASE ~Cur.root
  <2>1. cstack' = [cstack EXCEPT ![Len(cstack)].state = "unwinding"] /\ UNCHANGED nnative
    BY <1>8 DEF Unwind
  <2>2. ~IsStart(Last(calls))
    BY <1>3, <1>8 DEF IsStart
  <2>. DEFINE e == WithState(Last(cstack), "unwinding")
  <2>3. e \in EntryType /\ SameCaller(e, Last(cstack)) /\ e.traps = Last(cstack).traps - Last(calls).etraps
    BY <1>1, <1>3, WithFacts
  <2>4. cstack' = Top(cstack, e)
    BY <1>1, <1>4, <2>1, TopForms
  <2>. HIDE DEF e
  <2>5. Running(Front(calls), etraps, Top(cstack, e), gens', nnative)
    BY <1>2, <1>3, <1>4, <1>5, <1>6, <2>2, <2>3, MoveLeaveInner
  <2>6. Running(calls', etraps', cstack', gens', nnative')
    BY <1>1, <2>1, <2>4, <2>5
  <2>. QED  BY <1>1, <1>2, <2>6, Still
<1>. QED  BY <1>7, <1>8

\* The generator takes the traps of its frame, all at the frame's base.
LEMMA StepOpYield ==
  ASSUME StackInv, OpYield PROVE StackInv'
<1>. DEFINE n == Cur.etraps
            g == Cur.gen
            z == [i \in 1 .. n |-> etraps[Len(etraps) + 1 - i] - Cur.base]
            ft == SubSeq(etraps, 1, Len(etraps) - n)
            e == WithTraps(Last(cstack), -n)
<1>1. /\ cstack # <<>> /\ Last(cstack).k = "exec" /\ g # None
      /\ gens' = [gens EXCEPT ![g] = [st |-> "suspended", etraps |-> n, root |-> Cur.root,
                                      traps |-> @.traps \o z]]
      /\ etraps' = ft /\ Return(CountTraps(-n)) /\ UNCHANGED susp
  BY DEF OpYield, Executing, Here
<1>2. ~susp.on /\ Running(calls, etraps, cstack, gens, nnative)
  BY <1>1, NotSuspended
<1>3. /\ calls # <<>> /\ Cur = Last(calls) /\ Cur \in FrameType /\ Last(cstack) \in EntryType
      /\ ~(Cur.fn = "native") /\ Len(calls) \in Nat /\ Last(calls) = calls[Len(calls)]
  BY <1>1, <1>2, RunningFacts DEF Cur
<1>4. /\ cstack \in Seq(EntryType) /\ etraps \in Seq(Nat) /\ gens \in GenType /\ calls \in Seq(FrameType)
      /\ Belong(calls, etraps) /\ GenOK(calls, gens)
  BY <1>2 DEF Running
<1>5. n \in Nat /\ g \in Gens /\ Cur.base \in Nat /\ Cur.root \in BOOLEAN
  BY <1>1, <1>3, FrameFacts
<1>6. Len(etraps) \in Nat /\ n <= Len(etraps) /\ \A i \in 1 .. n : etraps[Len(etraps) + 1 - i] = Cur.base
  <2>1. /\ Below(calls)[Len(calls) - 1] \in Nat /\ Len(etraps) = Below(calls)[Len(calls) - 1] + n
        /\ \A i \in 1 .. n : etraps[Len(etraps) + 1 - i] = Cur.base
    BY <1>3, <1>4, TopBelongs
  <2>. QED  BY <1>5, <2>1
<1>7. z = [i \in 1 .. n |-> 0]
  BY <1>5, <1>6
<1>8. ft \in Seq(Nat) /\ Len(ft) = Len(etraps) - n /\ Agree(ft, etraps, Len(ft))
  <2>1. \A i \in 1 .. Len(etraps) - n : etraps[i] \in Nat
    <3>1. \A i \in 1 .. Len(etraps) - n : i \in 1 .. Len(etraps)
      BY <1>5, <1>6
    <3>. QED  BY <1>4, <3>1, ElementOfSeq
  <2>2. 1 \in Int /\ Len(etraps) - n \in Int
    BY <1>5, <1>6
  <2>3. /\ ft \in Seq(Nat)
        /\ Len(ft) = IF 1 <= Len(etraps) - n THEN Len(etraps) - n - 1 + 1 ELSE 0
        /\ \A i \in 1 .. Len(etraps) - n - 1 + 1 : ft[i] = etraps[1 + i - 1]
    BY <2>1, <2>2, SubSeqProperties
  <2>. HIDE DEF ft
  <2>4. Len(ft) = Len(etraps) - n
    BY <1>5, <1>6, <2>3
  <2>5. \A i \in 1 .. Len(ft) : i \in 1 .. Len(etraps) - n - 1 + 1 /\ 1 + i - 1 = i
    BY <1>5, <1>6, <2>4
  <2>6. \A i \in 1 .. Len(ft) : ft[i] = etraps[i]
    BY <2>3, <2>5
  <2>. QED  BY <2>3, <2>4, <2>6 DEF Agree
<1>9. z \in Seq(Int) /\ Len(z) = n
  <2>1. [i \in 1 .. n |-> 0] \in [1 .. n -> Int]
    OBVIOUS
  <2>2. z \in [1 .. n -> Int]
    BY <1>7, <2>1
  <2>. HIDE DEF z, n
  <2>. QED  BY <1>5, <2>2, FunctionIsSeq
<1>. HIDE DEF z, ft
<1>10. gens[g].traps = <<>>
  <2>1. Len(calls) \in 1 .. Len(calls)
    BY <1>3, <1>4, FrontFacts
  <2>2. OneGen(calls, gens, g) /\ calls[Len(calls)].gen = g
    BY <1>3, <1>4, <1>5 DEF GenOK
  <2>. QED  BY <2>1, <2>2 DEF OneGen
<1>11. <<>> \o z = z
  BY <1>9, ConcatEmptySeq
<1>12. gens' = [gens EXCEPT ![g] = [st |-> "suspended", etraps |-> n, root |-> Cur.root, traps |-> z]]
  BY <1>1, <1>10, <1>11
<1>13. gens' \in GenType
  BY <1>4, <1>5, <1>9, <1>12 DEF GenType
<1>14. LeftBy(gens, gens', g)
  <2>1. /\ gens'[g].st = "suspended" /\ gens'[g].traps = z /\ gens'[g].etraps = n
        /\ \A h \in Gens : h # g => gens'[h] = gens[h]
    BY <1>4, <1>5, <1>12 DEF GenType
  <2>. QED  BY <1>7, <2>1 DEF LeftBy
<1>15. e \in EntryType /\ SameCaller(e, Last(cstack)) /\ e.traps = Last(cstack).traps - n
       /\ Last(cstack).traps \in Int
  <2>1. -n \in Int /\ \A m \in Int : m + (-n) = m - n
    BY <1>5
  <2>. QED  BY <1>3, <2>1, WithFacts
<1>16. CountTraps(-n) = Top(cstack, e)
  BY <1>1, <1>4, TopForms DEF CountTraps
<1>. HIDE DEF e, n, g
<1>17. CASE Cur.root
  <2>1. /\ calls' = Front(calls) /\ cstack' = Front(Top(cstack, e)) /\ nnative' = nnative - 1
        /\ failed' = (failed \/ Last(Top(cstack, e)).traps # 0)
    BY <1>1, <1>16, <1>17 DEF Return
  <2>2. Front(Top(cstack, e)) = Front(cstack) /\ Last(Top(cstack, e)) = e
    <3>1. /\ Top(cstack, e) \in Seq(EntryType) /\ Len(Top(cstack, e)) = Len(cstack)
          /\ Top(cstack, e) # <<>> /\ Top(cstack, e)[Len(cstack)] = e
          /\ \A i \in 1 .. Len(cstack) - 1 : Top(cstack, e)[i] = cstack[i]
      BY <1>1, <1>4, <1>15, TopFacts
    <3>2. /\ Front(cstack) \in Seq(EntryType) /\ Len(Front(cstack)) = Len(cstack) - 1
          /\ \A i \in 1 .. Len(cstack) - 1 : Front(cstack)[i] = cstack[i]
      BY <1>1, <1>4, FrontFacts
    <3>3. /\ Front(Top(cstack, e)) \in Seq(EntryType) /\ Len(Front(Top(cstack, e))) = Len(cstack) - 1
          /\ \A i \in 1 .. Len(cstack) - 1 : Front(Top(cstack, e))[i] = Top(cstack, e)[i]
          /\ Last(Top(cstack, e)) = Top(cstack, e)[Len(cstack)]
      BY <3>1, FrontFacts
    <3>4. Front(Top(cstack, e)) = Front(cstack)
      BY <3>1, <3>2, <3>3, SeqEqual
    <3>. QED  BY <3>1, <3>3, <3>4
  <2>3. IsStart(Last(calls))
    BY <1>3, <1>17 DEF IsStart
  <2>4. /\ Running(Front(calls), ft, Front(cstack), gens', nnative - 1)
        /\ ~ForeachInTry => Last(cstack).traps = n
    BY <1>2, <1>3, <1>8, <1>13, <1>14, <2>3, MoveLeave DEF n, g
  <2>5. Running(calls', etraps', cstack', gens', nnative')
    BY <1>1, <2>1, <2>2, <2>4
  <2>6. failed' \in BOOLEAN /\ (~ForeachInTry => ~failed')
    <3>1. ~ForeachInTry => e.traps = 0
      BY <1>15, <2>4
    <3>. QED  BY <2>1, <2>2, <3>1 DEF StackInv
  <2>. QED  BY <1>1, <1>2, <2>5, <2>6, Ends
<1>18. CASE ~Cur.root
  <2>1. calls' = Front(calls) /\ cstack' = Top(cstack, e) /\ UNCHANGED <<nnative, failed>>
    BY <1>1, <1>16, <1>18 DEF Return
  <2>2. ~IsStart(Last(calls))
    BY <1>3, <1>18 DEF IsStart
  <2>3. Running(Front(calls), ft, Top(cstack, e), gens', nnative)
    BY <1>2, <1>3, <1>8, <1>13, <1>14, <1>15, <2>2, MoveLeaveInner DEF n, g
  <2>4. Running(calls', etraps', cstack', gens', nnative')
    BY <1>1, <2>1, <2>3
  <2>. QED  BY <1>1, <1>2, <2>1, <2>4, Still
<1>. QED  BY <1>17, <1>18


LEMMA StepOpThrow ==
  ASSUME StackInv, OpThrow PROVE StackInv'
BY StepThrown DEF OpThrow, Executing

\* The call stack does not move while a generator function is called through Execute.
StableCalls == \A n \in MovedAt : n >= MaxCalls

LEMMA StepOpCallGenerator ==
  ASSUME StackInv, StableCalls, NEW g \in Gens, NEW via, OpCallGenerator(g, via) PROVE StackInv'
<1>. DEFINE new == [st |-> "suspended", traps |-> <<>>, etraps |-> 0, root |-> FALSE]
<1>0. /\ (cstack # <<>> \/ Idle) /\ gens[g].st = "none" /\ Len(calls) < MaxCalls
      /\ gens' = [gens EXCEPT ![g] = new]
      /\ Len(calls) \notin MovedAt => UNCHANGED <<calls, cstack, nnative>>
      /\ UNCHANGED <<etraps, susp, failed>>
  BY DEF OpCallGenerator, Executing, MayCallAPI, InNative, Room
<1>2. ~susp.on /\ Running(calls, etraps, cstack, gens, nnative)
  BY <1>0, NotSuspended
<1>9. Len(calls) \notin MovedAt
  <2>1. Len(calls) \in Nat
    BY <1>2 DEF Running
  <2>. QED  BY <1>0, <2>1, ExecAssumption DEF StableCalls
<1>1. /\ (cstack # <<>> \/ Idle) /\ gens[g].st = "none"
      /\ gens' = [gens EXCEPT ![g] = new]
      /\ UNCHANGED <<calls, etraps, cstack, nnative, susp, failed>>
  BY <1>0, <1>9
<1>3. gens \in GenType /\ GenOK(calls, gens)
  BY <1>2 DEF Running
<1>4. new.st = "suspended" /\ new.traps = <<>> /\ new.etraps = 0
      /\ new \in [st : {"none", "running", "suspended", "dead"}, traps : Seq(Int), etraps : Nat, root : BOOLEAN]
  BY EmptySeq
<1>. HIDE DEF new
<1>5. gens' \in GenType /\ gens'[g] = new /\ \A h \in Gens : h # g => gens'[h] = gens[h]
  BY <1>1, <1>3, <1>4 DEF GenType
<1>6. [i \in 1 .. 0 |-> 0] = <<>>
  OBVIOUS
<1>7. ASSUME NEW h \in Gens PROVE OneGen(calls, gens', h)
  <2>1. OneGen(calls, gens, h)
    BY <1>3 DEF GenOK
  <2>2. CASE h = g
    BY <1>1, <1>4, <1>5, <1>6, <2>1, <2>2 DEF OneGen
  <2>3. CASE h # g
    BY <1>5, <2>1, <2>3 DEF OneGen
  <2>. QED  BY <2>2, <2>3
<1>8. Running(calls', etraps', cstack', gens', nnative')
  BY <1>1, <1>2, <1>5, <1>7 DEF Running, GenOK
<1>. QED  BY <1>1, <1>2, <1>8, Still

\* What Resume makes of a suspended generator.
ResumeFrame(g, root) == Frame("script", root, gens[g].etraps, g, TopBase)
ResumeTraps(g) == [i \in 1 .. gens[g].etraps |-> TopBase]

LEMMA Resumed ==
  ASSUME Running(calls, etraps, cstack, gens, nnative), NEW g \in Gens, gens[g].st = "suspended",
         NEW root \in BOOLEAN, Resume(g, root)
  PROVE  /\ gens[g].etraps \in Nat
         /\ calls' = Append(calls, ResumeFrame(g, root)) /\ ResumeFrame(g, root) \in FrameType
         /\ ResumeFrame(g, root).fn = "script" /\ ResumeFrame(g, root).root = root
         /\ ResumeFrame(g, root).etraps = gens[g].etraps /\ ResumeFrame(g, root).gen = g
         /\ ResumeFrame(g, root).base = TopBase
         /\ etraps' = etraps \o ResumeTraps(g) /\ ResumeTraps(g) \in Seq(Nat)
         /\ Len(ResumeTraps(g)) = gens[g].etraps
         /\ \A j \in 1 .. gens[g].etraps : ResumeTraps(g)[j] = TopBase
         /\ gens' \in GenType /\ ResumedAs(gens, gens', g)
<1>. DEFINE n == gens[g].etraps
            t == gens[g].traps
<1>1. gens \in GenType /\ OneGen(calls, gens, g)
  BY DEF Running, GenOK
<1>2. n \in Nat /\ t = [i \in 1 .. n |-> 0]
  BY <1>1 DEF GenType, OneGen
<1>3. TopBase \in Nat
  BY FrameMade
<1>4. /\ calls' = Append(calls, Frame("script", root, n, g, TopBase))
      /\ etraps' = etraps \o [i \in 1 .. n |-> t[Len(t) + 1 - i] + TopBase]
      /\ gens' = [gens EXCEPT ![g].st = "running", ![g].traps = SubSeq(t, 1, Len(t) - n)]
  BY DEF Resume
<1>. HIDE DEF n, t
<1>5. Len(t) = n /\ t \in Seq(Int)
  <2>1. [i \in 1 .. n |-> 0] \in [1 .. n -> Int]
    OBVIOUS
  <2>2. t \in [1 .. n -> Int]
    BY <1>2, <2>1
  <2>. QED  BY <1>2, <2>2, FunctionIsSeq
<1>6. \A i \in 1 .. n : t[Len(t) + 1 - i] + TopBase = TopBase
  <2>1. \A i \in 1 .. n : n + 1 - i \in 1 .. n
    BY <1>2
  <2>2. \A i \in 1 .. n : t[n + 1 - i] = 0
    BY <1>2, <2>1
  <2>. QED  BY <1>3, <1>5, <2>2
<1>7. etraps' = etraps \o [i \in 1 .. n |-> TopBase]
  <2>1. [i \in 1 .. n |-> t[Len(t) + 1 - i] + TopBase] = [i \in 1 .. n |-> TopBase]
    BY <1>6
  <2>. QED  BY <1>4, <2>1
<1>8. SubSeq(t, 1, Len(t) - n) = <<>>
  <2>1. Len(t) - n = 0
    BY <1>2, <1>5
  <2>. QED  BY <1>5, <2>1, SubSeqEmpty
<1>9. gens' = [gens EXCEPT ![g].st = "running", ![g].traps = <<>>]
  BY <1>4, <1>8
<1>10. gens' \in GenType /\ ResumedAs(gens, gens', g)
  <2>1. gens'[g].st = "running" /\ gens'[g].traps = <<>> /\ \A h \in Gens \ {g} : gens'[h] = gens[h]
    BY <1>1, <1>9 DEF GenType
  <2>2. <<>> \in Seq(Int)
    BY EmptySeq
  <2>3. gens' \in GenType
    BY <1>1, <1>9, <2>2 DEF GenType
  <2>. QED  BY <2>1, <2>3 DEF ResumedAs
<1>11. /\ ResumeTraps(g) \in Seq(Nat) /\ Len(ResumeTraps(g)) = n
       /\ \A j \in 1 .. n : ResumeTraps(g)[j] = TopBase
  <2>1. ResumeTraps(g) \in [1 .. n -> Nat] /\ \A j \in 1 .. n : ResumeTraps(g)[j] = TopBase
    BY <1>3 DEF ResumeTraps, n
  <2>. QED  BY <1>2, <2>1, FunctionIsSeq
<1>12. /\ ResumeFrame(g, root) \in FrameType
       /\ ResumeFrame(g, root).fn = "script" /\ ResumeFrame(g, root).root = root
       /\ ResumeFrame(g, root).etraps = n /\ ResumeFrame(g, root).gen = g
       /\ ResumeFrame(g, root).base = TopBase
  BY <1>2, <1>3 DEF ResumeFrame, Frame, FrameType, n
<1>. QED  BY <1>2, <1>4, <1>7, <1>10, <1>11, <1>12 DEF n, ResumeFrame, ResumeTraps


\* A script resumes a generator.  The host has not resumed it before, so its frame
\* is not a root frame and the Execute of the script runs it.
LEMMA StepOpResume ==
  ASSUME StackInv, ~MixedResume, NEW g \in Gens, OpResume(g) PROVE StackInv'
<1>1. /\ cstack # <<>> /\ Last(cstack).k = "exec" /\ UNCHANGED <<nnative, susp, failed>>
  BY DEF OpResume, Executing, Here
<1>2. ~susp.on /\ Running(calls, etraps, cstack, gens, nnative)
  BY <1>1, NotSuspended
<1>3. CASE gens[g].st # "suspended"
  BY <1>1, <1>3, StepThrown DEF OpResume
<1>4. CASE gens[g].st = "suspended"
  <2>. DEFINE f == ResumeFrame(g, FALSE)
              ft == ResumeTraps(g)
              e == WithTraps(Last(cstack), gens[g].etraps)
  <2>1. cstack' = CountTraps(gens[g].etraps) /\ Resume(g, gens[g].root) /\ ~gens[g].root
    BY <1>4 DEF OpResume, ScriptMayResume
  <2>2. gens[g].root = FALSE
    BY <1>2, <2>1 DEF Running, GenType
  <2>3. Resume(g, FALSE)
    BY <2>1, <2>2
  <2>4. /\ gens[g].etraps \in Nat /\ calls' = Append(calls, f) /\ f \in FrameType
        /\ f.fn = "script" /\ f.root = FALSE /\ f.etraps = gens[g].etraps /\ f.gen = g /\ f.base = TopBase
        /\ etraps' = etraps \o ft /\ ft \in Seq(Nat) /\ Len(ft) = gens[g].etraps
        /\ \A j \in 1 .. gens[g].etraps : ft[j] = TopBase
        /\ gens' \in GenType /\ ResumedAs(gens, gens', g)
    BY <1>2, <1>4, <2>3, Resumed
  <2>5. cstack \in Seq(EntryType) /\ Last(cstack) \in EntryType
    BY <1>1, <1>2, RunningFacts DEF Running
  <2>6. cstack' = Top(cstack, e)
    BY <1>1, <2>1, <2>5, TopForms DEF CountTraps
  <2>. HIDE DEF f, ft
  <2>7. e \in EntryType /\ SameCaller(e, Last(cstack)) /\ e.traps = Last(cstack).traps + f.etraps
    <3>1. gens[g].etraps \in Int
      BY <2>4
    <3>2. e \in EntryType /\ SameCaller(e, Last(cstack)) /\ e.traps = Last(cstack).traps + gens[g].etraps
      BY <2>5, <3>1, WithFacts
    <3>. QED  BY <2>4, <3>2
  <2>. HIDE DEF e
  <2>8. Running(Append(calls, f), etraps \o ft, Top(cstack, e), gens', nnative)
    BY <1>1, <1>2, <1>4, <2>4, <2>7, MoveResumeNest
  <2>9. Running(calls', etraps', cstack', gens', nnative')
    BY <1>1, <2>4, <2>6, <2>8
  <2>. QED  BY <1>1, <1>2, <2>9, Still
<1>. QED  BY <1>3, <1>4

\* foreach does not count the traps that come back: without ForeachInTry there are none.
LEMMA StepOpForeach ==
  ASSUME StackInv, ~MixedResume, NEW g \in Gens, OpForeach(g) PROVE StackInv'
<1>1. /\ cstack # <<>> /\ Last(cstack).k = "exec" /\ UNCHANGED <<nnative, susp, failed>>
  BY DEF OpForeach, Executing, Here
<1>2. ~susp.on /\ Running(calls, etraps, cstack, gens, nnative)
  BY <1>1, NotSuspended
<1>3. CASE gens[g].st # "suspended"
  BY <1>1, <1>3, StepThrown DEF OpForeach
<1>4. CASE gens[g].st = "suspended"
  <2>. DEFINE f == ResumeFrame(g, FALSE)
              ft == ResumeTraps(g)
  <2>1. /\ cstack' = cstack /\ Resume(g, gens[g].root) /\ ~gens[g].root
        /\ ForeachInTry \/ gens[g].etraps = 0
    BY <1>4 DEF OpForeach, ScriptMayResume
  <2>2. gens[g].root = FALSE
    BY <1>2, <2>1 DEF Running, GenType
  <2>3. Resume(g, FALSE)
    BY <2>1, <2>2
  <2>4. /\ gens[g].etraps \in Nat /\ calls' = Append(calls, f) /\ f \in FrameType
        /\ f.fn = "script" /\ f.root = FALSE /\ f.etraps = gens[g].etraps /\ f.gen = g /\ f.base = TopBase
        /\ etraps' = etraps \o ft /\ ft \in Seq(Nat) /\ Len(ft) = gens[g].etraps
        /\ \A j \in 1 .. gens[g].etraps : ft[j] = TopBase
        /\ gens' \in GenType /\ ResumedAs(gens, gens', g)
    BY <1>2, <1>4, <2>3, Resumed
  <2>5. cstack \in Seq(EntryType) /\ Last(cstack) \in EntryType
    BY <1>1, <1>2, RunningFacts DEF Running
  <2>6. SameCaller(Last(cstack), Last(cstack)) /\ (~ForeachInTry => Last(cstack).traps = Last(cstack).traps + f.etraps)
    <3>1. Last(cstack).traps \in Int
      BY <2>5, WithFacts
    <3>. HIDE DEF f
    <3>. QED  BY <2>1, <2>4, <3>1 DEF SameCaller
  <2>. HIDE DEF f, ft
  <2>7. Running(Append(calls, f), etraps \o ft, Top(cstack, Last(cstack)), gens', nnative)
    BY <1>1, <1>2, <1>4, <2>4, <2>5, <2>6, MoveResumeNest
  <2>8. Running(calls', etraps', cstack', gens', nnative')
    BY <1>1, <2>1, <2>4, <2>5, <2>7, TopSelf
  <2>. QED  BY <1>1, <1>2, <2>8, Still
<1>. QED  BY <1>3, <1>4

LEMMA StepApiResume ==
  ASSUME StackInv, NEW g \in Gens, ApiResume(g) PROVE StackInv'
<1>. DEFINE f == ResumeFrame(g, TRUE)
            ft == ResumeTraps(g)
            e == Exec("api", gens[g].etraps, "run")
<1>1. /\ (cstack # <<>> \/ Idle) /\ gens[g].st = "suspended" /\ nnative < MaxNativeCalls
      /\ Resume(g, TRUE) /\ nnative' = nnative + 1 /\ cstack' = Append(cstack, e)
      /\ UNCHANGED <<susp, failed>>
  BY DEF ApiResume, MayCallAPI, InNative
<1>2. ~susp.on /\ Running(calls, etraps, cstack, gens, nnative)
  BY <1>1, NotSuspended
<1>3. nnative + 1 <= MaxNativeCalls
  BY <1>1, <1>2, RunningFacts, ExecAssumption
<1>4. /\ gens[g].etraps \in Nat /\ calls' = Append(calls, f) /\ f \in FrameType
      /\ f.fn = "script" /\ f.root = TRUE /\ f.etraps = gens[g].etraps /\ f.gen = g /\ f.base = TopBase
      /\ etraps' = etraps \o ft /\ ft \in Seq(Nat) /\ Len(ft) = gens[g].etraps
      /\ \A j \in 1 .. gens[g].etraps : ft[j] = TopBase
      /\ gens' \in GenType /\ ResumedAs(gens, gens', g)
  BY <1>1, <1>2, Resumed
<1>5. e \in EntryType /\ e.k = "exec" /\ e.via = "api" /\ e.traps = f.etraps
  <2>1. gens[g].etraps \in Int
    BY <1>4
  <2>2. e \in EntryType
    BY <2>1, EntriesMade
  <2>3. e.k = "exec" /\ e.via = "api" /\ e.traps = gens[g].etraps
    BY DEF Exec
  <2>. HIDE DEF f, e
  <2>. QED  BY <1>4, <2>2, <2>3
<1>. HIDE DEF f, ft, e
<1>6. Running(Append(calls, f), etraps \o ft, Append(cstack, e), gens', nnative + 1)
  BY <1>1, <1>2, <1>3, <1>4, <1>5, MoveResumeEnter
<1>7. Running(calls', etraps', cstack', gens', nnative')
  BY <1>1, <1>4, <1>6
<1>. QED  BY <1>1, <1>2, <1>7, Still

\* The error handler is called from a failing Execute.
LEMMA StepCallErrorHandler ==
  ASSUME StackInv, CallErrorHandler PROVE StackInv'
<1>. DEFINE cs == [cstack EXCEPT ![Len(cstack)].state = "unwinding"]
            f1 == Frame("script", TRUE, 0, None, CallBase)
            f2 == Frame("native", FALSE, 0, None, CallBase)
            e1 == Exec("handler", 0, "run")
            e2 == Native("handler")
<1>1. /\ cstack # <<>> /\ nnative < MaxNativeCalls /\ nnative' = nnative + 1
      /\ \/ cstack' = Append(cs, e1) /\ calls' = Append(calls, f1)
         \/ cstack' = Append(cs, e2) /\ calls' = Append(calls, f2)
      /\ UNCHANGED <<etraps, gens, susp, failed>>
  BY DEF CallErrorHandler, Throwing
<1>2. ~susp.on /\ Running(calls, etraps, cstack, gens, nnative)
  BY <1>1, NotSuspended
<1>3. nnative + 1 <= MaxNativeCalls
  BY <1>1, <1>2, RunningFacts, ExecAssumption
<1>4. cs = Top(cstack, WithState(Last(cstack), "unwinding"))
  BY <1>1, <1>2, TopForms DEF Running
<1>5. Running(calls, etraps, cs, gens, nnative)
  <2>. HIDE DEF cs
  <2>. QED  BY <1>1, <1>2, <1>4, MoveState
<1>6. f1 \in FrameType /\ f2 \in FrameType /\ e1 \in EntryType /\ e2 \in EntryType
  BY <1>2, FrameMade, EntriesMade
<1>7. /\ IsStart(f1) /\ ~(f1.fn = "native") /\ ~(e1.k = "native") /\ e1.traps = 0 /\ f1.etraps = 0
      /\ f1.gen = None /\ e1.via = "handler"
      /\ IsStart(f2) /\ f2.fn = "native" /\ e2.k = "native" /\ e2.traps = 0 /\ f2.etraps = 0
      /\ f2.gen = None /\ e2.via = "handler" /\ ~f2.root
  BY DEF Frame, Exec, Native, IsStart
<1>. HIDE DEF cs, f1, f2, e1, e2
<1>8. /\ Running(Append(calls, f1), etraps, Append(cs, e1), gens, nnative + 1)
      /\ Running(Append(calls, f2), etraps, Append(cs, e2), gens, nnative + 1)
  <2>1. ~(e1.via \in {"op", "meta"}) /\ ~(e2.via \in {"op", "meta"})
    BY <1>7
  <2>. QED  BY <1>3, <1>5, <1>6, <1>7, <2>1, MoveEnter
<1>9. Running(calls', etraps', cstack', gens', nnative')
  BY <1>1, <1>8
<1>. QED  BY <1>1, <1>2, <1>9, Still


\* The frame of a native function is left.
LEMMA NativeLeft ==
  ASSUME StackInv, InNative
  PROVE  /\ ~susp.on /\ Running(calls, etraps, cstack, gens, nnative)
         /\ calls # <<>> /\ Cur \in FrameType /\ Cur = Last(calls) /\ Cur.fn = "native" /\ ~Cur.root
         /\ Cur.etraps = 0 /\ Cur.gen = None
         /\ Running(Front(calls), etraps, Front(cstack), gens, nnative - 1)
         /\ Here.via \in {"op", "meta"} =>
              Front(cstack) # <<>> /\ Last(Front(cstack)).k = "exec" /\ Front(calls) # <<>>
<1>1. cstack # <<>> /\ Last(cstack).k = "native" /\ Here = Last(cstack)
  BY DEF InNative, Here
<1>2. ~susp.on /\ Running(calls, etraps, cstack, gens, nnative)
  BY <1>1, NotSuspended
<1>3. calls # <<>> /\ Cur = Last(calls) /\ Cur \in FrameType /\ Cur.fn = "native"
  BY <1>1, <1>2, RunningFacts DEF Cur
<1>4. /\ calls \in Seq(FrameType) /\ cstack \in Seq(EntryType) /\ Fits(calls, cstack)
      /\ etraps \in Seq(Nat) /\ gens \in GenType
  BY <1>2 DEF Running
<1>5. ~Cur.root /\ Cur.etraps = 0 /\ Cur.gen = None
  BY <1>3, <1>4, TopFits
<1>6. IsStart(Last(calls)) /\ LeftBy(gens, gens, Last(calls).gen)
  BY <1>3, <1>5, ExecAssumption DEF IsStart, LeftBy
<1>7. Len(etraps) = Len(etraps) - Last(calls).etraps /\ Agree(etraps, etraps, Len(etraps))
  BY <1>3, <1>4, <1>5, AgreeSelf
<1>8. /\ Running(Front(calls), etraps, Front(cstack), gens, nnative - 1)
      /\ Last(cstack).via \in {"op", "meta"} =>
           Front(cstack) # <<>> /\ Last(Front(cstack)).k = "exec" /\ Front(calls) # <<>>
  BY <1>2, <1>3, <1>4, <1>6, <1>7, MoveLeave
<1>. QED  BY <1>1, <1>2, <1>3, <1>5, <1>8

LEMMA StepNativeReturn ==
  ASSUME StackInv, NativeReturn PROVE StackInv'
<1>1. /\ InNative /\ calls' = Front(calls) /\ nnative' = nnative - 1
      /\ cstack' \in {Front(cstack)} \cup FailTo(Front(cstack), Here.via)
      /\ UNCHANGED <<etraps, gens, susp, failed>>
  BY DEF NativeReturn
<1>2. /\ ~susp.on /\ Running(Front(calls), etraps, Front(cstack), gens, nnative - 1)
      /\ Here.via \in {"op", "meta"} => Front(cstack) # <<>>
  BY <1>1, NativeLeft
<1>3. Running(Front(calls), etraps, cstack', gens, nnative - 1)
  <2>1. CASE cstack' = Front(cstack)
    BY <1>2, <2>1
  <2>2. CASE cstack' \in FailTo(Front(cstack), Here.via)
    BY <1>2, <2>2, FailsTo
  <2>. QED  BY <1>1, <2>1, <2>2
<1>4. Running(calls', etraps', cstack', gens', nnative')
  BY <1>1, <1>2, <1>3
<1>. QED  BY <1>1, <1>2, <1>4, Still

\* The Execute that waits for a native function returns and leaves its frames for
\* the one sq_wakeupvm starts.
LEMMA StepNativeSuspend ==
  ASSUME StackInv, ~FlagsAnywhere, NativeSuspend PROVE StackInv'
<1>. DEFINE cl == Front(calls)
            cs == Front(cstack)
            n == Last(cs).traps
            e == Exec("api", n, "run")
<1>1. /\ InNative /\ nnative = 2 /\ Here.via = "op" /\ calls' = cl
      /\ cstack' = Front(cs) /\ nnative' = nnative - 2
      /\ susp' = [on |-> TRUE, root |-> Last(cl).root, traps |-> n]
      /\ UNCHANGED <<etraps, gens, failed>>
  BY DEF NativeSuspend
<1>2. /\ Running(cl, etraps, cs, gens, nnative - 1)
      /\ cs # <<>> /\ Last(cs).k = "exec" /\ cl # <<>>
  BY <1>1, NativeLeft
<1>. HIDE DEF cl, cs
<1>3. nnative - 1 = 1 /\ nnative' = 0
  BY <1>1
<1>4. /\ cl \in Seq(FrameType) /\ etraps \in Seq(Nat) /\ cs \in Seq(EntryType) /\ gens \in GenType
      /\ Len(cs) = 1 /\ 1 <= MaxNativeCalls
      /\ Fits(cl, cs) /\ Belong(cl, etraps) /\ GenOK(cl, gens)
  BY <1>2, <1>3 DEF Running
<1>5. Last(cl) \in FrameType /\ Last(cs) \in EntryType /\ Last(cs) = cs[1]
  BY <1>2, <1>4, FrontFacts
<1>6. Front(cs) = <<>>
  <2>1. Front(cs) \in Seq(EntryType) /\ Len(Front(cs)) = Len(cs) - 1
    BY <1>2, <1>4, FrontFacts
  <2>. QED  BY <1>4, <2>1, EmptySeq
<1>7. n \in Int /\ Last(cl).root \in BOOLEAN
  BY <1>5, WithFacts, FrameFacts
<1>8. e \in EntryType /\ e.k = "exec" /\ e.traps = n /\ e.via = "api"
  <2>1. e.k = "exec" /\ e.traps = n /\ e.via = "api"
    BY DEF Exec
  <2>. QED  BY <1>7, <2>1, EntriesMade
<1>9. susp' \in [on : BOOLEAN, root : BOOLEAN, traps : Int] /\ susp'.on /\ susp'.root = Last(cl).root
      /\ e = Exec("api", susp'.traps, "run")
  BY <1>1, <1>7
<1>10. n = Last(cs).traps
  OBVIOUS
<1>. HIDE DEF n, e
<1>11. <<e>> \in Seq(EntryType) /\ Len(<<e>>) = 1 /\ <<e>>[1] = e
  BY <1>8
<1>12. Fits(cl, <<e>>)
  <2>1. \A m \in 1 .. 1 : m = 1
    OBVIOUS
  <2>2. \A m \in 1 .. Len(cs) : <<e>>[m].k = cs[m].k /\ <<e>>[m].traps = cs[m].traps
    BY <1>2, <1>4, <1>5, <1>8, <1>10, <1>11, <2>1
  <2>. QED  BY <1>4, <1>11, <2>2, FitsSame
<1>13. Callers(<<e>>)
  <2>1. \A m \in 1 .. 1 : m = 1
    OBVIOUS
  <2>. QED  BY <1>8, <1>11, <2>1 DEF Callers
<1>14. Running(cl, etraps, <<e>>, gens, 1)
  BY <1>4, <1>11, <1>12, <1>13 DEF Running
<1>15. Running(calls', etraps', <<Exec("api", susp'.traps, "run")>>, gens', 1)
  BY <1>1, <1>9, <1>14
<1>16. failed' \in BOOLEAN /\ (~ForeachInTry => ~failed')
  BY <1>1 DEF StackInv
<1>17. cstack' = <<>> /\ calls' # <<>> /\ susp'.root = Last(calls').root
  BY <1>1, <1>2, <1>6, <1>9
<1>. QED  BY <1>3, <1>9, <1>15, <1>16, <1>17 DEF StackInv

LEMMA FrontThenTop ==
  ASSUME NEW T, NEW s \in Seq(T), s # <<>>, NEW x \in T
  PROVE  Append(Front(s), x) = Top(s, x)
<1>1. /\ Front(s) \in Seq(T) /\ Len(s) \in Nat \ {0} /\ Len(Front(s)) = Len(s) - 1
      /\ \A i \in 1 .. Len(s) - 1 : Front(s)[i] = s[i]
  BY FrontFacts
<1>2. /\ Append(Front(s), x) \in Seq(T) /\ Len(Append(Front(s), x)) = Len(s) - 1 + 1
      /\ \A i \in 1 .. Len(s) - 1 : Append(Front(s), x)[i] = s[i]
      /\ Append(Front(s), x)[Len(s) - 1 + 1] = x
  BY <1>1, AppendFacts
<1>3. \A n \in Nat \ {0} : n - 1 + 1 = n /\ \A i \in 1 .. n : i \in 1 .. n - 1 \/ i = n
  OBVIOUS
<1>4. Len(s) - 1 + 1 = Len(s) /\ \A i \in 1 .. Len(s) : i \in 1 .. Len(s) - 1 \/ i = Len(s)
  BY <1>1, <1>3
<1>5. /\ Top(s, x) \in Seq(T) /\ Len(Top(s, x)) = Len(s) /\ Top(s, x)[Len(s)] = x
      /\ \A i \in 1 .. Len(s) - 1 : Top(s, x)[i] = s[i]
  BY TopFacts
<1>6. \A i \in 1 .. Len(s) : Append(Front(s), x)[i] = Top(s, x)[i]
  BY <1>2, <1>4, <1>5
<1>. QED  BY <1>2, <1>4, <1>5, <1>6, SeqEqual

\* The frame of a native function becomes that of the closure it calls.
LEMMA StepNativeTailCall ==
  ASSUME StackInv, ~FlagsAnywhere, NativeTailCall PROVE StackInv'
<1>. DEFINE f == [Cur EXCEPT !.fn = "script"]
<1>1. /\ InNative /\ Here.via = "op" /\ calls' = [calls EXCEPT ![Len(calls)].fn = "script"]
      /\ cstack' = Front(cstack) /\ nnative' = nnative - 1
      /\ UNCHANGED <<etraps, gens, susp, failed>>
  BY DEF NativeTailCall
<1>2. /\ ~susp.on /\ Running(calls, etraps, cstack, gens, nnative)
      /\ calls # <<>> /\ Cur \in FrameType /\ Cur = Last(calls) /\ ~Cur.root
      /\ Cur.etraps = 0 /\ Cur.gen = None
      /\ Running(Front(calls), etraps, Front(cstack), gens, nnative - 1)
      /\ Front(cstack) # <<>> /\ Last(Front(cstack)).k = "exec"
  BY <1>1, NativeLeft
<1>3. calls \in Seq(FrameType) /\ Cur = calls[Len(calls)]
  BY <1>2, RunningFacts DEF Running
<1>4. f \in FrameType /\ f.fn = "script" /\ f.root = Cur.root /\ f.etraps = Cur.etraps /\ f.gen = Cur.gen
  BY <1>2 DEF FrameType
<1>5. calls' = Top(calls, f)
  BY <1>1, <1>3 DEF Top
<1>. HIDE DEF f
<1>6. ~IsStart(f) /\ f.etraps = 0 /\ f.gen = None
  BY <1>2, <1>4 DEF IsStart
<1>7. Running(Append(Front(calls), f), etraps, Front(cstack), gens, nnative - 1)
  BY <1>2, <1>4, <1>6, MoveCall
<1>8. Append(Front(calls), f) = Top(calls, f)
  BY <1>2, <1>3, <1>4, FrontThenTop
<1>9. Running(calls', etraps', cstack', gens', nnative')
  BY <1>1, <1>5, <1>7, <1>8
<1>. QED  BY <1>1, <1>2, <1>9, Still

LEMMA StepWakeUp ==
  ASSUME StackInv, NEW st \in {"run", "raised"}, WakeUp(st) PROVE StackInv'
<1>. DEFINE e == Exec("api", susp.traps, "run")
<1>1. /\ susp.on /\ cstack = <<>> /\ nnative' = nnative + 1
      /\ cstack' = <<Exec("api", susp.traps, st)>>
      /\ calls' = [calls EXCEPT ![Len(calls)].root = susp.root]
      /\ susp' = [susp EXCEPT !.on = FALSE] /\ UNCHANGED <<etraps, gens, failed>>
  BY DEF WakeUp
<1>2. /\ nnative = 0 /\ calls # <<>> /\ susp.root = Last(calls).root
      /\ Running(calls, etraps, <<e>>, gens, 1)
      /\ susp \in [on : BOOLEAN, root : BOOLEAN, traps : Int]
      /\ failed \in BOOLEAN /\ (~ForeachInTry => ~failed)
  BY <1>1 DEF StackInv
<1>3. calls \in Seq(FrameType) /\ Last(calls) = calls[Len(calls)] /\ Last(calls) \in FrameType
  BY <1>2, RunningFacts DEF Running
<1>4. calls' = calls
  <2>1. [Last(calls) EXCEPT !.root = susp.root] = Last(calls)
    BY <1>2, <1>3 DEF FrameType
  <2>2. calls' = Top(calls, [Last(calls) EXCEPT !.root = susp.root])
    BY <1>1, <1>3 DEF Top
  <2>. QED  BY <1>2, <1>3, <2>1, <2>2, TopSelf
<1>5. susp' \in [on : BOOLEAN, root : BOOLEAN, traps : Int] /\ ~susp'.on /\ nnative' = 1
  <2>1. susp' \in [on : BOOLEAN, root : BOOLEAN, traps : Int] /\ susp'.on = FALSE
    BY <1>1, <1>2
  <2>2. nnative' = 1
    BY <1>1, <1>2
  <2>. QED  BY <2>1, <2>2
<1>6. Exec("api", susp.traps, st) = WithState(e, st)
  BY DEF Exec, WithState
<1>7. e \in EntryType /\ WithState(e, st) \in EntryType
  <2>1. susp.traps \in Int
    BY <1>2
  <2>2. e \in EntryType
    BY <2>1, EntriesMade
  <2>. HIDE DEF e
  <2>. QED  BY <2>2, WithFacts
<1>. HIDE DEF e
<1>8. cstack' = Top(<<e>>, WithState(Last(<<e>>), st)) /\ <<e>> # <<>>
  <2>1. Last(<<e>>) = e
    BY DEF Last
  <2>2. Top(<<e>>, WithState(e, st)) = <<WithState(e, st)>>
    BY DEF Top
  <2>. QED  BY <1>1, <1>6, <2>1, <2>2
<1>9. Running(calls, etraps, Top(<<e>>, WithState(Last(<<e>>), st)), gens, 1)
  <2>1. st \in {"run", "raised", "unwinding"}
    OBVIOUS
  <2>. QED  BY <1>2, <1>8, <2>1, MoveState
<1>10. Running(calls', etraps', cstack', gens', nnative')
  BY <1>1, <1>4, <1>5, <1>8, <1>9
<1>. QED  BY <1>1, <1>2, <1>5, <1>10 DEF StackInv


-----------------------------------------------------------------------------
(* The theorems. *)

LEMMA InitStackInv ==
  ASSUME Init PROVE StackInv
<1>1. /\ calls = <<>> /\ etraps = <<>> /\ cstack = <<>> /\ nnative = 0
      /\ gens = [g \in Gens |-> [st |-> "none", traps |-> <<>>, etraps |-> 0, root |-> FALSE]]
      /\ susp = [on |-> FALSE, root |-> FALSE, traps |-> -1] /\ failed = FALSE
  BY DEF Init
<1>2. susp \in [on : BOOLEAN, root : BOOLEAN, traps : Int] /\ ~susp.on
  <2>1. -1 \in Int
    OBVIOUS
  <2>. QED  BY <1>1, <2>1
<1>3. calls \in Seq(FrameType) /\ etraps \in Seq(Nat) /\ cstack \in Seq(EntryType) /\ Len(<<>>) = 0
  BY <1>1, EmptySeq
<1>4. gens \in GenType /\ \A g \in Gens : gens[g].st = "none"
  <2>1. <<>> \in Seq(Int)
    BY EmptySeq
  <2>. QED  BY <1>1, <2>1 DEF GenType
<1>5. Owner(calls)[0] = 0 /\ Below(calls)[0] = 0 /\ Len(calls) = 0 /\ Len(cstack) = 0 /\ Len(etraps) = 0
  BY <1>1, <1>3, CountsSteps
<1>6. \A i \in 1 .. 0 : FALSE
  OBVIOUS
<1>7. Fits(calls, cstack) /\ Callers(cstack)
  BY <1>5, <1>6 DEF Fits, Callers
<1>8. Belong(calls, etraps)
  BY <1>5, <1>6 DEF Belong, Holds
<1>9. GenOK(calls, gens)
  BY <1>4, <1>5, <1>6 DEF GenOK, OneGen
<1>10. nnative <= MaxNativeCalls
  BY <1>1, ExecAssumption
<1>11. Running(calls, etraps, cstack, gens, nnative)
  BY <1>1, <1>3, <1>4, <1>5, <1>7, <1>8, <1>9, <1>10 DEF Running
<1>. QED  BY <1>1, <1>2, <1>11 DEF StackInv

LEMMA NextStackInv ==
  ASSUME ~MixedResume, ~FlagsAnywhere, StableCalls, StackInv, [Next]_vars PROVE StackInv'
<1>1. CASE OpCall \/ OpCallNative \/ OpMeta \/ ApiCall
  BY <1>1, StepOpCall, StepCalls
<1>2. CASE PushTrap \/ PopTrap \/ OpReturn \/ OpYield
  BY <1>2, StepPushTrap, StepPopTrap, StepOpReturn, StepOpYield
<1>3. ASSUME NEW g \in Gens, OpResume(g) \/ OpForeach(g) \/ ApiResume(g)
      PROVE  StackInv'
  BY <1>3, StepOpResume, StepOpForeach, StepApiResume
<1>8. ASSUME NEW g \in Gens, NEW via, OpCallGenerator(g, via) PROVE StackInv'
  BY <1>8, StepOpCallGenerator
<1>4. CASE OpThrow \/ CallErrorHandler \/ Catch \/ Unwind
  BY <1>4, StepOpThrow, StepCallErrorHandler, StepCatch, StepUnwind
<1>5. CASE NativeReturn \/ NativeSuspend \/ NativeTailCall
  BY <1>5, StepNativeReturn, StepNativeSuspend, StepNativeTailCall
<1>6. CASE WakeUp("run") \/ WakeUp("raised")
  BY <1>6, StepWakeUp
<1>7. CASE UNCHANGED vars
  BY <1>7 DEF vars, StackInv, Running
<1>. QED  BY <1>1, <1>2, <1>3, <1>4, <1>5, <1>6, <1>7, <1>8 DEF Next

\* Every state satisfies the inductive invariant of the call stack, the trap stack,
\* the C stack and the generators, as long as scripts leave generators that the host
\* has resumed to the host (sq_resume makes their frame a root frame for good), only
\* natives called by a CALL instruction suspend the machine or make tail calls, and
\* Execute's prevci is not stale when it has called a generator function.
THEOREM StackInvariant ==
  ASSUME ~MixedResume, ~FlagsAnywhere, StableCalls PROVE Spec => []StackInv
<1>1. Init => StackInv
  BY InitStackInv
<1>2. StackInv /\ [Next]_vars => StackInv'
  BY NextStackInv
<1>. QED  BY <1>1, <1>2, PTL DEF Spec

\* The runners of the frames, suspended or not.
LEMMA RunnersRun ==
  ASSUME StackInv
  PROVE  Running(calls, etraps, Runners, gens, Len(Runners))
<1>1. CASE ~susp.on
  <2>1. Running(calls, etraps, cstack, gens, nnative) /\ Runners = cstack
    BY <1>1 DEF StackInv, Runners
  <2>2. nnative = Len(cstack)
    BY <2>1 DEF Running
  <2>. QED  BY <2>1, <2>2
<1>2. CASE susp.on
  <2>1. Running(calls, etraps, <<Exec("api", susp.traps, "run")>>, gens, 1) /\ cstack = <<>>
    BY <1>2 DEF StackInv
  <2>2. <<Exec("api", susp.traps, "run")>> \in Seq(EntryType) /\ 1 = Len(<<Exec("api", susp.traps, "run")>>)
    BY <2>1 DEF Running
  <2>3. Runners = <<Exec("api", susp.traps, "run")>>
    BY <1>2, <2>1, <2>2, ConcatEmptySeq DEF Runners
  <2>. QED  BY <2>1, <2>2, <2>3
<1>. QED  BY <1>1, <1>2

LEMMA StackTypes ==
  ASSUME StackInv PROVE TypeOK /\ nnative = Len(cstack)
<1>1. Running(calls, etraps, Runners, gens, Len(Runners))
  BY RunnersRun
<1>2. calls \in Seq(FrameType) /\ etraps \in Seq(Nat) /\ gens \in GenType
  BY <1>1 DEF Running
<1>3. cstack \in Seq(EntryType) /\ nnative = Len(cstack) /\ nnative <= MaxNativeCalls /\ nnative \in Nat
  <2>1. CASE ~susp.on
    BY <2>1, RunningFacts DEF StackInv, Running
  <2>2. CASE susp.on
    BY <2>2, EmptySeq, ExecAssumption DEF StackInv
  <2>. QED  BY <2>1, <2>2
<1>4. nnative \in 0 .. MaxNativeCalls
  BY <1>3, ExecAssumption
<1>. QED  BY <1>2, <1>3, <1>4 DEF TypeOK, GenType, StackInv

LEMMA StackCallsMatch ==
  ASSUME StackInv PROVE CallsMatch
<1>1. calls \in Seq(FrameType) /\ Fits(calls, Runners)
  BY RunnersRun DEF Running
<1>2. Len(calls) \in Nat /\ DOMAIN calls = 1 .. Len(calls)
  BY <1>1, CountsSteps
<1>3. Owner(calls)[Len(calls)] = Len(Runners) /\ \A i \in 1 .. Len(calls) : FrameFits(calls, Runners, i)
  BY <1>1 DEF Fits
<1>4. calls # <<>> => IsStart(calls[1])
  <2>1. calls # <<>> => 1 \in 1 .. Len(calls)
    BY <1>1, EmptySeq
  <2>. QED  BY <1>3, <2>1 DEF FrameFits
<1>5. \A i \in Starts(calls) : calls[i].fn = "native" <=> Runners[Owner(calls)[i]].k = "native"
  BY <1>2, <1>3 DEF Starts, FrameFits
<1>. QED  BY <1>3, <1>4, <1>5, StackTypes DEF CallsMatch

LEMMA StackTrapsCounted ==
  ASSUME StackInv, ~ForeachInTry PROVE TrapsCounted
<1>1. calls \in Seq(FrameType) /\ Fits(calls, Runners)
  BY RunnersRun DEF Running
<1>2. DOMAIN calls = 1 .. Len(calls)
  BY <1>1, CountsSteps
<1>3. \A i \in 1 .. Len(calls) : FrameFits(calls, Runners, i)
  BY <1>1 DEF Fits
<1>. QED  BY <1>2, <1>3 DEF TrapsCounted, FrameFits, IsEnd

LEMMA StackTrapsBelong ==
  ASSUME StackInv PROVE TrapsBelong
<1>1. calls \in Seq(FrameType) /\ Belong(calls, etraps)
  BY RunnersRun DEF Running
<1>2. DOMAIN calls = 1 .. Len(calls)
  BY <1>1, CountsSteps
<1>. QED  BY <1>1, <1>2 DEF TrapsBelong, Belong, Holds, HasTraps

LEMMA StackGenerators ==
  ASSUME StackInv PROVE GeneratorsConsistent
<1>1. calls \in Seq(FrameType) /\ GenOK(calls, gens)
  BY RunnersRun DEF Running
<1>2. DOMAIN calls = 1 .. Len(calls)
  BY <1>1, CountsSteps
<1>. SUFFICES ASSUME NEW g \in Gens
              PROVE  LET frames == {i \in DOMAIN calls : calls[i].gen = g}
                     IN  /\ gens[g].st = "running" <=> frames # {}
                         /\ \A i, j \in frames : i = j
                         /\ gens[g].st = "suspended" => gens[g].traps = [i \in 1 .. gens[g].etraps |-> 0]
  BY DEF GeneratorsConsistent
<1>3. OneGen(calls, gens, g)
  BY <1>1 DEF GenOK
<1>. QED  BY <1>2, <1>3 DEF OneGen

\* _callsstack and the C stack fit in every state: each Execute and each CallNative
\* under way has its own first frame, in order, and _nnativecalls counts them and
\* never exceeds MAX_NATIVE_CALLS, for any number of generators and any depth.
THEOREM CallsMatchHolds ==
  ASSUME ~MixedResume, ~FlagsAnywhere, StableCalls PROVE Spec => []CallsMatch
<1>1. StackInv => CallsMatch
  BY StackCallsMatch
<1>. QED  BY <1>1, StackInvariant, PTL

\* The traps on _etraps are those of the frames on _callsstack and hold their bases,
\* even when foreach resumes generators that yielded in a try block: SQ_THROW always
\* goes on in the stack of the frame that catches.
THEOREM TrapsBelongHolds ==
  ASSUME ~MixedResume, ~FlagsAnywhere, StableCalls PROVE Spec => []TrapsBelong
<1>1. StackInv => TrapsBelong
  BY StackTrapsBelong
<1>. QED  BY <1>1, StackInvariant, PTL

\* A generator runs exactly when one frame is its frame, and SQGenerator::Yield
\* leaves in it all the traps its frame had open.
THEOREM GeneratorsConsistentHolds ==
  ASSUME ~MixedResume, ~FlagsAnywhere, StableCalls PROVE Spec => []GeneratorsConsistent
<1>1. StackInv => GeneratorsConsistent
  BY StackGenerators
<1>. QED  BY <1>1, StackInvariant, PTL

\* The variable traps of every Execute counts the try blocks open in its frames,
\* as long as foreach resumes no generator that yielded in a try block (sqvm.cpp:575
\* forgets to count those).
THEOREM TrapsCountedHolds ==
  ASSUME ~MixedResume, ~FlagsAnywhere, StableCalls, ~ForeachInTry PROVE Spec => []TrapsCounted
<1>1. StackInv => TrapsCounted
  BY StackTrapsCounted
<1>. QED  BY <1>1, StackInvariant, PTL

\* The assertions traps == 0 of _OP_RETURN and _OP_YIELD hold, under the same condition.
THEOREM RootReturnsTrapFreeHolds ==
  ASSUME ~MixedResume, ~FlagsAnywhere, StableCalls, ~ForeachInTry PROVE Spec => []RootReturnsTrapFree
<1>1. StackInv => RootReturnsTrapFree
  BY DEF StackInv, RootReturnsTrapFree
<1>. QED  BY <1>1, StackInvariant, PTL
=============================================================================
