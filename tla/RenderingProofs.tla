-------------------------- MODULE RenderingProofs ---------------------------
(***************************************************************************)
(* What the two loops that build lists compute, for every list: MergeEnv,  *)
(* which lays environment variables over each other, and the appends of    *)
(* buildArgs.  Both are recursive functions on the number of elements      *)
(* taken; that such a function exists, and what holds of its last value,   *)
(* is shown once for any loop.                                             *)
(***************************************************************************)
EXTENDS Rendering, WellFoundedInduction, TLAPS

-----------------------------------------------------------------------------
(* Loops. *)

\* Induction on a set of naturals.
LEMMA SetInduction ==
  ASSUME NEW T, 0 \in T, \A n \in Nat : n \in T => n + 1 \in T
  PROVE  \A n \in Nat : n \in T
  <1> DEFINE R == OpToRel(<, Nat)
             S == Nat \ T
  <1>1. IsWellFoundedOn(R, Nat)
    BY NatLessThanWellFounded
  <1>2. \A x, y \in Nat : <<y, x>> \in R <=> y < x
    BY DEF OpToRel
  <1> HIDE DEF R
  <1>3. S \in SUBSET Nat
    OBVIOUS
  <1>4. CASE S # {}
    <2> HIDE DEF S
    <2>1. PICK x \in S : \A y \in S : ~(<<y, x>> \in R)
      BY <1>1, <1>3, <1>4, WFMin
    <2>2. x \in Nat /\ x \notin T
      BY DEF S
    <2>3. x # 0
      BY <2>2
    <2>4. x - 1 \in Nat /\ x - 1 < x /\ (x - 1) + 1 = x
      BY <2>2, <2>3
    <2>5. x - 1 \in S
      BY <2>2, <2>4 DEF S
    <2> QED BY <1>2, <2>1, <2>2, <2>4, <2>5
  <1> QED BY <1>4

\* The values that a loop over N elements goes through.
IsLoop(f, N, start, step) ==
    f = [n \in 0..N |-> IF n = 0 THEN start ELSE step[n][f[n - 1]]]

\* What holds at the start and is kept by every step holds throughout.
LEMMA LoopInvariant ==
  ASSUME NEW N \in Nat, NEW S, NEW f, f[0] \in S[0],
         \A n \in 1..N : f[n - 1] \in S[n - 1] => f[n] \in S[n]
  PROVE  \A n \in 0..N : f[n] \in S[n]
  <1> DEFINE T == {n \in Nat : n <= N => f[n] \in S[n]}
  <1>1. 0 \in T
    OBVIOUS
  <1>2. ASSUME NEW n \in Nat, n \in T PROVE n + 1 \in T
    <2> SUFFICES ASSUME n + 1 <= N PROVE f[n + 1] \in S[n + 1]
      OBVIOUS
    <2>1. n + 1 \in 1..N /\ (n + 1) - 1 = n /\ n <= N
      OBVIOUS
    <2>2. f[n] \in S[n]
      BY <1>2, <2>1
    <2> QED BY <2>1, <2>2
  <1> HIDE DEF T
  <1>3. \A n \in Nat : n \in T
    BY <1>1, <1>2, SetInduction
  <1> QED BY <1>3 DEF T

\* There is such a function for any step.
LEMMA LoopExists ==
  ASSUME NEW N \in Nat, NEW start, NEW step
  PROVE  \E f : IsLoop(f, N, start, step)
  <1> DEFINE T == {n \in Nat : \E f : IsLoop(f, n, start, step)}
  <1>1. 0 \in T
    <2> DEFINE f == [n \in 0..0 |-> start]
    <2>1. f = [n \in 0..0 |-> IF n = 0 THEN start ELSE step[n][f[n - 1]]]
      OBVIOUS
    <2>2. IsLoop(f, 0, start, step)
      BY <2>1 DEF IsLoop
    <2> QED BY <2>2
  <1>2. ASSUME NEW n \in Nat, n \in T PROVE n + 1 \in T
    <2>1. PICK f : IsLoop(f, n, start, step)
      BY <1>2
    <2> DEFINE g == [m \in 0..(n + 1) |-> IF m = n + 1 THEN step[m][f[n]] ELSE f[m]]
    <2>2. ASSUME NEW m \in 0..(n + 1)
          PROVE  g[m] = IF m = 0 THEN start ELSE step[m][g[m - 1]]
      <3>1. CASE m = n + 1
        <4>1. g[n] = f[n] /\ m - 1 = n /\ m # 0
          BY <3>1
        <4> QED BY <3>1, <4>1
      <3>2. CASE m # n + 1 /\ m # 0
        <4>1. m \in 0..n /\ m - 1 \in 0..(n + 1) /\ m - 1 # n + 1
          BY <3>2
        <4>2. f[m] = step[m][f[m - 1]]
          BY <2>1, <3>2, <4>1 DEF IsLoop
        <4>3. g[m] = f[m] /\ g[m - 1] = f[m - 1]
          BY <3>2, <4>1
        <4> QED BY <3>2, <4>2, <4>3
      <3>3. CASE m = 0
        <4>1. f[0] = start /\ 0 # n + 1
          BY <2>1 DEF IsLoop
        <4> QED BY <3>3, <4>1
      <3> QED BY <3>1, <3>2, <3>3
    <2>3. DOMAIN g = 0..(n + 1) /\ g = [m \in 0..(n + 1) |-> g[m]]
      OBVIOUS
    <2> HIDE DEF g
    <2>4. IsLoop(g, n + 1, start, step)
      BY <2>2, <2>3 DEF IsLoop
    <2> QED BY <2>4
  <1> HIDE DEF T
  <1>3. \A n \in Nat : n \in T
    BY <1>1, <1>2, SetInduction
  <1> QED BY <1>3 DEF T

-----------------------------------------------------------------------------
(* MergeEnv. *)

\* r is the first n variables of the list laid over each other: each name of them
\* once, with the last value it has there.
Merged(r, list, n) ==
    /\ \A i, k \in DOMAIN r : r[i].name = r[k].name => i = k
    /\ \A j \in 1..n : \E i \in DOMAIN r : r[i].name = list[j].name
    /\ \A i \in DOMAIN r : \E j \in 1..n :
          /\ r[i] = list[j]
          /\ \A k \in 1..n : k > j => list[k].name # list[j].name

LEMMA PutMerges ==
  ASSUME NEW E, NEW list \in Seq(E), NEW n \in 1..Len(list), NEW r \in Seq(E), Merged(r, list, n - 1)
  PROVE  Put(r, list[n]) \in Seq(E) /\ Merged(Put(r, list[n]), list, n)
  <1> DEFINE v  == list[n]
             q  == Put(r, v)
             at == {i \in DOMAIN r : r[i].name = v.name}
  <1>1. v \in E /\ n \in Nat /\ n - 1 \in Nat /\ DOMAIN r = 1..Len(r) /\ Len(r) \in Nat
    OBVIOUS
  <1>2. /\ \A i, k \in DOMAIN r : r[i].name = r[k].name => i = k
        /\ \A j \in 1..(n - 1) : \E i \in DOMAIN r : r[i].name = list[j].name
        /\ \A i \in DOMAIN r : \E j \in 1..(n - 1) :
              /\ r[i] = list[j]
              /\ \A k \in 1..(n - 1) : k > j => list[k].name # list[j].name
    BY DEF Merged
  <1>3. CASE at = {}
    <2>0. \A i \in DOMAIN r : r[i].name # v.name
      BY <1>3
    <2>1. q = Append(r, v)
      BY <1>3 DEF Put
    <2> HIDE DEF v, q
    <2>2. /\ q \in Seq(E) /\ DOMAIN q = 1..(Len(r) + 1) /\ q[Len(r) + 1] = v
          /\ \A i \in 1..Len(r) : q[i] = r[i]
      BY <1>1, <2>1
    <2>3. \A i \in 1..Len(r) : q[i].name # v.name
      BY <1>1, <2>2, <2>0
    <2>4. ASSUME NEW i \in DOMAIN q, NEW k \in DOMAIN q, q[i].name = q[k].name PROVE i = k
      <3>1. CASE i \in 1..Len(r) /\ k \in 1..Len(r)
        BY <1>1, <1>2, <2>2, <2>4, <3>1
      <3>2. CASE i = Len(r) + 1 /\ k = Len(r) + 1
        BY <3>2
      <3>3. CASE i = Len(r) + 1 /\ k \in 1..Len(r)
        BY <2>2, <2>3, <2>4, <3>3
      <3>4. CASE i \in 1..Len(r) /\ k = Len(r) + 1
        BY <2>2, <2>3, <2>4, <3>4
      <3>5. \A m \in DOMAIN q : m \in 1..Len(r) \/ m = Len(r) + 1
        BY <1>1, <2>2
      <3> QED BY <3>1, <3>2, <3>3, <3>4, <3>5
    <2>5. ASSUME NEW j \in 1..n PROVE \E i \in DOMAIN q : q[i].name = list[j].name
      <3>1. CASE j = n
        BY <1>1, <2>2, <3>1 DEF v
      <3>2. CASE j # n
        <4>1. PICK i \in DOMAIN r : r[i].name = list[j].name
          BY <1>1, <1>2, <3>2
        <4> QED BY <1>1, <2>2, <4>1
      <3> QED BY <3>1, <3>2
    <2>6. ASSUME NEW i \in DOMAIN q
          PROVE  \E j \in 1..n : q[i] = list[j] /\ \A k \in 1..n : k > j => list[k].name # list[j].name
      <3>1. CASE i = Len(r) + 1
        BY <1>1, <2>2, <3>1 DEF v
      <3>2. CASE i # Len(r) + 1
        <4>1. i \in 1..Len(r) /\ q[i] = r[i]
          BY <1>1, <2>2, <3>2
        <4>2. PICK j \in 1..(n - 1) : r[i] = list[j] /\ \A k \in 1..(n - 1) : k > j => list[k].name # list[j].name
          BY <1>1, <1>2, <4>1
        <4>3. list[n].name # list[j].name
          BY <2>3, <4>1, <4>2 DEF v
        <4>4. \A k \in 1..n : k > j => list[k].name # list[j].name
          BY <1>1, <4>2, <4>3
        <4>5. j \in 1..n
          BY <1>1
        <4> QED BY <4>1, <4>2, <4>4, <4>5
      <3> QED BY <3>1, <3>2
    <2> QED BY <2>2, <2>4, <2>5, <2>6 DEF Merged, q, v
  <1>4. CASE at # {}
    <2>1. PICK p \in DOMAIN r : r[p].name = v.name
      BY <1>4
    <2>2. q = [i \in DOMAIN r |-> IF i \in at THEN v ELSE r[i]]
      BY <1>4 DEF Put
    <2>3. \A i \in DOMAIN r : i \in at <=> i = p
      BY <1>2, <2>1
    <2> HIDE DEF v, q, at
    <2>4. /\ DOMAIN q = DOMAIN r /\ q[p] = v
          /\ \A i \in DOMAIN r : i # p => q[i] = r[i]
      BY <2>1, <2>2, <2>3
    <2>5. q \in Seq(E)
      BY <1>1, <2>2
    <2>6. \A i \in DOMAIN r : i # p => q[i].name # v.name
      BY <1>2, <2>1, <2>4
    <2>7. \A i, k \in DOMAIN q : q[i].name = q[k].name => i = k
      BY <1>2, <2>1, <2>4, <2>6
    <2>8. \A i \in DOMAIN r : q[i].name = r[i].name
      BY <2>1, <2>4
    <2>9. ASSUME NEW j \in 1..n PROVE \E i \in DOMAIN q : q[i].name = list[j].name
      <3>1. CASE j = n
        BY <2>1, <2>4, <3>1 DEF v
      <3>2. CASE j # n
        <4>1. PICK i \in DOMAIN r : r[i].name = list[j].name
          BY <1>1, <1>2, <3>2
        <4> QED BY <2>4, <2>8, <4>1
      <3> QED BY <3>1, <3>2
    <2>10. ASSUME NEW i \in DOMAIN q
           PROVE  \E j \in 1..n : q[i] = list[j] /\ \A k \in 1..n : k > j => list[k].name # list[j].name
      <3>1. CASE i = p
        BY <1>1, <2>4, <3>1 DEF v
      <3>2. CASE i # p
        <4>1. i \in DOMAIN r /\ q[i] = r[i]
          BY <2>4, <3>2
        <4>2. PICK j \in 1..(n - 1) : r[i] = list[j] /\ \A k \in 1..(n - 1) : k > j => list[k].name # list[j].name
          BY <1>2, <4>1
        <4>3. list[n].name # list[j].name
          BY <2>6, <3>2, <4>1, <4>2 DEF v
        <4>4. \A k \in 1..n : k > j => list[k].name # list[j].name
          BY <1>1, <4>2, <4>3
        <4>5. j \in 1..n
          BY <1>1
        <4> QED BY <4>1, <4>2, <4>4, <4>5
      <3> QED BY <3>1, <3>2
    <2> QED BY <2>5, <2>7, <2>9, <2>10 DEF Merged, q, v
  <1> QED BY <1>3, <1>4

\* MergeEnv gives every name of the list once, with the last value it has there.
LEMMA MergeEnvMerges ==
  ASSUME NEW E, NEW list \in Seq(E)
  PROVE  MergeEnv(list) \in Seq(E) /\ Merged(MergeEnv(list), list, Len(list))
  <1> DEFINE N == Len(list)
             Taken(f) == f = [n \in 0..N |-> IF n = 0 THEN <<>> ELSE Put(f[n - 1], list[n])]
             g == CHOOSE f : Taken(f)
             S == [n \in 0..N |-> {r \in Seq(E) : Merged(r, list, n)}]
             step == [n \in 1..N |-> [r \in Seq(E) |-> Put(r, list[n])]]
  <1>1. MergeEnv(list) = g[N]
    BY DEF MergeEnv
  <1>2. N \in Nat
    OBVIOUS
  <1>3. \A n \in 0..N : \A r : r \in S[n] <=> r \in Seq(E) /\ Merged(r, list, n)
    OBVIOUS
  <1>4. ASSUME NEW n \in 1..N, NEW r \in S[n - 1]
        PROVE  step[n][r] = Put(r, list[n]) /\ step[n][r] \in S[n]
    <2>1. n \in 1..Len(list) /\ n - 1 \in 0..N /\ n \in 0..N
      BY <1>2
    <2>2. r \in Seq(E) /\ Merged(r, list, n - 1)
      BY <1>3, <1>4, <2>1
    <2>3. step[n][r] = Put(r, list[n])
      BY <2>2
    <2> HIDE DEF S, step
    <2> QED BY <1>3, <2>1, <2>2, <2>3, PutMerges
  <1>5. <<>> \in S[0]
    BY <1>2 DEF Merged
  <1>6. \E f : Taken(f)
    <2>1. PICK f : IsLoop(f, N, <<>>, step)
      BY <1>2, LoopExists
    <2> HIDE DEF S, step, N
    <2>2. f = [n \in 0..N |-> IF n = 0 THEN <<>> ELSE step[n][f[n - 1]]]
      BY <2>1 DEF IsLoop
    <2>3. f[0] = <<>> /\ \A n \in 1..N : f[n] = step[n][f[n - 1]]
      BY <1>2, <2>2
    <2>4. \A n \in 0..N : f[n] \in S[n]
      <3>1. f[0] \in S[0] /\ \A n \in 1..N : f[n - 1] \in S[n - 1] => f[n] \in S[n]
        BY <1>4, <1>5, <2>3
      <3> QED BY <1>2, <3>1, LoopInvariant
    <2>5. ASSUME NEW n \in 0..N PROVE f[n] = IF n = 0 THEN <<>> ELSE Put(f[n - 1], list[n])
      <3>1. CASE n = 0
        BY <2>3, <3>1
      <3>2. CASE n # 0
        <4>1. n \in 1..N /\ n - 1 \in 0..N
          BY <1>2, <3>2
        <4> QED BY <1>4, <2>3, <2>4, <3>2, <4>1
      <3> QED BY <3>1, <3>2
    <2>6. DOMAIN f = 0..N /\ f = [n \in 0..N |-> f[n]]
      BY <2>2
    <2>7. Taken(f)
      BY <2>5, <2>6
    <2> QED BY <2>7
  <1> HIDE DEF S, step, N
  <1>7. g = [n \in 0..N |-> IF n = 0 THEN <<>> ELSE Put(g[n - 1], list[n])]
    BY <1>6
  <1> HIDE DEF g
  <1>8. g[0] = <<>> /\ \A n \in 1..N : n - 1 \in 0..N /\ g[n] = Put(g[n - 1], list[n])
    BY <1>2, <1>7
  <1>9. g[0] \in S[0] /\ \A n \in 1..N : g[n - 1] \in S[n - 1] => g[n] \in S[n]
    BY <1>4, <1>5, <1>8
  <1>10. \A n \in 0..N : g[n] \in S[n]
    BY <1>2, <1>9, LoopInvariant
  <1>11. N \in 0..N
    BY <1>2
  <1> QED BY <1>1, <1>3, <1>10, <1>11 DEF N

\* A list has a variable of a name; a list has a variable.
Named(list, name) == \E k \in DOMAIN list : list[k].name = name
Holds(list, v)    == \E k \in DOMAIN list : list[k] = v

\* A list of variables without duplicates.
Once(list) == \A j, k \in DOMAIN list : list[j].name = list[k].name => j = k

\* One list merged: no name twice, no name lost, no variable invented.
LEMMA MergeOne ==
  ASSUME NEW E, NEW list \in Seq(E)
  PROVE  /\ MergeEnv(list) \in Seq(E) /\ Once(MergeEnv(list))
         /\ \A v : Holds(MergeEnv(list), v) => Holds(list, v)
         /\ \A name : Named(list, name) => Named(MergeEnv(list), name)
  <1>1. PICK m : m = MergeEnv(list)
    OBVIOUS
  <1>2. m \in Seq(E) /\ Merged(m, list, Len(list)) /\ DOMAIN list = 1..Len(list)
    BY <1>1, MergeEnvMerges
  <1>3. Once(m)
    BY <1>2 DEF Merged, Once
  <1>4. ASSUME NEW v, Holds(m, v) PROVE Holds(list, v)
    <2>1. PICK i \in DOMAIN m : m[i] = v
      BY <1>4 DEF Holds
    <2>2. PICK j \in 1..Len(list) : m[i] = list[j]
      BY <1>2 DEF Merged
    <2> QED BY <1>2, <2>1, <2>2 DEF Holds
  <1>5. ASSUME NEW name, Named(list, name) PROVE Named(m, name)
    BY <1>2, <1>5 DEF Merged, Named
  <1> QED BY <1>1, <1>2, <1>3, <1>4, <1>5

\* Two lists merged: the second wins.
LEMMA MergeTwo ==
  ASSUME NEW E, NEW a \in Seq(E), NEW b \in Seq(E)
  PROVE  /\ MergeEnv(a \o b) \in Seq(E) /\ Once(MergeEnv(a \o b))
         /\ \A v : Holds(MergeEnv(a \o b), v) =>
               IF Named(b, v.name) THEN Holds(b, v) ELSE Holds(a, v)
         /\ \A name : Named(a, name) \/ Named(b, name) => Named(MergeEnv(a \o b), name)
  <1>1. PICK list : list = a \o b
    OBVIOUS
  <1>2. PICK m : m = MergeEnv(list)
    OBVIOUS
  <1>3. /\ list \in Seq(E) /\ Len(list) = Len(a) + Len(b) /\ Len(a) \in Nat /\ Len(b) \in Nat
        /\ DOMAIN list = 1..Len(list) /\ DOMAIN a = 1..Len(a) /\ DOMAIN b = 1..Len(b)
        /\ \A i \in 1..Len(a) : list[i] = a[i]
        /\ \A i \in 1..Len(b) : list[Len(a) + i] = b[i]
    BY <1>1
  <1>4. m \in Seq(E) /\ Merged(m, list, Len(list))
    BY <1>2, <1>3, MergeEnvMerges
  <1>5. ASSUME NEW v, Holds(m, v) PROVE IF Named(b, v.name) THEN Holds(b, v) ELSE Holds(a, v)
    <2>1. PICK j \in 1..Len(list) : v = list[j] /\ \A k \in 1..Len(list) : k > j => list[k].name # v.name
      BY <1>4, <1>5 DEF Merged, Holds
    <2>2. CASE j <= Len(a)
      <3>1. j \in 1..Len(a) /\ Holds(a, v)
        BY <1>3, <2>1, <2>2 DEF Holds
      <3>2. ASSUME NEW i \in DOMAIN b PROVE b[i].name # v.name
        <4>1. i \in 1..Len(b) /\ Len(a) + i \in 1..Len(list) /\ Len(a) + i > j
          BY <1>3, <3>1
        <4> QED BY <1>3, <2>1, <4>1
      <3> QED BY <3>1, <3>2 DEF Named
    <2>3. CASE j > Len(a)
      <3>1. PICK i \in 1..Len(b) : j = Len(a) + i
        <4>1. j - Len(a) \in 1..Len(b) /\ j = Len(a) + (j - Len(a))
          BY <1>3, <2>3
        <4> QED BY <4>1
      <3>2. Holds(b, v) /\ Named(b, v.name)
        BY <1>3, <2>1, <3>1 DEF Holds, Named
      <3> QED BY <3>2
    <2> QED BY <1>3, <2>2, <2>3
  <1>6. ASSUME NEW name, Named(a, name) \/ Named(b, name) PROVE Named(m, name)
    <2>1. PICK j \in 1..Len(list) : list[j].name = name
      <3>1. CASE Named(a, name)
        <4>1. PICK i \in 1..Len(a) : a[i].name = name
          BY <1>3, <3>1 DEF Named
        <4>2. i \in 1..Len(list)
          BY <1>3
        <4> QED BY <1>3, <4>1, <4>2
      <3>2. CASE Named(b, name)
        <4>1. PICK i \in 1..Len(b) : b[i].name = name
          BY <1>3, <3>2 DEF Named
        <4>2. Len(a) + i \in 1..Len(list)
          BY <1>3
        <4> QED BY <1>3, <4>1, <4>2
      <3> QED BY <1>6, <3>1, <3>2
    <2> QED BY <1>4, <2>1 DEF Merged, Named
  <1>7. Once(m)
    BY <1>4 DEF Merged, Once
  <1> QED BY <1>1, <1>2, <1>4, <1>5, <1>6, <1>7

-----------------------------------------------------------------------------
(* buildArgs. *)

\* r holds the arguments of the first n rows, of those that are emitted.
Appended(r, e, rows, n) ==
    \A x : Holds(r, x) <=> \E j \in 1..n : Emitted(e, rows[j]) /\ x = Arg(e, rows[j])

\* What a row does to the arguments so far.
ArgStep(r, e, row) == IF Emitted(e, row) THEN Append(r, Arg(e, row)) ELSE r

LEMMA StepAppends ==
  ASSUME NEW e, NEW E, NEW rows, NEW N \in Nat, NEW n \in 1..N, NEW r \in Seq(E),
         Arg(e, rows[n]) \in E, Appended(r, e, rows, n - 1)
  PROVE  ArgStep(r, e, rows[n]) \in Seq(E) /\ Appended(ArgStep(r, e, rows[n]), e, rows, n)
  <1> DEFINE q == ArgStep(r, e, rows[n])
             v == Arg(e, rows[n])
             Given(x, j) == Emitted(e, rows[j]) /\ x = Arg(e, rows[j])
  <1>1. \A x : Holds(r, x) <=> \E j \in 1..(n - 1) : Given(x, j)
    BY DEF Appended
  <1>2. \A x : (\E j \in 1..n : Given(x, j)) <=> (\E j \in 1..(n - 1) : Given(x, j)) \/ Given(x, n)
    <2> HIDE DEF Given
    <2>1. \A j \in 1..n : j \in 1..(n - 1) \/ j = n
      OBVIOUS
    <2>2. \A j \in 1..(n - 1) : j \in 1..n
      OBVIOUS
    <2> QED BY <2>1, <2>2
  <1>3. CASE Emitted(e, rows[n])
    <2>1. q = Append(r, v)
      BY <1>3 DEF ArgStep
    <2>2. \A x : Given(x, n) <=> x = v
      BY <1>3
    <2> HIDE DEF q, v
    <2>3. /\ q \in Seq(E) /\ DOMAIN q = 1..(Len(r) + 1) /\ q[Len(r) + 1] = v /\ Len(r) \in Nat
          /\ DOMAIN r = 1..Len(r) /\ \A i \in 1..Len(r) : q[i] = r[i]
      BY <2>1 DEF v
    <2>4. \A x : Holds(q, x) <=> Holds(r, x) \/ x = v
      <3>1. \A i \in DOMAIN q : i \in 1..Len(r) \/ i = Len(r) + 1
        BY <2>3
      <3>2. \A i \in DOMAIN r : i \in DOMAIN q /\ q[i] = r[i]
        BY <2>3
      <3>3. Len(r) + 1 \in DOMAIN q
        BY <2>3
      <3> QED BY <2>3, <3>1, <3>2, <3>3 DEF Holds
    <2> HIDE DEF Given
    <2>5. \A x : Holds(q, x) <=> \E j \in 1..n : Given(x, j)
      BY <1>1, <1>2, <2>2, <2>4
    <2> QED BY <2>3, <2>5 DEF q, Appended, Given
  <1>4. CASE ~Emitted(e, rows[n])
    <2>1. q = r
      BY <1>4 DEF ArgStep
    <2>2. \A x : ~Given(x, n)
      BY <1>4
    <2> HIDE DEF Given, q
    <2>3. \A x : Holds(q, x) <=> \E j \in 1..n : Given(x, j)
      BY <1>1, <1>2, <2>1, <2>2
    <2> QED BY <2>1, <2>3 DEF q, Appended, Given
  <1> QED BY <1>3, <1>4

\* The arguments of a table are those of its emitted rows, and no others.
LEMMA ArgsAppend ==
  ASSUME NEW e, NEW E, NEW rows, NEW N \in Nat, Len(rows) = N, \A n \in 1..N : Arg(e, rows[n]) \in E
  PROVE  Args(e, rows) \in Seq(E) /\ Appended(Args(e, rows), e, rows, N)
  <1> DEFINE Taken(f) == f = [n \in 0..N |-> IF n = 0 THEN <<>> ELSE
                                IF Emitted(e, rows[n]) THEN Append(f[n - 1], Arg(e, rows[n])) ELSE f[n - 1]]
             g == CHOOSE f : Taken(f)
             S == [n \in 0..N |-> {r \in Seq(E) : Appended(r, e, rows, n)}]
             step == [n \in 1..N |-> [r \in Seq(E) |-> ArgStep(r, e, rows[n])]]
  <1>1. Args(e, rows) = g[N]
    BY DEF Args
  <1>2. \A n \in 0..N : \A r : r \in S[n] <=> r \in Seq(E) /\ Appended(r, e, rows, n)
    OBVIOUS
  <1>3. ASSUME NEW n \in 1..N, NEW r \in S[n - 1]
        PROVE  step[n][r] = ArgStep(r, e, rows[n]) /\ step[n][r] \in S[n]
    <2>1. n - 1 \in 0..N /\ n \in 0..N
      OBVIOUS
    <2>2. r \in Seq(E) /\ Appended(r, e, rows, n - 1)
      BY <1>2, <1>3, <2>1
    <2>3. step[n][r] = ArgStep(r, e, rows[n])
      BY <2>2
    <2> HIDE DEF S, step
    <2> QED BY <1>2, <2>1, <2>2, <2>3, StepAppends
  <1>4. <<>> \in S[0]
    <2>1. Appended(<<>>, e, rows, 0)
      BY DEF Appended, Holds
    <2> QED BY <2>1
  <1>5. \E f : Taken(f)
    <2>1. PICK f : IsLoop(f, N, <<>>, step)
      BY LoopExists
    <2> HIDE DEF S, step
    <2>2. f = [n \in 0..N |-> IF n = 0 THEN <<>> ELSE step[n][f[n - 1]]]
      BY <2>1 DEF IsLoop
    <2>3. f[0] = <<>> /\ \A n \in 1..N : f[n] = step[n][f[n - 1]]
      BY <2>2
    <2>4. \A n \in 0..N : f[n] \in S[n]
      <3>1. f[0] \in S[0] /\ \A n \in 1..N : f[n - 1] \in S[n - 1] => f[n] \in S[n]
        BY <1>3, <1>4, <2>3
      <3> QED BY <3>1, LoopInvariant
    <2>5. ASSUME NEW n \in 0..N PROVE f[n] = IF n = 0 THEN <<>> ELSE ArgStep(f[n - 1], e, rows[n])
      <3>1. CASE n = 0
        BY <2>3, <3>1
      <3>2. CASE n # 0
        <4>1. n \in 1..N /\ n - 1 \in 0..N
          BY <3>2
        <4> QED BY <1>3, <2>3, <2>4, <3>2, <4>1
      <3> QED BY <3>1, <3>2
    <2>6. DOMAIN f = 0..N /\ f = [n \in 0..N |-> f[n]]
      BY <2>2
    <2>7. Taken(f)
      BY <2>5, <2>6 DEF ArgStep
    <2> QED BY <2>7
  <1> HIDE DEF S, step
  <1>6. g = [n \in 0..N |-> IF n = 0 THEN <<>> ELSE
                              IF Emitted(e, rows[n]) THEN Append(g[n - 1], Arg(e, rows[n])) ELSE g[n - 1]]
    BY <1>5
  <1> HIDE DEF g
  <1>7. g[0] = <<>> /\ \A n \in 1..N : n - 1 \in 0..N /\ g[n] = ArgStep(g[n - 1], e, rows[n])
    <2>1. g[0] = <<>>
      BY <1>6
    <2>2. ASSUME NEW n \in 1..N PROVE n - 1 \in 0..N /\ g[n] = ArgStep(g[n - 1], e, rows[n])
      <3>1. n \in 0..N /\ n # 0 /\ n - 1 \in 0..N
        OBVIOUS
      <3>2. g[n] = IF Emitted(e, rows[n]) THEN Append(g[n - 1], Arg(e, rows[n])) ELSE g[n - 1]
        BY <1>6, <3>1
      <3> QED BY <3>1, <3>2 DEF ArgStep
    <2> QED BY <2>1, <2>2
  <1>8. g[0] \in S[0] /\ \A n \in 1..N : g[n - 1] \in S[n - 1] => g[n] \in S[n]
    BY <1>3, <1>4, <1>7
  <1>9. \A n \in 0..N : g[n] \in S[n]
    BY <1>8, LoopInvariant
  <1>10. N \in 0..N
    OBVIOUS
  <1> QED BY <1>1, <1>2, <1>9, <1>10

\* Two lists one after the other hold what each holds.
LEMMA HoldsConcat ==
  ASSUME NEW E, NEW a \in Seq(E), NEW b \in Seq(E)
  PROVE  \A x : Holds(a \o b, x) <=> Holds(a, x) \/ Holds(b, x)
  <1>1. PICK list : list = a \o b
    OBVIOUS
  <1>2. /\ Len(a) \in Nat /\ Len(b) \in Nat /\ DOMAIN list = 1..(Len(a) + Len(b))
        /\ DOMAIN a = 1..Len(a) /\ DOMAIN b = 1..Len(b)
        /\ \A i \in 1..Len(a) : list[i] = a[i]
        /\ \A i \in 1..Len(b) : list[Len(a) + i] = b[i]
    BY <1>1
  <1>3. \A i \in DOMAIN a : i \in DOMAIN list /\ list[i] = a[i]
    BY <1>2
  <1>4. \A i \in DOMAIN b : Len(a) + i \in DOMAIN list /\ list[Len(a) + i] = b[i]
    BY <1>2
  <1>5. ASSUME NEW k \in DOMAIN list
        PROVE  k \in DOMAIN a \/ \E i \in DOMAIN b : k = Len(a) + i
    <2>1. CASE k <= Len(a)
      BY <1>2, <2>1
    <2>2. CASE k > Len(a)
      <3>1. k - Len(a) \in DOMAIN b /\ k = Len(a) + (k - Len(a))
        BY <1>2, <2>2
      <3> QED BY <3>1
    <2> QED BY <1>2, <2>1, <2>2
  <1>6. ASSUME NEW x, Holds(list, x) PROVE Holds(a, x) \/ Holds(b, x)
    <2>1. PICK k \in DOMAIN list : list[k] = x
      BY <1>6 DEF Holds
    <2> QED BY <1>3, <1>4, <1>5, <2>1 DEF Holds
  <1>7. ASSUME NEW x, Holds(a, x) \/ Holds(b, x) PROVE Holds(list, x)
    <2>1. CASE Holds(a, x)
      BY <1>3, <2>1 DEF Holds
    <2>2. CASE Holds(b, x)
      BY <1>4, <2>2 DEF Holds
    <2> QED BY <1>7, <2>1, <2>2
  <1> QED BY <1>1, <1>6, <1>7

\* The flags of the two tables.
LEMMA BuildArgsFlags ==
  /\ BuildArgsRows[1].flag = "--model" /\ BuildArgsRows[2].flag = "--dtype"
  /\ BuildArgsRows[3].flag = "--quantization" /\ BuildArgsRows[4].flag = "--max-model-len"
  /\ BuildArgsRows[5].flag = "--gpu-memory-utilization" /\ BuildArgsRows[6].flag = "--tensor-parallel-size"
  /\ BuildArgsRows[7].flag = "--enable-auto-tool-choice" /\ BuildArgsRows[8].flag = "--tool-call-parser"
  /\ BuildArgsRows[9].flag = "--reasoning-parser" /\ BuildArgsRows[10].flag = "--chat-template"
  /\ BuildArgsRows[11].flag = "--kv-cache-dtype" /\ BuildArgsRows[12].flag = "--mamba-cache-mode"
  /\ BuildArgsRows[13].flag = "--mamba-backend" /\ BuildArgsRows[14].flag = "prefix-caching"
  /\ BuildArgsRows[15].flag = "--served-model-name" /\ BuildArgsRows[16].flag = "--cpu-offload-gb"
  /\ BuildArgsRows[17].flag = "--max-num-batched-tokens" /\ BuildArgsRows[18].flag = "--enable-chunked-prefill"
  /\ BuildArgsRows[19].flag = "--kv-transfer-config" /\ BuildArgsRows[20].flag = "--speculative-config"
  /\ BuildArgsRows[21].flag = "--limit-mm-per-prompt" /\ BuildArgsRows[22].flag = "--max-num-seqs"
  /\ BuildArgsRows[23].flag = "--kv-cache-dtype-skip-layers" /\ BuildArgsRows[24].flag = "--enforce-eager"
  /\ BuildArgsRows[25].flag = "--compilation-config" /\ BuildArgsRows[26].flag = "--enable-lora"
  /\ BuildArgsRows[27].flag = "--lora-modules" /\ BuildArgsRows[28].flag = "--max-lora-rank"
  BY DEF BuildArgsRows, Row

LEMMA LongContextFlags ==
  /\ LongContextFlagRows[1].flag = "--revision" /\ LongContextFlagRows[2].flag = "--code-revision"
  /\ LongContextFlagRows[3].flag = "--tokenizer-revision" /\ LongContextFlagRows[4].flag = "--trust-remote-code"
  /\ LongContextFlagRows[5].flag = "--disable-custom-all-reduce" /\ LongContextFlagRows[6].flag = "flashinfer-autotune"
  /\ LongContextFlagRows[7].flag = "--engram-config"
  BY DEF LongContextFlagRows, Row

LEMMA Places ==
  /\ \A k \in 1..28 : k \in {1, 2, 3, 4, 5, 6, 7, 8, 9, 10, 11, 12, 13, 14,
                            15, 16, 17, 18, 19, 20, 21, 22, 23, 24, 25, 26, 27, 28}
  /\ \A k \in 1..7 : k \in {1, 2, 3, 4, 5, 6, 7}
  /\ Len(BuildArgsRows) = 28 /\ Len(LongContextFlagRows) = 7
  BY DEF BuildArgsRows, LongContextFlagRows

\* No flag is given by two rows.
LEMMA FlagsDiffer ==
  /\ \A i, j \in 1..28 : BuildArgsRows[i].flag = BuildArgsRows[j].flag => i = j
  /\ \A i, j \in 1..7 : LongContextFlagRows[i].flag = LongContextFlagRows[j].flag => i = j
  /\ \A i \in 1..28, j \in 1..7 : BuildArgsRows[i].flag # LongContextFlagRows[j].flag
  <1>1. \A i, j \in 1..28 : BuildArgsRows[i].flag = BuildArgsRows[j].flag => i = j
    BY BuildArgsFlags, Places, SMTT(60)
  <1>2. \A i, j \in 1..7 : LongContextFlagRows[i].flag = LongContextFlagRows[j].flag => i = j
    BY LongContextFlags, Places
  <1>3. \A i \in 1..28, j \in 1..7 : BuildArgsRows[i].flag # LongContextFlagRows[j].flag
    BY BuildArgsFlags, LongContextFlags, Places, SMTT(60)
  <1> QED BY <1>1, <1>2, <1>3

\* The arguments of a configuration are those of the emitted rows of both tables.
LEMMA BuildArgsHold ==
  ASSUME NEW e
  PROVE  \A x : Holds(buildArgs(e), x) <=>
            \/ \E k \in 1..28 : Emitted(e, BuildArgsRows[k]) /\ x = Arg(e, BuildArgsRows[k])
            \/ \E k \in 1..7 : Emitted(e, LongContextFlagRows[k]) /\ x = Arg(e, LongContextFlagRows[k])
  <1> DEFINE E == {Arg(e, BuildArgsRows[k]) : k \in 1..28} \cup {Arg(e, LongContextFlagRows[k]) : k \in 1..7}
  <1>1. /\ \A k \in 1..28 : Arg(e, BuildArgsRows[k]) \in E
        /\ \A k \in 1..7 : Arg(e, LongContextFlagRows[k]) \in E
    OBVIOUS
  <1> HIDE DEF E
  <1>2. PICK a, b : a = Args(e, BuildArgsRows) /\ b = Args(e, LongContextFlagRows)
    OBVIOUS
  <1>3. a \in Seq(E) /\ Appended(a, e, BuildArgsRows, 28)
    BY <1>1, <1>2, Places, ArgsAppend
  <1>4. b \in Seq(E) /\ Appended(b, e, LongContextFlagRows, 7)
    BY <1>1, <1>2, Places, ArgsAppend
  <1>5. buildArgs(e) = a \o b
    BY <1>2 DEF buildArgs, buildLongContextFlagArgs
  <1>6. \A x : Holds(a \o b, x) <=> Holds(a, x) \/ Holds(b, x)
    BY <1>3, <1>4, HoldsConcat
  <1> QED BY <1>3, <1>4, <1>5, <1>6 DEF Appended

\* Two configurations show the same of a row.
Agree(e, d, row) ==
    /\ Emitted(e, row) <=> Emitted(d, row)
    /\ Emitted(e, row) => Arg(e, row) = Arg(d, row)

\* The command line tells apart what a row shows.
LEMMA SameArgs ==
  ASSUME NEW e, NEW d, buildArgs(e) = buildArgs(d)
  PROVE  /\ \A k \in 1..28 : Agree(e, d, BuildArgsRows[k])
         /\ \A k \in 1..7 : Agree(e, d, LongContextFlagRows[k])
  <1>1. ASSUME NEW b, NEW c, buildArgs(b) = buildArgs(c), NEW k \in 1..28, Emitted(b, BuildArgsRows[k])
        PROVE  Emitted(c, BuildArgsRows[k]) /\ Arg(b, BuildArgsRows[k]) = Arg(c, BuildArgsRows[k])
    <2>1. PICK x : x = Arg(b, BuildArgsRows[k])
      OBVIOUS
    <2>2. Holds(buildArgs(c), x)
      BY <1>1, <2>1, BuildArgsHold
    <2>3. x[1] = BuildArgsRows[k].flag
      BY <2>1 DEF Arg
    <2>4. CASE \E j \in 1..28 : Emitted(c, BuildArgsRows[j]) /\ x = Arg(c, BuildArgsRows[j])
      <3>1. PICK j \in 1..28 : Emitted(c, BuildArgsRows[j]) /\ x = Arg(c, BuildArgsRows[j])
        BY <2>4
      <3>2. x[1] = BuildArgsRows[j].flag
        BY <3>1 DEF Arg
      <3>3. j = k
        BY <2>3, <3>2, FlagsDiffer
      <3> QED BY <2>1, <3>1, <3>3
    <2>5. CASE \E j \in 1..7 : Emitted(c, LongContextFlagRows[j]) /\ x = Arg(c, LongContextFlagRows[j])
      <3>1. PICK j \in 1..7 : x = Arg(c, LongContextFlagRows[j])
        BY <2>5
      <3>2. x[1] = LongContextFlagRows[j].flag
        BY <3>1 DEF Arg
      <3> QED BY <2>3, <3>2, FlagsDiffer
    <2> QED BY <2>2, <2>4, <2>5, BuildArgsHold
  <1>2. ASSUME NEW b, NEW c, buildArgs(b) = buildArgs(c), NEW k \in 1..7, Emitted(b, LongContextFlagRows[k])
        PROVE  Emitted(c, LongContextFlagRows[k]) /\ Arg(b, LongContextFlagRows[k]) = Arg(c, LongContextFlagRows[k])
    <2>1. PICK x : x = Arg(b, LongContextFlagRows[k])
      OBVIOUS
    <2>2. Holds(buildArgs(c), x)
      BY <1>2, <2>1, BuildArgsHold
    <2>3. x[1] = LongContextFlagRows[k].flag
      BY <2>1 DEF Arg
    <2>4. CASE \E j \in 1..7 : Emitted(c, LongContextFlagRows[j]) /\ x = Arg(c, LongContextFlagRows[j])
      <3>1. PICK j \in 1..7 : Emitted(c, LongContextFlagRows[j]) /\ x = Arg(c, LongContextFlagRows[j])
        BY <2>4
      <3>2. x[1] = LongContextFlagRows[j].flag
        BY <3>1 DEF Arg
      <3>3. j = k
        BY <2>3, <3>2, FlagsDiffer
      <3> QED BY <2>1, <3>1, <3>3
    <2>5. CASE \E j \in 1..28 : Emitted(c, BuildArgsRows[j]) /\ x = Arg(c, BuildArgsRows[j])
      <3>1. PICK j \in 1..28 : x = Arg(c, BuildArgsRows[j])
        BY <2>5
      <3>2. x[1] = BuildArgsRows[j].flag
        BY <3>1 DEF Arg
      <3> QED BY <2>3, <3>2, FlagsDiffer
    <2> QED BY <2>2, <2>4, <2>5, BuildArgsHold
  <1> QED BY <1>1, <1>2 DEF Agree

LEMMA AgreeRows ==
  ASSUME NEW e, NEW d, buildArgs(e) = buildArgs(d)
  PROVE
    /\ Agree(e, d, Row("--model", "ModelID", "always"))
    /\ Agree(e, d, Row("--dtype", "DType", "set"))
    /\ Agree(e, d, Row("--quantization", "Quantization", "set"))
    /\ Agree(e, d, Row("--max-model-len", "MaxModelLen", "always"))
    /\ Agree(e, d, Row("--gpu-memory-utilization", "GPUMemoryUtilization", "always"))
    /\ Agree(e, d, Row("--tensor-parallel-size", "TensorParallelSize", "above one"))
    /\ Agree(e, d, Row("--enable-auto-tool-choice", "EnableAutoToolChoice", "switch"))
    /\ Agree(e, d, Row("--tool-call-parser", "ToolCallParser", "set"))
    /\ Agree(e, d, Row("--reasoning-parser", "ReasoningParser", "set"))
    /\ Agree(e, d, Row("--chat-template", "ChatTemplate", "set"))
    /\ Agree(e, d, Row("--kv-cache-dtype", "KVCacheDtype", "set"))
    /\ Agree(e, d, Row("--mamba-cache-mode", "MambaCacheMode", "set"))
    /\ Agree(e, d, Row("--mamba-backend", "MambaBackend", "set"))
    /\ Agree(e, d, Row("prefix-caching", "EnablePrefixCaching", "either"))
    /\ Agree(e, d, Row("--served-model-name", "ServedModelName", "set"))
    /\ Agree(e, d, Row("--cpu-offload-gb", "CPUOffloadGiB", "positive"))
    /\ Agree(e, d, Row("--max-num-batched-tokens", "MaxNumBatchedTokens", "set"))
    /\ Agree(e, d, Row("--enable-chunked-prefill", "EnableChunkedPrefill", "switch"))
    /\ Agree(e, d, Row("--kv-transfer-config", "KVOffloadSize", "lmcache"))
    /\ Agree(e, d, Row("--speculative-config", "SpeculativeConfig", "set"))
    /\ Agree(e, d, Row("--limit-mm-per-prompt", "LimitMmPerPrompt", "set"))
    /\ Agree(e, d, Row("--max-num-seqs", "MaxNumSeqs", "set"))
    /\ Agree(e, d, Row("--kv-cache-dtype-skip-layers", "KVCacheDtypeSkipLayers", "set"))
    /\ Agree(e, d, Row("--enforce-eager", "EnforceEager", "switch"))
    /\ Agree(e, d, Row("--compilation-config", "CompilationConfig", "set"))
    /\ Agree(e, d, Row("--enable-lora", "EnableLora", "switch"))
    /\ Agree(e, d, Row("--lora-modules", "LoraModules", "lora"))
    /\ Agree(e, d, Row("--max-lora-rank", "MaxLoraRank", "lora"))
    /\ Agree(e, d, Row("--revision", "ModelRevision", "set"))
    /\ Agree(e, d, Row("--code-revision", "CodeRevision", "set"))
    /\ Agree(e, d, Row("--tokenizer-revision", "TokenizerRevision", "set"))
    /\ Agree(e, d, Row("--trust-remote-code", "TrustRemoteCode", "switch"))
    /\ Agree(e, d, Row("--disable-custom-all-reduce", "DisableCustomAllReduce", "switch"))
    /\ Agree(e, d, Row("flashinfer-autotune", "FlashinferAutotune", "either"))
    /\ Agree(e, d, Row("--engram-config", "EngramConfig", "set"))
  <1>1. /\ Agree(e, d, BuildArgsRows[1]) /\ Agree(e, d, BuildArgsRows[2]) /\ Agree(e, d, BuildArgsRows[3]) /\ Agree(e, d, BuildArgsRows[4])
        /\ Agree(e, d, BuildArgsRows[5]) /\ Agree(e, d, BuildArgsRows[6]) /\ Agree(e, d, BuildArgsRows[7]) /\ Agree(e, d, BuildArgsRows[8])
        /\ Agree(e, d, BuildArgsRows[9]) /\ Agree(e, d, BuildArgsRows[10]) /\ Agree(e, d, BuildArgsRows[11]) /\ Agree(e, d, BuildArgsRows[12])
        /\ Agree(e, d, BuildArgsRows[13]) /\ Agree(e, d, BuildArgsRows[14]) /\ Agree(e, d, BuildArgsRows[15]) /\ Agree(e, d, BuildArgsRows[16])
        /\ Agree(e, d, BuildArgsRows[17]) /\ Agree(e, d, BuildArgsRows[18]) /\ Agree(e, d, BuildArgsRows[19]) /\ Agree(e, d, BuildArgsRows[20])
        /\ Agree(e, d, BuildArgsRows[21]) /\ Agree(e, d, BuildArgsRows[22]) /\ Agree(e, d, BuildArgsRows[23]) /\ Agree(e, d, BuildArgsRows[24])
        /\ Agree(e, d, BuildArgsRows[25]) /\ Agree(e, d, BuildArgsRows[26]) /\ Agree(e, d, BuildArgsRows[27]) /\ Agree(e, d, BuildArgsRows[28])
    BY SameArgs
  <1>2. /\ Agree(e, d, LongContextFlagRows[1]) /\ Agree(e, d, LongContextFlagRows[2]) /\ Agree(e, d, LongContextFlagRows[3])
        /\ Agree(e, d, LongContextFlagRows[4]) /\ Agree(e, d, LongContextFlagRows[5]) /\ Agree(e, d, LongContextFlagRows[6])
        /\ Agree(e, d, LongContextFlagRows[7])
    BY SameArgs
  <1>3. /\ Agree(e, d, Row("--revision", "ModelRevision", "set"))
        /\ Agree(e, d, Row("--code-revision", "CodeRevision", "set"))
        /\ Agree(e, d, Row("--tokenizer-revision", "TokenizerRevision", "set"))
        /\ Agree(e, d, Row("--trust-remote-code", "TrustRemoteCode", "switch"))
        /\ Agree(e, d, Row("--disable-custom-all-reduce", "DisableCustomAllReduce", "switch"))
        /\ Agree(e, d, Row("flashinfer-autotune", "FlashinferAutotune", "either"))
        /\ Agree(e, d, Row("--engram-config", "EngramConfig", "set"))
    BY <1>2 DEF LongContextFlagRows
  <1>4. /\ Agree(e, d, Row("--model", "ModelID", "always"))
        /\ Agree(e, d, Row("--dtype", "DType", "set"))
        /\ Agree(e, d, Row("--quantization", "Quantization", "set"))
        /\ Agree(e, d, Row("--max-model-len", "MaxModelLen", "always"))
        /\ Agree(e, d, Row("--gpu-memory-utilization", "GPUMemoryUtilization", "always"))
        /\ Agree(e, d, Row("--tensor-parallel-size", "TensorParallelSize", "above one"))
        /\ Agree(e, d, Row("--enable-auto-tool-choice", "EnableAutoToolChoice", "switch"))
        /\ Agree(e, d, Row("--tool-call-parser", "ToolCallParser", "set"))
        /\ Agree(e, d, Row("--reasoning-parser", "ReasoningParser", "set"))
        /\ Agree(e, d, Row("--chat-template", "ChatTemplate", "set"))
        /\ Agree(e, d, Row("--kv-cache-dtype", "KVCacheDtype", "set"))
        /\ Agree(e, d, Row("--mamba-cache-mode", "MambaCacheMode", "set"))
        /\ Agree(e, d, Row("--mamba-backend", "MambaBackend", "set"))
        /\ Agree(e, d, Row("prefix-caching", "EnablePrefixCaching", "either"))
        /\ Agree(e, d, Row("--served-model-name", "ServedModelName", "set"))
        /\ Agree(e, d, Row("--cpu-offload-gb", "CPUOffloadGiB", "positive"))
        /\ Agree(e, d, Row("--max-num-batched-tokens", "MaxNumBatchedTokens", "set"))
        /\ Agree(e, d, Row("--enable-chunked-prefill", "EnableChunkedPrefill", "switch"))
        /\ Agree(e, d, Row("--kv-transfer-config", "KVOffloadSize", "lmcache"))
        /\ Agree(e, d, Row("--speculative-config", "SpeculativeConfig", "set"))
        /\ Agree(e, d, Row("--limit-mm-per-prompt", "LimitMmPerPrompt", "set"))
        /\ Agree(e, d, Row("--max-num-seqs", "MaxNumSeqs", "set"))
        /\ Agree(e, d, Row("--kv-cache-dtype-skip-layers", "KVCacheDtypeSkipLayers", "set"))
        /\ Agree(e, d, Row("--enforce-eager", "EnforceEager", "switch"))
        /\ Agree(e, d, Row("--compilation-config", "CompilationConfig", "set"))
        /\ Agree(e, d, Row("--enable-lora", "EnableLora", "switch"))
        /\ Agree(e, d, Row("--lora-modules", "LoraModules", "lora"))
        /\ Agree(e, d, Row("--max-lora-rank", "MaxLoraRank", "lora"))
    BY <1>1 DEF BuildArgsRows
  <1> QED BY <1>3, <1>4

\* What agreement on a row says of the field, form by form.
LEMMA AgreeValue ==
  ASSUME NEW e, NEW d, NEW flag, NEW f, NEW form, form # "switch",
         Agree(e, d, Row(flag, f, form)), Emitted(e, Row(flag, f, form))
  PROVE  e[f] = d[f]
  <1>1. Arg(e, Row(flag, f, form))[2] = e[f] /\ Arg(d, Row(flag, f, form))[2] = d[f]
    BY DEF Arg, Row
  <1> QED BY <1>1 DEF Agree

LEMMA AgreeSet ==
  ASSUME NEW e, NEW d, NEW flag, NEW f, Agree(e, d, Row(flag, f, "set"))
  PROVE  e[f] = d[f]
  <1>1. \A c : Emitted(c, Row(flag, f, "set")) <=> c[f] # ""
    BY DEF Emitted, Row
  <1>2. Emitted(e, Row(flag, f, "set")) => e[f] = d[f]
    BY AgreeValue
  <1>3. Emitted(e, Row(flag, f, "set")) <=> Emitted(d, Row(flag, f, "set"))
    BY DEF Agree
  <1> QED BY <1>1, <1>2, <1>3

LEMMA AgreeEither ==
  ASSUME NEW e, NEW d, NEW flag, NEW f, Agree(e, d, Row(flag, f, "either"))
  PROVE  e[f] = d[f]
  <1>1. \A c : Emitted(c, Row(flag, f, "either")) <=> c[f] # ""
    BY DEF Emitted, Row
  <1>2. Emitted(e, Row(flag, f, "either")) => e[f] = d[f]
    BY AgreeValue
  <1>3. Emitted(e, Row(flag, f, "either")) <=> Emitted(d, Row(flag, f, "either"))
    BY DEF Agree
  <1> QED BY <1>1, <1>2, <1>3

LEMMA AgreeAlways ==
  ASSUME NEW e, NEW d, NEW flag, NEW f, Agree(e, d, Row(flag, f, "always"))
  PROVE  e[f] = d[f]
  <1>1. Emitted(e, Row(flag, f, "always"))
    BY DEF Emitted, Row
  <1> QED BY <1>1, AgreeValue

LEMMA AgreeSwitch ==
  ASSUME NEW e, NEW d, NEW flag, NEW f, Agree(e, d, Row(flag, f, "switch"))
  PROVE  e[f] = "true" <=> d[f] = "true"
  <1>1. \A c : Emitted(c, Row(flag, f, "switch")) <=> c[f] = "true"
    BY DEF Emitted, Row
  <1> QED BY <1>1 DEF Agree

LEMMA AgreeAboveOne ==
  ASSUME NEW e, NEW d, NEW flag, NEW f, Agree(e, d, Row(flag, f, "above one"))
  PROVE  Num(e[f]) > 1 <=> Num(d[f]) > 1
  <1>1. \A c : Emitted(c, Row(flag, f, "above one")) <=> Num(c[f]) > 1
    BY DEF Emitted, Row
  <1> QED BY <1>1 DEF Agree

LEMMA AgreePositive ==
  ASSUME NEW e, NEW d, NEW flag, NEW f, Agree(e, d, Row(flag, f, "positive"))
  PROVE  e[f] = d[f] \/ (e[f] \in {"", "-1"} /\ d[f] \in {"", "-1"})
  <1>1. \A c : Emitted(c, Row(flag, f, "positive")) <=> c[f] \notin {"", "-1"}
    BY DEF Emitted, Row
  <1>2. Emitted(e, Row(flag, f, "positive")) => e[f] = d[f]
    BY AgreeValue
  <1>3. Emitted(e, Row(flag, f, "positive")) <=> Emitted(d, Row(flag, f, "positive"))
    BY DEF Agree
  <1> QED BY <1>1, <1>2, <1>3

LEMMA AgreeLMCache ==
  ASSUME NEW e, NEW d, NEW flag, NEW f, Agree(e, d, Row(flag, f, "lmcache"))
  PROVE  (lmcache(e) <=> lmcache(d)) /\ (lmcache(e) => e[f] = d[f])
  <1>1. \A c : Emitted(c, Row(flag, f, "lmcache")) <=> lmcache(c)
    BY DEF Emitted, Row
  <1> QED BY <1>1, AgreeValue DEF Agree

LEMMA AgreeLora ==
  ASSUME NEW e, NEW d, NEW flag, NEW f, Agree(e, d, Row(flag, f, "lora")),
         e["EnableLora"] = "true", f = "LoraModules" => validateLoraModules(e[f]),
         d["EnableLora"] = "true", f = "LoraModules" => validateLoraModules(d[f])
  PROVE  e[f] = d[f]
  <1>1. ASSUME NEW c, c["EnableLora"] = "true", f = "LoraModules" => validateLoraModules(c[f])
        PROVE  Emitted(c, Row(flag, f, "lora")) <=> c[f] # ""
    <2>1. Row(flag, f, "lora").field = f /\ Row(flag, f, "lora").form = "lora"
      BY DEF Row
    <2> QED BY <1>1, <2>1 DEF Emitted
  <1>2. Emitted(e, Row(flag, f, "lora")) => e[f] = d[f]
    BY AgreeValue
  <1>3. Emitted(e, Row(flag, f, "lora")) <=> Emitted(d, Row(flag, f, "lora"))
    BY DEF Agree
  <1> QED BY <1>1, <1>2, <1>3

\* The fields that a flag shows as they are, and those it shows as a switch.
ShownFields ==
    {"ModelID", "DType", "Quantization", "MaxModelLen", "GPUMemoryUtilization", "ToolCallParser",
     "ReasoningParser", "ChatTemplate", "KVCacheDtype", "MambaCacheMode", "MambaBackend",
     "EnablePrefixCaching", "ServedModelName", "MaxNumBatchedTokens", "SpeculativeConfig", "LimitMmPerPrompt", "MaxNumSeqs", "KVCacheDtypeSkipLayers",
     "CompilationConfig", "ModelRevision", "CodeRevision", "TokenizerRevision", "FlashinferAutotune",
     "EngramConfig"}

SwitchFields ==
    {"EnableAutoToolChoice", "EnableChunkedPrefill", "EnforceEager", "EnableLora", "TrustRemoteCode",
     "DisableCustomAllReduce"}

\* Two configurations with the same arguments agree in every field that has a flag,
\* as far as the flag shows it.
LEMMA SameFields ==
  ASSUME NEW e, NEW d, buildArgs(e) = buildArgs(d)
  PROVE  /\ \A f \in ShownFields : e[f] = d[f]
         /\ \A f \in SwitchFields : e[f] = "true" <=> d[f] = "true"
         /\ Num(e["TensorParallelSize"]) > 1 <=> Num(d["TensorParallelSize"]) > 1
         /\ \/ e["CPUOffloadGiB"] = d["CPUOffloadGiB"]
            \/ e["CPUOffloadGiB"] \in {"", "-1"} /\ d["CPUOffloadGiB"] \in {"", "-1"}
         /\ lmcache(e) <=> lmcache(d)
         /\ lmcache(e) => e["KVOffloadSize"] = d["KVOffloadSize"]
         /\ /\ e["EnableLora"] = "true"
            /\ validateLoraModules(e["LoraModules"]) /\ validateLoraModules(d["LoraModules"])
            => e["LoraModules"] = d["LoraModules"] /\ e["MaxLoraRank"] = d["MaxLoraRank"]
  <1>1. /\ e["ModelID"] = d["ModelID"] /\ e["DType"] = d["DType"]
        /\ e["Quantization"] = d["Quantization"] /\ e["MaxModelLen"] = d["MaxModelLen"]
        /\ e["GPUMemoryUtilization"] = d["GPUMemoryUtilization"] /\ e["ToolCallParser"] = d["ToolCallParser"]
        /\ e["ReasoningParser"] = d["ReasoningParser"] /\ e["ChatTemplate"] = d["ChatTemplate"]
        /\ e["KVCacheDtype"] = d["KVCacheDtype"] /\ e["MambaCacheMode"] = d["MambaCacheMode"]
        /\ e["MambaBackend"] = d["MambaBackend"] /\ e["EnablePrefixCaching"] = d["EnablePrefixCaching"]
        /\ e["ServedModelName"] = d["ServedModelName"]
        /\ e["MaxNumBatchedTokens"] = d["MaxNumBatchedTokens"] /\ e["SpeculativeConfig"] = d["SpeculativeConfig"]
        /\ e["LimitMmPerPrompt"] = d["LimitMmPerPrompt"] /\ e["MaxNumSeqs"] = d["MaxNumSeqs"]
        /\ e["KVCacheDtypeSkipLayers"] = d["KVCacheDtypeSkipLayers"] /\ e["CompilationConfig"] = d["CompilationConfig"]
        /\ e["ModelRevision"] = d["ModelRevision"] /\ e["CodeRevision"] = d["CodeRevision"]
        /\ e["TokenizerRevision"] = d["TokenizerRevision"] /\ e["FlashinferAutotune"] = d["FlashinferAutotune"]
        /\ e["EngramConfig"] = d["EngramConfig"]
    <2>1. \A flag, f : Agree(e, d, Row(flag, f, "set")) => e[f] = d[f]
      BY AgreeSet
    <2>2. \A flag, f : Agree(e, d, Row(flag, f, "either")) => e[f] = d[f]
      BY AgreeEither
    <2>3. \A flag, f : Agree(e, d, Row(flag, f, "always")) => e[f] = d[f]
      BY AgreeAlways
    <2> QED BY <2>1, <2>2, <2>3, AgreeRows
  <1>2. /\ (e["EnableAutoToolChoice"] = "true" <=> d["EnableAutoToolChoice"] = "true")
        /\ (e["EnableChunkedPrefill"] = "true" <=> d["EnableChunkedPrefill"] = "true")
        /\ (e["EnforceEager"] = "true" <=> d["EnforceEager"] = "true")
        /\ (e["EnableLora"] = "true" <=> d["EnableLora"] = "true")
        /\ (e["TrustRemoteCode"] = "true" <=> d["TrustRemoteCode"] = "true")
        /\ (e["DisableCustomAllReduce"] = "true" <=> d["DisableCustomAllReduce"] = "true")
    BY AgreeRows, AgreeSwitch
  <1>3. \A f \in ShownFields : e[f] = d[f]
    BY <1>1 DEF ShownFields
  <1>4. \A f \in SwitchFields : e[f] = "true" <=> d[f] = "true"
    BY <1>2 DEF SwitchFields
  <1>5. Num(e["TensorParallelSize"]) > 1 <=> Num(d["TensorParallelSize"]) > 1
    BY AgreeRows, AgreeAboveOne
  <1>6. (lmcache(e) <=> lmcache(d)) /\ (lmcache(e) => e["KVOffloadSize"] = d["KVOffloadSize"])
    <2>1. Agree(e, d, Row("--kv-transfer-config", "KVOffloadSize", "lmcache"))
      BY AgreeRows
    <2> QED BY <2>1, AgreeLMCache
  <1>7. ASSUME e["EnableLora"] = "true",
               validateLoraModules(e["LoraModules"]), validateLoraModules(d["LoraModules"])
        PROVE  e["LoraModules"] = d["LoraModules"] /\ e["MaxLoraRank"] = d["MaxLoraRank"]
    <2>1. d["EnableLora"] = "true"
      BY <1>2, <1>7
    <2>2. /\ Agree(e, d, Row("--lora-modules", "LoraModules", "lora"))
          /\ Agree(e, d, Row("--max-lora-rank", "MaxLoraRank", "lora"))
      BY AgreeRows
    <2>3. e["LoraModules"] = d["LoraModules"]
      BY <1>7, <2>1, <2>2, AgreeLora
    <2>4. e["MaxLoraRank"] = d["MaxLoraRank"]
      BY <1>7, <2>1, <2>2, AgreeLora
    <2> QED BY <2>3, <2>4
  <1>8. \/ e["CPUOffloadGiB"] = d["CPUOffloadGiB"]
        \/ e["CPUOffloadGiB"] \in {"", "-1"} /\ d["CPUOffloadGiB"] \in {"", "-1"}
    <2>1. Agree(e, d, Row("--cpu-offload-gb", "CPUOffloadGiB", "positive"))
      BY AgreeRows
    <2> QED BY <2>1, AgreePositive
  <1> QED BY <1>3, <1>4, <1>5, <1>6, <1>7, <1>8

-----------------------------------------------------------------------------
(* Volumes. *)

\* The volume of the cache is there for the sidecar that mounts it.
LEMMA SidecarVolume ==
  ASSUME NEW e, NEW apiKey, lmcache(e)
  PROVE  Holds(Volumes(e, apiKey), "lmcache-data")
  <1> DEFINE E == {"models", "dshm", "hf-token", "vllm-api-key", "lmcache-data"}
  <1>1. PICK base : base = <<"models", "dshm", "hf-token">>
    OBVIOUS
  <1>2. PICK key : key = IF apiKey # "" THEN <<"vllm-api-key">> ELSE <<>>
    OBVIOUS
  <1>3. PICK cache : cache = <<"lmcache-data">>
    OBVIOUS
  <1>4. PICK a : a = base \o key
    OBVIOUS
  <1>5. Volumes(e, apiKey) = a \o cache
    BY <1>1, <1>2, <1>3, <1>4 DEF Volumes
  <1>6. base \in Seq(E) /\ cache \in Seq(E)
    BY <1>1, <1>3
  <1>7. key \in Seq(E)
    <2>1. CASE apiKey # ""
      <3>1. key = <<"vllm-api-key">>
        BY <1>2, <2>1, Zenon
      <3> QED BY <3>1
    <2>2. CASE apiKey = ""
      <3>1. key = <<>>
        BY <1>2, <2>2, Zenon
      <3> QED BY <3>1
    <2> QED BY <2>1, <2>2
  <1> HIDE DEF E
  <1>8. a \in Seq(E)
    BY <1>4, <1>6, <1>7
  <1>9. Holds(cache, "lmcache-data")
    <2>1. 1 \in DOMAIN cache /\ cache[1] = "lmcache-data"
      BY <1>3
    <2> QED BY <2>1 DEF Holds
  <1>10. \A x : Holds(a \o cache, x) <=> Holds(a, x) \/ Holds(cache, x)
    BY <1>6, <1>8, HoldsConcat
  <1> QED BY <1>5, <1>9, <1>10
=============================================================================
