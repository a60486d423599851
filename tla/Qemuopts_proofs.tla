-------------------------- MODULE Qemuopts_proofs --------------------------
(***************************************************************************)
(* Theorems about the builder of qemu command lines, for any flags, values *)
(* and elements, any number of calls and any failures.                     *)
(***************************************************************************)
EXTENDS Qemuopts, WellFoundedInduction, TLAPS

-----------------------------------------------------------------------------
(* FlattenSeq, by induction on the number of sequences.                      *)

LEMMA NatWF == IsWellFoundedOn({p \in Nat \X Nat : p[1] < p[2]}, Nat)
BY NatLessThanWellFounded DEF OpToRel, IsWellFoundedOn

LEMMA Induction ==
  ASSUME NEW T, 0 \in T, \A n \in Nat : n \in T => n + 1 \in T
  PROVE  Nat \subseteq T
<1> DEFINE R == {p \in Nat \X Nat : p[1] < p[2]}
<1> SUFFICES ASSUME Nat \ T # {} PROVE FALSE
  OBVIOUS
<1>1. PICK x \in Nat \ T : \A y \in Nat \ T : ~ (<<y, x>> \in R)
  BY NatWF, WFMin
<1>2. x # 0 /\ x - 1 \in Nat /\ x - 1 < x /\ x = (x - 1) + 1
  BY <1>1
<1>3. <<x - 1, x>> \in R
  BY <1>2, <1>1
<1> QED
  BY <1>1, <1>2, <1>3

(* The function by which FlattenSeq is defined.                              *)
LEMMA FlattenFunction ==
  ASSUME NEW X, NEW b \in Seq(Seq(X)), Len(b) > 0
  PROVE  \E f \in [1 .. Len(b) -> Seq(X)] :
           /\ \A i \in 1 .. Len(b) : f[i] = IF i = 1 THEN b[i] ELSE f[i - 1] \o b[i]
           /\ FlattenSeq(b) = f[Len(b)]
<1> DEFINE flatten[i \in 1 .. Len(b)] == IF i = 1 THEN b[i] ELSE flatten[i - 1] \o b[i]
           Partial(n) == \E f \in [1 .. n -> Seq(X)] :
                           \A i \in 1 .. n : f[i] = IF i = 1 THEN b[i] ELSE f[i - 1] \o b[i]
           T == {n \in Nat : n <= Len(b) => Partial(n)}
<1>1. 0 \in T
  <2>1. PICK f : f = [i \in 1 .. 0 |-> <<>>]
    OBVIOUS
  <2>2. f \in [1 .. 0 -> Seq(X)]
    BY <2>1
  <2>3. \A i \in 1 .. 0 : FALSE
    OBVIOUS
  <2> QED
    BY <2>2, <2>3
<1>2. ASSUME NEW n \in Nat, n \in T
      PROVE  n + 1 \in T
  <2> SUFFICES ASSUME n + 1 <= Len(b)
               PROVE  Partial(n + 1)
    OBVIOUS
  <2>1. PICK f \in [1 .. n -> Seq(X)] :
          \A i \in 1 .. n : f[i] = IF i = 1 THEN b[i] ELSE f[i - 1] \o b[i]
    BY <1>2
  <2> DEFINE next == IF n = 0 THEN b[n + 1] ELSE f[n] \o b[n + 1]
             g == [i \in 1 .. n + 1 |-> IF i = n + 1 THEN next ELSE f[i]]
  <2>2. b[n + 1] \in Seq(X)
    OBVIOUS
  <2>3. next \in Seq(X)
    BY <2>2
  <2>4. g \in [1 .. n + 1 -> Seq(X)]
    BY <2>3
  <2>5. ASSUME NEW i \in 1 .. n + 1
        PROVE  g[i] = IF i = 1 THEN b[i] ELSE g[i - 1] \o b[i]
    <3>1. CASE i = n + 1
      <4>1. g[n + 1] = next
        OBVIOUS
      <4>2. n # 0 => g[n] = f[n]
        OBVIOUS
      <4> QED
        BY <3>1, <4>1, <4>2
    <3>2. CASE i \in 1 .. n
      <4> HIDE DEF next
      <4>1. i \in 1 .. n + 1 /\ i # n + 1
        BY <3>2
      <4>2. g[i] = f[i]
        BY <4>1
      <4>3. i # 1 => i - 1 \in 1 .. n + 1 /\ i - 1 # n + 1
        BY <3>2
      <4>4. i # 1 => g[i - 1] = f[i - 1]
        BY <4>3
      <4> HIDE DEF g
      <4> QED
        BY <3>2, <4>2, <4>4, <2>1
    <3> QED
      BY <3>1, <3>2
  <2> QED
    BY <2>4, <2>5
<1>3. Partial(Len(b))
  <2>1. Nat \subseteq T
    <3> HIDE DEF T
    <3> QED
      BY <1>1, <1>2, Induction
  <2>2. Len(b) \in Nat
    OBVIOUS
  <2>3. Len(b) \in T
    BY <2>1, <2>2
  <2>4. Len(b) <= Len(b)
    BY <2>2
  <2> QED
    BY <2>3, <2>4
<1>4. PICK f \in [1 .. Len(b) -> Seq(X)] :
        \A i \in 1 .. Len(b) : f[i] = IF i = 1 THEN b[i] ELSE f[i - 1] \o b[i]
  BY <1>3
<1>5. f = [i \in 1 .. Len(b) |-> IF i = 1 THEN b[i] ELSE f[i - 1] \o b[i]]
  BY <1>4
<1>6. flatten = CHOOSE g : g = [i \in 1 .. Len(b) |-> IF i = 1 THEN b[i] ELSE g[i - 1] \o b[i]]
  BY DEF flatten
<1>7. flatten = [i \in 1 .. Len(b) |-> IF i = 1 THEN b[i] ELSE flatten[i - 1] \o b[i]]
  <2> HIDE DEF flatten
  <2> QED
    BY <1>5, <1>6
<1>8. FlattenSeq(b) = flatten[Len(b)]
  BY DEF FlattenSeq
<1> HIDE DEF flatten
<1>9. \A i \in 1 .. Len(b) : flatten[i] = f[i]
  <2> DEFINE S == {n \in Nat : n \in 1 .. Len(b) => flatten[n] = f[n]}
  <2>1. 0 \in S
    OBVIOUS
  <2>2. ASSUME NEW n \in Nat, n \in S
        PROVE  n + 1 \in S
    <3> SUFFICES ASSUME n + 1 \in 1 .. Len(b)
                 PROVE  flatten[n + 1] = f[n + 1]
      OBVIOUS
    <3>1. flatten[n + 1] = IF n + 1 = 1 THEN b[n + 1] ELSE flatten[(n + 1) - 1] \o b[n + 1]
      BY <1>7
    <3>2. f[n + 1] = IF n + 1 = 1 THEN b[n + 1] ELSE f[(n + 1) - 1] \o b[n + 1]
      BY <1>4
    <3>3. n + 1 # 1 => flatten[(n + 1) - 1] = f[(n + 1) - 1]
      BY <2>2
    <3> QED
      BY <3>1, <3>2, <3>3
  <2>3. Nat \subseteq S
    <3> HIDE DEF S
    <3> QED
      BY <2>1, <2>2, Induction
  <2> QED
    BY <2>3
<1>10. Len(b) \in 1 .. Len(b)
  OBVIOUS
<1>11. FlattenSeq(b) = f[Len(b)]
  BY <1>8, <1>9, <1>10
<1> QED
  BY <1>4, <1>11

(* FlattenSeq of the first so many sequences.                                *)
LEMMA Flatten ==
  ASSUME NEW X, NEW b \in Seq(Seq(X))
  PROVE  /\ \A k \in 0 .. Len(b) : FlattenSeq(SubSeq(b, 1, k)) \in Seq(X)
         /\ FlattenSeq(SubSeq(b, 1, 0)) = <<>>
         /\ \A k \in 1 .. Len(b) :
              FlattenSeq(SubSeq(b, 1, k)) = FlattenSeq(SubSeq(b, 1, k - 1)) \o b[k]
         /\ FlattenSeq(SubSeq(b, 1, Len(b))) = FlattenSeq(b)
<1>1. SubSeq(b, 1, 0) = <<>>
  OBVIOUS
<1>2. FlattenSeq(SubSeq(b, 1, 0)) = <<>>
  BY <1>1 DEF FlattenSeq
<1>3. SubSeq(b, 1, Len(b)) = b
  OBVIOUS
<1> DEFINE P(k) == SubSeq(b, 1, k)
<1>4. \A k \in 0 .. Len(b) : P(k) \in Seq(Seq(X)) /\ Len(P(k)) = k /\ \A i \in 1 .. k : P(k)[i] = b[i]
  OBVIOUS
<1>5. ASSUME NEW k \in 1 .. Len(b)
      PROVE  \E f \in [1 .. k -> Seq(X)] :
               /\ \A i \in 1 .. k : f[i] = IF i = 1 THEN b[i] ELSE f[i - 1] \o b[i]
               /\ FlattenSeq(P(k)) = f[k]
  <2>1. P(k) \in Seq(Seq(X)) /\ Len(P(k)) = k /\ k > 0 /\ \A i \in 1 .. k : P(k)[i] = b[i]
    BY <1>4
  <2> HIDE DEF P
  <2>2. PICK f \in [1 .. Len(P(k)) -> Seq(X)] :
           /\ \A i \in 1 .. Len(P(k)) : f[i] = IF i = 1 THEN P(k)[i] ELSE f[i - 1] \o P(k)[i]
           /\ FlattenSeq(P(k)) = f[Len(P(k))]
    BY <2>1, FlattenFunction
  <2> QED
    BY <2>1, <2>2
<1>6. \A k \in 0 .. Len(b) : FlattenSeq(P(k)) \in Seq(X)
  <2>1. ASSUME NEW k \in 1 .. Len(b)
        PROVE  FlattenSeq(P(k)) \in Seq(X)
    <3> HIDE DEF P
    <3>1. PICK f \in [1 .. k -> Seq(X)] : FlattenSeq(P(k)) = f[k]
      BY <1>5
    <3>2. k \in 1 .. k
      OBVIOUS
    <3> QED
      BY <3>1, <3>2
  <2>2. \A k \in 0 .. Len(b) : k = 0 \/ k \in 1 .. Len(b)
    OBVIOUS
  <2>3. FlattenSeq(P(0)) \in Seq(X)
    <3>1. <<>> \in Seq(X)
      OBVIOUS
    <3> QED
      BY <1>2, <3>1
  <2> HIDE DEF P
  <2> QED
    BY <2>1, <2>2, <2>3
<1>7. ASSUME NEW k \in 1 .. Len(b)
      PROVE  FlattenSeq(P(k)) = FlattenSeq(P(k - 1)) \o b[k]
  <2>0. k \in Nat /\ k >= 1
    OBVIOUS
  <2>1. PICK f \in [1 .. k -> Seq(X)] :
               /\ \A i \in 1 .. k : f[i] = IF i = 1 THEN b[i] ELSE f[i - 1] \o b[i]
               /\ FlattenSeq(P(k)) = f[k]
    BY <1>5
  <2>2. CASE k = 1
    <3>1. FlattenSeq(P(k)) = b[1]
      <4> HIDE DEF P
      <4> QED
        BY <2>1, <2>2
    <3>2. FlattenSeq(P(k - 1)) = <<>>
      BY <2>2, <1>2
    <3>3. b[1] \in Seq(X)
      BY <2>2
    <3> HIDE DEF P
    <3> QED
      BY <2>2, <3>1, <3>2, <3>3
  <2>3. CASE k > 1
    <3>1. k - 1 \in 1 .. Len(b) /\ k \in 1 .. k /\ k # 1 /\ \A i \in 1 .. k - 1 : i \in 1 .. k
      BY <2>3
    <3>2. PICK g \in [1 .. k - 1 -> Seq(X)] :
               /\ \A i \in 1 .. k - 1 : g[i] = IF i = 1 THEN b[i] ELSE g[i - 1] \o b[i]
               /\ FlattenSeq(P(k - 1)) = g[k - 1]
      BY <1>5, <3>1
    <3> HIDE DEF P
    <3> DEFINE S == {n \in Nat : n \in 1 .. k - 1 => f[n] = g[n]}
    <3>3. 0 \in S
      OBVIOUS
    <3>4. ASSUME NEW n \in Nat, n \in S
          PROVE  n + 1 \in S
      <4> SUFFICES ASSUME n + 1 \in 1 .. k - 1
                   PROVE  f[n + 1] = g[n + 1]
        OBVIOUS
      <4>1. f[n + 1] = IF n + 1 = 1 THEN b[n + 1] ELSE f[(n + 1) - 1] \o b[n + 1]
        BY <2>1, <3>1
      <4>2. g[n + 1] = IF n + 1 = 1 THEN b[n + 1] ELSE g[(n + 1) - 1] \o b[n + 1]
        BY <3>2
      <4>3. n + 1 # 1 => f[(n + 1) - 1] = g[(n + 1) - 1]
        BY <3>4
      <4> QED
        BY <4>1, <4>2, <4>3
    <3>5. Nat \subseteq S
      <4> HIDE DEF S
      <4> QED
        BY <3>3, <3>4, Induction
    <3>6. f[k - 1] = g[k - 1]
      BY <3>5, <2>3, <2>0
    <3>7. f[k] = f[k - 1] \o b[k]
      BY <2>1, <3>1
    <3> QED
      BY <2>1, <3>2, <3>6, <3>7
  <2>4. k = 1 \/ k > 1
    BY <2>0
  <2> HIDE DEF P
  <2> QED
    BY <2>2, <2>3, <2>4
<1> HIDE DEF P
<1> QED
  BY <1>2, <1>3, <1>6, <1>7 DEF P

LEMMA FlattenAppend ==
  ASSUME NEW X, NEW b \in Seq(Seq(X)), NEW x \in Seq(X)
  PROVE  FlattenSeq(Append(b, x)) = FlattenSeq(b) \o x /\ FlattenSeq(b) \in Seq(X)
<1>1. PICK all : all = Append(b, x)
  OBVIOUS
<1>2. PICK n \in Nat : n = Len(b)
  OBVIOUS
<1>3. all \in Seq(Seq(X)) /\ Len(all) = n + 1 /\ all[n + 1] = x /\ SubSeq(all, 1, n) = b
  BY <1>1, <1>2
<1>4. n + 1 \in 1 .. Len(all) /\ (n + 1) - 1 = n /\ n \in 0 .. Len(all)
  BY <1>3
<1>5. /\ \A k \in 0 .. Len(all) : FlattenSeq(SubSeq(all, 1, k)) \in Seq(X)
      /\ \A k \in 1 .. Len(all) :
           FlattenSeq(SubSeq(all, 1, k)) = FlattenSeq(SubSeq(all, 1, k - 1)) \o all[k]
      /\ FlattenSeq(SubSeq(all, 1, Len(all))) = FlattenSeq(all)
  BY <1>3, Flatten
<1>6. FlattenSeq(all) = FlattenSeq(SubSeq(all, 1, n)) \o x
  BY ONLY <1>3, <1>4, <1>5
<1>7. FlattenSeq(SubSeq(all, 1, n)) \in Seq(X)
  BY ONLY <1>4, <1>5
<1> QED
  BY <1>1, <1>3, <1>6, <1>7

LEMMA FlattenNothing == FlattenSeq(<<>>) = <<>>
BY DEF FlattenSeq

-----------------------------------------------------------------------------
(* What is true of the empty string, and of a string with one more character *)
(* when it is true of the string, is true of every string.                   *)
LEMMA StringInduction ==
  ASSUME NEW C, NEW T, <<>> \in T, \A str \in Seq(C), c \in C : str \in T => Append(str, c) \in T
  PROVE  Seq(C) \subseteq T
<1> DEFINE K == {n \in Nat : \A str \in Seq(C) : Len(str) = n => str \in T}
<1>1. 0 \in K
  <2>1. \A str \in Seq(C) : Len(str) = 0 => str = <<>>
    OBVIOUS
  <2> QED
    BY <2>1
<1>2. ASSUME NEW n \in Nat, n \in K PROVE n + 1 \in K
  <2> SUFFICES ASSUME NEW str \in Seq(C), Len(str) = n + 1 PROVE str \in T
    OBVIOUS
  <2>1. PICK front : front = SubSeq(str, 1, n)
    OBVIOUS
  <2>2. front \in Seq(C) /\ Len(front) = n /\ str[n + 1] \in C
    BY <2>1
  <2>3. str = Append(front, str[n + 1])
    BY <2>1, <2>2
  <2>4. front \in T
    BY <1>2, <2>2
  <2> QED
    BY <2>2, <2>3, <2>4
<1>3. Nat \subseteq K
  <2> HIDE DEF K
  <2> QED
    BY <1>1, <1>2, Induction
<1>4. ASSUME NEW str \in Seq(C) PROVE str \in T
  <2>1. Len(str) \in Nat
    OBVIOUS
  <2> QED
    BY <1>3, <2>1
<1> QED
  BY <1>4

(* A recursion over the positions of a string has a value at each of them.     *)
RecursionSteps(n, T) == [1 .. n -> [T -> T]]

Recursions(n, T, b, F) ==
  {g \in [0 .. n -> T] : g[0] = b /\ \A i \in 1 .. n : g[i] = F[i][g[i - 1]]}

LEMMA Recursion ==
  ASSUME NEW n \in Nat, NEW T, NEW b \in T, NEW F \in RecursionSteps(n, T)
  PROVE  Recursions(n, T, b, F) # {}
<1> USE DEF RecursionSteps
<1> DEFINE Partial(k) == \E g \in [0 .. k -> T] :
                           g[0] = b /\ \A i \in 1 .. k : g[i] = F[i][g[i - 1]]
           K == {k \in Nat : k <= n => Partial(k)}
<1>1. 0 \in K
  <2>1. PICK g : g = [i \in 0 .. 0 |-> b]
    OBVIOUS
  <2>2. g \in [0 .. 0 -> T] /\ g[0] = b
    BY <2>1
  <2>3. \A i \in 1 .. 0 : FALSE
    OBVIOUS
  <2> QED
    BY <2>2, <2>3
<1>2. ASSUME NEW k \in Nat, k \in K PROVE k + 1 \in K
  <2> SUFFICES ASSUME k + 1 <= n PROVE Partial(k + 1)
    OBVIOUS
  <2>1. PICK g \in [0 .. k -> T] : g[0] = b /\ \A i \in 1 .. k : g[i] = F[i][g[i - 1]]
    BY <1>2
  <2>2. PICK next : next = F[k + 1][g[k]]
    OBVIOUS
  <2>3. next \in T
    <3>1. F[k + 1] \in [T -> T]
      OBVIOUS
    <3>2. g[k] \in T
      BY <2>1
    <3> QED
      BY <2>2, <3>1, <3>2
  <2>4. PICK h : h = [i \in 0 .. k + 1 |-> IF i = k + 1 THEN next ELSE g[i]]
    OBVIOUS
  <2>5. h \in [0 .. k + 1 -> T] /\ h[0] = b
    BY <2>1, <2>3, <2>4
  <2>6. ASSUME NEW i \in 1 .. k + 1 PROVE h[i] = F[i][h[i - 1]]
    <3>1. h[i - 1] = g[i - 1]
      BY <2>4
    <3>2. CASE i = k + 1
      <4>1. h[i] = next /\ i - 1 = k
        BY <2>4, <3>2
      <4> QED
        BY <2>2, <3>1, <3>2, <4>1
    <3>3. CASE i \in 1 .. k
      <4>1. h[i] = g[i]
        BY <2>4, <3>3
      <4> QED
        BY <2>1, <3>1, <3>3, <4>1
    <3> QED
      BY <3>2, <3>3
  <2> QED
    BY <2>5, <2>6
<1>3. Nat \subseteq K
  <2> HIDE DEF K
  <2> QED
    BY <1>1, <1>2, Induction
<1>4. n \in K
  BY <1>3
<1> QED
  BY <1>4 DEF Recursions

(* A reader whose steps are those of the function F.                         *)
Readers(T, C) == [T -> [C -> T]]

RunsBy(F, T, s, str) ==
  {g \in [0 .. Len(str) -> T] : g[0] = s /\ \A i \in 1 .. Len(str) : g[i] = F[g[i - 1]][str[i]]}

ReadBy(F, T, s, str) == (CHOOSE g \in RunsBy(F, T, s, str) : TRUE)[Len(str)]

LEMMA RunExists ==
  ASSUME NEW T, NEW C, NEW F \in Readers(T, C), NEW s \in T, NEW str \in Seq(C)
  PROVE  \E g \in RunsBy(F, T, s, str) : ReadBy(F, T, s, str) = g[Len(str)]
<1>0. Len(str) \in Nat /\ \A i \in 1 .. Len(str) : str[i] \in C
  OBVIOUS
<1>1. PICK G : G = [i \in 1 .. Len(str) |-> [t \in T |-> F[t][str[i]]]]
  OBVIOUS
<1>2. G \in RecursionSteps(Len(str), T)
  BY <1>0, <1>1 DEF Readers, RecursionSteps
<1>3. PICK g \in [0 .. Len(str) -> T] : g[0] = s /\ \A i \in 1 .. Len(str) : g[i] = G[i][g[i - 1]]
  <2>1. Recursions(Len(str), T, s, G) # {}
    BY <1>0, <1>2, Recursion
  <2> QED
    BY <2>1 DEF Recursions
<1>4. ASSUME NEW i \in 1 .. Len(str) PROVE g[i] = F[g[i - 1]][str[i]]
  <2>1. g[i - 1] \in T
    BY <1>0
  <2> QED
    BY <1>1, <1>3, <2>1
<1>5. RunsBy(F, T, s, str) # {}
  BY <1>3, <1>4 DEF RunsBy
<1> QED
  BY <1>5 DEF ReadBy

(* Whatever takes the steps of the reader arrives where the reader does.     *)
LEMMA SameRun ==
  ASSUME NEW T, NEW C, NEW F \in Readers(T, C), NEW s \in T, NEW str \in Seq(C), NEW h, h[0] = s,
         \A i \in 1 .. Len(str) : h[i - 1] \in T => h[i] = F[h[i - 1]][str[i]]
  PROVE  h[Len(str)] = ReadBy(F, T, s, str)
<1>1. PICK g \in RunsBy(F, T, s, str) : ReadBy(F, T, s, str) = g[Len(str)]
  BY RunExists
<1>2. g \in [0 .. Len(str) -> T] /\ g[0] = s /\ \A i \in 1 .. Len(str) : g[i] = F[g[i - 1]][str[i]]
  BY DEF RunsBy
<1> DEFINE K == {k \in Nat : k <= Len(str) => h[k] = g[k]}
<1>3. 0 \in K
  BY <1>2
<1>4. ASSUME NEW k \in Nat, k \in K PROVE k + 1 \in K
  <2> SUFFICES ASSUME k + 1 <= Len(str) PROVE h[k + 1] = g[k + 1]
    OBVIOUS
  <2>1. k + 1 \in 1 .. Len(str) /\ (k + 1) - 1 = k /\ h[k] = g[k] /\ k \in 0 .. Len(str)
    BY <1>4
  <2>2. h[k] \in T
    BY <1>2, <2>1
  <2>3. g[k + 1] = F[g[(k + 1) - 1]][str[k + 1]]
    BY <1>2, <2>1
  <2>4. h[(k + 1) - 1] \in T => h[k + 1] = F[h[(k + 1) - 1]][str[k + 1]]
    BY <2>1
  <2> QED
    BY ONLY <2>1, <2>2, <2>3, <2>4
<1>5. Nat \subseteq K
  <2> HIDE DEF K
  <2> QED
    BY <1>3, <1>4, Induction
<1>6. Len(str) \in Nat
  OBVIOUS
<1> QED
  BY <1>1, <1>5, <1>6

-----------------------------------------------------------------------------
LEMMA ReadsInto ==
  ASSUME NEW T, NEW C, NEW F \in Readers(T, C), NEW s \in T, NEW str \in Seq(C)
  PROVE  ReadBy(F, T, s, str) \in T
<1>1. PICK g \in RunsBy(F, T, s, str) : ReadBy(F, T, s, str) = g[Len(str)]
  BY RunExists
<1>2. g \in [0 .. Len(str) -> T] /\ Len(str) \in 0 .. Len(str)
  BY DEF RunsBy
<1> QED
  BY <1>1, <1>2

LEMMA ReadsNothing ==
  ASSUME NEW T, NEW C, NEW F \in Readers(T, C), NEW s \in T
  PROVE  ReadBy(F, T, s, <<>>) = s
<1>1. ASSUME NEW e \in Seq(C), Len(e) = 0 PROVE ReadBy(F, T, s, e) = s
  <2>1. PICK g \in RunsBy(F, T, s, e) : ReadBy(F, T, s, e) = g[Len(e)]
    BY RunExists
  <2> QED
    BY <1>1, <2>1 DEF RunsBy
<1>2. <<>> \in Seq(C) /\ Len(<<>>) = 0
  OBVIOUS
<1> QED
  BY <1>1, <1>2

LEMMA ReadsMore ==
  ASSUME NEW T, NEW C, NEW F \in Readers(T, C), NEW s \in T, NEW str \in Seq(C), NEW c \in C
  PROVE  ReadBy(F, T, s, Append(str, c)) = F[ReadBy(F, T, s, str)][c]
<1>1. PICK all : all = Append(str, c)
  OBVIOUS
<1>2. PICK n \in Nat : n = Len(str)
  OBVIOUS
<1>3. all \in Seq(C) /\ Len(all) = n + 1 /\ all[n + 1] = c /\ \A i \in 1 .. n : all[i] = str[i]
  BY <1>1, <1>2
<1>4. PICK g \in RunsBy(F, T, s, str) : ReadBy(F, T, s, str) = g[n]
  BY <1>2, RunExists
<1>5. g \in [0 .. n -> T] /\ g[0] = s /\ \A i \in 1 .. n : g[i] = F[g[i - 1]][str[i]]
  BY <1>2 DEF RunsBy
<1>6. PICK h : h = [i \in 0 .. n + 1 |-> IF i = n + 1 THEN F[g[n]][c] ELSE g[i]]
  OBVIOUS
<1>7. h[0] = s /\ h[n + 1] = F[g[n]][c]
  BY <1>5, <1>6
<1>8. ASSUME NEW i \in 1 .. Len(all) PROVE h[i] = F[h[i - 1]][all[i]]
  <2>1. i \in 1 .. n + 1 /\ i - 1 \in 0 .. n
    BY <1>3
  <2>2. h[i - 1] = g[i - 1]
    BY <1>6, <2>1
  <2>3. CASE i = n + 1
    <3>1. i - 1 = n
      BY <2>3
    <3> QED
      BY <1>3, <1>7, <2>2, <2>3, <3>1
  <2>4. CASE i \in 1 .. n
    <3>1. h[i] = g[i] /\ all[i] = str[i]
      BY <1>3, <1>6, <2>4
    <3> QED
      BY <1>5, <2>2, <2>4, <3>1
  <2> QED
    BY <2>1, <2>3, <2>4
<1>9. h[Len(all)] = ReadBy(F, T, s, all)
  BY ONLY <1>3, <1>7, <1>8, SameRun, F \in Readers(T, C), s \in T
<1> QED
  BY <1>1, <1>3, <1>4, <1>7, <1>9

LEMMA ReadsOne ==
  ASSUME NEW T, NEW C, NEW F \in Readers(T, C), NEW s \in T, NEW c \in C
  PROVE  ReadBy(F, T, s, <<c>>) = F[s][c]
<1>1. <<>> \in Seq(C) /\ <<c>> = Append(<<>>, c)
  OBVIOUS
<1>2. ReadBy(F, T, s, Append(<<>>, c)) = F[ReadBy(F, T, s, <<>>)][c]
  <2>1. ASSUME NEW e \in Seq(C) PROVE ReadBy(F, T, s, Append(e, c)) = F[ReadBy(F, T, s, e)][c]
    BY ReadsMore
  <2> QED
    BY <1>1, <2>1
<1>3. ReadBy(F, T, s, <<>>) = s
  BY ReadsNothing
<1> QED
  BY <1>1, <1>2, <1>3

(* A reader goes on from where it is.                                        *)
LEMMA ReadsOn ==
  ASSUME NEW T, NEW C, NEW F \in Readers(T, C), NEW s \in T, NEW a \in Seq(C), NEW b \in Seq(C)
  PROVE  ReadBy(F, T, s, a \o b) = ReadBy(F, T, ReadBy(F, T, s, a), b)
<1> DEFINE P(str) == ReadBy(F, T, s, a \o str) = ReadBy(F, T, ReadBy(F, T, s, a), str)
           K == {str \in Seq(C) : P(str)}
<1>0. ReadBy(F, T, s, a) \in T
  BY ReadsInto
<1>1. <<>> \in K
  <2>1. a \o <<>> = a /\ <<>> \in Seq(C)
    OBVIOUS
  <2>2. ReadBy(F, T, ReadBy(F, T, s, a), <<>>) = ReadBy(F, T, s, a)
    BY <1>0, ReadsNothing
  <2> QED
    BY <2>1, <2>2
<1>2. ASSUME NEW str \in Seq(C), NEW c \in C, str \in K PROVE Append(str, c) \in K
  <2>1. a \o str \in Seq(C) /\ a \o Append(str, c) = Append(a \o str, c) /\ Append(str, c) \in Seq(C)
    OBVIOUS
  <2>2. ReadBy(F, T, s, Append(a \o str, c)) = F[ReadBy(F, T, s, a \o str)][c]
    <3>1. ASSUME NEW e \in Seq(C) PROVE ReadBy(F, T, s, Append(e, c)) = F[ReadBy(F, T, s, e)][c]
      BY ReadsMore
    <3> QED
      BY <2>1, <3>1
  <2>3. ReadBy(F, T, ReadBy(F, T, s, a), Append(str, c)) = F[ReadBy(F, T, ReadBy(F, T, s, a), str)][c]
    BY <1>0, ReadsMore
  <2>4. P(str)
    BY <1>2
  <2>5. P(Append(str, c))
    BY <2>1, <2>2, <2>3, <2>4
  <2> HIDE DEF P
  <2> QED
    BY <2>1, <2>5
<1>3. Seq(C) \subseteq K
  <2> HIDE DEF K
  <2> QED
    BY <1>1, <1>2, StringInduction
<1> QED
  BY <1>3

-----------------------------------------------------------------------------
-----------------------------------------------------------------------------
(* The readers.                                                              *)
Strings == Seq(Characters)

ShStates ==
  {s \in [words : Seq(Strings), word : Strings, mode : {"blank", "word", "quoted"},
          backslash : BOOLEAN] : s.mode = "blank" => s.word = <<>>}

QemuStates == [done : Seq(Strings), element : Strings, comma : BOOLEAN]

Opts == [flag : Flags, values : Seq(Strings)]

LEMMA CharactersOfQuoting ==
  /\ " " \in Characters /\ "\n" \in Characters /\ "," \in Characters /\ "\\" \in Characters
  /\ "\"" \in Characters /\ "$" \in Characters /\ Expansion \in Characters
BY StringsAssumption DEF StringsAssumption, Escaped

LEMMA ShStepType ==
  ASSUME NEW s \in ShStates, NEW c \in Characters
  PROVE  ShStep(s, c) \in ShStates
<1>1. /\ s.words \in Seq(Strings) /\ s.word \in Strings /\ s.mode \in {"blank", "word", "quoted"}
      /\ s.mode = "blank" => s.word = <<>>
  BY DEF ShStates
<1>2. ASSUME NEW w \in Seq(Strings), NEW x \in Strings, NEW m \in {"blank", "word", "quoted"},
             NEW b \in BOOLEAN, m = "blank" => x = <<>>
      PROVE  [words |-> w, word |-> x, mode |-> m, backslash |-> b] \in ShStates
  BY <1>2 DEF ShStates
<1>3. WithMode(s, s.mode) \in ShStates /\ WithMode(s, "word") \in ShStates
      /\ WithMode(s, "quoted") \in ShStates
  BY <1>1, <1>2 DEF WithMode
<1>4. ASSUME NEW str \in Strings PROVE Put(s, str) \in ShStates
  <2>1. s.word \o str \in Strings
    BY <1>1 DEF Strings
  <2>2. (IF s.mode = "blank" THEN "word" ELSE s.mode) \in {"word", "quoted"}
    BY <1>1
  <2> QED
    BY <1>1, <1>2, <2>1, <2>2 DEF Put
<1>5. EndOfWord(s) \in ShStates
  <2>1. Append(s.words, s.word) \in Seq(Strings) /\ <<>> \in Strings
    BY <1>1 DEF Strings
  <2> QED
    BY <1>1, <1>2, <2>1 DEF EndOfWord
<1>6. [s EXCEPT !.backslash = TRUE] \in ShStates
  BY DEF ShStates
<1>7. <<"\\", c>> \in Strings /\ <<c>> \in Strings /\ <<Expansion>> \in Strings
  <2>1. ASSUME NEW a \in Characters PROVE <<a>> \in Strings /\ <<a, c>> \in Strings
    BY DEF Strings
  <2> QED
    BY <2>1, CharactersOfQuoting
<1>8. CASE s.backslash
  BY <1>3, <1>4, <1>7, <1>8 DEF ShStep
<1>9. CASE ~s.backslash
  BY <1>3, <1>4, <1>5, <1>6, <1>7, <1>9 DEF ShStep
<1> QED
  BY <1>8, <1>9

ShReader == [s \in ShStates |-> [c \in Characters |-> ShStep(s, c)]]

LEMMA ShIsReader == ShReader \in Readers(ShStates, Characters)
BY ShStepType DEF ShReader, Readers

LEMMA ShRunReads ==
  ASSUME NEW s \in ShStates, NEW str \in Strings
  PROVE  ShRun(s, str) = ReadBy(ShReader, ShStates, s, str)
<1> DEFINE run[n \in 0 .. Len(str)] == IF n = 0 THEN s ELSE ShStep(run[n - 1], str[n])
<1>0. str \in Seq(Characters) /\ Len(str) \in Nat /\ \A i \in 1 .. Len(str) : str[i] \in Characters
  BY DEF Strings
<1>1. ShRun(s, str) = run[Len(str)]
  BY DEF ShRun, Run
<1>2. run = CHOOSE h : h = [n \in 0 .. Len(str) |-> IF n = 0 THEN s ELSE ShStep(h[n - 1], str[n])]
  BY DEF run
<1> HIDE DEF run
<1>3. PICK g \in RunsBy(ShReader, ShStates, s, str) : TRUE
  BY <1>0, ShIsReader, RunExists
<1>4. g \in [0 .. Len(str) -> ShStates] /\ g[0] = s
      /\ \A i \in 1 .. Len(str) : g[i] = ShReader[g[i - 1]][str[i]]
  BY DEF RunsBy
<1>5. g = [n \in 0 .. Len(str) |-> IF n = 0 THEN s ELSE ShStep(g[n - 1], str[n])]
  <2>1. ASSUME NEW n \in 0 .. Len(str), n # 0 PROVE g[n] = ShStep(g[n - 1], str[n])
    <3>1. n \in 1 .. Len(str) /\ n - 1 \in 0 .. Len(str)
      BY <1>0, <2>1
    <3>2. g[n - 1] \in ShStates /\ str[n] \in Characters
      BY <1>0, <1>4, <3>1
    <3> QED
      BY <1>4, <3>1, <3>2 DEF ShReader
  <2> QED
    BY <1>4, <2>1
<1>6. run = [n \in 0 .. Len(str) |-> IF n = 0 THEN s ELSE ShStep(run[n - 1], str[n])]
  BY <1>2, <1>5
<1>7. ASSUME NEW i \in 1 .. Len(str), run[i - 1] \in ShStates
      PROVE  run[i] = ShReader[run[i - 1]][str[i]]
  <2>1. i \in 0 .. Len(str) /\ i # 0
    BY <1>0
  <2>2. run[i] = ShStep(run[i - 1], str[i])
    BY <1>6, <2>1
  <2> QED
    BY <1>0, <1>7, <2>2 DEF ShReader
<1>8. run[0] = s
  BY <1>0, <1>6
<1> QED
  BY <1>0, <1>1, <1>7, <1>8, ShIsReader, SameRun

LEMMA ShReads ==
  /\ \A s \in ShStates, str \in Strings : ShRun(s, str) \in ShStates
  /\ \A s \in ShStates : ShRun(s, <<>>) = s
  /\ \A s \in ShStates, c \in Characters : ShRun(s, <<c>>) = ShStep(s, c)
  /\ \A s \in ShStates, str \in Strings, c \in Characters :
       ShRun(s, Append(str, c)) = ShStep(ShRun(s, str), c)
  /\ \A s \in ShStates, a \in Strings, b \in Strings : ShRun(s, a \o b) = ShRun(ShRun(s, a), b)
<1>1. ASSUME NEW s \in ShStates, NEW str \in Strings PROVE ShRun(s, str) \in ShStates
  <2>1. ReadBy(ShReader, ShStates, s, str) \in ShStates
    BY ShIsReader, ReadsInto DEF Strings
  <2> QED
    BY <2>1, ShRunReads
<1>2. ASSUME NEW s \in ShStates PROVE ShRun(s, <<>>) = s
  <2>1. <<>> \in Strings
    BY DEF Strings
  <2> QED
    BY <2>1, ShRunReads, ShIsReader, ReadsNothing
<1>3. ASSUME NEW s \in ShStates, NEW c \in Characters PROVE ShRun(s, <<c>>) = ShStep(s, c)
  <2>1. <<c>> \in Strings
    BY DEF Strings
  <2>2. ReadBy(ShReader, ShStates, s, <<c>>) = ShReader[s][c]
    BY ShIsReader, ReadsOne
  <2> QED
    BY <2>1, <2>2, ShRunReads DEF ShReader
<1>4. ASSUME NEW s \in ShStates, NEW str \in Strings, NEW c \in Characters
      PROVE  ShRun(s, Append(str, c)) = ShStep(ShRun(s, str), c)
  <2>1. Append(str, c) \in Strings
    BY DEF Strings
  <2>2. ReadBy(ShReader, ShStates, s, Append(str, c)) = ShReader[ReadBy(ShReader, ShStates, s, str)][c]
    BY ShIsReader, ReadsMore DEF Strings
  <2>3. ShRun(s, Append(str, c)) = ReadBy(ShReader, ShStates, s, Append(str, c))
        /\ ShRun(s, str) = ReadBy(ShReader, ShStates, s, str)
    BY <2>1, ShRunReads
  <2>4. ShReader[ShRun(s, str)][c] = ShStep(ShRun(s, str), c)
    BY <1>1 DEF ShReader
  <2> QED
    BY <2>2, <2>3, <2>4
<1>5. ASSUME NEW s \in ShStates, NEW a \in Strings, NEW b \in Strings
      PROVE  ShRun(s, a \o b) = ShRun(ShRun(s, a), b)
  <2>1. a \o b \in Strings
    BY DEF Strings
  <2>2. ReadBy(ShReader, ShStates, s, a \o b)
          = ReadBy(ShReader, ShStates, ReadBy(ShReader, ShStates, s, a), b)
    BY ShIsReader, ReadsOn DEF Strings
  <2>3. ShRun(s, a \o b) = ReadBy(ShReader, ShStates, s, a \o b)
        /\ ShRun(s, a) = ReadBy(ShReader, ShStates, s, a)
    BY <2>1, ShRunReads
  <2>4. ShRun(ShRun(s, a), b) = ReadBy(ShReader, ShStates, ShRun(s, a), b)
    BY <1>1, ShRunReads
  <2> QED
    BY <2>2, <2>3, <2>4
<1> QED
  BY <1>1, <1>2, <1>3, <1>4, <1>5

-----------------------------------------------------------------------------
LEMMA QemuStepType ==
  ASSUME NEW s \in QemuStates, NEW c \in Characters
  PROVE  QemuStep(s, c) \in QemuStates
<1>1. s.done \in Seq(Strings) /\ s.element \in Strings /\ s.comma \in BOOLEAN
  BY DEF QemuStates
<1>2. Append(s.done, s.element) \in Seq(Strings)
  BY <1>1
<1>3. Append(s.element, c) \in Strings /\ Append(s.element, ",") \in Strings /\ <<c>> \in Strings
  <2>1. \A a \in Characters : Append(s.element, a) \in Strings
    BY <1>1 DEF Strings
  <2>2. <<c>> \in Strings
    BY DEF Strings
  <2> QED
    BY <2>1, <2>2, CharactersOfQuoting
<1>4. \A e \in Strings, b \in BOOLEAN :
        /\ [s EXCEPT !.comma = b] \in QemuStates
        /\ [s EXCEPT !.element = e] \in QemuStates
        /\ [s EXCEPT !.comma = b, !.element = e] \in QemuStates
        /\ [done |-> Append(s.done, s.element), element |-> e, comma |-> b] \in QemuStates
  BY <1>1, <1>2 DEF QemuStates
<1>5. CASE s.comma
  BY <1>3, <1>4, <1>5 DEF QemuStep
<1>6. CASE ~s.comma
  BY <1>3, <1>4, <1>6 DEF QemuStep
<1> QED
  BY <1>5, <1>6

QemuReader == [s \in QemuStates |-> [c \in Characters |-> QemuStep(s, c)]]

LEMMA QemuIsReader == QemuReader \in Readers(QemuStates, Characters)
BY QemuStepType DEF QemuReader, Readers

LEMMA QemuRunReads ==
  ASSUME NEW s \in QemuStates, NEW str \in Strings
  PROVE  QemuRun(s, str) = ReadBy(QemuReader, QemuStates, s, str)
<1> DEFINE run[n \in 0 .. Len(str)] == IF n = 0 THEN s ELSE QemuStep(run[n - 1], str[n])
<1>0. str \in Seq(Characters) /\ Len(str) \in Nat /\ \A i \in 1 .. Len(str) : str[i] \in Characters
  BY DEF Strings
<1>1. QemuRun(s, str) = run[Len(str)]
  BY DEF QemuRun, Run
<1>2. run = CHOOSE h : h = [n \in 0 .. Len(str) |-> IF n = 0 THEN s ELSE QemuStep(h[n - 1], str[n])]
  BY DEF run
<1> HIDE DEF run
<1>3. PICK g \in RunsBy(QemuReader, QemuStates, s, str) : TRUE
  BY <1>0, QemuIsReader, RunExists
<1>4. g \in [0 .. Len(str) -> QemuStates] /\ g[0] = s
      /\ \A i \in 1 .. Len(str) : g[i] = QemuReader[g[i - 1]][str[i]]
  BY DEF RunsBy
<1>5. g = [n \in 0 .. Len(str) |-> IF n = 0 THEN s ELSE QemuStep(g[n - 1], str[n])]
  <2>1. ASSUME NEW n \in 0 .. Len(str), n # 0 PROVE g[n] = QemuStep(g[n - 1], str[n])
    <3>1. n \in 1 .. Len(str) /\ n - 1 \in 0 .. Len(str)
      BY <1>0, <2>1
    <3>2. g[n - 1] \in QemuStates /\ str[n] \in Characters
      BY <1>0, <1>4, <3>1
    <3> QED
      BY <1>4, <3>1, <3>2 DEF QemuReader
  <2> QED
    BY <1>4, <2>1
<1>6. run = [n \in 0 .. Len(str) |-> IF n = 0 THEN s ELSE QemuStep(run[n - 1], str[n])]
  BY <1>2, <1>5
<1>7. ASSUME NEW i \in 1 .. Len(str), run[i - 1] \in QemuStates
      PROVE  run[i] = QemuReader[run[i - 1]][str[i]]
  <2>1. i \in 0 .. Len(str) /\ i # 0
    BY <1>0
  <2>2. run[i] = QemuStep(run[i - 1], str[i])
    BY <1>6, <2>1
  <2> QED
    BY <1>0, <1>7, <2>2 DEF QemuReader
<1>8. run[0] = s
  BY <1>0, <1>6
<1> QED
  BY <1>0, <1>1, <1>7, <1>8, QemuIsReader, SameRun

LEMMA QemuRunFacts ==
  /\ \A s \in QemuStates, str \in Strings : QemuRun(s, str) \in QemuStates
  /\ \A s \in QemuStates : QemuRun(s, <<>>) = s
  /\ \A s \in QemuStates, c \in Characters : QemuRun(s, <<c>>) = QemuStep(s, c)
  /\ \A s \in QemuStates, str \in Strings, c \in Characters :
       QemuRun(s, Append(str, c)) = QemuStep(QemuRun(s, str), c)
  /\ \A s \in QemuStates, a \in Strings, b \in Strings : QemuRun(s, a \o b) = QemuRun(QemuRun(s, a), b)
<1>1. ASSUME NEW s \in QemuStates, NEW str \in Strings PROVE QemuRun(s, str) \in QemuStates
  <2>1. ReadBy(QemuReader, QemuStates, s, str) \in QemuStates
    BY QemuIsReader, ReadsInto DEF Strings
  <2> QED
    BY <2>1, QemuRunReads
<1>2. ASSUME NEW s \in QemuStates PROVE QemuRun(s, <<>>) = s
  <2>1. <<>> \in Strings
    BY DEF Strings
  <2> QED
    BY <2>1, QemuRunReads, QemuIsReader, ReadsNothing
<1>3. ASSUME NEW s \in QemuStates, NEW c \in Characters PROVE QemuRun(s, <<c>>) = QemuStep(s, c)
  <2>1. <<c>> \in Strings
    BY DEF Strings
  <2>2. ReadBy(QemuReader, QemuStates, s, <<c>>) = QemuReader[s][c]
    BY QemuIsReader, ReadsOne
  <2> QED
    BY <2>1, <2>2, QemuRunReads DEF QemuReader
<1>4. ASSUME NEW s \in QemuStates, NEW str \in Strings, NEW c \in Characters
      PROVE  QemuRun(s, Append(str, c)) = QemuStep(QemuRun(s, str), c)
  <2>1. Append(str, c) \in Strings
    BY DEF Strings
  <2>2. ReadBy(QemuReader, QemuStates, s, Append(str, c)) = QemuReader[ReadBy(QemuReader, QemuStates, s, str)][c]
    BY QemuIsReader, ReadsMore DEF Strings
  <2>3. QemuRun(s, Append(str, c)) = ReadBy(QemuReader, QemuStates, s, Append(str, c))
        /\ QemuRun(s, str) = ReadBy(QemuReader, QemuStates, s, str)
    BY <2>1, QemuRunReads
  <2>4. QemuReader[QemuRun(s, str)][c] = QemuStep(QemuRun(s, str), c)
    BY <1>1 DEF QemuReader
  <2> QED
    BY <2>2, <2>3, <2>4
<1>5. ASSUME NEW s \in QemuStates, NEW a \in Strings, NEW b \in Strings
      PROVE  QemuRun(s, a \o b) = QemuRun(QemuRun(s, a), b)
  <2>1. a \o b \in Strings
    BY DEF Strings
  <2>2. ReadBy(QemuReader, QemuStates, s, a \o b)
          = ReadBy(QemuReader, QemuStates, ReadBy(QemuReader, QemuStates, s, a), b)
    BY QemuIsReader, ReadsOn DEF Strings
  <2>3. QemuRun(s, a \o b) = ReadBy(QemuReader, QemuStates, s, a \o b)
        /\ QemuRun(s, a) = ReadBy(QemuReader, QemuStates, s, a)
    BY <2>1, QemuRunReads
  <2>4. QemuRun(QemuRun(s, a), b) = ReadBy(QemuReader, QemuStates, QemuRun(s, a), b)
    BY <1>1, QemuRunReads
  <2> QED
    BY <2>2, <2>3, <2>4
<1> QED
  BY <1>1, <1>2, <1>3, <1>4, <1>5

LEMMA QemuSplitType == \A str \in Strings : QemuSplit(str) \in Seq(Strings)
<1> SUFFICES ASSUME NEW str \in Strings PROVE QemuSplit(str) \in Seq(Strings)
  OBVIOUS
<1>1. QemuStart \in QemuStates
  BY DEF QemuStart, QemuStates, Strings
<1>2. QemuRun(QemuStart, str) \in QemuStates
  BY <1>1, QemuRunFacts
<1>3. QemuRun(QemuStart, str).done \in Seq(Strings) /\ QemuRun(QemuStart, str).element \in Strings
  BY <1>2 DEF QemuStates
<1> QED
  BY <1>3 DEF QemuSplit

-----------------------------------------------------------------------------
Words == Seq(Strings)

OptStates == Seq(Opts)

LEMMA OptionStepType ==
  ASSUME NEW os \in OptStates, NEW w \in Strings
  PROVE  OptionStep(os, w) \in OptStates
<1>1. CASE w \in Flags
  <2>1. <<>> \in Seq(Strings)
    OBVIOUS
  <2>2. [flag |-> w, values |-> <<>>] \in Opts
    BY <1>1, <2>1 DEF Opts
  <2> QED
    BY <1>1, <2>2 DEF OptionStep, OptStates
<1>2. CASE w \notin Flags /\ Len(os) = 0
  <2>1. OptionStep(os, w) = [os EXCEPT ![Len(os)].values = @ \o QemuSplit(w)]
    BY <1>2 DEF OptionStep
  <2>2. os = <<>> /\ OptionStep(os, w) = <<>>
    BY <1>2, <2>1 DEF OptStates
  <2> QED
    BY <2>2 DEF OptStates
<1>3. CASE w \notin Flags /\ Len(os) # 0
  <2>1. PICK n : n = Len(os)
    OBVIOUS
  <2>2. n \in 1 .. Len(os) /\ os \in Seq(Opts)
    BY <1>3, <2>1 DEF OptStates
  <2>3. PICK o : o = os[n]
    OBVIOUS
  <2>4. o \in Opts /\ o.values \in Seq(Strings) /\ QemuSplit(w) \in Seq(Strings)
    <3>1. o \in Opts
      BY <2>2, <2>3
    <3>2. w \in Strings
      OBVIOUS
    <3> QED
      BY <3>1, <3>2, QemuSplitType DEF Opts
  <2>5. o.values \o QemuSplit(w) \in Seq(Strings)
    BY <2>4
  <2>6. PICK p : p = [o EXCEPT !.values = o.values \o QemuSplit(w)]
    OBVIOUS
  <2>7. p \in Opts
    BY <2>4, <2>5, <2>6 DEF Opts
  <2>8. OptionStep(os, w) = [os EXCEPT ![n] = p]
    BY <1>3, <2>1, <2>3, <2>6 DEF OptionStep
  <2> QED
    BY <2>2, <2>7, <2>8 DEF OptStates
<1> QED
  BY <1>1, <1>2, <1>3 DEF OptStates

OptionReader == [s \in OptStates |-> [c \in Strings |-> OptionStep(s, c)]]

LEMMA OptionIsReader == OptionReader \in Readers(OptStates, Strings)
BY OptionStepType DEF OptionReader, Readers

LEMMA OptionRunReads ==
  ASSUME NEW s \in OptStates, NEW str \in Words
  PROVE  OptionRun(s, str) = ReadBy(OptionReader, OptStates, s, str)
<1> DEFINE run[n \in 0 .. Len(str)] == IF n = 0 THEN s ELSE OptionStep(run[n - 1], str[n])
<1>0. str \in Seq(Strings) /\ Len(str) \in Nat /\ \A i \in 1 .. Len(str) : str[i] \in Strings
  BY DEF Words
<1>1. OptionRun(s, str) = run[Len(str)]
  BY DEF OptionRun, Run
<1>2. run = CHOOSE h : h = [n \in 0 .. Len(str) |-> IF n = 0 THEN s ELSE OptionStep(h[n - 1], str[n])]
  BY DEF run
<1> HIDE DEF run
<1>3. PICK g \in RunsBy(OptionReader, OptStates, s, str) : TRUE
  BY <1>0, OptionIsReader, RunExists
<1>4. g \in [0 .. Len(str) -> OptStates] /\ g[0] = s
      /\ \A i \in 1 .. Len(str) : g[i] = OptionReader[g[i - 1]][str[i]]
  BY DEF RunsBy
<1>5. g = [n \in 0 .. Len(str) |-> IF n = 0 THEN s ELSE OptionStep(g[n - 1], str[n])]
  <2>1. ASSUME NEW n \in 0 .. Len(str), n # 0 PROVE g[n] = OptionStep(g[n - 1], str[n])
    <3>1. n \in 1 .. Len(str) /\ n - 1 \in 0 .. Len(str)
      BY <1>0, <2>1
    <3>2. g[n - 1] \in OptStates /\ str[n] \in Strings
      BY <1>0, <1>4, <3>1
    <3> QED
      BY <1>4, <3>1, <3>2 DEF OptionReader
  <2> QED
    BY <1>4, <2>1
<1>6. run = [n \in 0 .. Len(str) |-> IF n = 0 THEN s ELSE OptionStep(run[n - 1], str[n])]
  BY <1>2, <1>5
<1>7. ASSUME NEW i \in 1 .. Len(str), run[i - 1] \in OptStates
      PROVE  run[i] = OptionReader[run[i - 1]][str[i]]
  <2>1. i \in 0 .. Len(str) /\ i # 0
    BY <1>0
  <2>2. run[i] = OptionStep(run[i - 1], str[i])
    BY <1>6, <2>1
  <2> QED
    BY <1>0, <1>7, <2>2 DEF OptionReader
<1>8. run[0] = s
  BY <1>0, <1>6
<1> QED
  BY <1>0, <1>1, <1>7, <1>8, OptionIsReader, SameRun

LEMMA OptionReads ==
  /\ \A s \in OptStates, str \in Words : OptionRun(s, str) \in OptStates
  /\ \A s \in OptStates : OptionRun(s, <<>>) = s
  /\ \A s \in OptStates, c \in Strings : OptionRun(s, <<c>>) = OptionStep(s, c)
  /\ \A s \in OptStates, str \in Words, c \in Strings :
       OptionRun(s, Append(str, c)) = OptionStep(OptionRun(s, str), c)
  /\ \A s \in OptStates, a \in Words, b \in Words : OptionRun(s, a \o b) = OptionRun(OptionRun(s, a), b)
<1>1. ASSUME NEW s \in OptStates, NEW str \in Words PROVE OptionRun(s, str) \in OptStates
  <2>1. ReadBy(OptionReader, OptStates, s, str) \in OptStates
    BY OptionIsReader, ReadsInto DEF Words
  <2> QED
    BY <2>1, OptionRunReads
<1>2. ASSUME NEW s \in OptStates PROVE OptionRun(s, <<>>) = s
  <2>1. <<>> \in Words
    BY DEF Words
  <2> QED
    BY <2>1, OptionRunReads, OptionIsReader, ReadsNothing
<1>3. ASSUME NEW s \in OptStates, NEW c \in Strings PROVE OptionRun(s, <<c>>) = OptionStep(s, c)
  <2>1. <<c>> \in Words
    BY DEF Words
  <2>2. ReadBy(OptionReader, OptStates, s, <<c>>) = OptionReader[s][c]
    BY OptionIsReader, ReadsOne
  <2> QED
    BY <2>1, <2>2, OptionRunReads DEF OptionReader
<1>4. ASSUME NEW s \in OptStates, NEW str \in Words, NEW c \in Strings
      PROVE  OptionRun(s, Append(str, c)) = OptionStep(OptionRun(s, str), c)
  <2>1. Append(str, c) \in Words
    BY DEF Words
  <2>2. ReadBy(OptionReader, OptStates, s, Append(str, c)) = OptionReader[ReadBy(OptionReader, OptStates, s, str)][c]
    BY OptionIsReader, ReadsMore DEF Words
  <2>3. OptionRun(s, Append(str, c)) = ReadBy(OptionReader, OptStates, s, Append(str, c))
        /\ OptionRun(s, str) = ReadBy(OptionReader, OptStates, s, str)
    BY <2>1, OptionRunReads
  <2>4. OptionReader[OptionRun(s, str)][c] = OptionStep(OptionRun(s, str), c)
    BY <1>1 DEF OptionReader
  <2> QED
    BY <2>2, <2>3, <2>4
<1>5. ASSUME NEW s \in OptStates, NEW a \in Words, NEW b \in Words
      PROVE  OptionRun(s, a \o b) = OptionRun(OptionRun(s, a), b)
  <2>1. a \o b \in Words
    BY DEF Words
  <2>2. ReadBy(OptionReader, OptStates, s, a \o b)
          = ReadBy(OptionReader, OptStates, ReadBy(OptionReader, OptStates, s, a), b)
    BY OptionIsReader, ReadsOn DEF Words
  <2>3. OptionRun(s, a \o b) = ReadBy(OptionReader, OptStates, s, a \o b)
        /\ OptionRun(s, a) = ReadBy(OptionReader, OptStates, s, a)
    BY <2>1, OptionRunReads
  <2>4. OptionRun(OptionRun(s, a), b) = ReadBy(OptionReader, OptStates, OptionRun(s, a), b)
    BY <1>1, OptionRunReads
  <2> QED
    BY <2>2, <2>3, <2>4
<1> QED
  BY <1>1, <1>2, <1>3, <1>4, <1>5

-----------------------------------------------------------------------------
-----------------------------------------------------------------------------
LEMMA SeqFacts ==
  ASSUME NEW C
  PROVE  /\ <<>> \in Seq(C)
         /\ \A c \in C : <<c>> \in Seq(C) /\ Append(<<>>, c) = <<c>> /\ <<c>>[1] = c
         /\ \A c, d \in C : <<c, d>> \in Seq(C) /\ Append(<<c>>, d) = <<c, d>>
         /\ \A a \in Seq(C) : a \o <<>> = a /\ <<>> \o a = a
         /\ \A a, b \in Seq(C) : a \o b \in Seq(C)
         /\ \A a \in Seq(C), c \in C : /\ Append(a, c) \in Seq(C) /\ Append(a, c) # <<>>
                                       /\ a \o <<c>> = Append(a, c)
                                       /\ a # <<>> => Append(a, c)[1] = a[1]
         /\ \A a, b \in Seq(C), c \in C : a \o Append(b, c) = Append(a \o b, c)
         /\ \A a, b, d \in Seq(C) : (a \o b) \o d = a \o (b \o d)
<1>1. <<>> \in Seq(C)
  OBVIOUS
<1>2. \A c \in C : <<c>> \in Seq(C) /\ Append(<<>>, c) = <<c>> /\ <<c>>[1] = c
  OBVIOUS
<1>3. ASSUME NEW c \in C, NEW d \in C PROVE <<c, d>> \in Seq(C) /\ Append(<<c>>, d) = <<c, d>>
  <2>1. PICK a : a = <<c>>
    OBVIOUS
  <2>2. a \in Seq(C) /\ Len(a) = 1 /\ a[1] = c
    BY <2>1
  <2>3. PICK b : b = Append(a, d)
    OBVIOUS
  <2>4. b \in Seq(C) /\ Len(b) = 2 /\ b[1] = c /\ b[2] = d
    <3>1. b \in Seq(C) /\ Len(b) = Len(a) + 1
      BY ONLY <2>2, <2>3, d \in C
    <3>2. b[1] = a[1]
      BY ONLY <2>2, <2>3, d \in C
    <3>3. b[Len(a) + 1] = d
      <4>1. \A w \in Seq(C) : Append(w, d)[Len(w) + 1] = d
        OBVIOUS
      <4> QED
        BY ONLY <2>2, <2>3, <4>1
    <3>4. b \in Seq(C) /\ Len(b) = 2
      BY ONLY <2>2, <3>1
    <3> QED
      BY ONLY <2>2, <3>2, <3>3, <3>4
  <2>5. b = <<c, d>>
    BY <2>4
  <2> QED
    BY <2>1, <2>3, <2>4, <2>5
<1>4. \A a \in Seq(C) : a \o <<>> = a /\ <<>> \o a = a
  OBVIOUS
<1>5. \A a, b \in Seq(C) : a \o b \in Seq(C)
  OBVIOUS
<1>6. ASSUME NEW a \in Seq(C), NEW c \in C
      PROVE  /\ Append(a, c) \in Seq(C) /\ Append(a, c) # <<>>
             /\ a \o <<c>> = Append(a, c)
             /\ a # <<>> => Append(a, c)[1] = a[1]
  <2>1. Append(a, c) \in Seq(C) /\ Len(Append(a, c)) = Len(a) + 1
    OBVIOUS
  <2>2. a \o <<c>> = Append(a, c)
    OBVIOUS
  <2>3. a # <<>> => 1 \in 1 .. Len(a)
    OBVIOUS
  <2>4. \A i \in 1 .. Len(a) : Append(a, c)[i] = a[i]
    OBVIOUS
  <2>5. Append(a, c) # <<>>
    BY <2>1
  <2> QED
    BY <2>1, <2>2, <2>3, <2>4, <2>5
<1>7. \A a, b \in Seq(C), c \in C : a \o Append(b, c) = Append(a \o b, c)
  OBVIOUS
<1>8. \A a, b, d \in Seq(C) : (a \o b) \o d = a \o (b \o d)
  OBVIOUS
<1> QED
  BY ONLY <1>1, <1>2, <1>3, <1>4, <1>5, <1>6, <1>7, <1>8

LEMMA StringFacts ==
  /\ <<>> \in Strings
  /\ \A c \in Characters : <<c>> \in Strings /\ Append(<<>>, c) = <<c>> /\ <<c>>[1] = c
  /\ \A c, d \in Characters : <<c, d>> \in Strings /\ Append(<<c>>, d) = <<c, d>>
  /\ \A a \in Strings : a \o <<>> = a /\ <<>> \o a = a
  /\ \A a, b \in Strings : a \o b \in Strings
  /\ \A a \in Strings, c \in Characters : /\ Append(a, c) \in Strings /\ Append(a, c) # <<>>
                                          /\ a \o <<c>> = Append(a, c)
                                          /\ a # <<>> => Append(a, c)[1] = a[1]
  /\ \A a, b \in Strings, c \in Characters : a \o Append(b, c) = Append(a \o b, c)
  /\ \A a, b, d \in Strings : (a \o b) \o d = a \o (b \o d)
BY SeqFacts, Zenon DEF Strings

LEMMA Concats ==
  /\ \A a, b \in Strings, c \in Characters : a \o Append(b, c) = Append(a \o b, c)
  /\ \A a, b, d \in Strings : (a \o b) \o d = a \o (b \o d)
BY StringFacts, Zenon

-----------------------------------------------------------------------------
-----------------------------------------------------------------------------
(* Quoting, character by character.                                         *)
Quotings(C, X) == [C -> Seq(X)]

Pieces(P, str) == [i \in 1 .. Len(str) |-> P[str[i]]]

LEMMA PiecesMore ==
  ASSUME NEW X, NEW C, NEW P \in Quotings(C, X), NEW str \in Seq(C)
  PROVE  /\ Pieces(P, <<>>) = <<>>
         /\ Pieces(P, str) \in Seq(Seq(X))
         /\ FlattenSeq(Pieces(P, str)) \in Seq(X)
         /\ \A c \in C : FlattenSeq(Pieces(P, Append(str, c))) = FlattenSeq(Pieces(P, str)) \o P[c]
<1> USE DEF Quotings
<1>0. Pieces(P, <<>>) = <<>>
  BY DEF Pieces
<1>1. Pieces(P, str) \in Seq(Seq(X))
  <2>1. \A i \in 1 .. Len(str) : P[str[i]] \in Seq(X)
    OBVIOUS
  <2> QED
    BY <2>1 DEF Pieces
<1>2. FlattenSeq(Pieces(P, str)) \in Seq(X)
  <2>1. <<>> \in Seq(X)
    OBVIOUS
  <2> QED
    BY <1>1, <2>1, FlattenAppend
<1>3. ASSUME NEW c \in C
      PROVE  FlattenSeq(Pieces(P, Append(str, c))) = FlattenSeq(Pieces(P, str)) \o P[c]
  <2>1. Pieces(P, Append(str, c)) = Append(Pieces(P, str), P[c])
    <3>1. PICK all : all = Append(str, c)
      OBVIOUS
    <3>2. PICK n \in Nat : n = Len(str)
      OBVIOUS
    <3>3. Len(all) = n + 1 /\ all[n + 1] = c /\ \A i \in 1 .. n : all[i] = str[i]
      BY <3>1, <3>2
    <3>4. PICK a : a = Pieces(P, all)
      OBVIOUS
    <3>5. a = [i \in 1 .. n + 1 |-> P[all[i]]]
      BY <3>3, <3>4 DEF Pieces
    <3>6. PICK b : b = Pieces(P, str)
      OBVIOUS
    <3>7. b \in Seq(Seq(X)) /\ Len(b) = n /\ \A i \in 1 .. n : b[i] = P[str[i]]
      BY <1>1, <3>2, <3>6 DEF Pieces
    <3>8. P[c] \in Seq(X)
      OBVIOUS
    <3>9. a \in Seq(Seq(X)) /\ Len(a) = n + 1 /\ a[n + 1] = P[c] /\ \A i \in 1 .. n : a[i] = b[i]
      <4>1. \A i \in 1 .. n + 1 : P[all[i]] \in Seq(X)
        BY <3>1, <3>3
      <4>2. a \in Seq(Seq(X)) /\ Len(a) = n + 1
        BY ONLY <3>5, <4>1, n \in Nat
      <4>3. a[n + 1] = P[c]
        BY ONLY <3>3, <3>5, n \in Nat
      <4>4. ASSUME NEW i \in 1 .. n PROVE a[i] = b[i]
        <5>1. i \in 1 .. n + 1
          BY ONLY n \in Nat, i \in 1 .. n
        <5> QED
          BY ONLY <3>3, <3>5, <3>7, <5>1, i \in 1 .. n
      <4> QED
        BY <4>2, <4>3, <4>4
    <3>10. a = Append(b, P[c])
      BY <3>7, <3>8, <3>9
    <3> QED
      BY <3>1, <3>4, <3>6, <3>10
  <2>2. P[c] \in Seq(X)
    OBVIOUS
  <2> QED
    BY <1>1, <2>1, <2>2, FlattenAppend
<1> QED
  BY <1>0, <1>1, <1>2, <1>3

CommaPiece == [c \in Characters |-> IF c = "," THEN <<",", ",">> ELSE <<c>>]

LEMMA CommaQuoteMore ==
  /\ CommaQuote(<<>>) = <<>>
  /\ \A str \in Strings : CommaQuote(str) \in Strings
  /\ \A str \in Strings, c \in Characters :
       CommaQuote(Append(str, c))
         = CommaQuote(str) \o (IF c = "," THEN <<",", ",">> ELSE <<c>>)
<1>1. CommaPiece \in Quotings(Characters, Characters)
  <2>1. \A c \in Characters : <<c>> \in Seq(Characters) /\ <<c, c>> \in Seq(Characters)
    OBVIOUS
  <2> QED
    BY <2>1 DEF CommaPiece, Quotings
<1>2. ASSUME NEW str \in Strings PROVE CommaQuote(str) = FlattenSeq(Pieces(CommaPiece, str))
  <2>1. [i \in 1 .. Len(str) |-> IF str[i] = "," THEN <<",", ",">> ELSE <<str[i]>>]
          = Pieces(CommaPiece, str)
    <3>1. \A i \in 1 .. Len(str) : str[i] \in Characters
      BY DEF Strings
    <3> QED
      BY <3>1 DEF Pieces, CommaPiece
  <2> QED
    BY <2>1 DEF CommaQuote
<1>3. <<>> \in Strings
  BY DEF Strings
<1>4. CommaQuote(<<>>) = <<>>
  <2>1. Pieces(CommaPiece, <<>>) = <<>>
    BY DEF Pieces
  <2> QED
    BY <1>2, <1>3, <2>1, FlattenNothing
<1>5. ASSUME NEW str \in Strings PROVE CommaQuote(str) \in Strings
  BY <1>1, <1>2, PiecesMore DEF Strings
<1>6. ASSUME NEW str \in Strings, NEW c \in Characters
      PROVE  CommaQuote(Append(str, c)) = CommaQuote(str) \o CommaPiece[c]
  <2>1. Append(str, c) \in Strings /\ str \in Seq(Characters)
    BY DEF Strings
  <2>2. FlattenSeq(Pieces(CommaPiece, Append(str, c)))
          = FlattenSeq(Pieces(CommaPiece, str)) \o CommaPiece[c]
    BY <1>1, <2>1, PiecesMore
  <2> QED
    BY <1>2, <2>1, <2>2
<1> QED
  BY <1>4, <1>5, <1>6 DEF CommaPiece

BackslashPiece == [c \in Characters |-> IF c \in Escaped THEN <<"\\", c>> ELSE <<c>>]

LEMMA BackslashedMore ==
  /\ Backslashed(<<>>) = <<>>
  /\ \A str \in Strings : Backslashed(str) \in Strings
  /\ \A str \in Strings, c \in Characters :
       Backslashed(Append(str, c))
         = Backslashed(str) \o (IF c \in Escaped THEN <<"\\", c>> ELSE <<c>>)
<1>1. BackslashPiece \in Quotings(Characters, Characters)
  <2>1. \A a, c \in Characters : <<c>> \in Seq(Characters) /\ <<a, c>> \in Seq(Characters)
    OBVIOUS
  <2>2. "\\" \in Characters
    BY CharactersOfQuoting
  <2> QED
    BY <2>1, <2>2 DEF BackslashPiece, Quotings
<1>2. ASSUME NEW str \in Strings PROVE Backslashed(str) = FlattenSeq(Pieces(BackslashPiece, str))
  <2>1. [i \in 1 .. Len(str) |-> IF str[i] \in Escaped THEN <<"\\", str[i]>> ELSE <<str[i]>>]
          = Pieces(BackslashPiece, str)
    <3>1. \A i \in 1 .. Len(str) : str[i] \in Characters
      BY DEF Strings
    <3> QED
      BY <3>1 DEF Pieces, BackslashPiece
  <2> QED
    BY <2>1 DEF Backslashed
<1>3. <<>> \in Strings
  BY DEF Strings
<1>4. Backslashed(<<>>) = <<>>
  <2>1. Pieces(BackslashPiece, <<>>) = <<>>
    BY DEF Pieces
  <2> QED
    BY <1>2, <1>3, <2>1, FlattenNothing
<1>5. ASSUME NEW str \in Strings PROVE Backslashed(str) \in Strings
  BY <1>1, <1>2, PiecesMore DEF Strings
<1>6. ASSUME NEW str \in Strings, NEW c \in Characters
      PROVE  Backslashed(Append(str, c)) = Backslashed(str) \o BackslashPiece[c]
  <2>1. Append(str, c) \in Strings /\ str \in Seq(Characters)
    BY DEF Strings
  <2>2. FlattenSeq(Pieces(BackslashPiece, Append(str, c)))
          = FlattenSeq(Pieces(BackslashPiece, str)) \o BackslashPiece[c]
    BY <1>1, <2>1, PiecesMore
  <2> QED
    BY <1>2, <2>1, <2>2
<1> QED
  BY <1>4, <1>5, <1>6 DEF BackslashPiece

LEMMA JoinMore ==
  /\ Join(<<>>) = <<>>
  /\ \A strs \in Seq(Strings) : Join(strs) \in Strings
  /\ \A strs \in Seq(Strings), str \in Strings :
       Join(Append(strs, str)) = IF strs = <<>> THEN str ELSE Join(strs) \o (<<",">> \o str)
<1> DEFINE Parts(strs) == [i \in 1 .. Len(strs) |-> IF i = 1 THEN strs[i] ELSE <<",">> \o strs[i]]
<1>0. \A str \in Strings : <<",">> \o str \in Strings
  <2>1. \A c \in Characters, str \in Strings : <<c>> \o str \in Strings
    BY DEF Strings
  <2> QED
    BY <2>1, CharactersOfQuoting
<1>1. ASSUME NEW strs \in Seq(Strings) PROVE Parts(strs) \in Seq(Strings) /\ Len(Parts(strs)) = Len(strs)
  <2>1. ASSUME NEW i \in 1 .. Len(strs)
        PROVE  (IF i = 1 THEN strs[i] ELSE <<",">> \o strs[i]) \in Strings
    <3>1. strs[i] \in Strings
      OBVIOUS
    <3> QED
      BY <1>0, <3>1
  <2>2. Len(strs) \in Nat
    OBVIOUS
  <2>3. PICK a : a = Parts(strs)
    OBVIOUS
  <2>4. a = [i \in 1 .. Len(strs) |-> IF i = 1 THEN strs[i] ELSE <<",">> \o strs[i]]
    BY <2>3
  <2>5. \A i \in 1 .. Len(strs) : a[i] \in Strings
    BY ONLY <2>1, <2>4
  <2>6. a \in [1 .. Len(strs) -> Strings]
    BY ONLY <2>4, <2>5
  <2>7. a \in Seq(Strings) /\ Len(a) = Len(strs)
    BY ONLY <2>2, <2>6
  <2> QED
    BY <2>3, <2>7
<1>2. ASSUME NEW strs \in Seq(Strings), NEW str \in Strings
      PROVE  Parts(Append(strs, str))
               = Append(Parts(strs), IF strs = <<>> THEN str ELSE <<",">> \o str)
  <2>1. PICK all : all = Append(strs, str)
    OBVIOUS
  <2>2. PICK n \in Nat : n = Len(strs)
    OBVIOUS
  <2>3. /\ all \in Seq(Strings) /\ Len(all) = n + 1 /\ all[n + 1] = str
        /\ \A i \in 1 .. n : all[i] = strs[i]
    BY <2>1, <2>2
  <2>4. PICK a : a = Parts(all)
    OBVIOUS
  <2>5. PICK b : b = Parts(strs)
    OBVIOUS
  <2>6. a \in Seq(Strings) /\ Len(a) = n + 1 /\ b \in Seq(Strings) /\ Len(b) = n
    BY <1>1, <2>2, <2>3, <2>4, <2>5
  <2>7. ASSUME NEW i \in 1 .. n PROVE a[i] = b[i]
    <3>1. a = [k \in 1 .. n + 1 |-> IF k = 1 THEN all[k] ELSE <<",">> \o all[k]]
      BY <2>3, <2>4
    <3>2. b = [k \in 1 .. n |-> IF k = 1 THEN strs[k] ELSE <<",">> \o strs[k]]
      BY <2>2, <2>5
    <3>3. i \in 1 .. n + 1 /\ all[i] = strs[i]
      BY <2>3
    <3> HIDE DEF Parts
    <3>4. a[i] = IF i = 1 THEN all[i] ELSE <<",">> \o all[i]
      BY ONLY <3>1, <3>3
    <3>5. b[i] = IF i = 1 THEN strs[i] ELSE <<",">> \o strs[i]
      BY ONLY <3>2, i \in 1 .. n
    <3> QED
      BY ONLY <3>3, <3>4, <3>5
  <2>8. a[n + 1] = IF n = 0 THEN str ELSE <<",">> \o str
    <3>1. a = [k \in 1 .. n + 1 |-> IF k = 1 THEN all[k] ELSE <<",">> \o all[k]]
      BY <2>3, <2>4
    <3>2. n + 1 \in 1 .. n + 1 /\ (n + 1 = 1 <=> n = 0)
      OBVIOUS
    <3> QED
      BY ONLY <2>3, <3>1, <3>2
  <2>9. n = 0 <=> strs = <<>>
    BY <2>2
  <2>10. PICK x : x = IF strs = <<>> THEN str ELSE <<",">> \o str
    OBVIOUS
  <2>11. x \in Strings /\ a[n + 1] = x
    BY <1>0, <2>8, <2>9, <2>10
  <2> HIDE DEF Parts
  <2>12. a = Append(b, x)
    BY <2>6, <2>7, <2>11
  <2> QED
    BY <2>1, <2>4, <2>5, <2>10, <2>12
<1>3. \A strs : Join(strs) = FlattenSeq(Parts(strs))
  BY DEF Join
<1>4. Join(<<>>) = <<>>
  <2>1. Parts(<<>>) = <<>>
    OBVIOUS
  <2> QED
    BY <1>3, <2>1, FlattenNothing
<1> HIDE DEF Parts
<1>5. ASSUME NEW strs \in Seq(Strings) PROVE Join(strs) \in Strings
  <2>1. <<>> \in Seq(Characters) /\ Parts(strs) \in Seq(Seq(Characters))
    BY <1>1 DEF Strings
  <2>2. FlattenSeq(Parts(strs)) \in Seq(Characters)
    BY <2>1, FlattenAppend
  <2> QED
    BY <1>3, <2>2 DEF Strings
<1>6. ASSUME NEW strs \in Seq(Strings), NEW str \in Strings
      PROVE  Join(Append(strs, str)) = IF strs = <<>> THEN str ELSE Join(strs) \o (<<",">> \o str)
  <2>1. PICK x : x = IF strs = <<>> THEN str ELSE <<",">> \o str
    OBVIOUS
  <2>2. x \in Seq(Characters) /\ Parts(strs) \in Seq(Seq(Characters))
    BY <1>0, <1>1, <2>1 DEF Strings
  <2>3. FlattenSeq(Append(Parts(strs), x)) = FlattenSeq(Parts(strs)) \o x
    BY <2>2, FlattenAppend
  <2>4. Join(Append(strs, str)) = Join(strs) \o x
    BY <1>2, <1>3, <2>1, <2>3
  <2>5. CASE strs = <<>>
    <3>1. Join(strs) = <<>> /\ x = str
      BY <1>4, <2>1, <2>5
    <3>2. <<>> \o str = str
      BY DEF Strings
    <3> QED
      BY <2>4, <2>5, <3>1, <3>2
  <2> QED
    BY <2>1, <2>4, <2>5
<1> QED
  BY <1>4, <1>5, <1>6

-----------------------------------------------------------------------------
-----------------------------------------------------------------------------
(* qemu reads back what has been comma-quoted.                               *)
SplitState(done, element, comma) == [done |-> done, element |-> element, comma |-> comma]

LEMMA SplitSteps ==
  ASSUME NEW d \in Seq(Strings), NEW e \in Strings
  PROVE  /\ SplitState(d, e, FALSE) \in QemuStates /\ SplitState(d, e, TRUE) \in QemuStates
         /\ \A c \in Characters : c # "," =>
              /\ QemuRun(SplitState(d, e, FALSE), <<c>>) = SplitState(d, Append(e, c), FALSE)
              /\ QemuRun(SplitState(d, e, TRUE), <<c>>) = SplitState(Append(d, e), <<c>>, FALSE)
         /\ QemuRun(SplitState(d, e, FALSE), <<",">>) = SplitState(d, e, TRUE)
         /\ QemuRun(SplitState(d, e, FALSE), <<",", ",">>) = SplitState(d, Append(e, ","), FALSE)
<1>1. SplitState(d, e, FALSE) \in QemuStates /\ SplitState(d, e, TRUE) \in QemuStates
  BY DEF SplitState, QemuStates
<1>2. "," \in Characters
  BY CharactersOfQuoting
<1>3. ASSUME NEW c \in Characters, c # ","
      PROVE  /\ QemuStep(SplitState(d, e, FALSE), c) = SplitState(d, Append(e, c), FALSE)
             /\ QemuStep(SplitState(d, e, TRUE), c) = SplitState(Append(d, e), <<c>>, FALSE)
  BY <1>3 DEF QemuStep, SplitState
<1>4. /\ QemuStep(SplitState(d, e, FALSE), ",") = SplitState(d, e, TRUE)
      /\ QemuStep(SplitState(d, e, TRUE), ",") = SplitState(d, Append(e, ","), FALSE)
  BY DEF QemuStep, SplitState
<1>5. QemuRun(SplitState(d, e, FALSE), <<",">>) = SplitState(d, e, TRUE)
  BY <1>1, <1>2, <1>4, QemuRunFacts
<1>6. QemuRun(SplitState(d, e, FALSE), <<",", ",">>) = SplitState(d, Append(e, ","), FALSE)
  <2>1. <<",", ",">> = Append(<<",">>, ",")
    BY <1>2, StringFacts
  <2>2. \A c \in Characters : <<c>> \in Strings
    BY DEF Strings
  <2>3. QemuRun(SplitState(d, e, FALSE), Append(<<",">>, ","))
          = QemuStep(QemuRun(SplitState(d, e, FALSE), <<",">>), ",")
    BY <1>1, <1>2, <2>2, QemuRunFacts
  <2> QED
    BY <1>4, <1>5, <2>1, <2>3
<1> QED
  BY <1>1, <1>3, <1>5, <1>6, QemuRunFacts

LEMMA QemuKeeps ==
  ASSUME NEW d \in Seq(Strings), NEW e \in Strings, NEW v \in Strings
  PROVE  QemuRun(SplitState(d, e, FALSE), CommaQuote(v)) = SplitState(d, e \o v, FALSE)
<1> DEFINE P(str) == QemuRun(SplitState(d, e, FALSE), CommaQuote(str)) = SplitState(d, e \o str, FALSE)
           K == {str \in Strings : P(str)}
<1>1. <<>> \in K
  <2>1. e \o <<>> = e /\ <<>> \in Strings
    BY DEF Strings
  <2>2. CommaQuote(<<>>) = <<>>
    BY CommaQuoteMore
  <2>3. QemuRun(SplitState(d, e, FALSE), <<>>) = SplitState(d, e, FALSE)
    BY SplitSteps, QemuRunFacts
  <2> QED
    BY <2>1, <2>2, <2>3
<1>2. ASSUME NEW str \in Strings, NEW c \in Characters, str \in K PROVE Append(str, c) \in K
  <2>1. PICK x : x = IF c = "," THEN <<",", ",">> ELSE <<c>>
    OBVIOUS
  <2>2. x \in Strings
    <3>1. <<c>> \in Strings /\ <<c, c>> \in Strings
      BY DEF Strings
    <3> QED
      BY <2>1, <3>1
  <2>3. CommaQuote(Append(str, c)) = CommaQuote(str) \o x /\ CommaQuote(str) \in Strings
    BY <2>1, CommaQuoteMore
  <2>4. SplitState(d, e, FALSE) \in QemuStates
    BY SplitSteps
  <2>5. QemuRun(SplitState(d, e, FALSE), CommaQuote(str) \o x)
          = QemuRun(QemuRun(SplitState(d, e, FALSE), CommaQuote(str)), x)
    BY <2>2, <2>3, <2>4, QemuRunFacts
  <2>6. QemuRun(SplitState(d, e, FALSE), CommaQuote(str)) = SplitState(d, e \o str, FALSE)
    BY <1>2
  <2>7. e \o str \in Strings /\ Append(e \o str, c) = e \o Append(str, c) /\ Append(str, c) \in Strings
    BY StringFacts
  <2>8. QemuRun(SplitState(d, e \o str, FALSE), x) = SplitState(d, Append(e \o str, c), FALSE)
    BY <2>1, <2>7, SplitSteps
  <2>9. P(Append(str, c))
    BY <2>3, <2>5, <2>6, <2>7, <2>8
  <2> HIDE DEF P
  <2> QED
    BY <2>7, <2>9
<1>3. Strings \subseteq K
  <2> HIDE DEF K
  <2> QED
    BY <1>1, <1>2, StringInduction DEF Strings
<1> QED
  BY <1>3

(* After a single comma what does not begin with one is another element.     *)
LEMMA QemuBegins ==
  ASSUME NEW d \in Seq(Strings), NEW e \in Strings, NEW v \in Strings, v # <<>>, v[1] # ","
  PROVE  QemuRun(SplitState(d, e, TRUE), CommaQuote(v)) = SplitState(Append(d, e), v, FALSE)
<1> DEFINE P(str) == str # <<>> /\ str[1] # "," =>
                       QemuRun(SplitState(d, e, TRUE), CommaQuote(str)) = SplitState(Append(d, e), str, FALSE)
           K == {str \in Strings : P(str)}
<1>1. <<>> \in K
  BY StringFacts
<1>2. ASSUME NEW str \in Strings, NEW c \in Characters, str \in K PROVE Append(str, c) \in K
  <2>0. Append(str, c) \in Strings
    BY StringFacts
  <2>1. PICK x : x = IF c = "," THEN <<",", ",">> ELSE <<c>>
    OBVIOUS
  <2>2. x \in Strings /\ <<c>> \in Strings
    <3>1. <<c>> \in Strings /\ <<c, c>> \in Strings
      BY StringFacts
    <3> QED
      BY <2>1, <3>1
  <2>3. CommaQuote(Append(str, c)) = CommaQuote(str) \o x /\ CommaQuote(str) \in Strings
    BY <2>1, CommaQuoteMore
  <2>4. SplitState(d, e, TRUE) \in QemuStates /\ Append(d, e) \in Seq(Strings)
    <3>1. Append(d, e) \in Seq(Strings)
      BY SeqFacts
    <3> QED
      BY <3>1, SplitSteps
  <2>5. QemuRun(SplitState(d, e, TRUE), CommaQuote(str) \o x)
          = QemuRun(QemuRun(SplitState(d, e, TRUE), CommaQuote(str)), x)
    BY <2>2, <2>3, <2>4, QemuRunFacts
  <2>6. ASSUME Append(str, c)[1] # ","
        PROVE  QemuRun(SplitState(d, e, TRUE), CommaQuote(Append(str, c)))
                 = SplitState(Append(d, e), Append(str, c), FALSE)
    <3>1. CASE str = <<>>
      <4>1. Append(str, c) = <<c>> /\ c # ","
        BY ONLY <2>6, <3>1, StringFacts, c \in Characters
      <4>2. CommaQuote(str) = <<>> /\ x = <<c>>
        BY <2>1, <3>1, <4>1, CommaQuoteMore
      <4>3. QemuRun(SplitState(d, e, TRUE), <<>>) = SplitState(d, e, TRUE)
        BY <2>4, QemuRunFacts
      <4>4. QemuRun(SplitState(d, e, TRUE), <<c>>) = SplitState(Append(d, e), <<c>>, FALSE)
        BY <4>1, SplitSteps
      <4> QED
        BY <2>3, <2>5, <4>1, <4>2, <4>3, <4>4
    <3>2. CASE str # <<>>
      <4>1. str[1] # ","
        <5>1. Append(str, c)[1] = str[1]
          BY <3>2, StringFacts
        <5> QED
          BY <2>6, <5>1
      <4>2. QemuRun(SplitState(d, e, TRUE), CommaQuote(str)) = SplitState(Append(d, e), str, FALSE)
        BY <1>2, <3>2, <4>1
      <4>3. QemuRun(SplitState(Append(d, e), str, FALSE), x)
              = SplitState(Append(d, e), Append(str, c), FALSE)
        BY <2>1, <2>4, SplitSteps
      <4> QED
        BY <2>3, <2>5, <4>2, <4>3
    <3> QED
      BY <3>1, <3>2
  <2>7. P(Append(str, c))
    BY <2>6
  <2> HIDE DEF P
  <2> QED
    BY <2>0, <2>7
<1>3. Strings \subseteq K
  <2> HIDE DEF K
  <2> QED
    BY <1>1, <1>2, StringInduction DEF Strings
<1> QED
  BY <1>3

CommaQuotes(strs) == [j \in DOMAIN strs |-> CommaQuote(strs[j])]

(* Strings that can be the elements of a list.                               *)
Listable == {str \in Strings : str # <<>> /\ str[1] # ","}

LEMMA ListableType == \A vs \in Seq(Listable) : vs \in Seq(Strings)
<1> SUFFICES ASSUME NEW vs \in Seq(Listable) PROVE vs \in Seq(Strings)
  OBVIOUS
<1>1. \A i \in 1 .. Len(vs) : vs[i] \in Strings
  <2>1. \A i \in 1 .. Len(vs) : vs[i] \in Listable
    OBVIOUS
  <2> QED
    BY <2>1 DEF Listable
<1> QED
  BY <1>1

LEMMA CommaQuotesMore ==
  /\ CommaQuotes(<<>>) = <<>>
  /\ \A strs \in Seq(Strings) : CommaQuotes(strs) \in Seq(Strings)
  /\ \A strs \in Seq(Strings) : CommaQuotes(strs) = <<>> <=> strs = <<>>
  /\ \A strs \in Seq(Strings), str \in Strings :
       CommaQuotes(Append(strs, str)) = Append(CommaQuotes(strs), CommaQuote(str))
<1>1. CommaQuotes(<<>>) = <<>>
  BY DEF CommaQuotes
<1>2. ASSUME NEW strs \in Seq(Strings)
      PROVE  /\ CommaQuotes(strs) \in Seq(Strings) /\ Len(CommaQuotes(strs)) = Len(strs)
             /\ \A j \in 1 .. Len(strs) : CommaQuotes(strs)[j] = CommaQuote(strs[j])
  <2>1. CommaQuotes(strs) = [j \in 1 .. Len(strs) |-> CommaQuote(strs[j])]
    BY DEF CommaQuotes
  <2>2. \A j \in 1 .. Len(strs) : CommaQuote(strs[j]) \in Strings
    <3>1. \A j \in 1 .. Len(strs) : strs[j] \in Strings
      OBVIOUS
    <3> QED
      BY <3>1, CommaQuoteMore
  <2> QED
    BY <2>1, <2>2
<1>3. ASSUME NEW strs \in Seq(Strings) PROVE CommaQuotes(strs) = <<>> <=> strs = <<>>
  <2>1. Len(CommaQuotes(strs)) = 0 <=> CommaQuotes(strs) = <<>>
    BY <1>2
  <2>2. Len(strs) = 0 <=> strs = <<>>
    OBVIOUS
  <2> QED
    BY <1>2, <2>1, <2>2
<1>4. ASSUME NEW strs \in Seq(Strings), NEW str \in Strings
      PROVE  CommaQuotes(Append(strs, str)) = Append(CommaQuotes(strs), CommaQuote(str))
  <2>1. PICK all : all = Append(strs, str)
    OBVIOUS
  <2>2. PICK n \in Nat : n = Len(strs)
    OBVIOUS
  <2>3. /\ all \in Seq(Strings) /\ Len(all) = n + 1 /\ all[n + 1] = str
        /\ \A i \in 1 .. n : all[i] = strs[i]
    BY <2>1, <2>2
  <2>4. PICK a : a = CommaQuotes(all)
    OBVIOUS
  <2>5. PICK b : b = CommaQuotes(strs)
    OBVIOUS
  <2>6. /\ a \in Seq(Strings) /\ Len(a) = n + 1
        /\ \A j \in 1 .. n + 1 : a[j] = CommaQuote(all[j])
    BY <1>2, <2>3, <2>4
  <2>7. b \in Seq(Strings) /\ Len(b) = n /\ \A j \in 1 .. n : b[j] = CommaQuote(strs[j])
    BY <1>2, <2>2, <2>5
  <2>8. a[n + 1] = CommaQuote(str) /\ \A j \in 1 .. n : a[j] = b[j]
    BY <2>3, <2>6, <2>7
  <2>9. CommaQuote(str) \in Strings
    BY CommaQuoteMore
  <2>10. a = Append(b, CommaQuote(str))
    BY <2>6, <2>7, <2>8, <2>9
  <2> QED
    BY <2>1, <2>4, <2>5, <2>10
<1> QED
  BY <1>1, <1>2, <1>3, <1>4

(* A comma-quoted value is one element, and comma-quoted elements that are    *)
(* joined by commas are those elements.                                      *)
LEMMA ValueReadBack == \A v \in Strings : QemuSplit(CommaQuote(v)) = <<v>>
<1> SUFFICES ASSUME NEW v \in Strings PROVE QemuSplit(CommaQuote(v)) = <<v>>
  OBVIOUS
<1>1. <<>> \in Seq(Strings) /\ <<>> \in Strings /\ <<>> \o v = v
  BY DEF Strings
<1>2. QemuRun(SplitState(<<>>, <<>>, FALSE), CommaQuote(v)) = SplitState(<<>>, v, FALSE)
  BY <1>1, QemuKeeps
<1>3. QemuRun(QemuStart, CommaQuote(v)) = SplitState(<<>>, v, FALSE)
  BY <1>2 DEF QemuStart, SplitState
<1>4. Append(<<>>, v) = <<v>>
  OBVIOUS
<1> QED
  BY <1>3, <1>4 DEF QemuSplit, SplitState

LEMMA ListReadBack ==
  \A vs \in Seq(Listable) : vs # <<>> => QemuSplit(Join(CommaQuotes(vs))) = vs
<1> DEFINE S(vs) == QemuRun(QemuStart, Join(CommaQuotes(vs)))
           P(vs) == vs # <<>> => \E d \in Seq(Strings), e \in Strings :
                                   S(vs) = SplitState(d, e, FALSE) /\ Append(d, e) = vs
           K == {vs \in Seq(Listable) : P(vs)}
<1>0. \A vs \in Seq(Listable) : vs \in Seq(Strings)
  BY ListableType
<1>1. <<>> \in K
  OBVIOUS
<1>2. ASSUME NEW vs \in Seq(Listable), NEW v \in Listable, vs \in K PROVE Append(vs, v) \in K
  <2>1. v \in Strings /\ v # <<>> /\ v[1] # "," /\ vs \in Seq(Strings)
    BY <1>0 DEF Listable
  <2>2. PICK q : q = CommaQuotes(vs)
    OBVIOUS
  <2>3. q \in Seq(Strings) /\ (q = <<>> <=> vs = <<>>) /\ CommaQuote(v) \in Strings
        /\ CommaQuotes(Append(vs, v)) = Append(q, CommaQuote(v))
    BY <2>1, <2>2, CommaQuotesMore, CommaQuoteMore
  <2>4. Join(Append(q, CommaQuote(v)))
          = IF q = <<>> THEN CommaQuote(v) ELSE Join(q) \o (<<",">> \o CommaQuote(v))
    BY <2>3, JoinMore
  <2>5. QemuStart = SplitState(<<>>, <<>>, FALSE) /\ <<>> \in Seq(Strings) /\ <<>> \in Strings
    BY DEF QemuStart, SplitState, Strings
  <2>6. P(Append(vs, v))
    <3>1. CASE vs = <<>>
      <4>1. S(Append(vs, v)) = QemuRun(SplitState(<<>>, <<>>, FALSE), CommaQuote(v))
        BY <2>3, <2>4, <2>5, <3>1
      <4>2. QemuRun(SplitState(<<>>, <<>>, FALSE), CommaQuote(v)) = SplitState(<<>>, <<>> \o v, FALSE)
        BY <2>1, <2>5, QemuKeeps
      <4>3. <<>> \o v = v
        BY <2>1, StringFacts
      <4>4. S(Append(vs, v)) = SplitState(<<>>, v, FALSE) /\ Append(<<>>, v) = Append(vs, v)
        BY <3>1, <4>1, <4>2, <4>3
      <4> HIDE DEF S
      <4> QED
        BY <2>1, <2>5, <4>4
    <3>2. CASE vs # <<>>
      <4>1. PICK d \in Seq(Strings), e \in Strings :
              S(vs) = SplitState(d, e, FALSE) /\ Append(d, e) = vs
        BY <1>2, <3>2
      <4>2. Join(q) \in Strings /\ <<",">> \in Strings
        <5>1. \A c \in Characters : <<c>> \in Strings
          BY DEF Strings
        <5> QED
          BY <2>3, <5>1, JoinMore, CharactersOfQuoting
      <4>3. <<",">> \o CommaQuote(v) \in Strings
        BY <2>3, <4>2, StringFacts
      <4>4. QemuStart \in QemuStates
        BY <2>5, SplitSteps
      <4>5. S(Append(vs, v)) = QemuRun(QemuRun(QemuStart, Join(q)), <<",">> \o CommaQuote(v))
        <5>1. QemuRun(QemuStart, Join(q) \o (<<",">> \o CommaQuote(v)))
                = QemuRun(QemuRun(QemuStart, Join(q)), <<",">> \o CommaQuote(v))
          BY <4>2, <4>3, <4>4, QemuRunFacts
        <5> QED
          BY <2>3, <2>4, <3>2, <5>1
      <4>6. QemuRun(QemuStart, Join(q)) = SplitState(d, e, FALSE)
        BY <2>2, <4>1
      <4>7. SplitState(d, e, FALSE) \in QemuStates
        BY SplitSteps
      <4>8. QemuRun(SplitState(d, e, FALSE), <<",">> \o CommaQuote(v))
              = QemuRun(QemuRun(SplitState(d, e, FALSE), <<",">>), CommaQuote(v))
        BY <2>3, <4>2, <4>7, QemuRunFacts
      <4>9. QemuRun(SplitState(d, e, FALSE), <<",">>) = SplitState(d, e, TRUE)
        BY SplitSteps
      <4>10. QemuRun(SplitState(d, e, TRUE), CommaQuote(v)) = SplitState(Append(d, e), v, FALSE)
        BY <2>1, QemuBegins
      <4>11. S(Append(vs, v)) = SplitState(vs, v, FALSE)
        BY <4>1, <4>5, <4>6, <4>8, <4>9, <4>10
      <4> HIDE DEF S
      <4> QED
        BY <2>1, <4>11
    <3> QED
      BY <3>1, <3>2
  <2>7. Append(vs, v) \in Seq(Listable)
    OBVIOUS
  <2> HIDE DEF P
  <2> QED
    BY <2>6, <2>7
<1>3. Seq(Listable) \subseteq K
  <2> HIDE DEF K
  <2> QED
    BY <1>1, <1>2, StringInduction
<1>4. ASSUME NEW vs \in Seq(Listable), vs # <<>> PROVE QemuSplit(Join(CommaQuotes(vs))) = vs
  <2>1. PICK d \in Seq(Strings), e \in Strings : S(vs) = SplitState(d, e, FALSE) /\ Append(d, e) = vs
    BY <1>3, <1>4
  <2>2. S(vs).done = d /\ S(vs).element = e
    BY <2>1 DEF SplitState
  <2> QED
    BY <2>1, <2>2 DEF QemuSplit
<1> QED
  BY <1>4

-----------------------------------------------------------------------------
-----------------------------------------------------------------------------
(* The shell reads back what has been quoted for it.                         *)
ShState(W, w, m) == [words |-> W, word |-> w, mode |-> m, backslash |-> FALSE]

After(m, str) == IF str = <<>> THEN m ELSE "word"

LEMMA ShStateType ==
  ASSUME NEW W \in Seq(Strings), NEW w \in Strings, NEW m \in {"blank", "word", "quoted"},
         m = "blank" => w = <<>>
  PROVE  ShState(W, w, m) \in ShStates
BY DEF ShState, ShStates

LEMMA ShPlainStep ==
  ASSUME NEW W \in Seq(Strings), NEW w \in Strings, NEW m \in {"blank", "word"},
         m = "blank" => w = <<>>, NEW c \in Characters, c \notin Unsafe
  PROVE  ShRun(ShState(W, w, m), <<c>>) = ShState(W, Append(w, c), "word")
<1>1. c # "\\" /\ c # "\"" /\ c # " " /\ c # "\n" /\ c # "$" /\ c # "*"
  BY DEF Unsafe, Escaped
<1>2. ShStep(ShState(W, w, m), c) = Put(ShState(W, w, m), <<c>>)
  BY <1>1 DEF ShStep, ShState
<1>3. w \o <<c>> = Append(w, c)
  BY StringFacts
<1>4. Put(ShState(W, w, m), <<c>>) = ShState(W, Append(w, c), "word")
  BY <1>3 DEF Put, ShState
<1> QED
  BY <1>2, <1>4, ShStateType, ShReads

LEMMA ShQuotedStep ==
  ASSUME NEW W \in Seq(Strings), NEW w \in Strings, NEW c \in Characters
  PROVE  ShRun(ShState(W, w, "quoted"), IF c \in Escaped THEN <<"\\", c>> ELSE <<c>>)
           = ShState(W, Append(w, c), "quoted")
<1> DEFINE s == ShState(W, w, "quoted")
<1>1. s \in ShStates
  BY ShStateType
<1>2. w \o <<c>> = Append(w, c)
  BY StringFacts
<1>3. Put(s, <<c>>) = ShState(W, Append(w, c), "quoted")
  BY <1>2 DEF Put, ShState
<1>4. CASE c \in Escaped
  <2>1. c # "\n" /\ "\\" \in Characters
    BY <1>4, CharactersOfQuoting DEF Escaped
  <2>2. ShStep(s, "\\") = [s EXCEPT !.backslash = TRUE]
    BY DEF ShStep, ShState
  <2>3. PICK t : t = [s EXCEPT !.backslash = TRUE]
    OBVIOUS
  <2>4. t = [words |-> W, word |-> w, mode |-> "quoted", backslash |-> TRUE]
    BY <2>3 DEF ShState
  <2>5. ShStep(t, c) = Put(t, <<c>>)
    BY <1>4, <2>1, <2>4 DEF ShStep
  <2>6. Put(t, <<c>>) = Put(s, <<c>>)
    BY <2>4 DEF Put, ShState
  <2>7. <<"\\", c>> = Append(<<"\\">>, c) /\ <<"\\">> \in Strings
    BY <2>1, StringFacts
  <2>8. ShRun(s, <<"\\">>) = t
    BY <1>1, <2>1, <2>2, <2>3, ShReads
  <2>9. ShRun(s, Append(<<"\\">>, c)) = ShStep(ShRun(s, <<"\\">>), c)
    BY <1>1, <2>7, ShReads
  <2> QED
    BY <1>3, <1>4, <2>5, <2>6, <2>7, <2>8, <2>9
<1>5. CASE c \notin Escaped
  <2>1. c # "\\" /\ c # "\"" /\ c # "$"
    BY <1>5 DEF Escaped
  <2>2. ShStep(s, c) = Put(s, <<c>>)
    BY <2>1 DEF ShStep, ShState
  <2>3. ShRun(s, <<c>>) = ShStep(s, c)
    BY <1>1, ShReads
  <2> QED
    BY <1>3, <1>5, <2>2, <2>3
<1> QED
  BY <1>4, <1>5

LEMMA ShQuoteStep ==
  ASSUME NEW W \in Seq(Strings), NEW w \in Strings, NEW m \in {"blank", "word"}, m = "blank" => w = <<>>
  PROVE  /\ ShRun(ShState(W, w, m), <<"\"">>) = ShState(W, w, "quoted")
         /\ ShRun(ShState(W, w, "quoted"), <<"\"">>) = ShState(W, w, "word")
<1>1. "\"" \in Characters /\ ShState(W, w, m) \in ShStates /\ ShState(W, w, "quoted") \in ShStates
  BY CharactersOfQuoting, ShStateType
<1>2. ShStep(ShState(W, w, m), "\"") = ShState(W, w, "quoted")
  BY DEF ShStep, ShState, WithMode
<1>3. ShStep(ShState(W, w, "quoted"), "\"") = ShState(W, w, "word")
  BY DEF ShStep, ShState, WithMode
<1> QED
  BY <1>1, <1>2, <1>3, ShReads

LEMMA ToSetMore ==
  ASSUME NEW str \in Strings, NEW c \in Characters
  PROVE  ToSet(str) \subseteq ToSet(Append(str, c)) /\ c \in ToSet(Append(str, c))
<1>1. PICK n \in Nat : n = Len(str)
  BY DEF Strings
<1>2. PICK all : all = Append(str, c)
  OBVIOUS
<1>3. Len(all) = n + 1 /\ all[n + 1] = c /\ \A i \in 1 .. n : all[i] = str[i]
  BY <1>1, <1>2 DEF Strings
<1>4. ToSet(str) = {str[i] : i \in 1 .. n} /\ ToSet(all) = {all[i] : i \in 1 .. n + 1}
  <2>1. all \in Seq(Characters) /\ str \in Seq(Characters)
    BY <1>2 DEF Strings
  <2>2. DOMAIN str = 1 .. n /\ DOMAIN all = 1 .. n + 1
    BY <1>1, <1>3, <2>1
  <2> QED
    BY <2>2 DEF ToSet
<1> QED
  BY <1>2, <1>3, <1>4

(* What has only safe characters, and what is between double quotes.         *)
LEMMA ShPlain ==
  ASSUME NEW W \in Seq(Strings), NEW w \in Strings, NEW m \in {"blank", "word"},
         m = "blank" => w = <<>>, NEW v \in Strings, ToSet(v) \cap Unsafe = {}
  PROVE  ShRun(ShState(W, w, m), v) = ShState(W, w \o v, After(m, v))
<1> DEFINE P(str) == ToSet(str) \cap Unsafe = {} =>
                       ShRun(ShState(W, w, m), str) = ShState(W, w \o str, After(m, str))
           K == {str \in Strings : P(str)}
<1>0. ShState(W, w, m) \in ShStates
  BY ShStateType
<1>1. <<>> \in K
  BY <1>0, StringFacts, ShReads DEF After
<1>2. ASSUME NEW str \in Strings, NEW c \in Characters, str \in K PROVE Append(str, c) \in K
  <2>1. ASSUME ToSet(Append(str, c)) \cap Unsafe = {}
        PROVE  ShRun(ShState(W, w, m), Append(str, c))
                 = ShState(W, w \o Append(str, c), After(m, Append(str, c)))
    <3>1. ToSet(str) \subseteq ToSet(Append(str, c)) /\ c \in ToSet(Append(str, c))
      BY ToSetMore
    <3>2. ToSet(str) \cap Unsafe = {} /\ c \notin Unsafe
      BY <2>1, <3>1
    <3>3. ShRun(ShState(W, w, m), str) = ShState(W, w \o str, After(m, str))
      BY <1>2, <3>2
    <3>4. PICK x \in Strings : x = w \o str
      BY StringFacts
    <3>5. PICK k \in {"blank", "word"} : k = After(m, str)
      BY DEF After
    <3>6. k = "blank" => x = <<>>
      <4>1. ASSUME k = "blank" PROVE x = <<>>
        <5>1. str = <<>> /\ m = "blank"
          BY <3>5, <4>1 DEF After
        <5> QED
          BY <3>4, <5>1, StringFacts
      <4> QED
        BY <4>1
    <3>7. ShRun(ShState(W, x, k), <<c>>) = ShState(W, Append(x, c), "word")
      BY <3>2, <3>6, ShPlainStep
    <3>8. ShRun(ShState(W, w, m), Append(str, c)) = ShStep(ShState(W, x, k), c)
      BY <1>0, <3>3, <3>4, <3>5, ShReads
    <3>9. ShRun(ShState(W, x, k), <<c>>) = ShStep(ShState(W, x, k), c)
      <4>1. ShState(W, x, k) \in ShStates
        BY <3>6, ShStateType
      <4> QED
        BY <4>1, ShReads
    <3>10. Append(x, c) = w \o Append(str, c) /\ After(m, Append(str, c)) = "word"
      <4>1. Append(str, c) # <<>>
        BY StringFacts
      <4>2. Append(x, c) = w \o Append(str, c)
        <5>1. w \o Append(str, c) = Append(w \o str, c)
          BY Concats
        <5> QED
          BY <3>4, <5>1
      <4> QED
        BY <4>1, <4>2 DEF After
    <3> QED
      BY <3>7, <3>8, <3>9, <3>10
  <2>2. P(Append(str, c)) /\ Append(str, c) \in Strings
    BY <2>1, StringFacts
  <2> HIDE DEF P
  <2> QED
    BY <2>2
<1>3. Strings \subseteq K
  <2> HIDE DEF K
  <2> QED
    BY <1>1, <1>2, StringInduction DEF Strings
<1> QED
  BY <1>3

LEMMA ShBackslashed ==
  ASSUME NEW W \in Seq(Strings), NEW w \in Strings, NEW v \in Strings
  PROVE  ShRun(ShState(W, w, "quoted"), Backslashed(v)) = ShState(W, w \o v, "quoted")
<1> DEFINE P(str) == ShRun(ShState(W, w, "quoted"), Backslashed(str)) = ShState(W, w \o str, "quoted")
           K == {str \in Strings : P(str)}
<1>0. ShState(W, w, "quoted") \in ShStates
  BY ShStateType
<1>1. <<>> \in K
  BY <1>0, StringFacts, ShReads, BackslashedMore
<1>2. ASSUME NEW str \in Strings, NEW c \in Characters, str \in K PROVE Append(str, c) \in K
  <2>1. PICK x : x = IF c \in Escaped THEN <<"\\", c>> ELSE <<c>>
    OBVIOUS
  <2>2. x \in Strings
    BY <2>1, StringFacts, CharactersOfQuoting
  <2>3. Backslashed(Append(str, c)) = Backslashed(str) \o x /\ Backslashed(str) \in Strings
    BY <2>1, BackslashedMore
  <2>4. ShRun(ShState(W, w, "quoted"), Backslashed(str) \o x)
          = ShRun(ShRun(ShState(W, w, "quoted"), Backslashed(str)), x)
    BY <1>0, <2>2, <2>3, ShReads
  <2>5. ShRun(ShState(W, w, "quoted"), Backslashed(str)) = ShState(W, w \o str, "quoted")
    BY <1>2
  <2>6. w \o str \in Strings /\ Append(w \o str, c) = w \o Append(str, c) /\ Append(str, c) \in Strings
    BY StringFacts
  <2>7. ShRun(ShState(W, w \o str, "quoted"), x) = ShState(W, Append(w \o str, c), "quoted")
    BY <2>1, <2>6, ShQuotedStep
  <2>8. P(Append(str, c))
    BY <2>3, <2>4, <2>5, <2>6, <2>7
  <2> HIDE DEF P
  <2> QED
    BY <2>6, <2>8
<1>3. Strings \subseteq K
  <2> HIDE DEF K
  <2> QED
    BY <1>1, <1>2, StringInduction DEF Strings
<1> QED
  BY <1>3

LEMMA ShDoubleQuoted ==
  ASSUME NEW W \in Seq(Strings), NEW w \in Strings, NEW m \in {"blank", "word"},
         m = "blank" => w = <<>>, NEW v \in Strings
  PROVE  DoubleQuoted(v) \in Strings /\ ShRun(ShState(W, w, m), DoubleQuoted(v)) = ShState(W, w \o v, "word")
<1> DEFINE q == <<"\"">>
<1>1. q \in Strings /\ Backslashed(v) \in Strings
  BY StringFacts, CharactersOfQuoting, BackslashedMore
<1>2. /\ ShState(W, w, m) \in ShStates /\ ShState(W, w, "quoted") \in ShStates /\ w \o v \in Strings
  BY ShStateType, StringFacts
<1>3. ShState(W, w \o v, "quoted") \in ShStates
  BY <1>2, ShStateType
<1>4. ShRun(ShState(W, w, m), q) = ShState(W, w, "quoted")
      /\ ShRun(ShState(W, w \o v, "quoted"), q) = ShState(W, w \o v, "word")
  <2>1. ASSUME NEW x \in Strings PROVE ShRun(ShState(W, x, "quoted"), q) = ShState(W, x, "word")
    <3>1. "word" \in {"blank", "word"} /\ ("word" = "blank" => x = <<>>)
      OBVIOUS
    <3> QED
      BY <3>1, ShQuoteStep
  <2> QED
    BY <1>2, <2>1, ShQuoteStep
<1> HIDE DEF q
<1>5. q \o Backslashed(v) \in Strings /\ (q \o Backslashed(v)) \o q \in Strings
  BY <1>1, StringFacts
<1>6. ShRun(ShState(W, w, m), (q \o Backslashed(v)) \o q)
        = ShRun(ShRun(ShState(W, w, m), q \o Backslashed(v)), q)
  BY <1>1, <1>2, <1>5, ShReads
<1>7. ShRun(ShState(W, w, m), q \o Backslashed(v)) = ShRun(ShRun(ShState(W, w, m), q), Backslashed(v))
  BY <1>1, <1>2, ShReads
<1>8. ShRun(ShState(W, w, "quoted"), Backslashed(v)) = ShState(W, w \o v, "quoted")
  BY ShBackslashed
<1>9. DoubleQuoted(v) = (q \o Backslashed(v)) \o q
  BY <1>1, StringFacts DEF DoubleQuoted, q
<1> QED
  BY <1>4, <1>5, <1>6, <1>7, <1>8, <1>9

-----------------------------------------------------------------------------
LEMMA ShShellQuote ==
  ASSUME NEW W \in Seq(Strings), NEW w \in Strings, NEW m \in {"blank", "word"},
         m = "blank" => w = <<>>, NEW v \in Strings
  PROVE  /\ shell_quote(v) \in Strings
         /\ ShRun(ShState(W, w, m), shell_quote(v)) = ShState(W, w \o v, After(m, v))
<1>1. CASE ToSet(v) \cap Unsafe = {}
  BY <1>1, ShPlain DEF shell_quote
<1>2. CASE ToSet(v) \cap Unsafe # {}
  <2>1. v # <<>>
    BY <1>2 DEF ToSet
  <2> QED
    BY <1>2, <2>1, ShDoubleQuoted DEF shell_quote, After
<1> QED
  BY <1>1, <1>2

LEMMA NoComma == \A v \in Strings : "," \notin ToSet(v) => CommaQuote(v) = v
<1> DEFINE P(str) == "," \notin ToSet(str) => CommaQuote(str) = str
           K == {str \in Strings : P(str)}
<1>1. <<>> \in K
  BY StringFacts, CommaQuoteMore
<1>2. ASSUME NEW str \in Strings, NEW c \in Characters, str \in K PROVE Append(str, c) \in K
  <2>1. ToSet(str) \subseteq ToSet(Append(str, c)) /\ c \in ToSet(Append(str, c))
    BY ToSetMore
  <2>2. CommaQuote(Append(str, c)) = CommaQuote(str) \o (IF c = "," THEN <<",", ",">> ELSE <<c>>)
    BY CommaQuoteMore
  <2>3. str \o <<c>> = Append(str, c) /\ Append(str, c) \in Strings
    BY StringFacts
  <2>4. P(Append(str, c))
    BY <1>2, <2>1, <2>2, <2>3
  <2> HIDE DEF P
  <2> QED
    BY <2>3, <2>4
<1>3. Strings \subseteq K
  <2> HIDE DEF K
  <2> QED
    BY <1>1, <1>2, StringInduction DEF Strings
<1> QED
  BY <1>3

LEMMA ShCommaQuote ==
  ASSUME NEW W \in Seq(Strings), NEW w \in Strings, NEW m \in {"blank", "word"},
         m = "blank" => w = <<>>, NEW v \in Strings
  PROVE  /\ shell_and_comma_quote(v) \in Strings
         /\ ShRun(ShState(W, w, m), shell_and_comma_quote(v))
              = ShState(W, w \o CommaQuote(v), After(m, v))
<1>1. CASE ToSet(v) \cap (Unsafe \cup {","}) = {}
  <2>1. ToSet(v) \cap Unsafe = {} /\ "," \notin ToSet(v)
    BY <1>1
  <2>2. CommaQuote(v) = v
    BY <2>1, NoComma
  <2>3. ShRun(ShState(W, w, m), v) = ShState(W, w \o v, After(m, v))
    BY <2>1, ShPlain
  <2>4. shell_and_comma_quote(v) = v
    BY <1>1 DEF shell_and_comma_quote
  <2> QED
    BY <2>2, <2>3, <2>4
<1>2. CASE ToSet(v) \cap (Unsafe \cup {","}) # {}
  <2>1. v # <<>>
    <3>1. ToSet(<<>>) = {}
      BY DEF ToSet
    <3> QED
      BY <1>2, <3>1
  <2>2. shell_and_comma_quote(v) = DoubleQuoted(CommaQuote(v))
    BY <1>2 DEF shell_and_comma_quote
  <2>3. PICK x \in Strings : x = CommaQuote(v)
    BY CommaQuoteMore
  <2>4. DoubleQuoted(x) \in Strings
        /\ ShRun(ShState(W, w, m), DoubleQuoted(x)) = ShState(W, w \o x, "word")
    BY ShDoubleQuoted
  <2> QED
    BY <2>1, <2>2, <2>3, <2>4 DEF After
<1> QED
  BY <1>1, <1>2

ShellQuotes(strs) == [j \in DOMAIN strs |-> shell_and_comma_quote(strs[j])]

LEMMA ShellQuotesMore ==
  /\ ShellQuotes(<<>>) = <<>>
  /\ \A strs \in Seq(Strings) : ShellQuotes(strs) \in Seq(Strings)
  /\ \A strs \in Seq(Strings) : ShellQuotes(strs) = <<>> <=> strs = <<>>
  /\ \A strs \in Seq(Strings), str \in Strings :
       ShellQuotes(Append(strs, str)) = Append(ShellQuotes(strs), shell_and_comma_quote(str))
<1>0. \A str \in Strings : shell_and_comma_quote(str) \in Strings
  <2>1. "blank" \in {"blank", "word"} /\ ("blank" = "blank" => <<>> = <<>>) /\ <<>> \in Seq(Strings)
        /\ <<>> \in Strings
    BY StringFacts
  <2> QED
    BY <2>1, ShCommaQuote
<1>1. ShellQuotes(<<>>) = <<>>
  BY DEF ShellQuotes
<1>2. ASSUME NEW strs \in Seq(Strings)
      PROVE  /\ ShellQuotes(strs) \in Seq(Strings) /\ Len(ShellQuotes(strs)) = Len(strs)
             /\ \A j \in 1 .. Len(strs) : ShellQuotes(strs)[j] = shell_and_comma_quote(strs[j])
  <2>1. ShellQuotes(strs) = [j \in 1 .. Len(strs) |-> shell_and_comma_quote(strs[j])]
    BY DEF ShellQuotes
  <2>2. \A j \in 1 .. Len(strs) : shell_and_comma_quote(strs[j]) \in Strings
    <3>1. \A j \in 1 .. Len(strs) : strs[j] \in Strings
      OBVIOUS
    <3> QED
      BY <1>0, <3>1
  <2> QED
    BY <2>1, <2>2
<1>3. ASSUME NEW strs \in Seq(Strings) PROVE ShellQuotes(strs) = <<>> <=> strs = <<>>
  <2>1. Len(ShellQuotes(strs)) = 0 <=> ShellQuotes(strs) = <<>>
    BY <1>2
  <2>2. Len(strs) = 0 <=> strs = <<>>
    OBVIOUS
  <2> QED
    BY <1>2, <2>1, <2>2
<1>4. ASSUME NEW strs \in Seq(Strings), NEW str \in Strings
      PROVE  ShellQuotes(Append(strs, str)) = Append(ShellQuotes(strs), shell_and_comma_quote(str))
  <2>1. PICK all : all = Append(strs, str)
    OBVIOUS
  <2>2. PICK n \in Nat : n = Len(strs)
    OBVIOUS
  <2>3. /\ all \in Seq(Strings) /\ Len(all) = n + 1 /\ all[n + 1] = str
        /\ \A i \in 1 .. n : all[i] = strs[i]
    BY <2>1, <2>2
  <2>4. PICK a : a = ShellQuotes(all)
    OBVIOUS
  <2>5. PICK b : b = ShellQuotes(strs)
    OBVIOUS
  <2>6. /\ a \in Seq(Strings) /\ Len(a) = n + 1
        /\ \A j \in 1 .. n + 1 : a[j] = shell_and_comma_quote(all[j])
    BY <1>2, <2>3, <2>4
  <2>7. b \in Seq(Strings) /\ Len(b) = n /\ \A j \in 1 .. n : b[j] = shell_and_comma_quote(strs[j])
    BY <1>2, <2>2, <2>5
  <2>8. a[n + 1] = shell_and_comma_quote(str) /\ \A j \in 1 .. n : a[j] = b[j]
    BY <2>3, <2>6, <2>7
  <2>9. a = Append(b, shell_and_comma_quote(str))
    BY <1>0, <2>6, <2>7, <2>8
  <2> QED
    BY <2>1, <2>4, <2>5, <2>9
<1> QED
  BY <1>1, <1>2, <1>3, <1>4

LEMMA ShComma ==
  ASSUME NEW W \in Seq(Strings), NEW w \in Strings
  PROVE  ShRun(ShState(W, w, "word"), <<",">>) = ShState(W, w \o <<",">>, "word")
<1>1. "," \in Characters /\ "," \notin Unsafe /\ "word" \in {"blank", "word"} /\ ("word" = "blank" => w = <<>>)
  BY CharactersOfQuoting DEF Unsafe, Escaped
<1>2. ShRun(ShState(W, w, "word"), <<",">>) = ShState(W, Append(w, ","), "word")
  BY <1>1, ShPlainStep
<1> QED
  BY <1>1, <1>2, StringFacts

(* The elements of a list are one word to the shell.                         *)
LEMMA ShJoin ==
  ASSUME NEW W \in Seq(Strings), NEW vs \in Seq(Listable)
  PROVE  /\ Join(ShellQuotes(vs)) \in Strings
         /\ ShRun(ShState(W, <<>>, "blank"), Join(ShellQuotes(vs)))
              = ShState(W, Join(CommaQuotes(vs)), After("blank", vs))
<1> DEFINE P(us) == /\ Join(ShellQuotes(us)) \in Strings
                    /\ ShRun(ShState(W, <<>>, "blank"), Join(ShellQuotes(us)))
                         = ShState(W, Join(CommaQuotes(us)), After("blank", us))
           K == {us \in Seq(Listable) : P(us)}
<1>0. ShState(W, <<>>, "blank") \in ShStates
  BY StringFacts, ShStateType
<1>1. <<>> \in K
  <2>1. Join(ShellQuotes(<<>>)) = <<>> /\ Join(CommaQuotes(<<>>)) = <<>>
    BY ShellQuotesMore, CommaQuotesMore, JoinMore
  <2> QED
    BY <1>0, <2>1, StringFacts, ShReads DEF After
<1>2. ASSUME NEW us \in Seq(Listable), NEW v \in Listable, us \in K PROVE Append(us, v) \in K
  <2>1. v \in Strings /\ v # <<>> /\ us \in Seq(Strings) /\ Append(us, v) \in Seq(Listable)
        /\ Append(us, v) # <<>>
    <3>1. v \in Strings /\ v # <<>>
      BY DEF Listable
    <3>2. us \in Seq(Strings)
      BY ListableType
    <3>3. Append(us, v) \in Seq(Listable) /\ Append(us, v) # <<>>
      BY SeqFacts
    <3> QED
      BY <3>1, <3>2, <3>3
  <2>2. PICK q \in Seq(Strings) : q = ShellQuotes(us) /\ (q = <<>> <=> us = <<>>)
        /\ ShellQuotes(Append(us, v)) = Append(q, shell_and_comma_quote(v))
    BY <2>1, ShellQuotesMore
  <2>3. PICK r \in Seq(Strings) : r = CommaQuotes(us) /\ (r = <<>> <=> us = <<>>)
        /\ CommaQuotes(Append(us, v)) = Append(r, CommaQuote(v))
    BY <2>1, CommaQuotesMore
  <2>4. PICK x \in Strings : x = shell_and_comma_quote(v)
    <3>1. "blank" \in {"blank", "word"} /\ ("blank" = "blank" => <<>> = <<>>) /\ <<>> \in Strings
      BY StringFacts
    <3> QED
      BY <2>1, <3>1, ShCommaQuote
  <2>5. PICK y \in Strings : y = CommaQuote(v)
    BY <2>1, CommaQuoteMore
  <2>6. /\ Join(Append(q, x)) = IF us = <<>> THEN x ELSE Join(q) \o (<<",">> \o x)
        /\ Join(Append(r, y)) = IF us = <<>> THEN y ELSE Join(r) \o (<<",">> \o y)
        /\ Join(q) \in Strings /\ Join(r) \in Strings
    BY <2>2, <2>3, JoinMore
  <2>7. \A u \in Strings : ShRun(ShState(W, u, "word"), x) = ShState(W, u \o y, "word")
    <3>1. "word" \in {"blank", "word"} /\ After("word", v) = "word"
      BY DEF After
    <3>2. ASSUME NEW u \in Strings PROVE ShRun(ShState(W, u, "word"), x) = ShState(W, u \o y, "word")
      <4>1. "word" = "blank" => u = <<>>
        OBVIOUS
      <4> QED
        BY <2>1, <2>4, <2>5, <3>1, <4>1, ShCommaQuote
    <3> QED
      BY <3>2
  <2>8. CASE us = <<>>
    <3>1. "blank" \in {"blank", "word"} /\ ("blank" = "blank" => <<>> = <<>>) /\ <<>> \in Strings
      BY StringFacts
    <3>2. ShRun(ShState(W, <<>>, "blank"), x) = ShState(W, <<>> \o y, After("blank", v))
      <4>1. ShRun(ShState(W, <<>>, "blank"), shell_and_comma_quote(v))
              = ShState(W, <<>> \o CommaQuote(v), After("blank", v))
        BY ONLY <2>1, <3>1, W \in Seq(Strings), ShCommaQuote
      <4> QED
        BY <2>4, <2>5, <4>1
    <3>3. <<>> \o y = y
      BY StringFacts
    <3>4. After("blank", v) = "word" /\ After("blank", Append(us, v)) = "word"
      BY <2>1 DEF After
    <3>5. P(Append(us, v))
      BY <2>2, <2>3, <2>4, <2>5, <2>6, <2>8, <3>2, <3>3, <3>4
    <3> HIDE DEF P
    <3> QED
      BY <2>1, <3>5
  <2>9. CASE us # <<>>
    <3>1. ShRun(ShState(W, <<>>, "blank"), Join(q)) = ShState(W, Join(r), "word")
      BY <1>2, <2>2, <2>3, <2>9 DEF After
    <3>2. <<",">> \in Strings /\ <<",">> \o x \in Strings /\ Join(q) \o (<<",">> \o x) \in Strings
      BY <2>6, StringFacts, CharactersOfQuoting
    <3>3. ShRun(ShState(W, <<>>, "blank"), Join(q) \o (<<",">> \o x))
            = ShRun(ShState(W, Join(r), "word"), <<",">> \o x)
      <4>1. ShRun(ShState(W, <<>>, "blank"), Join(q) \o (<<",">> \o x))
              = ShRun(ShRun(ShState(W, <<>>, "blank"), Join(q)), <<",">> \o x)
        BY ONLY <1>0, <2>6, <3>2, ShReads
      <4> QED
        BY <3>1, <4>1
    <3>4. ShState(W, Join(r), "word") \in ShStates
      BY <2>6, ShStateType
    <3>5. ShRun(ShState(W, Join(r), "word"), <<",">> \o x)
            = ShRun(ShRun(ShState(W, Join(r), "word"), <<",">>), x)
      BY <3>2, <3>4, ShReads
    <3>6. ShRun(ShState(W, Join(r), "word"), <<",">>) = ShState(W, Join(r) \o <<",">>, "word")
      BY <2>6, ShComma
    <3>7. Join(r) \o <<",">> \in Strings /\ (Join(r) \o <<",">>) \o y = Join(r) \o (<<",">> \o y)
      <4>1. Join(r) \o <<",">> \in Strings
        BY <2>6, <3>2, StringFacts
      <4>2. \A a, b, d \in Strings : (a \o b) \o d = a \o (b \o d)
        BY Concats
      <4> QED
        BY <2>6, <3>2, <4>1, <4>2, Zenon
    <3>8. ShRun(ShState(W, Join(r) \o <<",">>, "word"), x) = ShState(W, Join(r) \o (<<",">> \o y), "word")
      BY <2>7, <3>7
    <3>9. After("blank", Append(us, v)) = "word"
      BY <2>1 DEF After
    <3>10. P(Append(us, v))
      BY <2>2, <2>3, <2>4, <2>5, <2>6, <2>9, <3>2, <3>3, <3>5, <3>6, <3>8, <3>9
    <3> HIDE DEF P
    <3> QED
      BY <2>1, <3>10
  <2> QED
    BY <2>8, <2>9
<1>3. Seq(Listable) \subseteq K
  <2> HIDE DEF K
  <2> QED
    BY <1>1, <1>2, StringInduction
<1> QED
  BY <1>3

-----------------------------------------------------------------------------
-----------------------------------------------------------------------------
(* The lines of a script.                                                    *)

(* The shell stands after a string with the words ws read.                   *)
Stands(s, ws) ==
  \E W \in Seq(Strings), w \in Strings, m \in {"blank", "word"} :
    /\ m = "blank" => w = <<>>
    /\ s = ShState(W, w, m)
    /\ ws = IF m = "word" THEN Append(W, w) ELSE W

LEMMA StandsType ==
  ASSUME NEW s, NEW ws, Stands(s, ws)
  PROVE  s \in ShStates /\ ws \in Seq(Strings)
<1>1. PICK W \in Seq(Strings), w \in Strings, m \in {"blank", "word"} :
        /\ m = "blank" => w = <<>>
        /\ s = ShState(W, w, m)
        /\ ws = IF m = "word" THEN Append(W, w) ELSE W
  BY DEF Stands
<1>2. s \in ShStates
  BY <1>1, ShStateType
<1>3. Append(W, w) \in Seq(Strings)
  BY SeqFacts
<1> QED
  BY <1>1, <1>2, <1>3

LEMMA StandsAfter ==
  ASSUME NEW W \in Seq(Strings), NEW w \in Strings
  PROVE  Stands(ShState(W, w, "word"), Append(W, w)) /\ Stands(ShState(W, <<>>, "blank"), W)
<1>1. <<>> \in Strings
  BY StringFacts
<1> QED
  BY <1>1 DEF Stands

LEMMA ShSpace ==
  ASSUME NEW s, NEW ws, Stands(s, ws)
  PROVE  /\ ShStep(s, " ") = ShState(ws, <<>>, "blank")
         /\ ShStep(s, "\n") = ShState(ws, <<>>, "blank")
<1>1. PICK W \in Seq(Strings), w \in Strings, m \in {"blank", "word"} :
        /\ m = "blank" => w = <<>>
        /\ s = ShState(W, w, m)
        /\ ws = IF m = "word" THEN Append(W, w) ELSE W
  BY DEF Stands
<1>2. EndOfWord(s) = ShState(ws, <<>>, "blank")
  BY <1>1 DEF EndOfWord, ShState
<1>3. s.mode # "quoted" /\ s.backslash = FALSE
  BY <1>1 DEF ShState
<1> QED
  BY <1>2, <1>3 DEF ShStep

LEMMA AppendAt ==
  /\ \A str \in Strings, c \in Characters :
       Len(Append(str, c)) = Len(str) + 1 /\ Append(str, c)[Len(str) + 1] = c
  /\ \A str \in Strings, c \in Characters, i \in Nat :
       i \in 1 .. Len(str) => Append(str, c)[i] = str[i]
<1>1. \A str \in Strings, c \in Characters :
        Len(Append(str, c)) = Len(str) + 1 /\ Append(str, c)[Len(str) + 1] = c
  BY DEF Strings
<1>2. \A str \in Strings, c \in Characters, i \in Nat :
        i \in 1 .. Len(str) => Append(str, c)[i] = str[i]
  BY DEF Strings
<1> QED
  BY <1>1, <1>2

LEMMA ShNewline ==
  ASSUME NEW s, NEW ws, Stands(s, ws)
  PROVE  Newline \in Strings /\ ShRun(s, Newline) = ShState(ws, <<>>, "blank")
<1>1. " " \in Characters /\ "\\" \in Characters /\ "\n" \in Characters
  BY CharactersOfQuoting
<1>2. s \in ShStates /\ ws \in Seq(Strings)
  BY StandsType
<1>3. PICK b : b = ShState(ws, <<>>, "blank")
  OBVIOUS
<1>4. b \in ShStates /\ Stands(b, ws)
  BY <1>2, <1>3, StringFacts, ShStateType, StandsAfter
<1>5. PICK t : t = [words |-> ws, word |-> <<>>, mode |-> "blank", backslash |-> TRUE]
  OBVIOUS
<1>6. ShStep(b, "\\") = t
  BY <1>3, <1>5 DEF ShStep, ShState
<1>7. ShStep(t, "\n") = b
  BY <1>3, <1>5 DEF ShStep, ShState, WithMode
<1>8. ShStep(b, " ") = b /\ ShStep(s, " ") = b
  BY <1>3, <1>4, ShSpace
<1>9. PICK n1 \in Strings : n1 = <<" ">>
  BY <1>1, StringFacts
<1>10. PICK n2 \in Strings : n2 = Append(n1, "\\")
  BY <1>1, StringFacts
<1>11. PICK n3 \in Strings : n3 = Append(n2, "\n")
  BY <1>1, StringFacts
<1>12. PICK n4 \in Strings : n4 = Append(n3, " ")
  BY <1>1, StringFacts
<1>13. ShRun(s, n1) = b
  BY <1>1, <1>2, <1>8, <1>9, ShReads
<1>14. ShRun(s, n2) = t
  BY <1>1, <1>2, <1>6, <1>10, <1>13, ShReads
<1>15. ShRun(s, n3) = b
  BY <1>1, <1>2, <1>7, <1>11, <1>14, ShReads
<1>16. ShRun(s, n4) = b
  <2>1. ShRun(s, Append(n3, " ")) = ShStep(ShRun(s, n3), " ")
    BY <1>1, <1>2, ShReads
  <2> QED
    BY <1>8, <1>12, <1>15, <2>1
<1>17. n4 = Newline
  <2>1. Len(n1) = 1 /\ n1[1] = " "
    BY <1>9
  <2>2. Len(n2) = 2 /\ n2[2] = "\\" /\ n2[1] = n1[1]
    <3>1. Len(n2) = Len(n1) + 1 /\ n2[Len(n1) + 1] = "\\"
      BY <1>1, <1>10, AppendAt
    <3>2. \A i \in Nat : i \in 1 .. Len(n1) => n2[i] = n1[i]
      BY <1>1, <1>10, AppendAt
    <3>3. 1 + 1 = 2 /\ 1 \in Nat /\ 1 \in 1 .. 1
      OBVIOUS
    <3> QED
      BY ONLY <2>1, <3>1, <3>2, <3>3
  <2>3. Len(n3) = 3 /\ n3[3] = "\n" /\ n3[1] = n2[1] /\ n3[2] = n2[2]
    <3>1. Len(n3) = Len(n2) + 1 /\ n3[Len(n2) + 1] = "\n"
      BY <1>1, <1>11, AppendAt
    <3>2. \A i \in Nat : i \in 1 .. Len(n2) => n3[i] = n2[i]
      BY <1>1, <1>11, AppendAt
    <3>3. 2 + 1 = 3 /\ 1 \in Nat /\ 1 \in 1 .. 2 /\ 2 \in Nat /\ 2 \in 1 .. 2
      OBVIOUS
    <3> QED
      BY ONLY <2>2, <3>1, <3>2, <3>3
  <2>4. Len(n4) = 4 /\ n4[4] = " " /\ n4[1] = n3[1] /\ n4[2] = n3[2] /\ n4[3] = n3[3]
    <3>1. Len(n4) = Len(n3) + 1 /\ n4[Len(n3) + 1] = " "
      BY <1>1, <1>12, AppendAt
    <3>2. \A i \in Nat : i \in 1 .. Len(n3) => n4[i] = n3[i]
      BY <1>1, <1>12, AppendAt
    <3>3. 3 + 1 = 4 /\ 1 \in Nat /\ 1 \in 1 .. 3 /\ 2 \in Nat /\ 2 \in 1 .. 3 /\ 3 \in Nat /\ 3 \in 1 .. 3
      OBVIOUS
    <3> QED
      BY ONLY <2>3, <3>1, <3>2, <3>3
  <2>5. n4[1] = " " /\ n4[2] = "\\" /\ n4[3] = "\n" /\ n4[4] = " "
    BY ONLY <2>1, <2>2, <2>3, <2>4
  <2>6. /\ Newline \in Seq(Characters) /\ Len(Newline) = 4
        /\ Newline[1] = " " /\ Newline[2] = "\\" /\ Newline[3] = "\n" /\ Newline[4] = " "
    <3>1. \A a, c, d \in Characters : LET q == <<a, c, d, a>>
                                      IN  /\ q \in Seq(Characters) /\ Len(q) = 4
                                          /\ q[1] = a /\ q[2] = c /\ q[3] = d /\ q[4] = a
      OBVIOUS
    <3> QED
      BY <1>1, <3>1 DEF Newline
  <2>7. n4 \in Seq(Characters) /\ Len(n4) = 4
    BY <2>4 DEF Strings
  <2>8. ASSUME NEW i \in 1 .. 4 PROVE n4[i] = Newline[i]
    <3>1. i = 1 \/ i = 2 \/ i = 3 \/ i = 4
      OBVIOUS
    <3> QED
      BY ONLY <2>5, <2>6, <3>1
  <2>9. \A p, q \in Seq(Characters) : Len(p) = 4 /\ Len(q) = 4 /\ (\A i \in 1 .. 4 : p[i] = q[i]) => p = q
    OBVIOUS
  <2> QED
    BY ONLY <2>6, <2>7, <2>8, <2>9
<1> QED
  BY <1>3, <1>16, <1>17

(* What the shell has read before stays as it is.                            *)
Lift(W, s) == [words |-> W \o s.words, word |-> s.word, mode |-> s.mode, backslash |-> s.backslash]

LEMMA ShLift ==
  ASSUME NEW W \in Seq(Strings), NEW s \in ShStates, NEW str \in Strings
  PROVE  ShRun(Lift(W, s), str) = Lift(W, ShRun(s, str))
<1>1. ASSUME NEW t \in ShStates PROVE Lift(W, t) \in ShStates
  <2>1. W \o t.words \in Seq(Strings)
    BY SeqFacts DEF ShStates
  <2> QED
    BY <2>1 DEF Lift, ShStates
<1>2. ASSUME NEW t \in ShStates, NEW c \in Characters PROVE ShStep(Lift(W, t), c) = Lift(W, ShStep(t, c))
  <2>1. t.words \in Seq(Strings) /\ t.word \in Strings
    BY DEF ShStates
  <2>2. W \o Append(t.words, t.word) = Append(W \o t.words, t.word)
    BY <2>1, SeqFacts
  <2>3. \A m : WithMode(Lift(W, t), m) = Lift(W, WithMode(t, m))
    BY DEF WithMode, Lift
  <2>4. \A x : Put(Lift(W, t), x) = Lift(W, Put(t, x))
    BY DEF Put, Lift
  <2>5. EndOfWord(Lift(W, t)) = Lift(W, EndOfWord(t))
    BY <2>2 DEF EndOfWord, Lift
  <2>6. t = [words |-> t.words, word |-> t.word, mode |-> t.mode, backslash |-> t.backslash]
    BY DEF ShStates
  <2>7. [Lift(W, t) EXCEPT !.backslash = TRUE] = Lift(W, [t EXCEPT !.backslash = TRUE])
    <3>1. PICK p : p = [t EXCEPT !.backslash = TRUE]
      OBVIOUS
    <3>2. p = [words |-> t.words, word |-> t.word, mode |-> t.mode, backslash |-> TRUE]
      BY <2>6, <3>1
    <3>3. Lift(W, p) = [words |-> W \o t.words, word |-> t.word, mode |-> t.mode, backslash |-> TRUE]
      BY <3>2 DEF Lift
    <3>4. PICK l : l = Lift(W, t)
      OBVIOUS
    <3>5. l = [words |-> W \o t.words, word |-> t.word, mode |-> t.mode, backslash |-> t.backslash]
      BY <3>4 DEF Lift
    <3>6. l = [words |-> l.words, word |-> l.word, mode |-> l.mode, backslash |-> l.backslash]
          /\ l.words = W \o t.words /\ l.word = t.word /\ l.mode = t.mode
      BY <3>5
    <3>7. PICK q : q = [l EXCEPT !.backslash = TRUE]
      OBVIOUS
    <3>8. q = [words |-> l.words, word |-> l.word, mode |-> l.mode, backslash |-> TRUE]
      BY <3>6, <3>7
    <3> QED
      BY <3>1, <3>3, <3>4, <3>6, <3>7, <3>8
  <2>8. Lift(W, t).mode = t.mode /\ Lift(W, t).backslash = t.backslash
    BY DEF Lift
  <2>9. CASE t.backslash
    BY <2>3, <2>4, <2>8, <2>9 DEF ShStep
  <2>10. CASE ~t.backslash
    BY <2>3, <2>4, <2>5, <2>7, <2>8, <2>10 DEF ShStep
  <2> QED
    BY <2>9, <2>10
<1> DEFINE P(x) == ShRun(Lift(W, s), x) = Lift(W, ShRun(s, x))
           K == {x \in Strings : P(x)}
<1>3. <<>> \in K
  BY <1>1, StringFacts, ShReads
<1>4. ASSUME NEW x \in Strings, NEW c \in Characters, x \in K PROVE Append(x, c) \in K
  <2>1. ShRun(s, x) \in ShStates /\ Lift(W, s) \in ShStates /\ Append(x, c) \in Strings
    BY <1>1, ShReads, StringFacts
  <2>2. ShRun(Lift(W, s), Append(x, c)) = ShStep(ShRun(Lift(W, s), x), c)
    BY <2>1, ShReads
  <2>3. ShRun(s, Append(x, c)) = ShStep(ShRun(s, x), c)
    BY ShReads
  <2>4. P(Append(x, c))
    BY <1>2, <1>4, <2>1, <2>2, <2>3
  <2> HIDE DEF P
  <2> QED
    BY <2>1, <2>4
<1>5. Strings \subseteq K
  <2> HIDE DEF K
  <2> QED
    BY <1>3, <1>4, StringInduction DEF Strings
<1> QED
  BY <1>5

(* What the client has quoted to its end is read as it is by itself.         *)
LEMMA ShComplete ==
  ASSUME NEW W \in Seq(Strings), NEW u \in Strings, Complete(u)
  PROVE  Sh(u) \in Seq(Strings) /\ Stands(ShRun(ShState(W, <<>>, "blank"), u), W \o Sh(u))
<1>1. ShStart \in ShStates /\ <<>> \in Seq(Strings)
  BY DEF ShStart, ShStates, Strings
<1>2. PICK s \in ShStates : s = ShRun(ShStart, u)
  BY <1>1, ShReads
<1>3. PICK V \in Seq(Strings), v \in Strings, m \in {"blank", "word"} :
        s = ShState(V, v, m) /\ (m = "blank" => v = <<>>)
  <2>1. s.mode # "quoted" /\ s.backslash = FALSE
    BY <1>2 DEF Complete, ShStates
  <2>2. s = ShState(s.words, s.word, s.mode)
    BY <2>1 DEF ShState, ShStates
  <2> QED
    BY <2>1, <2>2 DEF ShStates
<1>4. PICK ws : ws = IF m = "word" THEN Append(V, v) ELSE V
  OBVIOUS
<1>5. Stands(s, ws)
  BY <1>3, <1>4 DEF Stands
<1>6. ShStep(s, "\n") = ShState(ws, <<>>, "blank") /\ ws \in Seq(Strings)
  BY <1>5, ShSpace, StandsType
<1>7. Sh(u) = ws
  BY <1>2, <1>6 DEF Sh, ShState
<1>8. ShState(W, <<>>, "blank") = Lift(W, ShStart)
  <2>1. W \o <<>> = W
    BY SeqFacts
  <2> QED
    BY <2>1 DEF ShState, Lift, ShStart
<1>9. ShRun(ShState(W, <<>>, "blank"), u) = Lift(W, s)
  BY <1>1, <1>2, <1>8, ShLift
<1>10. Lift(W, s) = ShState(W \o V, v, m)
  BY <1>3 DEF Lift, ShState
<1>11. W \o V \in Seq(Strings)
  BY SeqFacts
<1>12. W \o ws = IF m = "word" THEN Append(W \o V, v) ELSE W \o V
  <2>1. W \o Append(V, v) = Append(W \o V, v)
    BY SeqFacts
  <2> QED
    BY <1>4, <2>1
<1>13. Stands(ShState(W \o V, v, m), W \o ws)
  BY <1>3, <1>11, <1>12 DEF Stands
<1> QED
  BY <1>6, <1>7, <1>9, <1>10, <1>13

-----------------------------------------------------------------------------
-----------------------------------------------------------------------------
(* The options that the calls make.                                          *)
Kinds == {"FLAG", "ARG", "ARG_NOQUOTE", "RAW", "ARG_LIST"}

Qopts == [type : Kinds, flag : Flags \cup {<<>>}, value : Values \cup Unquoted \cup Raws \cup {<<>>},
          values : Seq(Elements)]

Proper ==
  {o \in Qopts : /\ o.type = "RAW" => o.value \in Raws
                 /\ o.type # "RAW" => o.flag \in Flags
                 /\ o.type = "ARG" => o.value \in Values
                 /\ o.type = "ARG_NOQUOTE" => o.value \in Unquoted
                 /\ o.type = "FLAG" => o.values = <<>>}

LEMMA ProperFacts ==
  ASSUME NEW o \in Proper
  PROVE  /\ o.type \in Kinds
         /\ o.type = "RAW" => o.value \in Raws /\ o.value \in Strings /\ Complete(o.value)
         /\ o.type # "RAW" => o.flag \in Flags /\ o.flag \in Strings /\ o.flag # <<>>
                              /\ ToSet(o.flag) \cap Unsafe = {}
         /\ o.type = "ARG" => o.value \in Values /\ o.value \in Strings
         /\ o.type = "ARG_NOQUOTE" => o.value \in Unquoted /\ o.value \in Strings /\ Complete(o.value)
         /\ o.values \in Seq(Listable) /\ o.values \in Seq(Elements)
         /\ o.type = "FLAG" => o.values = <<>>
<1>1. /\ \A f \in Flags : f \in Strings /\ f # <<>> /\ ToSet(f) \cap Unsafe = {}
      /\ \A u \in Unquoted \cup Raws : Complete(u) /\ u \in Strings
      /\ \A v \in Values : v \in Strings
      /\ \A e \in Elements : e \in Listable
  BY StringsAssumption, QemuoptsAssumption DEF StringsAssumption, QemuoptsAssumption, Listable, Strings
<1>2. /\ o.type \in Kinds
      /\ o.type = "RAW" => o.value \in Raws
      /\ o.type # "RAW" => o.flag \in Flags
      /\ o.type = "ARG" => o.value \in Values
      /\ o.type = "ARG_NOQUOTE" => o.value \in Unquoted
      /\ o.values \in Seq(Elements)
      /\ o.type = "FLAG" => o.values = <<>>
  BY DEF Proper, Qopts
<1>3. o.values \in Seq(Listable)
  BY <1>1, <1>2
<1> QED
  BY ONLY <1>1, <1>2, <1>3

(* The words that the shell makes of an option.                              *)
ShellWords(o) ==
  CASE o.type = "FLAG"        -> <<o.flag>>
    [] o.type = "ARG_NOQUOTE" -> <<o.flag>> \o Sh(o.value)
    [] o.type = "ARG"         -> <<o.flag, CommaQuote(o.value)>>
    [] o.type = "ARG_LIST"    ->
         IF o.values = <<>> THEN <<o.flag>> ELSE <<o.flag, Join(CommaQuotes(o.values))>>
    [] o.type = "RAW"         -> Sh(o.value)

LEMMA ShFlag ==
  ASSUME NEW W \in Seq(Strings), NEW f \in Flags
  PROVE  /\ f \in Strings
         /\ ShRun(ShState(W, <<>>, "blank"), f) = ShState(W, f, "word")
         /\ \A x \in Strings : /\ f \o <<" ">> \o x \in Strings
                               /\ ShRun(ShState(W, <<>>, "blank"), f \o <<" ">> \o x)
                                    = ShRun(ShState(Append(W, f), <<>>, "blank"), x)
<1>1. f \in Strings /\ f # <<>> /\ ToSet(f) \cap Unsafe = {}
  BY StringsAssumption DEF StringsAssumption, Strings
<1>2. <<>> \in Strings /\ <<>> \o f = f /\ <<" ">> \in Strings /\ " " \in Characters
  BY <1>1, StringFacts, CharactersOfQuoting
<1>3. ShRun(ShState(W, <<>>, "blank"), f) = ShState(W, f, "word")
  <2>1. ShRun(ShState(W, <<>>, "blank"), f) = ShState(W, <<>> \o f, After("blank", f))
    BY <1>1, <1>2, ShPlain
  <2> QED
    BY <1>1, <1>2, <2>1 DEF After
<1>4. ShState(W, <<>>, "blank") \in ShStates /\ ShState(W, f, "word") \in ShStates
  BY <1>1, <1>2, ShStateType
<1>5. ShRun(ShState(W, f, "word"), <<" ">>) = ShState(Append(W, f), <<>>, "blank")
  <2>1. Stands(ShState(W, f, "word"), Append(W, f))
    BY <1>1, StandsAfter
  <2>2. ShStep(ShState(W, f, "word"), " ") = ShState(Append(W, f), <<>>, "blank")
    BY <2>1, ShSpace
  <2> QED
    BY <1>2, <1>4, <2>2, ShReads
<1>6. f \o <<" ">> \in Strings
  BY <1>1, <1>2, StringFacts
<1>7. ShRun(ShState(W, <<>>, "blank"), f \o <<" ">>) = ShState(Append(W, f), <<>>, "blank")
  <2>1. ShRun(ShState(W, <<>>, "blank"), f \o <<" ">>)
          = ShRun(ShRun(ShState(W, <<>>, "blank"), f), <<" ">>)
    BY <1>1, <1>2, <1>4, ShReads
  <2> QED
    BY <1>3, <1>5, <2>1
<1>8. ASSUME NEW x \in Strings
      PROVE  /\ (f \o <<" ">>) \o x \in Strings
             /\ ShRun(ShState(W, <<>>, "blank"), (f \o <<" ">>) \o x)
                  = ShRun(ShState(Append(W, f), <<>>, "blank"), x)
  <2>1. (f \o <<" ">>) \o x \in Strings
    BY <1>6, StringFacts
  <2>2. ShRun(ShState(W, <<>>, "blank"), (f \o <<" ">>) \o x)
          = ShRun(ShRun(ShState(W, <<>>, "blank"), f \o <<" ">>), x)
    BY <1>4, <1>6, ShReads
  <2> QED
    BY <1>7, <2>1, <2>2
<1> QED
  BY <1>1, <1>3, <1>8

LEMMA LineRead ==
  ASSUME NEW s, NEW ws, Stands(s, ws), NEW o \in Proper, o.type = "ARG" => o.value # <<>>
  PROVE  /\ ScriptLine(o) \in Strings /\ ShellWords(o) \in Words
         /\ Stands(ShRun(s, ScriptLine(o)), ws \o ShellWords(o))
<1>1. s \in ShStates /\ ws \in Seq(Strings)
  BY StandsType
<1>2. PICK b : b = ShState(ws, <<>>, "blank")
  OBVIOUS
<1>3. Newline \in Strings /\ ShRun(s, Newline) = b /\ b \in ShStates
  BY <1>1, <1>2, ShNewline, ShStateType, StringFacts
<1>4. ASSUME NEW x \in Strings
      PROVE  Newline \o x \in Strings /\ ShRun(s, Newline \o x) = ShRun(b, x)
  <2>1. Newline \o x \in Strings
    BY <1>3, StringFacts
  <2>2. ShRun(s, Newline \o x) = ShRun(ShRun(s, Newline), x)
    BY <1>1, <1>3, ShReads
  <2> QED
    BY <1>3, <2>1, <2>2
<1>5. o.type \in Kinds
  BY ProperFacts
<1>6. ASSUME o.type # "RAW"
      PROVE  /\ o.flag \in Flags /\ o.flag \in Strings /\ Append(ws, o.flag) \in Seq(Strings)
             /\ Append(ws, o.flag) = ws \o <<o.flag>>
  BY <1>1, <1>6, ProperFacts, SeqFacts
<1>7. \A W \in Seq(Strings), e \in Strings, g \in Strings :
        /\ <<g, e>> \in Words /\ <<g>> \in Words
        /\ Append(Append(W, g), e) = W \o <<g, e>>
        /\ \A V \in Seq(Strings) : /\ <<g>> \o V \in Words
                                   /\ Append(W, g) \o V = W \o (<<g>> \o V)
  <2>1. ASSUME NEW W \in Seq(Strings), NEW e \in Strings, NEW g \in Strings
        PROVE  /\ <<g, e>> \in Words /\ <<g>> \in Words
               /\ Append(Append(W, g), e) = W \o <<g, e>>
    <3>1. <<g>> \in Seq(Strings) /\ <<g, e>> \in Seq(Strings) /\ Append(<<g>>, e) = <<g, e>>
      BY SeqFacts
    <3>2. W \o Append(<<g>>, e) = Append(W \o <<g>>, e) /\ W \o <<g>> = Append(W, g)
      BY <3>1, SeqFacts
    <3> QED
      BY <3>1, <3>2 DEF Words
  <2>2. ASSUME NEW W \in Seq(Strings), NEW g \in Strings, NEW V \in Seq(Strings)
        PROVE  <<g>> \o V \in Words /\ Append(W, g) \o V = W \o (<<g>> \o V)
    <3>1. <<g>> \in Seq(Strings) /\ W \o <<g>> = Append(W, g)
      BY SeqFacts
    <3>2. (W \o <<g>>) \o V = W \o (<<g>> \o V) /\ <<g>> \o V \in Seq(Strings)
      BY <3>1, SeqFacts
    <3> QED
      BY <3>1, <3>2 DEF Words
  <2> QED
    BY <2>1, <2>2
<1>8. CASE o.type = "FLAG"
  <2>1. ScriptLine(o) = Newline \o o.flag /\ ShellWords(o) = <<o.flag>>
    BY <1>8 DEF ScriptLine, ShellWords
  <2>2. ShRun(b, o.flag) = ShState(ws, o.flag, "word")
    BY <1>1, <1>2, <1>6, <1>8, ShFlag
  <2>3. Stands(ShState(ws, o.flag, "word"), Append(ws, o.flag))
    BY <1>1, <1>6, <1>8, StandsAfter
  <2>4. Newline \o o.flag \in Strings /\ ShRun(s, Newline \o o.flag) = ShState(ws, o.flag, "word")
    BY <1>4, <1>6, <1>8, <2>2
  <2>5. Append(ws, o.flag) = ws \o <<o.flag>> /\ <<o.flag>> \in Words
    BY <1>1, <1>6, <1>7, <1>8
  <2> QED
    BY <2>1, <2>3, <2>4, <2>5
<1>9. CASE o.type = "ARG"
  <2>1. PICK x : x = shell_and_comma_quote(o.value)
    OBVIOUS
  <2>2. ScriptLine(o) = Newline \o (o.flag \o <<" ">> \o x) /\ ShellWords(o) = <<o.flag, CommaQuote(o.value)>>
    BY <1>9, <2>1 DEF ScriptLine, ShellWords
  <2>3. o.value \in Strings /\ CommaQuote(o.value) \in Strings
    BY <1>9, ProperFacts, CommaQuoteMore
  <2>4. PICK W : W = Append(ws, o.flag)
    OBVIOUS
  <2>5. W \in Seq(Strings)
    BY <1>6, <1>9, <2>4
  <2>6. x \in Strings /\ ShRun(ShState(W, <<>>, "blank"), x) = ShState(W, CommaQuote(o.value), "word")
    <3>1. <<>> \in Strings /\ <<>> \o CommaQuote(o.value) = CommaQuote(o.value)
      BY <2>3, StringFacts
    <3>2. x \in Strings
          /\ ShRun(ShState(W, <<>>, "blank"), x)
               = ShState(W, <<>> \o CommaQuote(o.value), After("blank", o.value))
      BY <2>1, <2>3, <2>5, <3>1, ShCommaQuote
    <3> QED
      BY <1>9, <3>1, <3>2 DEF After
  <2>7. Stands(ShState(W, CommaQuote(o.value), "word"), Append(W, CommaQuote(o.value)))
    BY <2>3, <2>5, StandsAfter
  <2>8. /\ o.flag \o <<" ">> \o x \in Strings
        /\ ShRun(b, o.flag \o <<" ">> \o x) = ShRun(ShState(W, <<>>, "blank"), x)
    BY <1>1, <1>2, <1>6, <1>9, <2>4, <2>6, ShFlag
  <2>9. Append(W, CommaQuote(o.value)) = ws \o <<o.flag, CommaQuote(o.value)>>
        /\ <<o.flag, CommaQuote(o.value)>> \in Words
    BY <1>1, <1>6, <1>7, <1>9, <2>3, <2>4
  <2> QED
    BY <1>4, <2>2, <2>6, <2>7, <2>8, <2>9
<1>10. CASE o.type = "ARG_LIST"
  <2>1. PICK x : x = Join(ShellQuotes(o.values))
    OBVIOUS
  <2>2. ScriptLine(o) = Newline \o (o.flag \o <<" ">> \o x)
    BY <1>10, <2>1 DEF ScriptLine, ShellQuotes
  <2>3. PICK W : W = Append(ws, o.flag)
    OBVIOUS
  <2>4. W \in Seq(Strings) /\ o.values \in Seq(Listable)
    BY <1>6, <1>10, <2>3, ProperFacts
  <2>5. PICK y : y = Join(CommaQuotes(o.values))
    OBVIOUS
  <2>6. y \in Strings
    BY <2>4, <2>5, ListableType, CommaQuotesMore, JoinMore
  <2>7. x \in Strings /\ ShRun(ShState(W, <<>>, "blank"), x) = ShState(W, y, After("blank", o.values))
    BY <2>1, <2>4, <2>5, ShJoin
  <2>8. /\ o.flag \o <<" ">> \o x \in Strings
        /\ ShRun(b, o.flag \o <<" ">> \o x) = ShRun(ShState(W, <<>>, "blank"), x)
    BY <1>1, <1>2, <1>6, <1>10, <2>3, <2>7, ShFlag
  <2>9. CASE o.values = <<>>
    <3>1. y = <<>> /\ ShellWords(o) = <<o.flag>>
      BY <1>10, <2>5, <2>9, CommaQuotesMore, JoinMore DEF ShellWords
    <3>2. Stands(ShState(W, <<>>, "blank"), W)
      BY <2>4, StandsAfter, StringFacts
    <3>3. ShRun(ShState(W, <<>>, "blank"), x) = ShState(W, <<>>, "blank")
      BY <2>7, <2>9, <3>1 DEF After
    <3>4. W = ws \o <<o.flag>> /\ <<o.flag>> \in Words
      BY <1>6, <1>7, <1>10, <2>3, <2>4
    <3>5. ShRun(b, o.flag \o <<" ">> \o x) = ShState(W, <<>>, "blank")
      BY <2>8, <3>3
    <3>6. ScriptLine(o) \in Strings /\ ShRun(s, ScriptLine(o)) = ShState(W, <<>>, "blank")
      BY <1>4, <2>2, <2>8, <3>5
    <3> QED
      BY <3>1, <3>2, <3>4, <3>6
  <2>10. CASE o.values # <<>>
    <3>1. ShellWords(o) = <<o.flag, y>>
      BY <1>10, <2>5, <2>10 DEF ShellWords
    <3>2. Stands(ShState(W, y, "word"), Append(W, y))
      BY <2>4, <2>6, StandsAfter
    <3>3. ShRun(ShState(W, <<>>, "blank"), x) = ShState(W, y, "word")
      BY <2>7, <2>10 DEF After
    <3>4. Append(W, y) = ws \o <<o.flag, y>> /\ <<o.flag, y>> \in Words
      BY <1>1, <1>6, <1>7, <1>10, <2>3, <2>6
    <3> QED
      BY <1>4, <2>2, <2>8, <3>1, <3>2, <3>3, <3>4
  <2> QED
    BY <2>9, <2>10
<1>11. CASE o.type = "ARG_NOQUOTE"
  <2>1. ScriptLine(o) = Newline \o (o.flag \o <<" ">> \o o.value) /\ ShellWords(o) = <<o.flag>> \o Sh(o.value)
    BY <1>11 DEF ScriptLine, ShellWords
  <2>2. o.value \in Strings /\ Complete(o.value)
    BY <1>11, ProperFacts
  <2>3. PICK W : W = Append(ws, o.flag)
    OBVIOUS
  <2>4. W \in Seq(Strings)
    BY <1>6, <1>11, <2>3
  <2>5. Sh(o.value) \in Seq(Strings) /\ Stands(ShRun(ShState(W, <<>>, "blank"), o.value), W \o Sh(o.value))
    BY <2>2, <2>4, ShComplete
  <2>6. /\ o.flag \o <<" ">> \o o.value \in Strings
        /\ ShRun(b, o.flag \o <<" ">> \o o.value) = ShRun(ShState(W, <<>>, "blank"), o.value)
    BY <1>1, <1>2, <1>6, <1>11, <2>2, <2>3, ShFlag
  <2>7. W \o Sh(o.value) = ws \o (<<o.flag>> \o Sh(o.value)) /\ <<o.flag>> \o Sh(o.value) \in Words
    BY <1>1, <1>6, <1>7, <1>11, <2>3, <2>5
  <2> QED
    BY <1>4, <2>1, <2>5, <2>6, <2>7
<1>12. CASE o.type = "RAW"
  <2>1. ScriptLine(o) = Newline \o o.value /\ ShellWords(o) = Sh(o.value)
    BY <1>12 DEF ScriptLine, ShellWords
  <2>2. o.value \in Strings /\ Complete(o.value)
    BY <1>12, ProperFacts
  <2>3. Sh(o.value) \in Words /\ Stands(ShRun(b, o.value), ws \o Sh(o.value))
    BY <1>1, <1>2, <2>2, ShComplete DEF Words
  <2> QED
    BY <1>4, <2>1, <2>2, <2>3
<1> QED
  BY <1>5, <1>8, <1>9, <1>10, <1>11, <1>12 DEF Kinds

-----------------------------------------------------------------------------
-----------------------------------------------------------------------------
(* A script: what is flattened is read one option after the other.           *)
PiecesOf(P, os) == [i \in DOMAIN os |-> P[os[i]]]

LEMMA PiecesOfMore ==
  ASSUME NEW X, NEW C, NEW P \in Quotings(C, X), NEW os \in Seq(C)
  PROVE  /\ FlattenSeq(PiecesOf(P, <<>>)) = <<>>
         /\ FlattenSeq(PiecesOf(P, os)) \in Seq(X)
         /\ \A o \in C : FlattenSeq(PiecesOf(P, Append(os, o))) = FlattenSeq(PiecesOf(P, os)) \o P[o]
<1>1. ASSUME NEW us \in Seq(C) PROVE PiecesOf(P, us) = Pieces(P, us)
  BY DEF PiecesOf, Pieces
<1>2. /\ Pieces(P, <<>>) = <<>>
      /\ FlattenSeq(Pieces(P, os)) \in Seq(X)
      /\ \A c \in C : FlattenSeq(Pieces(P, Append(os, c))) = FlattenSeq(Pieces(P, os)) \o P[c]
  BY PiecesMore
<1>3. <<>> \in Seq(C) /\ \A o \in C : Append(os, o) \in Seq(C)
  OBVIOUS
<1> QED
  BY <1>1, <1>2, <1>3, FlattenNothing

(* An option that is not an empty argument, which the script writes as       *)
(* nothing.                                                                  *)
Written == {o \in Proper : o.type = "ARG" => o.value # <<>>}

Lines == [o \in Written |-> ScriptLine(o)]

LineWords == [o \in Written |-> ShellWords(o)]

LEMMA LinesType == Lines \in Quotings(Written, Characters) /\ LineWords \in Quotings(Written, Strings)
<1>1. Stands(ShState(<<>>, <<>>, "blank"), <<>>)
  BY StandsAfter, StringFacts, SeqFacts
<1>2. ASSUME NEW o \in Written PROVE ScriptLine(o) \in Strings /\ ShellWords(o) \in Words
  <2>1. o \in Proper /\ (o.type = "ARG" => o.value # <<>>)
    BY DEF Written
  <2> QED
    BY <1>1, <2>1, LineRead
<1> QED
  BY <1>2 DEF Lines, LineWords, Quotings, Strings, Words

LEMMA LinesRead ==
  ASSUME NEW s, NEW ws, Stands(s, ws), NEW us \in Seq(Written)
  PROVE  /\ FlattenSeq(PiecesOf(Lines, us)) \in Strings
         /\ FlattenSeq(PiecesOf(LineWords, us)) \in Words
         /\ Stands(ShRun(s, FlattenSeq(PiecesOf(Lines, us))), ws \o FlattenSeq(PiecesOf(LineWords, us)))
<1> DEFINE L(x) == FlattenSeq(PiecesOf(Lines, x))
           M(x) == FlattenSeq(PiecesOf(LineWords, x))
           P(x) == Stands(ShRun(s, L(x)), ws \o M(x))
           K == {x \in Seq(Written) : P(x)}
<1>0. s \in ShStates /\ ws \in Seq(Strings)
  BY StandsType
<1>1. ASSUME NEW x \in Seq(Written)
      PROVE  /\ L(<<>>) = <<>> /\ M(<<>>) = <<>>
             /\ L(x) \in Strings /\ M(x) \in Words
             /\ \A o \in Written : /\ L(Append(x, o)) = L(x) \o ScriptLine(o)
                                   /\ M(Append(x, o)) = M(x) \o ShellWords(o)
  <2>1. /\ L(<<>>) = <<>> /\ L(x) \in Seq(Characters)
        /\ \A o \in Written : L(Append(x, o)) = L(x) \o Lines[o]
    BY LinesType, PiecesOfMore
  <2>2. /\ M(<<>>) = <<>> /\ M(x) \in Seq(Strings)
        /\ \A o \in Written : M(Append(x, o)) = M(x) \o LineWords[o]
    BY LinesType, PiecesOfMore
  <2> HIDE DEF L, M
  <2> QED
    BY <2>1, <2>2 DEF Lines, LineWords, Strings, Words
<1> HIDE DEF L, M
<1>2. <<>> \in K
  <2>1. <<>> \in Seq(Written)
    OBVIOUS
  <2>2. L(<<>>) = <<>> /\ M(<<>>) = <<>>
    BY <1>1, <2>1
  <2>3. ShRun(s, <<>>) = s /\ ws \o <<>> = ws
    BY <1>0, ShReads, SeqFacts
  <2> QED
    BY <2>1, <2>2, <2>3
<1>3. ASSUME NEW x \in Seq(Written), NEW o \in Written, x \in K PROVE Append(x, o) \in K
  <2>1. o \in Proper /\ (o.type = "ARG" => o.value # <<>>)
    BY DEF Written
  <2>2. P(x)
    BY <1>3
  <2>3. PICK t : t = ShRun(s, L(x))
    OBVIOUS
  <2>4. PICK vs : vs = ws \o M(x)
    OBVIOUS
  <2>5. Stands(t, vs)
    BY <2>2, <2>3, <2>4
  <2>6. /\ ScriptLine(o) \in Strings /\ ShellWords(o) \in Words
        /\ Stands(ShRun(t, ScriptLine(o)), vs \o ShellWords(o))
    BY <2>1, <2>5, LineRead
  <2>7. L(x) \in Strings /\ M(x) \in Words /\ L(Append(x, o)) = L(x) \o ScriptLine(o)
        /\ M(Append(x, o)) = M(x) \o ShellWords(o)
    BY <1>1
  <2>8. ShRun(s, L(Append(x, o))) = ShRun(t, ScriptLine(o))
    BY <1>0, <2>3, <2>6, <2>7, ShReads
  <2>9. ws \o M(Append(x, o)) = vs \o ShellWords(o)
    <3>1. (ws \o M(x)) \o ShellWords(o) = ws \o (M(x) \o ShellWords(o))
      BY <1>0, <2>6, <2>7, SeqFacts DEF Words
    <3> QED
      BY <2>4, <2>7, <3>1
  <2>10. P(Append(x, o))
    BY <2>6, <2>8, <2>9
  <2>11. Append(x, o) \in Seq(Written)
    OBVIOUS
  <2> HIDE DEF P
  <2> QED
    BY <2>10, <2>11
<1>4. Seq(Written) \subseteq K
  <2> HIDE DEF K
  <2> QED
    BY <1>2, <1>3, StringInduction
<1>5. P(us)
  BY <1>4
<1>6. L(us) \in Strings /\ M(us) \in Words
  BY <1>1
<1> QED
  BY <1>5, <1>6 DEF L, M

ScriptOf(b, os) == shell_quote(b) \o FlattenSeq([i \in DOMAIN os |-> ScriptLine(os[i])]) \o <<"\n">>

LEMMA ScriptRead ==
  ASSUME NEW b \in Binaries, NEW os \in Seq(Written)
  PROVE  Sh(ScriptOf(b, os)) = <<b>> \o FlattenSeq([i \in DOMAIN os |-> ShellWords(os[i])])
<1>1. b \in Strings /\ b # <<>> /\ "\n" \in Characters
  BY StringsAssumption, CharactersOfQuoting DEF StringsAssumption, Strings
<1>2. /\ [i \in DOMAIN os |-> ScriptLine(os[i])] = PiecesOf(Lines, os)
      /\ [i \in DOMAIN os |-> ShellWords(os[i])] = PiecesOf(LineWords, os)
  <2>1. \A i \in DOMAIN os : os[i] \in Written
    OBVIOUS
  <2> QED
    BY <2>1 DEF PiecesOf, Lines, LineWords
<1>3. PICK l : l = FlattenSeq(PiecesOf(Lines, os))
  OBVIOUS
<1>4. PICK ms : ms = FlattenSeq(PiecesOf(LineWords, os))
  OBVIOUS
<1>5. PICK q : q = shell_quote(b)
  OBVIOUS
<1>6. ShStart = ShState(<<>>, <<>>, "blank") /\ ShStart \in ShStates /\ <<>> \in Seq(Strings) /\ <<>> \in Strings
  BY ShStateType, StringFacts, SeqFacts DEF ShStart, ShState
<1>7. q \in Strings /\ ShRun(ShStart, q) = ShState(<<>>, b, "word")
  <2>1. "blank" \in {"blank", "word"} /\ <<>> \o b = b /\ After("blank", b) = "word"
    BY <1>1, StringFacts DEF After
  <2>2. shell_quote(b) \in Strings
        /\ ShRun(ShState(<<>>, <<>>, "blank"), shell_quote(b)) = ShState(<<>>, <<>> \o b, After("blank", b))
    BY <1>1, <1>6, <2>1, ShShellQuote
  <2> QED
    BY <1>5, <1>6, <2>1, <2>2
<1>8. Stands(ShState(<<>>, b, "word"), <<b>>)
  <2>1. Append(<<>>, b) = <<b>>
    BY <1>1, SeqFacts
  <2> QED
    BY <1>1, <1>6, <2>1, StandsAfter
<1>9. l \in Strings /\ ms \in Words /\ Stands(ShRun(ShState(<<>>, b, "word"), l), <<b>> \o ms)
  BY <1>3, <1>4, <1>8, LinesRead
<1>10. q \o l \in Strings /\ ShRun(ShStart, q \o l) = ShRun(ShState(<<>>, b, "word"), l)
  <2>1. ShRun(ShStart, q \o l) = ShRun(ShRun(ShStart, q), l)
    BY <1>6, <1>7, <1>9, ShReads
  <2>2. q \o l \in Strings
    BY <1>7, <1>9, StringFacts
  <2> QED
    BY <1>7, <2>1, <2>2
<1>11. PICK t : t = ShRun(ShStart, q \o l)
  OBVIOUS
<1>12. PICK ws : ws = <<b>> \o ms
  OBVIOUS
<1>13. Stands(t, ws)
  BY <1>9, <1>10, <1>11, <1>12
<1>14. (q \o l) \o <<"\n">> = Append(q \o l, "\n")
  BY <1>1, <1>10, StringFacts
<1>15. ShRun(ShStart, Append(q \o l, "\n")) = ShStep(t, "\n")
  BY <1>1, <1>6, <1>10, <1>11, ShReads
<1>16. ShStep(t, "\n") = ShState(ws, <<>>, "blank")
  BY <1>13, ShSpace
<1>17. Stands(ShState(ws, <<>>, "blank"), ws)
  BY <1>13, StandsType, StandsAfter, <1>6
<1>18. ShStep(ShState(ws, <<>>, "blank"), "\n") = ShState(ws, <<>>, "blank")
  BY <1>17, ShSpace
<1>19. ScriptOf(b, os) = Append(q \o l, "\n")
  BY <1>2, <1>3, <1>5, <1>14 DEF ScriptOf
<1>20. Sh(ScriptOf(b, os)) = ws
  <2>1. PICK e : e = ShState(ws, <<>>, "blank")
    OBVIOUS
  <2>2. ShRun(ShStart, ScriptOf(b, os)) = e
    BY <1>15, <1>16, <1>19, <2>1
  <2>3. ShStep(e, "\n") = e
    BY <1>18, <2>1
  <2>4. Sh(ScriptOf(b, os)) = e.words
    BY <2>2, <2>3 DEF Sh
  <2>5. e.words = ws
    BY <2>1 DEF ShState
  <2> QED
    BY <2>4, <2>5
<1> QED
  BY <1>2, <1>4, <1>12, <1>20

-----------------------------------------------------------------------------
-----------------------------------------------------------------------------
(* What qemu reads from the words of several options is what it reads from   *)
(* those of each, when they begin with a flag.                               *)
LEMMA OptionStepOn ==
  ASSUME NEW os \in OptStates, NEW p \in OptStates, p # <<>>, NEW w \in Strings
  PROVE  OptionStep(os \o p, w) = os \o OptionStep(p, w) /\ OptionStep(p, w) # <<>>
<1>0. os \in Seq(Opts) /\ p \in Seq(Opts)
  BY DEF OptStates
<1>1. CASE w \in Flags
  <2>1. PICK r : r = [flag |-> w, values |-> <<>>]
    OBVIOUS
  <2>2. r \in Opts
    <3>1. <<>> \in Seq(Strings)
      OBVIOUS
    <3> QED
      BY <1>1, <2>1, <3>1 DEF Opts
  <2>3. os \o Append(p, r) = Append(os \o p, r) /\ Append(p, r) # <<>>
    <3>1. \A a, b \in Seq(Opts), c \in Opts : a \o Append(b, c) = Append(a \o b, c)
      OBVIOUS
    <3>2. \A b \in Seq(Opts), c \in Opts : Append(b, c) # <<>>
      BY SeqFacts
    <3> QED
      BY ONLY <1>0, <2>2, <3>1, <3>2
  <2> QED
    BY <1>1, <2>1, <2>3 DEF OptionStep
<1>2. CASE w \notin Flags
  <2>1. PICK m \in Nat, n \in Nat : m = Len(os) /\ n = Len(p)
    BY <1>0
  <2>2. n > 0 /\ n \in 1 .. n
    BY <1>0, <2>1
  <2>3. PICK all : all = os \o p
    OBVIOUS
  <2>4. all \in Seq(Opts) /\ Len(all) = m + n
        /\ (\A i \in 1 .. m : all[i] = os[i]) /\ \A i \in 1 .. n : all[m + i] = p[i]
    BY <1>0, <2>1, <2>3
  <2>5. all[m + n] = p[n]
    BY <2>2, <2>4
  <2>6. PICK r : r = [p[n] EXCEPT !.values = @ \o QemuSplit(w)]
    OBVIOUS
  <2>7. r \in Opts
    <3>1. p[n] \in Opts
      BY <1>0, <2>1, <2>2
    <3>2. p[n].values \o QemuSplit(w) \in Seq(Strings)
      <4>1. p[n].values \in Seq(Strings) /\ QemuSplit(w) \in Seq(Strings)
        BY <3>1, QemuSplitType DEF Opts
      <4> QED
        BY <4>1, SeqFacts
    <3> QED
      BY <2>6, <3>1, <3>2 DEF Opts
  <2>8. PICK p2 : p2 = [p EXCEPT ![n] = r]
    OBVIOUS
  <2>9. p2 \in Seq(Opts) /\ Len(p2) = n /\ p2[n] = r /\ \A i \in 1 .. n : i # n => p2[i] = p[i]
    BY <1>0, <2>1, <2>2, <2>7, <2>8
  <2>10. PICK all2 : all2 = [all EXCEPT ![m + n] = r]
    OBVIOUS
  <2>11. m + n \in 1 .. m + n
    BY <2>2
  <2>12. all2 \in Seq(Opts) /\ Len(all2) = m + n /\ all2[m + n] = r
         /\ \A i \in 1 .. m + n : i # m + n => all2[i] = all[i]
    BY <2>4, <2>7, <2>10, <2>11
  <2>13. OptionStep(p, w) = p2
    <3>1. OptionStep(p, w) = [p EXCEPT ![Len(p)].values = @ \o QemuSplit(w)]
      BY <1>2 DEF OptionStep
    <3> QED
      BY <2>1, <2>6, <2>8, <3>1
  <2>14. OptionStep(all, w) = all2
    <3>1. OptionStep(all, w) = [all EXCEPT ![Len(all)].values = @ \o QemuSplit(w)]
      BY <1>2 DEF OptionStep
    <3> QED
      BY <2>4, <2>5, <2>6, <2>10, <3>1
  <2>15. PICK both : both = os \o p2
    OBVIOUS
  <2>16. both \in Seq(Opts) /\ Len(both) = m + n
         /\ (\A i \in 1 .. m : both[i] = os[i]) /\ \A i \in 1 .. n : both[m + i] = p2[i]
    <3>1. os \in Seq(Opts) /\ p2 \in Seq(Opts) /\ Len(p2) = n /\ m = Len(os) /\ m \in Nat /\ n \in Nat
      BY <1>0, <2>1, <2>9
    <3>2. \A a, b \in Seq(Opts) :
            /\ a \o b \in Seq(Opts) /\ Len(a \o b) = Len(a) + Len(b)
            /\ \A i \in 1 .. Len(a) : (a \o b)[i] = a[i]
            /\ \A i \in 1 .. Len(b) : (a \o b)[Len(a) + i] = b[i]
      OBVIOUS
    <3> QED
      BY ONLY <2>15, <3>1, <3>2
  <2>17. ASSUME NEW i \in 1 .. m + n PROVE all2[i] = both[i]
    <3>1. CASE i \in 1 .. m
      <4>1. i # m + n
        BY <2>2, <3>1
      <4> QED
        BY <2>4, <2>12, <2>16, <3>1, <4>1
    <3>2. CASE i \notin 1 .. m
      <4>1. PICK j \in 1 .. n : i = m + j
        <5>1. i - m \in 1 .. n /\ i = m + (i - m)
          BY <3>2
        <5> QED
          BY <5>1
      <4>2. CASE j = n
        BY <2>2, <2>9, <2>12, <2>16, <4>1, <4>2
      <4>3. CASE j # n
        <5>1. i # m + n
          BY <4>1, <4>3
        <5>2. all2[i] = all[i] /\ all[i] = p[j] /\ both[i] = p2[j] /\ p2[j] = p[j]
          BY <2>4, <2>9, <2>12, <2>16, <4>1, <4>3, <5>1
        <5> QED
          BY <5>2
      <4> QED
        BY <4>2, <4>3
    <3> QED
      BY <3>1, <3>2
  <2>18. all2 = both
    BY <2>12, <2>16, <2>17
  <2>19. p2 # <<>>
    BY <2>2, <2>9
  <2> QED
    BY <2>3, <2>13, <2>14, <2>15, <2>18, <2>19
<1> QED
  BY <1>1, <1>2

BeginsWithFlag(ws) == ws = <<>> \/ ws[1] \in Flags

LEMMA OptionsOn ==
  ASSUME NEW os \in OptStates, NEW ws \in Words, BeginsWithFlag(ws)
  PROVE  OptionRun(os, ws) = os \o QemuReads(ws)
<1> DEFINE P(x) == BeginsWithFlag(x) => /\ OptionRun(os, x) = os \o QemuReads(x)
                                        /\ x # <<>> => QemuReads(x) # <<>>
           K == {x \in Words : P(x)}
<1>0. os \in Seq(Opts) /\ <<>> \in OptStates /\ <<>> \in Words
  BY DEF OptStates, Words
<1>1. <<>> \in K
  <2>1. OptionRun(os, <<>>) = os /\ QemuReads(<<>>) = <<>>
    BY <1>0, OptionReads DEF QemuReads
  <2>2. os \o <<>> = os
    BY <1>0, SeqFacts
  <2> QED
    BY <1>0, <2>1, <2>2
<1>2. ASSUME NEW x \in Seq(Strings), NEW w \in Strings, x \in K PROVE Append(x, w) \in K
  <2>1. Append(x, w) \in Words /\ x \in Words /\ Append(x, w) # <<>>
        /\ (x # <<>> => Append(x, w)[1] = x[1]) /\ Append(<<>>, w) = <<w>> /\ <<w>>[1] = w
    BY SeqFacts DEF Words
  <2>2. /\ OptionRun(os, Append(x, w)) = OptionStep(OptionRun(os, x), w)
        /\ QemuReads(Append(x, w)) = OptionStep(QemuReads(x), w)
        /\ QemuReads(x) \in OptStates
    BY <1>0, <2>1, OptionReads DEF QemuReads
  <2>3. ASSUME BeginsWithFlag(Append(x, w))
        PROVE  /\ OptionRun(os, Append(x, w)) = os \o QemuReads(Append(x, w))
               /\ QemuReads(Append(x, w)) # <<>>
    <3>1. CASE x = <<>>
      <4>1. w \in Flags
        BY <2>1, <2>3, <3>1 DEF BeginsWithFlag
      <4>2. PICK r : r = [flag |-> w, values |-> <<>>]
        OBVIOUS
      <4>3. r \in Opts
        <5>1. <<>> \in Seq(Strings)
          OBVIOUS
        <5> QED
          BY <4>1, <4>2, <5>1 DEF Opts
      <4>4. OptionRun(os, x) = os /\ QemuReads(x) = <<>>
        BY <1>0, <3>1, OptionReads DEF QemuReads
      <4>5. OptionRun(os, Append(x, w)) = Append(os, r) /\ QemuReads(Append(x, w)) = Append(<<>>, r)
        BY <2>2, <4>1, <4>2, <4>4 DEF OptionStep
      <4>6. os \o <<r>> = Append(os, r) /\ Append(<<>>, r) = <<r>> /\ Append(<<>>, r) # <<>>
        BY <1>0, <4>3, SeqFacts
      <4> QED
        BY <4>5, <4>6
    <3>2. CASE x # <<>>
      <4>1. BeginsWithFlag(x)
        BY <2>1, <2>3, <3>2 DEF BeginsWithFlag
      <4>2. OptionRun(os, x) = os \o QemuReads(x) /\ QemuReads(x) # <<>>
        BY <1>2, <3>2, <4>1
      <4>3. OptionStep(os \o QemuReads(x), w) = os \o OptionStep(QemuReads(x), w)
            /\ OptionStep(QemuReads(x), w) # <<>>
        BY <2>2, <4>2, OptionStepOn
      <4> QED
        BY <2>2, <4>2, <4>3
    <3> QED
      BY <3>1, <3>2
  <2>4. P(Append(x, w))
    BY <2>3
  <2> HIDE DEF P
  <2> QED
    BY <2>1, <2>4
<1>3. Words \subseteq K
  <2> HIDE DEF K
  <2> QED
    BY <1>1, <1>2, StringInduction DEF Words
<1> QED
  BY <1>3

LEMMA OptionsApart ==
  ASSUME NEW C, NEW P \in Quotings(C, Strings), NEW R \in Quotings(C, Opts),
         \A c \in C : BeginsWithFlag(P[c]) /\ R[c] = QemuReads(P[c]), NEW us \in Seq(C)
  PROVE  QemuReads(FlattenSeq(PiecesOf(P, us))) = FlattenSeq(PiecesOf(R, us))
<1> DEFINE L(x) == FlattenSeq(PiecesOf(P, x))
           M(x) == FlattenSeq(PiecesOf(R, x))
           E(x) == QemuReads(L(x)) = M(x)
           K == {x \in Seq(C) : E(x)}
<1>0. \A c \in C : P[c] \in Words /\ R[c] \in OptStates
  BY DEF Quotings, Words, OptStates
<1>1. ASSUME NEW x \in Seq(C)
      PROVE  /\ L(<<>>) = <<>> /\ M(<<>>) = <<>>
             /\ L(x) \in Words /\ M(x) \in OptStates
             /\ \A c \in C : L(Append(x, c)) = L(x) \o P[c] /\ M(Append(x, c)) = M(x) \o R[c]
  <2>1. /\ L(<<>>) = <<>> /\ L(x) \in Seq(Strings)
        /\ \A c \in C : L(Append(x, c)) = L(x) \o P[c]
    BY PiecesOfMore
  <2>2. /\ M(<<>>) = <<>> /\ M(x) \in Seq(Opts)
        /\ \A c \in C : M(Append(x, c)) = M(x) \o R[c]
    BY PiecesOfMore
  <2> HIDE DEF L, M
  <2> QED
    BY <2>1, <2>2 DEF Words, OptStates
<1> HIDE DEF L, M
<1>2. <<>> \in K
  <2>1. <<>> \in Seq(C)
    OBVIOUS
  <2>2. L(<<>>) = <<>> /\ M(<<>>) = <<>>
    BY <1>1, <2>1
  <2>3. <<>> \in OptStates
    BY DEF OptStates
  <2>4. QemuReads(<<>>) = <<>>
    BY <2>3, OptionReads DEF QemuReads
  <2> QED
    BY <2>1, <2>2, <2>4
<1>3. ASSUME NEW x \in Seq(C), NEW c \in C, x \in K PROVE Append(x, c) \in K
  <2>1. L(x) \in Words /\ P[c] \in Words /\ L(Append(x, c)) = L(x) \o P[c] /\ M(Append(x, c)) = M(x) \o R[c]
        /\ M(x) \in OptStates
    BY <1>0, <1>1
  <2>2. <<>> \in OptStates
    BY DEF OptStates
  <2>3. OptionRun(<<>>, L(x) \o P[c]) = OptionRun(OptionRun(<<>>, L(x)), P[c])
    BY <2>1, <2>2, OptionReads
  <2>4. OptionRun(<<>>, L(x)) = M(x)
    BY <1>3 DEF QemuReads
  <2>5. BeginsWithFlag(P[c]) /\ R[c] = QemuReads(P[c])
    OBVIOUS
  <2>6. OptionRun(M(x), P[c]) = M(x) \o QemuReads(P[c])
    BY <2>1, <2>5, OptionsOn
  <2>7. E(Append(x, c))
    BY <2>1, <2>3, <2>4, <2>5, <2>6 DEF QemuReads
  <2>8. Append(x, c) \in Seq(C)
    OBVIOUS
  <2> HIDE DEF E
  <2> QED
    BY <2>7, <2>8
<1>4. Seq(C) \subseteq K
  <2> HIDE DEF K
  <2> QED
    BY <1>2, <1>3, StringInduction
<1>5. E(us)
  BY <1>4
<1> QED
  BY <1>5 DEF L, M

-----------------------------------------------------------------------------
-----------------------------------------------------------------------------
(* No value is taken for a flag.                                             *)
LEMMA FirstOfBoth ==
  \A a, b \in Strings : a # <<>> => a \o b # <<>> /\ (a \o b)[1] = a[1]
<1> SUFFICES ASSUME NEW a \in Strings, NEW b \in Strings, a # <<>>
             PROVE  a \o b # <<>> /\ (a \o b)[1] = a[1]
  OBVIOUS
<1>1. a \in Seq(Characters) /\ b \in Seq(Characters)
  BY DEF Strings
<1>2. Len(a) >= 1 /\ Len(a) \in Nat /\ Len(b) \in Nat
  BY <1>1
<1>3. PICK all : all = a \o b
  OBVIOUS
<1>4. Len(all) = Len(a) + Len(b) /\ all[1] = a[1]
  BY <1>1, <1>2, <1>3
<1>5. all # <<>>
  BY <1>2, <1>4
<1> QED
  BY <1>3, <1>4, <1>5

LEMMA FirstOfCommaQuote ==
  \A v \in Strings : v # <<>> => CommaQuote(v) # <<>> /\ CommaQuote(v)[1] = v[1]
<1> DEFINE P(str) == str # <<>> => CommaQuote(str) # <<>> /\ CommaQuote(str)[1] = str[1]
           K == {str \in Strings : P(str)}
<1>1. <<>> \in K
  BY StringFacts
<1>2. ASSUME NEW str \in Strings, NEW c \in Characters, str \in K PROVE Append(str, c) \in K
  <2>1. PICK x : x = IF c = "," THEN <<",", ",">> ELSE <<c>>
    OBVIOUS
  <2>2. x \in Strings /\ x # <<>> /\ x[1] = c
    <3>1. "," \in Characters
      BY CharactersOfQuoting
    <3>2. \A d \in Characters : <<d>> # <<>> /\ <<d, d>> # <<>> /\ <<d>>[1] = d /\ <<d, d>>[1] = d
      OBVIOUS
    <3> QED
      BY <2>1, <3>1, <3>2, StringFacts
  <2>3. CommaQuote(Append(str, c)) = CommaQuote(str) \o x /\ CommaQuote(str) \in Strings
    BY <2>1, CommaQuoteMore
  <2>4. Append(str, c) \in Strings /\ (str # <<>> => Append(str, c)[1] = str[1])
        /\ Append(<<>>, c) = <<c>> /\ <<c>>[1] = c
    BY StringFacts
  <2>5. CASE str = <<>>
    <3>1. CommaQuote(str) = <<>>
      BY <2>5, CommaQuoteMore
    <3>2. <<>> \o x = x
      BY <2>2, StringFacts
    <3>3. CommaQuote(Append(str, c)) = x
      BY <2>3, <3>1, <3>2
    <3>4. Append(str, c)[1] = c
      BY <2>4, <2>5
    <3>5. P(Append(str, c))
      BY <2>2, <3>3, <3>4
    <3> HIDE DEF P
    <3> QED
      BY <2>4, <3>5
  <2>6. CASE str # <<>>
    <3>1. CommaQuote(str) # <<>> /\ CommaQuote(str)[1] = str[1]
      BY <1>2, <2>6
    <3>2. CommaQuote(str) \o x # <<>> /\ (CommaQuote(str) \o x)[1] = CommaQuote(str)[1]
      BY <2>2, <2>3, <3>1, FirstOfBoth
    <3>3. P(Append(str, c))
      BY <2>3, <2>4, <2>6, <3>1, <3>2
    <3> HIDE DEF P
    <3> QED
      BY <2>4, <3>3
  <2> QED
    BY <2>5, <2>6
<1>3. Strings \subseteq K
  <2> HIDE DEF K
  <2> QED
    BY <1>1, <1>2, StringInduction DEF Strings
<1> QED
  BY <1>3

LEMMA FirstOfJoin ==
  \A vs \in Seq(Listable) :
    vs # <<>> => Join(CommaQuotes(vs)) # <<>> /\ Join(CommaQuotes(vs))[1] = vs[1][1]
<1> DEFINE P(us) == us # <<>> => Join(CommaQuotes(us)) # <<>> /\ Join(CommaQuotes(us))[1] = us[1][1]
           K == {us \in Seq(Listable) : P(us)}
<1>1. <<>> \in K
  OBVIOUS
<1>2. ASSUME NEW us \in Seq(Listable), NEW v \in Listable, us \in K PROVE Append(us, v) \in K
  <2>1. us \in Seq(Strings) /\ v \in Strings /\ v # <<>>
    BY ListableType DEF Listable
  <2>2. PICK q : q = CommaQuotes(us)
    OBVIOUS
  <2>3. /\ q \in Seq(Strings) /\ (q = <<>> <=> us = <<>>)
        /\ CommaQuotes(Append(us, v)) = Append(q, CommaQuote(v)) /\ CommaQuote(v) \in Strings
    BY <2>1, <2>2, CommaQuotesMore, CommaQuoteMore
  <2>4. /\ Join(q) \in Strings
        /\ Join(Append(q, CommaQuote(v)))
             = IF q = <<>> THEN CommaQuote(v) ELSE Join(q) \o (<<",">> \o CommaQuote(v))
    BY <2>3, JoinMore
  <2>5. Append(us, v) \in Seq(Listable) /\ (us # <<>> => Append(us, v)[1] = us[1])
        /\ Append(<<>>, v) = <<v>> /\ <<v>>[1] = v
    BY SeqFacts
  <2>6. CASE us = <<>>
    <3>1. CommaQuote(v) # <<>> /\ CommaQuote(v)[1] = v[1]
      BY <2>1, FirstOfCommaQuote
    <3>2. Append(us, v)[1] = v
      BY <2>5, <2>6
    <3>3. P(Append(us, v))
      BY <2>3, <2>4, <2>6, <3>1, <3>2
    <3> HIDE DEF P
    <3> QED
      BY <2>5, <3>3
  <2>7. CASE us # <<>>
    <3>1. Join(q) # <<>> /\ Join(q)[1] = us[1][1]
      BY <1>2, <2>2, <2>7
    <3>2. <<",">> \o CommaQuote(v) \in Strings
      BY <2>3, StringFacts, CharactersOfQuoting
    <3>3. Join(q) \o (<<",">> \o CommaQuote(v)) # <<>>
          /\ (Join(q) \o (<<",">> \o CommaQuote(v)))[1] = Join(q)[1]
      BY <2>4, <3>1, <3>2, FirstOfBoth
    <3>4. P(Append(us, v))
      BY <2>3, <2>4, <2>5, <2>7, <3>1, <3>3
    <3> HIDE DEF P
    <3> QED
      BY <2>5, <3>4
  <2> QED
    BY <2>6, <2>7
<1>3. Seq(Listable) \subseteq K
  <2> HIDE DEF K
  <2> QED
    BY <1>1, <1>2, StringInduction
<1> QED
  BY <1>3

LEMMA NoFlag ==
  /\ \A v \in Values : CommaQuote(v) \notin Flags
  /\ \A vs \in Seq(Elements) : vs # <<>> => Join(CommaQuotes(vs)) \notin Flags
<1>1. /\ \A f \in Flags : f # <<>>
      /\ \A f \in Flags, v \in Values \cup Elements : v # <<>> => v[1] # f[1]
      /\ \A v \in Values : v \in Strings
      /\ \A e \in Elements : e \in Listable /\ e # <<>>
  BY StringsAssumption, QemuoptsAssumption DEF StringsAssumption, QemuoptsAssumption, Listable, Strings
<1>2. ASSUME NEW v \in Values PROVE CommaQuote(v) \notin Flags
  <2>1. CASE v = <<>>
    <3>1. CommaQuote(v) = <<>>
      BY <2>1, CommaQuoteMore
    <3> QED
      BY <1>1, <3>1
  <2>2. CASE v # <<>>
    <3>1. CommaQuote(v)[1] = v[1]
      BY <1>1, <2>2, FirstOfCommaQuote
    <3> QED
      BY <1>1, <2>2, <3>1
  <2> QED
    BY <2>1, <2>2
<1>3. ASSUME NEW vs \in Seq(Elements), vs # <<>> PROVE Join(CommaQuotes(vs)) \notin Flags
  <2>1. vs \in Seq(Listable) /\ vs[1] \in Elements
    BY <1>1, <1>3
  <2>2. Join(CommaQuotes(vs))[1] = vs[1][1]
    BY <1>3, <2>1, FirstOfJoin
  <2> QED
    BY <1>1, <2>1, <2>2
<1> QED
  BY <1>2, <1>3

-----------------------------------------------------------------------------
(* What is meant by the call that made an option.                            *)
CallOf == [FLAG |-> "flag", ARG |-> "arg", ARG_NOQUOTE |-> "noquote", RAW |-> "raw", ARG_LIST |-> "start"]

Request(o) == [call |-> CallOf[o.type], flag |-> o.flag, value |-> o.value, values |-> o.values]

LEMMA WordFacts ==
  /\ \A c \in Strings : <<c>> \in Words
  /\ \A c, d \in Strings : <<c, d>> \in Words /\ Append(<<c>>, d) = <<c, d>>
  /\ \A a \in Words, c \in Strings : a \o <<c>> = Append(a, c)
<1>1. ASSUME NEW c \in Strings, NEW d \in Strings
      PROVE  <<c>> \in Seq(Strings) /\ <<c, d>> \in Seq(Strings) /\ Append(<<c>>, d) = <<c, d>>
  BY SeqFacts
<1>2. ASSUME NEW a \in Seq(Strings), NEW c \in Strings PROVE a \o <<c>> = Append(a, c)
  BY SeqFacts
<1> QED
  BY <1>1, <1>2 DEF Words

LEMMA OneOption ==
  ASSUME NEW f \in Flags
  PROVE  /\ f \in Strings
         /\ QemuReads(<<f>>) = <<[flag |-> f, values |-> <<>>]>>
         /\ \A w \in Strings : w \notin Flags =>
              QemuReads(<<f, w>>) = <<[flag |-> f, values |-> QemuSplit(w)]>>
<1>1. f \in Strings /\ <<>> \in OptStates
  <2>1. f \in Strings
    BY StringsAssumption DEF StringsAssumption, Strings
  <2>2. <<>> \in OptStates
    BY DEF OptStates
  <2> QED
    BY <2>1, <2>2
<1>2. PICK r : r = [flag |-> f, values |-> <<>>]
  OBVIOUS
<1>3. QemuReads(<<f>>) = <<r>>
  <2>1. QemuReads(<<f>>) = OptionStep(<<>>, f)
    BY <1>1, OptionReads DEF QemuReads
  <2>2. OptionStep(<<>>, f) = Append(<<>>, r)
    BY <1>2 DEF OptionStep
  <2>3. Append(<<>>, r) = <<r>>
    OBVIOUS
  <2> QED
    BY <2>1, <2>2, <2>3
<1>4. ASSUME NEW w \in Strings, w \notin Flags
      PROVE  QemuReads(<<f, w>>) = <<[flag |-> f, values |-> QemuSplit(w)]>>
  <2>1. <<f>> \in Words /\ Append(<<f>>, w) = <<f, w>>
    BY <1>1, WordFacts
  <2>2. QemuReads(Append(<<f>>, w)) = OptionStep(QemuReads(<<f>>), w)
    BY <1>1, <2>1, OptionReads DEF QemuReads
  <2>3. PICK ws : ws = QemuSplit(w)
    OBVIOUS
  <2>4. ws \in Seq(Strings) /\ <<>> \o ws = ws
    <3>1. ws \in Seq(Strings)
      BY <2>3, QemuSplitType
    <3> QED
      BY <3>1, SeqFacts
  <2>5. OptionStep(<<r>>, w) = [<<r>> EXCEPT ![Len(<<r>>)].values = @ \o ws]
    BY <1>4, <2>3 DEF OptionStep
  <2>6. Len(<<r>>) = 1 /\ <<r>>[1] = r /\ <<r>> = [i \in 1 .. 1 |-> r]
    OBVIOUS
  <2>7. PICK r2 : r2 = [r EXCEPT !.values = @ \o ws]
    OBVIOUS
  <2>8. r2 = [flag |-> f, values |-> ws]
    <3>1. r2 = [flag |-> f, values |-> <<>> \o ws]
      BY <1>2, <2>7
    <3> QED
      BY <2>4, <3>1
  <2>9. [<<r>> EXCEPT ![1].values = @ \o ws] = [<<r>> EXCEPT ![1] = r2]
    BY <2>6, <2>7
  <2>10. [<<r>> EXCEPT ![1] = r2] = <<r2>>
    OBVIOUS
  <2> QED
    BY <1>3, <2>1, <2>2, <2>3, <2>5, <2>6, <2>8, <2>9, <2>10
<1> QED
  BY <1>1, <1>2, <1>3, <1>4

LEMMA ShellMeant ==
  ASSUME NEW o \in Proper
  PROVE  BeginsWithFlag(ShellWords(o)) /\ QemuReads(ShellWords(o)) = Meant(Request(o), TRUE)
<1>1. PICK c : c = Request(o)
  OBVIOUS
<1>2. c.call = CallOf[o.type] /\ c.flag = o.flag /\ c.value = o.value /\ c.values = o.values
  BY <1>1 DEF Request
<1>3. o.type \in Kinds
  BY ProperFacts
<1>4. \A f \in Flags : \A w : <<f, w>>[1] = f /\ <<f>>[1] = f
  OBVIOUS
<1>5. CASE o.type = "FLAG"
  <2>1. ShellWords(o) = <<o.flag>> /\ o.flag \in Flags /\ o.values = <<>>
    BY <1>5, ProperFacts DEF ShellWords
  <2>2. c.call = "flag"
    BY <1>2, <1>5 DEF CallOf
  <2>3. Meant(c, TRUE) = <<[flag |-> o.flag, values |-> <<>>]>>
    BY <1>2, <2>1, <2>2 DEF Meant
  <2> QED
    BY <1>1, <1>4, <2>1, <2>3, OneOption DEF BeginsWithFlag
<1>6. CASE o.type = "ARG"
  <2>1. ShellWords(o) = <<o.flag, CommaQuote(o.value)>> /\ o.flag \in Flags /\ o.value \in Values
        /\ o.value \in Strings
    BY <1>6, ProperFacts DEF ShellWords
  <2>2. c.call = "arg"
    BY <1>2, <1>6 DEF CallOf
  <2>3. Meant(c, TRUE) = <<[flag |-> o.flag, values |-> <<o.value>>]>>
    BY <1>2, <2>2 DEF Meant
  <2>4. CommaQuote(o.value) \in Strings /\ CommaQuote(o.value) \notin Flags
        /\ QemuSplit(CommaQuote(o.value)) = <<o.value>>
    BY <2>1, CommaQuoteMore, NoFlag, ValueReadBack
  <2> QED
    BY <1>1, <1>4, <2>1, <2>3, <2>4, OneOption DEF BeginsWithFlag
<1>7. CASE o.type = "ARG_LIST"
  <2>1. o.flag \in Flags /\ o.values \in Seq(Elements) /\ o.values \in Seq(Listable)
    BY <1>7, ProperFacts
  <2>2. c.call = "start"
    BY <1>2, <1>7 DEF CallOf
  <2>3. Meant(c, TRUE) = <<[flag |-> o.flag, values |-> o.values]>>
    BY <1>2, <2>2 DEF Meant
  <2>4. CASE o.values = <<>>
    <3>1. ShellWords(o) = <<o.flag>>
      BY <1>7, <2>4 DEF ShellWords
    <3> QED
      BY <1>1, <1>4, <2>1, <2>3, <2>4, <3>1, OneOption DEF BeginsWithFlag
  <2>5. CASE o.values # <<>>
    <3>1. PICK y : y = Join(CommaQuotes(o.values))
      OBVIOUS
    <3>2. ShellWords(o) = <<o.flag, y>>
      BY <1>7, <2>5, <3>1 DEF ShellWords
    <3>3. y \in Strings /\ y \notin Flags /\ QemuSplit(y) = o.values
      BY <2>1, <2>5, <3>1, ListableType, CommaQuotesMore, JoinMore, NoFlag, ListReadBack
    <3> QED
      BY <1>1, <1>4, <2>1, <2>3, <3>2, <3>3, OneOption DEF BeginsWithFlag
  <2> QED
    BY <2>4, <2>5
<1>8. CASE o.type = "ARG_NOQUOTE"
  <2>1. ShellWords(o) = <<o.flag>> \o Sh(o.value) /\ o.flag \in Flags /\ o.flag \in Strings
        /\ o.value \in Strings /\ Complete(o.value)
    BY <1>8, ProperFacts DEF ShellWords
  <2>2. c.call = "noquote"
    BY <1>2, <1>8 DEF CallOf
  <2>3. Meant(c, TRUE) = QemuReads(<<o.flag>> \o Sh(o.value))
    BY <1>2, <2>2 DEF Meant
  <2>4. Sh(o.value) \in Seq(Strings)
    <3>1. <<>> \in Seq(Strings)
      BY SeqFacts
    <3> QED
      BY <2>1, <3>1, ShComplete
  <2>5. \A V \in Seq(Strings), f \in Strings : (<<f>> \o V)[1] = f
    OBVIOUS
  <2> QED
    BY <1>1, <2>1, <2>3, <2>4, <2>5 DEF BeginsWithFlag
<1>9. CASE o.type = "RAW"
  <2>1. ShellWords(o) = Sh(o.value) /\ o.value \in Raws
    BY <1>9, ProperFacts DEF ShellWords
  <2>2. c.call = "raw"
    BY <1>2, <1>9 DEF CallOf
  <2>3. Meant(c, TRUE) = QemuReads(Sh(o.value))
    BY <1>2, <2>2 DEF Meant
  <2>4. BeginsWithFlag(Sh(o.value))
    BY <2>1, StringsAssumption DEF StringsAssumption, BeginsWithFlag
  <2> QED
    BY <1>1, <2>1, <2>3, <2>4
<1> QED
  BY <1>3, <1>5, <1>6, <1>7, <1>8, <1>9 DEF Kinds

(* Options that can be an argument list.                                     *)
Listed == {o \in Proper : o.type # "RAW" /\ (o.type = "ARG_LIST" => o.values # <<>>)}

LEMMA ArgvMeant ==
  ASSUME NEW o \in Listed
  PROVE  ArgvWords(o) \in Words /\ BeginsWithFlag(ArgvWords(o))
         /\ QemuReads(ArgvWords(o)) = Meant(Request(o), FALSE)
<1>0. o \in Proper /\ o.type # "RAW" /\ (o.type = "ARG_LIST" => o.values # <<>>)
  BY DEF Listed
<1>1. PICK c : c = Request(o)
  OBVIOUS
<1>2. c.call = CallOf[o.type] /\ c.flag = o.flag /\ c.value = o.value /\ c.values = o.values
  BY <1>1 DEF Request
<1>3. o.type \in Kinds /\ o.flag \in Flags /\ o.flag \in Strings
  BY <1>0, ProperFacts
<1>4. \A f \in Flags : \A w : <<f, w>>[1] = f /\ <<f>>[1] = f
  OBVIOUS
<1>5. \A f \in Strings, w \in Strings : <<f>> \in Words /\ <<f, w>> \in Words
  BY SeqFacts DEF Words
<1>6. CASE o.type = "FLAG"
  <2>1. ArgvWords(o) = <<o.flag>> /\ o.values = <<>>
    BY <1>0, <1>6, ProperFacts DEF ArgvWords
  <2>2. c.call = "flag"
    BY <1>2, <1>6 DEF CallOf
  <2>3. Meant(c, FALSE) = <<[flag |-> o.flag, values |-> <<>>]>>
    BY <1>2, <2>1, <2>2 DEF Meant
  <2> QED
    BY <1>1, <1>3, <1>4, <1>5, <2>1, <2>3, OneOption DEF BeginsWithFlag
<1>7. CASE o.type = "ARG"
  <2>1. ArgvWords(o) = <<o.flag, CommaQuote(o.value)>> /\ o.value \in Values /\ o.value \in Strings
    BY <1>0, <1>7, ProperFacts DEF ArgvWords
  <2>2. c.call = "arg"
    BY <1>2, <1>7 DEF CallOf
  <2>3. Meant(c, FALSE) = <<[flag |-> o.flag, values |-> <<o.value>>]>>
    BY <1>2, <2>2 DEF Meant
  <2>4. CommaQuote(o.value) \in Strings /\ CommaQuote(o.value) \notin Flags
        /\ QemuSplit(CommaQuote(o.value)) = <<o.value>>
    BY <2>1, CommaQuoteMore, NoFlag, ValueReadBack
  <2> QED
    BY <1>1, <1>3, <1>4, <1>5, <2>1, <2>3, <2>4, OneOption DEF BeginsWithFlag
<1>8. CASE o.type = "ARG_LIST"
  <2>1. o.values \in Seq(Elements) /\ o.values \in Seq(Listable) /\ o.values # <<>>
    BY <1>0, <1>8, ProperFacts
  <2>2. c.call = "start"
    BY <1>2, <1>8 DEF CallOf
  <2>3. Meant(c, FALSE) = <<[flag |-> o.flag, values |-> o.values]>>
    BY <1>2, <2>2 DEF Meant
  <2>4. PICK y : y = Join(CommaQuotes(o.values))
    OBVIOUS
  <2>5. ArgvWords(o) = <<o.flag, y>>
    BY <1>8, <2>4 DEF ArgvWords, CommaQuotes
  <2>6. y \in Strings /\ y \notin Flags /\ QemuSplit(y) = o.values
    BY <2>1, <2>4, ListableType, CommaQuotesMore, JoinMore, NoFlag, ListReadBack
  <2> QED
    BY <1>1, <1>3, <1>4, <1>5, <2>3, <2>5, <2>6, OneOption DEF BeginsWithFlag
<1>9. CASE o.type = "ARG_NOQUOTE"
  <2>1. ArgvWords(o) = <<o.flag, o.value>> /\ o.value \in Strings
    BY <1>0, <1>9, ProperFacts DEF ArgvWords
  <2>2. c.call = "noquote"
    BY <1>2, <1>9 DEF CallOf
  <2>3. Meant(c, FALSE) = QemuReads(<<o.flag>> \o <<o.value>>)
    BY <1>2, <2>2 DEF Meant
  <2>4. <<o.flag>> \o <<o.value>> = <<o.flag, o.value>>
    <3>1. <<o.flag>> \o <<o.value>> = Append(<<o.flag>>, o.value)
      BY <1>3, <2>1, WordFacts
    <3>2. Append(<<o.flag>>, o.value) = <<o.flag, o.value>>
      BY <1>3, <2>1, WordFacts
    <3> QED
      BY <3>1, <3>2
  <2> QED
    BY <1>1, <1>3, <1>4, <1>5, <2>1, <2>3, <2>4 DEF BeginsWithFlag
<1> QED
  BY <1>0, <1>3, <1>6, <1>7, <1>8, <1>9 DEF Kinds

-----------------------------------------------------------------------------
-----------------------------------------------------------------------------
(* What was asked for, call by call.                                         *)
Calls == [call : {"flag", "arg", "noquote", "raw", "start", "append"}, flag : Strings, value : Strings]

Asks == [call : {"flag", "arg", "noquote", "raw", "start"}, flag : Strings, value : Strings,
         values : Seq(Strings)]

AskStates == Seq(Asks)

LEMMA AskedStepType ==
  ASSUME NEW os \in AskStates, NEW c \in Calls
  PROVE  AskedStep(os, c) \in AskStates
<1>0. os \in Seq(Asks)
  BY DEF AskStates
<1>1. CASE c.call # "append"
  <2>1. PICK r : r = [call |-> c.call, flag |-> c.flag, value |-> c.value, values |-> <<>>]
    OBVIOUS
  <2>2. r \in Asks
    <3>1. <<>> \in Seq(Strings)
      OBVIOUS
    <3> QED
      BY <1>1, <2>1, <3>1 DEF Calls, Asks
  <2>3. AskedStep(os, c) = Append(os, r)
    BY <1>1, <2>1 DEF AskedStep
  <2>4. Append(os, r) \in Seq(Asks)
    BY <1>0, <2>2
  <2> QED
    BY <2>3, <2>4 DEF AskStates
<1>2. CASE c.call = "append" /\ Len(os) = 0
  <2>1. AskedStep(os, c) = [os EXCEPT ![Len(os)].values = Append(@, c.value)]
    BY <1>2 DEF AskedStep
  <2>2. os = <<>> /\ AskedStep(os, c) = <<>>
    BY <1>0, <1>2, <2>1
  <2> QED
    BY <2>2 DEF AskStates
<1>3. CASE c.call = "append" /\ Len(os) # 0
  <2>1. PICK n : n = Len(os)
    OBVIOUS
  <2>2. n \in 1 .. Len(os)
    BY <1>0, <1>3, <2>1
  <2>3. PICK o : o = os[n]
    OBVIOUS
  <2>4. o \in Asks
    BY <1>0, <2>2, <2>3
  <2>5. o.values \in Seq(Strings) /\ c.value \in Strings
    BY <2>4 DEF Asks, Calls
  <2>6. Append(o.values, c.value) \in Seq(Strings)
    BY <2>5
  <2>7. PICK p : p = [o EXCEPT !.values = Append(o.values, c.value)]
    OBVIOUS
  <2>8. p \in Asks
    BY <2>4, <2>6, <2>7 DEF Asks
  <2>9. AskedStep(os, c) = [os EXCEPT ![n] = p]
    BY <1>3, <2>1, <2>3, <2>7 DEF AskedStep
  <2>10. [os EXCEPT ![n] = p] \in Seq(Asks)
    BY <1>0, <2>2, <2>8
  <2> QED
    BY <2>9, <2>10 DEF AskStates
<1> QED
  BY <1>1, <1>2, <1>3

AskReader == [s \in AskStates |-> [c \in Calls |-> AskedStep(s, c)]]

LEMMA AskIsReader == AskReader \in Readers(AskStates, Calls)
BY AskedStepType DEF AskReader, Readers

LEMMA AskedByReads ==
  ASSUME NEW cs \in Seq(Calls)
  PROVE  AskedBy(cs) = ReadBy(AskReader, AskStates, <<>>, cs)
<1> DEFINE run[n \in 0 .. Len(cs)] == IF n = 0 THEN <<>> ELSE AskedStep(run[n - 1], cs[n])
<1>0. /\ <<>> \in AskStates /\ Len(cs) \in Nat
      /\ \A i \in 1 .. Len(cs) : cs[i] \in Calls
  BY DEF AskStates
<1>1. AskedBy(cs) = run[Len(cs)]
  BY DEF AskedBy, Run
<1>2. run = CHOOSE h : h = [n \in 0 .. Len(cs) |-> IF n = 0 THEN <<>> ELSE AskedStep(h[n - 1], cs[n])]
  BY DEF run
<1> HIDE DEF run
<1>3. PICK g \in RunsBy(AskReader, AskStates, <<>>, cs) : TRUE
  BY <1>0, AskIsReader, RunExists
<1>4. g \in [0 .. Len(cs) -> AskStates] /\ g[0] = <<>>
      /\ \A i \in 1 .. Len(cs) : g[i] = AskReader[g[i - 1]][cs[i]]
  BY DEF RunsBy
<1>5. g = [n \in 0 .. Len(cs) |-> IF n = 0 THEN <<>> ELSE AskedStep(g[n - 1], cs[n])]
  <2>1. ASSUME NEW n \in 0 .. Len(cs)
        PROVE  g[n] = IF n = 0 THEN <<>> ELSE AskedStep(g[n - 1], cs[n])
    <3>1. CASE n # 0
      <4>1. n \in 1 .. Len(cs) /\ n - 1 \in 0 .. Len(cs)
        BY <1>0, <3>1
      <4>2. g[n - 1] \in AskStates /\ cs[n] \in Calls
        BY <1>0, <1>4, <4>1
      <4> QED
        BY <1>4, <3>1, <4>1, <4>2 DEF AskReader
    <3> QED
      BY <1>4, <3>1
  <2> QED
    BY <1>4, <2>1
<1>6. run = [n \in 0 .. Len(cs) |-> IF n = 0 THEN <<>> ELSE AskedStep(run[n - 1], cs[n])]
  BY <1>2, <1>5
<1>7. ASSUME NEW i \in 1 .. Len(cs), run[i - 1] \in AskStates
      PROVE  run[i] = AskReader[run[i - 1]][cs[i]]
  <2>1. i \in 0 .. Len(cs) /\ i # 0
    BY <1>0
  <2>2. run[i] = AskedStep(run[i - 1], cs[i])
    BY <1>6, <2>1
  <2> QED
    BY <1>0, <1>7, <2>2 DEF AskReader
<1>8. run[0] = <<>>
  BY <1>0, <1>6
<1> QED
  BY <1>0, <1>1, <1>7, <1>8, AskIsReader, SameRun

LEMMA AskedMore ==
  /\ AskedBy(<<>>) = <<>>
  /\ \A cs \in Seq(Calls), c \in Calls : AskedBy(Append(cs, c)) = AskedStep(AskedBy(cs), c)
<1>0. <<>> \in AskStates
  BY DEF AskStates
<1>1. AskedBy(<<>>) = <<>>
  <2>1. <<>> \in Seq(Calls)
    OBVIOUS
  <2> QED
    BY <1>0, <2>1, AskedByReads, AskIsReader, ReadsNothing
<1>2. ASSUME NEW cs \in Seq(Calls), NEW c \in Calls
      PROVE  AskedBy(Append(cs, c)) = AskedStep(AskedBy(cs), c)
  <2>1. Append(cs, c) \in Seq(Calls)
    OBVIOUS
  <2>2. ReadBy(AskReader, AskStates, <<>>, Append(cs, c))
          = AskReader[ReadBy(AskReader, AskStates, <<>>, cs)][c]
    BY <1>0, AskIsReader, ReadsMore
  <2>3. ReadBy(AskReader, AskStates, <<>>, cs) \in AskStates
    BY <1>0, AskIsReader, ReadsInto
  <2>4. AskedBy(Append(cs, c)) = ReadBy(AskReader, AskStates, <<>>, Append(cs, c))
        /\ AskedBy(cs) = ReadBy(AskReader, AskStates, <<>>, cs)
    BY <2>1, AskedByReads
  <2> QED
    BY <2>2, <2>3, <2>4 DEF AskReader
<1> QED
  BY <1>1, <1>2

Requests(os) == [i \in DOMAIN os |-> Request(os[i])]

LEMMA RequestsMore ==
  /\ Requests(<<>>) = <<>>
  /\ \A os \in Seq(Qopts), o \in Qopts : Requests(Append(os, o)) = Append(Requests(os), Request(o))
  /\ \A os \in Seq(Qopts), o \in Qopts :
       os # <<>> => /\ Len(Requests(os)) = Len(os)
                    /\ Requests([os EXCEPT ![Len(os)] = o]) = [Requests(os) EXCEPT ![Len(os)] = Request(o)]
<1>1. Requests(<<>>) = <<>>
  BY DEF Requests
<1>2. ASSUME NEW os \in Seq(Qopts), NEW o \in Qopts
      PROVE  Requests(Append(os, o)) = Append(Requests(os), Request(o))
  <2>1. PICK n \in Nat : n = Len(os)
    OBVIOUS
  <2>2. PICK all : all = Append(os, o)
    OBVIOUS
  <2>3. Len(all) = n + 1 /\ all[n + 1] = o /\ (\A i \in 1 .. n : all[i] = os[i]) /\ DOMAIN all = 1 .. n + 1
        /\ DOMAIN os = 1 .. n
    BY <2>1, <2>2
  <2>4. PICK X : X = {Request(p) : p \in Qopts}
    OBVIOUS
  <2>5. Requests(os) = [i \in 1 .. n |-> Request(os[i])]
    BY <2>3 DEF Requests
  <2>6. \A i \in 1 .. n : Request(os[i]) \in X
    BY <2>1, <2>4
  <2>7. PICK s : s = Requests(os)
    OBVIOUS
  <2>8. s \in Seq(X) /\ Len(s) = n /\ \A i \in 1 .. n : s[i] = Request(os[i])
    BY <2>5, <2>6, <2>7
  <2>9. PICK x \in X : x = Request(o)
    BY <2>4
  <2>10. Append(s, x) = [i \in 1 .. n + 1 |-> IF i = n + 1 THEN x ELSE s[i]]
    <3>1. PICK more : more = Append(s, x)
      OBVIOUS
    <3>2. more \in Seq(X) /\ Len(more) = n + 1 /\ more[n + 1] = x /\ \A i \in 1 .. n : more[i] = s[i]
      BY <2>8, <3>1
    <3>3. more = [i \in 1 .. n + 1 |-> more[i]]
      BY <3>2
    <3>4. \A i \in 1 .. n + 1 : more[i] = IF i = n + 1 THEN x ELSE s[i]
      BY <3>2
    <3> QED
      BY <3>1, <3>3, <3>4
  <2>11. Requests(all) = [i \in 1 .. n + 1 |-> Request(all[i])]
    BY <2>3 DEF Requests
  <2>12. \A i \in 1 .. n + 1 : Request(all[i]) = IF i = n + 1 THEN x ELSE s[i]
    BY <2>3, <2>8, <2>9
  <2>13. Requests(all) = Append(s, x)
    BY <2>10, <2>11, <2>12
  <2> QED
    BY <2>2, <2>7, <2>9, <2>13
<1>3. ASSUME NEW os \in Seq(Qopts), NEW o \in Qopts, os # <<>>
      PROVE  /\ Len(Requests(os)) = Len(os)
             /\ Requests([os EXCEPT ![Len(os)] = o]) = [Requests(os) EXCEPT ![Len(os)] = Request(o)]
  <2>1. PICK n \in Nat : n = Len(os)
    OBVIOUS
  <2>2. DOMAIN os = 1 .. n
    BY <2>1
  <2>3. PICK all : all = [os EXCEPT ![n] = o]
    OBVIOUS
  <2>4. DOMAIN all = 1 .. n /\ \A i \in 1 .. n : all[i] = IF i = n THEN o ELSE os[i]
    BY <2>1, <2>2, <2>3
  <2>5. Requests(os) = [i \in 1 .. n |-> Request(os[i])]
    BY <2>2 DEF Requests
  <2>6. Requests(all) = [i \in 1 .. n |-> Request(all[i])]
    BY <2>4 DEF Requests
  <2>7. [Requests(os) EXCEPT ![n] = Request(o)] = [i \in 1 .. n |-> IF i = n THEN Request(o) ELSE Request(os[i])]
    BY <2>5
  <2>8. Requests(all) = [Requests(os) EXCEPT ![n] = Request(o)]
    BY <2>4, <2>6, <2>7
  <2>9. Len(Requests(os)) = n
    BY <2>5
  <2> QED
    BY <2>1, <2>3, <2>8, <2>9
<1> QED
  BY <1>1, <1>2, <1>3

-----------------------------------------------------------------------------
ListInv ==
  /\ options \in Seq(Qopts)
  /\ nr_alloc \in Nat /\ allocated \in Nat /\ failures \in Nat
  /\ Len(options) <= allocated /\ allocated <= nr_alloc
  /\ failures = 0 => allocated = nr_alloc /\ pc # "undefined"
  /\ in_list \in BOOLEAN
  /\ in_list => pc \in {"building", "undefined"}
  /\ in_list /\ pc = "building" => Len(options) > 0 /\ options[Len(options)].type = "ARG_LIST"

(* What the file is while it is being written.                               *)
FileInv ==
  /\ pc \in {"building", "opened", "written", "closing", "ok", "error", "abort", "undefined"}
  /\ writer \in {"none", "argv", "script", "config"}
  /\ pc \in {"building", "undefined"} => writer = "none" /\ file.state \in {"absent", "old"}
  /\ pc = "abort" => writer = "argv"
  /\ pc \in {"opened", "written", "closing"} => writer \in {"script", "config"}
  /\ pc \in {"written", "closing"} /\ writer = "script" => binary # NoBinary
  /\ pc = "closing" /\ writer = "script" => mode = "0755"
  /\ FileWholeOrGone

IInv == ListInv /\ FileInv

-----------------------------------------------------------------------------
LEMMA InitIInv == QemuoptsInit => IInv
<1> SUFFICES ASSUME QemuoptsInit PROVE IInv
  OBVIOUS
<1>1. options = <<>> /\ nr_alloc = 0 /\ allocated = 0 /\ failures = 0 /\ pc = "building"
      /\ writer = "none" /\ file.state \in {"absent", "old"}
  BY DEF QemuoptsInit
<1>2. in_list \in BOOLEAN /\ ~in_list
  BY Zenon DEF QemuoptsInit
<1>3. options \in Seq(Qopts) /\ Len(options) = 0
  BY <1>1
<1>4. ListInv
  BY <1>1, <1>2, <1>3 DEF ListInv
<1>5. FileInv
  BY <1>1 DEF FileInv, FileWholeOrGone
<1>6. QED
  BY <1>4, <1>5 DEF IInv

(* An option goes to the end of the array, or outside it.                    *)
LEMMA ExtendKeepsList ==
  ASSUME ListInv, pc = "building", NEW o \in Qopts, Extend(o), UNCHANGED failures,
         in_list' \in BOOLEAN, in_list' => o.type = "ARG_LIST"
  PROVE  ListInv' /\ pc' \in {"building", "undefined"}
<1> USE DEF ListInv
<1>1. CASE Len(options) < nr_alloc
  <2>1. CASE Len(options) < allocated
    <3>1. pc' = "building" /\ options' = Append(options, o) /\ UNCHANGED <<nr_alloc, allocated>>
      BY <1>1, <2>1 DEF Extend
    <3>2. options' \in Seq(Qopts) /\ Len(options') = Len(options) + 1
          /\ options'[Len(options')] = o
      BY <3>1
    <3>3. QED
      BY <2>1, <3>1, <3>2
  <2>2. CASE ~(Len(options) < allocated)
    BY <1>1, <2>2 DEF Extend
  <2>3. QED
    BY <2>1, <2>2
<1>2. CASE ~(Len(options) < nr_alloc)
  <2>1. pc' = "building" /\ options' = Append(options, o) /\ allocated' = nr_alloc'
        /\ nr_alloc' = IF nr_alloc = 0 THEN 1 ELSE 2 * nr_alloc
    BY <1>2 DEF Extend
  <2>2. options' \in Seq(Qopts) /\ Len(options') = Len(options) + 1
        /\ options'[Len(options')] = o
    BY <2>1
  <2>3. Len(options) = nr_alloc
    BY <1>2
  <2>4. nr_alloc' \in Nat /\ Len(options') <= nr_alloc'
    BY <2>1, <2>2, <2>3
  <2>5. QED
    BY <2>1, <2>2, <2>4
<1>3. QED
  BY <1>1, <1>2

LEMMA ListStep ==
  ASSUME IInv, [QemuoptsNext]_qemuoptsVars
  PROVE  ListInv'
<1> USE DEF IInv
<1>1. \A t \in Kinds, f \in Flags \cup {<<>>}, v \in Values \cup Unquoted \cup Raws \cup {<<>>} :
        Qopt(t, f, v) \in Qopts /\ Qopt(t, f, v).type = t
  <2>1. <<>> \in Seq(Elements)
    OBVIOUS
  <2>2. QED
    BY <2>1 DEF Qopt, Qopts
<1>2. in_list \in BOOLEAN
  BY DEF ListInv
<1>3. ASSUME NEW f \in Flags, AddFlag(f) PROVE ListInv'
  <2>1. pc = "building" /\ Extend(Qopt("FLAG", f, <<>>)) /\ UNCHANGED failures
        /\ in_list' = in_list /\ ~in_list
    BY <1>3 DEF AddFlag, Called
  <2>2. Qopt("FLAG", f, <<>>) \in Qopts
    BY <1>1 DEF Kinds
  <2>3. QED
    BY <1>2, <2>1, <2>2, ExtendKeepsList
<1>4. ASSUME NEW f \in Flags, StartArgList(f) PROVE ListInv'
  <2>1. pc = "building" /\ Extend(Qopt("ARG_LIST", f, <<>>)) /\ UNCHANGED failures
        /\ in_list' = TRUE
    BY <1>4 DEF StartArgList, Called
  <2>2. Qopt("ARG_LIST", f, <<>>) \in Qopts /\ Qopt("ARG_LIST", f, <<>>).type = "ARG_LIST"
    BY <1>1 DEF Kinds
  <2>3. QED
    BY <2>1, <2>2, ExtendKeepsList
<1>5. ASSUME NEW f \in Flags, NEW v \in Values, AddArg(f, v) PROVE ListInv'
  <2>1. pc = "building" /\ Extend(Qopt("ARG", f, v)) /\ UNCHANGED failures
        /\ in_list' = in_list /\ ~in_list
    BY <1>5 DEF AddArg, Called
  <2>2. Qopt("ARG", f, v) \in Qopts
    BY <1>1 DEF Kinds
  <2>3. QED
    BY <1>2, <2>1, <2>2, ExtendKeepsList
<1>6. ASSUME NEW f \in Flags, NEW v \in Unquoted, AddArgNoquote(f, v) PROVE ListInv'
  <2>1. pc = "building" /\ Extend(Qopt("ARG_NOQUOTE", f, v)) /\ UNCHANGED failures
        /\ in_list' = in_list /\ ~in_list
    BY <1>6 DEF AddArgNoquote, Called
  <2>2. Qopt("ARG_NOQUOTE", f, v) \in Qopts
    BY <1>1 DEF Kinds
  <2>3. QED
    BY <1>2, <2>1, <2>2, ExtendKeepsList
<1>7. ASSUME NEW v \in Raws, AddRaw(v) PROVE ListInv'
  <2>1. pc = "building" /\ Extend(Qopt("RAW", <<>>, v)) /\ UNCHANGED failures
        /\ in_list' = in_list /\ ~in_list
    BY <1>7 DEF AddRaw, Called
  <2>2. Qopt("RAW", <<>>, v) \in Qopts
    BY <1>1 DEF Kinds
  <2>3. QED
    BY <1>2, <2>1, <2>2, ExtendKeepsList
<1>8. ASSUME NEW e \in Elements, AppendArgList(e) PROVE ListInv'
  <2> DEFINE n == Len(options)
             o == options[n]
             p == [o EXCEPT !.values = Append(@, e)]
  <2>1. n \in 1 .. Len(options) /\ options \in Seq(Qopts) /\ o.type = "ARG_LIST" /\ pc = "building"
    BY <1>8 DEF AppendArgList, Called, ListInv
  <2>2. o \in Qopts
    BY <2>1
  <2>3. Append(o.values, e) \in Seq(Elements)
    <3>1. o.values \in Seq(Elements)
      BY <2>2 DEF Qopts
    <3>2. QED
      BY <3>1
  <2>4. p \in Qopts /\ p.type = "ARG_LIST"
    BY <2>1, <2>2, <2>3 DEF Qopts
  <2>5. options' = [options EXCEPT ![n] = p]
    BY <1>8 DEF AppendArgList
  <2>6. /\ UNCHANGED <<nr_alloc, allocated, in_list, pc, failures>>
    BY <1>8 DEF AppendArgList, Called
  <2> HIDE DEF n, o, p
  <2>7. options' \in Seq(Qopts) /\ Len(options') = Len(options) /\ options'[n] = p
    BY <2>1, <2>4, <2>5
  <2>8. n = Len(options)
    BY DEF n
  <2>9. QED
    BY <2>1, <2>4, <2>6, <2>7, <2>8 DEF ListInv
<1>9. CASE CallFails \/ ToArgvFails \/ FopenFails \/ SetBinaryByArchFails \/ WriterFails
  BY <1>9 DEF CallFails, ToArgvFails, FopenFails, SetBinaryByArchFails, WriterFails, Unlinked, ListInv,
     list
<1>10. CASE ExtendFails
  BY <1>10 DEF ExtendFails, ListInv
<1>11. CASE EndArgList
  BY <1>11 DEF EndArgList, ListInv, list
<1>12. CASE ToArgv \/ Fopen \/ WriteChannel \/ Fchmod \/ Fclose \/ \E b \in Binaries : SetBinary(b)
  BY <1>12 DEF ToArgv, Fopen, WriteChannel, Fchmod, Fclose, SetBinary, Unlinked, ListInv, list
<1>13. CASE UNCHANGED qemuoptsVars
  BY <1>13 DEF qemuoptsVars, list, ListInv
<1>14. QED
  BY <1>3, <1>4, <1>5, <1>6, <1>7, <1>8, <1>9, <1>10, <1>11, <1>12, <1>13 DEF QemuoptsNext

LEMMA FileStep ==
  ASSUME IInv, [QemuoptsNext]_qemuoptsVars
  PROVE  FileInv'
<1> USE DEF IInv, FileInv, FileWholeOrGone
<1>1. ASSUME pc = "building", pc' \in {"building", "undefined"}, UNCHANGED <<writer, file>>
      PROVE  FileInv'
  BY <1>1
<1>2. ASSUME NEW o, pc = "building", Extend(o) PROVE pc' \in {"building", "undefined"}
  BY <1>2 DEF Extend
<1>3. ASSUME NEW f \in Flags, AddFlag(f) \/ StartArgList(f) PROVE FileInv'
  BY <1>1, <1>2, <1>3 DEF AddFlag, StartArgList, Called, written
<1>4. ASSUME NEW f \in Flags, NEW v \in Values, AddArg(f, v) PROVE FileInv'
  BY <1>1, <1>2, <1>4 DEF AddArg, Called, written
<1>5. ASSUME NEW f \in Flags, NEW v \in Unquoted, AddArgNoquote(f, v) PROVE FileInv'
  BY <1>1, <1>2, <1>5 DEF AddArgNoquote, Called, written
<1>6. ASSUME NEW v \in Raws, AddRaw(v) PROVE FileInv'
  BY <1>1, <1>2, <1>6 DEF AddRaw, Called, written
<1>7. ASSUME NEW e \in Elements, AppendArgList(e) PROVE FileInv'
  BY <1>1, <1>7 DEF AppendArgList, Called, written
<1>8. CASE EndArgList \/ CallFails \/ ExtendFails \/ SetBinaryByArchFails
           \/ \E b \in Binaries : SetBinary(b)
  BY <1>1, <1>8 DEF EndArgList, CallFails, ExtendFails, SetBinaryByArchFails, SetBinary, written
<1>9. CASE ToArgv
  BY <1>9 DEF ToArgv
<1>10. CASE ToArgvFails
  BY <1>10 DEF ToArgvFails, written
<1>11. CASE Fopen
  BY <1>11 DEF Fopen
<1>12. CASE FopenFails
  BY <1>12 DEF FopenFails, written
<1>13. CASE WriteChannel
  BY <1>13 DEF WriteChannel, Unlinked
<1>14. CASE Fchmod
  BY <1>14 DEF Fchmod
<1>15. CASE Fclose
  BY <1>15 DEF Fclose
<1>16. CASE WriterFails
  BY <1>16 DEF WriterFails, Unlinked
<1>17. CASE UNCHANGED qemuoptsVars
  BY <1>17 DEF qemuoptsVars, written
<1>18. QED
  BY <1>3, <1>4, <1>5, <1>6, <1>7, <1>8, <1>9, <1>10, <1>11, <1>12, <1>13, <1>14, <1>15, <1>16,
     <1>17 DEF QemuoptsNext

LEMMA Invariant == QemuoptsSpec => []IInv
<1>1. IInv /\ [QemuoptsNext]_qemuoptsVars => IInv'
  BY ListStep, FileStep DEF IInv
<1>2. QED
  BY InitIInv, <1>1, PTL DEF QemuoptsSpec

(* The options are always inside the array, and while no call has failed     *)
(* nothing is written outside it; the list calls find a list at the end.     *)
THEOREM TypeCorrect == QemuoptsSpec => []QemuoptsTypeOK
<1>1. IInv => QemuoptsTypeOK
  <2> SUFFICES ASSUME IInv PROVE QemuoptsTypeOK
    OBVIOUS
  <2>1. Types \subseteq Kinds
    <3>1. ASSUME NEW i \in DOMAIN options PROVE options[i].type \in Kinds
      <4>1. options[i] \in Qopts
        BY DEF IInv, ListInv
      <4>2. QED
        BY <4>1 DEF Qopts
    <3>2. QED
      BY <3>1 DEF Types
  <2>2. pc = "undefined" => failures > 0
    BY DEF IInv, ListInv
  <2>3. in_list /\ pc = "building" => options # <<>> /\ options[Len(options)].type = "ARG_LIST"
    BY DEF IInv, ListInv
  <2>4. QED
    BY <2>1, <2>2, <2>3 DEF IInv, ListInv, FileInv, Kinds, QemuoptsTypeOK
<1>2. QED
  BY Invariant, <1>1, PTL

(* Whichever call fails, and whatever the options are, a script or file that *)
(* is reported as written is there in full, and executable if it is a script,*)
(* and one that is reported as failed is not there in part.                  *)
THEOREM FileCorrect == QemuoptsSpec => []FileWholeOrGone
<1>1. IInv => FileWholeOrGone
  BY DEF IInv, FileInv
<1>2. QED
  BY Invariant, <1>1, PTL

-----------------------------------------------------------------------------
(* The options are those that were asked for, and what is written is theirs. *)
AskedInv ==
  /\ calls \in Seq(Calls)
  /\ pc # "undefined" => options \in Seq(Proper) /\ Asked = Requests(options)

ContentInv ==
  /\ binary \in Binaries \cup {NoBinary}
  /\ pc = "ok" /\ writer = "argv" =>
       /\ binary # NoBinary /\ options \in Seq(Listed)
       /\ argv = <<binary>> \o FlattenSeq([i \in DOMAIN options |-> ArgvWords(options[i])])
  /\ pc = "ok" /\ writer \in {"script", "config"} => file.content \in Outputs

WInv == IInv /\ AskedInv /\ ContentInv

LEMMA QoptFacts ==
  /\ \A f \in Flags : /\ f \in Strings
                      /\ Qopt("FLAG", f, <<>>) \in Proper /\ Qopt("ARG_LIST", f, <<>>) \in Proper
  /\ \A f \in Flags, v \in Values : v \in Strings /\ Qopt("ARG", f, v) \in Proper
  /\ \A f \in Flags, v \in Unquoted : v \in Strings /\ Qopt("ARG_NOQUOTE", f, v) \in Proper
  /\ \A v \in Raws : v \in Strings /\ Qopt("RAW", <<>>, v) \in Proper
  /\ \A e \in Elements : e \in Strings
<1>1. <<>> \in Seq(Elements)
  OBVIOUS
<1>2. /\ \A f \in Flags : f \in Strings
      /\ \A v \in Values \cup Unquoted \cup Raws \cup Elements : v \in Strings
  BY StringsAssumption DEF StringsAssumption, Strings
<1>3. \A t \in Kinds, f \in Flags \cup {<<>>}, v \in Values \cup Unquoted \cup Raws \cup {<<>>} :
        Qopt(t, f, v) \in Qopts /\ Qopt(t, f, v).type = t /\ Qopt(t, f, v).flag = f
        /\ Qopt(t, f, v).value = v /\ Qopt(t, f, v).values = <<>>
  BY <1>1 DEF Qopt, Qopts
<1>4. ASSUME NEW f \in Flags PROVE Qopt("FLAG", f, <<>>) \in Proper /\ Qopt("ARG_LIST", f, <<>>) \in Proper
  <2>1. "FLAG" \in Kinds /\ "ARG_LIST" \in Kinds
    BY DEF Kinds
  <2> QED
    BY <1>3, <2>1 DEF Proper
<1>5. ASSUME NEW f \in Flags, NEW v \in Values PROVE Qopt("ARG", f, v) \in Proper
  <2>1. "ARG" \in Kinds
    BY DEF Kinds
  <2> QED
    BY <1>3, <2>1 DEF Proper
<1>6. ASSUME NEW f \in Flags, NEW v \in Unquoted PROVE Qopt("ARG_NOQUOTE", f, v) \in Proper
  <2>1. "ARG_NOQUOTE" \in Kinds
    BY DEF Kinds
  <2> QED
    BY <1>3, <2>1 DEF Proper
<1>7. ASSUME NEW v \in Raws PROVE Qopt("RAW", <<>>, v) \in Proper
  <2>1. "RAW" \in Kinds
    BY DEF Kinds
  <2> QED
    BY <1>3, <2>1 DEF Proper
<1> QED
  BY <1>2, <1>4, <1>5, <1>6, <1>7

LEMMA ProperQopts == \A os \in Seq(Proper) : os \in Seq(Qopts)
<1>1. Proper \subseteq Qopts
  BY DEF Proper
<1> QED
  BY <1>1

(* A call that adds an option.                                               *)
LEMMA AddedAsAsked ==
  ASSUME AskedInv, pc = "building", NEW o \in Proper, o.values = <<>>, o.flag \in Strings, o.value \in Strings,
         Extend(o), calls' = Append(calls, [call |-> CallOf[o.type], flag |-> o.flag, value |-> o.value])
  PROVE  AskedInv'
<1>1. PICK c : c = [call |-> CallOf[o.type], flag |-> o.flag, value |-> o.value]
  OBVIOUS
<1>2. CallOf[o.type] \in {"flag", "arg", "noquote", "raw", "start"} /\ CallOf[o.type] # "append"
  <2>1. o.type \in {"FLAG", "ARG", "ARG_NOQUOTE", "RAW", "ARG_LIST"}
    BY ProperFacts DEF Kinds
  <2> QED
    BY <2>1 DEF CallOf
<1>3. c \in Calls /\ c.call # "append"
  BY <1>1, <1>2 DEF Calls
<1>4. calls \in Seq(Calls) /\ calls' = Append(calls, c) /\ options \in Seq(Proper) /\ Asked = Requests(options)
  BY <1>1 DEF AskedInv
<1>5. calls' \in Seq(Calls)
  BY <1>3, <1>4
<1>6. Asked' = AskedStep(Asked, c)
  BY <1>3, <1>4, AskedMore DEF Asked
<1>7. Asked' = Append(Asked, Request(o))
  BY <1>1, <1>3, <1>6 DEF AskedStep, Request
<1>8. CASE pc' = "undefined"
  BY <1>5, <1>8 DEF AskedInv
<1>9. CASE pc' # "undefined"
  <2>1. options' = Append(options, o)
    BY <1>9 DEF Extend
  <2>2. options' \in Seq(Proper)
    BY <1>4, <2>1
  <2>3. o \in Qopts /\ options \in Seq(Qopts)
    BY <1>4, ProperQopts DEF Proper
  <2>4. Asked' = Requests(options')
    BY <1>4, <1>7, <2>1, <2>3, RequestsMore
  <2> QED
    BY <1>5, <2>2, <2>4 DEF AskedInv
<1> QED
  BY <1>8, <1>9

LEMMA AppendedAsAsked ==
  ASSUME IInv, AskedInv, NEW e \in Elements, AppendArgList(e)
  PROVE  AskedInv'
<1>1. PICK c : c = [call |-> "append", flag |-> <<>>, value |-> e]
  OBVIOUS
<1>2. e \in Strings /\ <<>> \in Strings
  BY QoptFacts, StringFacts
<1>3. c \in Calls /\ c.call = "append" /\ c.value = e
  BY <1>1, <1>2 DEF Calls
<1>4. calls' = Append(calls, c) /\ pc = "building" /\ in_list /\ pc' = pc
      /\ options' = [options EXCEPT ![Len(options)].values = Append(@, e)]
  BY <1>1 DEF AppendArgList, Called
<1>5. calls \in Seq(Calls) /\ options \in Seq(Proper) /\ Asked = Requests(options) /\ options \in Seq(Qopts)
  BY <1>4, ProperQopts DEF AskedInv
<1>6. calls' \in Seq(Calls)
  BY <1>3, <1>4, <1>5
<1>7. PICK n : n = Len(options)
  OBVIOUS
<1>8. n \in 1 .. Len(options) /\ options # <<>> /\ options[n].type = "ARG_LIST"
  <2>1. Len(options) > 0 /\ options[n].type = "ARG_LIST"
    BY <1>4, <1>7 DEF IInv, ListInv
  <2> QED
    BY <1>5, <1>7, <2>1
<1>9. PICK o : o = options[n]
  OBVIOUS
<1>10. PICK p : p = [o EXCEPT !.values = Append(@, e)]
  OBVIOUS
<1>11. o \in Proper /\ o.type = "ARG_LIST" /\ o.values \in Seq(Elements)
  BY <1>5, <1>8, <1>9, ProperFacts
<1>12. p \in Proper
  <2>1. Append(o.values, e) \in Seq(Elements)
    BY <1>11
  <2>2. p \in Qopts /\ p.type = "ARG_LIST" /\ p.flag = o.flag
    BY <1>10, <1>11, <2>1 DEF Proper, Qopts
  <2> QED
    BY <1>11, <2>2 DEF Proper
<1>13. options' = [options EXCEPT ![n] = p]
  BY <1>4, <1>7, <1>9, <1>10
<1>14. options' \in Seq(Proper)
  BY <1>5, <1>8, <1>12, <1>13
<1>15. Asked' = AskedStep(Asked, c)
  BY <1>3, <1>4, <1>5, AskedMore DEF Asked
<1>16. PICK r : r = Requests(options)
  OBVIOUS
<1>17. Len(r) = n /\ Requests(options') = [r EXCEPT ![n] = Request(p)]
  BY <1>5, <1>7, <1>8, <1>12, <1>13, <1>16, RequestsMore DEF Proper
<1>18. Asked' = [r EXCEPT ![n].values = Append(@, e)]
  BY <1>3, <1>5, <1>15, <1>16, <1>17 DEF AskedStep
<1>19. r[n] = Request(o)
  BY <1>8, <1>9, <1>16 DEF Requests
<1>20. [Request(o) EXCEPT !.values = Append(@, e)] = Request(p)
  <2>1. PICK t \in {CallOf[o.type]} : TRUE
    OBVIOUS
  <2>2. Request(o) = [call |-> t, flag |-> o.flag, value |-> o.value, values |-> o.values]
    BY <2>1 DEF Request
  <2>3. o \in Qopts
    BY <1>11 DEF Proper
  <2>4. p.type = o.type /\ p.flag = o.flag /\ p.value = o.value /\ p.values = Append(o.values, e)
    BY <1>10, <2>3 DEF Qopts
  <2>5. Request(p) = [call |-> t, flag |-> o.flag, value |-> o.value, values |-> Append(o.values, e)]
    BY <2>1, <2>4 DEF Request
  <2> QED
    BY <2>2, <2>5
<1>21. Asked' = Requests(options')
  BY <1>17, <1>18, <1>19, <1>20
<1> QED
  BY <1>6, <1>14, <1>21 DEF AskedInv

LEMMA AskedStays ==
  ASSUME AskedInv, pc # "undefined", UNCHANGED <<calls, options>>
  PROVE  AskedInv'
<1>1. calls \in Seq(Calls) /\ options \in Seq(Proper) /\ Asked = Requests(options)
  BY DEF AskedInv
<1>2. Asked' = Asked
  BY DEF Asked
<1> QED
  BY <1>1, <1>2 DEF AskedInv

LEMMA AskedInvStep ==
  ASSUME IInv, AskedInv, [QemuoptsNext]_qemuoptsVars
  PROVE  AskedInv'
<1>0. \A t, f, v : LET o == Qopt(t, f, v)
                   IN  o.type = t /\ o.flag = f /\ o.value = v /\ o.values = <<>>
  BY DEF Qopt
<1>1. <<>> \in Strings
  BY StringFacts
<1>2. ASSUME NEW f \in Flags, AddFlag(f) PROVE AskedInv'
  <2>1. PICK o : o = Qopt("FLAG", f, <<>>)
    OBVIOUS
  <2>2. o \in Proper /\ o.type = "FLAG" /\ o.flag = f /\ o.value = <<>> /\ o.values = <<>> /\ f \in Strings
    BY <1>0, <2>1, QoptFacts
  <2>3. CallOf["FLAG"] = "flag"
    BY DEF CallOf
  <2>4. pc = "building" /\ Extend(o) /\ calls' = Append(calls, [call |-> "flag", flag |-> f, value |-> <<>>])
    BY <1>2, <2>1 DEF AddFlag, Called
  <2> QED
    BY <1>1, <2>2, <2>3, <2>4, AddedAsAsked
<1>3. ASSUME NEW f \in Flags, StartArgList(f) PROVE AskedInv'
  <2>1. PICK o : o = Qopt("ARG_LIST", f, <<>>)
    OBVIOUS
  <2>2. o \in Proper /\ o.type = "ARG_LIST" /\ o.flag = f /\ o.value = <<>> /\ o.values = <<>> /\ f \in Strings
    BY <1>0, <2>1, QoptFacts
  <2>3. CallOf["ARG_LIST"] = "start"
    BY DEF CallOf
  <2>4. pc = "building" /\ Extend(o) /\ calls' = Append(calls, [call |-> "start", flag |-> f, value |-> <<>>])
    BY <1>3, <2>1 DEF StartArgList, Called
  <2> QED
    BY <1>1, <2>2, <2>3, <2>4, AddedAsAsked
<1>4. ASSUME NEW f \in Flags, NEW v \in Values, AddArg(f, v) PROVE AskedInv'
  <2>1. PICK o : o = Qopt("ARG", f, v)
    OBVIOUS
  <2>2. o \in Proper /\ o.type = "ARG" /\ o.flag = f /\ o.value = v /\ o.values = <<>> /\ f \in Strings
        /\ v \in Strings
    BY <1>0, <2>1, QoptFacts
  <2>3. CallOf["ARG"] = "arg"
    BY DEF CallOf
  <2>4. pc = "building" /\ Extend(o) /\ calls' = Append(calls, [call |-> "arg", flag |-> f, value |-> v])
    BY <1>4, <2>1 DEF AddArg, Called
  <2> QED
    BY <1>1, <2>2, <2>3, <2>4, AddedAsAsked
<1>5. ASSUME NEW f \in Flags, NEW v \in Unquoted, AddArgNoquote(f, v) PROVE AskedInv'
  <2>1. PICK o : o = Qopt("ARG_NOQUOTE", f, v)
    OBVIOUS
  <2>2. o \in Proper /\ o.type = "ARG_NOQUOTE" /\ o.flag = f /\ o.value = v /\ o.values = <<>> /\ f \in Strings
        /\ v \in Strings
    BY <1>0, <2>1, QoptFacts
  <2>3. CallOf["ARG_NOQUOTE"] = "noquote"
    BY DEF CallOf
  <2>4. pc = "building" /\ Extend(o) /\ calls' = Append(calls, [call |-> "noquote", flag |-> f, value |-> v])
    BY <1>5, <2>1 DEF AddArgNoquote, Called
  <2> QED
    BY <1>1, <2>2, <2>3, <2>4, AddedAsAsked
<1>6. ASSUME NEW v \in Raws, AddRaw(v) PROVE AskedInv'
  <2>1. PICK o : o = Qopt("RAW", <<>>, v)
    OBVIOUS
  <2>2. o \in Proper /\ o.type = "RAW" /\ o.flag = <<>> /\ o.value = v /\ o.values = <<>> /\ v \in Strings
    BY <1>0, <2>1, QoptFacts
  <2>3. CallOf["RAW"] = "raw"
    BY DEF CallOf
  <2>4. pc = "building" /\ Extend(o) /\ calls' = Append(calls, [call |-> "raw", flag |-> <<>>, value |-> v])
    BY <1>6, <2>1 DEF AddRaw, Called
  <2> QED
    BY <1>1, <2>2, <2>3, <2>4, AddedAsAsked
<1>7. CASE CallFails \/ ToArgvFails \/ FopenFails \/ SetBinaryByArchFails \/ EndArgList \/ ExtendFails
           \/ \E b \in Binaries : SetBinary(b)
  <2>1. pc # "undefined" /\ UNCHANGED <<calls, options>>
    BY <1>7 DEF CallFails, ToArgvFails, FopenFails, SetBinaryByArchFails, EndArgList, ExtendFails, SetBinary, list
  <2> QED
    BY <2>1, AskedStays
<1>8. CASE ToArgv \/ Fopen \/ WriteChannel \/ Fchmod \/ Fclose \/ WriterFails
  <2>1. pc # "undefined" /\ UNCHANGED <<calls, options>>
    BY <1>8 DEF ToArgv, Fopen, WriteChannel, Fchmod, Fclose, WriterFails, list
  <2> QED
    BY <2>1, AskedStays
<1>9. CASE UNCHANGED qemuoptsVars
  <2>1. UNCHANGED <<calls, options, pc>>
    BY <1>9 DEF qemuoptsVars, list
  <2>2. Asked' = Asked
    BY <2>1 DEF Asked
  <2> QED
    BY <2>1, <2>2 DEF AskedInv
<1> QED
  BY <1>2, <1>3, <1>4, <1>5, <1>6, <1>7, <1>8, <1>9, AppendedAsAsked DEF QemuoptsNext

LEMMA ContentStep ==
  ASSUME IInv, AskedInv, ContentInv, [QemuoptsNext]_qemuoptsVars
  PROVE  ContentInv'
<1>1. ASSUME pc' # "ok", binary' \in Binaries \cup {NoBinary} PROVE ContentInv'
  BY <1>1 DEF ContentInv
<1>2. binary \in Binaries \cup {NoBinary}
  BY DEF ContentInv
<1>3. ASSUME NEW o, pc = "building", Extend(o) PROVE pc' # "ok"
  BY <1>3 DEF Extend
<1>4. ASSUME NEW f \in Flags, AddFlag(f) \/ StartArgList(f) PROVE ContentInv'
  <2>1. pc' # "ok" /\ UNCHANGED binary
    BY <1>3, <1>4 DEF AddFlag, StartArgList, Called
  <2> QED
    BY <1>1, <1>2, <2>1
<1>5. ASSUME NEW f \in Flags, NEW v \in Values, AddArg(f, v) PROVE ContentInv'
  <2>1. pc' # "ok" /\ UNCHANGED binary
    BY <1>3, <1>5 DEF AddArg, Called
  <2> QED
    BY <1>1, <1>2, <2>1
<1>6. ASSUME NEW f \in Flags, NEW v \in Unquoted, AddArgNoquote(f, v) PROVE ContentInv'
  <2>1. pc' # "ok" /\ UNCHANGED binary
    BY <1>3, <1>6 DEF AddArgNoquote, Called
  <2> QED
    BY <1>1, <1>2, <2>1
<1>7. ASSUME NEW v \in Raws, AddRaw(v) PROVE ContentInv'
  <2>1. pc' # "ok" /\ UNCHANGED binary
    BY <1>3, <1>7 DEF AddRaw, Called
  <2> QED
    BY <1>1, <1>2, <2>1
<1>8. ASSUME NEW e \in Elements, AppendArgList(e) PROVE ContentInv'
  <2>1. pc' # "ok" /\ UNCHANGED binary
    BY <1>8 DEF AppendArgList, Called
  <2> QED
    BY <1>1, <1>2, <2>1
<1>9. CASE CallFails \/ ToArgvFails \/ FopenFails \/ EndArgList \/ ExtendFails \/ Fopen \/ WriteChannel
           \/ Fchmod \/ WriterFails
  <2>1. pc' # "ok" /\ UNCHANGED binary
    BY <1>9 DEF CallFails, ToArgvFails, FopenFails, EndArgList, ExtendFails, Fopen, WriteChannel, Fchmod,
       WriterFails, Unlinked
  <2> QED
    BY <1>1, <1>2, <2>1
<1>10. CASE SetBinaryByArchFails \/ \E b \in Binaries : SetBinary(b)
  <2>1. pc' # "ok" /\ binary' \in Binaries \cup {NoBinary}
    BY <1>10 DEF SetBinaryByArchFails, SetBinary
  <2> QED
    BY <1>1, <2>1
<1>11. CASE ToArgv
  <2>1. UNCHANGED <<binary, options>> /\ writer' = "argv" /\ pc = "building"
    BY <1>11 DEF ToArgv, list
  <2>2. ASSUME pc' = "ok"
        PROVE  /\ binary' # NoBinary /\ options' \in Seq(Listed)
               /\ argv' = <<binary'>> \o FlattenSeq([i \in DOMAIN options' |-> ArgvWords(options'[i])])
    <3>1. /\ binary # NoBinary /\ "RAW" \notin Types
          /\ \A i \in DOMAIN options : ~(options[i].type = "ARG_LIST" /\ options[i].values = <<>>)
          /\ argv' = <<binary>> \o FlattenSeq([i \in DOMAIN options |-> ArgvWords(options[i])])
      BY <1>11, <2>2 DEF ToArgv
    <3>2. options \in Seq(Proper)
      BY <2>1 DEF AskedInv
    <3>3. ASSUME NEW i \in DOMAIN options PROVE options[i] \in Listed
      <4>1. options[i] \in Proper
        BY <3>2
      <4>2. options[i].type # "RAW"
        BY <3>1 DEF Types
      <4> QED
        BY <3>1, <4>1, <4>2 DEF Listed
    <3>4. options \in Seq(Listed)
      <4>1. Len(options) \in Nat /\ DOMAIN options = 1 .. Len(options) /\ options = [i \in 1 .. Len(options) |-> options[i]]
        BY <3>2
      <4>2. \A i \in 1 .. Len(options) : options[i] \in Listed
        BY <3>3, <4>1
      <4> QED
        BY ONLY <4>1, <4>2
    <3> QED
      BY <2>1, <3>1, <3>4
  <2> QED
    BY <1>2, <2>1, <2>2 DEF ContentInv
<1>12. CASE Fclose
  <2>1. /\ UNCHANGED <<binary, options, writer>> /\ pc = "closing"
        /\ \E content \in Outputs : file' = [state |-> "whole", content |-> content]
    BY <1>12 DEF Fclose, list
  <2>2. Outputs' = Outputs
    BY <2>1 DEF Outputs, Script
  <2>3. file'.content \in Outputs'
    BY <2>1, <2>2
  <2>4. writer' # "argv"
    BY <2>1 DEF IInv, FileInv
  <2> QED
    BY <1>2, <2>1, <2>3, <2>4 DEF ContentInv
<1>13. CASE UNCHANGED qemuoptsVars
  <2>1. UNCHANGED <<binary, options, writer, pc, file, argv>>
    BY <1>13 DEF qemuoptsVars, list, written
  <2>2. Outputs' = Outputs
    BY <2>1 DEF Outputs, Script
  <2> QED
    BY <2>1, <2>2 DEF ContentInv
<1> QED
  BY <1>4, <1>5, <1>6, <1>7, <1>8, <1>9, <1>10, <1>11, <1>12, <1>13 DEF QemuoptsNext

LEMMA InitWInv == QemuoptsInit => AskedInv /\ ContentInv
<1> SUFFICES ASSUME QemuoptsInit PROVE AskedInv /\ ContentInv
  OBVIOUS
<1>1. calls = <<>> /\ options = <<>> /\ binary = NoBinary /\ pc = "building"
  BY DEF QemuoptsInit
<1>2. Asked = Requests(options)
  BY <1>1, AskedMore, RequestsMore DEF Asked
<1>3. calls \in Seq(Calls) /\ options \in Seq(Proper)
  BY <1>1
<1>4. AskedInv
  BY <1>2, <1>3 DEF AskedInv
<1>5. ContentInv
  BY <1>1 DEF ContentInv
<1> QED
  BY <1>4, <1>5

LEMMA WInvariant == QemuoptsSpec => []WInv
<1>1. QemuoptsInit => WInv
  BY InitIInv, InitWInv DEF WInv
<1>2. WInv /\ [QemuoptsNext]_qemuoptsVars => WInv'
  BY ListStep, FileStep, AskedInvStep, ContentStep DEF IInv, WInv
<1> QED
  BY <1>1, <1>2, PTL DEF QemuoptsSpec

-----------------------------------------------------------------------------
(* What was asked for is what is read from what is written.                  *)
LEMMA MeantByOptions ==
  ASSUME NEW shell \in BOOLEAN, Asked = Requests(options)
  PROVE  MeantByAll(shell) = FlattenSeq([i \in DOMAIN options |-> Meant(Request(options[i]), shell)])
<1>1. PICK a : a = Asked
  OBVIOUS
<1>2. DOMAIN a = DOMAIN options /\ \A i \in DOMAIN options : a[i] = Request(options[i])
  BY <1>1 DEF Requests
<1>3. [i \in DOMAIN a |-> Meant(a[i], shell)] = [i \in DOMAIN options |-> Meant(Request(options[i]), shell)]
  BY <1>2
<1>4. MeantByAll(shell) = FlattenSeq([i \in DOMAIN a |-> Meant(a[i], shell)])
  BY <1>1 DEF MeantByAll
<1> QED
  BY <1>3, <1>4

LEMMA AfterName ==
  ASSUME NEW b \in Strings, NEW ws \in Words
  PROVE  (<<b>> \o ws)[1] = b /\ Tail(<<b>> \o ws) = ws
<1>1. ws \in Seq(Strings)
  BY DEF Words
<1>2. (<<b>> \o ws)[1] = b
  BY <1>1
<1>3. Tail(<<b>> \o ws) = ws
  BY <1>1
<1> QED
  BY <1>2, <1>3

LEMMA ArgvRead ==
  ASSUME WInv, pc = "ok", writer = "argv"
  PROVE  argv[1] = binary /\ QemuReads(Tail(argv)) = MeantByAll(FALSE)
<1>1. /\ binary \in Binaries /\ options \in Seq(Listed) /\ Asked = Requests(options)
      /\ argv = <<binary>> \o FlattenSeq([i \in DOMAIN options |-> ArgvWords(options[i])])
  BY DEF WInv, ContentInv, AskedInv
<1>2. binary \in Strings
  BY <1>1, StringsAssumption DEF StringsAssumption, Strings
<1>3. PICK P : P = [o \in Listed |-> ArgvWords(o)]
  OBVIOUS
<1>4. PICK R : R = [o \in Listed |-> Meant(Request(o), FALSE)]
  OBVIOUS
<1>5. \A o \in Listed : P[o] = ArgvWords(o) /\ R[o] = Meant(Request(o), FALSE)
  BY <1>3, <1>4
<1>6. \A o \in Listed : P[o] \in Words /\ BeginsWithFlag(P[o]) /\ R[o] = QemuReads(P[o])
  BY <1>5, ArgvMeant
<1>7. \A o \in Listed : R[o] \in OptStates
  <2>1. <<>> \in OptStates
    BY DEF OptStates
  <2> QED
    BY <1>6, <2>1, OptionReads DEF QemuReads
<1>8. P \in Quotings(Listed, Strings) /\ R \in Quotings(Listed, Opts)
  BY <1>3, <1>4, <1>6, <1>7 DEF Quotings, Words, OptStates
<1>9. QemuReads(FlattenSeq(PiecesOf(P, options))) = FlattenSeq(PiecesOf(R, options))
      /\ FlattenSeq(PiecesOf(P, options)) \in Seq(Strings)
  BY <1>1, <1>6, <1>8, OptionsApart, PiecesOfMore
<1>10. \A i \in DOMAIN options : options[i] \in Listed
  BY <1>1
<1>11. PiecesOf(P, options) = [i \in DOMAIN options |-> ArgvWords(options[i])]
       /\ PiecesOf(R, options) = [i \in DOMAIN options |-> Meant(Request(options[i]), FALSE)]
  BY <1>5, <1>10 DEF PiecesOf
<1>12. PICK ws : ws = FlattenSeq(PiecesOf(P, options))
  OBVIOUS
<1>13. argv = <<binary>> \o ws /\ ws \in Words
  BY <1>1, <1>9, <1>11, <1>12 DEF Words
<1>14. argv[1] = binary /\ Tail(argv) = ws
  BY <1>2, <1>13, AfterName
<1>15. MeantByAll(FALSE) = FlattenSeq(PiecesOf(R, options))
  BY <1>1, <1>11, MeantByOptions
<1> QED
  BY <1>9, <1>12, <1>14, <1>15

LEMMA ScriptAsAsked ==
  ASSUME WInv, pc = "ok", writer = "script",
         \A i \in DOMAIN Asked : Asked[i].call = "arg" => Asked[i].value # <<>>
  PROVE  Sh(file.content)[1] = binary /\ QemuReads(Tail(Sh(file.content))) = MeantByAll(TRUE)
<1>1. /\ binary \in Binaries /\ options \in Seq(Proper) /\ Asked = Requests(options)
      /\ file.content = ScriptOf(binary, options)
  <2>1. binary # NoBinary
    BY DEF WInv, IInv, FileInv, FileWholeOrGone
  <2>2. file.content \in Outputs
    BY DEF WInv, ContentInv
  <2>3. Outputs = {ScriptOf(binary, options)}
    BY DEF Outputs, Script, ScriptOf
  <2> QED
    BY <2>1, <2>2, <2>3 DEF WInv, ContentInv, AskedInv
<1>2. binary \in Strings
  BY <1>1, StringsAssumption DEF StringsAssumption, Strings
<1>3. ASSUME NEW i \in DOMAIN options PROVE options[i] \in Written
  <2>1. options[i] \in Proper
    BY <1>1
  <2>2. i \in DOMAIN Asked /\ Asked[i] = Request(options[i])
    BY <1>1 DEF Requests
  <2>3. options[i].type = "ARG" => Request(options[i]).call = "arg"
    BY DEF Request, CallOf
  <2>4. Request(options[i]).value = options[i].value
    BY DEF Request
  <2> QED
    BY <2>1, <2>2, <2>3, <2>4 DEF Written
<1>4. options \in Seq(Written)
  <2>1. Len(options) \in Nat /\ DOMAIN options = 1 .. Len(options) /\ options = [i \in 1 .. Len(options) |-> options[i]]
    BY <1>1
  <2>2. \A i \in 1 .. Len(options) : options[i] \in Written
    BY <1>3, <2>1
  <2> QED
    BY ONLY <2>1, <2>2
<1>5. PICK R : R = [o \in Written |-> Meant(Request(o), TRUE)]
  OBVIOUS
<1>6. \A o \in Written : LineWords[o] = ShellWords(o) /\ R[o] = Meant(Request(o), TRUE)
  BY <1>5 DEF LineWords
<1>7. \A o \in Written : BeginsWithFlag(LineWords[o]) /\ R[o] = QemuReads(LineWords[o])
  BY <1>6, ShellMeant DEF Written
<1>8. LineWords \in Quotings(Written, Strings)
  BY LinesType
<1>9. \A o \in Written : R[o] \in OptStates
  <2>1. <<>> \in OptStates
    BY DEF OptStates
  <2>2. \A o \in Written : LineWords[o] \in Words
    BY <1>8 DEF Quotings, Words
  <2> QED
    BY <1>7, <2>1, <2>2, OptionReads DEF QemuReads
<1>10. R \in Quotings(Written, Opts)
  BY <1>5, <1>9 DEF Quotings, OptStates
<1>11. QemuReads(FlattenSeq(PiecesOf(LineWords, options))) = FlattenSeq(PiecesOf(R, options))
       /\ FlattenSeq(PiecesOf(LineWords, options)) \in Seq(Strings)
  BY <1>4, <1>7, <1>8, <1>10, OptionsApart, PiecesOfMore
<1>12. PiecesOf(LineWords, options) = [i \in DOMAIN options |-> ShellWords(options[i])]
       /\ PiecesOf(R, options) = [i \in DOMAIN options |-> Meant(Request(options[i]), TRUE)]
  BY <1>3, <1>6 DEF PiecesOf
<1>13. PICK ws : ws = FlattenSeq(PiecesOf(LineWords, options))
  OBVIOUS
<1>14. Sh(file.content) = <<binary>> \o ws /\ ws \in Words
  BY <1>1, <1>4, <1>11, <1>12, <1>13, ScriptRead DEF Words
<1>15. Sh(file.content)[1] = binary /\ Tail(Sh(file.content)) = ws
  BY <1>2, <1>14, AfterName
<1>16. MeantByAll(TRUE) = FlattenSeq(PiecesOf(R, options))
  BY <1>1, <1>12, MeantByOptions
<1> QED
  BY <1>11, <1>13, <1>15, <1>16

LEMMA IdElements ==
  ASSUME NEW vs \in Seq(Strings), \A j \in DOMAIN vs : ~NameBeginsWithId(vs[j])
  PROVE  IdParam(vs) = SelectInSeq(vs, IsId)
<1>1. ASSUME NEW e \in Strings, ~NameBeginsWithId(e)
      PROVE  (Len(e) >= 2 /\ SubSeq(e, 1, 2) = <<"i", "d">>) <=> IsId(e)
  <2>1. ASSUME IsId(e) PROVE Len(e) >= 2 /\ SubSeq(e, 1, 2) = <<"i", "d">>
    <3>1. Len(e) >= 3 /\ SubSeq(e, 1, 3) = <<"i", "d", "=">> /\ e \in Seq(Characters) /\ Len(e) \in Nat
      BY <2>1 DEF IsId, Strings
    <3>2. PICK t : t = SubSeq(e, 1, 3)
      OBVIOUS
    <3>3. t[1] = e[1] /\ t[2] = e[2]
      BY <3>1, <3>2
    <3>4. t[1] = "i" /\ t[2] = "d"
      <4>1. \A x, y, z : <<x, y, z>>[1] = x /\ <<x, y, z>>[2] = y
        OBVIOUS
      <4>2. t = <<"i", "d", "=">>
        BY ONLY <3>1, <3>2
      <4> QED
        BY ONLY <4>1, <4>2
    <3>5. PICK u : u = SubSeq(e, 1, 2)
      OBVIOUS
    <3>6. u = [i \in 1 .. 2 |-> u[i]] /\ u[1] = e[1] /\ u[2] = e[2] /\ u \in Seq(Characters) /\ Len(u) = 2
      BY <3>1, <3>5
    <3>7. u = <<"i", "d">>
      BY <3>3, <3>4, <3>6
    <3>8. Len(e) >= 2
      BY ONLY <3>1
    <3> QED
      BY ONLY <3>5, <3>7, <3>8
  <2> QED
    BY <1>1, <2>1 DEF NameBeginsWithId
<1>2. PICK n \in Nat : n = Len(vs) /\ DOMAIN vs = 1 .. n
  OBVIOUS
<1>3. \A j \in 1 .. n : vs[j] \in Strings
  BY <1>2
<1>4. {j \in 1 .. n : Len(vs[j]) >= 2 /\ SubSeq(vs[j], 1, 2) = <<"i", "d">>} = {j \in 1 .. n : IsId(vs[j])}
  BY <1>1, <1>2, <1>3
<1> QED
  BY <1>2, <1>4, Zenon DEF IdParam, SelectInSeq

(* What has been selected is an element, and an id.                          *)
LEMMA IdSelected ==
  ASSUME NEW vs \in Seq(Strings), SelectInSeq(vs, IsId) # 0
  PROVE  SelectInSeq(vs, IsId) \in DOMAIN vs /\ IsId(vs[SelectInSeq(vs, IsId)])
<1> DEFINE S == {j \in 1 .. Len(vs) : IsId(vs[j])}
<1>1. SelectInSeq(vs, IsId) = IF S # {} THEN Min(S) ELSE 0
  BY Zenon DEF SelectInSeq
<1>2. S # {} /\ S \subseteq Nat
  BY <1>1
<1>3. PICK k \in S : \A y \in S : ~(y < k)
  <2> DEFINE R == {p \in Nat \X Nat : p[1] < p[2]}
  <2>1. PICK k \in S : \A y \in S : ~(<<y, k>> \in R)
    <3> HIDE DEF S, R
    <3> QED
      BY <1>2, NatWF, WFMin DEF R
  <2> HIDE DEF S
  <2> QED
    BY <1>2, <2>1
<1>4. Min(S) \in S
  <2> HIDE DEF S
  <2>1. k \in S /\ \A y \in S : k <= y
    BY <1>2, <1>3
  <2> QED
    BY <2>1 DEF Min
<1> QED
  BY <1>1, <1>2, <1>4

LEMMA ConfigRead ==
  ASSUME WInv, pc = "ok", writer = "config",
         \A i \in DOMAIN Asked : \A j \in DOMAIN Asked[i].values : ~NameBeginsWithId(Asked[i].values[j])
  PROVE  file.content = [i \in DOMAIN Asked |-> SectionAsked(Asked[i])]
<1>1. options \in Seq(Proper) /\ Asked = Requests(options)
  BY DEF WInv, AskedInv
<1>5. PICK past \in [DOMAIN options -> PastTheEnd] :
        file.content = [i \in DOMAIN options |-> Section(options[i], past[i])]
  BY DEF WInv, ContentInv, Outputs
<1>2. PICK a : a = Asked
  OBVIOUS
<1>3. DOMAIN a = DOMAIN options /\ \A i \in DOMAIN options : a[i] = Request(options[i])
  BY <1>1, <1>2 DEF Requests
<1>4. ASSUME NEW i \in DOMAIN options PROVE Section(options[i], past[i]) = SectionAsked(a[i])
  <2>1. PICK vs : vs = options[i].values
    OBVIOUS
  <2>2. vs \in Seq(Strings)
    BY <1>1, <2>1, ProperFacts, ListableType
  <2>3. a[i].flag = options[i].flag /\ a[i].values = vs
    BY <1>3, <2>1 DEF Request
  <2>4. \A j \in DOMAIN vs : ~NameBeginsWithId(vs[j])
    BY <1>2, <1>3, <2>3
  <2>5. IdParam(vs) = SelectInSeq(vs, IsId)
    BY <2>2, <2>4, IdElements
  <2>6. PICK id : id = IdParam(vs)
    OBVIOUS
  <2>7. id = SelectInSeq(a[i].values, IsId) /\ id = IdParam(options[i].values)
    BY <2>1, <2>3, <2>5, <2>6
  <2>8. id # 0 => vs[id] \in Strings /\ IsId(vs[id])
    <3>2. id # 0 => id \in DOMAIN vs /\ IsId(vs[id])
      BY <2>2, <2>5, <2>6, IdSelected
    <3> QED
      BY <2>2, <3>2
  <2>9. id # 0 => IdOf(vs[id], past[i]) = SubSeq(vs[id], 4, Len(vs[id]))
    <3>1. ASSUME id # 0 PROVE IdOf(vs[id], past[i]) = SubSeq(vs[id], 4, Len(vs[id]))
      <4>1. PICK e : e = vs[id]
        OBVIOUS
      <4>2. e \in Strings /\ Len(e) >= 3
        BY <2>8, <3>1, <4>1 DEF IsId
      <4>3. Len(e) # 2
        <5>1. PICK n \in Nat : n = Len(e)
          BY <4>2 DEF Strings
        <5> QED
          BY <4>2, <5>1
      <4> QED
        BY <4>1, <4>3 DEF IdOf
    <3> QED
      BY <3>1
  <2> QED
    BY <2>1, <2>3, <2>7, <2>9, Zenon DEF Section, SectionAsked
<1> QED
  BY <1>2, <1>3, <1>4, <1>5

(* Whatever the calls are, however many, in whatever order and whichever of  *)
(* them fail, qemu reads from the argument list, and from the script after   *)
(* the shell, what the calls that succeeded have asked for, and the          *)
(* configuration file says it.                                               *)
THEOREM ReadCorrect == QemuoptsSpec => []ReadersSeeWhatWasAsked
<1>1. WInv => ReadersSeeWhatWasAsked
  <2> SUFFICES ASSUME WInv PROVE ReadersSeeWhatWasAsked
    OBVIOUS
  <2>1. QemuReadsWhatWasAsked
    <3>1. pc = "ok" /\ writer = "argv" => argv[1] = binary /\ QemuReads(Tail(argv)) = MeantByAll(FALSE)
      BY ArgvRead
    <3>2. ASSUME pc = "ok", writer = "script",
                 \A i \in DOMAIN Asked : Asked[i].call = "arg" => Asked[i].value # <<>>
          PROVE  Sh(file.content)[1] = binary /\ QemuReads(Tail(Sh(file.content))) = MeantByAll(TRUE)
      BY <3>2, ScriptAsAsked
    <3> QED
      BY <3>1, <3>2 DEF QemuReadsWhatWasAsked
  <2>2. ConfigReadsWhatWasAsked
    <3>1. ASSUME \A i \in DOMAIN Asked : \A j \in DOMAIN Asked[i].values : ~NameBeginsWithId(Asked[i].values[j]),
                 pc = "ok", writer = "config"
          PROVE  file.content = [i \in DOMAIN Asked |-> SectionAsked(Asked[i])]
      BY <3>1, ConfigRead
    <3> QED
      BY <3>1 DEF ConfigReadsWhatWasAsked, ConfigAsAsked
  <2> QED
    BY <2>1, <2>2 DEF ReadersSeeWhatWasAsked
<1> QED
  BY WInvariant, <1>1, PTL
=============================================================================
