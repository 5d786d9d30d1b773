-------------------------- MODULE RuleEngineProofs --------------------------
(***************************************************************************)
(* What a sweep reports, for every document, config and set of rules, and  *)
(* wherever rules crash: proved with TLAPS.                                *)
(***************************************************************************)
EXTENDS RuleEngine, SequenceTheorems, WellFoundedInduction, TLAPS

(* Induction on the naturals, with a set in place of the operator parameter *)
(* of the library's theorem.                                               *)
LEMMA InductionOnNat ==
  ASSUME NEW T, 0 \in T, \A n \in Nat : n \in T => n + 1 \in T
  PROVE  Nat \subseteq T
<1> SUFFICES ASSUME Nat \ T # {}
             PROVE  FALSE
  OBVIOUS
<1> DEFINE R == OpToRel(<, Nat)
<1>1. IsWellFoundedOn(R, Nat)
  BY NatLessThanWellFounded
<1>2. \A x, y \in Nat : x < y => <<x, y>> \in R
  BY DEF OpToRel
<1> HIDE DEF R
<1>3. PICK x \in Nat \ T : \A y \in Nat \ T : ~(<<y, x>> \in R)
  BY <1>1, WFMin
<1>4. x # 0 /\ x - 1 \in Nat
  BY <1>3
<1>5. x - 1 < x /\ (x - 1) + 1 = x
  BY <1>3
<1>6. <<x - 1, x>> \in R
  BY <1>2, <1>3, <1>4, <1>5
<1>7. x - 1 \in T
  BY <1>3, <1>4, <1>6
<1> QED
  BY <1>3, <1>4, <1>5, <1>7

LEMMA GreatestOf ==
  ASSUME NEW n \in Nat, NEW s \in SUBSET (1 .. n), s # {}
  PROVE  Max(s) \in s /\ \A y \in s : Max(s) >= y
<1> DEFINE Has(t) == \E x \in t : \A y \in t : x >= y
           T == {m \in Nat : \A t \in SUBSET (1 .. m) : t # {} => Has(t)}
<1>1. 0 \in T
  <2>1. \A t \in SUBSET (1 .. 0) : t = {}
    OBVIOUS
  <2> HIDE DEF Has
  <2> QED
    BY <2>1
<1>2. ASSUME NEW m \in Nat, m \in T
      PROVE  m + 1 \in T
  <2> SUFFICES ASSUME NEW t \in SUBSET (1 .. m + 1), t # {}
               PROVE  Has(t)
    OBVIOUS
  <2>1. CASE m + 1 \in t
    BY <2>1
  <2>2. CASE m + 1 \notin t
    <3>1. t \in SUBSET (1 .. m)
      BY <2>2
    <3> QED
      BY <1>2, <3>1
  <2> QED
    BY <2>1, <2>2
<1> HIDE DEF T
<1>3. Nat \subseteq T
  BY <1>1, <1>2, InductionOnNat
<1>4. Has(s)
  BY <1>3 DEF T
<1> QED
  BY <1>4, Zenon DEF Max

-----------------------------------------------------------------------------
(* A list of sequences laid out one after the other: where each of them    *)
(* ends, what is there, and that nothing else is.                          *)
Starts(ends, seqs) ==
  /\ ends \in [0 .. Len(seqs) -> Nat] /\ ends[0] = 0
  /\ \A t \in 1 .. Len(seqs) : ends[t] = ends[t - 1] + Len(seqs[t])

Laid(joined, seqs, ends) ==
  /\ DOMAIN joined = 1 .. ends[Len(seqs)] /\ Len(joined) = ends[Len(seqs)]
  /\ \A t \in 1 .. Len(seqs) : \A i \in 1 .. Len(seqs[t]) :
       ends[t - 1] + i \in DOMAIN joined /\ joined[ends[t - 1] + i] = seqs[t][i]
  /\ \A x \in DOMAIN joined :
       \E t \in 1 .. Len(seqs) : \E i \in 1 .. Len(seqs[t]) : x = ends[t - 1] + i

LEMMA JoinedSteps ==
  ASSUME NEW seqs, Len(seqs) \in Nat
  PROVE  \E f : /\ Concatenated(seqs) = f[Len(seqs)]
                /\ f = [i \in 0 .. Len(seqs) |-> IF i = 0 THEN << >> ELSE f[i - 1] \o seqs[i]]
<1> DEFINE n == Len(seqs)
           body(f, i) == IF i = 0 THEN << >> ELSE f[i - 1] \o seqs[i]
           T == {m \in Nat : \E f : f = [i \in 0 .. m |-> body(f, i)]}
           joined == CHOOSE f : f = [i \in 0 .. n |-> body(f, i)]
<1>1. 0 \in T
  <2> DEFINE f == [i \in 0 .. 0 |-> << >>]
  <2>1. f = [i \in 0 .. 0 |-> body(f, i)]
    OBVIOUS
  <2> QED
    BY <2>1
<1>2. ASSUME NEW m \in Nat, m \in T
      PROVE  m + 1 \in T
  <2>1. PICK f : f = [i \in 0 .. m |-> body(f, i)]
    BY <1>2
  <2> DEFINE g == [i \in 0 .. m + 1 |-> IF i = m + 1 THEN f[m] \o seqs[m + 1] ELSE f[i]]
  <2>2. ASSUME NEW i \in 0 .. m + 1
        PROVE  g[i] = body(g, i)
    <3>1. CASE i = 0
      <4>1. 0 \in 0 .. m /\ 0 # m + 1
        OBVIOUS
      <4>2. f[0] = << >>
        BY <2>1, <4>1
      <4> QED
        BY <3>1, <4>1, <4>2
    <3>2. CASE i = m + 1
      <4>1. i - 1 = m /\ m \in 0 .. m + 1 /\ m # m + 1 /\ i # 0
        BY <3>2
      <4>2. g[i] = f[m] \o seqs[i] /\ g[m] = f[m]
        BY <3>2, <4>1
      <4> HIDE DEF g
      <4> QED
        BY <4>1, <4>2
    <3>3. CASE i # 0 /\ i # m + 1
      <4>1. i \in 0 .. m /\ i - 1 \in 0 .. m /\ i - 1 \in 0 .. m + 1 /\ i - 1 # m + 1
        BY <3>3
      <4>2. f[i] = f[i - 1] \o seqs[i]
        BY <2>1, <3>3, <4>1
      <4> QED
        BY <3>3, <4>1, <4>2
    <3> QED
      BY <3>1, <3>2, <3>3
  <2>3. g = [i \in 0 .. m + 1 |-> body(g, i)]
    <3>1. g = [i \in 0 .. m + 1 |-> g[i]]
      OBVIOUS
    <3> HIDE DEF g, body
    <3> QED
      BY <2>2, <3>1
  <2> HIDE DEF g, body
  <2>4. \E h : h = [i \in 0 .. m + 1 |-> body(h, i)]
    BY <2>3, Zenon
  <2> QED
    BY <2>4
<1> HIDE DEF T
<1>3. n \in T
  BY <1>1, <1>2, InductionOnNat
<1>4. joined = [i \in 0 .. n |-> body(joined, i)]
  <2> HIDE DEF body
  <2>1. \E f : f = [i \in 0 .. n |-> body(f, i)]
    BY <1>3 DEF T
  <2> QED
    BY <2>1, Zenon
<1>5. Concatenated(seqs) = joined[n]
  BY Zenon DEF Concatenated
<1> HIDE DEF joined
<1> QED
  BY <1>4, <1>5
ExtendedBy(j, s, u) ==
  /\ Len(j) = Len(s) + Len(u)
  /\ Len(s) \in Nat /\ Len(u) \in Nat /\ Len(j) \in Nat
  /\ Len(s) <= Len(j)
  /\ \A x \in 1 .. Len(s) : x \in 1 .. Len(j) /\ j[x] = s[x]
  /\ \A i \in 1 .. Len(u) : Len(s) + i \in 1 .. Len(j) /\ j[Len(s) + i] = u[i]
  /\ \A x \in 1 .. Len(j) : x \in 1 .. Len(s) \/ \E i \in 1 .. Len(u) : x = Len(s) + i

LEMMA Extended ==
  ASSUME NEW V, NEW s \in Seq(V), NEW u \in Seq(V)
  PROVE  s \o u \in Seq(V) /\ ExtendedBy(s \o u, s, u)
<1>1. /\ s \o u \in Seq(V) /\ Len(s \o u) = Len(s) + Len(u)
      /\ Len(s) \in Nat /\ Len(u) \in Nat
  BY ConcatProperties
<1> DEFINE j == s \o u
           n == Len(s)
           m == Len(u)
<1>2. \A i \in 1 .. n + m : j[i] = IF i <= n THEN s[i] ELSE u[i - n]
  BY ConcatProperties
<1>3. n \in Nat /\ m \in Nat /\ Len(j) = n + m
  BY <1>1
<1> HIDE DEF j, n, m
<1>4. \A x \in 1 .. n : x \in 1 .. n + m /\ j[x] = s[x]
  BY <1>2, <1>3
<1>5. \A i \in 1 .. m : n + i \in 1 .. n + m /\ ~(n + i <= n) /\ (n + i) - n = i
  BY <1>3
<1>6. \A i \in 1 .. m : j[n + i] = u[i]
  BY <1>2, <1>5
<1>7. \A x \in 1 .. n + m : x \in 1 .. n \/ (x - n \in 1 .. m /\ x = n + (x - n))
  BY <1>3
<1>8. \A x \in 1 .. n + m : x \in 1 .. n \/ \E i \in 1 .. m : x = n + i
  BY <1>7
<1>9. n <= n + m
  BY <1>3
<1> QED
  BY <1>1, <1>3, <1>4, <1>5, <1>6, <1>8, <1>9 DEF j, n, m, ExtendedBy

LEMMA Joined ==
  ASSUME NEW V, NEW seqs \in Seq(Seq(V))
  PROVE  /\ Concatenated(seqs) \in Seq(V)
         /\ \E ends : Starts(ends, seqs) /\ Laid(Concatenated(seqs), seqs, ends)
<1> DEFINE n == Len(seqs)
<1>0. n \in Nat /\ (\A t \in 1 .. n : seqs[t] \in Seq(V) /\ Len(seqs[t]) \in Nat)
  OBVIOUS
<1>1. PICK f : /\ Concatenated(seqs) = f[n]
               /\ f = [i \in 0 .. n |-> IF i = 0 THEN << >> ELSE f[i - 1] \o seqs[i]]
  BY <1>0, JoinedSteps
<1>2. f[0] = << >>
  BY <1>0, <1>1
<1>3. ASSUME NEW t \in Nat, t + 1 <= n
      PROVE  f[t + 1] = f[t] \o seqs[t + 1]
  <2>1. t + 1 \in 0 .. n /\ t + 1 # 0 /\ (t + 1) - 1 = t
    BY <1>0, <1>3
  <2> QED
    BY <1>1, <2>1
<1> DEFINE Made(m) ==
      /\ f[m] \in Seq(V)
      /\ \A t \in 0 .. m : f[t] \in Seq(V) /\ Len(f[t]) <= Len(f[m])
                          /\ \A x \in 1 .. Len(f[t]) : f[m][x] = f[t][x]
      /\ \A x \in 1 .. Len(f[m]) :
           \E t \in 1 .. m : \E i \in 1 .. Len(seqs[t]) : x = Len(f[t - 1]) + i
    T == {m \in Nat : m <= n => Made(m)}
<1> HIDE DEF Made
<1>4. 0 \in T
  <2>1. f[0] \in Seq(V) /\ Len(f[0]) = 0
    BY <1>2
  <2>2. \A t \in 0 .. 0 : t = 0
    OBVIOUS
  <2>3. Made(0)
    BY <2>1, <2>2 DEF Made
  <2> QED
    BY <2>3
<1>5. ASSUME NEW m \in Nat, m \in T
      PROVE  m + 1 \in T
  <2> SUFFICES ASSUME m + 1 <= n
               PROVE  Made(m + 1)
    OBVIOUS
  <2>1. m <= n /\ m \in 0 .. m /\ m + 1 \in 1 .. n /\ m + 1 \in 1 .. m + 1 /\ (m + 1) - 1 = m
    BY <1>0
  <2>2. Made(m)
    BY <1>5, <2>1
  <2>3. f[m + 1] = f[m] \o seqs[m + 1] /\ f[m] \in Seq(V) /\ seqs[m + 1] \in Seq(V)
    BY <1>0, <1>3, <2>1, <2>2 DEF Made
  <2>4. /\ f[m + 1] \in Seq(V) /\ Len(f[m]) \in Nat /\ Len(f[m + 1]) \in Nat
        /\ Len(f[m]) <= Len(f[m + 1])
        /\ \A x \in 1 .. Len(f[m]) : x \in 1 .. Len(f[m + 1]) /\ f[m + 1][x] = f[m][x]
        /\ \A x \in 1 .. Len(f[m + 1]) :
             x \in 1 .. Len(f[m]) \/ \E i \in 1 .. Len(seqs[m + 1]) : x = Len(f[m]) + i
    <3>1. /\ f[m] \o seqs[m + 1] \in Seq(V)
          /\ ExtendedBy(f[m] \o seqs[m + 1], f[m], seqs[m + 1])
      BY <2>3, Extended, Zenon
    <3>2. f[m + 1] \in Seq(V) /\ ExtendedBy(f[m + 1], f[m], seqs[m + 1])
      BY <2>3, <3>1, Zenon
    <3> QED
      BY <3>2, Zenon DEF ExtendedBy
  <2>5. ASSUME NEW t \in 0 .. m + 1
        PROVE  /\ f[t] \in Seq(V) /\ Len(f[t]) <= Len(f[m + 1])
               /\ \A x \in 1 .. Len(f[t]) : f[m + 1][x] = f[t][x]
    <3>1. CASE t = m + 1
      BY <2>4, <3>1
    <3>2. CASE t # m + 1
      <4>1. t \in 0 .. m
        BY <3>2
      <4>2. /\ f[t] \in Seq(V) /\ Len(f[t]) <= Len(f[m])
            /\ \A x \in 1 .. Len(f[t]) : f[m][x] = f[t][x]
        BY <2>2, <4>1 DEF Made
      <4>3. Len(f[t]) \in Nat
        BY <4>2, LenProperties
      <4>4. \A x \in 1 .. Len(f[t]) : x \in 1 .. Len(f[m])
        BY <2>4, <4>2, <4>3
      <4>5. Len(f[t]) <= Len(f[m + 1])
        BY <2>4, <4>2, <4>3
      <4> QED
        BY <2>4, <4>2, <4>4, <4>5
    <3> QED
      BY <3>1, <3>2
  <2>6. ASSUME NEW x \in 1 .. Len(f[m + 1])
        PROVE  \E t \in 1 .. m + 1 : \E i \in 1 .. Len(seqs[t]) : x = Len(f[t - 1]) + i
    <3>1. CASE x \in 1 .. Len(f[m])
      <4>1. PICK t \in 1 .. m : \E i \in 1 .. Len(seqs[t]) : x = Len(f[t - 1]) + i
        BY <2>2, <3>1 DEF Made
      <4>2. t \in 1 .. m + 1
        OBVIOUS
      <4> QED
        BY <4>1, <4>2
    <3>2. CASE x \notin 1 .. Len(f[m])
      <4>1. PICK i \in 1 .. Len(seqs[m + 1]) : x = Len(f[m]) + i
        BY <2>4, <3>2
      <4> QED
        BY <2>1, <4>1
    <3> QED
      BY <3>1, <3>2
  <2> HIDE DEF T
  <2> QED
    BY <2>4, <2>5, <2>6 DEF Made
<1> HIDE DEF T
<1>6. n \in T
  BY <1>0, <1>4, <1>5, InductionOnNat
<1>7. Made(n)
  BY <1>0, <1>6 DEF T
<1> DEFINE ends == [t \in 0 .. n |-> Len(f[t])]
<1>8. \A t \in 0 .. n : f[t] \in Seq(V) /\ Len(f[t]) \in Nat
  BY <1>7 DEF Made
<1>9. ASSUME NEW t \in 1 .. n
      PROVE  /\ t \in 0 .. n /\ t - 1 \in 0 .. n
             /\ f[t] = f[t - 1] \o seqs[t]
             /\ ends[t] = ends[t - 1] + Len(seqs[t])
             /\ \A i \in 1 .. Len(seqs[t]) :
                  /\ ends[t - 1] + i \in 1 .. Len(f[t])
                  /\ f[t][ends[t - 1] + i] = seqs[t][i]
  <2>1. t \in 0 .. n /\ t - 1 \in 0 .. n /\ t - 1 \in Nat /\ (t - 1) + 1 = t /\ t <= n
    BY <1>0
  <2>2. f[t] = f[t - 1] \o seqs[t]
    BY <1>3, <2>1
  <2>3. f[t - 1] \in Seq(V) /\ seqs[t] \in Seq(V) /\ Len(f[t - 1]) \in Nat /\ Len(seqs[t]) \in Nat
    BY <1>0, <1>8, <2>1
  <2>4. /\ Len(f[t]) = Len(f[t - 1]) + Len(seqs[t])
        /\ \A i \in 1 .. Len(seqs[t]) : /\ Len(f[t - 1]) + i \in 1 .. Len(f[t])
                                      /\ f[t][Len(f[t - 1]) + i] = seqs[t][i]
    <3>1. ExtendedBy(f[t - 1] \o seqs[t], f[t - 1], seqs[t])
      BY <2>3, Extended, Zenon
    <3>2. ExtendedBy(f[t], f[t - 1], seqs[t])
      BY <2>2, <3>1, Zenon
    <3> QED
      BY <3>2, Zenon DEF ExtendedBy
  <2>5. ends[t] = Len(f[t]) /\ ends[t - 1] = Len(f[t - 1])
    BY <2>1
  <2> HIDE DEF ends
  <2> QED
    BY <2>1, <2>2, <2>4, <2>5
<1>10. Starts(ends, seqs)
  <2>1. ends \in [0 .. n -> Nat]
    BY <1>8
  <2>2. ends[0] = 0
    BY <1>0, <1>2
  <2> HIDE DEF ends
  <2> QED
    BY <2>1, <2>2, <1>9 DEF Starts
<1>11. Laid(f[n], seqs, ends)
  <2>1. ends[n] = Len(f[n]) /\ n \in 0 .. n /\ f[n] \in Seq(V)
    BY <1>0, <1>8
  <2>2. DOMAIN f[n] = 1 .. ends[n] /\ Len(f[n]) = ends[n]
    BY <2>1
  <2>3. ASSUME NEW t \in 1 .. n, NEW i \in 1 .. Len(seqs[t])
        PROVE  ends[t - 1] + i \in DOMAIN f[n] /\ f[n][ends[t - 1] + i] = seqs[t][i]
    <3>1. ends[t - 1] + i \in 1 .. Len(f[t]) /\ f[t][ends[t - 1] + i] = seqs[t][i]
      BY <1>9
    <3>2. t \in 0 .. n /\ Len(f[t]) \in Nat /\ Len(f[n]) \in Nat /\ Len(f[t]) <= Len(f[n])
      BY <1>7, <1>8, <1>9, <2>1 DEF Made
    <3>3. f[n][ends[t - 1] + i] = f[t][ends[t - 1] + i]
      BY <1>7, <3>1, <3>2 DEF Made
    <3>4. ends[t - 1] + i \in 1 .. Len(f[n])
      BY <3>1, <3>2
    <3> QED
      BY <2>1, <2>2, <3>1, <3>3, <3>4
  <2>4. ASSUME NEW x \in DOMAIN f[n]
        PROVE  \E t \in 1 .. n : \E i \in 1 .. Len(seqs[t]) : x = ends[t - 1] + i
    <3>1. PICK t \in 1 .. n : \E i \in 1 .. Len(seqs[t]) : x = Len(f[t - 1]) + i
      BY <1>7, <2>1, <2>2 DEF Made
    <3>2. ends[t - 1] = Len(f[t - 1])
      BY <1>9
    <3> QED
      BY <3>1, <3>2
  <2> HIDE DEF ends
  <2> QED
    BY <2>2, <2>3, <2>4 DEF Laid
<1>12. f[n] \in Seq(V)
  BY <1>0, <1>8
<1> HIDE DEF ends
<1> QED
  BY <1>1, <1>10, <1>11, <1>12, Zenon
(* The same for sequences of whatever is in them.                          *)
LEMMA IsSequence ==
  ASSUME NEW n \in Nat, NEW f, f = [i \in 1 .. n |-> f[i]]
  PROVE  IsSeq(f) /\ Len(f) = n /\ DOMAIN f = 1 .. n
<1>1. DOMAIN f = 1 .. n
  OBVIOUS
<1>2. \A i \in 1 .. n : f[i] \in ToSet(f)
  BY <1>1 DEF ToSet
<1>3. f \in [1 .. n -> ToSet(f)]
  BY <1>2
<1>4. f \in Seq(ToSet(f))
  BY <1>3, SeqDef, Zenon
<1> QED
  BY <1>1, <1>4, LenProperties DEF IsSeq

LEMMA SequenceIs ==
  ASSUME NEW s, IsSeq(s)
  PROVE  /\ Len(s) \in Nat /\ DOMAIN s = 1 .. Len(s) /\ s = [i \in 1 .. Len(s) |-> s[i]]
         /\ \A x \in ToSet(s) : \E i \in 1 .. Len(s) : x = s[i]
         /\ \A i \in 1 .. Len(s) : s[i] \in ToSet(s)
<1>1. Len(s) \in Nat /\ DOMAIN s = 1 .. Len(s) /\ s \in [1 .. Len(s) -> ToSet(s)]
  BY LenProperties DEF IsSeq
<1> QED
  BY <1>1 DEF ToSet

LEMMA JoinedUp ==
  ASSUME NEW seqs, IsSeq(seqs), \A t \in 1 .. Len(seqs) : IsSeq(seqs[t])
  PROVE  /\ IsSeq(Concatenated(seqs))
         /\ \E ends : Starts(ends, seqs) /\ Laid(Concatenated(seqs), seqs, ends)
         /\ ToSet(Concatenated(seqs)) = UNION {ToSet(seqs[t]) : t \in 1 .. Len(seqs)}
<1> DEFINE V == UNION {ToSet(seqs[t]) : t \in 1 .. Len(seqs)}
           j == Concatenated(seqs)
<1>0. Len(seqs) \in Nat /\ DOMAIN seqs = 1 .. Len(seqs)
  BY SequenceIs
<1>1. ASSUME NEW t \in 1 .. Len(seqs)
      PROVE  seqs[t] \in Seq(V)
  <2>1. seqs[t] \in Seq(ToSet(seqs[t])) /\ ToSet(seqs[t]) \subseteq V
    BY DEF IsSeq
  <2> HIDE DEF V
  <2> QED
    BY <2>1, SeqMonotonic
<1>2. seqs \in [1 .. Len(seqs) -> Seq(V)]
  <2> HIDE DEF V
  <2> QED
    BY <1>1, SequenceIs
<1>3. seqs \in Seq(Seq(V))
  <2> DEFINE S == Seq(V)
  <2> HIDE DEF V, S
  <2>1. seqs \in UNION {[1 .. n -> S] : n \in Nat}
    BY <1>0, <1>2 DEF S
  <2>2. seqs \in Seq(S)
    BY <2>1, SeqDef, Zenon
  <2> QED
    BY <2>2 DEF S
<1>4. /\ j \in Seq(V)
      /\ \E ends : Starts(ends, seqs) /\ Laid(j, seqs, ends)
  <2> HIDE DEF V
  <2> QED
    BY <1>3, Joined, Zenon
<1>5. PICK ends : Starts(ends, seqs) /\ Laid(j, seqs, ends)
  BY <1>4
<1> HIDE DEF j
<1>6. IsSeq(j)
  <2>1. Len(j) \in Nat /\ j \in [1 .. Len(j) -> V]
    BY <1>4, LenProperties
  <2> HIDE DEF V
  <2>2. j = [i \in 1 .. Len(j) |-> j[i]]
    BY <2>1
  <2> QED
    BY <2>1, <2>2, IsSequence
<1>7. \A t \in 1 .. Len(seqs) : \A x \in ToSet(seqs[t]) : x \in ToSet(j)
  <2> SUFFICES ASSUME NEW t \in 1 .. Len(seqs), NEW x \in ToSet(seqs[t])
               PROVE  x \in ToSet(j)
    OBVIOUS
  <2>1. PICK i \in 1 .. Len(seqs[t]) : x = seqs[t][i]
    BY SequenceIs
  <2>2. ends[t - 1] + i \in DOMAIN j /\ j[ends[t - 1] + i] = seqs[t][i]
    BY <1>5 DEF Laid
  <2> QED
    BY <2>1, <2>2 DEF ToSet
<1>8. \A x \in ToSet(j) : \E t \in 1 .. Len(seqs) : x \in ToSet(seqs[t])
  <2> SUFFICES ASSUME NEW x \in DOMAIN j
               PROVE  \E t \in 1 .. Len(seqs) : j[x] \in ToSet(seqs[t])
    BY DEF ToSet
  <2>1. PICK t \in 1 .. Len(seqs) : \E i \in 1 .. Len(seqs[t]) : x = ends[t - 1] + i
    BY <1>5 DEF Laid
  <2>2. PICK i \in 1 .. Len(seqs[t]) : x = ends[t - 1] + i
    BY <2>1
  <2>3. j[ends[t - 1] + i] = seqs[t][i]
    BY <1>5 DEF Laid
  <2>4. seqs[t][i] \in ToSet(seqs[t])
    BY SequenceIs
  <2> QED
    BY <2>2, <2>3, <2>4
<1> QED
  BY <1>5, <1>6, <1>7, <1>8 DEF j
LEMMA Added ==
  ASSUME NEW s, NEW u, IsSeq(s), IsSeq(u)
  PROVE  IsSeq(s \o u) /\ ToSet(s \o u) = ToSet(s) \cup ToSet(u)
<1> DEFINE V == ToSet(s) \cup ToSet(u)
           j == s \o u
<1>1. s \in Seq(V) /\ u \in Seq(V)
  BY SeqMonotonic DEF IsSeq
<1>2. j \in Seq(V) /\ ExtendedBy(j, s, u)
  <2> HIDE DEF V
  <2> QED
    BY <1>1, Extended, Zenon
<1>3. Len(j) \in Nat /\ DOMAIN j = 1 .. Len(j) /\ j = [i \in 1 .. Len(j) |-> j[i]]
  <2> HIDE DEF V, j
  <2> QED
    BY <1>2, LenProperties
<1> HIDE DEF j
<1>4. IsSeq(j)
  BY <1>3, IsSequence
<1>5. ASSUME NEW x \in ToSet(j)
      PROVE  x \in ToSet(s) \cup ToSet(u)
  <2>1. PICK k \in 1 .. Len(j) : x = j[k]
    BY <1>3, <1>5 DEF ToSet
  <2>2. CASE k \in 1 .. Len(s)
    BY <1>2, <2>1, <2>2, SequenceIs DEF ExtendedBy
  <2>3. CASE k \notin 1 .. Len(s)
    <3>1. PICK i \in 1 .. Len(u) : k = Len(s) + i
      BY <1>2, <2>3 DEF ExtendedBy
    <3>2. j[Len(s) + i] = u[i] /\ u[i] \in ToSet(u)
      BY <1>2, SequenceIs DEF ExtendedBy
    <3> QED
      BY <2>1, <3>1, <3>2
  <2> QED
    BY <2>2, <2>3
<1>6. ASSUME NEW x \in ToSet(s)
      PROVE  x \in ToSet(j)
  <2>1. PICK i \in 1 .. Len(s) : x = s[i]
    BY SequenceIs
  <2>2. i \in DOMAIN j /\ j[i] = s[i]
    BY <1>2, <1>3 DEF ExtendedBy
  <2> QED
    BY <2>1, <2>2 DEF ToSet
<1>7. ASSUME NEW x \in ToSet(u)
      PROVE  x \in ToSet(j)
  <2>1. PICK i \in 1 .. Len(u) : x = u[i]
    BY SequenceIs
  <2>2. Len(s) + i \in DOMAIN j /\ j[Len(s) + i] = u[i]
    BY <1>2, <1>3 DEF ExtendedBy
  <2> QED
    BY <2>1, <2>2 DEF ToSet
<1> QED
  BY <1>4, <1>5, <1>6, <1>7 DEF j

LEMMA Alone ==
  ASSUME NEW e
  PROVE  IsSeq(<<e>>) /\ ToSet(<<e>>) = {e} /\ IsSeq(<< >>) /\ ToSet(<< >>) = {}
BY DEF IsSeq, ToSet

-----------------------------------------------------------------------------
(* The units of a document: what they get from env files they get under    *)
(* their own name, and every container that is graded has one that does.   *)
LEMMA HooksAreUnits ==
  ASSUME NEW c, NEW kind, IsSeq(c.hooks[kind])
  PROVE  IsSeq(HooksOf(c, kind)) /\ \A u \in ToSet(HooksOf(c, kind)) : u.env = None
<1> DEFINE h == HooksOf(c, kind)
           n == Len(c.hooks[kind])
<1>1. n \in Nat /\ DOMAIN c.hooks[kind] = 1 .. n
  BY SequenceIs
<1>2. h = [i \in 1 .. n |-> h[i]]
  BY <1>1 DEF HooksOf
<1>3. \A i \in 1 .. n : h[i].env = None
  BY <1>1 DEF HooksOf, Unit
<1> HIDE DEF h
<1>4. IsSeq(h) /\ DOMAIN h = 1 .. n
  BY <1>1, <1>2, IsSequence
<1>5. \A u \in ToSet(h) : u.env = None
  BY <1>3, <1>4 DEF ToSet
<1> QED
  BY <1>4, <1>5 DEF h

OwnEnv(us) == \A u \in ToSet(us) : u.env = None \/ u.env = u.name
Grades(us, name) == \E u \in ToSet(us) : u.name = name /\ u.env = name

LEMMA ServiceHasUnits ==
  ASSUME NEW d, WellFormed(d), NEW c \in ToSet(d.services)
  PROVE  /\ IsSeq(ServiceUnits(d, c)) /\ OwnEnv(ServiceUnits(d, c))
         /\ ~c.provider => Grades(ServiceUnits(d, c), c.name)
<1> DEFINE own == Unit(c.name, None, FALSE, c.name, c.uses)
           lists == [k \in DOMAIN HookKinds |-> HooksOf(c, HookKinds[k])]
           hooks == Concatenated(lists)
           rest == IF Bounded(d) /\ c.mapping THEN hooks ELSE << >>
<1>1. DOMAIN HookKinds = 1 .. 3 /\ \A k \in 1 .. 3 : HookKinds[k] \in ToSet(HookKinds)
  BY DEF HookKinds, ToSet
<1>2. \A k \in 1 .. 3 : IsSeq(c.hooks[HookKinds[k]])
  BY <1>1 DEF WellFormed
<1>3. \A k \in 1 .. 3 : IsSeq(lists[k]) /\ \A u \in ToSet(lists[k]) : u.env = None
  BY <1>1, <1>2, HooksAreUnits
<1>4. lists = [k \in 1 .. 3 |-> lists[k]]
  BY <1>1
<1> HIDE DEF lists
<1>5. IsSeq(lists) /\ Len(lists) = 3
  BY <1>4, IsSequence
<1>6. IsSeq(hooks) /\ ToSet(hooks) = UNION {ToSet(lists[k]) : k \in 1 .. Len(lists)}
  <2>1. \A k \in 1 .. Len(lists) : IsSeq(lists[k])
    BY <1>3, <1>5
  <2> QED
    BY <1>5, <2>1, JoinedUp
<1>7. \A u \in ToSet(hooks) : u.env = None
  BY <1>3, <1>5, <1>6
<1> HIDE DEF hooks
<1>8. IsSeq(rest) /\ \A u \in ToSet(rest) : u.env = None
  BY <1>6, <1>7, Alone
<1>9. own.env = c.name /\ own.name = c.name
  BY DEF Unit
<1> HIDE DEF own, rest
<1>10. IsSeq(<<own>> \o rest) /\ ToSet(<<own>> \o rest) = {own} \cup ToSet(rest)
  BY <1>8, Added, Alone
<1>11. CASE c.provider
  <2>1. ServiceUnits(d, c) = << >>
    BY <1>11 DEF ServiceUnits
  <2> QED
    BY <1>11, <2>1, Alone DEF OwnEnv
<1>12. CASE ~c.provider
  <2>1. ServiceUnits(d, c) = <<own>> \o rest
    BY <1>12 DEF ServiceUnits, own, rest, hooks, lists
  <2> QED
    BY <1>8, <1>9, <1>10, <2>1 DEF OwnEnv, Grades
<1> QED
  BY <1>11, <1>12

LEMMA JobHasUnits ==
  ASSUME NEW d, NEW c
  PROVE  /\ IsSeq(JobUnits(d, c)) /\ OwnEnv(JobUnits(d, c))
         /\ Bounded(d) /\ c.mapping /\ ~c.extends => Grades(JobUnits(d, c), JobName(c))
<1> DEFINE own == Unit(JobName(c), None, FALSE, JobName(c), c.uses)
<1>1. own.env = JobName(c) /\ own.name = JobName(c)
  BY DEF Unit
<1>2. JobUnits(d, c) = << >> \/ JobUnits(d, c) = <<own>>
  BY DEF JobUnits
<1>3. Bounded(d) /\ c.mapping /\ ~c.extends => JobUnits(d, c) = <<own>>
  BY DEF JobUnits
<1> HIDE DEF own
<1> QED
  BY <1>1, <1>2, <1>3, Alone DEF OwnEnv, Grades

LEMMA DocumentUnits ==
  ASSUME NEW d, WellFormed(d)
  PROVE  /\ IsSeq(UnitsOf(d)) /\ OwnEnv(UnitsOf(d))
         /\ \A c \in ToSet(d.services) : ~c.provider => Grades(UnitsOf(d), c.name)
         /\ \A c \in ToSet(d.jobs) :
              Bounded(d) /\ c.mapping /\ ~c.extends => Grades(UnitsOf(d), JobName(c))
<1> DEFINE ss == [i \in DOMAIN d.services |-> ServiceUnits(d, d.services[i])]
           js == [i \in DOMAIN d.jobs |-> JobUnits(d, d.jobs[i])]
           s == Concatenated(ss)
           j == Concatenated(js)
           n == Len(d.services)
           m == Len(d.jobs)
<1>1. /\ n \in Nat /\ DOMAIN d.services = 1 .. n
      /\ \A i \in 1 .. n : d.services[i] \in ToSet(d.services)
      /\ \A c \in ToSet(d.services) : \E i \in 1 .. n : c = d.services[i]
  BY SequenceIs DEF WellFormed
<1>2. /\ m \in Nat /\ DOMAIN d.jobs = 1 .. m
      /\ \A i \in 1 .. m : d.jobs[i] \in ToSet(d.jobs)
      /\ \A c \in ToSet(d.jobs) : \E i \in 1 .. m : c = d.jobs[i]
  BY SequenceIs DEF WellFormed
<1>3. /\ ss = [i \in 1 .. n |-> ss[i]]
      /\ \A i \in 1 .. n : ss[i] = ServiceUnits(d, d.services[i])
  BY <1>1
<1>4. /\ js = [i \in 1 .. m |-> js[i]]
      /\ \A i \in 1 .. m : js[i] = JobUnits(d, d.jobs[i])
  BY <1>2
<1>5. UnitsOf(d) = s \o j
  BY DEF UnitsOf
<1> HIDE DEF n, m, ss, js
<1>6. IsSeq(ss) /\ Len(ss) = n /\ IsSeq(js) /\ Len(js) = m
  BY <1>1, <1>2, <1>3, <1>4, IsSequence
<1>7. \A i \in 1 .. n : IsSeq(ss[i]) /\ OwnEnv(ss[i])
  BY <1>1, <1>3, ServiceHasUnits
<1>8. \A i \in 1 .. m : IsSeq(js[i]) /\ OwnEnv(js[i])
  BY <1>4, JobHasUnits
<1>9. IsSeq(s) /\ ToSet(s) = UNION {ToSet(ss[i]) : i \in 1 .. n}
  BY <1>6, <1>7, JoinedUp
<1>10. IsSeq(j) /\ ToSet(j) = UNION {ToSet(js[i]) : i \in 1 .. m}
  BY <1>6, <1>8, JoinedUp
<1> HIDE DEF s, j
<1>11. IsSeq(UnitsOf(d)) /\ ToSet(UnitsOf(d)) = ToSet(s) \cup ToSet(j)
  BY <1>5, <1>9, <1>10, Added
<1>12. OwnEnv(UnitsOf(d))
  BY <1>7, <1>8, <1>9, <1>10, <1>11 DEF OwnEnv
<1>13. ASSUME NEW c \in ToSet(d.services), ~c.provider
       PROVE  Grades(UnitsOf(d), c.name)
  <2>1. PICK i \in 1 .. n : c = d.services[i]
    BY <1>1
  <2>2. Grades(ss[i], c.name)
    BY <1>3, <1>13, <2>1, ServiceHasUnits
  <2> QED
    BY <1>9, <1>11, <2>2 DEF Grades
<1>14. ASSUME NEW c \in ToSet(d.jobs), Bounded(d), c.mapping, ~c.extends
       PROVE  Grades(UnitsOf(d), JobName(c))
  <2>1. PICK i \in 1 .. m : c = d.jobs[i]
    BY <1>2
  <2>2. Grades(js[i], JobName(c))
    BY <1>4, <1>14, <2>1, JobHasUnits
  <2> QED
    BY <1>10, <1>11, <2>2 DEF Grades
<1> QED
  BY <1>11, <1>12, <1>13, <1>14

-----------------------------------------------------------------------------
(* A template is what a unit that shadows nothing would get.               *)
Cached ==
  \A e \in DOMAIN graded : graded[e] = {k \in e : Watches(Rules[ri], k)}

Counted == Len(units) \in Nat /\ DOMAIN units = 1 .. Len(units)

AllDeserved == UNION {Deserved(p[1], p[2]) : p \in Past \ crashed}

SweepInv ==
  /\ Counted
  /\ ri \in 1 .. Len(Rules) + 1
  /\ ui \in 1 .. Len(units) + 1
  /\ crashed \subseteq Past
  /\ status \in {"grading", "complete", "stopped"}
  /\ status = "grading" => Cached /\ findings = AllDeserved
  /\ status # "grading" => findings = Quoted(AllDeserved)
  /\ status = "complete" => ri \notin DOMAIN Rules \/ ui \notin DOMAIN units
  /\ Len(units) > 0 => ui \in DOMAIN units

-----------------------------------------------------------------------------
(* A cached template, less what the unit shadows, is what the unit itself  *)
(* would have been given.                                                  *)
LEMMA KeysAsDeserved ==
  ASSUME Cached, ri \in DOMAIN Rules, ui \in DOMAIN units
  PROVE  Found(ri, ui) = Deserved(ri, ui)
<1>1. CASE Contributed(ui) = {}
  BY <1>1 DEF Found, Deserved, KeyReports
<1>2. CASE Contributed(ui) # {}
  <2>1. Template(ri, ui) = {k \in Available(ui) : Watches(Rules[ri], k)}
    BY DEF Template, Cached
  <2>2. {t \in Template(ri, ui) : t.key \notin Shadowed(ui)}
          = {k \in Contributed(ui) : Watches(Rules[ri], k)}
    BY <2>1 DEF Contributed
  <2> QED
    BY <1>2, <2>2 DEF Found, Deserved, KeyReports
<1> QED
  BY <1>1, <1>2

(* One more pair is behind the loops.                                      *)
LEMMA AdvanceStep ==
  ASSUME Counted, ri \in DOMAIN Rules, ui \in DOMAIN units, UNCHANGED units, Advance
  PROVE  /\ ri' \in 1 .. Len(Rules) + 1
         /\ ui' \in DOMAIN units
         /\ Past' = Past \cup {<<ri, ui>>}
         /\ <<ri, ui>> \notin Past
<1>1. DOMAIN Rules = 1 .. Len(Rules) /\ DOMAIN units = 1 .. Len(units)
      /\ Len(Rules) \in Nat /\ Len(units) \in Nat
  BY EngineAssumption DEF Counted
<1>2. /\ ri' \in 1 .. Len(Rules) + 1 /\ ui' \in DOMAIN units
  BY <1>1 DEF Advance
<1>3. ASSUME NEW p \in Pairs
      PROVE  p \in Past' <=> p \in Past \/ p = <<ri, ui>>
  <2>1. p = <<p[1], p[2]>> /\ p[1] \in DOMAIN Rules /\ p[2] \in DOMAIN units
    BY DEF Pairs
  <2>2. p = <<ri, ui>> <=> p[1] = ri /\ p[2] = ui
    BY <2>1
  <2>3. p[1] < ri' \/ (p[1] = ri' /\ p[2] < ui')
          <=> p[1] < ri \/ (p[1] = ri /\ p[2] < ui) \/ (p[1] = ri /\ p[2] = ui)
    BY <1>1, <2>1 DEF Advance
  <2> QED
    BY <2>2, <2>3 DEF Past, Pairs
<1>4. <<ri, ui>> \in Pairs
  BY DEF Pairs
<1>5. Past' = Past \cup {<<ri, ui>>}
  BY <1>3, <1>4 DEF Past, Pairs
<1>6. <<ri, ui>> \notin Past
  BY <1>1 DEF Past
<1> QED
  BY <1>2, <1>5, <1>6

(* The cache is emptied with the rule, and otherwise kept.                 *)
LEMMA ForgetStep ==
  ASSUME Forget
  PROVE  Cached'
BY DEF Forget, Cached, NoFile

LEMMA RememberStep ==
  ASSUME Cached, ri \in DOMAIN Rules, ui \in DOMAIN units, Remember(ri, ui), ri' = ri
  PROVE  Cached'
<1>1. CASE Contributed(ui) = {}
  BY <1>1 DEF Remember, Cached
<1>2. CASE Contributed(ui) # {}
  <2>1. Template(ri, ui) = {k \in Available(ui) : Watches(Rules[ri], k)}
    BY DEF Template, Cached
  <2> QED
    BY <1>2, <2>1 DEF Remember, Cached
<1> QED
  BY <1>1, <1>2

-----------------------------------------------------------------------------
(* What is deserved does not depend on how far the loops have come.        *)
LEMMA DeservedKept ==
  ASSUME UNCHANGED config, NEW r, NEW u
  PROVE  Deserved(r, u)' = Deserved(r, u)
<1>1. \A p : Finding(r, u, p)' = Finding(r, u, p)
  BY DEF config, Finding, Supplied, Severity, Reason, ExcludedAs
<1>2. Contributed(u)' = Contributed(u)
  BY DEF config, Contributed, Available, Shadowed
<1> QED
  BY <1>1, <1>2 DEF config, Deserved, Attributed

(* A pair graded adds what it deserves; a pair crashed adds nothing.       *)
LEMMA OneMorePair ==
  ASSUME UNCHANGED config, NEW p, p \notin Past, Past' = Past \cup {p}, crashed \subseteq Past
  PROVE  /\ crashed' = crashed => AllDeserved' = AllDeserved \cup Deserved(p[1], p[2])
         /\ crashed' = crashed \cup {p} => AllDeserved' = AllDeserved
<1>1. \A r, u : Deserved(r, u)' = Deserved(r, u)
  BY DeservedKept
<1>2. ASSUME crashed' = crashed
      PROVE  AllDeserved' = AllDeserved \cup Deserved(p[1], p[2])
  <2>1. (Past \ crashed)' = (Past \ crashed) \cup {p}
    BY <1>2
  <2> QED
    BY <1>1, <2>1 DEF AllDeserved
<1>3. ASSUME crashed' = crashed \cup {p}
      PROVE  AllDeserved' = AllDeserved
  <2>1. (Past \ crashed)' = Past \ crashed
    BY <1>3
  <2> QED
    BY <1>1, <2>1 DEF AllDeserved
<1> QED
  BY <1>2, <1>3

LEMMA InitSweep == Init => SweepInv
<1> SUFFICES ASSUME Init
             PROVE  SweepInv
  OBVIOUS
<1>0. Counted
  BY EngineAssumption, DocumentUnits, SequenceIs DEF Init, Counted
<1>1. DOMAIN Rules = 1 .. Len(Rules) /\ DOMAIN units = 1 .. Len(units)
      /\ Len(Rules) \in Nat /\ Len(units) \in Nat
  BY <1>0, EngineAssumption DEF Counted
<1>2. Past = {}
  <2>1. \A p \in Pairs : p[1] \in DOMAIN Rules /\ p[2] \in DOMAIN units
    BY DEF Pairs
  <2> QED
    BY <1>1, <2>1 DEF Init, Past
<1>3. AllDeserved = {}
  BY <1>2 DEF AllDeserved
<1>4. Cached
  BY DEF Init, Cached, NoFile
<1> QED
  BY <1>0, <1>1, <1>2, <1>3, <1>4 DEF Init, SweepInv

LEMMA SweepStep == SweepInv /\ [Next]_vars => SweepInv'
<1> SUFFICES ASSUME SweepInv, [Next]_vars
             PROVE  SweepInv'
  OBVIOUS
<1>0. DOMAIN Rules = 1 .. Len(Rules) /\ DOMAIN units = 1 .. Len(units)
      /\ Len(Rules) \in Nat /\ Len(units) \in Nat
  BY EngineAssumption DEF SweepInv, Counted
<1>c. Counted' /\ UNCHANGED units
  BY DEF SweepInv, Counted, Next, Crash, Grade, Stop, Complete, config, vars
<1>p. <<ri, ui>>[1] = ri /\ <<ri, ui>>[2] = ui
  OBVIOUS
<1>1. CASE Crash
  <2>1. /\ ri' \in 1 .. Len(Rules) + 1 /\ ui' \in DOMAIN units
        /\ Past' = Past \cup {<<ri, ui>>} /\ <<ri, ui>> \notin Past
    BY <1>1, <1>c, AdvanceStep DEF Crash, SweepInv
  <2>2. AllDeserved' = AllDeserved
    BY <1>1, <2>1, OneMorePair DEF Crash, SweepInv
  <2>3. Cached'
    <3>1. CASE ri' = ri
      BY <1>1, <3>1 DEF Crash, SweepInv, Cached
    <3>2. CASE ri' # ri
      BY <1>1, <3>2, ForgetStep DEF Crash
    <3> QED
      BY <3>1, <3>2
  <2> QED
    BY <1>0, <1>c, <1>1, <2>1, <2>2, <2>3 DEF Crash, SweepInv
<1>2. CASE Grade
  <2>1. /\ ri' \in 1 .. Len(Rules) + 1 /\ ui' \in DOMAIN units
        /\ Past' = Past \cup {<<ri, ui>>} /\ <<ri, ui>> \notin Past
    BY <1>2, <1>c, AdvanceStep DEF Grade, SweepInv
  <2>2. Found(ri, ui) = Deserved(ri, ui)
    BY <1>2, KeysAsDeserved DEF Grade, SweepInv
  <2>3. AllDeserved' = AllDeserved \cup Deserved(ri, ui)
    BY <1>2, <1>p, <2>1, OneMorePair DEF Grade, SweepInv
  <2>4. Cached'
    <3>1. CASE ri' = ri
      BY <1>2, <3>1, RememberStep DEF Grade, SweepInv
    <3>2. CASE ri' # ri
      BY <1>2, <3>2, ForgetStep DEF Grade
    <3> QED
      BY <3>1, <3>2
  <2> QED
    BY <1>0, <1>c, <1>2, <2>1, <2>2, <2>3, <2>4 DEF Grade, SweepInv
<1>3. CASE Stop
  <2>1. /\ ri' \in 1 .. Len(Rules) + 1 /\ ui' \in DOMAIN units
        /\ Past' = Past \cup {<<ri, ui>>} /\ <<ri, ui>> \notin Past
    BY <1>3, <1>c, AdvanceStep DEF Stop, SweepInv
  <2>2. Found(ri, ui) = Deserved(ri, ui)
    BY <1>3, KeysAsDeserved DEF Stop, SweepInv
  <2>3. AllDeserved' = AllDeserved \cup Deserved(ri, ui)
    BY <1>3, <1>p, <2>1, OneMorePair DEF Stop, SweepInv
  <2>4. findings' = Quoted(AllDeserved')
    BY <1>3, <2>2, <2>3 DEF Stop, SweepInv
  <2>5. Quoted(AllDeserved)' = Quoted(AllDeserved')
    BY <1>c, <1>3 DEF Quoted, Quote, Replaced, Kept, Seen, UseAt
  <2> QED
    BY <1>0, <1>c, <1>3, <2>1, <2>4, <2>5 DEF Stop, SweepInv
<1>4. CASE Complete
  <2>1. Past' = Past /\ \A r, u : Deserved(r, u)' = Deserved(r, u)
    BY <1>c, <1>4, DeservedKept DEF Complete, Past, Pairs
  <2>2. AllDeserved' = AllDeserved
    BY <1>4, <2>1 DEF Complete, AllDeserved
  <2>3. Quoted(AllDeserved)' = Quoted(AllDeserved)
    BY <1>c, <2>2 DEF Quoted, Quote, Replaced, Kept, Seen, UseAt
  <2> QED
    BY <1>c, <1>4, <2>1, <2>3 DEF Complete, SweepInv
<1>5. CASE UNCHANGED vars
  <2>0. UNCHANGED config
    BY <1>5 DEF vars, config
  <2>1. Past' = Past /\ \A r, u : Deserved(r, u)' = Deserved(r, u)
    BY <1>c, <1>5, <2>0, DeservedKept DEF vars, Past, Pairs
  <2>2. AllDeserved' = AllDeserved /\ (Cached <=> Cached')
    BY <1>5, <2>1 DEF vars, AllDeserved, Cached
  <2>3. Quoted(AllDeserved)' = Quoted(AllDeserved)
    BY <1>c, <2>2 DEF Quoted, Quote, Replaced, Kept, Seen, UseAt
  <2> QED
    BY <1>c, <1>5, <2>1, <2>2, <2>3 DEF vars, SweepInv
<1> QED
  BY <1>1, <1>2, <1>3, <1>4, <1>5 DEF Next

LEMMA SweepInvariant == Spec => []SweepInv
<1> QED
  BY InitSweep, SweepStep, PTL DEF Spec

-----------------------------------------------------------------------------
(* What quoting changes in a finding is what it quotes.                    *)
Holding(r, u, p, quotes) ==
  [rule |-> Rules[r], unit |-> u, what |-> p.what, line |-> p.line,
   sev |-> Severity(r, p), suppressed |-> Reason(r, u), quotes |-> quotes]

MayQuote(u) == UNION {Cut(use.value) : use \in Supplied(u)}

LEMMA FindingHolds ==
  ASSUME NEW r, NEW u, NEW p
  PROVE  /\ Finding(r, u, p) = Holding(r, u, p, MayQuote(u))
         /\ Quote(Finding(r, u, p)) = Holding(r, u, p, MayQuote(u) \ Replaced(units[u].name))
<1> DEFINE old == MayQuote(u)
           new == old \ Replaced(units[u].name)
<1>1. Finding(r, u, p) = Holding(r, u, p, old)
  BY DEF Finding, Holding, MayQuote
<1> HIDE DEF old
<1>2. /\ Holding(r, u, p, old).quotes = old /\ Holding(r, u, p, old).unit = u
      /\ [Holding(r, u, p, old) EXCEPT !.quotes = new] = Holding(r, u, p, new)
  BY DEF Holding
<1>3. Quote(Holding(r, u, p, old))
        = [Holding(r, u, p, old) EXCEPT !.quotes = old \ Replaced(units[u].name)]
  BY <1>2 DEF Quote
<1> QED
  BY <1>1, <1>2, <1>3 DEF old

LEMMA QuotedKeeps ==
  ASSUME NEW r, NEW u, NEW p
  PROVE  /\ Quote(Finding(r, u, p)).rule = Rules[r]
         /\ Quote(Finding(r, u, p)).unit = u
         /\ Quote(Finding(r, u, p)).what = p.what
<1>1. PICK q : Quote(Finding(r, u, p)) = Holding(r, u, p, q)
  BY FindingHolds
<1> QED
  BY <1>1 DEF Holding

LEMMA QuoteFinding ==
  ASSUME NEW r, NEW u, NEW p, NEW f, f = Finding(r, u, p)
  PROVE  /\ Quote(f).unit = f.unit
         /\ Quote(f).quotes = f.quotes \ Replaced(units[u].name)
         /\ [Quote(f) EXCEPT !.quotes = {}] = [f EXCEPT !.quotes = {}]
         /\ [Quote(f) EXCEPT !.quotes = f.quotes] = f
<1> DEFINE old == MayQuote(u)
           new == old \ Replaced(units[u].name)
<1>1. f = Holding(r, u, p, old) /\ Quote(f) = Holding(r, u, p, new)
  BY FindingHolds
<1> HIDE DEF new, old
<1>2. \A q, t : [Holding(r, u, p, q) EXCEPT !.quotes = t] = Holding(r, u, p, t)
  BY DEF Holding
<1>3. \A q : Holding(r, u, p, q).quotes = q /\ Holding(r, u, p, q).unit = u
  BY DEF Holding
<1>4. Quote(f).unit = f.unit /\ f.quotes = old /\ Quote(f).quotes = new
  BY <1>1, <1>3
<1>5. [Quote(f) EXCEPT !.quotes = {}] = [f EXCEPT !.quotes = {}]
  BY <1>1, <1>2
<1>6. [Quote(f) EXCEPT !.quotes = old] = f
  BY <1>1, <1>2
<1> QED
  BY <1>4, <1>5, <1>6 DEF new

LEMMA DeservedAreFindings ==
  ASSUME NEW f \in AllDeserved
  PROVE  \E r \in DOMAIN Rules, u \in DOMAIN units : \E p : f = Finding(r, u, p)
<1>1. PICK q \in Past : f \in Deserved(q[1], q[2])
  BY DEF AllDeserved
<1>2. q[1] \in DOMAIN Rules /\ q[2] \in DOMAIN units
  BY DEF Past, Pairs
<1> QED
  BY <1>1, <1>2 DEF Deserved

LEMMA QuotedDeserved ==
  ASSUME NEW f \in AllDeserved
  PROVE  /\ f.unit \in DOMAIN units
         /\ f.quotes = MayQuote(f.unit)
         /\ Quote(f).unit = f.unit
         /\ Quote(f).quotes = f.quotes \ Replaced(units[f.unit].name)
         /\ [Quote(f) EXCEPT !.quotes = {}] = [f EXCEPT !.quotes = {}]
         /\ [Quote(f) EXCEPT !.quotes = f.quotes] = f
<1>1. PICK r \in DOMAIN Rules, u \in DOMAIN units : \E p : f = Finding(r, u, p)
  BY DeservedAreFindings
<1>2. PICK p : f = Finding(r, u, p)
  BY <1>1
<1>3. f.unit = u /\ f.quotes = MayQuote(u)
  BY <1>2 DEF Finding, MayQuote
<1>4. /\ Quote(f).quotes = f.quotes \ Replaced(units[u].name)
      /\ [Quote(f) EXCEPT !.quotes = {}] = [f EXCEPT !.quotes = {}]
      /\ [Quote(f) EXCEPT !.quotes = f.quotes] = f
      /\ Quote(f).unit = f.unit
  BY <1>2, QuoteFinding
<1> QED
  BY <1>1, <1>3, <1>4

(* Wherever rules crash, and whichever units share an env file, what is    *)
(* reported is what a sweep without memory has to say of every rule and    *)
(* unit behind it that did not crash: no more and no less.                 *)
THEOREM EveryPairGradedInFull == Spec => []GradedInFull
<1>1. SweepInv => GradedInFull
  <2> SUFFICES ASSUME SweepInv
               PROVE  GradedInFull
    OBVIOUS
  <2>1. CASE status = "grading"
    BY <2>1 DEF SweepInv, GradedInFull, AllDeserved
  <2>2. CASE status # "grading"
    <3>1. findings = {Quote(f) : f \in AllDeserved}
      BY <2>2 DEF SweepInv, Quoted
    <3>2. {[f EXCEPT !.quotes = {}] : f \in findings}
            = {[Quote(f) EXCEPT !.quotes = {}] : f \in AllDeserved}
      BY <3>1
    <3>3. {[Quote(f) EXCEPT !.quotes = {}] : f \in AllDeserved}
            = {[f EXCEPT !.quotes = {}] : f \in AllDeserved}
      <4>1. \A f \in AllDeserved : [Quote(f) EXCEPT !.quotes = {}] = [f EXCEPT !.quotes = {}]
        BY QuotedDeserved
      <4> QED
        BY <4>1
    <3> QED
      BY <3>2, <3>3 DEF GradedInFull, AllDeserved
  <2> QED
    BY <2>1, <2>2
<1> QED
  BY <1>1, SweepInvariant, PTL

(* A sweep that ends complete and crashed nowhere reports every finding    *)
(* there is to report.                                                     *)
THEOREM NoFindingLostQuietly == Spec => []NothingLostQuietly
<1>1. SweepInv => NothingLostQuietly
  <2> SUFFICES ASSUME SweepInv, status = "complete", crashed = {},
                      NEW q \in Pairs, NEW f \in Deserved(q[1], q[2])
               PROVE  \E g \in findings : [g EXCEPT !.quotes = f.quotes] = f
    BY DEF NothingLostQuietly
  <2>1. DOMAIN Rules = 1 .. Len(Rules) /\ DOMAIN units = 1 .. Len(units)
        /\ Len(Rules) \in Nat /\ Len(units) \in Nat
    BY EngineAssumption DEF SweepInv, Counted
  <2>2. q[1] \in DOMAIN Rules /\ q[2] \in DOMAIN units
    BY DEF Pairs
  <2>3. ri = Len(Rules) + 1
    BY <2>1, <2>2 DEF SweepInv
  <2>4. q \in Past \ crashed
    BY <2>1, <2>2, <2>3 DEF Past
  <2>5. f \in AllDeserved
    BY <2>4 DEF AllDeserved
  <2>6. Quote(f) \in findings
    BY <2>5 DEF SweepInv, Quoted
  <2> QED
    BY <2>5, <2>6, QuotedDeserved
<1> QED
  BY <1>1, SweepInvariant, PTL

(* The loops of run_rules never leave the rules and the units, and nothing *)
(* is kept of an env file that is not one of its keys.                     *)
KeptKeys ==
  /\ disabled \in Disabled
  /\ \A e \in DOMAIN graded : graded[e] \subseteq e

THEOREM SweepTyped == Spec => []TypeOK
<1>1. Init => KeptKeys
  BY DEF Init, KeptKeys, NoFile
<1>2. SweepInv' /\ KeptKeys /\ [Next]_vars => KeptKeys'
  <2> SUFFICES ASSUME SweepInv', KeptKeys, [Next]_vars
               PROVE  KeptKeys'
    OBVIOUS
  <2>1. disabled' = disabled
    BY DEF Next, Crash, Grade, Stop, Complete, config, vars
  <2>2. CASE status' = "grading"
    BY <2>1, <2>2 DEF SweepInv, Cached, KeptKeys
  <2>3. CASE Stop
    BY <2>1, <2>3 DEF Stop, Forget, NoFile, KeptKeys
  <2>4. CASE status' # "grading" /\ (Crash \/ Grade)
    BY <2>4 DEF Crash, Grade
  <2>5. CASE Complete \/ UNCHANGED vars
    BY <2>1, <2>5 DEF Complete, vars, KeptKeys
  <2> QED
    BY <2>2, <2>3, <2>4, <2>5 DEF Next
<1>3. SweepInv /\ KeptKeys => TypeOK
  <2> SUFFICES ASSUME SweepInv, KeptKeys
               PROVE  TypeOK
    OBVIOUS
  <2> DEFINE Own(f) == /\ f.unit \in DOMAIN units
                       /\ f.quotes \subseteq MayQuote(f.unit)
  <2>1. \A f \in AllDeserved : Own(f)
    BY QuotedDeserved
  <2>2. ASSUME NEW f \in AllDeserved
        PROVE  Own(Quote(f))
    <3>1. /\ f.unit \in DOMAIN units /\ f.quotes = MayQuote(f.unit)
          /\ Quote(f).unit = f.unit /\ Quote(f).quotes \subseteq f.quotes
      BY QuotedDeserved
    <3> QED
      BY <3>1
  <2> HIDE DEF Own
  <2>3. \A f \in findings : Own(f)
    BY <2>1, <2>2 DEF SweepInv, Quoted
  <2>4. crashed \subseteq Pairs
    BY DEF SweepInv, Past
  <2>5. disabled \subseteq {Rules[r] : r \in DOMAIN Rules}
    BY EngineAssumption DEF KeptKeys
  <2> QED
    BY <2>3, <2>4, <2>5 DEF SweepInv, KeptKeys, TypeOK, MayQuote, Own
<1> QED
  BY <1>1, <1>2, <1>3, SweepInvariant, PTL DEF Spec

-----------------------------------------------------------------------------
(* What the lines of a container's files come to, one after the other.     *)
LEMMA LastSetting ==
  ASSUME NEW written, NEW key, NEW i \in Nat, Setting(written, key, i) # {}
  PROVE  /\ Max(Setting(written, key, i)) \in Setting(written, key, i)
         /\ Max(Setting(written, key, i)) \in 1 .. i - 1
         /\ \A j \in Setting(written, key, i) : j <= Max(Setting(written, key, i))
<1>1. Setting(written, key, i) \subseteq 1 .. i - 1
  BY DEF Setting
<1> DEFINE s == Setting(written, key, i)
<1> HIDE DEF s
<1>2. i - 1 \in Nat /\ s \in SUBSET (1 .. i - 1)
  <2>1. PICK y : y \in s
    BY DEF s
  <2>2. y \in 1 .. i - 1
    BY <1>1, <2>1 DEF s
  <2>3. i - 1 \in Nat
    BY <2>2
  <2> QED
    BY <1>1, <2>3 DEF s
<1>3. Max(s) \in s /\ \A y \in s : Max(s) >= y
  BY <1>2, GreatestOf DEF s
<1>4. \A y \in s : y \in Int
  BY <1>2
<1>5. \A y \in s : y <= Max(s)
  BY <1>3, <1>4
<1> QED
  BY <1>2, <1>3, <1>5 DEF s

LEMMA ValueOfEarlier ==
  ASSUME NEW written, NEW f, NEW g, NEW i \in Nat, \A j \in 1 .. i - 1 : f[j] = g[j]
  PROVE  ValueFrom(written, f, i) = ValueFrom(written, g, i)
<1> DEFINE e == Setting(written, written[i].line.text, i)
<1>1. e # {} => f[Max(e)] = g[Max(e)]
  BY LastSetting
<1> HIDE DEF e
<1> QED
  BY <1>1 DEF ValueFrom, e

LEMMA ValuesOfLines ==
  ASSUME NEW written, NEW n \in Nat, DOMAIN written = 1 .. n
  PROVE  \A i \in 1 .. n : ValueAt(written)[i] = ValueFrom(written, ValueAt(written), i)
<1> DEFINE T == {m \in Nat : \E f : f = [i \in 1 .. m |-> ValueFrom(written, f, i)]}
           value == CHOOSE f : f = [i \in DOMAIN written |-> ValueFrom(written, f, i)]
<1>1. 0 \in T
  <2> DEFINE f == [i \in 1 .. 0 |-> 0]
  <2>1. f = [i \in 1 .. 0 |-> ValueFrom(written, f, i)]
    OBVIOUS
  <2> HIDE DEF f
  <2> QED
    BY <2>1
<1>2. ASSUME NEW m \in Nat, m \in T
      PROVE  m + 1 \in T
  <2>1. PICK f : f = [i \in 1 .. m |-> ValueFrom(written, f, i)]
    BY <1>2
  <2> DEFINE g == [i \in 1 .. m + 1 |-> IF i = m + 1 THEN ValueFrom(written, f, m + 1) ELSE f[i]]
  <2>2. ASSUME NEW i \in 1 .. m + 1
        PROVE  g[i] = ValueFrom(written, g, i)
    <3>1. ASSUME NEW j \in 1 .. i - 1
          PROVE  f[j] = g[j]
      <4>1. j \in 1 .. m + 1 /\ j # m + 1
        OBVIOUS
      <4> QED
        BY <4>1
    <3>2. ValueFrom(written, f, i) = ValueFrom(written, g, i)
      <4> HIDE DEF g
      <4> QED
        BY <3>1, ValueOfEarlier
    <3>3. CASE i = m + 1
      BY <3>2, <3>3
    <3>4. CASE i # m + 1
      <4>1. i \in 1 .. m
        BY <3>4
      <4>2. f[i] = ValueFrom(written, f, i)
        BY <2>1, <4>1
      <4> QED
        BY <3>2, <3>4, <4>2
    <3> QED
      BY <3>3, <3>4
  <2>3. g = [i \in 1 .. m + 1 |-> ValueFrom(written, g, i)]
    <3>1. g = [i \in 1 .. m + 1 |-> g[i]]
      OBVIOUS
    <3> HIDE DEF g
    <3> QED
      BY <2>2, <3>1
  <2> HIDE DEF g
  <2>4. \E h : h = [i \in 1 .. m + 1 |-> ValueFrom(written, h, i)]
    BY <2>3, Zenon
  <2> QED
    BY <2>4
<1> HIDE DEF T
<1>3. n \in T
  BY <1>1, <1>2, InductionOnNat
<1>4. value = [i \in DOMAIN written |-> ValueFrom(written, value, i)]
  <2>1. \E f : f = [i \in 1 .. n |-> ValueFrom(written, f, i)]
    BY <1>3 DEF T
  <2>2. \E f : f = [i \in DOMAIN written |-> ValueFrom(written, f, i)]
    BY <2>1
  <2> QED
    BY <2>2, Zenon
<1>5. ValueAt(written) = value
  BY Zenon DEF ValueAt
<1> HIDE DEF value
<1> QED
  BY <1>4, <1>5

(* Where the lines of each file begin.                                     *)
Legible(t) == IF Read(document, t) THEN Lines(document, t) ELSE << >>

InOrder(c, written, ends) ==
  LET n == Len(c.targets)
  IN  /\ n \in Nat /\ DOMAIN c.targets = 1 .. n
      /\ ends \in [0 .. n -> Nat] /\ ends[0] = 0
      /\ DOMAIN written = 1 .. ends[n] /\ Len(written) = ends[n]
      /\ \A t \in 1 .. n :
           /\ ends[t] = ends[t - 1] + Len(Legible(c.targets[t])) /\ ends[t] <= ends[n]
           /\ \A i \in 1 .. Len(Legible(c.targets[t])) :
                written[ends[t - 1] + i] =
                  [line |-> Legible(c.targets[t])[i], raw |-> c.targets[t].raw,
                   file |-> c.targets[t].path, at |-> t]
           /\ \A x \in 1 .. ends[t - 1] : written[x].at # t
      /\ \A x \in DOMAIN written : written[x].file \in {c.targets[t].path : t \in 1 .. n}
LEMMA WrittenInOrder ==
  ASSUME NEW c, IsSeq(c.targets),
         \A t \in ToSet(c.targets) : Read(document, t) => IsSeq(Lines(document, t))
  PROVE  \E ends : InOrder(c, Written(c), ends)
<1> DEFINE n == Len(c.targets)
           legible(t) == Legible(c.targets[t])
           lists == [t \in DOMAIN c.targets |-> Entries(c, t)]
           w == Concatenated(lists)
<1>1. n \in Nat /\ DOMAIN c.targets = 1 .. n /\ \A t \in 1 .. n : c.targets[t] \in ToSet(c.targets)
  BY SequenceIs
<1>2. \A t \in 1 .. n : IsSeq(legible(t))
  BY <1>1, Alone DEF Legible
<1>3. \A t \in 1 .. n : Len(legible(t)) \in Nat /\ DOMAIN legible(t) = 1 .. Len(legible(t))
  BY <1>2, SequenceIs
<1>4. ASSUME NEW t \in 1 .. n
      PROVE  /\ IsSeq(lists[t]) /\ Len(lists[t]) = Len(legible(t))
             /\ \A i \in 1 .. Len(legible(t)) :
                  lists[t][i] = [line |-> legible(t)[i], raw |-> c.targets[t].raw,
                                 file |-> c.targets[t].path, at |-> t]
  <2> DEFINE e == Entries(c, t)
  <2>1. lists[t] = e
    BY <1>1
  <2>2. e = [i \in DOMAIN legible(t) |->
               [line |-> legible(t)[i], raw |-> c.targets[t].raw,
                file |-> c.targets[t].path, at |-> t]]
    BY DEF Entries, Legible
  <2> HIDE DEF e, legible, lists
  <2>3. e = [i \in 1 .. Len(legible(t)) |-> e[i]]
    BY <1>3, <2>2
  <2>4. IsSeq(e) /\ Len(e) = Len(legible(t))
    BY <1>3, <2>3, IsSequence
  <2> QED
    BY <1>3, <2>1, <2>2, <2>4
<1>5. IsSeq(lists) /\ Len(lists) = n
  <2>1. lists = [t \in 1 .. n |-> lists[t]]
    BY <1>1
  <2> HIDE DEF lists
  <2> QED
    BY <1>1, <2>1, IsSequence
<1>6. w = Written(c)
  BY DEF Written
<1> HIDE DEF lists, legible
<1>7. PICK ends : Starts(ends, lists) /\ Laid(w, lists, ends)
  BY <1>4, <1>5, JoinedUp
<1>8. /\ ends \in [0 .. n -> Nat] /\ ends[0] = 0
      /\ \A t \in 1 .. n : ends[t] = ends[t - 1] + Len(legible(t))
      /\ DOMAIN w = 1 .. ends[n] /\ Len(w) = ends[n]
  BY <1>4, <1>5, <1>7 DEF Starts, Laid
<1>9. ASSUME NEW t \in 1 .. n, NEW i \in 1 .. Len(legible(t))
      PROVE  /\ ends[t - 1] + i \in DOMAIN w
             /\ w[ends[t - 1] + i] = [line |-> legible(t)[i], raw |-> c.targets[t].raw,
                                      file |-> c.targets[t].path, at |-> t]
             /\ w[ends[t - 1] + i].file = c.targets[t].path
             /\ w[ends[t - 1] + i].at = t
  <2>1. /\ ends[t - 1] + i \in DOMAIN w
        /\ w[ends[t - 1] + i] = [line |-> legible(t)[i], raw |-> c.targets[t].raw,
                                 file |-> c.targets[t].path, at |-> t]
    BY <1>4, <1>5, <1>7 DEF Laid
  <2> QED
    BY <2>1
<1>10. ASSUME NEW x \in DOMAIN w
       PROVE  \E t \in 1 .. n : \E i \in 1 .. Len(legible(t)) : x = ends[t - 1] + i
  <2>0. \E t \in 1 .. Len(lists) : \E i \in 1 .. Len(lists[t]) : x = ends[t - 1] + i
    BY <1>7, <1>10, Zenon DEF Laid
  <2>1. PICK t \in 1 .. n : \E i \in 1 .. Len(lists[t]) : x = ends[t - 1] + i
    BY <1>5, <2>0
  <2>2. Len(lists[t]) = Len(legible(t))
    BY <1>4
  <2> QED
    BY <2>1, <2>2
<1> HIDE DEF w
<1> DEFINE T == {s \in Nat : s <= n => /\ \A t \in 0 .. s : ends[t] <= ends[s]
                                      /\ \A x \in 1 .. ends[s] : w[x].at \in 1 .. s}
<1>11. 0 \in T
  BY <1>1, <1>8
<1>12. ASSUME NEW s \in Nat, s \in T
       PROVE  s + 1 \in T
  <2> SUFFICES ASSUME s + 1 <= n
               PROVE  /\ \A t \in 0 .. s + 1 : ends[t] <= ends[s + 1]
                      /\ \A x \in 1 .. ends[s + 1] : w[x].at \in 1 .. s + 1
    OBVIOUS
  <2>1. s + 1 \in 1 .. n /\ (s + 1) - 1 = s /\ s \in 0 .. n /\ s + 1 \in 0 .. n /\ s <= n
    BY <1>1
  <2>2. /\ ends[s + 1] = ends[s] + Len(legible(s + 1)) /\ Len(legible(s + 1)) \in Nat
        /\ ends[s] \in Nat /\ ends[s + 1] \in Nat
    BY <1>3, <1>8, <2>1
  <2>3. /\ \A t \in 0 .. s : ends[t] <= ends[s]
        /\ \A x \in 1 .. ends[s] : w[x].at \in 1 .. s
    BY <1>12, <2>1
  <2>4. \A t \in 0 .. s + 1 : (t \in 0 .. s \/ t = s + 1) /\ t \in 0 .. n
    BY <1>1
  <2>5. \A t \in 0 .. n : ends[t] \in Nat
    BY <1>8
  <2> HIDE DEF T
  <2>6. \A t \in 0 .. s + 1 : ends[t] <= ends[s + 1]
    BY <2>2, <2>3, <2>4, <2>5
  <2>7. ASSUME NEW x \in 1 .. ends[s + 1]
        PROVE  w[x].at \in 1 .. s + 1
    <3>1. CASE x \in 1 .. ends[s]
      <4>1. w[x].at \in 1 .. s
        BY <2>3, <3>1
      <4> QED
        BY <4>1
    <3>2. CASE x \notin 1 .. ends[s]
      <4> DEFINE i == x - ends[s]
      <4>1. i \in 1 .. Len(legible(s + 1)) /\ x = ends[s] + i
        BY <2>2, <3>2
      <4> HIDE DEF i
      <4>2. w[ends[(s + 1) - 1] + i].at = s + 1
        BY <1>9, <2>1, <4>1, Zenon
      <4> QED
        BY <2>1, <4>1, <4>2
    <3> QED
      BY <3>1, <3>2
  <2> QED
    BY <2>6, <2>7
<1> HIDE DEF T
<1>13. Nat \subseteq T
  BY <1>11, <1>12, InductionOnNat
<1>14. \A s \in 0 .. n : s \in Nat /\ s <= n
  BY <1>1
<1>15. /\ \A t \in 0 .. n : ends[t] <= ends[n]
       /\ \A s \in 0 .. n : \A x \in 1 .. ends[s] : w[x].at \in 1 .. s
  BY <1>1, <1>13, <1>14 DEF T
<1>16. \A t \in 1 .. n : t \in 0 .. n /\ t - 1 \in 0 .. n /\ t \notin 1 .. t - 1
  BY <1>1
<1>17. \A t \in 1 .. n : ends[t] <= ends[n] /\ \A x \in 1 .. ends[t - 1] : w[x].at # t
  BY <1>15, <1>16
<1>18. \A x \in DOMAIN w : w[x].file \in {c.targets[t].path : t \in 1 .. n}
  <2> SUFFICES ASSUME NEW x \in DOMAIN w
               PROVE  \E t \in 1 .. n : w[x].file = c.targets[t].path
    OBVIOUS
  <2>1. PICK t \in 1 .. n : \E i \in 1 .. Len(legible(t)) : x = ends[t - 1] + i
    BY <1>10
  <2>2. PICK i \in 1 .. Len(legible(t)) : x = ends[t - 1] + i
    BY <2>1
  <2>3. w[ends[t - 1] + i].file = c.targets[t].path
    BY <1>9, Zenon
  <2> QED
    BY <2>2, <2>3
<1>19. InOrder(c, w, ends)
  BY <1>1, <1>8, <1>9, <1>17, <1>18 DEF InOrder, legible
<1> QED
  BY <1>6, <1>19
LEMMA SettingNext ==
  ASSUME NEW written, NEW k, NEW i \in Nat \ {0}
  PROVE  /\ Skipped(written[i].line, written[i].raw) \/ written[i].line.key # k =>
              Setting(written, k, i + 1) = Setting(written, k, i)
         /\ ~Skipped(written[i].line, written[i].raw) /\ written[i].line.key = k =>
              /\ i \in Setting(written, k, i + 1)
              /\ Max(Setting(written, k, i + 1)) = i
<1> DEFINE sets(j) == ~Skipped(written[j].line, written[j].raw) /\ written[j].line.key = k
           s == Setting(written, k, i + 1)
<1>0. \A j : j \in 1 .. (i + 1) - 1 <=> j \in 1 .. i - 1 \/ j = i
  OBVIOUS
<1>1. \A j : j \in Setting(written, k, i) <=> j \in 1 .. i - 1 /\ sets(j)
  BY DEF Setting
<1>2. \A j : j \in s <=> j \in 1 .. (i + 1) - 1 /\ sets(j)
  BY DEF Setting
<1> HIDE DEF sets, s
<1>3. \A j : j \in s <=> j \in Setting(written, k, i) \/ (j = i /\ sets(i))
  BY <1>0, <1>1, <1>2
<1>4. ~sets(i) => s = Setting(written, k, i)
  BY <1>3
<1>5. ASSUME sets(i)
      PROVE  i \in s /\ Max(s) = i
  <2>1. i \in s
    BY <1>3, <1>5
  <2>2. i + 1 \in Nat /\ s # {}
    BY <2>1
  <2>3. Max(s) \in 1 .. (i + 1) - 1 /\ i <= Max(s)
    BY <2>1, <2>2, LastSetting DEF s
  <2> QED
    BY <2>1, <2>3
<1> QED
  BY <1>4, <1>5 DEF sets, s

-----------------------------------------------------------------------------
(* One env file: what each of its keys comes to.                           *)
Look(values, k) == IF k \in DOMAIN values THEN values[k] ELSE None
Certain(values) == \A k \in DOMAIN values : values[k] # None

Said(line, raw, values) ==
  IF line.form = "bare" THEN None
  ELSE IF Expands(line, raw) THEN Look(values, line.text) ELSE line.text

LEMMA ResolvedLine ==
  ASSUME NEW line, NEW raw, NEW values, Certain(values),
         line.form \notin {"bare", "none"} => line.text # None
  PROVE  /\ Certain(Resolve(line, raw, values))
         /\ \A k : Look(Resolve(line, raw, values), k) =
                   IF Skipped(line, raw) \/ k # line.key THEN Look(values, k)
                   ELSE Said(line, raw, values)
<1> DEFINE r == Resolve(line, raw, values)
           rest == Restrict(values, DOMAIN values \ {line.key})
           text == IF Expands(line, raw) THEN values[line.text] ELSE line.text
           known == Expands(line, raw) => line.text \in DOMAIN values
<1>1. CASE Skipped(line, raw)
  <2>1. r = values
    BY <1>1 DEF Resolve
  <2> HIDE DEF r
  <2> QED
    BY <1>1, <2>1 DEF r
<1>2. CASE ~Skipped(line, raw)
  <2>0. line.form # "none"
    BY <1>2 DEF Skipped
  <2>a. /\ DOMAIN rest = DOMAIN values \ {line.key}
        /\ \A k \in DOMAIN rest : rest[k] = values[k]
    BY DEF Restrict
  <2>1. CASE line.form = "bare" \/ ~known
    <3>1. r = rest
      BY <1>2, <2>1 DEF Resolve
    <3>2. Said(line, raw, values) = None
      BY <2>1 DEF Said, Look
    <3> HIDE DEF r, rest
    <3> QED
      BY <1>2, <2>a, <3>1, <3>2 DEF Look, Certain, r
  <2>2. CASE line.form # "bare" /\ known
    <3>1. r = With(values, line.key, text)
      BY <1>2, <2>2 DEF Resolve
    <3>2. Said(line, raw, values) = text /\ text # None
      BY <2>0, <2>2 DEF Said, Look, Certain
    <3> HIDE DEF rest, text
    <3> HIDE DEF r
    <3>3. /\ DOMAIN r = {line.key} \cup DOMAIN values /\ r[line.key] = text
          /\ \A k \in DOMAIN values : k # line.key => r[k] = values[k]
      BY <3>1 DEF With, Over
    <3> QED
      BY <1>2, <3>2, <3>3 DEF Look, Certain, r
  <2> QED
    BY <2>1, <2>2
<1> QED
  BY <1>1, <1>2

ReadBy(f, lines, raw, scope) ==
  /\ f[0] = scope
  /\ \A i \in 1 .. Len(lines) : f[i] = Resolve(lines[i], raw, f[i - 1])
  /\ ParseEnvFile(lines, raw, scope)
       = Restrict(f[Len(lines)], OwnKeys(lines, raw) \cap DOMAIN f[Len(lines)])

LEMMA FileSteps ==
  ASSUME NEW lines, NEW raw, NEW scope, Len(lines) \in Nat
  PROVE  \E f : ReadBy(f, lines, raw, scope)
<1> DEFINE n == Len(lines)
           own == OwnKeys(lines, raw)
           body(f, i) == IF i = 0 THEN scope ELSE Resolve(lines[i], raw, f[i - 1])
           T == {m \in Nat : \E f : f = [i \in 0 .. m |-> body(f, i)]}
           values == CHOOSE f : f = [i \in 0 .. n |-> body(f, i)]
<1>1. 0 \in T
  <2> DEFINE f == [i \in 0 .. 0 |-> scope]
  <2>1. f = [i \in 0 .. 0 |-> body(f, i)]
    OBVIOUS
  <2> QED
    BY <2>1
<1>2. ASSUME NEW m \in Nat, m \in T
      PROVE  m + 1 \in T
  <2>1. PICK f : f = [i \in 0 .. m |-> body(f, i)]
    BY <1>2
  <2> DEFINE g == [i \in 0 .. m + 1 |->
                     IF i = m + 1 THEN Resolve(lines[m + 1], raw, f[m]) ELSE f[i]]
  <2>2. ASSUME NEW i \in 0 .. m + 1
        PROVE  g[i] = body(g, i)
    <3>1. CASE i = 0
      <4>1. 0 \in 0 .. m /\ 0 # m + 1
        OBVIOUS
      <4>2. f[0] = scope
        BY <2>1, <4>1
      <4> QED
        BY <3>1, <4>1, <4>2
    <3>2. CASE i = m + 1
      <4>1. i - 1 = m /\ m \in 0 .. m + 1 /\ m # m + 1 /\ i # 0
        BY <3>2
      <4>2. g[i] = Resolve(lines[i], raw, f[m]) /\ g[m] = f[m]
        BY <3>2, <4>1
      <4> HIDE DEF g
      <4> QED
        BY <4>1, <4>2
    <3>3. CASE i # 0 /\ i # m + 1
      <4>1. i \in 0 .. m /\ i - 1 \in 0 .. m /\ i - 1 \in 0 .. m + 1 /\ i - 1 # m + 1
        BY <3>3
      <4>2. f[i] = Resolve(lines[i], raw, f[i - 1])
        BY <2>1, <3>3, <4>1
      <4> QED
        BY <3>3, <4>1, <4>2
    <3> QED
      BY <3>1, <3>2, <3>3
  <2>3. g = [i \in 0 .. m + 1 |-> body(g, i)]
    <3>1. g = [i \in 0 .. m + 1 |-> g[i]]
      OBVIOUS
    <3> HIDE DEF g, body
    <3> QED
      BY <2>2, <3>1
  <2> HIDE DEF g, body
  <2>4. \E h : h = [i \in 0 .. m + 1 |-> body(h, i)]
    BY <2>3, Zenon
  <2> QED
    BY <2>4
<1> HIDE DEF T
<1>3. n \in T
  BY <1>1, <1>2, InductionOnNat
<1>4. values = [i \in 0 .. n |-> body(values, i)]
  <2> HIDE DEF body
  <2>1. \E f : f = [i \in 0 .. n |-> body(f, i)]
    BY <1>3 DEF T
  <2> QED
    BY <2>1, Zenon
<1>5. ParseEnvFile(lines, raw, scope) = Restrict(values[n], own \cap DOMAIN values[n])
  BY Zenon DEF ParseEnvFile
<1> HIDE DEF values
<1>6. values[0] = scope
  BY <1>4
<1>7. ASSUME NEW i \in 1 .. n
      PROVE  values[i] = Resolve(lines[i], raw, values[i - 1])
  <2>1. i \in 0 .. n /\ i # 0
    OBVIOUS
  <2> QED
    BY <1>4, <2>1
<1> QED
  BY <1>5, <1>6, <1>7 DEF ReadBy
(* A key set by a line after the p-th and before the i-th; and what the    *)
(* last line to set it before the i-th made of it.                         *)
SetSince(written, k, p, i) == \E j \in Setting(written, k, i) : j > p
LastValue(written, value, k, i) == value[Max(Setting(written, k, i))]

FileSays(parsed, written, value, p, q) ==
  /\ Certain(parsed)
  /\ \A k : Look(parsed, k) = IF SetSince(written, k, p, q + 1)
                            THEN LastValue(written, value, k, q + 1) ELSE None

LEMMA FileRead ==
  ASSUME NEW lines, IsSeq(lines), NEW raw, NEW p \in Nat, NEW written, NEW value,
         NEW scope, Certain(scope),
         \A i \in 1 .. Len(lines) :
           /\ lines[i].form \notin {"bare", "none"} => lines[i].text # None
           /\ written[p + i].line = lines[i] /\ written[p + i].raw = raw
           /\ value[p + i] = ValueFrom(written, value, p + i)
           /\ Expands(lines[i], raw) /\ ~SetSince(written, lines[i].text, p, p + i) =>
                Look(scope, lines[i].text) = value[p + i]
  PROVE  FileSays(ParseEnvFile(lines, raw, scope), written, value, p, p + Len(lines))
<1> DEFINE n == Len(lines)
           own == OwnKeys(lines, raw)
<1>0. n \in Nat /\ DOMAIN lines = 1 .. n
  BY SequenceIs
<1>a. PICK f : ReadBy(f, lines, raw, scope)
  BY <1>0, FileSteps
<1>1. /\ f[0] = scope
      /\ \A i \in 1 .. n : f[i] = Resolve(lines[i], raw, f[i - 1])
      /\ ParseEnvFile(lines, raw, scope) = Restrict(f[n], own \cap DOMAIN f[n])
  BY <1>a DEF ReadBy
<1> DEFINE Right(i) ==
             /\ Certain(f[i])
             /\ \A k : Look(f[i], k) = IF SetSince(written, k, p, p + i + 1)
                                     THEN LastValue(written, value, k, p + i + 1)
                                     ELSE Look(scope, k)
           T == {i \in Nat : i <= n => Right(i)}
<1>2. 0 \in T
  <2>1. ASSUME NEW k
        PROVE  ~SetSince(written, k, p, p + 0 + 1)
    BY DEF SetSince, Setting
  <2>2. Right(0)
    BY <1>1, <2>1
  <2> QED
    BY <2>2
<1>3. ASSUME NEW i \in Nat, i \in T
      PROVE  i + 1 \in T
  <2> SUFFICES ASSUME i + 1 <= n
               PROVE  Right(i + 1)
    OBVIOUS
  <2> DEFINE line == lines[i + 1]
             q == p + i + 1
             passes(k) == Skipped(line, raw) \/ line.key # k
  <2>1. /\ i + 1 \in 1 .. n /\ (i + 1) - 1 = i /\ i <= n
        /\ p + (i + 1) = q /\ p + (i + 1) + 1 = q + 1 /\ q \in Nat \ {0} /\ q > p
    BY <1>0
  <2>2. Right(i)
    BY <1>3, <2>1
  <2>3. /\ line.form \notin {"bare", "none"} => line.text # None
        /\ written[q].line = line /\ written[q].raw = raw
        /\ value[q] = ValueFrom(written, value, q)
        /\ Expands(line, raw) /\ ~SetSince(written, line.text, p, q) =>
             Look(scope, line.text) = value[q]
    BY <2>1
  <2>4. f[i + 1] = Resolve(line, raw, f[i])
    BY <1>1, <2>1
  <2>5. /\ Certain(f[i])
        /\ \A k : Look(f[i], k) = IF SetSince(written, k, p, q)
                                THEN LastValue(written, value, k, q) ELSE Look(scope, k)
    BY <2>2
  <2> HIDE DEF line, q, T, Right
  <2>6. /\ Certain(Resolve(line, raw, f[i]))
        /\ \A k : Look(Resolve(line, raw, f[i]), k) =
                  IF passes(k) THEN Look(f[i], k) ELSE Said(line, raw, f[i])
    <3>1. \A k : passes(k) <=> Skipped(line, raw) \/ k # line.key
      OBVIOUS
    <3> QED
      BY <2>3, <2>5, <3>1, ResolvedLine
  <2>7. Said(line, raw, f[i]) = value[q]
    <3> DEFINE e == Setting(written, line.text, q)
    <3>1. CASE line.form = "bare"
      BY <2>3, <3>1 DEF Said, ValueFrom
    <3>2. CASE line.form # "bare" /\ ~Expands(line, raw)
      BY <2>3, <3>2 DEF Said, ValueFrom
    <3>3. CASE line.form # "bare" /\ Expands(line, raw) /\ SetSince(written, line.text, p, q)
      <4>1. e # {}
        BY <3>3 DEF SetSince
      <4>2. value[q] = value[Max(e)]
        BY <2>3, <3>3, <4>1 DEF ValueFrom
      <4>3. Look(f[i], line.text) = value[Max(e)]
        BY <2>5, <3>3 DEF LastValue
      <4> QED
        BY <3>3, <4>2, <4>3 DEF Said
    <3>4. CASE line.form # "bare" /\ Expands(line, raw) /\ ~SetSince(written, line.text, p, q)
      BY <2>3, <2>5, <3>4 DEF Said
    <3> QED
      BY <3>1, <3>2, <3>3, <3>4
  <2>8. ASSUME NEW k
        PROVE  Look(f[i + 1], k) = IF SetSince(written, k, p, q + 1)
                                   THEN LastValue(written, value, k, q + 1) ELSE Look(scope, k)
    <3>1. CASE passes(k)
      <4>1. Setting(written, k, q + 1) = Setting(written, k, q)
        BY <2>1, <2>3, <3>1, SettingNext
      <4>2. Look(f[i + 1], k) = Look(f[i], k)
        BY <2>4, <2>6, <3>1
      <4> QED
        BY <2>5, <4>1, <4>2 DEF SetSince, LastValue
    <3>2. CASE ~passes(k)
      <4>1. q \in Setting(written, k, q + 1) /\ Max(Setting(written, k, q + 1)) = q
        BY <2>1, <2>3, <3>2, SettingNext
      <4>2. Look(f[i + 1], k) = value[q]
        BY <2>4, <2>6, <2>7, <3>2
      <4> QED
        BY <2>1, <4>1, <4>2 DEF SetSince, LastValue
    <3> QED
      BY <3>1, <3>2
  <2> QED
    BY <2>1, <2>4, <2>6, <2>8 DEF Right
<1> HIDE DEF T
<1>4. n \in T
  BY <1>0, <1>2, <1>3, InductionOnNat
<1>5. Right(n)
  BY <1>0, <1>4 DEF T
<1> DEFINE parsed == ParseEnvFile(lines, raw, scope)
<1>6. /\ DOMAIN parsed = own \cap DOMAIN f[n]
      /\ \A k \in DOMAIN parsed : parsed[k] = f[n][k]
  BY <1>1 DEF Restrict
<1> HIDE DEF parsed
<1>7. ASSUME NEW k
      PROVE  k \in own <=> SetSince(written, k, p, p + n + 1)
  <2>1. ASSUME k \in own
        PROVE  SetSince(written, k, p, p + n + 1)
    <3>1. PICK i \in 1 .. n : ~Skipped(lines[i], raw) /\ lines[i].key = k
      BY <1>0, <2>1 DEF OwnKeys
    <3>2. p + i \in 1 .. (p + n + 1) - 1 /\ p + i > p
      BY <1>0
    <3>3. written[p + i].line = lines[i] /\ written[p + i].raw = raw
      OBVIOUS
    <3>4. p + i \in Setting(written, k, p + n + 1)
      BY <3>1, <3>2, <3>3 DEF Setting
    <3> QED
      BY <3>2, <3>4 DEF SetSince
  <2>2. ASSUME SetSince(written, k, p, p + n + 1)
        PROVE  k \in own
    <3>1. PICK j \in Setting(written, k, p + n + 1) : j > p
      BY <2>2 DEF SetSince
    <3>2. /\ j \in 1 .. (p + n + 1) - 1
          /\ ~Skipped(written[j].line, written[j].raw) /\ written[j].line.key = k
      BY <3>1 DEF Setting
    <3> DEFINE i == j - p
    <3>3. i \in 1 .. n /\ p + i = j
      BY <1>0, <3>1, <3>2
    <3> HIDE DEF i
    <3>4. written[j].line = lines[i] /\ written[j].raw = raw
      BY <3>3
    <3> QED
      BY <1>0, <3>2, <3>3, <3>4 DEF OwnKeys
  <2> QED
    BY <2>1, <2>2
<1> HIDE DEF own
<1>8. Certain(parsed)
  BY <1>5, <1>6 DEF Right, Certain
<1>9. ASSUME NEW k
      PROVE  Look(parsed, k) = IF SetSince(written, k, p, p + n + 1)
                               THEN LastValue(written, value, k, p + n + 1) ELSE None
  <2>1. Look(parsed, k) = IF k \in own THEN Look(f[n], k) ELSE None
    BY <1>6 DEF Look
  <2>2. SetSince(written, k, p, p + n + 1) =>
          Look(f[n], k) = LastValue(written, value, k, p + n + 1)
    BY <1>5 DEF Right
  <2> QED
    BY <1>7, <2>1, <2>2
<1> QED
  BY <1>8, <1>9 DEF FileSays, parsed
-----------------------------------------------------------------------------
(* All the env files of a container.                                       *)
ResolvedBy(f, targets, supplied) ==
  /\ f[0] = [scope |-> supplied, keys |-> << >>, unread |-> {}]
  /\ \A i \in 1 .. Len(targets) : f[i] = Apply(document, targets[i], f[i - 1])
  /\ ResolveOne(document, targets, supplied) = f[Len(targets)]

LEMMA TargetSteps ==
  ASSUME NEW targets, NEW supplied, Len(targets) \in Nat
  PROVE  \E f : ResolvedBy(f, targets, supplied)
<1> DEFINE n == Len(targets)
           start == [scope |-> supplied, keys |-> << >>, unread |-> {}]
           body(f, i) == IF i = 0 THEN start ELSE Apply(document, targets[i], f[i - 1])
           T == {m \in Nat : \E f : f = [i \in 0 .. m |-> body(f, i)]}
           values == CHOOSE f : f = [i \in 0 .. n |-> body(f, i)]
<1>1. 0 \in T
  <2> DEFINE f == [i \in 0 .. 0 |-> start]
  <2>1. f = [i \in 0 .. 0 |-> body(f, i)]
    OBVIOUS
  <2> QED
    BY <2>1
<1>2. ASSUME NEW m \in Nat, m \in T
      PROVE  m + 1 \in T
  <2>1. PICK f : f = [i \in 0 .. m |-> body(f, i)]
    BY <1>2
  <2> DEFINE g == [i \in 0 .. m + 1 |->
                     IF i = m + 1 THEN Apply(document, targets[m + 1], f[m]) ELSE f[i]]
  <2>2. ASSUME NEW i \in 0 .. m + 1
        PROVE  g[i] = body(g, i)
    <3>1. CASE i = 0
      <4>1. 0 \in 0 .. m /\ 0 # m + 1
        OBVIOUS
      <4>2. f[0] = start
        BY <2>1, <4>1
      <4> QED
        BY <3>1, <4>1, <4>2
    <3>2. CASE i = m + 1
      <4>1. i - 1 = m /\ m \in 0 .. m + 1 /\ m # m + 1 /\ i # 0
        BY <3>2
      <4>2. g[i] = Apply(document, targets[i], f[m]) /\ g[m] = f[m]
        BY <3>2, <4>1
      <4> HIDE DEF g
      <4> QED
        BY <4>1, <4>2
    <3>3. CASE i # 0 /\ i # m + 1
      <4>1. i \in 0 .. m /\ i - 1 \in 0 .. m /\ i - 1 \in 0 .. m + 1 /\ i - 1 # m + 1
        BY <3>3
      <4>2. f[i] = Apply(document, targets[i], f[i - 1])
        BY <2>1, <3>3, <4>1
      <4> QED
        BY <3>3, <4>1, <4>2
    <3> QED
      BY <3>1, <3>2, <3>3
  <2>3. g = [i \in 0 .. m + 1 |-> body(g, i)]
    <3>1. g = [i \in 0 .. m + 1 |-> g[i]]
      OBVIOUS
    <3> HIDE DEF g, body
    <3> QED
      BY <2>2, <3>1
  <2> HIDE DEF g, body
  <2>4. \E h : h = [i \in 0 .. m + 1 |-> body(h, i)]
    BY <2>3, Zenon
  <2> QED
    BY <2>4
<1> HIDE DEF T
<1>3. n \in T
  BY <1>1, <1>2, InductionOnNat
<1>4. values = [i \in 0 .. n |-> body(values, i)]
  <2> HIDE DEF body
  <2>1. \E f : f = [i \in 0 .. n |-> body(f, i)]
    BY <1>3 DEF T
  <2> QED
    BY <2>1, Zenon
<1>5. ResolveOne(document, targets, supplied) = values[n]
  BY Zenon DEF ResolveOne
<1> HIDE DEF values
<1>6. values[0] = start
  BY <1>4
<1>7. ASSUME NEW i \in 1 .. n
      PROVE  values[i] = Apply(document, targets[i], values[i - 1])
  <2>1. i \in 0 .. n /\ i # 0
    OBVIOUS
  <2> QED
    BY <1>4, <2>1
<1> QED
  BY <1>5, <1>6, <1>7 DEF ResolvedBy

(* What has become of the keys set before the i-th line.                   *)
Sure(written, value, k, i) ==
  Setting(written, k, i) # {} /\ LastValue(written, value, k, i) # None

Settled(r, written, value, supplied, i) ==
  /\ r = [scope |-> r.scope, keys |-> r.keys, unread |-> r.unread]
  /\ Certain(r.scope)
  /\ \A k : Look(r.scope, k) = IF Sure(written, value, k, i)
                             THEN LastValue(written, value, k, i) ELSE Look(supplied, k)
  /\ \A k : k \in DOMAIN r.keys <=> Sure(written, value, k, i)
  /\ \A k \in DOMAIN r.keys :
       r.keys[k] = [value |-> LastValue(written, value, k, i),
                    file |-> written[Max(Setting(written, k, i))].file]

LEMMA SettingSince ==
  ASSUME NEW written, NEW k, NEW p \in Nat, NEW i \in Nat, p < i
  PROVE  /\ ~SetSince(written, k, p, i) => Setting(written, k, i) = Setting(written, k, p + 1)
         /\ SetSince(written, k, p, i) => /\ Setting(written, k, i) # {}
                                         /\ Max(Setting(written, k, i)) \in p + 1 .. i - 1
<1>1. \A j : j \in Setting(written, k, i) /\ ~(j > p) <=> j \in Setting(written, k, p + 1)
  BY DEF Setting
<1>2. ASSUME SetSince(written, k, p, i)
      PROVE  /\ Setting(written, k, i) # {}
             /\ Max(Setting(written, k, i)) \in p + 1 .. i - 1
  <2>1. PICK j \in Setting(written, k, i) : j > p
    BY <1>2 DEF SetSince
  <2>2. /\ Max(Setting(written, k, i)) \in 1 .. i - 1
        /\ j <= Max(Setting(written, k, i))
    BY <2>1, LastSetting
  <2>3. j \in 1 .. i - 1
    BY <2>1 DEF Setting
  <2> QED
    BY <2>1, <2>2, <2>3
<1>3. ASSUME ~SetSince(written, k, p, i)
      PROVE  Setting(written, k, i) = Setting(written, k, p + 1)
  <2>1. \A j \in Setting(written, k, i) : ~(j > p)
    BY <1>3 DEF SetSince
  <2> QED
    BY <1>1, <2>1
<1> QED
  BY <1>2, <1>3

LEMMA SettledStep ==
  ASSUME NEW t, Read(document, t), NEW r, NEW written, NEW value, NEW supplied,
         NEW p \in Nat, NEW q \in Nat, p <= q,
         Settled(r, written, value, supplied, p + 1),
         FileSays(ParseEnvFile(Lines(document, t), t.raw, r.scope), written, value, p, q),
         \A i \in p + 1 .. q : written[i].file = t.path,
         \A k : SetSince(written, k, p, q + 1) /\ LastValue(written, value, k, q + 1) = None =>
               Setting(written, k, p + 1) = {}
  PROVE  Settled(Apply(document, t, r), written, value, supplied, q + 1)
<1> DEFINE parsed == ParseEnvFile(Lines(document, t), t.raw, r.scope)
           new == [k \in DOMAIN parsed |-> [value |-> parsed[k], file |-> t.path]]
           a == Apply(document, t, r)
<1>1. a = [r EXCEPT !.scope = Over(parsed, @), !.keys = Over(new, @)]
  BY DEF Apply
<1>2. r = [scope |-> r.scope, keys |-> r.keys, unread |-> r.unread]
  BY DEF Settled
<1>3. FileSays(parsed, written, value, p, q)
  OBVIOUS
<1>4. DOMAIN new = DOMAIN parsed /\ \A k \in DOMAIN parsed :
        new[k] = [value |-> parsed[k], file |-> t.path]
  OBVIOUS
<1> HIDE DEF parsed, new, a
<1>5. /\ a = [scope |-> a.scope, keys |-> a.keys, unread |-> a.unread]
      /\ a.scope = Over(parsed, r.scope) /\ a.keys = Over(new, r.keys)
  BY <1>1, <1>2
<1>6. /\ DOMAIN a.scope = DOMAIN parsed \cup DOMAIN r.scope
      /\ \A k \in DOMAIN a.scope : a.scope[k] = IF k \in DOMAIN parsed THEN parsed[k] ELSE r.scope[k]
  BY <1>5 DEF Over
<1>7. /\ DOMAIN a.keys = DOMAIN parsed \cup DOMAIN r.keys
      /\ \A k \in DOMAIN a.keys :
           a.keys[k] = IF k \in DOMAIN parsed THEN [value |-> parsed[k], file |-> t.path]
                       ELSE r.keys[k]
  BY <1>4, <1>5 DEF Over
<1>8. Certain(parsed) /\ Certain(r.scope)
  BY <1>3 DEF FileSays, Settled
<1>9. Certain(a.scope)
  BY <1>6, <1>8 DEF Certain
<1>10. \A k : Look(a.scope, k) = IF k \in DOMAIN parsed THEN parsed[k] ELSE Look(r.scope, k)
  BY <1>6 DEF Look
<1>11. ASSUME NEW k
       PROVE  /\ Look(a.scope, k) = IF Sure(written, value, k, q + 1)
                                    THEN LastValue(written, value, k, q + 1) ELSE Look(supplied, k)
              /\ k \in DOMAIN a.keys <=> Sure(written, value, k, q + 1)
              /\ k \in DOMAIN a.keys =>
                   a.keys[k] = [value |-> LastValue(written, value, k, q + 1),
                                file |-> written[Max(Setting(written, k, q + 1))].file]
  <2>0. p < q + 1 /\ q + 1 \in Nat
    OBVIOUS
  <2>1. Look(parsed, k) = IF SetSince(written, k, p, q + 1)
                          THEN LastValue(written, value, k, q + 1) ELSE None
    BY <1>3 DEF FileSays
  <2>2. k \in DOMAIN parsed <=> Look(parsed, k) # None
    BY <1>8 DEF Look, Certain
  <2>a. k \in DOMAIN parsed => Look(parsed, k) = parsed[k]
    BY DEF Look
  <2>3. /\ Look(r.scope, k) = IF Sure(written, value, k, p + 1)
                              THEN LastValue(written, value, k, p + 1) ELSE Look(supplied, k)
        /\ k \in DOMAIN r.keys <=> Sure(written, value, k, p + 1)
        /\ k \in DOMAIN r.keys =>
             r.keys[k] = [value |-> LastValue(written, value, k, p + 1),
                          file |-> written[Max(Setting(written, k, p + 1))].file]
    BY DEF Settled
  <2>4. CASE ~SetSince(written, k, p, q + 1)
    <3>1. Setting(written, k, q + 1) = Setting(written, k, p + 1)
      BY <2>0, <2>4, SettingSince
    <3>2. k \notin DOMAIN parsed
      BY <2>1, <2>2, <2>4
    <3>3. /\ Sure(written, value, k, q + 1) <=> Sure(written, value, k, p + 1)
          /\ LastValue(written, value, k, q + 1) = LastValue(written, value, k, p + 1)
      BY <3>1 DEF Sure, LastValue
    <3> QED
      BY <1>7, <1>10, <2>3, <3>1, <3>2, <3>3
  <2>5. CASE SetSince(written, k, p, q + 1)
    <3>1. /\ Setting(written, k, q + 1) # {}
          /\ Max(Setting(written, k, q + 1)) \in p + 1 .. (q + 1) - 1
      BY <2>0, <2>5, SettingSince
    <3>2. written[Max(Setting(written, k, q + 1))].file = t.path
      BY <3>1
    <3>3. Sure(written, value, k, q + 1) <=> LastValue(written, value, k, q + 1) # None
      BY <3>1 DEF Sure
    <3>4. CASE LastValue(written, value, k, q + 1) # None
      <4>1. k \in DOMAIN parsed /\ parsed[k] = LastValue(written, value, k, q + 1)
        BY <2>1, <2>2, <2>a, <2>5, <3>4
      <4>2. k \in DOMAIN a.keys /\ a.keys[k] = [value |-> parsed[k], file |-> t.path]
        BY <1>7, <4>1
      <4> QED
        BY <1>10, <3>2, <3>3, <3>4, <4>1, <4>2
    <3>5. CASE LastValue(written, value, k, q + 1) = None
      <4>1. k \notin DOMAIN parsed
        BY <2>1, <2>2, <2>5, <3>5
      <4>2. ~Sure(written, value, k, p + 1)
        BY <2>5, <3>5 DEF Sure
      <4> QED
        BY <1>7, <1>10, <2>3, <3>3, <3>5, <4>1, <4>2
    <3> QED
      BY <3>4, <3>5
  <2> QED
    BY <2>4, <2>5
<1>12. Settled(a, written, value, supplied, q + 1)
  BY <1>5, <1>9, <1>11 DEF Settled
<1> QED
  BY <1>12 DEF a
(* The lines of a container's files that Compose would not agree about.    *)
LinesClear(written, value) ==
  /\ \A i \in DOMAIN written : \A j \in Setting(written, written[i].line.key, i) :
       value[i] = None /\ ~Skipped(written[i].line, written[i].raw) =>
         written[j].at = written[i].at
  /\ \A i \in DOMAIN written :
       LET name == written[i].line.text
           earlier == Setting(written, name, i)
       IN  /\ Expands(written[i].line, written[i].raw) /\ name \in DOMAIN document.dotenv
           /\ earlier # {} /\ value[Max(earlier)] = None
           => written[Max(earlier)].at = written[i].at

(* The `.env` values handed down are those its files' references need.     *)
Supplies(supplied, c) ==
  /\ Certain(supplied)
  /\ \A t \in ToSet(c.targets) : \A name \in References(Legible(t), t.raw) :
       Look(supplied, name) = Look(document.dotenv, name)

LEMMA ContainerSettled ==
  ASSUME NEW c, NEW written, NEW value, NEW ends, NEW supplied,
         InOrder(c, written, ends), LinesClear(written, value), Supplies(supplied, c),
         \A t \in ToSet(c.targets) :
           /\ IsSeq(Legible(t))
           /\ \A line \in ToSet(Legible(t)) : line.form \notin {"bare", "none"} => line.text # None,
         \A i \in DOMAIN written : value[i] = ValueFrom(written, value, i)
  PROVE  Settled(ResolveOne(document, c.targets, supplied), written, value, supplied,
                 Len(written) + 1)
<1> DEFINE n == Len(c.targets)
           targets == c.targets
<1>1. /\ n \in Nat /\ DOMAIN targets = 1 .. n
      /\ ends \in [0 .. n -> Nat] /\ ends[0] = 0
      /\ DOMAIN written = 1 .. ends[n] /\ Len(written) = ends[n]
      /\ \A t \in 1 .. n :
           /\ ends[t] = ends[t - 1] + Len(Legible(targets[t])) /\ ends[t] <= ends[n]
           /\ \A i \in 1 .. Len(Legible(targets[t])) :
                written[ends[t - 1] + i] =
                  [line |-> Legible(targets[t])[i], raw |-> targets[t].raw,
                   file |-> targets[t].path, at |-> t]
           /\ \A x \in 1 .. ends[t - 1] : written[x].at # t
  BY DEF InOrder
<1>2. PICK f : ResolvedBy(f, targets, supplied)
  BY <1>1, TargetSteps
<1>3. /\ f[0] = [scope |-> supplied, keys |-> << >>, unread |-> {}]
      /\ \A i \in 1 .. n : f[i] = Apply(document, targets[i], f[i - 1])
      /\ ResolveOne(document, targets, supplied) = f[n]
  BY <1>2 DEF ResolvedBy
<1> DEFINE Right(t) == Settled(f[t], written, value, supplied, ends[t] + 1)
           T == {t \in Nat : t <= n => Right(t)}
<1>4. 0 \in T
  <2>1. \A k : Setting(written, k, 0 + 1) = {}
    BY DEF Setting
  <2>2. \A k : ~Sure(written, value, k, 0 + 1)
    BY <2>1 DEF Sure
  <2>3. DOMAIN (<< >>) = {}
    OBVIOUS
  <2>4. Right(0)
    BY <1>1, <1>3, <2>2, <2>3 DEF Settled, Supplies
  <2> QED
    BY <2>4
<1>5. ASSUME NEW s \in Nat, s \in T
      PROVE  s + 1 \in T
  <2> SUFFICES ASSUME s + 1 <= n
               PROVE  Right(s + 1)
    OBVIOUS
  <2> DEFINE t == targets[s + 1]
             lines == Legible(t)
             r == f[s]
             p == ends[s]
             q == ends[s + 1]
  <2>1. /\ s + 1 \in 1 .. n /\ (s + 1) - 1 = s /\ s <= n /\ s \in 0 .. n /\ s + 1 \in 0 .. n
    BY <1>1
  <2>2. Settled(r, written, value, supplied, p + 1)
    BY <1>5, <2>1
  <2>3. f[s + 1] = Apply(document, t, r)
    BY <1>3, <2>1
  <2>4. t \in ToSet(targets)
    BY <1>1, <2>1 DEF ToSet
  <2>5. /\ IsSeq(lines)
        /\ \A i \in 1 .. Len(lines) :
             lines[i].form \notin {"bare", "none"} => lines[i].text # None
    BY <2>4, SequenceIs
  <2>6. /\ p \in Nat /\ q \in Nat /\ q = p + Len(lines) /\ Len(lines) \in Nat /\ q <= ends[n]
        /\ p <= q /\ ends[n] \in Nat
    <3>1. p \in Nat /\ q \in Nat /\ ends[n] \in Nat
      <4>1. n \in 0 .. n
        BY <1>1
      <4> HIDE DEF n
      <4> QED
        BY <1>1, <2>1, <4>1
    <3>2. q = p + Len(lines) /\ q <= ends[n]
      BY <1>1, <2>1
    <3>3. Len(lines) \in Nat
      BY <2>5, SequenceIs
    <3> HIDE DEF p, q, lines
    <3> QED
      BY <3>1, <3>2, <3>3
  <2>7. ASSUME NEW i \in 1 .. Len(lines)
        PROVE  /\ written[p + i].line = lines[i] /\ written[p + i].raw = t.raw
               /\ written[p + i].file = t.path /\ written[p + i].at = s + 1
               /\ p + i \in DOMAIN written
    <3>1. written[p + i] = [line |-> lines[i], raw |-> t.raw, file |-> t.path, at |-> s + 1]
      <4>1. written[ends[(s + 1) - 1] + i] =
              [line |-> lines[i], raw |-> t.raw, file |-> t.path, at |-> s + 1]
        BY <1>1, <2>1, Zenon
      <4> HIDE DEF lines, t
      <4> QED
        BY <2>1, <4>1
    <3>2. p + i \in 1 .. ends[n]
      <4> HIDE DEF p, q, lines
      <4> QED
        BY <2>6
    <3> QED
      BY <1>1, <3>1, <3>2
  <2>8. \A x \in 1 .. p : written[x].at # s + 1
    BY <1>1, <2>1
  <2>9. DOMAIN document.dotenv = DOMAIN document.dotenv /\ Certain(supplied)
    BY DEF Supplies
  <2> HIDE DEF T, Right, p, q, t, lines, r
  <2>10. CASE ~Read(document, t)
    <3>1. lines = << >>
      BY <2>10 DEF lines, Legible
    <3>2. q = p
      BY <2>6, <3>1
    <3>3. f[s + 1] = [r EXCEPT !.unread = @ \cup {<<t, document.files[t.path].state>>}]
      BY <2>3, <2>10 DEF Apply
    <3>4. r = [scope |-> r.scope, keys |-> r.keys, unread |-> r.unread]
      BY <2>2 DEF Settled
    <3>5. /\ f[s + 1].scope = r.scope /\ f[s + 1].keys = r.keys
          /\ f[s + 1] = [scope |-> f[s + 1].scope, keys |-> f[s + 1].keys, unread |-> f[s + 1].unread]
      BY <3>3, <3>4
    <3>6. Settled(f[s + 1], written, value, supplied, p + 1)
      BY <2>2, <3>5 DEF Settled
    <3> QED
      BY <3>2, <3>6 DEF Right, q
  <2>11. CASE Read(document, t)
    <3>0. lines = Lines(document, t)
      BY <2>11 DEF lines, Legible
    <3>1. ASSUME NEW i \in 1 .. Len(lines), Expands(lines[i], t.raw),
                 ~SetSince(written, lines[i].text, p, p + i)
          PROVE  Look(r.scope, lines[i].text) = value[p + i]
      <4> DEFINE name == lines[i].text
                 e == Setting(written, name, p + i)
      <4>1. name \in References(lines, t.raw)
        <5>1. i \in DOMAIN lines
          BY <2>5, SequenceIs
        <5> QED
          BY <3>1, <5>1 DEF References
      <4>2. Look(supplied, name) = Look(document.dotenv, name)
        <5>1. t \in ToSet(c.targets) /\ References(Legible(t), t.raw) = References(lines, t.raw)
          BY <2>4 DEF lines
        <5> HIDE DEF name
        <5> QED
          BY <4>1, <5>1 DEF Supplies
      <4>3. p < p + i /\ p + i \in Nat /\ i \in Nat
        BY <2>6
      <4>4. e = Setting(written, name, p + 1)
        <5> HIDE DEF name
        <5> QED
          BY <2>6, <3>1, <4>3, SettingSince DEF name
      <4>5. Look(r.scope, name) = IF Sure(written, value, name, p + 1)
                                  THEN LastValue(written, value, name, p + 1)
                                  ELSE Look(supplied, name)
        BY <2>2 DEF Settled
      <4>6. /\ value[p + i] = ValueFrom(written, value, p + i)
            /\ written[p + i].line = lines[i] /\ written[p + i].raw = t.raw
            /\ p + i \in DOMAIN written
        BY <2>7
      <4>7. value[p + i] = IF e # {} THEN value[Max(e)] ELSE Look(document.dotenv, name)
        <5>1. lines[i].form # "bare"
          BY <3>1 DEF Expands
        <5> QED
          BY <3>1, <4>6, <5>1 DEF ValueFrom, Look
      <4>8. CASE e = {}
        BY <4>2, <4>4, <4>5, <4>7, <4>8 DEF Sure
      <4>9. CASE e # {} /\ value[Max(e)] # None
        BY <4>4, <4>5, <4>7, <4>9 DEF Sure, LastValue
      <4>10. CASE e # {} /\ value[Max(e)] = None
        <5>1. Max(e) \in 1 .. (p + 1) - 1
          BY <2>6, <4>4, <4>10, LastSetting
        <5>2. Max(e) \in 1 .. p
          BY <2>6, <5>1
        <5>3. written[Max(e)].at # s + 1 /\ written[p + i].at = s + 1
          BY <2>7, <2>8, <5>2
        <5>4. name \notin DOMAIN document.dotenv
          BY <3>1, <4>6, <4>10, <5>3 DEF LinesClear
        <5> QED
          BY <4>2, <4>4, <4>5, <4>7, <4>10, <5>4 DEF Sure, LastValue, Look
      <4> QED
        BY <4>8, <4>9, <4>10
    <3>2. Certain(r.scope)
      BY <2>2 DEF Settled
    <3>3. \A i \in 1 .. Len(lines) : value[p + i] = ValueFrom(written, value, p + i)
      BY <2>7
    <3>4. FileSays(ParseEnvFile(lines, t.raw, r.scope), written, value, p, p + Len(lines))
      BY <2>5, <2>6, <2>7, <3>1, <3>2, <3>3, FileRead
    <3>5. FileSays(ParseEnvFile(Lines(document, t), t.raw, r.scope), written, value, p, q)
      BY <2>6, <3>0, <3>4
    <3>6. \A i \in p + 1 .. q : written[i].file = t.path /\ written[i].at = s + 1 /\ i \in DOMAIN written
      <4> SUFFICES ASSUME NEW j \in p + 1 .. q
                   PROVE  written[j].file = t.path /\ written[j].at = s + 1 /\ j \in DOMAIN written
        OBVIOUS
      <4> DEFINE i == j - p
      <4>1. i \in 1 .. Len(lines) /\ p + i = j
        BY <2>6
      <4> HIDE DEF i
      <4> QED
        BY <2>7, <4>1
    <3>7. ASSUME NEW k, SetSince(written, k, p, q + 1),
                 LastValue(written, value, k, q + 1) = None
          PROVE  Setting(written, k, p + 1) = {}
      <4> DEFINE m == Max(Setting(written, k, q + 1))
      <4>1. p < q + 1 /\ q + 1 \in Nat
        BY <2>6
      <4>2. Setting(written, k, q + 1) # {} /\ m \in p + 1 .. (q + 1) - 1
        BY <2>6, <3>7, <4>1, SettingSince
      <4>3. m \in Setting(written, k, q + 1)
        BY <4>1, <4>2, LastSetting
      <4>4. value[m] = None
        BY <3>7 DEF LastValue
      <4> HIDE DEF m
      <4>5. ~Skipped(written[m].line, written[m].raw) /\ written[m].line.key = k
        BY <4>3 DEF Setting
      <4>6. m \in p + 1 .. q
        BY <2>6, <4>2
      <4>7. written[m].at = s + 1 /\ m \in DOMAIN written
        BY <3>6, <4>6
      <4> SUFFICES ASSUME NEW j \in Setting(written, k, p + 1)
                   PROVE  FALSE
        OBVIOUS
      <4>8. j \in 1 .. p
        BY <2>6 DEF Setting
      <4>9. j \in 1 .. m - 1
        BY <2>6, <4>6, <4>8
      <4>10. j \in Setting(written, written[m].line.key, m)
        BY <4>5, <4>9 DEF Setting
      <4>11. written[j].at = written[m].at
        BY <4>4, <4>5, <4>7, <4>10 DEF LinesClear
      <4> QED
        BY <2>8, <4>7, <4>8, <4>11
    <3>8. Settled(Apply(document, t, r), written, value, supplied, q + 1)
      BY <2>2, <2>6, <2>11, <3>5, <3>6, <3>7, SettledStep
    <3> QED
      BY <2>3, <3>8 DEF Right, q
  <2> QED
    BY <2>10, <2>11
<1> HIDE DEF T
<1>6. n \in T
  BY <1>1, <1>4, <1>5, InductionOnNat
<1>7. Right(n)
  BY <1>1, <1>6 DEF T
<1> QED
  BY <1>1, <1>3, <1>7
-----------------------------------------------------------------------------
(* Which container an entry of env_files is for, and what it has.          *)
Given ==
  /\ WellFormed(document)
  /\ units = UnitsOf(document)
  /\ env_files = ResolveEnvFiles(document)

FromDotenv == DotenvScope(document, Specs(document))
ResultOf(c) == ResolveOne(document, c.targets, FromDotenv)

LEMMA SpecsAre ==
  LET specs == Specs(document)
      services == {c \in ToSet(document.services) : c.mapping}
      jobs == {c \in ToSet(document.jobs) : c.mapping}
  IN  /\ DOMAIN specs = {JobName(c) : c \in jobs} \cup {c.name : c \in services}
      /\ \A n \in {JobName(c) : c \in jobs} : specs[n] \in jobs /\ JobName(specs[n]) = n
      /\ \A n \in {c.name : c \in services} \ {JobName(c) : c \in jobs} :
           specs[n] \in services /\ specs[n].name = n
<1> DEFINE services == {c \in ToSet(document.services) : c.mapping}
           jobs == {c \in ToSet(document.jobs) : c.mapping}
           job == [n \in {JobName(c) : c \in jobs} |-> CHOOSE c \in jobs : JobName(c) = n]
           service == [n \in {c.name : c \in services} |-> CHOOSE c \in services : c.name = n]
<1>1. Specs(document) = Over(job, service)
  BY DEF Specs
<1> HIDE DEF services, jobs
<1>2. /\ DOMAIN job = {JobName(c) : c \in jobs}
      /\ \A n \in {JobName(c) : c \in jobs} : job[n] \in jobs /\ JobName(job[n]) = n
  <2> SUFFICES ASSUME NEW n \in {JobName(c) : c \in jobs}
               PROVE  job[n] \in jobs /\ JobName(job[n]) = n
    OBVIOUS
  <2>1. job[n] = CHOOSE c \in jobs : JobName(c) = n
    OBVIOUS
  <2>2. \E c \in jobs : JobName(c) = n
    OBVIOUS
  <2> HIDE DEF job
  <2> QED
    BY <2>1, <2>2
<1>3. /\ DOMAIN service = {c.name : c \in services}
      /\ \A n \in {c.name : c \in services} : service[n] \in services /\ service[n].name = n
  <2> SUFFICES ASSUME NEW n \in {c.name : c \in services}
               PROVE  service[n] \in services /\ service[n].name = n
    OBVIOUS
  <2>1. service[n] = CHOOSE c \in services : c.name = n
    OBVIOUS
  <2>2. \E c \in services : c.name = n
    OBVIOUS
  <2> HIDE DEF service
  <2> QED
    BY <2>1, <2>2
<1> HIDE DEF job, service
<1>4. /\ DOMAIN Specs(document) = {JobName(c) : c \in jobs} \cup {c.name : c \in services}
      /\ \A n \in {JobName(c) : c \in jobs} :
           Specs(document)[n] \in jobs /\ JobName(Specs(document)[n]) = n
      /\ \A n \in {c.name : c \in services} \ {JobName(c) : c \in jobs} :
           Specs(document)[n] \in services /\ Specs(document)[n].name = n
  BY <1>1, <1>2, <1>3 DEF Over
<1> QED
  BY <1>4 DEF services, jobs

LEMMA SpecOfContainer ==
  ASSUME WellFormed(document), NEW d \in Deployed, \A e \in Deployed : e[2] = d[2] => e = d
  PROVE  /\ d[1].mapping => d[2] \in DOMAIN Specs(document)
         /\ d[2] \in DOMAIN Specs(document) => Specs(document)[d[2]] = d[1]
         /\ d[1] \in ToSet(document.services) \cup ToSet(document.jobs)
<1> DEFINE services == {c \in ToSet(document.services) : c.mapping}
           jobs == {c \in ToSet(document.jobs) : c.mapping}
           specs == Specs(document)
<1>1. /\ DOMAIN specs = {JobName(c) : c \in jobs} \cup {c.name : c \in services}
      /\ \A n \in {JobName(c) : c \in jobs} : specs[n] \in jobs /\ JobName(specs[n]) = n
      /\ \A n \in {c.name : c \in services} \ {JobName(c) : c \in jobs} :
           specs[n] \in services /\ specs[n].name = n
  BY SpecsAre
<1> HIDE DEF specs
<1>2. CASE \E c \in ToSet(document.services) : ~c.provider /\ d = <<c, c.name, FALSE>>
  <2>1. PICK c \in ToSet(document.services) : ~c.provider /\ d = <<c, c.name, FALSE>>
    BY <1>2
  <2>2. d[1] = c /\ d[2] = c.name /\ d[3] = FALSE
    BY <2>1
  <2>3. \A j \in jobs : JobName(j) # d[2]
    <3> SUFFICES ASSUME NEW j \in jobs, JobName(j) = d[2]
                 PROVE  FALSE
      OBVIOUS
    <3>1. <<j, JobName(j), TRUE>> \in Deployed
      BY DEF Deployed
    <3>2. <<j, JobName(j), TRUE>> = d
      BY <3>1
    <3> QED
      BY <2>2, <3>2
  <2>4. c.mapping => d[2] \in DOMAIN specs
    BY <1>1, <2>2
  <2>5. ASSUME d[2] \in DOMAIN specs
        PROVE  specs[d[2]] = c
    <3>1. specs[d[2]] \in services /\ specs[d[2]].name = c.name
      BY <1>1, <2>2, <2>3, <2>5
    <3> QED
      BY <3>1 DEF WellFormed
  <2> QED
    BY <2>2, <2>4, <2>5 DEF specs
<1>3. CASE \E c \in ToSet(document.jobs) : c.mapping /\ d = <<c, JobName(c), TRUE>>
  <2>1. PICK c \in ToSet(document.jobs) : c.mapping /\ d = <<c, JobName(c), TRUE>>
    BY <1>3
  <2>2. d[1] = c /\ d[2] = JobName(c)
    BY <2>1
  <2>3. specs[d[2]] \in jobs /\ JobName(specs[d[2]]) = JobName(c) /\ d[2] \in DOMAIN specs
    BY <1>1, <2>1, <2>2
  <2>4. specs[d[2]] = c
    BY <2>3 DEF WellFormed
  <2> QED
    BY <2>2, <2>3, <2>4 DEF specs
<1> QED
  BY <1>2, <1>3 DEF Deployed

LEMMA FromDotenvFor ==
  ASSUME WellFormed(document), NEW n \in DOMAIN Specs(document)
  PROVE  Supplies(FromDotenv, Specs(document)[n])
<1> DEFINE specs == Specs(document)
           read == {u \in UNION {ToSet(specs[m].targets) : m \in DOMAIN specs} : Read(document, u)}
           wanted == UNION {References(Lines(document, t), t.raw) : t \in read}
<1>1. FromDotenv = Restrict(document.dotenv, wanted \cap DOMAIN document.dotenv)
  BY DEF FromDotenv, DotenvScope
<1>2. ASSUME NEW t \in ToSet(specs[n].targets), NEW name \in References(Legible(t), t.raw)
      PROVE  name \in wanted
  <2>1. CASE Read(document, t)
    <3>1. t \in read /\ Legible(t) = Lines(document, t)
      BY <2>1 DEF Legible
    <3> HIDE DEF read
    <3> QED
      BY <3>1
  <2>2. CASE ~Read(document, t)
    <3>1. Legible(t) = << >>
      BY <2>2 DEF Legible
    <3> QED
      BY <3>1 DEF References
  <2> QED
    BY <2>1, <2>2
<1> HIDE DEF wanted, specs
<1>3. /\ DOMAIN FromDotenv = wanted \cap DOMAIN document.dotenv
      /\ \A name \in DOMAIN FromDotenv : FromDotenv[name] = document.dotenv[name]
  BY <1>1 DEF Restrict
<1>4. Certain(FromDotenv)
  BY <1>3 DEF Certain, WellFormed
<1>5. \A name \in wanted : Look(FromDotenv, name) = Look(document.dotenv, name)
  BY <1>3 DEF Look
<1>6. Supplies(FromDotenv, specs[n])
  BY <1>2, <1>4, <1>5 DEF Supplies
<1> QED
  BY <1>6 DEF specs

LEMMA EntryOf ==
  ASSUME NEW n \in DOMAIN ResolveEnvFiles(document)
  PROVE  LET c == Specs(document)[n]
             keys == ResultOf(c).keys
             entry == ResolveEnvFiles(document)[n]
         IN  /\ n \in DOMAIN Specs(document) /\ c.targets # << >>
             /\ entry.available = {[key |-> k, value |-> keys[k].value, file |-> keys[k].file]
                                     : k \in DOMAIN keys}
             /\ entry.shadowed = c.sets \cap DOMAIN keys
<1> DEFINE specs == Specs(document)
           keys(c) == ResultOf(c).keys
           Entry(c) == [available |-> {[key |-> k, value |-> keys(c)[k].value, file |-> keys(c)[k].file]
                                         : k \in DOMAIN keys(c)},
                        shadowed |-> c.sets \cap DOMAIN keys(c),
                        unread |-> ResultOf(c).unread]
<1>1. ResolveEnvFiles(document)
        = [m \in {m \in DOMAIN specs : specs[m].targets # << >>} |-> Entry(specs[m])]
  BY DEF ResolveEnvFiles, ResultOf, FromDotenv
<1> HIDE DEF specs
<1>2. /\ n \in DOMAIN specs /\ specs[n].targets # << >>
      /\ ResolveEnvFiles(document)[n] = Entry(specs[n])
  <2> HIDE DEF Entry
  <2> QED
    BY <1>1
<1> QED
  BY <1>2 DEF specs

LEMMA EntryThere ==
  ASSUME NEW n \in DOMAIN Specs(document), Specs(document)[n].targets # << >>
  PROVE  n \in DOMAIN ResolveEnvFiles(document)
BY DEF ResolveEnvFiles
LEMMA ContainerKnown ==
  ASSUME WellFormed(document),
         NEW c \in ToSet(document.services) \cup ToSet(document.jobs)
  PROVE  /\ IsSeq(c.targets) /\ (~c.mapping => c.targets = << >>)
         /\ \A t \in ToSet(c.targets) :
              /\ t.path # None /\ IsSeq(Legible(t))
              /\ Read(document, t) => IsSeq(Lines(document, t))
              /\ \A line \in ToSet(Legible(t)) : line.form \notin {"bare", "none"} => line.text # None
<1>1. /\ IsSeq(c.targets) /\ (~c.mapping => c.targets = << >>)
      /\ \A t \in ToSet(c.targets) :
           /\ t.path # None
           /\ Read(document, t) =>
                /\ IsSeq(Lines(document, t))
                /\ \A line \in ToSet(Lines(document, t)) :
                     line.form \notin {"bare", "none"} => line.text # None
  BY DEF WellFormed
<1> QED
  BY <1>1, Alone DEF Legible

(* What its env files contribute to a container's unit is what reaches the *)
(* container.                                                              *)
LEMMA ContributedReaches ==
  ASSUME Given, NEW d \in Deployed, Unambiguous(d), d[2] \in DOMAIN env_files,
         NEW u, units[u].env = d[2]
  PROVE  /\ Contributed(u) = Reaching(d[1])
         /\ \A k \in Contributed(u) : k.file # None
<1> DEFINE c == d[1]
           written == Written(c)
           value == ValueAt(written)
           n == Len(written)
           keys == ResultOf(c).keys
           last(k) == Max(Setting(written, k, n + 1))
<1>1. /\ \A e \in Deployed : e[2] = d[2] => e = d
      /\ LinesClear(written, value)
  BY DEF Unambiguous, LinesClear
<1>2. d[2] \in DOMAIN ResolveEnvFiles(document)
  BY DEF Given
<1>3. d[2] \in DOMAIN Specs(document)
  BY <1>2, EntryOf
<1>4. Specs(document)[d[2]] = c /\ c \in ToSet(document.services) \cup ToSet(document.jobs)
  BY <1>1, <1>3, SpecOfContainer DEF Given
<1>5. /\ Available(u) = {[key |-> k, value |-> keys[k].value, file |-> keys[k].file] : k \in DOMAIN keys}
      /\ Shadowed(u) = c.sets \cap DOMAIN keys
  <2>1. /\ ResolveEnvFiles(document)[d[2]].available
             = {[key |-> k, value |-> keys[k].value, file |-> keys[k].file] : k \in DOMAIN keys}
        /\ ResolveEnvFiles(document)[d[2]].shadowed = c.sets \cap DOMAIN keys
    BY <1>2, <1>4, EntryOf
  <2> HIDE DEF keys, c
  <2> QED
    BY <2>1 DEF Available, Shadowed, Given
<1>6. Supplies(FromDotenv, c)
  BY <1>3, <1>4, FromDotenvFor DEF Given
<1>7. /\ IsSeq(c.targets)
      /\ \A t \in ToSet(c.targets) :
           /\ t.path # None /\ IsSeq(Legible(t))
           /\ Read(document, t) => IsSeq(Lines(document, t))
           /\ \A line \in ToSet(Legible(t)) : line.form \notin {"bare", "none"} => line.text # None
  BY <1>4, ContainerKnown DEF Given
<1>8. PICK ends : InOrder(c, written, ends)
  BY <1>7, WrittenInOrder
<1>9. /\ n \in Nat /\ DOMAIN written = 1 .. n
      /\ \A x \in DOMAIN written : written[x].file # None
  <2>1. /\ Len(c.targets) \in Nat /\ DOMAIN c.targets = 1 .. Len(c.targets)
        /\ ends \in [0 .. Len(c.targets) -> Nat]
        /\ DOMAIN written = 1 .. ends[Len(c.targets)] /\ n = ends[Len(c.targets)]
        /\ \A x \in DOMAIN written :
             written[x].file \in {c.targets[t].path : t \in 1 .. Len(c.targets)}
    BY <1>8 DEF InOrder
  <2>2. \A t \in 1 .. Len(c.targets) : c.targets[t].path # None
    BY <1>7, SequenceIs
  <2> HIDE DEF written, c
  <2> QED
    BY <2>1, <2>2
<1>10. \A i \in DOMAIN written : value[i] = ValueFrom(written, value, i)
  <2> HIDE DEF written, c
  <2> QED
    BY <1>9, ValuesOfLines
<1>11. Settled(ResultOf(c), written, value, FromDotenv, n + 1)
  <2> HIDE DEF written, value, c
  <2>1. Settled(ResolveOne(document, c.targets, FromDotenv), written, value, FromDotenv, Len(written) + 1)
    BY <1>1, <1>6, <1>7, <1>8, <1>10, ContainerSettled
  <2> QED
    BY <2>1 DEF ResultOf
<1>12. Reaching(c) = {[key |-> written[i].line.key, value |-> value[i], file |-> written[i].file] :
                        i \in {j \in {i \in DOMAIN written :
                                        /\ Setting(written, written[i].line.key, n + 1) # {}
                                        /\ i = Max(Setting(written, written[i].line.key, n + 1))} :
                               value[j] # None /\ written[j].line.key \notin c.sets}}
  BY DEF Reaching
<1>13. \A k : k \in DOMAIN keys <=> Sure(written, value, k, n + 1)
  BY <1>11 DEF Settled
<1>14. \A k \in DOMAIN keys : keys[k] = [value |-> LastValue(written, value, k, n + 1),
                                         file |-> written[last(k)].file]
  BY <1>11 DEF Settled
<1> HIDE DEF keys, written, value, c
<1>15. ASSUME NEW x \in Contributed(u)
       PROVE  x \in Reaching(c) /\ x.file # None
  <2>1. PICK k \in DOMAIN keys :
          x = [key |-> k, value |-> keys[k].value, file |-> keys[k].file]
    BY <1>5 DEF Contributed
  <2>2. k \notin c.sets
    BY <1>5, <2>1 DEF Contributed
  <2> DEFINE i == last(k)
  <2>3. Setting(written, k, n + 1) # {} /\ value[i] # None
    BY <1>13 DEF Sure, LastValue
  <2>4. i \in Setting(written, k, n + 1) /\ n + 1 \in Nat
    BY <1>9, <2>3, LastSetting
  <2>5. i \in DOMAIN written /\ written[i].line.key = k
    BY <1>9, <2>4 DEF Setting
  <2>6. keys[k].value = value[i] /\ keys[k].file = written[i].file
    BY <1>14 DEF LastValue
  <2>7. Setting(written, written[i].line.key, n + 1) # {}
        /\ i = Max(Setting(written, written[i].line.key, n + 1))
    BY <2>3, <2>5
  <2> HIDE DEF i
  <2>8. x = [key |-> written[i].line.key, value |-> value[i], file |-> written[i].file]
    BY <2>1, <2>5, <2>6
  <2>9. x.file # None
    BY <1>9, <2>5, <2>8
  <2> QED
    BY <1>12, <2>2, <2>3, <2>5, <2>7, <2>8, <2>9 DEF i
<1>16. ASSUME NEW x \in Reaching(c)
       PROVE  x \in Contributed(u)
  <2>1. PICK i \in DOMAIN written :
          /\ Setting(written, written[i].line.key, n + 1) # {}
          /\ i = Max(Setting(written, written[i].line.key, n + 1))
          /\ value[i] # None /\ written[i].line.key \notin c.sets
          /\ x = [key |-> written[i].line.key, value |-> value[i], file |-> written[i].file]
    BY <1>12
  <2> DEFINE k == written[i].line.key
  <2>2. i = last(k)
    BY <2>1
  <2>3. k \in DOMAIN keys
    BY <1>13, <2>1, <2>2 DEF Sure, LastValue
  <2>4. keys[k].value = value[i] /\ keys[k].file = written[i].file
    BY <1>14, <2>2, <2>3 DEF LastValue
  <2>5. x = [key |-> k, value |-> keys[k].value, file |-> keys[k].file]
    BY <2>1, <2>4
  <2>6. x \in Available(u)
    BY <1>5, <2>3, <2>5
  <2>7. x.key \notin Shadowed(u)
    BY <1>5, <2>1, <2>5
  <2> QED
    BY <2>6, <2>7 DEF Contributed
<1> QED
  BY <1>15, <1>16 DEF c

(* Nothing reaches a container that names no files.                        *)
LEMMA NothingReaches ==
  ASSUME NEW c, c.targets = << >>
  PROVE  Reaching(c) = {}
<1>1. IsSeq(c.targets) /\ ToSet(c.targets) = {} /\ Len(c.targets) = 0
  BY Alone
<1>2. PICK ends : InOrder(c, Written(c), ends)
  BY <1>1, WrittenInOrder
<1>3. DOMAIN Written(c) = {}
  BY <1>1, <1>2 DEF InOrder
<1> QED
  BY <1>3 DEF Reaching

(* A container that is not left out has a unit of its name.                *)
LEMMA ContainerGraded ==
  ASSUME WellFormed(document), NEW d \in Deployed, ~Announced(d)
  PROVE  Grades(UnitsOf(document), d[2])
<1>1. CASE \E c \in ToSet(document.services) : ~c.provider /\ d = <<c, c.name, FALSE>>
  BY <1>1, DocumentUnits
<1>2. CASE \E c \in ToSet(document.jobs) : c.mapping /\ d = <<c, JobName(c), TRUE>>
  <2>1. PICK c \in ToSet(document.jobs) : c.mapping /\ d = <<c, JobName(c), TRUE>>
    BY <1>2
  <2>2. d[2] = JobName(c) /\ d[3] = TRUE
    BY <2>1
  <2>3. Bounded(document)
    <3> SUFFICES ASSUME ~Bounded(document)
                 PROVE  FALSE
      OBVIOUS
    <3>1. <<"too many units", None>> \in UnitNotes(document)
      BY DEF UnitNotes
    <3> QED
      BY <2>2, <3>1 DEF Announced
  <2>4. ~c.extends
    <3> SUFFICES ASSUME c.extends
                 PROVE  FALSE
      OBVIOUS
    <3>1. PICK j \in DOMAIN document.jobs : c = document.jobs[j]
      BY DEF ToSet
    <3>2. <<"job not resolved", JobName(c)>> \in UnitNotes(document)
      BY <2>1, <2>3, <3>1 DEF UnitNotes
    <3> QED
      BY <2>2, <3>2 DEF Announced
  <2> QED
    BY <2>1, <2>2, <2>3, <2>4, DocumentUnits
<1> QED
  BY <1>1, <1>2 DEF Deployed

(* The units and their env files are the document's, all along.            *)
GivenInv ==
  /\ Given
  /\ DOMAIN says = (DOMAIN Rules) \X (DOMAIN units)
  /\ \A p \in DOMAIN says : \A report \in says[p] : report.what.file = None
  /\ \A u \in DOMAIN units : IsSeq(units[u].uses)

LEMMA GivenInvariant == Spec => []GivenInv
<1>1. Init => GivenInv
  <2> SUFFICES ASSUME Init
               PROVE  GivenInv
    OBVIOUS
  <2>1. PICK in \in Inputs : document = in.document /\ says = in.says
    BY DEF Init
  <2>2. \A unit \in ToSet(units) : IsSeq(unit.uses)
    BY <2>1, EngineAssumption DEF Init
  <2>3. \A u \in DOMAIN units : IsSeq(units[u].uses)
    BY <2>2 DEF ToSet
  <2> QED
    BY <2>1, <2>3, EngineAssumption DEF Init, GivenInv, Given
<1>2. GivenInv /\ [Next]_vars => GivenInv'
  <2> SUFFICES ASSUME GivenInv, [Next]_vars
               PROVE  GivenInv'
    OBVIOUS
  <2>1. UNCHANGED <<document, units, env_files, says>>
    BY DEF Next, Crash, Grade, Stop, Complete, config, vars
  <2>2. Given'
    BY <2>1 DEF GivenInv, Given, WellFormed, Read, Lines, UnitsOf, ResolveEnvFiles
  <2>3. \A u \in DOMAIN units' : IsSeq(units'[u].uses)
    BY <2>1 DEF GivenInv
  <2> QED
    BY <2>1, <2>2, <2>3 DEF GivenInv
<1> QED
  BY <1>1, <1>2, PTL DEF Spec

-----------------------------------------------------------------------------
(* What is replaced in a finding.                                          *)
LEMMA LeastOf ==
  ASSUME NEW s \in SUBSET Nat, s # {}
  PROVE  \E x \in s : \A y \in s : x <= y
<1> DEFINE R == OpToRel(<, Nat)
<1>1. IsWellFoundedOn(R, Nat)
  BY NatLessThanWellFounded
<1>2. \A x, y \in Nat : x < y => <<x, y>> \in R
  BY DEF OpToRel
<1> HIDE DEF R
<1>3. PICK x \in s : \A y \in s : ~(<<y, x>> \in R)
  BY <1>1, WFMin
<1>4. ASSUME NEW y \in s
      PROVE  x <= y
  <2>1. ~(y < x)
    BY <1>2, <1>3
  <2> QED
    BY <2>1
<1> QED
  BY <1>3, <1>4

(* Of the texts a name stands for the one seen last is kept; where they    *)
(* are all the same, a text is kept if it is seen at all.                  *)
LEMMA SeenIsKept ==
  ASSUME SweepInv, GivenInv, NEW u \in DOMAIN units, NEW use \in Supplied(u),
         ~use.moved, ~Contested(u, use)
  PROVE  use.value \in Kept(units[u].name)
<1> DEFINE name == units[u].name
           s == {w \in Seen(name) : UseAt(w).name = use.name}
           at == {v \in DOMAIN units : \E i : <<v, i>> \in s}
<1>1. DOMAIN units = 1 .. Len(units) /\ Len(units) \in Nat
  BY DEF SweepInv, Counted
<1>2. \A v \in DOMAIN units :
        Len(units[v].uses) \in Nat /\ DOMAIN units[v].uses = 1 .. Len(units[v].uses)
  BY SequenceIs DEF GivenInv
<1>3. \A v, i : <<v, i>>[1] = v /\ <<v, i>>[2] = i /\ UseAt(<<v, i>>) = units[v].uses[i]
  BY DEF UseAt
<1>4. \A w \in Seen(name) :
        /\ w[1] \in DOMAIN units /\ units[w[1]].name = name
        /\ w[2] \in DOMAIN units[w[1]].uses /\ w = <<w[1], w[2]>>
        /\ ~UseAt(w).moved /\ UseAt(w) \in Supplied(w[1])
  BY DEF Seen, Supplied, UseAt
<1>5. \A w \in s : UseAt(w).value = use.value
  BY <1>4 DEF Contested
<1>6. PICK i0 \in DOMAIN units[u].uses : use = units[u].uses[i0]
  BY DEF Supplied
<1>7. <<u, i0>> \in s
  BY <1>3, <1>6 DEF Seen
<1> HIDE DEF s
<1>8. PICK v \in at : \A x \in at : v <= x
  <2>1. at \subseteq 1 .. Len(units)
    BY <1>1
  <2>2. u \in at
    BY <1>7
  <2> HIDE DEF at
  <2>3. at \in SUBSET Nat /\ at # {}
    BY <1>1, <2>1, <2>2
  <2> QED
    BY <2>3, LeastOf
<1> DEFINE t == {i \in DOMAIN units[v].uses : <<v, i>> \in s}
<1>9. t \in SUBSET (1 .. Len(units[v].uses)) /\ t # {} /\ Len(units[v].uses) \in Nat
  <2>1. PICK i : <<v, i>> \in s
    BY <1>8
  <2>2. i \in DOMAIN units[v].uses
    BY <1>3, <1>4, <2>1 DEF s
  <2> QED
    BY <1>2, <1>8, <2>1, <2>2
<1>10. PICK m \in t : \A i \in t : m >= i
  <2> HIDE DEF t
  <2> QED
    BY <1>9, GreatestOf
<1> DEFINE last == <<v, m>>
<1>11. last \in s
  BY <1>10
<1>12. ASSUME NEW x \in Seen(name), SeenBefore(last, x), UseAt(x).name = use.name
       PROVE  FALSE
  <2>1. x \in s /\ x[1] \in at /\ x = <<x[1], x[2]>>
    BY <1>4, <1>12 DEF s
  <2>2. v <= x[1] /\ v \in 1 .. Len(units) /\ x[1] \in 1 .. Len(units)
    BY <1>1, <1>8, <2>1
  <2>3. v = x[1] /\ m < x[2]
    BY <1>12, <2>2 DEF SeenBefore
  <2>4. x[2] \in t
    BY <1>4, <2>1, <2>3
  <2>5. m \in Nat /\ x[2] \in Nat
    BY <1>9, <1>10, <2>4
  <2> QED
    BY <1>10, <2>3, <2>4, <2>5
<1>13. UseAt(last).name = use.name /\ UseAt(last).value = use.value /\ last \in Seen(name)
  BY <1>5, <1>11 DEF s
<1> HIDE DEF last
<1> QED
  BY <1>12, <1>13 DEF Kept

(* No finding that leaves the engine, in full or cut short, quotes a value *)
(* the `.env` supplied to its unit, or a part of one, of QuotedFrom        *)
(* characters or more, unless the field was rewritten since or the name    *)
(* has two values.                                                         *)
THEOREM NoSecretLeaves == Spec => []NoSecretQuoted
<1>1. SweepInv /\ GivenInv => NoSecretQuoted
  <2> SUFFICES ASSUME SweepInv, GivenInv, status # "grading", NEW g \in findings,
                      NEW use \in Supplied(g.unit), ~use.moved, ~Contested(g.unit, use),
                      NEW p \in Cut(use.value), Length(p) >= QuotedFrom
               PROVE  p \notin g.quotes
    BY DEF NoSecretQuoted
  <2>1. PICK f \in AllDeserved : g = Quote(f)
    BY DEF SweepInv, Quoted
  <2>2. g.unit \in DOMAIN units /\ g.quotes = f.quotes \ Replaced(units[g.unit].name)
    BY <2>1, QuotedDeserved
  <2>3. use.value \in Kept(units[g.unit].name)
    BY <2>2, SeenIsKept
  <2>4. p \in Replaced(units[g.unit].name)
    BY <2>3 DEF Replaced
  <2> QED
    BY <2>2, <2>4
<1> QED
  BY <1>1, SweepInvariant, GivenInvariant, PTL

-----------------------------------------------------------------------------
LEMMA AllGraded ==
  ASSUME SweepInv, status = "complete", crashed = {}
  PROVE  /\ findings = {Quote(f) : f \in AllDeserved}
         /\ Past \ crashed = Pairs
<1>1. DOMAIN Rules = 1 .. Len(Rules) /\ DOMAIN units = 1 .. Len(units)
      /\ Len(Rules) \in Nat /\ Len(units) \in Nat
  BY EngineAssumption DEF SweepInv, Counted
<1>2. ASSUME NEW q \in Pairs
      PROVE  q \in Past
  <2>1. q[1] \in DOMAIN Rules /\ q[2] \in DOMAIN units
    BY DEF Pairs
  <2>2. ri = Len(Rules) + 1
    BY <1>1, <2>1 DEF SweepInv
  <2> QED
    BY <1>1, <2>1, <2>2 DEF Past
<1>3. Past \subseteq Pairs
  BY DEF Past
<1> QED
  BY <1>2, <1>3 DEF SweepInv, Quoted

(* Every key that reaches a deployed container from its env files has been *)
(* put to every rule that looks for it, with the value the container sees  *)
(* and under the container's name, and no other key has.                   *)
THEOREM EveryDeploymentGraded == Spec => []DeploymentGraded
<1>1. SweepInv /\ GivenInv => DeploymentGraded
  <2> SUFFICES ASSUME SweepInv, GivenInv, status = "complete", crashed = {},
                      NEW d \in Deployed, ~Announced(d), Unambiguous(d), NEW r \in DOMAIN Rules
               PROVE  {f.what : f \in {g \in findings : /\ g.rule = Rules[r]
                                                        /\ units[g.unit].name = d[2]
                                                        /\ g.what.file # None}}
                        = {k \in Reaching(d[1]) : Watches(Rules[r], k)}
    BY DEF DeploymentGraded
  <2>1. findings = {Quote(f) : f \in AllDeserved} /\ Past \ crashed = Pairs
    BY AllGraded
  <2>2. Given /\ WellFormed(document) /\ units = UnitsOf(document)
        /\ env_files = ResolveEnvFiles(document)
    BY DEF GivenInv, Given
  <2>3. \A u \in DOMAIN units : units[u].env = None \/ units[u].env = units[u].name
    BY <2>2, DocumentUnits DEF OwnEnv, ToSet
  <2>4. None \notin DOMAIN env_files
    <3>1. \A n \in DOMAIN Specs(document) : n # None
      BY <2>2, SpecsAre DEF WellFormed
    <3> QED
      BY <2>2, <3>1, EntryOf
  <2>5. ASSUME NEW g \in findings, g.rule = Rules[r], units[g.unit].name = d[2], g.what.file # None
        PROVE  g.what \in Reaching(d[1]) /\ Watches(Rules[r], g.what)
    <3>1. PICK f \in AllDeserved : g = Quote(f)
      BY <2>1
    <3>2. PICK q \in Pairs : f \in Deserved(q[1], q[2])
      BY <2>1 DEF AllDeserved
    <3>3. q[1] \in DOMAIN Rules /\ q[2] \in DOMAIN units
      BY DEF Pairs
    <3>4. PICK p : /\ p \in says[<<q[1], q[2]>>] \cup
                        {KeyReport(k) : k \in {c \in Contributed(q[2]) : Watches(Rules[q[1]], c)}}
                   /\ f = Finding(q[1], q[2], p)
      BY <3>2 DEF Deserved, Attributed
    <3>5. g.rule = Rules[q[1]] /\ g.unit = q[2] /\ g.what = p.what
      BY <3>1, <3>4, QuotedKeeps
    <3>6. p \notin says[<<q[1], q[2]>>]
      <4>1. <<q[1], q[2]>> \in DOMAIN says
        BY <3>3 DEF GivenInv
      <4> QED
        BY <2>5, <3>5, <4>1 DEF GivenInv
    <3>7. PICK k \in Contributed(q[2]) : Watches(Rules[q[1]], k) /\ p = KeyReport(k)
      BY <3>4, <3>6
    <3>8. g.what = k
      BY <3>5, <3>7 DEF KeyReport
    <3>9. units[q[2]].env \in DOMAIN env_files
      BY <3>7 DEF Contributed, Available
    <3>10. units[q[2]].env = d[2]
      BY <2>3, <2>4, <2>5, <3>3, <3>5, <3>9
    <3>11. Contributed(q[2]) = Reaching(d[1])
      BY <2>2, <3>9, <3>10, ContributedReaches
    <3> QED
      BY <2>5, <3>5, <3>7, <3>8, <3>11
  <2>6. ASSUME NEW k \in Reaching(d[1]), Watches(Rules[r], k)
        PROVE  \E g \in findings : /\ g.rule = Rules[r] /\ units[g.unit].name = d[2]
                                    /\ g.what.file # None /\ g.what = k
    <3>1. PICK u \in DOMAIN units : units[u].name = d[2] /\ units[u].env = d[2]
      BY <2>2, ContainerGraded DEF Grades, ToSet
    <3>2. \A e \in Deployed : e[2] = d[2] => e = d
      BY DEF Unambiguous
    <3>3. d[1].targets # << >>
      BY <2>6, NothingReaches
    <3>4. d[1].mapping
      BY <2>2, <3>2, <3>3, SpecOfContainer, ContainerKnown
    <3>5. d[2] \in DOMAIN env_files
      BY <2>2, <3>2, <3>3, <3>4, SpecOfContainer, EntryThere
    <3>6. Contributed(u) = Reaching(d[1]) /\ k.file # None
      BY <2>2, <2>6, <3>1, <3>5, ContributedReaches
    <3> DEFINE f == Finding(r, u, KeyReport(k))
    <3>7. f \in Deserved(r, u)
      BY <2>6, <3>6 DEF Deserved, Attributed, KeyReport
    <3>8. f \in AllDeserved
      <4>1. <<r, u>> \in Pairs
        BY DEF Pairs
      <4>2. <<r, u>>[1] = r /\ <<r, u>>[2] = u
        OBVIOUS
      <4> HIDE DEF f
      <4> QED
        BY <2>1, <3>7, <4>1, <4>2, Zenon DEF AllDeserved
    <3>9. Quote(f) \in findings
      BY <2>1, <3>8
    <3>10. Quote(f).rule = Rules[r] /\ Quote(f).unit = u /\ Quote(f).what = k
      BY QuotedKeeps DEF KeyReport
    <3> HIDE DEF f
    <3> QED
      BY <3>1, <3>6, <3>9, <3>10
  <2> QED
    BY <2>5, <2>6
<1> QED
  BY <1>1, SweepInvariant, GivenInvariant, PTL
=============================================================================
