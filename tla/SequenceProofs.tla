--------------------------- MODULE SequenceProofs ---------------------------
(* Lemmas about the sequences the models are built from, whatever they stand  *)
(* for. They are proved without an induction theorem over an operator: a set  *)
(* of numbers has a least element, which gives induction over sets of numbers *)
(* and of sequences, and with it the values of a recursive function.          *)
EXTENDS Sequencing, SequencesExt, SequenceTheorems, FiniteSetTheorems,
        WellFoundedInduction, TLAPS

(* A set of naturals that is not empty has a least element.                   *)
LEMMA LeastNatural ==
    ASSUME NEW T \in SUBSET Nat, T # {}
    PROVE  \E n \in T : \A m \in T : n <= m
  <1> DEFINE R == OpToRel(<, Nat)
  <1>1. IsWellFoundedOn(R, Nat)
    BY NatLessThanWellFounded
  <1>2. \A m, n \in Nat : m < n => <<m, n>> \in R
    BY DEF OpToRel
  <1> HIDE DEF R
  <1>3. \E n \in T : \A m \in T : <<m, n>> \notin R
    BY <1>1, WFMin
  <1>4. \E n \in T : \A m \in T : ~(m < n)
    BY <1>2, <1>3, Zenon
  <1> QED BY <1>4

(* Induction up to n, over the set of the numbers of which something holds.   *)
LEMMA Induction ==
    ASSUME NEW n \in Nat, NEW P, 0 \in P, \A i \in 0 .. n - 1 : i \in P => i + 1 \in P
    PROVE  0 .. n \subseteq P
  <1> SUFFICES ASSUME (0 .. n) \ P # {} PROVE FALSE
    OBVIOUS
  <1> DEFINE Q == (0 .. n) \ P
  <1>1. Q \in SUBSET Nat /\ Q # {}
    OBVIOUS
  <1> HIDE DEF Q
  <1>2. PICK m \in Q : \A k \in Q : m <= k
    BY <1>1, LeastNatural
  <1>3. m \in 0 .. n /\ m \notin P /\ m # 0 /\ m - 1 \in 0 .. n - 1
    BY DEF Q
  <1>4. m - 1 \notin Q /\ (m - 1) + 1 = m
    BY <1>2, <1>3
  <1>5. m - 1 \in P
    BY <1>3, <1>4 DEF Q
  <1> QED BY <1>3, <1>4, <1>5

(* A sequence of values each of which is made of the one before.              *)
Iterates(V, n, v, G, f) ==
    /\ f \in [0 .. n -> V]
    /\ f[0] = v
    /\ \A i \in 0 .. n - 1 : f[i + 1] = G[<<f[i], i + 1>>]

(* There is one ... *)
LEMMA IteratesExist ==
    ASSUME NEW n \in Nat, NEW V, NEW v \in V, NEW G \in [V \X (1 .. n) -> V]
    PROVE  \E f : Iterates(V, n, v, G, f)
  <1> DEFINE P == {m \in 0 .. n : \E f : Iterates(V, m, v, G, f)}
  <1>1. 0 \in P
    <2> DEFINE f == [i \in 0 .. 0 |-> v]
    <2>1. f \in [0 .. 0 -> V] /\ f[0] = v
      OBVIOUS
    <2>2. Iterates(V, 0, v, G, f)
      BY <2>1 DEF Iterates
    <2> QED BY <2>2
  <1>2. ASSUME NEW m \in 0 .. n - 1, m \in P PROVE m + 1 \in P
    <2>1. PICK f : Iterates(V, m, v, G, f)
      BY <1>2
    <2> DEFINE w == G[<<f[m], m + 1>>]
               g == [i \in 0 .. m + 1 |-> IF i = m + 1 THEN w ELSE f[i]]
    <2>2. f \in [0 .. m -> V] /\ f[m] \in V /\ w \in V
      BY <2>1 DEF Iterates
    <2> HIDE DEF w
    <2>3. g \in [0 .. m + 1 -> V] /\ (\A i \in 0 .. m : g[i] = f[i]) /\ g[m + 1] = w
      BY <2>2
    <2> HIDE DEF g
    <2>4. g[0] = v
      BY <2>1, <2>3 DEF Iterates
    <2>5. \A i \in 0 .. m : g[i + 1] = G[<<g[i], i + 1>>]
      <3>1. ASSUME NEW i \in 0 .. m - 1 PROVE g[i + 1] = G[<<g[i], i + 1>>]
        <4>1. i \in 0 .. m /\ i + 1 \in 0 .. m
          OBVIOUS
        <4>2. g[i] = f[i] /\ g[i + 1] = f[i + 1]
          BY <2>3, <4>1
        <4> QED BY <2>1, <4>2 DEF Iterates
      <3>2. g[m + 1] = G[<<g[m], m + 1>>]
        BY <2>3 DEF w
      <3> QED BY <3>1, <3>2
    <2>6. Iterates(V, m + 1, v, G, g)
      BY <2>3, <2>4, <2>5 DEF Iterates
    <2> QED BY <2>6
  <1> HIDE DEF P
  <1>3. \A m \in 0 .. n - 1 : m \in P => m + 1 \in P
    BY <1>2
  <1>4. 0 .. n \subseteq P
    BY <1>1, <1>3, Induction, Zenon
  <1>5. n \in 0 .. n
    OBVIOUS
  <1> QED BY <1>4, <1>5 DEF P

(* ... and no other one.                                                      *)
LEMMA IteratesAreOne ==
    ASSUME NEW n \in Nat, NEW m \in 0 .. n, NEW V, NEW W, NEW v, NEW G, NEW H,
           NEW f, NEW g, Iterates(V, m, v, G, f), Iterates(W, n, v, H, g),
           \A x \in V, i \in 1 .. m : G[<<x, i>>] = H[<<x, i>>]
    PROVE  f[m] = g[m]
  <1> DEFINE P == {i \in 0 .. m : f[i] = g[i]}
  <1>1. 0 \in P
    BY DEF Iterates
  <1>2. ASSUME NEW i \in 0 .. m - 1, i \in P PROVE i + 1 \in P
    <2>1. i \in 0 .. n - 1 /\ i \in 0 .. m /\ i + 1 \in 1 .. m /\ i + 1 \in 0 .. m
      OBVIOUS
    <2>2. f[i] \in V /\ f[i] = g[i]
      BY <1>2, <2>1 DEF Iterates
    <2>3. f[i + 1] = G[<<f[i], i + 1>>] /\ g[i + 1] = H[<<g[i], i + 1>>]
      BY <2>1 DEF Iterates
    <2>4. G[<<f[i], i + 1>>] = H[<<f[i], i + 1>>]
      BY <2>1, <2>2
    <2>5. f[i + 1] = g[i + 1]
      BY <2>2, <2>3, <2>4
    <2> QED BY <2>1, <2>5
  <1> HIDE DEF P
  <1>3. \A i \in 0 .. m - 1 : i \in P => i + 1 \in P
    BY <1>2
  <1>4. m \in Nat /\ m \in 0 .. m
    OBVIOUS
  <1>5. 0 .. m \subseteq P
    BY <1>1, <1>3, <1>4, Induction, Zenon
  <1> QED BY <1>4, <1>5 DEF P

(* Induction over sequences.                                                  *)
LEMMA SeqInduction ==
    ASSUME NEW S, NEW P, << >> \in P,
           \A s \in Seq(S), e \in S : s \in P => Append(s, e) \in P
    PROVE  Seq(S) \subseteq P
  <1> DEFINE Q == {n \in Nat : \A s \in Seq(S) : Len(s) = n => s \in P}
  <1>1. 0 \in Q
    <2>1. \A s \in Seq(S) : Len(s) = 0 => s = << >>
      OBVIOUS
    <2> QED BY <2>1
  <1>2. ASSUME NEW n \in Nat, n \in Q PROVE n + 1 \in Q
    <2> SUFFICES ASSUME NEW s \in Seq(S), Len(s) = n + 1 PROVE s \in P
      OBVIOUS
    <2>1. s # << >>
      OBVIOUS
    <2>2. PICK t \in Seq(S), e \in S : s = Append(t, e)
      BY <2>1, SequenceEmptyOrAppend
    <2>3. Len(t) = n
      BY <2>2
    <2> QED BY <1>2, <2>2, <2>3
  <1> HIDE DEF Q
  <1>3. ASSUME NEW s \in Seq(S) PROVE s \in P
    <2>1. Len(s) \in Nat /\ Len(s) \in 0 .. Len(s)
      OBVIOUS
    <2>2. \A i \in 0 .. Len(s) - 1 : i \in Q => i + 1 \in Q
      BY <1>2
    <2>3. 0 .. Len(s) \subseteq Q
      BY <1>1, <2>1, <2>2, Induction, Zenon
    <2> QED BY <2>1, <2>3 DEF Q
  <1> QED BY <1>3

-----------------------------------------------------------------------------
(* A prefix, element by element.                                              *)
LEMMA PrefixIs ==
    ASSUME NEW S, NEW s \in Seq(S), NEW t \in Seq(S)
    PROVE  IsPrefix(s, t) <=>
             Len(s) <= Len(t) /\ \A i \in 1 .. Len(s) : s[i] = t[i]
  <1>1. SubSeq(s, 1, Len(s)) = s
    BY SubSeqFull
  <1>2. ASSUME Len(s) <= Len(t)
        PROVE  /\ SubSeq(t, 1, Len(s)) \in Seq(S)
               /\ Len(SubSeq(t, 1, Len(s))) = Len(s)
               /\ \A i \in 1 .. Len(s) : SubSeq(t, 1, Len(s))[i] = t[i]
    BY <1>2
  <1>3. ASSUME Len(s) <= Len(t), \A i \in 1 .. Len(s) : s[i] = t[i]
        PROVE  s = SubSeq(t, 1, Len(s))
    <2>1. \A i \in 1 .. Len(s) : SubSeq(t, 1, Len(s))[i] = s[i]
      BY <1>2, <1>3
    <2> QED BY <1>2, <1>3, <2>1, SeqEqual
  <1> QED BY <1>1, <1>2, <1>3 DEF IsPrefix

(* Prefixes of a sequence that grows.                                         *)
LEMMA PrefixAppend ==
    ASSUME NEW S, NEW s \in Seq(S), NEW t \in Seq(S), IsPrefix(s, t)
    PROVE  \A e \in S : IsPrefix(s, Append(t, e))
  <1> TAKE e \in S
  <1>1. /\ Append(t, e) \in Seq(S) /\ Len(Append(t, e)) = Len(t) + 1
        /\ \A i \in 1 .. Len(t) : Append(t, e)[i] = t[i]
    OBVIOUS
  <1>2. Len(s) <= Len(t) /\ \A i \in 1 .. Len(s) : s[i] = t[i]
    BY PrefixIs
  <1>3. Len(s) <= Len(Append(t, e)) /\ \A i \in 1 .. Len(s) : s[i] = Append(t, e)[i]
    BY <1>1, <1>2
  <1> QED BY <1>1, <1>3, PrefixIs

-----------------------------------------------------------------------------
(* Only. *)
Grown(x, e, T) == IF e \in T THEN Append(x, e) ELSE x

OnlyStep(S, s, T) == [p \in Seq(S) \X (1 .. Len(s)) |-> Grown(p[1], s[p[2]], T)]

(* One step of the loop makes a sequence of one.                              *)
LEMMA OnlyStepType ==
    ASSUME NEW S, NEW s \in Seq(S), NEW T
    PROVE  OnlyStep(S, s, T) \in [Seq(S) \X (1 .. Len(s)) -> Seq(S)]
  BY DEF OnlyStep, Grown

(* Only is the last of the values its function takes.                         *)
LEMMA OnlyIterates ==
    ASSUME NEW S, NEW s \in Seq(S), NEW T
    PROVE  \E f : /\ Iterates(Seq(S), Len(s), << >>, OnlyStep(S, s, T), f)
                  /\ Only(s, T) = f[Len(s)]
  <1> DEFINE n == Len(s)
             OnlyOf(f) == f = [i \in 0 .. Len(s) |->
                                 IF i = 0 THEN << >>
                                 ELSE IF s[i] \in T THEN Append(f[i - 1], s[i])
                                 ELSE f[i - 1]]
  <1>1. n \in Nat /\ << >> \in Seq(S)
    OBVIOUS
  <1>2. ASSUME NEW f, Iterates(Seq(S), n, << >>, OnlyStep(S, s, T), f)
        PROVE  OnlyOf(f)
    <2>1. f \in [0 .. n -> Seq(S)] /\ f[0] = << >>
      BY <1>2 DEF Iterates
    <2>2. ASSUME NEW i \in 1 .. n PROVE f[i] = Grown(f[i - 1], s[i], T)
      <3>1. i - 1 \in 0 .. n - 1 /\ i - 1 \in 0 .. n /\ (i - 1) + 1 = i
        BY <1>1
      <3>2. f[i] = OnlyStep(S, s, T)[<<f[i - 1], i>>]
        BY <1>2, <3>1 DEF Iterates
      <3> QED BY <2>1, <3>1, <3>2 DEF OnlyStep
    <2>3. \A i \in 0 .. n : f[i] = IF i = 0 THEN << >>
                                   ELSE IF s[i] \in T THEN Append(f[i - 1], s[i])
                                   ELSE f[i - 1]
      <3> SUFFICES ASSUME NEW i \in 0 .. n, i # 0
                   PROVE  f[i] = IF s[i] \in T THEN Append(f[i - 1], s[i]) ELSE f[i - 1]
        BY <2>1
      <3>1. i \in 1 .. n
        BY <1>1
      <3>2. f[i] = Grown(f[i - 1], s[i], T)
        BY <2>2, <3>1
      <3> QED BY <3>2, Zenon DEF Grown
    <2> QED BY <2>1, <2>3
  <1>3. ASSUME NEW f, OnlyOf(f)
        PROVE  Iterates(Seq(S), n, << >>, OnlyStep(S, s, T), f)
    <2>1. f[0] = << >>
      BY <1>1, <1>3
    <2>2. ASSUME NEW i \in 0 .. n - 1 PROVE f[i + 1] = Grown(f[i], s[i + 1], T)
      <3> DEFINE j == i + 1
      <3>1. j \in 0 .. Len(s) /\ j # 0 /\ j - 1 = i
        BY <1>1
      <3> HIDE DEF j
      <3>2. f[j] = Grown(f[j - 1], s[j], T)
        BY <1>3, <3>1, Zenon DEF Grown
      <3> QED BY <3>1, <3>2, Zenon DEF j
    <2> HIDE DEF OnlyOf
    <2> DEFINE P == {i \in 0 .. n : f[i] \in Seq(S)}
    <2>3. 0 \in P
      <3>1. 0 \in 0 .. n /\ f[0] \in Seq(S)
        BY <1>1, <2>1
      <3> QED BY <3>1
    <2>4. ASSUME NEW i \in 0 .. n - 1, i \in P PROVE i + 1 \in P
      <3>1. i + 1 \in 1 .. Len(s) /\ i + 1 \in 0 .. n
        BY <1>1
      <3>2. s[i + 1] \in S
        BY <3>1
      <3>3. Grown(f[i], s[i + 1], T) \in Seq(S)
        BY <2>4, <3>2 DEF Grown
      <3> QED BY <2>2, <3>1, <3>3
    <2> HIDE DEF P
    <2>5. \A i \in 0 .. n - 1 : i \in P => i + 1 \in P
      BY <2>4
    <2>6. 0 .. n \subseteq P
      BY <1>1, <2>3, <2>5, Induction, Zenon
    <2>7. f \in [0 .. n -> Seq(S)]
      <3>1. \A i \in 0 .. n : f[i] \in Seq(S)
        BY <2>6 DEF P
      <3>2. f = [i \in 0 .. n |-> f[i]]
        BY <1>3 DEF OnlyOf
      <3> QED BY <3>1, <3>2
    <2>8. \A i \in 0 .. n - 1 : f[i + 1] = OnlyStep(S, s, T)[<<f[i], i + 1>>]
      <3> SUFFICES ASSUME NEW i \in 0 .. n - 1
                   PROVE  f[i + 1] = OnlyStep(S, s, T)[<<f[i], i + 1>>]
        OBVIOUS
      <3>1. i + 1 \in 1 .. Len(s) /\ f[i] \in Seq(S)
        BY <1>1, <2>7
      <3>2. OnlyStep(S, s, T)[<<f[i], i + 1>>] = Grown(f[i], s[i + 1], T)
        BY <3>1 DEF OnlyStep
      <3> QED BY <2>2, <3>2
    <2> QED BY <2>1, <2>7, <2>8 DEF Iterates
  <1>4. \E f : Iterates(Seq(S), n, << >>, OnlyStep(S, s, T), f)
    BY <1>1, OnlyStepType, IteratesExist
  <1>5. OnlyOf(CHOOSE f : OnlyOf(f))
    BY <1>2, <1>4
  <1>6. Only(s, T) = (CHOOSE f : OnlyOf(f))[Len(s)]
    BY DEF Only
  <1> HIDE DEF OnlyOf
  <1> QED BY <1>3, <1>5, <1>6

(* Of nothing, nothing is kept.                                               *)
LEMMA OnlyEmpty ==
    ASSUME NEW T PROVE Only(<< >>, T) = << >>
  <1> DEFINE s == << >>
  <1>1. s \in Seq({}) /\ Len(s) = 0
    OBVIOUS
  <1> HIDE DEF s
  <1>2. PICK f : /\ Iterates(Seq({}), Len(s), << >>, OnlyStep({}, s, T), f)
                 /\ Only(s, T) = f[Len(s)]
    BY <1>1, OnlyIterates
  <1>3. f[0] = << >>
    BY <1>2 DEF Iterates
  <1> QED BY <1>1, <1>2, <1>3 DEF s

(* What is only of a longer sequence.                                         *)
LEMMA OnlyAppend ==
    ASSUME NEW S, NEW s \in Seq(S), NEW e \in S, NEW T
    PROVE  Only(Append(s, e), T) =
             IF e \in T THEN Append(Only(s, T), e) ELSE Only(s, T)
  <1> DEFINE t == Append(s, e)
             n == Len(s)
  <1>1. t \in Seq(S) /\ Len(t) = n + 1 /\ n \in Nat /\ t[n + 1] = e
        /\ \A i \in 1 .. n : t[i] = s[i]
    OBVIOUS
  <1> HIDE DEF t
  <1>2. PICK f : /\ Iterates(Seq(S), n, << >>, OnlyStep(S, s, T), f)
                 /\ Only(s, T) = f[n]
    BY OnlyIterates
  <1>3. PICK g : /\ Iterates(Seq(S), n + 1, << >>, OnlyStep(S, t, T), g)
                 /\ Only(t, T) = g[n + 1]
    BY <1>1, OnlyIterates
  <1>4. \A x \in Seq(S), i \in 1 .. n :
          OnlyStep(S, s, T)[<<x, i>>] = OnlyStep(S, t, T)[<<x, i>>]
    BY <1>1 DEF OnlyStep
  <1>5. n \in 0 .. n + 1 /\ n + 1 \in Nat /\ n \in 0 .. (n + 1) - 1 /\ n + 1 \in 1 .. n + 1
    BY <1>1
  <1> HIDE DEF n
  <1>6. f[n] = g[n]
    BY <1>2, <1>3, <1>4, <1>5, IteratesAreOne
  <1>7. g[n + 1] = OnlyStep(S, t, T)[<<g[n], n + 1>>] /\ g[n] \in Seq(S)
    BY <1>3, <1>5 DEF Iterates
  <1>8. g[n + 1] = Grown(g[n], e, T)
    BY <1>1, <1>5, <1>7 DEF OnlyStep
  <1> QED BY <1>2, <1>3, <1>6, <1>8, Zenon DEF t, Grown

(* What is kept is a sequence of the same elements.                           *)
LEMMA OnlyTyped ==
    ASSUME NEW S, NEW s \in Seq(S), NEW T
    PROVE  Only(s, T) \in Seq(S)
  <1>1. PICK f : /\ Iterates(Seq(S), Len(s), << >>, OnlyStep(S, s, T), f)
                 /\ Only(s, T) = f[Len(s)]
    BY OnlyIterates
  <1>2. Len(s) \in 0 .. Len(s)
    OBVIOUS
  <1> QED BY <1>1, <1>2 DEF Iterates

(* All, or nothing.                                                           *)
LEMMA OnlyAll ==
    ASSUME NEW S, NEW s \in Seq(S), NEW T, \A i \in 1 .. Len(s) : s[i] \in T
    PROVE  Only(s, T) = s
  <1> DEFINE P == {t \in Seq(S) : (\A i \in 1 .. Len(t) : t[i] \in T) => Only(t, T) = t}
  <1>1. << >> \in P
    BY OnlyEmpty
  <1>2. ASSUME NEW t \in Seq(S), NEW e \in S, t \in P,
               \A i \in 1 .. Len(Append(t, e)) : Append(t, e)[i] \in T
        PROVE  Only(Append(t, e), T) = Append(t, e)
    <2>1. Len(Append(t, e)) = Len(t) + 1 /\ Append(t, e)[Len(t) + 1] = e /\ Len(t) \in Nat
          /\ \A i \in 1 .. Len(t) : Append(t, e)[i] = t[i]
      OBVIOUS
    <2>2. e \in T /\ \A i \in 1 .. Len(t) : t[i] \in T
      BY <1>2, <2>1
    <2>3. Only(t, T) = t
      BY <1>2, <2>2
    <2> QED BY <2>2, <2>3, OnlyAppend
  <1>3. \A t \in Seq(S), e \in S : t \in P => Append(t, e) \in P
    <2> SUFFICES ASSUME NEW t \in Seq(S), NEW e \in S, t \in P
                 PROVE  Append(t, e) \in P
      OBVIOUS
    <2>1. Append(t, e) \in Seq(S)
      OBVIOUS
    <2> QED BY <1>2, <2>1
  <1> HIDE DEF P
  <1>4. s \in P
    BY <1>1, <1>3, SeqInduction
  <1> QED BY <1>4 DEF P

(* Nothing is kept if no element is to be.                                    *)
LEMMA OnlyNone ==
    ASSUME NEW S, NEW s \in Seq(S), NEW T, \A i \in 1 .. Len(s) : s[i] \notin T
    PROVE  Only(s, T) = << >>
  <1> DEFINE P == {t \in Seq(S) : (\A i \in 1 .. Len(t) : t[i] \notin T)
                                    => Only(t, T) = << >>}
  <1>1. << >> \in P
    BY OnlyEmpty
  <1>2. ASSUME NEW t \in Seq(S), NEW e \in S, t \in P,
               \A i \in 1 .. Len(Append(t, e)) : Append(t, e)[i] \notin T
        PROVE  Only(Append(t, e), T) = << >>
    <2>1. Len(Append(t, e)) = Len(t) + 1 /\ Append(t, e)[Len(t) + 1] = e /\ Len(t) \in Nat
          /\ \A i \in 1 .. Len(t) : Append(t, e)[i] = t[i]
      OBVIOUS
    <2>2. e \notin T /\ \A i \in 1 .. Len(t) : t[i] \notin T
      BY <1>2, <2>1
    <2>3. Only(t, T) = << >>
      BY <1>2, <2>2
    <2> QED BY <2>2, <2>3, OnlyAppend
  <1>3. \A t \in Seq(S), e \in S : t \in P => Append(t, e) \in P
    <2> SUFFICES ASSUME NEW t \in Seq(S), NEW e \in S, t \in P
                 PROVE  Append(t, e) \in P
      OBVIOUS
    <2>1. Append(t, e) \in Seq(S)
      OBVIOUS
    <2> QED BY <1>2, <2>1
  <1> HIDE DEF P
  <1>4. s \in P
    BY <1>1, <1>3, SeqInduction
  <1> QED BY <1>4 DEF P

(* What is only of one sequence behind another.                               *)
LEMMA OnlyConcat ==
    ASSUME NEW S, NEW s \in Seq(S), NEW t \in Seq(S), NEW T
    PROVE  Only(s \o t, T) = Only(s, T) \o Only(t, T)
  <1> DEFINE P == {u \in Seq(S) : Only(s \o u, T) = Only(s, T) \o Only(u, T)}
  <1>1. << >> \in P
    <2>1. Only(<< >>, T) = << >> /\ Only(s, T) \in Seq(S)
      BY OnlyEmpty, OnlyTyped
    <2>2. s \o << >> = s /\ Only(s, T) \o << >> = Only(s, T)
      BY <2>1
    <2> QED BY <2>1, <2>2
  <1>2. \A u \in Seq(S), e \in S : u \in P => Append(u, e) \in P
    <2> SUFFICES ASSUME NEW u \in Seq(S), NEW e \in S, u \in P
                 PROVE  Append(u, e) \in P
      OBVIOUS
    <2> DEFINE a == Only(s, T)
               b == Only(u, T)
               c == Only(s \o u, T)
    <2>1. /\ Append(u, e) \in Seq(S) /\ s \o u \in Seq(S)
          /\ s \o Append(u, e) = Append(s \o u, e)
      OBVIOUS
    <2>2. a \in Seq(S) /\ b \in Seq(S)
      BY OnlyTyped
    <2>3. c = a \o b
      OBVIOUS
    <2>4. Only(s \o Append(u, e), T) = IF e \in T THEN Append(c, e) ELSE c
      <3> DEFINE w == s \o u
      <3>1. w \in Seq(S) /\ s \o Append(u, e) = Append(w, e)
        BY <2>1
      <3> HIDE DEF w
      <3>2. Only(Append(w, e), T) = IF e \in T THEN Append(Only(w, T), e) ELSE Only(w, T)
        BY <3>1, OnlyAppend
      <3> QED BY <3>1, <3>2 DEF w
    <2>5. Only(Append(u, e), T) = IF e \in T THEN Append(b, e) ELSE b
      BY OnlyAppend
    <2>6. a \o Append(b, e) = Append(a \o b, e)
      <3> HIDE DEF a, b
      <3> QED BY <2>2
    <2> HIDE DEF a, b, c
    <2>7. Only(s \o Append(u, e), T) = a \o Only(Append(u, e), T)
      BY <2>3, <2>4, <2>5, <2>6
    <2> QED BY <2>1, <2>7 DEF a
  <1> HIDE DEF P
  <1>3. t \in P
    BY <1>1, <1>2, SeqInduction
  <1> QED BY <1>3 DEF P

(* An element that is not kept may be removed, or replaced by another one     *)
(* that is not.                                                               *)
LEMMA OnlyAround ==
    ASSUME NEW S, NEW s \in Seq(S), NEW i \in 1 .. Len(s), NEW T, s[i] \notin T
    PROVE  /\ Only(RemoveAt(s, i), T) = Only(s, T)
           /\ \A e \in S : e \notin T => Only([s EXCEPT ![i] = e], T) = Only(s, T)
  <1> DEFINE a == SubSeq(s, 1, i - 1)
             b == SubSeq(s, i + 1, Len(s))
             With(e) == Append(a, e) \o b
  <1>1. /\ Len(s) \in Nat /\ a \in Seq(S) /\ b \in Seq(S)
        /\ Len(a) = i - 1 /\ Len(b) = Len(s) - i
        /\ \A k \in 1 .. i - 1 : a[k] = s[k]
        /\ \A k \in 1 .. Len(s) - i : b[k] = s[k + i]
    OBVIOUS
  <1>2. ASSUME NEW e \in S PROVE With(e) = [s EXCEPT ![i] = e]
    <2> HIDE DEF a, b
    <2>1. /\ Append(a, e) \in Seq(S) /\ Len(Append(a, e)) = i
          /\ \A k \in 1 .. i - 1 : Append(a, e)[k] = s[k]
          /\ Append(a, e)[i] = e
      BY <1>1
    <2>2. /\ With(e) \in Seq(S) /\ Len(With(e)) = i + (Len(s) - i)
          /\ \A k \in 1 .. i + (Len(s) - i) :
               With(e)[k] = IF k <= i THEN Append(a, e)[k] ELSE b[k - i]
      <3> DEFINE f == Append(a, e)
      <3>1. f \in Seq(S) /\ b \in Seq(S) /\ Len(f) = i /\ Len(b) = Len(s) - i
        BY <1>1, <2>1
      <3> HIDE DEF f
      <3>2. /\ f \o b \in Seq(S) /\ Len(f \o b) = Len(f) + Len(b)
            /\ \A k \in 1 .. Len(f) + Len(b) :
                 (f \o b)[k] = IF k <= Len(f) THEN f[k] ELSE b[k - Len(f)]
        BY <3>1, ConcatProperties
      <3> QED BY <3>1, <3>2 DEF f
    <2> DEFINE u == [s EXCEPT ![i] = e]
    <2>3. /\ u \in Seq(S) /\ Len(u) = Len(s)
          /\ u[i] = e /\ \A k \in 1 .. Len(s) : k # i => u[k] = s[k]
      OBVIOUS
    <2> HIDE DEF u, With
    <2>4. \A k \in 1 .. Len(s) : With(e)[k] = u[k]
      <3> TAKE k \in 1 .. Len(s)
      <3>1. CASE k < i
        BY <1>1, <2>1, <2>2, <2>3, <3>1
      <3>2. CASE k = i
        BY <1>1, <2>1, <2>2, <2>3, <3>2
      <3>3. CASE k > i
        <4>1. /\ k - i \in 1 .. Len(s) - i /\ (k - i) + i = k
              /\ k \in 1 .. i + (Len(s) - i) /\ ~(k <= i) /\ k # i
          <5>1. Len(s) \in Nat /\ i \in Nat /\ k \in Nat /\ 1 <= i /\ i < k /\ k <= Len(s)
            BY <3>3
          <5> QED BY <5>1
        <4> QED BY <1>1, <2>2, <2>3, <3>3, <4>1
      <3> QED BY <3>1, <3>2, <3>3
    <2>5. With(e) = u
      BY <1>1, <2>2, <2>3, <2>4, SeqEqual
    <2> QED BY <2>5 DEF u
  <1>3. ASSUME NEW e \in S, e \notin T
        PROVE  Only([s EXCEPT ![i] = e], T) = Only(a, T) \o Only(b, T)
    <2> HIDE DEF a, b, With
    <2>1. Append(a, e) \in Seq(S)
      BY <1>1
    <2>2. Only(With(e), T) = Only(Append(a, e), T) \o Only(b, T)
      <3> DEFINE f == Append(a, e)
      <3>1. f \in Seq(S) /\ b \in Seq(S)
        BY <1>1, <2>1
      <3> HIDE DEF f
      <3>2. Only(f \o b, T) = Only(f, T) \o Only(b, T)
        BY <3>1, OnlyConcat
      <3> QED BY <3>2 DEF f, With
    <2>3. Only(Append(a, e), T) = Only(a, T)
      BY <1>1, <1>3, OnlyAppend
    <2> QED BY <1>2, <2>2, <2>3
  <1>4. Only(RemoveAt(s, i), T) = Only(a, T) \o Only(b, T)
    <2>1. RemoveAt(s, i) = a \o b
      BY DEF RemoveAt
    <2> HIDE DEF a, b
    <2> QED BY <1>1, <2>1, OnlyConcat
  <1>5. s[i] \in S /\ [s EXCEPT ![i] = s[i]] = s
    OBVIOUS
  <1> HIDE DEF a, b
  <1>6. Only(s, T) = Only(a, T) \o Only(b, T)
    BY <1>3, <1>5
  <1> QED BY <1>3, <1>4, <1>6

(* The places of s that t has kept, which are those of T, in their order.     *)
Places(s, t, T, p) ==
    /\ p \in [1 .. Len(t) -> 1 .. Len(s)]
    /\ \A i \in 1 .. Len(t) : t[i] = s[p[i]] /\ t[i] \in T
    /\ \A i, j \in 1 .. Len(t) : i < j => p[i] < p[j]
    /\ \A q \in 1 .. Len(s) : s[q] \in T => \E i \in 1 .. Len(t) : p[i] = q

(* Every element that is kept has a place it comes from.                      *)
LEMMA OnlyPlaces ==
    ASSUME NEW S, NEW s \in Seq(S), NEW T
    PROVE  \E p : Places(s, Only(s, T), T, p)
  <1> DEFINE P == {t \in Seq(S) : \E p : Places(t, Only(t, T), T, p)}
  <1>1. << >> \in P
    <2>1. Only(<< >>, T) = << >>
      BY OnlyEmpty
    <2> DEFINE p == [i \in 1 .. 0 |-> 0]
    <2>2. Places(<< >>, << >>, T, p)
      BY DEF Places
    <2>3. << >> \in Seq(S)
      OBVIOUS
    <2> HIDE DEF p
    <2> QED BY <2>1, <2>2, <2>3
  <1>2. ASSUME NEW t \in Seq(S), NEW e \in S, t \in P
        PROVE  \E p : Places(Append(t, e), Only(Append(t, e), T), T, p)
    <2> DEFINE u == Append(t, e)
               n == Len(t)
               k == Only(t, T)
               m == Len(k)
    <2>1. /\ u \in Seq(S) /\ Len(u) = n + 1 /\ u[n + 1] = e /\ n \in Nat
          /\ \A i \in 1 .. n : u[i] = t[i]
      OBVIOUS
    <2>2. k \in Seq(S) /\ m \in Nat
      BY OnlyTyped
    <2>3. PICK p : Places(t, k, T, p)
      BY <1>2
    <2>4. Only(u, T) = IF e \in T THEN Append(k, e) ELSE k
      BY OnlyAppend
    <2> HIDE DEF u, k
    <2>7. /\ p \in [1 .. m -> 1 .. n]
          /\ \A i \in 1 .. m : k[i] = t[p[i]] /\ k[i] \in T /\ p[i] \in 1 .. n
          /\ \A i, j \in 1 .. m : i < j => p[i] < p[j]
          /\ \A q \in 1 .. n : t[q] \in T => \E i \in 1 .. m : p[i] = q
      BY <2>3 DEF Places
    <2> HIDE DEF m, n
    <2>5. CASE e \notin T
      <3>1. p \in [1 .. m -> 1 .. n + 1]
        BY <2>1, <2>7
      <3>2. \A i \in 1 .. m : k[i] = u[p[i]] /\ k[i] \in T
        BY <2>1, <2>7
      <3>3. \A q \in 1 .. n + 1 : u[q] \in T => \E i \in 1 .. m : p[i] = q
        BY <2>1, <2>5, <2>7
      <3>4. Places(u, k, T, p)
        BY <2>1, <2>7, <3>1, <3>2, <3>3 DEF Places, m
      <3> QED BY <2>4, <2>5, <3>4 DEF u
    <2>6. CASE e \in T
      <3> DEFINE w == Append(k, e)
                 g == [i \in 1 .. m + 1 |-> IF i = m + 1 THEN n + 1 ELSE p[i]]
      <3>1. /\ Len(w) = m + 1 /\ w[m + 1] = e /\ \A i \in 1 .. m : w[i] = k[i]
        BY <2>2 DEF m
      <3>2. g[m + 1] = n + 1 /\ \A i \in 1 .. m : g[i] = p[i]
        BY <2>2
      <3>3. g \in [1 .. m + 1 -> 1 .. n + 1]
        BY <2>1, <2>2, <2>7
      <3> HIDE DEF w, g
      <3>4. ASSUME NEW i \in 1 .. m + 1 PROVE w[i] = u[g[i]] /\ w[i] \in T
        <4>1. CASE i = m + 1
          BY <2>1, <2>6, <3>1, <3>2, <4>1
        <4>2. CASE i \in 1 .. m
          BY <2>1, <2>7, <3>1, <3>2, <4>2
        <4> QED BY <2>2, <4>1, <4>2
      <3>5. ASSUME NEW i \in 1 .. m + 1, NEW j \in 1 .. m + 1, i < j PROVE g[i] < g[j]
        <4>1. i \in 1 .. m /\ g[i] = p[i] /\ p[i] \in 1 .. n
          BY <2>2, <2>7, <3>2, <3>5
        <4>2. CASE j = m + 1
          BY <2>1, <3>2, <4>1, <4>2
        <4>3. CASE j \in 1 .. m
          BY <2>7, <3>2, <3>5, <4>1, <4>3
        <4> QED BY <2>2, <4>2, <4>3
      <3>6. ASSUME NEW q \in 1 .. n + 1, u[q] \in T
            PROVE  \E i \in 1 .. m + 1 : g[i] = q
        <4>1. CASE q = n + 1
          BY <2>2, <3>2, <4>1
        <4>2. CASE q \in 1 .. n
          <5>1. PICK i \in 1 .. m : p[i] = q
            BY <2>1, <2>7, <3>6, <4>2
          <5> QED BY <2>2, <3>2, <5>1
        <4> QED BY <2>1, <4>1, <4>2
      <3>7. Places(u, w, T, g)
        BY <2>1, <3>1, <3>3, <3>4, <3>5, <3>6 DEF Places
      <3> QED BY <2>4, <2>6, <3>7 DEF u, w
    <2> QED BY <2>5, <2>6
  <1>3. \A t \in Seq(S), e \in S : t \in P => Append(t, e) \in P
    <2> SUFFICES ASSUME NEW t \in Seq(S), NEW e \in S, t \in P
                 PROVE  Append(t, e) \in P
      OBVIOUS
    <2>1. \E p : Places(Append(t, e), Only(Append(t, e), T), T, p)
      BY <1>2
    <2>2. Append(t, e) \in Seq(S)
      OBVIOUS
    <2> QED BY <2>1, <2>2
  <1> HIDE DEF P
  <1>4. s \in P
    BY <1>1, <1>3, SeqInduction
  <1> QED BY <1>4 DEF P

-----------------------------------------------------------------------------
(* FlattenSeq. *)
FlattenStep(S, ss) == [p \in Seq(S) \X (1 .. Len(ss)) |-> p[1] \o ss[p[2]]]

(* FlattenSeq is the last of the values its function takes.                   *)
LEMMA FlattenIterates ==
    ASSUME NEW S, NEW ss \in Seq(Seq(S))
    PROVE  \E f : /\ Iterates(Seq(S), Len(ss), << >>, FlattenStep(S, ss), f)
                  /\ FlattenSeq(ss) = f[Len(ss)]
  <1> DEFINE n == Len(ss)
             FlattenOf(h) == h = [i \in 1 .. Len(ss) |->
                                    IF i = 1 THEN ss[i] ELSE h[i - 1] \o ss[i]]
  <1>1. n \in Nat /\ << >> \in Seq(S) /\ \A i \in 1 .. n : ss[i] \in Seq(S)
    OBVIOUS
  <1>2. FlattenStep(S, ss) \in [Seq(S) \X (1 .. n) -> Seq(S)]
    BY DEF FlattenStep
  <1>3. PICK f : Iterates(Seq(S), n, << >>, FlattenStep(S, ss), f)
    BY <1>1, <1>2, IteratesExist
  <1>4. f \in [0 .. n -> Seq(S)] /\ f[0] = << >>
    BY <1>3 DEF Iterates
  <1>5. ASSUME NEW i \in 1 .. n PROVE f[i] = f[i - 1] \o ss[i]
    <2>1. i - 1 \in 0 .. n - 1 /\ i - 1 \in 0 .. n /\ (i - 1) + 1 = i
      BY <1>1
    <2>2. f[i] = FlattenStep(S, ss)[<<f[i - 1], i>>]
      BY <1>3, <2>1 DEF Iterates
    <2> QED BY <1>4, <2>1, <2>2 DEF FlattenStep
  <1>6. CASE n = 0
    <2>1. ss = << >>
      BY <1>6
    <2> QED BY <1>3, <1>4, <1>6, <2>1 DEF FlattenSeq
  <1>7. CASE n # 0
    <2> DEFINE h == [i \in 1 .. n |-> f[i]]
    <2>1. \A i \in 1 .. n : h[i] = IF i = 1 THEN ss[i] ELSE h[i - 1] \o ss[i]
      <3> SUFFICES ASSUME NEW i \in 1 .. n
                   PROVE  h[i] = IF i = 1 THEN ss[i] ELSE h[i - 1] \o ss[i]
        OBVIOUS
      <3>1. h[i] = f[i] /\ f[i] = f[i - 1] \o ss[i]
        BY <1>5
      <3>2. CASE i = 1
        <4>1. f[i - 1] = << >> /\ ss[i] \in Seq(S)
          BY <1>1, <1>4, <3>2
        <4>2. << >> \o ss[i] = ss[i]
          BY <4>1
        <4> QED BY <3>1, <3>2, <4>1, <4>2, Zenon
      <3>3. CASE i # 1
        <4>1. i - 1 \in 1 .. n
          BY <1>1, <3>3
        <4>2. h[i - 1] = f[i - 1]
          BY <4>1
        <4> QED BY <3>1, <3>3, <4>2, Zenon
      <3> QED BY <3>2, <3>3
    <2>2. FlattenOf(h)
      BY <2>1
    <2> HIDE DEF h
    <2> DEFINE g == CHOOSE x : FlattenOf(x)
    <2>3. FlattenOf(g)
      BY <2>2
    <2>4. FlattenSeq(ss) = g[n]
      BY <1>7 DEF FlattenSeq
    <2> HIDE DEF g
    <2>5. \A i \in 1 .. n : g[i] = IF i = 1 THEN ss[i] ELSE g[i - 1] \o ss[i]
      BY <2>3
    <2> HIDE DEF FlattenOf
    <2> DEFINE P == {i \in 0 .. n : i = 0 \/ g[i] = f[i]}
    <2>6. 0 \in P
      BY <1>1
    <2>7. ASSUME NEW i \in 0 .. n - 1, i \in P PROVE i + 1 \in P
      <3>1. i + 1 \in 1 .. n /\ (i + 1) - 1 = i
        BY <1>1
      <3>2. f[i + 1] = f[i] \o ss[i + 1]
        BY <1>5, <3>1
      <3>3. CASE i = 0
        <4>1. i + 1 = 1 /\ f[i] = << >> /\ ss[i + 1] \in Seq(S)
          BY <1>1, <1>4, <3>1, <3>3
        <4>2. << >> \o ss[i + 1] = ss[i + 1]
          BY <4>1
        <4>3. f[i + 1] = ss[i + 1]
          BY <3>2, <4>1, <4>2, Zenon
        <4>4. g[i + 1] = ss[i + 1]
          BY <2>5, <3>1, <4>1, Zenon
        <4> QED BY <3>1, <4>3, <4>4
      <3>4. CASE i # 0
        <4>1. g[i] = f[i] /\ i + 1 # 1
          BY <2>7, <3>4
        <4>2. g[i + 1] = g[(i + 1) - 1] \o ss[i + 1]
          BY <2>5, <3>1, <4>1
        <4>3. g[i + 1] = f[i + 1]
          BY <3>1, <3>2, <4>1, <4>2, Zenon
        <4> QED BY <3>1, <4>3
      <3> QED BY <3>3, <3>4
    <2> HIDE DEF P
    <2>8. \A i \in 0 .. n - 1 : i \in P => i + 1 \in P
      BY <2>7
    <2>9. 0 .. n \subseteq P
      BY <1>1, <2>6, <2>8, Induction, Zenon
    <2>10. g[n] = f[n]
      BY <1>1, <1>7, <2>9 DEF P
    <2> QED BY <1>3, <2>4, <2>10
  <1> QED BY <1>6, <1>7

(* Nothing flattened is nothing.                                              *)
LEMMA FlattenEmpty == FlattenSeq(<< >>) = << >>
  BY DEF FlattenSeq

(* Sequences over one set make a sequence over that set.                      *)
LEMMA FlattenTyped ==
    ASSUME NEW S, NEW ss \in Seq(Seq(S))
    PROVE  FlattenSeq(ss) \in Seq(S)
  <1>1. PICK f : /\ Iterates(Seq(S), Len(ss), << >>, FlattenStep(S, ss), f)
                 /\ FlattenSeq(ss) = f[Len(ss)]
    BY FlattenIterates
  <1>2. Len(ss) \in 0 .. Len(ss)
    OBVIOUS
  <1> QED BY <1>1, <1>2 DEF Iterates

(* One more sequence is put behind the others.                                *)
LEMMA FlattenAppend ==
    ASSUME NEW S, NEW ss \in Seq(Seq(S)), NEW e \in Seq(S)
    PROVE  FlattenSeq(Append(ss, e)) = FlattenSeq(ss) \o e
  <1> DEFINE t == Append(ss, e)
             n == Len(ss)
  <1>1. t \in Seq(Seq(S)) /\ Len(t) = n + 1 /\ n \in Nat /\ t[n + 1] = e
        /\ \A i \in 1 .. n : t[i] = ss[i]
    OBVIOUS
  <1> HIDE DEF t
  <1>2. PICK f : /\ Iterates(Seq(S), n, << >>, FlattenStep(S, ss), f)
                 /\ FlattenSeq(ss) = f[n]
    BY FlattenIterates
  <1>3. PICK g : /\ Iterates(Seq(S), n + 1, << >>, FlattenStep(S, t), g)
                 /\ FlattenSeq(t) = g[n + 1]
    BY <1>1, FlattenIterates
  <1>4. \A x \in Seq(S), i \in 1 .. n :
          FlattenStep(S, ss)[<<x, i>>] = FlattenStep(S, t)[<<x, i>>]
    <2> SUFFICES ASSUME NEW x \in Seq(S), NEW i \in 1 .. n
                 PROVE  FlattenStep(S, ss)[<<x, i>>] = FlattenStep(S, t)[<<x, i>>]
      OBVIOUS
    <2>1. i \in 1 .. Len(ss) /\ i \in 1 .. Len(t) /\ t[i] = ss[i]
      BY <1>1
    <2>2. FlattenStep(S, ss)[<<x, i>>] = x \o ss[i] /\ FlattenStep(S, t)[<<x, i>>] = x \o t[i]
      BY <2>1 DEF FlattenStep
    <2> QED BY <2>1, <2>2
  <1>5. n \in 0 .. n + 1 /\ n + 1 \in Nat /\ n \in 0 .. (n + 1) - 1 /\ n + 1 \in 1 .. n + 1
    BY <1>1
  <1> HIDE DEF n
  <1>6. f[n] = g[n]
    BY <1>2, <1>3, <1>4, <1>5, IteratesAreOne
  <1>7. g[n + 1] = FlattenStep(S, t)[<<g[n], n + 1>>] /\ g[n] \in Seq(S)
    BY <1>3, <1>5 DEF Iterates
  <1>8. g[n + 1] = g[n] \o e
    BY <1>1, <1>5, <1>7 DEF FlattenStep
  <1> QED BY <1>2, <1>3, <1>6, <1>8, Zenon DEF t

(* The block, and the place in it, of each element of the flattened t: they   *)
(* are in their lexicographic order, and there are all of them.               *)
Blocks(ss, t, b, o) ==
    /\ b \in [1 .. Len(t) -> 1 .. Len(ss)]
    /\ \A i \in 1 .. Len(t) : o[i] \in 1 .. Len(ss[b[i]]) /\ t[i] = ss[b[i]][o[i]]
    /\ \A i, j \in 1 .. Len(t) : i < j => b[i] < b[j] \/ (b[i] = b[j] /\ o[i] < o[j])
    /\ \A q \in 1 .. Len(ss) : \A r \in 1 .. Len(ss[q]) :
         \E i \in 1 .. Len(t) : b[i] = q /\ o[i] = r

(* Every place of the flattened sequence is a place of a block.               *)
LEMMA FlattenBlocks ==
    ASSUME NEW S, NEW ss \in Seq(Seq(S))
    PROVE  \E b, o : Blocks(ss, FlattenSeq(ss), b, o)
  <1> DEFINE P == {t \in Seq(Seq(S)) : \E b, o : Blocks(t, FlattenSeq(t), b, o)}
  <1>1. << >> \in P
    <2> DEFINE b == [i \in 1 .. 0 |-> 0]
    <2>1. Blocks(<< >>, << >>, b, b)
      BY DEF Blocks
    <2>2. << >> \in Seq(Seq(S))
      OBVIOUS
    <2> HIDE DEF b
    <2> QED BY <2>1, <2>2, FlattenEmpty
  <1>2. ASSUME NEW t \in Seq(Seq(S)), NEW e \in Seq(S), t \in P
        PROVE  \E b, o : Blocks(Append(t, e), FlattenSeq(Append(t, e)), b, o)
    <2> DEFINE u == Append(t, e)
               n == Len(t)
               k == FlattenSeq(t)
               m == Len(k)
               l == Len(e)
               w == k \o e
    <2>1. /\ u \in Seq(Seq(S)) /\ Len(u) = n + 1 /\ u[n + 1] = e /\ n \in Nat
          /\ \A i \in 1 .. n : u[i] = t[i]
      OBVIOUS
    <2>2. k \in Seq(S) /\ m \in Nat /\ l \in Nat
      BY FlattenTyped
    <2>3. PICK b, o : Blocks(t, k, b, o)
      BY <1>2
    <2>4. FlattenSeq(u) = w
      BY FlattenAppend
    <2> HIDE DEF u, k
    <2>5. /\ Len(w) = m + l
          /\ \A i \in 1 .. m : w[i] = k[i]
          /\ \A i \in 1 .. l : w[m + i] = e[i]
      BY <2>2
    <2>6. /\ \A i \in 1 .. m : b[i] \in 1 .. n /\ o[i] \in 1 .. Len(t[b[i]])
                               /\ k[i] = t[b[i]][o[i]]
          /\ \A i, j \in 1 .. m : i < j => b[i] < b[j] \/ (b[i] = b[j] /\ o[i] < o[j])
          /\ \A q \in 1 .. n : \A r \in 1 .. Len(t[q]) :
               \E i \in 1 .. m : b[i] = q /\ o[i] = r
      BY <2>3 DEF Blocks
    <2> HIDE DEF m, n, l, w
    <2> DEFINE c == [i \in 1 .. m + l |-> IF i <= m THEN b[i] ELSE n + 1]
               p == [i \in 1 .. m + l |-> IF i <= m THEN o[i] ELSE i - m]
    <2>7. /\ \A i \in 1 .. m : c[i] = b[i] /\ p[i] = o[i] /\ i \in 1 .. m + l
          /\ \A i \in m + 1 .. m + l : c[i] = n + 1 /\ p[i] = i - m
      BY <2>2
    <2>8. c \in [1 .. m + l -> 1 .. n + 1]
      BY <2>1, <2>2, <2>6
    <2> HIDE DEF c, p
    <2>9. ASSUME NEW i \in 1 .. m + l
          PROVE  p[i] \in 1 .. Len(u[c[i]]) /\ w[i] = u[c[i]][p[i]]
      <3>1. CASE i \in 1 .. m
        <4>1. c[i] = b[i] /\ p[i] = o[i] /\ w[i] = k[i]
          BY <2>5, <2>7, <3>1
        <4>2. b[i] \in 1 .. n /\ o[i] \in 1 .. Len(t[b[i]]) /\ k[i] = t[b[i]][o[i]]
          BY <2>6, <3>1
        <4>3. u[b[i]] = t[b[i]]
          BY <2>1, <4>2
        <4> QED BY <4>1, <4>2, <4>3
      <3>2. CASE i \in m + 1 .. m + l
        <4>1. i - m \in 1 .. l /\ m + (i - m) = i
          BY <2>2, <3>2
        <4>2. w[i] = e[i - m]
          BY <2>5, <4>1
        <4> QED BY <2>1, <2>7, <3>2, <4>1, <4>2 DEF l
      <3> QED BY <2>2, <3>1, <3>2
    <2>10. ASSUME NEW i \in 1 .. m + l, NEW j \in 1 .. m + l, i < j
           PROVE  c[i] < c[j] \/ (c[i] = c[j] /\ p[i] < p[j])
      <3>1. CASE j \in 1 .. m
        <4>1. i \in 1 .. m
          BY <2>2, <2>10, <3>1
        <4> QED BY <2>6, <2>7, <2>10, <3>1, <4>1
      <3>2. CASE j \in m + 1 .. m + l
        <4>1. CASE i \in 1 .. m
          <5>1. c[i] = b[i] /\ b[i] \in 1 .. n /\ c[j] = n + 1
            BY <2>6, <2>7, <3>2, <4>1
          <5> QED BY <2>1, <5>1
        <4>2. CASE i \in m + 1 .. m + l
          BY <2>2, <2>7, <2>10, <3>2, <4>2
        <4> QED BY <2>2, <4>1, <4>2
      <3> QED BY <2>2, <3>1, <3>2
    <2>11. ASSUME NEW q \in 1 .. n + 1, NEW r \in 1 .. Len(u[q])
           PROVE  \E i \in 1 .. m + l : c[i] = q /\ p[i] = r
      <3>1. CASE q = n + 1
        <4>1. r \in 1 .. l
          BY <2>1, <3>1 DEF l
        <4>2. m + r \in m + 1 .. m + l /\ m + r \in 1 .. m + l /\ (m + r) - m = r
          BY <2>2, <4>1
        <4> QED BY <2>7, <3>1, <4>2
      <3>2. CASE q \in 1 .. n
        <4>1. r \in 1 .. Len(t[q])
          BY <2>1, <3>2
        <4>2. PICK i \in 1 .. m : b[i] = q /\ o[i] = r
          BY <2>6, <3>2, <4>1
        <4> QED BY <2>7, <4>2
      <3> QED BY <2>1, <3>1, <3>2
    <2>12. Blocks(u, w, c, p)
      BY <2>1, <2>5, <2>8, <2>9, <2>10, <2>11 DEF Blocks
    <2> QED BY <2>4, <2>12 DEF u
  <1>3. \A t \in Seq(Seq(S)), e \in Seq(S) : t \in P => Append(t, e) \in P
    <2> SUFFICES ASSUME NEW t \in Seq(Seq(S)), NEW e \in Seq(S), t \in P
                 PROVE  Append(t, e) \in P
      OBVIOUS
    <2>1. \E b, o : Blocks(Append(t, e), FlattenSeq(Append(t, e)), b, o)
      BY <1>2
    <2>2. Append(t, e) \in Seq(Seq(S))
      OBVIOUS
    <2> QED BY <2>1, <2>2
  <1> HIDE DEF P
  <1>4. ss \in P
    BY <1>1, <1>3, SeqInduction
  <1> QED BY <1>4 DEF P

-----------------------------------------------------------------------------
(* Sequences as orders of their elements: none is repeated, and x is in s     *)
(* before y.                                                                  *)
Distinct(s) == \A i, j \in DOMAIN s : s[i] = s[j] => i = j

Before(s, x, y) == \E i, j \in DOMAIN s : i < j /\ s[i] = x /\ s[j] = y

(* What is in a sequence has a place in it.                                   *)
LEMMA RangeIs ==
    ASSUME NEW S, NEW s \in Seq(S)
    PROVE  /\ DOMAIN s = 1 .. Len(s) /\ Len(s) \in Nat
           /\ Range(s) \subseteq S
           /\ \A x : x \in Range(s) <=> \E i \in 1 .. Len(s) : s[i] = x
           /\ \A i \in 1 .. Len(s) : s[i] \in Range(s) /\ s[i] \in S
  BY DEF Range

(* Only keeps what it keeps in its order.                                     *)
LEMMA OnlyOrder ==
    ASSUME NEW S, NEW s \in Seq(S), NEW T
    PROVE  /\ Only(s, T) \in Seq(S)
           /\ Range(Only(s, T)) = Range(s) \cap T
           /\ Distinct(s) => Distinct(Only(s, T))
           /\ \A x, y : Before(Only(s, T), x, y) => Before(s, x, y)
  <1> DEFINE t == Only(s, T)
  <1>1. t \in Seq(S)
    BY OnlyTyped
  <1>2. PICK p : Places(s, t, T, p)
    BY OnlyPlaces
  <1> HIDE DEF t
  <1>3. /\ p \in [1 .. Len(t) -> 1 .. Len(s)]
        /\ \A i \in 1 .. Len(t) : t[i] = s[p[i]] /\ t[i] \in T /\ p[i] \in 1 .. Len(s)
        /\ \A i, j \in 1 .. Len(t) : i < j => p[i] < p[j]
        /\ \A q \in 1 .. Len(s) : s[q] \in T => \E i \in 1 .. Len(t) : p[i] = q
    BY <1>2 DEF Places
  <1>4. /\ DOMAIN s = 1 .. Len(s) /\ DOMAIN t = 1 .. Len(t)
        /\ Len(s) \in Nat /\ Len(t) \in Nat
    BY <1>1
  <1>5. Range(t) = Range(s) \cap T
    <2>1. ASSUME NEW x \in Range(t) PROVE x \in Range(s) \cap T
      BY <1>3, <1>4 DEF Range
    <2>2. ASSUME NEW x \in Range(s), x \in T PROVE x \in Range(t)
      <3>1. PICK q \in 1 .. Len(s) : s[q] = x
        BY <1>4 DEF Range
      <3>2. PICK i \in 1 .. Len(t) : p[i] = q
        BY <1>3, <2>2, <3>1
      <3> QED BY <1>3, <1>4, <3>1, <3>2 DEF Range
    <2> QED BY <2>1, <2>2
  <1>6. ASSUME Distinct(s) PROVE Distinct(t)
    <2> SUFFICES ASSUME NEW i \in 1 .. Len(t), NEW j \in 1 .. Len(t), t[i] = t[j]
                 PROVE  i = j
      BY <1>4 DEF Distinct
    <2>1. p[i] = p[j]
      BY <1>3, <1>4, <1>6 DEF Distinct
    <2>2. ~(p[i] < p[j]) /\ ~(p[j] < p[i])
      BY <1>3, <2>1
    <2> QED BY <1>3, <1>4, <2>2
  <1>7. ASSUME NEW x, NEW y, Before(t, x, y) PROVE Before(s, x, y)
    <2>1. PICK i \in 1 .. Len(t), j \in 1 .. Len(t) : i < j /\ t[i] = x /\ t[j] = y
      BY <1>4, <1>7 DEF Before
    <2>2. p[i] \in 1 .. Len(s) /\ p[j] \in 1 .. Len(s) /\ p[i] < p[j]
          /\ s[p[i]] = x /\ s[p[j]] = y
      BY <1>3, <2>1
    <2> QED BY <1>4, <2>2 DEF Before
  <1> QED BY <1>1, <1>5, <1>6, <1>7 DEF t

(* Two sequences one behind the other.                                        *)
LEMMA ConcatOrder ==
    ASSUME NEW S, NEW s \in Seq(S), NEW t \in Seq(S)
    PROVE  /\ s \o t \in Seq(S)
           /\ Range(s \o t) = Range(s) \cup Range(t)
           /\ Distinct(s) /\ Distinct(t) /\ Range(s) \cap Range(t) = {} => Distinct(s \o t)
           /\ \A x, y : Before(s \o t, x, y) =>
                \/ Before(s, x, y) \/ Before(t, x, y)
                \/ x \in Range(s) /\ y \in Range(t)
  <1> DEFINE u == s \o t
             m == Len(s)
             n == Len(t)
  <1>1. /\ u \in Seq(S) /\ Len(u) = m + n /\ m \in Nat /\ n \in Nat
        /\ \A i \in 1 .. m : u[i] = s[i]
        /\ \A i \in 1 .. n : u[m + i] = t[i]
        /\ DOMAIN u = 1 .. m + n /\ DOMAIN s = 1 .. m /\ DOMAIN t = 1 .. n
    OBVIOUS
  <1> HIDE DEF u, m, n
  <1>2. ASSUME NEW i \in 1 .. m + n
        PROVE  \/ i \in 1 .. m /\ u[i] = s[i] /\ u[i] \in Range(s)
               \/ /\ i > m /\ i - m \in 1 .. n
                  /\ u[i] = t[i - m] /\ u[i] \in Range(t)
    <2>1. CASE i <= m
      <3>1. i \in 1 .. m
        BY <1>1, <2>1
      <3> QED BY <1>1, <3>1 DEF Range
    <2>2. CASE i > m
      <3>1. i - m \in 1 .. n /\ m + (i - m) = i
        BY <1>1, <2>2
      <3>2. u[i] = t[i - m]
        BY <1>1, <3>1
      <3> QED BY <1>1, <2>2, <3>1, <3>2 DEF Range
    <2> QED BY <1>1, <2>1, <2>2
  <1>3. Range(u) = Range(s) \cup Range(t)
    <2>1. ASSUME NEW x \in Range(u) PROVE x \in Range(s) \cup Range(t)
      BY <1>1, <1>2 DEF Range
    <2>2. ASSUME NEW x \in Range(s) PROVE x \in Range(u)
      <3>1. PICK i \in 1 .. m : s[i] = x
        BY <1>1 DEF Range
      <3>2. i \in 1 .. m + n
        BY <1>1
      <3> QED BY <1>1, <3>1, <3>2 DEF Range
    <2>3. ASSUME NEW x \in Range(t) PROVE x \in Range(u)
      <3>1. PICK i \in 1 .. n : t[i] = x
        BY <1>1 DEF Range
      <3>2. m + i \in 1 .. m + n
        BY <1>1
      <3> QED BY <1>1, <3>1, <3>2 DEF Range
    <2> QED BY <2>1, <2>2, <2>3
  <1>4. ASSUME Distinct(s), Distinct(t), Range(s) \cap Range(t) = {}
        PROVE  Distinct(u)
    <2> SUFFICES ASSUME NEW i \in 1 .. m + n, NEW j \in 1 .. m + n, u[i] = u[j]
                 PROVE  i = j
      BY <1>1 DEF Distinct
    <2>1. CASE i \in 1 .. m /\ u[i] = s[i] /\ u[i] \in Range(s)
      <3>1. j \in 1 .. m /\ u[j] = s[j]
        BY <1>2, <1>4, <2>1
      <3> QED BY <1>1, <1>4, <2>1, <3>1 DEF Distinct
    <2>2. CASE i > m /\ i - m \in 1 .. n /\ u[i] = t[i - m] /\ u[i] \in Range(t)
      <3>1. j > m /\ j - m \in 1 .. n /\ u[j] = t[j - m]
        BY <1>2, <1>4, <2>2
      <3>2. i - m = j - m
        BY <1>1, <1>4, <2>2, <3>1 DEF Distinct
      <3> QED BY <1>1, <3>2
    <2> QED BY <1>2, <2>1, <2>2
  <1>5. ASSUME NEW x, NEW y, Before(u, x, y)
        PROVE  \/ Before(s, x, y) \/ Before(t, x, y)
               \/ x \in Range(s) /\ y \in Range(t)
    <2>1. PICK i \in 1 .. m + n, j \in 1 .. m + n : i < j /\ u[i] = x /\ u[j] = y
      BY <1>1, <1>5 DEF Before
    <2>2. CASE i \in 1 .. m /\ j \in 1 .. m
      BY <1>1, <2>1, <2>2 DEF Before
    <2>3. CASE i > m /\ j > m
      <3>1. /\ i - m \in 1 .. n /\ j - m \in 1 .. n /\ i - m < j - m
            /\ t[i - m] = x /\ t[j - m] = y
        BY <1>1, <1>2, <2>1, <2>3
      <3> QED BY <1>1, <3>1 DEF Before
    <2>4. CASE i \in 1 .. m /\ j > m
      BY <1>1, <1>2, <2>1, <2>4
    <2> QED BY <1>1, <2>1, <2>2, <2>3, <2>4
  <1> QED BY <1>1, <1>3, <1>4, <1>5 DEF u

(* What SetToSeqs makes of a finite set is an order of its elements.          *)
LEMMA SetToSeqsIs ==
    ASSUME NEW R, IsFiniteSet(R), NEW t \in SetToSeqs(R)
    PROVE  t \in Seq(R) /\ Range(t) = R /\ Distinct(t)
  <1> DEFINE n == Cardinality(R)
  <1>1. /\ t \in [1 .. n -> R]
        /\ \A i, j \in 1 .. n : i # j => t[i] # t[j]
    BY DEF SetToSeqs
  <1>2. n \in Nat
    BY FS_CardinalityType
  <1>3. t \in Injection(1 .. n, R)
    BY <1>1 DEF Injection, IsInjective
  <1>4. Cardinality(1 .. n) = n
    BY <1>2, FS_Interval
  <1>5. t \in Surjection(1 .. n, R)
    BY <1>2, <1>3, <1>4, FS_Injection
  <1>6. Range(t) = R
    BY <1>1, <1>5 DEF Surjection, Range
  <1>7. Distinct(t)
    BY <1>1 DEF Distinct
  <1> HIDE DEF n
  <1>8. t \in Seq(R)
    BY <1>1, <1>2
  <1> QED BY <1>6, <1>7, <1>8

(* Of the elements of a sequence, another order of them.                      *)
LEMMA SetToSeqsOrder ==
    ASSUME NEW S, NEW s \in Seq(S), NEW t \in SetToSeqs(Range(s))
    PROVE  t \in Seq(S) /\ Range(t) = Range(s) /\ Distinct(t)
  <1> DEFINE R == Range(s)
  <1>1. IsFiniteSet(R)
    <2>1. s \in Surjection(1 .. Len(s), R)
      BY RangeIs DEF Surjection
    <2>2. IsFiniteSet(1 .. Len(s))
      BY FS_Interval
    <2> QED BY <2>1, <2>2, FS_Surjection
  <1>2. R \subseteq S
    BY RangeIs
  <1> HIDE DEF R
  <1>3. t \in Seq(R) /\ Range(t) = R /\ Distinct(t)
    BY <1>1, SetToSeqsIs DEF R
  <1>4. t \in Seq(S)
    BY <1>2, <1>3
  <1> QED BY <1>3, <1>4 DEF R

(* Max is the greatest of the numbers of a sequence and zero.                 *)
LEMMA MaxOfSeq ==
    ASSUME NEW s \in Seq(Nat)
    PROVE  /\ Max({0} \cup Range(s)) \in Nat
           /\ \A i \in 1 .. Len(s) : s[i] <= Max({0} \cup Range(s))
  <1> DEFINE P == {t \in Seq(Nat) : \E x \in {0} \cup Range(t) :
                                      \A y \in {0} \cup Range(t) : x >= y}
  <1>1. << >> \in P
    BY DEF Range
  <1>2. ASSUME NEW t \in Seq(Nat), NEW e \in Nat, t \in P PROVE Append(t, e) \in P
    <2>1. Append(t, e) \in Seq(Nat) /\ Range(Append(t, e)) = Range(t) \cup {e}
      <3> DEFINE u == Append(t, e)
      <3>1. /\ u \in Seq(Nat) /\ Len(u) = Len(t) + 1 /\ u[Len(t) + 1] = e /\ Len(t) \in Nat
            /\ \A i \in 1 .. Len(t) : u[i] = t[i]
            /\ DOMAIN u = 1 .. Len(t) + 1 /\ DOMAIN t = 1 .. Len(t)
        OBVIOUS
      <3> HIDE DEF u
      <3>2. \A i : i \in 1 .. Len(t) + 1 <=> i \in 1 .. Len(t) \/ i = Len(t) + 1
        BY <3>1
      <3>3. Range(u) = Range(t) \cup {e}
        BY <3>1, <3>2 DEF Range
      <3> QED BY <3>1, <3>3 DEF u
    <2>2. Range(t) \subseteq Nat
      BY RangeIs
    <2>3. PICK x \in {0} \cup Range(t) : \A y \in {0} \cup Range(t) : x >= y
      BY <1>2
    <2>4. \E z \in {x, e} : z >= x /\ z >= e
      BY <2>2
    <2> QED BY <2>1, <2>2, <2>3, <2>4
  <1>3. \A t \in Seq(Nat), e \in Nat : t \in P => Append(t, e) \in P
    BY <1>2
  <1> HIDE DEF P
  <1>4. s \in P
    BY <1>1, <1>3, SeqInduction
  <1> DEFINE R == {0} \cup Range(s)
  <1>5. R \subseteq Nat /\ \A i \in 1 .. Len(s) : s[i] \in R
    BY RangeIs
  <1>6. Max(R) \in R /\ \A y \in R : Max(R) >= y
    BY <1>4 DEF P, Max
  <1> HIDE DEF R
  <1>7. Max(R) \in Nat /\ \A i \in 1 .. Len(s) : s[i] <= Max(R)
    BY <1>5, <1>6
  <1> QED BY <1>7 DEF R
=============================================================================
