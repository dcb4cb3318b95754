----------------------------- MODULE FoldProofs -----------------------------
(***************************************************************************)
(* Facts about the folds of the community modules and about induction, for *)
(* an operator that the module which instantiates this one supplies.  The  *)
(* loops of the code are folds over lists in the models; a module that     *)
(* proves something about such a loop makes an instance with its body.     *)
(***************************************************************************)
EXTENDS Integers, Sequences, SequencesExt, FiniteSetTheorems, NaturalsInduction, TLAPS

CONSTANTS Op(_, _),        \* the body of a loop: state and element to state
          Good(_)          \* what is claimed of a state, or of a number

(* A set of natural numbers has a least element.                           *)
LEMMA LeastExists ==
  ASSUME NEW N \in SUBSET Nat, N # {}
  PROVE  \E m \in N : \A k \in N : ~(k < m)
  <1>1. PICK m \in N : \A k \in N : ~(<<k, m>> \in OpToRel(<, Nat))
    BY NatLessThanWellFounded, WFMin
  <1> QED BY <1>1 DEF OpToRel

(* Induction over the natural numbers: the least counterexample.           *)
LEMMA Induction ==
  ASSUME Good(0), \A k \in Nat : Good(k) => Good(k + 1)
  PROVE  \A k \in Nat : Good(k)
  <1> DEFINE bad == {k \in Nat : ~Good(k)}
  <1>1. SUFFICES ASSUME bad # {} PROVE FALSE
    OBVIOUS
  <1>2. PICK m \in bad : \A k \in bad : ~(k < m)
    BY <1>1, LeastExists
  <1>3. m \in Nat /\ ~Good(m) /\ \A k \in bad : ~(k < m)
    BY <1>2
  <1>4. m # 0
    BY <1>3
  <1>5. m - 1 \in Nat /\ m - 1 < m /\ (m - 1) + 1 = m
    BY <1>3, <1>4
  <1>6. Good(m - 1)
    BY <1>3, <1>5
  <1> QED BY <1>3, <1>5, <1>6

Folded(base, seq) == FoldLeft(Op, base, seq)

(* The function that the fold is defined by, for the first k elements.     *)
Iterates(g, base, seq, D) ==
  g = [s \in SUBSET D |-> IF s = {} THEN base ELSE Op(g[s \ {Max(s)}], seq[Max(s)])]

LEMMA FoldedDef ==
  ASSUME NEW base, NEW seq
  PROVE  Folded(base, seq) = (CHOOSE g : Iterates(g, base, seq, DOMAIN seq))[DOMAIN seq]
  BY DEF Folded, FoldLeft, MapThenFoldSet, Iterates

LEMMA MaxOfRange ==
  ASSUME NEW k \in Nat, NEW s \in SUBSET (1 .. k + 1), k + 1 \in s
  PROVE  Max(s) = k + 1
  <1>1. k + 1 \in s /\ \A y \in s : k + 1 >= y
    OBVIOUS
  <1>2. Max(s) \in s /\ \A y \in s : Max(s) >= y
    BY <1>1 DEF Max
  <1>3. PICK x \in 1 .. k + 1 : x = Max(s)
    BY <1>2
  <1>4. x >= k + 1
    BY <1>1, <1>2, <1>3
  <1> QED BY <1>3, <1>4

(* Such a function exists, however long the list is.                       *)
LEMMA IteratesExist ==
  ASSUME NEW base, NEW seq, NEW n \in Nat
  PROVE  \E g : Iterates(g, base, seq, 1 .. n)
  <1> DEFINE bad == {k \in Nat : ~\E g : Iterates(g, base, seq, 1 .. k)}
  <1>1. SUFFICES ASSUME bad # {} PROVE FALSE
    OBVIOUS
  <1>2. PICK m \in bad : \A k \in bad : ~(k < m)
    BY <1>1, LeastExists
  <1>3. m \in Nat /\ (~\E g : Iterates(g, base, seq, 1 .. m)) /\ \A k \in bad : ~(k < m)
    BY <1>2
  <1>4. m # 0
    <2>1. Iterates([s \in SUBSET (1 .. 0) |-> base], base, seq, 1 .. 0)
      <3>1. 1 .. 0 = {}
        OBVIOUS
      <3> QED BY <3>1 DEF Iterates
    <2> QED BY <1>3, <2>1
  <1>5. PICK k \in Nat : k + 1 = m
    <2>1. m - 1 \in Nat /\ (m - 1) + 1 = m
      BY <1>3, <1>4
    <2> QED BY <2>1
  <1>6. PICK g : Iterates(g, base, seq, 1 .. k)
    BY <1>3, <1>5
  <1> DEFINE h == [s \in SUBSET (1 .. k + 1) |->
                     IF s \subseteq 1 .. k THEN g[s] ELSE Op(g[s \ {k + 1}], seq[k + 1])]
  <1>7. ASSUME NEW s \in SUBSET (1 .. k + 1)
        PROVE  h[s] = IF s = {} THEN base ELSE Op(h[s \ {Max(s)}], seq[Max(s)])
    <2>1. CASE s \subseteq 1 .. k
      <3>1. g[s] = IF s = {} THEN base ELSE Op(g[s \ {Max(s)}], seq[Max(s)])
        BY <1>6, <2>1 DEF Iterates
      <3>2. h[s] = g[s] /\ h[s \ {Max(s)}] = g[s \ {Max(s)}]
        BY <2>1
      <3> QED BY <3>1, <3>2
    <2>2. CASE ~(s \subseteq 1 .. k)
      <3>1. k + 1 \in s /\ s \ {k + 1} \subseteq 1 .. k /\ s # {}
        BY <2>2
      <3>2. Max(s) = k + 1
        BY <3>1, MaxOfRange
      <3>3. h[s] = Op(g[s \ {k + 1}], seq[k + 1])
        BY <2>2
      <3>4. h[s \ {k + 1}] = g[s \ {k + 1}]
        BY <3>1
      <3> QED BY <3>1, <3>2, <3>3, <3>4
    <2> QED BY <2>1, <2>2
  <1>8. Iterates(h, base, seq, 1 .. k + 1)
    <2> HIDE DEF Max
    <2>1. h = [s \in SUBSET (1 .. k + 1) |-> h[s]]
      OBVIOUS
    <2> HIDE DEF h
    <2> QED BY <1>7, <2>1 DEF Iterates
  <1> QED BY <1>3, <1>5, <1>8

(* The states of a loop: the first is the base, each is what the body      *)
(* makes of the one before and of the next element, the last is the fold.  *)
Passes(h, base, seq) ==
  /\ h[0] = base
  /\ \A j \in Nat : j < Len(seq) => h[j + 1] = Op(h[j], seq[j + 1])

LEMMA FoldedPasses ==
  ASSUME NEW base, NEW S, NEW seq \in Seq(S)
  PROVE  \E h : Passes(h, base, seq) /\ Folded(base, seq) = h[Len(seq)]
  <1>1. Len(seq) \in Nat /\ DOMAIN seq = 1 .. Len(seq)
    OBVIOUS
  <1> DEFINE n == Len(seq)
             g == CHOOSE g : Iterates(g, base, seq, 1 .. n)
             h == [j \in 0 .. n |-> g[1 .. j]]
  <1>2. Iterates(g, base, seq, 1 .. n)
    BY <1>1, IteratesExist
  <1>3. Folded(base, seq) = g[1 .. n]
    BY <1>1, FoldedDef
  <1> HIDE DEF g
  <1>4. h[0] = base
    <2>1. 1 .. 0 = {} /\ {} \in SUBSET (1 .. n) /\ 0 \in 0 .. n
      BY <1>1
    <2> QED BY <1>2, <2>1 DEF Iterates
  <1>5. ASSUME NEW j \in Nat, j < n
        PROVE  h[j + 1] = Op(h[j], seq[j + 1])
    <2>1. 1 .. j + 1 \in SUBSET (1 .. n) /\ 1 .. j + 1 # {} /\ j \in 0 .. n /\ j + 1 \in 0 .. n
      <3> HIDE DEF n
      <3>1. n \in Nat /\ j \in Nat /\ j < n
        BY <1>1, <1>5 DEF n
      <3>2. j + 1 \in 1 .. j + 1
        BY <3>1
      <3>3. j \in 0 .. n /\ j + 1 \in 0 .. n
        BY <3>1
      <3>4. \A x \in 1 .. j + 1 : x \in 1 .. n
        BY <3>1
      <3> QED BY <3>2, <3>3, <3>4
    <2>2. Max(1 .. j + 1) = j + 1
      BY MaxOfRange
    <2>3. (1 .. j + 1) \ {j + 1} = 1 .. j
      OBVIOUS
    <2>4. g[1 .. j + 1] = Op(g[1 .. j], seq[j + 1])
      BY <1>2, <2>1, <2>2, <2>3 DEF Iterates
    <2> QED BY <2>1, <2>4
  <1>6. n \in 0 .. n /\ h[n] = g[1 .. n]
    BY <1>1
  <1>7. Passes(h, base, seq)
    <2> HIDE DEF h
    <2> QED BY <1>4, <1>5 DEF Passes
  <1> QED BY <1>3, <1>6, <1>7

(* An invariant of the body of a loop holds at its end.                    *)
LEMMA FoldKeeps ==
  ASSUME NEW base, NEW S, NEW seq \in Seq(S), Good(base),
         \A x : \A e \in S : Good(x) => Good(Op(x, e))
  PROVE  Good(Folded(base, seq))
  <1>1. PICK h : Passes(h, base, seq) /\ Folded(base, seq) = h[Len(seq)]
    BY FoldedPasses
  <1> DEFINE bad == {k \in Nat : k <= Len(seq) /\ ~Good(h[k])}
  <1>2. SUFFICES ASSUME bad # {} PROVE FALSE
    BY <1>1
  <1>3. PICK m \in bad : \A k \in bad : ~(k < m)
    BY <1>2, LeastExists
  <1>4. m \in Nat /\ m <= Len(seq) /\ ~Good(h[m]) /\ \A k \in bad : ~(k < m)
    BY <1>3
  <1>5. m # 0
    BY <1>1, <1>4 DEF Passes
  <1>6. PICK k \in Nat : k + 1 = m
    <2>1. m - 1 \in Nat /\ (m - 1) + 1 = m
      BY <1>4, <1>5
    <2> QED BY <2>1
  <1>7. k < Len(seq) /\ Good(h[k])
    BY <1>4, <1>6
  <1>8. seq[k + 1] \in S /\ h[m] = Op(h[k], seq[k + 1])
    BY <1>1, <1>6, <1>7 DEF Passes
  <1> QED BY <1>4, <1>7, <1>8

LEMMA FoldOfNothing ==
  ASSUME NEW base
  PROVE  Folded(base, << >>) = base
  <1>1. << >> \in Seq({}) /\ Len(<< >>) = 0
    OBVIOUS
  <1> QED BY <1>1, FoldedPasses DEF Passes

(* One more element is one more pass.                                      *)
LEMMA FoldOfAppend ==
  ASSUME NEW base, NEW S, NEW seq \in Seq(S), NEW e \in S
  PROVE  Folded(base, Append(seq, e)) = Op(Folded(base, seq), e)
  <1>1. PICK h : Passes(h, base, seq) /\ Folded(base, seq) = h[Len(seq)]
    BY FoldedPasses
  <1> DEFINE longer == Append(seq, e)
  <1>2. longer \in Seq(S) /\ Len(longer) = Len(seq) + 1 /\ longer[Len(seq) + 1] = e
        /\ \A j \in 1 .. Len(seq) : longer[j] = seq[j]
    OBVIOUS
  <1>3. PICK f : Passes(f, base, longer) /\ Folded(base, longer) = f[Len(longer)]
    BY <1>2, FoldedPasses
  <1> DEFINE bad == {k \in Nat : k <= Len(seq) /\ h[k] # f[k]}
  <1>4. bad = {}
    <2>1. SUFFICES ASSUME bad # {} PROVE FALSE
      OBVIOUS
    <2>2. PICK m \in bad : \A k \in bad : ~(k < m)
      BY <2>1, LeastExists
    <2>3. m \in Nat /\ m <= Len(seq) /\ h[m] # f[m] /\ \A k \in bad : ~(k < m)
      BY <2>2
    <2>4. m # 0
      BY <1>1, <1>3, <2>3 DEF Passes
    <2>5. PICK k \in Nat : k + 1 = m
      <3>1. m - 1 \in Nat /\ (m - 1) + 1 = m
        BY <2>3, <2>4
      <3> QED BY <3>1
    <2>6. k < Len(seq) /\ k < Len(longer) /\ h[k] = f[k]
      BY <1>2, <2>3, <2>5
    <2>7. longer[k + 1] = seq[k + 1]
      BY <1>2, <2>6
    <2> HIDE DEF longer
    <2>8. h[m] = Op(h[k], seq[k + 1]) /\ f[m] = Op(f[k], longer[k + 1])
      BY <1>1, <1>3, <2>5, <2>6 DEF Passes
    <2> QED BY <2>3, <2>6, <2>7, <2>8
  <1>5. Len(seq) \in Nat /\ h[Len(seq)] = f[Len(seq)]
    BY <1>4
  <1>6. Len(seq) < Len(longer)
    BY <1>2
  <1> HIDE DEF longer
  <1>7. f[Len(seq) + 1] = Op(f[Len(seq)], longer[Len(seq) + 1])
    BY <1>3, <1>5, <1>6 DEF Passes
  <1> QED BY <1>1, <1>2, <1>3, <1>5, <1>7 DEF longer
=============================================================================
