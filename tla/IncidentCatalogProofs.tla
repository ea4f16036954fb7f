----------------------- MODULE IncidentCatalogProofs -----------------------
(***************************************************************************)
(* What _to_alpha computes, for every number and any size of the alphabet  *)
(* (sync_incident_catalog.py:77-83): that its definition has a solution,   *)
(* that a name is a sequence of letters, and that no two numbers from 1 on *)
(* have the same name.  The induction is over sets of naturals: a set of them that  *)
(* is not empty has a least element.                                       *)
(***************************************************************************)
EXTENDS IncidentCatalog, WellFoundedInduction, SequenceTheorems, TLAPS

-----------------------------------------------------------------------------
(* Naturals.                                                               *)

LEMMA LeastNatural ==
  ASSUME NEW T \in SUBSET Nat, T # {}
  PROVE  \E n \in T : \A m \in T : n <= m
<1>1. PICK n \in T : \A m \in T : ~(<<m, n>> \in OpToRel(<, Nat))
  BY NatLessThanWellFounded, WFMin
<1>2. \A m \in T : ~(m < n)
  BY <1>1 DEF OpToRel
<1> QED
  BY <1>2

LEMMA SetInduction ==
  ASSUME NEW S \in SUBSET Nat, 0 \in S, \A n \in S : n + 1 \in S
  PROVE  S = Nat
<1> SUFFICES ASSUME Nat \ S # {} PROVE FALSE
  OBVIOUS
<1>1. PICK n \in Nat \ S : \A m \in Nat \ S : n <= m
  BY LeastNatural
<1>2. n - 1 \in Nat /\ n - 1 \notin Nat \ S
  BY <1>1
<1> QED
  BY <1>1, <1>2

\* The digit and the rest of a number.
LEMMA DivFacts ==
  ASSUME NEW m \in Nat
  PROVE  /\ m \div Letters \in 0 .. m
         /\ m % Letters \in 0 .. Letters - 1
         /\ m = Letters * (m \div Letters) + (m % Letters)
<1>1. Letters \in Nat /\ Letters > 0
  BY CatalogAssumption
<1>2. m % Letters \in 0 .. Letters - 1 /\ m \div Letters \in Int
  BY <1>1
<1>3. m = Letters * (m \div Letters) + (m % Letters)
  BY <1>1
<1>4. m \div Letters \in 0 .. m
  BY <1>1
<1> QED
  BY <1>2, <1>3, <1>4

-----------------------------------------------------------------------------
(* The definition has a solution.                                          *)

Letter == 0 .. Letters - 1

\* divmod(value - 1, 26).
Rest(n) == (n - 1) \div Letters

Last(n) == (n - 1) % Letters

\* The name of n, by the names of smaller numbers.
Spelled(f, n) == IF n = 0 THEN <<>> ELSE Append(f[Rest(n)], Last(n))

\* The name of n needs smaller numbers only.
LEMMA RestIsSmaller ==
  ASSUME NEW n \in Nat, n # 0
  PROVE  /\ Rest(n) \in 0 .. n - 1
         /\ Last(n) \in Letter
         /\ n = Letters * Rest(n) + Last(n) + 1
<1>1. n - 1 \in Nat
  OBVIOUS
<1>2. /\ Rest(n) \in 0 .. n - 1
      /\ Last(n) \in Letter
      /\ n - 1 = Letters * Rest(n) + Last(n)
  BY <1>1, DivFacts DEF Rest, Last, Letter
<1>3. PICK p : p = Letters * Rest(n)
  OBVIOUS
<1>4. p \in Int
  BY <1>2, <1>3, CatalogAssumption
<1> QED
  BY <1>2, <1>3, <1>4, CatalogAssumption DEF Letter

\* f names the numbers up to n.
Names(f, n) == f = [k \in 0 .. n |-> Spelled(f, k)]

LEMMA SpelledAlike ==
  ASSUME NEW n \in Nat, NEW f, NEW g, \A k \in 0 .. n - 1 : f[k] = g[k]
  PROVE  Spelled(f, n) = Spelled(g, n)
BY RestIsSmaller DEF Spelled

LEMMA NamesExist == \A n \in Nat : \E f : Names(f, n)
<1> DEFINE S == {n \in Nat : \E f : Names(f, n)}
<1>1. 0 \in S
  <2>1. Names([k \in 0 .. 0 |-> <<>>], 0)
    BY DEF Names, Spelled
  <2> QED
    BY <2>1
<1>2. ASSUME NEW n \in S PROVE n + 1 \in S
  <2>1. PICK f : Names(f, n)
    OBVIOUS
  <2> DEFINE g == [k \in 0 .. n + 1 |-> IF k = n + 1 THEN Spelled(f, n + 1) ELSE f[k]]
  <2>2. \A k \in 0 .. n : g[k] = f[k]
    OBVIOUS
  <2>3. g[n + 1] = Spelled(f, n + 1)
    OBVIOUS
  <2>4. g = [k \in 0 .. n + 1 |-> g[k]]
    OBVIOUS
  <2> HIDE DEF g
  <2>5. \A k \in 0 .. n + 1 : Spelled(g, k) = Spelled(f, k)
    BY <2>2, SpelledAlike
  <2>6. \A k \in 0 .. n : f[k] = Spelled(f, k)
    BY <2>1 DEF Names
  <2>7. \A k \in 0 .. n + 1 : g[k] = Spelled(g, k)
    BY <2>2, <2>3, <2>5, <2>6
  <2>8. Names(g, n + 1)
    BY <2>4, <2>7 DEF Names
  <2> QED
    BY <2>8
<1> HIDE DEF S
<1>3. S = Nat
  BY <1>1, <1>2, SetInduction DEF S
<1> QED
  BY <1>3 DEF S

LEMMA NamesAgree ==
  ASSUME NEW n \in Nat, NEW m \in Nat, NEW f, NEW g, Names(f, n), Names(g, m), n <= m
  PROVE  \A k \in 0 .. n : f[k] = g[k]
<1> DEFINE T == {k \in 0 .. n : f[k] # g[k]}
<1> SUFFICES ASSUME T # {} PROVE FALSE
  OBVIOUS
<1>0. T \in SUBSET Nat
  OBVIOUS
<1>1. PICK k \in T : \A j \in T : k <= j
  BY <1>0, LeastNatural
<1>2. k \in 0 .. n /\ k \in 0 .. m /\ f[k] # g[k]
  OBVIOUS
<1>3. f[k] = Spelled(f, k) /\ g[k] = Spelled(g, k)
  BY <1>2 DEF Names
<1>4. \A j \in 0 .. k - 1 : f[j] = g[j]
  BY <1>1, <1>2
<1>5. k \in Nat
  BY <1>2
<1> HIDE DEF T
<1> QED
  BY <1>2, <1>3, <1>4, <1>5, SpelledAlike

\* Spell satisfies the equation it is defined by.
LEMMA SpellEquation == Spell = [n \in Nat |-> Spelled(Spell, n)]
<1> DEFINE N(n) == CHOOSE f : Names(f, n)
           F == [n \in Nat |-> N(n)[n]]
<1>1. \A n \in Nat : Names(N(n), n)
  BY NamesExist
<1>2. \A n \in Nat : F[n] = N(n)[n]
  OBVIOUS
<1> HIDE DEF N
<1>3. ASSUME NEW n \in Nat PROVE F[n] = Spelled(F, n)
  <2>1. N(n)[n] = Spelled(N(n), n)
    BY <1>1 DEF Names
  <2>2. ASSUME NEW k \in 0 .. n - 1 PROVE N(n)[k] = F[k]
    <3>1. N(k)[k] = N(n)[k]
      BY <1>1, NamesAgree
    <3> QED
      BY <1>2, <3>1
  <2> HIDE DEF F
  <2>3. Spelled(N(n), n) = Spelled(F, n)
    BY <2>2, SpelledAlike
  <2> QED
    BY <1>2, <2>1, <2>3
<1>4. F = [n \in Nat |-> Spelled(F, n)]
  BY <1>3
<1>5. Spell = CHOOSE f : f = [n \in Nat |-> Spelled(f, n)]
  BY DEF Spell, Spelled, Rest, Last
<1> QED
  BY <1>4, <1>5

-----------------------------------------------------------------------------
(* What it computes.                                                       *)

LEMMA SpellZero == Spell[0] = <<>>
BY SpellEquation DEF Spelled

LEMMA SpellStep ==
  ASSUME NEW n \in Nat, n # 0
  PROVE  Spell[n] = Append(Spell[Rest(n)], Last(n))
BY SpellEquation DEF Spelled

LEMMA SpellType == Spell \in [Nat -> Seq(Letter)]
<1> DEFINE T == {n \in Nat : Spell[n] \notin Seq(Letter)}
<1>1. ASSUME T # {} PROVE FALSE
  <2>1. PICK n \in T : \A m \in T : n <= m
    BY <1>1, LeastNatural
  <2>2. n # 0
    BY SpellZero, EmptySeq
  <2>3. Rest(n) \in 0 .. n - 1 /\ Last(n) \in Letter
    BY <2>2, RestIsSmaller
  <2>4. Spell[Rest(n)] \in Seq(Letter)
    BY <2>1, <2>3
  <2>5. Append(Spell[Rest(n)], Last(n)) \in Seq(Letter)
    BY <2>3, <2>4, AppendProperties
  <2> QED
    BY <2>2, <2>5, SpellStep
<1>2. \A n \in Nat : Spell[n] \in Seq(Letter)
  BY <1>1
<1> QED
  BY <1>2, SpellEquation

LEMMA SpellInjective ==
  \A m, n \in Nat : Spell[m] = Spell[n] => m = n
<1> DEFINE T == {n \in Nat : \E m \in Nat : m # n /\ Spell[m] = Spell[n]}
<1> SUFFICES ASSUME T # {} PROVE FALSE
  OBVIOUS
<1>1. PICK n \in T : \A m \in T : n <= m
  BY LeastNatural
<1>2. PICK m \in Nat : m # n /\ Spell[m] = Spell[n]
  OBVIOUS
<1>3. m \in T
  BY <1>2
<1>4. m > n /\ m # 0
  BY <1>1, <1>2, <1>3
<1>n. n \in Nat /\ Spell[m] = Spell[n]
  BY <1>2
<1> HIDE DEF T
<1>5. Rest(m) \in Nat /\ Last(m) \in Letter /\ m = Letters * Rest(m) + Last(m) + 1
  BY <1>4, RestIsSmaller
<1>6. Spell[Rest(m)] \in Seq(Letter) /\ Spell[m] = Append(Spell[Rest(m)], Last(m))
  BY <1>4, <1>5, SpellType, SpellStep
<1>7. n # 0
  <2>1. Append(Spell[Rest(m)], Last(m)) # <<>>
    BY <1>5, <1>6, AppendProperties
  <2> QED
    BY <1>2, <1>6, <2>1, SpellZero
<1>8. Rest(n) \in 0 .. n - 1 /\ Last(n) \in Letter /\ n = Letters * Rest(n) + Last(n) + 1
  BY <1>n, <1>7, RestIsSmaller
<1>9. Spell[Rest(n)] \in Seq(Letter) /\ Spell[n] = Append(Spell[Rest(n)], Last(n))
  <2>1. Rest(n) \in Nat
    BY <1>n, <1>8
  <2>2. Spell[Rest(n)] \in Seq(Letter)
    BY <2>1, SpellType
  <2> QED
    BY <1>n, <1>7, <2>2, SpellStep
<1>10. Spell[Rest(n)] = Spell[Rest(m)] /\ Last(n) = Last(m)
  <2>1. Append(Spell[Rest(n)], Last(n)) = Append(Spell[Rest(m)], Last(m))
    BY <1>n, <1>6, <1>9
  <2>2. ASSUME NEW s \in Seq(Letter), NEW t \in Seq(Letter), NEW x \in Letter, NEW y \in Letter,
               Append(s, x) = Append(t, y)
        PROVE  s = t /\ x = y
    BY <2>2, AppendInjective
  <2>3. /\ Spell[Rest(n)] \in Seq(Letter) /\ Spell[Rest(m)] \in Seq(Letter)
        /\ Last(n) \in Letter /\ Last(m) \in Letter
    BY <1>5, <1>6, <1>8, <1>9
  <2> QED
    BY <2>1, <2>2, <2>3
<1>11. Rest(n) = Rest(m)
  <2>1. Rest(n) \notin T
    BY <1>n, <1>1, <1>8
  <2> QED
    BY <1>5, <1>8, <1>10, <2>1 DEF T
<1> QED
  BY <1>2, <1>5, <1>8, <1>10, <1>11

\* A name is a sequence of letters, 0 included
\* (sync_incident_catalog.py:77-83).
THEOREM NamesAreLetters == \A n \in Nat : ToAlpha(n) \in Seq(Letter)
<1>1. 0 \in Letter
  BY CatalogAssumption DEF Letter
<1>2. <<0>> \in Seq(Letter)
  BY <1>1
<1> QED
  BY <1>2, SpellType DEF ToAlpha

\* No two numbers from 1 on, the ones syncs give, have the same name; 0 would
\* have the name of 1 (sync_incident_catalog.py:77-83).
THEOREM NamesAreUnique ==
  \A m, n \in Nat \ {0} : ToAlpha(m) = ToAlpha(n) => m = n
<1>1. \A n \in Nat \ {0} : Spell[n] # <<>>
  BY SpellInjective, SpellZero
<1> QED
  BY <1>1, SpellInjective DEF ToAlpha
=============================================================================
