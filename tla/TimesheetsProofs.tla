-------------------------- MODULE TimesheetsProofs --------------------------
(***************************************************************************)
(* Proofs about an employee's daily work, for every value of the           *)
(* constants: the cells of a day and the snapshot of a week (Timesheets),  *)
(* overtime that is granted once and under a cap (Overtime), nobody is     *)
(* notified twice and nobody is left out (Notices), a requirement nobody   *)
(* meets has one Active gap (SkillMatching).  Each part has an inductive   *)
(* invariant of its own; a behaviour of them all is one of each.           *)
(***************************************************************************)
EXTENDS MCTimesheets, FiniteSetTheorems, TLAPS

\* Among sets of parts of a finite set there is one none of the others is a part of: what
\* holds of a set when it holds of its parts holds of every finite set.
LEMMA LeastPart ==
  ASSUME NEW S, IsFiniteSet(S), NEW T, \A t \in T : t \subseteq S, T # {}
  PROVE  \E t \in T : \A u \in T : u \subseteq t => u = t
<1>1. T \subseteq FiniteSubsetsOf(S)
  BY FS_Subset DEF FiniteSubsetsOf
<1>2. PICK t \in T : \A u \in T : ~ (<<u, t>> \in StrictSubsetOrdering(S))
  BY <1>1, FS_StrictSubsetOrderingWellFounded, WFMin, Zenon
<1>3. ASSUME NEW u \in T, u \subseteq t PROVE u = t
  BY <1>2, <1>3 DEF StrictSubsetOrdering
<1> QED
  BY <1>3

-----------------------------------------------------------------------------
(* Sums *)

Elem(s) == CHOOSE x \in s : TRUE

\* What a sum over a set is computed with, one element after the other.
Sums(g, f, S) ==
  g = [s \in SUBSET S |-> IF s = {} THEN 0 ELSE f[Elem(s)] + g[s \ {Elem(s)}]]

Unfolds(g, f, S) ==
  /\ g[{}] = 0
  /\ \A s \in SUBSET S : s # {} => /\ Elem(s) \in s /\ s \ {Elem(s)} \in SUBSET S
                                   /\ g[s] = f[Elem(s)] + g[s \ {Elem(s)}]

\* A sum of a set that is not empty is one element and the sum of the others.
LEMMA SumsUnfold ==
  ASSUME NEW S, NEW f, NEW g, Sums(g, f, S)
  PROVE  Unfolds(g, f, S)
<1>1. \A s \in SUBSET S : g[s] = IF s = {} THEN 0 ELSE f[Elem(s)] + g[s \ {Elem(s)}]
  BY DEF Sums
<1>2. \A s \in SUBSET S : s # {} => Elem(s) \in s
  BY DEF Elem
<1> QED
  BY <1>1, <1>2 DEF Unfolds

\* Two computations of a sum agree where both are defined.
LEMMA SumsAgree ==
  ASSUME NEW S, IsFiniteSet(S), NEW f, NEW g, NEW h, NEW R,
         Sums(g, f, S), R \in SUBSET S, Sums(h, f, R)
  PROVE  \A s \in SUBSET R : g[s] = h[s]
<1> DEFINE Bad == {s \in SUBSET R : g[s] # h[s]}
<1> SUFFICES ASSUME Bad # {} PROVE FALSE
  OBVIOUS
<1>1. IsFiniteSet(R)
  BY FS_Subset
<1>0. (\A t \in Bad : t \subseteq R) /\ Bad # {}
  OBVIOUS
<1>a. \A s : s \in Bad <=> s \in SUBSET R /\ g[s] # h[s]
  OBVIOUS
<1> HIDE DEF Bad
<1>2. PICK s \in Bad : \A u \in Bad : u \subseteq s => u = s
  BY <1>0, <1>1, LeastPart
<1>b. \A r \in SUBSET R : r # {} => \E x \in r : /\ x = Elem(r) /\ g[r] = f[x] + g[r \ {x}]
                                                /\ h[r] = f[x] + h[r \ {x}]
  <2>0. Unfolds(g, f, S) /\ Unfolds(h, f, R)
    BY SumsUnfold
  <2>1. \A r \in SUBSET R : r # {} => Elem(r) \in r /\ g[r] = f[Elem(r)] + g[r \ {Elem(r)}]
    BY <2>0 DEF Unfolds
  <2>2. \A r \in SUBSET R : r # {} => h[r] = f[Elem(r)] + h[r \ {Elem(r)}]
    BY <2>0 DEF Unfolds
  <2> QED
    BY <2>1, <2>2
<1>c. g[{}] = 0 /\ h[{}] = 0
  BY SumsUnfold DEF Unfolds
<1>3. s \in SUBSET R /\ s \in SUBSET S /\ g[s] # h[s]
  BY <1>2, <1>a
<1>4. s # {}
  BY <1>3, <1>c
<1>6. PICK x \in s : g[s] = f[x] + g[s \ {x}] /\ h[s] = f[x] + h[s \ {x}]
  BY <1>3, <1>4, <1>b
<1>7. s \ {x} \notin Bad
  BY <1>2, <1>6
<1>8. g[s \ {x}] = h[s \ {x}]
  BY <1>3, <1>7, <1>a
<1> QED
  BY <1>3, <1>6, <1>8

\* Every finite set has a sum.
LEMMA SumsExist ==
  ASSUME NEW S, IsFiniteSet(S), NEW f
  PROVE  \E g : Sums(g, f, S)
<1> DEFINE Bad == {s \in SUBSET S : ~ \E g : Sums(g, f, s)}
<1> SUFFICES ASSUME Bad # {} PROVE FALSE
  OBVIOUS
<1>1. /\ Bad # {} /\ \A t \in Bad : t \subseteq S
      /\ \A s : s \in Bad <=> s \in SUBSET S /\ ~ \E g : Sums(g, f, s)
  OBVIOUS
<1> HIDE DEF Bad
<1>2. PICK t \in Bad : \A u \in Bad : u \subseteq t => u = t
  BY <1>1, LeastPart
<1>3. t \in SUBSET S /\ (~ \E g : Sums(g, f, t)) /\ \A u \in SUBSET t : u # t => \E g : Sums(g, f, u)
  BY <1>1, <1>2
<1>4. IsFiniteSet(t) /\ \A u \in SUBSET t : IsFiniteSet(u)
  BY <1>3, FS_Subset
<1> DEFINE G(u) == CHOOSE g : Sums(g, f, u)
           sum(u) == G(u)[u]
           h == [s \in SUBSET t |-> IF s = t THEN (IF t = {} THEN 0 ELSE f[Elem(t)] + sum(t \ {Elem(t)}))
                                    ELSE sum(s)]
<1>5. \A u \in SUBSET t : u # t => Sums(G(u), f, u)
  BY <1>3
<1> HIDE DEF G
<1>6. ASSUME NEW s \in SUBSET t, s # {}, s # t
      PROVE  sum(s) = f[Elem(s)] + sum(s \ {Elem(s)})
  <2>1. PICK x : x = Elem(s)
    OBVIOUS
  <2>0. PICK g : g = G(s)
    OBVIOUS
  <2>a. Sums(g, f, s)
    BY <1>5, <1>6, <2>0
  <2>b. \A r \in SUBSET s : r # {} => Elem(r) \in r /\ g[r] = f[Elem(r)] + g[r \ {Elem(r)}]
    BY <2>a, SumsUnfold DEF Unfolds
  <2>2. x \in s /\ G(s)[s] = f[x] + G(s)[s \ {x}]
    BY <1>6, <2>0, <2>1, <2>b
  <2>3. s \ {x} \in SUBSET s /\ s \ {x} \in SUBSET t /\ s \ {x} # t
    BY <2>2
  <2>4. Sums(G(s), f, s) /\ Sums(G(s \ {x}), f, s \ {x}) /\ IsFiniteSet(s)
    BY <1>4, <1>5, <1>6, <2>3
  <2>5. G(s)[s \ {x}] = G(s \ {x})[s \ {x}]
    BY <2>3, <2>4, SumsAgree
  <2> QED
    BY <2>1, <2>2, <2>5
<1>7. t # {} => sum({}) = 0
  BY <1>5, SumsUnfold DEF Unfolds
<1>8. \A s \in SUBSET t : s # {} => Elem(s) \in s /\ s \ {Elem(s)} \in SUBSET t /\ s \ {Elem(s)} # t
  BY DEF Elem
<1> HIDE DEF sum
<1>9. \A s \in SUBSET t : h[s] = IF s = {} THEN 0 ELSE f[Elem(s)] + h[s \ {Elem(s)}]
  <2> TAKE s \in SUBSET t
  <2>1. CASE s = {}
    BY <1>7, <2>1
  <2>2. CASE s # {}
    <3>1. h[s \ {Elem(s)}] = sum(s \ {Elem(s)})
      BY <1>8, <2>2
    <3>2. CASE s = t
      BY <2>2, <3>1, <3>2
    <3>3. CASE s # t
      BY <1>6, <2>2, <3>1, <3>3
    <3> QED
      BY <3>2, <3>3
  <2> QED
    BY <2>1, <2>2
<1>10. Sums(h, f, t)
  <2>1. h = [s \in SUBSET t |-> h[s]]
    OBVIOUS
  <2> HIDE DEF h
  <2> QED
    BY <1>9, <2>1 DEF Sums
<1> QED
  BY <1>3, <1>10

\* A sum takes any of its elements first.
LEMMA SumsTake ==
  ASSUME NEW S, IsFiniteSet(S), NEW f, \A x \in S : f[x] \in Int, NEW g, Sums(g, f, S)
  PROVE  /\ \A s \in SUBSET S : g[s] \in Int
         /\ \A s \in SUBSET S : \A x \in s : g[s] = f[x] + g[s \ {x}]
<1>0. /\ g[{}] = 0
      /\ \A s \in SUBSET S : s # {} => \E a \in s : a = Elem(s) /\ g[s] = f[a] + g[s \ {a}]
  <2>1. Unfolds(g, f, S)
    BY SumsUnfold
  <2> QED
    BY <2>1 DEF Unfolds
<1>1. \A s \in SUBSET S : g[s] \in Int
  <2> DEFINE Bad == {s \in SUBSET S : g[s] \notin Int}
  <2> SUFFICES ASSUME Bad # {} PROVE FALSE
    OBVIOUS
  <2>0. /\ Bad # {} /\ \A t \in Bad : t \subseteq S
        /\ \A s : s \in Bad <=> s \in SUBSET S /\ g[s] \notin Int
    OBVIOUS
  <2> HIDE DEF Bad
  <2>1. PICK s \in Bad : \A u \in Bad : u \subseteq s => u = s
    BY <2>0, LeastPart
  <2>2. s \in SUBSET S /\ g[s] \notin Int
    BY <2>0, <2>1
  <2>3. s # {}
    <3>1. g[{}] \in Int
      BY <1>0
    <3> QED
      BY <2>2, <3>1
  <2>4. PICK x \in s : g[s] = f[x] + g[s \ {x}]
    BY <1>0, <2>2, <2>3
  <2>5. s \ {x} \notin Bad
    BY <2>1, <2>4
  <2>6. g[s \ {x}] \in Int
    BY <2>0, <2>2, <2>5
  <2> QED
    BY <2>2, <2>4, <2>6
<1>2. \A s \in SUBSET S : \A x \in s : g[s] = f[x] + g[s \ {x}]
  <2> DEFINE Bad == {s \in SUBSET S : \E x \in s : g[s] # f[x] + g[s \ {x}]}
  <2> SUFFICES ASSUME Bad # {} PROVE FALSE
    OBVIOUS
  <2>0. /\ Bad # {} /\ (\A t \in Bad : t \subseteq S)
        /\ \A s : s \in Bad <=> s \in SUBSET S /\ \E x \in s : g[s] # f[x] + g[s \ {x}]
    OBVIOUS
  <2> HIDE DEF Bad
  <2>1. PICK s \in Bad : \A u \in Bad : u \subseteq s => u = s
    BY <2>0, LeastPart
  <2>2. PICK x \in s : s \in SUBSET S /\ g[s] # f[x] + g[s \ {x}]
    BY <2>0, <2>1
  <2>4. PICK a \in s : g[s] = f[a] + g[s \ {a}] /\ a # x
    BY <1>0, <2>2
  <2>5. s \ {a} \in SUBSET S /\ s \ {a} \notin Bad /\ s \ {x} \in SUBSET S /\ s \ {x} \notin Bad
    BY <2>1, <2>2, <2>4
  <2>6. g[s \ {a}] = f[x] + g[(s \ {a}) \ {x}] /\ g[s \ {x}] = f[a] + g[(s \ {x}) \ {a}]
    BY <2>0, <2>2, <2>4, <2>5
  <2>7. PICK r : r = (s \ {a}) \ {x}
    OBVIOUS
  <2>8. r = (s \ {x}) \ {a} /\ r \in SUBSET S
    BY <2>5, <2>7
  <2>9. g[s \ {a}] = f[x] + g[r] /\ g[s \ {x}] = f[a] + g[r]
    BY <2>6, <2>7, <2>8
  <2>10. f[x] \in Int /\ f[a] \in Int /\ g[r] \in Int
    BY <1>1, <2>2, <2>4, <2>8
  <2> QED
    BY <2>2, <2>4, <2>9, <2>10
<1> QED
  BY <1>1, <1>2

Total(f, S) == (CHOOSE g : Sums(g, f, S))[S]

\* A total is the sum by any computation over a larger set.
LEMMA TotalIsSums ==
  ASSUME NEW S, IsFiniteSet(S), NEW f, NEW g, NEW R \in SUBSET S, Sums(g, f, S)
  PROVE  Total(f, R) = g[R]
<1>1. IsFiniteSet(R)
  BY FS_Subset
<1>2. PICK h : h = CHOOSE k : Sums(k, f, R)
  OBVIOUS
<1>3. Sums(h, f, R) /\ Total(f, R) = h[R]
  BY <1>1, <1>2, SumsExist DEF Total
<1>4. \A s \in SUBSET R : g[s] = h[s]
  BY <1>3, SumsAgree
<1> QED
  BY <1>3, <1>4

\* A total is what any sum over the set comes to.
LEMMA TotalOfSums ==
  ASSUME NEW S, IsFiniteSet(S), NEW f
  PROVE  \A h : Sums(h, f, S) => Total(f, S) = h[S]
<1> SUFFICES ASSUME NEW h, Sums(h, f, S) PROVE Total(f, S) = h[S]
  OBVIOUS
<1>1. S \in SUBSET S
  OBVIOUS
<1> QED
  BY <1>1, TotalIsSums

\* A total takes any of its elements first.
LEMMA TotalTakes ==
  ASSUME NEW S, IsFiniteSet(S), NEW f, \A x \in S : f[x] \in Int
  PROVE  /\ Total(f, {}) = 0
         /\ Total(f, S) \in Int
         /\ \A x \in S : Total(f, S) = f[x] + Total(f, S \ {x})
<1>1. PICK g : Sums(g, f, S)
  BY SumsExist
<1>2. \A s \in SUBSET S : Total(f, s) = g[s]
  BY <1>1, TotalIsSums
<1>3. g[{}] = 0
  BY <1>1, SumsUnfold DEF Unfolds
<1>4. /\ \A s \in SUBSET S : g[s] \in Int
      /\ \A s \in SUBSET S : \A x \in s : g[s] = f[x] + g[s \ {x}]
  BY <1>1, SumsTake
<1>5. {} \in SUBSET S /\ S \in SUBSET S /\ \A x \in S : S \ {x} \in SUBSET S
  OBVIOUS
<1>6. Total(f, {}) = 0 /\ Total(f, S) = g[S] /\ \A x \in S : Total(f, S \ {x}) = g[S \ {x}]
  BY <1>2, <1>3, <1>5
<1>7. g[S] \in Int /\ \A x \in S : g[S] = f[x] + g[S \ {x}]
  BY <1>4, <1>5
<1> QED
  BY <1>6, <1>7

\* A total is of what its elements weigh.
LEMMA TotalOfSame ==
  ASSUME NEW S, IsFiniteSet(S), NEW f, NEW h, \A x \in S : f[x] = h[x]
  PROVE  Total(f, S) = Total(h, S)
<1>1. PICK g : Sums(g, f, S)
  BY SumsExist
<1>2. \A s \in SUBSET S : s # {} => f[Elem(s)] = h[Elem(s)]
  BY DEF Elem
<1>3. Sums(g, h, S)
  BY <1>1, <1>2 DEF Sums
<1> QED
  BY <1>1, <1>3, TotalIsSums

\* Of what weighs nothing less than zero a part is no more than the whole.
LEMMA TotalOfPart ==
  ASSUME NEW S, IsFiniteSet(S), NEW f, \A x \in S : f[x] \in Nat, NEW R \in SUBSET S
  PROVE  0 <= Total(f, R) /\ Total(f, R) <= Total(f, S)
<1>0. /\ \A s \in SUBSET S : IsFiniteSet(s)
      /\ \A x \in S : f[x] \in Int
  BY FS_Subset
<1>1. /\ Total(f, {}) = 0
      /\ \A s \in SUBSET S : Total(f, s) \in Int
      /\ \A s \in SUBSET S : \A x \in s : Total(f, s) = f[x] + Total(f, s \ {x})
  BY <1>0, TotalTakes
<1> DEFINE Bad == {s \in SUBSET S : Total(f, s) < 0 \/ (R \subseteq s /\ Total(f, s) < Total(f, R))}
<1>2. SUFFICES ASSUME Bad # {} PROVE FALSE
  <2>1. S \notin Bad /\ R \notin Bad
    BY <1>2
  <2>2. R \in SUBSET S /\ S \in SUBSET S
    OBVIOUS
  <2>3. Total(f, R) \in Int /\ Total(f, S) \in Int
    BY <1>1, <2>2
  <2>4. /\ ~ (Total(f, R) < 0 \/ (R \subseteq R /\ Total(f, R) < Total(f, R)))
        /\ ~ (Total(f, S) < 0 \/ (R \subseteq S /\ Total(f, S) < Total(f, R)))
    BY <2>1, <2>2, Zenon
  <2>5. ~ (Total(f, R) < 0) /\ ~ (Total(f, S) < Total(f, R))
    <3>1. R \subseteq S
      OBVIOUS
    <3> QED
      BY <2>4, <3>1, Zenon
  <2> QED
    BY <2>3, <2>5
<1>3. /\ \A s \in Bad : s \subseteq S
      /\ \A s : s \in Bad <=>
            s \in SUBSET S /\ (Total(f, s) < 0 \/ (R \subseteq s /\ Total(f, s) < Total(f, R)))
  OBVIOUS
<1> HIDE DEF Bad
<1>4. PICK s \in Bad : \A u \in Bad : u \subseteq s => u = s
  BY <1>2, <1>3, LeastPart
<1>5. s \in SUBSET S /\ (Total(f, s) < 0 \/ (R \subseteq s /\ Total(f, s) < Total(f, R)))
  BY <1>3, <1>4
<1>6. \A x \in s : s \ {x} \notin Bad /\ s \ {x} \in SUBSET S
  BY <1>4, <1>5
<1>7. \A x \in s : /\ 0 <= Total(f, s \ {x}) /\ (R \subseteq s \ {x} => Total(f, R) <= Total(f, s \ {x}))
                    /\ Total(f, s) >= Total(f, s \ {x})
  BY <1>1, <1>3, <1>5, <1>6
<1>8. CASE s = {}
  BY <1>1, <1>5, <1>8
<1>9. CASE s = R
  <2>1. PICK x : s # {} => x \in s
    OBVIOUS
  <2>2. s # {} => /\ 0 <= Total(f, s \ {x}) /\ Total(f, s) >= Total(f, s \ {x})
                  /\ Total(f, s \ {x}) \in Int
    BY <1>1, <1>5, <1>7, <2>1
  <2>3. Total(f, s) \in Int /\ Total(f, s) < 0
    BY <1>1, <1>5, <1>9
  <2> QED
    BY <1>8, <2>2, <2>3
<1>10. CASE s # {} /\ s # R
  <2>1. Total(f, s) \in Int /\ Total(f, R) \in Int
    BY <1>1, <1>5
  <2>2. PICK x \in s : R \subseteq s => x \notin R
    BY <1>10
  <2>3. /\ 0 <= Total(f, s \ {x}) /\ (R \subseteq s => Total(f, R) <= Total(f, s \ {x}))
        /\ Total(f, s) >= Total(f, s \ {x})
    BY <1>7, <2>2
  <2>4. Total(f, s \ {x}) \in Int
    BY <1>1, <1>5
  <2> QED
    BY <1>5, <2>1, <2>3, <2>4
<1> QED
  BY <1>8, <1>9, <1>10

\* A total of images is the total of what they are images of.
LEMMA TotalOfImages ==
  ASSUME NEW S, IsFiniteSet(S), NEW f, \A x \in S : f[x] \in Int,
         NEW m, NEW h, \A x \in S : h[m[x]] = f[x], \A x, y \in S : m[x] = m[y] => x = y
  PROVE  IsFiniteSet({m[x] : x \in S}) /\ Total(h, {m[x] : x \in S}) = Total(f, S)
<1> DEFINE image(s) == {m[x] : x \in s}
<1> DEFINE Bad == {s \in SUBSET S : ~ (IsFiniteSet(image(s)) /\ Total(h, image(s)) = Total(f, s))}
<1>2. SUFFICES ASSUME Bad # {} PROVE FALSE
  OBVIOUS
<1>3. /\ \A s \in Bad : s \subseteq S
      /\ \A s : s \in Bad <=>
            s \in SUBSET S /\ ~ (IsFiniteSet(image(s)) /\ Total(h, image(s)) = Total(f, s))
  OBVIOUS
<1> HIDE DEF Bad
<1>4. PICK s \in Bad : \A u \in Bad : u \subseteq s => u = s
  BY <1>2, <1>3, LeastPart
<1>5. s \in SUBSET S /\ ~ (IsFiniteSet(image(s)) /\ Total(h, image(s)) = Total(f, s))
  BY <1>3, <1>4
<1>6. s # {}
  <2>1. image({}) = {}
    OBVIOUS
  <2>2. IsFiniteSet({})
    BY FS_EmptySet
  <2>3. Total(h, {}) = 0 /\ Total(f, {}) = 0
    BY <2>2, TotalTakes
  <2> QED
    BY <1>5, <2>1, <2>2, <2>3
<1>7. PICK x \in s : TRUE
  BY <1>6
<1>8. PICK r : r = s \ {x}
  OBVIOUS
<1>9. r \in SUBSET S /\ r \notin Bad /\ x \notin r
  BY <1>4, <1>5, <1>7, <1>8
<1>10. IsFiniteSet(image(r)) /\ Total(h, image(r)) = Total(f, r)
  BY <1>3, <1>9
<1>11. image(s) = image(r) \cup {m[x]} /\ m[x] \notin image(r) /\ image(r) = image(s) \ {m[x]}
  BY <1>5, <1>7, <1>8
<1>12. IsFiniteSet(image(s))
  <2> HIDE DEF image
  <2> QED
    BY <1>10, <1>11, FS_AddElement
<1>13. \A y \in image(s) : h[y] \in Int
  BY <1>5
<1>14. Total(h, image(s)) = h[m[x]] + Total(h, image(r))
  <2> HIDE DEF image
  <2> QED
    BY <1>11, <1>12, <1>13, TotalTakes
<1>15. Total(f, s) = f[x] + Total(f, r)
  <2>1. IsFiniteSet(s) /\ \A y \in s : f[y] \in Int
    BY <1>5, FS_Subset
  <2> QED
    BY <1>7, <1>8, <2>1, TotalTakes
<1> QED
  BY <1>5, <1>7, <1>10, <1>12, <1>14, <1>15

\* A finite set of integers that is not empty has a greatest element.
LEMMA MaxOfFinite ==
  ASSUME NEW S \in SUBSET Int, IsFiniteSet(S), S # {}
  PROVE  \E x \in S : \A y \in S : x >= y
<1> DEFINE Bad == {s \in SUBSET S : s # {} /\ ~ \E x \in s : \A y \in s : x >= y}
<1>2. SUFFICES ASSUME Bad # {} PROVE FALSE
  OBVIOUS
<1>3. /\ \A s \in Bad : s \subseteq S
      /\ \A s : s \in Bad <=>
            s \in SUBSET S /\ s # {} /\ ~ \E x \in s : \A y \in s : x >= y
  OBVIOUS
<1> HIDE DEF Bad
<1>4. PICK s \in Bad : \A u \in Bad : u \subseteq s => u = s
  BY <1>2, <1>3, LeastPart
<1>5. s \in SUBSET S /\ s # {} /\ ~ \E x \in s : \A y \in s : x >= y
  BY <1>3, <1>4
<1>6. PICK x \in s : x \in Int
  BY <1>5
<1>7. s \ {x} \in SUBSET S /\ s \ {x} \notin Bad
  BY <1>4, <1>5
<1>8. s \ {x} # {}
  BY <1>5, <1>6
<1>9. PICK z \in s \ {x} : \A y \in s \ {x} : z >= y
  BY <1>3, <1>7, <1>8
<1>10. z \in Int /\ z \in s
  BY <1>5, <1>9
<1>11. CASE x >= z
  <2>1. \A y \in s : x >= y
    <3>1. \A y \in s : y \in Int /\ (y = x \/ z >= y)
      BY <1>5, <1>9
    <3> QED
      BY <1>6, <1>10, <1>11, <3>1
  <2> QED
    BY <1>5, <1>6, <2>1
<1>12. CASE z >= x
  <2>1. \A y \in s : z >= y
    BY <1>9, <1>12
  <2> QED
    BY <1>5, <1>10, <2>1
<1> QED
  BY <1>6, <1>10, <1>11, <1>12

-----------------------------------------------------------------------------
(* Timesheets: the hours of a day *)

\* The hours of entries are the total of theirs (HoursOf).
LEMMA HoursAreTotal ==
  ASSUME NEW S, IsFiniteSet(S), NEW f, \A x \in S : f[x] = x.hours
  PROVE  HoursOf(S) = Total(f, S)
<1> DEFINE P(g) == g = [s \in SUBSET S |-> IF s = {} THEN 0
                                           ELSE Elem(s).hours + g[s \ {Elem(s)}]]
<1>1. HoursOf(S) = (CHOOSE g : P(g))[S]
  BY DEF HoursOf, MapThenSumSet, MapThenFoldSet, Elem
<1>2. \A s \in SUBSET S : s # {} => f[Elem(s)] = Elem(s).hours
  BY DEF Elem
<1>3. \A g : P(g) <=> Sums(g, f, S)
  BY <1>2 DEF Sums
<1> HIDE DEF P
<1>4. PICK g : g = CHOOSE h : P(h)
  OBVIOUS
<1>5. Sums(g, f, S)
  BY <1>3, <1>4, SumsExist
<1>6. HoursOf(S) = g[S]
  BY <1>1, <1>4
<1>7. S \in SUBSET S
  OBVIOUS
<1>8. Total(f, S) = g[S]
  BY <1>5, <1>7, TotalIsSums
<1> QED
  BY <1>6, <1>8

\* The hours of entries are those of one of them and of the others.
LEMMA HoursTake ==
  ASSUME NEW S, IsFiniteSet(S), \A x \in S : x.hours \in Int
  PROVE  /\ HoursOf({}) = 0 /\ HoursOf(S) \in Int
         /\ \A x \in S : HoursOf(S) = x.hours + HoursOf(S \ {x})
<1> DEFINE f == [x \in S |-> x.hours]
<1>1. \A x \in S : f[x] = x.hours
  OBVIOUS
<1> HIDE DEF f
<1>2. \A s \in SUBSET S : HoursOf(s) = Total(f, s)
  BY <1>1, FS_Subset, HoursAreTotal
<1>3. /\ Total(f, {}) = 0 /\ Total(f, S) \in Int
      /\ \A x \in S : Total(f, S) = f[x] + Total(f, S \ {x})
  BY <1>1, TotalTakes
<1> QED
  BY <1>1, <1>2, <1>3

\* Entries that are changed one by one, and keep their hours, add up to the same.
LEMMA HoursOfImages ==
  ASSUME NEW S, IsFiniteSet(S), \A x \in S : x.hours \in Int,
         NEW m, \A x \in S : m[x].hours = x.hours, \A x, y \in S : m[x] = m[y] => x = y
  PROVE  IsFiniteSet({m[x] : x \in S}) /\ HoursOf({m[x] : x \in S}) = HoursOf(S)
<1>1. PICK T : T = {m[x] : x \in S}
  OBVIOUS
<1>2. PICK f : f = [x \in S |-> x.hours]
  OBVIOUS
<1>3. PICK h : h = [x \in T |-> x.hours]
  OBVIOUS
<1>4. /\ \A x \in S : f[x] \in Int
      /\ \A x \in S : h[m[x]] = f[x]
      /\ \A x \in S : f[x] = x.hours
      /\ \A x \in T : h[x] = x.hours
  BY <1>1, <1>2, <1>3
<1>5. IsFiniteSet({m[x] : x \in S}) /\ Total(h, {m[x] : x \in S}) = Total(f, S)
  BY <1>4, TotalOfImages
<1>6. IsFiniteSet(T) /\ Total(h, T) = Total(f, S)
  BY <1>1, <1>5
<1>7. HoursOf(S) = Total(f, S) /\ HoursOf(T) = Total(h, T)
  BY <1>4, <1>6, HoursAreTotal
<1> QED
  BY <1>1, <1>6, <1>7

-----------------------------------------------------------------------------
(* Timesheets: the week of a date *)

Entries ==
  [date : Dates, cell : Cells, hours : HourChoices, week : Weeks, status : {"Draft", "Submitted"}]

CalendarRows == [anchor : Int, on : Int]
ScopeRows == [entity : Entities, from : Int]

\* Each entity has had a calendar from the beginning, and an edge is to an entity.
DatesHaveWeeks ==
  /\ versions \in [Entities -> Seq(CalendarRows)]
  /\ \A e \in Entities : versions[e] # <<>> /\ versions[e][1].on <= 0
  /\ scopes \in Seq(ScopeRows)

\* The greatest of some positions of a sequence is one of them.
LEMMA MaxIsIn ==
  ASSUME NEW n \in Nat, NEW S \in SUBSET (1..n), S # {}
  PROVE  Max(S) \in S
<1>1. S \in SUBSET Int /\ IsFiniteSet(S)
  <2>1. 1 \in Int /\ n \in Int
    OBVIOUS
  <2>2. PICK I : I = 1..n
    OBVIOUS
  <2>3. IsFiniteSet(I) /\ S \in SUBSET I /\ I \subseteq Int
    BY <2>1, <2>2, FS_Interval
  <2> QED
    BY <2>3, FS_Subset
<1> QED
  BY <1>1, MaxOfFinite DEF Max

\* Where a calendar gives a date a week, it is one there is (weekStartForEmployee).
LEMMA WeekStartIsAWeek ==
  ASSUME DatesHaveWeeks, NEW d \in Dates, WeekStart(d) # NoWeek
  PROVE  WeekStart(d) \in Weeks
<1>1. PICK e : e = EntityAt(Midnight(d))
  OBVIOUS
<1>2. e # NoEntity /\ WeekStart(d) = ResolveWeekStart(d, CalendarOn(e, d).anchor)
  BY <1>1 DEF WeekStart, WeekIn
<1>3. e \in Entities
  <2>1. PICK S : S = {k \in DOMAIN scopes : scopes[k].from <= Midnight(d)}
    OBVIOUS
  <2>2. S # {} /\ e = scopes[Max(S)].entity
    BY <1>1, <1>2, <2>1 DEF EntityAt
  <2>3. DOMAIN scopes = 1..Len(scopes) /\ Len(scopes) \in Nat
    BY DEF DatesHaveWeeks
  <2>4. Max(S) \in DOMAIN scopes
    BY <2>1, <2>2, <2>3, MaxIsIn
  <2>5. scopes[Max(S)] \in ScopeRows
    BY <2>3, <2>4 DEF DatesHaveWeeks
  <2> QED
    BY <2>2, <2>5 DEF ScopeRows
<1>4. PICK s : s = versions[e]
  OBVIOUS
<1>5. s \in Seq(CalendarRows) /\ s # <<>> /\ s[1].on <= 0
  BY <1>3, <1>4 DEF DatesHaveWeeks
<1>6. CalendarOn(e, d) \in CalendarRows
  <2>1. PICK S : S = {k \in DOMAIN s : s[k].on <= d}
    OBVIOUS
  <2>2. CalendarOn(e, d) = s[Max(S)]
    BY <1>4, <2>1 DEF CalendarOn
  <2>3. DOMAIN s = 1..Len(s) /\ Len(s) \in Nat /\ 1 \in DOMAIN s /\ s[1] \in CalendarRows
    BY <1>5
  <2>4. d \in Int /\ 1 <= d
    BY TimesheetsAssumption DEF Dates
  <2>5. 1 \in S
    <3>1. s[1].on \in Int
      BY <2>3 DEF CalendarRows
    <3>2. s[1].on <= d
      BY <1>5, <2>4, <3>1
    <3> QED
      BY <2>1, <2>3, <3>2
  <2>6. PICK n : n = Len(s)
    OBVIOUS
  <2>7. n \in Nat /\ S \in SUBSET (1..n) /\ S # {}
    BY <2>1, <2>3, <2>5, <2>6
  <2>8. Max(S) \in 1..n
    BY <2>7, MaxIsIn
  <2>9. \A k \in 1..n : s[k] \in CalendarRows
    BY <1>5, <2>6
  <2> QED
    BY <2>2, <2>8, <2>9
<1>7. PICK a \in Int : a = CalendarOn(e, d).anchor
  BY <1>6 DEF CalendarRows
<1>8. PICK r : r = (d - a + WeekLength) % WeekLength
  OBVIOUS
<1>9. r \in 0..(WeekLength - 1)
  <2>1. d - a + WeekLength \in Int
    BY <1>7, TimesheetsAssumption DEF Dates
  <2> QED
    BY <1>8, <2>1, TimesheetsAssumption
<1>10. WeekStart(d) = d - r
  BY <1>2, <1>7, <1>8 DEF ResolveWeekStart
<1> QED
  BY <1>9, <1>10, TimesheetsAssumption DEF Weeks, Dates


-----------------------------------------------------------------------------
(* Timesheets: the invariant *)

TimesheetsType ==
  /\ entries \subseteq Entries /\ IsFiniteSet(entries)
  /\ markers \in [Weeks -> {0, 1}]
  /\ snapshots = [w \in Weeks |-> snapshots[w]]
  /\ due \subseteq Weeks

OnePerCell == \A x, y \in entries : x.date = y.date /\ x.cell = y.cell => x = y

DayOf(d) == {x \in entries : x.date = d}
WithinADay == \A d \in Dates : HoursOf(DayOf(d)) <= DayLimit

TimesheetsIInv ==
  TimesheetsType /\ DatesHaveWeeks /\ OnePerCell /\ WithinADay /\ SnapshotsAgree

\* What the invariant says of cells, days and snapshots is HoursAgree.
LEMMA AgreeHolds == ASSUME TimesheetsIInv PROVE HoursAgree
  BY DEF TimesheetsIInv, HoursAgree, DaysAddUp, OnePerCell, WithinADay, DayOf

\* The hours of an entry are a number.
LEMMA EntryHours ==
  ASSUME TimesheetsType
  PROVE  \A x \in entries : x.hours \in Nat /\ x.hours \in Int /\ x.week \in Weeks
  BY TimesheetsAssumption DEF TimesheetsType, Entries

\* What a save leaves: the entries of other cells, and one of this cell.
LEMMA SavedIs ==
  ASSUME TimesheetsType, OnePerCell, NEW d \in Dates, NEW c \in Cells, NEW h \in HourChoices,
         NEW week \in Weeks
  PROVE  \E new \in Entries :
           /\ Saved(d, c, h, week) = (entries \ CellMatches(d, c)) \cup {new}
           /\ new.date = d /\ new.cell = c /\ new.hours = h
           /\ new.week = week \/ new.week \in {x.week : x \in CellMatches(d, c)}
<1>1. CASE CellMatches(d, c) = {}
  <2> DEFINE new == [date |-> d, cell |-> c, hours |-> h, week |-> week, status |-> "Draft"]
  <2>1. new \in Entries /\ new.date = d /\ new.cell = c /\ new.hours = h /\ new.week = week
    BY DEF Entries
  <2>2. Saved(d, c, h, week) = (entries \ CellMatches(d, c)) \cup {new}
    BY <1>1 DEF Saved
  <2> QED
    BY <2>1, <2>2
<1>2. CASE CellMatches(d, c) # {}
  <2>1. PICK x \in entries : CellMatches(d, c) = {x} /\ x.date = d /\ x.cell = c
    BY <1>2 DEF OnePerCell, CellMatches
  <2>2. PICK new : new = [x EXCEPT !.hours = h]
    OBVIOUS
  <2>3. x \in Entries
    BY <2>1 DEF TimesheetsType
  <2>4. /\ new \in Entries /\ new.date = d /\ new.cell = c /\ new.hours = h
        /\ new.week = x.week
    BY <2>1, <2>2, <2>3 DEF Entries
  <2>5. {[y EXCEPT !.hours = h] : y \in CellMatches(d, c)} = {new}
    BY <2>1, <2>2
  <2>6. Saved(d, c, h, week) = (entries \ CellMatches(d, c)) \cup {new}
    BY <1>2, <2>5 DEF Saved
  <2>7. x \in CellMatches(d, c)
    BY <2>1
  <2> QED
    BY <2>4, <2>6, <2>7
<1> QED
  BY <1>1, <1>2

\* Saving a cell keeps one entry to a cell and a day within its hours.
LEMMA SaveCellIInv ==
  ASSUME TimesheetsIInv, NEW d \in Dates, NEW c \in Cells, NEW h \in HourChoices,
         SaveCell(d, c, h)
  PROVE  TimesheetsIInv'
<1>0. TimesheetsType /\ DatesHaveWeeks /\ OnePerCell /\ WithinADay /\ SnapshotsAgree
  BY DEF TimesheetsIInv
<1>1. /\ entries' = Saved(d, c, h, WeekStart(d)) /\ Fits(d, c, h)
      /\ due' = due \cup {WeekStart(d)}
      /\ behind' = behind \cup ({x.week : x \in CellMatches(d, c)} \ {WeekStart(d)})
      /\ UNCHANGED <<markers, snapshots, versions, scopes>>
  BY DEF SaveCell
<1>2. WeekStart(d) \in Weeks
  BY <1>0, WeekStartIsAWeek DEF SaveCell
<1>3. PICK new \in Entries :
        /\ entries' = (entries \ CellMatches(d, c)) \cup {new}
        /\ new.date = d /\ new.cell = c /\ new.hours = h
        /\ new.week = WeekStart(d) \/ new.week \in {x.week : x \in CellMatches(d, c)}
  BY <1>0, <1>1, <1>2, SavedIs
<1>4. CellMatches(d, c) = {x \in entries : x.date = d /\ x.cell = c}
  BY DEF CellMatches
<1>5. DatesHaveWeeks'
  BY <1>0, <1>1 DEF DatesHaveWeeks, CalendarRows, ScopeRows
<1>6. TimesheetsType'
  <2>1. IsFiniteSet(entries \ CellMatches(d, c))
    BY <1>0, FS_Subset DEF TimesheetsType
  <2>2. IsFiniteSet(entries')
    BY <1>3, <2>1, FS_AddElement
  <2>3. entries' \subseteq Entries
    BY <1>0, <1>3 DEF TimesheetsType
  <2> QED
    BY <1>0, <1>1, <1>2, <2>2, <2>3 DEF TimesheetsType
<1>7. OnePerCell'
  BY <1>0, <1>3, <1>4 DEF OnePerCell
<1>8. WithinADay'
  <2> SUFFICES ASSUME NEW e \in Dates PROVE HoursOf(DayOf(e)') <= DayLimit
    BY DEF WithinADay
  <2>1. CASE e # d
    <3>1. DayOf(e)' = DayOf(e)
      BY <1>3, <1>4, <2>1 DEF DayOf
    <3> QED
      BY <1>0, <3>1 DEF WithinADay
  <2>2. CASE e = d
    <3>1. PICK rest : rest = DayOf(d) \ CellMatches(d, c)
      OBVIOUS
    <3>2. DayOf(d)' = rest \cup {new} /\ new \notin rest
      BY <1>3, <1>4, <3>1 DEF DayOf
    <3>3. HoursOf(rest) + h <= DayLimit
      BY <1>1, <3>1 DEF Fits, DayOf
    <3>4. rest \subseteq entries
      BY <3>1 DEF DayOf
    <3>5. IsFiniteSet(rest) /\ \A x \in rest : x.hours \in Int
      BY <1>0, <3>4, FS_Subset, EntryHours DEF TimesheetsType
    <3>6. PICK all : all = rest \cup {new}
      OBVIOUS
    <3>7. h \in Int
      BY TimesheetsAssumption
    <3>8. IsFiniteSet(all) /\ (\A x \in all : x.hours \in Int) /\ new \in all /\ all \ {new} = rest
      BY <1>3, <3>2, <3>5, <3>6, <3>7, FS_AddElement
    <3>9. HoursOf(all) = h + HoursOf(rest) /\ HoursOf(rest) \in Int
      BY <1>3, <3>5, <3>8, HoursTake
    <3> QED
      BY <2>2, <3>2, <3>3, <3>6, <3>7, <3>9
  <2> QED
    BY <2>1, <2>2
<1>9. SnapshotsAgree'
  <2>1. ASSUME NEW w \in Weeks, w \notin due', w \notin behind'
        PROVE  EntriesOf(w)' = EntriesOf(w)
    <3>1. w # WeekStart(d) /\ w \notin {x.week : x \in CellMatches(d, c)}
      BY <1>1, <2>1
    <3>2. new.week # w /\ \A x \in CellMatches(d, c) : x.week # w
      BY <1>3, <3>1
    <3> QED
      BY <1>3, <3>2 DEF EntriesOf
  <2>2. due \subseteq due' /\ behind \subseteq behind'
    BY <1>1
  <2> QED
    BY <1>0, <1>1, <2>1, <2>2 DEF SnapshotsAgree
<1> QED
  BY <1>5, <1>6, <1>7, <1>8, <1>9 DEF TimesheetsIInv

\* Submitting and unlocking change the status of entries of one week, and nothing else.
LEMMA TurnedIInv ==
  ASSUME TimesheetsIInv, NEW week \in Weeks, NEW from, NEW to \in {"Draft", "Submitted"},
         entries' = Turned(week, from, to), markers' \in [Weeks -> {0, 1}],
         due' = due \cup {week}, UNCHANGED <<snapshots, behind, versions, scopes>>
  PROVE  TimesheetsIInv'
<1>0. TimesheetsType /\ DatesHaveWeeks /\ OnePerCell /\ WithinADay /\ SnapshotsAgree
  BY DEF TimesheetsIInv
<1>1. PICK m : m = [x \in entries |->
                      IF x.week = week /\ x.status = from THEN [x EXCEPT !.status = to] ELSE x]
  OBVIOUS
<1>2. entries' = {m[x] : x \in entries}
  BY <1>1 DEF Turned
<1>3. \A x \in entries :
        /\ m[x] \in Entries
        /\ m[x].date = x.date /\ m[x].cell = x.cell /\ m[x].hours = x.hours
        /\ m[x].week = x.week /\ (x.week # week => m[x] = x)
  <2> TAKE x \in entries
  <2>1. x \in Entries
    BY <1>0 DEF TimesheetsType
  <2>2. m[x] = IF x.week = week /\ x.status = from THEN [x EXCEPT !.status = to] ELSE x
    BY <1>1
  <2> QED
    BY <2>1, <2>2 DEF Entries
<1>4. \A x, y \in entries : m[x] = m[y] => x = y
  BY <1>0, <1>3 DEF OnePerCell
<1>5. DatesHaveWeeks'
  BY <1>0 DEF DatesHaveWeeks, CalendarRows, ScopeRows
<1>6. TimesheetsType'
  <2>1. IsFiniteSet({m[x] : x \in entries})
    BY <1>0, <1>3, <1>4, EntryHours, HoursOfImages DEF TimesheetsType
  <2>2. entries' \subseteq Entries
    BY <1>2, <1>3
  <2> QED
    BY <1>0, <1>2, <2>1, <2>2 DEF TimesheetsType
<1>7. OnePerCell'
  <2> SUFFICES ASSUME NEW x \in entries', NEW y \in entries', x.date = y.date, x.cell = y.cell
               PROVE  x = y
    BY DEF OnePerCell
  <2>1. PICK a \in entries, b \in entries : x = m[a] /\ y = m[b]
    BY <1>2
  <2> QED
    BY <1>0, <1>3, <2>1 DEF OnePerCell
<1>8. WithinADay'
  <2> SUFFICES ASSUME NEW d \in Dates PROVE HoursOf(DayOf(d)') <= DayLimit
    BY DEF WithinADay
  <2>1. PICK day : day = DayOf(d)
    OBVIOUS
  <2>2. DayOf(d)' = {m[x] : x \in day}
    BY <1>2, <1>3, <2>1 DEF DayOf
  <2>3. day \subseteq entries
    BY <2>1 DEF DayOf
  <2>4. IsFiniteSet(day) /\ (\A x \in day : x.hours \in Int) /\ (\A x \in day : m[x].hours = x.hours)
        /\ \A x, y \in day : m[x] = m[y] => x = y
    BY <1>0, <1>3, <1>4, <2>3, FS_Subset, EntryHours DEF TimesheetsType
  <2>5. HoursOf({m[x] : x \in day}) = HoursOf(day)
    BY <2>4, HoursOfImages
  <2> QED
    BY <1>0, <2>1, <2>2, <2>5 DEF WithinADay
<1>9. SnapshotsAgree'
  <2>1. ASSUME NEW w \in Weeks, w \notin due' PROVE EntriesOf(w)' = EntriesOf(w)
    BY <1>2, <1>3, <2>1 DEF EntriesOf
  <2> QED
    BY <1>0, <2>1 DEF SnapshotsAgree
<1> QED
  BY <1>5, <1>6, <1>7, <1>8, <1>9 DEF TimesheetsIInv

\* A snapshot that is computed is what the entries of its week add up to.
LEMMA SnapshotIInv ==
  ASSUME TimesheetsIInv, NEW w \in Weeks, SnapshotCompute(w) \/ SnapshotIsLost(w)
  PROVE  TimesheetsIInv'
<1>0. TimesheetsType /\ DatesHaveWeeks /\ OnePerCell /\ WithinADay /\ SnapshotsAgree
  BY DEF TimesheetsIInv
<1>1. UNCHANGED <<entries, markers, versions, scopes>> /\ due' = due \ {w}
  BY DEF SnapshotCompute, SnapshotIsLost
<1>2. DatesHaveWeeks' /\ OnePerCell' /\ WithinADay'
  BY <1>0, <1>1 DEF DatesHaveWeeks, CalendarRows, ScopeRows, OnePerCell, WithinADay, DayOf
<1>3. \A v : EntriesOf(v)' = EntriesOf(v)
  BY <1>1 DEF EntriesOf
<1>4. CASE SnapshotIsLost(w)
  <2>1. behind' = behind \cup {w} /\ snapshots' = snapshots
    BY <1>4 DEF SnapshotIsLost
  <2>2. SnapshotsAgree'
    BY <1>0, <1>1, <1>3, <2>1 DEF SnapshotsAgree
  <2>3. TimesheetsType'
    BY <1>0, <1>1, <2>1 DEF TimesheetsType
  <2> QED
    BY <1>2, <2>2, <2>3 DEF TimesheetsIInv
<1>5. CASE SnapshotCompute(w)
  <2>1. PICK row : row = CalculateUtilization(EntriesOf(w))
    OBVIOUS
  <2>2. /\ behind' = behind \ {w}
        /\ snapshots' = IF EntriesOf(w) = {} THEN snapshots ELSE [snapshots EXCEPT ![w] = row]
    BY <1>5, <2>1 DEF SnapshotCompute, ComputedFrom
  <2>3. /\ snapshots' = [v \in Weeks |-> snapshots'[v]]
        /\ \A v \in Weeks : v # w => snapshots'[v] = snapshots[v]
        /\ EntriesOf(w) # {} => snapshots'[w] = row
    BY <1>0, <2>2 DEF TimesheetsType
  <2>4. SnapshotsAgree'
    <3> SUFFICES ASSUME NEW v \in Weeks, v \notin due', v \notin behind', EntriesOf(v) # {}
                 PROVE  snapshots'[v] = CalculateUtilization(EntriesOf(v))
      BY <1>3 DEF SnapshotsAgree
    <3>1. CASE v = w
      BY <2>1, <2>3, <3>1
    <3>2. CASE v # w
      BY <1>0, <1>1, <2>2, <2>3, <3>2 DEF SnapshotsAgree
    <3> QED
      BY <3>1, <3>2
  <2>5. TimesheetsType'
    BY <1>0, <1>1, <2>3 DEF TimesheetsType
  <2> QED
    BY <1>2, <2>4, <2>5 DEF TimesheetsIInv
<1> QED
  BY <1>4, <1>5

\* Submitting and unlocking a week change no hours, and leave the week due.
LEMMA WeekOfTheCallIInv ==
  ASSUME TimesheetsIInv, NEW d \in Dates, SubmitWeek(d) \/ UnlockWeek(d)
  PROVE  TimesheetsIInv'
<1>1. WeekStart(d) \in Weeks
  BY WeekStartIsAWeek DEF TimesheetsIInv, SubmitWeek, UnlockWeek
<1>2. PICK week \in Weeks : week = WeekStart(d)
  BY <1>1
<1>3. markers \in [Weeks -> {0, 1}]
  BY DEF TimesheetsIInv, TimesheetsType
<1>4. CASE SubmitWeek(d)
  <2>1. PICK n : n = MarkersAfterSubmit(week)
    OBVIOUS
  <2>2. n \in {0, 1}
    BY <1>3, <2>1 DEF MarkersAfterSubmit
  <2>3. markers' = [markers EXCEPT ![week] = n]
    BY <1>2, <1>4, <2>1 DEF SubmitWeek
  <2>4. markers' \in [Weeks -> {0, 1}]
    BY <1>3, <2>2, <2>3
  <2>5. /\ entries' = Turned(week, "Draft", "Submitted") /\ due' = due \cup {week}
        /\ UNCHANGED <<snapshots, behind, versions, scopes>>
    BY <1>2, <1>4 DEF SubmitWeek
  <2> QED
    BY <2>4, <2>5, TurnedIInv
<1>5. CASE UnlockWeek(d)
  <2>1. markers' = [markers EXCEPT ![week] = IF markers[week] = 0 THEN 0 ELSE markers[week] - 1]
    BY <1>2, <1>5 DEF UnlockWeek
  <2>2. markers' \in [Weeks -> {0, 1}]
    BY <1>3, <2>1
  <2>3. /\ entries' = Turned(week, "Submitted", "Draft") /\ due' = due \cup {week}
        /\ UNCHANGED <<snapshots, behind, versions, scopes>>
    BY <1>2, <1>5 DEF UnlockWeek
  <2> QED
    BY <2>2, <2>3, TurnedIInv
<1> QED
  BY <1>4, <1>5

\* A calendar that changes, and an employee who does, move weeks and no entry.
LEMMA WeeksMoveIInv ==
  ASSUME TimesheetsIInv, DatesHaveWeeks', UNCHANGED <<entries, markers, snapshots, due, behind>>
  PROVE  TimesheetsIInv'
<1>1. TimesheetsType' /\ OnePerCell' /\ WithinADay'
  BY DEF TimesheetsIInv, TimesheetsType, OnePerCell, WithinADay, DayOf
<1>2. \A v : EntriesOf(v)' = EntriesOf(v)
  BY DEF EntriesOf
<1>3. SnapshotsAgree'
  BY <1>2 DEF TimesheetsIInv, SnapshotsAgree
<1> QED
  BY <1>1, <1>3 DEF TimesheetsIInv

\* A version of a calendar takes no entry out of its week.
LEMMA CalendarUpdateIInv ==
  ASSUME TimesheetsIInv, now \in Int, NEW e \in Entities, NEW anchor \in Int,
         CalendarUpdate(e, anchor)
  PROVE  TimesheetsIInv'
<1>1. DatesHaveWeeks
  BY DEF TimesheetsIInv
<1>2. PICK row : row = [anchor |-> anchor, on |-> now]
  OBVIOUS
<1>3. row \in CalendarRows
  BY <1>2 DEF CalendarRows
<1>4. PICK s : s = versions[e]
  OBVIOUS
<1>5. s \in Seq(CalendarRows) /\ s # <<>> /\ s[1].on <= 0
  BY <1>1, <1>4 DEF DatesHaveWeeks
<1>6. PICK t : t = Append(s, row)
  OBVIOUS
<1>7. t \in Seq(CalendarRows) /\ t # <<>> /\ t[1] = s[1]
  BY <1>3, <1>5, <1>6
<1>8. versions' = [versions EXCEPT ![e] = t]
  BY <1>2, <1>4, <1>6 DEF CalendarUpdate
<1>9. DatesHaveWeeks'
  <2>1. versions' \in [Entities -> Seq(CalendarRows)]
    BY <1>1, <1>7, <1>8 DEF DatesHaveWeeks
  <2>2. \A f \in Entities : versions'[f] = IF f = e THEN t ELSE versions[f]
    BY <1>1, <1>8 DEF DatesHaveWeeks
  <2>3. UNCHANGED scopes
    BY DEF CalendarUpdate
  <2>4. \A f \in Entities : versions'[f] # <<>> /\ versions'[f][1].on <= 0
    BY <1>1, <1>5, <1>7, <2>2 DEF DatesHaveWeeks
  <2> QED
    BY <1>1, <2>1, <2>3, <2>4 DEF DatesHaveWeeks, CalendarRows, ScopeRows
<1> QED
  BY <1>9, WeeksMoveIInv DEF CalendarUpdate

\* An edge to another entity takes no entry out of its week.
LEMMA SetEntityIInv ==
  ASSUME TimesheetsIInv, NEW e \in Entities, NEW i \in Int, SetEntity(e, i)
  PROVE  TimesheetsIInv'
<1>1. [entity |-> e, from |-> i] \in ScopeRows
  BY DEF ScopeRows
<1>2. scopes' \in Seq(ScopeRows) /\ UNCHANGED versions
  BY <1>1 DEF SetEntity, TimesheetsIInv, DatesHaveWeeks
<1>3. DatesHaveWeeks'
  BY <1>2 DEF TimesheetsIInv, DatesHaveWeeks, CalendarRows, ScopeRows
<1> QED
  BY <1>3, WeeksMoveIInv DEF SetEntity

\* There are no entries at first.
LEMMA TimesheetsInit == Init => TimesheetsIInv /\ now \in Int
<1> SUFFICES ASSUME Init PROVE TimesheetsIInv /\ now \in Int
  OBVIOUS
<1>1. /\ entries = {} /\ due = {} /\ behind = {} /\ now = 1
      /\ markers = [w \in Weeks |-> 0] /\ snapshots = [w \in Weeks |-> NoSnapshot]
  BY DEF Init
<1>2. TimesheetsType
  BY <1>1, FS_EmptySet DEF TimesheetsType
<1>3. DatesHaveWeeks
  <2>1. \A e \in Entities : [anchor |-> FirstAnchor[e], on |-> 0] \in CalendarRows
    BY TimesheetsAssumption DEF CalendarRows
  <2>2. versions = [e \in Entities |-> <<[anchor |-> FirstAnchor[e], on |-> 0]>>]
    BY DEF Init
  <2>3. \A e \in Entities : versions[e] \in Seq(CalendarRows) /\ versions[e] # <<>>
                            /\ versions[e][1].on <= 0
    BY <2>1, <2>2
  <2>4. versions \in [Entities -> Seq(CalendarRows)]
    BY <2>2, <2>3
  <2>5. PICK e \in Entities : scopes = <<[entity |-> e, from |-> Midnight(1)]>>
    BY DEF Init
  <2>6. [entity |-> e, from |-> Midnight(1)] \in ScopeRows
    BY DEF ScopeRows, Midnight
  <2>7. scopes \in Seq(ScopeRows)
    BY <2>5, <2>6
  <2> QED
    BY <2>3, <2>4, <2>7 DEF DatesHaveWeeks
<1>4. OnePerCell
  BY <1>1 DEF OnePerCell
<1>5. WithinADay
  <2>1. \A d \in Dates : DayOf(d) = {}
    BY <1>1 DEF DayOf
  <2>2. HoursOf({}) = 0
    BY FS_EmptySet, HoursTake
  <2> QED
    BY <2>1, <2>2, TimesheetsAssumption DEF WithinADay
<1>6. \A w : EntriesOf(w) = {}
  BY <1>1 DEF EntriesOf
<1>7. SnapshotsAgree
  BY <1>6 DEF SnapshotsAgree
<1> QED
  BY <1>1, <1>2, <1>3, <1>4, <1>5, <1>7 DEF TimesheetsIInv

\* Every step preserves the invariant of the timesheets.
LEMMA TimesheetsStep ==
  TimesheetsIInv /\ now \in Int /\ [Next]_vars => TimesheetsIInv' /\ now' \in Int
<1> SUFFICES ASSUME TimesheetsIInv, now \in Int, [Next]_vars
             PROVE  TimesheetsIInv' /\ now' \in Int
  OBVIOUS
<1>0. TimesheetsIInv => DatesHaveWeeks
  BY DEF TimesheetsIInv
<1>1. ASSUME NEW d \in Dates, NEW c \in Cells, NEW h \in HourChoices, SaveCell(d, c, h)
      PROVE  TimesheetsIInv' /\ now' \in Int
  BY <1>1, SaveCellIInv DEF SaveCell
<1>2. ASSUME NEW d \in Dates, SubmitWeek(d) \/ UnlockWeek(d)
      PROVE  TimesheetsIInv' /\ now' \in Int
  BY <1>2, WeekOfTheCallIInv DEF SubmitWeek, UnlockWeek
<1>3. ASSUME NEW w \in Weeks, SnapshotCompute(w) \/ SnapshotIsLost(w)
      PROVE  TimesheetsIInv' /\ now' \in Int
  BY <1>3, SnapshotIInv DEF SnapshotCompute, SnapshotIsLost
<1>4. ASSUME NEW e \in Entities, NEW a \in 0..(WeekLength - 1), CalendarUpdate(e, a)
      PROVE  TimesheetsIInv' /\ now' \in Int
  <2>1. a \in Int
    BY TimesheetsAssumption
  <2> QED
    BY <1>4, <2>1, CalendarUpdateIInv DEF CalendarUpdate
<1>5. ASSUME NEW e \in Entities, NEW i \in Instants, SetEntity(e, i)
      PROVE  TimesheetsIInv' /\ now' \in Int
  <2>1. i \in Int
    BY TimesheetsAssumption DEF Instants, Midnight, Noon
  <2> QED
    BY <1>5, <2>1, SetEntityIInv DEF SetEntity
<1>6. CASE UNCHANGED <<entries, markers, snapshots, due, behind, versions, scopes>> /\ now' \in Int
  <2>1. DatesHaveWeeks'
    BY <1>0, <1>6 DEF DatesHaveWeeks, CalendarRows, ScopeRows
  <2> QED
    BY <1>6, <2>1, WeeksMoveIInv
<1>7. ASSUME NEW p \in Pitches, Staff(p)
      PROVE  TimesheetsIInv' /\ now' \in Int
  BY <1>6, <1>7 DEF Staff
<1>8. CASE NextDay
  BY <1>6, <1>8 DEF NextDay
<1>9. CASE UNCHANGED vars
  BY <1>6, <1>9 DEF vars
<1> QED
  BY <1>1, <1>2, <1>3, <1>4, <1>5, <1>7, <1>8, <1>9 DEF Next

\* The invariant of the timesheets.
LEMMA TimesheetsInvariant == Spec => []TimesheetsIInv
<1> DEFINE ADay == now \in Int
<1>1. Init => TimesheetsIInv /\ ADay
  BY TimesheetsInit
<1>2. TimesheetsIInv /\ ADay /\ [Next]_vars => TimesheetsIInv' /\ ADay'
  BY TimesheetsStep
<1> HIDE DEF ADay
<1> QED
  BY <1>1, <1>2, PTL DEF Spec

\* With one marker at most, the unlock takes the last.
LEMMA UnlockHolds ==
  ASSUME TimesheetsIInv, NEW d \in Dates, UnlockWeek(d)
  PROVE  WeekStatus(WeekStart(d))' # "Submitted"
<1>0. TimesheetsType
  BY DEF TimesheetsIInv
<1>1. WeekStart(d) \in Weeks
  BY WeekStartIsAWeek DEF TimesheetsIInv, UnlockWeek
<1>2. PICK week \in Weeks : week = WeekStart(d)
  BY <1>1
<1>3. /\ entries' = Turned(week, "Submitted", "Draft")
      /\ markers' = [markers EXCEPT ![week] = IF markers[week] = 0 THEN 0 ELSE markers[week] - 1]
      /\ UNCHANGED <<versions, scopes>>
  <2>1. entries' = Turned(WeekStart(d), "Submitted", "Draft")
    BY DEF UnlockWeek
  <2>2. markers' = [markers EXCEPT ![WeekStart(d)] = IF @ = 0 THEN 0 ELSE @ - 1]
    BY DEF UnlockWeek
  <2>3. UNCHANGED <<versions, scopes>>
    BY DEF UnlockWeek
  <2> QED
    BY <1>2, <2>1, <2>2, <2>3, Zenon
<1>4. WeekStart(d)' = week
  <2>1. UNCHANGED <<versions, scopes>>
    BY <1>3
  <2>2. WeekStart(d)' = WeekStart(d)
    BY <2>1, Zenon DEF WeekStart, WeekIn, EntityAt, CalendarOn
  <2> QED
    BY <1>2, <2>2
<1>5. markers'[week] = 0
  BY <1>0, <1>3 DEF TimesheetsType
<1>6. \A x \in entries' : x.week = week => x.status # "Submitted"
  <2> SUFFICES ASSUME NEW x \in entries', x.week = week, x.status = "Submitted" PROVE FALSE
    OBVIOUS
  <2>1. PICK y \in entries :
          x = IF y.week = week /\ y.status = "Submitted" THEN [y EXCEPT !.status = "Draft"] ELSE y
    BY <1>3 DEF Turned
  <2>2. y \in Entries
    BY <1>0 DEF TimesheetsType
  <2> QED
    BY <2>1, <2>2 DEF Entries
<1>7. WeekStatus(week)' # "Submitted"
  BY <1>5, <1>6 DEF WeekStatus, EntriesOf
<1> QED
  BY <1>4, <1>7 DEF WeekStatus, EntriesOf

-----------------------------------------------------------------------------
(* Overtime: flags and grants *)

FlagRow ==
  [week : PaidWeeks, reason : Accrued!Reasons, outcome : {"none", "Corrected", "ApprovedOvertime"}]

FlagsType == flags \in Seq(FlagRow)
IsSequence(s) == \E S : s \in Seq(S)

\* A reason has one open flag a week, and one flag of overtime that is open or approved.
OneStandingFlag ==
  \A f, g \in Accrued!Rows(flags) :
    /\ flags[f].week = flags[g].week /\ flags[f].reason = flags[g].reason
    /\ \/ flags[f].outcome = "none" /\ flags[g].outcome = "none"
       \/ /\ flags[f].reason = "HoursExceedExpected"
          /\ flags[f].outcome # "Corrected" /\ flags[g].outcome # "Corrected"
    => f = g

\* A grant is for a flag of overtime that was approved, and for no flag are there two.
GrantsAreApproved ==
  /\ \A k \in Accrued!Rows(ledger) :
       /\ ledger[k].flag \in Accrued!Rows(flags)
       /\ flags[ledger[k].flag].reason = "HoursExceedExpected"
       /\ flags[ledger[k].flag].outcome = "ApprovedOvertime"
  /\ \A k, l \in Accrued!Rows(ledger) : ledger[k].flag = ledger[l].flag => k = l

OvertimeIInv == FlagsType /\ IsSequence(ledger) /\ OneStandingFlag /\ GrantsAreApproved

\* What an evaluation adds: an open flag of each reason that has none standing.
FlagsAdded(week, new) ==
  /\ new \in Seq(FlagRow)
  /\ \A i \in 1..Len(new) :
       new[i].week = week /\ new[i].outcome = "none" /\ new[i].reason \in Accrued!Flagged(week)
  /\ \A i, j \in 1..Len(new) : new[i].reason = new[j].reason => i = j

\* An evaluation adds one open flag of each reason it flags.
LEMMA NewFlagsShape ==
  ASSUME NEW week \in PaidWeeks
  PROVE  FlagsAdded(week, Accrued!NewFlags(week))
<1> DEFINE row(reason) == IF reason \in Accrued!Flagged(week)
                          THEN <<[week |-> week, reason |-> reason, outcome |-> "none"]>> ELSE <<>>
           Ends == "PostEndDateAssignment"
           Zero == "ZeroVarianceWeek"
           Over == "HoursExceedExpected"
<1>1. Accrued!NewFlags(week) = row(Ends) \o row(Zero) \o row(Over)
  BY DEF Accrued!NewFlags
<1>2. ASSUME NEW reason \in Accrued!Reasons
      PROVE  \/ row(reason) = <<>>
             \/ \E x \in FlagRow :
                  /\ row(reason) = <<x>> /\ reason \in Accrued!Flagged(week)
                  /\ x.week = week /\ x.reason = reason /\ x.outcome = "none"
  BY DEF FlagRow
<1> HIDE DEF row
<1>3. Accrued!Reasons = {Ends, Zero, Over}
  BY DEF Accrued!Reasons
<1>4. PICK a : a = row(Ends)
  OBVIOUS
<1>5. PICK b : b = row(Zero)
  OBVIOUS
<1>6. PICK c : c = row(Over)
  OBVIOUS
<1>7. \/ a = <<>>
      \/ \E x \in FlagRow : /\ a = <<x>> /\ Ends \in Accrued!Flagged(week)
                            /\ x.week = week /\ x.reason = Ends /\ x.outcome = "none"
  BY <1>2, <1>3, <1>4
<1>8. \/ b = <<>>
      \/ \E x \in FlagRow : /\ b = <<x>> /\ Zero \in Accrued!Flagged(week)
                            /\ x.week = week /\ x.reason = Zero /\ x.outcome = "none"
  BY <1>2, <1>3, <1>5
<1>9. \/ c = <<>>
      \/ \E x \in FlagRow : /\ c = <<x>> /\ Over \in Accrued!Flagged(week)
                            /\ x.week = week /\ x.reason = Over /\ x.outcome = "none"
  BY <1>2, <1>3, <1>6
<1>10. a \in Seq(FlagRow) /\ b \in Seq(FlagRow) /\ c \in Seq(FlagRow)
       /\ Len(a) \in {0, 1} /\ Len(b) \in {0, 1} /\ Len(c) \in {0, 1}
  <2>1. <<>> \in Seq(FlagRow) /\ Len(<<>>) = 0
    OBVIOUS
  <2>2. \A x \in FlagRow : <<x>> \in Seq(FlagRow) /\ Len(<<x>>) = 1
    OBVIOUS
  <2>3. a \in Seq(FlagRow) /\ Len(a) \in {0, 1}
    BY <1>7, <2>1, <2>2
  <2>4. b \in Seq(FlagRow) /\ Len(b) \in {0, 1}
    BY <1>8, <2>1, <2>2
  <2>5. c \in Seq(FlagRow) /\ Len(c) \in {0, 1}
    BY <1>9, <2>1, <2>2
  <2> QED
    BY <2>3, <2>4, <2>5
<1>11. /\ Len(a) = 1 => Ends \in Accrued!Flagged(week) /\ a[1].week = week
                        /\ a[1].reason = Ends /\ a[1].outcome = "none"
       /\ Len(b) = 1 => Zero \in Accrued!Flagged(week) /\ b[1].week = week
                        /\ b[1].reason = Zero /\ b[1].outcome = "none"
       /\ Len(c) = 1 => Over \in Accrued!Flagged(week) /\ c[1].week = week
                        /\ c[1].reason = Over /\ c[1].outcome = "none"
  BY <1>7, <1>8, <1>9
<1>12. PICK d : d = a \o b
  OBVIOUS
<1>13. d \in Seq(FlagRow) /\ Len(d) = Len(a) + Len(b)
       /\ (\A i \in 1..Len(a) : d[i] = a[i]) /\ (\A i \in 1..Len(b) : d[Len(a) + i] = b[i])
  BY <1>10, <1>12
<1>14. PICK t : t = d \o c
  OBVIOUS
<1>15. t \in Seq(FlagRow) /\ Len(t) = Len(d) + Len(c)
       /\ (\A i \in 1..Len(d) : t[i] = d[i]) /\ (\A i \in 1..Len(c) : t[Len(d) + i] = c[i])
  <2>1. d \in Seq(FlagRow) /\ c \in Seq(FlagRow)
    BY <1>10, <1>13
  <2> QED
    BY <2>1, <1>14
<1>16. Accrued!NewFlags(week) = t
  BY <1>1, <1>4, <1>5, <1>6, <1>12, <1>14
<1>17. ASSUME NEW i \in 1..Len(t)
       PROVE  \/ Len(a) = 1 /\ i = 1 /\ t[i] = a[1]
              \/ Len(b) = 1 /\ i = Len(a) + 1 /\ t[i] = b[1]
              \/ Len(c) = 1 /\ i = Len(a) + Len(b) + 1 /\ t[i] = c[1]
  <2>1. /\ Len(a) \in {0, 1} /\ Len(b) \in {0, 1} /\ Len(c) \in {0, 1}
        /\ Len(d) = Len(a) + Len(b) /\ Len(t) = Len(a) + Len(b) + Len(c)
    BY <1>10, <1>13, <1>15
  <2>2. PICK la \in {0, 1}, lb \in {0, 1}, lc \in {0, 1} :
          la = Len(a) /\ lb = Len(b) /\ lc = Len(c)
    BY <2>1
  <2>3. /\ i \in 1..(la + lb + lc)
        /\ \A k \in 1..(la + lb) : t[k] = d[k]
        /\ \A k \in 1..lc : t[la + lb + k] = c[k]
        /\ \A k \in 1..la : d[k] = a[k]
        /\ \A k \in 1..lb : d[la + k] = b[k]
    BY <1>13, <1>15, <1>17, <2>1, <2>2
  <2>4. CASE la = 1 /\ i = 1
    BY <2>2, <2>3, <2>4
  <2>5. CASE lb = 1 /\ i = la + 1
    <3>1. 1 \in 1..lb /\ i \in 1..(la + lb)
      BY <2>5
    <3>2. d[la + 1] = b[1]
      BY <2>3, <3>1
    <3> QED
      BY <2>2, <2>3, <2>5, <3>1, <3>2
  <2>6. CASE lc = 1 /\ i = la + lb + 1
    <3>1. 1 \in 1..lc
      BY <2>6
    <3>2. t[la + lb + 1] = c[1]
      BY <2>3, <3>1
    <3> QED
      BY <2>2, <2>6, <3>2
  <2>7. (la = 1 /\ i = 1) \/ (lb = 1 /\ i = la + 1) \/ (lc = 1 /\ i = la + lb + 1)
    <3>1. i \in Int /\ 1 <= i /\ i <= la + lb + lc
      BY <2>2, <2>3
    <3>2. la \in {0, 1} /\ lb \in {0, 1} /\ lc \in {0, 1}
      OBVIOUS
    <3>3. CASE la = 0
      BY <3>1, <3>2, <3>3
    <3>4. CASE la = 1
      BY <3>1, <3>2, <3>4
    <3> QED
      BY <3>2, <3>3, <3>4
  <2> QED
    BY <2>4, <2>5, <2>6, <2>7
<1>18. \A i \in 1..Len(t) : t[i].week = week /\ t[i].outcome = "none"
                            /\ t[i].reason \in Accrued!Flagged(week)
  BY <1>11, <1>17
<1>19. \A i, j \in 1..Len(t) : t[i].reason = t[j].reason => i = j
  BY <1>11, <1>17
<1> QED
  BY <1>15, <1>16, <1>18, <1>19 DEF FlagsAdded

\* An evaluation adds a flag only where none of the reason stands.
LEMMA EvaluateOvertimeIInv ==
  ASSUME OvertimeIInv, NEW week \in PaidWeeks, Accrued!TimesheetAnomalyEvaluate(week)
  PROVE  OvertimeIInv'
<1>0. flags \in Seq(FlagRow) /\ OneStandingFlag /\ GrantsAreApproved /\ IsSequence(ledger)
  BY DEF OvertimeIInv, FlagsType
<1>1. PICK new : new = Accrued!NewFlags(week)
  OBVIOUS
<1>2. FlagsAdded(week, new) /\ flags' = flags \o new /\ UNCHANGED ledger
  BY <1>1, NewFlagsShape DEF Accrued!TimesheetAnomalyEvaluate
<1>3. PICK n : n = Len(flags)
  OBVIOUS
<1>4. PICK m : m = Len(new)
  OBVIOUS
<1>5. /\ n \in Nat /\ m \in Nat /\ flags' \in Seq(FlagRow) /\ Len(flags') = n + m
      /\ \A f \in 1..n : flags'[f] = flags[f]
      /\ \A i \in 1..m : flags'[n + i] = new[i]
  BY <1>0, <1>2, <1>3, <1>4 DEF FlagsAdded
<1>6. Accrued!Rows(flags)' = 1..(n + m) /\ Accrued!Rows(flags) = 1..n
      /\ Accrued!Rows(ledger)' = Accrued!Rows(ledger)
  BY <1>2, <1>3, <1>5 DEF Accrued!Rows
<1>7. \A i \in 1..m : flags'[n + i].week = week /\ flags'[n + i].outcome = "none"
                      /\ flags'[n + i].reason \in Accrued!Flagged(week)
  BY <1>2, <1>4, <1>5 DEF FlagsAdded
<1>8. \A i, j \in 1..m : flags'[n + i].reason = flags'[n + j].reason => i = j
  <2> TAKE i, j \in 1..m
  <2> HAVE flags'[n + i].reason = flags'[n + j].reason
  <2>1. new[i].reason = new[j].reason
    BY <1>5
  <2> QED
    BY <1>2, <1>4, <2>1 DEF FlagsAdded
<1>9. ASSUME NEW f \in 1..n, NEW i \in 1..m,
             flags[f].week = week, flags[f].reason = flags'[n + i].reason
      PROVE  flags[f].outcome # "none"
             /\ (flags[f].reason = "HoursExceedExpected" => flags[f].outcome = "Corrected")
  <2>1. flags[f] \in FlagRow
    BY <1>0, <1>3
  <2>2. flags[f].reason \in Accrued!Flagged(week)
    BY <1>7, <1>9
  <2>3. f \in Accrued!FlagsOf(week, flags[f].reason)
    BY <1>6, <1>9 DEF Accrued!FlagsOf
  <2>4. /\ ~Accrued!Approved(week, flags[f].reason)
        /\ Accrued!Uncleared(week, flags[f].reason) = {}
    BY <2>2 DEF Accrued!Flagged
  <2>5. flags[f].outcome # "none"
    BY <2>3, <2>4 DEF Accrued!Uncleared
  <2>6. ASSUME flags[f].reason = "HoursExceedExpected" PROVE flags[f].outcome # "ApprovedOvertime"
    BY <2>3, <2>4, <2>6 DEF Accrued!Approved
  <2> QED
    BY <2>1, <2>5, <2>6 DEF FlagRow
<1>10. OneStandingFlag'
  <2> SUFFICES ASSUME NEW f \in 1..(n + m), NEW g \in 1..(n + m),
                      flags'[f].week = flags'[g].week, flags'[f].reason = flags'[g].reason,
                      \/ flags'[f].outcome = "none" /\ flags'[g].outcome = "none"
                      \/ /\ flags'[f].reason = "HoursExceedExpected"
                         /\ flags'[f].outcome # "Corrected" /\ flags'[g].outcome # "Corrected"
               PROVE  f = g
    BY <1>6 DEF OneStandingFlag
  <2>1. CASE f \in 1..n /\ g \in 1..n
    <3>1. flags'[f] = flags[f] /\ flags'[g] = flags[g]
      BY <1>5, <2>1
    <3>2. f \in Accrued!Rows(flags) /\ g \in Accrued!Rows(flags)
      BY <1>6, <2>1
    <3> QED
      BY <1>0, <3>1, <3>2, Zenon DEF OneStandingFlag
  <2>2. CASE f \in 1..n /\ g \notin 1..n
    <3>1. PICK i \in 1..m : g = n + i
      <4>1. g - n \in 1..m /\ g = n + (g - n)
        BY <1>5, <2>2
      <4> QED
        BY <4>1
    <3> QED
      BY <1>5, <1>7, <1>9, <2>2, <3>1
  <2>3. CASE f \notin 1..n /\ g \in 1..n
    <3>1. PICK i \in 1..m : f = n + i
      <4>1. f - n \in 1..m /\ f = n + (f - n)
        BY <1>5, <2>3
      <4> QED
        BY <4>1
    <3> QED
      BY <1>5, <1>7, <1>9, <2>3, <3>1
  <2>4. CASE f \notin 1..n /\ g \notin 1..n
    <3>1. f - n \in 1..m /\ f = n + (f - n) /\ g - n \in 1..m /\ g = n + (g - n)
      BY <1>5, <2>4
    <3>2. f - n = g - n
      BY <1>8, <3>1
    <3> QED
      BY <1>5, <3>2
  <2> QED
    BY <2>1, <2>2, <2>3, <2>4
<1>11. GrantsAreApproved'
  <2>1. \A f \in 1..n : f \in 1..(n + m)
    BY <1>5
  <2> QED
    BY <1>0, <1>2, <1>5, <1>6, <2>1 DEF GrantsAreApproved
<1>12. FlagsType' /\ IsSequence(ledger)'
  BY <1>0, <1>2, <1>5 DEF FlagsType, IsSequence, FlagRow, Accrued!Reasons
<1> QED
  BY <1>10, <1>11, <1>12 DEF OvertimeIInv

\* A flag that is cleared was open, so no grant was for it.
LEMMA ClearIInv ==
  ASSUME OvertimeIInv, NEW f \in Accrued!Rows(flags), NEW outcome \in {"Corrected", "ApprovedOvertime"},
         NEW a, Accrued!Clear(f, outcome, a)
  PROVE  OvertimeIInv'
<1>0. flags \in Seq(FlagRow) /\ OneStandingFlag /\ GrantsAreApproved /\ IsSequence(ledger)
  BY DEF OvertimeIInv, FlagsType
<1>1. flags[f] \in FlagRow /\ flags[f].outcome = "none"
  BY <1>0 DEF Accrued!Clear, Accrued!Rows
<1>2. PICK row : row = [flags[f] EXCEPT !.outcome = outcome]
  OBVIOUS
<1>3. row \in FlagRow /\ row.week = flags[f].week /\ row.reason = flags[f].reason /\ row.outcome = outcome
  BY <1>1, <1>2 DEF FlagRow
<1>4. flags' = [flags EXCEPT ![f] = row]
  BY <1>2 DEF Accrued!Clear
<1>5. /\ flags' \in Seq(FlagRow) /\ Len(flags') = Len(flags)
      /\ flags'[f] = row
      /\ \A g \in Accrued!Rows(flags) : g # f => flags'[g] = flags[g]
  BY <1>0, <1>3, <1>4 DEF Accrued!Rows
<1>6. Accrued!Rows(flags)' = Accrued!Rows(flags)
  BY <1>5 DEF Accrued!Rows
<1>7. \A g \in Accrued!Rows(flags) :
        /\ flags'[g].week = flags[g].week /\ flags'[g].reason = flags[g].reason
        /\ flags'[g].outcome = IF g = f THEN outcome ELSE flags[g].outcome
  BY <1>3, <1>5
<1>8. OneStandingFlag'
  BY <1>0, <1>1, <1>6, <1>7 DEF OneStandingFlag
<1>9. \A k \in Accrued!Rows(ledger) : ledger[k].flag # f
  BY <1>0, <1>1 DEF GrantsAreApproved
<1>10. CASE UNCHANGED ledger
  <2>1. Accrued!Rows(ledger)' = Accrued!Rows(ledger)
    BY <1>10 DEF Accrued!Rows
  <2>2. GrantsAreApproved'
    BY <1>0, <1>6, <1>7, <1>9, <1>10, <2>1 DEF GrantsAreApproved
  <2> QED
    BY <1>0, <1>5, <1>8, <1>10, <2>2 DEF OvertimeIInv, FlagsType, IsSequence, FlagRow, Accrued!Reasons
<1>11. CASE ~UNCHANGED ledger
  <2>1. outcome = "ApprovedOvertime" /\ flags[f].reason = "HoursExceedExpected"
    BY <1>11 DEF Accrued!Clear, Accrued!ResolveToilAccrual
  <2>2. PICK entry : ledger' = Append(ledger, entry) /\ entry.flag = f
    BY <1>11 DEF Accrued!Clear, Accrued!NewEntry
  <2>3. PICK S : ledger \in Seq(S)
    BY <1>0 DEF IsSequence
  <2>4. PICK T : T = S \cup {entry}
    OBVIOUS
  <2>5. ledger \in Seq(T) /\ entry \in T
    BY <2>3, <2>4
  <2>6. PICK n : n = Len(ledger) + 1
    OBVIOUS
  <2>7. /\ ledger' \in Seq(T) /\ Len(ledger') = n /\ n \in Nat /\ ledger'[n].flag = f
        /\ \A k \in 1..(n - 1) : ledger'[k] = ledger[k]
    BY <2>2, <2>5, <2>6
  <2>8. Accrued!Rows(ledger)' = 1..n /\ Accrued!Rows(ledger) = 1..(n - 1)
    BY <2>5, <2>6, <2>7 DEF Accrued!Rows
  <2>9. \A k \in 1..n : k = n \/ k \in 1..(n - 1)
    BY <2>7
  <2>10. GrantsAreApproved'
    <3>1. ASSUME NEW k \in 1..n
          PROVE  /\ ledger'[k].flag \in Accrued!Rows(flags)
                 /\ flags'[ledger'[k].flag].reason = "HoursExceedExpected"
                 /\ flags'[ledger'[k].flag].outcome = "ApprovedOvertime"
      <4>1. CASE k = n
        BY <1>7, <2>1, <2>7, <4>1
      <4>2. CASE k \in 1..(n - 1)
        <5>1. k \in Accrued!Rows(ledger) /\ ledger'[k] = ledger[k]
          BY <2>7, <2>8, <4>2
        <5>2. /\ ledger[k].flag \in Accrued!Rows(flags) /\ ledger[k].flag # f
              /\ flags[ledger[k].flag].reason = "HoursExceedExpected"
              /\ flags[ledger[k].flag].outcome = "ApprovedOvertime"
          BY <1>0, <1>9, <5>1 DEF GrantsAreApproved
        <5> QED
          BY <1>7, <5>1, <5>2
      <4> QED
        BY <2>9, <4>1, <4>2
    <3>2. \A k, l \in 1..n : ledger'[k].flag = ledger'[l].flag => k = l
      <4>1. \A k \in 1..(n - 1) : ledger'[k].flag = ledger[k].flag /\ ledger[k].flag # f
        BY <1>9, <2>7, <2>8
      <4>2. \A k, l \in 1..(n - 1) : ledger[k].flag = ledger[l].flag => k = l
        BY <1>0, <2>8, Zenon DEF GrantsAreApproved
      <4>3. ledger'[n].flag = f
        BY <2>7
      <4> QED
        BY <2>9, <4>1, <4>2, <4>3, Zenon
    <3> QED
      BY <1>6, <2>8, <3>1, <3>2 DEF GrantsAreApproved
  <2>11. IsSequence(ledger)'
    BY <2>7 DEF IsSequence
  <2> QED
    BY <1>5, <1>8, <2>10, <2>11 DEF OvertimeIInv, FlagsType, FlagRow, Accrued!Reasons
<1> QED
  BY <1>10, <1>11

\* There are no flags and no grants at first.
LEMMA OvertimeInit == Accrued!Init => OvertimeIInv
<1> SUFFICES ASSUME Accrued!Init PROVE OvertimeIInv
  OBVIOUS
<1>1. flags = <<>> /\ ledger = <<>>
  BY DEF Accrued!Init
<1>2. Accrued!Rows(flags) = {} /\ Accrued!Rows(ledger) = {}
  BY <1>1 DEF Accrued!Rows
<1>3. FlagsType
  BY <1>1 DEF FlagsType
<1>4. ledger \in Seq(FlagRow)
  BY <1>1
<1> QED
  BY <1>2, <1>3, <1>4 DEF OvertimeIInv, IsSequence, OneStandingFlag, GrantsAreApproved

\* Every step preserves the invariant of flags and grants.
LEMMA OvertimeStep == OvertimeIInv /\ [Accrued!Next]_Accrued!vars => OvertimeIInv'
<1> SUFFICES ASSUME OvertimeIInv, [Accrued!Next]_Accrued!vars PROVE OvertimeIInv'
  OBVIOUS
<1>1. CASE UNCHANGED <<flags, ledger>>
  BY <1>1 DEF OvertimeIInv, FlagsType, IsSequence, OneStandingFlag, GrantsAreApproved,
              Accrued!Rows, FlagRow, Accrued!Reasons
<1>2. CASE Accrued!Next
  <2>1. ASSUME NEW f \in Accrued!Rows(flags), NEW outcome \in {"Corrected", "ApprovedOvertime"},
               NEW a \in {Accrued!None, 5000}, Accrued!Clear(f, outcome, a)
        PROVE  OvertimeIInv'
    BY <2>1, ClearIInv
  <2>2. ASSUME NEW w \in PaidWeeks, Accrued!TimesheetAnomalyEvaluate(w)
        PROVE  OvertimeIInv'
    BY <2>2, EvaluateOvertimeIInv
  <2>3. ASSUME NEW w \in PaidWeeks, NEW rows \in Contents, Accrued!Submit(w, rows)
        PROVE  OvertimeIInv'
    BY <1>1, <2>3 DEF Accrued!Submit
  <2>4. ASSUME NEW w \in PaidWeeks, Accrued!Unlock(w) \/ Accrued!EvaluationIsLost(w)
        PROVE  OvertimeIInv'
    BY <1>1, <2>4 DEF Accrued!Unlock, Accrued!EvaluationIsLost
  <2>5. CASE Accrued!NextDay
    BY <1>1, <2>5 DEF Accrued!NextDay
  <2>6. ASSUME NEW terms, NEW from, Accrued!LeavePolicyCreate(terms, from)
        PROVE  OvertimeIInv'
    BY <1>1, <2>6 DEF Accrued!LeavePolicyCreate
  <2>7. ASSUME NEW terms, NEW from, NEW p, NEW v, Accrued!LeavePolicyUpdate(p, v, terms, from)
        PROVE  OvertimeIInv'
    BY <1>1, <2>7 DEF Accrued!LeavePolicyUpdate
  <2> QED
    BY <1>2, <2>1, <2>2, <2>3, <2>4, <2>5, <2>6, <2>7 DEF Accrued!Next
<1>3. CASE UNCHANGED Accrued!vars
  BY <1>1, <1>3 DEF Accrued!vars
<1> QED
  BY <1>2, <1>3

\* The invariant of flags and grants.
LEMMA OvertimeInvariant == Accrued!Spec => []OvertimeIInv
  BY OvertimeInit, OvertimeStep, PTL DEF Accrued!Spec

\* One standing flag of overtime a week is one grant a week.
LEMMA GrantedHolds == ASSUME OvertimeIInv PROVE Accrued!OvertimeIsGrantedOnce
<1>0. OneStandingFlag /\ GrantsAreApproved
  BY DEF OvertimeIInv
<1>1. \A f, g \in Accrued!ActiveAnomalies :
        flags[f].week = flags[g].week /\ flags[f].reason = flags[g].reason => f = g
  BY <1>0 DEF OneStandingFlag, Accrued!ActiveAnomalies
<1>2. \A k, l \in Accrued!Rows(ledger) :
        flags[ledger[k].flag].week = flags[ledger[l].flag].week => k = l
  <2> TAKE k, l \in Accrued!Rows(ledger)
  <2> HAVE flags[ledger[k].flag].week = flags[ledger[l].flag].week
  <2>1. ledger[k].flag = ledger[l].flag
    BY <1>0 DEF OneStandingFlag, GrantsAreApproved
  <2> QED
    BY <1>0, <2>1 DEF GrantsAreApproved
<1> QED
  BY <1>1, <1>2 DEF Accrued!OvertimeIsGrantedOnce

-----------------------------------------------------------------------------
(* Overtime: finite sums and greatest elements *)

\* A set of naturals that is not empty has a least element.
LEMMA LeastNat ==
  ASSUME NEW S \in SUBSET Nat, S # {}
  PROVE  \E x \in S : \A y \in S : x <= y
<1>1. PICK n \in S : n \in Nat
  OBVIOUS
<1>2. PICK M : M = {n - s : s \in {s \in S : s <= n}}
  OBVIOUS
<1>3. M \in SUBSET (0..n) /\ M # {}
  <2>1. n - n \in M
    BY <1>1, <1>2
  <2> QED
    BY <1>1, <1>2, <2>1
<1>4. M \in SUBSET Int /\ IsFiniteSet(M)
  <2>1. PICK I : I = 0..n
    OBVIOUS
  <2>2. IsFiniteSet(I) /\ M \in SUBSET I /\ I \subseteq Int
    BY <1>1, <1>3, <2>1, FS_Interval
  <2> QED
    BY <2>2, FS_Subset
<1>5. PICK z \in M : \A y \in M : z >= y
  BY <1>3, <1>4, MaxOfFinite
<1>6. PICK x \in S : z = n - x /\ x <= n
  BY <1>2
<1>7. ASSUME NEW y \in S PROVE x <= y
  <2>1. x \in Nat /\ y \in Nat
    OBVIOUS
  <2>2. CASE y <= n
    <3>1. n - y \in M
      BY <1>2, <2>2
    <3>2. n - x >= n - y
      BY <1>5, <1>6, <3>1
    <3> QED
      BY <1>1, <2>1, <3>2
  <2>3. CASE y > n
    BY <1>1, <1>6, <2>1, <2>3
  <2> QED
    BY <1>1, <2>1, <2>2, <2>3
<1> QED
  BY <1>7

\* The greater and the lesser of two numbers.
LEMMA PickedOfTwo ==
  ASSUME NEW a \in Int, NEW b \in Int
  PROVE  /\ Accrued!Max({a, b}) = IF a >= b THEN a ELSE b
         /\ Accrued!Min({a, b}) = IF a <= b THEN a ELSE b
<1>1. PICK S : S = {a, b}
  OBVIOUS
<1>2. ASSUME NEW x \in S, \A y \in S : x >= y PROVE x = IF a >= b THEN a ELSE b
  BY <1>1, <1>2
<1>3. ASSUME NEW x \in S, \A y \in S : x <= y PROVE x = IF a <= b THEN a ELSE b
  BY <1>1, <1>3
<1>4. \E x \in S : \A y \in S : x >= y
  BY <1>1
<1>5. \E x \in S : \A y \in S : x <= y
  BY <1>1
<1>6. Accrued!Max(S) = IF a >= b THEN a ELSE b
  BY <1>2, <1>4 DEF Accrued!Max
<1>7. Accrued!Min(S) = IF a <= b THEN a ELSE b
  BY <1>3, <1>5 DEF Accrued!Min
<1> QED
  BY <1>1, <1>6, <1>7

\* What entries sum to on a day is a total of the days of those that are live.
LiveEntries(rows, d) == {k \in 1..Len(rows) : Accrued!LiveOn(rows[k], d)}
BalanceOf(rows, d) == Accrued!MapThenSumSet(LAMBDA k : rows[k].days, LiveEntries(rows, d))

\* A balance is the total of the days of what is live.
LEMMA BalanceIsTotal ==
  ASSUME NEW rows, NEW d, NEW f, NEW S, S = LiveEntries(rows, d),
         IsFiniteSet(S), \A k \in S : f[k] = rows[k].days
  PROVE  BalanceOf(rows, d) = Total(f, S)
<1> DEFINE P(g) == g = [s \in SUBSET S |-> IF s = {} THEN 0
                                           ELSE rows[Elem(s)].days + g[s \ {Elem(s)}]]
<1>0. \A h : Sums(h, f, S) => Total(f, S) = h[S]
  BY TotalOfSums
<1>1. BalanceOf(rows, d) = (CHOOSE g : P(g))[S]
  BY DEF BalanceOf, Accrued!MapThenSumSet, Accrued!MapThenFoldSet, Elem
<1>2. \A s \in SUBSET S : s # {} => f[Elem(s)] = rows[Elem(s)].days
  BY DEF Elem
<1>3. \A g : P(g) <=> Sums(g, f, S)
  BY <1>2 DEF Sums
<1> HIDE DEF P
<1>4. PICK g : g = CHOOSE k : P(k)
  OBVIOUS
<1>5. Sums(g, f, S)
  BY <1>3, <1>4, SumsExist
<1>6. BalanceOf(rows, d) = g[S]
  BY <1>1, <1>4
<1>8. Total(f, S) = g[S]
  BY <1>0, <1>5
<1> QED
  BY <1>6, <1>8

\* The hours of a week that is submitted add up to a number.
LEMMA LoggedIsANumber ==
  ASSUME NEW rows \in Contents \cup {{}}
  PROVE  Accrued!LoggedHours(rows) \in Int
<1>1. PICK S : S = {x \in rows : x.row # "pitch"}
  OBVIOUS
<1>2. IsFiniteSet(rows) /\ S \in SUBSET rows /\ \A x \in rows : x.hours \in Int
  <2>1. CASE rows \in Contents
    BY <1>1, <2>1, OvertimeAssumption
  <2>2. CASE rows = {}
    BY <1>1, <2>2, FS_EmptySet
  <2> QED
    BY <2>1, <2>2
<1>3. IsFiniteSet(S) /\ \A x \in S : x.hours \in Int
  BY <1>2, FS_Subset
<1> DEFINE P(g) == g = [s \in SUBSET S |-> IF s = {} THEN 0
                                           ELSE Elem(s).hours + g[s \ {Elem(s)}]]
<1>4. Accrued!LoggedHours(rows) = (CHOOSE g : P(g))[S]
  BY <1>1 DEF Accrued!LoggedHours, Accrued!MapThenSumSet, Accrued!MapThenFoldSet, Elem
<1>5. PICK f : f = [x \in S |-> x.hours]
  OBVIOUS
<1>6. \A x \in S : f[x] = x.hours /\ f[x] \in Int
  BY <1>3, <1>5
<1>7. \A s \in SUBSET S : s # {} => f[Elem(s)] = Elem(s).hours
  BY <1>6 DEF Elem
<1>8. \A g : P(g) <=> Sums(g, f, S)
  BY <1>7 DEF Sums
<1> HIDE DEF P
<1>9. PICK g : g = CHOOSE k : P(k)
  OBVIOUS
<1>10. Sums(g, f, S)
  BY <1>3, <1>8, <1>9, SumsExist
<1>11. S \in SUBSET S
  OBVIOUS
<1>12. g[S] \in Int
  BY <1>3, <1>6, <1>10, <1>11, SumsTake
<1> QED
  BY <1>4, <1>9, <1>12

-----------------------------------------------------------------------------
(* Overtime: versions of a policy and the cap *)

PolicyRow == [terms : Terms, from : Accrued!Dates, version : Nat, supersedes : Nat,
              active : BOOLEAN, row : Nat]
EntryRow == [days : Nat, from : Nat, policy : Nat, flag : Nat, expires : Nat]

\* A version supersedes one written before it, and is active until one supersedes it.
PoliciesInLine ==
  /\ policies \in Seq(PolicyRow)
  /\ \A p \in Accrued!Rows(policies) : policies[p].supersedes \in 0..(p - 1)
  /\ \A p \in Accrued!Rows(policies) :
       policies[p].active <=> \A q \in Accrued!Rows(policies) : policies[q].supersedes # p

\* A grant was priced by a version that was in force on its day, which is past.
GrantsArePriced ==
  /\ ledger \in Seq(EntryRow)
  /\ \A k \in Accrued!Rows(ledger) :
       /\ ledger[k].from <= today
       /\ ledger[k].policy \in Accrued!Rows(policies)
       /\ policies[ledger[k].policy].from <= ledger[k].from
       /\ policies[ledger[k].policy].terms.toil

\* The cap that held at the last grant is still one of a version there is.
UnderACap ==
  ledger # <<>> => \E p \in Accrued!Rows(policies) : BalanceOf(ledger, today) <= policies[p].terms.cap

BalanceIInv ==
  /\ submitted \in [PaidWeeks -> Contents \cup {{}}] /\ today \in 1..Today
  /\ PoliciesInLine /\ GrantsArePriced /\ UnderACap

\* What a version of a policy holds, field by field.
LEMMA PolicyFields ==
  ASSUME NEW x \in PolicyRow
  PROVE  /\ x.terms \in Terms /\ x.from \in Int /\ x.version \in Int /\ x.row \in Int
         /\ x.terms.cap \in Nat /\ x.terms.rate \in Nat /\ x.terms.expiry \in Nat
         /\ x.terms.toil \in BOOLEAN
<1>1. x.terms \in Terms /\ x.from \in Int /\ x.version \in Int /\ x.row \in Int
  BY DEF PolicyRow, Accrued!Dates
<1>2. x.terms \in [toil : BOOLEAN, rate : Nat, cap : Nat, expiry : Nat]
  BY <1>1, OvertimeAssumption
<1> QED
  BY <1>1, <1>2

\* A balance with one more entry is more by the days of the entry at most.
LEMMA BalanceGrows ==
  ASSUME NEW rows \in Seq(EntryRow), NEW entry \in EntryRow, NEW d \in Int
  PROVE  /\ BalanceOf(rows, d) \in Nat
         /\ BalanceOf(Append(rows, entry), d) <= BalanceOf(rows, d) + entry.days
<1>1. PICK more : more = Append(rows, entry)
  OBVIOUS
<1>2. PICK n : n = Len(rows) + 1
  OBVIOUS
<1>3. /\ n \in Nat \ {0} /\ Len(rows) = n - 1 /\ Len(more) = n /\ more[n] = entry
      /\ \A k \in 1..(n - 1) : more[k] = rows[k]
      /\ more \in Seq(EntryRow)
  BY <1>1, <1>2
<1>4. \A k \in 1..n : more[k].days \in Nat
  <2>1. \A k \in 1..n : more[k] \in EntryRow
    BY <1>3
  <2> QED
    BY <2>1 DEF EntryRow
<1>5. PICK f : f = [k \in 1..n |-> more[k].days]
  OBVIOUS
<1>6. PICK S : S = LiveEntries(rows, d)
  OBVIOUS
<1>7. PICK T : T = LiveEntries(more, d)
  OBVIOUS
<1>8. S \subseteq 1..(n - 1) /\ S \subseteq T /\ T \subseteq S \cup {n} /\ n \notin S /\ T \subseteq 1..n
  <2>1. \A k \in 1..n : k \in 1..(n - 1) \/ k = n
    BY <1>3
  <2>2. 1..(n - 1) \subseteq 1..n /\ n \notin 1..(n - 1)
    BY <1>3
  <2> QED
    BY <1>3, <1>6, <1>7, <2>1, <2>2 DEF LiveEntries
<1>9. IsFiniteSet(S) /\ IsFiniteSet(T)
  <2>1. PICK I : I = 1..n
    OBVIOUS
  <2>2. IsFiniteSet(I)
    BY <1>3, <2>1, FS_Interval
  <2>3. S \subseteq I /\ T \subseteq I
    BY <1>8, <2>1
  <2> QED
    BY <2>2, <2>3, FS_Subset
<1>10. \A k \in T : f[k] \in Nat /\ f[k] \in Int /\ f[k] = more[k].days
  <2>1. \A k \in 1..n : f[k] = more[k].days
    BY <1>5
  <2>2. \A k \in 1..n : f[k] \in Nat /\ f[k] \in Int
    BY <1>4, <2>1
  <2>3. \A k \in T : k \in 1..n
    BY <1>8
  <2> QED
    BY <2>1, <2>2, <2>3
<1>11. \A k \in S : f[k] \in Nat /\ f[k] \in Int /\ f[k] = rows[k].days
  BY <1>3, <1>8, <1>10
<1>12. BalanceOf(rows, d) = Total(f, S)
  BY <1>6, <1>9, <1>11, BalanceIsTotal
<1>13. BalanceOf(more, d) = Total(f, T)
  BY <1>7, <1>9, <1>10, BalanceIsTotal
<1>14. Total(f, S) \in Int /\ 0 <= Total(f, S)
  <2>1. S \in SUBSET S
    OBVIOUS
  <2> QED
    BY <1>9, <1>11, <2>1, TotalTakes, TotalOfPart
<1>15. entry.days \in Nat
  BY DEF EntryRow
<1>16. CASE n \notin T
  <2>1. T = S
    BY <1>8, <1>16
  <2> QED
    BY <1>1, <1>12, <1>13, <1>14, <1>15, <2>1
<1>17. CASE n \in T
  <2>1. T \ {n} = S
    BY <1>8, <1>17
  <2>2. Total(f, T) = f[n] + Total(f, S)
    BY <1>9, <1>10, <1>17, <2>1, TotalTakes
  <2>3. f[n] = entry.days
    BY <1>3, <1>10, <1>17
  <2> QED
    BY <1>1, <1>12, <1>13, <1>14, <1>15, <2>2, <2>3
<1> QED
  BY <1>16, <1>17

\* A day later the entries that are left are some of those there were.
LEMMA BalanceFalls ==
  ASSUME NEW rows \in Seq(EntryRow), NEW d \in Int, \A k \in 1..Len(rows) : rows[k].from <= d
  PROVE  BalanceOf(rows, d) \in Int /\ BalanceOf(rows, d + 1) \in Int
         /\ BalanceOf(rows, d + 1) <= BalanceOf(rows, d)
<1>1. PICK n : n = Len(rows)
  OBVIOUS
<1>2. n \in Nat /\ \A k \in 1..n : /\ rows[k].days \in Nat /\ rows[k].from \in Nat
                                   /\ rows[k].expires \in Nat
  <2>1. n \in Nat /\ \A k \in 1..n : rows[k] \in EntryRow
    BY <1>1
  <2> QED
    BY <2>1 DEF EntryRow
<1>3. PICK f : f = [k \in 1..n |-> rows[k].days]
  OBVIOUS
<1>4. PICK S : S = LiveEntries(rows, d)
  OBVIOUS
<1>5. PICK T : T = LiveEntries(rows, d + 1)
  OBVIOUS
<1>6. T \subseteq S /\ S \subseteq 1..n
  BY <1>1, <1>2, <1>4, <1>5 DEF LiveEntries, Accrued!LiveOn
<1>7. IsFiniteSet(S) /\ IsFiniteSet(T)
  <2>1. PICK I : I = 1..n
    OBVIOUS
  <2>2. IsFiniteSet(I)
    BY <1>2, <2>1, FS_Interval
  <2>3. S \subseteq I /\ T \subseteq I
    BY <1>6, <2>1
  <2> QED
    BY <2>2, <2>3, FS_Subset
<1>8. /\ \A k \in S : f[k] \in Nat /\ f[k] \in Int /\ f[k] = rows[k].days
      /\ \A k \in T : f[k] \in Nat /\ f[k] \in Int /\ f[k] = rows[k].days
  BY <1>2, <1>3, <1>6
<1>9. BalanceOf(rows, d) = Total(f, S)
  BY <1>4, <1>7, <1>8, BalanceIsTotal
<1>10. BalanceOf(rows, d + 1) = Total(f, T)
  BY <1>5, <1>7, <1>8, BalanceIsTotal
<1>11. Total(f, S) \in Int /\ Total(f, T) \in Int
  BY <1>7, <1>8, TotalTakes
<1>12. Total(f, T) <= Total(f, S)
  BY <1>6, <1>7, <1>8, TotalOfPart
<1> QED
  BY <1>9, <1>10, <1>11, <1>12

\* Among finitely many there is one that begins last, and is the highest of those.
LEMMA LatestOfMany ==
  ASSUME NEW S, IsFiniteSet(S), S # {}, NEW a, NEW b, \A x \in S : a[x] \in Int /\ b[x] \in Int
  PROVE  \E q \in S : \A r \in S : a[r] < a[q] \/ (a[r] = a[q] /\ b[r] <= b[q])
<1> DEFINE Before(r, q) == a[r] < a[q] \/ (a[r] = a[q] /\ b[r] <= b[q])
           Bad == {s \in SUBSET S : s # {} /\ ~ \E q \in s : \A r \in s : Before(r, q)}
<1>1. /\ \A x, y \in S : Before(x, y) \/ Before(y, x)
      /\ \A x, y, z \in S : Before(x, y) /\ Before(y, z) => Before(x, z)
  OBVIOUS
<1> HIDE DEF Before
<1>2. SUFFICES ASSUME Bad # {} PROVE FALSE
  BY DEF Before
<1>3. /\ \A s \in Bad : s \subseteq S
      /\ \A s : s \in Bad <=>
            s \in SUBSET S /\ s # {} /\ ~ \E q \in s : \A r \in s : Before(r, q)
  OBVIOUS
<1> HIDE DEF Bad
<1>4. PICK s \in Bad : \A u \in Bad : u \subseteq s => u = s
  BY <1>2, <1>3, LeastPart
<1>5. s \in SUBSET S /\ s # {} /\ ~ \E q \in s : \A r \in s : Before(r, q)
  BY <1>3, <1>4
<1>6. PICK x \in s : x \in S
  BY <1>5
<1>7. s \ {x} \in SUBSET S /\ s \ {x} \notin Bad
  BY <1>4, <1>5
<1>8. s \ {x} # {}
  <2>1. Before(x, x)
    BY <1>1, <1>6
  <2> QED
    BY <1>5, <1>6, <2>1
<1>9. PICK z \in s \ {x} : \A y \in s \ {x} : Before(y, z)
  BY <1>3, <1>7, <1>8
<1>10. z \in S /\ z \in s
  BY <1>5, <1>9
<1>11. CASE Before(x, z)
  <2>1. \A y \in s : Before(y, z)
    BY <1>9, <1>11
  <2> QED
    BY <1>5, <1>10, <2>1
<1>12. CASE Before(z, x)
  <2>1. \A y \in s : Before(y, x)
    BY <1>1, <1>5, <1>6, <1>9, <1>10, <1>12
  <2> QED
    BY <1>5, <1>6, <2>1
<1> QED
  BY <1>1, <1>6, <1>10, <1>11, <1>12

\* The line of versions a policy comes from is computed from what each one supersedes.
LEMMA LineageIsOfRows ==
  ASSUME PoliciesInLine, NEW p \in Accrued!Rows(policies)
  PROVE  Accrued!PolicyLineage(p) \subseteq Accrued!Rows(policies)
<1> DEFINE P(g) == g = [q \in 0..p |-> IF q = Accrued!None THEN {}
                                       ELSE {q} \cup g[policies[q].supersedes]]
<1>1. Accrued!PolicyLineage(p) = (CHOOSE g : P(g))[p]
  BY DEF Accrued!PolicyLineage
<1>2. PICK s : s = [q \in 1..p |-> policies[q].supersedes]
  OBVIOUS
<1>3. p \in Nat \ {0} /\ 1..p \subseteq Accrued!Rows(policies)
  <2>1. PICK n : n = Len(policies)
    OBVIOUS
  <2>2. n \in Nat /\ Accrued!Rows(policies) = 1..n
    BY <2>1 DEF PoliciesInLine, Accrued!Rows
  <2> QED
    BY <2>2
<1>4. \A q \in 1..p : s[q] \in 0..(q - 1)
  BY <1>2, <1>3 DEF PoliciesInLine
<1>5. \A g : P(g) <=> g = [q \in 0..p |-> IF q = 0 THEN {} ELSE {q} \cup g[s[q]]]
  <2>1. \A q \in 0..p : q # 0 => q \in 1..p
    BY <1>3
  <2>2. \A q \in 0..p : q # 0 => s[q] = policies[q].supersedes
    BY <1>2, <2>1
  <2> QED
    BY <2>2 DEF Accrued!None
<1> HIDE DEF P
<1>6. \E g : P(g)
  <2> DEFINE Closed(C) == \A q \in C : q # 0 => s[q] \in C
             L(q) == {r \in 1..p : \A C \in SUBSET (0..p) : q \in C /\ Closed(C) => r \in C}
  <2>1. L(0) = {}
    <3>1. {0} \in SUBSET (0..p) /\ Closed({0})
      BY <1>3
    <3>2. \A r \in 1..p : r \notin {0}
      OBVIOUS
    <3> QED
      BY <3>1, <3>2
  <2>2. ASSUME NEW q \in 0..p, q # 0 PROVE L(q) = {q} \cup L(s[q])
    <3>1. q \in 1..p /\ s[q] \in 0..p
      <4>1. q \in 1..p
        BY <1>3, <2>2
      <4>2. s[q] \in 0..(q - 1)
        BY <1>4, <4>1
      <4> QED
        BY <1>3, <4>1, <4>2
    <3>2. q \in L(q)
      BY <3>1
    <3>3. \A r \in L(s[q]) : r \in L(q)
      BY <2>2, <3>1
    <3>4. ASSUME NEW r \in L(q), r # q PROVE r \in L(s[q])
      <4>1. ASSUME NEW C \in SUBSET (0..p), s[q] \in C, Closed(C) PROVE r \in C
        <5>1. C \cup {q} \in SUBSET (0..p) /\ q \in C \cup {q} /\ Closed(C \cup {q})
          BY <4>1
        <5> HIDE DEF Closed
        <5>2. r \in C \cup {q}
          BY <5>1
        <5> QED
          BY <3>4, <5>2
      <4> HIDE DEF Closed
      <4> QED
        BY <4>1
    <3> HIDE DEF L
    <3> QED
      BY <3>2, <3>3, <3>4
  <2>3. PICK g : g = [q \in 0..p |-> L(q)]
    OBVIOUS
  <2>4. \A q \in 0..p : q # 0 => s[q] \in 0..p
    <3>1. \A q \in 0..p : q # 0 => q \in 1..p
      BY <1>3
    <3>2. \A q \in 1..p : s[q] \in 0..p
      BY <1>3, <1>4
    <3> QED
      BY <3>1, <3>2
  <2> HIDE DEF L
  <2>5. \A q \in 0..p : g[q] = IF q = 0 THEN {} ELSE {q} \cup g[s[q]]
    BY <2>1, <2>2, <2>3, <2>4
  <2>6. g = [q \in 0..p |-> IF q = 0 THEN {} ELSE {q} \cup g[s[q]]]
    BY <2>3, <2>5
  <2> QED
    BY <1>5, <2>6
<1>7. PICK g : g = CHOOSE k : P(k)
  OBVIOUS
<1>8. \A q \in 0..p : g[q] = IF q = 0 THEN {} ELSE {q} \cup g[s[q]]
  <2>1. P(g)
    BY <1>6, <1>7
  <2> QED
    BY <1>5, <2>1
<1>9. \A q \in 0..p : g[q] \subseteq 1..p
  <2> DEFINE Bad == {q \in 0..p : ~ (g[q] \subseteq 1..p)}
  <2> SUFFICES ASSUME Bad # {} PROVE FALSE
    OBVIOUS
  <2>1. Bad # {} /\ Bad \in SUBSET Nat /\ \A q : q \in Bad <=> q \in 0..p /\ ~ (g[q] \subseteq 1..p)
    OBVIOUS
  <2> HIDE DEF Bad
  <2>2. PICK q \in Bad : \A r \in Bad : q <= r
    BY <2>1, LeastNat
  <2>3. q \in 0..p /\ ~ (g[q] \subseteq 1..p)
    BY <2>1, <2>2
  <2>4. q # 0 /\ g[q] = {q} \cup g[s[q]]
    <3>1. 0 \in 0..p
      BY <1>3
    <3>2. g[0] = {}
      BY <1>8, <3>1
    <3> QED
      BY <1>8, <2>3, <3>2
  <2>5. q \in 1..p /\ s[q] \in 0..p /\ s[q] < q
    <3>1. q \in 1..p
      BY <1>3, <2>3, <2>4
    <3>2. s[q] \in 0..(q - 1)
      BY <1>4, <3>1
    <3> QED
      BY <1>3, <3>1, <3>2
  <2>6. s[q] \notin Bad
    BY <1>3, <2>1, <2>2, <2>5
  <2>7. g[s[q]] \subseteq 1..p
    BY <2>1, <2>5, <2>6
  <2> QED
    BY <2>3, <2>4, <2>5, <2>7
<1>10. g[p] \subseteq 1..p
  BY <1>3, <1>9
<1> QED
  BY <1>1, <1>3, <1>7, <1>10

\* Finitely many rows.
LEMMA PoliciesAreFinite ==
  ASSUME PoliciesInLine
  PROVE  IsFiniteSet(Accrued!Rows(policies)) /\ Accrued!Rows(policies) \subseteq Nat \ {0}
<1>1. PICK n : n = Len(policies)
  OBVIOUS
<1>2. PICK I : I = 1..n
  OBVIOUS
<1>3. n \in Nat /\ Accrued!Rows(policies) = I
  BY <1>1, <1>2 DEF PoliciesInLine, Accrued!Rows
<1>4. IsFiniteSet(I) /\ I \subseteq Nat \ {0}
  BY <1>2, <1>3, FS_Interval
<1> QED
  BY <1>3, <1>4

\* What is in force on a day is a version that has begun.
LEMMA InForceHasBegun ==
  ASSUME PoliciesInLine, NEW d, NEW p \in Accrued!Rows(policies),
         Accrued!VersionInForce(p, d) # Accrued!None
  PROVE  /\ Accrued!VersionInForce(p, d) \in Accrued!Rows(policies)
         /\ policies[Accrued!VersionInForce(p, d)].from <= d
<1>1. PICK S : S = {q \in Accrued!PolicyLineage(p) : policies[q].from <= d}
  OBVIOUS
<1>2. S # {} /\ Accrued!VersionInForce(p, d) = CHOOSE q \in S : \A r \in S :
            \/ policies[r].from < policies[q].from
            \/ policies[r].from = policies[q].from /\ policies[r].version <= policies[q].version
  BY <1>1 DEF Accrued!VersionInForce
<1>3. S \subseteq Accrued!Rows(policies)
  BY <1>1, LineageIsOfRows
<1>4. IsFiniteSet(S)
  BY <1>3, PoliciesAreFinite, FS_Subset
<1>5. PICK a : a = [q \in S |-> policies[q].from]
  OBVIOUS
<1>6. PICK b : b = [q \in S |-> policies[q].version]
  OBVIOUS
<1>7. \A x \in S : a[x] = policies[x].from /\ b[x] = policies[x].version /\ a[x] \in Int /\ b[x] \in Int
  <2>1. \A x \in S : policies[x] \in PolicyRow
    BY <1>3 DEF PoliciesInLine, Accrued!Rows
  <2> QED
    BY <1>5, <1>6, <2>1, PolicyFields
<1>8. PICK q \in S : \A r \in S : a[r] < a[q] \/ (a[r] = a[q] /\ b[r] <= b[q])
  BY <1>2, <1>4, <1>7, LatestOfMany
<1>9. \A r \in S : \/ policies[r].from < policies[q].from
                   \/ policies[r].from = policies[q].from /\ policies[r].version <= policies[q].version
  BY <1>7, <1>8
<1>10. Accrued!VersionInForce(p, d) \in S
  BY <1>2, <1>9
<1> QED
  BY <1>1, <1>3, <1>10

\* The policy a grant is looked up from is one there is.
LEMMA LatestIsARow ==
  ASSUME PoliciesInLine, Accrued!LatestPolicy # Accrued!None
  PROVE  Accrued!LatestPolicy \in Accrued!Rows(policies)
<1>1. PICK S : S = Accrued!MatchingPolicies
  OBVIOUS
<1>2. S # {} /\ S \subseteq Accrued!Rows(policies) /\ Accrued!LatestPolicy = Accrued!Max(S)
  BY <1>1 DEF Accrued!LatestPolicy, Accrued!MatchingPolicies
<1>3. IsFiniteSet(S) /\ S \in SUBSET Int
  BY <1>2, PoliciesAreFinite, FS_Subset
<1>4. \E x \in S : \A y \in S : x >= y
  BY <1>2, <1>3, MaxOfFinite
<1>5. Accrued!Max(S) \in S
  BY <1>4 DEF Accrued!Max
<1> QED
  BY <1>2, <1>5

\* A grant leaves what is held under the cap of the version that priced it.
LEMMA GrantIsUnderTheCap ==
  ASSUME BalanceIInv, OvertimeIInv, NEW f \in Accrued!Rows(flags), NEW grant,
         grant = Accrued!ResolveToilAccrual(f), grant.days # 0
  PROVE  /\ grant.days \in Nat
         /\ grant.policy \in Accrued!Rows(policies)
         /\ policies[grant.policy].from <= today
         /\ policies[grant.policy].terms.toil
         /\ BalanceOf(ledger, today) + grant.days <= policies[grant.policy].terms.cap
<1>0. PoliciesInLine /\ GrantsArePriced /\ today \in Int
  BY DEF BalanceIInv
<1>1. PICK week : week = flags[f].week
  OBVIOUS
<1>2. week \in PaidWeeks
  <2>1. flags[f] \in FlagRow
    BY DEF OvertimeIInv, FlagsType, Accrued!Rows
  <2> QED
    BY <1>1, <2>1 DEF FlagRow
<1>3. PICK held : held = Accrued!Balance(today)
  OBVIOUS
<1>4. held = BalanceOf(ledger, today) /\ held \in Nat
  <2>1. held = BalanceOf(ledger, today)
    BY <1>3 DEF Accrued!Balance, BalanceOf, LiveEntries, Accrued!Rows
  <2>2. [days |-> 0, from |-> 0, policy |-> 0, flag |-> 0, expires |-> 0] \in EntryRow
    BY DEF EntryRow
  <2>3. ledger \in Seq(EntryRow)
    BY <1>0 DEF GrantsArePriced
  <2> QED
    BY <1>0, <2>1, <2>2, <2>3, BalanceGrows
<1>5. PICK v : v = Accrued!VersionInForce(Accrued!LatestPolicy, today)
  OBVIOUS
<1>6. PICK days : days = Accrued!GrantedDays(week, policies[v].terms, held)
  OBVIOUS
<1>7. /\ Accrued!LatestPolicy # Accrued!None /\ v # Accrued!None
      /\ policies[v].terms.toil
      /\ grant = [days |-> days, policy |-> v]
  BY <1>1, <1>3, <1>5, <1>6 DEF Accrued!ResolveToilAccrual
<1>8. v \in Accrued!Rows(policies) /\ policies[v].from <= today
  BY <1>0, <1>5, <1>7, LatestIsARow, InForceHasBegun
<1>9. PICK terms : terms = policies[v].terms
  OBVIOUS
<1>10. terms.cap \in Nat /\ terms.rate \in Nat
  <2>1. policies[v] \in PolicyRow
    BY <1>0, <1>8 DEF PoliciesInLine, Accrued!Rows
  <2> QED
    BY <1>9, <2>1, PolicyFields
<1>11. days \in Nat /\ (days # 0 => held + days <= terms.cap)
  <2>1. PICK logged : logged = Accrued!LoggedHours(submitted[week])
    OBVIOUS
  <2>2. PICK expected : expected = ExpectedHours[week]
    OBVIOUS
  <2>3. logged \in Int /\ expected \in Nat /\ WorkingDays[week] \in Nat
    <3>1. submitted[week] \in Contents \cup {{}}
      BY <1>2 DEF BalanceIInv
    <3> QED
      BY <1>2, <2>1, <2>2, <3>1, LoggedIsANumber, OvertimeAssumption
  <2>4. PICK over : over = Accrued!Max({0, logged - expected})
    OBVIOUS
  <2>5. over \in Nat
    BY <2>3, <2>4, PickedOfTwo
  <2>6. PICK worth : worth = over * WorkingDays[week] * terms.rate * 100
    OBVIOUS
  <2>7. worth \in Nat
    <3>1. \A i, j \in Nat : i * j \in Nat
      OBVIOUS
    <3> QED
      BY <1>10, <2>3, <2>5, <2>6, <3>1
  <2>8. PICK requested : requested = IF expected = 0 THEN 0 ELSE Accrued!RoundDiv(worth, expected)
    OBVIOUS
  <2>9. requested \in Nat
    <3>1. CASE expected = 0
      BY <2>8, <3>1
    <3>2. CASE expected # 0
      <4>1. PICK num : num = 2 * worth + expected
        OBVIOUS
      <4>2. PICK den : den = 2 * expected
        OBVIOUS
      <4>3. num \in Nat /\ den \in Nat \ {0}
        BY <2>3, <2>7, <3>2, <4>1, <4>2
      <4>4. num \div den \in Nat
        BY <4>3
      <4> QED
        BY <2>8, <3>2, <4>1, <4>2, <4>4 DEF Accrued!RoundDiv
    <3> QED
      BY <3>1, <3>2
  <2>10. PICK left : left = Accrued!Max({0, terms.cap - held})
    OBVIOUS
  <2>11. left \in Nat /\ (left # 0 => held + left = terms.cap)
    BY <1>4, <1>10, <2>10, PickedOfTwo
  <2>12. days = Accrued!Min({requested, left})
    BY <1>6, <1>9, <2>1, <2>2, <2>4, <2>6, <2>8, <2>10 DEF Accrued!GrantedDays
  <2>13. days = IF requested <= left THEN requested ELSE left
    <3>1. \A x, y \in Int : Accrued!Min({x, y}) = IF x <= y THEN x ELSE y
      BY PickedOfTwo
    <3>2. requested \in Int /\ left \in Int
      BY <2>9, <2>11
    <3> QED
      BY <2>12, <3>1, <3>2
  <2> QED
    BY <1>4, <1>10, <2>9, <2>11, <2>13
<1>12. grant.days = days /\ grant.policy = v
  BY <1>7
<1> QED
  BY <1>4, <1>7, <1>8, <1>9, <1>11, <1>12

\* A clearance that grants days leaves the balance under a cap.
LEMMA ClearBalanceIInv ==
  ASSUME BalanceIInv, OvertimeIInv, NEW f \in Accrued!Rows(flags), NEW outcome, NEW a,
         Accrued!Clear(f, outcome, a)
  PROVE  BalanceIInv'
<1>0. PoliciesInLine /\ GrantsArePriced /\ today \in 1..Today /\ today \in Nat
      /\ submitted \in [PaidWeeks -> Contents \cup {{}}] /\ UNCHANGED <<submitted, policies, today>>
  BY OvertimeAssumption DEF BalanceIInv, Accrued!Clear
<1>1. PoliciesInLine'
  BY <1>0 DEF PoliciesInLine, Accrued!Rows, PolicyRow, Accrued!Dates
<1>2. PICK grant : grant = IF outcome = "ApprovedOvertime" THEN Accrued!ResolveToilAccrual(f)
                           ELSE [days |-> 0, policy |-> Accrued!None]
  OBVIOUS
<1>3. ledger' = IF grant.days = 0 THEN ledger ELSE Append(ledger, Accrued!NewEntry(f, grant))
  BY <1>2 DEF Accrued!Clear
<1>4. CASE grant.days = 0
  <2>1. UNCHANGED ledger
    BY <1>3, <1>4
  <2>2. BalanceOf(ledger, today)' = BalanceOf(ledger, today)
    BY <1>0, <2>1 DEF BalanceOf, LiveEntries, Accrued!LiveOn, Accrued!MapThenSumSet,
                      Accrued!MapThenFoldSet
  <2>3. GrantsArePriced'
    BY <1>0, <2>1 DEF GrantsArePriced, Accrued!Rows, EntryRow
  <2>4. UnderACap'
    BY <1>0, <2>1, <2>2 DEF BalanceIInv, UnderACap, Accrued!Rows
  <2> QED
    BY <1>0, <1>1, <2>3, <2>4 DEF BalanceIInv
<1>5. CASE grant.days # 0
  <2>1. grant = Accrued!ResolveToilAccrual(f)
    BY <1>2, <1>5
  <2>2. /\ grant.days \in Nat
        /\ grant.policy \in Accrued!Rows(policies)
        /\ policies[grant.policy].from <= today
        /\ policies[grant.policy].terms.toil
        /\ BalanceOf(ledger, today) + grant.days <= policies[grant.policy].terms.cap
    BY <1>5, <2>1, GrantIsUnderTheCap
  <2>3. PICK entry : entry = Accrued!NewEntry(f, grant)
    OBVIOUS
  <2>4. policies[grant.policy] \in PolicyRow /\ f \in Nat /\ grant.policy \in Nat
    BY <1>0, <2>2 DEF PoliciesInLine, Accrued!Rows
  <2>5. /\ entry \in EntryRow /\ entry.days = grant.days /\ entry.from = today
        /\ entry.policy = grant.policy
    <3>1. policies[grant.policy].terms.expiry \in Nat
      BY <2>4, PolicyFields
    <3>2. today + policies[grant.policy].terms.expiry \in Nat
      BY <1>0, <3>1
    <3> QED
      BY <1>0, <2>2, <2>3, <2>4, <3>2 DEF Accrued!NewEntry, EntryRow
  <2>6. PICK rows : rows = ledger
    OBVIOUS
  <2>7. PICK more : more = Append(rows, entry)
    OBVIOUS
  <2>8. PICK n : n = Len(rows) + 1
    OBVIOUS
  <2>9. rows \in Seq(EntryRow) /\ Len(rows) = n - 1 /\ n \in Nat
    BY <1>0, <2>6, <2>8 DEF GrantsArePriced
  <2>10. /\ more \in Seq(EntryRow) /\ Len(more) = n /\ more[n] = entry
         /\ \A k \in 1..n : k # n => k \in 1..(n - 1) /\ more[k] = rows[k]
    BY <2>5, <2>7, <2>9
  <2>11. ledger' = more
    BY <1>3, <1>5, <2>3, <2>6, <2>7
  <2>12. \A k \in 1..(n - 1) : /\ rows[k].from <= today
                              /\ rows[k].policy \in Accrued!Rows(policies)
                              /\ policies[rows[k].policy].from <= rows[k].from
                              /\ policies[rows[k].policy].terms.toil
    BY <1>0, <2>6, <2>9 DEF GrantsArePriced, Accrued!Rows
  <2>13. ASSUME NEW k \in 1..n
         PROVE  /\ more[k].from <= today
                /\ more[k].policy \in Accrued!Rows(policies)
                /\ policies[more[k].policy].from <= more[k].from
                /\ policies[more[k].policy].terms.toil
    <3>1. CASE k = n
      BY <1>0, <2>2, <2>5, <2>10, <3>1
    <3>2. CASE k # n
      BY <2>10, <2>12, <3>2
    <3> QED
      BY <3>1, <3>2
  <2>14. GrantsArePriced'
    BY <1>0, <2>10, <2>11, <2>13 DEF GrantsArePriced, Accrued!Rows, EntryRow
  <2>15. BalanceOf(more, today) <= policies[grant.policy].terms.cap
    <3>1. PICK cap : cap = policies[grant.policy].terms.cap
      OBVIOUS
    <3>2. cap \in Nat
      BY <2>4, <3>1, PolicyFields
    <3>3. BalanceOf(rows, today) \in Nat
          /\ BalanceOf(more, today) <= BalanceOf(rows, today) + entry.days
      <4>1. rows \in Seq(EntryRow) /\ entry \in EntryRow /\ today \in Int
        BY <1>0, <2>5, <2>9
      <4>2. /\ BalanceOf(rows, today) \in Nat
            /\ BalanceOf(Append(rows, entry), today) <= BalanceOf(rows, today) + entry.days
        BY <4>1, BalanceGrows
      <4> QED
        BY <2>7, <4>2
    <3>4. BalanceOf(rows, today) + entry.days <= cap
      BY <2>2, <2>5, <2>6, <3>1
    <3>5. BalanceOf(more, today) \in Int
      <4>1. more \in Seq(EntryRow) /\ entry \in EntryRow /\ today \in Int
        BY <1>0, <2>5, <2>10
      <4> QED
        BY <4>1, BalanceGrows
    <3> QED
      BY <2>2, <2>5, <3>1, <3>2, <3>3, <3>4, <3>5
  <2>16. UnderACap'
    <3>1. BalanceOf(ledger, today)' = BalanceOf(more, today)
      BY <1>0, <2>11 DEF BalanceOf, LiveEntries, Accrued!MapThenSumSet, Accrued!MapThenFoldSet,
                         Accrued!LiveOn
    <3> QED
      BY <1>0, <2>2, <2>15, <3>1 DEF UnderACap, Accrued!Rows
  <2> QED
    BY <1>0, <1>1, <2>14, <2>16 DEF BalanceIInv
<1> QED
  BY <1>4, <1>5

\* A day later the balance is still under the cap it was under.
LEMMA NextDayBalanceIInv ==
  ASSUME BalanceIInv, Accrued!NextDay
  PROVE  BalanceIInv'
<1>0. /\ PoliciesInLine /\ GrantsArePriced /\ UnderACap /\ today \in Nat /\ today' = today + 1
      /\ today' \in 1..Today
      /\ submitted \in [PaidWeeks -> Contents \cup {{}}] /\ UNCHANGED <<submitted, policies, ledger>>
  BY OvertimeAssumption DEF BalanceIInv, Accrued!NextDay
<1>1. PoliciesInLine'
  BY <1>0 DEF PoliciesInLine, Accrued!Rows, PolicyRow, Accrued!Dates
<1>2. ledger \in Seq(EntryRow) /\ \A k \in 1..Len(ledger) : ledger[k].from <= today
                                                         /\ ledger[k].from \in Nat
  <2>1. \A k \in 1..Len(ledger) : ledger[k] \in EntryRow
    BY <1>0 DEF GrantsArePriced
  <2> QED
    BY <1>0, <2>1 DEF GrantsArePriced, Accrued!Rows, EntryRow
<1>3. GrantsArePriced'
  <2>1. \A k \in 1..Len(ledger) : ledger[k].from <= today'
    BY <1>0, <1>2
  <2> QED
    BY <1>0, <2>1 DEF GrantsArePriced, Accrued!Rows, EntryRow
<1>4. /\ BalanceOf(ledger, today) \in Int /\ BalanceOf(ledger, today + 1) \in Int
      /\ BalanceOf(ledger, today + 1) <= BalanceOf(ledger, today)
  <2>1. PICK rows : rows = ledger
    OBVIOUS
  <2>2. PICK d \in Int : d = today
    BY <1>0
  <2>3. rows \in Seq(EntryRow) /\ \A k \in 1..Len(rows) : rows[k].from <= d
    BY <1>2, <2>1, <2>2
  <2>4. /\ BalanceOf(rows, d) \in Int /\ BalanceOf(rows, d + 1) \in Int
        /\ BalanceOf(rows, d + 1) <= BalanceOf(rows, d)
    BY <2>3, BalanceFalls
  <2> QED
    BY <2>1, <2>2, <2>4
<1>5. BalanceOf(ledger, today)' = BalanceOf(ledger, today + 1)
  BY <1>0 DEF BalanceOf, LiveEntries, Accrued!LiveOn, Accrued!MapThenSumSet,
              Accrued!MapThenFoldSet
<1>6. UnderACap'
  <2> SUFFICES ASSUME ledger # <<>>
               PROVE  \E p \in Accrued!Rows(policies) :
                        BalanceOf(ledger, today + 1) <= policies[p].terms.cap
    BY <1>0, <1>5 DEF UnderACap, Accrued!Rows
  <2>1. PICK p \in Accrued!Rows(policies) : BalanceOf(ledger, today) <= policies[p].terms.cap
    BY <1>0 DEF UnderACap
  <2>2. policies[p].terms.cap \in Int
    <3>1. policies[p] \in PolicyRow
      BY <1>0 DEF PoliciesInLine, Accrued!Rows
    <3> QED
      BY <3>1, PolicyFields
  <2>3. BalanceOf(ledger, today + 1) <= policies[p].terms.cap
    BY <1>4, <2>1, <2>2
  <2> QED
    BY <2>1, <2>3
<1> QED
  BY <1>0, <1>1, <1>3, <1>6 DEF BalanceIInv

\* A version more takes nothing from what the grants were priced by.
LEMMA MorePolicies ==
  ASSUME BalanceIInv, PoliciesInLine',
         \A p \in Accrued!Rows(policies) :
           /\ p \in Accrued!Rows(policies)' /\ policies'[p].terms = policies[p].terms
           /\ policies'[p].from = policies[p].from,
         UNCHANGED <<submitted, ledger, today>>
  PROVE  BalanceIInv'
<1>1. BalanceOf(ledger, today)' = BalanceOf(ledger, today)
  BY DEF BalanceOf, LiveEntries, Accrued!LiveOn, Accrued!MapThenSumSet, Accrued!MapThenFoldSet
<1>2. GrantsArePriced'
  BY DEF BalanceIInv, GrantsArePriced, Accrued!Rows, EntryRow
<1>3. UnderACap'
  <2> SUFFICES ASSUME ledger # <<>>
               PROVE  \E p \in Accrued!Rows(policies)' :
                        BalanceOf(ledger, today) <= policies'[p].terms.cap
    BY <1>1 DEF UnderACap
  <2>1. PICK p \in Accrued!Rows(policies) : BalanceOf(ledger, today) <= policies[p].terms.cap
    BY DEF BalanceIInv, UnderACap
  <2> QED
    BY <2>1
<1> QED
  BY <1>2, <1>3 DEF BalanceIInv

\* A new policy supersedes none.
LEMMA CreateBalanceIInv ==
  ASSUME BalanceIInv, NEW terms \in Terms, NEW from \in Accrued!Dates,
         Accrued!LeavePolicyCreate(terms, from)
  PROVE  BalanceIInv'
<1>0. PoliciesInLine
  BY DEF BalanceIInv
<1>1. PICK new : new = Accrued!NewPolicy(terms, from, 1, Accrued!None)
  OBVIOUS
<1>2. new \in PolicyRow /\ new.supersedes = 0 /\ new.active
  BY <1>1 DEF Accrued!NewPolicy, PolicyRow, Accrued!None
<1>3. PICK rows : rows = policies
  OBVIOUS
<1>4. PICK more : more = Append(rows, new)
  OBVIOUS
<1>5. PICK n : n = Len(rows) + 1
  OBVIOUS
<1>6. policies' = more /\ UNCHANGED <<submitted, ledger, today>>
  BY <1>1, <1>3, <1>4 DEF Accrued!LeavePolicyCreate
<1>7. /\ rows \in Seq(PolicyRow) /\ Len(rows) = n - 1 /\ n \in Nat \ {0}
      /\ more \in Seq(PolicyRow) /\ Len(more) = n /\ more[n] = new
      /\ \A p \in 1..(n - 1) : more[p] = rows[p]
  BY <1>0, <1>2, <1>3, <1>4, <1>5 DEF PoliciesInLine
<1>8. (\A p \in 1..n : p = n \/ p \in 1..(n - 1)) /\ 1..(n - 1) \subseteq 1..n /\ n \in 1..n
  BY <1>7
<1>9. /\ \A p \in 1..(n - 1) : rows[p].supersedes \in 0..(p - 1)
      /\ \A p \in 1..(n - 1) : rows[p].active <=> \A q \in 1..(n - 1) : rows[q].supersedes # p
  <2>1. Accrued!Rows(policies) = 1..(n - 1)
    BY <1>3, <1>7 DEF Accrued!Rows
  <2>2. /\ \A p \in 1..(n - 1) : policies[p].supersedes \in 0..(p - 1)
        /\ \A p \in 1..(n - 1) :
             policies[p].active <=> \A q \in 1..(n - 1) : policies[q].supersedes # p
    BY <1>0, <2>1, Zenon DEF PoliciesInLine
  <2> QED
    BY <1>3, <2>2
<1>10. \A p \in 1..n : more[p].supersedes \in 0..(p - 1)
  <2>1. more[n].supersedes \in 0..(n - 1)
    <3>1. 0 \in 0..(n - 1)
      BY <1>7
    <3> QED
      BY <1>2, <1>7, <3>1
  <2>2. \A p \in 1..(n - 1) : more[p].supersedes \in 0..(p - 1)
    BY <1>7, <1>9
  <2> QED
    BY <1>8, <2>1, <2>2
<1>11. \A p \in 1..n : more[p].active <=> \A q \in 1..n : more[q].supersedes # p
  <2>1. \A p \in 1..n : more[n].supersedes # p
    BY <1>2, <1>7
  <2>2. ASSUME NEW p \in 1..(n - 1)
        PROVE  more[p].active <=> \A q \in 1..n : more[q].supersedes # p
    <3>1. (\A q \in 1..n : more[q].supersedes # p) <=> \A q \in 1..(n - 1) : rows[q].supersedes # p
      BY <1>7, <1>8, <2>1
    <3>2. more[p] = rows[p]
      BY <1>7
    <3>3. rows[p].active <=> \A q \in 1..(n - 1) : rows[q].supersedes # p
      BY <1>9
    <3> QED
      BY <3>1, <3>2, <3>3, Zenon
  <2>3. \A q \in 1..n : more[q].supersedes # n
    BY <1>7, <1>8, <1>10, <2>1
  <2>4. more[n].active
    BY <1>2, <1>7
  <2> QED
    BY <1>8, <2>2, <2>3, <2>4, Zenon
<1>12. PoliciesInLine'
  BY <1>6, <1>7, <1>10, <1>11 DEF PoliciesInLine, Accrued!Rows, PolicyRow, Accrued!Dates
<1>13. \A p \in Accrued!Rows(policies) :
         /\ p \in Accrued!Rows(policies)' /\ policies'[p].terms = policies[p].terms
         /\ policies'[p].from = policies[p].from
  BY <1>3, <1>6, <1>7, <1>8 DEF Accrued!Rows
<1> QED
  BY <1>6, <1>12, <1>13, MorePolicies

\* A new version supersedes the one that was active, and that one alone.
LEMMA UpdateBalanceIInv ==
  ASSUME BalanceIInv, NEW terms \in Terms, NEW from \in Accrued!Dates,
         NEW p \in Accrued!Rows(policies), NEW v, Accrued!LeavePolicyUpdate(p, v, terms, from)
  PROVE  BalanceIInv'
<1>0. PoliciesInLine
  BY DEF BalanceIInv
<1>1. PICK new : new = Accrued!NewPolicy(terms, from, policies[p].version + 1, p)
  OBVIOUS
<1>2. PICK rows : rows = policies
  OBVIOUS
<1>3. PICK n : n = Len(rows) + 1
  OBVIOUS
<1>4. /\ rows \in Seq(PolicyRow) /\ Len(rows) = n - 1 /\ n \in Nat \ {0} /\ p \in 1..(n - 1)
      /\ Accrued!Rows(policies) = 1..(n - 1)
  BY <1>0, <1>2, <1>3 DEF PoliciesInLine, Accrued!Rows
<1>5. \A q \in 1..(n - 1) : rows[q] \in PolicyRow
  BY <1>4
<1>6. PICK old : old = [rows[p] EXCEPT !.active = FALSE, !.row = rows[p].row + 1]
  OBVIOUS
<1>7. /\ old \in PolicyRow /\ old.terms = rows[p].terms /\ old.from = rows[p].from
      /\ old.supersedes = rows[p].supersedes /\ ~old.active
  <2>1. PICK x \in PolicyRow : x = rows[p]
    BY <1>4, <1>5
  <2>2. x.row + 1 \in Nat
    BY DEF PolicyRow
  <2>3. old = [x EXCEPT !.active = FALSE, !.row = x.row + 1]
    BY <1>6, <2>1
  <2> QED
    BY <2>1, <2>2, <2>3 DEF PolicyRow
<1>8. PICK retired : retired = [rows EXCEPT ![p] = old]
  OBVIOUS
<1>9. PICK more : more = Append(retired, new)
  OBVIOUS
<1>10. rows[p].active /\ policies' = more /\ UNCHANGED <<submitted, ledger, today>>
  <2>1. policies' = Append([policies EXCEPT ![p].active = FALSE, ![p].row = @ + 1], new)
        /\ rows[p].active /\ UNCHANGED <<submitted, ledger, today>>
    BY <1>1, <1>2 DEF Accrued!LeavePolicyUpdate
  <2>2. [policies EXCEPT ![p].active = FALSE, ![p].row = @ + 1] = retired
    BY <1>2, <1>4, <1>5, <1>6, <1>8 DEF PolicyRow
  <2> QED
    BY <1>9, <2>1, <2>2
<1>11. new \in PolicyRow /\ new.supersedes = p /\ new.active
  <2>1. policies[p].version + 1 \in Nat /\ p \in Nat
    <3>1. PICK x \in PolicyRow : x = policies[p]
      BY <1>2, <1>4, <1>5
    <3>2. x.version + 1 \in Nat
      BY DEF PolicyRow
    <3> QED
      BY <1>4, <3>1, <3>2
  <2> QED
    BY <1>1, <2>1 DEF Accrued!NewPolicy, PolicyRow
<1>12. /\ retired \in Seq(PolicyRow) /\ Len(retired) = n - 1 /\ retired[p] = old
       /\ \A q \in 1..(n - 1) : q # p => retired[q] = rows[q]
  BY <1>4, <1>7, <1>8
<1>13. /\ more \in Seq(PolicyRow) /\ Len(more) = n /\ more[n] = new
       /\ \A q \in 1..(n - 1) : more[q] = retired[q]
  BY <1>4, <1>9, <1>11, <1>12
<1>14. /\ \A q \in 1..n : q = n \/ q \in 1..(n - 1)
       /\ 1..(n - 1) \subseteq 1..n /\ n \in 1..n /\ n \notin 1..(n - 1)
  BY <1>4
<1>15. /\ \A q \in 1..(n - 1) : rows[q].supersedes \in 0..(q - 1)
       /\ \A r \in 1..(n - 1) : rows[r].active <=> \A q \in 1..(n - 1) : rows[q].supersedes # r
  BY <1>0, <1>2, <1>4 DEF PoliciesInLine
<1>16. \A q \in 1..(n - 1) :
         /\ more[q].supersedes = rows[q].supersedes /\ more[q].terms = rows[q].terms
         /\ more[q].from = rows[q].from
         /\ q # p => more[q].active = rows[q].active
  BY <1>7, <1>12, <1>13
<1>17. more[n].supersedes = p /\ more[n].active /\ ~more[p].active
  BY <1>4, <1>7, <1>11, <1>12, <1>13
<1>18. \A q \in 1..n : more[q].supersedes \in 0..(q - 1)
  <2>1. p \in 0..(n - 1)
    BY <1>4
  <2> QED
    BY <1>14, <1>15, <1>16, <1>17, <2>1
<1>19. \A r \in 1..n : more[r].active <=> \A q \in 1..n : more[q].supersedes # r
  <2>1. ASSUME NEW r \in 1..(n - 1), r # p
        PROVE  more[r].active <=> \A q \in 1..n : more[q].supersedes # r
    <3>1. (\A q \in 1..n : more[q].supersedes # r) <=> \A q \in 1..(n - 1) : rows[q].supersedes # r
      BY <1>14, <1>16, <1>17, <2>1
    <3>2. more[r].active = rows[r].active
      BY <1>16, <2>1
    <3>3. rows[r].active <=> \A q \in 1..(n - 1) : rows[q].supersedes # r
      BY <1>15
    <3> QED
      BY <3>1, <3>2, <3>3, Zenon
  <2>2. \E q \in 1..n : more[q].supersedes = p
    BY <1>14, <1>17
  <2>3. \A q \in 1..n : more[q].supersedes # n
    <3>1. \A q \in 1..n : n \notin 0..(q - 1)
      BY <1>4
    <3> QED
      BY <1>18, <3>1
  <2> QED
    BY <1>14, <1>17, <2>1, <2>2, <2>3, Zenon
<1>20. PoliciesInLine'
  BY <1>10, <1>13, <1>18, <1>19 DEF PoliciesInLine, Accrued!Rows, PolicyRow, Accrued!Dates
<1>21. \A q \in Accrued!Rows(policies) :
         /\ q \in Accrued!Rows(policies)' /\ policies'[q].terms = policies[q].terms
         /\ policies'[q].from = policies[q].from
  BY <1>2, <1>4, <1>10, <1>13, <1>14, <1>16 DEF Accrued!Rows
<1> QED
  BY <1>10, <1>20, <1>21, MorePolicies

\* Saving and unlocking a week, evaluating it or not, leave policies and grants alone.
LEMMA OtherBalanceIInv ==
  ASSUME BalanceIInv, UNCHANGED <<policies, ledger, today>>,
         (submitted \in [PaidWeeks -> Contents \cup {{}}])'
  PROVE  BalanceIInv'
<1>1. PoliciesInLine'
  BY DEF BalanceIInv, PoliciesInLine, Accrued!Rows, PolicyRow, Accrued!Dates
<1>2. GrantsArePriced'
  BY DEF BalanceIInv, GrantsArePriced, Accrued!Rows, EntryRow
<1>3. BalanceOf(ledger, today)' = BalanceOf(ledger, today)
  BY DEF BalanceOf, LiveEntries, Accrued!LiveOn, Accrued!MapThenSumSet, Accrued!MapThenFoldSet
<1>4. UnderACap'
  BY <1>3 DEF BalanceIInv, UnderACap, Accrued!Rows
<1> QED
  BY <1>1, <1>2, <1>4 DEF BalanceIInv

\* Nothing is held at first.
LEMMA BalanceInit == ASSUME Accrued!Init PROVE BalanceIInv
<1>1. policies = <<>> /\ ledger = <<>> /\ today = 1 /\ submitted = [w \in PaidWeeks |-> {}]
  BY DEF Accrued!Init
<1>2. Accrued!Rows(policies) = {} /\ Accrued!Rows(ledger) = {}
  BY <1>1 DEF Accrued!Rows
<1>3. policies \in Seq(PolicyRow) /\ ledger \in Seq(EntryRow)
  BY <1>1
<1>4. today \in 1..Today
  BY <1>1, OvertimeAssumption
<1> QED
  BY <1>1, <1>2, <1>3, <1>4 DEF BalanceIInv, PoliciesInLine, GrantsArePriced, UnderACap

\* Every step preserves the invariant of policies and balance.
LEMMA BalanceStep ==
  BalanceIInv /\ OvertimeIInv /\ [Accrued!Next]_Accrued!vars => BalanceIInv'
<1> SUFFICES ASSUME BalanceIInv, OvertimeIInv, [Accrued!Next]_Accrued!vars PROVE BalanceIInv'
  OBVIOUS
<1>0. submitted \in [PaidWeeks -> Contents \cup {{}}]
  BY DEF BalanceIInv
<1>1. CASE Accrued!Next
  <2>1. ASSUME NEW f \in Accrued!Rows(flags), NEW outcome, NEW a, Accrued!Clear(f, outcome, a)
        PROVE  BalanceIInv'
    BY <2>1, ClearBalanceIInv
  <2>2. ASSUME NEW w \in PaidWeeks,
               Accrued!TimesheetAnomalyEvaluate(w) \/ Accrued!EvaluationIsLost(w)
        PROVE  BalanceIInv'
    BY <1>0, <2>2, OtherBalanceIInv DEF Accrued!TimesheetAnomalyEvaluate, Accrued!EvaluationIsLost
  <2>3. ASSUME NEW w \in PaidWeeks, NEW rows \in Contents, Accrued!Submit(w, rows)
        PROVE  BalanceIInv'
    <3>1. submitted' \in [PaidWeeks -> Contents \cup {{}}]
      BY <1>0, <2>3 DEF Accrued!Submit
    <3> QED
      BY <2>3, <3>1, OtherBalanceIInv DEF Accrued!Submit
  <2>4. ASSUME NEW w \in PaidWeeks, Accrued!Unlock(w)
        PROVE  BalanceIInv'
    <3>1. submitted' \in [PaidWeeks -> Contents \cup {{}}]
      BY <1>0, <2>4 DEF Accrued!Unlock
    <3> QED
      BY <2>4, <3>1, OtherBalanceIInv DEF Accrued!Unlock
  <2>5. CASE Accrued!NextDay
    BY <2>5, NextDayBalanceIInv
  <2>6. ASSUME NEW terms \in Terms, NEW from \in Accrued!Dates,
               Accrued!LeavePolicyCreate(terms, from)
        PROVE  BalanceIInv'
    BY <2>6, CreateBalanceIInv
  <2>7. ASSUME NEW terms \in Terms, NEW from \in Accrued!Dates,
               NEW p \in Accrued!Rows(policies), NEW v, Accrued!LeavePolicyUpdate(p, v, terms, from)
        PROVE  BalanceIInv'
    BY <2>7, UpdateBalanceIInv
  <2> QED
    BY <1>1, <2>1, <2>2, <2>3, <2>4, <2>5, <2>6, <2>7 DEF Accrued!Next
<1>2. CASE UNCHANGED Accrued!vars
  BY <1>0, <1>2, OtherBalanceIInv DEF Accrued!vars
<1> QED
  BY <1>1, <1>2

\* A balance under some cap is under the greatest.
LEMMA CappedHolds == ASSUME BalanceIInv PROVE Accrued!BalanceIsCapped
<1>0. PoliciesInLine /\ GrantsArePriced /\ UnderACap
  BY DEF BalanceIInv
<1>1. ASSUME ledger # <<>>
      PROVE  Accrued!Balance(today) <= Accrued!Max({policies[p].terms.cap : p \in Accrued!Rows(policies)})
  <2>1. PICK R : R = Accrued!Rows(policies)
    OBVIOUS
  <2>2. PICK cap : cap = [p \in R |-> policies[p].terms.cap]
    OBVIOUS
  <2>3. PICK C : C = {policies[p].terms.cap : p \in R}
    OBVIOUS
  <2>4. /\ \A p \in R : cap[p] = policies[p].terms.cap /\ cap[p] \in Nat /\ cap[p] \in C
        /\ cap \in [R -> C] /\ \A c \in C : \E p \in R : cap[p] = c
    <3>1. \A p \in R : policies[p] \in PolicyRow
      BY <1>0, <2>1 DEF PoliciesInLine, Accrued!Rows
    <3>2. \A p \in R : policies[p].terms.cap \in Nat
      BY <3>1, PolicyFields
    <3> QED
      BY <2>2, <2>3, <3>2
  <2>5. IsFiniteSet(C)
    <3>1. IsFiniteSet(R)
      BY <1>0, <2>1, PoliciesAreFinite
    <3>2. cap \in Surjection(R, C)
      BY <2>4 DEF Surjection
    <3> QED
      BY <3>1, <3>2, FS_Surjection
  <2>6. PICK p \in R : BalanceOf(ledger, today) <= cap[p]
    BY <1>0, <1>1, <2>1, <2>4 DEF UnderACap
  <2>7. C \in SUBSET Int /\ C # {}
    BY <2>4, <2>6
  <2>8. \E x \in C : \A y \in C : x >= y
    BY <2>5, <2>7, MaxOfFinite
  <2>9. Accrued!Max(C) \in C /\ \A y \in C : Accrued!Max(C) >= y
    BY <2>8 DEF Accrued!Max
  <2>10. BalanceOf(ledger, today) = Accrued!Balance(today)
    BY DEF Accrued!Balance, BalanceOf, LiveEntries, Accrued!Rows
  <2>11. BalanceOf(ledger, today) \in Nat
    <3>1. [days |-> 0, from |-> 0, policy |-> 0, flag |-> 0, expires |-> 0] \in EntryRow
      BY DEF EntryRow
    <3>2. ledger \in Seq(EntryRow) /\ today \in Int
      BY <1>0 DEF GrantsArePriced, BalanceIInv
    <3> QED
      BY <3>1, <3>2, BalanceGrows
  <2>12. cap[p] \in Int /\ Accrued!Max(C) \in Int /\ cap[p] <= Accrued!Max(C)
    BY <2>4, <2>6, <2>7, <2>9
  <2>13. BalanceOf(ledger, today) <= Accrued!Max(C)
    BY <2>6, <2>11, <2>12
  <2> QED
    BY <2>1, <2>3, <2>10, <2>13
<1>2. \A k \in Accrued!Rows(ledger) :
        policies[ledger[k].policy].from <= ledger[k].from /\ policies[ledger[k].policy].terms.toil
  BY <1>0 DEF GrantsArePriced
<1> QED
  BY <1>0, <1>1, <1>2 DEF Accrued!BalanceIsCapped, PoliciesInLine

-----------------------------------------------------------------------------
(* Notifications: rows, locks and deliveries *)

People == {Self, Nobody} \cup Managers
Keys == {<<>>} \cup {<<s>> : s \in Noticed!Sources}
          \cup {<<s, v>> : s \in Alerts, v \in Nat}
Locks == [to : People, key : Keys]
Deliveries ==
  [scope : Nat, rows : SUBSET Noticed!Sources, want : Locks, held : SUBSET Locks, new : SUBSET Locks]
NoticeRows ==
  [to : People, key : Keys, scope : Nat, read : BOOLEAN, dismissed : BOOLEAN]

NoticesType ==
  /\ severity \in [Alerts -> Nat]
  /\ manager \in Managers \cup {Nobody}
  /\ notices \subseteq NoticeRows
  /\ job \in [Workers -> Deliveries]
  /\ ended \in Nat
  /\ told \subseteq Locks

\* No two deliveries hold one lock, and what a delivery will write it holds.
OneLockHolder ==
  /\ \A w \in Workers : job[w].new \subseteq job[w].held
  /\ \A v, w \in Workers : v # w => job[v].held \cap job[w].held = {}

\* Under its lock a delivery knows whether there is a notification.
KnownUnderLock ==
  \A w \in Workers, l \in Locks :
    /\ l \in job[w].new => ~Noticed!Existing(l)
    /\ l \in job[w].held => Noticed!Existing(l) \/ l \in job[w].new

OneOfEach == \A n, o \in notices : Noticed!LockOf(n) = Noticed!LockOf(o) => n = o
ToldStays == \A l \in told : Noticed!Existing(l)

NoticesIInv == NoticesType /\ OneLockHolder /\ KnownUnderLock /\ OneOfEach /\ ToldStays

\* The empty lock, the idle delivery and what Resolve asks for are of their types.
LEMMA NoLockTypes == Noticed!NoLock \in Locks /\ Noticed!Idle \in Deliveries
<1>1. Noticed!NoLock \in Locks
  BY DEF Noticed!NoLock, Locks, People, Keys
<1> QED
  BY <1>1 DEF Noticed!Idle, Deliveries

\* What a delivery asks a lock for is a recipient and a key.
LEMMA AskedTypes ==
  ASSUME NoticesType, NEW s \in Noticed!Sources
  PROVE  [to |-> Noticed!Recipient(s), key |-> Noticed!DedupeKey(s)] \in Locks
<1>1. Noticed!Recipient(s) \in People
  BY DEF Noticed!Recipient, NoticesType, People
<1>2. Noticed!DedupeKey(s) \in Keys
  BY DEF Noticed!DedupeKey, NoticesType, Keys
<1> QED
  BY <1>1, <1>2 DEF Locks

\* A change of one delivery.
LEMMA DeliveryChanged ==
  ASSUME job \in [Workers -> Deliveries], NEW w \in Workers, NEW next \in Deliveries,
         job' = [job EXCEPT ![w] = next]
  PROVE  /\ job' \in [Workers -> Deliveries]
         /\ job'[w] = next
         /\ \A v \in Workers : v # w => job'[v] = job[v]
  OBVIOUS

\* Beginning, and asking for a lock, leave what is held and what is to be written.
NothingTaken(w, next) ==
  /\ next \in Deliveries /\ job' = [job EXCEPT ![w] = next]
  /\ next.held = job[w].held /\ next.new = job[w].new

\* A delivery that takes no lock and writes nothing changes nothing.
LEMMA NothingTakenIInv ==
  ASSUME NoticesIInv, NEW w \in Workers, NEW next, NothingTaken(w, next),
         UNCHANGED <<notices, told>>
  PROVE  job' \in [Workers -> Deliveries] /\ OneLockHolder' /\ KnownUnderLock' /\ OneOfEach' /\ ToldStays'
<1>1. /\ job' \in [Workers -> Deliveries]
      /\ \A v \in Workers : job'[v].held = job[v].held /\ job'[v].new = job[v].new
  BY DeliveryChanged DEF NothingTaken, NoticesIInv, NoticesType
<1>2. OneLockHolder'
  BY <1>1 DEF NoticesIInv, OneLockHolder
<1>3. KnownUnderLock'
  BY <1>1 DEF NoticesIInv, KnownUnderLock, Noticed!Existing
<1>4. OneOfEach' /\ ToldStays'
  BY DEF NoticesIInv, OneOfEach, ToldStays, Noticed!Existing
<1> QED
  BY <1>1, <1>2, <1>3, <1>4

\* A delivery that begins holds no lock.
LEMMA BeginsIInv ==
  ASSUME NoticesIInv, NEW w \in Workers, NEW rows \in SUBSET Noticed!Sources,
         Noticed!Begins(w, rows), UNCHANGED <<notices, told>>
  PROVE  ended' \in Nat /\ job' \in [Workers -> Deliveries]
         /\ OneLockHolder' /\ KnownUnderLock' /\ OneOfEach' /\ ToldStays'
<1>1. ended' \in Nat /\ job[w] = Noticed!Idle
  BY DEF Noticed!Begins, NoticesIInv, NoticesType
<1> DEFINE next == [Noticed!Idle EXCEPT !.scope = ended', !.rows = rows]
<1>2. next \in Deliveries /\ next.held = Noticed!Idle.held /\ next.new = Noticed!Idle.new
  BY <1>1, NoLockTypes DEF Deliveries
<1>3. job' = [job EXCEPT ![w] = next]
  BY DEF Noticed!Begins
<1> HIDE DEF next
<1>4. NothingTaken(w, next)
  BY <1>1, <1>2, <1>3 DEF NothingTaken
<1> QED
  BY <1>1, <1>4, NothingTakenIInv

\* Resolving a recipient takes no lock.
LEMMA ResolveIInv ==
  ASSUME NoticesIInv, NEW w \in Workers, NEW s \in Noticed!Sources, Noticed!Resolve(w, s)
  PROVE  NoticesIInv'
<1>0. NoticesType
  BY DEF NoticesIInv
<1>1. PICK lock \in Locks :
        job' = [job EXCEPT ![w].rows = job[w].rows \ {s}, ![w].want = lock]
  BY <1>0, AskedTypes, NoLockTypes DEF Noticed!Resolve
<1> DEFINE next == [job[w] EXCEPT !.rows = job[w].rows \ {s}, !.want = lock]
<1>2. job[w] \in Deliveries
  BY <1>0 DEF NoticesType
<1>3. next \in Deliveries /\ next.held = job[w].held /\ next.new = job[w].new
  BY <1>2 DEF Deliveries
<1>4. job' = [job EXCEPT ![w] = next]
  BY <1>0, <1>1, <1>2 DEF NoticesType, Deliveries
<1> HIDE DEF next
<1>5. NothingTaken(w, next)
  BY <1>3, <1>4 DEF NothingTaken
<1>6. UNCHANGED <<severity, manager, notices, ended, told>>
  BY DEF Noticed!Resolve
<1>7. job' \in [Workers -> Deliveries] /\ OneLockHolder' /\ KnownUnderLock' /\ OneOfEach' /\ ToldStays'
  BY <1>5, <1>6, NothingTakenIInv
<1> QED
  BY <1>0, <1>6, <1>7 DEF NoticesIInv, NoticesType

\* Under a lock no other delivery holds, a delivery sees what there is.
LEMMA DeliverIInv ==
  ASSUME NoticesIInv, NEW w \in Workers, Noticed!Deliver(w)
  PROVE  NoticesIInv'
<1>0. NoticesType /\ OneLockHolder /\ KnownUnderLock
  BY DEF NoticesIInv
<1>1. PICK l : l = job[w].want
  OBVIOUS
<1>2. job[w] \in Deliveries /\ l \in Locks
  BY <1>0, <1>1 DEF NoticesType, Deliveries
<1>3. \A v \in Workers \ {w} : l \notin job[v].held
  BY <1>1 DEF Noticed!Deliver, Noticed!Granted
<1>4. PICK new : new = IF Noticed!Existing(l) THEN job[w].new ELSE job[w].new \cup {l}
  OBVIOUS
<1>5. job' = [job EXCEPT ![w].want = Noticed!NoLock, ![w].held = job[w].held \cup {l}, ![w].new = new]
  BY <1>1, <1>2, <1>4 DEF Noticed!Deliver, Deliveries
<1>6. new \in SUBSET Locks
  BY <1>2, <1>4 DEF Deliveries
<1> DEFINE next == [job[w] EXCEPT !.want = Noticed!NoLock, !.held = job[w].held \cup {l}, !.new = new]
<1>7. next \in Deliveries /\ next.held = job[w].held \cup {l} /\ next.new = new
  BY <1>2, <1>6, NoLockTypes DEF Deliveries
<1>8. job' = [job EXCEPT ![w] = next]
  BY <1>0, <1>2, <1>5 DEF NoticesType, Deliveries
<1> HIDE DEF next
<1>9. /\ job' \in [Workers -> Deliveries]
      /\ job'[w].held = job[w].held \cup {l} /\ job'[w].new = new
      /\ \A v \in Workers : v # w => job'[v] = job[v]
  BY <1>0, <1>7, <1>8, DeliveryChanged DEF NoticesType
<1>10. UNCHANGED <<severity, manager, notices, ended, told>>
  BY DEF Noticed!Deliver
<1>11. OneLockHolder'
  BY <1>0, <1>3, <1>4, <1>9 DEF OneLockHolder
<1>12. \A k : Noticed!Existing(k)' = Noticed!Existing(k)
  BY <1>10 DEF Noticed!Existing
<1>13. KnownUnderLock'
  BY <1>0, <1>4, <1>9, <1>12 DEF KnownUnderLock
<1>14. OneOfEach' /\ ToldStays'
  BY <1>10 DEF NoticesIInv, OneOfEach, ToldStays, Noticed!Existing
<1> QED
  BY <1>0, <1>9, <1>10, <1>11, <1>13, <1>14 DEF NoticesIInv, NoticesType

\* What a delivery writes it alone could write.
LEMMA CommitIInv ==
  ASSUME NoticesIInv, NEW w \in Workers, Noticed!Commit(w)
  PROVE  NoticesIInv'
<1>0. NoticesType /\ OneLockHolder /\ KnownUnderLock /\ OneOfEach /\ ToldStays
  BY DEF NoticesIInv
<1>1. job[w] \in Deliveries
  BY <1>0 DEF NoticesType
<1> DEFINE row(l) == [to |-> l.to, key |-> l.key, scope |-> job[w].scope, read |-> FALSE,
                      dismissed |-> FALSE]
<1>2. /\ notices' = notices \cup {row(l) : l \in job[w].new}
      /\ told' = told \cup job[w].held
      /\ job' = [job EXCEPT ![w] = Noticed!Idle]
      /\ UNCHANGED <<severity, manager, ended>>
  BY DEF Noticed!Commit
<1>3. \A l \in Locks : row(l) \in NoticeRows /\ Noticed!LockOf(row(l)) = l
  BY <1>1 DEF Locks, NoticeRows, Deliveries, Noticed!LockOf
<1>4. job[w].new \subseteq Locks /\ job[w].held \subseteq Locks /\ job[w].new \subseteq job[w].held
  BY <1>0, <1>1 DEF Deliveries, OneLockHolder
<1> HIDE DEF row
<1>5. /\ job' \in [Workers -> Deliveries]
      /\ job'[w].held = {} /\ job'[w].new = {}
      /\ \A v \in Workers : v # w => job'[v] = job[v]
  <2>1. Noticed!Idle.held = {} /\ Noticed!Idle.new = {}
    BY DEF Noticed!Idle
  <2> QED
    BY <1>0, <1>2, <2>1, NoLockTypes, DeliveryChanged DEF NoticesType
<1>6. NoticesType'
  <2>1. notices' \subseteq NoticeRows
    BY <1>0, <1>2, <1>3, <1>4 DEF NoticesType
  <2>2. told' \subseteq Locks
    BY <1>0, <1>2, <1>4 DEF NoticesType
  <2> QED
    BY <1>0, <1>2, <1>5, <2>1, <2>2 DEF NoticesType
<1>7. \A l \in Locks : Noticed!Existing(l)' <=> Noticed!Existing(l) \/ l \in job[w].new
  BY <1>2, <1>3, <1>4 DEF Noticed!Existing, Noticed!LockOf
<1>8. OneLockHolder'
  BY <1>0, <1>5 DEF OneLockHolder
<1>9. KnownUnderLock'
  BY <1>0, <1>4, <1>5, <1>7 DEF KnownUnderLock, OneLockHolder
<1>10. OneOfEach'
  <2>1. ASSUME NEW n \in notices, NEW l \in job[w].new PROVE Noticed!LockOf(n) # l
    BY <1>0, <1>4 DEF KnownUnderLock, Noticed!Existing
  <2>2. ASSUME NEW n \in notices', NEW o \in notices', Noticed!LockOf(n) = Noticed!LockOf(o)
        PROVE  n = o
    BY <1>0, <1>2, <1>3, <1>4, <2>1, <2>2 DEF OneOfEach
  <2> QED
    BY <2>2 DEF OneOfEach, Noticed!LockOf
<1>11. ToldStays'
  <2>1. \A l \in told' : l \in Locks /\ (l \in told \/ l \in job[w].held)
    BY <1>2, <1>6 DEF NoticesType
  <2> QED
    BY <1>0, <1>7, <2>1 DEF ToldStays, KnownUnderLock
<1> QED
  BY <1>6, <1>8, <1>9, <1>10, <1>11 DEF NoticesIInv

\* A delivery that fails leaves nothing behind.
LEMMA FailIInv ==
  ASSUME NoticesIInv, NEW w \in Workers, Noticed!Fail(w)
  PROVE  NoticesIInv'
<1>0. NoticesType /\ OneLockHolder /\ KnownUnderLock
  BY DEF NoticesIInv
<1>1. job' = [job EXCEPT ![w] = Noticed!Idle] /\ UNCHANGED <<severity, manager, notices, ended, told>>
  BY DEF Noticed!Fail
<1>2. /\ job' \in [Workers -> Deliveries]
      /\ job'[w].held = {} /\ job'[w].new = {}
      /\ \A v \in Workers : v # w => job'[v] = job[v]
  <2>1. Noticed!Idle.held = {} /\ Noticed!Idle.new = {}
    BY DEF Noticed!Idle
  <2> QED
    BY <1>0, <1>1, <2>1, NoLockTypes, DeliveryChanged DEF NoticesType
<1>3. OneLockHolder'
  BY <1>0, <1>2 DEF OneLockHolder
<1>4. KnownUnderLock'
  BY <1>0, <1>1, <1>2 DEF KnownUnderLock, Noticed!Existing
<1>5. OneOfEach' /\ ToldStays'
  BY <1>1 DEF NoticesIInv, OneOfEach, ToldStays, Noticed!Existing
<1> QED
  BY <1>0, <1>1, <1>2, <1>3, <1>4, <1>5 DEF NoticesIInv, NoticesType

\* Reading and dismissing change no lock, so each notification stays the one it was.
LEMMA PatchIInv ==
  ASSUME NoticesIInv, NEW ns \in SUBSET notices, NEW dismiss \in BOOLEAN, Noticed!Patch(ns, dismiss)
  PROVE  NoticesIInv'
<1>0. NoticesType /\ OneLockHolder /\ KnownUnderLock /\ OneOfEach /\ ToldStays
  BY DEF NoticesIInv
<1> DEFINE read(n) == Noticed!ReadState(n, dismiss)
<1>1. /\ notices' = (notices \ ns) \cup {read(n) : n \in ns}
      /\ UNCHANGED <<severity, manager, job, ended, told>>
  BY DEF Noticed!Patch
<1>2. \A n \in notices : read(n) \in NoticeRows /\ Noticed!LockOf(read(n)) = Noticed!LockOf(n)
  <2> TAKE n \in notices
  <2>1. n \in NoticeRows
    BY <1>0 DEF NoticesType
  <2>2. (n.dismissed \/ dismiss) \in BOOLEAN
    OBVIOUS
  <2>3. PICK d : d = (n.dismissed \/ dismiss)
    OBVIOUS
  <2>4. read(n) = [n EXCEPT !.read = TRUE, !.dismissed = d]
    BY <2>3 DEF Noticed!ReadState
  <2> QED
    BY <2>1, <2>2, <2>3, <2>4 DEF NoticeRows, Noticed!LockOf
<1> HIDE DEF read
<1>3. NoticesType'
  <2>1. notices' \subseteq NoticeRows
    BY <1>0, <1>1, <1>2 DEF NoticesType
  <2> QED
    BY <1>0, <1>1, <2>1 DEF NoticesType
<1>4. \A l : Noticed!Existing(l)' <=> Noticed!Existing(l)
  BY <1>1, <1>2 DEF Noticed!Existing, Noticed!LockOf
<1>5. OneLockHolder' /\ KnownUnderLock' /\ ToldStays'
  BY <1>0, <1>1, <1>4 DEF OneLockHolder, KnownUnderLock, ToldStays
<1>6. ASSUME NEW n \in notices', NEW o \in notices', Noticed!LockOf(n) = Noticed!LockOf(o)
      PROVE  n = o
  <2>1. PICK a \in notices : n = (IF a \in ns THEN read(a) ELSE a)
    BY <1>1
  <2>2. PICK b \in notices : o = (IF b \in ns THEN read(b) ELSE b)
    BY <1>1
  <2>3. Noticed!LockOf(a) = Noticed!LockOf(b)
    BY <1>2, <1>6, <2>1, <2>2
  <2>4. a = b
    BY <1>0, <2>3 DEF OneOfEach
  <2> QED
    BY <2>1, <2>2, <2>4
<1>7. OneOfEach'
  BY <1>6 DEF OneOfEach, Noticed!LockOf
<1> QED
  BY <1>3, <1>5, <1>7 DEF NoticesIInv

\* There are no notifications at first.
LEMMA NoticesInit == Noticed!Init => NoticesIInv
<1> SUFFICES ASSUME Noticed!Init PROVE NoticesIInv
  OBVIOUS
<1>1. job = [w \in Workers |-> Noticed!Idle] /\ notices = {} /\ told = {}
  BY DEF Noticed!Init
<1>2. NoticesType
  BY NoLockTypes DEF Noticed!Init, NoticesType
<1>3. \A w \in Workers : job[w].held = {} /\ job[w].new = {}
  BY <1>1 DEF Noticed!Idle
<1> QED
  BY <1>1, <1>2, <1>3 DEF NoticesIInv, OneLockHolder, KnownUnderLock, OneOfEach, ToldStays

\* Every step preserves the invariant of the notifications.
LEMMA NoticesStep == NoticesIInv /\ [Noticed!Next]_Noticed!noticeVars => NoticesIInv'
<1> SUFFICES ASSUME NoticesIInv, [Noticed!Next]_Noticed!noticeVars PROVE NoticesIInv'
  OBVIOUS
<1>1. ASSUME NEW w \in Workers, NEW rows \in SUBSET (Alerts \cup Flags), Noticed!EndScope(w, rows)
      PROVE  NoticesIInv'
  <2>1. /\ Noticed!Begins(w, rows) /\ severity' \in [Alerts -> Nat]
        /\ UNCHANGED <<manager, notices, told>>
    BY <1>1 DEF Noticed!EndScope
  <2>2. rows \in SUBSET Noticed!Sources
    BY DEF Noticed!Sources
  <2>3. ended' \in Nat /\ job' \in [Workers -> Deliveries]
        /\ OneLockHolder' /\ KnownUnderLock' /\ OneOfEach' /\ ToldStays'
    BY <2>1, <2>2, BeginsIInv
  <2> QED
    BY <2>1, <2>3 DEF NoticesIInv, NoticesType
<1>2. ASSUME NEW w \in Workers, NEW rows \in SUBSET Reminders, Noticed!SendReminder(w, rows)
      PROVE  NoticesIInv'
  <2>1. Noticed!Begins(w, rows) /\ UNCHANGED <<severity, manager, notices, told>>
    BY <1>2 DEF Noticed!SendReminder
  <2>2. rows \in SUBSET Noticed!Sources
    BY DEF Noticed!Sources
  <2>3. ended' \in Nat /\ job' \in [Workers -> Deliveries]
        /\ OneLockHolder' /\ KnownUnderLock' /\ OneOfEach' /\ ToldStays'
    BY <2>1, <2>2, BeginsIInv
  <2> QED
    BY <2>1, <2>3 DEF NoticesIInv, NoticesType
<1>3. ASSUME NEW n \in notices, NEW dismiss \in BOOLEAN, Noticed!Open(n, dismiss)
      PROVE  NoticesIInv'
  BY <1>3, PatchIInv DEF Noticed!Open
<1>4. ASSUME NEW u, Noticed!MarkAllRead(u)
      PROVE  NoticesIInv'
  <2>1. PICK ns \in SUBSET notices : Noticed!Patch(ns, FALSE)
    BY <1>4 DEF Noticed!MarkAllRead
  <2> QED
    BY <2>1, PatchIInv
<1>5. CASE Noticed!Move
  <2>1. UNCHANGED <<severity, notices, job, ended, told>> /\ manager' \in Managers \cup {Nobody}
    BY <1>5 DEF Noticed!Move, NoticesIInv, NoticesType
  <2> QED
    BY <2>1 DEF NoticesIInv, NoticesType, OneLockHolder, KnownUnderLock, OneOfEach, ToldStays,
                Noticed!Existing
<1>6. CASE UNCHANGED Noticed!noticeVars
  BY <1>6 DEF Noticed!noticeVars, NoticesIInv, NoticesType, OneLockHolder, KnownUnderLock,
              OneOfEach, ToldStays, Noticed!Existing
<1> QED
  BY <1>1, <1>2, <1>3, <1>4, <1>5, <1>6, ResolveIInv, DeliverIInv, CommitIInv, FailIInv
  DEF Noticed!Next

\* The invariant of the notifications.
LEMMA NoticesInvariant == Noticed!Spec => []NoticesIInv
  BY NoticesInit, NoticesStep, PTL DEF Noticed!Spec

\* One notification to a recipient and key, and one for all who were told.
LEMMA NotifiedHolds == ASSUME NoticesIInv PROVE Noticed!NotifiedOnce /\ Noticed!EachIsTold
  BY DEF NoticesIInv, OneOfEach, ToldStays, Noticed!NotifiedOnce, Noticed!EachIsTold,
         Noticed!Existing

-----------------------------------------------------------------------------
(* Skills: gaps and evaluations *)

Gap == [level : Int, active : BOOLEAN]
Worlds == [edges : [Matched!Ends -> [Matched!Times -> Int]], free : SUBSET Employees]

\* Somebody available holds the skill at the level required, in a world that was read, as
\* of a time.
InForceIn(world, n, asOf) == {t \in Matched!Times : t <= asOf /\ world.edges[n][t] > 0}
LevelIn(world, n, asOf) ==
  IF InForceIn(world, n, asOf) = {} THEN 0
  ELSE world.edges[n][Matched!Min(InForceIn(world, n, asOf))]
FitsIn(world, asOf) ==
  \E e \in world.free :
    InForceIn(world, e, asOf) # {} /\ LevelIn(world, e, asOf) >= LevelIn(world, Project, asOf)

\* What a request will write is of its kind, and an evaluation has answered for the world
\* it read and the time its request began.
RequestTyped(c) ==
  /\ c.at \in {"plan", "apply"} => c.node \in Matched!Ends /\ c.level \in Int
  /\ c.at = "write" =>
       /\ c.world \in Worlds /\ c.gaps \in Seq(Gap) /\ c.need \in Int
       /\ c.need # 0 <=> InForceIn(c.world, Project, c.now) # {}
       /\ c.met <=> FitsIn(c.world, c.now)

SkillsType ==
  /\ Matched!World \in Worlds
  /\ gaps \in Seq(Gap)
  /\ \A w \in Workers : RequestTyped(call[w])
  /\ call = [w \in Workers |-> call[w]]

SkillsIInv == SkillsType /\ Matched!OneActiveGap /\ Matched!GapsAreTrue

\* A world as it was read is answered for as the rows are.
LEMMA WorldAsRead ==
  /\ \A n, asOf : InForceIn(Matched!World, n, asOf) = Matched!InForce(n, asOf)
  /\ \A n, asOf : LevelIn(Matched!World, n, asOf) = Matched!Level(n, asOf)
  /\ \A asOf : FitsIn(Matched!World, asOf) <=> Matched!Fits(asOf)
<1>1. Matched!World.edges = edges /\ Matched!World.free = free
  BY DEF Matched!World
<1>2. \A n, asOf : InForceIn(Matched!World, n, asOf) = Matched!InForce(n, asOf)
  BY <1>1 DEF InForceIn, Matched!InForce
<1>3. \A n, asOf : LevelIn(Matched!World, n, asOf) = Matched!Level(n, asOf)
  BY <1>1, <1>2, Zenon DEF LevelIn, Matched!Level
<1>4. \A asOf : FitsIn(Matched!World, asOf) <=> Matched!Fits(asOf)
  BY <1>1, <1>2, <1>3 DEF FitsIn, Matched!Fits
<1> QED
  BY <1>2, <1>3, <1>4

\* The level in force is one that was written, and there is none when nothing is in force.
LEMMA LevelInForce ==
  ASSUME edges \in [Matched!Ends -> [Matched!Times -> Int]], NEW n \in Matched!Ends, NEW asOf
  PROVE  /\ Matched!Level(n, asOf) \in Int
         /\ Matched!Level(n, asOf) # 0 <=> Matched!InForce(n, asOf) # {}
<1>1. PICK S : S = Matched!InForce(n, asOf)
  OBVIOUS
<1>2. S \in SUBSET Nat /\ S \in SUBSET Matched!Times /\ \A t \in S : edges[n][t] > 0
  BY <1>1 DEF Matched!InForce, Matched!Times
<1>3. CASE S = {}
  BY <1>1, <1>3 DEF Matched!Level
<1>4. CASE S # {}
  <2>1. PICK x \in S : \A y \in S : x <= y
    BY <1>2, <1>4, LeastNat
  <2>2. PICK m : m = Matched!Min(S)
    OBVIOUS
  <2>3. m \in S
    BY <2>1, <2>2, Zenon DEF Matched!Min
  <2>4. Matched!Level(n, asOf) = edges[n][m]
    BY <1>1, <1>4, <2>2 DEF Matched!Level
  <2>5. edges[n][m] \in Int /\ edges[n][m] > 0
    BY <1>2, <2>3
  <2> QED
    BY <1>1, <1>4, <2>4, <2>5
<1> QED
  BY <1>3, <1>4

\* The world is the edges and who is free.
LEMMA WorldParts ==
  Matched!World \in Worlds <=>
    edges \in [Matched!Ends -> [Matched!Times -> Int]] /\ free \in SUBSET Employees
  BY DEF Matched!World, Worlds

\* Requests that have not moved have nothing new to write.
LEMMA SameRequests ==
  ASSUME SkillsType, UNCHANGED call
  PROVE  /\ \A v \in Workers : RequestTyped(call[v])'
         /\ call' = [v \in Workers |-> call'[v]]
<1>1. \A v \in Workers : RequestTyped(call'[v])
  BY DEF SkillsType
<1>2. \A v \in Workers : RequestTyped(call[v])'
  BY <1>1 DEF RequestTyped, FitsIn, LevelIn, InForceIn, Worlds, Gap, Matched!Ends, Matched!Times
<1> QED
  BY <1>2 DEF SkillsType

\* A step of one request that leaves it with something of its kind.
LEMMA GoesTyped ==
  ASSUME SkillsType, NEW w \in Workers, NEW step, Matched!Goes(w, step), RequestTyped(step)
  PROVE  /\ \A v \in Workers : RequestTyped(call[v])'
         /\ call' = [v \in Workers |-> call'[v]]
<1>1. call' = [call EXCEPT ![w] = step] /\ call = [v \in Workers |-> call[v]]
  BY DEF Matched!Goes, SkillsType
<1>2. \A v \in Workers : call'[v] = IF v = w THEN step ELSE call[v]
  BY <1>1
<1>3. \A v \in Workers : RequestTyped(call'[v])
  BY <1>2 DEF SkillsType
<1>4. \A v \in Workers : RequestTyped(call[v])'
  BY <1>3 DEF RequestTyped, FitsIn, LevelIn, InForceIn, Worlds, Gap, Matched!Ends, Matched!Times
<1>5. call' = [v \in Workers |-> call'[v]]
  BY <1>1
<1> QED
  BY <1>4, <1>5

\* A step that changes neither the world nor a gap.
LEMMA Unmoved ==
  ASSUME SkillsIInv, NEW w \in Workers, NEW step, Matched!Goes(w, step), RequestTyped(step),
         UNCHANGED <<edges, free, gaps, settled>>
  PROVE  SkillsIInv'
<1>1. SkillsType'
  BY GoesTyped DEF SkillsIInv, SkillsType, Matched!World, Worlds, Gap, Matched!Ends, Matched!Times
<1>2. Matched!OneActiveGap'
  BY DEF SkillsIInv, Matched!OneActiveGap, Matched!ActiveGaps
<1>3. Matched!GapsAreTrue'
  BY DEF SkillsIInv, Matched!GapsAreTrue, Matched!ActiveGaps, Matched!Fits, Matched!InForce,
         Matched!Level
<1> QED
  BY <1>1, <1>2, <1>3 DEF SkillsIInv

\* Nothing is in force at the time that stands for none.
LEMMA NeverSettled == settled = 0 => Matched!GapsAreTrue
<1>1. \A t \in Matched!Times : ~(t <= 0)
  BY DEF Matched!Times
<1> QED
  BY <1>1 DEF Matched!GapsAreTrue, Matched!InForce

\* A level that is written is a level.
LEMMA ApplyTyped ==
  ASSUME SkillsIInv, NEW w \in Workers, Matched!ApplyAttach(w)
  PROVE  SkillsIInv'
<1>0. SkillsType
  BY DEF SkillsIInv
<1> DEFINE c == call[w]
<1>1. c.node \in Matched!Ends /\ c.level \in Int
  BY <1>0 DEF SkillsType, RequestTyped, Matched!ApplyAttach
<1>2. /\ edges' = [edges EXCEPT ![c.node][c.edge] = c.level]
      /\ settled' = 0 /\ UNCHANGED <<free, gaps>>
      /\ \E step : Matched!Goes(w, step) /\ step.at \in {"evaluate", "list"}
  BY DEF Matched!ApplyAttach
<1>3. edges \in [Matched!Ends -> [Matched!Times -> Int]] /\ free \in SUBSET Employees
  BY <1>0, WorldParts DEF SkillsType
<1> HIDE DEF c
<1>4. Matched!World' \in Worlds'
  <2>1. PICK levels : levels = [edges[c.node] EXCEPT ![c.edge] = c.level]
    OBVIOUS
  <2>2. levels \in [Matched!Times -> Int]
    BY <1>1, <1>3, <2>1
  <2>3. edges' = [edges EXCEPT ![c.node] = levels]
    BY <1>2, <2>1
  <2>4. edges' \in [Matched!Ends -> [Matched!Times -> Int]] /\ free' \in SUBSET Employees
    BY <1>2, <1>3, <2>2, <2>3
  <2> QED
    BY <2>4 DEF Matched!World, Worlds, Matched!Ends, Matched!Times
<1>5. \A step : step.at \in {"evaluate", "list"} => RequestTyped(step)
  BY DEF RequestTyped
<1>6. SkillsType'
  BY <1>0, <1>2, <1>4, <1>5, GoesTyped DEF SkillsType, Gap
<1>7. Matched!GapsAreTrue'
  <2>1. (settled = 0 => Matched!GapsAreTrue)'
    BY NeverSettled, PTL
  <2> QED
    BY <1>2, <2>1
<1>8. Matched!OneActiveGap'
  BY <1>2 DEF SkillsIInv, Matched!OneActiveGap, Matched!ActiveGaps
<1> QED
  BY <1>6, <1>7, <1>8 DEF SkillsIInv

\* What an evaluation reads is of its kind.
LEMMA EvaluationReads ==
  ASSUME SkillsIInv, NEW w \in Workers, Matched!Snapshot(w)
  PROVE  SkillsIInv'
<1>1. PICK asOf : asOf = call[w].now
  OBVIOUS
<1>2. PICK need : need = Matched!Level(Project, asOf)
  OBVIOUS
<1>3. PICK step : step = [at |-> "write", now |-> asOf, world |-> Matched!World, gaps |-> gaps,
                          need |-> need, met |-> Matched!Candidates(need, asOf) # {}]
  OBVIOUS
<1>4. Matched!Goes(w, step) /\ UNCHANGED <<edges, free, gaps, settled>>
  BY <1>1, <1>2, <1>3 DEF Matched!Snapshot
<1>5. (Matched!Candidates(need, asOf) # {}) <=> Matched!Fits(asOf)
  BY <1>2 DEF Matched!Candidates, Matched!ProficiencyMeets, Matched!Fits
<1>6. /\ step.at = "write" /\ step.world = Matched!World /\ step.gaps = gaps
      /\ step.need = need /\ step.now = asOf /\ (step.met <=> Matched!Fits(asOf))
  BY <1>3, <1>5
<1>7. need \in Int /\ (need # 0 <=> Matched!InForce(Project, asOf) # {})
  <2>1. edges \in [Matched!Ends -> [Matched!Times -> Int]] /\ Project \in Matched!Ends
    BY WorldParts DEF SkillsIInv, SkillsType, Matched!Ends
  <2> QED
    BY <1>2, <2>1, LevelInForce
<1>8. RequestTyped(step)
  BY <1>6, <1>7, WorldAsRead DEF RequestTyped, SkillsIInv, SkillsType
<1> QED
  BY <1>4, <1>8, Unmoved

\* What an evaluation makes of the gaps it read.
LEMMA EvaluatedGaps ==
  ASSUME NEW c, c.gaps \in Seq(Gap), c.need \in Int,
         \A g, h \in {k \in DOMAIN c.gaps : c.gaps[k].active} : g = h
  PROVE  LET new == Matched!Evaluated(c)
             active == {k \in DOMAIN new : new[k].active}
         IN /\ new \in Seq(Gap)
            /\ \A g, h \in active : g = h
            /\ c.need # 0 => (active # {} <=> ~c.met)
<1> DEFINE Active == {k \in DOMAIN c.gaps : c.gaps[k].active}
<1>0. DOMAIN c.gaps = 1..Len(c.gaps) /\ Len(c.gaps) \in Nat /\ \A g \in DOMAIN c.gaps : c.gaps[g] \in Gap
  OBVIOUS
<1>1. CASE c.need = 0
  BY <1>1 DEF Matched!Evaluated
<1>2. CASE c.need # 0 /\ c.met
  <2>1. PICK new : new = [g \in DOMAIN c.gaps |-> [c.gaps[g] EXCEPT !.active = FALSE]]
    OBVIOUS
  <2>2. Matched!Evaluated(c) = new
    BY <1>2, <2>1 DEF Matched!Evaluated
  <2>3. \A g \in DOMAIN c.gaps : [c.gaps[g] EXCEPT !.active = FALSE] \in Gap
    BY <1>0 DEF Gap
  <2>4. new \in Seq(Gap) /\ \A g \in DOMAIN new : new[g].active = FALSE
    <3>1. \A g \in DOMAIN c.gaps : [c.gaps[g] EXCEPT !.active = FALSE].active = FALSE
      BY <1>0 DEF Gap
    <3>2. PICK n \in Nat : DOMAIN c.gaps = 1..n
      BY <1>0
    <3>3. new \in [1..n -> Gap] /\ \A g \in 1..n : new[g].active = FALSE
      BY <2>1, <2>3, <3>1, <3>2
    <3>4. new \in Seq(Gap)
      BY <3>3
    <3>5. DOMAIN new = 1..n
      BY <3>3
    <3> QED
      BY <3>3, <3>4, <3>5
  <2> QED
    BY <1>2, <2>2, <2>4
<1>3. CASE c.need # 0 /\ ~c.met /\ Active # {}
  <2>1. Matched!Evaluated(c) = c.gaps
    BY <1>3 DEF Matched!Evaluated
  <2> QED
    BY <1>3, <2>1
<1>4. CASE c.need # 0 /\ ~c.met /\ Active = {}
  <2>1. PICK row : row = [level |-> c.need, active |-> TRUE]
    OBVIOUS
  <2>2. row \in Gap /\ row.active
    BY <1>4, <2>1 DEF Gap
  <2>3. Matched!Evaluated(c) = Append(c.gaps, row)
    BY <1>4, <2>1 DEF Matched!Evaluated
  <2>4. PICK new : new = Append(c.gaps, row)
    OBVIOUS
  <2>5. new \in Seq(Gap) /\ DOMAIN new = 1..(Len(c.gaps) + 1) /\ new[Len(c.gaps) + 1].active
        /\ \A k \in DOMAIN c.gaps : new[k] = c.gaps[k]
    BY <2>2, <2>4
  <2>6. DOMAIN c.gaps = 1..Len(c.gaps) /\ Len(c.gaps) \in Nat
    OBVIOUS
  <2>7. {k \in DOMAIN new : new[k].active} = {Len(c.gaps) + 1}
    <3>1. PICK n : n = Len(c.gaps) + 1
      OBVIOUS
    <3>2. \A k \in DOMAIN new : k = n \/ k \in DOMAIN c.gaps
      BY <2>5, <2>6, <3>1
    <3>3. n \in DOMAIN new /\ new[n].active
      BY <2>5, <2>6, <3>1
    <3>4. \A k \in DOMAIN c.gaps : ~new[k].active
      BY <1>4, <2>5
    <3> QED
      BY <3>1, <3>2, <3>3, <3>4
  <2> QED
    BY <1>4, <2>3, <2>4, <2>5, <2>7
<1> QED
  BY <1>1, <1>2, <1>3, <1>4

\* An evaluation that is committed leaves the gaps as its world asks for.
LEMMA EvaluationWrites ==
  ASSUME SkillsIInv, NEW w \in Workers, Matched!Commit(w)
  PROVE  SkillsIInv'
<1>0. SkillsType /\ Matched!OneActiveGap /\ Matched!GapsAreTrue
  BY DEF SkillsIInv
<1> DEFINE c == call[w]
<1>1. /\ c.gaps \in Seq(Gap) /\ c.need \in Int
      /\ c.need # 0 <=> InForceIn(c.world, Project, c.now) # {}
      /\ c.met <=> FitsIn(c.world, c.now)
      /\ c.gaps = gaps
  BY <1>0 DEF SkillsType, RequestTyped, Matched!Commit, Matched!Conflicts
<1>2. /\ gaps' = Matched!Evaluated(c) \o SubSeq(gaps, Len(c.gaps) + 1, Len(gaps))
      /\ settled' = IF Matched!World = c.world THEN c.now ELSE IF gaps' = gaps THEN settled ELSE 0
      /\ Matched!Goes(w, Matched!Idle)
      /\ UNCHANGED <<edges, free>>
  BY DEF Matched!Commit
<1> HIDE DEF c
<1>3. PICK new : new = Matched!Evaluated(c)
  OBVIOUS
<1>4. \A g, h \in {k \in DOMAIN c.gaps : c.gaps[k].active} : g = h
  BY <1>0, <1>1 DEF Matched!OneActiveGap, Matched!ActiveGaps
<1>5. /\ new \in Seq(Gap)
      /\ \A g, h \in {k \in DOMAIN new : new[k].active} : g = h
      /\ c.need # 0 => ({k \in DOMAIN new : new[k].active} # {} <=> ~c.met)
  BY <1>1, <1>3, <1>4, EvaluatedGaps
<1>6. gaps' = new
  <2>1. SubSeq(gaps, Len(c.gaps) + 1, Len(gaps)) = <<>>
    BY <1>1
  <2>2. \A s \in Seq(Gap) : s \o <<>> = s
    OBVIOUS
  <2> QED
    BY <1>2, <1>3, <1>5, <2>1, <2>2
<1>7. Matched!ActiveGaps' = {k \in DOMAIN new : new[k].active}
  BY <1>6 DEF Matched!ActiveGaps
<1>8. Matched!OneActiveGap'
  BY <1>5, <1>7 DEF Matched!OneActiveGap
<1>9. SkillsType'
  <2>1. RequestTyped(Matched!Idle)
    BY DEF RequestTyped, Matched!Idle
  <2>2. /\ \A v \in Workers : RequestTyped(call[v])'
        /\ call' = [v \in Workers |-> call'[v]]
    BY <1>0, <1>2, <2>1, GoesTyped
  <2>3. gaps' \in Seq(Gap)'
    BY <1>5, <1>6 DEF Gap
  <2>4. Matched!World' \in Worlds'
    BY <1>0, <1>2 DEF SkillsType, Matched!World, Worlds, Matched!Ends, Matched!Times
  <2> QED
    BY <2>2, <2>3, <2>4 DEF SkillsType
<1>11. Matched!GapsAreTrue' <=>
         (Matched!InForce(Project, settled') # {} => (Matched!ActiveGaps' # {} <=> ~Matched!Fits(settled')))
  BY <1>2 DEF Matched!GapsAreTrue, Matched!Fits, Matched!InForce, Matched!Level
<1>12. CASE Matched!World = c.world
  <2>1. Matched!InForce(Project, c.now) # {} => c.need # 0
    BY <1>1, <1>12, WorldAsRead
  <2>2. c.met <=> Matched!Fits(c.now)
    BY <1>1, <1>12, WorldAsRead
  <2>3. settled' = c.now
    BY <1>2, <1>12
  <2> QED
    BY <1>5, <1>7, <1>8, <1>9, <1>11, <2>1, <2>2, <2>3 DEF SkillsIInv
<1>13. CASE Matched!World # c.world /\ gaps' = gaps
  <2>1. settled' = settled
    BY <1>2, <1>13
  <2>2. Matched!ActiveGaps' = Matched!ActiveGaps
    BY <1>13 DEF Matched!ActiveGaps
  <2> QED
    BY <1>0, <1>8, <1>9, <1>11, <2>1, <2>2 DEF SkillsIInv, Matched!GapsAreTrue
<1>14. CASE Matched!World # c.world /\ gaps' # gaps
  <2>1. settled' = 0
    BY <1>2, <1>14
  <2>2. (settled = 0 => Matched!GapsAreTrue)'
    BY NeverSettled, PTL
  <2> QED
    BY <1>8, <1>9, <2>1, <2>2 DEF SkillsIInv
<1> QED
  BY <1>12, <1>13, <1>14

\* There are no skills and no gaps at first.
LEMMA SkillsInit == Matched!Init => SkillsIInv
<1> SUFFICES ASSUME Matched!Init PROVE SkillsIInv
  OBVIOUS
<1>1. /\ edges = [n \in Matched!Ends |-> [t \in Matched!Times |-> 0]] /\ free = Employees
      /\ gaps = <<>> /\ call = [w \in Workers |-> Matched!Idle] /\ settled = 0
  BY DEF Matched!Init
<1>2. Matched!World \in Worlds
  BY <1>1, WorldParts
<1>3. RequestTyped(Matched!Idle)
  BY DEF RequestTyped, Matched!Idle
<1>4. SkillsType
  <2>1. \A w \in Workers : call[w] = Matched!Idle
    BY <1>1
  <2>2. call = [w \in Workers |-> call[w]]
    BY <1>1
  <2>3. gaps \in Seq(Gap)
    BY <1>1
  <2> QED
    BY <1>2, <1>3, <2>1, <2>2, <2>3 DEF SkillsType
<1>5. Matched!OneActiveGap
  BY <1>1 DEF Matched!OneActiveGap, Matched!ActiveGaps
<1> QED
  BY <1>1, <1>4, <1>5, NeverSettled DEF SkillsIInv

\* Every step preserves the invariant of the gaps.
LEMMA SkillsStep == SkillsIInv /\ [Matched!Next]_Matched!matchVars => SkillsIInv'
<1> SUFFICES ASSUME SkillsIInv, [Matched!Next]_Matched!matchVars PROVE SkillsIInv'
  OBVIOUS
<1>0. \A c : c.at \in {"evaluate", "list", "staff", "idle"} => RequestTyped(c)
  BY DEF RequestTyped
<1>1. ASSUME NEW w \in Workers, NEW n \in Matched!Ends, NEW level \in Matched!Levels,
             Matched!Begin(w, n, level)
      PROVE  SkillsIInv'
  <2> DEFINE step == [at |-> "plan", node |-> n, level |-> level, now |-> calls']
  <2>1. Matched!Goes(w, step) /\ UNCHANGED <<edges, free, gaps, settled>>
    BY <1>1 DEF Matched!Begin
  <2>2. RequestTyped(step)
    BY DEF RequestTyped, Matched!Levels
  <2> QED
    BY <2>1, <2>2, Unmoved
<1>2. ASSUME NEW w \in Workers, Matched!PlanAttach(w)
      PROVE  SkillsIInv'
  <2>1. PICK c : c = call[w]
    OBVIOUS
  <2>2. PICK step : step = [at |-> "apply", node |-> c.node, level |-> c.level, now |-> c.now,
                            edge |-> Matched!Edge(c.node, c.now)]
    OBVIOUS
  <2>3. Matched!Goes(w, step) /\ UNCHANGED <<edges, free, gaps, settled>> /\ c.at = "plan"
    BY <1>2, <2>1, <2>2 DEF Matched!PlanAttach
  <2>4. RequestTyped(step)
    BY <2>1, <2>2, <2>3 DEF RequestTyped, SkillsIInv, SkillsType
  <2> QED
    BY <2>3, <2>4, Unmoved
<1>3. ASSUME NEW w \in Workers, Matched!ListGaps(w) \/ Matched!Retry(w) \/ Matched!Lost(w)
      PROVE  SkillsIInv'
  <2>1. UNCHANGED <<edges, free, gaps, settled>>
        /\ \E step : Matched!Goes(w, step) /\ step.at \in {"evaluate", "idle"}
    BY <1>3 DEF Matched!ListGaps, Matched!Retry, Matched!Lost, Matched!Idle
  <2> QED
    BY <1>0, <2>1, Unmoved
<1>4. ASSUME NEW w \in Workers, NEW e \in Employees, NEW staff, Matched!PlanStaffing(w, e, staff)
      PROVE  SkillsIInv'
  <2>1. UNCHANGED <<edges, free, gaps, settled>>
        /\ \E step : Matched!Goes(w, step) /\ step.at = "staff"
    BY <1>4 DEF Matched!PlanStaffing
  <2> QED
    BY <1>0, <2>1, Unmoved
<1>5. ASSUME NEW w \in Workers, Matched!ApplyStaffing(w)
      PROVE  SkillsIInv'
  <2>1. UNCHANGED <<edges, free, gaps, settled>> /\ Matched!Goes(w, Matched!Idle)
    BY <1>5 DEF Matched!ApplyStaffing
  <2>2. Matched!Idle.at = "idle"
    BY DEF Matched!Idle
  <2> QED
    BY <1>0, <2>1, <2>2, Unmoved
<1>6. ASSUME NEW e \in Employees, Matched!Moves(e)
      PROVE  SkillsIInv'
  <2>1. UNCHANGED <<edges, gaps, call>> /\ settled' = 0 /\ free' \in SUBSET Employees
    BY <1>6 DEF Matched!Moves, SkillsIInv, SkillsType, Matched!World, Worlds
  <2>2. SkillsType'
    <3>1. Matched!World' \in Worlds
      BY <2>1 DEF SkillsIInv, SkillsType, Matched!World, Worlds
    <3> QED
      BY <2>1, <3>1, SameRequests DEF SkillsIInv, SkillsType, Gap, Worlds, Matched!Ends, Matched!Times
  <2>3. (settled = 0 => Matched!GapsAreTrue)'
    BY NeverSettled, PTL
  <2> QED
    BY <2>1, <2>2, <2>3 DEF SkillsIInv, Matched!OneActiveGap, Matched!ActiveGaps
<1>7. CASE UNCHANGED Matched!matchVars
  <2>1. UNCHANGED <<edges, free, gaps, call, settled>>
    BY <1>7 DEF Matched!matchVars
  <2>2. SkillsType'
    <3>1. Matched!World' \in Worlds
      BY <2>1 DEF SkillsIInv, SkillsType, Matched!World
    <3> QED
      BY <2>1, <3>1, SameRequests DEF SkillsIInv, SkillsType, Gap, Worlds, Matched!Ends, Matched!Times
  <2> QED
    BY <2>1, <2>2 DEF SkillsIInv, Matched!OneActiveGap, Matched!ActiveGaps, Matched!GapsAreTrue,
                      Matched!Fits, Matched!InForce, Matched!Level
<1> QED
  BY <1>1, <1>2, <1>3, <1>4, <1>5, <1>6, <1>7, ApplyTyped, EvaluationReads, EvaluationWrites
  DEF Matched!Next

\* The invariant of the gaps.
LEMMA SkillsInvariant == Matched!Spec => []SkillsIInv
  BY SkillsInit, SkillsStep, PTL DEF Matched!Spec

-----------------------------------------------------------------------------
(* What the device shows *)

\* Without an edge that begins at noon, the entity at noon is the one at midnight.
LEMMA SameWeekShown ==
  ASSUME DatesHaveWeeks, NEW d \in Dates, \A k \in DOMAIN scopes : scopes[k].from # Noon(d)
  PROVE  OptimisticWeekStart(d) = WeekStart(d)
<1>1. \A k \in DOMAIN scopes : scopes[k].from \in Int
  <2>1. DOMAIN scopes = 1..Len(scopes) /\ \A k \in 1..Len(scopes) : scopes[k] \in ScopeRows
    BY DEF DatesHaveWeeks
  <2> QED
    BY <2>1 DEF ScopeRows
<1>2. Midnight(d) \in Int /\ Noon(d) = Midnight(d) + 1
  BY TimesheetsAssumption DEF Dates, Midnight, Noon
<1>3. \A k \in DOMAIN scopes : scopes[k].from <= Midnight(d) <=> scopes[k].from <= Noon(d)
  BY <1>1, <1>2
<1>4. {k \in DOMAIN scopes : scopes[k].from <= Midnight(d)}
        = {k \in DOMAIN scopes : scopes[k].from <= Noon(d)}
  BY <1>3
<1>5. EntityAt(Midnight(d)) = EntityAt(Noon(d))
  BY <1>4 DEF EntityAt
<1> QED
  BY <1>5 DEF OptimisticWeekStart, WeekStart

\* The device saves, submits and unlocks as the server does (mutators/foundation.ts).
LEMMA TimesheetsShown ==
  ASSUME TimesheetsIInv, NEW d \in Dates, \A k \in DOMAIN scopes : scopes[k].from # Noon(d)
  PROVE  /\ \A c \in Cells, h \in HourChoices : SaveCell(d, c, h) => DeviceSaveCell(d, c, h)
         /\ SubmitWeek(d) => DeviceSubmitWeek(d)
         /\ UnlockWeek(d) => DeviceUnlockWeek(d)
<1>1. PICK week : week = WeekStart(d)
  OBVIOUS
<1>2. OptimisticWeekStart(d) = week
  BY <1>1, SameWeekShown DEF TimesheetsIInv
<1>3. \A c \in Cells, h \in HourChoices : SaveCell(d, c, h) => DeviceSaveCell(d, c, h)
  BY <1>1, <1>2 DEF SaveCell, DeviceSaveCell
<1>4. SubmitWeek(d) => DeviceSubmitWeek(d)
  BY <1>1, <1>2 DEF SubmitWeek, DeviceSubmitWeek
<1>5. UnlockWeek(d) => DeviceUnlockWeek(d)
  <2> SUFFICES ASSUME UnlockWeek(d) PROVE DeviceUnlockWeek(d)
    OBVIOUS
  <2>1. week # NoWeek /\ entries' = Turned(week, "Submitted", "Draft")
    BY <1>1 DEF UnlockWeek
  <2>2. week \in Weeks
    BY <1>1, WeekStartIsAWeek DEF UnlockWeek, TimesheetsIInv
  <2>3. markers[week] \in {0, 1}
    BY <2>2 DEF TimesheetsIInv, TimesheetsType
  <2>4. markers' = [markers EXCEPT ![week] = IF markers[week] = 0 THEN 0 ELSE markers[week] - 1]
    BY <1>1 DEF UnlockWeek
  <2>5. markers' = [markers EXCEPT ![week] = 0]
    <3>1. (IF markers[week] = 0 THEN 0 ELSE markers[week] - 1) = 0
      BY <2>3
    <3> QED
      BY <2>4, <3>1
  <2> QED
    BY <1>2, <2>1, <2>5 DEF DeviceUnlockWeek
<1> QED
  BY <1>3, <1>4, <1>5

\* The device reads and dismisses a notification as the server does.
LEMMA NoticesShown ==
  ASSUME NoticesIInv
  PROVE  /\ \A n \in notices, dismiss \in BOOLEAN :
              Noticed!Open(n, dismiss)
                => notices' = (notices \ {n}) \cup {Noticed!DeviceReadState(n, dismiss)}
         /\ \A u \in {Self} \cup Managers :
              Noticed!MarkAllRead(u) => notices' = Noticed!DeviceMarkAllRead(u)
<1>1. \A n \in notices : n \in NoticeRows
  BY DEF NoticesIInv, NoticesType
<1>2. \A n \in NoticeRows : n.read \in BOOLEAN /\ n.dismissed \in BOOLEAN
  BY DEF NoticeRows
<1>3. \A n \in NoticeRows, dismiss \in BOOLEAN :
        Noticed!ReadState(n, dismiss) = Noticed!DeviceReadState(n, dismiss)
  <2> SUFFICES ASSUME NEW n \in NoticeRows, NEW dismiss \in BOOLEAN
               PROVE  Noticed!ReadState(n, dismiss) = Noticed!DeviceReadState(n, dismiss)
    OBVIOUS
  <2>1. (n.dismissed \/ dismiss) = IF dismiss THEN TRUE ELSE n.dismissed
    BY <1>2
  <2>2. PICK b : b = (n.dismissed \/ dismiss)
    OBVIOUS
  <2>3. Noticed!ReadState(n, dismiss) = [n EXCEPT !.read = TRUE, !.dismissed = b]
    BY <2>2 DEF Noticed!ReadState
  <2>4. Noticed!DeviceReadState(n, dismiss) = [n EXCEPT !.read = TRUE, !.dismissed = b]
    BY <2>1, <2>2 DEF Noticed!DeviceReadState
  <2> QED
    BY <2>3, <2>4
<1>4. \A n \in NoticeRows : n.read => Noticed!DeviceReadState(n, FALSE) = n
  BY DEF NoticeRows, Noticed!DeviceReadState
<1>5. ASSUME NEW n \in notices, NEW dismiss \in BOOLEAN, Noticed!Open(n, dismiss)
      PROVE  notices' = (notices \ {n}) \cup {Noticed!DeviceReadState(n, dismiss)}
  <2>1. notices' = (notices \ {n}) \cup {Noticed!ReadState(n, dismiss)}
    BY <1>5 DEF Noticed!Open, Noticed!Patch
  <2> QED
    BY <1>1, <1>3, <2>1
<1>6. ASSUME NEW u \in {Self} \cup Managers, Noticed!MarkAllRead(u)
      PROVE  notices' = Noticed!DeviceMarkAllRead(u)
  <2>1. PICK ns : ns = {n \in notices : n.to = u /\ ~n.read}
    OBVIOUS
  <2>2. notices' = (notices \ ns) \cup {Noticed!ReadState(n, FALSE) : n \in ns}
    BY <1>6, <2>1 DEF Noticed!MarkAllRead, Noticed!Patch
  <2>3. \A n \in ns : Noticed!ReadState(n, FALSE) = Noticed!DeviceReadState(n, FALSE)
    BY <1>1, <1>3, <2>1
  <2>4. \A n \in notices \ ns : n.to = u => Noticed!DeviceReadState(n, FALSE) = n
    BY <1>1, <1>4, <2>1
  <2>5. \A n \in ns : n \in notices /\ n.to = u
    BY <2>1
  <2>6. ASSUME NEW x \in notices' PROVE x \in Noticed!DeviceMarkAllRead(u)
    BY <2>2, <2>3, <2>4, <2>5, <2>6 DEF Noticed!DeviceMarkAllRead
  <2>7. ASSUME NEW n \in notices
        PROVE  (IF n.to = u THEN Noticed!DeviceReadState(n, FALSE) ELSE n) \in notices'
    <3>1. CASE n \in ns
      BY <2>2, <2>3, <2>5, <3>1
    <3>2. CASE n \notin ns
      BY <2>2, <2>4, <3>2
    <3> QED
      BY <3>1, <3>2
  <2> QED
    BY <2>6, <2>7 DEF Noticed!DeviceMarkAllRead
<1> QED
  BY <1>5, <1>6

\* Nobody is staffed fewer than no times.
StaffingTyped ==
  /\ staffedOn \in [Employees -> Nat]
  /\ \A w \in Workers : call[w].at = "staff" => call[w].node \in Employees
  /\ call = [w \in Workers |-> call[w]]

\* Nobody is staffed at first.
LEMMA StaffingInit == Matched!Init => StaffingTyped
  BY DEF Matched!Init, StaffingTyped, Matched!Idle

\* A step of one request that leaves nobody staffed fewer than no times.
LEMMA StaffingGoes ==
  ASSUME StaffingTyped, NEW w \in Workers, NEW step, Matched!Goes(w, step),
         step.at = "staff" => step.node \in Employees, staffedOn' \in [Employees -> Nat]
  PROVE  StaffingTyped'
<1>1. \A v \in Workers : call'[v] = IF v = w THEN step ELSE call[v]
  BY DEF StaffingTyped, Matched!Goes
<1>2. call' = [v \in Workers |-> call'[v]]
  BY DEF StaffingTyped, Matched!Goes
<1> QED
  BY <1>1, <1>2 DEF StaffingTyped

\* Every step leaves nobody staffed fewer than no times.
LEMMA StaffingStep == StaffingTyped /\ [Matched!Next]_Matched!matchVars => StaffingTyped'
<1> SUFFICES ASSUME StaffingTyped, [Matched!Next]_Matched!matchVars PROVE StaffingTyped'
  OBVIOUS
<1>0. staffedOn \in [Employees -> Nat]
  BY DEF StaffingTyped
<1>1. ASSUME UNCHANGED <<staffedOn, call>> PROVE StaffingTyped'
  BY <1>1 DEF StaffingTyped
<1>2. ASSUME NEW w \in Workers, UNCHANGED staffedOn, NEW step, Matched!Goes(w, step),
             step.at # "staff"
      PROVE  StaffingTyped'
  BY <1>0, <1>2, StaffingGoes
<1>3. ASSUME NEW w \in Workers, Matched!Next!(w) PROVE StaffingTyped'
  <2>1. ASSUME NEW n \in Matched!Ends, NEW level \in Matched!Levels, Matched!Begin(w, n, level)
        PROVE  StaffingTyped'
    BY <1>2, <2>1 DEF Matched!Begin
  <2>2. CASE Matched!PlanAttach(w) \/ Matched!ApplyAttach(w)
    BY <1>2, <2>2 DEF Matched!PlanAttach, Matched!ApplyAttach
  <2>3. CASE Matched!ListGaps(w)
    BY <1>2, <2>3 DEF Matched!ListGaps, Matched!Idle
  <2>4. CASE Matched!Snapshot(w) \/ Matched!Retry(w)
    BY <1>2, <2>4 DEF Matched!Snapshot, Matched!Retry
  <2>5. CASE Matched!Commit(w) \/ Matched!Lost(w)
    BY <1>2, <2>5 DEF Matched!Commit, Matched!Lost, Matched!Idle
  <2>6. CASE \E e \in Employees : Matched!Moves(e)
    BY <1>1, <2>6 DEF Matched!Moves
  <2>7. ASSUME NEW e \in Employees, NEW staff \in BOOLEAN, Matched!PlanStaffing(w, e, staff)
        PROVE  StaffingTyped'
    BY <1>0, <2>7, StaffingGoes DEF Matched!PlanStaffing
  <2>8. CASE Matched!ApplyStaffing(w)
    <3>1. PICK n : n = call[w].node
      OBVIOUS
    <3>2. n \in Employees /\ staffedOn[n] \in Nat
      BY <1>0, <2>8, <3>1 DEF Matched!ApplyStaffing, StaffingTyped
    <3>3. PICK m : m = Matched!Staffing(staffedOn[n], call[w].staff, call[w].found)
      OBVIOUS
    <3>4. m \in Nat
      BY <3>2, <3>3 DEF Matched!Staffing
    <3>5. staffedOn' = [staffedOn EXCEPT ![n] = m]
      BY <2>8, <3>1, <3>3 DEF Matched!ApplyStaffing
    <3>6. staffedOn' \in [Employees -> Nat]
      BY <1>0, <3>4, <3>5
    <3> QED
      BY <2>8, <3>6, StaffingGoes DEF Matched!ApplyStaffing, Matched!Idle
  <2> QED
    BY <1>3, <2>1, <2>2, <2>3, <2>4, <2>5, <2>6, <2>7, <2>8
<1>4. CASE Matched!Next
  BY <1>3, <1>4 DEF Matched!Next
<1>5. CASE UNCHANGED Matched!matchVars
  BY <1>1, <1>5 DEF Matched!matchVars
<1> QED
  BY <1>4, <1>5

\* Nobody is ever staffed fewer than no times.
LEMMA StaffingInvariant == Matched!Spec => []StaffingTyped
  BY StaffingInit, StaffingStep, PTL DEF Matched!Spec

\* The device attaches a skill and staffs as the server does, when no other call crossed.
LEMMA SkillsShown ==
  ASSUME SkillsIInv, StaffingTyped, NEW w \in Workers
  PROVE  LET c == call[w] IN
         /\ Matched!ApplyAttach(w) /\ c.edge = Matched!Edge(c.node, c.now)
              /\ (\A t \in Matched!Times : edges[c.node][t] > 0 => t = c.edge)
              => edges'[c.node] = Matched!DeviceAttach(edges[c.node], c.now, c.level)
         /\ Matched!ApplyStaffing(w) /\ c.found = (staffedOn[c.node] > 0)
              => staffedOn'[c.node] = IF c.staff THEN Matched!DeviceStaff(staffedOn[c.node])
                                      ELSE Matched!DeviceUnstaff(staffedOn[c.node])
<1>1. PICK c : c = call[w]
  OBVIOUS
<1>2. PICK n : n = c.node
  OBVIOUS
<1>3. ASSUME Matched!ApplyAttach(w), c.edge = Matched!Edge(n, c.now),
             \A t \in Matched!Times : edges[n][t] > 0 => t = c.edge
      PROVE  edges'[n] = Matched!DeviceAttach(edges[n], c.now, c.level)
  <2>1. n \in Matched!Ends
    BY <1>1, <1>2, <1>3 DEF Matched!ApplyAttach, SkillsIInv, SkillsType, RequestTyped
  <2>2. edges \in [Matched!Ends -> [Matched!Times -> Int]]
    BY WorldParts DEF SkillsIInv, SkillsType
  <2>3. edges'[n] = [edges[n] EXCEPT ![c.edge] = c.level]
    BY <1>1, <1>2, <1>3, <2>1, <2>2 DEF Matched!ApplyAttach
  <2>4. PICK held : held = {t \in Matched!Times : edges[n][t] > 0}
    OBVIOUS
  <2>5. Matched!DeviceAttach(edges[n], c.now, c.level)
          = [edges[n] EXCEPT ![IF held = {} THEN c.now ELSE CHOOSE t \in held : TRUE] = c.level]
    BY <2>4 DEF Matched!DeviceAttach
  <2>6. CASE held = {}
    <3>1. Matched!InForce(n, c.now) = {}
      BY <2>4, <2>6 DEF Matched!InForce
    <3>2. c.edge = c.now
      BY <1>3, <3>1 DEF Matched!Edge
    <3> QED
      BY <2>3, <2>5, <2>6, <3>2
  <2>7. CASE held # {}
    <3>1. (CHOOSE t \in held : TRUE) \in held
      BY <2>7
    <3>2. (CHOOSE t \in held : TRUE) = c.edge
      BY <1>3, <2>4, <3>1
    <3> QED
      BY <2>3, <2>5, <2>7, <3>2
  <2> QED
    BY <2>6, <2>7
<1>4. ASSUME Matched!ApplyStaffing(w), c.found = (staffedOn[n] > 0)
      PROVE  staffedOn'[n] = IF c.staff THEN Matched!DeviceStaff(staffedOn[n])
                             ELSE Matched!DeviceUnstaff(staffedOn[n])
  <2>1. n \in Employees /\ staffedOn \in [Employees -> Nat]
    BY <1>1, <1>2, <1>4 DEF Matched!ApplyStaffing, StaffingTyped
  <2>2. PICK m \in Nat : m = staffedOn[n]
    BY <2>1
  <2>3. staffedOn'[n] = Matched!Staffing(m, c.staff, c.found)
    BY <1>1, <1>2, <1>4, <2>1, <2>2 DEF Matched!ApplyStaffing
  <2>4. c.found <=> m > 0
    BY <1>4, <2>2
  <2> QED
    BY <2>2, <2>3, <2>4 DEF Matched!Staffing, Matched!DeviceStaff, Matched!DeviceUnstaff
<1> QED
  BY <1>1, <1>2, <1>3, <1>4

-----------------------------------------------------------------------------
(* The four parts *)

\* A behaviour of the parts together is, for each of them, one of its own or one in which
\* it rests: what is proved of a part holds of the whole.
THEOREM HoursIsItsParts == HoursSpec => Spec /\ Accrued!Spec /\ Noticed!Spec /\ Matched!Spec
<1>1. HoursInit => Init /\ Accrued!Init /\ Noticed!Init /\ Matched!Init
  BY DEF HoursInit
<1>2. [HoursNext]_allVars => [Next]_vars
  BY DEF HoursNext, OfTimesheets, OfOvertime, OfNotices, OfSkills, allVars
<1>3. [HoursNext]_allVars => [Accrued!Next]_Accrued!vars
  BY DEF HoursNext, OfTimesheets, OfOvertime, OfNotices, OfSkills, allVars, overtimeVars,
         Accrued!vars
<1>4. [HoursNext]_allVars => [Noticed!Next]_Noticed!noticeVars
  BY DEF HoursNext, OfTimesheets, OfOvertime, OfNotices, OfSkills, allVars, noticeVars,
         Noticed!noticeVars
<1>5. [HoursNext]_allVars => [Matched!Next]_Matched!matchVars
  BY DEF HoursNext, OfTimesheets, OfOvertime, OfNotices, OfSkills, allVars, matchVars,
         Matched!matchVars
<1> QED
  BY <1>1, <1>2, <1>3, <1>4, <1>5, PTL
  DEF HoursSpec, Spec, Accrued!Spec, Noticed!Spec, Matched!Spec

\* However a week is unlocked, submitted again, evaluated late or not at all, it has one
\* open flag of a reason and its overtime is granted once (timesheet-anomaly.ts).
THEOREM GrantedOnce == HoursSpec => []OvertimeIsGrantedOnce
  BY HoursIsItsParts, OvertimeInvariant, GrantedHolds, PTL DEF OvertimeIsGrantedOnce

\* However two deliveries cross, nobody is notified twice of the same thing, and a
\* delivery that did not fail has left each recipient a notification.
THEOREM EveryoneIsToldOnce == HoursSpec => []NotifiedOnce
  BY HoursIsItsParts, NoticesInvariant, NotifiedHolds, PTL DEF NotifiedOnce

\* However evaluations cross (skillGapEvaluate, each as of the time its request began), there
\* is one Active gap at most, and while nothing the last one read has changed it is there when
\* nobody meets the requirement and only then, as of the time that one asked for.
THEOREM GapsSayWhatThereIs == HoursSpec => []GapsAreTrue
<1>1. SkillsIInv => GapsAreTrue
  BY DEF SkillsIInv, GapsAreTrue
<1> QED
  BY <1>1, HoursIsItsParts, SkillsInvariant, PTL

\* Whatever week a calendar or an entity gives a date by now, a cell of a day has one
\* entry and a day no more than its hours, and the snapshot of a week no computation is
\* due for is what its entries add up to (saveCell, utilizationSnapshotCompute).
THEOREM WeeksAddUp == HoursSpec => []HoursAgree
  BY HoursIsItsParts, TimesheetsInvariant, AgreeHolds, PTL

\* A week that has been unlocked is not shown as submitted: submitting it again and
\* again has left one marker, and unlockWeek takes the first it finds.
THEOREM UnlockedIsUnlocked == HoursSpec => UnlockUnlocks
<1>1. TimesheetsIInv /\ [Next]_vars
        => [\A d \in Dates : UnlockWeek(d) => WeekStatus(WeekStart(d))' # "Submitted"]_<<entries, markers>>
  BY UnlockHolds
<1> QED
  BY <1>1, HoursIsItsParts, TimesheetsInvariant, PTL DEF Spec, UnlockUnlocks

\* However clearances, new versions and days fall, what an employee holds is no more than
\* a cap some version has had, and every grant was priced by a version that had begun.
THEOREM BalanceStaysCapped == HoursSpec => []BalanceIsCapped
<1>1. Accrued!Spec => [](BalanceIInv /\ OvertimeIInv)
  <2>1. Accrued!Init => BalanceIInv
    BY BalanceInit
  <2> QED
    BY <2>1, BalanceStep, OvertimeInvariant, PTL DEF Accrued!Spec
<1> QED
  BY <1>1, HoursIsItsParts, CappedHolds, PTL DEF BalanceIsCapped

\* What the device shows of a save, a submission, an unlock, a notification that is read,
\* a skill or a staffing is what the server makes of it, where no other call crossed it.
THEOREM ShownIsDelivered == HoursSpec => CallsShownAsDelivered
<1>1. TimesheetsIInv => [\A d \in Dates :
       (\A k \in DOMAIN scopes : scopes[k].from # Noon(d)) =>
         /\ \A c \in Cells, h \in HourChoices : SaveCell(d, c, h) => DeviceSaveCell(d, c, h)
         /\ SubmitWeek(d) => DeviceSubmitWeek(d)
         /\ UnlockWeek(d) => DeviceUnlockWeek(d)]_<<entries, markers>>
  BY TimesheetsShown
<1>2. Spec => ShownAsDelivered
  BY <1>1, TimesheetsInvariant, PTL DEF ShownAsDelivered
<1>3. NoticesIInv =>
        [/\ \A n \in notices, dismiss \in BOOLEAN :
              Noticed!Open(n, dismiss)
                => notices' = (notices \ {n}) \cup {Noticed!DeviceReadState(n, dismiss)}
         /\ \A u \in {Self} \cup Managers :
              Noticed!MarkAllRead(u) => notices' = Noticed!DeviceMarkAllRead(u)]_Noticed!noticeVars
  BY NoticesShown
<1>4. Noticed!Spec => Noticed!ReadStatesAgree
  BY <1>3, NoticesInvariant, PTL DEF Noticed!ReadStatesAgree
<1>5. SkillsIInv /\ StaffingTyped =>
        [\A w \in Workers :
           LET c == call[w]
           IN /\ Matched!ApplyAttach(w) /\ c.edge = Matched!Edge(c.node, c.now)
                /\ (\A t \in Matched!Times : edges[c.node][t] > 0 => t = c.edge)
                   => edges'[c.node] = Matched!DeviceAttach(edges[c.node], c.now, c.level)
              /\ Matched!ApplyStaffing(w) /\ c.found = (staffedOn[c.node] > 0)
                   => staffedOn'[c.node] = IF c.staff THEN Matched!DeviceStaff(staffedOn[c.node])
                                           ELSE Matched!DeviceUnstaff(staffedOn[c.node])
        ]_Matched!matchVars
  BY SkillsShown
<1>6. Matched!Spec => Matched!AttachedAsShown
  BY <1>5, SkillsInvariant, StaffingInvariant, PTL DEF Matched!AttachedAsShown
<1> QED
  BY <1>2, <1>4, <1>6, HoursIsItsParts, PTL DEF CallsShownAsDelivered
=============================================================================
