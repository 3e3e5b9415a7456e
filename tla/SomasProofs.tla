---------------------------- MODULE SomasProofs ----------------------------
(* Sums over a finite set, for the totals of balances, captures and limits. *)
(* SumFunctionOnSet is a recursive function: what follows first shows that  *)
(* it is well defined and that the order of its elements does not matter.   *)
EXTENDS Integers, FiniteSets, Functions, FiniteSetTheorems, TLAPS

Escolhido(s) == CHOOSE x \in s : TRUE
Soma(f, S, g) ==
  g = [s \in SUBSET S |-> IF s = {} THEN 0
                          ELSE f[Escolhido(s)] + g[s \ {Escolhido(s)}]]

(* Among the subsets of a finite set that have some flaw, one has it while  *)
(* none of its own subsets does.                                            *)
LEMMA MenorFalho ==
  ASSUME NEW S, IsFiniteSet(S), NEW T, T \subseteq SUBSET S, T # {}
  PROVE  \E m \in T : \A u \in T : u \subseteq m => u = m
<1>1. IsWellFoundedOn(StrictSubsetOrdering(S), SUBSET S)
  BY FS_StrictSubsetOrderingWellFounded, FS_FiniteSubsetsOfFinite
<1>2. PICK m \in T : \A u \in T : ~(<<u, m>> \in StrictSubsetOrdering(S))
  BY <1>1, WFMin
<1>3. \A u \in T : u \subseteq m => u = m
  BY <1>2 DEF StrictSubsetOrdering
<1> QED BY <1>3

(* Two functions that satisfy the equation of the sum agree where both are  *)
(* defined.                                                                 *)
LEMMA SomaUnica ==
  ASSUME NEW f, NEW S, IsFiniteSet(S), NEW U, NEW V, U \subseteq S, V \subseteq S,
         NEW g, NEW h, Soma(f, U, g), Soma(f, V, h)
  PROVE  \A s \in SUBSET U : s \subseteq V => g[s] = h[s]
<1> DEFINE T == {s \in SUBSET S : s \subseteq U /\ s \subseteq V /\ g[s] # h[s]}
<1> SUFFICES ASSUME T # {} PROVE FALSE
  OBVIOUS
<1>1. PICK m \in T : \A u \in T : u \subseteq m => u = m
  <2> HIDE DEF T
  <2>1. T \subseteq SUBSET S
    BY DEF T
  <2> QED BY <2>1, MenorFalho
<1>2. m \subseteq U /\ m \subseteq V /\ m \subseteq S /\ g[m] # h[m]
  OBVIOUS
<1>3. m # {}
  BY <1>2 DEF Soma
<1>4. Escolhido(m) \in m
  BY <1>3 DEF Escolhido
<1> DEFINE r == m \ {Escolhido(m)}
<1>5. r \subseteq m /\ r # m
  BY <1>4
<1>6. r \notin T
  BY <1>1, <1>5
<1>7. g[r] = h[r]
  BY <1>2, <1>5, <1>6
<1>8. g[m] = f[Escolhido(m)] + g[r] /\ h[m] = f[Escolhido(m)] + h[r]
  BY <1>2, <1>3 DEF Soma
<1> QED BY <1>2, <1>7, <1>8

(* There is such a function on every finite set.                            *)
LEMMA SomaExiste ==
  ASSUME NEW f, NEW S, IsFiniteSet(S)
  PROVE  \E g : Soma(f, S, g)
<1> DEFINE T == {t \in SUBSET S : ~\E g : Soma(f, t, g)}
<1> SUFFICES ASSUME T # {} PROVE FALSE
  OBVIOUS
<1>1. PICK m \in T : \A u \in T : u \subseteq m => u = m
  <2> HIDE DEF T
  <2>1. T \subseteq SUBSET S
    BY DEF T
  <2> QED BY <2>1, MenorFalho
<1>2. m \subseteq S /\ ~\E g : Soma(f, m, g)
  OBVIOUS
<1> DEFINE G(u) == CHOOSE g : Soma(f, u, g)
           r(s) == s \ {Escolhido(s)}
           h == [s \in SUBSET m |-> IF s = {} THEN 0
                                    ELSE f[Escolhido(s)] + G(r(s))[r(s)]]
<1>3. \A u \in SUBSET m : u # m => Soma(f, u, G(u))
  BY <1>1
<1>4. \A s \in SUBSET m : s # {} => Escolhido(s) \in s /\ r(s) \in SUBSET m /\ r(s) # m
  BY DEF Escolhido
<1>5. \A s \in SUBSET m : s # {} => h[r(s)] = G(r(s))[r(s)]
  <2> SUFFICES ASSUME NEW s \in SUBSET m, s # {}
               PROVE  h[r(s)] = G(r(s))[r(s)]
    OBVIOUS
  <2> DEFINE u == r(s)
  <2>1. u \in SUBSET m /\ u # m /\ Soma(f, u, G(u))
    BY <1>3, <1>4
  <2>2. CASE u = {}
    BY <2>1, <2>2 DEF Soma
  <2>3. CASE u # {}
    <3>1. Escolhido(u) \in u /\ r(u) \in SUBSET u /\ r(u) # u
      BY <2>3 DEF Escolhido
    <3>2. r(u) # m /\ r(u) \in SUBSET m
      BY <2>1, <3>1
    <3>3. Soma(f, r(u), G(r(u)))
      BY <1>3, <3>2
    <3>4. G(u)[r(u)] = G(r(u))[r(u)]
      <4>1. u \subseteq S /\ r(u) \subseteq S /\ r(u) \in SUBSET u
        BY <1>2, <2>1, <3>1
      <4>2. ASSUME NEW a, NEW b, NEW j, NEW k, a \subseteq S, b \subseteq a,
                   Soma(f, a, j), Soma(f, b, k)
            PROVE  j[b] = k[b]
        BY <4>2, SomaUnica
      <4>3. \A a, b : a \subseteq S /\ b \subseteq a /\ Soma(f, a, G(a)) /\ Soma(f, b, G(b))
                       => G(a)[b] = G(b)[b]
        <5> HIDE DEF G
        <5> QED BY <4>2
      <4> HIDE DEF G
      <4> QED BY <2>1, <3>3, <4>1, <4>3, Zenon
    <3>5. G(u)[u] = f[Escolhido(u)] + G(u)[r(u)]
      BY <2>1, <2>3 DEF Soma
    <3>6. h[u] = f[Escolhido(u)] + G(r(u))[r(u)]
      BY <2>1, <2>3
    <3> QED BY <3>4, <3>5, <3>6
  <2> QED BY <2>2, <2>3
<1>6. h = [s \in SUBSET m |-> IF s = {} THEN 0 ELSE f[Escolhido(s)] + h[r(s)]]
  <2> DEFINE k == [s \in SUBSET m |-> IF s = {} THEN 0 ELSE f[Escolhido(s)] + h[r(s)]]
  <2>1. DOMAIN h = SUBSET m /\ h = [s \in DOMAIN h |-> h[s]]
    OBVIOUS
  <2>2. DOMAIN k = SUBSET m /\ k = [s \in DOMAIN k |-> k[s]]
    <3> HIDE DEF h
    <3> QED OBVIOUS
  <2>3. \A s \in SUBSET m : h[s] = k[s]
    <3>1. \A s \in SUBSET m : h[s] = IF s = {} THEN 0 ELSE f[Escolhido(s)] + G(r(s))[r(s)]
      <4> HIDE DEF G, r
      <4> QED OBVIOUS
    <3> HIDE DEF h, r, G
    <3> QED BY <1>5, <3>1
  <2>4. h = k
    <3> HIDE DEF h, k
    <3> QED BY <2>1, <2>2, <2>3
  <2> QED BY <2>4
<1>7. Soma(f, m, h)
  BY <1>6 DEF Soma
<1> QED BY <1>2, <1>7

(* The equation of the sum itself.                                          *)
LEMMA SomaEquacao ==
  ASSUME NEW f, NEW S, IsFiniteSet(S)
  PROVE  SumFunctionOnSet(f, S) =
           IF S = {} THEN 0
           ELSE f[Escolhido(S)] + SumFunctionOnSet(f, S \ {Escolhido(S)})
<1> DEFINE G(u) == CHOOSE g : Soma(f, u, g)
           r == S \ {Escolhido(S)}
<1>1. \A u : SumFunctionOnSet(f, u) = G(u)[u]
  BY DEF SumFunctionOnSet, FoldFunctionOnSet, MapThenFoldSet, Soma, Escolhido
<1>2. \A u \in SUBSET S : Soma(f, u, G(u))
  <2> SUFFICES ASSUME NEW u \in SUBSET S PROVE Soma(f, u, G(u))
    OBVIOUS
  <2>1. IsFiniteSet(u)
    BY FS_Subset
  <2>2. \E g : Soma(f, u, g)
    BY <2>1, SomaExiste
  <2> QED BY <2>2
<1>3. CASE S = {}
  <2>1. Soma(f, S, G(S)) /\ S \in SUBSET S
    BY <1>2
  <2>2. G(S)[S] = 0
    <3> HIDE DEF G
    <3> QED BY <1>3, <2>1 DEF Soma
  <2> QED BY <1>1, <1>3, <2>2
<1>4. CASE S # {}
  <2>1. r \subseteq S /\ Soma(f, S, G(S)) /\ Soma(f, r, G(r))
    BY <1>2
  <2>2. G(S)[r] = G(r)[r]
    <3> HIDE DEF G, r
    <3> QED BY <2>1, SomaUnica
  <2>3. G(S)[S] = f[Escolhido(S)] + G(S)[r]
    BY <2>1, <1>4 DEF Soma
  <2> QED BY <1>1, <1>4, <2>2, <2>3
<1> QED BY <1>3, <1>4

(* Nothing to add.                                                          *)
LEMMA SomaVazia == ASSUME NEW f PROVE SumFunctionOnSet(f, {}) = 0
BY SomaEquacao, FS_EmptySet

(* The sum of integers is an integer.                                       *)
LEMMA SomaInteira ==
  ASSUME NEW f, NEW S, IsFiniteSet(S), \A x \in S : f[x] \in Int
  PROVE  SumFunctionOnSet(f, S) \in Int
<1> DEFINE T == {s \in SUBSET S : SumFunctionOnSet(f, s) \notin Int}
<1> SUFFICES ASSUME T # {} PROVE FALSE
  OBVIOUS
<1>1. PICK m \in T : \A u \in T : u \subseteq m => u = m
  <2>1. T \subseteq SUBSET S
    OBVIOUS
  <2> HIDE DEF T
  <2> QED BY <2>1, MenorFalho
<1>2. m \subseteq S /\ IsFiniteSet(m)
  BY FS_Subset
<1>3. CASE m = {}
  BY <1>2, <1>3, SomaVazia
<1>4. CASE m # {}
  <2> DEFINE r == m \ {Escolhido(m)}
  <2>1. Escolhido(m) \in m
    BY <1>4 DEF Escolhido
  <2>2. SumFunctionOnSet(f, r) \in Int
    BY <1>1, <1>2, <2>1
  <2>3. SumFunctionOnSet(f, m) = f[Escolhido(m)] + SumFunctionOnSet(f, r)
    BY <1>2, <1>4, SomaEquacao
  <2> QED BY <1>2, <2>1, <2>2, <2>3
<1> QED BY <1>3, <1>4

(* Any element may be taken out first.                                      *)
LEMMA SomaSeparada ==
  ASSUME NEW f, NEW S, IsFiniteSet(S), \A x \in S : f[x] \in Int, NEW e \in S
  PROVE  SumFunctionOnSet(f, S) = f[e] + SumFunctionOnSet(f, S \ {e})
<1> DEFINE Certo(s) == \A x \in s :
             SumFunctionOnSet(f, s) = f[x] + SumFunctionOnSet(f, s \ {x})
           T == {s \in SUBSET S : ~Certo(s)}
<1> SUFFICES ASSUME T # {} PROVE FALSE
  OBVIOUS
<1>1. PICK m \in T : \A u \in T : u \subseteq m => u = m
  <2>1. T \subseteq SUBSET S
    OBVIOUS
  <2> HIDE DEF T
  <2> QED BY <2>1, MenorFalho
<1>2. m \subseteq S /\ IsFiniteSet(m)
  BY FS_Subset
<1>3. PICK x \in m : SumFunctionOnSet(f, m) # f[x] + SumFunctionOnSet(f, m \ {x})
  OBVIOUS
<1> DEFINE y == Escolhido(m)
<1>4. y \in m /\ SumFunctionOnSet(f, m) = f[y] + SumFunctionOnSet(f, m \ {y})
  <2>1. m # {}
    BY <1>3
  <2> QED BY <1>2, <2>1, SomaEquacao DEF Escolhido
<1>5. x # y
  BY <1>3, <1>4
<1> HIDE DEF y
<1> DEFINE a == m \ {y}
           b == m \ {x}
           c == (m \ {x}) \ {y}
<1>6. SumFunctionOnSet(f, a) = f[x] + SumFunctionOnSet(f, a \ {x})
  BY <1>1, <1>2, <1>4, <1>5
<1>7. SumFunctionOnSet(f, b) = f[y] + SumFunctionOnSet(f, b \ {y})
  BY <1>1, <1>2, <1>4, <1>5
<1>8. a \ {x} = c /\ b \ {y} = c
  OBVIOUS
<1>9. /\ SumFunctionOnSet(f, c) \in Int /\ f[x] \in Int /\ f[y] \in Int
  <2>1. IsFiniteSet(c) /\ c \subseteq S
    BY <1>2, FS_Subset
  <2> QED BY <1>2, <1>3, <1>4, <2>1, SomaInteira
<1> HIDE DEF a, b, c
<1>10. /\ SumFunctionOnSet(f, m) = f[y] + SumFunctionOnSet(f, a)
       /\ SumFunctionOnSet(f, m) # f[x] + SumFunctionOnSet(f, b)
  BY <1>3, <1>4 DEF a, b
<1>11. SumFunctionOnSet(f, a) = f[x] + SumFunctionOnSet(f, c)
  BY <1>6, <1>8
<1>12. SumFunctionOnSet(f, b) = f[y] + SumFunctionOnSet(f, c)
  BY <1>7, <1>8
<1> QED BY <1>9, <1>10, <1>11, <1>12

(* One more element adds its value.                                         *)
LEMMA SomaMaisUm ==
  ASSUME NEW f, NEW S, IsFiniteSet(S), NEW e, e \notin S,
         \A x \in S \cup {e} : f[x] \in Int
  PROVE  SumFunctionOnSet(f, S \cup {e}) = SumFunctionOnSet(f, S) + f[e]
<1>1. IsFiniteSet(S \cup {e}) /\ (S \cup {e}) \ {e} = S
  BY FS_AddElement
<1>2. SumFunctionOnSet(f, S \cup {e}) = f[e] + SumFunctionOnSet(f, S)
  BY <1>1, SomaSeparada
<1>3. SumFunctionOnSet(f, S) \in Int /\ f[e] \in Int
  BY SomaInteira
<1> QED BY <1>2, <1>3

(* The sum depends on the values at the elements and on nothing else.       *)
LEMMA SomaIgual ==
  ASSUME NEW f, NEW g, NEW S, IsFiniteSet(S), \A x \in S : f[x] = g[x]
  PROVE  SumFunctionOnSet(f, S) = SumFunctionOnSet(g, S)
<1> DEFINE T == {s \in SUBSET S : SumFunctionOnSet(f, s) # SumFunctionOnSet(g, s)}
<1> SUFFICES ASSUME T # {} PROVE FALSE
  OBVIOUS
<1>1. PICK m \in T : \A u \in T : u \subseteq m => u = m
  <2>1. T \subseteq SUBSET S
    OBVIOUS
  <2> HIDE DEF T
  <2> QED BY <2>1, MenorFalho
<1>2. m \subseteq S /\ IsFiniteSet(m)
  BY FS_Subset
<1>3. CASE m = {}
  BY <1>3, SomaVazia
<1>4. CASE m # {}
  <2> DEFINE r == m \ {Escolhido(m)}
  <2>1. Escolhido(m) \in m
    BY <1>4 DEF Escolhido
  <2>2. SumFunctionOnSet(f, r) = SumFunctionOnSet(g, r)
    BY <1>1, <1>2, <2>1
  <2>3. /\ SumFunctionOnSet(f, m) = f[Escolhido(m)] + SumFunctionOnSet(f, r)
        /\ SumFunctionOnSet(g, m) = g[Escolhido(m)] + SumFunctionOnSet(g, r)
    BY <1>2, <1>4, SomaEquacao
  <2> QED BY <1>2, <2>1, <2>2, <2>3
<1> QED BY <1>3, <1>4

(* Changing one value changes the sum by the difference.                    *)
LEMMA SomaMuda ==
  ASSUME NEW f, NEW g, NEW S, IsFiniteSet(S), NEW e \in S,
         \A x \in S : f[x] \in Int /\ g[x] \in Int,
         \A x \in S \ {e} : f[x] = g[x]
  PROVE  SumFunctionOnSet(g, S) = SumFunctionOnSet(f, S) - f[e] + g[e]
<1> DEFINE r == S \ {e}
<1>1. IsFiniteSet(r)
  BY FS_Subset
<1>2. SumFunctionOnSet(f, r) = SumFunctionOnSet(g, r)
  BY <1>1, SomaIgual
<1>3. /\ SumFunctionOnSet(f, S) = f[e] + SumFunctionOnSet(f, r)
      /\ SumFunctionOnSet(g, S) = g[e] + SumFunctionOnSet(g, r)
  BY SomaSeparada
<1>4. SumFunctionOnSet(f, r) \in Int /\ f[e] \in Int /\ g[e] \in Int
  BY <1>1, SomaInteira
<1> QED BY <1>2, <1>3, <1>4

(* A sum of naturals is a natural, and no element exceeds it.               *)
LEMMA SomaNatural ==
  ASSUME NEW f, NEW S, IsFiniteSet(S), \A x \in S : f[x] \in Nat
  PROVE  /\ SumFunctionOnSet(f, S) \in Nat
         /\ \A x \in S : f[x] <= SumFunctionOnSet(f, S)
<1> DEFINE T == {s \in SUBSET S : SumFunctionOnSet(f, s) \notin Nat}
<1>1. T = {}
  <2> SUFFICES ASSUME T # {} PROVE FALSE
    OBVIOUS
  <2>1. PICK m \in T : \A u \in T : u \subseteq m => u = m
    <3>1. T \subseteq SUBSET S
      OBVIOUS
    <3> HIDE DEF T
    <3> QED BY <3>1, MenorFalho
  <2>2. m \subseteq S /\ IsFiniteSet(m)
    BY FS_Subset
  <2>3. CASE m = {}
    BY <2>3, SomaVazia
  <2>4. CASE m # {}
    <3> DEFINE r == m \ {Escolhido(m)}
    <3>1. Escolhido(m) \in m
      BY <2>4 DEF Escolhido
    <3>2. SumFunctionOnSet(f, r) \in Nat
      BY <2>1, <2>2, <3>1
    <3>3. SumFunctionOnSet(f, m) = f[Escolhido(m)] + SumFunctionOnSet(f, r)
      BY <2>2, <2>4, SomaEquacao
    <3> QED BY <2>2, <3>1, <3>2, <3>3
  <2> QED BY <2>3, <2>4
<1>2. \A s \in SUBSET S : SumFunctionOnSet(f, s) \in Nat
  BY <1>1
<1>3. \A x \in S : f[x] <= SumFunctionOnSet(f, S)
  <2> SUFFICES ASSUME NEW x \in S PROVE f[x] <= SumFunctionOnSet(f, S)
    OBVIOUS
  <2>1. SumFunctionOnSet(f, S) = f[x] + SumFunctionOnSet(f, S \ {x})
    BY SomaSeparada
  <2>2. SumFunctionOnSet(f, S \ {x}) \in Nat
    BY <1>2
  <2> QED BY <2>1, <2>2
<1> QED BY <1>2, <1>3

(* More naturals do not add up to less.                                     *)
LEMMA SomaCresce ==
  ASSUME NEW f, NEW S, IsFiniteSet(S), \A x \in S : f[x] \in Nat, NEW R, R \subseteq S
  PROVE  SumFunctionOnSet(f, R) <= SumFunctionOnSet(f, S)
<1> DEFINE T == {s \in SUBSET S : R \subseteq s
                                /\ ~(SumFunctionOnSet(f, R) <= SumFunctionOnSet(f, s))}
<1> SUFFICES ASSUME T # {} PROVE FALSE
  OBVIOUS
<1>1. PICK m \in T : \A u \in T : u \subseteq m => u = m
  <2>1. T \subseteq SUBSET S
    OBVIOUS
  <2> HIDE DEF T
  <2> QED BY <2>1, MenorFalho
<1>2. m \subseteq S /\ R \subseteq m /\ IsFiniteSet(m) /\ IsFiniteSet(R)
  BY FS_Subset
<1>3. SumFunctionOnSet(f, R) \in Nat
  BY <1>2, SomaNatural
<1>4. PICK x \in m : x \notin R
  BY <1>2, <1>3
<1>5. m \ {x} \notin T /\ m \ {x} \in SUBSET S /\ R \subseteq m \ {x}
  BY <1>1, <1>2, <1>4
<1>6. IsFiniteSet(m \ {x}) /\ \A y \in m \ {x} : f[y] \in Nat
  BY <1>2, FS_Subset
<1>7. SumFunctionOnSet(f, m \ {x}) \in Nat
  BY <1>6, SomaNatural
<1>8. SumFunctionOnSet(f, m) = f[x] + SumFunctionOnSet(f, m \ {x})
  BY <1>2, SomaSeparada
<1>9. SumFunctionOnSet(f, R) <= SumFunctionOnSet(f, m \ {x})
  BY <1>5
<1> QED BY <1>2, <1>3, <1>7, <1>8, <1>9

-----------------------------------------------------------------------------
(* A set of numbers has a least, and a finite one a greatest.               *)
LEMMA TemMenor ==
  ASSUME NEW S, S \subseteq Nat, S # {}
  PROVE  \E k \in S : \A y \in S : k <= y
<1> DEFINE Ate(k) == {y \in S : y <= k}
<1>1. PICK n : n \in S /\ n \in Nat
  OBVIOUS
<1> DEFINE U == 0..n
           T == {u \in SUBSET U : \E k \in S : k <= n /\ u = Ate(k)}
<1>2. \A k \in S : k <= n => Ate(k) \in T
  <2> SUFFICES ASSUME NEW k \in S, k <= n PROVE Ate(k) \subseteq U
    OBVIOUS
  <2>1. k \in Nat /\ \A y \in S : y \in Nat
    OBVIOUS
  <2>2. \A y \in Ate(k) : y \in 0..n
    BY <1>1, <2>1
  <2> QED BY <2>2
<1>3. IsFiniteSet(U) /\ T # {}
  <2>1. IsFiniteSet(U)
    BY <1>1, FS_Interval
  <2>2. Ate(n) \in T
    BY <1>1, <1>2
  <2> QED BY <2>1, <2>2
<1>4. PICK m \in T : \A u \in T : u \subseteq m => u = m
  <2>1. T \subseteq SUBSET U
    OBVIOUS
  <2> HIDE DEF T, U
  <2> QED BY <1>3, <2>1, MenorFalho
<1>5. PICK k \in S : k <= n /\ m = Ate(k)
  OBVIOUS
<1>6. \A y \in S : k <= y
  <2> SUFFICES ASSUME NEW y \in S, y < k PROVE FALSE
    BY <1>5
  <2>1. y \in Nat /\ k \in Nat /\ \A z \in S : z \in Nat
    BY <1>5
  <2>2. y <= n
    BY <1>1, <1>5, <2>1
  <2>3. Ate(y) \in T
    <3> HIDE DEF T
    <3> QED BY <1>2, <2>2
  <2>4. \A z \in Ate(y) : z \in Ate(k)
    BY <2>1
  <2>5. k \notin Ate(y) /\ k \in Ate(k)
    BY <1>5, <2>1
  <2> HIDE DEF T, Ate
  <2> QED BY <1>4, <1>5, <2>3, <2>4, <2>5
<1> QED BY <1>5, <1>6

LEMMA TemMaior ==
  ASSUME NEW S, IsFiniteSet(S), S \subseteq Nat, S # {}
  PROVE  \E k \in S : \A y \in S : k >= y
<1> DEFINE U == S
           Desde(k) == {y \in S : y >= k}
           T == {u \in SUBSET U : \E k \in S : u = Desde(k)}
<1>1. \A k \in S : Desde(k) \in T
  OBVIOUS
<1>2. PICK m \in T : \A u \in T : u \subseteq m => u = m
  <2>1. T # {} /\ T \subseteq SUBSET U
    BY <1>1
  <2>2. IsFiniteSet(U)
    OBVIOUS
  <2> HIDE DEF T, U
  <2> QED BY <2>1, <2>2, MenorFalho
<1>3. PICK k \in S : m = Desde(k)
  OBVIOUS
<1>4. \A y \in S : k >= y
  <2> SUFFICES ASSUME NEW y \in S, y > k PROVE FALSE
    BY <1>3
  <2>1. y \in Nat /\ k \in Nat /\ \A z \in S : z \in Nat
    BY <1>3
  <2>2. Desde(y) \in T /\ Desde(y) \subseteq Desde(k)
    <3>1. \A z \in S : z >= y => z >= k
      BY <2>1
    <3> QED BY <1>1, <3>1
  <2>3. k \notin Desde(y) /\ k \in Desde(k)
    BY <1>3, <2>1
  <2> HIDE DEF T, Desde
  <2> QED BY <1>2, <1>3, <2>2, <2>3
<1> QED BY <1>3, <1>4
=============================================================================
