------------------------- MODULE WireEncodingProofs -------------------------
(***************************************************************************)
(* Proofs that what is read of the wire is read of its one encoding, for   *)
(* every base and limits, every text and every value.                      *)
(*                                                                         *)
(* The texts and the limits of a value are computed by recursion, so the   *)
(* proofs need induction.  It is stated on sets of numbers, from the least *)
(* member of each; and as a recursive function is the solution of its      *)
(* equation only if there is one, Recursion shows that there is.           *)
(***************************************************************************)
EXTENDS WireEncoding, WellFoundedInduction, SequenceTheorems, TLAPS

(***************************************************************************)
(* Induction and recursion.                                                *)
(***************************************************************************)
Below == {pair \in Nat \X Nat : pair[1] < pair[2]}

LEMMA BelowWellFounded == IsWellFoundedOn(Below, Nat)
BY NatLessThanWellFounded DEF IsWellFoundedOn, OpToRel, Below

\* A set of natural numbers that is not empty has a least member.
LEMMA LeastElement ==
  ASSUME NEW T, T \subseteq Nat, T # {}
  PROVE  \E n \in T : \A m \in T : n <= m
<1>1. \E n \in T : \A m \in T : ~ (<<m, n>> \in Below)
  BY BelowWellFounded, WFMin
<1>2. \E n \in T : \A m \in T : ~ (m < n)
  BY <1>1 DEF Below
<1> QED BY <1>2

\* Induction on a set of numbers, from all lesser ones.
LEMMA StrongInduction ==
  ASSUME NEW T, \A n \in Nat : (\A m \in Nat : m < n => m \in T) => n \in T
  PROVE  Nat \subseteq T
<1> DEFINE Bad == Nat \ T
<1> SUFFICES ASSUME Bad # {} PROVE FALSE
  OBVIOUS
<1>1. PICK n \in Bad : \A m \in Bad : n <= m
  <2>1. Bad \subseteq Nat
    OBVIOUS
  <2> HIDE DEF Bad
  <2> QED BY <2>1, LeastElement
<1>2. \A m \in Nat : m < n => m \in T
  BY <1>1
<1> QED BY <1>2

\* Induction on a set of numbers, from the one before.
LEMMA Induction ==
  ASSUME NEW T, 0 \in T, \A n \in Nat : n \in T => n + 1 \in T
  PROVE  Nat \subseteq T
<1>1. ASSUME NEW n \in Nat, \A m \in Nat : m < n => m \in T PROVE n \in T
  <2>1. CASE n = 0
    BY <2>1
  <2>2. CASE n > 0
    <3>1. n - 1 \in Nat /\ n - 1 < n /\ n = (n - 1) + 1
      BY <2>2
    <3>2. n - 1 \in T
      BY <1>1, <3>1
    <3> QED BY <3>1, <3>2
  <2> QED BY <2>1, <2>2
<1> QED BY <1>1, StrongInduction

\* The equations g[n] = F[n][g[D[n]]]: what F makes at n of the value at D[n] depends on
\* it only if D[n] is less than n.
Descends(N, S, D, F) == \A n \in N : D[n] < n \/ \A s, t \in S : F[n][s] = F[n][t]
Segment(N) == N \subseteq Nat /\ \A n \in N : n > 0 => n - 1 \in N
Recursive(N, S, D, F) ==
  Segment(N) /\ S # {} /\ D \in [N -> N] /\ F \in [N -> [S -> S]] /\ Descends(N, S, D, F)
Solvable(N, S, D, F) == \E g \in [N -> S] : \A n \in N : g[n] = F[n][g[D[n]]]

\* A function whose value at n is computed from that at a lesser number exists.
LEMMA Recursion ==
  ASSUME NEW N, NEW S, NEW D, NEW F, Recursive(N, S, D, F)
  PROVE  Solvable(N, S, D, F)
<1> SUFFICES ASSUME Segment(N), S # {}, D \in [N -> N], F \in [N -> [S -> S]],
                    Descends(N, S, D, F)
             PROVE  \E g \in [N -> S] : \A n \in N : g[n] = F[n][g[D[n]]]
  BY DEF Recursive, Solvable
<1> DEFINE Solves(g, n) == \A m \in N : m <= n => g[m] = F[m][g[D[m]]]
<1>1. N \subseteq Nat /\ \A n \in N : n \in Nat /\ D[n] \in N /\ D[n] \in Nat
  BY DEF Segment
<1>2. ASSUME NEW n \in N, NEW g \in [N -> S], NEW h \in [N -> S], Solves(g, n), Solves(h, n)
      PROVE  \A m \in N : m <= n => g[m] = h[m]
  <2> DEFINE Bad == {m \in N : m <= n /\ g[m] # h[m]}
  <2> SUFFICES ASSUME Bad # {} PROVE FALSE
    OBVIOUS
  <2>1. PICK m \in Bad : \A k \in Bad : m <= k
    <3>1. Bad \subseteq Nat
      BY <1>1
    <3> HIDE DEF Bad
    <3> QED BY <3>1, LeastElement
  <2>2. g[m] = F[m][g[D[m]]] /\ h[m] = F[m][h[D[m]]] /\ m \in N /\ D[m] \in N /\ g[m] # h[m]
    BY <1>2
  <2>3. CASE D[m] < m
    <3>1. D[m] \in Nat /\ m \in Nat /\ n \in Nat /\ m <= n
      BY <1>1, <2>2
    <3>2. D[m] <= n /\ ~ (m <= D[m])
      BY <2>3, <3>1
    <3>3. D[m] \notin Bad
      <4> HIDE DEF Bad
      <4> QED BY <2>1, <3>2
    <3>4. g[D[m]] = h[D[m]]
      BY <2>2, <3>2, <3>3
    <3> QED BY <2>2, <3>4
  <2>4. CASE \A s, t \in S : F[m][s] = F[m][t]
    <3>1. g[D[m]] \in S /\ h[D[m]] \in S
      BY <2>2
    <3> QED BY <2>2, <2>4, <3>1
  <2> QED BY <2>2, <2>3, <2>4 DEF Descends
<1>3. ASSUME NEW n \in N PROVE \E g \in [N -> S] : Solves(g, n)
  <2> DEFINE Bad == {m \in N : ~ \E g \in [N -> S] : Solves(g, m)}
  <2> SUFFICES ASSUME Bad # {} PROVE FALSE
    OBVIOUS
  <2>1. PICK m \in Bad : \A k \in Bad : m <= k
    <3>1. Bad \subseteq Nat
      BY <1>1
    <3> HIDE DEF Bad
    <3> QED BY <3>1, LeastElement
  <2>2. m \in N /\ \A g_1 \in [N -> S] : ~ Solves(g_1, m)
    OBVIOUS
  <2>3. PICK g \in [N -> S] : \A k \in N : k < m => g[k] = F[k][g[D[k]]]
    <3>1. CASE m = 0
      <4>1. PICK s \in S : TRUE
        OBVIOUS
      <4>2. [k \in N |-> s] \in [N -> S]
        OBVIOUS
      <4>3. \A k \in N : ~ (k < m)
        BY <1>1, <3>1
      <4> QED BY <4>2, <4>3
    <3>2. CASE m > 0
      <4>1. m - 1 \in N /\ m - 1 \notin Bad
        BY <1>1, <2>1, <3>2 DEF Segment
      <4>2. PICK g \in [N -> S] : Solves(g, m - 1)
        BY <4>1
      <4> HIDE DEF Bad
      <4>3. \A k \in N : k < m => k <= m - 1
        BY <1>1, <2>2
      <4>4. \A k \in N : k < m => g[k] = F[k][g[D[k]]]
        BY <4>2, <4>3
      <4> QED BY <4>4
    <3>3. m = 0 \/ m > 0
      BY <1>1, <2>2
    <3> QED BY <3>1, <3>2, <3>3
  <2> HIDE DEF Bad
  <2> DEFINE h == [g EXCEPT ![m] = F[m][g[D[m]]]]
  <2>4. m \in N /\ D[m] \in N /\ g[D[m]] \in S /\ F[m][g[D[m]]] \in S
    BY <2>2
  <2>5. h \in [N -> S] /\ h[m] = F[m][g[D[m]]] /\ \A k \in N : k # m => h[k] = g[k]
    BY <2>4
  <2> HIDE DEF h
  <2>6. ASSUME NEW k \in N, k <= m PROVE h[k] = F[k][h[D[k]]]
    <3>1. D[k] \in N /\ g[D[k]] \in S /\ h[D[k]] \in S
      BY <2>5
    <3>2. F[k][g[D[k]]] = F[k][h[D[k]]]
      <4>1. CASE D[k] < k
        <5>1. D[k] # m
          BY <1>1, <2>6, <2>2, <3>1, <4>1
        <5> QED BY <2>5, <3>1, <5>1
      <4>2. CASE \A s, t \in S : F[k][s] = F[k][t]
        BY <3>1, <4>2
      <4> QED BY <4>1, <4>2 DEF Descends
    <3>3. CASE k = m
      BY <2>5, <3>2, <3>3
    <3>4. CASE k < m
      <4>1. k # m
        BY <1>1, <2>4, <3>4
      <4> QED BY <2>3, <2>5, <3>2, <3>4, <4>1
    <3>5. k < m \/ k = m
      BY <1>1, <2>4, <2>6
    <3> QED BY <3>3, <3>4, <3>5
  <2> QED BY <2>5, <2>6, <2>2
<1> DEFINE sol == [n \in N |-> CHOOSE g \in [N -> S] : Solves(g, n)]
           G == [n \in N |-> sol[n][n]]
<1>4. ASSUME NEW n \in N PROVE sol[n] \in [N -> S] /\ Solves(sol[n], n)
  BY <1>3
<1>5. G \in [N -> S]
  <2>1. \A n \in N : sol[n][n] \in S
    <3> HIDE DEF sol
    <3> QED BY <1>4
  <2> HIDE DEF sol
  <2> QED BY <2>1
<1>6. ASSUME NEW n \in N PROVE G[n] = F[n][G[D[n]]]
  <2>1. D[n] \in N /\ sol[n] \in [N -> S] /\ sol[D[n]] \in [N -> S]
    BY <1>4
  <2>2. G[n] = F[n][sol[n][D[n]]] /\ G[D[n]] = sol[D[n]][D[n]]
    <3>1. n <= n
      BY <1>1
    <3> QED BY <1>4, <2>1, <3>1
  <2>3. CASE D[n] < n
    <3> HIDE DEF sol, G
    <3>1. Solves(sol[n], D[n]) /\ Solves(sol[D[n]], D[n])
      <4>1. \A m \in N : m <= D[n] => m <= n
        BY <1>1, <2>3
      <4> QED BY <1>4, <2>1, <4>1
    <3>2. sol[n][D[n]] = sol[D[n]][D[n]]
      <4> HIDE DEF Solves
      <4>1. D[n] <= D[n]
        BY <1>1
      <4> QED BY <1>2, <2>1, <3>1, <4>1
    <3> QED BY <2>2, <3>2
  <2>4. CASE \A s, t \in S : F[n][s] = F[n][t]
    <3> HIDE DEF sol, G, Solves
    <3>1. sol[n][D[n]] \in S /\ sol[D[n]][D[n]] \in S
      BY <2>1
    <3> QED BY <2>2, <2>4, <3>1
  <2> QED BY <2>3, <2>4 DEF Descends
<1> QED BY <1>5, <1>6
(***************************************************************************)
(* Decimal texts.                                                          *)
(***************************************************************************)
\* Quotient and rest, and that a number of two digits or more has a lesser quotient.
LEMMA Quotient ==
  ASSUME NEW x \in Nat, NEW m \in Nat \ {0}
  PROVE  x \div m \in Nat /\ x % m \in 0..m - 1 /\ x = m * (x \div m) + (x % m)
OBVIOUS

LEMMA LesserQuotient ==
  ASSUME DecimalsAssumption, NEW n \in Nat, n >= Base
  PROVE  n \div Base \in Nat \ {0} /\ n \div Base < n /\ n % Base \in Digits
<1> DEFINE q == n \div Base
           r == n % Base
<1>1. Base \in Nat \ {0, 1}
  BY DEF DecimalsAssumption
<1>2. q \in Nat /\ r \in 0..(Base - 1) /\ n = Base * q + r
  BY <1>1, Quotient
<1> HIDE DEF q, r
<1>3. q # 0
  BY <1>1, <1>2
<1>4. Base * q >= 2 * q
  BY <1>1, <1>2
<1>5. q < n
  <2>1. Base * q \in Nat
    BY <1>1, <1>2
  <2> QED BY <1>2, <1>3, <1>4, <2>1
<1> QED BY <1>2, <1>3, <1>5 DEF q, r, Digits

\* The texts solve their equation.
LEMMA TextDef ==
  ASSUME DecimalsAssumption
  PROVE  Text = [n \in Nat |-> IF n < Base THEN <<n>> ELSE Append(Text[n \div Base], n % Base)]
<1> DEFINE D == [n \in Nat |-> IF n < Base THEN n ELSE n \div Base]
           F == [n \in Nat |-> [t \in Seq(Digits) |->
                   IF n < Base THEN <<n>> ELSE Append(t, n % Base)]]
<1>1. Base \in Nat \ {0, 1}
  BY DEF DecimalsAssumption
<1>2. ASSUME NEW n \in Nat, ~ (n < Base)
      PROVE  n \div Base \in Nat \ {0} /\ n \div Base < n /\ n % Base \in Digits
  <2>1. n >= Base
    BY <1>1, <1>2
  <2> QED BY <2>1, LesserQuotient
<1>3. D \in [Nat -> Nat]
  BY <1>2
<1>4. ASSUME NEW n \in Nat, NEW t \in Seq(Digits)
      PROVE  (IF n < Base THEN <<n>> ELSE Append(t, n % Base)) \in Seq(Digits)
  <2>1. CASE n < Base
    <3>1. n \in Digits
      BY <1>1, <2>1 DEF Digits
    <3> QED BY <2>1, <3>1
  <2>2. CASE ~ (n < Base)
    BY <1>2, <2>2
  <2> QED BY <2>1, <2>2
<1>5. F \in [Nat -> [Seq(Digits) -> Seq(Digits)]]
  BY <1>4
<1>6. Descends(Nat, Seq(Digits), D, F)
  BY <1>2 DEF Descends
<1>7. Segment(Nat) /\ Seq(Digits) # {}
  <2>1. <<>> \in Seq(Digits)
    OBVIOUS
  <2>2. \A n \in Nat : n > 0 => n - 1 \in Nat
    OBVIOUS
  <2> QED BY <2>1, <2>2 DEF Segment
<1>8. PICK g \in [Nat -> Seq(Digits)] : \A n \in Nat : g[n] = F[n][g[D[n]]]
  <2>1. Recursive(Nat, Seq(Digits), D, F)
    BY <1>3, <1>5, <1>6, <1>7 DEF Recursive
  <2>2. Solvable(Nat, Seq(Digits), D, F)
    BY <2>1, Recursion
  <2> QED BY <2>2 DEF Solvable
<1>9. \A n \in Nat : g[n] = IF n < Base THEN <<n>> ELSE Append(g[n \div Base], n % Base)
  BY <1>3, <1>8
<1>10. g = [n \in Nat |-> IF n < Base THEN <<n>> ELSE Append(g[n \div Base], n % Base)]
  BY <1>9
<1> QED BY <1>10 DEF Text

LEMMA TextAt ==
  ASSUME DecimalsAssumption, NEW n \in Nat
  PROVE  /\ n < Base => Text[n] = <<n>>
         /\ n >= Base => Text[n] = Append(Text[n \div Base], n % Base)
<1>1. Text[n] = IF n < Base THEN <<n>> ELSE Append(Text[n \div Base], n % Base)
  BY TextDef
<1>2. Base \in Nat
  BY DEF DecimalsAssumption
<1> QED BY <1>1, <1>2

LEMMA TextType == DecimalsAssumption => \A n \in Nat : Text[n] \in Seq(Digits)
<1> SUFFICES ASSUME DecimalsAssumption PROVE \A n \in Nat : Text[n] \in Seq(Digits)
  OBVIOUS
<1> DEFINE T == {n \in Nat : Text[n] \in Seq(Digits)}
<1>1. Base \in Nat \ {0, 1}
  BY DEF DecimalsAssumption
<1>2. ASSUME NEW n \in Nat, \A m \in Nat : m < n => m \in T PROVE n \in T
  <2>1. CASE n < Base
    <3>1. n \in Digits
      BY <1>1, <2>1 DEF Digits
    <3>2. Text[n] = <<n>> /\ <<n>> \in Seq(Digits)
      BY <2>1, <3>1, TextAt
    <3> QED BY <3>2
  <2>2. CASE n >= Base
    <3>1. n \div Base \in Nat \ {0} /\ n \div Base < n /\ n % Base \in Digits
      BY <2>2, LesserQuotient
    <3>2. Text[n] = Append(Text[n \div Base], n % Base)
      BY <2>2, TextAt
    <3>3. Text[n \div Base] \in Seq(Digits)
      BY <1>2, <3>1
    <3>4. Append(Text[n \div Base], n % Base) \in Seq(Digits)
      BY <3>1, <3>3
    <3> QED BY <3>2, <3>4
  <2> QED BY <1>1, <2>1, <2>2
<1> HIDE DEF T
<1>3. Nat \subseteq T
  BY <1>2, StrongInduction
<1> QED BY <1>3 DEF T

\* The number that the first i digits make.
LEMMA ReadDef ==
  ASSUME DecimalsAssumption, NEW t \in Seq(Digits)
  PROVE  /\ Read(t) \in [0..Len(t) -> Nat]
         /\ Read(t)[0] = 0
         /\ \A i \in 1..Len(t) : Read(t)[i] = Read(t)[i - 1] * Base + t[i]
<1> DEFINE N == 0..Len(t)
           D == [i \in N |-> IF i = 0 THEN 0 ELSE i - 1]
           F == [i \in N |-> [v \in Nat |-> IF i = 0 THEN 0 ELSE v * Base + t[i]]]
<1>1. Base \in Nat /\ Digits \subseteq Nat /\ Len(t) \in Nat
  BY DEF DecimalsAssumption, Digits
<1>2. \A i \in 1..Len(t) : t[i] \in Nat
  BY <1>1, ElementOfSeq
<1>3. D \in [N -> N]
  BY <1>1
<1>4. ASSUME NEW i \in N, NEW v \in Nat
      PROVE  (IF i = 0 THEN 0 ELSE v * Base + t[i]) \in Nat
  <2>1. CASE i = 0
    BY <2>1
  <2>2. CASE i # 0
    <3>1. t[i] \in Nat /\ v * Base \in Nat
      BY <1>1, <1>2, <2>2
    <3> QED BY <2>2, <3>1
  <2> QED BY <2>1, <2>2
<1>5. F \in [N -> [Nat -> Nat]]
  BY <1>4
<1>6. Descends(N, Nat, D, F)
  BY <1>1 DEF Descends
<1>7. Segment(N) /\ Nat # {}
  BY <1>1 DEF Segment
<1>8. PICK g \in [N -> Nat] : \A i \in N : g[i] = F[i][g[D[i]]]
  <2>1. Recursive(N, Nat, D, F)
    BY <1>3, <1>5, <1>6, <1>7 DEF Recursive
  <2>2. Solvable(N, Nat, D, F)
    BY <2>1, Recursion
  <2> QED BY <2>2 DEF Solvable
<1>9. g = [i \in N |-> IF i = 0 THEN 0 ELSE g[i - 1] * Base + t[i]]
  BY <1>3, <1>8
<1>10. Read(t) = [i \in N |-> IF i = 0 THEN 0 ELSE Read(t)[i - 1] * Base + t[i]]
  BY <1>9 DEF Read
<1>11. Read(t)[0] = 0 /\ \A i \in 1..Len(t) : Read(t)[i] = Read(t)[i - 1] * Base + t[i]
  <2>1. 0 \in N /\ \A i \in 1..Len(t) : i \in N /\ i # 0
    BY <1>1
  <2> HIDE DEF N
  <2> QED BY <1>10, <2>1
<1>12. ASSUME NEW i \in N PROVE Read(t)[i] \in Nat
  <2> DEFINE T == {k \in Nat : k \in N => Read(t)[k] \in Nat}
  <2>1. 0 \in T
    BY <1>11
  <2>2. ASSUME NEW k \in Nat, k \in T PROVE k + 1 \in T
    <3>1. CASE k + 1 \in N
      <4>1. Read(t)[k] \in Nat /\ k + 1 \in 1..Len(t) /\ (k + 1) - 1 = k
        BY <1>1, <2>2, <3>1
      <4>2. Read(t)[k + 1] = Read(t)[k] * Base + t[k + 1]
        BY <1>11, <4>1
      <4>3. t[k + 1] \in Nat /\ Read(t)[k] * Base \in Nat
        BY <1>1, <1>2, <4>1
      <4> QED BY <4>2, <4>3
    <3> QED BY <3>1
  <2> HIDE DEF T
  <2>3. Nat \subseteq T
    BY <2>1, <2>2, Induction
  <2> QED BY <1>1, <2>3 DEF T
<1>13. Read(t) \in [N -> Nat]
  BY <1>10, <1>12
<1> QED BY <1>11, <1>13

\* What a text has at each place is a digit.
LEMMA DigitsAt ==
  ASSUME DecimalsAssumption, NEW t \in Seq(Digits)
  PROVE  \A i \in 1..Len(t) : t[i] \in 0..(Base - 1) /\ t[i] \in Nat
<1>1. \A i \in 1..Len(t) : t[i] \in Digits
  BY ElementOfSeq
<1>2. Base \in Nat
  BY DEF DecimalsAssumption
<1>3. \A d \in Digits : d \in 0..(Base - 1) /\ d \in Nat
  BY <1>2 DEF Digits
<1> QED BY <1>1, <1>3

LEMMA Product ==
  ASSUME NEW b \in Nat \ {0}, NEW x \in Nat
  PROVE  x * b \in Nat /\ x * b >= x
OBVIOUS

\* A digit more keeps the order of two numbers.
LEMMA NextDigit ==
  ASSUME NEW b \in Nat \ {0}, NEW x \in Nat, NEW y \in Nat, NEW d \in 0..(b - 1), x < y
  PROVE  x * b + d < y * b
<1>1. PICK k \in Nat : y = (x + 1) + k
  <2>1. y - (x + 1) \in Nat /\ y = (x + 1) + (y - (x + 1))
    OBVIOUS
  <2> QED BY <2>1
<1>2. y * b = x * b + b + k * b
  BY <1>1
<1>3. k * b \in Nat /\ x * b \in Nat /\ y * b \in Nat
  OBVIOUS
<1> QED BY <1>2, <1>3

\* Of two texts of one length that with the lesser first different digit is the lesser
\* number.
LEMMA SameLength ==
  ASSUME DecimalsAssumption, NEW s \in Seq(Digits), NEW t \in Seq(Digits), Len(s) = Len(t),
         NEW i \in 1..Len(s), s[i] < t[i], \A j \in 1..(i - 1) : s[j] = t[j]
  PROVE  Value(s) < Value(t)
<1> DEFINE x == Read(s)
           y == Read(t)
           L == Len(s)
<1>1. /\ Base \in Nat \ {0} /\ L \in Nat
      /\ \A j \in 1..L : s[j] \in 0..(Base - 1) /\ s[j] \in Nat
      /\ \A j \in 1..L : t[j] \in 0..(Base - 1) /\ t[j] \in Nat
  BY DigitsAt DEF DecimalsAssumption
<1>2. /\ x \in [0..L -> Nat] /\ x[0] = 0 /\ \A j \in 1..L : x[j] = x[j - 1] * Base + s[j]
      /\ y \in [0..L -> Nat] /\ y[0] = 0 /\ \A j \in 1..L : y[j] = y[j - 1] * Base + t[j]
  BY ReadDef
<1> HIDE DEF x, y, L
<1>3. i \in 1..L
  BY DEF L
<1>4. \A j \in 0..L : j < i => x[j] = y[j]
  <2> DEFINE T == {j \in Nat : j < i => x[j] = y[j]}
  <2>1. 0 \in T
    BY <1>2
  <2>2. ASSUME NEW j \in Nat, j \in T PROVE j + 1 \in T
    <3>1. CASE j + 1 < i
      <4>1. j + 1 \in 1..L /\ j + 1 \in 1..(i - 1) /\ (j + 1) - 1 = j /\ j < i
        BY <1>1, <1>3, <3>1
      <4>2. x[j] = y[j] /\ s[j + 1] = t[j + 1]
        BY <2>2, <4>1
      <4> QED BY <1>2, <4>1, <4>2
    <3> QED BY <3>1
  <2> HIDE DEF T
  <2>3. Nat \subseteq T
    BY <2>1, <2>2, Induction
  <2> QED BY <1>1, <2>3 DEF T
<1>5. \A j \in 0..L : j >= i => x[j] < y[j]
  <2> DEFINE T == {j \in Nat : j >= i /\ j <= L => x[j] < y[j]}
  <2>1. 0 \in T
    BY <1>3
  <2>2. ASSUME NEW j \in Nat, j \in T PROVE j + 1 \in T
    <3> SUFFICES ASSUME j + 1 >= i, j + 1 <= L PROVE x[j + 1] < y[j + 1]
      OBVIOUS
    <3>1. j + 1 \in 1..L /\ (j + 1) - 1 = j /\ j \in 0..L
      BY <1>1
    <3>2. x[j + 1] = x[j] * Base + s[j + 1] /\ y[j + 1] = y[j] * Base + t[j + 1]
      BY <1>2, <3>1
    <3>3. /\ s[j + 1] \in Nat /\ s[j + 1] \in 0..(Base - 1) /\ t[j + 1] \in Nat
          /\ x[j] \in Nat /\ y[j] \in Nat
      BY <1>1, <1>2, <3>1
    <3>4. x[j] * Base \in Nat /\ y[j] * Base \in Nat
      BY <1>1, <3>3, Product
    <3>5. CASE j + 1 = i
      <4>1. x[j] = y[j]
        BY <1>4, <3>1, <3>5
      <4>2. s[j + 1] < t[j + 1]
        BY <3>5
      <4> QED BY <3>2, <3>3, <3>4, <4>1, <4>2
    <3>6. CASE j >= i
      <4>1. x[j] < y[j]
        BY <2>2, <3>1, <3>6
      <4>2. x[j] * Base + s[j + 1] < y[j] * Base
        BY <1>1, <3>3, <4>1, NextDigit
      <4> QED BY <3>2, <3>3, <3>4, <4>2
    <3> QED BY <1>1, <1>3, <3>5, <3>6
  <2> HIDE DEF T
  <2>3. Nat \subseteq T
    BY <2>1, <2>2, Induction
  <2> QED BY <1>1, <2>3 DEF T
<1>6. x[L] < y[L]
  BY <1>1, <1>3, <1>5
<1> QED BY <1>6 DEF Value, x, y, L

\* A shorter text is a lesser number than one that does not begin with 0.
LEMMA Shorter ==
  ASSUME DecimalsAssumption, NEW s \in Seq(Digits), NEW t \in Seq(Digits), Len(s) < Len(t),
         t[1] # 0
  PROVE  Value(s) < Value(t)
<1> DEFINE x == Read(s)
           y == Read(t)
           L == Len(s)
           M == Len(t)
<1>1. /\ Base \in Nat \ {0} /\ L \in Nat /\ M \in Nat /\ L < M
      /\ \A j \in 1..L : s[j] \in 0..(Base - 1) /\ s[j] \in Nat
      /\ \A j \in 1..M : t[j] \in 0..(Base - 1) /\ t[j] \in Nat
  BY DigitsAt DEF DecimalsAssumption
<1>2. /\ x \in [0..L -> Nat] /\ x[0] = 0 /\ \A j \in 1..L : x[j] = x[j - 1] * Base + s[j]
      /\ y \in [0..M -> Nat] /\ y[0] = 0 /\ \A j \in 1..M : y[j] = y[j - 1] * Base + t[j]
  BY ReadDef
<1> HIDE DEF x, y, L, M
<1>3. \A j \in 0..L : x[j] < y[j + 1]
  <2> DEFINE T == {j \in Nat : j <= L => x[j] < y[j + 1]}
  <2>1. 0 \in T
    <3>1. 1 \in 1..M /\ 1 - 1 = 0
      BY <1>1
    <3>2. y[1] = y[0] * Base + t[1] /\ t[1] \in Nat \ {0}
      BY <1>1, <1>2, <3>1
    <3>3. 0 * Base = 0
      BY <1>1
    <3>4. y[1] = 0 * Base + t[1]
      BY <1>2, <3>2
    <3>5. y[1] = t[1]
      BY <3>2, <3>3, <3>4
    <3> QED BY <1>2, <3>2, <3>5
  <2>2. ASSUME NEW j \in Nat, j \in T PROVE j + 1 \in T
    <3> SUFFICES ASSUME j + 1 <= L PROVE x[j + 1] < y[(j + 1) + 1]
      OBVIOUS
    <3>1. /\ j + 1 \in 1..L /\ (j + 1) - 1 = j /\ j \in 0..L
          /\ (j + 1) + 1 \in 1..M /\ ((j + 1) + 1) - 1 = j + 1 /\ j + 1 \in 0..M
      BY <1>1
    <3>2. x[j + 1] = x[j] * Base + s[j + 1] /\ y[(j + 1) + 1] = y[j + 1] * Base + t[(j + 1) + 1]
      BY <1>2, <3>1
    <3>3. /\ s[j + 1] \in Nat /\ s[j + 1] \in 0..(Base - 1) /\ t[(j + 1) + 1] \in Nat
          /\ x[j] \in Nat /\ y[j + 1] \in Nat
      BY <1>1, <1>2, <3>1
    <3>4. x[j] < y[j + 1]
      BY <2>2, <3>1
    <3>5. x[j] * Base + s[j + 1] < y[j + 1] * Base
      BY <1>1, <3>3, <3>4, NextDigit
    <3>6. x[j] * Base \in Nat /\ y[j + 1] * Base \in Nat
      BY <1>1, <3>3, Product
    <3> QED BY <3>2, <3>3, <3>5, <3>6
  <2> HIDE DEF T
  <2>3. Nat \subseteq T
    BY <2>1, <2>2, Induction
  <2> QED BY <1>1, <2>3 DEF T
<1>4. \A j \in 0..M : j > L => x[L] < y[j]
  <2> DEFINE T == {j \in Nat : j > L /\ j <= M => x[L] < y[j]}
  <2>1. 0 \in T
    BY <1>1
  <2>2. ASSUME NEW j \in Nat, j \in T PROVE j + 1 \in T
    <3> SUFFICES ASSUME j + 1 > L, j + 1 <= M PROVE x[L] < y[j + 1]
      OBVIOUS
    <3>1. CASE j = L
      <4>1. L \in 0..L
        BY <1>1
      <4> QED BY <1>3, <3>1, <4>1
    <3>2. CASE j > L
      <4>1. j + 1 \in 1..M /\ (j + 1) - 1 = j /\ j \in 0..M /\ L \in 0..L
        BY <1>1
      <4>2. x[L] < y[j] /\ x[L] \in Nat /\ y[j] \in Nat /\ t[j + 1] \in Nat
        BY <1>1, <1>2, <2>2, <3>2, <4>1
      <4>3. y[j + 1] = y[j] * Base + t[j + 1]
        BY <1>2, <4>1
      <4>4. y[j] * Base >= y[j] /\ y[j] * Base \in Nat
        BY <1>1, <4>2, Product
      <4> QED BY <4>2, <4>3, <4>4
    <3> QED BY <1>1, <3>1, <3>2
  <2> HIDE DEF T
  <2>3. Nat \subseteq T
    BY <2>1, <2>2, Induction
  <2> QED BY <1>1, <2>3 DEF T
<1>5. x[L] < y[M]
  BY <1>1, <1>4
<1> QED BY <1>5 DEF Value, x, y, L, M

\* A canonical text has digits only, and makes a number.
LEMMA CanonicalText ==
  ASSUME DecimalsAssumption, NEW S, NEW t \in Seq(S), IsCanonical(t)
  PROVE  t \in Seq(Digits) /\ Len(t) \in Nat \ {0} /\ Value(t) \in Nat
<1>1. t \in Seq(Digits) /\ Len(t) \in Nat \ {0}
  <2>1. DOMAIN t = 1..Len(t) /\ Len(t) \in Nat /\ t = [i \in 1..Len(t) |-> t[i]]
    BY LenProperties
  <2>2. t \in [1..Len(t) -> Digits]
    BY <2>1 DEF IsCanonical
  <2>3. t \in Seq(Digits)
    BY <2>1, <2>2, SeqDef
  <2>4. Len(t) # 0
    BY <2>3, EmptySeq DEF IsCanonical
  <2> QED BY <2>1, <2>3, <2>4
<1>2. Len(t) \in 0..Len(t)
  BY <1>1
<1> QED BY <1>1, <1>2, ReadDef DEF Value

\* Two texts of one length that differ have a first difference.
LEMMA FirstDifference ==
  ASSUME NEW s \in Seq(Digits), NEW t \in Seq(Digits), Len(s) = Len(t), s # t
  PROVE  \E i \in 1..Len(s) : s[i] # t[i] /\ \A j \in 1..(i - 1) : s[j] = t[j]
<1> DEFINE Bad == {i \in 1..Len(s) : s[i] # t[i]}
<1>1. Len(s) \in Nat
  BY LenProperties
<1>2. Bad # {} /\ Bad \subseteq Nat
  BY <1>1, SeqEqual
<1>3. PICK i \in Bad : \A j \in Bad : i <= j
  <2> HIDE DEF Bad
  <2> QED BY <1>2, LeastElement
<1>4. \A j \in 1..(i - 1) : j \in 1..Len(s) /\ ~ (i <= j)
  BY <1>1
<1> QED BY <1>3, <1>4

\* decimal_leq of two canonical texts is the order of their numbers.
LEMMA DecimalOrder ==
  ASSUME DecimalsAssumption, NEW s \in Seq(Digits), NEW t \in Seq(Digits),
         IsCanonical(s), IsCanonical(t)
  PROVE  /\ DecimalLeq(s, t) <=> Value(s) <= Value(t)
         /\ Value(s) = Value(t) => s = t
<1>1. /\ Len(s) \in Nat \ {0} /\ Len(t) \in Nat \ {0} /\ Value(s) \in Nat /\ Value(t) \in Nat
      /\ DOMAIN s = 1..Len(s) /\ DOMAIN t = 1..Len(t)
  BY CanonicalText, LenProperties
<1>2. Len(s) \in Nat /\ Len(t) \in Nat
  BY <1>1
<1>3. Value(s) \in Nat /\ Value(t) \in Nat
  BY <1>1
<1>4. \A i \in 1..Len(s) : s[i] \in Nat
  BY DigitsAt
<1>5. \A i \in 1..Len(t) : t[i] \in Nat
  BY DigitsAt
<1>6. CASE Len(s) < Len(t)
  <2>1. Value(s) < Value(t)
    BY <1>1, <1>6, Shorter DEF IsCanonical
  <2>2. DecimalLeq(s, t)
    BY <1>6 DEF DecimalLeq
  <2> QED BY <1>3, <2>1, <2>2
<1>7. CASE Len(t) < Len(s)
  <2>1. Value(t) < Value(s)
    BY <1>1, <1>7, Shorter DEF IsCanonical
  <2>2. ~ (Len(s) < Len(t)) /\ Len(s) # Len(t)
    BY <1>7, <1>2
  <2>3. ~ DecimalLeq(s, t)
    BY <2>2 DEF DecimalLeq
  <2> QED BY <1>3, <2>1, <2>3
<1>8. CASE Len(s) = Len(t) /\ s = t
  BY <1>1, <1>8 DEF DecimalLeq, BytesLeq
<1>9. CASE Len(s) = Len(t) /\ s # t
  <2>1. PICK i \in 1..Len(s) : s[i] # t[i] /\ \A j \in 1..(i - 1) : s[j] = t[j]
    BY <1>9, FirstDifference
  <2>2. s[i] \in Nat /\ t[i] \in Nat /\ i \in 1..Len(t)
    BY <1>4, <1>5, <1>9
  <2>3. CASE s[i] < t[i]
    <3>1. Value(s) < Value(t)
      BY <1>9, <2>1, <2>3, SameLength
    <3>2. BytesLeq(s, t)
      BY <1>1, <2>1, <2>3 DEF BytesLeq
    <3>3. DecimalLeq(s, t)
      BY <1>9, <3>2 DEF DecimalLeq
    <3> QED BY <1>3, <3>1, <3>3
  <2>4. CASE t[i] < s[i]
    <3>1. Value(t) < Value(s)
      <4>1. \A j \in 1..(i - 1) : t[j] = s[j]
        BY <2>1
      <4> QED BY <1>9, <2>2, <2>4, <4>1, SameLength
    <3>2. ASSUME NEW k \in 1..Len(s), s[k] < t[k], \A j \in 1..(k - 1) : s[j] = t[j]
          PROVE  FALSE
      <4>1. s[k] \in Nat /\ t[k] \in Nat
        BY <1>4, <1>5, <1>9
      <4>2. k # i /\ s[k] # t[k]
        BY <2>2, <2>4, <3>2, <4>1
      <4>3. CASE k < i
        <5>1. k \in 1..(i - 1)
          BY <1>1, <4>3
        <5> QED BY <2>1, <4>2, <5>1
      <4>4. CASE i < k
        <5>1. i \in 1..(k - 1)
          BY <1>1, <4>4
        <5> QED BY <2>1, <3>2, <5>1
      <4> QED BY <1>1, <4>2, <4>3, <4>4
    <3>3. ~ BytesLeq(s, t)
      BY <1>1, <1>9, <3>2 DEF BytesLeq
    <3>4. ~ (Len(s) < Len(t))
      BY <1>1, <1>9
    <3>5. ~ DecimalLeq(s, t)
      BY <3>3, <3>4 DEF DecimalLeq
    <3>6. ~ (Value(s) <= Value(t)) /\ Value(s) # Value(t)
      BY <1>3, <3>1
    <3> QED BY <3>5, <3>6
  <2> QED BY <2>1, <2>2, <2>3, <2>4
<1>10. Len(s) < Len(t) \/ Len(t) < Len(s) \/ Len(s) = Len(t)
  BY <1>2
<1> QED BY <1>6, <1>7, <1>8, <1>9, <1>10

\* A digit more.
LEMMA ValueAppend ==
  ASSUME DecimalsAssumption, NEW t \in Seq(Digits), NEW d \in Digits
  PROVE  Value(Append(t, d)) = Value(t) * Base + d
<1> DEFINE u == Append(t, d)
           x == Read(t)
           y == Read(u)
           L == Len(t)
<1>1. /\ u \in Seq(Digits) /\ L \in Nat /\ Len(u) = L + 1 /\ u[L + 1] = d
      /\ \A i \in 1..L : u[i] = t[i]
  BY LenProperties
<1>2. /\ x \in [0..L -> Nat] /\ x[0] = 0 /\ \A j \in 1..L : x[j] = x[j - 1] * Base + t[j]
  BY ReadDef
<1>3. /\ y[0] = 0 /\ \A j \in 1..(L + 1) : y[j] = y[j - 1] * Base + u[j]
  <2> HIDE DEF u
  <2> QED BY <1>1, ReadDef
<1> HIDE DEF u, x, y, L
<1>4. \A j \in 0..L : x[j] = y[j]
  <2> DEFINE T == {j \in Nat : j <= L => x[j] = y[j]}
  <2>1. 0 \in T
    BY <1>2, <1>3
  <2>2. ASSUME NEW j \in Nat, j \in T PROVE j + 1 \in T
    <3> SUFFICES ASSUME j + 1 <= L PROVE x[j + 1] = y[j + 1]
      OBVIOUS
    <3>1. j + 1 \in 1..L /\ j + 1 \in 1..(L + 1) /\ (j + 1) - 1 = j /\ j <= L
      BY <1>1
    <3>2. x[j] = y[j] /\ u[j + 1] = t[j + 1]
      BY <1>1, <2>2, <3>1
    <3> QED BY <1>2, <1>3, <3>1, <3>2
  <2> HIDE DEF T
  <2>3. Nat \subseteq T
    BY <2>1, <2>2, Induction
  <2> QED BY <1>1, <2>3 DEF T
<1>5. y[L + 1] = x[L] * Base + d
  <2>1. L + 1 \in 1..(L + 1) /\ (L + 1) - 1 = L /\ L \in 0..L
    BY <1>1
  <2> QED BY <1>1, <1>3, <1>4, <2>1
<1> QED BY <1>1, <1>5 DEF Value, u, x, y, L

\* The text of a number is canonical, and the number of it.
LEMMA TextRead ==
  ASSUME DecimalsAssumption, NEW n \in Nat
  PROVE  IsCanonical(Text[n]) /\ Value(Text[n]) = n
<1> DEFINE Right(m) == /\ IsCanonical(Text[m]) /\ Value(Text[m]) = m
                       /\ m > 0 => Text[m][1] # 0
           T == {m \in Nat : Right(m)}
<1>1. Base \in Nat \ {0, 1}
  BY DEF DecimalsAssumption
<1>2. ASSUME NEW m \in Nat, \A k \in Nat : k < m => k \in T PROVE Right(m)
  <2>1. CASE m < Base
    <3>1. Text[m] = <<m>> /\ m \in Digits
      BY <1>1, <2>1, TextAt DEF Digits
    <3>2. IsCanonical(<<m>>)
      BY <3>1 DEF IsCanonical
    <3>3. Value(<<m>>) = m
      <4>1. <<m>> \in Seq(Digits) /\ Len(<<m>>) = 1 /\ <<m>>[1] = m
        BY <3>1
      <4>2. 1 \in 1..1 /\ 1 - 1 = 0
        OBVIOUS
      <4>3. Read(<<m>>)[1] = Read(<<m>>)[0] * Base + m /\ Read(<<m>>)[0] = 0
        BY <4>1, <4>2, ReadDef
      <4>4. 0 * Base + m = m
        BY <1>1
      <4> QED BY <4>1, <4>3, <4>4 DEF Value
    <3> QED BY <3>1, <3>2, <3>3
  <2>2. CASE m >= Base
    <3> DEFINE q == m \div Base
               r == m % Base
               t == Text[q]
    <3>1. q \in Nat \ {0} /\ q < m /\ r \in Digits /\ m = Base * q + r
      BY <1>1, <2>2, LesserQuotient, Quotient
    <3>2. Text[m] = Append(t, r)
      BY <2>2, TextAt
    <3>3. q \in T /\ t \in Seq(Digits)
      BY <1>2, <3>1, TextType
    <3>4. IsCanonical(t) /\ Value(t) = q /\ t[1] # 0
      BY <3>1, <3>3
    <3> HIDE DEF T, q, r, t
    <3>5. /\ Len(t) \in Nat \ {0} /\ DOMAIN t = 1..Len(t)
          /\ \A i \in 1..Len(t) : t[i] \in Digits
      BY <3>3, <3>4, CanonicalText, LenProperties DEF IsCanonical
    <3> DEFINE u == Append(t, r)
    <3>6. /\ DOMAIN u = 1..(Len(t) + 1) /\ u # <<>>
          /\ \A i \in 1..(Len(t) + 1) : u[i] = IF i = Len(t) + 1 THEN r ELSE t[i]
      BY <3>1, <3>3, <3>5
    <3>7. u[1] # 0 /\ \A i \in DOMAIN u : u[i] \in Digits
      BY <3>1, <3>4, <3>5, <3>6
    <3>8. Value(u) = q * Base + r
      BY <3>1, <3>3, <3>4, ValueAppend
    <3>9. q * Base + r = m
      BY <1>1, <3>1 DEF Digits
    <3> HIDE DEF u
    <3>10. IsCanonical(u)
      BY <3>6, <3>7 DEF IsCanonical
    <3> QED BY <3>2, <3>7, <3>8, <3>9, <3>10 DEF u
  <2> QED BY <1>1, <2>1, <2>2
<1>3. \A m \in Nat : (\A k \in Nat : k < m => k \in T) => m \in T
  <2> HIDE DEF Right
  <2> QED BY <1>2
<1>4. Nat \subseteq T
  <2> HIDE DEF T
  <2> QED BY <1>3, StrongInduction
<1> QED BY <1>4

\* A canonical text is that of its number.
LEMMA TextOfValue ==
  ASSUME DecimalsAssumption, NEW t \in Seq(Digits), IsCanonical(t)
  PROVE  Text[Value(t)] = t
<1>1. Value(t) \in Nat
  BY CanonicalText
<1>2. Text[Value(t)] \in Seq(Digits) /\ IsCanonical(Text[Value(t)])
      /\ Value(Text[Value(t)]) = Value(t)
  BY <1>1, TextRead, TextType
<1> QED BY <1>2, DecimalOrder

\* DecimalU64 and DecimalU256 take the texts of their numbers and no other.
LEMMA FitsExactly ==
  ASSUME DecimalsAssumption, NEW S, NEW t \in Seq(S)
  PROVE  /\ Fits64(t) <=> \E n \in 0..Max64 : t = Text[n]
         /\ Fits256(t) <=> \E n \in 0..Max256 : t = Text[n]
         /\ Fits64(t) => Text[Value(t)] = t
<1>1. Max64 \in Nat /\ Max128 \in Nat /\ Max256 \in Nat /\ Max64 < Max128 /\ Longest \in Nat
  BY DEF DecimalsAssumption
<1> DEFINE last == Text[Max256]
<1>2. last \in Seq(Digits) /\ IsCanonical(last) /\ Value(last) = Max256 /\ Len(last) <= Longest
  BY <1>1, TextRead, TextType DEF DecimalsAssumption
<1>3. ASSUME IsCanonical(t)
      PROVE  /\ t \in Seq(Digits) /\ Len(t) \in Nat /\ Value(t) \in Nat /\ Text[Value(t)] = t
             /\ DecimalLeq(t, last) <=> Value(t) <= Max256
  <2>1. t \in Seq(Digits) /\ Len(t) \in Nat /\ Value(t) \in Nat
    BY <1>3, CanonicalText
  <2>2. Text[Value(t)] = t
    BY <1>3, <2>1, TextOfValue
  <2>3. DecimalLeq(t, last) <=> Value(t) <= Value(last)
    BY <1>2, <1>3, <2>1, DecimalOrder
  <2> QED BY <1>2, <2>1, <2>2, <2>3
<1>4. ASSUME NEW n \in Nat, t = Text[n] PROVE IsCanonical(t) /\ Value(t) = n
  BY <1>4, TextRead
<1> HIDE DEF last
<1>5. Fits64(t) => (\E n \in 0..Max64 : t = Text[n]) /\ Text[Value(t)] = t
  <2> SUFFICES ASSUME Fits64(t) PROVE Value(t) \in 0..Max64 /\ t = Text[Value(t)]
    OBVIOUS
  <2> QED BY <1>1, <1>3 DEF Fits64
<1>6. ASSUME NEW n \in 0..Max64, t = Text[n] PROVE Fits64(t)
  <2>1. n \in Nat /\ n <= Max64 /\ n <= Max128
    BY <1>1
  <2> QED BY <1>4, <1>6, <2>1 DEF Fits64
<1>7. ASSUME Fits256(t) PROVE \E n \in 0..Max256 : t = Text[n]
  <2>1. Value(t) \in 0..Max256 /\ t = Text[Value(t)]
    BY <1>1, <1>3, <1>7 DEF Fits256, last
  <2> QED BY <2>1
<1>8. ASSUME NEW n \in 0..Max256, t = Text[n] PROVE Fits256(t)
  <2>1. n \in Nat /\ n <= Max256
    BY <1>1
  <2>2. IsCanonical(t) /\ DecimalLeq(t, last) /\ Len(t) \in Nat
    BY <1>3, <1>4, <1>8, <2>1
  <2>3. Len(t) <= Len(last)
    <3>1. Len(last) \in Nat
      BY <1>2
    <3> QED BY <2>2, <3>1 DEF DecimalLeq
  <2>4. Len(t) <= Longest
    <3>1. Len(last) \in Nat
      BY <1>2
    <3> QED BY <1>1, <1>2, <2>2, <2>3, <3>1
  <2> QED BY <2>2, <2>4 DEF Fits256, last
<1> QED BY <1>5, <1>6, <1>7, <1>8

(***************************************************************************)
(* Frames.                                                                 *)
(***************************************************************************)
\* The levels of a value, and the shape, solve their equations.
LEMMA LevelDef ==
  ASSUME FramesAssumption
  PROVE  /\ \A v \in Values : Level[0][v] = {v}
         /\ \A k \in Nat : \A v \in Values :
              Level[k + 1][v] = UNION {Level[k][p] : p \in Parts(v)}
<1> DEFINE S == [Values -> SUBSET Values]
           D == [k \in Nat |-> IF k = 0 THEN 0 ELSE k - 1]
           Under(g) == [v \in Values |-> UNION {g[p] : p \in Parts(v)}]
           F == [k \in Nat |-> [g \in S |-> IF k = 0 THEN [v \in Values |-> {v}] ELSE Under(g)]]
<1>1. \A v \in Values : Parts(v) \subseteq Values
  BY DEF FramesAssumption
<1>2. [v \in Values |-> {v}] \in S
  OBVIOUS
<1>3. \A g \in S : Under(g) \in S
  BY <1>1
<1>4. Recursive(Nat, S, D, F)
  <2>1. D \in [Nat -> Nat]
    OBVIOUS
  <2>2. F \in [Nat -> [S -> S]]
    <3> HIDE DEF Under, S
    <3> QED BY <1>2, <1>3
  <2>3. Segment(Nat) /\ S # {}
    <3>1. \A k \in Nat : k > 0 => k - 1 \in Nat
      OBVIOUS
    <3> QED BY <1>2, <3>1 DEF Segment
  <2>4. Descends(Nat, S, D, F)
    <3> HIDE DEF Under, S
    <3> QED BY DEF Descends
  <2> HIDE DEF S, D, F
  <2> QED BY <2>1, <2>2, <2>3, <2>4 DEF Recursive
<1>5. PICK g \in [Nat -> S] : \A k \in Nat : g[k] = F[k][g[D[k]]]
  <2> HIDE DEF S, D, F
  <2> QED BY <1>4, Recursion DEF Solvable
<1>6. \A k \in Nat : g[k] = IF k = 0 THEN [v \in Values |-> {v}] ELSE Under(g[k - 1])
  <2> HIDE DEF Under, S
  <2>1. \A k \in Nat : D[k] \in Nat /\ g[D[k]] \in S
    OBVIOUS
  <2> QED BY <1>5, <2>1
<1>7. \A k \in Nat :
        g[k] = [v \in Values |-> IF k = 0 THEN {v} ELSE UNION {g[k - 1][p] : p \in Parts(v)}]
  BY <1>6
<1>8. g = [k \in Nat |->
             [v \in Values |-> IF k = 0 THEN {v} ELSE UNION {g[k - 1][p] : p \in Parts(v)}]]
  <2> HIDE DEF S
  <2> QED BY <1>7
<1>9. Level = [k \in Nat |->
                 [v \in Values |-> IF k = 0 THEN {v} ELSE UNION {Level[k - 1][p] : p \in Parts(v)}]]
  BY <1>8 DEF Level
<1>10. ASSUME NEW k \in Nat, NEW v \in Values
       PROVE  Level[k][v] = IF k = 0 THEN {v} ELSE UNION {Level[k - 1][p] : p \in Parts(v)}
  <2>1. Level[k] = [w \in Values |->
                      IF k = 0 THEN {w} ELSE UNION {Level[k - 1][p] : p \in Parts(w)}]
    BY <1>9, Zenon
  <2> QED BY <2>1, Zenon
<1>11. \A v \in Values : Level[0][v] = {v}
  BY <1>10
<1>12. \A k \in Nat : k + 1 \in Nat /\ k + 1 # 0 /\ (k + 1) - 1 = k
  OBVIOUS
<1>13. ASSUME NEW k \in Nat, NEW v \in Values
       PROVE  Level[k + 1][v] = UNION {Level[k][p] : p \in Parts(v)}
  <2>1. Level[k + 1][v] = IF k + 1 = 0 THEN {v}
                          ELSE UNION {Level[(k + 1) - 1][p] : p \in Parts(v)}
    BY <1>10, <1>12, Zenon
  <2> QED BY <1>12, <2>1
<1> QED BY <1>11, <1>13

LEMMA ShapeOkDef ==
  ASSUME FramesAssumption
  PROVE  \A d \in Nat : \A v \in Values :
           ShapeOk[d][v] = (d <= MaxDepth /\ Moderate(v) /\ \A p \in Parts(v) : ShapeOk[d + 1][p])
<1> DEFINE S == [Values -> BOOLEAN]
           D == [k \in Nat |-> IF k = 0 THEN 0 ELSE k - 1]
           Above(g) == [v \in Values |-> Moderate(v) /\ \A p \in Parts(v) : g[p]]
           F == [k \in Nat |-> [g \in S |-> IF k = 0 THEN [v \in Values |-> FALSE] ELSE Above(g)]]
<1>1. MaxDepth \in Nat /\ \A v \in Values : Parts(v) \subseteq Values
  BY DEF FramesAssumption
<1>2. [v \in Values |-> FALSE] \in S
  OBVIOUS
<1>3. \A g \in S : Above(g) \in S
  OBVIOUS
<1>4. Recursive(Nat, S, D, F)
  <2>1. D \in [Nat -> Nat]
    OBVIOUS
  <2>2. F \in [Nat -> [S -> S]]
    <3> HIDE DEF Above, S
    <3> QED BY <1>2, <1>3
  <2>3. Segment(Nat) /\ S # {}
    <3>1. \A k \in Nat : k > 0 => k - 1 \in Nat
      OBVIOUS
    <3> QED BY <1>2, <3>1 DEF Segment
  <2>4. Descends(Nat, S, D, F)
    <3> HIDE DEF Above, S
    <3> QED BY DEF Descends
  <2> HIDE DEF S, D, F
  <2> QED BY <2>1, <2>2, <2>3, <2>4 DEF Recursive
<1>5. PICK g \in [Nat -> S] : \A k \in Nat : g[k] = F[k][g[D[k]]]
  <2> HIDE DEF S, D, F
  <2> QED BY <1>4, Recursion DEF Solvable
<1>6. \A k \in Nat : g[k] = IF k = 0 THEN [v \in Values |-> FALSE] ELSE Above(g[k - 1])
  <2> HIDE DEF Above, S
  <2>1. \A k \in Nat : D[k] \in Nat /\ g[D[k]] \in S
    OBVIOUS
  <2> QED BY <1>5, <2>1
\* The depths that are left below a depth.
<1> DEFINE left(d) == IF d <= MaxDepth THEN (MaxDepth + 1) - d ELSE 0
           f == [d \in Nat |-> [v \in Values |-> g[left(d)][v]]]
           Right(h, d, v) == d <= MaxDepth /\ Moderate(v) /\ \A p \in Parts(v) : h[d + 1][p]
<1>7. ASSUME NEW d \in Nat, NEW v \in Values PROVE f[d][v] = Right(f, d, v)
  <2>1. d + 1 \in Nat /\ \A p \in Parts(v) : p \in Values
    BY <1>1
  <2>2. f[d][v] = g[left(d)][v] /\ \A p \in Parts(v) : f[d + 1][p] = g[left(d + 1)][p]
    BY <2>1, Zenon
  <2>3. CASE d <= MaxDepth
    <3>1. left(d) \in Nat \ {0} /\ left(d + 1) = left(d) - 1
      BY <1>1, <2>3
    <3>2. g[left(d)] = Above(g[left(d + 1)])
      <4> HIDE DEF left, Above, f
      <4> QED BY <1>6, <3>1
    <3>3. g[left(d)][v] = (Moderate(v) /\ \A p \in Parts(v) : g[left(d + 1)][p])
      <4> HIDE DEF left
      <4> QED BY <3>2
    <3> HIDE DEF f, left
    <3> QED BY <2>2, <2>3, <3>3
  <2>4. CASE ~ (d <= MaxDepth)
    <3>1. left(d) = 0
      BY <2>4
    <3>2. g[0] = [w \in Values |-> FALSE]
      BY <1>6
    <3>3. f[d][v] = FALSE
      <4> HIDE DEF left, f
      <4> QED BY <2>2, <3>1, <3>2
    <3> HIDE DEF f
    <3> QED BY <2>4, <3>3
  <2> QED BY <2>3, <2>4
<1>8. f = [d \in Nat |-> [v \in Values |-> Right(f, d, v)]]
  <2> HIDE DEF left, Right
  <2>1. ASSUME NEW d \in Nat
        PROVE  [v \in Values |-> g[left(d)][v]] = [v \in Values |-> Right(f, d, v)]
    <3>1. \A v \in Values : g[left(d)][v] = Right(f, d, v)
      <4>1. \A v \in Values : f[d][v] = g[left(d)][v]
        BY Zenon
      <4> HIDE DEF f
      <4> QED BY <1>7, <4>1
    <3> HIDE DEF f
    <3> QED BY <3>1
  <2>2. f = [d \in Nat |-> [v \in Values |-> g[left(d)][v]]]
    OBVIOUS
  <2> HIDE DEF f
  <2> QED BY <2>1, <2>2
<1>9. ShapeOk = [d \in Nat |-> [v \in Values |-> Right(ShapeOk, d, v)]]
  <2> HIDE DEF f
  <2> QED BY <1>8 DEF ShapeOk
<1> HIDE DEF Right
<1>10. ASSUME NEW d \in Nat, NEW v \in Values PROVE ShapeOk[d][v] = Right(ShapeOk, d, v)
  <2>1. ShapeOk[d] = [w \in Values |-> Right(ShapeOk, d, w)]
    BY <1>9, Zenon
  <2> QED BY <2>1, Zenon
<1> QED BY <1>10 DEF Right

\* validate_json_shape accepts the values that are within the limits on each level.
LEMMA ShapeIsLimits ==
  ASSUME FramesAssumption, NEW v \in Values
  PROVE  ShapeOk[1][v] <=> WithinLimits(v)
<1> DEFINE Fine(k, w) == /\ Level[k][w] = {}
                         /\ \A i \in Nat : i < k => \A x \in Level[i][w] : Moderate(x)
           T == {k \in Nat : k <= MaxDepth + 1 =>
                   \A w \in Values : ShapeOk[(MaxDepth + 1) - k][w] <=> Fine(k, w)}
<1>1. MaxDepth \in Nat /\ \A w \in Values : Parts(w) \subseteq Values
  BY DEF FramesAssumption
<1>2. 0 \in T
  <2>1. (MaxDepth + 1) - 0 \in Nat /\ ~ ((MaxDepth + 1) - 0 <= MaxDepth)
    BY <1>1
  <2>2. \A w \in Values : ~ ShapeOk[(MaxDepth + 1) - 0][w]
    BY <2>1, ShapeOkDef
  <2>3. \A w \in Values : Level[0][w] # {}
    BY LevelDef
  <2> QED BY <2>2, <2>3
<1>3. ASSUME NEW k \in Nat, k \in T PROVE k + 1 \in T
  <2> SUFFICES ASSUME k + 1 <= MaxDepth + 1, NEW w \in Values
               PROVE  ShapeOk[(MaxDepth + 1) - (k + 1)][w] <=> Fine(k + 1, w)
    OBVIOUS
  <2> DEFINE d == (MaxDepth + 1) - (k + 1)
  <2>1. d \in Nat /\ d <= MaxDepth /\ d + 1 = (MaxDepth + 1) - k /\ k <= MaxDepth + 1
    BY <1>1
  <2>2. \A p \in Parts(w) : ShapeOk[d + 1][p] <=> Fine(k, p)
    <3>1. \A p \in Values : ShapeOk[(MaxDepth + 1) - k][p] <=> Fine(k, p)
      BY <1>3, <2>1
    <3> HIDE DEF Fine, d
    <3> QED BY <1>1, <2>1, <3>1
  <2>3. ShapeOk[d][w] = (Moderate(w) /\ \A p \in Parts(w) : ShapeOk[d + 1][p])
    <3> HIDE DEF d
    <3>1. ShapeOk[d][w] = (d <= MaxDepth /\ Moderate(w) /\ \A p \in Parts(w) : ShapeOk[d + 1][p])
      BY <2>1, ShapeOkDef
    <3> QED BY <2>1, <3>1
  <2>4. Level[k + 1][w] = {} <=> \A p \in Parts(w) : Level[k][p] = {}
    BY LevelDef
  <2>5. (\A i \in Nat : i < k + 1 => \A x \in Level[i][w] : Moderate(x))
          <=> /\ Moderate(w)
              /\ \A p \in Parts(w) : \A i \in Nat : i < k => \A x \in Level[i][p] : Moderate(x)
    <3>1. ASSUME \A i \in Nat : i < k + 1 => \A x \in Level[i][w] : Moderate(x)
          PROVE  /\ Moderate(w)
                 /\ \A p \in Parts(w) : \A i \in Nat : i < k => \A x \in Level[i][p] : Moderate(x)
      <4>1. Moderate(w)
        BY <3>1, LevelDef
      <4>2. ASSUME NEW p \in Parts(w), NEW i \in Nat, i < k, NEW x \in Level[i][p]
            PROVE  Moderate(x)
        <5>1. x \in Level[i + 1][w] /\ i + 1 \in Nat /\ i + 1 < k + 1
          BY <4>2, LevelDef
        <5> QED BY <3>1, <5>1
      <4> QED BY <4>1, <4>2
    <3>2. ASSUME Moderate(w),
                 \A p \in Parts(w) : \A i \in Nat : i < k => \A x \in Level[i][p] : Moderate(x),
                 NEW i \in Nat, i < k + 1, NEW x \in Level[i][w]
          PROVE  Moderate(x)
      <4>1. CASE i = 0
        BY <3>2, <4>1, LevelDef
      <4>2. CASE i # 0
        <5>1. i - 1 \in Nat /\ i = (i - 1) + 1 /\ i - 1 < k
          BY <3>2, <4>2
        <5>2. PICK p \in Parts(w) : x \in Level[i - 1][p]
          BY <3>2, <5>1, LevelDef
        <5> QED BY <3>2, <5>1, <5>2
      <4> QED BY <4>1, <4>2
    <3> QED BY <3>1, <3>2
  <2> HIDE DEF d
  <2>6. ShapeOk[d][w] <=> Fine(k + 1, w)
    BY <2>2, <2>3, <2>4, <2>5
  <2> QED BY <2>6 DEF d
<1>4. Nat \subseteq T
  <2> HIDE DEF T
  <2> QED BY <1>2, <1>3, Induction
<1>5. ShapeOk[1][v] <=> Fine(MaxDepth, v)
  <2>1. MaxDepth \in T /\ MaxDepth <= MaxDepth + 1 /\ (MaxDepth + 1) - MaxDepth = 1
    <3> HIDE DEF T
    <3> QED BY <1>1, <1>4
  <2>2. ShapeOk[(MaxDepth + 1) - MaxDepth][v] <=> Fine(MaxDepth, v)
    <3> HIDE DEF Fine
    <3> QED BY <2>1
  <2> QED BY <2>1, <2>2
<1>6. Fine(MaxDepth, v) <=> WithinLimits(v)
  <2>1. \A i \in Nat : i < MaxDepth => i \in 0..MaxDepth
    BY <1>1
  <2>2. \A i \in 0..MaxDepth : i \in Nat /\ (i < MaxDepth \/ i = MaxDepth)
    BY <1>1
  <2>3. Fine(MaxDepth, v) => WithinLimits(v)
    BY <2>2 DEF WithinLimits
  <2>4. WithinLimits(v) => Fine(MaxDepth, v)
    BY <2>1 DEF WithinLimits
  <2> QED BY <2>3, <2>4
<1> QED BY <1>5, <1>6

(***************************************************************************)
(* What arrives is read of its one encoding.                               *)
(***************************************************************************)
WireInv == WireTypeOK /\ OneEncoding

\* A text that arrives is a sequence.
LEMMA ArrivedText ==
  ASSUME EncodingAssumption, NEW t \in AnyText
  PROVE  t \in Seq(Digits \cup {Other})
<1>1. PICK n \in 0..MaxReceived : t \in [1..n -> Digits \cup {Other}]
  BY DEF AnyText
<1>2. n \in Nat
  BY DEF EncodingAssumption
<1> QED BY <1>1, <1>2, SeqDef

\* decode_frame takes the frames of the values within the limits and no other.
LEMMA DecodesOneFrame ==
  ASSUME EncodingAssumption, WireTypeOK
  PROVE  /\ Decodes(frame) => frame.text.value \in Values
         /\ Decodes(frame) <=> /\ frame.text.json
                               /\ WithinLimits(frame.text.value) /\ Encodes(frame.text.value)
                               /\ frame = EncodeFrame(frame.text.value)
<1>1. FramesAssumption
  BY DEF EncodingAssumption
<1>2. PICK off \in {-1, 0, 1} : frame = Frame(frame.text, off)
  BY DEF WireTypeOK
<1> DEFINE t == frame.text
           v == t.value
<1>3. frame = [declared |-> frame.declared, text |-> t]
  BY <1>2 DEF Frame
<1>4. t.json => v \in Values
  BY DEF WireTypeOK, JsonTexts, Garbage
<1>5. v \in Values => (ShapeOk[1][v] <=> WithinLimits(v))
  BY <1>1, ShapeIsLimits
<1> HIDE DEF t, v
<1>6. ASSUME Decodes(frame)
      PROVE  t.json /\ v \in Values /\ WithinLimits(v) /\ Encodes(v) /\ frame = EncodeFrame(v)
  <2>1. /\ t.json /\ ShapeOk[1][v] /\ t = Canonical(v)
        /\ frame.declared <= FrameMax /\ frame.declared = TextLength(t)
    BY <1>6 DEF Decodes, t, v
  <2> QED BY <1>3, <1>4, <1>5, <2>1 DEF Encodes, EncodeFrame
<1>7. ASSUME t.json, WithinLimits(v), Encodes(v), frame = EncodeFrame(v)
      PROVE  Decodes(frame)
  <2>1. t = Canonical(v) /\ frame.declared = TextLength(t)
    BY <1>7 DEF EncodeFrame, t
  <2>2. frame.declared <= FrameMax
    BY <1>7, <2>1 DEF Encodes
  <2> QED BY <1>4, <1>5, <1>7, <2>1, <2>2 DEF Decodes, t, v
<1> QED BY <1>6, <1>7 DEF t, v

LEMMA WireInitInv == EncodingAssumption /\ WireInit => WireInv
<1> SUFFICES ASSUME EncodingAssumption, WireInit PROVE WireInv
  OBVIOUS
<1>1. text \in AnyText /\ u64 = Unread /\ u256 = Unread /\ result = NotYet /\ frame \in Received
  BY DEF WireInit, TextArrives, FrameArrives
<1>2. PICK t \in JsonTexts \cup Garbage, off \in {-1, 0, 1} : frame = Frame(t, off)
  BY <1>1 DEF Received
<1>3. frame.text = t
  BY <1>2 DEF Frame
<1>4. WireTypeOK
  BY <1>1, <1>2, <1>3 DEF WireTypeOK
<1>5. OneEncoding
  BY <1>1 DEF OneEncoding, OneTextPerNumber, OneFramePerValue
<1> QED BY <1>4, <1>5 DEF WireInv

LEMMA WireStep ==
  ASSUME EncodingAssumption, WireInv, [WireNext]_wireVars
  PROVE  WireInv'
<1>1. CASE ReadDecimal
  <2>1. text' = text /\ frame' = frame /\ result' = result
    BY <1>1 DEF ReadDecimal, frameVars
  <2>2. text \in Seq(Digits \cup {Other}) /\ DecimalsAssumption
    BY ArrivedText DEF WireInv, WireTypeOK, EncodingAssumption
  <2>3. /\ u64' = IF Fits64(text) THEN Text[Value(text)] ELSE Malformed
        /\ u256' = IF Fits256(text) THEN text ELSE Malformed
    BY <1>1 DEF ReadDecimal
  <2>4. /\ u64' = IF \E n \in 0..Max64 : text = Text[n] THEN text ELSE Malformed
        /\ u256' = IF \E n \in 0..Max256 : text = Text[n] THEN text ELSE Malformed
    BY <2>2, <2>3, FitsExactly
  <2>5. (Fits64(text) \/ Fits256(text)) => text \in Seq(Digits)
    BY <2>2, CanonicalText DEF Fits64, Fits256
  <2>6. {u64', u256'} \subseteq {Unread, Malformed} \cup Seq(Digits)
    BY <2>2, <2>3, <2>4, <2>5, FitsExactly
  <2>7. WireTypeOK'
    BY <2>1, <2>6 DEF WireInv, WireTypeOK
  <2>8. OneTextPerNumber'
    BY <2>1, <2>4 DEF OneTextPerNumber
  <2>9. OneFramePerValue'
    BY <2>1 DEF WireInv, OneEncoding, OneFramePerValue
  <2> QED BY <2>7, <2>8, <2>9 DEF WireInv, OneEncoding
<1>2. CASE DecodeFrame
  <2>1. frame' = frame /\ text' = text /\ u64' = u64 /\ u256' = u256
    BY <1>2 DEF DecodeFrame, decimalVars
  <2>2. result' = IF Decodes(frame) THEN frame.text.value ELSE Refused
    BY <1>2 DEF DecodeFrame
  <2>3. WireTypeOK'
    BY <2>1, <2>2 DEF WireInv, WireTypeOK
  <2>4. result' # Refused <=> Decodes(frame)
    <3>1. Decodes(frame) => frame.text.value # Refused
      BY DecodesOneFrame DEF WireInv, EncodingAssumption
    <3> QED BY <2>2, <3>1
  <2>5. OneFramePerValue'
    BY <2>1, <2>4, DecodesOneFrame DEF WireInv, OneFramePerValue
  <2>6. OneTextPerNumber'
    BY <2>1 DEF WireInv, OneEncoding, OneTextPerNumber
  <2> QED BY <2>3, <2>5, <2>6 DEF WireInv, OneEncoding
<1>3. CASE UNCHANGED wireVars
  BY <1>3 DEF WireInv, WireTypeOK, OneEncoding, OneTextPerNumber, OneFramePerValue, wireVars,
              decimalVars, frameVars
<1> QED BY <1>1, <1>2, <1>3 DEF WireNext
=============================================================================
