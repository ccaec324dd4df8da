--------------------------- MODULE RoutinesProofs ---------------------------
(***************************************************************************)
(* What the recursive functions behind the leaf routines compute, for      *)
(* inputs of any length.  Induction is by way of least counterexamples:    *)
(* naturals are well founded, so if a function is wrong for some argument  *)
(* it is wrong for one of least measure, and right for those its recursion *)
(* goes on with.                                                           *)
(***************************************************************************)
EXTENDS Checksum, DhcpOptions, UartPrint, SequenceTheorems, WellFoundedInduction, TLAPS

---------------------------------------------------------------------------
(* Induction and recursion *)

\* A set of naturals that is not empty has a least member.
LEMMA LeastNatural ==
    ASSUME NEW S, S \subseteq Nat, S # {}
    PROVE  \E n \in S : \A m \in S : n <= m
<1>. DEFINE R == OpToRel(<, Nat)
<1>1. IsWellFoundedOn(R, Nat)
  BY NatLessThanWellFounded
<1>2. \E n \in S : \A m \in S : ~ (<<m, n>> \in R)
  <2>. HIDE DEF R
  <2>. QED
    BY <1>1, WFMin
<1>3. ASSUME NEW n \in S, NEW m \in S, ~ (<<m, n>> \in R)
      PROVE  n <= m
  BY <1>3 DEF OpToRel
<1>. QED
  BY <1>2, <1>3

\* Induction: if something is wrong anywhere, it is wrong at a place of least
\* measure.
LEMMA LeastWrong ==
    ASSUME NEW D, NEW measure, \A x \in D : measure[x] \in Nat,
           NEW Wrong, Wrong \subseteq D, Wrong # {}
    PROVE  \E x \in Wrong : \A y \in D : measure[y] < measure[x] => y \notin Wrong
<1>. DEFINE S == {measure[x] : x \in Wrong}
<1>1. S \subseteq Nat /\ S # {}
  OBVIOUS
<1>2. PICK n \in S : \A m \in S : n <= m
  <2>. HIDE DEF S
  <2>. QED
    BY <1>1, LeastNatural
<1>3. PICK x \in Wrong : n = measure[x]
  BY <1>2
<1>4. ASSUME NEW y \in D, measure[y] < measure[x], y \in Wrong
      PROVE  FALSE
  <2>1. measure[x] <= measure[y]
    BY <1>2, <1>3, <1>4
  <2>2. measure[x] \in Nat /\ measure[y] \in Nat
    BY <1>3
  <2>. QED
    BY <1>4, <2>1, <2>2
<1>. QED
  BY <1>3, <1>4

\* The same for the naturals themselves.
LEMMA LeastWrongNatural ==
    ASSUME NEW Wrong, Wrong \subseteq Nat, Wrong # {}
    PROVE  \E n \in Wrong : n # 0 => n - 1 \in Nat /\ n - 1 \notin Wrong
<1>1. PICK n \in Wrong : \A m \in Wrong : n <= m
  BY LeastNatural
<1>2. ASSUME n # 0
      PROVE  n - 1 \in Nat /\ n - 1 \notin Wrong
  BY <1>1, <1>2
<1>. QED
  BY <1>2

\* Everywhere in S, f is what the recursion makes of it.
Follows(f, S, base, leaf, next, step) ==
    \A x \in S : f[x] = IF x \in base THEN leaf[x] ELSE step[x][f[next[x]]]

\* The recursion stays in D and V and lowers a measure until it comes to base.
Descends(D, V, measure, base, leaf, next, step) ==
    /\ V # {}
    /\ \A x \in D :
          /\ measure[x] \in Nat
          /\ x \in base => leaf[x] \in V
          /\ x \notin base => /\ next[x] \in D /\ measure[next[x]] < measure[x]
                             /\ \A v \in V : step[x][v] \in V

\* Such a recursion has a solution.
LEMMA Recursion ==
    ASSUME NEW D, NEW V, NEW measure, NEW base, NEW leaf, NEW next, NEW step,
           Descends(D, V, measure, base, leaf, next, step)
    PROVE  \E f \in [D -> V] : Follows(f, D, base, leaf, next, step)
<1>. V # {} /\ \A x \in D : /\ measure[x] \in Nat
                            /\ x \in base => leaf[x] \in V
                            /\ x \notin base => /\ next[x] \in D /\ measure[next[x]] < measure[x]
                                               /\ \A v \in V : step[x][v] \in V
  BY DEF Descends
<1>. DEFINE Below(n) == {x \in D : measure[x] < n}
            Partial(n) == {f \in [D -> V] : Follows(f, Below(n), base, leaf, next, step)}
<1>1. ASSUME NEW n \in Nat, Partial(n) = {}
      PROVE  FALSE
  <2>. DEFINE Wrong == {k \in Nat : Partial(k) = {}}
  <2>1. Wrong \subseteq Nat /\ Wrong # {}
    BY <1>1
  <2>2. PICK k \in Wrong : k # 0 => k - 1 \in Nat /\ k - 1 \notin Wrong
    <3>. HIDE DEF Wrong
    <3>. QED
      BY <2>1, LeastWrongNatural
  <2>3. k \in Nat /\ Partial(k) = {}
    BY <2>2
  <2>4. CASE k = 0
    <3>1. PICK v \in V : TRUE
      OBVIOUS
    <3>2. Below(0) = {}
      OBVIOUS
    <3>3. [x \in D |-> v] \in Partial(0)
      BY <3>2 DEF Follows
    <3>. QED
      BY <2>3, <2>4, <3>3
  <2>5. CASE k # 0
    <3>1. PICK f \in Partial(k - 1) : TRUE
      BY <2>2, <2>5
    <3>. DEFINE g == [x \in D |-> IF x \in base THEN leaf[x] ELSE step[x][f[next[x]]]]
    <3>2. g \in [D -> V]
      BY <3>1
    <3>3. ASSUME NEW y \in D, measure[y] < k - 1
          PROVE  g[y] = f[y]
      BY <3>1, <3>3 DEF Follows
    <3>4. ASSUME NEW x \in D, measure[x] < k, x \notin base
          PROVE  next[x] \in D /\ measure[next[x]] < k - 1
      <4>1. next[x] \in D /\ measure[next[x]] < measure[x]
        BY <3>4
      <4>2. measure[next[x]] \in Nat /\ measure[x] \in Nat
        BY <4>1
      <4>. QED
        BY <3>4, <2>3, <4>1, <4>2
    <3>5. ASSUME NEW x \in Below(k)
          PROVE  g[x] = IF x \in base THEN leaf[x] ELSE step[x][g[next[x]]]
      BY <3>3, <3>4
    <3>6. Follows(g, Below(k), base, leaf, next, step)
      <4>. HIDE DEF g
      <4>. QED
        BY <3>5 DEF Follows
    <3>. QED
      BY <2>3, <3>2, <3>6
  <2>. QED
    BY <2>4, <2>5
<1>2. ASSUME NEW n \in Nat, NEW m \in Nat, NEW f \in Partial(n), NEW g \in Partial(m),
             NEW z \in Below(n) \cap Below(m), f[z] # g[z]
      PROVE  FALSE
  <2>. DEFINE Wrong == {x \in Below(n) \cap Below(m) : f[x] # g[x]}
  <2>1. Wrong \subseteq D /\ Wrong # {}
    BY <1>2
  <2>2. PICK x \in Wrong : \A y \in D : measure[y] < measure[x] => y \notin Wrong
    <3>. HIDE DEF Wrong
    <3>. QED
      BY <2>1, LeastWrong
  <2>3. x \in Below(n) /\ x \in Below(m) /\ x \in D /\ f[x] # g[x]
    BY <2>2
  <2>4. /\ Follows(f, Below(n), base, leaf, next, step)
        /\ Follows(g, Below(m), base, leaf, next, step)
    <3>. HIDE DEF Below
    <3>. QED
      OBVIOUS
  <2>5. /\ f[x] = IF x \in base THEN leaf[x] ELSE step[x][f[next[x]]]
        /\ g[x] = IF x \in base THEN leaf[x] ELSE step[x][g[next[x]]]
    <3>. HIDE DEF Below
    <3>. QED
      BY <2>3, <2>4 DEF Follows
  <2>6. x \notin base /\ f[next[x]] # g[next[x]]
    BY <2>3, <2>5
  <2>7. next[x] \in D /\ measure[next[x]] < measure[x]
    BY <2>3, <2>6
  <2>8. next[x] \in Below(n) /\ next[x] \in Below(m)
    <3>1. measure[next[x]] \in Nat /\ measure[x] \in Nat
      BY <2>3, <2>7
    <3>. QED
      BY <2>3, <2>7, <3>1
  <2>9. next[x] \notin Wrong
    <3>. HIDE DEF Wrong
    <3>. QED
      BY <2>2, <2>7
  <2>. QED
    BY <2>6, <2>8, <2>9
<1>. DEFINE part(x) == CHOOSE f \in Partial(measure[x] + 1) : TRUE
            whole == [x \in D |-> part(x)[x]]
<1>3. ASSUME NEW x \in D
      PROVE  /\ measure[x] \in Nat
             /\ part(x) \in Partial(measure[x] + 1)
             /\ x \in Below(measure[x] + 1)
             /\ whole[x] = part(x)[x]
  <2>1. measure[x] \in Nat /\ measure[x] + 1 \in Nat /\ measure[x] < measure[x] + 1
    OBVIOUS
  <2>2. Partial(measure[x] + 1) # {}
    <3>. HIDE DEF Partial
    <3>. QED
      BY <1>1, <2>1
  <2>3. part(x) \in Partial(measure[x] + 1)
    <3>. HIDE DEF Partial
    <3>. QED
      BY <2>2
  <2>4. x \in Below(measure[x] + 1)
    BY <2>1
  <2>5. whole[x] = part(x)[x]
    <3>. HIDE DEF part
    <3>. QED
      OBVIOUS
  <2>. QED
    BY <2>1, <2>3, <2>4, <2>5
<1>4. whole \in [D -> V]
  <2>1. ASSUME NEW x \in D
        PROVE  part(x)[x] \in V
    <3>1. part(x) \in [D -> V]
      <4>. HIDE DEF part
      <4>. QED
        BY <1>3
    <3>. HIDE DEF part
    <3>. QED
      BY <3>1
  <2>. HIDE DEF part
  <2>. QED
    BY <2>1
<1>5. ASSUME NEW x \in D
      PROVE  whole[x] = IF x \in base THEN leaf[x] ELSE step[x][whole[next[x]]]
  <2>. DEFINE f == part(x)
              n == measure[x] + 1
  <2>1. f \in Partial(n) /\ x \in Below(n) /\ whole[x] = f[x] /\ n \in Nat
    <3>. HIDE DEF Partial, part, whole, Below
    <3>. QED
      BY <1>3
  <2>2. f[x] = IF x \in base THEN leaf[x] ELSE step[x][f[next[x]]]
    <3>. HIDE DEF f, Below, n
    <3>. QED
      BY <2>1 DEF Follows
  <2>3. CASE x \notin base
    <3>. DEFINE y == next[x]
                g == part(y)
                m == measure[y] + 1
    <3>1. y \in D /\ measure[y] < measure[x]
      BY <2>3
    <3>2. g \in Partial(m) /\ y \in Below(m) /\ whole[y] = g[y] /\ m \in Nat
      <4>. HIDE DEF Partial, part, whole, y, Below
      <4>. QED
        BY <1>3, <3>1
    <3>3. y \in Below(n)
      <4>1. measure[y] \in Nat /\ measure[x] \in Nat
        BY <3>1
      <4>. HIDE DEF y
      <4>. QED
        BY <3>1, <4>1
    <3>4. f[y] = g[y]
      <4>. HIDE DEF Partial, Below, f, g, n, m, y
      <4>. QED
        BY <1>2, <2>1, <3>2, <3>3
    <3>. HIDE DEF whole, f, g
    <3>. QED
      BY <2>1, <2>2, <2>3, <3>2, <3>4
  <2>. HIDE DEF f, whole
  <2>. QED
    BY <2>1, <2>2, <2>3
<1>6. Follows(whole, D, base, leaf, next, step)
  <2>. HIDE DEF whole
  <2>. QED
    BY <1>5 DEF Follows
<1>. QED
  BY <1>4, <1>6

---------------------------------------------------------------------------
(* The checksums *)

\* What a byte may be.
Octets == 0 .. Radix - 1

\* Products of naturals are naturals.
LEMMA ProductType == \A a, b \in Nat : a * b \in Nat
OBVIOUS

\* A byte, or the zero behind the last, is a natural.
LEMMA PaddedType ==
    ASSUME NEW bytes \in Seq(Octets), NEW k \in Nat
    PROVE  Padded(bytes, k) \in Octets /\ Padded(bytes, k) \in Nat
BY RadixAssumption DEF Padded, Octets

\* The word at place k, as SumOfWords takes it.
WordAt(bytes, k, odd, even) == Padded(bytes, k) * odd + Padded(bytes, k + 1) * even

\* Words are naturals.
LEMMA WordType ==
    ASSUME NEW bytes \in Seq(Octets), NEW odd \in Nat, NEW even \in Nat, NEW k \in Nat
    PROVE  WordAt(bytes, k, odd, even) \in Nat
<1>1. Padded(bytes, k) \in Nat /\ Padded(bytes, k + 1) \in Nat
  BY PaddedType
<1>2. Padded(bytes, k) * odd \in Nat /\ Padded(bytes, k + 1) * even \in Nat
  BY <1>1, ProductType
<1>. QED
  BY <1>2 DEF WordAt

\* One round of the loop in ipChecksum and checksum.
SumRound(bytes, odd, even, f, k) ==
    f[k] = IF k > Len(bytes) THEN 0 ELSE WordAt(bytes, k, odd, even) + f[k + 2]

\* SumOfWords is what its loop makes of it, round by round.
LEMMA SumEquation ==
    ASSUME NEW bytes \in Seq(Octets), NEW odd \in Nat, NEW even \in Nat
    PROVE  \E sum :
               /\ SumOfWords(bytes, odd, even) = sum[1]
               /\ \A k \in Nat : sum[k] \in Nat /\ SumRound(bytes, odd, even, sum, k)
<1>. DEFINE body(f) ==
                [k \in Nat |->
                    IF k > Len(bytes) THEN 0 ELSE WordAt(bytes, k, odd, even) + f[k + 2]]
            sum == CHOOSE f :
                f = [k \in Nat |->
                        IF k > Len(bytes) THEN 0
                        ELSE Padded(bytes, k) * odd + Padded(bytes, k + 1) * even + f[k + 2]]
            measure == [k \in Nat |-> IF k > Len(bytes) THEN 0 ELSE Len(bytes) - k + 1]
            base == {k \in Nat : k > Len(bytes)}
            leaf == [k \in Nat |-> 0]
            next == [k \in Nat |-> k + 2]
            step == [k \in Nat |-> [rest \in Nat |-> WordAt(bytes, k, odd, even) + rest]]
<1>1. Len(bytes) \in Nat
  OBVIOUS
<1>2. \A k \in Nat : WordAt(bytes, k, odd, even) \in Nat
  BY WordType
<1>3. ASSUME NEW k \in Nat
       PROVE  measure[k] \in Nat
  BY <1>1
<1>4. ASSUME NEW k \in Nat
       PROVE  leaf[k] \in Nat
  OBVIOUS
<1>5. ASSUME NEW k \in Nat, k \notin base
       PROVE  next[k] \in Nat /\ measure[next[k]] < measure[k]
  BY <1>1, <1>5
<1>6. ASSUME NEW k \in Nat, NEW v \in Nat
       PROVE  step[k][v] \in Nat
  <2>1. step[k][v] = WordAt(bytes, k, odd, even) + v
    BY <1>6, Zenon
  <2>2. WordAt(bytes, k, odd, even) \in Nat
    BY <1>2, <1>6
  <2>. HIDE DEF step
  <2>. QED
    BY <2>1, <2>2, <1>6
<1>7. \E f : f = body(f)
  <2>1. PICK f \in [Nat -> Nat] : Follows(f, Nat, base, leaf, next, step)
    <3>. HIDE DEF measure, base, leaf, next, step
    <3>1. Descends(Nat, Nat, measure, base, leaf, next, step)
      BY <1>3, <1>4, <1>5, <1>6 DEF Descends
    <3>. QED
      BY <3>1, Recursion
  <2>2. ASSUME NEW k \in Nat
        PROVE  f[k] = IF k > Len(bytes) THEN 0 ELSE WordAt(bytes, k, odd, even) + f[k + 2]
    <3>1. f[k] = IF k \in base THEN leaf[k] ELSE step[k][f[next[k]]]
      <4>. HIDE DEF base, leaf, next, step
      <4>. QED
        BY <2>1 DEF Follows
    <3>2. f[k + 2] \in Nat
      OBVIOUS
    <3>. QED
      BY <3>1, <3>2
  <2>3. f = body(f)
    <3>1. f = [k \in Nat |-> f[k]]
      OBVIOUS
    <3>. QED
      BY <2>2, <3>1, Zenon
  <2>. HIDE DEF body
  <2>. QED
    BY <2>3
<1>8. sum = body(sum)
  <2>1. \A f : body(f) =
            [k \in Nat |->
                IF k > Len(bytes) THEN 0
                ELSE Padded(bytes, k) * odd + Padded(bytes, k + 1) * even + f[k + 2]]
    BY DEF WordAt
  <2>2. sum = CHOOSE f : f = body(f)
    BY <2>1
  <2>. HIDE DEF body, sum
  <2>. QED
    BY <1>7, <2>2
<1>9. SumOfWords(bytes, odd, even) = sum[1]
  BY DEF SumOfWords
<1>. HIDE DEF sum
<1>10. ASSUME NEW k \in Nat
      PROVE  SumRound(bytes, odd, even, sum, k)
  <2>1. sum[k] = body(sum)[k]
    <3>. HIDE DEF body
    <3>. QED
      BY <1>8
  <2>. QED
    BY <2>1 DEF SumRound
<1>11. ASSUME NEW k \in Nat, sum[k] \notin Nat
      PROVE  FALSE
  <2>. DEFINE Wrong == {x \in Nat : sum[x] \notin Nat}
  <2>1. PICK x \in Wrong : \A y \in Nat : measure[y] < measure[x] => y \notin Wrong
    <3>1. Wrong \subseteq Nat /\ Wrong # {}
      BY <1>11
    <3>. HIDE DEF Wrong, measure
    <3>. QED
      BY <3>1, <1>3, LeastWrong
  <2>2. x \in Nat /\ SumRound(bytes, odd, even, sum, x) /\ x + 2 \in Nat /\ sum[x] \notin Nat
    BY <1>10
  <2>3. WordAt(bytes, x, odd, even) \in Nat
    BY <1>2, <2>2
  <2>4. x <= Len(bytes) /\ sum[x + 2] \notin Nat
    BY <2>2, <2>3, <1>1 DEF SumRound
  <2>5. measure[x + 2] < measure[x]
    BY <2>2, <2>4, <1>1
  <2>. HIDE DEF measure
  <2>. QED
    BY <2>1, <2>2, <2>4, <2>5
<1>. QED
  BY <1>9, <1>10, <1>11

\* 16-bit words: there are as many as all ones and one more.
LEMMA WordSize ==
    /\ Word \in Nat /\ Word >= 4
    /\ AllOnes \in Nat /\ AllOnes >= 3
    /\ Word = AllOnes + 1
<1>1. \A r \in Nat : r >= 2 => r * r >= 4 /\ r * r \in Nat
  OBVIOUS
<1>. QED
  BY <1>1, RadixAssumption DEF Word, AllOnes

\* Quotient and remainder.
LEMMA Division ==
    ASSUME NEW a \in Nat, NEW b \in Nat, b > 0
    PROVE  /\ a \div b \in Nat /\ a % b \in 0 .. b - 1
           /\ a = b * (a \div b) + (a % b)
OBVIOUS

\* Equal but for carries.
Same(a, b) == \E q \in Int : a = b + q * AllOnes

\* Equality but for carries is an equivalence relation.
LEMMA SameSelf ==
    ASSUME NEW a \in Int
    PROVE  Same(a, a)
<1>1. a = a + 0 * AllOnes
  BY WordSize
<1>. QED
  BY <1>1 DEF Same

\* It may be turned round.
LEMMA SameBack ==
    ASSUME NEW a \in Int, NEW b \in Int, Same(a, b)
    PROVE  Same(b, a)
<1>1. PICK q \in Int : a = b + q * AllOnes
  BY DEF Same
<1>2. b = a + (-q) * AllOnes /\ -q \in Int
  BY <1>1, WordSize
<1>. QED
  BY <1>2 DEF Same

\* It goes from one to the next.
LEMMA SameChain ==
    ASSUME NEW a \in Int, NEW b \in Int, NEW c \in Int, Same(a, b), Same(b, c)
    PROVE  Same(a, c)
<1>1. PICK q \in Int : a = b + q * AllOnes
  BY DEF Same
<1>2. PICK r \in Int : b = c + r * AllOnes
  BY DEF Same
<1>3. a = c + (q + r) * AllOnes /\ q + r \in Int
  BY <1>1, <1>2, WordSize
<1>. QED
  BY <1>3 DEF Same

\* that sums and products respect.
LEMMA SameSum ==
    ASSUME NEW a \in Int, NEW b \in Int, NEW c \in Int, NEW d \in Int, Same(a, b), Same(c, d),
           NEW left, NEW right, left = a + c, right = b + d
    PROVE  Same(left, right)
<1>1. PICK q \in Int : a = b + q * AllOnes
  BY DEF Same
<1>2. PICK r \in Int : c = d + r * AllOnes
  BY DEF Same
<1>3. a + c = (b + d) + (q + r) * AllOnes /\ q + r \in Int
  BY <1>1, <1>2, WordSize
<1>. QED
  BY <1>3 DEF Same

\* It survives multiplication.
LEMMA SameProduct ==
    ASSUME NEW a \in Int, NEW b \in Int, NEW k \in Int, Same(a, b),
           NEW left, NEW right, left = k * a, right = k * b
    PROVE  Same(left, right)
<1>1. PICK q \in Int : a = b + q * AllOnes
  BY DEF Same
<1>2. k * a = k * b + (k * q) * AllOnes /\ k * q \in Int
  BY <1>1, WordSize
<1>. QED
  BY <1>2 DEF Same

\* All ones are a second zero.
LEMMA SameZero == Same(AllOnes, 0)
<1>1. AllOnes = 0 + 1 * AllOnes
  BY WordSize
<1>. QED
  BY <1>1 DEF Same

\* The carries of a sum, added once.
Folds(rest) == (rest % Word) + (rest \div Word)

\* Adding the carries makes a sum smaller, not zero, and changes it by carries only.
LEMMA FoldsLess ==
    ASSUME NEW rest \in Nat, rest >= Word
    PROVE  /\ Folds(rest) \in Nat /\ Folds(rest) < rest /\ Folds(rest) > 0
           /\ Same(rest, Folds(rest))
<1>. DEFINE q == rest \div Word
            r == rest % Word
<1>1. q \in Nat /\ r \in Nat /\ r < Word /\ rest = Word * q + r
  BY Division, WordSize
<1>. HIDE DEF q, r
<1>2. q > 0
  BY <1>1, WordSize
<1>3. Word * q = q + q * AllOnes /\ q * AllOnes >= 3 * q
  <2>1. \A a, b \in Nat : a >= 3 => (a + 1) * b = b + b * a /\ b * a >= 3 * b
    OBVIOUS
  <2>. QED
    BY <1>1, <2>1, WordSize
<1>4. rest = (q + r) + q * AllOnes /\ q * AllOnes \in Nat
  BY <1>1, <1>3, WordSize, ProductType
<1>5. Same(rest, q + r)
  BY <1>1, <1>4 DEF Same
<1>6. Folds(rest) = q + r
  BY <1>1 DEF Folds, q, r
<1>. QED
  BY <1>1, <1>2, <1>3, <1>4, <1>5, <1>6

\* One round of the loop that adds the carries.
FoldRound(f, rest) == f[rest] = IF rest < Word THEN rest ELSE f[Folds(rest)]

\* Folded is what its loop makes of it: it comes to an end, whatever the sum.
LEMMA FoldEquation ==
    ASSUME NEW sum \in Nat
    PROVE  \E fold : Folded(sum) = fold[sum] /\ \A rest \in Nat : FoldRound(fold, rest)
<1>. DEFINE body(f) ==
                [rest \in Nat |->
                    IF rest < Word THEN rest ELSE f[(rest % Word) + (rest \div Word)]]
            fold == CHOOSE f : f = body(f)
            measure == [rest \in Nat |-> rest]
            base == {rest \in Nat : rest < Word}
            next == [rest \in Nat |-> Folds(rest)]
            step == [rest \in Nat |-> [v \in Nat |-> v]]
<1>1. ASSUME NEW rest \in Nat
      PROVE  /\ measure[rest] \in Nat
             /\ rest \notin base => next[rest] \in Nat /\ measure[next[rest]] < measure[rest]
             /\ \A v \in Nat : step[rest][v] = v
  <2>1. ASSUME rest \notin base
        PROVE  next[rest] \in Nat /\ measure[next[rest]] < measure[rest]
    <3>1. rest >= Word
      BY <2>1, WordSize
    <3>. QED
      BY <3>1, FoldsLess
  <2>. QED
    BY <2>1
<1>2. \E f : f = body(f)
  <2>1. PICK f \in [Nat -> Nat] : Follows(f, Nat, base, measure, next, step)
    <3>. HIDE DEF measure, base, next, step
    <3>1. Descends(Nat, Nat, measure, base, measure, next, step)
      BY <1>1 DEF Descends
    <3>. QED
      BY <3>1, Recursion
  <2>2. ASSUME NEW rest \in Nat
        PROVE  f[rest] = IF rest < Word THEN rest ELSE f[(rest % Word) + (rest \div Word)]
    <3>1. f[rest] = IF rest \in base THEN measure[rest] ELSE step[rest][f[next[rest]]]
      <4>. HIDE DEF measure, base, next, step
      <4>. QED
        BY <2>1 DEF Follows
    <3>2. CASE rest >= Word
      <4>1. Folds(rest) \in Nat /\ next[rest] = Folds(rest) /\ rest \notin base
        BY <3>2, FoldsLess, WordSize
      <4>2. f[rest] = f[Folds(rest)]
        <5>. HIDE DEF base, next, step
        <5>. QED
          BY <1>1, <3>1, <4>1
      <4>. QED
        BY <3>2, <4>2, WordSize DEF Folds
    <3>3. CASE rest < Word
      <4>1. rest \in base /\ measure[rest] = rest
        BY <3>3
      <4>. HIDE DEF base, measure, next, step
      <4>. QED
        BY <3>1, <3>3, <4>1
    <3>. QED
      BY <3>2, <3>3, WordSize
  <2>3. f = body(f)
    <3>1. f = [rest \in Nat |-> f[rest]]
      OBVIOUS
    <3>. QED
      BY <2>2, <3>1, Zenon
  <2>. HIDE DEF body
  <2>. QED
    BY <2>3
<1>3. fold = body(fold)
  <2>. HIDE DEF body
  <2>. QED
    BY <1>2
<1>4. Folded(sum) = fold[sum]
  BY DEF Folded
<1>. HIDE DEF fold
<1>5. ASSUME NEW rest \in Nat
      PROVE  FoldRound(fold, rest)
  <2>1. fold[rest] = body(fold)[rest]
    <3>. HIDE DEF body
    <3>. QED
      BY <1>3
  <2>2. body(fold)[rest] = IF rest < Word THEN rest ELSE fold[(rest % Word) + (rest \div Word)]
    OBVIOUS
  <2>. HIDE DEF body
  <2>. QED
    BY <2>1, <2>2 DEF FoldRound, Folds
<1>. QED
  BY <1>4, <1>5

\* Folded gives one word, the same as the sum but for carries, and 0 for 0 only.
LEMMA FoldedIs ==
    ASSUME NEW sum \in Nat
    PROVE  /\ Folded(sum) \in 0 .. AllOnes
           /\ Same(sum, Folded(sum))
           /\ sum > 0 => Folded(sum) > 0
           /\ sum = 0 => Folded(sum) = 0
<1>. DEFINE Right(f, rest) == /\ f[rest] \in 0 .. AllOnes
                              /\ Same(rest, f[rest])
                              /\ rest > 0 => f[rest] > 0
                              /\ rest = 0 => f[rest] = 0
<1>1. PICK fold : Folded(sum) = fold[sum] /\ \A rest \in Nat : FoldRound(fold, rest)
  BY FoldEquation
<1>. DEFINE Wrong == {rest \in Nat : ~Right(fold, rest)}
<1>2. ASSUME Wrong # {}
      PROVE  FALSE
  <2>1. PICK rest \in Wrong : \A less \in Wrong : rest <= less
    <3>1. Wrong \subseteq Nat
      OBVIOUS
    <3>. HIDE DEF Wrong
    <3>. QED
      BY <1>2, <3>1, LeastNatural
  <2>2. rest \in Nat /\ FoldRound(fold, rest)
    BY <1>1
  <2>3. CASE rest < Word
    <3>1. fold[rest] = rest
      BY <2>2, <2>3 DEF FoldRound
    <3>2. Right(fold, rest)
      BY <2>2, <2>3, <3>1, WordSize, SameSelf
    <3>. QED
      BY <3>2
  <2>4. CASE rest >= Word
    <3>1. fold[rest] = fold[Folds(rest)]
      BY <2>2, <2>4, WordSize DEF FoldRound
    <3>2. /\ Folds(rest) \in Nat /\ Folds(rest) < rest /\ Folds(rest) > 0
          /\ Same(rest, Folds(rest))
      BY <2>2, <2>4, FoldsLess
    <3>3. Folds(rest) \notin Wrong
      <4>. HIDE DEF Wrong
      <4>. QED
        BY <2>1, <2>2, <3>2
    <3>4. Right(fold, Folds(rest))
      BY <3>2, <3>3
    <3>5. Same(rest, fold[rest])
      <4>1. fold[rest] \in Int /\ rest \in Int /\ Folds(rest) \in Int
        BY <3>1, <3>2, <3>4, WordSize
      <4>2. Same(Folds(rest), fold[rest])
        BY <3>1, <3>4
      <4>. QED
        BY <3>2, <4>1, <4>2, SameChain
    <3>6. Right(fold, rest)
      BY <2>2, <3>1, <3>2, <3>4, <3>5
    <3>. QED
      BY <3>6
  <2>. QED
    BY <2>2, <2>3, <2>4, WordSize
<1>3. Right(fold, sum)
  BY <1>2
<1>. QED
  BY <1>1, <1>3

\* A sum of two words, its carry added.
Carried(sum) == IF sum < Word THEN sum ELSE sum - Word + 1

\* Two words and their carry make a word, the same but for carries.
LEMMA CarriedIs ==
    ASSUME NEW a \in 0 .. AllOnes, NEW b \in 0 .. AllOnes
    PROVE  /\ Carried(a + b) \in 0 .. AllOnes
           /\ Same(a + b, Carried(a + b))
           /\ a + b > 0 => Carried(a + b) > 0
<1>1. CASE a + b < Word
  BY <1>1, WordSize, SameSelf DEF Carried
<1>2. CASE a + b >= Word
  <2>1. Carried(a + b) = a + b - Word + 1
    BY <1>2, WordSize DEF Carried
  <2>2. a + b = Carried(a + b) + 1 * AllOnes
    BY <2>1, WordSize
  <2>3. Same(a + b, Carried(a + b))
    BY <2>2 DEF Same
  <2>. QED
    BY <1>2, <2>1, <2>3, WordSize
<1>. QED
  BY <1>1, <1>2, WordSize

\* One round of the receiver.
AddRound(bytes, check, f, k) ==
    f[k] = IF k > Len(bytes) THEN check[1] * Radix + check[2]
           ELSE Carried(f[k + 2] + WordAt(bytes, k, Radix, 1))

\* A word of two bytes is one.
LEMMA WordAtMost ==
    ASSUME NEW bytes \in Seq(Octets), NEW k \in Nat
    PROVE  WordAt(bytes, k, Radix, 1) \in 0 .. AllOnes
<1>1. \A h, l, R \in Nat : h <= R - 1 /\ l <= R - 1 => h * R + l <= R * R - 1
  <2>. SUFFICES ASSUME NEW h \in Nat, NEW l \in Nat, NEW R \in Nat, h <= R - 1, l <= R - 1
               PROVE  h * R + l <= R * R - 1
    OBVIOUS
  <2>1. (R - 1 - h) * R >= 0
    OBVIOUS
  <2>2. (R - 1 - h) * R = R * R - R - h * R
    OBVIOUS
  <2>. QED
    BY <2>1, <2>2
<1>2. Padded(bytes, k) \in 0 .. Radix - 1 /\ Padded(bytes, k + 1) \in 0 .. Radix - 1
  BY PaddedType DEF Octets
<1>3. WordAt(bytes, k, Radix, 1) = Padded(bytes, k) * Radix + Padded(bytes, k + 1)
  BY <1>2, RadixAssumption DEF WordAt
<1>4. WordAt(bytes, k, Radix, 1) \in Nat
  BY WordType, RadixAssumption
<1>. QED
  BY <1>1, <1>2, <1>3, <1>4, RadixAssumption DEF AllOnes, Word

\* Accepts is what the receiver's loop makes of it.
LEMMA AddEquation ==
    ASSUME NEW bytes \in Seq(Octets), NEW check, check[1] * Radix + check[2] \in 0 .. AllOnes
    PROVE  \E add : /\ Accepts(bytes, check) <=> add[1] = AllOnes
                    /\ \A k \in Nat : AddRound(bytes, check, add, k)
<1>. DEFINE carry == [sum \in Nat |-> IF sum < Word THEN sum ELSE sum - Word + 1]
            body(f) == [k \in Nat |->
                           IF k > Len(bytes) THEN check[1] * Radix + check[2]
                           ELSE carry[f[k + 2] + Padded(bytes, k) * Radix + Padded(bytes, k + 1)]]
            add == CHOOSE f : f = body(f)
            V == 0 .. AllOnes
            measure == [k \in Nat |-> IF k > Len(bytes) THEN 0 ELSE Len(bytes) - k + 1]
            base == {k \in Nat : k > Len(bytes)}
            leaf == [k \in Nat |-> check[1] * Radix + check[2]]
            next == [k \in Nat |-> k + 2]
            step == [k \in Nat |-> [v \in V |-> Carried(v + WordAt(bytes, k, Radix, 1))]]
<1>0. Len(bytes) \in Nat
  OBVIOUS
<1>1. ASSUME NEW v \in V, NEW k \in Nat
      PROVE  /\ Carried(v + WordAt(bytes, k, Radix, 1)) \in V
             /\ carry[v + Padded(bytes, k) * Radix + Padded(bytes, k + 1)]
                  = Carried(v + WordAt(bytes, k, Radix, 1))
  <2>1. WordAt(bytes, k, Radix, 1) \in 0 .. AllOnes
    BY WordAtMost
  <2>2. /\ Padded(bytes, k) \in Nat /\ Padded(bytes, k + 1) \in Nat
        /\ Padded(bytes, k) * Radix \in Nat
    <3>1. k + 1 \in Nat
      OBVIOUS
    <3>2. Padded(bytes, k) \in Nat /\ Padded(bytes, k + 1) \in Nat
      BY <3>1, PaddedType
    <3>. QED
      BY <3>2, ProductType, RadixAssumption
  <2>3. WordAt(bytes, k, Radix, 1) = Padded(bytes, k) * Radix + Padded(bytes, k + 1)
    BY <2>2, RadixAssumption DEF WordAt
  <2>4. v + Padded(bytes, k) * Radix + Padded(bytes, k + 1) = v + WordAt(bytes, k, Radix, 1)
    BY <2>2, <2>3, WordSize
  <2>5. v + WordAt(bytes, k, Radix, 1) \in Nat
    BY <2>1, WordSize
  <2>6. carry[v + WordAt(bytes, k, Radix, 1)] = Carried(v + WordAt(bytes, k, Radix, 1))
    BY <2>5 DEF Carried
  <2>7. Carried(v + WordAt(bytes, k, Radix, 1)) \in V
    BY <2>1, CarriedIs
  <2>. QED
    BY <2>4, <2>6, <2>7
<1>2. ASSUME NEW k \in Nat
      PROVE  /\ measure[k] \in Nat /\ leaf[k] \in V
             /\ k \notin base => next[k] \in Nat /\ measure[next[k]] < measure[k]
  BY <1>0
<1>3. ASSUME NEW k \in Nat, NEW v \in V
      PROVE  step[k][v] \in V /\ step[k][v] = Carried(v + WordAt(bytes, k, Radix, 1))
  <2>1. step[k][v] = Carried(v + WordAt(bytes, k, Radix, 1))
    BY <1>3, Zenon
  <2>. HIDE DEF step
  <2>. QED
    BY <2>1, <1>1
<1>4. \E f : f = body(f)
  <2>0. V # {}
    BY WordSize
  <2>1. PICK f \in [Nat -> V] : Follows(f, Nat, base, leaf, next, step)
    <3>. HIDE DEF measure, base, leaf, next, step, V
    <3>1. Descends(Nat, V, measure, base, leaf, next, step)
      BY <1>2, <1>3, <2>0 DEF Descends
    <3>. QED
      BY <3>1, Recursion
  <2>2. ASSUME NEW k \in Nat
        PROVE  f[k] = IF k > Len(bytes) THEN check[1] * Radix + check[2]
                      ELSE carry[f[k + 2] + Padded(bytes, k) * Radix + Padded(bytes, k + 1)]
    <3>1. f[k] = IF k \in base THEN leaf[k] ELSE step[k][f[next[k]]]
      <4>. HIDE DEF base, leaf, next, step
      <4>. QED
        BY <2>1 DEF Follows
    <3>2. k + 2 \in Nat /\ next[k] = k + 2 /\ f[k + 2] \in V
      <4>. HIDE DEF V
      <4>. QED
        OBVIOUS
    <3>3. step[k][f[k + 2]] = carry[f[k + 2] + Padded(bytes, k) * Radix + Padded(bytes, k + 1)]
      <4>. HIDE DEF V, step, carry
      <4>. QED
        BY <3>2, <1>1, <1>3
    <3>4. k \in base <=> k > Len(bytes)
      OBVIOUS
    <3>5. leaf[k] = check[1] * Radix + check[2]
      OBVIOUS
    <3>. HIDE DEF V, step, carry, base, next, leaf
    <3>. QED
      BY <3>1, <3>2, <3>3, <3>4, <3>5
  <2>3. f = body(f)
    <3>1. f = [k \in Nat |-> f[k]]
      OBVIOUS
    <3>. HIDE DEF carry
    <3>. QED
      BY <2>2, <3>1, Zenon
  <2>. HIDE DEF body
  <2>. QED
    BY <2>3
<1>5. add = body(add)
  <2>. HIDE DEF body
  <2>. QED
    BY <1>4
<1>6. Accepts(bytes, check) <=> add[1] = AllOnes
  BY DEF Accepts
<1>. HIDE DEF add
<1>7. ASSUME NEW k \in Nat
      PROVE  add[k] = IF k > Len(bytes) THEN check[1] * Radix + check[2]
                      ELSE carry[add[k + 2] + Padded(bytes, k) * Radix + Padded(bytes, k + 1)]
  <2>1. add[k] = body(add)[k]
    <3>. HIDE DEF body
    <3>. QED
      BY <1>5
  <2>. HIDE DEF carry
  <2>. QED
    BY <2>1
<1>. HIDE DEF carry, V
<1>8. ASSUME NEW k \in Nat, add[k] \notin V
      PROVE  FALSE
  <2>. DEFINE Wrong == {x \in Nat : add[x] \notin V}
  <2>1. PICK x \in Wrong : \A y \in Nat : measure[y] < measure[x] => y \notin Wrong
    <3>1. Wrong \subseteq Nat /\ Wrong # {}
      BY <1>8
    <3>. HIDE DEF Wrong, measure
    <3>. QED
      BY <3>1, <1>2, LeastWrong
  <2>2. x \in Nat /\ add[x] \notin V
    OBVIOUS
  <2>3. x <= Len(bytes)
    <3>1. leaf[x] \in V
      <4>. HIDE DEF leaf, measure, base, next
      <4>. QED
        BY <2>2, <1>2
    <3>. QED
      BY <1>7, <2>2, <1>0, <3>1
  <2>4. x + 2 \in Nat /\ measure[x + 2] < measure[x]
    BY <2>2, <2>3, <1>0
  <2>5. add[x + 2] \in V
    <3>. HIDE DEF measure
    <3>. QED
      BY <2>1, <2>4
  <2>6. carry[add[x + 2] + Padded(bytes, x) * Radix + Padded(bytes, x + 1)] \in V
    BY <2>2, <2>5, <1>1
  <2>. QED
    BY <1>0, <1>7, <2>2, <2>3, <2>6
<1>9. ASSUME NEW k \in Nat
      PROVE  AddRound(bytes, check, add, k)
  <2>1. k + 2 \in Nat
    OBVIOUS
  <2>2. add[k + 2] \in V
    BY <1>8, <2>1
  <2>3. carry[add[k + 2] + Padded(bytes, k) * Radix + Padded(bytes, k + 1)]
           = Carried(add[k + 2] + WordAt(bytes, k, Radix, 1))
    BY <2>2, <1>1
  <2>. QED
    BY <1>7, <2>3 DEF AddRound
<1>. QED
  BY <1>6, <1>9

\* How much of the packet is behind place k.
Behind(bytes) == [k \in Nat |-> IF k > Len(bytes) THEN 0 ELSE Len(bytes) - k + 1]

\* Read low byte first, a word is the word high byte first, times Radix but for
\* carries: this is why the sum may be taken in either order.
LEMMA WordsSame ==
    ASSUME NEW bytes \in Seq(Octets), NEW k \in Nat
    PROVE  /\ Same(Radix * WordAt(bytes, k, 1, Radix), WordAt(bytes, k, Radix, 1))
           /\ WordAt(bytes, k, 1, Radix) > 0 => WordAt(bytes, k, Radix, 1) > 0
<1>. DEFINE h == Padded(bytes, k)
            l == Padded(bytes, k + 1)
<1>1. h \in Nat /\ l \in Nat /\ Radix \in Nat /\ Radix >= 2
  BY PaddedType, RadixAssumption
<1>2. /\ WordAt(bytes, k, 1, Radix) = h + l * Radix
      /\ WordAt(bytes, k, Radix, 1) = h * Radix + l
  BY <1>1 DEF WordAt
<1>. HIDE DEF h, l
<1>3. Radix * (h + l * Radix) = (h * Radix + l) + l * AllOnes
  BY <1>1 DEF AllOnes, Word
<1>4. h + l * Radix > 0 => h * Radix + l > 0
  <2>1. CASE h > 0
    <3>1. h * Radix >= 1
      BY <1>1, <2>1
    <3>. QED
      BY <1>1, <3>1
  <2>2. CASE h = 0 /\ l > 0
    BY <1>1, <2>2
  <2>3. CASE h = 0 /\ l = 0
    BY <1>1, <2>3
  <2>. QED
    BY <1>1, <2>1, <2>2, <2>3
<1>. QED
  BY <1>1, <1>2, <1>3, <1>4 DEF Same

\* So are the sums.
LEMMA SumsAgree ==
    ASSUME NEW bytes \in Seq(Octets),
           NEW net, \A k \in Nat : net[k] \in Nat /\ SumRound(bytes, Radix, 1, net, k),
           NEW host, \A k \in Nat : host[k] \in Nat /\ SumRound(bytes, 1, Radix, host, k),
           NEW k \in Nat
    PROVE  Same(Radix * host[k], net[k]) /\ (host[k] > 0 => net[k] > 0)
<1>. DEFINE Right(x) == Same(Radix * host[x], net[x]) /\ (host[x] > 0 => net[x] > 0)
            Wrong == {x \in Nat : ~Right(x)}
<1>1. ASSUME Wrong # {}
      PROVE  FALSE
  <2>1. \A x \in Nat : Behind(bytes)[x] \in Nat
    BY DEF Behind
  <2>2. PICK x \in Wrong : \A y \in Nat : Behind(bytes)[y] < Behind(bytes)[x] => y \notin Wrong
    <3>1. Wrong \subseteq Nat
      OBVIOUS
    <3>. HIDE DEF Wrong
    <3>. QED
      BY <1>1, <2>1, <3>1, LeastWrong
  <2>3. /\ x \in Nat /\ x + 2 \in Nat /\ net[x] \in Nat /\ host[x] \in Nat
        /\ net[x + 2] \in Nat /\ host[x + 2] \in Nat
        /\ SumRound(bytes, Radix, 1, net, x) /\ SumRound(bytes, 1, Radix, host, x)
    <3>1. x \in Nat /\ x + 2 \in Nat
      OBVIOUS
    <3>. HIDE DEF Wrong
    <3>. QED
      BY <3>1
  <2>4. CASE x > Len(bytes)
    <3>1. net[x] = 0 /\ host[x] = 0
      BY <2>3, <2>4 DEF SumRound
    <3>2. Radix * 0 = 0
      BY RadixAssumption
    <3>3. Right(x)
      BY <3>1, <3>2, SameSelf
    <3>. QED
      BY <3>3
  <2>5. CASE x <= Len(bytes)
    <3>1. Behind(bytes)[x + 2] < Behind(bytes)[x]
      BY <2>3, <2>5 DEF Behind
    <3>2. Right(x + 2)
      BY <2>2, <2>3, <3>1
    <3>. DEFINE a == WordAt(bytes, x, Radix, 1)
                b == WordAt(bytes, x, 1, Radix)
    <3>3. a \in Nat /\ b \in Nat /\ Same(Radix * b, a) /\ (b > 0 => a > 0)
      BY <2>3, WordType, WordsSame, RadixAssumption
    <3>4. net[x] = a + net[x + 2] /\ host[x] = b + host[x + 2]
      BY <2>3, <2>5 DEF SumRound
    <3>. HIDE DEF a, b
    <3>5. Radix * host[x] = Radix * b + Radix * host[x + 2]
      BY <2>3, <3>3, <3>4, RadixAssumption
    <3>6. Same(Radix * b + Radix * host[x + 2], a + net[x + 2])
      <4>. DEFINE p == Radix * b
                  q == Radix * host[x + 2]
      <4>1. p \in Int /\ q \in Int
        BY <2>3, <3>3, RadixAssumption
      <4>2. Same(p, a) /\ Same(q, net[x + 2])
        BY <3>2, <3>3
      <4>. HIDE DEF p, q
      <4>3. a \in Int /\ net[x + 2] \in Int
        BY <2>3, <3>3
      <4>4. Same(p + q, a + net[x + 2])
        BY <4>1, <4>2, <4>3, SameSum
      <4>. QED
        BY <4>4 DEF p, q
    <3>7. Right(x)
      BY <2>3, <3>2, <3>3, <3>4, <3>5, <3>6
    <3>. QED
      BY <3>7
  <2>. QED
    BY <2>3, <2>4, <2>5
<1>. QED
  BY <1>1

\* The receiver's sum is that of the words and the checksum, but for carries.
LEMMA AddIs ==
    ASSUME NEW bytes \in Seq(Octets), NEW check,
           NEW c \in 0 .. AllOnes, c = check[1] * Radix + check[2],
           NEW net, \A k \in Nat : net[k] \in Nat /\ SumRound(bytes, Radix, 1, net, k),
           NEW add, \A k \in Nat : AddRound(bytes, check, add, k),
           NEW k \in Nat
    PROVE  /\ add[k] \in 0 .. AllOnes
           /\ Same(c + net[k], add[k])
           /\ c + net[k] > 0 => add[k] > 0
<1>. DEFINE Right(x) == /\ add[x] \in 0 .. AllOnes
                        /\ Same(c + net[x], add[x])
                        /\ c + net[x] > 0 => add[x] > 0
            Wrong == {x \in Nat : ~Right(x)}
<1>1. ASSUME Wrong # {}
      PROVE  FALSE
  <2>1. \A x \in Nat : Behind(bytes)[x] \in Nat
    BY DEF Behind
  <2>2. PICK x \in Wrong : \A y \in Nat : Behind(bytes)[y] < Behind(bytes)[x] => y \notin Wrong
    <3>1. Wrong \subseteq Nat
      OBVIOUS
    <3>. HIDE DEF Wrong
    <3>. QED
      BY <1>1, <2>1, <3>1, LeastWrong
  <2>3. /\ x \in Nat /\ x + 2 \in Nat /\ net[x] \in Nat /\ net[x + 2] \in Nat
        /\ SumRound(bytes, Radix, 1, net, x) /\ AddRound(bytes, check, add, x)
    <3>1. x \in Nat /\ x + 2 \in Nat
      OBVIOUS
    <3>. HIDE DEF Wrong
    <3>. QED
      BY <3>1
  <2>4. CASE x > Len(bytes)
    <3>1. net[x] = 0 /\ add[x] = c
      BY <2>3, <2>4 DEF SumRound, AddRound
    <3>2. c + 0 = c /\ c \in Int
      BY WordSize
    <3>3. Right(x)
      BY <3>1, <3>2, SameSelf
    <3>. QED
      BY <3>3
  <2>5. CASE x <= Len(bytes)
    <3>1. Behind(bytes)[x + 2] < Behind(bytes)[x]
      BY <2>3, <2>5 DEF Behind
    <3>2. Right(x + 2)
      BY <2>2, <2>3, <3>1
    <3>. DEFINE a == WordAt(bytes, x, Radix, 1)
                s == add[x + 2]
    <3>3. a \in 0 .. AllOnes /\ a \in Nat /\ s \in 0 .. AllOnes /\ s \in Nat /\ c \in Nat
      BY <2>3, <3>2, WordAtMost, WordSize
    <3>4. net[x] = a + net[x + 2] /\ add[x] = Carried(s + a)
      BY <2>3, <2>5 DEF SumRound, AddRound
    <3>5. Same(c + net[x + 2], s) /\ (c + net[x + 2] > 0 => s > 0)
      BY <3>2
    <3>. HIDE DEF a, s
    <3>6. add[x] \in 0 .. AllOnes /\ Same(s + a, add[x]) /\ (s + a > 0 => add[x] > 0)
      BY <3>3, <3>4, CarriedIs
    <3>7. Same(c + net[x], add[x])
      <4>1. Same((c + net[x + 2]) + a, s + a)
        <5>1. Same(a, a) /\ a \in Int /\ s \in Int /\ c + net[x + 2] \in Int
          BY <2>3, <3>3, SameSelf
        <5>. QED
          BY <3>5, <5>1, SameSum
      <4>2. (c + net[x + 2]) + a = c + net[x]
        BY <2>3, <3>3, <3>4
      <4>3. c + net[x] \in Int /\ s + a \in Int /\ add[x] \in Int
        BY <2>3, <3>3, <3>6, WordSize
      <4>. QED
        BY <3>6, <4>1, <4>2, <4>3, SameChain
    <3>8. c + net[x] > 0 => add[x] > 0
      BY <2>3, <3>3, <3>4, <3>5, <3>6
    <3>9. Right(x)
      BY <3>6, <3>7, <3>8
    <3>. QED
      BY <3>9
  <2>. QED
    BY <2>3, <2>4, <2>5
<1>. QED
  BY <1>1

\* A receiver accepts a checksum that makes up the sum to a multiple of all ones.
LEMMA Accepted ==
    ASSUME NEW bytes \in Seq(Octets), NEW check,
           NEW c \in 0 .. AllOnes, c = check[1] * Radix + check[2],
           NEW net, \A k \in Nat : net[k] \in Nat /\ SumRound(bytes, Radix, 1, net, k),
           Same(c + net[1], 0), c + net[1] > 0
    PROVE  Accepts(bytes, check)
<1>1. PICK add : /\ Accepts(bytes, check) <=> add[1] = AllOnes
                 /\ \A k \in Nat : AddRound(bytes, check, add, k)
  BY AddEquation
<1>2. add[1] \in 0 .. AllOnes /\ Same(c + net[1], add[1]) /\ add[1] > 0
  <2>1. 1 \in Nat
    OBVIOUS
  <2>. QED
    BY <1>1, <2>1, AddIs
<1>3. Same(add[1], 0)
  <2>1. c + net[1] \in Int /\ add[1] \in Int /\ 0 \in Int
    <3>1. net[1] \in Nat
      OBVIOUS
    <3>. QED
      BY <1>2, <3>1, WordSize
  <2>. QED
    BY <1>2, <2>1, SameBack, SameChain
<1>4. PICK q \in Int : add[1] = q * AllOnes
  BY <1>3, WordSize DEF Same
<1>5. q = 1
  <2>1. \A m, n \in Int : m > 0 /\ n * m > 0 /\ n * m <= m => n = 1
    <3>. SUFFICES ASSUME NEW m \in Int, NEW n \in Int, m > 0, n * m > 0, n * m <= m PROVE n = 1
      OBVIOUS
    <3>1. CASE n <= 0
      <4>1. n * m <= 0
        BY <3>1
      <4>. QED
        BY <4>1
    <3>2. CASE n >= 2
      <4>1. (n - 2) * m >= 0
        BY <3>2
      <4>2. (n - 2) * m = n * m - 2 * m
        OBVIOUS
      <4>. QED
        BY <4>1, <4>2
    <3>. QED
      BY <3>1, <3>2
  <2>. QED
    BY <1>2, <1>4, <2>1, WordSize
<1>. QED
  BY <1>1, <1>4, <1>5, WordSize

\* For packets of any length, a receiver accepts what either checksum of the stack
\* puts into its field.
THEOREM ChecksumsAccepted ==
    \A bytes \in Seq(Octets) :
        Accepts(bytes, ipChecksum(bytes)) /\ Accepts(bytes, checksum(bytes))
<1>. SUFFICES ASSUME NEW bytes \in Seq(Octets)
              PROVE  Accepts(bytes, ipChecksum(bytes)) /\ Accepts(bytes, checksum(bytes))
  OBVIOUS
<1>0. Radix \in Nat /\ Radix >= 2 /\ 1 \in Nat
  BY RadixAssumption
<1>1. PICK net : /\ SumOfWords(bytes, Radix, 1) = net[1]
                 /\ \A k \in Nat : net[k] \in Nat /\ SumRound(bytes, Radix, 1, net, k)
  BY <1>0, SumEquation
<1>2. PICK host : /\ SumOfWords(bytes, 1, Radix) = host[1]
                  /\ \A k \in Nat : host[k] \in Nat /\ SumRound(bytes, 1, Radix, host, k)
  BY <1>0, SumEquation
<1>3. net[1] \in Nat /\ host[1] \in Nat
  BY <1>0, <1>1, <1>2
<1>4. ASSUME NEW sum \in Nat, NEW v, v = AllOnes - Folded(sum)
      PROVE  /\ v \in 0 .. AllOnes /\ v \in Nat
             /\ v \div Radix \in Nat /\ v % Radix \in Nat
             /\ v = Radix * (v \div Radix) + (v % Radix) /\ (v % Radix) < Radix
             /\ Same(v + sum, 0)
             /\ v = 0 => sum > 0
  <2>1. /\ Folded(sum) \in 0 .. AllOnes /\ Same(sum, Folded(sum))
        /\ sum = 0 => Folded(sum) = 0
    BY FoldedIs
  <2>2. v \in 0 .. AllOnes /\ v \in Nat
    BY <1>4, <2>1, WordSize
  <2>3. /\ v \div Radix \in Nat /\ v % Radix \in Nat
        /\ v = Radix * (v \div Radix) + (v % Radix) /\ (v % Radix) < Radix
    BY <1>0, <2>2, Division
  <2>4. Same(v + sum, v + Folded(sum)) /\ v + Folded(sum) = AllOnes
    <3>1. Same(v, v) /\ v \in Int /\ sum \in Int /\ Folded(sum) \in Int
      BY <2>1, <2>2, SameSelf, WordSize
    <3>2. Same(v + sum, v + Folded(sum))
      BY <2>1, <3>1, SameSum
    <3>. QED
      BY <1>4, <3>1, <3>2, WordSize
  <2>5. Same(v + sum, 0)
    BY <2>2, <2>4, SameZero, SameChain, WordSize
  <2>6. v = 0 => sum > 0
    BY <1>4, <2>1, WordSize
  <2>. QED
    BY <2>2, <2>3, <2>5, <2>6
<1>5. Accepts(bytes, checksum(bytes))
  <2>. DEFINE v == AllOnes - Folded(net[1])
              c == v
  <2>1. /\ v \in 0 .. AllOnes /\ v \in Nat
        /\ v \div Radix \in Nat /\ v % Radix \in Nat
        /\ v = Radix * (v \div Radix) + (v % Radix)
        /\ Same(v + net[1], 0)
        /\ v = 0 => net[1] > 0
    <3>. HIDE DEF v
    <3>. QED
      BY <1>3, <1>4 DEF v
  <2>2. checksum(bytes) = <<v \div Radix, v % Radix>>
    BY <1>1 DEF checksum
  <2>. HIDE DEF v
  <2>3. v = checksum(bytes)[1] * Radix + checksum(bytes)[2]
    BY <1>0, <2>1, <2>2
  <2>4. v + net[1] > 0
    BY <1>3, <2>1
  <2>. QED
    BY <1>1, <2>1, <2>3, <2>4, Accepted
<1>6. Accepts(bytes, ipChecksum(bytes))
  <2>. DEFINE v == AllOnes - Folded(host[1])
              c == (v % Radix) * Radix + v \div Radix
  <2>1. /\ v \in 0 .. AllOnes /\ v \in Nat
        /\ v \div Radix \in Nat /\ v % Radix \in Nat
        /\ v = Radix * (v \div Radix) + (v % Radix) /\ (v % Radix) < Radix
        /\ Same(v + host[1], 0)
        /\ v = 0 => host[1] > 0
    <3>. HIDE DEF v
    <3>. QED
      BY <1>3, <1>4 DEF v
  <2>2. ipChecksum(bytes) = <<v % Radix, v \div Radix>>
    BY <1>2 DEF ipChecksum
  <2>. HIDE DEF v
  <2>. DEFINE q == v \div Radix
              r == v % Radix
  <2>3. q \in Nat /\ r \in Nat /\ r <= Radix - 1 /\ v = Radix * q + r /\ c = r * Radix + q
    BY <1>0, <2>1
  <2>4. q <= Radix - 1
    <3>1. \A R, y \in Nat : R >= 2 /\ R * y <= R * R - 1 => y <= R - 1
      <4>. SUFFICES ASSUME NEW R \in Nat, NEW y \in Nat, R >= 2, R * y <= R * R - 1, y >= R
                   PROVE  FALSE
        OBVIOUS
      <4>1. R * (y - R) >= 0
        OBVIOUS
      <4>2. R * (y - R) = R * y - R * R
        OBVIOUS
      <4>. QED
        BY <4>1, <4>2
    <3>2. Radix * q \in Nat
      BY <1>0, <2>3, ProductType
    <3>3. Radix * q <= Radix * Radix - 1
      BY <1>0, <2>1, <2>3, <3>2, WordSize DEF AllOnes, Word
    <3>. QED
      BY <1>0, <2>3, <3>1, <3>3
  <2>. HIDE DEF q, r
  <2>5. c \in 0 .. AllOnes
    <3>1. \A h, l, R \in Nat :
              h <= R - 1 /\ l <= R - 1 => h * R + l <= R * R - 1 /\ h * R + l \in Nat
      <4>. SUFFICES ASSUME NEW h \in Nat, NEW l \in Nat, NEW R \in Nat, h <= R - 1, l <= R - 1
                   PROVE  h * R + l <= R * R - 1 /\ h * R + l \in Nat
        OBVIOUS
      <4>1. (R - 1 - h) * R >= 0 /\ h * R \in Nat
        OBVIOUS
      <4>2. (R - 1 - h) * R = R * R - R - h * R
        OBVIOUS
      <4>. QED
        BY <4>1, <4>2
    <3>2. r * Radix + q <= Radix * Radix - 1 /\ r * Radix + q \in Nat
      BY <1>0, <2>3, <2>4, <3>1
    <3>. QED
      BY <2>3, <3>2, WordSize DEF AllOnes, Word
  <2>6. Same(Radix * v, c)
    <3>1. Radix * v = c + q * AllOnes
      BY <1>0, <2>3 DEF AllOnes, Word
    <3>. QED
      BY <2>3, <3>1 DEF Same
  <2>7. Same(Radix * host[1], net[1]) /\ (host[1] > 0 => net[1] > 0)
    BY <1>0, <1>1, <1>2, SumsAgree
  <2>. HIDE DEF c
  <2>8. Same(c + net[1], 0)
    <3>1. /\ Radix * v \in Int /\ Radix * host[1] \in Int
          /\ c \in Int /\ net[1] \in Int /\ v + host[1] \in Int
      BY <1>0, <1>3, <2>1, <2>5, WordSize
    <3>2. Same(Radix * v + Radix * host[1], c + net[1])
      BY <2>6, <2>7, <3>1, SameSum
    <3>3. Same(Radix * (v + host[1]), Radix * 0)
      <4>1. 0 \in Int /\ Radix \in Int /\ Same(v + host[1], 0)
        BY <1>0, <2>1
      <4>. QED
        BY <3>1, <4>1, SameProduct
    <3>4. Radix * (v + host[1]) = Radix * v + Radix * host[1] /\ Radix * 0 = 0
      BY <1>0, <1>3, <2>1
    <3>5. c + net[1] \in Int /\ Radix * v + Radix * host[1] \in Int
      BY <3>1
    <3>6. Same(c + net[1], Radix * v + Radix * host[1])
      BY <3>1, <3>2, <3>5, SameBack
    <3>. QED
      BY <3>1, <3>3, <3>4, <3>6, <3>5, SameChain
  <2>9. c + net[1] > 0
    <3>1. CASE c = 0
      <4>1. r = 0 /\ q = 0
        <5>1. r * Radix \in Nat
          BY <1>0, <2>3, ProductType
        <5>2. r * Radix = 0 /\ q = 0
          BY <2>3, <3>1, <5>1
        <5>3. \A y, R \in Nat : R >= 2 /\ y * R = 0 => y = 0
          OBVIOUS
        <5>. QED
          BY <1>0, <2>3, <5>2, <5>3
      <4>2. v = 0
        BY <1>0, <2>3, <4>1
      <4>. QED
        BY <1>3, <2>1, <2>7, <3>1, <4>2
    <3>. QED
      BY <1>3, <2>5, <3>1, WordSize
  <2>10. c = ipChecksum(bytes)[1] * Radix + ipChecksum(bytes)[2]
    BY <2>2, <2>3 DEF q, r
  <2>. QED
    BY <1>1, <2>5, <2>8, <2>9, <2>10, Accepted
<1>. QED
  BY <1>5, <1>6

---------------------------------------------------------------------------
(* The options of DHCP messages *)

\* A function on 1 .. size is a sequence.
LEMMA FunctionIsSeq ==
    ASSUME NEW S, NEW size \in Nat, NEW f \in [1 .. size -> S]
    PROVE  f \in Seq(S) /\ Len(f) = size
<1>1. [1 .. size -> S] \in {[1 .. k -> S] : k \in Nat}
  OBVIOUS
<1>2. f \in Seq(S)
  BY <1>1, SeqDef, Zenon
<1>3. DOMAIN f = 1 .. Len(f) /\ DOMAIN f = 1 .. size /\ Len(f) \in Nat
  BY <1>2
<1>. QED
  BY <1>2, <1>3

\* What a byte of the options may be.
Octet == 0 .. 255

\* One sequence behind another; by this name the provers leave it alone.
Then(s, t) == s \o t

\* Its bytes are those of the first and then those of the second.
LEMMA Joined ==
    ASSUME NEW s \in Seq(Octet), NEW t \in Seq(Octet)
    PROVE  /\ Then(s, t) \in Seq(Octet) /\ Len(Then(s, t)) = Len(s) + Len(t)
           /\ \A i \in 1 .. Len(s) : Then(s, t)[i] = s[i]
           /\ \A i \in 1 .. Len(t) : Then(s, t)[Len(s) + i] = t[i]
<1>1. /\ Then(s, t) \in Seq(Octet) /\ Len(Then(s, t)) = Len(s) + Len(t)
      /\ \A i \in 1 .. Len(s) + Len(t) :
            Then(s, t)[i] = IF i <= Len(s) THEN s[i] ELSE t[i - Len(s)]
  BY ConcatProperties, Zenon DEF Then
<1>2. Len(s) \in Nat /\ Len(t) \in Nat
  OBVIOUS
<1>3. \A i \in 1 .. Len(s) : Then(s, t)[i] = s[i]
  BY <1>1, <1>2
<1>4. ASSUME NEW i \in 1 .. Len(t)
      PROVE  Then(s, t)[Len(s) + i] = t[i]
  <2>. DEFINE j == Len(s) + i
  <2>1. j \in 1 .. Len(s) + Len(t) /\ ~(j <= Len(s)) /\ j - Len(s) = i
    BY <1>2
  <2>. HIDE DEF j
  <2>2. Then(s, t)[j] = t[j - Len(s)]
    BY <1>1, <2>1
  <2>. QED
    BY <2>1, <2>2 DEF j
<1>. QED
  BY <1>1, <1>3, <1>4

\* What is read of a buffer is a byte, also behind its end.
LEMMA AtType ==
    ASSUME NEW bytes \in Seq(Octet), NEW k
    PROVE  At(bytes, k) \in Octet /\ At(bytes, k) \in Nat
<1>1. 0 \in Octet /\ Octet \subseteq Nat
  BY DEF Octet
<1>2. At(bytes, k) \in Octet
  BY <1>1 DEF At
<1>. QED
  BY <1>1, <1>2

\* One round of the loop of parse_opions.
PlacesRound(bytes, len, f, k) ==
    f[k] = IF k > len \/ At(bytes, k) = END THEN {}
           ELSE {k} \cup f[k + At(bytes, k + 1) + 2]

\* What the loop finds from each place on.
Scans(bytes, len, from) == \A k \in Nat : PlacesRound(bytes, len, from, k)

\* Places is what the loop makes of it: it goes on, to the end at most.
LEMMA PlacesEquation ==
    ASSUME NEW bytes \in Seq(Octet), NEW len \in Nat
    PROVE  \E from : Places(bytes, len) = from[1] /\ Scans(bytes, len, from)
<1>. DEFINE body(f) ==
                [k \in Nat |->
                    IF k > len \/ At(bytes, k) = END THEN {}
                    ELSE {k} \cup f[k + At(bytes, k + 1) + 2]]
            from == CHOOSE f : f = body(f)
            V == SUBSET Nat
            measure == [k \in Nat |-> IF k > len THEN 0 ELSE len - k + 1]
            base == {k \in Nat : k > len \/ At(bytes, k) = END}
            leaf == [k \in Nat |-> {}]
            next == [k \in Nat |-> k + At(bytes, k + 1) + 2]
            step == [k \in Nat |-> [set \in V |-> {k} \cup set]]
<1>1. ASSUME NEW k \in Nat
      PROVE  /\ measure[k] \in Nat /\ leaf[k] \in V
             /\ k \notin base => next[k] \in Nat /\ measure[next[k]] < measure[k]
  <2>1. At(bytes, k + 1) \in Nat
    BY AtType
  <2>. QED
    BY <2>1
<1>2. ASSUME NEW k \in Nat, NEW set \in V
      PROVE  step[k][set] \in V /\ step[k][set] = {k} \cup set
  <2>1. step[k][set] = {k} \cup set
    BY <1>2, Zenon
  <2>. HIDE DEF step
  <2>. QED
    BY <2>1
<1>3. \E f : f = body(f)
  <2>1. PICK f \in [Nat -> V] : Follows(f, Nat, base, leaf, next, step)
    <3>1. V # {}
      OBVIOUS
    <3>. HIDE DEF measure, base, leaf, next, step, V
    <3>2. Descends(Nat, V, measure, base, leaf, next, step)
      BY <1>1, <1>2, <3>1 DEF Descends
    <3>. QED
      BY <3>2, Recursion
  <2>2. ASSUME NEW k \in Nat
        PROVE  f[k] = IF k > len \/ At(bytes, k) = END THEN {}
                      ELSE {k} \cup f[k + At(bytes, k + 1) + 2]
    <3>1. f[k] = IF k \in base THEN leaf[k] ELSE step[k][f[next[k]]]
      <4>. HIDE DEF base, leaf, next, step
      <4>. QED
        BY <2>1 DEF Follows
    <3>2. next[k] \in Nat /\ next[k] = k + At(bytes, k + 1) + 2 /\ f[next[k]] \in V
      <4>1. At(bytes, k + 1) \in Nat
        BY AtType
      <4>2. next[k] \in Nat
        BY <4>1
      <4>. HIDE DEF V
      <4>. QED
        BY <4>2
    <3>3. step[k][f[next[k]]] = {k} \cup f[k + At(bytes, k + 1) + 2]
      <4>. HIDE DEF next, step, V
      <4>. QED
        BY <1>2, <3>2
    <3>. HIDE DEF step, next, V
    <3>. QED
      BY <3>1, <3>3
  <2>3. f = body(f)
    <3>1. f = [k \in Nat |-> f[k]]
      OBVIOUS
    <3>. QED
      BY <2>2, <3>1, Zenon
  <2>. HIDE DEF body
  <2>. QED
    BY <2>3
<1>4. from = body(from)
  <2>. HIDE DEF body
  <2>. QED
    BY <1>3
<1>5. Places(bytes, len) = from[1]
  BY DEF Places
<1>. HIDE DEF from
<1>6. ASSUME NEW k \in Nat
      PROVE  PlacesRound(bytes, len, from, k)
  <2>1. from[k] = body(from)[k]
    <3>. HIDE DEF body
    <3>. QED
      BY <1>4
  <2>. QED
    BY <2>1 DEF PlacesRound
<1>. QED
  BY <1>5, <1>6 DEF Scans

\* What is left of the buffer.
Left(len) == [k \in Nat |-> IF k > len THEN 0 ELSE len - k + 1]

\* From a place on, options are found at places behind it only.
LEMMA PlacesBehind ==
    ASSUME NEW bytes \in Seq(Octet), NEW len \in Nat,
           NEW from, Scans(bytes, len, from),
           NEW k \in Nat
    PROVE  from[k] \subseteq {j \in Nat : k <= j /\ j <= len}
<1>. DEFINE Right(x) == from[x] \subseteq {j \in Nat : x <= j /\ j <= len}
            Wrong == {x \in Nat : ~Right(x)}
<1>1. ASSUME Wrong # {}
      PROVE  FALSE
  <2>1. Wrong \subseteq Nat /\ \A x \in Nat : Left(len)[x] \in Nat
    BY DEF Left
  <2>2. PICK x \in Wrong : \A y \in Nat : Left(len)[y] < Left(len)[x] => y \notin Wrong
    <3>. HIDE DEF Wrong
    <3>. QED
      BY <1>1, <2>1, LeastWrong
  <2>. DEFINE y == x + At(bytes, x + 1) + 2
  <2>3. x \in Nat /\ y \in Nat /\ x < y /\ PlacesRound(bytes, len, from, x)
    <3>1. At(bytes, x + 1) \in Nat
      BY AtType
    <3>. QED
      BY <3>1 DEF Scans
  <2>. HIDE DEF y
  <2>4. CASE x > len \/ At(bytes, x) = END
    <3>1. from[x] = {}
      BY <2>3, <2>4 DEF PlacesRound
    <3>. QED
      BY <3>1
  <2>5. CASE ~(x > len \/ At(bytes, x) = END)
    <3>1. x <= len /\ Left(len)[y] < Left(len)[x]
      BY <2>3, <2>5 DEF Left
    <3>2. Right(y)
      BY <2>2, <2>3, <3>1
    <3>3. from[x] = {x} \cup from[y]
      BY <2>3, <2>5 DEF PlacesRound, y
    <3>4. Right(x)
      BY <2>3, <3>1, <3>2, <3>3
    <3>. QED
      BY <3>4
  <2>. QED
    BY <2>4, <2>5
<1>. QED
  BY <1>1

\* An option is looked at, and then the one its length leads to.
LEMMA PlacesNext ==
    ASSUME NEW bytes \in Seq(Octet), NEW len \in Nat,
           NEW from, Scans(bytes, len, from),
           NEW k \in Nat, k <= len, At(bytes, k) # END
    PROVE  from[k] = {k} \cup from[k + At(bytes, k + 1) + 2]
<1>1. PlacesRound(bytes, len, from, k)
  BY DEF Scans
<1>2. ~(k > len)
  OBVIOUS
<1>. QED
  BY <1>1, <1>2 DEF PlacesRound

\* part is in bytes, behind the first k of them.
Holds(bytes, k, part) ==
    /\ k + Len(part) <= Len(bytes)
    /\ \A i \in 1 .. Len(part) : bytes[k + i] = part[i]

\* One part behind another.
LEMMA HoldsBoth ==
    ASSUME NEW s \in Seq(Octet), NEW t \in Seq(Octet)
    PROVE  /\ Then(s, t) \in Seq(Octet) /\ Len(Then(s, t)) = Len(s) + Len(t)
           /\ Holds(Then(s, t), 0, s) /\ Holds(Then(s, t), Len(s), t)
           /\ \A i \in 1 .. Len(s) : Then(s, t)[i] = s[i]
<1>1. /\ Then(s, t) \in Seq(Octet) /\ Len(Then(s, t)) = Len(s) + Len(t)
      /\ \A i \in 1 .. Len(s) : Then(s, t)[i] = s[i]
      /\ \A i \in 1 .. Len(t) : Then(s, t)[Len(s) + i] = t[i]
  BY Joined
<1>2. Len(s) \in Nat /\ Len(t) \in Nat
  OBVIOUS
<1>3. \A i \in 1 .. Len(s) : Then(s, t)[0 + i] = s[i]
  BY <1>1, <1>2
<1>. QED
  BY <1>1, <1>2, <1>3 DEF Holds

\* What a part holds, the whole holds.
LEMMA HoldsWithin ==
    ASSUME NEW bytes \in Seq(Octet), NEW part \in Seq(Octet), NEW inner \in Seq(Octet),
           NEW k \in Nat, NEW j \in Nat, NEW at, at = k + j,
           Holds(bytes, k, part), Holds(part, j, inner)
    PROVE  Holds(bytes, at, inner)
<1>1. /\ Len(bytes) \in Nat /\ Len(part) \in Nat /\ Len(inner) \in Nat
      /\ k + Len(part) <= Len(bytes) /\ j + Len(inner) <= Len(part)
  BY DEF Holds
<1>2. at + Len(inner) <= Len(bytes)
  BY <1>1
<1>3. ASSUME NEW i \in 1 .. Len(inner)
      PROVE  bytes[at + i] = inner[i]
  <2>. DEFINE there == j + i
  <2>1. there \in 1 .. Len(part) /\ k + there = at + i
    BY <1>1
  <2>2. part[there] = inner[i]
    BY DEF Holds
  <2>. HIDE DEF there
  <2>3. bytes[k + there] = part[there]
    BY <2>1 DEF Holds
  <2>. QED
    BY <2>1, <2>2, <2>3
<1>. QED
  BY <1>2, <1>3 DEF Holds

\* What the first part holds, the whole holds at the same place.
LEMMA HoldsInFront ==
    ASSUME NEW bytes \in Seq(Octet), NEW part \in Seq(Octet), NEW inner \in Seq(Octet),
           NEW j \in Nat, Holds(bytes, 0, part), Holds(part, j, inner)
    PROVE  Holds(bytes, j, inner)
<1>. DEFINE none == 0
<1>1. none \in Nat /\ j = none + j /\ Holds(bytes, none, part)
  OBVIOUS
<1>. HIDE DEF none
<1>. QED
  BY <1>1, HoldsWithin

\* What is read where a part is.
LEMMA AtPart ==
    ASSUME NEW bytes \in Seq(Octet), NEW part \in Seq(Octet),
           NEW k \in Nat, Holds(bytes, k, part),
           NEW i \in 1 .. Len(part), NEW at, at = k + i
    PROVE  /\ at \in 1 .. Len(bytes) /\ at \in DOMAIN bytes
           /\ bytes[at] = part[i] /\ At(bytes, at) = part[i]
<1>1. Len(bytes) \in Nat /\ Len(part) \in Nat /\ k + Len(part) <= Len(bytes)
  BY DEF Holds
<1>2. at \in 1 .. Len(bytes)
  BY <1>1
<1>3. at \in DOMAIN bytes
  BY <1>2
<1>4. bytes[at] = part[i]
  BY DEF Holds
<1>. QED
  BY <1>2, <1>3, <1>4 DEF At

\* The bytes read there are those of the part.
LEMMA PartRead ==
    ASSUME NEW bytes \in Seq(Octet), NEW part \in Seq(Octet),
           NEW k \in Nat, Holds(bytes, k, part)
    PROVE  \A i \in 1 .. Len(part) : At(bytes, k + i) = part[i]
<1>1. ASSUME NEW i \in 1 .. Len(part)
      PROVE  At(bytes, k + i) = part[i]
  <2>. DEFINE at == k + i
  <2>. HIDE DEF at
  <2>1. at = k + i
    BY DEF at
  <2>2. At(bytes, at) = part[i]
    BY <2>1, AtPart
  <2>. QED
    BY <2>2 DEF at
<1>. QED
  BY <1>1

\* The code of an option and its length, and then its value.
OptionBytes(code, value) == Then(<<code, Len(value)>>, value)

\* They are bytes, with the value behind the first two.
LEMMA OptionBytesType ==
    ASSUME NEW code \in Octet, NEW value \in Seq(Octet), Len(value) \in Octet
    PROVE  /\ OptionBytes(code, value) \in Seq(Octet)
           /\ Len(OptionBytes(code, value)) = Len(value) + 2
           /\ OptionBytes(code, value)[1] = code /\ OptionBytes(code, value)[2] = Len(value)
           /\ Holds(OptionBytes(code, value), 2, value)
<1>. DEFINE head == <<code, Len(value)>>
<1>1. head \in Seq(Octet) /\ Len(head) = 2 /\ head[1] = code /\ head[2] = Len(value)
  OBVIOUS
<1>2. OptionBytes(code, value) = Then(head, value)
  BY DEF OptionBytes
<1>. HIDE DEF head
<1>3. Len(value) \in Nat
  OBVIOUS
<1>4. /\ Then(head, value) \in Seq(Octet)
      /\ Len(Then(head, value)) = Len(head) + Len(value)
      /\ Holds(Then(head, value), Len(head), value)
      /\ \A i \in 1 .. Len(head) : Then(head, value)[i] = head[i]
  BY <1>1, HoldsBoth
<1>5. 1 \in 1 .. Len(head) /\ 2 \in 1 .. Len(head)
  BY <1>1
<1>6. Then(head, value)[1] = head[1] /\ Then(head, value)[2] = head[2]
  BY <1>4, <1>5
<1>7. Len(OptionBytes(code, value)) = Len(value) + 2
  BY <1>1, <1>2, <1>3, <1>4
<1>. QED
  BY <1>1, <1>2, <1>4, <1>6, <1>7

\* An option of the buffer.
Stands(bytes, place, code, value) ==
    /\ place \in DOMAIN bytes /\ bytes[place] = code /\ At(bytes, place) = code
    /\ bytes[place + 1] = Len(value) /\ At(bytes, place + 1) = Len(value)
    /\ Holds(bytes, place + 1, value)

\* An option a server may send is written behind the first k bytes.
HasOption(bytes, len, k, code, value) ==
    /\ bytes \in Seq(Octet) /\ len \in Nat /\ k \in Nat /\ k < len
    /\ code \in Octet /\ code # END /\ value \in Seq(Octet) /\ Len(value) \in Octet
    /\ Holds(bytes, k, OptionBytes(code, value))

\* Where an option is, the loop of parse_opions looks at it and goes on behind it.
LEMMA OptionPlace ==
    ASSUME NEW bytes, NEW len, NEW from, Scans(bytes, len, from),
           NEW k, NEW code, NEW value, HasOption(bytes, len, k, code, value)
    PROVE  /\ Stands(bytes, k + 1, code, value)
           /\ from[k + 1] = {k + 1} \cup from[k + Len(value) + 3]
<1>. /\ bytes \in Seq(Octet) /\ len \in Nat /\ k \in Nat /\ k < len
     /\ code \in Octet /\ code # END /\ value \in Seq(Octet) /\ Len(value) \in Octet
     /\ Holds(bytes, k, OptionBytes(code, value))
  BY DEF HasOption
<1>. DEFINE place == k + 1
            then == k + Len(value) + 3
<1>0. place = k + 1 /\ place \in Nat /\ place <= len /\ then = k + Len(value) + 3
  OBVIOUS
<1>. HIDE DEF place, then
<1>. DEFINE written == OptionBytes(code, value)
<1>1. /\ written \in Seq(Octet) /\ Len(written) = Len(value) + 2
      /\ written[1] = code /\ written[2] = Len(value) /\ Holds(written, 2, value)
  BY OptionBytesType
<1>. HIDE DEF written
<1>2. Len(value) \in Nat /\ Len(bytes) \in Nat /\ Holds(bytes, k, written)
  BY DEF written
<1>3. 1 \in 1 .. Len(written) /\ 2 \in 1 .. Len(written) /\ place + 1 = k + 2
  BY <1>0, <1>1, <1>2
<1>4. place \in 1 .. Len(bytes) /\ place \in DOMAIN bytes
      /\ At(bytes, place) = code /\ bytes[place] = code
  BY <1>0, <1>1, <1>2, <1>3, AtPart
<1>5. At(bytes, place + 1) = Len(value) /\ bytes[place + 1] = Len(value)
  <2>. DEFINE at == place + 1
  <2>1. at = k + 2
    BY <1>3
  <2>. HIDE DEF at
  <2>2. At(bytes, at) = written[2] /\ bytes[at] = written[2]
    BY <1>1, <1>2, <1>3, <2>1, AtPart, SMTT(60)
  <2>. QED
    BY <1>1, <2>2 DEF at
<1>6. Holds(bytes, place + 1, value)
  <2>1. 2 \in Nat
    OBVIOUS
  <2>. QED
    BY <1>0, <1>1, <1>2, <1>3, <2>1, HoldsWithin
<1>7. from[place] = {place} \cup from[then]
  <2>1. place \in Nat /\ place <= len /\ At(bytes, place) # END
    BY <1>0, <1>2, <1>4
  <2>2. from[place] = {place} \cup from[place + At(bytes, place + 1) + 2]
    BY <2>1, PlacesNext
  <2>3. place + At(bytes, place + 1) + 2 = then
    BY <1>0, <1>2, <1>5
  <2>. QED
    BY <2>2, <2>3
<1>. QED
  BY <1>4, <1>5, <1>6, <1>7 DEF Stands, place, then

\* The bytes from one to another; by this name the provers leave them alone.
Part(bytes, first, last) == SubSeq(bytes, first, last)

\* A value is read where it is.
LEMMA ValueRead ==
    ASSUME NEW bytes \in Seq(Octet), NEW value \in Seq(Octet),
           NEW k \in Nat, Holds(bytes, k, value),
           NEW first, first = k + 1, NEW last, last = k + Len(value)
    PROVE  Part(bytes, first, last) = value
<1>1. Len(bytes) \in Nat /\ Len(value) \in Nat /\ last <= Len(bytes)
  BY DEF Holds
<1>2. first \in Int /\ last \in Int /\ \A i \in first .. last : bytes[i] \in Octet
  BY <1>1
<1>. DEFINE read == SubSeq(bytes, first, last)
<1>3. /\ SubSeq(bytes, first, last) \in Seq(Octet)
      /\ Len(SubSeq(bytes, first, last)) = IF first <= last THEN last - first + 1 ELSE 0
      /\ \A i \in 1 .. last - first + 1 :
            SubSeq(bytes, first, last)[i] = bytes[first + i - 1]
  BY <1>2, SubSeqProperties
<1>. HIDE DEF read
<1>4. Len(read) = Len(value)
  BY <1>1, <1>3 DEF read
<1>5. ASSUME NEW i \in 1 .. Len(value)
      PROVE  read[i] = value[i]
  <2>1. i \in 1 .. last - first + 1 /\ first + i - 1 = k + i
    BY <1>1
  <2>2. bytes[k + i] = value[i]
    BY DEF Holds
  <2>. QED
    BY <1>3, <2>1, <2>2 DEF read
<1>6. \A i \in 1 .. Len(read) : read[i] = value[i]
  BY <1>4, <1>5
<1>7. read \in Seq(Octet)
  BY <1>3 DEF read
<1>8. read = value
  BY <1>7, <1>4, <1>6, SeqEqual, Zenon
<1>. QED
  BY <1>8 DEF read, Part

\* Four bytes.
Address == [1 .. 4 -> Octet]

\* An address is a sequence of bytes.
LEMMA AddressBytes ==
    ASSUME NEW address \in Address
    PROVE  address \in Seq(Octet) /\ Len(address) = 4
BY FunctionIsSeq DEF Address

\* The codes and numbers of a request are bytes.
LEMMA Codes ==
    /\ DHCPMSGTYPE = 53 /\ REQUESTEDIP = 50 /\ SERVERID = 54 /\ REQUEST = 3 /\ END = 255
    /\ DHCPMSGTYPE \in Octet /\ REQUESTEDIP \in Octet /\ SERVERID \in Octet
    /\ REQUEST \in Octet /\ END \in Octet /\ 0 \in Octet /\ 1 \in Octet /\ 4 \in Octet
    /\ Octet \subseteq Nat
BY DEF DHCPMSGTYPE, REQUESTEDIP, SERVERID, REQUEST, END, Octet

\* The value of the message type.
LEMMA TypeBytes == <<REQUEST>> \in Seq(Octet) /\ Len(<<REQUEST>>) = 1
BY Codes

\* What dhcpRequest writes in front of the options.
OwnOptions(yiaddr, server_id) ==
    Then(Then(OptionBytes(DHCPMSGTYPE, <<REQUEST>>), OptionBytes(REQUESTEDIP, yiaddr)),
         OptionBytes(SERVERID, server_id))

\* That is how the code puts them together.
LEMMA OwnWritten ==
    ASSUME NEW yiaddr \in Address, NEW server_id \in Address
    PROVE  OwnOptions(yiaddr, server_id) =
               add_msg_type(REQUEST) \o add_sever_id(REQUESTEDIP, yiaddr)
                   \o add_sever_id(SERVERID, server_id)
<1>1. OptionBytes(DHCPMSGTYPE, <<REQUEST>>) = add_msg_type(REQUEST)
  <2>1. OptionBytes(DHCPMSGTYPE, <<REQUEST>>) = <<DHCPMSGTYPE, 1>> \o <<REQUEST>>
    BY TypeBytes, Zenon DEF OptionBytes, Then
  <2>2. <<DHCPMSGTYPE, 1>> \o <<REQUEST>> = <<DHCPMSGTYPE, 1, REQUEST>>
    <3>. DEFINE a == <<DHCPMSGTYPE, 1>>
                b == <<REQUEST>>
                c == <<DHCPMSGTYPE, 1, REQUEST>>
    <3>1. /\ a \in Seq(Octet) /\ Len(a) = 2 /\ a[1] = DHCPMSGTYPE /\ a[2] = 1
          /\ b \in Seq(Octet) /\ Len(b) = 1 /\ b[1] = REQUEST
      BY Codes
    <3>2. /\ c \in Seq(Octet) /\ Len(c) = 3
          /\ c[1] = DHCPMSGTYPE /\ c[2] = 1 /\ c[3] = REQUEST
      BY Codes
    <3>. HIDE DEF a, b, c
    <3>3. /\ Then(a, b) \in Seq(Octet) /\ Len(Then(a, b)) = Len(a) + Len(b)
          /\ \A i \in 1 .. Len(a) : Then(a, b)[i] = a[i]
          /\ \A i \in 1 .. Len(b) : Then(a, b)[Len(a) + i] = b[i]
      BY <3>1, Joined
    <3>4. Then(a, b)[1] = c[1] /\ Then(a, b)[2] = c[2]
      BY <3>1, <3>2, <3>3
    <3>5. Then(a, b)[3] = c[3]
      <4>1. 1 \in 1 .. Len(b) /\ Len(a) + 1 = 3
        BY <3>1
      <4>. QED
        BY <3>1, <3>2, <3>3, <4>1
    <3>6. Len(Then(a, b)) = 3
      BY <3>1, <3>3
    <3>7. \A i \in 1 .. Len(Then(a, b)) : Then(a, b)[i] = c[i]
      BY <3>4, <3>5, <3>6
    <3>8. Then(a, b) = c
      BY <3>2, <3>3, <3>6, <3>7, SeqEqual, Zenon
    <3>. QED
      BY <3>8 DEF a, b, c, Then
  <2>. QED
    BY <2>1, <2>2, Zenon DEF add_msg_type
<1>2. OptionBytes(REQUESTEDIP, yiaddr) = add_sever_id(REQUESTEDIP, yiaddr)
  BY AddressBytes, Zenon DEF OptionBytes, Then, add_sever_id
<1>3. OptionBytes(SERVERID, server_id) = add_sever_id(SERVERID, server_id)
  BY AddressBytes, Zenon DEF OptionBytes, Then, add_sever_id
<1>. QED
  BY <1>1, <1>2, <1>3, Zenon DEF OwnOptions, Then

\* What was written is an item, whatever the address.
LEMMA AddressOption ==
    ASSUME NEW code \in Octet, NEW address \in Address
    PROVE  OptionBytes(code, address) \in Seq(Octet) /\ Len(OptionBytes(code, address)) = 6
<1>1. address \in Seq(Octet) /\ Len(address) = 4 /\ Len(address) \in Octet
  BY AddressBytes, Codes
<1>2. /\ OptionBytes(code, address) \in Seq(Octet)
      /\ Len(OptionBytes(code, address)) = Len(address) + 2
  BY <1>1, OptionBytesType, Zenon
<1>. QED
  BY <1>1, <1>2

\* The message type takes three bytes.
LEMMA TypeOption ==
    /\ OptionBytes(DHCPMSGTYPE, <<REQUEST>>) \in Seq(Octet)
    /\ Len(OptionBytes(DHCPMSGTYPE, <<REQUEST>>)) = 3
<1>. DEFINE value == <<REQUEST>>
<1>1. value \in Seq(Octet) /\ Len(value) = 1 /\ Len(value) \in Octet
  BY TypeBytes, Codes
<1>. HIDE DEF value
<1>2. /\ OptionBytes(DHCPMSGTYPE, value) \in Seq(Octet)
      /\ Len(OptionBytes(DHCPMSGTYPE, value)) = Len(value) + 2
  BY <1>1, Codes, OptionBytesType, Zenon
<1>3. Len(OptionBytes(DHCPMSGTYPE, value)) = 3
  BY <1>1, <1>2
<1>. QED
  BY <1>2, <1>3 DEF value

\* The three options, one behind the other.
LEMMA OwnHolds ==
    ASSUME NEW yiaddr \in Address, NEW server_id \in Address
    PROVE  /\ OwnOptions(yiaddr, server_id) \in Seq(Octet)
           /\ Len(OwnOptions(yiaddr, server_id)) = 15
           /\ Holds(OwnOptions(yiaddr, server_id), 0, OptionBytes(DHCPMSGTYPE, <<REQUEST>>))
           /\ Holds(OwnOptions(yiaddr, server_id), 3, OptionBytes(REQUESTEDIP, yiaddr))
           /\ Holds(OwnOptions(yiaddr, server_id), 9, OptionBytes(SERVERID, server_id))
<1>. DEFINE type == OptionBytes(DHCPMSGTYPE, <<REQUEST>>)
            ip == OptionBytes(REQUESTEDIP, yiaddr)
            server == OptionBytes(SERVERID, server_id)
            both == Then(type, ip)
            front == Then(both, server)
<1>1. type \in Seq(Octet) /\ Len(type) = 3
  BY TypeOption
<1>2. ip \in Seq(Octet) /\ Len(ip) = 6
  BY Codes, AddressOption
<1>3. server \in Seq(Octet) /\ Len(server) = 6
  BY Codes, AddressOption
<1>4. front = OwnOptions(yiaddr, server_id)
  BY DEF OwnOptions
<1>. HIDE DEF type, ip, server
<1>5. /\ both \in Seq(Octet) /\ Len(both) = Len(type) + Len(ip)
      /\ Holds(both, 0, type) /\ Holds(both, Len(type), ip)
  BY <1>1, <1>2, HoldsBoth
<1>. HIDE DEF both
<1>6. /\ front \in Seq(Octet) /\ Len(front) = Len(both) + Len(server)
      /\ Holds(front, 0, both) /\ Holds(front, Len(both), server)
  BY <1>3, <1>5, HoldsBoth
<1>. HIDE DEF front
<1>7. Len(front) = 15 /\ Holds(both, 3, ip) /\ Holds(front, 9, server)
  BY <1>1, <1>2, <1>3, <1>5, <1>6
<1>8. 0 \in Nat /\ 3 \in Nat
  OBVIOUS
<1>9. Holds(front, 0, type)
  BY <1>1, <1>5, <1>6, <1>8, HoldsInFront, Zenon
<1>10. Holds(front, 3, ip)
  BY <1>2, <1>5, <1>6, <1>7, <1>8, HoldsInFront, Zenon
<1>. QED
  BY <1>4, <1>6, <1>7, <1>9, <1>10 DEF type, ip, server

\* The request holds them, and nothing else is written into it.
LEMMA RequestHolds ==
    ASSUME NEW bytes \in Seq(Octet), NEW yiaddr \in Address, NEW server_id \in Address,
           NEW own, own = dhcpRequest(bytes, yiaddr, server_id)
    PROVE  /\ own \in Seq(Octet) /\ Len(own) = 30
           /\ Holds(own, 0, OptionBytes(DHCPMSGTYPE, <<REQUEST>>))
           /\ Holds(own, 3, OptionBytes(REQUESTEDIP, yiaddr))
           /\ Holds(own, 9, OptionBytes(SERVERID, server_id))
<1>. DEFINE front == OwnOptions(yiaddr, server_id)
<1>1. /\ front \in Seq(Octet) /\ Len(front) = 15
      /\ Holds(front, 0, OptionBytes(DHCPMSGTYPE, <<REQUEST>>))
      /\ Holds(front, 3, OptionBytes(REQUESTEDIP, yiaddr))
      /\ Holds(front, 9, OptionBytes(SERVERID, server_id))
  BY OwnHolds
<1>2. own = [k \in 1 .. RequestLength |->
                IF k \in DOMAIN front THEN front[k] ELSE At(bytes, k)]
  BY OwnWritten, Zenon DEF dhcpRequest
<1>. HIDE DEF front
<1>3. RequestLength = 30
  BY DEF RequestLength
<1>4. DOMAIN front = 1 .. 15 /\ \A k \in 1 .. 15 : front[k] \in Octet
  <2>1. DOMAIN front = 1 .. Len(front) /\ \A k \in 1 .. Len(front) : front[k] \in Octet
    <3>1. front \in Seq(Octet)
      BY <1>1
    <3>2. front \in [1 .. Len(front) -> Octet]
      BY <3>1, LenProperties, Zenon
    <3>. QED
      BY <3>2
  <2>. QED
    BY <1>1, <2>1
<1>5. ASSUME NEW k \in 1 .. RequestLength
      PROVE  own[k] \in Octet /\ (k \in 1 .. 15 => own[k] = front[k])
  <2>1. own[k] = IF k \in DOMAIN front THEN front[k] ELSE At(bytes, k)
    BY <1>2, Zenon
  <2>2. At(bytes, k) \in Octet
    BY AtType
  <2>. QED
    BY <1>4, <2>1, <2>2
<1>6. own \in [1 .. RequestLength -> Octet]
  BY <1>2, <1>5
<1>7. own \in Seq(Octet) /\ Len(own) = 30
  BY <1>3, <1>6, FunctionIsSeq
<1>8. Holds(own, 0, front)
  <2>1. ASSUME NEW i \in 1 .. Len(front)
        PROVE  own[0 + i] = front[i]
    <3>1. i \in 1 .. RequestLength /\ i \in 1 .. 15 /\ 0 + i = i
      BY <1>1, <1>3
    <3>. QED
      BY <1>5, <3>1
  <2>2. 0 + Len(front) <= Len(own)
    BY <1>1, <1>7
  <2>. QED
    BY <2>1, <2>2 DEF Holds
<1>9. 0 \in Nat /\ 3 \in Nat /\ 9 \in Nat
  OBVIOUS
<1>10. /\ OptionBytes(DHCPMSGTYPE, <<REQUEST>>) \in Seq(Octet)
       /\ OptionBytes(REQUESTEDIP, yiaddr) \in Seq(Octet)
       /\ OptionBytes(SERVERID, server_id) \in Seq(Octet)
  BY Codes, TypeOption, AddressOption
<1>. QED
  BY <1>1, <1>7, <1>8, <1>9, <1>10, HoldsInFront, Zenon

\* The first option of its kind that parse_opions would look at.
IsFirst(bytes, k, code) ==
    /\ k \in Places(bytes, Len(bytes)) /\ Places(bytes, Len(bytes)) \subseteq Nat
    /\ \A j \in Places(bytes, Len(bytes)) : j < k => bytes[j] # code

\* A server takes the value of the first option of a kind.
LEMMA AskedFirst ==
    ASSUME NEW bytes \in Seq(Octet), NEW value \in Seq(Octet), NEW code, NEW k \in Nat,
           Stands(bytes, k, code, value), IsFirst(bytes, k, code)
    PROVE  Asked(bytes, code) = value
<1>. DEFINE places == {j \in Places(bytes, Len(bytes)) :
                          bytes[j] = code /\ j + At(bytes, j + 1) + 1 <= Len(bytes)}
<1>1. Len(bytes) \in Nat /\ Len(value) \in Nat /\ k + 1 + Len(value) <= Len(bytes)
  BY DEF Holds, Stands
<1>2. k \in places /\ places \subseteq Nat /\ \A j \in places : k <= j
  BY <1>1 DEF Stands, IsFirst
<1>3. Asked(bytes, code) =
          IF places = {} THEN <<>>
          ELSE Part(bytes, Min(places) + 2, Min(places) + bytes[Min(places) + 1] + 1)
  BY Zenon DEF Asked, Part
<1>. HIDE DEF places
<1>4. Min(places) = k
  <2>. DEFINE least == Min(places)
  <2>1. least \in places /\ \A j \in places : least <= j
    BY <1>2 DEF Min
  <2>. HIDE DEF least
  <2>2. least = k
    BY <1>2, <2>1
  <2>. QED
    BY <2>2 DEF least
<1>5. Asked(bytes, code) = Part(bytes, k + 2, k + Len(value) + 1)
  BY <1>2, <1>3, <1>4 DEF Stands
<1>6. Part(bytes, k + 2, k + Len(value) + 1) = value
  <2>. DEFINE at == k + 1
              first == k + 2
              last == k + Len(value) + 1
  <2>1. /\ at \in Nat /\ first = at + 1 /\ last = at + Len(value)
        /\ Holds(bytes, at, value)
    BY <1>1 DEF Stands
  <2>. HIDE DEF at, first, last
  <2>2. Part(bytes, first, last) = value
    BY <2>1, ValueRead
  <2>. QED
    BY <2>2 DEF first, last
<1>. QED
  BY <1>5, <1>6

\* The request is told as one, for the address and the server it names, whatever
\* the offer left behind it in the buffer: dhcpRequest's own options come first.
THEOREM RequestUnderstood ==
    ASSUME NEW bytes \in Seq(Octet), NEW yiaddr \in Address, NEW server_id \in Address,
           NEW own, own = dhcpRequest(bytes, yiaddr, server_id)
    PROVE  /\ Asked(own, DHCPMSGTYPE) = <<REQUEST>>
           /\ Asked(own, REQUESTEDIP) = yiaddr
           /\ Asked(own, SERVERID) = server_id
<1>1. /\ own \in Seq(Octet)
      /\ Holds(own, 0, OptionBytes(DHCPMSGTYPE, <<REQUEST>>))
      /\ Holds(own, 3, OptionBytes(REQUESTEDIP, yiaddr))
      /\ Holds(own, 9, OptionBytes(SERVERID, server_id))
  BY RequestHolds
<1>. DEFINE len == Len(own)
<1>15. len \in Nat /\ len = 30
  BY RequestHolds
<1>. HIDE DEF len
<1>2. PICK from : Places(own, len) = from[1] /\ Scans(own, len, from)
  BY <1>1, <1>15, PlacesEquation
<1>. DEFINE value == <<REQUEST>>
<1>3. value \in Seq(Octet) /\ yiaddr \in Seq(Octet) /\ server_id \in Seq(Octet)
  BY TypeBytes, AddressBytes
<1>4. Len(value) = 1 /\ Len(yiaddr) = 4 /\ Len(server_id) = 4
  BY TypeBytes, AddressBytes
<1>. HIDE DEF value
<1>5. Stands(own, 1, DHCPMSGTYPE, value) /\ from[1] = {1} \cup from[4]
  <2>. DEFINE k == 0
  <2>1. HasOption(own, len, k, DHCPMSGTYPE, value)
    BY <1>1, <1>3, <1>4, <1>15, Codes DEF HasOption, value
  <2>2. k + 1 = 1 /\ k + Len(value) + 3 = 4
    BY <1>4
  <2>. HIDE DEF k
  <2>3. /\ Stands(own, k + 1, DHCPMSGTYPE, value)
        /\ from[k + 1] = {k + 1} \cup from[k + Len(value) + 3]
    BY <1>2, <2>1, OptionPlace
  <2>. QED
    BY <2>2, <2>3, Zenon
<1>6. Stands(own, 4, REQUESTEDIP, yiaddr) /\ from[4] = {4} \cup from[10]
  <2>. DEFINE k == 3
  <2>1. HasOption(own, len, k, REQUESTEDIP, yiaddr)
    BY <1>1, <1>3, <1>4, <1>15, Codes DEF HasOption
  <2>2. k + 1 = 4 /\ k + Len(yiaddr) + 3 = 10
    BY <1>4
  <2>. HIDE DEF k
  <2>3. /\ Stands(own, k + 1, REQUESTEDIP, yiaddr)
        /\ from[k + 1] = {k + 1} \cup from[k + Len(yiaddr) + 3]
    BY <1>2, <2>1, OptionPlace
  <2>. QED
    BY <2>2, <2>3, Zenon
<1>7. Stands(own, 10, SERVERID, server_id) /\ from[10] = {10} \cup from[16]
  <2>. DEFINE k == 9
  <2>1. HasOption(own, len, k, SERVERID, server_id)
    BY <1>1, <1>3, <1>4, <1>15, Codes DEF HasOption
  <2>2. k + 1 = 10 /\ k + Len(server_id) + 3 = 16
    BY <1>4
  <2>. HIDE DEF k
  <2>3. /\ Stands(own, k + 1, SERVERID, server_id)
        /\ from[k + 1] = {k + 1} \cup from[k + Len(server_id) + 3]
    BY <1>2, <2>1, OptionPlace
  <2>. QED
    BY <2>2, <2>3, Zenon
<1>8. \A j \in from[16] : j \in Nat /\ 16 <= j
  <2>1. 16 \in Nat /\ len \in Nat
    BY <1>15
  <2>2. from[16] \subseteq {j \in Nat : 16 <= j /\ j <= len}
    BY <1>1, <1>2, <2>1, PlacesBehind, Zenon
  <2>. QED
    BY <2>2
<1>. DEFINE places == Places(own, Len(own))
<1>9. places = {1, 4, 10} \cup from[16]
  BY <1>2, <1>5, <1>6, <1>7 DEF len
<1>. HIDE DEF places
<1>10. places \subseteq Nat /\ 1 \in places /\ 4 \in places /\ 10 \in places
       /\ \A j \in places : j < 10 => j \in {1, 4}
  BY <1>8, <1>9
<1>11. Asked(own, DHCPMSGTYPE) = value
  <2>1. \A j \in places : j < 1 => own[j] # DHCPMSGTYPE
    BY <1>5, <1>10, Codes DEF Stands
  <2>2. 1 \in Nat /\ IsFirst(own, 1, DHCPMSGTYPE)
    BY <1>10, <2>1 DEF places, IsFirst
  <2>. QED
    BY <1>1, <1>3, <1>5, <2>2, AskedFirst
<1>12. Asked(own, REQUESTEDIP) = yiaddr
  <2>1. \A j \in places : j < 4 => own[j] # REQUESTEDIP
    BY <1>5, <1>6, <1>10, Codes DEF Stands
  <2>2. 4 \in Nat /\ IsFirst(own, 4, REQUESTEDIP)
    BY <1>10, <2>1 DEF places, IsFirst
  <2>. QED
    BY <1>1, <1>3, <1>6, <2>2, AskedFirst
<1>13. Asked(own, SERVERID) = server_id
  <2>1. \A j \in places : j < 10 => own[j] # SERVERID
    BY <1>5, <1>6, <1>7, <1>10, Codes DEF Stands
  <2>2. 10 \in Nat /\ IsFirst(own, 10, SERVERID)
    BY <1>10, <2>1 DEF places, IsFirst
  <2>. QED
    BY <1>1, <1>3, <1>7, <2>2, AskedFirst
<1>. QED
  BY <1>11, <1>12, <1>13 DEF value

\* An option a server may send, and its options.
Option == [code : Octet \ {END}, value : {text \in Seq(Octet) : Len(text) \in Octet}]

\* Every option has a code and a value of bytes.
LEMMA OptionFields ==
    ASSUME NEW options \in Seq(Option), NEW k \in Nat, 0 < k, k <= Len(options)
    PROVE  /\ options[k].code \in Octet /\ options[k].code # END
           /\ options[k].value \in Seq(Octet) /\ Len(options[k].value) \in Octet
<1>1. options[k] \in Option
  OBVIOUS
<1>. DEFINE option == options[k]
<1>. HIDE DEF option
<1>2. option \in Option
  BY <1>1 DEF option
<1>3. /\ option.code \in Octet /\ option.code # END
      /\ option.value \in Seq(Octet) /\ Len(option.value) \in Octet
  BY <1>2 DEF Option
<1>. QED
  BY <1>3 DEF option

\* The bytes of one of the options.
BytesOf(options, k) == OptionBytes(options[k].code, options[k].value)

\* One round of the encoding.
EncodedRound(options, text, k) ==
    text[k] = IF k = 0 THEN <<>> ELSE Then(text[k - 1], BytesOf(options, k))

\* The bytes of the options, one option more after the other.
Encodes(options, text) ==
    \A k \in 0 .. Len(options) : text[k] \in Seq(Octet) /\ EncodedRound(options, text, k)

\* Parts may be put together in either order.
LEMMA ThenAssociative ==
    ASSUME NEW s \in Seq(Octet), NEW t \in Seq(Octet), NEW u \in Seq(Octet)
    PROVE  Then(Then(s, t), u) = Then(s, Then(t, u))
BY DEF Then

\* One option behind the others, byte by byte.
LEMMA OneMore ==
    ASSUME NEW text \in Seq(Octet), NEW code \in Octet, NEW value \in Seq(Octet),
           Len(value) \in Octet
    PROVE  /\ Then(text, OptionBytes(code, value)) \in Seq(Octet)
           /\ text \o <<code, Len(value)>> \o value = Then(text, OptionBytes(code, value))
<1>. DEFINE head == <<code, Len(value)>>
<1>1. head \in Seq(Octet)
  OBVIOUS
<1>2. OptionBytes(code, value) = Then(head, value)
  BY Zenon DEF OptionBytes
<1>. HIDE DEF head
<1>3. Then(Then(text, head), value) = Then(text, Then(head, value))
  BY <1>1, ThenAssociative
<1>4. text \o head \o value = Then(text, OptionBytes(code, value))
  <2>1. text \o head \o value = Then(Then(text, head), value)
    BY Zenon DEF Then
  <2>. QED
    BY <1>2, <1>3, <2>1, Zenon
<1>5. Then(text, OptionBytes(code, value)) \in Seq(Octet)
  BY OptionBytesType, HoldsBoth
<1>. QED
  BY <1>4, <1>5, Zenon DEF head

\* Encoded is what its recursion makes of the options.
LEMMA EncodedEquation ==
    ASSUME NEW options \in Seq(Option)
    PROVE  \E text : /\ Encodes(options, text)
                     /\ Encoded(options) = Then(text[Len(options)], <<END>>)
<1>. DEFINE D == 0 .. Len(options)
            body(f) ==
                [k \in D |->
                    IF k = 0 THEN <<>>
                    ELSE f[k - 1] \o <<options[k].code, Len(options[k].value)>>
                                  \o options[k].value]
            text == CHOOSE f : f = body(f)
            V == Seq(Octet)
            measure == [k \in D |-> k]
            base == {0}
            leaf == [k \in D |-> <<>>]
            next == [k \in D |-> k - 1]
            step == [k \in D |-> [s \in V |-> Then(s, BytesOf(options, k))]]
<1>1. ASSUME NEW k \in D
      PROVE  /\ measure[k] \in Nat /\ leaf[k] \in V /\ leaf[k] = <<>>
             /\ k \notin base =>
                    next[k] \in D /\ next[k] = k - 1 /\ measure[next[k]] < measure[k]
  <2>1. Len(options) \in Nat
    OBVIOUS
  <2>2. <<>> \in V
    BY EmptySeq
  <2>. QED
    BY <2>1, <2>2
<1>2. ASSUME NEW k \in D, k # 0, NEW s \in V
      PROVE  /\ Then(s, BytesOf(options, k)) \in V
             /\ s \o <<options[k].code, Len(options[k].value)>> \o options[k].value
                    = Then(s, BytesOf(options, k))
  <2>1. k \in Nat /\ 0 < k /\ k <= Len(options)
    BY <1>2
  <2>. QED
    BY <2>1, OptionFields, OneMore DEF BytesOf
<1>3. PICK f \in [D -> V] : Follows(f, D, base, leaf, next, step)
  <2>1. V # {}
    BY EmptySeq
  <2>2. ASSUME NEW k \in D, k \notin base, NEW s \in V
        PROVE  step[k][s] \in V
    <3>1. step[k][s] = Then(s, BytesOf(options, k))
      BY <2>2, Zenon
    <3>. HIDE DEF step
    <3>. QED
      BY <1>2, <2>2, <3>1
  <2>. HIDE DEF D, V, measure, base, leaf, next, step
  <2>3. Descends(D, V, measure, base, leaf, next, step)
    BY <1>1, <2>1, <2>2 DEF Descends
  <2>. QED
    BY <2>3, Recursion
<1>4. ASSUME NEW k \in D
      PROVE  /\ f[k] \in V /\ EncodedRound(options, f, k)
             /\ f[k] = IF k = 0 THEN <<>>
                       ELSE f[k - 1] \o <<options[k].code, Len(options[k].value)>>
                                     \o options[k].value
  <2>1. f[k] \in V /\ f[k] = IF k \in base THEN leaf[k] ELSE step[k][f[next[k]]]
    <3>. HIDE DEF D, V, base, leaf, next, step
    <3>. QED
      BY <1>3 DEF Follows
  <2>2. CASE k = 0
    <3>1. f[k] = <<>>
      <4>1. k \in base
        BY <2>2
      <4>. HIDE DEF D, V, base, leaf, next, step
      <4>. QED
        BY <1>1, <2>1, <4>1
    <3>. QED
      BY <2>1, <2>2, <3>1, Zenon DEF EncodedRound
  <2>3. CASE k # 0
    <3>1. k \notin base /\ next[k] \in D /\ next[k] = k - 1
      BY <1>1, <2>3
    <3>2. f[k - 1] \in V
      <4>. HIDE DEF D, V, base, leaf, next, step
      <4>. QED
        BY <1>3, <3>1
    <3>3. step[k][f[k - 1]] = Then(f[k - 1], BytesOf(options, k))
      BY <3>2, Zenon
    <3>4. f[k] = Then(f[k - 1], BytesOf(options, k))
      <4>. HIDE DEF D, V, base, leaf, next, step
      <4>. QED
        BY <2>1, <3>1, <3>3, Zenon
    <3>5. f[k - 1] \o <<options[k].code, Len(options[k].value)>> \o options[k].value
              = Then(f[k - 1], BytesOf(options, k))
      <4>. HIDE DEF D, V
      <4>. QED
        BY <1>2, <2>3, <3>2, Zenon
    <3>. QED
      BY <2>1, <2>3, <3>4, <3>5, Zenon DEF EncodedRound
  <2>. QED
    BY <2>2, <2>3
<1>5. f = body(f)
  <2>1. f = [k \in D |-> f[k]]
    <3>. HIDE DEF D, V
    <3>. QED
      BY <1>3
  <2>. QED
    BY <1>4, <2>1, Zenon
<1>6. text = body(text)
  <2>. HIDE DEF body
  <2>. QED
    BY <1>5
<1>7. Encoded(options) = Then(text[Len(options)], <<END>>)
  BY Zenon DEF Encoded, Then
<1>. HIDE DEF text
<1>8. ASSUME NEW k \in D
      PROVE  text[k] = IF k = 0 THEN <<>>
                       ELSE text[k - 1] \o <<options[k].code, Len(options[k].value)>>
                                        \o options[k].value
  <2>1. text[k] = body(text)[k]
    <3>. HIDE DEF body
    <3>. QED
      BY <1>6
  <2>. HIDE DEF D
  <2>. QED
    BY <2>1, Zenon
<1>9. ASSUME NEW k \in D, k # 0 => text[k - 1] \in V
      PROVE  text[k] \in V /\ EncodedRound(options, text, k)
  <2>1. CASE k = 0
    <3>1. text[k] = <<>>
      BY <1>8, <2>1, Zenon
    <3>2. text[k] \in V
      BY <3>1, EmptySeq
    <3>. QED
      BY <2>1, <3>1, <3>2, Zenon DEF EncodedRound
  <2>2. CASE k # 0
    <3>1. text[k] = text[k - 1] \o <<options[k].code, Len(options[k].value)>>
                               \o options[k].value
      BY <1>8, <2>2, Zenon
    <3>2. text[k - 1] \in V
      BY <1>9, <2>2
    <3>3. /\ Then(text[k - 1], BytesOf(options, k)) \in V
          /\ text[k] = Then(text[k - 1], BytesOf(options, k))
      <4>. HIDE DEF D, V
      <4>. QED
        BY <1>2, <2>2, <3>1, <3>2, Zenon
    <3>. QED
      BY <2>2, <3>3, Zenon DEF EncodedRound
  <2>. QED
    BY <2>1, <2>2
<1>10. \A k \in D : text[k] \in V
  <2>. DEFINE Wrong == {k \in D : text[k] \notin V}
  <2>1. ASSUME Wrong # {}
        PROVE  FALSE
    <3>1. Wrong \subseteq Nat
      OBVIOUS
    <3>2. PICK k \in Wrong : k # 0 => k - 1 \in Nat /\ k - 1 \notin Wrong
      <4>. HIDE DEF Wrong
      <4>. QED
        BY <2>1, <3>1, LeastWrongNatural
    <3>3. k \in D /\ text[k] \notin V /\ (k # 0 => k - 1 \in D)
      BY <3>2
    <3>4. k # 0 => text[k - 1] \in V
      BY <3>2, <3>3
    <3>. HIDE DEF D, V
    <3>. QED
      BY <1>9, <3>3, <3>4
  <2>. QED
    BY <2>1
<1>11. \A k \in D : text[k] \in V /\ EncodedRound(options, text, k)
  <2>1. \A k \in D : k # 0 => k - 1 \in D
    OBVIOUS
  <2>. HIDE DEF D, V
  <2>. QED
    BY <1>9, <1>10, <2>1
<1>. QED
  BY <1>7, <1>11, Zenon DEF Encodes

\* One option more: what is in front of it, and where it stands.
LEMMA TextStep ==
    ASSUME NEW options \in Seq(Option), NEW text, Encodes(options, text),
           NEW k \in Nat, 0 < k, k <= Len(options)
    PROVE  /\ text[k - 1] \in Seq(Octet) /\ text[k] \in Seq(Octet)
           /\ BytesOf(options, k) \in Seq(Octet)
           /\ Len(text[k]) = Len(text[k - 1]) + Len(options[k].value) + 2
           /\ Holds(text[k], 0, text[k - 1])
           /\ Holds(text[k], Len(text[k - 1]), BytesOf(options, k))
<1>. DEFINE before == text[k - 1]
            bytes == BytesOf(options, k)
<1>1. k \in 0 .. Len(options) /\ k - 1 \in 0 .. Len(options) /\ k # 0
  OBVIOUS
<1>2. before \in Seq(Octet)
  BY <1>1, Zenon DEF Encodes
<1>3. text[k] \in Seq(Octet) /\ text[k] = Then(before, bytes)
  BY <1>1, Zenon DEF Encodes, EncodedRound
<1>4. bytes \in Seq(Octet) /\ Len(bytes) = Len(options[k].value) + 2
  BY OptionFields, OptionBytesType DEF BytesOf
<1>. HIDE DEF before, bytes
<1>5. /\ Len(Then(before, bytes)) = Len(before) + Len(bytes)
      /\ Holds(Then(before, bytes), 0, before)
      /\ Holds(Then(before, bytes), Len(before), bytes)
  BY <1>2, <1>4, HoldsBoth
<1>6. Len(text[k]) = Len(before) + Len(options[k].value) + 2
  <2>1. Len(options[k].value) \in Nat /\ Len(before) \in Nat
    BY <1>2, OptionFields
  <2>. QED
    BY <1>3, <1>4, <1>5, <2>1
<1>7. Holds(text[k], 0, before) /\ Holds(text[k], Len(before), bytes)
  BY <1>3, <1>5, Zenon
<1>. QED
  BY <1>2, <1>3, <1>4, <1>6, <1>7, Zenon DEF before, bytes

\* Where an option begins, or what is behind the last one.
Start(text, k) == Len(text[k - 1]) + 1

\* It is a number, one more than the bytes in front.
LEMMA StartType ==
    ASSUME NEW options \in Seq(Option), NEW text, Encodes(options, text),
           NEW k \in Nat, 0 < k, k <= Len(options) + 1
    PROVE  Start(text, k) \in Nat /\ Start(text, k) = Len(text[k - 1]) + 1
           /\ Len(text[k - 1]) \in Nat
<1>1. k - 1 \in 0 .. Len(options)
  OBVIOUS
<1>2. text[k - 1] \in Seq(Octet)
  BY <1>1, Zenon DEF Encodes
<1>3. Len(text[k - 1]) \in Nat
  BY <1>2
<1>. QED
  BY <1>3 DEF Start

\* The next option begins behind it.
LEMMA StartNext ==
    ASSUME NEW options \in Seq(Option), NEW text, Encodes(options, text),
           NEW k \in Nat, 0 < k, k <= Len(options), NEW next, next = k + 1
    PROVE  /\ Start(text, next) = Start(text, k) + Len(options[k].value) + 2
           /\ Start(text, next) = Len(text[k - 1]) + Len(options[k].value) + 3
           /\ Start(text, next) > Start(text, k)
<1>1. Len(text[k]) = Len(text[k - 1]) + Len(options[k].value) + 2
  BY TextStep
<1>2. Start(text, k) = Len(text[k - 1]) + 1 /\ Len(text[k - 1]) \in Nat
  BY StartType
<1>3. Start(text, next) = Len(text[k]) + 1
  BY DEF Start
<1>4. Len(options[k].value) \in Nat
  BY OptionFields
<1>. DEFINE front == Len(text[k - 1])
            size == Len(options[k].value)
            all == Len(text[k])
            here == Start(text, k)
            there == Start(text, next)
<1>5. /\ all = front + size + 2 /\ here = front + 1 /\ there = all + 1
      /\ front \in Nat /\ size \in Nat
  BY <1>1, <1>2, <1>3, <1>4, Zenon
<1>. HIDE DEF front, size, all, here, there
<1>6. there = here + size + 2 /\ there = front + size + 3 /\ there > here
  BY <1>5
<1>. QED
  BY <1>6 DEF front, size, here, there

\* Options later in the offer are later in the buffer.
LEMMA StartsGrow ==
    ASSUME NEW options \in Seq(Option), NEW text, Encodes(options, text),
           NEW k \in Nat, 0 < k, NEW j \in Nat, k < j, j <= Len(options) + 1
    PROVE  Start(text, k) < Start(text, j)
<1>. DEFINE Wrong == {i \in Nat : /\ k < i /\ i <= Len(options) + 1
                                  /\ ~(Start(text, k) < Start(text, i))}
<1>1. ASSUME Wrong # {}
      PROVE  FALSE
  <2>1. PICK i \in Wrong : i # 0 => i - 1 \in Nat /\ i - 1 \notin Wrong
    <3>1. Wrong \subseteq Nat
      OBVIOUS
    <3>. HIDE DEF Wrong
    <3>. QED
      BY <1>1, <3>1, LeastWrongNatural
  <2>. DEFINE h == i - 1
  <2>2. /\ Len(options) \in Nat /\ i \in Nat /\ h \in Nat /\ i = h + 1
        /\ k <= h /\ 0 < h /\ h <= Len(options) /\ h \notin Wrong
        /\ ~(Start(text, k) < Start(text, i))
    BY <2>1
  <2>3. h # k => Start(text, k) < Start(text, h)
    BY <2>2
  <2>. HIDE DEF h, Wrong
  <2>4. Start(text, i) > Start(text, h)
    BY <2>2, StartNext
  <2>5. Start(text, i) \in Nat /\ Start(text, h) \in Nat /\ Start(text, k) \in Nat
    <3>1. i <= Len(options) + 1 /\ 0 < i /\ h <= Len(options) + 1 /\ k <= Len(options) + 1
      BY <2>2
    <3>. QED
      BY <2>2, <3>1, StartType
  <2>. QED
    BY <2>2, <2>3, <2>4, <2>5
<1>. QED
  BY <1>1

\* Every option is in the bytes of all.
LEMMA TextHolds ==
    ASSUME NEW options \in Seq(Option), NEW text, Encodes(options, text),
           NEW k \in Nat, 0 < k, NEW j \in Nat, k <= j, j <= Len(options)
    PROVE  Holds(text[j], Len(text[k - 1]), BytesOf(options, k))
<1>. DEFINE Right(i) == Holds(text[i], Len(text[k - 1]), BytesOf(options, k))
            Wrong == {i \in Nat : k <= i /\ i <= Len(options) /\ ~Right(i)}
<1>1. /\ Right(k) /\ text[k - 1] \in Seq(Octet) /\ Len(text[k - 1]) \in Nat
      /\ BytesOf(options, k) \in Seq(Octet)
  <2>1. k <= Len(options)
    OBVIOUS
  <2>2. /\ Right(k) /\ text[k - 1] \in Seq(Octet) /\ BytesOf(options, k) \in Seq(Octet)
    BY <2>1, TextStep
  <2>. QED
    BY <2>2
<1>2. ASSUME Wrong # {}
      PROVE  FALSE
  <2>1. PICK i \in Wrong : i # 0 => i - 1 \in Nat /\ i - 1 \notin Wrong
    <3>1. Wrong \subseteq Nat
      OBVIOUS
    <3>. HIDE DEF Wrong
    <3>. QED
      BY <1>2, <3>1, LeastWrongNatural
  <2>2. /\ Len(options) \in Nat /\ i \in Nat /\ 0 < i /\ i <= Len(options) /\ k <= i
        /\ ~Right(i)
    BY <2>1
  <2>3. i # k
    BY <1>1, <2>2
  <2>4. Right(i - 1)
    BY <2>1, <2>2, <2>3
  <2>. HIDE DEF Wrong
  <2>5. /\ text[i] \in Seq(Octet) /\ text[i - 1] \in Seq(Octet)
        /\ Holds(text[i], 0, text[i - 1])
    BY <2>2, TextStep
  <2>6. Right(i)
    BY <1>1, <2>4, <2>5, HoldsInFront
  <2>. QED
    BY <2>2, <2>6
<1>. QED
  BY <1>2

\* The options in the buffer, END behind them and whatever was left behind that.
Offered(options, buffer, len, text) ==
    /\ Encodes(options, text) /\ buffer \in Seq(Octet) /\ len \in Nat
    /\ Start(text, Len(options) + 1) <= len
    /\ At(buffer, Start(text, Len(options) + 1)) = END
    /\ \A k \in 1 .. Len(options) :
           Holds(buffer, Len(text[k - 1]), BytesOf(options, k))

\* Such a buffer is that of an encoded offer, whatever is behind it.
LEMMA OfferHolds ==
    ASSUME NEW options \in Seq(Option), NEW rest \in Seq(Octet),
           NEW len \in Nat, Len(Encoded(options)) <= len
    PROVE  \E text : Offered(options, Encoded(options) \o rest, len, text)
<1>1. PICK text : /\ Encodes(options, text)
                  /\ Encoded(options) = Then(text[Len(options)], <<END>>)
  BY EncodedEquation
<1>. DEFINE size == Len(options)
            all == text[size]
            end == <<END>>
            encoded == Then(all, end)
            buffer == Then(encoded, rest)
<1>2. size \in Nat /\ size \in 0 .. Len(options)
  OBVIOUS
<1>3. all \in Seq(Octet)
  BY <1>1, <1>2, Zenon DEF Encodes
<1>4. end \in Seq(Octet) /\ Len(end) = 1 /\ end[1] = END
  BY Codes
<1>5. Encoded(options) = encoded /\ Encoded(options) \o rest = buffer
  BY <1>1, Zenon DEF Then
<1>. HIDE DEF size, all, end
<1>6. /\ encoded \in Seq(Octet) /\ Len(encoded) = Len(all) + Len(end)
      /\ Holds(encoded, 0, all) /\ Holds(encoded, Len(all), end)
  BY <1>3, <1>4, HoldsBoth
<1>. HIDE DEF encoded
<1>7. buffer \in Seq(Octet) /\ Holds(buffer, 0, encoded)
  BY <1>6, HoldsBoth
<1>. HIDE DEF buffer
<1>8. Len(all) \in Nat /\ Holds(buffer, 0, all) /\ Holds(buffer, Len(all), end)
  <2>1. Len(all) \in Nat /\ 0 \in Nat
    BY <1>3
  <2>. QED
    BY <1>3, <1>4, <1>6, <1>7, <2>1, HoldsInFront
<1>9. Start(text, size + 1) = Len(all) + 1
  <2>1. (size + 1) - 1 = size
    BY <1>2
  <2>. QED
    BY <2>1 DEF Start, all
<1>10. At(buffer, Len(all) + 1) = END
  <2>. DEFINE at == Len(all) + 1
  <2>1. 1 \in 1 .. Len(end) /\ at = Len(all) + 1
    BY <1>4
  <2>. HIDE DEF at
  <2>2. At(buffer, at) = end[1]
    BY <1>4, <1>7, <1>8, <2>1, PartRead
  <2>. QED
    BY <1>4, <2>2 DEF at
<1>11. ASSUME NEW k \in 1 .. Len(options)
       PROVE  Holds(buffer, Len(text[k - 1]), BytesOf(options, k))
  <2>1. k \in Nat /\ 0 < k /\ k <= size /\ size \in Nat /\ size <= Len(options)
    BY <1>2 DEF size
  <2>2. Holds(text[size], Len(text[k - 1]), BytesOf(options, k))
    BY <1>1, <2>1, TextHolds
  <2>3. Len(text[k - 1]) \in Nat /\ BytesOf(options, k) \in Seq(Octet)
    <3>1. k <= Len(options)
      OBVIOUS
    <3>2. text[k - 1] \in Seq(Octet) /\ BytesOf(options, k) \in Seq(Octet)
      BY <1>1, <2>1, <3>1, TextStep
    <3>. QED
      BY <3>2
  <2>4. Holds(all, Len(text[k - 1]), BytesOf(options, k))
    BY <2>2 DEF all
  <2>. QED
    BY <1>3, <1>7, <1>8, <2>3, <2>4, HoldsInFront
<1>12. Start(text, size + 1) <= len
  <2>1. Len(encoded) = Len(all) + 1
    BY <1>4, <1>6
  <2>. QED
    BY <1>5, <1>9, <2>1
<1>13. Offered(options, buffer, len, text)
  BY <1>1, <1>7, <1>9, <1>10, <1>11, <1>12 DEF Offered, size
<1>. QED
  BY <1>5, <1>13

\* Each option stands where it begins, and the loop goes on with the next.
LEMMA OfferPlace ==
    ASSUME NEW options \in Seq(Option), NEW buffer, NEW len, NEW text,
           Offered(options, buffer, len, text), NEW from, Scans(buffer, len, from),
           NEW k \in Nat, 0 < k, k <= Len(options)
    PROVE  /\ Stands(buffer, Start(text, k), options[k].code, options[k].value)
           /\ from[Start(text, k)] = {Start(text, k)} \cup from[Start(text, k + 1)]
<1>. DEFINE front == Len(text[k - 1])
            code == options[k].code
            value == options[k].value
<1>1. /\ code \in Octet /\ code # END /\ value \in Seq(Octet) /\ Len(value) \in Octet
  BY OptionFields
<1>2. Start(text, k) = front + 1 /\ front \in Nat
  <2>1. Encodes(options, text) /\ k <= Len(options) + 1
    BY DEF Offered
  <2>. QED
    BY <2>1, StartType
<1>3. Start(text, k + 1) = front + Len(value) + 3
  <2>. DEFINE next == k + 1
  <2>1. next = k + 1
    OBVIOUS
  <2>. HIDE DEF next
  <2>2. Encodes(options, text)
    BY DEF Offered
  <2>3. Start(text, next) = front + Len(value) + 3
    BY <2>1, <2>2, StartNext
  <2>. QED
    BY <2>3 DEF next
<1>4. front < len
  <2>. DEFINE behind == Len(options) + 1
  <2>1. k < behind /\ behind \in Nat /\ behind <= Len(options) + 1
    OBVIOUS
  <2>2. Encodes(options, text) /\ len \in Nat /\ Start(text, behind) <= len
    BY DEF Offered
  <2>. HIDE DEF behind
  <2>3. Start(text, k) < Start(text, behind) /\ Start(text, behind) \in Nat
    <3>1. 0 < behind
      BY <2>1
    <3>. QED
      BY <2>1, <2>2, <3>1, StartsGrow, StartType
  <2>. HIDE DEF front
  <2>. QED
    BY <1>2, <2>2, <2>3
<1>5. HasOption(buffer, len, front, code, value)
  <2>1. Holds(buffer, front, OptionBytes(code, value))
    <3>1. k \in 1 .. Len(options)
      OBVIOUS
    <3>. QED
      BY <3>1, Zenon DEF Offered, BytesOf
  <2>2. buffer \in Seq(Octet) /\ len \in Nat
    BY DEF Offered
  <2>. HIDE DEF front, code, value
  <2>. QED
    BY <1>1, <1>2, <1>4, <2>1, <2>2 DEF HasOption
<1>6. /\ Stands(buffer, front + 1, code, value)
      /\ from[front + 1] = {front + 1} \cup from[front + Len(value) + 3]
  <2>. HIDE DEF front, code, value
  <2>. QED
    BY <1>5, OptionPlace
<1>. QED
  BY <1>2, <1>3, <1>6, Zenon

\* The loop of parse_opions looks at the options of the offer and at nothing else.
LEMMA OfferPlaces ==
    ASSUME NEW options \in Seq(Option), NEW buffer, NEW len, NEW text,
           Offered(options, buffer, len, text)
    PROVE  Places(buffer, len) = {Start(text, j) : j \in 1 .. Len(options)}
<1>1. buffer \in Seq(Octet) /\ len \in Nat /\ Encodes(options, text)
  BY DEF Offered
<1>2. PICK from : Places(buffer, len) = from[1] /\ Scans(buffer, len, from)
  BY <1>1, PlacesEquation
<1>. DEFINE size == Len(options)
            Right(k) == from[Start(text, k)] = {Start(text, j) : j \in k .. size}
            D == 1 .. size + 1
            Wrong == {k \in D : ~Right(k)}
            measure == [k \in D |-> size + 1 - k]
<1>3. size \in Nat
  OBVIOUS
<1>4. Right(size + 1)
  <2>. DEFINE end == Start(text, size + 1)
  <2>1. end \in Nat
    <3>. DEFINE behind == size + 1
    <3>1. behind \in Nat /\ 0 < behind /\ behind <= Len(options) + 1
      BY <1>3
    <3>. HIDE DEF behind
    <3>2. Start(text, behind) \in Nat
      BY <1>1, <3>1, StartType
    <3>. QED
      BY <3>2 DEF behind
  <2>2. At(buffer, end) = END
    BY DEF Offered
  <2>. HIDE DEF end
  <2>3. PlacesRound(buffer, len, from, end)
    BY <1>2, <2>1 DEF Scans
  <2>4. from[end] = {}
    BY <2>2, <2>3 DEF PlacesRound
  <2>5. (size + 1) .. size = {}
    BY <1>3
  <2>. QED
    BY <2>4, <2>5 DEF end
<1>5. ASSUME NEW k \in 1 .. size, Right(k + 1)
      PROVE  Right(k)
  <2>1. from[Start(text, k)] = {Start(text, k)} \cup from[Start(text, k + 1)]
    <3>1. k \in Nat /\ 0 < k /\ k <= Len(options)
      OBVIOUS
    <3>. QED
      BY <1>2, <3>1, OfferPlace
  <2>2. k .. size = {k} \cup ((k + 1) .. size)
    BY <1>3
  <2>. QED
    BY <1>5, <2>1, <2>2
<1>6. ASSUME Wrong # {}
      PROVE  FALSE
  <2>1. \A k \in D : measure[k] \in Nat
    BY <1>3
  <2>2. Wrong \subseteq D
    OBVIOUS
  <2>3. PICK k \in Wrong : \A j \in D : measure[j] < measure[k] => j \notin Wrong
    <3>. HIDE DEF D, Wrong, measure
    <3>. QED
      BY <1>6, <2>1, <2>2, LeastWrong
  <2>4. k # size + 1
    BY <1>4, <2>3
  <2>5. k \in 1 .. size /\ k + 1 \in D /\ measure[k + 1] < measure[k]
    BY <1>3, <2>3, <2>4
  <2>6. Right(k + 1) /\ ~Right(k)
    BY <2>3, <2>5
  <2>. HIDE DEF Right, D, Wrong, measure
  <2>. QED
    BY <1>5, <2>5, <2>6
<1>7. Right(1)
  BY <1>3, <1>6
<1>8. Start(text, 1) = 1
  <2>1. text[0] = <<>>
    <3>1. 0 \in 0 .. Len(options)
      BY <1>3
    <3>. QED
      BY <1>1, <3>1, Zenon DEF Encodes, EncodedRound
  <2>2. Start(text, 1) = Len(text[0]) + 1
    BY DEF Start
  <2>. QED
    BY <2>1, <2>2
<1>. QED
  BY <1>2, <1>7, <1>8

\* What lies in the buffer are bytes, those of the offer among them.
LEMMA OfferType ==
    ASSUME NEW options \in Seq(Option), NEW rest \in Seq(Octet)
    PROVE  /\ Encoded(options) \o rest \in Seq(Octet)
           /\ Len(Encoded(options)) \in Nat
           /\ Len(Encoded(options)) <= Len(Encoded(options) \o rest)
<1>1. PICK text : /\ Encodes(options, text)
                  /\ Encoded(options) = Then(text[Len(options)], <<END>>)
  BY EncodedEquation
<1>. DEFINE all == text[Len(options)]
            end == <<END>>
            encoded == Then(all, end)
            buffer == Then(encoded, rest)
<1>2. all \in Seq(Octet)
  <2>1. Len(options) \in 0 .. Len(options)
    OBVIOUS
  <2>. QED
    BY <1>1, <2>1, Zenon DEF Encodes
<1>3. end \in Seq(Octet)
  BY Codes
<1>4. Encoded(options) = encoded /\ Encoded(options) \o rest = buffer
  BY <1>1, Zenon DEF Then
<1>. HIDE DEF all, end
<1>5. encoded \in Seq(Octet)
  BY <1>2, <1>3, HoldsBoth
<1>. HIDE DEF encoded
<1>6. buffer \in Seq(Octet) /\ Len(buffer) = Len(encoded) + Len(rest)
  BY <1>5, HoldsBoth
<1>. HIDE DEF buffer
<1>7. Len(encoded) \in Nat /\ Len(rest) \in Nat
  BY <1>5
<1>. QED
  BY <1>4, <1>6, <1>7

\* What parse_opions keeps is an address, sent or not.
LEMMA ParsedType ==
    ASSUME NEW buffer \in Seq(Octet), NEW len, NEW kept, NEW code \in Kept,
           kept[code] \in Address
    PROVE  parse_opions(buffer, len, kept)[code] \in Address
<1>. DEFINE place == LastPlace(buffer, len, code)
<1>1. parse_opions(buffer, len, kept)[code] =
          IF place = 0 THEN kept[code] ELSE Four(buffer, place + 2)
  BY Zenon DEF parse_opions
<1>. HIDE DEF place
<1>2. Four(buffer, place + 2) \in Address
  BY AtType DEF Four, Address
<1>. QED
  BY <1>1, <1>2

\* What is greatest is the maximum.
LEMMA MaxIs ==
    ASSUME NEW S, S \subseteq Nat, NEW max \in S, \A x \in S : max >= x
    PROVE  Max(S) = max
<1>. DEFINE found == Max(S)
<1>1. found \in S /\ \A x \in S : found >= x
  BY DEF Max
<1>. HIDE DEF found
<1>2. found = max
  BY <1>1
<1>. QED
  BY <1>2 DEF found

\* A set of numbers up to some number has a greatest.
LEMMA HasMax ==
    ASSUME NEW size \in Nat, NEW S, S \subseteq 1 .. size, S # {}
    PROVE  Max(S) \in S /\ \A x \in S : x <= Max(S)
<1>. DEFINE gaps == {size - x : x \in S}
<1>1. gaps \subseteq Nat /\ gaps # {}
  <2>1. \A x \in S : size - x \in Nat
    OBVIOUS
  <2>. QED
    BY <2>1
<1>2. PICK gap \in gaps : \A other \in gaps : gap <= other
  <2>. HIDE DEF gaps
  <2>. QED
    BY <1>1, LeastNatural
<1>3. PICK max \in S : gap = size - max
  BY <1>2
<1>4. ASSUME NEW x \in S
      PROVE  max >= x
  <2>1. x \in Nat /\ max \in Nat /\ size - x \in gaps
    <3>1. x \in 1 .. size /\ max \in 1 .. size
      OBVIOUS
    <3>2. size - x \in gaps
      BY Zenon
    <3>. QED
      BY <3>1, <3>2
  <2>2. gap <= size - x
    BY <1>2, <2>1
  <2>. QED
    BY <1>3, <2>1, <2>2
<1>5. Max(S) = max
  <2>1. S \subseteq Nat
    OBVIOUS
  <2>. QED
    BY <1>4, <2>1, MaxIs
<1>. QED
  BY <1>4, <1>5

\* The value of the last option of this kind.
LastSent(options, code, none) ==
    LET places == {k \in DOMAIN options : options[k].code = code}
    IN  IF places = {} THEN none ELSE options[Max(places)].value

\* The last option of its kind in the buffer is the last in the offer.
LEMMA OfferLast ==
    ASSUME NEW options \in Seq(Option), NEW buffer, NEW len, NEW text,
           Offered(options, buffer, len, text), NEW code, NEW none
    PROVE  \/ LastPlace(buffer, len, code) = 0 /\ LastSent(options, code, none) = none
           \/ \E k \in 1 .. Len(options) :
                 /\ LastPlace(buffer, len, code) = Start(text, k) /\ Start(text, k) \in Nat
                 /\ Start(text, k) # 0 /\ options[k].code = code
                 /\ LastSent(options, code, none) = options[k].value
                 /\ Stands(buffer, Start(text, k), options[k].code, options[k].value)
<1>. DEFINE J == {k \in 1 .. Len(options) : options[k].code = code}
            places == {k \in Places(buffer, len) : At(buffer, k) = code}
<1>1. DOMAIN options = 1 .. Len(options) /\ Len(options) \in Nat
  OBVIOUS
<1>2. LastSent(options, code, none) = IF J = {} THEN none ELSE options[Max(J)].value
  BY <1>1, Zenon DEF LastSent
<1>3. LastPlace(buffer, len, code) = IF places = {} THEN 0 ELSE Max(places)
  BY Zenon DEF LastPlace
<1>4. ASSUME NEW k \in 1 .. Len(options)
      PROVE  /\ Start(text, k) \in Nat /\ Start(text, k) # 0
             /\ Stands(buffer, Start(text, k), options[k].code, options[k].value)
             /\ At(buffer, Start(text, k)) = options[k].code
  <2>1. /\ k \in Nat /\ 0 < k /\ k <= Len(options) /\ k <= Len(options) + 1
        /\ Encodes(options, text) /\ buffer \in Seq(Octet) /\ len \in Nat
    BY DEF Offered
  <2>2. Start(text, k) \in Nat /\ Start(text, k) # 0
    <3>1. Start(text, k) = Len(text[k - 1]) + 1 /\ Len(text[k - 1]) \in Nat
      BY <2>1, StartType
    <3>. QED
      BY <3>1
  <2>3. PICK from : Scans(buffer, len, from)
    BY <2>1, PlacesEquation
  <2>4. Stands(buffer, Start(text, k), options[k].code, options[k].value)
    BY <2>1, <2>3, OfferPlace
  <2>. QED
    BY <2>2, <2>4 DEF Stands
<1>5. places = {Start(text, k) : k \in J}
  <2>1. Places(buffer, len) = {Start(text, k) : k \in 1 .. Len(options)}
    BY OfferPlaces
  <2>. QED
    BY <1>4, <2>1
<1>6. J \subseteq 1 .. Len(options)
  OBVIOUS
<1>7. CASE J = {}
  BY <1>2, <1>3, <1>5, <1>7
<1>8. CASE J # {}
  <2>. DEFINE last == Max(J)
  <2>1. last \in J /\ \A k \in J : k <= last
    <3>. HIDE DEF J
    <3>. QED
      BY <1>1, <1>6, <1>8, HasMax
  <2>2. last \in 1 .. Len(options) /\ options[last].code = code
    BY <2>1
  <2>3. LastSent(options, code, none) = options[last].value
    BY <1>2, <1>8
  <2>. HIDE DEF last
  <2>4. Max(places) = Start(text, last)
    <3>1. places \subseteq Nat /\ Start(text, last) \in places
      BY <1>4, <1>5, <2>1
    <3>2. ASSUME NEW k \in J
          PROVE  Start(text, last) >= Start(text, k)
      <4>1. /\ k \in Nat /\ last \in Nat /\ 0 < k /\ k <= last /\ last <= Len(options) + 1
            /\ Start(text, k) \in Nat /\ Start(text, last) \in Nat
        BY <1>4, <2>1, <2>2
      <4>2. Encodes(options, text)
        BY DEF Offered
      <4>3. CASE k = last
        BY <4>1, <4>3
      <4>4. CASE k < last
        <5>1. Start(text, k) < Start(text, last)
          BY <4>1, <4>2, <4>4, StartsGrow
        <5>. QED
          BY <4>1, <5>1
      <4>. QED
        BY <4>1, <4>3, <4>4
    <3>3. \A x \in places : Start(text, last) >= x
      BY <1>5, <3>2
    <3>. HIDE DEF places
    <3>. QED
      BY <3>1, <3>3, MaxIs
  <2>5. places # {}
    BY <1>5, <2>1
  <2>6. LastPlace(buffer, len, code) = Start(text, last)
    BY <1>3, <2>4, <2>5
  <2>. QED
    BY <1>4, <2>2, <2>3, <2>6
<1>. QED
  BY <1>7, <1>8

\* The value is read where the option stands.
LEMMA FourRead ==
    ASSUME NEW buffer \in Seq(Octet), NEW value \in Seq(Octet), Len(value) = 4,
           NEW place \in Nat, NEW code, Stands(buffer, place, code, value)
    PROVE  Four(buffer, place + 2) = value
<1>. DEFINE four == Four(buffer, place + 2)
            at == place + 1
<1>1. at \in Nat /\ Holds(buffer, at, value)
  BY DEF Stands
<1>2. four = [m \in 1 .. 4 |-> At(buffer, place + 2 + m - 1)]
  BY DEF Four
<1>3. \A m \in 1 .. 4 : At(buffer, place + 2 + m - 1) = value[m]
  <2>1. ASSUME NEW m \in 1 .. 4
        PROVE  At(buffer, place + 2 + m - 1) = value[m]
    <3>. DEFINE there == at + m
    <3>1. there = place + 2 + m - 1 /\ there = at + m /\ m \in 1 .. Len(value)
      OBVIOUS
    <3>. HIDE DEF at, there
    <3>2. \A i \in 1 .. Len(value) : At(buffer, at + i) = value[i]
      BY <1>1, PartRead
    <3>3. At(buffer, there) = value[m]
      BY <3>1, <3>2
    <3>. QED
      BY <3>1, <3>3, Zenon
  <2>. QED
    BY <2>1
<1>4. value = [m \in 1 .. 4 |-> value[m]]
  OBVIOUS
<1>. QED
  BY <1>2, <1>3, <1>4, Zenon

\* The kept options hold four bytes, the message type one.
RightLengths(options) ==
    \A k \in 1 .. Len(options) :
        /\ options[k].code \in Kept => Len(options[k].value) = 4
        /\ options[k].code = DHCPMSGTYPE => Len(options[k].value) = 1

\* What the buffer holds behind the header: an offer, and what was there before.
InBuffer(options, rest) == Encoded(options) \o rest

\* From an offer parse_opions takes, of each kind the client keeps, the value of
\* the last option, and leaves the others alone, whatever lies behind the offer
\* and however much too large the length is that dhcpIn is given.
THEOREM OffersParsed ==
    ASSUME NEW options \in Seq(Option), NEW rest \in Seq(Octet),
           NEW len \in Nat, Len(Encoded(options)) <= len,
           RightLengths(options), NEW kept
    PROVE  /\ \A code \in Kept :
                 parse_opions(InBuffer(options, rest), len, kept)[code] =
                     LastSent(options, code, kept[code])
           /\ <<MessageType(InBuffer(options, rest), len)>> =
                  LastSent(options, DHCPMSGTYPE, <<0>>)
<1>. DEFINE buffer == InBuffer(options, rest)
<1>1. PICK text : Offered(options, buffer, len, text)
  BY OfferHolds DEF InBuffer
<1>. HIDE DEF buffer
<1>2. buffer \in Seq(Octet)
  BY <1>1 DEF Offered
<1>3. ASSUME NEW code \in Kept
      PROVE  parse_opions(buffer, len, kept)[code] = LastSent(options, code, kept[code])
  <2>. DEFINE place == LastPlace(buffer, len, code)
              none == kept[code]
  <2>1. parse_opions(buffer, len, kept)[code] =
            IF place = 0 THEN none ELSE Four(buffer, place + 2)
    BY Zenon DEF parse_opions
  <2>. HIDE DEF none
  <2>2. \/ place = 0 /\ LastSent(options, code, none) = none
        \/ \E k \in 1 .. Len(options) :
              /\ place = Start(text, k) /\ Start(text, k) \in Nat
              /\ Start(text, k) # 0 /\ options[k].code = code
              /\ LastSent(options, code, none) = options[k].value
              /\ Stands(buffer, Start(text, k), options[k].code, options[k].value)
    BY <1>1, OfferLast
  <2>. HIDE DEF place
  <2>3. CASE place = 0
    BY <2>1, <2>2, <2>3 DEF none
  <2>4. CASE place # 0
    <3>1. PICK k \in 1 .. Len(options) :
              /\ place \in Nat /\ options[k].code = code
              /\ LastSent(options, code, none) = options[k].value
              /\ Stands(buffer, place, options[k].code, options[k].value)
      BY <2>2, <2>4
    <3>2. options[k].value \in Seq(Octet) /\ Len(options[k].value) = 4
      BY <3>1, OptionFields DEF RightLengths
    <3>3. Four(buffer, place + 2) = options[k].value
      BY <1>2, <3>1, <3>2, FourRead
    <3>. QED
      BY <2>1, <2>4, <3>1, <3>3 DEF none
  <2>. QED
    BY <2>3, <2>4
<1>4. <<MessageType(buffer, len)>> = LastSent(options, DHCPMSGTYPE, <<0>>)
  <2>. DEFINE place == LastPlace(buffer, len, DHCPMSGTYPE)
              none == <<0>>
  <2>1. MessageType(buffer, len) = IF place = 0 THEN 0 ELSE At(buffer, place + 2)
    BY Zenon DEF MessageType
  <2>. HIDE DEF none
  <2>2. \/ place = 0 /\ LastSent(options, DHCPMSGTYPE, none) = none
        \/ \E k \in 1 .. Len(options) :
              /\ place = Start(text, k) /\ Start(text, k) \in Nat
              /\ Start(text, k) # 0 /\ options[k].code = DHCPMSGTYPE
              /\ LastSent(options, DHCPMSGTYPE, none) = options[k].value
              /\ Stands(buffer, Start(text, k), options[k].code, options[k].value)
    BY <1>1, OfferLast
  <2>. HIDE DEF place
  <2>3. CASE place = 0
    BY <2>1, <2>2, <2>3 DEF none
  <2>4. CASE place # 0
    <3>1. PICK k \in 1 .. Len(options) :
              /\ place \in Nat /\ options[k].code = DHCPMSGTYPE
              /\ LastSent(options, DHCPMSGTYPE, none) = options[k].value
              /\ Stands(buffer, place, options[k].code, options[k].value)
      BY <2>2, <2>4
    <3>. DEFINE value == options[k].value
    <3>2. value \in Seq(Octet) /\ Len(value) = 1
      BY <3>1, OptionFields DEF RightLengths
    <3>3. At(buffer, place + 2) = value[1]
      <4>. DEFINE at == place + 1
                  there == place + 2
      <4>1. at \in Nat /\ Holds(buffer, at, value) /\ there = at + 1
        BY <3>1 DEF Stands
      <4>. HIDE DEF at, there, value
      <4>2. 1 \in 1 .. Len(value)
        BY <3>2
      <4>3. \A i \in 1 .. Len(value) : At(buffer, at + i) = value[i]
        BY <1>2, <3>2, <4>1, PartRead
      <4>4. At(buffer, there) = value[1]
        BY <4>1, <4>2, <4>3
      <4>. QED
        BY <4>4 DEF there
    <3>. HIDE DEF value
    <3>4. value = <<value[1]>>
      BY <3>2
    <3>. QED
      BY <2>1, <2>4, <3>1, <3>3, <3>4 DEF none, value
  <2>. QED
    BY <2>3, <2>4
<1>. QED
  BY <1>3, <1>4 DEF buffer

---------------------------------------------------------------------------
(* Printing *)

Values == 0 .. Modulus - 1

\* A remainder is of the type that holds it.
LEMMA WrapType ==
    ASSUME NEW a \in Int
    PROVE  Wrap(a) \in Values /\ (a \in Values => Wrap(a) = a)
<1>1. Modulus \in Nat /\ Modulus > 0
  BY ModulusAssumption
<1>2. (a % Modulus) \in 0 .. Modulus - 1 /\ (a \in 0 .. Modulus - 1 => (a % Modulus) = a)
  BY <1>1
<1>. QED
  BY <1>2 DEF Wrap, Values

\* Products grow.
LEMMA Grows ==
    ASSUME NEW a \in Nat, a > 0, NEW b \in Nat, b >= 2
    PROVE  a * b \in Nat /\ a * b > a
OBVIOUS

\* The product of the loop that is tested after it may have wrapped is the true one
\* when the test lets it pass.
LEMMA OverflowSeen ==
    ASSUME NEW value \in Values, NEW b \in Nat, b >= 2, NEW idx \in 1 .. Modulus,
           NEW next, next = Wrap(idx * b)
    PROVE  /\ (next <= value /\ next \div b = idx) <=> idx * b <= value
           /\ idx * b <= value => next = idx * b /\ next \in 1 .. Modulus /\ idx < next
<1>1. Modulus \in Nat /\ Modulus > 0 /\ idx \in Nat /\ idx > 0 /\ value \in Nat /\ value < Modulus
  BY ModulusAssumption DEF Values
<1>. DEFINE p == idx * b
<1>2. p \in Nat /\ idx < p
  BY <1>1, Grows
<1>3. p \div b = idx
  BY <1>1
<1>4. next \in Nat /\ next < Modulus /\ (p < Modulus => next = p)
  BY <1>1, <1>2, WrapType DEF Values
<1>5. CASE p <= value
  BY <1>1, <1>2, <1>3, <1>4, <1>5
<1>6. CASE p > value
  <2>. SUFFICES ASSUME next <= value, next \div b = idx
                PROVE  FALSE
    BY <1>2, <1>1, <1>6
  <2>1. next = b * (next \div b) + (next % b) /\ (next % b) \in Nat
    BY <1>4, Division
  <2>2. b * (next \div b) = p
    BY <1>1
  <2>3. next >= p
    BY <2>1, <2>2, <1>2, <1>4
  <2>. QED
    BY <2>3, <1>1, <1>2, <1>4, <1>6
<1>. QED
  BY <1>1, <1>2, <1>5, <1>6

\* What the loop may end with.
Scales == [idx : 1 .. Modulus, count : Values]

\* One round of the loop.
ScaleRound(value, base, count, f, idx) ==
    f[idx] = IF idx * base <= value
             THEN [f[idx * base] EXCEPT !.count = Wrap(@ - 1)]
             ELSE [idx |-> idx, count |-> count]

\* Scale is what its loop makes of it, as if nothing wrapped.
LEMMA ScaleEquation ==
    ASSUME NEW value \in Values, NEW base \in Nat, base >= 2, NEW count \in Values
    PROVE  \E loop :
               /\ Scale(value, base, count) = loop[1]
               /\ \A idx \in 1 .. Modulus :
                     loop[idx] \in Scales /\ ScaleRound(value, base, count, loop, idx)
<1>. DEFINE D == 1 .. Modulus
            goes(idx) == Wrap(idx * base) <= value /\ Wrap(idx * base) \div base = idx
            body(f) ==
                [idx \in D |->
                    IF Wrap(idx * base) <= value /\ Wrap(idx * base) \div base = idx
                    THEN [f[Wrap(idx * base)] EXCEPT !.count = Wrap(@ - 1)]
                    ELSE [idx |-> idx, count |-> count]]
            loop == CHOOSE f : f = body(f)
            less(s) == [s EXCEPT !.count = Wrap(@ - 1)]
            V == Scales
            measure == [idx \in D |-> Modulus - idx]
            base0 == {idx \in D : ~goes(idx)}
            leaf == [idx \in D |-> [idx |-> idx, count |-> count]]
            next == [idx \in D |-> Wrap(idx * base)]
            step == [idx \in D |-> [s \in V |-> less(s)]]
<1>1. Modulus \in Nat /\ Modulus > 1
  BY ModulusAssumption
<1>2. ASSUME NEW s \in V
      PROVE  less(s) \in V
  <2>1. s.count - 1 \in Int
    BY DEF Scales, Values
  <2>2. Wrap(s.count - 1) \in Values
    BY <2>1, WrapType
  <2>. QED
    BY <2>2 DEF Scales
<1>3. ASSUME NEW idx \in D, goes(idx)
      PROVE  Wrap(idx * base) = idx * base /\ Wrap(idx * base) \in D /\ idx < Wrap(idx * base)
  BY <1>3, OverflowSeen
<1>4. \A idx \in D : goes(idx) <=> idx * base <= value
  BY OverflowSeen
<1>5. Descends(D, V, measure, base0, leaf, next, step)
  <2>1. ASSUME NEW idx \in D
        PROVE  measure[idx] \in Nat /\ leaf[idx] \in V
    BY <1>1 DEF Scales
  <2>2. ASSUME NEW idx \in D, idx \notin base0
        PROVE  next[idx] \in D /\ measure[next[idx]] < measure[idx]
    <3>1. goes(idx) /\ next[idx] = Wrap(idx * base)
      <4>. HIDE DEF goes
      <4>. QED
        BY <2>2
    <3>2. next[idx] \in D /\ idx < next[idx]
      <4>. HIDE DEF next, goes, D
      <4>. QED
        BY <1>3, <3>1
    <3>. HIDE DEF next
    <3>. QED
      BY <1>1, <3>2
  <2>3. ASSUME NEW idx \in D, NEW s \in V
        PROVE  step[idx][s] \in V
    <3>1. step[idx][s] = less(s)
      <4>. HIDE DEF less
      <4>. QED
        BY Zenon
    <3>. HIDE DEF step
    <3>. QED
      BY <1>2, <3>1
  <2>4. V # {}
    <3>1. leaf[1] \in V
      BY <2>1, <1>1
    <3>. QED
      BY <3>1
  <2>. HIDE DEF D, V, measure, base0, leaf, next, step
  <2>. QED
    BY <2>1, <2>2, <2>3, <2>4 DEF Descends
<1>6. ASSUME NEW f, f = body(f)
      PROVE  \A idx \in D :
                 f[idx] = IF goes(idx) THEN less(f[Wrap(idx * base)])
                          ELSE [idx |-> idx, count |-> count]
  <2>1. \A idx \in D : f[idx] = body(f)[idx]
    <3>. HIDE DEF body
    <3>. QED
      BY <1>6
  <2>. QED
    BY <2>1, Zenon
<1>7. PICK f \in [D -> V] : Follows(f, D, base0, leaf, next, step)
  <2>. HIDE DEF D, V, measure, base0, leaf, next, step
  <2>. QED
    BY <1>5, Recursion
<1>8. ASSUME NEW idx \in D, NEW g, goes(idx) => g[Wrap(idx * base)] \in V
      PROVE  (g[idx] = IF idx \in base0 THEN leaf[idx] ELSE step[idx][g[next[idx]]])
                <=> g[idx] = IF goes(idx) THEN less(g[Wrap(idx * base)])
                             ELSE [idx |-> idx, count |-> count]
  <2>1. CASE goes(idx)
    <3>1. idx \notin base0 /\ next[idx] = Wrap(idx * base)
      <4>. HIDE DEF goes
      <4>. QED
        BY <2>1
    <3>2. step[idx][g[Wrap(idx * base)]] = less(g[Wrap(idx * base)])
      <4>. HIDE DEF less
      <4>. QED
        BY <1>8, <2>1, Zenon
    <3>. HIDE DEF goes, less, step, next, base0
    <3>. QED
      BY <2>1, <3>1, <3>2, Zenon
  <2>2. CASE ~goes(idx)
    <3>1. idx \in base0 /\ leaf[idx] = [idx |-> idx, count |-> count]
      <4>. HIDE DEF goes
      <4>. QED
        BY <2>2
    <3>. HIDE DEF goes, less, step, next, base0, leaf
    <3>. QED
      BY <2>2, <3>1, Zenon
  <2>. QED
    BY <2>1, <2>2
<1>9. f = body(f)
  <2>1. ASSUME NEW idx \in D
        PROVE  f[idx] = IF goes(idx) THEN less(f[Wrap(idx * base)])
                        ELSE [idx |-> idx, count |-> count]
    <3>1. goes(idx) => f[Wrap(idx * base)] \in V
      <4>. HIDE DEF D, V, goes
      <4>. QED
        BY <1>3, <1>7
    <3>2. f[idx] = IF idx \in base0 THEN leaf[idx] ELSE step[idx][f[next[idx]]]
      <4>. HIDE DEF D, V, base0, leaf, next, step
      <4>. QED
        BY <1>7 DEF Follows
    <3>. HIDE DEF D, V, base0, leaf, next, step, goes, less
    <3>. QED
      BY <1>8, <3>1, <3>2, Zenon
  <2>2. f = [idx \in D |-> f[idx]]
    <3>. HIDE DEF D, V
    <3>. QED
      BY <1>7
  <2>. HIDE DEF D
  <2>. QED
    BY <2>1, <2>2, Zenon
<1>10. loop = body(loop)
  <2>. HIDE DEF body
  <2>. QED
    BY <1>9
<1>11. Scale(value, base, count) = loop[1]
  BY Zenon DEF Scale
<1>. HIDE DEF loop
<1>12. \A idx \in D :
           loop[idx] = IF goes(idx) THEN less(loop[Wrap(idx * base)])
                       ELSE [idx |-> idx, count |-> count]
  <2>. HIDE DEF D, goes, less, body
  <2>. QED
    BY <1>6, <1>10, Zenon
<1>13. \A idx \in D : loop[idx] \in V
  <2>. DEFINE Wrong == {idx \in D : loop[idx] \notin V}
  <2>1. ASSUME Wrong # {}
        PROVE  FALSE
    <3>1. Wrong \subseteq D /\ \A idx \in D : measure[idx] \in Nat
      BY <1>1
    <3>2. PICK idx \in Wrong : \A y \in D : measure[y] < measure[idx] => y \notin Wrong
      <4>. HIDE DEF D, Wrong, measure
      <4>. QED
        BY <2>1, <3>1, LeastWrong
    <3>3. idx \in D /\ loop[idx] \notin V
      BY <3>2
    <3>4. CASE goes(idx)
      <4>. DEFINE then == Wrap(idx * base)
      <4>1. then \in D /\ idx < then
        <5>. HIDE DEF D, goes
        <5>. QED
          BY <1>3, <3>3, <3>4
      <4>. HIDE DEF then
      <4>2. measure[then] < measure[idx]
        BY <1>1, <3>3, <4>1
      <4>3. loop[then] \in V
        BY <3>2, <4>1, <4>2
      <4>4. loop[idx] = less(loop[then])
        <5>. HIDE DEF D, goes, less
        <5>. QED
          BY <1>12, <3>3, <3>4, Zenon DEF then
      <4>. HIDE DEF V, less
      <4>. QED
        BY <1>2, <3>3, <4>3, <4>4
    <3>5. CASE ~goes(idx)
      <4>1. loop[idx] = leaf[idx]
        <5>. HIDE DEF goes, less
        <5>. QED
          BY <1>12, <3>3, <3>5
      <4>2. leaf[idx] \in V
        BY <3>3 DEF Scales
      <4>. QED
        BY <3>3, <4>1, <4>2
    <3>. QED
      BY <3>4, <3>5
  <2>. QED
    BY <2>1
<1>14. ASSUME NEW idx \in D
       PROVE  ScaleRound(value, base, count, loop, idx)
  <2>1. CASE goes(idx)
    <3>1. Wrap(idx * base) = idx * base /\ idx * base <= value
      <4>. HIDE DEF goes
      <4>. QED
        BY <1>3, <1>4, <2>1
    <3>2. loop[idx] = less(loop[idx * base])
      <4>. HIDE DEF goes, less
      <4>. QED
        BY <1>12, <2>1, <3>1
    <3>. QED
      BY <3>1, <3>2, Zenon DEF ScaleRound
  <2>2. CASE ~goes(idx)
    <3>1. ~(idx * base <= value)
      <4>. HIDE DEF goes
      <4>. QED
        BY <1>4, <2>2
    <3>2. loop[idx] = [idx |-> idx, count |-> count]
      <4>. HIDE DEF goes, less
      <4>. QED
        BY <1>12, <2>2, Zenon
    <3>. QED
      BY <3>1, <3>2, Zenon DEF ScaleRound
  <2>. QED
    BY <2>1, <2>2
<1>. QED
  BY <1>11, <1>13, <1>14

\* The powers of base.
Powers(base, pow) ==
    \A n \in Nat : /\ pow[n] \in Nat
                   /\ pow[n] = IF n = 0 THEN 1 ELSE pow[n - 1] * base

\* There are such.
LEMMA PowersExist ==
    ASSUME NEW base \in Nat
    PROVE  \E pow : Powers(base, pow)
<1>. DEFINE measure == [n \in Nat |-> n]
            leaf == [n \in Nat |-> 1]
            next == [n \in Nat |-> n - 1]
            step == [n \in Nat |-> [p \in Nat |-> p * base]]
<1>1. ASSUME NEW n \in Nat
      PROVE  /\ measure[n] \in Nat /\ leaf[n] \in Nat /\ leaf[n] = 1
             /\ n \notin {0} => /\ next[n] \in Nat /\ next[n] = n - 1
                                /\ measure[next[n]] < measure[n]
             /\ \A p \in Nat : step[n][p] = p * base /\ step[n][p] \in Nat
  <2>1. \A p \in Nat : step[n][p] = p * base
    BY Zenon
  <2>2. \A p \in Nat : p * base \in Nat
    BY ProductType
  <2>. HIDE DEF step
  <2>. QED
    BY <2>1, <2>2
<1>. HIDE DEF measure, leaf, next, step
<1>2. Descends(Nat, Nat, measure, {0}, leaf, next, step)
  BY <1>1 DEF Descends
<1>3. PICK pow \in [Nat -> Nat] : Follows(pow, Nat, {0}, leaf, next, step)
  BY <1>2, Recursion
<1>4. ASSUME NEW n \in Nat
      PROVE  pow[n] \in Nat /\ pow[n] = IF n = 0 THEN 1 ELSE pow[n - 1] * base
  <2>1. pow[n] = IF n \in {0} THEN leaf[n] ELSE step[n][pow[next[n]]]
    BY <1>3 DEF Follows
  <2>2. CASE n = 0
    BY <1>1, <2>1, <2>2
  <2>3. CASE n # 0
    <3>1. next[n] = n - 1 /\ n - 1 \in Nat
      BY <1>1, <2>3
    <3>2. pow[n - 1] \in Nat
      BY <1>3, <3>1
    <3>3. step[n][pow[n - 1]] = pow[n - 1] * base
      BY <1>1, <3>2
    <3>4. pow[n] = step[n][pow[n - 1]]
      BY <2>1, <2>3, <3>1
    <3>. QED
      BY <1>3, <2>3, <3>3, <3>4
  <2>. QED
    BY <2>2, <2>3
<1>. QED
  BY <1>4 DEF Powers

\* Where the loop may stand: at a power of base that is not beyond value.
Within(value, pow, n) == n = 0 \/ pow[n] <= value

\* Powers are positive and grow faster than their places.
LEMMA PowerGrows ==
    ASSUME NEW base \in Nat, base >= 2, NEW pow, Powers(base, pow), NEW n \in Nat
    PROVE  /\ pow[n] \in Nat /\ pow[n] > n
           /\ pow[n + 1] = pow[n] * base /\ pow[n + 1] > pow[n]
<1>. DEFINE Wrong == {k \in Nat : ~ (pow[k] > k)}
<1>1. ASSUME Wrong # {}
      PROVE  FALSE
  <2>1. Wrong \subseteq Nat
    OBVIOUS
  <2>2. PICK k \in Wrong : k # 0 => k - 1 \in Nat /\ k - 1 \notin Wrong
    <3>. HIDE DEF Wrong
    <3>. QED
      BY <1>1, <2>1, LeastWrongNatural
  <2>3. k \in Nat /\ pow[k] \in Nat /\ ~ (pow[k] > k)
    BY <2>2 DEF Powers
  <2>4. k # 0
    BY <2>3 DEF Powers
  <2>5. k - 1 \in Nat /\ pow[k - 1] \in Nat /\ pow[k - 1] > k - 1
    BY <2>2, <2>4 DEF Powers
  <2>6. pow[k] = pow[k - 1] * base
    BY <2>3, <2>4 DEF Powers
  <2>7. pow[k - 1] * base \in Nat /\ pow[k - 1] * base > pow[k - 1]
    BY <2>5, Grows
  <2>. QED
    BY <2>3, <2>5, <2>6, <2>7
<1>2. pow[n] \in Nat /\ pow[n] > n
  BY <1>1 DEF Powers
<1>3. pow[n + 1] = pow[n] * base
  BY DEF Powers
<1>4. pow[n] * base > pow[n]
  BY <1>2, Grows
<1>. QED
  BY <1>2, <1>3, <1>4

\* A remainder is known by its size.
LEMMA Remainder ==
    ASSUME NEW m \in Nat, m > 0, NEW q \in Int, NEW r \in 0 .. m - 1, NEW a, a = m * q + r
    PROVE  a % m = r /\ a \div m = q
<1>. DEFINE c == a \div m
            t == a % m
<1>1. a \in Int /\ c \in Int /\ t \in 0 .. m - 1 /\ a = m * c + t
  OBVIOUS
<1>. HIDE DEF c, t
<1>2. \A d \in Int : d >= 1 => m * d >= m
  OBVIOUS
<1>3. m * q + r = m * c + t
  BY <1>1
<1>4. \A x \in Int : m * x \in Int /\ \A y \in Int : m * x - m * y = m * (x - y)
  OBVIOUS
<1>5. m * (q - c) = t - r /\ m * (c - q) = r - t
  BY <1>1, <1>3, <1>4
<1>6. q = c
  BY <1>1, <1>2, <1>5
<1>7. t = r
  BY <1>1, <1>3, <1>6, <1>4
<1>. QED
  BY <1>6, <1>7 DEF c, t

\* Taken away one after the other, or all at once.
LEMMA WrapLess ==
    ASSUME NEW a \in Int
    PROVE  Wrap(Wrap(a) - 1) = Wrap(a - 1)
<1>1. Modulus \in Nat /\ Modulus > 1
  BY ModulusAssumption
<1>. DEFINE q == a \div Modulus
            r == a % Modulus
<1>2. q \in Int /\ r \in Nat /\ r < Modulus /\ a = Modulus * q + r
  BY <1>1
<1>. HIDE DEF q, r
<1>3. ASSUME NEW z, NEW p \in Int, NEW s \in 0 .. Modulus - 1, z = Modulus * p + s
      PROVE  (z % Modulus) = s
  BY <1>1, <1>3, Remainder
<1>4. CASE r > 0
  <2>. DEFINE s == r - 1
  <2>1. a - 1 = Modulus * q + s /\ s \in 0 .. Modulus - 1
    BY <1>1, <1>2, <1>4
  <2>2. (s % Modulus) = s
    BY <1>1, <2>1
  <2>. HIDE DEF s
  <2>3. ((a - 1) % Modulus) = s
    BY <1>2, <1>3, <2>1
  <2>. QED
    BY <2>2, <2>3 DEF Wrap, r, s
<1>5. CASE r = 0
  <2>. DEFINE s == Modulus - 1
              p == -1
  <2>1. a - 1 = Modulus * (q - 1) + s /\ q - 1 \in Int
    BY <1>1, <1>2, <1>5
  <2>2. r - 1 = Modulus * p + s /\ p \in Int /\ s \in 0 .. Modulus - 1
    BY <1>1, <1>5
  <2>. HIDE DEF s, p
  <2>3. ((a - 1) % Modulus) = s /\ ((r - 1) % Modulus) = s
    BY <1>3, <2>1, <2>2
  <2>. QED
    BY <2>3 DEF Wrap, r
<1>. QED
  BY <1>2, <1>4, <1>5

\* Where the loop ends: at the largest power of base in value, or at one.
Ended(value, count, pow, s, n, r) ==
    /\ s = [idx |-> pow[r], count |-> Wrap(count - (r - n))]
    /\ Within(value, pow, r) /\ value < pow[r + 1]

\* Scale finds the largest power of base in value, though the products wrap, and
\* counts the digits behind the first.
LEMMA ScaleIs ==
    ASSUME NEW value \in Values, NEW base \in Nat, base >= 2, NEW count \in Values,
           NEW pow, Powers(base, pow)
    PROVE  \E r \in Nat : Ended(value, count, pow, Scale(value, base, count), 0, r)
<1>1. Modulus \in Nat /\ Modulus > 1 /\ value \in Nat /\ value < Modulus /\ count \in Int
  BY ModulusAssumption DEF Values
<1>2. PICK loop : /\ Scale(value, base, count) = loop[1]
                  /\ \A idx \in 1 .. Modulus :
                        loop[idx] \in Scales /\ ScaleRound(value, base, count, loop, idx)
  BY ScaleEquation
<1>3. \A n \in Nat : /\ pow[n] \in Nat /\ pow[n] > n
                     /\ pow[n + 1] = pow[n] * base /\ pow[n + 1] > pow[n]
  BY PowerGrows
<1>. DEFINE D == {n \in Nat : Within(value, pow, n)}
            measure == [n \in D |-> Modulus - pow[n]]
            Ends(n) == \E r \in Nat : Ended(value, count, pow, loop[pow[n]], n, r)
            Wrong == {n \in D : ~Ends(n)}
<1>4. pow[0] = 1
  BY DEF Powers
<1>5. ASSUME NEW n \in D
      PROVE  /\ n \in Nat /\ Within(value, pow, n) /\ pow[n] \in 1 .. Modulus
             /\ measure[n] = Modulus - pow[n] /\ measure[n] \in Nat
  BY <1>1, <1>3, <1>4 DEF Within
<1>6. ASSUME Wrong # {}
      PROVE  FALSE
  <2>1. PICK n \in Wrong : \A y \in D : measure[y] < measure[n] => y \notin Wrong
    <3>1. Wrong \subseteq D /\ \A y \in D : measure[y] \in Nat
      BY <1>5
    <3>. HIDE DEF D, Wrong, measure
    <3>. QED
      BY <1>6, <3>1, LeastWrong
  <2>2. n \in D /\ ~Ends(n)
    BY <2>1
  <2>3. n \in Nat /\ n + 1 \in Nat /\ pow[n] \in 1 .. Modulus /\ measure[n] = Modulus - pow[n]
    BY <1>5, <2>2
  <2>4. /\ loop[pow[n]] \in Scales
        /\ loop[pow[n]] = IF pow[n] * base <= value
                          THEN [loop[pow[n] * base] EXCEPT !.count = Wrap(@ - 1)]
                          ELSE [idx |-> pow[n], count |-> count]
    BY <1>2, <2>3 DEF ScaleRound
  <2>5. CASE pow[n + 1] <= value
    <3>1. n + 1 \in D /\ measure[n + 1] < measure[n]
      BY <1>1, <1>3, <2>3, <2>5 DEF Within
    <3>2. Ends(n + 1)
      BY <2>1, <3>1
    <3>3. PICK r \in Nat : Ended(value, count, pow, loop[pow[n + 1]], n + 1, r)
      BY <3>2
    <3>4. loop[pow[n]] = [loop[pow[n + 1]] EXCEPT !.count = Wrap(@ - 1)]
      BY <1>3, <2>3, <2>4, <2>5
    <3>5. loop[pow[n + 1]] = [idx |-> pow[r], count |-> Wrap(count - (r - (n + 1)))]
      BY <3>3 DEF Ended
    <3>6. loop[pow[n]] = [idx |-> pow[r], count |-> Wrap(Wrap(count - (r - (n + 1))) - 1)]
      BY <3>4, <3>5
    <3>7. Wrap(Wrap(count - (r - (n + 1))) - 1) = Wrap(count - (r - n))
      <4>. DEFINE a == count - (r - (n + 1))
      <4>1. a \in Int /\ a - 1 = count - (r - n)
        BY <1>1, <2>3
      <4>. HIDE DEF a
      <4>2. Wrap(Wrap(a) - 1) = Wrap(count - (r - n))
        BY <4>1, WrapLess
      <4>. QED
        BY <4>2 DEF a
    <3>8. Ended(value, count, pow, loop[pow[n]], n, r)
      BY <3>3, <3>6, <3>7 DEF Ended
    <3>. QED
      BY <2>2, <3>8
  <2>6. CASE ~ (pow[n + 1] <= value)
    <3>1. loop[pow[n]] = [idx |-> pow[n], count |-> count]
      BY <1>3, <2>3, <2>4, <2>6
    <3>2. count - (n - n) = count /\ Wrap(count) = count
      BY <1>1, <2>3, WrapType
    <3>3. Within(value, pow, n) /\ value < pow[n + 1]
      BY <1>1, <1>3, <1>5, <2>2, <2>3, <2>6
    <3>4. Ended(value, count, pow, loop[pow[n]], n, n)
      BY <3>1, <3>2, <3>3 DEF Ended
    <3>. QED
      BY <2>2, <2>3, <3>4
  <2>. QED
    BY <2>5, <2>6
<1>7. 0 \in D
  BY DEF Within
<1>8. Ends(0)
  BY <1>6, <1>7
<1>. QED
  BY <1>2, <1>4, <1>8

---------------------------------------------------------------------------
(* The digits *)

HexDigits == {"0", "1", "2", "3", "4", "5", "6", "7", "8", "9", "a", "b", "c", "d", "e", "f"}

\* Digits are printed as such.
LEMMA DigitType == \A n \in 0 .. 15 : Digit(n) \in HexDigits
BY DEF Digit, g_pcHex, HexDigits

\* The digit of a power of base.
DigitAt(value, base, idx) == <<Digit((value \div idx) % base)>>

\* It is one character.
LEMMA DigitAtType ==
    ASSUME NEW value \in Nat, NEW base \in 2 .. 16, NEW idx \in Nat, idx > 0
    PROVE  DigitAt(value, base, idx) \in Seq(HexDigits) /\ Len(DigitAt(value, base, idx)) = 1
<1>1. value \div idx \in Nat
  BY Division
<1>2. ((value \div idx) % base) \in 0 .. 15
  BY <1>1
<1>3. Digit((value \div idx) % base) \in HexDigits
  BY <1>2, DigitType
<1>. QED
  BY <1>3 DEF DigitAt

\* The loop of the digits, round by round.
DigitsRound(value, base, f, idx) ==
    f[idx] = IF idx = 0 THEN <<>> ELSE Then(DigitAt(value, base, idx), f[idx \div base])

\* The quotient is smaller.
LEMMA Quotient ==
    ASSUME NEW idx \in Nat, idx > 0, NEW base \in Nat, base >= 2
    PROVE  idx \div base \in Nat /\ idx \div base < idx
<1>. DEFINE q == idx \div base
<1>1. q \in Nat /\ idx >= base * q
  BY Division
<1>2. q = 0 \/ base * q > q
  <2>. HIDE DEF q
  <2>. QED
    BY <1>1
<1>. QED
  BY <1>1, <1>2

\* Digits is what its loop makes of it.
LEMMA DigitsEquation ==
    ASSUME NEW value \in Nat, NEW base \in 2 .. 16
    PROVE  \E digits :
               /\ \A idx : Digits(value, base, idx) = digits[idx]
               /\ \A idx \in 0 .. Modulus :
                     digits[idx] \in Seq(HexDigits) /\ DigitsRound(value, base, digits, idx)
<1>. DEFINE D == 0 .. Modulus
            V == Seq(HexDigits)
            body(f) ==
                [idx \in D |->
                    IF idx = 0 THEN <<>>
                    ELSE <<Digit((value \div idx) % base)>> \o f[idx \div base]]
            digits == CHOOSE f : f = body(f)
            measure == [idx \in D |-> idx]
            leaf == [idx \in D |-> <<>>]
            next == [idx \in D |-> idx \div base]
            step == [idx \in D |-> [s \in V |-> Then(DigitAt(value, base, idx), s)]]
<1>1. Modulus \in Nat /\ base \in Nat /\ base >= 2
  BY ModulusAssumption
<1>2. ASSUME NEW idx \in D, idx # 0
      PROVE  idx \div base \in D /\ idx \div base < idx
  BY <1>1, <1>2, Quotient
<1>3. ASSUME NEW idx \in D, idx # 0, NEW s \in V
      PROVE  Then(DigitAt(value, base, idx), s) \in V
  <2>1. idx \in Nat /\ idx > 0
    BY <1>1, <1>3
  <2>2. DigitAt(value, base, idx) \in Seq(HexDigits)
    BY <2>1, DigitAtType
  <2>. QED
    BY <1>3, <2>2 DEF Then
<1>4. Descends(D, V, measure, {0}, leaf, next, step)
  <2>1. ASSUME NEW idx \in D
        PROVE  measure[idx] \in Nat /\ leaf[idx] \in V
    BY <1>1, EmptySeq
  <2>2. ASSUME NEW idx \in D, idx # 0
        PROVE  next[idx] \in D /\ measure[next[idx]] < measure[idx]
    <3>1. next[idx] = idx \div base
      OBVIOUS
    <3>. HIDE DEF next
    <3>. QED
      BY <1>2, <2>2, <3>1
  <2>3. ASSUME NEW idx \in D, idx # 0, NEW s \in V
        PROVE  step[idx][s] \in V
    <3>1. step[idx][s] = Then(DigitAt(value, base, idx), s)
      BY Zenon
    <3>. HIDE DEF step, D, V
    <3>. QED
      BY <1>3, <2>3, <3>1
  <2>4. V # {}
    BY EmptySeq
  <2>. HIDE DEF D, V, measure, leaf, next, step
  <2>. QED
    BY <2>1, <2>2, <2>3, <2>4 DEF Descends
<1>5. PICK f \in [D -> V] : Follows(f, D, {0}, leaf, next, step)
  <2>. HIDE DEF D, V, measure, leaf, next, step
  <2>. QED
    BY <1>4, Recursion
<1>6. ASSUME NEW idx \in D
      PROVE  DigitsRound(value, base, f, idx)
  <2>1. f[idx] = IF idx \in {0} THEN leaf[idx] ELSE step[idx][f[next[idx]]]
    <3>. HIDE DEF D, V, leaf, next, step
    <3>. QED
      BY <1>5 DEF Follows
  <2>2. CASE idx = 0
    <3>1. leaf[idx] = <<>>
      OBVIOUS
    <3>. HIDE DEF leaf, step
    <3>. QED
      BY <2>1, <2>2, <3>1, Zenon DEF DigitsRound
  <2>3. CASE idx # 0
    <3>1. next[idx] = idx \div base /\ idx \div base \in D
      BY <1>2, <2>3
    <3>2. f[idx \div base] \in V
      <4>. HIDE DEF D, V
      <4>. QED
        BY <1>5, <3>1
    <3>3. step[idx][f[idx \div base]] = Then(DigitAt(value, base, idx), f[idx \div base])
      BY <3>2, Zenon
    <3>4. f[idx] = step[idx][f[idx \div base]]
      <4>. HIDE DEF D, V, leaf, next, step
      <4>. QED
        BY <2>1, <2>3, <3>1
    <3>. HIDE DEF step
    <3>. QED
      BY <2>3, <3>3, <3>4, Zenon DEF DigitsRound
  <2>. QED
    BY <2>2, <2>3
<1>7. f = body(f)
  <2>1. f = [idx \in D |-> f[idx]]
    <3>. HIDE DEF D, V
    <3>. QED
      BY <1>5
  <2>. HIDE DEF D
  <2>. QED
    BY <1>6, <2>1, Zenon DEF DigitsRound, Then, DigitAt
<1>8. digits = body(digits)
  <2>. HIDE DEF body
  <2>. QED
    BY <1>7
<1>9. \A idx : Digits(value, base, idx) = digits[idx]
  BY Zenon DEF Digits
<1>. HIDE DEF digits
<1>10. ASSUME NEW idx \in D
       PROVE  DigitsRound(value, base, digits, idx)
  <2>1. digits[idx] = body(digits)[idx]
    <3>. HIDE DEF body
    <3>. QED
      BY <1>8
  <2>. HIDE DEF D
  <2>. QED
    BY <2>1, Zenon DEF DigitsRound, Then, DigitAt
<1>11. \A idx \in D : digits[idx] \in V
  <2>. DEFINE Wrong == {idx \in D : digits[idx] \notin V}
  <2>1. ASSUME Wrong # {}
        PROVE  FALSE
    <3>1. Wrong \subseteq Nat
      BY <1>1
    <3>2. PICK idx \in Wrong : \A m \in Wrong : idx <= m
      <4>. HIDE DEF Wrong
      <4>. QED
        BY <2>1, <3>1, LeastNatural
    <3>3. idx \in D /\ digits[idx] \notin V
      BY <3>2
    <3>4. CASE idx = 0
      BY <1>10, <3>3, <3>4, EmptySeq DEF DigitsRound
    <3>5. CASE idx # 0
      <4>1. idx \div base \in D /\ idx \div base < idx
        BY <1>2, <3>3, <3>5
      <4>2. idx \div base \in Nat /\ idx \in Nat /\ ~ (idx <= idx \div base)
        BY <1>1, <3>3, <4>1
      <4>3. digits[idx \div base] \in V
        BY <3>2, <4>1, <4>2
      <4>. HIDE DEF D, V
      <4>4. digits[idx] = Then(DigitAt(value, base, idx), digits[idx \div base])
        BY <1>10, <3>3, <3>5, Zenon DEF DigitsRound
      <4>. QED
        BY <1>3, <3>3, <3>5, <4>3, <4>4
    <3>. QED
      BY <3>4, <3>5
  <2>. QED
    BY <2>1
<1>. QED
  BY <1>9, <1>10, <1>11

\* The same for the operator.
LEMMA DigitsStep ==
    ASSUME NEW value \in Nat, NEW base \in 2 .. 16
    PROVE  /\ Digits(value, base, 0) = <<>>
           /\ \A idx \in 0 .. Modulus : Digits(value, base, idx) \in Seq(HexDigits)
           /\ \A idx \in 1 .. Modulus : \A rest :
                 rest = (idx \div base) =>
                     Digits(value, base, idx) =
                         Then(DigitAt(value, base, idx), Digits(value, base, rest))
<1>1. PICK digits :
          /\ \A idx : Digits(value, base, idx) = digits[idx]
          /\ \A idx \in 0 .. Modulus :
                digits[idx] \in Seq(HexDigits) /\ DigitsRound(value, base, digits, idx)
  BY DigitsEquation
<1>2. 0 \in 0 .. Modulus /\ \A idx \in 1 .. Modulus : idx \in 0 .. Modulus /\ idx # 0
  BY ModulusAssumption
<1>. QED
  BY <1>1, <1>2, Zenon DEF DigitsRound

\* The number is divided by base, and its place as well.
DividedBoth(value, base, idx, product, quotient) ==
    product = idx * base /\ quotient = value \div base

\* Dividing twice is dividing by the product: a digit of the quotient is the one
\* before it in the number.
LEMMA DigitBefore ==
    ASSUME NEW value \in Nat, NEW base \in 2 .. 16, NEW idx \in Nat, idx > 0,
           NEW product, NEW quotient, DividedBoth(value, base, idx, product, quotient)
    PROVE  DigitAt(quotient, base, idx) = DigitAt(value, base, product)
<1>. DEFINE q == value \div base
            t == value % base
            p == q \div idx
            u == q % idx
            m == idx * base
            r == base * u + t
<1>0. base \in Nat /\ base > 0
  OBVIOUS
<1>1. q \in Nat /\ t \in 0 .. base - 1 /\ value = base * q + t
  BY <1>0, Division
<1>2. p \in Nat /\ u \in 0 .. idx - 1 /\ q = idx * p + u
  <2>. HIDE DEF q
  <2>. QED
    BY <1>1, Division
<1>. HIDE DEF q, t, p, u
<1>3. m \in Nat /\ m > 0
  BY Grows, ProductType
<1>4. base * q = m * p + base * u /\ base * u \in Nat
  <2>1. base * (idx * p + u) = (idx * base) * p + base * u
    BY <1>1, <1>2
  <2>. QED
    BY <1>1, <1>2, <2>1
<1>5. base * u <= m - base
  <2>1. base * u <= base * (idx - 1)
    <3>1. \A x, y \in Nat : x <= y => base * x <= base * y
      OBVIOUS
    <3>. QED
      BY <1>2, <3>1
  <2>2. base * (idx - 1) = m - base
    OBVIOUS
  <2>. QED
    BY <2>1, <2>2
<1>6. r \in 0 .. m - 1 /\ value = m * p + r
  <2>1. m * p \in Nat
    BY <1>2, <1>3, ProductType
  <2>. HIDE DEF m
  <2>. QED
    BY <1>1, <1>3, <1>4, <1>5, <2>1
<1>. HIDE DEF m, r
<1>7. value \div m = p
  <2>1. p \in Int
    BY <1>2
  <2>. QED
    BY <1>3, <1>6, <2>1, Remainder, Zenon
<1>. QED
  BY <1>7 DEF DividedBoth, DigitAt, m, p, q

\* Digits may be put together in either order.
LEMMA HexAssociative ==
    ASSUME NEW s \in Seq(HexDigits), NEW t \in Seq(HexDigits), NEW u \in Seq(HexDigits)
    PROVE  Then(s, Then(t, u)) = Then(Then(s, t), u)
BY DEF Then

\* A power but the first, divided by base, is the one before; the first is one.
LEMMA PowerDown ==
    ASSUME NEW base \in 2 .. 16, NEW pow, Powers(base, pow), NEW r \in Nat
    PROVE  /\ pow[0] = 1 /\ (1 \div base) = 0
           /\ pow[r] \in Nat /\ pow[r] > 0 /\ pow[r] < pow[r + 1]
           /\ pow[r + 1] = pow[r] * base /\ (pow[r + 1] \div base) = pow[r]
<1>1. base \in Nat /\ base >= 2
  OBVIOUS
<1>2. pow[r] \in Nat /\ pow[r] > r /\ pow[r + 1] = pow[r] * base /\ pow[r + 1] > pow[r]
  BY <1>1, PowerGrows
<1>3. \A x \in Nat : (x * base) \div base = x
  BY <1>1
<1>. QED
  BY <1>1, <1>2, <1>3 DEF Powers

\* All digits but the last are those of the quotient.
LEMMA DigitsShift ==
    ASSUME NEW base \in 2 .. 16, NEW pow, Powers(base, pow),
           NEW r \in Nat, pow[r + 1] <= Modulus, NEW value \in Nat
    PROVE  Digits(value, base, pow[r + 1]) =
               Then(Digits(value \div base, base, pow[r]), <<Digit(value % base)>>)
<1>. DEFINE Right(n) ==
                Digits(value, base, pow[n + 1]) =
                    Then(Digits(value \div base, base, pow[n]), <<Digit(value % base)>>)
            Wrong == {n \in Nat : pow[n + 1] <= Modulus /\ ~Right(n)}
            q == value \div base
<1>1. base \in Nat /\ base > 0 /\ Modulus \in Nat /\ q \in Nat
  BY ModulusAssumption, Division
<1>2. \A n \in Nat :
          /\ pow[n] \in Nat /\ pow[n] > 0 /\ pow[n] < pow[n + 1]
          /\ pow[n + 1] = pow[n] * base /\ (pow[n + 1] \div base) = pow[n]
  BY PowerDown
<1>3. pow[0] = 1 /\ (1 \div base) = 0
  BY PowerDown
<1>7. q = value \div base
  OBVIOUS
<1>4. ASSUME NEW n \in Nat
      PROVE  DigitAt(value, base, pow[n + 1]) = DigitAt(q, base, pow[n])
  <2>1. pow[n] \in Nat /\ pow[n] > 0 /\ pow[n + 1] = pow[n] * base
    BY <1>2
  <2>. HIDE DEF q
  <2>. QED
    <3>1. DividedBoth(value, base, pow[n], pow[n + 1], q)
      BY <1>7, <2>1, Zenon DEF DividedBoth
    <3>. QED
      BY <2>1, <3>1, DigitBefore
<1>. HIDE DEF q
<1>8. ASSUME NEW number \in Nat, NEW idx \in 1 .. Modulus, NEW rest, rest = (idx \div base)
      PROVE  Digits(number, base, idx) =
                 Then(DigitAt(number, base, idx), Digits(number, base, rest))
  BY <1>8, DigitsStep
<1>5. ASSUME NEW n \in Nat, pow[n + 1] <= Modulus
      PROVE  /\ pow[n] \in 1 .. Modulus /\ pow[n + 1] \in 1 .. Modulus
             /\ Digits(value, base, pow[n + 1]) =
                   Then(DigitAt(q, base, pow[n]), Digits(value, base, pow[n]))
             /\ Digits(q, base, pow[n]) =
                   Then(DigitAt(q, base, pow[n]), Digits(q, base, pow[n] \div base))
  <2>1. pow[n] \in 1 .. Modulus /\ pow[n + 1] \in 1 .. Modulus
    BY <1>1, <1>2, <1>5
  <2>2. Digits(value, base, pow[n + 1]) =
            Then(DigitAt(value, base, pow[n + 1]), Digits(value, base, pow[n]))
    BY <1>2, <1>8, <2>1
  <2>3. Digits(q, base, pow[n]) =
            Then(DigitAt(q, base, pow[n]), Digits(q, base, pow[n] \div base))
    <3>. DEFINE rest == pow[n] \div base
    <3>1. rest = (pow[n] \div base)
      OBVIOUS
    <3>. HIDE DEF rest
    <3>2. Digits(q, base, pow[n]) = Then(DigitAt(q, base, pow[n]), Digits(q, base, rest))
      BY <1>1, <1>8, <2>1, <3>1
    <3>. QED
      BY <3>1, <3>2, Zenon
  <2>. QED
    BY <1>4, <2>1, <2>2, <2>3
<1>6. ASSUME Wrong # {}
      PROVE  FALSE
  <2>1. PICK n \in Wrong : n # 0 => n - 1 \in Nat /\ n - 1 \notin Wrong
    <3>1. Wrong \subseteq Nat
      OBVIOUS
    <3>. HIDE DEF Wrong
    <3>. QED
      BY <1>6, <3>1, LeastWrongNatural
  <2>2. n \in Nat /\ pow[n + 1] <= Modulus /\ ~Right(n)
    BY <2>1
  <2>. DEFINE d == DigitAt(q, base, pow[n])
              last == <<Digit(value % base)>>
  <2>3. d \in Seq(HexDigits)
    BY <1>1, <1>2, <2>2, DigitAtType
  <2>4. last \in Seq(HexDigits)
    <3>1. (value % base) \in 0 .. 15
      BY <1>1
    <3>. QED
      BY <3>1, DigitType
  <2>5. CASE n = 0
    <3>0. 0 = (1 \div base) /\ 1 \in 1 .. Modulus
      BY <1>2, <1>3, <1>5, <2>2, <2>5
    <3>1. Digits(value, base, 1) = Then(DigitAt(value, base, 1), <<>>)
      <4>1. Digits(value, base, 1) = Then(DigitAt(value, base, 1), Digits(value, base, 0))
        BY <1>8, <3>0
      <4>. QED
        BY <4>1, DigitsStep
    <3>2. DigitAt(value, base, 1) = last
      <4>1. value \div 1 = value
        OBVIOUS
      <4>. QED
        BY <4>1, Zenon DEF DigitAt
    <3>3. Digits(value, base, 1) = last
      BY <2>4, <3>1, <3>2 DEF Then
    <3>4. Digits(q, base, pow[n]) = Then(d, <<>>)
      <4>1. Digits(q, base, 1) = Then(DigitAt(q, base, 1), Digits(q, base, 0))
        BY <1>1, <1>8, <3>0
      <4>2. Digits(q, base, 0) = <<>>
        BY <1>1, DigitsStep
      <4>. QED
        BY <1>3, <2>5, <4>1, <4>2
    <3>5. Digits(q, base, pow[n]) = d
      BY <2>3, <3>4 DEF Then
    <3>6. Digits(value, base, pow[n + 1]) = Then(d, last)
      BY <1>3, <1>5, <2>2, <2>5, <3>3
    <3>. QED
      BY <2>2, <3>5, <3>6, Zenon DEF q
  <2>6. CASE n # 0
    <3>1. n - 1 \in Nat /\ n - 1 \notin Wrong /\ (n - 1) + 1 = n
      BY <2>1, <2>2, <2>6
    <3>2. pow[n] <= Modulus
      BY <1>1, <1>2, <2>2
    <3>3. Right(n - 1)
      BY <3>1, <3>2
    <3>4. Digits(value, base, pow[n]) = Then(Digits(q, base, pow[n - 1]), last)
      BY <3>1, <3>3, Zenon DEF q
    <3>5. pow[n] \div base = pow[n - 1]
      BY <1>2, <3>1
    <3>6. Digits(q, base, pow[n]) = Then(d, Digits(q, base, pow[n - 1]))
      BY <1>5, <2>2, <3>5
    <3>7. Digits(value, base, pow[n + 1]) = Then(d, Then(Digits(q, base, pow[n - 1]), last))
      BY <1>5, <2>2, <3>4
    <3>8. Digits(q, base, pow[n - 1]) \in Seq(HexDigits)
      <4>1. pow[n - 1] \in 0 .. Modulus
        <5>1. pow[n - 1] \in Nat /\ pow[n - 1] < pow[n]
          BY <1>2, <3>1
        <5>2. pow[n] \in Nat
          BY <1>2, <2>2
        <5>. QED
          BY <1>1, <3>2, <5>1, <5>2
      <4>. QED
        BY <1>1, <4>1, DigitsStep
    <3>9. Then(d, Then(Digits(q, base, pow[n - 1]), last))
              = Then(Then(d, Digits(q, base, pow[n - 1])), last)
      <4>. HIDE DEF d, last
      <4>. QED
        BY <2>3, <2>4, <3>8, HexAssociative
    <3>. QED
      BY <2>2, <3>6, <3>7, <3>9, Zenon DEF q
  <2>. QED
    BY <2>5, <2>6
<1>. QED
  BY <1>6

\* A number spelled as it is by hand: the digits of the quotient, then the remainder.
Spells(f, base) ==
    \A rest \in Nat :
        f[rest] = IF rest < base THEN <<Digit(rest)>>
                  ELSE Append(f[rest \div base], Digit(rest % base))

\* Where the quotient lies between the powers.
LEMMA QuotientBetween ==
    ASSUME NEW value \in Nat, NEW base \in Nat, base >= 2, NEW low \in Nat, low > 0
    PROVE  /\ value < low * base => value \div base < low
           /\ value >= low * base => value \div base >= low /\ value >= base
<1>. DEFINE q == value \div base
            t == value % base
<1>1. q \in Nat /\ t \in 0 .. base - 1 /\ value = base * q + t
  BY Division
<1>. HIDE DEF q, t
<1>2. \A x, y \in Nat : x <= y => base * x <= base * y /\ base * x \in Nat /\ base * y \in Nat
  OBVIOUS
<1>3. low * base = base * low
  OBVIOUS
<1>4. ASSUME value < low * base, ~ (q < low)
      PROVE  FALSE
  <2>1. base * low <= base * q
    BY <1>1, <1>2, <1>4
  <2>. QED
    BY <1>1, <1>2, <1>3, <1>4, <2>1
<1>5. ASSUME value >= low * base, ~ (q >= low)
      PROVE  FALSE
  <2>1. base * (q + 1) <= base * low
    BY <1>1, <1>2, <1>5
  <2>2. base * (q + 1) = base * q + base
    BY <1>1
  <2>. QED
    BY <1>1, <1>2, <1>3, <1>5, <2>1, <2>2
<1>6. base * 1 <= base * low
  BY <1>2
<1>. QED
  BY <1>2, <1>3, <1>4, <1>5, <1>6 DEF q

\* The place of the first digit.
FirstPlace(value, base, pow, r) ==
    Powers(base, pow) /\ pow[r] <= Modulus /\ Within(value, pow, r) /\ value < pow[r + 1]

\* The loop prints the digits that spell the number.
LEMMA DigitsSpelled ==
    ASSUME NEW base \in 2 .. 16, NEW f, Spells(f, base), NEW value \in Nat,
           NEW pow, NEW r \in Nat, FirstPlace(value, base, pow, r)
    PROVE  f[value] = Digits(value, base, pow[r]) /\ Len(f[value]) = r + 1
<1>. Powers(base, pow) /\ pow[r] <= Modulus /\ Within(value, pow, r) /\ value < pow[r + 1]
  BY DEF FirstPlace
<1>. DEFINE Right(v, n) == f[v] = Digits(v, base, pow[n]) /\ Len(f[v]) = n + 1
            Between(v, n) == Within(v, pow, n) /\ v < pow[n + 1]
            Wrong == {n \in Nat : pow[n] <= Modulus /\ \E v \in Nat : Between(v, n) /\ ~Right(v, n)}
<1>1. base \in Nat /\ base >= 2 /\ Modulus \in Nat
  BY ModulusAssumption
<1>2. \A n \in Nat :
          /\ pow[n] \in Nat /\ pow[n] > 0 /\ pow[n] < pow[n + 1]
          /\ pow[n + 1] = pow[n] * base
  BY PowerDown
<1>3. pow[0] = 1 /\ (1 \div base) = 0
  BY PowerDown
<1>4. ASSUME Wrong # {}
      PROVE  FALSE
  <2>1. PICK n \in Wrong : n # 0 => n - 1 \in Nat /\ n - 1 \notin Wrong
    <3>1. Wrong \subseteq Nat
      OBVIOUS
    <3>. HIDE DEF Wrong
    <3>. QED
      BY <1>4, <3>1, LeastWrongNatural
  <2>2. n \in Nat /\ pow[n] <= Modulus
    BY <2>1
  <2>3. PICK v \in Nat : Between(v, n) /\ ~Right(v, n)
    BY <2>1
  <2>. DEFINE q == v \div base
              last == <<Digit(v % base)>>
  <2>4. q \in Nat /\ (v % base) \in 0 .. 15
    BY <1>1, Division
  <2>5. last \in Seq(HexDigits)
    <3>. DEFINE c == Digit(v % base)
    <3>1. c \in HexDigits
      BY <2>4, DigitType
    <3>. HIDE DEF c
    <3>2. <<c>> \in Seq(HexDigits)
      BY <3>1
    <3>. QED
      BY <3>2 DEF c
  <2>6. CASE n = 0
    <3>1. v < base
      BY <1>1, <1>2, <1>3, <2>3, <2>6
    <3>2. (v % base) = v /\ v \div 1 = v
      BY <1>1, <3>1
    <3>3. f[v] = last
      BY <3>1, <3>2 DEF Spells
    <3>4. Digits(v, base, 1) = Then(DigitAt(v, base, 1), <<>>)
      <4>1. 1 \in 1 .. Modulus /\ 0 = (1 \div base)
        BY <1>3, ModulusAssumption
      <4>2. Digits(v, base, 1) = Then(DigitAt(v, base, 1), Digits(v, base, 0))
        BY <4>1, DigitsStep
      <4>. QED
        BY <4>2, DigitsStep
    <3>5. DigitAt(v, base, 1) = last
      BY <3>2, Zenon DEF DigitAt
    <3>6. Digits(v, base, 1) = last
      BY <2>5, <3>4, <3>5 DEF Then
    <3>. QED
      BY <1>3, <2>3, <2>6, <3>3, <3>6
  <2>7. CASE n # 0
    <3>1. n - 1 \in Nat /\ n - 1 \notin Wrong /\ (n - 1) + 1 = n
      BY <2>1, <2>2, <2>7
    <3>. DEFINE k == n - 1
    <3>2. k \in Nat /\ k \notin Wrong /\ k + 1 = n
      BY <3>1
    <3>. HIDE DEF k
    <3>3. /\ pow[k] \in Nat /\ pow[k] > 0 /\ pow[n] = pow[k] * base /\ pow[n] \in Nat
          /\ pow[n + 1] = pow[n] * base /\ pow[n] > 0 /\ pow[k] < pow[n]
      BY <1>2, <2>2, <3>2
    <3>4. v >= pow[n] /\ v < pow[n + 1]
      BY <2>3, <2>7 DEF Within
    <3>5. q < pow[n] /\ q >= pow[k] /\ v >= base
      <4>1. v < pow[n] * base /\ v >= pow[k] * base
        BY <3>3, <3>4
      <4>. HIDE DEF q
      <4>. QED
        BY <1>1, <3>3, <4>1, QuotientBetween DEF q
    <3>6. pow[k] <= Modulus /\ pow[k + 1] <= Modulus
      BY <1>1, <2>2, <3>2, <3>3
    <3>7. Between(q, k)
      <4>. HIDE DEF q
      <4>. QED
        BY <2>4, <3>2, <3>3, <3>5 DEF Within
    <3>8. f[q] = Digits(q, base, pow[k]) /\ Len(f[q]) = k + 1
      <4>. HIDE DEF q, Between
      <4>. QED
        BY <2>4, <3>2, <3>6, <3>7
    <3>9. Digits(v, base, pow[n]) = Then(Digits(q, base, pow[k]), last)
      <4>1. Digits(v, base, pow[k + 1]) = Then(Digits(q, base, pow[k]), last)
        BY <3>2, <3>6, DigitsShift
      <4>. QED
        BY <3>2, <4>1
    <3>10. Digits(q, base, pow[k]) \in Seq(HexDigits)
      <4>1. pow[k] \in 0 .. Modulus
        BY <1>1, <3>3, <3>6
      <4>. QED
        BY <2>4, <4>1, DigitsStep
    <3>11. f[v] = Append(f[q], Digit(v % base))
      <4>1. ~ (v < base)
        BY <1>1, <3>5
      <4>. QED
        BY <4>1, Zenon DEF Spells, q
    <3>12. f[v] = Then(Digits(q, base, pow[k]), last)
      <4>. DEFINE s == Digits(q, base, pow[k])
                  c == Digit(v % base)
      <4>1. s \in Seq(HexDigits) /\ c \in HexDigits /\ f[v] = Append(s, c)
        <5>1. c \in HexDigits
          BY <2>4, DigitType
        <5>. QED
          BY <3>8, <3>10, <3>11, <5>1
      <4>. HIDE DEF s, c
      <4>2. Append(s, c) = Then(s, <<c>>)
        BY <4>1, AppendIsConcat, Zenon DEF Then
      <4>. QED
        BY <4>1, <4>2 DEF s, c
    <3>13. Len(Then(Digits(q, base, pow[k]), last)) = k + 2
      <4>. DEFINE s == Digits(q, base, pow[k])
      <4>1. s \in Seq(HexDigits) /\ Len(s) = k + 1
        BY <3>8, <3>10
      <4>2. Len(last) = 1
        OBVIOUS
      <4>. HIDE DEF s, last
      <4>3. Len(Then(s, last)) = Len(s) + Len(last)
        BY <2>5, <4>1 DEF Then
      <4>4. Len(s) + Len(last) = k + 2
        BY <3>2, <4>1, <4>2
      <4>. QED
        BY <4>3, <4>4 DEF s
    <3>14. Right(v, n)
      BY <2>2, <3>2, <3>9, <3>12, <3>13
    <3>. QED
      BY <2>3, <3>14
  <2>. QED
    BY <2>6, <2>7
<1>. QED
  BY <1>4

---------------------------------------------------------------------------
(* A number with its sign and its filling *)

\* Fills up to a width.
Padding(fill, width, length) == Times(fill, IF width > length THEN width - length ELSE 0)

\* A number as printf of C prints it.
SignOf(neg) == IF neg THEN <<"-">> ELSE <<>>
PrintedNumber(digits, neg, width, fill) ==
    LET filling == Padding(fill, width, Len(SignOf(neg)) + Len(digits))
    IN  (IF fill = "0" THEN SignOf(neg) \o filling ELSE filling \o SignOf(neg)) \o digits

\* Nothing times is nothing.
LEMMA TimesNone == \A char : Times(char, 0) = <<>>
BY DEF Times

\* There are fewer digits than half the values.
LEMMA FewDigits ==
    ASSUME NEW base \in 2 .. 16, NEW pow, Powers(base, pow), NEW r \in Nat,
           NEW value \in Values, Within(value, pow, r)
    PROVE  pow[r] \in Nat /\ pow[r] <= Modulus /\ 2 * r < Modulus
<1>1. Modulus \in Nat /\ Modulus >= 256 /\ value \in Nat /\ value < Modulus
  BY ModulusAssumption DEF Values
<1>2. pow[0] = 1
  BY DEF Powers
<1>3. CASE r = 0
  BY <1>1, <1>2, <1>3
<1>4. CASE r # 0
  <2>. DEFINE k == r - 1
  <2>1. k \in Nat /\ r = k + 1
    BY <1>4
  <2>. HIDE DEF k
  <2>2. pow[k] \in Nat /\ pow[k] > k /\ pow[k + 1] = pow[k] * base
    BY <2>1, PowerGrows
  <2>3. pow[k] * base \in Nat /\ pow[k] * base >= 2 * pow[k]
    BY <2>2
  <2>4. pow[r] <= value
    BY <1>4 DEF Within
  <2>. QED
    BY <1>1, <2>1, <2>2, <2>3, <2>4
<1>. QED
  BY <1>3, <1>4

\* The width that is left, below zero or not.
LEMMA WidthLeft ==
    ASSUME NEW count \in 0 .. 15, NEW r \in Nat, 2 * r < Modulus, NEW n \in 0 .. 1,
           NEW left, left = Wrap(count - r - n)
    PROVE  IF count > n + (r + 1) THEN left > 1 /\ left < 16 /\ left - 1 = count - (n + (r + 1))
           ELSE ~ (left > 1 /\ left < 16)
<1>1. Modulus \in Nat /\ Modulus >= 256
  BY ModulusAssumption
<1>. DEFINE x == count - r - n
<1>2. x \in Int /\ x < 16 /\ x >= -r - 1
  OBVIOUS
<1>3. CASE x >= 0
  <2>1. x \in Values
    BY <1>1, <1>2, <1>3 DEF Values
  <2>2. left = x
    BY <2>1, <1>2, WrapType
  <2>. QED
    BY <1>3, <2>2
<1>4. CASE x < 0
  <2>. DEFINE s == Modulus + x
              p == -1
  <2>1. x = Modulus * p + s /\ p \in Int /\ s \in 0 .. Modulus - 1 /\ s >= 16
    BY <1>1, <1>2, <1>4
  <2>2. (x % Modulus) = s
    <3>1. Modulus > 0
      BY <1>1
    <3>. HIDE DEF x, s, p
    <3>. QED
      BY <1>1, <2>1, <3>1, Remainder, Zenon
  <2>3. left = s
    BY <2>2 DEF Wrap
  <2>. HIDE DEF s
  <2>. QED
    BY <1>4, <2>1, <2>3
<1>. QED
  BY <1>2, <1>3, <1>4

\* A number is printed with the digits that spell it, filled up to the width with its
\* sign where it belongs, whatever wraps on the way (uartstdio.c:1138-1215).
THEOREM NumbersPrinted ==
    ASSUME NEW value \in Values, NEW base \in 2 .. 16, NEW neg \in BOOLEAN,
           NEW count \in 0 .. 15, NEW fill, NEW f, Spells(f, base)
    PROVE  Converted(value, base, neg, count, fill) = PrintedNumber(f[value], neg, count, fill)
<1>1. Modulus \in Nat /\ Modulus >= 256 /\ value \in Nat /\ base \in Nat /\ base >= 2
  BY ModulusAssumption DEF Values
<1>2. count \in Values
  BY <1>1 DEF Values
<1>3. PICK pow : Powers(base, pow)
  BY <1>1, PowersExist
<1>4. PICK r \in Nat : Ended(value, count, pow, Scale(value, base, count), 0, r)
  BY <1>1, <1>2, <1>3, ScaleIs
<1>. DEFINE scale == Scale(value, base, count)
<1>5. /\ scale.idx = pow[r] /\ scale.count = Wrap(count - r)
      /\ Within(value, pow, r) /\ value < pow[r + 1]
  <2>1. r - 0 = r
    OBVIOUS
  <2>. QED
    BY <1>4, <2>1 DEF Ended
<1>6. pow[r] \in Nat /\ pow[r] <= Modulus /\ 2 * r < Modulus
  BY <1>3, <1>5, FewDigits
<1>7. f[value] = Digits(value, base, pow[r]) /\ Len(f[value]) = r + 1
  <2>1. FirstPlace(value, base, pow, r)
    BY <1>3, <1>5, <1>6 DEF FirstPlace
  <2>. QED
    BY <1>1, <2>1, DigitsSpelled
<1>. HIDE DEF scale
<1>. DEFINE n == IF neg THEN 1 ELSE 0
            left == Wrap(scale.count - n)
            filled == IF left > 1 /\ left < 16 THEN Times(fill, left - 1) ELSE <<>>
<1>8. n \in 0 .. 1 /\ Len(SignOf(neg)) = n
  BY DEF SignOf
<1>9. left = Wrap(count - r - n)
  <2>. DEFINE a == count - r
  <2>1. a \in Int
    BY <1>1
  <2>2. CASE neg
    <3>1. Wrap(Wrap(a) - 1) = Wrap(a - 1)
      <4>. HIDE DEF a
      <4>. QED
        BY <2>1, WrapLess
    <3>. QED
      BY <1>5, <2>2, <3>1
  <2>3. CASE ~neg
    <3>1. Wrap(a) \in Values
      <4>. HIDE DEF a
      <4>. QED
        BY <2>1, WrapType
    <3>2. Wrap(a) - 0 = Wrap(a) /\ Wrap(Wrap(a)) = Wrap(a)
      <4>. HIDE DEF a
      <4>1. Wrap(a) \in Int /\ Wrap(a) - 0 = Wrap(a)
        BY <1>1, <3>1 DEF Values
      <4>. QED
        BY <3>1, <4>1, WrapType
    <3>3. a - 0 = a
      BY <2>1
    <3>. QED
      BY <1>5, <2>3, <3>2, <3>3, Zenon
  <2>. QED
    BY <2>2, <2>3
<1>. HIDE DEF n
<1>10. filled = Padding(fill, count, n + (r + 1))
  <2>1. IF count > n + (r + 1) THEN left > 1 /\ left < 16 /\ left - 1 = count - (n + (r + 1))
        ELSE ~ (left > 1 /\ left < 16)
    <3>. HIDE DEF left
    <3>. QED
      BY <1>6, <1>8, <1>9, WidthLeft
  <2>. HIDE DEF left
  <2>. QED
    BY <2>1, TimesNone, Zenon DEF Padding
<1>11. Converted(value, base, neg, count, fill)
           = (IF fill = "0" THEN SignOf(neg) \o filled ELSE filled \o SignOf(neg))
                 \o Digits(value, base, scale.idx)
  BY Zenon DEF Converted, SignOf, n, scale
<1>. HIDE DEF filled, left
<1>. QED
  BY <1>5, <1>7, <1>8, <1>10, <1>11, Zenon DEF PrintedNumber

---------------------------------------------------------------------------
(* Folding the characters of a format *)

\* What FoldLeft makes of sets of places, the largest last.
Folding(h, start, format, n) ==
    h = [s \in SUBSET (1 .. n) |->
            IF s = {} THEN start
            ELSE TakeCharacter(h[s \ {Max(s)}], format[Max(s)])]

\* FoldLeft is what its recursion makes of all places.
LEMMA FoldIs ==
    ASSUME NEW start, NEW format, NEW n, DOMAIN format = 1 .. n,
           \E h : Folding(h, start, format, n)
    PROVE  \E h : /\ Folding(h, start, format, n)
                  /\ FoldLeft(TakeCharacter, start, format) = h[1 .. n]
<1>. DEFINE iter == CHOOSE h : Folding(h, start, format, n)
<1>1. Folding(iter, start, format, n)
  <2>. DEFINE P(h) == Folding(h, start, format, n)
  <2>1. \E h : P(h)
    OBVIOUS
  <2>2. P(CHOOSE h : P(h))
    <3>. HIDE DEF P
    <3>. QED
      BY <2>1, Zenon
  <2>. QED
    BY <2>2
<1>2. FoldLeft(TakeCharacter, start, format) = iter[1 .. n]
  BY Zenon DEF FoldLeft, MapThenFoldSet, Folding
<1>. QED
  BY <1>1, <1>2

\* There is such a recursion for any number of places.
LEMMA FoldingExists ==
    ASSUME NEW start, NEW format, NEW n \in Nat
    PROVE  \E h : Folding(h, start, format, n)
<1>. DEFINE Wrong == {k \in Nat : ~ \E h : Folding(h, start, format, k)}
<1>1. ASSUME Wrong # {}
      PROVE  FALSE
  <2>1. PICK k \in Wrong : k # 0 => k - 1 \in Nat /\ k - 1 \notin Wrong
    <3>1. Wrong \subseteq Nat
      OBVIOUS
    <3>. HIDE DEF Wrong
    <3>. QED
      BY <1>1, <3>1, LeastWrongNatural
  <2>2. k \in Nat /\ ~ \E h : Folding(h, start, format, k)
    BY <2>1
  <2>3. CASE k = 0
    <3>. DEFINE h == [s \in SUBSET (1 .. k) |-> start]
    <3>1. ASSUME NEW s \in SUBSET (1 .. k)
          PROVE  s = {}
      BY <2>3, <3>1
    <3>2. h = [s \in SUBSET (1 .. k) |->
                  IF s = {} THEN start
                  ELSE TakeCharacter(h[s \ {Max(s)}], format[Max(s)])]
      BY <3>1, Zenon
    <3>3. Folding(h, start, format, k)
      <4>. HIDE DEF h
      <4>. QED
        BY <3>2, Zenon DEF Folding
    <3>. QED
      BY <2>2, <3>3, Zenon
  <2>4. CASE k # 0
    <3>. DEFINE m == k - 1
    <3>1. m \in Nat /\ k = m + 1 /\ \E h : Folding(h, start, format, m)
      BY <2>1, <2>2, <2>4
    <3>. HIDE DEF m
    <3>2. PICK g : Folding(g, start, format, m)
      BY <3>1, Zenon
    <3>. DEFINE h == [s \in SUBSET (1 .. k) |->
                        IF k \in s THEN TakeCharacter(g[s \ {k}], format[k]) ELSE g[s]]
    <3>3. ASSUME NEW s \in SUBSET (1 .. k), k \notin s
          PROVE  s \in SUBSET (1 .. m)
      BY <3>1, <3>3
    <3>4. ASSUME NEW s \in SUBSET (1 .. k), k \in s
          PROVE  Max(s) = k /\ s \ {k} \in SUBSET (1 .. k) /\ s \ {k} \in SUBSET (1 .. m)
      <4>1. \A x \in s : x \in Nat /\ k >= x
        BY <2>2
      <4>2. Max(s) = k
        BY <3>4, <4>1, MaxIs
      <4>3. s \ {k} \in SUBSET (1 .. k) /\ k \notin s \ {k}
        OBVIOUS
      <4>. QED
        BY <4>2, <4>3, <3>3
    <3>5. ASSUME NEW s \in SUBSET (1 .. m)
          PROVE  /\ s \in SUBSET (1 .. k) /\ k \notin s
                 /\ s # {} => s \ {Max(s)} \in SUBSET (1 .. m)
      <4>1. 1 .. m \subseteq 1 .. k /\ k \notin 1 .. m
        BY <3>1
      <4>2. \A x : s \ {x} \in SUBSET (1 .. m)
        BY <3>5
      <4>. QED
        BY <3>5, <4>1, <4>2, Zenon
    <3>6. \A s \in SUBSET (1 .. k) :
              h[s] = IF k \in s THEN TakeCharacter(g[s \ {k}], format[k]) ELSE g[s]
      BY Zenon
    <3>7. \A s \in SUBSET (1 .. m) :
              g[s] = IF s = {} THEN start ELSE TakeCharacter(g[s \ {Max(s)}], format[Max(s)])
      BY <3>2, Zenon DEF Folding
    <3>8. ASSUME NEW s \in SUBSET (1 .. k)
          PROVE  h[s] = IF s = {} THEN start
                        ELSE TakeCharacter(h[s \ {Max(s)}], format[Max(s)])
      <4>. HIDE DEF h
      <4>1. CASE k \in s
        <5>1. h[s \ {k}] = g[s \ {k}]
          BY <3>4, <3>5, <3>6, <4>1, Zenon
        <5>. QED
          BY <3>4, <3>6, <4>1, <5>1, Zenon
      <4>2. CASE k \notin s
        <5>1. s \in SUBSET (1 .. m)
          BY <3>3, <4>2
        <5>2. h[s] = g[s]
          BY <3>6, <4>2, Zenon
        <5>3. ASSUME s # {}
              PROVE  h[s \ {Max(s)}] = g[s \ {Max(s)}]
          BY <3>5, <3>6, <5>1, <5>3, Zenon
        <5>. QED
          BY <3>7, <5>1, <5>2, <5>3, Zenon
      <4>. QED
        BY <4>1, <4>2
    <3>9. h = [s \in SUBSET (1 .. k) |-> h[s]]
      BY Zenon
    <3>10. Folding(h, start, format, k)
      <4>. HIDE DEF h
      <4>. QED
        BY <3>8, <3>9, Zenon DEF Folding
    <3>. QED
      BY <2>2, <3>10, Zenon
  <2>. QED
    BY <2>3, <2>4
<1>. QED
  BY <1>1

\* The state before the first character and behind each of them.
Takes(states, start, format, n) ==
    /\ states[0] = start
    /\ \A k \in 1 .. n : states[k] = TakeCharacter(states[k - 1], format[k])

\* A format is taken character by character, from left to right.
LEMMA FormatTaken ==
    ASSUME NEW start, NEW format, NEW n \in Nat, DOMAIN format = 1 .. n
    PROVE  \E states : /\ Takes(states, start, format, n)
                       /\ FoldLeft(TakeCharacter, start, format) = states[n]
<1>1. PICK h : /\ Folding(h, start, format, n)
               /\ FoldLeft(TakeCharacter, start, format) = h[1 .. n]
  BY FoldingExists, FoldIs, Zenon
<1>2. \A s \in SUBSET (1 .. n) :
          h[s] = IF s = {} THEN start ELSE TakeCharacter(h[s \ {Max(s)}], format[Max(s)])
  BY <1>1, Zenon DEF Folding
<1>. DEFINE states == [k \in 0 .. n |-> h[1 .. k]]
<1>3. \A k \in 0 .. n : states[k] = h[1 .. k]
  BY Zenon
<1>4. states[0] = start
  <2>1. 0 \in 0 .. n /\ 1 .. 0 = {} /\ {} \in SUBSET (1 .. n)
    OBVIOUS
  <2>. HIDE DEF states
  <2>. QED
    BY <1>2, <1>3, <2>1, Zenon
<1>5. ASSUME NEW k \in 1 .. n
      PROVE  states[k] = TakeCharacter(states[k - 1], format[k])
  <2>1. /\ k \in 0 .. n /\ k - 1 \in 0 .. n
        /\ 1 .. k \in SUBSET (1 .. n) /\ 1 .. k # {} /\ (1 .. k) \ {k} = 1 .. (k - 1)
    <3>1. k \in 0 .. n /\ k - 1 \in 0 .. n
      OBVIOUS
    <3>2. 1 .. k \in SUBSET (1 .. n) /\ k \in 1 .. k
      OBVIOUS
    <3>3. \A x : x \in (1 .. k) \ {k} <=> x \in 1 .. (k - 1)
      OBVIOUS
    <3>. QED
      BY <3>1, <3>2, <3>3, Zenon
  <2>2. Max(1 .. k) = k
    <3>. DEFINE S == 1 .. k
    <3>1. S \subseteq Nat /\ k \in S /\ \A x \in S : k >= x
      OBVIOUS
    <3>. HIDE DEF S
    <3>2. Max(S) = k
      BY <3>1, MaxIs
    <3>. QED
      BY <3>2 DEF S
  <2>. HIDE DEF states
  <2>. QED
    BY <1>2, <1>3, <2>1, <2>2, Zenon
<1>6. n \in 0 .. n
  OBVIOUS
<1>. QED
  BY <1>1, <1>3, <1>4, <1>5, <1>6, Zenon DEF Takes

---------------------------------------------------------------------------
(* The characters of a format *)

\* What UARTprintf is at, outside of a conversion and in one.
PrintAt(out, percent, count, fill, args) ==
    [out |-> out, percent |-> percent, count |-> count, fill |-> fill, args |-> args]
Outside(out, count, fill, args) == PrintAt(out, FALSE, count, fill, args)
Inside(out, count, fill, args) == PrintAt(out, TRUE, count, fill, args)

\* How a digit of the width and the end of a conversion change it.
Widened(state, count, fill) == [state EXCEPT !.count = count, !.fill = fill]
Finished(state, percent, args, out) ==
    [state EXCEPT !.percent = percent, !.args = args, !.out = out]
Closed(state, args, out) == Finished(state, FALSE, args, out)

\* They change the parts they name and leave the others alone.
LEMMA PartsChanged ==
    ASSUME NEW out, NEW percent, NEW count, NEW fill, NEW args,
           NEW out2, NEW percent2, NEW count2, NEW fill2, NEW args2
    PROVE  /\ Finished(PrintAt(out, percent, count, fill, args), percent2, args2, out2)
                 = PrintAt(out2, percent2, count, fill, args2)
           /\ Widened(PrintAt(out, percent, count, fill, args), count2, fill2)
                 = PrintAt(out, percent, count2, fill2, args)
<1>. DEFINE r0 == PrintAt(out, percent, count, fill, args)
            r1 == PrintAt(out, percent2, count, fill, args)
            r2 == PrintAt(out, percent2, count, fill, args2)
            r3 == PrintAt(out, percent, count2, fill, args)
<1>1. \A r : /\ Finished(r, percent2, args2, out2)
                   = [[[r EXCEPT !.percent = percent2] EXCEPT !.args = args2] EXCEPT !.out = out2]
             /\ Widened(r, count2, fill2) = [[r EXCEPT !.count = count2] EXCEPT !.fill = fill2]
  BY DEF Finished, Widened
<1>2. /\ [r0 EXCEPT !.percent = percent2] = r1 /\ [r1 EXCEPT !.args = args2] = r2
      /\ [r2 EXCEPT !.out = out2] = PrintAt(out2, percent2, count, fill, args2)
      /\ [r0 EXCEPT !.count = count2] = r3
      /\ [r3 EXCEPT !.fill = fill2] = PrintAt(out, percent, count2, fill2, args)
  BY DEF PrintAt
<1>. HIDE DEF r0, r1, r2, r3
<1>3. /\ Finished(r0, percent2, args2, out2) = PrintAt(out2, percent2, count, fill, args2)
      /\ Widened(r0, count2, fill2) = PrintAt(out, percent, count2, fill2, args)
  BY <1>1, <1>2
<1>. QED
  BY <1>3 DEF r0

\* The same where it is known whether a conversion has begun.
LEMMA StatesChanged ==
    ASSUME NEW out, NEW count, NEW fill, NEW args, NEW out2, NEW count2, NEW fill2, NEW args2
    PROVE  /\ Closed(Inside(out, count, fill, args), args2, out2)
                 = Outside(out2, count, fill, args2)
           /\ Widened(Inside(out, count, fill, args), count2, fill2)
                 = Inside(out, count2, fill2, args)
<1>. DEFINE yes == TRUE
            no == FALSE
<1>1. yes = TRUE /\ no = FALSE
  OBVIOUS
<1>. HIDE DEF yes, no
<1>2. /\ Finished(PrintAt(out, yes, count, fill, args), no, args2, out2)
            = PrintAt(out2, no, count, fill, args2)
      /\ Widened(PrintAt(out, yes, count, fill, args), count2, fill2)
            = PrintAt(out, yes, count2, fill2, args)
  BY PartsChanged
<1>. QED
  BY <1>2 DEF yes, no, Inside, Outside, Closed

\* What UARTprintf is at behind a character.
Leads(state, char, after) == TakeCharacter(state, char) = after

\* An ordinary character is written.
LEMMA TakesPlain ==
    ASSUME NEW out, NEW count, NEW fill, NEW args, NEW char, char # "%"
    PROVE  Leads(Outside(out, count, fill, args), char,
                 Outside(out \o UARTwrite(<<char>>), count, fill, args))
BY DEF Leads, TakeCharacter, Inside, Outside, PrintAt

\* A conversion is filled with blanks unless its width begins with 0.
Blank == " "

\* A percent sign begins a conversion.
LEMMA TakesPercent ==
    ASSUME NEW out, NEW count, NEW fill, NEW args
    PROVE  Leads(Outside(out, count, fill, args), "%", Inside(out, 0, Blank, args))
BY DEF Leads, TakeCharacter, Inside, Outside, PrintAt, Blank

\* Digits are different.
LEMMA DigitsDiffer ==
    ASSUME NEW a \in 0 .. 9, NEW b \in 0 .. 9, Digit(a) = Digit(b)
    PROVE  a = b
BY DEF Digit, g_pcHex

\* A 0 at the beginning of the width fills up with zeros.
Filling(number, count, fill) == IF number = 0 /\ count = 0 THEN "0" ELSE fill

\* A digit belongs to the width.
LEMMA TakesWidth ==
    ASSUME NEW out, NEW count, NEW fill, NEW args, NEW number \in 0 .. 9
    PROVE  Leads(Inside(out, count, fill, args), Digit(number),
                 Inside(out, Wrap(count * 10 + number), Filling(number, count, fill), args))
<1>. DEFINE char == Digit(number)
            state == Inside(out, count, fill, args)
            found == CHOOSE x \in 0 .. 9 : char = Digit(x)
<1>1. \E x \in 0 .. 9 : char = Digit(x)
  OBVIOUS
<1>2. found \in 0 .. 9 /\ char = Digit(found)
  <2>. HIDE DEF char
  <2>. QED
    BY <1>1, Zenon
<1>3. found = number
  <2>. HIDE DEF found
  <2>. QED
    BY <1>2, DigitsDiffer
<1>4. state.percent
  BY DEF Inside, PrintAt
<1>5. TakeCharacter(state, char) =
          Widened(state, Wrap(state.count * 10 + found),
                  IF found = 0 /\ state.count = 0 THEN "0" ELSE state.fill)
  <2>. HIDE DEF char, state
  <2>. QED
    BY <1>1, <1>4, Zenon DEF TakeCharacter, Widened
<1>. HIDE DEF found, char
<1>6. state.count = count /\ state.fill = fill
  BY DEF Inside, PrintAt
<1>. DEFINE width == Wrap(count * 10 + number)
            filling == IF number = 0 /\ count = 0 THEN "0" ELSE fill
<1>7. TakeCharacter(state, char) = Widened(state, width, filling)
  <2>. HIDE DEF state
  <2>. QED
    BY <1>3, <1>5, <1>6, Zenon
<1>. HIDE DEF width, filling
<1>8. Widened(state, width, filling) = Inside(out, width, filling, args)
  BY StatesChanged
<1>. QED
  BY <1>7, <1>8, Zenon DEF char, width, filling, Filling, Leads

\* No conversion is a digit of the width.
NotWidth(char) == \A number \in 0 .. 9 : char # Digit(number)

\* Those of the run take an argument, a percent sign does not.
LEMMA KindsNotWidth ==
    /\ \A char \in {"d", "s", "u", "x"} : NotWidth(char) /\ char \in TakesArgument
    /\ NotWidth("%") /\ "%" \notin TakesArgument
BY DEF NotWidth, Digit, g_pcHex, TakesArgument

\* A conversion takes its argument.
LEMMA TakesKind ==
    ASSUME NEW out, NEW count, NEW fill, NEW args, NEW char, NotWidth(char), char \in TakesArgument
    PROVE  Leads(Inside(out, count, fill, args), char,
                 Outside(out \o Conversion(char, Head(args), count, fill), count, fill,
                         Tail(args)))
<1>. DEFINE state == Inside(out, count, fill, args)
            written == out \o Conversion(char, Head(args), count, fill)
<1>1. /\ state.percent /\ state.out = out /\ state.args = args
      /\ state.count = count /\ state.fill = fill
  BY DEF Inside, PrintAt
<1>2. TakeCharacter(state, char) =
          Closed(state, Tail(state.args),
                   state.out \o Conversion(char, Head(state.args), state.count, state.fill))
  <2>. HIDE DEF state
  <2>. QED
    BY <1>1, Zenon DEF TakeCharacter, NotWidth, Finished, Closed
<1>3. TakeCharacter(state, char) = Closed(state, Tail(args), written)
  <2>. HIDE DEF state
  <2>. QED
    BY <1>1, <1>2, Zenon
<1>. HIDE DEF written
<1>4. Closed(state, Tail(args), written) = Outside(written, count, fill, Tail(args))
  BY StatesChanged
<1>. QED
  BY <1>3, <1>4, Zenon DEF written, Leads

\* Two percent signs are one.
LEMMA TakesTwice ==
    ASSUME NEW out, NEW count, NEW fill, NEW args
    PROVE  Leads(Inside(out, count, fill, args), "%",
                 Outside(out \o <<"%">>, count, fill, args))
<1>. DEFINE state == Inside(out, count, fill, args)
            written == out \o <<"%">>
<1>1. state.percent /\ state.out = out /\ state.args = args
  BY DEF Inside, PrintAt
<1>2. \A c, f : Conversion("%", 0, c, f) = <<"%">>
  BY DEF Conversion
<1>3. TakeCharacter(state, "%") =
          Closed(state, state.args, state.out \o Conversion("%", 0, state.count, state.fill))
  <2>. HIDE DEF state
  <2>. QED
    BY <1>1, KindsNotWidth, Zenon DEF TakeCharacter, NotWidth, Finished, Closed
<1>4. TakeCharacter(state, "%") = Closed(state, args, written)
  <2>. HIDE DEF state
  <2>. QED
    BY <1>1, <1>2, <1>3, Zenon
<1>. HIDE DEF written
<1>5. Closed(state, args, written) = Outside(written, count, fill, args)
  BY StatesChanged
<1>. QED
  BY <1>4, <1>5, Zenon DEF written, Leads

---------------------------------------------------------------------------
(* What UARTwrite writes *)

\* Sequences put one behind another are a sequence; a single one stays as it is.
LEMMA Flattened ==
    ASSUME NEW S, NEW seqs \in Seq(Seq(S))
    PROVE  /\ FlattenSeq(seqs) \in Seq(S)
           /\ Len(seqs) = 1 => FlattenSeq(seqs) = seqs[1]
<1>. DEFINE n == Len(seqs)
            D == 1 .. n
            V == Seq(S)
            body(f) == [i \in D |-> IF i = 1 THEN seqs[i] ELSE f[i - 1] \o seqs[i]]
            flatten == CHOOSE f : f = body(f)
            measure == [i \in D |-> i]
            leaf == [i \in D |-> seqs[i]]
            next == [i \in D |-> i - 1]
            step == [i \in D |-> [s \in V |-> Then(s, seqs[i])]]
<1>1. n \in Nat /\ \A i \in D : seqs[i] \in V
  OBVIOUS
<1>. HIDE DEF n
<1>2. CASE n = 0
  <2>1. FlattenSeq(seqs) = seqs
    BY <1>2, Zenon DEF FlattenSeq, n
  <2>2. seqs = <<>>
    BY <1>2 DEF n
  <2>. QED
    BY <1>2, <2>1, <2>2, EmptySeq DEF n
<1>3. CASE n # 0
  <2>1. Descends(D, V, measure, {1}, leaf, next, step)
    <3>1. ASSUME NEW i \in D
          PROVE  /\ measure[i] \in Nat /\ leaf[i] \in V
                 /\ i # 1 => next[i] \in D /\ measure[next[i]] < measure[i]
      BY <1>1
    <3>2. ASSUME NEW i \in D, NEW s \in V
          PROVE  step[i][s] \in V
      <4>1. step[i][s] = Then(s, seqs[i])
        BY Zenon
      <4>2. Then(s, seqs[i]) \in V
        BY <1>1 DEF Then
      <4>. HIDE DEF step, D, V
      <4>. QED
        BY <4>1, <4>2
    <3>3. V # {}
      BY EmptySeq
    <3>. HIDE DEF D, V, measure, leaf, next, step
    <3>. QED
      BY <3>1, <3>2, <3>3 DEF Descends
  <2>2. PICK f \in [D -> V] : Follows(f, D, {1}, leaf, next, step)
    <3>. HIDE DEF D, V, measure, leaf, next, step
    <3>. QED
      BY <2>1, Recursion
  <2>3. ASSUME NEW i \in D
        PROVE  f[i] = IF i = 1 THEN seqs[i] ELSE f[i - 1] \o seqs[i]
    <3>1. f[i] = IF i \in {1} THEN leaf[i] ELSE step[i][f[next[i]]]
      <4>. HIDE DEF D, V, leaf, next, step
      <4>. QED
        BY <2>2 DEF Follows
    <3>2. CASE i = 1
      <4>1. leaf[i] = seqs[i]
        OBVIOUS
      <4>. HIDE DEF leaf, step
      <4>. QED
        BY <3>1, <3>2, <4>1
    <3>3. CASE i # 1
      <4>1. next[i] = i - 1 /\ i - 1 \in D
        BY <1>1, <3>3
      <4>2. f[i - 1] \in V
        <5>. HIDE DEF D, V
        <5>. QED
          BY <2>2, <4>1
      <4>3. step[i][f[i - 1]] = Then(f[i - 1], seqs[i])
        BY <4>2, Zenon
      <4>4. f[i] = step[i][f[i - 1]]
        <5>. HIDE DEF D, V, leaf, next, step
        <5>. QED
          BY <3>1, <3>3, <4>1
      <4>. HIDE DEF step
      <4>. QED
        BY <3>3, <4>3, <4>4, Zenon DEF Then
    <3>. QED
      BY <3>2, <3>3
  <2>4. f = body(f)
    <3>1. f = [i \in D |-> f[i]]
      <4>. HIDE DEF D, V
      <4>. QED
        BY <2>2
    <3>. HIDE DEF D
    <3>. QED
      BY <2>3, <3>1, Zenon
  <2>5. flatten = body(flatten)
    <3>. HIDE DEF body
    <3>. QED
      BY <2>4
  <2>6. FlattenSeq(seqs) = flatten[n]
    BY <1>3, Zenon DEF FlattenSeq, n
  <2>. HIDE DEF flatten
  <2>7. ASSUME NEW i \in D
        PROVE  flatten[i] = IF i = 1 THEN seqs[i] ELSE flatten[i - 1] \o seqs[i]
    <3>1. flatten[i] = body(flatten)[i]
      <4>. HIDE DEF body
      <4>. QED
        BY <2>5
    <3>. HIDE DEF D
    <3>. QED
      BY <3>1, Zenon
  <2>8. \A i \in D : flatten[i] \in V
    <3>. DEFINE Wrong == {i \in D : flatten[i] \notin V}
    <3>1. ASSUME Wrong # {}
          PROVE  FALSE
      <4>1. Wrong \subseteq Nat
        OBVIOUS
      <4>2. PICK i \in Wrong : i # 0 => i - 1 \in Nat /\ i - 1 \notin Wrong
        <5>. HIDE DEF Wrong
        <5>. QED
          BY <3>1, <4>1, LeastWrongNatural
      <4>3. i \in D /\ flatten[i] \notin V /\ i # 0
        BY <1>1, <4>2
      <4>4. CASE i = 1
        <5>1. flatten[i] = seqs[i]
          BY <2>7, <4>3, <4>4, Zenon
        <5>. HIDE DEF V, D
        <5>. QED
          BY <1>1, <4>3, <5>1
      <4>5. CASE i # 1
        <5>1. i - 1 \in D
          BY <1>1, <4>3, <4>5
        <5>2. flatten[i - 1] \in V
          BY <4>2, <4>3, <5>1
        <5>3. flatten[i] = flatten[i - 1] \o seqs[i]
          BY <2>7, <4>3, <4>5, Zenon
        <5>4. seqs[i] \in V
          BY <1>1, <4>3
        <5>5. \A s, t \in V : s \o t \in V
          OBVIOUS
        <5>. HIDE DEF D, V
        <5>. QED
          BY <4>3, <5>2, <5>3, <5>4, <5>5
      <4>. QED
        BY <4>4, <4>5
    <3>. QED
      BY <3>1
  <2>9. n \in D /\ 1 \in D
    BY <1>1, <1>3
  <2>10. n = 1 => flatten[n] = seqs[1]
    BY <2>7, <2>9, Zenon
  <2>. QED
    BY <2>6, <2>8, <2>9, <2>10 DEF n
<1>. QED
  BY <1>2, <1>3

\* What may be written.
Chars == HexDigits \cup {"-", " ", "\r", "\n", "%"}

\* What is written is made of characters; a line end gets its carriage return.
LEMMA Writes ==
    /\ \A chars \in Seq(Chars) : UARTwrite(chars) \in Seq(Chars)
    /\ UARTwrite(<<"\n">>) = <<"\r", "\n">>
    /\ \A char \in Chars : char # "\n" => UARTwrite(<<char>>) = <<char>>
<1>. DEFINE piece(char) == IF char = "\n" THEN <<"\r", "\n">> ELSE <<char>>
            pieces(chars) == [k \in DOMAIN chars |-> piece(chars[k])]
<1>1. \A chars : UARTwrite(chars) = FlattenSeq(pieces(chars))
  BY Zenon DEF UARTwrite
<1>2. ASSUME NEW char \in Chars
      PROVE  piece(char) \in Seq(Chars)
  <2>1. "\r" \in Chars /\ "\n" \in Chars
    BY DEF Chars
  <2>2. \A a, b \in Chars : <<a, b>> \in Seq(Chars) /\ <<a>> \in Seq(Chars)
    OBVIOUS
  <2>3. <<"\r", "\n">> \in Seq(Chars) /\ <<char>> \in Seq(Chars)
    BY <2>1, <2>2, Zenon
  <2>. QED
    BY <2>3, Zenon
<1>3. ASSUME NEW chars \in Seq(Chars)
      PROVE  pieces(chars) \in Seq(Seq(Chars)) /\ Len(pieces(chars)) = Len(chars)
  <2>1. \A k \in DOMAIN chars : piece(chars[k]) \in Seq(Chars)
    <3>. HIDE DEF piece
    <3>. QED
      BY <1>2
  <2>2. DOMAIN chars = 1 .. Len(chars) /\ Len(chars) \in Nat
    OBVIOUS
  <2>3. pieces(chars) \in [1 .. Len(chars) -> Seq(Chars)]
    <3>. HIDE DEF piece
    <3>. QED
      BY <2>1, <2>2
  <2>. HIDE DEF pieces
  <2>. QED
    BY <2>2, <2>3, FunctionIsSeq
<1>4. ASSUME NEW char \in Chars
      PROVE  UARTwrite(<<char>>) = piece(char)
  <2>. DEFINE chars == <<char>>
  <2>1. chars \in Seq(Chars) /\ Len(chars) = 1 /\ 1 \in DOMAIN chars /\ chars[1] = char
    BY <1>4
  <2>. HIDE DEF chars
  <2>2. pieces(chars)[1] = piece(char)
    <3>. HIDE DEF piece
    <3>. QED
      BY <2>1
  <2>3. FlattenSeq(pieces(chars)) = pieces(chars)[1]
    <3>. HIDE DEF pieces
    <3>. QED
      BY <1>3, <2>1, Flattened
  <2>. HIDE DEF pieces, piece
  <2>. QED
    BY <1>1, <2>2, <2>3 DEF chars
<1>5. \A chars \in Seq(Chars) : UARTwrite(chars) \in Seq(Chars)
  <2>. HIDE DEF pieces
  <2>. QED
    BY <1>1, <1>3, Flattened
<1>6. "\n" \in Chars
  BY DEF Chars
<1>. QED
  BY <1>4, <1>5, <1>6

---------------------------------------------------------------------------
(* A conversion among other characters *)

\* Widths of at most one place, with and without the 0 that fills with zeros.
Widths == {<<>>} \cup {<<n>> : n \in 1 .. 9} \cup {<<0, n>> : n \in 1 .. 9}
WidthOf(width) == IF width = <<>> THEN 0 ELSE width[Len(width)]
FillOf(width) == IF width # <<>> /\ width[1] = 0 THEN "0" ELSE Blank

\* A line end, a conversion, a percent sign and a letter.
Layout(format, width, kind) ==
    /\ DOMAIN format = 1 .. Len(width) + 6
    /\ format[1] = "\n" /\ format[2] = "%"
    /\ \A k \in DOMAIN width : format[2 + k] = Digit(width[k])
    /\ format[Len(width) + 3] = kind /\ format[Len(width) + 4] = "%"
    /\ format[Len(width) + 5] = "%" /\ format[Len(width) + 6] = "a"

\* A width begins empty and is one of these.
LEMMA WidthCases ==
    ASSUME NEW width \in Widths
    PROVE  /\ Len(width) \in 0 .. 2 /\ DOMAIN width = 1 .. Len(width)
           /\ WidthOf(width) \in 0 .. 9
           /\ Len(width) = 0 => width = <<>> /\ WidthOf(width) = 0 /\ FillOf(width) = Blank
           /\ Len(width) = 1 =>
                 width[1] \in 1 .. 9 /\ WidthOf(width) = width[1] /\ FillOf(width) = Blank
           /\ Len(width) = 2 =>
                 /\ width[1] = 0 /\ width[2] \in 1 .. 9
                 /\ WidthOf(width) = width[2] /\ FillOf(width) = "0"
<1>1. CASE width = <<>>
  BY <1>1 DEF WidthOf, FillOf
<1>2. CASE \E n \in 1 .. 9 : width = <<n>>
  <2>1. PICK n \in 1 .. 9 : width = <<n>>
    BY <1>2
  <2>2. Len(width) = 1 /\ DOMAIN width = 1 .. 1 /\ width[1] = n /\ width # <<>> /\ n # 0
    BY <2>1
  <2>. QED
    BY <2>2 DEF WidthOf, FillOf
<1>3. CASE \E n \in 1 .. 9 : width = <<0, n>>
  <2>1. PICK n \in 1 .. 9 : width = <<0, n>>
    BY <1>3
  <2>2. Len(width) = 2 /\ DOMAIN width = 1 .. 2 /\ width[1] = 0 /\ width[2] = n /\ width # <<>>
    BY <2>1
  <2>. QED
    BY <2>2 DEF WidthOf, FillOf
<1>. QED
  BY <1>1, <1>2, <1>3 DEF Widths

\* The digits of a width make it.
LEMMA WidthTaken ==
    ASSUME NEW width \in Widths, NEW states, NEW format, NEW kind, Layout(format, width, kind),
           NEW out, NEW args, NEW start, Takes(states, start, format, Len(width) + 6),
           states[2] = Inside(out, 0, Blank, args)
    PROVE  states[Len(width) + 2] = Inside(out, WidthOf(width), FillOf(width), args)
<1>. DEFINE len == Len(width)
<1>1. len \in 0 .. 2 /\ DOMAIN width = 1 .. len
  BY WidthCases
<1>2. ASSUME NEW k \in 1 .. len
      PROVE  states[k + 2] = TakeCharacter(states[k + 1], Digit(width[k]))
  <2>1. k + 2 \in 1 .. len + 6 /\ (k + 2) - 1 = k + 1 /\ 2 + k = k + 2
    BY <1>1
  <2>2. states[k + 2] = TakeCharacter(states[k + 1], format[k + 2])
    BY <2>1 DEF Takes
  <2>3. format[k + 2] = Digit(width[k])
    BY <1>1, <2>1 DEF Layout
  <2>. QED
    BY <2>2, <2>3, Zenon
<1>3. \A n \in 0 .. 9 : Wrap(n) = n
  <2>1. \A n \in 0 .. 9 : n \in Int /\ n \in Values
    BY ModulusAssumption DEF Values
  <2>. QED
    BY <2>1, WrapType
<1>4. CASE len = 0
  BY <1>4, WidthCases
<1>5. ASSUME NEW number \in 0 .. 9, NEW fill
      PROVE  Leads(Inside(out, 0, fill, args), Digit(number),
                   Inside(out, number, Filling(number, 0, fill), args))
  <2>1. 0 * 10 + number = number /\ Wrap(number) = number
    BY <1>3
  <2>. DEFINE none == 0
              width0 == none * 10 + number
  <2>2. Leads(Inside(out, none, fill, args), Digit(number),
              Inside(out, Wrap(width0), Filling(number, none, fill), args))
    <3>. HIDE DEF none
    <3>. QED
      BY TakesWidth, Zenon
  <2>. QED
    BY <2>1, <2>2, Zenon
<1>6. CASE len = 1
  <2>1. /\ 1 \in 1 .. len /\ width[1] \in 0 .. 9 /\ width[1] # 0 /\ 1 + 1 = 2 /\ 1 + 2 = 3
        /\ len + 2 = 3 /\ WidthOf(width) = width[1] /\ FillOf(width) = Blank
    BY <1>6, WidthCases
  <2>2. states[3] = TakeCharacter(Inside(out, 0, Blank, args), Digit(width[1]))
    BY <1>2, <2>1
  <2>3. states[3] = Inside(out, width[1], Blank, args)
    <3>1. Leads(Inside(out, 0, Blank, args), Digit(width[1]),
                Inside(out, width[1], Filling(width[1], 0, Blank), args))
      BY <1>5, <2>1, Zenon
    <3>2. Filling(width[1], 0, Blank) = Blank
      BY <2>1 DEF Filling
    <3>. QED
      BY <2>1, <2>2, <3>1, <3>2, Zenon DEF Leads
  <2>. QED
    BY <2>1, <2>3, Zenon
<1>7. CASE len = 2
  <2>1. /\ 1 \in 1 .. len /\ width[1] \in 0 .. 9 /\ width[1] = 0 /\ 1 + 1 = 2 /\ 1 + 2 = 3
        /\ 2 \in 1 .. len /\ width[2] \in 0 .. 9 /\ width[2] # 0 /\ 2 + 1 = 3 /\ 2 + 2 = 4
        /\ len + 2 = 4 /\ WidthOf(width) = width[2] /\ FillOf(width) = "0"
    BY <1>7, WidthCases
  <2>2. states[3] = TakeCharacter(Inside(out, 0, Blank, args), Digit(width[1]))
    BY <1>2, <2>1
  <2>3. states[3] = Inside(out, 0, "0", args)
    <3>1. Leads(Inside(out, 0, Blank, args), Digit(width[1]),
                Inside(out, width[1], Filling(width[1], 0, Blank), args))
      BY <1>5, <2>1, Zenon
    <3>2. Filling(width[1], 0, Blank) = "0"
      BY <2>1 DEF Filling
    <3>. QED
      BY <2>1, <2>2, <3>1, <3>2, Zenon DEF Leads
  <2>4. states[4] = TakeCharacter(Inside(out, 0, "0", args), Digit(width[2]))
    BY <1>2, <2>1, <2>3
  <2>5. states[4] = Inside(out, width[2], "0", args)
    <3>1. Leads(Inside(out, 0, "0", args), Digit(width[2]),
                Inside(out, width[2], Filling(width[2], 0, "0"), args))
      BY <1>5, <2>1, Zenon
    <3>2. Filling(width[2], 0, "0") = "0"
      BY <2>1 DEF Filling
    <3>. QED
      BY <2>1, <2>4, <3>1, <3>2, Zenon DEF Leads
  <2>. QED
    BY <2>1, <2>5, Zenon
<1>. QED
  BY <1>1, <1>4, <1>6, <1>7

\* What the characters around it make of a conversion.
Surrounded(printed, converted) ==
    printed = ((<<"\r", "\n">> \o converted) \o <<"%">>) \o <<"a">>

\* What is printed is the conversion, with what is around it.
LEMMA FormatPrinted ==
    ASSUME NEW width \in Widths, NEW kind \in {"d", "s", "u", "x"}, NEW format,
           Layout(format, width, kind), NEW arg
    PROVE  Surrounded(UARTvprintf(format, <<arg>>),
                      Conversion(kind, arg, WidthOf(width), FillOf(width)))
<1>. DEFINE args == <<arg>>
            start == [out |-> <<>>, percent |-> FALSE, count |-> 0, fill |-> " ", args |-> args]
            len == Len(width)
            written == <<"\r", "\n">>
            count == WidthOf(width)
            fill == FillOf(width)
            converted == Conversion(kind, arg, count, fill)
<1>1. len \in 0 .. 2
  BY WidthCases
<1>2. start = Outside(<<>>, 0, Blank, args)
  BY DEF Outside, PrintAt, Blank
<1>3. UARTvprintf(format, args) = FoldLeft(TakeCharacter, start, format).out
  BY Zenon DEF UARTvprintf
<1>4. Head(args) = arg
  <2>. HIDE DEF start
  <2>. QED
    OBVIOUS
<1>. HIDE DEF start, args
<1>5. PICK states : /\ Takes(states, start, format, len + 6)
                    /\ FoldLeft(TakeCharacter, start, format) = states[len + 6]
  <2>1. len + 6 \in Nat /\ DOMAIN format = 1 .. len + 6
    BY <1>1 DEF Layout
  <2>. QED
    BY <2>1, FormatTaken
<1>6. /\ states[0] = start /\ states[1] = TakeCharacter(states[0], "\n")
      /\ states[2] = TakeCharacter(states[1], "%")
      /\ states[len + 3] = TakeCharacter(states[len + 2], kind)
      /\ states[len + 4] = TakeCharacter(states[len + 3], "%")
      /\ states[len + 5] = TakeCharacter(states[len + 4], "%")
      /\ states[len + 6] = TakeCharacter(states[len + 5], "a")
  <2>1. /\ states[0] = start
        /\ \A k \in 1 .. len + 6 : states[k] = TakeCharacter(states[k - 1], format[k])
    BY <1>5 DEF Takes
  <2>2. /\ 1 \in 1 .. len + 6 /\ 2 \in 1 .. len + 6 /\ len + 3 \in 1 .. len + 6
        /\ len + 4 \in 1 .. len + 6 /\ len + 5 \in 1 .. len + 6 /\ len + 6 \in 1 .. len + 6
        /\ 1 - 1 = 0 /\ 2 - 1 = 1 /\ (len + 3) - 1 = len + 2 /\ (len + 4) - 1 = len + 3
        /\ (len + 5) - 1 = len + 4 /\ (len + 6) - 1 = len + 5
    BY <1>1
  <2>3. /\ format[1] = "\n" /\ format[2] = "%" /\ format[len + 3] = kind
        /\ format[len + 4] = "%" /\ format[len + 5] = "%" /\ format[len + 6] = "a"
    BY DEF Layout
  <2>. QED
    BY <2>1, <2>2, <2>3, Zenon
<1>7. "\n" # "%" /\ "a" # "%" /\ "a" # "\n" /\ "\n" \in Chars /\ "a" \in Chars
  BY DEF Chars, HexDigits
<1>8. UARTwrite(<<"\n">>) = written /\ UARTwrite(<<"a">>) = <<"a">>
  BY <1>7, Writes
<1>9. states[1] = Outside(written, 0, Blank, args)
  <2>1. <<>> \o written = written
    OBVIOUS
  <2>2. Leads(Outside(<<>>, 0, Blank, args), "\n",
              Outside(<<>> \o UARTwrite(<<"\n">>), 0, Blank, args))
    BY <1>7, TakesPlain, Zenon
  <2>. HIDE DEF written
  <2>. QED
    BY <1>2, <1>6, <1>8, <2>1, <2>2, Zenon DEF Leads
<1>. HIDE DEF written
<1>10. states[2] = Inside(written, 0, Blank, args)
  BY <1>6, <1>9, TakesPercent, Zenon DEF Leads
<1>11. states[len + 2] = Inside(written, count, fill, args)
  BY <1>5, <1>10, WidthTaken
<1>. HIDE DEF count, fill
<1>12. NotWidth(kind) /\ kind \in TakesArgument
  BY KindsNotWidth
<1>13. states[len + 3] = Outside(written \o converted, count, fill, Tail(args))
  <2>1. Leads(Inside(written, count, fill, args), kind,
              Outside(written \o Conversion(kind, Head(args), count, fill), count, fill,
                      Tail(args)))
    BY <1>12, TakesKind, Zenon
  <2>. QED
    BY <1>4, <1>6, <1>11, <2>1, Zenon DEF Leads
<1>. HIDE DEF converted
<1>14. states[len + 4] = Inside(written \o converted, 0, Blank, Tail(args))
  BY <1>6, <1>13, TakesPercent, Zenon DEF Leads
<1>15. states[len + 5] = Outside((written \o converted) \o <<"%">>, 0, Blank, Tail(args))
  BY <1>6, <1>14, TakesTwice, Zenon DEF Leads
<1>16. states[len + 6] =
           Outside(((written \o converted) \o <<"%">>) \o <<"a">>, 0, Blank, Tail(args))
  <2>. DEFINE before == (written \o converted) \o <<"%">>
  <2>. HIDE DEF before
  <2>1. Leads(Outside(before, 0, Blank, Tail(args)), "a",
              Outside(before \o UARTwrite(<<"a">>), 0, Blank, Tail(args)))
    BY <1>7, TakesPlain, Zenon
  <2>. QED
    BY <1>6, <1>8, <1>15, <2>1, Zenon DEF before, Leads
<1>17. \A o, a : Outside(o, 0, Blank, a).out = o
  BY DEF Outside, PrintAt
<1>18. FoldLeft(TakeCharacter, start, format).out
           = ((written \o converted) \o <<"%">>) \o <<"a">>
  BY <1>5, <1>16, <1>17, Zenon
<1>. QED
  BY <1>3, <1>18, Zenon DEF args, written, converted, count, fill, Surrounded
=============================================================================
