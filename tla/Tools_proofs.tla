----------------------------- MODULE Tools_proofs -----------------------------
(***************************************************************************)
(* Proofs about three of the collecting tools: what pt-mongodb-index-check *)
(* reports, what pt-secure-collect archives and what pt-mongodb-summary    *)
(* prints, for inputs of every size.                                       *)
(*                                                                         *)
(* Each tool computes its answer in a loop over a list: the keys of an     *)
(* index, the lines of a file, the hosts of a cluster.  The first section  *)
(* has what those proofs share: induction up to a bound, taken from the    *)
(* least element of a set of naturals; the existence of the function that  *)
(* a loop computes; and facts about prefixes and lists.                    *)
(***************************************************************************)
EXTENDS MongoIndexCheck, SecureCollect, MongoSummary, FiniteSetTheorems,
        WellFoundedInduction, TLAPS

LEMMA Smallest ==
    ASSUME NEW T, T \subseteq Nat, T # {}
    PROVE  \E x \in T : \A y \in T : x <= y
<1> DEFINE Less == {p \in Nat \X Nat : p[1] < p[2]}
<1>1. IsWellFoundedOn(Less, Nat)
  BY NatLessThanWellFounded DEF OpToRel
<1>2. PICK x \in T : \A y \in T : ~ (<<y, x>> \in Less)
  <2> HIDE DEF Less
  <2>1. QED
    BY <1>1, WFMin
<1>3. ASSUME NEW y \in T PROVE x <= y
  <2>1. <<y, x>> \in Nat \X Nat
    BY <1>3
  <2>2. ~(<<y, x>>[1] < <<y, x>>[2])
    BY <1>2, <2>1
  <2>3. QED
    BY <2>2, <2>1
<1>4. QED
  BY <1>3

(* A set of naturals that holds 0 and with each n below N its successor    *)
(* holds all up to N.                                                      *)
LEMMA UpTo ==
    ASSUME NEW N \in Nat, NEW T, 0 \in T,
           \A n \in 1 .. N : n - 1 \in T => n \in T
    PROVE  0 .. N \subseteq T
<1> SUFFICES ASSUME (0 .. N) \ T # {} PROVE FALSE
  OBVIOUS
<1>1. PICK x \in (0 .. N) \ T : \A y \in (0 .. N) \ T : x <= y
  <2>1. (0 .. N) \ T \subseteq Nat
    OBVIOUS
  <2>2. QED
    BY <2>1, Smallest
<1>2. x \in 1 .. N /\ x - 1 \in 0 .. N /\ ~(x <= x - 1)
  BY <1>1
<1>3. QED
  BY <1>1, <1>2

(* Primitive recursion along a bounded loop whose body is a function.      *)
Loops(f, A, first, N, body) ==
    /\ f \in [0 .. N -> A] /\ f[0] = first
    /\ \A n \in 1 .. N : f[n] = body[<<f[n - 1], n>>]

LEMMA Loop ==
    ASSUME NEW A, NEW first \in A, NEW N \in Nat, NEW body \in [A \X (1 .. N) -> A]
    PROVE  \E f : Loops(f, A, first, N, body)
<1> DEFINE Good(m, f) == f[0] = first /\ \A n \in 1 .. m : f[n] = body[<<f[n - 1], n>>]
           T == {m \in 0 .. N : \E f \in [0 .. m -> A] : Good(m, f)}
<1>1. 0 \in T
  <2> DEFINE h == [i \in 0 .. 0 |-> first]
  <2>1. h \in [0 .. 0 -> A] /\ Good(0, h) /\ 0 \in 0 .. N
    OBVIOUS
  <2>2. QED
    <3> HIDE DEF h, Good
    <3>1. QED
      BY <2>1
<1>2. ASSUME NEW n \in 1 .. N, n - 1 \in T PROVE n \in T
  <2>1. PICK f \in [0 .. n - 1 -> A] : Good(n - 1, f)
    BY <1>2
  <2> DEFINE g == [i \in 0 .. n |-> IF i = n THEN body[<<f[n - 1], n>>] ELSE f[i]]
  <2>2. g \in [0 .. n -> A]
    OBVIOUS
  <2>3. Good(n, g)
    <3>1. g[0] = first
      BY <2>1
    <3>2. ASSUME NEW k \in 1 .. n PROVE g[k] = body[<<g[k - 1], k>>]
      <4>1. CASE k = n
        <5>1. k - 1 \in 0 .. n - 1 /\ k - 1 # n /\ k - 1 \in 0 .. n
          BY <4>1
        <5>2. g[k] = body[<<f[n - 1], n>>] /\ g[k - 1] = f[n - 1]
          BY <4>1, <5>1
        <5>3. QED
          BY <4>1, <5>2
      <4>2. CASE k # n
        <5>1. k \in 1 .. n - 1 /\ k - 1 \in 0 .. n - 1 /\ k - 1 # n /\ k \in 0 .. n
          BY <4>2
        <5>2. g[k] = f[k] /\ g[k - 1] = f[k - 1]
          BY <4>2, <5>1
        <5>3. QED
          BY <2>1, <5>1, <5>2
      <4>3. QED
        BY <4>1, <4>2
    <3>3. QED
      <4> HIDE DEF g
      <4>1. QED
        BY <3>1, <3>2
  <2>4. QED
    <3> HIDE DEF g, Good
    <3>1. QED
      BY <2>2, <2>3
<1>3. N \in T
  <2> HIDE DEF T
  <2>1. 0 .. N \subseteq T
    BY <1>1, <1>2, UpTo
  <2>2. QED
    BY <2>1
<1>4. PICK f \in [0 .. N -> A] : Good(N, f)
  BY <1>3
<1>5. Loops(f, A, first, N, body)
  BY <1>4 DEF Loops
<1>6. QED
  BY <1>5

(* FlattenSeq puts its sequences behind each other. *)
LEMMA Flattening ==
    ASSUME NEW S, NEW q \in Seq(Seq(S)), q # << >>
    PROVE  \E f \in [1 .. Len(q) -> Seq(S)] :
             /\ f[1] = q[1]
             /\ \A i \in 2 .. Len(q) : f[i] = f[i - 1] \o q[i]
             /\ FlattenSeq(q) = f[Len(q)]
<1>0. PICK N \in Nat : N = Len(q) - 1
  OBVIOUS
<1> DEFINE Eq(f) == f = [i \in 1 .. Len(q) |-> IF i = 1 THEN q[i] ELSE f[i - 1] \o q[i]]
           body == [p \in Seq(S) \X (1 .. N) |-> p[1] \o q[p[2] + 1]]
           flatten == CHOOSE f : Eq(f)
<1>1. q[1] \in Seq(S) /\ \A i \in 1 .. N : q[i + 1] \in Seq(S)
  BY <1>0
<1>2. body \in [Seq(S) \X (1 .. N) -> Seq(S)]
  <2>1. ASSUME NEW p \in Seq(S) \X (1 .. N) PROVE p[1] \o q[p[2] + 1] \in Seq(S)
    BY <1>1
  <2>2. QED
    BY <2>1
<1>3. PICK g \in [0 .. N -> Seq(S)] :
        g[0] = q[1] /\ \A n \in 1 .. N : g[n] = body[<<g[n - 1], n>>]
  <2> DEFINE A == Seq(S)
  <2>1. q[1] \in A /\ body \in [A \X (1 .. N) -> A]
    BY <1>1, <1>2
  <2>2. PICK g : Loops(g, A, q[1], N, body)
    <3> HIDE DEF body, A
    <3>1. QED
      BY <2>1, Loop
  <2>3. QED
    <3> HIDE DEF body
    <3>1. QED
      BY <2>2 DEF Loops
<1>4. \A n \in 1 .. N : g[n] = g[n - 1] \o q[n + 1]
  <2>1. ASSUME NEW n \in 1 .. N PROVE g[n] = g[n - 1] \o q[n + 1]
    <3>1. <<g[n - 1], n>> \in Seq(S) \X (1 .. N)
      BY <1>3
    <3>2. QED
      BY <1>3, <3>1
  <2>2. QED
    BY <2>1
<1> DEFINE f == [i \in 1 .. Len(q) |-> g[i - 1]]
<1>5. /\ f \in [1 .. Len(q) -> Seq(S)] /\ f[1] = q[1]
      /\ \A i \in 2 .. Len(q) : f[i] = f[i - 1] \o q[i]
  <2>1. \A i \in 1 .. Len(q) : i - 1 \in 0 .. N
    BY <1>0
  <2>2. f \in [1 .. Len(q) -> Seq(S)]
    BY <2>1
  <2>3. f[1] = q[1]
    BY <1>3
  <2>4. ASSUME NEW i \in 2 .. Len(q) PROVE f[i] = f[i - 1] \o q[i]
    <3>1. i - 1 \in 1 .. N /\ i \in 1 .. Len(q) /\ i - 1 \in 1 .. Len(q)
      BY <1>0
    <3>2. f[i] = g[i - 1] /\ f[i - 1] = g[i - 1 - 1]
      BY <3>1
    <3> PICK k \in 1 .. N : k = i - 1 /\ k + 1 = i
      BY <3>1
    <3>3. g[k] = g[k - 1] \o q[k + 1]
      BY <1>4
    <3>4. QED
      <4> HIDE DEF f
      <4>1. QED
        BY <3>2, <3>3
  <2>5. QED
    BY <2>2, <2>3, <2>4
<1>6. Eq(f)
  <2> DEFINE e == [i \in 1 .. Len(q) |-> IF i = 1 THEN q[i] ELSE f[i - 1] \o q[i]]
  <2>1. ASSUME NEW i \in 1 .. Len(q) PROVE f[i] = e[i]
    <3> HIDE DEF f
    <3>1. e[i] = IF i = 1 THEN q[i] ELSE f[i - 1] \o q[i]
      OBVIOUS
    <3>2. i # 1 => i \in 2 .. Len(q)
      OBVIOUS
    <3> HIDE DEF e
    <3>3. QED
      BY <1>5, <3>1, <3>2
  <2>2. QED
    <3> HIDE DEF f
    <3>1. f = e
      BY <1>5, <2>1
    <3>2. QED
      BY <3>1
<1>7. Eq(flatten)
  <2> HIDE DEF Eq, f
  <2>1. QED
    BY <1>6
<1>8. FlattenSeq(q) = flatten[Len(q)]
  BY DEF FlattenSeq
<1> HIDE DEF f, flatten
<1>9. \A i \in 1 .. Len(q) : flatten[i] = IF i = 1 THEN q[i] ELSE flatten[i - 1] \o q[i]
  BY <1>7
<1>10. \A i \in 1 .. Len(q) : flatten[i] = f[i]
  <2> DEFINE T == {n \in 0 .. N : flatten[n + 1] = f[n + 1]}
  <2>1. 0 \in T
    BY <1>0, <1>5, <1>9
  <2>2. ASSUME NEW n \in 1 .. N, n - 1 \in T PROVE n \in T
    <3>1. flatten[n] = f[n]
      BY <2>2
    <3>2. PICK k \in 2 .. Len(q) : k = n + 1 /\ k - 1 = n /\ k \in 1 .. Len(q) /\ k # 1
      BY <1>0
    <3>3. flatten[k] = flatten[k - 1] \o q[k]
      BY <1>9, <3>2
    <3>4. f[k] = f[k - 1] \o q[k]
      BY <1>5
    <3>5. flatten[k - 1] = f[k - 1]
      BY <3>1, <3>2
    <3>6. flatten[k] = f[k]
      BY <3>3, <3>4, <3>5
    <3>7. QED
      BY <3>2, <3>6
  <2>3. 0 .. N \subseteq T
    <3> HIDE DEF T
    <3>1. QED
      BY <2>1, <2>2, UpTo
  <2>4. ASSUME NEW i \in 1 .. Len(q) PROVE flatten[i] = f[i]
    <3>1. i - 1 \in 0 .. N
      BY <1>0
    <3>2. i - 1 \in T
      BY <2>3, <3>1
    <3>3. QED
      BY <3>2
  <2>5. QED
    BY <2>4
<1>11. FlattenSeq(q) = f[Len(q)] /\ f \in [1 .. Len(q) -> Seq(S)]
  BY <1>0, <1>5, <1>8, <1>10
<1>12. QED
  BY <1>5, <1>11

LEMMA PrefixMeans ==
    ASSUME NEW S, NEW s \in Seq(S), NEW t \in Seq(S)
    PROVE  IsPrefix(s, t) <=> Len(s) <= Len(t) /\ \A i \in 1 .. Len(s) : s[i] = t[i]
<1>1. /\ SubSeq(s, 1, Len(s)) = [i \in 1 .. Len(s) |-> s[i]]
      /\ Len(s) <= Len(t) => SubSeq(t, 1, Len(s)) = [i \in 1 .. Len(s) |-> t[i]]
  OBVIOUS
<1> DEFINE f == [i \in 1 .. Len(s) |-> s[i]]
           g == [i \in 1 .. Len(s) |-> t[i]]
<1>2. (\A i \in 1 .. Len(s) : s[i] = t[i]) => f = g
  OBVIOUS
<1>3. f = g => \A i \in 1 .. Len(s) : f[i] = g[i]
  OBVIOUS
<1>4. \A i \in 1 .. Len(s) : f[i] = s[i] /\ g[i] = t[i]
  OBVIOUS
<1> HIDE DEF f, g
<1>5. QED
  BY <1>1, <1>2, <1>3, <1>4 DEF IsPrefix, f, g

LEMMA PrefixOfAppended ==
    ASSUME NEW S, NEW s \in Seq(S), NEW t \in Seq(S)
    PROVE  IsPrefix(s, s \o t) /\ s \o t \in Seq(S)
<1>1. /\ s \o t \in Seq(S) /\ Len(s) <= Len(s \o t)
      /\ \A i \in 1 .. Len(s) : s[i] = (s \o t)[i]
  OBVIOUS
<1>2. QED
  BY <1>1, PrefixMeans

LEMMA PrefixTransitive ==
    ASSUME NEW S, NEW s \in Seq(S), NEW t \in Seq(S), NEW u \in Seq(S),
           IsPrefix(s, t), IsPrefix(t, u)
    PROVE  IsPrefix(s, u)
<1>1. /\ Len(s) <= Len(t) /\ \A i \in 1 .. Len(s) : s[i] = t[i]
      /\ Len(t) <= Len(u) /\ \A i \in 1 .. Len(t) : t[i] = u[i]
      /\ Len(s) \in Nat /\ Len(t) \in Nat /\ Len(u) \in Nat
  BY PrefixMeans
<1>2. Len(s) <= Len(u) /\ \A i \in 1 .. Len(s) : s[i] = u[i]
  BY <1>1
<1>3. QED
  BY <1>2, PrefixMeans

LEMMA PrefixOfSameLength ==
    ASSUME NEW S, NEW s \in Seq(S), NEW t \in Seq(S), IsPrefix(s, t), Len(t) <= Len(s)
    PROVE  s = t
<1>1. /\ Len(s) = Len(t) /\ \A i \in 1 .. Len(s) : s[i] = t[i]
  BY PrefixMeans
<1>2. QED
  BY <1>1

(* SetToSeq lists each element of a finite set once. *)
Lists(s, S) == /\ s \in Seq(S)
               /\ \A x \in S : \E i \in 1 .. Len(s) : s[i] = x
               /\ \A i, j \in 1 .. Len(s) : s[i] = s[j] => i = j

LEMMA Listing ==
    ASSUME NEW S, IsFiniteSet(S)
    PROVE  Lists(SetToSeq(S), S)
<1> DEFINE n == Cardinality(S)
           Once(f) == f \in [1 .. n -> S] /\ IsInjective(f)
           s == SetToSeq(S)
<1>1. n \in Nat /\ ExistsBijection(1 .. n, S)
  BY FS_CardinalityType
<1>2. PICK f \in [1 .. n -> S] : f \in Bijection(1 .. n, S)
  BY <1>1 DEF ExistsBijection, Bijection, Injection
<1>3. Once(f)
  BY <1>2 DEF Bijection, Injection, IsInjective
<1>4. Once(s)
  <2> HIDE DEF n
  <2>1. s = CHOOSE g \in [1 .. n -> S] : IsInjective(g)
    BY DEF SetToSeq, n
  <2> HIDE DEF s
  <2>2. QED
    BY <1>3, <2>1
<1> HIDE DEF s, n
<1>5. s \in Injection(1 .. n, S)
  BY <1>4 DEF Injection, IsInjective
<1>6. s \in Surjection(1 .. n, S)
  <2>1. IsFiniteSet(1 .. n) /\ Cardinality(1 .. n) = n
    BY <1>1, FS_Interval
  <2>2. QED
    BY <1>1, <1>5, <2>1, FS_Injection DEF n
<1>7. s \in Seq(S) /\ Len(s) = n
  BY <1>1, <1>4
<1>8. \A x \in S : \E i \in 1 .. Len(s) : s[i] = x
  BY <1>6, <1>7 DEF Surjection
<1>9. \A i, j \in 1 .. Len(s) : s[i] = s[j] => i = j
  BY <1>4, <1>7 DEF IsInjective
<1>10. QED
  BY <1>7, <1>8, <1>9 DEF s, Lists

LEMMA AppendedLater ==
    ASSUME NEW S, NEW s \in Seq(S), NEW t \in Seq(S), NEW e \in S
    PROVE  s \o Append(t, e) = Append(s \o t, e)
<1> DEFINE u == s \o Append(t, e)
           v == Append(s \o t, e)
<1>1. /\ u \in Seq(S) /\ v \in Seq(S) /\ Len(s) \in Nat /\ Len(t) \in Nat
      /\ Len(u) = Len(s) + Len(t) + 1 /\ Len(v) = Len(s) + Len(t) + 1
  OBVIOUS
<1>2. ASSUME NEW i \in 1 .. Len(s) + Len(t) + 1 PROVE u[i] = v[i]
  OBVIOUS
<1> HIDE DEF u, v
<1>3. u = v
  BY <1>1, <1>2
<1>4. QED
  BY <1>3 DEF u, v

LEMMA AppendedAt ==
    ASSUME NEW S, NEW s \in Seq(S), NEW t \in Seq(S)
    PROVE  /\ Len(s) \in Nat /\ Len(t) \in Nat /\ Len(s \o t) = Len(s) + Len(t)
           /\ \A i \in 1 .. Len(t) : (s \o t)[Len(s) + i] = t[i]
<1>1. Len(s) \in Nat /\ Len(t) \in Nat /\ Len(s \o t) = Len(s) + Len(t)
  OBVIOUS
<1>2. ASSUME NEW i \in 1 .. Len(t) PROVE (s \o t)[Len(s) + i] = t[i]
  OBVIOUS
<1>3. QED
  BY <1>1, <1>2

LEMMA NextPart ==
    ASSUME NEW S, NEW s \in Seq(S), NEW n \in 1 .. Len(s)
    PROVE  /\ SubSeq(s, 1, n - 1) \in Seq(S)
           /\ SubSeq(s, 1, n) = Append(SubSeq(s, 1, n - 1), s[n])
  OBVIOUS

LEMMA TailMeans ==
    ASSUME NEW S, NEW s \in Seq(S), s # << >>
    PROVE  /\ Head(s) = s[1] /\ Head(s) \in S /\ 1 \in 1 .. Len(s)
           /\ Tail(s) \in Seq(S) /\ Len(Tail(s)) = Len(s) - 1 /\ Len(s) \in Nat
           /\ \A i \in 1 .. Len(Tail(s)) : Tail(s)[i] = s[i + 1] /\ i + 1 \in 1 .. Len(s)
           /\ \A i \in 2 .. Len(s) : i - 1 \in 1 .. Len(Tail(s)) /\ Tail(s)[i - 1] = s[i]
           /\ Tail(s) # << >> <=> Len(s) # 1
<1>1. Head(s) = s[1] /\ Head(s) \in S /\ 1 \in 1 .. Len(s) /\ Len(s) \in Nat
  OBVIOUS
<1>2. Tail(s) \in Seq(S) /\ Len(Tail(s)) = Len(s) - 1
  OBVIOUS
<1>3. \A i \in 1 .. Len(Tail(s)) : Tail(s)[i] = s[i + 1] /\ i + 1 \in 1 .. Len(s)
  BY <1>1, <1>2
<1>4. ASSUME NEW i \in 2 .. Len(s)
      PROVE  i - 1 \in 1 .. Len(Tail(s)) /\ Tail(s)[i - 1] = s[i]
  <2>1. i - 1 \in 1 .. Len(Tail(s)) /\ (i - 1) + 1 = i
    BY <1>1, <1>2
  <2>2. QED
    BY <1>3, <2>1
<1>5. Tail(s) # << >> <=> Len(s) # 1
  <2> DEFINE q == Tail(s)
  <2>1. q \in Seq(S) /\ Len(q) = Len(s) - 1
    BY <1>2
  <2> HIDE DEF q
  <2>2. q = << >> => Len(q) = 0
    OBVIOUS
  <2>3. Len(q) = 0 => q = << >>
    BY <2>1
  <2>4. Len(q) # 0 <=> Len(s) # 1
    BY <1>1, <2>1
  <2>5. QED
    BY <2>2, <2>3, <2>4 DEF q
<1>6. QED
  BY <1>1, <1>2, <1>3, <1>4, <1>5

-----------------------------------------------------------------------------
(***************************************************************************)
(* pt-mongodb-index-check                                                  *)
(***************************************************************************)

Field(f) == <<f[1]>> \o f[2]
Fields(ix) == [i \in DOMAIN ix.key |-> Field(ix.key[i])]

LEMMA FieldsAreSequences ==
    ASSUME NEW ix \in ListedIndex
    PROVE  /\ Fields(ix) \in Seq(Seq(Nat)) /\ Len(Fields(ix)) = Len(ix.key)
           /\ \A i \in 1 .. Len(ix.key) : Fields(ix)[i] = Field(ix.key[i])
           /\ ComparableKey(ix) = FlattenSeq(Fields(ix))
           /\ ix.key \in Seq(Nat \X Seq(Nat))
           /\ \A i \in 1 .. Len(ix.key) : Len(Field(ix.key[i])) >= 1
<1>1. ix.key \in Seq(Nat \X Seq(Nat))
  BY DEF ListedIndex
<1>2. ASSUME NEW i \in DOMAIN ix.key PROVE Field(ix.key[i]) \in Seq(Nat)
  <2>1. ix.key[i] \in Nat \X Seq(Nat)
    BY <1>1
  <2>2. ix.key[i][1] \in Nat /\ ix.key[i][2] \in Seq(Nat)
    BY <2>1
  <2>3. QED
    BY <2>2 DEF Field
<1>3. Fields(ix) \in [1 .. Len(ix.key) -> Seq(Nat)] /\ Len(ix.key) \in Nat
  BY <1>1, <1>2 DEF Fields
<1>4. Fields(ix) \in Seq(Seq(Nat)) /\ Len(Fields(ix)) = Len(ix.key)
  <2> DEFINE A == Seq(Nat)
  <2>1. Fields(ix) \in [1 .. Len(ix.key) -> A]
    BY <1>3
  <2> HIDE DEF A
  <2>2. Fields(ix) \in Seq(A) /\ Len(Fields(ix)) = Len(ix.key)
    BY <1>3, <2>1
  <2>3. QED
    BY <2>2 DEF A
<1>5. \A i \in 1 .. Len(ix.key) : Fields(ix)[i] = Field(ix.key[i])
  BY <1>1 DEF Fields
<1>6. ComparableKey(ix) = FlattenSeq(Fields(ix))
  BY DEF Fields, Field, ComparableKey
<1>7. \A i \in 1 .. Len(ix.key) : Len(Field(ix.key[i])) >= 1
  <2>1. ASSUME NEW i \in 1 .. Len(ix.key) PROVE Len(Field(ix.key[i])) >= 1
    <3>1. ix.key[i] \in Nat \X Seq(Nat)
      BY <1>1
    <3>2. ix.key[i][1] \in Nat /\ ix.key[i][2] \in Seq(Nat)
      BY <3>1
    <3>3. QED
      BY <3>2 DEF Field
  <2>2. QED
    BY <2>1
<1>8. QED
  BY <1>1, <1>4, <1>5, <1>6, <1>7

LEMMA KeyIsSequence ==
    ASSUME NEW ix \in ListedIndex
    PROVE  ComparableKey(ix) \in Seq(Nat)
<1> DEFINE q == Fields(ix)
<1>1. q \in Seq(Seq(Nat)) /\ ComparableKey(ix) = FlattenSeq(q)
  BY FieldsAreSequences
<1> HIDE DEF q
<1>2. CASE q = << >>
  BY <1>1, <1>2 DEF FlattenSeq
<1>3. CASE q # << >>
  <2>1. PICK f \in [1 .. Len(q) -> Seq(Nat)] : FlattenSeq(q) = f[Len(q)]
    BY <1>1, <1>3, Flattening
  <2>2. Len(q) \in 1 .. Len(q)
    BY <1>1, <1>3
  <2>3. QED
    BY <1>1, <2>1, <2>2
<1>4. QED
  BY <1>2, <1>3

(* An index whose fields are the first of another has a key that is a      *)
(* prefix of the other's: a duplicate is missed by no pair of keys.        *)
LEMMA ContainedKeys ==
    ASSUME NEW x \in ListedIndex, NEW y \in ListedIndex, Contained(x, y)
    PROVE  /\ IsPrefix(ComparableKey(x), ComparableKey(y))
           /\ Len(x.key) < Len(y.key) => ComparableKey(x) # ComparableKey(y)
<1> DEFINE p == Fields(x)
           q == Fields(y)
<1>1. /\ p \in Seq(Seq(Nat)) /\ ComparableKey(x) = FlattenSeq(p) /\ Len(p) = Len(x.key)
      /\ q \in Seq(Seq(Nat)) /\ ComparableKey(y) = FlattenSeq(q) /\ Len(q) = Len(y.key)
      /\ Len(p) \in Nat /\ Len(q) \in Nat
  BY FieldsAreSequences
<1>2. /\ Len(p) <= Len(q)
      /\ \A i \in 1 .. Len(p) : p[i] = q[i]
      /\ \A i \in 1 .. Len(q) : Len(q[i]) >= 1 /\ q[i] \in Seq(Nat)
  <2>1. x.key \in Seq(Nat \X Seq(Nat)) /\ y.key \in Seq(Nat \X Seq(Nat))
    BY FieldsAreSequences
  <2>2. Len(x.key) <= Len(y.key) /\ \A i \in 1 .. Len(x.key) : x.key[i] = y.key[i]
    <3> DEFINE S == Nat \X Seq(Nat)
               k == x.key
               l == y.key
    <3>1. k \in Seq(S) /\ l \in Seq(S) /\ IsPrefix(k, l)
      BY <2>1 DEF Contained
    <3> HIDE DEF S, k, l
    <3>2. Len(k) <= Len(l) /\ \A i \in 1 .. Len(k) : k[i] = l[i]
      BY <3>1, PrefixMeans
    <3>3. QED
      BY <3>2 DEF k, l
  <2>3. ASSUME NEW i \in 1 .. Len(p) PROVE p[i] = q[i]
    <3>1. i \in 1 .. Len(x.key) /\ i \in 1 .. Len(y.key)
      BY <1>1, <2>2
    <3>2. QED
      BY <2>2, <3>1, FieldsAreSequences
  <2>4. ASSUME NEW i \in 1 .. Len(q) PROVE Len(q[i]) >= 1 /\ q[i] \in Seq(Nat)
    <3>1. q[i] \in Seq(Nat)
      BY <1>1
    <3>2. q[i] = Field(y.key[i]) /\ i \in 1 .. Len(y.key)
      BY <1>1, FieldsAreSequences
    <3>3. QED
      BY <3>1, <3>2, FieldsAreSequences
  <2>5. QED
    BY <1>1, <2>2, <2>3, <2>4
<1> HIDE DEF p, q
<1>3. CASE p = << >>
  <2>1. ComparableKey(x) = << >>
    BY <1>1, <1>3 DEF FlattenSeq
  <2>2. << >> \in Seq(Nat) /\ Len(<< >>) = 0
    OBVIOUS
  <2>3. IsPrefix(ComparableKey(x), ComparableKey(y))
    BY <2>1, <2>2, KeyIsSequence, PrefixMeans
  <2>4. ASSUME Len(p) < Len(q) PROVE ComparableKey(y) # << >>
    <3>1. q # << >>
      BY <1>1, <2>4
    <3>2. PICK g \in [1 .. Len(q) -> Seq(Nat)] :
            /\ g[1] = q[1] /\ \A i \in 2 .. Len(q) : g[i] = g[i - 1] \o q[i]
            /\ FlattenSeq(q) = g[Len(q)]
      BY <1>1, <3>1, Flattening
    <3>3. Len(q) \in 1 .. Len(q)
      BY <1>1, <3>1
    <3>4. CASE Len(q) = 1
      <4>1. g[Len(q)] = q[1] /\ Len(q[1]) >= 1 /\ q[1] \in Seq(Nat)
        BY <1>2, <3>2, <3>3, <3>4
      <4>2. QED
        BY <1>1, <3>2, <4>1
    <3>5. CASE Len(q) # 1
      <4> DEFINE n == Len(q)
      <4>a. n \in Nat /\ n \in 1 .. n /\ n # 1
        BY <1>1, <3>3, <3>5
      <4> HIDE DEF n
      <4>b. n \in 2 .. n
        BY <4>a
      <4>0. Len(q) \in 2 .. Len(q)
        BY <4>b DEF n
      <4> PICK k \in 2 .. Len(q) : k = Len(q)
        BY <4>0
      <4>1. /\ g[k] = g[k - 1] \o q[k] /\ k - 1 \in 1 .. Len(q) /\ k \in 1 .. Len(q)
        <5>1. g[k] = g[k - 1] \o q[k]
          BY <3>2
        <5>2. k \in Nat /\ k >= 2
          BY <1>1
        <5>3. k - 1 \in 1 .. Len(q) /\ k \in 1 .. Len(q)
          BY <1>1, <5>2
        <5>4. QED
          BY <5>1, <5>3
      <4>2. g[k - 1] \in Seq(Nat) /\ q[k] \in Seq(Nat) /\ Len(q[k]) >= 1
        BY <1>2, <4>1
      <4>3. g[k] # << >>
        <5> DEFINE u == g[k - 1]
                   v == q[k]
        <5>1. u \in Seq(Nat) /\ v \in Seq(Nat) /\ Len(v) >= 1 /\ g[k] = u \o v
          BY <4>1, <4>2
        <5> HIDE DEF u, v
        <5>2. Len(u \o v) = Len(u) + Len(v) /\ Len(u) \in Nat /\ Len(v) \in Nat
          BY <5>1
        <5>3. QED
          BY <5>1, <5>2
      <4>4. QED
        BY <1>1, <3>2, <4>3
    <3>6. QED
      BY <3>4, <3>5
  <2>5. QED
    BY <1>1, <2>1, <2>3, <2>4
<1>4. CASE p # << >>
  <2>1. q # << >> /\ Len(p) \in 1 .. Len(q) /\ Len(p) \in 1 .. Len(p) /\ Len(q) \in 1 .. Len(q)
    BY <1>1, <1>2, <1>4
  <2>2. PICK f \in [1 .. Len(p) -> Seq(Nat)] :
          /\ f[1] = p[1] /\ \A i \in 2 .. Len(p) : f[i] = f[i - 1] \o p[i]
          /\ FlattenSeq(p) = f[Len(p)]
    BY <1>1, <1>4, Flattening
  <2>3. PICK g \in [1 .. Len(q) -> Seq(Nat)] :
          /\ g[1] = q[1] /\ \A i \in 2 .. Len(q) : g[i] = g[i - 1] \o q[i]
          /\ FlattenSeq(q) = g[Len(q)]
    BY <1>1, <2>1, Flattening
  <2> PICK m \in Nat, n \in Nat : m + 1 = Len(p) /\ m + 1 + n = Len(q)
    <3> DEFINE m == Len(p) - 1
               n == Len(q) - Len(p)
    <3>1. m \in Nat /\ n \in Nat /\ m + 1 = Len(p) /\ m + 1 + n = Len(q)
      BY <1>1, <1>2, <2>1
    <3> HIDE DEF m, n
    <3>2. QED
      BY <3>1
  <2>4. f[m + 1] = g[m + 1]
    <3> DEFINE T == {i \in 0 .. m : f[i + 1] = g[i + 1]}
    <3>1. 0 \in T
      BY <1>2, <2>1, <2>2, <2>3
    <3>2. ASSUME NEW i \in 1 .. m, i - 1 \in T PROVE i \in T
      <4>1. PICK k \in 2 .. Len(p) : k = i + 1 /\ k - 1 = i /\ k \in 2 .. Len(q) /\ k \in 1 .. Len(p)
        BY <2>1
      <4>2. f[k] = f[k - 1] \o p[k] /\ g[k] = g[k - 1] \o q[k] /\ p[k] = q[k]
        BY <1>2, <2>2, <2>3, <4>1
      <4>3. f[k - 1] = g[k - 1]
        BY <3>2, <4>1
      <4>4. f[k] = g[k]
        BY <4>2, <4>3
      <4>5. QED
        BY <4>1, <4>4
    <3>3. 0 .. m \subseteq T
      <4> HIDE DEF T
      <4>1. QED
        BY <3>1, <3>2, UpTo
    <3>4. QED
      BY <3>3
  <2>5. IsPrefix(g[m + 1], g[m + 1 + n]) /\ Len(g[m + 1 + n]) >= Len(g[m + 1]) + n
    <3> DEFINE T == {i \in 0 .. n : /\ IsPrefix(g[m + 1], g[m + 1 + i])
                                    /\ Len(g[m + 1 + i]) >= Len(g[m + 1]) + i}
    <3>0. \A i \in 0 .. n : m + 1 + i \in 1 .. Len(q) /\ g[m + 1 + i] \in Seq(Nat)
      OBVIOUS
    <3>1. 0 \in T
      <4>1. g[m + 1] \in Seq(Nat) /\ m + 1 + 0 = m + 1
        BY <3>0
      <4>2. IsPrefix(g[m + 1], g[m + 1]) /\ Len(g[m + 1]) \in Nat
        BY <4>1, PrefixMeans
      <4>3. QED
        BY <4>1, <4>2
    <3>2. ASSUME NEW i \in 1 .. n, i - 1 \in T PROVE i \in T
      <4>1. PICK k \in 2 .. Len(q) : k = m + 1 + i /\ k - 1 = m + 1 + (i - 1)
        OBVIOUS
      <4>2. g[k] = g[k - 1] \o q[k] /\ g[k - 1] \in Seq(Nat) /\ q[k] \in Seq(Nat)
        <5>1. k - 1 \in 1 .. Len(q) /\ k \in 1 .. Len(q)
          BY <1>1
        <5>2. q[k] \in Seq(Nat)
          BY <1>1, <5>1
        <5>3. g[k - 1] \in Seq(Nat)
          BY <5>1
        <5>4. g[k] = g[k - 1] \o q[k]
          BY <2>3
        <5>5. QED
          BY <5>2, <5>3, <5>4
      <4>3. IsPrefix(g[k - 1], g[k]) /\ g[k] \in Seq(Nat)
        BY <4>2, PrefixOfAppended
      <4>4. IsPrefix(g[m + 1], g[k - 1])
        BY <3>2, <4>1
      <4>5. g[m + 1] \in Seq(Nat)
        BY <2>1
      <4>6. IsPrefix(g[m + 1], g[k])
        BY <4>2, <4>3, <4>4, <4>5, PrefixTransitive
      <4>7. Len(g[k]) >= Len(g[m + 1]) + i
        <5> DEFINE u == g[k - 1]
                   v == q[k]
                   w == g[m + 1]
        <5>1. /\ u \in Seq(Nat) /\ v \in Seq(Nat) /\ w \in Seq(Nat) /\ g[k] = u \o v
              /\ Len(v) >= 1 /\ Len(u) >= Len(w) + (i - 1)
          <6>1. k \in 1 .. Len(q)
            BY <1>1
          <6>2. QED
            BY <1>2, <3>2, <4>1, <4>2, <4>5, <6>1
        <5> HIDE DEF u, v, w
        <5>2. /\ Len(u \o v) = Len(u) + Len(v)
              /\ Len(u) \in Nat /\ Len(v) \in Nat /\ Len(w) \in Nat
          BY <5>1
        <5>3. Len(g[k]) >= Len(w) + i
          BY <5>1, <5>2
        <5>4. QED
          BY <5>3 DEF w
      <4>8. QED
        BY <4>1, <4>6, <4>7
    <3>3. 0 .. n \subseteq T
      <4> HIDE DEF T
      <4>1. QED
        BY <3>1, <3>2, UpTo
    <3>4. n \in 0 .. n
      OBVIOUS
    <3>5. QED
      BY <3>3, <3>4
  <2>6. ComparableKey(x) = g[m + 1] /\ ComparableKey(y) = g[m + 1 + n]
    BY <1>1, <2>2, <2>3, <2>4
  <2>7. Len(g[m + 1]) \in Nat /\ (Len(p) < Len(q) => n >= 1)
    <3>1. m + 1 \in 1 .. Len(q)
      OBVIOUS
    <3>2. g[m + 1] \in Seq(Nat)
      BY <3>1
    <3>3. QED
      BY <3>2
  <2>8. Len(p) < Len(q) => g[m + 1] # g[m + 1 + n]
    BY <2>5, <2>7
  <2>9. QED
    BY <1>1, <2>5, <2>6, <2>8
<1>5. QED
  BY <1>3, <1>4

IndexList(list) == /\ list \in Seq(ListedIndex)
                   /\ \A i, j \in DOMAIN list : list[i].name = list[j].name => i = j

LEMMA ListsAreLists ==
    ASSUME content \in Contents, NEW db, NEW coll
    PROVE  IndexList(ListOf(db, coll))
<1>1. CASE coll \in CollectionsOf(db)
  <2>1. db \in DOMAIN content /\ coll \in DOMAIN content[db]
    BY <1>1 DEF CollectionsOf
  <2>2. QED
    BY <1>1, <2>1, IndexCheckAssumption DEF ListOf, IndexList
<1>2. CASE coll \notin CollectionsOf(db)
  <2>1. << >> \in Seq(ListedIndex) /\ DOMAIN << >> = {}
    OBVIOUS
  <2>2. QED
    BY <1>2, <2>1 DEF ListOf, IndexList
<1>3. QED
  BY <1>1, <1>2

LEMMA ListsAreSorted ==
    ASSUME content \in Contents, ranks \in SortOrders(content), NEW db, NEW coll,
           ListOf(db, coll) # << >>
    PROVE  ranks[ListOf(db, coll)] \in SortedPlaces(ListOf(db, coll))
<1> DEFINE list == ListOf(db, coll)
<1>1. db \in DOMAIN content /\ coll \in DOMAIN content[db] /\ list = content[db][coll]
  BY DEF ListOf, CollectionsOf
<1>2. list \in AllLists(content)
  BY <1>1 DEF AllLists
<1> HIDE DEF list
<1>3. \A l \in AllLists(content) : ranks[l] \in SortedPlaces(l)
  BY DEF SortOrders
<1>4. QED
  BY <1>2, <1>3 DEF list

LEMMA PlacesMean ==
    ASSUME NEW list \in Seq(ListedIndex), NEW r \in SortedPlaces(list)
    PROVE  /\ \A i \in 1 .. Len(list) : r[i] \in 1 .. Len(list)
           /\ \A i, j \in 1 .. Len(list) : /\ r[i] = r[j] => i = j
                                           /\ KeyLess(list[i], list[j]) => r[i] < r[j]
  BY DEF SortedPlaces

(* FindDuplicated pairs the i-th index with the j-th, sorted to the places *)
(* that r gives them.                                                      *)
Pairs(list, r, i, j) ==
    /\ r[i] < r[j]
    /\ IsPrefix(ComparableKey(list[i]), ComparableKey(list[j]))

LEMMA PairsAre ==
    ASSUME NEW list \in Seq(ListedIndex), NEW r \in SortedPlaces(list),
           NEW i \in 1 .. Len(list), NEW j \in 1 .. Len(list)
    PROVE  LET s == ComparableKey(list[i])
               t == ComparableKey(list[j])
           IN  /\ s \in Seq(Nat) /\ t \in Seq(Nat)
               /\ Pairs(list, r, i, j) <=> IsPrefix(s, t) /\ (s # t \/ r[i] < r[j])
<1> DEFINE s == ComparableKey(list[i])
           t == ComparableKey(list[j])
<1>1. s \in Seq(Nat) /\ t \in Seq(Nat)
  <2>1. list[i] \in ListedIndex /\ list[j] \in ListedIndex
    OBVIOUS
  <2>2. QED
    BY <2>1, KeyIsSequence
<1>2. IsPrefix(s, t) /\ s # t => KeyLess(list[i], list[j])
  BY DEF KeyLess, IsStrictPrefix
<1>3. KeyLess(list[i], list[j]) => r[i] < r[j]
  BY PlacesMean
<1> HIDE DEF s, t
<1>4. QED
  BY <1>1, <1>2, <1>3 DEF s, t, Pairs

LEMMA PairedOneWay ==
    ASSUME NEW list \in Seq(ListedIndex), NEW r \in SortedPlaces(list),
           NEW i \in 1 .. Len(list), NEW j \in 1 .. Len(list),
           Pairs(list, r, i, j)
    PROVE  ~Pairs(list, r, j, i)
<1>1. SUFFICES ASSUME Pairs(list, r, j, i) PROVE FALSE
  OBVIOUS
<1> DEFINE s == ComparableKey(list[i])
           t == ComparableKey(list[j])
<1>2. /\ s \in Seq(Nat) /\ t \in Seq(Nat) /\ IsPrefix(s, t) /\ IsPrefix(t, s)
      /\ s # t \/ r[i] < r[j]
      /\ s # t \/ r[j] < r[i]
  BY <1>1, PairsAre
<1>2a. r[i] \in Nat /\ r[j] \in Nat
  BY PlacesMean
<1> HIDE DEF s, t
<1>3. s = t
  <2>1. Len(t) <= Len(s)
    BY <1>2, PrefixMeans
  <2>2. QED
    BY <1>2, <2>1, PrefixOfSameLength
<1>4. QED
  BY <1>2, <1>2a, <1>3

LEMMA PairedThrough ==
    ASSUME NEW list \in Seq(ListedIndex), NEW r \in SortedPlaces(list),
           NEW i \in 1 .. Len(list), NEW j \in 1 .. Len(list),
           NEW k \in 1 .. Len(list), Pairs(list, r, i, j), Pairs(list, r, j, k)
    PROVE  /\ Pairs(list, r, i, k)
           /\ LET t == ComparableKey(list[j])
                  u == ComparableKey(list[k])
              IN  Len(t) <= Len(u) /\ (Len(t) = Len(u) => r[j] < r[k])
<1> DEFINE s == ComparableKey(list[i])
           t == ComparableKey(list[j])
           u == ComparableKey(list[k])
<1>1. /\ s \in Seq(Nat) /\ t \in Seq(Nat) /\ u \in Seq(Nat)
      /\ IsPrefix(s, t) /\ IsPrefix(t, u)
      /\ s # t \/ r[i] < r[j]
      /\ t # u \/ r[j] < r[k]
      /\ Pairs(list, r, i, k) <=> IsPrefix(s, u) /\ (s # u \/ r[i] < r[k])
  BY PairsAre
<1>1a. r[i] \in Nat /\ r[j] \in Nat /\ r[k] \in Nat
  BY PlacesMean
<1> HIDE DEF s, t, u
<1>2. IsPrefix(s, u)
  BY <1>1, PrefixTransitive
<1>3. Len(s) <= Len(t) /\ Len(t) <= Len(u)
  BY <1>1, PrefixMeans
<1>4. Len(t) = Len(u) => t = u
  BY <1>1, PrefixOfSameLength
<1>5. s = u => s = t /\ t = u
  <2> SUFFICES ASSUME s = u PROVE s = t /\ t = u
    OBVIOUS
  <2>1. Len(s) \in Nat /\ Len(t) \in Nat /\ Len(u) \in Nat
    BY <1>1
  <2>2. Len(t) = Len(u)
    BY <1>3, <2>1
  <2>3. QED
    BY <1>4, <2>2
<1>6. Pairs(list, r, i, k)
  BY <1>1, <1>1a, <1>2, <1>5
<1>7. Len(t) <= Len(u) /\ (Len(t) = Len(u) => r[j] < r[k])
  BY <1>1, <1>3, <1>4
<1>8. QED
  BY <1>6, <1>7 DEF t, u

(* Of the indexes that contain the i-th there is one that no other contains: *)
(* the last of the longest.                                                *)
LEMMA LastContainer ==
    ASSUME NEW list \in Seq(ListedIndex), NEW r \in SortedPlaces(list),
           NEW i \in 1 .. Len(list), NEW j \in 1 .. Len(list),
           Pairs(list, r, i, j)
    PROVE  \E k \in 1 .. Len(list) :
              Pairs(list, r, i, k) /\ \A l \in 1 .. Len(list) : ~Pairs(list, r, k, l)
<1> DEFINE size(k) == Len(ComparableKey(list[k]))
           C == {k \in 1 .. Len(list) : Pairs(list, r, i, k)}
<1>1. \A k \in 1 .. Len(list) : size(k) \in Nat
  <2>1. ASSUME NEW k \in 1 .. Len(list) PROVE size(k) \in Nat
    <3>1. ComparableKey(list[k]) \in Seq(Nat)
      BY PairsAre
    <3>2. QED
      BY <3>1
  <2>2. QED
    BY <2>1
<1> HIDE DEF size
<1>2. \A k \in C : \A l \in 1 .. Len(list) :
         Pairs(list, r, k, l) => l \in C /\ size(k) <= size(l) /\ (size(k) = size(l) => r[k] < r[l])
  BY PairedThrough DEF size
<1>3. j \in C /\ C \subseteq 1 .. Len(list)
  OBVIOUS
<1>3a. \A k \in C : r[k] \in 1 .. Len(list)
  BY <1>3, PlacesMean
<1> HIDE DEF C

(* Smallest works downwards from a bound of the sizes.                     *)
<1>4. ASSUME \A k \in C : \E l \in C : size(k) <= size(l) /\ (size(k) = size(l) => r[k] < r[l])
      PROVE  FALSE
  <2>1. PICK top \in Nat : \A k \in 1 .. Len(list) : size(k) <= top
    <3> DEFINE T == {n \in 0 .. Len(list) :
                       \E b \in Nat : \A k \in 1 .. n : size(k) <= b}
    <3>0. Len(list) \in Nat
      OBVIOUS
    <3>1. 0 \in T
      <4>1. \A k \in 1 .. 0 : size(k) <= 0
        OBVIOUS
      <4>2. QED
        BY <3>0, <4>1
    <3>2. ASSUME NEW n \in 1 .. Len(list), n - 1 \in T PROVE n \in T
      <4>1. PICK b \in Nat : \A k \in 1 .. n - 1 : size(k) <= b
        BY <3>2
      <4>2. size(n) \in Nat /\ b + size(n) \in Nat
        BY <1>1
      <4>3. ASSUME NEW k \in 1 .. n PROVE size(k) <= b + size(n)
        <5>1. CASE k = n
          BY <4>2, <5>1
        <5>2. CASE k # n
          <6>1. k \in 1 .. n - 1 /\ k \in 1 .. Len(list)
            BY <5>2
          <6>2. QED
            BY <1>1, <4>1, <4>2, <6>1
        <5>3. QED
          BY <5>1, <5>2
      <4>4. QED
        BY <4>2, <4>3
    <3>3. 0 .. Len(list) \subseteq T
      <4> HIDE DEF T
      <4>1. QED
        BY <3>0, <3>1, <3>2, UpTo
    <3>4. Len(list) \in T
      <4> HIDE DEF T
      <4>1. QED
        BY <3>0, <3>3
    <3>5. QED
      BY <3>4
  <2> DEFINE Gaps == {top - size(k) : k \in C}
  <2>2. Gaps \subseteq Nat /\ Gaps # {}
    BY <1>1, <1>3, <2>1
  <2>3. PICK g \in Gaps : \A h \in Gaps : g <= h
    <3> HIDE DEF Gaps
    <3>1. QED
      BY <2>2, Smallest
  <2>4. PICK m \in C : g = top - size(m)
    OBVIOUS
  <2>5. \A k \in C : size(k) <= size(m)
    <3>1. ASSUME NEW k \in C PROVE size(k) <= size(m)
      <4>1. top - size(m) <= top - size(k) /\ size(m) \in Nat /\ size(k) \in Nat
        BY <1>1, <1>3, <2>3, <2>4
      <4>2. QED
        BY <4>1
    <3>2. QED
      BY <3>1
  <2> DEFINE Last0 == {Len(list) - r[k] : k \in {l \in C : size(l) = size(m)}}
  <2>6. Last0 \subseteq Nat /\ Last0 # {}
    <3>1. \A k \in C : Len(list) - r[k] \in Nat
      BY <1>3a
    <3>2. QED
      BY <3>1
  <2>7. PICK g0 \in Last0 : \A h \in Last0 : g0 <= h
    <3> HIDE DEF Last0
    <3>1. QED
      BY <2>6, Smallest
  <2>8. PICK z \in C : size(z) = size(m) /\ g0 = Len(list) - r[z]
    OBVIOUS
  <2>9. PICK l \in C : size(z) <= size(l) /\ (size(z) = size(l) => r[z] < r[l])
    BY <1>4
  <2>10. size(l) = size(m) /\ r[z] < r[l]
    <3>1. size(l) \in Nat /\ size(m) \in Nat /\ size(z) \in Nat
      BY <1>1, <1>3
    <3>2. QED
      BY <2>5, <2>8, <2>9, <3>1
  <2>11. Len(list) - r[z] <= Len(list) - r[l]
    BY <2>7, <2>8, <2>10
  <2>12. QED
    BY <1>3a, <2>10, <2>11
<1>5. PICK k \in C : \A l \in C : ~(size(k) <= size(l) /\ (size(k) = size(l) => r[k] < r[l]))
  BY <1>4
<1>6. QED
  BY <1>2, <1>3, <1>5 DEF C

IndexSpec == IndexInit /\ [][IndexNext]_ixVars

(* What a call found is in the response. *)
AnswerKept(c) ==
    c.coll # "" =>
       IF c.pass = "duplicates" THEN FindDuplicated(c.db, c.coll) \subseteq duplicated
                                ELSE FindUnused(c.db, c.coll) \subseteq unused

(* What was reported was found, and what was checked was reported. *)
ReportInv ==
    /\ content \in Contents /\ ranks \in SortOrders(content)
    /\ \A d \in duplicated : d \in FindDuplicated(d[1], d[2])
    /\ \A c \in checked : AnswerKept(c)

LEMMA FoundOfCollection ==
    ASSUME NEW db, NEW coll, NEW d \in FindDuplicated(db, coll)
    PROVE  d[1] = db /\ d[2] = coll
  BY DEF FindDuplicated

LEMMA SameFinds ==
    ASSUME UNCHANGED <<content, ranks>>
    PROVE  \A db, coll : /\ FindDuplicated(db, coll)' = FindDuplicated(db, coll)
                         /\ FindUnused(db, coll)' = FindUnused(db, coll)
  BY DEF FindDuplicated, FindUnused, ListOf, IndexesOf, CollectionsOf

LEMMA NextKeepsReportInv == ReportInv /\ [IndexNext]_ixVars => ReportInv'
<1> SUFFICES ASSUME ReportInv, [IndexNext]_ixVars PROVE ReportInv'
  OBVIOUS
<1>1. ASSUME UNCHANGED <<content, ranks>>,
             duplicated \subseteq duplicated', unused \subseteq unused',
             \A d \in duplicated' \ duplicated : d \in FindDuplicated(d[1], d[2]),
             \A c \in checked' \ checked : AnswerKept(c)'
      PROVE  ReportInv'
  <2>1. content' \in Contents /\ ranks' \in SortOrders(content')
    BY <1>1 DEF ReportInv
  <2>2. ASSUME NEW d \in duplicated' PROVE d \in FindDuplicated(d[1], d[2])'
    <3>1. d \in FindDuplicated(d[1], d[2])
      BY <1>1 DEF ReportInv
    <3>2. QED
      BY <1>1, <3>1, SameFinds
  <2>3. ASSUME NEW c \in checked' PROVE AnswerKept(c)'
    <3>1. CASE c \in checked
      <4>1. AnswerKept(c)
        BY <3>1 DEF ReportInv
      <4>2. FindDuplicated(c.db, c.coll)' = FindDuplicated(c.db, c.coll)
            /\ FindUnused(c.db, c.coll)' = FindUnused(c.db, c.coll)
        BY <1>1, SameFinds
      <4>3. QED
        BY <1>1, <4>1, <4>2 DEF AnswerKept
    <3>2. QED
      BY <1>1, <3>1
  <2>4. QED
    BY <2>1, <2>2, <2>3 DEF ReportInv
<1>2. CASE ListCollections
  <2>0. PICK c : c = Head(plan)
    OBVIOUS
  <2>1. c.coll = "" /\ checked' \subseteq checked \cup {c}
        /\ UNCHANGED <<content, ranks, unused, duplicated>>
    BY <1>2, <2>0 DEF ListCollections
  <2>2. AnswerKept(c)'
    BY <2>1 DEF AnswerKept
  <2>3. QED
    BY <1>1, <2>1, <2>2
<1>3. CASE CheckUnused
  <2>0. PICK c : c = Head(plan)
    OBVIOUS
  <2>1. /\ c.pass = "unused" /\ UNCHANGED <<content, ranks, duplicated>>
        /\ \/ UNCHANGED <<unused, checked>>
           \/ /\ unused' = unused \cup FindUnused(c.db, c.coll)
              /\ checked' = checked \cup {c}
    BY <1>3, <2>0 DEF CheckUnused
  <2>2. ASSUME checked' # checked PROVE AnswerKept(c)'
    <3>1. unused' = unused \cup FindUnused(c.db, c.coll)
      BY <2>1, <2>2
    <3>2. FindUnused(c.db, c.coll)' = FindUnused(c.db, c.coll)
      BY <2>1, SameFinds
    <3>3. QED
      BY <2>1, <3>1, <3>2 DEF AnswerKept
  <2>3. QED
    BY <1>1, <2>1, <2>2
<1>4. CASE CheckDuplicated
  <2>0. PICK c : c = Head(plan)
    OBVIOUS
  <2>1. /\ c.pass = "duplicates" /\ UNCHANGED <<content, ranks, unused>>
        /\ \/ UNCHANGED <<duplicated, checked>>
           \/ /\ duplicated' = duplicated \cup FindDuplicated(c.db, c.coll)
              /\ checked' = checked \cup {c}
    BY <1>4, <2>0 DEF CheckDuplicated
  <2>2. ASSUME checked' # checked PROVE AnswerKept(c)'
    <3>1. duplicated' = duplicated \cup FindDuplicated(c.db, c.coll)
      BY <2>1, <2>2
    <3>2. FindDuplicated(c.db, c.coll)' = FindDuplicated(c.db, c.coll)
      BY <2>1, SameFinds
    <3>3. QED
      BY <2>1, <3>1, <3>2 DEF AnswerKept
  <2>3. ASSUME NEW d \in duplicated' \ duplicated PROVE d \in FindDuplicated(d[1], d[2])
    <3>1. d \in FindDuplicated(c.db, c.coll)
      BY <2>1, <2>3
    <3>2. d[1] = c.db /\ d[2] = c.coll
      BY <3>1, FoundOfCollection
    <3>3. QED
      BY <3>1, <3>2
  <2>4. QED
    BY <1>1, <2>1, <2>2, <2>3
<1>5. CASE UNCHANGED <<content, ranks, unused, duplicated, checked>>
  BY <1>1, <1>5
<1>6. QED
  BY <1>2, <1>3, <1>4, <1>5
     DEF IndexNext, IndexMain, StartCheck, Deadline, Output, ixVars

LEMMA ReportedMeans ==
    ASSUME ReportInv, NEW db, NEW coll, FindDuplicated(db, coll) \subseteq duplicated,
           NEW i \in 1 .. Len(ListOf(db, coll)), NEW j \in 1 .. Len(ListOf(db, coll))
    PROVE  LET list == ListOf(db, coll)
           IN  <<db, coll, list[i].name, list[j].name>> \in duplicated
                   <=> Pairs(list, ranks[list], i, j)
<1> DEFINE list == ListOf(db, coll)
           d == <<db, coll, list[i].name, list[j].name>>
<1>a. IndexList(list)
  BY ListsAreLists DEF ReportInv
<1> HIDE DEF list
<1>b. list \in Seq(ListedIndex) /\ \A k, l \in DOMAIN list : list[k].name = list[l].name => k = l
  BY <1>a DEF IndexList
<1>c. DOMAIN list = 1 .. Len(list)
  BY <1>b
<1>0. list \in Seq(ListedIndex) /\ \A k, l \in 1 .. Len(list) : list[k].name = list[l].name => k = l
  BY <1>b, <1>c
<1> USE DEF list
<1>1. ASSUME Pairs(list, ranks[list], i, j) PROVE d \in duplicated
  <2>1. <<i, j>> \in (1 .. Len(list)) \X (1 .. Len(list))
    OBVIOUS
  <2>2. d \in FindDuplicated(db, coll)
    BY <1>1, <2>1 DEF FindDuplicated, Pairs
  <2>3. QED
    BY <2>2
<1>2. ASSUME d \in duplicated PROVE Pairs(list, ranks[list], i, j)
  <2>1. d \in FindDuplicated(db, coll)
    BY <1>2 DEF ReportInv
  <2>2. PICK p \in (1 .. Len(list)) \X (1 .. Len(list)) :
          /\ d = <<db, coll, list[p[1]].name, list[p[2]].name>>
          /\ Pairs(list, ranks[list], p[1], p[2])
    BY <2>1 DEF FindDuplicated, Pairs
  <2>3. /\ p[1] \in 1 .. Len(list) /\ p[2] \in 1 .. Len(list)
        /\ list[p[1]].name = list[i].name /\ list[p[2]].name = list[j].name
    BY <2>2
  <2>4. p[1] = i /\ p[2] = j
    <3> HIDE DEF list
    <3>1. p[1] = i
      <4> PICK k \in 1 .. Len(list) : k = p[1]
        BY <2>3
      <4>1. i \in 1 .. Len(list) /\ list[k].name = list[i].name
        BY <2>3 DEF list
      <4>2. QED
        BY <1>0, <4>1
    <3>2. p[2] = j
      <4> PICK k \in 1 .. Len(list) : k = p[2]
        BY <2>3
      <4>1. j \in 1 .. Len(list) /\ list[k].name = list[j].name
        BY <2>3 DEF list
      <4>2. QED
        BY <1>0, <4>1
    <3>3. QED
      BY <3>1, <3>2
  <2>5. QED
    BY <2>2, <2>4
<1>3. QED
  BY <1>1, <1>2

LEMMA PairsAreComplete ==
    ASSUME ReportInv, NEW db, NEW coll, FindDuplicated(db, coll) \subseteq duplicated
    PROVE  AllContainedFound(db, coll)
<1> DEFINE list == ListOf(db, coll)
           reported(a, b) == <<db, coll, a.name, b.name>> \in duplicated
<1>1. list \in Seq(ListedIndex)
  BY ListsAreLists DEF ReportInv, IndexList
<1> SUFFICES ASSUME NEW x \in IndexesOf(db, coll), NEW y \in IndexesOf(db, coll)
             PROVE  /\ x # y /\ Contained(x, y) =>
                         IF Contained(y, x) THEN reported(x, y) # reported(y, x)
                                            ELSE reported(x, y)
                    /\ ~(reported(x, y) /\ reported(y, x))
  BY DEF AllContainedFound
<1>1a. list # << >> => ranks[list] \in SortedPlaces(list)
  BY ListsAreSorted DEF ReportInv
<1>2. PICK i \in 1 .. Len(list) : x = list[i]
  BY <1>1 DEF IndexesOf, Range
<1>3. PICK j \in 1 .. Len(list) : y = list[j]
  BY <1>1 DEF IndexesOf, Range
<1>3a. list # << >>
  BY <1>1, <1>2
<1> PICK r \in SortedPlaces(list) : r = ranks[list]
  BY <1>1a, <1>3a
<1>4. reported(x, y) <=> Pairs(list, r, i, j)
  BY <1>2, <1>3, ReportedMeans
<1>5. reported(y, x) <=> Pairs(list, r, j, i)
  BY <1>2, <1>3, ReportedMeans
<1> HIDE DEF reported, list
<1>6. ~(Pairs(list, r, i, j) /\ Pairs(list, r, j, i))
  BY <1>1, PairedOneWay
<1> DEFINE s == ComparableKey(x)
           t == ComparableKey(y)
<1>7. /\ s \in Seq(Nat) /\ t \in Seq(Nat)
      /\ Pairs(list, r, i, j) <=> IsPrefix(s, t) /\ (s # t \/ r[i] < r[j])
      /\ Pairs(list, r, j, i) <=> IsPrefix(t, s) /\ (t # s \/ r[j] < r[i])
  BY <1>1, <1>2, <1>3, PairsAre
<1>8. x \in ListedIndex /\ y \in ListedIndex
  BY <1>1, <1>2, <1>3
<1>9. /\ Contained(x, y) => IsPrefix(s, t)
      /\ Contained(y, x) => IsPrefix(t, s)
  BY <1>8, ContainedKeys
<1> HIDE DEF s, t
<1>10. x # y => r[i] < r[j] \/ r[j] < r[i]
  <2>1. x # y => i # j
    BY <1>2, <1>3
  <2>2. r[i] \in Nat /\ r[j] \in Nat /\ (r[i] = r[j] => i = j)
    BY <1>1, PlacesMean
  <2>3. QED
    BY <2>1, <2>2
<1>11. ASSUME x # y, Contained(x, y), Contained(y, x)
       PROVE  Pairs(list, r, i, j) \/ Pairs(list, r, j, i)
  BY <1>7, <1>9, <1>10, <1>11
<1>12. ASSUME x # y, Contained(x, y), ~Contained(y, x) PROVE Pairs(list, r, i, j)
  <2>1. Len(x.key) < Len(y.key)
    <3> DEFINE S == Nat \X Seq(Nat)
               k == x.key
               l == y.key
    <3>1. k \in Seq(S) /\ l \in Seq(S) /\ IsPrefix(k, l) /\ ~IsPrefix(l, k)
      BY <1>8, <1>12 DEF Contained, ListedIndex
    <3> HIDE DEF S, k, l
    <3>2. Len(k) <= Len(l) /\ Len(k) \in Nat /\ Len(l) \in Nat
      BY <3>1, PrefixMeans
    <3>3. Len(l) <= Len(k) => k = l
      BY <3>1, PrefixOfSameLength
    <3>4. QED
      BY <3>1, <3>2, <3>3 DEF k, l
  <2>2. s # t
    BY <1>8, <1>12, <2>1, ContainedKeys DEF s, t
  <2>3. QED
    BY <1>7, <1>9, <1>12, <2>2
<1>13. QED
  BY <1>4, <1>5, <1>6, <1>11, <1>12

LEMMA ContainersAreKept ==
    ASSUME ReportInv, NEW db, NEW coll, FindDuplicated(db, coll) \subseteq duplicated
    PROVE  SomeContainerKept(db, coll)
<1> DEFINE list == ListOf(db, coll)
<1>1. list \in Seq(ListedIndex)
  BY ListsAreLists DEF ReportInv, IndexList
<1>2. SUFFICES ASSUME NEW d \in duplicated, d[1] = db, d[2] = coll
               PROVE  \E ix \in Kept(db, coll) : <<db, coll, d[3], ix.name>> \in duplicated
  BY DEF SomeContainerKept
<1>3. d \in FindDuplicated(db, coll)
  BY <1>2 DEF ReportInv
<1>4. PICK p \in (1 .. Len(list)) \X (1 .. Len(list)) :
        /\ d = <<db, coll, list[p[1]].name, list[p[2]].name>>
        /\ Pairs(list, ranks[list], p[1], p[2])
  BY <1>3 DEF FindDuplicated, Pairs
<1>4a. list # << >>
  BY <1>1, <1>4
<1> PICK r \in SortedPlaces(list) : r = ranks[list]
  <2>1. ranks[list] \in SortedPlaces(list)
    BY <1>4a, ListsAreSorted DEF ReportInv
  <2>2. QED
    BY <2>1
<1>5. PICK i \in 1 .. Len(list), j \in 1 .. Len(list) :
        d = <<db, coll, list[i].name, list[j].name>> /\ Pairs(list, r, i, j)
  BY <1>4
<1>6. PICK k \in 1 .. Len(list) :
        Pairs(list, r, i, k) /\ \A l \in 1 .. Len(list) : ~Pairs(list, r, k, l)
  BY <1>1, <1>5, LastContainer
<1>7. <<db, coll, list[i].name, list[k].name>> \in duplicated
  BY <1>6, ReportedMeans
<1>8. list[k] \in Kept(db, coll)
  <2>1. list[k] \in IndexesOf(db, coll)
    BY <1>1 DEF IndexesOf, Range
  <2>2. ASSUME NEW e \in duplicated, e[1] = db, e[2] = coll, e[3] = list[k].name
        PROVE  FALSE
    <3>1. e \in FindDuplicated(db, coll)
      BY <2>2 DEF ReportInv
    <3>2. PICK q \in (1 .. Len(list)) \X (1 .. Len(list)) :
            e = <<db, coll, list[q[1]].name, list[q[2]].name>>
      BY <3>1 DEF FindDuplicated
    <3>3. PICK l \in 1 .. Len(list) : l = q[2]
      BY <3>2
    <3>4. <<db, coll, list[k].name, list[l].name>> = e
      BY <2>2, <3>2, <3>3
    <3>5. Pairs(list, r, k, l)
      BY <2>2, <3>4, ReportedMeans
    <3>6. QED
      BY <1>6, <3>5
  <2>3. QED
    BY <2>1, <2>2 DEF Kept
<1>9. QED
  BY <1>5, <1>7, <1>8

(* The findings of pt-mongodb-index-check, of any number of databases,     *)
(* collections and indexes with keys of any length, are complete and safe  *)
(* to act on: every unused index and every contained one is listed, and    *)
(* dropping the listed duplicates leaves a container of each.              *)
THEOREM RedundantIndexesAreFound == IndexSpec => []RedundantIndexesFound
<1>1. IndexInit => ReportInv
  BY DEF IndexInit, ReportInv
<1>2. ReportInv => RedundantIndexesFound
  <2> SUFFICES ASSUME ReportInv, NEW c \in checked, c.coll # ""
               PROVE  IF c.pass = "duplicates"
                      THEN AllContainedFound(c.db, c.coll) /\ SomeContainerKept(c.db, c.coll)
                      ELSE \A ix \in IndexesOf(c.db, c.coll) :
                              ix.ops = 0 /\ ix.name # "_id_" /\ c.db \notin SystemDBs =>
                                  <<c.db, c.coll, ix.name>> \in unused
    BY DEF RedundantIndexesFound
  <2>1. AnswerKept(c)
    BY DEF ReportInv
  <2>2. CASE c.pass = "duplicates"
    BY <2>1, <2>2, PairsAreComplete, ContainersAreKept DEF AnswerKept
  <2>3. CASE c.pass # "duplicates"
    BY <2>1, <2>3 DEF AnswerKept, FindUnused
  <2>4. QED
    BY <2>2, <2>3
<1>3. QED
  BY <1>1, <1>2, NextKeepsReportInv, PTL DEF IndexSpec

-----------------------------------------------------------------------------
(***************************************************************************)
(* pt-secure-collect                                                       *)
(***************************************************************************)

(* What JoinQueryLines has read is what it has joined and the query it     *)
(* is in, which has not ended.                                             *)
Ending == {"query;", "end;", "***"}
Open(query) == query # << >> =>
                  /\ query[1] = "query"
                  /\ \A i \in 2 .. Len(query) : query[i] \notin Ending
Joins == {acc \in [joined : Seq(LineKinds), query : Seq(LineKinds)] : Open(acc.query)}

LEMMA StepsJoin ==
    ASSUME NEW acc \in Joins, NEW line \in LineKinds
    PROVE  LET next1 == JoinStep(acc, line)
           IN  /\ next1 \in Joins
               /\ next1.joined \o next1.query = Append(acc.joined \o acc.query, line)
<1> DEFINE j == acc.joined
           q == acc.query
           n == JoinStep(acc, line)
           Other == q = << >> /\ line \notin {"query", "query;"}
           Stars == q # << >> /\ line = "***"
           Ends == line \in {"query;", "end;"} /\ (q # << >> \/ line = "query;")
<1>1. j \in Seq(LineKinds) /\ q \in Seq(LineKinds) /\ Open(q) /\ acc = [joined |-> j, query |-> q]
  BY DEF Joins
<1>2. j \o Append(q, line) = Append(j \o q, line)
  BY <1>1, AppendedLater
<1>3. CASE Other
  <2>1. n = [joined |-> Append(j, line), query |-> << >>]
    BY <1>1, <1>3 DEF JoinStep
  <2>2. Append(j, line) \in Seq(LineKinds) /\ << >> \in Seq(LineKinds)
    BY <1>1
  <2>3. Append(j, line) \o << >> = Append(j \o q, line)
    <3>1. j \o << >> = j /\ Append(j, line) \o << >> = Append(j, line)
      BY <1>1
    <3>2. QED
      BY <1>3, <3>1
  <2>4. Open(<< >>)
    BY DEF Open
  <2>5. QED
    BY <2>1, <2>2, <2>3, <2>4 DEF Joins
<1>4. ASSUME n = [joined |-> j \o Append(q, line), query |-> << >>]
      PROVE  n \in Joins /\ n.joined \o n.query = Append(j \o q, line)
  <2> DEFINE l == j \o Append(q, line)
  <2>1. l \in Seq(LineKinds) /\ << >> \in Seq(LineKinds)
    BY <1>1
  <2>2. Open(<< >>)
    BY DEF Open
  <2>3. l \o << >> = l
    BY <2>1
  <2>4. QED
    BY <1>2, <1>4, <2>1, <2>2, <2>3 DEF Joins
<1>5. CASE Stars
  BY <1>1, <1>4, <1>5 DEF JoinStep, EndedByStars
<1>6. CASE Ends
  BY <1>1, <1>4, <1>6 DEF JoinStep
<1>7. CASE ~Other /\ ~Stars /\ ~Ends
  <2>1. n = [joined |-> j, query |-> Append(q, line)]
    BY <1>1, <1>7 DEF JoinStep
  <2>2. q = << >> => line = "query"
    BY <1>7 DEF LineKinds
  <2>3. q # << >> => line \notin Ending
    BY <1>7 DEF Ending
  <2>4. Open(Append(q, line)) /\ Append(q, line) \in Seq(LineKinds)
    <3>1. CASE q = << >>
      BY <2>2, <3>1 DEF Open
    <3>2. CASE q # << >>
      <4>1. Len(q) \in Nat /\ Len(q) >= 1 /\ Len(Append(q, line)) = Len(q) + 1
            /\ Append(q, line) \in Seq(LineKinds)
        BY <1>1, <3>2
      <4>2. Append(q, line)[1] = q[1] /\ Append(q, line)[Len(q) + 1] = line
        BY <1>1, <4>1
      <4>3. \A i \in 2 .. Len(q) : Append(q, line)[i] = q[i]
        BY <1>1, <4>1
      <4>4. QED
        BY <1>1, <2>3, <3>2, <4>1, <4>2, <4>3 DEF Open
    <3>3. QED
      BY <3>1, <3>2
  <2> DEFINE a == Append(q, line)
  <2>5. n = [joined |-> j, query |-> a] /\ Open(a) /\ a \in Seq(LineKinds)
        /\ j \o a = Append(j \o q, line)
    BY <1>2, <2>1, <2>4
  <2> HIDE DEF a
  <2>6. n \in Joins /\ n.joined \o n.query = Append(j \o q, line)
    <3> HIDE DEF n, q
    <3>1. QED
      BY <1>1, <2>5 DEF Joins
  <2>7. QED
    BY <2>6
<1> HIDE DEF Other, Stars, Ends
<1>8. QED
  BY <1>3, <1>5, <1>6, <1>7

(* Of a file the sanitiser keeps all but the query the file ends in. *)
LEMMA QueriesAreJoined ==
    ASSUME NEW lines \in Seq(LineKinds)
    PROVE  /\ JoinQueryLines(lines) \in Seq(LineKinds)
           /\ CutQuery(JoinQueryLines(lines), lines)
<1> DEFINE N == Len(lines)
           first == [joined |-> << >>, query |-> << >>]
           body == [p \in Joins \X (1 .. N) |-> JoinStep(p[1], lines[p[2]])]
           Eq(f) == f = [n \in 0 .. N |-> IF n = 0 THEN first ELSE JoinStep(f[n - 1], lines[n])]
           upTo == CHOOSE f : Eq(f)
<1>1. N \in Nat /\ \A n \in 1 .. N : lines[n] \in LineKinds
  OBVIOUS
<1>2. first \in Joins
  <2>1. << >> \in Seq(LineKinds) /\ Open(<< >>)
    BY DEF Open
  <2>2. QED
    BY <2>1 DEF Joins
<1>3. body \in [Joins \X (1 .. N) -> Joins]
  <2>1. ASSUME NEW p \in Joins \X (1 .. N) PROVE JoinStep(p[1], lines[p[2]]) \in Joins
    BY <1>1, StepsJoin
  <2>2. QED
    BY <2>1
<1>4. PICK f : Loops(f, Joins, first, N, body)
  <2> HIDE DEF body, first, N
  <2>1. QED
    BY <1>1, <1>2, <1>3, Loop
<1>5. /\ f \in [0 .. N -> Joins] /\ f[0] = first
      /\ \A n \in 1 .. N : f[n] = JoinStep(f[n - 1], lines[n])
  <2>1. f \in [0 .. N -> Joins] /\ f[0] = first
        /\ \A n \in 1 .. N : f[n] = body[<<f[n - 1], n>>]
    <3> HIDE DEF body, first, N
    <3>1. QED
      BY <1>4 DEF Loops
  <2>2. ASSUME NEW n \in 1 .. N PROVE f[n] = JoinStep(f[n - 1], lines[n])
    <3>1. <<f[n - 1], n>> \in Joins \X (1 .. N)
      BY <1>1, <2>1
    <3>2. body[<<f[n - 1], n>>] = JoinStep(f[n - 1], lines[n])
      BY <3>1
    <3>3. QED
      BY <2>1, <3>2
  <2>3. QED
    BY <2>1, <2>2
<1> HIDE DEF body
<1>6. Eq(f)
  <2> DEFINE e == [n \in 0 .. N |-> IF n = 0 THEN first ELSE JoinStep(f[n - 1], lines[n])]
  <2>1. ASSUME NEW n \in 0 .. N PROVE f[n] = e[n]
    <3>1. n = 0 \/ n \in 1 .. N
      BY <1>1
    <3>2. e[n] = IF n = 0 THEN first ELSE JoinStep(f[n - 1], lines[n])
      OBVIOUS
    <3> HIDE DEF e, first
    <3>3. QED
      BY <1>5, <3>1, <3>2
  <2>2. DOMAIN e = 0 .. N
    OBVIOUS
  <2>3. e = [n \in 0 .. N |-> e[n]]
    OBVIOUS
  <2> HIDE DEF e, first, N
  <2>4. f = e
    BY <1>5, <2>1, <2>3
  <2>5. QED
    BY <2>4 DEF e
<1>7. Eq(upTo)
  <2> HIDE DEF Eq, first, N
  <2>1. QED
    BY <1>6
<1>8. JoinQueryLines(lines) = upTo[N].joined
  BY DEF JoinQueryLines
<1> HIDE DEF upTo
<1>9. \A n \in 0 .. N : upTo[n] = IF n = 0 THEN first ELSE JoinStep(upTo[n - 1], lines[n])
  <2> HIDE DEF N, first
  <2>1. QED
    BY <1>7
<1> HIDE DEF Eq
<1> DEFINE Seen(acc, n) == acc \in Joins /\ acc.joined \o acc.query = SubSeq(lines, 1, n)
           T == {n \in 0 .. N : Seen(upTo[n], n)}
<1>10. 0 \in T
  <2>1. upTo[0] = first
    BY <1>1, <1>9
  <2>2. << >> \o << >> = SubSeq(lines, 1, 0)
    <3>1. << >> \o << >> = << >> /\ SubSeq(lines, 1, 0) = << >>
      OBVIOUS
    <3>2. QED
      BY <3>1
  <2>3. Seen(upTo[0], 0)
    BY <1>2, <2>1, <2>2
  <2>4. 0 \in 0 .. N
    BY <1>1
  <2> HIDE DEF Seen, N
  <2>5. QED
    BY <2>3, <2>4
<1>11. ASSUME NEW n \in 1 .. N, n - 1 \in T PROVE n \in T
  <2>1. upTo[n] = JoinStep(upTo[n - 1], lines[n]) /\ Seen(upTo[n - 1], n - 1)
        /\ n \in 0 .. N
    <3>1. n \in 0 .. N /\ n # 0
      BY <1>1
    <3>2. upTo[n] = JoinStep(upTo[n - 1], lines[n])
      <4> HIDE DEF first, N
      <4>1. QED
        BY <1>9, <3>1
    <3>3. Seen(upTo[n - 1], n - 1)
      <4> HIDE DEF Seen
      <4>1. QED
        BY <1>11
    <3>4. QED
      BY <3>1, <3>2, <3>3
  <2> DEFINE acc == upTo[n - 1]
             new == upTo[n]
  <2> HIDE DEF acc, new, Seen
  <2>2. acc \in Joins /\ new = JoinStep(acc, lines[n]) /\ acc.joined \o acc.query = SubSeq(lines, 1, n - 1)
    BY <2>1 DEF acc, new, Seen
  <2>3. new \in Joins /\ new.joined \o new.query = Append(acc.joined \o acc.query, lines[n])
    BY <1>1, <2>2, StepsJoin
  <2>4. SubSeq(lines, 1, n) = Append(SubSeq(lines, 1, n - 1), lines[n])
    BY NextPart
  <2>5. Seen(new, n)
    BY <2>2, <2>3, <2>4 DEF Seen
  <2>6. QED
    BY <2>1, <2>5 DEF new
<1>12. 0 .. N \subseteq T
  <2> HIDE DEF T, N
  <2>1. QED
    BY <1>1, <1>10, <1>11, UpTo
<1>13. Seen(upTo[N], N)
  <2> HIDE DEF Seen
  <2>1. N \in T
    <3> HIDE DEF T, N
    <3>1. QED
      BY <1>1, <1>12
  <2>2. QED
    BY <2>1
<1> DEFINE j == upTo[N].joined
           q == upTo[N].query
<1>14. j \in Seq(LineKinds) /\ q \in Seq(LineKinds) /\ Open(q) /\ j \o q = SubSeq(lines, 1, N)
  BY <1>13 DEF Joins
<1>15. lines = j \o q
  <2>1. SubSeq(lines, 1, Len(lines)) = lines
    OBVIOUS
  <2>2. QED
    BY <1>14, <2>1
<1> HIDE DEF j, q, N
<1>16. IsPrefix(j, lines)
  BY <1>14, <1>15, PrefixOfAppended
<1>17. CASE q = << >>
  <2>1. lines = j
    BY <1>14, <1>15, <1>17
  <2>2. QED
    BY <1>8, <1>14, <1>16, <2>1 DEF CutQuery, j
<1>18. CASE q # << >>
  <2>1. /\ Len(j) \in Nat /\ Len(q) \in Nat /\ Len(q) >= 1 /\ Len(lines) = Len(j) + Len(q)
        /\ \A i \in 1 .. Len(q) : lines[Len(j) + i] = q[i]
    <3>1. /\ Len(j) \in Nat /\ Len(q) \in Nat /\ Len(j \o q) = Len(j) + Len(q)
          /\ \A i \in 1 .. Len(q) : (j \o q)[Len(j) + i] = q[i]
      BY <1>14, AppendedAt
    <3>2. Len(q) # 0
      BY <1>14, <1>18
    <3>3. Len(q) >= 1
      BY <3>1, <3>2
    <3>4. ASSUME NEW i \in 1 .. Len(q) PROVE lines[Len(j) + i] = q[i]
      BY <1>15, <3>1
    <3>5. Len(lines) = Len(j) + Len(q)
      BY <1>15, <3>1
    <3>6. QED
      BY <3>1, <3>3, <3>4, <3>5
  <2>2. lines[Len(j) + 1] = "query"
    BY <1>14, <1>18, <2>1 DEF Open
  <2>3. ASSUME NEW i \in Len(j) + 2 .. Len(lines) PROVE lines[i] \notin Ending
    <3>1. PICK k \in 2 .. Len(q) : i = Len(j) + k
      <4>1. i - Len(j) \in 2 .. Len(q) /\ i = Len(j) + (i - Len(j))
        BY <2>1
      <4>2. QED
        BY <4>1
    <3>2. lines[i] = q[k] /\ q[k] \notin Ending
      BY <1>14, <1>18, <2>1, <3>1 DEF Open
    <3>3. QED
      BY <3>2
  <2>4. QED
    BY <1>8, <1>14, <1>16, <2>2, <2>3 DEF CutQuery, Ending, j
<1>19. QED
  BY <1>17, <1>18

SecureSpec == SecureInit /\ [][SecureNext]_scVars

SomeFile == [lines : Seq(LineKinds), clean : BOOLEAN]
Files == {<<"temp", n>> : n \in DOMAIN temp} \cup {<<"included", n>> : n \in DOMAIN Included}
Pending(n) == \E i \in 1 .. Len(unread) : unread[i] = <<"temp", n>>
AllClean(art) == \A n \in DOMAIN art : art[n].clean

(* What the property asks nothing of: an output begun anew by a later      *)
(* command, or one that lost lines by an error nobody looked at.           *)
Exempt(i) == Overwritten(i) \/ collected[i].name \in spoilt

(* The other outputs are as the commands wrote them. *)
Untouched == \A i \in DOMAIN collected :
                ~Exempt(i) => /\ collected[i].name \in DOMAIN temp
                              /\ temp[collected[i].name].lines = collected[i].lines
Numbered == \A i \in DOMAIN collected : i \in Nat /\ i < next

(* The sanitiser does each file of the directory once, and the included    *)
(* ones, which replace such files, after them.                             *)
InOrder == \A i, j \in 1 .. Len(unread) :
              i < j /\ unread[j][1] = "temp" => unread[i][1] = "temp" /\ unread[i] # unread[j]
PartlyClean ==
    /\ \A n \in DOMAIN temp : temp[n].clean \/ Pending(n)
    /\ \A i \in DOMAIN collected :
          ~Exempt(i) => LET n == collected[i].name
                        IN  /\ n \in DOMAIN temp
                            /\ Pending(n) => temp[n].lines = collected[i].lines
                            /\ ~Pending(n) => Keeps(temp, i)

DirectoryTypes == /\ temp \in [DOMAIN temp -> SomeFile] /\ IsFiniteSet(DOMAIN temp)
                  /\ \A i \in DOMAIN collected : collected[i].lines \in Seq(LineKinds)

SealInv ==
    /\ DirectoryTypes /\ next \in Nat \ {0}
    /\ ~flags.noSanitize => \A art \in tarFile \cup aesFile : AllClean(art)
    /\ scPc \in {"params", "run"} => Numbered
    /\ scPc \in {"params", "run", "list"} => Untouched
    /\ scPc \in {"params", "run", "list", "sanitize", "tar"} => tarFile = {} /\ aesFile = {}
    /\ scPc = "sanitize" => /\ unread # << >> /\ unread \in Seq(Files)
                            /\ InOrder /\ PartlyClean
    /\ scPc = "tar" => Complete(temp) /\ (~flags.noSanitize => AllClean(temp))
    /\ scPc = "encrypt" => unsealed \/ \A art \in tarFile : Complete(art)
    /\ scPc = "encrypt" => tarFile # {} /\ aesFile = {}
    /\ scPc \in {"remove", "done"} \/ (scPc = "main" /\ ~collectErr) =>
         (~unsealed => \E art \in IF flags.noEncrypt THEN tarFile ELSE aesFile : Complete(art))

LEMMA WholeIsCut ==
    ASSUME NEW lines \in Seq(LineKinds)
    PROVE  CutQuery(lines, lines)
<1>1. IsPrefix(lines, lines)
  BY PrefixMeans
<1>2. QED
  BY <1>1 DEF CutQuery

LEMMA UntouchedIsComplete ==
    ASSUME DirectoryTypes, Untouched
    PROVE  Complete(temp)
<1> SUFFICES ASSUME NEW i \in DOMAIN collected, ~Exempt(i) PROVE Keeps(temp, i)
  BY DEF Complete, Exempt
<1> DEFINE n == collected[i].name
           lines == collected[i].lines
<1>1. n \in DOMAIN temp /\ temp[n].lines = lines /\ lines \in Seq(LineKinds)
  BY DEF Untouched, DirectoryTypes
<1>2. lines \in Versions(i)
  BY DEF Versions
<1>3. CutQuery(lines, lines)
  <2> HIDE DEF lines
  <2>1. QED
    BY <1>1, WholeIsCut
<1>4. QED
  BY <1>1, <1>2, <1>3 DEF Keeps

LEMMA FilesListed ==
    ASSUME NEW where, NEW dir, IsFiniteSet(DOMAIN dir)
    PROVE  Lists(FilesIn(where, dir), {<<where, n>> : n \in DOMAIN dir})
<1> DEFINE S == {<<where, n>> : n \in DOMAIN dir}
           f == [n \in DOMAIN dir |-> <<where, n>>]
<1>1. f \in Surjection(DOMAIN dir, S)
  BY DEF Surjection
<1>2. IsFiniteSet(S)
  <2> HIDE DEF f, S
  <2>1. QED
    BY <1>1, FS_Surjection
<1>3. Lists(SetToSeq(S), S)
  <2> HIDE DEF S
  <2>1. QED
    BY <1>2, Listing
<1>4. QED
  BY <1>3 DEF FilesIn

LEMMA SecureInitSeals == SecureInit => SealInv
<1> SUFFICES ASSUME SecureInit PROVE SealInv
  OBVIOUS
<1>1. temp = [n \in DOMAIN Leftover |-> File(Leftover[n])] /\ collected = << >>
      /\ tarFile = {} /\ aesFile = {} /\ scPc = "params"
  BY DEF SecureInit
<1>2. IsFiniteSet(DOMAIN Leftover) /\ \A n \in DOMAIN Leftover : File(Leftover[n]) \in SomeFile
  BY SecureAssumption DEF Directory, File, SomeFile
<1>3. DirectoryTypes
  <2>1. DOMAIN temp = DOMAIN Leftover /\ temp \in [DOMAIN Leftover -> SomeFile]
    BY <1>1, <1>2
  <2>2. DOMAIN collected = {}
    BY <1>1
  <2>3. QED
    BY <1>2, <2>1, <2>2 DEF DirectoryTypes
<1>4. Untouched /\ Numbered
  <2>1. DOMAIN collected = {}
    BY <1>1
  <2>2. QED
    BY <2>1 DEF Untouched, Numbered
<1>5. next \in Nat \ {0}
  BY DEF SecureInit
<1>6. QED
  BY <1>1, <1>3, <1>4, <1>5 DEF SealInv

(* What depends only on the outputs and the files of the directory. *)
LEMMA SameOutputs ==
    ASSUME UNCHANGED <<collected, spoilt>>
    PROVE  /\ \A art : Complete(art)' = Complete(art)
           /\ \A i : Exempt(i)' = Exempt(i)
  BY DEF Complete, Exempt, Overwritten, Keeps, Versions

LEMMA SameDirectory ==
    ASSUME UNCHANGED <<temp, collected, spoilt>>
    PROVE  /\ DirectoryTypes' = DirectoryTypes
           /\ Untouched' = Untouched
           /\ Complete(temp)' = Complete(temp)
           /\ AllClean(temp)' = AllClean(temp)
  BY DEF DirectoryTypes, Untouched, Exempt, Complete, Overwritten, Keeps, Versions, AllClean

LEMMA StartSeals ==
    ASSUME SealInv, UNCHANGED <<flags, temp, collected, spoilt, tarFile, aesFile>>,
           next' \in {next, next + 1}, scPc \in {"params", "run"},
           scPc' \in {"fatal", "run", AfterCommands}
    PROVE  SealInv'
<1>1. DirectoryTypes' /\ Untouched /\ Untouched' /\ tarFile' = {} /\ aesFile' = {}
  BY SameDirectory DEF SealInv
<1>2. scPc' = "tar" => flags.noSanitize
  BY DEF AfterCommands
<1>3. Complete(temp)'
  BY <1>1, SameDirectory, UntouchedIsComplete DEF SealInv
<1>4. scPc' \in {"fatal", "run", "list", "tar"}
  BY DEF AfterCommands
<1>5. Numbered' /\ next' \in Nat \ {0}
  <2>1. Numbered /\ next \in Nat \ {0}
    BY DEF SealInv
  <2>2. \A i \in Nat : i < next => i < next'
    BY <2>1
  <2>3. QED
    BY <2>1, <2>2 DEF Numbered
<1>6. QED
  BY <1>1, <1>2, <1>3, <1>4, <1>5 DEF SealInv

LEMMA PutTypes ==
    ASSUME NEW dir, dir \in [DOMAIN dir -> SomeFile], IsFiniteSet(DOMAIN dir),
           NEW name, NEW file \in SomeFile
    PROVE  LET new == Put(dir, name, file)
           IN  new \in [DOMAIN new -> SomeFile] /\ IsFiniteSet(DOMAIN new)
<1> DEFINE new == Put(dir, name, file)
<1>1. DOMAIN new = DOMAIN dir \cup {name} /\ new \in [DOMAIN dir \cup {name} -> SomeFile]
  BY DEF Put
<1>2. IsFiniteSet(DOMAIN dir \cup {name})
  BY FS_AddElement
<1> HIDE DEF new
<1>3. QED
  BY <1>1, <1>2 DEF new

LEMMA FirstLines ==
    ASSUME NEW lines \in Seq(LineKinds), NEW n \in 0 .. Len(lines)
    PROVE  /\ FirstOf(lines, n) \in Seq(LineKinds)
           /\ n = Len(lines) => FirstOf(lines, n) = lines
  BY DEF FirstOf

LEMMA RunSeals == ASSUME SealInv, RunCommand PROVE SealInv'
<1>1. /\ next \in Nat \ {0} /\ next <= Len(Commands) /\ next' = next + 1 /\ scPc = "run"
      /\ UNCHANGED <<flags, tarFile, aesFile>>
  BY DEF RunCommand, SealInv
<1>2. /\ DirectoryTypes /\ Untouched /\ Numbered /\ tarFile = {} /\ aesFile = {}
  BY <1>1 DEF SealInv
<1> DEFINE R == [base : STRING, lines : Seq(LineKinds), allowed : BOOLEAN]
<1>3. PICK c \in R : c = Commands[next]
  <2>1. Commands \in Seq(R)
    BY SecureAssumption
  <2> HIDE DEF R
  <2>2. Commands[next] \in R
    BY <1>1, <2>1
  <2>3. QED
    BY <2>2
<1> HIDE DEF R
<1>4. c.lines \in Seq(LineKinds)
  BY DEF R
<1>5. CASE ~c.allowed
  <2>1. UNCHANGED <<scPc, temp, collected, spoilt>>
    BY <1>3, <1>5 DEF RunCommand
  <2>2. QED
    BY <1>1, <2>1, StartSeals
<1>6. CASE c.allowed
  <2>1. PICK s : Runs(c, s)
    BY <1>3, <1>6 DEF RunCommand
  <2> DEFINE name == <<c.base, s>>
  <2>2. CASE /\ temp' \in {temp, Put(temp, name, File(<<"text">> \o c.lines))}
             /\ scPc' = "main" /\ collectErr' = TRUE
             /\ UNCHANGED <<collected, spoilt>>
    <3>1. File(<<"text">> \o c.lines) \in SomeFile
      <4>1. "text" \in LineKinds
        BY DEF LineKinds
      <4>2. <<"text">> \o c.lines \in Seq(LineKinds)
        BY <1>4, <4>1
      <4>3. QED
        BY <4>2 DEF File, SomeFile
    <3>2. temp' \in [DOMAIN temp' -> SomeFile] /\ IsFiniteSet(DOMAIN temp')
      <4>1. CASE temp' = temp
        BY <1>2, <4>1 DEF DirectoryTypes
      <4>2. CASE temp' = Put(temp, name, File(<<"text">> \o c.lines))
        BY <1>2, <3>1, <4>2, PutTypes DEF DirectoryTypes
      <4>3. QED
        BY <2>2, <4>1, <4>2
    <3>3. DirectoryTypes'
      BY <1>2, <2>2, <3>2 DEF DirectoryTypes
    <3>4. QED
      BY <1>1, <1>2, <2>2, <3>3 DEF SealInv
  <2>3. ASSUME NEW n \in 0 .. Len(c.lines),
               temp' = Put(temp, name, File(FirstOf(c.lines, n))),
               collected' = Put(collected, next, [name |-> name, lines |-> c.lines]),
               spoilt' = IF n = Len(c.lines) THEN spoilt \ {name} ELSE spoilt \cup {name},
               UNCHANGED scPc
        PROVE  SealInv'
    <3> DEFINE file == File(FirstOf(c.lines, n))
               entry == [name |-> name, lines |-> c.lines]
    <3>1. /\ file \in SomeFile /\ (n = Len(c.lines) => file.lines = c.lines)
      BY <1>4, FirstLines DEF File, SomeFile
    <3>2. entry.name = name /\ entry.lines = c.lines
      OBVIOUS
    <3>3. temp' = Put(temp, name, file) /\ collected' = Put(collected, next, entry)
      BY <2>3
    <3> HIDE DEF file, entry, name
    <3>4. /\ temp' \in [DOMAIN temp' -> SomeFile] /\ IsFiniteSet(DOMAIN temp')
          /\ DOMAIN temp' = DOMAIN temp \cup {name} /\ temp'[name] = file
          /\ \A m \in DOMAIN temp : m # name => temp'[m] = temp[m]
      <4> PICK old : old = temp
        OBVIOUS
      <4>1. temp' = Put(old, name, file) /\ old \in [DOMAIN old -> SomeFile] /\ IsFiniteSet(DOMAIN old)
        BY <1>2, <3>3 DEF DirectoryTypes
      <4>2. temp' \in [DOMAIN temp' -> SomeFile] /\ IsFiniteSet(DOMAIN temp')
        BY <3>1, <4>1, PutTypes
      <4>3. /\ DOMAIN Put(old, name, file) = DOMAIN old \cup {name}
            /\ Put(old, name, file)[name] = file
            /\ \A m \in DOMAIN old : m # name => Put(old, name, file)[m] = old[m]
        BY DEF Put
      <4>4. QED
        BY <4>1, <4>2, <4>3
    <3>5. /\ DOMAIN collected' = DOMAIN collected \cup {next} /\ collected'[next] = entry
          /\ \A i \in DOMAIN collected : i # next => collected'[i] = collected[i]
      <4> PICK old : old = collected
        OBVIOUS
      <4> PICK k : k = next
        OBVIOUS
      <4>1. collected' = Put(old, k, entry)
        BY <3>3
      <4>2. /\ DOMAIN Put(old, k, entry) = DOMAIN old \cup {k}
            /\ Put(old, k, entry)[k] = entry
            /\ \A i \in DOMAIN old : i # k => Put(old, k, entry)[i] = old[i]
        BY DEF Put
      <4>3. QED
        BY <4>1, <4>2
    <3>6. ASSUME NEW i \in DOMAIN collected
          PROVE  collected'[i] = collected[i] /\ i < next /\ i # next
      BY <1>1, <1>2, <3>5 DEF Numbered
    <3>7. DirectoryTypes'
      <4>1. ASSUME NEW i \in DOMAIN collected' PROVE collected'[i].lines \in Seq(LineKinds)
        BY <1>2, <1>4, <3>2, <3>5, <3>6 DEF DirectoryTypes
      <4>2. QED
        BY <3>4, <4>1 DEF DirectoryTypes
    <3>8. Numbered'
      <4>1. ASSUME NEW i \in DOMAIN collected' PROVE i \in Nat /\ i < next + 1
        BY <1>1, <1>2, <3>5, <3>6 DEF Numbered
      <4>2. QED
        BY <1>1, <4>1 DEF Numbered
    <3>9. Untouched'
      <4>1. SUFFICES ASSUME NEW i \in DOMAIN collected', ~Exempt(i)'
                     PROVE  /\ collected'[i].name \in DOMAIN temp'
                            /\ temp'[collected'[i].name].lines = collected'[i].lines
        BY DEF Untouched
      <4>2. CASE i = next
        <5>1. name \notin spoilt'
          BY <3>2, <3>5, <4>1, <4>2 DEF Exempt
        <5>2. n = Len(c.lines)
          BY <2>3, <5>1
        <5>3. QED
          BY <3>1, <3>2, <3>4, <3>5, <4>2, <5>2
      <4>3. CASE i # next
        <5>1. i \in DOMAIN collected /\ collected'[i] = collected[i]
          BY <3>5, <3>6, <4>3
        <5>2. collected[i].name # name
          <6>1. ASSUME collected[i].name = name PROVE FALSE
            <7>1. Overwritten(i)'
              BY <3>2, <3>5, <3>6, <5>1, <6>1 DEF Overwritten
            <7>2. QED
              BY <4>1, <7>1 DEF Exempt
          <6>2. QED
            BY <6>1
        <5>3. ~Overwritten(i)
          <6>1. ASSUME NEW j \in DOMAIN collected, i < j, collected[j].name = collected[i].name
                PROVE  Overwritten(i)'
            <7>1. j \in DOMAIN collected' /\ collected'[j] = collected[j]
              BY <3>5, <3>6
            <7>2. QED
              BY <5>1, <6>1, <7>1 DEF Overwritten
          <6>2. QED
            BY <4>1, <6>1 DEF Overwritten, Exempt
        <5>4. collected[i].name \notin spoilt
          BY <2>3, <4>1, <5>1, <5>2 DEF Exempt
        <5>5. /\ collected[i].name \in DOMAIN temp
              /\ temp[collected[i].name].lines = collected[i].lines
          BY <1>2, <5>1, <5>3, <5>4 DEF Untouched, Exempt
        <5>6. QED
          BY <3>4, <5>1, <5>2, <5>5
      <4>4. QED
        BY <4>2, <4>3
    <3>10. next' \in Nat \ {0}
      BY <1>1
    <3>11. QED
      BY <1>1, <1>2, <2>3, <3>7, <3>8, <3>9, <3>10 DEF SealInv
  <2>4. QED
    BY <2>1, <2>2, <2>3 DEF Runs
<1>7. QED
  BY <1>5, <1>6

LEMMA ListDirsSeals == ASSUME SealInv, ListDirs PROVE SealInv'
<1> DEFINE a == FilesIn("temp", temp)
           b == FilesIn("included", Included)
           S == {<<"temp", n>> : n \in DOMAIN temp}
           I == {<<"included", n>> : n \in DOMAIN Included}
<1>1. /\ DirectoryTypes /\ Untouched /\ tarFile = {} /\ aesFile = {}
      /\ UNCHANGED <<flags, temp, collected, spoilt, next, tarFile, aesFile>> /\ next \in Nat \ {0}
  BY DEF ListDirs, SealInv, Stays
<1>2. DirectoryTypes' /\ next' \in Nat \ {0}
  BY <1>1, SameDirectory
<1>3. CASE temp = << >>
  <2>1. scPc' = "main" /\ collectErr'
    BY <1>3 DEF ListDirs
  <2>2. QED
    BY <1>1, <1>2, <2>1 DEF SealInv
<1>4. CASE temp # << >>
  <2>1. scPc' = "sanitize" /\ unread' = a \o b
    BY <1>4 DEF ListDirs
  <2>2. Lists(a, S) /\ Lists(b, I)
    <3>1. Lists(a, S)
      BY <1>1, FilesListed DEF DirectoryTypes
    <3>2. Lists(b, I)
      BY SecureAssumption, FilesListed DEF Directory
    <3>3. QED
      BY <3>1, <3>2
  <2>3. DOMAIN temp # {}
    <3>1. temp \in [DOMAIN temp -> SomeFile]
      BY <1>1 DEF DirectoryTypes
    <3>2. ASSUME DOMAIN temp = {} PROVE temp = << >>
      BY <3>1, <3>2
    <3>3. QED
      BY <1>4, <3>2
  <2>4. Files' = S \cup I
    BY <1>1 DEF Files
  <2>5. /\ \A x \in S : x[1] = "temp"
        /\ \A x \in I : x[1] = "included"
        /\ \A n \in DOMAIN temp : <<"temp", n>> \in S
    OBVIOUS
  <2>6. S # {}
    BY <2>3, <2>5
  <2> HIDE DEF a, b, S, I
  <2>7. /\ a \in Seq(S) /\ b \in Seq(I) /\ Len(a) \in Nat /\ Len(b) \in Nat
        /\ \A x \in S : \E i \in 1 .. Len(a) : a[i] = x
        /\ \A i, j \in 1 .. Len(a) : a[i] = a[j] => i = j
    BY <2>2 DEF Lists
  <2>8. /\ a \in Seq(S \cup I) /\ b \in Seq(S \cup I)
    BY <2>7
  <2> PICK u : u = a \o b
    OBVIOUS
  <2>9. /\ u \in Seq(S \cup I) /\ Len(u) = Len(a) + Len(b)
        /\ \A i \in 1 .. Len(a) : u[i] = a[i]
        /\ \A i \in 1 .. Len(b) : u[Len(a) + i] = b[i]
    <3>1. u \in Seq(S \cup I) /\ Len(u) = Len(a) + Len(b)
      BY <2>8
    <3>2. \A i \in 1 .. Len(a) : u[i] = a[i]
      BY <2>8
    <3>3. \A i \in 1 .. Len(b) : u[Len(a) + i] = b[i]
      BY <2>8, AppendedAt
    <3>4. QED
      BY <3>1, <3>2, <3>3
  <2>10. Len(a) >= 1 /\ u # << >>
    <3>1. Len(a) >= 1
      BY <2>6, <2>7
    <3>2. Len(u) >= 1
      BY <2>7, <2>9, <3>1
    <3>3. QED
      BY <3>1, <3>2
  <2>11. ASSUME NEW i \in 1 .. Len(u), NEW j \in 1 .. Len(u), i < j, u[j][1] = "temp"
         PROVE  u[i][1] = "temp" /\ u[i] # u[j]
    <3>1. j <= Len(a)
      <4>1. ASSUME j > Len(a) PROVE FALSE
        <5>1. PICK k \in 1 .. Len(b) : j = Len(a) + k
          <6>1. j - Len(a) \in 1 .. Len(b) /\ j = Len(a) + (j - Len(a))
            BY <2>7, <2>9, <4>1
          <6>2. QED
            BY <6>1
        <5>2. u[j] = b[k] /\ b[k] \in I
          BY <2>7, <2>9, <5>1
        <5>3. QED
          BY <2>5, <2>11, <5>2
      <4>2. QED
        BY <2>7, <2>9, <4>1
    <3>2. i \in 1 .. Len(a) /\ j \in 1 .. Len(a) /\ i # j
      BY <2>7, <2>9, <2>11, <3>1
    <3>3. u[i] = a[i] /\ u[j] = a[j] /\ a[i] \in S
      BY <2>7, <2>9, <3>2
    <3>4. QED
      BY <2>5, <2>7, <3>2, <3>3
  <2>12. unread' = u
    BY <2>1
  <2>13. InOrder'
    BY <2>11, <2>12 DEF InOrder
  <2>14. ASSUME NEW n \in DOMAIN temp PROVE Pending(n)'
    <3>1. <<"temp", n>> \in S
      BY <2>5
    <3>2. PICK i \in 1 .. Len(a) : a[i] = <<"temp", n>>
      BY <2>7, <3>1
    <3>3. i \in 1 .. Len(u) /\ u[i] = <<"temp", n>>
      BY <2>7, <2>9, <3>2
    <3>4. QED
      BY <2>12, <3>3 DEF Pending
  <2>15. PartlyClean'
    <3>1. ASSUME NEW i \in DOMAIN collected, ~Exempt(i)
          PROVE  LET n == collected[i].name
                 IN  n \in DOMAIN temp /\ Pending(n)' /\ temp[n].lines = collected[i].lines
      BY <1>1, <2>14, <3>1 DEF Untouched
    <3>2. \A i : Exempt(i)' = Exempt(i)
      BY <1>1, SameOutputs
    <3>3. \A n \in DOMAIN temp' : temp'[n].clean \/ Pending(n)'
      BY <1>1, <2>14
    <3>4. UNCHANGED <<temp, collected>>
      BY <1>1
    <3> HIDE DEF Pending, Exempt
    <3>5. QED
      BY <3>1, <3>2, <3>3, <3>4 DEF PartlyClean
  <2>16. unread' # << >> /\ unread' \in Seq(Files)'
    BY <2>4, <2>9, <2>10, <2>12
  <2>17. QED
    BY <1>1, <1>2, <2>1, <2>13, <2>15, <2>16 DEF SealInv
<1>5. QED
  BY <1>3, <1>4

LEMMA SanitizedIsCut ==
    ASSUME NEW lines \in Seq(LineKinds)
    PROVE  /\ Sanitize(lines) \in SomeFile /\ Sanitize(lines).clean
           /\ CutQuery(Sanitize(lines).lines, lines)
<1>1. JoinQueryLines(lines) \in Seq(LineKinds) /\ CutQuery(JoinQueryLines(lines), lines)
  BY QueriesAreJoined
<1>2. Sanitize(lines) = [lines |-> JoinQueryLines(lines), clean |-> TRUE]
  BY DEF Sanitize
<1>3. QED
  BY <1>1, <1>2 DEF SomeFile

LEMMA ReadLinesTypes ==
    ASSUME NEW lines \in Seq(LineKinds)
    PROVE  ReadLines(lines) \in Seq(LineKinds)
  BY DEF ReadLines, Front

(* What is in the file that the sanitiser does next. *)
LEMMA SourceTypes ==
    ASSUME DirectoryTypes, NEW file \in Files
    PROVE  Source(file).lines \in Seq(LineKinds)
<1>1. CASE file[1] = "temp"
  <2>1. file[2] \in DOMAIN temp /\ Source(file) = temp[file[2]]
    BY <1>1 DEF Files, Source
  <2>2. temp[file[2]] \in SomeFile
    BY <2>1 DEF DirectoryTypes
  <2>3. QED
    BY <2>1, <2>2 DEF SomeFile
<1>2. CASE file[1] # "temp"
  <2>1. file[2] \in DOMAIN Included /\ Source(file) = File(Included[file[2]])
    BY <1>2 DEF Files, Source
  <2>2. Included[file[2]] \in Seq(LineKinds)
    BY <2>1, SecureAssumption DEF Directory
  <2>3. QED
    BY <2>1, <2>2 DEF File
<1>3. QED
  BY <1>1, <1>2

LEMMA SanitizeSeals == ASSUME SealInv, SanitizeFile PROVE SealInv'
<1>1. /\ DirectoryTypes /\ unread # << >> /\ unread \in Seq(Files) /\ InOrder /\ PartlyClean
      /\ tarFile = {} /\ aesFile = {} /\ next \in Nat \ {0}
      /\ UNCHANGED <<flags, collected, next, tarFile, aesFile>>
  BY DEF SanitizeFile, SealInv, Stays
<1> PICK h : h = Head(unread)
  OBVIOUS
<1> PICK old : old = temp
  OBVIOUS
<1> PICK todo : todo = unread
  OBVIOUS
<1> PICK raw : raw = Source(h).lines
  OBVIOUS
<1> PICK lines : lines = ReadLines(raw)
  OBVIOUS
<1> DEFINE m == h[2]
<1>2. /\ h = todo[1] /\ h \in Files /\ 1 \in 1 .. Len(todo) /\ todo \in Seq(Files)
      /\ Tail(todo) \in Seq(Files) /\ Len(Tail(todo)) = Len(todo) - 1 /\ Len(todo) \in Nat
      /\ \A i \in 1 .. Len(Tail(todo)) : Tail(todo)[i] = todo[i + 1] /\ i + 1 \in 1 .. Len(todo)
      /\ \A i \in 2 .. Len(todo) : i - 1 \in 1 .. Len(Tail(todo)) /\ Tail(todo)[i - 1] = todo[i]
      /\ Tail(todo) # << >> <=> Len(todo) # 1
  <2> HIDE DEF Files
  <2>1. todo \in Seq(Files) /\ todo # << >>
    BY <1>1
  <2>2. QED
    BY <2>1, TailMeans
<1>3. \/ h = <<"temp", m>> /\ m \in DOMAIN old
      \/ h = <<"included", m>> /\ m \in DOMAIN Included
  BY <1>2 DEF Files
<1>4. raw \in Seq(LineKinds) /\ lines \in Seq(LineKinds)
  BY <1>1, <1>2, SourceTypes, ReadLinesTypes
<1>5. CASE /\ temp' \in {temp, Put(temp, m, Sanitize(<< >>))}
           /\ scPc' = "main" /\ collectErr' = TRUE
           /\ UNCHANGED spoilt
  <2>1. Sanitize(<< >>) \in SomeFile
    <3>1. << >> \in Seq(LineKinds)
      OBVIOUS
    <3>2. QED
      BY <3>1, SanitizedIsCut
  <2>2. temp' \in [DOMAIN temp' -> SomeFile] /\ IsFiniteSet(DOMAIN temp')
    <3>1. CASE temp' = temp
      BY <1>1, <3>1 DEF DirectoryTypes
    <3>2. CASE temp' = Put(temp, m, Sanitize(<< >>))
      BY <1>1, <2>1, <3>2, PutTypes DEF DirectoryTypes
    <3>3. QED
      BY <1>5, <3>1, <3>2
  <2>3. DirectoryTypes'
    BY <1>1, <2>2 DEF DirectoryTypes
  <2>4. QED
    BY <1>1, <1>5, <2>3 DEF SealInv
<1>6. ASSUME NEW k \in 0 .. Len(lines),
             temp' = Put(old, m, Sanitize(FirstOf(lines, k))),
             spoilt' = IF k = Len(lines) THEN spoilt ELSE spoilt \cup {m},
             unread' = Tail(todo),
             scPc' = IF Len(todo) = 1 THEN "tar" ELSE "sanitize"
      PROVE  SealInv'
  <2> DEFINE file == Sanitize(FirstOf(lines, k))
  <2>1. /\ file \in SomeFile /\ file.clean
        /\ k = Len(lines) => CutQuery(file.lines, lines)
    BY <1>4, FirstLines, SanitizedIsCut
  <2>2. temp' = Put(old, m, file)
    BY <1>6
  <2> HIDE DEF m, file
  <2>3. /\ DOMAIN temp' = DOMAIN temp \cup {m}
        /\ temp'[m] = file /\ \A n \in DOMAIN temp : n # m => temp'[n] = temp[n]
    <3>1. /\ DOMAIN Put(old, m, file) = DOMAIN old \cup {m}
          /\ Put(old, m, file)[m] = file
          /\ \A n \in DOMAIN old : n # m => Put(old, m, file)[n] = old[n]
      BY DEF Put
    <3>2. QED
      BY <2>2, <3>1
  <2>4. DirectoryTypes'
    <3>1. temp' \in [DOMAIN temp' -> SomeFile] /\ IsFiniteSet(DOMAIN temp')
      BY <1>1, <2>1, <2>2, PutTypes DEF DirectoryTypes
    <3>2. QED
      BY <1>1, <3>1 DEF DirectoryTypes
  <2>5. unread' \in Seq(Files)'
    <3>1. Files \subseteq Files'
      BY <2>3 DEF Files
    <3>2. unread' \in Seq(Files)
      BY <1>2, <1>6
    <3> HIDE DEF Files
    <3>3. QED
      BY <3>1, <3>2
  <2>6. InOrder'
    <3>1. SUFFICES ASSUME NEW i \in 1 .. Len(Tail(todo)), NEW j \in 1 .. Len(Tail(todo)), i < j,
                          Tail(todo)[j][1] = "temp"
                   PROVE  Tail(todo)[i][1] = "temp" /\ Tail(todo)[i] # Tail(todo)[j]
      BY <1>6 DEF InOrder
    <3> PICK q \in 1 .. Len(todo) : q = i + 1
      BY <1>2
    <3> PICK l \in 1 .. Len(todo) : l = j + 1
      BY <1>2
    <3>2. Tail(todo)[i] = todo[q] /\ Tail(todo)[j] = todo[l] /\ q < l
      BY <1>2, <3>1
    <3>3. QED
      BY <1>1, <3>1, <3>2 DEF InOrder
  <2>7. ASSUME NEW n
         PROVE  /\ Pending(n)' => Pending(n)
                /\ Pending(n) /\ h # <<"temp", n>> => Pending(n)'
                /\ h = <<"temp", n>> => ~Pending(n)'
                /\ h[1] = "included" => ~Pending(n)
    <3>1. ASSUME Pending(n)' PROVE Pending(n) /\ h # <<"temp", n>>
      <4>1. PICK i \in 1 .. Len(Tail(todo)) : Tail(todo)[i] = <<"temp", n>>
        BY <1>6, <3>1 DEF Pending
      <4> PICK q \in 1 .. Len(todo) : q = i + 1
        BY <1>2, <4>1
      <4>2. todo[q] = <<"temp", n>> /\ 1 < q
        BY <1>2, <4>1
      <4>3. todo[q][1] = "temp"
        BY <4>2
      <4>4. todo[1] # todo[q]
        BY <1>1, <1>2, <4>2, <4>3 DEF InOrder
      <4>5. QED
        BY <1>2, <4>2, <4>4 DEF Pending
    <3>2. ASSUME Pending(n), h # <<"temp", n>> PROVE Pending(n)'
      <4>1. PICK i \in 1 .. Len(todo) : todo[i] = <<"temp", n>>
        BY <3>2 DEF Pending
      <4>2. i \in 2 .. Len(todo)
        BY <1>2, <3>2, <4>1
      <4> PICK q \in 1 .. Len(Tail(todo)) : q = i - 1
        BY <1>2, <4>2
      <4>3. Tail(todo)[q] = <<"temp", n>>
        BY <1>2, <4>1, <4>2
      <4>4. QED
        BY <1>6, <4>3 DEF Pending
    <3>3. ASSUME Pending(n) PROVE h[1] = "temp"
      <4>1. PICK i \in 1 .. Len(todo) : todo[i] = <<"temp", n>>
        BY <3>3 DEF Pending
      <4>2. todo[i][1] = "temp"
        BY <4>1
      <4>3. CASE i = 1
        BY <1>2, <4>2, <4>3
      <4>4. CASE i # 1
        <5>1. 1 < i
          BY <4>4
        <5>2. QED
          BY <1>1, <1>2, <4>2, <5>1 DEF InOrder
      <4>5. QED
        BY <4>3, <4>4
    <3>4. QED
      BY <3>1, <3>2, <3>3
  <2>8. ASSUME NEW n \in DOMAIN temp' PROVE temp'[n].clean \/ Pending(n)'
    <3>1. CASE n = m
      BY <2>1, <2>3, <3>1
    <3>2. CASE n # m
      <4>1. n \in DOMAIN temp /\ temp'[n] = temp[n] /\ (temp[n].clean \/ Pending(n))
        BY <1>1, <2>3, <3>2 DEF PartlyClean
      <4>2. h # <<"temp", n>>
        BY <1>3, <3>2
      <4>3. QED
        BY <2>7, <4>1, <4>2
    <3>3. QED
      BY <3>1, <3>2
  <2>9. ASSUME NEW i PROVE Exempt(i) => Exempt(i)'
    BY <1>1, <1>6 DEF Exempt, Overwritten
  <2>10. ASSUME NEW i \in DOMAIN collected, ~Exempt(i)',
                NEW n, n = collected[i].name
         PROVE  /\ n \in DOMAIN temp' /\ (Pending(n)' => temp'[n].lines = collected[i].lines)
                /\ ~Pending(n)' => \E v \in Versions(i) : CutQuery(temp'[n].lines, v)
    <3>1. /\ n \in DOMAIN temp
          /\ Pending(n) => temp[n].lines = collected[i].lines
          /\ ~Pending(n) => \E v \in Versions(i) : CutQuery(temp[n].lines, v)
      BY <1>1, <2>9, <2>10 DEF PartlyClean, Keeps
    <3>2. CASE n # m
      <4>1. temp'[n] = temp[n] /\ n \in DOMAIN temp' /\ h # <<"temp", n>>
        BY <1>3, <2>3, <3>1, <3>2
      <4>2. QED
        BY <2>7, <3>1, <4>1
    <3>3. ASSUME n = m PROVE k = Len(lines)
      <4>1. m \notin spoilt'
        BY <1>1, <2>10, <3>3 DEF Exempt
      <4>2. QED
        BY <1>6, <4>1
    <3>4. CASE n = m /\ h = <<"temp", m>>
      <4>1. Pending(n) /\ ~Pending(n)'
        BY <1>2, <2>7, <3>4 DEF Pending
      <4>2. raw = collected[i].lines
        <5>1. Source(h) = temp[n]
          BY <3>4 DEF Source
        <5>2. QED
          BY <3>1, <4>1, <5>1
      <4>3. lines \in Versions(i)
        BY <4>2 DEF Versions
      <4>4. QED
        BY <2>1, <2>3, <3>3, <3>4, <4>1, <4>3
    <3>5. CASE n = m /\ h = <<"included", m>> /\ m \in DOMAIN Included
      <4>1. ~Pending(n)'
        BY <2>7, <3>5
      <4>2. raw = Included[n]
        BY <3>5 DEF Source, File
      <4>3. lines \in Versions(i)
        BY <2>10, <3>5, <4>2 DEF Versions
      <4>4. QED
        BY <2>1, <2>3, <3>3, <3>5, <4>1, <4>3
    <3>6. QED
      BY <1>3, <3>2, <3>4, <3>5
  <2>11. ASSUME NEW i \in DOMAIN collected, ~Exempt(i)'
         PROVE  LET n == collected[i].name
                IN  /\ n \in DOMAIN temp' /\ (Pending(n)' => temp'[n].lines = collected[i].lines)
                    /\ ~Pending(n)' => Keeps(temp, i)'
    <3> PICK n : n = collected[i].name
      OBVIOUS
    <3>1. Versions(i)' = Versions(i)
      BY <1>1 DEF Versions
    <3>2. (\E v \in Versions(i) : CutQuery(temp'[n].lines, v)) /\ n \in DOMAIN temp'
            => Keeps(temp, i)'
      BY <1>1, <3>1 DEF Keeps
    <3>3. /\ n \in DOMAIN temp' /\ (Pending(n)' => temp'[n].lines = collected[i].lines)
          /\ ~Pending(n)' => \E v \in Versions(i) : CutQuery(temp'[n].lines, v)
      BY <2>10, <2>11
    <3>4. QED
      BY <1>1, <3>2, <3>3
  <2>12. PartlyClean'
    BY <1>1, <2>8, <2>11 DEF PartlyClean
  <2>13. CASE Len(todo) # 1
    <3>1. scPc' = "sanitize" /\ unread' # << >>
      BY <1>2, <1>6, <2>13
    <3>2. QED
      BY <1>1, <2>4, <2>5, <2>6, <2>12, <3>1 DEF SealInv
  <2>14. CASE Len(todo) = 1
    <3>1. scPc' = "tar"
      BY <1>6, <2>14
    <3>2. \A n : ~Pending(n)'
      <4>1. Len(unread') = 0
        BY <1>2, <1>6, <2>14
      <4>2. QED
        BY <4>1 DEF Pending
    <3>3. AllClean(temp)'
      BY <2>8, <3>2 DEF AllClean
    <3>4. Complete(temp)'
      <4>1. ASSUME NEW i \in DOMAIN collected', ~Exempt(i)' PROVE Keeps(temp, i)'
        BY <1>1, <2>11, <3>2, <4>1
      <4>2. QED
        BY <4>1 DEF Complete, Exempt
    <3>5. QED
      BY <1>1, <2>4, <3>1, <3>3, <3>4 DEF SealInv
  <2>15. QED
    BY <2>13, <2>14
<1>7. QED
  BY <1>5, <1>6 DEF SanitizeFile

LEMMA RestrictMeans ==
    ASSUME NEW f
    PROVE  /\ DOMAIN Restrict(f, DOMAIN f) = DOMAIN f
           /\ \A n \in DOMAIN f : Restrict(f, DOMAIN f)[n] = f[n]
           /\ \A S \in SUBSET DOMAIN f : DOMAIN Restrict(f, S) = S
           /\ \A S \in SUBSET DOMAIN f : \A n \in S : Restrict(f, S)[n] = f[n]
  BY DEF Restrict

LEMMA PartIsClean ==
    ASSUME NEW art, AllClean(art), NEW S \in SUBSET DOMAIN art
    PROVE  AllClean(Restrict(art, S))
  BY RestrictMeans DEF AllClean

LEMMA CopyIsComplete ==
    ASSUME NEW art, Complete(art)
    PROVE  Complete(Restrict(art, DOMAIN art))
  BY RestrictMeans DEF Complete, Keeps

LEMMA TarSeals == ASSUME SealInv, Tar PROVE SealInv'
<1>1. /\ DirectoryTypes /\ Complete(temp) /\ (~flags.noSanitize => AllClean(temp))
      /\ aesFile = {} /\ next \in Nat \ {0}
      /\ UNCHANGED <<flags, collected, spoilt, next, temp, aesFile>>
  BY DEF Tar, SealInv, Stays
<1>2. PICK ok \in BOOLEAN, packed \in SUBSET DOMAIN temp :
        /\ tarFile' = {Restrict(temp, packed)}
        /\ scPc' = IF ok THEN "encrypt" ELSE "main"
        /\ collectErr' = ~ok
        /\ unsealed' = (packed # DOMAIN temp)
  BY DEF Tar
<1>3. DirectoryTypes'
  BY <1>1, SameDirectory
<1>4. ~flags.noSanitize => \A art \in tarFile' : AllClean(art)
  BY <1>1, <1>2, PartIsClean
<1>5. ~unsealed' => \A art \in tarFile' : Complete(art)
  BY <1>1, <1>2, CopyIsComplete
<1>6. \A art : Complete(art)' = Complete(art) /\ AllClean(art)' = AllClean(art)
  BY <1>1, SameOutputs DEF AllClean
<1>7. QED
  BY <1>1, <1>2, <1>3, <1>4, <1>5, <1>6 DEF SealInv

LEMMA EncryptSeals == ASSUME SealInv, Encrypt PROVE SealInv'
<1>1. /\ DirectoryTypes /\ aesFile = {} /\ tarFile # {} /\ next \in Nat \ {0}
      /\ unsealed \/ \A art \in tarFile : Complete(art)
      /\ ~flags.noSanitize => \A art \in tarFile : AllClean(art)
      /\ UNCHANGED <<flags, collected, spoilt, next, temp, tarFile>> /\ scPc' = "main"
  BY DEF Encrypt, SealInv, Stays
<1>2. DirectoryTypes'
  BY <1>1, SameDirectory
<1>3. \A art : Complete(art)' = Complete(art) /\ AllClean(art)' = AllClean(art)
  BY <1>1, SameOutputs DEF AllClean
<1>4. CASE flags.noEncrypt \/ flags.password = ""
  <2>1. aesFile' = {} /\ unsealed' = (unsealed \/ ~flags.noEncrypt)
    BY <1>1, <1>4 DEF Encrypt
  <2>2. QED
    BY <1>1, <1>2, <1>3, <2>1 DEF SealInv
<1>5. CASE ~(flags.noEncrypt \/ flags.password = "")
  <2>1. PICK tar \in tarFile : \E part \in SUBSET DOMAIN tar :
          \/ /\ aesFile' = {Restrict(tar, part)}
             /\ unsealed' = (unsealed \/ part # DOMAIN tar)
          \/ unsealed' /\ UNCHANGED aesFile
    BY <1>5 DEF Encrypt
  <2>2. PICK part \in SUBSET DOMAIN tar :
          \/ /\ aesFile' = {Restrict(tar, part)}
             /\ unsealed' = (unsealed \/ part # DOMAIN tar)
          \/ unsealed' /\ UNCHANGED aesFile
    BY <2>1
  <2>3. ~flags.noSanitize => \A art \in aesFile' : AllClean(art)
    BY <1>1, <2>2, PartIsClean
  <2>4. ~unsealed' => \E art \in aesFile' : Complete(art)
    BY <1>1, <2>2, CopyIsComplete
  <2>5. QED
    BY <1>1, <1>2, <1>3, <1>5, <2>3, <2>4 DEF SealInv
<1>6. QED
  BY <1>4, <1>5

LEMMA AfterSeals == ASSUME SealInv, AfterCollect PROVE SealInv'
<1>1. /\ UNCHANGED <<flags, collected, spoilt, next, temp, tarFile, aesFile, unsealed, collectErr>>
      /\ scPc = "main" /\ (collectErr => scPc' = "fatal") /\ scPc' \in {"fatal", "done", "remove"}
  BY DEF AfterCollect, Stays
<1>2. DirectoryTypes' = DirectoryTypes
  BY <1>1, SameDirectory
<1>3. \A art : Complete(art)' = Complete(art) /\ AllClean(art)' = AllClean(art)
  BY <1>1, SameOutputs DEF AllClean
<1>4. QED
  BY <1>1, <1>2, <1>3 DEF SealInv

LEMMA RemoveSeals == ASSUME SealInv, RemoveTempFiles PROVE SealInv'
<1>1. UNCHANGED <<flags, collected, spoilt, next, aesFile, unsealed>> /\ scPc = "remove"
  BY DEF RemoveTempFiles, Stays
<1>2. \A art : Complete(art)' = Complete(art) /\ AllClean(art)' = AllClean(art)
  BY <1>1, SameOutputs DEF AllClean
<1>3. CASE scPc' = "fatal" /\ UNCHANGED <<temp, tarFile>>
  <2>1. DirectoryTypes' = DirectoryTypes
    BY <1>1, <1>3, SameDirectory
  <2>2. QED
    BY <1>1, <1>2, <1>3, <2>1 DEF SealInv
<1>4. ASSUME NEW stuck \in SUBSET DOMAIN temp, temp' = Restrict(temp, stuck),
             tarFile' = (IF flags.noEncrypt THEN tarFile ELSE {}), scPc' = "done"
      PROVE  SealInv'
  <2>1. DirectoryTypes
    BY DEF SealInv
  <2>2. DOMAIN temp' = stuck /\ temp' \in [stuck -> SomeFile]
    BY <1>4, <2>1, RestrictMeans DEF DirectoryTypes, Restrict
  <2>3. IsFiniteSet(stuck)
    BY <2>1, FS_Subset DEF DirectoryTypes
  <2>4. DirectoryTypes'
    BY <1>1, <2>1, <2>2, <2>3 DEF DirectoryTypes
  <2>5. QED
    BY <1>1, <1>2, <1>4, <2>4 DEF SealInv
<1>5. QED
  BY <1>3, <1>4 DEF RemoveTempFiles

LEMMA NextSeals == SealInv /\ [SecureNext]_scVars => SealInv'
<1> SUFFICES ASSUME SealInv, [SecureNext]_scVars PROVE SealInv'
  OBVIOUS
<1>1. CASE Params
  <2>1. /\ scPc = "params" /\ scPc' \in {"fatal", "run", AfterCommands}
        /\ UNCHANGED <<flags, temp, collected, spoilt, tarFile, aesFile, next>>
    BY <1>1 DEF Params, Stays
  <2>2. QED
    BY <2>1, StartSeals
<1>2. CASE Unparsable \/ RunEnds
  <2>1. /\ scPc = "run" /\ scPc' = AfterCommands
        /\ UNCHANGED <<flags, temp, collected, spoilt, tarFile, aesFile, next>>
    BY <1>2 DEF Unparsable, RunEnds, Stays
  <2>2. QED
    BY <2>1, StartSeals
<1>3. CASE UNCHANGED scVars
  <2>1. UNCHANGED <<flags, scPc, temp, collected, spoilt, tarFile, aesFile, next, unread,
                    unsealed, collectErr>>
    BY <1>3 DEF scVars
  <2>2. DirectoryTypes' = DirectoryTypes /\ Untouched' = Untouched /\ Complete(temp)' = Complete(temp)
        /\ AllClean(temp)' = AllClean(temp)
    BY <2>1, SameDirectory
  <2>3. \A art : Complete(art)' = Complete(art) /\ AllClean(art)' = AllClean(art)
    BY <2>1, SameOutputs DEF AllClean
  <2>4. PartlyClean' = PartlyClean /\ InOrder' = InOrder /\ Files' = Files /\ Numbered' = Numbered
    BY <2>1 DEF PartlyClean, InOrder, Files, Numbered, Pending, Exempt, Overwritten, Keeps, Versions
  <2>5. QED
    BY <2>1, <2>2, <2>3, <2>4 DEF SealInv
<1>4. QED
  BY <1>1, <1>2, <1>3, RunSeals, ListDirsSeals, SanitizeSeals, TarSeals, EncryptSeals,
     AfterSeals, RemoveSeals DEF SecureNext

(* pt-secure-collect, of any commands, files and lines and of any calls    *)
(* that fail: unless told not to sanitise it packs and encrypts nothing    *)
(* that was not sanitised; and when it ends well and no error of packing   *)
(* or encrypting was dropped, what it leaves holds every output of its     *)
(* commands, but those begun anew and those that lost lines by an ignored  *)
(* error.                                                                  *)
THEOREM ArchiveIsKept == SecureSpec => []ArchiveIsCleanAndWhole
<1>1. SealInv => ArchiveIsCleanAndWhole
  BY DEF SealInv, ArchiveIsCleanAndWhole, AllClean
<1>2. QED
  BY <1>1, SecureInitSeals, NextSeals, PTL DEF SecureSpec

-----------------------------------------------------------------------------
(***************************************************************************)
(* pt-mongodb-summary                                                      *)
(***************************************************************************)

SummarySpec == SummaryInit /\ [][SummaryNext]_sumVars

(* Members as MembersAreReal wants them. *)
Real(c, listed) ==
    \A h \in DOMAIN listed :
       /\ listed[h].primary => c[h].state = Primary
       /\ HasStatus(c, h) /\ Answers(c, h, "serverStatus") => listed[h].set = c[h].set
Entries(c) == {Told(c, h, g) : h \in DOMAIN c, g \in DOMAIN c} \cup {Unknown(c, h) : h \in DOMAIN c}
Listings(c) == {l \in UNION {[S -> Entries(c)] : S \in SUBSET DOMAIN c} : Real(c, l)}

LEMMA AskedIsReal ==
    ASSUME NEW c, NEW listed \in Listings(c), NEW h \in DOMAIN c
    PROVE  /\ AskHost(c, listed, h) \in Listings(c)
           /\ h \in DOMAIN AskHost(c, listed, h)
           /\ DOMAIN listed \subseteq DOMAIN AskHost(c, listed, h)
<1> DEFINE l == AskHost(c, listed, h)
           E == Entries(c)
<1>1. PICK S \in SUBSET DOMAIN c : listed \in [S -> E]
  BY DEF Listings
<1>2. Real(c, listed) /\ DOMAIN listed = S
  BY <1>1 DEF Listings
<1>3. CASE HasStatus(c, h)
  <2> DEFINE new == NewMembers(c, h, listed)
  <2>1. new \subseteq DOMAIN c /\ \A g \in new : c[g].set = c[h].set
    BY DEF NewMembers, SetOf
  <2>2. h \in DOMAIN listed \cup new
    BY <1>3 DEF NewMembers, SetOf, HasStatus
  <2> HIDE DEF new
  <2>3. l = [g \in S \cup new |-> IF g \in new THEN Told(c, h, g) ELSE listed[g]]
    BY <1>2, <1>3 DEF AskHost, new
  <2>4. \A g \in new : Told(c, h, g) \in E
    BY <2>1 DEF Entries
  <2> HIDE DEF E, l
  <2>5. l \in [S \cup new -> E] /\ S \cup new \in SUBSET DOMAIN c
    BY <1>1, <2>1, <2>3, <2>4
  <2>6. Real(c, l)
    <3>1. SUFFICES ASSUME NEW g \in S \cup new
                   PROVE  /\ l[g].primary => c[g].state = Primary
                          /\ HasStatus(c, g) /\ Answers(c, g, "serverStatus") => l[g].set = c[g].set
      BY <2>5 DEF Real
    <3>2. CASE g \in new
      <4>1. l[g] = Told(c, h, g) /\ c[g].set = c[h].set
        BY <2>1, <2>3, <3>2
      <4>2. Told(c, h, g).primary = (c[g].state = Primary) /\ Told(c, h, g).set = c[h].set
        BY DEF Told
      <4>3. QED
        BY <4>1, <4>2
    <3>3. CASE g \notin new
      BY <1>2, <2>3, <3>1, <3>3 DEF Real
    <3>4. QED
      BY <3>2, <3>3
  <2>7. QED
    BY <1>2, <2>2, <2>5, <2>6 DEF Listings, l, E
<1>4. CASE ~HasStatus(c, h)
  <2>1. l = [g \in S \cup {h} |-> IF g = h THEN Unknown(c, h) ELSE listed[g]]
    BY <1>2, <1>4 DEF AskHost
  <2>2. Unknown(c, h) \in E /\ Unknown(c, h).primary = FALSE
    <3>1. Unknown(c, h) \in E
      BY DEF Entries
    <3>2. Unknown(c, h).primary = FALSE
      BY DEF Unknown
    <3>3. QED
      BY <3>1, <3>2
  <2> HIDE DEF E, l
  <2>3. l \in [S \cup {h} -> E] /\ S \cup {h} \in SUBSET DOMAIN c
    BY <1>1, <2>1, <2>2
  <2>4. Real(c, l)
    <3>1. SUFFICES ASSUME NEW g \in S \cup {h}
                   PROVE  /\ l[g].primary => c[g].state = Primary
                          /\ HasStatus(c, g) /\ Answers(c, g, "serverStatus") => l[g].set = c[g].set
      BY <2>3 DEF Real
    <3>2. CASE g = h
      BY <1>4, <2>1, <2>2, <3>2
    <3>3. CASE g # h
      BY <1>2, <2>1, <3>1, <3>3 DEF Real
    <3>4. QED
      BY <3>2, <3>3
  <2>5. QED
    BY <1>2, <2>3, <2>4 DEF Listings, l, E
<1>5. QED
  BY <1>3, <1>4

LEMMA HostsAreKnown ==
    ASSUME NEW c, NEW h
    PROVE  GetHostnames(c, h).hosts \subseteq DOMAIN c
  BY DEF GetHostnames, SetOf, ShardMapHosts, InRole

(* GetReplicasetMembers lists every host it asked, and of those that gave  *)
(* their status nothing wrong.                                             *)
LEMMA ListedAreReal ==
    ASSUME NEW c, IsFiniteSet(DOMAIN c), NEW h
    PROVE  /\ GetReplicasetMembers(c, h).members \in Listings(c)
           /\ GetHostnames(c, h).hosts \subseteq DOMAIN GetReplicasetMembers(c, h).members
<1> DEFINE S == GetHostnames(c, h).hosts
           hosts == Sorted(S)
           A == Listings(c)
           N == Len(hosts)
           body == [p \in A \X (1 .. N) |-> AskHost(c, p[1], hosts[p[2]])]
           Eq(f) == f = [n \in 0 .. N |-> IF n = 0 THEN << >> ELSE AskHost(c, f[n - 1], hosts[n])]
           asked == CHOOSE f : Eq(f)
<1>1. S \subseteq DOMAIN c
  BY HostsAreKnown
<1>2. Lists(hosts, S)
  <2> HIDE DEF S
  <2>1. IsFiniteSet(S)
    BY <1>1, FS_Subset
  <2>2. QED
    BY <2>1, Listing DEF Sorted
<1>3. GetReplicasetMembers(c, h).members = asked[N]
  BY DEF GetReplicasetMembers
<1> HIDE DEF S, hosts
<1>4. N \in Nat /\ \A n \in 1 .. N : hosts[n] \in DOMAIN c
  <2>1. hosts \in Seq(S)
    BY <1>2 DEF Lists
  <2>2. N \in Nat /\ \A n \in 1 .. N : hosts[n] \in S
    BY <2>1
  <2>3. QED
    BY <1>1, <2>2
<1>5. << >> \in A
  <2>1. << >> \in [{} -> Entries(c)] /\ {} \in SUBSET DOMAIN c /\ DOMAIN << >> = {}
    OBVIOUS
  <2>2. QED
    BY <2>1 DEF Listings, Real
<1> HIDE DEF A, N
<1>6. body \in [A \X (1 .. N) -> A]
  <2>1. ASSUME NEW p \in A \X (1 .. N) PROVE AskHost(c, p[1], hosts[p[2]]) \in A
    <3>1. p[1] \in Listings(c) /\ hosts[p[2]] \in DOMAIN c
      BY <1>4 DEF A
    <3>2. QED
      BY <3>1, AskedIsReal DEF A
  <2>2. QED
    BY <2>1
<1>7. PICK f : Loops(f, A, << >>, N, body)
  <2> HIDE DEF body
  <2>1. QED
    BY <1>4, <1>5, <1>6, Loop
<1>8. /\ f \in [0 .. N -> A] /\ f[0] = << >>
      /\ \A n \in 1 .. N : f[n] = AskHost(c, f[n - 1], hosts[n])
  <2>1. f \in [0 .. N -> A] /\ f[0] = << >>
        /\ \A n \in 1 .. N : f[n] = body[<<f[n - 1], n>>]
    <3> HIDE DEF body
    <3>1. QED
      BY <1>7 DEF Loops
  <2>2. ASSUME NEW n \in 1 .. N PROVE f[n] = AskHost(c, f[n - 1], hosts[n])
    <3>1. <<f[n - 1], n>> \in A \X (1 .. N)
      BY <1>4, <2>1
    <3>2. body[<<f[n - 1], n>>] = AskHost(c, f[n - 1], hosts[n])
      BY <3>1
    <3>3. QED
      BY <2>1, <3>2
  <2>3. QED
    BY <2>1, <2>2
<1> HIDE DEF body
<1>9. Eq(f)
  <2> DEFINE e == [n \in 0 .. N |-> IF n = 0 THEN << >> ELSE AskHost(c, f[n - 1], hosts[n])]
  <2>1. ASSUME NEW n \in 0 .. N PROVE f[n] = e[n]
    <3>1. n = 0 \/ n \in 1 .. N
      BY <1>4
    <3>2. e[n] = IF n = 0 THEN << >> ELSE AskHost(c, f[n - 1], hosts[n])
      OBVIOUS
    <3> HIDE DEF e
    <3>3. QED
      BY <1>8, <3>1, <3>2
  <2>2. e = [n \in 0 .. N |-> e[n]]
    OBVIOUS
  <2> HIDE DEF e
  <2>3. f = e
    BY <1>8, <2>1, <2>2
  <2>4. QED
    BY <2>3 DEF e
<1>10. Eq(asked)
  <2> HIDE DEF Eq
  <2>1. QED
    BY <1>9
<1> HIDE DEF asked
<1>11. \A n \in 0 .. N : asked[n] = IF n = 0 THEN << >> ELSE AskHost(c, asked[n - 1], hosts[n])
  BY <1>10
<1> HIDE DEF Eq
<1> DEFINE Known(l, n) == l \in A /\ \A i \in 1 .. n : hosts[i] \in DOMAIN l
           T == {n \in 0 .. N : Known(asked[n], n)}
<1>12. 0 \in T
  <2>1. 0 \in 0 .. N
    BY <1>4
  <2>2. Known(asked[0], 0)
    BY <1>5, <1>11, <2>1
  <2> HIDE DEF Known
  <2>3. QED
    BY <2>1, <2>2
<1>13. ASSUME NEW n \in 1 .. N, n - 1 \in T PROVE n \in T
  <2>1. n \in 0 .. N /\ n # 0 /\ Known(asked[n - 1], n - 1)
    <3> HIDE DEF Known
    <3>1. QED
      BY <1>4, <1>13
  <2> PICK old : old = asked[n - 1]
    OBVIOUS
  <2> PICK new : new = asked[n]
    OBVIOUS
  <2>2. new = AskHost(c, old, hosts[n])
    BY <1>11, <2>1
  <2>3. old \in A /\ \A i \in 1 .. n - 1 : hosts[i] \in DOMAIN old
    BY <2>1
  <2>4. new \in A /\ hosts[n] \in DOMAIN new /\ DOMAIN old \subseteq DOMAIN new
    <3>1. hosts[n] \in DOMAIN c /\ old \in Listings(c)
      BY <1>4, <2>3 DEF A
    <3>2. QED
      BY <2>2, <3>1, AskedIsReal DEF A
  <2>5. \A i \in 1 .. n : i = n \/ i \in 1 .. n - 1
    BY <1>4
  <2>6. Known(new, n)
    BY <2>3, <2>4, <2>5
  <2> HIDE DEF Known
  <2>7. QED
    BY <2>1, <2>6
<1>14. 0 .. N \subseteq T
  <2> HIDE DEF T
  <2>1. QED
    BY <1>4, <1>12, <1>13, UpTo
<1>15. Known(asked[N], N)
  <2> HIDE DEF Known
  <2>1. N \in 0 .. N
    BY <1>4
  <2>2. QED
    BY <1>14, <2>1
<1>16. S \subseteq DOMAIN asked[N]
  <2>1. \A x \in S : \E i \in 1 .. N : hosts[i] = x
    BY <1>2 DEF Lists, N
  <2>2. QED
    BY <1>15, <2>1
<1>17. QED
  BY <1>3, <1>15, <1>16 DEF A, S

Reading == [OpNames -> Nat]
Statistic == [total : Int, min : Int, max : Int]

(* While main samples, its base is the last reading, and from the second   *)
(* reading on it has a statistic.                                          *)
Sampling ==
    /\ readings = << >> => previous = << >> /\ ops = << >>
    /\ readings # << >> => previous = Last(readings)
    /\ Len(readings) = 1 => ops = << >>
    /\ Len(readings) >= 2 => ops \in [OpNames -> Statistic]

(* A server that does not restart only counts up. *)
CountsUp ==
    ~restarted /\ readings # << >> =>
        /\ \A n \in OpNames : live[n] >= Last(readings)[n]
        /\ \A i \in 1 .. Len(readings) - 1 : \A n \in OpNames : readings[i + 1][n] >= readings[i][n]

SummaryInv ==
    /\ site \in SummaryPlaces /\ live \in Reading /\ readings \in Seq(Reading)
    /\ catalogue \in Catalogues /\ lost \in Nat
    /\ sumPc \in {"mongos", "host", "members", "ops"} => CountsUp
    /\ OpNames # {} => /\ sumPc \in {"mongos", "host", "members", "ops"} => Sampling
                       /\ ops # << >> => Len(readings) >= 2
    /\ OpsAddUp /\ MembersAreReal /\ OplogIsShortest /\ ClusterIsCounted

SectionSet(new, name, value) ==
    /\ DOMAIN new = DOMAIN sections \cup {name} /\ new[name] = value
    /\ \A n \in DOMAIN sections : n # name => new[n] = sections[n]

LEMMA SectionMeans ==
    ASSUME NEW name, NEW value, Section(name, value)
    PROVE  SectionSet(sections', name, value)
  BY DEF Section, SectionSet

(* What a section with another name leaves. *)
LEMMA OtherSection ==
    ASSUME SummaryInv, UNCHANGED <<site, catalogue>>, lost' \in Nat, lost' >= lost,
           NEW name, NEW value, SectionSet(sections', name, value)
    PROVE  /\ name # "members" => MembersAreReal'
           /\ name # "oplog" => OplogIsShortest'
           /\ name # "cluster" => ClusterIsCounted'
<1>1. MembersAreReal /\ OplogIsShortest /\ ClusterIsCounted /\ lost \in Nat
  BY DEF SummaryInv
<1>2. Reached' = Reached
  BY DEF Reached
<1>3. \A n \in DOMAIN sections : n # name => n \in DOMAIN sections' /\ sections'[n] = sections[n]
  BY DEF SectionSet
<1>4. \A n \in DOMAIN sections' : n # name => n \in DOMAIN sections
  BY DEF SectionSet
<1>5. ASSUME name # "members" PROVE MembersAreReal'
  <2>1. "members" \in DOMAIN sections' => "members" \in DOMAIN sections
                                          /\ sections'["members"] = sections["members"]
    BY <1>3, <1>4, <1>5
  <2>2. QED
    BY <1>1, <1>2, <2>1 DEF MembersAreReal
<1>6. ASSUME name # "oplog" PROVE OplogIsShortest'
  <2>1. "oplog" \in DOMAIN sections' => "oplog" \in DOMAIN sections
                                        /\ sections'["oplog"] = sections["oplog"]
    BY <1>3, <1>4, <1>6
  <2>2. QED
    BY <1>1, <1>2, <2>1 DEF OplogIsShortest
<1>7. ASSUME name # "cluster" PROVE ClusterIsCounted'
  <2>1. "cluster" \in DOMAIN sections' => "cluster" \in DOMAIN sections
                                          /\ sections'["cluster"] = sections["cluster"]
    BY <1>3, <1>4, <1>7
  <2>2. Collections' = Collections /\ \A c : Sharded(c)' = Sharded(c)
    BY DEF Collections, Listed, Sharded
  <2>3. lost' = 0 => lost = 0
    BY <1>1
  <2> HIDE DEF Collections, Sharded
  <2>4. QED
    BY <1>1, <2>1, <2>2, <2>3 DEF ClusterIsCounted
<1>8. QED
  BY <1>5, <1>6, <1>7

LEMMA SameOps ==
    ASSUME SummaryInv, UNCHANGED <<readings, restarted, previous, ops>>
    PROVE  OpsAddUp' /\ Sampling' = Sampling
<1>1. OpsAddUp
  BY DEF SummaryInv
<1>2. OpsAddUp' = OpsAddUp
  BY DEF OpsAddUp
<1>3. QED
  BY <1>1, <1>2 DEF Sampling

Later == {"security", "oplog", "cluster", "balancer", "printed", "exit"}

LEMMA SectionKeepsSummary ==
    ASSUME SummaryInv, Same, lost' \in Nat, lost' >= lost,
           NEW name, NEW value, SectionSet(sections', name, value),
           name \notin {"members", "oplog", "cluster"},
           \/ sumPc \in {"mongos", "host"} /\ sumPc' \in {"host", "members", "exit"}
           \/ sumPc' \in Later
    PROVE  SummaryInv'
<1>1. UNCHANGED <<site, catalogue, live, readings, restarted, previous, ops>>
  BY DEF Same, world, opsState
<1>2. OpsAddUp' /\ Sampling' = Sampling /\ CountsUp' = CountsUp
  BY <1>1, SameOps DEF CountsUp
<1>3. MembersAreReal' /\ OplogIsShortest' /\ ClusterIsCounted'
  BY <1>1, OtherSection
<1>4. QED
  BY <1>1, <1>2, <1>3 DEF SummaryInv, Later

LEMMA CallsLost ==
    ASSUME lost \in Nat
    PROVE  /\ \A ok : Call(ok) => lost' \in Nat /\ lost' >= lost
           /\ UNCHANGED lost => lost' \in Nat /\ lost' >= lost
  BY DEF Call

LEMMA FiniteCatalogue ==
    ASSUME catalogue \in Catalogues
    PROVE  IsFiniteSet(Collections)
<1> DEFINE of(d) == {<<d, i>> : i \in 1 .. Len(catalogue[d].colls)}
           all == {of(d) : d \in Listed}
<1>1. IsFiniteSet(Listed)
  <2>1. IsFiniteSet(DOMAIN catalogue) /\ Listed \subseteq DOMAIN catalogue
    BY SummaryAssumption DEF Listed
  <2>2. QED
    BY <2>1, FS_Subset
<1>2. IsFiniteSet(all)
  <2> DEFINE f == [d \in Listed |-> of(d)]
  <2>1. f \in Surjection(Listed, all)
    BY DEF Surjection
  <2> HIDE DEF f, all
  <2>2. QED
    BY <1>1, <2>1, FS_Surjection
<1>3. ASSUME NEW d \in Listed PROVE IsFiniteSet(of(d))
  <2> DEFINE n == Len(catalogue[d].colls)
             f == [i \in 1 .. n |-> <<d, i>>]
  <2>1. n \in Nat
    BY SummaryAssumption DEF Listed
  <2>2. IsFiniteSet(1 .. n)
    BY <2>1, FS_Interval
  <2>3. f \in Surjection(1 .. n, of(d))
    BY DEF Surjection
  <2> HIDE DEF f, of, n
  <2>4. QED
    BY <2>2, <2>3, FS_Surjection
<1>4. IsFiniteSet(UNION all)
  <2>1. \A T \in all : IsFiniteSet(T)
    BY <1>3
  <2> HIDE DEF all
  <2>2. QED
    BY <1>2, <2>1, FS_UNION
<1>5. QED
  BY <1>4 DEF Collections

LEMMA SummaryStarts == SummaryInit => SummaryInv
<1> SUFFICES ASSUME SummaryInit PROVE SummaryInv
  OBVIOUS
<1>1. /\ site \in SummaryPlaces /\ live = [n \in OpNames |-> 0] /\ readings = << >>
      /\ previous = << >> /\ ops = << >> /\ sections = << >>
      /\ catalogue \in Catalogues /\ lost = 0
  BY DEF SummaryInit
<1>2. live \in Reading /\ readings \in Seq(Reading) /\ Len(readings) = 0
  BY <1>1 DEF Reading
<1>3. DOMAIN sections = {}
  BY <1>1
<1>4. OpsAddUp /\ MembersAreReal /\ OplogIsShortest /\ ClusterIsCounted
  BY <1>1, <1>3 DEF OpsAddUp, MembersAreReal, OplogIsShortest, ClusterIsCounted
<1>5. Sampling /\ CountsUp
  BY <1>1, <1>2 DEF Sampling, CountsUp
<1>6. QED
  BY <1>1, <1>2, <1>4, <1>5 DEF SummaryInv

LEMMA MembersKeep == ASSUME SummaryInv, Members PROVE SummaryInv'
<1> DEFINE value == GetReplicasetMembers(site.cluster, site.host).members
<1>1. /\ UNCHANGED <<site, catalogue, live, readings, restarted, previous, ops, lost>>
      /\ sumPc = "members" /\ sumPc' = "ops" /\ lost \in Nat
  BY DEF Members, Same, world, opsState, SummaryInv
<1>2. SectionSet(sections', "members", value)
  BY SectionMeans DEF Members
<1>3. /\ value \in Listings(site.cluster)
      /\ GetHostnames(site.cluster, site.host).hosts \subseteq DOMAIN value
  <2>1. IsFiniteSet(DOMAIN site.cluster)
    BY SummaryAssumption DEF SummaryInv
  <2>2. QED
    BY <2>1, ListedAreReal
<1> HIDE DEF value
<1>4. sections'["members"] = value /\ Real(site.cluster, value)
  BY <1>2, <1>3 DEF SectionSet, Listings
<1>5. MembersAreReal'
  BY <1>1, <1>3, <1>4 DEF MembersAreReal, Real, Reached
<1>6. OplogIsShortest' /\ ClusterIsCounted'
  <2>1. lost' \in Nat /\ lost' >= lost
    BY <1>1
  <2>2. QED
    BY <1>1, <1>2, <2>1, OtherSection
<1>7. OpsAddUp' /\ Sampling' = Sampling /\ CountsUp' = CountsUp
  BY <1>1, SameOps DEF CountsUp
<1>8. QED
  BY <1>1, <1>5, <1>6, <1>7 DEF SummaryInv

LEMMA OplogKeeps == ASSUME SummaryInv, Oplog PROVE SummaryInv'
<1>1. UNCHANGED <<site, catalogue, live, readings, restarted, previous, ops>> /\ sumPc' = "cluster"
  BY DEF Oplog, Same, world, opsState
<1>lost. lost' \in Nat /\ lost' >= lost
  BY CallsLost DEF Oplog, SummaryInv
<1>2. OpsAddUp' /\ Sampling' = Sampling
  BY <1>1, SameOps
<1>3. PICK value : /\ SectionSet(sections', "oplog", value)
                   /\ value = << >> \/ \E w \in Shortest : value = <<w>>
  <2>1. Section("oplog", << >>) \/ \E w \in Shortest : Section("oplog", <<w>>)
    BY DEF Oplog
  <2>2. QED
    BY <2>1, SectionMeans
<1>4. MembersAreReal' /\ ClusterIsCounted'
  BY <1>1, <1>lost, <1>3, OtherSection
<1>5. sections'["oplog"] = value
  BY <1>3 DEF SectionSet
<1>6. ASSUME NEW w \in Shortest, value = <<w>>, NEW h \in Reached, HasStatus(site.cluster, h)
      PROVE  value[1].hours <= site.cluster[h].window
  <2>1. [host |-> h, hours |-> site.cluster[h].window] \in Windows
    BY <1>6 DEF Windows, Reached
  <2>2. w.hours <= [host |-> h, hours |-> site.cluster[h].window].hours
    BY <2>1 DEF Shortest
  <2>3. QED
    BY <1>6, <2>2
<1>7. Reached' = Reached
  BY <1>1 DEF Reached
<1>8. OplogIsShortest'
  BY <1>1, <1>3, <1>5, <1>6, <1>7 DEF OplogIsShortest
<1>9. QED
  BY <1>1, <1>lost, <1>2, <1>4, <1>8 DEF SummaryInv

(* Subtracting the sharded collections from all leaves the others. *)
LEMMA ClusterKeeps == ASSUME SummaryInv, Cluster PROVE SummaryInv'
<1>1. UNCHANGED <<site, catalogue, live, readings, restarted, previous, ops>> /\ sumPc' = "balancer"
  BY DEF Cluster, Same, world, opsState
<1>2. OpsAddUp'
  BY <1>1, SameOps
<1>3. lost' \in Nat /\ lost' >= lost
  BY CallsLost DEF Cluster, SummaryInv
<1>4. CASE UNCHANGED <<sections, lost>>
  <2>1. UNCHANGED <<MembersAreReal, OplogIsShortest, ClusterIsCounted>>
    BY <1>1, <1>4 DEF MembersAreReal, OplogIsShortest, Reached, ClusterIsCounted, Collections,
       Listed, Sharded
  <2>2. QED
    BY <1>1, <1>2, <1>3, <2>1 DEF SummaryInv
<1>5. ASSUME NEW value, Section("cluster", value),
             \/ value = << >>
             \/ \E seen \in BrokenOff : Call(seen = Collections) /\ value = <<ClusterInfo(seen)>>
      PROVE  SummaryInv'
  <2>1. SectionSet(sections', "cluster", value)
    BY <1>5, SectionMeans
  <2>2. MembersAreReal' /\ OplogIsShortest'
    BY <1>1, <1>3, <2>1, OtherSection
  <2>3. sections'["cluster"] = value /\ "cluster" \in DOMAIN sections'
    BY <2>1 DEF SectionSet
  <2>4. Collections' = Collections /\ \A c : Sharded(c)' = Sharded(c)
    BY <1>1 DEF Collections, Listed, Sharded
  <2>5. ClusterIsCounted'
    <3>1. CASE value = << >>
      BY <2>3, <3>1 DEF ClusterIsCounted
    <3>2. ASSUME NEW seen \in BrokenOff, Call(seen = Collections), value = <<ClusterInfo(seen)>>
          PROVE  ClusterIsCounted'
      <4> DEFINE sharded == {c \in seen : Sharded(c)}
                 others == seen \ sharded
                 info == ClusterInfo(seen)
      <4>1. seen \subseteq Collections /\ IsFiniteSet(seen)
        BY FiniteCatalogue, FS_Subset DEF BrokenOff, SummaryInv
      <4>2. /\ Cardinality(seen) \in Nat /\ Cardinality(sharded) \in Nat
            /\ Cardinality(others) = Cardinality(seen) - Cardinality(sharded)
        <5>1. sharded \subseteq seen /\ IsFiniteSet(sharded)
          BY <4>1, FS_Subset
        <5>2. seen \cap sharded = sharded
          BY <5>1
        <5> HIDE DEF sharded
        <5>3. QED
          BY <4>1, <5>1, <5>2, FS_CardinalityType, FS_Difference
      <4>3. /\ info.shardedSize = sharded /\ info.unshardedSize = others
            /\ info.colls = Cardinality(seen) /\ info.shardedColls = Cardinality(sharded)
            /\ info.unshardedColls = Cardinality(seen) - Cardinality(sharded)
        BY DEF ClusterInfo
      <4>4. lost' = 0 => seen = Collections
        BY <3>2 DEF Call, SummaryInv
      <4>5. sections'["cluster"][1] = info
        BY <2>3, <3>2
      <4>6. seen = sharded \cup others /\ others = seen \ sharded
        OBVIOUS
      <4>7. sharded = {c \in seen : Sharded(c)}
        OBVIOUS
      <4> HIDE DEF info, sharded, others
      <4>8. /\ info.shardedSize \cup info.unshardedSize = seen
            /\ Cardinality(seen \ info.shardedSize) = info.unshardedColls
            /\ info.shardedColls + info.unshardedColls = info.colls
        <5>1. info.shardedSize \cup info.unshardedSize = seen /\ seen \ info.shardedSize = others
          BY <4>3, <4>6
        <5>2. Cardinality(others) = info.unshardedColls
          BY <4>2, <4>3
        <5>3. info.shardedColls + info.unshardedColls = info.colls
          BY <4>2, <4>3
        <5>4. QED
          BY <5>1, <5>2, <5>3
      <4>9. QED
        BY <2>4, <4>1, <4>3, <4>4, <4>5, <4>7, <4>8 DEF ClusterIsCounted
    <3>3. QED
      BY <1>5, <3>1, <3>2
  <2>6. QED
    BY <1>1, <1>2, <1>3, <2>2, <2>5 DEF SummaryInv
<1>6. QED
  BY <1>4, <1>5 DEF Cluster

LEMMA SampleKeeps == ASSUME SummaryInv, Sample PROVE SummaryInv'
<1>1. /\ UNCHANGED <<site, catalogue, live, restarted, sections, lost>>
      /\ sumPc = "ops" /\ sumPc' \in {"ops", "security"}
      /\ readings' = Append(readings, live) /\ previous' = live /\ ops' = Sampled(live)
  BY DEF Sample, world, Base
<1>2. live \in Reading /\ readings \in Seq(Reading) /\ OpsAddUp
  BY DEF SummaryInv
<1> DEFINE m == Len(readings)
<1>3. /\ m \in Nat /\ readings' \in Seq(Reading) /\ Len(readings') = m + 1
      /\ \A i \in 1 .. m : readings'[i] = readings[i]
      /\ readings'[m + 1] = live /\ m + 1 \in 1 .. Len(readings')
  BY <1>1, <1>2
<1>4. /\ MembersAreReal' /\ OplogIsShortest' /\ ClusterIsCounted'
      /\ catalogue' \in Catalogues /\ lost' \in Nat
  <2>1. MembersAreReal /\ OplogIsShortest /\ ClusterIsCounted /\ Reached' = Reached
    BY <1>1 DEF SummaryInv, Reached
  <2>2. Collections' = Collections /\ \A c : Sharded(c)' = Sharded(c)
    BY <1>1 DEF Collections, Listed, Sharded
  <2>3. QED
    BY <1>1, <2>1, <2>2 DEF MembersAreReal, OplogIsShortest, ClusterIsCounted, SummaryInv
<1>up. CountsUp'
  <2>1. CountsUp
    BY <1>1 DEF SummaryInv
  <2>2. SUFFICES ASSUME ~restarted
                 PROVE  /\ \A n \in OpNames : live[n] >= Last(readings')[n]
                        /\ \A i \in 1 .. m : \A n \in OpNames : readings'[i + 1][n] >= readings'[i][n]
    BY <1>1, <1>3 DEF CountsUp
  <2>3. Last(readings') = live /\ \A n \in OpNames : live[n] >= live[n]
    BY <1>2, <1>3 DEF Last, Reading
  <2>4. ASSUME NEW i \in 1 .. m, NEW n \in OpNames PROVE readings'[i + 1][n] >= readings'[i][n]
    <3>1. readings # << >>
      BY <1>2, <1>3
    <3>2. CASE i = m
      <4>1. readings'[i + 1] = live /\ readings'[i] = Last(readings)
        BY <1>3, <3>2 DEF Last
      <4>2. QED
        BY <2>1, <2>2, <3>1, <4>1 DEF CountsUp
    <3>3. CASE i # m
      <4>1. i \in 1 .. m - 1 /\ i + 1 \in 1 .. m
        BY <1>3, <3>3
      <4>2. readings'[i + 1] = readings[i + 1] /\ readings'[i] = readings[i]
        BY <1>3, <4>1
      <4>3. QED
        BY <2>1, <2>2, <3>1, <4>1, <4>2 DEF CountsUp
    <3>4. QED
      BY <3>2, <3>3
  <2>5. QED
    BY <2>3, <2>4
<1>5. CASE OpNames = {}
  <2>1. OpsAddUp'
    BY <1>5 DEF OpsAddUp
  <2>2. QED
    BY <1>1, <1>2, <1>3, <1>4, <1>up, <1>5, <2>1 DEF SummaryInv
<1>6. CASE OpNames # {}
  <2> PICK e : e \in OpNames
    BY <1>6
  <2>1. Sampling
    BY <1>1, <1>6 DEF SummaryInv
  <2>2. live # << >>
    BY <1>2 DEF Reading
  <2>3. Last(readings') = live
    BY <1>3 DEF Last
  <2>4. CASE m = 0
    <3>1. previous = << >> /\ ops = << >>
      BY <1>2, <2>1, <2>4 DEF Sampling
    <3>2. ops' = << >>
      BY <1>1, <3>1 DEF Sampled
    <3>3. Sampling' /\ OpsAddUp'
      BY <1>1, <1>3, <2>3, <2>4, <3>2 DEF Sampling, OpsAddUp
    <3>4. QED
      BY <1>1, <1>2, <1>3, <1>4, <1>up, <3>2, <3>3 DEF SummaryInv
  <2>5. CASE m >= 1
    <3>1. /\ m \in 1 .. m /\ previous = readings[m] /\ previous \in Reading /\ previous # << >>
      <4>1. m \in 1 .. m /\ readings # << >>
        BY <1>2, <1>3, <2>5
      <4>2. previous = readings[m]
        BY <2>1, <4>1 DEF Sampling, Last
      <4>3. readings[m] \in Reading
        BY <1>2, <4>1
      <4>4. QED
        BY <4>1, <4>2, <4>3 DEF Reading
    <3> DEFINE gain(i, n) == readings'[i + 1][n] - readings'[i][n]
    <3>2. \A n \in OpNames : Gain(live, n) \in Int /\ Gain(live, n) = gain(m, n)
      <4>1. ASSUME NEW n \in OpNames
            PROVE  Gain(live, n) \in Int /\ Gain(live, n) = gain(m, n)
        <5>1. live[n] \in Nat /\ previous[n] \in Nat
          BY <1>2, <3>1 DEF Reading
        <5>2. readings'[m + 1] = live /\ readings'[m] = previous
          BY <1>3, <3>1
        <5>3. gain(m, n) = live[n] - previous[n]
          BY <5>2
        <5>4. QED
          BY <5>1, <5>3 DEF Gain
      <4>2. QED
        BY <4>1
    <3>up. ASSUME NEW n \in OpNames, NEW i \in 1 .. m, ~restarted'
          PROVE  gain(i, n) >= 0
      <4>1. readings'[i] \in Reading /\ readings'[i + 1] \in Reading
        <5>1. i \in 1 .. Len(readings') /\ i + 1 \in 1 .. Len(readings')
          BY <1>3
        <5>2. QED
          BY <1>3, <5>1
      <4>2. readings'[i + 1][n] >= readings'[i][n]
        <5>1. readings' # << >> /\ i \in 1 .. Len(readings') - 1
          BY <1>3
        <5>2. QED
          BY <1>up, <3>up, <5>1 DEF CountsUp
      <4>3. QED
        BY <4>1, <4>2 DEF Reading
    <3>3. CASE m = 1
      <4>1. ops = << >>
        BY <2>1, <3>3 DEF Sampling
      <4>2. ops' = [n \in OpNames |-> [total |-> Gain(live, n), min |-> Gain(live, n),
                                       max |-> Gain(live, n)]]
        BY <1>1, <3>1, <4>1 DEF Sampled
      <4>3. ops' \in [OpNames -> Statistic]
        BY <3>2, <4>2 DEF Statistic
      <4>4. ASSUME NEW n \in OpNames
            PROVE  LET gains == {gain(i, n) : i \in 1 .. Len(readings') - 1}
                   IN  /\ ops'[n].total = Last(readings')[n] - readings'[1][n]
                       /\ ops'[n].min \in gains /\ ops'[n].max \in gains
                       /\ \A g \in gains : ops'[n].min <= g /\ g <= ops'[n].max
                       /\ ~restarted' => ops'[n].min >= 0
        <5>1. /\ ops'[n].total = Gain(live, n) /\ ops'[n].min = Gain(live, n)
              /\ ops'[n].max = Gain(live, n)
          BY <4>2
        <5>2. 1 .. Len(readings') - 1 = {1}
          BY <1>3, <3>3
        <5>3. Gain(live, n) = gain(1, n) /\ Gain(live, n) \in Int
          BY <3>2, <3>3
        <5>4. {gain(i, n) : i \in 1 .. Len(readings') - 1} = {Gain(live, n)}
          BY <5>2, <5>3
        <5>5. Last(readings')[n] - readings'[1][n] = Gain(live, n)
          BY <1>3, <2>3, <3>1, <3>3 DEF Gain
        <5> DEFINE gains == {gain(i, n) : i \in 1 .. Len(readings') - 1}
        <5>6. gains = {Gain(live, n)} /\ Gain(live, n) \in Int
          BY <5>3, <5>4
        <5> HIDE DEF gains
        <5>7. /\ ops'[n].min \in gains /\ ops'[n].max \in gains
              /\ \A g \in gains : ops'[n].min <= g /\ g <= ops'[n].max
          BY <5>1, <5>6
        <5>8. ops'[n].total = Last(readings')[n] - readings'[1][n]
          BY <5>1, <5>5
        <5>9. ~restarted' => ops'[n].min >= 0
          BY <3>3, <3>up, <5>1, <5>3
        <5>10. QED
          BY <5>7, <5>8, <5>9 DEF gains
      <4>5. OpsAddUp'
        BY <4>4 DEF OpsAddUp
      <4>6. Sampling'
        BY <1>1, <1>3, <2>3, <3>3, <4>3 DEF Sampling
      <4>7. QED
        BY <1>1, <1>2, <1>3, <1>4, <1>up, <3>3, <4>5, <4>6 DEF SummaryInv
    <3>4. CASE m >= 2
      <4>1. ops \in [OpNames -> Statistic] /\ ops # << >>
        BY <2>1, <3>4 DEF Sampling
      <4>2. ops' = [n \in OpNames |->
                      LET g == Gain(live, n)
                      IN  [total |-> ops[n].total + g,
                           max |-> IF g > ops[n].max THEN g ELSE ops[n].max,
                           min |-> IF g < ops[n].min THEN g ELSE ops[n].min]]
        BY <1>1, <3>1, <4>1 DEF Sampled
      <4>3. \A n \in OpNames : ops[n].total \in Int /\ ops[n].min \in Int /\ ops[n].max \in Int
        BY <4>1 DEF Statistic
      <4>4. ops' \in [OpNames -> Statistic]
        <5>1. ASSUME NEW n \in OpNames PROVE ops'[n] \in Statistic
          <6>1. ops[n].total + Gain(live, n) \in Int
            BY <3>2, <4>3
          <6>2. QED
            BY <3>2, <4>2, <4>3, <6>1 DEF Statistic
        <5>2. ops' = [n \in OpNames |-> ops'[n]]
          BY <4>2
        <5>3. QED
          BY <5>1, <5>2
      <4>5. ASSUME NEW n \in OpNames
            PROVE  LET gains == {gain(i, n) : i \in 1 .. Len(readings') - 1}
                   IN  /\ ops'[n].total = Last(readings')[n] - readings'[1][n]
                       /\ ops'[n].min \in gains /\ ops'[n].max \in gains
                       /\ \A g \in gains : ops'[n].min <= g /\ g <= ops'[n].max
                       /\ ~restarted' => ops'[n].min >= 0
        <5> DEFINE old == {readings[i + 1][n] - readings[i][n] : i \in 1 .. Len(readings) - 1}
                   new == {gain(i, n) : i \in 1 .. Len(readings') - 1}
                   g == Gain(live, n)
        <5>1. /\ ops[n].total = Last(readings)[n] - readings[1][n]
              /\ ops[n].min \in old /\ ops[n].max \in old
              /\ \A x \in old : ops[n].min <= x /\ x <= ops[n].max
          BY <1>2, <4>1 DEF OpsAddUp
        <5>2. new = old \cup {g}
          <6>1. ASSUME NEW i \in 1 .. m - 1 PROVE gain(i, n) = readings[i + 1][n] - readings[i][n]
            <7>1. i \in 1 .. m /\ i + 1 \in 1 .. m
              BY <1>3
            <7>2. QED
              BY <1>3, <7>1
          <6>2. 1 .. Len(readings') - 1 = (1 .. m - 1) \cup {m}
            BY <1>3, <2>5
          <6>3. g = gain(m, n)
            BY <3>2
          <6>4. new \subseteq old \cup {g}
            BY <6>1, <6>2, <6>3
          <6>5. old \cup {g} \subseteq new
            BY <6>1, <6>2, <6>3
          <6>6. QED
            BY <6>4, <6>5
        <5>3. old \subseteq Int /\ g \in Int
          <6>1. ASSUME NEW i \in 1 .. m - 1 PROVE readings[i + 1][n] - readings[i][n] \in Int
            <7>1. i \in 1 .. m /\ i + 1 \in 1 .. m
              BY <1>3
            <7>2. readings[i] \in Reading /\ readings[i + 1] \in Reading
              BY <1>2, <7>1
            <7>3. QED
              BY <7>2 DEF Reading
          <6>2. QED
            BY <3>2, <6>1
        <5>4. /\ ops'[n].total = ops[n].total + g
              /\ ops'[n].max = IF g > ops[n].max THEN g ELSE ops[n].max
              /\ ops'[n].min = IF g < ops[n].min THEN g ELSE ops[n].min
          BY <4>2
        <5>5. ops'[n].total = Last(readings')[n] - readings'[1][n]
          <6>1. /\ Last(readings) = readings[m] /\ readings'[1] = readings[1]
                /\ g = live[n] - readings[m][n] /\ Last(readings') = live
            BY <1>3, <2>3, <2>5, <3>1 DEF Last, Gain
          <6>2. live[n] \in Int /\ readings[m][n] \in Int /\ readings[1][n] \in Int
            <7>1. readings[1] \in Reading /\ readings[m] \in Reading
              BY <1>2, <1>3, <2>5
            <7>2. QED
              BY <1>2, <7>1 DEF Reading
          <6>3. QED
            BY <5>1, <5>4, <6>1, <6>2
        <5>up. ASSUME NEW x \in new, ~restarted' PROVE x >= 0
          BY <1>3, <3>up, <5>up
        <5> HIDE DEF old, new, g
        <5>6. /\ ops'[n].min \in new /\ ops'[n].max \in new
              /\ \A x \in new : ops'[n].min <= x /\ x <= ops'[n].max
          BY <4>3, <5>1, <5>2, <5>3, <5>4
        <5>7. QED
          BY <5>5, <5>6, <5>up DEF new
      <4>6. OpsAddUp'
        BY <4>5 DEF OpsAddUp
      <4>7. Sampling'
        BY <1>1, <1>3, <2>3, <3>4, <4>4 DEF Sampling
      <4>8. QED
        BY <1>1, <1>2, <1>3, <1>4, <1>up, <3>4, <4>6, <4>7 DEF SummaryInv
    <3>5. m = 1 \/ m >= 2
      <4>1. m \in Nat /\ m >= 1
        BY <1>3, <2>5
      <4> HIDE DEF m
      <4>2. QED
        BY <4>1
    <3>6. QED
      BY <3>3, <3>4, <3>5
  <2>6. QED
    BY <1>3, <2>4, <2>5
<1>7. QED
  BY <1>5, <1>6

LEMMA SummaryKeeps == SummaryInv /\ [SummaryNext]_sumVars => SummaryInv'
<1> SUFFICES ASSUME SummaryInv, [SummaryNext]_sumVars PROVE SummaryInv'
  OBVIOUS
<1>1. ASSUME UNCHANGED <<site, catalogue, sections>>, OpsAddUp'
      PROVE  /\ MembersAreReal' /\ OplogIsShortest'
             /\ lost' \in Nat /\ lost' >= lost => ClusterIsCounted'
  <2>1. MembersAreReal /\ OplogIsShortest /\ ClusterIsCounted /\ lost \in Nat
    BY DEF SummaryInv
  <2>2. Collections' = Collections /\ \A c : Sharded(c)' = Sharded(c)
    BY <1>1 DEF Collections, Listed, Sharded
  <2>3. MembersAreReal' /\ OplogIsShortest'
    BY <1>1, <2>1 DEF MembersAreReal, OplogIsShortest, Reached
  <2> HIDE DEF Collections, Sharded
  <2>4. lost' \in Nat /\ lost' >= lost => (lost' = 0 => lost = 0)
    BY <2>1
  <2>5. QED
    BY <1>1, <2>1, <2>2, <2>3, <2>4 DEF ClusterIsCounted
<1>2. live \in Reading /\ lost \in Nat
  BY DEF SummaryInv
<1>3. CASE Serve
  <2>1. live' \in Reading
    BY <1>2, <1>3 DEF Serve, Reading
  <2>2. UNCHANGED <<site, catalogue, sections, readings, previous, ops, sumPc, lost>> /\ sumPc = "ops"
    BY <1>3 DEF Serve, world
  <2>3. Sampling' = Sampling /\ CountsUp
    BY <2>2 DEF Sampling, SummaryInv
  <2>4. OpsAddUp'
    <3>1. OpsAddUp /\ (~restarted' => ~restarted)
      <4>1. restarted' = restarted \/ restarted' = (restarted \/ readings # << >>)
        BY <1>3 DEF Serve
      <4>2. ~restarted' => ~restarted
        BY <4>1, Zenon
      <4>3. QED
        BY <4>2 DEF SummaryInv
    <3>2. QED
      BY <2>2, <3>1 DEF OpsAddUp
  <2>5. CountsUp'
    <3>1. CASE restarted' \/ readings = << >>
      BY <2>2, <3>1 DEF CountsUp
    <3>2. ASSUME NEW n \in OpNames, live' = [live EXCEPT ![n] = @ + 1], UNCHANGED restarted
          PROVE  CountsUp'
      <4>1. \A o \in OpNames : live'[o] >= live[o] /\ live[o] \in Nat /\ live'[o] \in Nat
        BY <1>2, <3>2 DEF Reading
      <4>2. ASSUME readings # << >>, NEW o \in OpNames PROVE Last(readings)[o] \in Nat
        <5>1. readings \in Seq(Reading) /\ Len(readings) \in 1 .. Len(readings)
          BY <4>2 DEF SummaryInv
        <5>2. Last(readings) \in Reading
          BY <5>1 DEF Last
        <5>3. QED
          BY <5>2 DEF Reading
      <4>3. ASSUME ~restarted, readings # << >>, NEW o \in OpNames
            PROVE  live'[o] >= Last(readings)[o]
        <5>1. live[o] >= Last(readings)[o]
          BY <2>3, <4>3 DEF CountsUp
        <5>2. QED
          BY <4>1, <4>2, <4>3, <5>1
      <4>4. QED
        BY <2>2, <2>3, <3>2, <4>3 DEF CountsUp
    <3>3. QED
      BY <1>3, <3>1, <3>2 DEF Serve
  <2>6. QED
    BY <1>1, <1>2, <2>1, <2>2, <2>3, <2>4, <2>5 DEF SummaryInv
<1>4. CASE MongosInfo
  <2>1. Same /\ sumPc = "mongos" /\ sumPc' = "host" /\ \E v : Section("mongos", v)
        /\ lost' \in Nat /\ lost' >= lost
    BY <1>2, <1>4, CallsLost DEF MongosInfo
  <2>2. PICK v : SectionSet(sections', "mongos", v)
    BY <2>1, SectionMeans
  <2>3. QED
    BY <2>1, <2>2, SectionKeepsSummary
<1>5. CASE HostInfo
  <2>1. Same /\ sumPc = "host" /\ sumPc' \in {"members", "exit"} /\ \E v : Section("node", v)
        /\ lost' \in Nat /\ lost' >= lost
    BY <1>2, <1>5, CallsLost DEF HostInfo
  <2>2. QED
    BY <2>1, SectionMeans, SectionKeepsSummary
<1>6. CASE SampleFails
  <2>1. /\ UNCHANGED <<site, catalogue, live, sections, readings>>
        /\ ops' = << >> /\ sumPc' = "security" /\ lost' \in Nat /\ lost' >= lost
    BY <1>2, <1>6, CallsLost DEF SampleFails, world
  <2>2. OpsAddUp'
    BY <2>1 DEF OpsAddUp
  <2>3. QED
    BY <1>1, <2>1, <2>2 DEF SummaryInv
<1>7. CASE Security
  <2>1. Same /\ sumPc' \in Later /\ \E v : Section("security", v)
    BY <1>7 DEF Security, Later
  <2>2. lost' \in Nat /\ lost' >= lost
    BY <1>2, <1>7 DEF Security
  <2>3. QED
    BY <2>1, <2>2, SectionMeans, SectionKeepsSummary
<1>9. CASE Balancer
  <2>1. Same /\ sumPc' \in Later /\ ((\E v : Section("balancer", v)) \/ UNCHANGED sections)
        /\ lost' \in Nat /\ lost' >= lost
    BY <1>2, <1>9, CallsLost DEF Balancer, Later
  <2>2. CASE UNCHANGED sections
    <3>1. UNCHANGED <<site, catalogue, live, readings, restarted, previous, ops>>
      BY <2>1 DEF Same, world, opsState
    <3>2. OpsAddUp'
      BY <3>1, SameOps
    <3>3. QED
      BY <1>1, <2>1, <2>2, <3>1, <3>2 DEF SummaryInv, Later
  <2>3. QED
    BY <2>1, <2>2, SectionMeans, SectionKeepsSummary
<1>8. CASE UNCHANGED sumVars
  <2>1. UNCHANGED <<site, catalogue, sumPc, live, readings, restarted, previous, ops, sections, lost>>
    BY <1>8 DEF sumVars, world, opsState
  <2>2. OpsAddUp' /\ Sampling' = Sampling /\ CountsUp' = CountsUp
    BY <2>1, SameOps DEF CountsUp
  <2>3. lost' \in Nat /\ lost' >= lost
    BY <1>2, <2>1
  <2>4. QED
    BY <1>1, <2>1, <2>2, <2>3 DEF SummaryInv
<1>10. QED
  BY <1>3, <1>4, <1>5, <1>6, <1>7, <1>8, <1>9, MembersKeep, SampleKeeps, OplogKeeps, ClusterKeeps
     DEF SummaryNext, SummaryMain

(* What pt-mongodb-summary prints fits together, for every cluster,        *)
(* catalogue, number of samples and operations and whatever fails, breaks  *)
(* off or restarts: the statistics are those of the counters, of which     *)
(* only a restart makes a gain negative; the members are those of the      *)
(* cluster and the oplog the shortest; and the collections are counted     *)
(* right, and all of them unless a call failed.                            *)
THEOREM SummaryIsConsistent == SummarySpec => []SummaryAddsUp
<1>1. SummaryInv => SummaryAddsUp
  BY DEF SummaryInv, SummaryAddsUp
<1>2. QED
  BY <1>1, SummaryStarts, SummaryKeeps, PTL DEF SummarySpec
=============================================================================
