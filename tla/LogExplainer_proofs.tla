--------------------------- MODULE LogExplainer_proofs ---------------------------
(***************************************************************************)
(* Proofs about the log explainer, for every set of logs, every input and  *)
(* every order of the greps, of the regexes and of Go's maps.              *)
(*                                                                         *)
(*   WhoisIsExact            the tree of whois is the connected component  *)
(*                           of the search, from SearchInv: no less of it  *)
(*                           is closed on its own, and what is not closed  *)
(*                           under the links still awaits its filter       *)
(*   NoRepetitionIsLost      an event and its repetitions add up to what   *)
(*                           was handled, from RepetitionInv: the last     *)
(*                           event has none yet                            *)
(*   ChangesAreAnnouncedOnce list announces a change in the row of its     *)
(*                           event, and leaves no ragged row, from         *)
(*                           AnnounceInv: between two rows every column    *)
(*                           shows what it showed last                     *)
(*   RecordedVotesWereCast   a recorded vote was told of by an earlier     *)
(*                           line, from VoteInv: the line being applied    *)
(*                           is one that the grep has passed               *)
(*                                                                         *)
(* First come facts about loops: induction up to a bound, taken from the   *)
(* least element of a set of naturals, and the function a loop computes.   *)
(***************************************************************************)
EXTENDS LogExplainer, FiniteSetTheorems, SequenceTheorems, WellFoundedInduction, TLAPS

LEMMA Smallest ==
    ASSUME NEW T, T \subseteq Nat, T # {}
    PROVE  \E x \in T : \A y \in T : x <= y
<1> DEFINE Less == {p \in Nat \X Nat : p[1] < p[2]}
<1>1. IsWellFoundedOn(Less, Nat)
  BY NatLessThanWellFounded DEF OpToRel
<1>2. PICK x \in T : \A y \in T : ~ (<<y, x>> \in Less)
  <2> HIDE DEF Less
  <2>1. QED
    BY <1>1, WFMin
<1>3. ASSUME NEW y \in T PROVE x <= y
  <2>1. <<y, x>> \in Nat \X Nat
    BY <1>3
  <2>2. ~(<<y, x>>[1] < <<y, x>>[2])
    BY <1>2, <2>1
  <2>3. QED
    BY <2>2, <2>1
<1>4. QED
  BY <1>3

(* A set of naturals that holds 0 and with each n below N its successor    *)
(* holds all up to N.                                                      *)
LEMMA UpTo ==
    ASSUME NEW N \in Nat, NEW T, 0 \in T,
           \A n \in 1 .. N : n - 1 \in T => n \in T
    PROVE  0 .. N \subseteq T
<1> SUFFICES ASSUME (0 .. N) \ T # {} PROVE FALSE
  OBVIOUS
<1>1. PICK x \in (0 .. N) \ T : \A y \in (0 .. N) \ T : x <= y
  <2>1. (0 .. N) \ T \subseteq Nat
    OBVIOUS
  <2>2. QED
    BY <2>1, Smallest
<1>2. x \in 1 .. N /\ x - 1 \in 0 .. N /\ ~(x <= x - 1)
  BY <1>1
<1>3. QED
  BY <1>1, <1>2

(* Primitive recursion along a bounded loop whose body is a function.      *)
Loops(f, A, first, N, body) ==
    /\ f \in [0 .. N -> A] /\ f[0] = first
    /\ \A n \in 1 .. N : f[n] = body[<<f[n - 1], n>>]

LEMMA Loop ==
    ASSUME NEW A, NEW first \in A, NEW N \in Nat, NEW body \in [A \X (1 .. N) -> A]
    PROVE  \E f : Loops(f, A, first, N, body)
<1> DEFINE Good(m, f) == f[0] = first /\ \A n \in 1 .. m : f[n] = body[<<f[n - 1], n>>]
           T == {m \in 0 .. N : \E f \in [0 .. m -> A] : Good(m, f)}
<1>1. 0 \in T
  <2> DEFINE h == [i \in 0 .. 0 |-> first]
  <2>1. h \in [0 .. 0 -> A] /\ Good(0, h) /\ 0 \in 0 .. N
    OBVIOUS
  <2>2. QED
    <3> HIDE DEF h, Good
    <3>1. QED
      BY <2>1
<1>2. ASSUME NEW n \in 1 .. N, n - 1 \in T PROVE n \in T
  <2>1. PICK f \in [0 .. n - 1 -> A] : Good(n - 1, f)
    BY <1>2
  <2> DEFINE g == [i \in 0 .. n |-> IF i = n THEN body[<<f[n - 1], n>>] ELSE f[i]]
  <2>2. g \in [0 .. n -> A]
    OBVIOUS
  <2>3. Good(n, g)
    <3>1. g[0] = first
      BY <2>1
    <3>2. ASSUME NEW k \in 1 .. n PROVE g[k] = body[<<g[k - 1], k>>]
      <4>1. CASE k = n
        <5>1. k - 1 \in 0 .. n - 1 /\ k - 1 # n /\ k - 1 \in 0 .. n
          BY <4>1
        <5>2. g[k] = body[<<f[n - 1], n>>] /\ g[k - 1] = f[n - 1]
          BY <4>1, <5>1
        <5>3. QED
          BY <4>1, <5>2
      <4>2. CASE k # n
        <5>1. k \in 1 .. n - 1 /\ k - 1 \in 0 .. n - 1 /\ k - 1 # n /\ k \in 0 .. n
          BY <4>2
        <5>2. g[k] = f[k] /\ g[k - 1] = f[k - 1]
          BY <4>2, <5>1
        <5>3. QED
          BY <2>1, <5>1, <5>2
      <4>3. QED
        BY <4>1, <4>2
    <3>3. QED
      <4> HIDE DEF g
      <4>1. QED
        BY <3>1, <3>2
  <2>4. QED
    <3> HIDE DEF g, Good
    <3>1. QED
      BY <2>2, <2>3
<1>3. N \in T
  <2> HIDE DEF T
  <2>1. 0 .. N \subseteq T
    BY <1>1, <1>2, UpTo
  <2>2. QED
    BY <2>1
<1>4. PICK f \in [0 .. N -> A] : Good(N, f)
  BY <1>3
<1>5. Loops(f, A, first, N, body)
  BY <1>4 DEF Loops
<1>6. QED
  BY <1>5

(* FlattenSeq puts its sequences behind each other.                        *)
LEMMA Flattening ==
    ASSUME NEW S, NEW q \in Seq(Seq(S)), q # << >>
    PROVE  \E f \in [1 .. Len(q) -> Seq(S)] :
             /\ f[1] = q[1]
             /\ \A i \in 2 .. Len(q) : f[i] = f[i - 1] \o q[i]
             /\ FlattenSeq(q) = f[Len(q)]
<1>0. PICK N \in Nat : N = Len(q) - 1
  OBVIOUS
<1> DEFINE Eq(f) == f = [i \in 1 .. Len(q) |-> IF i = 1 THEN q[i] ELSE f[i - 1] \o q[i]]
           body == [p \in Seq(S) \X (1 .. N) |-> p[1] \o q[p[2] + 1]]
           flatten == CHOOSE f : Eq(f)
<1>1. q[1] \in Seq(S) /\ \A i \in 1 .. N : q[i + 1] \in Seq(S)
  BY <1>0
<1>2. body \in [Seq(S) \X (1 .. N) -> Seq(S)]
  <2>1. ASSUME NEW p \in Seq(S) \X (1 .. N) PROVE p[1] \o q[p[2] + 1] \in Seq(S)
    BY <1>1
  <2>2. QED
    BY <2>1
<1>3. PICK g \in [0 .. N -> Seq(S)] :
        g[0] = q[1] /\ \A n \in 1 .. N : g[n] = body[<<g[n - 1], n>>]
  <2> DEFINE A == Seq(S)
  <2>1. q[1] \in A /\ body \in [A \X (1 .. N) -> A]
    BY <1>1, <1>2
  <2>2. PICK g : Loops(g, A, q[1], N, body)
    <3> HIDE DEF body, A
    <3>1. QED
      BY <2>1, Loop
  <2>3. QED
    <3> HIDE DEF body
    <3>1. QED
      BY <2>2 DEF Loops
<1>4. \A n \in 1 .. N : g[n] = g[n - 1] \o q[n + 1]
  <2>1. ASSUME NEW n \in 1 .. N PROVE g[n] = g[n - 1] \o q[n + 1]
    <3>1. <<g[n - 1], n>> \in Seq(S) \X (1 .. N)
      BY <1>3
    <3>2. QED
      BY <1>3, <3>1
  <2>2. QED
    BY <2>1
<1> DEFINE f == [i \in 1 .. Len(q) |-> g[i - 1]]
<1>5. /\ f \in [1 .. Len(q) -> Seq(S)] /\ f[1] = q[1]
      /\ \A i \in 2 .. Len(q) : f[i] = f[i - 1] \o q[i]
  <2>1. \A i \in 1 .. Len(q) : i - 1 \in 0 .. N
    BY <1>0
  <2>2. f \in [1 .. Len(q) -> Seq(S)]
    BY <2>1
  <2>3. f[1] = q[1]
    BY <1>3
  <2>4. ASSUME NEW i \in 2 .. Len(q) PROVE f[i] = f[i - 1] \o q[i]
    <3>1. i - 1 \in 1 .. N /\ i \in 1 .. Len(q) /\ i - 1 \in 1 .. Len(q)
      BY <1>0
    <3>2. f[i] = g[i - 1] /\ f[i - 1] = g[i - 1 - 1]
      BY <3>1
    <3> PICK k \in 1 .. N : k = i - 1 /\ k + 1 = i
      BY <3>1
    <3>3. g[k] = g[k - 1] \o q[k + 1]
      BY <1>4
    <3>4. QED
      <4> HIDE DEF f
      <4>1. QED
        BY <3>2, <3>3
  <2>5. QED
    BY <2>2, <2>3, <2>4
<1>6. Eq(f)
  <2> DEFINE e == [i \in 1 .. Len(q) |-> IF i = 1 THEN q[i] ELSE f[i - 1] \o q[i]]
  <2>1. ASSUME NEW i \in 1 .. Len(q) PROVE f[i] = e[i]
    <3> HIDE DEF f
    <3>1. e[i] = IF i = 1 THEN q[i] ELSE f[i - 1] \o q[i]
      OBVIOUS
    <3>2. i # 1 => i \in 2 .. Len(q)
      OBVIOUS
    <3> HIDE DEF e
    <3>3. QED
      BY <1>5, <3>1, <3>2
  <2>2. QED
    <3> HIDE DEF f
    <3>1. f = e
      BY <1>5, <2>1
    <3>2. QED
      BY <3>1
<1>7. Eq(flatten)
  <2> HIDE DEF Eq, f
  <2>1. QED
    BY <1>6
<1>8. FlattenSeq(q) = flatten[Len(q)]
  BY DEF FlattenSeq
<1> HIDE DEF f, flatten
<1>9. \A i \in 1 .. Len(q) : flatten[i] = IF i = 1 THEN q[i] ELSE flatten[i - 1] \o q[i]
  BY <1>7
<1>10. \A i \in 1 .. Len(q) : flatten[i] = f[i]
  <2> DEFINE T == {n \in 0 .. N : flatten[n + 1] = f[n + 1]}
  <2>1. 0 \in T
    BY <1>0, <1>5, <1>9
  <2>2. ASSUME NEW n \in 1 .. N, n - 1 \in T PROVE n \in T
    <3>1. flatten[n] = f[n]
      BY <2>2
    <3>2. PICK k \in 2 .. Len(q) : k = n + 1 /\ k - 1 = n /\ k \in 1 .. Len(q) /\ k # 1
      BY <1>0
    <3>3. flatten[k] = flatten[k - 1] \o q[k]
      BY <1>9, <3>2
    <3>4. f[k] = f[k - 1] \o q[k]
      BY <1>5
    <3>5. flatten[k - 1] = f[k - 1]
      BY <3>1, <3>2
    <3>6. flatten[k] = f[k]
      BY <3>3, <3>4, <3>5
    <3>7. QED
      BY <3>2, <3>6
  <2>3. 0 .. N \subseteq T
    <3> HIDE DEF T
    <3>1. QED
      BY <2>1, <2>2, UpTo
  <2>4. ASSUME NEW i \in 1 .. Len(q) PROVE flatten[i] = f[i]
    <3>1. i - 1 \in 0 .. N
      BY <1>0
    <3>2. i - 1 \in T
      BY <2>3, <3>1
    <3>3. QED
      BY <3>2
  <2>5. QED
    BY <2>4
<1>11. FlattenSeq(q) = f[Len(q)] /\ f \in [1 .. Len(q) -> Seq(S)]
  BY <1>0, <1>5, <1>8, <1>10
<1>12. QED
  BY <1>5, <1>11

----------------------------------------------------------------------------
(* whois                                                                   *)

Types == {"nodename", "ip", "uuid"}
IsIdentity(a) == a = <<a[1], a[2]>> /\ a[1] \in Types

(* What filter takes for a value, the database links with it.              *)
LEMMA NeighboursAreLinked ==
    ASSUME NEW db, NEW a, IsIdentity(a), NEW b \in Neighbours(db, a)
    PROVE  IsIdentity(b) /\ Leads(db, a, b)
<1> USE DEF Leads
<1>1. CASE a[1] = "ip"
  <2>1. b \in FilterDBUsingIP(db, a[2])
    BY <1>1 DEF Neighbours
  <2>2. QED
    BY <1>1, <2>1 DEF FilterDBUsingIP, Linked, IsIdentity, Types
<1>2. CASE a[1] = "uuid"
  <2>1. b \in FilterDBUsingUUID(db, a[2])
    BY <1>2 DEF Neighbours
  <2>2. CASE b \in {"nodename"} \X ValuesOf(db.hashToNames, a[2])
    BY <1>2, <2>2 DEF Linked, IsIdentity, Types
  <2>3. CASE b \in {"ip"} \X {db.hashToIP[h].value : h \in {a[2]} \cap DOMAIN db.hashToIP}
    BY <1>2, <2>3 DEF Linked, IsIdentity, Types
  <2>4. QED
    BY <2>1, <2>2, <2>3 DEF FilterDBUsingUUID
<1>3. CASE a[1] = "nodename"
  <2>1. b \in FilterDBUsingNodeName(db, a[2])
    BY <1>3 DEF Neighbours
  <2>2. QED
    BY <1>3, <2>1 DEF FilterDBUsingNodeName, Linked, IsIdentity, Types, KeysOf
<1>4. QED
  BY <1>1, <1>2, <1>3 DEF IsIdentity, Types

(* And it takes all that is linked, except for the unknown name.           *)
LEMMA LinkedAreNeighbours ==
    ASSUME NEW db, NEW a, IsIdentity(a), NEW b \in Identities(db), Leads(db, a, b)
    PROVE  b \in Neighbours(db, a)
<1> USE DEF Leads
<1>1. IsIdentity(b)
  BY DEF Identities, IsIdentity, Types
<1>3. \A map, key, v : v \in ValuesOf(map, key) => key \in DOMAIN map
  <2> SUFFICES ASSUME NEW map, NEW key, NEW v \in ValuesOf(map, key), key \notin DOMAIN map
               PROVE  FALSE
    OBVIOUS
  <2>1. Units(map, key) = << >>
    BY DEF Units
  <2>2. DOMAIN << >> = {}
    OBVIOUS
  <2>3. QED
    BY <2>1, <2>2 DEF ValuesOf
<1>4. CASE a[1] = "ip"
  <2>1. Neighbours(db, a) = FilterDBUsingIP(db, a[2])
    BY <1>4 DEF Neighbours
  <2>2. QED
    BY <1>1, <1>4, <2>1 DEF FilterDBUsingIP, Linked, IsIdentity, Types
<1>5. CASE a[1] = "uuid"
  <2>1. Neighbours(db, a) = FilterDBUsingUUID(db, a[2])
    BY <1>5 DEF Neighbours
  <2>2. CASE b[1] = "nodename"
    BY <1>1, <1>5, <2>1, <2>2 DEF FilterDBUsingUUID, Linked, IsIdentity, Types
  <2>3. CASE b[1] = "ip"
    BY <1>1, <1>5, <2>1, <2>3 DEF FilterDBUsingUUID, Linked, IsIdentity, Types
  <2>4. QED
    BY <1>1, <1>5, <2>2, <2>3 DEF Linked, IsIdentity, Types
<1>6. CASE a[1] = "nodename"
  <2>1. Neighbours(db, a) = FilterDBUsingNodeName(db, a[2])
    BY <1>6 DEF Neighbours
  <2>2. a[2] # "unspecified"
    BY <1>6 DEF IsIdentity
  <2>3. QED
    BY <1>1, <1>3, <1>6, <2>1, <2>2 DEF FilterDBUsingNodeName, KeysOf, Linked, IsIdentity, Types
<1>7. QED
  BY <1>4, <1>5, <1>6 DEF IsIdentity, Types

(* Being an element of a sequence, in the forms that a concatenation and a *)
(* flattening need.                                                        *)
Among(x, q) == \E i \in 1 .. Len(q) : q[i] = x

LEMMA AmongConcatenated ==
    ASSUME NEW S, NEW p \in Seq(S), NEW q \in Seq(S), NEW x, Among(x, p) \/ Among(x, q)
    PROVE  p \o q \in Seq(S) /\ Among(x, p \o q)
<1>1. p \o q \in Seq(S) /\ Len(p \o q) = Len(p) + Len(q)
  OBVIOUS
<1>2. CASE Among(x, p)
  <2>1. PICK i \in 1 .. Len(p) : p[i] = x
    BY <1>2 DEF Among
  <2>2. i \in 1 .. Len(p \o q) /\ (p \o q)[i] = x
    BY <1>1, <2>1
  <2>3. QED
    BY <1>1, <2>2 DEF Among
<1>3. CASE Among(x, q)
  <2>1. PICK i \in 1 .. Len(q) : q[i] = x
    BY <1>3 DEF Among
  <2>2. Len(p) + i \in 1 .. Len(p \o q) /\ (p \o q)[Len(p) + i] = x
    BY <1>1, <2>1
  <2>3. QED
    BY <1>1, <2>2 DEF Among
<1>4. QED
  BY <1>2, <1>3

LEMMA AmongFlattened ==
    ASSUME NEW S, NEW q \in Seq(Seq(S))
    PROVE  /\ FlattenSeq(q) \in Seq(S)
           /\ \A i \in 1 .. Len(q), x \in S : Among(x, q[i]) => Among(x, FlattenSeq(q))
<1>1. CASE q = << >>
  <2>1. Len(q) = 0 /\ FlattenSeq(q) = << >>
    BY <1>1 DEF FlattenSeq
  <2>2. QED
    BY <2>1
<1>2. CASE q # << >>
  <2>1. PICK f \in [1 .. Len(q) -> Seq(S)] :
             /\ f[1] = q[1]
             /\ \A i \in 2 .. Len(q) : f[i] = f[i - 1] \o q[i]
             /\ FlattenSeq(q) = f[Len(q)]
    BY <1>2, Flattening
  <2>2. /\ Len(q) \in Nat /\ Len(q) # 0
        /\ \A n \in 1 .. Len(q) : q[n] \in Seq(S) /\ f[n] \in Seq(S)
    BY <1>2, <2>1
  <2> DEFINE Has(n) == \A i \in 1 .. n, x \in S : Among(x, q[i]) => Among(x, f[n])
             T == {n \in 0 .. Len(q) : n = 0 \/ Has(n)}
  <2>3. 0 \in T
    BY <2>2
  <2>4. ASSUME NEW n \in 1 .. Len(q), n - 1 \in T PROVE n \in T
    <3>1. ASSUME NEW i \in 1 .. n, NEW x \in S, Among(x, q[i]) PROVE Among(x, f[n])
      <4>1. CASE n = 1
        <5>1. i = 1 /\ f[1] = q[1]
          BY <2>1, <4>1
        <5>2. QED
          BY <3>1, <4>1, <5>1
      <4>2. CASE n # 1
        <5>1. PICK m \in 1 .. Len(q) : m = n - 1 /\ n \in 2 .. Len(q) /\ (i = n \/ i \in 1 .. m)
          BY <2>2, <4>2
        <5>2. f[n] = f[m] \o q[n]
          BY <2>1, <5>1
        <5>3. i = n \/ Among(x, f[m])
          BY <2>4, <3>1, <5>1
        <5>4. Among(x, f[m]) \/ Among(x, q[n])
          BY <3>1, <5>3
        <5>5. f[m] \in Seq(S) /\ q[n] \in Seq(S)
          BY <2>2
        <5>6. QED
          BY <5>2, <5>4, <5>5, AmongConcatenated
      <4>3. QED
        BY <4>1, <4>2
    <3>2. QED
      BY <3>1
  <2>5. 0 .. Len(q) \subseteq T
    <3> HIDE DEF T
    <3>1. QED
      BY <2>2, <2>3, <2>4, UpTo
  <2>6. Has(Len(q))
    <3>1. Len(q) \in 0 .. Len(q)
      BY <2>2
    <3> HIDE DEF Has
    <3>2. QED
      BY <2>2, <2>5, <3>1
  <2>7. FlattenSeq(q) \in Seq(S)
    <3>1. Len(q) \in 1 .. Len(q)
      BY <2>2
    <3>2. QED
      BY <2>1, <2>2, <3>1
  <2>8. QED
    BY <2>1, <2>6, <2>7
<1>3. QED
  BY <1>1, <1>2

(* The nodes made of new values, one of each type, hold all of them.       *)
LEMMA ChildrenHold ==
    ASSUME NEW new, \A c \in new : IsIdentity(c)
    PROVE  /\ Children(new) \in Seq(SUBSET new)
           /\ \A c \in new : \E node \in SUBSET new : c \in node /\ Among(node, Children(new))
<1> DEFINE S == SUBSET new
           Node(type) == {c \in new : c[1] = type}
<1>1. ASSUME NEW type
      PROVE  /\ OfType(new, type) \in Seq(S)
             /\ Node(type) # {} => Among(Node(type), OfType(new, type))
  <2>1. CASE Node(type) = {}
    BY <2>1 DEF OfType
  <2>2. CASE Node(type) # {}
    <3>1. OfType(new, type) = <<Node(type)>> /\ Node(type) \in S
      BY <2>2 DEF OfType
    <3> HIDE DEF Node, S
    <3>2. QED
      BY <3>1 DEF Among
  <2>3. QED
    BY <2>1, <2>2
<1> DEFINE a == OfType(new, "nodename")
           b == OfType(new, "ip")
           d == OfType(new, "uuid")
<1>2. a \in Seq(S) /\ b \in Seq(S) /\ d \in Seq(S)
  BY <1>1
<1>3. Children(new) = (a \o b) \o d
  BY DEF Children
<1>4. Children(new) \in Seq(S)
  <2> HIDE DEF a, b, d, S
  <2>1. QED
    BY <1>2, <1>3
<1>5. ASSUME NEW c \in new PROVE \E node \in S : c \in node /\ Among(node, Children(new))
  <2>1. PICK type \in Types : c[1] = type
    BY DEF IsIdentity
  <2>2. c \in Node(type) /\ Node(type) \in S
    BY <2>1
  <2>3. Among(Node(type), OfType(new, type))
    BY <1>1, <2>2
  <2>4. Among(Node(type), a) \/ Among(Node(type), b) \/ Among(Node(type), d)
    BY <2>3 DEF Types
  <2> HIDE DEF a, b, d, Node, S
  <2>5. a \o b \in Seq(S)
    BY <1>2
  <2>6. Among(Node(type), a \o b) \/ Among(Node(type), d)
    BY <1>2, <2>4, AmongConcatenated
  <2>7. Among(Node(type), Children(new))
    BY <1>2, <1>3, <2>5, <2>6, AmongConcatenated
  <2>8. QED
    BY <2>2, <2>7
<1>6. QED
  BY <1>4, <1>5

(* An order visits each element.                                           *)
LEMMA OrderVisits ==
    ASSUME NEW S, NEW q \in Orders(S)
    PROVE  /\ \E n \in Nat : DOMAIN q = 1 .. n /\ q \in [1 .. n -> S]
           /\ \A x \in S : \E i \in DOMAIN q : q[i] = x
<1>1. q \in SeqOf(S, Cardinality(S)) /\ ToSet(q) = S
  BY DEF Orders
<1>2. PICK n \in 0 .. Cardinality(S) : q \in [1 .. n -> S]
  BY <1>1 DEF SeqOf
<1>3. n \in Nat
  BY <1>2
<1>4. QED
  BY <1>1, <1>2, <1>3 DEF ToSet

(* What the search knows.                                                  *)
Root == <<SearchType(s.db), SearchValue>>
Closed(part) == Root \in part /\ \A a \in part, b \in found : Leads(s.db, a, b) => b \in part
Awaits(a) == \E i \in 1 .. Len(stack) : a \in stack[i]

InSearch ==
    /\ \A a \in found : IsIdentity(a)
    /\ Root \in found
    /\ stack \in Seq(SUBSET found)
    /\ \A a \in found : Awaits(a) \/ Neighbours(s.db, a) \subseteq found
    /\ \A part \in SUBSET found : Closed(part) => part = found

SearchInv ==
    /\ input \in Inputs
    /\ phase = "show" => input.command = "list"
    /\ phase = "search" => input.command = "whois" /\ InSearch
    /\ phase = "done" /\ input.command = "whois" => InSearch /\ stack = << >>

(* A new neighbour is taken by the first value in the order that has it.   *)
LEMMA NeighboursOfHead ==
    ASSUME NEW H, NEW order \in Orders(H), NEW c \in NeighboursOf(H) \ found
    PROVE  \E j \in DOMAIN order : c \in Taken(order, j)
<1>1. PICK n \in Nat : DOMAIN order = 1 .. n
  BY OrderVisits
<1>2. PICK v \in H : c \in Neighbours(s.db, v)
  BY DEF NeighboursOf
<1> DEFINE J == {j \in 1 .. n : c \in Neighbours(s.db, order[j])}
<1>3. J # {} /\ J \subseteq Nat
  <2>1. PICK i \in DOMAIN order : order[i] = v
    BY OrderVisits
  <2>2. i \in J
    BY <1>1, <1>2, <2>1
  <2>3. QED
    BY <2>2
<1>4. PICK j \in J : \A k \in J : j <= k
  <2> HIDE DEF J
  <2>1. QED
    BY <1>3, Smallest
<1>5. ASSUME c \in NeighboursOf({order[k] : k \in 1 .. j - 1}) PROVE FALSE
  <2>1. PICK k \in 1 .. j - 1 : c \in Neighbours(s.db, order[k])
    BY <1>5 DEF NeighboursOf
  <2>2. k \in J /\ ~(j <= k)
    BY <2>1
  <2>3. QED
    BY <1>4, <2>2
<1>6. c \in Taken(order, j)
  BY <1>5 DEF Taken
<1>7. QED
  BY <1>1, <1>6

(* The step of the search: whatever filter adds to the tree awaits a filter *)
(* of its own, and the values of the head are closed under the links.      *)
LEMMA FilterKeepsInSearch ==
    ASSUME InSearch, Filter
    PROVE  InSearch'
<1> DEFINE H == Head(stack)
<1>1. stack # << >> /\ stack \in Seq(SUBSET found) /\ Len(stack) \in Nat /\ Len(stack) # 0
  BY DEF Filter, InSearch
<1>2. H \subseteq found /\ H = stack[1]
  BY <1>1
<1>3. PICK order \in Orders(H) : \E next \in Orders(DOMAIN order) :
          stack' = FlattenSeq([i \in DOMAIN next |-> Children(Taken(order, next[i]))]) \o Tail(stack)
  BY DEF Filter
<1>4. PICK next \in Orders(DOMAIN order) :
          stack' = FlattenSeq([i \in DOMAIN next |-> Children(Taken(order, next[i]))]) \o Tail(stack)
  BY <1>3
<1>5. /\ found' = found \cup NeighboursOf(H)
      /\ s' = s /\ input' = input
  BY DEF Filter, reading
<1>6. PICK n \in Nat : DOMAIN order = 1 .. n /\ order \in [1 .. n -> H]
  BY OrderVisits
<1>7. PICK m \in Nat : DOMAIN next = 1 .. m /\ next \in [1 .. m -> 1 .. n]
  BY <1>6, OrderVisits
<1> DEFINE q == [i \in 1 .. m |-> Children(Taken(order, next[i]))]
           tail == Tail(stack)
<1>8. stack' = FlattenSeq(q) \o tail
  BY <1>4, <1>7
<1>9. \A a \in found' : IsIdentity(a)
  <2>1. ASSUME NEW a \in NeighboursOf(H) PROVE IsIdentity(a)
    <3>1. PICK v \in H : a \in Neighbours(s.db, v)
      BY DEF NeighboursOf
    <3>2. QED
      BY <1>2, <3>1, NeighboursAreLinked DEF InSearch
  <2>2. QED
    BY <1>5, <2>1 DEF InSearch
<1>10. ASSUME NEW j \in 1 .. n
       PROVE  /\ Taken(order, j) \subseteq found'
              /\ Children(Taken(order, j)) \in Seq(SUBSET found')
              /\ \A c \in Taken(order, j) : \E node \in SUBSET found' :
                    c \in node /\ Among(node, Children(Taken(order, j)))
  <2>1. Taken(order, j) \subseteq found'
    <3>1. order[j] \in H
      BY <1>6
    <3>2. QED
      BY <1>5, <3>1 DEF Taken, NeighboursOf
  <2>2. PICK new : new = Taken(order, j)
    OBVIOUS
  <2>3. PICK all : all = found'
    OBVIOUS
  <2>4. \A c \in new : IsIdentity(c)
    BY <1>9, <2>1, <2>2
  <2>5. new \subseteq all
    BY <2>1, <2>2, <2>3
  <2>6. /\ Children(new) \in Seq(SUBSET new)
        /\ \A c \in new : \E node \in SUBSET new : c \in node /\ Among(node, Children(new))
    BY <2>4, ChildrenHold
  <2>7. Children(new) \in Seq(SUBSET all)
    BY <2>5, <2>6
  <2>8. \A c \in new : \E node \in SUBSET all : c \in node /\ Among(node, Children(new))
    BY <2>5, <2>6
  <2>9. QED
    BY <2>1, <2>2, <2>3, <2>7, <2>8
<1>11. PICK S : S = SUBSET found'
  OBVIOUS
<1>12. q \in Seq(Seq(S)) /\ Len(q) = m
  <2>1. \A i \in 1 .. m : Children(Taken(order, next[i])) \in Seq(S)
    <3>1. \A i \in 1 .. m : next[i] \in 1 .. n
      BY <1>7
    <3>2. QED
      BY <1>10, <1>11, <3>1
  <2>2. QED
    BY <2>1
<1>13. tail \in Seq(S) /\ Len(tail) = Len(stack) - 1 /\ \A i \in 2 .. Len(stack) : tail[i - 1] = stack[i]
  <2>1. tail \in Seq(SUBSET found) /\ Len(tail) = Len(stack) - 1
        /\ \A i \in 2 .. Len(stack) : tail[i - 1] = stack[i]
    BY <1>1
  <2>2. SUBSET found \subseteq S
    BY <1>5, <1>11
  <2> HIDE DEF tail
  <2>3. tail \in Seq(S)
    BY <2>1, <2>2
  <2>4. QED
    BY <2>1, <2>3
<1>14. ASSUME NEW node \in S, Among(node, FlattenSeq(q)) \/ Among(node, tail)
       PROVE  Among(node, stack')
  <2> HIDE DEF q, tail
  <2>1. FlattenSeq(q) \in Seq(S)
    BY <1>12, AmongFlattened
  <2>2. Among(node, FlattenSeq(q) \o tail)
    BY <1>13, <1>14, <2>1, AmongConcatenated
  <2>3. QED
    BY <1>8, <2>2
<1>15. stack' \in Seq(S)
  <2> HIDE DEF q, tail
  <2>1. FlattenSeq(q) \in Seq(S)
    BY <1>12, AmongFlattened
  <2>2. FlattenSeq(q) \o tail \in Seq(S)
    BY <1>13, <2>1
  <2>3. QED
    BY <1>8, <2>2
<1>16. ASSUME NEW a \in found' PROVE Awaits(a)' \/ Neighbours(s'.db, a) \subseteq found'
  <2>1. CASE a \in H
    <3>1. Neighbours(s.db, a) \subseteq NeighboursOf(H)
      BY <2>1 DEF NeighboursOf
    <3>2. QED
      BY <1>5, <3>1
  <2>2. CASE a \in found /\ a \notin H
    <3>1. Awaits(a) \/ Neighbours(s.db, a) \subseteq found
      BY <2>2 DEF InSearch
    <3>2. CASE Neighbours(s.db, a) \subseteq found
      BY <1>5, <3>2
    <3>3. CASE Awaits(a)
      <4>1. PICK i \in 1 .. Len(stack) : a \in stack[i]
        BY <3>3 DEF Awaits
      <4>2. i \in 2 .. Len(stack)
        BY <1>1, <1>2, <2>2, <4>1
      <4>3. i - 1 \in 1 .. Len(tail) /\ tail[i - 1] = stack[i]
        BY <1>1, <1>13, <4>2
      <4>4. stack[i] \in S
        <5>1. stack[i] \in SUBSET found
          BY <1>1
        <5>2. QED
          BY <1>5, <1>11, <5>1
      <4>5. Among(stack[i], tail)
        <5> HIDE DEF tail
        <5>1. QED
          BY <4>3 DEF Among
      <4>6. Among(stack[i], stack')
        BY <1>14, <4>4, <4>5
      <4>7. QED
        BY <4>1, <4>6 DEF Awaits, Among
    <3>4. QED
      BY <3>1, <3>2, <3>3
  <2>3. CASE a \notin found
    <3>1. a \in NeighboursOf(H) \ found
      BY <1>5, <2>3
    <3>2. PICK j \in DOMAIN order : a \in Taken(order, j)
      BY <3>1, NeighboursOfHead
    <3>3. PICK node \in S : a \in node /\ Among(node, Children(Taken(order, j)))
      BY <1>6, <1>10, <1>11, <3>2
    <3>4. PICK i \in 1 .. m : next[i] = j
      BY <1>7, <3>2, OrderVisits
    <3>5. q[i] = Children(Taken(order, j))
      BY <3>4
    <3>6. Among(node, FlattenSeq(q))
      <4> HIDE DEF q
      <4>1. Among(node, q[i]) /\ i \in 1 .. Len(q)
        BY <1>12, <3>3, <3>5
      <4>2. QED
        BY <1>12, <4>1, AmongFlattened
    <3>7. Among(node, stack')
      BY <1>14, <3>6
    <3>8. QED
      BY <3>3, <3>7 DEF Awaits, Among
  <2>4. QED
    BY <2>1, <2>2, <2>3
<1>17. Root' = Root
  BY <1>5 DEF Root, SearchType, SearchValue
<1>18. ASSUME NEW b \in NeighboursOf(H) PROVE \E v \in H : Leads(s.db, v, b)
  <2>1. PICK v \in H : b \in Neighbours(s.db, v)
    BY DEF NeighboursOf
  <2>2. IsIdentity(v)
    BY <1>2 DEF InSearch
  <2>3. QED
    BY <2>1, <2>2, NeighboursAreLinked
<1>19. ASSUME NEW part \in SUBSET found', Closed(part)' PROVE part = found'
  <2>1. Root \in part /\ \A a \in part, b \in found' : Leads(s.db, a, b) => b \in part
    BY <1>5, <1>17, <1>19 DEF Closed
  <2>2. Closed(part \cap found)
    BY <1>5, <2>1 DEF Closed, InSearch
  <2>3. found \subseteq part
    BY <2>2 DEF InSearch
  <2>4. ASSUME NEW b \in NeighboursOf(H) PROVE b \in part
    <3>1. PICK v \in H : Leads(s.db, v, b)
      BY <1>18
    <3>2. v \in part /\ b \in found'
      BY <1>2, <1>5, <2>3
    <3>3. QED
      BY <2>1, <3>1, <3>2
  <2>5. QED
    BY <1>5, <2>3, <2>4
<1>20. Root' \in found'
  BY <1>5, <1>17 DEF InSearch
<1>21. QED
  BY <1>9, <1>11, <1>15, <1>16, <1>19, <1>20 DEF InSearch

(* The search starts with its root alone, that awaits its filter.          *)
LEMMA SearchStarts ==
    ASSUME input \in Inputs, StartSearch, phase' = "search"
    PROVE  InSearch'
<1>1. /\ SearchType(s.db) # "" /\ found' = {Root} /\ stack' = <<{Root}>>
      /\ input' = input /\ s' = s /\ input.command = "whois"
  BY DEF StartSearch, Root, reading
<1>2. SearchType(s.db) \in Types
  <2>1. /\ input.search[1] \in {"auto", "nodename", "ip", "uuid"}
        /\ input.form \in {"nodename", "ip", "uuid", "legacy"}
    BY <1>1, LogExplainerAssumption
  <2>2. SearchType(s.db) \in Types \cup {""}
    BY <2>1 DEF SearchType, Types
  <2>3. QED
    BY <1>1, <2>2
<1>3. Root' = Root /\ IsIdentity(Root)
  BY <1>1, <1>2 DEF Root, IsIdentity, SearchType, SearchValue
<1>4. Len(stack') = 1 /\ stack'[1] = {Root}
  BY <1>1
<1>5. Awaits(Root)'
  BY <1>3, <1>4 DEF Awaits
<1>6. stack' \in Seq(SUBSET found')
  <2>1. PICK r : r = Root
    OBVIOUS
  <2>2. found' = {r} /\ stack' = <<{r}>>
    BY <1>1, <2>1
  <2>3. <<{r}>> \in Seq(SUBSET {r})
    OBVIOUS
  <2>4. QED
    BY <2>2, <2>3
<1>7. \A part \in SUBSET found' : Root' \in part => part = found'
  BY <1>1, <1>3
<1>8. QED
  BY <1>1, <1>3, <1>5, <1>6, <1>7 DEF InSearch, Closed

LEMMA InSearchStays ==
    ASSUME InSearch, s' = s, input' = input, stack' = stack, found' = found
    PROVE  InSearch'
  BY DEF InSearch, Root, SearchType, SearchValue, Closed, Awaits

LEMMA NextKeepsSearchInv == SearchInv /\ [Next]_vars => SearchInv'
<1> SUFFICES ASSUME SearchInv, [Next]_vars PROVE SearchInv'
  OBVIOUS
<1>1. input' = input
  <2>1. CASE Next
    BY <2>1 DEF Next, Main, Report, Grep, OpenPath, OpenFails, ReadLine, ShortLinePanics,
                LastLine, EndPath, EndOfPaths, ApplyRegex, HandlerPanics, StartShow, ShowRow, EndShow,
                PrintContexts, StartSearch, Filter, EndSearch, GrepScan, GrepFails
  <2>2. QED
    BY <2>1 DEF vars
<1>2. CASE StartSearch
  BY <1>1, <1>2, SearchStarts DEF SearchInv, StartSearch
<1>3. CASE Filter
  <2>1. phase = "search" /\ phase' = phase
    BY <1>3 DEF Filter
  <2>2. QED
    BY <1>1, <1>3, <2>1, FilterKeepsInSearch DEF SearchInv
<1>4. CASE EndSearch
  <2>1. /\ phase = "search" /\ phase' = "done" /\ stack = << >>
        /\ s' = s /\ stack' = stack /\ found' = found
    BY <1>4 DEF EndSearch, reading, output
  <2>2. QED
    BY <1>1, <2>1, InSearchStays DEF SearchInv
<1>5. CASE StartShow \/ PrintContexts \/ EndShow
  BY <1>1, <1>5 DEF SearchInv, StartShow, PrintContexts, EndShow
<1>6. CASE ShowRow
  BY <1>1, <1>6 DEF SearchInv, ShowRow
<1>7. CASE \E i \in DOMAIN grep : Grep(i)
  <2>1. phase' = phase /\ s' = s /\ stack' = stack /\ found' = found
    BY <1>7 DEF Grep, GrepScan, GrepFails, reading, output
  <2>2. QED
    BY <1>1, <2>1, InSearchStays DEF SearchInv
<1>8. CASE UNCHANGED vars
  BY <1>8, InSearchStays DEF SearchInv, vars
<1>9. CASE OpenPath \/ OpenFails \/ ReadLine \/ ShortLinePanics \/ LastLine \/ EndPath \/ EndOfPaths
           \/ \E key \in pending : ApplyRegex(key) \/ HandlerPanics(key)
  <2>1. phase' \notin {"show", "search", "done"}
    BY <1>9 DEF OpenPath, OpenFails, ReadLine, ShortLinePanics, LastLine, EndPath, EndOfPaths,
                ApplyRegex, HandlerPanics
  <2>2. QED
    BY <1>1, <2>1 DEF SearchInv
<1>10. QED
  BY <1>2, <1>3, <1>4, <1>5, <1>6, <1>7, <1>8, <1>9 DEF Next, Main, Report

LEMMA SearchInvImplies == SearchInv => SearchIsExact
<1> SUFFICES ASSUME SearchInv, phase = "done", input.command = "whois" PROVE SearchIsExact
  BY DEF SearchIsExact
<1>1. InSearch /\ Len(stack) = 0
  BY DEF SearchInv
<1>2. \A a \in found : IsIdentity(a) /\ Neighbours(s.db, a) \subseteq found
  BY <1>1 DEF InSearch, Awaits
<1>3. ASSUME NEW a \in found, NEW b \in Identities(s.db), Leads(s.db, a, b)
      PROVE  b \in found
  BY <1>2, <1>3, LinkedAreNeighbours
<1>4. ASSUME NEW part \in SUBSET found, Root \in part,
             \A a \in part, b \in found : Leads(s.db, a, b) => b \in part
      PROVE  part = found
  BY <1>1, <1>4 DEF InSearch, Closed
<1>5. Root \in found
  BY <1>1 DEF InSearch
<1>6. QED
  BY <1>3, <1>4, <1>5 DEF SearchIsExact, Root

(* whois ends with everything that names, ips and uuids link to the search *)
(* and nothing else, whatever the database has and in whatever order the   *)
(* values and the new nodes are filtered (whois.go: filter, AddChildKey).  *)
THEOREM WhoisIsExact == Spec => []SearchIsExact
<1>1. Init => SearchInv
  BY DEF Init, SearchInv
<1>2. QED
  BY <1>1, NextKeepsSearchInv, SearchInvImplies, PTL DEF Spec

----------------------------------------------------------------------------
(* Repeated events                                                         *)

(* An event that has counted its repetitions.                              *)
Counted(e) == "rep" \in DOMAIN e /\ e.rep \in Nat

AllCounted(events) ==
    /\ events \in Seq(ToSet(events))
    /\ \A i \in 1 .. Len(events) : Counted(events[i])

(* The loop that adds them up.                                             *)
Sums(f, events, N) ==
    /\ f \in [0 .. N -> Nat] /\ f[0] = 0
    /\ \A n \in 1 .. N : f[n] = f[n - 1] + 1 + events[n].rep

LEMMA SumsExist ==
    ASSUME NEW N \in Nat, NEW events, \A n \in 1 .. N : events[n].rep \in Nat
    PROVE  \E f : Sums(f, events, N)
<1> DEFINE body == [p \in Nat \X (1 .. N) |-> p[1] + 1 + events[p[2]].rep]
<1>1. body \in [Nat \X (1 .. N) -> Nat]
  OBVIOUS
<1>2. PICK f : Loops(f, Nat, 0, N, body)
  <2> HIDE DEF body
  <2>1. QED
    BY <1>1, Loop
<1>3. f \in [0 .. N -> Nat] /\ f[0] = 0 /\ \A n \in 1 .. N : f[n] = body[<<f[n - 1], n>>]
  BY <1>2 DEF Loops
<1>4. ASSUME NEW n \in 1 .. N PROVE f[n] = f[n - 1] + 1 + events[n].rep
  <2>1. <<f[n - 1], n>> \in Nat \X (1 .. N)
    BY <1>3
  <2>2. QED
    BY <1>3, <2>1
<1>5. QED
  BY <1>3, <1>4 DEF Sums

(* Sums of events with the same repetitions agree.                         *)
SameReps(d, e, m) == \A n \in 1 .. m : d[n].rep = e[n].rep

LEMMA SumsAgree ==
    ASSUME NEW M \in Nat, NEW N \in Nat, NEW m \in Nat, m <= M, m <= N,
           NEW d, NEW e, NEW f, NEW g, Sums(f, d, M), Sums(g, e, N),
           SameReps(d, e, m)
    PROVE  f[m] = g[m]
<1> DEFINE T == {n \in 0 .. m : f[n] = g[n]}
<1>1. 0 \in T
  BY DEF Sums
<1>2. ASSUME NEW n \in 1 .. m, n - 1 \in T PROVE n \in T
  <2>1. n \in 1 .. M /\ n \in 1 .. N
    OBVIOUS
  <2>2. f[n] = f[n - 1] + 1 + d[n].rep /\ g[n] = g[n - 1] + 1 + e[n].rep
    BY <2>1 DEF Sums
  <2>3. d[n].rep = e[n].rep
    BY DEF SameReps
  <2>4. QED
    BY <1>2, <2>2, <2>3
<1>3. 0 .. m \subseteq T
  <2> HIDE DEF T
  <2>1. QED
    BY <1>1, <1>2, UpTo
<1>4. m \in 0 .. m
  OBVIOUS
<1>5. QED
  BY <1>3, <1>4

(* Occurrences is what that loop computes.                                 *)
LEMMA OccurrencesAre ==
    ASSUME NEW events, AllCounted(events)
    PROVE  \E f : Sums(f, events, Len(events)) /\ Occurrences(events) = f[Len(events)]
<1>1. Len(events) \in Nat /\ \A n \in 1 .. Len(events) : events[n].rep \in Nat
  BY DEF AllCounted, Counted
<1>2. PICK f : Sums(f, events, Len(events))
  BY <1>1, SumsExist
<1> DEFINE Eq(h) == h = [n \in 0 .. Len(events) |->
                            IF n = 0 THEN 0 ELSE h[n - 1] + 1 + events[n].rep]
           upTo == CHOOSE h : Eq(h)
<1>3. Eq(f)
  <2> DEFINE e == [n \in 0 .. Len(events) |-> IF n = 0 THEN 0 ELSE f[n - 1] + 1 + events[n].rep]
  <2>1. ASSUME NEW n \in 0 .. Len(events) PROVE f[n] = e[n]
    <3>1. n = 0 \/ n \in 1 .. Len(events)
      BY <1>1
    <3>2. QED
      BY <1>2, <3>1 DEF Sums
  <2>2. f = e
    <3> HIDE DEF e
    <3>1. DOMAIN e = 0 .. Len(events)
      BY DEF e
    <3>2. e = [n \in 0 .. Len(events) |-> e[n]]
      BY DEF e
    <3>3. f = [n \in 0 .. Len(events) |-> f[n]]
      BY <1>2 DEF Sums
    <3>4. QED
      BY <2>1, <3>2, <3>3
  <2>3. QED
    BY <2>2
<1>4. Eq(upTo)
  <2> HIDE DEF Eq
  <2>1. QED
    BY <1>3
<1>5. Occurrences(events) = upTo[Len(events)]
  BY DEF Occurrences
<1> HIDE DEF upTo
<1>6. \A n \in 0 .. Len(events) : upTo[n] = IF n = 0 THEN 0 ELSE upTo[n - 1] + 1 + events[n].rep
  BY <1>4
<1> DEFINE T == {n \in 0 .. Len(events) : upTo[n] = f[n]}
<1>7. 0 \in T
  BY <1>1, <1>2, <1>6 DEF Sums
<1>8. ASSUME NEW n \in 1 .. Len(events), n - 1 \in T PROVE n \in T
  <2>1. n \in 0 .. Len(events) /\ n # 0
    OBVIOUS
  <2>2. upTo[n] = upTo[n - 1] + 1 + events[n].rep
    BY <1>6, <2>1
  <2>3. QED
    BY <1>2, <1>8, <2>1, <2>2 DEF Sums
<1>9. 0 .. Len(events) \subseteq T
  <2> HIDE DEF T
  <2>1. QED
    BY <1>1, <1>7, <1>8, UpTo
<1>10. Len(events) \in 0 .. Len(events)
  BY <1>1
<1>11. upTo[Len(events)] = f[Len(events)]
  BY <1>9, <1>10
<1>12. QED
  BY <1>2, <1>5, <1>11

(* A log that was just opened has no events.                               *)
LEMMA NoOccurrences == AllCounted(<< >>) /\ Occurrences(<< >>) = 0
<1>1. AllCounted(<< >>)
  BY DEF AllCounted, ToSet
<1>2. PICK f : Sums(f, << >>, 0) /\ Occurrences(<< >>) = f[0]
  BY <1>1, OccurrencesAre
<1>3. QED
  BY <1>1, <1>2 DEF Sums

(* Adding an event counts once.                                            *)
LEMMA AppendOccurs ==
    ASSUME NEW events, AllCounted(events), NEW e, Counted(e), e.rep = 0
    PROVE  /\ AllCounted(Append(events, e))
           /\ Occurrences(Append(events, e)) = Occurrences(events) + 1
           /\ Append(events, e) # << >> /\ Append(events, e)[Len(Append(events, e))].rep = 0
           /\ Occurrences(events) \in Nat
<1> DEFINE longer == Append(events, e)
           n == Len(events)
           S == ToSet(events) \cup {e}
<1>1. n \in Nat /\ events \in Seq(S)
  <2>1. ToSet(events) \subseteq S
    OBVIOUS
  <2>2. events \in Seq(ToSet(events))
    BY DEF AllCounted
  <2> HIDE DEF S
  <2>3. QED
    BY <2>1, <2>2
<1>2. /\ longer \in Seq(S) /\ Len(longer) = n + 1 /\ longer[n + 1] = e
      /\ \A i \in 1 .. n : longer[i] = events[i]
  <2> HIDE DEF S
  <2>1. e \in S
    BY DEF S
  <2>2. \A T : events \in Seq(T) /\ e \in T =>
            /\ Append(events, e) \in Seq(T) /\ Len(Append(events, e)) = Len(events) + 1
            /\ Append(events, e)[Len(events) + 1] = e
            /\ \A i \in 1 .. Len(events) : Append(events, e)[i] = events[i]
    BY AppendProperties
  <2>3. QED
    BY <1>1, <2>1, <2>2
<1> HIDE DEF longer, n
<1>3. longer \in Seq(ToSet(longer))
  <2>1. \A i \in 1 .. n + 1 : longer[i] \in ToSet(longer)
    BY <1>1, <1>2 DEF ToSet
  <2>2. longer = [i \in 1 .. n + 1 |-> longer[i]]
    BY <1>1, <1>2
  <2>3. QED
    BY <1>1, <2>1, <2>2
<1>4. AllCounted(longer)
  <2>1. ASSUME NEW i \in 1 .. n + 1 PROVE Counted(longer[i])
    <3>1. i = n + 1 \/ i \in 1 .. n
      BY <1>1
    <3>2. \A j \in 1 .. n : Counted(events[j])
      BY DEF AllCounted, n
    <3>3. QED
      BY <1>2, <3>1, <3>2
  <2>2. QED
    BY <1>2, <1>3, <2>1 DEF AllCounted
<1>5. PICK f : Sums(f, events, n) /\ Occurrences(events) = f[n]
  <2>1. PICK f : Sums(f, events, Len(events)) /\ Occurrences(events) = f[Len(events)]
    BY OccurrencesAre
  <2>2. QED
    BY <2>1 DEF n
<1>6. PICK g : Sums(g, longer, n + 1) /\ Occurrences(longer) = g[n + 1]
  <2>1. PICK g : Sums(g, longer, Len(longer)) /\ Occurrences(longer) = g[Len(longer)]
    BY <1>4, OccurrencesAre
  <2>2. QED
    BY <1>2, <2>1
<1>7. g[n + 1] = g[n] + 1
  <2>1. n + 1 \in 1 .. n + 1 /\ n + 1 - 1 = n /\ g[n] \in Nat
    BY <1>1, <1>6 DEF Sums
  <2>2. PICK k \in 1 .. n + 1 : k = n + 1 /\ k - 1 = n
    BY <1>1
  <2>3. g[k] = g[k - 1] + 1 + longer[k].rep
    BY <1>6 DEF Sums
  <2>4. longer[k].rep = 0
    BY <1>2, <2>2
  <2>5. g[k] = g[n] + 1 + 0
    BY <2>2, <2>3, <2>4
  <2>6. QED
    BY <2>1, <2>2, <2>5
<1>8. g[n] = f[n] /\ f[n] \in Nat
  <2>1. n + 1 \in Nat /\ n <= n /\ n <= n + 1 /\ n \in 0 .. n
    BY <1>1
  <2>2. SameReps(events, longer, n)
    BY <1>2 DEF SameReps
  <2>3. f[n] = g[n]
    BY <1>1, <1>5, <1>6, <2>1, <2>2, SumsAgree
  <2>4. QED
    BY <1>5, <2>1, <2>3 DEF Sums
<1>9. longer # << >> /\ longer[Len(longer)].rep = 0
  BY <1>1, <1>2
<1>10. Occurrences(longer) = Occurrences(events) + 1 /\ Occurrences(events) \in Nat
  BY <1>5, <1>6, <1>7, <1>8
<1>11. QED
  BY <1>4, <1>9, <1>10 DEF longer

(* So does replacing the last event, that has no repetitions, by a new one. *)
LEMMA RepeatedOccurs ==
    ASSUME NEW events, AllCounted(events), Len(events) >= 2, events[Len(events)].rep = 0,
           NEW e, Counted(e), e.rep = 0
    PROVE  /\ AllCounted(Repeated(events, e))
           /\ Occurrences(Repeated(events, e)) = Occurrences(events) + 1
           /\ Repeated(events, e)[Len(Repeated(events, e))].rep = 0
<1> DEFINE same == Repeated(events, e)
<1>1. PICK n \in Nat : n = Len(events) /\ n >= 2
  BY DEF AllCounted
<1>2. PICK k \in 1 .. n : k = n - 1 /\ k # n /\ k \in Nat
  BY <1>1
<1>3. events = [i \in 1 .. n |-> events[i]] /\ \A i \in 1 .. n : Counted(events[i])
  BY <1>1 DEF AllCounted
<1>4. same = [i \in 1 .. n |-> IF i = n THEN e
                               ELSE IF i = k THEN [events[k] EXCEPT !.rep = @ + 1]
                               ELSE events[i]]
  BY <1>1, <1>2, <1>3 DEF Repeated
<1> HIDE DEF same
<1>5. /\ same[n] = e /\ \A i \in 1 .. n : i # k /\ i # n => same[i] = events[i]
      /\ same[k] = [events[k] EXCEPT !.rep = @ + 1]
  BY <1>1, <1>2, <1>4
<1>6. Counted(same[k]) /\ same[k].rep = events[k].rep + 1
  <2>1. Counted(events[k])
    BY <1>3
  <2>2. QED
    BY <1>5, <2>1 DEF Counted
<1>7. AllCounted(same) /\ Len(same) = n
  <2>1. \A i \in 1 .. n : Counted(same[i])
    BY <1>3, <1>5, <1>6
  <2>2. DOMAIN same = 1 .. n /\ \A i \in 1 .. n : same[i] \in ToSet(same)
    BY <1>4 DEF ToSet
  <2>3. same = [i \in 1 .. n |-> same[i]]
    BY <1>4
  <2>4. same \in Seq(ToSet(same)) /\ Len(same) = n
    BY <1>1, <2>2, <2>3
  <2>5. QED
    BY <2>1, <2>4 DEF AllCounted
<1>8. PICK f : Sums(f, events, n) /\ Occurrences(events) = f[n]
  BY <1>1, OccurrencesAre
<1>9. PICK g : Sums(g, same, n) /\ Occurrences(same) = g[n]
  BY <1>7, OccurrencesAre
<1>10. PICK m \in Nat : m = n - 2 /\ m = k - 1 /\ m <= n /\ m \in 0 .. n
  BY <1>1, <1>2
<1>11. f[m] = g[m] /\ f[m] \in Nat
  <2>1. SameReps(events, same, m)
    BY <1>1, <1>2, <1>5, <1>10 DEF SameReps
  <2>2. f[m] = g[m]
    BY <1>1, <1>8, <1>9, <1>10, <2>1, SumsAgree
  <2>3. QED
    BY <1>8, <1>10, <2>2 DEF Sums
<1>12. f[k] = f[m] + 1 + events[k].rep /\ f[n] = f[k] + 1 + events[n].rep
  <2>1. f[k] = f[k - 1] + 1 + events[k].rep
    BY <1>2, <1>8 DEF Sums
  <2>2. n \in 1 .. n
    BY <1>1
  <2>3. f[n] = f[n - 1] + 1 + events[n].rep
    BY <1>8, <2>2 DEF Sums
  <2>4. QED
    BY <1>2, <1>10, <2>1, <2>3
<1>13. g[k] = g[m] + 1 + same[k].rep /\ g[n] = g[k] + 1 + same[n].rep
  <2>1. g[k] = g[k - 1] + 1 + same[k].rep
    BY <1>2, <1>9 DEF Sums
  <2>2. n \in 1 .. n
    BY <1>1
  <2>3. g[n] = g[n - 1] + 1 + same[n].rep
    BY <1>9, <2>2 DEF Sums
  <2>4. QED
    BY <1>2, <1>10, <2>1, <2>3
<1>14. events[k].rep \in Nat /\ events[n].rep = 0 /\ same[n].rep = 0
  BY <1>1, <1>3, <1>5 DEF Counted
<1>15. g[n] = f[n] + 1
  <2>1. PICK p \in Nat, r \in Nat : p = f[m] /\ r = events[k].rep
    BY <1>11, <1>14
  <2>2. f[n] = p + 1 + r + 1 + 0
    BY <1>12, <1>14, <2>1
  <2>3. g[n] = p + 1 + (r + 1) + 1 + 0
    BY <1>6, <1>11, <1>13, <1>14, <2>1
  <2>4. PICK q \in Nat : q = p + 1 + r + 1 + 0 /\ p + 1 + (r + 1) + 1 + 0 = q + 1
    OBVIOUS
  <2>5. QED
    BY <2>2, <2>3, <2>4
<1>16. QED
  BY <1>7, <1>8, <1>9, <1>14, <1>15 DEF same

(* What the local timeline knows.                                          *)
RepetitionInv ==
    /\ AllCounted(lt)
    /\ lt # << >> => lt[Len(lt)].rep = 0
    /\ Occurrences(lt) = handled

(* The step of a regex.                                                    *)
LEMMA ApplyKeepsRepetitionInv ==
    ASSUME RepetitionInv, NEW key, ApplyRegex(key)
    PROVE  RepetitionInv'
<1>1. handled' = handled + 1
  BY DEF ApplyRegex
<1>2. PICK o \in Handle(key, line, s, Quiet) :
        lt' \in Add(lt, LogInfo(line, key, o.show, o.s.ctx, Quiet), o.s.db)
  BY DEF ApplyRegex
<1>3. PICK e : e = LogInfo(line, key, o.show, o.s.ctx, Quiet)
  OBVIOUS
<1>4. Counted(e) /\ e.rep = 0
  BY <1>3 DEF Counted, LogInfo
<1>5. PICK d : d = lt
  OBVIOUS
<1>6. AllCounted(d) /\ (d # << >> => d[Len(d)].rep = 0) /\ Occurrences(d) = handled
  BY <1>5 DEF RepetitionInv
<1>7. lt' = Append(d, e) \/ (Len(d) >= 2 /\ lt' = Repeated(d, e))
  <2>1. Len(d) \in Nat
    BY <1>6 DEF AllCounted
  <2>2. lt' \in Add(d, e, o.s.db)
    BY <1>2, <1>3, <1>5
  <2>3. PICK dup \in IF Len(d) < 2 THEN {FALSE}
                     ELSE IsDuplicatedEvent(d[Len(d) - 1], d[Len(d)], e, o.s.db) :
          lt' = IF dup THEN Repeated(d, e) ELSE Append(d, e)
    BY <2>2 DEF Add
  <2>4. CASE Len(d) < 2
    <3>1. dup = FALSE
      BY <2>3, <2>4
    <3>2. QED
      BY <2>3, <3>1
  <2>5. CASE Len(d) >= 2
    BY <2>3, <2>5
  <2>6. QED
    BY <2>1, <2>4, <2>5
<1>8. CASE lt' = Append(d, e)
  BY <1>1, <1>4, <1>6, <1>8, AppendOccurs DEF RepetitionInv
<1>9. CASE Len(d) >= 2 /\ lt' = Repeated(d, e)
  <2>1. d # << >>
    BY <1>9
  <2>2. QED
    BY <1>1, <1>4, <1>6, <1>9, <2>1, RepeatedOccurs DEF RepetitionInv
<1>10. QED
  BY <1>7, <1>8, <1>9

LEMMA NextKeepsRepetitionInv == RepetitionInv /\ [Next]_vars => RepetitionInv'
<1> SUFFICES ASSUME RepetitionInv, [Next]_vars PROVE RepetitionInv'
  OBVIOUS
<1>1. CASE lt' = lt /\ handled' = handled
  BY <1>1 DEF RepetitionInv
<1>2. CASE OpenPath
  BY <1>2, NoOccurrences DEF OpenPath, RepetitionInv
<1>3. CASE \E key \in pending : ApplyRegex(key)
  BY <1>3, ApplyKeepsRepetitionInv
<1>4. CASE UNCHANGED vars
  BY <1>1, <1>4 DEF vars
<1>5. CASE OpenFails \/ ReadLine \/ ShortLinePanics \/ LastLine \/ EndPath \/ EndOfPaths
           \/ \E key \in pending : HandlerPanics(key)
  BY <1>1, <1>5 DEF OpenFails, ReadLine, ShortLinePanics, LastLine, EndPath, EndOfPaths,
                    HandlerPanics, reading
<1>6. CASE Report \/ \E i \in DOMAIN grep : Grep(i)
  BY <1>1, <1>6 DEF Report, StartShow, ShowRow, EndShow, PrintContexts, StartSearch, Filter,
                    EndSearch, Grep, GrepScan, GrepFails, reading
<1>7. QED
  BY <1>2, <1>3, <1>4, <1>5, <1>6 DEF Next, Main

(* The local timeline and its repetitions account for every event handled, *)
(* whichever events Add takes for repeated ones (timeline.go: Add).        *)
THEOREM NoRepetitionIsLost == Spec => []RepetitionsAddUp
<1>1. Init => RepetitionInv
  BY NoOccurrences DEF Init, RepetitionInv
<1>2. RepetitionInv => RepetitionsAddUp
  BY DEF RepetitionInv, RepetitionsAddUp
<1>3. QED
  BY <1>1, <1>2, NextKeepsRepetitionInv, PTL DEF Spec

----------------------------------------------------------------------------
(* The transitions of list                                                 *)

(* The placeholders of a column fill it up to the height.                  *)
LEMMA StackedIsEnough ==
    ASSUME NEW tests, NEW height \in 0 .. 4
    PROVE  Stacked(tests, height) >= height
<1> DEFINE Rest(n, i) == (IF 5 - i + n = height THEN height ELSE n) + (IF tests[i] THEN 1 ELSE 0)
           Eq(h) == h = [i \in 0 .. 4 |-> IF i = 0 THEN 0 ELSE Rest(h[i - 1], i)]
           stack4 == CHOOSE h : Eq(h)
           body == [p \in Nat \X (1 .. 4) |-> Rest(p[1], p[2])]
<1>1. body \in [Nat \X (1 .. 4) -> Nat]
  OBVIOUS
<1>2. PICK f : Loops(f, Nat, 0, 4, body)
  <2> HIDE DEF body
  <2>1. QED
    BY <1>1, Loop
<1>3. f \in [0 .. 4 -> Nat] /\ f[0] = 0 /\ \A n \in 1 .. 4 : f[n] = body[<<f[n - 1], n>>]
  BY <1>2 DEF Loops
<1>4. \A i \in 1 .. 4 : f[i] = Rest(f[i - 1], i)
  <2>1. ASSUME NEW i \in 1 .. 4 PROVE f[i] = Rest(f[i - 1], i)
    <3>1. <<f[i - 1], i>> \in Nat \X (1 .. 4)
      BY <1>3
    <3> HIDE DEF Rest
    <3>2. QED
      BY <1>3, <3>1
  <2>2. QED
    BY <2>1
<1>5. Eq(f)
  <2> DEFINE e == [i \in 0 .. 4 |-> IF i = 0 THEN 0 ELSE Rest(f[i - 1], i)]
  <2> HIDE DEF Rest
  <2>1. ASSUME NEW i \in 0 .. 4 PROVE f[i] = e[i]
    <3>1. i = 0 \/ i \in 1 .. 4
      OBVIOUS
    <3>2. QED
      BY <1>3, <1>4, <3>1
  <2>2. f = [i \in 0 .. 4 |-> f[i]]
    BY <1>3
  <2>3. e = [i \in 0 .. 4 |-> e[i]]
    OBVIOUS
  <2>4. f = e
    <3> HIDE DEF e
    <3>1. QED
      BY <2>1, <2>2, <2>3
  <2>5. QED
    BY <2>4
<1>6. Eq(stack4)
  <2> HIDE DEF Eq
  <2>1. QED
    BY <1>5
<1>7. Stacked(tests, height) = stack4[4]
  BY DEF Stacked
<1> HIDE DEF stack4
<1>8. stack4[0] = 0 /\ \A i \in 1 .. 4 : stack4[i] = Rest(stack4[i - 1], i)
  BY <1>6
<1>9. PICK b \in [1 .. 4 -> {0, 1}] : \A i \in 1 .. 4 : b[i] = IF tests[i] THEN 1 ELSE 0
  <2> DEFINE b == [i \in 1 .. 4 |-> IF tests[i] THEN 1 ELSE 0]
  <2>1. b \in [1 .. 4 -> {0, 1}] /\ \A i \in 1 .. 4 : b[i] = IF tests[i] THEN 1 ELSE 0
    OBVIOUS
  <2>2. QED
    BY <2>1
<1>10. \A i \in 1 .. 4 : stack4[i] =
          (IF 5 - i + stack4[i - 1] = height THEN height ELSE stack4[i - 1]) + b[i]
  BY <1>8, <1>9
<1>11. /\ stack4[1] = (IF 4 + 0 = height THEN height ELSE 0) + b[1]
       /\ stack4[2] = (IF 3 + stack4[1] = height THEN height ELSE stack4[1]) + b[2]
       /\ stack4[3] = (IF 2 + stack4[2] = height THEN height ELSE stack4[2]) + b[3]
       /\ stack4[4] = (IF 1 + stack4[3] = height THEN height ELSE stack4[3]) + b[4]
  BY <1>8, <1>10
<1>12. b[1] \in {0, 1} /\ b[2] \in {0, 1} /\ b[3] \in {0, 1} /\ b[4] \in {0, 1}
  OBVIOUS
<1>13. stack4[1] \in Nat /\ stack4[1] + 3 >= height
  BY <1>11, <1>12
<1>14. stack4[2] \in Nat /\ stack4[2] + 2 >= height
  BY <1>11, <1>12, <1>13
<1>15. stack4[3] \in Nat /\ stack4[3] + 1 >= height
  BY <1>11, <1>12, <1>14
<1>16. stack4[4] \in Nat /\ stack4[4] >= height
  BY <1>11, <1>12, <1>15
<1>17. QED
  BY <1>7, <1>16

(* A column has at most four changes, and none when no test finds one.     *)
LEMMA FoundBounds ==
    ASSUME NEW tests, DOMAIN tests = 1 .. 4
    PROVE  Found(tests) \in 0 .. 4 /\ ((\A i \in 1 .. 4 : ~tests[i]) => Found(tests) = 0)
<1> DEFINE T == {i \in DOMAIN tests : tests[i]}
<1>1. IsFiniteSet(1 .. 4) /\ Cardinality(1 .. 4) = 4
  <2>1. PICK a \in Int, b \in Int : a = 1 /\ b = 4 /\ ~(a > b) /\ b - a + 1 = 4
    OBVIOUS
  <2>2. IsFiniteSet(a .. b) /\ Cardinality(a .. b) = b - a + 1
    BY <2>1, FS_Interval
  <2>3. QED
    BY <2>1, <2>2
<1>2. T \subseteq 1 .. 4
  OBVIOUS
<1>3. Cardinality(T) <= 4 /\ Cardinality(T) \in Nat
  BY <1>1, <1>2, FS_Subset, FS_CardinalityType
<1>4. (\A i \in 1 .. 4 : ~tests[i]) => Cardinality(T) = 0
  BY FS_EmptySet
<1>5. QED
  BY <1>3, <1>4 DEF Found

LEMMA MaxOfFew ==
    ASSUME NEW T, T \subseteq 0 .. 4, T # {}
    PROVE  Max(T) \in T
<1>1. \E x \in T : \A y \in T : x >= y
  <2>1. \A y \in T : y = 0 \/ y = 1 \/ y = 2 \/ y = 3 \/ y = 4
    OBVIOUS
  <2>2. CASE 4 \in T
    BY <2>1, <2>2
  <2>3. CASE 4 \notin T /\ 3 \in T
    BY <2>1, <2>3
  <2>4. CASE 4 \notin T /\ 3 \notin T /\ 2 \in T
    BY <2>1, <2>4
  <2>5. CASE 4 \notin T /\ 3 \notin T /\ 2 \notin T /\ 1 \in T
    BY <2>1, <2>5
  <2>6. CASE 4 \notin T /\ 3 \notin T /\ 2 \notin T /\ 1 \notin T
    <3>1. \A y \in T : y = 0
      BY <2>1, <2>6
    <3>2. 0 \in T
      BY <3>1
    <3>3. QED
      BY <3>1, <3>2
  <2>7. QED
    BY <2>2, <2>3, <2>4, <2>5, <2>6
<1>2. QED
  BY <1>1 DEF Max

(* The transitions of a column, as the row and the next rows see them.     *)
Announced(c) ==
    /\ c = [last |-> c.last, cur |-> c.cur]
    /\ c.last = << >> \/ Found(Tests(c.last[1], c.cur)) = 0

RowIsRight(row) ==
    LET height == IF DOMAIN row.tests = {} THEN 0 ELSE Max(Heights(row.tests))
    IN  \A n \in DOMAIN row.tests :
            /\ Found(row.tests[n]) # 0 => n \in DOMAIN row.events
            /\ height # 0 => Stacked(row.tests[n], height) >= height

AnnounceInv ==
    /\ rows \in Seq(ToSet(rows)) /\ \A i \in 1 .. Len(rows) : RowIsRight(rows[i])
    /\ phase = "show" => \A n \in DOMAIN shown : Announced(shown[n])

(* The tests of a column compare its last context with its current one.    *)
LEMMA TestsAre ==
    ASSUME NEW columns, NEW n \in DOMAIN columns
    PROVE  /\ n \in DOMAIN TestsOf(columns)
           /\ Found(TestsOf(columns)[n]) \in 0 .. 4
           /\ columns[n].last # << >> =>
                TestsOf(columns)[n] = Tests(columns[n].last[1], columns[n].cur)
           /\ columns[n].last = << >> => Found(TestsOf(columns)[n]) = 0
<1>1. n \in DOMAIN TestsOf(columns)
      /\ TestsOf(columns)[n] = IF columns[n].last = << >> THEN NoTests
                               ELSE Tests(columns[n].last[1], columns[n].cur)
  BY DEF TestsOf
<1>2. DOMAIN NoTests = 1 .. 4 /\ \A i \in 1 .. 4 : ~NoTests[i]
  BY DEF NoTests
<1>3. \A old, new : DOMAIN Tests(old, new) = 1 .. 4
  BY DEF Tests
<1>4. Found(NoTests) = 0 /\ 0 \in 0 .. 4
  BY <1>2, FoundBounds
<1>5. \A old, new : Found(Tests(old, new)) \in 0 .. 4
  BY <1>3, FoundBounds
<1>6. QED
  BY <1>1, <1>4, <1>5

LEMMA NoTestOfItself ==
    ASSUME NEW ctx
    PROVE  Found(Tests(ctx, ctx)) = 0
<1>1. DOMAIN Tests(ctx, ctx) = 1 .. 4 /\ \A i \in 1 .. 4 : ~Tests(ctx, ctx)[i]
  BY DEF Tests
<1>2. QED
  BY <1>1, FoundBounds

(* A row is right when the columns without an event in it are announced.   *)
LEMMA NewRow ==
    ASSUME NEW columns, NEW events,
           \A n \in DOMAIN columns : n \notin DOMAIN events => Announced(columns[n])
    PROVE  RowIsRight([events |-> events, tests |-> TestsOf(columns)])
<1> DEFINE tests == TestsOf(columns)
           height == IF DOMAIN tests = {} THEN 0 ELSE Max(Heights(tests))
<1>1. DOMAIN tests = DOMAIN columns
  BY DEF TestsOf
<1>2. \A n \in DOMAIN tests : Found(tests[n]) \in 0 .. 4
  BY <1>1, TestsAre
<1>3. height \in 0 .. 4
  <2>1. CASE DOMAIN tests = {}
    BY <2>1
  <2>2. CASE DOMAIN tests # {}
    <3> HIDE DEF tests
    <3>1. Heights(tests) \subseteq 0 .. 4 /\ Heights(tests) # {}
      BY <1>2, <2>2 DEF Heights
    <3>2. Max(Heights(tests)) \in 0 .. 4
      BY <3>1, MaxOfFew
    <3>3. QED
      BY <2>2, <3>2
  <2>3. QED
    BY <2>1, <2>2
<1>4. ASSUME NEW n \in DOMAIN tests, Found(tests[n]) # 0 PROVE n \in DOMAIN events
  <2>1. CASE Announced(columns[n])
    BY <1>1, <1>4, <2>1, TestsAre DEF Announced
  <2>2. QED
    BY <1>1, <2>1
<1>5. \A n \in DOMAIN tests : Stacked(tests[n], height) >= height
  <2> HIDE DEF height, tests
  <2>1. QED
    BY <1>3, StackedIsEnough
<1>6. QED
  <2> DEFINE row == [events |-> events, tests |-> tests]
  <2>1. row.events = events /\ row.tests = tests
    OBVIOUS
  <2>2. height = IF DOMAIN row.tests = {} THEN 0 ELSE Max(Heights(row.tests))
    BY <2>1
  <2> HIDE DEF row, tests, height
  <2>3. RowIsRight(row)
    BY <1>4, <1>5, <2>1, <2>2 DEF RowIsRight
  <2>4. QED
    BY <2>3 DEF row, tests

(* Once settled, no column has anything left to announce.                  *)
LEMMA SettledIsAnnounced ==
    ASSUME NEW columns, \A n \in DOMAIN columns : columns[n] = [last |-> columns[n].last, cur |-> columns[n].cur]
    PROVE  \A n \in DOMAIN Settled(columns, TestsOf(columns)) :
              Announced(Settled(columns, TestsOf(columns))[n])
<1> DEFINE tests == TestsOf(columns)
<1>1. DOMAIN tests = DOMAIN columns
  BY DEF TestsOf
<1>2. CASE \A n \in DOMAIN tests : Found(tests[n]) = 0
  <2>1. Settled(columns, tests) = columns
    BY <1>2 DEF Settled
  <2>2. ASSUME NEW n \in DOMAIN columns PROVE Announced(columns[n])
    BY <1>1, <1>2, TestsAre DEF Announced
  <2>3. QED
    BY <2>1, <2>2
<1>3. CASE ~(\A n \in DOMAIN tests : Found(tests[n]) = 0)
  <2>1. Settled(columns, tests) =
            [n \in DOMAIN columns |-> [columns[n] EXCEPT !.last = <<columns[n].cur>>]]
    BY <1>3 DEF Settled
  <2>2. ASSUME NEW n \in DOMAIN columns
        PROVE  Announced([columns[n] EXCEPT !.last = <<columns[n].cur>>])
    <3>1. PICK l, c : columns[n] = [last |-> l, cur |-> c]
      OBVIOUS
    <3>2. [columns[n] EXCEPT !.last = <<columns[n].cur>>] = [last |-> <<c>>, cur |-> c]
      BY <3>1
    <3>3. QED
      BY <3>2, NoTestOfItself DEF Announced
  <2> HIDE DEF tests
  <2>3. QED
    BY <2>1, <2>2 DEF tests
<1>4. QED
  BY <1>2, <1>3

LEMMA ShowRowAnnounces ==
    ASSUME AnnounceInv, ShowRow
    PROVE  AnnounceInv'
<1> DEFINE nodes == IterateNode(timeline)
           events == [n \in nodes |-> timeline[n][1]]
<1>1. PICK moved : moved = [n \in DOMAIN shown |->
              IF n \in nodes THEN [last |-> <<shown[n].cur>>, cur |-> timeline[n][1].ctx]
              ELSE shown[n]]
  OBVIOUS
<1>2. /\ shown' = Settled(moved, TestsOf(moved))
      /\ rows' = Append(rows, [events |-> events, tests |-> TestsOf(moved)])
      /\ phase = "show"
  BY <1>1 DEF ShowRow
<1>3. DOMAIN events = nodes
  OBVIOUS
<1>4. \A n \in DOMAIN shown : Announced(shown[n])
  BY <1>2 DEF AnnounceInv
<1>5. ASSUME NEW n \in DOMAIN moved
      PROVE  /\ moved[n] = [last |-> moved[n].last, cur |-> moved[n].cur]
             /\ n \notin DOMAIN events => Announced(moved[n])
  <2>1. n \in DOMAIN shown
    BY <1>1, <1>5
  <2>2. CASE n \in nodes
    <3>1. moved[n] = [last |-> <<shown[n].cur>>, cur |-> timeline[n][1].ctx]
      BY <1>1, <2>1, <2>2
    <3>2. QED
      BY <1>3, <2>2, <3>1
  <2>3. CASE n \notin nodes
    <3>1. moved[n] = shown[n]
      BY <1>1, <2>1, <2>3
    <3>2. QED
      BY <1>4, <2>1, <3>1 DEF Announced
  <2>4. QED
    BY <2>2, <2>3
<1>6. \A n \in DOMAIN shown' : Announced(shown'[n])
  BY <1>2, <1>5, SettledIsAnnounced
<1>7. PICK row : row = [events |-> events, tests |-> TestsOf(moved)]
  OBVIOUS
<1>8. RowIsRight(row)
  <2> HIDE DEF events
  <2>1. QED
    BY <1>5, <1>7, NewRow
<1>9. PICK old : old = rows
  OBVIOUS
<1>10. /\ rows' = Append(old, row)
       /\ old \in Seq(ToSet(old)) /\ \A i \in 1 .. Len(old) : RowIsRight(old[i])
  BY <1>2, <1>7, <1>9 DEF AnnounceInv
<1>11. PICK N \in Nat : N = Len(old)
  BY <1>10
<1>12. /\ Len(Append(old, row)) = N + 1 /\ DOMAIN Append(old, row) = 1 .. N + 1
       /\ Append(old, row)[N + 1] = row
       /\ \A i \in 1 .. N : Append(old, row)[i] = old[i]
       /\ Append(old, row) = [i \in 1 .. N + 1 |-> Append(old, row)[i]]
  <2> DEFINE S == ToSet(old) \cup {row}
  <2>1. ToSet(old) \subseteq S /\ row \in S
    OBVIOUS
  <2> HIDE DEF S
  <2>2. old \in Seq(S)
    BY <1>10, <2>1
  <2>3. Append(old, row) \in Seq(S) /\ Len(Append(old, row)) = N + 1
    BY <1>11, <2>1, <2>2
  <2>4. Append(old, row) = [i \in 1 .. N + 1 |-> Append(old, row)[i]]
    <3>1. PICK longer : longer = Append(old, row)
      OBVIOUS
    <3>2. longer \in Seq(S) /\ Len(longer) = N + 1
      BY <2>3, <3>1
    <3>3. longer = [i \in 1 .. Len(longer) |-> longer[i]]
      BY <3>2
    <3>4. QED
      BY <3>1, <3>2, <3>3
  <2>5. QED
    BY <1>11, <2>1, <2>2, <2>4
<1>13. PICK all : all = Append(old, row)
  OBVIOUS
<1>14. ASSUME NEW i \in 1 .. N + 1 PROVE RowIsRight(all[i])
  <2>1. i = N + 1 \/ i \in 1 .. N
    OBVIOUS
  <2>2. QED
    BY <1>8, <1>10, <1>11, <1>12, <1>13, <2>1
<1>15. all \in Seq(ToSet(all))
  <2>1. \A i \in 1 .. N + 1 : all[i] \in ToSet(all)
    BY <1>12, <1>13 DEF ToSet
  <2>2. all = [i \in 1 .. N + 1 |-> all[i]]
    BY <1>12, <1>13
  <2>3. QED
    BY <1>11, <2>1, <2>2
<1>16. QED
  BY <1>6, <1>10, <1>11, <1>12, <1>13, <1>14, <1>15 DEF AnnounceInv

LEMMA NextKeepsAnnounceInv == AnnounceInv /\ [Next]_vars => AnnounceInv'
<1> SUFFICES ASSUME AnnounceInv, [Next]_vars PROVE AnnounceInv'
  OBVIOUS
<1>1. CASE rows' = rows /\ phase' # "show"
  BY <1>1 DEF AnnounceInv
<1>2. CASE rows' = rows /\ shown' = shown /\ phase' = phase
  BY <1>2 DEF AnnounceInv
<1>3. CASE ShowRow
  BY <1>3, ShowRowAnnounces
<1>4. CASE StartShow
  <2>1. /\ rows' = rows
        /\ shown' = [n \in DOMAIN timeline' |-> [last |-> << >>, cur |-> timeline'[n][1].ctx]]
    BY <1>4 DEF StartShow
  <2>2. \A n \in DOMAIN shown' : Announced(shown'[n])
    BY <2>1 DEF Announced
  <2>3. QED
    BY <2>1, <2>2 DEF AnnounceInv
<1>5. CASE UNCHANGED vars
  BY <1>2, <1>5 DEF vars
<1>6. CASE OpenPath \/ OpenFails \/ ReadLine \/ ShortLinePanics \/ LastLine \/ EndPath \/ EndOfPaths
           \/ \E key \in pending : ApplyRegex(key) \/ HandlerPanics(key)
  BY <1>1, <1>6 DEF OpenPath, OpenFails, ReadLine, ShortLinePanics, LastLine, EndPath, EndOfPaths,
                    ApplyRegex, HandlerPanics, output
<1>7. CASE EndShow \/ PrintContexts \/ StartSearch \/ Filter \/ EndSearch
  BY <1>1, <1>7 DEF EndShow, PrintContexts, StartSearch, Filter, EndSearch, output
<1>8. CASE \E i \in DOMAIN grep : Grep(i)
  BY <1>2, <1>8 DEF Grep, GrepScan, GrepFails, output
<1>9. QED
  BY <1>3, <1>4, <1>5, <1>6, <1>7, <1>8 DEF Next, Main, Report

(* A change of path, name, ip or version is in the row of the event that   *)
(* brought it and in no other, and the transitions of a row are as high in *)
(* every column (timelinecli.go: TimelineCLI, transitionSeparator).        *)
THEOREM ChangesAreAnnouncedOnce == Spec => []AnnouncedOnce
<1>1. Init => AnnounceInv
  <2>1. << >> \in Seq(ToSet(<< >>)) /\ Len(<< >>) = 0
    OBVIOUS
  <2>2. Init => rows = << >> /\ phase # "show"
    BY DEF Init
  <2>3. rows = << >> => rows \in Seq(ToSet(rows)) /\ Len(rows) = 0
    BY <2>1
  <2>4. QED
    BY <2>2, <2>3 DEF AnnounceInv
<1>2. AnnounceInv => AnnouncedOnce
  <2>1. AnnounceInv => DOMAIN rows = 1 .. Len(rows)
    BY DEF AnnounceInv
  <2>2. QED
    BY <2>1 DEF AnnounceInv, AnnouncedOnce, RowIsRight
<1>3. QED
  BY <1>1, <1>2, NextKeepsAnnounceInv, PTL DEF Spec

----------------------------------------------------------------------------
(* The votes on inconsistencies                                            *)

(* What an element appended to a list leaves alone.                        *)
LEMMA AppendedList ==
    ASSUME NEW q, IsList(q), NEW e
    PROVE  /\ IsList(Append(q, e)) /\ ToSet(Append(q, e)) = ToSet(q) \cup {e}
           /\ DOMAIN Append(q, e) = 1 .. Len(q) + 1 /\ DOMAIN q = 1 .. Len(q) /\ Len(q) \in Nat
           /\ Append(q, e)[Len(q) + 1] = e
           /\ \A i \in 1 .. Len(q) : Append(q, e)[i] = q[i]
<1> DEFINE S == ToSet(q) \cup {e}
           longer == Append(q, e)
           n == Len(q)
<1>1. n \in Nat /\ q \in Seq(S) /\ e \in S
  <2>1. ToSet(q) \subseteq S
    OBVIOUS
  <2>2. q \in Seq(ToSet(q))
    BY DEF IsList
  <2> HIDE DEF S
  <2>3. q \in Seq(S)
    BY <2>1, <2>2
  <2>4. QED
    BY <2>3 DEF S
<1>2. /\ longer \in Seq(S) /\ Len(longer) = n + 1 /\ longer[n + 1] = e
      /\ \A i \in 1 .. n : longer[i] = q[i]
  <2> HIDE DEF S
  <2>1. \A T : q \in Seq(T) /\ e \in T =>
            /\ Append(q, e) \in Seq(T) /\ Len(Append(q, e)) = Len(q) + 1
            /\ Append(q, e)[Len(q) + 1] = e
            /\ \A i \in 1 .. Len(q) : Append(q, e)[i] = q[i]
    BY AppendProperties
  <2>2. QED
    BY <1>1, <2>1
<1> HIDE DEF longer, n
<1>3. DOMAIN q = 1 .. n /\ DOMAIN longer = 1 .. n + 1 /\ n + 1 \in Nat
  <2> HIDE DEF S
  <2>1. QED
    BY <1>1, <1>2 DEF n
<1>4. ToSet(longer) = S
  <2>1. \A i \in 1 .. n + 1 : i = n + 1 \/ i \in 1 .. n
    BY <1>1
  <2>2. n + 1 \in 1 .. n + 1 /\ 1 .. n \subseteq 1 .. n + 1
    BY <1>1
  <2>3. \A x : x \in ToSet(longer) <=> \E i \in 1 .. n + 1 : longer[i] = x
    BY <1>3 DEF ToSet
  <2>4. \A x : x \in ToSet(q) <=> \E i \in 1 .. n : q[i] = x
    BY <1>3 DEF ToSet
  <2>5. QED
    BY <1>2, <2>1, <2>2, <2>3, <2>4
<1>5. longer \in Seq(ToSet(longer))
  BY <1>2, <1>4
<1>6. QED
  BY <1>1, <1>2, <1>3, <1>4, <1>5 DEF IsList, longer, n

(* What the votes need of the context, and what a handler that records no  *)
(* vote leaves alone.                                                      *)
CtxFields == DOMAIN NewLogCtx("")
ConflictFields == {"seqno", "by", "winner", "votes"}
IsState(t) ==
    /\ DOMAIN t = {"ctx", "ssts", "db"} /\ DOMAIN t.ctx = CtxFields
    /\ IsList(t.ctx.names) /\ IsList(t.ctx.conflicts)
    /\ \A i \in DOMAIN t.ctx.conflicts : DOMAIN t.ctx.conflicts[i] = ConflictFields
HasVote(t, seqno, node) ==
    \E i \in DOMAIN t.ctx.conflicts :
        t.ctx.conflicts[i].seqno = seqno /\ node \in DOMAIN t.ctx.conflicts[i].votes
Kept(t, u) ==
    /\ IsState(u) /\ OwnedBy(t.ctx) \subseteq OwnedBy(u.ctx)
    /\ \A seqno, node : HasVote(u, seqno, node) => HasVote(t, seqno, node)

LEMMA KeptFields ==
    /\ "names" \in CtxFields /\ "conflicts" \in CtxFields
    /\ \A t, u : IsState(t) /\ DOMAIN u = DOMAIN t /\ DOMAIN u.ctx = DOMAIN t.ctx
                 /\ u.ctx.names = t.ctx.names /\ u.ctx.conflicts = t.ctx.conflicts => Kept(t, u)
<1>1. "names" \in CtxFields /\ "conflicts" \in CtxFields
  BY DEF CtxFields, NewLogCtx
<1>2. ASSUME NEW t, NEW u, IsState(t), DOMAIN u = DOMAIN t, DOMAIN u.ctx = DOMAIN t.ctx,
             u.ctx.names = t.ctx.names, u.ctx.conflicts = t.ctx.conflicts
      PROVE  Kept(t, u)
  <2>1. IsState(u) /\ OwnedBy(t.ctx) = OwnedBy(u.ctx)
    BY <1>2 DEF IsState, OwnedBy
  <2>2. \A seqno, node : HasVote(u, seqno, node) => HasVote(t, seqno, node)
    BY <1>2 DEF HasVote
  <2>3. QED
    BY <2>1, <2>2 DEF Kept
<1>3. QED
  BY <1>1, <1>2

LEMMA KeptTrans ==
    ASSUME NEW t, NEW u, NEW v, Kept(t, u), Kept(u, v)
    PROVE  Kept(t, v)
  BY DEF Kept

LEMMA KeptSelf ==
    ASSUME NEW t, IsState(t)
    PROVE  Kept(t, t)
  BY DEF Kept

LEMMA KeptDB ==
    ASSUME NEW t, IsState(t), NEW db
    PROVE  Kept(t, [t EXCEPT !.db = db])
<1>1. PICK u : u = [t EXCEPT !.db = db]
  OBVIOUS
<1>2. DOMAIN u = DOMAIN t /\ u.ctx = t.ctx
  BY <1>1 DEF IsState
<1>3. QED
  BY <1>1, <1>2, KeptFields

LEMMA KeptSSTs ==
    ASSUME NEW t, IsState(t), NEW ssts
    PROVE  Kept(t, [t EXCEPT !.ssts = ssts])
<1>1. PICK u : u = [t EXCEPT !.ssts = ssts]
  OBVIOUS
<1>2. DOMAIN u = DOMAIN t /\ u.ctx = t.ctx
  BY <1>1 DEF IsState
<1>3. QED
  BY <1>1, <1>2, KeptFields

(* A field of the context other than the names and the conflicts.          *)
LEMMA KeptCtx ==
    ASSUME NEW t, IsState(t), NEW field, field \notin {"names", "conflicts"}, NEW value
    PROVE  Kept(t, [t EXCEPT !.ctx[field] = value])
<1>1. PICK u : u = [t EXCEPT !.ctx[field] = value]
  OBVIOUS
<1>2. DOMAIN u = DOMAIN t /\ u.ctx = [t.ctx EXCEPT ![field] = value]
  BY <1>1 DEF IsState
<1>3. DOMAIN u.ctx = DOMAIN t.ctx /\ u.ctx.names = t.ctx.names /\ u.ctx.conflicts = t.ctx.conflicts
  BY <1>2, KeptFields DEF IsState
<1>4. QED
  BY <1>1, <1>2, <1>3, KeptFields

(* The setters of the context that a handler calls.                        *)
LEMMA SetStateKeeps ==
    ASSUME NEW t, IsState(t), NEW state
    PROVE  Kept(t, SetState(t, state))
<1>1. CASE state \in WsrepStates
  <2>1. SetState(t, state) = [t EXCEPT !.ctx.states[StateFile(t.ctx)] = state]
    BY <1>1 DEF SetState
  <2>2. PICK states : states = [t.ctx.states EXCEPT ![StateFile(t.ctx)] = state]
    OBVIOUS
  <2>3. SetState(t, state) = [t EXCEPT !.ctx.states = states]
    BY <2>1, <2>2
  <2>4. QED
    BY <2>3, KeptCtx
<1>2. QED
  BY <1>1, KeptSelf DEF SetState

LEMMA AddOwnNameKeeps ==
    ASSUME NEW t, IsState(t), NEW long, NEW ts
    PROVE  Kept(t, AddOwnName(t, long, ts))
<1>1. PICK name : name = ShortForm(long)
  OBVIOUS
<1>2. CASE EndsWith(t.ctx.names, name)
  BY <1>1, <1>2, KeptSelf DEF AddOwnName
<1>3. CASE ~EndsWith(t.ctx.names, name)
  <2>1. PICK db : AddOwnName(t, long, ts) = [t EXCEPT !.ctx.names = Append(@, name), !.db = db]
    BY <1>1, <1>3 DEF AddOwnName
  <2>2. PICK u : u = AddOwnName(t, long, ts)
    OBVIOUS
  <2>3. PICK names : names = t.ctx.names
    OBVIOUS
  <2>4. /\ DOMAIN u = DOMAIN t /\ u.ctx = [t.ctx EXCEPT !.names = Append(names, name)]
    BY <2>1, <2>2, <2>3 DEF IsState
  <2>5. DOMAIN u.ctx = DOMAIN t.ctx /\ u.ctx.conflicts = t.ctx.conflicts
        /\ u.ctx.names = Append(names, name)
    BY <2>4, KeptFields DEF IsState
  <2>6. IsList(names)
    BY <2>3 DEF IsState
  <2>7. IsList(Append(names, name)) /\ ToSet(names) \subseteq ToSet(Append(names, name))
    BY <2>6, AppendedList
  <2>8. IsState(u) /\ OwnedBy(t.ctx) \subseteq OwnedBy(u.ctx)
    BY <2>3, <2>4, <2>5, <2>7 DEF IsState, OwnedBy
  <2>9. \A seqno, node : HasVote(u, seqno, node) => HasVote(t, seqno, node)
    BY <2>5 DEF HasVote
  <2>10. QED
    BY <2>2, <2>8, <2>9 DEF Kept
<1>4. QED
  BY <1>2, <1>3

LEMMA AddOwnHashKeeps ==
    ASSUME NEW t, IsState(t), NEW hash, NEW ts
    PROVE  Kept(t, AddOwnHash(t, hash, ts))
<1>1. CASE hash \in ToSet(t.ctx.hashes)
  BY <1>1, KeptSelf DEF AddOwnHash
<1>2. CASE hash \notin ToSet(t.ctx.hashes)
  <2>1. PICK db : AddOwnHash(t, hash, ts) = [t EXCEPT !.ctx.hashes = Append(@, hash), !.db = db]
    BY <1>2 DEF AddOwnHash
  <2>2. PICK hashes : hashes = Append(t.ctx.hashes, hash)
    OBVIOUS
  <2>3. PICK u : u = [t EXCEPT !.ctx.hashes = hashes]
    OBVIOUS
  <2>4. AddOwnHash(t, hash, ts) = [u EXCEPT !.db = db]
    BY <2>1, <2>2, <2>3
  <2>5. Kept(t, u)
    BY <2>3, KeptCtx
  <2>6. QED
    BY <2>4, <2>5, KeptDB, KeptTrans DEF Kept
<1>3. QED
  BY <1>1, <1>2

LEMMA AddOwnIPKeeps ==
    ASSUME NEW t, IsState(t), NEW ip, NEW ts
    PROVE  Kept(t, AddOwnIP(t, ip, ts))
<1>1. CASE EndsWith(t.ctx.ips, ip)
  BY <1>1, KeptSelf DEF AddOwnIP
<1>2. CASE ~EndsWith(t.ctx.ips, ip)
  <2>1. PICK db : AddOwnIP(t, ip, ts) = [t EXCEPT !.ctx.ips = Append(@, ip), !.db = db]
    BY <1>2 DEF AddOwnIP
  <2>2. PICK ips : ips = Append(t.ctx.ips, ip)
    OBVIOUS
  <2>3. PICK u : u = [t EXCEPT !.ctx.ips = ips]
    OBVIOUS
  <2>4. AddOwnIP(t, ip, ts) = [u EXCEPT !.db = db]
    BY <2>1, <2>2, <2>3
  <2>5. Kept(t, u)
    BY <2>3, KeptCtx
  <2>6. QED
    BY <2>4, <2>5, KeptDB, KeptTrans DEF Kept
<1>3. QED
  BY <1>1, <1>2

LEMMA AddOwnNamesKeeps ==
    ASSUME NEW t, IsState(t), NEW names, Len(names) \in Nat, NEW ts
    PROVE  Kept(t, AddOwnNames(t, names, ts))
<1> DEFINE Step(u, i) == AddOwnName(u, names[i], ts)
           Good(m, f) == f[0] = t /\ \A i \in 1 .. m : f[i] = Step(f[i - 1], i)
           Eq(f) == f = [i \in 0 .. Len(names) |-> IF i = 0 THEN t ELSE Step(f[i - 1], i)]
           E == {m \in 0 .. Len(names) : \E f : Good(m, f)}
           upTo == CHOOSE f : Eq(f)
<1>1. PICK N \in Nat : N = Len(names)
  OBVIOUS
<1>2. AddOwnNames(t, names, ts) = upTo[N]
  BY <1>1 DEF AddOwnNames
<1> HIDE DEF Step
<1>3. \E f : Good(N, f)
  <2>1. 0 \in E
    <3>1. [i \in 0 .. 0 |-> t][0] = t
      OBVIOUS
    <3>2. \E f : f[0] = t
      BY <3>1
    <3>3. QED
      BY <1>1, <3>2
  <2>2. ASSUME NEW n \in 1 .. N, n - 1 \in E PROVE n \in E
    <3>1. PICK f : Good(n - 1, f)
      BY <2>2
    <3> DEFINE g == [i \in 0 .. n |-> IF i = n THEN Step(f[n - 1], n) ELSE f[i]]
    <3>2. g[0] = t
      BY <3>1
    <3>3. ASSUME NEW i \in 1 .. n PROVE g[i] = Step(g[i - 1], i)
      <4>1. PICK k \in 0 .. n : k = i - 1 /\ k # n /\ i \in 0 .. n /\ k \in 0 .. n - 1
        OBVIOUS
      <4>2. g[k] = f[k]
        BY <4>1
      <4>3. CASE i = n
        BY <4>1, <4>2, <4>3
      <4>4. CASE i # n
        <5>1. i \in 1 .. n - 1 /\ g[i] = f[i]
          BY <4>4
        <5> HIDE DEF g
        <5>2. QED
          BY <3>1, <4>1, <4>2, <5>1
      <4>5. QED
        BY <4>3, <4>4
    <3> HIDE DEF g
    <3>4. Good(n, g)
      BY <3>2, <3>3
    <3>5. QED
      BY <1>1, <3>4
  <2>3. 0 .. N \subseteq E
    <3> HIDE DEF E
    <3>1. QED
      BY <2>1, <2>2, UpTo
  <2>4. QED
    BY <1>1, <2>3
<1>4. \E f : Eq(f)
  <2>1. PICK f : Good(N, f)
    BY <1>3
  <2> DEFINE g == [i \in 0 .. N |-> f[i]]
  <2>2. g = [i \in 0 .. N |-> IF i = 0 THEN t ELSE Step(g[i - 1], i)]
    <3>1. ASSUME NEW i \in 0 .. N PROVE g[i] = IF i = 0 THEN t ELSE Step(g[i - 1], i)
      <4>1. CASE i = 0
        BY <2>1, <4>1
      <4>2. CASE i # 0
        <5>1. i \in 1 .. N /\ i - 1 \in 0 .. N
          BY <4>2
        <5>2. g[i] = f[i] /\ g[i - 1] = f[i - 1]
          BY <5>1
        <5> HIDE DEF g
        <5>3. QED
          BY <2>1, <4>2, <5>1, <5>2
      <4>3. QED
        BY <4>1, <4>2
    <3>2. g = [i \in 0 .. N |-> g[i]]
      OBVIOUS
    <3> HIDE DEF g
    <3>3. QED
      BY <3>1, <3>2
  <2> HIDE DEF g
  <2>3. QED
    BY <1>1, <2>2
<1>5. Eq(upTo)
  <2> HIDE DEF Eq
  <2>1. QED
    BY <1>4
<1> HIDE DEF upTo
<1>6. upTo[0] = t /\ \A i \in 1 .. N : upTo[i] = Step(upTo[i - 1], i)
  <2>1. upTo = [i \in 0 .. N |-> IF i = 0 THEN t ELSE Step(upTo[i - 1], i)]
    BY <1>1, <1>5
  <2>2. \A i \in 0 .. N : upTo[i] = IF i = 0 THEN t ELSE Step(upTo[i - 1], i)
    BY <2>1
  <2>3. 0 \in 0 .. N /\ \A i \in 1 .. N : i \in 0 .. N /\ i # 0
    OBVIOUS
  <2>4. QED
    BY <2>2, <2>3
<1> DEFINE T == {i \in 0 .. N : Kept(t, upTo[i])}
<1>7. 0 \in T
  BY <1>6, KeptSelf
<1>8. ASSUME NEW n \in 1 .. N, n - 1 \in T PROVE n \in T
  <2>1. PICK u : u = upTo[n - 1] /\ Kept(t, u)
    BY <1>8
  <2>2. upTo[n] = AddOwnName(u, names[n], ts)
    BY <1>6, <2>1 DEF Step
  <2>3. Kept(u, upTo[n])
    BY <2>1, <2>2, AddOwnNameKeeps DEF Kept
  <2>4. QED
    BY <2>1, <2>3, KeptTrans
<1>9. 0 .. N \subseteq T
  <2> HIDE DEF T
  <2>1. QED
    BY <1>7, <1>8, UpTo
<1>10. QED
  BY <1>2, <1>9

(* What a displayer goes with.                                             *)
LEMMA ShowsState ==
    ASSUME NEW u, NEW show, NEW o \in Shows(u, show)
    PROVE  o.s = u
  BY DEF Shows

LEMMA AllShowState ==
    ASSUME NEW outcomes, NEW show, NEW o \in AllShow(outcomes, show)
    PROVE  o.s \in outcomes
  BY DEF AllShow

(* The handlers that record no vote.                                       *)
LEMMA EventKeeps ==
    ASSUME NEW t, IsState(t), NEW l, NEW key \in EventKeys, NEW o \in EventHandler(key, l, t)
    PROVE  Kept(t, o.s)
<1>1. CASE key = "Starting"
  <2>1. PICK u : u = [t EXCEPT !.ctx.version = l.version]
    OBVIOUS
  <2>2. \E show : EventHandler(key, l, t) = Shows(SetState(u, "OPEN"), show)
    BY <1>1, <2>1 DEF EventHandler, CloseEvents, ShownEvents
  <2>3. o.s = SetState(u, "OPEN")
    BY <2>2, ShowsState
  <2>4. Kept(t, u)
    BY <2>1, KeptCtx
  <2>5. QED
    BY <2>3, <2>4, SetStateKeeps, KeptTrans DEF Kept
<1>2. CASE key \in CloseEvents
  <2>1. EventHandler(key, l, t) = Shows(SetState(t, "CLOSED"), Text(l, ""))
    BY <1>2 DEF EventHandler, CloseEvents, ShownEvents
  <2>2. Kept(t, SetState(t, "CLOSED"))
    BY SetStateKeeps
  <2>3. QED
    BY <2>1, <2>2, ShowsState
<1>3. CASE key = "WsrepLoad"
  <2>1. EventHandler(key, l, t) = Shows(SetState(t, "OPEN"), Text(l, ""))
    BY <1>3 DEF EventHandler, CloseEvents, ShownEvents
  <2>2. Kept(t, SetState(t, "OPEN"))
    BY SetStateKeeps
  <2>3. QED
    BY <2>1, <2>2, ShowsState
<1>4. CASE key = "WsrepRecovery"
  <2>1. \E show : EventHandler(key, l, t) = Shows(SetState(t, "RECOVERY"), show)
    BY <1>4 DEF EventHandler, CloseEvents, ShownEvents
  <2>2. QED
    BY <2>1, ShowsState, SetStateKeeps
<1>5. CASE key \in ShownEvents
  <2>1. EventHandler(key, l, t) \in {{}, Shows(t, Text(l, ""))}
    BY <1>5 DEF EventHandler, CloseEvents, ShownEvents
  <2>2. QED
    BY <2>1, ShowsState, KeptSelf
<1>6. QED
  BY <1>1, <1>2, <1>3, <1>4, <1>5 DEF EventKeys

LEMMA ViewKeeps ==
    ASSUME NEW t, IsState(t), NEW l, NEW key \in ViewKeys, NEW o \in ViewHandler(key, l, t)
    PROVE  Kept(t, o.s)
<1>1. CASE key \in {"NodeEstablished", "NodeJoined", "NodeLeft", "NodeChangedIdentity"}
  <2>1. \E db, show : ViewHandler(key, l, t) = Shows([t EXCEPT !.db = db], show)
    BY <1>1 DEF ViewHandler, CloseViews, ShownViews
  <2>2. QED
    BY <2>1, ShowsState, KeptDB
<1>2. CASE key = "NewComponent"
  <2>1. ViewHandler(key, l, t) = NewComponent(l, t)
    BY <1>2 DEF ViewHandler, CloseViews, ShownViews
  <2>2. PICK u : u = [t EXCEPT !.ctx.members = l.n]
    OBVIOUS
  <2>3. \E state, show : NewComponent(l, t) = Shows(SetState(u, state), show)
    BY <2>2 DEF NewComponent
  <2>4. Kept(t, u)
    BY <2>2, KeptCtx
  <2>5. PICK state : o.s = SetState(u, state)
    BY <2>1, <2>3, ShowsState
  <2>6. QED
    BY <2>4, <2>5, SetStateKeeps, KeptTrans DEF Kept
<1>3. CASE key \in CloseViews
  <2>1. ViewHandler(key, l, t) = Shows(SetState(t, "CLOSED"), Text(l, ""))
    BY <1>3 DEF ViewHandler, CloseViews, ShownViews
  <2>2. Kept(t, SetState(t, "CLOSED"))
    BY SetStateKeeps
  <2>3. QED
    BY <2>1, <2>2, ShowsState
<1>4. CASE key \in ShownViews \cup {"NodeSuspect"}
  <2>1. \E show : ViewHandler(key, l, t) = Shows(t, show)
    BY <1>4 DEF ViewHandler, CloseViews, ShownViews
  <2>2. QED
    BY <2>1, ShowsState, KeptSelf
<1>5. QED
  BY <1>1, <1>2, <1>3, <1>4 DEF ViewKeys

LEMMA TransferKeeps ==
    ASSUME NEW t, IsState(t), NEW l, NEW key \in TransferKeys, NEW o \in TransferHandler(key, l, t)
    PROVE  Kept(t, o.s)
<1>1. \E ssts, show : TransferHandler(key, l, t) = Shows([t EXCEPT !.ssts = ssts], show)
  BY DEF TransferHandler, TransferKeys, SSTEnds
<1>2. QED
  BY <1>1, ShowsState, KeptSSTs

LEMMA SetSSTTypeKeeps ==
    ASSUME NEW t, IsState(t), NEW type, NEW u \in SetSSTTypeMaybe(t, type)
    PROVE  Kept(t, u)
<1>1. u = t \/ \E k : u = [t EXCEPT !.ssts[k].type = type]
  BY DEF SetSSTTypeMaybe
<1>2. CASE \E k : u = [t EXCEPT !.ssts[k].type = type]
  <2>1. PICK ssts : u = [t EXCEPT !.ssts = ssts]
    BY <1>2
  <2>2. QED
    BY <2>1, KeptSSTs
<1>3. QED
  BY <1>1, <1>2, KeptSelf

LEMMA LocalTransferKeeps ==
    ASSUME NEW t, IsState(t), NEW l, NEW key \in LocalTransferKeys,
           NEW o \in LocalTransferHandler(key, l, t)
    PROVE  Kept(t, o.s)
<1>1. ASSUME NEW state, NEW type, o.s \in SetSSTTypeMaybe(SetState(t, state), type)
      PROVE  Kept(t, o.s)
  <2>1. PICK u : u = SetState(t, state)
    OBVIOUS
  <2>2. Kept(t, u)
    BY <2>1, SetStateKeeps
  <2>3. Kept(u, o.s)
    BY <1>1, <2>1, <2>2, SetSSTTypeKeeps DEF Kept
  <2>4. QED
    BY <2>2, <2>3, KeptTrans
<1>2. CASE key \in {"SSTProceeding", "ISTSender", "ISTReceiver"}
  <2>1. \E state, type, show :
          LocalTransferHandler(key, l, t) = AllShow(SetSSTTypeMaybe(SetState(t, state), type), show)
    BY <1>2 DEF LocalTransferHandler, ShownSSTs
  <2>2. QED
    BY <1>1, <2>1, AllShowState
<1>3. CASE key = "SSTStreamingTo"
  <2>1. LocalTransferHandler(key, l, t) = Shows(SetState(t, "DONOR"), ByIP(l))
    BY <1>3 DEF LocalTransferHandler, ShownSSTs
  <2>2. QED
    BY <2>1, ShowsState, SetStateKeeps
<1>4. CASE key \in {"FailedToPrepareIST", "XtrabackupISTReceived", "BypassSST"}
  <2>1. \E type, show : LocalTransferHandler(key, l, t) = AllShow(SetSSTTypeMaybe(t, type), show)
    BY <1>4 DEF LocalTransferHandler, ShownSSTs
  <2>2. QED
    BY <2>1, AllShowState, SetSSTTypeKeeps
<1>5. CASE key \in ShownSSTs \cup {"ISTFailed"}
  <2>1. \E show : LocalTransferHandler(key, l, t) = Shows(t, show)
    BY <1>5 DEF LocalTransferHandler, ShownSSTs
  <2>2. QED
    BY <2>1, ShowsState, KeptSelf
<1>6. QED
  BY <1>2, <1>3, <1>4, <1>5 DEF LocalTransferKeys

LEMMA StateKeeps ==
    ASSUME NEW t, IsState(t), NEW l, NEW key \in StateKeys, NEW o \in StateHandler(key, l, t)
    PROVE  Kept(t, o.s)
<1>1. PICK u : u = SetState(t, l.state)
  OBVIOUS
<1>2. Kept(t, u)
  BY <1>1, SetStateKeeps
<1>3. \E known, show : /\ StateHandler(key, l, t) = AllShow(known, show)
                       /\ known \in {{u}, ConfirmSSTMetadata(u, l.ts)}
  BY <1>1 DEF StateHandler
<1>4. o.s = u \/ o.s \in ConfirmSSTMetadata(u, l.ts)
  BY <1>3, AllShowState
<1>5. CASE o.s \in ConfirmSSTMetadata(u, l.ts) /\ o.s # u
  <2>1. PICK local : \E order \in Orders(local) : \E names :
           DOMAIN names = DOMAIN order /\ names = [i \in DOMAIN order |-> names[i]]
           /\ o.s = AddOwnNames(u, names, l.ts)
    <3> DEFINE NameIn(k) == IF State(u.ctx) = "DONOR" THEN k ELSE u.ssts[k].joiner
               local == {k \in DOMAIN u.ssts : MustHaveHappenedLocally(u.ssts[k], l.ts)}
    <3>1. PICK order \in Orders(local) :
              o.s = AddOwnNames(u, [i \in DOMAIN order |-> NameIn(order[i])], l.ts)
      BY <1>5 DEF ConfirmSSTMetadata
    <3>2. PICK names : names = [i \in DOMAIN order |-> NameIn(order[i])]
      OBVIOUS
    <3> HIDE DEF NameIn, local
    <3>3. QED
      BY <3>1, <3>2
  <2>2. PICK order \in Orders(local) : \E names :
           DOMAIN names = DOMAIN order /\ names = [i \in DOMAIN order |-> names[i]]
           /\ o.s = AddOwnNames(u, names, l.ts)
    BY <2>1
  <2>3. PICK n \in Nat : DOMAIN order = 1 .. n
    BY OrderVisits
  <2>4. PICK names : names = [i \in 1 .. n |-> names[i]] /\ o.s = AddOwnNames(u, names, l.ts)
    BY <2>2, <2>3
  <2>5. Len(names) \in Nat
    BY <2>4
  <2>6. IsState(u)
    BY <1>2 DEF Kept
  <2>7. QED
    BY <1>2, <2>4, <2>5, <2>6, AddOwnNamesKeeps, KeptTrans
<1>6. QED
  BY <1>2, <1>4, <1>5

LEMMA MemberKeeps ==
    ASSUME NEW t, IsState(t), NEW l, NEW o \in MemberAssociations(l, t)
    PROVE  Kept(t, o.s)
<1>1. PICK hash, name, db : /\ hash = ShortForm(l.uuid) /\ name = ShortForm(l.name)
                            /\ db = AddHashToNodeName(t.db, hash, name, l.ts)
  OBVIOUS
<1>2. PICK named : named = [t EXCEPT !.db = db]
  OBVIOUS
<1>3. PICK hashed : hashed = AddOwnHash(named, hash, l.ts)
  OBVIOUS
<1>4. \E show : MemberAssociations(l, t) \in {Shows(t, show), Shows(named, show),
                                              Shows(AddOwnName(hashed, name, l.ts), show)}
  BY <1>1, <1>2, <1>3 DEF MemberAssociations
<1>5. o.s \in {t, named, AddOwnName(hashed, name, l.ts)}
  BY <1>4, ShowsState
<1>6. Kept(t, named)
  BY <1>2, KeptDB
<1>7. Kept(named, hashed)
  BY <1>3, <1>6, AddOwnHashKeeps DEF Kept
<1>8. Kept(hashed, AddOwnName(hashed, name, l.ts))
  BY <1>7, AddOwnNameKeeps DEF Kept
<1>9. QED
  BY <1>5, <1>6, <1>7, <1>8, KeptTrans, KeptSelf

LEMMA IdentKeeps ==
    ASSUME NEW t, IsState(t), NEW l, NEW key \in IdentKeys, NEW o \in IdentHandler(key, l, t)
    PROVE  Kept(t, o.s)
<1>1. CASE key \in {"SourceNode", "BaseHost"}
  <2>1. IdentHandler(key, l, t) = Shows(AddOwnIP(t, l.ip, l.ts), Text(l, ""))
    BY <1>1 DEF IdentHandler
  <2>2. QED
    BY <2>1, ShowsState, AddOwnIPKeeps
<1>2. CASE key = "MemberAssociations"
  <2>1. IdentHandler(key, l, t) = MemberAssociations(FirstEntry(l), t)
    BY <1>2 DEF IdentHandler
  <2>2. QED
    BY <2>1, MemberKeeps
<1>3. CASE key = "MemberCount"
  <2>1. PICK u : u = [t EXCEPT !.ctx.members = l.n]
    OBVIOUS
  <2>2. IdentHandler(key, l, t) = Shows(u, Text(l, ""))
    BY <1>3, <2>1 DEF IdentHandler
  <2>3. o.s = u
    BY <2>2, ShowsState
  <2>4. QED
    BY <2>1, <2>3, KeptCtx
<1>4. CASE key \in {"OwnUUID", "OwnUUIDFromMessageRelay", "OwnUUIDFromEstablished"}
  <2>1. \E hash : IdentHandler(key, l, t) = Shows(AddOwnHash(t, hash, l.ts), Text(l, ""))
    BY <1>4 DEF IdentHandler
  <2>2. QED
    BY <2>1, ShowsState, AddOwnHashKeeps
<1>5. CASE key \in {"MyIDXFromComponent", "OwnIndexFromView"}
  <2>1. PICK u : u = [t EXCEPT !.ctx.myIdx = l.idx]
    OBVIOUS
  <2>2. IdentHandler(key, l, t) = Shows(u, Text(l, ""))
    BY <1>5, <2>1 DEF IdentHandler
  <2>3. o.s = u
    BY <2>2, ShowsState
  <2>4. QED
    BY <2>1, <2>3, KeptCtx
<1>6. QED
  BY <1>1, <1>2, <1>3, <1>4, <1>5 DEF IdentKeys

LEMMA OperatorViewKeeps ==
    ASSUME NEW first, IsState(first), NEW l, Len(l.members) \in Nat, NEW o \in OperatorView(l, first)
    PROVE  Kept(first, o.s)
<1>0. PICK t : t = [first EXCEPT !.ctx.myIdx = l.idx]
  OBVIOUS
<1> DEFINE Step(u, i) == (CHOOSE p \in MemberAssociations(Entry(l, l.members[i]), u) : TRUE).s
           Good(m, f) == f[0] = t /\ \A i \in 1 .. m : f[i] = Step(f[i - 1], i)
           Eq(f) == f = [i \in 0 .. Len(l.members) |-> IF i = 0 THEN t ELSE Step(f[i - 1], i)]
           E == {m \in 0 .. Len(l.members) : \E f : Good(m, f)}
           upTo == CHOOSE f : Eq(f)
<1>1. PICK N \in Nat : N = Len(l.members)
  OBVIOUS
<1>2. o.s = upTo[N]
  <2>1. \E show : OperatorView(l, first) \in {{}, Shows(upTo[N], show)}
    BY <1>0, <1>1 DEF OperatorView
  <2> HIDE DEF upTo
  <2>2. QED
    BY <2>1, ShowsState
<1> HIDE DEF Step
<1>3. \E f : Good(N, f)
  <2>1. 0 \in E
    <3>1. [i \in 0 .. 0 |-> t][0] = t
      OBVIOUS
    <3>2. \E f : f[0] = t
      BY <3>1
    <3>3. QED
      BY <1>1, <3>2
  <2>2. ASSUME NEW n \in 1 .. N, n - 1 \in E PROVE n \in E
    <3>1. PICK f : Good(n - 1, f)
      BY <2>2
    <3> DEFINE g == [i \in 0 .. n |-> IF i = n THEN Step(f[n - 1], n) ELSE f[i]]
    <3>2. g[0] = t
      BY <3>1
    <3>3. ASSUME NEW i \in 1 .. n PROVE g[i] = Step(g[i - 1], i)
      <4>1. PICK k \in 0 .. n : k = i - 1 /\ k # n /\ i \in 0 .. n /\ k \in 0 .. n - 1
        OBVIOUS
      <4>2. g[k] = f[k]
        BY <4>1
      <4>3. CASE i = n
        BY <4>1, <4>2, <4>3
      <4>4. CASE i # n
        <5>1. i \in 1 .. n - 1 /\ g[i] = f[i]
          BY <4>4
        <5> HIDE DEF g
        <5>2. QED
          BY <3>1, <4>1, <4>2, <5>1
      <4>5. QED
        BY <4>3, <4>4
    <3> HIDE DEF g
    <3>4. Good(n, g)
      BY <3>2, <3>3
    <3>5. QED
      BY <1>1, <3>4
  <2>3. 0 .. N \subseteq E
    <3> HIDE DEF E
    <3>1. QED
      BY <2>1, <2>2, UpTo
  <2>4. QED
    BY <1>1, <2>3
<1>4. \E f : Eq(f)
  <2>1. PICK f : Good(N, f)
    BY <1>3
  <2> DEFINE g == [i \in 0 .. N |-> f[i]]
  <2>2. g = [i \in 0 .. N |-> IF i = 0 THEN t ELSE Step(g[i - 1], i)]
    <3>1. ASSUME NEW i \in 0 .. N PROVE g[i] = IF i = 0 THEN t ELSE Step(g[i - 1], i)
      <4>1. CASE i = 0
        BY <2>1, <4>1
      <4>2. CASE i # 0
        <5>1. i \in 1 .. N /\ i - 1 \in 0 .. N
          BY <4>2
        <5>2. g[i] = f[i] /\ g[i - 1] = f[i - 1]
          BY <5>1
        <5> HIDE DEF g
        <5>3. QED
          BY <2>1, <4>2, <5>1, <5>2
      <4>3. QED
        BY <4>1, <4>2
    <3>2. g = [i \in 0 .. N |-> g[i]]
      OBVIOUS
    <3> HIDE DEF g
    <3>3. QED
      BY <3>1, <3>2
  <2> HIDE DEF g
  <2>3. QED
    BY <1>1, <2>2
<1>5. Eq(upTo)
  <2> HIDE DEF Eq
  <2>1. QED
    BY <1>4
<1> HIDE DEF upTo
<1>6. upTo[0] = t /\ \A i \in 1 .. N : upTo[i] = Step(upTo[i - 1], i)
  <2>1. upTo = [i \in 0 .. N |-> IF i = 0 THEN t ELSE Step(upTo[i - 1], i)]
    BY <1>1, <1>5
  <2>2. \A i \in 0 .. N : upTo[i] = IF i = 0 THEN t ELSE Step(upTo[i - 1], i)
    BY <2>1
  <2>3. 0 \in 0 .. N /\ \A i \in 1 .. N : i \in 0 .. N /\ i # 0
    OBVIOUS
  <2>4. QED
    BY <2>2, <2>3
<1> DEFINE T == {i \in 0 .. N : Kept(t, upTo[i])}
<1>7. 0 \in T
  <2>1. IsState(t)
    BY <1>0, KeptCtx DEF Kept
  <2>2. QED
    BY <1>6, <2>1, KeptSelf
<1>8. ASSUME NEW n \in 1 .. N, n - 1 \in T PROVE n \in T
  <2>1. PICK u : u = upTo[n - 1] /\ Kept(t, u)
    BY <1>8
  <2>2. PICK entry : upTo[n] = (CHOOSE p \in MemberAssociations(entry, u) : TRUE).s
    BY <1>6, <2>1 DEF Step
  <2>3. MemberAssociations(entry, u) # {}
    BY DEF MemberAssociations, Shows
  <2>4. \E p \in MemberAssociations(entry, u) : upTo[n] = p.s
    BY <2>2, <2>3
  <2>5. Kept(u, upTo[n])
    BY <2>1, <2>4, MemberKeeps DEF Kept
  <2>6. QED
    BY <2>1, <2>5, KeptTrans
<1>9. 0 .. N \subseteq T
  <2> HIDE DEF T
  <2>1. QED
    BY <1>7, <1>8, UpTo
<1>10. Kept(first, t)
  BY <1>0, KeptCtx
<1>11. Kept(t, upTo[N])
  BY <1>1, <1>9
<1>12. QED
  BY <1>2, <1>10, <1>11, KeptTrans

LEMMA OperatorKeeps ==
    ASSUME NEW t, IsState(t), NEW l, Len(l.members) \in Nat, NEW key \in OperatorKeys,
           NEW o \in OperatorHandler(key, l, t)
    PROVE  Kept(t, o.s)
<1>1. CASE key = "NodeNameFromEnv"
  <2>1. OperatorHandler(key, l, t) = Shows(AddOwnName(t, l.name, l.ts), Text(l, ""))
    BY <1>1 DEF OperatorHandler
  <2>2. QED
    BY <2>1, ShowsState, AddOwnNameKeeps
<1>2. CASE key = "NodeIPFromEnv"
  <2>1. OperatorHandler(key, l, t) = Shows(AddOwnIP(t, l.ip, l.ts), Text(l, ""))
    BY <1>2 DEF OperatorHandler
  <2>2. QED
    BY <2>1, ShowsState, AddOwnIPKeeps
<1>3. CASE key = "GcacheScan"
  <2>1. OperatorHandler(key, l, t) = Shows(t, Text(l, ""))
    BY <1>3 DEF OperatorHandler
  <2>2. QED
    BY <2>1, ShowsState, KeptSelf
<1>4. CASE key = "OperatorMemberAssociations"
  <2>1. OperatorHandler(key, l, t) = OperatorView(l, t)
    BY <1>4 DEF OperatorHandler
  <2>2. QED
    BY <2>1, OperatorViewKeeps
<1>5. CASE key = "PodName"
  <2>1. PICK pod : pod = <<l.name, l.name2>>
    OBVIOUS
  <2>2. PICK u : u = [t EXCEPT !.ctx.pod = pod]
    OBVIOUS
  <2>3. OperatorHandler(key, l, t) = Shows(u, Text(l, ""))
    BY <1>5, <2>1, <2>2 DEF OperatorHandler
  <2>4. o.s = u
    BY <2>3, ShowsState
  <2>5. Kept(t, [t EXCEPT !.ctx.pod = pod])
    BY KeptCtx
  <2>6. QED
    BY <2>2, <2>4, <2>5
<1>6. QED
  BY <1>1, <1>2, <1>3, <1>4, <1>5 DEF OperatorKeys

(* Setting the conflicts alone.                                            *)
LEMMA KeptConflicts ==
    ASSUME NEW t, IsState(t), NEW conflicts, IsList(conflicts),
           \A i \in DOMAIN conflicts : DOMAIN conflicts[i] = ConflictFields
    PROVE  LET u == [t EXCEPT !.ctx.conflicts = conflicts]
           IN  IsState(u) /\ u.ctx.conflicts = conflicts /\ OwnedBy(u.ctx) = OwnedBy(t.ctx)
<1>1. PICK u : u = [t EXCEPT !.ctx.conflicts = conflicts]
  OBVIOUS
<1>2. DOMAIN u = DOMAIN t /\ u.ctx = [t.ctx EXCEPT !.conflicts = conflicts]
  BY <1>1 DEF IsState
<1>3. DOMAIN u.ctx = DOMAIN t.ctx /\ u.ctx.names = t.ctx.names /\ u.ctx.conflicts = conflicts
  BY <1>2, KeptFields DEF IsState
<1>4. IsState(u) /\ OwnedBy(u.ctx) = OwnedBy(t.ctx)
  BY <1>2, <1>3 DEF IsState, OwnedBy
<1>5. QED
  BY <1>1, <1>3, <1>4

(* Changing the elements of a list.                                        *)
LEMMA ChangedList ==
    ASSUME NEW p, NEW q, IsList(p), q = [i \in DOMAIN p |-> q[i]]
    PROVE  IsList(q) /\ DOMAIN q = DOMAIN p
<1>1. PICK n \in Nat : DOMAIN p = 1 .. n
  BY DEF IsList
<1>2. q = [i \in 1 .. n |-> q[i]] /\ \A i \in 1 .. n : q[i] \in ToSet(q)
  BY <1>1 DEF ToSet
<1>3. q \in Seq(ToSet(q))
  BY <1>2
<1>4. QED
  BY <1>1, <1>2, <1>3 DEF IsList

(* Deciding or resetting a conflict adds no vote.                          *)
LEMMA OutcomeKeeps ==
    ASSUME NEW t, IsState(t), NEW l, NEW key \in OutcomeKeys, NEW o \in OutcomeHandler(key, l, t)
    PROVE  Kept(t, o.s)
<1> DEFINE old == t.ctx.conflicts
<1>1. ASSUME NEW new, new = [i \in DOMAIN old |-> new[i]], o.s = [t EXCEPT !.ctx.conflicts = new],
             \A i \in DOMAIN old : /\ DOMAIN new[i] = ConflictFields
                                   /\ new[i].seqno = old[i].seqno
                                   /\ DOMAIN new[i].votes = DOMAIN old[i].votes
      PROVE  Kept(t, o.s)
  <2>1. IsList(new) /\ DOMAIN new = DOMAIN old
    <3>1. IsList(old)
      BY DEF IsState
    <3> HIDE DEF old
    <3>2. QED
      BY <1>1, <3>1, ChangedList
  <2>2. \A i \in DOMAIN new : DOMAIN new[i] = ConflictFields
    BY <1>1, <2>1
  <2>3. PICK u : u = [t EXCEPT !.ctx.conflicts = new]
    OBVIOUS
  <2>4. IsState(u) /\ u.ctx.conflicts = new /\ OwnedBy(u.ctx) = OwnedBy(t.ctx)
    BY <2>1, <2>2, <2>3, KeptConflicts
  <2>5. \A seqno, node : HasVote(u, seqno, node) => HasVote(t, seqno, node)
    BY <1>1, <2>1, <2>4 DEF HasVote
  <2>6. QED
    BY <1>1, <2>3, <2>4, <2>5 DEF Kept
<1>2. CASE key \in {"Desync", "Resync"}
  <2>1. PICK u : u = [t EXCEPT !.ctx.desynced = (key = "Desync")]
    OBVIOUS
  <2>2. \E show : OutcomeHandler(key, l, t) = Shows(u, show)
    BY <1>2, <2>1 DEF OutcomeHandler
  <2>3. o.s = u
    BY <2>2, ShowsState
  <2>4. QED
    BY <2>1, <2>3, KeptCtx
<1>3. CASE key = "InconsistencyVoted"
  <2>1. OutcomeHandler(key, l, t) = Shows(t, Text(l, ""))
    BY <1>3 DEF OutcomeHandler
  <2>2. QED
    BY <2>1, ShowsState, KeptSelf
<1>4. CASE key = "InconsistencyWinner"
  <2>1. PICK i : i = ConflictFromMD5(old, l.md5)
    OBVIOUS
  <2>2. PICK new : new = [old EXCEPT ![i].winner = l.md5]
    OBVIOUS
  <2>3. \E show : OutcomeHandler(key, l, t) \in {Shows(t, show), Shows([t EXCEPT !.ctx.conflicts = new], show)}
    BY <1>4, <2>1, <2>2 DEF OutcomeHandler
  <2>4. o.s = t \/ o.s = [t EXCEPT !.ctx.conflicts = new]
    BY <2>3, ShowsState
  <2>5. \A j \in DOMAIN old : DOMAIN old[j] = ConflictFields
    BY DEF IsState
  <2> HIDE DEF old
  <2>6. new = [j \in DOMAIN old |-> new[j]]
    BY <2>2
  <2>7. ASSUME NEW j \in DOMAIN old
        PROVE  DOMAIN new[j] = ConflictFields /\ new[j].seqno = old[j].seqno
               /\ DOMAIN new[j].votes = DOMAIN old[j].votes
    <3>1. new[j] = IF j = i THEN [old[j] EXCEPT !.winner = l.md5] ELSE old[j]
      BY <2>2
    <3>2. QED
      BY <2>5, <3>1 DEF ConflictFields
  <2>8. QED
    BY <1>1, <2>4, <2>6, <2>7, KeptSelf
<1>5. CASE key = "InconsistencyVoteRecomputed"
  <2> DEFINE Renamed(c) == [c EXCEPT !.votes = [n \in DOMAIN @ |->
                                                  IF @[n] = l.md52 THEN l.md5 ELSE @[n]]]
  <2>1. PICK new : new = [j \in DOMAIN old |-> Renamed(old[j])]
    OBVIOUS
  <2>2. \E show : OutcomeHandler(key, l, t) = Shows([t EXCEPT !.ctx.conflicts = new], show)
    BY <1>5, <2>1 DEF OutcomeHandler
  <2>3. o.s = [t EXCEPT !.ctx.conflicts = new]
    BY <2>2, ShowsState
  <2>4. \A j \in DOMAIN old : DOMAIN old[j] = ConflictFields
    BY DEF IsState
  <2> HIDE DEF old
  <2>5. ASSUME NEW j \in DOMAIN old
        PROVE  DOMAIN new[j] = ConflictFields /\ new[j].seqno = old[j].seqno
               /\ DOMAIN new[j].votes = DOMAIN old[j].votes
    <3>1. new[j] = Renamed(old[j])
      BY <2>1
    <3>2. QED
      BY <2>4, <3>1 DEF ConflictFields
  <2> HIDE DEF Renamed
  <2>6. new = [j \in DOMAIN old |-> new[j]]
    BY <2>1
  <2>7. QED
    BY <1>1, <2>3, <2>5, <2>6
<1>6. QED
  BY <1>2, <1>3, <1>4, <1>5 DEF OutcomeKeys

(* The conflict of a seqno is the one the context lists.                   *)
LEMMA ConflictFound ==
    ASSUME NEW conflicts, IsList(conflicts), NEW seqno
    PROVE  LET i == ConflictWithSeqno(conflicts, seqno)
           IN  i = 0 \/ (i \in DOMAIN conflicts /\ conflicts[i].seqno = seqno)
<1> DEFINE I == {i \in 1 .. Len(conflicts) : conflicts[i].seqno = seqno}
<1>1. ConflictWithSeqno(conflicts, seqno) = IF I # {} THEN Min(I) ELSE 0
  BY DEF ConflictWithSeqno, SelectInSeq
<1>2. CASE I # {}
  <2>1. PICK x \in I : \A y \in I : x <= y
    <3>1. I \subseteq Nat
      OBVIOUS
    <3> HIDE DEF I
    <3>2. QED
      BY <1>2, <3>1, Smallest
  <2>2. Min(I) \in I
    <3> HIDE DEF I
    <3>1. QED
      BY <2>1 DEF Min
  <2>3. DOMAIN conflicts = 1 .. Len(conflicts)
    BY DEF IsList
  <2>4. QED
    BY <1>1, <1>2, <2>2, <2>3
<1>3. QED
  BY <1>1, <1>2

(* One more vote on a seqno.                                               *)
Adds(t, u, seqno, node) ==
    /\ IsState(u) /\ OwnedBy(u.ctx) = OwnedBy(t.ctx)
    /\ \A q, n : HasVote(u, q, n) => HasVote(t, q, n) \/ (q = seqno /\ n = node)

(* Writing a vote into its conflict.                                       *)
LEMMA VotedAdds ==
    ASSUME NEW t, IsState(t), NEW i \in DOMAIN t.ctx.conflicts, NEW votes, NEW node,
           DOMAIN votes = {node}
    PROVE  Adds(t, [t EXCEPT !.ctx.conflicts = [t.ctx.conflicts EXCEPT ![i].votes = Vote(@, votes)]],
                t.ctx.conflicts[i].seqno, node)
<1>1. PICK old : old = t.ctx.conflicts
  OBVIOUS
<1>2. PICK new : new = [old EXCEPT ![i].votes = Vote(@, votes)]
  OBVIOUS
<1>3. PICK u : u = [t EXCEPT !.ctx.conflicts = new]
  OBVIOUS
<1>4. IsList(old) /\ \A j \in DOMAIN old : DOMAIN old[j] = ConflictFields
  BY <1>1 DEF IsState
<1>5. \A j \in DOMAIN old :
        new[j] = IF j = i THEN [old[i] EXCEPT !.votes = Vote(@, votes)] ELSE old[j]
  BY <1>1, <1>2
<1>6. new = [j \in DOMAIN old |-> new[j]]
  BY <1>2
<1>7. IsList(new) /\ DOMAIN new = DOMAIN old
  BY <1>4, <1>6, ChangedList
<1>8. ASSUME NEW j \in DOMAIN old
      PROVE  /\ DOMAIN new[j] = ConflictFields /\ new[j].seqno = old[j].seqno
             /\ \A n \in DOMAIN new[j].votes :
                  n \in DOMAIN old[j].votes \/ (j = i /\ n = node)
  <2>1. CASE j = i
    <3>1. new[j] = [old[j] EXCEPT !.votes = Vote(@, votes)]
      BY <1>5, <2>1
    <3>2. DOMAIN new[j] = ConflictFields /\ new[j].seqno = old[j].seqno
          /\ new[j].votes = Vote(old[j].votes, votes)
      BY <1>4, <3>1 DEF ConflictFields
    <3>3. DOMAIN new[j].votes = DOMAIN old[j].votes \cup {node}
      BY <3>2 DEF Vote
    <3>4. QED
      BY <2>1, <3>2, <3>3
  <2>2. QED
    BY <1>4, <1>5, <2>1
<1>9. IsState(u) /\ u.ctx.conflicts = new /\ OwnedBy(u.ctx) = OwnedBy(t.ctx)
  BY <1>3, <1>7, <1>8, KeptConflicts
<1>10. ASSUME NEW q, NEW n, HasVote(u, q, n)
       PROVE  HasVote(t, q, n) \/ (q = old[i].seqno /\ n = node)
  <2>1. PICK j \in DOMAIN old : new[j].seqno = q /\ n \in DOMAIN new[j].votes
    BY <1>7, <1>9, <1>10 DEF HasVote
  <2>2. old[j].seqno = q /\ (n \in DOMAIN old[j].votes \/ (j = i /\ n = node))
    BY <1>8, <2>1
  <2>3. QED
    BY <1>1, <2>2 DEF HasVote
<1>11. Adds(t, u, old[i].seqno, node)
  BY <1>9, <1>10 DEF Adds
<1>12. QED
  BY <1>1, <1>2, <1>3, <1>11

LEMMA MergeAdds ==
    ASSUME NEW t, IsState(t), NEW c, DOMAIN c = ConflictFields, NEW node, DOMAIN c.votes = {node}
    PROVE  Adds(t, [t EXCEPT !.ctx.conflicts = MergeConflict(t.ctx.conflicts, c)], c.seqno, node)
<1>1. PICK old : old = t.ctx.conflicts
  OBVIOUS
<1>2. PICK i : i = ConflictWithSeqno(old, c.seqno)
  OBVIOUS
<1>3. IsList(old) /\ \A j \in DOMAIN old : DOMAIN old[j] = ConflictFields
  BY <1>1 DEF IsState
<1>4. CASE i # 0
  <2>1. i \in DOMAIN old /\ old[i].seqno = c.seqno
    BY <1>2, <1>3, <1>4, ConflictFound
  <2>2. MergeConflict(old, c) = [old EXCEPT ![i].votes = Vote(@, c.votes)]
    BY <1>2, <1>4 DEF MergeConflict
  <2>3. Adds(t, [t EXCEPT !.ctx.conflicts = [old EXCEPT ![i].votes = Vote(@, c.votes)]],
             old[i].seqno, node)
    BY <1>1, <2>1, VotedAdds
  <2>4. QED
    BY <1>1, <2>1, <2>2, <2>3
<1>5. CASE i = 0
  <2>1. PICK new : new = MergeConflict(old, c) /\ new = Append(old, c)
    BY <1>2, <1>5 DEF MergeConflict
  <2>2. PICK N \in Nat : N = Len(old) /\ DOMAIN old = 1 .. N
    BY <1>3, AppendedList
  <2>3. /\ IsList(new) /\ DOMAIN new = 1 .. N + 1 /\ new[N + 1] = c
        /\ \A j \in 1 .. N : new[j] = old[j]
    BY <1>3, <2>1, <2>2, AppendedList
  <2>4. ASSUME NEW j \in DOMAIN new
        PROVE  DOMAIN new[j] = ConflictFields /\ (new[j] = c \/ \E k \in DOMAIN old : new[j] = old[k])
    <3>1. j = N + 1 \/ j \in 1 .. N
      BY <2>3
    <3>2. CASE j \in 1 .. N
      BY <1>3, <2>2, <2>3, <3>2
    <3>3. QED
      BY <2>3, <3>1, <3>2
  <2>5. PICK u : u = [t EXCEPT !.ctx.conflicts = new]
    OBVIOUS
  <2>6. IsState(u) /\ u.ctx.conflicts = new /\ OwnedBy(u.ctx) = OwnedBy(t.ctx)
    BY <2>3, <2>4, <2>5, KeptConflicts
  <2>7. ASSUME NEW q, NEW n, HasVote(u, q, n)
        PROVE  HasVote(t, q, n) \/ (q = c.seqno /\ n = node)
    <3>1. PICK j \in DOMAIN new : new[j].seqno = q /\ n \in DOMAIN new[j].votes
      BY <2>6, <2>7 DEF HasVote
    <3>2. QED
      BY <1>1, <2>4, <3>1 DEF HasVote
  <2>8. QED
    BY <1>1, <2>1, <2>5, <2>6, <2>7 DEF Adds
<1>6. QED
  BY <1>4, <1>5

(* Who a line says voted: the node it names, or the server of the log.     *)
Casts(key, l, t, node) ==
    \/ key \in NamedVotes /\ node = l.name
    \/ key \in VoteKeys \ NamedVotes /\ node \in OwnedBy(t.ctx)

LEMMA VoteAdds ==
    ASSUME NEW t, IsState(t), NEW l, NEW key \in VoteKeys, NEW o \in VoteHandler(key, l, t)
    PROVE  Kept(t, o.s) \/ \E node : Casts(key, l, t, node) /\ Adds(t, o.s, l.seqno, node)
<1>1. PICK old : old = t.ctx.conflicts
  OBVIOUS
<1>2. PICK i : i = ConflictWithSeqno(old, l.seqno)
  OBVIOUS
<1>3. IsList(old) /\ IsList(t.ctx.names)
  BY <1>1 DEF IsState
<1>4. PICK Voted : Voted = [node \in {l.name, Last(t.ctx.names)} |-> [md5 \in {l.md5, Success} |->
          [t EXCEPT !.ctx.conflicts = [old EXCEPT ![i].votes = Vote(@, [n \in {node} |-> md5])]]]]
  OBVIOUS
<1>5. ASSUME i # 0, NEW node \in {l.name, Last(t.ctx.names)}, NEW md5 \in {l.md5, Success}
      PROVE  Adds(t, Voted[node][md5], l.seqno, node)
  <2>1. i \in DOMAIN old /\ old[i].seqno = l.seqno
    BY <1>2, <1>3, <1>5, ConflictFound
  <2>2. PICK votes : votes = [n \in {node} |-> md5]
    OBVIOUS
  <2>3. Adds(t, [t EXCEPT !.ctx.conflicts = [old EXCEPT ![i].votes = Vote(@, votes)]],
             old[i].seqno, node)
    BY <1>1, <2>1, <2>2, VotedAdds
  <2>4. Voted[node][md5] =
            [t EXCEPT !.ctx.conflicts = [old EXCEPT ![i].votes = Vote(@, votes)]]
    BY <1>4, <1>5, <2>2
  <2>5. QED
    BY <2>1, <2>3, <2>4
<1>6. CASE key = "InconsistencyVoteInit"
  <2>1. PICK c : c = [seqno |-> l.seqno, by |-> l.name, winner |-> "",
                      votes |-> [n \in {l.name} |-> l.md5]]
    OBVIOUS
  <2>2. DOMAIN c = ConflictFields /\ c.seqno = l.seqno /\ DOMAIN c.votes = {l.name}
    BY <2>1 DEF ConflictFields
  <2>3. PICK u : u = [t EXCEPT !.ctx.conflicts = MergeConflict(old, c)]
    OBVIOUS
  <2>4. \E show : VoteHandler(key, l, t) = Shows(u, show)
    BY <1>1, <1>6, <2>1, <2>3 DEF VoteHandler
  <2>5. o.s = u
    BY <2>4, ShowsState
  <2>6. Adds(t, u, l.seqno, l.name)
    BY <1>1, <2>2, <2>3, MergeAdds
  <2>7. Casts(key, l, t, l.name)
    BY <1>6 DEF Casts, NamedVotes
  <2>8. QED
    BY <2>5, <2>6, <2>7
<1>7. CASE key = "InconsistencyVoteRespond"
  <2>1. \E show : VoteHandler(key, l, t) \in {IF i = 0 THEN Shows(t, show)
                                              ELSE Shows(Voted[l.name][l.md5], show)}
    BY <1>1, <1>2, <1>4, <1>7 DEF VoteHandler
  <2>2. o.s = t \/ (i # 0 /\ o.s = Voted[l.name][l.md5])
    BY <2>1, ShowsState
  <2>3. Casts(key, l, t, l.name)
    BY <1>7 DEF Casts, NamedVotes
  <2>4. QED
    BY <1>5, <2>2, <2>3, KeptSelf
<1>8. CASE key \in VoteKeys \ NamedVotes
  <2>1. \E md5 \in {l.md5, Success} : \E show :
            VoteHandler(key, l, t) \in {Shows(t, show)} \cup
                (IF i = 0 \/ t.ctx.names = << >> THEN {} ELSE {Shows(Voted[Last(t.ctx.names)][md5], show)})
    BY <1>1, <1>2, <1>4, <1>8 DEF VoteHandler, VoteKeys, NamedVotes
  <2>2. o.s = t \/ (i # 0 /\ t.ctx.names # << >> /\
                    \E md5 \in {l.md5, Success} : o.s = Voted[Last(t.ctx.names)][md5])
    BY <2>1, ShowsState
  <2>3. t.ctx.names # << >> => Last(t.ctx.names) \in OwnedBy(t.ctx)
    <3>1. PICK names : names = t.ctx.names /\ names \in Seq(ToSet(names))
      BY <1>3 DEF IsList
    <3>2. names # << >> => Last(names) \in ToSet(names)
      BY <3>1 DEF Last
    <3>3. QED
      BY <3>1, <3>2 DEF OwnedBy
  <2>4. QED
    BY <1>5, <1>8, <2>2, <2>3, KeptSelf DEF Casts
<1>9. QED
  BY <1>6, <1>7, <1>8 DEF VoteKeys, NamedVotes

(* A handler leaves the votes alone, or adds the one its line tells of.    *)
LEMMA HandleAdds ==
    ASSUME NEW t, IsState(t), NEW l, Len(l.members) \in Nat, NEW key, NEW quiet,
           NEW o \in Handle(key, l, t, quiet),
           key \in EventKeys \cup ViewKeys \cup TransferKeys \cup LocalTransferKeys \cup StateKeys
                   \cup IdentKeys \cup VoteKeys \cup OutcomeKeys \cup OperatorKeys \cup CustomKeys
    PROVE  /\ IsState(o.s) /\ OwnedBy(t.ctx) \subseteq OwnedBy(o.s.ctx)
           /\ \A q, n : HasVote(o.s, q, n) =>
                HasVote(t, q, n) \/ (q = l.seqno /\ Casts(key, l, o.s, n))
<1>1. PICK verbosity : verbosity = Earlier(t.ctx.minVerbosity, VerbosityOf(key, quiet))
  OBVIOUS
<1>2. PICK u : u = [t EXCEPT !.ctx.minVerbosity = verbosity]
  OBVIOUS
<1>3. Kept(t, u)
  BY <1>2, KeptCtx
<1>4. o \in CASE ~Captures(key, l) -> Shows(u, Nil)
          [] key \in EventKeys -> EventHandler(key, l, u)
          [] key \in ViewKeys -> ViewHandler(key, l, u)
          [] key \in TransferKeys -> TransferHandler(key, l, u)
          [] key \in LocalTransferKeys -> LocalTransferHandler(key, l, u)
          [] key \in StateKeys -> StateHandler(key, l, u)
          [] key \in IdentKeys -> IdentHandler(key, l, u)
          [] key \in VoteKeys -> VoteHandler(key, l, u)
          [] key \in OutcomeKeys -> OutcomeHandler(key, l, u)
          [] key \in OperatorKeys -> OperatorHandler(key, l, u)
          [] key \in CustomKeys -> CustomHandler(l, u)
  BY <1>1, <1>2 DEF Handle
<1>5. \/ ~Captures(key, l) /\ o \in Shows(u, Nil)
      \/ key \in EventKeys /\ o \in EventHandler(key, l, u)
      \/ key \in ViewKeys /\ o \in ViewHandler(key, l, u)
      \/ key \in TransferKeys /\ o \in TransferHandler(key, l, u)
      \/ key \in LocalTransferKeys /\ o \in LocalTransferHandler(key, l, u)
      \/ key \in StateKeys /\ o \in StateHandler(key, l, u)
      \/ key \in IdentKeys /\ o \in IdentHandler(key, l, u)
      \/ key \in VoteKeys /\ o \in VoteHandler(key, l, u)
      \/ key \in OutcomeKeys /\ o \in OutcomeHandler(key, l, u)
      \/ key \in OperatorKeys /\ o \in OperatorHandler(key, l, u)
      \/ key \in CustomKeys /\ o \in CustomHandler(l, u)
  BY <1>4
<1>6. IsState(u)
  BY <1>3 DEF Kept
<1>7. Kept(u, o.s) \/ \E node : key \in VoteKeys /\ Casts(key, l, u, node) /\ Adds(u, o.s, l.seqno, node)
  <2>1. CASE o \in Shows(u, Nil)
    BY <1>6, <2>1, ShowsState, KeptSelf
  <2>2. CASE key \in CustomKeys /\ o \in CustomHandler(l, u)
    BY <1>6, <2>2, ShowsState, KeptSelf DEF CustomHandler
  <2>3. QED
    BY <1>5, <1>6, <2>1, <2>2, EventKeeps, ViewKeeps, TransferKeeps, LocalTransferKeeps, StateKeeps,
       IdentKeeps, VoteAdds, OutcomeKeeps, OperatorKeeps
<1>8. CASE Kept(u, o.s)
  BY <1>3, <1>8, KeptTrans DEF Kept
<1>9. ASSUME NEW node, Casts(key, l, u, node), Adds(u, o.s, l.seqno, node)
      PROVE  /\ IsState(o.s) /\ OwnedBy(t.ctx) \subseteq OwnedBy(o.s.ctx)
             /\ \A q, n : HasVote(o.s, q, n) =>
                  HasVote(t, q, n) \/ (q = l.seqno /\ Casts(key, l, o.s, n))
  BY <1>3, <1>9 DEF Kept, Adds, Casts
<1>10. QED
  BY <1>7, <1>8, <1>9

(* The regexes that may find a line are known to Handle; a vote is found   *)
(* by the one regex of its kind.                                           *)
LEMMA KeysAreHandled ==
    ASSUME NEW key \in KeysInUse, input \in Inputs
    PROVE  key \in EventKeys \cup ViewKeys \cup TransferKeys \cup LocalTransferKeys \cup StateKeys
                   \cup IdentKeys \cup VoteKeys \cup OutcomeKeys \cup OperatorKeys \cup CustomKeys
<1>1. KeysInUse = KeysOfCommand(input)
  BY DEF KeysInUse, KeysOfInput
<1>2. QED
  BY <1>1 DEF KeysOfCommand, ListKeys, SSTKeys, ApplicativeKeys

LEMMA VotesHaveTheirKind ==
    ASSUME NEW l, NEW key \in RegexesOf(l) \cap VoteKeys
    PROVE  l.kind = key
  BY DEF RegexesOf, VoteKeys

(* What the reading of a log knows.                                        *)
Log(i) == LogOf[Paths[i]]
Tells(l, m) ==
    /\ l.kind = m.kind /\ l.name = m.name /\ l.seqno = m.seqno /\ Len(l.members) \in Nat
    /\ pending \subseteq RegexesOf(m) \cap KeysInUse
Told == \E p \in 1 .. grep[current].pos - 1 : Tells(line, LogOf[Path][p])
VotesCast == \A seqno, node : HasVote(s, seqno, node) => CastBefore(node, seqno)

VoteInv ==
    /\ input \in Inputs /\ current \in Nat \ {0}
    /\ grep \in [DOMAIN Paths -> [st : {"idle", "scan", "send", "closed", "stuck"}, pos : Nat \ {0}]]
    /\ \A i \in DOMAIN grep : grep[i].st = "send" => grep[i].pos \in DOMAIN Log(i)
    /\ IsState(s)
    /\ phase \in {"read", "apply"} => current \in DOMAIN grep /\ VotesCast
    /\ phase = "apply" => Told

(* What the assumption says of the lines of a log.                         *)
LEMMA LogLines ==
    ASSUME NEW path \in DOMAIN LogOf
    PROVE  /\ IsList(LogOf[path]) /\ DOMAIN LogOf[path] = 1 .. Len(LogOf[path])
           /\ Len(LogOf[path]) \in Nat
           /\ \A p \in DOMAIN LogOf[path] :
                DOMAIN LogOf[path][p] = LineFields /\ Len(LogOf[path][p].members) \in Nat
<1>1. PICK log : log = LogOf[path]
  OBVIOUS
<1>2. IsList(log) /\ \A l \in ToSet(log) : DOMAIN l = LineFields /\ IsList(l.members)
  BY <1>1, LogExplainerAssumption
<1>3. DOMAIN log = 1 .. Len(log) /\ Len(log) \in Nat
  BY <1>2 DEF IsList
<1>4. ASSUME NEW p \in DOMAIN log
      PROVE  DOMAIN log[p] = LineFields /\ Len(log[p].members) \in Nat
  <2>1. log[p] \in ToSet(log)
    BY DEF ToSet
  <2>2. DOMAIN log[p] = LineFields /\ IsList(log[p].members)
    BY <1>2, <2>1
  <2>3. QED
    BY <2>2 DEF IsList
<1>5. QED
  BY <1>1, <1>2, <1>3, <1>4

LEMMA PathsAre ==
    ASSUME input \in Inputs
    PROVE  /\ Paths \in Seq(DOMAIN LogOf) /\ DOMAIN Paths = 1 .. Len(Paths) /\ Len(Paths) \in Nat
           /\ \A i \in DOMAIN Paths : Paths[i] \in DOMAIN LogOf
<1>1. Paths \in Seq(DOMAIN LogOf)
  BY LogExplainerAssumption DEF Paths
<1>2. QED
  BY <1>1

(* The least line that grep keeps is one of them.                          *)
LEMMA KeptIsFound ==
    ASSUME NEW kept, kept \subseteq Nat, kept # {}
    PROVE  Min(kept) \in kept
<1>1. PICK x \in kept : \A y \in kept : x <= y
  BY Smallest
<1>2. QED
  BY <1>1 DEF Min

(* A vote that was cast stays cast while the log is read further.          *)
LEMMA CastStays ==
    ASSUME VoteInv, current \in DOMAIN grep, current' = current, input' = input,
           grep'[current].pos \in Nat, grep[current].pos <= grep'[current].pos,
           OwnedBy(s.ctx) \subseteq OwnedBy(s'.ctx), NEW seqno, NEW node, CastBefore(node, seqno)
    PROVE  CastBefore(node, seqno)'
<1>1. Path' = Path
  BY DEF Path, Paths
<1>2. grep[current].pos \in Nat
  BY DEF VoteInv
<1>3. 1 .. grep[current].pos - 1 \subseteq 1 .. grep'[current].pos - 1
  BY <1>2
<1>4. PICK p \in 1 .. grep[current].pos - 1 :
        /\ LogOf[Path][p].seqno = seqno
        /\ \/ LogOf[Path][p].kind \in NamedVotes /\ LogOf[Path][p].name = node
           \/ LogOf[Path][p].kind \in VoteKeys \ NamedVotes /\ node \in OwnedBy(s.ctx)
  BY DEF CastBefore
<1>5. p \in 1 .. grep'[current].pos - 1
  BY <1>3
<1>6. QED
  BY <1>1, <1>4, <1>5 DEF CastBefore

LEMMA GrepKeepsVoteInv ==
    ASSUME VoteInv, NEW i \in DOMAIN grep, Grep(i)
    PROVE  VoteInv'
<1>1. /\ input' = input /\ phase' = phase /\ current' = current /\ s' = s /\ line' = line
      /\ pending' = pending
  BY DEF Grep, GrepScan, GrepFails, reading
<1>2. /\ Paths' = Paths /\ Path' = Path /\ DOMAIN grep = DOMAIN Paths /\ KeysInUse' = KeysInUse
      /\ \A j : Log(j)' = Log(j)
  BY <1>1 DEF VoteInv, Paths, Path, Log, KeysInUse
<1>3. PICK n \in Nat \ {0} : n = grep[i].pos
  BY DEF VoteInv
<1> DEFINE kept == {p \in n .. Len(Log(i)) : GrepKeeps(Log(i)[p])}
<1>4. PICK e : /\ grep' = [grep EXCEPT ![i] = e]
               /\ e \in [st : {"idle", "scan", "send", "closed", "stuck"}, pos : Nat \ {0}]
               /\ n <= e.pos /\ (e.st = "send" => e.pos \in DOMAIN Log(i))
  <2>1. CASE \E st \in {"closed", "stuck"} : grep' = [grep EXCEPT ![i] = [grep[i] EXCEPT !.st = st]]
    <3>1. PICK st \in {"closed", "stuck"} : grep' = [grep EXCEPT ![i] = [grep[i] EXCEPT !.st = st]]
      BY <2>1
    <3>2. PICK e : e = [grep[i] EXCEPT !.st = st]
      OBVIOUS
    <3>3. grep[i] \in [st : {"idle", "scan", "send", "closed", "stuck"}, pos : Nat \ {0}]
      BY DEF VoteInv
    <3>4. e \in [st : {"idle", "scan", "send", "closed", "stuck"}, pos : Nat \ {0}]
          /\ e.pos = n /\ e.st # "send"
      BY <1>3, <3>2, <3>3
    <3>5. grep' = [grep EXCEPT ![i] = e] /\ n <= e.pos
      BY <3>1, <3>2, <3>4
    <3> HIDE DEF kept
    <3>6. QED
      BY <3>4, <3>5
  <2>2. CASE kept # {} /\ grep' = [grep EXCEPT ![i] = [st |-> "send", pos |-> Min(kept)]]
    <3>1. grep' = [grep EXCEPT ![i] = [st |-> "send", pos |-> Min(kept)]]
      BY <2>2
    <3>2. Paths[i] \in DOMAIN LogOf /\ DOMAIN Log(i) = 1 .. Len(Log(i))
      BY <1>2, PathsAre, LogLines DEF VoteInv, Log
    <3>3. kept \subseteq Nat /\ kept \subseteq n .. Len(Log(i))
      BY <1>3
    <3>4. Min(kept) \in kept
      <4> HIDE DEF kept
      <4>1. QED
        BY <2>2, <3>3, KeptIsFound
    <3>5. PICK m \in Nat \ {0} : m = Min(kept) /\ n <= m /\ m \in DOMAIN Log(i)
      <4> HIDE DEF kept
      <4>1. Min(kept) \in n .. Len(Log(i)) /\ Min(kept) \in Nat
        BY <3>3, <3>4
      <4>2. Min(kept) \in 1 .. Len(Log(i)) /\ n <= Min(kept) /\ Min(kept) # 0
        BY <1>3, <4>1
      <4>3. QED
        BY <3>2, <4>1, <4>2
    <3> HIDE DEF kept
    <3>6. PICK e : e = [st |-> "send", pos |-> m]
      OBVIOUS
    <3>7. e \in [st : {"idle", "scan", "send", "closed", "stuck"}, pos : Nat \ {0}]
      BY <3>5, <3>6
    <3>8. grep' = [grep EXCEPT ![i] = e] /\ n <= e.pos /\ e.pos \in DOMAIN Log(i)
      BY <3>1, <3>5, <3>6
    <3>9. QED
      BY <3>7, <3>8
  <2>3. CASE GrepFails(i)
    <3>1. grep' = [grep EXCEPT ![i] = [grep[i] EXCEPT !.st = "closed"]]
      BY <1>2, <2>3 DEF GrepFails
    <3>2. QED
      BY <2>1, <3>1
  <2>4. CASE GrepScan(i)
    <3>1. PICK next \in AfterScan(grep[i], Log(i)) : grep' = [grep EXCEPT ![i] = next]
      BY <2>4 DEF GrepScan, Log
    <3>2. \/ \E st \in {"closed", "stuck"} : next = [grep[i] EXCEPT !.st = st]
          \/ kept # {} /\ next = [st |-> "send", pos |-> Min(kept)]
      BY <1>3 DEF AfterScan
    <3> HIDE DEF kept
    <3>3. QED
      BY <2>1, <2>2, <3>1, <3>2
  <2>5. QED
    BY <2>3, <2>4 DEF Grep
<1> HIDE DEF kept
<1>5. grep' \in [DOMAIN Paths' -> [st : {"idle", "scan", "send", "closed", "stuck"}, pos : Nat \ {0}]]
  BY <1>2, <1>4 DEF VoteInv
<1>6. \A j \in DOMAIN grep' : grep'[j].st = "send" => grep'[j].pos \in DOMAIN Log(j)'
  BY <1>2, <1>4 DEF VoteInv
<1>7. ASSUME current \in DOMAIN grep
      PROVE  grep'[current].pos \in Nat /\ grep[current].pos <= grep'[current].pos
  BY <1>3, <1>4, <1>7 DEF VoteInv
<1>8. ASSUME phase \in {"read", "apply"} PROVE VotesCast'
  <2>1. \A seqno, node : HasVote(s, seqno, node) => CastBefore(node, seqno)'
    BY <1>1, <1>7, <1>8, CastStays DEF VoteInv, VotesCast
  <2>2. QED
    BY <1>1, <2>1 DEF VotesCast, HasVote
<1>9. ASSUME phase = "apply" PROVE Told'
  <2>1. PICK p \in 1 .. grep[current].pos - 1 : Tells(line, LogOf[Path][p])
    BY <1>9 DEF VoteInv, Told
  <2>2. grep[current].pos \in Nat /\ current \in DOMAIN grep
    BY <1>9 DEF VoteInv
  <2>3. p \in 1 .. grep'[current].pos - 1
    BY <1>7, <2>2
  <2>4. Tells(line, LogOf[Path][p])'
    BY <1>1, <1>2, <2>1 DEF Tells
  <2>5. QED
    BY <1>1, <2>3, <2>4 DEF Told
<1>10. DOMAIN grep' = DOMAIN grep
  BY <1>4
<1>11. QED
  BY <1>1, <1>5, <1>6, <1>8, <1>9, <1>10 DEF VoteInv

(* The step that takes a line from the grep: it is one it has passed.      *)
LEMMA ReadLineKeepsVoteInv ==
    ASSUME VoteInv, ReadLine
    PROVE  VoteInv'
<1>1. /\ phase = "read" /\ grep[current].st = "send" /\ current \in DOMAIN grep /\ VotesCast
      /\ DOMAIN grep = DOMAIN Paths
      /\ input' = input /\ current' = current
      /\ grep' = [grep EXCEPT ![current] = [st |-> "scan", pos |-> @.pos + 1]]
  BY DEF ReadLine, VoteInv
<1>2. PICK n \in Nat \ {0} : n = grep[current].pos
  BY <1>1 DEF VoteInv
<1>3. PICK l : l = LogOf[Path][n]
  OBVIOUS
<1> DEFINE ts == IF l.date = 0 THEN timestamp ELSE l.date
           late == input.until # 0 /\ ts > input.until
           skipped == ts < input.since
           kept == ~late /\ ~skipped
<1>4. /\ line' = IF kept THEN [l EXCEPT !.ts = ts] ELSE NoLine
      /\ pending' = IF kept THEN RegexesOf(l) \cap KeysInUse ELSE {}
      /\ s' = IF kept THEN [s EXCEPT !.ctx.ft = l.ft] ELSE s
      /\ phase' = IF skipped THEN "read" ELSE IF late THEN "next" ELSE "apply"
  BY <1>2, <1>3 DEF ReadLine
<1>5. phase' \in {"read", "next", "apply"} /\ (phase' = "apply" => kept)
  BY <1>4
<1> HIDE DEF ts, late, skipped, kept
<1>6. DOMAIN l = LineFields /\ Len(l.members) \in Nat
  <2>1. n \in DOMAIN Log(current) /\ Path \in DOMAIN LogOf
    BY <1>1, <1>2, PathsAre DEF VoteInv, Path
  <2>2. n \in DOMAIN LogOf[Path]
    BY <2>1 DEF Log, Path
  <2>3. QED
    BY <1>3, <2>1, <2>2, LogLines
<1>7. Paths' = Paths /\ Path' = Path /\ KeysInUse' = KeysInUse /\ \A j : Log(j)' = Log(j)
  BY <1>1 DEF Paths, Path, KeysInUse, Log
<1>8. PICK e : e = [st |-> "scan", pos |-> n + 1] /\ grep' = [grep EXCEPT ![current] = e]
  BY <1>1, <1>2
<1>9. /\ grep' \in [DOMAIN Paths' -> [st : {"idle", "scan", "send", "closed", "stuck"}, pos : Nat \ {0}]]
      /\ DOMAIN grep' = DOMAIN grep /\ grep'[current] = e
  <2>1. e \in [st : {"idle", "scan", "send", "closed", "stuck"}, pos : Nat \ {0}]
    BY <1>8
  <2>2. QED
    BY <1>1, <1>7, <1>8, <2>1 DEF VoteInv
<1>10. \A j \in DOMAIN grep' : grep'[j].st = "send" => grep'[j].pos \in DOMAIN Log(j)'
  BY <1>7, <1>8, <1>9 DEF VoteInv
<1>11. grep'[current].pos = n + 1 /\ n + 1 \in Nat /\ n <= n + 1
  BY <1>8, <1>9
<1>12. Kept(s, s')
  <2>1. IsState(s)
    BY DEF VoteInv
  <2>2. CASE kept
    <3>1. PICK t, ft : t = s /\ ft = l.ft
      OBVIOUS
    <3>2. Kept(t, [t EXCEPT !.ctx.ft = ft])
      BY <2>1, <3>1, KeptCtx
    <3>3. s' = [t EXCEPT !.ctx.ft = ft]
      BY <1>4, <2>2, <3>1
    <3>4. QED
      BY <3>1, <3>2, <3>3
  <2>3. QED
    BY <1>4, <2>1, <2>2, KeptSelf
<1>13. VotesCast'
  <2>1. \A seqno, node : HasVote(s, seqno, node) => CastBefore(node, seqno)'
    BY <1>1, <1>2, <1>11, <1>12, CastStays DEF VotesCast, Kept
  <2>2. \A seqno, node : HasVote(s', seqno, node) => CastBefore(node, seqno)'
    BY <1>12, <2>1 DEF Kept
  <2>3. QED
    BY <2>2 DEF VotesCast
<1>14. ASSUME kept PROVE Told'
  <2>1. line' = [l EXCEPT !.ts = ts] /\ pending' = RegexesOf(l) \cap KeysInUse
    BY <1>4, <1>14
  <2>2. line'.kind = l.kind /\ line'.name = l.name /\ line'.seqno = l.seqno
        /\ line'.members = l.members
    BY <1>6, <2>1 DEF LineFields
  <2>3. Tells(line, l)'
    BY <1>6, <1>7, <2>1, <2>2 DEF Tells
  <2>4. n \in 1 .. grep'[current].pos - 1
    BY <1>11
  <2>5. LogOf[Path'][n] = l
    BY <1>3, <1>7
  <2>6. QED
    BY <1>1, <2>3, <2>4, <2>5 DEF Told, Tells
<1>15. IsState(s')
  BY <1>12 DEF Kept
<1>16. QED
  BY <1>1, <1>5, <1>9, <1>10, <1>13, <1>14, <1>15 DEF VoteInv

(* The step of a regex: the vote it may add is told of by that line.       *)
LEMMA ApplyKeepsVoteInv ==
    ASSUME VoteInv, NEW key \in pending, ApplyRegex(key)
    PROVE  VoteInv'
<1>1. /\ phase = "apply" /\ input' = input /\ current' = current /\ grep' = grep /\ line' = line
      /\ pending' = pending \ {key} /\ phase' \in {"read", "apply"}
      /\ current \in DOMAIN grep /\ VotesCast /\ Told
  BY DEF ApplyRegex, VoteInv
<1>2. PICK o \in Handle(key, line, s, Quiet) : s' = o.s
  BY DEF ApplyRegex
<1>3. PICK p \in 1 .. grep[current].pos - 1 : Tells(line, LogOf[Path][p])
  BY <1>1 DEF Told
<1>4. PICK l : l = LogOf[Path][p]
  OBVIOUS
<1>5. Tells(line, l) /\ key \in RegexesOf(l) /\ key \in KeysInUse /\ Len(line.members) \in Nat
  BY <1>3, <1>4 DEF Tells
<1>6. /\ IsState(s') /\ OwnedBy(s.ctx) \subseteq OwnedBy(s'.ctx)
      /\ \A q, n : HasVote(s', q, n) =>
           HasVote(s, q, n) \/ (q = line.seqno /\ Casts(key, line, s', n))
  <2>1. PICK t, m, quiet, u : t = s /\ m = line /\ quiet = Quiet /\ u = s'
    OBVIOUS
  <2>2. o \in Handle(key, m, t, quiet) /\ IsState(t) /\ Len(m.members) \in Nat /\ u = o.s
    BY <1>2, <1>5, <2>1 DEF VoteInv
  <2>3. key \in EventKeys \cup ViewKeys \cup TransferKeys \cup LocalTransferKeys \cup StateKeys
                   \cup IdentKeys \cup VoteKeys \cup OutcomeKeys \cup OperatorKeys \cup CustomKeys
    BY <1>5, KeysAreHandled DEF VoteInv
  <2>4. /\ IsState(u) /\ OwnedBy(t.ctx) \subseteq OwnedBy(u.ctx)
        /\ \A q, n : HasVote(u, q, n) =>
             HasVote(t, q, n) \/ (q = m.seqno /\ Casts(key, m, u, n))
    BY <2>2, <2>3, HandleAdds
  <2>5. QED
    BY <2>1, <2>4
<1>7. Paths' = Paths /\ Path' = Path /\ KeysInUse' = KeysInUse /\ \A j : Log(j)' = Log(j)
  BY <1>1 DEF Paths, Path, KeysInUse, Log
<1>8. ASSUME NEW q, NEW n, q = line.seqno, Casts(key, line, s', n)
      PROVE  CastBefore(n, q)'
  <2>1. l.seqno = q /\ l.name = line.name
    BY <1>5, <1>8 DEF Tells
  <2>2. key \in VoteKeys /\ l.kind = key
    <3>1. key \in VoteKeys
      BY <1>8 DEF Casts, VoteKeys, NamedVotes
    <3>2. QED
      BY <1>5, <3>1, VotesHaveTheirKind
  <2>3. \/ l.kind \in NamedVotes /\ l.name = n
        \/ l.kind \in VoteKeys \ NamedVotes /\ n \in OwnedBy(s'.ctx)
    BY <1>8, <2>1, <2>2 DEF Casts
  <2>4. p \in 1 .. grep'[current'].pos - 1 /\ l = LogOf[Path'][p]
    BY <1>1, <1>4, <1>7
  <2>5. QED
    BY <2>1, <2>3, <2>4 DEF CastBefore
<1>9. VotesCast'
  <2>1. grep[current].pos \in Nat
    BY <1>1 DEF VoteInv
  <2>2. grep'[current].pos \in Nat /\ grep[current].pos <= grep'[current].pos
    BY <1>1, <2>1
  <2>3. \A seqno, node : HasVote(s, seqno, node) => CastBefore(node, seqno)'
    BY <1>1, <1>6, <2>2, CastStays DEF VotesCast
  <2>4. \A seqno, node : HasVote(s', seqno, node) => CastBefore(node, seqno)'
    BY <1>6, <1>8, <2>3
  <2>5. QED
    BY <2>4 DEF VotesCast
<1>10. Told'
  <2>1. Tells(line, l)'
    BY <1>1, <1>5, <1>7 DEF Tells
  <2>2. QED
    BY <1>1, <1>4, <1>7, <2>1 DEF Told, Tells
<1>11. QED
  BY <1>1, <1>6, <1>7, <1>9, <1>10 DEF VoteInv

(* A log that was just opened has no votes.                                *)
LEMMA NewStates == \A path, db : LET new == [ctx |-> NewLogCtx(path), ssts |-> NoMap, db |-> db]
                                 IN  IsState(new) /\ \A q, n : ~HasVote(new, q, n)
<1> SUFFICES ASSUME NEW path, NEW db
             PROVE  LET new == [ctx |-> NewLogCtx(path), ssts |-> NoMap, db |-> db]
                    IN  IsState(new) /\ \A q, n : ~HasVote(new, q, n)
  OBVIOUS
<1>1. PICK new : new = [ctx |-> NewLogCtx(path), ssts |-> NoMap, db |-> db]
  OBVIOUS
<1>2. DOMAIN new = {"ctx", "ssts", "db"} /\ new.ctx = NewLogCtx(path)
  BY <1>1
<1>3. DOMAIN new.ctx = CtxFields /\ new.ctx.names = << >> /\ new.ctx.conflicts = << >>
  <2>1. \A x : DOMAIN NewLogCtx(x) = {"path", "ft", "names", "hashes", "ips", "states", "version",
                "myIdx", "members", "desynced", "minVerbosity", "pod", "conflicts"}
    BY DEF NewLogCtx
  <2>2. NewLogCtx(path).names = << >> /\ NewLogCtx(path).conflicts = << >>
    BY DEF NewLogCtx
  <2>3. DOMAIN NewLogCtx(path) = CtxFields
    BY <2>1 DEF CtxFields
  <2>4. QED
    BY <1>2, <2>2, <2>3
<1>4. IsList(<< >>) /\ DOMAIN << >> = {}
  BY DEF IsList
<1>5. IsState(new) /\ \A q, n : ~HasVote(new, q, n)
  BY <1>2, <1>3, <1>4 DEF IsState, HasVote
<1>6. QED
  BY <1>1, <1>5

LEMMA OpenKeepsVoteInv ==
    ASSUME VoteInv, OpenPath
    PROVE  VoteInv'
<1>1. /\ phase' = "read" /\ input' = input /\ current' = current /\ current <= Len(Paths)
      /\ grep' = [grep EXCEPT ![current].st = "scan"]
      /\ s' = [ctx |-> NewLogCtx(Path), ssts |-> NoMap, db |-> s.db]
  BY DEF OpenPath
<1>2. current \in DOMAIN grep /\ DOMAIN grep = DOMAIN Paths
  <2>1. DOMAIN grep = DOMAIN Paths /\ current \in Nat \ {0}
    BY DEF VoteInv
  <2>2. DOMAIN Paths = 1 .. Len(Paths) /\ Len(Paths) \in Nat
    BY PathsAre DEF VoteInv
  <2>3. current \in 1 .. Len(Paths)
    BY <1>1, <2>1, <2>2
  <2>4. QED
    BY <2>1, <2>2, <2>3
<1>3. Paths' = Paths /\ \A j : Log(j)' = Log(j)
  BY <1>1 DEF Paths, Log
<1>4. PICK e : e = [grep[current] EXCEPT !.st = "scan"] /\ grep' = [grep EXCEPT ![current] = e]
  BY <1>1
<1>5. e \in [st : {"idle", "scan", "send", "closed", "stuck"}, pos : Nat \ {0}] /\ e.st # "send"
  BY <1>2, <1>4 DEF VoteInv
<1>6. /\ grep' \in [DOMAIN Paths' -> [st : {"idle", "scan", "send", "closed", "stuck"}, pos : Nat \ {0}]]
      /\ \A j \in DOMAIN grep' : grep'[j].st = "send" => grep'[j].pos \in DOMAIN Log(j)'
      /\ DOMAIN grep' = DOMAIN grep
  BY <1>3, <1>4, <1>5 DEF VoteInv
<1>7. IsState(s') /\ VotesCast'
  <2>1. PICK path, db, new : path = Path /\ db = s.db
                             /\ new = [ctx |-> NewLogCtx(path), ssts |-> NoMap, db |-> db]
    OBVIOUS
  <2>2. IsState(new) /\ \A q, n : ~HasVote(new, q, n)
    BY <2>1, NewStates
  <2>3. s' = new
    BY <1>1, <2>1
  <2>4. QED
    BY <2>2, <2>3 DEF VotesCast
<1>8. QED
  BY <1>1, <1>2, <1>6, <1>7 DEF VoteInv

(* The steps that read nothing of a log.                                   *)
LEMMA VoteInvStays ==
    ASSUME VoteInv, input' = input, grep' = grep, s' = s, current' \in Nat \ {0},
           phase' \notin {"read", "apply"}
           \/ (phase' = phase /\ current' = current /\ line' = line /\ pending' = pending)
    PROVE  VoteInv'
<1>1. Paths' = Paths /\ KeysInUse' = KeysInUse /\ \A j : Log(j)' = Log(j)
  BY DEF Paths, KeysInUse, Log
<1>2. CASE phase' \notin {"read", "apply"}
  BY <1>1, <1>2 DEF VoteInv
<1>3. CASE phase' = phase /\ current' = current /\ line' = line /\ pending' = pending
  <2>1. Path' = Path
    BY <1>1, <1>3 DEF Path
  <2>2. VotesCast' <=> VotesCast
    BY <1>3, <2>1 DEF VotesCast, CastBefore
  <2>3. Told' <=> Told
    BY <1>1, <1>3, <2>1 DEF Told, Tells
  <2>4. QED
    BY <1>1, <1>3, <2>2, <2>3 DEF VoteInv
<1>4. QED
  BY <1>2, <1>3

LEMMA NextKeepsVoteInv == VoteInv /\ [Next]_vars => VoteInv'
<1> SUFFICES ASSUME VoteInv, [Next]_vars PROVE VoteInv'
  OBVIOUS
<1>1. current \in Nat \ {0} /\ current + 1 \in Nat \ {0}
  <2>1. current \in Nat \ {0}
    BY DEF VoteInv
  <2>2. QED
    BY <2>1
<1>2. CASE OpenPath
  BY <1>2, OpenKeepsVoteInv
<1>3. CASE ReadLine
  BY <1>3, ReadLineKeepsVoteInv
<1>4. CASE \E key \in pending : ApplyRegex(key)
  BY <1>4, ApplyKeepsVoteInv
<1>5. CASE \E i \in DOMAIN grep : Grep(i)
  BY <1>5, GrepKeepsVoteInv
<1>6. CASE OpenFails \/ ShortLinePanics \/ LastLine \/ EndPath \/ EndOfPaths
           \/ \E key \in pending : HandlerPanics(key)
  BY <1>1, <1>6, VoteInvStays DEF OpenFails, ShortLinePanics, LastLine, EndPath, EndOfPaths,
                                  HandlerPanics, reading
<1>7. CASE StartShow \/ EndShow \/ PrintContexts \/ StartSearch \/ EndSearch
  BY <1>1, <1>7, VoteInvStays DEF StartShow, EndShow, PrintContexts, StartSearch, EndSearch, reading
<1>8. CASE ShowRow \/ Filter
  BY <1>1, <1>8, VoteInvStays DEF ShowRow, Filter, reading
<1>9. CASE UNCHANGED vars
  BY <1>1, <1>9, VoteInvStays DEF vars
<1>10. QED
  BY <1>2, <1>3, <1>4, <1>5, <1>6, <1>7, <1>8, <1>9 DEF Next, Main, Report

(* However votes on several write sets overlap, and whatever the lines     *)
(* between them do, a recorded vote is one that an earlier line of this    *)
(* log told of, by name or as that of its own server (applicative.go,      *)
(* conflicts.go: Merge, ConflictWithSeqno).                                *)
THEOREM RecordedVotesWereCast == Spec => []VotesWereCast
<1>1. Init => VoteInv
  <2> SUFFICES ASSUME Init PROVE VoteInv
    OBVIOUS
  <2>1. /\ input \in Inputs /\ current = 1 /\ phase = "open"
        /\ grep = [i \in DOMAIN Paths |-> [st |-> "idle", pos |-> 1]]
        /\ s = [ctx |-> NewLogCtx(""), ssts |-> NoMap, db |-> EmptyDB]
    BY DEF Init
  <2>2. IsState(s)
    BY <2>1, NewStates
  <2>3. PICK e : e = [st |-> "idle", pos |-> 1]
    OBVIOUS
  <2>4. e \in [st : {"idle", "scan", "send", "closed", "stuck"}, pos : Nat \ {0}] /\ e.st # "send"
    BY <2>3
  <2>5. grep = [i \in DOMAIN Paths |-> e]
    BY <2>1, <2>3
  <2>6. /\ grep \in [DOMAIN Paths -> [st : {"idle", "scan", "send", "closed", "stuck"}, pos : Nat \ {0}]]
        /\ \A i \in DOMAIN grep : grep[i].st # "send"
    BY <2>4, <2>5
  <2>7. current = 1 /\ 1 \in Nat \ {0}
    <3>1. current = 1
      BY <2>1
    <3>2. QED
      BY <3>1
  <2>8. phase = "open" /\ input \in Inputs
    BY <2>1
  <2>9. QED
    BY <2>2, <2>6, <2>7, <2>8 DEF VoteInv
<1>2. VoteInv => VotesWereCast
  <2> SUFFICES ASSUME VoteInv, phase \in {"read", "apply"},
                      NEW i \in DOMAIN s.ctx.conflicts, NEW node \in DOMAIN s.ctx.conflicts[i].votes
               PROVE  CastBefore(node, s.ctx.conflicts[i].seqno)
    BY DEF VotesWereCast
  <2>1. PICK seqno : seqno = s.ctx.conflicts[i].seqno
    OBVIOUS
  <2>2. HasVote(s, seqno, node)
    BY <2>1 DEF HasVote
  <2>3. CastBefore(node, seqno)
    BY <2>2 DEF VoteInv, VotesCast
  <2>4. QED
    BY <2>1, <2>3
<1>3. QED
  BY <1>1, <1>2, NextKeepsVoteInv, PTL DEF Spec

==================================================================================
