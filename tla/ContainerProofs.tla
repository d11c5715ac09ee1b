--------------------------- MODULE ContainerProofs ---------------------------
(***************************************************************************)
(* What is proved of the start of a container for every set of inputs,     *)
(* templates and attributes.                                               *)
(*                                                                         *)
(* The attributes a template prints come out of merges: of the files among *)
(* themselves, below default and below override, of these two, and of the  *)
(* environment into both.  Shows says that a tree is what a sequence of    *)
(* layers amounts to, told without a merge; each merge appends its layers  *)
(* to those the tree already shows.                                        *)
(***************************************************************************)
EXTENDS Container, SequenceTheorems, TLAPS

----------------------------------------------------------------------------
(* Paths *)

\* A prefix, element by element.
LEMMA PrefixIs ==
  ASSUME NEW S, NEW a \in Seq(S), NEW b \in Seq(S)
  PROVE  IsPrefix(a, b) <=> Len(a) <= Len(b) /\ \A i \in 1..Len(a) : a[i] = b[i]
<1>1. CASE Len(a) > Len(b)
  <2>1. Len(a) \in Nat /\ Len(b) \in Nat BY LenProperties
  <2>. QED BY <1>1, <2>1 DEF IsPrefix
<1>2. CASE Len(a) <= Len(b)
  <2>1. Len(a) \in Nat /\ Len(b) \in Nat BY LenProperties
  <2>2. SubSeq(a, 1, Len(a)) = a BY SubSeqFull
  <2>. DEFINE c == SubSeq(b, 1, Len(a))
  <2>3. \A i \in 1..Len(a) : b[i] \in S BY <1>2, <2>1, ElementOfSeq
  <2>4. c \in Seq(S) /\ Len(c) = Len(a) /\ \A i \in 1..Len(a) : c[i] = b[i]
    <3>1. Len(a) \in Int /\ 1 \in Int BY <2>1
    <3>2. /\ c \in Seq(S) /\ Len(c) = IF 1 <= Len(a) THEN Len(a) - 1 + 1 ELSE 0
          /\ \A i \in 1..(Len(a) - 1 + 1) : c[i] = b[1 + i - 1]
      BY <2>3, <3>1, SubSeqProperties
    <3>. HIDE DEF c
    <3>. QED BY <2>1, <3>2
  <2>5. IsPrefix(a, b) <=> a = c BY <1>2, <2>2 DEF IsPrefix
  <2>. HIDE DEF c
  <2>6. a = c <=> \A i \in 1..Len(a) : a[i] = b[i]
    <3>1. ASSUME \A i \in 1..Len(a) : a[i] = b[i] PROVE a = c
      BY <2>4, <3>1, SeqEqual
    <3>. QED BY <2>4, <3>1
  <2>. QED BY <1>2, <2>5, <2>6
<1>. QED BY <1>1, <1>2, LenProperties

Path == Seq(Keys) \ {<<>>}

LEMMA PrefixTransitive ==
  ASSUME NEW a \in Seq(Keys), NEW b \in Seq(Keys), NEW c \in Seq(Keys),
         IsPrefix(a, b), IsPrefix(b, c)
  PROVE  IsPrefix(a, c)
<1>1. Len(a) \in Nat /\ Len(b) \in Nat /\ Len(c) \in Nat BY LenProperties
<1>2. Len(a) <= Len(b) /\ \A i \in 1..Len(a) : a[i] = b[i] BY PrefixIs
<1>3. Len(b) <= Len(c) /\ \A i \in 1..Len(b) : b[i] = c[i] BY PrefixIs
<1>4. Len(a) <= Len(c) /\ \A i \in 1..Len(a) : a[i] = c[i] BY <1>1, <1>2, <1>3
<1>. QED BY <1>4, PrefixIs

LEMMA PrefixReflexive ==
  ASSUME NEW a \in Seq(Keys)
  PROVE  IsPrefix(a, a)
<1>1. Len(a) \in Nat BY LenProperties
<1>. QED BY <1>1, PrefixIs

\* What comes before a path that is put together comes before its first part,
\* or ends in the second.
LEMMA PrefixOfConcat ==
  ASSUME NEW a \in Seq(Keys), NEW b \in Seq(Keys), NEW c \in Seq(Keys), IsPrefix(a, b \o c)
  PROVE  IsPrefix(a, b) \/ \E d \in Seq(Keys) : a = b \o d /\ IsPrefix(d, c)
<1>. DEFINE e == b \o c
<1>1. Len(a) \in Nat /\ Len(b) \in Nat /\ Len(c) \in Nat BY LenProperties
<1>2. /\ e \in Seq(Keys) /\ Len(e) = Len(b) + Len(c)
      /\ \A i \in 1..Len(b) + Len(c) : e[i] = IF i <= Len(b) THEN b[i] ELSE c[i - Len(b)]
  BY ConcatProperties
<1>. HIDE DEF e
<1>3. Len(a) <= Len(e) /\ \A i \in 1..Len(a) : a[i] = e[i] BY <1>2, PrefixIs DEF e
<1>4. CASE Len(a) <= Len(b)
  <2>1. \A i \in 1..Len(a) : a[i] = b[i] BY <1>1, <1>2, <1>3, <1>4
  <2>. QED BY <1>4, <2>1, PrefixIs
<1>5. CASE Len(b) < Len(a)
  <2>. DEFINE n == Len(a) - Len(b)
              d == [i \in 1..n |-> a[i + Len(b)]]
  <2>1. n \in Nat /\ \A i \in 1..n : i + Len(b) \in 1..Len(a) BY <1>1, <1>5
  <2>2. \A i \in 1..n : a[i + Len(b)] \in Keys BY <2>1, ElementOfSeq
  <2>. HIDE DEF n
  <2>3. d \in Seq(Keys) /\ Len(d) = n BY <2>1, <2>2
  <2>4. \A i \in 1..n : d[i] = a[i + Len(b)] OBVIOUS
  <2>. HIDE DEF d
  <2>. DEFINE f == b \o d
  <2>5. /\ f \in Seq(Keys) /\ Len(f) = Len(b) + Len(d)
        /\ \A i \in 1..Len(b) + Len(d) : f[i] = IF i <= Len(b) THEN b[i] ELSE d[i - Len(b)]
    BY <2>3, ConcatProperties
  <2>. HIDE DEF f
  <2>6. Len(f) = Len(a) BY <1>1, <2>3, <2>5 DEF n
  <2>7. ASSUME NEW i \in 1..Len(a) PROVE f[i] = a[i]
    <3>1. CASE i <= Len(b) BY <1>1, <1>2, <1>3, <2>5, <2>6, <3>1
    <3>2. CASE i > Len(b)
      <4>1. i - Len(b) \in 1..n /\ (i - Len(b)) + Len(b) = i BY <1>1, <3>2 DEF n
      <4>. QED BY <1>1, <2>4, <2>5, <2>6, <3>2, <4>1
    <3>. QED BY <1>1, <3>1, <3>2
  <2>8. f = a BY <2>5, <2>6, <2>7, SeqEqual
  <2>9. Len(d) <= Len(c) BY <1>1, <1>2, <1>3, <2>3 DEF n
  <2>10. ASSUME NEW i \in 1..Len(d) PROVE d[i] = c[i]
    <3>1. i + Len(b) \in 1..Len(a) /\ (i + Len(b)) - Len(b) = i /\ ~(i + Len(b) <= Len(b))
      BY <1>1, <2>1, <2>3
    <3>. QED BY <1>1, <1>2, <1>3, <2>3, <2>4, <3>1
  <2>11. IsPrefix(d, c) BY <2>3, <2>9, <2>10, PrefixIs
  <2>. QED BY <2>3, <2>8, <2>11 DEF f
<1>6. Len(a) <= Len(b) \/ Len(b) < Len(a) BY <1>1
<1>. QED BY <1>4, <1>5, <1>6, Zenon

LEMMA PrefixConcat ==
  ASSUME NEW a \in Seq(Keys), NEW b \in Seq(Keys)
  PROVE  IsPrefix(a, a \o b)
<1>. DEFINE e == a \o b
<1>1. Len(a) \in Nat /\ Len(b) \in Nat BY LenProperties
<1>2. /\ e \in Seq(Keys) /\ Len(e) = Len(a) + Len(b)
      /\ \A i \in 1..Len(a) + Len(b) : e[i] = IF i <= Len(a) THEN a[i] ELSE b[i - Len(a)]
  BY ConcatProperties
<1>. HIDE DEF e
<1>3. Len(a) <= Len(e) /\ \A i \in 1..Len(a) : a[i] = e[i] BY <1>1, <1>2
<1>4. IsPrefix(a, e) BY <1>2, <1>3, PrefixIs
<1>. QED BY <1>4 DEF e

\* A strict prefix is shorter.
LEMMA StrictShorter ==
  ASSUME NEW a \in Seq(Keys), NEW b \in Seq(Keys), IsStrictPrefix(a, b)
  PROVE  Len(a) < Len(b)
<1>1. Len(a) \in Nat /\ Len(b) \in Nat BY LenProperties
<1>2. Len(a) <= Len(b) /\ (\A i \in 1..Len(a) : a[i] = b[i]) /\ a # b
  BY PrefixIs DEF IsStrictPrefix
<1>3. Len(a) # Len(b) BY <1>2, SeqEqual
<1>. QED BY <1>1, <1>2, <1>3

\* The paths above a path are its first keys.
LEMMA FirstKeys ==
  ASSUME NEW p \in Path
  PROVE  /\ \A n \in 1..(Len(p) - 1) : SubSeq(p, 1, n) \in Path /\ IsStrictPrefix(SubSeq(p, 1, n), p)
         /\ \A q \in Path : IsStrictPrefix(q, p) =>
              \E n \in 1..(Len(p) - 1) : q = SubSeq(p, 1, n)
<1>1. p \in Seq(Keys) /\ Len(p) \in Nat BY LenProperties DEF Path
<1>2. ASSUME NEW n \in 1..Len(p)
      PROVE  /\ SubSeq(p, 1, n) \in Seq(Keys) /\ Len(SubSeq(p, 1, n)) = n
             /\ \A i \in 1..n : SubSeq(p, 1, n)[i] = p[i]
  <2>. DEFINE c == SubSeq(p, 1, n)
  <2>1. \A i \in 1..n : p[i] \in Keys BY <1>1, ElementOfSeq
  <2>2. n \in Int /\ 1 \in Int BY <1>1
  <2>3. /\ c \in Seq(Keys) /\ Len(c) = IF 1 <= n THEN n - 1 + 1 ELSE 0
        /\ \A i \in 1..(n - 1 + 1) : c[i] = p[1 + i - 1]
    BY <2>1, <2>2, SubSeqProperties
  <2>. HIDE DEF c
  <2>4. c \in Seq(Keys) /\ Len(c) = n /\ \A i \in 1..n : c[i] = p[i] BY <1>1, <2>3
  <2>. QED BY <2>4 DEF c
<1>3. ASSUME NEW n \in 1..(Len(p) - 1)
      PROVE  SubSeq(p, 1, n) \in Path /\ IsStrictPrefix(SubSeq(p, 1, n), p)
  <2>. DEFINE c == SubSeq(p, 1, n)
  <2>1. n \in 1..Len(p) BY <1>1
  <2>2. c \in Seq(Keys) /\ Len(c) = n /\ \A i \in 1..n : c[i] = p[i] BY <1>2, <2>1
  <2>. HIDE DEF c
  <2>3. c # <<>> BY <2>2, EmptySeq
  <2>4. c # p BY <1>1, <2>2
  <2>5. IsPrefix(c, p) BY <1>1, <2>2, PrefixIs
  <2>. QED BY <2>2, <2>3, <2>4, <2>5 DEF c, Path, IsStrictPrefix
<1>4. ASSUME NEW q \in Path, IsStrictPrefix(q, p)
      PROVE  \E n \in 1..(Len(p) - 1) : q = SubSeq(p, 1, n)
  <2>1. q \in Seq(Keys) /\ Len(q) \in Nat \ {0} BY EmptySeq, LenProperties DEF Path
  <2>2. q # p /\ Len(q) <= Len(p) /\ \A i \in 1..Len(q) : q[i] = p[i]
    BY <1>1, <1>4, <2>1, PrefixIs DEF IsStrictPrefix
  <2>3. Len(q) # Len(p) BY <1>1, <2>1, <2>2, SeqEqual
  <2>4. Len(q) \in 1..(Len(p) - 1) /\ Len(q) \in 1..Len(p) BY <1>1, <2>1, <2>2, <2>3
  <2>. DEFINE n == Len(q)
              c == SubSeq(p, 1, n)
  <2>5. c \in Seq(Keys) /\ Len(c) = n /\ \A i \in 1..n : c[i] = p[i] BY <1>2, <2>4
  <2>. HIDE DEF c
  <2>6. q = c BY <2>1, <2>2, <2>5, SeqEqual
  <2>7. n \in 1..(Len(p) - 1) /\ q = SubSeq(p, 1, n) BY <2>4, <2>6 DEF c
  <2>. HIDE DEF n
  <2>. QED BY <2>7, Zenon
<1>. QED BY <1>3, <1>4

\* The paths below a key.
Join(key, p) == <<key>> \o p

LEMMA JoinFacts ==
  ASSUME NEW key \in Keys, NEW p \in Seq(Keys)
  PROVE  /\ Join(key, p) \in Path /\ Len(Join(key, p)) = Len(p) + 1
         /\ Join(key, p)[1] = key /\ \A i \in 1..Len(p) : Join(key, p)[i + 1] = p[i]
         /\ Head(Join(key, p)) = key /\ Tail(Join(key, p)) = p
<1>. DEFINE one == <<key>>
            j == one \o p
<1>1. one \in Seq(Keys) /\ Len(one) = 1 /\ one[1] = key OBVIOUS
<1>. HIDE DEF one
<1>2. Len(p) \in Nat BY LenProperties
<1>3. /\ j \in Seq(Keys) /\ Len(j) = Len(one) + Len(p)
      /\ \A i \in 1..Len(one) + Len(p) : j[i] = IF i <= Len(one) THEN one[i] ELSE p[i - Len(one)]
  BY <1>1, ConcatProperties
<1>. HIDE DEF j
<1>4. /\ Len(j) = Len(p) + 1 /\ j[1] = key
      /\ \A i \in 1..Len(p) : j[i + 1] = p[i]
  BY <1>1, <1>2, <1>3
<1>5. j # <<>> BY <1>2, <1>4, EmptySeq
<1>6. Head(j) = key BY <1>3, <1>4
<1>7. /\ Tail(j) \in Seq(Keys) /\ Len(Tail(j)) = Len(j) - 1
      /\ \A i \in 1..Len(Tail(j)) : Tail(j)[i] = j[i + 1]
  BY <1>3, <1>5, HeadTailProperties
<1>8. Tail(j) = p
  <2>. DEFINE t == Tail(j)
  <2>1. t \in Seq(Keys) /\ Len(t) = Len(p) /\ \A i \in 1..Len(t) : t[i] = j[i + 1]
    BY <1>2, <1>4, <1>7
  <2>. HIDE DEF t
  <2>2. t = p BY <1>4, <2>1, SeqEqual
  <2>. QED BY <2>2 DEF t
<1>9. j = Join(key, p) BY DEF j, one, Join
<1>. QED BY <1>3, <1>4, <1>5, <1>6, <1>8, <1>9 DEF Path

LEMMA JoinTail ==
  ASSUME NEW q \in Path
  PROVE  /\ Head(q) \in Keys /\ Tail(q) \in Seq(Keys) /\ Join(Head(q), Tail(q)) = q
         /\ Len(q) > 1 <=> Tail(q) # <<>>
<1>1. q \in Seq(Keys) /\ q # <<>> BY DEF Path
<1>2. /\ Head(q) \in Keys /\ Tail(q) \in Seq(Keys) /\ Len(Tail(q)) = Len(q) - 1
      /\ \A i \in 1..Len(Tail(q)) : Tail(q)[i] = q[i + 1]
  BY <1>1, HeadTailProperties
<1>3. Head(q) = q[1] /\ Len(q) \in Nat \ {0} BY <1>1, EmptySeq
<1>. DEFINE k == Head(q)
            t == Tail(q)
            j == Join(k, t)
<1>. HIDE DEF k, t
<1>4. k \in Keys /\ t \in Seq(Keys) BY <1>2 DEF k, t
<1>5. j \in Seq(Keys) /\ Len(j) = Len(t) + 1 /\ j[1] = k /\ \A i \in 1..Len(t) : j[i + 1] = t[i]
  BY <1>4, JoinFacts DEF Path
<1>6. Len(t) = Len(q) - 1 /\ \A i \in 1..Len(t) : t[i] = q[i + 1] BY <1>2 DEF t
<1>7. k = q[1] BY <1>3 DEF k
<1>. HIDE DEF j
<1>8. \A i \in 1..Len(q) : j[i] = q[i]
  <2>. SUFFICES ASSUME NEW i \in 1..Len(q) PROVE j[i] = q[i]
    OBVIOUS
  <2>1. CASE i = 1 BY <1>5, <1>7, <2>1
  <2>2. CASE i # 1
    <3>1. i - 1 \in 1..Len(t) /\ (i - 1) + 1 = i BY <1>3, <1>6, <2>2
    <3>. QED BY <1>5, <1>6, <3>1
  <2>. QED BY <2>1, <2>2
<1>9. j = q BY <1>1, <1>3, <1>5, <1>6, <1>8, SeqEqual
<1>10. Len(q) > 1 <=> t # <<>>
  <2>1. t = <<>> <=> Len(t) = 0 BY <1>4, EmptySeq
  <2>. QED BY <1>3, <1>6, <2>1
<1>. QED BY <1>2, <1>9, <1>10 DEF j, k, t

LEMMA JoinPrefix ==
  ASSUME NEW key \in Keys, NEW other \in Keys, NEW a \in Seq(Keys), NEW b \in Seq(Keys)
  PROVE  IsPrefix(Join(key, a), Join(other, b)) <=> key = other /\ IsPrefix(a, b)
<1>. DEFINE c == Join(key, a)
            d == Join(other, b)
<1>1. /\ c \in Seq(Keys) /\ Len(c) = Len(a) + 1 /\ c[1] = key /\ \A i \in 1..Len(a) : c[i + 1] = a[i]
      /\ d \in Seq(Keys) /\ Len(d) = Len(b) + 1 /\ d[1] = other /\ \A i \in 1..Len(b) : d[i + 1] = b[i]
  BY JoinFacts DEF Path
<1>. HIDE DEF c, d
<1>2. Len(a) \in Nat /\ Len(b) \in Nat BY LenProperties
<1>0. c \in Seq(Keys) /\ d \in Seq(Keys) BY <1>1
<1>3. IsPrefix(c, d) <=> Len(c) <= Len(d) /\ \A i \in 1..Len(c) : c[i] = d[i] BY <1>0, PrefixIs
<1>4. IsPrefix(a, b) <=> Len(a) <= Len(b) /\ \A i \in 1..Len(a) : a[i] = b[i] BY PrefixIs
<1>5. ASSUME IsPrefix(c, d) PROVE key = other /\ IsPrefix(a, b)
  <2>1. Len(a) <= Len(b) /\ \A i \in 1..Len(c) : c[i] = d[i] BY <1>1, <1>2, <1>3, <1>5
  <2>2. 1 \in 1..Len(c) BY <1>1, <1>2
  <2>3. key = other BY <1>1, <2>1, <2>2
  <2>4. ASSUME NEW i \in 1..Len(a) PROVE a[i] = b[i]
    <3>1. i + 1 \in 1..Len(c) /\ i \in 1..Len(b) BY <1>1, <1>2, <2>1
    <3>. QED BY <1>1, <2>1, <3>1
  <2>. QED BY <1>4, <2>1, <2>3, <2>4
<1>6. ASSUME key = other, IsPrefix(a, b) PROVE IsPrefix(c, d)
  <2>1. Len(c) <= Len(d) BY <1>1, <1>2, <1>4, <1>6
  <2>2. ASSUME NEW i \in 1..Len(c) PROVE c[i] = d[i]
    <3>1. CASE i = 1 BY <1>1, <1>6, <3>1
    <3>2. CASE i # 1
      <4>1. i - 1 \in 1..Len(a) /\ (i - 1) + 1 = i /\ i - 1 \in 1..Len(b)
        BY <1>1, <1>2, <1>4, <1>6, <3>2
      <4>. QED BY <1>1, <1>4, <1>6, <4>1
    <3>. QED BY <3>1, <3>2
  <2>. QED BY <1>3, <2>1, <2>2
<1>. QED BY <1>5, <1>6 DEF c, d

----------------------------------------------------------------------------
(* Trees *)

\* A tree, told by prefixes.
LEMMA TreeAbove ==
  ASSUME NEW tree_
  PROVE  IsTree(tree_) <=>
           /\ DOMAIN tree_ \subseteq Path
           /\ \A p \in DOMAIN tree_ : \A q \in Path :
                IsStrictPrefix(q, p) => q \in DOMAIN tree_ /\ tree_[q] = "map"
<1>1. \A q : At(tree_, q) = "map" <=> q \in DOMAIN tree_ /\ tree_[q] = "map"
  BY DEF At
<1>2. ASSUME DOMAIN tree_ \subseteq Path, NEW p \in DOMAIN tree_
      PROVE  (\A n \in 1..(Len(p) - 1) : At(tree_, SubSeq(p, 1, n)) = "map") <=>
               \A q \in Path : IsStrictPrefix(q, p) => q \in DOMAIN tree_ /\ tree_[q] = "map"
  <2>1. p \in Path BY <1>2
  <2>2. \A n \in 1..(Len(p) - 1) : SubSeq(p, 1, n) \in Path /\ IsStrictPrefix(SubSeq(p, 1, n), p)
    BY <2>1, FirstKeys
  <2>3. \A q \in Path : IsStrictPrefix(q, p) => \E n \in 1..(Len(p) - 1) : q = SubSeq(p, 1, n)
    BY <2>1, FirstKeys
  <2>. QED BY <1>1, <2>2, <2>3, Zenon
<1>. QED BY <1>2 DEF IsTree, Path

\* What is kept of the earlier tree is what no later one replaces or cuts off.
LEMMA MergeAt ==
  ASSUME NEW dst, NEW src
  PROVE  /\ DOMAIN Merge(dst, src) =
              DOMAIN src \cup {p \in DOMAIN dst : \A q \in DOMAIN src : IsPrefix(q, p) => src[q] = "map"}
         /\ \A p \in DOMAIN Merge(dst, src) :
              Merge(dst, src)[p] = IF p \in DOMAIN src THEN src[p] ELSE dst[p]
BY Zenon DEF Merge

LEMMA MergeTree ==
  ASSUME NEW dst, NEW src, IsTree(dst), IsTree(src)
  PROVE  IsTree(Merge(dst, src))
<1>. DEFINE m == Merge(dst, src)
<1>1. /\ DOMAIN dst \subseteq Path /\ DOMAIN src \subseteq Path
      /\ \A p \in DOMAIN dst, q \in Path : IsStrictPrefix(q, p) => q \in DOMAIN dst /\ dst[q] = "map"
      /\ \A p \in DOMAIN src, q \in Path : IsStrictPrefix(q, p) => q \in DOMAIN src /\ src[q] = "map"
  BY TreeAbove
<1>2. /\ DOMAIN m = DOMAIN src \cup {p \in DOMAIN dst : \A q \in DOMAIN src : IsPrefix(q, p) => src[q] = "map"}
      /\ \A p \in DOMAIN m : m[p] = IF p \in DOMAIN src THEN src[p] ELSE dst[p]
  BY MergeAt
<1>. HIDE DEF m
<1>3. DOMAIN m \subseteq Path BY <1>1, <1>2
<1>4. ASSUME NEW p \in DOMAIN m, NEW q \in Path, IsStrictPrefix(q, p)
      PROVE  q \in DOMAIN m /\ m[q] = "map"
  <2>1. CASE p \in DOMAIN src
    <3>1. q \in DOMAIN src /\ src[q] = "map" BY <1>1, <1>4, <2>1
    <3>. QED BY <1>2, <3>1
  <2>2. CASE p \notin DOMAIN src
    <3>1. p \in DOMAIN dst /\ \A r \in DOMAIN src : IsPrefix(r, p) => src[r] = "map"
      BY <1>2, <2>2
    <3>2. q \in DOMAIN dst /\ dst[q] = "map" BY <1>1, <1>4, <3>1
    <3>3. \A r \in DOMAIN src : IsPrefix(r, q) => IsPrefix(r, p)
      BY <1>1, <1>3, <1>4, PrefixTransitive DEF IsStrictPrefix, Path
    <3>4. \A r \in DOMAIN src : IsPrefix(r, q) => src[r] = "map" BY <3>1, <3>3
    <3>5. IsPrefix(q, q) BY <1>4, PrefixReflexive DEF Path
    <3>. QED BY <1>2, <3>2, <3>4, <3>5
  <2>. QED BY <2>1, <2>2
<1>. QED BY <1>3, <1>4, TreeAbove DEF m

\* The map below a key.
LEMMA BelowAt ==
  ASSUME NEW tree_, DOMAIN tree_ \subseteq Path, NEW key \in Keys
  PROVE  /\ DOMAIN Below(tree_, key) = {p \in Path : Join(key, p) \in DOMAIN tree_}
         /\ \A p \in DOMAIN Below(tree_, key) : Below(tree_, key)[p] = tree_[Join(key, p)]
<1>. DEFINE paths == {q \in DOMAIN tree_ : Len(q) > 1 /\ Head(q) = key}
            rests == {Tail(q) : q \in paths}
<1>1. Below(tree_, key) = [p \in rests |-> tree_[Join(key, p)]] BY DEF Below, Join
<1>2. ASSUME NEW q \in paths PROVE Tail(q) \in Path /\ Join(key, Tail(q)) \in DOMAIN tree_
  <2>1. q \in Path /\ Len(q) > 1 /\ Head(q) = key OBVIOUS
  <2>2. Tail(q) \in Path /\ Join(key, Tail(q)) = q BY <2>1, JoinTail DEF Path
  <2>. QED BY <2>2
<1>3. ASSUME NEW p \in Path, Join(key, p) \in DOMAIN tree_ PROVE p \in rests
  <2>. DEFINE q == Join(key, p)
  <2>1. q \in Path /\ Head(q) = key /\ Tail(q) = p /\ Len(q) = Len(p) + 1
    BY <1>3, JoinFacts DEF Path
  <2>2. Len(p) \in Nat \ {0} BY EmptySeq DEF Path
  <2>. HIDE DEF q
  <2>3. q \in DOMAIN tree_ BY <1>3 DEF q
  <2>4. q \in paths BY <2>1, <2>2, <2>3
  <2>. QED BY <2>1, <2>4
<1>4. rests = {p \in Path : Join(key, p) \in DOMAIN tree_}
  <2>1. \A p \in rests : p \in Path /\ Join(key, p) \in DOMAIN tree_ BY <1>2
  <2>. QED BY <1>3, <2>1
<1>. HIDE DEF rests
<1>. QED BY <1>1, <1>4

LEMMA BelowTree ==
  ASSUME NEW tree_, IsTree(tree_), NEW key \in Keys
  PROVE  IsTree(Below(tree_, key))
<1>. DEFINE b == Below(tree_, key)
<1>1. /\ DOMAIN tree_ \subseteq Path
      /\ \A p \in DOMAIN tree_, q \in Path :
           IsStrictPrefix(q, p) => q \in DOMAIN tree_ /\ tree_[q] = "map"
  BY TreeAbove
<1>2. /\ DOMAIN b = {p \in Path : Join(key, p) \in DOMAIN tree_}
      /\ \A p \in DOMAIN b : b[p] = tree_[Join(key, p)]
  BY <1>1, BelowAt
<1>. HIDE DEF b
<1>3. ASSUME NEW p \in DOMAIN b, NEW q \in Path, IsStrictPrefix(q, p)
      PROVE  q \in DOMAIN b /\ b[q] = "map"
  <2>1. p \in Path /\ Join(key, p) \in DOMAIN tree_ BY <1>2
  <2>2. Join(key, q) \in Path BY JoinFacts DEF Path
  <2>3. IsPrefix(Join(key, q), Join(key, p)) BY <1>3, <2>1, JoinPrefix DEF IsStrictPrefix, Path
  <2>4. Join(key, q) # Join(key, p)
    <3>1. Tail(Join(key, q)) = q /\ Tail(Join(key, p)) = p BY <2>1, JoinFacts DEF Path
    <3>. QED BY <1>3, <3>1 DEF IsStrictPrefix
  <2>5. Join(key, q) \in DOMAIN tree_ /\ tree_[Join(key, q)] = "map"
    BY <1>1, <2>1, <2>2, <2>3, <2>4 DEF IsStrictPrefix
  <2>. QED BY <1>2, <2>5
<1>4. DOMAIN b \subseteq Path BY <1>2
<1>. QED BY <1>3, <1>4, TreeAbove DEF b

\* What a node has above a path is a map, up to its root.
LEMMA NodeAbove ==
  ASSUME NEW node, IsNode(node)
  PROVE  /\ DOMAIN node \subseteq Seq(Keys) /\ <<>> \in DOMAIN node
         /\ \A q \in DOMAIN node, s \in Seq(Keys) :
              IsStrictPrefix(s, q) => s \in DOMAIN node /\ node[s] = "map"
<1>. DEFINE rest == DOMAIN node \ {<<>>}
            sub  == [p \in rest |-> node[p]]
<1>1. <<>> \in DOMAIN node /\ (DOMAIN node # {<<>>} => node[<<>>] = "map") /\ IsTree(sub)
  BY DEF IsNode
<1>2. DOMAIN sub = rest /\ \A p \in rest : sub[p] = node[p] OBVIOUS
<1>. HIDE DEF sub
<1>3. /\ DOMAIN sub \subseteq Path
      /\ \A p \in DOMAIN sub, q \in Path : IsStrictPrefix(q, p) => q \in DOMAIN sub /\ sub[q] = "map"
  BY <1>1, TreeAbove
<1>4. <<>> \in Seq(Keys) BY EmptySeq
<1>5. DOMAIN node \subseteq Seq(Keys) BY <1>2, <1>3, <1>4 DEF Path
<1>6. ASSUME NEW q \in DOMAIN node, NEW s \in Seq(Keys), IsStrictPrefix(s, q)
      PROVE  s \in DOMAIN node /\ node[s] = "map"
  <2>1. Len(s) < Len(q) /\ Len(s) \in Nat /\ Len(q) \in Nat
    BY <1>5, <1>6, StrictShorter, LenProperties
  <2>2. q # <<>> BY <1>5, <2>1, EmptySeq
  <2>3. q \in rest BY <2>2
  <2>4. CASE s = <<>> BY <1>1, <2>2, <2>4
  <2>5. CASE s # <<>>
    <3>1. s \in Path BY <2>5 DEF Path
    <3>2. s \in DOMAIN sub /\ sub[s] = "map" BY <1>2, <1>3, <1>6, <2>3, <3>1
    <3>. QED BY <1>2, <3>2
  <2>. QED BY <2>4, <2>5
<1>. QED BY <1>1, <1>5, <1>6

LEMMA LeafIs ==
  ASSUME NEW value
  PROVE  /\ IsNode(Leaf(value)) /\ DOMAIN Leaf(value) = {<<>>} /\ Leaf(value)[<<>>] = value
<1>. DEFINE leaf == Leaf(value)
            none == [p \in DOMAIN leaf \ {<<>>} |-> leaf[p]]
<1>1. DOMAIN leaf = {<<>>} /\ leaf[<<>>] = value BY DEF Leaf
<1>2. DOMAIN none = {} BY <1>1
<1>. HIDE DEF none
<1>3. IsTree(none) BY <1>2 DEF IsTree
<1>. QED BY <1>1, <1>3 DEF IsNode, none

LEMMA BecameIs ==
  ASSUME NEW tree_, NEW p \in DOMAIN tree_
  PROVE  /\ IsNode(Became(tree_, p))
         /\ tree_[p] \notin DOMAIN References =>
              DOMAIN Became(tree_, p) = {<<>>} /\ Became(tree_, p)[<<>>] = tree_[p]
<1>1. CASE tree_[p] \in DOMAIN References
  <2>. DEFINE text == Shown(tree_, References[tree_[p]])
  <2>1. Became(tree_, p) = Parsed(tree_[p], text) BY <1>1 DEF Became
  <2>. HIDE DEF text
  <2>2. CASE text # tree_[p] /\ text \in DOMAIN Yaml
    BY <1>1, <2>1, <2>2, AttributesAssumption DEF Parsed
  <2>3. CASE ~(text # tree_[p] /\ text \in DOMAIN Yaml)
    BY <1>1, <2>1, <2>3, LeafIs DEF Parsed
  <2>. QED BY <2>2, <2>3
<1>2. CASE tree_[p] \notin DOMAIN References
  BY <1>2, LeafIs DEF Became
<1>. QED BY <1>1, <1>2

\* Nothing is below a value, so that what becomes of two of them never meets.
LEMMA PlacesApart ==
  ASSUME NEW tree_, IsTree(tree_), NEW p \in DOMAIN tree_, NEW o \in DOMAIN tree_,
         NEW q \in DOMAIN Became(tree_, p), NEW r \in DOMAIN Became(tree_, o),
         p \o q = o \o r
  PROVE  p = o /\ q = r
<1>1. /\ p \in Path /\ o \in Path
      /\ \A x \in DOMAIN tree_, y \in Path :
           IsStrictPrefix(y, x) => y \in DOMAIN tree_ /\ tree_[y] = "map"
  BY TreeAbove
<1>2. p \in Seq(Keys) /\ o \in Seq(Keys) /\ q \in Seq(Keys) /\ r \in Seq(Keys)
  BY <1>1, BecameIs, NodeAbove DEF Path
<1>3. Len(p) \in Nat /\ Len(o) \in Nat /\ Len(q) \in Nat /\ Len(r) \in Nat BY <1>2, LenProperties
<1>4. "map" \notin DOMAIN References BY AttributesAssumption
<1>5. ASSUME IsStrictPrefix(p, o) PROVE FALSE
  <2>1. tree_[p] = "map" BY <1>1, <1>5
  <2>2. DOMAIN Became(tree_, p) = {<<>>} BY <1>4, <2>1, BecameIs
  <2>3. q = <<>> /\ Len(q) = 0 BY <2>2
  <2>4. Len(p) < Len(o) BY <1>2, <1>5, StrictShorter
  <2>5. Len(p \o q) = Len(p) + Len(q) /\ Len(o \o r) = Len(o) + Len(r) BY <1>2, ConcatProperties
  <2>6. Len(p) + Len(q) = Len(o) + Len(r) BY <2>5
  <2>. QED BY <1>3, <2>3, <2>4, <2>6
<1>6. ASSUME IsStrictPrefix(o, p) PROVE FALSE
  <2>1. tree_[o] = "map" BY <1>1, <1>6
  <2>2. DOMAIN Became(tree_, o) = {<<>>} BY <1>4, <2>1, BecameIs
  <2>3. r = <<>> /\ Len(r) = 0 BY <2>2
  <2>4. Len(o) < Len(p) BY <1>2, <1>6, StrictShorter
  <2>5. Len(p \o q) = Len(p) + Len(q) /\ Len(o \o r) = Len(o) + Len(r) BY <1>2, ConcatProperties
  <2>6. Len(p) + Len(q) = Len(o) + Len(r) BY <2>5
  <2>. QED BY <1>3, <2>3, <2>4, <2>6
<1>7. IsPrefix(p, o) \/ IsPrefix(o, p)
  <2>1. IsPrefix(p, o \o r) BY <1>2, PrefixConcat
  <2>2. CASE IsPrefix(p, o) BY <2>2
  <2>3. CASE \E d \in Seq(Keys) : p = o \o d /\ IsPrefix(d, r) BY <1>2, <2>3, PrefixConcat
  <2>. QED BY <1>2, <2>1, <2>2, <2>3, PrefixOfConcat
<1>8. p = o BY <1>5, <1>6, <1>7 DEF IsStrictPrefix
<1>9. \A s, t, v \in Seq(Keys) : s \o t = s \o v => t = v BY ConcatSimplifications
<1>. QED BY <1>2, <1>8, <1>9

\* Of the values on the way to a path there is one only.
LEMMA OnTheWay ==
  ASSUME NEW tree_, IsTree(tree_), NEW p \in DOMAIN tree_, tree_[p] \in DOMAIN References,
         NEW q \in Seq(Keys), NEW o \in DOMAIN tree_, NEW r \in DOMAIN Became(tree_, o),
         p \o q = o \o r
  PROVE  o = p
<1>1. /\ p \in Path /\ o \in Path
      /\ \A x \in DOMAIN tree_, y \in Path :
           IsStrictPrefix(y, x) => y \in DOMAIN tree_ /\ tree_[y] = "map"
  BY TreeAbove
<1>2. p \in Seq(Keys) /\ o \in Seq(Keys) /\ r \in Seq(Keys)
  BY <1>1, BecameIs, NodeAbove DEF Path
<1>3. Len(p) \in Nat /\ Len(o) \in Nat /\ Len(q) \in Nat /\ Len(r) \in Nat BY <1>2, LenProperties
<1>4. "map" \notin DOMAIN References BY AttributesAssumption
<1>5. ~ IsStrictPrefix(p, o) BY <1>1, <1>4
<1>6. ASSUME IsStrictPrefix(o, p) PROVE FALSE
  <2>1. tree_[o] = "map" BY <1>1, <1>6
  <2>2. DOMAIN Became(tree_, o) = {<<>>} BY <1>4, <2>1, BecameIs
  <2>3. r = <<>> /\ Len(r) = 0 BY <2>2
  <2>4. Len(o) < Len(p) BY <1>2, <1>6, StrictShorter
  <2>5. Len(p \o q) = Len(p) + Len(q) /\ Len(o \o r) = Len(o) + Len(r) BY <1>2, ConcatProperties
  <2>6. Len(p) + Len(q) = Len(o) + Len(r) BY <2>5
  <2>. QED BY <1>3, <2>3, <2>4, <2>6
<1>7. IsPrefix(p, o) \/ IsPrefix(o, p)
  <2>1. IsPrefix(p, o \o r) BY <1>2, PrefixConcat
  <2>2. CASE IsPrefix(p, o) BY <2>2
  <2>3. CASE \E d \in Seq(Keys) : p = o \o d /\ IsPrefix(d, r) BY <1>2, <2>3, PrefixConcat
  <2>. QED BY <1>2, <2>1, <2>2, <2>3, PrefixOfConcat
<1>. QED BY <1>5, <1>6, <1>7 DEF IsStrictPrefix

LEMMA TemplatedAt ==
  ASSUME NEW tree_, IsTree(tree_)
  PROVE  /\ \A path : path \in DOMAIN Templated(tree_) <=>
              \E p \in DOMAIN tree_ : \E q \in DOMAIN Became(tree_, p) : path = p \o q
         /\ \A p \in DOMAIN tree_ : \A q \in DOMAIN Became(tree_, p) :
              Templated(tree_)[p \o q] = Became(tree_, p)[q]
<1>. DEFINE places == UNION {{<<p, q>> : q \in DOMAIN Became(tree_, p)} : p \in DOMAIN tree_}
            dom    == {place[1] \o place[2] : place \in places}
            of(path) == CHOOSE place \in places : place[1] \o place[2] = path
<1>1. \A p \in DOMAIN tree_ : \A q \in DOMAIN Became(tree_, p) : <<p, q>> \in places
  OBVIOUS
<1>2. \A place \in places : \E p \in DOMAIN tree_ : \E q \in DOMAIN Became(tree_, p) : place = <<p, q>>
  OBVIOUS
<1>3. Templated(tree_) = [path \in dom |-> Became(tree_, of(path)[1])[of(path)[2]]] BY DEF Templated
<1>. HIDE DEF places
<1>4. ASSUME NEW p \in DOMAIN tree_, NEW q \in DOMAIN Became(tree_, p)
      PROVE  p \o q \in dom /\ of(p \o q) = <<p, q>>
  <2>. DEFINE path == p \o q
              chosen == of(path)
              pair == <<p, q>>
  <2>1. pair \in places /\ pair[1] = p /\ pair[2] = q BY <1>1
  <2>. HIDE DEF pair
  <2>2. path \in dom
    <3>1. pair[1] \o pair[2] = path BY <2>1
    <3>. HIDE DEF path
    <3>. QED BY <2>1, <3>1, Zenon
  <2>3. chosen \in places /\ chosen[1] \o chosen[2] = path
    <3>1. \E x \in places : x[1] \o x[2] = path BY <2>1
    <3>. QED BY <3>1
  <2>. HIDE DEF chosen
  <2>4. PICK o \in DOMAIN tree_ : \E r \in DOMAIN Became(tree_, o) : chosen = <<o, r>> BY <1>2, <2>3
  <2>5. PICK r \in DOMAIN Became(tree_, o) : chosen = <<o, r>> BY <2>4
  <2>6. o \o r = p \o q BY <2>3, <2>5
  <2>7. o = p /\ r = q BY <2>6, PlacesApart
  <2>. QED BY <2>2, <2>5, <2>7 DEF chosen
<1>5. \A path : path \in dom => \E p \in DOMAIN tree_ : \E q \in DOMAIN Became(tree_, p) : path = p \o q
  <2>. SUFFICES ASSUME NEW place \in places
                PROVE  \E p \in DOMAIN tree_ : \E q \in DOMAIN Became(tree_, p) :
                         place[1] \o place[2] = p \o q
    OBVIOUS
  <2>1. PICK p \in DOMAIN tree_ : \E q \in DOMAIN Became(tree_, p) : place = <<p, q>> BY <1>2
  <2>2. PICK q \in DOMAIN Became(tree_, p) : place = <<p, q>> BY <2>1
  <2>3. place[1] \o place[2] = p \o q BY <2>2
  <2>. QED BY <2>3
<1>6. \A path : path \in dom <=> \E p \in DOMAIN tree_ : \E q \in DOMAIN Became(tree_, p) : path = p \o q
  BY <1>4, <1>5
<1>7. ASSUME NEW p \in DOMAIN tree_, NEW q \in DOMAIN Became(tree_, p)
      PROVE  Templated(tree_)[p \o q] = Became(tree_, p)[q]
  <2>1. p \o q \in dom /\ of(p \o q) = <<p, q>> BY <1>4
  <2>. HIDE DEF of, dom
  <2>2. Templated(tree_)[p \o q] = Became(tree_, of(p \o q)[1])[of(p \o q)[2]] BY <1>3, <2>1
  <2>. QED BY <2>1, <2>2
<1>8. DOMAIN Templated(tree_) = dom BY <1>3
<1>. QED BY <1>6, <1>7, <1>8

\* Resolving the values that are templates changes no map, and what it adds is
\* below a map.
LEMMA TemplatedTree ==
  ASSUME NEW tree_, IsTree(tree_)
  PROVE  IsTree(Templated(tree_))
<1>. DEFINE r == Templated(tree_)
<1>1. /\ \A path : path \in DOMAIN r <=>
           \E p \in DOMAIN tree_ : \E q \in DOMAIN Became(tree_, p) : path = p \o q
      /\ \A p \in DOMAIN tree_ : \A q \in DOMAIN Became(tree_, p) : r[p \o q] = Became(tree_, p)[q]
  BY TemplatedAt
<1>. HIDE DEF r
<1>2. /\ DOMAIN tree_ \subseteq Path
      /\ \A p \in DOMAIN tree_, q \in Path :
           IsStrictPrefix(q, p) => q \in DOMAIN tree_ /\ tree_[q] = "map"
  BY TreeAbove
<1>3. \A p \in DOMAIN tree_ :
        /\ DOMAIN Became(tree_, p) \subseteq Seq(Keys) /\ <<>> \in DOMAIN Became(tree_, p)
        /\ \A q \in DOMAIN Became(tree_, p), s \in Seq(Keys) :
             IsStrictPrefix(s, q) => s \in DOMAIN Became(tree_, p) /\ Became(tree_, p)[s] = "map"
  BY BecameIs, NodeAbove
<1>4. ASSUME NEW p \in DOMAIN tree_, NEW q \in DOMAIN Became(tree_, p)
      PROVE  p \o q \in Path
  <2>1. p \in Seq(Keys) /\ p # <<>> /\ q \in Seq(Keys) BY <1>2, <1>3 DEF Path
  <2>2. p \o q \in Seq(Keys) BY <2>1, ConcatProperties
  <2>3. p \o q # <<>> BY <2>1, ConcatEqualIffEmpty
  <2>. QED BY <2>2, <2>3 DEF Path
<1>5. ASSUME NEW p \in DOMAIN tree_, NEW q \in DOMAIN Became(tree_, p), NEW s \in Path,
             IsStrictPrefix(s, p \o q)
      PROVE  s \in DOMAIN r /\ r[s] = "map"
  <2>1. p \in Path /\ p \in Seq(Keys) /\ q \in Seq(Keys) /\ s \in Seq(Keys)
        /\ <<>> \in DOMAIN Became(tree_, p)
    BY <1>2, <1>3 DEF Path
  <2>2. IsPrefix(s, p \o q) /\ s # p \o q BY <1>5 DEF IsStrictPrefix
  <2>3. ASSUME IsStrictPrefix(s, p) PROVE s \in DOMAIN r /\ r[s] = "map"
    <3>1. s \in DOMAIN tree_ /\ tree_[s] = "map" BY <1>2, <2>3
    <3>2. <<>> \in DOMAIN Became(tree_, s) /\ Became(tree_, s)[<<>>] = "map"
      BY <3>1, BecameIs, AttributesAssumption
    <3>3. s \o <<>> = s BY <2>1, ConcatEmptySeq
    <3>. QED BY <1>1, <3>1, <3>2, <3>3
  <2>4. ASSUME NEW d \in Seq(Keys), s = p \o d, IsPrefix(d, q) PROVE s \in DOMAIN r /\ r[s] = "map"
    <3>1. IsStrictPrefix(d, q) BY <2>2, <2>4 DEF IsStrictPrefix
    <3>2. d \in DOMAIN Became(tree_, p) /\ Became(tree_, p)[d] = "map" BY <1>3, <3>1
    <3>. QED BY <1>1, <2>4, <3>2
  <2>5. CASE IsPrefix(s, p)
    <3>1. CASE s # p BY <2>3, <2>5, <3>1 DEF IsStrictPrefix
    <3>2. CASE s = p
      <4>1. p \o <<>> = p BY <2>1, ConcatEmptySeq
      <4>2. <<>> \in Seq(Keys) /\ Len(<<>>) = 0 BY EmptySeq
      <4>3. IsPrefix(<<>>, q)
        <5>. DEFINE none == <<>>
        <5>1. none \in Seq(Keys) /\ Len(none) = 0 BY <4>2
        <5>. HIDE DEF none
        <5>2. Len(none) <= Len(q) /\ \A i \in 1..Len(none) : none[i] = q[i]
          BY <2>1, <5>1, LenProperties
        <5>3. IsPrefix(none, q) BY <2>1, <5>1, <5>2, PrefixIs
        <5>. QED BY <5>3 DEF none
      <4>. QED BY <2>4, <3>2, <4>1, <4>2, <4>3
    <3>. QED BY <3>1, <3>2
  <2>6. CASE \E d \in Seq(Keys) : s = p \o d /\ IsPrefix(d, q) BY <2>4, <2>6
  <2>7. IsPrefix(s, p) \/ \E d \in Seq(Keys) : s = p \o d /\ IsPrefix(d, q)
    BY <2>1, <2>2, PrefixOfConcat
  <2>. QED BY <2>5, <2>6, <2>7, Zenon
<1>6. ASSUME NEW path \in DOMAIN r
      PROVE  /\ path \in Path
             /\ \A s \in Path : IsStrictPrefix(s, path) => s \in DOMAIN r /\ r[s] = "map"
  <2>1. PICK p \in DOMAIN tree_ : \E q \in DOMAIN Became(tree_, p) : path = p \o q BY <1>1
  <2>2. PICK q \in DOMAIN Became(tree_, p) : path = p \o q BY <2>1
  <2>. QED BY <1>4, <1>5, <2>2
<1>7. DOMAIN r \subseteq Path BY <1>6
<1>8. \A path \in DOMAIN r, s \in Path : IsStrictPrefix(s, path) => s \in DOMAIN r /\ r[s] = "map"
  BY <1>6
<1>. QED BY <1>7, <1>8, TreeAbove DEF r

----------------------------------------------------------------------------
(* Layers *)

\* The last layer that has a path.
IsLast(layers, n, path) == /\ path \in DOMAIN layers[n]
                           /\ \A m \in DOMAIN layers : path \in DOMAIN layers[m] => m <= n

\* A tree is what the layers amount to.
Shows(tree_, layers) ==
  /\ \A n \in DOMAIN layers : DOMAIN layers[n] \subseteq DOMAIN tree_
  /\ \A p \in DOMAIN tree_ : \E n \in DOMAIN layers :
       IsLast(layers, n, p) /\ tree_[p] = layers[n][p]

\* Two trees have their maps in the same places.
Agree(a, b) == \A p \in DOMAIN a \cap DOMAIN b : a[p] = "map" <=> b[p] = "map"

LEMMA ShowsValue ==
  ASSUME NEW S, NEW layers \in Seq(S), NEW tree_, Shows(tree_, layers), NEW path
  PROVE  At(tree_, path) = Value(layers, path)
<1>. DEFINE in == {n \in DOMAIN layers : path \in DOMAIN layers[n]}
<1>1. DOMAIN layers \subseteq Nat BY LenProperties
<1>2. Value(layers, path) =
        IF in = {} THEN "nil" ELSE layers[CHOOSE n \in in : \A m \in in : m <= n][path]
  BY DEF Value
<1>3. CASE path \in DOMAIN tree_
  <2>1. PICK n \in DOMAIN layers : IsLast(layers, n, path) /\ tree_[path] = layers[n][path]
    BY <1>3 DEF Shows
  <2>2. n \in in /\ \A m \in in : m <= n BY <2>1 DEF IsLast
  <2>3. (CHOOSE k \in in : \A m \in in : m <= k) = n
    <3>. DEFINE c == CHOOSE k \in in : \A m \in in : m <= k
    <3>1. c \in in /\ \A m \in in : m <= c BY <2>2
    <3>2. c \in Nat /\ n \in Nat /\ c <= n /\ n <= c BY <1>1, <2>2, <3>1
    <3>. HIDE DEF c
    <3>3. c = n BY <3>2
    <3>. QED BY <3>3 DEF c
  <2>4. in # {} BY <2>2
  <2>. QED BY <1>2, <1>3, <2>1, <2>3, <2>4 DEF At
<1>4. CASE path \notin DOMAIN tree_
  <2>1. in = {} BY <1>4 DEF Shows
  <2>. QED BY <1>2, <1>4, <2>1 DEF At
<1>. QED BY <1>3, <1>4

\* Only the paths and what is there count.
LEMMA ShowsSame ==
  ASSUME NEW a, NEW b, NEW layers, Shows(a, layers),
         DOMAIN b = DOMAIN a, \A p \in DOMAIN a : b[p] = a[p]
  PROVE  Shows(b, layers)
BY DEF Shows

\* Where the maps agree nothing is cut off: a path of either tree stays.
LEMMA MergeKeeps ==
  ASSUME NEW a, NEW b, IsTree(a), IsTree(b), Agree(a, b)
  PROVE  /\ DOMAIN Merge(a, b) = DOMAIN a \cup DOMAIN b
         /\ \A p \in DOMAIN b : Merge(a, b)[p] = b[p]
         /\ \A p \in DOMAIN a \ DOMAIN b : Merge(a, b)[p] = a[p]
<1>1. /\ DOMAIN Merge(a, b) =
           DOMAIN b \cup {p \in DOMAIN a : \A q \in DOMAIN b : IsPrefix(q, p) => b[q] = "map"}
      /\ \A p \in DOMAIN Merge(a, b) :
           Merge(a, b)[p] = IF p \in DOMAIN b THEN b[p] ELSE a[p]
  BY MergeAt
<1>2. /\ DOMAIN b \subseteq Path
      /\ \A p \in DOMAIN a, q \in Path : IsStrictPrefix(q, p) => q \in DOMAIN a /\ a[q] = "map"
  BY TreeAbove
<1>3. ASSUME NEW p \in DOMAIN a \ DOMAIN b, NEW q \in DOMAIN b, IsPrefix(q, p)
      PROVE  b[q] = "map"
  <2>1. IsStrictPrefix(q, p) /\ q \in Path BY <1>2, <1>3 DEF IsStrictPrefix
  <2>2. q \in DOMAIN a /\ a[q] = "map" BY <1>2, <2>1
  <2>. QED BY <2>2 DEF Agree
<1>4. DOMAIN Merge(a, b) = DOMAIN a \cup DOMAIN b BY <1>1, <1>3
<1>. QED BY <1>1, <1>4

\* A merge appends the layers.
LEMMA MergeShows ==
  ASSUME NEW S, NEW L \in Seq(S), NEW M \in Seq(S), NEW a, NEW b,
         IsTree(a), IsTree(b), Shows(a, L), Shows(b, M), Agree(a, b)
  PROVE  Shows(Merge(a, b), L \o M)
<1>. DEFINE m == Merge(a, b)
            K == L \o M
<1>1. /\ DOMAIN m = DOMAIN a \cup DOMAIN b
      /\ \A p \in DOMAIN b : m[p] = b[p]
      /\ \A p \in DOMAIN a \ DOMAIN b : m[p] = a[p]
  BY MergeKeeps
<1>2. /\ Len(L) \in Nat /\ Len(M) \in Nat /\ DOMAIN L = 1..Len(L) /\ DOMAIN M = 1..Len(M)
  BY LenProperties
<1>3. /\ K \in Seq(S) /\ Len(K) = Len(L) + Len(M)
      /\ \A i \in 1..Len(L) + Len(M) : K[i] = IF i <= Len(L) THEN L[i] ELSE M[i - Len(L)]
  BY ConcatProperties
<1>. HIDE DEF m, K
<1>4. DOMAIN K = 1..Len(L) + Len(M) BY <1>3, LenProperties
<1>5. \A i \in 1..Len(L) : i \in DOMAIN K /\ K[i] = L[i] BY <1>2, <1>3, <1>4
<1>6. ASSUME NEW i \in 1..Len(M) PROVE i + Len(L) \in DOMAIN K /\ K[i + Len(L)] = M[i]
  <2>1. i + Len(L) \in 1..Len(L) + Len(M) /\ ~(i + Len(L) <= Len(L)) /\ (i + Len(L)) - Len(L) = i
    BY <1>2
  <2>. QED BY <1>3, <1>4, <2>1
<1>7. ASSUME NEW n \in DOMAIN K
      PROVE  \/ n \in 1..Len(L) /\ K[n] = L[n]
             \/ \E i \in 1..Len(M) : n = i + Len(L) /\ K[n] = M[i]
  <2>1. CASE n <= Len(L) BY <1>2, <1>4, <1>5, <2>1
  <2>2. CASE ~(n <= Len(L))
    <3>1. n - Len(L) \in 1..Len(M) /\ n = (n - Len(L)) + Len(L) BY <1>2, <1>4, <2>2
    <3>. QED BY <1>6, <3>1
  <2>. QED BY <2>1, <2>2
<1>8. \A n \in DOMAIN K : DOMAIN K[n] \subseteq DOMAIN m
  BY <1>1, <1>2, <1>7 DEF Shows
<1>9. ASSUME NEW p \in DOMAIN m
      PROVE  \E n \in DOMAIN K : IsLast(K, n, p) /\ m[p] = K[n][p]
  <2>1. CASE p \in DOMAIN b
    <3>1. PICK i \in DOMAIN M : IsLast(M, i, p) /\ b[p] = M[i][p] BY <2>1 DEF Shows
    <3>2. i + Len(L) \in DOMAIN K /\ K[i + Len(L)] = M[i] BY <1>2, <1>6, <3>1
    <3>3. ASSUME NEW k \in DOMAIN K, p \in DOMAIN K[k] PROVE k <= i + Len(L)
      <4>1. CASE k \in 1..Len(L) BY <1>2, <3>1, <4>1
      <4>2. CASE \E j \in 1..Len(M) : k = j + Len(L) /\ K[k] = M[j]
        <5>1. PICK j \in 1..Len(M) : k = j + Len(L) /\ K[k] = M[j] BY <4>2
        <5>2. j <= i BY <1>2, <3>1, <3>3, <5>1 DEF IsLast
        <5>. QED BY <1>2, <5>1, <5>2
      <4>. QED BY <1>7, <4>1, <4>2
    <3>4. IsLast(K, i + Len(L), p) BY <3>1, <3>2, <3>3 DEF IsLast
    <3>. QED BY <1>1, <2>1, <3>1, <3>2, <3>4
  <2>2. CASE p \notin DOMAIN b
    <3>1. p \in DOMAIN a /\ m[p] = a[p] BY <1>1, <2>2
    <3>2. PICK i \in DOMAIN L : IsLast(L, i, p) /\ a[p] = L[i][p] BY <3>1 DEF Shows
    <3>3. i \in DOMAIN K /\ K[i] = L[i] BY <1>2, <1>5, <3>2
    <3>4. ASSUME NEW k \in DOMAIN K, p \in DOMAIN K[k] PROVE k <= i
      <4>1. CASE k \in 1..Len(L) /\ K[k] = L[k] BY <1>2, <3>2, <3>4, <4>1 DEF IsLast
      <4>2. CASE \E j \in 1..Len(M) : k = j + Len(L) /\ K[k] = M[j]
        BY <1>2, <2>2, <3>4, <4>2 DEF Shows
      <4>. QED BY <1>7, <4>1, <4>2
    <3>5. IsLast(K, i, p) BY <3>2, <3>3, <3>4 DEF IsLast
    <3>. QED BY <3>1, <3>2, <3>3, <3>5
  <2>. QED BY <2>1, <2>2
<1>10. Shows(m, K) BY <1>8, <1>9 DEF Shows
<1>. QED BY <1>10 DEF m, K

\* The layers of two trees that agree pairwise make trees that agree.
LEMMA ShowsAgree ==
  ASSUME NEW a, NEW b, NEW L, NEW M, Shows(a, L), Shows(b, M),
         \A n \in DOMAIN L, m \in DOMAIN M : Agree(L[n], M[m])
  PROVE  Agree(a, b)
<1>. SUFFICES ASSUME NEW p \in DOMAIN a \cap DOMAIN b
              PROVE  a[p] = "map" <=> b[p] = "map"
  BY DEF Agree
<1>1. PICK n \in DOMAIN L : p \in DOMAIN L[n] /\ a[p] = L[n][p] BY DEF Shows, IsLast
<1>2. PICK m \in DOMAIN M : p \in DOMAIN M[m] /\ b[p] = M[m][p] BY DEF Shows, IsLast
<1>. QED BY <1>1, <1>2 DEF Agree

----------------------------------------------------------------------------
(* The inductive invariant *)

\* What the files say below a key, and all the layers there are.
Part(key, k) == [n \in 1..k |-> Below(input.files[n], key)]

Pieces == {Below(input.files[n], key) : n \in 1..input.listed, key \in {"default", "override"}}
          \cup {input.env}

Merging == {"early", "files", "environment", "attributes"}
Started == {"late", "wait", "tests"}

\* A value is what a file or the environment says until the templates among
\* them are resolved, which may leave <no value>.
ValuesInv ==
  /\ input \in Inputs
  /\ pc \in Merging => IsFile(tree)
  /\ \A p \in DOMAIN tree : tree[p] \notin {"old", ""}

\* What a template shows, told by the layers.
Expected(path) == Text(Resolved(Layers, path))

\* What is merged at each step is what the layers read so far amount to.
MergeInv ==
  Consistent =>
    /\ pc \in {"early", "files"} =>
         \A key \in {"default", "override"} : Shows(Below(tree, key), Part(key, loaded))
    /\ pc = "environment" =>
         Shows(tree, Part("default", input.listed) \o Part("override", input.listed))
    /\ pc = "attributes" => Shows(tree, Layers)
    /\ pc \in {"partials", "templates"} \cup Started =>
         \A t \in Templates : Shown(tree, Uses[t]) = Expected(Uses[t])

\* The targets of the templates that are rendered, and that all are when the
\* late scripts run or -c ends.
RenderInv ==
  /\ pc \notin {"templates"} \cup Started => pending = Templates /\ broken = {}
  /\ status # "error" \/ pc \in Started =>
       /\ ~Continue => broken = {}
       /\ \A t \in Templates \ (pending \cup broken) :
            file[t] = Shown(tree, Uses[t]) /\ ~NoValueFails(t, file[t])
  /\ Rendered => pending = {}
  /\ status = "ok" => pc \in {"templates"} \cup Started

IInv == TypeOK /\ ValuesInv /\ MergeInv /\ RenderInv

----------------------------------------------------------------------------
(* What is below a key *)

\* Below a key that is a map in the later tree, merging and going below commute.
LEMMA BelowMerge ==
  ASSUME NEW dst, NEW src, IsTree(dst), IsTree(src), NEW key \in Keys,
         <<key>> \in DOMAIN src => src[<<key>>] = "map"
  PROVE  LET both == Below(Merge(dst, src), key)
             each == Merge(Below(dst, key), Below(src, key))
         IN DOMAIN each = DOMAIN both /\ \A p \in DOMAIN both : each[p] = both[p]
<1>. DEFINE m == Merge(dst, src)
            d == Below(dst, key)
            s == Below(src, key)
            both == Below(m, key)
            each == Merge(d, s)
<1>1. DOMAIN dst \subseteq Path /\ DOMAIN src \subseteq Path /\ IsTree(m)
  BY TreeAbove, MergeTree
<1>2. DOMAIN m \subseteq Path BY <1>1, TreeAbove
<1>3. /\ DOMAIN m = DOMAIN src \cup {p \in DOMAIN dst : \A q \in DOMAIN src : IsPrefix(q, p) => src[q] = "map"}
      /\ \A p \in DOMAIN m : m[p] = IF p \in DOMAIN src THEN src[p] ELSE dst[p]
  BY MergeAt
<1>4. /\ DOMAIN d = {p \in Path : Join(key, p) \in DOMAIN dst}
      /\ \A p \in DOMAIN d : d[p] = dst[Join(key, p)]
  BY <1>1, BelowAt
<1>5. /\ DOMAIN s = {p \in Path : Join(key, p) \in DOMAIN src}
      /\ \A p \in DOMAIN s : s[p] = src[Join(key, p)]
  BY <1>1, BelowAt
<1>6. /\ DOMAIN both = {p \in Path : Join(key, p) \in DOMAIN m}
      /\ \A p \in DOMAIN both : both[p] = m[Join(key, p)]
  BY <1>2, BelowAt
<1>7. /\ DOMAIN each = DOMAIN s \cup {p \in DOMAIN d : \A q \in DOMAIN s : IsPrefix(q, p) => s[q] = "map"}
      /\ \A p \in DOMAIN each : each[p] = IF p \in DOMAIN s THEN s[p] ELSE d[p]
  BY MergeAt
<1>. HIDE DEF m, d, s, both, each
<1>8. ASSUME NEW p \in Path
      PROVE  (\A q \in DOMAIN src : IsPrefix(q, Join(key, p)) => src[q] = "map") <=>
             (\A q \in DOMAIN s : IsPrefix(q, p) => s[q] = "map")
  <2>1. p \in Seq(Keys) BY DEF Path
  <2>2. ASSUME \A q \in DOMAIN src : IsPrefix(q, Join(key, p)) => src[q] = "map",
               NEW q \in DOMAIN s, IsPrefix(q, p)
        PROVE  s[q] = "map"
    <3>1. q \in Seq(Keys) /\ Join(key, q) \in DOMAIN src /\ s[q] = src[Join(key, q)]
      BY <1>5, <2>2 DEF Path
    <3>2. IsPrefix(Join(key, q), Join(key, p)) BY <2>1, <2>2, <3>1, JoinPrefix
    <3>. QED BY <2>2, <3>1, <3>2
  <2>3. ASSUME \A q \in DOMAIN s : IsPrefix(q, p) => s[q] = "map",
               NEW q \in DOMAIN src, IsPrefix(q, Join(key, p))
        PROVE  src[q] = "map"
    <3>1. q \in Path BY <1>1
    <3>. DEFINE h == Head(q)
                t == Tail(q)
    <3>2. h \in Keys /\ t \in Seq(Keys) /\ Join(h, t) = q BY <3>1, JoinTail
    <3>. HIDE DEF h, t
    <3>3. IsPrefix(Join(h, t), Join(key, p)) BY <2>3, <3>2
    <3>4. h = key /\ IsPrefix(t, p) BY <2>1, <3>2, <3>3, JoinPrefix
    <3>5. CASE t = <<>>
      <4>1. q = <<key>> BY <3>2, <3>4, <3>5 DEF Join
      <4>. QED BY <4>1
    <3>6. CASE t # <<>>
      <4>1. t \in DOMAIN s /\ s[t] = src[q] BY <1>5, <3>2, <3>4, <3>6 DEF Path
      <4>. QED BY <2>3, <3>4, <4>1
    <3>. QED BY <3>5, <3>6
  <2>. QED BY <2>2, <2>3
<1>9. ASSUME NEW p PROVE p \in DOMAIN each <=> p \in DOMAIN both
  BY <1>3, <1>4, <1>5, <1>6, <1>7, <1>8
<1>10. ASSUME NEW p \in DOMAIN both PROVE each[p] = both[p]
  <2>1. p \in DOMAIN each /\ p \in Path /\ Join(key, p) \in DOMAIN m BY <1>6, <1>9
  <2>2. CASE p \in DOMAIN s BY <1>3, <1>5, <1>6, <1>7, <2>1, <2>2
  <2>3. CASE p \notin DOMAIN s
    <3>1. p \in DOMAIN d /\ Join(key, p) \notin DOMAIN src BY <1>5, <1>7, <2>1, <2>3
    <3>. QED BY <1>3, <1>4, <1>6, <1>7, <2>1, <2>3, <3>1
  <2>. QED BY <2>2, <2>3
<1>11. DOMAIN each = DOMAIN both /\ \A p \in DOMAIN both : each[p] = both[p]
  <2>1. DOMAIN each \subseteq DOMAIN both /\ DOMAIN both \subseteq DOMAIN each BY <1>9
  <2>. QED BY <1>10, <2>1
<1>. QED BY <1>11 DEF m, d, s, both, each

\* An input, and what is below the keys of its files.
LEMMA InputFacts ==
  ASSUME input \in Inputs
  PROVE  /\ input.listed \in Nat /\ IsFile(input.env) /\ input.mode \in {"start", "test", "try"}
         /\ \A n \in 1..input.listed : IsFile(input.files[n])
<1>1. /\ input.mode \in {"start", "test", "try"} /\ input.listed \in 0..Len(input.files)
      /\ IsFile(input.env) /\ \A n \in 1..input.listed : IsFile(input.files[n])
  BY InputAssumption, Zenon
<1>2. input.listed \in Nat BY <1>1
<1>. QED BY <1>1, <1>2

LEMMA PartFacts ==
  ASSUME NEW key \in {"default", "override"}, input.listed \in Nat, NEW k \in 0..input.listed
  PROVE  /\ Part(key, k) \in Seq(Pieces) /\ DOMAIN Part(key, k) = 1..k /\ Len(Part(key, k)) = k
         /\ \A n \in 1..k : Part(key, k)[n] = Below(input.files[n], key)
<1>1. \A n \in 1..k : Below(input.files[n], key) \in Pieces BY DEF Pieces
<1>. DEFINE p == [n \in 1..k |-> Below(input.files[n], key)]
<1>2. k \in Nat OBVIOUS
<1>3. p \in [1..k -> Pieces] BY <1>1
<1>4. p \in Seq(Pieces) BY <1>2, <1>3, SeqDef
<1>5. Len(p) = k BY <1>2, <1>4, LenProperties
<1>. QED BY <1>4, <1>5 DEF Part

\* One file more.
LEMMA PartNext ==
  ASSUME NEW key \in {"default", "override"}, input.listed \in Nat, NEW k \in 0..(input.listed - 1)
  PROVE  Part(key, k + 1) = Part(key, k) \o <<Below(input.files[k + 1], key)>>
<1>. DEFINE b  == Below(input.files[k + 1], key)
            p  == Part(key, k)
            pn == Part(key, k + 1)
            one == <<b>>
            pj == p \o one
<1>1. k \in 0..input.listed /\ k + 1 \in 0..input.listed /\ k \in Nat OBVIOUS
<1>2. p \in Seq(Pieces) /\ Len(p) = k /\ \A n \in 1..k : p[n] = Below(input.files[n], key)
  BY <1>1, PartFacts
<1>3. pn \in Seq(Pieces) /\ Len(pn) = k + 1 /\ \A n \in 1..(k + 1) : pn[n] = Below(input.files[n], key)
  BY <1>1, PartFacts
<1>4. b \in Pieces
  <2>1. k + 1 \in 1..input.listed BY <1>1
  <2>. QED BY <2>1 DEF Pieces
<1>. HIDE DEF b, p, pn
<1>5. one \in Seq(Pieces) /\ Len(one) = 1 /\ one[1] = b BY <1>4
<1>. HIDE DEF one
<1>6. /\ pj \in Seq(Pieces) /\ Len(pj) = Len(p) + Len(one)
      /\ \A i \in 1..Len(p) + Len(one) : pj[i] = IF i <= Len(p) THEN p[i] ELSE one[i - Len(p)]
  BY <1>2, <1>5, ConcatProperties
<1>. HIDE DEF pj
<1>7. ASSUME NEW i \in 1..(k + 1) PROVE pn[i] = pj[i]
  <2>1. CASE i = k + 1
    <3>1. pj[i] = b BY <1>1, <1>2, <1>5, <1>6, <2>1
    <3>2. pn[i] = b BY <1>1, <1>3, <2>1 DEF b
    <3>. QED BY <3>1, <3>2
  <2>2. CASE i # k + 1
    <3>1. i \in 1..k BY <1>1, <2>2
    <3>. QED BY <1>1, <1>2, <1>3, <1>5, <1>6, <3>1
  <2>. QED BY <2>1, <2>2
<1>8. Len(pj) = k + 1 BY <1>1, <1>2, <1>5, <1>6
<1>9. pn = pj BY <1>3, <1>6, <1>7, <1>8, SeqEqual
<1>. QED BY <1>9 DEF pn, pj, p, one, b

\* All the layers.
LEMMA LayersAre ==
  ASSUME input \in Inputs
  PROVE  /\ Layers = (Part("default", input.listed) \o Part("override", input.listed)) \o <<input.env>>
         /\ Layers \in Seq(Pieces)
         /\ \A x \in Pieces : \E n \in DOMAIN Layers : Layers[n] = x
<1>. DEFINE k     == input.listed
            trees == SubSeq(input.files, 1, k)
            S     == {input.files[n] : n \in 1..k}
            d     == Part("default", k)
            o     == Part("override", k)
            e     == <<input.env>>
<1>1. k \in Nat /\ k \in 0..k BY InputFacts
<1>2. trees \in Seq(S) /\ Len(trees) = k /\ \A n \in 1..k : trees[n] = input.files[n]
  <2>1. \A n \in 1..k : input.files[n] \in S OBVIOUS
  <2>2. 1 \in Int /\ k \in Int BY <1>1
  <2>. HIDE DEF S, k
  <2>3. /\ trees \in Seq(S) /\ Len(trees) = IF 1 <= k THEN k - 1 + 1 ELSE 0
        /\ \A n \in 1..(k - 1 + 1) : trees[n] = input.files[1 + n - 1]
    BY <2>1, <2>2, SubSeqProperties
  <2>. HIDE DEF trees
  <2>. QED BY <1>1, <2>3
<1>. HIDE DEF S
<1>3. DOMAIN trees = 1..k BY <1>2, LenProperties
<1>4. Layers = [n \in DOMAIN trees |-> Below(trees[n], "default")] \o
               [n \in DOMAIN trees |-> Below(trees[n], "override")] \o e
  BY DEF Layers
<1>. HIDE DEF trees
<1>5. [n \in DOMAIN trees |-> Below(trees[n], "default")] = d BY <1>2, <1>3 DEF Part
<1>6. [n \in DOMAIN trees |-> Below(trees[n], "override")] = o BY <1>2, <1>3 DEF Part
<1>7. Layers = (d \o o) \o e BY <1>4, <1>5, <1>6
<1>8. d \in Seq(Pieces) /\ Len(d) = k /\ \A n \in 1..k : d[n] = Below(input.files[n], "default")
  BY <1>1, PartFacts
<1>9. o \in Seq(Pieces) /\ Len(o) = k /\ \A n \in 1..k : o[n] = Below(input.files[n], "override")
  BY <1>1, PartFacts
<1>10. e \in Seq(Pieces) /\ Len(e) = 1 /\ e[1] = input.env
  <2>1. input.env \in Pieces BY DEF Pieces
  <2>. QED BY <2>1
<1>. HIDE DEF d, o, e
<1>. DEFINE b == d \o o
            l == b \o e
<1>11. /\ b \in Seq(Pieces) /\ Len(b) = Len(d) + Len(o)
       /\ \A i \in 1..Len(d) + Len(o) : b[i] = IF i <= Len(d) THEN d[i] ELSE o[i - Len(d)]
  BY <1>8, <1>9, ConcatProperties
<1>. HIDE DEF b
<1>12. /\ l \in Seq(Pieces) /\ Len(l) = Len(b) + Len(e)
       /\ \A i \in 1..Len(b) + Len(e) : l[i] = IF i <= Len(b) THEN b[i] ELSE e[i - Len(b)]
  <2>1. b \in Seq(Pieces) /\ e \in Seq(Pieces) BY <1>10, <1>11
  <2>. QED BY <2>1, ConcatProperties
<1>. HIDE DEF l
<1>13. Len(b) = k + k /\ Len(l) = k + k + 1 /\ DOMAIN l = 1..(k + k + 1)
  <2>1. Len(b) = k + k BY <1>8, <1>9, <1>11
  <2>2. Len(l) = k + k + 1 BY <1>10, <1>12, <2>1
  <2>. QED BY <1>12, <2>1, <2>2, LenProperties
<1>. HIDE DEF k
<1>14. ASSUME NEW n \in 1..k PROVE n \in DOMAIN l /\ l[n] = Below(input.files[n], "default")
  <2>1. n \in DOMAIN l /\ n <= Len(b) BY <1>1, <1>13
  <2>2. l[n] = b[n] BY <1>1, <1>10, <1>12, <1>13, <2>1
  <2>. QED BY <1>1, <1>8, <1>9, <1>11, <2>1, <2>2
<1>15. ASSUME NEW n \in 1..k PROVE n + k \in DOMAIN l /\ l[n + k] = Below(input.files[n], "override")
  <2>1. n + k \in DOMAIN l /\ n + k <= Len(b) /\ ~(n + k <= k) /\ (n + k) - k = n BY <1>1, <1>13
  <2>2. l[n + k] = b[n + k] BY <1>1, <1>10, <1>12, <1>13, <2>1
  <2>3. b[n + k] = o[n] BY <1>1, <1>8, <1>9, <1>11, <1>13, <2>1
  <2>. QED BY <1>9, <2>1, <2>2, <2>3
<1>16. k + k + 1 \in DOMAIN l /\ l[k + k + 1] = input.env
  <2>1. k + k + 1 \in DOMAIN l /\ ~(k + k + 1 <= Len(b)) /\ (k + k + 1) - Len(b) = 1 BY <1>1, <1>13
  <2>. QED BY <1>1, <1>10, <1>12, <1>13, <2>1
<1>17. ASSUME NEW x \in Pieces PROVE \E n \in DOMAIN l : l[n] = x
  <2>1. CASE x = input.env BY <1>16, <2>1
  <2>2. CASE \E n \in 1..k : x = Below(input.files[n], "default") BY <1>14, <2>2
  <2>3. CASE \E n \in 1..k : x = Below(input.files[n], "override") BY <1>15, <2>3
  <2>. QED BY <2>1, <2>2, <2>3 DEF Pieces, k
<1>18. Layers = l BY <1>7 DEF l, b
<1>19. \A x \in Pieces : \E n \in DOMAIN Layers : Layers[n] = x BY <1>17, <1>18
<1>. QED BY <1>7, <1>12, <1>18, <1>19 DEF d, o, e, k

\* Where the files are consistent all the layers have their maps in the same
\* places.
LEMMA Agreement ==
  ASSUME input \in Inputs, Consistent
  PROVE  \A x, y \in Pieces : Agree(x, y)
<1>. SUFFICES ASSUME NEW x \in Pieces, NEW y \in Pieces
              PROVE  Agree(x, y)
  OBVIOUS
<1>1. PICK m \in DOMAIN Layers : Layers[m] = x BY LayersAre
<1>2. PICK n \in DOMAIN Layers : Layers[n] = y BY LayersAre
<1>3. \A p \in DOMAIN Layers[m] \cap DOMAIN Layers[n] :
        Layers[m][p] = "map" <=> Layers[n][p] = "map"
  BY DEF Consistent
<1>. QED BY <1>1, <1>2, <1>3 DEF Agree

----------------------------------------------------------------------------
(* Types and values *)

LEMMA MergeFiles ==
  ASSUME NEW a, NEW b, IsFile(a), IsFile(b)
  PROVE  IsFile(Merge(a, b))
<1>1. IsTree(a) /\ IsTree(b) BY DEF IsFile
<1>2. IsTree(Merge(a, b)) BY <1>1, MergeTree
<1>3. \A p \in DOMAIN Merge(a, b) : \/ p \in DOMAIN b /\ Merge(a, b)[p] = b[p]
                                    \/ p \in DOMAIN a /\ Merge(a, b)[p] = a[p]
  <2>. DEFINE m == Merge(a, b)
  <2>1. /\ DOMAIN m =
             DOMAIN b \cup {p \in DOMAIN a : \A q \in DOMAIN b : IsPrefix(q, p) => b[q] = "map"}
        /\ \A p \in DOMAIN m : m[p] = IF p \in DOMAIN b THEN b[p] ELSE a[p]
    BY MergeAt
  <2>. HIDE DEF m
  <2>2. \A p \in DOMAIN m : \/ p \in DOMAIN b /\ m[p] = b[p]
                            \/ p \in DOMAIN a /\ m[p] = a[p]
    BY <2>1
  <2>. QED BY <2>2 DEF m
<1>. QED BY <1>2, <1>3 DEF IsFile

LEMMA BelowFile ==
  ASSUME NEW tree_, IsFile(tree_), NEW key \in Keys
  PROVE  IsFile(Below(tree_, key))
<1>1. IsTree(tree_) /\ DOMAIN tree_ \subseteq Path BY TreeAbove DEF IsFile
<1>2. IsTree(Below(tree_, key)) BY <1>1, BelowTree
<1>3. \A p \in DOMAIN Below(tree_, key) :
        Join(key, p) \in DOMAIN tree_ /\ Below(tree_, key)[p] = tree_[Join(key, p)]
  BY <1>1, BelowAt
<1>. QED BY <1>2, <1>3 DEF IsFile

LEMMA ShownIs ==
  ASSUME NEW tree_, NEW path
  PROVE  \/ Shown(tree_, path) \in {"<no value>", "map[]"}
         \/ path \in DOMAIN tree_ /\ Shown(tree_, path) = tree_[path]
<1>1. CASE path \in DOMAIN tree_ BY <1>1 DEF Shown, At, Text
<1>2. CASE path \notin DOMAIN tree_ BY <1>2 DEF Shown, At, Text
<1>. QED BY <1>1, <1>2

\* No template is resolved to the word for a target that was not written.
LEMMA TemplatedValues ==
  ASSUME NEW tree_, IsTree(tree_), \A p \in DOMAIN tree_ : tree_[p] \notin {"old", ""}
  PROVE  \A path \in DOMAIN Templated(tree_) : Templated(tree_)[path] \notin {"old", ""}
<1>0. /\ \A path : path \in DOMAIN Templated(tree_) <=>
           \E p \in DOMAIN tree_ : \E q \in DOMAIN Became(tree_, p) : path = p \o q
      /\ \A p \in DOMAIN tree_ : \A q \in DOMAIN Became(tree_, p) :
           Templated(tree_)[p \o q] = Became(tree_, p)[q]
  BY TemplatedAt
<1>. SUFFICES ASSUME NEW path \in DOMAIN Templated(tree_)
              PROVE  Templated(tree_)[path] \notin {"old", ""}
  OBVIOUS
<1>1. PICK p \in DOMAIN tree_ : \E q \in DOMAIN Became(tree_, p) : path = p \o q
  BY <1>0
<1>2. PICK q \in DOMAIN Became(tree_, p) : path = p \o q BY <1>1
<1>3. Templated(tree_)[path] = Became(tree_, p)[q] BY <1>0, <1>2
<1>4. CASE tree_[p] \notin DOMAIN References
  <2>1. q = <<>> /\ Became(tree_, p)[<<>>] = tree_[p] BY <1>4, BecameIs
  <2>. QED BY <1>3, <2>1
<1>5. CASE tree_[p] \in DOMAIN References
  <2>. DEFINE text == Shown(tree_, References[tree_[p]])
  <2>1. Became(tree_, p) = Parsed(tree_[p], text) BY <1>5 DEF Became
  <2>2. text \notin {"old", ""} BY ShownIs
  <2>. HIDE DEF text
  <2>3. CASE text # tree_[p] /\ text \in DOMAIN Yaml
    <3>1. Became(tree_, p) = Yaml[text] BY <2>1, <2>3 DEF Parsed
    <3>. QED BY <1>3, <2>3, <3>1, InputAssumption
  <2>4. CASE ~(text # tree_[p] /\ text \in DOMAIN Yaml)
    <3>1. Became(tree_, p) = Leaf(text) BY <2>1, <2>4 DEF Parsed
    <3>2. q = <<>> /\ Leaf(text)[<<>>] = text BY <3>1, LeafIs
    <3>. QED BY <1>3, <2>2, <3>1, <3>2
  <2>. QED BY <2>3, <2>4
<1>. QED BY <1>4, <1>5

LEMMA TypeInit == Init => TypeOK /\ ValuesInv
<1>. SUFFICES ASSUME Init PROVE TypeOK /\ ValuesInv
  OBVIOUS
<1>1. input \in Inputs /\ input.listed \in Nat BY InputFacts DEF Init
<1>2. "default" \in Keys BY AttributesAssumption
<1>. DEFINE one == <<"default">>
<1>3. one \in Path BY <1>2 DEF Path
<1>4. Len(one) - 1 = 0 OBVIOUS
<1>5. DOMAIN tree = {one} /\ tree[one] = "map" BY DEF Init
<1>. HIDE DEF one
<1>6. IsFile(tree)
  <2>0. 1..0 = {} OBVIOUS
  <2>1. \A p \in DOMAIN tree : 1..(Len(p) - 1) = {} BY <1>4, <1>5, <2>0
  <2>2. IsTree(tree) BY <1>3, <1>5, <2>1 DEF IsTree, Path
  <2>. QED BY <1>5, <2>2 DEF IsFile
<1>7. ValuesInv BY <1>1, <1>5, <1>6 DEF ValuesInv
<1>8. MaxTries \in Nat BY InputAssumption
<1>9. pc \in {"early", "files"} BY DEF Init
<1>10. TypeOK BY <1>1, <1>6, <1>8, <1>9 DEF TypeOK, Init, IsFile
<1>. QED BY <1>7, <1>10

LEMMA TypeStep == TypeOK /\ ValuesInv /\ [Next]_vars => TypeOK' /\ ValuesInv'
<1>. SUFFICES ASSUME TypeOK, ValuesInv, [Next]_vars PROVE TypeOK' /\ ValuesInv'
  OBVIOUS
<1>0. input \in Inputs /\ MaxTries \in Nat /\ input.listed \in Nat
      /\ IsFile(input.env) /\ \A n \in 1..input.listed : IsFile(input.files[n])
  BY InputAssumption, InputFacts DEF ValuesInv
<1>. USE DEF TypeOK, ValuesInv, templater, tester, Doing, FailAt, Merging
<1>1. CASE EarlyScripts BY <1>1 DEF EarlyScripts
<1>2. CASE MergeFile
  <2>1. /\ pc = "files" /\ pc' = pc /\ input' = input /\ loaded < input.listed
        /\ loaded' = loaded + 1 /\ tree' = Merge(tree, input.files[loaded + 1])
        /\ UNCHANGED <<pending, broken, file, service, tries, status>>
    BY <1>2 DEF MergeFile
  <2>0. loaded \in 0..input.listed OBVIOUS
  <2>2. loaded + 1 \in 1..input.listed /\ loaded' \in 0..input.listed
    <3>. HIDE DEF TypeOK, ValuesInv
    <3>. QED BY <1>0, <2>0, <2>1
  <2>3. IsFile(tree') BY <1>0, <2>1, <2>2, MergeFiles
  <2>. QED BY <1>0, <2>1, <2>2, <2>3 DEF IsFile
<1>3. CASE Override
  <2>1. /\ pc = "files" /\ input' = input
        /\ UNCHANGED <<loaded, pending, broken, file, service, tries>>
        /\ \/ pc' = pc /\ tree' = tree /\ status' = "error"
           \/ pc' = "environment" /\ status' = status /\ tree' = ProcessOverride(tree)
    BY <1>3 DEF Override
  <2>2. IsFile(Below(tree, "default")) /\ IsFile(Below(tree, "override"))
    BY <2>1, BelowFile, AttributesAssumption
  <2>3. IsFile(ProcessOverride(tree)) BY <2>2, MergeFiles DEF ProcessOverride
  <2>4. IsFile(tree') BY <2>1, <2>3
  <2>. QED BY <1>0, <2>1, <2>4 DEF IsFile
<1>4. CASE Environment
  <2>1. /\ pc = "environment" /\ input' = input /\ pc' = "attributes"
        /\ tree' = Merge(tree, input.env)
        /\ UNCHANGED <<loaded, pending, broken, file, service, tries, status>>
    BY <1>4 DEF Environment
  <2>2. IsFile(tree') BY <1>0, <2>1, MergeFiles
  <2>. QED BY <1>0, <2>1, <2>2 DEF IsFile
<1>5. CASE TemplateAttributes
  <2>1. /\ pc = "attributes" /\ input' = input
        /\ UNCHANGED <<loaded, pending, broken, file, service, tries>>
        /\ \/ pc' = pc /\ tree' = tree /\ status' = "error"
           \/ pc' = "partials" /\ status' = status /\ tree' = Templated(tree)
    BY <1>5 DEF TemplateAttributes
  <2>0. IsTree(tree) /\ \A p \in DOMAIN tree : tree[p] \notin {"old", ""} OBVIOUS
  <2>2. IsTree(Templated(tree)) BY <2>0, TemplatedTree
  <2>3. \A p \in DOMAIN Templated(tree) : Templated(tree)[p] \notin {"old", ""}
    BY <2>0, TemplatedValues
  <2>. QED BY <1>0, <2>1, <2>2, <2>3
<1>6. CASE LoadPartials BY <1>6 DEF LoadPartials
<1>7. CASE BadTemplate BY <1>7 DEF BadTemplate
<1>8. CASE \E t \in Templates : Render(t)
  <2>1. PICK t \in Templates : Render(t) BY <1>8
  <2>2. /\ t \in pending /\ pending' = pending \ {t}
        /\ UNCHANGED <<input, pc, loaded, tree, service, tries>>
    BY <2>1 DEF Render
  <2>3. DOMAIN file' = Templates BY <2>1 DEF Render
  <2>4. broken' \subseteq broken \cup {t} /\ status' \in {status, "error"}
    BY <2>1 DEF Render, Failed
  <2>. QED BY <1>0, <2>2, <2>3, <2>4
<1>9. CASE TemplatesDone BY <1>9 DEF TemplatesDone
<1>10. CASE LateScripts BY <1>10 DEF LateScripts
<1>11. CASE WaitSh
  <2>0. tries \in 0..MaxTries OBVIOUS
  <2>1. tries' \in 0..MaxTries
    <3>. HIDE DEF TypeOK, ValuesInv
    <3>1. tries < MaxTries /\ tries' \in {tries, tries + 1}
      BY <1>11 DEF WaitSh, TryAgain, NextTries
    <3>. QED BY <1>0, <2>0, <3>1
  <2>2. pc \in {"wait"} /\ pc' \in {"wait", "tests"} BY <1>11 DEF WaitSh
  <2>. QED BY <1>0, <1>11, <2>1, <2>2 DEF WaitSh
<1>12. CASE GiveUpWaiting BY <1>12 DEF GiveUpWaiting
<1>13. CASE RunTests BY <1>13 DEF RunTests
<1>14. CASE Fail BY <1>14 DEF Fail
<1>15. CASE Service BY <1>15 DEF Service
<1>16. CASE UNCHANGED vars BY <1>16 DEF vars
<1>. QED
  BY <1>1, <1>2, <1>3, <1>4, <1>5, <1>6, <1>7, <1>8, <1>9, <1>10, <1>11, <1>12, <1>13, <1>14,
     <1>15, <1>16 DEF Next, Program

----------------------------------------------------------------------------
(* The merges *)

LEMMA ShowsOne ==
  ASSUME NEW x
  PROVE  Shows(x, <<x>>)
<1>. DEFINE one == <<x>>
<1>1. DOMAIN one = {1} /\ one[1] = x OBVIOUS
<1>. HIDE DEF one
<1>2. \A p \in DOMAIN x : IsLast(one, 1, p) /\ x[p] = one[1][p] BY <1>1 DEF IsLast
<1>3. Shows(x, one) BY <1>1, <1>2 DEF Shows
<1>. QED BY <1>3 DEF one

\* Merging what shows the layers L with what shows M shows both, one after the
\* other.
LEMMA MergeLayers ==
  ASSUME input \in Inputs, Consistent, NEW L \in Seq(Pieces), NEW M \in Seq(Pieces),
         NEW a, NEW b, IsTree(a), IsTree(b), Shows(a, L), Shows(b, M)
  PROVE  Agree(a, b) /\ Shows(Merge(a, b), L \o M)
<1>1. \A n \in DOMAIN L : L[n] \in Pieces BY ElementOfSeq, LenProperties
<1>2. \A m \in DOMAIN M : M[m] \in Pieces BY ElementOfSeq, LenProperties
<1>3. \A n \in DOMAIN L, m \in DOMAIN M : Agree(L[n], M[m]) BY <1>1, <1>2, Agreement
<1>4. Agree(a, b) BY <1>3, ShowsAgree
<1>. QED BY <1>4, MergeShows

\* The resolved values are those of the layers: a path has its own value, or is
\* at or below the one template on the way to it.
LEMMA TemplatedShown ==
  ASSUME NEW tree_, IsTree(tree_), \A p : At(tree_, p) = Value(Layers, p), NEW path \in Path
  PROVE  Shown(Templated(tree_), path) = Expected(path)
<1>. DEFINE r == Templated(tree_)
            templates == {n \in 1..Len(path) : Value(Layers, SubSeq(path, 1, n)) \in DOMAIN References}
<1>1. /\ \A x : x \in DOMAIN r <=>
           \E p \in DOMAIN tree_ : \E q \in DOMAIN Became(tree_, p) : x = p \o q
      /\ \A p \in DOMAIN tree_ : \A q \in DOMAIN Became(tree_, p) : r[p \o q] = Became(tree_, p)[q]
  BY TemplatedAt
<1>2. /\ DOMAIN tree_ \subseteq Path
      /\ \A p \in DOMAIN tree_, q \in Path :
           IsStrictPrefix(q, p) => q \in DOMAIN tree_ /\ tree_[q] = "map"
  BY TreeAbove
<1>3. \A p \in DOMAIN tree_ : DOMAIN Became(tree_, p) \subseteq Seq(Keys) /\ <<>> \in DOMAIN Became(tree_, p)
  BY BecameIs, NodeAbove
<1>4. "nil" \notin DOMAIN References BY AttributesAssumption
<1>5. path \in Seq(Keys) /\ Len(path) \in Nat \ {0} BY EmptySeq, LenProperties DEF Path
<1>6. \A p : (p \in DOMAIN tree_ => Value(Layers, p) = tree_[p])
              /\ (p \notin DOMAIN tree_ => Value(Layers, p) = "nil")
  BY DEF At
<1>7. \A x \in Seq(Keys) : x \o <<>> = x BY ConcatEmptySeq
<1>. HIDE DEF r
<1>8. CASE templates = {}
  <2>1. Resolved(Layers, path) = Value(Layers, path) BY <1>8 DEF Resolved
  <2>2. ASSUME NEW p \in DOMAIN tree_, NEW q \in DOMAIN Became(tree_, p), path = p \o q
        PROVE  tree_[p] \notin DOMAIN References /\ path = p
    <3>1. p \in Path /\ p \in Seq(Keys) /\ q \in Seq(Keys) /\ Len(p) \in Nat \ {0}
      BY <1>2, <1>3, EmptySeq, LenProperties DEF Path
    <3>2. Len(p) \in 1..Len(path) /\ SubSeq(path, 1, Len(p)) = p
      <4>1. Len(path) = Len(p) + Len(q) /\ Len(q) \in Nat BY <2>2, <3>1, ConcatProperties, LenProperties
      <4>2. Len(p) \in 1..Len(p) /\ 1 \in 1..Len(p) BY <3>1
      <4>3. SubSeq(p \o q, 1, Len(p)) = SubSeq(p, 1, Len(p)) BY <3>1, <4>2, SubSeqOfConcat1
      <4>4. SubSeq(p, 1, Len(p)) = p BY <3>1, SubSeqFull
      <4>. QED BY <2>2, <3>1, <4>1, <4>3, <4>4
    <3>3. Value(Layers, p) \notin DOMAIN References BY <1>8, <3>2
    <3>4. tree_[p] \notin DOMAIN References BY <1>6, <3>3
    <3>5. q = <<>> BY <3>4, BecameIs
    <3>. QED BY <1>7, <2>2, <3>1, <3>4, <3>5
  <2>3. CASE path \in DOMAIN tree_
    <3>1. path \o <<>> = path BY <1>5, <1>7
    <3>2. path \in DOMAIN r /\ r[path] = Became(tree_, path)[<<>>] BY <1>1, <1>3, <2>3, <3>1
    <3>3. tree_[path] \notin DOMAIN References BY <1>3, <2>2, <2>3, <3>1
    <3>4. r[path] = tree_[path] BY <2>3, <3>2, <3>3, BecameIs
    <3>. QED BY <1>6, <2>1, <2>3, <3>2, <3>4 DEF Shown, At, Expected, r
  <2>4. CASE path \notin DOMAIN tree_
    <3>1. path \notin DOMAIN r BY <1>1, <2>2, <2>4
    <3>. QED BY <1>6, <2>1, <2>4, <3>1 DEF Shown, At, Expected, r
  <2>. QED BY <2>3, <2>4
<1>9. CASE templates # {}
  <2>. DEFINE n     == CHOOSE k \in templates : TRUE
              p     == SubSeq(path, 1, n)
              q     == SubSeq(path, n + 1, Len(path))
              value == Value(Layers, p)
              node  == Parsed(value, Text(Value(Layers, References[value])))
  <2>1. Resolved(Layers, path) = At(node, q) BY <1>9 DEF Resolved
  <2>2. n \in 1..Len(path) /\ value \in DOMAIN References BY <1>9
  <2>. HIDE DEF n
  <2>3. p \o q = path
    <3>1. /\ 1 \in 1..Len(path) + 1 /\ n \in (1 - 1)..Len(path) /\ Len(path) \in n..Len(path)
      BY <1>5, <2>2
    <3>2. p \o q = SubSeq(path, 1, Len(path)) BY <1>5, <3>1, ConcatAdjacentSubSeq
    <3>. QED BY <1>5, <3>2, SubSeqFull
  <2>4. p \in DOMAIN tree_ /\ tree_[p] = value BY <1>4, <1>6, <2>2
  <2>5. Became(tree_, p) = node BY <2>2, <2>4 DEF Became, Shown
  <2>6. q \in Seq(Keys)
    <3>1. n + 1 \in 1..Len(path) + 1 /\ Len(path) \in Int /\ n + 1 \in Int BY <1>5, <2>2
    <3>2. \A i \in (n + 1)..Len(path) : path[i] \in Keys BY <1>5, <2>2, ElementOfSeq
    <3>. QED BY <1>5, <3>1, <3>2, SubSeqProperties
  <2>. HIDE DEF p, q, value, node
  <2>7. CASE q \in DOMAIN node
    <3>1. path \in DOMAIN r /\ r[path] = node[q] BY <1>1, <2>3, <2>4, <2>5, <2>7
    <3>. QED BY <2>1, <2>7, <3>1 DEF Shown, At, Expected, r
  <2>8. CASE q \notin DOMAIN node
    <3>1. ASSUME path \in DOMAIN r PROVE FALSE
      <4>1. PICK o \in DOMAIN tree_ : \E s \in DOMAIN Became(tree_, o) : path = o \o s BY <1>1, <3>1
      <4>2. PICK s \in DOMAIN Became(tree_, o) : path = o \o s BY <4>1
      <4>3. o = p
        <5>1. tree_[p] \in DOMAIN References /\ p \o q = o \o s BY <2>2, <2>3, <2>4, <4>2
        <5>. QED BY <2>4, <2>6, <5>1, OnTheWay
      <4>4. \A x, y, z \in Seq(Keys) : x \o y = x \o z => y = z BY ConcatSimplifications
      <4>5. p \in Seq(Keys) /\ s \in Seq(Keys) BY <1>2, <1>3, <2>4, <4>3 DEF Path
      <4>6. s = q BY <2>3, <2>6, <4>2, <4>3, <4>4, <4>5
      <4>. QED BY <2>5, <2>8, <4>3, <4>6
    <3>. QED BY <2>1, <2>8, <3>1 DEF Shown, At, Expected, r
  <2>. QED BY <2>7, <2>8
<1>. QED BY <1>8, <1>9

LEMMA MergeInit == Init => MergeInv
<1>. SUFFICES ASSUME Init PROVE MergeInv
  OBVIOUS
<1>1. input.listed \in Nat BY InputFacts DEF Init
<1>. DEFINE one == <<"default">>
<1>2. DOMAIN tree = {one} /\ loaded = 0 BY DEF Init
<1>3. one \in Path /\ Len(one) = 1
  <2>1. "default" \in Keys BY AttributesAssumption
  <2>. QED BY <2>1 DEF Path
<1>. HIDE DEF one
<1>4. ASSUME NEW key \in {"default", "override"}
      PROVE  Shows(Below(tree, key), Part(key, loaded))
  <2>1. key \in Keys BY AttributesAssumption
  <2>2. DOMAIN tree \subseteq Path BY <1>2, <1>3
  <2>3. DOMAIN Below(tree, key) = {p \in Path : Join(key, p) \in DOMAIN tree} BY <2>1, <2>2, BelowAt
  <2>4. ASSUME NEW p \in Path PROVE Join(key, p) # one
    <3>. DEFINE j == Join(key, p)
    <3>1. Len(j) = Len(p) + 1 BY <2>1, JoinFacts DEF Path
    <3>2. Len(p) \in Nat \ {0} BY EmptySeq DEF Path
    <3>. HIDE DEF j
    <3>3. j # one BY <1>3, <3>1, <3>2
    <3>. QED BY <3>3 DEF j
  <2>5. DOMAIN Below(tree, key) = {} BY <1>2, <2>3, <2>4
  <2>6. DOMAIN Part(key, loaded) = {} BY <1>2 DEF Part
  <2>. QED BY <2>5, <2>6 DEF Shows
<1>5. pc \in {"early", "files"} BY DEF Init
<1>. QED BY <1>4, <1>5 DEF MergeInv, Started

\* As long as the input stays the same, so do the layers.
LEMMA SameLayers ==
  ASSUME input' = input
  PROVE  /\ Consistent' = Consistent /\ Layers' = Layers
         /\ \A key, k : Part(key, k)' = Part(key, k)
         /\ \A path : Expected(path)' = Expected(path)
<1>1. Layers' = Layers BY DEF Layers
<1>2. Consistent' = Consistent BY <1>1 DEF Consistent
<1>3. \A key, k : Part(key, k)' = Part(key, k) BY DEF Part
<1>4. \A path : Expected(path)' = Expected(path) BY <1>1 DEF Expected
<1>. QED BY <1>1, <1>2, <1>3, <1>4

\* What follows the merges says the same as long as no merge is done.
LEMMA MergeUnchanged ==
  ASSUME MergeInv, input' = input, tree' = tree, loaded' = loaded,
         \/ pc' = pc
         \/ pc' \in {"early", "files"} /\ pc \in {"early", "files"}
         \/ /\ pc \in {"partials", "templates"} \cup Started
            /\ pc' \in {"partials", "templates"} \cup Started
  PROVE  MergeInv'
<1>1. /\ Consistent' = Consistent /\ Layers' = Layers
      /\ \A key, k : Part(key, k)' = Part(key, k)
      /\ \A path : Expected(path)' = Expected(path)
  BY SameLayers
<1>. SUFFICES ASSUME Consistent' PROVE MergeInv'
  BY DEF MergeInv
<1>2. Consistent BY <1>1
<1>3. (pc \in {"early", "files"})' =>
         \A key \in {"default", "override"} : Shows(Below(tree, key), Part(key, loaded))'
  <2>1. ASSUME (pc \in {"early", "files"})', NEW key \in {"default", "override"}
        PROVE  Shows(Below(tree, key), Part(key, loaded))'
    <3>1. pc \in {"early", "files"} BY <2>1 DEF Started
    <3>2. Shows(Below(tree, key), Part(key, loaded)) BY <1>2, <3>1 DEF MergeInv
    <3>3. Part(key, loaded)' = Part(key, loaded) BY DEF Part
    <3>. QED BY <3>2, <3>3
  <2>. QED BY <2>1
<1>4. (pc = "environment")' =>
         Shows(tree, Part("default", input.listed) \o Part("override", input.listed))'
  <2>1. ASSUME (pc = "environment")'
        PROVE  Shows(tree, Part("default", input.listed) \o Part("override", input.listed))'
    <3>1. pc = "environment" BY <2>1 DEF Started
    <3>2. Shows(tree, Part("default", input.listed) \o Part("override", input.listed))
      BY <1>2, <3>1 DEF MergeInv
    <3>3. \A key : Part(key, input.listed)' = Part(key, input.listed) BY DEF Part
    <3>. QED BY <3>2, <3>3
  <2>. QED BY <2>1
<1>5. (pc = "attributes")' => Shows(tree, Layers)'
  <2>1. ASSUME (pc = "attributes")' PROVE Shows(tree, Layers)'
    <3>1. pc = "attributes" BY <2>1 DEF Started
    <3>2. Shows(tree, Layers) BY <1>2, <3>1 DEF MergeInv
    <3>. QED BY <1>1, <3>2
  <2>. QED BY <2>1
<1>6. (pc \in {"partials", "templates"} \cup Started)' =>
         \A t \in Templates : Shown(tree, Uses[t])' = Expected(Uses[t])'
  <2>1. ASSUME (pc \in {"partials", "templates"} \cup Started)', NEW t \in Templates
        PROVE  Shown(tree, Uses[t])' = Expected(Uses[t])'
    <3>1. pc \in {"partials", "templates"} \cup Started BY <2>1 DEF Started
    <3>2. Shown(tree, Uses[t]) = Expected(Uses[t]) BY <1>2, <3>1 DEF MergeInv
    <3>. QED BY <1>1, <3>2
  <2>. QED BY <2>1
<1>. QED BY <1>3, <1>4, <1>5, <1>6 DEF MergeInv, Started

LEMMA MergeStep == TypeOK /\ ValuesInv /\ MergeInv /\ [Next]_vars => MergeInv'
<1>. SUFFICES ASSUME TypeOK, ValuesInv, MergeInv, [Next]_vars PROVE MergeInv'
  OBVIOUS
<1>0. /\ input \in Inputs /\ input.listed \in Nat /\ IsFile(input.env)
      /\ \A n \in 1..input.listed : IsFile(input.files[n])
      /\ IsTree(tree) /\ loaded \in 0..input.listed
  BY InputFacts DEF ValuesInv, TypeOK
<1>00. {"default", "override"} \subseteq Keys BY AttributesAssumption
<1>1. CASE EarlyScripts BY <1>1, MergeUnchanged DEF EarlyScripts, Doing, templater, Started
<1>2. CASE MergeFile
  <2>. DEFINE f == input.files[loaded + 1]
  <2>1. /\ pc = "files" /\ pc' = "files" /\ input' = input /\ loaded < input.listed
        /\ loaded' = loaded + 1 /\ tree' = Merge(tree, f)
    BY <1>2 DEF MergeFile, Doing
  <2>2. loaded + 1 \in 1..input.listed /\ loaded \in 0..(input.listed - 1) BY <1>0, <2>1
  <2>3. IsTree(f) BY <1>0, <2>2 DEF IsFile
  <2>4. ASSUME Consistent, NEW key \in {"default", "override"}
        PROVE  Shows(Below(tree', key), Part(key, loaded + 1))
    <3>. DEFINE b == Below(tree, key)
                g == Below(f, key)
                L == Part(key, loaded)
                M == <<g>>
    <3>1. Shows(b, L) BY <2>1, <2>4 DEF MergeInv
    <3>2. L \in Seq(Pieces) BY <1>0, PartFacts
    <3>3. M \in Seq(Pieces)
      <4>1. g \in Pieces BY <2>2 DEF Pieces
      <4>. QED BY <4>1
    <3>4. IsTree(b) /\ IsTree(g) BY <1>0, <1>00, <2>3, BelowTree
    <3>5. Shows(g, M) BY ShowsOne
    <3>6. Part(key, loaded + 1) = L \o M BY <1>0, <2>2, PartNext
    <3>7. <<key>> \in DOMAIN f => f[<<key>>] = "map" BY <2>2, <2>4 DEF Consistent
    <3>8. key \in Keys BY <1>00
    <3>9. /\ DOMAIN Merge(b, g) = DOMAIN Below(Merge(tree, f), key)
          /\ \A p \in DOMAIN Below(Merge(tree, f), key) : Merge(b, g)[p] = Below(Merge(tree, f), key)[p]
      <4>. HIDE DEF f
      <4>. QED BY <1>0, <2>3, <3>7, <3>8, BelowMerge
    <3>. HIDE DEF b, g, L, M
    <3>10. Shows(Merge(b, g), L \o M)
      BY <1>0, <2>4, <3>1, <3>2, <3>3, <3>4, <3>5, MergeLayers
    <3>. DEFINE m == Merge(b, g)
                c == Below(Merge(tree, f), key)
    <3>11. DOMAIN c = DOMAIN m /\ \A p \in DOMAIN m : c[p] = m[p] BY <3>9
    <3>12. Shows(m, L \o M) BY <3>10
    <3>. HIDE DEF m, c
    <3>13. Shows(c, L \o M) BY <3>11, <3>12, ShowsSame
    <3>. QED BY <2>1, <3>6, <3>13 DEF c
  <2>5. Consistent' = Consistent /\ \A key, k : Part(key, k)' = Part(key, k) BY <2>1, SameLayers
  <2>6. ASSUME Consistent', NEW key \in {"default", "override"}
        PROVE  Shows(Below(tree, key), Part(key, loaded))'
    <3>1. Shows(Below(tree', key), Part(key, loaded + 1)) BY <2>4, <2>5, <2>6
    <3>2. Part(key, loaded)' = Part(key, loaded + 1) BY <2>1 DEF Part
    <3>. QED BY <3>1, <3>2
  <2>. QED BY <2>1, <2>6 DEF MergeInv, Started
<1>3. CASE Override
  <2>1. CASE status' = "error"
    BY <1>3, <2>1, MergeUnchanged DEF Override, Doing
  <2>2. CASE status' # "error"
    <3>. DEFINE d == Below(tree, "default")
                o == Below(tree, "override")
                k == input.listed
                D == Part("default", k)
                O == Part("override", k)
    <3>1. /\ pc = "files" /\ pc' = "environment" /\ input' = input /\ loaded = k
          /\ tree' = ProcessOverride(tree)
      BY <1>3, <2>2 DEF Override, Doing
    <3>2. ASSUME Consistent PROVE Shows(tree', D \o O)
      <4>1. Shows(d, D) /\ Shows(o, O) BY <3>1, <3>2 DEF MergeInv
      <4>2. D \in Seq(Pieces) /\ O \in Seq(Pieces) BY <1>0, PartFacts
      <4>3. IsTree(d) /\ IsTree(o) BY <1>0, <1>00, BelowTree
      <4>. HIDE DEF D, O
      <4>4. Agree(d, o) /\ Shows(Merge(d, o), D \o O)
        BY <1>0, <3>2, <4>1, <4>2, <4>3, MergeLayers
      <4>5. CASE HasOverride(tree)
        <5>1. tree' = Merge(d, o) BY <3>1, <4>5 DEF ProcessOverride
        <5>. QED BY <4>4, <5>1
      <4>6. CASE ~HasOverride(tree)
        <5>1. tree' = d BY <3>1, <4>6 DEF ProcessOverride
        <5>2. DOMAIN o = {}
          <6>1. /\ DOMAIN tree \subseteq Path
                /\ \A p \in DOMAIN tree, q \in Path : IsStrictPrefix(q, p) => q \in DOMAIN tree
            BY <1>0, TreeAbove
          <6>2. DOMAIN o = {p \in Path : Join("override", p) \in DOMAIN tree}
            BY <1>00, <6>1, BelowAt
          <6>3. ASSUME NEW p \in Path, Join("override", p) \in DOMAIN tree PROVE FALSE
            <7>. DEFINE one == Join("override", <<>>)
                        j   == Join("override", p)
            <7>0. <<>> \in Seq(Keys) /\ p \in Seq(Keys) /\ p # <<>> BY <6>3 DEF Path
            <7>1. one \in Path /\ Tail(one) = <<>> /\ j \in Path /\ Tail(j) = p
              BY <1>00, <7>0, JoinFacts
            <7>2. one = <<"override">> BY DEF Join
            <7>3. IsPrefix(<<>>, p)
              <8>. DEFINE none == <<>>
              <8>1. none \in Seq(Keys) /\ Len(none) = 0 /\ Len(p) \in Nat BY <7>0, LenProperties
              <8>. HIDE DEF none
              <8>2. Len(none) <= Len(p) /\ \A i \in 1..Len(none) : none[i] = p[i] BY <8>1
              <8>3. IsPrefix(none, p) BY <7>0, <8>1, <8>2, PrefixIs
              <8>. QED BY <8>3 DEF none
            <7>4. IsPrefix(one, j) BY <1>00, <7>0, <7>3, JoinPrefix
            <7>5. one # j BY <7>0, <7>1
            <7>6. one \in DOMAIN tree BY <6>1, <6>3, <7>1, <7>4, <7>5 DEF IsStrictPrefix
            <7>. QED BY <4>6, <7>2, <7>6 DEF HasOverride
          <6>. QED BY <6>2, <6>3
        <5>3. /\ DOMAIN Merge(d, o) = DOMAIN d \cup DOMAIN o
              /\ \A p \in DOMAIN d \ DOMAIN o : Merge(d, o)[p] = d[p]
          BY <4>3, <4>4, MergeKeeps
        <5>. DEFINE m == Merge(d, o)
        <5>4. DOMAIN d = DOMAIN m /\ \A p \in DOMAIN m : d[p] = m[p] BY <5>2, <5>3
        <5>5. Shows(m, D \o O) BY <4>4
        <5>. HIDE DEF m, d
        <5>6. Shows(d, D \o O) BY <5>4, <5>5, ShowsSame
        <5>. QED BY <5>1, <5>6
      <4>. QED BY <4>5, <4>6
    <3>3. Consistent' = Consistent /\ D' = D /\ O' = O BY <3>1, SameLayers DEF Part
    <3>. HIDE DEF D, O
    <3>4. Consistent' => Shows(tree', D' \o O') BY <3>2, <3>3
    <3>. QED BY <3>1, <3>4 DEF MergeInv, Started, D, O
  <2>. QED BY <2>1, <2>2
<1>4. CASE Environment
  <2>. DEFINE k == input.listed
              D == Part("default", k)
              O == Part("override", k)
              B == D \o O
              E == <<input.env>>
  <2>1. /\ pc = "environment" /\ pc' = "attributes" /\ input' = input
        /\ tree' = Merge(tree, input.env)
    BY <1>4 DEF Environment, Doing
  <2>2. ASSUME Consistent PROVE Shows(tree', Layers)
    <3>1. Shows(tree, B) BY <2>1, <2>2 DEF MergeInv
    <3>2. Layers = B \o E BY <1>0, LayersAre
    <3>3. D \in Seq(Pieces) /\ O \in Seq(Pieces) BY <1>0, PartFacts
    <3>4. E \in Seq(Pieces)
      <4>1. input.env \in Pieces BY DEF Pieces
      <4>. QED BY <4>1
    <3>5. Shows(input.env, E) BY ShowsOne
    <3>. HIDE DEF D, O, E
    <3>6. B \in Seq(Pieces) BY <3>3, ConcatProperties
    <3>. HIDE DEF B
    <3>7. IsTree(input.env) BY <1>0 DEF IsFile
    <3>8. Shows(Merge(tree, input.env), B \o E)
      BY <1>0, <2>2, <3>1, <3>4, <3>5, <3>6, <3>7, MergeLayers
    <3>. QED BY <2>1, <3>2, <3>8
  <2>3. Consistent' = Consistent /\ Layers' = Layers BY <2>1, SameLayers
  <2>4. Consistent' => Shows(tree', Layers') BY <2>2, <2>3
  <2>. QED BY <2>1, <2>4 DEF MergeInv, Started
<1>5. CASE TemplateAttributes
  <2>1. CASE status' = "error"
    BY <1>5, <2>1, MergeUnchanged DEF TemplateAttributes, Doing
  <2>2. CASE status' # "error"
    <3>1. /\ pc = "attributes" /\ pc' = "partials" /\ input' = input
          /\ tree' = Templated(tree)
      BY <1>5, <2>2 DEF TemplateAttributes, Doing
    <3>2. ASSUME Consistent, NEW path \in Path PROVE Shown(Templated(tree), path) = Expected(path)
      <4>1. Shows(tree, Layers) BY <3>1, <3>2 DEF MergeInv
      <4>2. Layers \in Seq(Pieces) BY <1>0, LayersAre
      <4>3. \A q : At(tree, q) = Value(Layers, q) BY <4>1, <4>2, ShowsValue
      <4>4. IsTree(tree) BY DEF TypeOK
      <4>. QED BY <4>3, <4>4, TemplatedShown
    <3>3. Consistent' = Consistent /\ \A path : Expected(path)' = Expected(path)
      BY <3>1, SameLayers
    <3>4. Consistent' => \A t \in Templates : Shown(tree, Uses[t])' = Expected(Uses[t])'
      BY <3>1, <3>2, <3>3, InputAssumption DEF Path
    <3>. QED BY <3>1, <3>4 DEF MergeInv, Started
  <2>. QED BY <2>1, <2>2
<1>6. CASE LoadPartials BY <1>6, MergeUnchanged DEF LoadPartials, Doing, templater, Started
<1>7. CASE BadTemplate BY <1>7, MergeUnchanged DEF BadTemplate, FailAt, templater
<1>8. CASE \E t \in Templates : Render(t) BY <1>8, MergeUnchanged DEF Render
<1>9. CASE TemplatesDone
  BY <1>9, MergeUnchanged DEF TemplatesDone, Doing, templater, Started
<1>10. CASE LateScripts BY <1>10, MergeUnchanged DEF LateScripts, Doing, templater, Started
<1>11. CASE WaitSh BY <1>11, MergeUnchanged DEF WaitSh, Doing, templater, Started
<1>12. CASE GiveUpWaiting BY <1>12, MergeUnchanged DEF GiveUpWaiting, Doing, templater, Started
<1>13. CASE RunTests BY <1>13, MergeUnchanged DEF RunTests, templater
<1>14. CASE Fail BY <1>14, MergeUnchanged DEF Fail, FailAt, templater
<1>15. CASE Service BY <1>15, MergeUnchanged DEF Service, templater
<1>16. CASE UNCHANGED vars BY <1>16, MergeUnchanged DEF vars, templater
<1>. QED
  BY <1>1, <1>2, <1>3, <1>4, <1>5, <1>6, <1>7, <1>8, <1>9, <1>10, <1>11, <1>12, <1>13, <1>14,
     <1>15, <1>16 DEF Next, Program

----------------------------------------------------------------------------
(* The templates *)

LEMMA RenderInit == Init => RenderInv
<1>. SUFFICES ASSUME Init PROVE RenderInv
  OBVIOUS
<1>1. pc \in {"early", "files"} /\ status = "running" /\ pending = Templates /\ broken = {}
  BY DEF Init
<1>. QED BY <1>1 DEF RenderInv, Rendered, Started

\* The targets stay as they are where no template is rendered.
LEMMA RenderUnchanged ==
  ASSUME RenderInv, input' = input, pending' = pending, broken' = broken, file' = file,
         \/ pc' \notin {"templates"} \cup Started /\ status' # "ok"
              /\ pc \notin {"templates"} \cup Started
         \/ pc' = pc /\ tree' = tree /\ status' \in {status, "error"}
         \/ /\ pc' = pc /\ tree' = tree /\ pc \in {"templates"} \cup Started
            /\ status = "running" /\ pending = {}
         \/ /\ pc \in {"templates"} \cup Started /\ pc' \in Started /\ pending = {}
            /\ tree' = tree /\ status = "running" /\ status' = "running"
  PROVE  RenderInv'
<1>. USE DEF Started
<1>1. CASE pc' \notin {"templates"} \cup Started /\ status' # "ok" /\ pc \notin {"templates"} \cup Started
  BY <1>1 DEF RenderInv, Rendered
<1>2. ASSUME tree' = tree PROVE
        /\ Continue' = Continue
        /\ \A t \in Templates : (Shown(tree, Uses[t]) = Shown(tree, Uses[t])')
        /\ \A t, text : NoValueFails(t, text)' = NoValueFails(t, text)
  BY <1>2 DEF Continue, NoValueFails
<1>3. CASE pc' = pc /\ tree' = tree /\ status' \in {status, "error"}
  BY <1>2, <1>3 DEF RenderInv, Rendered
<1>4. CASE /\ pc' = pc /\ tree' = tree /\ pc \in {"templates"} \cup Started
           /\ status = "running" /\ pending = {}
  BY <1>2, <1>4 DEF RenderInv, Rendered
<1>5. CASE /\ pc \in {"templates"} \cup Started /\ pc' \in Started /\ pending = {}
           /\ tree' = tree /\ status = "running" /\ status' = "running"
  BY <1>2, <1>5 DEF RenderInv, Rendered
<1>. QED BY <1>1, <1>3, <1>4, <1>5

LEMMA RenderStep == TypeOK /\ RenderInv /\ [Next]_vars => RenderInv'
<1>. SUFFICES ASSUME TypeOK, RenderInv, [Next]_vars PROVE RenderInv'
  OBVIOUS
<1>. USE DEF templater, tester, Doing, FailAt, Started
<1>1. CASE EarlyScripts BY <1>1, RenderUnchanged DEF EarlyScripts
<1>2. CASE MergeFile BY <1>2, RenderUnchanged DEF MergeFile
<1>3. CASE Override
  <2>1. /\ pc = "files" /\ UNCHANGED <<input, pending, broken, file>>
        /\ \/ pc' = pc /\ tree' = tree /\ status' = "error"
           \/ pc' = "environment" /\ status' = "running"
    BY <1>3 DEF Override
  <2>. QED BY <2>1, RenderUnchanged
<1>4. CASE Environment BY <1>4, RenderUnchanged DEF Environment
<1>5. CASE TemplateAttributes
  <2>1. /\ pc = "attributes" /\ UNCHANGED <<input, pending, broken, file>>
        /\ \/ pc' = pc /\ tree' = tree /\ status' = "error"
           \/ pc' = "partials" /\ status' = "running"
    BY <1>5 DEF TemplateAttributes
  <2>. QED BY <2>1, RenderUnchanged
<1>6. CASE LoadPartials
  <2>1. /\ pc = "partials" /\ pc' = "templates" /\ status = "running" /\ status' = "running"
        /\ UNCHANGED <<input, pending, broken, file>>
    BY <1>6 DEF LoadPartials
  <2>2. pending = Templates /\ broken = {} BY <2>1 DEF RenderInv
  <2>. QED BY <2>1, <2>2 DEF RenderInv, Rendered
<1>7. CASE BadTemplate BY <1>7, RenderUnchanged DEF BadTemplate
<1>8. CASE \E t \in Templates : Render(t)
  <2>. PICK t \in Templates : Render(t) BY <1>8
  <2>. DEFINE text == Shown(tree, Uses[t])
  <2>1. /\ status = "running" /\ pc = "templates" /\ pc' = "templates"
        /\ t \in pending /\ pending' = pending \ {t}
        /\ UNCHANGED <<input, tree>>
    BY DEF Render
  <2>2. /\ Continue' = Continue
        /\ \A u \in Templates : Shown(tree, Uses[u])' = Shown(tree, Uses[u])
    BY <2>1 DEF Continue
  <2>3. \/ Failed(t) /\ \A u \in Templates \ {t} : file'[u] = file[u]
        \/ /\ ~NoValueFails(t, text) /\ file' = [file EXCEPT ![t] = text]
           /\ UNCHANGED <<broken, status>>
    BY DEF Render, TypeOK
  <2>4. /\ ~Continue => broken = {}
        /\ \A u \in Templates \ (pending \cup broken) :
             file[u] = Shown(tree, Uses[u]) /\ ~NoValueFails(u, file[u])
    BY <2>1 DEF RenderInv
  <2>5. CASE Failed(t) /\ \A u \in Templates \ {t} : file'[u] = file[u]
    <3>1. CASE Continue
      <4>1. broken' = broken \cup {t} /\ status' = "running" BY <2>1, <2>5, <3>1 DEF Failed
      <4>2. \A u \in Templates \ (pending' \cup broken') :
              u \in Templates \ (pending \cup broken) /\ file'[u] = file[u]
        BY <2>1, <2>5, <4>1
      <4>3. \A u \in Templates \ (pending' \cup broken') :
              file'[u] = Shown(tree, Uses[u])' /\ ~NoValueFails(u, file'[u])
        BY <2>2, <2>4, <4>2
      <4>4. ~Rendered' BY <2>1, <4>1 DEF Rendered
      <4>. QED BY <2>1, <2>2, <3>1, <4>1, <4>3, <4>4 DEF RenderInv, NoValueFails
    <3>2. CASE ~Continue
      <4>1. status' = "error" BY <2>5, <3>2 DEF Failed
      <4>. QED BY <2>1, <4>1 DEF RenderInv, Rendered
    <3>. QED BY <3>1, <3>2
  <2>6. CASE /\ ~NoValueFails(t, text) /\ file' = [file EXCEPT ![t] = text]
             /\ UNCHANGED <<broken, status>>
    <3>1. DOMAIN file = Templates BY DEF TypeOK
    <3>2. file'[t] = text /\ \A u \in Templates \ {t} : file'[u] = file[u] BY <2>6, <3>1
    <3>. HIDE DEF text
    <3>3. ASSUME NEW u \in Templates \ (pending' \cup broken')
          PROVE  file'[u] = Shown(tree, Uses[u])' /\ ~NoValueFails(u, file'[u])
      <4>1. CASE u = t BY <2>2, <2>6, <3>2, <4>1 DEF text
      <4>2. CASE u # t
        <5>1. u \in Templates \ (pending \cup broken) BY <2>1, <2>6, <4>2
        <5>. QED BY <2>2, <2>4, <3>2, <4>2, <5>1
      <4>. QED BY <4>1, <4>2
    <3>4. ~Rendered' BY <2>1, <2>6 DEF Rendered
    <3>. QED BY <2>1, <2>2, <2>4, <2>6, <3>3, <3>4 DEF RenderInv, NoValueFails
  <2>. QED BY <2>3, <2>5, <2>6
<1>9. CASE TemplatesDone
  <2>1. /\ status = "running" /\ pc = "templates" /\ pending = {} /\ tree' = tree
        /\ UNCHANGED <<input, pending, broken, file>>
        /\ pc' = pc \/ (pc' = "late" /\ status' = status)
    BY <1>9 DEF TemplatesDone
  <2>. QED BY <2>1, RenderUnchanged
<1>10. CASE LateScripts
  <2>1. /\ status = "running" /\ pc = "late" /\ tree' = tree
        /\ UNCHANGED <<input, pending, broken, file>>
        /\ pc' = pc \/ (pc' \in {"wait", "tests"} /\ status' = status)
    BY <1>10 DEF LateScripts
  <2>2. pending = {} BY <2>1 DEF RenderInv, Rendered
  <2>. QED BY <2>1, <2>2, RenderUnchanged
<1>11. CASE WaitSh
  <2>1. /\ status = "running" /\ status' = status /\ pc = "wait" /\ pc' \in {"wait", "tests"}
        /\ UNCHANGED <<input, pending, broken, file, tree>>
    BY <1>11 DEF WaitSh
  <2>2. pending = {} BY <2>1 DEF RenderInv, Rendered
  <2>. QED BY <2>1, <2>2, RenderUnchanged
<1>12. CASE GiveUpWaiting
  <2>1. /\ status = "running" /\ status' = status /\ pc = "wait" /\ pc' = "tests"
        /\ UNCHANGED <<input, pending, broken, file, tree>>
    BY <1>12 DEF GiveUpWaiting
  <2>2. pending = {} BY <2>1 DEF RenderInv, Rendered
  <2>. QED BY <2>1, <2>2, RenderUnchanged
<1>13. CASE RunTests
  <2>1. /\ status = "running" /\ pc = "tests" /\ pc' = pc
        /\ UNCHANGED <<input, pending, broken, file, tree>>
    BY <1>13 DEF RunTests
  <2>2. pending = {} BY <2>1 DEF RenderInv, Rendered
  <2>. QED BY <2>1, <2>2, RenderUnchanged
<1>14. CASE Fail BY <1>14, RenderUnchanged DEF Fail
<1>15. CASE Service BY <1>15, RenderUnchanged DEF Service
<1>16. CASE UNCHANGED vars BY <1>16, RenderUnchanged DEF vars
<1>. QED
  BY <1>1, <1>2, <1>3, <1>4, <1>5, <1>6, <1>7, <1>8, <1>9, <1>10, <1>11, <1>12, <1>13, <1>14,
     <1>15, <1>16 DEF Next, Program

----------------------------------------------------------------------------
(* Theorems *)

LEMMA Inductive == Spec => []IInv
<1>1. Init => IInv BY TypeInit, MergeInit, RenderInit DEF IInv
<1>2. IInv /\ [Next]_vars => IInv' BY TypeStep, MergeStep, RenderStep DEF IInv
<1>. QED BY <1>1, <1>2, PTL DEF Spec

\* The templater works off the files and the templates it has, what is above
\* an attribute stays a map through every merge, and wait.sh is tried no more
\* often than the bound of the loop.
THEOREM TypeCorrect == Spec => []TypeOK
<1>1. IInv => TypeOK BY DEF IInv
<1>. QED BY <1>1, Inductive, PTL

\* Once the templates are rendered every one of them shows the value that the
\* layers give its attribute: however many files there are, whatever they hold
\* and whichever of them are listed, merging them among themselves, override
\* over default and the environment over both comes to the same as looking the
\* attribute up in the last layer that has it; and without -c no app starts on
\* a template left from before, truncated or incomplete (merger.go:93-146,
\* directory.go:83-128, file.go:69-137).
THEOREM ConfiguredCorrect == Spec => []AppConfigured
<1>1. IInv => AppConfigured
  <2>. SUFFICES ASSUME TypeOK, ValuesInv, MergeInv, RenderInv, Rendered PROVE AppConfigured
    BY DEF IInv, AppConfigured
  <2>1. pc \in {"templates"} \cup Started BY DEF RenderInv, Rendered, Started
  <2>2. status # "error" \/ pc \in Started BY DEF Rendered, Started
  <2>3. /\ ~Continue => broken = {}
        /\ \A t \in Templates \ broken : file[t] = Shown(tree, Uses[t]) /\ ~NoValueFails(t, file[t])
    BY <2>2 DEF RenderInv
  <2>4. ASSUME ~Continue, NEW t \in Templates
        PROVE  file[t] \notin {"old", ""} /\ (file[t] = "<no value>" => t \in LongLines)
    <3>1. file[t] = Shown(tree, Uses[t]) /\ (file[t] = "<no value>" => t \in LongLines)
      BY <2>3, <2>4 DEF NoValueFails
    <3>2. \/ file[t] \in {"<no value>", "map[]"}
          \/ Uses[t] \in DOMAIN tree /\ file[t] = tree[Uses[t]]
      BY <3>1, ShownIs
    <3>. QED BY <3>1, <3>2 DEF ValuesInv
  <2>5. ASSUME Consistent, NEW t \in Templates \ broken PROVE file[t] = Expected(Uses[t])
    BY <2>1, <2>3, <2>5 DEF MergeInv
  <2>. QED BY <2>3, <2>4, <2>5 DEF AppConfigured, Expected
<1>. QED BY <1>1, Inductive, PTL

\* With a wait.sh the tests only start once it saw the service up, or after all
\* the tries of the loop, never after fewer (test.tmpl:8-29).
THEOREM WaitCorrect == Spec => WaitedForService
<1>. DEFINE Waited == pc = "wait" /\ pc' = "tests" => service = "up" \/ tries = MaxTries
<1>1. TypeOK /\ [Next]_vars => Waited
  <2>. SUFFICES ASSUME TypeOK, [Next]_vars, pc = "wait", pc' = "tests"
                PROVE  service = "up" \/ tries = MaxTries
    OBVIOUS
  <2>1. MaxTries \in Nat /\ tries \in 0..MaxTries BY InputAssumption DEF TypeOK
  <2>2. CASE WaitSh BY <2>2 DEF WaitSh
  <2>3. CASE GiveUpWaiting BY <2>1, <2>3 DEF GiveUpWaiting, TryAgain
  <2>4. pc # pc' OBVIOUS
  <2>5. WaitSh \/ GiveUpWaiting
    BY <2>4 DEF Next, Program, EarlyScripts, MergeFile, Override, Environment,
      TemplateAttributes, LoadPartials, BadTemplate, Render, TemplatesDone, LateScripts, RunTests,
      Fail, FailAt, Doing, Service, vars
  <2>. QED BY <2>2, <2>3, <2>5
<1>2. TypeOK /\ [Next]_vars => [Waited]_vars BY <1>1
<1>. QED BY <1>2, TypeCorrect, PTL DEF Spec, WaitedForService
==============================================================================
