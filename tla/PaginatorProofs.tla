--------------------------- MODULE PaginatorProofs ---------------------------
(* Proofs about Paginator, for any list of pages of any size.               *)
EXTENDS Paginator, SequenceTheorems, TLAPS

USE ListAssumption

Pairs == Nat \X Nat

(* An item comes twice only if its page is n or a later one.               *)
Unique(s, n) == \A i, j \in 1..Len(s) : i # j /\ s[i] = s[j] => s[i][1] >= n
Increasing(s) == \A i, j \in 1..Len(s) : i < j => Precedes(s[i], s[j])
Below(s, k) == \A x \in Elements(s) : x[1] < k

-----------------------------------------------------------------------------
(* Sequences and pages.                                                    *)

LEMMA ElementsOfConcat ==
  ASSUME NEW s \in Seq(Pairs), NEW t \in Seq(Pairs)
  PROVE  Elements(s \o t) = Elements(s) \union Elements(t)
<1>1. /\ DOMAIN s = 1..Len(s) /\ DOMAIN t = 1..Len(t)
      /\ DOMAIN (s \o t) = 1..(Len(s) + Len(t))
      /\ Len(s) \in Nat /\ Len(t) \in Nat
  BY ConcatProperties, LenProperties
<1>2. ASSUME NEW x \in Elements(s) PROVE x \in Elements(s \o t)
  <2>1. PICK i \in 1..Len(s) : x = s[i]
    BY <1>1, <1>2 DEF Elements
  <2>2. i \in 1..(Len(s) + Len(t)) /\ (s \o t)[i] = x
    BY <1>1, <2>1, ConcatProperties
  <2> QED BY <1>1, <2>2 DEF Elements
<1>3. ASSUME NEW x \in Elements(t) PROVE x \in Elements(s \o t)
  <2>1. PICK i \in 1..Len(t) : x = t[i]
    BY <1>1, <1>3 DEF Elements
  <2>2. Len(s) + i \in 1..(Len(s) + Len(t)) /\ (s \o t)[Len(s) + i] = x
    BY <1>1, <2>1, ConcatProperties
  <2> QED BY <1>1, <2>2 DEF Elements
<1>4. ASSUME NEW x \in Elements(s \o t) PROVE x \in Elements(s) \union Elements(t)
  <2>1. PICK i \in 1..(Len(s) + Len(t)) : x = (s \o t)[i]
    BY <1>1, <1>4 DEF Elements
  <2>2. CASE i <= Len(s)
    BY <1>1, <2>1, <2>2, ConcatProperties DEF Elements
  <2>3. CASE ~(i <= Len(s))
    <3>1. i - Len(s) \in 1..Len(t) /\ x = t[i - Len(s)]
      BY <1>1, <2>1, <2>3, ConcatProperties
    <3> QED BY <1>1, <3>1 DEF Elements
  <2> QED BY <2>2, <2>3
<1> QED BY <1>2, <1>3, <1>4

LEMMA PageItems ==
  ASSUME sizes \in Seq(Nat), NEW k \in 1..Len(sizes)
  PROVE  /\ Page(k) \in Seq(Pairs) /\ Len(Page(k)) = sizes[k] /\ sizes[k] \in Nat
         /\ \A i \in 1..sizes[k] : Page(k)[i] = <<k, i>>
         /\ Elements(Page(k)) = {<<k, i>> : i \in 1..sizes[k]}
<1>1. sizes[k] \in Nat /\ k \in Nat
  BY ElementOfSeq
<1>2. Page(k) \in [1..sizes[k] -> Pairs]
  BY <1>1 DEF Page, Pairs
<1>3. Page(k) \in Seq(Pairs) /\ Len(Page(k)) = sizes[k]
  BY <1>1, <1>2, SeqDef, LenProperties
<1> QED BY <1>1, <1>3 DEF Page, Elements

\* Handing the first of some items out and keeping the others changes nothing
\* in the order.
LEMMA HeadThenTail ==
  ASSUME NEW s \in Seq(Pairs), NEW t \in Seq(Pairs), t # <<>>
  PROVE  /\ Append(s, Head(t)) \in Seq(Pairs) /\ Tail(t) \in Seq(Pairs)
         /\ Append(s, Head(t)) \o Tail(t) = s \o t
<1>1. /\ Head(t) \in Pairs /\ Tail(t) \in Seq(Pairs) /\ Head(t) = t[1]
      /\ Len(Tail(t)) = Len(t) - 1 /\ Len(t) \in Nat \ {0}
      /\ \A i \in 1..(Len(t) - 1) : Tail(t)[i] = t[i + 1]
  BY HeadTailProperties, EmptySeq
<1>2. /\ Append(s, Head(t)) \in Seq(Pairs) /\ Len(Append(s, Head(t))) = Len(s) + 1
      /\ \A i \in 1..Len(s) : Append(s, Head(t))[i] = s[i]
      /\ Append(s, Head(t))[Len(s) + 1] = t[1] /\ Len(s) \in Nat
  BY <1>1, AppendProperties, LenProperties
<1> DEFINE a == Append(s, Head(t))
           b == Tail(t)
<1>3. /\ a \o b \in Seq(Pairs) /\ s \o t \in Seq(Pairs)
      /\ Len(a \o b) = Len(s) + Len(t) /\ Len(s \o t) = Len(s) + Len(t)
      /\ \A i \in 1..(Len(s) + Len(t)) :
           /\ (a \o b)[i] = IF i <= Len(s) + 1 THEN a[i] ELSE b[i - (Len(s) + 1)]
           /\ (s \o t)[i] = IF i <= Len(s) THEN s[i] ELSE t[i - Len(s)]
  BY <1>1, <1>2, ConcatProperties
<1>4. ASSUME NEW i \in 1..(Len(s) + Len(t)) PROVE (a \o b)[i] = (s \o t)[i]
  <2>1. CASE i <= Len(s)
    BY <1>2, <1>3, <2>1
  <2>2. CASE i = Len(s) + 1
    BY <1>1, <1>2, <1>3, <2>2
  <2>3. CASE i > Len(s) + 1
    <3>1. i - (Len(s) + 1) \in 1..(Len(t) - 1)
      BY <1>1, <1>2, <2>3
    <3>2. b[i - (Len(s) + 1)] = t[i - Len(s)]
      BY <1>1, <1>2, <3>1
    <3> QED BY <1>2, <1>3, <2>3, <3>2
  <2> QED BY <1>2, <2>1, <2>2, <2>3
<1>5. a \o b = s \o t
  BY <1>3, <1>4, SeqEqual
<1> QED BY <1>1, <1>2, <1>5

LEMMA ConcatParts ==
  ASSUME NEW s \in Seq(Pairs), NEW t \in Seq(Pairs)
  PROVE  /\ s \o t \in Seq(Pairs) /\ Len(s) \in Nat /\ Len(t) \in Nat
         /\ Len(s \o t) = Len(s) + Len(t)
         /\ \A i \in 1..Len(s) : i \in 1..Len(s \o t) /\ (s \o t)[i] = s[i]
         /\ \A j \in 1..Len(t) : Len(s) + j \in 1..Len(s \o t) /\ (s \o t)[Len(s) + j] = t[j]
         /\ \A i \in 1..Len(s \o t) : i \in 1..Len(s) \/ \E j \in 1..Len(t) : i = Len(s) + j
<1>1. /\ s \o t \in Seq(Pairs) /\ Len(s) \in Nat /\ Len(t) \in Nat
      /\ Len(s \o t) = Len(s) + Len(t)
      /\ \A i \in 1..(Len(s) + Len(t)) :
           (s \o t)[i] = IF i <= Len(s) THEN s[i] ELSE t[i - Len(s)]
  BY ConcatProperties, LenProperties
<1>2. ASSUME NEW i \in 1..Len(s) PROVE i \in 1..Len(s \o t) /\ (s \o t)[i] = s[i]
  BY <1>1
<1>3. ASSUME NEW j \in 1..Len(t)
      PROVE  Len(s) + j \in 1..Len(s \o t) /\ (s \o t)[Len(s) + j] = t[j]
  <2>1. Len(s) + j \in 1..Len(s \o t) /\ ~(Len(s) + j <= Len(s)) /\ Len(s) + j - Len(s) = j
    BY <1>1
  <2> QED BY <1>1, <2>1
<1>4. ASSUME NEW i \in 1..Len(s \o t), i \notin 1..Len(s)
      PROVE  \E j \in 1..Len(t) : i = Len(s) + j
  <2>1. i - Len(s) \in 1..Len(t) /\ i = Len(s) + (i - Len(s))
    BY <1>1, <1>4
  <2> QED BY <2>1
<1> QED BY <1>1, <1>2, <1>3, <1>4

LEMMA InElements ==
  ASSUME NEW s \in Seq(Pairs)
  PROVE  Elements(s) = {s[i] : i \in 1..Len(s)} /\ Elements(s) \subseteq Pairs
BY LenProperties, ElementOfSeq DEF Elements

LEMMA UniqueConcat ==
  ASSUME NEW s \in Seq(Pairs), NEW t \in Seq(Pairs), NEW n
  PROVE  Unique(s \o t, n) <=>
           /\ Unique(s, n) /\ Unique(t, n)
           /\ \A x \in Elements(s) \cap Elements(t) : x[1] >= n
<1> DEFINE u == s \o t
<1>1. /\ Len(s) \in Nat /\ Len(t) \in Nat
      /\ \A i \in 1..Len(s) : i \in 1..Len(u) /\ u[i] = s[i]
      /\ \A j \in 1..Len(t) : Len(s) + j \in 1..Len(u) /\ u[Len(s) + j] = t[j]
      /\ \A i \in 1..Len(u) : i \in 1..Len(s) \/ \E j \in 1..Len(t) : i = Len(s) + j
  BY ConcatParts
<1>2. Elements(s) = {s[i] : i \in 1..Len(s)} /\ Elements(t) = {t[i] : i \in 1..Len(t)}
  BY InElements
<1> HIDE DEF u
<1>3. ASSUME Unique(u, n)
      PROVE  /\ Unique(s, n) /\ Unique(t, n)
             /\ \A x \in Elements(s) \cap Elements(t) : x[1] >= n
  <2>1. Unique(s, n)
    BY <1>1, <1>3 DEF Unique
  <2>2. ASSUME NEW i \in 1..Len(t), NEW j \in 1..Len(t), i # j, t[i] = t[j]
        PROVE  t[i][1] >= n
    <3>1. Len(s) + i # Len(s) + j
      BY <1>1, <2>2
    <3> QED BY <1>1, <1>3, <2>2, <3>1 DEF Unique
  <2>3. ASSUME NEW i \in 1..Len(s), NEW j \in 1..Len(t), s[i] = t[j]
        PROVE  s[i][1] >= n
    <3>1. i # Len(s) + j
      BY <1>1
    <3> QED BY <1>1, <1>3, <2>3, <3>1 DEF Unique
  <2> QED BY <1>2, <2>1, <2>2, <2>3 DEF Unique
<1>4. ASSUME Unique(s, n), Unique(t, n),
             \A x \in Elements(s) \cap Elements(t) : x[1] >= n
      PROVE  Unique(u, n)
  <2> SUFFICES ASSUME NEW i \in 1..Len(u), NEW j \in 1..Len(u), i # j, u[i] = u[j]
               PROVE  u[i][1] >= n
    BY DEF Unique
  <2>1. CASE i \in 1..Len(s) /\ j \in 1..Len(s)
    BY <1>1, <1>4, <2>1 DEF Unique
  <2>2. CASE i \in 1..Len(s) /\ j \notin 1..Len(s)
    <3>1. u[i] \in Elements(s) /\ u[j] \in Elements(t)
      BY <1>1, <1>2, <2>2
    <3> QED BY <1>4, <3>1
  <2>3. CASE i \notin 1..Len(s) /\ j \in 1..Len(s)
    <3>1. u[i] \in Elements(t) /\ u[j] \in Elements(s)
      BY <1>1, <1>2, <2>3
    <3> QED BY <1>4, <3>1
  <2>4. CASE i \notin 1..Len(s) /\ j \notin 1..Len(s)
    <3>1. PICK p \in 1..Len(t) : i = Len(s) + p
      BY <1>1, <2>4
    <3>2. PICK q \in 1..Len(t) : j = Len(s) + q
      BY <1>1, <2>4
    <3>3. p # q /\ u[i] = t[p] /\ u[j] = t[q]
      BY <1>1, <3>1, <3>2
    <3> QED BY <1>4, <3>3 DEF Unique
  <2> QED BY <2>1, <2>2, <2>3, <2>4
<1> QED BY <1>3, <1>4 DEF u

LEMMA IncreasingPrefix ==
  ASSUME NEW s \in Seq(Pairs), NEW t \in Seq(Pairs), Increasing(s \o t)
  PROVE  Increasing(s)
BY ConcatParts DEF Increasing

\* Items of earlier pages, followed by a page.
LEMMA ThenPage ==
  ASSUME sizes \in Seq(Nat), NEW k \in 1..Len(sizes),
         NEW s \in Seq(Pairs), Below(s, k)
  PROVE  /\ Below(s \o Page(k), k + 1)
         /\ Increasing(s) => Increasing(s \o Page(k))
<1> DEFINE n == Len(s)
           p == Page(k)
           u == s \o p
<1>1. /\ p \in Seq(Pairs) /\ Len(p) = sizes[k] /\ sizes[k] \in Nat
      /\ \A i \in 1..sizes[k] : p[i] = <<k, i>>
      /\ Elements(p) = {<<k, i>> : i \in 1..sizes[k]}
  BY PageItems
<1>2. k \in Nat /\ n \in Nat
  BY LenProperties
<1>3. \A x \in Elements(s) : x[1] \in Nat /\ x[1] < k
  BY InElements DEF Below, Pairs
<1>4. \A x \in Elements(p) : x[1] = k
  BY <1>1
<1> HIDE DEF p
<1>5. Below(u, k + 1)
  BY <1>1, <1>2, <1>3, <1>4, ElementsOfConcat DEF Below
<1>6. ASSUME Increasing(s) PROVE Increasing(u)
  <2>1. /\ \A i \in 1..n : u[i] = s[i]
        /\ \A j \in 1..sizes[k] : u[n + j] = <<k, j>>
        /\ \A i \in 1..Len(u) : i \in 1..n \/ \E j \in 1..sizes[k] : i = n + j
    BY <1>1, ConcatParts
  <2>2. \A i \in 1..n : s[i] \in Elements(s)
    BY InElements
  <2> HIDE DEF u
  <2> SUFFICES ASSUME NEW i \in 1..Len(u), NEW j \in 1..Len(u), i < j
               PROVE  Precedes(u[i], u[j])
    BY DEF Increasing
  <2>3. CASE j \in 1..n
    <3>1. i \in 1..n /\ u[i] = s[i] /\ u[j] = s[j]
      BY <1>2, <2>1, <2>3
    <3> QED BY <1>6, <2>3, <3>1 DEF Increasing
  <2>4. CASE i \in 1..n /\ j \notin 1..n
    <3>1. u[i][1] < k
      BY <1>3, <2>1, <2>2, <2>4
    <3>2. PICK b \in 1..sizes[k] : j = n + b
      BY <2>1, <2>4
    <3>3. u[j] = <<k, b>>
      BY <2>1, <3>2
    <3> QED BY <3>1, <3>3 DEF Precedes
  <2>5. CASE i \notin 1..n /\ j \notin 1..n
    <3>1. PICK a \in 1..sizes[k] : i = n + a
      BY <2>1, <2>5
    <3>2. PICK b \in 1..sizes[k] : j = n + b
      BY <2>1, <2>5
    <3>3. u[i] = <<k, a>> /\ u[j] = <<k, b>>
      BY <2>1, <3>1, <3>2
    <3>4. a < b
      BY <1>1, <1>2, <3>1, <3>2
    <3> QED BY <3>3, <3>4 DEF Precedes
  <2>6. j \notin 1..n => j > n
    BY <1>2, <2>1
  <2> QED BY <1>2, <2>3, <2>4, <2>5, <2>6
<1> QED BY <1>5, <1>6 DEF p

\* A page added to items of earlier pages, or to any if it is n or a later one.
LEMMA UniquePage ==
  ASSUME sizes \in Seq(Nat), NEW k \in 1..Len(sizes), NEW n \in Nat,
         NEW s \in Seq(Pairs), Unique(s, n), k >= n \/ Below(s, k)
  PROVE  Unique(s \o Page(k), n)
<1> DEFINE p == Page(k)
<1>1. /\ p \in Seq(Pairs) /\ Len(p) = sizes[k]
      /\ \A i \in 1..sizes[k] : p[i] = <<k, i>>
      /\ Elements(p) = {<<k, i>> : i \in 1..sizes[k]}
  BY PageItems
<1>2. Unique(p, n)
  BY <1>1 DEF Unique
<1>3. ASSUME NEW x \in Elements(s) \cap Elements(p) PROVE x[1] >= n
  <2>1. x[1] = k /\ k \in Nat
    BY <1>1, <1>3
  <2> QED BY <1>3, <2>1 DEF Below
<1> HIDE DEF p
<1>4. Unique(s \o p, n)
  BY <1>1, <1>2, <1>3, UniqueConcat
<1> QED BY <1>4 DEF p

-----------------------------------------------------------------------------
(* The items h handed out of pages of sizes z, up to the cursor c, with the *)
(* history o, the first overlapped page f and the items l dropped: what an   *)
(* inductive step has to keep.                                              *)

Covered(z, h, c, l) ==
  \A k \in 1..(c - 1) : \A i \in 1..z[k] : <<k, i>> \in Elements(h) \union l

Reached(z, h, c, o, f) == IF f <= Len(z) THEN f <= c /\ o # "kept" ELSE Below(h, c)

Items(z, h, c, o, f, l) ==
  /\ h \in Seq(Pairs)
  /\ o = "kept" => Increasing(h)
  /\ Unique(h, f) /\ Reached(z, h, c, o, f)
  /\ Covered(z, h, c, l)

LEMMA PageAdded ==
  ASSUME sizes \in Seq(Nat), NEW k \in 1..Len(sizes), NEW c \in Nat, k <= c,
         NEW o \in {"kept", "overtaken"}, NEW f \in Nat, NEW l, NEW h,
         IF f <= Len(sizes) THEN f <= k ELSE k = c,
         Items(sizes, h, c, o, f, l)
  PROVE  Items(sizes, h \o Page(k), k + 1, o, f, l)
<1> DEFINE u == h \o Page(k)
<1>1. h \in Seq(Pairs) /\ Page(k) \in Seq(Pairs)
  BY PageItems DEF Items
<1>2. u \in Seq(Pairs) /\ Elements(u) = Elements(h) \union Elements(Page(k))
  BY <1>1, ElementsOfConcat, ConcatParts
<1>3. Elements(Page(k)) = {<<k, i>> : i \in 1..sizes[k]}
  BY PageItems
<1>4. k \in Nat /\ Len(sizes) \in Nat /\ (k + 1) - 1 = k
  BY LenProperties
<1> HIDE DEF u
<1>5. Covered(sizes, u, k + 1, l)
  <2> SUFFICES ASSUME NEW m \in 1..k, NEW i \in 1..sizes[m]
               PROVE  <<m, i>> \in Elements(u) \union l
    BY <1>4 DEF Covered
  <2>1. CASE m = k
    BY <1>2, <1>3, <2>1
  <2>2. CASE m # k
    <3>1. m \in 1..(c - 1)
      BY <1>4, <2>2
    <3> QED BY <1>2, <3>1 DEF Items, Covered
  <2> QED BY <2>1, <2>2
<1>6. k >= f \/ Below(h, k)
  BY <1>4 DEF Items, Reached
<1>7. Unique(u, f)
  BY <1>1, <1>6, UniquePage DEF Items, u
<1>8. CASE f <= Len(sizes)
  <2>1. f <= k /\ o # "kept"
    BY <1>8 DEF Items, Reached
  <2>2. Reached(sizes, u, k + 1, o, f)
    BY <1>4, <1>8, <2>1 DEF Reached
  <2> QED BY <1>2, <1>5, <1>7, <2>1, <2>2 DEF Items, u
<1>9. CASE ~(f <= Len(sizes))
  <2>1. Below(h, k) /\ (o = "kept" => Increasing(h))
    BY <1>9 DEF Items, Reached
  <2>2. Below(u, k + 1) /\ (o = "kept" => Increasing(u))
    BY <1>1, <2>1, ThenPage DEF u
  <2>3. Reached(sizes, u, k + 1, o, f)
    BY <1>9, <2>2 DEF Reached
  <2> QED BY <1>2, <1>5, <1>7, <2>2, <2>3 DEF Items, u
<1> QED BY <1>8, <1>9

LEMMA EmptyPageAdded ==
  ASSUME sizes \in Seq(Nat), NEW k \in 1..Len(sizes), sizes[k] = 0,
         NEW h \in Seq(Pairs)
  PROVE  h \o Page(k) = h
<1>1. Page(k) \in Seq(Pairs) /\ Len(Page(k)) = 0
  BY PageItems
<1>2. Page(k) = <<>>
  BY <1>1, EmptySeq
<1> QED BY <1>2, ConcatEmptySeq

\* A page that overtakes the items in the queue.
LEMMA PageOvertakes ==
  ASSUME sizes \in Seq(Nat), NEW k \in 1..Len(sizes),
         NEW g \in Seq(Pairs), NEW q \in Seq(Pairs), NEW f \in Nat, NEW l,
         Items(sizes, g \o q, k, "overtaken", f, l)
  PROVE  Items(sizes, (g \o Page(k)) \o q, k + 1, "overtaken", f, l)
<1> DEFINE p == Page(k)
           gp == g \o p
           u == gp \o q
<1>1. p \in Seq(Pairs)
  BY PageItems
<1>2. Items(sizes, (g \o q) \o p, k + 1, "overtaken", f, l)
  <2>1. k \in Nat /\ (IF f <= Len(sizes) THEN f <= k ELSE k = k)
    BY DEF Items, Reached
  <2> QED BY <2>1, PageAdded
<1> HIDE DEF p
<1>3. gp \in Seq(Pairs) /\ g \o q \in Seq(Pairs) /\ u \in Seq(Pairs)
  BY <1>1, ConcatParts
<1>4. /\ Elements(gp) = Elements(g) \union Elements(p)
      /\ Elements(g \o q) = Elements(g) \union Elements(q)
  BY <1>1, ElementsOfConcat
<1>5. /\ Elements(u) = Elements(gp) \union Elements(q)
      /\ Elements((g \o q) \o p) = Elements(g \o q) \union Elements(p)
  <2> HIDE DEF gp
  <2> QED BY <1>1, <1>3, ElementsOfConcat
<1>6. Elements(u) = Elements((g \o q) \o p)
  BY <1>4, <1>5
<1>7. Covered(sizes, u, k + 1, l)
  BY <1>2, <1>6 DEF Items, Covered
<1>8. Reached(sizes, u, k + 1, "overtaken", f)
  BY <1>2, <1>6 DEF Items, Reached, Below
<1>9. Unique(u, f)
  <2>1. /\ Unique(g \o q, f) /\ Unique(p, f)
        /\ \A x \in Elements(g \o q) \cap Elements(p) : x[1] >= f
    BY <1>1, <1>2, <1>3, UniqueConcat DEF Items
  <2>2. /\ Unique(g, f) /\ Unique(q, f)
        /\ \A x \in Elements(g) \cap Elements(q) : x[1] >= f
    BY <2>1, UniqueConcat
  <2>3. Unique(gp, f)
    BY <1>1, <1>4, <2>1, <2>2, UniqueConcat
  <2>4. \A x \in Elements(gp) \cap Elements(q) : x[1] >= f
    BY <1>4, <2>1, <2>2
  <2> HIDE DEF gp
  <2> QED BY <1>3, <2>2, <2>3, <2>4, UniqueConcat
<1> QED BY <1>3, <1>7, <1>8, <1>9 DEF Items, p

-----------------------------------------------------------------------------
(* The inductive invariant.                                                *)

(* Where the cursor is, what a load may load, and who holds items.         *)
ControlInv ==
  /\ cursor \in 1..(Len(sizes) + 1) /\ (more <=> cursor <= Len(sizes))
  /\ load # 0 => load <= cursor /\ kind = "async"
  /\ load # 0 => IF since <= Len(sizes) THEN since <= load ELSE load = cursor
  /\ consumer # "collecting" => collected = <<>>
  /\ consumer = "collecting" => queue = <<>> /\ kind = "sync"
  /\ kind = "async" => lost = {}
  /\ consumer = "ended" => queue = <<>>
  /\ consumer = "ended" /\ more =>
       kind = "sync" /\ cursor > 1 /\ sizes[cursor - 1] = 0

ItemInv == Items(sizes, Handed, cursor, order, since, lost)

PagesInv == TypeOK /\ ControlInv /\ ItemInv

LEMMA SizesTyped ==
  TypeOK => /\ sizes \in Seq(Nat) /\ Len(sizes) \in Nat \ {0}
            /\ DOMAIN sizes = 1..Len(sizes)
<1> SUFFICES ASSUME TypeOK
             PROVE  /\ sizes \in Seq(Nat) /\ Len(sizes) \in Nat \ {0}
                    /\ DOMAIN sizes = 1..Len(sizes)
  OBVIOUS
<1>1. sizes \in Seq(Nat) /\ sizes # <<>>
  BY DEF TypeOK
<1> QED BY <1>1, EmptySeq, LenProperties

LEMMA InitPages == Init => PagesInv
<1> SUFFICES ASSUME Init PROVE PagesInv
  OBVIOUS
<1>1. sizes \in Seq(Nat) /\ sizes # <<>> /\ Len(sizes) \in Nat \ {0}
  BY EmptySeq DEF Init
<1>2. DOMAIN sizes = 1..Len(sizes)
  BY <1>1, LenProperties
<1>3. TypeOK
  <2>1. <<>> \in Seq(Nat \X Nat)
    BY EmptySeq
  <2>2. 1 \in DOMAIN sizes
    BY <1>1, <1>2
  <2>3. since \in Nat
    BY <1>1 DEF Init
  <2> QED BY <2>1, <2>2, <2>3 DEF Init, TypeOK
<1>4. ControlInv
  BY <1>1 DEF Init, ControlInv
<1>5. Handed = <<>> /\ <<>> \in Seq(Pairs) /\ Len(<<>>) = 0
  <2>1. <<>> \in Seq(Pairs) /\ Len(<<>>) = 0
    BY EmptySeq
  <2>2. <<>> \o <<>> = <<>>
    BY <2>1, ConcatEmptySeq
  <2> QED BY <2>1, <2>2 DEF Handed, Init
<1>6. Elements(<<>>) = {}
  <2>1. Elements(<<>>) = {<<>>[i] : i \in 1..Len(<<>>)}
    BY <1>5, InElements
  <2>2. 1..Len(<<>>) = {}
    BY <1>5
  <2> QED BY <2>1, <2>2
<1>7. ItemInv
  <2>1. Increasing(<<>>) /\ Unique(<<>>, since)
    BY <1>5 DEF Increasing, Unique
  <2>2. Below(<<>>, cursor)
    BY <1>6 DEF Below
  <2>3. Covered(sizes, <<>>, cursor, lost)
    BY DEF Init, Covered
  <2>4. Reached(sizes, <<>>, cursor, order, since)
    BY <1>1, <2>2 DEF Init, Reached
  <2> QED BY <1>5, <2>1, <2>3, <2>4 DEF ItemInv, Items
<1> QED BY <1>3, <1>4, <1>7 DEF PagesInv

-----------------------------------------------------------------------------
(* What a step does to the items, in terms of pages.                       *)

LEMMA HandedTyped ==
  ASSUME TypeOK
  PROVE  /\ queue \in Seq(Pairs) /\ got \in Seq(Pairs) /\ collected \in Seq(Pairs)
         /\ Handed \in Seq(Pairs) /\ <<>> \in Seq(Pairs)
         /\ collected = <<>> => Handed = got \o queue
         /\ collected = <<>> /\ queue = <<>> => Handed = got
<1>1. /\ queue \in Seq(Pairs) /\ got \in Seq(Pairs) /\ collected \in Seq(Pairs)
      /\ <<>> \in Seq(Pairs)
  BY EmptySeq DEF TypeOK, Pairs
<1>2. got \o collected \in Seq(Pairs)
  BY <1>1, ConcatParts
<1>3. Handed \in Seq(Pairs)
  BY <1>1, <1>2, ConcatParts DEF Handed
<1>4. got \o <<>> = got
  BY <1>1, ConcatEmptySeq
<1> QED BY <1>1, <1>3, <1>4 DEF Handed

\* A page that is handed out item by item.
LEMMA Gives ==
  ASSUME TypeOK, NEW k \in 1..Len(sizes), queue = <<>>, collected = <<>>,
         collected' = collected,
         IF sizes[k] > 0 THEN HandOut(k) ELSE UNCHANGED <<queue, got>>
  PROVE  /\ got' \in Seq(Pairs) /\ queue' \in Seq(Pairs)
         /\ Handed' = Handed \o Page(k)
<1>1. /\ Page(k) \in Seq(Pairs) /\ Len(Page(k)) = sizes[k] /\ sizes[k] \in Nat
  BY PageItems, SizesTyped
<1>2. got \in Seq(Pairs) /\ Handed = got /\ queue \in Seq(Pairs)
  BY HandedTyped
<1>3. CASE sizes[k] > 0
  <2>1. Page(k) # <<>>
    BY <1>1, <1>3, EmptySeq
  <2>2. got' = Append(got, Head(Page(k))) /\ queue' = Tail(Page(k))
    BY <1>3 DEF HandOut
  <2>3. got' \in Seq(Pairs) /\ queue' \in Seq(Pairs) /\ got' \o queue' = got \o Page(k)
    BY <1>1, <1>2, <2>1, <2>2, HeadThenTail
  <2>4. got' \o <<>> = got'
    BY <2>3, ConcatEmptySeq
  <2> QED BY <1>2, <2>3, <2>4 DEF Handed
<1>4. CASE ~(sizes[k] > 0)
  <2>1. got' = got /\ queue' = queue
    BY <1>4
  <2>2. Handed \o Page(k) = Handed
    BY <1>1, <1>2, <1>4, SizesTyped, EmptyPageAdded
  <2> QED BY <1>2, <2>1, <2>2 DEF Handed
<1> QED BY <1>3, <1>4

LEMMA NextNumber ==
  ASSUME NEW n \in Nat, NEW k \in 1..n
  PROVE  /\ k + 1 \in Nat /\ k + 1 \in 1..(n + 1)
         /\ k # n <=> k + 1 <= n
         /\ k # n => k + 1 \in 1..n
OBVIOUS

LEMMA TypedAgain ==
  ASSUME TypeOK, kind' = kind, sizes' = sizes, queue' \in Seq(Pairs),
         got' \in Seq(Pairs), collected' \in Seq(Pairs), lost' \in SUBSET Pairs,
         cursor' \in Nat, more' \in BOOLEAN, more' => cursor' \in 1..Len(sizes),
         load' \in {0} \union (1..Len(sizes)), ready' \in BOOLEAN,
         consumer' \in {"free", "awaiting", "woken", "ended", "collecting"},
         order' \in {"kept", "overtaken"}, since' \in Nat
  PROVE  TypeOK'
<1>1. DOMAIN sizes = 1..Len(sizes)
  BY SizesTyped
<1>2. kind' \in {"async", "sync"} /\ sizes' \in Lists
  BY DEF TypeOK
<1>3. (more' => cursor' \in DOMAIN sizes') /\ load' \in {0} \union DOMAIN sizes'
  BY <1>1
<1>4. /\ queue' \in Seq(Nat \X Nat) /\ got' \in Seq(Nat \X Nat)
      /\ collected' \in Seq(Nat \X Nat) /\ lost' \subseteq Nat \X Nat
  BY DEF Pairs
<1> QED BY <1>2, <1>3, <1>4 DEF TypeOK

LEMMA Advanced ==
  ASSUME TypeOK, NEW k \in 1..Len(sizes), Advance(k), sizes' = sizes
  PROVE  /\ cursor' = k + 1 /\ cursor' \in Nat
         /\ more' \in BOOLEAN /\ (more' => cursor' \in 1..Len(sizes))
         /\ k = Len(sizes) => more' = FALSE
         /\ cursor' \in 1..(Len(sizes') + 1) /\ (more' <=> cursor' <= Len(sizes'))
<1>1. Len(sizes) \in Nat
  BY SizesTyped
<1>2. /\ cursor' = k + 1 /\ more' \in BOOLEAN
      /\ k = Len(sizes) => more' = FALSE
      /\ k # Len(sizes) => more' = TRUE
  BY DEF Advance, Last
<1>3. /\ k + 1 \in Nat /\ k + 1 \in 1..(Len(sizes) + 1)
      /\ k # Len(sizes) <=> k + 1 <= Len(sizes)
      /\ k # Len(sizes) => k + 1 \in 1..Len(sizes)
  BY <1>1, NextNumber
<1> QED BY <1>2, <1>3, Zenon

\* A load is started where the stream is: it ends with the page handed out, or
\* with the cursor at the page.
LEMMA Starts ==
  ASSUME TypeOK, ControlInv, NEW k \in 1..Len(sizes), queue = <<>>,
         kind = "async", consumer # "collecting", UNCHANGED <<kind, sizes, history>>,
         Items(sizes, Handed, k, order, since, lost), Start(k)
  PROVE  TypeOK' /\ ControlInv' /\ ItemInv'
<1>1. collected = <<>> /\ collected' = <<>> /\ lost' = lost /\ order' = order /\ since' = since
  BY DEF ControlInv, history
<1>2. k \in Nat /\ Len(sizes) \in Nat /\ DOMAIN sizes = 1..Len(sizes)
      /\ sizes \in Seq(Nat) /\ order \in {"kept", "overtaken"} /\ since \in Nat
  BY SizesTyped DEF TypeOK
<1>3. CASE Loaded(k)
  <2>1. got' \in Seq(Pairs) /\ queue' \in Seq(Pairs) /\ Handed' = Handed \o Page(k)
    BY <1>1, <1>3, Gives DEF Loaded
  <2>2. /\ cursor' = k + 1 /\ cursor' \in Nat
        /\ more' \in BOOLEAN /\ (more' => cursor' \in 1..Len(sizes))
        /\ k = Len(sizes) => more' = FALSE
        /\ cursor' \in 1..(Len(sizes') + 1) /\ (more' <=> cursor' <= Len(sizes'))
    BY <1>3, Advanced DEF Loaded
  <2>3. /\ load' = 0 /\ ready' = FALSE /\ consumer' \in {"free", "ended", "woken"}
        /\ consumer' = "ended" => ~(sizes[k] > 0) /\ k = Len(sizes)
    BY <1>3 DEF Loaded, Last, HandOut
  <2>4. consumer' = "ended" => more' = FALSE /\ queue' = <<>>
    BY <1>3, <2>2, <2>3 DEF Loaded
  <2>5. TypeOK'
    <3>1. lost' \in SUBSET Pairs /\ <<>> \in Seq(Pairs)
      BY <1>1, HandedTyped DEF TypeOK, Pairs
    <3> QED BY <1>1, <1>2, <2>1, <2>2, <2>3, <3>1, TypedAgain
  <2>6. ControlInv'
    BY <1>1, <2>2, <2>3, <2>4 DEF ControlInv
  <2>7. Items(sizes, Handed \o Page(k), k + 1, order, since, lost)
    BY <1>2, PageAdded DEF Items, Reached
  <2>8. ItemInv'
    BY <1>1, <2>1, <2>2, <2>7 DEF ItemInv
  <2> QED BY <2>5, <2>6, <2>8
<1>4. CASE Pending(k) \/ Failed(k)
  <2>1. /\ cursor' = k /\ more' = TRUE /\ load' \in {0, k} /\ ready' = FALSE
        /\ consumer' \in {"awaiting", "free"} /\ got' = got /\ queue' = queue
    BY <1>4 DEF Pending, Failed
  <2>2. Handed' = Handed
    BY <1>1, <2>1 DEF Handed
  <2>3. TypeOK'
    BY <1>1, <1>2, <2>1 DEF TypeOK
  <2>4. ControlInv'
    <3>1. since <= Len(sizes) => since <= k
      BY DEF Items, Reached
    <3> QED BY <1>1, <1>2, <2>1, <3>1 DEF ControlInv
  <2>5. ItemInv'
    BY <1>1, <2>1, <2>2 DEF ItemInv
  <2> QED BY <2>3, <2>4, <2>5
<1> QED BY <1>3, <1>4 DEF Start

\* A step that hands nothing out and moves no cursor.
LEMMA Quiet ==
  ASSUME TypeOK, ControlInv, ItemInv,
         UNCHANGED <<kind, sizes, queue, cursor, more, collected, got, lost, order, since>>,
         load' \in {0, load}, ready' \in BOOLEAN,
         consumer # "collecting", consumer' \in {"free", "awaiting", "woken", "ended"},
         consumer' = "ended" => \/ consumer = "ended"
                                \/ ~more /\ queue = <<>>
  PROVE  TypeOK' /\ ControlInv' /\ ItemInv'
<1>1. TypeOK'
  BY DEF TypeOK
<1>2. ControlInv'
  BY DEF ControlInv
<1>3. Handed' = Handed
  BY DEF Handed
<1>4. ItemInv'
  BY <1>3 DEF ItemInv
<1> QED BY <1>1, <1>2, <1>4

\* Going back to an earlier cursor, as the end of an overlapped load does.
LEMMA Earlier ==
  ASSUME NEW z, NEW h, NEW c \in Nat, NEW k \in Nat, NEW o, NEW f, NEW l,
         Items(z, h, c, o, f, l), k <= c, IF f <= Len(z) THEN f <= k ELSE k = c
  PROVE  Items(z, h, k, o, f, l)
<1>1. Covered(z, h, k, l)
  <2>1. \A m \in 1..(k - 1) : m \in 1..(c - 1)
    OBVIOUS
  <2> QED BY <2>1 DEF Items, Covered
<1>2. Reached(z, h, k, o, f)
  BY DEF Items, Reached
<1> QED BY <1>1, <1>2 DEF Items

LEMMA PollItems ==
  ASSUME TypeOK, ControlInv, ItemInv, Poll
  PROVE  TypeOK' /\ ControlInv' /\ ItemInv'
<1>1. CASE TakeQueued
  <2>1. /\ consumer # "collecting" /\ collected = <<>> /\ collected' = <<>>
        /\ lost' = lost /\ order' = order /\ since' = since
    BY <1>1 DEF TakeQueued, Idle, ControlInv, history
  <2>2. /\ got' = Append(got, Head(queue)) /\ queue' = Tail(queue) /\ queue # <<>>
        /\ consumer' = "free"
        /\ UNCHANGED <<kind, sizes, cursor, more, load, ready>>
    BY <1>1 DEF TakeQueued
  <2>3. got \in Seq(Pairs) /\ queue \in Seq(Pairs) /\ Handed = got \o queue
    BY <2>1, HandedTyped
  <2>4. got' \in Seq(Pairs) /\ queue' \in Seq(Pairs) /\ got' \o queue' = got \o queue
    BY <2>2, <2>3, HeadThenTail
  <2>5. got' \o <<>> = got'
    BY <2>4, ConcatEmptySeq
  <2>6. Handed' = Handed
    BY <2>1, <2>3, <2>4, <2>5 DEF Handed
  <2>7. TypeOK'
    BY <2>1, <2>2, <2>4 DEF TypeOK, Pairs
  <2>8. ControlInv'
    BY <2>1, <2>2 DEF ControlInv
  <2>9. ItemInv'
    BY <2>1, <2>2, <2>6 DEF ItemInv
  <2> QED BY <2>7, <2>8, <2>9
<1>2. CASE Stop
  BY <1>2, Quiet DEF Stop, Idle, history, TypeOK
<1>3. CASE PollStart
  <2>1. cursor \in 1..Len(sizes)
    BY <1>3, SizesTyped DEF PollStart, TypeOK
  <2> QED BY <1>3, <2>1, Starts DEF PollStart, Polled, Idle, ItemInv
<1>4. CASE PollPending
  BY <1>4, Quiet DEF PollPending, Polled, Idle, history, TypeOK
<1>5. CASE PollReady
  <2>1. /\ kind = "async" /\ consumer # "collecting" /\ queue = <<>> /\ load # 0
        /\ UNCHANGED <<kind, sizes, history>>
    BY <1>5 DEF PollReady, Polled, Idle
  <2>2. /\ load \in 1..Len(sizes) /\ load \in Nat /\ load <= cursor /\ cursor \in Nat
        /\ IF since <= Len(sizes) THEN since <= load ELSE load = cursor
        /\ order \in {"kept", "overtaken"} /\ since \in Nat
    BY <2>1, SizesTyped DEF TypeOK, ControlInv
  <2>3. Items(sizes, Handed, load, order, since, lost)
    BY <2>2, Earlier DEF ItemInv
  <2>4. CASE Loaded(load)
    BY <2>1, <2>2, <2>3, <2>4, Starts DEF Start
  <2>5. CASE sizes[load] = 0 /\ ~Last(load) /\ Start(load + 1)
    <3>1. load + 1 \in 1..Len(sizes)
      BY <2>2, <2>5, SizesTyped, NextNumber DEF Last
    <3>2. Items(sizes, Handed \o Page(load), load + 1, order, since, lost)
      BY <2>2, <2>3, SizesTyped, PageAdded
    <3>3. Handed \o Page(load) = Handed
      BY <2>2, <2>5, SizesTyped, HandedTyped, EmptyPageAdded
    <3> QED BY <2>1, <2>5, <3>1, <3>2, <3>3, Starts
  <2>6. CASE load' = 0 /\ ready' = FALSE /\ consumer' = "free" /\ UNCHANGED <<queue, cursor, more, got>>
    BY <2>1, <2>6, Quiet DEF history
  <2> QED BY <1>5, <2>4, <2>5, <2>6 DEF PollReady
<1> QED BY <1>1, <1>2, <1>3, <1>4, <1>5 DEF Poll

\* A page in its turn is added at the end, in any of the ways it may be held.
LEMMA InTurn ==
  ASSUME TypeOK, ControlInv, ItemInv, NEW k, k = cursor, more, Advance(k),
         UNCHANGED <<kind, sizes, load, ready, lost, order, since>>, load = 0,
         got' \in Seq(Pairs), queue' \in Seq(Pairs), collected' \in Seq(Pairs),
         Handed' = Handed \o Page(k),
         consumer' \in {"free", "ended", "collecting"},
         consumer' # "collecting" => collected' = <<>>,
         consumer' = "collecting" => queue' = <<>> /\ kind = "sync",
         consumer' = "ended" => kind = "sync" /\ queue' = <<>> /\ sizes[k] = 0
  PROVE  TypeOK' /\ ControlInv' /\ ItemInv'
<1>1. /\ k \in 1..Len(sizes) /\ k \in Nat /\ sizes \in Seq(Nat)
      /\ order \in {"kept", "overtaken"} /\ since \in Nat
  BY SizesTyped DEF TypeOK
<1>2. /\ cursor' = k + 1 /\ cursor' \in Nat
      /\ more' \in BOOLEAN /\ (more' => cursor' \in 1..Len(sizes))
      /\ cursor' \in 1..(Len(sizes') + 1) /\ (more' <=> cursor' <= Len(sizes'))
  BY <1>1, Advanced
<1>3. TypeOK'
  <2>1. lost' \in SUBSET Pairs /\ ready' \in BOOLEAN
    BY DEF TypeOK, Pairs
  <2> QED BY <1>1, <1>2, <2>1, TypedAgain
<1>4. ControlInv'
  BY <1>2 DEF ControlInv
<1>5. Items(sizes, Handed \o Page(k), k + 1, order, since, lost)
  BY <1>1, PageAdded DEF ItemInv, Items, Reached
<1>6. ItemInv'
  BY <1>2, <1>5 DEF ItemInv
<1> QED BY <1>3, <1>4, <1>6

LEMMA SyncItems ==
  ASSUME TypeOK, ControlInv, ItemInv,
         NextLoads \/ NextFails \/ CollectBegin \/ CollectPage \/ CollectFails \/ CollectEnd
  PROVE  TypeOK' /\ ControlInv' /\ ItemInv'
<1>1. CASE NextLoads
  <2>1. /\ kind = "sync" /\ collected = <<>> /\ collected' = collected /\ queue = <<>>
        /\ load = 0 /\ more /\ Advance(cursor) /\ cursor \in 1..Len(sizes)
        /\ UNCHANGED <<kind, sizes, load, ready, lost, order, since>>
        /\ IF sizes[cursor] > 0 THEN HandOut(cursor) ELSE UNCHANGED <<queue, got>>
        /\ consumer' \in {"free", "ended"}
    BY <1>1, SizesTyped DEF NextLoads, Idle, history, ControlInv, TypeOK, HandOut
  <2>2. got' \in Seq(Pairs) /\ queue' \in Seq(Pairs) /\ Handed' = Handed \o Page(cursor)
    BY <2>1, Gives
  <2>3. collected' \in Seq(Pairs)
    BY <2>1, HandedTyped
  <2>4. consumer' = "ended" => queue' = <<>> /\ sizes[cursor] = 0
    <3>1. sizes[cursor] \in Nat
      BY <2>1, SizesTyped, PageItems
    <3> QED BY <2>1, <3>1 DEF HandOut
  <2>5. consumer' \in {"free", "ended", "collecting"} /\ consumer' # "collecting"
        /\ collected' = <<>>
    BY <2>1
  <2> QED BY <2>1, <2>2, <2>3, <2>4, <2>5, InTurn
<1>2. CASE NextFails
  BY <1>2, Quiet DEF NextFails, Idle, history, TypeOK
<1>3. CASE CollectBegin
  <2>1. /\ kind = "sync" /\ collected = <<>> /\ collected' = queue /\ queue' = <<>>
        /\ consumer' = "collecting"
        /\ UNCHANGED <<kind, sizes, cursor, more, load, ready, got, lost, order, since>>
    BY <1>3 DEF CollectBegin, Idle, ControlInv
  <2>2. got \in Seq(Pairs) /\ queue \in Seq(Pairs) /\ Handed = got \o queue
        /\ <<>> \in Seq(Pairs)
    BY <2>1, HandedTyped
  <2>3. got \o queue \in Seq(Pairs)
    BY <2>2, ConcatParts
  <2>4. Handed' = Handed
    BY <2>1, <2>2, <2>3, ConcatEmptySeq DEF Handed
  <2>5. TypeOK'
    BY <2>1, <2>2 DEF TypeOK, Pairs
  <2>6. ControlInv'
    BY <2>1 DEF ControlInv
  <2>7. ItemInv'
    BY <2>1, <2>4 DEF ItemInv
  <2> QED BY <2>5, <2>6, <2>7
<1>4. CASE CollectPage \/ CollectFails \/ CollectEnd
  <2>1. /\ consumer = "collecting" /\ queue = <<>> /\ queue' = <<>> /\ kind = "sync"
        /\ load = 0 /\ UNCHANGED <<kind, sizes, load, ready, order, since>>
    BY <1>4 DEF CollectPage, CollectFails, CollectEnd, ControlInv
  <2>2. /\ got \in Seq(Pairs) /\ collected \in Seq(Pairs) /\ <<>> \in Seq(Pairs)
    BY HandedTyped
  <2>3. got \o collected \in Seq(Pairs) /\ Handed = got \o collected
    <3>1. got \o collected \in Seq(Pairs)
      BY <2>2, ConcatParts
    <3> QED BY <2>1, <3>1, ConcatEmptySeq DEF Handed
  <2>4. CASE CollectPage
    <3>1. /\ more /\ collected' = collected \o Page(cursor) /\ Advance(cursor)
          /\ consumer' = "collecting" /\ UNCHANGED <<got, lost>>
      BY <2>1, <2>4 DEF CollectPage
    <3>2. cursor \in 1..Len(sizes)
      BY <3>1, SizesTyped DEF TypeOK
    <3>3. Page(cursor) \in Seq(Pairs)
      BY <3>2, SizesTyped, PageItems
    <3>4. collected' \in Seq(Pairs) /\ got \o collected' \in Seq(Pairs)
      BY <2>2, <3>1, <3>3, ConcatParts
    <3>5. got \o collected' = Handed \o Page(cursor)
      <4>1. (got \o collected) \o Page(cursor) = got \o (collected \o Page(cursor))
        BY <2>2, <3>3, ConcatAssociative
      <4> QED BY <2>3, <3>1, <4>1
    <3>6. Handed' = Handed \o Page(cursor)
      <4>1. Handed' = (got \o collected') \o <<>>
        BY <2>1, <3>1 DEF Handed
      <4>2. (got \o collected') \o <<>> = got \o collected'
        BY <3>4, ConcatEmptySeq
      <4> QED BY <3>5, <4>1, <4>2
    <3>7. got' \in Seq(Pairs) /\ queue' \in Seq(Pairs)
      BY <2>1, <2>2, <3>1
    <3> QED BY <2>1, <3>1, <3>4, <3>6, <3>7, InTurn
  <2>5. CASE CollectFails
    <3>1. /\ lost' = lost \union Elements(collected) /\ collected' = <<>>
          /\ consumer' = "free" /\ UNCHANGED <<cursor, more, got>>
      BY <2>5 DEF CollectFails
    <3>2. Handed' = got
      <4>1. got \o <<>> = got
        BY <2>2, ConcatEmptySeq
      <4> QED BY <2>1, <3>1, <4>1 DEF Handed
    <3>3. Elements(collected) \subseteq Pairs
          /\ Elements(got \o collected) = Elements(got) \union Elements(collected)
      BY <2>2, InElements, ElementsOfConcat
    <3>4. TypeOK'
      BY <2>1, <2>2, <3>1, <3>3 DEF TypeOK, Pairs
    <3>5. ControlInv'
      BY <2>1, <3>1 DEF ControlInv
    <3>6. Items(sizes, got \o collected, cursor, order, since, lost)
      BY <2>3 DEF ItemInv
    <3>7. Covered(sizes, got, cursor, lost')
      BY <3>1, <3>3, <3>6 DEF Items, Covered
    <3>8. order = "kept" => Increasing(got)
      BY <2>2, <3>6, IncreasingPrefix DEF Items
    <3>9. Unique(got, since) /\ Reached(sizes, got, cursor, order, since)
      BY <2>2, <3>3, <3>6, UniqueConcat DEF Items, Reached, Below
    <3>10. ItemInv'
      BY <2>1, <2>2, <3>1, <3>2, <3>7, <3>8, <3>9 DEF ItemInv, Items
    <3> QED BY <3>4, <3>5, <3>10
  <2>6. CASE CollectEnd
    <3>1. /\ got' = got \o collected /\ collected' = <<>>
          /\ consumer' = "free" /\ UNCHANGED <<cursor, more, lost>>
      BY <2>6 DEF CollectEnd
    <3>2. Handed' = Handed
      <4>1. got' \o <<>> = got'
        BY <2>3, <3>1, ConcatEmptySeq
      <4> QED BY <2>1, <2>3, <3>1, <4>1 DEF Handed
    <3>3. TypeOK'
      BY <2>1, <2>2, <2>3, <3>1 DEF TypeOK, Pairs
    <3>4. ControlInv'
      BY <2>1, <3>1 DEF ControlInv
    <3>5. ItemInv'
      BY <2>1, <3>1, <3>2 DEF ItemInv
    <3> QED BY <3>3, <3>4, <3>5
  <2> QED BY <1>4, <2>4, <2>5, <2>6
<1> QED BY <1>1, <1>2, <1>3, <1>4

LEMMA NextPageItems ==
  ASSUME TypeOK, ControlInv, ItemInv, NextPage
  PROVE  TypeOK' /\ ControlInv' /\ ItemInv'
<1> DEFINE k == cursor
           p == Page(k)
<1>1. /\ collected = <<>> /\ collected' = <<>> /\ more /\ consumer' = "free"
      /\ got' = got \o p /\ Advance(k) /\ Overtaking
      /\ UNCHANGED <<kind, sizes, queue, load, ready, lost>>
  BY DEF NextPage, Idle, ControlInv
<1>2. /\ k \in 1..Len(sizes) /\ k \in Nat /\ sizes \in Seq(Nat)
      /\ order \in {"kept", "overtaken"} /\ since \in Nat
  BY <1>1, SizesTyped DEF TypeOK
<1>3. p \in Seq(Pairs)
  BY <1>2, PageItems
<1>4. /\ got \in Seq(Pairs) /\ queue \in Seq(Pairs) /\ Handed = got \o queue
      /\ queue = <<>> => Handed = got
      /\ <<>> \in Seq(Pairs)
  BY <1>1, HandedTyped
<1>5. /\ cursor' = k + 1 /\ cursor' \in Nat
      /\ more' \in BOOLEAN /\ (more' => cursor' \in 1..Len(sizes))
      /\ cursor' \in 1..(Len(sizes') + 1) /\ (more' <=> cursor' <= Len(sizes'))
  BY <1>1, <1>2, Advanced
<1>6. /\ order' \in {"kept", "overtaken"} /\ since' \in Nat
      /\ order' = "kept" => order = "kept" /\ queue = <<>> /\ load = 0
      /\ load \in Nat /\ (load = 0 => since' = since)
      /\ load # 0 => since' <= load /\ since' <= Len(sizes) /\ since' <= k
  <2>1. load \in {0} \union (1..Len(sizes)) /\ Len(sizes) \in Nat
    BY SizesTyped DEF TypeOK
  <2>2. load # 0 => load <= k
    BY DEF ControlInv
  <2> QED BY <1>1, <1>2, <2>1, <2>2 DEF Overtaking
<1>7. since' <= since
  BY <1>1, <1>2, <1>6 DEF Overtaking
<1> HIDE DEF p
<1>8. got' \in Seq(Pairs) /\ collected' \in Seq(Pairs) /\ queue' \in Seq(Pairs)
  BY <1>1, <1>3, <1>4, ConcatParts
<1>9. Handed' = (got \o p) \o queue
  <2>1. got' \o <<>> = got'
    BY <1>8, ConcatEmptySeq
  <2> QED BY <1>1, <2>1 DEF Handed
<1>10. TypeOK'
  <2>1. lost' \in SUBSET Pairs /\ ready' \in BOOLEAN /\ load' \in {0} \union (1..Len(sizes))
    BY <1>1, SizesTyped DEF TypeOK, Pairs
  <2> QED BY <1>1, <1>5, <1>6, <1>8, <2>1, TypedAgain
<1>11. ControlInv'
  <2>1. load' # 0 => load' <= cursor' /\ kind' = "async"
    BY <1>1, <1>2, <1>5, SizesTyped DEF ControlInv, TypeOK
  <2>2. load' # 0 => since' <= Len(sizes') /\ since' <= load'
    BY <1>1, <1>6
  <2>3. kind' = "async" => lost' = {}
    BY <1>1 DEF ControlInv
  <2> QED BY <1>1, <1>5, <2>1, <2>2, <2>3 DEF ControlInv
<1>12. Items(sizes, (got \o p) \o queue, k + 1, order', since', lost)
  <2>1. Items(sizes, Handed, k, order', since', lost)
    <3>1. Handed \in Seq(Pairs) /\ Unique(Handed, since) /\ Covered(sizes, Handed, k, lost)
          /\ Reached(sizes, Handed, k, order, since)
          /\ (order = "kept" => Increasing(Handed))
      BY DEF ItemInv, Items
    <3>2. Unique(Handed, since')
      <4>1. \A i \in 1..Len(Handed) : Handed[i][1] \in Nat
        BY <3>1, ElementOfSeq DEF Pairs
      <4> QED BY <1>2, <1>6, <1>7, <3>1, <4>1 DEF Unique
    <3>3. Reached(sizes, Handed, k, order', since')
      <4>1. Len(sizes) \in Nat
        BY SizesTyped
      <4> QED BY <1>2, <1>6, <3>1, <4>1 DEF Reached
    <3> QED BY <1>6, <3>1, <3>2, <3>3 DEF Items
  <2>2. CASE queue = <<>>
    <3>1. Items(sizes, Handed \o p, k + 1, order', since', lost)
      <4>1. IF since' <= Len(sizes) THEN since' <= k ELSE k = k
        BY <2>1 DEF Items, Reached
      <4> QED BY <1>2, <1>6, <2>1, <4>1, PageAdded DEF p
    <3>2. (got \o p) \o queue = Handed \o p
      <4>1. got \o p \in Seq(Pairs)
        BY <1>3, <1>4, ConcatParts
      <4> QED BY <1>4, <2>2, <4>1, ConcatEmptySeq
    <3> QED BY <3>1, <3>2
  <2>3. CASE queue # <<>>
    <3>1. order' = "overtaken"
      BY <1>6, <2>3
    <3>2. Items(sizes, got \o queue, k, "overtaken", since', lost)
      BY <1>4, <2>1, <3>1
    <3> QED BY <1>2, <1>4, <1>6, <3>1, <3>2, PageOvertakes DEF p
  <2> QED BY <2>2, <2>3
<1>13. ItemInv'
  BY <1>1, <1>5, <1>9, <1>12 DEF ItemInv
<1> QED BY <1>10, <1>11, <1>13

LEMMA NextPages == PagesInv /\ [Next]_vars => PagesInv'
<1> SUFFICES ASSUME TypeOK, ControlInv, ItemInv, [Next]_vars
             PROVE  TypeOK' /\ ControlInv' /\ ItemInv'
  BY DEF PagesInv
<1>1. CASE Poll
  BY <1>1, PollItems
<1>2. CASE Answer
  BY <1>2, Quiet DEF Answer, history, TypeOK, ControlInv
<1>3. CASE Abandon
  BY <1>3, Quiet DEF Abandon, history, TypeOK
<1>4. CASE NextLoads \/ NextFails \/ CollectBegin \/ CollectPage \/ CollectFails \/ CollectEnd
  BY <1>4, SyncItems
<1>5. CASE NextPage
  BY <1>5, NextPageItems
<1>6. CASE UNCHANGED vars
  <2>1. Handed' = Handed
    BY <1>6 DEF vars, Handed
  <2> QED BY <1>6, <2>1 DEF vars, history, TypeOK, ControlInv, ItemInv
<1> QED BY <1>1, <1>2, <1>3, <1>4, <1>5, <1>6 DEF Next

LEMMA PagesAlways == Spec => []PagesInv
BY InitPages, NextPages, PTL DEF Spec

-----------------------------------------------------------------------------
(* Theorems.                                                               *)

(* Every variable keeps its type: in particular the cursor names a page as  *)
(* long as has_next_page is set (core/pagination.rs).                        *)
THEOREM PagesTyped == Spec => []TypeOK
<1>1. PagesInv => TypeOK
  BY DEF PagesInv
<1> QED BY <1>1, PagesAlways, PTL

(* Items come in the order of the list until next_page overtakes some.      *)
THEOREM PagesInOrder == Spec => []InOrder
<1>1. PagesInv => InOrder
  <2> SUFFICES ASSUME PagesInv, order = "kept" PROVE InOrder
    BY DEF InOrder
  <2>1. Handed \in Seq(Pairs) /\ Increasing(Handed)
    BY DEF PagesInv, ItemInv, Items
  <2>2. DOMAIN Handed = 1..Len(Handed)
    BY <2>1, LenProperties
  <2> QED BY <2>1, <2>2 DEF InOrder, Increasing
<1> QED BY <1>1, PagesAlways, PTL

(* An item comes twice only if next_page was called during a load, and then *)
(* only from the page of that load on.                                       *)
THEOREM PagesAtMostOnce == Spec => []AtMostOnce
<1>1. PagesInv => AtMostOnce
  <2> SUFFICES ASSUME PagesInv PROVE AtMostOnce
    OBVIOUS
  <2>1. Handed \in Seq(Pairs) /\ Unique(Handed, since)
    BY DEF PagesInv, ItemInv, Items
  <2>2. DOMAIN Handed = 1..Len(Handed)
    BY <2>1, LenProperties
  <2> QED BY <2>1, <2>2 DEF AtMostOnce, Unique
<1> QED BY <1>1, PagesAlways, PTL

LEMMA PagesCovered == PagesInv => NothingLost
<1> SUFFICES ASSUME PagesInv, NEW k \in 1..(cursor - 1)
             PROVE  Elements(Page(k)) \subseteq Elements(Handed) \union lost
  BY DEF NothingLost
<1>1. cursor \in 1..(Len(sizes) + 1) /\ sizes \in Seq(Nat) /\ Len(sizes) \in Nat
  BY SizesTyped DEF PagesInv, ControlInv
<1>2. k \in 1..Len(sizes)
  BY <1>1
<1>3. Elements(Page(k)) = {<<k, i>> : i \in 1..sizes[k]}
  BY <1>1, <1>2, PageItems
<1>4. \A i \in 1..sizes[k] : <<k, i>> \in Elements(Handed) \union lost
  BY DEF PagesInv, ItemInv, Items, Covered
<1> QED BY <1>3, <1>4

(* No page the cursor has passed is skipped, whatever fails or overlaps.    *)
THEOREM PagesNothingLost == Spec => []NothingLost
BY PagesAlways, PagesCovered, PTL

(* The stream ends only when every item of the list was handed out; the     *)
(* iterator also right after an empty page, with all before it handed out.   *)
THEOREM PagesEnd == Spec => []EndIsEnd
<1>1. PagesInv => EndIsEnd
  <2> SUFFICES ASSUME PagesInv, consumer = "ended" PROVE EndIsEnd
    BY DEF EndIsEnd
  <2>1. /\ queue = <<>> /\ collected = <<>> /\ (kind = "async" => lost = {})
        /\ kind \in {"async", "sync"}
        /\ cursor <= Len(sizes) => kind = "sync" /\ cursor > 1 /\ sizes[cursor - 1] = 0
    BY DEF PagesInv, ControlInv, TypeOK
  <2>2. Handed = got
    BY <2>1, HandedTyped DEF PagesInv
  <2>3. lost = IF kind = "sync" THEN lost ELSE {}
    BY <2>1
  <2> QED BY <2>1, <2>2, <2>3, PagesCovered DEF EndIsEnd, NothingLost
<1> QED BY <1>1, PagesAlways, PTL
=============================================================================
