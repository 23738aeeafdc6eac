---------------------------- MODULE TimelineProofs ----------------------------
(***************************************************************************)
(* Proofs about Timeline, for any number of statuses, readers, goroutines  *)
(* that prepare the next page, changes and faults: the order of the list,  *)
(* the boosts in it, and the order and bounds of every page.               *)
(***************************************************************************)
EXTENDS Timeline, SequenceTheorems, FiniteSetTheorems, WellFoundedInduction, TLAPS

Entries == [id : Ids, prepared : BOOLEAN]

IdsOf(s) == {s[i].id : i \in DOMAIN s}

\* A list of entries, newest first.
Sorted(s) == s \in Seq(Entries) /\ \A i, j \in DOMAIN s : i < j => s[i].id > s[j].id

\* One boost of each status at most.
Single(s) ==
    \A i, j \in DOMAIN s : i # j /\ BoostOf[s[i].id] # 0 => BoostOf[s[i].id] # BoostOf[s[j].id]

-----------------------------------------------------------------------------
(***************************************************************************)
(* Numbers                                                                 *)
(***************************************************************************)
\* A set of naturals has a least element.
LEMMA LeastExists ==
    ASSUME NEW T, T \subseteq Nat, T # {}
    PROVE  \E x \in T : \A y \in T : x <= y
    <1> DEFINE R == {p \in Nat \X Nat : p[1] < p[2]}
    <1>1. IsWellFoundedOn(R, Nat)
        BY NatLessThanWellFounded DEF OpToRel
    <1>2. \E x \in T : \A y \in T : ~ (<<y, x>> \in R)
        BY <1>1, WFMin
    <1>3. PICK x \in T : \A y \in T : <<y, x>> \notin R
        BY <1>2
    <1>4. \A y \in T : x <= y
        <2> TAKE y \in T
        <2>1. ~ (y < x)  BY <1>3
        <2>2. QED  BY <2>1
    <1>5. QED  BY <1>4

\* Min is the least element.
LEMMA MinIsLeast ==
    ASSUME NEW T, T \subseteq Nat, T # {}
    PROVE  Min(T) \in T /\ \A y \in T : Min(T) <= y
    BY LeastExists DEF Min

\* Max is the greatest element of a set of ids.
LEMMA MaxIsGreatest ==
    ASSUME NEW T, T \subseteq Ids, T # {}
    PROVE  Max(T) \in T
    <1> DEFINE D == {N - y : y \in T}
    <1>1. D \subseteq Nat /\ D # {}
        <2>1. \A y \in T : N - y \in Nat
            BY TimelineAssumption DEF Ids
        <2>2. QED  BY <2>1
    <1>2. PICK d \in D : \A e \in D : d <= e
        BY <1>1, LeastExists
    <1>3. PICK x \in T : d = N - x
        BY <1>2
    <1>4. \A y \in T : x >= y
        <2> TAKE y \in T
        <2>1. d <= N - y  BY <1>2
        <2>2. QED  BY <1>3, <2>1, TimelineAssumption DEF Ids
    <1>5. QED  BY <1>4 DEF Max

-----------------------------------------------------------------------------
(***************************************************************************)
(* The list                                                                *)
(***************************************************************************)
\* A list with an entry more: the others keep their order around it.
LEMMA InsertAtFacts ==
    ASSUME NEW s \in Seq(Entries), NEW m \in 1..(Len(s) + 1), NEW e \in Entries
    PROVE  /\ InsertAt(s, m, e) \in Seq(Entries) /\ Len(InsertAt(s, m, e)) = Len(s) + 1
           /\ \A i \in 1..(Len(s) + 1) :
                 InsertAt(s, m, e)[i] = IF i < m THEN s[i] ELSE IF i = m THEN e ELSE s[i - 1]
    <1> DEFINE a == SubSeq(s, 1, m - 1)
               b == SubSeq(s, m, Len(s))
    <1>0. Len(s) \in Nat /\ m \in Nat /\ 1 <= m /\ m <= Len(s) + 1 /\ \A i \in 1..Len(s) : s[i] \in Entries
        BY LenProperties
    <1>1. /\ a \in Seq(Entries) /\ Len(a) = m - 1
          /\ \A i \in 1..(m - 1) : a[i] = s[i]
        <2>1. \A i \in 1..(m - 1) : s[i] \in Entries
            BY <1>0
        <2>2. /\ SubSeq(s, 1, m - 1) \in Seq(Entries)
              /\ Len(SubSeq(s, 1, m - 1)) = IF 1 <= m - 1 THEN m - 1 - 1 + 1 ELSE 0
              /\ \A i \in 1..(m - 1 - 1 + 1) : SubSeq(s, 1, m - 1)[i] = s[1 + i - 1]
            BY <1>0, <2>1, SubSeqProperties
        <2>3. QED  BY <1>0, <2>2
    <1>2. /\ b \in Seq(Entries) /\ Len(b) = Len(s) - m + 1
          /\ \A i \in 1..(Len(s) - m + 1) : b[i] = s[m + i - 1]
        <2>1. \A i \in m..Len(s) : s[i] \in Entries
            BY <1>0
        <2>2. /\ SubSeq(s, m, Len(s)) \in Seq(Entries)
              /\ Len(SubSeq(s, m, Len(s))) = IF m <= Len(s) THEN Len(s) - m + 1 ELSE 0
              /\ \A i \in 1..(Len(s) - m + 1) : SubSeq(s, m, Len(s))[i] = s[m + i - 1]
            BY <1>0, <2>1, SubSeqProperties
        <2>3. QED  BY <1>0, <2>2
    <1>3. <<e>> \in Seq(Entries) /\ Len(<<e>>) = 1 /\ <<e>>[1] = e
        OBVIOUS
    <1> DEFINE c == a \o <<e>>
    <1>4. /\ c \in Seq(Entries) /\ Len(c) = m
          /\ \A i \in 1..m : c[i] = IF i < m THEN s[i] ELSE e
        <2>1. /\ a \o <<e>> \in Seq(Entries)
              /\ Len(a \o <<e>>) = Len(a) + Len(<<e>>)
              /\ \A i \in 1..(Len(a) + Len(<<e>>)) :
                    (a \o <<e>>)[i] = IF i <= Len(a) THEN a[i] ELSE <<e>>[i - Len(a)]
            BY <1>1, <1>3, ConcatProperties
        <2> HIDE DEF a
        <2>2. QED  BY <1>0, <1>1, <1>3, <2>1
    <1> HIDE DEF a, b, c
    <1>5. /\ c \o b \in Seq(Entries) /\ Len(c \o b) = Len(c) + Len(b)
          /\ \A i \in 1..(Len(c) + Len(b)) : (c \o b)[i] = IF i <= Len(c) THEN c[i] ELSE b[i - Len(c)]
        BY <1>2, <1>4, ConcatProperties
    <1>6. InsertAt(s, m, e) = c \o b
        BY DEF InsertAt, a, b, c
    <1>7. ASSUME NEW i \in 1..(Len(s) + 1)
          PROVE  (c \o b)[i] = IF i < m THEN s[i] ELSE IF i = m THEN e ELSE s[i - 1]
        <2>1. CASE i <= m  BY <2>1, <1>0, <1>2, <1>4, <1>5
        <2>2. CASE i > m
            <3>1. (c \o b)[i] = b[i - m] /\ i - m \in 1..(Len(s) - m + 1)
                BY <2>2, <1>0, <1>2, <1>4, <1>5
            <3>2. b[i - m] = s[m + (i - m) - 1]
                BY <3>1, <1>2
            <3>3. m + (i - m) - 1 = i - 1  BY <1>0
            <3>4. QED  BY <3>1, <3>2, <3>3, <2>2, <1>0
        <2>3. i <= m \/ i > m  BY <1>0
        <2>4. QED  BY <2>1, <2>2, <2>3
    <1>8. Len(c \o b) = Len(s) + 1
        BY <1>0, <1>2, <1>4, <1>5
    <1>9. QED  BY <1>5, <1>6, <1>7, <1>8

\* The list without some of its statuses.
LEMMA KeepsFacts ==
    ASSUME NEW s, Sorted(s), NEW S, Keeps(s, S)
    PROVE  /\ Sorted(items') /\ IdsOf(items') = IdsOf(s) \ S
           /\ Single(s) => Single(items')
    <1> DEFINE K == {i \in DOMAIN s : s[i].id \notin S}
    <1>1. PICK f \in [1..Cardinality(K) -> K] :
             /\ \A i, j \in DOMAIN f : i < j => f[i] < f[j]
             /\ \A k \in K : \E i \in DOMAIN f : f[i] = k
             /\ items' = [i \in DOMAIN f |-> s[f[i]]]
        BY DEF Keeps
    <1>2. s \in Seq(Entries) /\ Len(s) \in Nat /\ DOMAIN s = 1..Len(s)
        BY LenProperties DEF Sorted
    <1>3. Cardinality(K) \in Nat
        <2>1. IsFiniteSet(1..Len(s))
            BY <1>2, FS_Interval
        <2>2. K \in SUBSET (1..Len(s))
            BY <1>2
        <2>3. IsFiniteSet(K)
            BY <2>1, <2>2, FS_Subset
        <2>4. QED  BY <2>3, FS_CardinalityType
    <1> DEFINE n == Cardinality(K)
    <1> HIDE DEF n
    <1>4. n \in Nat /\ DOMAIN f = 1..n /\ items' = [i \in 1..n |-> s[f[i]]]
        BY <1>1, <1>3 DEF n
    <1>5. \A i \in 1..n : f[i] \in K /\ f[i] \in DOMAIN s /\ f[i] \in Nat /\ s[f[i]] \in Entries
        BY <1>1, <1>2, <1>4 DEF n
    <1>6. items' \in Seq(Entries) /\ DOMAIN items' = 1..n
        BY <1>4, <1>5
    <1>7. \A i, j \in 1..n : i < j => items'[i].id > items'[j].id
        BY <1>1, <1>4, <1>5 DEF Sorted
    <1>8. IdsOf(items') = IdsOf(s) \ S
        <2>1. ASSUME NEW i \in 1..n PROVE items'[i].id \in IdsOf(s) \ S
            BY <1>4, <1>5 DEF IdsOf
        <2>2. ASSUME NEW k \in DOMAIN s, s[k].id \notin S PROVE s[k].id \in IdsOf(items')
            <3>1. PICK i \in 1..n : f[i] = k
                BY <1>1, <1>4, <2>2
            <3>2. items'[i].id = s[k].id
                BY <1>4, <3>1
            <3>3. QED  BY <1>6, <3>2 DEF IdsOf
        <2>3. QED  BY <1>6, <2>1, <2>2 DEF IdsOf
    <1>9. ASSUME Single(s) PROVE Single(items')
        <2> SUFFICES ASSUME NEW i \in 1..n, NEW j \in 1..n, i # j, BoostOf[items'[i].id] # 0
                     PROVE  BoostOf[items'[i].id] # BoostOf[items'[j].id]
            BY <1>6 DEF Single
        <2>1. f[i] # f[j]
            BY <1>1, <1>4, <1>5
        <2>2. items'[i] = s[f[i]] /\ items'[j] = s[f[j]]
            BY <1>4
        <2>3. QED  BY <1>5, <1>9, <2>1, <2>2 DEF Single
    <1>10. QED  BY <1>6, <1>7, <1>8, <1>9 DEF Sorted

\* The same list with other marks.
LEMMA MarksFacts ==
    ASSUME NEW s, Sorted(s), NEW t \in Seq(Entries), DOMAIN t = DOMAIN s,
           \A i \in DOMAIN s : t[i].id = s[i].id
    PROVE  /\ Sorted(t) /\ IdsOf(t) = IdsOf(s)
           /\ Single(s) => Single(t)
    BY DEF Sorted, IdsOf, Single

\* A list newest first is no longer than there are statuses.
LEMMA LengthBound ==
    ASSUME NEW s, Sorted(s)
    PROVE  Len(s) <= N
    <1>1. s \in Seq(Entries) /\ Len(s) \in Nat /\ DOMAIN s = 1..Len(s)
        BY LenProperties DEF Sorted
    <1>2. \A i \in 1..Len(s) : s[i].id \in 1..N
        <2>1. \A i \in 1..Len(s) : s[i] \in Entries
            BY <1>1, ElementOfSeq
        <2>2. QED  BY <2>1 DEF Entries, Ids
    <1> DEFINE f == [i \in 1..Len(s) |-> s[i].id]
    <1>3. f \in [1..Len(s) -> 1..N]
        BY <1>2
    <1>4. \A i, j \in 1..Len(s) : i # j => f[i] # f[j]
        <2> TAKE i, j \in 1..Len(s)
        <2>1. i \in Nat /\ j \in Nat /\ s[i].id \in Nat /\ s[j].id \in Nat
            BY <1>2, TimelineAssumption
        <2>2. (i < j => s[i].id > s[j].id) /\ (j < i => s[j].id > s[i].id)
            BY <1>1 DEF Sorted
        <2>3. QED  BY <2>1, <2>2
    <1>5. /\ IsFiniteSet(1..N) /\ Cardinality(1..N) = N
          /\ IsFiniteSet(1..Len(s)) /\ Cardinality(1..Len(s)) = Len(s)
        <2>1. \A n \in Nat : IsFiniteSet(1..n) /\ Cardinality(1..n) = IF 1 > n THEN 0 ELSE n - 1 + 1
            <3> TAKE n \in Nat
            <3>1. 1 \in Int /\ n \in Int  OBVIOUS
            <3>2. QED  BY <3>1, FS_Interval
        <2>2. \A n \in Nat : IsFiniteSet(1..n) /\ Cardinality(1..n) = n
            BY <2>1
        <2>3. QED  BY <1>1, <2>2, TimelineAssumption
    <1> HIDE DEF f
    <1>6. ~ (N < Len(s))
        BY <1>3, <1>4, <1>5, FS_PigeonHole
    <1>7. QED  BY <1>1, <1>6, TimelineAssumption

\* A status is inserted where it belongs.
LEMMA InsertIndexedFacts ==
    ASSUME NEW s, Sorted(s), NEW x \in Ids, NEW t, t = InsertIndexed(s, x)
    PROVE  /\ Sorted(t) /\ IdsOf(s) \subseteq IdsOf(t)
           /\ Single(s) /\ DepthCovers => Single(t)
    <1> DEFINE marks == {i \in DOMAIN s : s[i].id <= x}
               m == IF marks = {} THEN Len(s) + 1 ELSE Min(marks)
    <1>1. s \in Seq(Entries) /\ Len(s) \in Nat /\ DOMAIN s = 1..Len(s)
        BY LenProperties DEF Sorted
    <1>5. x \in Nat /\ \A i \in DOMAIN s : i \in Nat /\ s[i].id \in Nat
        <2>1. Ids \subseteq Nat
            BY TimelineAssumption DEF Ids
        <2>2. \A i \in DOMAIN s : s[i] \in Entries /\ i \in Nat
            BY <1>1, ElementOfSeq
        <2>3. QED  BY <2>1, <2>2 DEF Entries
    <1>2. CASE Skipped(s, x)
        BY <1>2 DEF InsertIndexed
    <1>3. CASE ~ Skipped(s, x)
        <2>1. Entry(x) \in Entries /\ Entry(x).id = x
            BY DEF Entry, Entries
        <2>2. marks # {} => /\ m \in DOMAIN s /\ s[m].id <= x
                            /\ \A i \in DOMAIN s : i < m => s[i].id > x
            <3> HAVE marks # {}
            <3>1. marks \subseteq Nat  BY <1>1
            <3>2. Min(marks) \in marks /\ \A i \in marks : Min(marks) <= i
                BY <3>1, MinIsLeast
            <3>3. m = Min(marks) /\ m \in Nat
                BY <3>1, <3>2
            <3>4. ASSUME NEW i \in DOMAIN s, i < m  PROVE s[i].id > x
                <4> HIDE DEF m, marks
                <4>1. i \notin marks  BY <1>5, <3>2, <3>3, <3>4
                <4>2. QED  BY <1>5, <4>1 DEF marks
            <3>5. m \in DOMAIN s /\ s[m].id <= x
                BY <3>2, <3>3
            <3>6. QED  BY <3>4, <3>5
        <2>3. marks = {} => \A i \in DOMAIN s : s[i].id > x
            BY <1>5
        <2>4. m \in 1..(Len(s) + 1)
            BY <1>1, <2>2
        <2>5. marks # {} => t = InsertAt(s, m, Entry(x))
            BY <1>3 DEF InsertIndexed
        <2>6. marks = {} => t = Append(s, Entry(x)) /\ m = Len(s) + 1
            BY <1>3 DEF InsertIndexed
        <2> HIDE DEF m, marks
        <2>16. /\ t \in Seq(Entries) /\ Len(t) = Len(s) + 1
               /\ \A i \in 1..Len(t) :
                     t[i] = IF i < m THEN s[i] ELSE IF i = m THEN Entry(x) ELSE s[i - 1]
            <3>1. CASE marks # {}
                <4>1. t = InsertAt(s, m, Entry(x))  BY <2>5, <3>1
                <4>2. /\ InsertAt(s, m, Entry(x)) \in Seq(Entries)
                      /\ Len(InsertAt(s, m, Entry(x))) = Len(s) + 1
                      /\ \A i \in 1..(Len(s) + 1) : InsertAt(s, m, Entry(x))[i] =
                            IF i < m THEN s[i] ELSE IF i = m THEN Entry(x) ELSE s[i - 1]
                    BY <1>1, <2>1, <2>4, InsertAtFacts
                <4>3. QED  BY <1>1, <4>1, <4>2
            <3>2. CASE marks = {}
                <4>1. /\ Append(s, Entry(x)) \in Seq(Entries)
                      /\ Len(Append(s, Entry(x))) = Len(s) + 1
                      /\ \A i \in 1..Len(s) : Append(s, Entry(x))[i] = s[i]
                      /\ Append(s, Entry(x))[Len(s) + 1] = Entry(x)
                    BY <1>1, <2>1, AppendProperties
                <4>2. t = Append(s, Entry(x)) /\ m = Len(s) + 1
                    BY <2>6, <3>2
                <4>3. QED  BY <1>1, <4>1, <4>2
            <3>3. QED  BY <3>1, <3>2
        <2>7. \A i \in DOMAIN s : /\ i < m => s[i].id > x
                                  /\ i >= m => s[i].id <= x
            <3>1. CASE marks # {}
                <4> TAKE i \in DOMAIN s
                <4>1. i > m => s[m].id > s[i].id
                    BY <2>2, <3>1 DEF Sorted
                <4>2. QED  BY <1>1, <1>5, <2>2, <3>1, <4>1
            <3>2. CASE marks = {}
                BY <1>1, <1>5, <2>3, <2>6, <3>2
            <3>3. QED  BY <3>1, <3>2
        <2>8. \A i \in DOMAIN s : s[i].id # x
            BY <1>3 DEF Skipped, SkipInsert
        <2>9. DOMAIN t = 1..(Len(s) + 1)
            BY <2>16, LenProperties
        <2>10. ASSUME NEW i \in DOMAIN t, NEW j \in DOMAIN t, i < j  PROVE t[i].id > t[j].id
            <3>1. i \in Nat /\ j \in Nat /\ m \in Nat /\ Len(s) \in Nat
                BY <1>1, <2>4, <2>9
            <3>2. CASE j < m
                <4>1. t[i] = s[i] /\ t[j] = s[j] /\ i \in DOMAIN s /\ j \in DOMAIN s
                    BY <1>1, <2>4, <2>16, <2>9, <2>10, <3>1, <3>2
                <4>2. QED  BY <2>10, <4>1 DEF Sorted
            <3>3. CASE j = m
                <4>1. t[j].id = x /\ t[i] = s[i] /\ i \in DOMAIN s /\ i < m
                    BY <1>1, <2>1, <2>4, <2>16, <2>9, <2>10, <3>1, <3>3
                <4>2. QED  BY <2>7, <4>1
            <3>4. CASE j > m
                <4>1. t[j] = s[j - 1] /\ j - 1 \in DOMAIN s /\ j - 1 >= m
                    BY <1>1, <2>4, <2>16, <2>9, <3>1, <3>4
                <4>2. CASE i < m
                    BY <1>1, <2>4, <2>16, <2>9, <2>10, <3>1, <4>1, <4>2 DEF Sorted
                <4>3. CASE i = m
                    <5>1. t[i].id = x
                        BY <2>1, <2>16, <2>9, <4>3
                    <5>2. QED  BY <1>5, <2>7, <2>8, <4>1, <5>1
                <4>4. CASE i > m
                    <5>1. t[i] = s[i - 1] /\ i - 1 \in DOMAIN s /\ i - 1 < j - 1
                        BY <1>1, <2>4, <2>16, <2>9, <2>10, <3>1, <4>4
                    <5>2. QED  BY <4>1, <5>1 DEF Sorted
                <4>5. QED  BY <3>1, <4>2, <4>3, <4>4
            <3>5. QED  BY <3>1, <3>2, <3>3, <3>4
        <2>11. \A k \in DOMAIN s : \E i \in DOMAIN t : t[i] = s[k]
            <3> TAKE k \in DOMAIN s
            <3>1. k \in Nat /\ m \in Nat /\ k \in DOMAIN t /\ k + 1 \in DOMAIN t
                BY <1>1, <2>4, <2>9
            <3>2. CASE k < m
                BY <2>16, <2>9, <3>1, <3>2
            <3>3. CASE k >= m
                <4>1. t[k + 1] = s[k + 1 - 1]
                    BY <2>16, <2>9, <3>1, <3>3
                <4>2. k + 1 - 1 = k  BY <3>1
                <4>3. QED  BY <3>1, <4>1, <4>2
            <3>4. QED  BY <3>1, <3>2, <3>3
        <2>12. \A i \in DOMAIN t : t[i].id = x \/ \E k \in DOMAIN s : t[i] = s[k]
            <3> TAKE i \in DOMAIN t
            <3>1. i \in Nat /\ m \in Nat
                BY <1>1, <2>4, <2>9
            <3>2. CASE i < m
                BY <1>1, <2>4, <2>16, <2>9, <3>1, <3>2
            <3>3. CASE i = m
                BY <2>1, <2>16, <2>9, <3>3
            <3>4. CASE i > m
                <4>1. t[i] = s[i - 1] /\ i - 1 \in DOMAIN s
                    BY <1>1, <2>4, <2>16, <2>9, <3>1, <3>4
                <4>2. QED  BY <4>1
            <3>5. QED  BY <3>1, <3>2, <3>3, <3>4
        <2>13. Sorted(t)
            BY <2>16, <2>10 DEF Sorted
        <2>14. IdsOf(s) \subseteq IdsOf(t)
            BY <2>11 DEF IdsOf
        <2>15. ASSUME Single(s), DepthCovers  PROVE Single(t)
            <3> SUFFICES ASSUME NEW i \in DOMAIN t, NEW j \in DOMAIN t, i # j, BoostOf[t[i].id] # 0
                         PROVE  BoostOf[t[i].id] # BoostOf[t[j].id]
                BY DEF Single
            <3>1. t[i].id # t[j].id
                <4>1. i \in Nat /\ j \in Nat
                    BY <1>1, <2>9
                <4>2. \A k \in DOMAIN t : t[k].id \in Nat
                    BY <1>5, <2>12
                <4>3. i < j \/ j < i  BY <4>1
                <4>4. QED  BY <2>10, <4>2, <4>3
            <3>2. ASSUME NEW k \in DOMAIN s  PROVE k < Depth
                <4>1. Len(s) <= N  BY LengthBound
                <4>2. QED  BY <1>1, <1>5, <2>15, <4>1, TimelineAssumption DEF DepthCovers
            <3>3. ASSUME NEW k \in DOMAIN s, BoostOf[x] # 0  PROVE BoostOf[x] # BoostOf[s[k].id]
                BY <1>3, <3>2, <3>3 DEF Skipped, SkipInsert
            <3>4. ASSUME NEW k \in DOMAIN s, NEW l \in DOMAIN s, t[i] = s[k], t[j] = s[l]
                  PROVE  BoostOf[t[i].id] # BoostOf[t[j].id]
                BY <2>15, <3>1, <3>4 DEF Single
            <3>5. QED  BY <2>12, <3>1, <3>3, <3>4
        <2>17. QED  BY <2>13, <2>14, <2>15
    <1>4. QED  BY <1>2, <1>3

-----------------------------------------------------------------------------
(***************************************************************************)
(* The invariant                                                           *)
(***************************************************************************)
Reading ==
    [pc : {"idle", "index", "prepare", "mark", "look", "assign", "append", "return", "fail", "front"},
     req : Request, at : 0..N, loose : BOOLEAN, kept : BOOLEAN, page : Seq(0..N), drop : SUBSET Ids]

\* PageInOrder for one reader.
PageOK(me) ==
    /\ \A i, j \in DOMAIN me.page :
          i < j /\ me.page[i] # 0 /\ me.page[j] # 0
              => IF me.req.down THEN me.page[i] > me.page[j] ELSE me.page[i] < me.page[j]
    /\ \A i \in DOMAIN me.page :
          me.page[i] # 0 => /\ me.page[i] < me.req.behind
                            /\ me.req.down => me.page[i] > me.req.before

\* What is on the page has been passed by the walk.
Passed(me, y) ==
    \A i \in DOMAIN me.page : me.page[i] # 0 => IF me.req.down THEN me.page[i] > y ELSE me.page[i] < y

\* A reader that walks along a list of the statuses L: the element in hand is in
\* the list, or known to have left it, and everything on the page lies behind it.
WalkOK(me, L) ==
    /\ me \in Reading
    /\ me.pc \in {"idle", "index", "prepare", "front"} => me.at = 0 /\ ~me.loose
    /\ me.pc \in {"idle", "index", "prepare", "front", "mark"} => me.page = <<>>
    /\ me.pc \in {"mark", "look", "assign", "append"} => me.at \in Ids /\ (me.loose \/ me.at \in L)
    /\ me.pc \in {"look", "assign", "append"} => Passed(me, me.at)
    /\ me.pc \in {"assign", "append"} => ~Before(me.at, me.req) /\ ~Beyond(me.at, me.req)
    /\ PageOK(me)

\* What was grabbed and not yet inserted.
JobOK(j) ==
    /\ j = [pc |-> j.pc, req |-> j.req, want |-> j.want, tries |-> j.tries, got |-> j.got]
    /\ j.got \in Seq((SUBSET Ids) \ {{}})
    /\ j.pc = "insert" => j.got # <<>>

ReadersOK(rd, L) == rd \in [Readers -> Reading] /\ \A r \in Readers : WalkOK(rd[r], L)

IInv == Sorted(items) /\ JobOK(job) /\ ReadersOK(reader, IdsOf(items))

-----------------------------------------------------------------------------
(***************************************************************************)
(* The walk                                                                *)
(***************************************************************************)
LEMMA IdsAreNat == Ids \subseteq Nat \ {0} /\ N \in Nat /\ Ids \subseteq 0..N
    BY TimelineAssumption DEF Ids

\* The place of a status that is in the list.
LEMMA PosFacts ==
    ASSUME Sorted(items), NEW x \in IdsOf(items)
    PROVE  Pos(x) \in DOMAIN items /\ items[Pos(x)].id = x
    BY DEF IdsOf, Pos

\* What the list holds at a place.
LEMMA ItemType ==
    ASSUME Sorted(items)
    PROVE  /\ \A i \in DOMAIN items : /\ items[i] \in Entries /\ items[i].id \in Ids
                                      /\ items[i].prepared \in BOOLEAN /\ i \in Nat
           /\ IdsOf(items) \subseteq Ids /\ IdsOf(items) = Listed
    <1>1. \A i \in DOMAIN items : items[i] \in Entries /\ i \in Nat
        BY ElementOfSeq, LenProperties DEF Sorted
    <1>2. QED  BY <1>1 DEF IdsOf, Listed, Entries

\* The next element is older and the previous one newer, and both are in the list.
LEMMA NeighbourFacts ==
    ASSUME Sorted(items), NEW r \in Readers, reader[r].at \in Ids,
           reader[r].loose \/ reader[r].at \in IdsOf(items), NEW d \in {"next", "prev"},
           Neighbour(r, d) # 0
    PROVE  /\ Neighbour(r, d) \in IdsOf(items) /\ ~reader[r].loose
           /\ d = "next" => Neighbour(r, d) < reader[r].at
           /\ d = "prev" => Neighbour(r, d) > reader[r].at
    <1> DEFINE p == Pos(reader[r].at)
               q == IF d = "next" THEN p + 1 ELSE p - 1
    <1>1. ~reader[r].loose /\ Neighbour(r, d) = IdAt(q)
        BY DEF Neighbour
    <1>2. p \in DOMAIN items /\ items[p].id = reader[r].at
        BY <1>1, PosFacts
    <1>3. p \in Nat
        BY <1>2, ItemType
    <1> HIDE DEF p
    <1>4. q \in DOMAIN items /\ IdAt(q) = items[q].id
        BY <1>1 DEF IdAt
    <1>5. (d = "next" => p < q) /\ (d = "prev" => q < p)
        BY <1>3
    <1> HIDE DEF q
    <1>6. (p < q => items[p].id > items[q].id) /\ (q < p => items[q].id > items[p].id)
        BY <1>2, <1>4 DEF Sorted
    <1>7. items[q].id \in IdsOf(items) /\ items[q].id \in Nat /\ items[p].id \in Nat
        BY <1>2, <1>4, ItemType, IdsAreNat DEF IdsOf
    <1>8. QED  BY <1>1, <1>2, <1>4, <1>5, <1>6, <1>7

\* The loop goes on with an element that lies beyond all of the page, or ends.
LEMMA OnwardOK ==
    ASSUME Sorted(items), NEW r \in Readers, NEW rec \in Reading,
           rec.at = reader[r].at, rec.loose = reader[r].loose, rec.at \in Ids,
           rec.loose \/ rec.at \in IdsOf(items), PageOK(rec),
           \A i \in DOMAIN rec.page :
              rec.page[i] # 0 => IF rec.req.down THEN rec.page[i] >= rec.at ELSE rec.page[i] <= rec.at
    PROVE  WalkOK(Onward(r, rec), IdsOf(items))
    <1> DEFINE d == IF rec.req.down THEN "next" ELSE "prev"
               y == Neighbour(r, d)
    <1>1. CASE y = 0 \/ Len(rec.page) >= Amount
        <2>1. Onward(r, rec) = [rec EXCEPT !.pc = "return"]
            BY <1>1 DEF Onward
        <2>2. QED  BY <2>1 DEF WalkOK, Reading, PageOK
    <1>2. CASE ~ (y = 0 \/ Len(rec.page) >= Amount)
        <2>1. Onward(r, rec) = [rec EXCEPT !.at = y, !.pc = "look"]
            BY <1>2 DEF Onward
        <2>2. /\ y \in IdsOf(items) /\ ~rec.loose
              /\ d = "next" => y < rec.at
              /\ d = "prev" => y > rec.at
            BY <1>2, NeighbourFacts
        <2>3. y \in Ids /\ y \in Nat /\ y \in 0..N /\ rec.at \in Nat
            BY <2>2, ItemType, IdsAreNat
        <2>4. (rec.req.down => y < rec.at) /\ (~rec.req.down => y > rec.at)
            BY <2>2
        <2> HIDE DEF y, d
        <2> DEFINE me == [rec EXCEPT !.at = y, !.pc = "look"]
        <2>5. /\ me \in Reading /\ me.pc = "look" /\ me.at = y /\ me.page = rec.page
              /\ me.req = rec.req /\ me.loose = rec.loose
            BY <2>3 DEF Reading
        <2>6. PageOK(me)
            BY <2>5 DEF PageOK
        <2>7. Passed(me, me.at)
            <3> SUFFICES ASSUME NEW i \in DOMAIN rec.page, rec.page[i] # 0
                         PROVE  IF rec.req.down THEN rec.page[i] > y ELSE rec.page[i] < y
                BY <2>5 DEF Passed
            <3>1. rec.page[i] \in Nat
                <4>1. rec.page \in Seq(0..N)  BY DEF Reading
                <4>2. rec.page[i] \in 0..N  BY <4>1, ElementOfSeq, LenProperties
                <4>3. QED  BY <4>2
            <3>2. IF rec.req.down THEN rec.page[i] >= rec.at ELSE rec.page[i] <= rec.at
                OBVIOUS
            <3>3. QED  BY <2>3, <2>4, <3>1, <3>2
        <2> HIDE DEF me
        <2>8. WalkOK(me, IdsOf(items))
            BY <2>2, <2>3, <2>5, <2>6, <2>7 DEF WalkOK
        <2>9. QED  BY <2>1, <2>8 DEF me
    <1>3. QED  BY <1>1, <1>2

\* Entries join the list.
LEMMA WalkGrows ==
    ASSUME NEW me, NEW L, NEW M, WalkOK(me, L), L \subseteq M
    PROVE  WalkOK(me, M)
    BY DEF WalkOK

\* Entries leave the list: the readers that hold one of them know.
LEMMA LoosenOK ==
    ASSUME Sorted(items), NEW rd, ReadersOK(rd, IdsOf(items)), NEW S, S \subseteq IdsOf(items)
    PROVE  ReadersOK(Loosen(rd, S), IdsOf(items) \ S)
    <1> SUFFICES ASSUME NEW r \in Readers  PROVE WalkOK(Loosen(rd, S)[r], IdsOf(items) \ S)
        <2>1. ASSUME \A r \in Readers : WalkOK(Loosen(rd, S)[r], IdsOf(items) \ S)
              PROVE  Loosen(rd, S) \in [Readers -> Reading]
            <3>1. \A r \in Readers : Loosen(rd, S)[r] \in Reading
                BY <2>1 DEF WalkOK
            <3>2. QED  BY <3>1 DEF Loosen
        <2>2. QED  BY <2>1 DEF ReadersOK
    <1> DEFINE me == rd[r]
               k == IF me.at \in S /\ ~me.loose THEN items[Pos(me.at)].prepared ELSE me.kept
               new == [me EXCEPT !.loose = me.loose \/ me.at \in S, !.kept = k, !.drop = me.drop \ S]
    <1>1. WalkOK(me, IdsOf(items)) /\ me \in Reading
        BY DEF ReadersOK, WalkOK
    <1>2. Loosen(rd, S)[r] = new
        BY <1>1 DEF Loosen, Reading
    <1>3. k \in BOOLEAN
        <2>1. CASE me.at \in S /\ ~me.loose
            <3>1. Pos(me.at) \in DOMAIN items  BY <2>1, PosFacts
            <3>2. QED  BY <2>1, <3>1, ItemType
        <2>2. CASE ~ (me.at \in S /\ ~me.loose)
            BY <1>1, <2>2 DEF Reading
        <2>3. QED  BY <2>1, <2>2
    <1> HIDE DEF k, me
    <1>4. /\ new \in Reading /\ new.pc = me.pc /\ new.req = me.req /\ new.at = me.at /\ new.page = me.page
          /\ new.loose = (me.loose \/ me.at \in S)
        BY <1>1, <1>3 DEF Reading
    <1> HIDE DEF new
    <1>5. S \subseteq Ids /\ 0 \notin Ids
        BY ItemType, IdsAreNat
    <1>6. PageOK(new) /\ (Passed(me, me.at) => Passed(new, new.at))
        BY <1>1, <1>4 DEF PageOK, Passed, WalkOK
    <1>7. WalkOK(new, IdsOf(items) \ S)
        BY <1>1, <1>4, <1>5, <1>6 DEF WalkOK
    <1>8. QED  BY <1>2, <1>7

-----------------------------------------------------------------------------
(***************************************************************************)
(* Steps                                                                   *)
(***************************************************************************)
\* What every step keeps.
Kept == IInv' /\ (Single(items) /\ DepthCovers => Single(items'))

\* A reader moves, the list stays as it is.
LEMMA ReaderMoves ==
    ASSUME IInv, UNCHANGED items, JobOK(job'), NEW r \in Readers, NEW me,
           reader' = [reader EXCEPT ![r] = me], WalkOK(me, IdsOf(items))
    PROVE  Kept
    <1>1. me \in Reading
        BY DEF WalkOK
    <1>2. ReadersOK(reader', IdsOf(items'))
        BY <1>1 DEF IInv, ReadersOK
    <1>3. QED  BY <1>2 DEF IInv, Kept

\* The list grows or is marked, the readers stay where they are.
LEMMA ListMoves ==
    ASSUME IInv, UNCHANGED reader, JobOK(job'), Sorted(items'), IdsOf(items) \subseteq IdsOf(items'),
           Single(items) /\ DepthCovers => Single(items')
    PROVE  Kept
    <1>1. ReadersOK(reader', IdsOf(items'))
        BY WalkGrows DEF IInv, ReadersOK
    <1>2. QED  BY <1>1 DEF IInv, Kept

LEMMA RemoveOK ==
    ASSUME IInv, UNCHANGED job, NEW rd, ReadersOK(rd, IdsOf(items)), NEW S, RemoveItems(rd, S)
    PROVE  Kept
    <1>1. Sorted(items') /\ IdsOf(items') = IdsOf(items) \ S /\ (Single(items) => Single(items'))
        BY KeepsFacts DEF IInv, RemoveItems
    <1>2. reader' = Loosen(rd, S \cap IdsOf(items))
        BY ItemType DEF IInv, RemoveItems
    <1>3. ReadersOK(reader', IdsOf(items) \ (S \cap IdsOf(items)))
        BY <1>2, LoosenOK DEF IInv
    <1>4. IdsOf(items) \ (S \cap IdsOf(items)) = IdsOf(items')
        BY <1>1
    <1>5. QED  BY <1>1, <1>3, <1>4 DEF IInv, Kept

\* The list with other marks.
LEMMA MarkedList ==
    ASSUME Sorted(items), NEW b, \A i \in DOMAIN items : b[i] \in BOOLEAN,
           NEW s, s = [i \in DOMAIN items |-> [items[i] EXCEPT !.prepared = b[i]]]
    PROVE  /\ Sorted(s) /\ IdsOf(s) = IdsOf(items)
           /\ Single(items) => Single(s)
    <1>1. /\ \A i \in DOMAIN items : s[i] \in Entries /\ s[i].id = items[i].id
          /\ DOMAIN s = DOMAIN items
        BY ItemType DEF Entries
    <1>2. Len(items) \in Nat /\ DOMAIN items = 1..Len(items)
        BY LenProperties DEF Sorted
    <1>3. s \in Seq(Entries)
        BY <1>1, <1>2
    <1>4. QED  BY <1>1, <1>3, MarksFacts

LEMMA PrepareOK ==
    ASSUME IInv, NEW rd, ReadersOK(rd, IdsOf(items)), NEW req, Prepare(req, rd)
    PROVE  Kept
    <1> DEFINE todo == {x \in Wanted(req) : ~items[Pos(x)].prepared}
               lost == {x \in todo : row[x] # "there" \/ x \in Muted}
    <1>1. PICK S \in SUBSET todo :
             /\ Keeps([i \in DOMAIN items |->
                          [items[i] EXCEPT !.prepared = @ \/ items[i].id \in S \ lost]],
                      S \cap lost)
             /\ reader' = Loosen(rd, S \cap lost)
        BY DEF Prepare
    <1>2. S \cap lost \subseteq IdsOf(items)
        BY ItemType DEF Wanted, Nearest, IInv
    <1> HIDE DEF todo, lost
    <1> DEFINE b == [i \in DOMAIN items |-> items[i].prepared \/ items[i].id \in S \ lost]
               s == [i \in DOMAIN items |-> [items[i] EXCEPT !.prepared = b[i]]]
    <1>3. s = [i \in DOMAIN items |-> [items[i] EXCEPT !.prepared = @ \/ items[i].id \in S \ lost]]
        BY ItemType DEF IInv, Entries
    <1>4. \A i \in DOMAIN items : b[i] \in BOOLEAN
        OBVIOUS
    <1> HIDE DEF b
    <1>5. /\ Sorted(s) /\ IdsOf(s) = IdsOf(items)
          /\ Single(items) => Single(s)
        BY <1>4, MarkedList DEF IInv
    <1>6. Keeps(s, S \cap lost)
        BY <1>1, <1>3
    <1> HIDE DEF s
    <1>7. /\ Sorted(items') /\ IdsOf(items') = IdsOf(s) \ (S \cap lost)
          /\ Single(s) => Single(items')
        BY <1>5, <1>6, KeepsFacts
    <1>8. ReadersOK(reader', IdsOf(items) \ (S \cap lost))
        BY <1>1, <1>2, LoosenOK DEF IInv
    <1>9. UNCHANGED job
        BY DEF Prepare
    <1>10. QED  BY <1>5, <1>7, <1>8, <1>9 DEF IInv, Kept

LEMMA NoJobOK == JobOK(NoJob)
    BY DEF JobOK, NoJob

LEMMA IndexOK ==
    ASSUME JobOK(job), NEW req, Index(req)
    PROVE  JobOK(job')
    <1> DEFINE new == [NoJob EXCEPT !.pc = "grab", !.req = req, !.want = Missing(req)]
    <1>1. job' = job \/ job' = new
        BY DEF Index
    <1>2. new.got = <<>> /\ new.pc = "grab"
        BY DEF NoJob
    <1>3. JobOK(new)
        <2>1. ASSUME NEW a, NEW b, NEW c, NEW d, NEW e, NEW p, NEW q, NEW w,
                     NEW j, j = [pc |-> a, req |-> b, want |-> c, tries |-> d, got |-> e],
                     NEW k, k = [j EXCEPT !.pc = p, !.req = q, !.want = w]
              PROVE  k = [pc |-> k.pc, req |-> k.req, want |-> k.want, tries |-> k.tries, got |-> k.got]
            BY <2>1
        <2>2. new = [pc |-> new.pc, req |-> new.req, want |-> new.want, tries |-> new.tries, got |-> new.got]
            <3> DEFINE w == Missing(req)
            <3>1. NoJob = [pc |-> NoJob.pc, req |-> NoJob.req, want |-> NoJob.want,
                           tries |-> NoJob.tries, got |-> NoJob.got]
                BY NoJobOK DEF JobOK
            <3>2. new = [NoJob EXCEPT !.pc = "grab", !.req = req, !.want = w]
                OBVIOUS
            <3> HIDE DEF w, new
            <3>3. QED  BY <2>1, <3>1, <3>2
        <2> HIDE DEF new
        <2>3. QED  BY <1>2, <2>2 DEF JobOK
    <1>4. QED  BY <1>1, <1>3

\* One query more.
LEMMA GrabOK ==
    ASSUME JobOK(job), GrabQuery
    PROVE  JobOK(job')
    <1> DEFINE req   == job.req
               Rows  == {x \in Ids : row[x] = "there" /\ req.before < x /\ x < req.behind}
               found == Nearest(Rows, job.want, req.down)
               more  == [job EXCEPT !.tries = @ + 1,
                             !.want  = @ - Cardinality(found \cap Fit),
                             !.req   = IF req.down THEN [@ EXCEPT !.behind = Min(found)]
                                       ELSE [@ EXCEPT !.before = Max(found)],
                             !.got   = IF found \cap Fit = {} THEN @ ELSE Append(@, found \cap Fit)]
    <1>1. \/ job' = more
          \/ job' = NoJob
          \/ job.got # <<>> /\ job' = [job EXCEPT !.pc = "insert"]
        BY DEF GrabQuery
    <1>2. job.pc = "grab"
        BY DEF GrabQuery
    <1>3. found \cap Fit \in SUBSET Ids
        BY DEF Nearest
    <1> HIDE DEF found
    <1>4. JobOK(more)
        <2>1. more.got \in Seq((SUBSET Ids) \ {{}})
            <3>1. CASE found \cap Fit = {}
                BY <3>1 DEF JobOK
            <3>2. CASE found \cap Fit # {}
                <4>1. more.got = Append(job.got, found \cap Fit)
                    BY <3>2 DEF JobOK
                <4>2. found \cap Fit \in (SUBSET Ids) \ {{}} /\ job.got \in Seq((SUBSET Ids) \ {{}})
                    BY <1>3, <3>2 DEF JobOK
                <4>3. QED  BY <4>1, <4>2, AppendProperties
            <3>3. QED  BY <3>1, <3>2
        <2>2. more.pc = "grab"
            BY <1>2 DEF JobOK
        <2>3. more = [pc |-> more.pc, req |-> more.req, want |-> more.want, tries |-> more.tries, got |-> more.got]
            <3>1. job = [pc |-> job.pc, req |-> job.req, want |-> job.want, tries |-> job.tries, got |-> job.got]
                BY DEF JobOK
            <3>2. ASSUME NEW a, NEW b, NEW c, NEW d, NEW e, NEW w, NEW t, NEW q, NEW g,
                         NEW j, j = [pc |-> a, req |-> b, want |-> c, tries |-> d, got |-> e],
                         NEW k, k = [j EXCEPT !.tries = t, !.want = w, !.req = q, !.got = g]
                  PROVE  k = [pc |-> k.pc, req |-> k.req, want |-> k.want, tries |-> k.tries, got |-> k.got]
                BY <3>2
            <3> DEFINE t == job.tries + 1
                       w == job.want - Cardinality(found \cap Fit)
                       q == IF req.down THEN [req EXCEPT !.behind = Min(found)]
                            ELSE [req EXCEPT !.before = Max(found)]
                       g == IF found \cap Fit = {} THEN job.got ELSE Append(job.got, found \cap Fit)
            <3>3. more = [job EXCEPT !.tries = t, !.want = w, !.req = q, !.got = g]
                BY <3>1
            <3> HIDE DEF t, w, q, g, more
            <3>4. QED  BY <3>1, <3>2, <3>3
        <2>4. QED  BY <2>1, <2>2, <2>3 DEF JobOK
    <1>5. ASSUME job.got # <<>>  PROVE JobOK([job EXCEPT !.pc = "insert"])
        BY <1>5 DEF JobOK
    <1>6. QED  BY <1>1, <1>4, <1>5, NoJobOK

\* One insertion: of a status, and the rest is still to be inserted.
LEMMA InsertGrabbedOK ==
    ASSUME JobOK(job), InsertGrabbed
    PROVE  /\ JobOK(job')
           /\ \E x \in Ids : items' = InsertIndexed(items, x)
    <1> DEFINE first == Head(job.got)
               x     == Max(first)
               left  == IF first = {x} THEN Tail(job.got) ELSE <<first \ {x}>> \o Tail(job.got)
               C     == (SUBSET Ids) \ {{}}
    <1>1. /\ items' = InsertIndexed(items, x)
          /\ job' = IF left = <<>> THEN NoJob ELSE [job EXCEPT !.got = left]
          /\ job.got # <<>> /\ job.got \in Seq(C)
        BY DEF InsertGrabbed, JobOK
    <1>2. first \in C /\ Tail(job.got) \in Seq(C)
        BY <1>1, HeadTailProperties
    <1>3. x \in first /\ x \in Ids
        BY <1>2, MaxIsGreatest
    <1> HIDE DEF first, x
    <1>4. left \in Seq(C)
        <2>1. CASE first = {x}
            BY <1>2, <2>1
        <2>2. CASE first # {x}
            <3>1. first \ {x} \in C
                BY <1>2, <1>3, <2>2
            <3> HIDE DEF C
            <3>2. <<first \ {x}>> \in Seq(C)
                BY <3>1
            <3>3. QED  BY <1>2, <2>2, <3>2, ConcatProperties
        <2>3. QED  BY <2>1, <2>2
    <1> HIDE DEF left
    <1>5. left # <<>> => JobOK([job EXCEPT !.got = left])
        BY <1>4 DEF JobOK
    <1>6. QED  BY <1>1, <1>3, <1>5, NoJobOK

\* The steps of a reader that only move it on, by where it is.
LEMMA ReaderFacts ==
    ASSUME IInv, NEW r \in Readers
    PROVE  /\ reader[r] \in Reading /\ WalkOK(reader[r], IdsOf(items)) /\ PageOK(reader[r])
           /\ reader[r].pc \in {"mark", "look", "assign", "append"} =>
                 reader[r].at \in Ids /\ (reader[r].loose \/ reader[r].at \in IdsOf(items))
           /\ reader[r].pc \in {"look", "assign", "append"} => Passed(reader[r], reader[r].at)
           /\ reader \in [Readers -> Reading]
           /\ Sorted(items) /\ JobOK(job)
    <1>1. \A q \in Readers : WalkOK(reader[q], IdsOf(items)) /\ reader[q] \in Reading
        BY DEF IInv, ReadersOK, WalkOK
    <1>2. reader \in [Readers -> Reading]
        BY DEF IInv, ReadersOK
    <1>3. QED  BY <1>1, <1>2 DEF WalkOK, IInv

\* A status of a page is a number.
LEMMA PageType ==
    ASSUME NEW me \in Reading
    PROVE  /\ me.page \in Seq(0..N) /\ Len(me.page) \in Nat /\ DOMAIN me.page = 1..Len(me.page)
           /\ \A i \in DOMAIN me.page : me.page[i] \in Nat
    <1>1. me.page \in Seq(0..N)
        BY DEF Reading
    <1>2. Len(me.page) \in Nat /\ DOMAIN me.page = 1..Len(me.page)
        BY <1>1, LenProperties
    <1>3. \A i \in DOMAIN me.page : me.page[i] \in 0..N
        BY <1>1, <1>2, ElementOfSeq
    <1>4. QED  BY <1>1, <1>2, <1>3

\* The loop goes on with what it has.
LEMMA OnwardSame ==
    ASSUME IInv, NEW r \in Readers, reader[r].pc = "look", NEW D, D \subseteq Ids
    PROVE  WalkOK(Onward(r, [reader[r] EXCEPT !.drop = D]), IdsOf(items))
    <1> DEFINE me == reader[r]
               rec == [me EXCEPT !.drop = D]
    <1>1. /\ me \in Reading /\ PageOK(me) /\ Passed(me, me.at)
          /\ me.at \in Ids /\ (me.loose \/ me.at \in IdsOf(items)) /\ Sorted(items)
        BY ReaderFacts
    <1>2. /\ rec \in Reading /\ rec.at = me.at /\ rec.loose = me.loose /\ rec.page = me.page
          /\ rec.req = me.req
        BY <1>1 DEF Reading
    <1>3. \A i \in DOMAIN rec.page :
              rec.page[i] # 0 => IF rec.req.down THEN rec.page[i] >= rec.at ELSE rec.page[i] <= rec.at
        <2> HIDE DEF rec, me
        <2> TAKE i \in DOMAIN rec.page
        <2> HAVE rec.page[i] # 0
        <2>1. rec.page[i] \in Nat /\ rec.at \in Nat
            BY <1>1, <1>2, PageType, IdsAreNat
        <2>2. IF rec.req.down THEN rec.page[i] > rec.at ELSE rec.page[i] < rec.at
            BY <1>1, <1>2 DEF Passed
        <2>3. QED  BY <2>1, <2>2
    <1>4. PageOK(rec)
        BY <1>1, <1>2 DEF PageOK
    <1> HIDE DEF rec
    <1>5. WalkOK(Onward(r, rec), IdsOf(items))
        BY <1>1, <1>2, <1>3, <1>4, OnwardOK
    <1>6. QED  BY <1>5 DEF rec

\* An entry is put on the page, or nil.
LEMMA OnwardAppends ==
    ASSUME IInv, NEW r \in Readers, reader[r].pc = "append", NEW y \in {0, reader[r].at}
    PROVE  WalkOK(Onward(r, [reader[r] EXCEPT !.page = Append(@, y)]), IdsOf(items))
    <1> DEFINE me == reader[r]
               p == Append(me.page, y)
               rec == [me EXCEPT !.page = p]
    <1>1. /\ me \in Reading /\ PageOK(me) /\ Passed(me, me.at)
          /\ me.at \in Ids /\ (me.loose \/ me.at \in IdsOf(items)) /\ Sorted(items)
        BY ReaderFacts
    <1>2. ~Before(me.at, me.req) /\ ~Beyond(me.at, me.req)
        BY ReaderFacts DEF WalkOK
    <1>3. y \in 0..N /\ me.at \in Nat /\ y \in Nat
        <2>1. y = 0 \/ y = me.at  OBVIOUS
        <2> HIDE DEF me
        <2>2. me.at \in 0..N  BY <1>1, IdsAreNat
        <2>3. 0 \in 0..N  BY IdsAreNat
        <2>4. QED  BY <2>1, <2>2, <2>3
    <1>4. me.req \in Request /\ me.req.down \in BOOLEAN /\ me.req.before \in Nat /\ me.req.behind \in Nat
        <2>1. me.req \in Request  BY <1>1 DEF Reading
        <2>2. Highest \in Nat /\ Lowest \in Nat  BY IdsAreNat DEF Highest, Lowest
        <2>3. QED  BY <2>1, <2>2, IdsAreNat DEF Request
    <1>5. [reader[r] EXCEPT !.page = Append(@, y)] = rec
        BY <1>1 DEF Reading
    <1> DEFINE n == Len(me.page)
    <1>6. /\ me.page \in Seq(0..N) /\ n \in Nat /\ DOMAIN me.page = 1..n
          /\ \A i \in 1..n : me.page[i] \in Nat
        BY <1>1, PageType
    <1>7. /\ p \in Seq(0..N) /\ DOMAIN p = 1..(n + 1) /\ p[n + 1] = y
          /\ \A i \in 1..n : p[i] = me.page[i]
        <2>1. /\ Append(me.page, y) \in Seq(0..N) /\ Len(Append(me.page, y)) = n + 1
              /\ \A i \in 1..n : Append(me.page, y)[i] = me.page[i]
              /\ Append(me.page, y)[n + 1] = y
            BY <1>3, <1>6, AppendProperties
        <2>2. DOMAIN Append(me.page, y) = 1..(n + 1)
            BY <2>1, LenProperties
        <2>3. QED  BY <2>1, <2>2
    <1> HIDE DEF p
    <1>8. /\ rec \in Reading /\ rec.at = me.at /\ rec.loose = me.loose /\ rec.page = p
          /\ rec.req = me.req
        BY <1>1, <1>7 DEF Reading
    <1> HIDE DEF rec, me, n
    <1>9. \A i \in 1..(n + 1) : i \in 1..n \/ i = n + 1
        BY <1>6
    <1>10. \A i \in 1..n : me.page[i] # 0 =>
              IF me.req.down THEN me.page[i] > me.at ELSE me.page[i] < me.at
        BY <1>1, <1>6 DEF Passed
    <1>11. \A i \in DOMAIN rec.page :
              rec.page[i] # 0 => IF rec.req.down THEN rec.page[i] >= rec.at ELSE rec.page[i] <= rec.at
        <2> SUFFICES ASSUME NEW i \in 1..(n + 1), p[i] # 0
                     PROVE  IF me.req.down THEN p[i] >= me.at ELSE p[i] <= me.at
            BY <1>7, <1>8
        <2>1. CASE i \in 1..n
            BY <1>3, <1>6, <1>7, <1>10, <2>1
        <2>2. CASE i = n + 1
            <3>1. p[i] = me.at  BY <1>7, <2>2 DEF me
            <3>2. QED  BY <1>3, <3>1
        <2>3. QED  BY <1>9, <2>1, <2>2
    <1>12. PageOK(rec)
        <2>1. ASSUME NEW i \in 1..(n + 1), NEW j \in 1..(n + 1), i < j, p[i] # 0, p[j] # 0
              PROVE  IF me.req.down THEN p[i] > p[j] ELSE p[i] < p[j]
            <3>1. i \in 1..n
                BY <1>6, <2>1
            <3>2. CASE j \in 1..n
                <4>1. p[i] = me.page[i] /\ p[j] = me.page[j]  BY <1>7, <3>1, <3>2
                <4>2. QED  BY <1>1, <1>6, <2>1, <3>1, <3>2, <4>1 DEF PageOK
            <3>3. CASE j = n + 1
                <4>1. p[j] = me.at /\ p[i] = me.page[i]
                    BY <1>7, <2>1, <3>1, <3>3 DEF me
                <4>2. QED  BY <1>10, <2>1, <3>1, <4>1
            <3>4. QED  BY <1>9, <3>2, <3>3
        <2>2. ASSUME NEW i \in 1..(n + 1), p[i] # 0
              PROVE  p[i] < me.req.behind /\ (me.req.down => p[i] > me.req.before)
            <3>1. CASE i \in 1..n
                <4>1. p[i] = me.page[i]  BY <1>7, <3>1
                <4>2. QED  BY <1>1, <1>6, <2>2, <3>1, <4>1 DEF PageOK
            <3>2. CASE i = n + 1
                <4>1. p[i] = me.at
                    BY <1>7, <2>2, <3>2 DEF me
                <4>2. QED  BY <1>2, <1>3, <1>4, <4>1 DEF Before, Beyond
            <3>3. QED  BY <1>9, <3>1, <3>2
        <2>3. QED  BY <1>7, <1>8, <2>1, <2>2 DEF PageOK
    <1>13. WalkOK(Onward(r, rec), IdsOf(items))
        <2>1. /\ rec.at = reader[r].at /\ rec.loose = reader[r].loose
              /\ rec.at \in Ids /\ (rec.loose \/ rec.at \in IdsOf(items))
            BY <1>1, <1>8 DEF me
        <2>2. QED  BY <1>1, <1>8, <1>11, <1>12, <2>1, OnwardOK
    <1>14. QED  BY <1>5, <1>13

-----------------------------------------------------------------------------
(***************************************************************************)
(* Get, one lemma per part                                                 *)
(***************************************************************************)
\* Nobody reads.
LEMMA IdleType == Idle \in Reading /\ \A L : WalkOK(Idle, L)
    <1>1. Idle \in Reading
        <2>1. Highest \in Ids \cup {Highest} /\ Lowest \in Ids \cup {Lowest} /\ 0 \in 0..N
            BY IdsAreNat
        <2>2. Idle.req \in Request
            BY <2>1 DEF Idle, Request
        <2>3. ASSUME NEW q \in Request, NEW s \in Seq(0..N), NEW D \in SUBSET Ids, NEW z \in 0..N
              PROVE  [pc |-> "idle", req |-> q, at |-> z, loose |-> FALSE,
                      kept |-> FALSE, page |-> s, drop |-> D] \in Reading
            BY DEF Reading
        <2>4. <<>> \in Seq(0..N) /\ {} \in SUBSET Ids
            OBVIOUS
        <2>5. [behind |-> Highest, before |-> Lowest, down |-> TRUE] \in Request
            BY <2>2 DEF Idle
        <2>6. QED  BY <2>1, <2>3, <2>4, <2>5 DEF Idle
    <1>2. Idle.pc = "idle" /\ Idle.at = 0 /\ Idle.loose = FALSE /\ Idle.page = <<>>
        BY DEF Idle
    <1>3. QED  BY <1>1, <1>2 DEF WalkOK, PageOK, Passed

\* A request begins.
LEMMA GetOK ==
    ASSUME IInv, NEW r \in Readers, NEW req \in Request, Get(r, req)
    PROVE  Kept
    <1> DEFINE me == [Idle EXCEPT !.pc = "index", !.req = req]
    <1>1. WalkOK(me, IdsOf(items))
        <2>1. Idle \in Reading
            BY IdleType
        <2>2. /\ me \in Reading /\ me.pc = "index" /\ me.at = 0 /\ me.loose = FALSE /\ me.page = <<>>
            BY <2>1 DEF Idle, Reading
        <2> HIDE DEF me
        <2>3. QED  BY <2>2 DEF WalkOK, PageOK, Passed
    <1>2. reader' = [reader EXCEPT ![r] = me] /\ UNCHANGED items /\ UNCHANGED job
        BY DEF Get
    <1>3. JobOK(job')
        BY <1>2, ReaderFacts
    <1> HIDE DEF me
    <1>4. QED  BY <1>1, <1>2, <1>3, ReaderMoves

\* The calls under the lock, and the front of the list.
LEMMA GetBeginsOK ==
    ASSUME IInv, NEW r \in Readers, GetIndexes(r) \/ GetPrepares(r) \/ WalkBegins(r)
    PROVE  Kept
    <1> DEFINE me == reader[r]
    <1>1. /\ me \in Reading /\ WalkOK(me, IdsOf(items)) /\ PageOK(me) /\ Sorted(items) /\ JobOK(job)
          /\ reader \in [Readers -> Reading]
        BY ReaderFacts
    <1>2. CASE GetIndexes(r)
        <2> DEFINE new == [me EXCEPT !.pc = "prepare"]
        <2>1. reader' = [reader EXCEPT ![r] = new] /\ UNCHANGED items /\ me.pc = "index"
            BY <1>1, <1>2 DEF GetIndexes
        <2>2. WalkOK(new, IdsOf(items))
            BY <1>1, <2>1 DEF WalkOK, Reading, PageOK, Passed
        <2>3. JobOK(job')
            BY <1>1, <1>2, IndexOK DEF GetIndexes
        <2> HIDE DEF new
        <2>4. QED  BY <2>1, <2>2, <2>3, ReaderMoves
    <1>3. CASE GetPrepares(r)
        <2> DEFINE new == [me EXCEPT !.pc = "front"]
                   rd == [reader EXCEPT ![r] = new]
        <2>1. me.pc = "prepare" /\ Prepare(me.req, rd)
            BY <1>1, <1>3 DEF GetPrepares
        <2>2. WalkOK(new, IdsOf(items)) /\ new \in Reading
            BY <1>1, <2>1 DEF WalkOK, Reading, PageOK, Passed
        <2> HIDE DEF new
        <2>3. ReadersOK(rd, IdsOf(items))
            BY <1>1, <2>2 DEF IInv, ReadersOK
        <2> HIDE DEF rd, me
        <2>4. QED  BY <2>1, <2>3, PrepareOK
    <1>4. CASE WalkBegins(r)
        <2> DEFINE p == IF items = <<>> THEN "return" ELSE IF me.req.down THEN "look" ELSE "mark"
                   new == [me EXCEPT !.pc = p, !.at = IdAt(1)]
        <2>1. /\ reader' = [reader EXCEPT ![r] = new] /\ UNCHANGED items /\ UNCHANGED job
              /\ me.pc = "front" /\ me.page = <<>>
            BY <1>1, <1>4 DEF WalkBegins, WalkOK
        <2>2. IF items = <<>> THEN IdAt(1) = 0 ELSE IdAt(1) \in IdsOf(items)
            <3>1. CASE items = <<>>
                BY <3>1 DEF IdAt
            <3>2. CASE items # <<>>
                <4>1. 1 \in DOMAIN items
                    BY <1>1, <3>2, EmptySeq, LenProperties DEF Sorted
                <4>2. QED  BY <3>2, <4>1 DEF IdAt, IdsOf
            <3>3. QED  BY <3>1, <3>2
        <2>3. IdAt(1) \in 0..N /\ (items # <<>> => IdAt(1) \in Ids)
            <3>1. 0 \in 0..N  BY IdsAreNat
            <3>2. IdsOf(items) \subseteq Ids /\ Ids \subseteq 0..N
                BY <1>1, ItemType, IdsAreNat
            <3>3. QED  BY <2>2, <3>1, <3>2
        <2>4. /\ new \in Reading /\ new.pc = p /\ new.at = IdAt(1) /\ new.page = <<>>
              /\ new.loose = me.loose /\ new.req = me.req
            <3>1. p \in {"return", "look", "mark"}
                OBVIOUS
            <3> DEFINE y == IdAt(1)
            <3>2. y \in 0..N  BY <2>3
            <3>3. new = [me EXCEPT !.pc = p, !.at = y]
                OBVIOUS
            <3> HIDE DEF p, y, me, new
            <3>4. /\ new \in Reading /\ new.pc = p /\ new.at = y /\ new.page = me.page
                  /\ new.loose = me.loose /\ new.req = me.req
                BY <1>1, <3>1, <3>2, <3>3 DEF Reading
            <3>5. QED  BY <2>1, <3>4 DEF y
        <2> HIDE DEF new, me
        <2>5. WalkOK(new, IdsOf(items))
            BY <2>2, <2>3, <2>4 DEF WalkOK, PageOK, Passed
        <2>6. QED  BY <1>1, <2>1, <2>5, ReaderMoves
    <1>5. QED  BY <1>2, <1>3, <1>4

LEMMA MarkOK ==
    ASSUME IInv, NEW r \in Readers, Mark(r)
    PROVE  Kept
    <1> DEFINE me == reader[r]
               next == Neighbour(r, "next")
    <1>1. /\ me \in Reading /\ WalkOK(me, IdsOf(items)) /\ PageOK(me) /\ Sorted(items) /\ JobOK(job)
          /\ reader \in [Readers -> Reading]
        BY ReaderFacts
    <1>2. me.pc = "mark" /\ me.page = <<>> /\ UNCHANGED items /\ UNCHANGED job
        BY <1>1 DEF Mark, WalkOK
    <1>3. me.at \in Ids /\ (me.loose \/ me.at \in IdsOf(items))
        BY <1>2, ReaderFacts
    <1>4. \/ reader' = [reader EXCEPT ![r] = [me EXCEPT !.pc = "look"]]
          \/ next # 0 /\ reader' = [reader EXCEPT ![r] = [me EXCEPT !.at = next]]
        <2>1. reader' = [reader EXCEPT ![r] =
                   IF me.at <= me.req.before \/ next = 0
                   THEN [me EXCEPT !.pc = "look"] ELSE [me EXCEPT !.at = next]]
            BY DEF Mark
        <2> HIDE DEF me, next
        <2>2. QED  BY <2>1
    <1>5. WalkOK([me EXCEPT !.pc = "look"], IdsOf(items))
        <2> HIDE DEF me
        <2> DEFINE new == [me EXCEPT !.pc = "look"]
        <2>1. /\ new \in Reading /\ new.pc = "look" /\ new.at = me.at /\ new.page = <<>>
              /\ new.loose = me.loose
            BY <1>1, <1>2 DEF Reading
        <2> HIDE DEF new
        <2>2. WalkOK(new, IdsOf(items))
            BY <1>3, <2>1 DEF WalkOK, PageOK, Passed
        <2>3. QED  BY <2>2 DEF new
    <1>6. ASSUME next # 0  PROVE WalkOK([me EXCEPT !.at = next], IdsOf(items))
        <2>1. next \in IdsOf(items)
            BY <1>1, <1>3, <1>6, NeighbourFacts
        <2>2. next \in Ids /\ next \in 0..N
            BY <1>1, <2>1, ItemType, IdsAreNat
        <2> HIDE DEF me, next
        <2>3. QED  BY <1>1, <1>2, <2>1, <2>2 DEF WalkOK, Reading, PageOK, Passed
    <1> HIDE DEF me, next
    <1>7. QED  BY <1>1, <1>2, <1>4, <1>5, <1>6, ReaderMoves

\* A look at the element in hand that moves the program counter only.
LEMMA LookMoves ==
    ASSUME IInv, NEW r \in Readers, reader[r].pc = "look", UNCHANGED items, UNCHANGED job,
           NEW p \in {"return", "fail", "assign", "append"},
           p \in {"assign", "append"} => InRange(r),
           reader' = [reader EXCEPT ![r].pc = p]
    PROVE  Kept
    <1> DEFINE me == reader[r]
               new == [me EXCEPT !.pc = p]
    <1>1. /\ me \in Reading /\ WalkOK(me, IdsOf(items)) /\ PageOK(me) /\ JobOK(job)
          /\ me.at \in Ids /\ (me.loose \/ me.at \in IdsOf(items)) /\ Passed(me, me.at)
        BY ReaderFacts
    <1>2. reader' = [reader EXCEPT ![r] = new]
        OBVIOUS
    <1>3. p \in {"assign", "append"} => ~Before(me.at, me.req) /\ ~Beyond(me.at, me.req)
        BY DEF InRange
    <1> HIDE DEF me
    <1>4. /\ new \in Reading /\ new.pc = p /\ new.at = me.at /\ new.page = me.page
          /\ new.loose = me.loose /\ new.req = me.req
        BY <1>1 DEF Reading
    <1> HIDE DEF new
    <1>5. PageOK(new) /\ Passed(new, new.at)
        BY <1>1, <1>4 DEF PageOK, Passed
    <1>6. WalkOK(new, IdsOf(items))
        BY <1>1, <1>3, <1>4, <1>5 DEF WalkOK
    <1>7. QED  BY <1>1, <1>2, <1>6, ReaderMoves

\* A look at the element in hand.
LEMMA LookOK ==
    ASSUME IInv, NEW r \in Readers,
           \/ LookPasses(r) \/ LookEnds(r) \/ LookReady(r) \/ LookGone(r) \/ LookQueries(r) \/ LookFails(r)
    PROVE  Kept
    <1>1. /\ UNCHANGED items /\ UNCHANGED job /\ reader[r].pc = "look"
        BY DEF LookPasses, LookEnds, LookReady, LookGone, LookQueries, LookFails, Looking
    <1>2. JobOK(job') /\ reader[r] \in Reading /\ reader[r].at \in Ids /\ reader[r].drop \subseteq Ids
        BY <1>1, ReaderFacts DEF Reading
    <1>3. CASE LookPasses(r)
        <2>1. reader[r] = [reader[r] EXCEPT !.drop = reader[r].drop]
            BY <1>2 DEF Reading
        <2>2. WalkOK(Onward(r, reader[r]), IdsOf(items))
            BY <1>1, <1>2, <2>1, OnwardSame
        <2>3. reader' = [reader EXCEPT ![r] = Onward(r, reader[r])]
            BY <1>3 DEF LookPasses
        <2>4. QED  BY <1>1, <1>2, <2>2, <2>3, ReaderMoves
    <1>4. CASE LookGone(r)
        <2> DEFINE D == IF reader[r].loose THEN reader[r].drop ELSE reader[r].drop \cup {reader[r].at}
                   rec == [reader[r] EXCEPT !.drop = D]
        <2>1. D \subseteq Ids
            BY <1>2
        <2>2. reader' = [reader EXCEPT ![r] = Onward(r, rec)]
            <3>1. rec = [reader[r] EXCEPT !.drop = IF reader[r].loose THEN @ ELSE @ \cup {reader[r].at}]
                BY <1>2 DEF Reading
            <3> HIDE DEF rec, D
            <3>2. QED  BY <1>4, <3>1, Zenon DEF LookGone
        <2> HIDE DEF D
        <2>3. WalkOK(Onward(r, rec), IdsOf(items))
            BY <1>1, <2>1, OnwardSame
        <2> HIDE DEF rec
        <2>4. QED  BY <1>1, <1>2, <2>2, <2>3, ReaderMoves
    <1>5. CASE LookEnds(r) \/ LookFails(r)
        <2>1. PICK p \in {"return", "fail"} : reader' = [reader EXCEPT ![r].pc = p]
            BY <1>5 DEF LookEnds, LookFails
        <2>2. QED  BY <1>1, <2>1, LookMoves
    <1>6. CASE LookReady(r) \/ LookQueries(r)
        <2>1. PICK p \in {"assign", "append"} : reader' = [reader EXCEPT ![r].pc = p]
            BY <1>6 DEF LookReady, LookQueries
        <2>2. InRange(r)
            BY <1>6 DEF LookReady, LookQueries
        <2>3. QED  BY <1>1, <2>1, <2>2, LookMoves
    <1>7. QED  BY <1>3, <1>4, <1>5, <1>6

\* The prepared form is stored.
LEMMA AssignOK ==
    ASSUME IInv, NEW r \in Readers, Assign(r)
    PROVE  Kept
    <1> DEFINE me == reader[r]
               b == [i \in DOMAIN items |->
                        items[i].prepared \/ (~me.loose /\ items[i].id = me.at)]
               new == [me EXCEPT !.pc = "append", !.kept = me.kept \/ me.loose]
    <1>1. me.pc = "assign" /\ UNCHANGED job
        BY DEF Assign
    <1>2. /\ me \in Reading /\ WalkOK(me, IdsOf(items)) /\ PageOK(me) /\ JobOK(job) /\ Sorted(items)
          /\ me.at \in Ids /\ (me.loose \/ me.at \in IdsOf(items)) /\ Passed(me, me.at)
          /\ reader \in [Readers -> Reading]
        BY <1>1, ReaderFacts
    <1>3. reader' = [reader EXCEPT ![r] = new]
        BY <1>2 DEF Assign
    <1>4. ~Before(me.at, me.req) /\ ~Beyond(me.at, me.req)
        BY <1>1, <1>2 DEF WalkOK
    <1>5. items' = [i \in DOMAIN items |-> [items[i] EXCEPT !.prepared = b[i]]]
        BY <1>2, ItemType DEF Assign, Entries
    <1>6. \A i \in DOMAIN items : b[i] \in BOOLEAN
        OBVIOUS
    <1> HIDE DEF b
    <1>7. Sorted(items') /\ IdsOf(items') = IdsOf(items) /\ (Single(items) => Single(items'))
        BY <1>2, <1>5, <1>6, MarkedList
    <1> HIDE DEF me
    <1>8. /\ new \in Reading /\ new.pc = "append" /\ new.at = me.at /\ new.page = me.page
          /\ new.loose = me.loose /\ new.req = me.req
        BY <1>2 DEF Reading
    <1> HIDE DEF new
    <1>9. PageOK(new) /\ Passed(new, new.at)
        BY <1>2, <1>8 DEF PageOK, Passed
    <1>10. WalkOK(new, IdsOf(items))
        BY <1>2, <1>4, <1>8, <1>9 DEF WalkOK
    <1>11. ReadersOK(reader', IdsOf(items'))
        BY <1>2, <1>3, <1>7, <1>8, <1>10 DEF IInv, ReadersOK
    <1>12. QED  BY <1>1, <1>2, <1>7, <1>11 DEF IInv, Kept

LEMMA AppendItemOK ==
    ASSUME IInv, NEW r \in Readers, AppendItem(r)
    PROVE  Kept
    <1> DEFINE y == IF PreparedNow(r) THEN reader[r].at ELSE 0
    <1>1. /\ reader[r].pc = "append" /\ UNCHANGED items /\ UNCHANGED job
          /\ reader' = [reader EXCEPT ![r] = Onward(r, [reader[r] EXCEPT !.page = Append(@, y)])]
        BY Zenon DEF AppendItem
    <1>2. y \in {0, reader[r].at}
        OBVIOUS
    <1> HIDE DEF y
    <1>3. WalkOK(Onward(r, [reader[r] EXCEPT !.page = Append(@, y)]), IdsOf(items))
        BY <1>1, <1>2, OnwardAppends
    <1>4. JobOK(job')
        BY <1>1, ReaderFacts
    <1>5. QED  BY <1>1, <1>3, <1>4, ReaderMoves

\* Get returns, and the entries it found deleted leave the list.
LEMMA ReturnOK ==
    ASSUME IInv, NEW r \in Readers, Return(r)
    PROVE  Kept
    <1> DEFINE rd == [reader EXCEPT ![r] = Idle]
    <1>1. RemoveItems(rd, reader[r].drop) /\ UNCHANGED job
        BY DEF Return
    <1>2. ReadersOK(rd, IdsOf(items))
        BY IdleType DEF IInv, ReadersOK
    <1> HIDE DEF rd
    <1>3. QED  BY <1>1, <1>2, RemoveOK

-----------------------------------------------------------------------------
(***************************************************************************)
(* Workers, the hourly job, and the theorems                               *)
(***************************************************************************)
\* An insertion under the lock.
LEMMA InsertionOK ==
    ASSUME IInv, InsertGrabbed
    PROVE  Kept
    <1>1. JobOK(job') /\ UNCHANGED reader /\ Sorted(items)
        BY InsertGrabbedOK DEF IInv, InsertGrabbed
    <1>2. PICK x \in Ids : items' = InsertIndexed(items, x)
        BY InsertGrabbedOK DEF IInv
    <1>3. /\ Sorted(items') /\ IdsOf(items) \subseteq IdsOf(items')
          /\ Single(items) /\ DepthCovers => Single(items')
        BY <1>1, <1>2, InsertIndexedFacts
    <1>4. QED  BY <1>1, <1>3, ListMoves

LEMMA IngestOK ==
    ASSUME IInv, NEW x \in Ids, Ingest(x)
    PROVE  Kept
    <1> DEFINE new == InsertIndexed(items, x)
               ready == new # items /\ row[x] = "there" /\ x \notin Muted
               marked == [i \in DOMAIN new |-> [new[i] EXCEPT !.prepared = @ \/ (ready /\ new[i].id = x)]]
    <1>1. UNCHANGED reader /\ JobOK(job') /\ Sorted(items)
        BY DEF Ingest, IInv
    <1>2. items' = marked \/ items' = new
        BY DEF Ingest
    <1>3. /\ Sorted(new) /\ IdsOf(items) \subseteq IdsOf(new)
          /\ Single(items) /\ DepthCovers => Single(new)
        BY <1>1, InsertIndexedFacts
    <1>4. ready \in BOOLEAN
        OBVIOUS
    <1> HIDE DEF new, ready
    <1>5. new \in Seq(Entries) /\ Len(new) \in Nat /\ DOMAIN new = 1..Len(new)
        BY <1>3, LenProperties DEF Sorted
    <1>6. \A i \in DOMAIN new : new[i] \in Entries
        BY <1>5, ElementOfSeq
    <1>7. DOMAIN marked = DOMAIN new /\ \A i \in DOMAIN new : marked[i] \in Entries /\ marked[i].id = new[i].id
        BY <1>6 DEF Entries
    <1> HIDE DEF marked
    <1>8. marked \in Seq(Entries)
        <2>1. marked = [i \in 1..Len(new) |-> marked[i]]
            BY <1>5 DEF marked
        <2>2. QED  BY <1>5, <1>7, <2>1
    <1>9. Sorted(marked) /\ IdsOf(marked) = IdsOf(new) /\ (Single(new) => Single(marked))
        BY <1>3, <1>7, <1>8, MarksFacts
    <1>10. QED  BY <1>1, <1>2, <1>3, <1>9, ListMoves

LEMMA UnprepareOK ==
    ASSUME IInv, NEW x \in Ids, Unprepare(x)
    PROVE  Kept
    <1> DEFINE S == {y \in Ids : y = x \/ BoostOf[y] = x}
               b == [i \in DOMAIN items |-> items[i].prepared /\ items[i].id \notin S]
    <1>1. UNCHANGED reader /\ JobOK(job') /\ Sorted(items)
        BY DEF Unprepare, IInv
    <1>2. Unprepared(S)
        BY DEF Unprepare
    <1> HIDE DEF S
    <1>3. items' = [i \in DOMAIN items |-> [items[i] EXCEPT !.prepared = b[i]]]
        BY <1>1, <1>2, ItemType DEF Unprepared, Entries
    <1>4. \A i \in DOMAIN items : b[i] \in BOOLEAN
        OBVIOUS
    <1> HIDE DEF b
    <1>5. Sorted(items') /\ IdsOf(items') = IdsOf(items) /\ (Single(items) => Single(items'))
        BY <1>1, <1>3, <1>4, MarkedList
    <1>6. QED  BY <1>1, <1>5, ListMoves

\* The end of the list is cut off, and nobody holds an element of it.
LEMMA PruneOK ==
    ASSUME IInv, Prune
    PROVE  Kept
    <1> DEFINE n == IF Len(items) < IndexedLen THEN Len(items) ELSE IndexedLen
    <1>1. UNCHANGED reader /\ JobOK(job') /\ Sorted(items) /\ \A r \in Readers : reader[r].pc = "idle"
        BY DEF Prune, IInv
    <1>2. items' = [i \in 1..n |-> [items[i] EXCEPT !.prepared = @ /\ i <= PreparedLen]]
        BY DEF Prune
    <1>3. Len(items) \in Nat /\ DOMAIN items = 1..Len(items)
        BY <1>1, LenProperties DEF Sorted
    <1>4. n \in Nat /\ 1..n \subseteq DOMAIN items
        BY <1>3, TimelineAssumption
    <1> HIDE DEF n
    <1>5. \A i \in 1..n : items[i] \in Entries /\ i \in DOMAIN items
        BY <1>1, <1>4, ItemType
    <1>6. \A i \in 1..n : items'[i] \in Entries /\ items'[i].id = items[i].id
        BY <1>2, <1>5 DEF Entries
    <1>7. DOMAIN items' = 1..n /\ items' \in Seq(Entries)
        BY <1>2, <1>4, <1>6
    <1>8. Sorted(items') /\ (Single(items) => Single(items'))
        BY <1>1, <1>4, <1>5, <1>6, <1>7 DEF Sorted, Single
    <1>9. ReadersOK(reader', IdsOf(items'))
        BY <1>1 DEF IInv, ReadersOK, WalkOK
    <1>10. QED  BY <1>1, <1>8, <1>9 DEF IInv, Kept

LEMMA InitOK == Init => IInv /\ Single(items)
    <1> SUFFICES ASSUME Init  PROVE IInv /\ Single(items)
        OBVIOUS
    <1>1. items = <<>> /\ job = NoJob /\ reader = [r \in Readers |-> Idle]
        BY DEF Init
    <1>2. Sorted(items) /\ Single(items)
        BY <1>1 DEF Sorted, Single
    <1>3. ReadersOK(reader, IdsOf(items))
        BY <1>1, IdleType DEF ReadersOK
    <1>4. QED  BY <1>1, <1>2, <1>3, NoJobOK DEF IInv

LEMMA StepKeeps == IInv /\ [Next]_vars => Kept
    <1> SUFFICES ASSUME IInv, [Next]_vars  PROVE Kept
        OBVIOUS
    <1>1. ASSUME UNCHANGED <<items, job, reader>>  PROVE Kept
        BY <1>1 DEF IInv, Kept
    <1>2. CASE UNCHANGED vars
        BY <1>1, <1>2 DEF vars
    <1>3. ASSUME NEW r \in Readers, Step(r)  PROVE Kept
        BY <1>3, GetBeginsOK, MarkOK, LookOK, AssignOK, AppendItemOK, ReturnOK DEF Step
    <1>4. ASSUME NEW r \in Readers, NEW req \in Request, Get(r, req)  PROVE Kept
        BY <1>4, GetOK
    <1>5. ASSUME NEW a \in ahead, AheadIndexes(a)  PROVE Kept
        <2>1. JobOK(job') /\ UNCHANGED reader /\ UNCHANGED items
            BY <1>5, IndexOK DEF AheadIndexes, IInv
        <2>2. QED  BY <2>1 DEF IInv, Kept
    <1>6. ASSUME NEW a \in ahead, AheadPrepares(a)  PROVE Kept
        BY <1>6, PrepareOK DEF AheadPrepares, IInv
    <1>7. ASSUME NEW x \in Ids, Post(x) \/ WipeStatus(x)  PROVE Kept
        BY <1>1, <1>7 DEF Post, WipeStatus
    <1>8. ASSUME NEW x \in Ids, Ingest(x)  PROVE Kept
        BY <1>8, IngestOK
    <1>9. ASSUME NEW x \in Ids, Unprepare(x)  PROVE Kept
        BY <1>9, UnprepareOK
    <1>10. ASSUME NEW a \in Accounts, RemoveAllByOrBoosting(a)  PROVE Kept
        BY <1>10, RemoveOK DEF RemoveAllByOrBoosting, IInv
    <1>11. CASE WipeFromTimeline
        BY <1>11, RemoveOK DEF WipeFromTimeline, IInv
    <1>12. CASE WipeRow
        BY <1>1, <1>12 DEF WipeRow
    <1>13. CASE GrabQuery
        <2>1. JobOK(job') /\ UNCHANGED reader /\ UNCHANGED items
            BY <1>13, GrabOK DEF GrabQuery, IInv
        <2>2. QED  BY <2>1 DEF IInv, Kept
    <1>14. CASE GrabFails
        <2>1. JobOK(job') /\ UNCHANGED reader /\ UNCHANGED items
            BY <1>14, NoJobOK DEF GrabFails
        <2>2. QED  BY <2>1 DEF IInv, Kept
    <1>15. CASE InsertGrabbed
        BY <1>15, InsertionOK
    <1>16. CASE Prune
        BY <1>16, PruneOK
    <1>17. QED
        BY <1>2, <1>3, <1>4, <1>5, <1>6, <1>7, <1>8, <1>9, <1>10, <1>11, <1>12, <1>13, <1>14, <1>15, <1>16
           DEF Next

LEMMA Invariance == Spec => []IInv
    <1>1. Init => IInv  BY InitOK
    <1>2. IInv /\ [Next]_vars => IInv'
        BY StepKeeps DEF Kept
    <1>3. QED  BY <1>1, <1>2, PTL DEF Spec

\* The index is in order of ids, newest first, and holds no status twice,
\* whoever inserts, removes and prunes.
THEOREM ListInOrder == Spec => []NewestFirst
    <1>1. IInv => NewestFirst
        BY DEF IInv, Sorted, NewestFirst
    <1>2. QED  BY <1>1, Invariance, PTL

\* Where the list is not deeper than SkipInsert looks, no status is boosted into
\* it twice.
THEOREM OneBoost ==
    ASSUME DepthCovers
    PROVE  Spec => []BoostedOnce
    <1>1. Init => IInv /\ BoostedOnce
        BY InitOK DEF Single, BoostedOnce
    <1>2. IInv /\ BoostedOnce /\ [Next]_vars => (IInv /\ BoostedOnce)'
        BY StepKeeps DEF Kept, Single, BoostedOnce
    <1>3. QED  BY <1>1, <1>2, PTL DEF Spec

\* Every page is in order, without repetitions and within its bounds, although
\* the list changes under the walk, which does not hold the lock.
THEOREM PagesInOrder == Spec => []PageInOrder
    <1>1. IInv => PageInOrder
        BY DEF IInv, ReadersOK, WalkOK, PageOK, PageInOrder
    <1>2. QED  BY <1>1, Invariance, PTL

=============================================================================
