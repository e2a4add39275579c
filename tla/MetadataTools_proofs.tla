------------------------- MODULE MetadataTools_proofs -------------------------
(***************************************************************************)
(* What a page is (oracle.fetch), for every finite set of rows that can be *)
(* sorted, and that the six queries of the tools select such rows from     *)
(* every dictionary.                                                       *)
(*                                                                         *)
(* The argument: ORDER BY puts a strict linear order on the rows, so that  *)
(* the rows before a row are fewer than those before a later one; the i-th *)
(* place is then held by exactly one row, and every row holds one.         *)
(***************************************************************************)
EXTENDS MetadataTools, FiniteSetTheorems, SequenceTheorems, TLAPS

(* Rows that ORDER BY sorts in one way, and that are told apart when read. *)
Orders(n) == [1..n -> Int]
Sortable(rows) ==
    /\ IsFiniteSet(rows)
    /\ \E n \in 1..3 : \A r \in rows : r.order \in Orders(n)
    /\ \A q, r \in rows : q.order = r.order \/ q.item = r.item => q = r

---------------------------------------------------------------------------
(* The order of rows                                                       *)

LEMMA SoonerIs ==
    ASSUME NEW n \in Nat, NEW s \in Orders(n), NEW t \in Orders(n)
    PROVE  Sooner(s, t) <=> \E i \in 1..n : s[i] < t[i] /\ \A j \in 1..(i - 1) : s[j] = t[j]
  BY DEF Orders, Sooner

LEMMA SoonerOrNot ==
    ASSUME NEW n \in Nat, NEW s \in Orders(n), NEW t \in Orders(n), Sooner(s, t)
    PROVE  ~Sooner(t, s) /\ s # t
<1>1. PICK i \in 1..n : s[i] < t[i] /\ \A j \in 1..(i - 1) : s[j] = t[j]
  BY SoonerIs
<1>2. s[i] \in Int /\ t[i] \in Int
  BY DEF Orders
<1>3. ASSUME Sooner(t, s) PROVE FALSE
  <2>1. PICK k \in 1..n : t[k] < s[k] /\ \A j \in 1..(k - 1) : t[j] = s[j]
    BY <1>3, SoonerIs
  <2>2. s[k] \in Int /\ t[k] \in Int
    BY DEF Orders
  <2>3. CASE i < k
    BY <1>1, <1>2, <2>1, <2>3
  <2>4. CASE k < i
    BY <1>1, <2>1, <2>2, <2>4
  <2>5. CASE i = k
    BY <1>1, <1>2, <2>1, <2>5
  <2> QED BY <2>3, <2>4, <2>5
<1>4. s # t
  BY <1>1, <1>2
<1> QED BY <1>3, <1>4

LEMMA SoonerThanSooner ==
    ASSUME NEW n \in Nat, NEW s \in Orders(n), NEW t \in Orders(n), NEW u \in Orders(n),
           Sooner(s, t), Sooner(t, u)
    PROVE  Sooner(s, u)
<1>1. PICK i \in 1..n : s[i] < t[i] /\ \A j \in 1..(i - 1) : s[j] = t[j]
  BY SoonerIs
<1>2. PICK k \in 1..n : t[k] < u[k] /\ \A j \in 1..(k - 1) : t[j] = u[j]
  BY SoonerIs
<1>3. \A m \in 1..n : s[m] \in Int /\ t[m] \in Int /\ u[m] \in Int
  BY DEF Orders
<1>4. CASE i < k
  <2>1. s[i] < u[i] /\ \A j \in 1..(i - 1) : s[j] = u[j]
    BY <1>1, <1>2, <1>3, <1>4
  <2> QED BY <2>1, SoonerIs
<1>5. CASE k <= i
  <2>1. s[k] < u[k]
    BY <1>1, <1>2, <1>3, <1>5
  <2>2. \A j \in 1..(k - 1) : s[j] = u[j]
    BY <1>1, <1>2, <1>5
  <2> QED BY <2>1, <2>2, SoonerIs
<1> QED BY <1>4, <1>5

LEMMA OneIsSooner ==
    ASSUME NEW n \in 1..3, NEW s \in Orders(n), NEW t \in Orders(n), s # t
    PROVE  Sooner(s, t) \/ Sooner(t, s)
<1>1. \A m \in 1..n : s[m] \in Int /\ t[m] \in Int
  BY DEF Orders
<1>2. PICK k \in 1..n : s[k] # t[k] /\ \A j \in 1..(k - 1) : s[j] = t[j]
  <2>1. \E m \in 1..n : s[m] # t[m]
    BY DEF Orders
  <2>2. n \in {1, 2, 3}
    OBVIOUS
  <2> QED BY <2>1, <2>2
<1>3. s[k] < t[k] \/ t[k] < s[k]
  BY <1>1, <1>2
<1> QED BY <1>2, <1>3, SoonerIs

---------------------------------------------------------------------------
(* The places of the rows                                                  *)

Earlier(r, rows) == {q \in rows : Sooner(q.order, r.order)}

LEMMA EarlierIsFinite ==
    ASSUME NEW rows, Sortable(rows), NEW r \in rows
    PROVE  /\ IsFiniteSet(Earlier(r, rows)) /\ r \notin Earlier(r, rows)
           /\ Before(r, rows) = Cardinality(Earlier(r, rows))
           /\ Before(r, rows) \in Nat /\ Before(r, rows) < Cardinality(rows)
<1>1. PICK n \in 1..3 : \A q \in rows : q.order \in Orders(n)
  BY DEF Sortable
<1>2. r \notin Earlier(r, rows)
  <2>1. n \in Nat /\ r.order \in Orders(n)
    BY <1>1
  <2> QED BY <2>1, SoonerOrNot DEF Earlier
<1>3. Earlier(r, rows) \in SUBSET rows /\ IsFiniteSet(rows)
  BY DEF Earlier, Sortable
<1>4. IsFiniteSet(Earlier(r, rows)) /\ Cardinality(Earlier(r, rows)) \in Nat
  BY <1>3, FS_Subset, FS_CardinalityType
<1>5. Cardinality(Earlier(r, rows)) <= Cardinality(rows) /\ Cardinality(rows) \in Nat
  BY <1>3, FS_Subset, FS_CardinalityType
<1>6. Cardinality(Earlier(r, rows)) # Cardinality(rows)
  BY <1>2, <1>3, FS_Subset
<1> QED BY <1>2, <1>4, <1>5, <1>6 DEF Before, Earlier

(* A row that comes later has more rows before it.                         *)
LEMMA LaterIsFurther ==
    ASSUME NEW rows, Sortable(rows), NEW q \in rows, NEW r \in rows, Sooner(q.order, r.order)
    PROVE  Before(q, rows) < Before(r, rows)
<1>1. PICK n \in 1..3 : \A t \in rows : t.order \in Orders(n)
  BY DEF Sortable
<1>2. n \in Nat
  OBVIOUS
<1>3. ASSUME NEW t \in Earlier(q, rows) PROVE t \in Earlier(r, rows)
  BY <1>1, <1>2, SoonerThanSooner DEF Earlier
<1>4. Earlier(q, rows) \in SUBSET Earlier(r, rows)
  BY <1>3
<1>5. q \in Earlier(r, rows) /\ q \notin Earlier(q, rows)
  BY EarlierIsFinite DEF Earlier
<1>6. Cardinality(Earlier(q, rows)) <= Cardinality(Earlier(r, rows))
      /\ Cardinality(Earlier(q, rows)) # Cardinality(Earlier(r, rows))
  BY <1>4, <1>5, EarlierIsFinite, FS_Subset
<1> QED BY <1>6, EarlierIsFinite

LEMMA NoTwoAlike ==
    ASSUME NEW rows, Sortable(rows), NEW q \in rows, NEW r \in rows,
           Before(q, rows) = Before(r, rows)
    PROVE  q = r
<1> SUFFICES ASSUME q # r PROVE FALSE
  OBVIOUS
<1>1. PICK n \in 1..3 : \A t \in rows : t.order \in Orders(n)
  BY DEF Sortable
<1>2. q.order # r.order
  BY DEF Sortable
<1>3. Sooner(q.order, r.order) \/ Sooner(r.order, q.order)
  BY <1>1, <1>2, OneIsSooner
<1>4. Before(q, rows) \in Nat /\ Before(r, rows) \in Nat
  BY EarlierIsFinite
<1> QED BY <1>3, <1>4, LaterIsFurther

(* The rows up to a row are those before it, and the row.                  *)
LEMMA UpToIsNext ==
    ASSUME NEW rows, Sortable(rows), NEW r \in rows
    PROVE  UpTo(r, rows) = Before(r, rows) + 1
<1>1. PICK n \in 1..3 : \A t \in rows : t.order \in Orders(n)
  BY DEF Sortable
<1>2. n \in Nat
  OBVIOUS
<1>3. ASSUME NEW q \in rows
      PROVE  ~Sooner(r.order, q.order) <=> q = r \/ Sooner(q.order, r.order)
  <2>1. q.order \in Orders(n) /\ r.order \in Orders(n)
    BY <1>1
  <2>2. q # r => q.order # r.order
    BY DEF Sortable
  <2> QED BY <1>2, <2>1, <2>2, OneIsSooner, SoonerOrNot
<1>4. {q \in rows : ~Sooner(r.order, q.order)} = Earlier(r, rows) \cup {r}
  BY <1>3 DEF Earlier
<1>5. Cardinality(Earlier(r, rows) \cup {r}) = Cardinality(Earlier(r, rows)) + 1
  BY EarlierIsFinite, FS_AddElement
<1> QED BY <1>4, <1>5, EarlierIsFinite DEF UpTo

(* Every place up to the number of rows is held: what is not is too few    *)
(* numbers for the rows to have one each.                                  *)
LEMMA EveryPlaceIsHeld ==
    ASSUME NEW rows, Sortable(rows), NEW i \in 1..Cardinality(rows)
    PROVE  \E r \in rows : Before(r, rows) = i - 1
<1> DEFINE n == Cardinality(rows)
           place == [r \in rows |-> Before(r, rows)]
<1>1. IsFiniteSet(rows) /\ n \in Nat
  BY FS_CardinalityType DEF Sortable
<1>2. \A r \in rows : Before(r, rows) \in 0..(n - 1)
  BY <1>1, EarlierIsFinite
<1>3. IsFiniteSet(0..(n - 1)) /\ Cardinality(0..(n - 1)) = n
  <2>1. 0 \in Int /\ n - 1 \in Int
    BY <1>1
  <2>2. IsFiniteSet(0..(n - 1))
        /\ Cardinality(0..(n - 1)) = IF 0 > n - 1 THEN 0 ELSE (n - 1) - 0 + 1
    BY <2>1, FS_Interval
  <2> QED BY <1>1, <2>2
<1>4. place \in Injection(rows, 0..(n - 1))
  <2>1. place \in [rows -> 0..(n - 1)]
    BY <1>2
  <2>2. \A q, r \in rows : place[q] = place[r] => q = r
    BY NoTwoAlike
  <2> QED BY <2>1, <2>2 DEF Injection, IsInjective
<1>5. place \in Surjection(rows, 0..(n - 1))
  BY <1>1, <1>3, <1>4, FS_Injection
<1>6. i - 1 \in 0..(n - 1)
  BY <1>1
<1> QED BY <1>5, <1>6 DEF Surjection

LEMMA RowsArePlaced ==
    ASSUME NEW rows, Sortable(rows)
    PROVE  /\ \A i \in 1..Cardinality(rows) : /\ RowAt(i, rows) \in rows
                                              /\ Before(RowAt(i, rows), rows) = i - 1
           /\ \A r \in rows : \E i \in 1..Cardinality(rows) : RowAt(i, rows) = r
<1>1. ASSUME NEW i \in 1..Cardinality(rows), NEW r \in rows
      PROVE  (Before(r, rows) < i /\ i <= UpTo(r, rows)) <=> Before(r, rows) = i - 1
  BY UpToIsNext, EarlierIsFinite
<1>2. ASSUME NEW i \in 1..Cardinality(rows)
      PROVE  RowAt(i, rows) \in rows /\ Before(RowAt(i, rows), rows) = i - 1
  <2>1. \E r \in rows : Before(r, rows) < i /\ i <= UpTo(r, rows)
    BY <1>1, EveryPlaceIsHeld
  <2>2. RowAt(i, rows) \in rows
        /\ Before(RowAt(i, rows), rows) < i /\ i <= UpTo(RowAt(i, rows), rows)
    BY <2>1 DEF RowAt
  <2> QED BY <1>1, <2>2
<1>3. ASSUME NEW r \in rows
      PROVE  \E i \in 1..Cardinality(rows) : RowAt(i, rows) = r
  <2>1. Before(r, rows) \in Nat /\ Before(r, rows) < Cardinality(rows) /\ Cardinality(rows) \in Nat
    BY EarlierIsFinite, FS_CardinalityType DEF Sortable
  <2>2. PICK i \in 1..Cardinality(rows) : i - 1 = Before(r, rows)
    <3>1. Before(r, rows) + 1 \in 1..Cardinality(rows)
          /\ (Before(r, rows) + 1) - 1 = Before(r, rows)
      BY <2>1
    <3> QED BY <3>1
  <2>3. RowAt(i, rows) \in rows /\ Before(RowAt(i, rows), rows) = Before(r, rows)
    BY <1>2, <2>2
  <2> QED BY <2>3, NoTwoAlike
<1> QED BY <1>2, <1>3

---------------------------------------------------------------------------
(* The page                                                                *)

ItemsOf(rows) == {r.item : r \in rows}

(* Ordered holds the item of every row in a place of its own.              *)
LEMMA OrderedIs ==
    ASSUME NEW rows, Sortable(rows)
    PROVE  /\ Ordered(rows) \in Seq(ItemsOf(rows)) /\ Len(Ordered(rows)) = Cardinality(rows)
           /\ \A i, j \in 1..Cardinality(rows) : Ordered(rows)[i] = Ordered(rows)[j] => i = j
           /\ \A x \in ItemsOf(rows) : \E i \in 1..Cardinality(rows) : Ordered(rows)[i] = x
<1> DEFINE n == Cardinality(rows)
<1>1. n \in Nat
  BY FS_CardinalityType DEF Sortable
<1>2. \A i \in 1..n : Ordered(rows)[i] = RowAt(i, rows).item /\ RowAt(i, rows) \in rows
  BY RowsArePlaced DEF Ordered
<1>3. Ordered(rows) \in [1..n -> ItemsOf(rows)]
  BY RowsArePlaced DEF Ordered, ItemsOf
<1>4. Ordered(rows) \in Seq(ItemsOf(rows)) /\ Len(Ordered(rows)) = n
  BY <1>1, <1>3
<1>5. ASSUME NEW i \in 1..n, NEW j \in 1..n, Ordered(rows)[i] = Ordered(rows)[j]
      PROVE  i = j
  <2>1. RowAt(i, rows) = RowAt(j, rows)
    BY <1>2, <1>5 DEF Sortable
  <2>2. i - 1 = j - 1
    BY <2>1, RowsArePlaced
  <2> QED BY <1>1, <2>2
<1>6. ASSUME NEW x \in ItemsOf(rows) PROVE \E i \in 1..n : Ordered(rows)[i] = x
  <2>1. PICK r \in rows : x = r.item
    BY DEF ItemsOf
  <2>2. PICK i \in 1..n : RowAt(i, rows) = r
    BY RowsArePlaced
  <2> QED BY <1>2, <2>1, <2>2
<1> QED BY <1>4, <1>5, <1>6

(* A cursor that is asked for k rows has the first k, or all there are.    *)
LEMMA FetchManyIs ==
    ASSUME NEW S, NEW s \in Seq(S), NEW k \in Nat
    PROVE  /\ FetchMany(s, k) \in Seq(S)
           /\ Len(FetchMany(s, k)) = IF k < Len(s) THEN k ELSE Len(s)
           /\ \A i \in 1..Len(FetchMany(s, k)) : i \in 1..Len(s) /\ FetchMany(s, k)[i] = s[i]
<1> DEFINE m == IF k < Len(s) THEN k ELSE Len(s)
<1>1. Len(s) \in Nat /\ \A i \in 1..Len(s) : s[i] \in S
  BY LenProperties, ElementOfSeq
<1>2. m \in Nat /\ m <= Len(s)
  BY <1>1
<1>3. \A i \in 1..m : s[i] \in S
  BY <1>1, <1>2
<1> HIDE DEF m
<1>4. /\ SubSeq(s, 1, m) \in Seq(S)
      /\ Len(SubSeq(s, 1, m)) = IF 1 <= m THEN m - 1 + 1 ELSE 0
      /\ \A i \in 1..(m - 1 + 1) : SubSeq(s, 1, m)[i] = s[1 + i - 1]
  <2>1. 1 \in Int /\ m \in Int
    BY <1>2
  <2> QED BY <1>3, <2>1, SubSeqProperties
<1>5. Len(SubSeq(s, 1, m)) = m
  BY <1>2, <1>4
<1>6. \A i \in 1..m : i \in 1..Len(s) /\ SubSeq(s, 1, m)[i] = s[i]
  BY <1>1, <1>2, <1>4
<1>7. FetchMany(s, k) = SubSeq(s, 1, m)
  BY DEF FetchMany, m
<1> QED BY <1>4, <1>5, <1>6, <1>7 DEF m

(* How many different members a sequence without repetition has.           *)
Members(s) == {s[i] : i \in DOMAIN s}

LEMMA MembersCount ==
    ASSUME NEW S, NEW s \in Seq(S), \A i, j \in 1..Len(s) : s[i] = s[j] => i = j
    PROVE  IsFiniteSet(Members(s)) /\ Cardinality(Members(s)) = Len(s)
<1>1. Len(s) \in Nat /\ DOMAIN s = 1..Len(s) /\ s \in [1..Len(s) -> S]
  BY LenProperties
<1>2. s \in Bijection(1..Len(s), Members(s))
  <2>1. s \in [1..Len(s) -> Members(s)]
    BY <1>1 DEF Members
  <2>2. s \in Surjection(1..Len(s), Members(s))
    BY <1>1, <2>1 DEF Surjection, Members
  <2>3. s \in Injection(1..Len(s), Members(s))
    BY <1>1, <2>1 DEF Injection, IsInjective
  <2> QED BY <2>2, <2>3 DEF Bijection
<1>3. ExistsBijection(1..Len(s), Members(s))
  BY <1>2 DEF ExistsBijection
<1>4. IsFiniteSet(1..Len(s)) /\ Cardinality(1..Len(s)) = Len(s)
  <2>1. 1 \in Int /\ Len(s) \in Int
    BY <1>1
  <2>2. IsFiniteSet(1..Len(s))
        /\ Cardinality(1..Len(s)) = IF 1 > Len(s) THEN 0 ELSE Len(s) - 1 + 1
    BY <2>1, FS_Interval
  <2> QED BY <1>1, <2>2
<1> QED BY <1>3, <1>4, FS_Bijection

(* A page has no more items than asked for, none twice; it has all there   *)
(* are unless truncated, and is full if truncated.                         *)
THEOREM PageIs ==
    ASSUME NEW rows, Sortable(rows), NEW limit \in Nat, NEW p, p = Page(rows, limit)
    PROVE  /\ Len(p.items) \in Nat /\ Len(p.items) <= limit
           /\ Members(p.items) \subseteq ItemsOf(rows)
           /\ Cardinality(Members(p.items)) = Len(p.items)
           /\ p.truncated <=> Members(p.items) # ItemsOf(rows)
           /\ p.truncated => Len(p.items) = limit
<1> DEFINE n == Cardinality(rows)
           all == Ordered(rows)
           fetched == FetchMany(all, limit + 1)
           page == FetchMany(fetched, limit)
<1>1. p.items = page /\ p.truncated = (Len(fetched) > limit)
  BY DEF Page
<1>2. /\ n \in Nat /\ all \in Seq(ItemsOf(rows)) /\ Len(all) = n
      /\ \A i, j \in 1..n : all[i] = all[j] => i = j
      /\ \A x \in ItemsOf(rows) : \E i \in 1..n : all[i] = x
  BY OrderedIs, FS_CardinalityType DEF Sortable
<1> HIDE DEF n, all
<1>3. /\ fetched \in Seq(ItemsOf(rows))
      /\ Len(fetched) = IF limit + 1 < n THEN limit + 1 ELSE n
      /\ \A i \in 1..Len(fetched) : i \in 1..n /\ fetched[i] = all[i]
  BY <1>2, FetchManyIs
<1> HIDE DEF fetched
<1>4. /\ page \in Seq(ItemsOf(rows))
      /\ Len(page) = IF limit < Len(fetched) THEN limit ELSE Len(fetched)
      /\ \A i \in 1..Len(page) : i \in 1..Len(fetched) /\ page[i] = fetched[i]
  BY <1>3, FetchManyIs
<1> HIDE DEF page
<1>5. /\ Len(page) = IF limit < n THEN limit ELSE n
      /\ p.truncated = (limit < n)
      /\ Len(page) \in Nat /\ Len(page) <= limit
  BY <1>1, <1>2, <1>3, <1>4
<1>6. \A i \in 1..Len(page) : i \in 1..n /\ page[i] = all[i]
  BY <1>3, <1>4
<1>7. \A i, j \in 1..Len(page) : page[i] = page[j] => i = j
  BY <1>2, <1>6
<1>8. Cardinality(Members(page)) = Len(page) /\ IsFiniteSet(Members(page))
  BY <1>4, <1>7, MembersCount
<1>9. DOMAIN page = 1..Len(page) /\ \A i \in 1..Len(page) : page[i] \in ItemsOf(rows)
  BY <1>4, LenProperties, ElementOfSeq
<1>10. Members(page) \subseteq ItemsOf(rows)
  BY <1>9 DEF Members
<1>11. ASSUME limit < n PROVE Members(page) # ItemsOf(rows)
  <2>1. n \in 1..n /\ \A i \in 1..Len(page) : i # n
    BY <1>2, <1>5, <1>11
  <2>2. \A i \in 1..Len(page) : page[i] # all[n]
    BY <1>2, <1>6, <2>1
  <2>3. all[n] \in ItemsOf(rows)
    BY <1>2, <2>1, ElementOfSeq
  <2> QED BY <1>9, <2>2, <2>3 DEF Members
<1>12. ASSUME ~(limit < n) PROVE Members(page) = ItemsOf(rows)
  <2>1. Len(page) = n
    BY <1>5, <1>12
  <2>2. \A x \in ItemsOf(rows) : \E i \in 1..Len(page) : page[i] = x
    BY <1>2, <1>6, <2>1
  <2> QED BY <1>9, <1>10, <2>2 DEF Members
<1>13. p.truncated <=> Members(page) # ItemsOf(rows)
  BY <1>5, <1>11, <1>12
<1>14. p.truncated => Len(page) = limit
  BY <1>5
<1> QED BY <1>1, <1>5, <1>8, <1>10, <1>13, <1>14

---------------------------------------------------------------------------
(* The keys of the rows                                                    *)

LEMMA RankIs ==
    ASSUME NEW s \in Identifiers, NEW t \in Identifiers
    PROVE  Rank(s) \in Int /\ (Rank(s) = Rank(t) => s = t)
<1>1. /\ s.word \in 0..MaxWord /\ t.word \in 0..MaxWord
      /\ s.case \in {"upper", "lower"} /\ t.case \in {"upper", "lower"}
      /\ s.padded = FALSE /\ t.padded = FALSE /\ s \in Strings /\ t \in Strings
  BY DEF Identifiers, Strings
<1>2. PICK w \in 0..MaxWord, v \in 0..MaxWord : w = s.word /\ v = t.word
  BY <1>1
<1>a. PICK a \in {0, 1000}, b \in {0, 1000} :
         /\ a = IF s.case = "lower" THEN 1000 ELSE 0
         /\ b = IF t.case = "lower" THEN 1000 ELSE 0
  OBVIOUS
<1>b. MaxWord + 1 = 1000
  BY DEF MaxWord
<1>c. Rank(s) = w + a /\ Rank(t) = v + b /\ w \in Int /\ v \in Int
  BY <1>2, <1>a, <1>b DEF Rank
<1>3. Rank(s) \in Int
  BY <1>c
<1>4. ASSUME Rank(s) = Rank(t) PROVE s.word = t.word /\ s.case = t.case
  <2>1. w + a = v + b
    BY <1>c, <1>4
  <2>2. w \in 0..999 /\ v \in 0..999
    BY DEF MaxWord
  <2>3. w = v /\ (s.case = "lower" <=> t.case = "lower")
    <3>1. w = v /\ a = b
      BY <2>1, <2>2
    <3> QED BY <1>a, <3>1
  <2> QED BY <1>1, <1>2, <2>3
<1>5. ASSUME s.word = t.word, s.case = t.case PROVE s = t
  BY <1>1, <1>5 DEF Strings
<1> QED BY <1>3, <1>4, <1>5

LEMMA OrdersOf ==
    ASSUME NEW a \in Int, NEW b \in Int, NEW c \in Int
    PROVE  <<a>> \in Orders(1) /\ <<a, b>> \in Orders(2) /\ <<a, b, c>> \in Orders(3)
  BY DEF Orders

LEMMA NamesOrder ==
    ASSUME NEW s \in Identifiers
    PROVE  /\ <<Rank(s)>> \in Orders(1)
           /\ \A i \in Int : <<Rank(s), i>> \in Orders(2)
           /\ \A t, u \in Identifiers : <<Rank(s), Rank(t), Rank(u)>> \in Orders(3)
  BY RankIs, OrdersOf

LEMMA ImageIsFinite ==
    ASSUME NEW S, IsFiniteSet(S), NEW f
    PROVE  IsFiniteSet({f[x] : x \in S})
<1> DEFINE T == {f[x] : x \in S}
           g == [x \in S |-> f[x]]
<1>1. g \in Surjection(S, T)
  BY DEF Surjection
<1> QED BY <1>1, FS_Surjection

LEMMA SortableImage ==
    ASSUME NEW S, IsFiniteSet(S), NEW n \in 1..3, NEW f, \A x \in S : f[x].order \in Orders(n),
           \A x, y \in S : f[x].order = f[y].order \/ f[x].item = f[y].item => f[x] = f[y]
    PROVE  Sortable({f[x] : x \in S}) /\ ItemsOf({f[x] : x \in S}) = {f[x].item : x \in S}
<1>1. IsFiniteSet({f[x] : x \in S})
  BY ImageIsFinite
<1>2. Sortable({f[x] : x \in S})
  BY <1>1 DEF Sortable
<1>3. ItemsOf({f[x] : x \in S}) = {f[x].item : x \in S}
  BY DEF ItemsOf
<1> QED BY <1>2, <1>3

LEMMA DictionaryIsFinite ==
    ASSUME NEW d, WellFormed(d)
    PROVE  /\ IsFiniteSet(AllTables(d)) /\ IsFiniteSet(AllTabColumns(d))
           /\ IsFiniteSet(AllConstraints(d))
<1>1. IsFiniteSet(d.objects) /\ IsFiniteSet(d.columns) /\ IsFiniteSet(d.constraints)
  BY DEF WellFormed
<1>2. /\ AllTables(d) \in SUBSET d.objects /\ AllTabColumns(d) \in SUBSET d.columns
      /\ AllConstraints(d) \in SUBSET d.constraints
  BY DEF AllTables, AllTabColumns, AllConstraints
<1> QED BY <1>1, <1>2, FS_Subset

---------------------------------------------------------------------------
(* The joins over constraints                                              *)

LEMMA ConstraintIs ==
    ASSUME NEW d, WellFormed(d), NEW c \in AllConstraints(d)
    PROVE  /\ c \in d.constraints /\ Sees(d, c.owner, c.table)
           /\ c.owner \in Identifiers /\ c.name \in Identifiers /\ c.table \in Identifiers
           /\ c.columns \in Seq(Identifiers)
           /\ Len(c.columns) \in Nat /\ DOMAIN c.columns = 1..Len(c.columns)
           /\ \A i, j \in DOMAIN c.columns : c.columns[i] = c.columns[j] => i = j
           /\ \A k \in d.constraints : k.owner = c.owner /\ k.name = c.name => k = c
<1>1. c \in d.constraints /\ Sees(d, c.owner, c.table)
  BY DEF AllConstraints
<1>2. {c.owner, c.table, c.name} \subseteq Identifiers /\ c.columns \in Seq(Identifiers)
      /\ \A i, j \in DOMAIN c.columns : c.columns[i] = c.columns[j] => i = j
  BY <1>1 DEF WellFormed
<1>3. \A k \in d.constraints : k.owner = c.owner /\ k.name = c.name => k = c
  BY <1>1 DEF WellFormed
<1>4. Len(c.columns) \in Nat /\ DOMAIN c.columns = 1..Len(c.columns)
  BY <1>2, LenProperties
<1> QED BY <1>1, <1>2, <1>3, <1>4

ConsColumn(c, i) ==
    [owner |-> c.owner, constraint |-> c.name, column |-> c.columns[i], position |-> i]

(* A constraint's rows of ALL_CONS_COLUMNS are its own columns.            *)
LEMMA ColumnsOfIs ==
    ASSUME NEW d, WellFormed(d), NEW c \in AllConstraints(d)
    PROVE  ColumnsOf(c, d) = {ConsColumn(c, i) : i \in DOMAIN c.columns}
<1>1. \A x : x \in AllConsColumns(d)
              <=> \E k \in AllConstraints(d) : \E i \in DOMAIN k.columns : x = ConsColumn(k, i)
  BY DEF AllConsColumns, ConsColumn
<1>2. ASSUME NEW x \in ColumnsOf(c, d)
      PROVE  x \in {ConsColumn(c, i) : i \in DOMAIN c.columns}
  <2>1. x \in AllConsColumns(d) /\ x.owner = c.owner /\ x.constraint = c.name
    BY DEF ColumnsOf
  <2>2. PICK k \in AllConstraints(d) : \E i \in DOMAIN k.columns : x = ConsColumn(k, i)
    BY <1>1, <2>1
  <2>3. k.owner = c.owner /\ k.name = c.name
    BY <2>1, <2>2 DEF ConsColumn
  <2>4. k = c
    BY <2>3, ConstraintIs
  <2> QED BY <2>2, <2>4
<1>3. ASSUME NEW i \in DOMAIN c.columns PROVE ConsColumn(c, i) \in ColumnsOf(c, d)
  <2>1. ConsColumn(c, i) \in AllConsColumns(d)
    BY <1>1
  <2>2. ConsColumn(c, i).owner = c.owner /\ ConsColumn(c, i).constraint = c.name
    BY DEF ConsColumn
  <2> QED BY <2>1, <2>2 DEF ColumnsOf
<1> QED BY <1>2, <1>3

Parent(c, d) ==
    CHOOSE k \in d.constraints : k.owner = c.r_owner /\ k.name = c.r_constraint_name

(* A foreign key joins the key it refers to, if that can be seen.          *)
LEMMA ReferredToIs ==
    ASSUME NEW d, WellFormed(d), NEW c \in AllConstraints(d), c.type = "R", NEW p, p = Parent(c, d)
    PROVE  /\ p \in d.constraints /\ Len(p.columns) = Len(c.columns)
           /\ ReferredTo(c, d) = {k \in {p} : Sees(d, k.owner, k.table)}
<1>1. PICK k \in d.constraints : /\ k.owner = c.r_owner /\ k.name = c.r_constraint_name
                                 /\ Len(k.columns) = Len(c.columns)
  BY ConstraintIs DEF WellFormed
<1>2. \A m \in d.constraints : m.owner = c.r_owner /\ m.name = c.r_constraint_name => m = k
  BY <1>1 DEF WellFormed
<1>3. p = k
  BY <1>1, <1>2 DEF Parent
<1>4. ReferredTo(c, d) = {m \in {k} : Sees(d, m.owner, m.table)}
  BY <1>1, <1>2 DEF ReferredTo, AllConstraints
<1> QED BY <1>1, <1>3, <1>4

(* And each of its columns the one in the same position.                   *)
LEMMA OppositeIs ==
    ASSUME NEW d, WellFormed(d), NEW c \in AllConstraints(d), NEW rc \in AllConstraints(d),
           Len(rc.columns) = Len(c.columns), NEW i \in DOMAIN c.columns
    PROVE  Opposite(ConsColumn(c, i), rc, d) = {ConsColumn(rc, i)}
<1>1. i \in DOMAIN rc.columns
  BY ConstraintIs
<1>2. \A j : ConsColumn(rc, j).position = j /\ ConsColumn(c, j).position = j
  BY DEF ConsColumn
<1>3. ColumnsOf(rc, d) = {ConsColumn(rc, j) : j \in DOMAIN rc.columns}
  BY ColumnsOfIs
<1> QED BY <1>1, <1>2, <1>3 DEF Opposite

(* The pairs of a constraint and a place in it, where every constraint has *)
(* finitely many places.                                                   *)
LEMMA PairsAreFinite ==
    ASSUME NEW S, IsFiniteSet(S), NEW places, \A c \in S : IsFiniteSet(places[c])
    PROVE  IsFiniteSet(UNION {{c} \X places[c] : c \in S})
<1> DEFINE f == [c \in S |-> {c} \X places[c]]
<1>1. \A c \in S : IsFiniteSet({c} \X places[c])
  BY FS_Singleton, FS_Product
<1>2. {f[c] : c \in S} = {{c} \X places[c] : c \in S}
  OBVIOUS
<1> HIDE DEF f
<1>3. IsFiniteSet({f[c] : c \in S})
  BY ImageIsFinite
<1>4. \A T \in {{c} \X places[c] : c \in S} : IsFiniteSet(T)
  BY <1>1
<1> QED BY <1>2, <1>3, <1>4, FS_UNION
=============================================================================
