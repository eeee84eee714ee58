--------------------------- MODULE Listing_proofs ---------------------------
(***************************************************************************)
(* What a walk over the pages of a growing table misses and shows twice,   *)
(* for any number of rows, any page size and any clock.                    *)
(*                                                                         *)
(* The argument is about places.  The place of a row is the number of      *)
(* matching rows listed before it; a page shows the rows whose places lie  *)
(* between its offset and the next (PageShows).  One row that begins to    *)
(* match moves at most one other across the offset, outwards, where it is  *)
(* shown again; one that ceases to match moves at most one across it       *)
(* inwards, where it is missed.                                            *)
(***************************************************************************)
EXTENDS Listing, FiniteSetTheorems, SequenceTheorems, TLAPS

\* The instants rows are listed by, in the direction of the endpoint.
Keys == [r \in Rows |->
    IF rows[r] = NULL THEN 0
    ELSE IF endpoint = "list_skills" THEN Horizon - rows[r].created_at
    ELSE rows[r].created_at]

Below(k, M, r) == {q \in M : k[q] < k[r]}
Rank(k, M, r)  == Cardinality(Below(k, M, r))

Listed   == Matching(rows)
Place(r) == Rank(Keys, Listed, r)

----------------------------------------------------------------------------
(* Ranks in a finite set.                                                  *)

(* A member's rank is below the number of members.                         *)
LEMMA RankBound ==
    ASSUME NEW M, IsFiniteSet(M), NEW k, NEW r \in M, k[r] \in Nat
    PROVE  /\ IsFiniteSet(Below(k, M, r))
           /\ Rank(k, M, r) \in Nat
           /\ Rank(k, M, r) < Cardinality(M)
<1>1. Below(k, M, r) \subseteq M /\ r \notin Below(k, M, r)
  BY DEF Below
<1>2. IsFiniteSet(Below(k, M, r)) /\ Rank(k, M, r) <= Cardinality(M)
  BY <1>1, FS_Subset DEF Rank
<1>3. Rank(k, M, r) # Cardinality(M)
  BY <1>1, FS_Subset DEF Rank
<1> QED
  BY <1>2, <1>3, FS_CardinalityType DEF Rank

(* Of two members, the one with the smaller key has the smaller rank.      *)
LEMMA RankOrder ==
    ASSUME NEW M, IsFiniteSet(M), NEW k, \A q \in M : k[q] \in Nat,
           NEW r \in M, NEW s \in M, k[r] < k[s]
    PROVE  Rank(k, M, r) < Rank(k, M, s)
<1>1. Below(k, M, r) \union {r} \subseteq Below(k, M, s) /\ r \notin Below(k, M, r)
  BY DEF Below
<1>2. /\ IsFiniteSet(Below(k, M, r)) /\ IsFiniteSet(Below(k, M, s))
      /\ Rank(k, M, r) \in Nat /\ Rank(k, M, s) \in Nat
  BY RankBound
<1>3. Cardinality(Below(k, M, r) \union {r}) = Rank(k, M, r) + 1
  BY <1>1, <1>2, FS_AddElement DEF Rank
<1>4. Cardinality(Below(k, M, r) \union {r}) <= Rank(k, M, s)
  BY <1>1, <1>2, FS_Subset DEF Rank
<1> QED
  BY <1>2, <1>3, <1>4

(* So members with different keys have different ranks.                    *)
LEMMA RankInjective ==
    ASSUME NEW M, IsFiniteSet(M), NEW k, \A q \in M : k[q] \in Nat,
           NEW r \in M, NEW s \in M, k[r] # k[s]
    PROVE  Rank(k, M, r) # Rank(k, M, s)
<1>1. /\ Rank(k, M, r) \in Nat /\ Rank(k, M, s) \in Nat
      /\ k[r] \in Nat /\ k[s] \in Nat
  BY RankBound
<1>2. CASE k[r] < k[s]
  BY <1>1, <1>2, RankOrder
<1>3. CASE k[s] < k[r]
  BY <1>1, <1>3, RankOrder
<1> QED
  BY <1>1, <1>2, <1>3

\* Members whose key no other member has.
Alone(k, M) == {r \in M : \A q \in M \ {r} : k[q] # k[r]}

(* At most Cardinality(M) - n of them have rank n or more.                 *)
LEMMA FewHighRanks ==
    ASSUME NEW M, IsFiniteSet(M), NEW k, \A q \in M : k[q] \in Nat,
           NEW D \in SUBSET Alone(k, M), NEW n \in Nat
    PROVE  LET E == {r \in D : Rank(k, M, r) >= n}
           IN  /\ IsFiniteSet(E)
               /\ E # {} => Cardinality(E) + n <= Cardinality(M)
<1> DEFINE E == {r \in D : Rank(k, M, r) >= n}
           c == Cardinality(M)
           f == [r \in E |-> Rank(k, M, r)]
<1>1. c \in Nat
  BY FS_CardinalityType
<1>2. \A r \in E : r \in M /\ Rank(k, M, r) \in n .. c - 1
  BY <1>1, RankBound DEF Alone
<1>3. f \in [E -> n .. c - 1]
  BY <1>2
<1>4. \A r, s \in E : r # s => f[r] # f[s]
  BY RankInjective DEF Alone
<1>5. f \in Injection(E, n .. c - 1)
  BY <1>3, <1>4 DEF Injection, IsInjective
<1>6. /\ IsFiniteSet(n .. c - 1)
      /\ Cardinality(n .. c - 1) = IF n > c - 1 THEN 0 ELSE c - n
  <2>1. n \in Int /\ c - 1 \in Int
    BY <1>1
  <2>2. /\ IsFiniteSet(n .. c - 1)
        /\ Cardinality(n .. c - 1) = IF n > c - 1 THEN 0 ELSE (c - 1) - n + 1
    BY <2>1, FS_Interval
  <2> QED
    BY <1>1, <2>2
<1>7. IsFiniteSet(E) /\ Cardinality(E) <= Cardinality(n .. c - 1)
  BY <1>5, <1>6, FS_Injection
<1>8. E # {} => n <= c - 1
  BY <1>1, <1>2
<1>9. Cardinality(E) \in Nat
  BY <1>7, FS_CardinalityType
<1>10. E # {} => Cardinality(E) + n <= c
  BY <1>1, <1>6, <1>7, <1>8, <1>9
<1> QED
  BY <1>7, <1>10

(* The rank of a member whose key no other has is its place in every       *)
(* sequence of the members that is sorted by the keys.                     *)
LEMMA RankIsIndex ==
    ASSUME NEW M, IsFiniteSet(M), NEW k, \A q \in M : k[q] \in Nat,
           NEW order \in [1 .. Cardinality(M) -> M],
           \A i, j \in 1 .. Cardinality(M) : i # j => order[i] # order[j],
           \A i, j \in 1 .. Cardinality(M) : i < j => ~(k[order[j]] < k[order[i]]),
           NEW i \in 1 .. Cardinality(M), order[i] \in Alone(k, M)
    PROVE  Rank(k, M, order[i]) = i - 1
<1> DEFINE n == Cardinality(M)
           r == order[i]
           f == [j \in 1 .. i - 1 |-> order[j]]
<1>1. n \in Nat /\ IsFiniteSet(1 .. n) /\ Cardinality(1 .. n) = n
  BY FS_CardinalityType, FS_Interval
<1>2. order \in Injection(1 .. n, M)
  BY DEF Injection, IsInjective
<1>3. order \in Surjection(1 .. n, M)
  BY <1>1, <1>2, FS_Injection
<1>4. \A j \in 1 .. i - 1 : j \in 1 .. n /\ order[j] \in Below(k, M, r)
  BY <1>1 DEF Below, Alone
<1>5. f \in Injection(1 .. i - 1, Below(k, M, r))
  BY <1>1, <1>4 DEF Injection, IsInjective
<1>6. ASSUME NEW q \in Below(k, M, r)
      PROVE  \E j \in 1 .. i - 1 : f[j] = q
  <2>1. PICK j \in 1 .. n : order[j] = q
    BY <1>3 DEF Surjection, Below
  <2>2. k[q] < k[r] /\ k[q] \in Nat /\ k[r] \in Nat
    BY DEF Below
  <2>3. ~(i <= j)
    BY <1>1, <2>1, <2>2
  <2> QED
    BY <1>1, <2>1, <2>3
<1>7. f \in Surjection(1 .. i - 1, Below(k, M, r))
  BY <1>5, <1>6 DEF Injection, Surjection
<1>8. IsFiniteSet(1 .. i - 1) /\ Cardinality(1 .. i - 1) = i - 1
  <2>1. 1 \in Int /\ i - 1 \in Int /\ i >= 1
    BY <1>1
  <2>2. /\ IsFiniteSet(1 .. i - 1)
        /\ Cardinality(1 .. i - 1) = IF 1 > i - 1 THEN 0 ELSE (i - 1) - 1 + 1
    BY <2>1, FS_Interval
  <2> QED
    BY <1>1, <2>2
<1> QED
  BY <1>5, <1>7, <1>8, FS_Surjection DEF Rank

----------------------------------------------------------------------------
(* The tables.                                                             *)

\* A set of rows is finite, and so is every part of it.
LEMMA Finite ==
    ASSUME NEW S \in SUBSET Rows
    PROVE  IsFiniteSet(S) /\ Cardinality(S) \in Nat
BY FS_Subset, FS_CardinalityType, ListingAssumption

LEMMA RowFacts ==
    ASSUME NEW table \in [Rows -> Row \union {NULL}]
    PROVE  /\ Matching(table) \in SUBSET Rows
           /\ IsFiniteSet(Matching(table)) /\ Cardinality(Matching(table)) \in Nat
           /\ \A r \in Rows : table[r] # NULL =>
                 /\ table[r] \in Row
                 /\ table[r].created_at \in 0 .. Horizon
                 /\ table[r].status \in SkillStatus
<1>1. Matching(table) \in SUBSET Rows
  BY DEF Matching
<1>2. \A r \in Rows : table[r] # NULL =>
          /\ table[r] \in Row
          /\ table[r].created_at \in 0 .. Horizon
          /\ table[r].status \in SkillStatus
  BY DEF Row
<1> QED
  BY <1>1, <1>2, Finite

(* The keys are the order: a row is before another if its key is smaller.  *)
LEMMA KeyFacts ==
    ASSUME TypeOK
    PROVE  /\ Keys \in [Rows -> Nat]
           /\ \A r, q \in Rows : rows[r] # NULL /\ rows[q] # NULL =>
                 /\ Before(rows, r, q) <=> Keys[r] < Keys[q]
                 /\ rows[r].created_at = rows[q].created_at <=> Keys[r] = Keys[q]
<1>1. \A r \in Rows : rows[r] # NULL =>
          rows[r].created_at \in Nat /\ rows[r].created_at <= Horizon
  BY RowFacts, ListingAssumption DEF TypeOK
<1>2. Horizon \in Nat
  BY ListingAssumption
<1>3. Keys \in [Rows -> Nat]
  BY <1>1, <1>2 DEF Keys
<1>4. ASSUME NEW r \in Rows, NEW q \in Rows, rows[r] # NULL, rows[q] # NULL
      PROVE  /\ Before(rows, r, q) <=> Keys[r] < Keys[q]
             /\ rows[r].created_at = rows[q].created_at <=> Keys[r] = Keys[q]
  BY <1>1, <1>2, <1>4 DEF Keys, Before
<1> QED
  BY <1>3, <1>4

LEMMA KeysLater ==
    ASSUME TypeOK'
    PROVE  Keys' \in [Rows -> Nat]
<1>1. \A r \in Rows : rows'[r] # NULL => rows'[r].created_at \in 0 .. Horizon
  BY RowFacts DEF TypeOK
<1> QED
  BY <1>1, ListingAssumption DEF Keys

(* What has been shown of listed rows, in the terms of the ranks.          *)
LEMMA ListedFacts ==
    ASSUME TypeOK
    PROVE  /\ Listed \in SUBSET Rows /\ IsFiniteSet(Listed) /\ Cardinality(Listed) \in Nat
           /\ \A r \in Listed : rows[r] # NULL /\ Keys[r] \in Nat
           /\ \A r \in Listed : Place(r) \in Nat /\ Place(r) < Cardinality(Listed)
           /\ \A r \in Listed : Distinct(r) => r \in Alone(Keys, Listed)
<1>1. Listed \in SUBSET Rows /\ IsFiniteSet(Listed) /\ Cardinality(Listed) \in Nat
  BY RowFacts DEF TypeOK, Listed
<1>2. \A r \in Listed : rows[r] # NULL /\ Keys[r] \in Nat
  BY <1>1, KeyFacts DEF Listed, Matching
<1>3. \A r \in Listed : Place(r) \in Nat /\ Place(r) < Cardinality(Listed)
  BY <1>1, <1>2, RankBound DEF Place
<1>4. \A r \in Listed : Distinct(r) => r \in Alone(Keys, Listed)
  BY <1>1, <1>2, KeyFacts DEF Distinct, Alone
<1> QED
  BY <1>1, <1>2, <1>3, <1>4

----------------------------------------------------------------------------
(* The pages.                                                              *)

(* An order lists every matching row once, sorted by the keys.             *)
LEMMA OrderFacts ==
    ASSUME TypeOK, NEW order \in Orders
    PROVE  LET c == Cardinality(Listed)
           IN  /\ order \in [1 .. c -> Listed] /\ order \in Seq(Rows)
               /\ Len(order) = c /\ DOMAIN order = 1 .. c
               /\ \A i, j \in 1 .. c : i # j => order[i] # order[j]
               /\ \A i, j \in 1 .. c : i < j => ~(Keys[order[j]] < Keys[order[i]])
               /\ \A r \in Listed : \E i \in 1 .. c : order[i] = r
<1> DEFINE c == Cardinality(Listed)
<1>1. /\ order \in [1 .. c -> Listed]
      /\ \A i, j \in 1 .. c : i # j => order[i] # order[j]
      /\ \A i, j \in DOMAIN order : i < j => ~Before(rows, order[j], order[i])
  BY DEF Orders, SetToSeqs, Listed
<1>2. c \in Nat /\ Listed \in SUBSET Rows /\ IsFiniteSet(Listed)
  BY ListedFacts
<1>3. order \in Seq(Rows) /\ Len(order) = c /\ DOMAIN order = 1 .. c
  BY <1>1, <1>2
<1>4. \A i, j \in 1 .. c : i < j => ~(Keys[order[j]] < Keys[order[i]])
  <2>1. \A i \in 1 .. c : order[i] \in Rows /\ rows[order[i]] # NULL
    BY <1>1, <1>2, ListedFacts
  <2> QED
    BY <1>1, <1>3, <2>1, KeyFacts
<1>5. order \in Injection(1 .. c, Listed)
  BY <1>1 DEF Injection, IsInjective
<1>6. IsFiniteSet(1 .. c) /\ Cardinality(1 .. c) = c
  <2>1. 1 \in Int /\ c \in Int
    BY <1>2
  <2>2. IsFiniteSet(1 .. c) /\ Cardinality(1 .. c) = IF 1 > c THEN 0 ELSE c - 1 + 1
    BY <2>1, FS_Interval
  <2> QED
    BY <1>2, <2>2
<1>7. order \in Surjection(1 .. c, Listed)
  BY <1>2, <1>5, <1>6, FS_Injection
<1>8. \A r \in Listed : \E i \in 1 .. c : order[i] = r
  BY <1>7 DEF Surjection
<1> QED
  BY <1>1, <1>3, <1>4, <1>8

\* The rows of a page.
Ids(page) == {page[i] : i \in DOMAIN page}

(* A page is full, or it is the rest of the order.                         *)
LEMMA PageFacts ==
    ASSUME TypeOK, NEW order \in Orders
    PROVE  LET c    == Cardinality(Listed)
               next == walk.offset + walk.limit
               last == IF next <= c THEN next ELSE c
               page == Page(order)
           IN  /\ page \in Seq(Listed)
               /\ Len(page) = IF walk.offset < last THEN last - walk.offset ELSE 0
               /\ \A i \in 1 .. Len(page) : page[i] = order[walk.offset + i]
               /\ Ids(page) = {order[i] : i \in walk.offset + 1 .. last}
<1> DEFINE c    == Cardinality(Listed)
           o    == walk.offset
           next == o + walk.limit
           last == IF next <= c THEN next ELSE c
           page == Page(order)
<1>1. c \in Nat /\ o \in Nat /\ next \in Nat /\ last \in Nat /\ last <= c
  <2>1. walk.offset \in Nat /\ walk.limit \in Nat
    BY ListingAssumption DEF TypeOK, Walks
  <2> QED
    BY <2>1, ListedFacts
<1>2. order \in [1 .. c -> Listed] /\ Len(order) = c
  BY OrderFacts
<1>3. page = SubSeq(order, o + 1, last)
  BY <1>2 DEF Page
<1>4. \A i \in o + 1 .. last : order[i] \in Listed
  BY <1>1, <1>2
<1>5. o + 1 \in Int /\ last \in Int
  BY <1>1
<1>6. /\ page \in Seq(Listed)
      /\ Len(page) = IF o + 1 <= last THEN last - (o + 1) + 1 ELSE 0
      /\ \A i \in 1 .. last - (o + 1) + 1 : page[i] = order[(o + 1) + i - 1]
  <2> HIDE DEF o, last, page
  <2>1. /\ SubSeq(order, o + 1, last) \in Seq(Listed)
        /\ Len(SubSeq(order, o + 1, last)) = IF o + 1 <= last THEN last - (o + 1) + 1 ELSE 0
        /\ \A i \in 1 .. last - (o + 1) + 1 :
              SubSeq(order, o + 1, last)[i] = order[(o + 1) + i - 1]
    BY <1>4, <1>5, SubSeqProperties
  <2> QED
    BY <1>3, <2>1
<1>7. Len(page) = IF o < last THEN last - o ELSE 0
  BY <1>1, <1>6
<1>8. ASSUME NEW i \in 1 .. Len(page)
      PROVE  page[i] = order[o + i]
  <2>1. o < last /\ Len(page) = last - o
    BY <1>1, <1>7
  <2>2. i \in 1 .. last - (o + 1) + 1 /\ (o + 1) + i - 1 = o + i
    BY <1>1, <2>1
  <2> QED
    BY <1>6, <2>2
<1>9. Ids(page) = {order[i] : i \in o + 1 .. last}
  <2>1. DOMAIN page = 1 .. Len(page)
    BY <1>6, LenProperties
  <2>2. ASSUME NEW r \in Ids(page)
        PROVE  r \in {order[i] : i \in o + 1 .. last}
    <3>1. PICK i \in 1 .. Len(page) : r = page[i]
      BY <2>1 DEF Ids
    <3>2. o + i \in o + 1 .. last
      BY <1>1, <1>7
    <3> QED
      BY <1>8, <3>1, <3>2
  <2>3. ASSUME NEW r \in {order[i] : i \in o + 1 .. last}
        PROVE  r \in Ids(page)
    <3>1. PICK i \in o + 1 .. last : r = order[i]
      OBVIOUS
    <3>2. i - o \in 1 .. Len(page) /\ o + (i - o) = i
      BY <1>1, <1>7
    <3>3. page[i - o] = r
      BY <1>8, <3>1, <3>2
    <3> QED
      BY <2>1, <3>2, <3>3 DEF Ids
  <2> QED
    BY <2>2, <2>3
<1> QED
  BY <1>6, <1>7, <1>8, <1>9

(* So a page shows, of the rows whose place is fixed, exactly those whose  *)
(* place is between its offset and the next.                               *)
LEMMA PageShows ==
    ASSUME TypeOK, NEW order \in Orders, NEW r \in Listed, Distinct(r)
    PROVE  r \in Ids(Page(order)) <=>
              walk.offset <= Place(r) /\ Place(r) < walk.offset + walk.limit
<1> DEFINE c    == Cardinality(Listed)
           o    == walk.offset
           next == o + walk.limit
           last == IF next <= c THEN next ELSE c
<1>1. o \in Nat /\ next \in Nat /\ c \in Nat
  <2>1. walk.offset \in Nat /\ walk.limit \in Nat
    BY ListingAssumption DEF TypeOK, Walks
  <2> QED
    BY <2>1, ListedFacts
<1>2. PICK i \in 1 .. c : order[i] = r
  BY OrderFacts
<1>3. Place(r) = i - 1
  <2>1. r \in Alone(Keys, Listed) /\ \A q \in Listed : Keys[q] \in Nat
    BY ListedFacts
  <2>2. IsFiniteSet(Listed)
    BY ListedFacts
  <2>3. /\ order \in [1 .. c -> Listed]
        /\ \A a, b \in 1 .. c : a # b => order[a] # order[b]
        /\ \A a, b \in 1 .. c : a < b => ~(Keys[order[b]] < Keys[order[a]])
    BY OrderFacts
  <2> QED
    BY <1>2, <2>1, <2>2, <2>3, RankIsIndex DEF Place
<1>4. Ids(Page(order)) = {order[j] : j \in o + 1 .. last}
  BY PageFacts
<1>5. r \in Ids(Page(order)) <=> i \in o + 1 .. last
  <2>1. \A j \in o + 1 .. last : j \in 1 .. c
    BY <1>1
  <2>2. \A j \in 1 .. c : order[j] = order[i] => j = i
    BY OrderFacts
  <2> QED
    BY <1>2, <1>4, <2>1, <2>2
<1> QED
  BY <1>1, <1>3, <1>5

----------------------------------------------------------------------------
(* The rows and the walk have their types.                                 *)
LEMMA ShownTypes ==
    ASSUME TypeOK, NEW order \in Orders, NEW total \in Nat, Shown(Page(order), total)
    PROVE  /\ walk' \in Walks /\ read' \in SUBSET Rows /\ repeats' \in Nat
           /\ Ids(Page(order)) \subseteq Listed
           /\ UNCHANGED <<now, flushed, rows, endpoint, steady, came, left>>
<1> DEFINE page == Page(order)
           again == {r \in Ids(page) \intersect read : Distinct(r)}
<1>1. page \in Seq(Listed) /\ Listed \in SUBSET Rows
  BY PageFacts, ListedFacts
<1>2. Len(page) \in Nat /\ Ids(page) \subseteq Listed
  <2>1. Len(page) \in Nat /\ DOMAIN page = 1 .. Len(page)
    BY <1>1, LenProperties
  <2>2. \A i \in 1 .. Len(page) : page[i] \in Listed
    BY <1>1, ElementOfSeq
  <2> QED
    BY <2>1, <2>2 DEF Ids
<1>3. /\ read' = read \union Ids(page)
      /\ repeats' = repeats + Cardinality(again)
      /\ walk' = [walk EXCEPT !.step = walk'.step, !.offset = walk.offset + walk.limit,
                              !.total = total, !.shown = Len(page)]
      /\ walk'.step \in {"done", "count"}
      /\ UNCHANGED <<now, flushed, rows, endpoint, steady, came, left>>
  BY DEF Shown, Ids, TypeOK, Walks
<1>4. Cardinality(again) \in Nat
  BY <1>1, <1>2, Finite
<1>5. walk.offset + walk.limit \in Nat
  <2>1. walk.offset \in Nat /\ walk.limit \in Nat
    BY ListingAssumption DEF TypeOK, Walks
  <2> QED
    BY <2>1
<1>6. walk' \in Walks
  BY <1>2, <1>3, <1>5 DEF TypeOK, Walks
<1>7. read' \in SUBSET Rows /\ repeats' \in Nat
  BY <1>1, <1>2, <1>3, <1>4 DEF TypeOK
<1> QED
  BY <1>2, <1>3, <1>6, <1>7

LEMMA CommittedTypes ==
    ASSUME TypeOK, NEW table \in [Rows -> Row \union {NULL}], Committed(table)
    PROVE  /\ rows' \in [Rows -> Row \union {NULL}]
           /\ steady' \in SUBSET Rows /\ came' \in Nat /\ left' \in Nat
           /\ UNCHANGED <<now, endpoint, walk, read, repeats>>
<1>1. /\ Matching(rows) \in SUBSET Rows /\ Matching(table) \in SUBSET Rows
  BY RowFacts DEF TypeOK
<1>2. /\ Cardinality(Matching(table) \ Matching(rows)) \in Nat
      /\ Cardinality(Matching(rows) \ Matching(table)) \in Nat
  BY <1>1, Finite
<1> QED
  BY <1>2 DEF Committed, TypeOK

LEMMA TypesStep ==
    ASSUME TypeOK, [Next]_vars
    PROVE  TypeOK'
<1> USE DEF TypeOK
<1>1. CASE Begin
  <2>1. Matching(rows) \in SUBSET Rows
    BY RowFacts
  <2> QED
    BY <1>1, <2>1 DEF Begin, Walks, counts
<1>2. CASE SelectCount
  <2>1. Cardinality(Matching(rows)) \in Nat
    BY RowFacts
  <2> QED
    BY <1>2, <2>1 DEF SelectCount, Walks, counts
<1>3. CASE SelectPage
  <2>1. PICK order \in Orders : Shown(Page(order), walk.total)
    BY <1>3 DEF SelectPage
  <2>2. walk.total \in Nat
    BY DEF Walks
  <2> QED
    BY <2>1, <2>2, ShownTypes
<1>4. CASE CutPage
  <2>1. PICK order \in Orders : Shown(Page(order), Len(order))
    BY <1>4 DEF CutPage
  <2>2. Len(order) \in Nat
    BY OrderFacts, ListedFacts
  <2> QED
    BY <2>1, <2>2, ShownTypes
<1>5. CASE Tick
  BY <1>5, ListingAssumption DEF Tick, counts
<1>6. ASSUME NEW r \in Rows, Flush(r)
      PROVE  TypeOK'
  <2>1. [created_at |-> now, status |-> "draft", activated |-> FALSE] \in Row
    BY DEF Row, SkillStatus
  <2> QED
    BY <1>6, <2>1 DEF Flush, counts
<1>7. ASSUME NEW r \in Rows, Commit(r)
      PROVE  TypeOK'
  <2>1. [rows EXCEPT ![r] = flushed[r]] \in [Rows -> Row \union {NULL}]
    OBVIOUS
  <2> QED
    BY <1>7, <2>1, CommittedTypes DEF Commit
<1>8. ASSUME NEW r \in Rows, Rollback(r)
      PROVE  TypeOK'
  BY <1>8 DEF Rollback, counts
<1>9. ASSUME NEW r \in Rows, NEW status \in SkillStatus, ChangeStatus(r, status)
      PROVE  TypeOK'
  <2> DEFINE row   == WithStatus(rows[r], status)
             table == [rows EXCEPT ![r] = row]
  <2>1. rows[r] \in Row
    BY <1>9 DEF ChangeStatus
  <2>2. row \in Row
    BY <2>1 DEF WithStatus, Row
  <2>3. table \in [Rows -> Row \union {NULL}]
    BY <2>2
  <2>4. Committed(table) /\ flushed' = flushed
    BY <1>9 DEF ChangeStatus
  <2> HIDE DEF table
  <2>5. /\ rows' \in [Rows -> Row \union {NULL}]
        /\ steady' \in SUBSET Rows /\ came' \in Nat /\ left' \in Nat
        /\ UNCHANGED <<now, endpoint, walk, read, repeats>>
    BY <2>3, <2>4, CommittedTypes
  <2> QED
    BY <2>4, <2>5
<1>10. CASE UNCHANGED vars
  BY <1>10 DEF vars, counts
<1> QED
  BY <1>1, <1>2, <1>3, <1>4, <1>5, <1>6, <1>7, <1>8, <1>9, <1>10 DEF Next, Write

LEMMA InitTypes == Init => TypeOK
<1> SUFFICES ASSUME Init PROVE TypeOK
  OBVIOUS
<1>1. walk \in Walks
  <2>1. PICK filter \in SkillStatus \union {NULL}, limit \in Limits,
             until \in {"total", "short page"} :
          walk = [step |-> "idle", filter |-> filter, until |-> until, limit |-> limit,
                  offset |-> 0, total |-> 0, shown |-> 0]
    BY DEF Init
  <2> QED
    BY <2>1 DEF Walks
<1>2. endpoint \in Endpoints /\ now \in 0 .. Horizon
  <2>1. endpoint \in Endpoints /\ now = 0
    BY DEF Init
  <2>2. Horizon \in Nat
    BY ListingAssumption
  <2> QED
    BY <2>1, <2>2
<1> QED
  BY <1>1, <1>2 DEF Init, TypeOK

(* The tables, the walk and what is counted about it have their types.     *)
THEOREM ListingTypes == Spec => []TypeOK
BY InitTypes, TypesStep, PTL DEF Spec

----------------------------------------------------------------------------
(* The invariant of a walk.                                                *)

\* Listed rows the walk has passed without showing them, although they have
\* matched since it began.
Missed == {r \in steady \ read : Distinct(r) /\ Place(r) < walk.offset}

\* Listed rows it has shown and has not passed: it will show them again.
Again == {r \in read \intersect Listed : Distinct(r) /\ Place(r) >= walk.offset}

Unwritten == \A r \in Rows : flushed[r] # NULL => rows[r] = NULL

WalkSound ==
    /\ walk.step = "idle"  => read = {} /\ steady = {} /\ walk.offset = 0
    /\ walk.step # "idle" => steady \subseteq Listed
    /\ \A r \in read : rows[r] # NULL

\* What the count said and what is there since.
CountSound ==
    walk.step = "page" =>
        /\ endpoint # "get_active_skills_for_department"
        /\ Cardinality(Listed) <= walk.total + came
        /\ walk.filter = NULL => walk.total <= Cardinality(Listed)

WInv ==
    /\ TypeOK
    /\ Unwritten
    /\ WalkSound
    /\ CountSound
    /\ Cardinality(Missed) <= left
    /\ repeats + Cardinality(Again) <= came
    /\ NothingSkipped

(* A set that gains at most one member counts at most one more.            *)
LEMMA OneMore ==
    ASSUME NEW S, IsFiniteSet(S), NEW x, NEW T, T \subseteq S \union {x}
    PROVE  /\ IsFiniteSet(T) /\ Cardinality(T) \in Nat /\ Cardinality(S) \in Nat
           /\ Cardinality(T) <= Cardinality(S) + 1
           /\ T \subseteq S => Cardinality(T) <= Cardinality(S)
<1>1. /\ IsFiniteSet(S \union {x})
      /\ Cardinality(S \union {x}) = IF x \in S THEN Cardinality(S) ELSE Cardinality(S) + 1
  BY FS_AddElement
<1>2. IsFiniteSet(T) /\ Cardinality(T) <= Cardinality(S \union {x})
  BY <1>1, FS_Subset
<1>3. T \subseteq S => Cardinality(T) <= Cardinality(S)
  BY FS_Subset
<1>4. Cardinality(T) \in Nat /\ Cardinality(S) \in Nat
  BY <1>2, FS_CardinalityType
<1> QED
  BY <1>1, <1>2, <1>3, <1>4

\* What Commit and ChangeStatus do to the tables: one row appears, or keeps
\* its created_at.
RowChange(x) ==
    /\ rows' = [rows EXCEPT ![x] = rows'[x]]
    /\ rows'[x] # NULL
    /\ rows[x] # NULL => rows'[x].created_at = rows[x].created_at
    /\ Committed(rows')

LEMMA RowChangeFacts ==
    ASSUME TypeOK, TypeOK', NEW x \in Rows, RowChange(x)
    PROVE  /\ UNCHANGED <<now, endpoint, walk, read, repeats>>
           /\ \A r \in Rows : rows[r] # NULL => rows'[r] # NULL /\ Keys'[r] = Keys[r]
           /\ \A r \in Rows : rows[r] # NULL /\ Distinct(r)' => Distinct(r)
           /\ Listed \subseteq Listed' \union {x} /\ Listed' \subseteq Listed \union {x}
           /\ walk.step = "idle" => UNCHANGED <<steady, came, left>>
           /\ walk.step # "idle" =>
                 /\ steady' = steady \intersect Listed'
                 /\ came' = came + Cardinality(Listed' \ Listed)
                 /\ left' = left + Cardinality(Listed \ Listed')
<1>1. /\ UNCHANGED <<now, endpoint, walk, read, repeats>>
      /\ walk.step = "idle" => UNCHANGED <<steady, came, left>>
  BY DEF RowChange, Committed
<1>2. \A r \in Rows : r # x => rows'[r] = rows[r]
  BY DEF RowChange, TypeOK
<1>3. rows'[x] # NULL /\ (rows[x] # NULL => rows'[x].created_at = rows[x].created_at)
  BY DEF RowChange
<1>4. \A r \in Rows : rows[r] # NULL => rows'[r] # NULL /\ Keys'[r] = Keys[r]
  BY <1>1, <1>2, <1>3 DEF Keys
<1>5. \A r \in Rows : rows[r] # NULL /\ Distinct(r)' => Distinct(r)
  BY <1>2, <1>3 DEF Distinct
<1>6. Listed' = Matching(rows')
  BY <1>1 DEF Listed, Matching
<1>7. Listed \subseteq Listed' \union {x} /\ Listed' \subseteq Listed \union {x}
  BY <1>2, <1>6 DEF Listed, Matching
<1>8. walk.step # "idle" =>
         /\ steady' = steady \intersect Listed'
         /\ came' = came + Cardinality(Listed' \ Listed)
         /\ left' = left + Cardinality(Listed \ Listed')
  BY <1>6 DEF RowChange, Committed, Listed
<1> QED
  BY <1>1, <1>4, <1>5, <1>7, <1>8

(* A row that comes moves the others by at most one place outwards, a row  *)
(* that leaves by at most one inwards.                                     *)
LEMMA PlacesMove ==
    ASSUME TypeOK, TypeOK', NEW x \in Rows, RowChange(x),
           NEW r \in Listed, r \in Listed'
    PROVE  /\ Place(r) \in Nat /\ Place(r)' \in Nat
           /\ Listed \subseteq Listed' => Place(r) <= Place(r)' /\ Place(r)' <= Place(r) + 1
           /\ Listed' \subseteq Listed => Place(r)' <= Place(r) /\ Place(r) <= Place(r)' + 1
<1> DEFINE B == Below(Keys, Listed, r)
           C == Below(Keys', Listed', r)
<1>1. /\ Listed \in SUBSET Rows /\ \A q \in Listed : rows[q] # NULL /\ Keys'[q] = Keys[q]
      /\ Listed \subseteq Listed' \union {x} /\ Listed' \subseteq Listed \union {x}
  BY ListedFacts, RowChangeFacts
<1>2. B \subseteq C \union {x} /\ C \subseteq B \union {x}
  BY <1>1 DEF Below
<1>3. /\ Listed \subseteq Listed' => B \subseteq C
      /\ Listed' \subseteq Listed => C \subseteq B
  BY <1>1 DEF Below
<1>4. IsFiniteSet(B) /\ IsFiniteSet(C)
  <2>1. IsFiniteSet(Listed) /\ IsFiniteSet(Listed')
    <3>1. IsFiniteSet(Listed) /\ Listed' \subseteq Listed \union {x}
      BY <1>1, ListedFacts
    <3> QED
      BY <3>1, OneMore
  <2>2. B \subseteq Listed /\ C \subseteq Listed'
    BY DEF Below
  <2> QED
    BY <2>1, <2>2, FS_Subset
<1>5. Place(r) = Cardinality(B) /\ Place(r)' = Cardinality(C)
  BY DEF Place, Rank
<1>6. /\ Cardinality(B) \in Nat /\ Cardinality(C) \in Nat
      /\ Cardinality(B) <= Cardinality(C) + 1 /\ Cardinality(C) <= Cardinality(B) + 1
      /\ B \subseteq C => Cardinality(B) <= Cardinality(C)
      /\ C \subseteq B => Cardinality(C) <= Cardinality(B)
  <2> HIDE DEF B, C
  <2> QED
    BY <1>2, <1>4, OneMore
<1> QED
  BY <1>3, <1>5, <1>6

(* A row that comes moves only those that are listed after it.             *)
LEMMA OnlyBehind ==
    ASSUME TypeOK, TypeOK', NEW x \in Rows, RowChange(x), x \notin Listed, x \in Listed',
           NEW r \in Listed, r \in Listed', Place(x)' >= Place(r)'
    PROVE  Place(r)' <= Place(r)
<1> DEFINE B == Below(Keys, Listed, r)
           C == Below(Keys', Listed', r)
<1>1. /\ Listed \in SUBSET Rows /\ \A q \in Listed : rows[q] # NULL /\ Keys'[q] = Keys[q]
      /\ IsFiniteSet(Listed) /\ Listed' \subseteq Listed \union {x}
  BY ListedFacts, RowChangeFacts
<1>2. IsFiniteSet(Listed')
  BY <1>1, OneMore
<1>3. \A q \in Listed' : Keys'[q] \in Nat
  <2>1. Keys' \in [Rows -> Nat]
    BY KeysLater
  <2>2. Listed' \in SUBSET Rows
    BY <1>1
  <2> QED
    BY <2>1, <2>2
<1>4. x \notin C
  <2> SUFFICES ASSUME Keys'[x] < Keys'[r] PROVE FALSE
    BY DEF Below
  <2>1. Rank(Keys', Listed', x) < Rank(Keys', Listed', r)
    BY <1>2, <1>3, RankOrder
  <2>2. Place(x)' < Place(r)'
    BY <2>1 DEF Place
  <2>3. Place(x)' \in Nat /\ Place(r)' \in Nat
    BY <1>2, <1>3, RankBound DEF Place
  <2> QED
    BY <2>2, <2>3
<1>5. C \subseteq B
  BY <1>1, <1>4 DEF Below
<1>6. IsFiniteSet(B)
  BY <1>1, FS_Subset DEF Below
<1>7. Cardinality(C) <= Cardinality(B)
  BY <1>5, <1>6, FS_Subset
<1> QED
  BY <1>7 DEF Place, Rank

(* Missed and Again are parts of the listed rows whose places are fixed.   *)
LEMMA PassedFacts ==
    ASSUME TypeOK, WalkSound, NEW n
    PROVE  LET D == {r \in Listed : Distinct(r)}
           IN  /\ D \in SUBSET Alone(Keys, Listed)
               /\ Missed \subseteq D /\ Again \subseteq D
               /\ IsFiniteSet(Missed) /\ Cardinality(Missed) \in Nat
               /\ IsFiniteSet(Again) /\ Cardinality(Again) \in Nat
               /\ \A r, s \in D : Place(r) = n /\ Place(s) = n => r = s
<1> DEFINE D == {r \in Listed : Distinct(r)}
<1>1. /\ Listed \in SUBSET Rows /\ IsFiniteSet(Listed)
      /\ \A r \in Listed : Keys[r] \in Nat
      /\ D \in SUBSET Alone(Keys, Listed)
  BY ListedFacts
<1>2. Missed \subseteq D /\ Again \subseteq D
  BY DEF Missed, Again, WalkSound
<1>3. Missed \in SUBSET Rows /\ Again \in SUBSET Rows
  BY <1>1, <1>2
<1>4. \A r, s \in D : Place(r) = n /\ Place(s) = n => r = s
  <2>1. \A r, s \in D : r # s => Keys[r] # Keys[s]
    BY <1>1 DEF Alone
  <2> QED
    BY <1>1, <2>1, RankInjective DEF Place
<1> QED
  BY <1>1, <1>2, <1>3, <1>4, Finite

(* At most one member satisfies a condition that no two do.                *)
LEMMA AtMostOne ==
    ASSUME NEW S, IsFiniteSet(S), NEW T, NEW X, T \subseteq S \union X,
           \A r, s \in X : r = s
    PROVE  /\ IsFiniteSet(T) /\ Cardinality(T) \in Nat /\ Cardinality(S) \in Nat
           /\ Cardinality(T) <= Cardinality(S) + 1
<1>1. PICK x : X \subseteq {x}
  <2>1. CASE X = {}
    BY <2>1
  <2>2. CASE X # {}
    BY <2>2
  <2> QED
    BY <2>1, <2>2
<1> QED
  BY <1>1, OneMore

(* A row that ceases to match makes the walk miss at most one more, which  *)
(* slips from its offset to the place before it.                           *)
LEMMA MissedStep ==
    ASSUME TypeOK, TypeOK', WalkSound, NEW x \in Rows, RowChange(x), walk.step # "idle"
    PROVE  /\ IsFiniteSet(Missed') /\ Cardinality(Missed') \in Nat
           /\ Cardinality(Missed') <= Cardinality(Missed) + Cardinality(Listed \ Listed')
<1> DEFINE D == {r \in Listed : Distinct(r)}
           X == {r \in D : Place(r) = walk.offset}
<1>1. /\ walk' = walk /\ read' = read /\ steady' = steady \intersect Listed'
      /\ Listed \subseteq Listed' \union {x} /\ Listed' \subseteq Listed \union {x}
      /\ \A r \in Rows : rows[r] # NULL /\ Distinct(r)' => Distinct(r)
  BY RowChangeFacts
<1>2. steady \subseteq Listed /\ Listed \in SUBSET Rows /\ walk.offset \in Nat
      /\ \A r \in Listed : rows[r] # NULL /\ r \in Rows
  BY ListedFacts DEF WalkSound, TypeOK, Walks
<1>3. \A r \in Missed' : /\ r \in steady \ read /\ r \in D /\ r \in Listed'
                         /\ Place(r)' < walk.offset
  BY <1>1, <1>2 DEF Missed
<1>4. IsFiniteSet(Missed) /\ Cardinality(Missed) \in Nat
  BY PassedFacts
<1>5. Cardinality(Listed \ Listed') \in Nat
  BY <1>2, Finite
<1>6. CASE Listed \subseteq Listed'
  <2>1. Missed' \subseteq Missed
    <3> SUFFICES ASSUME NEW r \in Missed' PROVE r \in Missed
      OBVIOUS
    <3>1. Place(r) \in Nat /\ Place(r)' \in Nat /\ Place(r) <= Place(r)'
      BY <1>3, <1>6, PlacesMove
    <3> QED
      BY <1>2, <1>3, <3>1 DEF Missed
  <2>2. Cardinality(Missed') <= Cardinality(Missed) /\ IsFiniteSet(Missed')
    BY <1>4, <2>1, FS_Subset
  <2> QED
    BY <1>4, <1>5, <2>2, FS_CardinalityType
<1>7. CASE ~(Listed \subseteq Listed')
  <2>1. x \in Listed /\ x \notin Listed' /\ Listed' \subseteq Listed
    BY <1>1, <1>7
  <2>2. Listed \ Listed' = {x}
    BY <1>1, <2>1
  <2>3. Cardinality(Listed \ Listed') = 1
    BY <2>2, FS_Singleton
  <2>4. Missed' \subseteq Missed \union X
    <3> SUFFICES ASSUME NEW r \in Missed' PROVE r \in Missed \union X
      OBVIOUS
    <3>1. Place(r) \in Nat /\ Place(r)' \in Nat /\ Place(r) <= Place(r)' + 1
      BY <1>3, <2>1, PlacesMove
    <3>2. Place(r) < walk.offset \/ Place(r) = walk.offset
      BY <1>2, <1>3, <3>1
    <3> QED
      BY <1>3, <3>2 DEF Missed
  <2>5. \A r, s \in X : r = s
    BY PassedFacts
  <2>6. /\ IsFiniteSet(Missed') /\ Cardinality(Missed') \in Nat
        /\ Cardinality(Missed') <= Cardinality(Missed) + 1
    <3> HIDE DEF X
    <3> QED
      BY <1>4, <2>4, <2>5, AtMostOne
  <2> QED
    BY <2>3, <2>6
<1> QED
  BY <1>6, <1>7

(* A row that begins to match makes it show at most one more again: itself,*)
(* if it was shown before and returns behind the offset, or the row it     *)
(* makes slip from the last place passed to the offset.                    *)
LEMMA AgainStep ==
    ASSUME TypeOK, TypeOK', WalkSound, NEW x \in Rows, RowChange(x), walk.step # "idle"
    PROVE  /\ IsFiniteSet(Again') /\ Cardinality(Again') \in Nat
           /\ Cardinality(Again') <= Cardinality(Again) + Cardinality(Listed' \ Listed)
<1> DEFINE D == {r \in Listed : Distinct(r)}
           X == {r \in D : Place(r) = walk.offset - 1}
<1>1. /\ walk' = walk /\ read' = read
      /\ Listed \subseteq Listed' \union {x} /\ Listed' \subseteq Listed \union {x}
      /\ \A r \in Rows : rows[r] # NULL /\ Distinct(r)' => Distinct(r)
  BY RowChangeFacts
<1>2. /\ Listed \in SUBSET Rows /\ Listed' \in SUBSET Rows /\ walk.offset \in Nat
      /\ \A r \in Listed : rows[r] # NULL /\ r \in Rows
  <2>1. Matching(rows)' \in SUBSET Rows
    BY DEF Matching
  <2> QED
    BY <2>1, ListedFacts DEF Listed, TypeOK, Walks
<1>3. \A r \in Again' : /\ r \in read /\ r \in Listed'
                        /\ Place(r)' >= walk.offset
                        /\ r # x \/ x \in Listed => r \in D
  BY <1>1, <1>2 DEF Again
<1>4. IsFiniteSet(Again) /\ Cardinality(Again) \in Nat
  BY PassedFacts
<1>5. Cardinality(Listed' \ Listed) \in Nat
  BY <1>2, Finite
<1>6. CASE Listed' \subseteq Listed
  <2>1. Again' \subseteq Again
    <3> SUFFICES ASSUME NEW r \in Again' PROVE r \in Again
      OBVIOUS
    <3>1. r \in D
      BY <1>3, <1>6
    <3>2. Place(r) \in Nat /\ Place(r)' \in Nat /\ Place(r)' <= Place(r)
      BY <1>3, <1>6, <3>1, PlacesMove
    <3> QED
      BY <1>2, <1>3, <3>1, <3>2 DEF Again
  <2>2. Cardinality(Again') <= Cardinality(Again) /\ IsFiniteSet(Again')
    BY <1>4, <2>1, FS_Subset
  <2> QED
    BY <1>4, <1>5, <2>2, FS_CardinalityType
<1>7. CASE ~(Listed' \subseteq Listed)
  <2>1. x \in Listed' /\ x \notin Listed /\ Listed \subseteq Listed'
    BY <1>1, <1>7
  <2>2. Listed' \ Listed = {x}
    BY <1>1, <2>1
  <2>3. Cardinality(Listed' \ Listed) = 1
    BY <2>2, FS_Singleton
  <2>4. Place(x)' \in Nat
    <3>1. Listed' \in SUBSET Rows /\ IsFiniteSet(Listed') /\ Keys' \in [Rows -> Nat]
      BY <1>2, Finite, KeysLater
    <3> QED
      BY <2>1, <3>1, RankBound DEF Place
  <2>5. ASSUME NEW r \in Again', r # x
        PROVE  /\ r \in Again \union X
               /\ Place(x)' >= walk.offset => r \in Again
    <3>1. r \in D /\ r \in Listed
      BY <1>3, <2>5
    <3>2. /\ Place(r) \in Nat /\ Place(r)' \in Nat
          /\ Place(r) <= Place(r)' /\ Place(r)' <= Place(r) + 1
      BY <1>3, <2>1, <3>1, PlacesMove
    <3>3. Place(r) >= walk.offset \/ Place(r) = walk.offset - 1
      BY <1>2, <1>3, <3>2
    <3>4. ASSUME Place(x)' >= walk.offset, Place(r) = walk.offset - 1
          PROVE  FALSE
      <4>1. Place(r)' = walk.offset /\ Place(x)' >= Place(r)'
        BY <1>2, <1>3, <2>4, <3>2, <3>4
      <4>2. Place(r)' <= Place(r)
        BY <1>3, <2>1, <3>1, <4>1, OnlyBehind
      <4> QED
        BY <1>2, <3>2, <3>4, <4>1, <4>2
    <3> QED
      BY <1>3, <3>1, <3>3, <3>4 DEF Again
  <2>6. \A r, s \in X : r = s
    BY PassedFacts
  <2>7. /\ IsFiniteSet(Again') /\ Cardinality(Again') \in Nat
        /\ Cardinality(Again') <= Cardinality(Again) + 1
    <3>1. CASE Place(x)' >= walk.offset
      <4>1. Again' \subseteq Again \union {x}
        BY <2>5, <3>1
      <4> QED
        BY <1>4, <4>1, OneMore
    <3>2. CASE ~(Place(x)' >= walk.offset)
      <4>1. Again' \subseteq Again \union X
        BY <1>3, <2>5, <3>2
      <4> HIDE DEF X
      <4> QED
        BY <1>4, <2>6, <4>1, AtMostOne
    <3> QED
      BY <3>1, <3>2
  <2> QED
    BY <2>3, <2>7
<1> QED
  BY <1>6, <1>7

----------------------------------------------------------------------------
(* The writers keep the invariant.                                         *)

\* Rows the client should have seen.
Skipped == {r \in steady \ read : Distinct(r)}
Allowed == left + IF walk.until = "total" /\ endpoint # "get_active_skills_for_department"
                  THEN came ELSE 0

(* Whatever becomes of a row, to a status it had before or to a new one.   *)
LEMMA RowChangeKeeps ==
    ASSUME WInv, TypeOK', Unwritten', NEW x \in Rows, RowChange(x)
    PROVE  WInv'
<1> USE DEF WInv
<1>1. /\ UNCHANGED <<now, endpoint, walk, read, repeats>>
      /\ Listed \subseteq Listed' \union {x} /\ Listed' \subseteq Listed \union {x}
      /\ walk.step = "idle" => UNCHANGED <<steady, came, left>>
      /\ walk.step # "idle" =>
            /\ steady' = steady \intersect Listed'
            /\ came' = came + Cardinality(Listed' \ Listed)
            /\ left' = left + Cardinality(Listed \ Listed')
  BY RowChangeFacts
<1>2. /\ Listed \in SUBSET Rows /\ Listed' \in SUBSET Rows
      /\ IsFiniteSet(Listed) /\ IsFiniteSet(Listed')
      /\ Cardinality(Listed) \in Nat /\ Cardinality(Listed') \in Nat
      /\ Cardinality(Listed' \ Listed) \in Nat /\ Cardinality(Listed \ Listed') \in Nat
  <2>1. Listed \in SUBSET Rows /\ Listed' \in SUBSET Rows
    BY DEF Listed, Matching
  <2> QED
    BY <2>1, Finite
<1>3. \A r \in read : rows'[r] # NULL
  BY RowChangeFacts DEF WalkSound, TypeOK
<1>4. WalkSound'
  BY <1>1, <1>3 DEF WalkSound
<1>5. /\ left \in Nat /\ left' \in Nat /\ came \in Nat /\ came' \in Nat
      /\ walk.step # "idle" =>
            /\ came' = came + Cardinality(Listed' \ Listed)
            /\ left' = left + Cardinality(Listed \ Listed')
  BY <1>1 DEF TypeOK
<1>6. CASE walk.step = "idle"
  <2>1. read = {} /\ steady = {} /\ read' = {} /\ steady' = {}
    BY <1>1, <1>6 DEF WalkSound
  <2>2. Missed' = {} /\ Again' = {} /\ Missed = {} /\ Again = {}
    BY <2>1 DEF Missed, Again
  <2>3. CountSound' /\ NothingSkipped'
    BY <1>1, <1>6 DEF CountSound, NothingSkipped
  <2>4. Cardinality(Missed') <= left' /\ repeats' + Cardinality(Again') <= came'
    BY <1>1, <1>6, <2>2
  <2> QED
    BY <1>4, <2>3, <2>4
<1>7. CASE walk.step # "idle"
  <2>1. Cardinality(Missed') <= left'
    <3>1. /\ Cardinality(Missed') \in Nat
          /\ Cardinality(Missed') <= Cardinality(Missed) + Cardinality(Listed \ Listed')
      BY <1>7, MissedStep
    <3>2. Cardinality(Missed) \in Nat
      BY PassedFacts
    <3> QED
      BY <1>1, <1>2, <1>7, <3>1, <3>2 DEF TypeOK
  <2>2. repeats' + Cardinality(Again') <= came'
    <3>1. /\ Cardinality(Again') \in Nat
          /\ Cardinality(Again') <= Cardinality(Again) + Cardinality(Listed' \ Listed)
      BY <1>7, AgainStep
    <3>2. Cardinality(Again) \in Nat
      BY PassedFacts
    <3> QED
      BY <1>1, <1>2, <1>7, <3>1, <3>2 DEF TypeOK
  <2>3. CountSound'
    <3>1. Cardinality(Listed') <= Cardinality(Listed) + Cardinality(Listed' \ Listed)
      <4>1. CASE Listed' \subseteq Listed
        <5>1. Cardinality(Listed') <= Cardinality(Listed)
          BY <1>2, <4>1, FS_Subset
        <5> QED
          BY <1>2, <5>1
      <4>2. CASE ~(Listed' \subseteq Listed)
        <5>1. Listed' \ Listed = {x}
          BY <1>1, <4>2
        <5>2. Cardinality(Listed' \ Listed) = 1
          BY <5>1, FS_Singleton
        <5> QED
          BY <1>1, <1>2, <5>2, OneMore
      <4> QED
        BY <4>1, <4>2
    <3>2. walk.filter = NULL => Cardinality(Listed) <= Cardinality(Listed')
      <4>1. walk.filter = NULL => Listed \subseteq Listed'
        BY <1>1, <1>2, RowChangeFacts, ListedFacts DEF Listed, Matching
      <4> QED
        BY <1>2, <4>1, FS_Subset
    <3> QED
      <4>1. walk.total \in Nat /\ endpoint' = endpoint /\ walk' = walk
        BY <1>1 DEF TypeOK, Walks
      <4>2. walk.step = "page" =>
               /\ endpoint # "get_active_skills_for_department"
               /\ Cardinality(Listed) <= walk.total + came
               /\ walk.filter = NULL => walk.total <= Cardinality(Listed)
        BY DEF CountSound
      <4>3. came' = came + Cardinality(Listed' \ Listed)
        BY <1>1, <1>7
      <4>4. walk.step = "page" => Cardinality(Listed') <= walk.total + came'
        BY <1>2, <1>5, <3>1, <4>1, <4>2, <4>3
      <4>5. walk.filter = NULL /\ walk.step = "page" => walk.total <= Cardinality(Listed')
        BY <1>2, <3>2, <4>1, <4>2
      <4> QED
        BY <4>1, <4>2, <4>4, <4>5 DEF CountSound
  <2>4. NothingSkipped'
    <3>1. Skipped' \subseteq Skipped
      <4>1. steady \subseteq Listed /\ steady' \subseteq steady
        BY <1>1, <1>7 DEF WalkSound
      <4>2. \A r \in steady : Distinct(r)' => Distinct(r)
        BY <1>2, <4>1, RowChangeFacts, ListedFacts
      <4> QED
        BY <1>1, <4>1, <4>2 DEF Skipped
    <3>2. Skipped \in SUBSET Rows
      BY DEF Skipped, TypeOK
    <3>3. /\ Cardinality(Skipped') <= Cardinality(Skipped)
          /\ Cardinality(Skipped) \in Nat /\ Cardinality(Skipped') \in Nat
      BY <3>1, <3>2, Finite, FS_Subset
    <3>4. Allowed \in Nat /\ Allowed' \in Nat /\ Allowed <= Allowed'
      <4>1. left <= left' /\ came <= came'
        BY <1>2, <1>7, <1>5
      <4>2. \/ Allowed = left + came /\ Allowed' = left' + came'
            \/ Allowed = left + 0 /\ Allowed' = left' + 0
        BY <1>1 DEF Allowed
      <4> QED
        BY <1>5, <4>1, <4>2
    <3>5. walk.step = "done" => Cardinality(Skipped) <= Allowed
      BY DEF NothingSkipped, Skipped, Allowed
    <3>6. walk'.step = "done" => Cardinality(Skipped') <= Allowed'
      BY <1>1, <3>3, <3>4, <3>5
    <3> QED
      BY <3>6 DEF NothingSkipped, Skipped, Allowed
  <2> QED
    BY <1>4, <2>1, <2>2, <2>3, <2>4
<1> QED
  BY <1>6, <1>7

----------------------------------------------------------------------------
(* The client keeps it.                                                    *)

(* A page that is shown passes its places and moves what it shows again    *)
(* from Again to repeats.  At the end of the walk, whatever was not passed *)
(* lies behind a full offset: nothing after a short page, and after a total*)
(* only as many rows as have come since it was counted.                    *)
LEMMA ShownKeeps ==
    ASSUME WInv, TypeOK', NEW order \in Orders, NEW total \in Nat,
           Shown(Page(order), total),
           walk.step \in {"count", "page"},
           \/ total = Cardinality(Listed)
           \/ /\ Cardinality(Listed) <= total + came
              /\ endpoint # "get_active_skills_for_department"
    PROVE  WInv'
<1> DEFINE page == Page(order)
           c == Cardinality(Listed)
           next == walk.offset + walk.limit
           X == {r \in Ids(page) \intersect read : Distinct(r)}
<1> USE DEF WInv
<1>1. /\ read' = read \union Ids(page)
      /\ repeats' = repeats + Cardinality(X)
      /\ walk'.offset = next
      /\ walk'.step = IF (IF walk.until = "total" THEN next >= total
                          ELSE Len(page) < walk.limit) THEN "done" ELSE "count"
      /\ walk'.filter = walk.filter /\ walk'.until = walk.until
      /\ UNCHANGED <<now, flushed, rows, endpoint, steady, came, left>>
      /\ Ids(page) \subseteq Listed
  BY ShownTypes DEF Shown, Ids, TypeOK, Walks
<1>2. /\ Listed \in SUBSET Rows /\ IsFiniteSet(Listed) /\ c \in Nat
      /\ \A r \in Listed : rows[r] # NULL /\ Place(r) \in Nat /\ Place(r) < c
  BY ListedFacts
<1>3. /\ walk.offset \in Nat /\ walk.limit \in Nat /\ walk.limit > 0 /\ next \in Nat
      /\ came \in Nat /\ left \in Nat /\ repeats \in Nat
  <2>1. /\ walk.offset \in Nat /\ walk.limit \in Nat /\ walk.limit # 0
        /\ came \in Nat /\ left \in Nat /\ repeats \in Nat
    BY ListingAssumption DEF TypeOK, Walks
  <2> QED
    BY <2>1
<1>4. /\ Listed' = Listed /\ Keys' = Keys
      /\ \A r \in Rows : Distinct(r)' <=> Distinct(r)
  BY <1>1 DEF Listed, Matching, Keys, Distinct
<1>5. \A r \in Listed : Place(r)' = Place(r)
  BY <1>4 DEF Place
<1>6. \A r \in Listed : Distinct(r) =>
         (r \in Ids(page) <=> walk.offset <= Place(r) /\ Place(r) < next)
  BY PageShows
<1>7. steady \subseteq Listed
  BY DEF WalkSound
<1>8. WalkSound'
  <2>1. \A r \in Ids(page) : rows[r] # NULL /\ r \in Listed
    BY <1>1, <1>2
  <2> QED
    BY <1>1, <1>4, <1>7, <2>1 DEF WalkSound
<1>9. Unwritten' /\ CountSound'
  BY <1>1 DEF Unwritten, CountSound
<1>10. Cardinality(Missed') <= left'
  <2>1. Missed' \subseteq Missed
    <3> SUFFICES ASSUME NEW r \in Missed' PROVE r \in Missed
      OBVIOUS
    <3>1. /\ r \in steady /\ r \notin read /\ r \notin Ids(page)
          /\ r \in Listed /\ Distinct(r) /\ Place(r) < next
      BY <1>1, <1>2, <1>4, <1>5, <1>7 DEF Missed
    <3>2. Place(r) < walk.offset
      BY <1>2, <1>3, <1>6, <3>1
    <3> QED
      BY <3>1, <3>2 DEF Missed
  <2>2. IsFiniteSet(Missed)
    BY PassedFacts
  <2>3. /\ Cardinality(Missed') <= Cardinality(Missed)
        /\ Cardinality(Missed) \in Nat /\ Cardinality(Missed') \in Nat
    BY <2>1, <2>2, FS_Subset, FS_CardinalityType
  <2>4. Cardinality(Missed) <= left /\ left' = left
    BY <1>1
  <2> QED
    BY <1>3, <2>3, <2>4
<1>11. repeats' + Cardinality(Again') <= came'
  <2>1. \A r \in X : r \in Again /\ r \notin Again'
    <3> SUFFICES ASSUME NEW r \in X PROVE r \in Again /\ r \notin Again'
      OBVIOUS
    <3>1. r \in Listed /\ r \in read /\ Distinct(r) /\ Place(r) \in Nat
          /\ walk.offset <= Place(r) /\ Place(r) < next
      BY <1>1, <1>2, <1>6
    <3>2. ~(Place(r) >= next) /\ Place(r) >= walk.offset
      BY <1>3, <3>1
    <3> QED
      BY <1>1, <1>5, <3>1, <3>2 DEF Again
  <2>2. Again' \subseteq Again
    <3> SUFFICES ASSUME NEW r \in Again' PROVE r \in Again
      OBVIOUS
    <3>1. /\ r \in read \union Ids(page)
          /\ r \in Listed /\ Distinct(r) /\ Place(r) >= next
      BY <1>1, <1>2, <1>4, <1>5 DEF Again
    <3>2. Place(r) >= walk.offset /\ r \notin Ids(page)
      BY <1>2, <1>3, <1>6, <3>1
    <3> QED
      BY <3>1, <3>2 DEF Again
  <2>3. IsFiniteSet(Again) /\ Cardinality(Again) \in Nat
    BY PassedFacts
  <2>4. IsFiniteSet(X) /\ IsFiniteSet(Again')
    BY <2>1, <2>2, <2>3, FS_Subset
  <2>5. Cardinality(X \union Again') = Cardinality(X) + Cardinality(Again')
    <3>1. X \intersect Again' = {}
      BY <2>1
    <3>2. Cardinality(X \union Again')
             = Cardinality(X) + Cardinality(Again') - Cardinality(X \intersect Again')
      BY <2>4, FS_Union
    <3>3. Cardinality(X \intersect Again') = 0
      BY <3>1, FS_EmptySet
    <3>4. Cardinality(X) \in Nat /\ Cardinality(Again') \in Nat
      BY <2>4, FS_CardinalityType
    <3> QED
      BY <3>2, <3>3, <3>4
  <2>6. Cardinality(X \union Again') <= Cardinality(Again)
    <3>1. X \union Again' \subseteq Again
      BY <2>1, <2>2
    <3> QED
      BY <2>3, <3>1, FS_Subset
  <2>7. Cardinality(X) \in Nat /\ Cardinality(Again') \in Nat
    BY <2>4, FS_CardinalityType
  <2>8. repeats + Cardinality(Again) <= came /\ came' = came
    BY <1>1
  <2> QED
    BY <1>1, <1>3, <2>3, <2>5, <2>6, <2>7, <2>8
<1>12. NothingSkipped'
  <2> SUFFICES ASSUME walk'.step = "done"
               PROVE  Cardinality(Skipped') <= Allowed'
    BY DEF NothingSkipped, Skipped, Allowed
  <2> DEFINE D == {r \in Listed : Distinct(r)}
             High == {r \in D : Place(r) >= next}
  <2>1. D \in SUBSET Alone(Keys, Listed) /\ \A q \in Listed : Keys[q] \in Nat
    BY ListedFacts
  <2>2. IsFiniteSet(High) /\ (High # {} => Cardinality(High) + next <= c)
    BY <1>2, <1>3, <2>1, FewHighRanks DEF Place
  <2>3. Skipped' \subseteq Missed' \union High
    <3> SUFFICES ASSUME NEW r \in Skipped', r \notin Missed' PROVE r \in High
      OBVIOUS
    <3>1. r \in steady' /\ r \notin read' /\ r \in Listed /\ Distinct(r) /\ Distinct(r)'
      BY <1>1, <1>2, <1>4, <1>7 DEF Skipped
    <3>2. ~(Place(r) < next)
      BY <1>1, <1>5, <3>1 DEF Missed
    <3> QED
      BY <1>2, <1>3, <3>1, <3>2
  <2>4. IsFiniteSet(Missed') /\ Missed' \in SUBSET Rows
    <3>1. Missed' \in SUBSET Rows
      BY DEF Missed, TypeOK
    <3> QED
      BY <3>1, Finite
  <2>5. Cardinality(Skipped') <= Cardinality(Missed') + Cardinality(High)
        /\ Cardinality(Skipped') \in Nat
        /\ Cardinality(Missed') \in Nat /\ Cardinality(High) \in Nat
    <3> HIDE DEF High
    <3>1. /\ IsFiniteSet(Missed' \union High)
          /\ Cardinality(Missed' \union High)
               = Cardinality(Missed') + Cardinality(High) - Cardinality(Missed' \intersect High)
      BY <2>2, <2>4, FS_Union
    <3>2. IsFiniteSet(Missed' \intersect High)
      BY <2>4, FS_Intersection
    <3>3. /\ Cardinality(Missed') \in Nat /\ Cardinality(High) \in Nat
          /\ Cardinality(Missed' \intersect High) \in Nat
      BY <2>2, <2>4, <3>2, FS_CardinalityType
    <3>4. IsFiniteSet(Skipped') /\ Cardinality(Skipped') <= Cardinality(Missed' \union High)
      BY <2>3, <3>1, FS_Subset
    <3>5. Cardinality(Skipped') \in Nat
      BY <3>4, FS_CardinalityType
    <3> QED
      BY <3>1, <3>3, <3>4, <3>5
  <2>6. CASE High = {}
    <3>1. Cardinality(High) = 0
      BY <2>6, FS_EmptySet
    <3>2. Allowed' >= left' /\ Allowed' \in Nat /\ left' \in Nat
      BY <1>1, <1>3 DEF Allowed
    <3> HIDE DEF High
    <3> QED
      BY <1>10, <2>5, <3>1, <3>2
  <2>7. CASE High # {}
    <3>1. Cardinality(High) + next <= c
      BY <2>2, <2>7
    <3>2. next <= c /\ Cardinality(High) \in Nat
      <4> HIDE DEF High
      <4> QED
        BY <1>2, <1>3, <2>5, <3>1
    <3>3. Len(page) = walk.limit
      BY <1>2, <1>3, <3>2, PageFacts
    <3>4. walk.until = "total" /\ next >= total
      <4>1. ~(Len(page) < walk.limit)
        BY <1>3, <3>3
      <4> QED
        BY <1>1, <4>1
    <3>5. CASE total = c
      <4>1. Cardinality(High) = 0
        <5> HIDE DEF High
        <5> QED
          BY <1>2, <1>3, <3>1, <3>2, <3>4, <3>5
      <4> QED
        BY <2>2, <2>7, <4>1, FS_EmptySet
    <3>6. CASE c <= total + came /\ endpoint # "get_active_skills_for_department"
      <4>1. Cardinality(High) <= came
        <5> HIDE DEF High
        <5> QED
          BY <1>2, <1>3, <3>1, <3>2, <3>4, <3>6
      <4>2. Allowed' = left' + came' /\ left' = left /\ came' = came
        BY <1>1, <3>4, <3>6 DEF Allowed
      <4> HIDE DEF High
      <4> QED
        BY <1>3, <1>10, <2>5, <4>1, <4>2
    <3> QED
      BY <3>5, <3>6
  <2> QED
    BY <2>6, <2>7
<1> QED
  BY <1>8, <1>9, <1>10, <1>11, <1>12

LEMMA WInvStep ==
    ASSUME WInv, [Next]_vars
    PROVE  WInv'
<1> USE DEF WInv
<1>1. TypeOK'
  BY TypesStep
<1>2. CASE Begin
  <2>1. /\ walk.step = "idle" /\ walk' = [walk EXCEPT !.step = "count"]
        /\ steady' = Matching(rows)
        /\ UNCHANGED <<now, flushed, rows, endpoint, read, repeats, came, left>>
    BY <1>2 DEF Begin, counts
  <2>2. /\ walk'.step = "count" /\ walk'.filter = walk.filter /\ walk'.offset = walk.offset
        /\ read = {} /\ steady' = Listed
    BY <2>1 DEF TypeOK, Walks, WalkSound, Listed
  <2>3. Listed' = Listed /\ read' = {}
    BY <2>1, <2>2 DEF Listed, Matching
  <2>4. Unwritten' /\ WalkSound' /\ CountSound' /\ NothingSkipped'
    BY <2>1, <2>2, <2>3 DEF Unwritten, WalkSound, CountSound, NothingSkipped
  <2>5. Cardinality(Again') = 0 /\ Cardinality(Again) = 0
    <3>1. Again' = {} /\ Again = {}
      BY <2>2, <2>3 DEF Again
    <3> QED
      BY <3>1, FS_EmptySet
  <2>6. walk.offset = 0 /\ Cardinality(Missed') = 0
    <3>1. walk.offset = 0
      BY <2>1 DEF WalkSound
    <3>2. Keys' = Keys
      BY <2>1 DEF Keys
    <3>3. \A r \in Listed : Place(r)' \in Nat
      BY <2>3, <3>2, ListedFacts DEF Place
    <3>4. Missed' = {}
      BY <2>2, <2>3, <3>1, <3>3 DEF Missed
    <3> QED
      BY <3>1, <3>4, FS_EmptySet
  <2>7. left \in Nat /\ left' = left /\ repeats' = repeats /\ came' = came
    BY <2>1 DEF TypeOK
  <2> QED
    BY <1>1, <2>4, <2>5, <2>6, <2>7 DEF TypeOK
<1>3. CASE SelectCount
  <2>1. /\ walk.step = "count" /\ endpoint # "get_active_skills_for_department"
        /\ walk' = [walk EXCEPT !.step = "page", !.total = Cardinality(Listed)]
        /\ UNCHANGED <<now, flushed, rows, endpoint, read, steady, repeats, came, left>>
    BY <1>3 DEF SelectCount, counts, Listed
  <2>2. /\ walk'.step = "page" /\ walk'.filter = walk.filter /\ walk'.offset = walk.offset
        /\ walk'.total = Cardinality(Listed)
    BY <2>1 DEF TypeOK, Walks
  <2>3. /\ Listed' = Listed /\ Keys' = Keys
        /\ \A r \in Rows : Distinct(r)' <=> Distinct(r)
    BY <2>1, <2>2 DEF Listed, Matching, Keys, Distinct
  <2>4. Unwritten' /\ WalkSound' /\ NothingSkipped'
    BY <2>1, <2>2, <2>3 DEF Unwritten, WalkSound, NothingSkipped
  <2>5. CountSound'
    <3>1. Cardinality(Listed) \in Nat /\ came \in Nat
      BY ListedFacts DEF TypeOK
    <3> QED
      BY <2>1, <2>2, <2>3, <3>1 DEF CountSound
  <2>6. Missed' = Missed /\ Again' = Again
    BY <2>1, <2>2, <2>3 DEF Missed, Again, Place, TypeOK
  <2> QED
    BY <1>1, <2>1, <2>4, <2>5, <2>6
<1>4. CASE SelectPage
  <2>1. PICK order \in Orders : Shown(Page(order), walk.total)
    BY <1>4 DEF SelectPage
  <2>2. walk.step = "page" /\ walk.total \in Nat
    BY <1>4 DEF SelectPage, TypeOK, Walks
  <2>3. /\ Cardinality(Listed) <= walk.total + came
        /\ endpoint # "get_active_skills_for_department"
    BY <2>2 DEF CountSound
  <2> QED
    BY <1>1, <2>1, <2>2, <2>3, ShownKeeps
<1>5. CASE CutPage
  <2>1. PICK order \in Orders : Shown(Page(order), Len(order))
    BY <1>5 DEF CutPage
  <2>2. walk.step = "count"
    BY <1>5 DEF CutPage
  <2>3. Len(order) \in Nat /\ Len(order) = Cardinality(Listed)
    BY OrderFacts, ListedFacts
  <2> QED
    BY <1>1, <2>1, <2>2, <2>3, ShownKeeps
<1>6. CASE UNCHANGED <<rows, endpoint, walk, read, steady, counts>> /\ Unwritten'
  <2>1. /\ Listed' = Listed /\ Keys' = Keys
        /\ \A r \in Rows : Distinct(r)' <=> Distinct(r)
    BY <1>6 DEF Listed, Matching, Keys, Distinct
  <2>2. WalkSound' /\ CountSound' /\ NothingSkipped'
    BY <1>6, <2>1 DEF WalkSound, CountSound, NothingSkipped, counts, TypeOK
  <2>3. Missed' = Missed /\ Again' = Again
    BY <1>6, <2>1 DEF Missed, Again, Place, TypeOK
  <2> QED
    BY <1>1, <1>6, <2>2, <2>3 DEF counts
<1>7. CASE Tick
  BY <1>6, <1>7 DEF Tick, Unwritten
<1>8. ASSUME NEW r \in Rows, Flush(r)
      PROVE  WInv'
  BY <1>6, <1>8 DEF Flush, Unwritten, TypeOK
<1>9. ASSUME NEW r \in Rows, Commit(r)
      PROVE  WInv'
  <2>1. /\ flushed[r] # NULL /\ rows[r] = NULL
        /\ flushed' = [flushed EXCEPT ![r] = NULL]
        /\ rows' = [rows EXCEPT ![r] = flushed[r]] /\ Committed(rows')
    BY <1>9 DEF Commit, Committed, Unwritten
  <2>2. Unwritten'
    BY <2>1 DEF Unwritten, TypeOK
  <2>3. RowChange(r)
    BY <2>1 DEF RowChange, TypeOK
  <2> QED
    BY <1>1, <2>2, <2>3, RowChangeKeeps
<1>10. ASSUME NEW r \in Rows, Rollback(r)
       PROVE  WInv'
  BY <1>6, <1>10 DEF Rollback, Unwritten, TypeOK
<1>11. ASSUME NEW r \in Rows, NEW status \in SkillStatus, ChangeStatus(r, status)
       PROVE  WInv'
  <2>1. /\ rows[r] # NULL /\ flushed' = flushed
        /\ rows' = [rows EXCEPT ![r] = WithStatus(rows[r], status)]
        /\ Committed(rows')
    BY <1>11 DEF ChangeStatus, Committed
  <2>2. rows[r] \in Row
    BY <2>1 DEF TypeOK
  <2>3. rows'[r] = WithStatus(rows[r], status)
    BY <2>1 DEF TypeOK
  <2>4. rows'[r].created_at = rows[r].created_at /\ rows'[r] \in Row
    BY <2>2, <2>3 DEF WithStatus, Row
  <2>5. rows'[r] # NULL
    BY <2>4, ListingAssumption
  <2>6. RowChange(r)
    <3>1. rows' = [rows EXCEPT ![r] = rows'[r]]
      BY <2>1, <2>3
    <3> QED
      BY <2>1, <2>4, <2>5, <3>1 DEF RowChange
  <2>7. Unwritten'
    BY <2>1, <2>5 DEF Unwritten, TypeOK
  <2> QED
    BY <1>1, <2>6, <2>7, RowChangeKeeps
<1>12. CASE UNCHANGED vars
  BY <1>6, <1>12 DEF vars, Unwritten
<1> QED
  BY <1>2, <1>3, <1>4, <1>5, <1>7, <1>8, <1>9, <1>10, <1>11, <1>12 DEF Next, Write

LEMMA InitWInv == Init => WInv
<1> SUFFICES ASSUME Init PROVE WInv
  OBVIOUS
<1>1. TypeOK
  BY InitTypes
<1>2. /\ walk.step = "idle" /\ walk.offset = 0 /\ read = {} /\ steady = {}
      /\ \A r \in Rows : flushed[r] = NULL
      /\ repeats = 0 /\ came = 0 /\ left = 0
  <2>1. walk.step = "idle" /\ walk.offset = 0
    <3>1. PICK filter \in SkillStatus \union {NULL}, limit \in Limits,
               until \in {"total", "short page"} :
            walk = [step |-> "idle", filter |-> filter, until |-> until, limit |-> limit,
                    offset |-> 0, total |-> 0, shown |-> 0]
      BY DEF Init
    <3> QED
      BY <3>1
  <2> QED
    BY <2>1 DEF Init
<1>3. Unwritten /\ WalkSound /\ CountSound /\ NothingSkipped
  BY <1>2 DEF Unwritten, WalkSound, CountSound, NothingSkipped
<1>4. Missed = {} /\ Again = {}
  BY <1>2 DEF Missed, Again
<1>5. Cardinality(Missed) = 0 /\ Cardinality(Again) = 0
  BY <1>4, FS_EmptySet
<1> QED
  BY <1>1, <1>2, <1>3, <1>5 DEF WInv

LEMMA WalkInvariant == Spec => []WInv
BY InitWInv, WInvStep, PTL DEF Spec

----------------------------------------------------------------------------
(* A walk that ends at a short page misses at most one row per row that    *)
(* ceased to match, and one that ends at the total also one per row that   *)
(* came, whatever is committed between its statements.                     *)
THEOREM WalkMissesFew == Spec => []NothingSkipped
<1>1. WInv => NothingSkipped
  BY DEF WInv
<1> QED
  BY <1>1, WalkInvariant, PTL

(* It shows a row twice at most once for each row that came.               *)
THEOREM WalkRepeatsFew == Spec => []RepeatsArePushed
<1>1. WInv => RepeatsArePushed
  <2> SUFFICES ASSUME WInv PROVE repeats <= came
    BY DEF RepeatsArePushed
  <2>1. Cardinality(Again) \in Nat
    BY PassedFacts DEF WInv
  <2> QED
    BY <2>1 DEF WInv, TypeOK
<1> QED
  BY <1>1, WalkInvariant, PTL

KeepsPromise ==
    walk'.offset # walk.offset /\ (walk.filter = NULL \/ walk.step = "count") =>
         \/ walk'.shown = walk.limit
         \/ walk.offset + walk'.shown >= walk'.total

LEMMA PageKeeps ==
    ASSUME WInv, NEW order \in Orders, NEW total \in Nat, Shown(Page(order), total),
           total <= Cardinality(Listed)
    PROVE  KeepsPromise
<1> DEFINE page == Page(order)
<1>1. walk'.shown = Len(page) /\ walk'.total = total
  BY DEF Shown, WInv, TypeOK, Walks
<1>2. Cardinality(Listed) \in Nat /\ walk.offset \in Nat /\ walk.limit \in Nat
  BY ListedFacts, ListingAssumption DEF WInv, TypeOK, Walks
<1>3. \/ Len(page) = walk.limit
      \/ /\ Len(page) = IF walk.offset < Cardinality(Listed)
                        THEN Cardinality(Listed) - walk.offset ELSE 0
  BY <1>2, PageFacts DEF WInv
<1>4. walk.offset + Len(page) >= total \/ Len(page) = walk.limit
  BY <1>2, <1>3
<1> QED
  BY <1>1, <1>4 DEF KeepsPromise

(* An unfiltered page, and every page of the runtime selection, is no      *)
(* shorter than its X-Total-Count leaves room for.                         *)
THEOREM PagesKeepPromise == Spec => PageKeepsPromise
<1>1. ASSUME WInv, [Next]_vars
      PROVE  KeepsPromise \/ UNCHANGED vars
  <2>1. CASE SelectPage
    <3>1. PICK order \in Orders : Shown(Page(order), walk.total)
      BY <2>1 DEF SelectPage
    <3>2. walk.step = "page" /\ walk.total \in Nat
      BY <1>1, <2>1 DEF SelectPage, WInv, TypeOK, Walks
    <3>3. CASE walk.filter = NULL
      <4>1. walk.total <= Cardinality(Listed)
        BY <1>1, <3>2, <3>3 DEF WInv, CountSound
      <4> QED
        BY <1>1, <3>1, <3>2, <4>1, PageKeeps
    <3>4. CASE walk.filter # NULL
      BY <3>2, <3>4 DEF KeepsPromise
    <3> QED
      BY <3>3, <3>4
  <2>2. CASE CutPage
    <3>1. PICK order \in Orders : Shown(Page(order), Len(order))
      BY <2>2 DEF CutPage
    <3>2. Len(order) = Cardinality(Listed) /\ Len(order) \in Nat
      BY <1>1, OrderFacts, ListedFacts DEF WInv
    <3> QED
      BY <1>1, <3>1, <3>2, PageKeeps
  <2>3. CASE walk'.offset = walk.offset
    BY <2>3 DEF KeepsPromise
  <2>4. Begin \/ SelectCount \/ Write => walk'.offset = walk.offset
    BY <1>1 DEF Begin, SelectCount, Write, Tick, Flush, Commit, Rollback, ChangeStatus,
                Committed, WInv, TypeOK, Walks
  <2> QED
    BY <1>1, <2>1, <2>2, <2>3, <2>4 DEF Next
<1>2. PageKeepsPromise <=> [][KeepsPromise]_vars
  BY PTL DEF PageKeepsPromise, KeepsPromise
<1> QED
  BY <1>1, <1>2, WalkInvariant, PTL DEF Spec
=============================================================================
