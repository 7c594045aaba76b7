--------------------------- MODULE ListPagingProofs ---------------------------
(* Paging by LIMIT and OFFSET over a table that moves, for every number of *)
(* payments and every limit: what a reader misses and sees twice is paid   *)
(* for by rows that left and entered the list.                             *)
(*                                                                         *)
(* The argument counts rows on the wrong side of the offset: those the     *)
(* reader has yet to see that are ahead of it (they are missed), and those *)
(* it has seen that are behind it (they will be seen again).  A row that   *)
(* enters or leaves the list moves every other by at most one place, and   *)
(* places are taken once, so each such step adds at most one of them.      *)
EXTENDS ListPaging, FiniteSetTheorems, TLAPS

(* Places in a list.                                                       *)

\* The place of i among the rows of M, newest first.
PlaceIn(M, i) == Cardinality({j \in M : j >= i})

\* Ids are numbers, and sets of them can be counted.
LEMMA IdsCounted ==
  /\ Ids \subseteq Nat
  /\ \A D \in SUBSET Ids : IsFiniteSet(D) /\ Cardinality(D) \in Nat
  <1>1. Ids \subseteq Nat /\ IsFiniteSet(Ids)
    BY LimitsAssumption, FS_Interval DEF Ids
  <1>2. ASSUME NEW D \in SUBSET Ids
        PROVE  IsFiniteSet(D) /\ Cardinality(D) \in Nat
    BY <1>1, FS_Subset, FS_CardinalityType
  <1> QED  BY <1>1, <1>2

\* Fewer elements in a part.
LEMMA PartCounted ==
  ASSUME NEW D \in SUBSET Ids, NEW E \in SUBSET D
  PROVE  Cardinality(E) \in Nat /\ Cardinality(E) <= Cardinality(D)
  <1>1. E \in SUBSET Ids
    OBVIOUS
  <1> QED  BY <1>1, IdsCounted, FS_Subset

\* Places are natural numbers.
LEMMA PlaceType ==
  ASSUME NEW M \in SUBSET Ids, NEW i
  PROVE  PlaceIn(M, i) \in Nat
  <1>1. {j \in M : j >= i} \in SUBSET Ids
    OBVIOUS
  <1> QED  BY <1>1, IdsCounted DEF PlaceIn

\* The first place is 1.
LEMMA PlacePositive ==
  ASSUME NEW M \in SUBSET Ids, NEW i \in M
  PROVE  PlaceIn(M, i) >= 1
  <1>1. PICK A : A = {j \in M : j >= i}
    OBVIOUS
  <1>2. i \in Nat
    BY IdsCounted
  <1>3. A \in SUBSET Ids /\ i \in A
    <2>1. A \in SUBSET Ids
      BY <1>1
    <2>2. i \in A
      BY <1>1, <1>2
    <2> QED  BY <2>1, <2>2
  <1>4. Cardinality(A) \in Nat /\ Cardinality(A) # 0
    BY <1>3, IdsCounted, FS_EmptySet
  <1> QED  BY <1>1, <1>4 DEF PlaceIn

\* A newer row has an earlier place.
LEMMA NewerFirst ==
  ASSUME NEW M \in SUBSET Ids, NEW i \in M, NEW j \in M, i < j
  PROVE  PlaceIn(M, j) < PlaceIn(M, i)
  <1> DEFINE A == {k \in M : k >= i}
             B == {k \in M : k >= j}
  <1>0. i \in Nat /\ j \in Nat /\ \A k \in M : k \in Nat
    BY IdsCounted
  <1>1. /\ A \in SUBSET Ids /\ B \in SUBSET A /\ i \in A /\ i \notin B
    <2>1. A \in SUBSET Ids
      OBVIOUS
    <2>2. i \in A /\ i \notin B
      BY <1>0
    <2>3. ASSUME NEW k \in B  PROVE k \in A
      <3>1. k \in M /\ k >= j /\ k \in Nat
        BY <1>0
      <3>2. k >= i
        BY <1>0, <3>1
      <3> QED  BY <3>1, <3>2
    <2> QED  BY <2>1, <2>2, <2>3
  <1>2. IsFiniteSet(A) /\ Cardinality(A) \in Nat
    BY <1>1, IdsCounted
  <1>3. Cardinality(B) \in Nat /\ Cardinality(B) <= Cardinality(A)
    BY <1>1, PartCounted
  <1>4. Cardinality(B) # Cardinality(A)
    BY <1>1, <1>2, FS_Subset
  <1>5. Cardinality(B) < Cardinality(A)
    BY <1>2, <1>3, <1>4
  <1> QED  BY <1>5 DEF PlaceIn

\* Two rows do not share a place.
LEMMA PlacesDiffer ==
  ASSUME NEW M \in SUBSET Ids, NEW i \in M, NEW j \in M, i # j
  PROVE  PlaceIn(M, i) # PlaceIn(M, j)
  <1>1. i \in Nat /\ j \in Nat
    BY IdsCounted
  <1>2. PlaceIn(M, i) \in Nat /\ PlaceIn(M, j) \in Nat
    BY PlaceType
  <1>3. CASE i < j
    BY <1>2, <1>3, NewerFirst
  <1>4. CASE j < i
    BY <1>2, <1>4, NewerFirst
  <1> QED  BY <1>1, <1>3, <1>4

\* So many places hold no more rows.
LEMMA PlacesHold ==
  ASSUME NEW M \in SUBSET Ids, NEW D \in SUBSET M, NEW a \in Nat, NEW b \in Nat, a <= b,
         \A i \in D : PlaceIn(M, i) \in a + 1 .. b
  PROVE  Cardinality(D) <= b - a
  <1> DEFINE T == a + 1 .. b
             f == [i \in D |-> PlaceIn(M, i)]
  <1>1. IsFiniteSet(T) /\ Cardinality(T) = b - a
    <2>1. a + 1 \in Int /\ b \in Int
      OBVIOUS
    <2>2. /\ IsFiniteSet(T)
          /\ Cardinality(T) = IF a + 1 > b THEN 0 ELSE b - (a + 1) + 1
      BY <2>1, FS_Interval
    <2> QED  BY <2>2
  <1>2. f \in [D -> T]
    OBVIOUS
  <1>3. \A i, j \in D : f[i] = f[j] => i = j
    BY PlacesDiffer
  <1>4. f \in Injection(D, T)
    BY <1>2, <1>3 DEF Injection, IsInjective
  <1>5. Cardinality(D) <= Cardinality(T)
    BY <1>1, <1>4, FS_Injection
  <1> QED  BY <1>1, <1>5

\* One place holds one row.
LEMMA OneInPlace ==
  ASSUME NEW M \in SUBSET Ids, NEW o \in Nat
  PROVE  Cardinality({i \in M : PlaceIn(M, i) = o + 1}) <= 1
  <1> DEFINE D == {i \in M : PlaceIn(M, i) = o + 1}
  <1>1. D \in SUBSET M /\ \A i \in D : PlaceIn(M, i) \in o + 1 .. o + 1
    OBVIOUS
  <1>2. Cardinality(D) <= (o + 1) - o
    BY <1>1, PlacesHold
  <1> QED  BY <1>2

\* Moving the offset on by the length of a page puts that page, and no other
\* row, ahead of it (List: LIMIT and OFFSET).
LEMMA PageMovesOffset ==
  ASSUME NEW M \in SUBSET Ids, NEW o \in Nat, NEW l \in Nat, NEW P,
         P = {i \in M : PlaceIn(M, i) \in o + 1 .. o + l}, NEW i \in M
  PROVE  PlaceIn(M, i) <= o + Cardinality(P) <=> PlaceIn(M, i) <= o \/ i \in P
  <1>1. P \in SUBSET M /\ P \in SUBSET Ids /\ PlaceIn(M, i) \in Nat
    BY PlaceType
  <1>2. Cardinality(P) \in Nat /\ Cardinality(P) <= l
    <2>1. o + l \in Nat /\ o <= o + l
      OBVIOUS
    <2>2. Cardinality(P) <= (o + l) - o
      BY <1>1, <2>1, PlacesHold
    <2> QED  BY <1>1, <2>2, IdsCounted
  <1>3. ASSUME PlaceIn(M, i) > o, i \notin P
        PROVE  PlaceIn(M, i) > o + Cardinality(P)
    BY <1>1, <1>2, <1>3
  <1>4. ASSUME i \in P
        PROVE  PlaceIn(M, i) <= o + Cardinality(P)
    <2> DEFINE A == {j \in M : j >= i}
               R == {j \in A : PlaceIn(M, j) <= o}
    <2>1. A \in SUBSET Ids /\ R \in SUBSET M /\ R \in SUBSET Ids
      OBVIOUS
    <2>2. A \subseteq R \cup P
      <3> SUFFICES ASSUME NEW j \in A, ~(PlaceIn(M, j) <= o)
                   PROVE  j \in P
        OBVIOUS
      <3>1. j \in M /\ i \in Nat /\ j \in Nat /\ j >= i
        BY IdsCounted
      <3>2. PlaceIn(M, j) <= PlaceIn(M, i) /\ PlaceIn(M, j) \in Nat
        BY <1>1, <3>1, NewerFirst, PlaceType
      <3>3. PlaceIn(M, i) <= o + l
        BY <1>4
      <3> QED  BY <1>1, <3>1, <3>2, <3>3
    <2>3. Cardinality(R) <= o /\ Cardinality(R) \in Nat
      <3>1. \A j \in R : PlaceIn(M, j) \in 0 + 1 .. o
        <4> SUFFICES ASSUME NEW j \in R  PROVE PlaceIn(M, j) \in 1 .. o
          OBVIOUS
        <4> QED  BY PlacePositive, PlaceType
      <3>2. 0 \in Nat /\ o \in Nat /\ 0 <= o
        OBVIOUS
      <3>3. Cardinality(R) <= o - 0
        BY <2>1, <3>1, <3>2, PlacesHold
      <3> QED  BY <2>1, <3>3, IdsCounted
    <2>4. /\ IsFiniteSet(R) /\ IsFiniteSet(P)
          /\ R \cap P \in SUBSET Ids /\ R \cup P \in SUBSET Ids
      BY <1>1, <2>1, IdsCounted
    <2>5. Cardinality(R \cup P) = Cardinality(R) + Cardinality(P) - Cardinality(R \cap P)
      BY <2>4, FS_Union
    <2>6. Cardinality(R \cap P) \in Nat /\ Cardinality(A) <= Cardinality(R \cup P)
      BY <2>2, <2>4, IdsCounted, PartCounted
    <2>7. PlaceIn(M, i) = Cardinality(A)
      BY DEF PlaceIn
    <2> HIDE DEF A, R
    <2> QED  BY <1>1, <1>2, <2>3, <2>5, <2>6, <2>7
  <1> QED  BY <1>1, <1>2, <1>3, <1>4

\* No place is left out: behind an empty page there is nothing.
LEMMA EmptyPageEndsList ==
  ASSUME NEW M \in SUBSET Ids, NEW o \in Nat, NEW l \in Nat, l >= 1,
         \A i \in M : PlaceIn(M, i) \notin o + 1 .. o + l
  PROVE  \A i \in M : PlaceIn(M, i) <= o
  <1> SUFFICES ASSUME NEW i \in M, ~(PlaceIn(M, i) <= o)
               PROVE  FALSE
    OBVIOUS
  <1> DEFINE R == {j \in M : PlaceIn(M, j) <= o}
             D == {j \in M : PlaceIn(M, j) > o + 1}
             m == Cardinality(M)
  <1>1. \A j \in M : PlaceIn(M, j) \in Nat /\ PlaceIn(M, j) \in 1 .. m
    <2> SUFFICES ASSUME NEW j \in M
                 PROVE  PlaceIn(M, j) \in Nat /\ PlaceIn(M, j) \in 1 .. m
      OBVIOUS
    <2>1. {k \in M : k >= j} \in SUBSET M
      OBVIOUS
    <2>2. PlaceIn(M, j) <= m /\ m \in Nat
      BY <2>1, PartCounted, IdsCounted DEF PlaceIn
    <2> QED  BY <2>2, PlaceType, PlacePositive
  <1>2. /\ R \in SUBSET M /\ D \in SUBSET M /\ R \in SUBSET Ids /\ D \in SUBSET Ids
        /\ R \cap D \in SUBSET Ids /\ m \in Nat
    BY IdsCounted
  <1>3. M = R \cup D /\ i \in D
    <2>1. ASSUME NEW j \in M, ~(PlaceIn(M, j) <= o)
          PROVE  PlaceIn(M, j) > o + 1
      BY <1>1, <2>1
    <2> QED  BY <2>1
  <1>4. Cardinality(R) <= o
    <2>1. \A j \in R : PlaceIn(M, j) \in 0 + 1 .. o
      BY <1>1
    <2>2. 0 \in Nat /\ o \in Nat /\ 0 <= o
      OBVIOUS
    <2>3. Cardinality(R) <= o - 0
      BY <1>2, <2>1, <2>2, PlacesHold
    <2> QED  BY <1>2, <2>3, IdsCounted
  <1>5. Cardinality(D) <= m - (o + 1)
    <2>1. o + 1 \in Nat /\ m \in Nat /\ o + 1 <= m
      BY <1>1, <1>2, <1>3
    <2>2. \A j \in D : PlaceIn(M, j) \in (o + 1) + 1 .. m
      BY <1>1, <1>2
    <2> QED  BY <1>2, <2>1, <2>2, PlacesHold
  <1>6. /\ Cardinality(R) \in Nat /\ Cardinality(D) \in Nat
        /\ Cardinality(R \cap D) \in Nat
        /\ IsFiniteSet(R) /\ IsFiniteSet(D)
    BY <1>2, IdsCounted
  <1>7. Cardinality(R \cup D) = Cardinality(R) + Cardinality(D) - Cardinality(R \cap D)
    BY <1>6, FS_Union
  <1>8. m = Cardinality(R \cup D)
    BY <1>3
  <1> HIDE DEF R, D, m
  <1> QED  BY <1>2, <1>4, <1>5, <1>6, <1>7, <1>8

\* A row that joins a list moves the others back by at most one place.
LEMMA JoinMoves ==
  ASSUME NEW M \in SUBSET Ids, NEW x \in Ids \ M, NEW i \in M
  PROVE  \/ PlaceIn(M \cup {x}, i) = PlaceIn(M, i)
         \/ PlaceIn(M \cup {x}, i) = PlaceIn(M, i) + 1
  <1> DEFINE A == {j \in M : j >= i}
             B == {j \in M \cup {x} : j >= i}
  <1>1. A \in SUBSET Ids /\ IsFiniteSet(A) /\ x \notin A
    BY IdsCounted
  <1>2. CASE x >= i
    <2>1. B = A \cup {x}
      BY <1>2
    <2>2. Cardinality(B) = Cardinality(A) + 1
      BY <1>1, <2>1, FS_AddElement
    <2> QED  BY <2>2 DEF PlaceIn
  <1>3. CASE ~(x >= i)
    <2>1. B = A
      BY <1>3
    <2> QED  BY <2>1 DEF PlaceIn
  <1> QED  BY <1>2, <1>3

\* A row that leaves it moves them up by at most one.
LEMMA LeaveMoves ==
  ASSUME NEW M \in SUBSET Ids, NEW x \in M, NEW i \in M \ {x}
  PROVE  \/ PlaceIn(M, i) = PlaceIn(M \ {x}, i)
         \/ PlaceIn(M, i) = PlaceIn(M \ {x}, i) + 1
  <1>1. PICK N : N = M \ {x}
    OBVIOUS
  <1>2. N \in SUBSET Ids /\ x \in Ids \ N /\ i \in N /\ N \cup {x} = M
    BY <1>1
  <1>3. \/ PlaceIn(N \cup {x}, i) = PlaceIn(N, i)
        \/ PlaceIn(N \cup {x}, i) = PlaceIn(N, i) + 1
    BY <1>2, JoinMoves
  <1> QED  BY <1>1, <1>2, <1>3

-------------------------------------------------------------------------------
(* Rows on the wrong side of the offset.                                   *)

\* The rows of K that are ahead of the offset, and those behind it.
Ahead(M, K, o) == {i \in K : PlaceIn(M, i) <= o}
Behind(M, K, o) == {i \in K : PlaceIn(M, i) > o}

\* A row that joins the list puts none of the others ahead of the offset.
LEMMA JoinAhead ==
  ASSUME NEW M \in SUBSET Ids, NEW x \in Ids \ M, NEW K \in SUBSET M, NEW o \in Nat
  PROVE  Ahead(M \cup {x}, K, o) \subseteq Ahead(M, K, o)
  <1> SUFFICES ASSUME NEW i \in K, PlaceIn(M \cup {x}, i) <= o
               PROVE  PlaceIn(M, i) <= o
    BY DEF Ahead
  <1>1. PlaceIn(M, i) \in Nat
    BY PlaceType
  <1> QED  BY <1>1, JoinMoves

\* A row that leaves it puts at most one of the others ahead of the offset.
LEMMA LeaveAhead ==
  ASSUME NEW M \in SUBSET Ids, NEW x \in M, NEW K \in SUBSET M,
         NEW L \in SUBSET (K \ {x}), NEW o \in Nat
  PROVE  Cardinality(Ahead(M \ {x}, L, o)) <= Cardinality(Ahead(M, K, o)) + 1
  <1> DEFINE A == Ahead(M \ {x}, L, o)
             B == Ahead(M, K, o)
             N == {i \in M : PlaceIn(M, i) = o + 1}
  <1>1. A \in SUBSET (B \cup N)
    <2> SUFFICES ASSUME NEW i \in L, PlaceIn(M \ {x}, i) <= o
                 PROVE  PlaceIn(M, i) <= o \/ PlaceIn(M, i) = o + 1
      BY DEF Ahead
    <2>1. i \in M \ {x}
      OBVIOUS
    <2>2. PlaceIn(M, i) \in Nat /\ PlaceIn(M \ {x}, i) \in Nat
      <3>1. M \ {x} \in SUBSET Ids
        OBVIOUS
      <3> QED  BY <3>1, PlaceType
    <2> QED  BY <2>1, <2>2, LeaveMoves
  <1>2. B \in SUBSET Ids /\ N \in SUBSET Ids /\ B \cup N \in SUBSET Ids
        /\ B \cap N \in SUBSET Ids
    BY DEF Ahead
  <1>3. Cardinality(N) <= 1
    BY OneInPlace
  <1> HIDE DEF A, B, N
  <1>4. Cardinality(B \cup N) = Cardinality(B) + Cardinality(N) - Cardinality(B \cap N)
    BY <1>2, IdsCounted, FS_Union
  <1>5. /\ Cardinality(B) \in Nat /\ Cardinality(N) \in Nat
        /\ Cardinality(B \cap N) \in Nat
    BY <1>2, IdsCounted
  <1>6. Cardinality(A) \in Nat /\ Cardinality(A) <= Cardinality(B \cup N)
    BY <1>1, <1>2, PartCounted
  <1>7. Cardinality(A) <= Cardinality(B) + 1
    BY <1>3, <1>4, <1>5, <1>6
  <1> QED  BY <1>7 DEF A, B

\* A row that joins the list puts at most one of the others behind the offset.
LEMMA JoinBehind ==
  ASSUME NEW M \in SUBSET Ids, NEW x \in Ids \ M, NEW K \in SUBSET M, NEW o \in Nat
  PROVE  Cardinality(Behind(M \cup {x}, K, o)) <= Cardinality(Behind(M, K, o)) + 1
  <1> DEFINE A == Behind(M \cup {x}, K, o)
             B == Behind(M, K, o)
             N == {i \in M \cup {x} : PlaceIn(M \cup {x}, i) = o + 1}
  <1>1. A \in SUBSET (B \cup N)
    <2> SUFFICES ASSUME NEW i \in K, PlaceIn(M \cup {x}, i) > o
                 PROVE  PlaceIn(M, i) > o \/ PlaceIn(M \cup {x}, i) = o + 1
      BY DEF Behind
    <2>1. PlaceIn(M, i) \in Nat /\ PlaceIn(M \cup {x}, i) \in Nat
      <3>1. M \cup {x} \in SUBSET Ids
        OBVIOUS
      <3> QED  BY <3>1, PlaceType
    <2> QED  BY <2>1, JoinMoves
  <1>2. B \in SUBSET Ids /\ N \in SUBSET Ids /\ B \cup N \in SUBSET Ids
        /\ B \cap N \in SUBSET Ids
    BY DEF Behind
  <1>3. Cardinality(N) <= 1
    <2>1. M \cup {x} \in SUBSET Ids
      OBVIOUS
    <2> QED  BY <2>1, OneInPlace
  <1> HIDE DEF A, B, N
  <1>4. Cardinality(B \cup N) = Cardinality(B) + Cardinality(N) - Cardinality(B \cap N)
    BY <1>2, IdsCounted, FS_Union
  <1>5. /\ Cardinality(B) \in Nat /\ Cardinality(N) \in Nat
        /\ Cardinality(B \cap N) \in Nat
    BY <1>2, IdsCounted
  <1>6. Cardinality(A) \in Nat /\ Cardinality(A) <= Cardinality(B \cup N)
    BY <1>1, <1>2, PartCounted
  <1>7. Cardinality(A) <= Cardinality(B) + 1
    BY <1>3, <1>4, <1>5, <1>6
  <1> QED  BY <1>7 DEF A, B

\* A row that leaves it puts none behind.
LEMMA LeaveBehind ==
  ASSUME NEW M \in SUBSET Ids, NEW x \in M, NEW K \in SUBSET M, NEW o \in Nat
  PROVE  Behind(M \ {x}, K \ {x}, o) \subseteq Behind(M, K, o)
  <1> SUFFICES ASSUME NEW i \in K \ {x}, PlaceIn(M \ {x}, i) > o
               PROVE  PlaceIn(M, i) > o
    BY DEF Behind
  <1>1. PlaceIn(M \ {x}, i) \in Nat
    <2>1. M \ {x} \in SUBSET Ids
      OBVIOUS
    <2> QED  BY <2>1, PlaceType
  <1>2. i \in M \ {x}
    OBVIOUS
  <1> QED  BY <1>1, <1>2, LeaveMoves

-------------------------------------------------------------------------------
(* The reader.                                                             *)

\* What a row was when it was read, it is not again: one that entered the list
\* is new to the reader.
SeenOnce ==
    \A i \in seen : row[i] # "absent" /\ (filter = "paid" => row[i] = "paid")

\* Before the first page there is nothing to count.
NotStarted ==
    reader = "ready" =>
        /\ offset = 0 /\ seen = {} /\ kept = Matching
        /\ repeated = 0 /\ came = 0 /\ left = 0

\* While a caller reads, the rows it kept and has not seen that are ahead of the
\* offset are no more than left the list; and those it has seen that are behind
\* it, with those it saw twice already, no more than came.
ReadingCovered ==
    reader = "reading" =>
        /\ kept \subseteq Matching
        /\ Cardinality(Ahead(Matching, kept \ seen, offset)) <= left
        /\ repeated + Cardinality(Behind(Matching, seen \cap Matching, offset)) <= came

ReadInv == /\ TypeOK /\ SeenOnce /\ NotStarted /\ ReadingCovered
           /\ MissesAreCovered /\ RepeatsAreCovered

\* A page and a place, in the terms of the lemmas above.
LEMMA PageInPlaces ==
  /\ Matching \in SUBSET Ids
  /\ Page = {i \in Matching : PlaceIn(Matching, i) \in offset + 1 .. offset + limit}
  BY DEF Page, Place, PlaceIn, Matching

\* A table that holds still for the list, gains a row the reader has not seen,
\* or loses one.
ListMoved ==
    \/ Matching' = Matching
    \/ \E x \in Ids \ Matching : Matching' = Matching \cup {x} /\ x \notin seen
    \/ \E x \in Matching : Matching' = Matching \ {x}

\* An INSERT that commits adds a row to the list, if it asks for pending ones.
LEMMA CommitMoves ==
  ASSUME ReadInv, NEW i \in Ids, Commit(i)
  PROVE  ListMoved /\ SeenOnce' /\ row' \in [Ids -> {"absent", "pending", "paid"}]
  <1>1. /\ row \in [Ids -> {"absent", "pending", "paid"}]
        /\ row[i] = "absent" /\ row' = [row EXCEPT ![i] = "pending"]
        /\ filter' = filter /\ seen' = seen
    BY DEF Commit, ReadInv, TypeOK, askVars, readerVars
  <1>2. i \notin seen /\ i \notin Matching
    BY <1>1 DEF ReadInv, SeenOnce, Matching
  <1>3. CASE filter \in {"any", "pending"}
    <2>1. Matching' = Matching \cup {i}
      BY <1>1, <1>3 DEF Matching
    <2> QED  BY <1>1, <1>2, <2>1 DEF ListMoved, ReadInv, SeenOnce
  <1>4. CASE filter \notin {"any", "pending"}
    <2>1. Matching' = Matching
      BY <1>1, <1>4 DEF Matching
    <2> QED  BY <1>1, <1>2, <2>1 DEF ListMoved, ReadInv, SeenOnce
  <1> QED  BY <1>3, <1>4

\* An outcome moves a row out of the list of pending ones, or into that of paid
\* ones, where the reader cannot have seen it.
LEMMA PaidMoves ==
  ASSUME ReadInv, NEW i \in Ids, GetsPaid(i)
  PROVE  ListMoved /\ SeenOnce' /\ row' \in [Ids -> {"absent", "pending", "paid"}]
  <1>1. /\ row \in [Ids -> {"absent", "pending", "paid"}]
        /\ row[i] = "pending" /\ row' = [row EXCEPT ![i] = "paid"]
        /\ filter' = filter /\ seen' = seen
    BY DEF GetsPaid, ReadInv, TypeOK, askVars, readerVars
  <1>2. filter \in {"any", "pending", "paid"}
    BY FiltersAssumption DEF ReadInv, TypeOK
  <1>3. SeenOnce'
    BY <1>1 DEF ReadInv, SeenOnce
  <1>4. CASE filter = "any"
    <2>1. Matching' = Matching
      BY <1>1, <1>4 DEF Matching
    <2> QED  BY <1>1, <1>3, <2>1 DEF ListMoved
  <1>5. CASE filter = "pending"
    <2>1. Matching' = Matching \ {i} /\ i \in Matching
      BY <1>1, <1>5 DEF Matching
    <2> QED  BY <1>1, <1>3, <2>1 DEF ListMoved
  <1>6. CASE filter = "paid"
    <2>1. Matching' = Matching \cup {i} /\ i \in Ids \ Matching
      BY <1>1, <1>6 DEF Matching
    <2>2. i \notin seen
      BY <1>1, <1>6 DEF ReadInv, SeenOnce
    <2> QED  BY <1>1, <1>3, <2>1, <2>2 DEF ListMoved
  <1> QED  BY <1>2, <1>4, <1>5, <1>6

\* ListMoves counts what enters and leaves, one row at a time, and the rows on
\* the wrong side of the offset grow by no more.
LEMMA MovesAreCovered ==
  ASSUME ReadInv, reader = "reading", ListMoved, ListMoves, UNCHANGED readerVars
  PROVE  /\ kept' \subseteq Ids /\ came' \in Nat /\ left' \in Nat /\ came <= came'
         /\ ReadingCovered'
  <1>1. PICK M, N, o, S, K : /\ M = Matching /\ N = Matching' /\ o = offset
                             /\ S = seen \cap M /\ K = kept \ seen
    OBVIOUS
  <1>2. /\ kept' = kept \cap N
        /\ came' = came + Cardinality(N \ M)
        /\ left' = left + Cardinality(M \ N)
        /\ offset' = o /\ seen' = seen /\ repeated' = repeated
    BY <1>1 DEF ListMoves, readerVars
  <1>3. /\ M \in SUBSET Ids /\ N \in SUBSET Ids /\ o \in Nat
        /\ kept \subseteq M /\ came \in Nat /\ left \in Nat /\ repeated \in Nat
        /\ Cardinality(Ahead(M, K, o)) <= left
        /\ repeated + Cardinality(Behind(M, S, o)) <= came
    BY <1>1 DEF ReadInv, TypeOK, ReadingCovered, Matching
  <1>4. S \in SUBSET M /\ K \in SUBSET M /\ K \cap N = kept' \ seen'
    BY <1>1, <1>2, <1>3
  <1>5. /\ Ahead(M, K, o) \in SUBSET Ids /\ Behind(M, S, o) \in SUBSET Ids
        /\ Ahead(N, K \cap N, o) \in SUBSET Ids /\ Behind(N, seen \cap N, o) \in SUBSET Ids
        /\ N \ M \in SUBSET Ids /\ M \ N \in SUBSET Ids
    BY <1>3, <1>4 DEF Ahead, Behind
  <1>6. /\ Cardinality(Ahead(M, K, o)) \in Nat /\ Cardinality(Behind(M, S, o)) \in Nat
        /\ Cardinality(Ahead(N, K \cap N, o)) \in Nat
        /\ Cardinality(Behind(N, seen \cap N, o)) \in Nat
        /\ Cardinality(N \ M) \in Nat /\ Cardinality(M \ N) \in Nat
    BY <1>5, IdsCounted
  <1>7. /\ kept' \subseteq Ids /\ came' \in Nat /\ left' \in Nat /\ came <= came'
        /\ kept' \subseteq N
    BY <1>2, <1>3, <1>6
  <1>8. /\ Cardinality(Ahead(N, K \cap N, o)) <= left'
        /\ repeated + Cardinality(Behind(N, seen \cap N, o)) <= came'
    <2>1. CASE N = M
      <3>1. K \cap N = K /\ seen \cap N = S /\ left <= left' /\ came <= came'
        BY <1>1, <1>2, <1>3, <1>4, <1>6, <2>1
      <3>2. /\ Ahead(N, K \cap N, o) = Ahead(M, K, o)
            /\ Behind(N, seen \cap N, o) = Behind(M, S, o)
        BY <2>1, <3>1
      <3>3. left' \in Nat /\ came' \in Nat
        BY <1>7
      <3> QED  BY <1>3, <1>6, <3>1, <3>2, <3>3
    <2>2. ASSUME NEW x \in Ids \ M, N = M \cup {x}, x \notin seen
          PROVE  /\ Cardinality(Ahead(N, K \cap N, o)) <= left'
                 /\ repeated + Cardinality(Behind(N, seen \cap N, o)) <= came'
      <3>1. /\ K \cap N = K /\ seen \cap N = S /\ N \ M = {x} /\ M \ N = {}
        BY <1>1, <1>4, <2>2
      <3>2. came' = came + 1 /\ left' = left
        <4>1. Cardinality(N \ M) = 1 /\ Cardinality(M \ N) = 0
          BY <3>1, FS_Singleton, FS_EmptySet
        <4> QED  BY <1>2, <1>3, <4>1
      <3>3. Cardinality(Ahead(N, K, o)) <= Cardinality(Ahead(M, K, o))
        <4>1. Ahead(N, K, o) \subseteq Ahead(M, K, o)
          BY <1>3, <1>4, <2>2, JoinAhead
        <4> QED  BY <1>5, <4>1, PartCounted
      <3>4. Cardinality(Behind(N, S, o)) <= Cardinality(Behind(M, S, o)) + 1
        BY <1>3, <1>4, <2>2, JoinBehind
      <3>5. /\ Ahead(N, K \cap N, o) = Ahead(N, K, o)
            /\ Behind(N, seen \cap N, o) = Behind(N, S, o)
        BY <3>1
      <3> QED  BY <1>3, <1>6, <3>2, <3>3, <3>4, <3>5
    <2>3. ASSUME NEW x \in M, N = M \ {x}
          PROVE  /\ Cardinality(Ahead(N, K \cap N, o)) <= left'
                 /\ repeated + Cardinality(Behind(N, seen \cap N, o)) <= came'
      <3>1. /\ K \cap N \in SUBSET (K \ {x}) /\ seen \cap N = S \ {x}
            /\ N \ M = {} /\ M \ N = {x}
        BY <1>1, <1>4, <2>3
      <3>2. came' = came /\ left' = left + 1
        <4>1. Cardinality(N \ M) = 0 /\ Cardinality(M \ N) = 1
          BY <3>1, FS_Singleton, FS_EmptySet
        <4> QED  BY <1>2, <1>3, <4>1
      <3>3. Cardinality(Ahead(N, K \cap N, o)) <= Cardinality(Ahead(M, K, o)) + 1
        BY <1>3, <1>4, <2>3, <3>1, LeaveAhead
      <3>4. Cardinality(Behind(N, S \ {x}, o)) <= Cardinality(Behind(M, S, o))
        <4>1. Behind(N, S \ {x}, o) \subseteq Behind(M, S, o)
          BY <1>3, <1>4, <2>3, LeaveBehind
        <4> QED  BY <1>5, <4>1, PartCounted
      <3>5. Behind(N, seen \cap N, o) = Behind(N, S \ {x}, o)
        BY <3>1
      <3> QED  BY <1>3, <1>6, <3>2, <3>3, <3>4, <3>5
    <2> QED  BY <1>1, <2>1, <2>2, <2>3 DEF ListMoved
  <1> QED  BY <1>1, <1>2, <1>4, <1>7, <1>8 DEF ReadingCovered

\* A caller that begins has nothing behind it and nothing left out.
LEMMA AskStarts ==
  ASSUME ReadInv, Ask
  PROVE  ReadInv'
  <1>1. /\ reader = "ready" /\ limit' = ValidLimit(limit)
        /\ reader' = (IF limit' = 0 THEN "refused" ELSE "reading")
        /\ allotted' = allotted /\ row' = row /\ filter' = filter /\ offset' = offset
        /\ seen' = seen /\ repeated' = repeated
        /\ kept' = kept /\ came' = came /\ left' = left
    BY DEF Ask, listVars
  <1>2. /\ offset = 0 /\ seen = {} /\ kept = Matching /\ TypeOK
        /\ repeated = 0 /\ came = 0 /\ left = 0
    BY <1>1 DEF ReadInv, NotStarted
  <1>3. Matching' = Matching
    BY <1>1 DEF Matching
  <1>4. limit' \in 0 .. MaxLimit
    BY <1>1, LimitsAssumption DEF ValidLimit
  <1>5. TypeOK'
    <2>1. limit' \in Int /\ (reader' = "reading" => limit' \in 1 .. MaxLimit)
      BY <1>1, <1>4, LimitsAssumption
    <2> QED  BY <1>1, <1>2, <2>1 DEF TypeOK
  <1>6. ReadingCovered'
    <2>1. Ahead(Matching, Matching \ {}, 0) = {}
      <3> SUFFICES ASSUME NEW i \in Matching, PlaceIn(Matching, i) <= 0
                   PROVE  FALSE
        BY DEF Ahead
      <3>1. PlaceIn(Matching, i) >= 1 /\ PlaceIn(Matching, i) \in Nat
        BY PageInPlaces, PlacePositive, PlaceType
      <3> QED  BY <3>1
    <2>2. Behind(Matching, {} \cap Matching, 0) = {}
      BY DEF Behind
    <2>3. /\ Cardinality(Ahead(Matching, kept \ seen, offset)) = 0
          /\ Cardinality(Behind(Matching, seen \cap Matching, offset)) = 0
      BY <1>2, <2>1, <2>2, FS_EmptySet
    <2>4. /\ kept \subseteq Matching
          /\ Cardinality(Ahead(Matching, kept \ seen, offset)) <= left
          /\ repeated + Cardinality(Behind(Matching, seen \cap Matching, offset)) <= came
      BY <1>2, <2>3
    <2> QED  BY <1>1, <1>3, <2>4 DEF ReadingCovered
  <1> QED
    BY <1>1, <1>5, <1>6
    DEF ReadInv, SeenOnce, NotStarted, MissesAreCovered, RepeatsAreCovered

\* A page moves its rows ahead of the offset and hands them to the reader: those
\* seen before were behind it, and are counted as repeated.
LEMMA PageIsCovered ==
  ASSUME ReadInv, ListPayments
  PROVE  ReadInv'
  <1>1. PICK M, P, o, S, K : /\ M = Matching /\ P = Page /\ o = offset
                             /\ S = seen \cap M /\ K = kept \ seen
    OBVIOUS
  <1>2. /\ reader = "reading" /\ seen' = seen \cup P
        /\ repeated' = repeated + Cardinality(seen \cap P)
        /\ offset' = o + Cardinality(P)
        /\ reader' = (IF P = {} THEN "done" ELSE "reading")
        /\ allotted' = allotted /\ row' = row /\ filter' = filter /\ limit' = limit
        /\ kept' = kept /\ came' = came /\ left' = left
    BY <1>1 DEF ListPayments, askVars, listVars
  <1>3. /\ M \in SUBSET Ids /\ o \in Nat /\ limit \in Nat /\ limit >= 1
        /\ P = {i \in M : PlaceIn(M, i) \in o + 1 .. o + limit}
    <2>1. limit \in 1 .. MaxLimit
      BY <1>2 DEF ReadInv, TypeOK
    <2> QED  BY <1>1, <2>1, PageInPlaces, LimitsAssumption DEF ReadInv, TypeOK
  <1>4. /\ kept \in SUBSET M /\ left \in Nat /\ came \in Nat /\ repeated \in Nat
        /\ seen \in SUBSET Ids /\ TypeOK
        /\ Cardinality(Ahead(M, K, o)) <= left
        /\ repeated + Cardinality(Behind(M, S, o)) <= came
    BY <1>1, <1>2 DEF ReadInv, TypeOK, ReadingCovered
  <1>5. Matching' = M
    BY <1>1, <1>2 DEF Matching
  <1>6. /\ P \in SUBSET M /\ P \in SUBSET Ids /\ seen \cap P \in SUBSET Ids
        /\ Cardinality(P) \in Nat /\ Cardinality(seen \cap P) \in Nat
    <2>1. P \in SUBSET M /\ P \in SUBSET Ids /\ seen \cap P \in SUBSET Ids
      BY <1>3
    <2> QED  BY <2>1, IdsCounted
  <1>7. PICK q : q = offset'
    OBVIOUS
  <1>8. \A i \in M : /\ PlaceIn(M, i) \in Nat
                     /\ PlaceIn(M, i) <= q <=> (PlaceIn(M, i) <= o \/ i \in P)
    BY <1>2, <1>3, <1>7, PageMovesOffset, PlaceType
  <1>9. Cardinality(Ahead(M, kept' \ seen', q)) <= left
    <2>1. PICK A, B : A = Ahead(M, K, o) /\ B = Ahead(M, kept' \ seen', q)
      OBVIOUS
    <2>2. A \in SUBSET Ids
      BY <1>1, <1>3, <1>4, <2>1 DEF Ahead
    <2>3. B \in SUBSET A
      <3> SUFFICES ASSUME NEW i \in kept' \ seen', PlaceIn(M, i) <= q
                   PROVE  i \in K /\ PlaceIn(M, i) <= o
        BY <2>1 DEF Ahead
      <3>1. i \in K /\ i \notin P /\ i \in M
        BY <1>1, <1>2, <1>4
      <3> QED  BY <1>8, <3>1
    <2>4. Cardinality(B) \in Nat /\ Cardinality(B) <= Cardinality(A) /\ Cardinality(A) \in Nat
      BY <2>2, <2>3, PartCounted, IdsCounted
    <2> QED  BY <1>4, <2>1, <2>4
  <1>10. /\ repeated' + Cardinality(Behind(M, seen' \cap M, q)) <= came
         /\ Cardinality(Behind(M, seen' \cap M, q)) \in Nat
    <2>1. PICK A, B, R : /\ A = Behind(M, S, o) /\ B = Behind(M, seen' \cap M, q)
                         /\ R = seen \cap P
      OBVIOUS
    <2>2. A \in SUBSET Ids /\ B \in SUBSET Ids /\ R \in SUBSET Ids
      BY <1>1, <1>3, <1>6, <2>1 DEF Behind
    <2>3. B \subseteq A /\ B \cap R = {}
      <3> SUFFICES ASSUME NEW i \in seen' \cap M, PlaceIn(M, i) > q
                   PROVE  i \in S /\ PlaceIn(M, i) > o /\ i \notin P
        BY <2>1 DEF Behind
      <3>1. q \in Nat
        BY <1>2, <1>3, <1>6, <1>7
      <3>2. ~(PlaceIn(M, i) <= q) /\ PlaceIn(M, i) \in Nat
        BY <1>8, <3>1
      <3>3. i \notin P /\ PlaceIn(M, i) > o
        BY <1>3, <1>8, <3>2
      <3> QED  BY <1>1, <1>2, <3>3
    <2>4. R \subseteq A
      <3> SUFFICES ASSUME NEW i \in seen \cap P
                   PROVE  i \in S /\ PlaceIn(M, i) > o
        BY <2>1 DEF Behind
      <3>1. i \in M /\ PlaceIn(M, i) \in Nat /\ PlaceIn(M, i) \in o + 1 .. o + limit
        BY <1>3, <1>8
      <3> QED  BY <1>1, <1>3, <3>1
    <2>5. B \cup R \in SUBSET A /\ IsFiniteSet(B) /\ IsFiniteSet(R)
      BY <2>2, <2>3, <2>4, IdsCounted
    <2>6. /\ Cardinality(B \cup R) <= Cardinality(A)
          /\ Cardinality(B \cup R) = Cardinality(B) + Cardinality(R) - Cardinality(B \cap R)
          /\ Cardinality(B \cap R) = 0
      BY <2>2, <2>3, <2>5, PartCounted, FS_Union, FS_EmptySet
    <2>7. Cardinality(A) \in Nat /\ Cardinality(B) \in Nat /\ Cardinality(R) \in Nat
      BY <2>2, IdsCounted
    <2>8. Cardinality(B) + Cardinality(R) <= Cardinality(A)
      BY <2>6, <2>7
    <2>9. /\ repeated' = repeated + Cardinality(R)
          /\ repeated + Cardinality(A) <= came
      BY <1>2, <1>4, <2>1
    <2>10. repeated' + Cardinality(B) <= came
      BY <1>4, <2>7, <2>8, <2>9
    <2> QED  BY <2>1, <2>7, <2>10
  <1>11. TypeOK'
    <2>1. offset' \in Nat /\ repeated' \in Nat /\ seen' \subseteq Ids
      BY <1>2, <1>3, <1>4, <1>6
    <2> QED  BY <1>2, <1>4, <2>1 DEF TypeOK
  <1>12. ReadingCovered'
    <2>1. /\ kept' \subseteq Matching'
          /\ Cardinality(Ahead(Matching', kept' \ seen', offset')) <= left'
          /\ repeated' + Cardinality(Behind(Matching', seen' \cap Matching', offset')) <= came'
      BY <1>2, <1>4, <1>5, <1>7, <1>9, <1>10
    <2> QED  BY <2>1 DEF ReadingCovered
  <1>13. RepeatsAreCovered'
    <2>1. repeated' <= came
      BY <1>4, <1>10, <1>11 DEF TypeOK
    <2> QED  BY <1>2, <2>1 DEF RepeatsAreCovered
  <1>14. MissesAreCovered'
    <2> SUFFICES ASSUME P = {}
                 PROVE  Cardinality(kept \ seen) <= left
      BY <1>2 DEF MissesAreCovered
    <2>1. \A i \in M : PlaceIn(M, i) \notin o + 1 .. o + limit
      BY <1>3
    <2>2. \A i \in M : PlaceIn(M, i) <= o
      BY <1>3, <2>1, EmptyPageEndsList
    <2>3. Ahead(M, K, o) = K
      BY <1>1, <1>4, <2>2 DEF Ahead
    <2> QED  BY <1>1, <1>4, <2>3
  <1>15. SeenOnce' /\ NotStarted'
    <2>1. SeenOnce'
      <3>1. \A i \in P : row[i] # "absent" /\ (filter = "paid" => row[i] = "paid")
        BY <1>1, <1>6 DEF Matching
      <3> QED  BY <1>2, <3>1 DEF ReadInv, SeenOnce
    <2> QED  BY <1>2, <2>1 DEF NotStarted
  <1> QED  BY <1>11, <1>12, <1>13, <1>14, <1>15 DEF ReadInv

\* A step of the table that moves the list as ListMoves says keeps all of it.
LEMMA TableStepIsCovered ==
  ASSUME ReadInv, ListMoved, ListMoves, UNCHANGED <<allotted, askVars, readerVars>>,
         SeenOnce', row' \in [Ids -> {"absent", "pending", "paid"}]
  PROVE  ReadInv'
  <1>1. /\ allotted' = allotted /\ filter' = filter /\ limit' = limit
        /\ offset' = offset /\ reader' = reader /\ seen' = seen /\ repeated' = repeated
    BY DEF askVars, readerVars
  <1>2. TypeOK /\ reader \in {"ready", "reading", "done", "refused"}
    BY DEF ReadInv, TypeOK
  <1>3. CASE reader = "ready"
    <2>1. kept' = Matching' /\ came' = came /\ left' = left
      BY <1>3 DEF ListMoves
    <2>2. Matching' \subseteq Ids
      BY DEF Matching
    <2>3. TypeOK'
      BY <1>1, <1>2, <2>1, <2>2 DEF TypeOK
    <2>4. NotStarted'
      BY <1>1, <1>3, <2>1 DEF ReadInv, NotStarted
    <2>5. ReadingCovered' /\ MissesAreCovered' /\ RepeatsAreCovered'
      BY <1>1, <1>3, <2>1 DEF ReadInv, ReadingCovered, MissesAreCovered, RepeatsAreCovered
    <2> QED  BY <2>3, <2>4, <2>5 DEF ReadInv
  <1>4. CASE reader = "reading"
    <2>1. /\ kept' \subseteq Ids /\ came' \in Nat /\ left' \in Nat /\ came <= came'
          /\ ReadingCovered'
      BY <1>4, MovesAreCovered
    <2>2. TypeOK'
      BY <1>1, <1>2, <2>1 DEF TypeOK
    <2>3. RepeatsAreCovered'
      BY <1>1, <1>2, <2>1 DEF ReadInv, TypeOK, RepeatsAreCovered
    <2>4. NotStarted' /\ MissesAreCovered'
      BY <1>1, <1>4 DEF NotStarted, MissesAreCovered
    <2> QED  BY <2>1, <2>2, <2>3, <2>4 DEF ReadInv
  <1>5. CASE reader \in {"done", "refused"}
    <2>1. kept' = kept /\ came' = came /\ left' = left
      BY <1>5 DEF ListMoves, listVars
    <2>2. TypeOK'
      BY <1>1, <1>2, <2>1 DEF TypeOK
    <2> QED
      BY <1>1, <1>5, <2>1, <2>2
      DEF ReadInv, NotStarted, ReadingCovered, MissesAreCovered, RepeatsAreCovered
  <1> QED  BY <1>2, <1>3, <1>4, <1>5

-------------------------------------------------------------------------------
(* The theorems.                                                           *)

\* Reading begins with nothing to count.
LEMMA ReadInvInit ==
  ASSUME Init
  PROVE  ReadInv
  <1>1. Matching \subseteq Ids
    BY DEF Matching
  <1>2. TypeOK
    BY <1>1, LimitsAssumption DEF Init, TypeOK
  <1> QED
    BY <1>2
    DEF Init, ReadInv, SeenOnce, NotStarted, ReadingCovered, MissesAreCovered,
        RepeatsAreCovered

\* And every step of the table and of the reader keeps count.
LEMMA ReadInvStep ==
  ASSUME ReadInv, [Next]_vars
  PROVE  ReadInv'
  <1>1. CASE Allot
    <2>1. /\ row' = row /\ filter' = filter /\ limit' = limit /\ offset' = offset
          /\ reader' = reader /\ seen' = seen /\ repeated' = repeated
          /\ kept' = kept /\ came' = came /\ left' = left
          /\ allotted' \in 0 .. MaxId
      BY <1>1, LimitsAssumption
      DEF Allot, askVars, readerVars, listVars, ReadInv, TypeOK
    <2>2. Matching' = Matching
      BY <2>1 DEF Matching
    <2>3. TypeOK'
      BY <2>1 DEF ReadInv, TypeOK
    <2> QED
      BY <2>1, <2>2, <2>3
      DEF ReadInv, SeenOnce, NotStarted, ReadingCovered, MissesAreCovered,
          RepeatsAreCovered
  <1>2. ASSUME NEW i \in Ids, Commit(i)
        PROVE  ReadInv'
    <2>1. ListMoved /\ SeenOnce' /\ row' \in [Ids -> {"absent", "pending", "paid"}]
      BY <1>2, CommitMoves
    <2>2. ListMoves /\ UNCHANGED <<allotted, askVars, readerVars>>
      BY <1>2 DEF Commit
    <2> QED  BY <2>1, <2>2, TableStepIsCovered
  <1>3. ASSUME NEW i \in Ids, GetsPaid(i)
        PROVE  ReadInv'
    <2>1. ListMoved /\ SeenOnce' /\ row' \in [Ids -> {"absent", "pending", "paid"}]
      BY <1>3, PaidMoves
    <2>2. ListMoves /\ UNCHANGED <<allotted, askVars, readerVars>>
      BY <1>3 DEF GetsPaid
    <2> QED  BY <2>1, <2>2, TableStepIsCovered
  <1>4. CASE Ask
    BY <1>4, AskStarts
  <1>5. CASE ListPayments
    BY <1>5, PageIsCovered
  <1>6. CASE UNCHANGED vars
    <2>1. /\ row' = row /\ filter' = filter /\ limit' = limit /\ offset' = offset
          /\ reader' = reader /\ seen' = seen /\ repeated' = repeated
          /\ kept' = kept /\ came' = came /\ left' = left /\ allotted' = allotted
      BY <1>6 DEF vars, askVars, readerVars, listVars
    <2>2. Matching' = Matching
      BY <2>1 DEF Matching
    <2>3. TypeOK'
      BY <2>1 DEF ReadInv, TypeOK
    <2> QED
      BY <2>1, <2>2, <2>3
      DEF ReadInv, SeenOnce, NotStarted, ReadingCovered, MissesAreCovered,
          RepeatsAreCovered
  <1> QED  BY <1>1, <1>2, <1>3, <1>4, <1>5, <1>6 DEF Next

\* So the count holds throughout.
LEMMA ReadingIsCovered == Spec => []ReadInv
  <1>1. Init => ReadInv
    BY ReadInvInit
  <1>2. ReadInv /\ [Next]_vars => ReadInv'
    BY ReadInvStep
  <1> QED  BY <1>1, <1>2, PTL DEF Spec

\* Every variable keeps its type, and no page is longer than MaxLimit
\* (ListPayments: Validate and List).
THEOREM PagingTypes == Spec => []TypeOK
  <1>1. ReadInv => TypeOK
    BY DEF ReadInv
  <1> QED  BY <1>1, ReadingIsCovered, PTL

\* A caller that pages to the end misses no more of the payments that matched
\* all along than left the list meanwhile, for every number of payments, limit
\* and filter (List: ORDER BY id DESC LIMIT ? OFFSET ?).
THEOREM MissesStayCovered == Spec => []MissesAreCovered
  <1>1. ReadInv => MissesAreCovered
    BY DEF ReadInv
  <1> QED  BY <1>1, ReadingIsCovered, PTL

\* And no more rows reach it a second time than entered the list meanwhile.
THEOREM RepeatsStayCovered == Spec => []RepeatsAreCovered
  <1>1. ReadInv => RepeatsAreCovered
    BY DEF ReadInv
  <1> QED  BY <1>1, ReadingIsCovered, PTL
===============================================================================
