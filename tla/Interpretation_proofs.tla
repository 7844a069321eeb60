---------------------- MODULE Interpretation_proofs ----------------------
(***************************************************************************)
(* From a message to the hours of its people, for any number of people and *)
(* days, any working day, any text and whatever the model answers.  The    *)
(* stages are folds over lists: the first part says what a fold over a     *)
(* finite set is, without induction over operators, and each fold of the   *)
(* component is shown to be one.                                           *)
(***************************************************************************)
EXTENDS Interpretation, FiniteSetTheorems, FunctionTheorems, WellFoundedInduction, TLAPS

(* Finite sets *)

\* An element of every part, and what a fold that takes the chosen element last
\* is at every part.
Chooses(c, D) == \A s \in SUBSET D : s # {} => c[s] \in s
Folded(g, base, F, c, D) ==
  /\ g = [s \in SUBSET D |-> g[s]]
  /\ \A s \in SUBSET D : g[s] = IF s = {} THEN base ELSE F[<<c[s], g[s \ {c[s]}]>>]

PassedOn(P, c, D) ==
  \A s \in SUBSET D : s # {} /\ s \ {c[s]} \in P => s \in P

\* A property of the empty set that is passed on from a set without the chosen
\* element to the set holds for every finite set.
LEMMA Peel ==
  ASSUME NEW S, IsFiniteSet(S), NEW c, Chooses(c, S),
         NEW P, {} \in P, PassedOn(P, c, S)
  PROVE  SUBSET S \subseteq P
<1> DEFINE Wrong == (SUBSET S) \ P
           R == StrictSubsetOrdering(S)
<1>1. SUFFICES ASSUME Wrong # {} PROVE FALSE
  OBVIOUS
<1>2. IsWellFoundedOn(R, FiniteSubsetsOf(S))
  BY FS_StrictSubsetOrderingWellFounded
<1>3. Wrong \subseteq FiniteSubsetsOf(S)
  BY FS_Subset DEF FiniteSubsetsOf
<1>4. PICK s \in Wrong : \A t \in Wrong : ~ (<<t, s>> \in R)
  <2> HIDE DEF Wrong, R
  <2> QED
    BY <1>1, <1>2, <1>3, WFMin
<1>5. s \in SUBSET S /\ s \notin P
  BY <1>4
<1>6. s # {}
  BY <1>5
<1>7. c[s] \in s
  BY <1>5, <1>6 DEF Chooses
<1>8. s \ {c[s]} \notin P
  BY <1>5, <1>6 DEF PassedOn
<1>9. s \ {c[s]} \in SUBSET S
  BY <1>5
<1>10. <<s \ {c[s]}, s>> \in R
  BY <1>5, <1>7, <1>9 DEF StrictSubsetOrdering
<1>11. s \ {c[s]} \in Wrong
  BY <1>8, <1>9
<1>12. QED
  BY <1>4, <1>10, <1>11

\* Whatever is chosen from a set and combined with the result for the rest has
\* a result for every subset.
LEMMA Solved ==
  ASSUME NEW S, IsFiniteSet(S), NEW c, Chooses(c, S),
         NEW T, NEW base \in T, NEW F \in [S \X T -> T]
  PROVE  \E g \in [SUBSET S -> T] : Folded(g, base, F, c, S)
<1> DEFINE Upto(n) == {s \in SUBSET S : Cardinality(s) <= n}
           Solves(g, n) == /\ g \in [Upto(n) -> T]
                           /\ \A s \in Upto(n) :
                                g[s] = IF s = {} THEN base ELSE F[<<c[s], g[s \ {c[s]}]>>]
           Reached == {n \in Nat : \E g : Solves(g, n)}
<1>1. \A s \in SUBSET S : IsFiniteSet(s) /\ Cardinality(s) \in Nat
  BY FS_Subset, FS_CardinalityType
<1>2. \A s \in SUBSET S : s # {} =>
        /\ s \ {c[s]} \in SUBSET S
        /\ Cardinality(s \ {c[s]}) = Cardinality(s) - 1
        /\ Cardinality(s) # 0
  BY <1>1, FS_RemoveElement, FS_EmptySet DEF Chooses
<1>3. 0 \in Reached
  <2> DEFINE g == [s \in Upto(0) |-> base]
  <2>1. \A s \in Upto(0) : s = {}
    <3>1. SUFFICES ASSUME NEW s \in Upto(0) PROVE s = {}
      OBVIOUS
    <3>2. s \in SUBSET S /\ Cardinality(s) = 0
      BY <1>1
    <3>3. QED
      BY <1>2, <3>2
  <2>2. Solves(g, 0)
    BY <2>1
  <2> HIDE DEF Solves, g
  <2>3. QED
    BY <2>2
<1>4. ASSUME NEW n \in Reached
      PROVE  n + 1 \in Reached
  <2>1. PICK g : Solves(g, n)
    BY <1>4
  <2> DEFINE h == [s \in Upto(n + 1) |->
                     IF s \in Upto(n) THEN g[s] ELSE F[<<c[s], g[s \ {c[s]}]>>]]
  <2>2. n \in Nat
    BY <1>4
  <2>3. \A s \in Upto(n + 1) : s # {} => s \ {c[s]} \in Upto(n) /\ c[s] \in S
    BY <1>1, <1>2, <2>2 DEF Chooses
  <2>4. {} \in Upto(n) /\ Upto(n) \subseteq Upto(n + 1)
    BY <1>1, <2>2, FS_EmptySet
  <2>5. \A s \in Upto(n + 1) : h[s] \in T
    <3>1. SUFFICES ASSUME NEW s \in Upto(n + 1) PROVE h[s] \in T
      OBVIOUS
    <3>2. CASE s \in Upto(n)
      BY <2>1, <3>2
    <3>3. CASE s \notin Upto(n)
      <4>1. s # {}
        BY <2>4, <3>3
      <4>2. g[s \ {c[s]}] \in T /\ c[s] \in S
        BY <2>1, <2>3, <4>1
      <4>3. QED
        BY <3>3, <4>2
    <3>4. QED
      BY <3>2, <3>3
  <2>6. \A s \in Upto(n + 1) :
          h[s] = IF s = {} THEN base ELSE F[<<c[s], h[s \ {c[s]}]>>]
    <3>1. SUFFICES ASSUME NEW s \in Upto(n + 1)
                   PROVE  h[s] = IF s = {} THEN base ELSE F[<<c[s], h[s \ {c[s]}]>>]
      OBVIOUS
    <3>2. \A t \in Upto(n) : h[t] = g[t]
      BY <2>4
    <3>3. CASE s = {}
      BY <2>1, <2>4, <3>2, <3>3
    <3>4. CASE s # {}
      <4>1. h[s \ {c[s]}] = g[s \ {c[s]}]
        BY <2>3, <3>2, <3>4
      <4>2. h[s] = F[<<c[s], g[s \ {c[s]}]>>]
        BY <2>1, <3>4
      <4>3. QED
        BY <3>4, <4>1, <4>2
    <3>5. QED
      BY <3>3, <3>4
  <2>7. Solves(h, n + 1)
    <3>1. h \in [Upto(n + 1) -> T]
      BY <2>5
    <3> HIDE DEF h
    <3>2. QED
      BY <2>6, <3>1
  <2> HIDE DEF Solves, h
  <2>8. QED
    BY <2>2, <2>7
<1>5. \A n \in Nat : n \in Reached
  <2> DEFINE Missed == Nat \ Reached
  <2>1. SUFFICES ASSUME Missed # {} PROVE FALSE
    OBVIOUS
  <2> HIDE DEF Reached
  <2>2. PICK n \in Missed : \A k \in Missed : ~ (<<k, n>> \in OpToRel(<, Nat))
    BY <2>1, NatLessThanWellFounded, WFMin
  <2>3. n # 0 /\ n - 1 \in Nat /\ n - 1 < n
    BY <1>3
  <2>4. n - 1 \notin Missed
    BY <2>2, <2>3 DEF OpToRel
  <2>5. n - 1 + 1 \in Reached
    BY <1>4, <2>3, <2>4
  <2>6. QED
    BY <2>5
<1>6. PICK g : Solves(g, Cardinality(S))
  <2> HIDE DEF Solves
  <2> QED
    BY <1>1, <1>5
<1>7. Upto(Cardinality(S)) = SUBSET S
  BY <1>1, FS_Subset
<1>8. Folded(g, base, F, c, S)
  BY <1>6, <1>7 DEF Folded
<1>9. QED
  BY <1>6, <1>7, <1>8

LEMMA Greatest ==
  ASSUME NEW S \in SUBSET Nat, IsFiniteSet(S), S # {}
  PROVE  Max(S) \in S /\ \A x \in S : x <= Max(S)
<1>1. \E x \in S : \A y \in S : y <= x
  <2> DEFINE Above(x) == {y \in S : y > x}
             Heads == {Above(x) : x \in S}
             R == StrictSubsetOrdering(S)
  <2>1. IsWellFoundedOn(R, FiniteSubsetsOf(S))
    BY FS_StrictSubsetOrderingWellFounded
  <2>2. Heads \subseteq FiniteSubsetsOf(S) /\ Heads # {}
    <3>1. \A x \in S : Above(x) \subseteq S /\ IsFiniteSet(Above(x))
      BY FS_Subset
    <3>2. QED
      BY <3>1 DEF FiniteSubsetsOf
  <2>3. PICK t \in Heads : \A u \in Heads : ~ (<<u, t>> \in R)
    <3> HIDE DEF Heads, R
    <3> QED
      BY <2>1, <2>2, WFMin
  <2>4. PICK x \in S : t = Above(x)
    BY <2>3
  <2>5. ASSUME NEW y \in Above(x) PROVE FALSE
    <3>1. y \in Nat /\ x \in Nat /\ y > x /\ y \in S
      BY <2>5
    <3>2. Above(y) \subseteq Above(x)
      <4>1. \A z \in S : z > y => z > x
        BY <3>1
      <4>2. QED
        BY <4>1
    <3>3. Above(y) # Above(x)
      <4>1. ~(y > y)
        BY <3>1
      <4>2. QED
        BY <2>5, <4>1
    <3>4. <<Above(y), Above(x)>> \in R
      BY <3>2, <3>3 DEF StrictSubsetOrdering
    <3>5. QED
      BY <2>3, <2>4, <3>1, <3>4
  <2>6. \A y \in S : ~(y > x)
    BY <2>5
  <2>7. QED
    BY <2>4, <2>6
<1>2. PICK x \in S : \A y \in S : y <= x
  BY <1>1
<1>3. Max(S) = CHOOSE z \in S : \A y \in S : y <= z
  BY DEF Max
<1>4. QED
  BY <1>2, <1>3

LEMMA Least ==
  ASSUME NEW S \in SUBSET Nat, S # {}
  PROVE  Min(S) \in S /\ \A x \in S : Min(S) <= x
<1>1. PICK x \in S : \A y \in S : ~ (<<y, x>> \in OpToRel(<, Nat))
  BY NatLessThanWellFounded, WFMin
<1>2. ASSUME NEW y \in S, ~(x <= y)
      PROVE  FALSE
  <2>1. y \in Nat /\ x \in Nat /\ y < x
    BY <1>2
  <2>2. <<y, x>> \in OpToRel(<, Nat)
    BY <2>1 DEF OpToRel
  <2>3. QED
    BY <1>1, <2>2
<1>3. Min(S) = CHOOSE z \in S : \A y \in S : z <= y
  BY DEF Min
<1>4. QED
  BY <1>2, <1>3

-----------------------------------------------------------------------------
(* Lists *)

Lists(S) == {l \in UNION {[D -> S] : D \in SUBSET (Nat \ {0})} : IsFiniteSet(DOMAIN l)}

LEMMA ListIs ==
  ASSUME NEW S, NEW l
  PROVE  l \in Lists(S) <=> /\ l = [i \in DOMAIN l |-> l[i]]
                            /\ DOMAIN l \subseteq Nat \ {0}
                            /\ IsFiniteSet(DOMAIN l)
                            /\ \A i \in DOMAIN l : l[i] \in S
<1>1. ASSUME l \in Lists(S)
      PROVE  /\ l = [i \in DOMAIN l |-> l[i]]
             /\ DOMAIN l \subseteq Nat \ {0}
             /\ IsFiniteSet(DOMAIN l)
             /\ \A i \in DOMAIN l : l[i] \in S
  BY <1>1 DEF Lists
<1>2. ASSUME l = [i \in DOMAIN l |-> l[i]],
             DOMAIN l \subseteq Nat \ {0}, IsFiniteSet(DOMAIN l),
             \A i \in DOMAIN l : l[i] \in S
      PROVE  l \in Lists(S)
  <2>1. l \in [DOMAIN l -> S]
    BY <1>2
  <2>2. QED
    BY <1>2, <2>1 DEF Lists
<1>3. QED
  BY <1>1, <1>2

LEMMA EmptyList ==
  ASSUME NEW S
  PROVE  <<>> \in Lists(S) /\ DOMAIN <<>> = {}
<1> DEFINE e == <<>>
<1>1. DOMAIN e = {} /\ e = [i \in DOMAIN e |-> e[i]]
  OBVIOUS
<1> HIDE DEF e
<1>2. IsFiniteSet({})
  BY FS_EmptySet
<1>3. e \in Lists(S) /\ DOMAIN e = {}
  <2>1. /\ DOMAIN e \subseteq Nat \ {0} /\ IsFiniteSet(DOMAIN e)
        /\ \A i \in DOMAIN e : e[i] \in S
    BY <1>1, <1>2
  <2>2. QED
    BY <1>1, <2>1, ListIs
<1>4. QED
  BY <1>3 DEF e

LEMMA SequenceIsList ==
  ASSUME NEW S, NEW l \in Seq(S)
  PROVE  l \in Lists(S)
<1>1. /\ DOMAIN l = 1 .. Len(l) /\ Len(l) \in Nat
      /\ l = [i \in DOMAIN l |-> l[i]]
      /\ \A i \in DOMAIN l : l[i] \in S
  OBVIOUS
<1>2. IsFiniteSet(1 .. Len(l))
  <2> DEFINE n == Len(l)
  <2>1. 1 \in Int /\ n \in Int
    BY <1>1
  <2> HIDE DEF n
  <2>2. IsFiniteSet(1 .. n)
    BY <2>1, FS_Interval
  <2>3. QED
    BY <2>2 DEF n
<1>3. QED
  BY <1>1, <1>2, ListIs

\* Some positions of a list, and the list with other values.
LEMMA PartIsList ==
  ASSUME NEW S, NEW l \in Lists(S), NEW D \in SUBSET DOMAIN l,
         NEW k, k = [i \in D |-> l[i]]
  PROVE  /\ k \in Lists(S) /\ DOMAIN k = D
         /\ \A i \in D : k[i] = l[i]
<1>1. IsFiniteSet(D)
  BY ListIs, FS_Subset
<1>2. QED
  BY <1>1, ListIs

LEMMA ImageIsList ==
  ASSUME NEW S, NEW T, NEW l \in Lists(S), NEW k, k = [i \in DOMAIN l |-> k[i]],
         \A i \in DOMAIN l : k[i] \in T
  PROVE  k \in Lists(T) /\ DOMAIN k = DOMAIN l
<1>1. DOMAIN k = DOMAIN l
  OBVIOUS
<1>2. QED
  BY <1>1, ListIs

LEMMA EndIs ==
  ASSUME NEW S, NEW l \in Lists(S)
  PROVE  End(l) \in Nat /\ \A i \in DOMAIN l : i <= End(l)
<1>1. DOMAIN l \cup {0} \subseteq Nat /\ IsFiniteSet(DOMAIN l \cup {0})
  BY ListIs, FS_AddElement
<1>2. QED
  BY <1>1, Greatest DEF End

\* Nothing is in a joined list that was in neither, and nothing is lost.
LEMMA JoinedIs ==
  ASSUME NEW S, NEW l \in Lists(S), NEW k \in Lists(S)
  PROVE  /\ Joined(l, k) \in Lists(S)
         /\ \A i \in DOMAIN Joined(l, k) :
              \/ i \in DOMAIN l /\ Joined(l, k)[i] = l[i]
              \/ \E j \in DOMAIN k : Joined(l, k)[i] = k[j]
         /\ \A i \in DOMAIN l : i \in DOMAIN Joined(l, k) /\ Joined(l, k)[i] = l[i]
         /\ \A j \in DOMAIN k : \E i \in DOMAIN Joined(l, k) : Joined(l, k)[i] = k[j]
<1> DEFINE e == End(l)
           More == {e + j : j \in DOMAIN k}
           D == DOMAIN l \cup More
           z == Joined(l, k)
<1>1. /\ e \in Nat /\ \A i \in DOMAIN l : i <= e
      /\ DOMAIN l \subseteq Nat \ {0} /\ IsFiniteSet(DOMAIN l)
      /\ DOMAIN k \subseteq Nat \ {0} /\ IsFiniteSet(DOMAIN k)
      /\ \A i \in DOMAIN l : l[i] \in S
      /\ \A i \in DOMAIN k : k[i] \in S
  BY ListIs, EndIs
<1> HIDE DEF e
<1>2. IsFiniteSet(More)
  <2>1. [j \in DOMAIN k |-> e + j] \in Surjection(DOMAIN k, More)
    BY DEF Surjection
  <2>2. QED
    BY <1>1, <2>1, FS_Surjection
<1>3. IsFiniteSet(D) /\ D \subseteq Nat \ {0}
  <2>1. IsFiniteSet(D)
    <3> HIDE DEF More
    <3> QED
      BY <1>1, <1>2, FS_Union
  <2>2. \A j \in DOMAIN k : e + j \in Nat \ {0}
    BY <1>1
  <2>3. QED
    BY <1>1, <2>1, <2>2
<1>4. z = [i \in D |-> IF i \in DOMAIN l THEN l[i] ELSE k[i - e]]
  BY DEF Joined, e
<1>5. \A j \in DOMAIN k : e + j \notin DOMAIN l /\ (e + j) - e = j
  BY <1>1
<1>6. \A i \in DOMAIN l : i \in D /\ z[i] = l[i]
  BY <1>4
<1>7. \A j \in DOMAIN k : e + j \in D /\ z[e + j] = k[j]
  BY <1>4, <1>5
<1>8. DOMAIN z = D
  BY <1>4
<1>9. \A i \in D : i \in DOMAIN l \/ \E j \in DOMAIN k : i = e + j
  OBVIOUS
<1> HIDE DEF z, D, More
<1>10. \A i \in D : z[i] \in S
  BY <1>1, <1>6, <1>7, <1>9
<1>11. z \in Lists(S)
  <2>1. z = [i \in DOMAIN z |-> z[i]]
    BY <1>4, <1>8
  <2>2. QED
    BY <1>3, <1>8, <1>10, <2>1, ListIs
<1>12. QED
  BY <1>6, <1>7, <1>8, <1>9, <1>11 DEF z

Record == [who : Who, slots : SUBSET Slot]

LEMMA Replacing ==
  ASSUME NEW S, NEW l \in Lists(S), NEW i \in DOMAIN l, NEW v \in S
  PROVE  /\ [l EXCEPT ![i] = v] \in Lists(S)
         /\ DOMAIN [l EXCEPT ![i] = v] = DOMAIN l
         /\ [l EXCEPT ![i] = v][i] = v
         /\ \A j \in DOMAIN l : j # i => [l EXCEPT ![i] = v][j] = l[j]
<1> DEFINE k == [l EXCEPT ![i] = v]
<1>1. l = [j \in DOMAIN l |-> l[j]] /\ \A j \in DOMAIN l : l[j] \in S
  BY ListIs
<1>2. /\ k = [j \in DOMAIN l |-> k[j]] /\ DOMAIN k = DOMAIN l
      /\ k[i] = v
      /\ \A j \in DOMAIN l : j # i => k[j] = l[j]
  OBVIOUS
<1> HIDE DEF k
<1>3. \A j \in DOMAIN l : k[j] \in S
  BY <1>1, <1>2
<1>4. k \in Lists(S)
  BY <1>2, <1>3, ImageIsList
<1>5. QED
  BY <1>2, <1>4 DEF k

LEMMA FirstIs ==
  ASSUME NEW l \in Lists(Record), NEW who \in Names(l)
  PROVE  FirstOf(l, who) \in DOMAIN l /\ l[FirstOf(l, who)].who = who
<1> DEFINE S == {i \in DOMAIN l : l[i].who = who}
<1>1. S # {} /\ S \in SUBSET Nat
  BY ListIs DEF Names
<1>2. FirstOf(l, who) = Min(S)
  BY DEF FirstOf
<1>3. Min(S) \in S
  <2> HIDE DEF S
  <2> QED
    BY <1>1, Least
<1>4. QED
  BY <1>2, <1>3

LEMMA HadIs ==
  ASSUME NEW l \in Lists(Record), NEW who
  PROVE  Had(l, who) \in SUBSET Slot
<1>1. CASE who \in Names(l)
  <2>1. l[FirstOf(l, who)] \in Record
    BY <1>1, FirstIs, ListIs
  <2>2. QED
    BY <1>1, <2>1 DEF Had, Record
<1>2. CASE who \notin Names(l)
  BY <1>2 DEF Had
<1>3. QED
  BY <1>1, <1>2

LEMMA OneIsList ==
  ASSUME NEW S, NEW r \in S
  PROVE  /\ <<r>> \in Lists(S)
         /\ \A i \in DOMAIN <<r>> : <<r>>[i] = r
         /\ 1 \in DOMAIN <<r>> /\ <<r>>[1] = r
<1> DEFINE k == <<r>>
<1>1. k \in Seq(S) /\ DOMAIN k = {1} /\ k[1] = r
  OBVIOUS
<1> HIDE DEF k
<1>2. k \in Lists(S)
  BY <1>1, SequenceIsList
<1>3. \A i \in DOMAIN k : k[i] = r
  BY <1>1
<1>4. 1 \in DOMAIN k /\ k[1] = r
  BY <1>1
<1>5. QED
  BY <1>2, <1>3, <1>4 DEF k

\* Putting slots to a person leaves the records of others alone.
LEMMA PutIs ==
  ASSUME NEW l \in Lists(Record), NEW who \in Who, NEW slots \in SUBSET Slot
  PROVE  /\ Put(l, who, slots) \in Lists(Record)
         /\ \A i \in DOMAIN Put(l, who, slots) :
              \/ Put(l, who, slots)[i] = [who |-> who, slots |-> slots]
              \/ i \in DOMAIN l /\ Put(l, who, slots)[i] = l[i]
<1> DEFINE r == [who |-> who, slots |-> slots]
           first == FirstOf(l, who)
<1>1. r \in Record
  BY DEF Record
<1>2. CASE who \in Names(l)
  <2>1. first \in DOMAIN l /\ l[first].who = who /\ l[first] \in Record
    BY <1>2, FirstIs, ListIs
  <2>2. [l[first] EXCEPT !.slots = slots] = r
    BY <2>1 DEF Record
  <2>3. Put(l, who, slots) = [l EXCEPT ![first] = r]
    <3>1. Put(l, who, slots) = [l EXCEPT ![first].slots = slots]
      BY <1>2 DEF Put
    <3>2. [l EXCEPT ![first].slots = slots]
            = [l EXCEPT ![first] = [l[first] EXCEPT !.slots = slots]]
      OBVIOUS
    <3> HIDE DEF r, first
    <3>3. QED
      BY <2>2, <3>1, <3>2
  <2> HIDE DEF first, r
  <2>4. /\ [l EXCEPT ![first] = r] \in Lists(Record)
        /\ DOMAIN [l EXCEPT ![first] = r] = DOMAIN l
        /\ [l EXCEPT ![first] = r][first] = r
        /\ \A j \in DOMAIN l : j # first => [l EXCEPT ![first] = r][j] = l[j]
    BY <1>1, <2>1, Replacing
  <2>5. QED
    BY <2>3, <2>4 DEF r
<1>3. CASE who \notin Names(l)
  <2> DEFINE k == <<r>>
  <2>1. k \in Lists(Record) /\ \A i \in DOMAIN k : k[i] = r
    BY <1>1, OneIsList
  <2>2. Put(l, who, slots) = Joined(l, k)
    BY <1>3 DEF Put
  <2> HIDE DEF k, r
  <2>3. /\ Joined(l, k) \in Lists(Record)
        /\ \A i \in DOMAIN Joined(l, k) :
             \/ i \in DOMAIN l /\ Joined(l, k)[i] = l[i]
             \/ \E j \in DOMAIN k : Joined(l, k)[i] = k[j]
    BY <2>1, JoinedIs
  <2>4. QED
    BY <2>1, <2>2, <2>3 DEF r
<1>4. QED
  BY <1>2, <1>3

LEMMA DroppedIs ==
  ASSUME NEW l \in Lists(Record), NEW who, NEW days
  PROVE  Dropped(l, who, days) \in Lists(Record)
<1> DEFINE D == {i \in DOMAIN l : l[i].who # who \/ DaysOf(l[i].slots) \cap days = {}}
<1>1. Dropped(l, who, days) = [i \in D |-> l[i]]
  BY DEF Dropped, Where
<1>2. QED
  BY <1>1, PartIsList

-----------------------------------------------------------------------------
(* Folds over lists *)

\* A list is folded from its last position down.
Latest(l) == [s \in SUBSET DOMAIN l |-> Max(s)]

LEMMA LastIs ==
  ASSUME NEW S, NEW l \in Lists(S)
  PROVE  /\ IsFiniteSet(DOMAIN l)
         /\ \A s \in SUBSET DOMAIN l : Latest(l)[s] = Max(s)
         /\ Chooses(Latest(l), DOMAIN l)
<1>1. DOMAIN l \in SUBSET Nat /\ IsFiniteSet(DOMAIN l)
  BY ListIs
<1>2. ASSUME NEW s \in SUBSET DOMAIN l, s # {}
      PROVE  Max(s) \in s
  <2>1. s \in SUBSET Nat /\ IsFiniteSet(s)
    BY <1>1, FS_Subset
  <2>2. QED
    BY <1>2, <2>1, Greatest
<1>3. QED
  BY <1>1, <1>2 DEF Latest, Chooses

\* A value of T at every part, if a step leads from one to the next.
Keeps(F, T, c, D) ==
  \A s \in SUBSET D : s # {} => \A t \in T[s \ {c[s]}] : F[<<c[s], t>>] \in T[s]

LEMMA Folds ==
  ASSUME NEW D, IsFiniteSet(D), NEW c, Chooses(c, D),
         NEW T, NEW base \in T[{}], NEW F, Keeps(F, T, c, D)
  PROVE  \E g : Folded(g, base, F, c, D) /\ \A s \in SUBSET D : g[s] \in T[s]
<1> DEFINE U == UNION {T[s] : s \in SUBSET D}
           G == [p \in D \X U |-> IF F[p] \in U THEN F[p] ELSE base]
<1>1. base \in U /\ \A s \in SUBSET D : T[s] \subseteq U
  OBVIOUS
<1> HIDE DEF U
<1>2. G \in [D \X U -> U]
  BY <1>1
<1>3. \A s \in SUBSET D : s # {} =>
        \A t \in T[s \ {c[s]}] : /\ G[<<c[s], t>>] = F[<<c[s], t>>]
                                 /\ G[<<c[s], t>>] \in T[s]
  BY <1>1 DEF Keeps, Chooses
<1> HIDE DEF G
<1>4. PICK g \in [SUBSET D -> U] : Folded(g, base, G, c, D)
  BY <1>1, <1>2, Solved
<1> DEFINE P == {s \in SUBSET D : g[s] \in T[s]}
<1>5. {} \in P
  BY <1>4 DEF Folded
<1>6. PassedOn(P, c, D)
  BY <1>3, <1>4 DEF Folded, PassedOn
<1>7. SUBSET D \subseteq P
  <2> HIDE DEF P
  <2> QED
    BY <1>5, <1>6, Peel
<1>8. \A s \in SUBSET D : g[s] \in T[s]
  BY <1>7
<1>9. Folded(g, base, F, c, D)
  BY <1>3, <1>4, <1>8 DEF Folded
<1>10. QED
  BY <1>8, <1>9

\* One record per person: what is gathered of a list.
LEMMA GatheredIn ==
  ASSUME NEW S, NEW l \in Lists(S), NEW T, <<>> \in T[{}],
         \A s \in SUBSET DOMAIN l : s # {} =>
           \A t \in T[s \ {Max(s)}] : Gather(t, l[Max(s)]) \in T[s]
  PROVE  Gathered(l) \in T[DOMAIN l]
<1> DEFINE D == DOMAIN l
           c == Latest(l)
           base == <<>>
           U == UNION {T[s] : s \in SUBSET D}
           F == [p \in D \X U |-> Gather(p[2], l[p[1]])]
           Adds(it) == [s \in SUBSET D |->
                          IF s = {} THEN base ELSE Gather(it[s \ {Max(s)}], l[Max(s)])]
           fold == CHOOSE it : it = Adds(it)
<1>1. IsFiniteSet(D) /\ Chooses(c, D) /\ \A s \in SUBSET D : c[s] = Max(s)
  BY LastIs
<1> HIDE DEF c
<1>2. Gathered(l) = fold[D]
  BY DEF Gathered, FoldLeft, MapThenFoldSet
<1>3. \A s \in SUBSET D : T[s] \subseteq U
  OBVIOUS
<1> HIDE DEF U
<1>4. \A i \in D, t \in U : F[<<i, t>>] = Gather(t, l[i])
  OBVIOUS
<1> HIDE DEF F
<1>5. \A s \in SUBSET D : s # {} =>
        \A t \in T[s \ {c[s]}] : F[<<c[s], t>>] = Gather(t, l[Max(s)])
  BY <1>1, <1>3, <1>4 DEF Chooses
<1>6. Keeps(F, T, c, D)
  <2>1. SUFFICES ASSUME NEW s \in SUBSET D, s # {}, NEW t \in T[s \ {c[s]}]
                 PROVE  F[<<c[s], t>>] \in T[s]
    BY DEF Keeps
  <2>2. F[<<c[s], t>>] = Gather(t, l[Max(s)])
    BY <1>5, <2>1
  <2>3. QED
    BY <1>1, <2>1, <2>2
<1>7. base \in T[{}]
  OBVIOUS
<1> HIDE DEF base, D
<1>8. PICK g : Folded(g, base, F, c, D) /\ \A s \in SUBSET D : g[s] \in T[s]
  BY <1>1, <1>6, <1>7, Folds
<1>9. g = Adds(g)
  <2>1. \A s \in SUBSET D : g[s] = Adds(g)[s]
    BY <1>1, <1>5, <1>8 DEF Folded
  <2>2. QED
    BY <1>8, <2>1 DEF Folded
<1>10. fold = Adds(fold)
  <2> HIDE DEF Adds
  <2> QED
    BY <1>9
<1> HIDE DEF fold
<1> DEFINE P == {s \in SUBSET D : fold[s] \in T[s]}
<1>11. {} \in P
  BY <1>7, <1>10
<1>12. PassedOn(P, c, D)
  <2>1. SUFFICES ASSUME NEW s \in SUBSET D, s # {}, fold[s \ {Max(s)}] \in T[s \ {Max(s)}]
                 PROVE  fold[s] \in T[s]
    BY <1>1 DEF PassedOn
  <2>2. fold[s] = Gather(fold[s \ {Max(s)}], l[Max(s)])
    BY <1>10, <2>1
  <2>3. QED
    BY <2>1, <2>2 DEF D
<1>13. SUBSET D \subseteq P
  <2> HIDE DEF P
  <2> QED
    BY <1>1, <1>11, <1>12, Peel
<1>14. QED
  BY <1>2, <1>13 DEF D

\* What the rules give.
LEMMA FollowedIn ==
  ASSUME NEW S, NEW l \in Lists(S), NEW T, <<>> \in T[{}],
         \A s \in SUBSET DOMAIN l : s # {} =>
           \A t \in T[s \ {Max(s)}] : Follow(t, l[Max(s)]) \in T[s]
  PROVE  FoldLeft(Follow, <<>>, l) \in T[DOMAIN l]
<1> DEFINE D == DOMAIN l
           c == Latest(l)
           base == <<>>
           U == UNION {T[s] : s \in SUBSET D}
           F == [p \in D \X U |-> Follow(p[2], l[p[1]])]
           Adds(it) == [s \in SUBSET D |->
                          IF s = {} THEN base ELSE Follow(it[s \ {Max(s)}], l[Max(s)])]
           fold == CHOOSE it : it = Adds(it)
<1>1. IsFiniteSet(D) /\ Chooses(c, D) /\ \A s \in SUBSET D : c[s] = Max(s)
  BY LastIs
<1> HIDE DEF c
<1>2. FoldLeft(Follow, <<>>, l) = fold[D]
  BY DEF FoldLeft, MapThenFoldSet
<1>3. \A s \in SUBSET D : T[s] \subseteq U
  OBVIOUS
<1> HIDE DEF U
<1>4. \A i \in D, t \in U : F[<<i, t>>] = Follow(t, l[i])
  OBVIOUS
<1> HIDE DEF F
<1>5. \A s \in SUBSET D : s # {} =>
        \A t \in T[s \ {c[s]}] : F[<<c[s], t>>] = Follow(t, l[Max(s)])
  BY <1>1, <1>3, <1>4 DEF Chooses
<1>6. Keeps(F, T, c, D)
  <2>1. SUFFICES ASSUME NEW s \in SUBSET D, s # {}, NEW t \in T[s \ {c[s]}]
                 PROVE  F[<<c[s], t>>] \in T[s]
    BY DEF Keeps
  <2>2. F[<<c[s], t>>] = Follow(t, l[Max(s)])
    BY <1>5, <2>1
  <2>3. QED
    BY <1>1, <2>1, <2>2
<1>7. base \in T[{}]
  OBVIOUS
<1> HIDE DEF base, D
<1>8. PICK g : Folded(g, base, F, c, D) /\ \A s \in SUBSET D : g[s] \in T[s]
  BY <1>1, <1>6, <1>7, Folds
<1>9. g = Adds(g)
  <2>1. \A s \in SUBSET D : g[s] = Adds(g)[s]
    BY <1>1, <1>5, <1>8 DEF Folded
  <2>2. QED
    BY <1>8, <2>1 DEF Folded
<1>10. fold = Adds(fold)
  <2> HIDE DEF Adds
  <2> QED
    BY <1>9
<1> HIDE DEF fold
<1> DEFINE P == {s \in SUBSET D : fold[s] \in T[s]}
<1>11. {} \in P
  BY <1>7, <1>10
<1>12. PassedOn(P, c, D)
  <2>1. SUFFICES ASSUME NEW s \in SUBSET D, s # {}, fold[s \ {Max(s)}] \in T[s \ {Max(s)}]
                 PROVE  fold[s] \in T[s]
    BY <1>1 DEF PassedOn
  <2>2. fold[s] = Follow(fold[s \ {Max(s)}], l[Max(s)])
    BY <1>10, <2>1
  <2>3. QED
    BY <2>1, <2>2 DEF D
<1>13. SUBSET D \subseteq P
  <2> HIDE DEF P
  <2> QED
    BY <1>1, <1>11, <1>12, Peel
<1>14. QED
  BY <1>2, <1>13 DEF D

\* The three rules that correct the model, one fragment of the text after another.
LEMMA ReleasedIn ==
  ASSUME NEW S, NEW l \in Lists(S), NEW x, NEW m, m.release = l, NEW T, x \in T[{}],
         \A s \in SUBSET DOMAIN l : s # {} =>
           \A t \in T[s \ {Max(s)}] : Release(t, l[Max(s)], m.named) \in T[s]
  PROVE  Released(x, m) \in T[DOMAIN l]
<1> DEFINE D == DOMAIN l
           c == Latest(l)
           base == x
           U == UNION {T[s] : s \in SUBSET D}
           F == [p \in D \X U |-> Release(p[2], l[p[1]], m.named)]
           Adds(it) == [s \in SUBSET D |->
                          IF s = {} THEN base ELSE Release(it[s \ {Max(s)}], l[Max(s)], m.named)]
           fold == CHOOSE it : it = Adds(it)
<1>1. IsFiniteSet(D) /\ Chooses(c, D) /\ \A s \in SUBSET D : c[s] = Max(s)
  BY LastIs
<1> HIDE DEF c
<1>2. Released(x, m) = fold[D]
  BY DEF Released, FoldLeft, MapThenFoldSet
<1>3. \A s \in SUBSET D : T[s] \subseteq U
  OBVIOUS
<1> HIDE DEF U
<1>4. \A i \in D, t \in U : F[<<i, t>>] = Release(t, l[i], m.named)
  OBVIOUS
<1> HIDE DEF F
<1>5. \A s \in SUBSET D : s # {} =>
        \A t \in T[s \ {c[s]}] : F[<<c[s], t>>] = Release(t, l[Max(s)], m.named)
  BY <1>1, <1>3, <1>4 DEF Chooses
<1>6. Keeps(F, T, c, D)
  <2>1. SUFFICES ASSUME NEW s \in SUBSET D, s # {}, NEW t \in T[s \ {c[s]}]
                 PROVE  F[<<c[s], t>>] \in T[s]
    BY DEF Keeps
  <2>2. F[<<c[s], t>>] = Release(t, l[Max(s)], m.named)
    BY <1>5, <2>1
  <2>3. QED
    BY <1>1, <2>1, <2>2
<1>7. base \in T[{}]
  OBVIOUS
<1> HIDE DEF base, D
<1>8. PICK g : Folded(g, base, F, c, D) /\ \A s \in SUBSET D : g[s] \in T[s]
  BY <1>1, <1>6, <1>7, Folds
<1>9. g = Adds(g)
  <2>1. \A s \in SUBSET D : g[s] = Adds(g)[s]
    BY <1>1, <1>5, <1>8 DEF Folded
  <2>2. QED
    BY <1>8, <2>1 DEF Folded
<1>10. fold = Adds(fold)
  <2> HIDE DEF Adds
  <2> QED
    BY <1>9
<1> HIDE DEF fold
<1> DEFINE P == {s \in SUBSET D : fold[s] \in T[s]}
<1>11. {} \in P
  BY <1>7, <1>10
<1>12. PassedOn(P, c, D)
  <2>1. SUFFICES ASSUME NEW s \in SUBSET D, s # {}, fold[s \ {Max(s)}] \in T[s \ {Max(s)}]
                 PROVE  fold[s] \in T[s]
    BY <1>1 DEF PassedOn
  <2>2. fold[s] = Release(fold[s \ {Max(s)}], l[Max(s)], m.named)
    BY <1>10, <2>1
  <2>3. QED
    BY <2>1, <2>2 DEF D
<1>13. SUBSET D \subseteq P
  <2> HIDE DEF P
  <2> QED
    BY <1>1, <1>11, <1>12, Peel
<1>14. QED
  BY <1>2, <1>13 DEF D

\* "solo puedo ..."
LEMMA ExclusiveIn ==
  ASSUME NEW S, NEW l \in Lists(S), NEW x, NEW m, m.onlys = l, NEW T, x \in T[{}],
         \A s \in SUBSET DOMAIN l : s # {} =>
           \A t \in T[s \ {Max(s)}] : Exclude(t, l[Max(s)]) \in T[s]
  PROVE  Exclusive(x, m) \in T[DOMAIN l]
<1> DEFINE D == DOMAIN l
           c == Latest(l)
           base == x
           U == UNION {T[s] : s \in SUBSET D}
           F == [p \in D \X U |-> Exclude(p[2], l[p[1]])]
           Adds(it) == [s \in SUBSET D |->
                          IF s = {} THEN base ELSE Exclude(it[s \ {Max(s)}], l[Max(s)])]
           fold == CHOOSE it : it = Adds(it)
<1>1. IsFiniteSet(D) /\ Chooses(c, D) /\ \A s \in SUBSET D : c[s] = Max(s)
  BY LastIs
<1> HIDE DEF c
<1>2. Exclusive(x, m) = fold[D]
  BY DEF Exclusive, FoldLeft, MapThenFoldSet
<1>3. \A s \in SUBSET D : T[s] \subseteq U
  OBVIOUS
<1> HIDE DEF U
<1>4. \A i \in D, t \in U : F[<<i, t>>] = Exclude(t, l[i])
  OBVIOUS
<1> HIDE DEF F
<1>5. \A s \in SUBSET D : s # {} =>
        \A t \in T[s \ {c[s]}] : F[<<c[s], t>>] = Exclude(t, l[Max(s)])
  BY <1>1, <1>3, <1>4 DEF Chooses
<1>6. Keeps(F, T, c, D)
  <2>1. SUFFICES ASSUME NEW s \in SUBSET D, s # {}, NEW t \in T[s \ {c[s]}]
                 PROVE  F[<<c[s], t>>] \in T[s]
    BY DEF Keeps
  <2>2. F[<<c[s], t>>] = Exclude(t, l[Max(s)])
    BY <1>5, <2>1
  <2>3. QED
    BY <1>1, <2>1, <2>2
<1>7. base \in T[{}]
  OBVIOUS
<1> HIDE DEF base, D
<1>8. PICK g : Folded(g, base, F, c, D) /\ \A s \in SUBSET D : g[s] \in T[s]
  BY <1>1, <1>6, <1>7, Folds
<1>9. g = Adds(g)
  <2>1. \A s \in SUBSET D : g[s] = Adds(g)[s]
    BY <1>1, <1>5, <1>8 DEF Folded
  <2>2. QED
    BY <1>8, <2>1 DEF Folded
<1>10. fold = Adds(fold)
  <2> HIDE DEF Adds
  <2> QED
    BY <1>9
<1> HIDE DEF fold
<1> DEFINE P == {s \in SUBSET D : fold[s] \in T[s]}
<1>11. {} \in P
  BY <1>7, <1>10
<1>12. PassedOn(P, c, D)
  <2>1. SUFFICES ASSUME NEW s \in SUBSET D, s # {}, fold[s \ {Max(s)}] \in T[s \ {Max(s)}]
                 PROVE  fold[s] \in T[s]
    BY <1>1 DEF PassedOn
  <2>2. fold[s] = Exclude(fold[s \ {Max(s)}], l[Max(s)])
    BY <1>10, <2>1
  <2>3. QED
    BY <2>1, <2>2 DEF D
<1>13. SUBSET D \subseteq P
  <2> HIDE DEF P
  <2> QED
    BY <1>1, <1>11, <1>12, Peel
<1>14. QED
  BY <1>2, <1>13 DEF D

\* Ranges across days.
LEMMA SpannedIn ==
  ASSUME NEW S, NEW l \in Lists(S), NEW x, NEW T, x \in T[{}],
         \A s \in SUBSET DOMAIN l : s # {} =>
           \A t \in T[s \ {Max(s)}] : Span(t, l[Max(s)]) \in T[s]
  PROVE  FoldLeft(Span, x, l) \in T[DOMAIN l]
<1> DEFINE D == DOMAIN l
           c == Latest(l)
           base == x
           U == UNION {T[s] : s \in SUBSET D}
           F == [p \in D \X U |-> Span(p[2], l[p[1]])]
           Adds(it) == [s \in SUBSET D |->
                          IF s = {} THEN base ELSE Span(it[s \ {Max(s)}], l[Max(s)])]
           fold == CHOOSE it : it = Adds(it)
<1>1. IsFiniteSet(D) /\ Chooses(c, D) /\ \A s \in SUBSET D : c[s] = Max(s)
  BY LastIs
<1> HIDE DEF c
<1>2. FoldLeft(Span, x, l) = fold[D]
  BY DEF FoldLeft, MapThenFoldSet
<1>3. \A s \in SUBSET D : T[s] \subseteq U
  OBVIOUS
<1> HIDE DEF U
<1>4. \A i \in D, t \in U : F[<<i, t>>] = Span(t, l[i])
  OBVIOUS
<1> HIDE DEF F
<1>5. \A s \in SUBSET D : s # {} =>
        \A t \in T[s \ {c[s]}] : F[<<c[s], t>>] = Span(t, l[Max(s)])
  BY <1>1, <1>3, <1>4 DEF Chooses
<1>6. Keeps(F, T, c, D)
  <2>1. SUFFICES ASSUME NEW s \in SUBSET D, s # {}, NEW t \in T[s \ {c[s]}]
                 PROVE  F[<<c[s], t>>] \in T[s]
    BY DEF Keeps
  <2>2. F[<<c[s], t>>] = Span(t, l[Max(s)])
    BY <1>5, <2>1
  <2>3. QED
    BY <1>1, <2>1, <2>2
<1>7. base \in T[{}]
  OBVIOUS
<1> HIDE DEF base, D
<1>8. PICK g : Folded(g, base, F, c, D) /\ \A s \in SUBSET D : g[s] \in T[s]
  BY <1>1, <1>6, <1>7, Folds
<1>9. g = Adds(g)
  <2>1. \A s \in SUBSET D : g[s] = Adds(g)[s]
    BY <1>1, <1>5, <1>8 DEF Folded
  <2>2. QED
    BY <1>8, <2>1 DEF Folded
<1>10. fold = Adds(fold)
  <2> HIDE DEF Adds
  <2> QED
    BY <1>9
<1> HIDE DEF fold
<1> DEFINE P == {s \in SUBSET D : fold[s] \in T[s]}
<1>11. {} \in P
  BY <1>7, <1>10
<1>12. PassedOn(P, c, D)
  <2>1. SUFFICES ASSUME NEW s \in SUBSET D, s # {}, fold[s \ {Max(s)}] \in T[s \ {Max(s)}]
                 PROVE  fold[s] \in T[s]
    BY <1>1 DEF PassedOn
  <2>2. fold[s] = Span(fold[s \ {Max(s)}], l[Max(s)])
    BY <1>10, <2>1
  <2>3. QED
    BY <2>1, <2>2 DEF D
<1>13. SUBSET D \subseteq P
  <2> HIDE DEF P
  <2> QED
    BY <1>1, <1>11, <1>12, Peel
<1>14. QED
  BY <1>2, <1>13 DEF D

\* The three parts of merge_extraction, one record after another.
LEMMA GivenIn ==
  ASSUME NEW S, NEW l \in Lists(S), NEW av, NEW x, x.given = l, NEW T, av \in T[{}],
         \A s \in SUBSET DOMAIN l : s # {} =>
           \A t \in T[s \ {Max(s)}] : Give(t, l[Max(s)], x.replaced) \in T[s]
  PROVE  GivenTo(av, x) \in T[DOMAIN l]
<1> DEFINE D == DOMAIN l
           c == Latest(l)
           base == av
           U == UNION {T[s] : s \in SUBSET D}
           F == [p \in D \X U |-> Give(p[2], l[p[1]], x.replaced)]
           Adds(it) == [s \in SUBSET D |->
                          IF s = {} THEN base ELSE Give(it[s \ {Max(s)}], l[Max(s)], x.replaced)]
           fold == CHOOSE it : it = Adds(it)
<1>1. IsFiniteSet(D) /\ Chooses(c, D) /\ \A s \in SUBSET D : c[s] = Max(s)
  BY LastIs
<1> HIDE DEF c
<1>2. GivenTo(av, x) = fold[D]
  BY DEF GivenTo, FoldLeft, MapThenFoldSet
<1>3. \A s \in SUBSET D : T[s] \subseteq U
  OBVIOUS
<1> HIDE DEF U
<1>4. \A i \in D, t \in U : F[<<i, t>>] = Give(t, l[i], x.replaced)
  OBVIOUS
<1> HIDE DEF F
<1>5. \A s \in SUBSET D : s # {} =>
        \A t \in T[s \ {c[s]}] : F[<<c[s], t>>] = Give(t, l[Max(s)], x.replaced)
  BY <1>1, <1>3, <1>4 DEF Chooses
<1>6. Keeps(F, T, c, D)
  <2>1. SUFFICES ASSUME NEW s \in SUBSET D, s # {}, NEW t \in T[s \ {c[s]}]
                 PROVE  F[<<c[s], t>>] \in T[s]
    BY DEF Keeps
  <2>2. F[<<c[s], t>>] = Give(t, l[Max(s)], x.replaced)
    BY <1>5, <2>1
  <2>3. QED
    BY <1>1, <2>1, <2>2
<1>7. base \in T[{}]
  OBVIOUS
<1> HIDE DEF base, D
<1>8. PICK g : Folded(g, base, F, c, D) /\ \A s \in SUBSET D : g[s] \in T[s]
  BY <1>1, <1>6, <1>7, Folds
<1>9. g = Adds(g)
  <2>1. \A s \in SUBSET D : g[s] = Adds(g)[s]
    BY <1>1, <1>5, <1>8 DEF Folded
  <2>2. QED
    BY <1>8, <2>1 DEF Folded
<1>10. fold = Adds(fold)
  <2> HIDE DEF Adds
  <2> QED
    BY <1>9
<1> HIDE DEF fold
<1> DEFINE P == {s \in SUBSET D : fold[s] \in T[s]}
<1>11. {} \in P
  BY <1>7, <1>10
<1>12. PassedOn(P, c, D)
  <2>1. SUFFICES ASSUME NEW s \in SUBSET D, s # {}, fold[s \ {Max(s)}] \in T[s \ {Max(s)}]
                 PROVE  fold[s] \in T[s]
    BY <1>1 DEF PassedOn
  <2>2. fold[s] = Give(fold[s \ {Max(s)}], l[Max(s)], x.replaced)
    BY <1>10, <2>1
  <2>3. QED
    BY <2>1, <2>2 DEF D
<1>13. SUBSET D \subseteq P
  <2> HIDE DEF P
  <2> QED
    BY <1>1, <1>11, <1>12, Peel
<1>14. QED
  BY <1>2, <1>13 DEF D

\* What is only implied.
LEMMA InferredIn ==
  ASSUME NEW S, NEW l \in Lists(S), NEW av, NEW T, av \in T[{}],
         \A s \in SUBSET DOMAIN l : s # {} =>
           \A t \in T[s \ {Max(s)}] : Infer(t, l[Max(s)]) \in T[s]
  PROVE  ImpliedInto(av, l) \in T[DOMAIN l]
<1> DEFINE D == DOMAIN l
           c == Latest(l)
           base == av
           U == UNION {T[s] : s \in SUBSET D}
           F == [p \in D \X U |-> Infer(p[2], l[p[1]])]
           Adds(it) == [s \in SUBSET D |->
                          IF s = {} THEN base ELSE Infer(it[s \ {Max(s)}], l[Max(s)])]
           fold == CHOOSE it : it = Adds(it)
<1>1. IsFiniteSet(D) /\ Chooses(c, D) /\ \A s \in SUBSET D : c[s] = Max(s)
  BY LastIs
<1> HIDE DEF c
<1>2. ImpliedInto(av, l) = fold[D]
  BY DEF ImpliedInto, FoldLeft, MapThenFoldSet
<1>3. \A s \in SUBSET D : T[s] \subseteq U
  OBVIOUS
<1> HIDE DEF U
<1>4. \A i \in D, t \in U : F[<<i, t>>] = Infer(t, l[i])
  OBVIOUS
<1> HIDE DEF F
<1>5. \A s \in SUBSET D : s # {} =>
        \A t \in T[s \ {c[s]}] : F[<<c[s], t>>] = Infer(t, l[Max(s)])
  BY <1>1, <1>3, <1>4 DEF Chooses
<1>6. Keeps(F, T, c, D)
  <2>1. SUFFICES ASSUME NEW s \in SUBSET D, s # {}, NEW t \in T[s \ {c[s]}]
                 PROVE  F[<<c[s], t>>] \in T[s]
    BY DEF Keeps
  <2>2. F[<<c[s], t>>] = Infer(t, l[Max(s)])
    BY <1>5, <2>1
  <2>3. QED
    BY <1>1, <2>1, <2>2
<1>7. base \in T[{}]
  OBVIOUS
<1> HIDE DEF base, D
<1>8. PICK g : Folded(g, base, F, c, D) /\ \A s \in SUBSET D : g[s] \in T[s]
  BY <1>1, <1>6, <1>7, Folds
<1>9. g = Adds(g)
  <2>1. \A s \in SUBSET D : g[s] = Adds(g)[s]
    BY <1>1, <1>5, <1>8 DEF Folded
  <2>2. QED
    BY <1>8, <2>1 DEF Folded
<1>10. fold = Adds(fold)
  <2> HIDE DEF Adds
  <2> QED
    BY <1>9
<1> HIDE DEF fold
<1> DEFINE P == {s \in SUBSET D : fold[s] \in T[s]}
<1>11. {} \in P
  BY <1>7, <1>10
<1>12. PassedOn(P, c, D)
  <2>1. SUFFICES ASSUME NEW s \in SUBSET D, s # {}, fold[s \ {Max(s)}] \in T[s \ {Max(s)}]
                 PROVE  fold[s] \in T[s]
    BY <1>1 DEF PassedOn
  <2>2. fold[s] = Infer(fold[s \ {Max(s)}], l[Max(s)])
    BY <1>10, <2>1
  <2>3. QED
    BY <2>1, <2>2 DEF D
<1>13. SUBSET D \subseteq P
  <2> HIDE DEF P
  <2> QED
    BY <1>1, <1>11, <1>12, Peel
<1>14. QED
  BY <1>2, <1>13 DEF D

\* What is taken away.
LEMMA WithdrawnIn ==
  ASSUME NEW S, NEW l \in Lists(S), NEW av, NEW T, av \in T[{}],
         \A s \in SUBSET DOMAIN l : s # {} =>
           \A t \in T[s \ {Max(s)}] : Withdraw(t, l[Max(s)]) \in T[s]
  PROVE  FoldLeft(Withdraw, av, l) \in T[DOMAIN l]
<1> DEFINE D == DOMAIN l
           c == Latest(l)
           base == av
           U == UNION {T[s] : s \in SUBSET D}
           F == [p \in D \X U |-> Withdraw(p[2], l[p[1]])]
           Adds(it) == [s \in SUBSET D |->
                          IF s = {} THEN base ELSE Withdraw(it[s \ {Max(s)}], l[Max(s)])]
           fold == CHOOSE it : it = Adds(it)
<1>1. IsFiniteSet(D) /\ Chooses(c, D) /\ \A s \in SUBSET D : c[s] = Max(s)
  BY LastIs
<1> HIDE DEF c
<1>2. FoldLeft(Withdraw, av, l) = fold[D]
  BY DEF FoldLeft, MapThenFoldSet
<1>3. \A s \in SUBSET D : T[s] \subseteq U
  OBVIOUS
<1> HIDE DEF U
<1>4. \A i \in D, t \in U : F[<<i, t>>] = Withdraw(t, l[i])
  OBVIOUS
<1> HIDE DEF F
<1>5. \A s \in SUBSET D : s # {} =>
        \A t \in T[s \ {c[s]}] : F[<<c[s], t>>] = Withdraw(t, l[Max(s)])
  BY <1>1, <1>3, <1>4 DEF Chooses
<1>6. Keeps(F, T, c, D)
  <2>1. SUFFICES ASSUME NEW s \in SUBSET D, s # {}, NEW t \in T[s \ {c[s]}]
                 PROVE  F[<<c[s], t>>] \in T[s]
    BY DEF Keeps
  <2>2. F[<<c[s], t>>] = Withdraw(t, l[Max(s)])
    BY <1>5, <2>1
  <2>3. QED
    BY <1>1, <2>1, <2>2
<1>7. base \in T[{}]
  OBVIOUS
<1> HIDE DEF base, D
<1>8. PICK g : Folded(g, base, F, c, D) /\ \A s \in SUBSET D : g[s] \in T[s]
  BY <1>1, <1>6, <1>7, Folds
<1>9. g = Adds(g)
  <2>1. \A s \in SUBSET D : g[s] = Adds(g)[s]
    BY <1>1, <1>5, <1>8 DEF Folded
  <2>2. QED
    BY <1>8, <2>1 DEF Folded
<1>10. fold = Adds(fold)
  <2> HIDE DEF Adds
  <2> QED
    BY <1>9
<1> HIDE DEF fold
<1> DEFINE P == {s \in SUBSET D : fold[s] \in T[s]}
<1>11. {} \in P
  BY <1>7, <1>10
<1>12. PassedOn(P, c, D)
  <2>1. SUFFICES ASSUME NEW s \in SUBSET D, s # {}, fold[s \ {Max(s)}] \in T[s \ {Max(s)}]
                 PROVE  fold[s] \in T[s]
    BY <1>1 DEF PassedOn
  <2>2. fold[s] = Withdraw(fold[s \ {Max(s)}], l[Max(s)])
    BY <1>10, <2>1
  <2>3. QED
    BY <2>1, <2>2 DEF D
<1>13. SUBSET D \subseteq P
  <2> HIDE DEF P
  <2> QED
    BY <1>1, <1>11, <1>12, Peel
<1>14. QED
  BY <1>2, <1>13 DEF D

\* What a removal leaves of a set of slots, and what several leave.
LeftOf(slots, removal) == UNION {Subtracted(s, removal) : s \in slots}
AnyOf(D) == [s \in SUBSET D |-> CHOOSE x \in s : TRUE]

LEMMA RemovedIn ==
  ASSUME NEW D, IsFiniteSet(D), NEW slots, NEW T, slots \in T[{}],
         \A s \in SUBSET D : s # {} =>
           \A t \in T[s \ {AnyOf(D)[s]}] : LeftOf(t, AnyOf(D)[s]) \in T[s]
  PROVE  Removed(slots, D) \in T[D]
<1> DEFINE c == AnyOf(D)
           U == UNION {T[s] : s \in SUBSET D}
           F == [p \in D \X U |-> LeftOf(p[2], p[1])]
           first(s) == CHOOSE x \in s : TRUE
           Adds(it) == [s \in SUBSET D |->
                          IF s = {} THEN slots ELSE LeftOf(it[s \ {first(s)}], first(s))]
           fold == CHOOSE it : it = Adds(it)
<1>1. Chooses(c, D) /\ \A s \in SUBSET D : c[s] = first(s)
  BY DEF AnyOf, Chooses
<1>2. Removed(slots, D) = fold[D]
  BY DEF Removed, FoldSet, MapThenFoldSet, LeftOf
<1> HIDE DEF c, first
<1>3. \A s \in SUBSET D : T[s] \subseteq U
  OBVIOUS
<1> HIDE DEF U
<1>4. \A i \in D, t \in U : F[<<i, t>>] = LeftOf(t, i)
  OBVIOUS
<1> HIDE DEF F
<1>5. \A s \in SUBSET D : s # {} =>
        \A t \in T[s \ {c[s]}] : F[<<c[s], t>>] = LeftOf(t, c[s])
  BY <1>1, <1>3, <1>4 DEF Chooses
<1>6. Keeps(F, T, c, D)
  <2>1. SUFFICES ASSUME NEW s \in SUBSET D, s # {}, NEW t \in T[s \ {c[s]}]
                 PROVE  F[<<c[s], t>>] \in T[s]
    BY DEF Keeps
  <2>2. F[<<c[s], t>>] = LeftOf(t, c[s])
    BY <1>5, <2>1
  <2>3. QED
    BY <2>1, <2>2 DEF c
<1>7. PICK g : Folded(g, slots, F, c, D) /\ \A s \in SUBSET D : g[s] \in T[s]
  BY <1>1, <1>6, Folds
<1>8. g = Adds(g)
  <2>1. \A s \in SUBSET D : g[s] = Adds(g)[s]
    BY <1>1, <1>5, <1>7 DEF Folded
  <2>2. QED
    BY <1>7, <2>1 DEF Folded
<1>9. fold = Adds(fold)
  <2> HIDE DEF Adds
  <2> QED
    BY <1>8
<1> HIDE DEF fold
<1> DEFINE P == {s \in SUBSET D : fold[s] \in T[s]}
<1>10. {} \in P
  BY <1>9
<1>11. PassedOn(P, c, D)
  <2>1. SUFFICES ASSUME NEW s \in SUBSET D, s # {}, fold[s \ {c[s]}] \in T[s \ {c[s]}]
                 PROVE  fold[s] \in T[s]
    BY DEF PassedOn
  <2>2. fold[s] = LeftOf(fold[s \ {c[s]}], c[s])
    BY <1>1, <1>9, <2>1
  <2>3. QED
    BY <2>1, <2>2 DEF c
<1>12. SUBSET D \subseteq P
  <2> HIDE DEF P
  <2> QED
    BY <1>1, <1>10, <1>11, Peel
<1>13. QED
  BY <1>2, <1>12

-----------------------------------------------------------------------------
(* Slots *)

LEMMA Greater ==
  ASSUME NEW a \in Int, NEW b \in Int
  PROVE  Max({a, b}) = IF a >= b THEN a ELSE b
<1> DEFINE x == IF a >= b THEN a ELSE b
<1>1. x \in {a, b} /\ \A y \in {a, b} : x >= y
  OBVIOUS
<1>2. \A z \in {a, b} : (\A y \in {a, b} : z >= y) => z = x
  OBVIOUS
<1> HIDE DEF x
<1>3. QED
  BY <1>1, <1>2 DEF Max, x

LEMMA Smaller ==
  ASSUME NEW a \in Int, NEW b \in Int
  PROVE  Min({a, b}) = IF a <= b THEN a ELSE b
<1> DEFINE x == IF a <= b THEN a ELSE b
<1>1. x \in {a, b} /\ \A y \in {a, b} : x <= y
  OBVIOUS
<1>2. \A z \in {a, b} : (\A y \in {a, b} : z <= y) => z = x
  OBVIOUS
<1> HIDE DEF x
<1>3. QED
  BY <1>1, <1>2 DEF Min, x

LEMMA Workday == WorkStart \in Hour /\ WorkEnd \in Hour /\ WorkStart < WorkEnd
                 /\ Hour \subseteq Nat /\ 0 \in 0 .. MaxWeek
BY InterpretationAssumption DEF Hour, MaxWeek

LEMMA BlockType ==
  ASSUME NEW days \in SUBSET Day, NEW start \in Hour, NEW end \in Hour,
         start < end, NEW week \in 0 .. MaxWeek
  PROVE  Block(days, start, end, week) \in SUBSET Slot
BY DEF Block, Slot, Hour

LEMMA InWorkdayType ==
  ASSUME NEW days \in SUBSET Day, NEW start \in Nat, NEW end \in Nat,
         NEW week \in 0 .. MaxWeek
  PROVE  InWorkday(days, start, end, week) \in SUBSET Slot
<1> DEFINE first == IF start >= WorkStart THEN start ELSE WorkStart
           last == IF end <= WorkEnd THEN end ELSE WorkEnd
<1>1. WorkStart \in Int /\ WorkEnd \in Int
  BY InterpretationAssumption
<1>2. Max({start, WorkStart}) = first /\ Min({end, WorkEnd}) = last
  BY <1>1, Greater, Smaller
<1>3. InWorkday(days, start, end, week) = IF last <= first THEN {} ELSE Block(days, first, last, week)
  BY <1>2 DEF InWorkday
<1>4. CASE last <= first
  BY <1>3, <1>4
<1>5. CASE ~(last <= first)
  <2>1. first \in Hour /\ last \in Hour /\ first < last
    BY <1>1, <1>5, Workday DEF Hour
  <2> HIDE DEF first, last
  <2>2. QED
    BY <1>3, <1>5, <2>1, BlockType
<1>6. QED
  BY <1>4, <1>5

LEMMA AroundType ==
  ASSUME NEW days \in SUBSET Day, NEW start \in Hour, NEW end \in Hour,
         NEW week \in 0 .. MaxWeek
  PROVE  Around(days, start, end, week) \in SUBSET Slot
<1> DEFINE before == IF start > WorkStart THEN Block(days, WorkStart, start, week) ELSE {}
           after == IF end < WorkEnd THEN Block(days, end, WorkEnd, week) ELSE {}
<1>1. WorkStart \in Hour /\ WorkEnd \in Hour
  BY Workday
<1>2. before \in SUBSET Slot
  <2>1. start > WorkStart => WorkStart < start
    BY <1>1 DEF Hour
  <2>2. QED
    BY <1>1, <2>1, BlockType
<1>3. after \in SUBSET Slot
  BY <1>1, BlockType
<1>4. Around(days, start, end, week) = before \cup after
  BY DEF Around
<1> HIDE DEF before, after
<1>5. QED
  BY <1>2, <1>3, <1>4

LEMMA SlotIs ==
  ASSUME NEW s \in Slot
  PROVE  /\ s.week \in 0 .. MaxWeek /\ s.day \in Day /\ s.start \in Hour
         /\ s.end \in Hour /\ s.start < s.end
         /\ s = [week |-> s.week, day |-> s.day, start |-> s.start, end |-> s.end]
BY DEF Slot, Hour

LEMMA SlotsFinite == IsFiniteSet(Slot)
<1> DEFINE K == Day \X Hour
           W == (0 .. MaxWeek) \X Hour
           f == [p \in W \X K |-> [week |-> p[1][1], day |-> p[2][1],
                                   start |-> p[1][2], end |-> p[2][2]]]
           R == {f[p] : p \in W \X K}
<1>1. /\ IsFiniteSet(Day) /\ IsFiniteSet(Hour) /\ IsFiniteSet(0 .. MaxWeek)
  <2>1. NumDays \in Int /\ MaxWeek \in Int
    BY InterpretationAssumption DEF MaxWeek
  <2>2. \A a, b \in Int : IsFiniteSet(a .. b)
    BY FS_Interval
  <2>3. IsFiniteSet(Day)
    BY <2>1, <2>2 DEF Day
  <2>4. IsFiniteSet(Hour)
    BY <2>2, 0 \in Int, 23 \in Int DEF Hour
  <2>5. IsFiniteSet(0 .. MaxWeek)
    BY <2>1, <2>2
  <2>6. QED
    BY <2>3, <2>4, <2>5
<1>2. IsFiniteSet(W \X K)
  <2>1. IsFiniteSet(W) /\ IsFiniteSet(K)
    BY <1>1, FS_Product
  <2> HIDE DEF W, K
  <2>2. QED
    BY <2>1, FS_Product
<1>3. f \in Surjection(W \X K, R)
  BY DEF Surjection
<1>4. IsFiniteSet(R)
  <2> HIDE DEF W, K, f, R
  <2> QED
    BY <1>2, <1>3, FS_Surjection
<1>5. ASSUME NEW s \in Slot
      PROVE  s \in R
  <2>1. <<s.week, s.start>> \in W /\ <<s.day, s.end>> \in K
    BY SlotIs
  <2>2. s = f[<<<<s.week, s.start>>, <<s.day, s.end>>>>]
    BY <2>1, SlotIs
  <2>3. QED
    BY <2>1, <2>2
<1>6. QED
  BY <1>4, <1>5, FS_Subset

-----------------------------------------------------------------------------
(* What a removal takes *)

LEMMA SubtractedIs ==
  ASSUME NEW s \in Slot, NEW r \in Slot
  PROVE  /\ Subtracted(s, r) \in SUBSET Slot
         /\ \A z \in Subtracted(s, r) : z.day = s.day /\ z.week = s.week
         /\ Cover(Subtracted(s, r)) = Cover({s}) \ Cover({r})
<1> DEFINE first == IF s.start >= r.start THEN s.start ELSE r.start
           last == IF s.end <= r.end THEN s.end ELSE r.end
           before == [s EXCEPT !.end = first]
           after == [s EXCEPT !.start = last]
<1>1. /\ s.week \in Nat /\ s.day \in Int /\ s.start \in Nat /\ s.end \in Nat
      /\ r.week \in Nat /\ r.day \in Int /\ r.start \in Nat /\ r.end \in Nat
      /\ s.start < s.end /\ r.start < r.end
  BY SlotIs, Workday DEF Day, MaxWeek
<1>2. Max({s.start, r.start}) = first /\ Min({s.end, r.end}) = last
  BY <1>1, Greater, Smaller
<1>3. Subtracted(s, r) = IF s.day # r.day \/ s.week # r.week \/ first >= last
                         THEN {s} ELSE {z \in {before, after} : z.start < z.end}
  BY <1>2 DEF Subtracted
<1>4. /\ before.start = s.start /\ before.end = first /\ before.day = s.day /\ before.week = s.week
      /\ after.start = last /\ after.end = s.end /\ after.day = s.day /\ after.week = s.week
  BY DEF Slot
<1>5. \A z, c : c \in Cover({z}) <=> \E h \in z.start .. z.end - 1 : c = <<z.week, z.day, h>>
  BY DEF Cover
<1>6. CASE s.day # r.day \/ s.week # r.week \/ first >= last
  <2>1. Subtracted(s, r) = {s}
    BY <1>3, <1>6
  <2>2. ASSUME NEW h \in s.start .. s.end - 1, NEW k \in r.start .. r.end - 1,
               <<s.week, s.day, h>> = <<r.week, r.day, k>>
        PROVE  FALSE
    BY <1>1, <1>6, <2>2
  <2>3. \A c : ~ (c \in Cover({s}) /\ c \in Cover({r}))
    BY <1>5, <2>2
  <2>4. QED
    BY <2>1, <2>3
<1>7. CASE ~(s.day # r.day \/ s.week # r.week \/ first >= last)
  <2>1. Subtracted(s, r) = {z \in {before, after} : z.start < z.end}
    BY <1>3, <1>7
  <2>2. Subtracted(s, r) \in SUBSET Slot
    <3>1. first \in Hour /\ last \in Hour
      BY SlotIs
    <3>2. QED
      BY <2>1, <3>1 DEF Slot, Hour
  <2>3. \A z \in Subtracted(s, r) : z.day = s.day /\ z.week = s.week
    BY <1>4, <2>1
  <2> DEFINE mine(h) == <<s.week, s.day, h>>
  <2>4. \A c : c \in Cover(Subtracted(s, r)) <=>
               \E h \in s.start .. s.end - 1 : c = mine(h) /\ (h < first \/ h >= last)
    <3>1. \A c : c \in Cover(Subtracted(s, r)) <=>
                 \/ before.start < before.end /\ c \in Cover({before})
                 \/ after.start < after.end /\ c \in Cover({after})
      <4> HIDE DEF before, after
      <4>1. \A z : z \in Subtracted(s, r) <=> z \in {before, after} /\ z.start < z.end
        BY <2>1
      <4>2. \A c : c \in Cover(Subtracted(s, r)) <=>
                   \E z \in Subtracted(s, r) : c \in Cover({z})
        BY DEF Cover
      <4>3. QED
        BY <4>1, <4>2
    <3>2. \A c : before.start < before.end /\ c \in Cover({before}) <=>
                 \E h \in s.start .. s.end - 1 : c = mine(h) /\ h < first
      <4>1. \A h : h \in s.start .. first - 1 <=> h \in s.start .. s.end - 1 /\ h < first
        BY <1>1, <1>7
      <4>2. s.start < first \/ s.start .. first - 1 = {}
        BY <1>1
      <4> HIDE DEF before, first
      <4>3. \A c : c \in Cover({before}) <=> \E h \in s.start .. first - 1 : c = mine(h)
        BY <1>4, <1>5
      <4>4. QED
        BY <1>4, <4>1, <4>2, <4>3
    <3>3. \A c : after.start < after.end /\ c \in Cover({after}) <=>
                 \E h \in s.start .. s.end - 1 : c = mine(h) /\ h >= last
      <4>1. \A h : h \in last .. s.end - 1 <=> h \in s.start .. s.end - 1 /\ h >= last
        BY <1>1, <1>7
      <4>2. last < s.end \/ last .. s.end - 1 = {}
        BY <1>1
      <4> HIDE DEF after, last
      <4>3. \A c : c \in Cover({after}) <=> \E h \in last .. s.end - 1 : c = mine(h)
        BY <1>4, <1>5
      <4>4. QED
        BY <1>4, <4>1, <4>2, <4>3
    <3> HIDE DEF before, after, first, last, mine
    <3>4. QED
      BY <3>1, <3>2, <3>3
  <2>5. \A c : c \in Cover({s}) \ Cover({r}) <=>
               \E h \in s.start .. s.end - 1 : c = mine(h) /\ (h < first \/ h >= last)
    <3>1. \A h \in s.start .. s.end - 1 : h \in r.start .. r.end - 1 <=> ~(h < first \/ h >= last)
      BY <1>1, <1>7
    <3>2. \A h : mine(h) \in Cover({r}) <=> h \in r.start .. r.end - 1
      BY <1>5, <1>7
    <3>3. \A c : c \in Cover({s}) <=> \E h \in s.start .. s.end - 1 : c = mine(h)
      BY <1>5
    <3> HIDE DEF mine, first, last
    <3>4. QED
      BY <3>1, <3>2, <3>3
  <2>6. Cover(Subtracted(s, r)) = Cover({s}) \ Cover({r})
    <3> HIDE DEF mine, first, last
    <3> QED
      BY <2>4, <2>5
  <2>7. QED
    BY <2>2, <2>3, <2>6
<1>8. QED
  BY <1>6, <1>7

LEMMA CoverIs ==
  ASSUME NEW slots
  PROVE  \A c : c \in Cover(slots) <=> \E s \in slots : c \in Cover({s})
BY DEF Cover

LEMMA CoverDays ==
  ASSUME NEW slots \in SUBSET Slot, NEW c \in Cover(slots)
  PROVE  \E s \in slots : c[1] = s.week /\ c[2] = s.day
BY DEF Cover

LEMMA LeftIs ==
  ASSUME NEW slots \in SUBSET Slot, NEW r \in Slot
  PROVE  /\ LeftOf(slots, r) \in SUBSET Slot
         /\ Cover(LeftOf(slots, r)) = Cover(slots) \ Cover({r})
<1>1. \A s \in slots : /\ Subtracted(s, r) \in SUBSET Slot
                       /\ Cover(Subtracted(s, r)) = Cover({s}) \ Cover({r})
  BY SubtractedIs
<1>2. \A z : z \in LeftOf(slots, r) <=> \E s \in slots : z \in Subtracted(s, r)
  BY DEF LeftOf
<1>3. \A c : c \in Cover(LeftOf(slots, r)) <=>
             \E s \in slots : c \in Cover(Subtracted(s, r))
  <2> DEFINE left == LeftOf(slots, r)
  <2>1. \A c : c \in Cover(left) <=> \E z \in left : c \in Cover({z})
    <3> HIDE DEF left
    <3> QED
      BY CoverIs
  <2>2. \A s, c : c \in Cover(Subtracted(s, r)) <=>
                  \E z \in Subtracted(s, r) : c \in Cover({z})
    <3>1. SUFFICES ASSUME NEW s
                   PROVE  \A c : c \in Cover(Subtracted(s, r)) <=>
                                \E z \in Subtracted(s, r) : c \in Cover({z})
      OBVIOUS
    <3> DEFINE part == Subtracted(s, r)
    <3> HIDE DEF part
    <3>2. \A c : c \in Cover(part) <=> \E z \in part : c \in Cover({z})
      BY CoverIs
    <3>3. QED
      BY <3>2 DEF part
  <2>3. QED
    BY <1>2, <2>1, <2>2
<1>4. \A c : c \in Cover(slots) <=> \E s \in slots : c \in Cover({s})
  BY CoverIs
<1>5. LeftOf(slots, r) \in SUBSET Slot
  BY <1>1, <1>2
<1>6. \A s \in slots : \A c : c \in Cover(Subtracted(s, r)) <=> c \in Cover({s}) /\ c \notin Cover({r})
  BY <1>1
<1>7. \A c : c \in Cover(LeftOf(slots, r)) <=> c \in Cover(slots) /\ c \notin Cover({r})
  BY <1>3, <1>4, <1>6
<1>8. Cover(LeftOf(slots, r)) = Cover(slots) \ Cover({r})
  BY <1>7
<1>9. QED
  BY <1>5, <1>8

\* remove_slots takes exactly the hours of the removals, whatever their order.
LEMMA RemovedIs ==
  ASSUME NEW slots \in SUBSET Slot, NEW D \in SUBSET Slot
  PROVE  /\ Removed(slots, D) \in SUBSET Slot
         /\ Cover(Removed(slots, D)) = Cover(slots) \ Cover(D)
<1> DEFINE T == [s \in SUBSET D |-> {t \in SUBSET Slot : Cover(t) = Cover(slots) \ Cover(s)}]
<1>1. IsFiniteSet(D)
  BY SlotsFinite, FS_Subset
<1>2. slots \in T[{}]
  BY DEF Cover
<1>3. ASSUME NEW s \in SUBSET D, s # {}, NEW t \in T[s \ {AnyOf(D)[s]}]
      PROVE  LeftOf(t, AnyOf(D)[s]) \in T[s]
  <2> DEFINE x == AnyOf(D)[s]
  <2>1. x \in s
    BY <1>3 DEF AnyOf
  <2> HIDE DEF x
  <2>2. t \in SUBSET Slot /\ Cover(t) = Cover(slots) \ Cover(s \ {x})
    BY <1>3 DEF x
  <2>3. /\ LeftOf(t, x) \in SUBSET Slot
        /\ Cover(LeftOf(t, x)) = Cover(t) \ Cover({x})
    BY <2>1, <2>2, LeftIs
  <2>4. Cover(s) = Cover(s \ {x}) \cup Cover({x})
    <3>1. \A c : c \in Cover(s) <=> \E z \in s : c \in Cover({z})
      BY CoverIs
    <3>2. \A c : c \in Cover(s \ {x}) <=> \E z \in s \ {x} : c \in Cover({z})
      <4> DEFINE rest == s \ {x}
      <4> HIDE DEF rest
      <4>1. \A c : c \in Cover(rest) <=> \E z \in rest : c \in Cover({z})
        BY CoverIs
      <4>2. QED
        BY <4>1 DEF rest
    <3>3. QED
      BY <2>1, <3>1, <3>2
  <2>5. QED
    BY <2>2, <2>3, <2>4 DEF x
<1> HIDE DEF T
<1>4. Removed(slots, D) \in T[D]
  BY <1>1, <1>2, <1>3, RemovedIn
<1>5. QED
  BY <1>4 DEF T

-----------------------------------------------------------------------------
(* Records and readings.  What is read is confined to some people and days:   *)
(* what it gives or implies to days, what it takes away to reach, and whose   *)
(* hours it replaces to corrected.                                            *)

Records(people, days) == [who : people, slots : SUBSET {s \in Slot : s.day \in days}]

Flag == {"invalid_interval", "range_normalized", "range_ambiguous", "third_party",
         "ambiguous_mention"}

Readings(people, days, reach, corrected) ==
  [given : Lists(Records(people, days)), removed : Lists(Records(people, reach)),
   implied : Lists(Records(people, days)), replaced : SUBSET (people \cap corrected),
   flags : SUBSET Flag]

Reading == Readings(Who, Day, Day, Who)

LEMMA RecordIs ==
  /\ Record = Records(Who, Day)
  /\ \A s \in Slot : s.day \in Day
<1>1. \A s \in Slot : s.day \in Day
  BY SlotIs
<1>2. {s \in Slot : s.day \in Day} = Slot
  BY <1>1
<1>3. QED
  BY <1>1, <1>2 DEF Record, Records

LEMMA ReadingIs ==
  Reading = [given : Lists(Record), removed : Lists(Record), implied : Lists(Record),
             replaced : SUBSET Who, flags : SUBSET Flag]
BY RecordIs DEF Reading, Readings

LEMMA Wider ==
  ASSUME NEW S, NEW T, S \subseteq T
  PROVE  Lists(S) \subseteq Lists(T)
<1>1. SUFFICES ASSUME NEW l \in Lists(S) PROVE l \in Lists(T)
  OBVIOUS
<1>2. QED
  BY <1>1, ListIs

\* Lists keep the records that pass a test, and may be rewritten.
LEMMA GatherType ==
  ASSUME NEW l \in Lists(Record), NEW r \in Record
  PROVE  Gather(l, r) \in Lists(Record)
<1>1. r.who \in Who /\ Had(l, r.who) \cup r.slots \in SUBSET Slot
  BY HadIs DEF Record
<1>2. QED
  BY <1>1, PutIs DEF Gather

LEMMA GatheredType ==
  ASSUME NEW l \in Lists(Record)
  PROVE  Gathered(l) \in Lists(Record)
<1> DEFINE T == [s \in SUBSET DOMAIN l |-> Lists(Record)]
<1>1. \A s \in SUBSET DOMAIN l : T[s] = Lists(Record)
  OBVIOUS
<1> HIDE DEF T
<1>2. <<>> \in T[{}]
  BY <1>1, EmptyList
<1>3. ASSUME NEW s \in SUBSET DOMAIN l, s # {}, NEW t \in T[s \ {Max(s)}]
      PROVE  Gather(t, l[Max(s)]) \in T[s]
  <2>1. Max(s) \in DOMAIN l /\ t \in Lists(Record)
    BY <1>1, <1>3, LastIs DEF Chooses
  <2>2. l[Max(s)] \in Record
    BY <2>1, ListIs
  <2>3. QED
    BY <1>1, <2>1, <2>2, GatherType
<1>4. Gathered(l) \in T[DOMAIN l]
  BY <1>2, <1>3, GatheredIn
<1>5. QED
  BY <1>1, <1>4

LEMMA FollowedType ==
  ASSUME NEW l \in Lists(Rule)
  PROVE  FoldLeft(Follow, <<>>, l) \in Lists(Record)
<1> DEFINE T == [s \in SUBSET DOMAIN l |-> Lists(Record)]
<1>1. \A s \in SUBSET DOMAIN l : T[s] = Lists(Record)
  OBVIOUS
<1> HIDE DEF T
<1>2. <<>> \in T[{}]
  BY <1>1, EmptyList
<1>3. ASSUME NEW s \in SUBSET DOMAIN l, s # {}, NEW t \in T[s \ {Max(s)}]
      PROVE  Follow(t, l[Max(s)]) \in T[s]
  <2> DEFINE r == l[Max(s)]
  <2>1. Max(s) \in DOMAIN l /\ t \in Lists(Record)
    BY <1>1, <1>3, LastIs DEF Chooses
  <2>2. r \in Rule
    BY <2>1, ListIs
  <2> HIDE DEF r
  <2>3. r.who \in Who /\ r.slots \in SUBSET Slot /\ Had(t, r.who) \in SUBSET Slot
    BY <2>1, <2>2, HadIs DEF Rule, Found
  <2>4. Follow(t, r) \in Lists(Record)
    BY <2>1, <2>3, PutIs DEF Follow
  <2>5. QED
    BY <1>1, <2>4 DEF r
<1>4. FoldLeft(Follow, <<>>, l) \in T[DOMAIN l]
  BY <1>2, <1>3, FollowedIn
<1>5. QED
  BY <1>1, <1>4

-----------------------------------------------------------------------------
(* Every stage yields a reading *)

LEMMA Clamped ==
  ASSUME NEW n \in Nat
  PROVE  Max({WorkStart, Min({n, WorkEnd})}) \in Hour
<1>1. n \in Int /\ WorkEnd \in Int /\ WorkStart \in Int /\ WorkStart < WorkEnd
  BY InterpretationAssumption
<1>2. Min({n, WorkEnd}) = IF n <= WorkEnd THEN n ELSE WorkEnd
  BY <1>1, Smaller
<1> DEFINE k == Min({n, WorkEnd})
<1>3. k \in Int /\ k <= WorkEnd
  BY <1>1, <1>2
<1> HIDE DEF k
<1>4. Max({WorkStart, k}) = IF WorkStart >= k THEN WorkStart ELSE k
  BY <1>1, <1>3, Greater
<1>5. QED
  BY <1>1, <1>3, <1>4, Workday DEF Hour, k

LEMMA EntryIs ==
  ASSUME NEW e \in Entry
  PROVE  /\ e.who \in Who /\ e.days \in SUBSET Day
         /\ FirstHour(e) \in Hour /\ LastHour(e) \in Hour /\ Week(e) \in 0 .. MaxWeek
<1>1. e.from \in Nat \cup {None} /\ e.to \in Nat \cup {None} /\ e.week \in Int
      /\ e.who \in Who /\ e.days \in SUBSET Day
  BY DEF Entry
<1>2. FirstHour(e) \in Hour
  <2>1. CASE e.from = None
    BY <2>1, Workday DEF FirstHour
  <2>2. CASE e.from # None
    <3>1. e.from \div 2 \in Nat
      BY <1>1, <2>2
    <3>2. QED
      BY <2>2, <3>1, Clamped DEF FirstHour
  <2>3. QED
    BY <2>1, <2>2
<1>3. LastHour(e) \in Hour
  <2>1. CASE e.to = None
    BY <2>1, Workday DEF LastHour
  <2>2. CASE e.to # None
    <3>1. (e.to + 1) \div 2 \in Nat
      BY <1>1, <2>2
    <3>2. QED
      BY <2>2, <3>1, Clamped DEF LastHour
  <2>3. QED
    BY <2>1, <2>2
<1>4. Week(e) \in 0 .. MaxWeek
  <2> DEFINE k == Min({e.week, MaxWeek})
  <2>1. k = IF e.week <= MaxWeek THEN e.week ELSE MaxWeek
    BY <1>1, Smaller DEF MaxWeek
  <2>2. k \in Int /\ k <= MaxWeek
    BY <1>1, <2>1 DEF MaxWeek
  <2> HIDE DEF k
  <2>3. Max({0, k}) = IF 0 >= k THEN 0 ELSE k
    BY <2>2, Greater
  <2>4. QED
    BY <2>2, <2>3 DEF Week, MaxWeek, k
<1>5. QED
  BY <1>1, <1>2, <1>3, <1>4

LEMMA StretchType ==
  ASSUME NEW e \in Entry, Usable(e)
  PROVE  Stretch(e) \in SUBSET Slot
BY EntryIs, BlockType DEF Stretch, Usable

LEMMA RestType ==
  ASSUME NEW e \in Entry
  PROVE  Rest(e) \in SUBSET Slot
BY EntryIs, AroundType DEF Rest

LEMMA TakenType ==
  ASSUME NEW e \in Entry, Usable(e)
  PROVE  Taken(e) \in SUBSET Slot
<1>1. Block(Day \ e.days, WorkStart, WorkEnd, Week(e)) \in SUBSET Slot
  BY EntryIs, Workday, BlockType
<1>2. QED
  BY <1>1, StretchType, RestType DEF Taken

\* What the entries of some kinds say: what is read of each of them, gathered by
\* person, but for those of whom nothing is said.
Chosen(entries, kinds) == {i \in DOMAIN entries : Usable(entries[i]) /\ entries[i].kind \in kinds}
Telling(list) == [i \in {j \in DOMAIN list : list[j].slots # {}} |-> list[i]]

LEMMA TellingType ==
  ASSUME NEW S, NEW l \in Lists(S)
  PROVE  /\ Telling(l) \in Lists(S)
         /\ \A i \in DOMAIN Telling(l) : i \in DOMAIN l /\ Telling(l)[i] = l[i] /\ l[i].slots # {}
         /\ \A i \in DOMAIN l : l[i].slots # {} =>
              i \in DOMAIN Telling(l) /\ Telling(l)[i] = l[i]
<1> DEFINE D == {j \in DOMAIN l : l[j].slots # {}}
<1>1. Telling(l) = [i \in D |-> l[i]] /\ D \in SUBSET DOMAIN l
  BY DEF Telling
<1>2. /\ Telling(l) \in Lists(S) /\ DOMAIN Telling(l) = D
      /\ \A i \in D : Telling(l)[i] = l[i]
  <2> HIDE DEF D
  <2> QED
    BY <1>1, PartIsList
<1>3. QED
  BY <1>2

LEMMA SaidIs ==
  ASSUME NEW entries, NEW kinds
  PROVE  /\ Said(entries, kinds, Stretch) =
              Telling(Gathered([i \in Chosen(entries, kinds) |->
                                  [who |-> entries[i].who, slots |-> Stretch(entries[i])]]))
         /\ Said(entries, kinds, Taken) =
              Telling(Gathered([i \in Chosen(entries, kinds) |->
                                  [who |-> entries[i].who, slots |-> Taken(entries[i])]]))
         /\ Said(entries, kinds, Rest) =
              Telling(Gathered([i \in Chosen(entries, kinds) |->
                                  [who |-> entries[i].who, slots |-> Rest(entries[i])]]))
BY DEF Said, Where, Each, Chosen, Telling

LEMMA SaidType ==
  ASSUME NEW entries \in Seq(Entry), NEW kinds
  PROVE  /\ Said(entries, kinds, Stretch) \in Lists(Record)
         /\ Said(entries, kinds, Taken) \in Lists(Record)
         /\ Said(entries, kinds, Rest) \in Lists(Record)
<1>1. ASSUME NEW list, list = [i \in Chosen(entries, kinds) |-> list[i]],
             \A i \in Chosen(entries, kinds) : list[i] \in Record
      PROVE  Telling(Gathered(list)) \in Lists(Record)
  <2> DEFINE D == Chosen(entries, kinds)
             part == [i \in D |-> entries[i]]
  <2>1. entries \in Lists(Entry) /\ D \in SUBSET DOMAIN entries
    BY SequenceIsList DEF Chosen
  <2> HIDE DEF D
  <2>2. part \in Lists(Entry) /\ DOMAIN part = D
    BY <2>1, PartIsList
  <2>3. list \in Lists(Record)
    BY <1>1, <2>2, ImageIsList DEF D
  <2>4. QED
    BY <2>3, GatheredType, TellingType
<1>2. \A i \in Chosen(entries, kinds) : /\ entries[i] \in Entry
                                        /\ Usable(entries[i])
                                        /\ entries[i].who \in Who
                                        /\ Stretch(entries[i]) \in SUBSET Slot
                                        /\ Taken(entries[i]) \in SUBSET Slot
                                        /\ Rest(entries[i]) \in SUBSET Slot
  <2>1. \A i \in DOMAIN entries : entries[i] \in Entry
    OBVIOUS
  <2>2. QED
    BY <2>1, EntryIs, StretchType, TakenType, RestType DEF Chosen
<1> DEFINE a == [i \in Chosen(entries, kinds) |->
                   [who |-> entries[i].who, slots |-> Stretch(entries[i])]]
           b == [i \in Chosen(entries, kinds) |->
                   [who |-> entries[i].who, slots |-> Taken(entries[i])]]
           c == [i \in Chosen(entries, kinds) |->
                   [who |-> entries[i].who, slots |-> Rest(entries[i])]]
<1>3. /\ \A i \in Chosen(entries, kinds) : a[i] \in Record
      /\ \A i \in Chosen(entries, kinds) : b[i] \in Record
      /\ \A i \in Chosen(entries, kinds) : c[i] \in Record
  BY <1>2 DEF Record
<1>4. /\ a = [i \in Chosen(entries, kinds) |-> a[i]]
      /\ b = [i \in Chosen(entries, kinds) |-> b[i]]
      /\ c = [i \in Chosen(entries, kinds) |-> c[i]]
  OBVIOUS
<1>5. /\ Said(entries, kinds, Stretch) = Telling(Gathered(a))
      /\ Said(entries, kinds, Taken) = Telling(Gathered(b))
      /\ Said(entries, kinds, Rest) = Telling(Gathered(c))
  BY SaidIs
<1> HIDE DEF a, b, c
<1>6. /\ Telling(Gathered(a)) \in Lists(Record)
      /\ Telling(Gathered(b)) \in Lists(Record)
      /\ Telling(Gathered(c)) \in Lists(Record)
  BY <1>1, <1>3, <1>4
<1>7. QED
  BY <1>5, <1>6

LEMMA CompiledType ==
  ASSUME NEW entries \in Seq(Entry)
  PROVE  /\ Compiled(entries) \in Reading
         /\ (\A i \in DOMAIN entries : entries[i].kind # "replace") => Compiled(entries).replaced = {}
<1>1. \A e \in Range(entries) : e \in Entry /\ e.who \in Who /\ \E i \in DOMAIN entries : e = entries[i]
  <2>1. \A i \in DOMAIN entries : entries[i] \in Entry
    OBVIOUS
  <2>2. QED
    BY <2>1, EntryIs DEF Range
<1> DEFINE who == {e.who : e \in {x \in Range(entries) : Usable(x) /\ x.kind = "replace"}}
           flags == IF \E e \in Range(entries) : e.days # {} /\ ~Usable(e)
                    THEN {"invalid_interval"} ELSE {}
<1>2. who \in SUBSET Who /\ flags \in SUBSET Flag
  <2>1. who \in SUBSET Who
    BY <1>1
  <2>2. flags \in SUBSET Flag
    BY DEF Flag
  <2>3. QED
    BY <2>1, <2>2
<1>3. (\A i \in DOMAIN entries : entries[i].kind # "replace") => who = {}
  BY <1>1
<1>4. Compiled(entries) = [given |-> Said(entries, {"available", "replace", "only"}, Stretch),
                           removed |-> Said(entries, {"unavailable", "only"}, Taken),
                           implied |-> Said(entries, {"unavailable"}, Rest),
                           replaced |-> who, flags |-> flags]
  BY DEF Compiled
<1> HIDE DEF who, flags
<1>5. QED
  BY <1>2, <1>3, <1>4, SaidType, ReadingIs

\* What a message may hold, in lists.
LEMMA MessageIs ==
  ASSUME NEW m \in Message
  PROVE  /\ m.entries \in Seq(Entry)
         /\ m.rules \in Lists(Rule) /\ m.onlys \in Lists(Only)
         /\ m.spans \in Lists(CrossDay) /\ m.release \in Lists(Return)
         /\ m.named \in SUBSET Day /\ m.meant \in SUBSET Day /\ m.round \in SUBSET Day
         /\ m.names \in SUBSET Who
         /\ m.writers \in SUBSET Person /\ m.mentioned \in SUBSET Person
<1>1. /\ m.entries \in Seq(Entry)
      /\ m.rules \in Seq(Rule) /\ m.onlys \in Seq(Only)
      /\ m.spans \in Seq(CrossDay) /\ m.release \in Seq(Return)
      /\ m.named \in SUBSET Day /\ m.meant \in SUBSET Day /\ m.round \in SUBSET Day
      /\ m.names \in SUBSET Who
      /\ m.writers \in SUBSET Person /\ m.mentioned \in SUBSET Person
  BY DEF Message
<1>2. QED
  BY <1>1, SequenceIsList

LEMMA ReleaseType ==
  ASSUME NEW x \in Reading, NEW r \in Return, NEW named \in SUBSET Day
  PROVE  /\ Release(x, r, named) \in Reading
         /\ Release(x, r, named).replaced = x.replaced
<1> DEFINE slots == InWorkday(named, r.hour, WorkEnd, 0)
           days == DaysOf(slots)
           kept == {s \in Had(x.given, r.who) : s.day \notin days} \cup slots
<1>1. /\ x.given \in Lists(Record) /\ x.removed \in Lists(Record)
      /\ x.implied \in Lists(Record) /\ x.replaced \in SUBSET Who /\ x.flags \in SUBSET Flag
      /\ x = [given |-> x.given, removed |-> x.removed, implied |-> x.implied,
              replaced |-> x.replaced, flags |-> x.flags]
  BY ReadingIs
<1>2. r.who \in Who /\ r.hour \in Nat
  BY DEF Return
<1>3. slots \in SUBSET Slot
  <2>1. WorkEnd \in Nat
    BY Workday
  <2>2. QED
    BY <1>2, <2>1, InWorkdayType, Workday
<1>4. kept \in SUBSET Slot
  BY <1>1, <1>3, HadIs
<1>5. Release(x, r, named) = [x EXCEPT !.given = Put(@, r.who, kept),
                                       !.removed = Dropped(@, r.who, days),
                                       !.implied = Dropped(@, r.who, days)]
  BY DEF Release
<1> HIDE DEF kept, days
<1>6. /\ Put(x.given, r.who, kept) \in Lists(Record)
      /\ Dropped(x.removed, r.who, days) \in Lists(Record)
      /\ Dropped(x.implied, r.who, days) \in Lists(Record)
  BY <1>1, <1>2, <1>4, PutIs, DroppedIs
<1>7. QED
  BY <1>1, <1>5, <1>6, ReadingIs

LEMMA ExcludeType ==
  ASSUME NEW x \in Reading, NEW o \in Only
  PROVE  Exclude(x, o) \in Reading /\ Exclude(x, o).replaced = x.replaced
<1> DEFINE days == DaysOf(o.slots)
           rest == [who |-> o.who, slots |-> Block(Day \ days, WorkStart, WorkEnd, o.week)]
<1>1. /\ x.given \in Lists(Record) /\ x.removed \in Lists(Record)
      /\ x.implied \in Lists(Record) /\ x.replaced \in SUBSET Who /\ x.flags \in SUBSET Flag
      /\ x = [given |-> x.given, removed |-> x.removed, implied |-> x.implied,
              replaced |-> x.replaced, flags |-> x.flags]
  BY ReadingIs
<1>2. o.who \in Who /\ o.slots \in SUBSET Slot /\ o.week \in 0 .. MaxWeek
  BY DEF Only, Found
<1>3. rest \in Record
  BY <1>2, BlockType, Workday DEF Record
<1>4. Exclude(x, o) = [x EXCEPT !.given = Put(@, o.who, o.slots),
                                !.removed = Joined(Dropped(@, o.who, days), <<rest>>)]
  BY DEF Exclude
<1> HIDE DEF days, rest
<1>5. /\ Put(x.given, o.who, o.slots) \in Lists(Record)
      /\ Dropped(x.removed, o.who, days) \in Lists(Record)
      /\ <<rest>> \in Lists(Record)
  BY <1>1, <1>2, <1>3, PutIs, DroppedIs, OneIsList
<1>6. Joined(Dropped(x.removed, o.who, days), <<rest>>) \in Lists(Record)
  BY <1>5, JoinedIs
<1>7. QED
  BY <1>1, <1>4, <1>5, <1>6, ReadingIs

LEMMA SpanSlotsType ==
  ASSUME NEW r \in CrossDay
  PROVE  SpanSlots(r) \in SUBSET Slot
<1>1. /\ r.first \in Day /\ r.last \in Day /\ r.start \in Hour /\ r.end \in Hour
      /\ r.week \in 0 .. MaxWeek
  <2>1. r.start \in WorkStart .. WorkEnd /\ r.end \in WorkStart .. WorkEnd
    BY DEF CrossDay
  <2>2. r.start \in Hour /\ r.end \in Hour
    BY <2>1, Workday DEF Hour
  <2>3. QED
    BY <2>2 DEF CrossDay
<1> DEFINE start(d) == IF d = r.first THEN r.start ELSE WorkStart
           end(d) == IF d = r.last THEN r.end ELSE WorkEnd
           part(d) == IF end(d) <= start(d) THEN {} ELSE Block({d}, start(d), end(d), r.week)
<1>2. ASSUME NEW d \in r.first .. r.last
      PROVE  part(d) \in SUBSET Slot
  <2>1. d \in Day
    BY <1>1, InterpretationAssumption DEF Day
  <2>2. start(d) \in Hour /\ end(d) \in Hour
    BY <1>1, Workday
  <2> HIDE DEF start, end
  <2>3. CASE end(d) <= start(d)
    BY <2>3
  <2>4. CASE ~(end(d) <= start(d))
    <3>1. start(d) < end(d)
      BY <2>2, <2>4 DEF Hour
    <3>2. {d} \in SUBSET Day
      BY <2>1
    <3>3. QED
      BY <1>1, <2>2, <2>4, <3>1, <3>2, BlockType
  <2>5. QED
    BY <2>3, <2>4
<1>3. SpanSlots(r) = IF r.start >= WorkEnd \/ r.end <= WorkStart THEN {}
                     ELSE UNION {part(d) : d \in r.first .. r.last}
  BY DEF SpanSlots
<1> HIDE DEF part
<1>4. QED
  BY <1>2, <1>3

LEMMA SpanType ==
  ASSUME NEW x \in Reading, NEW r \in CrossDay
  PROVE  Span(x, r) \in Reading /\ Span(x, r).replaced = x.replaced
<1> DEFINE span == SpanSlots(r)
           Apart(old) == {s \in old : s.week # r.week \/ s.day \notin DaysOf(span)}
           free == UNION {Around({s.day}, s.start, s.end, s.week) : s \in span}
           Over(list) == Put(list, r.who, Apart(Had(list, r.who)) \cup span)
           cut == IF r.who \in Names(x.given) THEN Put(x.given, r.who, Apart(Had(x.given, r.who)))
                  ELSE x.given
           more == IF free = {} THEN x.implied
                   ELSE Put(x.implied, r.who, Had(x.implied, r.who) \cup free)
<1>1. /\ x.given \in Lists(Record) /\ x.removed \in Lists(Record)
      /\ x.implied \in Lists(Record) /\ x.replaced \in SUBSET Who /\ x.flags \in SUBSET Flag
      /\ x = [given |-> x.given, removed |-> x.removed, implied |-> x.implied,
              replaced |-> x.replaced, flags |-> x.flags]
  BY ReadingIs
<1>2. r.who \in Who
  BY DEF CrossDay
<1>3. span \in SUBSET Slot
  BY SpanSlotsType
<1>4. free \in SUBSET Slot
  <2>1. ASSUME NEW s \in span
        PROVE  Around({s.day}, s.start, s.end, s.week) \in SUBSET Slot
    <3>1. s \in Slot
      BY <1>3
    <3>2. {s.day} \in SUBSET Day /\ s.start \in Hour /\ s.end \in Hour /\ s.week \in 0 .. MaxWeek
      BY <3>1, SlotIs
    <3>3. QED
      BY <3>2, AroundType
  <2> HIDE DEF span
  <2>2. QED
    BY <2>1
<1>5. Span(x, r) = IF span = {} THEN x
                   ELSE IF ~r.negated THEN [x EXCEPT !.given = Over(@)]
                   ELSE [x EXCEPT !.given = cut, !.removed = Over(@), !.implied = more]
  BY DEF Span
<1> HIDE DEF span, free
<1>6. \A list \in Lists(Record) : /\ Apart(Had(list, r.who)) \in SUBSET Slot
                                  /\ Apart(Had(list, r.who)) \cup span \in SUBSET Slot
                                  /\ Had(list, r.who) \cup free \in SUBSET Slot
  BY <1>3, <1>4, HadIs
<1> HIDE DEF Apart
<1>7. Over(x.given) \in Lists(Record) /\ Over(x.removed) \in Lists(Record)
  BY <1>1, <1>2, <1>6, PutIs
<1>8. cut \in Lists(Record) /\ more \in Lists(Record)
  BY <1>1, <1>2, <1>6, PutIs
<1> HIDE DEF Over, cut, more
<1>9. QED
  BY <1>1, <1>5, <1>7, <1>8, ReadingIs

LEMMA ReleasedType ==
  ASSUME NEW x \in Reading, NEW m \in Message
  PROVE  Released(x, m) \in Reading /\ Released(x, m).replaced = x.replaced
<1> DEFINE l == m.release
           T == [s \in SUBSET DOMAIN l |-> {y \in Reading : y.replaced = x.replaced}]
<1>1. \A s \in SUBSET DOMAIN l : T[s] = {y \in Reading : y.replaced = x.replaced}
  OBVIOUS
<1>2. l \in Lists(Return) /\ m.named \in SUBSET Day
  BY MessageIs
<1> HIDE DEF T
<1>3. x \in T[{}]
  BY <1>1
<1>4. ASSUME NEW s \in SUBSET DOMAIN l, s # {}, NEW t \in T[s \ {Max(s)}]
      PROVE  Release(t, l[Max(s)], m.named) \in T[s]
  <2>1. Max(s) \in DOMAIN l /\ t \in Reading /\ t.replaced = x.replaced
    BY <1>1, <1>2, <1>4, LastIs DEF Chooses
  <2>2. l[Max(s)] \in Return
    BY <1>2, <2>1, ListIs
  <2>3. /\ Release(t, l[Max(s)], m.named) \in Reading
        /\ Release(t, l[Max(s)], m.named).replaced = t.replaced
    BY <1>2, <2>1, <2>2, ReleaseType
  <2>4. QED
    BY <1>1, <2>1, <2>3
<1>5. m.release = l
  OBVIOUS
<1> HIDE DEF l
<1>6. Released(x, m) \in T[DOMAIN l]
  BY <1>2, <1>3, <1>4, <1>5, ReleasedIn
<1>7. QED
  BY <1>1, <1>6

LEMMA ExclusiveType ==
  ASSUME NEW x \in Reading, NEW m \in Message
  PROVE  Exclusive(x, m) \in Reading /\ Exclusive(x, m).replaced = x.replaced
<1> DEFINE l == m.onlys
           T == [s \in SUBSET DOMAIN l |-> {y \in Reading : y.replaced = x.replaced}]
<1>1. \A s \in SUBSET DOMAIN l : T[s] = {y \in Reading : y.replaced = x.replaced}
  OBVIOUS
<1>2. l \in Lists(Only)
  BY MessageIs
<1> HIDE DEF T
<1>3. x \in T[{}]
  BY <1>1
<1>4. ASSUME NEW s \in SUBSET DOMAIN l, s # {}, NEW t \in T[s \ {Max(s)}]
      PROVE  Exclude(t, l[Max(s)]) \in T[s]
  <2>1. Max(s) \in DOMAIN l /\ t \in Reading /\ t.replaced = x.replaced
    BY <1>1, <1>2, <1>4, LastIs DEF Chooses
  <2>2. l[Max(s)] \in Only
    BY <1>2, <2>1, ListIs
  <2>3. /\ Exclude(t, l[Max(s)]) \in Reading
        /\ Exclude(t, l[Max(s)]).replaced = t.replaced
    BY <2>1, <2>2, ExcludeType
  <2>4. QED
    BY <1>1, <2>1, <2>3
<1>5. m.onlys = l
  OBVIOUS
<1> HIDE DEF l
<1>6. Exclusive(x, m) \in T[DOMAIN l]
  BY <1>2, <1>3, <1>4, <1>5, ExclusiveIn
<1>7. QED
  BY <1>1, <1>6

LEMMA SpannedType ==
  ASSUME NEW x \in Reading, NEW m \in Message
  PROVE  Spanned(x, m) \in Reading /\ Spanned(x, m).replaced = x.replaced
<1> DEFINE l == m.spans
           T == [s \in SUBSET DOMAIN l |-> {y \in Reading : y.replaced = x.replaced}]
           y == FoldLeft(Span, x, l)
           doubt == IF \E r \in Range(m.spans) : SpanSlots(r) # {} THEN {"range_normalized"}
                    ELSE IF m.vague \/ m.spans # <<>> THEN {"range_ambiguous"} ELSE {}
<1>1. \A s \in SUBSET DOMAIN l : T[s] = {z \in Reading : z.replaced = x.replaced}
  OBVIOUS
<1>2. l \in Lists(CrossDay)
  BY MessageIs
<1>3. Spanned(x, m) = [y EXCEPT !.flags = @ \cup doubt]
  BY DEF Spanned
<1>4. doubt \in SUBSET Flag
  BY DEF Flag
<1> HIDE DEF T, l, doubt
<1>5. x \in T[{}]
  BY <1>1
<1>6. ASSUME NEW s \in SUBSET DOMAIN l, s # {}, NEW t \in T[s \ {Max(s)}]
      PROVE  Span(t, l[Max(s)]) \in T[s]
  <2>1. Max(s) \in DOMAIN l /\ t \in Reading /\ t.replaced = x.replaced
    BY <1>1, <1>2, <1>6, LastIs DEF Chooses
  <2>2. l[Max(s)] \in CrossDay
    BY <1>2, <2>1, ListIs
  <2>3. /\ Span(t, l[Max(s)]) \in Reading
        /\ Span(t, l[Max(s)]).replaced = t.replaced
    BY <2>1, <2>2, SpanType
  <2>4. QED
    BY <1>1, <2>1, <2>3
<1>7. y \in T[DOMAIN l]
  BY <1>2, <1>5, <1>6, SpannedIn
<1> HIDE DEF y
<1>8. y \in Reading /\ y.replaced = x.replaced
  BY <1>1, <1>7
<1>9. QED
  BY <1>3, <1>4, <1>8, ReadingIs

-----------------------------------------------------------------------------
(* What is grounded *)

Reach(m) == IF m.only THEN Day ELSE Allowed(m)

LEMMA AllowedDays ==
  ASSUME NEW m \in Message
  PROVE  Allowed(m) \in SUBSET Day /\ Reach(m) \in SUBSET Day
BY MessageIs, InterpretationAssumption DEF Allowed, Written, Reach

\* The lists as they are remapped, or cut to some days and, for whom Whole is
\* true, not cut.
Parts(list, days) == [i \in DOMAIN list |-> [list[i] EXCEPT !.slots = {s \in @ : s.day \in days}]]

LEMMA PartsType ==
  ASSUME NEW people, NEW days, NEW l \in Lists(Records(people, Day))
  PROVE  Parts(l, days) \in Lists(Records(people, days))
<1>1. ASSUME NEW i \in DOMAIN l
      PROVE  Parts(l, days)[i] \in Records(people, days)
  <2>1. l[i] \in Records(people, Day)
    BY ListIs
  <2>2. QED
    BY <2>1 DEF Parts, Records
<1>2. Parts(l, days) = [i \in DOMAIN l |-> Parts(l, days)[i]]
  BY DEF Parts
<1> DEFINE k == Parts(l, days)
<1> HIDE DEF k
<1>3. /\ \A i \in DOMAIN l : k[i] \in Records(people, days)
      /\ k = [i \in DOMAIN l |-> k[i]]
  BY <1>1, <1>2 DEF k
<1>4. k \in Lists(Records(people, days))
  BY <1>3, ImageIsList
<1>5. QED
  BY <1>4 DEF k

LEMMA RemappedType ==
  ASSUME NEW l \in Lists(Record), NEW day \in Day
  PROVE  Remapped(l, day) \in Lists(Record)
<1> DEFINE k == Remapped(l, day)
<1>1. ASSUME NEW i \in DOMAIN l
      PROVE  k[i] \in Record
  <2>1. l[i] \in Record
    BY ListIs
  <2>2. k[i] = [l[i] EXCEPT !.slots = {[s EXCEPT !.day = day] : s \in @}]
    BY DEF Remapped, Each
  <2>3. \A s \in Slot : [s EXCEPT !.day = day] \in Slot
    BY DEF Slot
  <2>4. QED
    BY <2>1, <2>2, <2>3 DEF Record
<1>2. k = [i \in DOMAIN l |-> k[i]]
  BY DEF Remapped, Each
<1> HIDE DEF k
<1>3. k \in Lists(Record)
  BY <1>1, <1>2, ImageIsList
<1>4. QED
  BY <1>3 DEF k

LEMMA MovedType ==
  ASSUME NEW x \in Reading, NEW m \in Message
  PROVE  Moved(x, m) \in Reading /\ Moved(x, m).replaced = x.replaced
<1> DEFINE day == CHOOSE d \in Allowed(m) : TRUE
           all == [x EXCEPT !.given = Remapped(@, day), !.removed = Remapped(@, day),
                            !.implied = Remapped(@, day)]
<1>1. /\ x.given \in Lists(Record) /\ x.removed \in Lists(Record)
      /\ x.implied \in Lists(Record) /\ x.replaced \in SUBSET Who /\ x.flags \in SUBSET Flag
      /\ x = [given |-> x.given, removed |-> x.removed, implied |-> x.implied,
              replaced |-> x.replaced, flags |-> x.flags]
  BY ReadingIs
<1>2. \/ Moved(x, m) = x
      \/ Moved(x, m) = all /\ Cardinality(Allowed(m)) = 1
  BY DEF Moved
<1>3. ASSUME Cardinality(Allowed(m)) = 1
      PROVE  day \in Day
  <2>1. Allowed(m) # {}
    <3>1. Cardinality({}) = 0
      BY FS_EmptySet
    <3>2. QED
      BY <1>3, <3>1
  <2>2. QED
    BY <2>1, AllowedDays
<1> HIDE DEF day
<1>4. CASE Moved(x, m) = x
  BY <1>4
<1>5. CASE Moved(x, m) = all /\ Cardinality(Allowed(m)) = 1
  <2>1. /\ Remapped(x.given, day) \in Lists(Record)
        /\ Remapped(x.removed, day) \in Lists(Record)
        /\ Remapped(x.implied, day) \in Lists(Record)
    BY <1>1, <1>3, <1>5, RemappedType
  <2>2. QED
    BY <1>1, <1>5, <2>1, ReadingIs
<1>6. QED
  BY <1>2, <1>4, <1>5

\* What is grounded gives and implies hours of the days the text allows, and
\* takes away others only with "solo ...".
LEMMA GroundedType ==
  ASSUME NEW x \in Reading, NEW m \in Message, NEW corrected, x.replaced \subseteq corrected
  PROVE  Grounded(x, m) \in Readings(Who, Allowed(m), Reach(m), corrected)
<1> DEFINE y == Moved(x, m)
           A == Allowed(m)
           On(s) == s.day \in A
           strict == {r.who : r \in {q \in Range(y.given) : \E s \in q.slots : On(s)}}
           Reaching(r) == /\ m.only
                          /\ Written(m) # {} \/ Defaulted(m)
                          /\ strict = {} \/ r.who \in strict
           Part(r) == [r EXCEPT !.slots = {s \in @ : On(s)}]
           Kept(r) == [r EXCEPT !.slots = {s \in @ : On(s) \/ Reaching(r)}]
           some == [i \in {j \in DOMAIN y.given : y.given[j].slots = {}
                                                  \/ \E s \in y.given[j].slots : On(s)} |->
                      y.given[i]]
           left == [i \in DOMAIN y.removed |-> Kept(y.removed[i])]
<1>1. y \in Reading /\ y.replaced \subseteq corrected
  BY MovedType
<1> HIDE DEF y
<1>2. /\ y.given \in Lists(Record) /\ y.removed \in Lists(Record)
      /\ y.implied \in Lists(Record) /\ y.replaced \in SUBSET (Who \cap corrected)
      /\ y.flags \in SUBSET Flag
      /\ y = [given |-> y.given, removed |-> y.removed, implied |-> y.implied,
              replaced |-> y.replaced, flags |-> y.flags]
  BY <1>1, ReadingIs
<1>3. /\ Parts(y.given, A) \in Lists(Records(Who, A))
      /\ Parts(y.implied, A) \in Lists(Records(Who, A))
  BY <1>2, PartsType, RecordIs
<1>4. CASE A = {}
  <2>1. Grounded(x, m) = [y EXCEPT !.given = Parts(@, A), !.removed = <<>>, !.implied = <<>>]
    BY <1>4 DEF Grounded, Each, Parts, y
  <2>2. <<>> \in Lists(Records(Who, A)) /\ <<>> \in Lists(Records(Who, Reach(m)))
    BY EmptyList
  <2> DEFINE e == <<>>
  <2> HIDE DEF e
  <2> DEFINE p == Parts(y.given, A)
  <2>3. Grounded(x, m) = [y EXCEPT !.given = p, !.removed = e, !.implied = e]
    BY <2>1 DEF e
  <2>4. /\ e \in Lists(Records(Who, A)) /\ e \in Lists(Records(Who, Reach(m)))
        /\ p \in Lists(Records(Who, A))
    BY <1>3, <2>2 DEF e
  <2> HIDE DEF A, p
  <2>5. QED
    BY <1>2, <2>3, <2>4 DEF Readings, A
<1>5. CASE A # {}
  <2>1. Grounded(x, m) = [y EXCEPT !.given = Parts(some, A),
                                   !.removed = Telling(left),
                                   !.implied = Telling(Parts(@, A))]
    BY <1>5 DEF Grounded, Each, Where, Parts, Telling, y
  <2>2. Parts(some, A) \in Lists(Records(Who, A))
    <3> DEFINE D == {j \in DOMAIN y.given : y.given[j].slots = {}
                                            \/ \E s \in y.given[j].slots : On(s)}
    <3>1. D \in SUBSET DOMAIN y.given /\ some = [i \in D |-> y.given[i]]
      OBVIOUS
    <3> HIDE DEF D, some
    <3>2. some \in Lists(Record)
      BY <1>2, <3>1, PartIsList
    <3>3. QED
      BY <3>2, PartsType, RecordIs
  <2>3. left \in Lists(Records(Who, Reach(m)))
    <3>1. ASSUME NEW i \in DOMAIN y.removed
          PROVE  left[i] \in Records(Who, Reach(m))
      <4>1. y.removed[i] \in Record
        BY <1>2, ListIs
      <4>2. \A s \in Slot : \A r : On(s) \/ Reaching(r) => s.day \in Reach(m)
        BY RecordIs DEF Reach
      <4> HIDE DEF Reaching, On
      <4>3. \A r \in Record : Kept(r) = [who |-> r.who, slots |-> {s \in r.slots : On(s) \/ Reaching(r)}]
        BY DEF Record
      <4> HIDE DEF Kept
      <4>4. \A r \in Record : Kept(r) \in Records(Who, Reach(m))
        BY <4>2, <4>3 DEF Record, Records
      <4>5. QED
        BY <4>1, <4>4
    <3>2. left = [i \in DOMAIN y.removed |-> left[i]]
      OBVIOUS
    <3> HIDE DEF left
    <3>3. QED
      BY <1>2, <3>1, <3>2, ImageIsList
  <2> HIDE DEF left, some, A
  <2>4. /\ Telling(left) \in Lists(Records(Who, Reach(m)))
        /\ Telling(Parts(y.implied, A)) \in Lists(Records(Who, A))
    BY <1>3, <2>3, TellingType
  <2>5. QED
    BY <1>2, <2>1, <2>2, <2>4 DEF Readings, A
<1>6. QED
  BY <1>4, <1>5

\* The lists of a reading, cut to some records.
LEMMA MentionedType ==
  ASSUME NEW m \in Message, NEW days, NEW reach, NEW corrected,
         NEW x \in Readings(Who, days, reach, corrected)
  PROVE  Mentioned(x, m) \in Readings(Who, days, reach, corrected)
<1> DEFINE G == Lists(Records(Who, days))
           R == Lists(Records(Who, reach))
           In(r) == r.who \in m.names
           Told(r) == In(r) /\ r.slots # {}
           given == Where(x.given, In)
           removed == Where(x.removed, Told)
           implied == Where(x.implied, Told)
<1>1. /\ x.given \in G /\ x.removed \in R /\ x.implied \in G
      /\ x.replaced \in SUBSET (Who \cap corrected) /\ x.flags \in SUBSET Flag
      /\ x = [given |-> x.given, removed |-> x.removed, implied |-> x.implied,
              replaced |-> x.replaced, flags |-> x.flags]
  BY DEF Readings
<1>2. \A D \in SUBSET DOMAIN x.given : [i \in D |-> x.given[i]] \in G
  BY <1>1, PartIsList
<1>3. \A D \in SUBSET DOMAIN x.implied : [i \in D |-> x.implied[i]] \in G
  BY <1>1, PartIsList
<1>4. \A D \in SUBSET DOMAIN x.removed : [i \in D |-> x.removed[i]] \in R
  BY <1>1, PartIsList
<1>5. given \in G /\ removed \in R /\ implied \in G
  BY <1>2, <1>3, <1>4 DEF Where
<1>6. Mentioned(x, m) = [x EXCEPT !.given = given, !.removed = removed, !.implied = implied]
  BY DEF Mentioned
<1> HIDE DEF given, removed, implied
<1>7. QED
  BY <1>1, <1>5, <1>6 DEF Readings

LEMMA CompletedType ==
  ASSUME NEW days, NEW reach, NEW corrected,
         NEW x \in Readings(Who, days, reach, corrected),
         NEW y \in Readings(Who, days, reach, corrected)
  PROVE  Completed(x, y) \in Readings(Who, days, reach, corrected)
<1> DEFINE G == Lists(Records(Who, days))
           R == Lists(Records(Who, reach))
           known == Names(x.given) \cup Names(x.removed) \cup Names(x.implied)
           New(r) == r.who \notin known
           given == Where(y.given, New)
           removed == Where(y.removed, New)
           implied == Where(y.implied, New)
<1>1. /\ x.given \in G /\ x.removed \in R /\ x.implied \in G
      /\ x.replaced \in SUBSET (Who \cap corrected) /\ x.flags \in SUBSET Flag
      /\ x = [given |-> x.given, removed |-> x.removed, implied |-> x.implied,
              replaced |-> x.replaced, flags |-> x.flags]
      /\ y.given \in G /\ y.removed \in R /\ y.implied \in G
      /\ y.replaced \in SUBSET (Who \cap corrected)
  BY DEF Readings
<1>2. \A D \in SUBSET DOMAIN y.given : [i \in D |-> y.given[i]] \in G
  BY <1>1, PartIsList
<1>3. \A D \in SUBSET DOMAIN y.implied : [i \in D |-> y.implied[i]] \in G
  BY <1>1, PartIsList
<1>4. \A D \in SUBSET DOMAIN y.removed : [i \in D |-> y.removed[i]] \in R
  BY <1>1, PartIsList
<1>5. given \in G /\ removed \in R /\ implied \in G
  BY <1>2, <1>3, <1>4 DEF Where
<1>6. Completed(x, y) = [x EXCEPT !.given = Joined(@, given), !.removed = Joined(@, removed),
                                  !.implied = Joined(@, implied),
                                  !.replaced = @ \cup (y.replaced \ known)]
  BY DEF Completed
<1> HIDE DEF given, removed, implied, known
<1>7. /\ Joined(x.given, given) \in G /\ Joined(x.removed, removed) \in R
      /\ Joined(x.implied, implied) \in G
  BY <1>1, <1>5, JoinedIs
<1>8. QED
  BY <1>1, <1>6, <1>7 DEF Readings

Corrected(m) == IF Corrects(m) THEN Who ELSE {}

\* What the rules take away, and what that leaves.
LEMMA DeniedType ==
  ASSUME NEW l \in Lists(Rule), NEW D \in SUBSET DOMAIN l
  PROVE  /\ [i \in D |-> [who |-> l[i].who, slots |-> l[i].slots]] \in Lists(Record)
         /\ [i \in D |-> [who |-> l[i].who,
                          slots |-> UNION {Around({s.day}, s.start, s.end, s.week) :
                                             s \in l[i].slots}]] \in Lists(Record)
<1> DEFINE Free(r) == UNION {Around({s.day}, s.start, s.end, s.week) : s \in r.slots}
           part == [i \in D |-> l[i]]
           a == [i \in D |-> [who |-> l[i].who, slots |-> l[i].slots]]
           b == [i \in D |-> [who |-> l[i].who, slots |-> Free(l[i])]]
<1>1. part \in Lists(Rule) /\ DOMAIN part = D
  BY PartIsList
<1>2. ASSUME NEW i \in D
      PROVE  l[i].who \in Who /\ l[i].slots \in SUBSET Slot /\ Free(l[i]) \in SUBSET Slot
  <2>1. l[i] \in Rule
    BY ListIs
  <2>2. l[i].who \in Who /\ l[i].slots \in SUBSET Slot
    BY <2>1 DEF Rule, Found
  <2>3. ASSUME NEW s \in l[i].slots
        PROVE  Around({s.day}, s.start, s.end, s.week) \in SUBSET Slot
    <3>1. s \in Slot
      BY <2>2
    <3>2. {s.day} \in SUBSET Day /\ s.start \in Hour /\ s.end \in Hour /\ s.week \in 0 .. MaxWeek
      BY <3>1, SlotIs
    <3>3. QED
      BY <3>2, AroundType
  <2>4. QED
    BY <2>2, <2>3
<1> HIDE DEF Free
<1>3. (\A i \in D : a[i] \in Record) /\ (\A i \in D : b[i] \in Record)
  BY <1>2 DEF Record
<1>4. a = [i \in D |-> a[i]] /\ b = [i \in D |-> b[i]]
  OBVIOUS
<1> HIDE DEF a, b, part
<1>5. a \in Lists(Record) /\ b \in Lists(Record)
  BY <1>1, <1>3, <1>4, ImageIsList
<1>6. QED
  BY <1>5 DEF a, b, Free

LEMMA RulesAre ==
  ASSUME NEW m \in Message
  PROVE  \E x \in Reading : /\ x.replaced \subseteq Corrected(m)
                            /\ Ruled(m) = Grounded(Spanned(Exclusive(x, m), m), m)
<1> DEFINE D == {i \in DOMAIN m.rules : m.rules[i].negated}
           Free(r) == UNION {Around({s.day}, s.start, s.end, s.week) : s \in r.slots}
           denied == [i \in D |-> [who |-> m.rules[i].who, slots |-> m.rules[i].slots]]
           free == [i \in D |-> [who |-> m.rules[i].who, slots |-> Free(m.rules[i])]]
           who == {r.who : r \in {q \in Range(m.rules) : q.corrects}}
           given == FoldLeft(Follow, <<>>, m.rules)
           x == [given |-> given, removed |-> denied, implied |-> Telling(free),
                 replaced |-> who, flags |-> {}]
<1>1. m.rules \in Lists(Rule)
  BY MessageIs
<1>2. given \in Lists(Record)
  BY <1>1, FollowedType
<1>3. denied \in Lists(Record) /\ free \in Lists(Record)
  BY <1>1, DeniedType
<1>4. who \in SUBSET Who /\ who \subseteq Corrected(m)
  <2>1. \A r \in Range(m.rules) : r.who \in Who /\ (r.corrects => Corrects(m))
    <3>1. \A i \in DOMAIN m.rules : m.rules[i] \in Rule
      BY <1>1, ListIs
    <3>2. \A i \in DOMAIN m.rules : m.rules[i].who \in Who
      BY <3>1 DEF Rule, Found
    <3>3. QED
      BY <3>2 DEF Range, Corrects
  <2>2. QED
    BY <2>1 DEF Corrected
<1>5. Ruled(m) = Grounded(Spanned(Exclusive(x, m), m), m)
  BY DEF Ruled, Where, Each, Telling
<1> HIDE DEF D, denied, free, who, given
<1>6. Telling(free) \in Lists(Record)
  BY <1>3, TellingType
<1>7. x \in Reading /\ x.replaced = who
  BY <1>2, <1>3, <1>4, <1>6, ReadingIs
<1> HIDE DEF x
<1>8. QED
  BY <1>4, <1>5, <1>7

LEMMA RuledType ==
  ASSUME NEW m \in Message
  PROVE  Ruled(m) \in Readings(Who, Allowed(m), Reach(m), Corrected(m))
<1>1. PICK x \in Reading : /\ x.replaced \subseteq Corrected(m)
                          /\ Ruled(m) = Grounded(Spanned(Exclusive(x, m), m), m)
  BY RulesAre
<1> DEFINE y == Exclusive(x, m)
           z == Spanned(y, m)
<1>2. y \in Reading /\ y.replaced = x.replaced
  BY ExclusiveType
<1> HIDE DEF y
<1>3. z \in Reading /\ z.replaced = x.replaced
  BY <1>2, SpannedType
<1> HIDE DEF z
<1>4. Grounded(z, m) \in Readings(Who, Allowed(m), Reach(m), Corrected(m))
  BY <1>1, <1>3, GroundedType
<1>5. QED
  BY <1>1, <1>4 DEF y, z

LEMMA NormalizedType ==
  ASSUME NEW x \in Reading, NEW m \in Message, x.replaced \subseteq Corrected(m)
  PROVE  Normalized(x, m) \in Readings(Who, Allowed(m), Reach(m), Corrected(m))
<1> DEFINE a == Released(x, m)
           b == Exclusive(a, m)
           c == Spanned(b, m)
           d == Grounded(c, m)
<1>1. Normalized(x, m) = Mentioned(d, m)
  BY DEF Normalized
<1>2. a \in Reading /\ a.replaced = x.replaced
  BY ReleasedType
<1> HIDE DEF a
<1>3. b \in Reading /\ b.replaced = x.replaced
  BY <1>2, ExclusiveType
<1> HIDE DEF b
<1>4. c \in Reading /\ c.replaced = x.replaced
  BY <1>3, SpannedType
<1> HIDE DEF c
<1>5. d \in Readings(Who, Allowed(m), Reach(m), Corrected(m))
  BY <1>4, GroundedType
<1> HIDE DEF d
<1>6. QED
  BY <1>1, <1>5, MentionedType

LEMMA ExtractionType ==
  ASSUME NEW m \in Message
  PROVE  Extraction(m) \in Readings(Who, Allowed(m), Reach(m), Corrected(m))
<1> DEFINE x == Compiled(m.entries)
           n == Normalized(x, m)
           r == Ruled(m)
<1>1. x \in Reading /\ x.replaced \subseteq Corrected(m)
  <2>1. x \in Reading /\ ((\A i \in DOMAIN m.entries : m.entries[i].kind # "replace") => x.replaced = {})
    BY MessageIs, CompiledType
  <2>2. x.replaced \in SUBSET Who
    BY <2>1, ReadingIs
  <2>3. QED
    BY <2>1, <2>2 DEF Corrected, Corrects
<1> HIDE DEF x
<1>2. n \in Readings(Who, Allowed(m), Reach(m), Corrected(m))
  BY <1>1, NormalizedType
<1>3. r \in Readings(Who, Allowed(m), Reach(m), Corrected(m))
  BY RuledType
<1>4. Extraction(m) = IF m.answered THEN Completed(n, r) ELSE r
  BY DEF Extraction, x
<1> HIDE DEF n, r
<1>5. Completed(n, r) \in Readings(Who, Allowed(m), Reach(m), Corrected(m))
  BY <1>2, <1>3, CompletedType
<1>6. QED
  BY <1>3, <1>4, <1>5

\* Whose hours a message may change.
Known(m) == m.writers \cup m.mentioned
People(m) == IF m.channel THEN Known(m) ELSE Who
Self(m, who) == IF who = Me /\ Cardinality(m.writers) = 1
                THEN CHOOSE p \in m.writers : TRUE ELSE who

Renamed(m, list) == [i \in DOMAIN list |-> [list[i] EXCEPT !.who = Self(m, @)]]
Own(m, list) ==
  [i \in {j \in DOMAIN Renamed(m, list) : Renamed(m, list)[j].who \in Known(m)} |->
     Renamed(m, list)[i]]

LEMMA OwnType ==
  ASSUME NEW m, NEW days, NEW l \in Lists(Records(Who, days))
  PROVE  Own(m, l) \in Lists(Records(Known(m), days))
<1> DEFINE R == Renamed(m, l)
           D == {i \in DOMAIN R : R[i].who \in Known(m)}
           part == [i \in D |-> l[i]]
           k == Own(m, l)
<1>1. DOMAIN R = DOMAIN l /\ k = [i \in D |-> R[i]]
  BY DEF Own, Renamed
<1>2. part \in Lists(Records(Who, days)) /\ DOMAIN part = D
  <2>1. D \in SUBSET DOMAIN l
    BY <1>1
  <2> HIDE DEF D
  <2>2. QED
    BY <2>1, PartIsList
<1>3. ASSUME NEW i \in D
      PROVE  R[i] \in Records(Known(m), days)
  <2>1. l[i] \in Records(Who, days) /\ i \in DOMAIN l
    BY <1>1, ListIs
  <2> DEFINE who == Self(m, l[i].who)
  <2>2. R[i] = [l[i] EXCEPT !.who = who]
    BY <2>1 DEF Renamed
  <2>3. R[i].who \in Known(m)
    OBVIOUS
  <2> HIDE DEF who, R, D
  <2>4. QED
    BY <2>1, <2>2, <2>3 DEF Records
<1>4. k = [i \in D |-> k[i]] /\ \A i \in D : k[i] = R[i]
  BY <1>1
<1> HIDE DEF k, part, R, D
<1>5. k \in Lists(Records(Known(m), days))
  BY <1>2, <1>3, <1>4, ImageIsList
<1>6. QED
  BY <1>5 DEF k

LEMMA BoundType ==
  ASSUME NEW m \in Message, NEW days, NEW reach,
         NEW x \in Readings(Who, days, reach, Corrected(m))
  PROVE  /\ Bound(x, m) \in Readings(People(m), days, reach, Corrected(m))
         /\ m.channel /\ (\E who \in Names(x.given) : Self(m, who) \notin Known(m))
              => "third_party" \in Bound(x, m).flags
<1> DEFINE whose == {Self(m, who) : who \in x.replaced} \cap Known(m)
           all == Names(x.given) \cup Names(x.removed) \cup Names(x.implied) \cup x.replaced
           strangers == {who \in all : Self(m, who) \notin Known(m)} # {}
           more == (IF strangers \/ m.thirdParty THEN {"third_party"} ELSE {})
                   \cup (IF m.ambiguous THEN {"ambiguous_mention"} ELSE {})
<1>1. /\ x.given \in Lists(Records(Who, days)) /\ x.removed \in Lists(Records(Who, reach))
      /\ x.implied \in Lists(Records(Who, days))
      /\ x.replaced \in SUBSET (Who \cap Corrected(m)) /\ x.flags \in SUBSET Flag
  BY DEF Readings
<1>2. CASE ~m.channel
  BY <1>2 DEF Bound, People
<1>3. CASE m.channel
  <2>1. Bound(x, m) = [given |-> Own(m, x.given), removed |-> Own(m, x.removed),
                       implied |-> Own(m, x.implied), replaced |-> whose,
                       flags |-> x.flags \cup more]
    BY <1>3 DEF Bound, Self, Known, Own, Renamed, Where, Each
  <2>2. /\ Own(m, x.given) \in Lists(Records(Known(m), days))
        /\ Own(m, x.removed) \in Lists(Records(Known(m), reach))
        /\ Own(m, x.implied) \in Lists(Records(Known(m), days))
    <3> HIDE DEF strangers, all, more, whose
    <3> QED
      BY <1>1, OwnType
  <2>3. whose \in SUBSET (Known(m) \cap Corrected(m))
    <3>1. Known(m) \subseteq Who
      BY MessageIs DEF Known, Who
    <3>2. Corrected(m) = Who \/ Corrected(m) = {}
      BY DEF Corrected
    <3>3. QED
      BY <1>1, <3>1, <3>2
  <2>4. more \in SUBSET Flag
    BY DEF Flag
  <2>5. (\E who \in Names(x.given) : Self(m, who) \notin Known(m)) => "third_party" \in more
    OBVIOUS
  <2> HIDE DEF whose, more
  <2>6. QED
    BY <1>1, <1>3, <2>1, <2>2, <2>3, <2>4, <2>5 DEF Readings, People
<1>4. QED
  BY <1>2, <1>3

-----------------------------------------------------------------------------
(* What is merged *)

LEMMA CoverUnion ==
  ASSUME NEW a, NEW b
  PROVE  Cover(a \cup b) = Cover(a) \cup Cover(b)
BY DEF Cover

LEMMA CoverDay ==
  ASSUME NEW days, NEW slots \in SUBSET {s \in Slot : s.day \in days}, NEW c \in Cover(slots)
  PROVE  c[2] \in days
BY CoverDays

Schedules == [Who -> SUBSET Slot]

\* Schedules that differ from av only for some people, gained hours of some days
\* and lost hours of others.
Near(av, people, days, lost) ==
  {a \in Schedules : \A who \in Who :
     /\ who \notin people => a[who] = av[who]
     /\ \A c \in Cover(a[who]) \ Cover(av[who]) : c[2] \in days
     /\ \A c \in Cover(av[who]) \ Cover(a[who]) : c[2] \in lost}

\* Changing the slots of one of the people.
Within(old, slots, days, lost) ==
  /\ \A c \in Cover(slots) \ Cover(old) : c[2] \in days
  /\ \A c \in Cover(old) \ Cover(slots) : c[2] \in lost

LEMMA Nearby ==
  ASSUME NEW av \in Schedules, NEW people \in SUBSET Who, NEW days, NEW lost,
         NEW a \in Near(av, people, days, lost), NEW who \in people, NEW slots \in SUBSET Slot,
         Within(av[who], slots, days, lost), NEW b, b = [a EXCEPT ![who] = slots]
  PROVE  b \in Near(av, people, days, lost)
<1>1. a \in Schedules /\ who \in Who
  BY DEF Near
<1>2. b \in Schedules /\ b[who] = slots /\ \A p \in Who : p # who => b[p] = a[p]
  BY <1>1 DEF Schedules
<1>3. ASSUME NEW p \in Who
      PROVE  /\ p \notin people => b[p] = av[p]
             /\ \A c \in Cover(b[p]) \ Cover(av[p]) : c[2] \in days
             /\ \A c \in Cover(av[p]) \ Cover(b[p]) : c[2] \in lost
  <2>1. CASE p = who
    BY <1>2, <2>1 DEF Within
  <2>2. CASE p # who
    BY <1>2, <2>2 DEF Near
  <2>3. QED
    BY <2>1, <2>2
<1>4. QED
  BY <1>2, <1>3 DEF Near

LEMMA GiveNear ==
  ASSUME NEW av \in Schedules, NEW people \in SUBSET Who, NEW days, NEW lost,
         NEW a \in Near(av, people, days, lost), NEW r \in Records(people, days),
         NEW replaced, replaced = {} \/ Day \subseteq lost
  PROVE  Give(a, r, replaced) \in Near(av, people, days, lost)
<1> DEFINE who == r.who
           slots == IF who \in replaced THEN r.slots ELSE a[who] \cup r.slots
<1>1. /\ who \in people /\ who \in Who /\ r.slots \in SUBSET {s \in Slot : s.day \in days}
      /\ r.slots \in SUBSET Slot
  BY DEF Records
<1>2. a \in Schedules /\ a[who] \in SUBSET Slot /\ av[who] \in SUBSET Slot
  BY <1>1 DEF Near, Schedules
<1>3. Give(a, r, replaced) = [a EXCEPT ![who] = slots]
  BY DEF Give
<1> HIDE DEF who
<1>4. slots \in SUBSET Slot
  BY <1>1, <1>2
<1>5. \A c \in Cover(r.slots) : c[2] \in days
  BY <1>1, CoverDay
<1>6. \A c \in Cover(av[who]) : c[2] \in Day
  <2>1. av[who] \in SUBSET {s \in Slot : s.day \in Day}
    BY <1>2, RecordIs
  <2>2. QED
    BY <2>1, CoverDay
<1>7. Cover(slots) = IF who \in replaced THEN Cover(r.slots) ELSE Cover(a[who]) \cup Cover(r.slots)
  BY CoverUnion
<1>8. /\ \A c \in Cover(a[who]) \ Cover(av[who]) : c[2] \in days
      /\ \A c \in Cover(av[who]) \ Cover(a[who]) : c[2] \in lost
  BY <1>1 DEF Near
<1> HIDE DEF slots
<1>9. \A c \in Cover(slots) \ Cover(av[who]) : c[2] \in days
  BY <1>5, <1>7, <1>8
<1>10. \A c \in Cover(av[who]) \ Cover(slots) : c[2] \in lost
  BY <1>6, <1>7, <1>8
<1>11. Within(av[who], slots, days, lost)
  BY <1>9, <1>10 DEF Within
<1>12. QED
  BY <1>1, <1>3, <1>4, <1>11, Nearby

LEMMA InferNear ==
  ASSUME NEW av \in Schedules, NEW people \in SUBSET Who, NEW days, NEW lost,
         NEW a \in Near(av, people, days, lost), NEW r \in Records(people, days)
  PROVE  Infer(a, r) \in Near(av, people, days, lost)
<1> DEFINE who == r.who
           taken == {<<s.week, s.day>> : s \in a[who]}
           more == {s \in r.slots : <<s.week, s.day>> \notin taken}
           slots == a[who] \cup more
<1>1. /\ who \in people /\ who \in Who /\ more \in SUBSET {s \in Slot : s.day \in days}
      /\ more \in SUBSET Slot
  BY DEF Records
<1>2. a \in Schedules /\ a[who] \in SUBSET Slot
  BY <1>1 DEF Near, Schedules
<1>3. Infer(a, r) = [a EXCEPT ![who] = slots]
  BY DEF Infer
<1> HIDE DEF who, more
<1>4. slots \in SUBSET Slot
  BY <1>1, <1>2
<1>5. \A c \in Cover(more) : c[2] \in days
  BY <1>1, CoverDay
<1>6. Cover(slots) = Cover(a[who]) \cup Cover(more)
  BY CoverUnion
<1>7. /\ \A c \in Cover(a[who]) \ Cover(av[who]) : c[2] \in days
      /\ \A c \in Cover(av[who]) \ Cover(a[who]) : c[2] \in lost
  BY <1>1 DEF Near
<1> HIDE DEF slots
<1>8. Within(av[who], slots, days, lost)
  BY <1>5, <1>6, <1>7 DEF Within
<1>9. QED
  BY <1>1, <1>3, <1>4, <1>8, Nearby

LEMMA WithdrawNear ==
  ASSUME NEW av \in Schedules, NEW people \in SUBSET Who, NEW days, NEW lost,
         NEW a \in Near(av, people, days, lost), NEW reach \in SUBSET lost,
         NEW r \in Records(people, reach)
  PROVE  Withdraw(a, r) \in Near(av, people, days, lost)
<1> DEFINE who == r.who
           slots == Removed(a[who], r.slots)
<1>1. /\ who \in people /\ who \in Who /\ r.slots \in SUBSET {s \in Slot : s.day \in reach}
      /\ r.slots \in SUBSET Slot
  BY DEF Records
<1>2. a \in Schedules /\ a[who] \in SUBSET Slot
  BY <1>1 DEF Near, Schedules
<1>3. Withdraw(a, r) = [a EXCEPT ![who] = slots]
  BY DEF Withdraw
<1> HIDE DEF who
<1>4. slots \in SUBSET Slot /\ Cover(slots) = Cover(a[who]) \ Cover(r.slots)
  BY <1>1, <1>2, RemovedIs
<1>5. \A c \in Cover(r.slots) : c[2] \in lost
  BY <1>1, CoverDay
<1>6. /\ \A c \in Cover(a[who]) \ Cover(av[who]) : c[2] \in days
      /\ \A c \in Cover(av[who]) \ Cover(a[who]) : c[2] \in lost
  BY <1>1 DEF Near
<1> HIDE DEF slots
<1>7. Within(av[who], slots, days, lost)
  BY <1>4, <1>5, <1>6 DEF Within
<1>8. QED
  BY <1>1, <1>3, <1>4, <1>7, Nearby

LEMMA MergedNear ==
  ASSUME NEW av \in Schedules, NEW people \in SUBSET Who, NEW days, NEW lost,
         NEW reach \in SUBSET lost, NEW corrected, corrected = {} \/ Day \subseteq lost,
         NEW x \in Readings(people, days, reach, corrected)
  PROVE  Merged(av, x) \in Near(av, people, days, lost)
<1> DEFINE N == Near(av, people, days, lost)
           a == GivenTo(av, x)
           b == ImpliedInto(a, x.implied)
           c == FoldLeft(Withdraw, b, x.removed)
<1>1. /\ x.given \in Lists(Records(people, days)) /\ x.removed \in Lists(Records(people, reach))
      /\ x.implied \in Lists(Records(people, days))
      /\ x.replaced = {} \/ Day \subseteq lost
  BY DEF Readings
<1>2. av \in N
  BY DEF Near
<1>3. a \in N
  <2> DEFINE l == x.given
             T == [s \in SUBSET DOMAIN l |-> N]
  <2>1. \A s \in SUBSET DOMAIN l : T[s] = N
    OBVIOUS
  <2>2. x.given = l /\ l \in Lists(Records(people, days))
    BY <1>1
  <2> HIDE DEF T, l, a
  <2>3. ASSUME NEW s \in SUBSET DOMAIN l, s # {}, NEW t \in T[s \ {Max(s)}]
        PROVE  Give(t, l[Max(s)], x.replaced) \in T[s]
    <3>1. Max(s) \in DOMAIN l /\ t \in N
      BY <2>1, <2>2, <2>3, LastIs DEF Chooses
    <3>2. l[Max(s)] \in Records(people, days)
      BY <2>2, <3>1, ListIs
    <3>3. Give(t, l[Max(s)], x.replaced) \in N
      BY <1>1, <3>1, <3>2, GiveNear
    <3>4. QED
      BY <2>1, <3>3
  <2>4. av \in T[{}]
    BY <1>2, <2>1
  <2> HIDE DEF N
  <2>5. GivenTo(av, x) \in T[DOMAIN l]
    BY <2>2, <2>3, <2>4, GivenIn
  <2>6. QED
    BY <2>1, <2>5 DEF a
<1> HIDE DEF a
<1>4. b \in N
  <2> DEFINE l == x.implied
             T == [s \in SUBSET DOMAIN l |-> N]
  <2>1. \A s \in SUBSET DOMAIN l : T[s] = N
    OBVIOUS
  <2>2. b = ImpliedInto(a, l)
    OBVIOUS
  <2>3. l \in Lists(Records(people, days))
    BY <1>1
  <2> HIDE DEF T, l, b
  <2>4. ASSUME NEW s \in SUBSET DOMAIN l, s # {}, NEW t \in T[s \ {Max(s)}]
        PROVE  Infer(t, l[Max(s)]) \in T[s]
    <3>1. Max(s) \in DOMAIN l /\ t \in N
      BY <2>1, <2>3, <2>4, LastIs DEF Chooses
    <3>2. l[Max(s)] \in Records(people, days)
      BY <2>3, <3>1, ListIs
    <3>3. QED
      BY <2>1, <3>1, <3>2, InferNear
  <2>5. a \in T[{}]
    BY <1>3, <2>1
  <2> HIDE DEF N
  <2>6. ImpliedInto(a, l) \in T[DOMAIN l]
    BY <2>3, <2>4, <2>5, InferredIn
  <2>7. QED
    BY <2>1, <2>2, <2>6
<1> HIDE DEF b
<1>5. c \in N
  <2> DEFINE l == x.removed
             T == [s \in SUBSET DOMAIN l |-> N]
  <2>1. \A s \in SUBSET DOMAIN l : T[s] = N
    OBVIOUS
  <2>2. c = FoldLeft(Withdraw, b, l)
    OBVIOUS
  <2>3. l \in Lists(Records(people, reach))
    BY <1>1
  <2> HIDE DEF T, l, c
  <2>4. ASSUME NEW s \in SUBSET DOMAIN l, s # {}, NEW t \in T[s \ {Max(s)}]
        PROVE  Withdraw(t, l[Max(s)]) \in T[s]
    <3>1. Max(s) \in DOMAIN l /\ t \in N
      BY <2>1, <2>3, <2>4, LastIs DEF Chooses
    <3>2. l[Max(s)] \in Records(people, reach)
      BY <2>3, <3>1, ListIs
    <3>3. QED
      BY <2>1, <3>1, <3>2, WithdrawNear
  <2>5. b \in T[{}]
    BY <1>4, <2>1
  <2> HIDE DEF N
  <2>6. FoldLeft(Withdraw, b, l) \in T[DOMAIN l]
    BY <2>3, <2>4, <2>5, WithdrawnIn
  <2>7. QED
    BY <2>1, <2>2, <2>6
<1>6. Merged(av, x) = c
  BY DEF Merged, a, b, c
<1>7. QED
  BY <1>5, <1>6

-----------------------------------------------------------------------------
(* The theorems *)

\* What interpreting a message does.
LEMMA Heard ==
  ASSUME avail \in Schedules, heard \in Seq(Message), Hear
  PROVE  \E m \in Message :
           /\ \E i \in DOMAIN Messages : m \in Messages[i]
           /\ heard' = Append(heard, m)
           /\ Len(heard) < MaxHeard
           /\ Now = m
           /\ Bound(Extraction(m), m) \in Readings(People(m), Allowed(m), Reach(m), Corrected(m))
           /\ avail' = Merged(avail, Bound(Extraction(m), m))
           /\ confidence' = Confidence(Bound(Extraction(m), m), m)
<1>1. PICK m : /\ \E i \in DOMAIN Messages : m \in Messages[i]
               /\ Len(heard) < MaxHeard
               /\ heard' = Append(heard, m)
               /\ avail' = Merged(avail, Bound(Extraction(m), m))
               /\ confidence' = Confidence(Bound(Extraction(m), m), m)
  BY DEF Hear
<1>2. m \in Message
  BY <1>1, InterpretationAssumption
<1>3. Now = m
  BY <1>1, <1>2 DEF Now
<1>4. Bound(Extraction(m), m) \in Readings(People(m), Allowed(m), Reach(m), Corrected(m))
  BY <1>2, ExtractionType, BoundType
<1>5. QED
  BY <1>1, <1>2, <1>3, <1>4

\* The hours that a message moves: of its people, on its days.
Lost(m) == IF Corrects(m) THEN Day ELSE Reach(m)

LEMMA HeardNear ==
  ASSUME avail \in Schedules, NEW m \in Message,
         NEW x \in Readings(People(m), Allowed(m), Reach(m), Corrected(m))
  PROVE  Merged(avail, x) \in Near(avail, People(m), Allowed(m), Lost(m))
<1>1. People(m) \in SUBSET Who
  BY MessageIs DEF People, Known, Who
<1>2. Reach(m) \in SUBSET Lost(m) /\ (Corrected(m) = {} \/ Day \subseteq Lost(m))
  BY AllowedDays DEF Lost, Corrected
<1>3. QED
  BY <1>1, <1>2, MergedNear

IInv == TypeOK /\ heard \in Seq(Message)

LEMMA IInvHolds == Spec => []IInv
<1>1. Init => IInv
  <2> SUFFICES ASSUME Init PROVE IInv
    OBVIOUS
  <2>1. avail \in [Who -> SUBSET Slot]
    BY InterpretationAssumption DEF Init
  <2>2. heard = <<>> /\ confidence = "none"
    BY DEF Init
  <2>3. QED
    BY <2>1, <2>2, InterpretationAssumption DEF IInv, TypeOK
<1>2. IInv /\ [Next]_vars => IInv'
  <2> SUFFICES ASSUME IInv, [Next]_vars PROVE IInv'
    OBVIOUS
  <2>1. CASE Hear
    <3>1. avail \in Schedules /\ heard \in Seq(Message)
      BY DEF IInv, TypeOK, Schedules
    <3>2. PICK m \in Message :
            /\ \E i \in DOMAIN Messages : m \in Messages[i]
            /\ heard' = Append(heard, m)
            /\ Len(heard) < MaxHeard
            /\ Bound(Extraction(m), m)
                 \in Readings(People(m), Allowed(m), Reach(m), Corrected(m))
            /\ avail' = Merged(avail, Bound(Extraction(m), m))
            /\ confidence' = Confidence(Bound(Extraction(m), m), m)
      BY <2>1, <3>1, Heard
    <3>3. avail' \in [Who -> SUBSET Slot]
      BY <3>1, <3>2, HeardNear DEF Near, Schedules
    <3>4. heard' \in Seq(Message) /\ Len(heard') <= MaxHeard
      BY <3>1, <3>2, InterpretationAssumption
    <3>5. \A i \in DOMAIN heard' : \E j \in DOMAIN Messages : heard'[i] \in Messages[j]
      BY <3>1, <3>2 DEF IInv, TypeOK
    <3>6. confidence' \in {"none", "low", "medium", "high"}
      BY <3>2 DEF Confidence
    <3>7. QED
      BY <3>3, <3>4, <3>5, <3>6 DEF IInv, TypeOK
  <2>2. CASE UNCHANGED vars
    BY <2>2 DEF IInv, TypeOK, vars
  <2>3. QED
    BY <2>1, <2>2 DEF Next, Done
<1>3. QED
  BY <1>1, <1>2, PTL DEF Spec

(* Whatever the model answers and the rules correct, the hours of everybody  *)
(* stay proper hours of a working day.                                       *)
THEOREM Typed == Spec => []TypeOK
<1>1. IInv => TypeOK
  BY DEF IInv
<1>2. QED
  BY <1>1, IInvHolds, PTL

(* In a group chat nobody's hours change but those of whoever wrote or was   *)
(* really mentioned, and words about anybody else leave the session in doubt *)
(* (normalize_channel_extraction).                                           *)
THEOREM OwnWords == Spec => OwnWordsOnly
<1>1. ASSUME IInv, [Next]_vars, heard' # heard, Now.channel
      PROVE  \A who \in Who :
               LET own == who \in Now.writers \cup Now.mentioned
               IN  /\ avail'[who] # avail[who] => own
                   /\ who \in Names(Extraction(Now).given) \ {Me} /\ ~own
                        => confidence' = "low"
  <2>1. avail \in Schedules /\ heard \in Seq(Message) /\ Hear
    BY <1>1 DEF IInv, TypeOK, Schedules, Next, Done, vars
  <2>2. PICK m \in Message :
          /\ Now = m
          /\ Bound(Extraction(m), m)
               \in Readings(People(m), Allowed(m), Reach(m), Corrected(m))
          /\ avail' = Merged(avail, Bound(Extraction(m), m))
          /\ confidence' = Confidence(Bound(Extraction(m), m), m)
    BY <2>1, Heard
  <2>3. ASSUME NEW who \in Who
        PROVE  avail'[who] # avail[who] => who \in m.writers \cup m.mentioned
    <3>1. avail' \in Near(avail, People(m), Allowed(m), Lost(m))
      BY <2>1, <2>2, HeardNear
    <3>2. QED
      BY <1>1, <2>2, <3>1 DEF Near, People, Known
  <2>4. ASSUME NEW who \in Names(Extraction(m).given) \ {Me},
               who \notin m.writers \cup m.mentioned
        PROVE  confidence' = "low"
    <3>1. Self(m, who) \notin Known(m)
      BY <2>4 DEF Self, Known
    <3>2. "third_party" \in Bound(Extraction(m), m).flags
      BY <1>1, <2>2, <2>4, <3>1, ExtractionType, BoundType
    <3>3. QED
      BY <2>2, <3>2 DEF Confidence
  <2>5. QED
    BY <2>2, <2>3, <2>4
<1>2. IInv /\ [Next]_vars => [heard' # heard /\ Now.channel =>
         \A who \in Who :
           LET own == who \in Now.writers \cup Now.mentioned
           IN  /\ avail'[who] # avail[who] => own
               /\ who \in Names(Extraction(Now).given) \ {Me} /\ ~own
                    => confidence' = "low"]_vars
  BY <1>1
<1>3. QED
  BY <1>2, IInvHolds, PTL DEF Spec, OwnWordsOnly

(* Nobody gains or loses an hour of a day that neither the text nor the      *)
(* round supports, whatever the model answers; only "solo" reaches the whole *)
(* week, and a correction what it replaces.                                  *)
THEOREM GroundedDays == Spec => OnlyGroundedDays
<1>1. ASSUME IInv, [Next]_vars, heard' # heard
      PROVE  LET days == IF Written(Now) \cup Now.round # {} THEN Written(Now) \cup Now.round
                         ELSE IF Now.clock THEN {Today} ELSE {}
             IN  \A who \in Who :
                   /\ \A c \in Gains(who) : c[2] \in days
                   /\ Now.only \/ Corrects(Now) \/ \A c \in Losses(who) : c[2] \in days
  <2>1. avail \in Schedules /\ heard \in Seq(Message) /\ Hear
    BY <1>1 DEF IInv, TypeOK, Schedules, Next, Done, vars
  <2>2. PICK m \in Message :
          /\ Now = m
          /\ Bound(Extraction(m), m)
               \in Readings(People(m), Allowed(m), Reach(m), Corrected(m))
          /\ avail' = Merged(avail, Bound(Extraction(m), m))
    BY <2>1, Heard
  <2>3. Allowed(m) = IF Written(m) \cup m.round # {} THEN Written(m) \cup m.round
                     ELSE IF m.clock THEN {Today} ELSE {}
    BY DEF Allowed, Defaulted
  <2>4. avail' \in Near(avail, People(m), Allowed(m), Lost(m))
    BY <2>1, <2>2, HeardNear
  <2>5. \A who \in Who : /\ \A c \in Gains(who) : c[2] \in Allowed(m)
                         /\ \A c \in Losses(who) : c[2] \in Lost(m)
    BY <2>4 DEF Near, Gains, Losses
  <2>6. m.only \/ Corrects(m) \/ Lost(m) = Allowed(m)
    BY DEF Lost, Reach
  <2>7. QED
    BY <2>2, <2>3, <2>5, <2>6
<1>2. IInv /\ [Next]_vars => [heard' # heard =>
         LET days == IF Written(Now) \cup Now.round # {} THEN Written(Now) \cup Now.round
                     ELSE IF Now.clock THEN {Today} ELSE {}
         IN  \A who \in Who :
               /\ \A c \in Gains(who) : c[2] \in days
               /\ Now.only \/ Corrects(Now) \/ \A c \in Losses(who) : c[2] \in days]_vars
  BY <1>1
<1>3. QED
  BY <1>2, IInvHolds, PTL DEF Spec, OnlyGroundedDays

-----------------------------------------------------------------------------
(* A refusal on its way from the entry to the session: some record of the    *)
(* person keeps the refused hour at every stage.                             *)

Speaks(l, who, c) == \E i \in DOMAIN l : l[i].who = who /\ c \in Cover(l[i].slots)

\* Putting slots to a person keeps the records of the others, and of theirs all
\* but the first.
LEMMA PutKeeps ==
  ASSUME NEW l \in Lists(Record), NEW who \in Who, NEW slots \in SUBSET Slot
  PROVE  /\ \E i \in DOMAIN Put(l, who, slots) : Put(l, who, slots)[i] = [who |-> who, slots |-> slots]
         /\ \A i \in DOMAIN l :
              /\ i \in DOMAIN Put(l, who, slots)
              /\ \/ Put(l, who, slots)[i] = l[i]
                 \/ /\ l[i].who = who /\ l[i].slots = Had(l, who)
                    /\ Put(l, who, slots)[i] = [who |-> who, slots |-> slots]
<1> DEFINE r == [who |-> who, slots |-> slots]
           first == FirstOf(l, who)
<1>1. r \in Record
  BY DEF Record
<1>2. CASE who \in Names(l)
  <2>1. first \in DOMAIN l /\ l[first].who = who /\ l[first] \in Record
    BY <1>2, FirstIs, ListIs
  <2>2. [l[first] EXCEPT !.slots = slots] = r
    BY <2>1 DEF Record
  <2>3. Put(l, who, slots) = [l EXCEPT ![first] = r]
    <3>1. Put(l, who, slots) = [l EXCEPT ![first].slots = slots]
      BY <1>2 DEF Put
    <3>2. [l EXCEPT ![first].slots = slots]
            = [l EXCEPT ![first] = [l[first] EXCEPT !.slots = slots]]
      OBVIOUS
    <3> HIDE DEF r, first
    <3>3. QED
      BY <2>2, <3>1, <3>2
  <2>4. Had(l, who) = l[first].slots
    BY <1>2 DEF Had
  <2> HIDE DEF first, r
  <2>5. /\ DOMAIN [l EXCEPT ![first] = r] = DOMAIN l
        /\ [l EXCEPT ![first] = r][first] = r
        /\ \A j \in DOMAIN l : j # first => [l EXCEPT ![first] = r][j] = l[j]
    BY <1>1, <2>1, Replacing
  <2>6. QED
    BY <2>1, <2>3, <2>4, <2>5 DEF r
<1>3. CASE who \notin Names(l)
  <2> DEFINE k == <<r>>
  <2>1. k \in Lists(Record) /\ 1 \in DOMAIN k /\ k[1] = r
    BY <1>1, OneIsList
  <2>2. Put(l, who, slots) = Joined(l, k)
    BY <1>3 DEF Put
  <2> HIDE DEF k, r
  <2>3. /\ \A i \in DOMAIN l : i \in DOMAIN Joined(l, k) /\ Joined(l, k)[i] = l[i]
        /\ \A j \in DOMAIN k : \E i \in DOMAIN Joined(l, k) : Joined(l, k)[i] = k[j]
    BY <2>1, JoinedIs
  <2>4. QED
    BY <2>1, <2>2, <2>3 DEF r
<1>4. QED
  BY <1>2, <1>3

LEMMA GatherSpeaks ==
  ASSUME NEW t \in Lists(Record), NEW r \in Record, NEW who, NEW c,
         Speaks(t, who, c) \/ (r.who = who /\ c \in Cover(r.slots))
  PROVE  Speaks(Gather(t, r), who, c)
<1> DEFINE slots == Had(t, r.who) \cup r.slots
           k == Put(t, r.who, slots)
<1>1. r.who \in Who /\ slots \in SUBSET Slot
  BY HadIs DEF Record
<1>2. Cover(slots) = Cover(Had(t, r.who)) \cup Cover(r.slots)
  BY CoverUnion
<1>3. Gather(t, r) = k
  BY DEF Gather
<1> HIDE DEF slots
<1>4. /\ \E i \in DOMAIN k : k[i] = [who |-> r.who, slots |-> slots]
      /\ \A i \in DOMAIN t :
           /\ i \in DOMAIN k
           /\ \/ k[i] = t[i]
              \/ /\ t[i].who = r.who /\ t[i].slots = Had(t, r.who)
                 /\ k[i] = [who |-> r.who, slots |-> slots]
  BY <1>1, PutKeeps
<1> HIDE DEF k
<1>5. CASE Speaks(t, who, c)
  <2>1. PICK i \in DOMAIN t : t[i].who = who /\ c \in Cover(t[i].slots)
    BY <1>5 DEF Speaks
  <2>2. i \in DOMAIN k /\ k[i].who = who /\ c \in Cover(k[i].slots)
    BY <1>2, <1>4, <2>1
  <2>3. QED
    BY <1>3, <2>2 DEF Speaks
<1>6. CASE r.who = who /\ c \in Cover(r.slots)
  <2>1. PICK i \in DOMAIN k : k[i] = [who |-> r.who, slots |-> slots]
    BY <1>4
  <2>2. k[i].who = who /\ c \in Cover(k[i].slots)
    BY <1>2, <1>6, <2>1
  <2>3. QED
    BY <1>3, <2>2 DEF Speaks
<1>7. QED
  BY <1>5, <1>6

LEMMA GatheredSpeaks ==
  ASSUME NEW l \in Lists(Record), NEW who, NEW c, Speaks(l, who, c)
  PROVE  Speaks(Gathered(l), who, c)
<1> DEFINE In(s) == \E i \in s : l[i].who = who /\ c \in Cover(l[i].slots)
           T == [s \in SUBSET DOMAIN l |->
                   {t \in Lists(Record) : In(s) => Speaks(t, who, c)}]
<1>1. \A s \in SUBSET DOMAIN l : T[s] = {t \in Lists(Record) : In(s) => Speaks(t, who, c)}
  OBVIOUS
<1> HIDE DEF T
<1>2. <<>> \in T[{}]
  BY <1>1, EmptyList
<1>3. ASSUME NEW s \in SUBSET DOMAIN l, s # {}, NEW t \in T[s \ {Max(s)}]
      PROVE  Gather(t, l[Max(s)]) \in T[s]
  <2> DEFINE m == Max(s)
             r == l[m]
  <2>1. m \in s
    BY <1>3, LastIs DEF Chooses
  <2>2. r \in Record
    BY <2>1, ListIs
  <2> HIDE DEF m
  <2>3. t \in Lists(Record) /\ (In(s \ {m}) => Speaks(t, who, c))
    BY <1>1, <1>3 DEF m
  <2>4. In(s) => In(s \ {m}) \/ (r.who = who /\ c \in Cover(r.slots))
    OBVIOUS
  <2> HIDE DEF r, In
  <2>5. In(s) => Speaks(Gather(t, r), who, c)
    BY <2>2, <2>3, <2>4, GatherSpeaks
  <2>6. Gather(t, r) \in Lists(Record)
    BY <2>2, <2>3, GatherType
  <2>7. QED
    BY <1>1, <2>5, <2>6 DEF r, m
<1>4. Gathered(l) \in T[DOMAIN l]
  BY <1>2, <1>3, GatheredIn
<1>5. QED
  BY <1>1, <1>4 DEF Speaks

\* Nobody is gathered who was not in the list.
LEMMA GatheredNames ==
  ASSUME NEW l \in Lists(Record)
  PROVE  Names(Gathered(l)) \subseteq Names(l)
<1> DEFINE T == [s \in SUBSET DOMAIN l |->
                   {t \in Lists(Record) : \A i \in DOMAIN t : t[i].who \in Names(l)}]
<1>1. \A s \in SUBSET DOMAIN l :
        T[s] = {t \in Lists(Record) : \A i \in DOMAIN t : t[i].who \in Names(l)}
  OBVIOUS
<1> HIDE DEF T
<1>2. <<>> \in T[{}]
  BY <1>1, EmptyList
<1>3. ASSUME NEW s \in SUBSET DOMAIN l, s # {}, NEW t \in T[s \ {Max(s)}]
      PROVE  Gather(t, l[Max(s)]) \in T[s]
  <2> DEFINE r == l[Max(s)]
             slots == Had(t, r.who) \cup r.slots
  <2>1. r \in Record /\ r.who \in Names(l)
    <3>1. Max(s) \in DOMAIN l
      BY <1>3, LastIs DEF Chooses
    <3>2. QED
      BY <3>1, ListIs DEF Names
  <2>2. t \in Lists(Record) /\ \A i \in DOMAIN t : t[i].who \in Names(l)
    BY <1>1, <1>3
  <2> HIDE DEF r
  <2>3. r.who \in Who /\ slots \in SUBSET Slot
    BY <2>1, <2>2, HadIs DEF Record
  <2>4. Gather(t, r) = Put(t, r.who, slots)
    BY DEF Gather
  <2> HIDE DEF slots
  <2>5. /\ Gather(t, r) \in Lists(Record)
        /\ \A i \in DOMAIN Gather(t, r) :
             \/ Gather(t, r)[i] = [who |-> r.who, slots |-> slots]
             \/ i \in DOMAIN t /\ Gather(t, r)[i] = t[i]
    BY <2>2, <2>3, <2>4, PutIs
  <2>6. \A i \in DOMAIN Gather(t, r) : Gather(t, r)[i].who \in Names(l)
    BY <2>1, <2>2, <2>5
  <2>7. QED
    BY <1>1, <2>5, <2>6 DEF r
<1>4. Gathered(l) \in T[DOMAIN l]
  BY <1>2, <1>3, GatheredIn
<1>5. QED
  BY <1>1, <1>4 DEF Names

\* What the compiler makes of a refusal.
LEMMA CompiledRefusal ==
  ASSUME NEW entries \in Seq(Entry), NEW j \in DOMAIN entries, Usable(entries[j]),
         entries[j].kind = "unavailable", NEW c \in Cover(Stretch(entries[j]))
  PROVE  Speaks(Compiled(entries).removed, entries[j].who, c)
<1> DEFINE kinds == {"unavailable", "only"}
           D == Chosen(entries, kinds)
           part == [i \in D |-> entries[i]]
           l == [i \in D |-> [who |-> entries[i].who, slots |-> Taken(entries[i])]]
<1>1. Compiled(entries).removed = Telling(Gathered(l))
  BY SaidIs DEF Compiled
<1>2. j \in D
  BY DEF Chosen
<1>3. l[j] = [who |-> entries[j].who, slots |-> Stretch(entries[j])]
  BY <1>2 DEF Taken
<1>4. l \in Lists(Record)
  <2>1. part \in Lists(Entry) /\ DOMAIN part = D
    <3>1. entries \in Lists(Entry) /\ D \in SUBSET DOMAIN entries
      BY SequenceIsList DEF Chosen
    <3> HIDE DEF D
    <3>2. QED
      BY <3>1, PartIsList
  <2>2. ASSUME NEW i \in D PROVE l[i] \in Record
    <3>1. entries[i] \in Entry /\ Usable(entries[i])
      BY DEF Chosen
    <3>2. entries[i].who \in Who /\ Taken(entries[i]) \in SUBSET Slot
      BY <3>1, EntryIs, TakenType
    <3>3. QED
      BY <3>2 DEF Record
  <2>3. l = [i \in D |-> l[i]]
    OBVIOUS
  <2> HIDE DEF l, part, D
  <2>4. QED
    BY <2>1, <2>2, <2>3, ImageIsList
<1>5. j \in DOMAIN l
  BY <1>2
<1> HIDE DEF l, D
<1>6. Speaks(l, entries[j].who, c)
  BY <1>3, <1>5 DEF Speaks
<1>7. Speaks(Gathered(l), entries[j].who, c)
  BY <1>4, <1>6, GatheredSpeaks
<1> DEFINE k == Gathered(l)
<1>8. k \in Lists(Record)
  BY <1>4, GatheredType
<1> HIDE DEF k
<1>9. \A i \in DOMAIN k : c \in Cover(k[i].slots) => i \in DOMAIN Telling(k) /\ Telling(k)[i] = k[i]
  BY <1>8, TellingType DEF Cover
<1>10. QED
  BY <1>1, <1>7, <1>9 DEF Speaks, k

LEMMA CompiledGiven ==
  ASSUME NEW entries \in Seq(Entry), NEW who,
         \A i \in DOMAIN entries : entries[i].who = who => entries[i].kind = "unavailable"
  PROVE  who \notin Names(Compiled(entries).given)
<1> DEFINE kinds == {"available", "replace", "only"}
           D == Chosen(entries, kinds)
           part == [i \in D |-> entries[i]]
           l == [i \in D |-> [who |-> entries[i].who, slots |-> Stretch(entries[i])]]
<1>1. Compiled(entries).given = Telling(Gathered(l))
  BY SaidIs DEF Compiled
<1>2. l \in Lists(Record)
  <2>1. part \in Lists(Entry) /\ DOMAIN part = D
    <3>1. entries \in Lists(Entry) /\ D \in SUBSET DOMAIN entries
      BY SequenceIsList DEF Chosen
    <3> HIDE DEF D
    <3>2. QED
      BY <3>1, PartIsList
  <2>2. ASSUME NEW i \in D PROVE l[i] \in Record
    <3>1. entries[i] \in Entry /\ Usable(entries[i])
      BY DEF Chosen
    <3>2. entries[i].who \in Who /\ Stretch(entries[i]) \in SUBSET Slot
      BY <3>1, EntryIs, StretchType
    <3>3. QED
      BY <3>2 DEF Record
  <2>3. l = [i \in D |-> l[i]]
    OBVIOUS
  <2> HIDE DEF l, part, D
  <2>4. QED
    BY <2>1, <2>2, <2>3, ImageIsList
<1>3. who \notin Names(l)
  <2>1. \A i \in D : entries[i].who # who
    BY DEF Chosen
  <2>2. QED
    BY <2>1 DEF Names
<1> HIDE DEF l
<1> DEFINE k == Gathered(l)
<1>4. k \in Lists(Record) /\ who \notin Names(k)
  BY <1>2, <1>3, GatheredType, GatheredNames
<1> HIDE DEF k
<1>5. \A i \in DOMAIN Telling(k) : i \in DOMAIN k /\ Telling(k)[i] = k[i]
  BY <1>4, TellingType
<1>6. QED
  BY <1>1, <1>4, <1>5 DEF Names, k

\* A rule that finds nothing in the text changes nothing.
LEMMA PlainStages ==
  ASSUME NEW x \in Reading, NEW m \in Message, Plain(m),
         NEW y, y = Spanned(Exclusive(Released(x, m), m), m)
  PROVE  y \in Reading /\ y.given = x.given /\ y.removed = x.removed /\ y.implied = x.implied
<1> DEFINE e == <<>>
           T == [s \in SUBSET DOMAIN e |-> {x}]
<1>1. DOMAIN e = {} /\ e \in Lists(Record)
  BY EmptyList
<1>2. m.release = e /\ m.onlys = e /\ m.spans = e
  BY DEF Plain
<1>3. T[{}] = {x}
  OBVIOUS
<1> HIDE DEF e, T
<1>4. Released(x, m) \in T[DOMAIN e]
  BY <1>1, <1>2, <1>3, ReleasedIn
<1>5. Released(x, m) = x
  BY <1>1, <1>3, <1>4
<1>6. Exclusive(x, m) \in T[DOMAIN e]
  BY <1>1, <1>2, <1>3, ExclusiveIn
<1>7. Exclusive(x, m) = x
  BY <1>1, <1>3, <1>6
<1>8. FoldLeft(Span, x, e) \in T[DOMAIN e]
  BY <1>1, <1>3, SpannedIn
<1>9. FoldLeft(Span, x, m.spans) = x
  BY <1>1, <1>2, <1>3, <1>8
<1>10. y = Spanned(x, m)
  BY <1>5, <1>7
<1>11. y.given = x.given /\ y.removed = x.removed /\ y.implied = x.implied
  <2> DEFINE f == FoldLeft(Span, x, m.spans)
  <2>1. \E flags : y = [f EXCEPT !.flags = flags]
    BY <1>10 DEF Spanned
  <2> HIDE DEF f
  <2>2. f = x
    BY <1>9 DEF f
  <2>3. QED
    BY <2>1, <2>2, ReadingIs
<1>12. QED
  BY <1>10, <1>11, SpannedType

Denied(l, who) == \E i \in DOMAIN l : l[i].who = who /\ l[i].slots # {}

\* Grounding keeps what is on an allowed day, and names nobody anew.
LEMMA GroundedKeeps ==
  ASSUME NEW x \in Reading, NEW m \in Message, Allowed(m) # {}, NEW y, y = Moved(x, m),
         NEW z, z = Grounded(x, m)
  PROVE  /\ \A i \in DOMAIN y.removed : \A s \in y.removed[i].slots : s.day \in Allowed(m) =>
              /\ i \in DOMAIN z.removed
              /\ z.removed[i].who = y.removed[i].who
              /\ s \in z.removed[i].slots
         /\ Names(z.given) \subseteq Names(y.given)
<1> DEFINE w == Moved(x, m)
           A == Allowed(m)
           On(s) == s.day \in A
           strict == {r.who : r \in {q \in Range(w.given) : \E s \in q.slots : On(s)}}
           Reaching(r) == /\ m.only
                          /\ Written(m) # {} \/ Defaulted(m)
                          /\ strict = {} \/ r.who \in strict
           Part(r) == [r EXCEPT !.slots = {s \in @ : On(s)}]
           Kept(r) == [r EXCEPT !.slots = {s \in @ : On(s) \/ Reaching(r)}]
           D == {j \in DOMAIN w.given : w.given[j].slots = {} \/ \E s \in w.given[j].slots : On(s)}
           some == [i \in D |-> w.given[i]]
           left == [i \in DOMAIN w.removed |-> Kept(w.removed[i])]
<1>1. w \in Reading
  BY MovedType
<1> HIDE DEF w
<1>2. /\ w.given \in Lists(Record) /\ w.removed \in Lists(Record)
      /\ w = [given |-> w.given, removed |-> w.removed, implied |-> w.implied,
              replaced |-> w.replaced, flags |-> w.flags]
  BY <1>1, ReadingIs
<1>3. z = [w EXCEPT !.given = Parts(some, A), !.removed = Telling(left),
                    !.implied = Telling(Parts(@, A))]
  BY DEF Grounded, Each, Where, Parts, Telling, w
<1>4. z.given = Parts(some, A) /\ z.removed = Telling(left)
  <2> HIDE DEF some, left, A
  <2> QED
    BY <1>2, <1>3
<1>5. Names(Parts(some, A)) \subseteq Names(w.given)
  <2>1. ASSUME NEW i \in D
        PROVE  Parts(some, A)[i].who \in Names(w.given)
    <3>1. w.given[i] \in Record
      BY <1>2, ListIs
    <3>2. Parts(some, A)[i] = [w.given[i] EXCEPT !.slots = {s \in @ : s.day \in A}]
      BY DEF Parts
    <3>3. Parts(some, A)[i].who = w.given[i].who
      BY <3>1, <3>2 DEF Record
    <3>4. QED
      BY <3>3 DEF Names
  <2>2. DOMAIN Parts(some, A) = D
    BY DEF Parts
  <2> HIDE DEF D, some
  <2>3. QED
    BY <2>1, <2>2 DEF Names
<1>6. ASSUME NEW i \in DOMAIN w.removed, NEW s \in w.removed[i].slots, s.day \in A
      PROVE  /\ i \in DOMAIN Telling(left)
             /\ Telling(left)[i].who = w.removed[i].who
             /\ s \in Telling(left)[i].slots
  <2>1. w.removed[i] \in Record
    BY <1>2, ListIs
  <2>2. left[i] = Kept(w.removed[i])
    OBVIOUS
  <2> HIDE DEF Reaching
  <2>3. left[i].who = w.removed[i].who /\ s \in left[i].slots
    BY <1>6, <2>1, <2>2 DEF Record
  <2>4. i \in DOMAIN Telling(left) /\ Telling(left)[i] = left[i]
    <3>1. i \in DOMAIN left /\ left[i].slots # {}
      BY <2>3
    <3> HIDE DEF left
    <3>2. QED
      BY <3>1 DEF Telling
  <2>5. QED
    BY <2>3, <2>4
<1>7. y = w
  BY DEF w
<1> HIDE DEF left, some
<1>8. QED
  BY <1>4, <1>5, <1>6, <1>7 DEF A

LEMMA GroundedRefusal ==
  ASSUME NEW x \in Reading, NEW m \in Message, NEW who, NEW c, Speaks(x.removed, who, c),
         NEW z, z = Grounded(x, m)
  PROVE  /\ c[2] \in Written(m) => Speaks(z.removed, who, c)
         /\ c[2] \in Allowed(m) \/ (Written(m) = {} /\ Cardinality(Allowed(m)) = 1)
              => Denied(z.removed, who)
<1> DEFINE y == Moved(x, m)
           day == CHOOSE d \in Allowed(m) : TRUE
           moves == /\ Written(m) = {}
                    /\ Cardinality(Allowed(m)) = 1
                    /\ Defaulted(m) \/ ~(ExtractionDays(x) \subseteq Allowed(m))
<1>1. PICK i \in DOMAIN x.removed : x.removed[i].who = who /\ c \in Cover(x.removed[i].slots)
  BY DEF Speaks
<1>2. x.removed \in Lists(Record) /\ x.removed[i] \in Record
  BY <1>1, ReadingIs, ListIs
<1>3. PICK s \in x.removed[i].slots : c \in Cover({s}) /\ c[2] = s.day
  <2>1. PICK s \in x.removed[i].slots : c \in Cover({s})
    BY <1>1, CoverIs
  <2>2. {s} \in SUBSET Slot
    BY <1>2 DEF Record
  <2>3. c[2] = s.day
    BY <2>1, <2>2, CoverDays
  <2>4. QED
    BY <2>1, <2>3
<1>4. s.day \in ExtractionDays(x)
  BY DEF ExtractionDays, AllSlots, DaysOf
<1>5. Moved(x, m) = IF moves THEN [x EXCEPT !.given = Remapped(@, day),
                                            !.removed = Remapped(@, day),
                                            !.implied = Remapped(@, day)]
                    ELSE x
  BY DEF Moved
<1>6. Cardinality(Allowed(m)) = 1 => Allowed(m) # {}
  BY FS_EmptySet
<1> HIDE DEF moves
<1>7. Allowed(m) # {} =>
        /\ \A j \in DOMAIN y.removed : \A t \in y.removed[j].slots : t.day \in Allowed(m) =>
             /\ j \in DOMAIN z.removed
             /\ z.removed[j].who = y.removed[j].who
             /\ t \in z.removed[j].slots
  <2> SUFFICES ASSUME Allowed(m) # {}
               PROVE  \A j \in DOMAIN y.removed : \A t \in y.removed[j].slots :
                        t.day \in Allowed(m) =>
                          /\ j \in DOMAIN z.removed
                          /\ z.removed[j].who = y.removed[j].who
                          /\ t \in z.removed[j].slots
    OBVIOUS
  <2> HIDE DEF y
  <2>1. y = Moved(x, m)
    BY DEF y
  <2>2. QED
    BY <2>1, GroundedKeeps
<1>8. CASE ~moves
  <2>1. y = x
    BY <1>5, <1>8
  <2>2. c[2] \in Written(m) => c[2] \in Allowed(m)
    BY DEF Allowed, Defaulted
  <2>3. Written(m) = {} /\ Cardinality(Allowed(m)) = 1 => s.day \in Allowed(m)
    BY <1>4, <1>8 DEF moves
  <2>4. s.day \in Allowed(m) => /\ i \in DOMAIN z.removed
                                /\ z.removed[i].who = who
                                /\ s \in z.removed[i].slots
    BY <1>1, <1>7, <2>1
  <2>5. s.day \in Allowed(m) => Speaks(z.removed, who, c) /\ Denied(z.removed, who)
    BY <1>3, <2>4, CoverIs DEF Speaks, Denied
  <2>6. QED
    BY <1>3, <2>2, <2>3, <2>5
<1>9. CASE moves
  <2>1. Written(m) = {} /\ Allowed(m) # {} /\ day \in Allowed(m)
    BY <1>6, <1>9 DEF moves
  <2> HIDE DEF day
  <2>2. y.removed = Remapped(x.removed, day)
    BY <1>5, <1>9, ReadingIs
  <2>3. /\ i \in DOMAIN y.removed /\ y.removed[i].who = who
        /\ [s EXCEPT !.day = day] \in y.removed[i].slots
    <3>1. Remapped(x.removed, day)[i] = [x.removed[i] EXCEPT !.slots = {[t EXCEPT !.day = day] : t \in @}]
      BY <1>1 DEF Remapped, Each
    <3>2. i \in DOMAIN Remapped(x.removed, day)
      BY <1>1 DEF Remapped, Each
    <3>3. QED
      BY <1>1, <1>2, <1>3, <2>2, <3>1, <3>2 DEF Record
  <2>4. [s EXCEPT !.day = day].day = day
    BY <1>2, <1>3 DEF Record, Slot
  <2>5. Denied(z.removed, who)
    BY <1>7, <2>1, <2>3, <2>4 DEF Denied
  <2>6. QED
    BY <2>1, <2>5
<1>10. QED
  BY <1>8, <1>9

LEMMA GroundedGiven ==
  ASSUME NEW x \in Reading, NEW m \in Message, NEW who, who \notin Names(x.given),
         Allowed(m) # {}, NEW z, z = Grounded(x, m)
  PROVE  who \notin Names(z.given)
<1> DEFINE y == Moved(x, m)
<1>1. y.given = x.given \/ \E day : y.given = Remapped(x.given, day)
  BY ReadingIs DEF Moved
<1>2. ASSUME NEW day PROVE Names(Remapped(x.given, day)) = Names(x.given)
  <2> DEFINE k == Remapped(x.given, day)
  <2>1. DOMAIN k = DOMAIN x.given
    BY DEF Remapped, Each
  <2>2. ASSUME NEW i \in DOMAIN x.given PROVE k[i].who = x.given[i].who
    <3>1. x.given[i] \in Record
      BY ReadingIs, ListIs
    <3>2. k[i] = [x.given[i] EXCEPT !.slots = {[t EXCEPT !.day = day] : t \in @}]
      BY DEF Remapped, Each
    <3>3. QED
      BY <3>1, <3>2 DEF Record
  <2> HIDE DEF k
  <2>3. Names(k) = Names(x.given)
    BY <2>1, <2>2 DEF Names
  <2>4. QED
    BY <2>3 DEF k
<1>3. who \notin Names(y.given)
  BY <1>1, <1>2
<1>4. y = Moved(x, m)
  OBVIOUS
<1> HIDE DEF y
<1>5. Names(z.given) \subseteq Names(y.given)
  BY <1>4, GroundedKeeps
<1>6. QED
  BY <1>3, <1>5

LEMMA Narrower ==
  ASSUME NEW days \in SUBSET Day, NEW reach \in SUBSET Day, NEW corrected,
         NEW x \in Readings(Who, days, reach, corrected)
  PROVE  x \in Reading
<1>1. Records(Who, days) \subseteq Record /\ Records(Who, reach) \subseteq Record
  BY DEF Records, Record
<1>2. Lists(Records(Who, days)) \subseteq Lists(Record) /\ Lists(Records(Who, reach)) \subseteq Lists(Record)
  BY <1>1, Wider
<1>3. QED
  BY <1>2, ReadingIs DEF Readings

\* A refusal of somebody the text names is kept, and the rules have nothing to
\* add for them.
LEMMA MentionedRefusal ==
  ASSUME NEW x \in Reading, NEW m \in Message, NEW who \in m.names,
         NEW z, z = Mentioned(x, m)
  PROVE  /\ \A c : Speaks(x.removed, who, c) => Speaks(z.removed, who, c)
         /\ Denied(x.removed, who) => Denied(z.removed, who)
         /\ who \notin Names(x.given) => who \notin Names(z.given)
<1> DEFINE G == {i \in DOMAIN x.given : x.given[i].who \in m.names}
           R == {i \in DOMAIN x.removed : x.removed[i].who \in m.names /\ x.removed[i].slots # {}}
           given == [i \in G |-> x.given[i]]
           removed == [i \in R |-> x.removed[i]]
<1>1. z.given = given /\ z.removed = removed
  <2>1. \E implied : z = [x EXCEPT !.given = given, !.removed = removed, !.implied = implied]
    BY DEF Mentioned, Where
  <2> HIDE DEF given, removed
  <2>2. QED
    BY <2>1, ReadingIs
<1>2. ASSUME NEW i \in DOMAIN x.removed, x.removed[i].who = who, x.removed[i].slots # {}
      PROVE  i \in DOMAIN z.removed /\ z.removed[i] = x.removed[i]
  BY <1>1, <1>2
<1>3. \A i \in DOMAIN x.removed : \A c : c \in Cover(x.removed[i].slots) => x.removed[i].slots # {}
  BY DEF Cover
<1>4. \A i \in DOMAIN z.given : i \in DOMAIN x.given /\ z.given[i] = x.given[i]
  BY <1>1
<1> HIDE DEF given, removed
<1>5. QED
  BY <1>2, <1>3, <1>4 DEF Speaks, Denied, Names

LEMMA CompletedRefusal ==
  ASSUME NEW x \in Reading, NEW r \in Reading, NEW who, NEW z, z = Completed(x, r)
  PROVE  /\ \A c : Speaks(x.removed, who, c) => Speaks(z.removed, who, c)
         /\ Denied(x.removed, who) /\ who \notin Names(x.given) => who \notin Names(z.given)
<1> DEFINE known == Names(x.given) \cup Names(x.removed) \cup Names(x.implied)
           New(q) == q.who \notin known
           G == {i \in DOMAIN r.given : New(r.given[i])}
           R == {i \in DOMAIN r.removed : New(r.removed[i])}
           given == [i \in G |-> r.given[i]]
           removed == [i \in R |-> r.removed[i]]
<1>1. /\ x.given \in Lists(Record) /\ x.removed \in Lists(Record)
      /\ r.given \in Lists(Record) /\ r.removed \in Lists(Record)
      /\ x = [given |-> x.given, removed |-> x.removed, implied |-> x.implied,
              replaced |-> x.replaced, flags |-> x.flags]
  BY ReadingIs
<1>2. given \in Lists(Record) /\ removed \in Lists(Record)
  <2>1. G \in SUBSET DOMAIN r.given /\ R \in SUBSET DOMAIN r.removed
    OBVIOUS
  <2> HIDE DEF G, R
  <2>2. QED
    BY <1>1, <2>1, PartIsList
<1>3. \A i \in DOMAIN given : given[i].who \notin known
  OBVIOUS
<1>4. z.given = Joined(x.given, given) /\ z.removed = Joined(x.removed, removed)
  <2>1. \E implied, replaced :
          z = [x EXCEPT !.given = Joined(@, given), !.removed = Joined(@, removed),
                        !.implied = implied, !.replaced = replaced]
    BY DEF Completed, Where
  <2> HIDE DEF given, removed
  <2>2. QED
    BY <1>1, <2>1
<1> HIDE DEF given, removed, known
<1>5. \A i \in DOMAIN x.removed : i \in DOMAIN z.removed /\ z.removed[i] = x.removed[i]
  BY <1>1, <1>2, <1>4, JoinedIs
<1>6. \A i \in DOMAIN z.given : \/ i \in DOMAIN x.given /\ z.given[i] = x.given[i]
                                \/ \E j \in DOMAIN given : z.given[i] = given[j]
  BY <1>1, <1>2, <1>4, JoinedIs
<1>7. Denied(x.removed, who) => who \in known
  BY DEF Denied, known, Names
<1>8. QED
  BY <1>3, <1>5, <1>6, <1>7 DEF Speaks, Names

LEMMA ExtractedRefusal ==
  ASSUME NEW m \in Message, Plain(m), NEW j \in DOMAIN m.entries, NEW e, e = m.entries[j],
         Usable(e), e.kind = "unavailable", e.who \in m.names
  PROVE  /\ \A c \in Cover(Stretch(e)) : c[2] \in Written(m) =>
              Speaks(Extraction(m).removed, e.who, c)
         /\ Supported(e, m) /\ OnlyRefuses(e.who, m) => e.who \notin Names(Extraction(m).given)
<1> DEFINE x == Compiled(m.entries)
           y == Spanned(Exclusive(Released(x, m), m), m)
           z == Grounded(y, m)
           n == Mentioned(z, m)
           r == Ruled(m)
           who == e.who
<1>1. m.entries \in Seq(Entry) /\ e \in Entry
  BY MessageIs
<1>2. x \in Reading /\ \A c \in Cover(Stretch(e)) : Speaks(x.removed, who, c)
  BY <1>1, CompiledType, CompiledRefusal
<1>3. OnlyRefuses(who, m) => who \notin Names(x.given)
  BY <1>1, CompiledGiven DEF OnlyRefuses
<1> DEFINE all == Readings(Who, Allowed(m), Reach(m), y.replaced)
<1>4. Extraction(m) = Completed(n, r)
  BY DEF Extraction, Normalized, Plain
<1> HIDE DEF x
<1>5. y \in Reading /\ y.given = x.given /\ y.removed = x.removed
  BY <1>2, PlainStages
<1> HIDE DEF y
<1>6. z \in all
  BY <1>5, GroundedType
<1>7. z \in Reading
  BY <1>6, AllowedDays, Narrower
<1>8. \A c \in Cover(Stretch(e)) :
        /\ c[2] \in Written(m) => Speaks(z.removed, who, c)
        /\ c[2] \in Allowed(m) \/ (Written(m) = {} /\ Cardinality(Allowed(m)) = 1)
              => Denied(z.removed, who)
  <2>1. \A c \in Cover(Stretch(e)) : Speaks(y.removed, who, c)
    BY <1>2, <1>5
  <2> HIDE DEF z
  <2>2. z = Grounded(y, m)
    BY DEF z
  <2>3. QED
    BY <1>5, <2>1, <2>2, GroundedRefusal
<1>9. Supported(e, m) => Denied(z.removed, who)
  <2> SUFFICES ASSUME Supported(e, m) PROVE Denied(z.removed, who)
    OBVIOUS
  <2>1. FirstHour(e) < LastHour(e) /\ e.days # {} /\ FirstHour(e) \in Int /\ LastHour(e) \in Int
    <3>1. FirstHour(e) \in Hour /\ LastHour(e) \in Hour
      BY <1>1, EntryIs
    <3>2. FirstHour(e) \in Int /\ LastHour(e) \in Int
      BY <3>1 DEF Hour
    <3>3. QED
      BY <1>1, <3>2 DEF Usable
  <2>2. \A d \in e.days : <<Week(e), d, FirstHour(e)>> \in Cover(Stretch(e))
    <3>1. SUFFICES ASSUME NEW d \in e.days
                   PROVE  <<Week(e), d, FirstHour(e)>> \in Cover(Stretch(e))
      OBVIOUS
    <3> DEFINE s == [week |-> Week(e), day |-> d, start |-> FirstHour(e), end |-> LastHour(e)]
    <3>2. s \in Stretch(e)
      BY DEF Stretch, Block
    <3>3. FirstHour(e) \in s.start .. s.end - 1
      BY <2>1
    <3>4. QED
      BY <3>2, <3>3 DEF Cover
  <2> HIDE DEF z
  <2>3. CASE e.days \cap Allowed(m) # {}
    <3>1. PICK d \in e.days : d \in Allowed(m)
      BY <2>3
    <3> DEFINE c == <<Week(e), d, FirstHour(e)>>
    <3>2. c \in Cover(Stretch(e)) /\ c[2] = d
      BY <2>2
    <3> HIDE DEF c
    <3>3. QED
      BY <1>8, <3>1, <3>2
  <2>4. CASE Written(m) = {} /\ Cardinality(Allowed(m)) = 1
    <3>1. PICK d \in e.days : TRUE
      BY <2>1
    <3>2. QED
      BY <1>8, <2>2, <2>4, <3>1
  <2>5. QED
    BY <2>3, <2>4 DEF Supported
<1>10. Supported(e, m) /\ OnlyRefuses(who, m) => who \notin Names(z.given)
  <2> SUFFICES ASSUME Supported(e, m), OnlyRefuses(who, m) PROVE who \notin Names(z.given)
    OBVIOUS
  <2>1. Allowed(m) # {}
    BY FS_EmptySet DEF Supported
  <2>2. who \notin Names(y.given)
    BY <1>3, <1>5
  <2> HIDE DEF z
  <2>3. z = Grounded(y, m)
    BY DEF z
  <2>4. QED
    BY <1>5, <2>1, <2>2, <2>3, GroundedGiven
<1>11. n \in Reading
  BY <1>6, AllowedDays, MentionedType, Narrower
<1> HIDE DEF z
<1>12. /\ \A c : Speaks(z.removed, who, c) => Speaks(n.removed, who, c)
       /\ Denied(z.removed, who) => Denied(n.removed, who)
       /\ who \notin Names(z.given) => who \notin Names(n.given)
  <2> HIDE DEF n
  <2>1. n = Mentioned(z, m)
    BY DEF n
  <2>2. QED
    BY <1>7, <2>1, MentionedRefusal
<1>13. r \in Reading
  BY RuledType, AllowedDays, Narrower
<1> HIDE DEF n, r
<1>14. /\ \A c : Speaks(n.removed, who, c) => Speaks(Extraction(m).removed, who, c)
       /\ Denied(n.removed, who) /\ who \notin Names(n.given)
             => who \notin Names(Extraction(m).given)
  BY <1>4, <1>11, <1>13, CompletedRefusal
<1>15. QED
  BY <1>8, <1>9, <1>10, <1>12, <1>14

\* Slots that join others stay away from the days that have some.
Apart(old, new) ==
  /\ old \subseteq new
  /\ \A s \in new \ old, t \in old : <<s.week, s.day>> # <<t.week, t.day>>

LEMMA ScheduleSteps ==
  ASSUME NEW a \in Schedules, NEW r \in Record, NEW replaced
  PROVE  /\ Give(a, r, replaced) \in Schedules
         /\ Infer(a, r) \in Schedules
         /\ Withdraw(a, r) \in Schedules
<1>1. a \in Near(a, Who, Day, Day)
  BY DEF Near
<1>2. r \in Records(Who, Day)
  BY RecordIs
<1>3. /\ Give(a, r, replaced) \in Near(a, Who, Day, Day)
      /\ Infer(a, r) \in Near(a, Who, Day, Day)
      /\ Withdraw(a, r) \in Near(a, Who, Day, Day)
  BY <1>1, <1>2, GiveNear, InferNear, WithdrawNear
<1>4. QED
  BY <1>3 DEF Near

LEMMA GiveOthers ==
  ASSUME NEW a \in Schedules, NEW r \in Record, NEW replaced, NEW who \in Who, r.who # who
  PROVE  Give(a, r, replaced)[who] = a[who]
BY DEF Give, Schedules, Record

LEMMA InferApart ==
  ASSUME NEW old, NEW a \in Schedules, NEW r \in Record, NEW who \in Who, Apart(old, a[who])
  PROVE  Apart(old, Infer(a, r)[who])
<1> DEFINE taken == {<<s.week, s.day>> : s \in a[r.who]}
           more == {s \in r.slots : <<s.week, s.day>> \notin taken}
<1>1. Infer(a, r) = [a EXCEPT ![r.who] = @ \cup more]
  BY DEF Infer
<1>2. CASE r.who # who
  <2>1. Infer(a, r)[who] = a[who]
    BY <1>1, <1>2 DEF Schedules
  <2>2. QED
    BY <2>1
<1>3. CASE r.who = who
  <2>1. Infer(a, r)[who] = a[who] \cup more
    BY <1>1, <1>3 DEF Schedules
  <2>2. \A s \in more, t \in a[who] : <<s.week, s.day>> # <<t.week, t.day>>
    BY <1>3
  <2> HIDE DEF more
  <2>3. QED
    BY <2>1, <2>2 DEF Apart
<1>4. QED
  BY <1>2, <1>3

LEMMA WithdrawIs ==
  ASSUME NEW a \in Schedules, NEW r \in Record, NEW who \in Who
  PROVE  Cover(Withdraw(a, r)[who]) = IF r.who = who THEN Cover(a[who]) \ Cover(r.slots)
                                      ELSE Cover(a[who])
<1>1. a[who] \in SUBSET Slot /\ r.slots \in SUBSET Slot /\ r.who \in Who
  BY DEF Schedules, Record
<1>2. CASE r.who = who
  <2>1. Withdraw(a, r)[who] = Removed(a[who], r.slots)
    BY <1>2 DEF Withdraw, Schedules
  <2>2. QED
    BY <1>1, <1>2, <2>1, RemovedIs
<1>3. CASE r.who # who
  BY <1>3 DEF Withdraw, Schedules
<1>4. QED
  BY <1>2, <1>3

\* What is taken from a person is not theirs afterwards, and one to whom nothing
\* is given gets no hour of a day that had some.
LEMMA MergedRefusal ==
  ASSUME NEW av \in Schedules, NEW x \in Reading, NEW who \in Who
  PROVE  /\ \A c : Speaks(x.removed, who, c) => c \notin Cover(Merged(av, x)[who])
         /\ who \notin Names(x.given) =>
              \A c \in Cover(Merged(av, x)[who]) \ Cover(av[who]), h \in Cover(av[who]) :
                <<c[1], c[2]>> # <<h[1], h[2]>>
<1> DEFINE a == GivenTo(av, x)
           b == ImpliedInto(a, x.implied)
           d == FoldLeft(Withdraw, b, x.removed)
<1>1. /\ x.given \in Lists(Record) /\ x.removed \in Lists(Record)
      /\ x.implied \in Lists(Record)
  BY ReadingIs
<1>2. a \in Schedules /\ (who \notin Names(x.given) => a[who] = av[who])
  <2> DEFINE l == x.given
             N == {t \in Schedules : who \notin Names(l) => t[who] = av[who]}
             T == [s \in SUBSET DOMAIN l |-> N]
  <2>1. \A s \in SUBSET DOMAIN l : T[s] = N
    OBVIOUS
  <2>2. x.given = l /\ l \in Lists(Record)
    BY <1>1
  <2>3. av \in T[{}]
    BY <2>1
  <2> HIDE DEF T, l, a
  <2>4. ASSUME NEW s \in SUBSET DOMAIN l, s # {}, NEW t \in T[s \ {Max(s)}]
        PROVE  Give(t, l[Max(s)], x.replaced) \in T[s]
    <3> DEFINE r == l[Max(s)]
    <3>1. Max(s) \in DOMAIN l /\ t \in N
      BY <2>1, <2>2, <2>4, LastIs DEF Chooses
    <3>2. r \in Record /\ r.who \in Names(l)
      BY <2>2, <3>1, ListIs DEF Names
    <3> HIDE DEF r
    <3>3. Give(t, r, x.replaced) \in Schedules
      BY <3>1, <3>2, ScheduleSteps
    <3>4. who \notin Names(l) => Give(t, r, x.replaced)[who] = t[who]
      BY <3>1, <3>2, GiveOthers
    <3>5. Give(t, r, x.replaced) \in N
      BY <3>1, <3>3, <3>4
    <3>6. QED
      BY <2>1, <3>5 DEF r
  <2> HIDE DEF N
  <2>5. GivenTo(av, x) \in T[DOMAIN l]
    BY <2>2, <2>3, <2>4, GivenIn
  <2>6. QED
    BY <2>1, <2>2, <2>5 DEF a, N
<1> HIDE DEF a
<1>3. b \in Schedules /\ Apart(a[who], b[who])
  <2> DEFINE l == x.implied
             N == {t \in Schedules : Apart(a[who], t[who])}
             T == [s \in SUBSET DOMAIN l |-> N]
  <2>1. \A s \in SUBSET DOMAIN l : T[s] = N
    OBVIOUS
  <2>2. b = ImpliedInto(a, l) /\ l \in Lists(Record)
    BY <1>1
  <2>3. a \in T[{}]
    BY <1>2, <2>1 DEF Apart
  <2> HIDE DEF T, l, b
  <2>4. ASSUME NEW s \in SUBSET DOMAIN l, s # {}, NEW t \in T[s \ {Max(s)}]
        PROVE  Infer(t, l[Max(s)]) \in T[s]
    <3> DEFINE r == l[Max(s)]
    <3>1. Max(s) \in DOMAIN l /\ t \in N
      BY <2>1, <2>2, <2>4, LastIs DEF Chooses
    <3>2. r \in Record
      BY <2>2, <3>1, ListIs
    <3> HIDE DEF r
    <3>3. Infer(t, r) \in Schedules /\ Apart(a[who], Infer(t, r)[who])
      BY <3>1, <3>2, ScheduleSteps, InferApart
    <3>4. QED
      BY <2>1, <3>3 DEF r
  <2> HIDE DEF N
  <2>5. ImpliedInto(a, l) \in T[DOMAIN l]
    BY <2>2, <2>3, <2>4, InferredIn
  <2>6. QED
    BY <2>1, <2>2, <2>5 DEF N
<1> HIDE DEF b
<1>4. /\ Cover(d[who]) \subseteq Cover(b[who])
      /\ \A i \in DOMAIN x.removed : x.removed[i].who = who =>
           Cover(d[who]) \cap Cover(x.removed[i].slots) = {}
  <2> DEFINE l == x.removed
             N(s) == {t \in Schedules :
                        /\ Cover(t[who]) \subseteq Cover(b[who])
                        /\ \A i \in s : l[i].who = who => Cover(t[who]) \cap Cover(l[i].slots) = {}}
             T == [s \in SUBSET DOMAIN l |-> N(s)]
  <2>1. \A s \in SUBSET DOMAIN l : T[s] = N(s)
    OBVIOUS
  <2>2. d = FoldLeft(Withdraw, b, l) /\ l \in Lists(Record)
    BY <1>1
  <2>3. b \in T[{}]
    BY <1>3, <2>1
  <2> HIDE DEF T, l, d
  <2>4. ASSUME NEW s \in SUBSET DOMAIN l, s # {}, NEW t \in T[s \ {Max(s)}]
        PROVE  Withdraw(t, l[Max(s)]) \in T[s]
    <3> DEFINE k == Max(s)
               r == l[k]
    <3>1. k \in s /\ k \in DOMAIN l
      BY <2>2, <2>4, LastIs DEF Chooses
    <3> HIDE DEF k
    <3>2. t \in N(s \ {k})
      BY <2>1, <2>4 DEF k
    <3>3. r \in Record
      BY <2>2, <3>1, ListIs
    <3>4. t \in Schedules /\ Cover(t[who]) \subseteq Cover(b[who])
          /\ \A i \in s : i # k /\ l[i].who = who => Cover(t[who]) \cap Cover(l[i].slots) = {}
      BY <3>2
    <3>5. Withdraw(t, r) \in Schedules
      BY <3>3, <3>4, ScheduleSteps
    <3>6. Cover(Withdraw(t, r)[who]) = IF r.who = who THEN Cover(t[who]) \ Cover(r.slots)
                                       ELSE Cover(t[who])
      BY <3>3, <3>4, WithdrawIs
    <3>7. Withdraw(t, r) \in N(s)
      BY <3>4, <3>5, <3>6
    <3>8. QED
      BY <2>1, <3>7 DEF k
  <2>5. FoldLeft(Withdraw, b, l) \in T[DOMAIN l]
    BY <2>2, <2>3, <2>4, WithdrawnIn
  <2>6. d \in N(DOMAIN l)
    BY <2>1, <2>2, <2>5
  <2>7. QED
    BY <2>6 DEF l
<1> HIDE DEF d
<1>5. Merged(av, x) = d
  BY DEF Merged, a, b, d
<1>6. \A c : Speaks(x.removed, who, c) => c \notin Cover(d[who])
  BY <1>4 DEF Speaks
<1>7. ASSUME who \notin Names(x.given), NEW c \in Cover(d[who]) \ Cover(av[who]),
             NEW h \in Cover(av[who])
      PROVE  <<c[1], c[2]>> # <<h[1], h[2]>>
  <2> DEFINE old == av[who]
             new == b[who]
  <2>1. Apart(old, new) /\ old \in SUBSET Slot /\ new \in SUBSET Slot
    BY <1>2, <1>3, <1>7 DEF Schedules
  <2>2. c \in Cover(new) /\ c \notin Cover(old) /\ h \in Cover(old)
    BY <1>4, <1>7
  <2> HIDE DEF old, new
  <2>3. PICK s \in new : c \in Cover({s})
    BY <2>2, CoverIs
  <2>4. s \notin old
    BY <2>2, <2>3, CoverIs
  <2>5. PICK t \in old : h \in Cover({t})
    BY <2>2, CoverIs
  <2>6. c[1] = s.week /\ c[2] = s.day /\ h[1] = t.week /\ h[2] = t.day
    <3>1. {s} \in SUBSET Slot /\ {t} \in SUBSET Slot
      BY <2>1
    <3>2. QED
      BY <2>3, <2>5, <3>1, CoverDays
  <2>7. QED
    BY <2>1, <2>4, <2>6 DEF Apart
<1>8. QED
  BY <1>5, <1>6, <1>7

(* An hour that a person refuses on a day the text names is not theirs       *)
(* afterwards, and one who only refuses gets no hour of a day that already   *)
(* had some: neither what the refusal implies, nor the rules that read the   *)
(* same text, open it (compile_interpretation, merge_extraction).            *)
THEOREM Refused == Spec => RefusalHolds
<1> DEFINE Holds(e) ==
      LET own == {c \in Cover(Stretch(e)) : c[2] \in Written(Now)}
      IN  e.kind = "unavailable" /\ Usable(e) /\ e.who \in Now.names =>
            /\ Cover(avail'[e.who]) \cap own = {}
            /\ Supported(e, Now) /\ OnlyRefuses(e.who, Now) =>
                 \A c \in Gains(e.who), b \in Cover(avail[e.who]) :
                   <<c[1], c[2]>> # <<b[1], b[2]>>
<1>1. ASSUME IInv, [Next]_vars, heard' # heard, Plain(Now), NEW i \in DOMAIN Now.entries
      PROVE  Holds(Now.entries[i])
  <2>1. avail \in Schedules /\ heard \in Seq(Message) /\ Hear
    BY <1>1 DEF IInv, TypeOK, Schedules, Next, Done, vars
  <2>2. PICK m \in Message : Now = m /\ avail' = Merged(avail, Bound(Extraction(m), m))
    BY <2>1, Heard
  <2> DEFINE e == m.entries[i]
             x == Extraction(m)
             who == e.who
  <2>3. Bound(x, m) = x
    BY <1>1, <2>2 DEF Bound, Plain
  <2>4. SUFFICES ASSUME e.kind = "unavailable", Usable(e), e.who \in m.names
                 PROVE  /\ \A c \in Cover(Stretch(e)) : c[2] \in Written(m) => c \notin Cover(avail'[who])
                        /\ Supported(e, m) /\ OnlyRefuses(who, m) =>
                             \A c \in Cover(avail'[who]) \ Cover(avail[who]), b \in Cover(avail[who]) :
                               <<c[1], c[2]>> # <<b[1], b[2]>>
    BY <2>2 DEF Gains
  <2>5. /\ \A c \in Cover(Stretch(e)) : c[2] \in Written(m) => Speaks(x.removed, who, c)
        /\ Supported(e, m) /\ OnlyRefuses(who, m) => who \notin Names(x.given)
    BY <1>1, <2>2, <2>4, ExtractedRefusal
  <2>6. x \in Reading
    BY ExtractionType, AllowedDays, Narrower
  <2>7. who \in Who
    BY <2>4, MessageIs
  <2> HIDE DEF e, x, who
  <2>8. /\ \A c : Speaks(x.removed, who, c) => c \notin Cover(Merged(avail, x)[who])
        /\ who \notin Names(x.given) =>
             \A c \in Cover(Merged(avail, x)[who]) \ Cover(avail[who]), b \in Cover(avail[who]) :
               <<c[1], c[2]>> # <<b[1], b[2]>>
    BY <2>1, <2>6, <2>7, MergedRefusal
  <2>9. avail' = Merged(avail, x)
    BY <2>2, <2>3 DEF x
  <2>10. QED
    BY <2>5, <2>8, <2>9
<1>2. IInv /\ [Next]_vars =>
        [heard' # heard /\ Plain(Now) => \A i \in DOMAIN Now.entries : Holds(Now.entries[i])]_vars
  <2> HIDE DEF Holds
  <2> QED
    BY <1>1
<1>3. QED
  BY <1>2, IInvHolds, PTL DEF Spec, RefusalHolds

-----------------------------------------------------------------------------
(* What a "solo" takes from the other days of its week.  Its two records,    *)
(* the hours given and the rest of the week, stay until the hours are merged. *)

LEMMA PutSpeaks ==
  ASSUME NEW l \in Lists(Record), NEW who \in Who, NEW slots \in SUBSET Slot, NEW c
  PROVE  /\ c \in Cover(slots) => Speaks(Put(l, who, slots), who, c)
         /\ \A p : p # who /\ Speaks(l, p, c) => Speaks(Put(l, who, slots), p, c)
<1> DEFINE k == Put(l, who, slots)
<1>1. /\ \E i \in DOMAIN k : k[i] = [who |-> who, slots |-> slots]
      /\ \A i \in DOMAIN l :
           /\ i \in DOMAIN k
           /\ \/ k[i] = l[i]
              \/ /\ l[i].who = who /\ l[i].slots = Had(l, who)
                 /\ k[i] = [who |-> who, slots |-> slots]
  BY PutKeeps
<1> HIDE DEF k
<1>2. c \in Cover(slots) => Speaks(k, who, c)
  BY <1>1 DEF Speaks
<1>3. \A p : p # who /\ Speaks(l, p, c) => Speaks(k, p, c)
  BY <1>1 DEF Speaks
<1>4. QED
  BY <1>2, <1>3 DEF k

\* Both records of the "solo" and, for another person, those there were.
LEMMA ExcludeSpeaks ==
  ASSUME NEW x \in Reading, NEW o \in Only, NEW p \in Who, NEW c, NEW c0,
         NEW z, z = Exclude(x, o),
         \/ /\ o.who = p /\ c0 \in Cover(o.slots)
            /\ c \in Cover(Block(Day \ DaysOf(o.slots), WorkStart, WorkEnd, o.week))
         \/ o.who # p /\ Speaks(x.removed, p, c) /\ Speaks(x.given, p, c0)
  PROVE  Speaks(z.removed, p, c) /\ Speaks(z.given, p, c0)
<1> DEFINE days == DaysOf(o.slots)
           rest == [who |-> o.who, slots |-> Block(Day \ days, WorkStart, WorkEnd, o.week)]
           D == {i \in DOMAIN x.removed : x.removed[i].who # o.who
                                          \/ DaysOf(x.removed[i].slots) \cap days = {}}
           left == Dropped(x.removed, o.who, days)
           one == <<rest>>
<1>1. /\ x.given \in Lists(Record) /\ x.removed \in Lists(Record)
      /\ x = [given |-> x.given, removed |-> x.removed, implied |-> x.implied,
              replaced |-> x.replaced, flags |-> x.flags]
  BY ReadingIs
<1>2. o.who \in Who /\ o.slots \in SUBSET Slot /\ o.week \in 0 .. MaxWeek
  BY DEF Only, Found
<1>3. rest \in Record
  BY <1>2, BlockType, Workday DEF Record
<1>4. z.given = Put(x.given, o.who, o.slots) /\ z.removed = Joined(left, one)
  <2>1. z = [x EXCEPT !.given = Put(@, o.who, o.slots),
                      !.removed = Joined(Dropped(@, o.who, days), one)]
    BY DEF Exclude
  <2>2. left = Dropped(x.removed, o.who, days)
    OBVIOUS
  <2> HIDE DEF left, one, days
  <2>3. QED
    BY <1>1, <2>1, <2>2
<1>5. \A i \in DOMAIN x.removed : x.removed[i].who # o.who =>
        i \in DOMAIN left /\ left[i] = x.removed[i]
  BY DEF Dropped, Where
<1>6. left \in Lists(Record)
  BY <1>1, DroppedIs
<1>7. one \in Lists(Record) /\ 1 \in DOMAIN one /\ one[1] = rest
  BY <1>3, OneIsList
<1>8. rest.who = o.who /\ rest.slots = Block(Day \ DaysOf(o.slots), WorkStart, WorkEnd, o.week)
  OBVIOUS
<1> HIDE DEF left, one, rest, days
<1>9. /\ \A i \in DOMAIN left : i \in DOMAIN z.removed /\ z.removed[i] = left[i]
      /\ \E i \in DOMAIN z.removed : z.removed[i] = rest
  BY <1>4, <1>6, <1>7, JoinedIs
<1>10. CASE o.who = p /\ c0 \in Cover(o.slots) /\ c \in Cover(rest.slots)
  <2>1. Speaks(z.removed, p, c)
    BY <1>8, <1>9, <1>10 DEF Speaks
  <2>2. Speaks(z.given, p, c0)
    BY <1>1, <1>2, <1>4, <1>10, PutSpeaks
  <2>3. QED
    BY <2>1, <2>2
<1>11. CASE o.who # p /\ Speaks(x.removed, p, c) /\ Speaks(x.given, p, c0)
  <2>1. Speaks(z.removed, p, c)
    BY <1>5, <1>9, <1>11 DEF Speaks
  <2>2. Speaks(z.given, p, c0)
    BY <1>1, <1>2, <1>4, <1>11, PutSpeaks
  <2>3. QED
    BY <2>1, <2>2
<1>12. QED
  BY <1>8, <1>10, <1>11

\* A range of somebody else leaves the records of a person alone.
LEMMA SpanSpeaks ==
  ASSUME NEW x \in Reading, NEW r \in CrossDay, NEW p, r.who # p, NEW c, NEW c0,
         Speaks(x.removed, p, c), Speaks(x.given, p, c0), NEW z, z = Span(x, r)
  PROVE  Speaks(z.removed, p, c) /\ Speaks(z.given, p, c0)
<1> DEFINE span == SpanSlots(r)
           Apt(old) == {s \in old : s.week # r.week \/ s.day \notin DaysOf(span)}
           Over(list) == Put(list, r.who, Apt(Had(list, r.who)) \cup span)
           cut == IF r.who \in Names(x.given) THEN Put(x.given, r.who, Apt(Had(x.given, r.who)))
                  ELSE x.given
<1>1. /\ x.given \in Lists(Record) /\ x.removed \in Lists(Record)
      /\ x = [given |-> x.given, removed |-> x.removed, implied |-> x.implied,
              replaced |-> x.replaced, flags |-> x.flags]
  BY ReadingIs
<1>2. r.who \in Who /\ span \in SUBSET Slot
  BY SpanSlotsType DEF CrossDay
<1>3. \E implied : z = IF span = {} THEN x
                       ELSE IF ~r.negated THEN [x EXCEPT !.given = Over(@)]
                       ELSE [x EXCEPT !.given = cut, !.removed = Over(@), !.implied = implied]
  BY DEF Span
<1> HIDE DEF span
<1>4. \A list \in Lists(Record) : /\ Apt(Had(list, r.who)) \in SUBSET Slot
                                  /\ Apt(Had(list, r.who)) \cup span \in SUBSET Slot
  BY <1>2, HadIs
<1> HIDE DEF Apt
<1>5. Speaks(Over(x.removed), p, c) /\ Speaks(Over(x.given), p, c0)
  BY <1>1, <1>2, <1>4, PutSpeaks
<1>6. Speaks(cut, p, c0)
  BY <1>1, <1>2, <1>4, PutSpeaks
<1> HIDE DEF Over, cut
<1>7. /\ z.removed \in {x.removed, Over(x.removed)}
      /\ z.given \in {x.given, Over(x.given), cut}
  BY <1>1, <1>3
<1>8. QED
  BY <1>5, <1>6, <1>7

\* The rules that follow the last "solo" of a person leave its records alone.
LEMMA ExclusiveSpeaks ==
  ASSUME NEW x \in Reading, NEW m \in Message, NEW i \in DOMAIN m.onlys,
         NEW o, o = m.onlys[i], LastWord(o, i, m),
         NEW c \in Cover(Block(Day \ DaysOf(o.slots), WorkStart, WorkEnd, o.week)),
         NEW c0 \in Cover(o.slots), NEW z, z = Spanned(Exclusive(x, m), m)
  PROVE  z \in Reading /\ Speaks(z.removed, o.who, c) /\ Speaks(z.given, o.who, c0)
<1> DEFINE p == o.who
           Both(y) == Speaks(y.removed, p, c) /\ Speaks(y.given, p, c0)
           y == Exclusive(x, m)
<1>1. /\ o \in Only /\ p \in Who
      /\ m.onlys \in Lists(Only) /\ m.spans \in Lists(CrossDay)
  <2>1. m.onlys \in Lists(Only) /\ m.spans \in Lists(CrossDay)
    BY MessageIs
  <2>2. o \in Only
    BY <2>1, ListIs
  <2>3. QED
    BY <2>1, <2>2 DEF Only, Found
<1>2. /\ \A j \in DOMAIN m.onlys : j > i => m.onlys[j].who # p
      /\ \A j \in DOMAIN m.spans : m.spans[j].who # p
  BY DEF LastWord
<1>3. y \in Reading /\ Both(y)
  <2> DEFINE l == m.onlys
             T == [s \in SUBSET DOMAIN l |-> {t \in Reading : i \in s => Both(t)}]
  <2>1. \A s \in SUBSET DOMAIN l : T[s] = {t \in Reading : i \in s => Both(t)}
    OBVIOUS
  <2> HIDE DEF T, Both
  <2>2. x \in T[{}]
    BY <2>1
  <2>3. ASSUME NEW s \in SUBSET DOMAIN l, s # {}, NEW t \in T[s \ {Max(s)}]
        PROVE  Exclude(t, l[Max(s)]) \in T[s]
    <3> DEFINE k == Max(s)
               e == l[k]
               u == Exclude(t, e)
    <3>1. k \in s /\ k \in Nat /\ \A j \in s : j <= k
      <4>1. s \in SUBSET Nat /\ IsFiniteSet(s)
        BY <1>1, ListIs, FS_Subset
      <4> HIDE DEF l
      <4>2. QED
        BY <2>3, <4>1, Greatest
    <3>2. e \in Only
      BY <1>1, <3>1, ListIs
    <3>3. t \in Reading /\ (i \in s \ {k} => Both(t))
      BY <2>1, <2>3
    <3> HIDE DEF k
    <3>4. u \in Reading
      BY <3>2, <3>3, ExcludeType
    <3> HIDE DEF e, u
    <3>5. u = Exclude(t, e)
      BY DEF u
    <3>6. ASSUME i \in s PROVE Both(u)
      <4>1. CASE i = k
        <5>1. e = o
          BY <4>1 DEF e
        <5>2. QED
          BY <1>1, <3>2, <3>3, <3>5, <5>1, ExcludeSpeaks DEF Both
      <4>2. CASE i # k
        <5>1. k > i /\ Both(t)
          <6>1. i \in Nat /\ i <= k
            BY <1>1, <3>1, <3>6, ListIs
          <6>2. QED
            BY <3>1, <3>3, <3>6, <4>2, <6>1
        <5>2. e.who # p
          BY <1>2, <3>1, <5>1 DEF e
        <5>3. QED
          BY <1>1, <3>2, <3>3, <3>5, <5>1, <5>2, ExcludeSpeaks DEF Both
      <4>3. QED
        BY <4>1, <4>2
    <3>7. QED
      BY <2>1, <3>4, <3>6 DEF u, e, k
  <2>4. m.onlys = l /\ l \in Lists(Only)
    BY <1>1
  <2> HIDE DEF l
  <2>5. Exclusive(x, m) \in T[DOMAIN l]
    BY <2>2, <2>3, <2>4, ExclusiveIn
  <2>6. QED
    BY <2>1, <2>4, <2>5
<1> HIDE DEF y
<1> DEFINE f == FoldLeft(Span, y, m.spans)
<1>4. f \in Reading /\ Both(f)
  <2> DEFINE l == m.spans
             N == {t \in Reading : Both(t)}
             T == [s \in SUBSET DOMAIN l |-> N]
  <2>1. \A s \in SUBSET DOMAIN l : T[s] = N
    OBVIOUS
  <2> HIDE DEF T
  <2>2. y \in T[{}]
    BY <1>3, <2>1
  <2>3. ASSUME NEW s \in SUBSET DOMAIN l, s # {}, NEW t \in T[s \ {Max(s)}]
        PROVE  Span(t, l[Max(s)]) \in T[s]
    <3> DEFINE r == l[Max(s)]
    <3>1. Max(s) \in DOMAIN l /\ t \in N
      BY <1>1, <2>1, <2>3, LastIs DEF Chooses
    <3>2. r \in CrossDay /\ r.who # p
      BY <1>1, <1>2, <3>1, ListIs
    <3> HIDE DEF r
    <3>3. Span(t, r) \in Reading
      BY <3>1, <3>2, SpanType
    <3>4. Speaks(Span(t, r).removed, p, c) /\ Speaks(Span(t, r).given, p, c0)
      BY <3>1, <3>2, SpanSpeaks
    <3>5. QED
      BY <2>1, <3>3, <3>4 DEF r
  <2>4. l \in Lists(CrossDay)
    BY <1>1
  <2>5. FoldLeft(Span, y, l) \in T[DOMAIN l]
    BY <2>2, <2>3, <2>4, SpannedIn
  <2>6. QED
    BY <2>1, <2>5
<1>5. z \in Reading
  BY <1>3, SpannedType DEF y
<1>6. z.given = f.given /\ z.removed = f.removed
  <2>1. \E flags : z = [f EXCEPT !.flags = flags]
    BY DEF Spanned, y
  <2> HIDE DEF f
  <2>2. QED
    BY <1>4, <2>1, ReadingIs
<1> HIDE DEF f
<1>7. QED
  BY <1>4, <1>5, <1>6

\* "solo" reaches the days that the text does not name, for a person of whom it
\* gives hours of a day it names.
LEMMA GroundedReach ==
  ASSUME NEW x \in Reading, NEW m \in Message, m.only, NEW p, NEW c, NEW c0,
         Speaks(x.removed, p, c), Speaks(x.given, p, c0), c0[2] \in Written(m),
         NEW z, z = Grounded(x, m)
  PROVE  Speaks(z.removed, p, c)
<1> DEFINE w == Moved(x, m)
           A == Allowed(m)
           On(s) == s.day \in A
           strict == {r.who : r \in {q \in Range(w.given) : \E s \in q.slots : On(s)}}
           Reaching(r) == /\ m.only
                          /\ Written(m) # {} \/ Defaulted(m)
                          /\ strict = {} \/ r.who \in strict
           Kept(r) == [r EXCEPT !.slots = {s \in @ : On(s) \/ Reaching(r)}]
           D == {j \in DOMAIN w.given : w.given[j].slots = {} \/ \E s \in w.given[j].slots : On(s)}
           some == [i \in D |-> w.given[i]]
           left == [i \in DOMAIN w.removed |-> Kept(w.removed[i])]
<1>1. Written(m) # {} /\ c0[2] \in A /\ A # {}
  BY DEF Allowed, Defaulted
<1>2. w = x
  BY <1>1 DEF Moved
<1> HIDE DEF w
<1>3. /\ x.given \in Lists(Record) /\ x.removed \in Lists(Record)
      /\ x = [given |-> x.given, removed |-> x.removed, implied |-> x.implied,
              replaced |-> x.replaced, flags |-> x.flags]
  BY ReadingIs
<1>4. z.removed = Telling(left)
  <2>1. z = [w EXCEPT !.given = Parts(some, A), !.removed = Telling(left),
                      !.implied = Telling(Parts(@, A))]
    BY <1>1 DEF Grounded, Each, Where, Parts, Telling, w
  <2> HIDE DEF some, left, A
  <2>2. QED
    BY <1>2, <1>3, <2>1
<1>5. p \in strict
  <2>1. PICK i \in DOMAIN x.given : x.given[i].who = p /\ c0 \in Cover(x.given[i].slots)
    BY DEF Speaks
  <2>2. x.given[i] \in Record /\ x.given[i] \in Range(x.given)
    BY <1>3, ListIs DEF Range
  <2>3. PICK s \in x.given[i].slots : c0[2] = s.day
    <3>1. x.given[i].slots \in SUBSET Slot
      BY <2>2 DEF Record
    <3>2. QED
      BY <2>1, <3>1, CoverDays
  <2> HIDE DEF A
  <2>4. QED
    BY <1>1, <1>2, <2>1, <2>2, <2>3
<1>6. PICK i \in DOMAIN x.removed : x.removed[i].who = p /\ c \in Cover(x.removed[i].slots)
  BY DEF Speaks
<1>7. x.removed[i] \in Record
  BY <1>3, ListIs
<1>8. left[i] = x.removed[i]
  <2>1. left[i] = Kept(x.removed[i])
    BY <1>2
  <2>2. Reaching(x.removed[i])
    BY <1>1, <1>5, <1>6
  <2> HIDE DEF Reaching, On
  <2>3. QED
    BY <1>7, <2>1, <2>2 DEF Record
<1>9. i \in DOMAIN left /\ left[i].slots # {}
  BY <1>2, <1>6, <1>8 DEF Cover
<1> HIDE DEF left, some
<1>10. i \in DOMAIN Telling(left) /\ Telling(left)[i] = left[i]
  BY <1>9 DEF Telling
<1>11. QED
  BY <1>4, <1>6, <1>8, <1>10 DEF Speaks

LEMMA ExtractedOnly ==
  ASSUME NEW m \in Message, NEW i \in DOMAIN m.onlys, NEW o, o = m.onlys[i],
         LastWord(o, i, m), o.who \in m.names,
         NEW c \in Cover(Block(Day \ DaysOf(o.slots), WorkStart, WorkEnd, o.week))
  PROVE  Speaks(Extraction(m).removed, o.who, c)
<1> DEFINE p == o.who
<1>1. PICK c0 \in Cover(o.slots) : c0[2] \in Written(m)
  <2>1. o.slots \in SUBSET Slot
    <3>1. m.onlys \in Lists(Only)
      BY MessageIs
    <3>2. o \in Only
      BY <3>1, ListIs
    <3>3. QED
      BY <3>2 DEF Only, Found
  <2>2. PICK s \in o.slots : TRUE
    BY DEF LastWord
  <2>3. s.start \in Int /\ s.end \in Int /\ s.start < s.end
    BY <2>1, SlotIs, Workday
  <2> DEFINE c0 == <<s.week, s.day, s.start>>
  <2>4. c0 \in Cover(o.slots) /\ c0[2] = s.day
    BY <2>3 DEF Cover
  <2>5. s.day \in Written(m)
    BY DEF LastWord, DaysOf
  <2>6. QED
    BY <2>4, <2>5
<1>2. m.only
  BY DEF LastWord
\* Whatever was read before, the "solo" is grounded.
<1>3. ASSUME NEW x \in Reading,
             NEW y, y = Spanned(Exclusive(x, m), m), NEW z, z = Grounded(y, m)
      PROVE  z \in Reading /\ Speaks(z.removed, p, c)
  <2>1. y \in Reading /\ Speaks(y.removed, p, c) /\ Speaks(y.given, p, c0)
    BY <1>1, <1>3, ExclusiveSpeaks
  <2>2. Speaks(z.removed, p, c)
    BY <1>1, <1>2, <1>3, <2>1, GroundedReach
  <2>3. z \in Readings(Who, Allowed(m), Reach(m), y.replaced)
    BY <1>3, <2>1, GroundedType
  <2>4. QED
    BY <2>2, <2>3, AllowedDays, Narrower
<1>4. Ruled(m) \in Reading /\ Speaks(Ruled(m).removed, p, c)
  <2>1. PICK x \in Reading : Ruled(m) = Grounded(Spanned(Exclusive(x, m), m), m)
    BY RulesAre
  <2>2. QED
    BY <1>3, <2>1
<1>5. CASE ~m.answered
  BY <1>4, <1>5 DEF Extraction
<1>6. CASE m.answered
  <2> DEFINE e == Compiled(m.entries)
             x == Released(e, m)
             z == Grounded(Spanned(Exclusive(x, m), m), m)
             n == Mentioned(z, m)
             r == Ruled(m)
  <2>1. Extraction(m) = Completed(n, r)
    BY <1>6 DEF Extraction, Normalized
  <2>2. e \in Reading
    BY MessageIs, CompiledType
  <2> HIDE DEF e
  <2>3. x \in Reading
    BY <2>2, ReleasedType
  <2> HIDE DEF x
  <2>4. z \in Reading /\ Speaks(z.removed, p, c)
    BY <1>3, <2>3
  <2> HIDE DEF z
  <2>5. n \in Reading
    BY <2>4, MentionedType DEF Reading
  <2> HIDE DEF n
  <2>6. n = Mentioned(z, m)
    BY DEF n
  <2>7. Speaks(n.removed, p, c)
    BY <2>4, <2>6, MentionedRefusal
  <2> HIDE DEF r
  <2>8. r \in Reading
    BY <1>4 DEF r
  <2>9. QED
    BY <2>1, <2>5, <2>7, <2>8, CompletedRefusal
<1>7. QED
  BY <1>5, <1>6

(* After "solo puede ..." no hour of the working day is left on the other    *)
(* days of that week,                                                        *)
(* whatever else the message and the model say: what the rule takes from     *)
(* the rest of the week is neither dropped nor cut by the rules that follow  *)
(* (apply_exclusive_availability_overrides,                                  *)
(* validate_extracted_temporal_grounding, merge_extraction).                 *)
THEOREM OnlyClears == Spec => OnlyClearsOtherDays
<1> DEFINE Holds(i) ==
      LET o == Now.onlys[i]
      IN  LastWord(o, i, Now) /\ o.who \in Now.names =>
            \A c \in Cover(avail'[o.who]) :
              c[1] = o.week /\ c[3] \in WorkStart .. WorkEnd - 1
                => c[2] \in DaysOf(o.slots)
<1>1. ASSUME IInv, [Next]_vars, heard' # heard, ~Now.channel, NEW i \in DOMAIN Now.onlys
      PROVE  Holds(i)
  <2>1. avail \in Schedules /\ heard \in Seq(Message) /\ Hear
    BY <1>1 DEF IInv, TypeOK, Schedules, Next, Done, vars
  <2>2. PICK m \in Message : Now = m /\ avail' = Merged(avail, Bound(Extraction(m), m))
    BY <2>1, Heard
  <2> DEFINE o == m.onlys[i]
             x == Extraction(m)
             who == o.who
             rest == Block(Day \ DaysOf(o.slots), WorkStart, WorkEnd, o.week)
  <2>3. Bound(x, m) = x
    BY <1>1, <2>2 DEF Bound
  <2>4. SUFFICES ASSUME LastWord(o, i, m), who \in m.names,
                        NEW c \in Cover(avail'[who]), c[1] = o.week,
                        c[3] \in WorkStart .. WorkEnd - 1, c[2] \notin DaysOf(o.slots)
                 PROVE  FALSE
    BY <2>2
  <2>5. who \in Who
    BY <2>4, MessageIs
  <2>6. avail'[who] \in SUBSET Slot
    <3>1. PICK n \in Message : avail' \in Near(avail, People(n), Allowed(n), Lost(n))
      BY <2>1, Heard, HeardNear
    <3> HIDE DEF who
    <3>2. QED
      BY <2>5, <3>1 DEF Near, Schedules
  <2>7. c \in Cover(rest)
    <3>1. PICK s \in avail'[who] : \E h \in s.start .. s.end - 1 : c = <<s.week, s.day, h>>
      BY <2>4 DEF Cover
    <3>2. PICK h \in s.start .. s.end - 1 : c = <<s.week, s.day, h>>
      BY <3>1
    <3>3. s \in Slot
      BY <2>6
    <3>4. s.day \in Day /\ h \in WorkStart .. WorkEnd - 1
      BY <2>4, <3>2, <3>3, SlotIs
    <3> DEFINE t == [week |-> o.week, day |-> s.day, start |-> WorkStart, end |-> WorkEnd]
    <3>5. t \in rest
      BY <2>4, <3>2, <3>4 DEF Block
    <3>6. c = <<t.week, t.day, h>> /\ h \in t.start .. t.end - 1
      BY <2>4, <3>2, <3>4
    <3> HIDE DEF t, rest
    <3>7. QED
      BY <3>5, <3>6 DEF Cover
  <2>8. Speaks(x.removed, who, c)
    BY <1>1, <2>2, <2>4, <2>7, ExtractedOnly
  <2>9. x \in Reading
    BY ExtractionType, AllowedDays, Narrower
  <2> HIDE DEF o, x, who, rest
  <2>10. c \notin Cover(Merged(avail, x)[who])
    BY <2>1, <2>5, <2>8, <2>9, MergedRefusal
  <2>11. avail' = Merged(avail, x)
    BY <2>2, <2>3 DEF x
  <2>12. QED
    BY <2>4, <2>10, <2>11
<1>2. IInv /\ [Next]_vars =>
        [heard' # heard /\ ~Now.channel => \A i \in DOMAIN Now.onlys : Holds(i)]_vars
  <2> HIDE DEF Holds
  <2> QED
    BY <1>1
<1>3. QED
  BY <1>2, IInvHolds, PTL DEF Spec, OnlyClearsOtherDays

=============================================================================
