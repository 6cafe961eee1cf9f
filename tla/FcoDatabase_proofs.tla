------------------------- MODULE FcoDatabase_proofs -------------------------
(* What the walks over objects rest on: names and their order, what a rule  *)
(* reaches, the sorted names of a directory, and the trees of a file system *)
(* and of a database, whatever names there are and however deep they go.    *)
EXTENDS FcoDatabase, SequenceTheorems, FiniteSetTheorems, WellFoundedInduction, TLAPS

Name == Seq(Int)

-----------------------------------------------------------------------------
(* Names.                                                                   *)

LEMMA NameFacts ==
  ASSUME NEW p \in Name
  PROVE  /\ Len(p) \in Nat /\ DOMAIN p = 1..Len(p)
         /\ \A i \in 1..Len(p) : p[i] \in Int
         /\ p # <<>> <=> Len(p) > 0
<1>1. Len(p) \in Nat /\ DOMAIN p = 1..Len(p) /\ \A i \in 1..Len(p) : p[i] \in Int
  BY LenProperties, ElementOfSeq DEF Name
<1>2. p # <<>> => Len(p) > 0
  BY EmptySeq DEF Name
<1>3. p = <<>> => Len(p) = 0
  BY EmptySeq DEF Name
<1>4. QED
  BY <1>1, <1>2, <1>3

(* The names above a name are its beginnings.                               *)
LEMMA PrefixFacts ==
  ASSUME NEW p \in Name, NEW n \in 0..Len(p)
  PROVE  /\ SubSeq(p, 1, n) \in Name
         /\ Len(SubSeq(p, 1, n)) = n
         /\ \A i \in 1..n : SubSeq(p, 1, n)[i] = p[i]
<1>1. n \in Int /\ n >= 0 /\ \A i \in 1..n : p[i] \in Int
  BY NameFacts
<1>2. /\ SubSeq(p, 1, n) \in Seq(Int)
      /\ Len(SubSeq(p, 1, n)) = IF 1 <= n THEN n - 1 + 1 ELSE 0
      /\ \A i \in 1..n - 1 + 1 : SubSeq(p, 1, n)[i] = p[1 + i - 1]
  BY <1>1, SubSeqProperties, Z3
<1>3. QED
  BY <1>1, <1>2 DEF Name

LEMMA SameName ==
  ASSUME NEW p \in Name, NEW q \in Name, Len(p) = Len(q), \A i \in 1..Len(p) : p[i] = q[i]
  PROVE  p = q
BY SeqEqual DEF Name

(* A name is at or above another when it is as long or shorter and agrees   *)
(* with it as far as it goes.                                               *)
LEMMA AtOrAbovePointwise ==
  ASSUME NEW p \in Name, NEW q \in Name
  PROVE  AtOrAbove(p, q) <=> Len(p) <= Len(q) /\ \A i \in 1..Len(p) : p[i] = q[i]
<1>1. Len(p) \in Nat /\ Len(q) \in Nat
  BY NameFacts
<1>2. ASSUME Len(p) <= Len(q)
      PROVE  SubSeq(p, 1, Len(p)) = SubSeq(q, 1, Len(p)) <=> \A i \in 1..Len(p) : p[i] = q[i]
  <2>1. /\ SubSeq(p, 1, Len(p)) \in Name
        /\ Len(SubSeq(p, 1, Len(p))) = Len(p)
        /\ \A i \in 1..Len(p) : SubSeq(p, 1, Len(p))[i] = p[i]
    BY <1>1, PrefixFacts
  <2>2. /\ SubSeq(q, 1, Len(p)) \in Name
        /\ Len(SubSeq(q, 1, Len(p))) = Len(p)
        /\ \A i \in 1..Len(p) : SubSeq(q, 1, Len(p))[i] = q[i]
    BY <1>1, <1>2, PrefixFacts
  <2>3. ASSUME \A i \in 1..Len(p) : p[i] = q[i]
        PROVE  SubSeq(p, 1, Len(p)) = SubSeq(q, 1, Len(p))
    <3>1. \A i \in 1..Len(p) : SubSeq(p, 1, Len(p))[i] = SubSeq(q, 1, Len(p))[i]
      BY <2>1, <2>2, <2>3
    <3>2. QED
      BY <3>1, <2>1, <2>2, SameName
  <2>4. QED
    BY <2>1, <2>2, <2>3
<1>3. QED
  BY <1>1, <1>2 DEF AtOrAbove, IsPrefix

LEMMA AtOrAboveOrder ==
  /\ \A p \in Name : AtOrAbove(p, p)
  /\ \A p, q, r \in Name : AtOrAbove(p, q) /\ AtOrAbove(q, r) => AtOrAbove(p, r)
  /\ \A p, q \in Name : AtOrAbove(p, q) /\ AtOrAbove(q, p) => p = q
<1>1. \A p \in Name : Len(p) \in Nat
  BY NameFacts
<1>2. \A p \in Name : AtOrAbove(p, p)
  BY <1>1, AtOrAbovePointwise
<1>3. ASSUME NEW p \in Name, NEW q \in Name, NEW r \in Name,
             AtOrAbove(p, q), AtOrAbove(q, r)
      PROVE  AtOrAbove(p, r)
  <2>1. Len(p) <= Len(q) /\ \A i \in 1..Len(p) : p[i] = q[i]
    BY <1>3, AtOrAbovePointwise
  <2>2. Len(q) <= Len(r) /\ \A i \in 1..Len(q) : q[i] = r[i]
    BY <1>3, AtOrAbovePointwise
  <2>3. Len(p) <= Len(r) /\ \A i \in 1..Len(p) : p[i] = r[i]
    BY <2>1, <2>2, <1>1
  <2>4. QED
    BY <2>3, AtOrAbovePointwise
<1>4. ASSUME NEW p \in Name, NEW q \in Name, AtOrAbove(p, q), AtOrAbove(q, p)
      PROVE  p = q
  <2>1. Len(p) = Len(q) /\ \A i \in 1..Len(p) : p[i] = q[i]
    BY <1>1, <1>4, AtOrAbovePointwise
  <2>2. QED
    BY <2>1, SameName
<1>5. QED
  BY <1>2, <1>3, <1>4

(* Of two names above a third the longer is below the other.                *)
LEMMA AboveSame ==
  ASSUME NEW p \in Name, NEW q \in Name, NEW r \in Name,
         AtOrAbove(p, r), AtOrAbove(q, r), Len(p) <= Len(q)
  PROVE  AtOrAbove(p, q)
<1>1. Len(p) \in Nat /\ Len(q) \in Nat /\ Len(r) \in Nat
  BY NameFacts
<1>2. /\ \A i \in 1..Len(p) : p[i] = r[i]
      /\ \A i \in 1..Len(q) : q[i] = r[i]
  BY AtOrAbovePointwise
<1>3. \A i \in 1..Len(p) : p[i] = q[i]
  BY <1>1, <1>2
<1>4. QED
  BY <1>3, AtOrAbovePointwise

LEMMA AboveFacts ==
  ASSUME NEW p \in Name, NEW q \in Name
  PROVE  /\ AtOrAbove(p, q) => Len(p) <= Len(q)
         /\ Above(p, q) <=> AtOrAbove(p, q) /\ Len(p) < Len(q)
         /\ AtOrAbove(p, q) /\ Len(p) = Len(q) => p = q
<1>1. Len(p) \in Nat /\ Len(q) \in Nat
  BY NameFacts
<1>2. AtOrAbove(p, q) => Len(p) <= Len(q)
  BY AtOrAbovePointwise
<1>3. AtOrAbove(p, q) /\ Len(p) = Len(q) => p = q
  BY AtOrAbovePointwise, SameName
<1>4. QED
  BY <1>1, <1>2, <1>3 DEF Above

LEMMA BeginningIsAbove ==
  ASSUME NEW p \in Name, NEW n \in 0..Len(p)
  PROVE  AtOrAbove(SubSeq(p, 1, n), p)
<1>1. Len(p) \in Nat /\ n \in Nat /\ n <= Len(p)
  BY NameFacts
<1>2. /\ SubSeq(p, 1, n) \in Name
      /\ Len(SubSeq(p, 1, n)) = n
      /\ \A i \in 1..n : SubSeq(p, 1, n)[i] = p[i]
  BY PrefixFacts
<1>3. QED
  BY <1>1, <1>2, AtOrAbovePointwise

LEMMA AboveIsBeginning ==
  ASSUME NEW p \in Name, NEW q \in Name, AtOrAbove(p, q)
  PROVE  Len(p) \in 0..Len(q) /\ p = SubSeq(q, 1, Len(p))
<1>1. Len(p) \in Nat /\ Len(q) \in Nat /\ Len(p) <= Len(q)
  BY NameFacts, AboveFacts
<1>2. /\ SubSeq(q, 1, Len(p)) \in Name /\ Len(SubSeq(q, 1, Len(p))) = Len(p)
      /\ \A i \in 1..Len(p) : SubSeq(q, 1, Len(p))[i] = q[i]
  BY <1>1, PrefixFacts
<1>3. \A i \in 1..Len(p) : p[i] = q[i]
  BY AtOrAbovePointwise
<1>4. \A i \in 1..Len(p) : p[i] = SubSeq(q, 1, Len(p))[i]
  BY <1>2, <1>3
<1>5. p = SubSeq(q, 1, Len(p))
  BY <1>2, <1>4, SameName
<1>6. QED
  BY <1>1, <1>5

-----------------------------------------------------------------------------
(* The objects of a directory.                                              *)

LEMMA FrontFacts ==
  ASSUME NEW p \in Name, p # <<>>
  PROVE  /\ Front(p) \in Name
         /\ Len(Front(p)) = Len(p) - 1
         /\ Above(Front(p), p)
         /\ p = Append(Front(p), p[Len(p)])
         /\ p[Len(p)] \in Int
<1>1. Len(p) \in Nat /\ Len(p) > 0 /\ p[Len(p)] \in Int
  BY NameFacts
<1>2. /\ Front(p) \in Name /\ Len(Front(p)) = Len(p) - 1
      /\ \A i \in 1..Len(p) - 1 : Front(p)[i] = p[i]
  <2>1. Len(p) - 1 \in 0..Len(p)
    BY <1>1
  <2>2. QED
    BY <2>1, PrefixFacts DEF Front
<1>3. Above(Front(p), p)
  BY <1>1, <1>2, AtOrAbovePointwise, AboveFacts
<1>4. p = Append(Front(p), p[Len(p)])
  <2>1. /\ Append(Front(p), p[Len(p)]) \in Name
        /\ Len(Append(Front(p), p[Len(p)])) = Len(p)
        /\ \A i \in 1..Len(p) - 1 : Append(Front(p), p[Len(p)])[i] = p[i]
        /\ Append(Front(p), p[Len(p)])[Len(p)] = p[Len(p)]
    BY <1>1, <1>2, AppendProperties DEF Name
  <2>2. \A i \in 1..Len(p) : Append(Front(p), p[Len(p)])[i] = p[i]
    BY <2>1, <1>1
  <2>3. QED
    BY <2>1, <2>2, SameName
<1>5. QED
  BY <1>1, <1>2, <1>3, <1>4

LEMMA ChildFacts ==
  ASSUME NEW d \in Name, NEW n \in Int
  PROVE  /\ Append(d, n) \in Name /\ Append(d, n) # <<>>
         /\ Len(Append(d, n)) = Len(d) + 1
         /\ Append(d, n)[Len(d) + 1] = n
         /\ Above(d, Append(d, n))
         /\ Front(Append(d, n)) = d
<1>1. Len(d) \in Nat
  BY NameFacts
<1>2. /\ Append(d, n) \in Name /\ Append(d, n) # <<>>
      /\ Len(Append(d, n)) = Len(d) + 1
      /\ \A i \in 1..Len(d) : Append(d, n)[i] = d[i]
      /\ Append(d, n)[Len(d) + 1] = n
  BY AppendProperties DEF Name
<1>3. Above(d, Append(d, n))
  <2>1. Len(d) <= Len(Append(d, n)) /\ \A i \in 1..Len(d) : d[i] = Append(d, n)[i]
    BY <1>1, <1>2
  <2>2. AtOrAbove(d, Append(d, n))
    BY <2>1, <1>2, AtOrAbovePointwise
  <2>3. QED
    BY <2>2, <1>1, <1>2 DEF Above
<1>4. Front(Append(d, n)) = d
  <2> DEFINE c == Append(d, n)
  <2>0. c \in Name /\ c # <<>> /\ Len(c) = Len(d) + 1
    BY <1>2
  <2> HIDE DEF c
  <2>1. Front(c) \in Name /\ Len(Front(c)) = Len(c) - 1 /\ AtOrAbove(Front(c), c)
    BY <2>0, FrontFacts DEF Above
  <2>2. AtOrAbove(d, c)
    BY <1>3 DEF Above, c
  <2>3. AtOrAbove(Front(c), d)
    BY <2>0, <2>1, <2>2, <1>1, AboveSame
  <2>4. Len(Front(c)) = Len(d)
    BY <2>0, <2>1, <1>1
  <2>5. Front(c) = d
    BY <2>1, <2>3, <2>4, AboveFacts
  <2>6. QED
    BY <2>5 DEF c
<1>5. QED
  BY <1>2, <1>3, <1>4

(* Below a directory everything is at or below one object in it.            *)
LEMMA BelowIsAtChild ==
  ASSUME NEW d \in Name, NEW p \in Name
  PROVE  /\ Above(d, p) <=> \E n \in Int : AtOrAbove(Append(d, n), p)
         /\ \A m, n \in Int : AtOrAbove(Append(d, m), p) /\ AtOrAbove(Append(d, n), p) => m = n
<1>1. Len(d) \in Nat /\ Len(p) \in Nat
  BY NameFacts
<1>2. ASSUME Above(d, p)
      PROVE  \E n \in Int : AtOrAbove(Append(d, n), p)
  <2>1. Len(d) + 1 <= Len(p) /\ \A i \in 1..Len(d) : d[i] = p[i]
    BY <1>1, <1>2, AboveFacts, AtOrAbovePointwise
  <2>2. p[Len(d) + 1] \in Int
    BY <2>1, <1>1, NameFacts
  <2>3. /\ Append(d, p[Len(d) + 1]) \in Name
        /\ Len(Append(d, p[Len(d) + 1])) = Len(d) + 1
        /\ \A i \in 1..Len(d) : Append(d, p[Len(d) + 1])[i] = d[i]
        /\ Append(d, p[Len(d) + 1])[Len(d) + 1] = p[Len(d) + 1]
    BY <2>2, AppendProperties DEF Name
  <2>4. \A i \in 1..Len(d) + 1 : Append(d, p[Len(d) + 1])[i] = p[i]
    BY <2>1, <2>3, <1>1
  <2>5. AtOrAbove(Append(d, p[Len(d) + 1]), p)
    BY <2>1, <2>3, <2>4, AtOrAbovePointwise
  <2>6. QED
    BY <2>2, <2>5
<1>3. ASSUME NEW n \in Int, AtOrAbove(Append(d, n), p)
      PROVE  Above(d, p) /\ p[Len(d) + 1] = n
  <2>1. /\ Append(d, n) \in Name /\ Len(Append(d, n)) = Len(d) + 1
        /\ Append(d, n)[Len(d) + 1] = n /\ AtOrAbove(d, Append(d, n))
    BY ChildFacts DEF Above
  <2>2. AtOrAbove(d, p)
    BY <2>1, <1>3, AtOrAboveOrder
  <2>3. Len(d) + 1 <= Len(p) /\ \A i \in 1..Len(d) + 1 : Append(d, n)[i] = p[i]
    BY <2>1, <1>3, AtOrAbovePointwise
  <2>4. p[Len(d) + 1] = n
    BY <2>1, <2>3, <1>1
  <2>5. QED
    BY <2>2, <2>3, <2>4, <1>1, AboveFacts
<1>4. QED
  BY <1>2, <1>3

(* What is at or above an object below a directory is so of the directory,  *)
(* unless it is at or below the object of it that is above that.            *)
LEMMA AboveChild ==
  ASSUME NEW p \in Name, p # <<>>, NEW q \in Name
  PROVE  /\ AtOrAbove(q, p) => q = p \/ AtOrAbove(q, Front(p))
         /\ Above(q, p) => AtOrAbove(q, Front(p))
<1>1. /\ Front(p) \in Name /\ Len(Front(p)) = Len(p) - 1 /\ AtOrAbove(Front(p), p)
      /\ Len(p) \in Nat /\ Len(q) \in Nat
  BY FrontFacts, NameFacts DEF Above
<1>2. ASSUME Above(q, p)
      PROVE  AtOrAbove(q, Front(p))
  <2>1. AtOrAbove(q, p) /\ Len(q) < Len(p)
    BY <1>2, AboveFacts
  <2>2. QED
    BY <2>1, <1>1, AboveSame
<1>3. QED
  BY <1>2 DEF Above
-----------------------------------------------------------------------------
(* Trees.                                                                   *)

LEMMA LeastOf ==
  ASSUME NEW S \in SUBSET Nat, S # {}
  PROVE  \E m \in S : \A k \in S : m <= k
<1> DEFINE less == {ss \in Nat \X Nat : ss[1] < ss[2]}
<1>1. IsWellFoundedOn(less, Nat)
  BY NatLessThanWellFounded, Zenon DEF OpToRel
<1>2. PICK m \in S : \A k \in S : ~ (<<k, m>> \in less)
  <2> HIDE DEF less
  <2> QED
    BY <1>1, WFMin
<1>3. ASSUME NEW k \in S
      PROVE  m <= k
  <2>1. k \in Nat /\ m \in Nat
    OBVIOUS
  <2>2. k < m => <<k, m>> \in less
    BY <2>1
  <2>3. QED
    BY <1>2, <2>1, <2>2
<1>4. QED
  BY <1>3

LEMMA GreatestOf ==
  ASSUME NEW n \in Nat, NEW S \in SUBSET (1 .. n), S # {}
  PROVE  \E m \in S : \A k \in S : k <= m
<1> DEFINE D == {n - k : k \in S}
<1>1. D \subseteq Nat /\ D # {}
  <2>1. \A k \in S : k \in Nat /\ n - k \in Nat
    OBVIOUS
  <2>2. D \subseteq Nat
    BY <2>1
  <2>3. PICK k \in S : TRUE
    OBVIOUS
  <2>4. n - k \in D
    BY <2>3
  <2>5. QED
    BY <2>2, <2>4
<1>2. PICK d \in D : \A e \in D : d <= e
  <2> HIDE DEF D
  <2> QED
    BY <1>1, LeastOf
<1>3. PICK m \in S : d = n - m
  BY <1>2
<1>4. ASSUME NEW k \in S
      PROVE  k <= m
  <2>1. n - k \in D /\ n - k \in Nat /\ n - m \in Nat
    BY <1>1, <1>3
  <2>2. n - m <= n - k
    BY <2>1, <1>2, <1>3
  <2>3. QED
    BY <2>2
<1>5. QED
  BY <1>4

(* A set of names that has with each the one above it has with each all     *)
(* those above it.                                                          *)
LEMMA ClosedUpwards ==
  ASSUME NEW S, S \subseteq Name \ {<<>>},
         \A p \in S : Len(p) = 1 \/ Front(p) \in S,
         NEW p \in Name, p # <<>>, NEW q \in S, AtOrAbove(p, q)
  PROVE  p \in S
<1>1. Len(q) \in Nat /\ q \in Name /\ Len(p) \in 1..Len(q) /\ p = SubSeq(q, 1, Len(p))
  BY NameFacts, AboveIsBeginning
<1> DEFINE Out == {n \in 1..Len(q) : SubSeq(q, 1, n) \notin S}
<1>2. SUFFICES ASSUME p \notin S
               PROVE  FALSE
  OBVIOUS
<1>3. Out \in SUBSET (1..Len(q)) /\ Out # {}
  BY <1>1, <1>2
<1>4. PICK m \in Out : \A k \in Out : k <= m
  <2> HIDE DEF Out
  <2> QED
    BY <1>1, <1>3, GreatestOf
<1>5. m \in 1..Len(q) /\ SubSeq(q, 1, m) \notin S
  OBVIOUS
<1>6. SubSeq(q, 1, Len(q)) = q
  BY <1>1, SubSeqFull DEF Name
<1>7. m + 1 \in 1..Len(q)
  <2>1. m # Len(q)
    BY <1>5, <1>6
  <2>2. QED
    BY <2>1, <1>1, <1>5
<1> DEFINE c == SubSeq(q, 1, m + 1)
<1>8. c \in S
  BY <1>4, <1>7
<1>9. c \in Name /\ c # <<>> /\ Len(c) = m + 1 /\ AtOrAbove(c, q)
  <2>1. m + 1 \in 0..Len(q) /\ q \in Name
    BY <1>1, <1>7
  <2>2. c \in Name /\ Len(c) = m + 1
    BY <2>1, PrefixFacts
  <2>3. AtOrAbove(c, q)
    BY <2>1, BeginningIsAbove
  <2>4. QED
    BY <1>8, <2>2, <2>3
<1>10. Front(c) \in S
  <2>1. Len(c) # 1
    BY <1>9, <1>5
  <2>2. QED
    BY <1>8, <2>1
<1>11. Front(c) \in Name /\ Len(Front(c)) = m /\ AtOrAbove(Front(c), c)
  <2> HIDE DEF c
  <2> QED
    BY <1>5, <1>9, FrontFacts DEF Above
<1>12. AtOrAbove(Front(c), q)
  <2> HIDE DEF c
  <2> QED
    BY <1>1, <1>9, <1>11, AtOrAboveOrder
<1>13. Front(c) = SubSeq(q, 1, m)
  <2> HIDE DEF c
  <2> QED
    BY <1>1, <1>11, <1>12, AboveIsBeginning
<1>14. QED
  BY <1>5, <1>10, <1>13

LEMMA TreeFacts ==
  ASSUME NEW f, IsTree(f), DOMAIN f \subseteq Name \ {<<>>},
         NEW p \in Name, p # <<>>, NEW q \in DOMAIN f
  PROVE  /\ AtOrAbove(p, q) => p \in DOMAIN f
         /\ Above(p, q) => IsDir(f, p)
<1>1. \A r \in DOMAIN f : Len(r) = 1 \/ Front(r) \in DOMAIN f
  BY DEF IsTree, IsDir
<1>2. ASSUME NEW r \in Name, r # <<>>, AtOrAbove(r, q)
      PROVE  r \in DOMAIN f
  <2> DEFINE S == DOMAIN f
  <2> HIDE DEF S
  <2>1. QED
    BY <1>1, <1>2, ClosedUpwards DEF S
<1>3. ASSUME Above(p, q)
      PROVE  IsDir(f, p)
  <2>1. PICK n \in Int : AtOrAbove(Append(p, n), q)
    BY <1>3, BelowIsAtChild
  <2>2. /\ Append(p, n) \in Name /\ Append(p, n) # <<>> /\ Front(Append(p, n)) = p
        /\ Len(Append(p, n)) = Len(p) + 1
    BY ChildFacts
  <2>3. Append(p, n) \in DOMAIN f
    BY <2>1, <2>2, <1>2
  <2>4. Len(p) \in Nat /\ Len(p) > 0
    BY NameFacts
  <2>5. Len(Append(p, n)) # 1
    BY <2>2, <2>4
  <2>6. QED
    BY <2>2, <2>3, <2>5 DEF IsTree
<1>4. QED
  BY <1>2, <1>3

LEMMA RootedFacts ==
  ASSUME NEW d, Rooted(d), Entries(d) \subseteq Name \ {<<>>},
         NEW p \in Name, p # <<>>, NEW q \in Entries(d)
  PROVE  /\ AtOrAbove(p, q) => p \in Entries(d)
         /\ Above(p, q) => CanDescend(d, p)
<1>1. ASSUME NEW r \in Entries(d)
      PROVE  Len(r) = 1 \/ Front(r) \in Entries(d)
  <2>1. r \in Name /\ Front(r) \in Name /\ Len(Front(r)) = Len(r) - 1 /\ Len(r) \in Nat
    BY FrontFacts, NameFacts
  <2>2. Front(r) = <<>> => Len(r) = 1
    BY <2>1, NameFacts
  <2>3. QED
    BY <2>2 DEF Rooted
<1>2. ASSUME NEW r \in Name, r # <<>>, AtOrAbove(r, q)
      PROVE  r \in Entries(d)
  <2> DEFINE S == Entries(d)
  <2> HIDE DEF S
  <2>1. QED
    BY <1>1, <1>2, ClosedUpwards DEF S
<1>3. ASSUME Above(p, q)
      PROVE  CanDescend(d, p)
  <2>1. PICK n \in Int : AtOrAbove(Append(p, n), q)
    BY <1>3, BelowIsAtChild
  <2>2. Append(p, n) \in Name /\ Append(p, n) # <<>> /\ Front(Append(p, n)) = p
    BY ChildFacts
  <2>3. Append(p, n) \in Entries(d)
    BY <2>1, <2>2, <1>2
  <2>4. p \in d.arrays
    BY <2>2, <2>3 DEF Rooted
  <2>5. p \in Entries(d)
    BY <1>2, <1>3 DEF Above
  <2>6. QED
    BY <2>4, <2>5 DEF CanDescend
<1>4. QED
  BY <1>2, <1>3

(* The database of a snapshot of a file system.                             *)
LEMMA SnapshotRooted ==
  ASSUME NEW f, TreeAssumption(f), NEW rules
  PROVE  LET d == DbOf(Snapshot(f, rules))
         IN /\ Rooted(d)
            /\ Entries(d) \subseteq DOMAIN f
            /\ DOMAIN d = {"data", "arrays"}
<1> DEFINE fcos == Snapshot(f, rules)
           ps == UNION {PathsTo(p) : p \in DOMAIN fcos}
           d == DbOf(fcos)
<1>1. DOMAIN fcos \subseteq DOMAIN f
  BY DEF Snapshot
<1>2. /\ Entries(d) = ps /\ d.arrays = {<<>>} \cup {Front(p) : p \in ps}
      /\ DOMAIN d = {"data", "arrays"}
  <2> HIDE DEF fcos
  <2> QED
    BY DEF DbOf, Entries
<1>3. DOMAIN f \subseteq Name \ {<<>>} /\ IsTree(f)
  BY FileTreeAssumption DEF TreeAssumption, Name
<1> HIDE DEF fcos
<1>4. ASSUME NEW p \in ps
      PROVE  p \in Name /\ p # <<>> /\ \E q \in DOMAIN fcos : AtOrAbove(p, q)
  <2>1. PICK q \in DOMAIN fcos : p \in PathsTo(q)
    OBVIOUS
  <2>2. PICK n \in 0..Len(q) : p = SubSeq(q, 1, n)
    BY <2>1 DEF PathsTo, Prefixes
  <2>3. q \in Name
    BY <1>1, <1>3
  <2>4. p \in Name /\ AtOrAbove(p, q)
    BY <2>2, <2>3, PrefixFacts, BeginningIsAbove
  <2>5. QED
    BY <2>1, <2>4 DEF PathsTo
<1>5. ASSUME NEW p \in Name, p # <<>>, NEW q \in DOMAIN fcos, AtOrAbove(p, q)
      PROVE  p \in ps
  <2>1. q \in Name
    BY <1>1, <1>3
  <2>2. Len(p) \in 0..Len(q) /\ p = SubSeq(q, 1, Len(p))
    BY <2>1, <1>5, AboveIsBeginning
  <2>3. p \in PathsTo(q)
    BY <2>2, <1>5 DEF PathsTo, Prefixes
  <2>4. QED
    BY <2>3
<1>6. ps \subseteq DOMAIN f
  BY <1>1, <1>3, <1>4, TreeFacts
<1>7. ASSUME NEW a \in d.arrays, a # <<>>
      PROVE  a \in Entries(d)
  <2>1. PICK p \in ps : a = Front(p)
    BY <1>2, <1>7
  <2>2. PICK q \in DOMAIN fcos : AtOrAbove(p, q)
    BY <1>4
  <2>3. p \in Name /\ p # <<>> /\ q \in Name
    BY <1>4, <1>1, <1>3
  <2>4. a \in Name /\ AtOrAbove(a, p)
    BY <2>1, <2>3, FrontFacts DEF Above
  <2>5. AtOrAbove(a, q)
    BY <2>2, <2>3, <2>4, AtOrAboveOrder
  <2>6. QED
    BY <2>4, <2>5, <1>5, <1>7, <1>2
<1>8. Rooted(d)
  <2>1. \A p \in Entries(d) : Front(p) \in d.arrays
    BY <1>2
  <2>2. QED
    BY <2>1, <1>7 DEF Rooted
<1>9. QED
  BY <1>2, <1>6, <1>8 DEF fcos

-----------------------------------------------------------------------------
(* The names in a directory.                                                *)

Sorted(names) == \A i, j \in DOMAIN names : i < j => names[i] < names[j]

(* A finite set of numbers has a greatest; by the size of the set.          *)
LEMMA GreatestOfFinite ==
  ASSUME NEW N \in SUBSET Int, IsFiniteSet(N), N # {}
  PROVE  \E m \in N : \A k \in N : k <= m
<1> DEFINE Has(M) == \E m \in M : \A k \in M : k <= m
           Bad == {c \in Nat : \E M \in SUBSET Int : /\ IsFiniteSet(M) /\ M # {}
                                                     /\ Cardinality(M) = c /\ ~Has(M)}
<1>1. SUFFICES ASSUME ~Has(N)
               PROVE  FALSE
  OBVIOUS
<1>2. Bad \in SUBSET Nat /\ Bad # {}
  BY <1>1, FS_CardinalityType
<1>3. PICK c \in Bad : \A k \in Bad : c <= k
  <2> HIDE DEF Bad
  <2> QED
    BY <1>2, LeastOf
<1>4. PICK M \in SUBSET Int : IsFiniteSet(M) /\ M # {} /\ Cardinality(M) = c /\ ~Has(M)
  BY <1>3
<1>5. PICK x \in M : TRUE
  BY <1>4
<1>6. IsFiniteSet(M \ {x}) /\ Cardinality(M \ {x}) = c - 1 /\ c \in Nat
  BY <1>4, FS_RemoveElement
<1>7. M \ {x} # {}
  <2>1. M \ {x} = {} => x \in M /\ \A k \in M : k <= x
    BY <1>4
  <2>2. QED
    BY <2>1, <1>4
<1>8. Has(M \ {x})
  <2>1. c - 1 \in Nat
    BY <1>6, <1>7, FS_CardinalityType
  <2>2. c - 1 \notin Bad
    BY <1>3, <1>6
  <2>3. QED
    BY <2>1, <2>2, <1>4, <1>6, <1>7
<1>9. PICK m \in M \ {x} : \A k \in M \ {x} : k <= m
  BY <1>8
<1>10. m \in Int /\ x \in Int
  BY <1>4
<1>11. CASE x <= m
  BY <1>9, <1>10, <1>11, <1>4
<1>12. CASE m <= x
  <2>1. \A k \in M : k \in Int /\ k <= x
    BY <1>9, <1>10, <1>12, <1>4
  <2>2. QED
    BY <2>1, <1>4
<1>13. QED
  BY <1>10, <1>11, <1>12

LEMMA AscendingExists ==
  ASSUME NEW N \in SUBSET Int, IsFiniteSet(N)
  PROVE  \E s \in [1 .. Cardinality(N) -> N] : Sorted(s)
<1> DEFINE Has(M) == \E s \in [1 .. Cardinality(M) -> M] : Sorted(s)
           Bad == {c \in Nat : \E M \in SUBSET Int : /\ IsFiniteSet(M)
                                                     /\ Cardinality(M) = c /\ ~Has(M)}
<1>1. SUFFICES ASSUME ~Has(N)
               PROVE  FALSE
  OBVIOUS
<1>2. Bad \in SUBSET Nat /\ Bad # {}
  <2>1. Cardinality(N) \in Nat
    BY FS_CardinalityType
  <2>2. Cardinality(N) \in Bad
    BY <1>1, <2>1
  <2>3. QED
    BY <2>2
<1>3. PICK c \in Bad : \A k \in Bad : c <= k
  <2> HIDE DEF Bad
  <2> QED
    BY <1>2, LeastOf
<1>4. PICK M \in SUBSET Int : IsFiniteSet(M) /\ Cardinality(M) = c /\ ~Has(M)
  BY <1>3
<1>5. c \in Nat
  BY <1>3
<1>6. CASE M = {}
  <2>1. c = 0
    BY <1>4, <1>6, FS_EmptySet
  <2>2. [i \in 1..0 |-> 0] \in [1..c -> M] /\ Sorted([i \in 1..0 |-> 0])
    BY <2>1 DEF Sorted
  <2>3. QED
    BY <2>2, <1>4
<1>7. CASE M # {}
  <2>1. PICK m \in M : \A k \in M : k <= m
    BY <1>4, <1>7, GreatestOfFinite
  <2> DEFINE L == M \ {m}
  <2>2. IsFiniteSet(L) /\ Cardinality(L) = c - 1 /\ L \in SUBSET Int
    BY <1>4, FS_RemoveElement
  <2>3. c - 1 \in Nat
    BY <2>2, FS_CardinalityType
  <2>4. c - 1 \notin Bad
    BY <1>3, <1>5
  <2>5. Has(L)
    BY <2>2, <2>3, <2>4
  <2>6. PICK s \in [1 .. c - 1 -> L] : Sorted(s)
    BY <2>2, <2>5
  <2> DEFINE t == [i \in 1 .. c |-> IF i < c THEN s[i] ELSE m]
  <2>7. t \in [1..c -> M]
    BY <2>3, <1>5
  <2>8. Sorted(t)
    <3> SUFFICES ASSUME NEW i \in 1..c, NEW j \in 1..c, i < j
                 PROVE  t[i] < t[j]
      BY DEF Sorted
    <3>1. i \in 1 .. c - 1 /\ i < c /\ t[i] = s[i] /\ s[i] \in L
      BY <1>5
    <3>2. CASE j < c
      <4>1. j \in 1 .. c - 1 /\ t[j] = s[j]
        BY <1>5, <3>2
      <4>2. s[i] < s[j]
        BY <2>6, <3>1, <4>1 DEF Sorted
      <4>3. QED
        BY <3>1, <4>1, <4>2
    <3>3. CASE ~(j < c)
      <4>1. t[j] = m
        BY <3>3
      <4>2. s[i] \in Int /\ m \in Int /\ s[i] <= m /\ s[i] # m
        BY <3>1, <2>1, <1>4
      <4>3. QED
        BY <3>1, <4>1, <4>2
    <3>4. QED
      BY <3>2, <3>3
  <2>9. QED
    BY <2>7, <2>8, <1>4
<1>8. QED
  BY <1>6, <1>7

LEMMA AscendingFacts ==
  ASSUME NEW N \in SUBSET Int, IsFiniteSet(N)
  PROVE  /\ Ascending(N) \in Seq(Int)
         /\ Sorted(Ascending(N))
         /\ \A n : n \in N <=> \E i \in DOMAIN Ascending(N) : Ascending(N)[i] = n
<1> DEFINE c == Cardinality(N)
           s == Ascending(N)
<1>1. c \in Nat
  BY FS_CardinalityType
<1>2. s \in [1..c -> N] /\ Sorted(s)
  BY AscendingExists DEF Ascending, Sorted
<1> HIDE DEF s
<1>3. s \in Seq(Int)
  <2>1. s \in [1..c -> Int]
    BY <1>2
  <2>2. QED
    BY <2>1, <1>1, SeqDef
<1>4. s \in Injection(1..c, N)
  <2>1. ASSUME NEW i \in 1..c, NEW j \in 1..c, s[i] = s[j]
        PROVE  i = j
    <3>1. s[i] \in Int /\ s[j] \in Int /\ DOMAIN s = 1..c
      BY <1>2
    <3>2. ~(i < j) /\ ~(j < i)
      BY <3>1, <2>1, <1>2 DEF Sorted
    <3>3. QED
      BY <3>2, <1>1
  <2>2. QED
    BY <2>1, <1>2 DEF Injection, IsInjective
<1>5. s \in Surjection(1..c, N)
  <2>1. IsFiniteSet(1..c) /\ Cardinality(1..c) = c
    BY <1>1, FS_Interval
  <2>2. QED
    BY <2>1, <1>4, FS_Injection
<1>6. \A n : n \in N <=> \E i \in DOMAIN s : s[i] = n
  BY <1>2, <1>5 DEF Surjection
<1>7. QED
  BY <1>2, <1>3, <1>6 DEF s

(* The objects S in directory d, as their iterator goes through them.       *)
LEMMA PeersFacts ==
  ASSUME NEW d \in Name, NEW S \in SUBSET (Name \ {<<>>}), IsFiniteSet(S),
         \A p \in S : Front(p) = d
  PROVE  /\ Peers(S) \in Seq(Int)
         /\ Sorted(Peers(S))
         /\ \A n \in Int : Append(d, n) \in S
                             <=> \E i \in DOMAIN Peers(S) : Peers(S)[i] = n
<1> DEFINE N == {p[Len(p)] : p \in S}
<1>1. N \in SUBSET Int
  BY FrontFacts
<1>2. IsFiniteSet(N)
  <2> DEFINE g == [p \in S |-> p[Len(p)]]
  <2>1. g \in Surjection(S, N)
    BY DEF Surjection
  <2>2. QED
    BY <2>1, FS_Surjection
<1>3. ASSUME NEW n \in Int
      PROVE  Append(d, n) \in S <=> n \in N
  <2>1. /\ Append(d, n) \in Name
        /\ Append(d, n)[Len(Append(d, n))] = n
    BY ChildFacts
  <2>2. \A p \in S : p = Append(d, p[Len(p)])
    BY FrontFacts
  <2>3. QED
    BY <2>1, <2>2
<1>4. QED
  BY <1>1, <1>2, <1>3, AscendingFacts DEF Peers

-----------------------------------------------------------------------------
(* Rules.                                                                   *)

(* All of G are entered, one after the other: what is left is of G, and     *)
(* stands for all of it.                                                    *)
Covers(stops, G) == /\ stops \subseteq G
                    /\ \A p \in G : \E q \in stops : AtOrAbove(q, p)

LEMMA AddToCovers ==
  ASSUME NEW G \in SUBSET Name, NEW stops, NEW x \in Name, Covers(stops, G)
  PROVE  Covers(AddTo(stops, x), G \cup {x})
<1>1. CASE \E q \in stops : AtOrAbove(q, x)
  BY <1>1 DEF AddTo, Covers
<1>2. CASE ~ \E q \in stops : AtOrAbove(q, x)
  <2>1. AddTo(stops, x) = {q \in stops : ~AtOrAbove(x, q)} \cup {x}
    BY <1>2 DEF AddTo
  <2>2. ASSUME NEW p \in G
        PROVE  \E q \in AddTo(stops, x) : AtOrAbove(q, p)
    <3>1. PICK q \in stops : AtOrAbove(q, p)
      BY DEF Covers
    <3>2. CASE AtOrAbove(x, q)
      <4>1. AtOrAbove(x, p)
        BY <3>1, <3>2, AtOrAboveOrder DEF Covers
      <4>2. QED
        BY <4>1, <2>1
    <3>3. CASE ~AtOrAbove(x, q)
      BY <3>1, <3>3, <2>1
    <3>4. QED
      BY <3>2, <3>3
  <2>3. \E q \in AddTo(stops, x) : AtOrAbove(q, x)
    BY <2>1, AtOrAboveOrder
  <2>4. AddTo(stops, x) \subseteq G \cup {x}
    BY <2>1 DEF Covers
  <2>5. QED
    BY <2>2, <2>3, <2>4 DEF Covers
<1>3. QED
  BY <1>1, <1>2

(* The recursion of FoldSet is one a function satisfies; by the size of the *)
(* sets it is defined for.                                                  *)
Folds(F, G, size) ==
  \A S \in SUBSET G : Cardinality(S) <= size =>
    F[S] = IF S = {} THEN {}
           ELSE AddTo(F[S \ {CHOOSE x \in S : TRUE}], CHOOSE x \in S : TRUE)

LEMMA FoldExists ==
  ASSUME NEW G, IsFiniteSet(G), NEW size \in Nat
  PROVE  \E F : F = [S \in SUBSET G |-> F[S]] /\ Folds(F, G, size)
<1> DEFINE Has(c) == \E F : F = [S \in SUBSET G |-> F[S]] /\ Folds(F, G, c)
           Bad == {c \in Nat : ~Has(c)}
<1>1. SUFFICES ASSUME ~Has(size)
               PROVE  FALSE
  OBVIOUS
<1>2. Bad \in SUBSET Nat /\ Bad # {}
  BY <1>1
<1>3. PICK c \in Bad : \A k \in Bad : c <= k
  <2> HIDE DEF Bad
  <2> QED
    BY <1>2, LeastOf
<1>4. c \in Nat /\ ~Has(c)
  BY <1>3
<1>5. \A S \in SUBSET G : IsFiniteSet(S) /\ Cardinality(S) \in Nat
  BY FS_Subset, FS_CardinalityType
<1>6. CASE c = 0
  <2> DEFINE F == [S \in SUBSET G |-> {}]
  <2>1. F = [S \in SUBSET G |-> F[S]]
    OBVIOUS
  <2>2. Folds(F, G, 0)
    <3>1. \A S \in SUBSET G : Cardinality(S) <= 0 => S = {}
      BY <1>5, FS_EmptySet
    <3>2. QED
      BY <3>1 DEF Folds
  <2>3. Has(0)
    BY <2>1, <2>2
  <2>4. QED
    BY <2>3, <1>4, <1>6
<1>7. CASE c # 0
  <2>1. c - 1 \in Nat /\ c - 1 \notin Bad
    <3>1. c - 1 \in Nat /\ ~(c <= c - 1)
      BY <1>4, <1>7
    <3> HIDE DEF Bad
    <3> QED
      BY <3>1, <1>3
  <2>2. Has(c - 1)
    BY <2>1
  <2>3. PICK F : F = [S \in SUBSET G |-> F[S]] /\ Folds(F, G, c - 1)
    BY <2>2
  <2> DEFINE E == [S \in SUBSET G |->
                     IF S = {} THEN {}
                     ELSE AddTo(F[S \ {CHOOSE x \in S : TRUE}], CHOOSE x \in S : TRUE)]
  <2>4. ASSUME NEW S \in SUBSET G, Cardinality(S) <= c - 1
        PROVE  E[S] = F[S]
    BY <2>3, <2>4 DEF Folds
  <2>5. Folds(E, G, c)
    <3> SUFFICES ASSUME NEW S \in SUBSET G, Cardinality(S) <= c, S # {}
                 PROVE  E[S] = AddTo(E[S \ {CHOOSE x \in S : TRUE}], CHOOSE x \in S : TRUE)
      BY DEF Folds
    <3> DEFINE x == CHOOSE x \in S : TRUE
    <3>1. x \in S
      OBVIOUS
    <3>2. Cardinality(S \ {x}) = Cardinality(S) - 1
      BY <3>1, <1>5, FS_RemoveElement
    <3>3. Cardinality(S \ {x}) <= c - 1
      BY <3>2, <1>5, <1>4
    <3>4. S \ {x} \in SUBSET G
      OBVIOUS
    <3>5. E[S \ {x}] = F[S \ {x}]
      <4> HIDE DEF E, x
      <4> QED
        BY <2>4, <3>3, <3>4
    <3>6. E[S] = AddTo(F[S \ {x}], x)
      OBVIOUS
    <3>7. QED
      BY <3>5, <3>6
  <2>6. E = [S \in SUBSET G |-> E[S]]
    OBVIOUS
  <2>7. Has(c)
    <3> HIDE DEF E
    <3> QED
      BY <2>5, <2>6
  <2>8. QED
    BY <2>7, <1>4
<1>8. QED
  BY <1>6, <1>7

LEMMA FoldCovers ==
  ASSUME NEW G \in SUBSET Name, IsFiniteSet(G), NEW F, Folds(F, G, Cardinality(G))
  PROVE  Covers(F[G], G)
<1> DEFINE Bad == {c \in Nat : \E S \in SUBSET G : Cardinality(S) = c /\ ~Covers(F[S], S)}
<1>1. SUFFICES ASSUME ~Covers(F[G], G)
               PROVE  FALSE
  OBVIOUS
<1>2. \A S \in SUBSET G : /\ IsFiniteSet(S) /\ Cardinality(S) \in Nat
                          /\ Cardinality(S) <= Cardinality(G)
  BY FS_Subset, FS_CardinalityType
<1>3. Bad \in SUBSET Nat /\ Bad # {}
  BY <1>1, <1>2
<1>4. PICK c \in Bad : \A k \in Bad : c <= k
  <2> HIDE DEF Bad
  <2> QED
    BY <1>3, LeastOf
<1>5. PICK S \in SUBSET G : Cardinality(S) = c /\ ~Covers(F[S], S)
  BY <1>4
<1>6. S # {}
  <2>1. F[{}] = {}
    BY <1>2 DEF Folds
  <2>2. Covers(F[{}], {})
    BY <2>1 DEF Covers
  <2>3. QED
    BY <2>2, <1>5
<1> DEFINE x == CHOOSE x \in S : TRUE
<1>7. x \in S
  BY <1>6
<1>8. F[S] = AddTo(F[S \ {x}], x)
  BY <1>2, <1>6 DEF Folds
<1> HIDE DEF x
<1>9. Cardinality(S \ {x}) = c - 1 /\ c \in Nat /\ Cardinality(S \ {x}) \in Nat /\ S \ {x} \in SUBSET G
  BY <1>2, <1>5, <1>7, FS_RemoveElement
<1>10. Covers(F[S \ {x}], S \ {x})
  <2>1. c - 1 \in Nat /\ c - 1 \notin Bad
    BY <1>4, <1>9
  <2>2. QED
    BY <2>1, <1>9
<1>11. Covers(AddTo(F[S \ {x}], x), (S \ {x}) \cup {x})
  BY <1>7, <1>10, AddToCovers
<1>12. (S \ {x}) \cup {x} = S
  BY <1>7
<1>13. QED
  BY <1>5, <1>8, <1>11, <1>12

LEMMA StopsOfCovers ==
  ASSUME NEW policy, PolicyAssumption(policy), NEW start
  PROVE  Covers(StopsOf(policy, start), {p \in StopList(policy) : Above(start, p)})
<1> DEFINE G == {p \in StopList(policy) : Above(start, p)}
<1>1. G \in SUBSET Name /\ IsFiniteSet(G)
  BY FS_Subset DEF PolicyAssumption, Name
<1> DEFINE Iterates(F) == F = [S \in SUBSET G |->
                     IF S = {} THEN {}
                     ELSE AddTo(F[S \ {CHOOSE x \in S : TRUE}], CHOOSE x \in S : TRUE)]
           iter == CHOOSE F : Iterates(F)
<1>2. StopsOf(policy, start) = iter[G]
  BY DEF StopsOf, FoldSet, MapThenFoldSet
<1> HIDE DEF G
<1>3. \A S \in SUBSET G : /\ Cardinality(S) \in Nat /\ Cardinality(S) <= Cardinality(G)
  BY <1>1, FS_Subset, FS_CardinalityType
<1>4. PICK F : F = [S \in SUBSET G |-> F[S]] /\ Folds(F, G, Cardinality(G))
  BY <1>1, <1>3, FoldExists
<1>5. Iterates(F)
  BY <1>3, <1>4 DEF Folds
<1>6. Iterates(iter)
  <2> HIDE DEF Iterates
  <2> QED
    BY <1>5
<1> HIDE DEF iter
<1>7. Folds(iter, G, Cardinality(G))
  BY <1>6 DEF Folds
<1>8. Covers(iter[G], G)
  BY <1>1, <1>7, FoldCovers
<1>9. QED
  BY <1>2, <1>8 DEF G

(* What a walk comes to: the start point, and going down what the rule does *)
(* not stop at.                                                             *)
LEMMA ReachedAbove ==
  ASSUME NEW s, s.start \in Name, NEW p \in Name, NEW q \in Name,
         Reaches(s, q), AtOrAbove(s.start, p), AtOrAbove(p, q)
  PROVE  Reaches(s, p)
<1>1. Len(p) \in Nat /\ Len(q) \in Nat /\ Len(s.start) \in Nat /\ Len(p) <= Len(q)
  BY NameFacts, AboveFacts
<1>2. ASSUME NEW n \in Len(s.start)..Len(p)
      PROVE  ~ShouldStopDescent(s, SubSeq(p, 1, n))
  <2>1. n \in 0..Len(p) /\ n \in Len(s.start)..Len(q)
    BY <1>1
  <2>2. /\ SubSeq(p, 1, n) \in Name /\ Len(SubSeq(p, 1, n)) = n
        /\ AtOrAbove(SubSeq(p, 1, n), p)
    BY <2>1, PrefixFacts, BeginningIsAbove
  <2>3. AtOrAbove(SubSeq(p, 1, n), q)
    BY <2>2, AtOrAboveOrder
  <2>4. SubSeq(p, 1, n) = SubSeq(q, 1, n)
    BY <2>2, <2>3, AboveIsBeginning
  <2>5. QED
    BY <2>1, <2>4 DEF Reaches
<1>3. QED
  BY <1>2 DEF Reaches

LEMMA ReachedNotStopped ==
  ASSUME NEW s, s.start \in Name, NEW p \in Name, Reaches(s, p)
  PROVE  ~ShouldStopDescent(s, p)
<1>1. Len(p) \in Len(s.start)..Len(p)
  BY NameFacts, AboveFacts DEF Reaches
<1>2. SubSeq(p, 1, Len(p)) = p
  BY SubSeqFull DEF Name
<1>3. QED
  BY <1>1, <1>2 DEF Reaches

LEMMA ReachesChild ==
  ASSUME NEW s, s.start \in Name, NEW d \in Name, NEW n \in Int,
         Reaches(s, d), ~ShouldStopDescent(s, Append(d, n))
  PROVE  Reaches(s, Append(d, n))
<1> DEFINE c == Append(d, n)
<1>1. c \in Name /\ Len(c) = Len(d) + 1 /\ AtOrAbove(d, c)
  BY ChildFacts DEF Above
<1>2. ~ShouldStopDescent(s, c)
  OBVIOUS
<1> HIDE DEF c
<1>3. Len(d) \in Nat /\ Len(s.start) \in Nat /\ Len(s.start) <= Len(d)
  BY NameFacts, AboveFacts DEF Reaches
<1>4. AtOrAbove(s.start, c)
  BY <1>1, AtOrAboveOrder DEF Reaches
<1>5. ASSUME NEW m \in Len(s.start)..Len(c)
      PROVE  ~ShouldStopDescent(s, SubSeq(c, 1, m))
  <2>1. CASE m = Len(c)
    <3>1. SubSeq(c, 1, Len(c)) = c
      BY <1>1, SubSeqFull DEF Name
    <3>2. QED
      BY <2>1, <3>1, <1>2
  <2>2. CASE m # Len(c)
    <3>1. m \in Len(s.start)..Len(d) /\ m \in 0..Len(d) /\ m \in 0..Len(c)
      BY <2>2, <1>1, <1>3
    <3>2. /\ SubSeq(d, 1, m) \in Name /\ Len(SubSeq(d, 1, m)) = m
          /\ AtOrAbove(SubSeq(d, 1, m), d)
      BY <3>1, PrefixFacts, BeginningIsAbove
    <3>3. AtOrAbove(SubSeq(d, 1, m), c)
      BY <3>2, <1>1, AtOrAboveOrder
    <3>4. SubSeq(d, 1, m) = SubSeq(c, 1, m)
      BY <3>2, <3>3, <1>1, AboveIsBeginning
    <3>5. QED
      BY <3>1, <3>4 DEF Reaches
  <2>3. QED
    BY <2>1, <2>2
<1>6. Reaches(s, c)
  BY <1>4, <1>5 DEF Reaches
<1>7. QED
  BY <1>6 DEF c

LEMMA RuleFacts ==
  ASSUME NEW policy, PolicyAssumption(policy), NEW s \in CreateFCOSpecs(policy)
  PROVE  /\ s.start \in Name \ {<<>>} /\ s.start \in StopList(policy)
         /\ "type" \in s.props
         /\ Reaches(s, s.start)
         /\ s.depth # 0 => Covers(s.stops, {p \in StopList(policy) : Above(s.start, p)})
         /\ s.depth = 0 \/ s.depth = RecurseInfinite \/ s.depth > 0
<1>1. PICK start \in DOMAIN policy.rules :
        s = [start |-> start,
             depth |-> policy.rules[start].depth,
             stops |-> IF policy.rules[start].depth = 0 THEN {} ELSE StopsOf(policy, start),
             props |-> policy.rules[start].props \cup {"type"}]
  BY DEF CreateFCOSpecs
<1>2. /\ s.start = start /\ s.depth = policy.rules[start].depth
      /\ s.depth # 0 => s.stops = StopsOf(policy, start)
      /\ s.depth = 0 => s.stops = {}
      /\ "type" \in s.props
  BY <1>1
<1>3. s.start \in Name \ {<<>>} /\ s.start \in StopList(policy)
  BY <1>2 DEF StopList, PolicyAssumption, Name
<1>4. s.depth \in Nat \cup {RecurseInfinite}
  BY <1>2 DEF PolicyAssumption
<1>5. s.depth # 0 => Covers(s.stops, {p \in StopList(policy) : Above(s.start, p)})
  BY <1>2, StopsOfCovers
<1>6. ~ShouldStopDescent(s, s.start)
  <2>1. s.start \notin s.stops
    BY <1>2, <1>5 DEF Covers, Above
  <2>2. ~(s.depth # RecurseInfinite /\ Len(s.start) - Len(s.start) > s.depth)
    BY <1>3, <1>4, NameFacts
  <2>3. QED
    BY <2>1, <2>2 DEF ShouldStopDescent
<1>7. Reaches(s, s.start)
  <2>1. \A n \in Len(s.start)..Len(s.start) : SubSeq(s.start, 1, n) = s.start
    BY <1>3, NameFacts, SubSeqFull DEF Name
  <2>2. QED
    BY <1>3, <1>6, <2>1, AtOrAboveOrder DEF Reaches
<1>8. QED
  BY <1>2, <1>3, <1>4, <1>5, <1>7

LEMMA OneRuleAtStart ==
  ASSUME NEW policy, NEW s \in CreateFCOSpecs(policy), NEW t \in CreateFCOSpecs(policy),
         s.start = t.start
  PROVE  s = t
BY DEF CreateFCOSpecs

(* The rules that the parser makes of a policy divide the objects among     *)
(* them: none is reached by two, however the rules lie inside each other,   *)
(* since the start point of the inner one is at or below a stop point of    *)
(* the outer one, or below its depth.                                       *)
THEOREM OneRuleReaches ==
  ASSUME NEW policy, PolicyAssumption(policy), NEW s \in CreateFCOSpecs(policy),
         NEW t \in CreateFCOSpecs(policy), NEW p \in Name, Reaches(s, p), Reaches(t, p)
  PROVE  s = t
<1>1. ASSUME NEW a \in CreateFCOSpecs(policy), NEW b \in CreateFCOSpecs(policy),
             Reaches(a, p), Reaches(b, p), Len(a.start) <= Len(b.start)
      PROVE  a.start = b.start
  <2>1. /\ a.start \in Name /\ b.start \in Name /\ b.start \in StopList(policy)
        /\ AtOrAbove(a.start, p) /\ AtOrAbove(b.start, p)
    BY <1>1, RuleFacts DEF Reaches
  <2>2. AtOrAbove(a.start, b.start)
    BY <1>1, <2>1, AboveSame
  <2>3. Reaches(a, b.start)
    BY <1>1, <2>1, <2>2, ReachedAbove
  <2>4. SUFFICES ASSUME a.start # b.start
                 PROVE  FALSE
    OBVIOUS
  <2>5. Above(a.start, b.start) /\ Len(a.start) < Len(b.start)
    BY <2>1, <2>2, <2>4, AboveFacts DEF Above
  <2>6. CASE a.depth = 0
    <3>1. Len(b.start) \in Nat /\ Len(a.start) \in Nat
      BY <2>1, NameFacts
    <3>2. \A m, n \in Nat : m < n => n - m > 0
      OBVIOUS
    <3>3. Len(b.start) - Len(a.start) > 0
      BY <3>1, <3>2, <2>5
    <3>4. a.depth # RecurseInfinite
      BY <2>6 DEF RecurseInfinite
    <3>5. QED
      BY <3>3, <3>4, <2>6, <2>1, <2>3, ReachedNotStopped DEF ShouldStopDescent
  <2>7. CASE a.depth # 0
    <3>1. Covers(a.stops, {q \in StopList(policy) : Above(a.start, q)})
      BY <2>7, <1>1, RuleFacts
    <3>2. PICK q \in a.stops : AtOrAbove(q, b.start)
      BY <3>1, <2>1, <2>5 DEF Covers
    <3>3. q \in StopList(policy) /\ Above(a.start, q)
      BY <3>1, <3>2 DEF Covers
    <3>4. q \in Name
      BY <3>3 DEF PolicyAssumption, Name
    <3>5. Reaches(a, q)
      BY <2>1, <2>3, <3>2, <3>3, <3>4, ReachedAbove DEF Above
    <3>6. QED
      BY <2>1, <3>2, <3>4, <3>5, ReachedNotStopped DEF ShouldStopDescent
  <2>8. QED
    BY <2>6, <2>7
<1>2. Len(s.start) \in Nat /\ Len(t.start) \in Nat
  BY RuleFacts, NameFacts
<1>3. s.start = t.start
  BY <1>1, <1>2
<1>4. QED
  BY <1>3, OneRuleAtStart

-----------------------------------------------------------------------------
(* Databases.                                                               *)

(* What every database of a command is: its two parts, whose entries hang   *)
(* from arrays of entries.                                                  *)
IsDb(d) == /\ d = [data |-> d.data, arrays |-> d.arrays]
           /\ d.data = [p \in Entries(d) |-> d.data[p]]
           /\ Entries(d) \subseteq Name \ {<<>>}
           /\ <<>> \in d.arrays
           /\ Rooted(d)

(* d and e hold the same, but perhaps at p.                                 *)
SameBut(d, e, p) == \A q : q # p => /\ HasFCOData(d, q) <=> HasFCOData(e, q)
                                    /\ HasFCOData(d, q) => d.data[q] = e.data[q]
Same(d, e) == \A q : /\ HasFCOData(d, q) <=> HasFCOData(e, q)
                     /\ HasFCOData(d, q) => d.data[q] = e.data[q]

LEMMA PrefixSets ==
  ASSUME NEW p \in Name
  PROVE  /\ \A q : q \in Prefixes(p) <=> q \in Name /\ AtOrAbove(q, p)
         /\ \A q : q \in PathsTo(p) <=> q \in Name \ {<<>>} /\ AtOrAbove(q, p)
<1>1. ASSUME NEW q \in Prefixes(p)
      PROVE  q \in Name /\ AtOrAbove(q, p)
  BY <1>1, PrefixFacts, BeginningIsAbove DEF Prefixes
<1>2. ASSUME NEW q \in Name, AtOrAbove(q, p)
      PROVE  q \in Prefixes(p)
  BY <1>2, AboveIsBeginning DEF Prefixes
<1>3. QED
  BY <1>1, <1>2 DEF PathsTo

(* An FCO is entered at p, with the entries and the arrays above it.        *)
LEMMA CreateAndSet ==
  ASSUME NEW d, IsDb(d), NEW p \in Name, p # <<>>, NEW f, f # NoData
  PROVE  LET e == SetFCOData(CreatePath(d, p), p, f)
         IN /\ IsDb(e)
            /\ Entries(e) = Entries(d) \cup PathsTo(p)
            /\ e.arrays = d.arrays \cup Prefixes(Front(p))
            /\ HasFCOData(e, p) /\ e.data[p] = f
            /\ SameBut(d, e, p)
<1> DEFINE c == CreatePath(d, p)
           e == SetFCOData(c, p, f)
<1>1. c = [data |-> WithEntries(d, PathsTo(p)), arrays |-> d.arrays \cup Prefixes(Front(p))]
  BY DEF CreatePath
<1>2. p \in PathsTo(p)
  BY PrefixSets, AtOrAboveOrder
<1>3. /\ c.data = WithEntries(d, PathsTo(p)) /\ c.arrays = d.arrays \cup Prefixes(Front(p))
      /\ DOMAIN c = {"data", "arrays"}
      /\ DOMAIN c.data = Entries(d) \cup PathsTo(p)
      /\ \A q \in DOMAIN c.data : c.data[q] = IF q \in Entries(d) THEN d.data[q] ELSE NoData
  BY <1>1 DEF WithEntries
<1>4. /\ e.data = [c.data EXCEPT ![p] = f] /\ e.arrays = c.arrays
      /\ e = [data |-> e.data, arrays |-> e.arrays]
  <2>1. c = [data |-> c.data, arrays |-> c.arrays]
    BY <1>1, <1>3
  <2> HIDE DEF c
  <2>2. QED
    BY <2>1 DEF SetFCOData
<1> HIDE DEF c
<1>5. /\ Entries(e) = Entries(d) \cup PathsTo(p)
      /\ e.arrays = d.arrays \cup Prefixes(Front(p))
      /\ e.data[p] = f
      /\ \A q \in Entries(e) : q # p => e.data[q] = IF q \in Entries(d) THEN d.data[q] ELSE NoData
      /\ e.data = [q \in Entries(e) |-> e.data[q]]
  BY <1>2, <1>3, <1>4 DEF Entries
<1> HIDE DEF e
<1>6. Front(p) \in Name /\ Above(Front(p), p)
  BY FrontFacts
<1>7. ASSUME NEW q \in Entries(e)
      PROVE  q \in Name \ {<<>>} /\ Front(q) \in e.arrays
  <2>1. CASE q \in Entries(d)
    BY <2>1, <1>5 DEF IsDb, Rooted
  <2>2. CASE q \in PathsTo(p)
    <3>1. q \in Name \ {<<>>} /\ AtOrAbove(q, p)
      BY <2>2, PrefixSets
    <3>2. Front(q) \in Name /\ Above(Front(q), q)
      BY <3>1, FrontFacts
    <3>3. Above(Front(q), p)
      BY <3>1, <3>2, AtOrAboveOrder, AboveFacts, NameFacts DEF Above
    <3>4. AtOrAbove(Front(q), Front(p))
      BY <3>2, <3>3, AboveChild
    <3>5. QED
      BY <3>1, <3>2, <3>4, <1>5, <1>6, PrefixSets
  <2>3. QED
    BY <2>1, <2>2, <1>5
<1>8. ASSUME NEW a \in e.arrays \ {<<>>}
      PROVE  a \in Entries(e)
  <2>1. CASE a \in d.arrays
    BY <2>1, <1>5, <1>8 DEF IsDb, Rooted
  <2>2. CASE a \in Prefixes(Front(p))
    <3>1. a \in Name /\ AtOrAbove(a, Front(p))
      BY <2>2, <1>6, PrefixSets
    <3>2. AtOrAbove(a, p)
      BY <3>1, <1>6, AtOrAboveOrder DEF Above
    <3>3. QED
      BY <3>1, <3>2, <1>5, <1>8, PrefixSets
  <2>3. QED
    BY <2>1, <2>2, <1>5
<1>9. IsDb(e)
  BY <1>4, <1>5, <1>7, <1>8 DEF IsDb, Rooted
<1>10. HasFCOData(e, p)
  BY <1>2, <1>5 DEF HasFCOData
<1>11. SameBut(d, e, p)
  BY <1>5 DEF SameBut, HasFCOData
<1>12. QED
  BY <1>5, <1>9, <1>10, <1>11 DEF e, c

(* An FCO is replaced.                                                      *)
LEMMA SetOver ==
  ASSUME NEW d, IsDb(d), NEW p \in Entries(d), NEW f
  PROVE  LET e == SetFCOData(d, p, f)
         IN /\ IsDb(e) /\ Entries(e) = Entries(d) /\ e.arrays = d.arrays
            /\ e.data[p] = f
            /\ HasFCOData(e, p) <=> f # NoData
            /\ SameBut(d, e, p)
<1> DEFINE e == SetFCOData(d, p, f)
<1>1. /\ e.data = [d.data EXCEPT ![p] = f] /\ e.arrays = d.arrays
      /\ e = [data |-> e.data, arrays |-> e.arrays]
  BY DEF SetFCOData, IsDb
<1> HIDE DEF e
<1>2. /\ Entries(e) = Entries(d) /\ e.data[p] = f
      /\ e.data = [q \in Entries(e) |-> e.data[q]]
      /\ \A q \in Entries(d) : q # p => e.data[q] = d.data[q]
  BY <1>1 DEF Entries, IsDb
<1>3. IsDb(e)
  BY <1>1, <1>2 DEF IsDb, Rooted
<1>4. QED
  BY <1>1, <1>2, <1>3 DEF e, SameBut, HasFCOData

(* An FCO is entered at p, into the array above it, whether there was an    *)
(* entry or not.                                                            *)
LEMMA FcoAdded ==
  ASSUME NEW d, IsDb(d), NEW p \in Name, p # <<>>, Front(p) \in d.arrays, NEW f, f # NoData
  PROVE  LET e == AddFCO(d, p, f)
         IN /\ IsDb(e) /\ Entries(e) = Entries(d) \cup {p} /\ e.arrays = d.arrays
            /\ HasFCOData(e, p) /\ e.data[p] = f
            /\ SameBut(d, e, p)
<1> DEFINE c == [d EXCEPT !.data = WithEntries(d, {p})]
           e == SetFCOData(c, p, f)
<1>1. /\ c = [data |-> WithEntries(d, {p}), arrays |-> d.arrays]
      /\ c.data = WithEntries(d, {p}) /\ c.arrays = d.arrays
  <2> DEFINE new == WithEntries(d, {p})
  <2>1. d = [data |-> d.data, arrays |-> d.arrays]
    BY DEF IsDb
  <2> HIDE DEF new
  <2>2. [d EXCEPT !.data = new] = [data |-> new, arrays |-> d.arrays]
    BY <2>1
  <2>3. QED
    BY <2>2 DEF new
<1> HIDE DEF c
<1>2. /\ DOMAIN c.data = Entries(d) \cup {p}
      /\ \A q \in Entries(d) : c.data[q] = d.data[q]
  BY <1>1 DEF WithEntries
<1>3. /\ e.data = [c.data EXCEPT ![p] = f] /\ e.arrays = c.arrays
      /\ e = [data |-> e.data, arrays |-> e.arrays]
  <2>1. c = [data |-> c.data, arrays |-> c.arrays]
    BY <1>1
  <2>2. QED
    BY <2>1 DEF SetFCOData
<1> HIDE DEF e
<1>4. /\ Entries(e) = Entries(d) \cup {p} /\ e.arrays = d.arrays
      /\ e.data[p] = f
      /\ \A q \in Entries(d) : q # p => e.data[q] = d.data[q]
      /\ e.data = [q \in Entries(e) |-> e.data[q]]
  BY <1>1, <1>2, <1>3 DEF Entries
<1>5. IsDb(e)
  BY <1>3, <1>4 DEF IsDb, Rooted
<1>6. HasFCOData(e, p) /\ SameBut(d, e, p)
  BY <1>4 DEF HasFCOData, SameBut
<1>7. QED
  BY <1>4, <1>5, <1>6 DEF e, c, AddFCO

(* An entry gets a child array.                                             *)
LEMMA ArrayAdded ==
  ASSUME NEW d, IsDb(d), NEW p \in Entries(d)
  PROVE  LET e == AddChildArray(d, p)
         IN /\ IsDb(e) /\ Entries(e) = Entries(d) /\ e.arrays = d.arrays \cup {p}
            /\ e.data = d.data /\ Same(d, e)
<1> DEFINE e == AddChildArray(d, p)
           A == d.arrays \cup {p}
<1>1. e = [d EXCEPT !.arrays = A] /\ d = [data |-> d.data, arrays |-> d.arrays]
  BY DEF AddChildArray, IsDb
<1> HIDE DEF A, e
<1>2. e.data = d.data /\ e.arrays = A /\ e = [data |-> e.data, arrays |-> e.arrays]
  BY <1>1
<1>3. Entries(e) = Entries(d)
  BY <1>2 DEF Entries
<1>4. IsDb(e)
  BY <1>2, <1>3 DEF IsDb, Rooted, A
<1>5. QED
  BY <1>2, <1>3, <1>4 DEF e, A, Same, HasFCOData

(* An array that is empty is taken away, and then the entry, if it is there *)
(* for nothing.                                                             *)
LEMMA ArrayRemoved ==
  ASSUME NEW d, IsDb(d), NEW p \in Entries(d), Children(d, p) = {}
  PROVE  LET e == RemoveChildArray(d, p)
         IN /\ IsDb(e) /\ Entries(e) = Entries(d) /\ e.arrays = d.arrays \ {p}
            /\ e.data = d.data /\ Same(d, e)
<1> DEFINE e == RemoveChildArray(d, p)
<1>1. /\ e.data = d.data /\ e.arrays = d.arrays \ {p}
      /\ e = [data |-> e.data, arrays |-> e.arrays]
  <2>1. d = [data |-> d.data, arrays |-> d.arrays] /\ DOMAIN d = {"data", "arrays"}
    BY DEF IsDb
  <2> DEFINE A == d.arrays \ {p}
  <2>2. e = [d EXCEPT !.arrays = A]
    BY DEF RemoveChildArray
  <2> HIDE DEF A, e
  <2>3. e.data = d.data /\ e.arrays = A /\ e = [data |-> e.data, arrays |-> e.arrays]
    BY <2>1, <2>2
  <2>4. QED
    BY <2>3 DEF A
<1> HIDE DEF e
<1>2. Entries(e) = Entries(d)
  BY <1>1 DEF Entries
<1>3. \A q \in Entries(d) : Front(q) # p
  BY DEF Children
<1>4. p # <<>>
  BY DEF IsDb
<1>5. IsDb(e)
  BY <1>1, <1>2, <1>3, <1>4 DEF IsDb, Rooted
<1>6. QED
  BY <1>1, <1>2, <1>5 DEF e, Same, HasFCOData

LEMMA EntryRemoved ==
  ASSUME NEW d, IsDb(d), NEW p \in Entries(d), p \notin d.arrays
  PROVE  LET e == RemoveFCO(d, p)
         IN /\ IsDb(e) /\ Entries(e) = Entries(d) \ {p} /\ e.arrays = d.arrays
            /\ \A q \in Entries(e) : e.data[q] = d.data[q]
            /\ SameBut(d, e, p) /\ ~HasFCOData(e, p)
            /\ ~HasFCOData(d, p) => Same(d, e)
<1> DEFINE e == RemoveFCO(d, p)
<1>1. /\ e.data = [q \in Entries(d) \ {p} |-> d.data[q]] /\ e.arrays = d.arrays
      /\ e = [data |-> e.data, arrays |-> e.arrays]
  BY DEF RemoveFCO, IsDb
<1> HIDE DEF e
<1>2. /\ Entries(e) = Entries(d) \ {p}
      /\ \A q \in Entries(e) : e.data[q] = d.data[q]
      /\ e.data = [q \in Entries(e) |-> e.data[q]]
  BY <1>1 DEF Entries
<1>3. IsDb(e)
  BY <1>1, <1>2 DEF IsDb, Rooted
<1>4. SameBut(d, e, p) /\ ~HasFCOData(e, p)
  BY <1>2 DEF SameBut, HasFCOData
<1>5. ~HasFCOData(d, p) => Same(d, e)
  BY <1>4 DEF Same, SameBut
<1>6. QED
  BY <1>1, <1>2, <1>3, <1>4, <1>5 DEF e

(* Tidy, but that the array at p may be empty.                              *)
TidyBut(d, p) ==
  \A q \in Entries(d) : /\ CanDescend(d, q) /\ q # p => Children(d, q) # {}
                        /\ CanDescend(d, q) \/ HasFCOData(d, q)

LEMMA TidyAtRoot ==
  ASSUME NEW d, IsDb(d)
  PROVE  /\ TidyBut(d, <<>>) => Tidy(d)
         /\ \A p : Tidy(d) => TidyBut(d, p)
BY DEF Tidy, TidyBut, IsDb

(* An entry goes: at most the array above it is left empty.                 *)
LEMMA TidyWithout ==
  ASSUME NEW d, IsDb(d), NEW p \in Entries(d), p \notin d.arrays, NEW e, Entries(e) = Entries(d) \ {p},
         e.arrays = d.arrays,
         \A q \in Entries(e) : /\ CanDescend(d, q) => Children(d, q) # {}
                               /\ CanDescend(e, q) \/ HasFCOData(e, q)
  PROVE  TidyBut(e, Front(p))
<1>1. ASSUME NEW q \in Entries(e), CanDescend(e, q), q # Front(p)
      PROVE  Children(e, q) # {}
  <2>1. CanDescend(d, q)
    BY <1>1 DEF CanDescend
  <2>2. PICK r \in Entries(d) : Front(r) = q
    BY <2>1 DEF Children
  <2>3. r # p
    BY <2>2, <1>1
  <2>4. r \in Entries(e)
    BY <2>2, <2>3
  <2>5. QED
    BY <2>2, <2>4 DEF Children
<1>2. QED
  BY <1>1 DEF TidyBut

LEMMA RemoveIfEmptyFacts ==
  ASSUME NEW d, IsDb(d), NEW p \in Name, p # <<>>
  PROVE  /\ IsDb(RemoveIfEmpty(d, p))
         /\ Same(d, RemoveIfEmpty(d, p))
         /\ Entries(RemoveIfEmpty(d, p)) \subseteq Entries(d)
         /\ TidyBut(d, p) => TidyBut(RemoveIfEmpty(d, p), Front(p))
<1>1. CASE ~CanRemoveChildArray(d, p)
  <2>1. RemoveIfEmpty(d, p) = d
    BY <1>1 DEF RemoveIfEmpty
  <2>2. TidyBut(d, p) => TidyBut(d, Front(p))
    BY <1>1 DEF TidyBut, CanRemoveChildArray, CanDescend
  <2>3. QED
    BY <2>1, <2>2 DEF Same
<1>2. CASE CanRemoveChildArray(d, p)
  <2> DEFINE e == RemoveChildArray(d, p)
             g == RemoveFCO(e, p)
  <2>1. p \in Entries(d) /\ Children(d, p) = {}
    BY <1>2 DEF CanRemoveChildArray, CanDescend
  <2>2. /\ IsDb(e) /\ Entries(e) = Entries(d) /\ e.arrays = d.arrays \ {p}
        /\ e.data = d.data /\ Same(d, e)
    BY <2>1, ArrayRemoved
  <2>3. HasFCOData(e, p) <=> HasFCOData(d, p)
    BY <2>2 DEF Same
  <2>4. /\ IsDb(g) /\ Entries(g) = Entries(e) \ {p} /\ g.arrays = e.arrays
        /\ \A q \in Entries(g) : g.data[q] = e.data[q]
        /\ ~HasFCOData(e, p) => Same(e, g)
    <3> HIDE DEF e
    <3> QED
      BY <2>1, <2>2, EntryRemoved
  <2>5. RemoveIfEmpty(d, p) = IF HasFCOData(d, p) THEN e ELSE g
    BY <1>2 DEF RemoveIfEmpty
  <2> HIDE DEF e, g
  <2>6. ASSUME TidyBut(d, p), NEW q \in Entries(e), q # p
        PROVE  /\ CanDescend(e, q) => Children(e, q) # {}
               /\ CanDescend(e, q) \/ HasFCOData(e, q)
    <3>1. CanDescend(e, q) <=> CanDescend(d, q)
      BY <2>2, <2>6 DEF CanDescend
    <3>2. Children(e, q) = Children(d, q)
      BY <2>2 DEF Children
    <3>3. HasFCOData(e, q) <=> HasFCOData(d, q)
      BY <2>2 DEF Same
    <3>4. QED
      BY <3>1, <3>2, <3>3, <2>2, <2>6 DEF TidyBut
  <2>7. CASE HasFCOData(d, p)
    <3>1. ~CanDescend(e, p)
      BY <2>2 DEF CanDescend
    <3>2. TidyBut(d, p) => TidyBut(e, Front(p))
      BY <3>1, <2>3, <2>6, <2>7 DEF TidyBut
    <3>3. QED
      BY <3>2, <2>2, <2>5, <2>7
  <2>8. CASE ~HasFCOData(d, p)
    <3>1. Same(d, g)
      BY <2>2, <2>3, <2>4, <2>8 DEF Same
    <3>2. ASSUME TidyBut(d, p)
          PROVE  TidyBut(g, Front(p))
      <4>1. ASSUME NEW q \in Entries(g)
            PROVE  /\ CanDescend(e, q) => Children(e, q) # {}
                   /\ CanDescend(g, q) \/ HasFCOData(g, q)
        <5>1. q \in Entries(e) /\ q # p
          BY <2>4
        <5>2. CanDescend(g, q) <=> CanDescend(e, q)
          BY <2>4, <5>1 DEF CanDescend
        <5>3. HasFCOData(g, q) <=> HasFCOData(e, q)
          BY <2>4, <5>1 DEF HasFCOData
        <5>4. QED
          BY <5>1, <5>2, <5>3, <2>6, <3>2
      <4>2. p \notin e.arrays /\ p \in Entries(e)
        BY <2>1, <2>2
      <4>3. QED
        BY <4>1, <4>2, <2>2, <2>4, TidyWithout
    <3>3. QED
      BY <3>1, <3>2, <2>2, <2>4, <2>5, <2>8
  <2>9. QED
    BY <2>7, <2>8
<1>3. QED
  BY <1>1, <1>2

-----------------------------------------------------------------------------
(* The recursion of FoldLeft over the parents, by the set of those that     *)
(* have been dealt with.                                                    *)
Climbs(F, d, ps, size) ==
  \A S \in SUBSET (1..Len(ps)) : Cardinality(S) <= size =>
    F[S] = IF S = {} THEN d ELSE RemoveIfEmpty(F[S \ {Max(S)}], ps[Max(S)])

LEMMA MaxFacts ==
  ASSUME NEW n \in Nat, NEW S \in SUBSET (1..n), S # {}
  PROVE  Max(S) \in S /\ \A k \in S : k <= Max(S)
<1>1. \E m \in S : \A k \in S : m >= k
  BY GreatestOf
<1>2. QED
  BY <1>1 DEF Max

LEMMA SubsetsOfInterval ==
  ASSUME NEW n \in Nat
  PROVE  \A S \in SUBSET (1..n) : /\ IsFiniteSet(S) /\ Cardinality(S) \in Nat
                                 /\ Cardinality(S) <= n
<1>1. 1 \in Int /\ n \in Int
  OBVIOUS
<1>2. IsFiniteSet(1..n) /\ Cardinality(1..n) = IF 1 > n THEN 0 ELSE n - 1 + 1
  BY <1>1, FS_Interval, Zenon
<1>3. Cardinality(1..n) = n
  BY <1>2
<1>4. QED
  BY <1>2, <1>3, FS_Subset, FS_CardinalityType

LEMMA ClimbExists ==
  ASSUME NEW d, NEW ps, Len(ps) \in Nat, NEW size \in Nat
  PROVE  \E F : F = [S \in SUBSET (1..Len(ps)) |-> F[S]] /\ Climbs(F, d, ps, size)
<1> DEFINE G == 1..Len(ps)
           Has(c) == \E F : F = [S \in SUBSET G |-> F[S]] /\ Climbs(F, d, ps, c)
           Bad == {c \in Nat : ~Has(c)}
<1>1. SUFFICES ASSUME ~Has(size)
               PROVE  FALSE
  OBVIOUS
<1>2. Bad \in SUBSET Nat /\ Bad # {}
  BY <1>1
<1>3. PICK c \in Bad : \A k \in Bad : c <= k
  <2> HIDE DEF Bad
  <2> QED
    BY <1>2, LeastOf
<1>4. c \in Nat /\ ~Has(c)
  BY <1>3
<1>5. \A S \in SUBSET G : IsFiniteSet(S) /\ Cardinality(S) \in Nat
  BY SubsetsOfInterval
<1>6. CASE c = 0
  <2> DEFINE F == [S \in SUBSET G |-> d]
  <2>1. F = [S \in SUBSET G |-> F[S]]
    OBVIOUS
  <2>2. Climbs(F, d, ps, 0)
    <3>1. \A S \in SUBSET G : Cardinality(S) <= 0 => S = {}
      BY <1>5, FS_EmptySet
    <3>2. QED
      BY <3>1 DEF Climbs
  <2>3. Has(0)
    BY <2>1, <2>2
  <2>4. QED
    BY <2>3, <1>4, <1>6
<1>7. CASE c # 0
  <2>1. c - 1 \in Nat /\ c - 1 \notin Bad
    <3>1. c - 1 \in Nat /\ ~(c <= c - 1)
      BY <1>4, <1>7
    <3> HIDE DEF Bad
    <3> QED
      BY <3>1, <1>3
  <2>2. Has(c - 1)
    BY <2>1
  <2>3. PICK F : F = [S \in SUBSET G |-> F[S]] /\ Climbs(F, d, ps, c - 1)
    BY <2>2
  <2> DEFINE E == [S \in SUBSET G |->
                     IF S = {} THEN d ELSE RemoveIfEmpty(F[S \ {Max(S)}], ps[Max(S)])]
  <2>4. ASSUME NEW S \in SUBSET G, Cardinality(S) <= c - 1
        PROVE  E[S] = F[S]
    BY <2>3, <2>4 DEF Climbs
  <2>5. Climbs(E, d, ps, c)
    <3> SUFFICES ASSUME NEW S \in SUBSET G, Cardinality(S) <= c, S # {}
                 PROVE  E[S] = RemoveIfEmpty(E[S \ {Max(S)}], ps[Max(S)])
      BY DEF Climbs
    <3>1. Max(S) \in S
      BY MaxFacts
    <3>2. Cardinality(S \ {Max(S)}) = Cardinality(S) - 1
      BY <3>1, <1>5, FS_RemoveElement
    <3>3. Cardinality(S \ {Max(S)}) <= c - 1
      BY <3>2, <1>5, <1>4
    <3>4. S \ {Max(S)} \in SUBSET G
      OBVIOUS
    <3>5. E[S \ {Max(S)}] = F[S \ {Max(S)}]
      <4> HIDE DEF E
      <4> QED
        BY <2>4, <3>3, <3>4
    <3>6. E[S] = RemoveIfEmpty(F[S \ {Max(S)}], ps[Max(S)])
      OBVIOUS
    <3>7. QED
      BY <3>5, <3>6
  <2>6. E = [S \in SUBSET G |-> E[S]]
    OBVIOUS
  <2>7. Has(c)
    <3> HIDE DEF E
    <3> QED
      BY <2>5, <2>6
  <2>8. QED
    BY <2>7, <1>4
<1>8. QED
  BY <1>6, <1>7

LEMMA FoldLeftClimbs ==
  ASSUME NEW d, NEW ps, Len(ps) \in Nat, DOMAIN ps = 1..Len(ps)
  PROVE  \E F : /\ Climbs(F, d, ps, Len(ps))
                /\ FoldLeft(RemoveIfEmpty, d, ps) = F[1..Len(ps)]
<1> DEFINE G == 1..Len(ps)
           Iterates(F) == F = [S \in SUBSET G |->
                    IF S = {} THEN d ELSE RemoveIfEmpty(F[S \ {Max(S)}], ps[Max(S)])]
           iter == CHOOSE F : Iterates(F)
<1>1. FoldLeft(RemoveIfEmpty, d, ps) = iter[G]
  BY DEF FoldLeft, MapThenFoldSet
<1>2. \A S \in SUBSET G : Cardinality(S) \in Nat /\ Cardinality(S) <= Len(ps)
  BY SubsetsOfInterval
<1>3. PICK F : F = [S \in SUBSET G |-> F[S]] /\ Climbs(F, d, ps, Len(ps))
  BY ClimbExists
<1>4. Iterates(F)
  BY <1>2, <1>3 DEF Climbs
<1>5. Iterates(iter)
  <2> HIDE DEF Iterates
  <2> QED
    BY <1>4
<1> HIDE DEF iter
<1>6. Climbs(iter, d, ps, Len(ps))
  BY <1>5 DEF Climbs
<1>7. QED
  BY <1>1, <1>6

LEMMA FrontOfBeginning ==
  ASSUME NEW p \in Name, NEW n \in 1..Len(p)
  PROVE  Front(SubSeq(p, 1, n)) = SubSeq(p, 1, n - 1)
<1> DEFINE b == SubSeq(p, 1, n)
           c == SubSeq(p, 1, n - 1)
<1>1. Len(p) \in Nat /\ n \in 0..Len(p) /\ n - 1 \in 0..Len(p) /\ n \in Nat
  BY NameFacts
<1>2. b \in Name /\ Len(b) = n /\ AtOrAbove(b, p) /\ c \in Name /\ Len(c) = n - 1 /\ AtOrAbove(c, p)
  BY <1>1, PrefixFacts, BeginningIsAbove
<1> HIDE DEF b, c
<1>3. b # <<>>
  BY <1>1, <1>2, NameFacts
<1>4. Front(b) \in Name /\ Len(Front(b)) = n - 1 /\ AtOrAbove(Front(b), b)
  BY <1>2, <1>3, FrontFacts DEF Above
<1>5. AtOrAbove(Front(b), p)
  BY <1>2, <1>4, AtOrAboveOrder
<1>6. AtOrAbove(c, Front(b))
  <2>1. Len(c) <= Len(Front(b))
    BY <1>1, <1>2, <1>4
  <2>2. QED
    BY <2>1, <1>2, <1>4, <1>5, AboveSame
<1>7. c = Front(b)
  BY <1>2, <1>4, <1>6, AboveFacts
<1>8. QED
  BY <1>7 DEF b, c

(* The climb keeps what there is, and leaves no array empty.                *)
LEMMA ClimbFacts ==
  ASSUME NEW d, IsDb(d), NEW p \in Name, p # <<>>,
         NEW ps, ps = [n \in 1..Len(p) - 1 |-> SubSeq(p, 1, Len(p) - n)],
         NEW F, Climbs(F, d, ps, Len(p) - 1), Len(ps) = Len(p) - 1
  PROVE  LET r == F[1..Len(p) - 1]
         IN /\ IsDb(r) /\ Same(d, r) /\ Entries(r) \subseteq Entries(d)
            /\ TidyBut(d, Front(p)) => Tidy(r)
<1> DEFINE At(n) == SubSeq(p, 1, Len(p) - 1 - n)
           Fine(r, n) == /\ IsDb(r) /\ Same(d, r) /\ Entries(r) \subseteq Entries(d)
                         /\ TidyBut(d, Front(p)) => TidyBut(r, At(n))
           Bad == {n \in 0..Len(p) - 1 : ~Fine(F[1..n], n)}
<1>1. Len(p) \in Nat /\ Len(p) > 0 /\ Len(p) - 1 \in Nat
  BY NameFacts
<1>2. \A n \in 0..Len(p) - 1 : Fine(F[1..n], n)
  <2>1. SUFFICES ASSUME Bad # {}
                 PROVE  FALSE
    OBVIOUS
  <2>2. Bad \in SUBSET Nat
    OBVIOUS
  <2>3. PICK n \in Bad : \A k \in Bad : n <= k
    <3> HIDE DEF Bad
    <3> QED
      BY <2>1, <2>2, LeastOf
  <2>4. n \in 0..Len(p) - 1 /\ ~Fine(F[1..n], n)
    BY <2>3
  <2>5. \A k \in 0..Len(p) - 1 : 1..k \in SUBSET (1..Len(ps)) /\ Cardinality(1..k) <= Len(p) - 1
    <3>1. \A k \in 0..Len(p) - 1 : 1..k \in SUBSET (1..Len(p) - 1)
      BY <1>1
    <3>2. \A k \in 0..Len(p) - 1 : Cardinality(1..k) <= Len(p) - 1
      BY <1>1, <3>1, SubsetsOfInterval
    <3>3. QED
      BY <3>1, <3>2
  <2>6. CASE n = 0
    <3>1. 1..n = {}
      BY <2>6
    <3>2. F[{}] = d
      BY <2>5, <3>1, <2>4 DEF Climbs
    <3>3. At(0) = Front(p)
      BY <1>1 DEF Front
    <3>4. Fine(d, 0)
      BY <3>3 DEF Same
    <3>5. QED
      BY <3>1, <3>2, <3>4, <2>4, <2>6
  <2>7. CASE n # 0
    <3> DEFINE r == F[1..n - 1]
               q == At(n - 1)
    <3>1. n - 1 \in 0..Len(p) - 1 /\ n - 1 \notin Bad /\ n \in 1..Len(p) - 1
      <4>1. n - 1 \in 0..Len(p) - 1 /\ ~(n <= n - 1) /\ n \in 1..Len(p) - 1
        BY <2>4, <2>7, <1>1
      <4> HIDE DEF Bad
      <4> QED
        BY <4>1, <2>3
    <3>2. Fine(r, n - 1)
      BY <3>1
    <3>3. Max(1..n) = n /\ (1..n) \ {n} = 1..n - 1 /\ 1..n # {}
      <4>1. n \in Nat /\ n \in 1..n /\ 1..n \in SUBSET (1..n)
        BY <3>1
      <4>2. Max(1..n) \in 1..n /\ \A k \in 1..n : k <= Max(1..n)
        BY <4>1, MaxFacts
      <4>3. Max(1..n) = n
        BY <4>1, <4>2
      <4>4. QED
        BY <4>1, <4>3
    <3>4. F[1..n] = RemoveIfEmpty(r, ps[n])
      BY <2>4, <2>5, <3>3 DEF Climbs
    <3>5. ps[n] = q
      <4>1. Len(p) - n = Len(p) - 1 - (n - 1)
        BY <1>1, <3>1
      <4>2. QED
        BY <4>1, <3>1
    <3>6. Len(p) - 1 - (n - 1) \in 1..Len(p) /\ Len(p) - 1 - (n - 1) \in 0..Len(p)
          /\ Len(p) - 1 - (n - 1) - 1 = Len(p) - 1 - n
      BY <1>1, <3>1
    <3>7. q \in Name /\ q # <<>>
      <4>1. q \in Name /\ Len(q) = Len(p) - 1 - (n - 1)
        BY <3>6, PrefixFacts
      <4> HIDE DEF q
      <4>2. QED
        BY <4>1, <3>6, NameFacts
    <3>8. Front(q) = At(n)
      BY <3>6, FrontOfBeginning
    <3> HIDE DEF r, q, At
    <3>9. /\ IsDb(RemoveIfEmpty(r, q)) /\ Same(r, RemoveIfEmpty(r, q))
          /\ Entries(RemoveIfEmpty(r, q)) \subseteq Entries(r)
          /\ TidyBut(r, q) => TidyBut(RemoveIfEmpty(r, q), Front(q))
      BY <3>2, <3>7, RemoveIfEmptyFacts
    <3>10. Fine(RemoveIfEmpty(r, q), n)
      BY <3>2, <3>8, <3>9 DEF Same, q
    <3>11. QED
      BY <3>4, <3>5, <3>10, <2>4
  <2>8. QED
    BY <2>6, <2>7
<1>3. Len(p) - 1 \in 0..Len(p) - 1
  BY <1>1
<1>4. At(Len(p) - 1) = <<>>
  <2>1. Len(p) - 1 - (Len(p) - 1) = 0 /\ 0 \in 0..Len(p)
    BY <1>1
  <2>2. SubSeq(p, 1, 0) \in Name /\ Len(SubSeq(p, 1, 0)) = 0
    BY <2>1, PrefixFacts
  <2>3. QED
    BY <2>1, <2>2, NameFacts
<1>5. Fine(F[1..Len(p) - 1], Len(p) - 1)
  BY <1>2, <1>3
<1>6. QED
  BY <1>4, <1>5, TidyAtRoot

(* RemoveFCOFromDb takes the FCO at p and no other.                         *)
LEMMA RemovedFromDb ==
  ASSUME NEW d, IsDb(d), NEW p, HasFCOData(d, p)
  PROVE  LET r == RemoveFCOFromDb(d, p)
         IN /\ IsDb(r) /\ ~HasFCOData(r, p) /\ SameBut(d, r, p)
            /\ Entries(r) \subseteq Entries(d)
            /\ Tidy(d) => Tidy(r)
<1> DEFINE cleared == SetFCOData(d, p, NoData)
           removed == IF CanDescend(d, p) THEN cleared ELSE RemoveFCO(cleared, p)
           ps == [n \in 1..Len(p) - 1 |-> SubSeq(p, 1, Len(p) - n)]
           r == FoldLeft(RemoveIfEmpty, removed, ps)
<1>1. RemoveFCOFromDb(d, p) = r
  BY DEF RemoveFCOFromDb
<1>2. p \in Entries(d) /\ p \in Name /\ p # <<>>
  BY DEF HasFCOData, IsDb
<1>3. Len(p) \in Nat /\ Len(p) > 0 /\ Len(p) - 1 \in Nat
  BY <1>2, NameFacts
<1>4. Len(ps) = Len(p) - 1 /\ DOMAIN ps = 1..Len(ps)
  <2>1. \A n \in 1..Len(p) - 1 : SubSeq(p, 1, Len(p) - n) \in Name
    <3> SUFFICES ASSUME NEW n \in 1..Len(p) - 1
                 PROVE  SubSeq(p, 1, Len(p) - n) \in Name
      OBVIOUS
    <3>1. Len(p) - n \in 0..Len(p)
      BY <1>3
    <3>2. QED
      BY <3>1, <1>2, PrefixFacts
  <2>2. ps \in [1..Len(p) - 1 -> Name]
    BY <2>1
  <2> HIDE DEF ps
  <2>3. ps \in Seq(Name) /\ DOMAIN ps = 1..Len(p) - 1
    <3> DEFINE k == Len(p) - 1
    <3>1. k \in Nat /\ ps \in [1..k -> Name]
      BY <2>2, <1>3
    <3> HIDE DEF k
    <3>2. ps \in Seq(Name) /\ DOMAIN ps = 1..k
      BY <3>1, IsASeq
    <3>3. QED
      BY <3>2 DEF k
  <2>4. QED
    BY <2>3, <1>3, LenProperties
<1>5. /\ IsDb(cleared) /\ Entries(cleared) = Entries(d) /\ cleared.arrays = d.arrays
      /\ ~HasFCOData(cleared, p) /\ SameBut(d, cleared, p)
  BY <1>2, SetOver
<1>6. \A q \in Entries(d) : /\ CanDescend(cleared, q) <=> CanDescend(d, q)
                            /\ Children(cleared, q) = Children(d, q)
                            /\ q # p => (HasFCOData(cleared, q) <=> HasFCOData(d, q))
  BY <1>5 DEF CanDescend, Children, SameBut
<1> HIDE DEF cleared
<1>7. /\ IsDb(removed) /\ ~HasFCOData(removed, p) /\ SameBut(d, removed, p)
      /\ Entries(removed) \subseteq Entries(d)
      /\ Tidy(d) => TidyBut(removed, Front(p))
  <2>1. CASE CanDescend(d, p)
    <3>1. Tidy(d) => Tidy(cleared)
      BY <2>1, <1>5, <1>6 DEF Tidy
    <3>2. QED
      BY <3>1, <2>1, <1>5, TidyAtRoot
  <2>2. CASE ~CanDescend(d, p)
    <3> DEFINE e == RemoveFCO(cleared, p)
    <3>1. p \in Entries(cleared) /\ p \notin cleared.arrays
      BY <2>2, <1>2, <1>5 DEF CanDescend
    <3>2. /\ IsDb(e) /\ Entries(e) = Entries(cleared) \ {p} /\ e.arrays = cleared.arrays
          /\ SameBut(cleared, e, p) /\ ~HasFCOData(e, p)
      BY <3>1, <1>5, EntryRemoved
    <3> HIDE DEF e
    <3>3. ASSUME Tidy(d), NEW q \in Entries(e)
          PROVE  /\ CanDescend(cleared, q) => Children(cleared, q) # {}
                 /\ CanDescend(e, q) \/ HasFCOData(e, q)
      <4>1. q \in Entries(d) /\ q # p /\ q \in Entries(cleared)
        BY <3>2, <1>5
      <4>2. /\ CanDescend(e, q) <=> CanDescend(cleared, q)
            /\ HasFCOData(e, q) <=> HasFCOData(cleared, q)
        BY <4>1, <3>2 DEF CanDescend, SameBut
      <4>3. QED
        BY <4>1, <4>2, <1>6, <3>3 DEF Tidy
    <3>4. Tidy(d) => TidyBut(e, Front(p))
      BY <3>1, <3>2, <3>3, <1>5, TidyWithout
    <3>5. SameBut(d, e, p)
      BY <3>2, <1>5 DEF SameBut
    <3>6. removed = e
      BY <2>2 DEF e
    <3>7. QED
      BY <3>2, <3>4, <3>5, <3>6, <1>5
  <2>3. QED
    BY <2>1, <2>2
<1> HIDE DEF removed
<1>8. PICK F : Climbs(F, removed, ps, Len(ps)) /\ r = F[1..Len(ps)]
  <2> HIDE DEF ps
  <2>1. QED
    BY <1>3, <1>4, FoldLeftClimbs
<1>9. /\ IsDb(r) /\ Same(removed, r) /\ Entries(r) \subseteq Entries(removed)
      /\ TidyBut(removed, Front(p)) => Tidy(r)
  <2>1. Climbs(F, removed, ps, Len(p) - 1) /\ r = F[1..Len(p) - 1]
    BY <1>8, <1>4
  <2> HIDE DEF r
  <2>2. QED
    BY <2>1, <1>2, <1>4, <1>7, ClimbFacts
<1> HIDE DEF r, ps
<1>10. ~HasFCOData(r, p) /\ SameBut(d, r, p)
  BY <1>7, <1>9 DEF Same, SameBut
<1>11. QED
  BY <1>1, <1>7, <1>9, <1>10

(* A tidy database is made up of the names of its FCOs and of those above,  *)
(* so that it is known by its FCOs.                                         *)
LEMMA EntryAboveFco ==
  ASSUME NEW d, IsDb(d), Tidy(d), NEW N \in Nat, \A q \in Entries(d) : Len(q) <= N,
         NEW p \in Entries(d)
  PROVE  \E q \in Entries(d) : HasFCOData(d, q) /\ AtOrAbove(p, q)
<1> DEFINE S == {Len(q) : q \in {r \in Entries(d) : AtOrAbove(p, r)}}
<1>1. \A q \in Entries(d) : q \in Name /\ q # <<>> /\ Len(q) \in 1..N
  <2> SUFFICES ASSUME NEW q \in Entries(d)
               PROVE  q \in Name /\ q # <<>> /\ Len(q) \in 1..N
    OBVIOUS
  <2>1. q \in Name /\ q # <<>>
    BY DEF IsDb
  <2>2. QED
    BY <2>1, NameFacts
<1>2. S \in SUBSET (1..N) /\ S # {}
  <2>1. AtOrAbove(p, p)
    BY <1>1, AtOrAboveOrder
  <2>2. S # {}
    BY <2>1
  <2>3. QED
    BY <1>1, <2>2
<1>3. PICK m \in S : \A k \in S : k <= m
  <2> HIDE DEF S
  <2> QED
    BY <1>2, GreatestOf
<1>4. PICK q \in Entries(d) : AtOrAbove(p, q) /\ Len(q) = m
  BY <1>3
<1>5. Children(d, q) = {}
  <2>1. SUFFICES ASSUME NEW r \in Entries(d), Front(r) = q
                 PROVE  FALSE
    BY DEF Children
  <2>2. Len(q) = Len(r) - 1 /\ AtOrAbove(q, r) /\ Len(r) \in Nat
    BY <1>1, <2>1, FrontFacts, NameFacts DEF Above
  <2>3. AtOrAbove(p, r)
    BY <1>1, <1>4, <2>2, AtOrAboveOrder
  <2>4. Len(r) <= m
    BY <2>3, <1>3
  <2>5. QED
    BY <2>2, <2>4, <1>4
<1>6. QED
  BY <1>4, <1>5 DEF Tidy

LEMMA SameTidy ==
  ASSUME NEW d, IsDb(d), Tidy(d), NEW e, IsDb(e), Tidy(e), Same(d, e),
         NEW N \in Nat, \A q \in Entries(d) \cup Entries(e) : Len(q) <= N
  PROVE  d = e
<1>1. ASSUME NEW x, NEW y, IsDb(x), Tidy(x), IsDb(y), Same(x, y), \A q \in Entries(x) : Len(q) <= N,
             NEW p \in Entries(x)
      PROVE  p \in Entries(y)
  <2>1. PICK q \in Entries(x) : HasFCOData(x, q) /\ AtOrAbove(p, q)
    BY <1>1, EntryAboveFco
  <2>2. q \in Entries(y) /\ p \in Name /\ p # <<>>
    BY <2>1, <1>1 DEF Same, HasFCOData, IsDb
  <2>3. QED
    BY <2>1, <2>2, <1>1, RootedFacts DEF IsDb
<1>2. Same(e, d)
  BY DEF Same
<1>3. Entries(d) = Entries(e)
  BY <1>1, <1>2
<1>4. ASSUME NEW p \in Entries(d)
      PROVE  d.data[p] = e.data[p]
  BY <1>3 DEF Same, HasFCOData
<1>5. d.data = e.data
  <2>1. /\ d.data = [p \in Entries(d) |-> d.data[p]]
        /\ e.data = [p \in Entries(d) |-> e.data[p]]
    BY <1>3 DEF IsDb
  <2>2. QED
    BY <2>1, <1>4
<1>6. ASSUME NEW x, NEW y, IsDb(x), Tidy(x), IsDb(y), Entries(x) = Entries(y), NEW a \in x.arrays
      PROVE  a \in y.arrays
  <2>1. CASE a = <<>>
    BY <2>1, <1>6 DEF IsDb
  <2>2. CASE a # <<>>
    <3>1. a \in Entries(x)
      BY <2>2, <1>6 DEF IsDb, Rooted
    <3>2. PICK r \in Entries(x) : Front(r) = a
      BY <3>1, <1>6 DEF Tidy, CanDescend, Children
    <3>3. QED
      BY <3>2, <1>6 DEF IsDb, Rooted
  <2>3. QED
    BY <2>1, <2>2
<1>7. d.arrays = e.arrays
  <2>1. d.arrays \subseteq e.arrays
    BY <1>3, <1>6
  <2>2. e.arrays \subseteq d.arrays
    BY <1>3, <1>6
  <2>3. QED
    BY <2>1, <2>2
<1>8. QED
  BY <1>5, <1>7 DEF IsDb

(* The database with given FCOs.                                            *)
LEMMA DbOfFacts ==
  ASSUME NEW fcos, DOMAIN fcos \subseteq Name \ {<<>>}, \A p \in DOMAIN fcos : fcos[p] # NoData
  PROVE  LET d == DbOf(fcos)
         IN /\ IsDb(d) /\ Tidy(d)
            /\ \A p : HasFCOData(d, p) <=> p \in DOMAIN fcos
            /\ \A p \in DOMAIN fcos : d.data[p] = fcos[p]
            /\ \A p \in Entries(d) : \E q \in DOMAIN fcos : AtOrAbove(p, q)
<1> DEFINE ps == UNION {PathsTo(p) : p \in DOMAIN fcos}
           d == DbOf(fcos)
<1>1. /\ Entries(d) = ps /\ d.arrays = {<<>>} \cup {Front(p) : p \in ps}
      /\ d = [data |-> d.data, arrays |-> d.arrays]
      /\ d.data = [p \in Entries(d) |-> d.data[p]]
      /\ \A p \in ps : d.data[p] = IF p \in DOMAIN fcos THEN fcos[p] ELSE NoData
  BY DEF DbOf, Entries
<1> HIDE DEF d
<1>2. \A p : p \in ps <=> p \in Name \ {<<>>} /\ \E q \in DOMAIN fcos : AtOrAbove(p, q)
  <2>1. \A q \in DOMAIN fcos : \A p : p \in PathsTo(q) <=> p \in Name \ {<<>>} /\ AtOrAbove(p, q)
    BY PrefixSets
  <2>2. QED
    BY <2>1
<1> HIDE DEF ps
<1>3. DOMAIN fcos \subseteq ps
  BY <1>2, AtOrAboveOrder
<1>4. \A p : HasFCOData(d, p) <=> p \in DOMAIN fcos
  BY <1>1, <1>3 DEF HasFCOData
<1>5. ASSUME NEW p \in ps
      PROVE  Front(p) \in Name /\ (Front(p) # <<>> => Front(p) \in ps)
  <2>1. PICK q \in DOMAIN fcos : AtOrAbove(p, q)
    BY <1>2
  <2>2. p \in Name \ {<<>>} /\ q \in Name
    BY <1>2
  <2>3. Front(p) \in Name /\ AtOrAbove(Front(p), p)
    BY <2>2, FrontFacts DEF Above
  <2>4. AtOrAbove(Front(p), q)
    BY <2>1, <2>2, <2>3, AtOrAboveOrder
  <2>5. QED
    BY <2>3, <2>4, <1>2
<1>6. IsDb(d)
  <2>1. d.arrays \ {<<>>} \subseteq Entries(d) /\ <<>> \in d.arrays
    BY <1>1, <1>5
  <2>2. Entries(d) \subseteq Name \ {<<>>}
    BY <1>1, <1>2
  <2>3. \A p \in Entries(d) : Front(p) \in d.arrays
    BY <1>1
  <2>4. QED
    BY <1>1, <2>1, <2>2, <2>3 DEF IsDb, Rooted
<1>7. Tidy(d)
  <2>1. ASSUME NEW p \in Entries(d), CanDescend(d, p)
        PROVE  Children(d, p) # {}
    <3>1. p \in d.arrays /\ p # <<>>
      BY <2>1, <1>1, <1>2 DEF CanDescend
    <3>2. PICK r \in ps : p = Front(r)
      BY <3>1, <1>1
    <3>3. QED
      BY <3>2, <1>1 DEF Children
  <2>2. ASSUME NEW p \in Entries(d), ~HasFCOData(d, p)
        PROVE  CanDescend(d, p)
    <3>1. PICK q \in DOMAIN fcos : AtOrAbove(p, q)
      BY <1>1, <1>2
    <3>2. p # q
      BY <3>1, <1>4, <2>2
    <3>3. QED
      BY <3>1, <3>2, <1>1, <1>2, <1>3, <1>6, RootedFacts DEF Above, IsDb
  <2>3. QED
    BY <2>1, <2>2 DEF Tidy
<1>8. QED
  BY <1>1, <1>2, <1>3, <1>4, <1>6, <1>7 DEF d

(* Adding an FCO leaves nothing empty.                                      *)
LEMMA CreateTidy ==
  ASSUME NEW d, IsDb(d), Tidy(d), NEW p \in Name, p # <<>>, NEW f, f # NoData
  PROVE  Tidy(SetFCOData(CreatePath(d, p), p, f))
<1> DEFINE e == SetFCOData(CreatePath(d, p), p, f)
<1>1. /\ IsDb(e) /\ Entries(e) = Entries(d) \cup PathsTo(p)
      /\ e.arrays = d.arrays \cup Prefixes(Front(p))
      /\ HasFCOData(e, p) /\ SameBut(d, e, p)
  BY CreateAndSet
<1> HIDE DEF e
<1>2. ASSUME NEW q \in Name, q # <<>>, Above(q, p)
      PROVE  q \in Entries(e) /\ CanDescend(e, q) /\ Children(e, q) # {}
  <2>1. PICK n \in Int : AtOrAbove(Append(q, n), p)
    BY <1>2, BelowIsAtChild
  <2>2. Append(q, n) \in Name \ {<<>>} /\ Front(Append(q, n)) = q
    BY ChildFacts
  <2>3. Append(q, n) \in Entries(e) /\ q \in Entries(e)
    BY <2>1, <2>2, <1>1, <1>2, PrefixSets DEF Above
  <2>4. q \in e.arrays
    BY <2>2, <2>3, <1>1 DEF IsDb, Rooted
  <2>5. QED
    BY <2>2, <2>3, <2>4 DEF CanDescend, Children
<1>3. ASSUME NEW q \in Entries(e)
      PROVE  /\ CanDescend(e, q) => Children(e, q) # {}
             /\ CanDescend(e, q) \/ HasFCOData(e, q)
  <2>1. q \in Name \ {<<>>}
    BY <1>1 DEF IsDb
  <2>2. CASE Above(q, p)
    BY <2>1, <2>2, <1>2
  <2>3. CASE ~Above(q, p)
    <3>1. q \notin Prefixes(Front(p))
      <4>1. Front(p) \in Name /\ AtOrAbove(Front(p), p) /\ ~AtOrAbove(p, Front(p))
        BY FrontFacts, AtOrAboveOrder DEF Above
      <4>2. AtOrAbove(q, Front(p)) => Above(q, p)
        BY <2>1, <4>1, AtOrAboveOrder DEF Above
      <4>3. QED
        BY <2>3, <4>1, <4>2, PrefixSets
    <3>2. CanDescend(e, q) => CanDescend(d, q)
      <4>1. q \in e.arrays => q \in d.arrays
        BY <3>1, <1>1
      <4>2. q \in d.arrays => q \in Entries(d)
        BY <2>1 DEF IsDb, Rooted
      <4>3. QED
        BY <4>1, <4>2 DEF CanDescend
    <3>3. Children(d, q) \subseteq Children(e, q)
      BY <1>1 DEF Children
    <3>4. CanDescend(d, q) => CanDescend(e, q)
      BY <1>1 DEF CanDescend
    <3>5. CASE q \in Entries(d)
      BY <3>2, <3>3, <3>4, <3>5, <1>1 DEF Tidy, SameBut
    <3>6. CASE q \notin Entries(d)
      <4>1. q = p
        BY <3>6, <1>1, <2>3, PrefixSets DEF Above
      <4>2. ~CanDescend(d, q)
        BY <3>6 DEF CanDescend
      <4>3. QED
        BY <4>1, <4>2, <3>2, <1>1
    <3>7. QED
      BY <3>5, <3>6
  <2>4. QED
    BY <2>2, <2>3
<1>4. QED
  BY <1>3 DEF Tidy, e

LEMMA SetTidy ==
  ASSUME NEW d, IsDb(d), Tidy(d), NEW p \in Entries(d), NEW f, f # NoData
  PROVE  Tidy(SetFCOData(d, p, f))
<1> DEFINE e == SetFCOData(d, p, f)
<1>1. /\ Entries(e) = Entries(d) /\ e.arrays = d.arrays
      /\ HasFCOData(e, p) /\ SameBut(d, e, p)
  BY SetOver
<1> HIDE DEF e
<1>2. \A q \in Entries(d) : /\ CanDescend(e, q) <=> CanDescend(d, q)
                            /\ Children(e, q) = Children(d, q)
                            /\ HasFCOData(d, q) => HasFCOData(e, q)
  BY <1>1 DEF CanDescend, Children, SameBut
<1>3. QED
  BY <1>1, <1>2 DEF Tidy, e

LEMMA FcosFacts ==
  ASSUME NEW props, NEW o \in Object \cup {InvalidObject}, NEW ps \in SUBSET props,
         NEW was \in Object \cup {InvalidObject}, NEW qs \in SUBSET props
  PROVE  /\ CalcProps(o, ps) \in Fcos(props)
         /\ AddProps(CalcProps(o, ps), CalcProps(was, qs)) \in Fcos(props)
<1> DEFINE calculated == {CalcProps(x, rs) : x \in Object \cup {InvalidObject}, rs \in SUBSET props}
           f == CalcProps(o, ps)
           g == CalcProps(was, qs)
<1>1. f \in calculated /\ g \in calculated
  OBVIOUS
<1>2. AddProps(f, f) = f
  BY DEF AddProps, CalcProps
<1>3. Fcos(props) = {AddProps(x, y) : x, y \in calculated}
  BY DEF Fcos
<1> HIDE DEF f, g, calculated
<1>4. AddProps(f, f) \in Fcos(props) /\ AddProps(f, g) \in Fcos(props)
  BY <1>1, <1>3
<1>5. QED
  BY <1>2, <1>4 DEF f, g

(* What is looked at, seen or not, is an object or the invalid one.         *)
LEMMA LookedAt ==
  ASSUME NEW f, TreeAssumption(f), NEW s, NEW p
  PROVE  InitializeTypeInfo(f, s, p) \in Object \cup {InvalidObject}
BY DEF InitializeTypeInfo, TreeAssumption

(* The database that is generated while nothing happens.                    *)
LEMMA SnapshotFacts ==
  ASSUME NEW policy, PolicyAssumption(policy), DataAssumption(policy),
         NEW rules, rules = CreateFCOSpecs(policy), NEW f, TreeAssumption(f)
  PROVE  LET d == DbOf(Snapshot(f, rules))
         IN /\ IsDb(d) /\ Tidy(d) /\ Entries(d) \subseteq Path
            /\ \A p : HasFCOData(d, p) <=> /\ p \in DOMAIN f
                                           /\ \E s \in rules : Reaches(s, p) /\ Seen(f, s, p)
            /\ \A s \in rules : \A p : Reaches(s, p) /\ Seen(f, s, p) => d.data[p] = FcoOf(f, s, p)
<1> DEFINE fcos == Snapshot(f, rules)
           d == DbOf(fcos)
           At(p) == CHOOSE s \in rules : Reaches(s, p) /\ Seen(f, s, p)
<1>1. DOMAIN fcos = {q \in DOMAIN f : \E s \in rules : Reaches(s, q) /\ Seen(f, s, q)}
  BY DEF Snapshot
<1>2. \A p \in DOMAIN fcos : fcos[p] = FcoOf(f, At(p), p)
  BY <1>1 DEF Snapshot
<1> HIDE DEF fcos
<1>3. DOMAIN f \subseteq Path /\ Path \subseteq Name \ {<<>>} /\ IsTree(f)
  BY FileTreeAssumption DEF TreeAssumption, Name
<1>4. ASSUME NEW s \in rules, NEW p, Reaches(s, p), Seen(f, s, p)
      PROVE  p \in DOMAIN fcos /\ fcos[p] = FcoOf(f, s, p)
  <2>1. p \in DOMAIN f /\ p \in Name
    BY <1>3, <1>4 DEF Seen
  <2>2. p \in DOMAIN fcos
    BY <2>1, <1>1, <1>4
  <2>3. At(p) \in rules /\ Reaches(At(p), p)
    BY <1>4
  <2>4. At(p) = s
    BY <2>1, <2>3, <1>4, OneRuleReaches
  <2>5. QED
    BY <2>2, <2>4, <1>2
<1>5. \A p \in DOMAIN fcos : fcos[p] # NoData
  <2> SUFFICES ASSUME NEW p \in DOMAIN fcos
               PROVE  fcos[p] # NoData
    OBVIOUS
  <2>1. PICK s \in rules : Reaches(s, p) /\ Seen(f, s, p)
    BY <1>1
  <2>2. fcos[p] = CalcProps(InitializeTypeInfo(f, s, p), s.props)
    BY <2>1, <1>4 DEF FcoOf
  <2>3. fcos[p] \in Fcos(s.props)
    BY <2>2, LookedAt, FcosFacts
  <2>4. QED
    BY <2>3 DEF DataAssumption
<1>6. DOMAIN fcos \subseteq Name \ {<<>>}
  BY <1>1, <1>3
<1>7. /\ IsDb(d) /\ Tidy(d)
      /\ \A p : HasFCOData(d, p) <=> p \in DOMAIN fcos
      /\ \A p \in DOMAIN fcos : d.data[p] = fcos[p]
      /\ \A p \in Entries(d) : \E q \in DOMAIN fcos : AtOrAbove(p, q)
  BY <1>5, <1>6, DbOfFacts
<1> HIDE DEF d
<1>8. Entries(d) \subseteq Path
  <2> SUFFICES ASSUME NEW p \in Entries(d)
               PROVE  p \in Path
    OBVIOUS
  <2>1. PICK q \in DOMAIN fcos : AtOrAbove(p, q)
    BY <1>7
  <2>2. q \in DOMAIN f /\ p \in Name /\ p # <<>>
    BY <1>1, <1>7 DEF IsDb
  <2>3. p \in DOMAIN f
    BY <2>1, <2>2, <1>3, TreeFacts
  <2>4. QED
    BY <2>3, <1>3
<1>9. QED
  BY <1>1, <1>4, <1>7, <1>8 DEF d, fcos

-----------------------------------------------------------------------------
(* The names in a directory.                                                *)

Has(names, n) == \E i \in DOMAIN names : names[i] = n

(* p is one of these names in a directory, or below one.                    *)
DueIn(dir, names, p) == \E n \in Int : Has(names, n) /\ AtOrAbove(Append(dir, n), p)

LEMMA DueInFacts ==
  ASSUME NEW d \in Name, NEW names, NEW p \in Name
  PROVE  /\ DueIn(d, names, p) => Above(d, p)
         /\ \A n \in Int : AtOrAbove(Append(d, n), p) => (DueIn(d, names, p) <=> Has(names, n))
BY BelowIsAtChild DEF DueIn

LEMMA TailFacts ==
  ASSUME NEW names \in Seq(Int), Sorted(names), names # <<>>
  PROVE  /\ Head(names) \in Int /\ Tail(names) \in Seq(Int) /\ Sorted(Tail(names))
         /\ Has(names, Head(names))
         /\ \A n \in Int : Has(names, n) => Head(names) <= n
         /\ \A n \in Int : Has(Tail(names), n) <=> Has(names, n) /\ n # Head(names)
<1>1. /\ Head(names) \in Int /\ Tail(names) \in Seq(Int)
      /\ Len(Tail(names)) = Len(names) - 1
      /\ \A i \in 1..Len(Tail(names)) : Tail(names)[i] = names[i + 1]
      /\ Head(names) = names[1]
  BY HeadTailProperties
<1>2. Len(names) \in Nat /\ Len(names) > 0 /\ DOMAIN names = 1..Len(names)
      /\ DOMAIN Tail(names) = 1 .. Len(names) - 1
      /\ \A i \in 1..Len(names) : names[i] \in Int
  BY <1>1, EmptySeq, LenProperties, ElementOfSeq
<1> DEFINE t == Tail(names)
<1>3. /\ DOMAIN t = 1 .. Len(names) - 1
      /\ \A i \in 1 .. Len(names) - 1 : t[i] = names[i + 1] /\ i + 1 \in 1..Len(names)
  BY <1>1, <1>2
<1> HIDE DEF t
<1>4. Sorted(t)
  <2> SUFFICES ASSUME NEW i \in 1 .. Len(names) - 1, NEW j \in 1 .. Len(names) - 1, i < j
               PROVE  t[i] < t[j]
    BY <1>3 DEF Sorted
  <2>1. i + 1 < j + 1
    BY <1>2
  <2>2. QED
    BY <2>1, <1>2, <1>3 DEF Sorted
<1>5. Has(names, Head(names))
  BY <1>1, <1>2 DEF Has
<1>6. ASSUME NEW i \in 1..Len(names), i # 1
      PROVE  Head(names) < names[i]
  BY <1>1, <1>2, <1>6 DEF Sorted
<1>7. ASSUME NEW n \in Int, Has(names, n)
      PROVE  Head(names) <= n
  BY <1>1, <1>2, <1>6, <1>7 DEF Has
<1>8. ASSUME NEW n \in Int
      PROVE  Has(t, n) <=> Has(names, n) /\ n # Head(names)
  <2>1. ASSUME Has(t, n)
        PROVE  Has(names, n) /\ n # Head(names)
    <3>1. PICK i \in 1 .. Len(names) - 1 : t[i] = n
      BY <2>1, <1>3 DEF Has
    <3>2. i + 1 \in 1..Len(names) /\ i + 1 # 1 /\ names[i + 1] = n
      BY <3>1, <1>2, <1>3
    <3>3. Head(names) < n
      BY <3>2, <1>6
    <3>4. QED
      BY <3>2, <3>3, <1>1, <1>2 DEF Has
  <2>2. ASSUME Has(names, n), n # Head(names)
        PROVE  Has(t, n)
    <3>1. PICK i \in 1..Len(names) : names[i] = n
      BY <2>2, <1>2 DEF Has
    <3>2. i # 1
      BY <3>1, <2>2, <1>1
    <3>3. i - 1 \in 1 .. Len(names) - 1 /\ (i - 1) + 1 = i
      BY <3>2, <1>2
    <3>4. t[i - 1] = n
      BY <3>1, <3>3, <1>3
    <3>5. QED
      BY <3>3, <3>4, <1>3 DEF Has
  <2>3. QED
    BY <2>1, <2>2
<1>9. QED
  BY <1>1, <1>4, <1>5, <1>7, <1>8 DEF t

-----------------------------------------------------------------------------
(* Other file systems.                                                      *)

LEMMA CrossesFacts ==
  ASSUME NEW s, s.start \in Name, NEW p \in Name, NEW q \in Name
  PROVE  /\ ~Crosses(s, s.start)
         /\ Crosses(s, p) /\ AtOrAbove(p, q) => Crosses(s, q)
         /\ p # <<>> /\ Crosses(s, p) => p \in Mounts \/ Crosses(s, Front(p))
<1>1. Mounts \subseteq Name
  BY FileTreeAssumption DEF Name
<1>2. ~Crosses(s, s.start)
  BY <1>1, AtOrAboveOrder DEF Crosses, Above
<1>3. ASSUME Crosses(s, p), AtOrAbove(p, q)
      PROVE  Crosses(s, q)
  BY <1>1, <1>3, AtOrAboveOrder DEF Crosses
<1>4. ASSUME p # <<>>, Crosses(s, p)
      PROVE  p \in Mounts \/ Crosses(s, Front(p))
  <2>1. PICK m \in Mounts : Above(s.start, m) /\ AtOrAbove(m, p)
    BY <1>4 DEF Crosses
  <2>2. m = p \/ AtOrAbove(m, Front(p))
    BY <2>1, <1>1, <1>4, AboveChild
  <2>3. QED
    BY <2>1, <2>2, <1>4 DEF Crosses
<1>5. QED
  BY <1>2, <1>3, <1>4

(* Nothing is to be seen below what is no directory, or is on another file  *)
(* system.                                                                  *)
LEMMA NotSeenBelow ==
  ASSUME NEW f, IsTree(f), DOMAIN f \subseteq Name \ {<<>>}, NEW s, s.start \in Name,
         NEW d \in Name, d # <<>>, AtOrAbove(s.start, d), NEW p \in Name, Above(d, p),
         ~IsDir(f, d) \/ Crosses(s, d)
  PROVE  ~Seen(f, s, p)
<1>1. CASE ~IsDir(f, d)
  BY <1>1, TreeFacts DEF Seen
<1>2. CASE Crosses(s, d)
  <2>1. p # <<>>
    <3>1. Len(d) < Len(p) /\ Len(d) \in Nat
      BY AboveFacts, NameFacts
    <3>2. Len(p) > 0
      BY <3>1, NameFacts
    <3>3. QED
      BY <3>2, NameFacts
  <2>2. Front(p) \in Name /\ AtOrAbove(d, Front(p))
    BY <2>1, FrontFacts, AboveChild
  <2>3. Crosses(s, Front(p))
    BY <2>2, <1>2, CrossesFacts
  <2>4. p # s.start
    BY AtOrAboveOrder DEF Above
  <2>5. QED
    BY <2>3, <2>4 DEF Seen
<1>3. QED
  BY <1>1, <1>2

LEMMA PathFacts == Path \subseteq Name /\ <<>> \notin Path
BY FileTreeAssumption DEF Name

(* An object is made, changed or taken away: what is left is a tree, in     *)
(* which every other object is as it was.                                   *)
LEMMA ChangedTree ==
  ASSUME NEW f, IsTree(f), DOMAIN f \subseteq Path, \A q \in DOMAIN f : f[q] \in Object,
         NEW p \in Path, NEW o \in Object, NEW g,
         \/ /\ p \notin DOMAIN f /\ (Len(p) = 1 \/ IsDir(f, Front(p)))
            /\ g = [q \in DOMAIN f \cup {p} |-> IF q = p THEN o ELSE f[q]]
         \/ /\ p \in DOMAIN f /\ (o.type = "dir" \/ ChildrenIn(f, p) = {})
            /\ g = [f EXCEPT ![p] = o]
         \/ ChildrenIn(f, p) = {} /\ g = [q \in DOMAIN f \ {p} |-> f[q]]
  PROVE  /\ IsTree(g) /\ DOMAIN g \subseteq Path /\ \A q \in DOMAIN g : g[q] \in Object
         /\ DOMAIN f \subseteq DOMAIN g \cup {p}
         /\ \A q : q # p => /\ q \in DOMAIN g <=> q \in DOMAIN f
                            /\ q \in DOMAIN f => g[q] = f[q]
<1>1. \A q \in DOMAIN f : Len(q) = 1 \/ (Front(q) \in DOMAIN f /\ f[Front(q)].type = "dir")
  BY DEF IsTree, IsDir
<1>2. ASSUME p \notin DOMAIN f, Len(p) = 1 \/ IsDir(f, Front(p)),
             g = [q \in DOMAIN f \cup {p} |-> IF q = p THEN o ELSE f[q]]
      PROVE  /\ IsTree(g) /\ DOMAIN g = DOMAIN f \cup {p}
             /\ \A q \in DOMAIN g : g[q] \in Object
             /\ \A q \in DOMAIN f : g[q] = f[q]
  <2>1. DOMAIN g = DOMAIN f \cup {p} /\ g[p] = o /\ \A q \in DOMAIN f : g[q] = f[q]
    BY <1>2
  <2>2. \A q \in DOMAIN g : Len(q) = 1 \/ (Front(q) \in DOMAIN g /\ g[Front(q)].type = "dir")
    BY <1>1, <1>2, <2>1 DEF IsDir
  <2>3. QED
    BY <2>1, <2>2 DEF IsTree, IsDir
<1>3. ASSUME p \in DOMAIN f, o.type = "dir" \/ ChildrenIn(f, p) = {}, g = [f EXCEPT ![p] = o]
      PROVE  /\ IsTree(g) /\ DOMAIN g = DOMAIN f
             /\ \A q \in DOMAIN g : g[q] \in Object
             /\ \A q \in DOMAIN f : q # p => g[q] = f[q]
  <2>1. DOMAIN g = DOMAIN f /\ g[p] = o /\ \A q \in DOMAIN f : q # p => g[q] = f[q]
    BY <1>3
  <2>2. ASSUME NEW q \in DOMAIN f, Len(q) # 1
        PROVE  Front(q) \in DOMAIN g /\ g[Front(q)].type = "dir"
    <3>1. CASE Front(q) = p
      <4>1. ChildrenIn(f, p) # {}
        BY <3>1 DEF ChildrenIn
      <4>2. QED
        BY <4>1, <3>1, <2>1, <1>3
    <3>2. CASE Front(q) # p
      BY <3>2, <2>1, <2>2, <1>1
    <3>3. QED
      BY <3>1, <3>2
  <2>3. QED
    BY <2>1, <2>2 DEF IsTree, IsDir
<1>4. ASSUME ChildrenIn(f, p) = {}, g = [q \in DOMAIN f \ {p} |-> f[q]]
      PROVE  /\ IsTree(g) /\ DOMAIN g = DOMAIN f \ {p}
             /\ \A q \in DOMAIN g : g[q] \in Object
             /\ \A q \in DOMAIN f : q # p => g[q] = f[q]
  <2>1. \A q \in DOMAIN f : Front(q) # p
    BY <1>4 DEF ChildrenIn
  <2>2. DOMAIN g = DOMAIN f \ {p} /\ \A q \in DOMAIN f : q # p => g[q] = f[q]
    BY <1>4
  <2>3. \A q \in DOMAIN g : Len(q) = 1 \/ (Front(q) \in DOMAIN g /\ g[Front(q)].type = "dir")
    BY <2>1, <2>2, <1>1
  <2>4. QED
    BY <2>2, <2>3 DEF IsTree, IsDir
<1>5. QED
  BY <1>2, <1>3, <1>4

(* The names in a directory, of all these objects, in their order.          *)
LEMMA NamesIn ==
  ASSUME NEW S \in SUBSET Path, NEW d \in Name
  PROVE  LET names == Peers({q \in S : Front(q) = d})
         IN /\ names \in Seq(Int) /\ Sorted(names)
            /\ \A n \in Int : Has(names, n) <=> Append(d, n) \in S
<1> DEFINE T == {q \in S : Front(q) = d}
<1>1. T \in SUBSET (Name \ {<<>>}) /\ IsFiniteSet(T) /\ \A q \in T : Front(q) = d
  BY PathFacts, FileTreeAssumption, FS_Subset
<1>2. \A n \in Int : Append(d, n) \in T <=> Append(d, n) \in S
  BY ChildFacts
<1> HIDE DEF T
<1>3. /\ Peers(T) \in Seq(Int) /\ Sorted(Peers(T))
      /\ \A n \in Int : Append(d, n) \in T <=> \E i \in DOMAIN Peers(T) : Peers(T)[i] = n
  BY <1>1, PeersFacts
<1>4. QED
  BY <1>2, <1>3 DEF Has, T
=============================================================================
