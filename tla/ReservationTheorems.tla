------------------------ MODULE ReservationTheorems -------------------------
(***************************************************************************)
(* Facts about Total, the sum of the reservations of a set of holders:     *)
(* every lemma is about the reservations amount of the holders in S, which *)
(* are finitely many.  Facts about things that correspond one to one, from *)
(* which those about counting and listing follow.  And facts about lines:  *)
(* sequences in which nothing stands twice, as the queue of those that     *)
(* wait for a reservation is one.                                          *)
(***************************************************************************)
EXTENDS Reservations, Integers, Sequences, FiniteSetTheorems, SequenceTheorems, TLAPS

\* The units of one holder are as many as it reserves.
LEMMA TotalOne ==
    ASSUME NEW c, NEW n \in Nat
    PROVE  IsFiniteSet({c} \X (1 .. n)) /\ Cardinality({c} \X (1 .. n)) = n
<1>1. IsFiniteSet({c}) /\ Cardinality({c}) = 1
  BY FS_Singleton
<1>2. IsFiniteSet(1 .. n) /\ Cardinality(1 .. n) = n
  BY FS_Interval
<1>3. /\ IsFiniteSet({c} \X (1 .. n))
      /\ Cardinality({c} \X (1 .. n)) = 1 * n
  BY <1>1, <1>2, FS_Product
<1> QED
  BY <1>3

\* What S reserves is a finite set of units, so its sum is a number: the
\* reduce() over the leases (lint-session.ts:75-76) is well defined.
LEMMA TotalType ==
    ASSUME NEW S, IsFiniteSet(S), NEW amount,
           \A c \in S : amount[c] \in Nat
    PROVE  IsFiniteSet(Units(amount, S)) /\ Total(amount, S) \in Nat
<1> DEFINE block(c) == {c} \X (1 .. amount[c])
           blocks == {block(c) : c \in S}
<1>1. \A c \in S : IsFiniteSet(block(c))
  BY TotalOne
<1>2. IsFiniteSet(blocks)
  <2> DEFINE f == [c \in S |-> block(c)]
  <2>1. f \in Surjection(S, blocks)
    BY DEF Surjection
  <2> HIDE DEF f, blocks
  <2> QED
    BY <2>1, FS_Surjection
<1>3. \A B \in blocks : IsFiniteSet(B)
  BY <1>1
<1>4. IsFiniteSet(Units(amount, S))
  BY <1>2, <1>3, FS_UNION DEF Units
<1> QED
  BY <1>4, FS_CardinalityType DEF Total

\* Nobody reserves nothing.
LEMMA TotalEmpty == \A amount : Total(amount, {}) = 0
<1> TAKE amount
<1>1. Units(amount, {}) = {}
  BY DEF Units
<1> QED
  BY <1>1, FS_EmptySet DEF Total

\* A new holder adds what it reserves.
LEMMA TotalAdd ==
    ASSUME NEW S, IsFiniteSet(S), NEW amount,
           NEW c, c \notin S, \A x \in S \cup {c} : amount[x] \in Nat
    PROVE  Total(amount, S \cup {c}) = Total(amount, S) + amount[c]
<1> DEFINE new == {c} \X (1 .. amount[c])
<1>1. IsFiniteSet(Units(amount, S)) /\ Total(amount, S) \in Nat
  BY TotalType
<1>0. amount[c] \in Nat
  OBVIOUS
<1>2. IsFiniteSet(new) /\ Cardinality(new) = amount[c]
  BY <1>0, TotalOne
<1>3. Units(amount, S \cup {c}) = Units(amount, S) \cup new
  BY DEF Units
<1>4. Units(amount, S) \cap new = {}
  BY DEF Units
<1> HIDE DEF new
<1>5. Cardinality(Units(amount, S) \cup new)
        = Cardinality(Units(amount, S)) + Cardinality(new) - Cardinality({})
  BY <1>1, <1>2, <1>4, FS_Union
<1>6. Cardinality({}) = 0
  BY FS_EmptySet
<1>7. Cardinality(Units(amount, S)) \in Nat
  BY <1>1 DEF Total
<1>8. Cardinality(Units(amount, S) \cup new)
        = Cardinality(Units(amount, S)) + amount[c]
  BY <1>0, <1>2, <1>5, <1>6, <1>7
<1> QED
  BY <1>3, <1>8 DEF Total

\* Fewer holders never reserve more.
LEMMA TotalSubset ==
    ASSUME NEW S, IsFiniteSet(S), NEW amount,
           \A x \in S : amount[x] \in Nat,
           NEW R, R \subseteq S
    PROVE  IsFiniteSet(R) /\ Total(amount, R) <= Total(amount, S)
<1>1. IsFiniteSet(R)
  BY FS_Subset
<1>2. IsFiniteSet(Units(amount, S))
  BY TotalType
<1>3. Units(amount, R) \subseteq Units(amount, S)
  BY DEF Units
<1> QED
  BY <1>1, <1>2, <1>3, FS_Subset DEF Total

\* A holder that leaves takes exactly what it reserves with it.
LEMMA TotalRemove ==
    ASSUME NEW S, IsFiniteSet(S), NEW amount,
           \A x \in S : amount[x] \in Nat,
           NEW c, c \in S
    PROVE  Total(amount, S \ {c}) = Total(amount, S) - amount[c]
<1> DEFINE R == S \ {c}
<1>1. IsFiniteSet(R) /\ c \notin R /\ S = R \cup {c}
  BY FS_Subset
<1>2. \A x \in R \cup {c} : amount[x] \in Nat
  OBVIOUS
<1>3. Total(amount, R) \in Nat
  <2> HIDE DEF R
  <2> QED
    BY <1>1, <1>2, TotalType
<1>4. Total(amount, R \cup {c}) = Total(amount, R) + amount[c]
  <2> HIDE DEF R
  <2> QED
    BY <1>1, <1>2, TotalAdd
<1>5. amount[c] \in Nat
  BY <1>2
<1> HIDE DEF R
<1>6. Total(amount, R) = Total(amount, S) - amount[c]
  BY <1>1, <1>3, <1>4, <1>5
<1> QED
  BY <1>6 DEF R

\* Holders that have nothing in common reserve the sum of what each set does.
LEMMA TotalUnion ==
    ASSUME NEW S, IsFiniteSet(S), NEW T, IsFiniteSet(T), S \cap T = {}, NEW amount,
           \A x \in S \cup T : amount[x] \in Nat
    PROVE  Total(amount, S \cup T) = Total(amount, S) + Total(amount, T)
<1>1. /\ IsFiniteSet(Units(amount, S)) /\ Total(amount, S) \in Nat
      /\ IsFiniteSet(Units(amount, T)) /\ Total(amount, T) \in Nat
  BY TotalType
<1>2. /\ Units(amount, S \cup T) = Units(amount, S) \cup Units(amount, T)
      /\ Units(amount, S) \cap Units(amount, T) = {}
  BY DEF Units
<1>3. Cardinality(Units(amount, S) \cup Units(amount, T))
        = Cardinality(Units(amount, S)) + Cardinality(Units(amount, T)) - Cardinality({})
  BY <1>1, <1>2, FS_Union
<1>4. Cardinality({}) = 0
  BY FS_EmptySet
<1>5. /\ Cardinality(Units(amount, S)) \in Nat
      /\ Cardinality(Units(amount, T)) \in Nat
  BY <1>1 DEF Total
<1>6. Cardinality(Units(amount, S) \cup Units(amount, T))
        = Cardinality(Units(amount, S)) + Cardinality(Units(amount, T))
  BY <1>3, <1>4, <1>5
<1> QED
  BY <1>2, <1>6 DEF Total

\* Nothing is left out where one thing each goes to as many things.
LEMMA OneEach ==
    ASSUME NEW S, NEW T, IsFiniteSet(S), IsFiniteSet(T), Cardinality(S) = Cardinality(T),
           NEW f \in [S -> T], \A x, y \in S : f[x] = f[y] => x = y
    PROVE  \A y \in T : \E x \in S : f[x] = y
<1>1. f \in Injection(S, T)
  BY DEF Injection, IsInjective
<1>2. f \in Surjection(S, T)
  BY <1>1, FS_Injection
<1> QED
  BY <1>2 DEF Surjection

\* What corresponds one to one is as much.
LEMMA AsMany ==
    ASSUME NEW S, NEW T, IsFiniteSet(S), NEW f \in [S -> T],
           \A x, y \in S : f[x] = f[y] => x = y,
           \A y \in T : \E x \in S : f[x] = y
    PROVE  IsFiniteSet(T) /\ Cardinality(T) = Cardinality(S)
<1>1. f \in Surjection(S, T)
  BY DEF Surjection
<1>2. f \in Injection(S, T)
  BY DEF Injection, IsInjective
<1> QED
  BY <1>1, <1>2, FS_Surjection

\* What comes from finitely many things is finite.
LEMMA ImageFinite ==
    ASSUME NEW S, NEW T, IsFiniteSet(S), NEW f \in [S -> T], \A y \in T : \E x \in S : f[x] = y
    PROVE  IsFiniteSet(T)
<1>1. f \in Surjection(S, T)
  BY DEF Surjection
<1> QED
  BY <1>1, FS_Surjection

\* What goes to finitely many things, each to its own one, is finite.
LEMMA SourceFinite ==
    ASSUME NEW S, NEW T, IsFiniteSet(T), NEW f \in [S -> T],
           \A x, y \in S : f[x] = f[y] => x = y
    PROVE  IsFiniteSet(S)
<1>1. f \in Injection(S, T)
  BY DEF Injection, IsInjective
<1> QED
  BY <1>1, FS_Injection

\* The least of some numbers is one of them, and none is smaller.
LEMMA LeastNat ==
    ASSUME NEW S, S \subseteq Nat, S # {}
    PROVE  Least(S) \in S /\ \A m \in S : Least(S) <= m
<1> DEFINE below == {0 .. m : m \in S}
           R == StrictSubsetOrdering(Nat)
<1>1. IsWellFoundedOn(R, FiniteSubsetsOf(Nat))
  BY FS_StrictSubsetOrderingWellFounded
<1>2. below \subseteq FiniteSubsetsOf(Nat)
  <2> SUFFICES ASSUME NEW m \in S PROVE 0 .. m \in FiniteSubsetsOf(Nat)
    OBVIOUS
  <2>1. m \in Int /\ 0 \in Int
    OBVIOUS
  <2>2. IsFiniteSet(0 .. m)
    BY <2>1, FS_Interval
  <2> QED
    BY <2>2 DEF FiniteSubsetsOf
<1>3. below # {}
  OBVIOUS
<1>4. PICK B \in below : \A C \in below : ~ (<<C, B>> \in R)
  <2> HIDE DEF R, below
  <2> QED
    BY <1>1, <1>2, <1>3, WFMin
<1>5. PICK n \in S : B = 0 .. n
  BY <1>4
<1>6. ASSUME NEW m \in S, ~ (n <= m) PROVE FALSE
  <2>1. 0 .. m \subseteq 0 .. n /\ n \in 0 .. n /\ n \notin 0 .. m
    BY <1>6
  <2>2. <<0 .. m, B>> \in R
    BY <1>5, <2>1 DEF StrictSubsetOrdering
  <2> QED
    BY <1>4, <2>2
<1>7. n \in S /\ \A m \in S : n <= m
  BY <1>6
<1> HIDE DEF below, R
<1> QED
  BY <1>7 DEF Least

-----------------------------------------------------------------------------
(* Lines. *)

Members(q) == {q[i] : i \in 1 .. Len(q)}
Distinct(q) == \A i, j \in 1 .. Len(q) : q[i] = q[j] => i = j

\* The line without its i-th member.
Omitting(q, i) == SubSeq(q, 1, i - 1) \o SubSeq(q, i + 1, Len(q))

\* The line behind the head of a line.
LEMMA TailMembers ==
    ASSUME NEW S, NEW q \in Seq(S), q # <<>>
    PROVE  /\ Head(q) \in S /\ Tail(q) \in Seq(S)
           /\ Head(q) = q[1] /\ 1 \in 1 .. Len(q)
           /\ Len(Tail(q)) = Len(q) - 1
           /\ \A i \in 1 .. Len(Tail(q)) :
                  i + 1 \in 1 .. Len(q) /\ Tail(q)[i] = q[i + 1]
<1> Len(q) \in Nat /\ Len(q) # 0
  OBVIOUS
<1> QED
  OBVIOUS

\* The line behind its head.
LEMMA TailApart ==
    ASSUME NEW S, NEW q \in Seq(S), q # <<>>, Distinct(q)
    PROVE  /\ Head(q) \in Members(q) /\ Distinct(Tail(q))
           /\ Members(Tail(q)) = Members(q) \ {Head(q)}
<1>0. /\ Tail(q) \in Seq(S) /\ Head(q) = q[1] /\ 1 \in 1 .. Len(q)
      /\ Len(Tail(q)) = Len(q) - 1 /\ Len(q) \in Nat
      /\ \A i \in 1 .. Len(Tail(q)) : i + 1 \in 1 .. Len(q) /\ Tail(q)[i] = q[i + 1]
  BY TailMembers
<1>1. Distinct(Tail(q))
  <2> SUFFICES ASSUME NEW i \in 1 .. Len(Tail(q)), NEW j \in 1 .. Len(Tail(q)),
                      Tail(q)[i] = Tail(q)[j]
               PROVE  i = j
    BY DEF Distinct
  <2>1. i + 1 = j + 1
    BY <1>0 DEF Distinct
  <2> QED
    BY <2>1
<1>2. ASSUME NEW c \in Members(Tail(q)) PROVE c \in Members(q) \ {Head(q)}
  <2>1. PICK i \in 1 .. Len(Tail(q)) : c = Tail(q)[i]
    BY DEF Members
  <2>2. i + 1 \in 1 .. Len(q) /\ c = q[i + 1] /\ i + 1 # 1
    BY <1>0, <2>1
  <2> QED
    BY <1>0, <2>2 DEF Members, Distinct
<1>3. ASSUME NEW c \in Members(q), c # Head(q) PROVE c \in Members(Tail(q))
  <2>1. PICK i \in 1 .. Len(q) : c = q[i]
    BY DEF Members
  <2>2. i - 1 \in 1 .. Len(Tail(q)) /\ (i - 1) + 1 = i
    BY <1>0, <1>3, <2>1
  <2> QED
    BY <1>0, <2>1, <2>2 DEF Members
<1>4. Head(q) \in Members(q)
  BY <1>0 DEF Members
<1> QED
  BY <1>1, <1>2, <1>3, <1>4

\* A new request at the end of the line.
LEMMA AppendApart ==
    ASSUME NEW S, NEW q \in Seq(S), Distinct(q), NEW c \in S, c \notin Members(q)
    PROVE  Distinct(Append(q, c)) /\ Members(Append(q, c)) = Members(q) \cup {c}
<1> DEFINE r == Append(q, c)
<1>1. /\ Len(r) = Len(q) + 1 /\ r[Len(q) + 1] = c /\ Len(q) \in Nat
      /\ \A i \in 1 .. Len(q) : r[i] = q[i]
  OBVIOUS
<1> HIDE DEF r
<1>2. Distinct(r)
  BY <1>1 DEF Distinct, Members
<1>3. Members(r) = Members(q) \cup {c}
  <2>1. \A x \in Members(r) : x \in Members(q) \cup {c}
    BY <1>1 DEF Members
  <2>2. \A x \in Members(q) \cup {c} : x \in Members(r)
    BY <1>1 DEF Members
  <2> QED
    BY <2>1, <2>2
<1> QED
  BY <1>2, <1>3 DEF r

\* Omitting one member keeps the others and their order.
LEMMA OmittingMembers ==
    ASSUME NEW S, NEW q \in Seq(S), NEW i \in 1 .. Len(q)
    PROVE  /\ Omitting(q, i) \in Seq(S)
           /\ Len(Omitting(q, i)) = Len(q) - 1
           /\ \A j \in 1 .. Len(Omitting(q, i)) :
                  Omitting(q, i)[j] = IF j < i THEN q[j] ELSE q[j + 1]
<1> DEFINE f == SubSeq(q, 1, i - 1)
           g == SubSeq(q, i + 1, Len(q))
<1>1. f \in Seq(S) /\ Len(f) = i - 1 /\ \A j \in 1 .. i - 1 : f[j] = q[j]
  OBVIOUS
<1>2. /\ g \in Seq(S) /\ Len(g) = Len(q) - i
      /\ \A j \in 1 .. Len(q) - i : g[j] = q[i + j]
  OBVIOUS
<1> HIDE DEF f, g
<1>3. /\ f \o g \in Seq(S) /\ Len(f \o g) = Len(q) - 1
      /\ \A j \in 1 .. Len(q) - 1 :
             (f \o g)[j] = IF j <= i - 1 THEN f[j] ELSE g[j - (i - 1)]
  <2>1. /\ f \o g \in Seq(S) /\ Len(f \o g) = Len(f) + Len(g)
        /\ \A k \in 1 .. Len(f) + Len(g) :
               (f \o g)[k] = IF k <= Len(f) THEN f[k] ELSE g[k - Len(f)]
    BY <1>1, <1>2, ConcatProperties
  <2>2. Len(f) + Len(g) = Len(q) - 1
    BY <1>1, <1>2
  <2> QED
    BY <2>1, <2>2, <1>1
<1>4. ASSUME NEW j \in 1 .. Len(q) - 1
      PROVE  (f \o g)[j] = IF j < i THEN q[j] ELSE q[j + 1]
  <2>1. CASE j < i
    BY <2>1, <1>1, <1>3
  <2>2. CASE ~(j < i)
    <3>1. j - (i - 1) \in 1 .. Len(q) - i /\ i + (j - (i - 1)) = j + 1
      BY <2>2
    <3> QED
      BY <2>2, <3>1, <1>2, <1>3
  <2> QED
    BY <2>1, <2>2
<1> QED
  BY <1>3, <1>4 DEF Omitting, f, g

\* The member that is omitted is the only one that is missing.
LEMMA OmittingApart ==
    ASSUME NEW S, NEW q \in Seq(S), Distinct(q), NEW i \in 1 .. Len(q)
    PROVE  /\ Omitting(q, i) \in Seq(S) /\ Distinct(Omitting(q, i))
           /\ Members(Omitting(q, i)) = Members(q) \ {q[i]}
<1> DEFINE r == Omitting(q, i)
<1>1. /\ r \in Seq(S) /\ Len(r) = Len(q) - 1 /\ Len(q) \in Nat
      /\ \A j \in 1 .. Len(r) : r[j] = IF j < i THEN q[j] ELSE q[j + 1]
  BY OmittingMembers
<1> HIDE DEF r
<1>2. Distinct(r)
  <2> SUFFICES ASSUME NEW j \in 1 .. Len(r), NEW k \in 1 .. Len(r), r[j] = r[k]
               PROVE  j = k
    BY DEF Distinct
  <2> DEFINE at(x) == IF x < i THEN x ELSE x + 1
  <2>1. q[at(j)] = q[at(k)] /\ at(j) \in 1 .. Len(q) /\ at(k) \in 1 .. Len(q)
    BY <1>1
  <2>2. at(j) = at(k)
    BY <2>1 DEF Distinct
  <2> QED
    BY <2>2
<1>3. ASSUME NEW x \in Members(r) PROVE x \in Members(q) \ {q[i]}
  <2>1. PICK j \in 1 .. Len(r) : x = r[j]
    BY DEF Members
  <2>2. PICK k \in 1 .. Len(q) : x = q[k] /\ k # i
    BY <1>1, <2>1
  <2> QED
    BY <2>2 DEF Members, Distinct
<1>4. ASSUME NEW x \in Members(q), x # q[i] PROVE x \in Members(r)
  <2>1. PICK k \in 1 .. Len(q) : x = q[k]
    BY DEF Members
  <2>2. CASE k < i
    BY <1>1, <2>1, <2>2 DEF Members
  <2>3. CASE k > i
    <3>1. k - 1 \in 1 .. Len(r) /\ r[k - 1] = x
      BY <1>1, <2>1, <2>3
    <3> QED
      BY <3>1 DEF Members
  <2> QED
    BY <1>4, <2>1, <2>2, <2>3
<1> QED
  BY <1>1, <1>2, <1>3, <1>4 DEF r

\* A line without its first n members.
LEMMA RestApart ==
    ASSUME NEW S, NEW q \in Seq(S), Distinct(q), NEW n \in 0 .. Len(q)
    PROVE  LET r == SubSeq(q, n + 1, Len(q))
           IN  /\ r \in Seq(S) /\ Distinct(r) /\ Members(r) \subseteq Members(q)
               /\ \A i \in 1 .. n : q[i] \notin Members(r)
<1> DEFINE r == SubSeq(q, n + 1, Len(q))
<1>1. /\ r \in Seq(S) /\ Len(r) = Len(q) - n /\ Len(q) \in Nat
      /\ \A i \in 1 .. Len(r) : i + n \in 1 .. Len(q) /\ r[i] = q[i + n]
  OBVIOUS
<1> HIDE DEF r
<1>2. Distinct(r)
  <2> SUFFICES ASSUME NEW i \in 1 .. Len(r), NEW j \in 1 .. Len(r), r[i] = r[j] PROVE i = j
    BY DEF Distinct
  <2>1. i + n = j + n
    BY <1>1 DEF Distinct
  <2> QED
    BY <2>1
<1>3. ASSUME NEW x \in Members(r)
      PROVE  x \in Members(q) /\ \A i \in 1 .. n : q[i] # x
  <2>1. PICK j \in 1 .. Len(r) : x = r[j]
    BY DEF Members
  <2>2. j + n \in 1 .. Len(q) /\ x = q[j + n]
    BY <1>1, <2>1
  <2>3. \A i \in 1 .. n : i \in 1 .. Len(q) /\ i # j + n
    BY <1>1
  <2> QED
    BY <2>2, <2>3 DEF Members, Distinct
<1> QED
  BY <1>1, <1>2, <1>3 DEF r
=============================================================================
