---------------------------- MODULE ListTheorems ----------------------------
(***************************************************************************)
(* Facts about the operators of Lists, and about the lists of the models.  *)
(* They are proved by induction over the length of a list, in the form     *)
(* that needs no operator as a parameter: over a set of natural numbers,   *)
(* or a set of lists, that has the property.                               *)
(***************************************************************************)
EXTENDS Lists, SequenceTheorems, FiniteSetTheorems, WellFoundedInduction, TLAPS

-----------------------------------------------------------------------------
(* Induction                                                               *)

LEMMA LeastNat == ASSUME NEW S, S \subseteq Nat, S # {}
                  PROVE  \E n \in S : \A m \in S : n <= m
  <1> DEFINE Below == {x \in Nat \X Nat : x[1] < x[2]}
  <1>1. IsWellFoundedOn(Below, Nat)
    BY NatLessThanWellFounded DEF OpToRel
  <1>2. \A m, n \in Nat : <<m, n>> \in Below <=> m < n
    OBVIOUS
  <1> HIDE DEF Below
  <1>3. \E n \in S : \A m \in S : ~ (<<m, n>> \in Below)
    BY <1>1, WFMin
  <1>4. PICK n \in S : \A m \in S : ~ (<<m, n>> \in Below)
    BY <1>3
  <1>5. ASSUME NEW m \in S PROVE n <= m
    <2>1. m \in Nat /\ n \in Nat
      OBVIOUS
    <2>2. ~ (m < n)
      BY <1>2, <1>4, <1>5, <2>1
    <2>3. QED
      BY <2>1, <2>2
  <1>6. QED
    BY <1>4, <1>5

LEMMA Induction == ASSUME NEW S, 0 \in S, \A n \in Nat : n \in S => n + 1 \in S
                   PROVE  \A n \in Nat : n \in S
  <1> SUFFICES ASSUME NEW k \in Nat, k \notin S PROVE FALSE
    OBVIOUS
  <1> DEFINE out == {n \in Nat : n \notin S}
  <1>1. PICK n \in out : \A m \in out : n <= m
    BY LeastNat
  <1>2. n - 1 \in Nat /\ n - 1 \in S
    BY <1>1
  <1>3. QED
    BY <1>1, <1>2

LEMMA ListInduction ==
  ASSUME NEW T, NEW S, <<>> \in S,
         \A s \in Seq(T), e \in T : s \in S => Append(s, e) \in S
  PROVE  \A s \in Seq(T) : s \in S
  <1> DEFINE N == {n \in Nat : \A s \in Seq(T) : Len(s) = n => s \in S}
  <1>1. 0 \in N
    BY EmptySeq
  <1>2. ASSUME NEW n \in Nat, n \in N PROVE n + 1 \in N
    <2> SUFFICES ASSUME NEW s \in Seq(T), Len(s) = n + 1 PROVE s \in S
      OBVIOUS
    <2>1. s # <<>>
      BY EmptySeq
    <2>2. PICK t \in Seq(T), e \in T : s = Append(t, e)
      BY <2>1, SequenceEmptyOrAppend
    <2>3. Len(t) \in Nat /\ Len(s) = Len(t) + 1
      BY <2>2, AppendProperties, LenProperties
    <2>4. t \in S
      BY <1>2, <2>3
    <2>5. QED
      BY <2>2, <2>4
  <1> HIDE DEF N
  <1>3. \A n \in Nat : n \in N
    BY <1>1, <1>2, Induction
  <1>4. QED
    BY <1>3, LenProperties DEF N

-----------------------------------------------------------------------------
(* The recursion of Sublist                                                *)

\* The recursive function up to the n-th element.
UpTo(f, s, P, n) == f = [i \in 0 .. n |-> IF i = 0 THEN <<>>
                                          ELSE IF i \in P THEN Append(f[i - 1], s[i])
                                          ELSE f[i - 1]]

LEMMA UpToSteps ==
  ASSUME NEW f, NEW s, NEW P, NEW n \in Nat, UpTo(f, s, P, n)
  PROVE  /\ f[0] = <<>>
         /\ \A i \in 1 .. n : f[i] = IF i \in P THEN Append(f[i - 1], s[i]) ELSE f[i - 1]
  <1>1. \A i \in 0 .. n : f[i] = IF i = 0 THEN <<>>
                                 ELSE IF i \in P THEN Append(f[i - 1], s[i])
                                 ELSE f[i - 1]
    BY DEF UpTo
  <1>2. QED
    BY <1>1

LEMMA UpToExists == ASSUME NEW s, NEW P, NEW n \in Nat
                    PROVE  \E f : UpTo(f, s, P, n)
  <1> DEFINE S == {m \in Nat : \E f : UpTo(f, s, P, m)}
  <1>1. 0 \in S
    <2>1. UpTo([i \in 0 .. 0 |-> <<>>], s, P, 0)
      BY DEF UpTo
    <2>2. QED
      BY <2>1, Zenon
  <1>2. ASSUME NEW m \in Nat, m \in S PROVE m + 1 \in S
    <2>1. PICK f : UpTo(f, s, P, m)
      BY <1>2
    <2> DEFINE g == [i \in 0 .. m + 1 |->
                       IF i = m + 1
                       THEN IF i \in P THEN Append(f[m], s[i]) ELSE f[m]
                       ELSE f[i]]
    <2>2. UpTo(g, s, P, m + 1)
      <3>1. \A i \in 0 .. m : f[i] = IF i = 0 THEN <<>>
                                     ELSE IF i \in P THEN Append(f[i - 1], s[i])
                                     ELSE f[i - 1]
        BY <2>1 DEF UpTo
      <3>2. \A i \in 0 .. m + 1 : g[i] = IF i = 0 THEN <<>>
                                         ELSE IF i \in P THEN Append(g[i - 1], s[i])
                                         ELSE g[i - 1]
        BY <3>1
      <3>3. g = [i \in 0 .. m + 1 |-> g[i]]
        OBVIOUS
      <3> HIDE DEF g
      <3>4. QED
        BY <3>2, <3>3 DEF UpTo
    <2>3. QED
      BY <2>2
  <1> HIDE DEF S
  <1>3. n \in S
    BY <1>1, <1>2, Induction
  <1>4. QED
    BY <1>3 DEF S

\* Two such functions agree as far as the lists and the places do.
LEMMA UpToAgree ==
  ASSUME NEW f, NEW s, NEW P, NEW n \in Nat, UpTo(f, s, P, n),
         NEW g, NEW t, NEW Q, NEW m \in Nat, UpTo(g, t, Q, m),
         n <= m, \A i \in 1 .. n : s[i] = t[i] /\ (i \in P <=> i \in Q)
  PROVE  f[n] = g[n]
  <1> DEFINE S == {i \in Nat : i <= n => f[i] = g[i]}
  <1>f. /\ f[0] = <<>>
        /\ \A i \in 1 .. n : f[i] = IF i \in P THEN Append(f[i - 1], s[i]) ELSE f[i - 1]
    BY UpToSteps
  <1>g. /\ g[0] = <<>>
        /\ \A i \in 1 .. m : g[i] = IF i \in Q THEN Append(g[i - 1], t[i]) ELSE g[i - 1]
    BY UpToSteps
  <1>1. 0 \in S
    BY <1>f, <1>g
  <1>2. ASSUME NEW i \in Nat, i \in S PROVE i + 1 \in S
    <2> SUFFICES ASSUME i + 1 <= n PROVE f[i + 1] = g[i + 1]
      OBVIOUS
    <2>1. i + 1 \in 1 .. n /\ i + 1 \in 1 .. m /\ (i + 1) - 1 = i
      OBVIOUS
    <2>2. f[i] = g[i]
      BY <1>2, <2>1
    <2>3. f[i + 1] = IF i + 1 \in P THEN Append(f[i], s[i + 1]) ELSE f[i]
      BY <1>f, <2>1
    <2>4. g[i + 1] = IF i + 1 \in Q THEN Append(g[i], t[i + 1]) ELSE g[i]
      BY <1>g, <2>1
    <2>5. s[i + 1] = t[i + 1] /\ (i + 1 \in P <=> i + 1 \in Q)
      BY <2>1
    <2>6. QED
      BY <2>2, <2>3, <2>4, <2>5
  <1> HIDE DEF S
  <1>3. n \in S
    BY <1>1, <1>2, Induction
  <1>4. QED
    BY <1>3 DEF S

LEMMA SublistUpTo ==
  ASSUME NEW T, NEW s \in Seq(T), NEW P
  PROVE  \E f : UpTo(f, s, P, Len(s)) /\ Sublist(s, P) = f[Len(s)]
  <1> PICK l \in Nat : l = Len(s)
    BY LenProperties
  <1> DEFINE f == CHOOSE f : UpTo(f, s, P, l)
  <1>1. UpTo(f, s, P, l)
    BY UpToExists
  <1>2. Sublist(s, P) = f[l]
    BY DEF Sublist, UpTo
  <1>3. QED
    BY <1>1, <1>2

\* Only the places within the list matter.
LEMMA SublistSame ==
  ASSUME NEW T, NEW s \in Seq(T), NEW P, NEW Q, \A i \in 1 .. Len(s) : i \in P <=> i \in Q
  PROVE  Sublist(s, P) = Sublist(s, Q)
  <1> PICK l \in Nat : l = Len(s)
    BY LenProperties
  <1>1. PICK f : UpTo(f, s, P, l) /\ Sublist(s, P) = f[l]
    BY SublistUpTo
  <1>2. PICK g : UpTo(g, s, Q, l) /\ Sublist(s, Q) = g[l]
    BY SublistUpTo
  <1>3. f[l] = g[l]
    BY <1>1, <1>2, UpToAgree
  <1>4. QED
    BY <1>1, <1>2, <1>3

LEMMA SublistEmpty == ASSUME NEW P PROVE Sublist(<<>>, P) = <<>>
  <1>1. <<>> \in Seq({}) /\ Len(<<>>) = 0
    BY EmptySeq
  <1>2. PICK f : UpTo(f, <<>>, P, 0) /\ Sublist(<<>>, P) = f[0]
    BY <1>1, SublistUpTo
  <1>3. QED
    BY <1>2, UpToSteps

\* The last element comes last, if its place is among them.
LEMMA SublistAppend ==
  ASSUME NEW T, NEW s \in Seq(T), NEW e \in T, NEW P
  PROVE  Sublist(Append(s, e), P) = IF Len(s) + 1 \in P THEN Append(Sublist(s, P), e)
                                    ELSE Sublist(s, P)
  <1> PICK l \in Nat : l = Len(s)
    BY LenProperties
  <1> DEFINE t == Append(s, e)
  <1>1. /\ t \in Seq(T) /\ Len(t) = l + 1
        /\ \A i \in 1 .. l : t[i] = s[i]
        /\ t[l + 1] = e
    BY AppendProperties
  <1> HIDE DEF t
  <1>2. PICK f : UpTo(f, s, P, l) /\ Sublist(s, P) = f[l]
    BY SublistUpTo
  <1>3. PICK g : UpTo(g, t, P, l + 1) /\ Sublist(t, P) = g[l + 1]
    BY <1>1, SublistUpTo
  <1>4. g[l + 1] = IF l + 1 \in P THEN Append(g[(l + 1) - 1], t[l + 1]) ELSE g[(l + 1) - 1]
    BY <1>3, UpToSteps
  <1>5. f[l] = g[l]
    <2>1. l <= l + 1 /\ \A i \in 1 .. l : s[i] = t[i] /\ (i \in P <=> i \in P)
      BY <1>1
    <2>2. QED
      BY <1>2, <1>3, <2>1, UpToAgree
  <1>6. (l + 1) - 1 = l
    OBVIOUS
  <1>7. QED
    BY <1>1, <1>2, <1>3, <1>4, <1>5, <1>6 DEF t

-----------------------------------------------------------------------------
(* What is in a list                                                       *)

LEMMA EmptyContains == \A x : ~ Contains(<<>>, x)
  BY DEF Contains

LEMMA AppendContains ==
  ASSUME NEW T, NEW s \in Seq(T), NEW y \in T
  PROVE  \A x : Contains(Append(s, y), x) <=> Contains(s, x) \/ x = y
  <1> PICK l \in Nat : l = Len(s)
    BY LenProperties
  <1> DEFINE q == Append(s, y)
  <1>1. /\ q \in Seq(T) /\ Len(q) = l + 1
        /\ \A k \in 1 .. l : q[k] = s[k]
        /\ q[l + 1] = y
    BY AppendProperties
  <1> HIDE DEF q
  <1>2. \A x : Contains(q, x) <=> Contains(s, x) \/ x = y
    BY <1>1 DEF Contains
  <1>3. QED
    BY <1>2 DEF q

LEMMA ContainsElement ==
  ASSUME NEW T, NEW s \in Seq(T), NEW x, Contains(s, x) PROVE x \in T
  BY ElementOfSeq DEF Contains

LEMMA ContainsToSet ==
  ASSUME NEW T, NEW s \in Seq(T)
  PROVE  \A x : Contains(s, x) <=> x \in ToSet(s)
  BY LenProperties DEF Contains, ToSet

-----------------------------------------------------------------------------
(* Only                                                                    *)

LEMMA OnlyEmpty == ASSUME NEW S PROVE Only(<<>>, S) = <<>>
  BY SublistEmpty DEF Only

LEMMA OnlyAppend ==
  ASSUME NEW T, NEW s \in Seq(T), NEW e \in T, NEW S
  PROVE  Only(Append(s, e), S) = IF e \in S THEN Append(Only(s, S), e) ELSE Only(s, S)
  <1> PICK l \in Nat : l = Len(s)
    BY LenProperties
  <1> DEFINE t == Append(s, e)
             P == {i \in 1 .. l : s[i] \in S}
             Q == {i \in 1 .. l + 1 : t[i] \in S}
  <1>1. /\ t \in Seq(T) /\ Len(t) = l + 1
        /\ \A i \in 1 .. l : t[i] = s[i]
        /\ t[l + 1] = e
    BY AppendProperties
  <1>2. Only(t, S) = Sublist(t, Q) /\ Only(s, S) = Sublist(s, P)
    BY <1>1 DEF Only
  <1> HIDE DEF t
  <1>3. \A i \in 1 .. l : i \in P <=> i \in Q
    BY <1>1
  <1>4. l + 1 \in Q <=> e \in S
    BY <1>1
  <1> HIDE DEF P, Q
  <1>5. Sublist(s, P) = Sublist(s, Q)
    BY <1>3, SublistSame
  <1>6. Sublist(t, Q) = IF l + 1 \in Q THEN Append(Sublist(s, Q), e) ELSE Sublist(s, Q)
    BY SublistAppend DEF t
  <1>7. QED
    BY <1>2, <1>4, <1>5, <1>6 DEF t

LEMMA OnlyType == ASSUME NEW T, NEW S
                  PROVE  \A s \in Seq(T) : Only(s, S) \in Seq(T \cap S)
  <1> DEFINE L == {s \in Seq(T) : Only(s, S) \in Seq(T \cap S)}
  <1>1. <<>> \in L
    BY OnlyEmpty, EmptySeq
  <1>2. ASSUME NEW s \in Seq(T), NEW e \in T, s \in L PROVE Append(s, e) \in L
    <2>1. Append(s, e) \in Seq(T)
      BY AppendProperties
    <2>2. CASE e \in S
      <3>1. Append(Only(s, S), e) \in Seq(T \cap S)
        BY <1>2, <2>2, AppendProperties
      <3>2. Only(Append(s, e), S) = Append(Only(s, S), e)
        BY <2>2, OnlyAppend
      <3>3. QED
        BY <2>1, <3>1, <3>2
    <2>3. CASE e \notin S
      BY <1>2, <2>1, <2>3, OnlyAppend
    <2>4. QED
      BY <2>2, <2>3
  <1> HIDE DEF L
  <1>3. \A s \in Seq(T) : s \in L
    BY <1>1, <1>2, ListInduction
  <1>4. QED
    BY <1>3 DEF L

LEMMA OnlyContains ==
  ASSUME NEW T, NEW S
  PROVE  \A s \in Seq(T) : \A x : Contains(Only(s, S), x) <=> Contains(s, x) /\ x \in S
  <1> DEFINE L == {s \in Seq(T) : \A x : Contains(Only(s, S), x) <=> Contains(s, x) /\ x \in S}
  <1>1. <<>> \in L
    BY OnlyEmpty, EmptySeq, EmptyContains
  <1>2. ASSUME NEW s \in Seq(T), NEW e \in T, s \in L PROVE Append(s, e) \in L
    <2>1. /\ Append(s, e) \in Seq(T)
          /\ \A x : Contains(Append(s, e), x) <=> Contains(s, x) \/ x = e
      BY AppendProperties, AppendContains
    <2>2. CASE e \in S
      <3>1. Only(s, S) \in Seq(T \cap S) /\ e \in T \cap S
        BY <2>2, OnlyType
      <3>2. \A x : Contains(Append(Only(s, S), e), x) <=> Contains(Only(s, S), x) \/ x = e
        BY <3>1, AppendContains
      <3>3. Only(Append(s, e), S) = Append(Only(s, S), e)
        BY <2>2, OnlyAppend
      <3>4. QED
        BY <1>2, <2>1, <2>2, <3>2, <3>3
    <2>3. CASE e \notin S
      <3>1. Only(Append(s, e), S) = Only(s, S)
        BY <2>3, OnlyAppend
      <3>2. QED
        BY <1>2, <2>1, <2>3, <3>1
    <2>4. QED
      BY <2>2, <2>3
  <1> HIDE DEF L
  <1>3. \A s \in Seq(T) : s \in L
    BY <1>1, <1>2, ListInduction
  <1>4. QED
    BY <1>3 DEF L

LEMMA OnlyOnly ==
  ASSUME NEW T, NEW S, NEW R
  PROVE  \A s \in Seq(T) : Only(Only(s, S), R) = Only(s, S \cap R)
  <1> DEFINE L == {s \in Seq(T) : Only(Only(s, S), R) = Only(s, S \cap R)}
  <1>1. <<>> \in L
    BY OnlyEmpty, EmptySeq
  <1>2. ASSUME NEW s \in Seq(T), NEW e \in T, s \in L PROVE Append(s, e) \in L
    <2>1. Append(s, e) \in Seq(T)
      BY AppendProperties
    <2>2. Only(Append(s, e), S \cap R) = IF e \in S \cap R THEN Append(Only(s, S \cap R), e)
                                         ELSE Only(s, S \cap R)
      BY OnlyAppend
    <2>3. CASE e \in S
      <3> DEFINE o == Only(s, S)
                 U == T \cap S
      <3>1. o \in Seq(U) /\ e \in U
        BY <2>3, OnlyType
      <3>2. Only(Append(s, e), S) = Append(o, e)
        BY <2>3, OnlyAppend
      <3> HIDE DEF o, U, L
      <3>3. Only(Append(o, e), R) = IF e \in R THEN Append(Only(o, R), e) ELSE Only(o, R)
        BY <3>1, OnlyAppend
      <3>4. Only(o, R) = Only(s, S \cap R)
        BY <1>2 DEF o, L
      <3>5. QED
        BY <2>1, <2>2, <2>3, <3>2, <3>3, <3>4 DEF L
    <2>4. CASE e \notin S
      <3>1. Only(Append(s, e), S) = Only(s, S)
        BY <2>4, OnlyAppend
      <3>2. QED
        BY <1>2, <2>1, <2>2, <2>4, <3>1
    <2>5. QED
      BY <2>3, <2>4
  <1> HIDE DEF L
  <1>3. \A s \in Seq(T) : s \in L
    BY <1>1, <1>2, ListInduction
  <1>4. QED
    BY <1>3 DEF L

\* A list that keeps its head.
LEMMA OnlyHead ==
  ASSUME NEW T, NEW S
  PROVE  \A s \in Seq(T) : s # <<>> /\ Head(s) \in S =>
                             Only(s, S) # <<>> /\ Head(Only(s, S)) = Head(s)
  <1> DEFINE Kept(s) == s # <<>> /\ Head(s) \in S =>
                          Only(s, S) # <<>> /\ Head(Only(s, S)) = Head(s)
             L == {s \in Seq(T) : Kept(s)}
  <1>1. <<>> \in L
    BY EmptySeq
  <1>2. ASSUME NEW s \in Seq(T), NEW e \in T, s \in L PROVE Append(s, e) \in L
    <2> DEFINE o == Only(s, S)
               U == T \cap S
    <2>1. /\ Append(s, e) \in Seq(T) /\ Append(s, e) # <<>>
          /\ Only(Append(s, e), S) = IF e \in S THEN Append(o, e) ELSE o
      BY AppendProperties, OnlyAppend
    <2>2. o \in Seq(U)
      BY OnlyType
    <2> HIDE DEF U
    <2>3. CASE s = <<>>
      <3>1. o = <<>> /\ Head(Append(s, e)) = e /\ Head(Append(o, e)) = e /\ Append(o, e) # <<>>
        BY <2>3, OnlyEmpty
      <3>2. Kept(Append(s, e))
        <4> HIDE DEF o
        <4>1. QED
          BY <2>1, <3>1
      <3>3. QED
        BY <2>1, <3>2
    <2>4. CASE s # <<>>
      <3>1. Head(Append(s, e)) = Head(s)
        <4>1. Len(s) >= 1
          BY <2>4, EmptySeq, LenProperties
        <4>2. QED
          BY <4>1, AppendProperties
      <3>2. ASSUME Head(s) \in S PROVE o # <<>> /\ Head(o) = Head(s)
        BY <1>2, <2>4, <3>2
      <3>3. o # <<>> /\ e \in U => Append(o, e) # <<>> /\ Head(Append(o, e)) = Head(o)
        <4> HIDE DEF o
        <4> SUFFICES ASSUME o # <<>>, e \in U
                     PROVE  Append(o, e) # <<>> /\ Head(Append(o, e)) = Head(o)
          OBVIOUS
        <4>1. Len(o) >= 1
          BY <2>2, EmptySeq, LenProperties
        <4>2. QED
          BY <2>2, <4>1, AppendProperties
      <3>4. Kept(Append(s, e))
        <4>1. e \in S => e \in U
          BY DEF U
        <4> HIDE DEF o
        <4>2. QED
          BY <2>1, <3>1, <3>2, <3>3, <4>1
      <3>5. QED
        BY <2>1, <3>4
    <2>5. QED
      BY <2>3, <2>4
  <1> HIDE DEF L
  <1>3. \A s \in Seq(T) : s \in L
    BY <1>1, <1>2, ListInduction
  <1>4. QED
    BY <1>3 DEF L

\* What Only keeps depends on the elements of the list only.
LEMMA OnlySame ==
  ASSUME NEW T, NEW s \in Seq(T), NEW S, NEW R, \A x : Contains(s, x) => (x \in S <=> x \in R)
  PROVE  Only(s, S) = Only(s, R)
  <1> DEFINE P == {i \in 1 .. Len(s) : s[i] \in S}
             Q == {i \in 1 .. Len(s) : s[i] \in R}
  <1>1. \A i \in 1 .. Len(s) : i \in P <=> i \in Q
    BY DEF Contains
  <1>2. Only(s, S) = Sublist(s, P) /\ Only(s, R) = Sublist(s, Q)
    BY DEF Only
  <1> HIDE DEF P, Q
  <1>3. QED
    BY <1>1, <1>2, SublistSame

LEMMA OnlyAll == ASSUME NEW T PROVE \A s \in Seq(T) : Only(s, T) = s
  <1> DEFINE L == {s \in Seq(T) : Only(s, T) = s}
  <1>1. <<>> \in L
    BY OnlyEmpty, EmptySeq
  <1>2. ASSUME NEW s \in Seq(T), NEW e \in T, s \in L PROVE Append(s, e) \in L
    BY <1>2, OnlyAppend, AppendProperties
  <1> HIDE DEF L
  <1>3. \A s \in Seq(T) : s \in L
    BY <1>1, <1>2, ListInduction
  <1>4. QED
    BY <1>3 DEF L

LEMMA OnlyNone == ASSUME NEW T PROVE \A s \in Seq(T) : Only(s, {}) = <<>>
  <1> DEFINE L == {s \in Seq(T) : Only(s, {}) = <<>>}
  <1>1. <<>> \in L
    BY OnlyEmpty, EmptySeq
  <1>2. ASSUME NEW s \in Seq(T), NEW e \in T, s \in L PROVE Append(s, e) \in L
    BY <1>2, OnlyAppend, AppendProperties
  <1> HIDE DEF L
  <1>3. \A s \in Seq(T) : s \in L
    BY <1>1, <1>2, ListInduction
  <1>4. QED
    BY <1>3 DEF L

LEMMA ConcatAppend ==
  ASSUME NEW T, NEW s \in Seq(T), NEW t \in Seq(T), NEW e \in T
  PROVE  s \o Append(t, e) = Append(s \o t, e)
  <1>1. /\ <<e>> \in Seq(T) /\ s \o t \in Seq(T)
        /\ Append(t, e) = t \o <<e>>
        /\ Append(s \o t, e) = (s \o t) \o <<e>>
    BY AppendIsConcat, ConcatProperties
  <1>2. QED
    BY <1>1, ConcatAssociative

LEMMA OnlyConcat ==
  ASSUME NEW T, NEW s \in Seq(T), NEW S
  PROVE  \A t \in Seq(T) : Only(s \o t, S) = Only(s, S) \o Only(t, S)
  <1> DEFINE U == T \cap S
             L == {t \in Seq(T) : Only(s \o t, S) = Only(s, S) \o Only(t, S)}
  <1>0. \A t \in Seq(T) : Only(t, S) \in Seq(U)
    BY OnlyType
  <1>1. <<>> \in L
    <2>1. s \o <<>> = s /\ Only(s, S) \o <<>> = Only(s, S)
      BY <1>0, ConcatEmptySeq
    <2>2. QED
      BY <2>1, OnlyEmpty, EmptySeq
  <1>2. ASSUME NEW t \in Seq(T), NEW e \in T, t \in L PROVE Append(t, e) \in L
    <2>1. Append(t, e) \in Seq(T) /\ s \o t \in Seq(T)
      BY AppendProperties, ConcatProperties
    <2>2. s \o Append(t, e) = Append(s \o t, e)
      BY ConcatAppend
    <2> DEFINE st == s \o t
    <2>3. Only(st, S) = Only(s, S) \o Only(t, S)
      BY <1>2
    <2> HIDE DEF st, L
    <2>4. st \in Seq(T)
      BY <2>1 DEF st
    <2>5. Only(Append(st, e), S) = IF e \in S THEN Append(Only(st, S), e) ELSE Only(st, S)
      BY <2>4, OnlyAppend
    <2>6. Only(Append(t, e), S) = IF e \in S THEN Append(Only(t, S), e) ELSE Only(t, S)
      BY OnlyAppend
    <2>7. e \in S => Only(s, S) \o Append(Only(t, S), e) = Append(Only(s, S) \o Only(t, S), e)
      <3>1. Only(s, S) \in Seq(U) /\ Only(t, S) \in Seq(U)
        BY <1>0
      <3> HIDE DEF U
      <3>2. e \in U => Only(s, S) \o Append(Only(t, S), e) = Append(Only(s, S) \o Only(t, S), e)
        BY <3>1, ConcatAppend
      <3>3. QED
        BY <3>2 DEF U
    <2>8. Only(s \o Append(t, e), S) = Only(s, S) \o Only(Append(t, e), S)
      BY <2>2, <2>3, <2>5, <2>6, <2>7 DEF st
    <2>9. QED
      BY <2>1, <2>8 DEF L
  <1> HIDE DEF L
  <1>3. \A t \in Seq(T) : t \in L
    BY <1>1, <1>2, ListInduction
  <1>4. QED
    BY <1>3 DEF L

-----------------------------------------------------------------------------
(* WithoutFirsts                                                           *)

LEMMA WithoutFirstsEmpty == ASSUME NEW S PROVE WithoutFirsts(<<>>, S) = <<>>
  BY SublistEmpty DEF WithoutFirsts

LEMMA WithoutFirstsAppend ==
  ASSUME NEW T, NEW s \in Seq(T), NEW e \in T, NEW S
  PROVE  WithoutFirsts(Append(s, e), S) =
           IF e \in S /\ ~ Contains(s, e) THEN WithoutFirsts(s, S)
           ELSE Append(WithoutFirsts(s, S), e)
  <1> PICK l \in Nat : l = Len(s)
    BY LenProperties
  <1> DEFINE t == Append(s, e)
             P == {i \in 1 .. l : s[i] \in S => \E j \in 1 .. i - 1 : s[j] = s[i]}
             Q == {i \in 1 .. l + 1 : t[i] \in S => \E j \in 1 .. i - 1 : t[j] = t[i]}
  <1>1. /\ t \in Seq(T) /\ Len(t) = l + 1
        /\ \A i \in 1 .. l : t[i] = s[i]
        /\ t[l + 1] = e
    BY AppendProperties
  <1>2. WithoutFirsts(t, S) = Sublist(t, Q) /\ WithoutFirsts(s, S) = Sublist(s, P)
    BY <1>1 DEF WithoutFirsts
  <1> HIDE DEF t
  <1>3. ASSUME NEW i \in 1 .. l PROVE i \in P <=> i \in Q
    <2>1. \A j \in 1 .. i - 1 : t[j] = s[j]
      BY <1>1
    <2>2. t[i] = s[i]
      BY <1>1
    <2>3. QED
      BY <2>1, <2>2
  <1>4. l + 1 \in Q <=> (e \in S => Contains(s, e))
    <2>1. l + 1 \in Q <=> (t[l + 1] \in S => \E j \in 1 .. (l + 1) - 1 : t[j] = t[l + 1])
      OBVIOUS
    <2>2. (l + 1) - 1 = l
      OBVIOUS
    <2>3. QED
      BY <1>1, <2>1, <2>2 DEF Contains
  <1> HIDE DEF P, Q
  <1>5. Sublist(s, P) = Sublist(s, Q)
    BY <1>3, SublistSame
  <1>6. Sublist(t, Q) = IF l + 1 \in Q THEN Append(Sublist(s, Q), e) ELSE Sublist(s, Q)
    BY SublistAppend DEF t
  <1>7. QED
    BY <1>2, <1>4, <1>5, <1>6 DEF t

LEMMA WithoutFirstsType == ASSUME NEW T, NEW S
                           PROVE  \A s \in Seq(T) : WithoutFirsts(s, S) \in Seq(T)
  <1> DEFINE L == {s \in Seq(T) : WithoutFirsts(s, S) \in Seq(T)}
  <1>1. <<>> \in L
    BY WithoutFirstsEmpty, EmptySeq
  <1>2. ASSUME NEW s \in Seq(T), NEW e \in T, s \in L PROVE Append(s, e) \in L
    <2>1. Append(s, e) \in Seq(T) /\ Append(WithoutFirsts(s, S), e) \in Seq(T)
      BY <1>2, AppendProperties
    <2>2. WithoutFirsts(Append(s, e), S) \in {WithoutFirsts(s, S), Append(WithoutFirsts(s, S), e)}
      BY WithoutFirstsAppend
    <2>3. QED
      BY <1>2, <2>1, <2>2
  <1> HIDE DEF L
  <1>3. \A s \in Seq(T) : s \in L
    BY <1>1, <1>2, ListInduction
  <1>4. QED
    BY <1>3 DEF L

-----------------------------------------------------------------------------
(* Occurrences                                                             *)

LEMMA OccurrencesType == ASSUME NEW T, NEW s \in Seq(T), NEW x
                         PROVE  Occurrences(s, x) \in Nat
  <1> PICK l \in Nat : l = Len(s)
    BY LenProperties
  <1> DEFINE P == {i \in 1 .. l : s[i] = x}
  <1>1. IsFiniteSet(1 .. l)
    BY FS_Interval
  <1>2. IsFiniteSet(P)
    BY <1>1, FS_Subset
  <1>3. QED
    BY <1>2, FS_CardinalityType DEF Occurrences

LEMMA OccurrencesEmpty == \A x : Occurrences(<<>>, x) = 0
  <1>1. \A x : {i \in 1 .. Len(<<>>) : <<>>[i] = x} = {}
    OBVIOUS
  <1>2. QED
    BY <1>1, FS_EmptySet DEF Occurrences

LEMMA OccurrencesAppend ==
  ASSUME NEW T, NEW s \in Seq(T), NEW e \in T, NEW x
  PROVE  Occurrences(Append(s, e), x) = IF x = e THEN Occurrences(s, x) + 1
                                        ELSE Occurrences(s, x)
  <1> PICK l \in Nat : l = Len(s)
    BY LenProperties
  <1> DEFINE t == Append(s, e)
             P == {i \in 1 .. l : s[i] = x}
             Q == {i \in 1 .. l + 1 : t[i] = x}
  <1>1. /\ t \in Seq(T) /\ Len(t) = l + 1
        /\ \A i \in 1 .. l : t[i] = s[i]
        /\ t[l + 1] = e
    BY AppendProperties
  <1>2. Occurrences(t, x) = Cardinality(Q) /\ Occurrences(s, x) = Cardinality(P)
    BY <1>1 DEF Occurrences
  <1>3. IsFiniteSet(P)
    <2>1. IsFiniteSet(1 .. l)
      BY FS_Interval
    <2>2. QED
      BY <2>1, FS_Subset
  <1> HIDE DEF t
  <1>4. CASE x = e
    <2>1. Q = P \cup {l + 1} /\ l + 1 \notin P
      BY <1>1, <1>4
    <2> HIDE DEF P, Q
    <2>2. Cardinality(Q) = Cardinality(P) + 1
      BY <1>3, <2>1, FS_AddElement
    <2>3. QED
      BY <1>2, <1>4, <2>2 DEF t
  <1>5. CASE x # e
    <2>1. Q = P
      BY <1>1, <1>5
    <2>2. QED
      BY <1>2, <1>5, <2>1 DEF t
  <1>6. QED
    BY <1>4, <1>5

LEMMA OccurrencesContains ==
  ASSUME NEW T, NEW s \in Seq(T), NEW x
  PROVE  Contains(s, x) <=> Occurrences(s, x) > 0
  <1> PICK l \in Nat : l = Len(s)
    BY LenProperties
  <1> DEFINE P == {i \in 1 .. l : s[i] = x}
  <1>1. IsFiniteSet(1 .. l)
    BY FS_Interval
  <1>2. IsFiniteSet(P)
    BY <1>1, FS_Subset
  <1>3. Cardinality(P) \in Nat /\ (Cardinality(P) = 0 <=> P = {})
    BY <1>2, FS_CardinalityType, FS_EmptySet
  <1>4. Contains(s, x) <=> P # {}
    BY DEF Contains
  <1>5. QED
    BY <1>3, <1>4 DEF Occurrences

LEMMA OccurrencesConcat ==
  ASSUME NEW T, NEW s \in Seq(T), NEW x
  PROVE  \A t \in Seq(T) : Occurrences(s \o t, x) = Occurrences(s, x) + Occurrences(t, x)
  <1> DEFINE L == {t \in Seq(T) :
                     Occurrences(s \o t, x) = Occurrences(s, x) + Occurrences(t, x)}
  <1>1. <<>> \in L
    BY OccurrencesEmpty, OccurrencesType, ConcatEmptySeq, EmptySeq
  <1>2. ASSUME NEW t \in Seq(T), NEW e \in T, t \in L PROVE Append(t, e) \in L
    <2>1. Append(t, e) \in Seq(T) /\ s \o Append(t, e) = Append(s \o t, e)
      BY AppendProperties, ConcatAppend
    <2> DEFINE st == s \o t
    <2>2. st \in Seq(T)
      BY ConcatProperties
    <2>3. Occurrences(st, x) = Occurrences(s, x) + Occurrences(t, x)
      BY <1>2
    <2>4. /\ Occurrences(s, x) \in Nat /\ Occurrences(t, x) \in Nat
      BY OccurrencesType
    <2> HIDE DEF st, L
    <2>5. Occurrences(Append(st, e), x) = IF x = e THEN Occurrences(st, x) + 1
                                          ELSE Occurrences(st, x)
      BY <2>2, OccurrencesAppend
    <2>6. Occurrences(Append(t, e), x) = IF x = e THEN Occurrences(t, x) + 1
                                         ELSE Occurrences(t, x)
      BY OccurrencesAppend
    <2>7. Occurrences(Append(st, e), x) = Occurrences(s, x) + Occurrences(Append(t, e), x)
      BY <2>3, <2>4, <2>5, <2>6
    <2>8. QED
      BY <2>1, <2>7 DEF L, st
  <1> HIDE DEF L
  <1>3. \A t \in Seq(T) : t \in L
    BY <1>1, <1>2, ListInduction
  <1>4. QED
    BY <1>3 DEF L

\* Taking out the first occurrence of x takes away one, if there is one.
LEMMA OccurrencesWithoutFirsts ==
  ASSUME NEW T, NEW S, NEW x
  PROVE  \A s \in Seq(T) : Occurrences(WithoutFirsts(s, S), x) =
                             IF x \in S /\ Contains(s, x) THEN Occurrences(s, x) - 1
                             ELSE Occurrences(s, x)
  <1> DEFINE Right(s) == Occurrences(WithoutFirsts(s, S), x) =
                           IF x \in S /\ Contains(s, x) THEN Occurrences(s, x) - 1
                           ELSE Occurrences(s, x)
             L == {s \in Seq(T) : Right(s)}
  <1>1. <<>> \in L
    BY OccurrencesEmpty, WithoutFirstsEmpty, EmptySeq, EmptyContains
  <1>2. ASSUME NEW s \in Seq(T), NEW e \in T, s \in L PROVE Append(s, e) \in L
    <2> DEFINE t == Append(s, e)
               w == WithoutFirsts(s, S)
    <2>1. /\ t \in Seq(T) /\ w \in Seq(T)
          /\ Contains(t, x) <=> Contains(s, x) \/ x = e
      BY AppendProperties, AppendContains, WithoutFirstsType
    <2>2. /\ Occurrences(s, x) \in Nat
          /\ Contains(s, x) <=> Occurrences(s, x) > 0
          /\ Occurrences(t, x) = IF x = e THEN Occurrences(s, x) + 1 ELSE Occurrences(s, x)
      BY OccurrencesType, OccurrencesContains, OccurrencesAppend
    <2>3. WithoutFirsts(t, S) = IF e \in S /\ ~ Contains(s, e) THEN w ELSE Append(w, e)
      BY WithoutFirstsAppend
    <2>4. Occurrences(w, x) = IF x \in S /\ Contains(s, x) THEN Occurrences(s, x) - 1
                              ELSE Occurrences(s, x)
      BY <1>2
    <2> HIDE DEF t, w, L
    <2>5. Occurrences(Append(w, e), x) = IF x = e THEN Occurrences(w, x) + 1
                                         ELSE Occurrences(w, x)
      BY <2>1, OccurrencesAppend
    <2>6. CASE x = e
      <3>0. Contains(t, x)
        BY <2>1, <2>6
      <3>1. CASE e \in S /\ ~ Contains(s, e)
        <4>1. WithoutFirsts(t, S) = w /\ Occurrences(w, x) = Occurrences(s, x)
          BY <2>3, <2>4, <2>6, <3>1
        <4>2. Occurrences(s, x) = Occurrences(t, x) - 1
          BY <2>2, <2>6
        <4>3. QED
          BY <2>1, <2>6, <3>0, <3>1, <4>1, <4>2 DEF L, t
      <3>2. CASE e \in S /\ Contains(s, e)
        <4>1. /\ WithoutFirsts(t, S) = Append(w, e)
              /\ Occurrences(w, x) = Occurrences(s, x) - 1
          BY <2>3, <2>4, <2>6, <3>2
        <4>2. Occurrences(Append(w, e), x) = Occurrences(t, x) - 1
          BY <2>2, <2>5, <2>6, <4>1
        <4>3. QED
          BY <2>1, <2>6, <3>0, <3>2, <4>1, <4>2 DEF L, t
      <3>3. CASE e \notin S
        <4>1. WithoutFirsts(t, S) = Append(w, e) /\ Occurrences(w, x) = Occurrences(s, x)
          BY <2>3, <2>4, <2>6, <3>3
        <4>2. Occurrences(Append(w, e), x) = Occurrences(t, x)
          BY <2>2, <2>5, <2>6, <4>1
        <4>3. QED
          BY <2>1, <2>6, <3>3, <4>1, <4>2 DEF L, t
      <3>4. QED
        BY <3>1, <3>2, <3>3
    <2>7. CASE x # e
      <3>1. Occurrences(WithoutFirsts(t, S), x) = Occurrences(w, x)
        BY <2>3, <2>5, <2>7
      <3>2. QED
        BY <2>1, <2>2, <2>4, <2>7, <3>1 DEF L, t
    <2>8. QED
      BY <2>6, <2>7
  <1> HIDE DEF L
  <1>3. \A s \in Seq(T) : s \in L
    BY <1>1, <1>2, ListInduction
  <1>4. QED
    BY <1>3 DEF L

LEMMA OccurrencesOnly ==
  ASSUME NEW T, NEW S, NEW x
  PROVE  \A s \in Seq(T) : Occurrences(Only(s, S), x) = IF x \in S THEN Occurrences(s, x) ELSE 0
  <1> DEFINE L == {s \in Seq(T) : Occurrences(Only(s, S), x) =
                                     IF x \in S THEN Occurrences(s, x) ELSE 0}
  <1>1. <<>> \in L
    BY OccurrencesEmpty, OnlyEmpty, EmptySeq
  <1>2. ASSUME NEW s \in Seq(T), NEW e \in T, s \in L PROVE Append(s, e) \in L
    <2> DEFINE o == Only(s, S)
               U == T \cap S
    <2>1. Append(s, e) \in Seq(T) /\ o \in Seq(U)
      BY AppendProperties, OnlyType
    <2>2. Occurrences(Append(s, e), x) = IF x = e THEN Occurrences(s, x) + 1
                                         ELSE Occurrences(s, x)
      BY OccurrencesAppend
    <2>3. Occurrences(o, x) = IF x \in S THEN Occurrences(s, x) ELSE 0
      BY <1>2
    <2>4. e \in S => e \in U
      OBVIOUS
    <2>5. Only(Append(s, e), S) = IF e \in S THEN Append(o, e) ELSE o
      BY OnlyAppend
    <2> HIDE DEF o, U, L
    <2>6. e \in S => Occurrences(Append(o, e), x) = IF x = e THEN Occurrences(o, x) + 1
                                                    ELSE Occurrences(o, x)
      BY <2>1, <2>4, OccurrencesAppend
    <2>7. Occurrences(Only(Append(s, e), S), x) =
            IF x \in S THEN Occurrences(Append(s, e), x) ELSE 0
      BY <2>2, <2>3, <2>5, <2>6
    <2>8. QED
      BY <2>1, <2>7 DEF L
  <1> HIDE DEF L
  <1>3. \A s \in Seq(T) : s \in L
    BY <1>1, <1>2, ListInduction
  <1>4. QED
    BY <1>3 DEF L

LEMMA ReverseType == ASSUME NEW T, NEW s \in Seq(T)
                     PROVE  Reverse(s) \in Seq(T) /\ Len(Reverse(s)) = Len(s)
  <1> PICK l \in Nat : l = Len(s)
    BY LenProperties
  <1>1. \A i \in 1 .. l : s[(l - i) + 1] \in T
    <2>1. \A i \in 1 .. l : (l - i) + 1 \in 1 .. l
      OBVIOUS
    <2>2. QED
      BY <2>1, ElementOfSeq
  <1>2. Reverse(s) = [i \in 1 .. l |-> s[(l - i) + 1]]
    BY DEF Reverse
  <1>3. QED
    BY <1>1, <1>2

LEMMA OccurrencesReverse ==
  ASSUME NEW T, NEW s \in Seq(T), NEW x
  PROVE  Occurrences(Reverse(s), x) = Occurrences(s, x)
  <1> PICK l \in Nat : l = Len(s)
    BY LenProperties
  <1> DEFINE r == Reverse(s)
             P == {i \in 1 .. l : s[i] = x}
             Q == {i \in 1 .. l : r[i] = x}
             f == [i \in P |-> (l - i) + 1]
  <1>1. \A i \in 1 .. l : r[i] = s[(l - i) + 1]
    BY DEF Reverse
  <1>2. Len(r) = l
    BY ReverseType
  <1> HIDE DEF r
  <1>3. \A i \in P : f[i] \in Q
    <2>1. ASSUME NEW i \in P PROVE (l - i) + 1 \in Q
      <3>1. (l - i) + 1 \in 1 .. l /\ (l - ((l - i) + 1)) + 1 = i
        OBVIOUS
      <3>2. r[(l - i) + 1] = s[i]
        BY <1>1, <3>1
      <3>3. QED
        BY <3>1, <3>2
    <2>2. QED
      BY <2>1
  <1>4. \A j \in Q : \E i \in P : f[i] = j
    <2>1. ASSUME NEW j \in Q PROVE (l - j) + 1 \in P /\ f[(l - j) + 1] = j
      <3>1. (l - j) + 1 \in 1 .. l /\ (l - ((l - j) + 1)) + 1 = j
        OBVIOUS
      <3>2. r[j] = s[(l - j) + 1]
        BY <1>1
      <3>3. QED
        BY <3>1, <3>2
    <2>2. QED
      BY <2>1
  <1>5. \A i, j \in P : f[i] = f[j] => i = j
    OBVIOUS
  <1>6. f \in [P -> Q]
    BY <1>3
  <1>7. IsFiniteSet(P)
    <2>1. IsFiniteSet(1 .. l)
      BY FS_Interval
    <2>2. QED
      BY <2>1, FS_Subset
  <1>8. Occurrences(r, x) = Cardinality(Q) /\ Occurrences(s, x) = Cardinality(P)
    BY <1>2 DEF Occurrences
  <1> HIDE DEF f, P, Q
  <1>9. ExistsBijection(P, Q)
    <2>1. f \in Bijection(P, Q)
      BY <1>4, <1>5, <1>6 DEF Bijection, Injection, Surjection, IsInjective
    <2>2. QED
      BY <2>1 DEF ExistsBijection
  <1>10. Cardinality(Q) = Cardinality(P)
    BY <1>7, <1>9, FS_Bijection
  <1>11. QED
    BY <1>8, <1>10 DEF r

\* The last element and what is before it.
LEMMA FrontLast ==
  ASSUME NEW T, NEW s \in Seq(T), s # <<>>
  PROVE  Front(s) \in Seq(T) /\ Last(s) \in T /\ s = Append(Front(s), Last(s))
  <1>1. PICK t \in Seq(T), e \in T : s = Append(t, e)
    BY SequenceEmptyOrAppend
  <1> PICK l \in Nat : l = Len(t)
    BY LenProperties
  <1>2. Len(s) = l + 1 /\ s[l + 1] = e /\ \A i \in 1 .. l : s[i] = t[i]
    BY <1>1, AppendProperties
  <1>3. Last(s) = e
    BY <1>2 DEF Last
  <1>4. Front(s) = SubSeq(s, 1, l)
    <2>1. (l + 1) - 1 = l
      OBVIOUS
    <2>2. QED
      BY <1>2, <2>1 DEF Front
  <1> DEFINE f == SubSeq(s, 1, l)
  <1>5. f \in Seq(T) /\ Len(f) = l /\ \A i \in 1 .. l : f[i] = t[i]
    <2>1. \A i \in 1 .. l : s[i] \in T
      BY <1>2, ElementOfSeq
    <2>2. /\ f \in Seq(T)
          /\ Len(f) = IF 1 <= l THEN l - 1 + 1 ELSE 0
          /\ \A i \in 1 .. l - 1 + 1 : f[i] = s[1 + i - 1]
      BY <2>1, SubSeqProperties
    <2> HIDE DEF f
    <2>3. QED
      BY <1>2, <2>2
  <1> HIDE DEF f
  <1>6. f = t
    BY <1>5, SeqEqual
  <1>7. QED
    BY <1>1, <1>3, <1>4, <1>6 DEF f

\* In a list without repetition nothing occurs twice.
LEMMA OccurrencesAtMostOne ==
  ASSUME NEW T, NEW s \in Seq(T), NEW x,
         \A i, j \in 1 .. Len(s) : s[i] = s[j] => i = j
  PROVE  Occurrences(s, x) <= 1
  <1> DEFINE P == {i \in 1 .. Len(s) : s[i] = x}
  <1>1. CASE P = {}
    <2> HIDE DEF P
    <2>1. Cardinality(P) = 0
      BY <1>1, FS_EmptySet
    <2>2. QED
      BY <2>1 DEF P, Occurrences
  <1>2. CASE P # {}
    <2>1. PICK i \in P : TRUE
      BY <1>2
    <2>2. P = {i}
      BY <2>1
    <2> HIDE DEF P
    <2>3. Cardinality(P) = 1
      BY <2>2, FS_Singleton
    <2>4. QED
      BY <2>3 DEF P, Occurrences
  <1>3. QED
    BY <1>1, <1>2
-----------------------------------------------------------------------------
(* The elements of a list as a set                                         *)

LEMMA EmptyToSet == ToSet(<<>>) = {}
  <1>1. DOMAIN <<>> = {}
    OBVIOUS
  <1>2. QED
    BY <1>1 DEF ToSet

LEMMA AppendToSet ==
  ASSUME NEW T, NEW s \in Seq(T), NEW e \in T
  PROVE  ToSet(Append(s, e)) = ToSet(s) \cup {e}
  <1>1. Append(s, e) \in Seq(T)
    BY AppendProperties
  <1>2. \A x : x \in ToSet(Append(s, e)) <=> Contains(Append(s, e), x)
    BY <1>1, ContainsToSet
  <1>3. \A x : x \in ToSet(s) <=> Contains(s, x)
    BY ContainsToSet
  <1>4. \A x : Contains(Append(s, e), x) <=> Contains(s, x) \/ x = e
    BY AppendContains
  <1>5. QED
    BY <1>2, <1>3, <1>4

LEMMA OnlyToSet ==
  ASSUME NEW T, NEW s \in Seq(T), NEW S
  PROVE  ToSet(Only(s, S)) = ToSet(s) \cap S
  <1> DEFINE U == T \cap S
             o == Only(s, S)
  <1>1. o \in Seq(U)
    BY OnlyType
  <1>2. \A x : Contains(o, x) <=> Contains(s, x) /\ x \in S
    BY OnlyContains
  <1>3. \A x : x \in ToSet(s) <=> Contains(s, x)
    BY ContainsToSet
  <1> HIDE DEF U, o
  <1>4. \A x : x \in ToSet(o) <=> Contains(o, x)
    BY <1>1, ContainsToSet
  <1>5. ToSet(o) = ToSet(s) \cap S
    BY <1>2, <1>3, <1>4
  <1>6. QED
    BY <1>5 DEF o

LEMMA ConcatToSet ==
  ASSUME NEW T, NEW s \in Seq(T), NEW t \in Seq(T)
  PROVE  ToSet(s \o t) = ToSet(s) \cup ToSet(t)
  <1>1. s \o t \in Seq(T)
    BY ConcatProperties
  <1>2. \A x : x \in ToSet(s \o t) <=> Occurrences(s \o t, x) > 0
    BY <1>1, ContainsToSet, OccurrencesContains
  <1>3. \A x : /\ x \in ToSet(s) <=> Occurrences(s, x) > 0
               /\ x \in ToSet(t) <=> Occurrences(t, x) > 0
    BY ContainsToSet, OccurrencesContains
  <1>4. \A x : Occurrences(s \o t, x) > 0 <=> Occurrences(s, x) > 0 \/ Occurrences(t, x) > 0
    <2> SUFFICES ASSUME NEW x
                 PROVE  Occurrences(s \o t, x) > 0
                          <=> Occurrences(s, x) > 0 \/ Occurrences(t, x) > 0
      OBVIOUS
    <2>1. Occurrences(s, x) \in Nat /\ Occurrences(t, x) \in Nat
      BY OccurrencesType
    <2>2. Occurrences(s \o t, x) = Occurrences(s, x) + Occurrences(t, x)
      BY OccurrencesConcat
    <2>3. QED
      BY <2>1, <2>2
  <1>5. QED
    BY <1>2, <1>3, <1>4

\* An element put at some place of a list.
LEMMA InsertAtToSet ==
  ASSUME NEW T, NEW s \in Seq(T), NEW e \in T, NEW i \in 1 .. Len(s) + 1
  PROVE  InsertAt(s, i, e) \in Seq(T) /\ ToSet(InsertAt(s, i, e)) = ToSet(s) \cup {e}
  <1> PICK l \in Nat : l = Len(s)
    BY LenProperties
  <1> DEFINE b == SubSeq(s, 1, i - 1)
             a == SubSeq(s, i, l)
  <1>1. \A k \in 1 .. l : s[k] \in T
    BY ElementOfSeq
  <1>2. /\ b \in Seq(T) /\ Len(b) = i - 1 /\ \A k \in 1 .. i - 1 : b[k] = s[k]
    BY <1>1, SubSeqProperties
  <1>3. /\ a \in Seq(T) /\ Len(a) = l - i + 1 /\ \A k \in 1 .. l - i + 1 : a[k] = s[i + k - 1]
    BY <1>1, SubSeqProperties
  <1> HIDE DEF a, b
  <1>4. ToSet(s) = ToSet(b) \cup ToSet(a)
    <2>1. \A x : x \in ToSet(s) <=> \E k \in 1 .. l : s[k] = x
      BY LenProperties DEF ToSet
    <2>2. \A x : x \in ToSet(b) <=> \E k \in 1 .. i - 1 : s[k] = x
      BY <1>2, LenProperties DEF ToSet
    <2>3. \A x : x \in ToSet(a) <=> \E k \in i .. l : s[k] = x
      <3>1. \A x : x \in ToSet(a) <=> \E k \in 1 .. l - i + 1 : s[i + k - 1] = x
        BY <1>3, LenProperties DEF ToSet
      <3>2. \A x : (\E k \in 1 .. l - i + 1 : s[i + k - 1] = x) <=> \E k \in i .. l : s[k] = x
        <4>1. ASSUME NEW x, NEW k \in 1 .. l - i + 1, s[i + k - 1] = x
              PROVE  \E j \in i .. l : s[j] = x
          <5>1. i + k - 1 \in i .. l
            OBVIOUS
          <5>2. QED
            BY <4>1, <5>1
        <4>2. ASSUME NEW x, NEW k \in i .. l, s[k] = x
              PROVE  \E j \in 1 .. l - i + 1 : s[i + j - 1] = x
          <5>1. k - i + 1 \in 1 .. l - i + 1 /\ i + (k - i + 1) - 1 = k
            OBVIOUS
          <5>2. QED
            BY <4>2, <5>1
        <4>3. QED
          BY <4>1, <4>2
      <3>3. QED
        BY <3>1, <3>2
    <2>4. \A x : (\E k \in 1 .. l : s[k] = x) <=>
                   (\E k \in 1 .. i - 1 : s[k] = x) \/ (\E k \in i .. l : s[k] = x)
      <3>1. \A k : k \in 1 .. l <=> k \in 1 .. i - 1 \/ k \in i .. l
        OBVIOUS
      <3>2. QED
        BY <3>1
    <2>5. QED
      BY <2>1, <2>2, <2>3, <2>4
  <1>5. <<e>> \in Seq(T) /\ ToSet(<<e>>) = {e}
    <2>1. <<e>> = Append(<<>>, e) /\ <<>> \in Seq(T)
      BY EmptySeq
    <2>2. Append(<<>>, e) \in Seq(T)
      BY <2>1, AppendProperties
    <2> DEFINE o == <<>>
    <2>3. o \in Seq(T) /\ ToSet(o) = {}
      BY <2>1, EmptyToSet
    <2> HIDE DEF o
    <2>4. ToSet(Append(o, e)) = ToSet(o) \cup {e}
      BY <2>3, AppendToSet
    <2>5. QED
      BY <2>1, <2>2, <2>3, <2>4 DEF o
  <1> DEFINE m == <<e>>
  <1>6. m \in Seq(T) /\ ToSet(m) = {e}
    BY <1>5
  <1>7. InsertAt(s, i, e) = b \o m \o a
    BY DEF InsertAt, a, b
  <1> HIDE DEF m
  <1> DEFINE c == b \o m
  <1>8. c \in Seq(T) /\ ToSet(c) = ToSet(b) \cup ToSet(m)
    BY <1>2, <1>6, ConcatProperties, ConcatToSet
  <1> HIDE DEF c
  <1>9. c \o a \in Seq(T) /\ ToSet(c \o a) = ToSet(c) \cup ToSet(a)
    BY <1>3, <1>8, ConcatProperties, ConcatToSet
  <1>10. QED
    BY <1>4, <1>6, <1>7, <1>8, <1>9 DEF c

\* The lists of a list, one after the other; f is the recursion of FlattenSeq.
Joins(f, lists, n) == f = [i \in 1 .. n |-> IF i = 1 THEN lists[i] ELSE f[i - 1] \o lists[i]]

LEMMA FlattenToSet ==
  ASSUME NEW T, NEW lists \in Seq(Seq(T))
  PROVE  /\ FlattenSeq(lists) \in Seq(T)
         /\ ToSet(FlattenSeq(lists)) = UNION {ToSet(lists[c]) : c \in DOMAIN lists}
  <1> PICK l \in Nat : l = Len(lists)
    BY LenProperties
  <1>0. DOMAIN lists = 1 .. l /\ \A i \in 1 .. l : lists[i] \in Seq(T)
    BY LenProperties, ElementOfSeq
  <1>1. CASE l = 0
    <2>1. FlattenSeq(lists) = lists
      BY <1>1 DEF FlattenSeq
    <2>2. lists = <<>>
      BY <1>1, EmptySeq
    <2>3. {ToSet(lists[c]) : c \in DOMAIN lists} = {}
      BY <1>0, <1>1
    <2>4. QED
      BY <2>1, <2>2, <2>3, EmptyToSet, EmptySeq
  <1>2. CASE l > 0
    <2>1. \E f : Joins(f, lists, l)
      <3> DEFINE S == {n \in Nat : n > 0 => \E f : Joins(f, lists, n)}
      <3>1. 0 \in S
        OBVIOUS
      <3>2. ASSUME NEW n \in Nat, n \in S PROVE n + 1 \in S
        <4> SUFFICES \E f : Joins(f, lists, n + 1)
          OBVIOUS
        <4>1. CASE n = 0
          <5>1. Joins([i \in 1 .. 1 |-> lists[i]], lists, 1)
            BY DEF Joins
          <5>2. QED
            BY <4>1, <5>1
        <4>2. CASE n > 0
          <5>1. PICK f : Joins(f, lists, n)
            BY <3>2, <4>2
          <5> DEFINE g == [i \in 1 .. n + 1 |-> IF i = n + 1 THEN f[n] \o lists[i] ELSE f[i]]
          <5>2. \A i \in 1 .. n : f[i] = IF i = 1 THEN lists[i] ELSE f[i - 1] \o lists[i]
            BY <5>1 DEF Joins
          <5>3. \A i \in 1 .. n + 1 : g[i] = IF i = 1 THEN lists[i] ELSE g[i - 1] \o lists[i]
            BY <4>2, <5>2
          <5>4. g = [i \in 1 .. n + 1 |-> g[i]]
            OBVIOUS
          <5> HIDE DEF g
          <5>5. Joins(g, lists, n + 1)
            BY <5>3, <5>4 DEF Joins
          <5>6. QED
            BY <5>5
        <4>3. QED
          BY <4>1, <4>2
      <3> HIDE DEF S
      <3>3. l \in S
        BY <3>1, <3>2, Induction
      <3>4. QED
        BY <1>2, <3>3 DEF S
    <2> DEFINE F == CHOOSE f : Joins(f, lists, l)
    <2>2. Joins(F, lists, l)
      BY <2>1
    <2>3. FlattenSeq(lists) = F[l]
      BY <1>2 DEF FlattenSeq, Joins
    <2>4. \A i \in 1 .. l : F[i] = IF i = 1 THEN lists[i] ELSE F[i - 1] \o lists[i]
      BY <2>2 DEF Joins
    <2> HIDE DEF F
    <2> DEFINE Right(n) == /\ F[n] \in Seq(T)
                           /\ ToSet(F[n]) = UNION {ToSet(lists[c]) : c \in 1 .. n}
               R == {n \in Nat : n \in 1 .. l => Right(n)}
    <2>5. 0 \in R
      OBVIOUS
    <2>6. ASSUME NEW n \in Nat, n \in R PROVE n + 1 \in R
      <3> SUFFICES ASSUME n + 1 \in 1 .. l PROVE Right(n + 1)
        OBVIOUS
      <3>1. CASE n = 0
        <4>1. F[1] = lists[1] /\ lists[1] \in Seq(T)
          BY <1>0, <1>2, <2>4
        <4>2. UNION {ToSet(lists[c]) : c \in 1 .. 1} = ToSet(lists[1])
          OBVIOUS
        <4>3. QED
          BY <3>1, <4>1, <4>2
      <3>2. CASE n > 0
        <4>1. Right(n) /\ lists[n + 1] \in Seq(T)
          BY <1>0, <2>6, <3>2
        <4>2. F[n + 1] = F[n] \o lists[n + 1]
          <5>1. n + 1 # 1 /\ (n + 1) - 1 = n
            BY <3>2
          <5> DEFINE k == n + 1
          <5>2. F[k] = IF k = 1 THEN lists[k] ELSE F[k - 1] \o lists[k]
            BY <2>4
          <5>3. QED
            BY <5>1, <5>2
        <4> DEFINE a == F[n]
                   b == lists[n + 1]
        <4>3. a \in Seq(T) /\ b \in Seq(T)
          BY <4>1
        <4> HIDE DEF a, b
        <4>4. a \o b \in Seq(T) /\ ToSet(a \o b) = ToSet(a) \cup ToSet(b)
          BY <4>3, ConcatProperties, ConcatToSet
        <4>5. ToSet(F[n + 1]) = ToSet(F[n]) \cup ToSet(lists[n + 1]) /\ F[n + 1] \in Seq(T)
          BY <4>2, <4>4 DEF a, b
        <4>6. UNION {ToSet(lists[c]) : c \in 1 .. n + 1}
                = (UNION {ToSet(lists[c]) : c \in 1 .. n}) \cup ToSet(lists[n + 1])
          <5>1. 1 .. n + 1 = (1 .. n) \cup {n + 1}
            OBVIOUS
          <5>2. QED
            BY <5>1, Zenon
        <4>7. QED
          BY <4>1, <4>5, <4>6
      <3>3. QED
        BY <3>1, <3>2
    <2> HIDE DEF R
    <2>7. l \in R
      BY <2>5, <2>6, Induction
    <2>8. Right(l)
      BY <1>2, <2>7 DEF R
    <2>9. QED
      BY <1>0, <2>3, <2>8
  <1>3. QED
    BY <1>1, <1>2
=============================================================================
