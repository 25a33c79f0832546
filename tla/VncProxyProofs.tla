----------------------------- MODULE VncProxyProofs -----------------------------
(***************************************************************************)
(* Theorems about VncProxy for any connections, kinds, pieces and numbers  *)
(* of messages: type correctness, that each side gets the messages of the  *)
(* other whole, in order and each once, and that nothing which has come    *)
(* stays without a call to read it.                                        *)
(***************************************************************************)
EXTENDS VncProxy, SequenceTheorems, WellFoundedInduction, TLAPS

-----------------------------------------------------------------------------
(* Induction over the natural numbers, for sets                            *)

LEMMA SmallestElement ==
  ASSUME NEW S \in SUBSET Nat, S # {}
  PROVE  \E n \in S : \A k \in S : ~ (k < n)
<1>1. PICK m \in S : \A k \in S : <<k, m>> \notin OpToRel(<, Nat)
  BY WFMin, NatLessThanWellFounded, Zenon
<1> QED
  BY <1>1 DEF OpToRel

LEMMA SetInduction ==
  ASSUME NEW S, 0 \in S, \A n \in Nat : n \in S => n + 1 \in S
  PROVE  Nat \subseteq S
<1>1. SUFFICES ASSUME Nat \ S # {} PROVE FALSE
  OBVIOUS
<1>2. PICK n \in Nat \ S : \A k \in Nat \ S : ~ (k < n)
  BY <1>1, SmallestElement
<1>3. n # 0 /\ n - 1 \in Nat /\ n - 1 < n
  BY <1>2
<1> QED
  BY <1>2, <1>3

LEMMA LargestElement ==
  ASSUME NEW n \in Nat, NEW S \in SUBSET (1..n), S # {}
  PROVE  Max(S) \in S /\ Min(S) \in S /\ \A k \in S : k <= Max(S)
<1>1. Min(S) \in S
  <2>1. PICK m \in S : \A k \in S : ~ (k < m)
    BY SmallestElement
  <2>2. \A k \in S : m =< k
    BY <2>1
  <2> QED
    BY <2>2 DEF Min
<1>2. Max(S) \in S /\ \A k \in S : k <= Max(S)
  <2> DEFINE T == {n - k : k \in S}
  <2>1. T \in SUBSET Nat /\ T # {}
    <3>1. \A k \in S : n - k \in Nat
      OBVIOUS
    <3> QED
      BY <3>1
  <2> HIDE DEF T
  <2>2. PICK t \in T : \A k \in T : ~ (k < t)
    BY <2>1, SmallestElement
  <2> USE DEF T
  <2>3. PICK m \in S : t = n - m
    BY <2>2
  <2>4. \A k \in S : n - k \in T
    OBVIOUS
  <2>5. \A k \in S : m >= k
    BY <2>2, <2>3, <2>4
  <2> QED
    BY <2>5 DEF Max
<1> QED
  BY <1>1, <1>2

-----------------------------------------------------------------------------
(* The elements of a sequence that are in a set                            *)

\* What the recursive function in Only is.
Selects(s, S, n, f) ==
  /\ DOMAIN f = 0..n
  /\ f = [i \in 0..n |->
            IF i = 0 THEN <<>>
            ELSE IF s[i] \in S THEN Append(f[i - 1], s[i]) ELSE f[i - 1]]

LEMMA SelectionExists ==
  ASSUME NEW s, NEW S, NEW m \in Nat
  PROVE  \E f : Selects(s, S, m, f)
<1> DEFINE T == {n \in Nat : \E f : Selects(s, S, n, f)}
<1>1. 0 \in T
  <2> DEFINE f == [i \in 0..0 |-> <<>>]
  <2>1. Selects(s, S, 0, f)
    BY DEF Selects
  <2> QED
    BY <2>1
<1>2. ASSUME NEW n \in Nat, n \in T
      PROVE  n + 1 \in T
  <2>1. PICK f : Selects(s, S, n, f)
    BY <1>2
  <2> DEFINE g == [i \in 0..n+1 |->
                     IF i <= n THEN f[i]
                     ELSE IF s[i] \in S THEN Append(f[i - 1], s[i]) ELSE f[i - 1]]
  <2>2. \A i \in 0..n : g[i] = f[i]
    OBVIOUS
  <2>3. \A i \in 0..n : f[i] = IF i = 0 THEN <<>>
                               ELSE IF s[i] \in S THEN Append(f[i - 1], s[i]) ELSE f[i - 1]
    BY <2>1 DEF Selects
  <2>4. \A i \in 0..n+1 : g[i] = IF i = 0 THEN <<>>
                                 ELSE IF s[i] \in S THEN Append(g[i - 1], s[i]) ELSE g[i - 1]
    BY <2>2, <2>3
  <2>5. Selects(s, S, n + 1, g)
    BY <2>4 DEF Selects
  <2> QED
    BY <2>5
<1> HIDE DEF T
<1>3. Nat \subseteq T
  BY <1>1, <1>2, SetInduction
<1> QED
  BY <1>3 DEF T

\* The equations of Only, and its type.
LEMMA OnlyEquations ==
  ASSUME NEW A, NEW s \in Seq(A), NEW S
  PROVE  /\ Only(s, 0, S) = <<>>
         /\ \A i \in Nat : i + 1 <= Len(s) =>
              Only(s, i + 1, S) = IF s[i + 1] \in S THEN Append(Only(s, i, S), s[i + 1])
                                  ELSE Only(s, i, S)
<1> DEFINE Fixed(f) == f = [i \in 0..Len(s) |->
                              IF i = 0 THEN <<>>
                              ELSE IF s[i] \in S THEN Append(f[i - 1], s[i]) ELSE f[i - 1]]
<1> DEFINE only == CHOOSE f : Fixed(f)
<1>1. \E f : Fixed(f)
  <2>1. Len(s) \in Nat
    OBVIOUS
  <2>2. PICK f : Selects(s, S, Len(s), f)
    BY <2>1, SelectionExists, Zenon
  <2> QED
    BY <2>2, Zenon DEF Selects
<1>2. Fixed(only)
  BY <1>1, Zenon
<1>3. \A n : Only(s, n, S) = only[n]
  BY Zenon DEF Only
<1> HIDE DEF only
<1>4. Only(s, 0, S) = <<>>
  BY <1>2, <1>3
<1>5. ASSUME NEW i \in Nat, i + 1 <= Len(s)
      PROVE  Only(s, i + 1, S) = IF s[i + 1] \in S THEN Append(Only(s, i, S), s[i + 1])
                                 ELSE Only(s, i, S)
  <2>1. i + 1 \in 0..Len(s) /\ i + 1 # 0 /\ i + 1 - 1 = i
    BY <1>5
  <2>2. \A j \in 0..Len(s) : only[j] = IF j = 0 THEN <<>>
                                      ELSE IF s[j] \in S THEN Append(only[j - 1], s[j]) ELSE only[j - 1]
    BY <1>2, Zenon
  <2>3. only[i + 1] = IF s[i + 1] \in S THEN Append(only[i], s[i + 1]) ELSE only[i]
    BY <2>1, <2>2
  <2> QED
    BY <1>3, <2>3
<1> QED
  BY <1>4, <1>5

LEMMA OnlyType ==
  ASSUME NEW A, NEW s \in Seq(A), NEW S, NEW n \in 0..Len(s)
  PROVE  Only(s, n, S) \in Seq(A \cap S)
<1>1. PICK B : B = A \cap S
  OBVIOUS
<1> DEFINE T == {k \in Nat : k <= Len(s) => Only(s, k, S) \in Seq(B)}
<1>2. 0 \in T
  <2>1. Only(s, 0, S) = <<>> /\ <<>> \in Seq(B)
    BY OnlyEquations, EmptySeq, Zenon
  <2> QED
    BY <2>1
<1>3. ASSUME NEW k \in Nat, k \in T
      PROVE  k + 1 \in T
  <2>1. SUFFICES ASSUME k + 1 <= Len(s)
                 PROVE  Only(s, k + 1, S) \in Seq(B)
    OBVIOUS
  <2>2. Only(s, k, S) \in Seq(B) /\ k + 1 <= Len(s) /\ s[k + 1] \in A
    BY <1>3, <2>1
  <2>3. Only(s, k + 1, S) = IF s[k + 1] \in S THEN Append(Only(s, k, S), s[k + 1])
                            ELSE Only(s, k, S)
    BY <2>2, OnlyEquations
  <2>4. PICK q \in Seq(B), x \in A : q = Only(s, k, S) /\ x = s[k + 1]
    BY <2>2
  <2>5. x \in S => Append(q, x) \in Seq(B)
    BY <1>1, <2>4
  <2> QED
    BY <2>3, <2>4, <2>5
<1> HIDE DEF T
<1>4. Nat \subseteq T
  BY <1>2, <1>3, SetInduction
<1> QED
  BY <1>1, <1>4 DEF T

\* Only depends on the first elements and on which of them are in the set.
LEMMA OnlyEqual ==
  ASSUME NEW A, NEW s \in Seq(A), NEW t \in Seq(A), NEW S, NEW T,
         NEW n \in 0..Len(s), n <= Len(t),
         \A i \in 1..n : s[i] = t[i] /\ (s[i] \in S <=> t[i] \in T)
  PROVE  Only(s, n, S) = Only(t, n, T)
<1> DEFINE U == {k \in Nat : k <= n => Only(s, k, S) = Only(t, k, T)}
<1>1. 0 \in U
  BY OnlyEquations
<1>2. ASSUME NEW k \in Nat, k \in U
      PROVE  k + 1 \in U
  <2>1. SUFFICES ASSUME k + 1 <= n
                 PROVE  Only(s, k + 1, S) = Only(t, k + 1, T)
    OBVIOUS
  <2>2. Only(s, k, S) = Only(t, k, T) /\ k + 1 <= Len(s) /\ k + 1 <= Len(t) /\ k + 1 \in 1..n
    BY <1>2, <2>1
  <2>3. Only(s, k + 1, S) = IF s[k + 1] \in S THEN Append(Only(s, k, S), s[k + 1])
                            ELSE Only(s, k, S)
    BY <2>2, OnlyEquations
  <2>4. Only(t, k + 1, T) = IF t[k + 1] \in T THEN Append(Only(t, k, T), t[k + 1])
                            ELSE Only(t, k, T)
    BY <2>2, OnlyEquations
  <2> QED
    BY <2>2, <2>3, <2>4
<1> HIDE DEF U
<1>3. Nat \subseteq U
  BY <1>1, <1>2, SetInduction
<1> QED
  BY <1>3 DEF U

LEMMA OnlyNone ==
  ASSUME NEW A, NEW s \in Seq(A), NEW S, NEW n \in 0..Len(s),
         \A i \in 1..n : s[i] \notin S
  PROVE  Only(s, n, S) = <<>>
<1> DEFINE U == {k \in Nat : k <= n => Only(s, k, S) = <<>>}
<1>1. 0 \in U
  BY OnlyEquations
<1>2. ASSUME NEW k \in Nat, k \in U
      PROVE  k + 1 \in U
  <2>1. SUFFICES ASSUME k + 1 <= n
                 PROVE  Only(s, k + 1, S) = <<>>
    OBVIOUS
  <2>2. Only(s, k, S) = <<>> /\ k + 1 <= Len(s) /\ s[k + 1] \notin S
    BY <1>2, <2>1
  <2>3. Only(s, k + 1, S) = IF s[k + 1] \in S THEN Append(Only(s, k, S), s[k + 1])
                            ELSE Only(s, k, S)
    BY <2>2, OnlyEquations
  <2> QED
    BY <2>2, <2>3
<1> HIDE DEF U
<1>3. Nat \subseteq U
  BY <1>1, <1>2, SetInduction
<1> QED
  BY <1>3 DEF U

LEMMA RestProperties ==
  ASSUME NEW A, NEW s \in Seq(A), NEW n \in 0..Len(s)
  PROVE  /\ Rest(s, n) \in Seq(A) /\ Len(Rest(s, n)) = Len(s) - n
         /\ \A i \in 1..(Len(s) - n) : Rest(s, n)[i] = s[n + i]
  BY SubSeqProperties DEF Rest

LEMMA AppendOfConcat ==
  ASSUME NEW A, NEW s \in Seq(A), NEW t \in Seq(A), NEW x \in A, NEW u, u = Append(t, x)
  PROVE  s \o u = Append(s \o t, x)
  OBVIOUS

\* Only can be taken in two parts.
LEMMA OnlySplit ==
  ASSUME NEW A, NEW s \in Seq(A), NEW S, NEW n \in 0..Len(s), NEW m \in 0..(Len(s) - n)
  PROVE  Only(s, n + m, S) = Only(s, n, S) \o Only(Rest(s, n), m, S)
<1> DEFINE t == Rest(s, n)
           U == {k \in Nat : n + k <= Len(s) =>
                               Only(s, n + k, S) = Only(s, n, S) \o Only(t, k, S)}
<1>1. t \in Seq(A) /\ Len(t) = Len(s) - n /\ \A i \in 1..(Len(s) - n) : t[i] = s[n + i]
  BY RestProperties
<1> HIDE DEF t
<1>2. Only(s, n, S) \in Seq(A)
  <2>1. Only(s, n, S) \in Seq(A \cap S)
    BY OnlyType, Zenon
  <2> QED
    BY <2>1, SeqMonotonic, Zenon
<1>3. 0 \in U
  BY <1>1, <1>2, OnlyEquations
<1>4. ASSUME NEW k \in Nat, k \in U
      PROVE  k + 1 \in U
  <2>1. SUFFICES ASSUME n + (k + 1) <= Len(s)
                 PROVE  Only(s, n + (k + 1), S) = Only(s, n, S) \o Only(t, k + 1, S)
    OBVIOUS
  <2>2. /\ Only(s, n + k, S) = Only(s, n, S) \o Only(t, k, S)
        /\ n + k \in Nat /\ n + k + 1 <= Len(s) /\ n + (k + 1) = n + k + 1
        /\ k + 1 <= Len(t) /\ t[k + 1] = s[n + k + 1] /\ s[n + k + 1] \in A
    BY <1>1, <1>4, <2>1
  <2>3. Only(s, n + k + 1, S) = IF s[n + k + 1] \in S THEN Append(Only(s, n + k, S), s[n + k + 1])
                                ELSE Only(s, n + k, S)
    BY <2>2, OnlyEquations
  <2>4. Only(t, k + 1, S) = IF t[k + 1] \in S THEN Append(Only(t, k, S), t[k + 1])
                            ELSE Only(t, k, S)
    BY <1>1, <2>2, OnlyEquations
  <2>5. Only(t, k, S) \in Seq(A)
    <3>1. k \in 0..Len(t)
      BY <1>1, <2>2
    <3>2. Only(t, k, S) \in Seq(A \cap S)
      BY <1>1, <3>1, OnlyType, Zenon
    <3> QED
      BY <3>2, SeqMonotonic, Zenon
  <2>6. CASE s[n + k + 1] \in S
    <3>1. s[n + k + 1] \in A /\ Only(t, k + 1, S) = Append(Only(t, k, S), s[n + k + 1])
      BY <2>2, <2>4, <2>6
    <3>2. Only(s, n, S) \o Only(t, k + 1, S) = Append(Only(s, n, S) \o Only(t, k, S), s[n + k + 1])
      BY <1>2, <2>5, <3>1, AppendOfConcat
    <3> QED
      BY <2>2, <2>3, <2>6, <3>2
  <2>7. CASE s[n + k + 1] \notin S
    BY <2>2, <2>3, <2>4, <2>7
  <2> QED
    BY <2>6, <2>7
<1> HIDE DEF U
<1>5. Nat \subseteq U
  BY <1>3, <1>4, SetInduction
<1> QED
  BY <1>5 DEF U, t

-----------------------------------------------------------------------------
(* The messages that end in a sequence of pieces                           *)

LastPiece == [message : Nat, last : {TRUE}]

LEMMA ConcatIs ==
  ASSUME NEW A, NEW s \in Seq(A), NEW t \in Seq(A), NEW u, u = s \o t
  PROVE  /\ u \in Seq(A) /\ Len(u) = Len(s) + Len(t)
         /\ \A i \in 1..Len(s) : u[i] = s[i]
         /\ \A i \in 1..Len(t) : u[Len(s) + i] = t[i]
  BY ConcatProperties

LEMMA LastPieceIs == \A piece \in Piece : piece \in LastPiece <=> piece.last
  BY DEF Piece, LastPiece

LEMMA OnlyLast ==
  ASSUME NEW s \in Seq(Piece), NEW n \in 0..Len(s)
  PROVE  Only(s, n, LastPiece) \in Seq(LastPiece)
<1>1. Only(s, n, LastPiece) \in Seq(Piece \cap LastPiece)
  BY OnlyType, Zenon
<1>2. Piece \cap LastPiece \subseteq LastPiece
  OBVIOUS
<1> QED
  BY <1>1, <1>2, SeqMonotonic

LEMMA MessagesAre ==
  ASSUME NEW s \in Seq(Piece), NEW n \in 0..Len(s)
  PROVE  /\ Messages(s, n) \in Seq(Nat)
         /\ Len(Messages(s, n)) = Len(Only(s, n, LastPiece))
         /\ \A i \in 1..Len(Messages(s, n)) : Messages(s, n)[i] = Only(s, n, LastPiece)[i].message
<1>1. PICK last \in Seq(LastPiece) : last = Only(s, n, LastPiece)
  BY OnlyLast
<1>2. Messages(s, n) = [i \in DOMAIN last |-> last[i].message]
  BY <1>1 DEF Messages, LastPiece
<1>3. \A i \in DOMAIN last : last[i].message \in Nat
  <2>1. \A piece \in LastPiece : piece.message \in Nat
    BY DEF LastPiece
  <2> QED
    BY <2>1
<1>4. Messages(s, n) \in [1..Len(last) -> Nat]
  BY <1>2, <1>3
<1> QED
  BY <1>1, <1>2, <1>4

\* The messages of the first pieces, and of the others.
LEMMA MessagesSplit ==
  ASSUME NEW s \in Seq(Piece), NEW n \in 0..Len(s)
  PROVE  Messages(s, Len(s)) = Messages(s, n) \o Messages(Rest(s, n), Len(Rest(s, n)))
<1>1. PICK t \in Seq(Piece) : t = Rest(s, n) /\ Len(t) = Len(s) - n
  BY RestProperties
<1>2. Len(s) - n \in 0..(Len(s) - n) /\ n + (Len(s) - n) = Len(s)
  OBVIOUS
<1>3. Only(s, n + (Len(s) - n), LastPiece)
        = Only(s, n, LastPiece) \o Only(Rest(s, n), Len(s) - n, LastPiece)
  BY <1>2, OnlySplit, Zenon
<1>4. PICK a \in Seq(LastPiece) : a = Only(s, n, LastPiece)
  BY OnlyLast
<1>5. PICK b \in Seq(LastPiece) : b = Only(t, Len(t), LastPiece)
  BY OnlyLast
<1>6. PICK c : c = Only(s, Len(s), LastPiece)
  OBVIOUS
<1>7. c = a \o b
  BY <1>1, <1>2, <1>3, <1>4, <1>5, <1>6
<1>8. /\ c \in Seq(LastPiece) /\ Len(c) = Len(a) + Len(b)
      /\ \A i \in 1..Len(a) : c[i] = a[i]
      /\ \A i \in 1..Len(b) : c[Len(a) + i] = b[i]
  BY <1>7, ConcatIs
<1>9. PICK u \in Seq(Nat) : u = Messages(s, n) /\ Len(u) = Len(a) /\ \A i \in 1..Len(u) : u[i] = a[i].message
  BY <1>4, MessagesAre
<1>10. PICK v \in Seq(Nat) : v = Messages(t, Len(t)) /\ Len(v) = Len(b) /\ \A i \in 1..Len(v) : v[i] = b[i].message
  BY <1>5, MessagesAre
<1>11. PICK w \in Seq(Nat) : w = Messages(s, Len(s)) /\ Len(w) = Len(c) /\ \A i \in 1..Len(w) : w[i] = c[i].message
  <2>1. Len(s) \in 0..Len(s)
    OBVIOUS
  <2> QED
    BY <1>6, <2>1, MessagesAre
<1>12. PICK x : x = u \o v
  OBVIOUS
<1>13. /\ x \in Seq(Nat) /\ Len(x) = Len(u) + Len(v)
       /\ \A i \in 1..Len(u) : x[i] = u[i]
       /\ \A i \in 1..Len(v) : x[Len(u) + i] = v[i]
  BY <1>12, ConcatIs
<1>14. Len(w) = Len(x)
  BY <1>8, <1>9, <1>10, <1>11, <1>13
<1>15. ASSUME NEW i \in 1..Len(w)
       PROVE  w[i] = x[i]
  <2>1. CASE i <= Len(u)
    <3>1. i \in 1..Len(u) /\ i \in 1..Len(a)
      BY <2>1, <1>9
    <3>2. x[i] = u[i] /\ u[i] = a[i].message
      BY <3>1, <1>9, <1>13
    <3>3. w[i] = c[i].message /\ c[i] = a[i]
      BY <3>1, <1>8, <1>11
    <3> QED
      BY <3>2, <3>3
  <2>2. CASE i > Len(u)
    <3>1. PICK j \in 1..Len(v) : i = Len(u) + j
      <4>1. i - Len(u) \in 1..Len(v) /\ i = Len(u) + (i - Len(u))
        BY <2>2, <1>13, <1>14
      <4> QED
        BY <4>1
    <3>2. j \in 1..Len(b) /\ i = Len(a) + j
      BY <3>1, <1>9, <1>10
    <3>3. x[i] = v[j] /\ v[j] = b[j].message
      BY <3>1, <1>10, <1>13
    <3>4. w[i] = c[i].message /\ c[i] = b[j]
      BY <3>2, <1>8, <1>11
    <3> QED
      BY <3>3, <3>4
  <2> QED
    BY <2>1, <2>2
<1>16. w = x
  BY <1>13, <1>14, <1>15, SeqEqual
<1> QED
  BY <1>1, <1>9, <1>10, <1>11, <1>12, <1>16

LEMMA MessagesPrefix ==
  ASSUME NEW s \in Seq(Piece), NEW t \in Seq(Piece)
  PROVE  Messages(s \o t, Len(s)) = Messages(s, Len(s))
<1>1. PICK u : u = s \o t
  OBVIOUS
<1>2. u \in Seq(Piece) /\ Len(s) <= Len(u) /\ \A i \in 1..Len(s) : s[i] = u[i]
  BY <1>1, ConcatIs
<1>3. Len(s) \in 0..Len(s)
  OBVIOUS
<1>4. Only(s, Len(s), LastPiece) = Only(u, Len(s), LastPiece)
  BY <1>2, <1>3, OnlyEqual
<1> QED
  BY <1>1, <1>4 DEF Messages, LastPiece

LEMMA MessagesConcat ==
  ASSUME NEW s \in Seq(Piece), NEW t \in Seq(Piece)
  PROVE  Messages(s \o t, Len(s \o t)) = Messages(s, Len(s)) \o Messages(t, Len(t))
<1>1. PICK u : u = s \o t
  OBVIOUS
<1>2. /\ u \in Seq(Piece) /\ Len(u) = Len(s) + Len(t) /\ Len(s) \in 0..Len(u)
      /\ \A i \in 1..Len(t) : u[Len(s) + i] = t[i]
  BY <1>1, ConcatIs
<1>3. PICK r : r = Rest(u, Len(s))
  OBVIOUS
<1>4. r \in Seq(Piece) /\ Len(r) = Len(t) /\ \A i \in 1..Len(r) : r[i] = t[i]
  <2>1. /\ Rest(u, Len(s)) \in Seq(Piece) /\ Len(Rest(u, Len(s))) = Len(u) - Len(s)
        /\ \A i \in 1..(Len(u) - Len(s)) : Rest(u, Len(s))[i] = u[Len(s) + i]
    BY <1>2, RestProperties
  <2>2. Len(u) - Len(s) = Len(t)
    BY <1>2
  <2> QED
    BY <1>2, <1>3, <2>1, <2>2
<1>5. r = t
  BY <1>4, SeqEqual
<1>6. Messages(u, Len(u)) = Messages(u, Len(s)) \o Messages(Rest(u, Len(s)), Len(Rest(u, Len(s))))
  BY <1>2, MessagesSplit
<1>7. Messages(u, Len(s)) = Messages(s, Len(s))
  BY <1>1, MessagesPrefix
<1> QED
  BY <1>1, <1>3, <1>5, <1>6, <1>7

LEMMA MessagesOfNone == Messages(<<>>, 0) = <<>>
<1>1. <<>> \in Seq(Piece)
  BY EmptySeq
<1>2. Only(<<>>, 0, LastPiece) = <<>>
  BY <1>1, OnlyEquations
<1> QED
  BY <1>2 DEF Messages, LastPiece

LEMMA MessagePiecesAre ==
  ASSUME NEW n \in Nat
  PROVE  /\ MessagePieces(n) \in Seq(Piece) /\ Len(MessagePieces(n)) = Pieces
         /\ Messages(MessagePieces(n), Pieces) = <<n>>
<1>1. PICK s : s = MessagePieces(n)
  OBVIOUS
<1>2. PICK k \in Nat : k + 1 = Pieces
  <2>1. Pieces - 1 \in Nat /\ (Pieces - 1) + 1 = Pieces
    BY VncProxyAssumption
  <2> QED
    BY <2>1
<1>3. \A i \in 1..Pieces : s[i] = [message |-> n, last |-> (i = Pieces)]
  BY <1>1 DEF MessagePieces
<1>4. \A i \in 1..Pieces : s[i] \in Piece /\ s[i].message = n /\ (s[i].last <=> i = Pieces)
  <2> SUFFICES ASSUME NEW i \in 1..Pieces
               PROVE  s[i] \in Piece /\ s[i].message = n /\ (s[i].last <=> i = Pieces)
    OBVIOUS
  <2>1. CASE i = Pieces
    <3>1. s[i] = [message |-> n, last |-> TRUE]
      BY <1>3, <2>1
    <3> QED
      BY <2>1, <3>1 DEF Piece
  <2>2. CASE i # Pieces
    <3>1. s[i] = [message |-> n, last |-> FALSE]
      BY <1>3, <2>2
    <3> QED
      BY <2>2, <3>1 DEF Piece
  <2> QED
    BY <2>1, <2>2
<1>5. s \in Seq(Piece) /\ Len(s) = Pieces
  <2>1. s = [i \in 1..Pieces |-> s[i]]
    BY <1>1 DEF MessagePieces
  <2> QED
    BY <1>2, <1>4, <2>1
<1>6. k \in 0..Len(s) /\ \A i \in 1..k : s[i] \notin LastPiece
  <2>1. k \in 0..Len(s) /\ \A i \in 1..k : i \in 1..Pieces /\ i # Pieces
    BY <1>2, <1>5
  <2> QED
    BY <2>1, <1>4, LastPieceIs
<1>7. Only(s, k, LastPiece) = <<>>
  BY <1>5, <1>6, OnlyNone
<1>8. k + 1 <= Len(s) /\ s[k + 1] \in LastPiece /\ s[k + 1].message = n
  BY <1>2, <1>4, <1>5, LastPieceIs
<1>9. Only(s, k + 1, LastPiece) = Append(Only(s, k, LastPiece), s[k + 1])
  BY <1>5, <1>8, OnlyEquations
<1>10. Only(s, Pieces, LastPiece) = <<s[k + 1]>>
  BY <1>2, <1>7, <1>9
<1>11. Messages(s, Pieces) = [i \in DOMAIN <<s[k + 1]>> |-> <<s[k + 1]>>[i].message]
  BY <1>10 DEF Messages, LastPiece
<1> QED
  BY <1>1, <1>5, <1>8, <1>11

-----------------------------------------------------------------------------
(* Streams of numbered messages                                            *)

\* The numbers after q up to r.
Numbers(q, r) == [i \in 1..(r - q) |-> q + i]

LEMMA NumbersAre ==
  ASSUME NEW q \in Nat, NEW r \in Nat, q <= r
  PROVE  /\ Numbers(q, r) \in Seq(Nat) /\ Len(Numbers(q, r)) = r - q
         /\ \A i \in 1..(r - q) : Numbers(q, r)[i] = q + i
<1>1. PICK s : s = Numbers(q, r)
  OBVIOUS
<1>2. PICK k \in Nat : k = r - q
  OBVIOUS
<1>3. s = [i \in 1..k |-> q + i]
  BY <1>1, <1>2 DEF Numbers
<1>4. s \in [1..k -> Nat]
  BY <1>3
<1> QED
  BY <1>1, <1>2, <1>3, <1>4

LEMMA NumbersConcat ==
  ASSUME NEW q \in Nat, NEW r \in Nat, NEW n \in Nat, q <= r, r <= n
  PROVE  Numbers(q, n) = Numbers(q, r) \o Numbers(r, n)
<1>1. PICK a \in Seq(Nat) : a = Numbers(q, r) /\ Len(a) = r - q /\ \A i \in 1..(r - q) : a[i] = q + i
  BY NumbersAre
<1>2. PICK b \in Seq(Nat) : b = Numbers(r, n) /\ Len(b) = n - r /\ \A i \in 1..(n - r) : b[i] = r + i
  BY NumbersAre
<1>3. PICK c \in Seq(Nat) : c = Numbers(q, n) /\ Len(c) = n - q /\ \A i \in 1..(n - q) : c[i] = q + i
  <2>1. q <= n
    OBVIOUS
  <2> QED
    BY <2>1, NumbersAre
<1>4. PICK x : x = a \o b
  OBVIOUS
<1>5. /\ x \in Seq(Nat) /\ Len(x) = Len(a) + Len(b)
      /\ \A i \in 1..Len(a) : x[i] = a[i]
      /\ \A i \in 1..Len(b) : x[Len(a) + i] = b[i]
  BY <1>4, ConcatIs
<1>6. ASSUME NEW i \in 1..Len(c)
      PROVE  c[i] = x[i]
  <2>1. CASE i <= r - q
    BY <2>1, <1>1, <1>3, <1>5
  <2>2. CASE i > r - q
    <3>1. PICK j \in 1..(n - r) : i = (r - q) + j
      <4>1. i - (r - q) \in 1..(n - r) /\ i = (r - q) + (i - (r - q))
        BY <2>2, <1>3
      <4> QED
        BY <4>1
    <3>2. c[i] = q + i /\ x[i] = r + j
      BY <3>1, <1>1, <1>2, <1>3, <1>5
    <3> QED
      BY <3>1, <3>2
  <2> QED
    BY <2>1, <2>2
<1>7. Len(c) = Len(x)
  BY <1>1, <1>2, <1>3, <1>5
<1>8. c = x
  BY <1>5, <1>6, <1>7, SeqEqual
<1> QED
  BY <1>1, <1>2, <1>3, <1>4, <1>8

\* x is a followed by b, said of its elements; and x holds the numbers after r up to n.
Joins(x, a, b) ==
  /\ Len(x) = Len(a) + Len(b)
  /\ \A i \in 1..Len(a) : x[i] = a[i]
  /\ \A i \in 1..Len(b) : x[Len(a) + i] = b[i]

Counts(x, r, n) == Len(x) = n - r /\ \A i \in 1..(n - r) : x[i] = r + i

\* The two parts of a sequence of numbers are such sequences.
LEMMA NumbersSplit ==
  ASSUME NEW a \in Seq(Nat), NEW b \in Seq(Nat), NEW r \in Nat, NEW n \in Nat, r <= n,
         NEW x, Joins(x, a, b), Counts(x, r, n)
  PROVE  /\ r + Len(a) <= n
         /\ a = Numbers(r, r + Len(a)) /\ b = Numbers(r + Len(a), n)
<1>1. /\ Len(x) = Len(a) + Len(b)
      /\ \A i \in 1..Len(a) : x[i] = a[i]
      /\ \A i \in 1..Len(b) : x[Len(a) + i] = b[i]
      /\ Len(x) = n - r /\ \A i \in 1..(n - r) : x[i] = r + i
  BY DEF Joins, Counts
<1>2. PICK k \in Nat : k = r + Len(a)
  OBVIOUS
<1>3. k <= n /\ r <= k /\ k - r = Len(a) /\ n - k = Len(b)
  <2>1. Len(a) + Len(b) = n - r
    BY <1>1
  <2>2. Len(a) \in Nat /\ Len(b) \in Nat
    OBVIOUS
  <2> QED
    BY <1>2, <2>1, <2>2
<1>4. PICK c \in Seq(Nat) : c = Numbers(r, k) /\ Len(c) = k - r /\ \A i \in 1..(k - r) : c[i] = r + i
  BY <1>3, NumbersAre
<1>5. PICK d \in Seq(Nat) : d = Numbers(k, n) /\ Len(d) = n - k /\ \A i \in 1..(n - k) : d[i] = k + i
  BY <1>3, NumbersAre
<1>6. a = c
  <2>1. ASSUME NEW i \in 1..Len(a)
        PROVE  a[i] = c[i]
    <3>1. a[i] = x[i] /\ i \in 1..(n - r) /\ i \in 1..(k - r)
      BY <1>1, <1>3
    <3>2. x[i] = r + i /\ c[i] = r + i
      BY <3>1, <1>1, <1>4
    <3> QED
      BY <3>1, <3>2
  <2> QED
    BY <2>1, <1>3, <1>4, SeqEqual
<1>7. b = d
  <2>1. ASSUME NEW i \in 1..Len(b)
        PROVE  b[i] = d[i]
    <3>1. b[i] = x[Len(a) + i] /\ Len(a) + i \in 1..(n - r)
      BY <1>1
    <3>2. b[i] = r + (Len(a) + i)
      BY <3>1, <1>1
    <3> QED
      BY <3>2, <1>2, <1>3, <1>5
  <2> QED
    BY <2>1, <1>3, <1>5, SeqEqual
<1> QED
  BY <1>2, <1>3, <1>4, <1>5, <1>6, <1>7

\* The pieces of a stream that end a message are those of the messages after r up to n.
Carries(stream, r, n) == Messages(stream, Len(stream)) = Numbers(r, n)

LEMMA NothingCarried == Carries(<<>>, 0, 0)
<1>1. Len(<<>>) = 0 /\ Numbers(0, 0) = <<>>
  BY DEF Numbers
<1> QED
  BY <1>1, MessagesOfNone DEF Carries

\* A message is sent: its pieces join the stream.
LEMMA CarriesMore ==
  ASSUME NEW s \in Seq(Piece), NEW r \in Nat, NEW n \in Nat, r <= n, Carries(s, r, n)
  PROVE  s \o MessagePieces(n + 1) \in Seq(Piece) /\ Carries(s \o MessagePieces(n + 1), r, n + 1)
<1>1. PICK t \in Seq(Piece) : t = MessagePieces(n + 1) /\ Len(t) = Pieces /\ Messages(t, Pieces) = <<n + 1>>
  BY MessagePiecesAre
<1>2. Messages(s \o t, Len(s \o t)) = Messages(s, Len(s)) \o Messages(t, Len(t))
  BY MessagesConcat
<1>3. Messages(t, Len(t)) = Numbers(n, n + 1)
  <2>1. Numbers(n, n + 1) = <<n + 1>>
    BY DEF Numbers
  <2> QED
    BY <1>1, <2>1
<1>4. Numbers(r, n + 1) = Numbers(r, n) \o Numbers(n, n + 1)
  <2>1. n + 1 \in Nat /\ n <= n + 1
    OBVIOUS
  <2> QED
    BY <2>1, NumbersConcat
<1>5. s \o t \in Seq(Piece)
  BY ConcatProperties
<1> QED
  BY <1>1, <1>2, <1>3, <1>4, <1>5 DEF Carries

\* The first k pieces are read.
LEMMA CarriesLess ==
  ASSUME NEW s \in Seq(Piece), NEW t \in Seq(Piece), NEW k \in 0..Len(s),
         NEW r \in Nat, NEW n \in Nat, r <= n, Carries(s \o t, r, n)
  PROVE  \E q \in Nat : /\ r <= q /\ q <= n /\ Messages(s, k) = Numbers(r, q)
                        /\ Carries(Rest(s, k) \o t, q, n)
<1>1. PICK u \in Seq(Piece) : u = Rest(s, k)
  BY RestProperties
<1>2. PICK a \in Seq(Nat) : a = Messages(s, k)
  BY MessagesAre
<1>3. PICK b \in Seq(Nat) : b = Messages(u, Len(u))
  <2>1. Len(u) \in 0..Len(u)
    OBVIOUS
  <2> QED
    BY <2>1, MessagesAre
<1>4. PICK c \in Seq(Nat) : c = Messages(t, Len(t))
  <2>1. Len(t) \in 0..Len(t)
    OBVIOUS
  <2> QED
    BY <2>1, MessagesAre
<1>5. PICK m : m = Messages(s, Len(s))
  OBVIOUS
<1>6. m = a \o b
  BY <1>1, <1>2, <1>3, <1>5, MessagesSplit
<1>7. PICK f : f = Messages(s \o t, Len(s \o t))
  OBVIOUS
<1>8. f = m \o c
  BY <1>4, <1>5, <1>7, MessagesConcat
<1>9. PICK g : g = Messages(u \o t, Len(u \o t))
  OBVIOUS
<1>10. g = b \o c
  BY <1>3, <1>4, <1>9, MessagesConcat
<1>11. g \in Seq(Nat) /\ f = a \o g
  <2>1. (a \o b) \o c = a \o (b \o c)
    BY ConcatAssociative
  <2>2. g \in Seq(Nat)
    BY <1>10, ConcatProperties
  <2>3. f = (a \o b) \o c
    BY <1>6, <1>8
  <2>4. a \o g = a \o (b \o c)
    BY <1>10
  <2>5. f = a \o (b \o c)
    BY <2>1, <2>3
  <2> QED
    BY <2>2, <2>4, <2>5
<1>12. r + Len(a) <= n /\ a = Numbers(r, r + Len(a)) /\ g = Numbers(r + Len(a), n)
  <2>1. f = Numbers(r, n)
    BY <1>7 DEF Carries
  <2>2. Counts(f, r, n)
    BY <2>1, NumbersAre DEF Counts
  <2>3. Joins(f, a, g)
    BY <1>11, ConcatProperties DEF Joins
  <2>4. g \in Seq(Nat)
    BY <1>11
  <2> QED
    BY <2>2, <2>3, <2>4, NumbersSplit
<1>13. Carries(u \o t, r + Len(a), n)
  BY <1>9, <1>12 DEF Carries
<1>14. r + Len(a) \in Nat /\ r <= r + Len(a)
  OBVIOUS
<1> QED
  BY <1>1, <1>2, <1>12, <1>13, <1>14

\* Pieces that arrive do not change the stream.
LEMMA ArrivalKeeps ==
  ASSUME NEW s \in Seq(Piece), NEW t \in Seq(Piece), NEW k \in 1..Len(t)
  PROVE  /\ s \o SubSeq(t, 1, k) \in Seq(Piece) /\ Rest(t, k) \in Seq(Piece)
         /\ (s \o SubSeq(t, 1, k)) \o Rest(t, k) = s \o t
<1>1. PICK a \in Seq(Piece) : a = SubSeq(t, 1, k) /\ Len(a) = k /\ \A i \in 1..k : a[i] = t[i]
  <2>1. \A i \in 1..k : t[i] \in Piece
    OBVIOUS
  <2>2. /\ SubSeq(t, 1, k) \in Seq(Piece)
        /\ Len(SubSeq(t, 1, k)) = IF 1 <= k THEN k - 1 + 1 ELSE 0
        /\ \A i \in 1..(k - 1 + 1) : SubSeq(t, 1, k)[i] = t[1 + i - 1]
    BY <2>1, SubSeqProperties
  <2>3. PICK a : a = SubSeq(t, 1, k)
    OBVIOUS
  <2>4. k - 1 + 1 = k /\ 1 <= k /\ \A i \in 1..k : 1 + i - 1 = i
    OBVIOUS
  <2>5. a \in Seq(Piece) /\ Len(a) = k /\ \A i \in 1..k : a[i] = t[i]
    BY <2>2, <2>3, <2>4
  <2> QED
    BY <2>3, <2>5
<1>2. PICK b \in Seq(Piece) : b = Rest(t, k) /\ Len(b) = Len(t) - k /\ \A i \in 1..(Len(t) - k) : b[i] = t[k + i]
  BY RestProperties
<1>3. a \o b = t
  <2>1. 1 \in 1..(Len(t) + 1) /\ k \in (1 - 1)..Len(t) /\ Len(t) \in k..Len(t)
    OBVIOUS
  <2>2. SubSeq(t, 1, k) \o SubSeq(t, k + 1, Len(t)) = SubSeq(t, 1, Len(t))
    BY <2>1, ConcatAdjacentSubSeq
  <2> QED
    BY <1>1, <1>2, <2>2, SubSeqFull DEF Rest
<1>4. (s \o a) \o b = s \o (a \o b)
  BY ConcatAssociative
<1>5. s \o a \in Seq(Piece)
  BY ConcatProperties
<1> QED
  BY <1>1, <1>2, <1>3, <1>4, <1>5

\* What is forwarded of the first messages and of the next ones.
LEMMA OnlyConcat ==
  ASSUME NEW A, NEW s \in Seq(A), NEW t \in Seq(A), NEW S
  PROVE  Only(s \o t, Len(s \o t), S) = Only(s, Len(s), S) \o Only(t, Len(t), S)
<1>1. PICK u : u = s \o t
  OBVIOUS
<1>2. /\ u \in Seq(A) /\ Len(u) = Len(s) + Len(t) /\ Len(s) \in 0..Len(u)
      /\ \A i \in 1..Len(s) : u[i] = s[i]
      /\ \A i \in 1..Len(t) : u[Len(s) + i] = t[i]
  BY <1>1, ConcatIs
<1>3. PICK r : r = Rest(u, Len(s))
  OBVIOUS
<1>4. r \in Seq(A) /\ Len(r) = Len(t) /\ \A i \in 1..Len(r) : r[i] = t[i]
  <2>1. /\ Rest(u, Len(s)) \in Seq(A) /\ Len(Rest(u, Len(s))) = Len(u) - Len(s)
        /\ \A i \in 1..(Len(u) - Len(s)) : Rest(u, Len(s))[i] = u[Len(s) + i]
    BY <1>2, RestProperties
  <2>2. Len(u) - Len(s) = Len(t)
    BY <1>2
  <2> QED
    BY <1>2, <1>3, <2>1, <2>2
<1>5. r = t
  BY <1>4, SeqEqual
<1>6. Len(t) \in 0..(Len(u) - Len(s))
  BY <1>2
<1>7. Only(u, Len(s) + Len(t), S) = Only(u, Len(s), S) \o Only(Rest(u, Len(s)), Len(t), S)
  BY <1>2, <1>6, OnlySplit
<1>8. Only(u, Len(s), S) = Only(s, Len(s), S)
  <2>1. PICK l \in Nat : l = Len(s)
    OBVIOUS
  <2>2. u \in Seq(A) /\ l \in 0..Len(u) /\ l <= Len(s)
    BY <1>2, <2>1
  <2>3. \A i \in 1..l : u[i] = s[i] /\ (u[i] \in S <=> s[i] \in S)
    BY <1>2, <2>1
  <2>4. Only(u, l, S) = Only(s, l, S)
    BY <2>2, <2>3, OnlyEqual
  <2> QED
    BY <2>1, <2>4
<1> QED
  BY <1>1, <1>2, <1>3, <1>5, <1>7, <1>8

-----------------------------------------------------------------------------
(* Type correctness                                                        *)

LEMMA ProtocolsAre ==
  /\ DOMAIN ServerProtocol = 1..7 /\ DOMAIN ClientProtocol = 1..6
  /\ \A i \in 1..7 : ServerProtocol[i] = "Running" <=> i = 7
  /\ \A i \in 1..7 : ServerProtocol[i] = "AccessControl" <=> i = 5
  /\ \A i \in 1..6 : ClientProtocol[i] = "Running" <=> i = 6
  BY DEF ServerProtocol, ClientProtocol

\* Every state but the last has a state after it, and the last one does not come after
\* access control.
LEMMA AfterIs ==
  /\ \A state \in Range(ServerProtocol) \ {"Running"} :
       After(state, ServerProtocol) \in Range(ServerProtocol)
  /\ \A state \in Range(ClientProtocol) \ {"Running"} :
       After(state, ClientProtocol) \in Range(ClientProtocol)
  /\ After("AccessControl", ServerProtocol) # "Running"
<1>1. ASSUME NEW state \in Range(ServerProtocol) \ {"Running"}
      PROVE  /\ After(state, ServerProtocol) \in Range(ServerProtocol)
             /\ state = "AccessControl" => After(state, ServerProtocol) # "Running"
  <2>1. PICK P : P = ServerProtocol
    OBVIOUS
  <2>2. PICK i : i = CHOOSE k \in DOMAIN P : P[k] = state
    OBVIOUS
  <2>3. \E j \in DOMAIN P : P[j] = state
    BY <2>1 DEF Range
  <2>4. i \in DOMAIN P /\ P[i] = state
    BY <2>2, <2>3
  <2>5. i \in 1..6 /\ (state = "AccessControl" => i = 5)
    BY <2>1, <2>4, ProtocolsAre
  <2>6. After(state, P) = P[1 + i]
    BY <2>2, Zenon DEF After
  <2>7. 1 + i \in DOMAIN P
    BY <2>1, <2>5, ProtocolsAre
  <2>8. P[1 + i] \in Range(P)
    BY <2>7 DEF Range
  <2>9. i = 5 => P[1 + i] # "Running"
    BY <2>1, ProtocolsAre
  <2> QED
    BY <2>1, <2>5, <2>6, <2>8, <2>9
<1>2. ASSUME NEW state \in Range(ClientProtocol) \ {"Running"}
      PROVE  After(state, ClientProtocol) \in Range(ClientProtocol)
  <2>1. PICK P : P = ClientProtocol
    OBVIOUS
  <2>2. PICK i : i = CHOOSE k \in DOMAIN P : P[k] = state
    OBVIOUS
  <2>3. \E j \in DOMAIN P : P[j] = state
    BY <2>1 DEF Range
  <2>4. i \in DOMAIN P /\ P[i] = state
    BY <2>2, <2>3
  <2>5. i \in 1..5
    BY <2>1, <2>4, ProtocolsAre
  <2>6. After(state, P) = P[1 + i]
    BY <2>2, Zenon DEF After
  <2>7. 1 + i \in DOMAIN P
    BY <2>1, <2>5, ProtocolsAre
  <2>8. P[1 + i] \in Range(P)
    BY <2>7 DEF Range
  <2> QED
    BY <2>1, <2>6, <2>8
<1>3. "AccessControl" \in Range(ServerProtocol) \ {"Running"}
  <2>1. ServerProtocol[5] = "AccessControl" /\ 5 \in DOMAIN ServerProtocol
    BY ProtocolsAre
  <2> QED
    BY <2>1 DEF Range
<1> QED
  BY <1>1, <1>2, <1>3

LEMMA TailIs ==
  ASSUME NEW A, NEW s \in Seq(A), s # <<>>
  PROVE  Tail(s) \in Seq(A) /\ Len(Tail(s)) = Len(s) - 1
  BY HeadTailProperties

\* The server protocol is running for the client and has not been set to Close.
LEMMA ServedIs ==
  ASSUME NEW p \in Proxy
  PROVE  /\ protocolState(p) = "Running" => p.serverProtocol = "Running"
         /\ p.serverProtocol # "Running" => protocolState(p) # "Running"
         /\ protocolState(p) = "Close" <=> p.closing
<1>1. p.closing \in BOOLEAN /\ p.serverProtocol \in Range(ServerProtocol)
  BY DEF Proxy
<1>2. p.serverProtocol # "Close"
  BY <1>1 DEF Range, ServerProtocol
<1>3. CASE p.closing
  BY <1>3 DEF protocolState
<1>4. CASE ~ p.closing
  BY <1>2, <1>4 DEF protocolState
<1> QED
  BY <1>1, <1>3, <1>4

LEMMA ServerProtocolReadType ==
  ASSUME NEW p \in Proxy
  PROVE  serverProtocolRead(p) \in Proxy
<1>a. [p EXCEPT !.clientSocket = "closed"] \in Proxy
  BY DEF Proxy
<1>1. SUFFICES ASSUME serverProtocolReads(p), protocolState(p) # "Close"
               PROVE  serverProtocolRead(p) \in Proxy
  BY <1>a DEF serverProtocolRead
<1>2. p.serverProtocol # "Running" /\ (p.serverProtocol # "AccessControl" => p.clientBuffer # <<>>)
  BY <1>1 DEF serverProtocolReads
<1>3. PICK b \in Seq(Piece) :
        b = IF p.serverProtocol = "AccessControl" THEN p.clientBuffer ELSE Tail(p.clientBuffer)
  <2>1. p.clientBuffer \in Seq(Piece)
    BY DEF Proxy
  <2>2. p.serverProtocol # "AccessControl" => Tail(p.clientBuffer) \in Seq(Piece)
    BY <1>2, <2>1, TailIs
  <2> QED
    BY <2>1, <2>2
<1>4. PICK a \in Range(ServerProtocol) : a = After(p.serverProtocol, ServerProtocol)
  <2>1. p.serverProtocol \in Range(ServerProtocol)
    BY DEF Proxy
  <2> QED
    BY <1>2, <2>1, AfterIs
<1>5. serverProtocolRead(p) = [p EXCEPT !.serverProtocol = a, !.clientBuffer = b]
  BY <1>1, <1>3, <1>4 DEF serverProtocolRead
<1> QED
  BY <1>5 DEF Proxy

LEMMA ClientProtocolLoopType ==
  ASSUME NEW p \in Proxy, p.clientProtocol # "Running"
  PROVE  clientProtocolLoop(p) \in Proxy
<1>1. SUFFICES ASSUME p.serverBuffer # <<>>
               PROVE  clientProtocolLoop(p) \in Proxy
  BY DEF clientProtocolLoop
<1>2. PICK b \in Seq(Piece) : b = Tail(p.serverBuffer)
  <2>1. p.serverBuffer \in Seq(Piece)
    BY DEF Proxy
  <2> QED
    BY <1>1, <2>1, TailIs
<1>3. PICK a \in Range(ClientProtocol) : a = After(p.clientProtocol, ClientProtocol)
  <2>1. p.clientProtocol \in Range(ClientProtocol)
    BY DEF Proxy
  <2> QED
    BY <2>1, AfterIs
<1>4. clientProtocolLoop(p) = [p EXCEPT !.clientProtocol = a, !.serverBuffer = b]
  BY <1>1, <1>2, <1>3 DEF clientProtocolLoop
<1> QED
  BY <1>4 DEF Proxy

\* The numbers of the messages for the VNC server.
Forwarded(sent, messages) ==
  Only(messages, Len(messages), {n \in DOMAIN sent : sent[n] = "rfb"})

LEMMA ForwardedType ==
  ASSUME NEW sent, NEW messages \in Seq(Nat)
  PROVE  Forwarded(sent, messages) \in Seq(Nat)
<1>1. Len(messages) \in 0..Len(messages)
  OBVIOUS
<1>2. Forwarded(sent, messages) \in Seq(Nat \cap {n \in DOMAIN sent : sent[n] = "rfb"})
  BY <1>1, OnlyType DEF Forwarded
<1> QED
  BY <1>2, SeqMonotonic

\* After the last piece that ends a message there is none.
LEMMA NoEndsLeft ==
  ASSUME NEW s \in Seq(Piece)
  PROVE  Ends(Rest(s, IF Ends(s) # {} THEN Max(Ends(s)) ELSE 0)) = {}
<1>1. PICK E : E = Ends(s)
  OBVIOUS
<1>2. PICK l \in Nat : l = Len(s)
  OBVIOUS
<1>3. E \in SUBSET (1..l) /\ \A i \in 1..l : s[i].last => i \in E
  BY <1>1, <1>2 DEF Ends
<1>4. PICK n : n = IF E # {} THEN Max(E) ELSE 0
  OBVIOUS
<1>5. n \in 0..l /\ \A i \in E : i <= n
  <2>1. CASE E = {}
    BY <1>4, <2>1
  <2>2. CASE E # {}
    <3>1. Max(E) \in E /\ \A i \in E : i <= Max(E)
      BY <1>3, <2>2, LargestElement
    <3>2. n = Max(E)
      BY <1>4, <2>2
    <3>3. n \in E /\ \A i \in E : i <= n
      BY <3>1, <3>2
    <3> QED
      BY <1>3, <3>3
  <2> QED
    BY <2>1, <2>2
<1>6. PICK t \in Seq(Piece) : /\ t = Rest(s, n) /\ Len(t) = l - n
                              /\ \A i \in 1..(l - n) : t[i] = s[n + i]
  BY <1>2, <1>5, RestProperties
<1>7. ASSUME NEW i \in 1..(l - n)
      PROVE  ~ t[i].last
  <2>1. t[i] = s[n + i] /\ n + i \in 1..l /\ ~ (n + i <= n)
    BY <1>5, <1>6
  <2>2. n + i \notin E
    BY <1>5, <2>1
  <2> QED
    BY <1>3, <2>1, <2>2
<1>8. Ends(t) = {}
  BY <1>6, <1>7 DEF Ends
<1> QED
  BY <1>1, <1>4, <1>6, <1>8

\* What receiveClientMessages() and receiveServerMessages() do: some first pieces are read;
\* no whole message stays, unless one of the client's has ended the loop.
LEMMA ClientMessagesReceived ==
  ASSUME NEW p \in Proxy
  PROVE  \E n \in 0..Len(p.clientBuffer) :
           /\ receiveClientMessages(p) =
                [p EXCEPT !.clientBuffer = Rest(p.clientBuffer, n),
                          !.toServer = IF p.serverSocket = "open"
                                       THEN p.toServer \o Forwarded(p.clientSent, Messages(p.clientBuffer, n))
                                       ELSE p.toServer]
           /\ \/ Ends(Rest(p.clientBuffer, n)) = {}
              \/ \E i \in Ends(p.clientBuffer) : EndsLoop(p, p.clientBuffer[i].message)
<1> DEFINE ends  == Ends(p.clientBuffer)
           final == {i \in ends : EndsLoop(p, p.clientBuffer[i].message)}
           n     == IF final # {} THEN Min(final) ELSE IF ends # {} THEN Max(ends) ELSE 0
<1>1. p.clientBuffer \in Seq(Piece)
  BY DEF Proxy
<1>2. ends \in SUBSET (1..Len(p.clientBuffer)) /\ final \subseteq ends
  BY <1>1 DEF Ends
<1>3. n \in 0..Len(p.clientBuffer)
  <2>1. PICK k \in Nat : k = Len(p.clientBuffer)
    BY <1>1
  <2>2. PICK E, F : E = ends /\ F = final
    OBVIOUS
  <2>3. E \in SUBSET (1..k) /\ F \in SUBSET (1..k)
    BY <1>2, <2>1, <2>2
  <2>4. F # {} => Min(F) \in F
    BY <2>3, LargestElement
  <2>5. E # {} => Max(E) \in E
    BY <2>3, LargestElement
  <2>6. n = IF F # {} THEN Min(F) ELSE IF E # {} THEN Max(E) ELSE 0
    BY <2>2
  <2> HIDE DEF n, ends, final
  <2>7. (F # {} => Min(F) \in 1..k) /\ (E # {} => Max(E) \in 1..k)
    BY <2>3, <2>4, <2>5
  <2>8. n \in 0..k
    BY <2>6, <2>7
  <2> QED
    BY <2>1, <2>8
<1>4. receiveClientMessages(p) =
        [p EXCEPT !.clientBuffer = Rest(p.clientBuffer, n),
                  !.toServer = IF p.serverSocket = "open"
                               THEN p.toServer \o Forwarded(p.clientSent, Messages(p.clientBuffer, n))
                               ELSE p.toServer]
  BY DEF receiveClientMessages, Forward, Forwarded, Proxy
<1>5. Ends(Rest(p.clientBuffer, n)) = {} \/ final # {}
  <2>1. final = {} => n = IF ends # {} THEN Max(ends) ELSE 0
    OBVIOUS
  <2> QED
    BY <1>1, <2>1, NoEndsLeft
<1>6. final # {} => \E i \in Ends(p.clientBuffer) : EndsLoop(p, p.clientBuffer[i].message)
  OBVIOUS
<1> HIDE DEF n, final
<1> QED
  BY <1>3, <1>4, <1>5, <1>6

LEMMA ServerMessagesReceived ==
  ASSUME NEW p \in Proxy
  PROVE  \E n \in 0..Len(p.serverBuffer) :
           /\ receiveServerMessages(p) =
                [p EXCEPT !.serverBuffer = Rest(p.serverBuffer, n),
                          !.toClient = IF p.clientSocket = "open"
                                       THEN p.toClient \o Messages(p.serverBuffer, n)
                                       ELSE p.toClient]
           /\ Ends(Rest(p.serverBuffer, n)) = {}
<1> DEFINE ends == Ends(p.serverBuffer)
           n    == IF ends # {} THEN Max(ends) ELSE 0
<1>1. p.serverBuffer \in Seq(Piece)
  BY DEF Proxy
<1>2. ends \in SUBSET (1..Len(p.serverBuffer))
  BY <1>1 DEF Ends
<1>3. n \in 0..Len(p.serverBuffer)
  <2>1. PICK k \in Nat : k = Len(p.serverBuffer)
    BY <1>1
  <2>2. PICK E : E = ends
    OBVIOUS
  <2>3. E \in SUBSET (1..k)
    BY <1>2, <2>1, <2>2
  <2>4. E # {} => Max(E) \in E
    BY <2>3, LargestElement
  <2>5. n = IF E # {} THEN Max(E) ELSE 0
    BY <2>2
  <2> HIDE DEF n, ends
  <2>6. E # {} => Max(E) \in 1..k
    BY <2>3, <2>4
  <2>7. n \in 0..k
    BY <2>5, <2>6
  <2> QED
    BY <2>1, <2>7
<1>4. receiveServerMessages(p) =
        [p EXCEPT !.serverBuffer = Rest(p.serverBuffer, n),
                  !.toClient = IF p.clientSocket = "open"
                               THEN p.toClient \o Messages(p.serverBuffer, n)
                               ELSE p.toClient]
  BY DEF receiveServerMessages, Proxy
<1>5. Ends(Rest(p.serverBuffer, n)) = {}
  BY <1>1, NoEndsLeft
<1> HIDE DEF n
<1> QED
  BY <1>3, <1>4, <1>5

LEMMA LaterType ==
  ASSUME NEW p \in Proxy
  PROVE  readFromClientLater(p) \in Proxy /\ readFromServerLater(p) \in Proxy
<1>1. p.clientTimers \in Nat /\ p.serverTimers \in Nat
  BY DEF Proxy
<1>2. PICK m \in Nat, n \in Nat : m = p.clientTimers + 1 /\ n = p.serverTimers + 1
  BY <1>1
<1>3. [p EXCEPT !.clientTimers = m] \in Proxy /\ [p EXCEPT !.serverTimers = n] \in Proxy
  BY DEF Proxy
<1> QED
  BY <1>2, <1>3 DEF readFromClientLater, readFromServerLater

LEMMA ReadFromClientType ==
  ASSUME NEW p \in Proxy
  PROVE  readFromClient(p) \in Proxy
<1>1. ASSUME NEW q \in Proxy
      PROVE  readFromClientLater(q) \in Proxy
  BY LaterType
<1>2. CASE protocolState(p) # "Running"
  <2>1. serverProtocolLoop(p) \in Proxy
    BY ServerProtocolReadType DEF serverProtocolLoop
  <2>2. readFromClient(p) = readFromClientLater(serverProtocolLoop(p))
    BY <1>2 DEF readFromClient
  <2> QED
    BY <1>1, <2>1, <2>2
<1>3. CASE protocolState(p) = "Running" /\ p.clientProtocol # "Running"
  BY <1>1, <1>3 DEF readFromClient
<1>4. CASE protocolState(p) = "Running" /\ p.clientProtocol = "Running"
  <2>1. PICK n \in 0..Len(p.clientBuffer) :
          receiveClientMessages(p) =
            [p EXCEPT !.clientBuffer = Rest(p.clientBuffer, n),
                      !.toServer = IF p.serverSocket = "open"
                                   THEN p.toServer \o Forwarded(p.clientSent, Messages(p.clientBuffer, n))
                                   ELSE p.toServer]
    BY ClientMessagesReceived
  <2>2. p.clientBuffer \in Seq(Piece) /\ p.toServer \in Seq(Nat)
    BY DEF Proxy
  <2>3. PICK b \in Seq(Piece) : b = Rest(p.clientBuffer, n)
    BY <2>2, RestProperties
  <2>4. PICK f \in Seq(Nat) : f = Forwarded(p.clientSent, Messages(p.clientBuffer, n))
    <3>1. Messages(p.clientBuffer, n) \in Seq(Nat)
      BY <2>2, MessagesAre
    <3> QED
      BY <3>1, ForwardedType
  <2>5. PICK t \in Seq(Nat) : t = IF p.serverSocket = "open" THEN p.toServer \o f ELSE p.toServer
    <3>1. p.toServer \o f \in Seq(Nat)
      BY <2>2, ConcatProperties
    <3> QED
      BY <2>2, <3>1
  <2>6. receiveClientMessages(p) = [p EXCEPT !.clientBuffer = b, !.toServer = t]
    BY <2>1, <2>3, <2>4, <2>5
  <2>7. receiveClientMessages(p) \in Proxy
    BY <2>6 DEF Proxy
  <2> QED
    BY <1>4, <2>7 DEF readFromClient
<1> QED
  BY <1>2, <1>3, <1>4

LEMMA ReadFromServerType ==
  ASSUME NEW p \in Proxy
  PROVE  readFromServer(p) \in Proxy
<1>1. ASSUME NEW q \in Proxy
      PROVE  readFromServerLater(q) \in Proxy
  BY LaterType
<1>2. CASE p.clientProtocol # "Running"
  <2>1. PICK q \in Proxy : q = clientProtocolLoop(p)
    BY <1>2, ClientProtocolLoopType
  <2>2. readFromServer(p) = IF q.clientProtocol = "Running" THEN readFromServerLater(q) ELSE q
    BY <1>2, <2>1 DEF readFromServer
  <2> QED
    BY <1>1, <2>2
<1>3. CASE p.clientProtocol = "Running" /\ protocolState(p) # "Running"
  BY <1>1, <1>3 DEF readFromServer
<1>4. CASE p.clientProtocol = "Running" /\ protocolState(p) = "Running"
  <2>1. PICK n \in 0..Len(p.serverBuffer) :
          receiveServerMessages(p) =
            [p EXCEPT !.serverBuffer = Rest(p.serverBuffer, n),
                      !.toClient = IF p.clientSocket = "open"
                                   THEN p.toClient \o Messages(p.serverBuffer, n)
                                   ELSE p.toClient]
    BY ServerMessagesReceived
  <2>2. p.serverBuffer \in Seq(Piece) /\ p.toClient \in Seq(Nat)
    BY DEF Proxy
  <2>3. PICK b \in Seq(Piece) : b = Rest(p.serverBuffer, n)
    BY <2>2, RestProperties
  <2>4. PICK f \in Seq(Nat) : f = Messages(p.serverBuffer, n)
    BY <2>2, MessagesAre
  <2>5. PICK t \in Seq(Nat) : t = IF p.clientSocket = "open" THEN p.toClient \o f ELSE p.toClient
    <3>1. p.toClient \o f \in Seq(Nat)
      BY <2>2, ConcatProperties
    <3> QED
      BY <2>2, <3>1
  <2>6. receiveServerMessages(p) = [p EXCEPT !.serverBuffer = b, !.toClient = t]
    BY <2>1, <2>3, <2>4, <2>5
  <2>7. receiveServerMessages(p) \in Proxy
    BY <2>6 DEF Proxy
  <2> QED
    BY <1>4, <2>7 DEF readFromServer
<1> QED
  BY <1>2, <1>3, <1>4

LEMMA ArrivalType ==
  ASSUME NEW p \in Proxy
  PROVE  /\ \A n \in 1..Len(p.clientWire) :
              [p EXCEPT !.clientWire = Rest(@, n),
                        !.clientBuffer = @ \o SubSeq(p.clientWire, 1, n)] \in Proxy
         /\ \A n \in 1..Len(p.serverWire) :
              [p EXCEPT !.serverWire = Rest(@, n),
                        !.serverBuffer = @ \o SubSeq(p.serverWire, 1, n)] \in Proxy
<1>1. /\ p.clientWire \in Seq(Piece) /\ p.clientBuffer \in Seq(Piece)
      /\ p.serverWire \in Seq(Piece) /\ p.serverBuffer \in Seq(Piece)
  BY DEF Proxy
<1>2. ASSUME NEW n \in 1..Len(p.clientWire)
      PROVE  [p EXCEPT !.clientWire = Rest(@, n),
                       !.clientBuffer = @ \o SubSeq(p.clientWire, 1, n)] \in Proxy
  <2>1. PICK b \in Seq(Piece) : b = p.clientBuffer \o SubSeq(p.clientWire, 1, n)
    BY <1>1, ArrivalKeeps
  <2>2. PICK w \in Seq(Piece) : w = Rest(p.clientWire, n)
    BY <1>1, ArrivalKeeps
  <2>3. [p EXCEPT !.clientWire = w, !.clientBuffer = b] \in Proxy
    BY DEF Proxy
  <2> QED
    BY <2>1, <2>2, <2>3
<1>3. ASSUME NEW n \in 1..Len(p.serverWire)
      PROVE  [p EXCEPT !.serverWire = Rest(@, n),
                       !.serverBuffer = @ \o SubSeq(p.serverWire, 1, n)] \in Proxy
  <2>1. PICK b \in Seq(Piece) : b = p.serverBuffer \o SubSeq(p.serverWire, 1, n)
    BY <1>1, ArrivalKeeps
  <2>2. PICK w \in Seq(Piece) : w = Rest(p.serverWire, n)
    BY <1>1, ArrivalKeeps
  <2>3. [p EXCEPT !.serverWire = w, !.serverBuffer = b] \in Proxy
    BY DEF Proxy
  <2> QED
    BY <2>1, <2>2, <2>3
<1> QED
  BY <1>2, <1>3

LEMMA CloseType ==
  ASSUME TypeOK, NEW c \in Connections, Exists(c), closeConnection(c)
  PROVE  /\ m_connections' = {d \in Connections : object'[d] = "alive"}
         /\ object' \in [Connections -> State]
  BY DEF TypeOK, closeConnection, Exists, State

\* A handler leaves one proxy in another state, and the connection in the list unless it
\* has closed a socket.
LEMMA HandleType ==
  ASSUME TypeOK, NEW c \in Connections, NEW q, q \in Proxy, Handle(c, q)
  PROVE  TypeOK'
<1>1. /\ proxy \in [Connections -> Proxy] /\ proxy' = [proxy EXCEPT ![c] = q]
      /\ Exists(c) /\ UNCHANGED listening
      /\ closeConnection(c) \/ UNCHANGED <<m_connections, object>>
  BY DEF TypeOK, Handle
<1>2. proxy' \in [Connections -> Proxy]
  BY <1>1, Zenon
<1>3. /\ m_connections' = {d \in Connections : object'[d] = "alive"}
      /\ object' \in [Connections -> State]
  <2>1. CASE closeConnection(c)
    BY <1>1, <2>1, CloseType
  <2>2. CASE UNCHANGED <<m_connections, object>>
    BY <2>2 DEF TypeOK
  <2> QED
    BY <1>1, <2>1, <2>2
<1> QED
  BY <1>1, <1>2, <1>3 DEF TypeOK

LEMMA DisconnectedType ==
  ASSUME TypeOK, NEW c \in Connections, NEW socket \in {"clientSocket", "serverSocket"},
         disconnected(c, socket)
  PROVE  TypeOK'
<1>1. PICK p \in Proxy : p = proxy[c]
  BY DEF TypeOK
<1>2. PICK q \in Proxy : q = [p EXCEPT ![socket] = "closed"]
  <2>1. [p EXCEPT !.clientSocket = "closed"] \in Proxy /\ [p EXCEPT !.serverSocket = "closed"] \in Proxy
    BY DEF Proxy
  <2>2. [p EXCEPT ![socket] = "closed"] \in Proxy
    <3>1. CASE socket = "clientSocket"
      BY <2>1, <3>1
    <3>2. CASE socket = "serverSocket"
      BY <2>1, <3>2
    <3> QED
      BY <3>1, <3>2
  <2> QED
    BY <2>2
<1>3. Handle(c, q)
  BY <1>1, <1>2 DEF disconnected
<1> QED
  BY <1>3, HandleType

LEMMA TypeInit == Init => TypeOK
<1>1. <<>> \in Seq(Piece) /\ <<>> \in Seq(Kinds) /\ <<>> \in Seq(Nat)
  BY EmptySeq
<1>2. "Protocol" \in Range(ServerProtocol) /\ "Protocol" \in Range(ClientProtocol)
  <2>1. /\ 1 \in DOMAIN ServerProtocol /\ ServerProtocol[1] = "Protocol"
        /\ 1 \in DOMAIN ClientProtocol /\ ClientProtocol[1] = "Protocol"
    BY DEF ServerProtocol, ClientProtocol
  <2> QED
    BY <2>1 DEF Range
<1>3. PICK e : e = <<>>
  OBVIOUS
<1>4. NewProxy \in Proxy
  <2> HIDE DEF Piece
  <2>1. e \in Seq(Piece) /\ e \in Seq(Kinds) /\ e \in Seq(Nat)
    BY <1>1, <1>3
  <2>2. NewProxy =
          [clientSocket |-> "open", serverSocket |-> "connecting",
           clientWire |-> e, clientBuffer |-> e, serverWire |-> e, serverBuffer |-> e,
           serverProtocol |-> "Protocol", closing |-> FALSE, clientProtocol |-> "Protocol",
           granted |-> FALSE,
           clientTimers |-> 0, serverTimers |-> 0,
           clientSent |-> e, serverSent |-> 0, toServer |-> e, toClient |-> e]
    BY <1>3, Zenon DEF NewProxy
  <2> QED
    BY <1>2, <2>1, <2>2 DEF Proxy
<1> QED
  BY <1>4 DEF Init, TypeOK, State

LEMMA PeersType ==
  ASSUME TypeOK, NEW c \in Connections, Peers(c)
  PROVE  TypeOK'
<1>1. PICK p \in Proxy : p = proxy[c]
  BY DEF TypeOK
<1>2. /\ p.clientWire \in Seq(Piece) /\ p.serverWire \in Seq(Piece)
      /\ p.clientSent \in Seq(Kinds) /\ p.serverSent \in Nat
  BY DEF Proxy
<1>3. CASE vncServerConnects(c)
  <2>1. PICK outcome \in {"open", "refused"} : Handle(c, [p EXCEPT !.serverSocket = outcome])
    BY <1>1, <1>3 DEF vncServerConnects
  <2>2. [p EXCEPT !.serverSocket = outcome] \in Proxy
    BY DEF Proxy
  <2> QED
    BY <2>1, <2>2, HandleType
<1>4. CASE grantAccess(c)
  <2>1. Handle(c, [p EXCEPT !.granted = TRUE])
    BY <1>1, <1>4 DEF grantAccess
  <2>2. [p EXCEPT !.granted = TRUE] \in Proxy
    BY DEF Proxy
  <2> QED
    BY <2>1, <2>2, HandleType
<1>a. CASE revokeAccess(c)
  <2>1. Handle(c, [p EXCEPT !.closing = TRUE])
    BY <1>1, <1>a DEF revokeAccess
  <2>2. [p EXCEPT !.closing = TRUE] \in Proxy
    BY DEF Proxy
  <2> QED
    BY <2>1, <2>2, HandleType
<1>5. HandshakePiece \in Seq(Piece)
  BY DEF HandshakePiece, Piece
<1>6. CASE clientShakesHands(c)
  <2>1. Handle(c, [p EXCEPT !.clientWire = HandshakePiece])
    BY <1>1, <1>6 DEF clientShakesHands
  <2>2. [p EXCEPT !.clientWire = HandshakePiece] \in Proxy
    BY <1>5 DEF Proxy
  <2> QED
    BY <2>1, <2>2, HandleType
<1>7. CASE serverShakesHands(c)
  <2>1. Handle(c, [p EXCEPT !.serverWire = HandshakePiece])
    BY <1>1, <1>7 DEF serverShakesHands
  <2>2. [p EXCEPT !.serverWire = HandshakePiece] \in Proxy
    BY <1>5 DEF Proxy
  <2> QED
    BY <2>1, <2>2, HandleType
<1>8. CASE clientSends(c)
  <2>1. PICK kind \in Kinds :
          Handle(c, [p EXCEPT !.clientSent = Append(@, kind),
                              !.clientWire = @ \o MessagePieces(Len(p.clientSent) + 1)])
    BY <1>1, <1>8 DEF clientSends
  <2>2. PICK s \in Seq(Kinds) : s = Append(p.clientSent, kind)
    BY <1>2, AppendProperties
  <2>3. PICK w \in Seq(Piece) : w = p.clientWire \o MessagePieces(Len(p.clientSent) + 1)
    <3>1. Len(p.clientSent) + 1 \in Nat
      BY <1>2
    <3>2. MessagePieces(Len(p.clientSent) + 1) \in Seq(Piece)
      BY <3>1, MessagePiecesAre
    <3> QED
      BY <1>2, <3>2, ConcatProperties
  <2>4. PICK q : q = [p EXCEPT !.clientSent = s, !.clientWire = w]
    OBVIOUS
  <2>5. q \in Proxy
    BY <2>4 DEF Proxy
  <2>6. Handle(c, q)
    BY <2>1, <2>2, <2>3, <2>4
  <2> QED
    BY <2>5, <2>6, HandleType
<1>9. CASE serverSends(c)
  <2>1. Handle(c, [p EXCEPT !.serverSent = @ + 1,
                            !.serverWire = @ \o MessagePieces(p.serverSent + 1)])
    BY <1>1, <1>9 DEF serverSends
  <2>2. PICK n \in Nat : n = p.serverSent + 1
    BY <1>2
  <2>3. PICK w \in Seq(Piece) : w = p.serverWire \o MessagePieces(n)
    <3>1. MessagePieces(n) \in Seq(Piece)
      BY MessagePiecesAre
    <3> QED
      BY <1>2, <3>1, ConcatProperties
  <2>4. PICK q : q = [p EXCEPT !.serverSent = n, !.serverWire = w]
    OBVIOUS
  <2>5. q \in Proxy
    BY <2>4 DEF Proxy
  <2>6. Handle(c, q)
    BY <2>1, <2>2, <2>3, <2>4
  <2> QED
    BY <2>5, <2>6, HandleType
<1> QED
  BY <1>3, <1>4, <1>a, <1>6, <1>7, <1>8, <1>9 DEF Peers

LEMMA TypeStep == TypeOK /\ [Next]_vars => TypeOK'
<1> SUFFICES ASSUME TypeOK, [Next]_vars
             PROVE  TypeOK'
  OBVIOUS
<1>1. CASE stop
  <2>1. PICK list :
          object' = [c \in Connections |->
                       IF object[c] = "none" THEN "none"
                       ELSE IF Cardinality({i \in DOMAIN list : deletions(list)[i] = c}) > 1
                       THEN "deletedTwice" ELSE "deleted"]
    BY <1>1 DEF stop
  <2>2. object' \in [Connections -> State \ {"alive"}]
    BY <2>1 DEF State
  <2>3. /\ listening' \in BOOLEAN /\ proxy' = proxy
        /\ m_connections' = {c \in Connections : object'[c] = "alive"}
    BY <1>1, <2>2 DEF stop
  <2> QED
    BY <2>2, <2>3 DEF TypeOK
<1>2. ASSUME NEW c \in Connections, acceptConnection(c)
      PROVE  TypeOK'
  BY <1>2 DEF TypeOK, acceptConnection, State
<1>3. ASSUME NEW c \in Connections, deleteConnection(c)
      PROVE  TypeOK'
  BY <1>3 DEF TypeOK, deleteConnection, State
<1>4. ASSUME NEW c \in Connections, clientReadyRead(c)
      PROVE  TypeOK'
  <2>1. PICK p \in Proxy : p = proxy[c]
    BY DEF TypeOK
  <2>2. PICK n \in 1..Len(p.clientWire) :
          Handle(c, readFromClient([p EXCEPT !.clientWire = Rest(@, n),
                                             !.clientBuffer = @ \o SubSeq(p.clientWire, 1, n)]))
    BY <1>4, <2>1 DEF clientReadyRead
  <2>3. PICK q \in Proxy : q = [p EXCEPT !.clientWire = Rest(@, n),
                                         !.clientBuffer = @ \o SubSeq(p.clientWire, 1, n)]
    BY ArrivalType
  <2> QED
    BY <2>2, <2>3, ReadFromClientType, HandleType
<1>5. ASSUME NEW c \in Connections, serverReadyRead(c)
      PROVE  TypeOK'
  <2>1. PICK p \in Proxy : p = proxy[c]
    BY DEF TypeOK
  <2>2. PICK n \in 1..Len(p.serverWire) :
          Handle(c, readFromServer([p EXCEPT !.serverWire = Rest(@, n),
                                             !.serverBuffer = @ \o SubSeq(p.serverWire, 1, n)]))
    BY <1>5, <2>1 DEF serverReadyRead
  <2>3. PICK q \in Proxy : q = [p EXCEPT !.serverWire = Rest(@, n),
                                         !.serverBuffer = @ \o SubSeq(p.serverWire, 1, n)]
    BY ArrivalType
  <2> QED
    BY <2>2, <2>3, ReadFromServerType, HandleType
<1>6. ASSUME NEW c \in Connections, clientTimeout(c)
      PROVE  TypeOK'
  <2>1. PICK p \in Proxy : p = proxy[c]
    BY DEF TypeOK
  <2>2. p.clientTimers > 0 /\ Handle(c, readFromClient([p EXCEPT !.clientTimers = @ - 1]))
    BY <1>6, <2>1 DEF clientTimeout
  <2>3. p.clientTimers \in Nat
    BY DEF Proxy
  <2>4. PICK n \in Nat : n = p.clientTimers - 1
    BY <2>2, <2>3
  <2>5. PICK q \in Proxy : q = [p EXCEPT !.clientTimers = n]
    BY DEF Proxy
  <2> QED
    BY <2>2, <2>4, <2>5, ReadFromClientType, HandleType
<1>7. ASSUME NEW c \in Connections, serverTimeout(c)
      PROVE  TypeOK'
  <2>1. PICK p \in Proxy : p = proxy[c]
    BY DEF TypeOK
  <2>2. p.serverTimers > 0 /\ Handle(c, readFromServer([p EXCEPT !.serverTimers = @ - 1]))
    BY <1>7, <2>1 DEF serverTimeout
  <2>3. p.serverTimers \in Nat
    BY DEF Proxy
  <2>4. PICK n \in Nat : n = p.serverTimers - 1
    BY <2>2, <2>3
  <2>5. PICK q \in Proxy : q = [p EXCEPT !.serverTimers = n]
    BY DEF Proxy
  <2> QED
    BY <2>2, <2>4, <2>5, ReadFromServerType, HandleType
<1>8. ASSUME NEW c \in Connections, NEW socket \in {"clientSocket", "serverSocket"},
             disconnected(c, socket)
      PROVE  TypeOK'
  BY <1>8, DisconnectedType
<1>9. ASSUME NEW c \in Connections, Peers(c)
      PROVE  TypeOK'
  BY <1>9, PeersType
<1>10. CASE UNCHANGED vars
  BY <1>10 DEF TypeOK, vars
<1> QED
  BY <1>1, <1>2, <1>3, <1>4, <1>5, <1>6, <1>7, <1>8, <1>9, <1>10 DEF Next

\* Every proxy is a record of its type, its sequences hold pieces, kinds and numbers, and
\* between two handlers the listed connections are those that are neither being deleted
\* nor deleted, whichever handler has closed their sockets and whatever stop() has skipped
\* or deleted twice (VncProxyServer::m_connections, closeConnection(), stop()).
THEOREM TypeCorrect == Spec => []TypeOK
  BY TypeInit, TypeStep, PTL DEF Spec

-----------------------------------------------------------------------------
(* The streams of a proxy                                                  *)

\* Before the messages: at most one piece of the handshake is on the way.
Idle(buffer, wire, n, to) ==
  n = 0 /\ to = <<>> /\ Len(buffer) + Len(wire) <= 1

\* The first q of n messages have been forwarded, those of them that are in S; those after
\* r are on the way.  While the other socket is in one of the states O none is lost.
Flow(socket, O, buffer, wire, n, S, to) ==
  \E q \in Nat, r \in Nat :
    /\ q <= r /\ r <= n /\ Carries(buffer \o wire, r, n)
    /\ to = Only(Numbers(0, q), q, S)
    /\ socket \in O => q = r

\* The last piece of the handshake is read.
LEMMA IdleRead ==
  ASSUME NEW buffer \in Seq(Piece), NEW wire \in Seq(Piece), NEW n, NEW to, NEW socket, NEW O,
         NEW S, buffer # <<>>, Idle(buffer, wire, n, to)
  PROVE  Idle(Tail(buffer), wire, n, to) /\ Flow(socket, O, Tail(buffer), wire, n, S, to)
<1>1. PICK b \in Seq(Piece) : b = Tail(buffer) /\ Len(b) = Len(buffer) - 1
  BY TailIs
<1>2. Len(b) = 0 /\ Len(wire) = 0
  BY <1>1 DEF Idle
<1>3. b = <<>> /\ wire = <<>>
  BY <1>2, EmptySeq
<1>4. Carries(b \o wire, 0, 0)
  BY <1>3, NothingCarried, ConcatEmptySeq
<1>5. PICK m : m = Numbers(0, 0)
  OBVIOUS
<1>6. m \in Seq(Nat)
  BY <1>5, NumbersAre
<1>7. Only(m, 0, S) = <<>>
  BY <1>6, OnlyEquations
<1>8. Flow(socket, O, b, wire, n, S, to)
  BY <1>4, <1>5, <1>7 DEF Flow, Idle
<1>9. Idle(b, wire, n, to)
  BY <1>2 DEF Idle
<1> QED
  BY <1>1, <1>8, <1>9

LEMMA StreamArrival ==
  ASSUME NEW buffer \in Seq(Piece), NEW wire \in Seq(Piece), NEW k \in 1..Len(wire),
         NEW n, NEW to, NEW socket, NEW O, NEW S
  PROVE  /\ Idle(buffer, wire, n, to) =>
              Idle(buffer \o SubSeq(wire, 1, k), Rest(wire, k), n, to)
         /\ Flow(socket, O, buffer, wire, n, S, to) =>
              Flow(socket, O, buffer \o SubSeq(wire, 1, k), Rest(wire, k), n, S, to)
<1>1. PICK b \in Seq(Piece), w \in Seq(Piece) :
        b = buffer \o SubSeq(wire, 1, k) /\ w = Rest(wire, k)
  BY ArrivalKeeps
<1>2. b \o w = buffer \o wire
  BY <1>1, ArrivalKeeps
<1>3. Len(b) + Len(w) = Len(buffer) + Len(wire)
  BY <1>2, ConcatProperties
<1>4. Idle(buffer, wire, n, to) => Idle(b, w, n, to)
  BY <1>3 DEF Idle
<1>5. Flow(socket, O, buffer, wire, n, S, to) => Flow(socket, O, b, w, n, S, to)
  BY <1>2 DEF Flow
<1> QED
  BY <1>1, <1>4, <1>5

LEMMA FirstNumbers ==
  ASSUME NEW n \in Nat
  PROVE  /\ Numbers(0, n) \in Seq(Nat) /\ Len(Numbers(0, n)) = n
         /\ \A i \in 1..n : Numbers(0, n)[i] = i
<1>1. 0 \in Nat /\ 0 <= n /\ n - 0 = n /\ \A i \in 1..n : 0 + i = i
  OBVIOUS
<1>2. PICK s : s = Numbers(0, n)
  OBVIOUS
<1>3. s \in Seq(Nat) /\ Len(s) = n - 0 /\ \A i \in 1..(n - 0) : s[i] = 0 + i
  BY <1>1, <1>2, NumbersAre
<1> QED
  BY <1>1, <1>2, <1>3

\* Those of the first x numbers that are in S, in two parts.
LEMMA OnlyNumbers ==
  ASSUME NEW r \in Nat, NEW x \in Nat, r <= x, NEW S
  PROVE  /\ Only(Numbers(0, x), x, S)
              = Only(Numbers(0, r), r, S) \o Only(Numbers(r, x), Len(Numbers(r, x)), S)
         /\ Only(Numbers(0, r), r, S) \in Seq(Nat)
         /\ Only(Numbers(r, x), Len(Numbers(r, x)), S) \in Seq(Nat)
<1>1. PICK a \in Seq(Nat) : a = Numbers(0, r) /\ Len(a) = r
  BY FirstNumbers
<1>2. PICK b \in Seq(Nat) : b = Numbers(r, x)
  BY NumbersAre
<1>3. PICK c : c = Numbers(0, x) /\ Len(c) = x
  BY FirstNumbers
<1>4. c = a \o b
  <2>1. 0 \in Nat /\ 0 <= r
    OBVIOUS
  <2>2. Numbers(0, x) = Numbers(0, r) \o Numbers(r, x)
    BY <2>1, NumbersConcat
  <2> QED
    BY <1>1, <1>2, <1>3, <2>2
<1>5. Only(a \o b, Len(a \o b), S) = Only(a, Len(a), S) \o Only(b, Len(b), S)
  BY OnlyConcat
<1>6. Len(a) \in 0..Len(a) /\ Len(b) \in 0..Len(b)
  OBVIOUS
<1>7. Only(a, Len(a), S) \in Seq(Nat \cap S) /\ Only(b, Len(b), S) \in Seq(Nat \cap S)
  BY <1>6, OnlyType
<1>8. Only(a, Len(a), S) \in Seq(Nat) /\ Only(b, Len(b), S) \in Seq(Nat)
  BY <1>7, SeqMonotonic
<1> QED
  BY <1>1, <1>2, <1>3, <1>4, <1>5, <1>8

\* The first k pieces are read; what ends in them is forwarded if the socket is there.
LEMMA FlowReceives ==
  ASSUME NEW buffer \in Seq(Piece), NEW wire \in Seq(Piece), NEW k \in 0..Len(buffer),
         NEW n \in Nat, NEW to, NEW socket, NEW O, NEW S,
         Flow(socket, O, buffer, wire, n, S, to)
  PROVE  /\ socket \in O =>
              Flow(socket, O, Rest(buffer, k), wire, n, S,
                   to \o Only(Messages(buffer, k), Len(Messages(buffer, k)), S))
         /\ socket \notin O => Flow(socket, O, Rest(buffer, k), wire, n, S, to)
<1>1. PICK q \in Nat, r \in Nat :
        /\ q <= r /\ r <= n /\ Carries(buffer \o wire, r, n)
        /\ to = Only(Numbers(0, q), q, S)
        /\ socket \in O => q = r
  BY DEF Flow
<1>2. PICK x \in Nat : /\ r <= x /\ x <= n /\ Messages(buffer, k) = Numbers(r, x)
                       /\ Carries(Rest(buffer, k) \o wire, x, n)
  BY <1>1, CarriesLess
<1>3. CASE socket \in O
  <2>1. PICK t : t = to \o Only(Messages(buffer, k), Len(Messages(buffer, k)), S)
    OBVIOUS
  <2>2. t = Only(Numbers(0, x), x, S)
    <3>1. Only(Numbers(0, x), x, S)
            = Only(Numbers(0, r), r, S) \o Only(Numbers(r, x), Len(Numbers(r, x)), S)
      BY <1>2, OnlyNumbers
    <3>2. to = Only(Numbers(0, r), r, S)
      BY <1>1, <1>3
    <3>3. Messages(buffer, k) = Numbers(r, x)
      BY <1>2
    <3> QED
      BY <2>1, <3>1, <3>2, <3>3
  <2>3. Flow(socket, O, Rest(buffer, k), wire, n, S, t)
    BY <1>2, <2>2 DEF Flow
  <2> QED
    BY <1>3, <2>1, <2>3
<1>4. CASE socket \notin O
  <2>1. q <= x
    BY <1>1, <1>2
  <2> QED
    BY <1>1, <1>2, <1>4, <2>1 DEF Flow
<1> QED
  BY <1>3, <1>4

\* One more message is sent.
LEMMA FlowSends ==
  ASSUME NEW buffer \in Seq(Piece), NEW wire \in Seq(Piece),
         NEW n \in Nat, NEW to, NEW socket, NEW O, NEW S, NEW T,
         \A i \in 1..n : i \in S <=> i \in T,
         Flow(socket, O, buffer, wire, n, S, to)
  PROVE  Flow(socket, O, buffer, wire \o MessagePieces(n + 1), n + 1, T, to)
<1>1. PICK q \in Nat, r \in Nat :
        /\ q <= r /\ r <= n /\ Carries(buffer \o wire, r, n)
        /\ to = Only(Numbers(0, q), q, S)
        /\ socket \in O => q = r
  BY DEF Flow
<1>2. PICK t \in Seq(Piece) : t = MessagePieces(n + 1)
  BY MessagePiecesAre
<1>3. buffer \o wire \in Seq(Piece)
  BY ConcatProperties
<1>4. Carries((buffer \o wire) \o t, r, n + 1)
  BY <1>1, <1>2, <1>3, CarriesMore
<1>5. (buffer \o wire) \o t = buffer \o (wire \o t)
  BY ConcatAssociative
<1>6. Carries(buffer \o (wire \o t), r, n + 1)
  BY <1>4, <1>5
<1>7. PICK a \in Seq(Nat) : a = Numbers(0, q) /\ Len(a) = q /\ \A i \in 1..q : a[i] = i
  BY FirstNumbers
<1>8. \A i \in 1..q : a[i] = a[i] /\ (a[i] \in S <=> a[i] \in T)
  BY <1>1, <1>7
<1>9. q \in 0..Len(a) /\ q <= Len(a)
  BY <1>7
<1>10. Only(a, q, S) = Only(a, q, T)
  BY <1>8, <1>9, OnlyEqual
<1>11. to = Only(Numbers(0, q), q, T)
  BY <1>1, <1>7, <1>10
<1>12. r <= n + 1
  BY <1>1
<1>13. Flow(socket, O, buffer, wire \o t, n + 1, T, to)
  BY <1>1, <1>6, <1>11, <1>12 DEF Flow
<1> QED
  BY <1>2, <1>13

LEMMA FlowIsPrefix ==
  ASSUME NEW buffer, NEW wire, NEW n \in Nat, NEW to, NEW socket, NEW O, NEW S,
         Flow(socket, O, buffer, wire, n, S, to)
  PROVE  IsPrefix(to, Only(Numbers(0, n), n, S))
<1>1. PICK q \in Nat : q <= n /\ to = Only(Numbers(0, q), q, S)
  BY DEF Flow
<1>2. PICK d \in Seq(Nat) : d = Only(Numbers(q, n), Len(Numbers(q, n)), S)
  BY <1>1, OnlyNumbers
<1>3. to \in Seq(Nat)
  BY <1>1, OnlyNumbers
<1>4. PICK e : e = Only(Numbers(0, n), n, S)
  OBVIOUS
<1>5. e = to \o d
  BY <1>1, <1>2, <1>4, OnlyNumbers
<1>6. IsPrefix(to, e)
  BY <1>3, <1>5 DEF IsPrefix
<1> QED
  BY <1>4, <1>6

LEMMA OnlyAll ==
  ASSUME NEW s \in Seq(Nat)
  PROVE  Only(s, Len(s), Nat) = s
<1> DEFINE T == {k \in Nat : k <= Len(s) =>
                   Len(Only(s, k, Nat)) = k /\ \A i \in 1..k : Only(s, k, Nat)[i] = s[i]}
<1>1. 0 \in T
  <2>1. Only(s, 0, Nat) = <<>>
    BY OnlyEquations
  <2> QED
    BY <2>1
<1>2. ASSUME NEW k \in Nat, k \in T
      PROVE  k + 1 \in T
  <2>1. SUFFICES ASSUME k + 1 <= Len(s)
                 PROVE  /\ Len(Only(s, k + 1, Nat)) = k + 1
                        /\ \A i \in 1..(k + 1) : Only(s, k + 1, Nat)[i] = s[i]
    OBVIOUS
  <2>2. k \in 0..Len(s)
    BY <2>1
  <2>3. PICK q : q = Only(s, k, Nat)
    OBVIOUS
  <2>4. q \in Seq(Nat \cap Nat)
    BY <2>2, <2>3, OnlyType
  <2>5. q \in Seq(Nat) /\ Len(q) = k /\ \A i \in 1..k : q[i] = s[i]
    BY <1>2, <2>1, <2>3, <2>4, SeqMonotonic
  <2>6. s[k + 1] \in Nat
    BY <2>1
  <2>7. Only(s, k + 1, Nat) = Append(q, s[k + 1])
    BY <2>1, <2>3, <2>6, OnlyEquations
  <2>8. PICK u : u = Append(q, s[k + 1])
    OBVIOUS
  <2>9. Len(u) = k + 1 /\ u[k + 1] = s[k + 1] /\ \A i \in 1..k : u[i] = q[i]
    BY <2>5, <2>6, <2>8, AppendProperties
  <2>10. \A i \in 1..(k + 1) : u[i] = s[i]
    BY <2>5, <2>9
  <2> QED
    BY <2>7, <2>8, <2>9, <2>10
<1> HIDE DEF T
<1>3. Nat \subseteq T
  BY <1>1, <1>2, SetInduction
<1>4. PICK u : u = Only(s, Len(s), Nat)
  OBVIOUS
<1>5. Len(s) \in 0..Len(s) /\ Len(s) \in Nat
  OBVIOUS
<1>6. u \in Seq(Nat \cap Nat)
  BY <1>4, <1>5, OnlyType
<1>7. u \in Seq(Nat)
  BY <1>6, SeqMonotonic
<1>8. Len(u) = Len(s) /\ \A i \in 1..Len(s) : u[i] = s[i]
  BY <1>3, <1>4, <1>5 DEF T
<1>9. u = s
  BY <1>7, <1>8, SeqEqual
<1> QED
  BY <1>4, <1>9

-----------------------------------------------------------------------------
(* The invariant of a proxy                                                *)

ForServer(sent) == {n \in DOMAIN sent : sent[n] = "rfb"}

ClientStream(p) ==
  /\ p.serverProtocol # "Running" =>
       Idle(p.clientBuffer, p.clientWire, Len(p.clientSent), p.toServer)
  /\ p.serverProtocol = "Running" =>
       Flow(p.serverSocket, {"connecting", "open"}, p.clientBuffer, p.clientWire,
            Len(p.clientSent), ForServer(p.clientSent), p.toServer)

ServerStream(p) ==
  /\ p.clientProtocol # "Running" =>
       Idle(p.serverBuffer, p.serverWire, p.serverSent, p.toClient)
  /\ p.clientProtocol = "Running" =>
       Flow(p.clientSocket, {"open"}, p.serverBuffer, p.serverWire, p.serverSent, Nat, p.toClient)

\* The handshake with the VNC server cannot have ended without a connection to it.
NotConnected(p) ==
  p.serverSocket \in {"connecting", "refused"} =>
    p.clientProtocol # "Running" /\ p.serverBuffer = <<>> /\ p.serverWire = <<>>

Streams(p) == ClientStream(p) /\ ServerStream(p) /\ NotConnected(p)

LEMMA FlowSocket ==
  ASSUME NEW buffer, NEW wire, NEW n, NEW to, NEW socket, NEW O, NEW S, NEW other,
         other \in O => socket \in O, Flow(socket, O, buffer, wire, n, S, to)
  PROVE  Flow(other, O, buffer, wire, n, S, to)
  BY DEF Flow

LEMMA SocketsKeepStreams ==
  ASSUME NEW p \in Proxy, Streams(p), NEW state, NEW q,
         \/ q = [p EXCEPT !.clientSocket = state] /\ state = "closed"
         \/ q = [p EXCEPT !.serverSocket = state] /\ p.serverSocket = "connecting"
              /\ state \in {"open", "refused"}
         \/ q = [p EXCEPT !.serverSocket = state] /\ state = "closed"
  PROVE  Streams(q)
<1>1. /\ q.serverProtocol = p.serverProtocol /\ q.clientBuffer = p.clientBuffer
      /\ q.clientWire = p.clientWire
      /\ q.clientSent = p.clientSent /\ q.toServer = p.toServer
      /\ q.clientProtocol = p.clientProtocol
      /\ q.serverBuffer = p.serverBuffer /\ q.serverWire = p.serverWire
      /\ q.serverSent = p.serverSent /\ q.toClient = p.toClient
      /\ q.clientSocket \in {"open"} => p.clientSocket \in {"open"}
      /\ q.serverSocket \in {"connecting", "open"} => p.serverSocket \in {"connecting", "open"}
      /\ q.serverSocket \in {"connecting", "refused"} => p.serverSocket \in {"connecting", "refused"}
  BY DEF Proxy
<1>2. ClientStream(q)
  BY <1>1, FlowSocket DEF Streams, ClientStream
<1>3. ServerStream(q)
  BY <1>1, FlowSocket DEF Streams, ServerStream
<1>4. NotConnected(q)
  BY <1>1 DEF Streams, NotConnected
<1> QED
  BY <1>2, <1>3, <1>4 DEF Streams

LEMMA ServerProtocolReadKeeps ==
  ASSUME NEW p \in Proxy, Streams(p)
  PROVE  Streams(serverProtocolRead(p))
<1>a. Streams([p EXCEPT !.clientSocket = "closed"])
  BY SocketsKeepStreams
<1>1. SUFFICES ASSUME serverProtocolReads(p), protocolState(p) # "Close"
               PROVE  Streams(serverProtocolRead(p))
  BY <1>a DEF serverProtocolRead
<1>2. PICK q : q = serverProtocolRead(p)
  OBVIOUS
<1>3. PICK a : a = After(p.serverProtocol, ServerProtocol)
  OBVIOUS
<1>4. PICK b : b = IF p.serverProtocol = "AccessControl" THEN p.clientBuffer ELSE Tail(p.clientBuffer)
  OBVIOUS
<1>5. q = [p EXCEPT !.serverProtocol = a, !.clientBuffer = b]
  BY <1>1, <1>2, <1>3, <1>4 DEF serverProtocolRead
<1>6. /\ q.serverProtocol = a /\ q.clientBuffer = b
      /\ q.serverSocket = p.serverSocket /\ q.clientWire = p.clientWire
      /\ q.clientSent = p.clientSent /\ q.toServer = p.toServer
      /\ q.clientProtocol = p.clientProtocol /\ q.clientSocket = p.clientSocket
      /\ q.serverBuffer = p.serverBuffer /\ q.serverWire = p.serverWire
      /\ q.serverSent = p.serverSent /\ q.toClient = p.toClient
  BY <1>5 DEF Proxy
<1>7. ServerStream(q) /\ NotConnected(q)
  BY <1>6 DEF Streams, ServerStream, NotConnected
<1>8. p.serverProtocol # "Running" /\ (p.serverProtocol # "AccessControl" => p.clientBuffer # <<>>)
  BY <1>1 DEF serverProtocolReads
<1>9. PICK n, S : n = Len(p.clientSent) /\ S = ForServer(p.clientSent)
  OBVIOUS
<1>10. Idle(p.clientBuffer, p.clientWire, n, p.toServer)
  BY <1>8, <1>9 DEF Streams, ClientStream
<1>11. CASE p.serverProtocol = "AccessControl"
  <2>1. a # "Running" /\ b = p.clientBuffer
    BY <1>3, <1>4, <1>11, AfterIs
  <2>2. ClientStream(q)
    BY <1>6, <1>9, <1>10, <2>1 DEF ClientStream
  <2> QED
    BY <1>2, <1>7, <2>2 DEF Streams
<1>12. CASE p.serverProtocol # "AccessControl"
  <2>1. b = Tail(p.clientBuffer) /\ p.clientBuffer # <<>>
    BY <1>4, <1>8, <1>12
  <2>2. p.clientBuffer \in Seq(Piece) /\ p.clientWire \in Seq(Piece)
    BY DEF Proxy
  <2>3. /\ Idle(b, p.clientWire, n, p.toServer)
        /\ Flow(p.serverSocket, {"connecting", "open"}, b, p.clientWire, n, S, p.toServer)
    BY <1>10, <2>1, <2>2, IdleRead
  <2>4. ClientStream(q)
    BY <1>6, <1>9, <2>3 DEF ClientStream
  <2> QED
    BY <1>2, <1>7, <2>4 DEF Streams
<1> QED
  BY <1>11, <1>12

LEMMA LaterKeeps ==
  ASSUME NEW p \in Proxy, Streams(p)
  PROVE  Streams(readFromClientLater(p)) /\ Streams(readFromServerLater(p))
<1>1. ASSUME NEW q, NEW m, q = [p EXCEPT !.clientTimers = m] \/ q = [p EXCEPT !.serverTimers = m]
      PROVE  Streams(q)
  <2>1. /\ q.serverProtocol = p.serverProtocol /\ q.clientBuffer = p.clientBuffer
        /\ q.serverSocket = p.serverSocket /\ q.clientWire = p.clientWire
        /\ q.clientSent = p.clientSent /\ q.toServer = p.toServer
        /\ q.clientProtocol = p.clientProtocol /\ q.clientSocket = p.clientSocket
        /\ q.serverBuffer = p.serverBuffer /\ q.serverWire = p.serverWire
        /\ q.serverSent = p.serverSent /\ q.toClient = p.toClient
    BY <1>1 DEF Proxy
  <2> QED
    BY <2>1 DEF Streams, ClientStream, ServerStream, NotConnected
<1> QED
  BY <1>1 DEF readFromClientLater, readFromServerLater

LEMMA ClientProtocolLoopKeeps ==
  ASSUME NEW p \in Proxy, Streams(p), p.clientProtocol # "Running"
  PROVE  Streams(clientProtocolLoop(p))
<1>1. SUFFICES ASSUME p.serverBuffer # <<>>
               PROVE  Streams(clientProtocolLoop(p))
  BY DEF clientProtocolLoop
<1>2. PICK q : q = clientProtocolLoop(p)
  OBVIOUS
<1>3. PICK a, b : a = After(p.clientProtocol, ClientProtocol) /\ b = Tail(p.serverBuffer)
  OBVIOUS
<1>4. q = [p EXCEPT !.clientProtocol = a, !.serverBuffer = b]
  BY <1>1, <1>2, <1>3 DEF clientProtocolLoop
<1>5. /\ q.clientProtocol = a /\ q.serverBuffer = b
      /\ q.serverSocket = p.serverSocket /\ q.clientWire = p.clientWire
      /\ q.clientSent = p.clientSent /\ q.toServer = p.toServer
      /\ q.serverProtocol = p.serverProtocol /\ q.clientSocket = p.clientSocket
      /\ q.clientBuffer = p.clientBuffer /\ q.serverWire = p.serverWire
      /\ q.serverSent = p.serverSent /\ q.toClient = p.toClient
  BY <1>4 DEF Proxy
<1>6. ClientStream(q)
  BY <1>5 DEF Streams, ClientStream
<1>7. NotConnected(q)
  BY <1>1, <1>5 DEF Streams, NotConnected
<1>8. Idle(p.serverBuffer, p.serverWire, p.serverSent, p.toClient)
  BY DEF Streams, ServerStream
<1>9. p.serverBuffer \in Seq(Piece) /\ p.serverWire \in Seq(Piece)
  BY DEF Proxy
<1>10. /\ Idle(b, p.serverWire, p.serverSent, p.toClient)
       /\ Flow(p.clientSocket, {"open"}, b, p.serverWire, p.serverSent, Nat, p.toClient)
  BY <1>1, <1>3, <1>8, <1>9, IdleRead
<1>11. ServerStream(q)
  BY <1>5, <1>10 DEF ServerStream
<1> QED
  BY <1>2, <1>6, <1>7, <1>11 DEF Streams

LEMMA ClientMessagesKeep ==
  ASSUME NEW p \in Proxy, Streams(p), p.serverProtocol = "Running", p.clientProtocol = "Running"
  PROVE  Streams(receiveClientMessages(p))
<1>1. PICK q : q = receiveClientMessages(p)
  OBVIOUS
<1>2. PICK k \in 0..Len(p.clientBuffer) :
        q = [p EXCEPT !.clientBuffer = Rest(p.clientBuffer, k),
                      !.toServer = IF p.serverSocket = "open"
                                   THEN p.toServer \o Forwarded(p.clientSent, Messages(p.clientBuffer, k))
                                   ELSE p.toServer]
  BY <1>1, ClientMessagesReceived
<1>3. PICK m : m = Messages(p.clientBuffer, k)
  OBVIOUS
<1>4. PICK S : S = ForServer(p.clientSent)
  OBVIOUS
<1>5. PICK b, t : /\ b = Rest(p.clientBuffer, k)
                  /\ t = IF p.serverSocket = "open" THEN p.toServer \o Only(m, Len(m), S)
                         ELSE p.toServer
  OBVIOUS
<1>6. q = [p EXCEPT !.clientBuffer = b, !.toServer = t]
  BY <1>2, <1>3, <1>4, <1>5 DEF Forwarded, ForServer
<1>7. /\ q.toServer = t /\ q.clientBuffer = b
      /\ q.serverSocket = p.serverSocket /\ q.clientWire = p.clientWire
      /\ q.clientSent = p.clientSent /\ q.serverProtocol = p.serverProtocol
      /\ q.clientProtocol = p.clientProtocol /\ q.clientSocket = p.clientSocket
      /\ q.serverBuffer = p.serverBuffer /\ q.serverWire = p.serverWire
      /\ q.serverSent = p.serverSent /\ q.toClient = p.toClient
  BY <1>6 DEF Proxy
<1>8. ServerStream(q) /\ NotConnected(q)
  BY <1>7 DEF Streams, ServerStream, NotConnected
<1>9. PICK O : O = {"connecting", "open"}
  OBVIOUS
<1>10. p.serverSocket \in O <=> p.serverSocket = "open"
  BY <1>9 DEF Streams, NotConnected
<1>11. PICK n \in Nat : n = Len(p.clientSent)
  <2>1. p.clientSent \in Seq(Kinds)
    BY DEF Proxy
  <2> QED
    BY <2>1
<1>12. Flow(p.serverSocket, O, p.clientBuffer, p.clientWire, n, S, p.toServer)
  BY <1>4, <1>9, <1>11 DEF Streams, ClientStream
<1>13. p.clientBuffer \in Seq(Piece) /\ p.clientWire \in Seq(Piece)
  BY DEF Proxy
<1>14. /\ p.serverSocket \in O =>
            Flow(p.serverSocket, O, b, p.clientWire, n, S, p.toServer \o Only(m, Len(m), S))
       /\ p.serverSocket \notin O => Flow(p.serverSocket, O, b, p.clientWire, n, S, p.toServer)
  BY <1>3, <1>5, <1>12, <1>13, FlowReceives
<1>15. Flow(p.serverSocket, O, b, p.clientWire, n, S, t)
  BY <1>5, <1>10, <1>14
<1>16. ClientStream(q)
  BY <1>4, <1>7, <1>9, <1>11, <1>15 DEF ClientStream
<1> QED
  BY <1>1, <1>8, <1>16 DEF Streams

LEMMA ServerMessagesKeep ==
  ASSUME NEW p \in Proxy, Streams(p), p.serverProtocol = "Running", p.clientProtocol = "Running"
  PROVE  Streams(receiveServerMessages(p))
<1>1. PICK q : q = receiveServerMessages(p)
  OBVIOUS
<1>2. PICK k \in 0..Len(p.serverBuffer) :
        q = [p EXCEPT !.serverBuffer = Rest(p.serverBuffer, k),
                      !.toClient = IF p.clientSocket = "open"
                                   THEN p.toClient \o Messages(p.serverBuffer, k)
                                   ELSE p.toClient]
  BY <1>1, ServerMessagesReceived
<1>3. p.serverBuffer \in Seq(Piece) /\ p.serverWire \in Seq(Piece) /\ p.serverSent \in Nat
  BY DEF Proxy
<1>4. PICK m \in Seq(Nat) : m = Messages(p.serverBuffer, k)
  BY <1>3, MessagesAre
<1>5. PICK b, t : /\ b = Rest(p.serverBuffer, k)
                  /\ t = IF p.clientSocket = "open" THEN p.toClient \o m ELSE p.toClient
  OBVIOUS
<1>6. q = [p EXCEPT !.serverBuffer = b, !.toClient = t]
  BY <1>2, <1>4, <1>5
<1>7. /\ q.toClient = t /\ q.serverBuffer = b
      /\ q.serverSocket = p.serverSocket /\ q.clientWire = p.clientWire
      /\ q.clientSent = p.clientSent /\ q.serverProtocol = p.serverProtocol
      /\ q.clientProtocol = p.clientProtocol /\ q.clientSocket = p.clientSocket
      /\ q.clientBuffer = p.clientBuffer /\ q.serverWire = p.serverWire
      /\ q.serverSent = p.serverSent /\ q.toServer = p.toServer
  BY <1>6 DEF Proxy
<1>8. ClientStream(q)
  BY <1>7 DEF Streams, ClientStream
<1>9. NotConnected(q)
  BY <1>7 DEF Streams, NotConnected
<1>10. Flow(p.clientSocket, {"open"}, p.serverBuffer, p.serverWire, p.serverSent, Nat, p.toClient)
  BY DEF Streams, ServerStream
<1>11. /\ p.clientSocket \in {"open"} =>
            Flow(p.clientSocket, {"open"}, b, p.serverWire, p.serverSent, Nat,
                 p.toClient \o Only(m, Len(m), Nat))
       /\ p.clientSocket \notin {"open"} =>
            Flow(p.clientSocket, {"open"}, b, p.serverWire, p.serverSent, Nat, p.toClient)
  BY <1>3, <1>4, <1>5, <1>10, FlowReceives
<1>12. Only(m, Len(m), Nat) = m
  BY OnlyAll
<1>13. Flow(p.clientSocket, {"open"}, b, p.serverWire, p.serverSent, Nat, t)
  BY <1>5, <1>11, <1>12
<1>14. ServerStream(q)
  BY <1>7, <1>13 DEF ServerStream
<1> QED
  BY <1>1, <1>8, <1>9, <1>14 DEF Streams

LEMMA ReadFromClientKeeps ==
  ASSUME NEW p \in Proxy, Streams(p)
  PROVE  Streams(readFromClient(p))
<1>1. CASE protocolState(p) # "Running"
  <2>1. PICK a \in Proxy : a = serverProtocolRead(p) /\ Streams(a)
    BY ServerProtocolReadType, ServerProtocolReadKeeps
  <2>2. PICK b \in Proxy : b = serverProtocolRead(a) /\ Streams(b)
    BY <2>1, ServerProtocolReadType, ServerProtocolReadKeeps
  <2>3. PICK d \in Proxy : d = serverProtocolRead(b) /\ Streams(d)
    BY <2>2, ServerProtocolReadType, ServerProtocolReadKeeps
  <2>4. readFromClient(p) = readFromClientLater(d)
    BY <1>1, <2>1, <2>2, <2>3 DEF readFromClient, serverProtocolLoop
  <2> QED
    BY <2>3, <2>4, LaterKeeps
<1>2. CASE protocolState(p) = "Running" /\ p.clientProtocol # "Running"
  BY <1>2, LaterKeeps DEF readFromClient
<1>3. CASE protocolState(p) = "Running" /\ p.clientProtocol = "Running"
  BY <1>3, ServedIs, ClientMessagesKeep DEF readFromClient
<1> QED
  BY <1>1, <1>2, <1>3

LEMMA ReadFromServerKeeps ==
  ASSUME NEW p \in Proxy, Streams(p)
  PROVE  Streams(readFromServer(p))
<1>1. CASE p.clientProtocol # "Running"
  <2>1. PICK q \in Proxy : q = clientProtocolLoop(p) /\ Streams(q)
    BY <1>1, ClientProtocolLoopType, ClientProtocolLoopKeeps
  <2>2. readFromServer(p) = IF q.clientProtocol = "Running" THEN readFromServerLater(q) ELSE q
    BY <1>1, <2>1 DEF readFromServer
  <2> QED
    BY <2>1, <2>2, LaterKeeps
<1>2. CASE p.clientProtocol = "Running" /\ protocolState(p) # "Running"
  BY <1>2, LaterKeeps DEF readFromServer
<1>3. CASE p.clientProtocol = "Running" /\ protocolState(p) = "Running"
  BY <1>3, ServedIs, ServerMessagesKeep DEF readFromServer
<1> QED
  BY <1>1, <1>2, <1>3

LEMMA ArrivalKeepsStreams ==
  ASSUME NEW p \in Proxy, Streams(p)
  PROVE  /\ \A n \in 1..Len(p.clientWire) :
              Streams([p EXCEPT !.clientWire = Rest(@, n),
                                !.clientBuffer = @ \o SubSeq(p.clientWire, 1, n)])
         /\ \A n \in 1..Len(p.serverWire) : p.serverSocket = "open" =>
              Streams([p EXCEPT !.serverWire = Rest(@, n),
                                !.serverBuffer = @ \o SubSeq(p.serverWire, 1, n)])
<1>1. ASSUME NEW n \in 1..Len(p.clientWire)
      PROVE  Streams([p EXCEPT !.clientWire = Rest(@, n),
                               !.clientBuffer = @ \o SubSeq(p.clientWire, 1, n)])
  <2>1. PICK b, w : b = p.clientBuffer \o SubSeq(p.clientWire, 1, n) /\ w = Rest(p.clientWire, n)
    OBVIOUS
  <2>2. PICK q : q = [p EXCEPT !.clientWire = w, !.clientBuffer = b]
    OBVIOUS
  <2>3. /\ q.clientWire = w /\ q.clientBuffer = b
        /\ q.serverProtocol = p.serverProtocol /\ q.serverSocket = p.serverSocket
        /\ q.clientSent = p.clientSent /\ q.toServer = p.toServer
        /\ q.clientProtocol = p.clientProtocol /\ q.clientSocket = p.clientSocket
        /\ q.serverBuffer = p.serverBuffer /\ q.serverWire = p.serverWire
        /\ q.serverSent = p.serverSent /\ q.toClient = p.toClient
    BY <2>2 DEF Proxy
  <2>4. ServerStream(q) /\ NotConnected(q)
    BY <2>3 DEF Streams, ServerStream, NotConnected
  <2>5. p.clientBuffer \in Seq(Piece) /\ p.clientWire \in Seq(Piece)
    BY DEF Proxy
  <2>6. PICK l, S, O : /\ l = Len(p.clientSent) /\ S = ForServer(p.clientSent)
                       /\ O = {"connecting", "open"}
    OBVIOUS
  <2>7. /\ Idle(p.clientBuffer, p.clientWire, l, p.toServer) => Idle(b, w, l, p.toServer)
        /\ Flow(p.serverSocket, O, p.clientBuffer, p.clientWire, l, S, p.toServer) =>
             Flow(p.serverSocket, O, b, w, l, S, p.toServer)
    BY <2>1, <2>5, StreamArrival
  <2>8. ClientStream(q)
    BY <2>3, <2>6, <2>7 DEF Streams, ClientStream
  <2> QED
    BY <2>1, <2>2, <2>4, <2>8 DEF Streams
<1>2. ASSUME NEW n \in 1..Len(p.serverWire), p.serverSocket = "open"
      PROVE  Streams([p EXCEPT !.serverWire = Rest(@, n),
                               !.serverBuffer = @ \o SubSeq(p.serverWire, 1, n)])
  <2>1. PICK b, w : b = p.serverBuffer \o SubSeq(p.serverWire, 1, n) /\ w = Rest(p.serverWire, n)
    OBVIOUS
  <2>2. PICK q : q = [p EXCEPT !.serverWire = w, !.serverBuffer = b]
    OBVIOUS
  <2>3. /\ q.serverWire = w /\ q.serverBuffer = b
        /\ q.serverProtocol = p.serverProtocol /\ q.serverSocket = p.serverSocket
        /\ q.clientSent = p.clientSent /\ q.toServer = p.toServer
        /\ q.clientProtocol = p.clientProtocol /\ q.clientSocket = p.clientSocket
        /\ q.clientBuffer = p.clientBuffer /\ q.clientWire = p.clientWire
        /\ q.serverSent = p.serverSent /\ q.toClient = p.toClient
    BY <2>2 DEF Proxy
  <2>4. ClientStream(q) /\ NotConnected(q)
    BY <1>2, <2>3 DEF Streams, ClientStream, NotConnected
  <2>5. p.serverBuffer \in Seq(Piece) /\ p.serverWire \in Seq(Piece)
    BY DEF Proxy
  <2>6. PICK O : O = {"open"}
    OBVIOUS
  <2>7. /\ Idle(p.serverBuffer, p.serverWire, p.serverSent, p.toClient) =>
             Idle(b, w, p.serverSent, p.toClient)
        /\ Flow(p.clientSocket, O, p.serverBuffer, p.serverWire, p.serverSent, Nat, p.toClient) =>
             Flow(p.clientSocket, O, b, w, p.serverSent, Nat, p.toClient)
    BY <2>1, <2>5, StreamArrival
  <2>8. ServerStream(q)
    BY <2>3, <2>6, <2>7 DEF Streams, ServerStream
  <2> QED
    BY <2>1, <2>2, <2>4, <2>8 DEF Streams
<1> QED
  BY <1>1, <1>2

\* A timer is due: nothing of the streams changes.
LEMMA TimersKeepStreams ==
  ASSUME NEW p \in Proxy, Streams(p), NEW n, NEW q,
         \/ q = [p EXCEPT !.clientTimers = n] \/ q = [p EXCEPT !.serverTimers = n]
         \/ q = [p EXCEPT !.granted = n] \/ q = [p EXCEPT !.closing = n]
  PROVE  Streams(q)
<1>1. /\ q.serverProtocol = p.serverProtocol /\ q.clientBuffer = p.clientBuffer
      /\ q.serverSocket = p.serverSocket /\ q.clientWire = p.clientWire
      /\ q.clientSent = p.clientSent /\ q.toServer = p.toServer
      /\ q.clientProtocol = p.clientProtocol /\ q.clientSocket = p.clientSocket
      /\ q.serverBuffer = p.serverBuffer /\ q.serverWire = p.serverWire
      /\ q.serverSent = p.serverSent /\ q.toClient = p.toClient
  BY DEF Proxy
<1> QED
  BY <1>1 DEF Streams, ClientStream, ServerStream, NotConnected

\* A socket is connected, refused or closed.
\* A side that waits for nothing sends the next piece of its handshake.
LEMMA HandshakeKeepsStreams ==
  ASSUME NEW p \in Proxy, Streams(p)
  PROVE  /\ p.serverProtocol # "Running" /\ p.clientWire = <<>> /\ p.clientBuffer = <<>> =>
              Streams([p EXCEPT !.clientWire = HandshakePiece])
         /\ p.serverSocket = "open" /\ p.clientProtocol # "Running"
              /\ p.serverWire = <<>> /\ p.serverBuffer = <<>> =>
              Streams([p EXCEPT !.serverWire = HandshakePiece])
<1>1. PICK w : w = HandshakePiece /\ Len(w) = 1
  <2>1. Len(HandshakePiece) = 1
    BY DEF HandshakePiece
  <2> QED
    BY <2>1
<1>2. ASSUME p.serverProtocol # "Running", p.clientWire = <<>>, p.clientBuffer = <<>>
      PROVE  Streams([p EXCEPT !.clientWire = w])
  <2>1. PICK q : q = [p EXCEPT !.clientWire = w]
    OBVIOUS
  <2>2. /\ q.clientWire = w /\ q.clientBuffer = p.clientBuffer
        /\ q.serverProtocol = p.serverProtocol /\ q.serverSocket = p.serverSocket
        /\ q.clientSent = p.clientSent /\ q.toServer = p.toServer
        /\ q.clientProtocol = p.clientProtocol /\ q.clientSocket = p.clientSocket
        /\ q.serverBuffer = p.serverBuffer /\ q.serverWire = p.serverWire
        /\ q.serverSent = p.serverSent /\ q.toClient = p.toClient
    BY <2>1 DEF Proxy
  <2>3. ClientStream(q)
    <3>1. Idle(p.clientBuffer, p.clientWire, Len(p.clientSent), p.toServer)
      BY <1>2 DEF Streams, ClientStream
    <3>2. Len(p.clientBuffer) = 0
      BY <1>2
    <3>3. Idle(p.clientBuffer, w, Len(p.clientSent), p.toServer)
      BY <1>1, <3>1, <3>2 DEF Idle
    <3> QED
      BY <1>2, <2>2, <3>3 DEF ClientStream
  <2> QED
    BY <2>1, <2>2, <2>3 DEF Streams, ServerStream, NotConnected
<1>3. ASSUME p.serverSocket = "open", p.clientProtocol # "Running",
             p.serverWire = <<>>, p.serverBuffer = <<>>
      PROVE  Streams([p EXCEPT !.serverWire = w])
  <2>1. PICK q : q = [p EXCEPT !.serverWire = w]
    OBVIOUS
  <2>2. /\ q.serverWire = w /\ q.serverBuffer = p.serverBuffer
        /\ q.serverProtocol = p.serverProtocol /\ q.serverSocket = p.serverSocket
        /\ q.clientSent = p.clientSent /\ q.toServer = p.toServer
        /\ q.clientProtocol = p.clientProtocol /\ q.clientSocket = p.clientSocket
        /\ q.clientBuffer = p.clientBuffer /\ q.clientWire = p.clientWire
        /\ q.serverSent = p.serverSent /\ q.toClient = p.toClient
    BY <2>1 DEF Proxy
  <2>3. ServerStream(q)
    <3>1. Idle(p.serverBuffer, p.serverWire, p.serverSent, p.toClient)
      BY <1>3 DEF Streams, ServerStream
    <3>2. Len(p.serverBuffer) = 0
      BY <1>3
    <3>3. Idle(p.serverBuffer, w, p.serverSent, p.toClient)
      BY <1>1, <3>1, <3>2 DEF Idle
    <3> QED
      BY <1>3, <2>2, <3>3 DEF ServerStream
  <2>4. ClientStream(q) /\ NotConnected(q)
    BY <1>3, <2>2 DEF Streams, ClientStream, NotConnected
  <2> QED
    BY <2>1, <2>3, <2>4 DEF Streams
<1> QED
  BY <1>1, <1>2, <1>3

LEMMA ClientSendsKeeps ==
  ASSUME NEW p \in Proxy, Streams(p), p.serverProtocol = "Running", NEW kind \in Kinds
  PROVE  Streams([p EXCEPT !.clientSent = Append(@, kind),
                           !.clientWire = @ \o MessagePieces(Len(p.clientSent) + 1)])
<1>1. /\ p.clientSent \in Seq(Kinds)
      /\ p.clientBuffer \in Seq(Piece) /\ p.clientWire \in Seq(Piece)
  BY DEF Proxy
<1>2. PICK n \in Nat : n = Len(p.clientSent)
  BY <1>1
<1>3. PICK s : s = Append(p.clientSent, kind)
  OBVIOUS
<1>4. /\ s \in Seq(Kinds) /\ Len(s) = n + 1
      /\ \A i \in 1..n : s[i] = p.clientSent[i]
  BY <1>1, <1>2, <1>3, AppendProperties
<1>5. PICK w : w = p.clientWire \o MessagePieces(n + 1)
  OBVIOUS
<1>6. PICK q : q = [p EXCEPT !.clientSent = s, !.clientWire = w]
  OBVIOUS
<1>7. /\ q.clientSent = s /\ q.clientWire = w
      /\ q.serverProtocol = p.serverProtocol /\ q.serverSocket = p.serverSocket
      /\ q.clientBuffer = p.clientBuffer /\ q.toServer = p.toServer
      /\ q.clientProtocol = p.clientProtocol /\ q.clientSocket = p.clientSocket
      /\ q.serverBuffer = p.serverBuffer /\ q.serverWire = p.serverWire
      /\ q.serverSent = p.serverSent /\ q.toClient = p.toClient
  BY <1>6 DEF Proxy
<1>8. ServerStream(q) /\ NotConnected(q)
  BY <1>7 DEF Streams, ServerStream, NotConnected
<1>9. PICK S, T, O : S = ForServer(p.clientSent) /\ T = ForServer(s) /\ O = {"connecting", "open"}
  OBVIOUS
<1>10. \A i \in 1..n : i \in S <=> i \in T
  BY <1>1, <1>2, <1>4, <1>9 DEF ForServer
<1>11. Flow(p.serverSocket, O, p.clientBuffer, p.clientWire, n, S, p.toServer)
  BY <1>2, <1>9 DEF Streams, ClientStream
<1>12. Flow(p.serverSocket, O, p.clientBuffer, w, n + 1, T, p.toServer)
  BY <1>1, <1>5, <1>10, <1>11, FlowSends
<1>13. ClientStream(q)
  BY <1>4, <1>7, <1>9, <1>12 DEF ClientStream
<1>14. Streams(q)
  BY <1>8, <1>13 DEF Streams
<1> QED
  BY <1>2, <1>3, <1>5, <1>6, <1>14

LEMMA ServerSendsKeeps ==
  ASSUME NEW p \in Proxy, Streams(p), p.clientProtocol = "Running", p.serverSocket = "open"
  PROVE  Streams([p EXCEPT !.serverSent = @ + 1,
                           !.serverWire = @ \o MessagePieces(p.serverSent + 1)])
<1>1. PICK n \in Nat : n = p.serverSent
  BY DEF Proxy
<1>2. p.serverBuffer \in Seq(Piece) /\ p.serverWire \in Seq(Piece)
  BY DEF Proxy
<1>3. PICK w, m : w = p.serverWire \o MessagePieces(n + 1) /\ m = n + 1
  OBVIOUS
<1>4. PICK q : q = [p EXCEPT !.serverSent = m, !.serverWire = w]
  OBVIOUS
<1>5. /\ q.serverSent = m /\ q.serverWire = w
      /\ q.serverProtocol = p.serverProtocol /\ q.serverSocket = p.serverSocket
      /\ q.clientBuffer = p.clientBuffer /\ q.toServer = p.toServer
      /\ q.clientProtocol = p.clientProtocol /\ q.clientSocket = p.clientSocket
      /\ q.serverBuffer = p.serverBuffer /\ q.clientWire = p.clientWire
      /\ q.clientSent = p.clientSent /\ q.toClient = p.toClient
  BY <1>4 DEF Proxy
<1>6. ClientStream(q) /\ NotConnected(q)
  BY <1>5 DEF Streams, ClientStream, NotConnected
<1>7. PICK O : O = {"open"}
  OBVIOUS
<1>8. Flow(p.clientSocket, O, p.serverBuffer, p.serverWire, n, Nat, p.toClient)
  BY <1>1, <1>7 DEF Streams, ServerStream
<1>9. Flow(p.clientSocket, O, p.serverBuffer, w, n + 1, Nat, p.toClient)
  BY <1>2, <1>3, <1>8, FlowSends
<1>10. ServerStream(q)
  BY <1>3, <1>5, <1>7, <1>9 DEF ServerStream
<1>11. Streams(q)
  BY <1>6, <1>10 DEF Streams
<1> QED
  BY <1>1, <1>3, <1>4, <1>11

-----------------------------------------------------------------------------
(* The streams are exact                                                   *)

StreamInv == \A c \in Connections : Streams(proxy[c])

LEMMA StreamInit == Init => StreamInv
<1>1. Len(<<>>) = 0
  OBVIOUS
<1>2. Idle(<<>>, <<>>, 0, <<>>)
  BY <1>1 DEF Idle
<1>3. /\ NewProxy.serverProtocol = "Protocol" /\ NewProxy.clientProtocol = "Protocol"
      /\ NewProxy.clientBuffer = <<>> /\ NewProxy.clientWire = <<>>
      /\ NewProxy.serverBuffer = <<>> /\ NewProxy.serverWire = <<>>
      /\ NewProxy.clientSent = <<>> /\ NewProxy.serverSent = 0
      /\ NewProxy.toServer = <<>> /\ NewProxy.toClient = <<>>
  BY DEF NewProxy
<1>4. PICK p : p = NewProxy
  OBVIOUS
<1>5. Idle(p.clientBuffer, p.clientWire, Len(p.clientSent), p.toServer)
  BY <1>1, <1>2, <1>3, <1>4
<1>6. Idle(p.serverBuffer, p.serverWire, p.serverSent, p.toClient)
  BY <1>2, <1>3, <1>4
<1>7. Streams(p)
  BY <1>3, <1>4, <1>5, <1>6 DEF Streams, ClientStream, ServerStream, NotConnected
<1> QED
  BY <1>4, <1>7 DEF Init, StreamInv

\* A handler that leaves the streams of its proxy exact leaves those of all.
LEMMA HandleKeeps ==
  ASSUME TypeOK, StreamInv, NEW c \in Connections, NEW q, Streams(q),
         proxy' = [proxy EXCEPT ![c] = q]
  PROVE  StreamInv'
<1>1. proxy \in [Connections -> Proxy]
  BY DEF TypeOK
<1>2. \A d \in Connections : proxy'[d] = IF d = c THEN q ELSE proxy[d]
  BY <1>1
<1>3. ASSUME NEW d \in Connections
      PROVE  Streams(proxy'[d])
  <2>1. CASE d = c
    BY <1>2, <2>1
  <2>2. CASE d # c
    <3>1. proxy'[d] = proxy[d]
      BY <1>2, <2>2
    <3> QED
      BY <3>1 DEF StreamInv
  <2> QED
    BY <2>1, <2>2
<1> QED
  BY <1>3 DEF StreamInv

LEMMA PeersKeep ==
  ASSUME TypeOK, StreamInv, NEW c \in Connections, Peers(c)
  PROVE  StreamInv'
<1>1. PICK p \in Proxy : p = proxy[c] /\ Streams(p)
  BY DEF TypeOK, StreamInv
<1>2. CASE vncServerConnects(c)
  <2>1. PICK outcome \in {"open", "refused"} : Handle(c, [p EXCEPT !.serverSocket = outcome])
    BY <1>1, <1>2 DEF vncServerConnects
  <2>2. PICK q : q = [p EXCEPT !.serverSocket = outcome]
    OBVIOUS
  <2>3. p.serverSocket = "connecting"
    BY <1>1, <1>2 DEF vncServerConnects
  <2>4. Streams(q)
    BY <1>1, <2>2, <2>3, SocketsKeepStreams
  <2> QED
    BY <2>1, <2>2, <2>4, HandleKeeps DEF Handle
<1>3. CASE grantAccess(c)
  <2>1. PICK q : q = [p EXCEPT !.granted = TRUE]
    OBVIOUS
  <2>2. Handle(c, q)
    BY <1>1, <1>3, <2>1 DEF grantAccess
  <2>3. Streams(q)
    BY <1>1, <2>1, TimersKeepStreams
  <2> QED
    BY <2>2, <2>3, HandleKeeps DEF Handle
<1>a. CASE revokeAccess(c)
  <2>1. PICK q : q = [p EXCEPT !.closing = TRUE]
    OBVIOUS
  <2>2. Handle(c, q)
    BY <1>1, <1>a, <2>1 DEF revokeAccess
  <2>3. Streams(q)
    BY <1>1, <2>1, TimersKeepStreams
  <2> QED
    BY <2>2, <2>3, HandleKeeps DEF Handle
<1>4. CASE clientShakesHands(c)
  <2>1. PICK q : q = [p EXCEPT !.clientWire = HandshakePiece]
    OBVIOUS
  <2>2. Handle(c, q) /\ p.serverProtocol # "Running" /\ p.clientWire = <<>> /\ p.clientBuffer = <<>>
    BY <1>1, <1>4, <2>1 DEF clientShakesHands
  <2>3. Streams(q)
    BY <1>1, <2>1, <2>2, HandshakeKeepsStreams
  <2> QED
    BY <2>2, <2>3, HandleKeeps DEF Handle
<1>5. CASE serverShakesHands(c)
  <2>1. PICK q : q = [p EXCEPT !.serverWire = HandshakePiece]
    OBVIOUS
  <2>2. /\ Handle(c, q) /\ p.serverSocket = "open" /\ p.clientProtocol # "Running"
        /\ p.serverWire = <<>> /\ p.serverBuffer = <<>>
    BY <1>1, <1>5, <2>1 DEF serverShakesHands
  <2>3. Streams(q)
    BY <1>1, <2>1, <2>2, HandshakeKeepsStreams
  <2> QED
    BY <2>2, <2>3, HandleKeeps DEF Handle
<1>6. CASE clientSends(c)
  <2>1. PICK kind \in Kinds :
          Handle(c, [p EXCEPT !.clientSent = Append(@, kind),
                              !.clientWire = @ \o MessagePieces(Len(p.clientSent) + 1)])
    BY <1>1, <1>6 DEF clientSends
  <2>2. PICK q : q = [p EXCEPT !.clientSent = Append(@, kind),
                               !.clientWire = @ \o MessagePieces(Len(p.clientSent) + 1)]
    OBVIOUS
  <2>3. p.serverProtocol = "Running"
    BY <1>1, <1>6 DEF clientSends
  <2>4. Streams(q)
    BY <1>1, <2>2, <2>3, ClientSendsKeeps
  <2> QED
    BY <2>1, <2>2, <2>4, HandleKeeps DEF Handle
<1>7. CASE serverSends(c)
  <2>1. PICK q : q = [p EXCEPT !.serverSent = @ + 1,
                               !.serverWire = @ \o MessagePieces(p.serverSent + 1)]
    OBVIOUS
  <2>2. Handle(c, q) /\ p.serverSocket = "open" /\ p.clientProtocol = "Running"
    BY <1>1, <1>7, <2>1 DEF serverSends
  <2>3. Streams(q)
    BY <1>1, <2>1, <2>2, ServerSendsKeeps
  <2> QED
    BY <2>2, <2>3, HandleKeeps DEF Handle
<1> QED
  BY <1>2, <1>3, <1>a, <1>4, <1>5, <1>6, <1>7 DEF Peers

LEMMA StreamStep == TypeOK /\ StreamInv /\ [Next]_vars => StreamInv'
<1> SUFFICES ASSUME TypeOK, StreamInv, [Next]_vars
             PROVE  StreamInv'
  OBVIOUS
<1>1. CASE UNCHANGED proxy
  BY <1>1 DEF StreamInv
<1>2. ASSUME NEW c \in Connections, clientReadyRead(c)
      PROVE  StreamInv'
  <2>1. PICK p \in Proxy : p = proxy[c] /\ Streams(p)
    BY DEF TypeOK, StreamInv
  <2>2. PICK n \in 1..Len(p.clientWire) :
          Handle(c, readFromClient([p EXCEPT !.clientWire = Rest(@, n),
                                             !.clientBuffer = @ \o SubSeq(p.clientWire, 1, n)]))
    BY <1>2, <2>1 DEF clientReadyRead
  <2>3. PICK q \in Proxy : /\ q = [p EXCEPT !.clientWire = Rest(@, n),
                                            !.clientBuffer = @ \o SubSeq(p.clientWire, 1, n)]
                           /\ Streams(q)
    BY <2>1, ArrivalType, ArrivalKeepsStreams
  <2>4. Streams(readFromClient(q))
    BY <2>3, ReadFromClientKeeps
  <2> QED
    BY <2>2, <2>3, <2>4, HandleKeeps DEF Handle
<1>3. ASSUME NEW c \in Connections, serverReadyRead(c)
      PROVE  StreamInv'
  <2>1. PICK p \in Proxy : p = proxy[c] /\ Streams(p)
    BY DEF TypeOK, StreamInv
  <2>2. PICK n \in 1..Len(p.serverWire) :
          Handle(c, readFromServer([p EXCEPT !.serverWire = Rest(@, n),
                                             !.serverBuffer = @ \o SubSeq(p.serverWire, 1, n)]))
    BY <1>3, <2>1 DEF serverReadyRead
  <2>3. p.serverSocket = "open"
    BY <1>3, <2>1 DEF serverReadyRead
  <2>4. PICK q \in Proxy : /\ q = [p EXCEPT !.serverWire = Rest(@, n),
                                            !.serverBuffer = @ \o SubSeq(p.serverWire, 1, n)]
                           /\ Streams(q)
    BY <2>1, <2>3, ArrivalType, ArrivalKeepsStreams
  <2>5. Streams(readFromServer(q))
    BY <2>4, ReadFromServerKeeps
  <2> QED
    BY <2>2, <2>4, <2>5, HandleKeeps DEF Handle
<1>4. ASSUME NEW c \in Connections, clientTimeout(c)
      PROVE  StreamInv'
  <2>1. PICK p \in Proxy : p = proxy[c] /\ Streams(p)
    BY DEF TypeOK, StreamInv
  <2>2. p.clientTimers > 0 /\ Handle(c, readFromClient([p EXCEPT !.clientTimers = @ - 1]))
    BY <1>4, <2>1 DEF clientTimeout
  <2>3. p.clientTimers \in Nat
    BY DEF Proxy
  <2>4. PICK n \in Nat : n = p.clientTimers - 1
    BY <2>2, <2>3
  <2>5. PICK q \in Proxy : q = [p EXCEPT !.clientTimers = n]
    BY DEF Proxy
  <2>6. Streams(q)
    BY <2>1, <2>5, TimersKeepStreams
  <2>7. Streams(readFromClient(q))
    BY <2>6, ReadFromClientKeeps
  <2> QED
    BY <2>2, <2>4, <2>5, <2>7, HandleKeeps DEF Handle
<1>5. ASSUME NEW c \in Connections, serverTimeout(c)
      PROVE  StreamInv'
  <2>1. PICK p \in Proxy : p = proxy[c] /\ Streams(p)
    BY DEF TypeOK, StreamInv
  <2>2. p.serverTimers > 0 /\ Handle(c, readFromServer([p EXCEPT !.serverTimers = @ - 1]))
    BY <1>5, <2>1 DEF serverTimeout
  <2>3. p.serverTimers \in Nat
    BY DEF Proxy
  <2>4. PICK n \in Nat : n = p.serverTimers - 1
    BY <2>2, <2>3
  <2>5. PICK q \in Proxy : q = [p EXCEPT !.serverTimers = n]
    BY DEF Proxy
  <2>6. Streams(q)
    BY <2>1, <2>5, TimersKeepStreams
  <2>7. Streams(readFromServer(q))
    BY <2>6, ReadFromServerKeeps
  <2> QED
    BY <2>2, <2>4, <2>5, <2>7, HandleKeeps DEF Handle
<1>6. ASSUME NEW c \in Connections, NEW socket \in {"clientSocket", "serverSocket"},
             disconnected(c, socket)
      PROVE  StreamInv'
  <2>1. PICK p \in Proxy : p = proxy[c] /\ Streams(p)
    BY DEF TypeOK, StreamInv
  <2>2. PICK q : q = [p EXCEPT ![socket] = "closed"]
    OBVIOUS
  <2>3. proxy' = [proxy EXCEPT ![c] = q]
    BY <1>6, <2>1, <2>2 DEF disconnected, Handle
  <2>4. q = [p EXCEPT !.clientSocket = "closed"] \/ q = [p EXCEPT !.serverSocket = "closed"]
    BY <2>2
  <2>5. Streams(q)
    BY <2>1, <2>4, SocketsKeepStreams
  <2> QED
    BY <2>3, <2>5, HandleKeeps
<1>7. ASSUME NEW c \in Connections, Peers(c)
      PROVE  StreamInv'
  BY <1>7, PeersKeep
<1>8. ASSUME NEW c \in Connections, acceptConnection(c) \/ deleteConnection(c)
      PROVE  StreamInv'
  BY <1>1, <1>8 DEF acceptConnection, deleteConnection
<1>9. CASE stop
  BY <1>1, <1>9 DEF stop
<1>10. CASE UNCHANGED vars
  BY <1>1, <1>10 DEF vars
<1> QED
  BY <1>2, <1>3, <1>4, <1>5, <1>6, <1>7, <1>8, <1>9, <1>10 DEF Next

\* What the invariant of a proxy says of what has been forwarded.
LEMMA StreamsAreExactThen ==
  ASSUME TypeOK, StreamInv
  PROVE  StreamsAreExact
<1> SUFFICES ASSUME NEW c \in Connections
             PROVE  /\ IsPrefix(proxy[c].toServer,
                                Forward(proxy[c], [n \in 1..Len(proxy[c].clientSent) |-> n]))
                    /\ IsPrefix(proxy[c].toClient, [n \in 1..proxy[c].serverSent |-> n])
  BY DEF StreamsAreExact
<1>1. PICK p \in Proxy : p = proxy[c] /\ Streams(p)
  BY DEF TypeOK, StreamInv
<1>2. ASSUME NEW k \in Nat
      PROVE  [n \in 1..k |-> n] = Numbers(0, k)
  BY DEF Numbers
<1>3. PICK k \in Nat : k = Len(p.clientSent)
  <2>1. p.clientSent \in Seq(Kinds)
    BY DEF Proxy
  <2> QED
    BY <2>1
<1>4. PICK l \in Nat : l = p.serverSent
  BY DEF Proxy
<1>5. PICK S : S = ForServer(p.clientSent)
  OBVIOUS
<1>6. PICK a \in Seq(Nat) : a = Numbers(0, k) /\ Len(a) = k
  BY FirstNumbers
<1>7. PICK b \in Seq(Nat) : b = Numbers(0, l) /\ Len(b) = l
  BY FirstNumbers
<1>8. Forward(p, a) = Only(a, k, S)
  BY <1>5, <1>6 DEF Forward, ForServer
<1>9. ASSUME NEW t \in Seq(Nat)
      PROVE  IsPrefix(<<>>, t)
  BY DEF IsPrefix
<1>10. IsPrefix(p.toServer, Only(a, k, S))
  <2>1. CASE p.serverProtocol # "Running"
    <3>1. p.toServer = <<>>
      BY <1>1, <2>1 DEF Streams, ClientStream, Idle
    <3>2. k \in 0..Len(a)
      BY <1>6
    <3>3. Only(a, k, S) \in Seq(Nat \cap S)
      BY <3>2, OnlyType
    <3>4. PICK t \in Seq(Nat) : t = Only(a, k, S)
      BY <3>3, SeqMonotonic
    <3> QED
      BY <1>9, <3>1, <3>4
  <2>2. CASE p.serverProtocol = "Running"
    <3>1. Flow(p.serverSocket, {"connecting", "open"}, p.clientBuffer, p.clientWire, k, S, p.toServer)
      BY <1>1, <1>3, <1>5, <2>2 DEF Streams, ClientStream
    <3> QED
      BY <1>6, <3>1, FlowIsPrefix
  <2> QED
    BY <2>1, <2>2
<1>11. IsPrefix(p.toClient, b)
  <2>1. CASE p.clientProtocol # "Running"
    BY <1>1, <1>9, <2>1 DEF Streams, ServerStream, Idle
  <2>2. CASE p.clientProtocol = "Running"
    <3>1. Flow(p.clientSocket, {"open"}, p.serverBuffer, p.serverWire, l, Nat, p.toClient)
      BY <1>1, <1>4, <2>2 DEF Streams, ServerStream
    <3>2. Only(b, Len(b), Nat) = b
      BY OnlyAll
    <3>3. IsPrefix(p.toClient, Only(b, l, Nat))
      BY <1>7, <3>1, FlowIsPrefix
    <3> QED
      BY <1>7, <3>2, <3>3
  <2> QED
    BY <2>1, <2>2
<1> QED
  BY <1>1, <1>2, <1>3, <1>4, <1>6, <1>7, <1>8, <1>10, <1>11

\* Each side gets the other's messages whole, in order and each once, however they were
\* cut into pieces and whichever of the readers was called by a timer or by data, for
\* any number of connections, pieces and messages
\* (VncProxyConnection::readFromClient(), readFromServer()).
THEOREM StreamsExact == Spec => []StreamsAreExact
<1>1. TypeOK /\ StreamInv => StreamsAreExact
  BY StreamsAreExactThen
<1> QED
  BY <1>1, TypeCorrect, StreamInit, StreamStep, PTL DEF Spec

-----------------------------------------------------------------------------
(* Nothing that has come stays without a call to read it                   *)

BothRunning(p) == p.serverProtocol = "Running" /\ p.clientProtocol = "Running"

\* A call of readFromClient() is pending from the first message of the client until both
\* handshakes have ended, and as long as a whole message is in the buffer, unless the
\* connection is going to be deleted or a message nobody handles has ended the loop.  Once
\* access has been revoked such a call closes the connection instead of reading.
ClientWakes(p) ==
  /\ p.serverProtocol # "Protocol" /\ ~ BothRunning(p) => p.clientTimers > 0
  /\ BothRunning(p) /\ Ends(p.clientBuffer) # {} =>
       p.clientTimers > 0 \/ p.serverSocket = "closed" \/ "unhandled" \in Range(p.clientSent)

\* A call of readFromServer() is pending from the end of the handshake with the VNC server
\* until the other one has ended too, and as long as a whole message is in the buffer; in
\* the handshake nothing stays there.  Once access has been revoked such a call reads
\* nothing and is only made again.
ServerWakes(p) ==
  /\ p.clientProtocol # "Running" => p.serverBuffer = <<>>
  /\ p.clientProtocol = "Running" /\ (~ BothRunning(p) \/ Ends(p.serverBuffer) # {}) =>
       p.serverTimers > 0

NoWakeupLost == \A c \in Connections : ClientWakes(proxy[c]) /\ ServerWakes(proxy[c])

\* Only keeps what is in the set.
LEMMA OnlyContains ==
  ASSUME NEW A, NEW s \in Seq(A), NEW S, NEW i \in 1..Len(s), s[i] \in S
  PROVE  \E j \in 1..Len(Only(s, Len(s), S)) : Only(s, Len(s), S)[j] = s[i]
<1> DEFINE Found(k) == \E j \in 1..Len(Only(s, k, S)) : Only(s, k, S)[j] = s[i]
           U == {k \in Nat : i <= k /\ k <= Len(s) => Found(k)}
<1>1. 0 \in U
  OBVIOUS
<1>2. ASSUME NEW k \in Nat, k \in U
      PROVE  k + 1 \in U
  <2>1. SUFFICES ASSUME i <= k + 1, k + 1 <= Len(s)
                 PROVE  Found(k + 1)
    OBVIOUS
  <2>2. k \in 0..Len(s)
    BY <2>1
  <2>3. Only(s, k, S) \in Seq(A \cap S)
    BY <2>2, OnlyType
  <2>4. PICK t \in Seq(A \cap S) : t = Only(s, k, S)
    BY <2>3
  <2>5. PICK u : u = Only(s, k + 1, S)
    OBVIOUS
  <2>6. u = IF s[k + 1] \in S THEN Append(t, s[k + 1]) ELSE t
    BY <2>1, <2>4, <2>5, OnlyEquations
  <2>7. k + 1 \in 1..Len(s)
    BY <2>1
  <2>8. PICK x \in A : x = s[k + 1]
    BY <2>7
  <2>9. x \in S => /\ u = Append(t, x) /\ Len(u) = Len(t) + 1 /\ u[Len(t) + 1] = x
                   /\ \A j \in 1..Len(t) : u[j] = t[j]
    BY <2>6, <2>8, AppendProperties
  <2>10. \E j \in 1..Len(u) : u[j] = s[i]
    <3>1. CASE i = k + 1
      <4>1. x = s[i] /\ x \in S
        BY <2>8, <3>1
      <4>2. Len(t) + 1 \in 1..Len(u)
        BY <2>9, <4>1
      <4> QED
        BY <2>9, <4>1, <4>2
    <3>2. CASE i # k + 1
      <4>1. i <= k /\ k <= Len(s)
        BY <2>1, <3>2
      <4>2. PICK j \in 1..Len(t) : t[j] = s[i]
        BY <1>2, <2>4, <4>1
      <4>3. CASE x \in S
        <5>1. j \in 1..Len(u) /\ u[j] = t[j]
          BY <2>9, <4>3
        <5> QED
          BY <4>2, <5>1
      <4>4. CASE x \notin S
        BY <2>6, <2>8, <4>2, <4>4
      <4> QED
        BY <4>3, <4>4
    <3> QED
      BY <3>1, <3>2
  <2> QED
    BY <2>5, <2>10
<1> HIDE DEF U
<1>3. Len(s) \in U
  BY <1>1, <1>2, SetInduction
<1> QED
  BY <1>3 DEF U

\* A message of which the last piece has come has been sent.
LEMMA EndsAreSent ==
  ASSUME NEW s \in Seq(Piece), NEW t \in Seq(Piece), NEW r \in Nat, NEW n \in Nat, r <= n,
         Carries(s \o t, r, n), NEW i \in Ends(s)
  PROVE  s[i].message \in 1..n
<1>1. PICK u \in Seq(Piece) : /\ u = s \o t /\ Len(u) = Len(s) + Len(t)
                              /\ \A j \in 1..Len(s) : u[j] = s[j]
  <2>1. PICK u : u = s \o t
    OBVIOUS
  <2>2. u \in Seq(Piece)
    BY <2>1, ConcatIs
  <2>3. Len(u) = Len(s) + Len(t)
    BY <2>1, ConcatIs
  <2>4. \A j \in 1..Len(s) : u[j] = s[j]
    BY <2>1, ConcatIs
  <2> QED
    BY <2>1, <2>2, <2>3, <2>4, Zenon
<1>2. i \in 1..Len(s) /\ s[i].last /\ s[i] \in Piece
  BY DEF Ends
<1>3. i \in 1..Len(u) /\ u[i] = s[i] /\ u[i] \in LastPiece
  BY <1>1, <1>2, LastPieceIs
<1>4. PICK j \in 1..Len(Only(u, Len(u), LastPiece)) : Only(u, Len(u), LastPiece)[j] = u[i]
  BY <1>3, OnlyContains
<1>5. PICK m \in Seq(Nat) :
        /\ m = Messages(u, Len(u)) /\ Len(m) = Len(Only(u, Len(u), LastPiece))
        /\ \A k \in 1..Len(m) : m[k] = Only(u, Len(u), LastPiece)[k].message
  <2>1. Len(u) \in 0..Len(u)
    OBVIOUS
  <2> QED
    BY <2>1, MessagesAre
<1>6. j \in 1..Len(m) /\ m[j] = s[i].message
  BY <1>3, <1>4, <1>5
<1>7. m = Numbers(r, n)
  BY <1>1, <1>5 DEF Carries
<1>8. Len(m) = n - r /\ \A k \in 1..(n - r) : m[k] = r + k
  BY <1>7, NumbersAre
<1>9. s[i].message = r + j /\ j \in 1..(n - r)
  BY <1>6, <1>8
<1> QED
  BY <1>9

\* If a message ends the loop, the connection is going to be deleted or nobody handles it.
LEMMA LoopEnds ==
  ASSUME NEW p \in Proxy, Streams(p), BothRunning(p),
         NEW i \in Ends(p.clientBuffer), EndsLoop(p, p.clientBuffer[i].message)
  PROVE  p.serverSocket = "closed" \/ "unhandled" \in Range(p.clientSent)
<1>1. /\ p.clientBuffer \in Seq(Piece) /\ p.clientWire \in Seq(Piece)
      /\ p.clientSent \in Seq(Kinds)
      /\ p.serverSocket \in {"connecting", "open", "refused", "closed"}
  BY DEF Proxy
<1>2. PICK n \in Nat : n = Len(p.clientSent)
  BY <1>1
<1>3. PICK r \in Nat : r <= n /\ Carries(p.clientBuffer \o p.clientWire, r, n)
  BY <1>2 DEF Streams, ClientStream, BothRunning, Flow
<1>4. p.clientBuffer[i].message \in 1..n
  BY <1>1, <1>3, EndsAreSent
<1>5. CASE p.clientSent[p.clientBuffer[i].message] = "unhandled"
  BY <1>1, <1>2, <1>4, <1>5 DEF Range
<1>6. CASE p.serverSocket # "open"
  BY <1>1, <1>6 DEF Streams, NotConnected, BothRunning
<1> QED
  BY <1>5, <1>6 DEF EndsLoop

LEMMA ReadFromClientWakes ==
  ASSUME NEW p \in Proxy, Streams(p)
  PROVE  ClientWakes(readFromClient(p)) /\ (ServerWakes(p) => ServerWakes(readFromClient(p)))
<1>1. ASSUME NEW q \in Proxy, ~ BothRunning(q)
      PROVE  ClientWakes(readFromClientLater(q))
  <2>1. PICK n \in Nat : n = q.clientTimers + 1 /\ n > 0
    BY DEF Proxy
  <2>2. PICK x : x = [q EXCEPT !.clientTimers = n]
    OBVIOUS
  <2>3. /\ x.clientTimers = n /\ x.serverProtocol = q.serverProtocol
        /\ x.clientProtocol = q.clientProtocol
    BY <2>2 DEF Proxy
  <2>4. ClientWakes(x)
    BY <1>1, <2>1, <2>3 DEF ClientWakes, BothRunning
  <2> QED
    BY <2>1, <2>2, <2>4 DEF readFromClientLater
<1>2. ASSUME NEW q \in Proxy, ServerWakes(q)
      PROVE  ServerWakes(readFromClientLater(q))
  <2>1. PICK x : x = readFromClientLater(q)
    OBVIOUS
  <2>2. /\ x.serverTimers = q.serverTimers /\ x.serverProtocol = q.serverProtocol
        /\ x.clientProtocol = q.clientProtocol /\ x.serverBuffer = q.serverBuffer
    BY <2>1 DEF readFromClientLater, Proxy
  <2> QED
    BY <1>2, <2>1, <2>2 DEF ServerWakes, BothRunning
<1>3. CASE protocolState(p) # "Running"
  <2>1. ASSUME NEW q \in Proxy
        PROVE  /\ serverProtocolRead(q) \in Proxy
               /\ serverProtocolRead(q).clientProtocol = q.clientProtocol
               /\ serverProtocolRead(q).serverBuffer = q.serverBuffer
               /\ serverProtocolRead(q).serverTimers = q.serverTimers
               /\ q.serverProtocol = "Running" => serverProtocolRead(q).serverProtocol = "Running"
    <3>1. serverProtocolRead(q) \in Proxy
      BY ServerProtocolReadType
    <3>2. /\ serverProtocolRead(q).clientProtocol = q.clientProtocol
          /\ serverProtocolRead(q).serverBuffer = q.serverBuffer
          /\ serverProtocolRead(q).serverTimers = q.serverTimers
      BY DEF serverProtocolRead, Proxy
    <3>3. ASSUME q.serverProtocol = "Running"
          PROVE  serverProtocolRead(q).serverProtocol = "Running"
      <4>1. ~ serverProtocolReads(q)
        BY <3>3 DEF serverProtocolReads
      <4> QED
        BY <3>3, <4>1 DEF serverProtocolRead, Proxy
    <3> QED
      BY <3>1, <3>2, <3>3
  <2>2. PICK a \in Proxy : /\ a = serverProtocolRead(p)
                           /\ a.clientProtocol = p.clientProtocol
                           /\ a.serverBuffer = p.serverBuffer /\ a.serverTimers = p.serverTimers
                           /\ p.serverProtocol = "Running" => a.serverProtocol = "Running"
    BY <2>1
  <2>3. PICK b \in Proxy : /\ b = serverProtocolRead(a)
                           /\ b.clientProtocol = p.clientProtocol
                           /\ b.serverBuffer = p.serverBuffer /\ b.serverTimers = p.serverTimers
                           /\ p.serverProtocol = "Running" => b.serverProtocol = "Running"
    BY <2>1, <2>2
  <2>4. PICK d \in Proxy : /\ d = serverProtocolRead(b)
                           /\ d.clientProtocol = p.clientProtocol
                           /\ d.serverBuffer = p.serverBuffer /\ d.serverTimers = p.serverTimers
                           /\ p.serverProtocol = "Running" => d.serverProtocol = "Running"
    BY <2>1, <2>3
  <2>5. readFromClient(p) = readFromClientLater(d)
    BY <1>3, <2>2, <2>3, <2>4 DEF readFromClient, serverProtocolLoop
  <2>6. ServerWakes(p) => ServerWakes(d)
    BY <2>4 DEF ServerWakes, BothRunning
  <2>7. ClientWakes(readFromClientLater(d))
    <3>1. PICK n \in Nat : n = d.clientTimers + 1 /\ n > 0
      <4>1. d.clientTimers \in Nat
        BY DEF Proxy
      <4> QED
        BY <4>1
    <3>2. PICK x : x = [d EXCEPT !.clientTimers = n]
      OBVIOUS
    <3>3. x.clientTimers = n
      BY <3>2 DEF Proxy
    <3>4. ClientWakes(x)
      BY <3>1, <3>3 DEF ClientWakes
    <3> QED
      BY <3>1, <3>2, <3>4 DEF readFromClientLater
  <2> QED
    BY <1>2, <2>5, <2>6, <2>7
<1>4. CASE protocolState(p) = "Running" /\ p.clientProtocol # "Running"
  <2>1. readFromClient(p) = readFromClientLater(p) /\ ~ BothRunning(p)
    BY <1>4 DEF readFromClient, BothRunning
  <2> QED
    BY <1>1, <1>2, <2>1
<1>5. CASE protocolState(p) = "Running" /\ p.clientProtocol = "Running"
  <2>0. BothRunning(p)
    BY <1>5, ServedIs DEF BothRunning
  <2>1. PICK n, t :
          /\ receiveClientMessages(p) =
               [p EXCEPT !.clientBuffer = Rest(p.clientBuffer, n), !.toServer = t]
          /\ \/ Ends(Rest(p.clientBuffer, n)) = {}
             \/ \E i \in Ends(p.clientBuffer) : EndsLoop(p, p.clientBuffer[i].message)
    BY ClientMessagesReceived
  <2>2. PICK b, q : b = Rest(p.clientBuffer, n) /\ q = [p EXCEPT !.clientBuffer = b, !.toServer = t]
    OBVIOUS
  <2>3. /\ q.clientBuffer = b /\ q.serverProtocol = p.serverProtocol
        /\ q.clientProtocol = p.clientProtocol /\ q.clientTimers = p.clientTimers
        /\ q.serverSocket = p.serverSocket /\ q.clientSent = p.clientSent
        /\ q.serverTimers = p.serverTimers /\ q.serverBuffer = p.serverBuffer
    BY <2>2 DEF Proxy
  <2>4. Ends(b) = {} \/ p.serverSocket = "closed" \/ "unhandled" \in Range(p.clientSent)
    BY <2>0, <2>1, <2>2, LoopEnds
  <2>5. ClientWakes(q)
    BY <2>0, <2>3, <2>4 DEF ClientWakes, BothRunning
  <2>6. ServerWakes(p) => ServerWakes(q)
    BY <2>3 DEF ServerWakes, BothRunning
  <2>7. readFromClient(p) = q
    BY <1>5, <2>1, <2>2 DEF readFromClient, BothRunning
  <2> QED
    BY <2>5, <2>6, <2>7
<1> QED
  BY <1>3, <1>4, <1>5 DEF BothRunning

LEMMA ReadFromServerWakes ==
  ASSUME NEW p \in Proxy, Streams(p)
  PROVE  ServerWakes(readFromServer(p)) /\ (ClientWakes(p) => ClientWakes(readFromServer(p)))
<1>1. ASSUME NEW q \in Proxy, q.clientProtocol = "Running"
      PROVE  ServerWakes(readFromServerLater(q))
  <2>1. PICK n \in Nat : n = q.serverTimers + 1 /\ n > 0
    BY DEF Proxy
  <2>2. PICK x : x = [q EXCEPT !.serverTimers = n]
    OBVIOUS
  <2>3. x.serverTimers = n /\ x.clientProtocol = q.clientProtocol
    BY <2>2 DEF Proxy
  <2>4. ServerWakes(x)
    BY <1>1, <2>1, <2>3 DEF ServerWakes
  <2> QED
    BY <2>1, <2>2, <2>4 DEF readFromServerLater
<1>2. ASSUME NEW q \in Proxy, ClientWakes(q)
      PROVE  ClientWakes(readFromServerLater(q))
  <2>1. PICK x : x = readFromServerLater(q)
    OBVIOUS
  <2>2. /\ x.serverProtocol = q.serverProtocol /\ x.clientProtocol = q.clientProtocol
        /\ x.clientTimers = q.clientTimers /\ x.clientBuffer = q.clientBuffer
        /\ x.serverSocket = q.serverSocket /\ x.clientSent = q.clientSent
    BY <2>1 DEF readFromServerLater, Proxy
  <2> QED
    BY <1>2, <2>1, <2>2 DEF ClientWakes, BothRunning
<1>3. CASE p.clientProtocol # "Running"
  <2>1. PICK q \in Proxy : q = clientProtocolLoop(p)
    BY <1>3, ClientProtocolLoopType
  <2>2. readFromServer(p) = IF q.clientProtocol = "Running" THEN readFromServerLater(q) ELSE q
    BY <1>3, <2>1 DEF readFromServer
  <2>3. q.serverBuffer = <<>>
    <3>1. CASE p.serverBuffer = <<>>
      BY <2>1, <3>1 DEF clientProtocolLoop
    <3>2. CASE p.serverBuffer # <<>>
      <4>1. p.serverBuffer \in Seq(Piece) /\ p.serverWire \in Seq(Piece)
        BY DEF Proxy
      <4>2. Idle(p.serverBuffer, p.serverWire, p.serverSent, p.toClient)
        BY <1>3 DEF Streams, ServerStream
      <4>3. PICK b \in Seq(Piece) : b = Tail(p.serverBuffer) /\ Len(b) = Len(p.serverBuffer) - 1
        BY <3>2, <4>1, TailIs
      <4>4. Len(b) = 0
        <5>1. PICK k \in Nat, l \in Nat : k = Len(p.serverBuffer) /\ l = Len(p.serverWire)
          BY <4>1
        <5>2. PICK m \in Nat : m = Len(b)
          BY <4>3
        <5>3. k + l <= 1 /\ m = k - 1
          BY <4>2, <4>3, <5>1, <5>2 DEF Idle
        <5>4. m = 0
          BY <5>3
        <5> QED
          BY <5>2, <5>4
      <4>5. b = <<>>
        BY <4>4, EmptySeq
      <4>6. q.serverBuffer = b
        BY <2>1, <3>2, <4>3 DEF clientProtocolLoop, Proxy
      <4> QED
        BY <4>5, <4>6
    <3> QED
      BY <3>1, <3>2
  <2>4. /\ q.serverProtocol = p.serverProtocol /\ q.clientTimers = p.clientTimers
        /\ q.clientBuffer = p.clientBuffer
        /\ q.serverSocket = p.serverSocket /\ q.clientSent = p.clientSent
    BY <2>1 DEF clientProtocolLoop, Proxy
  <2>5. ClientWakes(p) => ClientWakes(q)
    BY <1>3, <2>4 DEF ClientWakes, BothRunning
  <2>6. CASE q.clientProtocol # "Running"
    <3>1. ServerWakes(q)
      BY <2>3, <2>6 DEF ServerWakes
    <3> QED
      BY <2>2, <2>5, <2>6, <3>1
  <2>7. CASE q.clientProtocol = "Running"
    BY <1>1, <1>2, <2>2, <2>5, <2>7
  <2> QED
    BY <2>6, <2>7
<1>4. CASE p.clientProtocol = "Running" /\ protocolState(p) # "Running"
  <2>1. readFromServer(p) = readFromServerLater(p)
    BY <1>4 DEF readFromServer
  <2> QED
    BY <1>1, <1>2, <1>4, <2>1
<1>5. CASE p.clientProtocol = "Running" /\ protocolState(p) = "Running"
  <2>0. BothRunning(p)
    BY <1>5, ServedIs DEF BothRunning
  <2>1. PICK n, t :
          /\ receiveServerMessages(p) =
               [p EXCEPT !.serverBuffer = Rest(p.serverBuffer, n), !.toClient = t]
          /\ Ends(Rest(p.serverBuffer, n)) = {}
    BY ServerMessagesReceived
  <2>2. PICK b, q : b = Rest(p.serverBuffer, n) /\ q = [p EXCEPT !.serverBuffer = b, !.toClient = t]
    OBVIOUS
  <2>3. /\ q.serverBuffer = b /\ q.serverProtocol = p.serverProtocol
        /\ q.clientProtocol = p.clientProtocol /\ q.clientTimers = p.clientTimers
        /\ q.serverSocket = p.serverSocket /\ q.clientSent = p.clientSent
        /\ q.clientBuffer = p.clientBuffer
    BY <2>2 DEF Proxy
  <2>4. ServerWakes(q)
    BY <2>0, <2>1, <2>2, <2>3 DEF ServerWakes, BothRunning
  <2>5. ClientWakes(p) => ClientWakes(q)
    BY <2>3 DEF ClientWakes, BothRunning
  <2>6. readFromServer(p) = q
    BY <1>5, <2>1, <2>2 DEF readFromServer, BothRunning
  <2> QED
    BY <2>4, <2>5, <2>6
<1> QED
  BY <1>3, <1>4, <1>5 DEF BothRunning

\* What does not touch the buffers, the timers and the states of the handshakes.
LEMMA WakesSame ==
  ASSUME NEW p, NEW q,
         q.serverProtocol = p.serverProtocol, q.clientProtocol = p.clientProtocol,
         q.clientTimers = p.clientTimers, q.serverTimers = p.serverTimers,
         q.clientBuffer = p.clientBuffer, q.serverBuffer = p.serverBuffer,
         BothRunning(p) /\ p.serverSocket = "closed" => q.serverSocket = "closed",
         "unhandled" \in Range(p.clientSent) => "unhandled" \in Range(q.clientSent)
  PROVE  (ClientWakes(p) => ClientWakes(q)) /\ (ServerWakes(p) => ServerWakes(q))
  BY DEF ClientWakes, ServerWakes, BothRunning

LEMMA HandleWakes ==
  ASSUME TypeOK, NoWakeupLost, NEW c \in Connections, NEW q, ClientWakes(q), ServerWakes(q),
         proxy' = [proxy EXCEPT ![c] = q]
  PROVE  NoWakeupLost'
<1>1. \A d \in Connections : proxy'[d] = IF d = c THEN q ELSE proxy[d]
  BY DEF TypeOK
<1>2. ASSUME NEW d \in Connections
      PROVE  ClientWakes(proxy'[d]) /\ ServerWakes(proxy'[d])
  <2>1. CASE d = c
    BY <1>1, <2>1
  <2>2. CASE d # c
    <3>1. proxy'[d] = proxy[d]
      BY <1>1, <2>2
    <3> QED
      BY <3>1 DEF NoWakeupLost
  <2> QED
    BY <2>1, <2>2
<1> QED
  BY <1>2 DEF NoWakeupLost

LEMMA PeersWake ==
  ASSUME TypeOK, StreamInv, NoWakeupLost, NEW c \in Connections, Peers(c)
  PROVE  NoWakeupLost'
<1>1. PICK p \in Proxy : p = proxy[c] /\ Streams(p) /\ ClientWakes(p) /\ ServerWakes(p)
  BY DEF TypeOK, StreamInv, NoWakeupLost
<1>2. ASSUME NEW q, Handle(c, q),
             q.serverProtocol = p.serverProtocol, q.clientProtocol = p.clientProtocol,
             q.clientTimers = p.clientTimers, q.serverTimers = p.serverTimers,
             q.clientBuffer = p.clientBuffer, q.serverBuffer = p.serverBuffer,
             BothRunning(p) /\ p.serverSocket = "closed" => q.serverSocket = "closed",
             "unhandled" \in Range(p.clientSent) => "unhandled" \in Range(q.clientSent)
      PROVE  NoWakeupLost'
  <2>1. ClientWakes(q) /\ ServerWakes(q)
    BY <1>1, <1>2, WakesSame
  <2> QED
    BY <1>2, <2>1, HandleWakes DEF Handle
<1>3. CASE vncServerConnects(c)
  <2>1. PICK outcome : /\ Handle(c, [p EXCEPT !.serverSocket = outcome])
                       /\ p.serverSocket = "connecting"
    BY <1>1, <1>3 DEF vncServerConnects
  <2>2. PICK q : q = [p EXCEPT !.serverSocket = outcome]
    OBVIOUS
  <2>3. /\ q.serverProtocol = p.serverProtocol /\ q.clientProtocol = p.clientProtocol
        /\ q.clientTimers = p.clientTimers /\ q.serverTimers = p.serverTimers
        /\ q.clientBuffer = p.clientBuffer /\ q.serverBuffer = p.serverBuffer
        /\ q.clientSent = p.clientSent
    BY <2>2 DEF Proxy
  <2>4. p.serverSocket # "closed"
    BY <2>1
  <2> QED
    BY <1>2, <2>1, <2>2, <2>3, <2>4
<1>4. CASE grantAccess(c)
  <2>1. PICK q : q = [p EXCEPT !.granted = TRUE]
    OBVIOUS
  <2>2. Handle(c, q)
    BY <1>1, <1>4, <2>1 DEF grantAccess
  <2>3. /\ q.serverProtocol = p.serverProtocol /\ q.clientProtocol = p.clientProtocol
        /\ q.clientTimers = p.clientTimers /\ q.serverTimers = p.serverTimers
        /\ q.clientBuffer = p.clientBuffer /\ q.serverBuffer = p.serverBuffer
        /\ q.clientSent = p.clientSent /\ q.serverSocket = p.serverSocket
    BY <2>1 DEF Proxy
  <2> QED
    BY <1>2, <2>2, <2>3
<1>9. CASE revokeAccess(c)
  <2>1. PICK q : q = [p EXCEPT !.closing = TRUE]
    OBVIOUS
  <2>2. Handle(c, q)
    BY <1>1, <1>9, <2>1 DEF revokeAccess
  <2>3. /\ q.serverProtocol = p.serverProtocol /\ q.clientProtocol = p.clientProtocol
        /\ q.clientTimers = p.clientTimers /\ q.serverTimers = p.serverTimers
        /\ q.clientBuffer = p.clientBuffer /\ q.serverBuffer = p.serverBuffer
        /\ q.clientSent = p.clientSent /\ q.serverSocket = p.serverSocket
    BY <2>1 DEF Proxy
  <2> QED
    BY <1>2, <2>2, <2>3
<1>5. CASE clientShakesHands(c)
  <2>1. PICK q : q = [p EXCEPT !.clientWire = HandshakePiece]
    OBVIOUS
  <2>2. Handle(c, q)
    BY <1>1, <1>5, <2>1 DEF clientShakesHands
  <2>3. /\ q.serverProtocol = p.serverProtocol /\ q.clientProtocol = p.clientProtocol
        /\ q.clientTimers = p.clientTimers /\ q.serverTimers = p.serverTimers
        /\ q.clientBuffer = p.clientBuffer /\ q.serverBuffer = p.serverBuffer
        /\ q.clientSent = p.clientSent /\ q.serverSocket = p.serverSocket
    BY <2>1 DEF Proxy
  <2> QED
    BY <1>2, <2>2, <2>3
<1>6. CASE serverShakesHands(c)
  <2>1. PICK q : q = [p EXCEPT !.serverWire = HandshakePiece]
    OBVIOUS
  <2>2. Handle(c, q)
    BY <1>1, <1>6, <2>1 DEF serverShakesHands
  <2>3. /\ q.serverProtocol = p.serverProtocol /\ q.clientProtocol = p.clientProtocol
        /\ q.clientTimers = p.clientTimers /\ q.serverTimers = p.serverTimers
        /\ q.clientBuffer = p.clientBuffer /\ q.serverBuffer = p.serverBuffer
        /\ q.clientSent = p.clientSent /\ q.serverSocket = p.serverSocket
    BY <2>1 DEF Proxy
  <2> QED
    BY <1>2, <2>2, <2>3
<1>7. CASE serverSends(c)
  <2>1. PICK q : q = [p EXCEPT !.serverSent = @ + 1,
                               !.serverWire = @ \o MessagePieces(p.serverSent + 1)]
    OBVIOUS
  <2>2. Handle(c, q)
    BY <1>1, <1>7, <2>1 DEF serverSends
  <2>3. /\ q.serverProtocol = p.serverProtocol /\ q.clientProtocol = p.clientProtocol
        /\ q.clientTimers = p.clientTimers /\ q.serverTimers = p.serverTimers
        /\ q.clientBuffer = p.clientBuffer /\ q.serverBuffer = p.serverBuffer
        /\ q.clientSent = p.clientSent /\ q.serverSocket = p.serverSocket
    BY <2>1 DEF Proxy
  <2> QED
    BY <1>2, <2>2, <2>3
<1>8. CASE clientSends(c)
  <2>1. PICK kind, w :
          Handle(c, [p EXCEPT !.clientSent = Append(@, kind), !.clientWire = w])
    BY <1>1, <1>8 DEF clientSends
  <2>2. PICK s : s = Append(p.clientSent, kind)
    OBVIOUS
  <2>3. p.clientSent \in Seq(Kinds)
    BY DEF Proxy
  <2>4. "unhandled" \in Range(p.clientSent) => "unhandled" \in Range(s)
    <3>1. Len(s) = Len(p.clientSent) + 1 /\ \A i \in 1..Len(p.clientSent) : s[i] = p.clientSent[i]
      BY <2>2, <2>3, AppendProperties
    <3>2. DOMAIN p.clientSent = 1..Len(p.clientSent) /\ DOMAIN s = 1..Len(s)
      BY <2>2, <2>3
    <3>3. DOMAIN p.clientSent \subseteq DOMAIN s
      BY <2>3, <3>1, <3>2
    <3> QED
      BY <3>1, <3>2, <3>3 DEF Range
  <2>5. PICK q : q = [p EXCEPT !.clientSent = s, !.clientWire = w]
    OBVIOUS
  <2>6. /\ q.serverProtocol = p.serverProtocol /\ q.clientProtocol = p.clientProtocol
        /\ q.clientTimers = p.clientTimers /\ q.serverTimers = p.serverTimers
        /\ q.clientBuffer = p.clientBuffer /\ q.serverBuffer = p.serverBuffer
        /\ q.clientSent = s /\ q.serverSocket = p.serverSocket
    BY <2>5 DEF Proxy
  <2> QED
    BY <1>2, <2>1, <2>2, <2>4, <2>5, <2>6
<1> QED
  BY <1>3, <1>4, <1>5, <1>6, <1>7, <1>8, <1>9 DEF Peers

LEMMA WakeupStep == TypeOK /\ StreamInv /\ NoWakeupLost /\ [Next]_vars => NoWakeupLost'
<1> SUFFICES ASSUME TypeOK, StreamInv, NoWakeupLost, [Next]_vars
             PROVE  NoWakeupLost'
  OBVIOUS
<1>1. CASE UNCHANGED proxy
  BY <1>1 DEF NoWakeupLost
<1>2. ASSUME NEW c \in Connections, NEW p \in Proxy, p = proxy[c], NEW q \in Proxy, Streams(q),
             q.serverProtocol = p.serverProtocol, q.clientProtocol = p.clientProtocol,
             q.serverTimers = p.serverTimers, q.serverBuffer = p.serverBuffer,
             Handle(c, readFromClient(q))
      PROVE  NoWakeupLost'
  <2>1. ServerWakes(q)
    BY <1>2 DEF NoWakeupLost, ServerWakes, BothRunning
  <2>2. ClientWakes(readFromClient(q)) /\ ServerWakes(readFromClient(q))
    BY <1>2, <2>1, ReadFromClientWakes
  <2> QED
    BY <1>2, <2>2, HandleWakes DEF Handle
<1>3. ASSUME NEW c \in Connections, NEW p \in Proxy, p = proxy[c], NEW q \in Proxy, Streams(q),
             q.serverProtocol = p.serverProtocol, q.clientProtocol = p.clientProtocol,
             q.clientTimers = p.clientTimers, q.clientBuffer = p.clientBuffer,
             q.serverSocket = p.serverSocket, q.clientSent = p.clientSent,
             Handle(c, readFromServer(q))
      PROVE  NoWakeupLost'
  <2>1. ClientWakes(q)
    BY <1>3 DEF NoWakeupLost, ClientWakes, BothRunning
  <2>2. ClientWakes(readFromServer(q)) /\ ServerWakes(readFromServer(q))
    BY <1>3, <2>1, ReadFromServerWakes
  <2> QED
    BY <1>3, <2>2, HandleWakes DEF Handle
<1>4. ASSUME NEW c \in Connections, clientReadyRead(c)
      PROVE  NoWakeupLost'
  <2>1. PICK p \in Proxy : p = proxy[c] /\ Streams(p)
    BY DEF TypeOK, StreamInv
  <2>2. PICK n \in 1..Len(p.clientWire) :
          Handle(c, readFromClient([p EXCEPT !.clientWire = Rest(@, n),
                                             !.clientBuffer = @ \o SubSeq(p.clientWire, 1, n)]))
    BY <1>4, <2>1 DEF clientReadyRead
  <2>3. PICK q \in Proxy : /\ q = [p EXCEPT !.clientWire = Rest(@, n),
                                            !.clientBuffer = @ \o SubSeq(p.clientWire, 1, n)]
                           /\ Streams(q)
    BY <2>1, ArrivalType, ArrivalKeepsStreams
  <2>4. /\ q.serverProtocol = p.serverProtocol /\ q.clientProtocol = p.clientProtocol
        /\ q.serverTimers = p.serverTimers /\ q.serverBuffer = p.serverBuffer
    BY <2>3 DEF Proxy
  <2> QED
    BY <1>2, <2>1, <2>2, <2>3, <2>4
<1>5. ASSUME NEW c \in Connections, serverReadyRead(c)
      PROVE  NoWakeupLost'
  <2>1. PICK p \in Proxy : p = proxy[c] /\ Streams(p) /\ p.serverSocket = "open"
    BY <1>5 DEF TypeOK, StreamInv, serverReadyRead
  <2>2. PICK n \in 1..Len(p.serverWire) :
          Handle(c, readFromServer([p EXCEPT !.serverWire = Rest(@, n),
                                             !.serverBuffer = @ \o SubSeq(p.serverWire, 1, n)]))
    BY <1>5, <2>1 DEF serverReadyRead
  <2>3. PICK q \in Proxy : /\ q = [p EXCEPT !.serverWire = Rest(@, n),
                                            !.serverBuffer = @ \o SubSeq(p.serverWire, 1, n)]
                           /\ Streams(q)
    BY <2>1, ArrivalType, ArrivalKeepsStreams
  <2>4. /\ q.serverProtocol = p.serverProtocol /\ q.clientProtocol = p.clientProtocol
        /\ q.clientTimers = p.clientTimers /\ q.clientBuffer = p.clientBuffer
        /\ q.serverSocket = p.serverSocket /\ q.clientSent = p.clientSent
    BY <2>3 DEF Proxy
  <2> QED
    BY <1>3, <2>1, <2>2, <2>3, <2>4
<1>6. ASSUME NEW c \in Connections, clientTimeout(c)
      PROVE  NoWakeupLost'
  <2>1. PICK p \in Proxy : p = proxy[c] /\ Streams(p)
    BY DEF TypeOK, StreamInv
  <2>2. p.clientTimers > 0 /\ Handle(c, readFromClient([p EXCEPT !.clientTimers = @ - 1]))
    BY <1>6, <2>1 DEF clientTimeout
  <2>3. PICK n \in Nat : n = p.clientTimers - 1
    BY <2>2 DEF Proxy
  <2>4. PICK q \in Proxy : q = [p EXCEPT !.clientTimers = n]
    BY DEF Proxy
  <2>5. Streams(q)
    BY <2>1, <2>4, TimersKeepStreams
  <2>6. /\ q.serverProtocol = p.serverProtocol /\ q.clientProtocol = p.clientProtocol
        /\ q.serverTimers = p.serverTimers /\ q.serverBuffer = p.serverBuffer
    BY <2>4 DEF Proxy
  <2> QED
    BY <1>2, <2>1, <2>2, <2>3, <2>4, <2>5, <2>6
<1>7. ASSUME NEW c \in Connections, serverTimeout(c)
      PROVE  NoWakeupLost'
  <2>1. PICK p \in Proxy : p = proxy[c] /\ Streams(p)
    BY DEF TypeOK, StreamInv
  <2>2. p.serverTimers > 0 /\ Handle(c, readFromServer([p EXCEPT !.serverTimers = @ - 1]))
    BY <1>7, <2>1 DEF serverTimeout
  <2>3. PICK n \in Nat : n = p.serverTimers - 1
    BY <2>2 DEF Proxy
  <2>4. PICK q \in Proxy : q = [p EXCEPT !.serverTimers = n]
    BY DEF Proxy
  <2>5. Streams(q)
    BY <2>1, <2>4, TimersKeepStreams
  <2>6. /\ q.serverProtocol = p.serverProtocol /\ q.clientProtocol = p.clientProtocol
        /\ q.clientTimers = p.clientTimers /\ q.clientBuffer = p.clientBuffer
        /\ q.serverSocket = p.serverSocket /\ q.clientSent = p.clientSent
    BY <2>4 DEF Proxy
  <2> QED
    BY <1>3, <2>1, <2>2, <2>3, <2>4, <2>5, <2>6
<1>8. ASSUME NEW c \in Connections, NEW socket \in {"clientSocket", "serverSocket"},
             disconnected(c, socket)
      PROVE  NoWakeupLost'
  <2>1. PICK p \in Proxy : p = proxy[c] /\ ClientWakes(p) /\ ServerWakes(p)
    BY DEF TypeOK, NoWakeupLost
  <2>2. PICK q : q = [p EXCEPT ![socket] = "closed"]
    OBVIOUS
  <2>3. proxy' = [proxy EXCEPT ![c] = q]
    BY <1>8, <2>1, <2>2 DEF disconnected, Handle
  <2>4. /\ q.serverProtocol = p.serverProtocol /\ q.clientProtocol = p.clientProtocol
        /\ q.clientTimers = p.clientTimers /\ q.serverTimers = p.serverTimers
        /\ q.clientBuffer = p.clientBuffer /\ q.serverBuffer = p.serverBuffer
        /\ q.clientSent = p.clientSent
        /\ p.serverSocket = "closed" => q.serverSocket = "closed"
    BY <2>2 DEF Proxy
  <2>5. ClientWakes(q) /\ ServerWakes(q)
    BY <2>1, <2>4, WakesSame
  <2> QED
    BY <2>3, <2>5, HandleWakes
<1>9. ASSUME NEW c \in Connections, Peers(c)
      PROVE  NoWakeupLost'
  BY <1>9, PeersWake
<1>10. ASSUME NEW c \in Connections, acceptConnection(c) \/ deleteConnection(c)
       PROVE  NoWakeupLost'
  BY <1>1, <1>10 DEF acceptConnection, deleteConnection
<1>11. CASE stop
  BY <1>1, <1>11 DEF stop
<1>12. CASE UNCHANGED vars
  BY <1>1, <1>12 DEF vars
<1> QED
  BY <1>4, <1>5, <1>6, <1>7, <1>8, <1>9, <1>10, <1>11, <1>12 DEF Next

LEMMA WakeupInit == Init => NoWakeupLost
<1>1. /\ NewProxy.serverProtocol = "Protocol" /\ NewProxy.clientProtocol = "Protocol"
      /\ NewProxy.serverBuffer = <<>>
  BY DEF NewProxy
<1>2. ClientWakes(NewProxy) /\ ServerWakes(NewProxy)
  BY <1>1 DEF ClientWakes, ServerWakes, BothRunning
<1> QED
  BY <1>2 DEF Init, NoWakeupLost

\* Nothing has to come for a reader to be called again: while a handshake goes on, or a
\* whole message is in a buffer, a timer is pending that calls it.  The call reads what is
\* there unless access has been revoked, after which the client's closes the connection
\* and the VNC server's only polls; with nothing in the client's buffer no call of its
\* reader need be pending then, and the connection stays until the client sends something.
\* This is what MessagesArrive and HandshakesEnd rest on (readFromClientLater(),
\* VncProxyConnection::readFromServer()).
THEOREM WakeupsKept == Spec => []NoWakeupLost
  BY TypeCorrect, StreamInit, StreamStep, WakeupInit, WakeupStep, TypeInit, TypeStep, PTL DEF Spec

=============================================================================
