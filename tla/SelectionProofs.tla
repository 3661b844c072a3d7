-------------------------- MODULE SelectionProofs --------------------------
(***************************************************************************)
(* What Select returns, for every sequence and set, and the facts about    *)
(* sequences that the proofs of the components share.                      *)
(***************************************************************************)
EXTENDS Selection, SequencesExt, WellFoundedInduction, SequenceTheorems, TLAPS

\* Induction, over a set rather than a predicate.
LEMMA NatSetInduction ==
    ASSUME NEW T \in SUBSET Nat, 0 \in T, \A n \in T : n + 1 \in T
    PROVE  T = Nat
    <1> SUFFICES ASSUME Nat \ T # {} PROVE FALSE
        OBVIOUS
    <1> DEFINE U == Nat \ T
    <1>1. \E x \in U : \A y \in U : ~(<<y, x>> \in OpToRel(<, Nat))
        BY NatLessThanWellFounded, WFMin
    <1>2. PICK x \in U : \A y \in U : ~(y < x)
        BY <1>1 DEF OpToRel
    <1>3. x # 0 /\ x - 1 \in Nat /\ x - 1 < x
        OBVIOUS
    <1>4. x - 1 \in T
        BY <1>2, <1>3
    <1>5. (x - 1) + 1 = x
        OBVIOUS
    <1> QED
        BY <1>4, <1>5

\* The recursion of Select, for a prefix of s.
Keeps(f, s, T, m) ==
    f = [n \in 0 .. m |->
            IF n = 0 THEN << >>
            ELSE IF s[n] \in T THEN Append(f[n - 1], s[n])
            ELSE f[n - 1]]

\* It has a solution for every length.
LEMMA KeepsExists ==
    ASSUME NEW s, NEW T, NEW m \in Nat
    PROVE  \E f : Keeps(f, s, T, m)
    <1> DEFINE Solved == {k \in Nat : \E f : Keeps(f, s, T, k)}
    <1>1. 0 \in Solved
        <2>1. Keeps([n \in 0 .. 0 |-> << >>], s, T, 0)
            BY DEF Keeps
        <2> QED
            BY <2>1
    <1>2. ASSUME NEW k \in Solved PROVE k + 1 \in Solved
        <2>1. PICK f : Keeps(f, s, T, k)
            OBVIOUS
        <2> DEFINE last == IF s[k + 1] \in T THEN Append(f[k], s[k + 1]) ELSE f[k]
                   g == [n \in 0 .. k + 1 |-> IF n = k + 1 THEN last ELSE f[n]]
        <2>2. \A n \in 0 .. k :
                 f[n] = IF n = 0 THEN << >>
                        ELSE IF s[n] \in T THEN Append(f[n - 1], s[n])
                        ELSE f[n - 1]
            BY <2>1 DEF Keeps
        <2>3. g[k + 1] = last /\ \A n \in 0 .. k : g[n] = f[n]
            OBVIOUS
        <2>4. ASSUME NEW n \in 0 .. k + 1
              PROVE  g[n] = IF n = 0 THEN << >>
                            ELSE IF s[n] \in T THEN Append(g[n - 1], s[n])
                            ELSE g[n - 1]
            <3>1. CASE n = k + 1
                <4>1. g[n - 1] = f[k] /\ n # 0
                    BY <2>3, <3>1
                <4> HIDE DEF g
                <4> QED
                    BY <2>3, <3>1, <4>1
            <3>2. CASE n # k + 1
                <4>1. n \in 0 .. k /\ (n # 0 => n - 1 \in 0 .. k)
                    BY <3>2
                <4> HIDE DEF g
                <4> QED
                    BY <2>2, <2>3, <4>1
            <3> QED
                BY <3>1, <3>2
        <2>5. Keeps(g, s, T, k + 1)
            BY <2>4 DEF Keeps
        <2> QED
            BY <2>5
    <1>3. Solved = Nat
        BY <1>1, <1>2, NatSetInduction
    <1> QED
        BY <1>3

LEMMA KeepsStep ==
    ASSUME NEW f, NEW s, NEW T, NEW m \in Nat, Keeps(f, s, T, m)
    PROVE  /\ f[0] = << >>
           /\ \A n \in 1 .. m : s[n] \in T => f[n] = Append(f[n - 1], s[n])
           /\ \A n \in 1 .. m : s[n] \notin T => f[n] = f[n - 1]
    <1>1. \A n \in 0 .. m :
             f[n] = IF n = 0 THEN << >>
                    ELSE IF s[n] \in T THEN Append(f[n - 1], s[n])
                    ELSE f[n - 1]
        BY DEF Keeps
    <1>2. 0 \in 0 .. m /\ \A n \in 1 .. m : n \in 0 .. m /\ n # 0
        OBVIOUS
    <1> QED
        BY <1>1, <1>2

\* Solutions for sequences that agree on a prefix agree there.
LEMMA KeepsAgree ==
    ASSUME NEW f, NEW g, NEW s, NEW t, NEW T, NEW m \in Nat, NEW k \in Nat,
           Keeps(f, s, T, m), Keeps(g, t, T, k), m <= k,
           \A i \in 1 .. m : s[i] = t[i]
    PROVE  f[m] = g[m]
    <1> DEFINE Same == {n \in Nat : n <= m => f[n] = g[n]}
    <1>1. 0 \in Same
        BY KeepsStep
    <1>2. ASSUME NEW n \in Same PROVE n + 1 \in Same
        <2> SUFFICES ASSUME n + 1 <= m PROVE f[n + 1] = g[n + 1]
            OBVIOUS
        <2>1. n + 1 \in 1 .. m /\ n + 1 \in 1 .. k /\ (n + 1) - 1 = n /\ n <= m
            OBVIOUS
        <2>2. f[n] = g[n] /\ s[n + 1] = t[n + 1]
            BY <2>1
        <2>3. CASE s[n + 1] \in T
            <3>1. f[n + 1] = Append(f[n], s[n + 1])
                BY <2>1, <2>3, KeepsStep
            <3>2. g[n + 1] = Append(g[n], t[n + 1])
                BY <2>1, <2>2, <2>3, KeepsStep
            <3> QED
                BY <2>2, <3>1, <3>2
        <2>4. CASE s[n + 1] \notin T
            <3>1. f[n + 1] = f[n]
                BY <2>1, <2>4, KeepsStep
            <3>2. g[n + 1] = g[n]
                BY <2>1, <2>2, <2>4, KeepsStep
            <3> QED
                BY <2>2, <3>1, <3>2
        <2> QED
            BY <2>3, <2>4
    <1>3. Same = Nat
        BY <1>1, <1>2, NatSetInduction
    <1> QED
        BY <1>3

LEMMA SelectKeeps ==
    ASSUME NEW S, NEW s \in Seq(S), NEW T
    PROVE  \E f : Keeps(f, s, T, Len(s)) /\ Select(s, T) = f[Len(s)]
    <1> DEFINE f == CHOOSE h : Keeps(h, s, T, Len(s))
    <1>1. Len(s) \in Nat
        OBVIOUS
    <1>2. Keeps(f, s, T, Len(s))
        BY <1>1, KeepsExists
    <1>3. Select(s, T) = f[Len(s)]
        BY DEF Select, Keeps
    <1> QED
        BY <1>2, <1>3

\* The kept prefixes are sequences of elements of s that are in T.
LEMMA KeepsType ==
    ASSUME NEW S, NEW T, NEW f, NEW s \in Seq(S), Keeps(f, s, T, Len(s)),
           NEW m \in 0 .. Len(s)
    PROVE  f[m] \in Seq(S \cap T)
    <1> DEFINE Typed == {n \in Nat : n <= Len(s) => f[n] \in Seq(S \cap T)}
    <1>0. Len(s) \in Nat
        OBVIOUS
    <1>1. 0 \in Typed
        <2>1. f[0] = << >>
            BY <1>0, KeepsStep
        <2>2. << >> \in Seq(S \cap T)
            OBVIOUS
        <2> QED
            BY <2>1, <2>2
    <1>2. ASSUME NEW n \in Typed PROVE n + 1 \in Typed
        <2> SUFFICES ASSUME n + 1 <= Len(s) PROVE f[n + 1] \in Seq(S \cap T)
            OBVIOUS
        <2>1. n + 1 \in 1 .. Len(s) /\ (n + 1) - 1 = n /\ n <= Len(s)
            BY <1>0
        <2>2. f[n] \in Seq(S \cap T) /\ s[n + 1] \in S
            BY <2>1
        <2>3. CASE s[n + 1] \in T
            <3>1. f[n + 1] = Append(f[n], s[n + 1])
                BY <1>0, <2>1, <2>3, KeepsStep
            <3> QED
                BY <2>2, <2>3, <3>1
        <2>4. CASE s[n + 1] \notin T
            <3>1. f[n + 1] = f[n]
                BY <1>0, <2>1, <2>4, KeepsStep
            <3> QED
                BY <2>2, <3>1
        <2> QED
            BY <2>3, <2>4
    <1>3. Typed = Nat
        BY <1>1, <1>2, NatSetInduction
    <1> QED
        BY <1>0, <1>3

-----------------------------------------------------------------------------
(* Facts about Select. *)

\* Select keeps to the elements of s that are in T.
THEOREM SelectType ==
    ASSUME NEW S, NEW s \in Seq(S), NEW T
    PROVE  Select(s, T) \in Seq(S \cap T)
    <1>1. PICK f : Keeps(f, s, T, Len(s)) /\ Select(s, T) = f[Len(s)]
        BY SelectKeeps
    <1>2. Len(s) \in 0 .. Len(s)
        OBVIOUS
    <1> QED
        BY <1>1, <1>2, KeepsType

LEMMA SelectEmpty ==
    ASSUME NEW T
    PROVE  Select(<< >>, T) = << >>
    <1>1. << >> \in Seq({}) /\ Len(<< >>) = 0
        OBVIOUS
    <1>2. PICK f : Keeps(f, << >>, T, 0) /\ Select(<< >>, T) = f[0]
        BY <1>1, SelectKeeps
    <1> QED
        BY <1>2, KeepsStep

\* One element more: what Select has kept of the prefix, and the element.
LEMMA KeepsOneMore ==
    ASSUME NEW f, NEW g, NEW s, NEW t, NEW T, NEW n \in Nat,
           Keeps(f, s, T, n), Keeps(g, t, T, n + 1),
           \A i \in 1 .. n : s[i] = t[i]
    PROVE  g[n + 1] = IF t[n + 1] \in T THEN Append(f[n], t[n + 1]) ELSE f[n]
    <1>1. n + 1 \in Nat /\ n <= n + 1 /\ n + 1 \in 1 .. n + 1 /\ (n + 1) - 1 = n
        OBVIOUS
    <1>2. f[n] = g[n]
        <2> DEFINE k == n + 1
        <2>1. k \in Nat /\ n <= k /\ Keeps(g, t, T, k)
            BY <1>1
        <2> HIDE DEF k
        <2> QED
            BY <2>1, KeepsAgree
    <1>3. t[n + 1] \in T => g[n + 1] = Append(g[n], t[n + 1])
        BY <1>1, KeepsStep
    <1>4. t[n + 1] \notin T => g[n + 1] = g[n]
        BY <1>1, KeepsStep
    <1> QED
        BY <1>2, <1>3, <1>4

\* An element that comes in last is selected last, or not at all.
THEOREM SelectAppend ==
    ASSUME NEW S, NEW s \in Seq(S), NEW e \in S, NEW T
    PROVE  Select(Append(s, e), T) =
              IF e \in T THEN Append(Select(s, T), e) ELSE Select(s, T)
    <1> DEFINE t == Append(s, e)
    <1>1. /\ t \in Seq(S) /\ Len(t) = Len(s) + 1 /\ t[Len(s) + 1] = e
          /\ Len(s) \in Nat /\ \A i \in 1 .. Len(s) : s[i] = t[i]
        OBVIOUS
    <1> HIDE DEF t
    <1>2. PICK f : Keeps(f, s, T, Len(s)) /\ Select(s, T) = f[Len(s)]
        BY SelectKeeps
    <1>3. PICK g : Keeps(g, t, T, Len(t)) /\ Select(t, T) = g[Len(t)]
        BY <1>1, SelectKeeps
    <1>4. Keeps(g, t, T, Len(s) + 1)
        BY <1>1, <1>3
    <1>5. g[Len(s) + 1] = IF t[Len(s) + 1] \in T
                          THEN Append(f[Len(s)], t[Len(s) + 1]) ELSE f[Len(s)]
        BY <1>1, <1>2, <1>4, KeepsOneMore
    <1> QED
        BY <1>1, <1>2, <1>3, <1>5 DEF t

\* Where only a prefix of s is outside T, the rest is what is selected.
THEOREM SelectSuffix ==
    ASSUME NEW S, NEW s \in Seq(S), NEW T, NEW k \in 0 .. Len(s),
           \A i \in 1 .. k : s[i] \notin T,
           \A i \in k + 1 .. Len(s) : s[i] \in T
    PROVE  /\ Len(Select(s, T)) = Len(s) - k
           /\ \A i \in 1 .. Len(s) - k : Select(s, T)[i] = s[k + i]
    <1>0. Len(s) \in Nat /\ k \in Nat /\ \A i \in 1 .. Len(s) : s[i] \in S
        OBVIOUS
    <1>1. PICK f : Keeps(f, s, T, Len(s)) /\ Select(s, T) = f[Len(s)]
        BY SelectKeeps
    <1>2. /\ f[0] = << >>
          /\ \A n \in 1 .. Len(s) : s[n] \in T => f[n] = Append(f[n - 1], s[n])
          /\ \A n \in 1 .. Len(s) : s[n] \notin T => f[n] = f[n - 1]
        BY <1>0, <1>1, KeepsStep
    <1> DEFINE Prefix(n) == IF n <= k THEN << >> ELSE SubSeq(s, k + 1, n)
               Good == {n \in Nat : n <= Len(s) => f[n] = Prefix(n)}
    <1>3. 0 \in Good
        BY <1>0, <1>2
    <1>4. ASSUME NEW n \in Good PROVE n + 1 \in Good
        <2> SUFFICES ASSUME n + 1 <= Len(s) PROVE f[n + 1] = Prefix(n + 1)
            OBVIOUS
        <2>1. n + 1 \in 1 .. Len(s) /\ (n + 1) - 1 = n /\ n <= Len(s)
            BY <1>0
        <2>2. f[n] = Prefix(n)
            BY <2>1
        <2>3. CASE n + 1 <= k
            <3>1. s[n + 1] \notin T
                BY <1>0, <2>1, <2>3
            <3>2. f[n + 1] = f[n]
                BY <1>2, <2>1, <3>1
            <3> QED
                BY <1>0, <2>2, <2>3, <3>2
        <2>4. CASE n >= k
            <3>1. s[n + 1] \in T
                BY <1>0, <2>1, <2>4
            <3>2. f[n + 1] = Append(f[n], s[n + 1])
                BY <1>2, <2>1, <3>1
            <3>3. f[n] = SubSeq(s, k + 1, n)
                <4>1. CASE n = k
                    <5>1. SubSeq(s, k + 1, n) = << >>
                        BY <1>0, <4>1
                    <5> QED
                        BY <1>0, <2>2, <4>1, <5>1
                <4>2. CASE n > k
                    BY <1>0, <2>2, <4>2
                <4> QED
                    BY <1>0, <2>4, <4>1, <4>2
            <3>4. Append(SubSeq(s, k + 1, n), s[n + 1]) = SubSeq(s, k + 1, n + 1)
                BY <1>0, <2>1, <2>4
            <3> QED
                BY <1>0, <2>4, <3>2, <3>3, <3>4
        <2> QED
            BY <1>0, <2>3, <2>4
    <1>5. Good = Nat
        BY <1>3, <1>4, NatSetInduction
    <1>6. Select(s, T) = Prefix(Len(s))
        BY <1>0, <1>1, <1>5
    <1> QED
        BY <1>0, <1>6

\* A set of numbers has a least one, and a bounded one a greatest.
LEMMA Least ==
    ASSUME NEW N \in SUBSET Nat, N # {}
    PROVE  \E x \in N : \A y \in N : x <= y
    <1>1. \E x \in N : \A y \in N : ~(<<y, x>> \in OpToRel(<, Nat))
        BY NatLessThanWellFounded, WFMin
    <1>2. PICK x \in N : \A y \in N : ~(y < x)
        BY <1>1 DEF OpToRel
    <1> QED
        BY <1>2

LEMMA Greatest ==
    ASSUME NEW n \in Nat, NEW N \in SUBSET (0 .. n), N # {}
    PROVE  \E x \in N : \A y \in N : y <= x
    <1> DEFINE M == {n - x : x \in N}
    <1>1. M \in SUBSET Nat /\ M # {}
        <2>1. \A x \in N : n - x \in Nat
            OBVIOUS
        <2>2. PICK x : x \in N
            OBVIOUS
        <2>3. n - x \in M
            BY <2>2
        <2> QED
            BY <2>1, <2>3
    <1>2. PICK m \in M : \A k \in M : m <= k
        BY <1>1, Least
    <1>3. PICK x \in N : m = n - x
        OBVIOUS
    <1>4. \A y \in N : n - x <= n - y
        BY <1>2, <1>3
    <1> QED
        BY <1>4

\* Induction over sequences, over a set too.
LEMMA SeqSetInduction ==
    ASSUME NEW S, NEW P \in SUBSET Seq(S), << >> \in P,
           \A s \in P, e \in S : Append(s, e) \in P
    PROVE  P = Seq(S)
    <1> DEFINE Long == {n \in Nat : \A s \in Seq(S) : Len(s) = n => s \in P}
    <1>1. 0 \in Long
        <2> SUFFICES ASSUME NEW s \in Seq(S), Len(s) = 0 PROVE s \in P
            OBVIOUS
        <2>1. s = << >>
            OBVIOUS
        <2> QED
            BY <2>1
    <1>2. ASSUME NEW n \in Long PROVE n + 1 \in Long
        <2> SUFFICES ASSUME NEW s \in Seq(S), Len(s) = n + 1 PROVE s \in P
            OBVIOUS
        <2> DEFINE r == SubSeq(s, 1, n)
        <2>1. n \in Nat /\ r \in Seq(S) /\ Len(r) = n /\ s[n + 1] \in S
            OBVIOUS
        <2>2. s = Append(r, s[n + 1])
            <3> DEFINE q == Append(r, s[n + 1])
            <3>1. q \in Seq(S) /\ Len(q) = n + 1
                BY <2>1
            <3>2. \A i \in 1 .. n + 1 : s[i] = q[i]
                BY <2>1
            <3> HIDE DEF q
            <3>3. s = q
                BY <2>1, <3>1, <3>2
            <3> QED
                BY <3>3 DEF q
        <2>3. r \in P
            BY <2>1
        <2> HIDE DEF r
        <2> QED
            BY <2>1, <2>2, <2>3
    <1>3. Long = Nat
        BY <1>1, <1>2, NatSetInduction
    <1>4. \A s \in Seq(S) : Len(s) \in Nat
        OBVIOUS
    <1> QED
        BY <1>3, <1>4

\* F takes S to S2, and just the elements of T into T2.
Carries(F, S, S2, T, T2) ==
    F \in [S -> S2] /\ \A x \in S : F[x] \in T2 <=> x \in T

\* t is s, element by element.
Image(F, s, t) ==
    DOMAIN t = DOMAIN s /\ \A i \in DOMAIN s : t[i] = F[s[i]]

\* Selecting commutes with a function that carries one set to the other.
THEOREM SelectMapped ==
    ASSUME NEW S, NEW S2, NEW T, NEW T2, NEW F, Carries(F, S, S2, T, T2),
           NEW s \in Seq(S), NEW t \in Seq(S2), Image(F, s, t)
    PROVE  Image(F, Select(s, T), Select(t, T2))
    <1>0. /\ F \in [S -> S2] /\ \A x \in S : F[x] \in T2 <=> x \in T
          /\ DOMAIN t = DOMAIN s /\ \A i \in DOMAIN s : t[i] = F[s[i]]
        BY DEF Carries, Image
    <1> DEFINE Map(r) == [i \in 1 .. Len(r) |-> F[r[i]]]
               P == {r \in Seq(S) : Select(Map(r), T2) = Map(Select(r, T))}
    <1>1. ASSUME NEW r \in Seq(S), NEW e \in S
          PROVE  Map(r) \in Seq(S2) /\ Map(Append(r, e)) = Append(Map(r), F[e])
        BY <1>0
    <1>2. Map(<< >>) = << >>
        OBVIOUS
    <1>3. ASSUME NEW r \in Seq(S) PROVE Select(r, T) \in Seq(S)
        <2>1. Select(r, T) \in Seq(S \cap T)
            BY SelectType
        <2> QED
            BY <2>1
    <1> HIDE DEF Map
    <1>4. << >> \in P
        BY <1>2, SelectEmpty
    <1>5. ASSUME NEW r \in P, NEW e \in S PROVE Append(r, e) \in P
        <2>1. r \in Seq(S) /\ Append(r, e) \in Seq(S)
            OBVIOUS
        <2>2. /\ Map(Append(r, e)) = Append(Map(r), F[e]) /\ Map(r) \in Seq(S2)
              /\ F[e] \in S2
            BY <1>0, <1>1, <2>1
        <2>3. Select(Append(Map(r), F[e]), T2) =
                 IF F[e] \in T2 THEN Append(Select(Map(r), T2), F[e])
                 ELSE Select(Map(r), T2)
            <3> DEFINE q == Map(r)
                       x == F[e]
            <3>1. q \in Seq(S2) /\ x \in S2
                BY <2>2
            <3> HIDE DEF q, x
            <3>2. Select(Append(q, x), T2) =
                     IF x \in T2 THEN Append(Select(q, T2), x) ELSE Select(q, T2)
                BY <3>1, SelectAppend
            <3> QED
                BY <3>2 DEF q, x
        <2>4. Select(Append(r, e), T) =
                 IF e \in T THEN Append(Select(r, T), e) ELSE Select(r, T)
            BY <2>1, SelectAppend
        <2>5. Map(Append(Select(r, T), e)) = Append(Map(Select(r, T)), F[e])
            BY <1>1, <1>3, <2>1
        <2>6. Select(Map(r), T2) = Map(Select(r, T)) /\ (F[e] \in T2 <=> e \in T)
            BY <1>0
        <2>7. Select(Map(Append(r, e)), T2) = Map(Select(Append(r, e), T))
            BY <2>2, <2>3, <2>4, <2>5, <2>6
        <2> QED
            BY <2>1, <2>7
    <1>6. P = Seq(S)
        BY <1>4, <1>5, SeqSetInduction
    <1>7. s \in P
        BY <1>6
    <1>8. t = Map(s)
        <2>1. /\ DOMAIN s = 1 .. Len(s) /\ t = [i \in DOMAIN t |-> t[i]]
              /\ \A i \in DOMAIN s : t[i] = F[s[i]]
            BY <1>0, LenProperties
        <2> QED
            BY <1>0, <2>1 DEF Map
    <1>9. Select(t, T2) = Map(Select(s, T))
        BY <1>7, <1>8
    <1>10. DOMAIN Select(s, T) = 1 .. Len(Select(s, T))
        BY <1>3, LenProperties
    <1> QED
        BY <1>9, <1>10 DEF Map, Image

-----------------------------------------------------------------------------
(* Queues that hand their elements on. *)

\* The head of one sequence moves to the end of the other.
LEMMA ShiftConcat ==
    ASSUME NEW S, NEW s \in Seq(S), NEW t \in Seq(S), t # << >>
    PROVE  Append(s, Head(t)) \o Tail(t) = s \o t
    <1>1. Head(t) \in S /\ Tail(t) \in Seq(S) /\ Len(Tail(t)) = Len(t) - 1
             /\ (\A i \in 1 .. Len(Tail(t)) : Tail(t)[i] = t[i + 1])
             /\ Head(t) = t[1] /\ Len(t) \in Nat \ {0}
        BY HeadTailProperties, EmptySeq
    <1> DEFINE a == Append(s, Head(t))
    <1>2. a \in Seq(S) /\ Len(a) = Len(s) + 1 /\ a[Len(s) + 1] = Head(t)
             /\ (\A i \in 1 .. Len(s) : a[i] = s[i]) /\ Len(s) \in Nat
        BY <1>1, AppendProperties
    <1> HIDE DEF a
    <1> DEFINE l == a \o Tail(t)
               r == s \o t
    <1>3. l \in Seq(S) /\ Len(l) = Len(s) + Len(t)
             /\ \A i \in 1 .. Len(s) + Len(t) :
                   l[i] = IF i <= Len(s) + 1 THEN a[i] ELSE Tail(t)[i - (Len(s) + 1)]
        <2>1. l \in Seq(S) /\ Len(l) = Len(a) + Len(Tail(t))
                 /\ \A i \in 1 .. Len(a) + Len(Tail(t)) :
                       l[i] = IF i <= Len(a) THEN a[i] ELSE Tail(t)[i - Len(a)]
            BY <1>1, <1>2, ConcatProperties
        <2>2. Len(a) + Len(Tail(t)) = Len(s) + Len(t)
            BY <1>1, <1>2
        <2> QED
            BY <1>2, <2>1, <2>2
    <1>4. r \in Seq(S) /\ Len(r) = Len(s) + Len(t)
             /\ \A i \in 1 .. Len(s) + Len(t) :
                   r[i] = IF i <= Len(s) THEN s[i] ELSE t[i - Len(s)]
        BY <1>1, <1>2, ConcatProperties
    <1> HIDE DEF l, r
    <1>5. ASSUME NEW i \in 1 .. Len(s) + Len(t) PROVE l[i] = r[i]
        <2>1. CASE i <= Len(s)
            BY <1>2, <1>3, <1>4, <2>1
        <2>2. CASE i = Len(s) + 1
            BY <1>1, <1>2, <1>3, <1>4, <2>2
        <2>3. CASE i > Len(s) + 1
            <3>1. i - (Len(s) + 1) \in 1 .. Len(Tail(t))
                     /\ i - (Len(s) + 1) + 1 = i - Len(s)
                BY <1>1, <1>2, <2>3
            <3> QED
                BY <1>1, <1>2, <1>3, <1>4, <2>3, <3>1
        <2> QED
            BY <1>2, <2>1, <2>2, <2>3
    <1>6. l = r
        BY <1>3, <1>4, <1>5, SeqEqual
    <1> QED
        BY <1>6 DEF l, r, a

LEMMA TailConcat ==
    ASSUME NEW S, NEW s \in Seq(S), NEW t \in Seq(S), s # << >>
    PROVE  s \o t # << >> /\ Tail(s) \o t = Tail(s \o t)
    <1> DEFINE u == Tail(s)
               v == s \o t
    <1>1. u \in Seq(S) /\ Len(u) = Len(s) - 1 /\ Len(s) \in Nat \ {0} /\ Len(t) \in Nat
             /\ \A i \in 1 .. Len(u) : u[i] = s[i + 1]
        BY HeadTailProperties, EmptySeq
    <1>2. v \in Seq(S) /\ Len(v) = Len(s) + Len(t)
             /\ \A i \in 1 .. Len(s) + Len(t) :
                   v[i] = IF i <= Len(s) THEN s[i] ELSE t[i - Len(s)]
        BY ConcatProperties
    <1> HIDE DEF u, v
    <1>3. v # << >>
        BY <1>1, <1>2, EmptySeq
    <1> DEFINE l == u \o t
               r == Tail(v)
    <1>4. l \in Seq(S) /\ Len(l) = Len(u) + Len(t)
             /\ \A i \in 1 .. Len(u) + Len(t) :
                   l[i] = IF i <= Len(u) THEN u[i] ELSE t[i - Len(u)]
        BY <1>1, ConcatProperties
    <1>5. r \in Seq(S) /\ Len(r) = Len(v) - 1
             /\ \A i \in 1 .. Len(r) : r[i] = v[i + 1]
        BY <1>2, <1>3, HeadTailProperties
    <1> HIDE DEF l, r
    <1>6. ASSUME NEW i \in 1 .. Len(l) PROVE l[i] = r[i]
        <2>1. i \in 1 .. Len(r) /\ i + 1 \in 1 .. Len(s) + Len(t)
            BY <1>1, <1>2, <1>4, <1>5
        <2>2. CASE i <= Len(u)
            BY <1>1, <1>2, <1>4, <1>5, <2>1, <2>2
        <2>3. CASE ~(i <= Len(u))
            <3>1. i + 1 - Len(s) = i - Len(u) /\ ~(i + 1 <= Len(s))
                BY <1>1, <2>3
            <3>2. l[i] = t[i - Len(u)] /\ r[i] = t[i + 1 - Len(s)]
                BY <1>1, <1>2, <1>4, <1>5, <2>1, <2>3, <3>1
            <3> QED
                BY <3>1, <3>2
        <2> QED
            BY <2>2, <2>3
    <1>7. Len(l) = Len(r)
        BY <1>1, <1>2, <1>4, <1>5
    <1>8. l = r
        BY <1>4, <1>5, <1>6, <1>7, SeqEqual
    <1> QED
        BY <1>3, <1>8 DEF l, r, u, v

LEMMA AppendConcat ==
    ASSUME NEW S, NEW s \in Seq(S), NEW t \in Seq(S), NEW e \in S
    PROVE  s \o Append(t, e) = Append(s \o t, e)
    <1>1. Append(t, e) = t \o <<e>> /\ <<e>> \in Seq(S) /\ s \o t \in Seq(S)
        BY AppendIsConcat, ConcatProperties
    <1>2. Append(s \o t, e) = (s \o t) \o <<e>>
        BY <1>1, AppendIsConcat
    <1> QED
        BY <1>1, <1>2, ConcatAssociative

LEMMA ToSetAppend ==
    ASSUME NEW S, NEW s \in Seq(S), NEW e \in S
    PROVE  ToSet(Append(s, e)) = ToSet(s) \cup {e}
    <1> DEFINE a == Append(s, e)
    <1>1. /\ a[Len(s) + 1] = e /\ \A i \in 1 .. Len(s) : a[i] = s[i]
          /\ DOMAIN a = 1 .. Len(s) + 1 /\ DOMAIN s = 1 .. Len(s) /\ Len(s) \in Nat
        BY AppendProperties, LenProperties
    <1> HIDE DEF a
    <1>2. 1 .. Len(s) + 1 = (1 .. Len(s)) \cup {Len(s) + 1}
        BY <1>1
    <1>3. ToSet(a) = {a[i] : i \in 1 .. Len(s)} \cup {e}
        BY <1>1, <1>2 DEF ToSet
    <1>4. ToSet(s) = {a[i] : i \in 1 .. Len(s)}
        BY <1>1 DEF ToSet
    <1> QED
        BY <1>3, <1>4 DEF a

LEMMA ToSetHeadTail ==
    ASSUME NEW S, NEW s \in Seq(S), s # << >>
    PROVE  ToSet(s) = {Head(s)} \cup ToSet(Tail(s))
    <1> DEFINE t == Tail(s)
    <1>1. /\ Head(s) = s[1] /\ Len(s) \in Nat \ {0}
          /\ \A i \in 1 .. Len(s) - 1 : t[i] = s[i + 1]
          /\ DOMAIN t = 1 .. Len(s) - 1 /\ DOMAIN s = 1 .. Len(s)
        BY HeadTailProperties, LenProperties, EmptySeq
    <1> HIDE DEF t
    <1>2. ASSUME NEW i \in 1 .. Len(s) PROVE s[i] \in {Head(s)} \cup ToSet(t)
        <2>1. CASE i = 1
            BY <1>1, <2>1
        <2>2. CASE i # 1
            <3>1. i - 1 \in 1 .. Len(s) - 1 /\ t[i - 1] = s[i]
                BY <1>1, <2>2
            <3> QED
                BY <1>1, <3>1 DEF ToSet
        <2> QED
            BY <2>1, <2>2
    <1>3. ASSUME NEW i \in 1 .. Len(s) - 1 PROVE t[i] \in ToSet(s)
        BY <1>1 DEF ToSet
    <1>4. Head(s) \in ToSet(s)
        BY <1>1 DEF ToSet
    <1> QED
        BY <1>1, <1>2, <1>3, <1>4 DEF ToSet, t

\* What is selected.
THEOREM SelectRange ==
    ASSUME NEW S, NEW s \in Seq(S), NEW T
    PROVE  ToSet(Select(s, T)) = ToSet(s) \cap T
    <1> DEFINE P == {t \in Seq(S) : ToSet(Select(t, T)) = ToSet(t) \cap T}
    <1>1. << >> \in P
        <2>1. << >> \in Seq(S) /\ Select(<< >>, T) = << >>
            BY SelectEmpty
        <2>2. ToSet(<< >>) = {}
            BY DEF ToSet
        <2> QED
            BY <2>1, <2>2
    <1>2. ASSUME NEW t \in P, NEW e \in S PROVE Append(t, e) \in P
        <2>1. t \in Seq(S) /\ ToSet(Select(t, T)) = ToSet(t) \cap T
            OBVIOUS
        <2>2. Append(t, e) \in Seq(S) /\ ToSet(Append(t, e)) = ToSet(t) \cup {e}
            BY <2>1, ToSetAppend
        <2>3. Select(Append(t, e), T) =
                 IF e \in T THEN Append(Select(t, T), e) ELSE Select(t, T)
            BY <2>1, SelectAppend
        <2>4. CASE e \in T
            <3>1. Select(t, T) \in Seq(S \cap T) /\ e \in S \cap T
                BY <2>1, <2>4, SelectType
            <3>2. ToSet(Append(Select(t, T), e)) = ToSet(Select(t, T)) \cup {e}
                BY <3>1, ToSetAppend
            <3> QED
                BY <2>1, <2>2, <2>3, <2>4, <3>2
        <2>5. CASE e \notin T
            BY <2>1, <2>2, <2>3, <2>5
        <2> QED
            BY <2>4, <2>5
    <1>3. P \in SUBSET Seq(S)
        OBVIOUS
    <1> HIDE DEF P
    <1>4. P = Seq(S)
        BY <1>1, <1>2, <1>3, SeqSetInduction
    <1> QED
        BY <1>4 DEF P

=============================================================================
