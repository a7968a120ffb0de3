---------------------------- MODULE LineTableProofs ----------------------------
(***************************************************************************)
(* The reader of a line program gives back the rows that were written, and   *)
(* the index and the match of paths resolve them both ways, for every        *)
(* encoding and every number of rows.                                       *)
(***************************************************************************)
EXTENDS LineTable, FiniteSetTheorems, SequenceTheorems, TLAPS

(***************************************************************************)
(* Finite sets.                                                             *)
(***************************************************************************)
\* A set of subsets of a finite set has a minimal member.
LEMMA MinimalSubset ==
  ASSUME NEW S, IsFiniteSet(S), NEW T \in SUBSET (SUBSET S), T # {}
  PROVE  \E M \in T : \A U \in T : U \subseteq M => U = M
<1>1. IsWellFoundedOn(StrictSubsetOrdering(S), SUBSET S)
  BY FS_StrictSubsetOrderingWellFounded, FS_FiniteSubsetsOfFinite, Zenon
<1>2. PICK M \in T : \A U \in T : <<U, M>> \notin StrictSubsetOrdering(S)
  BY <1>1, WFMin, Zenon
<1>3. ASSUME NEW U \in T, U \subseteq M, U # M PROVE FALSE
  <2>1. U \in SUBSET S /\ M \in SUBSET S
    OBVIOUS
  <2>2. <<U, M>> \in StrictSubsetOrdering(S)
    BY <1>3, <2>1 DEF StrictSubsetOrdering
  <2> QED
    BY <1>2, <1>3, <2>2
<1> QED
  BY <1>2, <1>3

\* Some member of a finite set has the least number.
LEMMA HasLeast ==
  ASSUME NEW S, IsFiniteSet(S), S # {}, NEW f, \A i \in S : f[i] \in Int
  PROVE  \E i \in S : \A j \in S : f[i] <= f[j]
<1> DEFINE T == {U \in SUBSET S : U # {} /\ ~\E i \in U : \A j \in U : f[i] <= f[j]}
<1> SUFFICES ASSUME S \in T PROVE FALSE
  OBVIOUS
<1>0. T \in SUBSET (SUBSET S) /\ T # {}
  OBVIOUS
<1> HIDE DEF T
<1>1. PICK M \in T : \A U \in T : U \subseteq M => U = M
  BY <1>0, MinimalSubset
<1> USE DEF T
<1>2. PICK x \in M : TRUE
  OBVIOUS
<1>3. CASE M \ {x} = {}
  BY <1>2, <1>3
<1>4. CASE M \ {x} # {}
  <2>1. M \ {x} \notin T
    BY <1>1, <1>2
  <2>2. PICK y \in M \ {x} : \A j \in M \ {x} : f[y] <= f[j]
    BY <1>4, <2>1
  <2>3. f[x] \in Int /\ f[y] \in Int /\ x \in M /\ y \in M /\ \A j \in M : f[j] \in Int
    BY <1>2, <2>2
  <2>4. CASE f[x] <= f[y]
    BY <2>2, <2>3, <2>4
  <2>5. CASE f[y] <= f[x]
    BY <2>2, <2>3, <2>5
  <2> QED
    BY <2>3, <2>4, <2>5
<1> QED
  BY <1>3, <1>4

LEMMA MinOfImage ==
  ASSUME NEW S, IsFiniteSet(S), S # {}, NEW f, \A i \in S : f[i] \in Int,
         NEW D, D = {f[i] : i \in S}
  PROVE  Min(D) \in D /\ \A y \in D : Min(D) <= y
<1>1. PICK i \in S : \A j \in S : f[i] <= f[j]
  BY HasLeast
<1>2. f[i] \in D /\ \A y \in D : f[i] <= y
  BY <1>1
<1> QED
  BY <1>2 DEF Min

LEMMA MaxOfImage ==
  ASSUME NEW S, IsFiniteSet(S), S # {}, NEW f, \A i \in S : f[i] \in Int,
         NEW D, D = {f[i] : i \in S}
  PROVE  Max(D) \in D /\ \A y \in D : Max(D) >= y
<1> DEFINE g == [i \in S |-> -f[i]]
<1>0. \A i \in S : g[i] \in Int /\ g[i] = -f[i]
  OBVIOUS
<1> HIDE DEF g
<1>1. PICK i \in S : \A j \in S : g[i] <= g[j]
  BY <1>0, HasLeast
<1>2. f[i] \in D /\ \A y \in D : f[i] >= y
  BY <1>0, <1>1
<1> QED
  BY <1>2 DEF Max

LEMMA MinOfSet ==
  ASSUME NEW S \in SUBSET Int, IsFiniteSet(S), S # {}
  PROVE  Min(S) \in S /\ \A y \in S : Min(S) <= y
<1> DEFINE f == [i \in S |-> i]
<1>1. S = {f[i] : i \in S} /\ \A i \in S : f[i] \in Int
  OBVIOUS
<1> HIDE DEF f
<1> QED
  BY <1>1, MinOfImage

LEMMA MaxOfSet ==
  ASSUME NEW S \in SUBSET Int, IsFiniteSet(S), S # {}
  PROVE  Max(S) \in S /\ \A y \in S : Max(S) >= y
<1> DEFINE f == [i \in S |-> i]
<1>1. S = {f[i] : i \in S} /\ \A i \in S : f[i] \in Int
  OBVIOUS
<1> HIDE DEF f
<1> QED
  BY <1>1, MaxOfImage

\* A set of naturals has a least member.
LEMMA LeastNat ==
  ASSUME NEW n \in Nat, NEW T \in SUBSET (0..n), T # {}
  PROVE  \E m \in T : \A k \in T : m <= k
<1>1. IsFiniteSet(T)
  <2>1. IsFiniteSet(0..n)
    BY FS_Interval
  <2> QED
    BY <2>1, FS_Subset, Zenon
<1>2. T \in SUBSET Int
  OBVIOUS
<1> QED
  BY <1>1, <1>2, MinOfSet

LEMMA MaxOfInterval ==
  ASSUME NEW n \in Nat
  PROVE  Max(1..n + 1) = n + 1 /\ (1..n + 1) \ {n + 1} = 1..n
<1>1. IsFiniteSet(1..n + 1) /\ 1..n + 1 \in SUBSET Int /\ n + 1 \in 1..n + 1
  BY FS_Interval
<1>2. Max(1..n + 1) \in 1..n + 1 /\ Max(1..n + 1) >= n + 1
  BY <1>1, MaxOfSet
<1>3. (1..n + 1) \ {n + 1} = 1..n
  OBVIOUS
<1> QED
  BY <1>2, <1>3
--------------------------------------------------------------------------------
(***************************************************************************)
(* The fold of a program.  FoldLeft is a function defined by recursion on the *)
(* subsets of the program's positions; that there is one, and that it reads  *)
(* a program instruction by instruction, is proved from minimal             *)
(* counterexamples.                                                         *)
(***************************************************************************)
Machine(rows, address, file, line, stmt) ==
    [rows |-> rows, address |-> address, file |-> file, line |-> line, stmt |-> stmt]
Fresh == Machine(<<>>, 0, 1, 1, TRUE)
Reader(p) == FoldLeft(Reads, [rows |-> <<>>, address |-> 0, file |-> 1, line |-> 1, stmt |-> TRUE], p)
\* g is the fold on the subsets of S.
FoldsOver(g, p, S) == g = [s \in SUBSET S |-> IF s = {} THEN Fresh ELSE Reads(g[s \ {Max(s)}], p[Max(s)])]
Read(p, S) == (CHOOSE g : FoldsOver(g, p, S))[S]

LEMMA ReaderIsTheFold ==
  ASSUME NEW p
  PROVE  Reader(p) = Read(p, DOMAIN p)
BY DEF Reader, Read, FoldLeft, MapThenFoldSet, FoldsOver, Fresh, Machine

\* The recursion that defines the fold has a solution on every finite set of
\* positions, and each solution is the fold on all subsets.
ReadsUpTo(p, S) ==
    /\ \E g : FoldsOver(g, p, S)
    /\ \A g : FoldsOver(g, p, S) => \A U \in SUBSET S : g[U] = Read(p, U)
LEMMA FoldsExist ==
  ASSUME NEW p, NEW S, IsFiniteSet(S), S \in SUBSET Int
  PROVE  ReadsUpTo(p, S)
<1> DEFINE T == {U \in SUBSET S : ~ReadsUpTo(p, U)}
<1> SUFFICES ASSUME T # {} PROVE FALSE
  OBVIOUS
<1>0. IsFiniteSet(S) /\ T \in SUBSET (SUBSET S) /\ T # {}
  OBVIOUS
<1> HIDE DEF T
<1>1. PICK M \in T : \A U \in T : U \subseteq M => U = M
  BY ONLY <1>0, MinimalSubset
<1> USE DEF T
<1>2. ASSUME NEW U \in SUBSET M, U # M PROVE ReadsUpTo(p, U)
  BY <1>1, <1>2
<1>a. M \in SUBSET S
  BY <1>1
<1> HIDE DEF T
<1>3. ASSUME NEW s \in SUBSET M, s # {}
      PROVE  Max(s) \in s /\ s \ {Max(s)} \in SUBSET M /\ s \ {Max(s)} # M
             /\ s \ {Max(s)} \in SUBSET s
  <2>1. s \in SUBSET Int /\ IsFiniteSet(s)
    BY <1>a, FS_Subset
  <2> QED
    BY <1>3, <2>1, MaxOfSet
\* On proper subsets the fold satisfies the recursion.
<1>4. ASSUME NEW s \in SUBSET M, s # M
      PROVE  Read(p, s) = IF s = {} THEN Fresh ELSE Reads(Read(p, s \ {Max(s)}), p[Max(s)])
  <2>1. ReadsUpTo(p, s)
    BY <1>2, <1>4
  <2>2. PICK g : FoldsOver(g, p, s)
    BY <2>1 DEF ReadsUpTo
  <2>3. \A U \in SUBSET s : g[U] = Read(p, U)
    BY <2>1, <2>2 DEF ReadsUpTo
  <2>4. g[s] = IF s = {} THEN Fresh ELSE Reads(g[s \ {Max(s)}], p[Max(s)])
    BY <2>2 DEF FoldsOver
  <2>5. s \ {Max(s)} \in SUBSET s
    OBVIOUS
  <2> QED
    BY <2>3, <2>4, <2>5
<1> DEFINE h == [s \in SUBSET M |-> IF s = {} THEN Fresh ELSE Reads(Read(p, s \ {Max(s)}), p[Max(s)])]
<1>5. \A s \in SUBSET M : s # {} => h[s \ {Max(s)}] = Read(p, s \ {Max(s)})
  BY <1>3, <1>4
<1>6. FoldsOver(h, p, M)
  <2>1. \A s \in SUBSET M : (IF s = {} THEN Fresh ELSE Reads(Read(p, s \ {Max(s)}), p[Max(s)]))
                           = (IF s = {} THEN Fresh ELSE Reads(h[s \ {Max(s)}], p[Max(s)]))
    BY <1>5
  <2> HIDE DEF h
  <2>2. h = [s \in SUBSET M |-> IF s = {} THEN Fresh ELSE Reads(h[s \ {Max(s)}], p[Max(s)])]
    BY <2>1 DEF h
  <2> QED
    BY <2>2 DEF FoldsOver
<1> HIDE DEF h
\* A solution on M is the fold on proper subsets: a minimal exception has none below it.
<1>7. ASSUME NEW g, FoldsOver(g, p, M), NEW U \in SUBSET M, U # M
      PROVE  g[U] = Read(p, U)
  <2> DEFINE X == {V \in SUBSET U : g[V] # Read(p, V)}
  <2> SUFFICES ASSUME X # {} PROVE FALSE
    OBVIOUS
  <2>1. IsFiniteSet(U)
    BY FS_Subset, <1>a
  <2>0. X \in SUBSET (SUBSET U)
    OBVIOUS
  <2> HIDE DEF X
  <2>2. PICK V \in X : \A W \in X : W \subseteq V => W = V
    BY <2>0, <2>1, MinimalSubset
  <2> USE DEF X
  <2>3. V \in SUBSET M /\ V # M /\ V \in SUBSET U /\ g[V] # Read(p, V)
    BY <1>7
  <2>4. g[V] = IF V = {} THEN Fresh ELSE Reads(g[V \ {Max(V)}], p[Max(V)])
    BY <1>7, <2>3 DEF FoldsOver
  <2>5. Read(p, V) = IF V = {} THEN Fresh ELSE Reads(Read(p, V \ {Max(V)}), p[Max(V)])
    BY <1>4, <2>3
  <2>6. CASE V # {}
    <3>1. V \ {Max(V)} \in SUBSET U /\ V \ {Max(V)} \subseteq V /\ V \ {Max(V)} # V
      BY <1>3, <2>3, <2>6
    <3>2. g[V \ {Max(V)}] = Read(p, V \ {Max(V)})
      BY <2>2, <3>1
    <3> QED
      BY <2>3, <2>4, <2>5, <2>6, <3>2
  <2> QED
    BY <2>3, <2>4, <2>5, <2>6
<1>8. Read(p, M) = IF M = {} THEN Fresh ELSE Reads(Read(p, M \ {Max(M)}), p[Max(M)])
  <2> DEFINE f == CHOOSE g : FoldsOver(g, p, M)
  <2>1. FoldsOver(f, p, M)
    BY <1>6
  <2>2. Read(p, M) = f[M]
    BY DEF Read
  <2> HIDE DEF f
  <2>3. f[M] = IF M = {} THEN Fresh ELSE Reads(f[M \ {Max(M)}], p[Max(M)])
    BY <2>1 DEF FoldsOver
  <2>4. M # {} => f[M \ {Max(M)}] = Read(p, M \ {Max(M)})
    BY <1>3, <1>7, <2>1
  <2> QED
    BY <2>2, <2>3, <2>4
<1>9. ASSUME NEW g, FoldsOver(g, p, M) PROVE g[M] = Read(p, M)
  <2>1. g[M] = IF M = {} THEN Fresh ELSE Reads(g[M \ {Max(M)}], p[Max(M)])
    BY <1>9 DEF FoldsOver
  <2>2. M # {} => g[M \ {Max(M)}] = Read(p, M \ {Max(M)})
    BY <1>3, <1>7, <1>9
  <2> QED
    BY <1>8, <2>1, <2>2
<1>10. ReadsUpTo(p, M)
  BY <1>6, <1>7, <1>9 DEF ReadsUpTo
<1> QED
  BY <1>1, <1>10 DEF T

\* The empty program leaves the reader as it begins; n + 1 instructions are n, and one more.
LEMMA ReadUnfolds ==
  ASSUME NEW p
  PROVE  /\ Read(p, 1..0) = Fresh
         /\ \A n \in Nat : Read(p, 1..n + 1) = Reads(Read(p, 1..n), p[n + 1])
<1>1. ASSUME NEW S \in SUBSET Int, IsFiniteSet(S)
      PROVE  Read(p, S) = IF S = {} THEN Fresh ELSE Reads(Read(p, S \ {Max(S)}), p[Max(S)])
  <2>1. PICK g : FoldsOver(g, p, S) /\ \A U \in SUBSET S : g[U] = Read(p, U)
    BY <1>1, FoldsExist DEF ReadsUpTo
  <2>2. g[S] = IF S = {} THEN Fresh ELSE Reads(g[S \ {Max(S)}], p[Max(S)])
    BY <2>1 DEF FoldsOver
  <2>3. S \ {Max(S)} \in SUBSET S
    OBVIOUS
  <2> QED
    BY <2>1, <2>2, <2>3
<1>2. \A n \in Nat : IsFiniteSet(1..n) /\ 1..n \in SUBSET Int
  BY FS_Interval
<1>3. 1..0 = {}
  OBVIOUS
<1>4. Read(p, 1..0) = Fresh
  BY <1>1, <1>2, <1>3
<1>5. ASSUME NEW n \in Nat PROVE Read(p, 1..n + 1) = Reads(Read(p, 1..n), p[n + 1])
  <2>1. 1..n + 1 # {} /\ n + 1 \in Nat
    OBVIOUS
  <2>2. IsFiniteSet(1..n + 1) /\ 1..n + 1 \in SUBSET Int
    BY <1>2, <2>1
  <2> QED
    BY <1>1, <2>1, <2>2, MaxOfInterval
<1> QED
  BY <1>4, <1>5

\* What is read depends on the instructions read.
LEMMA ReadsTheSame ==
  ASSUME NEW p, NEW q, NEW n \in Nat, \A i \in 1..n : p[i] = q[i]
  PROVE  Read(p, 1..n) = Read(q, 1..n)
<1> DEFINE T == {m \in 0..n : Read(p, 1..m) # Read(q, 1..m)}
<1> SUFFICES ASSUME T # {} PROVE FALSE
  OBVIOUS
<1> HIDE DEF T
<1>1. PICK m \in T : \A k \in T : m <= k
  BY LeastNat DEF T
<1>2. m \in 0..n /\ Read(p, 1..m) # Read(q, 1..m)
  BY DEF T
<1>3. CASE m = 0
  BY <1>2, <1>3, ReadUnfolds
<1>4. CASE m # 0
  <2>1. m - 1 \in Nat /\ m - 1 \in 0..n /\ (m - 1) + 1 = m /\ ~(m <= m - 1)
    BY <1>2, <1>4
  <2>2. Read(p, 1..(m - 1)) = Read(q, 1..(m - 1))
    BY <1>1, <2>1 DEF T
  <2>3. Read(p, 1..m) = Reads(Read(p, 1..(m - 1)), p[m])
    BY <2>1, ReadUnfolds
  <2>4. Read(q, 1..m) = Reads(Read(q, 1..(m - 1)), q[m])
    BY <2>1, ReadUnfolds
  <2>5. p[m] = q[m]
    BY <1>2, <2>1
  <2> QED
    BY <1>2, <2>2, <2>3, <2>4, <2>5
<1> QED
  BY <1>3, <1>4

Names ==
    {"special", "copy", "advance_pc", "advance_line", "set_file", "negate_stmt", "const_add_pc", "set_address",
     "end_sequence"}
Operations == [op : Names, arg : Int]
LEMMA ReadsOneMore ==
  ASSUME NEW p \in Seq(Operations), NEW o \in Operations
  PROVE  p \o <<o>> \in Seq(Operations) /\ Reader(p \o <<o>>) = Reads(Reader(p), o)
<1> DEFINE q == p \o <<o>>
           n == Len(p)
<1>1. n \in Nat /\ DOMAIN p = 1..n
  BY LenProperties
<1>2. q \in Seq(Operations) /\ DOMAIN q = 1..n + 1 /\ q[n + 1] = o /\ \A i \in 1..n : q[i] = p[i]
  <2>1. <<o>> \in Seq(Operations) /\ Len(<<o>>) = 1 /\ <<o>>[1] = o
    OBVIOUS
  <2>2. q \in Seq(Operations) /\ Len(q) = n + 1 /\ \A i \in 1..n + 1 : q[i] = IF i <= n THEN p[i] ELSE <<o>>[i - n]
    BY <2>1, ConcatProperties, Zenon
  <2>3. DOMAIN q = 1..n + 1
    BY <2>2, LenProperties
  <2>4. q[n + 1] = <<o>>[1] /\ \A i \in 1..n : q[i] = p[i]
    BY <1>1, <2>2
  <2> QED
    BY <2>1, <2>2, <2>3, <2>4
<1> HIDE DEF q, n
<1>3. Reader(q) = Read(q, 1..n + 1) /\ Reader(p) = Read(p, 1..n)
  BY <1>1, <1>2, ReaderIsTheFold
<1>4. Read(q, 1..n) = Read(p, 1..n)
  BY <1>1, <1>2, ReadsTheSame
<1> QED
  BY <1>1, <1>2, <1>3, <1>4, ReadUnfolds DEF q
--------------------------------------------------------------------------------
(***************************************************************************)
(* The concatenation of the rows' instructions.  FlattenSeq is a recursive   *)
(* function too.                                                            *)
(***************************************************************************)
\* g is the concatenation of the first sequences of ss, up to n of them.
Joins(g, ss, n) == g = [i \in 1..n |-> IF i = 1 THEN ss[i] ELSE g[i - 1] \o ss[i]]

LEMMA FlattenIsTheJoin ==
  ASSUME NEW ss
  PROVE  FlattenSeq(ss) = IF Len(ss) = 0 THEN ss ELSE (CHOOSE g : Joins(g, ss, Len(ss)))[Len(ss)]
BY DEF FlattenSeq, Joins

LEMMA JoinsExist ==
  ASSUME NEW ss, NEW n \in Nat
  PROVE  \E g : Joins(g, ss, n)
<1> DEFINE T == {m \in 0..n : ~\E g : Joins(g, ss, m)}
<1> SUFFICES ASSUME T # {} PROVE FALSE
  OBVIOUS
<1>0. T \in SUBSET (0..n)
  OBVIOUS
<1> HIDE DEF T
<1>1. PICK m \in T : \A k \in T : m <= k
  BY <1>0, LeastNat
<1>2. m \in 0..n /\ ~\E g : Joins(g, ss, m)
  BY DEF T
<1>3. CASE m = 0
  <2> DEFINE h == [i \in 1..0 |-> <<>>]
  <2>1. h = [i \in 1..0 |-> IF i = 1 THEN ss[i] ELSE h[i - 1] \o ss[i]]
    OBVIOUS
  <2> HIDE DEF h
  <2> QED
    BY <1>2, <1>3, <2>1 DEF Joins
<1>4. CASE m # 0
  <2>1. m \in Nat /\ m - 1 \in Nat /\ m - 1 \in 0..n /\ ~(m <= m - 1)
    BY <1>2, <1>4
  <2>2. PICK g : Joins(g, ss, m - 1)
    BY <1>1, <2>1 DEF T
  <2> DEFINE h == [i \in 1..m |-> IF i = 1 THEN ss[i] ELSE g[i - 1] \o ss[i]]
  <2>3. \A i \in 1..(m - 1) : i \in 1..m /\ h[i] = g[i]
    <3>1. \A i \in 1..(m - 1) : g[i] = IF i = 1 THEN ss[i] ELSE g[i - 1] \o ss[i]
      BY <2>2 DEF Joins
    <3>2. \A i \in 1..(m - 1) : i \in 1..m
      BY <2>1
    <3> QED
      BY <3>1, <3>2
  <2>4. \A i \in 1..m : i # 1 => i - 1 \in 1..(m - 1)
    BY <2>1
  <2>5. \A i \in 1..m : (IF i = 1 THEN ss[i] ELSE g[i - 1] \o ss[i]) = (IF i = 1 THEN ss[i] ELSE h[i - 1] \o ss[i])
    BY <2>3, <2>4
  <2> HIDE DEF h
  <2>6. h = [i \in 1..m |-> IF i = 1 THEN ss[i] ELSE h[i - 1] \o ss[i]]
    BY <2>5 DEF h
  <2> QED
    BY <1>2, <2>6 DEF Joins
<1> QED
  BY <1>3, <1>4

\* What is joined depends on the sequences joined.
Agree(ss, tt, n) == \A i \in 1..n : ss[i] = tt[i]
LEMMA JoinsTheSame ==
  ASSUME NEW ss, NEW tt, NEW n \in Nat, NEW m \in Nat, n <= m, Agree(ss, tt, n),
         NEW g, Joins(g, ss, n), NEW h, Joins(h, tt, m)
  PROVE  Agree(g, h, n)
<1> SUFFICES ASSUME NEW k \in 1..n PROVE g[k] = h[k]
  BY DEF Agree
<1> DEFINE T == {i \in 0..n : i # 0 /\ g[i] # h[i]}
<1> SUFFICES ASSUME T # {} PROVE FALSE
  OBVIOUS
<1>0. T \in SUBSET (0..n)
  OBVIOUS
<1> HIDE DEF T
<1>1. PICK i \in T : \A j \in T : i <= j
  BY <1>0, LeastNat
<1>2. i \in 1..n /\ i \in 1..m /\ g[i] # h[i] /\ ss[i] = tt[i]
  BY DEF T, Agree
<1>3. /\ g[i] = IF i = 1 THEN ss[i] ELSE g[i - 1] \o ss[i]
      /\ h[i] = IF i = 1 THEN tt[i] ELSE h[i - 1] \o tt[i]
  BY <1>2 DEF Joins
<1>4. CASE i # 1
  <2>1. i - 1 \in 0..n /\ i - 1 # 0 /\ ~(i <= i - 1)
    BY <1>2, <1>4
  <2>2. g[i - 1] = h[i - 1]
    BY <1>1, <2>1 DEF T
  <2> QED
    BY <1>2, <1>3, <2>2
<1> QED
  BY <1>2, <1>3, <1>4

LEMMA FlattensOneMore ==
  ASSUME NEW ss \in Seq(Seq(Operations)), NEW t \in Seq(Operations), FlattenSeq(ss) \in Seq(Operations)
  PROVE  FlattenSeq(Append(ss, t)) = FlattenSeq(ss) \o t
<1> DEFINE tt == Append(ss, t)
           n == Len(ss)
<1>1. n \in Nat /\ Len(tt) = n + 1 /\ tt[n + 1] = t /\ \A i \in 1..n : ss[i] = tt[i]
  <2>1. /\ Len(tt) = n + 1
        /\ \A i \in 1..n : tt[i] = ss[i]
        /\ tt[n + 1] = t
    BY AppendProperties
  <2>2. n \in Nat
    BY LenProperties
  <2> QED
    BY <2>1, <2>2
<1>2. n = 0 => FlattenSeq(ss) = <<>>
  BY FlattenIsTheJoin
<1> DEFINE h == CHOOSE g : Joins(g, tt, n + 1)
           f == CHOOSE g : Joins(g, ss, n)
<1> HIDE DEF tt, n
<1>3. Joins(h, tt, n + 1)
  <2>1. n + 1 \in Nat
    BY <1>1
  <2>2. \E g : Joins(g, tt, n + 1)
    BY <2>1, JoinsExist
  <2> QED
    BY <2>2
<1>4. Joins(f, ss, n)
  BY <1>1, JoinsExist
<1>5. FlattenSeq(tt) = h[n + 1] /\ (n # 0 => FlattenSeq(ss) = f[n])
  <2>1. n + 1 # 0
    BY <1>1
  <2> QED
    BY <1>1, <2>1, FlattenIsTheJoin DEF n
<1> HIDE DEF h, f
<1>6. h[n + 1] = IF n + 1 = 1 THEN t ELSE h[n] \o t
  <2>1. n + 1 \in 1..n + 1 /\ (n + 1) - 1 = n
    BY <1>1
  <2>2. h[n + 1] = IF n + 1 = 1 THEN tt[n + 1] ELSE h[(n + 1) - 1] \o tt[n + 1]
    BY <1>3, <2>1 DEF Joins
  <2> QED
    BY <1>1, <2>1, <2>2
<1>7. CASE n = 0
  <2>1. FlattenSeq(tt) = t
    BY <1>5, <1>6, <1>7
  <2> QED
    BY <1>2, <1>7, <2>1, ConcatEmptySeq DEF tt
<1>8. CASE n # 0
  <2>1. n \in 1..n /\ n + 1 \in Nat /\ n <= n + 1 /\ n + 1 # 1
    BY <1>1, <1>8
  <2>2. Agree(f, h, n)
    <3>1. n \in Nat /\ n + 1 \in Nat /\ n <= n + 1 /\ Agree(ss, tt, n)
      BY <1>1 DEF Agree
    <3> QED
      BY <1>3, <1>4, <3>1, JoinsTheSame, Zenon
  <2>3. f[n] = h[n]
    BY <2>1, <2>2 DEF Agree
  <2> QED
    BY <1>5, <1>6, <1>8, <2>1, <2>3 DEF tt
<1> QED
  BY <1>7, <1>8
--------------------------------------------------------------------------------
(***************************************************************************)
(* One row: its instructions bring the reader from the place of the row      *)
(* before to its own, and make it emit the row.                             *)
(***************************************************************************)
SourceRows == [address : Nat, file : Files, line : Int, stmt : BOOLEAN, last : BOOLEAN]
RowAt(address, file, line, stmt) == [address |-> address, file |-> file, line |-> line, stmt |-> stmt]
WrittenOf(rows) == [i \in DOMAIN rows |-> RowAt(rows[i].address, rows[i].file, rows[i].line, rows[i].stmt)]

\* The reader between two sequences.
Reset(w) == Machine(w, 0, 1, 1, TRUE)

\* What each instruction does to the reader.
LEMMA ReadsSpecial ==
  ASSUME NEW w, NEW a, NEW f, NEW l, NEW t, NEW x, NEW d, NEW e,
         d = a + (x - OpcodeBase) \div LineRange, e = l + LineBase + ((x - OpcodeBase) % LineRange)
  PROVE  Reads(Machine(w, a, f, l, t), Op("special", x)) = Machine(Append(w, RowAt(d, f, e, t)), d, f, e, t)
BY DEF Reads, Op, Machine, RowAt, Emits, Special

LEMMA ReadsCopy ==
  ASSUME NEW w, NEW a, NEW f, NEW l, NEW t
  PROVE  Reads(Machine(w, a, f, l, t), Op("copy", 0)) = Machine(Append(w, RowAt(a, f, l, t)), a, f, l, t)
BY DEF Reads, Op, Machine, RowAt, Emits, Special

LEMMA ReadsAdvancePc ==
  ASSUME NEW w, NEW a, NEW f, NEW l, NEW t, NEW x, NEW d, d = a + x
  PROVE  Reads(Machine(w, a, f, l, t), Op("advance_pc", x)) = Machine(w, d, f, l, t)
BY DEF Reads, Op, Machine, RowAt, Emits, Special

LEMMA ReadsAdvanceLine ==
  ASSUME NEW w, NEW a, NEW f, NEW l, NEW t, NEW x, NEW e, e = l + x
  PROVE  Reads(Machine(w, a, f, l, t), Op("advance_line", x)) = Machine(w, a, f, e, t)
BY DEF Reads, Op, Machine, RowAt, Emits, Special

LEMMA ReadsSetFile ==
  ASSUME NEW w, NEW a, NEW f, NEW l, NEW t, NEW x
  PROVE  Reads(Machine(w, a, f, l, t), Op("set_file", x)) = Machine(w, a, x, l, t)
BY DEF Reads, Op, Machine, RowAt, Emits, Special

LEMMA ReadsNegate ==
  ASSUME NEW w, NEW a, NEW f, NEW l, NEW t
  PROVE  Reads(Machine(w, a, f, l, t), Op("negate_stmt", 0)) = Machine(w, a, f, l, ~t)
BY DEF Reads, Op, Machine, RowAt, Emits, Special

LEMMA ReadsConstAdd ==
  ASSUME NEW w, NEW a, NEW f, NEW l, NEW t
  PROVE  Reads(Machine(w, a, f, l, t), Op("const_add_pc", 0)) = Machine(w, a + ConstAdd, f, l, t)
BY DEF Reads, Op, Machine, RowAt, Emits, Special

LEMMA ReadsSetAddress ==
  ASSUME NEW w, NEW a, NEW f, NEW l, NEW t, NEW x
  PROVE  Reads(Machine(w, a, f, l, t), Op("set_address", x)) = Machine(w, x, f, l, t)
BY DEF Reads, Op, Machine, RowAt, Emits, Special

LEMMA ReadsEnd ==
  ASSUME NEW w, NEW a, NEW f, NEW l, NEW t
  PROVE  Reads(Machine(w, a, f, l, t), Op("end_sequence", 0)) = Reset(Append(w, RowAt(a, f, l, t)))
BY DEF Reset, Reads, Op, Machine, RowAt, Emits, Special

LEMMA ReadsAnOption ==
  ASSUME NEW p \in Seq(Operations), NEW o \in Operations, NEW c \in BOOLEAN
  PROVE  LET q == p \o (IF c THEN <<o>> ELSE <<>>)
         IN  q \in Seq(Operations) /\ Reader(q) = IF c THEN Reads(Reader(p), o) ELSE Reader(p)
<1>1. CASE c
  BY <1>1, ReadsOneMore
<1>2. CASE ~c
  BY <1>2, ConcatEmptySeq
<1> QED
  BY <1>1, <1>2

LEMMA Pairs ==
  ASSUME NEW S, NEW a \in S, NEW b \in S
  PROVE  <<a>> \in Seq(S) /\ <<b>> \in Seq(S) /\ <<a, b>> \in Seq(S) /\ <<a>> \o <<b>> = <<a, b>>
<1>1. <<a>> \in Seq(S) /\ <<b>> \in Seq(S) /\ <<a, b>> \in Seq(S)
  OBVIOUS
<1> DEFINE s == <<a>>
           t == <<b>>
           u == <<a, b>>
<1>2. /\ s \in Seq(S) /\ Len(s) = 1 /\ s[1] = a /\ t \in Seq(S) /\ Len(t) = 1 /\ t[1] = b
      /\ u \in Seq(S) /\ Len(u) = 2 /\ u[1] = a /\ u[2] = b
  BY <1>1
<1> HIDE DEF s, t, u
<1>3. s \o t \in Seq(S) /\ Len(s \o t) = 2 /\ (s \o t)[1] = a /\ (s \o t)[2] = b
  BY <1>2, ConcatProperties
<1>4. \A i \in 1..2 : (s \o t)[i] = u[i]
  BY <1>2, <1>3
<1>5. s \o t = u
  BY <1>2, <1>3, <1>4, SeqEqual
<1> QED
  BY <1>1, <1>5 DEF s, t, u

LEMMA Triples ==
  ASSUME NEW S, NEW a \in S, NEW b \in S, NEW c \in S
  PROVE  <<a, b, c>> \in Seq(S) /\ <<a, b>> \o <<c>> = <<a, b, c>>
<1>1. <<a, b>> \in Seq(S) /\ <<a, b, c>> \in Seq(S)
  OBVIOUS
<1> DEFINE s == <<a, b>>
           t == <<c>>
           u == <<a, b, c>>
<1>2. /\ s \in Seq(S) /\ Len(s) = 2 /\ s[1] = a /\ s[2] = b /\ t \in Seq(S) /\ Len(t) = 1 /\ t[1] = c
      /\ u \in Seq(S) /\ Len(u) = 3 /\ u[1] = a /\ u[2] = b /\ u[3] = c
  BY <1>1
<1> HIDE DEF s, t, u
<1>3. s \o t \in Seq(S) /\ Len(s \o t) = 3 /\ (s \o t)[1] = a /\ (s \o t)[2] = b /\ (s \o t)[3] = c
  <2>1. s \o t \in Seq(S) /\ Len(s \o t) = 3 /\ \A i \in 1..3 : (s \o t)[i] = IF i <= 2 THEN s[i] ELSE t[i - 2]
    <3>1. /\ s \o t \in Seq(S) /\ Len(s \o t) = Len(s) + Len(t)
          /\ \A i \in 1..Len(s) + Len(t) : (s \o t)[i] = IF i <= Len(s) THEN s[i] ELSE t[i - Len(s)]
      BY <1>2, ConcatProperties, Zenon
    <3> QED
      BY <1>2, <3>1
  <2> QED
    BY <1>2, <2>1
<1>4. \A i \in 1..3 : (s \o t)[i] = u[i]
  BY <1>2, <1>3
<1>5. s \o t = u
  BY <1>2, <1>3, <1>4, SeqEqual
<1> QED
  BY <1>1, <1>5 DEF s, t, u

LEMMA ReadsTwo ==
  ASSUME NEW p \in Seq(Operations), NEW a \in Operations, NEW b \in Operations
  PROVE  p \o <<a, b>> \in Seq(Operations) /\ Reader(p \o <<a, b>>) = Reads(Reads(Reader(p), a), b)
<1>1. <<a>> \in Seq(Operations) /\ <<b>> \in Seq(Operations) /\ <<a>> \o <<b>> = <<a, b>>
  BY Pairs
<1>2. (p \o <<a>>) \o <<b>> = p \o <<a, b>>
  <2> DEFINE s == <<a>>
             t == <<b>>
  <2>0. s \in Seq(Operations) /\ t \in Seq(Operations)
    BY <1>1
  <2> HIDE DEF s, t
  <2>1. (p \o s) \o t = p \o (s \o t)
    BY <2>0, ConcatAssociative
  <2> QED
    BY <1>1, <2>1 DEF s, t
<1>3. p \o <<a>> \in Seq(Operations) /\ Reader(p \o <<a>>) = Reads(Reader(p), a)
  BY ReadsOneMore
<1>4. /\ (p \o <<a>>) \o <<b>> \in Seq(Operations)
      /\ Reader((p \o <<a>>) \o <<b>>) = Reads(Reader(p \o <<a>>), b)
  BY <1>3, ReadsOneMore
<1> QED
  BY <1>2, <1>3, <1>4

LEMMA ReadsThree ==
  ASSUME NEW p \in Seq(Operations), NEW a \in Operations, NEW b \in Operations, NEW c \in Operations
  PROVE  /\ p \o <<a, b, c>> \in Seq(Operations)
         /\ Reader(p \o <<a, b, c>>) = Reads(Reads(Reads(Reader(p), a), b), c)
<1>1. <<a, b>> \in Seq(Operations) /\ <<c>> \in Seq(Operations) /\ <<a, b>> \o <<c>> = <<a, b, c>>
  BY Pairs, Triples
<1>2. (p \o <<a, b>>) \o <<c>> = p \o <<a, b, c>>
  <2> DEFINE s == <<a, b>>
             t == <<c>>
  <2>0. s \in Seq(Operations) /\ t \in Seq(Operations)
    BY <1>1
  <2> HIDE DEF s, t
  <2>1. (p \o s) \o t = p \o (s \o t)
    BY <2>0, ConcatAssociative
  <2> QED
    BY <1>1, <2>1 DEF s, t
<1>3. p \o <<a, b>> \in Seq(Operations) /\ Reader(p \o <<a, b>>) = Reads(Reads(Reader(p), a), b)
  BY ReadsTwo
<1>4. /\ (p \o <<a, b>>) \o <<c>> \in Seq(Operations)
      /\ Reader((p \o <<a, b>>) \o <<c>>) = Reads(Reader(p \o <<a, b>>), c)
  BY <1>3, ReadsOneMore
<1> QED
  BY <1>2, <1>3, <1>4

\* Quotient and remainder of an opcode are what it was made of.
LEMMA Division ==
  ASSUME NEW R \in Nat \ {0}, NEW d \in Nat, NEW e \in 0..R - 1
  PROVE  (e + R * d) \div R = d /\ (e + R * d) % R = e
<1> DEFINE n == e + R * d
           q == n \div R
<1>1. R * d \in Nat /\ n \in Nat
  OBVIOUS
<1>2. q \in Nat /\ R * q <= n /\ n < R * (q + 1)
  BY <1>1
<1>3. ASSUME NEW x \in Nat, NEW y \in Nat, x < y PROVE R * x + R <= R * y
  <2>1. PICK k \in Nat : y = (x + 1) + k
    <3>1. y - (x + 1) \in Nat /\ y = (x + 1) + (y - (x + 1))
      BY <1>3
    <3> QED
      BY <3>1
  <2>2. R * y = R * (x + 1) + R * k
    BY <2>1
  <2>3. R * (x + 1) = R * x + R
    OBVIOUS
  <2>4. R * k \in Nat /\ R * x \in Nat /\ R * y \in Nat
    OBVIOUS
  <2> QED
    BY <2>2, <2>3, <2>4
<1> HIDE DEF q
<1>4. ~(q < d)
  <2> SUFFICES ASSUME q < d PROVE FALSE
    OBVIOUS
  <2>1. R * q + R <= R * d
    BY <1>2, <1>3
  <2>2. R * (q + 1) = R * q + R /\ R * q \in Nat
    BY <1>2
  <2> QED
    BY <1>1, <1>2, <2>1, <2>2
<1>5. ~(d < q)
  <2> SUFFICES ASSUME d < q PROVE FALSE
    OBVIOUS
  <2>1. R * d + R <= R * q
    BY <1>2, <1>3
  <2>2. R * q \in Nat
    BY <1>2
  <2> QED
    BY <1>1, <1>2, <2>1, <2>2
<1>6. q = d
  BY <1>2, <1>4, <1>5
<1>7. n % R = n - R * q
  BY <1>1 DEF q
<1> QED
  BY <1>1, <1>6, <1>7 DEF q

LEMMA SpecialIsRead ==
  ASSUME NEW da \in Int, NEW dl \in Int, Fits(da, dl)
  PROVE  /\ SpecialFor(da, dl) \in Int
         /\ (SpecialFor(da, dl) - OpcodeBase) \div LineRange = da
         /\ LineBase + ((SpecialFor(da, dl) - OpcodeBase) % LineRange) = dl
<1>1. LineRange \in Nat \ {0} /\ LineBase \in Int /\ OpcodeBase \in Int
  BY LineTableAssumption
<1>2. da \in Nat /\ dl - LineBase \in 0..LineRange - 1
  BY <1>1 DEF Fits
<1> DEFINE e == dl - LineBase
<1>3. e \in Int /\ LineRange * da \in Int /\ LineBase + e = dl
  BY <1>1
<1>4. (e + LineRange * da) \div LineRange = da /\ (e + LineRange * da) % LineRange = e
  BY <1>1, <1>2, Division
<1>5. SpecialFor(da, dl) = e + LineRange * da + OpcodeBase
  BY DEF SpecialFor
<1> HIDE DEF e
<1>6. SpecialFor(da, dl) \in Int /\ SpecialFor(da, dl) - OpcodeBase = e + LineRange * da
  BY <1>1, <1>3, <1>5
<1> QED
  BY <1>3, <1>4, <1>6

\* How a row ends, once file and statement flag are right.
Ends(da, dl, last) ==
    CASE last -> <<Op("advance_pc", da), Op("advance_line", dl), Op("end_sequence", 0)>>
      [] ~last /\ Fits(da, dl) -> <<Op("special", SpecialFor(da, dl))>>
      [] ~last /\ ~Fits(da, dl) /\ Fits(da - ConstAdd, dl) ->
            <<Op("const_add_pc", 0), Op("special", SpecialFor(da - ConstAdd, dl))>>
      [] OTHER -> <<Op("advance_pc", da), Op("advance_line", dl), Op("copy", 0)>>

LEMMA EndsAreRead ==
  ASSUME NEW p \in Seq(Operations), NEW w, NEW a \in Int, NEW f, NEW l \in Int, NEW t,
         Reader(p) = Machine(w, a, f, l, t), NEW d \in Int, NEW e \in Int, NEW last \in BOOLEAN
  PROVE  LET q == p \o Ends(d - a, e - l, last)
             v == Append(w, RowAt(d, f, e, t))
         IN  /\ q \in Seq(Operations)
             /\ Reader(q) = IF last THEN Reset(v) ELSE Machine(v, d, f, e, t)
<1> DEFINE da == d - a
           dl == e - l
           q == p \o Ends(da, dl, last)
           v == Append(w, RowAt(d, f, e, t))
<1>1. da \in Int /\ dl \in Int /\ a + da = d /\ l + dl = e
  OBVIOUS
<1>2. /\ LineBase \in Int /\ OpcodeBase \in Int /\ LineRange \in Nat \ {0}
      /\ 255 - OpcodeBase \in Nat /\ ConstAdd \in Int
  <2>1. LineBase \in Int /\ OpcodeBase \in Int /\ LineRange \in Nat \ {0} /\ 255 - OpcodeBase \in Nat
    BY LineTableAssumption
  <2> QED
    BY <2>1 DEF ConstAdd
<1>3. Op("advance_pc", da) \in Operations /\ Op("advance_line", dl) \in Operations
  BY <1>1 DEF Op, Operations, Names
<1>4. Op("end_sequence", 0) \in Operations /\ Op("copy", 0) \in Operations /\ Op("const_add_pc", 0) \in Operations
  BY DEF Op, Operations, Names
<1> DEFINE m == Machine(w, a, f, l, t)
<1>5. /\ Reads(m, Op("advance_pc", da)) = Machine(w, d, f, l, t)
      /\ Reads(Machine(w, d, f, l, t), Op("advance_line", dl)) = Machine(w, d, f, e, t)
  <2>1. d = a + da /\ e = l + dl
    BY <1>1
  <2> HIDE DEF da, dl
  <2> QED
    BY <2>1, ReadsAdvancePc, ReadsAdvanceLine
<1>6. /\ Reads(Machine(w, d, f, e, t), Op("end_sequence", 0)) = Reset(v)
      /\ Reads(Machine(w, d, f, e, t), Op("copy", 0)) = Machine(v, d, f, e, t)
  <2>1. Reads(Machine(w, d, f, e, t), Op("end_sequence", 0)) = Reset(v)
    BY ReadsEnd
  <2>2. Reads(Machine(w, d, f, e, t), Op("copy", 0)) = Machine(v, d, f, e, t)
    BY ReadsCopy
  <2> QED
    BY <2>1, <2>2
<1>7. ASSUME NEW from \in Int, NEW step \in Int, from + step = d, Fits(step, dl)
      PROVE  /\ Op("special", SpecialFor(step, dl)) \in Operations
             /\ Reads(Machine(w, from, f, l, t), Op("special", SpecialFor(step, dl))) = Machine(v, d, f, e, t)
  <2> DEFINE x == SpecialFor(step, dl)
  <2>1. x \in Int /\ (x - OpcodeBase) \div LineRange = step /\ LineBase + ((x - OpcodeBase) % LineRange) = dl
    BY <1>1, <1>7, SpecialIsRead
  <2> HIDE DEF x
  <2>2. from + (x - OpcodeBase) \div LineRange = d
    BY <1>7, <2>1
  <2>3. (x - OpcodeBase) % LineRange \in Int
    BY <1>2, <2>1
  <2>4. l + LineBase + ((x - OpcodeBase) % LineRange) = e
    BY <1>1, <1>2, <2>1, <2>3
  <2>5. Reads(Machine(w, from, f, l, t), Op("special", x)) = Machine(v, d, f, e, t)
    BY <2>2, <2>4, ReadsSpecial
  <2>6. Op("special", x) \in Operations
    BY <2>1 DEF Op, Operations, Names
  <2> QED
    BY <2>5, <2>6 DEF x
<1> HIDE DEF da, dl, m, v
<1>8. CASE last
  <2>1. q = p \o <<Op("advance_pc", da), Op("advance_line", dl), Op("end_sequence", 0)>>
    BY <1>8 DEF Ends
  <2>2. /\ q \in Seq(Operations)
        /\ Reader(q) = Reads(Reads(Reads(Reader(p), Op("advance_pc", da)), Op("advance_line", dl)), Op("end_sequence", 0))
    BY <1>3, <1>4, <2>1, ReadsThree
  <2>3. Reader(q) = Reset(v)
    BY <1>5, <1>6, <2>2 DEF m
  <2> QED
    BY <1>8, <2>2, <2>3 DEF da, dl, v
<1>9. CASE ~last /\ Fits(da, dl)
  <2>1. q = p \o <<Op("special", SpecialFor(da, dl))>>
    BY <1>9 DEF Ends
  <2>2. q \in Seq(Operations) /\ Reader(q) = Machine(v, d, f, e, t)
    BY <1>1, <1>7, <1>9, <2>1, ReadsOneMore
  <2> QED
    BY <1>9, <2>2 DEF da, dl, v
<1>10. CASE ~last /\ ~Fits(da, dl) /\ Fits(da - ConstAdd, dl)
  <2>1. q = p \o <<Op("const_add_pc", 0), Op("special", SpecialFor(da - ConstAdd, dl))>>
    BY <1>10 DEF Ends
  <2>2. Reads(m, Op("const_add_pc", 0)) = Machine(w, a + ConstAdd, f, l, t)
    BY ReadsConstAdd DEF m
  <2>3. a + ConstAdd \in Int /\ da - ConstAdd \in Int /\ (a + ConstAdd) + (da - ConstAdd) = d
    BY <1>1, <1>2
  <2>4. /\ Op("special", SpecialFor(da - ConstAdd, dl)) \in Operations
        /\ Reads(Machine(w, a + ConstAdd, f, l, t), Op("special", SpecialFor(da - ConstAdd, dl))) = Machine(v, d, f, e, t)
    BY <1>7, <1>10, <2>3
  <2>5. q \in Seq(Operations) /\ Reader(q) = Machine(v, d, f, e, t)
    BY <1>4, <2>1, <2>2, <2>4, ReadsTwo DEF m
  <2> QED
    BY <1>10, <2>5 DEF da, dl, v
<1>11. CASE ~last /\ ~Fits(da, dl) /\ ~Fits(da - ConstAdd, dl)
  <2>1. q = p \o <<Op("advance_pc", da), Op("advance_line", dl), Op("copy", 0)>>
    BY <1>11 DEF Ends
  <2>2. /\ q \in Seq(Operations)
        /\ Reader(q) = Reads(Reads(Reads(Reader(p), Op("advance_pc", da)), Op("advance_line", dl)), Op("copy", 0))
    BY <1>3, <1>4, <2>1, ReadsThree
  <2>3. Reader(q) = Machine(v, d, f, e, t)
    BY <1>5, <1>6, <2>2 DEF m
  <2> QED
    BY <1>11, <2>2, <2>3 DEF da, dl, v
<1> QED
  BY <1>8, <1>9, <1>10, <1>11

LEMMA EndsTyped ==
  ASSUME NEW da \in Int, NEW dl \in Int, NEW last \in BOOLEAN
  PROVE  Ends(da, dl, last) \in Seq(Operations)
<1>1. /\ LineBase \in Int /\ OpcodeBase \in Int /\ LineRange \in Nat \ {0}
      /\ 255 - OpcodeBase \in Nat /\ ConstAdd \in Int
  <2>1. LineBase \in Int /\ OpcodeBase \in Int /\ LineRange \in Nat \ {0} /\ 255 - OpcodeBase \in Nat
    BY LineTableAssumption
  <2> QED
    BY <2>1 DEF ConstAdd
<1>2. \A x \in Int : Fits(x, dl) => SpecialFor(x, dl) \in Int
  BY SpecialIsRead
<1>3. da - ConstAdd \in Int
  BY <1>1
<1>4. /\ Op("advance_pc", da) \in Operations /\ Op("advance_line", dl) \in Operations
      /\ Op("end_sequence", 0) \in Operations /\ Op("copy", 0) \in Operations /\ Op("const_add_pc", 0) \in Operations
      /\ Fits(da, dl) => Op("special", SpecialFor(da, dl)) \in Operations
      /\ Fits(da - ConstAdd, dl) => Op("special", SpecialFor(da - ConstAdd, dl)) \in Operations
  BY <1>2, <1>3 DEF Op, Operations, Names
<1> QED
  BY <1>4 DEF Ends

\* The place a row is written from.
IsPlace(b) == b.address \in Nat /\ b.file \in Files /\ b.line \in Int /\ b.stmt \in BOOLEAN

LEMMA WritesTyped ==
  ASSUME NEW b, IsPlace(b), NEW r \in SourceRows
  PROVE  Writes(b, r) \in Seq(Operations)
<1> DEFINE sf == IF r.file # b.file THEN <<Op("set_file", r.file)>> ELSE <<>>
           ng == IF r.stmt # b.stmt THEN <<Op("negate_stmt", 0)>> ELSE <<>>
           en == Ends(r.address - b.address, r.line - b.line, r.last)
<1>1. Writes(b, r) = (sf \o ng) \o en
  BY DEF Writes, Ends
<1>2. /\ r.address - b.address \in Int /\ r.line - b.line \in Int /\ r.last \in BOOLEAN /\ r.file \in Int
  BY DEF IsPlace, SourceRows, Files
<1>3. Op("set_file", r.file) \in Operations /\ Op("negate_stmt", 0) \in Operations
  BY <1>2 DEF Op, Operations, Names
<1>4. sf \in Seq(Operations) /\ ng \in Seq(Operations) /\ en \in Seq(Operations)
  BY <1>2, <1>3, EndsTyped
<1> HIDE DEF sf, ng, en
<1>5. sf \o ng \in Seq(Operations)
  BY <1>4, ConcatProperties
<1> QED
  BY <1>1, <1>4, <1>5, ConcatProperties

LEMMA WritesAreRead ==
  ASSUME NEW p \in Seq(Operations), NEW w, NEW b, IsPlace(b), NEW r \in SourceRows,
         Reader(p) = Machine(w, b.address, b.file, b.line, b.stmt)
  PROVE  LET q == p \o Writes(b, r)
             v == Append(w, RowAt(r.address, r.file, r.line, r.stmt))
         IN  /\ q \in Seq(Operations)
             /\ Reader(q) = IF r.last THEN Reset(v)
                            ELSE Machine(v, r.address, r.file, r.line, r.stmt)
<1> DEFINE sf == IF r.file # b.file THEN <<Op("set_file", r.file)>> ELSE <<>>
           ng == IF r.stmt # b.stmt THEN <<Op("negate_stmt", 0)>> ELSE <<>>
           en == Ends(r.address - b.address, r.line - b.line, r.last)
<1>1. Writes(b, r) = (sf \o ng) \o en
  BY DEF Writes, Ends
<1>2. /\ b.address \in Int /\ b.file \in Int /\ b.line \in Int /\ b.stmt \in BOOLEAN
      /\ r.address \in Int /\ r.file \in Int /\ r.line \in Int /\ r.stmt \in BOOLEAN /\ r.last \in BOOLEAN
  BY DEF IsPlace, SourceRows, Files
<1>3. Op("set_file", r.file) \in Operations /\ Op("negate_stmt", 0) \in Operations
  BY <1>2 DEF Op, Operations, Names
<1>4. /\ p \o sf \in Seq(Operations)
      /\ Reader(p \o sf) = Machine(w, b.address, r.file, b.line, b.stmt)
  <2> DEFINE c == r.file # b.file
  <2>1. /\ p \o sf \in Seq(Operations)
        /\ Reader(p \o sf) = IF c THEN Reads(Reader(p), Op("set_file", r.file)) ELSE Reader(p)
    BY <1>3, ReadsAnOption
  <2>2. Reads(Reader(p), Op("set_file", r.file)) = Machine(w, b.address, r.file, b.line, b.stmt)
    BY ReadsSetFile
  <2> QED
    BY <2>1, <2>2
<1>5. /\ (p \o sf) \o ng \in Seq(Operations)
      /\ Reader((p \o sf) \o ng) = Machine(w, b.address, r.file, b.line, r.stmt)
  <2> DEFINE c == r.stmt # b.stmt
  <2> HIDE DEF sf
  <2>1. /\ (p \o sf) \o ng \in Seq(Operations)
        /\ Reader((p \o sf) \o ng) = IF c THEN Reads(Reader(p \o sf), Op("negate_stmt", 0)) ELSE Reader(p \o sf)
    BY <1>3, <1>4, ReadsAnOption
  <2>2. Reads(Reader(p \o sf), Op("negate_stmt", 0)) = Machine(w, b.address, r.file, b.line, ~b.stmt)
    BY <1>4, ReadsNegate
  <2>3. c => (~b.stmt) = r.stmt
    BY <1>2
  <2> QED
    BY <2>1, <2>2, <2>3, <1>4
<1>6. sf \in Seq(Operations) /\ ng \in Seq(Operations)
  BY <1>3
<1> HIDE DEF sf, ng
<1> DEFINE v == Append(w, RowAt(r.address, r.file, r.line, r.stmt))
           q == ((p \o sf) \o ng) \o en
<1>7. /\ q \in Seq(Operations)
      /\ Reader(q) = IF r.last THEN Reset(v)
                     ELSE Machine(v, r.address, r.file, r.line, r.stmt)
  <2> DEFINE h == (p \o sf) \o ng
             a == b.address
             l == b.line
             d == r.address
             e == r.line
  <2>1. /\ h \in Seq(Operations) /\ a \in Int /\ l \in Int /\ d \in Int /\ e \in Int /\ r.last \in BOOLEAN
        /\ Reader(h) = Machine(w, a, r.file, l, r.stmt)
    BY <1>2, <1>5
  <2> HIDE DEF h, a, l, d, e
  <2>2. /\ h \o Ends(d - a, e - l, r.last) \in Seq(Operations)
        /\ Reader(h \o Ends(d - a, e - l, r.last)) =
             IF r.last THEN Reset(Append(w, RowAt(d, r.file, e, r.stmt)))
             ELSE Machine(Append(w, RowAt(d, r.file, e, r.stmt)), d, r.file, e, r.stmt)
    BY <2>1, EndsAreRead
  <2> QED
    BY <2>2 DEF h, a, l, d, e
<1>8. en \in Seq(Operations)
  <2>1. r.address - b.address \in Int /\ r.line - b.line \in Int
    BY <1>2
  <2> QED
    BY <1>2, <2>1, EndsTyped
<1> HIDE DEF en
<1>9. q = p \o ((sf \o ng) \o en)
  <2>1. (p \o sf) \o ng = p \o (sf \o ng)
    BY <1>6, ConcatAssociative
  <2>2. sf \o ng \in Seq(Operations)
    BY <1>6, ConcatProperties
  <2> DEFINE x == sf \o ng
  <2>3. (p \o x) \o en = p \o (x \o en)
    <3> HIDE DEF x
    <3> QED
      BY <1>8, <2>2, ConcatAssociative DEF x
  <2> QED
    BY <2>1, <2>3
<1> QED
  BY <1>1, <1>7, <1>9
--------------------------------------------------------------------------------
(***************************************************************************)
(* All rows: what is read of a program is what was written, and the reader    *)
(* stands where the last row left it.                                       *)
(***************************************************************************)
At(rows) == Before(rows, Len(rows) + 1)
AfterRows(rows) ==
    IF Opens(rows, Len(rows) + 1) THEN Reset(WrittenOf(rows))
    ELSE Machine(WrittenOf(rows), At(rows).address, At(rows).file, At(rows).line, At(rows).stmt)
Piece(rows, i) ==
    (IF Opens(rows, i) THEN <<Op("set_address", Before(rows, i).address)>> ELSE <<>>)
    \o Writes(Before(rows, i), rows[i])

LEMMA RowsTyped ==
  ASSUME NEW s \in Seq(SourceRows), NEW i \in 1..Len(s) + 1
  PROVE  /\ IsPlace(Before(s, i)) /\ Opens(s, i) \in BOOLEAN
         /\ Opens(s, i) => Before(s, i).file = 1 /\ Before(s, i).line = 1 /\ Before(s, i).stmt = TRUE
<1>1. CASE i = 1
  <2>1. Before(s, i) = Begins /\ Opens(s, i)
    BY <1>1 DEF Before, Opens
  <2>2. IsPlace(Begins) /\ Begins.file = 1 /\ Begins.line = 1 /\ Begins.stmt = TRUE
    BY DEF Begins, IsPlace, Files
  <2>3. Opens(s, i) \in BOOLEAN
    BY DEF Opens
  <2> QED
    BY <2>1, <2>2, <2>3
<1>2. CASE i # 1
  <2>1. i > 1 /\ i - 1 \in 1..Len(s)
    BY <1>2
  <2>2. s[i - 1] \in SourceRows
    BY <2>1, ElementOfSeq
  <2>3. IsPlace(s[i - 1]) /\ s[i - 1].last \in BOOLEAN
    BY <2>2 DEF IsPlace, SourceRows
  <2>4. CASE s[i - 1].last
    <3>1. Before(s, i) = [Begins EXCEPT !.address = s[i - 1].address] /\ Opens(s, i)
      BY <1>2, <2>1, <2>4 DEF Before, Opens
    <3>2. s[i - 1].address \in Nat
      BY <2>3 DEF IsPlace
    <3> QED
      BY <3>1, <3>2 DEF Begins, IsPlace, Files
  <2>5. CASE ~s[i - 1].last
    <3>1. Before(s, i) = s[i - 1] /\ ~Opens(s, i)
      BY <1>2, <2>1, <2>5 DEF Before, Opens
    <3>2. Opens(s, i) \in BOOLEAN
      BY DEF Opens
    <3> QED
      BY <2>3, <3>1, <3>2
  <2> QED
    BY <2>3, <2>4, <2>5
<1> QED
  BY <1>1, <1>2

LEMMA PieceTyped ==
  ASSUME NEW s \in Seq(SourceRows), NEW i \in 1..Len(s)
  PROVE  Piece(s, i) \in Seq(Operations)
<1> DEFINE b == Before(s, i)
           o == IF Opens(s, i) THEN <<Op("set_address", b.address)>> ELSE <<>>
<1>1. i \in 1..Len(s) + 1 /\ s[i] \in SourceRows
  BY ElementOfSeq, LenProperties
<1>2. IsPlace(b)
  BY <1>1, RowsTyped
<1>3. Writes(b, s[i]) \in Seq(Operations)
  BY <1>1, <1>2, WritesTyped
<1>4. b.address \in Int
  BY <1>2 DEF IsPlace
<1> HIDE DEF b
<1>5. Op("set_address", b.address) \in Operations
  BY <1>4 DEF Op, Operations, Names
<1>6. o \in Seq(Operations)
  BY <1>5
<1>7. Piece(s, i) = o \o Writes(b, s[i])
  BY DEF Piece, b
<1> HIDE DEF o
<1> QED
  BY <1>3, <1>6, <1>7, ConcatProperties

LEMMA WrittenOneMore ==
  ASSUME NEW s \in Seq(SourceRows), NEW r \in SourceRows
  PROVE  WrittenOf(Append(s, r)) = Append(WrittenOf(s), RowAt(r.address, r.file, r.line, r.stmt))
<1> DEFINE t == Append(s, r)
           n == Len(s)
           All == {RowAt(a, f, l, m) : a \in Nat, f \in Files, l \in Int, m \in BOOLEAN}
           x == RowAt(r.address, r.file, r.line, r.stmt)
           w == WrittenOf(s)
           v == WrittenOf(t)
<1>1. t \in Seq(SourceRows) /\ Len(t) = n + 1 /\ (\A i \in 1..n : t[i] = s[i]) /\ t[n + 1] = r
  BY AppendProperties
<1>2. n \in Nat /\ DOMAIN s = 1..n /\ DOMAIN t = 1..n + 1
  BY <1>1, LenProperties
<1>3. \A y \in SourceRows : RowAt(y.address, y.file, y.line, y.stmt) \in All
  BY DEF SourceRows
<1>4. x \in All
  BY <1>3
<1> HIDE DEF All, t, n
<1>5. \A i \in 1..n : s[i] \in SourceRows
  BY ElementOfSeq DEF n
<1>6. w = [i \in 1..n |-> RowAt(s[i].address, s[i].file, s[i].line, s[i].stmt)]
  BY <1>2 DEF WrittenOf
<1>7. v = [i \in 1..n + 1 |-> RowAt(t[i].address, t[i].file, t[i].line, t[i].stmt)]
  BY <1>2 DEF WrittenOf
<1>8. \A i \in 1..n + 1 : t[i] \in SourceRows
  BY <1>1, ElementOfSeq
<1>9. w \in Seq(All) /\ Len(w) = n
  BY <1>2, <1>3, <1>5, <1>6
<1>10. v \in Seq(All) /\ Len(v) = n + 1
  BY <1>2, <1>3, <1>7, <1>8
<1>11. (\A i \in 1..n : v[i] = w[i]) /\ v[n + 1] = x
  BY <1>1, <1>2, <1>6, <1>7
<1> HIDE DEF x, w, v
<1>12. /\ Append(w, x) \in Seq(All) /\ Len(Append(w, x)) = n + 1
       /\ (\A i \in 1..n : Append(w, x)[i] = w[i]) /\ Append(w, x)[n + 1] = x
  BY <1>4, <1>9, AppendProperties
<1>13. \A i \in 1..n + 1 : v[i] = Append(w, x)[i]
  BY <1>2, <1>11, <1>12
<1>14. v = Append(w, x)
  BY <1>10, <1>12, <1>13, SeqEqual
<1> QED
  BY <1>14 DEF v, w, x, t

LEMMA OneMoreRow ==
  ASSUME NEW s \in Seq(SourceRows), NEW r \in SourceRows, Program(s) \in Seq(Operations),
         Reader(Program(s)) = AfterRows(s)
  PROVE  LET t == Append(s, r)
         IN  Program(t) \in Seq(Operations) /\ Reader(Program(t)) = AfterRows(t)
<1> DEFINE t == Append(s, r)
           n == Len(s)
<1>1. /\ n \in Nat /\ DOMAIN s = 1..n /\ t \in Seq(SourceRows) /\ Len(t) = n + 1 /\ DOMAIN t = 1..n + 1
      /\ t[n + 1] = r /\ \A i \in 1..n : t[i] = s[i]
  <2>1. t \in Seq(SourceRows) /\ Len(t) = n + 1 /\ (\A i \in 1..n : t[i] = s[i]) /\ t[n + 1] = r
    BY AppendProperties
  <2>2. n \in Nat /\ DOMAIN s = 1..n /\ DOMAIN t = 1..Len(t)
    BY <2>1, LenProperties
  <2> QED
    BY <2>1, <2>2
<1> HIDE DEF t, n
<1>2. \A i \in 1..n + 1 : Opens(t, i) = Opens(s, i) /\ Before(t, i) = Before(s, i)
  <2> TAKE i \in 1..n + 1
  <2>1. i # 1 => i - 1 \in 1..n /\ i > 1
    BY <1>1
  <2>2. i # 1 => t[i - 1] = s[i - 1]
    BY <1>1, <2>1
  <2> QED
    BY <2>1, <2>2 DEF Opens, Before
<1>3. \A i \in 1..n : Piece(t, i) = Piece(s, i)
  <2> TAKE i \in 1..n
  <2>1. i \in 1..n + 1 /\ t[i] = s[i]
    BY <1>1
  <2> QED
    BY <1>2, <2>1 DEF Piece
<1> DEFINE ss == [i \in 1..n |-> Piece(s, i)]
           tt == [i \in 1..n + 1 |-> Piece(t, i)]
           x == Piece(t, n + 1)
<1>4. n + 1 \in 1..n + 1 /\ n + 1 \in Nat
  BY <1>1
<1>5. x \in Seq(Operations) /\ ss \in Seq(Seq(Operations)) /\ Len(ss) = n /\ tt \in Seq(Seq(Operations)) /\ Len(tt) = n + 1
  <2>1. \A i \in 1..n : Piece(s, i) \in Seq(Operations)
    BY PieceTyped DEF n
  <2>2. \A i \in 1..n + 1 : Piece(t, i) \in Seq(Operations)
    BY <1>1, PieceTyped
  <2> QED
    BY <1>1, <1>4, <2>1, <2>2
<1>6. tt = Append(ss, x)
  <2>1. \A i \in 1..n : ss[i] = tt[i]
    BY <1>1, <1>3
  <2>2. tt[n + 1] = x
    BY <1>4
  <2> HIDE DEF ss, tt, x
  <2>3. /\ Append(ss, x) \in Seq(Seq(Operations)) /\ Len(Append(ss, x)) = n + 1
        /\ (\A i \in 1..n : Append(ss, x)[i] = ss[i]) /\ Append(ss, x)[n + 1] = x
    BY <1>5, AppendProperties
  <2>4. \A i \in 1..n + 1 : tt[i] = Append(ss, x)[i]
    BY <1>1, <2>1, <2>2, <2>3
  <2> QED
    BY <1>5, <2>3, <2>4, SeqEqual
<1>7. Program(s) = FlattenSeq(ss) /\ Program(t) = FlattenSeq(tt)
  BY <1>1 DEF Program, Piece
<1> DEFINE b == At(s)
           o == IF Opens(s, n + 1) THEN <<Op("set_address", b.address)>> ELSE <<>>
<1>8. x = o \o Writes(b, r)
  BY <1>1, <1>2, <1>4 DEF Piece, At, n
<1> HIDE DEF ss, tt, x
<1>9. Program(t) = Program(s) \o x
  BY <1>5, <1>6, <1>7, FlattensOneMore
<1>10. /\ IsPlace(b) /\ Opens(s, n + 1) \in BOOLEAN
       /\ Opens(s, n + 1) => b.file = 1 /\ b.line = 1 /\ b.stmt = TRUE
  BY <1>4, RowsTyped DEF At, n
<1>11. Op("set_address", b.address) \in Operations
  <2>1. b.address \in Int
    BY <1>10 DEF IsPlace
  <2> HIDE DEF b
  <2> QED
    BY <2>1 DEF Op, Operations, Names
<1> DEFINE w == WrittenOf(s)
           p == Program(s) \o o
<1>12. p \in Seq(Operations) /\ Reader(p) = Machine(w, b.address, b.file, b.line, b.stmt)
  <2>1. /\ p \in Seq(Operations)
        /\ Reader(p) = IF Opens(s, n + 1) THEN Reads(Reader(Program(s)), Op("set_address", b.address)) ELSE Reader(Program(s))
    BY <1>10, <1>11, ReadsAnOption
  <2> HIDE DEF p, o, w
  <2>2. CASE Opens(s, n + 1)
    <3>1. Reader(Program(s)) = Machine(w, 0, 1, 1, TRUE)
      BY <2>2 DEF AfterRows, Reset, w, n
    <3>2. Reads(Machine(w, 0, b.file, b.line, b.stmt), Op("set_address", b.address)) = Machine(w, b.address, b.file, b.line, b.stmt)
      BY ReadsSetAddress
    <3>3. Machine(w, 0, 1, 1, TRUE) = Machine(w, 0, b.file, b.line, b.stmt)
      BY <1>10, <2>2
    <3> QED
      BY <2>1, <2>2, <3>1, <3>2, <3>3
  <2>3. CASE ~Opens(s, n + 1)
    BY <2>1, <2>3 DEF AfterRows, n, w
  <2> QED
    BY <1>10, <2>2, <2>3
<1> DEFINE v == Append(w, RowAt(r.address, r.file, r.line, r.stmt))
<1>13. /\ p \o Writes(b, r) \in Seq(Operations)
       /\ Reader(p \o Writes(b, r)) = IF r.last THEN Reset(v) ELSE Machine(v, r.address, r.file, r.line, r.stmt)
  <2> HIDE DEF p, w, b
  <2> QED
    BY <1>10, <1>12, WritesAreRead
<1>14. Program(t) = p \o Writes(b, r)
  <2>1. Writes(b, r) \in Seq(Operations)
    BY <1>10, WritesTyped
  <2>2. o \in Seq(Operations)
    BY <1>11
  <2> HIDE DEF o, b
  <2>3. Program(s) \o (o \o Writes(b, r)) = (Program(s) \o o) \o Writes(b, r)
    BY <2>1, <2>2, ConcatAssociative
  <2> QED
    BY <1>8, <1>9, <2>3
<1>15. AfterRows(t) = IF r.last THEN Reset(v) ELSE Machine(v, r.address, r.file, r.line, r.stmt)
  <2>1. WrittenOf(t) = v
    BY <1>1, WrittenOneMore DEF t
  <2>2. /\ n + 2 # 1 /\ (n + 2) - 1 = n + 1 /\ n + 2 > 1 /\ Len(t) + 1 = n + 2
    BY <1>1
  <2>3. Opens(t, n + 2) <=> r.last
    BY <1>1, <2>2 DEF Opens
  <2>4. ~r.last => Before(t, n + 2) = r
    BY <1>1, <2>2 DEF Before
  <2> HIDE DEF v
  <2> QED
    BY <2>1, <2>2, <2>3, <2>4 DEF AfterRows, At
<1> QED
  BY <1>13, <1>14, <1>15 DEF t
--------------------------------------------------------------------------------
(***************************************************************************)
(* The index: breakpoints, what is shown where they stop, and callers.       *)
(***************************************************************************)
IndexRows == [address : Nat, file : Files, line : Int, stmt : BOOLEAN]

LEMMA IndexedRows ==
  ASSUME NEW rows \in Seq(IndexRows)
  PROVE  /\ \A i \in DOMAIN rows : /\ i \in Int /\ rows[i] \in IndexRows /\ rows[i].address \in Int
                                   /\ rows[i].line \in Int
         /\ \A I \in SUBSET DOMAIN rows : IsFiniteSet(I) /\ I \in SUBSET Int
         /\ Statements(rows) \in SUBSET DOMAIN rows
<1>1. Len(rows) \in Nat /\ DOMAIN rows = 1..Len(rows)
  BY LenProperties
<1>2. \A i \in DOMAIN rows : rows[i] \in IndexRows
  BY <1>1, ElementOfSeq
<1>3. \A i \in DOMAIN rows : i \in Int /\ rows[i].address \in Int /\ rows[i].line \in Int
  BY <1>1, <1>2 DEF IndexRows
<1>4. IsFiniteSet(DOMAIN rows)
  BY <1>1, FS_Interval
<1>5. ASSUME NEW I \in SUBSET DOMAIN rows PROVE IsFiniteSet(I) /\ I \in SUBSET Int
  BY <1>3, <1>4, FS_Subset
<1> QED
  BY <1>2, <1>3, <1>5 DEF Statements

\* The lines of statements at or behind a line of a file.
LinesFrom(rows, file, line) ==
    {rows[i].line : i \in {j \in Statements(rows) : rows[j].file = file /\ rows[j].line >= line}}

LEMMA BreakpointIsFound ==
  ASSUME NEW rows \in Seq(IndexRows), NEW file, NEW line
  PROVE  LET b == ResolveBreakpoint(rows, file, line)
             from == LinesFrom(rows, file, line)
         IN  /\ from = {} => b = <<>>
             /\ from # {} => \E j \in Statements(rows) :
                   /\ rows[j].file = file /\ rows[j].line = Min(from)
                   /\ b = <<[address |-> rows[j].address, line |-> rows[j].line]>>
<1> DEFINE inFile == {i \in Statements(rows) : rows[i].file = file}
           I == {j \in inFile : rows[j].line >= line}
           from == LinesFrom(rows, file, line)
           at == {i \in inFile : rows[i].line = Min(from)}
           b == ResolveBreakpoint(rows, file, line)
<1>1. from = {rows[i].line : i \in I}
  BY DEF LinesFrom
<1>2. b = IF from = {} THEN <<>> ELSE <<[address |-> rows[Min(at)].address, line |-> Min(from)]>>
  BY <1>1 DEF ResolveBreakpoint
<1>3. ASSUME from # {}
      PROVE  \E j \in Statements(rows) :
                   /\ rows[j].file = file /\ rows[j].line = Min(from)
                   /\ b = <<[address |-> rows[j].address, line |-> rows[j].line]>>
  <2>1. I \in SUBSET DOMAIN rows /\ I # {}
    BY <1>1, <1>3, IndexedRows
  <2> DEFINE f == [i \in I |-> rows[i].line]
  <2>2. IsFiniteSet(I) /\ (\A i \in I : f[i] \in Int) /\ from = {f[i] : i \in I}
    BY <1>1, <2>1, IndexedRows
  <2> HIDE DEF f, from
  <2>3. Min(from) \in from
    <3> HIDE DEF I
    <3> QED
      BY <2>1, <2>2, MinOfImage
  <2>4. PICK i \in I : rows[i].line = Min(from)
    BY <1>1, <2>3
  <2>5. at # {} /\ at \in SUBSET DOMAIN rows
    BY <2>1, <2>4, IndexedRows
  <2>6. IsFiniteSet(at) /\ at \in SUBSET Int
    BY <2>5, IndexedRows
  <2> HIDE DEF at
  <2>7. Min(at) \in at
    BY <2>5, <2>6, MinOfSet
  <2>8. /\ Min(at) \in Statements(rows) /\ rows[Min(at)].file = file /\ rows[Min(at)].line = Min(from)
    BY <2>7 DEF at
  <2> HIDE DEF b
  <2> QED
    BY <1>2, <1>3, <2>8
<1> QED
  BY <1>2, <1>3

\* What an address is resolved to is the first of its statements, if it has one.
LEMMA StatementIsShown ==
  ASSUME NEW rows \in Seq(IndexRows), NEW address, NEW j \in Statements(rows), rows[j].address = address
  PROVE  \E i \in Statements(rows) : rows[i].address = address /\ ResolveAddress(rows, address) = rows[i]
<1> DEFINE there == {i \in DOMAIN rows : rows[i].address = address}
           first == there \cap Statements(rows)
<1>1. first # {} /\ first \in SUBSET DOMAIN rows
  BY DEF Statements
<1>2. IsFiniteSet(first) /\ first \in SUBSET Int
  BY <1>1, IndexedRows
<1>3. ResolveAddress(rows, address) = rows[Min(first)]
  BY <1>1 DEF ResolveAddress
<1>4. Min(first) \in first
  <2> HIDE DEF first
  <2> QED
    BY <1>1, <1>2, MinOfSet
<1> QED
  BY <1>3, <1>4

LEMMA BreakpointIsShown ==
  ASSUME NEW rows \in Seq(IndexRows), NEW file, NEW line
  PROVE  IsShown(rows, ResolveBreakpoint(rows, file, line), file)
<1> DEFINE b == ResolveBreakpoint(rows, file, line)
           from == LinesFrom(rows, file, line)
           J == {i \in DOMAIN rows : rows[i].stmt /\ rows[i].address = b[1].address}
<1> SUFFICES ASSUME b # <<>>, Cardinality(J) = 1
             PROVE  /\ ResolveAddress(rows, b[1].address).line = b[1].line
                    /\ ResolveAddress(rows, b[1].address).file = file
  BY DEF IsShown
<1>1. PICK j \in Statements(rows) :
         rows[j].file = file /\ b = <<[address |-> rows[j].address, line |-> rows[j].line]>>
  BY BreakpointIsFound
<1>2. b[1].address = rows[j].address /\ b[1].line = rows[j].line
  BY <1>1
<1> HIDE DEF b
<1>3. PICK i \in Statements(rows) : rows[i].address = b[1].address /\ ResolveAddress(rows, b[1].address) = rows[i]
  BY <1>2, StatementIsShown
<1>4. i \in J /\ j \in J /\ J \in SUBSET DOMAIN rows
  BY <1>2, <1>3 DEF Statements
<1> HIDE DEF J
<1>5. i = j
  <2>1. IsFiniteSet(J)
    BY <1>4, IndexedRows
  <2>2. PICK x : J = {x}
    BY <2>1, FS_Singleton
  <2> QED
    BY <1>4, <2>2
<1> QED
  BY <1>1, <1>2, <1>3, <1>5

LEMMA CallerIsBefore ==
  ASSUME NEW rows \in Seq(IndexRows), NEW address \in Int
  PROVE  IsBefore(rows, address)
<1> DEFINE I == {i \in Statements(rows) : 1 <= rows[i].address /\ rows[i].address < address}
           D == {rows[i].address : i \in I}
           before == PrecedingStatement(rows, address, 1)
<1>1. before = IF I = {} THEN <<>> ELSE <<Max(D)>>
  BY DEF PrecedingStatement
<1> SUFFICES ASSUME I # {} PROVE before[1] < address /\ ResolveAddress(rows, before[1]).stmt
  BY <1>1 DEF IsBefore
<1>2. before[1] = Max(D)
  BY <1>1
<1> DEFINE f == [i \in I |-> rows[i].address]
<1>3. I \in SUBSET DOMAIN rows
  BY IndexedRows
<1>4. IsFiniteSet(I) /\ (\A i \in I : f[i] \in Int) /\ D = {f[i] : i \in I}
  BY <1>3, IndexedRows
<1> HIDE DEF f
<1>5. Max(D) \in D
  <2> HIDE DEF D, I
  <2> QED
    BY <1>4, MaxOfImage
<1>6. PICK i \in I : Max(D) = rows[i].address
  BY <1>5
<1> HIDE DEF before, D
<1>7. before[1] < address /\ i \in Statements(rows) /\ rows[i].address = before[1]
  BY <1>2, <1>6
<1>8. PICK k \in Statements(rows) : ResolveAddress(rows, before[1]) = rows[k]
  BY <1>7, StatementIsShown
<1> QED
  BY <1>7, <1>8 DEF Statements
--------------------------------------------------------------------------------
(***************************************************************************)
(* The match of paths: what two paths have in common at their ends.          *)
(***************************************************************************)
Common(s, t, n) ==
    /\ n \in Nat /\ n <= Len(s) /\ n <= Len(t)
    /\ \A k \in 0..n - 1 : s[Len(s) - k] = t[Len(t) - k]

LEMMA IsCommon ==
  ASSUME NEW s, NEW t, NEW n \in Nat, NEW a, NEW b, Len(s) = a, Len(t) = b, n <= a, n <= b,
         \A k \in 0..n - 1 : s[a - k] = t[b - k]
  PROVE  Common(s, t, n)
BY DEF Common

LEMMA CommonIsTheEnd ==
  ASSUME NEW S, NEW s \in Seq(S), NEW t \in Seq(S), NEW n \in Nat, n <= Len(s), n <= Len(t)
  PROVE  SubSeq(s, Len(s) - n + 1, Len(s)) = SubSeq(t, Len(t) - n + 1, Len(t)) <=> Common(s, t, n)
<1> DEFINE a == Len(s)
           b == Len(t)
           u == SubSeq(s, a - n + 1, a)
           v == SubSeq(t, b - n + 1, b)
<1>1. a \in Nat /\ b \in Nat
  BY LenProperties
<1>2. u = [i \in 1..n |-> s[a - n + i]] /\ v = [i \in 1..n |-> t[b - n + i]]
  <2>1. \A i \in 1..n : i + (a - n + 1) - 1 = a - n + i /\ i + (b - n + 1) - 1 = b - n + i
    BY <1>1
  <2>2. 1 + a - (a - n + 1) = n /\ 1 + b - (b - n + 1) = n
    BY <1>1
  <2> QED
    BY <1>1, <2>1, <2>2
<1> HIDE DEF u, v, a, b
<1>3. u = v <=> \A i \in 1..n : s[a - n + i] = t[b - n + i]
  BY <1>2
<1>4. (\A i \in 1..n : s[a - n + i] = t[b - n + i]) <=> \A k \in 0..n - 1 : s[a - k] = t[b - k]
  <2>1. ASSUME \A i \in 1..n : s[a - n + i] = t[b - n + i], NEW k \in 0..n - 1 PROVE s[a - k] = t[b - k]
    <3>1. n - k \in 1..n /\ a - n + (n - k) = a - k /\ b - n + (n - k) = b - k
      BY <1>1
    <3> QED
      BY <2>1, <3>1
  <2>2. ASSUME \A k \in 0..n - 1 : s[a - k] = t[b - k], NEW i \in 1..n PROVE s[a - n + i] = t[b - n + i]
    <3>1. n - i \in 0..n - 1 /\ a - (n - i) = a - n + i /\ b - (n - i) = b - n + i
      BY <1>1
    <3> QED
      BY <2>2, <3>1
  <2> QED
    BY <2>1, <2>2
<1> QED
  BY <1>3, <1>4 DEF Common, u, v, a, b

LEMMA SuffixIsCommon ==
  ASSUME NEW S, NEW s \in Seq(S), NEW t \in Seq(S)
  PROVE  IsSuffix(s, t) <=> Common(s, t, Len(s))
<1> DEFINE a == Len(s)
           b == Len(t)
           u == Reverse(s)
           v == Reverse(t)
<1>1. a \in Nat /\ b \in Nat /\ \A i \in 1..a : s[i] \in S
  BY LenProperties, ElementOfSeq
<1>2. u = [i \in 1..a |-> s[a - i + 1]] /\ v = [i \in 1..b |-> t[b - i + 1]]
  BY DEF Reverse
<1>3. u \in Seq(S) /\ Len(u) = a /\ v \in Seq(S) /\ Len(v) = b
  <2>1. \A i \in 1..a : a - i + 1 \in 1..a
    BY <1>1
  <2>2. \A i \in 1..b : b - i + 1 \in 1..b
    BY <1>1
  <2>3. \A i \in 1..b : t[i] \in S
    BY ElementOfSeq
  <2> HIDE DEF a, b, u, v
  <2>4. u \in [1..a -> S] /\ v \in [1..b -> S]
    BY <1>1, <1>2, <2>1, <2>2, <2>3
  <2> QED
    BY <1>1, <2>4
<1> HIDE DEF u, v, a, b
<1>4. IsSuffix(s, t) <=> a <= b /\ SubSeq(u, 1, a) = SubSeq(v, 1, a)
  BY <1>3 DEF IsSuffix, IsPrefix, u, v
<1>5. SubSeq(u, 1, a) = [i \in 1..a |-> u[i]] /\ SubSeq(v, 1, a) = [i \in 1..a |-> v[i]]
  BY <1>1
<1>6. IsSuffix(s, t) <=> a <= b /\ \A i \in 1..a : u[i] = v[i]
  BY <1>4, <1>5
<1>7. ASSUME a <= b
      PROVE  (\A i \in 1..a : u[i] = v[i]) <=> \A k \in 0..a - 1 : s[a - k] = t[b - k]
  <2>1. ASSUME \A i \in 1..a : u[i] = v[i], NEW k \in 0..a - 1 PROVE s[a - k] = t[b - k]
    <3>1. k + 1 \in 1..a /\ k + 1 \in 1..b /\ a - (k + 1) + 1 = a - k /\ b - (k + 1) + 1 = b - k
      BY <1>1, <1>7
    <3> QED
      BY <1>2, <2>1, <3>1
  <2>2. ASSUME \A k \in 0..a - 1 : s[a - k] = t[b - k], NEW i \in 1..a PROVE u[i] = v[i]
    <3>1. i - 1 \in 0..a - 1 /\ i \in 1..b /\ a - (i - 1) = a - i + 1 /\ b - (i - 1) = b - i + 1
      BY <1>1, <1>7
    <3>2. s[a - i + 1] = t[b - i + 1]
      BY <2>2, <3>1
    <3> QED
      BY <1>2, <3>1, <3>2
  <2> QED
    BY <2>1, <2>2
<1> QED
  BY <1>1, <1>6, <1>7 DEF Common, a, b

LEMMA TrailingIsLongest ==
  ASSUME NEW S, NEW s \in Seq(S), NEW t \in Seq(S)
  PROVE  /\ Trailing(s, t) \in Nat /\ Common(s, t, Trailing(s, t))
         /\ \A n : Common(s, t, n) => n <= Trailing(s, t)
<1> DEFINE a == Len(s)
           b == Len(t)
           m == Min({a, b})
           D == {n \in 0..m : SubSeq(s, a - n + 1, a) = SubSeq(t, b - n + 1, b)}
<1>1. a \in Nat /\ b \in Nat
  BY LenProperties
<1>2. m \in Nat /\ m <= a /\ m <= b /\ \A n \in Nat : n <= a /\ n <= b => n <= m
  <2>1. {a, b} \in SUBSET Int /\ IsFiniteSet({a, b}) /\ {a, b} # {}
    <3>1. IsFiniteSet({a}) /\ {a, b} = {a} \cup {b}
      BY FS_Singleton
    <3>2. IsFiniteSet({a} \cup {b})
      BY <3>1, FS_AddElement
    <3>3. {a, b} \in SUBSET Int /\ {a, b} # {}
      BY <1>1
    <3> QED
      BY <3>1, <3>2, <3>3, Zenon
  <2>2. m \in {a, b} /\ \A y \in {a, b} : m <= y
    <3> DEFINE P == {a, b}
    <3> HIDE DEF P
    <3>1. Min(P) \in P /\ \A y \in P : Min(P) <= y
      BY <2>1, MinOfSet DEF P
    <3> QED
      BY <3>1 DEF P
  <2> HIDE DEF m
  <2> QED
    BY <1>1, <2>2
<1>3. \A n : n \in D <=> Common(s, t, n)
  <2>1. ASSUME NEW n \in 0..m PROVE n \in D <=> Common(s, t, n)
    <3>1. n \in Nat /\ n <= a /\ n <= b
      BY <1>1, <1>2
    <3> HIDE DEF m
    <3> QED
      BY <3>1, CommonIsTheEnd
  <2>2. ASSUME NEW n, Common(s, t, n) PROVE n \in 0..m
    <3>1. n \in Nat /\ n <= a /\ n <= b
      BY <2>2 DEF Common
    <3> HIDE DEF m
    <3> QED
      BY <1>2, <3>1
  <2> QED
    BY <2>1, <2>2
<1>4. D \in SUBSET Int /\ IsFiniteSet(D)
  <2>1. IsFiniteSet(0..m) /\ D \subseteq 0..m /\ 0..m \subseteq Int
    <3> HIDE DEF m
    <3> QED
      BY <1>2, FS_Interval
  <2> HIDE DEF D
  <2> QED
    BY <2>1, FS_Subset
<1>5. Common(s, t, 0)
  BY <1>1 DEF Common
<1>6. Trailing(s, t) = Max(D)
  BY DEF Trailing
<1> HIDE DEF D
<1>7. Max(D) \in D /\ \A y \in D : Max(D) >= y
  BY <1>3, <1>4, <1>5, MaxOfSet
<1>8. Max(D) \in Nat /\ \A n : Common(s, t, n) => n \in Nat
  BY <1>3, <1>7 DEF Common
<1> QED
  BY <1>3, <1>6, <1>7, <1>8

\* A name before a path.
LEMMA Under ==
  ASSUME NEW S, NEW x \in S, NEW p \in Seq(S)
  PROVE  LET t == <<x>> \o p
         IN  t \in Seq(S) /\ Len(t) = Len(p) + 1 /\ t[1] = x /\ \A i \in 1..Len(p) : t[i + 1] = p[i]
<1> DEFINE s == <<x>>
           t == s \o p
           n == Len(p)
<1>1. s \in Seq(S) /\ Len(s) = 1 /\ s[1] = x /\ n \in Nat
  BY LenProperties
<1> HIDE DEF s, n
<1>2. t \in Seq(S) /\ Len(t) = 1 + n /\ \A i \in 1..1 + n : t[i] = IF i <= 1 THEN s[i] ELSE p[i - 1]
  <2>1. /\ t \in Seq(S) /\ Len(t) = Len(s) + Len(p)
        /\ \A i \in 1..Len(s) + Len(p) : t[i] = IF i <= Len(s) THEN s[i] ELSE p[i - Len(s)]
    BY <1>1, ConcatProperties
  <2> HIDE DEF t
  <2> QED
    BY <1>1, <2>1 DEF n
<1> HIDE DEF t
<1>3. 1 \in 1..1 + n /\ \A i \in 1..n : i + 1 \in 1..1 + n /\ ~(i + 1 <= 1) /\ (i + 1) - 1 = i
  BY <1>1
<1>4. t[1] = x
  BY <1>1, <1>2, <1>3
<1>5. \A i \in 1..n : t[i + 1] = p[i]
  BY <1>2, <1>3
<1> QED
  BY <1>1, <1>2, <1>4, <1>5 DEF s, t, n

\* The copies of a path have it as their common end, at least; and all of one of them in
\* common with another path only if that ends with it, or begins with its name.
LEMMA CopiesAgree ==
  ASSUME NEW S, NEW x \in S, NEW y \in S, NEW p \in Seq(S), NEW q \in Seq(S)
  PROVE  LET s == <<x>> \o p
             t == <<y>> \o q
         IN  /\ p = q => Common(s, t, Len(p))
             /\ Common(s, t, Len(p) + 1) => x = y \/ Common(s, q, Len(p) + 1)
<1> DEFINE s == <<x>> \o p
           t == <<y>> \o q
           n == Len(p)
           m == Len(q)
<1>1. n \in Nat /\ m \in Nat
  BY LenProperties
<1>2. s \in Seq(S) /\ Len(s) = n + 1 /\ s[1] = x /\ \A i \in 1..n : s[i + 1] = p[i]
  BY Under
<1>3. t \in Seq(S) /\ Len(t) = m + 1 /\ t[1] = y /\ \A i \in 1..m : t[i + 1] = q[i]
  BY Under
<1>9. p = q => n = m
  OBVIOUS
<1> HIDE DEF s, t, n, m
<1>4. ASSUME p = q PROVE Common(s, t, n)
  <2>1. ASSUME NEW k \in 0..n - 1 PROVE s[n + 1 - k] = t[n + 1 - k]
    <3>1. n - k \in 1..n /\ (n - k) + 1 = n + 1 - k
      BY <1>1
    <3>2. s[(n - k) + 1] = p[n - k] /\ t[(n - k) + 1] = q[n - k]
      BY <1>2, <1>3, <1>4, <1>9, <3>1
    <3> QED
      BY <1>4, <3>1, <3>2
  <2> QED
    BY <1>1, <1>2, <1>3, <1>4, <1>9, <2>1 DEF Common
<1>5. ASSUME Common(s, t, n + 1), x # y PROVE Common(s, q, n + 1)
  <2>1. n <= m /\ \A k \in 0..n : s[n + 1 - k] = t[m + 1 - k]
    BY <1>1, <1>2, <1>3, <1>5 DEF Common
  <2>2. n # m
    <3>1. n \in 0..n /\ n + 1 - n = 1
      BY <1>1
    <3>2. n = m => m + 1 - n = 1
      BY <1>1
    <3> QED
      BY <1>2, <1>3, <1>5, <2>1, <3>1, <3>2
  <2>3. ASSUME NEW k \in 0..n PROVE s[n + 1 - k] = q[m - k]
    <3>1. m - k \in 1..m /\ (m - k) + 1 = m + 1 - k
      BY <1>1, <2>1, <2>2
    <3> QED
      BY <1>3, <2>1, <3>1
  <2>4. n + 1 \in Nat /\ n + 1 <= m /\ (n + 1) - 1 = n
    BY <1>1, <2>1, <2>2
  <2>5. Len(q) = m
    BY DEF m
  <2>6. Len(s) = n + 1
    BY <1>2
  <2>7. \A k \in 0..(n + 1) - 1 : s[n + 1 - k] = q[m - k]
    BY <2>3, <2>4
  <2> DEFINE l == n + 1
  <2>8. l \in Nat /\ l <= l /\ l <= m /\ Len(s) = l /\ \A k \in 0..l - 1 : s[l - k] = q[m - k]
    BY <2>4, <2>6, <2>7
  <2> HIDE DEF l
  <2>9. Common(s, q, l)
    BY ONLY <2>5, <2>8, IsCommon
  <2> QED
    BY <2>9 DEF l
<1> QED
  BY <1>4, <1>5 DEF s, t, n

LEMMA ImageIsFinite ==
  ASSUME NEW S, IsFiniteSet(S), NEW f, NEW T, T = {f[x] : x \in S}
  PROVE  IsFiniteSet(T)
<1> DEFINE g == [x \in S |-> f[x]]
<1>1. g \in [S -> T] /\ \A y \in T : \E x \in S : g[x] = y
  OBVIOUS
<1> HIDE DEF g
<1>2. g \in Surjection(S, T)
  BY <1>1 DEF Surjection
<1> QED
  BY <1>2, FS_Surjection

LEMMA IsNeverAnotherFile ==
  ASSUME indexed \subseteq Paths, IsFiniteSet(indexed), rooted \in BOOLEAN
  PROVE  NeverAnotherFile
<1> SUFFICES ASSUME NEW p \in indexed
             PROVE  ResolveFile(Edited(p), Artifact) \subseteq {p, <<"built">> \o p}
  BY DEF NeverAnotherFile
<1> DEFINE S == STRING \cup {"edited", "built"}
           file == Edited(p)
           candidates == Artifact
           ends == IF rooted THEN {} ELSE {c \in candidates : IsSuffix(c, file)}
           n == Len(p)
<1>1. p \in Paths /\ Paths \subseteq Seq(S) /\ \A q \in Paths : ~IsSuffix(file, q)
  <2>1. Paths \subseteq Seq(STRING) /\ \A q \in Paths : ~IsSuffix(file, q)
    BY LineTableAssumption
  <2>2. ASSUME NEW q \in Seq(STRING) PROVE q \in Seq(S)
    <3>1. Len(q) \in Nat /\ q \in [1..Len(q) -> STRING]
      BY LenProperties
    <3>2. q \in [1..Len(q) -> S]
      BY <3>1
    <3> HIDE DEF S
    <3> QED
      BY <3>1, <3>2
  <2> QED
    BY <2>1, <2>2
<1>2. p \in Seq(S) /\ n \in Nat /\ "edited" \in S /\ "built" \in S
  <2>1. p \in Seq(S)
    BY <1>1
  <2>2. n \in Nat
    BY <2>1, LenProperties
  <2> QED
    BY <2>1, <2>2
<1>3. file = <<"edited">> \o p
  BY DEF Edited
<1>4. file \in Seq(S) /\ Len(file) = n + 1 /\ file[1] = "edited"
  BY <1>2, <1>3, Under
<1>5. ResolveFile(file, candidates) =
          CASE file \in candidates -> {file}
            [] file \notin candidates /\ Cardinality(ends) = 1 -> ends
            [] file \notin candidates /\ Cardinality(ends) > 1 -> {}
            [] OTHER -> ByTrailingSegments(file, candidates)
  BY DEF ResolveFile
<1> HIDE DEF S, file, n
<1>6. CASE ~rooted
  <2>1. candidates = indexed /\ ends = {c \in candidates : IsSuffix(c, file)}
    BY <1>6 DEF Artifact
  <2> HIDE DEF candidates, ends
  <2>2. file \notin candidates
    <3>1. ASSUME file \in Paths PROVE FALSE
      <4>1. Common(file, file, Len(file))
        BY <1>2, <1>4 DEF Common
      <4> QED
        BY <1>1, <1>4, <3>1, <4>1, SuffixIsCommon
    <3> QED
      BY <2>1, <3>1
  <2>3. p \in ends
    <3>1. Common(p, file, n)
      <4>1. ASSUME NEW k \in 0..n - 1 PROVE p[n - k] = file[n + 1 - k]
        <5>1. n - k \in 1..n /\ (n - k) + 1 = n + 1 - k
          BY <1>2
        <5>2. \A i \in 1..n : file[i + 1] = p[i]
          BY <1>2, <1>3, Under DEF n
        <5> QED
          BY <5>1, <5>2
      <4>2. Len(p) = n
        BY DEF n
      <4> QED
        BY <1>2, <1>4, <4>1, <4>2 DEF Common
    <3>2. IsSuffix(p, file)
      BY <1>2, <1>4, <3>1, SuffixIsCommon DEF n
    <3> QED
      BY <2>1, <3>2
  <2>4. IsFiniteSet(ends)
    BY <2>1, FS_Subset
  <2>5. Cardinality(ends) \in Nat /\ Cardinality(ends) # 0
    BY <2>3, <2>4, FS_EmptySet, FS_CardinalityType
  <2>6. CASE Cardinality(ends) = 1
    <3>1. PICK c : ends = {c}
      BY <2>4, <2>6, FS_Singleton
    <3> QED
      BY <1>5, <2>2, <2>3, <2>6, <3>1 DEF file, candidates
  <2>7. CASE Cardinality(ends) > 1
    <3>1. Cardinality(ends) # 1
      BY <2>5, <2>7
    <3>2. ResolveFile(file, candidates) = {}
      BY <1>5, <2>2, <2>7, <3>1
    <3> QED
      BY <3>2 DEF file, candidates
  <2> QED
    BY <2>5, <2>6, <2>7 DEF file, candidates
<1>7. CASE rooted
  <2>1. candidates = {<<"built">> \o q : q \in indexed} /\ ends = {}
    BY <1>7 DEF Artifact
  <2> HIDE DEF candidates, ends
  <2> DEFINE T == [c \in candidates |-> Trailing(file, c)]
             D == {Trailing(file, c) : c \in candidates} \cup {0}
             best == Max(D)
             top == {c \in candidates : Trailing(file, c) = best}
             own == <<"built">> \o p
  <2>2. \A q \in indexed : q \in Seq(S) /\ <<"built">> \o q \in Seq(S) /\ (<<"built">> \o q)[1] = "built"
    BY <1>1, <1>2, Under
  <2>3. file \notin candidates
    BY <1>4, <2>1, <2>2
  <2>4. ResolveFile(file, candidates) = IF best > 0 /\ Cardinality(top) = 1 THEN top ELSE {}
    <3>1. Cardinality(ends) = 0
      BY <2>1, FS_EmptySet
    <3>2. ResolveFile(file, candidates) = ByTrailingSegments(file, candidates)
      BY <1>5, <2>3, <3>1
    <3> QED
      BY <3>2 DEF ByTrailingSegments
  <2>5. IsFiniteSet(candidates)
    <3> DEFINE f == [q \in indexed |-> <<"built">> \o q]
    <3>1. candidates = {f[q] : q \in indexed}
      BY <2>1
    <3> HIDE DEF f
    <3> QED
      BY <3>1, ImageIsFinite
  <2>6. \A c \in candidates : c \in Seq(S)
    BY <2>1, <2>2
  <2>7. \A c \in candidates : Trailing(file, c) \in Nat
    BY <1>4, <2>6, TrailingIsLongest
  <2>8. IsFiniteSet(D) /\ D \in SUBSET Int
    <3>1. IsFiniteSet({Trailing(file, c) : c \in candidates})
      <4> DEFINE P == {Trailing(file, c) : c \in candidates}
      <4>1. P = {T[c] : c \in candidates}
        OBVIOUS
      <4> HIDE DEF P, T
      <4>2. IsFiniteSet(P)
        BY <2>5, <4>1, ImageIsFinite
      <4> QED
        BY <4>2 DEF P
    <3>2. IsFiniteSet({Trailing(file, c) : c \in candidates} \cup {0})
      BY <3>1, FS_AddElement
    <3> QED
      BY <2>7, <3>2
  <2>9. best \in D /\ \A y \in D : best >= y
    <3> HIDE DEF D
    <3>1. D # {}
      BY DEF D
    <3> QED
      BY <2>8, <3>1, MaxOfSet
  <2>10. best \in Int /\ \A c \in candidates : Trailing(file, c) <= best
    BY <2>7, <2>8, <2>9
  <2> HIDE DEF D, best
  <2>11. SUFFICES ASSUME Cardinality(top) = 1 PROVE top = {own}
    <3>1. Cardinality(top) = 1 => top = {own}
      BY <2>11
    <3> HIDE DEF top
    <3> QED
      BY <2>4, <3>1 DEF file, candidates
  <2>12. PICK c : top = {c}
    <3>1. IsFiniteSet(top)
      BY <2>5, FS_Subset
    <3> HIDE DEF top
    <3> QED
      BY <2>11, <3>1, FS_Singleton
  <2>13. PICK q \in indexed : c = <<"built">> \o q
    BY <2>1, <2>12
  <2>14. own \in candidates /\ c \in candidates /\ Trailing(file, c) = best
    BY <2>1, <2>12
  <2>15. n <= Trailing(file, own)
    <3>1. Common(file, own, n)
      BY <1>2, <1>3, CopiesAgree DEF n
    <3> QED
      BY <1>4, <2>6, <2>14, <3>1, TrailingIsLongest
  <2>16. best < n + 1
    <3> SUFFICES ASSUME n + 1 <= best PROVE FALSE
      BY <1>2, <2>10
    <3>1. Common(file, c, best) /\ best \in Nat
      BY <1>4, <2>6, <2>14, TrailingIsLongest
    <3>2. best = n + 1
      BY <1>2, <1>4, <3>1 DEF Common
    <3>3. Common(file, q, n + 1)
      BY <1>2, <1>3, <2>2, <2>13, <3>1, <3>2, CopiesAgree DEF n
    <3>4. IsSuffix(file, q)
      BY <1>4, <2>2, <3>3, SuffixIsCommon
    <3> QED
      BY <1>1, <3>4
  <2>17. Trailing(file, own) = best
    BY <1>2, <2>7, <2>10, <2>14, <2>15, <2>16
  <2> QED
    BY <2>12, <2>14, <2>17
<1> QED
  BY <1>6, <1>7
--------------------------------------------------------------------------------
(***************************************************************************)
(* The inductive invariant: the reader of the program written so far stands   *)
(* where the last row left it, with the rows that were written.             *)
(***************************************************************************)
LEMMA EmptyProgram ==
  /\ <<>> \in Seq(SourceRows) /\ Len(<<>>) = 0
  /\ Program(<<>>) \in Seq(Operations) /\ Reader(Program(<<>>)) = AfterRows(<<>>)
<1> DEFINE e == <<>>
<1>1. e \in Seq(SourceRows) /\ e \in Seq(Operations) /\ Len(e) = 0 /\ DOMAIN e = {}
  OBVIOUS
<1>2. \A f : (f = [i \in {} |-> f[i]]) => f = e
  OBVIOUS
<1> HIDE DEF e
<1>3. Program(e) = e
  <2> DEFINE ss == [i \in DOMAIN e |-> Piece(e, i)]
  <2>1. Program(e) = FlattenSeq(ss)
    BY DEF Program, Piece
  <2>2. ss = e
    <3>1. ss = [i \in {} |-> ss[i]]
      BY <1>1
    <3> QED
      BY <1>2, <3>1
  <2> QED
    BY <1>1, <2>1, <2>2, FlattenIsTheJoin
<1>4. Reader(e) = Fresh
  <2>1. 1..0 = {}
    OBVIOUS
  <2> QED
    BY <1>1, <2>1, ReaderIsTheFold, ReadUnfolds
<1>5. WrittenOf(e) = e
  <2> DEFINE ss == [i \in DOMAIN e |-> RowAt(e[i].address, e[i].file, e[i].line, e[i].stmt)]
  <2>1. ss = [i \in {} |-> ss[i]]
    BY <1>1
  <2>2. WrittenOf(e) = ss
    BY DEF WrittenOf
  <2> QED
    BY <1>2, <2>1, <2>2
<1>6. AfterRows(e) = Reset(e)
  <2>1. Opens(e, Len(e) + 1)
    BY <1>1 DEF Opens
  <2> QED
    BY <1>5, <2>1 DEF AfterRows
<1>7. Fresh = Reset(e)
  BY DEF Fresh, Reset, e
<1> QED
  BY <1>1, <1>3, <1>4, <1>6, <1>7 DEF e

LineInv ==
    /\ source \in Seq(SourceRows) /\ Len(source) <= MaxRows
    /\ IsFiniteSet(indexed) /\ indexed \subseteq Paths /\ rooted \in BOOLEAN
    /\ Program(source) \in Seq(Operations) /\ Reader(Program(source)) = AfterRows(source)

\* A row is one that the reader's state can follow.
LEMMA WritesARow ==
  ASSUME LineInv, WriteRow
  PROVE  \E row \in SourceRows : source' = Append(source, row)
<1> DEFINE n == Len(source)
           from == Before(source, n + 1)
           opens == Opens(source, n + 1)
<1>1. source \in Seq(SourceRows) /\ n \in Nat /\ n + 1 \in 1..n + 1
  BY LenProperties DEF LineInv
<1>2. IsPlace(from) /\ opens \in BOOLEAN
  BY <1>1, RowsTyped
<1>3. from.address \in Nat /\ from.line \in Int /\ from.stmt \in BOOLEAN
  BY <1>2 DEF IsPlace
<1> HIDE DEF n, from, opens
<1>4. PICK da \in AddressSteps, dl \in LineSteps, file \in Files, last \in BOOLEAN :
          \E stmt \in IF last \/ file # from.file THEN {from.stmt} ELSE BOOLEAN :
             source' = Append(source,
                [address |-> from.address + da, file |-> file,
                 line |-> IF opens THEN FirstLine + n ELSE from.line + dl,
                 stmt |-> stmt, last |-> last])
  BY DEF WriteRow, n, from, opens
<1>5. PICK stmt \in BOOLEAN :
         source' = Append(source,
            [address |-> from.address + da, file |-> file,
             line |-> IF opens THEN FirstLine + n ELSE from.line + dl,
             stmt |-> stmt, last |-> last])
  BY <1>3, <1>4
<1>6. from.address + da \in Nat /\ from.line + dl \in Int /\ FirstLine + n \in Int
  BY <1>1, <1>3, LineTableAssumption
<1> QED
  BY <1>5, <1>6 DEF SourceRows

LEMMA LineInvHolds == LineSpec => []LineInv
<1>1. LineInit => LineInv
  <2> SUFFICES ASSUME LineInit PROVE LineInv
    OBVIOUS
  <2>1. source = <<>> /\ indexed = {} /\ rooted \in BOOLEAN
    BY DEF LineInit
  <2>2. IsFiniteSet(indexed) /\ indexed \subseteq Paths
    BY <2>1, FS_EmptySet
  <2>3. Len(source) <= MaxRows
    BY <2>1, EmptyProgram, LineTableAssumption
  <2> QED
    BY <2>1, <2>2, <2>3, EmptyProgram DEF LineInv
<1>2. LineInv /\ [LineNext]_lineVars => LineInv'
  <2> SUFFICES ASSUME LineInv, [LineNext]_lineVars PROVE LineInv'
    OBVIOUS
  <2>1. CASE WriteRow
    <3>1. PICK row \in SourceRows : source' = Append(source, row)
      BY <2>1, WritesARow
    <3>2. /\ source' \in Seq(SourceRows) /\ Len(source') = Len(source) + 1 /\ Len(source) \in Nat
      BY <3>1, AppendProperties, LenProperties DEF LineInv
    <3>3. Len(source') <= MaxRows
      BY <2>1, <3>2, LineTableAssumption DEF WriteRow
    <3>4. Program(source') \in Seq(Operations) /\ Reader(Program(source')) = AfterRows(source')
      BY <3>1, OneMoreRow DEF LineInv
    <3>5. UNCHANGED <<indexed, rooted>>
      BY <2>1 DEF WriteRow
    <3> QED
      BY <3>2, <3>3, <3>4, <3>5 DEF LineInv
  <2>2. CASE AddSource
    <3>1. PICK p \in Paths \ indexed : indexed' = indexed \cup {p}
      BY <2>2 DEF AddSource
    <3>2. IsFiniteSet(indexed') /\ indexed' \subseteq Paths
      BY <3>1, FS_AddElement DEF LineInv
    <3>3. UNCHANGED <<source, rooted>>
      BY <2>2 DEF AddSource
    <3> QED
      BY <3>2, <3>3 DEF LineInv
  <2>3. CASE UNCHANGED lineVars
    BY <2>3 DEF LineInv, lineVars
  <2> QED
    BY <2>1, <2>2, <2>3 DEF LineNext
<1> QED
  BY <1>1, <1>2, PTL DEF LineSpec

LEMMA IsAlwaysOnStatement ==
  ASSUME Written \in Seq(IndexRows), NEW file, NEW line
  PROVE  IsOnStatement(ResolveBreakpoint(Written, file, line), file, line)
<1> DEFINE b == ResolveBreakpoint(Written, file, line)
           from == LinesFrom(Written, file, line)
           lines == {s.line : s \in {x \in ToSet(Written) : x.stmt /\ x.file = file /\ x.line >= line}}
<1>1. lines = from
  BY DEF LinesFrom, ToSet, Statements
<1>2. /\ from = {} => b = <<>>
      /\ from # {} => \E j \in Statements(Written) :
            /\ Written[j].file = file /\ Written[j].line = Min(from)
            /\ b = <<[address |-> Written[j].address, line |-> Written[j].line]>>
  BY BreakpointIsFound
<1>3. IsOnStatement(b, file, line) <=>
          IF lines = {} THEN b = <<>>
          ELSE /\ b # <<>> /\ b[1].line = Min(lines)
               /\ \E s \in ToSet(Written) : /\ s.stmt /\ s.file = file
                                          /\ s.line = b[1].line /\ s.address = b[1].address
  BY DEF IsOnStatement
<1> HIDE DEF b, from, lines
<1>4. CASE from = {}
  BY <1>1, <1>2, <1>3, <1>4 DEF b
<1>5. CASE from # {}
  <2>1. PICK j \in Statements(Written) :
            /\ Written[j].file = file /\ Written[j].line = Min(from)
            /\ b = <<[address |-> Written[j].address, line |-> Written[j].line]>>
    BY <1>2, <1>5
  <2>2. b # <<>> /\ b[1].line = Written[j].line /\ b[1].address = Written[j].address
    BY <2>1
  <2>3. Written[j] \in ToSet(Written) /\ Written[j].stmt
    BY DEF ToSet, Statements
  <2> QED
    BY <1>1, <1>3, <1>5, <2>1, <2>2, <2>3 DEF b
<1> QED
  BY <1>4, <1>5

LEMMA ProgramIsRead ==
  ASSUME LineInv
  PROVE  Rows(Program(source)) = Written /\ Written \in Seq(IndexRows)
<1>1. source \in Seq(SourceRows) /\ Len(source) \in Nat /\ DOMAIN source = 1..Len(source)
  BY LenProperties DEF LineInv
<1>2. Written = WrittenOf(source)
  BY DEF Written, WrittenOf, RowAt
<1>3. Rows(Program(source)) = AfterRows(source).rows
  BY DEF Rows, Reader, LineInv
<1>4. AfterRows(source).rows = WrittenOf(source)
  BY DEF AfterRows, Reset, Machine
<1>5. Written \in Seq(IndexRows)
  <2>1. \A i \in 1..Len(source) : source[i] \in SourceRows
    BY <1>1, ElementOfSeq
  <2>2. \A i \in 1..Len(source) : [address |-> source[i].address, file |-> source[i].file,
                                    line |-> source[i].line, stmt |-> source[i].stmt] \in IndexRows
    BY <2>1 DEF SourceRows, IndexRows
  <2> QED
    BY <1>1, <2>2 DEF Written
<1> QED
  BY <1>2, <1>3, <1>4, <1>5

LEMMA LineInvResolves ==
  ASSUME LineInv
  PROVE  SourcesResolve
<1>1. source \in Seq(SourceRows) /\ DOMAIN source = 1..Len(source)
  BY LenProperties DEF LineInv
<1>2. LineTypeOK
  <2>1. \A i \in DOMAIN source : source[i] \in SourceRows
    BY <1>1, ElementOfSeq
  <2> QED
    BY <2>1 DEF LineInv, LineTypeOK, SourceRows
<1>3. ProgramResolves
  <2> DEFINE rows == Rows(Program(source))
  <2>1. rows = Written /\ rows \in Seq(IndexRows)
    BY ProgramIsRead
  <2>2. ProgramResolves <=>
            /\ rows = Written
            /\ \A file \in Files, line \in Asked :
                  LET b == ResolveBreakpoint(rows, file, line)
                  IN  IsOnStatement(b, file, line) /\ IsShown(rows, b, file)
            /\ \A r \in ToSet(rows) : IsBefore(rows, r.address)
    BY DEF ProgramResolves
  <2> HIDE DEF rows
  <2>3. ASSUME NEW file \in Files, NEW line \in Asked
        PROVE  LET b == ResolveBreakpoint(rows, file, line)
               IN  IsOnStatement(b, file, line) /\ IsShown(rows, b, file)
    <3>1. IsOnStatement(ResolveBreakpoint(rows, file, line), file, line)
      BY <2>1, IsAlwaysOnStatement
    <3>2. IsShown(rows, ResolveBreakpoint(rows, file, line), file)
      BY <2>1, BreakpointIsShown
    <3> QED
      BY <3>1, <3>2
  <2>4. ASSUME NEW r \in ToSet(rows) PROVE IsBefore(rows, r.address)
    <3>1. PICK i \in DOMAIN rows : r = rows[i]
      BY DEF ToSet
    <3>2. r.address \in Int
      BY <2>1, <3>1, IndexedRows
    <3> QED
      BY <2>1, <3>2, CallerIsBefore
  <2> QED
    BY <2>1, <2>2, <2>3, <2>4
<1>4. NeverAnotherFile
  BY IsNeverAnotherFile DEF LineInv
<1> QED
  BY <1>2, <1>3, <1>4 DEF SourcesResolve

(* A breakpoint is placed on a statement of its file and line, or the next with  *)
(* code, and shown there; a file opened from a copy is its source or none: for   *)
(* every header of a line program (the base and the range of lines, the first    *)
(* special opcode), every number of rows and sequences, and every set of         *)
(* sources none of which ends with the path of a copy.                         *)
THEOREM SourcesAreResolved == LineSpec => []SourcesResolve
<1>1. LineInv => SourcesResolve
  BY LineInvResolves
<1> QED
  BY <1>1, LineInvHolds, PTL
================================================================================
