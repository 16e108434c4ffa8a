--------------------------- MODULE SequenceFacts ----------------------------
(***************************************************************************)
(* Facts about the sequence operators the metadata modules are built from: *)
(* what flattening a sequence of sequences returns, and that a selection   *)
(* finds the first place there is.  They are proved by induction over the  *)
(* natural numbers, stated for sets because it is then first-order.        *)
(***************************************************************************)
EXTENDS SequencesExt, Integers, TLAPS, SequenceTheorems, WellFoundedInduction

-----------------------------------------------------------------------------
LEMMA LeastOfNaturals ==
  ASSUME NEW S \in SUBSET Nat, S # {}
  PROVE  \E n \in S : \A m \in S : n <= m
<1>1. IsWellFoundedOn(OpToRel(<, Nat), Nat)
  BY NatLessThanWellFounded
<1>2. PICK n \in S : \A m \in S : ~(<<m, n>> \in OpToRel(<, Nat))
  BY <1>1, WFMin
<1>3. ASSUME NEW m \in S, ~(n <= m) PROVE FALSE
  <2>1. n \in Nat /\ m \in Nat /\ m < n
    BY <1>3
  <2>2. <<m, n>> \in OpToRel(<, Nat)
    BY <2>1 DEF OpToRel
  <2> QED BY <1>2, <2>2
<1> QED BY <1>2, <1>3

(* Induction, with a set for the predicate *)
LEMMA SetInduction ==
  ASSUME NEW S, 0 \in S, \A n \in Nat : n \in S => n + 1 \in S
  PROVE  Nat \subseteq S
<1> SUFFICES ASSUME Nat \ S # {} PROVE FALSE
  OBVIOUS
<1>1. PICK n \in Nat \ S : \A m \in Nat \ S : n <= m
  BY LeastOfNaturals
<1>2. n - 1 \in Nat /\ n - 1 \notin S
  OBVIOUS
<1> QED BY <1>1, <1>2

LEMMA MinIsLeast ==
  ASSUME NEW S \in SUBSET Nat, S # {}
  PROVE  Min(S) \in S /\ \A m \in S : Min(S) <= m
<1>1. PICK n \in S : \A m \in S : n <= m
  BY LeastOfNaturals
<1> QED BY <1>1 DEF Min

-----------------------------------------------------------------------------
(* f holds what the recursion in FlattenSeq computes, up to n. *)
Flattens(f, seqs, n) ==
  \A i \in 1..n : f[i] = IF i = 1 THEN seqs[i] ELSE f[i - 1] \o seqs[i]

(* The recursion in FlattenSeq is well founded. *)
LEMMA FlattenSeqDef ==
  ASSUME NEW seqs, Len(seqs) \in Nat, Len(seqs) # 0
  PROVE \E f : Flattens(f, seqs, Len(seqs)) /\ FlattenSeq(seqs) = f[Len(seqs)]
<1> DEFINE S == { n \in Nat : \E f : Flattens(f, seqs, n) }
<1>1. 0 \in S
  BY DEF Flattens
<1>2. ASSUME NEW n \in Nat, n \in S PROVE n + 1 \in S
  <2>1. PICK f : Flattens(f, seqs, n)
    BY <1>2
  <2> DEFINE g == [i \in 1..(n + 1) |-> IF i <= n THEN f[i]
                                        ELSE IF i = 1 THEN seqs[i] ELSE f[n] \o seqs[i]]
  <2>2. \A i \in 1..n : g[i] = f[i]
    OBVIOUS
  <2>3. g[n + 1] = IF n + 1 = 1 THEN seqs[n + 1] ELSE f[n] \o seqs[n + 1]
    OBVIOUS
  <2> HIDE DEF g
  <2>4. \A i \in 1..n : i = 1 \/ i - 1 \in 1..n
    OBVIOUS
  <2>5. \A i \in 1..n : g[i] = IF i = 1 THEN seqs[i] ELSE g[i - 1] \o seqs[i]
    BY <2>1, <2>2, <2>4 DEF Flattens
  <2>6. g[n + 1] = IF n + 1 = 1 THEN seqs[n + 1] ELSE g[n] \o seqs[n + 1]
    BY <2>2, <2>3
  <2>7. \A i \in 1..(n + 1) : i \in 1..n \/ (i = n + 1 /\ i - 1 = n)
    OBVIOUS
  <2>8. Flattens(g, seqs, n + 1)
    BY <2>5, <2>6, <2>7 DEF Flattens
  <2> QED BY <2>8
<1>3. PICK f : Flattens(f, seqs, Len(seqs))
  <2> HIDE DEF S
  <2>1. Nat \subseteq S
    BY <1>1, <1>2, SetInduction
  <2> QED BY <2>1 DEF S
<1> DEFINE h == [i \in 1..Len(seqs) |-> f[i]]
<1>4. h = [i \in 1..Len(seqs) |-> IF i = 1 THEN seqs[i] ELSE h[i - 1] \o seqs[i]]
  BY <1>3 DEF Flattens
<1> HIDE DEF h
<1> DEFINE k == CHOOSE h_1 : h_1 = [i \in 1..Len(seqs) |-> IF i = 1 THEN seqs[i] ELSE h_1[i - 1] \o seqs[i]]
<1>5. k = [i \in 1..Len(seqs) |-> IF i = 1 THEN seqs[i] ELSE k[i - 1] \o seqs[i]]
  BY <1>4
<1>6. FlattenSeq(seqs) = k[Len(seqs)]
  BY DEF FlattenSeq
<1> HIDE DEF k
<1> QED BY <1>5, <1>6 DEF Flattens

(* s lists the elements of the first n of the sequences seqs: row and col  *)
(* say where each comes from, every place is listed, and in order.         *)
Lists(s, seqs, n, row, col) ==
  /\ \A p \in 1..Len(s) :
       /\ row[p] \in 1..n /\ col[p] \in 1..Len(seqs[row[p]])
       /\ s[p] = seqs[row[p]][col[p]]
  /\ \A i \in 1..n : \A j \in 1..Len(seqs[i]) :
       \E p \in 1..Len(s) : row[p] = i /\ col[p] = j
  /\ \A p, q \in 1..Len(s) : p < q =>
       row[p] < row[q] \/ (row[p] = row[q] /\ col[p] < col[q])

LEMMA ListsMore ==
  ASSUME NEW T, NEW seqs \in Seq(Seq(T)), NEW n \in Nat, n + 1 \in 1..Len(seqs),
         NEW s \in Seq(T), NEW row, NEW col, Lists(s, seqs, n, row, col)
  PROVE  \E r, c : Lists(s \o seqs[n + 1], seqs, n + 1, r, c)
<1> DEFINE next == seqs[n + 1]
           t == s \o next
           m == Len(s)
           row_1 == [p \in 1..Len(t) |-> IF p <= m THEN row[p] ELSE n + 1]
           col_1 == [p \in 1..Len(t) |-> IF p <= m THEN col[p] ELSE p - m]
<1>1. next \in Seq(T) /\ Len(next) \in Nat /\ m \in Nat
  OBVIOUS
<1> HIDE DEF next, m
<1>2. /\ t \in Seq(T) /\ Len(t) = m + Len(next)
      /\ \A p \in 1..m : t[p] = s[p]
      /\ \A p \in 1..Len(t) : p > m => t[p] = next[p - m]
  BY <1>1 DEF m
<1> HIDE DEF t
<1>3. ASSUME NEW p \in 1..Len(t)
      PROVE  \/ p \in 1..m /\ row_1[p] = row[p] /\ col_1[p] = col[p] /\ t[p] = s[p]
             \/ /\ p \notin 1..m /\ p - m \in 1..Len(next)
                /\ row_1[p] = n + 1 /\ col_1[p] = p - m /\ t[p] = next[p - m]
  <2>1. p \in Nat /\ (p \in 1..m \/ (p > m /\ ~(p <= m) /\ p - m \in 1..Len(next)))
    BY <1>1, <1>2
  <2> QED BY <1>2, <2>1
<1> HIDE DEF row_1, col_1
<1>4. ASSUME NEW p \in 1..Len(t)
      PROVE  /\ row_1[p] \in 1..(n + 1) /\ col_1[p] \in 1..Len(seqs[row_1[p]])
             /\ t[p] = seqs[row_1[p]][col_1[p]]
  <2>1. CASE p \in 1..m
    <3>1. row[p] \in 1..n /\ col[p] \in 1..Len(seqs[row[p]]) /\ s[p] = seqs[row[p]][col[p]]
      BY <2>1 DEF Lists, m
    <3>2. row[p] \in 1..(n + 1)
      BY <3>1
    <3> QED BY <1>3, <2>1, <3>1, <3>2
  <2>2. CASE p \notin 1..m
    <3>1. n + 1 \in 1..(n + 1)
      OBVIOUS
    <3> QED BY <1>3, <2>2, <3>1 DEF next
  <2> QED BY <2>1, <2>2
<1>5. ASSUME NEW i \in 1..(n + 1), NEW j \in 1..Len(seqs[i])
      PROVE  \E p \in 1..Len(t) : row_1[p] = i /\ col_1[p] = j
  <2>1. CASE i \in 1..n
    <3>1. PICK p \in 1..m : row[p] = i /\ col[p] = j
      BY <2>1 DEF Lists, m
    <3>2. p \in 1..Len(t)
      BY <1>1, <1>2
    <3> QED BY <1>3, <3>1, <3>2
  <2>2. CASE i = n + 1
    <3>1. j \in 1..Len(next)
      BY <2>2 DEF next
    <3>2. m + j \in 1..Len(t) /\ m + j \notin 1..m /\ (m + j) - m = j
      BY <1>1, <1>2, <3>1
    <3> QED BY <1>3, <2>2, <3>2
  <2> QED BY <2>1, <2>2
<1>6. ASSUME NEW p \in 1..Len(t), NEW q \in 1..Len(t), p < q
      PROVE  row_1[p] < row_1[q] \/ (row_1[p] = row_1[q] /\ col_1[p] < col_1[q])
  <2>1. CASE q \in 1..m
    <3>1. p \in 1..m
      BY <1>1, <1>6, <2>1
    <3>2. row[p] < row[q] \/ (row[p] = row[q] /\ col[p] < col[q])
      BY <1>6, <2>1, <3>1 DEF Lists, m
    <3> QED BY <1>3, <2>1, <3>1, <3>2
  <2>2. CASE p \in 1..m /\ q \notin 1..m
    <3>1. row[p] \in 1..n
      BY <2>2 DEF Lists, m
    <3>2. row[p] < n + 1
      BY <3>1
    <3> QED BY <1>3, <2>2, <3>2
  <2>3. CASE p \notin 1..m
    <3>1. q \notin 1..m /\ p - m < q - m
      BY <1>1, <1>2, <1>6, <2>3
    <3> QED BY <1>3, <2>3, <3>1
  <2> QED BY <2>1, <2>2, <2>3
<1>7. Lists(t, seqs, n + 1, row_1, col_1)
  BY <1>4, <1>5, <1>6 DEF Lists
<1> QED BY <1>7 DEF t, next

(* Flattening keeps every element, adds none, and keeps their order. *)
LEMMA FlattenSeqLists ==
  ASSUME NEW T, NEW seqs \in Seq(Seq(T))
  PROVE  /\ FlattenSeq(seqs) \in Seq(T)
         /\ \E row, col : Lists(FlattenSeq(seqs), seqs, Len(seqs), row, col)
<1>1. CASE Len(seqs) = 0
  <2>1. FlattenSeq(seqs) = seqs /\ seqs = << >>
    BY <1>1 DEF FlattenSeq
  <2> QED BY <1>1, <2>1 DEF Lists
<1>2. CASE Len(seqs) # 0
  <2>1. PICK f : Flattens(f, seqs, Len(seqs)) /\ FlattenSeq(seqs) = f[Len(seqs)]
    BY <1>2, FlattenSeqDef
  <2> DEFINE Listed(n) == f[n] \in Seq(T) /\ \E row, col : Lists(f[n], seqs, n, row, col)
             S == { n \in Nat : n \in 1..Len(seqs) => Listed(n) }
  <2>2. 0 \in S
    OBVIOUS
  <2>3. ASSUME NEW n \in Nat, n \in S PROVE n + 1 \in S
    <3> SUFFICES ASSUME n + 1 \in 1..Len(seqs) PROVE Listed(n + 1)
      OBVIOUS
    <3>1. CASE n = 0
      <4>1. f[1] = seqs[1] /\ seqs[1] \in Seq(T)
        BY <2>1, <2>3, <3>1 DEF Flattens
      <4>2. Lists(seqs[1], seqs, 1, [p \in 1..Len(seqs[1]) |-> 1], [p \in 1..Len(seqs[1]) |-> p])
        BY <4>1 DEF Lists
      <4> QED BY <3>1, <4>1, <4>2
    <3>2. CASE n # 0
      <4>1. n \in 1..Len(seqs) /\ Listed(n)
        BY <2>3, <3>2
      <4>2. f[n + 1] = f[n] \o seqs[n + 1]
        <5>1. n + 1 # 1 /\ (n + 1) - 1 = n
          BY <3>2
        <5> QED BY <2>1, <2>3, <5>1 DEF Flattens
      <4>3. f[n + 1] \in Seq(T)
        BY <2>3, <4>1, <4>2
      <4> QED BY <2>3, <4>1, <4>2, <4>3, ListsMore
    <3> QED BY <3>1, <3>2
  <2>5. Len(seqs) \in S
    <3> HIDE DEF S
    <3> QED BY <2>2, <2>3, SetInduction
  <2> HIDE DEF Listed
  <2>6. Listed(Len(seqs))
    BY <1>2, <2>5
  <2> QED BY <2>1, <2>6 DEF Listed
<1> QED BY <1>1, <1>2

(* The same for sequences of which it is not known what is in them *)
LEMMA FlattenedSequences ==
  ASSUME NEW n \in Nat, NEW seqs, seqs = [i \in 1..n |-> seqs[i]],
         \A i \in 1..n : seqs[i] \in Seq(Range(seqs[i]))
  PROVE  /\ Len(FlattenSeq(seqs)) \in Nat
         /\ DOMAIN FlattenSeq(seqs) = 1..Len(FlattenSeq(seqs))
         /\ FlattenSeq(seqs) \in Seq(Range(FlattenSeq(seqs)))
         /\ \E row, col : Lists(FlattenSeq(seqs), seqs, n, row, col)
<1> DEFINE T == UNION { Range(seqs[i]) : i \in 1..n }
<1>1. ASSUME NEW i \in 1..n PROVE seqs[i] \in Seq(T)
  <2>1. Range(seqs[i]) \subseteq T
    OBVIOUS
  <2> HIDE DEF T
  <2> QED BY <2>1, SeqMonotonic
<1> HIDE DEF T
<1>2. seqs \in Seq(Seq(T)) /\ Len(seqs) = n
  BY <1>1
<1>3. /\ FlattenSeq(seqs) \in Seq(T)
      /\ \E row, col : Lists(FlattenSeq(seqs), seqs, n, row, col)
  BY <1>2, FlattenSeqLists
<1>4. ASSUME NEW s \in Seq(T)
      PROVE  Len(s) \in Nat /\ DOMAIN s = 1..Len(s) /\ s \in Seq(Range(s))
  BY <1>4 DEF Range
<1> QED BY <1>3, <1>4

LEMMA MaxIsLast ==
  ASSUME NEW n \in Nat, NEW s \in SUBSET (1..n), n \in s
  PROVE  Max(s) = n
<1>1. \A m \in s : m \in Nat /\ n >= m
  OBVIOUS
<1>2. \A m \in s : m >= n => m = n
  BY <1>1
<1> QED BY <1>1, <1>2 DEF Max

=============================================================================
