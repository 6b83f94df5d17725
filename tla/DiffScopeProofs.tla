-------------------------- MODULE DiffScopeProofs ---------------------------
(***************************************************************************)
(* Proofs about the scoping of a diff, for every edit, every size of the   *)
(* file, every number of context lines and every budget.                   *)
(***************************************************************************)
EXTENDS DiffScope, ListProofs

Line == [mark : {" ", "+", "-"}, kind : Kinds]

-----------------------------------------------------------------------------
(* Positions and line numbers. *)

(* A set of natural numbers that is not empty has a least element. *)
LEMMA MinRight ==
  ASSUME NEW S \in SUBSET Nat, S # {}
  PROVE  Min(S) \in S /\ \A y \in S : Min(S) <= y
<1>1. PICK x \in S : \A y \in S : ~(<<y, x>> \in OpToRel(<, Nat))
  BY WFMin, NatLessThanWellFounded, Zenon
<1>2. \A y \in S : ~(y < x)
  BY <1>1, Zenon DEF OpToRel
<1>3. x \in S /\ \A y \in S : x <= y
  BY <1>2
<1>. QED
  BY <1>3, Zenon DEF Min

(* A bounded one has a greatest element. *)
LEMMA MaxRight ==
  ASSUME NEW n \in Nat, NEW S \in SUBSET (1..n), S # {}
  PROVE  Max(S) \in S /\ \A y \in S : Max(S) >= y
<1>. DEFINE U == {u \in Nat : \A y \in S : y <= u}
            m == Min(U)
<1>1. n \in U
  OBVIOUS
<1>2. m \in U /\ \A u \in U : m <= u
  BY <1>1, MinRight
<1>. HIDE DEF m
<1>3. m \in Nat /\ \A y \in S : y <= m
  BY <1>2
<1>4. m \in S
  <2>. SUFFICES ASSUME m \notin S
                PROVE  FALSE
    OBVIOUS
  <2>1. m # 0
    <3>1. PICK y \in S : y \in 1..n
      OBVIOUS
    <3>. QED
      BY <1>3, <3>1
  <2>2. m - 1 \in U
    BY <1>3, <2>1
  <2>. QED
    BY <1>2, <1>3, <2>2
<1>5. m \in S /\ \A y \in S : m >= y
  BY <1>3, <1>4
<1>. QED
  BY <1>5, Zenon DEF Max

(* The sides of an edit are made of its positions. *)
LEMMA Sides ==
  ASSUME edit \in Seq(Line)
  PROVE  /\ Len(edit) \in Nat /\ DOMAIN edit = 1..Len(edit)
         /\ \A i \in 1..Len(edit) : edit[i] \in Line
         /\ NewSide \in SUBSET (1..Len(edit)) /\ IsFiniteSet(NewSide)
         /\ Edited \in SUBSET (1..Len(edit))
<1>1. /\ Len(edit) \in Nat /\ DOMAIN edit = 1..Len(edit)
      /\ \A i \in 1..Len(edit) : edit[i] \in Line
  OBVIOUS
<1>2. NewSide \in SUBSET (1..Len(edit)) /\ Edited \in SUBSET (1..Len(edit))
  BY <1>1 DEF NewSide, Edited
<1>3. IsFiniteSet(1..Len(edit))
  BY <1>1, FS_Interval
<1>4. IsFiniteSet(NewSide)
  BY <1>2, <1>3, FS_Subset
<1>. QED
  BY <1>1, <1>2, <1>4

(* The lines of the new file before a position. *)
Before(i) == {j \in NewSide : j < i}

(* They are a finite set. *)
LEMMA BeforeFinite ==
  ASSUME edit \in Seq(Line), NEW i
  PROVE  /\ IsFiniteSet(Before(i)) /\ Cardinality(Before(i)) \in Nat
         /\ NewLine(i) = 1 + Cardinality(Before(i)) /\ NewLine(i) \in Nat \ {0}
<1>1. Before(i) \in SUBSET NewSide
  BY DEF Before
<1>2. IsFiniteSet(Before(i))
  BY <1>1, Sides, FS_Subset
<1>3. Cardinality(Before(i)) \in Nat
  BY <1>2, FS_CardinalityType
<1>4. NewLine(i) = 1 + Cardinality(Before(i))
  BY DEF NewLine, Before
<1>. QED
  BY <1>2, <1>3, <1>4

(* A line of the new file counts for the positions after it. *)
LEMMA NewLineStep ==
  ASSUME edit \in Seq(Line), NEW i \in Nat
  PROVE  NewLine(i + 1) = IF i \in NewSide THEN NewLine(i) + 1 ELSE NewLine(i)
<1>1. \A k \in NewSide : k \in Nat
  BY Sides
<1>2. CASE i \in NewSide
  <2>1. Before(i + 1) = Before(i) \cup {i} /\ i \notin Before(i)
    <3>1. \A k \in NewSide : k < i + 1 <=> k < i \/ k = i
      BY <1>1
    <3>2. ~(i < i)
      OBVIOUS
    <3>. QED
      BY <1>2, <3>1, <3>2, Zenon DEF Before
  <2>2. Cardinality(Before(i + 1)) = Cardinality(Before(i)) + 1
    BY <2>1, BeforeFinite, FS_AddElement
  <2>. QED
    BY <1>2, <2>2, BeforeFinite
<1>3. CASE i \notin NewSide
  <2>1. Before(i + 1) = Before(i)
    BY <1>1, <1>3 DEF Before
  <2>. QED
    BY <1>3, <2>1, BeforeFinite
<1>. QED
  BY <1>2, <1>3

(* Line numbers follow the order of the positions. *)
LEMMA NewLineOrder ==
  ASSUME edit \in Seq(Line), NEW i \in Nat, NEW j \in Nat, i <= j
  PROVE  /\ NewLine(i) <= NewLine(j)
         /\ i \in NewSide /\ i < j => NewLine(i) < NewLine(j)
         /\ (\A k \in NewSide : ~(i <= k /\ k < j)) => NewLine(i) = NewLine(j)
<1>1. \A k \in NewSide : k \in Nat
  BY Sides
<1>2. Before(i) \in SUBSET Before(j)
  BY <1>1 DEF Before
<1>3. /\ Cardinality(Before(i)) <= Cardinality(Before(j))
      /\ Cardinality(Before(j)) = Cardinality(Before(i)) => Before(j) = Before(i)
  BY <1>2, BeforeFinite, FS_Subset
<1>4. /\ NewLine(i) = 1 + Cardinality(Before(i))
      /\ NewLine(j) = 1 + Cardinality(Before(j))
      /\ Cardinality(Before(i)) \in Nat /\ Cardinality(Before(j)) \in Nat
  BY BeforeFinite
<1>5. NewLine(i) <= NewLine(j)
  BY <1>3, <1>4
<1>6. ASSUME i \in NewSide, i < j
      PROVE  NewLine(i) < NewLine(j)
  <2>1. i \in Before(j) /\ i \notin Before(i)
    BY <1>6 DEF Before
  <2>2. Cardinality(Before(j)) # Cardinality(Before(i))
    BY <1>3, <2>1
  <2>. QED
    BY <1>3, <1>4, <2>2
<1>7. ASSUME \A k \in NewSide : ~(i <= k /\ k < j)
      PROVE  NewLine(i) = NewLine(j)
  <2>1. Before(j) = Before(i)
    BY <1>1, <1>7 DEF Before
  <2>. QED
    BY <1>4, <2>1
<1>. QED
  BY <1>5, <1>6, <1>7

(* The number of a line, and of the line after the last. *)
LEMMA NewLineBound ==
  ASSUME edit \in Seq(Line), NEW i \in 1..(Len(edit) + 1)
  PROVE  NewLine(i) \in 1..(Len(edit) + 1)
<1>. DEFINE n == Len(edit)
<1>1. n \in Nat /\ NewSide \in SUBSET (1..n)
  BY Sides
<1>. HIDE DEF n
<1>2. IsFiniteSet(1..n) /\ Cardinality(1..n) = n
  <2>1. /\ 1 \in Int /\ n \in Int
        /\ (IF 1 > n THEN 0 ELSE n - 1 + 1) = n
    BY <1>1
  <2>. QED
    BY <2>1, FS_Interval
<1>3. Before(i) \in SUBSET (1..n)
  BY <1>1 DEF Before
<1>4. Cardinality(Before(i)) <= n
  BY <1>2, <1>3, FS_Subset
<1>5. Cardinality(Before(i)) \in Nat /\ NewLine(i) = 1 + Cardinality(Before(i))
  BY BeforeFinite
<1>6. NewLine(i) \in 1..(n + 1)
  BY <1>1, <1>4, <1>5
<1>. QED
  BY <1>6 DEF n

-----------------------------------------------------------------------------
(* Parsing the patch. *)

PatchLine == [mark : {"@@", " ", "+", "-", "\\"}, start : Nat]
Acc == [line_no : Nat, changed : SUBSET Nat]

Parsed(patch) == FoldLeft(ParseLine, [line_no |-> 0, changed |-> {}], patch)

(* What a line of the patch does to the number and to the set. *)
LEMMA ParseLineRight ==
  ASSUME NEW acc \in Acc, NEW raw \in PatchLine
  PROVE  LET next == ParseLine(acc, raw)
         IN  /\ next \in Acc
             /\ raw.mark = "@@" =>
                  next.line_no = raw.start /\ next.changed = acc.changed
             /\ raw.mark \in {" ", "+"} => next.line_no = acc.line_no + 1
             /\ raw.mark = "-" => next.line_no = acc.line_no
             /\ raw.mark = " " => next.changed = acc.changed
             /\ raw.mark \in {"+", "-"} =>
                  next.changed = acc.changed \cup {acc.line_no}
             /\ raw.mark = "\\" => next = acc
<1>1. CASE raw.mark = "@@"
  BY <1>1 DEF ParseLine, Acc, PatchLine
<1>2. CASE raw.mark = "+"
  <2>1. ParseLine(acc, raw) = [line_no |-> acc.line_no + 1,
                               changed |-> acc.changed \cup {acc.line_no}]
    BY <1>2 DEF ParseLine
  <2>2. acc.line_no + 1 \in Nat /\ acc.changed \cup {acc.line_no} \in SUBSET Nat
    BY DEF Acc
  <2>. QED
    BY <1>2, <2>1, <2>2 DEF Acc
<1>3. CASE raw.mark = "-"
  BY <1>3 DEF ParseLine, Acc, PatchLine
<1>4. CASE raw.mark = " "
  <2>1. ParseLine(acc, raw) = [acc EXCEPT !.line_no = @ + 1]
    BY <1>4 DEF ParseLine
  <2>2. acc.line_no + 1 \in Nat
    BY DEF Acc
  <2>. QED
    BY <1>4, <2>1, <2>2 DEF Acc
<1>5. CASE raw.mark = "\\"
  BY <1>5 DEF ParseLine, Acc, PatchLine
<1>. QED
  BY <1>1, <1>2, <1>3, <1>4, <1>5 DEF PatchLine

(* The loop of parse_changed_lines takes one line after the other. *)
LEMMA ParsedSteps ==
  /\ Parsed(<<>>) = [line_no |-> 0, changed |-> {}]
  /\ \A s \in Seq(PatchLine) :
       /\ Parsed(s) \in Acc
       /\ \A x \in PatchLine : Parsed(Append(s, x)) = ParseLine(Parsed(s), x)
<1>. DEFINE base == [line_no |-> 0, changed |-> {}]
            f == [p \in Acc \X PatchLine |-> ParseLine(p[1], p[2])]
<1>1. base \in Acc
  BY DEF Acc
<1>. HIDE DEF base
<1>2. \A a \in Acc, x \in PatchLine :
        f[<<a, x>>] = ParseLine(a, x) /\ f[<<a, x>>] \in Acc
  BY ParseLineRight
<1>3. PICK F : FoldsAll(F, Acc, PatchLine, f, base)
  <2>1. \A a \in Acc, x \in PatchLine : f[<<a, x>>] \in Acc
    BY <1>2
  <2>. HIDE DEF f
  <2>. QED
    BY <1>1, <2>1, FoldSteps
<1>4. ASSUME NEW s \in Seq(PatchLine)
      PROVE  Parsed(s) = F[s]
  <2>. DEFINE n == Len(s)
              iter[t \in SUBSET (DOMAIN s)] ==
                IF t = {} THEN base ELSE ParseLine(iter[t \ {Max(t)}], s[Max(t)])
  <2>1. n \in Nat /\ DOMAIN s = 1..n /\ \A i \in 1..n : s[i] \in PatchLine
    OBVIOUS
  <2>. HIDE DEF n
  <2>2. PICK h : /\ IsFold(h, f, base, s)
                 /\ \A t \in SUBSET (DOMAIN s) : h[t] \in Acc
                 /\ F[s] = h[DOMAIN s]
    BY <1>3 DEF FoldsAll
  <2>3. ASSUME NEW t \in SUBSET (1..n), t # {}
        PROVE  t \ {Max(t)} \in SUBSET (1..n) /\ s[Max(t)] \in PatchLine
    <3>1. Max(t) \in t
      BY <2>1, <2>3, MaxRight
    <3>. QED
      BY <2>1, <3>1
  <2>4. h = [t \in SUBSET (DOMAIN s) |->
               IF t = {} THEN base ELSE ParseLine(h[t \ {Max(t)}], s[Max(t)])]
    <3>1. h = [t \in SUBSET (DOMAIN s) |->
                 IF t = {} THEN base ELSE f[<<h[t \ {Max(t)}], s[Max(t)]>>]]
      BY <2>2 DEF IsFold
    <3>2. \A t \in SUBSET (DOMAIN s) : t # {} =>
            f[<<h[t \ {Max(t)}], s[Max(t)]>>] = ParseLine(h[t \ {Max(t)}], s[Max(t)])
      BY <1>2, <2>1, <2>2, <2>3
    <3>. HIDE DEF f
    <3>. QED
      BY <3>1, <3>2
  <2>5. iter = [t \in SUBSET (DOMAIN s) |->
                  IF t = {} THEN base
                  ELSE ParseLine(iter[t \ {Max(t)}], s[Max(t)])]
    BY <2>4
  <2>6. Parsed(s) = iter[DOMAIN s]
    BY DEF Parsed, FoldLeft, MapThenFoldSet, base
  <2>. HIDE DEF iter
  <2>. DEFINE V == {iter[t] : t \in SUBSET (1..n)} \cup {h[t] : t \in SUBSET (1..n)}
              g == [p \in V \X PatchLine |-> ParseLine(p[1], p[2])]
  <2>7. \A a \in V, x \in PatchLine : g[<<a, x>>] = ParseLine(a, x)
    OBVIOUS
  <2>8. \A t \in SUBSET (1..n) : iter[t] \in V /\ h[t] \in V
    OBVIOUS
  <2>. HIDE DEF g, V
  <2>9. \A t \in SUBSET (1..n) : t # {} =>
          /\ g[<<h[t \ {Max(t)}], s[Max(t)]>>] = ParseLine(h[t \ {Max(t)}], s[Max(t)])
          /\ g[<<iter[t \ {Max(t)}], s[Max(t)]>>]
               = ParseLine(iter[t \ {Max(t)}], s[Max(t)])
    BY <2>3, <2>7, <2>8
  <2>10. IsFold(h, g, base, s) /\ IsFold(iter, g, base, s)
    BY <2>1, <2>4, <2>5, <2>9 DEF IsFold
  <2>11. FoldsOn(h, s, n, iter, s, n, g, base)
    BY <2>1, <2>10 DEF FoldsOn
  <2>12. h[1..n] = iter[1..n]
    BY <2>11, FoldAgrees
  <2>. QED
    BY <2>1, <2>2, <2>6, <2>12
<1>. HIDE DEF f
<1>5. Parsed(<<>>) = base
  <2>1. <<>> \in Seq(PatchLine)
    OBVIOUS
  <2>. QED
    BY <1>3, <1>4, <2>1 DEF FoldsAll
<1>6. ASSUME NEW s \in Seq(PatchLine)
      PROVE  Parsed(s) \in Acc
  BY <1>3, <1>4 DEF FoldsAll
<1>7. ASSUME NEW s \in Seq(PatchLine), NEW x \in PatchLine
      PROVE  Parsed(Append(s, x)) = ParseLine(Parsed(s), x)
  <2>1. Append(s, x) \in Seq(PatchLine)
    OBVIOUS
  <2>2. Parsed(Append(s, x)) = f[<<F[s], x>>] /\ F[s] \in Acc
    BY <1>3, <1>4, <2>1 DEF FoldsAll
  <2>. QED
    BY <1>2, <1>4, <2>2
<1>. QED
  BY <1>5, <1>6, <1>7 DEF base

(* The neighbours of a changed line are in the patch, and it is itself. *)
LEMMA NeighboursInPatch ==
  ASSUME edit \in Seq(Line), NEW i \in Edited
  PROVE  InPatch(i) /\ InPatch(i + 1) /\ InPatch(i - 1)
<1>1. i \in Nat /\ ContextLines \in Nat \ {0}
  BY Sides, ContextAssumption
<1>2. /\ i <= i + ContextLines
      /\ i + 1 <= i + ContextLines /\ i <= i + 1 + ContextLines
      /\ i - 1 <= i + ContextLines /\ i <= i - 1 + ContextLines
  BY <1>1
<1>. QED
  BY <1>2 DEF InPatch

(* The header of a hunk has the number of its first line: since there is   *)
(* context, a hunk without a line of the new file would be the whole edit. *)
LEMMA HunkStartRight ==
  ASSUME edit \in Seq(Line), NewSide # {}, NEW i \in DOMAIN edit, InPatch(i),
         ~(i > 1 /\ InPatch(i - 1))
  PROVE  HunkStart(i) = NewLine(i)
<1>. DEFINE n == Len(edit)
<1>1. /\ n \in Nat /\ DOMAIN edit = 1..n
      /\ NewSide \in SUBSET (1..n) /\ Edited \in SUBSET (1..n)
  BY Sides
<1>. HIDE DEF n
<1>2. ASSUME NEW k \in 1..n, k \notin NewSide
      PROVE  k \in Edited
  BY <1>1, <1>2 DEF NewSide, Edited
<1>3. HunkFrom(i) = {k \in 1..n : k >= i /\ \A j \in i..k : InPatch(j)}
  BY <1>1 DEF HunkFrom
<1>. SUFFICES ASSUME HunkFrom(i) \cap NewSide = {}
              PROVE  FALSE
  BY DEF HunkStart
<1>4. i \in HunkFrom(i)
  <2>1. i \in 1..n /\ i >= i /\ \A j \in i..i : j = i
    BY <1>1
  <2>. QED
    BY <1>3, <2>1
<1>5. i \in Edited
  BY <1>1, <1>2, <1>4
<1>6. i = 1
  <2>1. InPatch(i - 1)
    BY <1>5, NeighboursInPatch
  <2>. QED
    BY <1>1, <2>1
<1>. DEFINE S == {k \in Nat : k + 1 <= n => k + 1 \in HunkFrom(i)}
<1>7. 0 \in S
  BY <1>4, <1>6
<1>8. ASSUME NEW k \in S
      PROVE  k + 1 \in S
  <2>1. k \in Nat /\ (k + 1 <= n => k + 1 \in HunkFrom(i))
    OBVIOUS
  <2>. SUFFICES ASSUME (k + 1) + 1 <= n
                PROVE  (k + 1) + 1 \in HunkFrom(i)
    BY <2>1
  <2>2. k + 1 \in 1..n /\ (k + 1) + 1 \in 1..n /\ k + 1 \in HunkFrom(i)
    BY <1>1, <2>1
  <2>3. InPatch((k + 1) + 1)
    <3>1. k + 1 \in Edited
      BY <1>2, <2>2
    <3>. QED
      BY <3>1, NeighboursInPatch
  <2>4. \A j \in i..(k + 1) : InPatch(j)
    BY <1>3, <2>2
  <2>5. \A j \in i..((k + 1) + 1) : j \in i..(k + 1) \/ j = (k + 1) + 1
    BY <1>6, <2>1
  <2>6. (k + 1) + 1 >= i
    BY <1>6, <2>1
  <2>. QED
    BY <1>3, <2>2, <2>3, <2>4, <2>5, <2>6
<1>9. S = Nat
  BY <1>7, <1>8, NatSetInduction
<1>10. ASSUME NEW k \in 1..n
       PROVE  k \in HunkFrom(i)
  <2>1. k - 1 \in Nat /\ (k - 1) + 1 = k /\ k <= n
    BY <1>1
  <2>2. k - 1 \in S
    BY <1>9, <2>1
  <2>. QED
    BY <2>1, <2>2
<1>. QED
  BY <1>1, <1>10

(* The lines of a patch come one after the other. *)
LEMMA PatchRow ==
  \A x, y, z \in Seq(PatchLine) : (x \o y) \o z = x \o (y \o z)
BY RowAssociative

(* What the lines of the patch for one position of the edit do. *)
LEMMA PatchAtParsed ==
  ASSUME edit \in Seq(Line), NewSide # {}, NEW i \in DOMAIN edit,
         NEW s \in Seq(PatchLine),
         i > 1 /\ InPatch(i - 1) => Parsed(s).line_no = NewLine(i)
  PROVE  LET after == Parsed(s \o PatchAt(i))
         IN  /\ PatchAt(i) \in Seq(PatchLine)
             /\ after.changed = Parsed(s).changed \cup
                                  (IF i \in Edited THEN {NewLine(i)} ELSE {})
             /\ InPatch(i) => after.line_no = NewLine(i + 1)
<1>0. /\ i \in Nat /\ edit[i] \in Line /\ Parsed(s) \in Acc
      /\ i \in Edited <=> edit[i].mark # " "
      /\ i \in NewSide <=> edit[i].mark # "-"
  <2>1. i \in Nat /\ edit[i] \in Line
    BY Sides
  <2>2. Parsed(s) \in Acc
    BY ParsedSteps
  <2>. QED
    BY <2>1, <2>2, Zenon DEF NewSide, Edited
<1>1. CASE ~InPatch(i)
  <2>1. PatchAt(i) = <<>> /\ i \notin Edited
    BY <1>1, NeighboursInPatch DEF PatchAt
  <2>2. s \o <<>> = s
    OBVIOUS
  <2>. QED
    BY <1>1, <2>1, <2>2
<1>2. CASE InPatch(i)
  <2>. DEFINE header == [mark |-> "@@", start |-> HunkStart(i)]
              mid == [mark |-> edit[i].mark, start |-> 0]
              remark == [mark |-> "\\", start |-> 0]
              A == IF i > 1 /\ InPatch(i - 1) THEN <<>> ELSE << header >>
              C == IF i = Len(edit) THEN << remark >> ELSE <<>>
              u1 == s \o A
              u2 == Append(u1, mid)
              u3 == u2 \o C
  <2>1. ~(i > 1 /\ InPatch(i - 1)) => HunkStart(i) = NewLine(i)
    BY <1>2, HunkStartRight
  <2>2. NewLine(i) \in Nat
    BY BeforeFinite
  <2>3. mid \in PatchLine /\ remark \in PatchLine
    BY <1>0 DEF PatchLine, Line
  <2>4. ~(i > 1 /\ InPatch(i - 1)) => header \in PatchLine /\ header.mark = "@@"
                                        /\ header.start = NewLine(i)
    BY <2>1, <2>2 DEF PatchLine
  <2>5. mid.mark = edit[i].mark /\ remark.mark = "\\"
    OBVIOUS
  <2>6. PatchAt(i) = (A \o << mid >>) \o C
    BY <1>2 DEF PatchAt
  <2>. HIDE DEF header, mid, remark
  <2>7. A \in Seq(PatchLine) /\ C \in Seq(PatchLine) /\ << mid >> \in Seq(PatchLine)
    BY <2>3, <2>4
  <2>8. u1 \in Seq(PatchLine) /\ u2 \in Seq(PatchLine) /\ u3 \in Seq(PatchLine)
    BY <2>3, <2>7
  <2>9. /\ Parsed(u1) \in Acc /\ Parsed(u1).line_no = NewLine(i)
        /\ Parsed(u1).changed = Parsed(s).changed
    <3>1. CASE i > 1 /\ InPatch(i - 1)
      <4>1. u1 = s
        BY <3>1
      <4>. QED
        BY <1>0, <3>1, <4>1
    <3>2. CASE ~(i > 1 /\ InPatch(i - 1))
      <4>1. u1 = Append(s, header)
        BY <2>4, <3>2, AppendIsConcat
      <4>2. Parsed(u1) = ParseLine(Parsed(s), header)
        BY <2>4, <3>2, <4>1, ParsedSteps
      <4>. QED
        BY <1>0, <2>4, <3>2, <4>2, ParseLineRight
    <3>. QED
      BY <3>1, <3>2
  <2>. HIDE DEF u1
  <2>10. Parsed(u2) = ParseLine(Parsed(u1), mid)
    BY <2>3, <2>8, ParsedSteps
  <2>11. Parsed(u3) = Parsed(u2)
    <3>1. CASE i # Len(edit)
      <4>1. u3 = u2
        BY <2>8, <3>1
      <4>. QED
        BY <4>1
    <3>2. CASE i = Len(edit)
      <4>1. u3 = Append(u2, remark)
        BY <2>3, <2>8, <3>2, AppendIsConcat
      <4>2. Parsed(u2) \in Acc /\ Parsed(u3) = ParseLine(Parsed(u2), remark)
        BY <2>3, <2>8, <4>1, ParsedSteps
      <4>. QED
        BY <2>3, <2>5, <4>2, ParseLineRight
    <3>. QED
      BY <3>1, <3>2
  <2>12. s \o PatchAt(i) = u3 /\ PatchAt(i) \in Seq(PatchLine)
    <3>. DEFINE B == A \o << mid >>
    <3>1. u2 = u1 \o << mid >>
      BY <2>3, <2>8, AppendIsConcat
    <3>. HIDE DEF A, C, u2
    <3>2. PatchAt(i) \in Seq(PatchLine) /\ B \in Seq(PatchLine)
      BY <2>6, <2>7, ConcatProperties
    <3>3. s \o B = (s \o A) \o << mid >>
      BY <2>7, ConcatAssociative
    <3>4. PatchAt(i) = B \o C
      BY <2>6
    <3>. HIDE DEF B
    <3>5. s \o (B \o C) = (s \o B) \o C
      <4>1. s \in Seq(PatchLine) /\ B \in Seq(PatchLine) /\ C \in Seq(PatchLine)
        BY <2>7, <3>2
      <4>. QED
        BY <4>1, PatchRow, Zenon
    <3>. QED
      BY <3>1, <3>2, <3>3, <3>4, <3>5 DEF u1
  <2>. HIDE DEF u2, u3, A, C
  <2>13. Parsed(s \o PatchAt(i)) = ParseLine(Parsed(u1), mid)
    BY <2>10, <2>11, <2>12
  <2>14. edit[i].mark \in {" ", "+", "-"}
    BY <1>0 DEF Line
  <2>15. NewLine(i + 1) = IF i \in NewSide THEN NewLine(i) + 1 ELSE NewLine(i)
    BY <1>0, NewLineStep
  <2>16. CASE edit[i].mark = " "
    <3>1. /\ ParseLine(Parsed(u1), mid).line_no = NewLine(i) + 1
          /\ ParseLine(Parsed(u1), mid).changed = Parsed(s).changed
      BY <2>3, <2>5, <2>9, <2>16, ParseLineRight
    <3>. QED
      BY <1>0, <2>12, <2>13, <2>15, <2>16, <3>1
  <2>17. CASE edit[i].mark = "+"
    <3>1. /\ ParseLine(Parsed(u1), mid).line_no = NewLine(i) + 1
          /\ ParseLine(Parsed(u1), mid).changed = Parsed(s).changed \cup {NewLine(i)}
      BY <2>3, <2>5, <2>9, <2>17, ParseLineRight
    <3>. QED
      BY <1>0, <2>12, <2>13, <2>15, <2>17, <3>1
  <2>18. CASE edit[i].mark = "-"
    <3>1. /\ ParseLine(Parsed(u1), mid).line_no = NewLine(i)
          /\ ParseLine(Parsed(u1), mid).changed = Parsed(s).changed \cup {NewLine(i)}
      BY <2>3, <2>5, <2>9, <2>18, ParseLineRight
    <3>. QED
      BY <1>0, <2>12, <2>13, <2>15, <2>18, <3>1
  <2>. QED
    BY <2>14, <2>16, <2>17, <2>18
<1>. QED
  BY <1>1, <1>2

(* parse_changed_lines recovers the edit from its hunks. *)
LEMMA ParseRight ==
  ASSUME edit \in Seq(Line), NewSide # {}
  PROVE  parse_changed_lines(Patch) = {NewLine(i) : i \in Edited}
<1>. DEFINE n == Len(edit)
            ss == [i \in DOMAIN edit |-> PatchAt(i)]
            Placed(k) == {NewLine(i) : i \in {j \in Edited : j <= k}}
<1>1. /\ n \in Nat /\ DOMAIN edit = 1..n
      /\ NewSide \in SUBSET (1..n) /\ Edited \in SUBSET (1..n)
  BY Sides
<1>2. \A i \in 1..n : PatchAt(i) \in Seq(PatchLine)
  <2>. SUFFICES ASSUME NEW i \in 1..n
                PROVE  PatchAt(i) \in Seq(PatchLine)
    OBVIOUS
  <2>1. /\ edit[i] \in Line /\ NewLine(i) \in Nat \ {0}
    BY <1>1, Sides, BeforeFinite
  <2>2. HunkStart(i) \in Nat
    BY <2>1 DEF HunkStart
  <2>3. /\ [mark |-> "@@", start |-> HunkStart(i)] \in PatchLine
        /\ [mark |-> edit[i].mark, start |-> 0] \in PatchLine
        /\ [mark |-> "\\", start |-> 0] \in PatchLine
    BY <2>1, <2>2 DEF PatchLine, Line
  <2>. QED
    BY <2>3 DEF PatchAt
<1>3. ss \in Seq(Seq(PatchLine)) /\ Len(ss) = n /\ \A i \in 1..n : ss[i] = PatchAt(i)
  BY <1>1, <1>2
<1>4. Patch = FlattenSeq(ss)
  BY DEF Patch
<1>. HIDE DEF ss, n
<1>5. PICK pre \in [0..n -> Seq(PatchLine)] :
        /\ pre[0] = <<>>
        /\ \A k \in 1..n : pre[k] = pre[k - 1] \o ss[k]
        /\ FlattenSeq(ss) = pre[n]
  <2>1. \E pre \in [0..Len(ss) -> Seq(PatchLine)] :
          /\ pre[0] = <<>>
          /\ \A k \in 1..Len(ss) : pre[k] = pre[k - 1] \o ss[k]
          /\ FlattenSeq(ss) = pre[Len(ss)]
    BY <1>3, FlattenSteps
  <2>. QED
    BY <1>3, <2>1
<1>. DEFINE Good(k) ==
              /\ Parsed(pre[k]).changed = Placed(k)
              /\ k >= 1 /\ InPatch(k) => Parsed(pre[k]).line_no = NewLine(k + 1)
            S == {k \in Nat : k <= n => Good(k)}
<1>6. 0 \in S
  <2>1. Placed(0) = {}
    BY <1>1
  <2>2. Parsed(pre[0]).changed = {}
    BY <1>5, ParsedSteps
  <2>. QED
    BY <2>1, <2>2
<1>7. ASSUME NEW k \in S
      PROVE  k + 1 \in S
  <2>. HIDE DEF Good
  <2>1. k \in Nat /\ (k <= n => Good(k))
    OBVIOUS
  <2>. SUFFICES ASSUME k + 1 <= n
                PROVE  Good(k + 1)
    BY <2>1
  <2>2. /\ k + 1 \in 1..n /\ (k + 1) - 1 = k /\ k \in 0..n /\ Good(k)
    BY <1>1, <2>1
  <2>3. /\ pre[k] \in Seq(PatchLine) /\ pre[k + 1] = pre[k] \o PatchAt(k + 1)
    BY <1>3, <1>5, <2>2
  <2>4. k + 1 > 1 /\ InPatch((k + 1) - 1) => Parsed(pre[k]).line_no = NewLine(k + 1)
    BY <2>1, <2>2 DEF Good
  <2>5. /\ Parsed(pre[k + 1]).changed = Parsed(pre[k]).changed \cup
              (IF k + 1 \in Edited THEN {NewLine(k + 1)} ELSE {})
        /\ InPatch(k + 1) => Parsed(pre[k + 1]).line_no = NewLine((k + 1) + 1)
    <3>. DEFINE j == k + 1
                s == pre[k]
    <3>1. /\ j \in DOMAIN edit /\ s \in Seq(PatchLine)
          /\ j > 1 /\ InPatch(j - 1) => Parsed(s).line_no = NewLine(j)
      BY <1>1, <2>2, <2>3, <2>4
    <3>. HIDE DEF j, s
    <3>2. /\ Parsed(s \o PatchAt(j)).changed = Parsed(s).changed \cup
                (IF j \in Edited THEN {NewLine(j)} ELSE {})
          /\ InPatch(j) => Parsed(s \o PatchAt(j)).line_no = NewLine(j + 1)
      BY <3>1, PatchAtParsed
    <3>. QED
      BY <2>3, <3>2 DEF j, s
  <2>6. Placed(k + 1) = Placed(k) \cup
              (IF k + 1 \in Edited THEN {NewLine(k + 1)} ELSE {})
    <3>1. \A j \in Edited : j <= k + 1 <=> j <= k \/ j = k + 1
      BY <1>1, <2>1
    <3>2. k + 1 <= k + 1
      BY <2>1
    <3>. QED
      BY <3>1, <3>2, Zenon
  <2>. HIDE DEF Placed
  <2>. QED
    BY <2>2, <2>5, <2>6 DEF Good
<1>8. S = Nat
  BY <1>6, <1>7, NatSetInduction
<1>9. Parsed(Patch).changed = Placed(n)
  <2>. HIDE DEF Good
  <2>1. n <= n
    BY <1>1
  <2>2. Good(n)
    BY <1>1, <1>8, <2>1, Zenon
  <2>. QED
    BY <1>4, <1>5, <2>2 DEF Good
<1>10. Placed(n) = {NewLine(i) : i \in Edited}
  <2>1. \A j \in Edited : j <= n
    BY <1>1
  <2>. QED
    BY <2>1, Zenon
<1>. QED
  BY <1>9, <1>10 DEF parse_changed_lines, Parsed

-----------------------------------------------------------------------------
(* Filling the chunks. *)

(* A list of texts has the tokens of its texts. *)
LEMMA TotalSteps ==
  ASSUME NEW T, \A t \in T : IsFiniteSet(t)
  PROVE  /\ TotalTokens(<<>>) = 0
         /\ \A s \in Seq(T) :
              /\ TotalTokens(s) \in Nat
              /\ \A x \in T : TotalTokens(Append(s, x)) = AddTokens(TotalTokens(s), x)
<1>. DEFINE base == 0
            f == [p \in Nat \X T |-> AddTokens(p[1], p[2])]
<1>1. base \in Nat
  OBVIOUS
<1>. HIDE DEF base
<1>2. \A a \in Nat, x \in T :
        f[<<a, x>>] = AddTokens(a, x) /\ f[<<a, x>>] \in Nat
  <2>1. \A x \in T : Cardinality(x) \in Nat
    BY FS_CardinalityType
  <2>2. \A a \in Nat, x \in T : AddTokens(a, x) \in Nat
    BY <2>1 DEF AddTokens, Tokens
  <2>. QED
    BY <2>2
<1>3. PICK F : FoldsAll(F, Nat, T, f, base)
  <2>1. \A a \in Nat, x \in T : f[<<a, x>>] \in Nat
    BY <1>2
  <2>. HIDE DEF f
  <2>. QED
    BY <1>1, <2>1, FoldSteps
<1>4. ASSUME NEW s \in Seq(T)
      PROVE  TotalTokens(s) = F[s]
  <2>. DEFINE n == Len(s)
              iter[t \in SUBSET (DOMAIN s)] ==
                IF t = {} THEN base ELSE AddTokens(iter[t \ {Max(t)}], s[Max(t)])
  <2>1. n \in Nat /\ DOMAIN s = 1..n /\ \A i \in 1..n : s[i] \in T
    OBVIOUS
  <2>. HIDE DEF n
  <2>2. PICK h : /\ IsFold(h, f, base, s)
                 /\ \A t \in SUBSET (DOMAIN s) : h[t] \in Nat
                 /\ F[s] = h[DOMAIN s]
    BY <1>3 DEF FoldsAll
  <2>3. ASSUME NEW t \in SUBSET (1..n), t # {}
        PROVE  t \ {Max(t)} \in SUBSET (1..n) /\ s[Max(t)] \in T
    <3>1. Max(t) \in t
      BY <2>1, <2>3, MaxRight
    <3>. QED
      BY <2>1, <3>1
  <2>4. h = [t \in SUBSET (DOMAIN s) |->
               IF t = {} THEN base ELSE AddTokens(h[t \ {Max(t)}], s[Max(t)])]
    <3>1. h = [t \in SUBSET (DOMAIN s) |->
                 IF t = {} THEN base ELSE f[<<h[t \ {Max(t)}], s[Max(t)]>>]]
      BY <2>2 DEF IsFold
    <3>2. \A t \in SUBSET (DOMAIN s) : t # {} =>
            f[<<h[t \ {Max(t)}], s[Max(t)]>>] = AddTokens(h[t \ {Max(t)}], s[Max(t)])
      BY <1>2, <2>1, <2>2, <2>3
    <3>. HIDE DEF f
    <3>. QED
      BY <3>1, <3>2
  <2>5. iter = [t \in SUBSET (DOMAIN s) |->
                  IF t = {} THEN base
                  ELSE AddTokens(iter[t \ {Max(t)}], s[Max(t)])]
    BY <2>4
  <2>6. TotalTokens(s) = iter[DOMAIN s]
    BY DEF TotalTokens, FoldLeft, MapThenFoldSet, base
  <2>. HIDE DEF iter
  <2>. DEFINE V == {iter[t] : t \in SUBSET (1..n)} \cup {h[t] : t \in SUBSET (1..n)}
              g == [p \in V \X T |-> AddTokens(p[1], p[2])]
  <2>7. \A a \in V, x \in T : g[<<a, x>>] = AddTokens(a, x)
    OBVIOUS
  <2>8. \A t \in SUBSET (1..n) : iter[t] \in V /\ h[t] \in V
    OBVIOUS
  <2>. HIDE DEF g, V
  <2>9. \A t \in SUBSET (1..n) : t # {} =>
          /\ g[<<h[t \ {Max(t)}], s[Max(t)]>>] = AddTokens(h[t \ {Max(t)}], s[Max(t)])
          /\ g[<<iter[t \ {Max(t)}], s[Max(t)]>>]
               = AddTokens(iter[t \ {Max(t)}], s[Max(t)])
    BY <2>3, <2>7, <2>8
  <2>10. IsFold(h, g, base, s) /\ IsFold(iter, g, base, s)
    BY <2>1, <2>4, <2>5, <2>9 DEF IsFold
  <2>11. FoldsOn(h, s, n, iter, s, n, g, base)
    BY <2>1, <2>10 DEF FoldsOn
  <2>12. h[1..n] = iter[1..n]
    BY <2>11, FoldAgrees
  <2>. QED
    BY <2>1, <2>2, <2>6, <2>12
<1>. HIDE DEF f
<1>5. TotalTokens(<<>>) = base
  <2>1. <<>> \in Seq(T)
    OBVIOUS
  <2>. QED
    BY <1>3, <1>4, <2>1 DEF FoldsAll
<1>6. ASSUME NEW s \in Seq(T)
      PROVE  TotalTokens(s) \in Nat
  BY <1>3, <1>4 DEF FoldsAll
<1>7. ASSUME NEW s \in Seq(T), NEW x \in T
      PROVE  TotalTokens(Append(s, x)) = AddTokens(TotalTokens(s), x)
  <2>1. Append(s, x) \in Seq(T)
    OBVIOUS
  <2>2. TotalTokens(Append(s, x)) = f[<<F[s], x>>] /\ F[s] \in Nat
    BY <1>3, <1>4, <2>1 DEF FoldsAll
  <2>. QED
    BY <1>2, <1>4, <2>2
<1>. QED
  BY <1>5, <1>6, <1>7 DEF base

Chunk(T, H) == [texts : Seq(T), skipped : SUBSET H]
OutSet(T, H) == [chunks : Seq(Chunk(T, H)), pending : Seq(T)]

(* flush keeps the types. *)
LEMMA FlushType ==
  ASSUME NEW T, NEW H, NEW out \in OutSet(T, H)
  PROVE  Flush(out) \in OutSet(T, H)
<1>1. out.chunks \in Seq(Chunk(T, H)) /\ out.pending \in Seq(T)
  BY DEF OutSet
<1>2. Code(out.pending) \in Chunk(T, H)
  BY <1>1 DEF Code, Chunk
<1>3. Append(out.chunks, Code(out.pending)) \in Seq(Chunk(T, H)) /\ <<>> \in Seq(T)
  BY <1>1, <1>2
<1>. QED
  BY <1>3 DEF Flush, OutSet

(* add either appends to the pending texts or starts a new chunk. *)
LEMMA AddCases ==
  ASSUME NEW T, NEW H, NEW out \in OutSet(T, H), NEW x \in T
  PROVE  LET fits == TotalTokens(out.pending) + Tokens(x) <= MAX_CHUNK_TOKENS
         IN  /\ Add(out, x) \in OutSet(T, H)
             /\ fits \/ out.pending = <<>> =>
                  /\ Add(out, x).chunks = out.chunks
                  /\ Add(out, x).pending = Append(out.pending, x)
             /\ ~fits /\ out.pending # <<>> =>
                  /\ Add(out, x).chunks = Append(out.chunks, Code(out.pending))
                  /\ Add(out, x).pending = << x >>
<1>. DEFINE fits == TotalTokens(out.pending) + Tokens(x) <= MAX_CHUNK_TOKENS
            room == IF fits THEN out ELSE Flush(out)
<1>1. Add(out, x) = [room EXCEPT !.pending = Append(@, x)]
  BY DEF Add
<1>2. room \in OutSet(T, H)
  BY FlushType
<1>3. fits \/ out.pending = <<>> => room = out
  BY DEF Flush
<1>4. ~fits /\ out.pending # <<>> =>
        room = [chunks |-> Append(out.chunks, Code(out.pending)), pending |-> <<>>]
  BY DEF Flush
<1>. HIDE DEF room, fits
<1>5. room.chunks \in Seq(Chunk(T, H)) /\ room.pending \in Seq(T)
  BY <1>2 DEF OutSet
<1>6. Append(room.pending, x) \in Seq(T)
  BY <1>5
<1>7. /\ Add(out, x) = [chunks |-> room.chunks, pending |-> Append(room.pending, x)]
  BY <1>1, <1>2 DEF OutSet
<1>8. Add(out, x) \in OutSet(T, H)
  BY <1>5, <1>6, <1>7 DEF OutSet
<1>9. /\ Add(out, x).chunks = room.chunks
      /\ Add(out, x).pending = Append(room.pending, x)
  BY <1>7
<1>10. Append(<<>>, x) = << x >>
  OBVIOUS
<1>11. fits \/ out.pending = <<>> =>
         /\ Add(out, x).chunks = out.chunks
         /\ Add(out, x).pending = Append(out.pending, x)
  BY <1>3, <1>9
<1>12. ~fits /\ out.pending # <<>> =>
         /\ Add(out, x).chunks = Append(out.chunks, Code(out.pending))
         /\ Add(out, x).pending = << x >>
  <2>1. ~fits /\ out.pending # <<>> =>
          /\ room.chunks = Append(out.chunks, Code(out.pending))
          /\ room.pending = <<>>
    BY <1>4
  <2>. QED
    BY <1>9, <1>10, <2>1, Zenon
<1>. QED
  BY <1>8, <1>11, <1>12 DEF fits

AddAll(out, texts) == FoldLeft(Add, out, texts)

(* The methods of a class are added one after the other. *)
LEMMA AddAllSteps ==
  ASSUME NEW T, NEW H, NEW out \in OutSet(T, H)
  PROVE  /\ AddAll(out, <<>>) = out
         /\ \A s \in Seq(T) :
              /\ AddAll(out, s) \in OutSet(T, H)
              /\ \A x \in T : AddAll(out, Append(s, x)) = Add(AddAll(out, s), x)
<1>. DEFINE base == out
            D == OutSet(T, H)
            f == [p \in D \X T |-> Add(p[1], p[2])]
<1>1. base \in D
  OBVIOUS
<1>. HIDE DEF D
<1>. HIDE DEF base
<1>2. \A a \in D, x \in T :
        f[<<a, x>>] = Add(a, x) /\ f[<<a, x>>] \in D
  <2>1. \A a \in D, x \in T : Add(a, x) \in D
    BY AddCases DEF D
  <2>. QED
    BY <2>1
<1>3. PICK F : FoldsAll(F, D, T, f, base)
  <2>1. \A a \in D, x \in T : f[<<a, x>>] \in D
    BY <1>2
  <2>. HIDE DEF f
  <2>. QED
    BY <1>1, <2>1, FoldSteps
<1>4. ASSUME NEW s \in Seq(T)
      PROVE  AddAll(out, s) = F[s]
  <2>. DEFINE n == Len(s)
              iter[t \in SUBSET (DOMAIN s)] ==
                IF t = {} THEN base ELSE Add(iter[t \ {Max(t)}], s[Max(t)])
  <2>1. n \in Nat /\ DOMAIN s = 1..n /\ \A i \in 1..n : s[i] \in T
    OBVIOUS
  <2>. HIDE DEF n
  <2>2. PICK h : /\ IsFold(h, f, base, s)
                 /\ \A t \in SUBSET (DOMAIN s) : h[t] \in D
                 /\ F[s] = h[DOMAIN s]
    BY <1>3 DEF FoldsAll
  <2>3. ASSUME NEW t \in SUBSET (1..n), t # {}
        PROVE  t \ {Max(t)} \in SUBSET (1..n) /\ s[Max(t)] \in T
    <3>1. Max(t) \in t
      BY <2>1, <2>3, MaxRight
    <3>. QED
      BY <2>1, <3>1
  <2>4. h = [t \in SUBSET (DOMAIN s) |->
               IF t = {} THEN base ELSE Add(h[t \ {Max(t)}], s[Max(t)])]
    <3>1. h = [t \in SUBSET (DOMAIN s) |->
                 IF t = {} THEN base ELSE f[<<h[t \ {Max(t)}], s[Max(t)]>>]]
      BY <2>2 DEF IsFold
    <3>2. \A t \in SUBSET (DOMAIN s) : t # {} =>
            f[<<h[t \ {Max(t)}], s[Max(t)]>>] = Add(h[t \ {Max(t)}], s[Max(t)])
      BY <1>2, <2>1, <2>2, <2>3
    <3>. HIDE DEF f
    <3>. QED
      BY <3>1, <3>2
  <2>5. iter = [t \in SUBSET (DOMAIN s) |->
                  IF t = {} THEN base
                  ELSE Add(iter[t \ {Max(t)}], s[Max(t)])]
    BY <2>4
  <2>6. AddAll(out, s) = iter[DOMAIN s]
    BY DEF AddAll, FoldLeft, MapThenFoldSet, base
  <2>. HIDE DEF iter
  <2>. DEFINE V == {iter[t] : t \in SUBSET (1..n)} \cup {h[t] : t \in SUBSET (1..n)}
              g == [p \in V \X T |-> Add(p[1], p[2])]
  <2>7. \A a \in V, x \in T : g[<<a, x>>] = Add(a, x)
    OBVIOUS
  <2>8. \A t \in SUBSET (1..n) : iter[t] \in V /\ h[t] \in V
    OBVIOUS
  <2>. HIDE DEF g, V
  <2>9. \A t \in SUBSET (1..n) : t # {} =>
          /\ g[<<h[t \ {Max(t)}], s[Max(t)]>>] = Add(h[t \ {Max(t)}], s[Max(t)])
          /\ g[<<iter[t \ {Max(t)}], s[Max(t)]>>]
               = Add(iter[t \ {Max(t)}], s[Max(t)])
    BY <2>3, <2>7, <2>8
  <2>10. IsFold(h, g, base, s) /\ IsFold(iter, g, base, s)
    BY <2>1, <2>4, <2>5, <2>9 DEF IsFold
  <2>11. FoldsOn(h, s, n, iter, s, n, g, base)
    BY <2>1, <2>10 DEF FoldsOn
  <2>12. h[1..n] = iter[1..n]
    BY <2>11, FoldAgrees
  <2>. QED
    BY <2>1, <2>2, <2>6, <2>12
<1>. HIDE DEF f
<1>5. AddAll(out, <<>>) = base
  <2>1. <<>> \in Seq(T)
    OBVIOUS
  <2>. QED
    BY <1>3, <1>4, <2>1 DEF FoldsAll
<1>6. ASSUME NEW s \in Seq(T)
      PROVE  AddAll(out, s) \in D
  BY <1>3, <1>4 DEF FoldsAll
<1>7. ASSUME NEW s \in Seq(T), NEW x \in T
      PROVE  AddAll(out, Append(s, x)) = Add(AddAll(out, s), x)
  <2>1. Append(s, x) \in Seq(T)
    OBVIOUS
  <2>2. AddAll(out, Append(s, x)) = f[<<F[s], x>>] /\ F[s] \in D
    BY <1>3, <1>4, <2>1 DEF FoldsAll
  <2>. QED
    BY <1>2, <1>4, <2>2
<1>. QED
  BY <1>5, <1>6, <1>7 DEF base, D

(* One more text counts with its tokens. *)
LEMMA TotalAppend ==
  ASSUME NEW T, \A t \in T : IsFiniteSet(t), NEW s \in Seq(T), NEW x \in T
  PROVE  /\ TotalTokens(s) \in Nat /\ Tokens(x) \in Nat
         /\ TotalTokens(Append(s, x)) = TotalTokens(s) + Tokens(x)
<1>1. Tokens(x) \in Nat
  BY FS_CardinalityType DEF Tokens
<1>2. TotalTokens(s) \in Nat /\ TotalTokens(Append(s, x)) = AddTokens(TotalTokens(s), x)
  BY TotalSteps
<1>. QED
  BY <1>1, <1>2 DEF AddTokens

(* Several texts share a chunk only within the budget. *)
Within(texts) == Len(texts) <= 1 \/ TotalTokens(texts) <= MAX_CHUNK_TOKENS

(* There was no room for the first of these texts after the others. *)
NoRoom(before, texts) ==
    before # <<>> /\ texts # <<>> =>
      TotalTokens(before) + Tokens(texts[1]) > MAX_CHUNK_TOKENS

PackedChunks(chs) ==
    \A k \in DOMAIN chs :
      /\ Within(chs[k].texts)
      /\ k > 1 => NoRoom(chs[k - 1].texts, chs[k].texts)

(* While nodes are visited, the chunk being filled continues the packing;  *)
(* it is empty only at the start and after a flagged unit.                 *)
Packed(out) ==
    /\ PackedChunks(out.chunks)
    /\ Within(out.pending)
    /\ out.chunks # <<>> =>
         LET last == out.chunks[Len(out.chunks)].texts
         IN  NoRoom(last, out.pending) /\ (out.pending = <<>> => last = <<>>)

(* One more chunk. *)
LEMMA PackedAppend ==
  ASSUME NEW T, NEW H, NEW chs \in Seq(Chunk(T, H)), NEW c \in Chunk(T, H),
         PackedChunks(chs), Within(c.texts),
         chs # <<>> => NoRoom(chs[Len(chs)].texts, c.texts)
  PROVE  PackedChunks(Append(chs, c))
<1>. DEFINE n == Len(chs)
            new == Append(chs, c)
<1>1. /\ n \in Nat /\ DOMAIN chs = 1..n /\ DOMAIN new = 1..(n + 1)
      /\ \A k \in 1..n : new[k] = chs[k]
      /\ new[n + 1] = c /\ (n = 0 <=> chs = <<>>)
  OBVIOUS
<1>. HIDE DEF n, new
<1>2. ASSUME NEW k \in 1..(n + 1)
      PROVE  Within(new[k].texts) /\ (k > 1 => NoRoom(new[k - 1].texts, new[k].texts))
  <2>1. CASE k = n + 1
    <3>1. k > 1 => k - 1 \in 1..n /\ k - 1 = n /\ chs # <<>>
      BY <1>1, <2>1
    <3>. QED
      BY <1>1, <2>1, <3>1 DEF n
  <2>2. CASE k # n + 1
    <3>1. k \in 1..n /\ (k > 1 => k - 1 \in 1..n)
      BY <1>1, <2>2
    <3>. QED
      BY <1>1, <3>1 DEF PackedChunks
  <2>. QED
    BY <2>1, <2>2
<1>. QED
  BY <1>1, <1>2 DEF PackedChunks, new

(* add packs as tightly as the budget allows. *)
LEMMA AddPacks ==
  ASSUME NEW T, \A t \in T : IsFiniteSet(t), NEW H,
         NEW out \in OutSet(T, H), NEW x \in T, Packed(out)
  PROVE  Packed(Add(out, x))
<1>. DEFINE total == TotalTokens(out.pending)
            fits == total + Tokens(x) <= MAX_CHUNK_TOKENS
            next == Add(out, x)
<1>1. /\ out.chunks \in Seq(Chunk(T, H)) /\ out.pending \in Seq(T)
      /\ MAX_CHUNK_TOKENS \in Nat
  BY BudgetAssumption DEF OutSet
<1>2. /\ total \in Nat /\ Tokens(x) \in Nat
      /\ TotalTokens(Append(out.pending, x)) = total + Tokens(x)
  BY <1>1, TotalAppend
<1>3. CASE fits \/ out.pending = <<>>
  <2>1. next.chunks = out.chunks /\ next.pending = Append(out.pending, x)
    BY <1>3, AddCases
  <2>2. Within(next.pending)
    <3>1. CASE fits
      BY <1>2, <2>1, <3>1 DEF Within
    <3>2. CASE out.pending = <<>>
      <4>1. Len(Append(<<>>, x)) = 1
        OBVIOUS
      <4>. QED
        BY <2>1, <3>2, <4>1 DEF Within
    <3>. QED
      BY <1>3, <3>1, <3>2
  <2>3. /\ next.pending # <<>>
        /\ out.pending # <<>> => next.pending[1] = out.pending[1]
    <3>1. /\ Append(out.pending, x) # <<>>
          /\ out.pending # <<>> => Append(out.pending, x)[1] = out.pending[1]
      BY <1>1, AppendStart
    <3>. HIDE DEF next
    <3>. QED
      BY <2>1, <3>1
  <2>. HIDE DEF next
  <2>4. ASSUME out.chunks # <<>>
        PROVE  NoRoom(out.chunks[Len(out.chunks)].texts, next.pending)
    BY <2>3, <2>4 DEF Packed, NoRoom
  <2>5. Packed(next)
    BY <2>1, <2>2, <2>3, <2>4 DEF Packed
  <2>. QED
    BY <2>5 DEF next
<1>4. CASE ~(fits \/ out.pending = <<>>)
  <2>1. /\ next.chunks = Append(out.chunks, Code(out.pending))
        /\ next.pending = << x >>
    BY <1>4, AddCases
  <2>. HIDE DEF next
  <2>2. Code(out.pending) \in Chunk(T, H) /\ Code(out.pending).texts = out.pending
    BY <1>1 DEF Code, Chunk
  <2>3. PackedChunks(next.chunks)
    BY <1>1, <2>1, <2>2, PackedAppend DEF Packed
  <2>4. next.chunks[Len(next.chunks)].texts = out.pending
    BY <1>1, <2>1, <2>2
  <2>5. next.pending # <<>> /\ next.pending[1] = x /\ Len(next.pending) = 1
    BY <2>1
  <2>6. total + Tokens(x) > MAX_CHUNK_TOKENS
    BY <1>1, <1>2, <1>4
  <2>7. /\ Within(next.pending) /\ NoRoom(out.pending, next.pending)
    BY <2>5, <2>6 DEF Within, NoRoom
  <2>8. Packed(next)
    BY <2>3, <2>4, <2>5, <2>7 DEF Packed
  <2>. QED
    BY <2>8 DEF next
<1>. QED
  BY <1>3, <1>4

(* So does adding one text after the other. *)
LEMMA AddAllPacks ==
  ASSUME NEW T, \A t \in T : IsFiniteSet(t), NEW H,
         NEW out \in OutSet(T, H), Packed(out), NEW s \in Seq(T)
  PROVE  Packed(AddAll(out, s))
<1>. DEFINE S == {r \in Seq(T) : Packed(AddAll(out, r))}
<1>1. <<>> \in S
  BY AddAllSteps
<1>2. ASSUME NEW r \in S, NEW x \in T
      PROVE  Append(r, x) \in S
  <2>1. /\ r \in Seq(T) /\ Append(r, x) \in Seq(T)
        /\ Packed(AddAll(out, r))
    OBVIOUS
  <2>2. /\ AddAll(out, r) \in OutSet(T, H)
        /\ AddAll(out, Append(r, x)) = Add(AddAll(out, r), x)
    BY <2>1, AddAllSteps
  <2>3. Packed(Add(AddAll(out, r), x))
    BY <2>1, <2>2, AddPacks
  <2>. QED
    BY <2>1, <2>2, <2>3
<1>3. S = Seq(T)
  BY <1>1, <1>2, SeqSetInduction
<1>. QED
  BY <1>3

(* The last flush leaves packed chunks. *)
LEMMA FlushPacks ==
  ASSUME NEW T, NEW H, NEW out \in OutSet(T, H), Packed(out)
  PROVE  /\ PackedChunks(Flush(out).chunks)
         /\ Flush(out).chunks \in Seq(Chunk(T, H)) /\ Flush(out).pending = <<>>
<1>1. out.chunks \in Seq(Chunk(T, H)) /\ out.pending \in Seq(T)
  BY DEF OutSet
<1>2. Code(out.pending) \in Chunk(T, H) /\ Code(out.pending).texts = out.pending
  BY <1>1 DEF Code, Chunk
<1>3. PackedChunks(Append(out.chunks, Code(out.pending)))
  BY <1>1, <1>2, PackedAppend DEF Packed
<1>. QED
  BY <1>1, <1>2, <1>3 DEF Flush, Packed

(* What is sent when a unit is flagged. *)
WithSkip(out, h) ==
    [chunks |-> Append(Flush(out).chunks, Skip(h)), pending |-> <<>>]

(* Flagging a unit keeps the packing. *)
LEMMA SkipPacks ==
  ASSUME NEW T, NEW H, NEW out \in OutSet(T, H), Packed(out), NEW h \in H
  PROVE  WithSkip(out, h) \in OutSet(T, H) /\ Packed(WithSkip(out, h))
<1>. DEFINE chs == Flush(out).chunks
            new == Append(chs, Skip(h))
<1>1. PackedChunks(chs) /\ chs \in Seq(Chunk(T, H))
  BY FlushPacks
<1>2. Skip(h) \in Chunk(T, H) /\ Skip(h).texts = <<>>
  BY DEF Skip, Chunk
<1>. HIDE DEF chs
<1>3. /\ new \in Seq(Chunk(T, H)) /\ new # <<>>
      /\ new[Len(new)] = Skip(h)
  BY <1>1, <1>2
<1>4. PackedChunks(new)
  <2>1. Within(<<>>) /\ \A t : NoRoom(t, <<>>)
    BY DEF Within, NoRoom
  <2>. QED
    BY <1>1, <1>2, <2>1, PackedAppend
<1>. HIDE DEF new
<1>5. WithSkip(out, h) = [chunks |-> new, pending |-> <<>>]
  BY DEF WithSkip, new, chs
<1>6. WithSkip(out, h) \in OutSet(T, H)
  BY <1>3, <1>5 DEF OutSet
<1>7. /\ WithSkip(out, h).chunks = new /\ WithSkip(out, h).pending = <<>>
      /\ Within(<<>>) /\ NoRoom(<<>>, <<>>)
  BY <1>5 DEF Within, NoRoom
<1>. QED
  BY <1>2, <1>3, <1>4, <1>6, <1>7 DEF Packed

TextsOf(chs) == [k \in DOMAIN chs |-> chs[k].texts]
FlaggedIn(chs) == UNION {chs[k].skipped : k \in DOMAIN chs}

(* All texts sent so far, in their order, the pending ones included. *)
All(out) == FlattenSeq(TextsOf(out.chunks)) \o out.pending

OneMore(T, chs, c) ==
    /\ TextsOf(chs) \in Seq(Seq(T)) /\ c.texts \in Seq(T)
    /\ TextsOf(Append(chs, c)) = Append(TextsOf(chs), c.texts)
    /\ FlaggedIn(Append(chs, c)) = FlaggedIn(chs) \cup c.skipped

(* What one more chunk sends and flags. *)
LEMMA TextsAppend ==
  ASSUME NEW T, NEW H, NEW chs \in Seq(Chunk(T, H)), NEW c \in Chunk(T, H)
  PROVE  OneMore(T, chs, c)
<1>. DEFINE n == Len(chs)
            new == Append(chs, c)
<1>1. /\ n \in Nat /\ DOMAIN chs = 1..n /\ DOMAIN new = 1..(n + 1)
      /\ \A k \in 1..n : new[k] = chs[k] /\ chs[k] \in Chunk(T, H)
      /\ new[n + 1] = c
  OBVIOUS
<1>2. \A d \in Chunk(T, H) : d.texts \in Seq(T)
  BY DEF Chunk
<1>. HIDE DEF n, new
<1>3. \A k \in 1..n : chs[k].texts \in Seq(T)
  BY <1>1, <1>2
<1>4. TextsOf(chs) \in [1..n -> Seq(T)]
  BY <1>1, <1>3 DEF TextsOf
<1>5. TextsOf(chs) \in Seq(Seq(T)) /\ Len(TextsOf(chs)) = n
  BY <1>1, <1>4
<1>6. \A k \in 1..(n + 1) : k \in 1..n \/ k = n + 1
  BY <1>1
<1>7. n + 1 \in 1..(n + 1) /\ \A k \in 1..n : k \in 1..(n + 1)
  BY <1>1
<1>8. FlaggedIn(new) = FlaggedIn(chs) \cup c.skipped
  <2>1. \A y \in FlaggedIn(new) : y \in FlaggedIn(chs) \cup c.skipped
    <3>. SUFFICES ASSUME NEW k \in 1..(n + 1), NEW y \in new[k].skipped
                  PROVE  y \in FlaggedIn(chs) \cup c.skipped
      BY <1>1 DEF FlaggedIn
    <3>. QED
      BY <1>1, <1>6 DEF FlaggedIn
  <2>2. \A y \in FlaggedIn(chs) : y \in FlaggedIn(new)
    BY <1>1, <1>7 DEF FlaggedIn
  <2>3. \A y \in c.skipped : y \in FlaggedIn(new)
    BY <1>1, <1>7 DEF FlaggedIn
  <2>. QED
    BY <2>1, <2>2, <2>3
<1>9. TextsOf(new) = Append(TextsOf(chs), c.texts)
  <2>. DEFINE a == TextsOf(new)
              b == Append(TextsOf(chs), c.texts)
  <2>1. /\ b \in Seq(Seq(T)) /\ Len(b) = n + 1
        /\ \A k \in 1..n : b[k] = TextsOf(chs)[k]
        /\ b[n + 1] = c.texts
    BY <1>2, <1>5
  <2>2. \A k \in 1..n : b[k] = new[k].texts
    BY <1>1, <2>1 DEF TextsOf
  <2>. HIDE DEF b
  <2>3. a = [k \in 1..(n + 1) |-> new[k].texts]
    BY <1>1 DEF TextsOf
  <2>4. b = [k \in 1..(n + 1) |-> b[k]]
    BY <2>1
  <2>5. \A k \in 1..(n + 1) : b[k] = new[k].texts
    BY <1>1, <1>6, <2>1, <2>2
  <2>. QED
    BY <2>3, <2>4, <2>5 DEF b
<1>. QED
  BY <1>2, <1>5, <1>8, <1>9 DEF new, OneMore

(* flush moves the pending texts. *)
LEMMA FlushAll ==
  ASSUME NEW T, NEW H, NEW out \in OutSet(T, H)
  PROVE  /\ All(out) \in Seq(T) /\ All(Flush(out)) = All(out)
         /\ FlattenSeq(TextsOf(Flush(out).chunks)) = All(out)
         /\ FlaggedIn(Flush(out).chunks) = FlaggedIn(out.chunks)
         /\ FlattenSeq(TextsOf(Append(out.chunks, Code(out.pending)))) = All(out)
         /\ FlaggedIn(Append(out.chunks, Code(out.pending))) = FlaggedIn(out.chunks)
<1>. DEFINE c == Code(out.pending)
            new == Append(out.chunks, c)
            sent == FlattenSeq(TextsOf(out.chunks))
<1>1. out.chunks \in Seq(Chunk(T, H)) /\ out.pending \in Seq(T)
  BY DEF OutSet
<1>2. c \in Chunk(T, H) /\ c.texts = out.pending /\ c.skipped = {}
  BY <1>1 DEF Code, Chunk
<1>. HIDE DEF c
<1>3. /\ TextsOf(out.chunks) \in Seq(Seq(T))
      /\ TextsOf(new) = Append(TextsOf(out.chunks), out.pending)
      /\ FlaggedIn(new) = FlaggedIn(out.chunks)
  <2>1. OneMore(T, out.chunks, c)
    BY <1>1, <1>2, TextsAppend
  <2>. QED
    BY <1>2, <2>1 DEF OneMore
<1>4. sent \in Seq(T)
  BY <1>3, FlattenRight
<1>5. FlattenSeq(TextsOf(new)) = sent \o out.pending
  BY <1>1, <1>3, FlattenAppend
<1>6. All(out) = sent \o out.pending /\ All(out) \in Seq(T)
  BY <1>1, <1>4, ConcatProperties DEF All
<1>. HIDE DEF new, sent
<1>7. CASE out.pending = <<>>
  <2>1. Flush(out) = out
    BY <1>7 DEF Flush
  <2>2. sent \o <<>> = sent
    BY <1>4
  <2>. QED
    BY <1>3, <1>5, <1>6, <1>7, <2>1, <2>2 DEF sent, new, c
<1>8. CASE out.pending # <<>>
  <2>1. Flush(out).chunks = new /\ Flush(out).pending = <<>>
    BY <1>8 DEF Flush, new, c
  <2>2. All(out) \o <<>> = All(out)
    BY <1>6
  <2>3. All(Flush(out)) = All(out)
    BY <1>5, <1>6, <2>1, <2>2 DEF All
  <2>. QED
    BY <1>3, <1>5, <1>6, <2>1, <2>3 DEF new, c
<1>. QED
  BY <1>7, <1>8

(* add sends one more text. *)
LEMMA AddSends ==
  ASSUME NEW T, NEW H, NEW out \in OutSet(T, H), NEW x \in T
  PROVE  /\ All(Add(out, x)) = All(out) \o << x >>
         /\ FlaggedIn(Add(out, x).chunks) = FlaggedIn(out.chunks)
<1>. DEFINE next == Add(out, x)
            sent == FlattenSeq(TextsOf(out.chunks))
<1>1. out.chunks \in Seq(Chunk(T, H)) /\ out.pending \in Seq(T)
  BY DEF OutSet
<1>2. CASE next.chunks = out.chunks /\ next.pending = Append(out.pending, x)
  <2>1. Append(out.pending, x) = out.pending \o << x >>
    BY <1>1, AppendIsConcat
  <2>2. sent \in Seq(T)
    <3>1. TextsOf(out.chunks) \in Seq(Seq(T))
      <4>1. [texts |-> <<>>, skipped |-> {}] \in Chunk(T, H)
        BY DEF Chunk
      <4>. QED
        BY <1>1, <4>1, TextsAppend DEF OneMore
    <3>. QED
      BY <3>1, FlattenRight
  <2>3. << x >> \in Seq(T)
    OBVIOUS
  <2>. HIDE DEF sent, next
  <2>4. (sent \o out.pending) \o << x >> = sent \o (out.pending \o << x >>)
    <3>1. \A a, b, d \in Seq(T) : (a \o b) \o d = a \o (b \o d)
      BY RowAssociative
    <3>. QED
      BY <1>1, <2>2, <2>3, <3>1, Zenon
  <2>5. All(next) = All(out) \o << x >>
    BY <1>2, <2>1, <2>4 DEF All, sent
  <2>. QED
    BY <1>2, <2>5 DEF next
<1>3. CASE /\ next.chunks = Append(out.chunks, Code(out.pending))
           /\ next.pending = << x >>
  <2>. HIDE DEF next
  <2>1. All(next) = All(out) \o << x >>
    BY <1>3, FlushAll DEF All
  <2>2. FlaggedIn(next.chunks) = FlaggedIn(out.chunks)
    BY <1>3, FlushAll
  <2>. QED
    BY <2>1, <2>2 DEF next
<1>. QED
  BY <1>2, <1>3, AddCases

(* Adding a list of texts sends it. *)
LEMMA AddAllSends ==
  ASSUME NEW T, NEW H, NEW out \in OutSet(T, H), NEW s \in Seq(T)
  PROVE  /\ All(AddAll(out, s)) = All(out) \o s
         /\ FlaggedIn(AddAll(out, s).chunks) = FlaggedIn(out.chunks)
<1>. DEFINE Sends(r) == /\ All(AddAll(out, r)) = All(out) \o r
                        /\ FlaggedIn(AddAll(out, r).chunks) = FlaggedIn(out.chunks)
            S == {r \in Seq(T) : Sends(r)}
<1>0. All(out) \in Seq(T)
  BY FlushAll
<1>1. <<>> \in S
  <2>1. All(out) \o <<>> = All(out)
    BY <1>0
  <2>2. AddAll(out, <<>>) = out
    BY AddAllSteps
  <2>3. Sends(<<>>) /\ <<>> \in Seq(T)
    BY <2>1, <2>2
  <2>. HIDE DEF Sends
  <2>. QED
    BY <2>3
<1>2. ASSUME NEW r \in S, NEW x \in T
      PROVE  Append(r, x) \in S
  <2>1. r \in Seq(T) /\ Append(r, x) \in Seq(T) /\ Sends(r)
    OBVIOUS
  <2>2. /\ AddAll(out, r) \in OutSet(T, H)
        /\ AddAll(out, Append(r, x)) = Add(AddAll(out, r), x)
    BY <2>1, AddAllSteps
  <2>3. /\ All(AddAll(out, Append(r, x))) = (All(out) \o r) \o << x >>
        /\ FlaggedIn(AddAll(out, Append(r, x)).chunks) = FlaggedIn(out.chunks)
    <3>. DEFINE o == AddAll(out, r)
    <3>1. o \in OutSet(T, H) /\ AddAll(out, Append(r, x)) = Add(o, x)
      BY <2>2
    <3>2. All(o) = All(out) \o r /\ FlaggedIn(o.chunks) = FlaggedIn(out.chunks)
      BY <2>1
    <3>. HIDE DEF o
    <3>3. /\ All(Add(o, x)) = All(o) \o << x >>
          /\ FlaggedIn(Add(o, x).chunks) = FlaggedIn(o.chunks)
      BY <3>1, AddSends
    <3>. QED
      BY <3>1, <3>2, <3>3
  <2>4. (All(out) \o r) \o << x >> = All(out) \o Append(r, x)
    <3>1. Append(r, x) = r \o << x >> /\ << x >> \in Seq(T)
      BY <2>1, AppendIsConcat
    <3>2. (All(out) \o r) \o << x >> = All(out) \o (r \o << x >>)
      BY <1>0, <2>1, <3>1, ConcatAssociative
    <3>. QED
      BY <3>1, <3>2
  <2>5. Sends(Append(r, x))
    BY <2>3, <2>4
  <2>. QED
    BY <2>1, <2>5
<1>3. S = Seq(T)
  BY <1>1, <1>2, SeqSetInduction
<1>. QED
  BY <1>3

(* Flagging a unit sends nothing. *)
LEMMA SkipSends ==
  ASSUME NEW T, NEW H, NEW out \in OutSet(T, H), NEW h \in H
  PROVE  /\ All(WithSkip(out, h)) = All(out)
         /\ FlaggedIn(WithSkip(out, h).chunks) = FlaggedIn(out.chunks) \cup {h}
<1>. DEFINE chs == Flush(out).chunks
            new == Append(chs, Skip(h))
<1>1. Flush(out) \in OutSet(T, H)
  BY FlushType
<1>2. chs \in Seq(Chunk(T, H))
  BY <1>1 DEF OutSet
<1>3. /\ FlattenSeq(TextsOf(chs)) = All(out) /\ All(out) \in Seq(T)
      /\ FlaggedIn(chs) = FlaggedIn(out.chunks)
  BY FlushAll
<1>. HIDE DEF chs
<1>4. Skip(h) \in Chunk(T, H) /\ Skip(h).texts = <<>> /\ Skip(h).skipped = {h}
  BY DEF Skip, Chunk
<1>5. /\ TextsOf(chs) \in Seq(Seq(T))
      /\ TextsOf(new) = Append(TextsOf(chs), <<>>)
      /\ FlaggedIn(new) = FlaggedIn(chs) \cup {h}
  <2>1. OneMore(T, chs, Skip(h))
    BY <1>2, <1>4, TextsAppend
  <2>. QED
    BY <1>4, <2>1 DEF OneMore
<1>6. FlattenSeq(TextsOf(new)) = All(out) \o <<>>
  <2>1. <<>> \in Seq(T)
    OBVIOUS
  <2>. QED
    BY <1>3, <1>5, <2>1, FlattenAppend
<1>7. (All(out) \o <<>>) \o <<>> = All(out)
  BY <1>3
<1>8. WithSkip(out, h).chunks = new /\ WithSkip(out, h).pending = <<>>
  BY DEF WithSkip, chs
<1>. HIDE DEF new
<1>. QED
  BY <1>3, <1>5, <1>6, <1>7, <1>8 DEF All


-----------------------------------------------------------------------------
(* The order of the file. *)

(* How many elements of a set come before one. *)
Rank(S, p) == Cardinality({q \in S : q < p})

(* The elements of a set are told apart by their rank. *)
LEMMA RankRight ==
  ASSUME NEW S, IsFiniteSet(S), \A q \in S : q \in Nat
  PROVE  /\ \A p \in S : Rank(S, p) \in 0..(Cardinality(S) - 1)
         /\ \A p, q \in S : Rank(S, p) = Rank(S, q) => p = q
<1>. DEFINE Low(p) == {q \in S : q < p}
<1>1. \A p \in S : /\ Low(p) \in SUBSET S /\ p \notin Low(p)
                   /\ IsFiniteSet(Low(p)) /\ Cardinality(Low(p)) \in Nat
                   /\ Rank(S, p) = Cardinality(Low(p))
  <2>. TAKE p \in S
  <2>1. Low(p) \in SUBSET S
    OBVIOUS
  <2>2. ~(p < p)
    OBVIOUS
  <2>3. p \notin Low(p)
    BY <2>2
  <2>4. IsFiniteSet(Low(p)) /\ Cardinality(Low(p)) \in Nat
    BY <2>1, FS_Subset, FS_CardinalityType
  <2>. QED
    BY <2>1, <2>3, <2>4 DEF Rank
<1>2. Cardinality(S) \in Nat
  BY FS_CardinalityType
<1>3. \A p, q \in S : p < q => Low(p) \in SUBSET Low(q) /\ p \in Low(q)
  OBVIOUS
<1>. HIDE DEF Low
<1>4. \A p \in S : Cardinality(Low(p)) <= Cardinality(S) /\ Cardinality(Low(p)) # Cardinality(S)
  <2>. TAKE p \in S
  <2>1. /\ Cardinality(Low(p)) <= Cardinality(S)
        /\ Cardinality(S) = Cardinality(Low(p)) => S = Low(p)
    BY <1>1, FS_Subset
  <2>. QED
    BY <1>1, <2>1
<1>5. \A p, q \in S : p < q => Cardinality(Low(p)) # Cardinality(Low(q))
  <2>. SUFFICES ASSUME NEW p \in S, NEW q \in S, p < q
                PROVE  Cardinality(Low(p)) # Cardinality(Low(q))
    OBVIOUS
  <2>1. Cardinality(Low(q)) = Cardinality(Low(p)) => Low(q) = Low(p)
    BY <1>1, <1>3, FS_Subset
  <2>. QED
    BY <1>1, <1>3, <2>1
<1>6. \A p, q \in S : p = q \/ p < q \/ q < p
  OBVIOUS
<1>7. \A p \in S : Rank(S, p) \in 0..(Cardinality(S) - 1)
  BY <1>1, <1>2, <1>4
<1>8. \A p, q \in S : Rank(S, p) = Rank(S, q) => p = q
  BY <1>1, <1>5, <1>6
<1>. QED
  BY <1>7, <1>8

(* Ascending lists the elements of a set, each once. *)
LEMMA AscendingRight ==
  ASSUME NEW S, IsFiniteSet(S), \A q \in S : q \in Nat
  PROVE  /\ Ascending(S) \in Seq(S)
         /\ DOMAIN Ascending(S) = 1..Cardinality(S) /\ Cardinality(S) \in Nat
         /\ \A p \in S : \E k \in DOMAIN Ascending(S) : Ascending(S)[k] = p
         /\ \A j, k \in DOMAIN Ascending(S) :
              Ascending(S)[j] = Ascending(S)[k] => j = k
         /\ Ascending(S) = <<>> <=> S = {}
<1>. DEFINE n == Cardinality(S)
            f == [p \in S |-> Rank(S, p)]
            a == Ascending(S)
<1>1. n \in Nat
  BY FS_CardinalityType
<1>2. /\ \A p \in S : Rank(S, p) \in 0..(n - 1)
      /\ \A p, q \in S : Rank(S, p) = Rank(S, q) => p = q
  BY RankRight
<1>3. \A k \in 1..n : \E p \in S : Rank(S, p) = k - 1
  <2>1. f \in Injection(S, 0..(n - 1))
    BY <1>2 DEF Injection, IsInjective
  <2>2. IsFiniteSet(0..(n - 1)) /\ Cardinality(0..(n - 1)) = n
    BY <1>1, FS_Interval
  <2>. HIDE DEF n
  <2>3. n = Cardinality(0..(n - 1)) => f \in Surjection(S, 0..(n - 1))
    BY <2>1, <2>2, FS_Injection, Zenon DEF n
  <2>4. \A k \in 0..(n - 1) : \E p \in S : f[p] = k
    BY <2>2, <2>3 DEF Surjection
  <2>5. \A k \in 1..n : k - 1 \in 0..(n - 1)
    BY <1>1
  <2>. QED
    BY <2>4, <2>5
<1>4. a = [k \in 1..n |-> CHOOSE p \in S : Rank(S, p) = k - 1]
  BY DEF Ascending, Rank
<1>5. \A k \in 1..n : a[k] \in S /\ Rank(S, a[k]) = k - 1
  <2>. TAKE k \in 1..n
  <2>1. \E p \in S : Rank(S, p) = k - 1
    BY <1>3
  <2>. DEFINE c == CHOOSE p \in S : Rank(S, p) = k - 1
  <2>2. c \in S /\ Rank(S, c) = k - 1
    BY <2>1, Zenon
  <2>3. a[k] = c
    BY <1>4
  <2>. HIDE DEF c, a
  <2>. QED
    BY <2>2, <2>3
<1>6. DOMAIN a = 1..n
  BY <1>4
<1>. HIDE DEF a, n
<1>7. a \in [1..n -> S]
  BY <1>4, <1>5, <1>6
<1>8. a \in Seq(S) /\ Len(a) = n
  BY <1>1, <1>7
<1>9. \A p \in S : \E k \in 1..n : a[k] = p
  <2>. TAKE p \in S
  <2>. DEFINE k == Rank(S, p) + 1
  <2>1. k \in 1..n /\ k - 1 = Rank(S, p)
    BY <1>1, <1>2
  <2>. HIDE DEF k
  <2>2. a[k] \in S /\ Rank(S, a[k]) = Rank(S, p)
    BY <1>5, <2>1
  <2>3. a[k] = p
    BY <1>2, <2>2
  <2>. QED
    BY <2>1, <2>3
<1>10. \A j, k \in 1..n : a[j] = a[k] => j = k
  <2>. SUFFICES ASSUME NEW j \in 1..n, NEW k \in 1..n, a[j] = a[k]
                PROVE  j = k
    OBVIOUS
  <2>1. j - 1 = k - 1
    BY <1>5
  <2>. QED
    BY <1>1, <2>1
<1>11. a = <<>> <=> S = {}
  <2>1. a = <<>> <=> n = 0
    BY <1>1, <1>8
  <2>2. n = 0 <=> S = {}
    BY FS_EmptySet DEF n
  <2>. QED
    BY <2>1, <2>2
<1>. QED
  BY <1>1, <1>6, <1>8, <1>9, <1>10, <1>11 DEF a, n


-----------------------------------------------------------------------------
(* Lines of a node. *)

(* A stretch of the new file. *)
Stretch(lines) ==
    /\ lines \in SUBSET NewSide /\ lines # {}
    /\ \A a, b \in lines : \A k \in NewSide : a <= k /\ k <= b => k \in lines

(* Comparing line numbers with those of the first and of the last line of  *)
(* a stretch finds the changes in it, the lines removed just before one of *)
(* its lines included.                                                     *)
LEMMA TouchedMeets ==
  ASSUME edit \in Seq(Line), changed = {NewLine(i) : i \in Edited},
         NEW lines, Stretch(lines)
  PROVE  Touched(lines) <=> Meets(lines)
<1>. DEFINE a == Min(lines)
            b == Max(lines)
<1>1. /\ \A k \in NewSide : k \in Nat
      /\ \A k \in Edited : k \in Nat
      /\ Len(edit) \in Nat /\ NewSide \in SUBSET (1..Len(edit))
  BY Sides
<1>2. lines \in SUBSET NewSide /\ lines # {}
  BY DEF Stretch
<1>3. a \in lines /\ \A y \in lines : a <= y
  <2>1. lines \in SUBSET Nat
    BY <1>1, <1>2
  <2>. QED
    BY <1>2, <2>1, MinRight
<1>4. b \in lines /\ \A y \in lines : b >= y
  <2>1. lines \in SUBSET (1..Len(edit))
    BY <1>1, <1>2
  <2>. QED
    BY <1>1, <1>2, <2>1, MaxRight
<1>. HIDE DEF a, b
<1>5. a \in NewSide /\ b \in NewSide /\ a \in Nat /\ b \in Nat
  BY <1>1, <1>2, <1>3, <1>4
<1>6. \A i : NewLine(i) \in Nat
  BY BeforeFinite
<1>7. Touched(lines) <=> \E i \in Edited : NewLine(a) <= NewLine(i) /\ NewLine(i) <= NewLine(b)
  BY DEF Touched, a, b
<1>8. ASSUME NEW i \in Edited, NEW j \in lines, NewLine(i) = NewLine(j)
      PROVE  NewLine(a) <= NewLine(i) /\ NewLine(i) <= NewLine(b)
  <2>1. j \in Nat /\ a <= j /\ j <= b
    BY <1>1, <1>2, <1>3, <1>4, <1>5
  <2>2. NewLine(a) <= NewLine(j) /\ NewLine(j) <= NewLine(b)
    BY <1>5, <2>1, NewLineOrder
  <2>. QED
    BY <1>8, <2>2
<1>9. ASSUME NEW i \in Edited, NewLine(a) <= NewLine(i), NewLine(i) <= NewLine(b)
      PROVE  \E j \in lines : NewLine(i) = NewLine(j)
  <2>. DEFINE K == {k \in NewSide : k >= i}
              j == Min(K)
  <2>1. i \in Nat /\ i <= b
    <3>1. i \in Nat
      BY <1>1
    <3>2. b < i => NewLine(b) < NewLine(i)
      BY <1>5, <3>1, NewLineOrder
    <3>. QED
      BY <1>5, <1>6, <1>9, <3>1, <3>2
  <2>2. K \in SUBSET Nat /\ b \in K
    BY <1>1, <1>5, <2>1
  <2>3. j \in K /\ \A y \in K : j <= y
    BY <2>2, MinRight
  <2>. HIDE DEF j
  <2>4. j \in NewSide /\ j \in Nat /\ i <= j /\ j <= b
    BY <1>1, <2>1, <2>2, <2>3
  <2>5. NewLine(i) = NewLine(j)
    <3>1. \A k \in NewSide : ~(i <= k /\ k < j)
      BY <1>1, <2>1, <2>3, <2>4
    <3>. QED
      BY <2>1, <2>4, <3>1, NewLineOrder
  <2>6. a <= j
    <3>1. j < a => NewLine(j) < NewLine(a)
      BY <1>5, <2>4, NewLineOrder
    <3>. QED
      BY <1>5, <1>6, <1>9, <2>4, <2>5, <3>1
  <2>7. j \in lines
    BY <1>3, <1>4, <2>4, <2>6 DEF Stretch
  <2>. QED
    BY <2>5, <2>7
<1>. QED
  BY <1>7, <1>8, <1>9, Zenon DEF Meets

(* A top-level node starts with its head and has no other head in it. *)
LEMMA NodeRight ==
  ASSUME edit \in Seq(Line), NEW h \in Heads
  PROVE  /\ Stretch(Node(h)) /\ h \in Node(h) /\ Node(h) \cap Heads = {h}
<1>1. /\ \A k \in NewSide : k \in Nat
      /\ \A j \in Starts(NewSide) : j \in Nat
  BY Sides DEF Starts
<1>2. /\ h \in NewSide /\ h \in Nat
      /\ \A g \in Heads : g \in NewSide /\ g \in Starts(NewSide)
  BY <1>1 DEF Heads, Starts
<1>3. h \in Node(h)
  <2>1. h >= h /\ \A j \in Starts(NewSide) : ~(h < j /\ j <= h)
    BY <1>1, <1>2
  <2>. QED
    BY <1>2, <2>1 DEF Node
<1>4. \A g \in Node(h) \cap Heads : g = h
  <2>. SUFFICES ASSUME NEW g \in Node(h), g \in Heads
                PROVE  g = h
    OBVIOUS
  <2>1. g >= h /\ ~(h < g /\ g <= g)
    BY <1>2 DEF Node
  <2>. QED
    BY <1>1, <1>2, <2>1
<1>5. ASSUME NEW a \in Node(h), NEW b \in Node(h), NEW k \in NewSide, a <= k, k <= b
      PROVE  k \in Node(h)
  <2>1. /\ a \in NewSide /\ b \in NewSide /\ a >= h
        /\ \A j \in Starts(NewSide) : ~(h < j /\ j <= b)
    BY DEF Node
  <2>2. k >= h /\ \A j \in Starts(NewSide) : ~(h < j /\ j <= k)
    <3>1. k \in Nat /\ a \in Nat /\ b \in Nat /\ h \in Nat
      BY <1>1, <1>2, <2>1
    <3>2. \A j \in Nat : j <= k => j <= b
      BY <1>5, <3>1
    <3>. QED
      BY <1>1, <1>5, <2>1, <3>1, <3>2
  <2>. QED
    BY <2>2 DEF Node
<1>6. Node(h) \in SUBSET NewSide
  BY DEF Node
<1>. QED
  BY <1>3, <1>4, <1>5, <1>6 DEF Stretch

(* A method starts with its first line and is all below a head. *)
LEMMA PartRight ==
  ASSUME edit \in Seq(Line), NEW p \in NewSide, edit[p].kind = "method"
  PROVE  /\ Stretch(Part(p)) /\ p \in Part(p) /\ Part(p) \cap Heads = {}
         /\ \A q \in Part(p) : edit[q].kind = "method" => q = p
<1>1. \A k \in NewSide : k \in Nat
  BY Sides
<1>2. p \in Part(p)
  BY <1>1 DEF Part
<1>3. \A q \in Part(p) : q # p => edit[q].kind = "more"
  <2>. SUFFICES ASSUME NEW q \in Part(p), q # p
                PROVE  edit[q].kind = "more"
    OBVIOUS
  <2>1. q \in NewSide /\ q >= p /\ (p < q /\ q <= q => edit[q].kind = "more")
    BY DEF Part
  <2>. QED
    BY <1>1, <2>1
<1>4. ASSUME NEW a \in Part(p), NEW b \in Part(p), NEW k \in NewSide, a <= k, k <= b
      PROVE  k \in Part(p)
  <2>1. /\ a \in NewSide /\ b \in NewSide /\ a >= p
        /\ \A j \in NewSide : ~(p < j /\ j <= b /\ edit[j].kind # "more")
    BY DEF Part
  <2>2. k >= p /\ \A j \in NewSide : ~(p < j /\ j <= k /\ edit[j].kind # "more")
    BY <1>1, <1>4, <2>1
  <2>. QED
    BY <2>2 DEF Part
<1>5. Part(p) \in SUBSET NewSide
  BY DEF Part
<1>6. \A g \in Heads : edit[g].kind # "more" /\ edit[g].kind # "method"
  BY DEF Heads, TopKinds
<1>7. Part(p) \cap Heads = {}
  BY <1>3, <1>6
<1>8. \A q \in Part(p) : edit[q].kind = "method" => q = p
  BY <1>3
<1>. QED
  BY <1>2, <1>4, <1>5, <1>7, <1>8 DEF Stretch


-----------------------------------------------------------------------------
(* What is sent of one top-level node. *)

TouchedMethods(h) == {p \in Methods(h) : Touched(Part(p))}

(* The touched methods of a class, each once and below its header. *)
LEMMA MethodTextsRight ==
  ASSUME edit \in Seq(Line), NEW h \in Heads
  PROVE  /\ MethodTexts(h) \in Seq(SUBSET NewSide)
         /\ Distinct(MethodTexts(h))
         /\ ToSet(MethodTexts(h)) = {{h} \cup Part(p) : p \in TouchedMethods(h)}
         /\ \A t \in ToSet(MethodTexts(h)) : t \cap Heads = {h}
         /\ MethodTexts(h) = <<>> <=> TouchedMethods(h) = {}
<1>. DEFINE M == TouchedMethods(h)
            a == Ascending(M)
            s == MethodTexts(h)
            n == Cardinality(M)
<1>1. /\ h \in NewSide /\ h \in Heads
      /\ edit[h].kind # "method"
  BY DEF Heads, TopKinds
<1>2. \A p \in M : p \in NewSide /\ edit[p].kind = "method"
  BY DEF TouchedMethods, Methods, Node
<1>3. \A q \in M : q \in Nat
  BY <1>2, Sides
<1>4. IsFiniteSet(M)
  <2>1. M \in SUBSET NewSide
    BY <1>2
  <2>. QED
    BY <2>1, Sides, FS_Subset
<1>. HIDE DEF M
<1>5. /\ a \in Seq(M) /\ DOMAIN a = 1..n /\ n \in Nat
      /\ \A p \in M : \E k \in 1..n : a[k] = p
      /\ \A j, k \in 1..n : a[j] = a[k] => j = k
      /\ a = <<>> <=> M = {}
  BY <1>3, <1>4, AscendingRight
<1>6. s = [k \in DOMAIN a |-> {h} \cup Part(a[k])]
  BY DEF MethodTexts, TouchedMethods, M
<1>. HIDE DEF a, n, s
<1>7. /\ DOMAIN s = 1..n /\ \A k \in 1..n : s[k] = {h} \cup Part(a[k])
      /\ \A k \in 1..n : a[k] \in M
  BY <1>5, <1>6
<1>8. \A p \in M : /\ Part(p) \in SUBSET NewSide /\ p \in Part(p)
                   /\ Part(p) \cap Heads = {}
                   /\ \A q \in Part(p) : edit[q].kind = "method" => q = p
  BY <1>2, PartRight DEF Stretch
<1>9. \A k \in 1..n : s[k] \in SUBSET NewSide /\ s[k] \cap Heads = {h}
  <2>. TAKE k \in 1..n
  <2>1. Part(a[k]) \in SUBSET NewSide /\ Part(a[k]) \cap Heads = {}
    BY <1>7, <1>8
  <2>2. s[k] = {h} \cup Part(a[k])
    BY <1>7
  <2>. QED
    BY <1>1, <2>1, <2>2, Zenon
<1>10. s \in [1..n -> SUBSET NewSide]
  <2>1. s = [k \in 1..n |-> s[k]]
    BY <1>5, <1>6, <1>7
  <2>. QED
    BY <1>9, <2>1
<1>11. s \in Seq(SUBSET NewSide) /\ Len(s) = n
  BY <1>5, <1>10
<1>12. ASSUME NEW j \in 1..n, NEW k \in 1..n, s[j] = s[k]
       PROVE  j = k
  <2>1. a[j] \in Part(a[j]) /\ edit[a[j]].kind = "method" /\ a[j] \in M
    BY <1>2, <1>7, <1>8
  <2>2. a[j] \in {h} \cup Part(a[k])
    BY <1>7, <1>12, <2>1
  <2>3. a[j] # h
    BY <1>1, <2>1
  <2>4. a[j] = a[k]
    BY <1>7, <1>8, <2>1, <2>2, <2>3
  <2>. QED
    BY <1>5, <2>4
<1>13. ToSet(s) = {{h} \cup Part(p) : p \in M}
  <2>1. \A t \in ToSet(s) : t \in {{h} \cup Part(p) : p \in M}
    BY <1>7 DEF ToSet
  <2>2. ASSUME NEW p \in M
        PROVE  {h} \cup Part(p) \in ToSet(s)
    <3>1. PICK k \in 1..n : a[k] = p
      BY <1>5
    <3>2. s[k] = {h} \cup Part(p) /\ k \in DOMAIN s
      BY <1>7, <3>1
    <3>. QED
      BY <3>2 DEF ToSet
  <2>. QED
    BY <2>1, <2>2, Zenon
<1>14. s = <<>> <=> a = <<>>
  <2>1. s = <<>> <=> n = 0
    BY <1>5, <1>11
  <2>2. a = <<>> <=> n = 0
    BY <1>5
  <2>. QED
    BY <2>1, <2>2
<1>15. Distinct(s)
  BY <1>7, <1>12 DEF Distinct
<1>16. \A t \in ToSet(s) : t \cap Heads = {h}
  BY <1>7, <1>9 DEF ToSet
<1>. QED
  BY <1>5, <1>11, <1>13, <1>14, <1>15, <1>16 DEF s, M

(* The texts sent of a node, and whether it is flagged instead. *)
HeadTexts(h) ==
    IF ~Touched(Node(h)) THEN <<>>
    ELSE IF ~Oversized(h) THEN << Node(h) >> ELSE MethodTexts(h)
TooLarge(h) ==
    Touched(Node(h)) /\ Oversized(h) /\ TouchedMethods(h) = {}

(* Its texts are told apart from those of the other nodes by their head. *)
LEMMA HeadTextsRight ==
  ASSUME edit \in Seq(Line), NEW h \in Heads
  PROVE  /\ HeadTexts(h) \in Seq(SUBSET NewSide) /\ Distinct(HeadTexts(h))
         /\ \A t \in ToSet(HeadTexts(h)) : t \cap Heads = {h}
         /\ TooLarge(h) => HeadTexts(h) = <<>>
<1>1. CASE ~Touched(Node(h))
  <2>1. HeadTexts(h) = <<>>
    BY <1>1 DEF HeadTexts
  <2>2. <<>> \in Seq(SUBSET NewSide) /\ Distinct(<<>>) /\ ToSet(<<>>) = {}
    BY DEF Distinct, ToSet
  <2>. QED
    BY <2>1, <2>2
<1>2. CASE Touched(Node(h)) /\ ~Oversized(h)
  <2>1. HeadTexts(h) = << Node(h) >>
    BY <1>2 DEF HeadTexts
  <2>2. Node(h) \in SUBSET NewSide /\ Node(h) \cap Heads = {h}
    BY NodeRight DEF Stretch
  <2>3. /\ << Node(h) >> \in Seq(SUBSET NewSide) /\ Distinct(<< Node(h) >>)
        /\ ToSet(<< Node(h) >>) = {Node(h)}
    BY <2>2 DEF Distinct, ToSet
  <2>. QED
    BY <1>2, <2>1, <2>2, <2>3 DEF TooLarge
<1>3. CASE Touched(Node(h)) /\ Oversized(h)
  <2>1. HeadTexts(h) = MethodTexts(h)
    BY <1>3 DEF HeadTexts
  <2>. QED
    BY <2>1, MethodTextsRight DEF TooLarge
<1>. QED
  BY <1>1, <1>2, <1>3


(* The loop over the top-level nodes, one node. *)
Send(out, h) ==
    IF TooLarge(h) THEN WithSkip(out, h) ELSE AddAll(out, HeadTexts(h))

(* It sends the texts of the node, or flags it. *)
LEMMA SendRight ==
  ASSUME edit \in Seq(Line), NEW h \in Heads,
         NEW out \in OutSet(SUBSET NewSide, Heads), Packed(out)
  PROVE  /\ Send(out, h) \in OutSet(SUBSET NewSide, Heads)
         /\ Packed(Send(out, h))
         /\ All(out) \in Seq(SUBSET NewSide)
         /\ All(Send(out, h)) = All(out) \o HeadTexts(h)
         /\ FlaggedIn(Send(out, h).chunks) =
              FlaggedIn(out.chunks) \cup {g \in {h} : TooLarge(g)}
<1>. DEFINE T == SUBSET NewSide
            s == HeadTexts(h)
<1>1. \A t \in T : IsFiniteSet(t)
  BY Sides, FS_Subset
<1>2. s \in Seq(T) /\ (TooLarge(h) => s = <<>>)
  BY HeadTextsRight
<1>3. All(out) \in Seq(T)
  BY FlushAll
<1>. HIDE DEF T, s
<1>4. CASE TooLarge(h)
  <2>1. Send(out, h) = WithSkip(out, h)
    BY <1>4 DEF Send
  <2>2. WithSkip(out, h) \in OutSet(T, Heads) /\ Packed(WithSkip(out, h))
    BY SkipPacks DEF T
  <2>3. /\ All(WithSkip(out, h)) = All(out)
        /\ FlaggedIn(WithSkip(out, h).chunks) = FlaggedIn(out.chunks) \cup {h}
    BY SkipSends
  <2>4. All(out) \o s = All(out)
    BY <1>2, <1>3, <1>4
  <2>5. {g \in {h} : TooLarge(g)} = {h}
    BY <1>4
  <2>. QED
    BY <1>3, <2>1, <2>2, <2>3, <2>4, <2>5 DEF T, s
<1>5. CASE ~TooLarge(h)
  <2>1. Send(out, h) = AddAll(out, s)
    BY <1>5 DEF Send, s
  <2>2. out \in OutSet(T, Heads)
    BY DEF T
  <2>3. AddAll(out, s) \in OutSet(T, Heads)
    BY <1>2, <2>2, AddAllSteps
  <2>4. Packed(AddAll(out, s))
    BY <1>1, <1>2, <2>2, AddAllPacks
  <2>5. /\ All(AddAll(out, s)) = All(out) \o s
        /\ FlaggedIn(AddAll(out, s).chunks) = FlaggedIn(out.chunks)
    BY <1>2, <2>2, AddAllSends
  <2>6. {g \in {h} : TooLarge(g)} = {}
    BY <1>5
  <2>. QED
    BY <1>3, <2>1, <2>3, <2>4, <2>5, <2>6 DEF T, s
<1>. QED
  BY <1>4, <1>5

(* What has been sent when the nodes in left are still to visit. *)
Scoped(out, left) ==
    /\ ToSet(All(out)) = UNION {ToSet(HeadTexts(g)) : g \in Heads \ left}
    /\ Distinct(All(out))
    /\ FlaggedIn(out.chunks) = {g \in Heads \ left : TooLarge(g)}

(* The loop keeps that. *)
LEMMA SendScopes ==
  ASSUME edit \in Seq(Line), NEW left \in SUBSET Heads, NEW h \in left,
         NEW out \in OutSet(SUBSET NewSide, Heads), Packed(out),
         Scoped(out, left)
  PROVE  Scoped(Send(out, h), left \ {h})
<1>. DEFINE T == SUBSET NewSide
            s == HeadTexts(h)
            next == Send(out, h)
            a == All(out)
<1>1. h \in Heads
  OBVIOUS
<1>2. /\ a \in Seq(T) /\ All(next) = a \o s
      /\ FlaggedIn(next.chunks) = FlaggedIn(out.chunks) \cup {g \in {h} : TooLarge(g)}
  BY <1>1, SendRight
<1>3. /\ s \in Seq(T) /\ Distinct(s)
      /\ \A t \in ToSet(s) : t \cap Heads = {h}
  BY <1>1, HeadTextsRight
<1>4. /\ ToSet(a) = UNION {ToSet(HeadTexts(g)) : g \in Heads \ left}
      /\ Distinct(a)
      /\ FlaggedIn(out.chunks) = {g \in Heads \ left : TooLarge(g)}
  BY DEF Scoped
<1>. HIDE DEF T, s, next, a
<1>5. \A t \in ToSet(a) : \E g \in Heads \ left : t \cap Heads = {g}
  <2>. TAKE t \in ToSet(a)
  <2>1. PICK g \in Heads \ left : t \in ToSet(HeadTexts(g))
    BY <1>4
  <2>2. g \in Heads
    BY <2>1
  <2>3. t \cap Heads = {g}
    BY <2>1, <2>2, HeadTextsRight
  <2>. QED
    BY <2>1, <2>3
<1>6. ToSet(a) \cap ToSet(s) = {}
  <2>. SUFFICES ASSUME NEW t \in ToSet(a), t \in ToSet(s)
                PROVE  FALSE
    OBVIOUS
  <2>1. PICK g \in Heads \ left : t \cap Heads = {g}
    BY <1>5
  <2>2. t \cap Heads = {h}
    BY <1>3
  <2>3. g = h
    BY <2>1, <2>2
  <2>. QED
    BY <2>1, <2>3
<1>7. ToSet(a \o s) = ToSet(a) \cup ToSet(s) /\ Distinct(a \o s)
  BY <1>2, <1>3, <1>4, <1>6, ConcatElements
<1>8. \A g : g \in Heads \ (left \ {h}) <=> g \in Heads \ left \/ g = h
  BY <1>1
<1>9. ToSet(All(next)) = UNION {ToSet(HeadTexts(g)) : g \in Heads \ (left \ {h})}
  <2>1. ToSet(All(next)) = (UNION {ToSet(HeadTexts(g)) : g \in Heads \ left}) \cup ToSet(s)
    BY <1>2, <1>4, <1>7
  <2>2. UNION {ToSet(HeadTexts(g)) : g \in Heads \ (left \ {h})}
          = (UNION {ToSet(HeadTexts(g)) : g \in Heads \ left}) \cup ToSet(HeadTexts(h))
    BY <1>8, Zenon
  <2>. QED
    BY <2>1, <2>2 DEF s
<1>10. FlaggedIn(next.chunks) = {g \in Heads \ (left \ {h}) : TooLarge(g)}
  BY <1>1, <1>2, <1>4, <1>8, Zenon
<1>. QED
  BY <1>2, <1>7, <1>9, <1>10 DEF Scoped, next

(* VisitScoped is that loop's body. *)
LEMMA VisitSends ==
  ASSUME edit \in Seq(Line), Out \in OutSet(SUBSET NewSide, Heads),
         NEW h \in Heads, VisitScoped(h)
  PROVE  Out' = Send(Out, h)
<1>. DEFINE T == SUBSET NewSide
<1>1. /\ AddAll(Out, <<>>) = Out
      /\ \A x \in T : AddAll(Out, Append(<<>>, x)) = Add(AddAll(Out, <<>>), x)
  <2>1. <<>> \in Seq(T) /\ Out \in OutSet(T, Heads)
    OBVIOUS
  <2>. HIDE DEF T
  <2>2. \A out \in OutSet(T, Heads) :
          /\ AddAll(out, <<>>) = out
          /\ \A r \in Seq(T), x \in T : AddAll(out, Append(r, x)) = Add(AddAll(out, r), x)
    BY AddAllSteps
  <2>. QED
    BY <2>1, <2>2
<1>2. \A out \in OutSet(T, Heads) : out = [chunks |-> out.chunks, pending |-> out.pending]
  BY DEF OutSet
<1>3. ASSUME NEW out \in OutSet(T, Heads), Emit(out)
      PROVE  Out' = out
  BY <1>2, <1>3 DEF Emit, Out
<1>4. MethodTexts(h) = <<>> <=> TouchedMethods(h) = {}
  BY MethodTextsRight
<1>5. Node(h) \in T
  BY NodeRight DEF Stretch
<1>6. HeadTexts(h) \in Seq(T)
  BY HeadTextsRight
<1>7. AddAll(Out, HeadTexts(h)) \in OutSet(T, Heads)
  BY <1>6, AddAllSteps
<1>8. CASE ~Touched(Node(h))
  <2>1. Emit(Out)
    BY <1>8 DEF VisitScoped
  <2>2. ~TooLarge(h) /\ HeadTexts(h) = <<>>
    BY <1>8 DEF TooLarge, HeadTexts
  <2>. QED
    BY <1>1, <1>3, <2>1, <2>2 DEF Send
<1>9. CASE Touched(Node(h)) /\ ~Oversized(h)
  <2>1. Emit(Add(Out, Node(h)))
    BY <1>9 DEF VisitScoped
  <2>2. ~TooLarge(h) /\ HeadTexts(h) = << Node(h) >>
    BY <1>9 DEF TooLarge, HeadTexts
  <2>3. << Node(h) >> = Append(<<>>, Node(h))
    OBVIOUS
  <2>4. Add(Out, Node(h)) = AddAll(Out, HeadTexts(h))
    BY <1>1, <1>5, <2>2, <2>3
  <2>. QED
    BY <1>3, <1>7, <2>1, <2>2, <2>4 DEF Send
<1>10. CASE Touched(Node(h)) /\ Oversized(h) /\ MethodTexts(h) # <<>>
  <2>1. Emit(AddAll(Out, MethodTexts(h)))
    BY <1>10 DEF VisitScoped, AddAll
  <2>2. ~TooLarge(h) /\ HeadTexts(h) = MethodTexts(h)
    BY <1>4, <1>10 DEF TooLarge, HeadTexts
  <2>. QED
    BY <1>3, <1>7, <2>1, <2>2 DEF Send
<1>11. CASE Touched(Node(h)) /\ Oversized(h) /\ MethodTexts(h) = <<>>
  <2>1. Emit(WithSkip(Out, h))
    BY <1>11 DEF VisitScoped, WithSkip
  <2>2. TooLarge(h)
    BY <1>4, <1>11 DEF TooLarge
  <2>3. Out' = WithSkip(Out, h)
    BY <2>1 DEF Emit, Out, WithSkip
  <2>. QED
    BY <2>2, <2>3 DEF Send
<1>. QED
  BY <1>8, <1>9, <1>10, <1>11


-----------------------------------------------------------------------------
(* The invariant. *)

(* Chunked without a patch, a node is sent, flagged, or split into methods *)
(* that are all sent.                                                      *)
Covered(out, h) ==
    \/ Node(h) \in ToSet(All(out))
    \/ h \in FlaggedIn(out.chunks)
    \/ /\ Oversized(h) /\ Methods(h) # {}
       /\ \A p \in Methods(h) : Part(p) \in ToSet(All(out))

(* Nothing is chunked while the edit is written. *)
NotBegun == changed = {} /\ todo = {} /\ chunks = <<>> /\ pending = <<>>

ScopedInv ==
    /\ phase \in {"scoped", "scoped_sent"} => Scoped(Out, todo)
    /\ phase = "scoped" => Packed(Out)
    /\ phase = "scoped_sent" => PackedChunks(chunks)
WholeInv ==
    phase \in {"whole", "whole_sent"} => \A h \in Heads \ todo : Covered(Out, h)

Inv ==
    /\ TypeOK
    /\ Len(edit) <= MaxLines
    /\ phase = "edit" => NotBegun
    /\ phase \in {"scoped_sent", "whole_sent"} => todo = {} /\ pending = <<>>
    /\ HunksPlaceEdits
    /\ ScopedInv
    /\ WholeInv


-----------------------------------------------------------------------------
(* Chunking without a patch. *)

(* What has been sent is in a chunk or pending. *)
LEMMA AllElements ==
  ASSUME NEW T, NEW H, NEW out \in OutSet(T, H)
  PROVE  \A t : t \in ToSet(All(out)) <=>
                  \/ \E k \in DOMAIN out.chunks : t \in ToSet(out.chunks[k].texts)
                  \/ t \in ToSet(out.pending)
<1>. DEFINE ss == TextsOf(out.chunks)
<1>1. out.chunks \in Seq(Chunk(T, H)) /\ out.pending \in Seq(T)
  BY DEF OutSet
<1>2. ss \in Seq(Seq(T))
  <2>1. Code(out.pending) \in Chunk(T, H)
    BY <1>1 DEF Code, Chunk
  <2>. QED
    BY <1>1, <2>1, TextsAppend DEF OneMore
<1>3. DOMAIN ss = DOMAIN out.chunks /\ \A k \in DOMAIN ss : ss[k] = out.chunks[k].texts
  BY DEF TextsOf
<1>. HIDE DEF ss
<1>4. FlattenSeq(ss) \in Seq(T)
  BY <1>2, FlattenRight
<1>5. ToSet(All(out)) = ToSet(FlattenSeq(ss)) \cup ToSet(out.pending)
  BY <1>1, <1>4, ConcatElements DEF All, ss
<1>6. \A t : t \in ToSet(FlattenSeq(ss)) <=> \E k \in DOMAIN ss : t \in ToSet(ss[k])
  BY <1>2, FlattenElements
<1>. QED
  BY <1>3, <1>5, <1>6

(* More chunks, or the pending texts made a chunk: nothing is lost. *)
Grown(out, next) ==
    /\ \A k \in DOMAIN out.chunks :
         k \in DOMAIN next.chunks /\ next.chunks[k] = out.chunks[k]
    /\ \A t \in ToSet(out.pending) :
         \/ t \in ToSet(next.pending)
         \/ \E k \in DOMAIN next.chunks : t \in ToSet(next.chunks[k].texts)

(* Then a node that is covered stays covered. *)
LEMMA CoveredStays ==
  ASSUME NEW T, NEW H, NEW out \in OutSet(T, H), NEW next \in OutSet(T, H),
         Grown(out, next)
  PROVE  \A g : Covered(out, g) => Covered(next, g)
<1>1. \A t : t \in ToSet(All(out)) => t \in ToSet(All(next))
  <2>1. \A t : t \in ToSet(All(out)) =>
                  \/ \E k \in DOMAIN out.chunks : t \in ToSet(out.chunks[k].texts)
                  \/ t \in ToSet(out.pending)
    BY AllElements
  <2>2. \A t : (\/ \E k \in DOMAIN next.chunks : t \in ToSet(next.chunks[k].texts)
                \/ t \in ToSet(next.pending)) => t \in ToSet(All(next))
    BY AllElements
  <2>. QED
    BY <2>1, <2>2 DEF Grown
<1>2. \A h : h \in FlaggedIn(out.chunks) => h \in FlaggedIn(next.chunks)
  BY DEF FlaggedIn, Grown
<1>. QED
  BY <1>1, <1>2, Zenon DEF Covered

(* One more chunk at the end. *)
LEMMA ChunkGrows ==
  ASSUME NEW T, NEW H, NEW out \in OutSet(T, H), NEW c \in Chunk(T, H),
         NEW pen \in Seq(T),
         pen = out.pending \/ c.texts = out.pending
  PROVE  LET next == [chunks |-> Append(out.chunks, c), pending |-> pen]
         IN  next \in OutSet(T, H) /\ Grown(out, next)
<1>. DEFINE chs == Append(out.chunks, c)
            n == Len(out.chunks)
            next == [chunks |-> chs, pending |-> pen]
<1>1. out.chunks \in Seq(Chunk(T, H)) /\ out.pending \in Seq(T)
  BY DEF OutSet
<1>2. /\ chs \in Seq(Chunk(T, H)) /\ n \in Nat
      /\ DOMAIN out.chunks = 1..n /\ DOMAIN chs = 1..(n + 1)
      /\ \A k \in 1..n : chs[k] = out.chunks[k]
      /\ chs[n + 1] = c
  BY <1>1
<1>. HIDE DEF chs, n
<1>3. next \in OutSet(T, H)
  BY <1>2 DEF OutSet
<1>4. next.chunks = chs /\ next.pending = pen
  OBVIOUS
<1>. HIDE DEF next
<1>5. n + 1 \in 1..(n + 1) /\ \A k \in 1..n : k \in 1..(n + 1)
  BY <1>2
<1>6. \A t \in ToSet(out.pending) : t \in ToSet(pen) \/ t \in ToSet(chs[n + 1].texts)
  BY <1>2
<1>7. Grown(out, next)
  BY <1>2, <1>4, <1>5, <1>6 DEF Grown
<1>. QED
  BY <1>3, <1>7 DEF next, chs


(* The methods of a class, each a chunk of its own. *)
LEMMA SplitCovers ==
  ASSUME edit \in Seq(Line), NEW h \in Heads, Oversized(h), Methods(h) # {},
         NEW out \in OutSet(SUBSET NewSide, Heads)
  PROVE  LET methods == Ascending(Methods(h))
             next == [chunks |-> out.chunks \o [k \in DOMAIN methods |->
                                                  Code(<< Part(methods[k]) >>)],
                      pending |-> out.pending]
         IN  /\ next \in OutSet(SUBSET NewSide, Heads)
             /\ Grown(out, next) /\ Covered(next, h)
<1>. DEFINE T == SUBSET NewSide
            C == Chunk(T, Heads)
            M == Methods(h)
            a == Ascending(M)
            more == [k \in DOMAIN a |-> Code(<< Part(a[k]) >>)]
            chs == out.chunks \o more
            next == [chunks |-> chs, pending |-> out.pending]
            m == Len(out.chunks)
            n == Cardinality(M)
<1>1. out.chunks \in Seq(C) /\ out.pending \in Seq(T)
  BY DEF OutSet
<1>2. \A p \in M : p \in NewSide /\ edit[p].kind = "method" /\ p \in Nat
  BY Sides DEF Methods, Node
<1>3. IsFiniteSet(M)
  <2>1. M \in SUBSET NewSide
    BY <1>2
  <2>. QED
    BY <2>1, Sides, FS_Subset
<1>. HIDE DEF M
<1>4. /\ a \in Seq(M) /\ DOMAIN a = 1..n /\ n \in Nat
      /\ \A p \in M : \E k \in 1..n : a[k] = p
  BY <1>2, <1>3, AscendingRight
<1>. HIDE DEF a, n
<1>5. \A k \in 1..n : a[k] \in M
  BY <1>4
<1>6. \A p \in M : Part(p) \in T
  BY DEF Part
<1>. HIDE DEF T
<1>7. \A p \in M : /\ Code(<< Part(p) >>) \in C
                   /\ Part(p) \in ToSet(Code(<< Part(p) >>).texts)
  <2>. TAKE p \in M
  <2>1. << Part(p) >> \in Seq(T) /\ Code(<< Part(p) >>).texts = << Part(p) >>
    BY <1>6 DEF Code
  <2>2. Code(<< Part(p) >>) \in C
    BY <2>1 DEF Code, Chunk
  <2>3. Part(p) \in ToSet(<< Part(p) >>)
    BY DEF ToSet
  <2>. QED
    BY <2>1, <2>2, <2>3
<1>. HIDE DEF C
<1>8. /\ more \in [1..n -> C]
      /\ \A k \in 1..n : more[k] = Code(<< Part(a[k]) >>)
  BY <1>4, <1>5, <1>7
<1>9. more \in Seq(C) /\ Len(more) = n
  BY <1>4, <1>8
<1>. HIDE DEF more
<1>10. /\ chs \in Seq(C) /\ m \in Nat
       /\ DOMAIN out.chunks = 1..m /\ DOMAIN chs = 1..(m + n)
       /\ \A k \in 1..m : chs[k] = out.chunks[k]
       /\ \A k \in (m + 1)..(m + n) : chs[k] = more[k - m]
  <2>1. /\ Len(more) = n /\ more \in Seq(C)
        /\ m \in Nat /\ DOMAIN out.chunks = 1..m
    BY <1>1, <1>9
  <2>2. chs \in Seq(C) /\ Len(chs) = m + n
    BY <1>1, <2>1, ConcatProperties
  <2>3. \A k \in 1..(m + Len(more)) :
          chs[k] = IF k <= m THEN out.chunks[k] ELSE more[k - m]
    BY <1>1, <2>1
  <2>. HIDE DEF chs, m
  <2>4. \A k \in 1..(m + n) : chs[k] = IF k <= m THEN out.chunks[k] ELSE more[k - m]
    BY <2>1, <2>3
  <2>5. DOMAIN chs = 1..(m + n)
    BY <2>2
  <2>6. /\ \A k \in 1..m : k \in 1..(m + n) /\ k <= m
        /\ \A k \in (m + 1)..(m + n) : k \in 1..(m + n) /\ ~(k <= m)
    BY <1>4, <2>1
  <2>7. \A k \in 1..m : chs[k] = out.chunks[k]
    BY <2>4, <2>6
  <2>8. \A k \in (m + 1)..(m + n) : chs[k] = more[k - m]
    BY <2>4, <2>6
  <2>. QED
    BY <2>1, <2>2, <2>5, <2>7, <2>8
<1>. HIDE DEF chs, m
<1>11. /\ \A k \in 1..m : k \in 1..(m + n)
       /\ \A k \in 1..n : /\ m + k \in (m + 1)..(m + n)
                          /\ m + k \in 1..(m + n) /\ (m + k) - m = k
  BY <1>4, <1>10
<1>12. next \in OutSet(T, Heads)
  BY <1>1, <1>10 DEF OutSet, C
<1>13. next.chunks = chs /\ next.pending = out.pending
  OBVIOUS
<1>. HIDE DEF next
<1>14. Grown(out, next)
  BY <1>10, <1>11, <1>13 DEF Grown
<1>15. ASSUME NEW p \in M
       PROVE  Part(p) \in ToSet(All(next))
  <2>1. PICK k \in 1..n : a[k] = p
    BY <1>4
  <2>2. m + k \in DOMAIN chs /\ chs[m + k] = Code(<< Part(p) >>)
    BY <1>8, <1>10, <1>11, <2>1
  <2>3. m + k \in DOMAIN next.chunks /\ Part(p) \in ToSet(next.chunks[m + k].texts)
    BY <1>7, <1>13, <2>2
  <2>. QED
    BY <1>12, <2>3, AllElements
<1>16. Covered(next, h)
  BY <1>15 DEF Covered, M
<1>. QED
  BY <1>12, <1>14, <1>16 DEF next, chs, more, a, M, T

(* A node that is flagged, packed after a full chunk, or packed. *)
LEMMA UnitCovers ==
  ASSUME edit \in Seq(Line), NEW h \in Heads,
         NEW out \in OutSet(SUBSET NewSide, Heads), NEW next,
         \/ next = [chunks |-> Append(out.chunks, Skip(h)),
                    pending |-> out.pending]
         \/ next = [chunks |-> Append(out.chunks, Code(out.pending)),
                    pending |-> << Node(h) >>]
         \/ next = [chunks |-> out.chunks,
                    pending |-> Append(out.pending, Node(h))]
  PROVE  /\ next \in OutSet(SUBSET NewSide, Heads)
         /\ Grown(out, next) /\ Covered(next, h)
<1>. DEFINE T == SUBSET NewSide
            x == Node(h)
<1>1. out.chunks \in Seq(Chunk(T, Heads)) /\ out.pending \in Seq(T)
  BY DEF OutSet
<1>2. x \in T
  BY NodeRight DEF Stretch
<1>3. ASSUME NEW o \in OutSet(T, Heads), x \in ToSet(o.pending)
      PROVE  Covered(o, h)
  <2>1. x \in ToSet(All(o))
    BY <1>3, AllElements
  <2>. QED
    BY <2>1 DEF Covered
<1>4. out \in OutSet(T, Heads)
  OBVIOUS
<1>. HIDE DEF T, x
<1>5. CASE next = [chunks |-> Append(out.chunks, Skip(h)), pending |-> out.pending]
  <2>1. Skip(h) \in Chunk(T, Heads) /\ Skip(h).skipped = {h}
    BY DEF Skip, Chunk
  <2>2. next \in OutSet(T, Heads) /\ Grown(out, next)
    BY <1>1, <1>4, <1>5, <2>1, ChunkGrows
  <2>3. FlaggedIn(Append(out.chunks, Skip(h))) = FlaggedIn(out.chunks) \cup {h}
    <3>1. OneMore(T, out.chunks, Skip(h))
      BY <1>1, <2>1, TextsAppend
    <3>. QED
      BY <2>1, <3>1 DEF OneMore
  <2>4. h \in FlaggedIn(next.chunks)
    BY <1>5, <2>3
  <2>. QED
    BY <2>2, <2>4 DEF Covered, T
<1>6. CASE next = [chunks |-> Append(out.chunks, Code(out.pending)), pending |-> << x >>]
  <2>1. /\ Code(out.pending) \in Chunk(T, Heads) /\ Code(out.pending).texts = out.pending
        /\ << x >> \in Seq(T)
    BY <1>1, <1>2 DEF Code, Chunk
  <2>2. next \in OutSet(T, Heads) /\ Grown(out, next)
    BY <1>4, <1>6, <2>1, ChunkGrows
  <2>3. x \in ToSet(next.pending)
    BY <1>6 DEF ToSet
  <2>. QED
    BY <1>3, <2>2, <2>3 DEF T
<1>7. CASE next = [chunks |-> out.chunks, pending |-> Append(out.pending, x)]
  <2>1. Append(out.pending, x) \in Seq(T) /\ << x >> \in Seq(T)
    BY <1>1, <1>2
  <2>2. Append(out.pending, x) = out.pending \o << x >>
    BY <1>1, <1>2, AppendIsConcat
  <2>3. ToSet(Append(out.pending, x)) = ToSet(out.pending) \cup ToSet(<< x >>)
    <3>1. ToSet(out.pending \o << x >>) = ToSet(out.pending) \cup ToSet(<< x >>)
      BY <1>1, <2>1, ConcatElements
    <3>. QED
      BY <2>2, <3>1
  <2>4. x \in ToSet(<< x >>)
    BY DEF ToSet
  <2>5. next.chunks = out.chunks /\ next.pending = Append(out.pending, x)
    BY <1>7
  <2>6. next \in OutSet(T, Heads)
    BY <1>1, <1>7, <2>1 DEF OutSet
  <2>7. Grown(out, next)
    BY <2>3, <2>5 DEF Grown
  <2>8. x \in ToSet(next.pending)
    BY <2>3, <2>4, <2>5
  <2>. QED
    BY <1>3, <2>6, <2>7, <2>8 DEF T
<1>. QED
  BY <1>5, <1>6, <1>7 DEF x

(* VisitWhole is one of these. *)
LEMMA VisitCovers ==
  ASSUME edit \in Seq(Line), Out \in OutSet(SUBSET NewSide, Heads),
         NEW h \in Heads, VisitWhole(h)
  PROVE  /\ Out' \in OutSet(SUBSET NewSide, Heads)
         /\ Grown(Out, Out') /\ Covered(Out', h)
<1>. DEFINE methods == Ascending(Methods(h))
            split == [chunks |-> chunks \o [k \in DOMAIN methods |->
                                              Code(<< Part(methods[k]) >>)],
                      pending |-> pending]
<1>1. Out.chunks = chunks /\ Out.pending = pending
  BY DEF Out
<1>2. Out' = [chunks |-> chunks', pending |-> pending']
  BY DEF Out
<1>3. methods = <<>> <=> Methods(h) = {}
  <2>1. \A p \in Methods(h) : p \in NewSide /\ p \in Nat
    BY Sides DEF Methods, Node
  <2>2. Methods(h) \in SUBSET NewSide
    BY <2>1
  <2>3. IsFiniteSet(Methods(h))
    BY <2>2, Sides, FS_Subset
  <2>. QED
    BY <2>1, <2>3, AscendingRight
<1>4. \/ Oversized(h) /\ methods # <<>> /\ Out' = split
      \/ Out' = [chunks |-> Append(chunks, Skip(h)), pending |-> pending]
      \/ Out' = [chunks |-> Append(chunks, Code(pending)), pending |-> << Node(h) >>]
      \/ Out' = [chunks |-> chunks, pending |-> Append(pending, Node(h))]
  BY <1>2, Zenon DEF VisitWhole
<1>5. CASE Oversized(h) /\ methods # <<>> /\ Out' = split
  BY <1>1, <1>3, <1>5, SplitCovers
<1>6. CASE ~(Oversized(h) /\ methods # <<>> /\ Out' = split)
  BY <1>1, <1>4, <1>6, UnitCovers
<1>. QED
  BY <1>5, <1>6


-----------------------------------------------------------------------------
(* Steps. *)

(* Chunking does not change the edit, nor what is a node of it. *)
LEMMA SameEdit ==
  ASSUME edit' = edit
  PROVE  /\ NewSide' = NewSide /\ Edited' = Edited /\ Heads' = Heads
         /\ \A i : NewLine(i)' = NewLine(i)
         /\ \A h : /\ Node(h)' = Node(h) /\ Part(h)' = Part(h)
                   /\ Methods(h)' = Methods(h)
                   /\ Oversized(h)' <=> Oversized(h)
<1>1. NewSide' = NewSide /\ Edited' = Edited
  BY DEF NewSide, Edited
<1>2. Heads' = Heads /\ Starts(NewSide)' = Starts(NewSide)
  BY <1>1 DEF Heads, Starts
<1>3. \A i : NewLine(i)' = NewLine(i)
  BY <1>1 DEF NewLine
<1>4. \A h : Node(h)' = Node(h)
  BY <1>1, <1>2 DEF Node
<1>5. \A h : Part(h)' = Part(h)
  BY <1>1 DEF Part
<1>6. \A h : Methods(h)' = Methods(h)
  BY <1>4 DEF Methods
<1>7. \A h : Oversized(h)' <=> Oversized(h)
  BY <1>4 DEF Oversized, Tokens
<1>. QED
  BY <1>1, <1>2, <1>3, <1>4, <1>5, <1>6, <1>7

(* Visiting nodes does not change what is to be sent of them. *)
LEMMA SameScope ==
  ASSUME edit' = edit, changed' = changed
  PROVE  \A h : HeadTexts(h)' = HeadTexts(h) /\ (TooLarge(h)' <=> TooLarge(h))
<1>1. \A lines : Touched(lines)' <=> Touched(lines)
  BY SameEdit DEF Touched
<1>2. \A h : /\ Node(h)' = Node(h) /\ Part(h)' = Part(h)
             /\ Methods(h)' = Methods(h) /\ (Oversized(h)' <=> Oversized(h))
  BY SameEdit
<1>3. \A h : /\ Touched(Node(h))' <=> Touched(Node(h))
             /\ Touched(Part(h))' <=> Touched(Part(h))
  BY <1>2, SameEdit DEF Touched
<1>4. \A h : TouchedMethods(h)' = TouchedMethods(h)
  BY <1>2, <1>3 DEF TouchedMethods
<1>5. \A h : MethodTexts(h)' = MethodTexts(h)
  BY <1>2, <1>4 DEF MethodTexts, TouchedMethods
<1>6. \A h : HeadTexts(h)' = HeadTexts(h)
  BY <1>2, <1>3, <1>5 DEF HeadTexts
<1>7. \A h : TooLarge(h)' <=> TooLarge(h)
  BY <1>2, <1>3, <1>4 DEF TooLarge
<1>. QED
  BY <1>6, <1>7

(* The same of the predicates on what was sent, without a patch. *)
LEMMA SameCovered ==
  ASSUME edit' = edit
  PROVE  \A h : Covered(Out, h)' <=> Covered(Out', h)
<1>1. \A h : /\ Node(h)' = Node(h) /\ Part(h)' = Part(h)
             /\ Methods(h)' = Methods(h) /\ (Oversized(h)' <=> Oversized(h))
  BY SameEdit
<1>. QED
  BY <1>1 DEF Covered

(* While scoping. *)
LEMMA SameScoped ==
  ASSUME edit' = edit, changed' = changed
  PROVE  Scoped(Out, todo)' <=> Scoped(Out', todo')
<1>1. Heads' = Heads
  BY SameEdit
<1>2. \A h : HeadTexts(h)' = HeadTexts(h) /\ (TooLarge(h)' <=> TooLarge(h))
  BY SameScope
<1>. QED
  BY <1>1, <1>2 DEF Scoped

(* The list being returned and the chunk being filled, by TypeOK. *)
LEMMA OutType ==
  TypeOK <=> /\ edit \in Seq(Line)
             /\ phase \in {"edit", "scoped", "whole", "scoped_sent", "whole_sent"}
             /\ changed \subseteq 1..MaxLines + 1
             /\ todo \subseteq Heads
             /\ Out \in OutSet(SUBSET NewSide, Heads)
BY DEF TypeOK, Line, Out, OutSet, Chunk

(* The same after a step. *)
LEMMA OutTypeNext ==
  TypeOK' <=> /\ edit' \in Seq(Line)
              /\ phase' \in {"edit", "scoped", "whole", "scoped_sent", "whole_sent"}
              /\ changed' \subseteq 1..MaxLines + 1
              /\ todo' \subseteq Heads'
              /\ Out' \in OutSet(SUBSET NewSide', Heads')
BY DEF TypeOK, Line, Out, OutSet, Chunk


(* Before the first node nothing has been sent. *)
LEMMA EmptyOut ==
  LET none == [chunks |-> <<>>, pending |-> <<>>]
  IN  /\ \A T, H : none \in OutSet(T, H)
      /\ Packed(none) /\ ToSet(All(none)) = {} /\ Distinct(All(none))
      /\ FlaggedIn(none.chunks) = {}
<1>. DEFINE none == [chunks |-> <<>>, pending |-> <<>>]
<1>1. \A T, H : none \in OutSet(T, H)
  BY DEF OutSet
<1>2. Packed(none)
  BY DEF Packed, PackedChunks, Within, NoRoom
<1>3. All(none) = <<>>
  <2>1. TextsOf(<<>>) = <<>> /\ <<>> \in Seq(Seq({}))
    BY DEF TextsOf
  <2>2. FlattenSeq(<<>>) = <<>>
    BY <2>1, FlattenRight
  <2>3. none.chunks = <<>> /\ none.pending = <<>> /\ <<>> \o <<>> = <<>>
    OBVIOUS
  <2>. QED
    BY <2>1, <2>2, <2>3 DEF All
<1>4. ToSet(<<>>) = {} /\ Distinct(<<>>) /\ FlaggedIn(<<>>) = {}
  BY DEF ToSet, Distinct, FlaggedIn
<1>. QED
  BY <1>1, <1>2, <1>3, <1>4

(* Visiting a node, while scoping. *)
LEMMA InvVisitScoped ==
  ASSUME Inv, NEW h \in todo, VisitScoped(h)
  PROVE  Inv'
<1>1. /\ edit \in Seq(Line) /\ todo \in SUBSET Heads /\ h \in Heads
      /\ Out \in OutSet(SUBSET NewSide, Heads)
      /\ changed \subseteq 1..MaxLines + 1
  BY OutType DEF Inv
<1>2. /\ phase = "scoped" /\ phase' = "scoped" /\ edit' = edit
      /\ changed' = changed /\ todo' = todo \ {h}
  BY DEF VisitScoped, Visit
<1>3. Scoped(Out, todo) /\ Packed(Out)
  BY <1>2 DEF Inv, ScopedInv
<1>4. Out' = Send(Out, h)
  BY <1>1, VisitSends
<1>5. Out' \in OutSet(SUBSET NewSide, Heads) /\ Packed(Out')
  BY <1>1, <1>3, <1>4, SendRight
<1>6. Scoped(Out', todo')
  BY <1>1, <1>2, <1>3, <1>4, SendScopes
<1>7. NewSide' = NewSide /\ Heads' = Heads /\ Edited' = Edited
      /\ \A i : NewLine(i)' = NewLine(i)
  BY <1>2, SameEdit
<1>8. TypeOK'
  <2>1. /\ edit' \in Seq(Line)
        /\ phase' \in {"edit", "scoped", "whole", "scoped_sent", "whole_sent"}
        /\ changed' \subseteq 1..MaxLines + 1
        /\ todo' \subseteq Heads'
    BY <1>1, <1>2, <1>7
  <2>2. Out' \in OutSet(SUBSET NewSide', Heads')
    BY <1>5, <1>7
  <2>. QED
    BY <2>1, <2>2, OutTypeNext
<1>9. HunksPlaceEdits'
  BY <1>2, <1>7 DEF Inv, HunksPlaceEdits
<1>10. ScopedInv'
  BY <1>2, <1>5, <1>6, SameScoped DEF ScopedInv
<1>11. WholeInv' /\ Len(edit') <= MaxLines
  BY <1>2 DEF Inv, WholeInv
<1>. QED
  BY <1>2, <1>8, <1>9, <1>10, <1>11 DEF Inv

(* Visiting a node, without a patch. *)
LEMMA InvVisitWhole ==
  ASSUME Inv, NEW h \in todo, VisitWhole(h)
  PROVE  Inv'
<1>1. /\ edit \in Seq(Line) /\ todo \in SUBSET Heads /\ h \in Heads
      /\ Out \in OutSet(SUBSET NewSide, Heads)
      /\ changed \subseteq 1..MaxLines + 1
  BY OutType DEF Inv
<1>2. /\ phase = "whole" /\ phase' = "whole" /\ edit' = edit
      /\ changed' = changed /\ todo' = todo \ {h}
  BY DEF VisitWhole, Visit
<1>3. \A g \in Heads \ todo : Covered(Out, g)
  BY <1>2 DEF Inv, WholeInv
<1>4. /\ Out' \in OutSet(SUBSET NewSide, Heads)
      /\ Grown(Out, Out') /\ Covered(Out', h)
  BY <1>1, VisitCovers
<1>5. \A g : Covered(Out, g) => Covered(Out', g)
  BY <1>1, <1>4, CoveredStays
<1>6. \A g \in Heads \ todo' : Covered(Out', g)
  BY <1>2, <1>3, <1>4, <1>5
<1>7. NewSide' = NewSide /\ Heads' = Heads /\ Edited' = Edited
      /\ \A i : NewLine(i)' = NewLine(i)
  BY <1>2, SameEdit
<1>8. TypeOK'
  <2>1. /\ edit' \in Seq(Line)
        /\ phase' \in {"edit", "scoped", "whole", "scoped_sent", "whole_sent"}
        /\ changed' \subseteq 1..MaxLines + 1
        /\ todo' \subseteq Heads'
    BY <1>1, <1>2, <1>7
  <2>2. Out' \in OutSet(SUBSET NewSide', Heads')
    BY <1>4, <1>7
  <2>. QED
    BY <2>1, <2>2, OutTypeNext
<1>9. HunksPlaceEdits'
  BY <1>2, <1>7 DEF Inv, HunksPlaceEdits
<1>10. WholeInv'
  BY <1>2, <1>6, <1>7, SameCovered DEF WholeInv
<1>11. ScopedInv' /\ Len(edit') <= MaxLines
  BY <1>2 DEF Inv, ScopedInv
<1>. QED
  BY <1>2, <1>8, <1>9, <1>10, <1>11 DEF Inv

(* The last flush. *)
LEMMA FlushOut ==
  ASSUME Out \in OutSet(SUBSET NewSide, Heads), Emit(Flush(Out))
  PROVE  Out' = Flush(Out) /\ chunks' = Flush(Out).chunks /\ pending' = Flush(Out).pending
<1>1. Flush(Out) \in OutSet(SUBSET NewSide, Heads)
  BY FlushType
<1>2. Flush(Out) = [chunks |-> Flush(Out).chunks, pending |-> Flush(Out).pending]
  BY <1>1 DEF OutSet
<1>3. chunks' = Flush(Out).chunks /\ pending' = Flush(Out).pending
  BY DEF Emit
<1>4. Out' = [chunks |-> chunks', pending |-> pending']
  BY DEF Out
<1>. QED
  BY <1>2, <1>3, <1>4


(* The end of the loop, while scoping. *)
LEMMA InvEndScoped ==
  ASSUME Inv, EndScoped
  PROVE  Inv'
<1>. DEFINE last == Flush(Out)
<1>1. /\ edit \in Seq(Line) /\ todo \subseteq Heads
      /\ Out \in OutSet(SUBSET NewSide, Heads)
      /\ changed \subseteq 1..MaxLines + 1
  BY OutType DEF Inv
<1>2. /\ phase = "scoped" /\ edit' = edit /\ changed' = changed /\ todo = {}
      /\ \/ phase' = "whole" /\ todo' = Heads
         \/ phase' = "scoped_sent" /\ todo' = todo
      /\ Emit(last)
  BY DEF EndScoped
<1>3. Scoped(Out, todo) /\ Packed(Out)
  BY <1>2 DEF Inv, ScopedInv
<1>4. /\ last \in OutSet(SUBSET NewSide, Heads)
      /\ PackedChunks(last.chunks) /\ last.pending = <<>>
  BY <1>1, <1>3, FlushType, FlushPacks
<1>5. Out' = last /\ chunks' = last.chunks /\ pending' = last.pending
  BY <1>1, <1>2, FlushOut
<1>6. All(last) = All(Out) /\ FlaggedIn(last.chunks) = FlaggedIn(Out.chunks)
  BY <1>1, FlushAll
<1>. HIDE DEF last
<1>7. Scoped(Out', todo)
  BY <1>3, <1>5, <1>6 DEF Scoped
<1>8. NewSide' = NewSide /\ Heads' = Heads /\ Edited' = Edited
      /\ \A i : NewLine(i)' = NewLine(i)
  BY <1>2, SameEdit
<1>9. TypeOK'
  <2>1. /\ edit' \in Seq(Line)
        /\ phase' \in {"edit", "scoped", "whole", "scoped_sent", "whole_sent"}
        /\ changed' \subseteq 1..MaxLines + 1
        /\ todo' \subseteq Heads'
    BY <1>1, <1>2, <1>8
  <2>2. Out' \in OutSet(SUBSET NewSide', Heads')
    BY <1>4, <1>5, <1>8
  <2>. QED
    BY <2>1, <2>2, OutTypeNext
<1>10. HunksPlaceEdits'
  BY <1>2, <1>8 DEF Inv, HunksPlaceEdits
<1>11. ScopedInv'
  <2>1. phase' = "scoped_sent" => Scoped(Out', todo')
    BY <1>2, <1>7
  <2>2. phase' = "scoped_sent" => PackedChunks(chunks')
    BY <1>4, <1>5
  <2>3. phase' # "scoped"
    BY <1>2
  <2>. QED
    BY <1>2, <2>1, <2>2, <2>3, SameScoped DEF ScopedInv
<1>12. WholeInv' /\ Len(edit') <= MaxLines
  BY <1>2, <1>8 DEF Inv, WholeInv
<1>13. phase' \in {"scoped_sent", "whole_sent"} => todo' = {} /\ pending' = <<>>
  BY <1>2, <1>4, <1>5
<1>. QED
  BY <1>2, <1>9, <1>10, <1>11, <1>12, <1>13 DEF Inv

(* The end of the loop, without a patch. *)
LEMMA InvEndWhole ==
  ASSUME Inv, EndWhole
  PROVE  Inv'
<1>. DEFINE last == Flush(Out)
<1>1. /\ edit \in Seq(Line) /\ todo \subseteq Heads
      /\ Out \in OutSet(SUBSET NewSide, Heads)
      /\ changed \subseteq 1..MaxLines + 1
  BY OutType DEF Inv
<1>2. /\ phase = "whole" /\ edit' = edit /\ changed' = changed
      /\ todo = {} /\ todo' = todo /\ phase' = "whole_sent"
      /\ Emit(last)
  BY DEF EndWhole
<1>3. \A g \in Heads \ todo : Covered(Out, g)
  BY <1>2 DEF Inv, WholeInv
<1>4. last \in OutSet(SUBSET NewSide, Heads) /\ last.pending = <<>>
  <2>1. last \in OutSet(SUBSET NewSide, Heads)
    BY <1>1, FlushType
  <2>2. last.pending = <<>>
    BY DEF Flush
  <2>. QED
    BY <2>1, <2>2
<1>5. Out' = last /\ chunks' = last.chunks /\ pending' = last.pending
  BY <1>1, <1>2, FlushOut
<1>6. All(last) = All(Out) /\ FlaggedIn(last.chunks) = FlaggedIn(Out.chunks)
  BY <1>1, FlushAll
<1>. HIDE DEF last
<1>7. \A g \in Heads \ todo : Covered(Out', g)
  BY <1>3, <1>5, <1>6 DEF Covered
<1>8. NewSide' = NewSide /\ Heads' = Heads /\ Edited' = Edited
      /\ \A i : NewLine(i)' = NewLine(i)
  BY <1>2, SameEdit
<1>9. TypeOK'
  <2>1. /\ edit' \in Seq(Line)
        /\ phase' \in {"edit", "scoped", "whole", "scoped_sent", "whole_sent"}
        /\ changed' \subseteq 1..MaxLines + 1
        /\ todo' \subseteq Heads'
    BY <1>1, <1>2, <1>8
  <2>2. Out' \in OutSet(SUBSET NewSide', Heads')
    BY <1>4, <1>5, <1>8
  <2>. QED
    BY <2>1, <2>2, OutTypeNext
<1>10. HunksPlaceEdits'
  BY <1>2, <1>8 DEF Inv, HunksPlaceEdits
<1>11. WholeInv'
  BY <1>2, <1>7, <1>8, SameCovered DEF WholeInv
<1>12. ScopedInv' /\ Len(edit') <= MaxLines
  BY <1>2 DEF Inv, ScopedInv
<1>13. todo' = {} /\ pending' = <<>>
  BY <1>2, <1>4, <1>5
<1>. QED
  BY <1>2, <1>9, <1>10, <1>11, <1>12, <1>13 DEF Inv

(* The patch is parsed. *)
LEMMA InvChunkByAst ==
  ASSUME Inv, ChunkByAst
  PROVE  Inv'
<1>. DEFINE none == [chunks |-> <<>>, pending |-> <<>>]
<1>1. edit \in Seq(Line) /\ Len(edit) <= MaxLines
  BY OutType DEF Inv
<1>2. /\ phase = "edit" /\ NewSide # {} /\ edit' = edit
      /\ changed' = parse_changed_lines(Patch)
      /\ phase' \in {"scoped", "whole"}
      /\ todo' = Heads /\ chunks' = chunks /\ pending' = pending
  BY DEF ChunkByAst
<1>3. chunks' = <<>> /\ pending' = <<>> /\ Out' = none
  BY <1>2 DEF Inv, NotBegun, Out
<1>4. changed' = {NewLine(i) : i \in Edited}
  BY <1>1, <1>2, ParseRight
<1>5. NewSide' = NewSide /\ Heads' = Heads /\ Edited' = Edited
      /\ \A i : NewLine(i)' = NewLine(i)
  BY <1>2, SameEdit
<1>6. /\ \A T, H : none \in OutSet(T, H)
      /\ Packed(none) /\ ToSet(All(none)) = {} /\ Distinct(All(none))
      /\ FlaggedIn(none.chunks) = {}
  BY EmptyOut
<1>. HIDE DEF none
<1>7. changed' \subseteq 1..MaxLines + 1
  <2>1. \A i \in Edited : i \in 1..(Len(edit) + 1)
    BY <1>1, Sides
  <2>2. \A i \in Edited : NewLine(i) \in 1..(Len(edit) + 1)
    BY <1>1, <2>1, NewLineBound
  <2>3. \A n \in 1..(Len(edit) + 1) : n \in 1..MaxLines + 1
    BY <1>1, BudgetAssumption
  <2>. QED
    BY <1>4, <2>2, <2>3
<1>8. TypeOK'
  <2>1. /\ edit' \in Seq(Line)
        /\ phase' \in {"edit", "scoped", "whole", "scoped_sent", "whole_sent"}
        /\ todo' \subseteq Heads'
    BY <1>1, <1>2, <1>5
  <2>2. Out' \in OutSet(SUBSET NewSide', Heads')
    BY <1>3, <1>6
  <2>. QED
    BY <1>7, <2>1, <2>2, OutTypeNext
<1>9. HunksPlaceEdits'
  BY <1>4, <1>5 DEF HunksPlaceEdits
<1>10. Heads' \ todo' = {}
  BY <1>2, <1>5
<1>11. ScopedInv'
  <2>1. Scoped(Out, todo)'
    BY <1>3, <1>6, <1>10 DEF Scoped
  <2>2. Packed(Out)'
    BY <1>3, <1>6
  <2>3. phase' # "scoped_sent"
    BY <1>2
  <2>. QED
    BY <2>1, <2>2, <2>3 DEF ScopedInv
<1>12. WholeInv' /\ Len(edit') <= MaxLines
  BY <1>1, <1>2, <1>10 DEF WholeInv
<1>. QED
  BY <1>2, <1>8, <1>9, <1>11, <1>12 DEF Inv

(* The edit is written. *)
LEMMA InvWrite ==
  ASSUME Inv, NEW m, NEW k, [mark |-> m, kind |-> k] \in Line, Write(m, k)
  PROVE  Inv'
<1>. DEFINE x == [mark |-> m, kind |-> k]
<1>1. edit \in Seq(Line) /\ x \in Line
  BY OutType DEF Inv
<1>2. /\ phase = "edit" /\ phase' = "edit" /\ Len(edit) < MaxLines
      /\ edit' = Append(edit, x) /\ NotBegun
      /\ UNCHANGED <<changed, todo, chunks, pending>>
  BY DEF Write, Inv
<1>. HIDE DEF x
<1>3. edit' \in Seq(Line) /\ Len(edit') <= MaxLines
  <2>1. Len(edit) \in Nat /\ MaxLines \in Nat
    BY <1>1, BudgetAssumption
  <2>2. Append(edit, x) \in Seq(Line) /\ Len(Append(edit, x)) = Len(edit) + 1
    BY <1>1
  <2>3. Len(edit) + 1 <= MaxLines
    BY <1>2, <2>1
  <2>. QED
    BY <1>2, <2>2, <2>3
<1>4. /\ NotBegun' /\ Out' = [chunks |-> <<>>, pending |-> <<>>]
      /\ changed' = {} /\ todo' = {}
  BY <1>2 DEF NotBegun, Out
<1>5. TypeOK'
  BY <1>2, <1>3, <1>4, OutTypeNext, EmptyOut
<1>. QED
  BY <1>2, <1>3, <1>4, <1>5 DEF Inv, HunksPlaceEdits, ScopedInv, WholeInv

(* Nothing happens. *)
LEMMA InvStutter ==
  ASSUME Inv, UNCHANGED vars
  PROVE  Inv'
<1>1. /\ edit' = edit /\ phase' = phase /\ changed' = changed /\ todo' = todo
      /\ chunks' = chunks /\ pending' = pending /\ Out' = Out
  BY DEF vars, Out
<1>2. NewSide' = NewSide /\ Heads' = Heads /\ Edited' = Edited
      /\ \A i : NewLine(i)' = NewLine(i)
  BY <1>1, SameEdit
<1>3. TypeOK'
  BY <1>1, <1>2, OutType, OutTypeNext DEF Inv
<1>4. HunksPlaceEdits'
  BY <1>1, <1>2 DEF Inv, HunksPlaceEdits
<1>5. ScopedInv'
  BY <1>1, SameScoped DEF Inv, ScopedInv
<1>6. WholeInv'
  BY <1>1, <1>2, SameCovered DEF Inv, WholeInv
<1>. QED
  BY <1>1, <1>3, <1>4, <1>5, <1>6 DEF Inv, NotBegun


(* At the start. *)
LEMMA InvInit == Init => Inv
<1>. SUFFICES ASSUME Init
              PROVE  Inv
  OBVIOUS
<1>1. /\ edit = <<>> /\ phase = "edit" /\ NotBegun
      /\ Out = [chunks |-> <<>>, pending |-> <<>>]
  BY DEF Init, NotBegun, Out
<1>2. edit \in Seq(Line) /\ Len(edit) <= MaxLines
  <2>1. MaxLines \in Nat /\ <<>> \in Seq(Line) /\ Len(<<>>) = 0
    BY BudgetAssumption
  <2>. QED
    BY <1>1, <2>1
<1>3. TypeOK
  BY <1>1, <1>2, OutType, EmptyOut DEF NotBegun
<1>. QED
  BY <1>1, <1>2, <1>3 DEF Inv, HunksPlaceEdits, ScopedInv, WholeInv

(* Every state of the program satisfies the invariant. *)
LEMMA SpecInv == Spec => []Inv
<1>1. ASSUME Inv, [Next]_vars
      PROVE  Inv'
  <2>1. ASSUME NEW m \in {" ", "+", "-"}, NEW k \in Kinds, Write(m, k)
        PROVE  Inv'
    <3>1. [mark |-> m, kind |-> k] \in Line
      BY DEF Line
    <3>. QED
      BY <1>1, <2>1, <3>1, InvWrite
  <2>2. CASE ChunkByAst
    BY <1>1, <2>2, InvChunkByAst
  <2>3. ASSUME NEW h \in todo, VisitScoped(h)
        PROVE  Inv'
    BY <1>1, <2>3, InvVisitScoped
  <2>4. ASSUME NEW h \in todo, VisitWhole(h)
        PROVE  Inv'
    BY <1>1, <2>4, InvVisitWhole
  <2>5. CASE EndScoped
    BY <1>1, <2>5, InvEndScoped
  <2>6. CASE EndWhole
    BY <1>1, <2>6, InvEndWhole
  <2>7. CASE UNCHANGED vars
    BY <1>1, <2>7, InvStutter
  <2>. QED
    BY <1>1, <2>1, <2>2, <2>3, <2>4, <2>5, <2>6, <2>7 DEF Next
<1>. QED
  BY <1>1, InvInit, PTL DEF Spec

-----------------------------------------------------------------------------
(* What the agents get. *)

(* At the end the chunks hold everything that was added. *)
LEMMA SentRight ==
  ASSUME Inv, phase \in {"scoped_sent", "whole_sent"}
  PROVE  /\ Sent = All(Out) /\ Sent \in Seq(SUBSET NewSide)
         /\ todo = {} /\ Flagged = FlaggedIn(Out.chunks)
         /\ ToSet(Sent) = {Sent[k] : k \in DOMAIN Sent}
         /\ \A t \in ToSet(Sent) : \A i \in t : i \in Shown
<1>1. /\ Out \in OutSet(SUBSET NewSide, Heads)
      /\ todo = {} /\ pending = <<>>
  BY OutType DEF Inv
<1>2. Out.chunks = chunks /\ Out.pending = pending
  BY DEF Out
<1>3. Flush(Out) = Out
  BY <1>1, <1>2 DEF Flush
<1>4. All(Out) \in Seq(SUBSET NewSide) /\ FlattenSeq(TextsOf(Out.chunks)) = All(Out)
  BY <1>1, <1>3, FlushAll
<1>5. Sent = All(Out) /\ Flagged = FlaggedIn(Out.chunks)
  BY <1>2, <1>4 DEF Sent, TextsOf, Flagged, FlaggedIn
<1>6. ToSet(Sent) = {Sent[k] : k \in DOMAIN Sent}
  BY DEF ToSet
<1>7. \A t \in ToSet(Sent) : \A i \in t : i \in Shown
  BY <1>6 DEF Shown
<1>. QED
  BY <1>1, <1>4, <1>5, <1>6, <1>7

(* What is touched, by the line numbers of the patch, is what the edit     *)
(* changed.                                                                *)
LEMMA TouchedRight ==
  ASSUME Inv, phase # "edit", NEW h \in Heads
  PROVE  /\ Touched(Node(h)) <=> Meets(Node(h))
         /\ \A p \in Methods(h) : Touched(Part(p)) <=> Meets(Part(p))
         /\ TouchedMethods(h) = {p \in Methods(h) : Meets(Part(p))}
<1>1. edit \in Seq(Line) /\ changed = {NewLine(i) : i \in Edited}
  BY OutType DEF Inv, HunksPlaceEdits
<1>2. Touched(Node(h)) <=> Meets(Node(h))
  BY <1>1, NodeRight, TouchedMeets
<1>3. ASSUME NEW p \in Methods(h)
      PROVE  Touched(Part(p)) <=> Meets(Part(p))
  <2>1. p \in NewSide /\ edit[p].kind = "method"
    BY DEF Methods, Node
  <2>2. Stretch(Part(p))
    BY <1>1, <2>1, PartRight
  <2>. QED
    BY <1>1, <2>2, TouchedMeets
<1>. QED
  BY <1>2, <1>3 DEF TouchedMethods

(* A changed line that is in a stretch of lines meets it. *)
LEMMA EditedMeets ==
  ASSUME NEW lines, NEW i \in lines \cap Edited
  PROVE  Meets(lines)
BY DEF Meets


(* The chunks of a scoped file. *)
LEMMA ScopeFromInv ==
  ASSUME Inv, phase = "scoped_sent"
  PROVE  LET met == {h \in Heads : Meets(Node(h))}
             split == {h \in met : Oversized(h) /\ \E p \in Methods(h) : Meets(Part(p))}
             whole == {h \in met : ~Oversized(h)}
             texts == {Node(h) : h \in whole} \cup
                      UNION {{{h} \cup Part(p) : p \in {q \in Methods(h) : Meets(Part(q))}} :
                               h \in split}
         IN  /\ {Sent[k] : k \in DOMAIN Sent} = texts
             /\ Len(Sent) = Cardinality(texts)
             /\ Flagged = met \ (whole \cup split)
<1>. DEFINE met == {h \in Heads : Meets(Node(h))}
            Changed(h) == {q \in Methods(h) : Meets(Part(q))}
            split == {h \in met : Oversized(h) /\ \E p \in Methods(h) : Meets(Part(p))}
            whole == {h \in met : ~Oversized(h)}
            Under(h) == {{h} \cup Part(p) : p \in Changed(h)}
            texts == {Node(h) : h \in whole} \cup UNION {Under(h) : h \in split}
<1>1. edit \in Seq(Line)
  BY OutType DEF Inv
<1>2. /\ Sent = All(Out) /\ Sent \in Seq(SUBSET NewSide)
      /\ todo = {} /\ Flagged = FlaggedIn(Out.chunks)
      /\ ToSet(Sent) = {Sent[k] : k \in DOMAIN Sent}
  BY SentRight
<1>3. /\ ToSet(Sent) = UNION {ToSet(HeadTexts(g)) : g \in Heads}
      /\ Distinct(Sent) /\ Flagged = {g \in Heads : TooLarge(g)}
  <2>1. Heads \ todo = Heads
    BY <1>2
  <2>2. Scoped(Out, todo)
    BY DEF Inv, ScopedInv
  <2>. QED
    BY <1>2, <2>1, <2>2 DEF Scoped
<1>4. ASSUME NEW h \in Heads
      PROVE  /\ Touched(Node(h)) <=> Meets(Node(h))
             /\ TouchedMethods(h) = Changed(h)
             /\ ToSet(MethodTexts(h)) = Under(h)
  BY <1>1, TouchedRight, MethodTextsRight
<1>5. \A h : h \in split <=> /\ h \in Heads /\ Meets(Node(h)) /\ Oversized(h)
                             /\ Changed(h) # {}
  OBVIOUS
<1>6. \A h : h \in whole <=> h \in Heads /\ Meets(Node(h)) /\ ~Oversized(h)
  OBVIOUS
<1>7. \A h \in Heads : Changed(h) = {} => Under(h) = {}
  OBVIOUS
<1>8. \A h : h \in met <=> h \in Heads /\ Meets(Node(h))
  OBVIOUS
<1>. HIDE DEF met, split, whole, Changed, Under
<1>9. ASSUME NEW h \in Heads
      PROVE  \A t : t \in ToSet(HeadTexts(h))
                      <=> (h \in whole /\ t = Node(h)) \/ (h \in split /\ t \in Under(h))
  <2>1. CASE ~Meets(Node(h))
    <3>1. HeadTexts(h) = <<>> /\ ToSet(<<>>) = {}
      BY <1>4, <2>1 DEF HeadTexts, ToSet
    <3>. QED
      BY <1>5, <1>6, <2>1, <3>1
  <2>2. CASE Meets(Node(h)) /\ ~Oversized(h)
    <3>1. HeadTexts(h) = << Node(h) >> /\ ToSet(<< Node(h) >>) = {Node(h)}
      BY <1>4, <2>2 DEF HeadTexts, ToSet
    <3>. QED
      BY <1>5, <1>6, <2>2, <3>1
  <2>3. CASE Meets(Node(h)) /\ Oversized(h)
    <3>1. ToSet(HeadTexts(h)) = Under(h)
      BY <1>4, <2>3 DEF HeadTexts
    <3>. QED
      BY <1>5, <1>6, <1>7, <2>3, <3>1
  <2>. QED
    BY <2>1, <2>2, <2>3
<1>10. ToSet(Sent) = texts
  <2>1. \A t \in ToSet(Sent) : t \in texts
    <3>. TAKE t \in ToSet(Sent)
    <3>1. PICK g \in Heads : t \in ToSet(HeadTexts(g))
      BY <1>3
    <3>2. (g \in whole /\ t = Node(g)) \/ (g \in split /\ t \in Under(g))
      BY <1>9, <3>1
    <3>. QED
      BY <3>2
  <2>2. \A t \in texts : t \in ToSet(Sent)
    <3>. TAKE t \in texts
    <3>1. PICK g : (g \in whole /\ t = Node(g)) \/ (g \in split /\ t \in Under(g))
      BY Zenon
    <3>2. g \in Heads
      BY <1>5, <1>6, <3>1
    <3>3. t \in ToSet(HeadTexts(g))
      BY <1>9, <3>1, <3>2
    <3>. QED
      BY <1>3, <3>2, <3>3
  <2>. QED
    BY <2>1, <2>2
<1>11. Len(Sent) = Cardinality(texts)
  BY <1>2, <1>3, <1>10, DistinctCounts
<1>12. Flagged = met \ (whole \cup split)
  <2>1. \A h \in Heads : TooLarge(h) <=> Meets(Node(h)) /\ Oversized(h) /\ Changed(h) = {}
    BY <1>4 DEF TooLarge
  <2>. QED
    BY <1>3, <1>5, <1>6, <1>8, <2>1
<1>. QED
  BY <1>2, <1>10, <1>11, <1>12 DEF met, split, whole, Changed, Under

(* An added line is shown to the agents, or its unit is flagged. *)
LEMMA SeenFromInv ==
  ASSUME Inv, phase \in {"scoped_sent", "whole_sent"},
         NEW h \in Heads, NEW i \in Node(h) \cap Edited
  PROVE  \/ i \in Shown \/ h \in Flagged
         \/ /\ Oversized(h) /\ Methods(h) # {}
            /\ \A p \in Methods(h) : i \notin Part(p)
<1>1. edit \in Seq(Line)
  BY OutType DEF Inv
<1>2. /\ Sent = All(Out) /\ todo = {} /\ Flagged = FlaggedIn(Out.chunks)
      /\ \A t \in ToSet(Sent) : i \in t => i \in Shown
  BY SentRight
<1>3. h \in Heads \ todo
  BY <1>2
<1>4. CASE phase = "scoped_sent"
  <2>1. Scoped(Out, todo)
    BY <1>4 DEF Inv, ScopedInv
  <2>2. /\ \A t \in ToSet(HeadTexts(h)) : t \in ToSet(Sent)
        /\ TooLarge(h) => h \in Flagged
    BY <1>2, <1>3, <2>1 DEF Scoped
  <2>3. Touched(Node(h))
    BY EditedMeets, TouchedRight
  <2>4. CASE ~Oversized(h)
    <3>1. HeadTexts(h) = << Node(h) >> /\ Node(h) \in ToSet(<< Node(h) >>)
      BY <2>3, <2>4 DEF HeadTexts, ToSet
    <3>. QED
      BY <1>2, <2>2, <3>1
  <2>5. CASE Oversized(h) /\ \E p \in Methods(h) : i \in Part(p)
    <3>1. PICK p \in Methods(h) : i \in Part(p)
      BY <2>5
    <3>2. p \in TouchedMethods(h)
      BY <3>1, EditedMeets, TouchedRight
    <3>3. {h} \cup Part(p) \in ToSet(HeadTexts(h))
      BY <1>1, <2>3, <2>5, <3>2, MethodTextsRight DEF HeadTexts
    <3>. QED
      BY <1>2, <2>2, <3>1, <3>3
  <2>6. CASE Oversized(h) /\ ~\E p \in Methods(h) : i \in Part(p)
    <3>1. Methods(h) = {} => TooLarge(h)
      BY <2>3, <2>6 DEF TooLarge, TouchedMethods
    <3>. QED
      BY <2>2, <2>6, <3>1
  <2>. QED
    BY <2>4, <2>5, <2>6
<1>5. CASE phase = "whole_sent"
  <2>1. Covered(Out, h)
    BY <1>3, <1>5 DEF Inv, WholeInv
  <2>. QED
    BY <1>2, <2>1 DEF Covered
<1>. QED
  BY <1>4, <1>5

(* The values of the variables have their types: the list that             *)
(* _chunk_by_ast returns is made of lines of the new file and of its       *)
(* top-level nodes.                                                        *)
THEOREM ScopeTypeCorrect == Spec => []TypeOK
<1>1. Inv => TypeOK
  BY DEF Inv
<1>. QED
  BY <1>1, SpecInv, PTL

(* parse_changed_lines finds in the patch exactly the lines that the edit  *)
(* added and, for those it removed, the lines after them, wherever git     *)
(* starts the hunks and however many lines of context they have.           *)
THEOREM ScopeHunksPlaceEdits == Spec => []HunksPlaceEdits
<1>1. Inv => HunksPlaceEdits
  BY DEF Inv
<1>. QED
  BY <1>1, SpecInv, PTL

(* _chunk_changed_nodes sends each top-level node that the edit met, or    *)
(* the changed methods of a class over the budget, once each, nothing      *)
(* else, and flags the other units over the budget.                        *)
THEOREM ScopeIsExact == Spec => []ScopeExact
<1>1. Inv => ScopeExact
  BY ScopeFromInv DEF ScopeExact
<1>. QED
  BY <1>1, SpecInv, PTL

(* flush and add of _chunk_changed_nodes: only a text that is too large by *)
(* itself makes a chunk over the budget, and no chunk is closed while the  *)
(* next text would still fit.                                              *)
THEOREM ScopePacks == Spec => []PackedToBudget
<1>1. Inv => PackedToBudget
  BY DEF Inv, ScopedInv, PackedChunks, Within, NoRoom, PackedToBudget
<1>. QED
  BY <1>1, SpecInv, PTL

(* Both ways of chunking show an added line of a node to the agents or     *)
(* flag the unit, unless it is outside the methods of a class that is      *)
(* split into methods.                                                     *)
THEOREM ScopeShowsAdded == Spec => []AddedIsSeen
<1>1. Inv => AddedIsSeen
  BY SeenFromInv DEF AddedIsSeen
<1>. QED
  BY <1>1, SpecInv, PTL
=============================================================================
