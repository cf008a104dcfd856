------------------------ MODULE BlockInterval_proofs ------------------------
(***************************************************************************)
(* Proofs about the parser of block intervals, for arguments of any        *)
(* length: where it cuts an argument, by induction over the argument, and  *)
(* what it makes of the pieces.                                            *)
(***************************************************************************)
EXTENDS BlockInterval, SequenceTheorems, WellFoundedInduction, TLAPS

-------------------------------------------------------------------------------
(* Induction over the numbers, as facts about sets of them. *)

LEMMA Least ==
  ASSUME NEW T \in SUBSET Nat, T # {}
  PROVE  \E x \in T : \A y \in T : x <= y
<1> DEFINE R == OpToRel(<, Nat)
<1>1. IsWellFoundedOn(R, Nat)
  BY NatLessThanWellFounded
<1>2. \A x, y \in Nat : x < y => <<x, y>> \in R
  BY DEF OpToRel
<1> HIDE DEF R
<1>3. PICK x \in T : \A y \in T : ~(<<y, x>> \in R)
  BY <1>1, WFMin
<1>4. \A y \in T : x <= y
  <2> TAKE y \in T
  <2>1. x \in Nat /\ y \in Nat
    OBVIOUS
  <2>2. ~(y < x)
    BY <1>2, <1>3, <2>1
  <2> QED
    BY <2>1, <2>2
<1> QED
  BY <1>4

LEMMA MinIsLeast ==
  ASSUME NEW T \in SUBSET Nat, T # {}
  PROVE  Min(T) \in T /\ \A y \in T : Min(T) <= y
<1>1. \E x \in T : \A y \in T : x <= y
  BY Least
<1> QED
  BY <1>1 DEF Min

LEMMA NatSetInduction ==
  ASSUME NEW T, 0 \in T, \A n \in Nat : n \in T => n + 1 \in T
  PROVE  Nat \subseteq T
<1> SUFFICES ASSUME Nat \ T # {} PROVE FALSE
  OBVIOUS
<1>1. PICK x \in Nat \ T : \A y \in Nat \ T : x <= y
  <2> DEFINE rest == Nat \ T
  <2>1. rest \in SUBSET Nat /\ rest # {}
    OBVIOUS
  <2> HIDE DEF rest
  <2>2. \E x \in rest : \A y \in rest : x <= y
    BY <2>1, Least
  <2> QED
    BY <2>2 DEF rest
<1>2. x # 0
  OBVIOUS
<1>3. x - 1 \in Nat /\ x - 1 \in T
  BY <1>1, <1>2
<1> QED
  BY <1>1, <1>3

(* A number that some member of a set of numbers does not exceed has a     *)
(* greatest member below it.                                               *)
LEMMA GreatestUpTo ==
  ASSUME NEW T \in SUBSET Nat, NEW n \in Nat, NEW x \in T, x <= n
  PROVE  \E y \in T : y <= n /\ \A z \in T : z <= n => z <= y
<1> DEFINE gaps == {n - y : y \in {z \in T : z <= n}}
<1>1. gaps \in SUBSET Nat /\ n - x \in gaps
  OBVIOUS
<1>2. PICK g \in gaps : \A h \in gaps : g <= h
  <2> HIDE DEF gaps
  <2> QED
    BY <1>1, Least
<1>3. PICK y \in T : y <= n /\ g = n - y
  OBVIOUS
<1>4. \A z \in T : z <= n => z <= y
  <2> SUFFICES ASSUME NEW z \in T, z <= n PROVE z <= y
    OBVIOUS
  <2>1. n - y <= n - z
    BY <1>2, <1>3
  <2> QED
    BY <1>3, <2>1
<1> QED
  BY <1>3, <1>4

-------------------------------------------------------------------------------
(* Where an argument is cut. *)

IsCut(cuts, s, sep, i) ==
  i \in cuts <=> Occurs(s, sep, i) /\ \A j \in cuts : j < i => j + Len(sep) <= i

(* The first n tokens of an argument can be cut, by induction over n: an   *)
(* occurrence is taken or not by what was taken before it.                 *)
LEMMA CutsUpTo ==
  ASSUME NEW s, NEW sep, Len(sep) \in Nat, NEW n \in Nat
  PROVE  \E cuts \in SUBSET (1 .. n) : \A i \in 1 .. n : IsCut(cuts, s, sep, i)
<1> DEFINE T == {m \in Nat : \E cuts \in SUBSET (1 .. m) : \A i \in 1 .. m : IsCut(cuts, s, sep, i)}
<1>1. 0 \in T
  <2>1. \A i \in 1 .. 0 : IsCut({}, s, sep, i)
    OBVIOUS
  <2>2. {} \in SUBSET (1 .. 0)
    OBVIOUS
  <2> QED
    BY <2>1, <2>2
<1>2. ASSUME NEW m \in Nat, m \in T
      PROVE  m + 1 \in T
  <2>1. PICK cuts \in SUBSET (1 .. m) : \A i \in 1 .. m : IsCut(cuts, s, sep, i)
    BY <1>2
  <2> DEFINE taken == Occurs(s, sep, m + 1) /\ \A j \in cuts : j < m + 1 => j + Len(sep) <= m + 1
             more == IF taken THEN cuts \cup {m + 1} ELSE cuts
  <2>2. more \in SUBSET (1 .. m + 1) /\ (\A i \in 1 .. m : i \in more <=> i \in cuts)
    OBVIOUS
  <2>3. m + 1 \in more <=> taken
    OBVIOUS
  <2>4. ASSUME NEW i \in 1 .. m
        PROVE  IsCut(more, s, sep, i)
    <3>1. \A j : j \in more /\ j < i <=> j \in cuts /\ j < i
      OBVIOUS
    <3> HIDE DEF more
    <3> QED
      BY <2>1, <2>2, <3>1 DEF IsCut
  <2>5. IsCut(more, s, sep, m + 1)
    <3>1. \A j : j \in more /\ j < m + 1 <=> j \in cuts /\ j < m + 1
      OBVIOUS
    <3> HIDE DEF more
    <3> QED
      BY <2>3, <3>1 DEF IsCut
  <2> HIDE DEF more
  <2>6. \A i \in 1 .. m + 1 : IsCut(more, s, sep, i)
    <3> TAKE i \in 1 .. m + 1
    <3>1. i \in 1 .. m \/ i = m + 1
      OBVIOUS
    <3> QED
      BY <2>4, <2>5, <3>1
  <2> QED
    BY <2>2, <2>6
<1> HIDE DEF T
<1>3. Nat \subseteq T
  BY <1>1, <1>2, NatSetInduction
<1> QED
  BY <1>3 DEF T

(* So the parser's cuts are what their definition asks for. *)
LEMMA CutsAre ==
  ASSUME NEW s, Len(s) \in Nat, NEW sep, Len(sep) \in Nat
  PROVE  /\ Cuts(s, sep) \in SUBSET (1 .. Len(s))
         /\ \A i \in 1 .. Len(s) : IsCut(Cuts(s, sep), s, sep, i)
<1>1. \E cuts \in SUBSET (1 .. Len(s)) : \A i \in 1 .. Len(s) : IsCut(cuts, s, sep, i)
  BY CutsUpTo
<1>2. Cuts(s, sep) = CHOOSE cuts \in SUBSET (1 .. Len(s)) : \A i \in 1 .. Len(s) : IsCut(cuts, s, sep, i)
  BY DEF Cuts, IsCut
<1> QED
  BY <1>1, <1>2

-------------------------------------------------------------------------------
(* What the parser returns. *)

LEMMA RangeTyped ==
  ASSUME NEW a \in 0 .. Top, NEW b \in 0 .. Top, NEW checked
  PROVE  /\ RangeToSucc(a, b, checked) \in Interval
         /\ RangeToSucc(a, b, checked) = Panic \/ RangeToSucc(a, b, checked).kind = "range"
<1> USE TopAssumption
<1>1. Succ(b) \in 0 .. Top
  BY DEF Succ
<1>2. RangeTo(a, Succ(b)) \in Interval /\ RangeTo(a, Succ(b)).kind = "range"
  BY <1>1 DEF RangeTo, Interval
<1>3. Panic \in Interval
  BY DEF Panic, Interval
<1> QED
  BY <1>2, <1>3 DEF RangeToSucc

(* An interval, of which there is one error and one panic. *)
Parsed(i) ==
  /\ i \in Interval
  /\ i.kind = "error" => i = Error
  /\ i.kind = "panic" => i = Panic

LEMMA ErrorParsed == Parsed(Error) /\ Parsed(Panic) /\ Parsed(HashInterval)
  BY TopAssumption DEF Parsed, Error, Panic, HashInterval, Interval

LEMMA NumberTyped ==
  ASSUME NEW p, IsNumber(p)
  PROVE  p[1].v \in 0 .. Top
<1>1. PICK n \in 0 .. Top : p = <<Num(n)>>
  BY DEF IsNumber
<1> QED
  BY <1>1 DEF Num

LEMMA ParseRangeTyped ==
  ASSUME NEW s, NEW sep, NEW inclusive, NEW checked
  PROVE  Parsed(ParseRange(s, sep, inclusive, checked))
<1> DEFINE lhs == Lhs(s, sep)
           rhs == Rhs(s, sep)
<1>1. CASE Cuts(s, sep) # {} /\ IsNumber(lhs) /\ IsNumber(rhs)
  <2> DEFINE a == lhs[1].v
             b == rhs[1].v
  <2>1. a \in 0 .. Top /\ b \in 0 .. Top
    BY <1>1, NumberTyped
  <2> HIDE DEF a, b
  <2>2. Parsed(RangeTo(a, b))
    BY <2>1 DEF RangeTo, Parsed, Interval
  <2>3. Parsed(RangeToSucc(a, b, checked))
    BY <2>1, RangeTyped, ErrorParsed DEF Parsed
  <2>4. ParseRange(s, sep, inclusive, checked)
          = IF inclusive THEN RangeToSucc(a, b, checked) ELSE RangeTo(a, b)
    BY <1>1 DEF ParseRange, a, b
  <2> QED
    BY <2>2, <2>3, <2>4
<1>2. CASE Cuts(s, sep) = {} \/ ~IsNumber(lhs) \/ ~IsNumber(rhs)
  BY <1>2, ErrorParsed DEF ParseRange
<1> QED
  BY <1>1, <1>2

LEMMA BoundedTyped ==
  ASSUME NEW i, Parsed(i), i.kind \notin {"error", "panic"}, NEW checked
  PROVE  \/ BoundedStream(i, checked) \in {Error, Panic}
         \/ BoundedStream(i, checked) \in Interval /\ BoundedStream(i, checked).kind = "range"
<1>1. i.from \in 0 .. Top /\ i.kind \in {"hash", "single", "range", "follow"}
  BY DEF Parsed, Interval
<1>2. CASE i.kind = "single"
  BY <1>1, <1>2, RangeTyped DEF BoundedStream
<1>3. CASE i.kind = "range"
  BY <1>3 DEF BoundedStream, Parsed
<1>4. CASE i.kind \in {"hash", "follow"}
  BY <1>4 DEF BoundedStream
<1> QED
  BY <1>1, <1>2, <1>3, <1>4

-------------------------------------------------------------------------------
(* Where the two separators occur. *)

Exclusive == <<Dot, Dot>>
Inclusive == <<Dot, Dot, Equals>>

LEMMA TokensDiffer ==
  /\ \A n \in 0 .. Top : Num(n) \notin {Dot, Equals, Hash, Other} /\ Num(n).v = n
  /\ Dot \notin {Equals, Hash, Other} /\ Equals \notin {Hash, Other}
  BY DEF Num, Dot, Equals, Hash, Other

LEMMA Separators ==
  /\ Len(Exclusive) = 2 /\ Len(Inclusive) = 3
  /\ Exclusive \in Seq(Token) /\ Inclusive \in Seq(Token)
<1>1. Dot \in Token /\ Equals \in Token
  BY DEF Token
<1> QED
  BY <1>1 DEF Exclusive, Inclusive

LEMMA SubSeqIs ==
  ASSUME NEW s \in Seq(Token), NEW i \in Nat \ {0}, NEW e \in 0 .. Len(s)
  PROVE  /\ SubSeq(s, i, e) \in Seq(Token)
         /\ Len(SubSeq(s, i, e)) = IF i <= e THEN e - i + 1 ELSE 0
         /\ \A j \in i .. e : SubSeq(s, i, e)[j - i + 1] = s[j]
  OBVIOUS

LEMMA ExclusiveAt ==
  ASSUME NEW s \in Seq(Token), NEW i \in 1 .. Len(s)
  PROVE  Occurs(s, Exclusive, i) <=> i + 1 <= Len(s) /\ s[i] = Dot /\ s[i + 1] = Dot
<1>1. CASE i + 1 <= Len(s)
  <2> DEFINE q == SubSeq(s, i, i + 1)
  <2>1. i \in Nat \ {0} /\ i + 1 \in 0 .. Len(s) /\ i \in i .. i + 1 /\ i + 1 \in i .. i + 1
    BY <1>1
  <2>2. q \in Seq(Token) /\ Len(q) = 2 /\ q[1] = s[i] /\ q[2] = s[i + 1]
    <3>1. q \in Seq(Token) /\ Len(q) = (IF i <= i + 1 THEN i + 1 - i + 1 ELSE 0)
      BY <2>1, SubSeqIs
    <3>2. q[i - i + 1] = s[i] /\ q[i + 1 - i + 1] = s[i + 1]
      BY <2>1, SubSeqIs
    <3> HIDE DEF q
    <3> QED
      BY <3>1, <3>2
  <2> HIDE DEF q
  <2>3. q = Exclusive <=> q[1] = Dot /\ q[2] = Dot
    BY <2>2, Separators DEF Exclusive
  <2>4. Occurs(s, Exclusive, i) <=> i + 2 - 1 <= Len(s) /\ SubSeq(s, i, i + 2 - 1) = Exclusive
    BY Separators DEF Occurs
  <2>5. i + 2 - 1 = i + 1
    OBVIOUS
  <2> QED
    BY <1>1, <2>2, <2>3, <2>4, <2>5 DEF q
<1>2. CASE ~(i + 1 <= Len(s))
  BY <1>2, Separators DEF Occurs
<1> QED
  BY <1>1, <1>2

LEMMA InclusiveAt ==
  ASSUME NEW s \in Seq(Token), NEW i \in 1 .. Len(s)
  PROVE  Occurs(s, Inclusive, i)
           <=> i + 2 <= Len(s) /\ s[i] = Dot /\ s[i + 1] = Dot /\ s[i + 2] = Equals
<1>1. CASE i + 2 <= Len(s)
  <2> DEFINE q == SubSeq(s, i, i + 2)
  <2>1. i \in Nat \ {0} /\ i + 2 \in 0 .. Len(s)
        /\ i \in i .. i + 2 /\ i + 1 \in i .. i + 2 /\ i + 2 \in i .. i + 2
    BY <1>1
  <2>2. q \in Seq(Token) /\ Len(q) = 3 /\ q[1] = s[i] /\ q[2] = s[i + 1] /\ q[3] = s[i + 2]
    <3>1. q \in Seq(Token) /\ Len(q) = (IF i <= i + 2 THEN i + 2 - i + 1 ELSE 0)
      BY <2>1, SubSeqIs
    <3>2. q[i - i + 1] = s[i] /\ q[i + 1 - i + 1] = s[i + 1] /\ q[i + 2 - i + 1] = s[i + 2]
      BY <2>1, SubSeqIs
    <3>3. i - i + 1 = 1 /\ i + 1 - i + 1 = 2 /\ i + 2 - i + 1 = 3 /\ i <= i + 2
      OBVIOUS
    <3> HIDE DEF q
    <3> QED
      BY <3>1, <3>2, <3>3
  <2> HIDE DEF q
  <2>3. q = Inclusive <=> q[1] = Dot /\ q[2] = Dot /\ q[3] = Equals
    BY <2>2, Separators DEF Inclusive
  <2>4. Occurs(s, Inclusive, i) <=> i + 3 - 1 <= Len(s) /\ SubSeq(s, i, i + 3 - 1) = Inclusive
    BY Separators DEF Occurs
  <2>5. i + 3 - 1 = i + 2
    OBVIOUS
  <2> QED
    BY <1>1, <2>2, <2>3, <2>4, <2>5 DEF q
<1>2. CASE ~(i + 2 <= Len(s))
  BY <1>2, Separators DEF Occurs
<1> QED
  BY <1>1, <1>2

(* A cut is where a separator begins, with a dot. *)
LEMMA CutIs ==
  ASSUME NEW s \in Seq(Token), NEW sep \in {Exclusive, Inclusive}
  PROVE  /\ Cuts(s, sep) \in SUBSET (1 .. Len(s))
         /\ \A i \in 1 .. Len(s) : IsCut(Cuts(s, sep), s, sep, i)
         /\ \A i \in Cuts(s, sep) : /\ Occurs(s, sep, i)
                                    /\ i + 1 <= Len(s) /\ s[i] = Dot /\ s[i + 1] = Dot
<1>1. Len(s) \in Nat /\ Len(sep) \in Nat
  BY Separators
<1>2. Cuts(s, sep) \in SUBSET (1 .. Len(s)) /\ \A i \in 1 .. Len(s) : IsCut(Cuts(s, sep), s, sep, i)
  BY <1>1, CutsAre
<1>3. ASSUME NEW i \in Cuts(s, sep)
      PROVE  Occurs(s, sep, i) /\ i + 1 <= Len(s) /\ s[i] = Dot /\ s[i + 1] = Dot
  <2>1. i \in 1 .. Len(s) /\ Occurs(s, sep, i)
    BY <1>2 DEF IsCut
  <2>2. sep = Exclusive \/ sep = Inclusive
    OBVIOUS
  <2>3. i + 2 <= Len(s) => i + 1 <= Len(s)
    BY <2>1
  <2> QED
    BY <2>1, <2>2, <2>3, ExclusiveAt, InclusiveAt
<1> QED
  BY <1>2, <1>3

-------------------------------------------------------------------------------
(* Pieces *)

(* A piece ends before the next cut, or with the argument. *)
LEMMA PieceEnds ==
  ASSUME NEW s \in Seq(Token), NEW sep \in {Exclusive, Inclusive}, NEW i \in Nat \ {0}
  PROVE  \E e \in 0 .. Len(s) :
           /\ Piece(s, sep, i) = SubSeq(s, i, e)
           /\ \A c \in Cuts(s, sep) : c >= i => e < c
           /\ e = Len(s) \/ (e + 1 \in Cuts(s, sep) /\ e + 1 >= i)
<1> DEFINE ends == {j \in Cuts(s, sep) : j >= i}
<1>1. Cuts(s, sep) \in SUBSET (1 .. Len(s)) /\ Len(s) \in Nat
  BY CutIs
<1>2. Piece(s, sep, i) = SubSeq(s, i, IF ends = {} THEN Len(s) ELSE Min(ends) - 1)
  BY DEF Piece
<1>3. CASE ends = {}
  <2>1. \A c \in Cuts(s, sep) : ~(c >= i)
    BY <1>3
  <2>2. Len(s) \in 0 .. Len(s)
    BY <1>1
  <2> QED
    BY <1>2, <1>3, <2>1, <2>2
<1>4. CASE ends # {}
  <2> DEFINE m == Min(ends)
  <2>1. ends \in SUBSET Nat
    BY <1>1
  <2> HIDE DEF ends
  <2>2. m \in ends /\ \A c \in ends : m <= c
    BY <1>4, <2>1, MinIsLeast
  <2> HIDE DEF m
  <2>3. m \in Cuts(s, sep) /\ m >= i /\ m \in 1 .. Len(s)
    BY <1>1, <2>2 DEF ends
  <2>4. \A c \in Cuts(s, sep) : c >= i => m - 1 < c
    <3> SUFFICES ASSUME NEW c \in Cuts(s, sep), c >= i PROVE m - 1 < c
      OBVIOUS
    <3>1. m <= c /\ c \in Nat
      BY <1>1, <2>2 DEF ends
    <3> QED
      BY <2>3, <3>1
  <2>5. m - 1 \in 0 .. Len(s) /\ m - 1 + 1 = m
    BY <2>3, <1>1
  <2>6. Piece(s, sep, i) = SubSeq(s, i, m - 1)
    BY <1>2, <1>4 DEF m
  <2> QED
    BY <2>3, <2>4, <2>5, <2>6
<1> QED
  BY <1>3, <1>4

(* A piece that is one token is followed by a cut, or by nothing. *)
LEMMA OneTokenPiece ==
  ASSUME NEW s \in Seq(Token), NEW sep \in {Exclusive, Inclusive}, NEW i \in Nat \ {0},
         NEW t \in Token, Piece(s, sep, i) = <<t>>
  PROVE  i \in 1 .. Len(s) /\ s[i] = t /\ (i = Len(s) \/ i + 1 \in Cuts(s, sep))
<1>1. PICK e \in 0 .. Len(s) : /\ Piece(s, sep, i) = SubSeq(s, i, e)
                               /\ e = Len(s) \/ (e + 1 \in Cuts(s, sep) /\ e + 1 >= i)
  BY PieceEnds
<1>2. Len(SubSeq(s, i, e)) = 1 /\ SubSeq(s, i, e)[1] = t
  <2> DEFINE q == SubSeq(s, i, e)
  <2>1. q = <<t>>
    BY <1>1
  <2> HIDE DEF q
  <2>2. Len(q) = 1 /\ q[1] = t
    BY <2>1
  <2> QED
    BY <2>2 DEF q
<1>3. i = e
  <2>1. Len(SubSeq(s, i, e)) = IF i <= e THEN e - i + 1 ELSE 0
    BY SubSeqIs
  <2> QED
    BY <1>2, <2>1
<1>4. s[i] = t
  <2>1. i \in i .. e /\ i - i + 1 = 1
    BY <1>3
  <2>2. SubSeq(s, i, e)[i - i + 1] = s[i]
    BY <2>1, SubSeqIs
  <2> QED
    BY <1>2, <2>1, <2>2
<1> QED
  BY <1>1, <1>3, <1>4

(* What ends like a piece is the piece. *)
LEMMA PieceIs ==
  ASSUME NEW s \in Seq(Token), NEW sep \in {Exclusive, Inclusive}, NEW i \in Nat \ {0},
         NEW e \in 0 .. Len(s),
         \A c \in Cuts(s, sep) : c >= i => e < c,
         e = Len(s) \/ (e + 1 \in Cuts(s, sep) /\ e + 1 >= i)
  PROVE  /\ Piece(s, sep, i) = SubSeq(s, i, e)
         /\ e = i => Piece(s, sep, i) = <<s[i]>>
         /\ e < i => Piece(s, sep, i) = <<>>
<1>1. Cuts(s, sep) \in SUBSET (1 .. Len(s)) /\ Len(s) \in Nat
  BY CutIs
<1>2. PICK f \in 0 .. Len(s) : /\ Piece(s, sep, i) = SubSeq(s, i, f)
                               /\ \A c \in Cuts(s, sep) : c >= i => f < c
                               /\ f = Len(s) \/ (f + 1 \in Cuts(s, sep) /\ f + 1 >= i)
  BY PieceEnds
<1>3. e <= f
  <2>1. CASE f = Len(s)
    BY <2>1, <1>1
  <2>2. CASE f + 1 \in Cuts(s, sep) /\ f + 1 >= i
    BY <2>2
  <2> QED
    BY <1>2, <2>1, <2>2
<1>4. f <= e
  <2>1. CASE e = Len(s)
    BY <2>1, <1>1
  <2>2. CASE e + 1 \in Cuts(s, sep) /\ e + 1 >= i
    BY <2>2, <1>2
  <2> QED
    BY <2>1, <2>2
<1>5. Piece(s, sep, i) = SubSeq(s, i, e)
  BY <1>2, <1>3, <1>4
<1> DEFINE q == SubSeq(s, i, e)
<1>6. q \in Seq(Token) /\ Len(q) = (IF i <= e THEN e - i + 1 ELSE 0) /\ \A j \in i .. e : q[j - i + 1] = s[j]
  BY SubSeqIs
<1> HIDE DEF q
<1>7. e = i => q = <<s[i]>>
  <2> SUFFICES ASSUME e = i PROVE q = <<s[i]>>
    OBVIOUS
  <2>1. Len(q) = 1
    BY <1>6
  <2>2. q[1] = s[i]
    <3>1. i \in i .. e /\ i - i + 1 = 1
      OBVIOUS
    <3>2. q[i - i + 1] = s[i]
      BY <1>6, <3>1
    <3> QED
      BY <3>1, <3>2
  <2> QED
    BY <1>6, <2>1, <2>2
<1>8. e < i => q = <<>>
  <2>1. e < i => Len(q) = 0
    BY <1>6
  <2> QED
    BY <1>6, <2>1
<1> QED
  BY <1>5, <1>7, <1>8 DEF q

-------------------------------------------------------------------------------
(* Ranges *)

LEMMA RangeIsNoError ==
  ASSUME NEW a, NEW b, NEW checked
  PROVE  /\ RangeTo(a, b) # Error /\ RangeToSucc(a, b, checked) # Error /\ Panic # Error
         /\ RangeTo(a, b).kind = "range" /\ RangeToSucc(a, b, checked).kind \in {"range", "panic"}
  BY DEF RangeTo, RangeToSucc, Error, Panic

(* What a range of the argument has: a number before the first separator,  *)
(* and one after it, with which the argument ends or is cut again.         *)
LEMMA RangeHas ==
  ASSUME NEW s \in Seq(Token), NEW sep \in {Exclusive, Inclusive}, NEW inclusive \in BOOLEAN, NEW checked,
         ParseRange(s, sep, inclusive, checked) # Error
  PROVE  \E a, b \in 0 .. Top :
           /\ s[1] = Num(a) /\ 2 \in Cuts(s, sep)
           /\ 2 + Len(sep) \in 1 .. Len(s) /\ s[2 + Len(sep)] = Num(b)
           /\ 2 + Len(sep) = Len(s) \/ 3 + Len(sep) \in Cuts(s, sep)
           /\ ParseRange(s, sep, inclusive, checked)
                = IF inclusive THEN RangeToSucc(a, b, checked) ELSE RangeTo(a, b)
<1> DEFINE cuts == Cuts(s, sep)
           lhs == Lhs(s, sep)
           rhs == Rhs(s, sep)
<1>1. cuts # {} /\ IsNumber(lhs) /\ IsNumber(rhs)
  BY DEF ParseRange
<1>2. PICK a \in 0 .. Top : lhs = <<Num(a)>>
  BY <1>1 DEF IsNumber
<1>3. PICK b \in 0 .. Top : rhs = <<Num(b)>>
  BY <1>1 DEF IsNumber
<1>4. Num(a) \in Token /\ Num(b) \in Token
  BY DEF Token
<1>5. /\ cuts \in SUBSET (1 .. Len(s)) /\ Len(s) \in Nat
      /\ \A i \in cuts : i + 1 <= Len(s) /\ s[i] = Dot /\ s[i + 1] = Dot
  BY CutIs
<1>6. s[1] = Num(a) /\ 1 \in 1 .. Len(s) /\ (1 = Len(s) \/ 2 \in cuts)
  <2>1. Piece(s, sep, 1) = <<Num(a)>>
    BY <1>2 DEF Lhs
  <2>2. 1 \in 1 .. Len(s) /\ s[1] = Num(a) /\ (1 = Len(s) \/ 1 + 1 \in cuts)
    BY <1>4, <2>1, OneTokenPiece
  <2> QED
    BY <2>2
<1>7. 1 \notin cuts
  BY <1>5, <1>6, TokensDiffer
<1>8. 2 \in cuts
  BY <1>1, <1>5, <1>6
<1>9. Min(cuts) = 2
  <2>1. cuts \in SUBSET Nat
    BY <1>5
  <2> HIDE DEF cuts
  <2>2. Min(cuts) \in cuts /\ Min(cuts) <= 2
    BY <1>8, <2>1, MinIsLeast
  <2>3. \A m \in cuts : m <= 2 => m = 2
    <3> SUFFICES ASSUME NEW m \in cuts, m <= 2 PROVE m = 2
      OBVIOUS
    <3>1. m \in 1 .. Len(s) /\ m # 1
      BY <1>5, <1>7
    <3> QED
      BY <1>5, <3>1
  <2> QED
    BY <2>2, <2>3
<1>10. Len(sep) \in Nat
  BY Separators
<1>11. /\ 2 + Len(sep) \in 1 .. Len(s) /\ s[2 + Len(sep)] = Num(b)
       /\ 2 + Len(sep) = Len(s) \/ 3 + Len(sep) \in cuts
  <2>1. Piece(s, sep, 2 + Len(sep)) = <<Num(b)>>
    BY <1>3, <1>9 DEF Rhs
  <2>2. 2 + Len(sep) \in Nat \ {0} /\ 2 + Len(sep) + 1 = 3 + Len(sep)
    BY <1>10
  <2>3. /\ 2 + Len(sep) \in 1 .. Len(s) /\ s[2 + Len(sep)] = Num(b)
        /\ 2 + Len(sep) = Len(s) \/ 2 + Len(sep) + 1 \in cuts
    BY <1>4, <2>1, <2>2, OneTokenPiece
  <2> QED
    BY <2>2, <2>3
<1>12. lhs[1].v = a /\ rhs[1].v = b
  BY <1>2, <1>3, TokensDiffer
<1>13. ParseRange(s, sep, inclusive, checked)
         = IF inclusive THEN RangeToSucc(a, b, checked) ELSE RangeTo(a, b)
  BY <1>1, <1>12 DEF ParseRange
<1> QED
  BY <1>6, <1>8, <1>11, <1>13

(* And a number, one separator, and a number is a range. *)
LEMMA RangeParses ==
  ASSUME NEW s \in Seq(Token), NEW sep \in {Exclusive, Inclusive}, NEW inclusive \in BOOLEAN, NEW checked,
         NEW a \in 0 .. Top, NEW b \in 0 .. Top, Cuts(s, sep) = {2},
         s[1] = Num(a), Len(s) = 2 + Len(sep), s[2 + Len(sep)] = Num(b)
  PROVE  ParseRange(s, sep, inclusive, checked)
           = IF inclusive THEN RangeToSucc(a, b, checked) ELSE RangeTo(a, b)
<1>1. Len(sep) \in Nat \ {0}
  BY Separators
<1>2. Lhs(s, sep) = <<Num(a)>>
  <2>1. 1 \in 0 .. Len(s) /\ 1 \in Nat \ {0} /\ (\A c \in Cuts(s, sep) : c >= 1 => 1 < c)
        /\ 1 + 1 \in Cuts(s, sep) /\ 1 + 1 >= 1
    BY <1>1
  <2>2. Piece(s, sep, 1) = <<s[1]>>
    BY <2>1, PieceIs
  <2> QED
    BY <2>2 DEF Lhs
<1>3. Rhs(s, sep) = <<Num(b)>>
  <2> DEFINE i == 2 + Len(sep)
  <2>1. i \in 0 .. Len(s) /\ i \in Nat \ {0} /\ (\A c \in Cuts(s, sep) : c >= i => i < c) /\ i = Len(s)
    BY <1>1
  <2>2. Piece(s, sep, i) = <<s[i]>>
    <3> HIDE DEF i
    <3> QED
      BY <2>1, PieceIs
  <2>3. Min({2}) = 2
    BY DEF Min
  <2> QED
    BY <2>2, <2>3 DEF Rhs
<1>4. IsNumber(<<Num(a)>>) /\ IsNumber(<<Num(b)>>)
  BY DEF IsNumber
<1>5. Lhs(s, sep)[1].v = a /\ Rhs(s, sep)[1].v = b
  BY <1>2, <1>3, TokensDiffer
<1> QED
  BY <1>2, <1>3, <1>4, <1>5 DEF ParseRange

-------------------------------------------------------------------------------
(* The documented forms, token by token. *)

NumberAt(s, i) == \E n \in 0 .. Top : s[i] = Num(n)

LEMMA NumberAlone ==
  ASSUME NEW s, NEW i
  PROVE  IsNumber(<<s[i]>>) <=> NumberAt(s, i)
<1>1. ASSUME NEW n \in 0 .. Top PROVE <<s[i]>> = <<Num(n)>> <=> s[i] = Num(n)
  OBVIOUS
<1> QED
  BY <1>1 DEF IsNumber, NumberAt

IsExclusive(s) == Len(s) = 4 /\ Occurs(s, Exclusive, 2) /\ NumberAt(s, 1) /\ NumberAt(s, 4)
IsInclusive(s) == Len(s) = 5 /\ Occurs(s, Inclusive, 2) /\ NumberAt(s, 1) /\ NumberAt(s, 5)
IsFollow(s) ==
  /\ NumberAt(s, 1)
  /\ (Len(s) = 3 /\ Occurs(s, Exclusive, 2)) \/ (Len(s) = 4 /\ Occurs(s, Inclusive, 2))

LEMMA IsNumberAt ==
  ASSUME NEW s \in Seq(Token)
  PROVE  IsNumber(s) <=> Len(s) = 1 /\ NumberAt(s, 1)
<1>1. ASSUME NEW n \in 0 .. Top PROVE s = <<Num(n)>> <=> Len(s) = 1 /\ s[1] = Num(n)
  OBVIOUS
<1> QED
  BY <1>1 DEF IsNumber, NumberAt

LEMMA TailIs ==
  ASSUME NEW s \in Seq(Token), Len(s) >= 3
  PROVE  /\ Tail(s) = <<Dot, Dot>> <=> Len(s) = 3 /\ SubSeq(s, 2, 3) = <<Dot, Dot>>
         /\ Tail(s) = <<Dot, Dot, Equals>> <=> Len(s) = 4 /\ SubSeq(s, 2, 4) = <<Dot, Dot, Equals>>
<1> DEFINE q == Tail(s)
           l == Len(q)
           n == Len(s)
<1>0. l = n - 1 /\ n \in Nat
  OBVIOUS
<1>1. q = SubSeq(s, 2, n)
  OBVIOUS
<1>2. q = <<Dot, Dot>> => l = 2
  <2> HIDE DEF q
  <2> QED
    OBVIOUS
<1>3. q = <<Dot, Dot, Equals>> => l = 3
  <2> HIDE DEF q
  <2> QED
    OBVIOUS
<1>4. q = <<Dot, Dot>> => n = 3
  <2> HIDE DEF q, l, n
  <2>1. l = 2 => n = 3
    BY <1>0
  <2> QED
    BY <1>2, <2>1
<1>5. q = <<Dot, Dot, Equals>> => n = 4
  <2> HIDE DEF q, l, n
  <2>1. l = 3 => n = 4
    BY <1>0
  <2> QED
    BY <1>3, <2>1
<1> HIDE DEF q, l, n
<1>6. q = <<Dot, Dot>> <=> n = 3 /\ SubSeq(s, 2, 3) = <<Dot, Dot>>
  BY <1>1, <1>4
<1>7. q = <<Dot, Dot, Equals>> <=> n = 4 /\ SubSeq(s, 2, 4) = <<Dot, Dot, Equals>>
  BY <1>1, <1>5
<1> QED
  BY <1>6, <1>7 DEF q, n

LEMMA Forms ==
  ASSUME NEW s \in Seq(Token)
  PROVE  Documented(s) = IF IsNumber(s) THEN "single"
                         ELSE IF IsExclusive(s) THEN "exclusive"
                         ELSE IF IsInclusive(s) THEN "inclusive"
                         ELSE IF IsFollow(s) THEN "follow" ELSE "none"
<1> DEFINE A == IsNumber(s)
           B == /\ Len(s) = 4 /\ SubSeq(s, 2, 3) = <<Dot, Dot>>
                /\ IsNumber(<<s[1]>>) /\ IsNumber(<<s[4]>>)
           C == /\ Len(s) = 5 /\ SubSeq(s, 2, 4) = <<Dot, Dot, Equals>>
                /\ IsNumber(<<s[1]>>) /\ IsNumber(<<s[5]>>)
           D == /\ Len(s) >= 3 /\ IsNumber(<<s[1]>>)
                /\ Tail(s) \in {<<Dot, Dot>>, <<Dot, Dot, Equals>>}
<1>1. Documented(s) = CASE A -> "single" [] B -> "exclusive" [] C -> "inclusive" [] D -> "follow"
                        [] OTHER -> "none"
  BY DEF Documented
<1>a. Len(s) \in Nat
  OBVIOUS
<1>2. A => Len(s) = 1
  BY IsNumberAt
<1>3. Occurs(s, Exclusive, 2) <=> 3 <= Len(s) /\ SubSeq(s, 2, 3) = <<Dot, Dot>>
  <2>1. Occurs(s, Exclusive, 2) <=> 2 + 2 - 1 <= Len(s) /\ SubSeq(s, 2, 2 + 2 - 1) = Exclusive
    BY Separators DEF Occurs
  <2>2. 2 + 2 - 1 = 3
    OBVIOUS
  <2> QED
    BY <2>1, <2>2 DEF Exclusive
<1>4. Occurs(s, Inclusive, 2) <=> 4 <= Len(s) /\ SubSeq(s, 2, 4) = <<Dot, Dot, Equals>>
  <2>1. Occurs(s, Inclusive, 2) <=> 2 + 3 - 1 <= Len(s) /\ SubSeq(s, 2, 2 + 3 - 1) = Inclusive
    BY Separators DEF Occurs
  <2>2. 2 + 3 - 1 = 4
    OBVIOUS
  <2> QED
    BY <2>1, <2>2 DEF Inclusive
<1>5. B <=> IsExclusive(s)
  <2>1. Len(s) = 4 => 3 <= Len(s)
    OBVIOUS
  <2> QED
    BY <1>3, <2>1, NumberAlone DEF IsExclusive
<1>6. C <=> IsInclusive(s)
  <2>1. Len(s) = 5 => 4 <= Len(s)
    OBVIOUS
  <2> QED
    BY <1>4, <2>1, NumberAlone DEF IsInclusive
<1>7. D <=> IsFollow(s)
  <2>1. D <=> /\ Len(s) >= 3 /\ NumberAt(s, 1)
              /\ \/ Len(s) = 3 /\ SubSeq(s, 2, 3) = <<Dot, Dot>>
                 \/ Len(s) = 4 /\ SubSeq(s, 2, 4) = <<Dot, Dot, Equals>>
    BY TailIs, NumberAlone
  <2> HIDE DEF D
  <2>2. \A n \in Nat : (n = 3 => n >= 3 /\ 3 <= n) /\ (n = 4 => n >= 3 /\ 4 <= n)
    OBVIOUS
  <2>3. (Len(s) = 3 => Len(s) >= 3 /\ 3 <= Len(s)) /\ (Len(s) = 4 => Len(s) >= 3 /\ 4 <= Len(s))
    BY <1>a, <2>2
  <2> QED
    BY <1>3, <1>4, <2>1, <2>3 DEF IsFollow
<1>8. ~(A /\ B) /\ ~(A /\ C) /\ ~(B /\ C) /\ ~(A /\ D)
  <2> DEFINE n == Len(s)
  <2>1. n \in Nat /\ (A => n = 1) /\ (B => n = 4) /\ (C => n = 5) /\ (D => n >= 3)
    BY <1>a, <1>2
  <2> HIDE DEF n, A, B, C, D
  <2> QED
    BY <2>1
<1>9. ~(B /\ D) /\ ~(C /\ D)
  <2>1. ~(IsExclusive(s) /\ IsFollow(s))
    <3>0. SUFFICES ASSUME IsExclusive(s), IsFollow(s) PROVE FALSE
      OBVIOUS
    <3>1. Len(s) = 4 /\ NumberAt(s, 4) /\ Occurs(s, Inclusive, 2)
      BY <3>0 DEF IsExclusive, IsFollow
    <3>2. 2 \in 1 .. Len(s) /\ 2 + 2 = 4
      BY <3>1
    <3>3. s[4] = Equals
      BY <3>1, <3>2, InclusiveAt
    <3> QED
      BY <3>1, <3>3, TokensDiffer DEF NumberAt
  <2>2. ~(IsInclusive(s) /\ IsFollow(s))
    <3>1. IsInclusive(s) => Len(s) = 5
      BY DEF IsInclusive
    <3>2. IsFollow(s) => Len(s) \in {3, 4}
      BY DEF IsFollow
    <3>3. 5 \notin {3, 4}
      OBVIOUS
    <3> QED
      BY <3>1, <3>2, <3>3
  <2> QED
    BY <1>5, <1>6, <1>7, <2>1, <2>2
<1> HIDE DEF A, B, C, D
<1>10. Documented(s) = IF A THEN "single" ELSE IF B THEN "exclusive" ELSE IF C THEN "inclusive"
                       ELSE IF D THEN "follow" ELSE "none"
  BY <1>1, <1>8, <1>9
<1> QED
  BY <1>5, <1>6, <1>7, <1>10 DEF A

-------------------------------------------------------------------------------
(* How the documented forms are cut. *)

LEMMA NoCuts ==
  ASSUME NEW s \in Seq(Token), NEW sep \in {Exclusive, Inclusive},
         \A i \in 1 .. Len(s) : ~Occurs(s, sep, i)
  PROVE  Cuts(s, sep) = {}
<1>1. /\ Cuts(s, sep) \in SUBSET (1 .. Len(s))
      /\ \A i \in Cuts(s, sep) : Occurs(s, sep, i)
  BY CutIs
<1> QED
  BY <1>1

LEMMA CutAtTwo ==
  ASSUME NEW s \in Seq(Token), NEW sep \in {Exclusive, Inclusive},
         NumberAt(s, 1), 2 \in 1 .. Len(s), Occurs(s, sep, 2),
         \A i \in 1 .. Len(s) : i > 2 => ~Occurs(s, sep, i)
  PROVE  Cuts(s, sep) = {2}
<1> DEFINE cuts == Cuts(s, sep)
<1>1. /\ cuts \in SUBSET (1 .. Len(s))
      /\ IsCut(cuts, s, sep, 2)
      /\ \A i \in cuts : Occurs(s, sep, i) /\ s[i] = Dot
  BY CutIs
<1> HIDE DEF cuts
<1>2. 1 \notin cuts
  BY <1>1, TokensDiffer DEF NumberAt
<1>3. \A i \in cuts : i = 2
  <2> SUFFICES ASSUME NEW i \in cuts PROVE i = 2
    OBVIOUS
  <2>1. i \in 1 .. Len(s) /\ i # 1 /\ ~(i > 2)
    BY <1>1, <1>2
  <2> QED
    BY <2>1
<1>4. 2 \in cuts
  <2>1. \A j \in cuts : ~(j < 2)
    BY <1>3
  <2> QED
    BY <1>1, <2>1 DEF IsCut
<1> QED
  BY <1>3, <1>4 DEF cuts

(* A number, the exclusive separator, and what does not begin with a dot.  *)
LEMMA ExclusiveCut ==
  ASSUME NEW s \in Seq(Token), NumberAt(s, 1), Len(s) \in {3, 4}, Occurs(s, Exclusive, 2),
         Len(s) = 4 => s[4] # Dot
  PROVE  Cuts(s, Exclusive) = {2}
<1>1. 2 \in 1 .. Len(s)
  OBVIOUS
<1>2. ASSUME NEW i \in 1 .. Len(s), i > 2
      PROVE  ~Occurs(s, Exclusive, i)
  <2>1. SUFFICES ASSUME i + 1 <= Len(s), s[i + 1] = Dot PROVE FALSE
    BY ExclusiveAt
  <2>2. i + 1 = 4 /\ Len(s) = 4
    BY <1>2, <2>1
  <2> QED
    BY <2>1, <2>2
<1> QED
  BY <1>1, <1>2, CutAtTwo

LEMMA InclusiveCut ==
  ASSUME NEW s \in Seq(Token), NumberAt(s, 1), Len(s) \in {4, 5}, Occurs(s, Inclusive, 2)
  PROVE  Cuts(s, Inclusive) = {2}
<1>1. 2 \in 1 .. Len(s) /\ 2 + 2 = 4
  OBVIOUS
<1>2. s[4] = Equals
  BY <1>1, InclusiveAt
<1>3. ASSUME NEW i \in 1 .. Len(s), i > 2
      PROVE  ~Occurs(s, Inclusive, i)
  <2>1. SUFFICES ASSUME i + 2 <= Len(s), s[i + 1] = Dot PROVE FALSE
    BY InclusiveAt
  <2>2. i + 1 = 4
    <3>1. \A m, n \in Nat : n \in {4, 5} /\ m > 2 /\ m + 2 <= n => m + 1 = 4
      OBVIOUS
    <3>2. i \in Nat /\ Len(s) \in Nat
      OBVIOUS
    <3> QED
      BY <1>3, <2>1, <3>1, <3>2
  <2> QED
    BY <1>2, <2>1, <2>2, TokensDiffer
<1> QED
  BY <1>1, <1>3, CutAtTwo

-------------------------------------------------------------------------------
(* What the documented forms are parsed into. *)

LEMMA SingleParsed ==
  ASSUME NEW s \in Seq(Token), NEW checked, IsNumber(s)
  PROVE  \E n \in 0 .. Top : s[1] = Num(n) /\ NewInterval(s, checked) = Single(n)
<1>1. Len(s) = 1
  BY IsNumberAt
<1>2. PICK n \in 0 .. Top : s = <<Num(n)>>
  BY DEF IsNumber
<1>3. s[1] = Num(n)
  BY <1>2
<1>4. ASSUME NEW i \in 1 .. Len(s) PROVE ~Occurs(s, Exclusive, i) /\ ~Occurs(s, Inclusive, i)
  <2>1. ~(i + 1 <= Len(s)) /\ ~(i + 2 <= Len(s))
    BY <1>1, <1>4
  <2> QED
    BY <2>1, ExclusiveAt, InclusiveAt
<1>5. Cuts(s, Exclusive) = {} /\ Cuts(s, Inclusive) = {}
  BY <1>4, NoCuts
<1>6. s # <<Hash>>
  <2>1. <<Hash>>[1] = Hash
    OBVIOUS
  <2> QED
    BY <1>3, <2>1, TokensDiffer
<1>7. s[1].v = n
  BY <1>3, TokensDiffer
<1> QED
  BY <1>3, <1>5, <1>6, <1>7 DEF NewInterval, ParseRange, Exclusive, Inclusive

LEMMA ExclusiveParsed ==
  ASSUME NEW s \in Seq(Token), NEW checked, IsExclusive(s)
  PROVE  \E a, b \in 0 .. Top :
           s[1] = Num(a) /\ s[4] = Num(b) /\ NewInterval(s, checked) = RangeTo(a, b)
<1>1. Len(s) = 4 /\ Occurs(s, Exclusive, 2) /\ NumberAt(s, 1) /\ NumberAt(s, 4)
  BY DEF IsExclusive
<1>2. PICK a \in 0 .. Top : s[1] = Num(a)
  BY <1>1 DEF NumberAt
<1>3. PICK b \in 0 .. Top : s[4] = Num(b)
  BY <1>1 DEF NumberAt
<1>4. s[4] # Dot /\ s[4] # Equals /\ s[1] # Dot /\ s[1] # Hash
  BY <1>2, <1>3, TokensDiffer
<1>5. Cuts(s, Exclusive) = {2}
  <2>1. Len(s) \in {3, 4}
    BY <1>1
  <2> QED
    BY <1>1, <1>4, <2>1, ExclusiveCut
<1>6. Cuts(s, Inclusive) = {}
  <2>1. ASSUME NEW i \in 1 .. Len(s) PROVE ~Occurs(s, Inclusive, i)
    <3>1. SUFFICES ASSUME i + 2 <= Len(s), s[i] = Dot, s[i + 2] = Equals PROVE FALSE
      BY InclusiveAt
    <3>2. i = 1 \/ i + 2 = 4
      BY <1>1, <2>1, <3>1
    <3> QED
      BY <1>4, <3>1, <3>2
  <2> QED
    BY <2>1, NoCuts
<1>7. ParseRange(s, Exclusive, FALSE, checked) = RangeTo(a, b)
  <2>1. Len(s) = 2 + Len(Exclusive) /\ s[2 + Len(Exclusive)] = Num(b)
    BY <1>1, <1>3, Separators
  <2>2. \A inclusive \in BOOLEAN : ParseRange(s, Exclusive, inclusive, checked)
          = IF inclusive THEN RangeToSucc(a, b, checked) ELSE RangeTo(a, b)
    BY <1>2, <1>5, <2>1, RangeParses
  <2> QED
    BY <2>2
<1>8. ParseRange(s, Inclusive, TRUE, checked) = Error
  BY <1>6 DEF ParseRange
<1>9. s # <<Hash>>
  <2>1. <<Hash>>[1] = Hash
    OBVIOUS
  <2> QED
    BY <1>4, <2>1
<1> QED
  BY <1>2, <1>3, <1>7, <1>8, <1>9, RangeIsNoError DEF NewInterval, Exclusive, Inclusive

LEMMA InclusiveParsed ==
  ASSUME NEW s \in Seq(Token), NEW checked, IsInclusive(s)
  PROVE  \E a, b \in 0 .. Top :
           s[1] = Num(a) /\ s[5] = Num(b) /\ NewInterval(s, checked) = RangeToSucc(a, b, checked)
<1>1. Len(s) = 5 /\ Occurs(s, Inclusive, 2) /\ NumberAt(s, 1) /\ NumberAt(s, 5)
  BY DEF IsInclusive
<1>2. PICK a \in 0 .. Top : s[1] = Num(a)
  BY <1>1 DEF NumberAt
<1>3. PICK b \in 0 .. Top : s[5] = Num(b)
  BY <1>1 DEF NumberAt
<1>4. s[1] # Hash
  BY <1>2, TokensDiffer
<1>5. Cuts(s, Inclusive) = {2}
  <2>1. Len(s) \in {4, 5}
    BY <1>1
  <2> QED
    BY <1>1, <2>1, InclusiveCut
<1>6. ParseRange(s, Inclusive, TRUE, checked) = RangeToSucc(a, b, checked)
  <2>1. Len(s) = 2 + Len(Inclusive) /\ s[2 + Len(Inclusive)] = Num(b)
    BY <1>1, <1>3, Separators
  <2> QED
    BY <1>2, <1>5, <2>1, RangeParses
<1>7. s # <<Hash>>
  <2>1. <<Hash>>[1] = Hash
    OBVIOUS
  <2> QED
    BY <1>4, <2>1
<1> QED
  BY <1>2, <1>3, <1>6, <1>7, RangeIsNoError DEF NewInterval, Inclusive

LEMMA FollowParsed ==
  ASSUME NEW s \in Seq(Token), NEW checked, IsFollow(s)
  PROVE  \E n \in 0 .. Top : s[1] = Num(n) /\ NewInterval(s, checked) = FollowFrom(n)
<1> DEFINE l == Len(s)
<1>1. NumberAt(s, 1) /\ ((l = 3 /\ Occurs(s, Exclusive, 2)) \/ (l = 4 /\ Occurs(s, Inclusive, 2)))
  BY DEF IsFollow
<1>2. PICK n \in 0 .. Top : s[1] = Num(n)
  BY <1>1 DEF NumberAt
<1>3. l \in {3, 4} /\ 2 \in 1 .. l /\ 2 + 2 = 4
  <2> HIDE DEF l
  <2>1. l \in {3, 4}
    BY <1>1
  <2> QED
    BY <2>1
<1>4. l = 4 => s[4] = Equals /\ Occurs(s, Exclusive, 2)
  <2> SUFFICES ASSUME l = 4 PROVE s[4] = Equals /\ Occurs(s, Exclusive, 2)
    OBVIOUS
  <2>1. 2 + 2 <= Len(s) /\ s[2] = Dot /\ s[2 + 1] = Dot /\ s[2 + 2] = Equals
    <3>1. Occurs(s, Inclusive, 2)
      <4> HIDE DEF l
      <4>1. l # 3
        OBVIOUS
      <4> QED
        BY <1>1, <4>1
    <3> QED
      BY <1>3, <3>1, InclusiveAt
  <2> QED
    BY <1>3, <2>1, ExclusiveAt
<1>5. Cuts(s, Exclusive) = {2}
  <2>1. l = 4 => s[4] # Dot
    BY <1>4, TokensDiffer
  <2>2. Occurs(s, Exclusive, 2)
    BY <1>1, <1>4
  <2> QED
    BY <1>1, <1>3, <2>1, <2>2, ExclusiveCut
<1>6. ParseRange(s, Inclusive, TRUE, checked) = Error
  <2> SUFFICES ASSUME ParseRange(s, Inclusive, TRUE, checked) # Error PROVE FALSE
    OBVIOUS
  <2>1. 2 + Len(Inclusive) \in 1 .. l
    BY RangeHas
  <2>2. 5 \in 1 .. l
    BY <2>1, Separators
  <2> HIDE DEF l
  <2> QED
    BY <1>3, <2>2
<1>7. ParseRange(s, Exclusive, FALSE, checked) = Error
  <2> SUFFICES ASSUME ParseRange(s, Exclusive, FALSE, checked) # Error PROVE FALSE
    OBVIOUS
  <2>1. 2 + Len(Exclusive) \in 1 .. l /\ \E b \in 0 .. Top : s[2 + Len(Exclusive)] = Num(b)
    BY RangeHas
  <2>2. 4 \in 1 .. l /\ \E b \in 0 .. Top : s[4] = Num(b)
    BY <2>1, Separators
  <2>3. l = 4
    <3> HIDE DEF l
    <3> QED
      BY <1>3, <2>2
  <2> QED
    BY <1>4, <2>2, <2>3, TokensDiffer
<1>8. Piece(s, Exclusive, 1) = <<Num(n)>>
  <2>1. 1 \in 0 .. l /\ 1 \in Nat \ {0} /\ (\A c \in Cuts(s, Exclusive) : c >= 1 => 1 < c)
        /\ 1 + 1 \in Cuts(s, Exclusive) /\ 1 + 1 >= 1
    BY <1>3, <1>5
  <2> QED
    BY <1>2, <2>1, PieceIs
<1>9. Piece(s, Exclusive, 4) \in {<<>>, <<Equals>>}
  <2>1. l \in 0 .. Len(s) /\ 4 \in Nat \ {0} /\ (\A c \in Cuts(s, Exclusive) : ~(c >= 4)) /\ l = Len(s)
    BY <1>3, <1>5
  <2>2. (l = 4 => Piece(s, Exclusive, 4) = <<s[4]>>) /\ (l < 4 => Piece(s, Exclusive, 4) = <<>>)
    BY <2>1, PieceIs
  <2> HIDE DEF l
  <2>3. l = 4 \/ l < 4
    BY <1>3
  <2> QED
    BY <1>4, <2>2, <2>3
<1>10. Kept(s, Exclusive) = {1}
  <2>1. Begins(s, Exclusive) = {1, 4}
    BY <1>5, Separators DEF Begins
  <2>2. <<Num(n)>> # <<>> /\ <<Num(n)>> # <<Equals>>
    BY TokensDiffer
  <2>3. Kept(s, Exclusive)
          = {i \in {1, 4} : Piece(s, Exclusive, i) \notin {<<>>, <<Equals>>}}
    BY <2>1 DEF Kept
  <2> QED
    BY <1>8, <1>9, <2>2, <2>3
<1>11. ParseFollowFrom(s) = FollowFrom(n)
  <2>1. IsNumber(Piece(s, Exclusive, 1))
    BY <1>8 DEF IsNumber
  <2>2. Min({1}) = 1
    BY DEF Min
  <2>3. s[1].v = n
    BY <1>2, TokensDiffer
  <2> QED
    BY <1>10, <2>1, <2>2, <2>3 DEF ParseFollowFrom, Exclusive
<1>12. s # <<Hash>>
  <2>1. <<Hash>>[1] = Hash
    OBVIOUS
  <2> QED
    BY <1>2, <2>1, TokensDiffer
<1>13. Cuts(s, Exclusive) # {}
  BY <1>5
<1> QED
  BY <1>2, <1>6, <1>7, <1>11, <1>12, <1>13 DEF NewInterval, Exclusive, Inclusive

-------------------------------------------------------------------------------
(* What else is parsed. *)

(* Every position of an argument is in a cut, or in the piece that begins  *)
(* after the last cut before it.                                           *)
LEMMA EveryToken ==
  ASSUME NEW s \in Seq(Token), NEW i \in 1 .. Len(s)
  PROVE  \/ s[i] = Dot
         \/ \E b \in Begins(s, Exclusive), e \in 0 .. Len(s) :
              /\ b \in 1 .. i /\ i <= e
              /\ Piece(s, Exclusive, b) = SubSeq(s, b, e)
<1> DEFINE cuts == Cuts(s, Exclusive)
<1>1. /\ cuts \in SUBSET (1 .. Len(s)) /\ Len(s) \in Nat
      /\ \A c \in cuts : s[c] = Dot /\ s[c + 1] = Dot
  BY CutIs
<1>2. Begins(s, Exclusive) = {1} \cup {c + 2 : c \in cuts}
  BY Separators DEF Begins
<1>3. ASSUME NEW b \in Begins(s, Exclusive), b \in 1 .. i,
             \A c \in cuts : c >= b => c > i
      PROVE  \E e \in 0 .. Len(s) : i <= e /\ Piece(s, Exclusive, b) = SubSeq(s, b, e)
  <2>1. PICK e \in 0 .. Len(s) : /\ Piece(s, Exclusive, b) = SubSeq(s, b, e)
                                 /\ e = Len(s) \/ (e + 1 \in cuts /\ e + 1 >= b)
    <3>1. b \in Nat \ {0}
      BY <1>3
    <3> HIDE DEF cuts
    <3> QED
      BY <3>1, PieceEnds DEF cuts
  <2>2. i <= e
    <3>1. CASE e = Len(s)
      BY <3>1
    <3>2. CASE e + 1 \in cuts /\ e + 1 >= b
      <4>1. e + 1 > i
        BY <1>3, <3>2
      <4> QED
        BY <4>1
    <3> QED
      BY <2>1, <3>1, <3>2
  <2> QED
    BY <2>1, <2>2
<1> HIDE DEF cuts
<1>4. CASE \A c \in cuts : c > i
  <2>1. 1 \in Begins(s, Exclusive) /\ 1 \in 1 .. i
    BY <1>2
  <2> QED
    BY <1>3, <1>4, <2>1
<1>5. CASE \E c \in cuts : ~(c > i)
  <2>1. PICK x \in cuts : x <= i
    BY <1>1, <1>5
  <2>2. PICK c \in cuts : c <= i /\ \A d \in cuts : d <= i => d <= c
    <3>1. cuts \in SUBSET Nat /\ i \in Nat
      BY <1>1
    <3> QED
      BY <2>1, <3>1, GreatestUpTo
  <2>3. c \in 1 .. Len(s)
    BY <1>1
  <2>4. CASE i = c \/ i = c + 1
    BY <1>1, <2>4
  <2>5. CASE c + 2 <= i
    <3>1. c + 2 \in Begins(s, Exclusive) /\ c + 2 \in 1 .. i
      BY <1>2, <2>3, <2>5
    <3>2. \A d \in cuts : d >= c + 2 => d > i
      <4> SUFFICES ASSUME NEW d \in cuts, d >= c + 2, ~(d > i) PROVE FALSE
        OBVIOUS
      <4>1. d \in 1 .. Len(s)
        BY <1>1
      <4>2. d <= c
        BY <2>2, <4>1
      <4> QED
        BY <2>3, <4>1, <4>2
    <3> QED
      BY <1>3, <3>1, <3>2
  <2>6. i = c \/ i = c + 1 \/ c + 2 <= i
    BY <2>2, <2>3
  <2> QED
    BY <2>4, <2>5, <2>6
<1> QED
  BY <1>4, <1>5

(* What is parsed as a follow-from has one number, and dots and "=" around *)
(* it.                                                                     *)
LEMMA FollowHas ==
  ASSUME NEW s \in Seq(Token), ParseFollowFrom(s) # Error
  PROVE  \E k \in 1 .. Len(s), n \in 0 .. Top :
           /\ ParseFollowFrom(s) = FollowFrom(n) /\ s[k] = Num(n)
           /\ \A j \in 1 .. Len(s) \ {k} : s[j] \in {Dot, Equals}
<1> DEFINE kept == Kept(s, Exclusive)
<1>1. /\ \E i \in kept : kept = {i} /\ IsNumber(Piece(s, Exclusive, i))
      /\ ParseFollowFrom(s) = FollowFrom(s[Min(kept)].v)
  BY DEF ParseFollowFrom, Exclusive
<1>2. PICK k \in kept : kept = {k} /\ IsNumber(Piece(s, Exclusive, k))
  BY <1>1
<1>3. PICK n \in 0 .. Top : Piece(s, Exclusive, k) = <<Num(n)>>
  BY <1>2 DEF IsNumber
<1>4. Begins(s, Exclusive) \in SUBSET (Nat \ {0})
  <2>1. Cuts(s, Exclusive) \in SUBSET (1 .. Len(s)) /\ Len(s) \in Nat
    BY CutIs
  <2>2. Begins(s, Exclusive) = {1} \cup {c + 2 : c \in Cuts(s, Exclusive)}
    BY Separators DEF Begins
  <2> QED
    BY <2>1, <2>2
<1>5. k \in Nat \ {0} /\ Num(n) \in Token
  BY <1>4 DEF Kept, Token
<1>6. k \in 1 .. Len(s) /\ s[k] = Num(n)
  BY <1>3, <1>5, OneTokenPiece
<1>7. Min(kept) = k
  BY <1>2, <1>5 DEF Min
<1>8. ParseFollowFrom(s) = FollowFrom(n)
  BY <1>1, <1>6, <1>7, TokensDiffer
<1>9. ASSUME NEW j \in 1 .. Len(s), j # k
      PROVE  s[j] \in {Dot, Equals}
  <2>1. CASE \E b \in Begins(s, Exclusive), e \in 0 .. Len(s) :
               /\ b \in 1 .. j /\ j <= e
               /\ Piece(s, Exclusive, b) = SubSeq(s, b, e)
    <3>1. PICK b \in Begins(s, Exclusive), e \in 0 .. Len(s) :
                 /\ b \in 1 .. j /\ j <= e
                 /\ Piece(s, Exclusive, b) = SubSeq(s, b, e)
      BY <2>1
    <3> DEFINE q == Piece(s, Exclusive, b)
    <3>2. /\ Len(q) = e - b + 1 /\ q[j - b + 1] = s[j]
          /\ b \in Nat \ {0} /\ e \in Nat /\ j - b + 1 \in Nat \ {0}
      <4>1. b \in Nat \ {0} /\ b <= e /\ j \in b .. e
        BY <3>1
      <4>2. Len(SubSeq(s, b, e)) = e - b + 1 /\ SubSeq(s, b, e)[j - b + 1] = s[j]
        BY <4>1, SubSeqIs
      <4> QED
        BY <3>1, <4>1, <4>2
    <3>3. CASE b = k
      <4>1. Len(q) = 1
        <5>1. q = <<Num(n)>>
          BY <1>3, <3>3
        <5> HIDE DEF q
        <5> QED
          BY <5>1
      <4> HIDE DEF q
      <4>2. j = b
        <5>1. \A x, y, z \in Nat : z - x + 1 = 1 /\ x <= y /\ y <= z => x = y
          OBVIOUS
        <5>2. e - b + 1 = 1
          BY <3>2, <4>1
        <5>3. b <= j /\ j <= e /\ j \in Nat
          BY <3>1
        <5> QED
          BY <3>2, <5>1, <5>2, <5>3
      <4> QED
        BY <1>9, <3>3, <4>2
    <3>4. CASE b # k
      <4>1. q \in {<<>>, <<Equals>>}
        BY <1>2, <3>4 DEF Kept
      <4> HIDE DEF q
      <4>2. Len(q) >= 1
        BY <3>1, <3>2
      <4>3. q = <<Equals>> /\ Len(q) = 1 /\ q[1] = Equals
        BY <4>1, <4>2
      <4>4. j - b + 1 = 1
        BY <3>1, <3>2, <4>3
      <4> QED
        BY <3>2, <4>3, <4>4
    <3> QED
      BY <3>3, <3>4
  <2>2. CASE s[j] = Dot
    BY <2>2
  <2> QED
    BY <2>1, <2>2, EveryToken
<1> QED
  BY <1>6, <1>8, <1>9

LEMMA SuccIs ==
  /\ Succ(Top) = 0
  /\ \A b \in 0 .. Top : b # Top => Succ(b) = b + 1 /\ Succ(b) \in 0 .. Top
<1> USE TopAssumption
<1>1. (Top + 1) % (Top + 1) = 0
  OBVIOUS
<1>2. ASSUME NEW b \in 0 .. Top, b # Top
      PROVE  (b + 1) % (Top + 1) = b + 1
  BY <1>2
<1> QED
  BY <1>1, <1>2 DEF Succ

(* What the parser makes of an argument that is in none of the documented  *)
(* forms.                                                                  *)
LEMMA OthersParsed ==
  ASSUME NEW s \in Seq(Token), NEW checked,
         ~IsNumber(s), ~IsExclusive(s), ~IsInclusive(s)
  PROVE  LET i == NewInterval(s, checked)
         IN \/ i \in {Error, HashInterval}
            \/ /\ i.kind = "follow"
               /\ \E k \in 1 .. Len(s) :
                    s[k] = Num(i.from) /\ \A j \in 1 .. Len(s) \ {k} : s[j] \in {Dot, Equals}
            \/ /\ i.kind \in {"range", "panic"}
               /\ \E c, d \in Cuts(s, Exclusive) : c # d
<1> DEFINE i == NewInterval(s, checked)
           inclusive == ParseRange(s, Inclusive, TRUE, checked)
           exclusive == ParseRange(s, Exclusive, FALSE, checked)
<1>1. i = IF s = <<Hash>> THEN HashInterval
          ELSE IF inclusive # Error THEN inclusive
          ELSE IF exclusive # Error THEN exclusive
          ELSE IF Cuts(s, Exclusive) # {} THEN ParseFollowFrom(s)
          ELSE IF IsNumber(s) THEN Single(s[1].v)
          ELSE Error
  BY DEF NewInterval, Exclusive, Inclusive
<1>2. CASE inclusive # Error
  <2>1. PICK a, b \in 0 .. Top :
           /\ s[1] = Num(a) /\ 2 \in Cuts(s, Inclusive)
           /\ 2 + Len(Inclusive) \in 1 .. Len(s) /\ s[2 + Len(Inclusive)] = Num(b)
           /\ 2 + Len(Inclusive) = Len(s) \/ 3 + Len(Inclusive) \in Cuts(s, Inclusive)
           /\ inclusive = IF TRUE THEN RangeToSucc(a, b, checked) ELSE RangeTo(a, b)
    BY <1>2, RangeHas
  <2>2. /\ 5 \in 1 .. Len(s) /\ s[5] = Num(b)
        /\ 5 = Len(s) \/ 6 \in Cuts(s, Inclusive)
    BY <2>1, Separators
  <2>3. Occurs(s, Inclusive, 2)
    BY <2>1, CutIs
  <2>4. Len(s) # 5
    <3>1. NumberAt(s, 1) /\ NumberAt(s, 5)
      BY <2>1, <2>2 DEF NumberAt
    <3> QED
      BY <2>3, <3>1 DEF IsInclusive
  <2>5. /\ 2 \in 1 .. Len(s) /\ s[2] = Dot /\ s[2 + 1] = Dot
        /\ 6 \in 1 .. Len(s) /\ 6 + 1 <= Len(s) /\ s[6] = Dot /\ s[6 + 1] = Dot
    BY <2>1, <2>2, <2>4, CutIs
  <2> DEFINE cuts == Cuts(s, Exclusive)
  <2>6. /\ cuts \in SUBSET (1 .. Len(s)) /\ Len(s) \in Nat
        /\ \A c \in cuts : s[c] = Dot /\ s[c + 1] = Dot
        /\ IsCut(cuts, s, Exclusive, 2) /\ IsCut(cuts, s, Exclusive, 6)
    BY <2>5, CutIs
  <2> HIDE DEF cuts
  <2>7. 2 \in cuts
    <3>1. 1 \notin cuts
      BY <2>1, <2>6, TokensDiffer
    <3>2. \A c \in cuts : ~(c < 2)
      BY <2>6, <3>1
    <3>3. 2 + 1 <= Len(s)
      BY <2>5
    <3>4. Occurs(s, Exclusive, 2)
      BY <2>5, <3>3, ExclusiveAt
    <3> QED
      BY <2>6, <3>2, <3>4 DEF IsCut
  <2>8. 6 \in cuts
    <3>1. 5 \notin cuts
      BY <2>2, <2>6, TokensDiffer
    <3>2. \A c \in cuts : c < 6 => c + Len(Exclusive) <= 6
      <4> SUFFICES ASSUME NEW c \in cuts, c < 6 PROVE c + 2 <= 6
        BY Separators
      <4>1. c \in 1 .. Len(s) /\ c # 5
        BY <2>6, <3>1
      <4> QED
        BY <4>1
    <3>3. Occurs(s, Exclusive, 6)
      BY <2>5, ExclusiveAt
    <3> QED
      BY <2>6, <3>2, <3>3 DEF IsCut
  <2>9. inclusive.kind \in {"range", "panic"}
    <3> HIDE DEF inclusive
    <3>1. inclusive = RangeToSucc(a, b, checked)
      BY <2>1
    <3> QED
      BY <3>1, RangeIsNoError
  <2>10. s # <<Hash>>
    <3>1. <<Hash>>[1] = Hash
      OBVIOUS
    <3> QED
      BY <2>1, <3>1, TokensDiffer
  <2>11. \E c, d \in cuts : c # d
    BY <2>7, <2>8
  <2> QED
    BY <1>1, <1>2, <2>9, <2>10, <2>11 DEF cuts
<1>3. CASE inclusive = Error /\ exclusive # Error
  <2>1. PICK a, b \in 0 .. Top :
           /\ s[1] = Num(a) /\ 2 \in Cuts(s, Exclusive)
           /\ 2 + Len(Exclusive) \in 1 .. Len(s) /\ s[2 + Len(Exclusive)] = Num(b)
           /\ 2 + Len(Exclusive) = Len(s) \/ 3 + Len(Exclusive) \in Cuts(s, Exclusive)
           /\ exclusive = IF FALSE THEN RangeToSucc(a, b, checked) ELSE RangeTo(a, b)
    BY <1>3, RangeHas
  <2>2. /\ 4 \in 1 .. Len(s) /\ s[4] = Num(b)
        /\ 4 = Len(s) \/ 5 \in Cuts(s, Exclusive)
    BY <2>1, Separators
  <2>3. Occurs(s, Exclusive, 2)
    BY <2>1, CutIs
  <2>4. Len(s) # 4
    <3>1. NumberAt(s, 1) /\ NumberAt(s, 4)
      BY <2>1, <2>2 DEF NumberAt
    <3> QED
      BY <2>3, <3>1 DEF IsExclusive
  <2>5. \E c, d \in Cuts(s, Exclusive) : c # d
    <3>1. 5 \in Cuts(s, Exclusive) /\ 2 \in Cuts(s, Exclusive) /\ 2 # 5
      BY <2>1, <2>2, <2>4
    <3> QED
      BY <3>1
  <2>6. exclusive.kind \in {"range", "panic"}
    <3> HIDE DEF exclusive
    <3>1. exclusive = RangeTo(a, b)
      BY <2>1
    <3> QED
      BY <3>1, RangeIsNoError
  <2>7. s # <<Hash>>
    <3>1. <<Hash>>[1] = Hash
      OBVIOUS
    <3> QED
      BY <2>1, <3>1, TokensDiffer
  <2> QED
    BY <1>1, <1>3, <2>5, <2>6, <2>7
<1>4. CASE s # <<Hash>> /\ inclusive = Error /\ exclusive = Error /\ Cuts(s, Exclusive) # {}
           /\ ParseFollowFrom(s) # Error
  <2>1. PICK k \in 1 .. Len(s), n \in 0 .. Top :
           /\ ParseFollowFrom(s) = FollowFrom(n) /\ s[k] = Num(n)
           /\ \A j \in 1 .. Len(s) \ {k} : s[j] \in {Dot, Equals}
    BY <1>4, FollowHas
  <2>2. i = FollowFrom(n)
    BY <1>1, <1>4, <2>1
  <2>3. FollowFrom(n).kind = "follow" /\ FollowFrom(n).from = n
    BY DEF FollowFrom
  <2> QED
    BY <2>1, <2>2, <2>3
<1>5. CASE \/ s = <<Hash>>
           \/ /\ inclusive = Error /\ exclusive = Error
              /\ Cuts(s, Exclusive) # {} => ParseFollowFrom(s) = Error
  <2>1. i \in {Error, HashInterval}
    BY <1>1, <1>5
  <2> QED
    BY <2>1
<1> QED
  BY <1>2, <1>3, <1>4, <1>5

-------------------------------------------------------------------------------
(* The blocks an interval names, of an argument that has an end. *)

LEMMA MembersAre ==
  ASSUME NEW s \in Seq(Token)
  PROVE  /\ Documented(s) = "single" => Members(s) = {s[1].v}
         /\ Documented(s) = "exclusive" => Members(s) = {n \in 0 .. Top : s[1].v <= n /\ n < s[4].v}
         /\ Documented(s) = "inclusive" => Members(s) = s[1].v .. s[5].v
  BY DEF Members

(* An end that is made exclusive names the end too, unless it does not     *)
(* fit.                                                                    *)
LEMMA SuccNames ==
  ASSUME NEW a \in 0 .. Top, NEW b \in 0 .. Top, NEW checked
  PROVE  LET i == RangeToSucc(a, b, checked)
         IN IF b = Top THEN i \in {Panic, RangeTo(a, 0)}
            ELSE i = RangeTo(a, b + 1) /\ Named(i) = a .. b
<1> USE TopAssumption
<1>1. CASE b = Top
  <2>1. RangeToSucc(a, b, checked) \in {Panic, RangeTo(a, Succ(b))}
    BY DEF RangeToSucc
  <2> QED
    BY <1>1, <2>1, SuccIs
<1>2. CASE b # Top
  <2> DEFINE i == RangeTo(a, b + 1)
  <2>1. RangeToSucc(a, b, checked) = i
    BY <1>2, SuccIs DEF RangeToSucc, Overflows
  <2>2. i.kind = "range" /\ i.from = a /\ i.to = b + 1
    BY DEF RangeTo
  <2> HIDE DEF i
  <2>3. Named(i) = {n \in 0 .. Top : a <= n /\ n < b + 1}
    BY <2>2 DEF Named
  <2>4. {n \in 0 .. Top : a <= n /\ n < b + 1} = a .. b
    BY <1>2
  <2> QED
    BY <1>2, <2>1, <2>3, <2>4 DEF i
<1> QED
  BY <1>1, <1>2

(* The parser's overlapping syntaxes (block_interval.rs:32-37): for every  *)
(* argument, of any length, and for every width of the numbers.            *)
THEOREM ParserAsDocumented ==
  ASSUME NEW s \in Seq(Token), NEW checked \in BOOLEAN
  PROVE  AsDocumented(s, NewInterval(s, checked), checked)
<1> USE TopAssumption
<1> DEFINE i == NewInterval(s, checked)
           form == Documented(s)
           stream == BoundedStream(i, checked)
           Bounded == IF Top \in Members(s)
                      THEN i = Panic \/ stream \in {Panic, RangeTo(s[1].v, 0)}
                      ELSE Named(stream) = Members(s)
<1>1. CASE IsNumber(s)
  <2>1. form = "single"
    BY <1>1, Forms
  <2>2. PICK n \in 0 .. Top : s[1] = Num(n) /\ i = Single(n)
    BY <1>1, SingleParsed
  <2>3. s[1].v = n /\ Members(s) = {n}
    BY <2>1, <2>2, TokensDiffer, MembersAre
  <2>4. stream = RangeToSucc(n, n, checked)
    <3>1. Single(n).kind = "single" /\ Single(n).from = n
      BY DEF Single
    <3> QED
      BY <2>2, <3>1 DEF BoundedStream
  <2>5. Bounded
    <3>1. CASE n = Top
      BY <2>3, <2>4, <3>1, SuccNames
    <3>2. CASE n # Top
      <4>1. Named(stream) = n .. n /\ n .. n = {n} /\ Top \notin {n}
        BY <2>4, <3>2, SuccNames
      <4> QED
        BY <2>3, <4>1
    <3> QED
      BY <3>1, <3>2
  <2> HIDE DEF i, stream
  <2> QED
    BY <2>1, <2>5 DEF AsDocumented, i, stream
<1>2. CASE ~IsNumber(s) /\ IsExclusive(s)
  <2>1. form = "exclusive"
    BY <1>2, Forms
  <2>2. PICK a, b \in 0 .. Top : s[1] = Num(a) /\ s[4] = Num(b) /\ i = RangeTo(a, b)
    BY <1>2, ExclusiveParsed
  <2>3. Members(s) = {n \in 0 .. Top : a <= n /\ n < b}
    BY <2>1, <2>2, TokensDiffer, MembersAre
  <2>4. stream = i /\ i.kind = "range" /\ i.from = a /\ i.to = b
    BY <2>2 DEF BoundedStream, RangeTo
  <2>5. Bounded
    <3>1. Named(i) = {n \in 0 .. Top : i.from <= n /\ n < i.to}
      BY <2>4 DEF Named
    <3>2. Top \notin Members(s)
      BY <2>3
    <3> HIDE DEF i, stream
    <3> QED
      BY <2>3, <2>4, <3>1, <3>2
  <2> HIDE DEF i, stream
  <2> QED
    BY <2>1, <2>5 DEF AsDocumented, i, stream
<1>3. CASE ~IsNumber(s) /\ ~IsExclusive(s) /\ IsInclusive(s)
  <2>1. form = "inclusive"
    BY <1>3, Forms
  <2>2. PICK a, b \in 0 .. Top : s[1] = Num(a) /\ s[5] = Num(b) /\ i = RangeToSucc(a, b, checked)
    BY <1>3, InclusiveParsed
  <2>3. s[1].v = a /\ Members(s) = a .. b
    BY <2>1, <2>2, TokensDiffer, MembersAre
  <2>4. Bounded
    <3>1. CASE b = Top
      <4>1. i \in {Panic, RangeTo(a, 0)}
        BY <2>2, <3>1, SuccNames
      <4>2. RangeTo(a, 0).kind = "range"
        BY DEF RangeTo
      <4>3. i = Panic \/ stream = RangeTo(a, 0)
        BY <4>1, <4>2 DEF BoundedStream
      <4>4. Top \in Members(s)
        BY <2>3, <3>1
      <4> HIDE DEF i, stream
      <4> QED
        BY <2>3, <4>3, <4>4
    <3>2. CASE b # Top
      <4>1. i = RangeTo(a, b + 1) /\ Named(i) = a .. b
        BY <2>2, <3>2, SuccNames
      <4>2. i.kind = "range"
        BY <4>1 DEF RangeTo
      <4>3. stream = i
        BY <4>2 DEF BoundedStream
      <4>4. Top \notin Members(s)
        BY <2>3, <3>2
      <4> HIDE DEF i, stream
      <4> QED
        BY <2>3, <4>1, <4>3, <4>4
    <3> QED
      BY <3>1, <3>2
  <2> HIDE DEF i, stream
  <2> QED
    BY <2>1, <2>4 DEF AsDocumented, i, stream
<1>4. CASE ~IsNumber(s) /\ ~IsExclusive(s) /\ ~IsInclusive(s) /\ IsFollow(s)
  <2>1. form = "follow"
    BY <1>4, Forms
  <2>2. PICK n \in 0 .. Top : s[1] = Num(n) /\ i = FollowFrom(n)
    BY <1>4, FollowParsed
  <2>3. i = FollowFrom(s[1].v)
    BY <2>2, TokensDiffer
  <2> HIDE DEF i
  <2> QED
    BY <2>1, <2>3 DEF AsDocumented, i
<1>5. CASE ~IsNumber(s) /\ ~IsExclusive(s) /\ ~IsInclusive(s) /\ ~IsFollow(s)
  <2>1. form = "none"
    BY <1>5, Forms
  <2>2. \/ i \in {Error, HashInterval}
        \/ /\ i.kind = "follow"
           /\ \E k \in 1 .. Len(s) :
                s[k] = Num(i.from) /\ \A j \in 1 .. Len(s) \ {k} : s[j] \in {Dot, Equals}
        \/ /\ i.kind \in {"range", "panic"}
           /\ \E c, d \in Cuts(s, Exclusive) : c # d
    BY <1>5, OthersParsed
  <2>3. DOMAIN s = 1 .. Len(s)
    OBVIOUS
  <2> HIDE DEF i
  <2> QED
    BY <2>1, <2>2, <2>3 DEF AsDocumented, Exclusive, i
<1> QED
  BY <1>1, <1>2, <1>3, <1>4, <1>5

(* What the parser returns for the tokens of an argument is an interval,   *)
(* an error or a panic, of numbers that fit.                               *)
LEMMA NewIntervalTyped ==
  ASSUME NEW s \in Seq(Token), NEW checked
  PROVE  Parsed(NewInterval(s, checked))
<1>1. Parsed(ParseFollowFrom(s))
  <2>1. ASSUME NEW n \in 0 .. Top PROVE Parsed(FollowFrom(n))
    BY TopAssumption DEF Parsed, FollowFrom, Interval
  <2>2. ParseFollowFrom(s) # Error => \E n \in 0 .. Top : ParseFollowFrom(s) = FollowFrom(n)
    BY FollowHas
  <2> QED
    BY <2>1, <2>2, ErrorParsed
<1>2. IsNumber(s) => Parsed(Single(s[1].v))
  <2>1. ASSUME NEW n \in 0 .. Top PROVE Parsed(Single(n))
    BY TopAssumption DEF Parsed, Single, Interval
  <2> QED
    BY <2>1, NumberTyped
<1> QED
  BY <1>1, <1>2, ParseRangeTyped, ErrorParsed DEF NewInterval

(* An argument of a documented form is no error. *)
LEMMA ErrorUndocumented ==
  ASSUME NEW s \in Seq(Token), NEW checked, NewInterval(s, checked) = Error
  PROVE  Documented(s) = "none"
<1>1. ~IsNumber(s)
  <2>1. \A n \in 0 .. Top : Single(n) # Error
    BY DEF Single, Error
  <2> QED
    BY <2>1, SingleParsed
<1>2. ~IsExclusive(s)
  BY ExclusiveParsed, RangeIsNoError
<1>3. ~IsInclusive(s)
  BY InclusiveParsed, RangeIsNoError
<1>4. ~IsFollow(s)
  <2>1. \A n \in 0 .. Top : FollowFrom(n) # Error
    BY DEF FollowFrom, Error
  <2> QED
    BY <2>1, FollowParsed
<1> QED
  BY <1>1, <1>2, <1>3, <1>4, Forms

(* An argument that overflows names the last number, as an inclusive end.  *)
LEMMA RangeOverflows ==
  ASSUME NEW s \in Seq(Token), NEW sep \in {Exclusive, Inclusive}, NEW inclusive \in BOOLEAN,
         NEW checked, ParseRange(s, sep, inclusive, checked) = Panic
  PROVE  inclusive /\ \E k \in 1 .. Len(s) : s[k] = Num(Top)
<1>1. ParseRange(s, sep, inclusive, checked) # Error
  BY RangeIsNoError
<1>2. PICK a, b \in 0 .. Top :
        /\ 2 + Len(sep) \in 1 .. Len(s) /\ s[2 + Len(sep)] = Num(b)
        /\ ParseRange(s, sep, inclusive, checked)
             = IF inclusive THEN RangeToSucc(a, b, checked) ELSE RangeTo(a, b)
  BY <1>1, RangeHas
<1>3. RangeTo(a, b) # Panic /\ (RangeToSucc(a, b, checked) = Panic => b = Top)
  BY DEF RangeTo, RangeToSucc, Panic, Overflows
<1> QED
  BY <1>2, <1>3

LEMMA PanicAtTop ==
  ASSUME NEW s \in Seq(Token), NEW checked, NewInterval(s, checked) = Panic
  PROVE  \E k \in 1 .. Len(s) : s[k] = Num(Top)
<1>1. /\ HashInterval # Panic /\ Error # Panic
      /\ \A n : Single(n) # Panic /\ FollowFrom(n) # Panic
  BY DEF HashInterval, Error, Panic, Single, FollowFrom
<1>2. ParseFollowFrom(s) # Panic
  BY <1>1, FollowHas
<1>3. \/ ParseRange(s, Inclusive, TRUE, checked) = Panic
      \/ ParseRange(s, Exclusive, FALSE, checked) = Panic
  BY <1>1, <1>2 DEF NewInterval, Exclusive, Inclusive
<1> QED
  BY <1>3, RangeOverflows

=============================================================================
