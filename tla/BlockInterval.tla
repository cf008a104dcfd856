---------------------------- MODULE BlockInterval ----------------------------
(***************************************************************************)
(* Block intervals as the command line gives them                          *)
(* (common/src/block_interval.rs, common/src/parsing.rs): the parser over  *)
(* the tokens of its argument, and the numbers an interval stands for.     *)
(*                                                                         *)
(* Numbers are u64 with the largest value Top.  A build with overflow      *)
(* checks (`checked') panics where one without them wraps around.          *)
(*                                                                         *)
(* An operator Mut_X is a mistake that X could contain.                    *)
(***************************************************************************)
EXTENDS Naturals, Sequences, SequencesExt

CONSTANT Top  \* u64::MAX

ASSUME TopAssumption == Top \in Nat

(***************************************************************************)
(* An argument is a sequence of tokens: number literals, "." , "=", a      *)
(* literal block hash, and anything else, numbers that do not fit into a   *)
(* u64 included.  Two numbers are never neighbours.                        *)
(***************************************************************************)
Num(n)  == [t |-> "num", v |-> n]
Dot     == [t |-> ".", v |-> 0]
Equals  == [t |-> "=", v |-> 0]
Hash    == [t |-> "hash", v |-> 0]
Other   == [t |-> "other", v |-> 0]
Token   == {Num(n) : n \in 0 .. Top} \cup {Dot, Equals, Hash, Other}

(* What BlockInterval::new returns: an interval, an error or a panic. *)
Interval == [kind : {"hash", "single", "range", "follow", "error", "panic"},
             from : 0 .. Top, to : 0 .. Top]
Single(n)     == [kind |-> "single", from |-> n, to |-> 0]
HashInterval  == [kind |-> "hash", from |-> 0, to |-> 0]
FollowFrom(n) == [kind |-> "follow", from |-> n, to |-> 0]
Error         == [kind |-> "error", from |-> 0, to |-> 0]
Panic         == [kind |-> "panic", from |-> 0, to |-> 0]
RangeTo(a, b) == [kind |-> "range", from |-> a, to |-> b]

(* a .. (b + 1) and (a - 1): u64 arithmetic. *)
Overflows(b) == b = Top
Succ(b)      == (b + 1) % (Top + 1)
Pred(a)      == IF a = 0 THEN Top ELSE a - 1

RangeToSucc(a, b, checked) ==
  IF Overflows(b) /\ checked THEN Panic ELSE RangeTo(a, Succ(b))

-------------------------------------------------------------------------------
(* str::split: the leftmost occurrences of sep that do not overlap, and    *)
(* the pieces that begin where the argument or one of them has ended.      *)

Occurs(s, sep, i) ==
  i + Len(sep) - 1 <= Len(s) /\ SubSeq(s, i, i + Len(sep) - 1) = sep

Cuts(s, sep) ==
  CHOOSE cuts \in SUBSET (1 .. Len(s)) :
    \A i \in 1 .. Len(s) :
      i \in cuts <=> Occurs(s, sep, i) /\ \A j \in cuts : j < i => j + Len(sep) <= i

Begins(s, sep) == {1} \cup {i + Len(sep) : i \in Cuts(s, sep)}

Piece(s, sep, i) ==
  LET ends == {j \in Cuts(s, sep) : j >= i}
  IN SubSeq(s, i, IF ends = {} THEN Len(s) ELSE Min(ends) - 1)

(* A piece that parses as a number. *)
IsNumber(p) == p \in {<<Num(n)>> : n \in 0 .. Top}

(* parse_range_gen looks at the first two pieces. *)
Lhs(s, sep) == Piece(s, sep, 1)
Rhs(s, sep) == Piece(s, sep, Min(Cuts(s, sep)) + Len(sep))

Mut_ParseRange(s, sep, inclusive, checked) ==
  IF Cuts(s, sep) = {} THEN Error
  ELSE IF ~IsNumber(Lhs(s, sep)) \/ ~IsNumber(Rhs(s, sep)) THEN Error
  ELSE RangeTo(Lhs(s, sep)[1].v, Rhs(s, sep)[1].v)

ParseRange(s, sep, inclusive, checked) ==
  IF Cuts(s, sep) = {} THEN Error
  ELSE IF ~IsNumber(Lhs(s, sep)) \/ ~IsNumber(Rhs(s, sep)) THEN Error
  ELSE IF inclusive THEN RangeToSucc(Lhs(s, sep)[1].v, Rhs(s, sep)[1].v, checked)
  ELSE RangeTo(Lhs(s, sep)[1].v, Rhs(s, sep)[1].v)

(* The follow-from form: one number, and pieces that are empty or "=". *)
Kept(s, sep) == {i \in Begins(s, sep) : Piece(s, sep, i) \notin {<<>>, <<Equals>>}}

ParseFollowFrom(s) ==
  LET kept == Kept(s, <<Dot, Dot>>)
  IN IF \E i \in kept : kept = {i} /\ IsNumber(Piece(s, <<Dot, Dot>>, i))
     THEN FollowFrom(s[Min(kept)].v) ELSE Error

(* BlockInterval::new: the inclusive range is tried before the exclusive   *)
(* one, since the separators start alike.                                  *)
NewInterval(s, checked) ==
  LET inclusive == ParseRange(s, <<Dot, Dot, Equals>>, TRUE, checked)
      exclusive == ParseRange(s, <<Dot, Dot>>, FALSE, checked)
  IN IF s = <<Hash>> THEN HashInterval
     ELSE IF inclusive # Error THEN inclusive
     ELSE IF exclusive # Error THEN exclusive
     ELSE IF Cuts(s, <<Dot, Dot>>) # {} THEN ParseFollowFrom(s)
     ELSE IF IsNumber(s) THEN Single(s[1].v)
     ELSE Error

(* into_bounded_stream: the half-open range of numbers that is streamed,   *)
(* an error for the intervals that have none.                              *)
BoundedStream(i, checked) ==
  CASE i.kind = "single" -> RangeToSucc(i.from, i.from, checked)
    [] i.kind = "range"  -> i
    [] i.kind \in {"hash", "follow"} -> Error

-------------------------------------------------------------------------------
(* The numbers a bounded interval names. *)
Named(i) ==
  CASE i.kind = "single" -> {i.from}
    [] i.kind = "range"  -> {n \in 0 .. Top : i.from <= n /\ n < i.to}
    [] OTHER             -> {}

(* The documented grammar (block_interval.rs:32-37), as a reference: the   *)
(* blocks an argument names.                                               *)

Documented(s) ==
  CASE IsNumber(s) -> "single"
    [] /\ Len(s) = 4 /\ SubSeq(s, 2, 3) = <<Dot, Dot>>
       /\ IsNumber(<<s[1]>>) /\ IsNumber(<<s[4]>>) -> "exclusive"
    [] /\ Len(s) = 5 /\ SubSeq(s, 2, 4) = <<Dot, Dot, Equals>>
       /\ IsNumber(<<s[1]>>) /\ IsNumber(<<s[5]>>) -> "inclusive"
    [] /\ Len(s) >= 3 /\ IsNumber(<<s[1]>>)
       /\ Tail(s) \in {<<Dot, Dot>>, <<Dot, Dot, Equals>>} -> "follow"
    [] OTHER -> "none"

(* The members of a documented interval that has an end. *)
Members(s) ==
  CASE Documented(s) = "single"    -> {s[1].v}
    [] Documented(s) = "exclusive" -> {n \in 0 .. Top : s[1].v <= n /\ n < s[4].v}
    [] Documented(s) = "inclusive" -> s[1].v .. s[5].v

(* What an argument was parsed into is what is documented: the interval of *)
(* its numbers, unless its end does not fit when it is made exclusive; and *)
(* what is accepted beyond the documented forms is a follow-from with      *)
(* surplus separators, a range with surplus pieces, or a block hash.       *)
AsDocumented(s, i, checked) ==
  IF Documented(s) = "none"
  THEN \/ i \in {Error, HashInterval}
       \/ /\ i.kind = "follow"
          /\ \E k \in DOMAIN s :
               s[k] = Num(i.from) /\ \A j \in DOMAIN s \ {k} : s[j] \in {Dot, Equals}
       \/ /\ i.kind \in {"range", "panic"}
          /\ \E c, d \in Cuts(s, <<Dot, Dot>>) : c # d
  ELSE IF Documented(s) = "follow" THEN i = FollowFrom(s[1].v)
  ELSE IF Top \in Members(s)
       THEN i = Panic \/ BoundedStream(i, checked) \in {Panic, RangeTo(s[1].v, 0)}
       ELSE Named(BoundedStream(i, checked)) = Members(s)

===============================================================================
