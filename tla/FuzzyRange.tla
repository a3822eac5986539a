----------------------------- MODULE FuzzyRange -----------------------------
(***************************************************************************)
(* Uncertain intervals (time/range.rs): the start lies between es and ls,   *)
(* the end between ee and le.                                               *)
(***************************************************************************)
EXTENDS Ticks

Range4(es, ls, ee, le) == [es |-> es, ls |-> ls, ee |-> ee, le |-> le]

\* normalized: swaps what is in the wrong order; then no start after the last end, and no
\* end before the first start.
Normalized(r) ==
  LET es == Smaller(r.es, r.ls)
      le == Larger(r.ee, r.le)
  IN  Range4(es, Smaller(Larger(r.es, r.ls), le), Larger(Smaller(r.ee, r.le), es), le)

Exact(s, e) == Normalized(Range4(s, s, e, e))

Within(a, b) == Normalized(Range4(a, b, a, b))

UnknownRange == Within(NegInf, PosInf)

PossiblyOverlaps(r, qs, qe) == r.es < qe /\ r.le > qs


CertainlyOverlaps(r, qs, qe) == r.ls < qe /\ r.ee > qs

CertainlyWithin(r, qs, qe) == r.es >= qs /\ r.le <= qe

CertainlyBefore(r, t) == r.le <= t

\* shift: moves it by something between the two distances.
Shift(r, least, most) ==
  Normalized(Range4(Offset(r.es, least), Offset(r.ls, most), Offset(r.ee, least), Offset(r.le, most)))

Widen(r, fuzz) == Shift(r, -fuzz, fuzz)

\* The width of the possible span; none if it is infinite.
NoWidth == -1
Width(r) == IF Finite(r.es) /\ Finite(r.le) THEN Saturated(r.le - r.es) ELSE NoWidth

-----------------------------------------------------------------------------
(* What a range means: the intervals it may stand for.  Infinite bounds are *)
(* replaced by a horizon beyond everything else that is looked at.          *)

Intervals(r, horizon) ==
  LET least(t) == IF t = NegInf THEN -horizon ELSE IF t = PosInf THEN horizon ELSE t
  IN  {i \in [s : least(r.es)..least(r.ls), e : least(r.ee)..least(r.le)] : i.s < i.e}

Overlap(i, qs, qe) == i.s < qe /\ i.e > qs
=============================================================================
