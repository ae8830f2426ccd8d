----------------------------- MODULE Arithmetic -----------------------------
(***************************************************************************)
(* The numbers of Mons, which both backends compute with C's operators.     *)
(***************************************************************************)
EXTENDS Integers

Abs(i) == IF i < 0 THEN -i ELSE i

\* C division truncates; r # 0.
Quotient(l, r) ==
    IF (l < 0) = (r < 0) THEN Abs(l) \div Abs(r) ELSE -(Abs(l) \div Abs(r))

Compute(fn, l, r) ==
    CASE fn = "add" -> l + r
      [] fn = "sub" -> l - r
      [] fn = "mul" -> l * r
      [] fn = "div" -> Quotient(l, r)
      [] fn = "mod" -> l - r * Quotient(l, r)
      [] OTHER -> 0

Ordered(fn, l, r) ==
    \/ fn = "lt" /\ l < r
    \/ fn = "gt" /\ l > r
    \/ fn = "lte" /\ l <= r
    \/ fn = "gte" /\ l >= r

=============================================================================
