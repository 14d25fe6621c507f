----------------------------- MODULE Fractions ------------------------------
(* Fractions <<n, d>> with d > 0, and the roundings of Python's decimal    *)
(* module that the program asks for. Rounding down is \div. And numbers in *)
(* order.                                                                  *)
EXTENDS Integers, SequencesExt

CeilDiv(n, d) == -((-n) \div d)
Half(n, d) == (2 * n + d) \div (2 * d)
HalfEven(n, d) ==
    IF 2 * (n % d) = d THEN (n \div d) + ((n \div d) % 2) ELSE Half(n, d)

Times(a, b) == <<a[1] * b[1], a[2] * b[2]>>
Added(a, b) == <<a[1] * b[2] + b[1] * a[2], a[2] * b[2]>>
NotBelow(a, b) == a[1] * b[2] >= b[1] * a[2]

\* The product of some of a function's values.
ProductOf(ratios, some) == FoldFunctionOnSet(Times, <<1, 1>>, ratios, some)

InOrder(numbers) == MapThenFoldSet(\o, <<>>, LAMBDA n : <<n>>, Min, numbers)
=============================================================================
