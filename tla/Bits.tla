-------------------------------- MODULE Bits --------------------------------
(***************************************************************************)
(* AND, OR and XOR of two words of n bits.  The operators & | ^^ of module *)
(* Bitwise compute the same, but are recursive: no proof could be made     *)
(* about a module that uses them.                                          *)
(***************************************************************************)
EXTENDS Integers

BitOf(x, i) == (x \div 2^i) % 2

\* The sum of the n numbers term[0], ..., term[n - 1].
Total(n, term) ==
    LET sum[k \in 0 .. n] == IF k = 0 THEN 0 ELSE sum[k - 1] + term[k - 1]
    IN  sum[n]

BitByBit(n, f(_, _), x, y) ==
    Total(n, [i \in 0 .. n - 1 |-> f(BitOf(x, i), BitOf(y, i)) * 2^i])

And(n, x, y) == BitByBit(n, LAMBDA p, q : p * q, x, y)
Or(n, x, y) == BitByBit(n, LAMBDA p, q : p + q - p * q, x, y)
ExclusiveOr(n, x, y) == BitByBit(n, LAMBDA p, q : (p + q) % 2, x, y)
=============================================================================
