----------------------------- MODULE Fractions -----------------------------
(* Exact fractions, and polynomials of degree 3 at most with such            *)
(* coefficients: the numbers with which Cycle follows a time integrator. A    *)
(* fraction is <<numerator, denominator>> in lowest terms.                    *)
EXTENDS Integers

\* The least denominator of n/d: by it, and by no less, n/d is whole.
Lowest(n, d) ==
    CHOOSE m \in 1..d : (m * n) % d = 0 /\ \A k \in 1..(m - 1) : (k * n) % d # 0

Frac(n, d) == <<(Lowest(n, d) * n) \div d, Lowest(n, d)>>

Whole(n) == <<n, 1>>

p (+) q == Frac(p[1] * q[2] + q[1] * p[2], p[2] * q[2])

p (-) q == Frac(p[1] * q[2] - q[1] * p[2], p[2] * q[2])

p (.) q == Frac(p[1] * q[1], p[2] * q[2])

\* p divided by q > 0.
p (/) q == Frac(p[1] * q[2], p[2] * q[1])

Degrees == 0..3

Constant(p) == [d \in Degrees |-> IF d = 0 THEN p ELSE Whole(0)]

Unit == Constant(Whole(1))

Nil == Constant(Whole(0))

Sum2(f, g) == [d \in Degrees |-> f[d] (+) g[d]]

Scale(p, f) == [d \in Degrees |-> p (.) f[d]]

\* f times the variable, without what exceeds degree n.
Raise(f, n) ==
    [d \in Degrees |-> IF d = 0 \/ d > n THEN Whole(0) ELSE f[d - 1]]

Exponential == [d \in Degrees |-> <<Whole(1), Whole(1), <<1, 2>>, <<1, 6>>>>[d + 1]]
=============================================================================
