-------------------------------- MODULE Sums --------------------------------
(* Sums and products over finite sets, as recursive functions.               *)
EXTENDS Integers

\* The sum of the values of a function.
SumOf(w) ==
    LET sum[R \in SUBSET DOMAIN w] ==
          IF R = {} THEN 0 ELSE LET x == CHOOSE x \in R : TRUE IN w[x] + sum[R \ {x}]
    IN sum[DOMAIN w]

SumOver(S, f(_)) == SumOf([x \in S |-> f(x)])

\* The product of the values of a function.
ProductOf(w) ==
    LET product[R \in SUBSET DOMAIN w] ==
          IF R = {} THEN 1 ELSE LET x == CHOOSE x \in R : TRUE IN w[x] * product[R \ {x}]
    IN product[DOMAIN w]

ProductOver(S, f(_)) == ProductOf([x \in S |-> f(x)])
=============================================================================
