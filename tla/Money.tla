-------------------------------- MODULE Money --------------------------------
(* Arithmetic on cents: the roundings of pricing.py and money.py, and the    *)
(* split of an amount among weights.                                         *)
EXTENDS Integers, Sequences

\* _techo: costs are rounded up.
Ceil(n, d) == -((-n) \div d)

\* ROUND_HALF_UP of a quotient that is not negative.
HalfUp(n, d) == (2 * n + d) \div (2 * d)

Total(w) == w[1] + w[2] + w[3]

\* What part i of the amount leaves over when its share is rounded down.
Residue(amount, w, i) == (amount * w[i]) % Total(w)

Floor(amount, w, i) == (amount * w[i]) \div Total(w)

\* The cents that are still to be given out.
Left(amount, w) == amount - (Floor(amount, w, 1) + Floor(amount, w, 2) + Floor(amount, w, 3))

\* Part j is given a cent before part i: sorted by residue, the largest first,
\* and the sort is stable.
Precedes(amount, w, j, i) ==
  \/ Residue(amount, w, j) > Residue(amount, w, i)
  \/ Residue(amount, w, j) = Residue(amount, w, i) /\ j < i

Rank(amount, w, i) ==
  LET before(j) == IF Precedes(amount, w, j, i) THEN 1 ELSE 0 IN before(1) + before(2) + before(3)

\* Mutant: the cents that are left over go to nobody.
Mutant_FloorsOnly(amount, w) == [i \in 1 .. 3 |-> Floor(amount, w, i)]
\* allocate among store, platform and provider, for an amount that is not
\* negative: fewer cents are left than there are parts.
Allocate(amount, w) ==
  [i \in 1 .. 3 |->
     Floor(amount, w, i) + IF Rank(amount, w, i) < Left(amount, w) THEN 1 ELSE 0]
==============================================================================
