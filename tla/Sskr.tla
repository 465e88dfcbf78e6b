--------------------------------- MODULE Sskr ---------------------------------
(***************************************************************************)
(* Sharing a key over GF(2^Width): any T of N shards give it back          *)
(* (sskr.util.ts).  The bytes of a key are shared one by one and alike, so *)
(* a key is one element of the field; the program's field has Width 8 and  *)
(* Poly 285.  A shard whose checksum is wrong is refused, so the shards    *)
(* that are typed are shards that were printed.                            *)
(***************************************************************************)
EXTENDS Integers, Sequences, FiniteSets, FiniteSetsExt, Folds, Bitwise

CONSTANTS Width, Poly

ASSUME FieldAssumption == Width \in Nat \ {0, 1} /\ Poly \in 2 ^ Width + 1 .. 2 ^ (Width + 1) - 1

Order == 2 ^ Width - 1
Bytes == 0 .. Order
NoSecret == -1

\* The powers of 2, and their exponents.
EXP[i \in 0 .. Order - 1] ==
    IF i = 0 THEN 1
    ELSE LET x == 2 * EXP[i - 1] IN IF x > Order THEN x ^^ Poly ELSE x
LOG == [x \in 1 .. Order |-> CHOOSE i \in 0 .. Order - 1 : EXP[i] = x]

gfMul(a, b) == IF 0 \in {a, b} THEN 0 ELSE EXP[(LOG[a] + LOG[b]) % Order]
gfDiv(a, b) == IF a = 0 THEN 0 ELSE EXP[(LOG[a] - LOG[b] + Order) % Order]

\* Horner's rule, from the last coefficient.
polyEval(coeffs, x) ==
    LET n == Len(coeffs)
        r[i \in 1 .. n + 1] == IF i > n THEN 0 ELSE gfMul(r[i + 1], x) ^^ coeffs[i]
    IN  r[1]

Shard == [threshold : 2 .. Order, total : 2 .. Order, index : Bytes, data : Bytes]

\* coins are the random coefficients.
ShardsOf(secret, coins, total, first) ==
    {[threshold |-> Len(coins) + 1, total |-> total, index |-> i,
      data |-> polyEval(<<secret>> \o coins, i)] : i \in first .. first + total - 1}

\* Mutant: the first shard is the value at 0.
splitKey0(secret, coins, total) == ShardsOf(secret, coins, total, 0)
splitKey(secret, coins, total) == ShardsOf(secret, coins, total, 1)

\* The value at 0 of the polynomial through the shards, each at its index.
Fold(op(_, _), base, f(_), S) == MapThenFoldSet(op, base, f, LAMBDA T : CHOOSE x \in T : TRUE, S)
Add(a, b) == a ^^ b

shamirCombine(used) ==
    LET Weight(i) == LET rest == DOMAIN used \ {i} IN
            gfDiv(Fold(gfMul, 1, LAMBDA j : used[j].index, rest),
                  Fold(gfMul, 1, LAMBDA j : used[i].index ^^ used[j].index, rest))
    IN  Fold(Add, 0, LAMBDA i : gfMul(used[i].data, Weight(i)), DOMAIN used)

\* The shards are of one kind, enough and different; the first of them are used.
combineShards(shards) ==
    LET t == shards[1].threshold IN
    IF /\ \A i \in DOMAIN shards : /\ shards[i].threshold = t
                                   /\ shards[i].total = shards[1].total
       /\ Len(shards) >= t
       /\ Cardinality({shards[i].index : i \in DOMAIN shards}) = Len(shards)
    THEN shamirCombine(SubSeq(shards, 1, t))
    ELSE NoSecret
===============================================================================
