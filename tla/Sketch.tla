------------------------------- MODULE Sketch -------------------------------
(***************************************************************************)
(* core/hll.py: HyperLogLog sketches, as a precision and its registers.    *)
(*                                                                         *)
(* A value is its hash, HashBits bits wide (64 in the code, where no rank  *)
(* reaches the cap of 255).  The first bits of the hash choose a register, *)
(* which keeps the longest run of leading zeros seen in the others.        *)
(***************************************************************************)
EXTENDS Integers, FiniteSets, FiniteSetsExt

CONSTANT HashBits

ASSUME HashBitsAssumption == HashBits \in Nat \ {0}

Hash == 0 .. 2^HashBits - 1
Precision == 1 .. HashBits     (* 4..16 of 64 in the code *)

Larger(a, b) == IF a >= b THEN a ELSE b

Empty(p) == [precision |-> p, registers |-> [i \in 0 .. 2^p - 1 |-> 0]]

Index(p, h) == h \div 2^(HashBits - p)

BitLength(n) == Cardinality({k \in 0 .. HashBits - 1 : 2^k <= n})

Rank(p, h) == (HashBits - p) - BitLength(h % 2^(HashBits - p)) + 1

Add(s, h) ==
    [s EXCEPT !.registers[Index(s.precision, h)] =
        Larger(@, Rank(s.precision, h))]

(* The sketch of a batch: empty, then one value after the other.           *)
AddAll(p, H) == FoldSet(LAMBDA h, s : Add(s, h), Empty(p), H)

(* merge() raises for sketches of two precisions.                          *)
Mergeable(a, b) == a.precision = b.precision

Merge(a, b) ==
    [a EXCEPT !.registers =
        [i \in DOMAIN @ |-> Larger(@[i], b.registers[i])]]

(* The number the code returns is floating-point arithmetic.  While few    *)
(* registers are used it grows with the number of those in use, and it is  *)
(* zero only when none is; that number stands for it.                      *)
Estimate(s) ==
    Cardinality({i \in DOMAIN s.registers : s.registers[i] > 0})

(* What a sketch is meant to be: in each register the largest rank of the  *)
(* values that fall into it, whatever their order and number.              *)
Of(p, H) ==
    [precision |-> p,
     registers |-> [i \in 0 .. 2^p - 1 |->
        Max({0} \cup {Rank(p, h) : h \in {x \in H : Index(p, x) = i}})]]
=============================================================================
