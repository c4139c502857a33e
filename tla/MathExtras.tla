----------------------------- MODULE MathExtras -----------------------------
(***************************************************************************)
(* The bit tricks of llvm-MathExtras.h, which the hash tables size and     *)
(* probe their buckets with.  A function of 32 bits and its twin of 64 are *)
(* one operator of a width w, which is HalfWidth or Width here; unsigned   *)
(* numbers are kept below 2^w by Wrap, signed ones are integers.  Each is  *)
(* checked against what its comment promises.                              *)
(***************************************************************************)
EXTENDS Integers, Sequences, FiniteSets, FiniteSetsExt

CONSTANTS
    Width,          \* of uint64_t; a power of two
    Words,          \* the words tried: among 0 .. 2^Width - 1
    Operands        \* the second operands

VARIABLE word

HalfWidth == Width \div 2
Wrap(n, w) == n % 2^w
Ones(n) == {i \in 0 .. Width - 1 : (n \div 2^i) % 2 = 1}
And(a, b) == SumSet({2^i : i \in Ones(a) \cap Ones(b)})
Or(a, b) == SumSet({2^i : i \in Ones(a) \cup Ones(b)})
Not(a, w) == 2^w - 1 - a
Signed(n, w) == IF n >= 2^(w - 1) THEN n - 2^w ELSE n

----------------------------------------------------------------------------
(* What fits.                                                              *)
Hi(n) == n \div 2^HalfWidth
Lo(n) == Wrap(n, HalfWidth)

isInt(n, x) == n >= Width \/ (-(2^(n - 1)) <= x /\ x < 2^(n - 1))
isIntCast(n, x) == Signed(Wrap(x, n), n) = x            \* the special cases
isShiftedInt(n, s, x) == isInt(n + s, x) /\ x % 2^s = 0
isUInt(n, x) == n >= Width \/ x < 2^n
isUIntCast(n, x) == Wrap(x, n) = x
isShiftedUInt(n, s, x) == isUInt(n + s, x) /\ x % 2^s = 0
isUIntN(n, x) == x = And(x, (2^Width - 1) \div 2^(Width - n))

(* Masks and powers.                                                       *)
isMask(x, w) == x # 0 /\ And(Wrap(x + 1, w), x) = 0
isShiftedMask(x, w) == isMask(Or(Wrap(x - 1, w), x), w)
isPowerOf2(x, w) == x # 0 /\ And(x, Wrap(x - 1, w)) = 0

(* Counting zeros: by bisection, by halves, and by a table of the          *)
(* remainders of the powers of two.                                        *)
CountLeadingZeros_32(x, w) ==
    LET bisect[shift \in 0 .. w, value \in 0 .. x] ==
            IF shift = 0 THEN 0
            ELSE IF value \div 2^shift # 0 THEN bisect[shift \div 2, value \div 2^shift]
            ELSE shift + bisect[shift \div 2, value]
    IN IF x = 0 THEN w ELSE bisect[w \div 2, x]
CountLeadingZeros_64(x) ==
    IF Hi(x) # 0 THEN CountLeadingZeros_32(Hi(x), HalfWidth)
    ELSE CountLeadingZeros_32(Lo(x), HalfWidth) + HalfWidth
CountLeadingZeros(x, w) == IF w = Width THEN CountLeadingZeros_64(x) ELSE CountLeadingZeros_32(x, w)
CountLeadingOnes(x, w) == CountLeadingZeros(Not(x, w), w)

Mod37BitPosition == <<
    32, 0, 1, 26, 2, 23, 27, 0, 3, 16, 24, 30, 28, 11, 0, 13,
    4, 7, 17, 0, 25, 22, 31, 15, 29, 10, 12, 6, 0, 21, 14, 9,
    5, 20, 8, 19, 18 >>
Mod67Position == <<
    64, 0, 1, 39, 2, 15, 40, 23, 3, 12, 16, 59, 41, 19, 24, 54,
    4, 64, 13, 10, 17, 62, 60, 28, 42, 30, 20, 51, 25, 44, 55,
    47, 5, 32, 65, 38, 14, 22, 11, 58, 18, 53, 63, 9, 61, 27,
    29, 50, 43, 46, 31, 37, 21, 57, 52, 8, 26, 49, 45, 36, 56,
    7, 48, 35, 6, 34, 33, 0 >>
LowestBit(x, w) == And(Wrap(-x, w), x)
TableCount(table, size, x, w) == table[(LowestBit(x, w) % size) + 1]
CountTrailingZeros_32(x, w) == IF x = 0 THEN w ELSE TableCount(Mod37BitPosition, 37, x, w)
CountTrailingZeros_64(x) == IF x = 0 THEN Width ELSE TableCount(Mod67Position, 67, x, Width)
CountTrailingZeros(x, w) == IF w = Width THEN CountTrailingZeros_64(x) ELSE CountTrailingZeros_32(x, w)
CountTrailingOnes(x, w) == CountTrailingZeros(Not(x, w), w)

(* Counting ones, in pairs, fours and eights of bits, summed by a product. *)
Repeated(pattern, period, w) == SumSet({pattern * 2^i : i \in {j \in 0 .. w - 1 : j % period = 0}})
CountPopulation(x, w) ==
    LET pairs == Wrap(x - And(x \div 2, Repeated(1, 2, w)), w)
        fours == And(pairs, Repeated(3, 4, w)) + And(pairs \div 4, Repeated(3, 4, w))
        eights == And(fours + fours \div 16, Repeated(15, 8, w))
    IN Wrap(eights * Repeated(1, 8, w), w) \div 2^(w - 8)

Log2(x, w) == w - 1 - CountLeadingZeros(x, w)
Log2_Ceil(x, w) == w - CountLeadingZeros(Wrap(x - 1, w), w)

(* Divisors, alignment, the next power of two, signs.                      *)
GreatestCommonDivisor(a, b) ==
    LET euclid[m \in 0 .. 2^Width, n \in 0 .. 2^Width] == IF n = 0 THEN m ELSE euclid[n, m % n]
    IN euclid[a, b]
MinAlign(a, b) == LowestBit(Or(a, b), Width)

NextPowerOf2_HalfFilled(a, w) ==
    LET fill[n \in 1 .. w, x \in 0 .. 2^w - 1] ==
            IF n >= w \div 2 THEN x ELSE fill[2 * n, Or(x, x \div 2^n)]
    IN Wrap(fill[1, a] + 1, w)
NextPowerOf2(a, w) ==
    LET fill[n \in 1 .. w, x \in 0 .. 2^w - 1] ==
            IF n = w THEN x ELSE fill[2 * n, Or(x, x \div 2^n)]
    IN Wrap(fill[1, a] + 1, w)

RoundUpToAlignment(value, align) == (Wrap(value + align - 1, Width) \div align) * align
OffsetToAlignment(value, align) == Wrap(RoundUpToAlignment(value, align) - value, Width)
abs64(x) == IF x < 0 THEN -x ELSE x
SignExtend(x, b, w) == Signed(Wrap(x * 2^(w - b), w), w) \div 2^(w - b)

----------------------------------------------------------------------------
(* A word that goes from one of these functions to the next.               *)
Init == word \in Words
Grow == word' = NextPowerOf2(word, Width)
Align == \E a \in Operands : word' = IF a = 0 THEN word ELSE RoundUpToAlignment(word, a)
Narrow == \E n \in {Hi(word), Lo(word)} : word' = n
Next == Grow \/ Align \/ Narrow

(* What the comments promise.  Two of them promise more than the code does *)
(* and are stated for what it does: a zero counts as a shifted mask, and   *)
(* rounding up near the largest number is right for powers of two only.    *)
Runs(x, w) == \E i, j \in 0 .. w : i <= j /\ x = 2^j - 2^i
Highest(x) == IF x = 0 THEN -1 ELSE Max(Ones(x))
Lowest(x, w) == IF x = 0 THEN w ELSE Min(Ones(x))
Powers(w) == {2^i : i \in 0 .. w - 1}

CountsRight(x, w) ==
    /\ isMask(x, w) = (x \in {2^i - 1 : i \in 1 .. w})
    /\ isShiftedMask(x, w) = Runs(x, w)
    /\ isPowerOf2(x, w) = (x \in Powers(w))
    /\ CountLeadingZeros(x, w) = w - 1 - Highest(x)
    /\ CountLeadingOnes(x, w) = w - 1 - Highest(Not(x, w))
    /\ CountTrailingZeros(x, w) = Lowest(x, w)
    /\ CountTrailingOnes(x, w) = Lowest(Not(x, w), w)
    /\ CountPopulation(x, w) = Cardinality(Ones(x))
    /\ Log2(x, w) = Highest(x)
    /\ Log2_Ceil(x, w) = IF x = 0 THEN w ELSE CHOOSE n \in 0 .. w : 2^n >= x /\ (n > 0 => 2^(n - 1) < x)
    /\ NextPowerOf2(x, w) = IF x >= 2^(w - 1) THEN 0 ELSE Min({p \in Powers(w) : p > x})
    /\ \A b \in 1 .. w : SignExtend(x, b, w) = Signed(Wrap(x, b), b)

FitsRight(x) ==
    LET s == Signed(x, Width) IN
    /\ x = Hi(x) * 2^HalfWidth + Lo(x)
    /\ abs64(s) = IF s < 0 THEN -s ELSE s
    /\ \A n \in 1 .. Width :
           /\ isInt(n, s) = isIntCast(n, s)
           /\ isUInt(n, x) = isUIntCast(n, x)
           /\ isUIntN(n, x) = isUInt(n, x)
           /\ \A k \in 0 .. Width - n :
                  /\ isShiftedUInt(n, k, x) = (\A i \in Ones(x) : i >= k /\ i < n + k)
                  /\ isShiftedInt(n, k, s) = (s % 2^k = 0 /\ isIntCast(n, s \div 2^k))

CombinesRight(x, y) ==
    /\ (x # 0 \/ y # 0) =>
           LET g == GreatestCommonDivisor(x, y) IN
           /\ x % g = 0 /\ y % g = 0
           /\ g \in Nat /\ \A d \in Powers(Width) \cup {3, 5, 7} : (x % d = 0 /\ y % d = 0) => g % d = 0
    /\ (x # 0 \/ y # 0) => MinAlign(x, y) = Max({p \in Powers(Width) : x % p = 0 /\ y % p = 0})
    /\ (y # 0 /\ (isPowerOf2(y, Width) \/ x + y - 1 < 2^Width)) =>
           \E above \in 0 .. y - 1 :
               /\ (x + above) % y = 0
               /\ RoundUpToAlignment(x, y) = Wrap(x + above, Width)
               /\ OffsetToAlignment(x, y) = above

(* The tables, at the widths they are for.                                 *)
TablesRight ==
    LET Entries(table, size, bits) ==
            LET power[i \in 0 .. bits] == IF i = 0 THEN 1 ELSE (2 * power[i - 1]) % size
            IN \A i \in 0 .. bits - 1 : table[power[i] + 1] = i
    IN Entries(Mod37BitPosition, 37, 32) /\ Entries(Mod67Position, 67, 64)

MathIsRight ==
    /\ word \in 0 .. 2^Width - 1
    /\ CountsRight(word, Width) /\ CountsRight(Lo(word), HalfWidth)
    /\ FitsRight(word)
    /\ \A y \in Operands : CombinesRight(word, y)
    /\ TablesRight

=============================================================================
