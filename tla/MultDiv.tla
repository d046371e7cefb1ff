------------------------------ MODULE MultDiv ------------------------------
(***************************************************************************)
(* Multiplication and division of values of several words, by half words   *)
(* and with estimated quotient digits.  A word is a number below W, a      *)
(* value the function of its words, the lowest first.                      *)
(***************************************************************************)
EXTENDS Groups

Half   == 2^(BITS \div 2)
High(n) == n \div Half
Low(n)  == n % Half
Flag(c) == IF c THEN 1 ELSE 0

(* a - b in a word, and the borrow that the code finds by comparing the    *)
(* difference with the complement of b.                                    *)
Less(a, b)   == Wrap(a - b)
Borrow(a, b) == Flag(Less(a, b) > W - 1 - b)

NZGroups(v, groups) == Max({0} \cup {i + 1 : i \in {i \in 0 .. groups - 1 : v[i] # 0}})
NZBits(n) == Min({k \in 0 .. BITS : n < 2^k})

(* The two words of b * c.                                                 *)
Mult32x32(b, c) ==
  LET cross == Wrap(Low(b) * High(c) + High(b) * Low(c))
      over  == Flag(cross < High(b) * Low(c))
      u     == Wrap(cross * Half)
      low   == Wrap(Low(b) * Low(c) + u)
  IN <<low, Wrap(High(b) * High(c) + over * Half + Flag(low < u) + High(cross))>>

(* b + c * d for a word c, and the carry.                                  *)
Mult32Acc(b, c, d, words) ==
  LET step[i \in 0 .. words] ==
        IF i = 0 THEN [v |-> b, carry |-> 0]
        ELSE LET p   == step[i - 1]
                 t   == Mult32x32(c, d[i - 1])
                 sum == Wrap(b[i - 1] + p.carry)
                 a   == Wrap(sum + t[1])
             IN [v |-> [p.v EXCEPT ![i - 1] = a],
                 carry |-> Wrap(Flag(sum < p.carry) + Flag(a < t[1]) + t[2])]
  IN step[words]

GroupMult(b, c, groups) ==
  LET n == NZGroups(c, groups)
      step[i \in 0 .. NZGroups(b, groups)] ==
        IF i = 0 THEN [k \in 0 .. 2 * groups - 1 |-> 0]
        ELSE LET cc == step[i - 1]
                 r  == Mult32Acc([k \in 0 .. n - 1 |-> cc[i - 1 + k]], b[i - 1], c, n)
             IN [k \in DOMAIN cc |-> IF k \in i - 1 .. i + n - 2 THEN r.v[k - i + 1]
                                     ELSE IF k = i + n - 1 THEN Wrap(cc[k] + r.carry) ELSE cc[k]]
      all == step[NZGroups(b, groups)]
  IN [i \in 0 .. groups - 1 |-> all[i]]

(* b - c * d for a word c, and the borrow.                                 *)
Mult32Sub(b, c, d, words) ==
  LET step[i \in 0 .. words] ==
        IF i = 0 THEN [v |-> b, borrow |-> 0]
        ELSE LET p    == step[i - 1]
                 t    == Mult32x32(c, d[i - 1])
                 diff == Less(b[i - 1], p.borrow)
             IN [v |-> [p.v EXCEPT ![i - 1] = Less(diff, t[1])],
                 borrow |-> Wrap(Borrow(b[i - 1], p.borrow) + Borrow(diff, t[1]) + t[2])]
  IN step[words]

(* <<b[0], b[1]>> / c, for b[1] < c and c >= Half: each half of the        *)
(* quotient is underestimated with High(c) + 1, then corrected.            *)
Take(t, low, high) == <<Less(t[1], low), Wrap(t[2] - Borrow(t[1], low) - high)>>
Estimate(n, c, top) == IF High(c) = Half - 1 THEN top ELSE Low(n \div (High(c) + 1))

CorrectHigh(t, c, digit) ==
  LET tooLow(r) == r[2] > High(c) \/ (r[2] = High(c) /\ r[1] >= Wrap(Low(c) * Half))
      step[k \in 0 .. W] ==
        IF k = 0 THEN <<t, digit>>
        ELSE LET p == step[k - 1]
             IN IF tooLow(p[1]) THEN <<Take(p[1], Wrap(Low(c) * Half), High(c)), p[2] + 1>> ELSE p
  IN step[W]
HighDigit(t, c, digit) ==
  CorrectHigh(Take(t, Wrap(digit * Low(c) * Half), High(digit * Low(c)) + digit * High(c)), c, digit)

CorrectLow(t, c, digit) ==
  LET step[k \in 0 .. W] ==
        IF k = 0 THEN <<t, digit>>
        ELSE LET p == step[k - 1]
             IN IF p[1][2] > 0 \/ p[1][1] >= c THEN <<Take(p[1], c, 0), p[2] + 1>> ELSE p
  IN step[W]
LowDigit(t, c, digit) ==
  CorrectLow(Take(Take(t, digit * Low(c), 0), Wrap(digit * High(c) * Half), High(digit * High(c))), c, digit)

BothDigits(s, c) ==
  LET t == s[1]
  IN Wrap(s[2] * Half + LowDigit(t, c, Estimate(Wrap(t[2] * Half + High(t[1])), c, High(t[2])))[2])
Div64by32(b, c) == BothDigits(HighDigit(b, c, Estimate(b[2], c, High(b[2]))), c)

(* c / d and c % d for d # 0: schoolbook division of the normalised        *)
(* operands, whose digits are estimated with the top word of d plus one.   *)
ShiftedWords(c, k, groups) ==
  [i \in 0 .. groups |-> (IF i = groups THEN 0 ELSE Wrap(c[i] * 2^k))
                         + (IF i = 0 \/ k = 0 THEN 0 ELSE c[i - 1] \div 2^(BITS - k))]
BitCmpGE(a, b, at, words) ==
  LET differ == {i \in 0 .. words - 1 : a[at + i] # b[i]}
  IN differ = {} \/ a[at + Max(differ)] > b[Max(differ)]
BitSub(b, c, words) ==
  LET step[i \in 0 .. words] ==
        IF i = 0 THEN [v |-> b, borrow |-> 0]
        ELSE LET p   == step[i - 1]
                 acc == Less(b[i - 1], p.borrow)
             IN IF acc > W - 1 - p.borrow
                THEN [p EXCEPT !.v[i - 1] = W - 1 - c[i - 1]]
                ELSE [v |-> [p.v EXCEPT ![i - 1] = Less(acc, c[i - 1])], borrow |-> Borrow(acc, c[i - 1])]
  IN step[words]

GroupDiv(c, d, words) ==
  LET dWords == NZGroups(d, words)
      shift  == BITS - NZBits(d[dWords - 1])
      dd     == ShiftedWords(d, shift, dWords)
      t      == dd[dWords - 1]
      Minus(cc, i, r) ==
        [k \in DOMAIN cc |-> IF k \in i .. i + dWords - 1 THEN r.v[k - i]
                             ELSE IF k = i + dWords THEN Less(cc[k], r.borrow) ELSE cc[k]]
      window(cc, i) == [k \in 0 .. dWords - 1 |-> cc[i + k]]
      digit(cc, i) ==
        LET ai == IF t = W - 1 THEN cc[i + dWords] ELSE Div64by32(<<cc[i + dWords - 1], cc[i + dWords]>>, t + 1)
            fix[n \in 0 .. W] ==
              IF n = 0 THEN <<Minus(cc, i, Mult32Sub(window(cc, i), ai, dd, dWords)), ai>>
              ELSE LET p == fix[n - 1]
                   IN IF p[1][i + dWords] # 0 \/ BitCmpGE(p[1], dd, i, dWords)
                      THEN <<Minus(p[1], i, BitSub(window(p[1], i), dd, dWords)), Wrap(p[2] + 1)>> ELSE p
        IN fix[W]
      step[n \in 0 .. words - dWords + 1] ==
        IF n = 0 THEN [cc |-> ShiftedWords(c, shift, words), quot |-> [i \in 0 .. words - 1 |-> 0]]
        ELSE LET p == step[n - 1]
                 i == words - dWords - (n - 1)
                 r == digit(p.cc, i)
             IN [cc |-> r[1], quot |-> [p.quot EXCEPT ![i] = r[2]]]
      last == step[words - dWords + 1]
  IN [quot |-> last.quot,
      rem  |-> [i \in 0 .. words - 1 |->
                  IF i >= dWords THEN 0
                  ELSE last.cc[i] \div 2^shift
                       + (IF shift > 0 /\ i < dWords - 1 THEN Wrap(last.cc[i + 1] * 2^(BITS - shift)) ELSE 0)]]
=============================================================================
