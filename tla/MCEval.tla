------------------------------- MODULE MCEval -------------------------------
EXTENDS Store

(* A value of n bits: the bits of a number, those of two sets z and x.     *)
With(n, v, zs, xs) ==
  [i \in 0 .. n - 1 |-> IF i \in xs THEN X ELSE IF i \in zs THEN Z ELSE (v \div 2^i) % 2]
Numbers(n) == {0, 1, 2, 3, 5, 2^(n-1) - 1, 2^(n-1), 2^n - 2, 2^n - 1} \cap 0 .. 2^n - 1
Mixed(n) == {With(n, 2^n - 1, {}, {0}), With(n, 1, {}, {n - 1}), With(n, 1, {n - 1}, {}),
             With(n, 2^(n-1), {0}, {}), With(n, 5, {}, 0 .. n - 1)}

MCSamples == [n \in {3, 4, 6, 10} |-> {With(n, v, {}, {}) : v \in Numbers(n)} \cup Mixed(n)
                \cup (IF n = 10 THEN {With(n, v, {}, {}) : v \in {240, 273, 496, 768}} \cup {With(n, 768, {}, {5})} ELSE {})]
MCFew == [n \in {3, 4, 6, 10} |-> {With(n, v, {}, {}) : v \in {0, 1, 3, 2^n - 1}} \cup {With(n, 2, {}, {n - 1})}]
MCDecls == {With(10, 563, {2, 8}, {3, 7})}
Part(n, v, i) == <<n, With(n, v, {}, {}), i>>
MCLists == {<<Part(3, 5, FALSE), Part(3, 2, TRUE)>>, <<Part(4, 9, TRUE), Part(6, 33, FALSE)>>,
            <<Part(3, 1, TRUE), Part(6, 37, TRUE)>>, <<Part(6, 22, TRUE), Part(3, 3, FALSE), Part(1, 1, TRUE)>>,
            <<Part(1, 0, TRUE), Part(4, 5, TRUE), Part(4, 6, FALSE)>>, <<Part(2, 1, FALSE), Part(8, 150, TRUE)>>,
            <<<<6, With(6, 20, {1}, {5}), FALSE>>, Part(4, 3, FALSE)>>}
MCRepeats == {<<<<Part(1, 1, FALSE)>>, 6>>, <<<<Part(3, 5, TRUE)>>, 3>>, <<<<Part(2, 1, FALSE), Part(2, 2, TRUE)>>, 2>>,
              <<<<Part(4, 9, FALSE)>>, 2>>, <<<<Part(5, 19, FALSE)>>, 2>>, <<<<Part(8, 150, FALSE)>>, 2>>,
              <<<<Part(6, 22, FALSE)>>, 2>>, <<<<Part(4, 9, FALSE)>>, 3>>, <<<<Part(4, 6, TRUE), Part(2, 3, TRUE)>>, 2>>}

PartL(high, low) == [op |-> "part", high |-> high, low |-> low]
BitL(n, v, xs, inv, down) == [op |-> "bit", index |-> <<n, With(n, v, {}, xs), inv>>, down |-> down]
WordL(n, v, xs, inv) == [op |-> "word", index |-> <<n, With(n, v, {}, xs), inv>>]
MCLvals == {[op |-> "vector"], WordL(3, 0, {}, FALSE), WordL(3, 1, {}, FALSE), WordL(4, 2, {}, FALSE),
            WordL(4, 5, {}, FALSE), WordL(3, 1, {1}, FALSE), WordL(4, 13, {}, TRUE)}
           \cup {PartL(r[1], r[2]) : r \in {r \in (0 .. 9) \X (0 .. 9) : r[1] >= r[2] /\ r[2] \in {0, 1, 3, 4, 7}}} \cup {BitL(4, v, {}, FALSE, d) : v \in {0, 1, 5, 10, 11}, d \in BOOLEAN}
           \cup {BitL(4, 6, {}, TRUE, TRUE), BitL(4, 2, {2}, FALSE, TRUE)}
MCLvalLists == {<<<<3, PartL(9, 7)>>, <<3, PartL(2, 0)>>>>, <<<<5, PartL(4, 0)>>, <<5, PartL(9, 5)>>>>,
                <<<<1, BitL(4, 3, {}, FALSE, TRUE)>>, <<4, PartL(9, 6)>>, <<1, BitL(3, 1, {}, FALSE, TRUE)>>>>,
                <<<<4, WordL(3, 2, {}, FALSE)>>, <<2, PartL(1, 0)>>, <<4, PartL(5, 2)>>>>}
=============================================================================
