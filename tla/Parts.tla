------------------------------- MODULE Parts -------------------------------
(***************************************************************************)
(* Runs of bits that do not start at a group: part selects, the members of *)
(* a concatenation and its repetition.  A memory maps addresses to groups, *)
(* a pointer is an address.                                                *)
(***************************************************************************)
EXTENDS Groups, Sequences, TLC

(* What elaboration notes about the bits low .. high of a value.           *)
cook_part_ref(high, low) ==
  LET first  == low % BITS
      last   == high % BITS
      length == high - low + 1
      within == high \div BITS = low \div BITS
  IN [aligned |-> last >= first,
      shift   |-> first,
      rmask   |-> mask_right(last - first + 1),
      lmask1  |-> IF within THEN Not(first .. last) ELSE mask_right(first),
      lmask2  |-> IF last >= first THEN Not(first .. last) ELSE Not(mask_right(last + 1)),
      ngroups |-> IF within THEN 0 ELSE bits_to_groups(length),
      next    |-> IF within THEN (IF last = BITS - 1 THEN 1 ELSE 0) ELSE bits_to_groups(length + first + 1)]

-----------------------------------------------------------------------------
(* The group at g2 shifted into place: what stays of its own group, what   *)
(* goes to the next.                                                       *)
Here(m, g2, p)  == ShlGroup(m[g2], p.shift)
Above(m, g2, p) == ShrGroup(m[g2], BITS - p.shift)

(* The members at g2 are written into the part at g1.                      *)
Within(m, g1, g2, p) == [m EXCEPT ![g1] = Keeping(Here(m, g2, p), @, p.lmask1)]
Across(m, g1, g2, p) ==
  [m EXCEPT ![g1] = Either(Here(m, g2, p), AndMask(@, p.lmask1)),
            ![g1 + 1] = Keeping(Above(m, g2, p), @, p.lmask2)]
FullGroup(m, g1, g2, p) ==
  LET low == [m EXCEPT ![g1] = Keeping(Here(m, g2, p), @, p.lmask1)]
  IN IF p.shift = 0 THEN low
     ELSE [low EXCEPT ![g1 + 1] = Keeping(Above(m, g2, p), @, Not(p.lmask1))]
LastGroup(m, g1, g2, p) ==
  IF p.aligned THEN [m EXCEPT ![g1] = Keeping(Here(m, g2, p), @, p.lmask2)]
  ELSE [m EXCEPT ![g1] = Either(Here(m, g2, p), AndMask(@, p.lmask1)),
                 ![g1 + 1] = Either(Above(m, g2, p), AndMask(@, p.lmask2))]

part_lref(m, g1, g2, p) ==
  LET full[i \in 0 .. p.ngroups] ==
        IF i = 0 THEN m
        ELSE LET n == full[i - 1] IN FullGroup(n, g1 + i - 1, g2 + i - 1, p)
      n == full[p.ngroups]
  IN IF p.ngroups > 0 THEN LastGroup(n, g1 + p.ngroups, g2 + p.ngroups, p)
     ELSE IF p.aligned THEN Within(m, g1, g2, p) ELSE Across(m, g1, g2, p)

(* The part at g2 is read to g1, on a stack whose operands have            *)
(* R_ngroups + 1 groups; up to a group more than the part has is copied.   *)
part_rref(m, g1, g2, p, R_ngroups) ==
  LET both(i) == Either(ShrGroup(m[g2 + i], p.shift), ShlGroup(m[g2 + i + 1], BITS - p.shift))
      last    == p.ngroups
  IN IF p.shift = 0
     THEN LET n == IF R_ngroups > 0 THEN p.ngroups ELSE 0
          IN [i \in g1 .. g1 + n |-> IF i = g1 + n THEN AndMask(m[g2 + n], p.rmask) ELSE m[g2 + i - g1]] @@ m
     ELSE IF p.ngroups = 0 /\ p.aligned
     THEN [m EXCEPT ![g1] = AndMask(ShrGroup(m[g2], p.shift), p.rmask)]
     ELSE IF p.aligned
     THEN [i \in g1 .. g1 + last |-> IF i = g1 + last THEN AndMask(both(last), p.rmask) ELSE both(i - g1)] @@ m
     ELSE [i \in g1 .. g1 + last + 1 |->
             IF i = g1 + last + 1 THEN ShrGroup(m[g2 + last + 1], p.shift) ELSE both(i - g1)] @@ m

(* The size bits at g are copied to the place of the multiplier-th copy.   *)
(* C leaves open what a shift by a whole word gives: the word or nothing.  *)
copy_left(m, size, multiplier, g, R_ngroups, kept) ==
  LET bits  == size * (multiplier - 1)
      up    == bits_to_groups(bits + 1)
      k     == bits % BITS
      n     == bits_to_groups(size) + (IF k + size > BITS THEN 1 ELSE 0)
      carry(h) == IF k > 0 THEN ShrGroup(h, BITS - k) ELSE IF kept THEN h ELSE Zeros
      source(i) == IF i = n THEN AndMask(m[g + n], mask_right1(size)) ELSE m[g + i]
      copied(i) == Either(Either(m[g + up + i], ShlGroup(source(i), k)),
                          IF i = 0 THEN Zeros ELSE carry(m[g + i - 1]))
  IN IF up > R_ngroups THEN m ELSE [a \in g + up .. g + up + n |-> copied(a - g - up)] @@ m
=============================================================================
