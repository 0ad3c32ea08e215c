------------------------ MODULE ProcessCaptureProofs ------------------------
(* Theorems about ProcessCapture, for every set of limits, every pipe       *)
(* capacity and any amount of output.                                       *)
EXTENDS CaptureRefinement, SequenceTheorems, TLAPS

-----------------------------------------------------------------------------
(* Runs of positions.                                                      *)

\* A run of positions is a sequence with the length and the elements it
\* should have.
LEMMA UpToShape ==
  ASSUME NEW last \in Int, NEW n \in Nat
  PROVE  /\ UpTo(last, n) \in Seq(Int)
         /\ Len(UpTo(last, n)) = n
         /\ \A i \in 1 .. n : UpTo(last, n)[i] = last - n + i
BY DEF UpTo

\* A sequence with that length and those elements is a run of positions.
LEMMA UpToUnique ==
  ASSUME NEW last \in Int, NEW n \in Nat, NEW q \in Seq(Int), Len(q) = n,
         \A i \in 1 .. n : q[i] = last - n + i
  PROVE  q = UpTo(last, n)
<1>1. q \in [1 .. n -> Int] /\ DOMAIN q = 1 .. n
  BY LenProperties
<1> QED
  BY <1>1 DEF UpTo

\* The end of a run of positions is a run of positions.
LEMMA EndOfUpTo ==
  ASSUME NEW last \in Int, NEW n \in Nat, NEW m \in 0 .. n
  PROVE  LastOf(UpTo(last, n), m) = UpTo(last, m)
<1> DEFINE q == UpTo(last, n)
           e == SubSeq(q, n - m + 1, n)
<1>1. q \in Seq(Int) /\ Len(q) = n /\ \A i \in 1 .. n : q[i] = last - n + i
  BY UpToShape
<1> HIDE DEF q
<1>2. LastOf(q, m) = e
  BY <1>1 DEF LastOf
<1>3. \A i \in n - m + 1 .. n : q[i] \in Int
  BY <1>1
<1>4. /\ e \in Seq(Int)
      /\ Len(e) = IF n - m + 1 <= n THEN n - (n - m + 1) + 1 ELSE 0
      /\ \A i \in 1 .. n - (n - m + 1) + 1 : e[i] = q[n - m + 1 + i - 1]
  <2>1. n - m + 1 \in Int /\ n \in Int
    OBVIOUS
  <2> HIDE DEF e
  <2> DEFINE first == n - m + 1
  <2>2. first \in Int /\ n \in Int /\ \A i \in first .. n : q[i] \in Int
    BY <1>3, <2>1
  <2> HIDE DEF first
  <2>3. /\ SubSeq(q, first, n) \in Seq(Int)
        /\ Len(SubSeq(q, first, n)) = IF first <= n THEN n - first + 1 ELSE 0
        /\ \A i \in 1 .. n - first + 1 : SubSeq(q, first, n)[i] = q[first + i - 1]
    BY <2>2, SubSeqProperties
  <2> QED
    BY <2>3 DEF first, e
<1> HIDE DEF e
<1>5. Len(e) = m /\ \A i \in 1 .. m : e[i] = last - m + i
  BY <1>1, <1>4
<1>6. e = UpTo(last, m)
  BY <1>4, <1>5, UpToUnique
<1> QED
  BY <1>2, <1>6 DEF q

\* Adjacent runs of positions make one.
LEMMA JoinUpTo ==
  ASSUME NEW last \in Int, NEW n \in Nat, NEW k \in Nat
  PROVE  UpTo(last, n) \o UpTo(last + k, k) = UpTo(last + k, n + k)
<1> DEFINE p == UpTo(last, n)
           q == UpTo(last + k, k)
<1>1. p \in Seq(Int) /\ Len(p) = n /\ \A i \in 1 .. n : p[i] = last - n + i
  BY UpToShape
<1>2. q \in Seq(Int) /\ Len(q) = k /\ \A i \in 1 .. k : q[i] = last + k - k + i
  <2> DEFINE l == last + k
  <2>1. l \in Int
    OBVIOUS
  <2> HIDE DEF l
  <2>2. /\ UpTo(l, k) \in Seq(Int) /\ Len(UpTo(l, k)) = k
        /\ \A i \in 1 .. k : UpTo(l, k)[i] = l - k + i
    BY <2>1, UpToShape
  <2> QED
    BY <2>2 DEF l
<1> HIDE DEF p, q
<1>3. /\ p \o q \in Seq(Int) /\ Len(p \o q) = n + k
      /\ \A i \in 1 .. n + k : (p \o q)[i] = IF i <= n THEN p[i] ELSE q[i - n]
  <2>1. p \in Seq(Int) /\ q \in Seq(Int)
    BY <1>1, <1>2
  <2>2. /\ p \o q \in Seq(Int) /\ Len(p \o q) = Len(p) + Len(q)
        /\ \A i \in 1 .. Len(p) + Len(q) :
             (p \o q)[i] = IF i <= Len(p) THEN p[i] ELSE q[i - Len(p)]
    BY <2>1, ConcatProperties
  <2>3. Len(p) = n /\ Len(q) = k
    BY <1>1, <1>2
  <2> QED
    BY <2>2, <2>3
<1>4. \A i \in 1 .. n + k : (p \o q)[i] = last + k - (n + k) + i
  <2>1. ASSUME NEW i \in 1 .. n + k PROVE (p \o q)[i] = last + k - (n + k) + i
    <3>1. CASE i <= n
      BY <1>1, <1>3, <3>1
    <3>2. CASE i > n
      <4>1. i - n \in 1 .. k
        BY <3>2
      <4>2. q[i - n] = last + (i - n)
        BY <1>2, <4>1
      <4>3. (p \o q)[i] = q[i - n]
        BY <1>3, <3>2
      <4> QED
        BY <4>2, <4>3
    <3>3. i <= n \/ i > n
      OBVIOUS
    <3> QED
      BY <3>1, <3>2, <3>3, Zenon
  <2> QED
    BY <2>1
<1>5. p \o q = UpTo(last + k, n + k)
  <2> DEFINE l == last + k
             t == n + k
  <2>1. l \in Int /\ t \in Nat
    OBVIOUS
  <2>2. /\ p \o q \in Seq(Int) /\ Len(p \o q) = t
        /\ \A i \in 1 .. t : (p \o q)[i] = l - t + i
    BY <1>3, <1>4
  <2> HIDE DEF l, t
  <2>3. p \o q = UpTo(l, t)
    BY <2>1, <2>2, UpToUnique
  <2> QED
    BY <2>3 DEF l, t
<1> QED
  BY <1>5 DEF p, q

\* Write keeps, of a stream, its last bytes, and as many of them as the limit
\* admits, if it did so before.
LEMMA KeptIsEnd ==
  ASSUME NEW o \in Nat, NEW k \in Nat, NEW max \in Nat \ {0}
  PROVE  Kept(UpTo(o, Least(o, max)), UpTo(o + k, k), max)
           = UpTo(o + k, Least(o + k, max))
<1> DEFINE size == Least(o, max)
           l    == o + k
           old  == UpTo(o, size)
           new  == UpTo(l, k)
           m    == Least(size, max - k)
<1>1. size \in Nat /\ l \in Int /\ l = o + k
  BY DEF Least
<1> HIDE DEF l
<1>2. Len(old) = size /\ Len(new) = k
  <2> HIDE DEF size
  <2> QED
    BY <1>1, UpToShape
<1>3. CASE k >= max
  <2>1. max \in 0 .. k
    BY <1>3
  <2>2. LastOf(new, max) = UpTo(l, max)
    BY <1>1, <2>1, EndOfUpTo
  <2>3. Least(l, max) = max
    BY <1>1, <1>3 DEF Least
  <2> HIDE DEF new, old
  <2>4. Kept(old, new, max) = UpTo(l, Least(l, max))
    BY <1>2, <1>3, <2>2, <2>3 DEF Kept
  <2> QED
    BY <2>4 DEF new, old, l
<1>4. CASE k < max
  <2>1. m \in 0 .. size /\ m \in Nat /\ m + k = Least(l, max)
    BY <1>1, <1>4 DEF Least
  <2> HIDE DEF m, size
  <2>2. LastOf(old, m) = UpTo(o, m)
    BY <1>1, <2>1, EndOfUpTo
  <2>3. UpTo(o, m) \o new = UpTo(l, m + k)
    <3>1. o \in Int
      OBVIOUS
    <3>2. UpTo(o, m) \o UpTo(o + k, k) = UpTo(o + k, m + k)
      BY <2>1, <3>1, JoinUpTo, Zenon
    <3> QED
      BY <3>2 DEF l
  <2> HIDE DEF new, old
  <2>n. ~(Len(new) >= max) /\ Least(Len(old), max - Len(new)) = m
    BY <1>2, <1>4 DEF m
  <2>4. Kept(old, new, max) = LastOf(old, m) \o new
    BY <2>n DEF Kept
  <2>5. Kept(old, new, max) = UpTo(l, Least(l, max))
    BY <2>1, <2>2, <2>3, <2>4
  <2> QED
    BY <2>5 DEF old, new, l, size
<1> QED
  BY <1>3, <1>4

\* An empty tail that is written to once holds the end of what was written.
LEMMA KeptOfOne ==
  ASSUME NEW last \in Int, NEW n \in Nat, NEW max \in Nat \ {0},
         NEW q, q = UpTo(last, n)
  PROVE  Kept(<<>>, q, max) = UpTo(last, Least(n, max))
<1>1. q \in Seq(Int) /\ Len(q) = n
  BY UpToShape, Zenon
<1>2. CASE n >= max
  <2>1. LastOf(q, max) = UpTo(last, max)
    BY <1>2, EndOfUpTo
  <2> QED
    BY <1>1, <1>2, <2>1 DEF Kept, Least
<1>3. CASE n < max
  <2>1. Kept(<<>>, q, max) = LastOf(<<>>, Least(Len(<<>>), max - n)) \o q
    BY <1>1, <1>3 DEF Kept
  <2>2. Least(Len(<<>>), max - n) = 0 /\ Len(<<>>) = 0
    BY <1>3, EmptySeq DEF Least
  <2>3. LastOf(<<>>, 0) = <<>>
    BY <2>2, SubSeqEmpty DEF LastOf
  <2>4. Kept(<<>>, q, max) = q
    BY <1>1, <2>1, <2>2, <2>3, ConcatEmptySeq
  <2> QED
    BY <1>3, <2>4 DEF Least
<1> QED
  BY <1>2, <1>3

\* No bytes are a run of positions as well.
LEMMA EmptyUpTo == \A last \in Int : UpTo(last, 0) = <<>>
<1> SUFFICES ASSUME NEW last \in Int PROVE UpTo(last, 0) = <<>>
  OBVIOUS
<1>1. UpTo(last, 0) \in Seq(Int) /\ Len(UpTo(last, 0)) = 0
  BY UpToShape
<1> QED
  BY <1>1, EmptySeq

\* result's shares of two tails: no more than there is, the limit together,
\* and everything if that fits.
LEMMA ShareFits ==
  ASSUME NEW a \in Nat, NEW b \in Nat, NEW max \in Nat \ {0}
  PROVE  /\ Share(a, b, max)["out"] \in 0 .. a
         /\ Share(a, b, max)["err"] \in 0 .. b
         /\ Total(Share(a, b, max)) = Least(a + b, max)
         /\ a + b <= max => Share(a, b, max) = [out |-> a, err |-> b]
<1> DEFINE h     == max \div 2
           x     == Least(a, h)
           y     == Least(b, max - h)
           extra == Least(max - x - y, a - x)
           more  == Least(max - x - y - extra, b - y)
<1>1. h \in 0 .. max
  OBVIOUS
<1> HIDE DEF h
<1>2. CASE a + b > max
  <2>1. /\ x + extra \in 0 .. a /\ y + more \in 0 .. b
        /\ x + extra + (y + more) = max
    BY <1>1, <1>2 DEF Least
  <2>2. Share(a, b, max) = [out |-> x + extra, err |-> y + more]
    BY <1>2 DEF Share, h
  <2> HIDE DEF x, y, extra, more
  <2>3. Total(Share(a, b, max)) = max
    BY <2>1, <2>2 DEF Total
  <2> QED
    BY <1>2, <2>1, <2>2, <2>3 DEF Least
<1>3. CASE ~(a + b > max)
  BY <1>3 DEF Share, Total, Least
<1> QED
  BY <1>2, <1>3

\* What is kept of two runs of positions are their ends, all of both if they
\* fit the limit together.
LEMMA RebalancedIsEnd ==
  ASSUME NEW last, NEW size, NEW tails, NEW max \in Nat \ {0},
         \A s \in Streams : last[s] \in Nat /\ size[s] \in Nat,
         \A s \in Streams : tails[s] = UpTo(last[s], size[s])
  PROVE  /\ Rebalanced(tails, max) = [s \in Streams |-> Rebalanced(tails, max)[s]]
         /\ \A s \in Streams : \E n \in 0 .. size[s] :
              /\ Rebalanced(tails, max)[s] = UpTo(last[s], n)
              /\ size["out"] + size["err"] <= max => n = size[s]
<1> DEFINE a == size["out"]
           b == size["err"]
           share == Share(a, b, max)
<1>1. a \in Nat /\ b \in Nat
  BY DEF Streams
<1>2. Len(tails["out"]) = a /\ Len(tails["err"]) = b
  <2>1. ASSUME NEW s \in Streams PROVE Len(tails[s]) = size[s]
    <3>1. last[s] \in Int /\ size[s] \in Nat /\ tails[s] = UpTo(last[s], size[s])
      OBVIOUS
    <3>2. Len(UpTo(last[s], size[s])) = size[s]
      BY <3>1, UpToShape, Zenon
    <3> QED
      BY <3>1, <3>2
  <2> QED
    BY <2>1 DEF Streams
<1>3. \A s \in Streams : Rebalanced(tails, max)[s] = LastOf(tails[s], share[s])
  <2>1. \A s \in Streams : Rebalanced(tails, max)[s] =
          LastOf(tails[s], Share(Len(tails["out"]), Len(tails["err"]), max)[s])
    BY DEF Rebalanced
  <2> HIDE DEF a, b
  <2> QED
    BY <2>1, <1>2
<1> HIDE DEF a, b
<1>4. \A s \in Streams : /\ share[s] \in 0 .. size[s]
                         /\ a + b <= max => share[s] = size[s]
  <2>1. /\ share["out"] \in 0 .. a /\ share["err"] \in 0 .. b
        /\ a + b <= max => share = [out |-> a, err |-> b]
    BY <1>1, ShareFits
  <2> HIDE DEF share
  <2>2. a + b <= max => share["out"] = a /\ share["err"] = b
    BY <2>1
  <2> QED
    BY <2>1, <2>2 DEF Streams, a, b
<1> HIDE DEF share
<1>5. \A s \in Streams : LastOf(tails[s], share[s]) = UpTo(last[s], share[s])
  BY <1>4, EndOfUpTo
<1> QED
  BY <1>3, <1>4, <1>5 DEF Rebalanced, a, b

\* And they have the lengths that Share says.
LEMMA RebalancedSizes ==
  ASSUME NEW last, NEW size, NEW tails, NEW max \in Nat \ {0},
         \A s \in Streams : last[s] \in Nat /\ size[s] \in Nat,
         \A s \in Streams : tails[s] = UpTo(last[s], size[s])
  PROVE  \A s \in Streams :
           Len(Rebalanced(tails, max)[s]) = Share(size["out"], size["err"], max)[s]
<1> DEFINE a == size["out"]
           b == size["err"]
           share == Share(a, b, max)
<1>1. a \in Nat /\ b \in Nat
  BY DEF Streams
<1>2. Len(tails["out"]) = a /\ Len(tails["err"]) = b
  <2>1. ASSUME NEW s \in Streams PROVE Len(tails[s]) = size[s]
    <3>1. last[s] \in Int /\ size[s] \in Nat /\ tails[s] = UpTo(last[s], size[s])
      OBVIOUS
    <3>2. Len(UpTo(last[s], size[s])) = size[s]
      BY <3>1, UpToShape, Zenon
    <3> QED
      BY <3>1, <3>2
  <2> QED
    BY <2>1 DEF Streams
<1>3. \A s \in Streams : Rebalanced(tails, max)[s] = LastOf(tails[s], share[s])
  <2>1. \A s \in Streams : Rebalanced(tails, max)[s] =
          LastOf(tails[s], Share(Len(tails["out"]), Len(tails["err"]), max)[s])
    BY DEF Rebalanced
  <2> HIDE DEF a, b
  <2> QED
    BY <2>1, <1>2
<1>4. \A s \in Streams : share[s] \in 0 .. size[s]
  <2>1. share["out"] \in 0 .. a /\ share["err"] \in 0 .. b
    BY <1>1, ShareFits
  <2> HIDE DEF share
  <2> QED
    BY <2>1 DEF Streams, a, b
<1> HIDE DEF share
<1>5. ASSUME NEW s \in Streams PROVE Len(Rebalanced(tails, max)[s]) = share[s]
  <2>1. last[s] \in Int /\ share[s] \in Nat /\ size[s] \in Nat
    BY <1>4
  <2>2. LastOf(tails[s], share[s]) = UpTo(last[s], share[s])
    BY <1>4, <2>1, EndOfUpTo
  <2>3. Len(UpTo(last[s], share[s])) = share[s]
    BY <2>1, UpToShape, Zenon
  <2> QED
    BY <1>3, <2>2, <2>3
<1> QED
  BY <1>5 DEF share

-----------------------------------------------------------------------------
(* How the two limits are shared.                                          *)

\* What is kept of the counts under a limit: the limit together, and of each
\* stream what there is or half of the limit.
Fair(size, counts, max) ==
  /\ Total(size) = Least(Total(counts), max)
  /\ \A s \in Streams : size[s] \in Least(counts[s], max \div 2) .. counts[s]

Sizes == [s \in Streams |-> Len(result.bytes[s])]

\* A fair share of sizes that are fair under one limit is fair under the
\* smaller of the two.
LEMMA ShareOfFair ==
  ASSUME NEW size, NEW counts, NEW r \in Nat \ {0}, NEW c \in Nat \ {0},
         \A s \in Streams : counts[s] \in Nat /\ size[s] \in Nat,
         Fair(size, counts, r)
  PROVE  Fair(Share(Least(size["out"], c), Least(size["err"], c), c), counts, Least(r, c))
<1> DEFINE p == counts["out"]  q == counts["err"]
           i == size["out"]    j == size["err"]
           h == c \div 2       k == r \div 2
           a == Least(i, c)    b == Least(j, c)
           x == Least(a, h)    y == Least(b, c - h)
           extra == Least(c - x - y, a - x)
           more  == Least(c - x - y - extra, b - y)
           l == Least(r, c)
           share == Share(a, b, c)
<1>1. p \in Nat /\ q \in Nat /\ i \in Nat /\ j \in Nat
  BY DEF Streams
<1>2. /\ i + j = Least(p + q, r)
      /\ i >= Least(p, k) /\ i <= p /\ j >= Least(q, k) /\ j <= q
  <2>1. "out" \in Streams /\ "err" \in Streams
    BY DEF Streams
  <2>2. i \in Least(p, k) .. p /\ j \in Least(q, k) .. q
    BY <2>1 DEF Fair
  <2>3. Least(p, k) \in Int /\ Least(q, k) \in Int
    BY <1>1 DEF Least
  <2>4. i + j = Least(p + q, r)
    BY DEF Fair, Total
  <2> HIDE DEF i, j, p, q, k
  <2> QED
    BY <1>1, <2>2, <2>3, <2>4
<1>3. h \in Nat /\ 2 * h <= c /\ c <= 2 * h + 1 /\ k \in Nat /\ 2 * k <= r /\ r <= 2 * k + 1
  OBVIOUS
<1>4. l \div 2 = Least(k, h) /\ l \in Nat
  <2>1. r <= c => k <= h
    BY <1>3
  <2>2. c < r => h <= k
    BY <1>3
  <2>3. CASE r <= c
    BY <2>1, <2>3 DEF Least
  <2>4. CASE c < r
    <3>1. l = c /\ Least(k, h) = h
      BY <1>3, <2>2, <2>4 DEF Least
    <3> QED
      BY <3>1
  <2> QED
    BY <2>3, <2>4
<1> HIDE DEF p, q, i, j, h, k
<1>5. /\ share["out"] + share["err"] = Least(p + q, l)
      /\ share["out"] >= Least(p, Least(k, h)) /\ share["out"] <= p
      /\ share["err"] >= Least(q, Least(k, h)) /\ share["err"] <= q
      /\ share["out"] \in Int /\ share["err"] \in Int
  <2>1. CASE a + b > c
    <3>1. share["out"] = x + extra /\ share["err"] = y + more
      BY <2>1 DEF Share, h
    <3>2. /\ x + extra + (y + more) = c
          /\ x + extra >= x /\ x + extra <= a /\ y + more >= y /\ y + more <= b
      BY <1>1, <1>3, <2>1 DEF Least
    <3>3. a <= i /\ b <= j /\ Least(p + q, l) = c
      BY <1>1, <1>2, <2>1 DEF Least
    <3>4. x >= Least(p, Least(k, h)) /\ y >= Least(q, Least(k, h))
      BY <1>1, <1>2, <1>3 DEF Least
    <3>5. x + extra \in Int /\ y + more \in Int /\ x \in Int /\ y \in Int /\ a \in Int /\ b \in Int
          /\ Least(p, Least(k, h)) \in Int /\ Least(q, Least(k, h)) \in Int
      BY <1>1, <1>3 DEF Least
    <3> HIDE DEF share, x, y, extra, more, a, b, l
    <3> QED
      BY <1>1, <1>2, <3>1, <3>2, <3>3, <3>4, <3>5
  <2>2. CASE ~(a + b > c)
    <3>1. share["out"] = a /\ share["err"] = b
      BY <2>2 DEF Share
    <3>2. a + b <= c /\ a \in Nat /\ b \in Nat
      BY <1>1, <2>2 DEF Least
    <3>3. a + b = Least(p + q, l) /\ a <= i /\ b <= j
      BY <1>1, <1>2, <3>2 DEF Least
    <3>4. a >= Least(p, Least(k, h)) /\ b >= Least(q, Least(k, h))
      BY <1>1, <1>2, <1>3 DEF Least
    <3> HIDE DEF share, a, b, l
    <3> QED
      BY <1>1, <1>2, <3>1, <3>2, <3>3, <3>4
  <2> QED
    BY <2>1, <2>2
<1> HIDE DEF share, l
<1>6. Least(p, Least(k, h)) \in Int /\ Least(q, Least(k, h)) \in Int
  BY <1>1, <1>3 DEF Least
<1>7. /\ share["out"] \in Least(p, l \div 2) .. p
      /\ share["err"] \in Least(q, l \div 2) .. q
  BY <1>1, <1>4, <1>5, <1>6
<1>8. \A s \in Streams : share[s] \in Least(counts[s], l \div 2) .. counts[s]
  BY <1>7 DEF Streams, p, q
<1>9. Total(share) = Least(Total(counts), l)
  BY <1>5 DEF Total, p, q
<1> QED
  BY <1>8, <1>9 DEF Fair, share, l, a, b, i, j

\* All that was sent is a fair share of itself under a limit it does not reach,
\* so result's share of the two tails is one under the runner's limit.
LEMMA ShareOfSent ==
  ASSUME NEW counts, NEW r \in Nat \ {0}, \A s \in Streams : counts[s] \in Nat
  PROVE  Fair(Share(Least(counts["out"], r), Least(counts["err"], r), r), counts, r)
<1> DEFINE max == counts["out"] + counts["err"] + 2 * r
<1>1. counts["out"] \in Nat /\ counts["err"] \in Nat
  BY DEF Streams
<1>2. max \in Nat \ {0} /\ Least(max, r) = r
  BY <1>1 DEF Least
<1>3. Fair(counts, counts, max)
  <2>1. Total(counts) = Least(Total(counts), max)
    BY <1>1 DEF Total, Least
  <2>2. \A s \in Streams : counts[s] \in Least(counts[s], max \div 2) .. counts[s]
    <3>1. max \div 2 \in Int
      BY <1>2
    <3> HIDE DEF max
    <3> QED
      BY <3>1 DEF Least
  <2> QED
    BY <2>1, <2>2 DEF Fair
<1> HIDE DEF max
<1>4. Fair(Share(Least(counts["out"], r), Least(counts["err"], r), r), counts, Least(max, r))
  BY <1>2, <1>3, ShareOfFair
<1> QED
  BY <1>2, <1>4

-----------------------------------------------------------------------------
(* The inductive invariant.                                                *)

Flags ==
  /\ pc \in {"start", "wait", "drain", "bound", "done"}
  /\ limit \in [runner : Limits, caller : Limits]
  /\ expired \in BOOLEAN
  /\ alive \in SUBSET Writers
  /\ holds \in [Streams -> SUBSET Writers]
  /\ drain \in [Streams -> {"idle", "copying", "eof", "closed"}]
  /\ taken \in SUBSET Streams
  /\ timer \in {"unset", "running", "fired"}
  /\ complete \in BOOLEAN

\* Bytes are written, then read, then counted.
Counted ==
  /\ sent \in [Streams -> Nat] /\ buffer \in [Streams -> Nat]
  /\ original \in [Streams -> Nat]
  /\ \A s \in Streams : original[s] + buffer[s] <= sent[s] /\ sent[s] <= Supply

\* Each tail is the end of what was counted.
TailsAreEnds ==
  /\ tail \in [Streams -> Seq(Int)]
  /\ \A s \in Streams : tail[s] = UpTo(original[s], Least(original[s], limit.runner))

\* A drain that ended normally has counted all that can ever be written.
DrainsSealed ==
  \A s \in Streams :
    /\ drain[s] # "copying" => buffer[s] = 0
    /\ drain[s] = "idle" => holds[s] = {} /\ sent[s] = 0
    /\ drain[s] = "eof" => holds[s] = {} /\ original[s] = sent[s]

\* The caller's view of the drains.
Received ==
  /\ pc = "start" => \A s \in Streams : drain[s] = "idle"
  /\ pc \in {"start", "wait"} => taken = {}
  /\ \A s \in taken : drain[s] \in {"eof", "closed"}
  /\ pc = "drain" /\ complete => \A s \in taken : drain[s] = "eof"

\* What the result says, once there is one.
Exact(s) ==
  /\ holds[s] = {} /\ original[s] = sent[s] /\ result.count[s] = sent[s]
  /\ \E n \in 0 .. sent[s] :
       /\ result.bytes[s] = UpTo(sent[s], n)
       /\ result.kind = "whole" => n = sent[s]

Reported ==
  /\ result.kind \in {"none", "whole", "limit", "incomplete"}
  /\ result = [kind |-> result.kind, bytes |-> result.bytes, count |-> result.count]
  /\ result.bytes = [s \in Streams |-> result.bytes[s]]
  /\ result.count \in [Streams -> Nat]
  /\ pc \notin {"bound", "done"} \/ result.kind = "incomplete" =>
       result.bytes = NoBytes /\ \A s \in Streams : result.count[s] <= sent[s]
  /\ pc \in {"bound", "done"} =>
       /\ result.kind # "none" /\ \A s \in Streams : drain[s] # "copying"
       /\ result.kind # "incomplete" => \A s \in Streams : Exact(s)

CaptureInv == /\ Flags /\ Counted /\ TailsAreEnds
              /\ DrainsSealed /\ Received /\ Reported

\* CaptureInv holds initially.
LEMMA CaptureInit == Init => CaptureInv
<1> SUFFICES ASSUME Init PROVE CaptureInv
  OBVIOUS
<1> USE CaptureAssumption DEF Init, NoCount, NoBytes, Nothing
<1>1. limit.runner \in Nat \ {0}
  OBVIOUS
<1>2. UpTo(0, Least(0, limit.runner)) = <<>> /\ <<>> \in Seq(Int)
  <2>1. Least(0, limit.runner) = 0 /\ 0 \in Int
    BY <1>1 DEF Least
  <2> QED
    BY <2>1, EmptyUpTo
<1>3. TailsAreEnds
  BY <1>2 DEF TailsAreEnds
<1>4. Flags
  BY DEF Flags, Writers
<1>c. Counted
  BY DEF Counted
<1>5. DrainsSealed /\ Received
  BY DEF DrainsSealed, Received
<1>6. Reported
  BY DEF Reported, Streams
<1> QED
  BY <1>3, <1>4, <1>c, <1>5, <1>6 DEF CaptureInv

\* Every action keeps CaptureInv.
LEMMA CaptureStep == CaptureInv /\ [Next]_vars => CaptureInv'
<1> SUFFICES ASSUME CaptureInv, [Next]_vars PROVE CaptureInv'
  OBVIOUS
<1> USE CaptureAssumption DEF CaptureInv, process, capture
<1>1. ASSUME NEW w \in Writers, NEW s \in Streams, Emits(w, s) PROVE CaptureInv'
  <2>1. Flags'
    BY <1>1 DEF Emits, Flags, Writers
  <2>2. Counted'
    BY <1>1 DEF Emits, Counted, Pending
  <2>3. TailsAreEnds'
    BY <1>1 DEF Emits, TailsAreEnds
  <2>4. DrainsSealed'
    BY <1>1 DEF Emits, DrainsSealed, Pending, AtEof
  <2>5. Received'
    BY <1>1 DEF Emits, Received
  <2>6. Reported'
    <3>1. holds[s] # {} /\ sent[s] <= sent'[s]
          /\ \A q \in Streams \ {s} : sent'[q] = sent[q]
      BY <1>1 DEF Emits, Counted
    <3>2. ~(pc \in {"bound", "done"} /\ result.kind # "incomplete")
      BY <3>1 DEF Reported, Exact
    <3>3. UNCHANGED <<pc, result, drain>>
      BY <1>1 DEF Emits
    <3>4. \A q \in Streams : result.count[q] <= sent'[q]
      BY <3>1, <3>2, <1>1 DEF Reported, Counted, Emits
    <3> QED
      BY <3>2, <3>3, <3>4 DEF Reported
  <2> QED
    BY <2>1, <2>2, <2>3, <2>4, <2>5, <2>6
<1>2. ASSUME NEW w \in Writers, NEW s \in Streams, ClosesStream(w, s) PROVE CaptureInv'
  <2>1. Flags'
    BY <1>2 DEF ClosesStream, Flags, Writers
  <2>2. Counted'
    BY <1>2 DEF ClosesStream, Counted, Pending
  <2>3. TailsAreEnds'
    BY <1>2 DEF ClosesStream, TailsAreEnds
  <2>4. DrainsSealed'
    BY <1>2 DEF ClosesStream, DrainsSealed
  <2>5. Received'
    BY <1>2 DEF ClosesStream, Received
  <2>6. Reported'
    BY <1>2 DEF ClosesStream, Reported, Exact
  <2> QED
    BY <2>1, <2>2, <2>3, <2>4, <2>5, <2>6
<1>3. ASSUME LeavesHeir PROVE CaptureInv'
  <2>1. Flags'
    BY <1>3 DEF LeavesHeir, Flags, Writers
  <2>2. Counted'
    BY <1>3 DEF LeavesHeir, Counted, Pending
  <2>3. TailsAreEnds'
    BY <1>3 DEF LeavesHeir, TailsAreEnds
  <2>4. DrainsSealed'
    BY <1>3 DEF LeavesHeir, DrainsSealed
  <2>5. Received'
    BY <1>3 DEF LeavesHeir, Received
  <2>6. Reported'
    BY <1>3 DEF LeavesHeir, Reported, Exact
  <2> QED
    BY <2>1, <2>2, <2>3, <2>4, <2>5, <2>6
<1>4. ASSUME NEW w \in Writers, Ends(w) PROVE CaptureInv'
  <2>1. Flags'
    BY <1>4 DEF Ends, Flags, Writers
  <2>2. Counted'
    BY <1>4 DEF Ends, Counted, Pending
  <2>3. TailsAreEnds'
    BY <1>4 DEF Ends, TailsAreEnds
  <2>4. DrainsSealed'
    BY <1>4 DEF Ends, DrainsSealed
  <2>5. Received'
    BY <1>4 DEF Ends, Received
  <2>6. Reported'
    BY <1>4 DEF Ends, Reported, Exact
  <2> QED
    BY <2>1, <2>2, <2>3, <2>4, <2>5, <2>6
<1>5. ASSUME Expire PROVE CaptureInv'
  BY <1>5 DEF Expire, Flags, Writers, Counted, Pending, TailsAreEnds,
       DrainsSealed, Received, Reported, Exact
<1>6. ASSUME StartCommand PROVE CaptureInv'
  BY <1>6 DEF StartCommand, Flags, Writers, Counted, Pending, TailsAreEnds,
       DrainsSealed, Received, Reported, Exact
<1>7. ASSUME StartFails PROVE CaptureInv'
  <2>1. Flags'
    BY <1>7 DEF StartFails, Flags, Writers
  <2>2. Counted'
    BY <1>7 DEF StartFails, Counted, Pending
  <2>3. TailsAreEnds'
    BY <1>7 DEF StartFails, TailsAreEnds
  <2>4. DrainsSealed'
    BY <1>7 DEF StartFails, DrainsSealed, Pending, AtEof
  <2>5. Received'
    BY <1>7 DEF StartFails, Received
  <2>6. Reported'
    <3>1. \A s \in Streams : drain[s] = "idle" /\ holds[s] = {} /\ sent[s] = 0
                             /\ original[s] = 0
      BY <1>7 DEF StartFails, Received, DrainsSealed, Counted
    <3>2. result' = [kind |-> "whole", bytes |-> NoBytes, count |-> NoCount]
      BY <1>7 DEF StartFails, Nothing
    <3>3. ASSUME NEW s \in Streams PROVE Exact(s)'
      <4>1. /\ holds'[s] = {} /\ original'[s] = sent'[s]
            /\ result'.count[s] = sent'[s] /\ sent'[s] = 0
        BY <3>1, <3>2, <1>7 DEF StartFails, NoCount
      <4>2. result'.bytes[s] = UpTo(0, 0)
        BY <3>2, EmptyUpTo DEF NoBytes
      <4> QED
        BY <4>1, <4>2 DEF Exact
    <3> QED
      BY <3>1, <3>2, <3>3, <1>7 DEF StartFails, Reported, NoBytes, NoCount
  <2> QED
    BY <2>1, <2>2, <2>3, <2>4, <2>5, <2>6
<1>8. ASSUME NEW s \in Streams, ReadsPipe(s) PROVE CaptureInv'
  <2>1. Flags'
    BY <1>8 DEF ReadsPipe, Flags, Writers
  <2>2. Counted'
    BY <1>8 DEF ReadsPipe, Counted, Pending
  <2>3. TailsAreEnds'
    BY <1>8 DEF ReadsPipe, TailsAreEnds
  <2>4. DrainsSealed'
    BY <1>8 DEF ReadsPipe, DrainsSealed, Pending, AtEof
  <2>5. Received'
    BY <1>8 DEF ReadsPipe, Received
  <2>6. Reported'
    BY <1>8 DEF ReadsPipe, Reported, Exact
  <2> QED
    BY <2>1, <2>2, <2>3, <2>4, <2>5, <2>6
<1>9. ASSUME NEW s \in Streams, WritesCapture(s) PROVE CaptureInv'
  <2>1. Flags'
    BY <1>9 DEF WritesCapture, Flags, Writers
  <2>2. Counted'
    BY <1>9 DEF WritesCapture, Counted, Pending
  <2>3. TailsAreEnds'
    <3> DEFINE o == original[s]
               k == buffer[s]
               max == limit.runner
    <3>1. o \in Nat /\ k \in Nat /\ max \in Nat \ {0}
      BY DEF Counted, Flags
    <3>2. tail[s] = UpTo(o, Least(o, max))
      BY DEF TailsAreEnds
    <3>3. tail' = [tail EXCEPT ![s] = Kept(tail[s], UpTo(o + k, k), max)]
      BY <1>9 DEF WritesCapture
    <3>4. original' = [original EXCEPT ![s] = o + k] /\ limit' = limit
      BY <1>9 DEF WritesCapture
    <3>5. tail'[s] = UpTo(original'[s], Least(original'[s], limit'.runner))
      <4> HIDE DEF o, k, max
      <4>1. Kept(UpTo(o, Least(o, max)), UpTo(o + k, k), max)
              = UpTo(o + k, Least(o + k, max))
        BY <3>1, KeptIsEnd
      <4>2. original'[s] = o + k /\ limit'.runner = max
        BY <3>4 DEF Counted, max
      <4>3. tail'[s] = Kept(tail[s], UpTo(o + k, k), max)
        BY <3>3 DEF TailsAreEnds
      <4> QED
        BY <3>2, <4>1, <4>2, <4>3
    <3>6. tail'[s] \in Seq(Int)
      <4>1. original'[s] \in Int /\ Least(original'[s], limit'.runner) \in Nat
        BY <3>1, <3>4 DEF Least, Counted
      <4> QED
        BY <3>5, <4>1, UpToShape, Zenon
    <3> QED
      BY <3>3, <3>4, <3>5, <3>6 DEF TailsAreEnds
  <2>4. DrainsSealed'
    BY <1>9 DEF WritesCapture, DrainsSealed, Pending, AtEof
  <2>5. Received'
    BY <1>9 DEF WritesCapture, Received
  <2>6. Reported'
    BY <1>9 DEF WritesCapture, Reported, Exact, DrainsSealed
  <2> QED
    BY <2>1, <2>2, <2>3, <2>4, <2>5, <2>6
<1>10. ASSUME NEW s \in Streams, EndsDrain(s) PROVE CaptureInv'
  <2>1. Flags'
    BY <1>10 DEF EndsDrain, Flags, Writers
  <2>2. Counted'
    BY <1>10 DEF EndsDrain, Counted, Pending
  <2>3. TailsAreEnds'
    BY <1>10 DEF EndsDrain, TailsAreEnds
  <2>4. DrainsSealed'
    <3>1. CASE drain' = [drain EXCEPT ![s] = "closed"]
      BY <1>10, <3>1 DEF EndsDrain, DrainsSealed, Flags
    <3>2. CASE AtEof(s) /\ drain' = [drain EXCEPT ![s] = "eof"]
      <4>1. original[s] = sent[s]
        BY <1>10, <3>2 DEF AtEof, Pending, EndsDrain, Counted
      <4> QED
        BY <1>10, <3>2, <4>1 DEF EndsDrain, DrainsSealed, AtEof, Flags
    <3> QED
      BY <1>10, <3>1, <3>2 DEF EndsDrain
  <2>5. Received'
    <3>1. drain[s] = "copying" /\ \A q \in Streams \ {s} : drain'[q] = drain[q]
      BY <1>10 DEF EndsDrain, Flags
    <3>2. s \notin taken /\ pc # "start"
      BY <3>1 DEF Received
    <3> QED
      BY <1>10, <3>1, <3>2 DEF EndsDrain, Received, Flags
  <2>6. Reported'
    BY <1>10 DEF EndsDrain, Reported, Exact
  <2> QED
    BY <2>1, <2>2, <2>3, <2>4, <2>5, <2>6
<1>11. ASSUME WaitReturns PROVE CaptureInv'
  BY <1>11 DEF WaitReturns, Flags, Writers, Counted, Pending, TailsAreEnds,
       DrainsSealed, Received, Reported, Exact
<1>12. ASSUME NEW s \in Streams, TakesDrain(s) PROVE CaptureInv'
  <2>1. Flags'
    BY <1>12 DEF TakesDrain, Flags, Writers
  <2>2. Counted'
    BY <1>12 DEF TakesDrain, Counted, Pending
  <2>3. TailsAreEnds'
    BY <1>12 DEF TakesDrain, TailsAreEnds
  <2>4. DrainsSealed'
    BY <1>12 DEF TakesDrain, DrainsSealed, Pending, AtEof
  <2>5. Received'
    BY <1>12 DEF TakesDrain, Received
  <2>6. Reported'
    BY <1>12 DEF TakesDrain, Reported, Exact
  <2> QED
    BY <2>1, <2>2, <2>3, <2>4, <2>5, <2>6
<1>13. ASSUME TimerFires PROVE CaptureInv'
  BY <1>13 DEF TimerFires, Flags, Writers, Counted, Pending, TailsAreEnds,
       DrainsSealed, Received, Reported, Exact
<1>14. ASSUME Collect PROVE CaptureInv'
  <2>1. Flags'
    BY <1>14 DEF Collect, Flags, Writers
  <2>2. Counted'
    BY <1>14 DEF Collect, Counted, Pending
  <2>3. TailsAreEnds'
    BY <1>14 DEF Collect, TailsAreEnds
  <2>4. DrainsSealed'
    BY <1>14 DEF Collect, DrainsSealed, Pending, AtEof
  <2>5. Received'
    BY <1>14 DEF Collect, Received
  <2>6. Reported'
    <3>1. /\ taken = Streams /\ pc = "drain" /\ pc' = "bound"
          /\ UNCHANGED <<holds, sent, original, drain, limit, complete>>
      BY <1>14 DEF Collect, Drained
    <3>2. \A s \in Streams : drain'[s] # "copying"
      BY <3>1 DEF Received
    <3>3. CASE ~complete
      <4>1. result' = [kind |-> "incomplete", bytes |-> NoBytes, count |-> original]
        BY <1>14, <3>3 DEF Collect
      <4>2. \A s \in Streams : original[s] <= sent[s]
        BY DEF Counted
      <4> QED
        BY <3>1, <3>2, <4>1, <4>2 DEF Reported, NoBytes, Counted
    <3>4. CASE complete
      <4> DEFINE size == [s \in Streams |-> Least(original[s], limit.runner)]
                 kept == Rebalanced(tail, limit.runner)
      <4>1. \A s \in Streams : holds[s] = {} /\ original[s] = sent[s]
        BY <3>1, <3>4 DEF Received, DrainsSealed
      <4>t. limit.runner \in Nat \ {0} /\ \A s \in Streams : original[s] \in Nat
        BY DEF Flags, Counted
      <4>2. /\ kept = [s \in Streams |-> kept[s]]
            /\ \A s \in Streams : \E n \in 0 .. size[s] :
                 /\ kept[s] = UpTo(original[s], n)
                 /\ size["out"] + size["err"] <= limit.runner => n = size[s]
        <5>2. \A s \in Streams : original[s] \in Nat /\ size[s] \in Nat
          BY <4>t DEF Least
        <5>3. \A s \in Streams : tail[s] = UpTo(original[s], size[s])
          BY DEF TailsAreEnds
        <5> HIDE DEF size
        <5> QED
          BY <4>t, <5>2, <5>3, RebalancedIsEnd
      <4>3. result' = [kind  |-> IF Exceeds(original, limit.runner) THEN "limit" ELSE "whole",
                       bytes |-> kept, count |-> original]
        BY <1>14, <3>4 DEF Collect
      <4>4. ~Exceeds(original, limit.runner) =>
              /\ size["out"] + size["err"] <= limit.runner
              /\ \A s \in Streams : size[s] = sent[s]
        BY <4>1, <4>t DEF Exceeds, Total, Least, Streams
      <4> HIDE DEF kept
      <4>5. ASSUME NEW s \in Streams PROVE Exact(s)'
        <5>1. PICK n \in 0 .. size[s] :
                /\ kept[s] = UpTo(original[s], n)
                /\ size["out"] + size["err"] <= limit.runner => n = size[s]
          BY <4>2
        <5>2. n \in 0 .. sent[s] /\ kept[s] = UpTo(sent[s], n)
          BY <4>1, <4>t, <5>1 DEF Least
        <5>3. result'.kind = "whole" => n = sent[s]
          BY <4>3, <4>4, <5>1
        <5>4. result'.bytes[s] = UpTo(sent'[s], n) /\ result'.count[s] = sent'[s]
          BY <3>1, <4>1, <4>3, <5>2
        <5> QED
          BY <3>1, <4>1, <5>2, <5>3, <5>4 DEF Exact
      <4> QED
        BY <3>1, <3>2, <4>2, <4>3, <4>5 DEF Reported, Counted
    <3> QED
      BY <3>3, <3>4 DEF Flags
  <2> QED
    BY <2>1, <2>2, <2>3, <2>4, <2>5, <2>6
<1>15. ASSUME BoundRunnerOutput PROVE CaptureInv'
  <2>1. Flags'
    BY <1>15 DEF BoundRunnerOutput, Flags, Writers
  <2>2. Counted'
    BY <1>15 DEF BoundRunnerOutput, Counted, Pending
  <2>3. TailsAreEnds'
    BY <1>15 DEF BoundRunnerOutput, TailsAreEnds
  <2>4. DrainsSealed'
    BY <1>15 DEF BoundRunnerOutput, DrainsSealed, Pending, AtEof
  <2>5. Received'
    BY <1>15 DEF BoundRunnerOutput, Received
  <2>6. Reported'
    <3>1. /\ pc = "bound" /\ pc' = "done"
          /\ UNCHANGED <<holds, sent, original, drain, limit>>
      BY <1>15 DEF BoundRunnerOutput
    <3>2. CASE result.kind = "incomplete"
      BY <1>15, <3>1, <3>2 DEF BoundRunnerOutput, Reported
    <3>3. CASE result.kind # "incomplete"
      <4> DEFINE max  == limit.caller
                 kept == [s \in Streams |-> Kept(<<>>, result.bytes[s], max)]
                 size == [s \in Streams |-> Least(Len(result.bytes[s]), max)]
                 last == Rebalanced(kept, max)
      <4>0. max \in Nat \ {0}
        BY DEF Flags
      <4>1. ASSUME NEW s \in Streams
            PROVE  /\ sent[s] \in Nat /\ Len(result.bytes[s]) \in 0 .. sent[s]
                   /\ result.kind = "whole" => Len(result.bytes[s]) = sent[s]
                   /\ result.count[s] = sent[s]
                   /\ kept[s] = UpTo(sent[s], size[s])
        <5>1. Exact(s) /\ sent[s] \in Nat
          BY <3>1, <3>3 DEF Reported, Counted
        <5>2. PICK n \in 0 .. sent[s] : /\ result.bytes[s] = UpTo(sent[s], n)
                                        /\ result.kind = "whole" => n = sent[s]
          BY <5>1 DEF Exact
        <5>3. sent[s] \in Int /\ n \in Nat
          BY <5>1, <5>2
        <5>4. Len(result.bytes[s]) = n
          <6> DEFINE end == sent[s]
          <6>1. end \in Int /\ n \in Nat
            BY <5>3
          <6> HIDE DEF end
          <6>2. Len(UpTo(end, n)) = n
            BY <6>1, UpToShape
          <6> QED
            BY <5>2, <6>2 DEF end
        <5>5. Kept(<<>>, result.bytes[s], max) = UpTo(sent[s], Least(n, max))
          BY <4>0, <5>2, <5>3, <5>4, KeptOfOne
        <5>6. result.count[s] = sent[s]
          BY <5>1 DEF Exact
        <5>7. kept[s] = UpTo(sent[s], size[s])
          BY <5>4, <5>5
        <5> HIDE DEF kept, size
        <5> QED
          BY <5>1, <5>2, <5>4, <5>6, <5>7
      <4>2. \A s \in Streams : CountOf(result)[s] = sent[s]
        BY <3>1, <3>3, <4>1 DEF CountOf, Reported
      <4>3. /\ last = [s \in Streams |-> last[s]]
            /\ \A s \in Streams : \E n \in 0 .. size[s] :
                 /\ last[s] = UpTo(sent[s], n)
                 /\ size["out"] + size["err"] <= max => n = size[s]
        <5>1. \A s \in Streams : sent[s] \in Nat /\ size[s] \in Nat
          BY <4>0, <4>1 DEF Least
        <5>2. \A s \in Streams : kept[s] = UpTo(sent[s], size[s])
          BY <4>1
        <5> HIDE DEF size, max, kept
        <5> QED
          BY <4>0, <5>1, <5>2, RebalancedIsEnd
      <4>4. result' = [kind  |-> IF Exceeds(CountOf(result), max) THEN "limit"
                                 ELSE result.kind,
                       bytes |-> last, count |-> CountOf(result)]
        BY <1>15, <3>3 DEF BoundRunnerOutput
      <4>5. ~Exceeds(CountOf(result), max) /\ result.kind = "whole" =>
              /\ size["out"] + size["err"] <= max
              /\ \A s \in Streams : size[s] = sent[s]
        BY <4>0, <4>1, <4>2 DEF Exceeds, Total, Least, Streams
      <4>6. CountOf(result) \in [Streams -> Nat]
        BY <4>1, <4>2 DEF CountOf, Reported
      <4> HIDE DEF last
      <4>7. ASSUME NEW s \in Streams PROVE Exact(s)'
        <5>1. PICK n \in 0 .. size[s] :
                /\ last[s] = UpTo(sent[s], n)
                /\ size["out"] + size["err"] <= max => n = size[s]
          BY <4>3
        <5>2. n \in 0 .. sent[s]
          BY <4>0, <4>1, <5>1 DEF Least
        <5>3. result'.kind = "whole" => n = sent[s]
          BY <4>4, <4>5, <5>1
        <5>4. /\ result'.bytes[s] = UpTo(sent'[s], n) /\ result'.count[s] = sent'[s]
              /\ holds'[s] = {} /\ original'[s] = sent'[s]
          BY <3>1, <3>3, <4>2, <4>4, <5>1 DEF Reported, Exact
        <5> QED
          BY <3>1, <5>2, <5>3, <5>4 DEF Exact
      <4> QED
        BY <3>1, <3>3, <4>3, <4>4, <4>6, <4>7 DEF Reported
    <3> QED
      BY <3>2, <3>3
  <2> QED
    BY <2>1, <2>2, <2>3, <2>4, <2>5, <2>6
<1>16. CASE Quiet \/ UNCHANGED vars
  BY <1>16 DEF Quiet, vars, Flags, Counted, TailsAreEnds, DrainsSealed, Received,
       Reported, Exact
<1> QED
  BY <1>1, <1>2, <1>3, <1>4, <1>5, <1>6, <1>7, <1>8, <1>9, <1>10, <1>11, <1>12, <1>13, <1>14, <1>15, <1>16
     DEF Next, Caller, Kill, Drains, Writers

\* Every reachable state satisfies CaptureInv.
LEMMA CaptureInvariant == Spec => []CaptureInv
BY CaptureInit, CaptureStep, PTL DEF Spec

-----------------------------------------------------------------------------
(* The theorems.                                                           *)

\* A run of positions that were sent is what TypeOK calls Bytes.
LEMMA SentBytes ==
  ASSUME NEW last \in 0 .. Supply, NEW n \in 0 .. last
  PROVE  UpTo(last, n) \in Bytes
BY DEF Bytes

\* Every variable keeps its type, however the streams are cut into reads.
THEOREM TypeCorrectness == Spec => []TypeOK
<1>1. CaptureInv => TypeOK
  <2> SUFFICES ASSUME CaptureInv PROVE TypeOK
    OBVIOUS
  <2> USE CaptureAssumption DEF CaptureInv
  <2>1. /\ sent \in [Streams -> 0 .. Supply] /\ buffer \in [Streams -> 0 .. Supply]
        /\ original \in [Streams -> 0 .. Supply]
    BY DEF Counted
  <2>2. tail \in [Streams -> Bytes]
    <3>1. ASSUME NEW s \in Streams PROVE tail[s] \in Bytes
      <4>1. /\ original[s] \in 0 .. Supply
            /\ Least(original[s], limit.runner) \in 0 .. original[s]
        <5>1. limit.runner \in Nat \ {0}
          BY DEF Flags
        <5> QED
          BY <2>1, <5>1 DEF Least
      <4>2. tail[s] = UpTo(original[s], Least(original[s], limit.runner))
        BY DEF TailsAreEnds
      <4> QED
        BY <4>1, <4>2, SentBytes, Zenon
    <3> QED
      BY <3>1 DEF TailsAreEnds
  <2>3. result.bytes \in [Streams -> Bytes]
    <3>1. ASSUME NEW s \in Streams PROVE result.bytes[s] \in Bytes
      <4>1. CASE result.bytes = NoBytes
        <5>1. result.bytes[s] = UpTo(0, 0) /\ 0 \in 0 .. Supply /\ 0 \in 0 .. 0
          BY <4>1, EmptyUpTo DEF NoBytes
        <5> QED
          BY <5>1, SentBytes, Zenon
      <4>2. CASE Exact(s)
        <5>1. PICK n \in 0 .. sent[s] : result.bytes[s] = UpTo(sent[s], n)
          BY <4>2 DEF Exact
        <5>2. sent[s] \in 0 .. Supply
          BY <2>1
        <5> QED
          BY <5>1, <5>2, SentBytes, Zenon
      <4> QED
        BY <4>1, <4>2 DEF Reported
    <3> QED
      BY <3>1 DEF Reported
  <2>4. result.count \in [Streams -> 0 .. Supply]
    <3>1. \A s \in Streams : result.count[s] \in Nat /\ result.count[s] <= sent[s]
      BY <2>1 DEF Reported, Exact
    <3> QED
      BY <2>1, <3>1 DEF Reported
  <2>5. result \in [kind  : {"none", "whole", "limit", "incomplete"},
                    bytes : [Streams -> Bytes], count : [Streams -> 0 .. Supply]]
    BY <2>3, <2>4 DEF Reported
  <2> QED
    BY <2>1, <2>2, <2>5 DEF TypeOK, Flags
<1> QED
  BY <1>1, CaptureInvariant, PTL

\* A capture that is not reported incomplete has the exact byte counts of both
\* streams, and nobody holds them any more, for every pair of limits and
\* whatever process outlived the command.
THEOREM CompleteCapturesAreExact == Spec => []CompleteIsExact
<1>1. CaptureInv => CompleteIsExact
  BY DEF CaptureInv, Reported, Exact, CompleteIsExact, Returned
<1> QED
  BY <1>1, CaptureInvariant, PTL

\* What is returned of a stream is its end, without a gap, however the reads
\* were cut and whatever the two limits are.
THEOREM StreamEndsAreReturned == Spec => []ReturnsStreamEnds
<1>1. CaptureInv => ReturnsStreamEnds
  <2> SUFFICES ASSUME CaptureInv, Returned, NEW s \in Streams
               PROVE  result.bytes[s] = UpTo(sent[s], Len(result.bytes[s]))
    BY DEF ReturnsStreamEnds
  <2>1. Exact(s) /\ sent[s] \in Int
    BY DEF CaptureInv, Reported, Returned, Counted
  <2>2. PICK n \in 0 .. sent[s] : result.bytes[s] = UpTo(sent[s], n)
    BY <2>1 DEF Exact
  <2>3. n \in Nat
    BY <2>1, <2>2
  <2>4. Len(UpTo(sent[s], n)) = n
    BY <2>1, <2>3, UpToShape, Zenon
  <2> QED
    BY <2>2, <2>4
<1> QED
  BY <1>1, CaptureInvariant, PTL

\* A result without metadata is all that was written: neither of the two limits
\* cuts a stream silently.
THEOREM CutsAreReported == Spec => []CutIsReported
<1>1. CaptureInv => CutIsReported
  <2> SUFFICES ASSUME CaptureInv, pc = "done", result.kind = "whole",
                      NEW s \in Streams
               PROVE  Len(result.bytes[s]) = sent[s]
    BY DEF CutIsReported
  <2>1. Exact(s) /\ sent[s] \in Nat /\ sent[s] \in Int
    BY DEF CaptureInv, Reported, Counted
  <2>2. result.bytes[s] = UpTo(sent[s], sent[s])
    BY <2>1 DEF Exact
  <2>3. Len(UpTo(sent[s], sent[s])) = sent[s]
    BY <2>1, UpToShape, Zenon
  <2> QED
    BY <2>2, <2>3
<1> QED
  BY <1>1, CaptureInvariant, PTL

\* After the result was taken no drain changes the capture.
THEOREM CaptureIsSealed == Spec => NoLateBytes
<1>1. CaptureInv /\ [Next]_vars =>
        [UNCHANGED capture \/ pc \notin {"bound", "done"}]_vars
  <2> SUFFICES ASSUME CaptureInv, [Next]_vars, pc \in {"bound", "done"}
               PROVE  UNCHANGED capture
    OBVIOUS
  <2>1. \A s \in Streams : ~WritesCapture(s)
    BY DEF CaptureInv, Reported, DrainsSealed, WritesCapture, Counted
  <2> QED
    BY <2>1 DEF Next, Caller, Kill, Drains, Quiet, vars, capture, Emits,
         ClosesStream, LeavesHeir, Ends, Expire, StartCommand, StartFails,
         ReadsPipe, EndsDrain, WaitReturns, TakesDrain, TimerFires, Collect,
         BoundRunnerOutput
<1> QED
  BY <1>1, CaptureInvariant, PTL DEF Spec, NoLateBytes
\* What a call has returned so far is a fair share under the limits it passed.
FairSoFar ==
  /\ pc = "bound" /\ result.kind # "incomplete" => Fair(Sizes, sent, limit.runner)
  /\ pc = "done" /\ result.kind # "incomplete" =>
       Fair(Sizes, sent, Least(limit.runner, limit.caller))

\* Fair looks at nothing but the two streams.
LEMMA FairOfSame ==
  ASSUME NEW a, NEW b, NEW counts, NEW max, \A s \in Streams : a[s] = b[s],
         Fair(a, counts, max)
  PROVE  Fair(b, counts, max)
BY DEF Fair, Total, Streams

\* Every action keeps FairSoFar.
LEMMA FairStep == CaptureInv /\ FairSoFar /\ [Next]_vars => FairSoFar'
<1> SUFFICES ASSUME CaptureInv, FairSoFar, [Next]_vars PROVE FairSoFar'
  OBVIOUS
<1>0. /\ limit.runner \in Nat \ {0} /\ limit.caller \in Nat \ {0}
      /\ \A s \in Streams : sent[s] \in Nat
  BY CaptureAssumption DEF CaptureInv, Flags, Counted
<1>1. CASE StartFails
  <2>1. /\ pc' = "bound" /\ result'.bytes = NoBytes /\ UNCHANGED <<sent, limit>>
    BY <1>1 DEF StartFails, Nothing, process
  <2>2. \A s \in Streams : sent[s] = 0
    BY <1>1 DEF StartFails, CaptureInv, Received, DrainsSealed
  <2>3. \A s \in Streams : Sizes'[s] = 0
    BY <2>1, EmptySeq DEF Sizes, NoBytes
  <2>4. Fair(Sizes', sent, limit.runner)
    <3>1. limit.runner \div 2 \in Nat
      BY <1>0
    <3> QED
      BY <1>0, <2>2, <2>3, <3>1 DEF Fair, Total, Least, Streams
  <2> QED
    BY <2>1, <2>4 DEF FairSoFar
<1>2. CASE Collect
  <2>1. /\ pc' = "bound" /\ UNCHANGED <<sent, limit>> /\ taken = Streams
        /\ ~complete => result'.kind = "incomplete"
        /\ complete => result'.bytes = Rebalanced(tail, limit.runner)
    BY <1>2 DEF Collect, Drained, process
  <2>2. CASE complete
    <3> DEFINE size == [s \in Streams |-> Least(sent[s], limit.runner)]
               share == Share(Least(sent["out"], limit.runner),
                              Least(sent["err"], limit.runner), limit.runner)
    <3>1. \A s \in Streams : original[s] = sent[s]
      BY <1>2, <2>1, <2>2 DEF CaptureInv, Received, DrainsSealed, Collect
    <3>2. \A s \in Streams : sent[s] \in Nat /\ size[s] \in Nat
      BY <1>0 DEF Least
    <3>3. \A s \in Streams : tail[s] = UpTo(sent[s], size[s])
      BY <3>1 DEF CaptureInv, TailsAreEnds
    <3>4. Share(size["out"], size["err"], limit.runner) = share
      BY DEF Streams
    <3> HIDE DEF size, share
    <3>5. \A s \in Streams : Len(Rebalanced(tail, limit.runner)[s]) = share[s]
      <4>1. \A s \in Streams : Len(Rebalanced(tail, limit.runner)[s])
                              = Share(size["out"], size["err"], limit.runner)[s]
        <5> DEFINE max == limit.runner
        <5>1. max \in Nat \ {0}
          BY <1>0
        <5> HIDE DEF max
        <5>2. \A s \in Streams : Len(Rebalanced(tail, max)[s])
                                = Share(size["out"], size["err"], max)[s]
          BY <3>2, <3>3, <5>1, RebalancedSizes
        <5> QED
          BY <5>2 DEF max
      <4> QED
        BY <3>4, <4>1
    <3>6. \A s \in Streams : share[s] = Sizes'[s]
      BY <2>1, <2>2, <3>5 DEF Sizes
    <3>7. Fair(share, sent, limit.runner)
      BY <1>0, ShareOfSent DEF share
    <3>8. Fair(Sizes', sent, limit.runner)
      BY <3>6, <3>7, FairOfSame
    <3> QED
      BY <2>1, <3>8 DEF FairSoFar
  <2> QED
    BY <2>1, <2>2 DEF FairSoFar
<1>3. CASE BoundRunnerOutput
  <2>1. pc = "bound" /\ pc' = "done" /\ UNCHANGED <<sent, limit>>
    BY <1>3 DEF BoundRunnerOutput, process
  <2>2. CASE result.kind = "incomplete"
    BY <1>3, <2>1, <2>2 DEF BoundRunnerOutput, FairSoFar
  <2>3. CASE result.kind # "incomplete"
    <3> DEFINE max   == limit.caller
               kept  == [s \in Streams |-> Kept(<<>>, result.bytes[s], max)]
               size  == [s \in Streams |-> Least(Sizes[s], max)]
               share == Share(Least(Sizes["out"], max), Least(Sizes["err"], max), max)
    <3>1. ASSUME NEW s \in Streams
          PROVE  /\ Sizes[s] \in Nat
                 /\ size[s] \in Nat /\ kept[s] = UpTo(sent[s], size[s])
      <4>1. sent[s] \in Int /\ max \in Nat \ {0}
        BY <1>0
      <4>2. PICK n \in 0 .. sent[s] : result.bytes[s] = UpTo(sent[s], n)
        BY <2>1, <2>3 DEF CaptureInv, Reported, Exact
      <4>3. n \in Nat
        BY <4>1, <4>2
      <4>4. Len(UpTo(sent[s], n)) = n
        BY <4>1, <4>3, UpToShape, Zenon
      <4>5. Sizes[s] = n
        BY <4>2, <4>4 DEF Sizes
      <4>6. Kept(<<>>, result.bytes[s], max) = UpTo(sent[s], Least(n, max))
        BY <4>1, <4>2, <4>3, KeptOfOne
      <4>7. Least(n, max) \in Nat
        BY <4>1, <4>3 DEF Least
      <4> QED
        BY <4>3, <4>5, <4>6, <4>7
    <3>2. result'.bytes = Rebalanced(kept, max)
      BY <1>3, <2>3 DEF BoundRunnerOutput
    <3>3. Share(size["out"], size["err"], max) = share
      BY DEF Streams
    <3> HIDE DEF kept, size, share
    <3>4. \A s \in Streams : Len(Rebalanced(kept, max)[s]) = share[s]
      <4>1. \A s \in Streams : sent[s] \in Nat /\ size[s] \in Nat
        BY <1>0, <3>1
      <4>2. \A s \in Streams : kept[s] = UpTo(sent[s], size[s])
        BY <3>1
      <4>3. \A s \in Streams : Len(Rebalanced(kept, max)[s])
                              = Share(size["out"], size["err"], max)[s]
        <5>1. max \in Nat \ {0}
          BY <1>0
        <5> HIDE DEF max
        <5> QED
          BY <4>1, <4>2, <5>1, RebalancedSizes
      <4> QED
        BY <3>3, <4>3
    <3>5. \A s \in Streams : share[s] = Sizes'[s]
      BY <3>2, <3>4 DEF Sizes
    <3>6. Fair(Sizes, sent, limit.runner)
      BY <2>1, <2>3 DEF FairSoFar
    <3>7. Fair(share, sent, Least(limit.runner, max))
      <4>1. \A s \in Streams : sent[s] \in Nat /\ Sizes[s] \in Nat
        BY <1>0, <3>1
      <4> QED
        BY <1>0, <3>6, <4>1, ShareOfFair DEF share
    <3>8. Fair(Sizes', sent, Least(limit.runner, max))
      BY <3>5, <3>7, FairOfSame
    <3> QED
      BY <2>1, <3>8 DEF FairSoFar
  <2> QED
    BY <2>2, <2>3
<1>4. CASE ~StartFails /\ ~Collect /\ ~BoundRunnerOutput
  <2>1. /\ pc' \in {"bound", "done"} => pc' = pc
        /\ UNCHANGED limit
    BY <1>4 DEF Next, Caller, Kill, Drains, Quiet, vars, Emits, ClosesStream,
       LeavesHeir, Ends, Expire, StartCommand, ReadsPipe, WritesCapture,
       EndsDrain, WaitReturns, TakesDrain, TimerFires
  <2>2. UNCHANGED result
    BY <1>4 DEF Next, Caller, Kill, Drains, Quiet, vars, Emits, ClosesStream,
       LeavesHeir, Ends, Expire, StartCommand, ReadsPipe, WritesCapture,
       EndsDrain, WaitReturns, TakesDrain, TimerFires
  <2>3. pc \in {"bound", "done"} /\ result.kind # "incomplete" => UNCHANGED sent
    <3> SUFFICES ASSUME pc \in {"bound", "done"}, result.kind # "incomplete"
                 PROVE  UNCHANGED sent
      OBVIOUS
    <3>1. \A s \in Streams : holds[s] = {}
      BY DEF CaptureInv, Reported, Exact
    <3>2. \A w \in Writers, s \in Streams : ~Emits(w, s)
      BY <3>1 DEF Emits
    <3> QED
      BY <1>4, <3>2 DEF Next, Caller, Kill, Drains, Quiet, vars, process, ClosesStream,
         LeavesHeir, Ends, Expire, StartCommand, ReadsPipe, WritesCapture,
         EndsDrain, WaitReturns, TakesDrain, TimerFires
  <2>4. Sizes' = Sizes
    BY <2>2 DEF Sizes
  <2> QED
    BY <2>1, <2>2, <2>3, <2>4 DEF FairSoFar
<1> QED
  BY <1>1, <1>2, <1>3, <1>4

\* The smaller of the two limits is kept to the last byte, and no stream is cut
\* below its half of it, for every pair of limits and every amount of output.
THEOREM LimitIsShared == Spec => []SharesTheLimit
<1>1. Init => FairSoFar
  BY DEF Init, FairSoFar
<1>2. CaptureInv /\ FairSoFar => SharesTheLimit
  <2> SUFFICES ASSUME CaptureInv, FairSoFar, pc = "done", result.kind # "incomplete"
               PROVE  /\ Total(Sizes) = Least(Total(sent), Least(limit.runner, limit.caller))
                      /\ \A s \in Streams : Sizes[s] >=
                           Least(sent[s], Least(limit.runner, limit.caller) \div 2)
    BY DEF SharesTheLimit, Sizes
  <2> DEFINE max == Least(limit.runner, limit.caller)
  <2>1. Fair(Sizes, sent, max)
    BY DEF FairSoFar
  <2>2. \A s \in Streams : sent[s] \in Nat
    BY DEF CaptureInv, Counted
  <2>3. max \in Nat
    BY CaptureAssumption DEF CaptureInv, Flags, Least
  <2> HIDE DEF max
  <2>4. max \div 2 \in Int
    BY <2>3
  <2>5. \A s \in Streams : Least(sent[s], max \div 2) \in Int
    BY <2>2, <2>4 DEF Least
  <2>6. \A s \in Streams : Sizes[s] >= Least(sent[s], max \div 2)
    BY <2>1, <2>2, <2>5 DEF Fair
  <2> QED
    BY <2>1, <2>6 DEF Fair, max
<1> QED
  BY <1>1, <1>2, FairStep, CaptureInvariant, PTL DEF Spec

-----------------------------------------------------------------------------
(* The promise.                                                            *)

\* What a result of exact counts must be called under a limit.
KindUnder(max) == IF Total(sent) > max THEN "limit" ELSE "whole"

\* What was taken is called so under the runner's limit, and is taken only when
\* nothing has made it doubtful or nothing was started.
Honest ==
  pc = "bound" =>
    /\ drain["out"] = "idle" => result.kind # "incomplete"
    /\ result.kind # "incomplete" =>
         /\ complete \/ drain["out"] = "idle"
         /\ result.kind = KindUnder(limit.runner)

\* Steps that leave the call where it is, and steps of the world around it.
LEMMA HonestFrame ==
  ASSUME CaptureInv, Honest, UNCHANGED <<limit, result, sent>>,
         pc' = "bound" => pc = "bound" /\ complete' = complete,
         drain'["out"] = "idle" <=> drain["out"] = "idle"
  PROVE  Honest'
BY DEF Honest, KindUnder

\* Every action keeps Honest.
LEMMA HonestStep == CaptureInv /\ Honest /\ [Next]_vars => Honest'
<1> SUFFICES ASSUME CaptureInv, Honest, [Next]_vars PROVE Honest'
  OBVIOUS
<1>0. /\ limit.runner \in Nat \ {0} /\ "out" \in Streams
      /\ \A s \in Streams : sent[s] \in Nat /\ drain[s] \in {"idle", "copying", "eof", "closed"}
      /\ drain \in [Streams -> {"idle", "copying", "eof", "closed"}]
  BY CaptureAssumption DEF CaptureInv, Flags, Counted, Streams
<1>1. CASE StartFails
  <2>1. /\ pc' = "bound" /\ result'.kind = "whole" /\ UNCHANGED <<sent, limit, drain>>
        /\ pc = "start"
    BY <1>1 DEF StartFails, Nothing, process
  <2>2. \A s \in Streams : sent[s] = 0 /\ drain[s] = "idle"
    BY <2>1 DEF CaptureInv, Received, DrainsSealed
  <2>3. KindUnder(limit.runner)' = "whole"
    BY <1>0, <2>1, <2>2 DEF KindUnder, Total, Streams
  <2> QED
    BY <1>0, <2>1, <2>2, <2>3 DEF Honest
<1>2. CASE Collect
  <2>1. /\ pc' = "bound" /\ UNCHANGED <<sent, limit, drain, complete>> /\ taken = Streams
        /\ pc = "drain"
        /\ ~complete => result'.kind = "incomplete"
        /\ complete => result'.kind = IF Exceeds(original, limit.runner) THEN "limit" ELSE "whole"
    BY <1>2 DEF Collect, Drained, process
  <2>2. drain["out"] # "idle"
    BY <1>0, <2>1 DEF CaptureInv, Received
  <2>3. complete => \A s \in Streams : original[s] = sent[s]
    BY <2>1 DEF CaptureInv, Received, DrainsSealed
  <2>4. complete => (Exceeds(original, limit.runner) <=> Total(sent) > limit.runner)
    BY <2>3 DEF Exceeds, Total, Streams
  <2> QED
    BY <2>1, <2>2, <2>4 DEF Honest, KindUnder
<1>3. CASE BoundRunnerOutput
  BY <1>3 DEF BoundRunnerOutput, Honest
<1>4. CASE \E w \in Writers, s \in Streams : Emits(w, s)
  <2>1. PICK w \in Writers, s \in Streams : Emits(w, s)
    BY <1>4
  <2>2. UNCHANGED <<pc, limit, result, drain, complete>> /\ holds[s] # {}
    BY <2>1 DEF Emits
  <2>3. pc = "bound" => result.kind = "incomplete"
    BY <2>2 DEF CaptureInv, Reported, Exact
  <2> QED
    BY <2>2, <2>3 DEF Honest
<1>5. CASE StartCommand \/ WaitReturns
  BY <1>5 DEF StartCommand, WaitReturns, Honest
<1>6. CASE (\E s \in Streams : TakesDrain(s)) \/ TimerFires
  BY <1>6 DEF TakesDrain, TimerFires, Honest
<1>7. CASE \E s \in Streams : EndsDrain(s)
  <2>1. PICK s \in Streams : EndsDrain(s)
    BY <1>7
  <2>2. UNCHANGED <<pc, limit, result, sent, complete>>
    BY <2>1 DEF EndsDrain, process
  <2>3. drain'["out"] = "idle" <=> drain["out"] = "idle"
    BY <1>0, <2>1 DEF EndsDrain
  <2> QED
    BY <2>2, <2>3, HonestFrame
<1>8. CASE \/ Expire \/ Kill \/ LeavesHeir \/ Quiet \/ UNCHANGED vars
           \/ \E s \in Streams : ReadsPipe(s) \/ WritesCapture(s)
           \/ \E w \in Writers : Ends(w)
           \/ \E w \in Writers, s \in Streams : ClosesStream(w, s)
  <2>1. UNCHANGED <<pc, limit, result, sent, complete, drain>>
    BY <1>8 DEF Expire, Kill, LeavesHeir, Quiet, ReadsPipe, WritesCapture, Ends,
       ClosesStream, process, vars
  <2> QED
    BY <2>1, HonestFrame
<1> QED
  BY <1>1, <1>2, <1>3, <1>4, <1>5, <1>6, <1>7, <1>8 DEF Next, Caller, Drains

\* What is known of every state.
PromiseInv == CaptureInv /\ FairSoFar /\ Honest

\* Steps that change neither the call's stage nor anything it is judged by.
LEMMA UnseenMaps ==
  ASSUME UNCHANGED <<limit, expired, sent, complete, result>>, openBar' = openBar,
         stageBar' = stageBar, pc' = "done" <=> pc = "done"
  PROVE  UNCHANGED Promise!promise
BY DEF Promise!promise, limitBar, answerBar

\* The world around the call: the deadline, and those who hold the streams.
LEMMA AroundMaps ==
  ASSUME \/ Expire \/ Kill \/ LeavesHeir
         \/ \E w \in Writers : Ends(w)
         \/ \E w \in Writers, s \in Streams : Emits(w, s) \/ ClosesStream(w, s)
  PROVE  Promise!Next
<1>1. UNCHANGED <<pc, drain, limit, complete, result>>
  BY DEF Expire, Kill, LeavesHeir, Ends, Emits, ClosesStream
<1>2. UNCHANGED <<stageBar, limitBar, answerBar>>
  BY <1>1 DEF stageBar, limitBar, answerBar
<1>3. CASE Expire
  BY <1>1, <1>2, <1>3 DEF Expire, process, openBar, Promise!Expire, Promise!Next
<1>4. CASE \E w \in Writers, s \in Streams : Emits(w, s)
  <2>1. PICK w \in Writers, s \in Streams : Emits(w, s)
    BY <1>4
  <2>2. /\ s \in openBar /\ openBar' = openBar /\ UNCHANGED expired
        /\ sent' = [sent EXCEPT ![s] = @ + 1]
    BY <2>1 DEF Emits, openBar
  <2>3. Promise!Write(s)
    BY <1>1, <1>2, <2>2 DEF Promise!Write
  <2> QED
    BY <2>3 DEF Promise!Next, Promise!Streams, Streams
<1>5. CASE \/ Kill \/ LeavesHeir
           \/ \E w \in Writers : Ends(w)
           \/ \E w \in Writers, s \in Streams : ClosesStream(w, s)
  <2>1. UNCHANGED <<expired, sent>>
    BY <1>5 DEF Kill, LeavesHeir, Ends, ClosesStream
  <2>2. \A s \in Streams : holds'[s] # {} => holds[s] # {}
    <3>1. CASE LeavesHeir
      BY <3>1 DEF LeavesHeir
    <3>2. CASE \E w \in Writers : Ends(w)
      BY <3>2 DEF Ends
    <3>3. CASE \E w \in Writers, s \in Streams : ClosesStream(w, s)
      BY <3>3 DEF ClosesStream
    <3> QED
      BY <1>5, <3>1, <3>2, <3>3 DEF Kill, Writers
  <2>3. openBar' \subseteq openBar
    BY <2>2 DEF openBar
  <2> QED
    BY <1>1, <1>2, <2>1, <2>3 DEF Promise!Close, Promise!Next
<1> QED
  BY <1>3, <1>4, <1>5

\* The command is started, or cannot be.
LEMMA StartMaps ==
  ASSUME PromiseInv, StartCommand \/ StartFails
  PROVE  Promise!Start \/ UNCHANGED Promise!promise
<1>1. CASE StartCommand
  <2>1. openBar' = Streams
    BY <1>1 DEF StartCommand, openBar
  <2>2. stageBar = "new" /\ stageBar' = "running"
    BY <1>1 DEF StartCommand, stageBar
  <2>3. UNCHANGED <<limitBar, answerBar>>
    BY <1>1 DEF StartCommand, limitBar, answerBar
  <2> QED
    BY <1>1, <2>1, <2>2, <2>3 DEF StartCommand, Promise!Start, Promise!Streams, Streams
<1>2. CASE StartFails
  <2>1. drain["out"] = "idle"
    BY <1>2 DEF StartFails, PromiseInv, CaptureInv, Received, Streams
  <2>2. stageBar' = stageBar
    BY <1>2, <2>1 DEF StartFails, stageBar
  <2>3. UNCHANGED <<limitBar, answerBar, openBar>>
    BY <1>2 DEF StartFails, process, limitBar, answerBar, openBar
  <2> QED
    BY <1>2, <2>2, <2>3 DEF StartFails, process, Promise!promise
<1> QED
  BY <1>1, <1>2

\* The two drains.
LEMMA DrainMaps ==
  ASSUME PromiseInv, NEW s \in Streams, Drains(s)
  PROVE  UNCHANGED Promise!promise
<1>1. UNCHANGED <<pc, limit, expired, holds, sent, complete, result>>
  BY DEF Drains, ReadsPipe, WritesCapture, EndsDrain, process
<1>2. drain'["out"] = "idle" <=> drain["out"] = "idle"
  BY DEF Drains, ReadsPipe, WritesCapture, EndsDrain, PromiseInv, CaptureInv, Flags, Streams
<1>3. openBar' = openBar /\ stageBar' = stageBar
  BY <1>1, <1>2 DEF openBar, stageBar
<1> QED
  BY <1>1, <1>3, UnseenMaps

\* The wait for the command, and for the drains.
LEMMA WaitMaps ==
  ASSUME PromiseInv,
         WaitReturns \/ TimerFires \/ \E s \in Streams : TakesDrain(s)
  PROVE  Promise!Next \/ UNCHANGED Promise!promise
<1>0. UNCHANGED <<limit, expired, sent, holds, result>>
  BY DEF WaitReturns, TimerFires, TakesDrain, process
<1>1. UNCHANGED <<limitBar, openBar>>
  BY <1>0 DEF limitBar, openBar
<1>2. CASE WaitReturns
  <2>1. stageBar = "running" /\ stageBar' = "reaped" /\ UNCHANGED answerBar
    BY <1>2 DEF WaitReturns, stageBar, answerBar
  <2>2. complete' \in BOOLEAN /\ (complete' => ~expired)
    BY <1>2 DEF WaitReturns
  <2> QED
    BY <1>0, <1>1, <2>1, <2>2 DEF Promise!Reap, Promise!Next
<1>3. CASE TimerFires \/ \E s \in Streams : TakesDrain(s)
  <2>1. pc = "drain" /\ pc' = "drain" /\ (complete' = FALSE \/ complete' = complete)
    BY <1>3 DEF TimerFires, TakesDrain, PromiseInv, CaptureInv, Flags
  <2>2. stageBar = "reaped" /\ stageBar' = "reaped" /\ UNCHANGED answerBar
    BY <2>1 DEF stageBar, answerBar
  <2> QED
    BY <1>0, <1>1, <2>1, <2>2 DEF Promise!Doubt, Promise!Next, Promise!promise
<1> QED
  BY <1>2, <1>3

\* What was taken is not answered yet.
LEMMA CollectMaps ==
  ASSUME PromiseInv, Collect
  PROVE  UNCHANGED Promise!promise
<1>1. /\ pc = "drain" /\ pc' = "bound" /\ taken = Streams
      /\ UNCHANGED <<limit, expired, holds, sent, drain, complete>>
  BY DEF Collect, Drained, process
<1>2. drain["out"] # "idle"
  BY <1>1 DEF PromiseInv, CaptureInv, Received, Streams
<1>3. UNCHANGED <<stageBar, limitBar, openBar, answerBar>>
  BY <1>1, <1>2 DEF stageBar, limitBar, openBar, answerBar
<1> QED
  BY <1>1, <1>3 DEF Promise!promise

\* The counts boundRunnerOutput goes by are exact.
LEMMA CountIsExact ==
  ASSUME CaptureInv, pc = "bound", result.kind # "incomplete", NEW s \in Streams
  PROVE  CountOf(result)[s] = sent[s]
<1>1. Exact(s) /\ sent[s] \in Nat /\ sent[s] \in Int /\ result.kind \in {"whole", "limit"}
  BY DEF CaptureInv, Reported, Counted
<1>2. CASE result.kind = "limit"
  BY <1>1, <1>2 DEF CountOf, Exact
<1>3. CASE result.kind = "whole"
  <2>1. result.bytes[s] = UpTo(sent[s], sent[s])
    BY <1>1, <1>3 DEF Exact
  <2>2. Len(UpTo(sent[s], sent[s])) = sent[s]
    BY <1>1, UpToShape, Zenon
  <2> QED
    BY <1>3, <2>1, <2>2 DEF CountOf
<1> QED
  BY <1>1, <1>2, <1>3

\* The answer.
LEMMA AnswerMaps ==
  ASSUME PromiseInv, FairSoFar', BoundRunnerOutput
  PROVE  Promise!Return
<1>0. /\ limit.runner \in Nat \ {0} /\ limit.caller \in Nat \ {0}
      /\ \A s \in Streams : sent[s] \in Nat
  BY CaptureAssumption DEF PromiseInv, CaptureInv, Flags, Counted
<1>1. /\ pc = "bound" /\ pc' = "done"
      /\ UNCHANGED <<limit, expired, holds, sent, drain, complete>>
  BY DEF BoundRunnerOutput, process
<1>2. /\ UNCHANGED <<limitBar, openBar>> /\ stageBar' = "returned"
      /\ stageBar = IF drain["out"] = "idle" THEN "new" ELSE "reaped"
      /\ answerBar' = [kind |-> result'.kind, size |-> Sizes']
  BY <1>1 DEF stageBar, limitBar, openBar, answerBar, Sizes
<1>3. CASE result.kind = "incomplete"
  <2>1. result' = result /\ result.bytes = NoBytes
    BY <1>3 DEF BoundRunnerOutput, PromiseInv, CaptureInv, Reported
  <2>2. Sizes' = [s \in Streams |-> 0]
    BY <2>1, EmptySeq DEF Sizes, NoBytes
  <2>3. stageBar = "reaped"
    BY <1>1, <1>2, <1>3 DEF PromiseInv, Honest
  <2>4. answerBar' = [kind |-> "incomplete", size |-> Promise!Empty]
    BY <1>2, <1>3, <2>1, <2>2 DEF Promise!Empty, Promise!Streams, Streams
  <2> QED
    BY <1>1, <1>2, <2>3, <2>4 DEF Promise!Return
<1>4. CASE result.kind # "incomplete"
  <2>1. stageBar = "new" \/ complete
    BY <1>1, <1>2, <1>4 DEF PromiseInv, Honest
  <2>2. openBar = {}
    BY <1>1, <1>4 DEF openBar, PromiseInv, CaptureInv, Reported, Exact
  <2>3. /\ result'.kind = IF Exceeds(CountOf(result), limit.caller) THEN "limit"
                          ELSE result.kind
        /\ result'.kind # "incomplete"
    BY <1>4 DEF BoundRunnerOutput
  <2>4. Exceeds(CountOf(result), limit.caller) <=> Total(sent) > limit.caller
    <3>1. \A s \in Streams : CountOf(result)[s] = sent[s]
      BY <1>1, <1>4, CountIsExact DEF PromiseInv
    <3> QED
      BY <3>1 DEF Exceeds, Total, Streams
  <2>5. result.kind = KindUnder(limit.runner)
    BY <1>1, <1>4 DEF PromiseInv, Honest
  <2>6. result'.kind = KindUnder(limitBar)
    <3>1. Total(sent) \in Nat
      BY <1>0 DEF Total, Streams
    <3> QED
      BY <1>0, <2>3, <2>4, <2>5, <3>1 DEF KindUnder, limitBar, Least
  <2>7. Fair(Sizes', sent, limitBar)
    BY <1>1, <2>3 DEF FairSoFar, limitBar
  <2>8. Promise!Complete(answerBar')
    <3>1. Promise!Fair(Sizes')
      BY <2>7 DEF Fair, Promise!Fair, Promise!Total, Promise!Least, Promise!Streams,
         Total, Least, Streams
    <3>2. result'.kind = IF Promise!Total(sent) > limitBar THEN "limit" ELSE "whole"
      BY <2>6 DEF KindUnder, Total, Promise!Total
    <3> QED
      BY <1>2, <2>2, <3>1, <3>2 DEF Promise!Complete
  <2> QED
    BY <1>1, <1>2, <2>1, <2>8 DEF Promise!Return
<1> QED
  BY <1>3, <1>4

\* Every step is one of the promise, or none.
LEMMA StepMaps ==
  ASSUME PromiseInv, FairSoFar', [Next]_vars
  PROVE  [Promise!Next]_(Promise!promise)
<1>1. CASE \/ Expire \/ Kill \/ LeavesHeir
           \/ \E w \in Writers : Ends(w)
           \/ \E w \in Writers, s \in Streams : Emits(w, s) \/ ClosesStream(w, s)
  BY <1>1, AroundMaps
<1>2. CASE StartCommand \/ StartFails
  BY <1>2, StartMaps DEF Promise!Next
<1>3. CASE \E s \in Streams : Drains(s)
  BY <1>3, DrainMaps
<1>4. CASE WaitReturns \/ TimerFires \/ \E s \in Streams : TakesDrain(s)
  BY <1>4, WaitMaps
<1>5. CASE Collect
  BY <1>5, CollectMaps
<1>6. CASE BoundRunnerOutput
  BY <1>6, AnswerMaps DEF Promise!Next
<1>7. CASE Quiet \/ UNCHANGED vars
  BY <1>7 DEF Quiet, vars, Promise!promise, stageBar, limitBar, openBar, answerBar
<1> QED
  BY <1>1, <1>2, <1>3, <1>4, <1>5, <1>6, <1>7 DEF Next, Caller

\* A capture keeps its promise, for all limits, pipe capacities and amounts of
\* output and whatever holds the streams: an answer is exact under the smaller
\* limit and final, or incomplete.
THEOREM CaptureImplementsPromise == Spec => ImplementsCapture
<1>1. Init => Promise!Init
  <2> SUFFICES ASSUME Init PROVE Promise!Init
    OBVIOUS
  <2>1. limitBar \in Nat \ {0}
    BY CaptureAssumption DEF Init, limitBar, Least
  <2>2. /\ stageBar = "new" /\ openBar = {}
        /\ answerBar = [kind |-> "none", size |-> NoCount]
    BY DEF Init, stageBar, openBar, answerBar
  <2>3. NoCount = Promise!Empty
    BY DEF NoCount, Promise!Empty, Promise!Streams, Streams
  <2> QED
    BY <2>1, <2>2, <2>3 DEF Init, Promise!Init
<1>2. Init => PromiseInv
  BY CaptureInit DEF PromiseInv, Init, FairSoFar, Honest
<1>3. PromiseInv /\ [Next]_vars => PromiseInv'
  BY CaptureStep, FairStep, HonestStep DEF PromiseInv
<1>4. PromiseInv /\ PromiseInv' /\ [Next]_vars => [Promise!Next]_(Promise!promise)
  BY StepMaps DEF PromiseInv
<1> QED
  BY <1>1, <1>2, <1>3, <1>4, PTL DEF Spec, ImplementsCapture, Promise!Spec
=============================================================================
