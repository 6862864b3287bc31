------------------------- MODULE CommandInputProofs -------------------------
(***************************************************************************)
(* What holds of the input of the cli for any lines, files and grammar,    *)
(* and any number of faults: the buffers, the line and the watch list fit  *)
(* together, and CommandInput implements CommandScript.                    *)
(***************************************************************************)
EXTENDS CommandInput, FiniteSetTheorems, SequenceTheorems, WellFoundedInduction, TLAPS

(* Induction over a set of numbers, from the least number outside it.      *)
LEMMA NatInd ==
  ASSUME NEW S, 0 \in S, \A n \in Nat : n \in S => n + 1 \in S
  PROVE  Nat \subseteq S
<1> DEFINE T == {n \in Nat : n \notin S}
<1> SUFFICES ASSUME T # {} PROVE FALSE
  OBVIOUS
<1>1. IsWellFoundedOn(OpToRel(<, Nat), Nat)
  BY NatLessThanWellFounded
<1>2. PICK n \in T : \A m \in T : <<m, n>> \notin OpToRel(<, Nat)
  BY <1>1, WFMin
<1>3. \A m \in T : ~(m < n)
  BY <1>2 DEF OpToRel
<1>4. n # 0 /\ n - 1 \in Nat
  OBVIOUS
<1>5. n - 1 \notin T
  BY <1>3, <1>4
<1>6. n - 1 \in S /\ n - 1 + 1 = n
  BY <1>4, <1>5
<1> QED
  BY <1>4, <1>6


(* FlattenSeq appends one sequence after the other.                        *)
LEMMA FlattenStep ==
  ASSUME NEW S, NEW q \in Seq(Seq(S)), Len(q) > 0
  PROVE  \E g \in [1 .. Len(q) -> Seq(S)] :
           /\ g[1] = q[1]
           /\ \A i \in 1 .. Len(q) - 1 : g[i + 1] = g[i] \o q[i + 1]
           /\ FlattenSeq(q) = g[Len(q)]
<1> DEFINE n == Len(q)
           Cat(x, i) == IF i = 1 THEN q[i] ELSE x \o q[i]
           Body(g) == [i \in 1 .. n |-> Cat(g[i - 1], i)]
           Upto(k) == {g \in [1 .. k -> Seq(S)] : \A i \in 1 .. k : g[i] = Cat(g[i - 1], i)}
           Good == {k \in Nat : k + 1 <= n => \E g : g \in Upto(k + 1)}
<1>0. n \in Nat \ {0} /\ \A i \in 1 .. n : q[i] \in Seq(S)
  OBVIOUS
<1>1. \A x, y : Cat(x, 1) = Cat(y, 1)
  OBVIOUS
<1>2. \A x : Cat(x, 1) \in Seq(S)
  BY <1>0
<1>3. \A x \in Seq(S) : \A i \in 1 .. n : Cat(x, i) \in Seq(S)
  BY <1>0
<1>c. Cat(n, 1) = q[1] /\ \A x : \A i \in 2 .. n : Cat(x, i) = x \o q[i]
  OBVIOUS
<1>d. FlattenSeq(q) = (CHOOSE x : x = Body(x))[n]
  BY <1>0, Zenon DEF FlattenSeq
<1> HIDE DEF Cat, n
<1>4. 0 \in Good
  <2> DEFINE h == [i \in 1 .. 1 |-> Cat(0, 1)]
  <2>1. h \in [1 .. 1 -> Seq(S)]
    BY <1>2
  <2>2. \A i \in 1 .. 1 : h[i] = Cat(h[i - 1], i)
    BY <1>1
  <2>3. h \in Upto(1)
    BY <2>1, <2>2
  <2> HIDE DEF Upto
  <2> QED
    BY <2>3, <1>0
<1>5. ASSUME NEW k \in Nat, k \in Good PROVE k + 1 \in Good
  <2> SUFFICES ASSUME k + 1 + 1 <= n PROVE \E h : h \in Upto(k + 1 + 1)
    <3> HIDE DEF Upto
    <3> QED
      OBVIOUS
  <2>1. PICK g : g \in Upto(k + 1)
    <3>1. k + 1 <= n
      BY <1>0
    <3> HIDE DEF Upto
    <3> QED
      BY <3>1, <1>5
  <2> DEFINE h == [i \in 1 .. k + 1 + 1 |-> IF i = k + 1 + 1 THEN Cat(g[k + 1], k + 1 + 1) ELSE g[i]]
  <2>2. Cat(g[k + 1], k + 1 + 1) \in Seq(S)
    BY <2>1, <1>0, <1>3
  <2>3. h \in [1 .. k + 1 + 1 -> Seq(S)]
    BY <2>1, <2>2
  <2>4. ASSUME NEW i \in 1 .. k + 1 + 1 PROVE h[i] = Cat(h[i - 1], i)
    <3>1. CASE i = k + 1 + 1
      BY <3>1
    <3>2. CASE i \in 2 .. k + 1
      BY <3>2, <2>1
    <3>3. CASE i = 1
      BY <3>3, <2>1, <1>1
    <3> QED
      BY <3>1, <3>2, <3>3
  <2>5. h \in Upto(k + 1 + 1)
    BY <2>3, <2>4
  <2> QED
    BY <2>5
<1>6. n - 1 \in Good
  <2> HIDE DEF Good
  <2>1. \A k \in Nat : k \in Good => k + 1 \in Good
    BY <1>5
  <2>2. Nat \subseteq Good
    BY <1>4, <2>1, NatInd
  <2> QED
    BY <1>0, <2>2
<1>7. PICK g : g \in Upto(n)
  <2>1. n - 1 + 1 = n /\ n - 1 + 1 <= n
    BY <1>0
  <2> HIDE DEF Upto
  <2> QED
    BY <2>1, <1>6
<1>8. g = Body(g)
  BY <1>7
<1> DEFINE f == CHOOSE x : x = Body(x)
<1>9. f = Body(f)
  <2> HIDE DEF Body
  <2> QED
    BY <1>8
<1> HIDE DEF f
<1> DEFINE Alike == {k \in Nat : k + 1 <= n => f[k + 1] = g[k + 1]}
<1>10. \A i \in 1 .. n : f[i] = Cat(f[i - 1], i) /\ g[i] = Cat(g[i - 1], i)
  BY <1>7, <1>9
<1>11. 0 \in Alike
  BY <1>0, <1>10, <1>1
<1>12. ASSUME NEW k \in Nat, k \in Alike PROVE k + 1 \in Alike
  <2> SUFFICES ASSUME k + 1 + 1 <= n PROVE f[k + 1 + 1] = g[k + 1 + 1]
    OBVIOUS
  <2>1. f[k + 1] = g[k + 1]
    BY <1>12, <1>0
  <2>2. f[k + 1 + 1] = Cat(f[k + 1], k + 1 + 1) /\ g[k + 1 + 1] = Cat(g[k + 1], k + 1 + 1)
    BY <1>10, <1>0
  <2> QED
    BY <2>1, <2>2
<1>13. f[n] = g[n]
  <2> HIDE DEF Alike
  <2>1. \A k \in Nat : k \in Alike => k + 1 \in Alike
    BY <1>12
  <2>2. Nat \subseteq Alike
    BY <1>11, <2>1, NatInd
  <2>3. n - 1 \in Alike
    BY <1>0, <2>2
  <2> QED
    BY <2>3, <1>0 DEF Alike
<1>14. g[1] = q[1] /\ \A i \in 1 .. n - 1 : g[i + 1] = g[i] \o q[i + 1]
  <2>1. g[1] = Cat(g[0], 1)
    BY <1>0, <1>10
  <2>2. Cat(g[0], 1) = Cat(n, 1)
    BY <1>1, Zenon
  <2>3. \A i \in 1 .. n - 1 : g[i + 1] = Cat(g[i], i + 1)
    BY <1>0, <1>10
  <2>4. \A i \in 1 .. n - 1 : Cat(g[i], i + 1) = g[i] \o q[i + 1]
    <3>1. \A i \in 1 .. n - 1 : i + 1 \in 2 .. n
      BY <1>0
    <3> QED
      BY <3>1, <1>c, Zenon
  <2> QED
    BY <2>1, <2>2, <2>3, <2>4, <1>c
<1>15. FlattenSeq(q) = g[n] /\ g \in [1 .. n -> Seq(S)]
  BY <1>7, <1>13, <1>d DEF f
<1> QED
  BY <1>14, <1>15 DEF n

(* What it returns consists of the elements of the sequences it is given.  *)
LEMMA FlattenOver ==
  ASSUME NEW S, NEW q \in Seq(Seq(S))
  PROVE  FlattenSeq(q) \in Seq(S)
<1>1. CASE Len(q) = 0
  <2>1. FlattenSeq(q) = q
    BY <1>1 DEF FlattenSeq
  <2>2. q = << >>
    BY <1>1
  <2> QED
    BY <2>1, <2>2
<1>2. CASE Len(q) > 0
  <2>1. PICK g \in [1 .. Len(q) -> Seq(S)] : FlattenSeq(q) = g[Len(q)]
    BY <1>2, FlattenStep
  <2>2. Len(q) \in 1 .. Len(q)
    BY <1>2
  <2> QED
    BY <2>1, <2>2
<1> QED
  BY <1>1, <1>2

-----------------------------------------------------------------------------
(* A sequence with one element more, flattened.                            *)
LEMMA FlattenAppend ==
  ASSUME NEW S, NEW q \in Seq(Seq(S)), NEW x \in Seq(S)
  PROVE  FlattenSeq(Append(q, x)) = FlattenSeq(q) \o x
<1> DEFINE a == Append(q, x)
           n == Len(q)
<1>1. a \in Seq(Seq(S)) /\ Len(a) = n + 1 /\ a[n + 1] = x /\ \A i \in 1 .. n : a[i] = q[i]
  OBVIOUS
<1>0. n \in Nat
  OBVIOUS
<1> HIDE DEF a, n
<1>2. PICK g \in [1 .. n + 1 -> Seq(S)] :
        /\ g[1] = a[1]
        /\ \A i \in 1 .. n : g[i + 1] = g[i] \o a[i + 1]
        /\ FlattenSeq(a) = g[n + 1]
  <2>1. Len(a) > 0 /\ Len(a) - 1 = n
    BY <1>0, <1>1
  <2>2. PICK g \in [1 .. Len(a) -> Seq(S)] :
          /\ g[1] = a[1]
          /\ \A i \in 1 .. Len(a) - 1 : g[i + 1] = g[i] \o a[i + 1]
          /\ FlattenSeq(a) = g[Len(a)]
    BY <2>1, <1>1, FlattenStep
  <2> QED
    BY <2>1, <2>2, <1>1
<1>3. CASE n = 0
  <2>1. q = << >> /\ FlattenSeq(q) = << >>
    BY <1>3 DEF FlattenSeq, n
  <2>2. FlattenSeq(a) = x
    BY <1>1, <1>2, <1>3
  <2> QED
    BY <2>1, <2>2 DEF a
<1>4. CASE n # 0
  <2>1. PICK h \in [1 .. n -> Seq(S)] :
          /\ h[1] = q[1]
          /\ \A i \in 1 .. n - 1 : h[i + 1] = h[i] \o q[i + 1]
          /\ FlattenSeq(q) = h[n]
    <3>1. Len(q) = n /\ Len(q) > 0
      BY <1>0, <1>4 DEF n
    <3>2. PICK h \in [1 .. Len(q) -> Seq(S)] :
            /\ h[1] = q[1]
            /\ \A i \in 1 .. Len(q) - 1 : h[i + 1] = h[i] \o q[i + 1]
            /\ FlattenSeq(q) = h[Len(q)]
      BY <3>1, FlattenStep
    <3> QED
      BY <3>1, <3>2
  <2> DEFINE Alike == {k \in Nat : k + 1 <= n => g[k + 1] = h[k + 1]}
  <2>2. 0 \in Alike
    BY <2>1, <1>0, <1>1, <1>2, <1>4
  <2>3. ASSUME NEW k \in Nat, k \in Alike PROVE k + 1 \in Alike
    <3> SUFFICES ASSUME k + 1 + 1 <= n PROVE g[k + 1 + 1] = h[k + 1 + 1]
      OBVIOUS
    <3>1. k + 1 \in 1 .. n - 1 /\ k + 1 \in 1 .. n /\ k + 1 + 1 \in 1 .. n /\ k + 1 <= n
      BY <1>0
    <3>2. g[k + 1] = h[k + 1]
      BY <2>3, <3>1
    <3>3. g[k + 1 + 1] = g[k + 1] \o a[k + 1 + 1] /\ h[k + 1 + 1] = h[k + 1] \o q[k + 1 + 1]
      BY <3>1, <1>2, <2>1
    <3>4. a[k + 1 + 1] = q[k + 1 + 1]
      BY <3>1, <1>1
    <3> QED
      BY <3>2, <3>3, <3>4
  <2>4. g[n] = h[n]
    <3> HIDE DEF Alike
    <3>1. \A k \in Nat : k \in Alike => k + 1 \in Alike
      BY <2>3
    <3>2. Nat \subseteq Alike
      BY <2>2, <3>1, NatInd
    <3>3. n - 1 \in Alike
      BY <1>0, <1>4, <3>2
    <3> QED
      BY <3>3, <1>0 DEF Alike
  <2>5. n \in 1 .. n
    BY <1>0, <1>4
  <2>6. g[n + 1] = g[n] \o a[n + 1]
    BY <2>5, <1>2
  <2> QED
    BY <2>1, <2>4, <2>6, <1>1, <1>2 DEF a
<1> QED
  BY <1>3, <1>4

LEMMA ConcatThree ==
  ASSUME NEW S, NEW a \in Seq(S), NEW b \in Seq(S), NEW c \in Seq(S)
  PROVE  (a \o b) \o c = a \o (b \o c)
<1>1. Len((a \o b) \o c) = Len(a \o (b \o c))
  OBVIOUS
<1>2. \A i \in 1 .. Len((a \o b) \o c) : ((a \o b) \o c)[i] = (a \o (b \o c))[i]
  OBVIOUS
<1>3. (a \o b) \o c \in Seq(S) /\ a \o (b \o c) \in Seq(S)
  OBVIOUS
<1> QED
  BY <1>1, <1>2, <1>3, SeqEqual

LEMMA FlattenEmpty == FlattenSeq(<< >>) = << >>
BY DEF FlattenSeq

(* Two sequences one after the other, flattened.                           *)
LEMMA FlattenCatOne ==
  ASSUME NEW S, NEW q \in Seq(Seq(S)), NEW v \in Seq(Seq(S)), NEW x \in Seq(S),
         FlattenSeq(q \o v) = FlattenSeq(q) \o FlattenSeq(v)
  PROVE  FlattenSeq(q \o Append(v, x)) = FlattenSeq(q) \o FlattenSeq(Append(v, x))
<1>1. q \o v \in Seq(Seq(S)) /\ q \o Append(v, x) = Append(q \o v, x)
  <2>1. /\ Append(q \o v, x) \in Seq(Seq(S)) /\ q \o Append(v, x) \in Seq(Seq(S))
        /\ Len(q \o Append(v, x)) = Len(Append(q \o v, x))
    OBVIOUS
  <2>2. \A i \in 1 .. Len(q \o Append(v, x)) : (q \o Append(v, x))[i] = Append(q \o v, x)[i]
    OBVIOUS
  <2> QED
    BY <2>1, <2>2, SeqEqual
<1>2. FlattenSeq(Append(q \o v, x)) = FlattenSeq(q \o v) \o x
  BY <1>1, FlattenAppend
<1>3. FlattenSeq(Append(v, x)) = FlattenSeq(v) \o x
  BY FlattenAppend
<1> DEFINE fq == FlattenSeq(q)
           fv == FlattenSeq(v)
<1>4. fq \in Seq(S) /\ fv \in Seq(S)
  BY FlattenOver
<1> HIDE DEF fq, fv
<1>5. (fq \o fv) \o x = fq \o (fv \o x)
  <2>1. ASSUME NEW a \in Seq(S), NEW b \in Seq(S) PROVE (a \o b) \o x = a \o (b \o x)
    BY ConcatThree
  <2> QED
    BY <1>4, <2>1
<1> QED
  BY <1>1, <1>2, <1>3, <1>5 DEF fq, fv

LEMMA FlattenCat ==
  ASSUME NEW S, NEW q \in Seq(Seq(S)), NEW r \in Seq(Seq(S))
  PROVE  FlattenSeq(q \o r) = FlattenSeq(q) \o FlattenSeq(r)
<1> DEFINE Good == {k \in Nat : \A w \in Seq(Seq(S)) :
                                  Len(w) = k => FlattenSeq(q \o w) = FlattenSeq(q) \o FlattenSeq(w)}
<1>1. 0 \in Good
  <2> SUFFICES ASSUME NEW w \in Seq(Seq(S)), Len(w) = 0
               PROVE  FlattenSeq(q \o w) = FlattenSeq(q) \o FlattenSeq(w)
    OBVIOUS
  <2>1. w = << >> /\ q \o w = q
    OBVIOUS
  <2>2. FlattenSeq(q) \in Seq(S)
    BY FlattenOver
  <2>3. FlattenSeq(q) \o << >> = FlattenSeq(q)
    BY <2>2
  <2> QED
    BY <2>1, <2>3, FlattenEmpty
<1>2. ASSUME NEW k \in Nat, k \in Good PROVE k + 1 \in Good
  <2> SUFFICES ASSUME NEW w \in Seq(Seq(S)), Len(w) = k + 1
               PROVE  FlattenSeq(q \o w) = FlattenSeq(q) \o FlattenSeq(w)
    OBVIOUS
  <2>1. PICK v \in Seq(Seq(S)), x \in Seq(S) : w = Append(v, x)
    <3> DEFINE v == SubSeq(w, 1, k)
    <3>1. v \in Seq(Seq(S)) /\ w[k + 1] \in Seq(S)
      OBVIOUS
    <3>2. w = Append(v, w[k + 1])
      OBVIOUS
    <3> HIDE DEF v
    <3> QED
      BY <3>1, <3>2
  <2>2. Len(v) = k
    BY <2>1
  <2>3. FlattenSeq(q \o v) = FlattenSeq(q) \o FlattenSeq(v)
    BY <2>2, <1>2
  <2> QED
    BY <2>1, <2>3, FlattenCatOne
<1> HIDE DEF Good
<1>3. \A k \in Nat : k \in Good => k + 1 \in Good
  BY <1>2
<1>4. Nat \subseteq Good
  BY <1>1, <1>3, NatInd
<1>5. Len(r) \in Good
  BY <1>4
<1> QED
  BY <1>5 DEF Good

(* The first of a sequence of buffers.                                     *)
LEMMA FlattenHead ==
  ASSUME NEW S, NEW q \in Seq(Seq(S)), q # << >>
  PROVE  FlattenSeq(q) = Head(q) \o FlattenSeq(Tail(q))
<1>1. Head(q) \in Seq(S) /\ Tail(q) \in Seq(Seq(S)) /\ q = <<Head(q)>> \o Tail(q)
  OBVIOUS
<1>2. << >> \in Seq(Seq(S)) /\ <<Head(q)>> = Append(<< >>, Head(q)) /\ <<Head(q)>> \in Seq(Seq(S))
  BY <1>1
<1>3. FlattenSeq(<<Head(q)>>) = << >> \o Head(q)
  BY <1>1, <1>2, FlattenAppend, FlattenEmpty
<1>4. << >> \o Head(q) = Head(q)
  BY <1>1
<1>5. FlattenSeq(<<Head(q)>> \o Tail(q)) = FlattenSeq(<<Head(q)>>) \o FlattenSeq(Tail(q))
  BY <1>1, <1>2, FlattenCat
<1> QED
  BY <1>1, <1>3, <1>4, <1>5

-----------------------------------------------------------------------------
(* A token more of a file, in the records of it.                           *)
LEMMA TakenFlat ==
  ASSUME NEW S, NEW records \in Seq(Seq(S)), Len(records) > 0, NEW token \in S
  PROVE  /\ Taken(records, token) \in Seq(Seq(S))
         /\ Len(Taken(records, token)) > 0
         /\ FlattenSeq(Taken(records, token)) = Append(FlattenSeq(records), token)
<1> DEFINE last == Len(records)
           x == records[last]
           front == SubSeq(records, 1, last - 1)
           grown == [records EXCEPT ![last] = Append(@, token)]
<1>1. /\ last \in Nat \ {0} /\ x \in Seq(S) /\ Append(x, token) \in Seq(S)
      /\ front \in Seq(Seq(S)) /\ Len(front) = last - 1
  <2>1. last \in Nat \ {0} /\ x \in Seq(S)
    OBVIOUS
  <2>2. front \in Seq(Seq(S)) /\ Len(front) = last - 1
    <3>1. \A i \in 1 .. last - 1 : records[i] \in Seq(S)
      OBVIOUS
    <3> HIDE DEF last
    <3> QED
      BY <2>1, <3>1, SubSeqProperties
  <2> QED
    BY <2>1, <2>2
<1>2. records = Append(front, x)
  OBVIOUS
<1>3. grown = Append(front, Append(x, token))
  <2> DEFINE other == Append(front, Append(x, token))
  <2>0. Append(x, token) \in Seq(S)
    BY <1>1
  <2>1. grown \in Seq(Seq(S)) /\ Len(grown) = last
    OBVIOUS
  <2>2. other \in Seq(Seq(S)) /\ Len(other) = last
    <3> HIDE DEF front, x
    <3> QED
      BY <1>1, <2>0
  <2>3. \A i \in 1 .. last - 1 : grown[i] = other[i]
    OBVIOUS
  <2>4. grown[last] = other[last]
    <3>1. grown[last] = Append(x, token)
      OBVIOUS
    <3>2. other[last] = Append(x, token)
      <4> HIDE DEF front, x
      <4> QED
        BY <1>1, <2>0
    <3> QED
      BY <3>1, <3>2
  <2>5. \A i \in 1 .. Len(grown) : grown[i] = other[i]
    <3> HIDE DEF grown, other
    <3>1. \A i \in 1 .. last : i \in 1 .. last - 1 \/ i = last
      OBVIOUS
    <3> QED
      BY <2>1, <2>3, <2>4, <3>1
  <2> HIDE DEF grown, other
  <2>6. grown = other
    BY <2>1, <2>2, <2>5, SeqEqual
  <2> QED
    BY <2>6 DEF other
<1>4. grown \in Seq(Seq(S)) /\ Len(grown) = last
  OBVIOUS
<1> HIDE DEF last, x, front, grown
<1>5. FlattenSeq(records) = FlattenSeq(front) \o x
  BY <1>1, <1>2, FlattenAppend
<1>6. FlattenSeq(grown) = FlattenSeq(front) \o Append(x, token)
  BY <1>1, <1>3, FlattenAppend
<1>7. FlattenSeq(front) \in Seq(S)
  BY <1>1, FlattenOver
<1>8. FlattenSeq(grown) = Append(FlattenSeq(records), token)
  <2> DEFINE before == FlattenSeq(front)
  <2>1. before \in Seq(S) /\ x \in Seq(S) /\ token \in S
    BY <1>1, <1>7
  <2> HIDE DEF before
  <2>2. before \o Append(x, token) = Append(before \o x, token)
    BY <2>1
  <2> QED
    BY <1>5, <1>6, <2>2 DEF before
<1>9. FlattenSeq(Append(grown, << >>)) = FlattenSeq(grown)
  <2>1. << >> \in Seq(S)
    OBVIOUS
  <2>2. FlattenSeq(grown) \in Seq(S)
    BY <1>4, FlattenOver
  <2>3. FlattenSeq(Append(grown, << >>)) = FlattenSeq(grown) \o << >>
    BY <1>4, <2>1, FlattenAppend
  <2> QED
    BY <2>2, <2>3
<1>10. Taken(records, token) = IF token = EOL THEN Append(grown, << >>) ELSE grown
  BY DEF Taken, last, grown
<1>11. << >> \in Seq(S)
  OBVIOUS
<1>12. Append(grown, << >>) \in Seq(Seq(S)) /\ Len(Append(grown, << >>)) > 0 /\ Len(grown) > 0
  BY <1>1, <1>4, <1>11
<1>13. CASE token = EOL
  BY <1>13, <1>8, <1>9, <1>10, <1>1, <1>12, Zenon
<1>14. CASE token # EOL
  BY <1>14, <1>8, <1>10, <1>4, <1>12, Zenon
<1> QED
  BY <1>13, <1>14

(* The records of a file are the file, cut in pieces.                      *)
LEMMA RecordsFlat ==
  ASSUME NEW S, NEW text \in Seq(S)
  PROVE  /\ Records(text) \in Seq(Seq(S))
         /\ Len(Records(text)) > 0
         /\ FlattenSeq(Records(text)) = text
<1> DEFINE n == Len(text)
           Piece(before, i) == IF i = 0 THEN << << >> >> ELSE Taken(before, text[i])
           Body(g) == [i \in 0 .. n |-> Piece(g[i - 1], i)]
           Whole(i, r) ==
             /\ r \in Seq(Seq(S)) /\ Len(r) > 0
             /\ FlattenSeq(r) = SubSeq(text, 1, i)
<1>0. n \in Nat /\ \A i \in 1 .. n : text[i] \in S
  OBVIOUS
<1>1. \A x, y : Piece(x, 0) = Piece(y, 0)
  OBVIOUS
<1>2. \A x : Whole(0, Piece(x, 0))
  <2>1. << >> \in Seq(S) /\ << >> \in Seq(Seq(S)) /\ << << >> >> = Append(<< >>, << >>)
    OBVIOUS
  <2>2. << << >> >> \in Seq(Seq(S)) /\ Len(<< << >> >>) = 1
    BY <2>1
  <2>3. FlattenSeq(<< << >> >>) = << >> \o << >>
    BY <2>1, FlattenAppend, FlattenEmpty
  <2>4. << >> \o << >> = << >> /\ SubSeq(text, 1, 0) = << >>
    OBVIOUS
  <2> QED
    BY <2>2, <2>3, <2>4
<1>3. \A i \in 1 .. n : \A x : Whole(i - 1, x) => Whole(i, Piece(x, i))
  <2> SUFFICES ASSUME NEW i \in 1 .. n, NEW x, Whole(i - 1, x) PROVE Whole(i, Piece(x, i))
    OBVIOUS
  <2>1. x \in Seq(Seq(S)) /\ Len(x) > 0 /\ text[i] \in S
    BY <1>0
  <2>2. Piece(x, i) = Taken(x, text[i])
    BY <1>0
  <2>3. Append(SubSeq(text, 1, i - 1), text[i]) = SubSeq(text, 1, i)
    OBVIOUS
  <2>4. /\ Taken(x, text[i]) \in Seq(Seq(S))
        /\ Len(Taken(x, text[i])) > 0
        /\ FlattenSeq(Taken(x, text[i])) = Append(FlattenSeq(x), text[i])
    BY <2>1, TakenFlat
  <2> QED
    BY <2>2, <2>3, <2>4
<1>d. Records(text) = (CHOOSE x : x = Body(x))[n]
  BY Zenon DEF Records
<1> HIDE DEF Piece, n
<1> DEFINE f == CHOOSE x : x = Body(x)
           Holds(k) == k <= n => \E g \in [0 .. k -> Seq(Seq(S))] :
                                   \A i \in 0 .. k : g[i] = Piece(g[i - 1], i) /\ Whole(i, g[i])
           Found == {k \in Nat : Holds(k)}
<1>4. 0 \in Found
  <2> DEFINE h == [i \in 0 .. 0 |-> Piece(0, 0)]
  <2>1. h \in [0 .. 0 -> Seq(Seq(S))]
    BY <1>2
  <2>2. \A i \in 0 .. 0 : h[i] = Piece(h[i - 1], i) /\ Whole(i, h[i])
    BY <1>1, <1>2
  <2> HIDE DEF Whole, h
  <2> QED
    BY <2>1, <2>2, <1>0
<1>5. ASSUME NEW k \in Nat, k \in Found PROVE k + 1 \in Found
  <2> SUFFICES ASSUME k + 1 <= n PROVE Holds(k + 1)
    <3>1. k + 1 <= n => Holds(k + 1)
      OBVIOUS
    <3>2. Holds(k + 1)
      <4> HIDE DEF Whole
      <4> QED
        BY <3>1
    <3> HIDE DEF Holds
    <3> QED
      BY <3>2
  <2>1. PICK g \in [0 .. k -> Seq(Seq(S))] :
          \A i \in 0 .. k : g[i] = Piece(g[i - 1], i) /\ Whole(i, g[i])
    <3>1. k <= n
      BY <1>0
    <3> HIDE DEF Whole
    <3> QED
      BY <3>1, <1>5
  <2> DEFINE h == [i \in 0 .. k + 1 |-> IF i = k + 1 THEN Piece(g[k], k + 1) ELSE g[i]]
  <2>2. Whole(k + 1, Piece(g[k], k + 1))
    <3>1. Whole(k, g[k])
      BY <2>1
    <3>2. k + 1 \in 1 .. n /\ k + 1 - 1 = k
      BY <1>0
    <3> HIDE DEF Whole
    <3> QED
      BY <3>1, <3>2, <1>3
  <2>3. h \in [0 .. k + 1 -> Seq(Seq(S))]
    BY <2>2, <2>1
  <2> HIDE DEF Whole
  <2>4. ASSUME NEW i \in 0 .. k + 1 PROVE h[i] = Piece(h[i - 1], i) /\ Whole(i, h[i])
    <3>1. CASE i = k + 1
      <4>1. h[i - 1] = g[k] /\ h[i] = Piece(g[k], k + 1)
        BY <3>1
      <4> QED
        BY <4>1, <3>1, <2>2
    <3>2. CASE i \in 1 .. k
      <4>1. h[i - 1] = g[i - 1] /\ h[i] = g[i]
        BY <3>2
      <4> QED
        BY <4>1, <3>2, <2>1
    <3>3. CASE i = 0
      <4>1. h[i] = g[i]
        BY <3>3
      <4>2. g[i] = Piece(g[i - 1], i) /\ Whole(i, g[i])
        BY <3>3, <2>1
      <4>3. Piece(g[i - 1], i) = Piece(h[i - 1], i)
        BY <3>3, <1>1
      <4> QED
        BY <4>1, <4>2, <4>3
    <3> QED
      BY <3>1, <3>2, <3>3
  <2> HIDE DEF h
  <2> QED
    BY <2>3, <2>4
<1>6. PICK g \in [0 .. n -> Seq(Seq(S))] :
        \A i \in 0 .. n : g[i] = Piece(g[i - 1], i) /\ Whole(i, g[i])
  <2> HIDE DEF Holds
  <2>1. \A k \in Nat : k \in Found => k + 1 \in Found
    BY <1>5
  <2>2. Nat \subseteq Found
    <3> HIDE DEF Found
    <3> QED
      BY <1>4, <2>1, NatInd
  <2>3. Holds(n)
    BY <1>0, <2>2
  <2>4. n <= n
    BY <1>0
  <2> HIDE DEF Whole
  <2> QED
    BY <2>3, <2>4 DEF Holds
<1> HIDE DEF Whole
<1>7. g = Body(g)
  BY <1>6
<1>8. f = Body(f)
  <2> HIDE DEF Body
  <2> QED
    BY <1>7
<1> HIDE DEF f
<1> DEFINE Alike == {k \in Nat : k <= n => f[k] = g[k]}
<1>9. \A i \in 0 .. n : f[i] = Piece(f[i - 1], i) /\ g[i] = Piece(g[i - 1], i)
  BY <1>6, <1>8
<1>10. 0 \in Alike
  BY <1>0, <1>9, <1>1
<1>11. ASSUME NEW k \in Nat, k \in Alike PROVE k + 1 \in Alike
  <2> SUFFICES ASSUME k + 1 <= n PROVE f[k + 1] = g[k + 1]
    OBVIOUS
  <2>1. f[k] = g[k] /\ k + 1 \in 0 .. n /\ k + 1 - 1 = k
    BY <1>11, <1>0
  <2>2. f[k + 1] = Piece(f[k], k + 1) /\ g[k + 1] = Piece(g[k], k + 1)
    BY <1>9, <2>1
  <2> QED
    BY <2>1, <2>2
<1>12. f[n] = g[n]
  <2> HIDE DEF Alike
  <2>1. \A k \in Nat : k \in Alike => k + 1 \in Alike
    BY <1>11
  <2>2. n \in Alike
    BY <1>0, <1>10, <2>1, NatInd
  <2> QED
    BY <2>2, <1>0 DEF Alike
<1>13. Whole(n, g[n])
  BY <1>0, <1>6
<1>14. SubSeq(text, 1, n) = text
  BY DEF n
<1> QED
  BY <1>12, <1>13, <1>14, <1>d DEF f, Whole

-----------------------------------------------------------------------------
(* Thinned looks for the tokens of s in t, each as early as it can.  It    *)
(* finds them all if there is any way to find them, which "to" describes:  *)
(* of the first j tokens of t, to[j] tokens of s are made.                 *)
LEMMA ThinnedBy ==
  ASSUME NEW S, NEW s \in Seq(S), NEW t \in Seq(S),
         NEW to \in [0 .. Len(t) -> Nat], to[0] = 0, to[Len(t)] = Len(s),
         \A j \in 1 .. Len(t) : \/ to[j] = to[j - 1]
                                \/ to[j] = to[j - 1] + 1 /\ to[j] <= Len(s) /\ s[to[j]] = t[j]
  PROVE  Script!Thinned(s, t)
<1> DEFINE n == Len(t)
           m == Len(s)
           Next1(k, j) == IF k < m /\ s[k + 1] = t[j] THEN k + 1 ELSE k
           Piece(before, j) == IF j = 0 THEN 0 ELSE Next1(before, j)
           Body(g) == [j \in 0 .. n |-> Piece(g[j - 1], j)]
           f == CHOOSE x : x = Body(x)
<1>0. n \in Nat /\ m \in Nat
  OBVIOUS
<1>d. Script!Thinned(s, t) <=> f[n] = m
  BY Zenon DEF Script!Thinned
<1>1. \A x : Piece(x, 0) = 0
  OBVIOUS
<1>2. \A k \in 0 .. m : \A j \in 1 .. n : Piece(k, j) \in 0 .. m /\ Piece(k, j) >= k
  BY <1>0
<1>3. \A k \in 0 .. m : \A j \in 1 .. n : k >= to[j - 1] => Piece(k, j) >= to[j]
  <2> SUFFICES ASSUME NEW k \in 0 .. m, NEW j \in 1 .. n, k >= to[j - 1] PROVE Piece(k, j) >= to[j]
    OBVIOUS
  <2>1. to[j] \in Nat /\ to[j - 1] \in Nat
    <3>1. j \in 0 .. n /\ j - 1 \in 0 .. n
      BY <1>0
    <3> HIDE DEF Piece
    <3> QED
      BY <3>1
  <2>2. Piece(k, j) = Next1(k, j)
    OBVIOUS
  <2>3. CASE to[j] = to[j - 1]
    BY <2>1, <2>3, <1>2
  <2>4. CASE to[j] = to[j - 1] + 1 /\ to[j] <= m /\ s[to[j]] = t[j]
    <3>1. CASE k = to[j - 1]
      BY <2>1, <2>2, <2>4, <3>1
    <3>2. CASE k > to[j - 1]
      BY <2>1, <2>4, <3>2, <1>2
    <3> QED
      BY <2>1, <3>1, <3>2
  <2> QED
    BY <2>3, <2>4
<1>15. \A k \in 0 .. m : \A j \in 0 .. n - 1 : k >= to[j] => Piece(k, j + 1) >= to[j + 1]
  <2> SUFFICES ASSUME NEW k \in 0 .. m, NEW j \in 0 .. n - 1, k >= to[j] PROVE Piece(k, j + 1) >= to[j + 1]
    OBVIOUS
  <2> DEFINE i == j + 1
  <2>1. i \in 1 .. n /\ i - 1 = j
    BY <1>0
  <2> HIDE DEF i, Piece, n, m
  <2>2. Piece(k, i) >= to[i]
    BY <2>1, <1>3
  <2> QED
    BY <2>2 DEF i
<1> HIDE DEF Piece, n, m
<1> DEFINE Holds(k) == k <= n => \E g \in [0 .. k -> 0 .. m] :
                                   \A j \in 0 .. k : g[j] = Piece(g[j - 1], j) /\ g[j] >= to[j]
           Found == {k \in Nat : Holds(k)}
<1>4. 0 \in Found
  <2> DEFINE h == [j \in 0 .. 0 |-> 0]
  <2>1. h \in [0 .. 0 -> 0 .. m]
    BY <1>0
  <2>2. \A j \in 0 .. 0 : h[j] = Piece(h[j - 1], j) /\ h[j] >= to[j]
    BY <1>1
  <2> HIDE DEF h
  <2> QED
    BY <2>1, <2>2, <1>0
<1>5. ASSUME NEW k \in Nat, k \in Found PROVE k + 1 \in Found
  <2> SUFFICES ASSUME k + 1 <= n PROVE Holds(k + 1)
    <3>1. k + 1 <= n => Holds(k + 1)
      OBVIOUS
    <3>2. Holds(k + 1)
      BY <3>1
    <3> HIDE DEF Holds
    <3> QED
      BY <3>2
  <2>1. PICK g \in [0 .. k -> 0 .. m] :
          \A j \in 0 .. k : g[j] = Piece(g[j - 1], j) /\ g[j] >= to[j]
    <3>1. k <= n
      BY <1>0
    <3> QED
      BY <3>1, <1>5
  <2> DEFINE p == Piece(g[k], k + 1)
             h == [j \in 0 .. k + 1 |-> IF j = k + 1 THEN p ELSE g[j]]
  <2>2. p \in 0 .. m /\ p >= to[k + 1]
    <3>1. g[k] \in 0 .. m /\ g[k] >= to[k]
      BY <2>1
    <3>2. k + 1 \in 1 .. n /\ k + 1 - 1 = k
      BY <1>0
    <3>3. Piece(g[k], k + 1) \in 0 .. m
      BY <3>1, <3>2, <1>2
    <3>4. k \in 0 .. n - 1
      BY <1>0
    <3>5. Piece(g[k], k + 1) >= to[k + 1]
      BY <3>1, <3>4, <1>15
    <3> QED
      BY <3>3, <3>5
  <2> HIDE DEF p
  <2>3. h \in [0 .. k + 1 -> 0 .. m]
    BY <2>2, <2>1
  <2>4. ASSUME NEW j \in 0 .. k + 1 PROVE h[j] = Piece(h[j - 1], j) /\ h[j] >= to[j]
    <3>1. CASE j = k + 1
      <4>1. h[j - 1] = g[k] /\ h[j] = p
        BY <3>1
      <4> QED
        BY <4>1, <3>1, <2>2 DEF p
    <3>2. CASE j \in 1 .. k
      <4>1. h[j - 1] = g[j - 1] /\ h[j] = g[j]
        BY <3>2
      <4> QED
        BY <4>1, <3>2, <2>1
    <3>3. CASE j = 0
      <4>1. h[j] = g[j]
        BY <3>3
      <4>2. g[j] = Piece(g[j - 1], j) /\ g[j] >= to[j]
        BY <3>3, <2>1
      <4>3. Piece(g[j - 1], j) = Piece(h[j - 1], j)
        BY <3>3, <1>1
      <4> QED
        BY <4>1, <4>2, <4>3
    <3> QED
      BY <3>1, <3>2, <3>3
  <2> HIDE DEF h
  <2> QED
    BY <2>3, <2>4
<1>6. PICK g \in [0 .. n -> 0 .. m] :
        \A j \in 0 .. n : g[j] = Piece(g[j - 1], j) /\ g[j] >= to[j]
  <2> HIDE DEF Holds
  <2>1. \A k \in Nat : k \in Found => k + 1 \in Found
    BY <1>5
  <2>2. Nat \subseteq Found
    <3> HIDE DEF Found
    <3> QED
      BY <1>4, <2>1, NatInd
  <2>3. Holds(n)
    BY <1>0, <2>2
  <2>4. n <= n
    BY <1>0
  <2> QED
    BY <2>3, <2>4 DEF Holds
<1>7. g = Body(g)
  BY <1>6
<1>8. f = Body(f)
  <2> HIDE DEF Body
  <2> QED
    BY <1>7
<1> HIDE DEF f
<1> DEFINE Alike == {k \in Nat : k <= n => f[k] = g[k]}
<1>9. \A j \in 0 .. n : f[j] = Piece(f[j - 1], j) /\ g[j] = Piece(g[j - 1], j)
  BY <1>6, <1>8
<1>10. 0 \in Alike
  <2>1. 0 \in 0 .. n
    BY <1>0
  <2>2. f[0] = Piece(f[0 - 1], 0) /\ g[0] = Piece(g[0 - 1], 0)
    BY <1>9, <2>1
  <2> QED
    BY <2>2, <1>1
<1>11. ASSUME NEW k \in Nat, k \in Alike PROVE k + 1 \in Alike
  <2> SUFFICES ASSUME k + 1 <= n PROVE f[k + 1] = g[k + 1]
    OBVIOUS
  <2>1. f[k] = g[k] /\ k + 1 \in 0 .. n /\ k + 1 - 1 = k
    BY <1>11, <1>0
  <2>2. f[k + 1] = Piece(f[k], k + 1) /\ g[k + 1] = Piece(g[k], k + 1)
    BY <1>9, <2>1
  <2> QED
    BY <2>1, <2>2
<1>12. f[n] = g[n]
  <2> HIDE DEF Alike
  <2>1. \A k \in Nat : k \in Alike => k + 1 \in Alike
    BY <1>11
  <2>2. n \in Alike
    BY <1>0, <1>10, <2>1, NatInd
  <2> QED
    BY <2>2, <1>0 DEF Alike
<1>13. g[n] \in 0 .. m /\ g[n] >= to[n] /\ to[n] = m
  <2>1. n \in 0 .. n
    BY <1>0
  <2>2. to[n] = m
    BY DEF n, m
  <2> QED
    BY <1>6, <2>1, <2>2
<1>14. g[n] = m
  BY <1>13, <1>0
<1> QED
  BY <1>12, <1>14, <1>d, Zenon

(* A piece cut out of a text leaves it thinned.                            *)
LEMMA ThinnedCut ==
  ASSUME NEW S, NEW a \in Seq(S), NEW b \in Seq(S), NEW c \in Seq(S)
  PROVE  Script!Thinned(a \o c, (a \o b) \o c)
<1> DEFINE s == a \o c
           t == (a \o b) \o c
           la == Len(a)
           lb == Len(b)
           lc == Len(c)
<1>1. la \in Nat /\ lb \in Nat /\ lc \in Nat
  OBVIOUS
<1>2. s \in Seq(S) /\ Len(s) = la + lc /\ t \in Seq(S) /\ Len(t) = la + lb + lc
  OBVIOUS
<1>3. \A j \in 1 .. la : s[j] = t[j]
  OBVIOUS
<1>4. \A j \in 1 .. lc : s[la + j] = t[la + lb + j]
  <2> SUFFICES ASSUME NEW j \in 1 .. lc PROVE s[la + j] = t[la + lb + j]
    OBVIOUS
  <2>1. s[la + j] = c[j]
    OBVIOUS
  <2>2. t[la + lb + j] = c[j]
    OBVIOUS
  <2> QED
    BY <2>1, <2>2
<1> HIDE DEF s, t, la, lb, lc
<1> DEFINE to == [j \in 0 .. Len(t) |-> IF j <= la THEN j ELSE IF j <= la + lb THEN la ELSE j - lb]
<1>5. to \in [0 .. Len(t) -> Nat] /\ to[0] = 0 /\ to[Len(t)] = Len(s)
  BY <1>1, <1>2
<1>6. ASSUME NEW j \in 1 .. Len(t)
      PROVE  to[j] = to[j - 1] \/ (to[j] = to[j - 1] + 1 /\ to[j] <= Len(s) /\ s[to[j]] = t[j])
  <2>0. j \in Nat /\ j - 1 \in 0 .. Len(t) /\ j \in 0 .. Len(t) /\ j <= la + lb + lc /\ j >= 1
    BY <1>1, <1>2
  <2>1. CASE j <= la
    <3>1. to[j] = j /\ to[j - 1] = j - 1
      BY <2>0, <2>1, <1>1
    <3>2. s[j] = t[j]
      BY <2>0, <2>1, <1>1, <1>3
    <3> HIDE DEF to
    <3> QED
      BY <3>1, <3>2, <2>0, <2>1, <1>1, <1>2
  <2>2. CASE j > la /\ j <= la + lb
    <3>1. to[j] = la /\ to[j - 1] = la
      BY <2>0, <2>2, <1>1
    <3> QED
      BY <3>1
  <2>3. CASE j > la + lb
    <3>1. to[j] = j - lb /\ to[j - 1] = j - 1 - lb
      BY <2>0, <2>3, <1>1
    <3>2. j - la - lb \in 1 .. lc /\ la + (j - la - lb) = j - lb /\ la + lb + (j - la - lb) = j
      BY <2>0, <2>3, <1>1
    <3>3. s[la + (j - la - lb)] = t[la + lb + (j - la - lb)]
      BY <3>2, <1>4
    <3>4. s[j - lb] = t[j]
      BY <3>2, <3>3
    <3> HIDE DEF to
    <3>5. to[j] = to[j - 1] + 1
      BY <3>1, <2>0, <1>1
    <3>6. j - lb <= Len(s)
      BY <2>0, <1>1, <1>2
    <3> QED
      BY <3>1, <3>4, <3>5, <3>6
  <2> QED
    BY <2>0, <2>1, <2>2, <2>3, <1>1
<1>7. Script!Thinned(s, t)
  <2> HIDE DEF to
  <2>1. \A j \in 1 .. Len(t) :
          to[j] = to[j - 1] \/ (to[j] = to[j - 1] + 1 /\ to[j] <= Len(s) /\ s[to[j]] = t[j])
    BY <1>6
  <2> QED
    BY <1>2, <1>5, <2>1, ThinnedBy
<1> QED
  BY <1>7 DEF s, t

-----------------------------------------------------------------------------
(* The tokens there are: of the lines that are typed, and of the files.    *)
Files == {f \in DOMAIN FileText : FileText[f] # NoFile}
TypedTokens == UNION {Range(cmd) : cmd \in Typed}
FileTokens == UNION {Range(FileText[f]) : f \in Files}
Tok == {EOL, "exit", "restore"} \cup TypedTokens \cup FileTokens
Texts == Seq(Tok)

LEMMA TextsOver ==
  ASSUME NEW text, IsText(text), Range(text) \subseteq Tok
  PROVE  text \in Texts
BY SeqMonotonic DEF IsText, Texts

LEMMA InputTexts ==
  /\ \A cmd \in Typed : cmd \in Texts
  /\ \A name \in DOMAIN FileText : FileText[name] # NoFile => FileText[name] \in Texts
<1>1. ASSUME NEW cmd \in Typed PROVE cmd \in Texts
  <2>1. IsText(cmd)
    BY InputAssumption
  <2>2. Range(cmd) \subseteq TypedTokens
    BY DEF TypedTokens
  <2>3. Range(cmd) \subseteq Tok
    BY <2>2 DEF Tok
  <2> QED
    BY <2>1, <2>3, TextsOver
<1>2. ASSUME NEW name \in DOMAIN FileText, FileText[name] # NoFile PROVE FileText[name] \in Texts
  <2>1. IsText(FileText[name])
    BY <1>2, InputAssumption
  <2>2. Range(FileText[name]) \subseteq Tok
    <3>1. name \in Files
      BY <1>2 DEF Files
    <3>2. Range(FileText[name]) \in {Range(FileText[f]) : f \in Files}
      BY <3>1
    <3>3. Range(FileText[name]) \subseteq FileTokens
      BY <3>2, Zenon DEF FileTokens
    <3> QED
      BY <3>3 DEF Tok
  <2> QED
    BY <2>1, <2>2, TextsOver
<1> QED
  BY <1>1, <1>2

(* Where the first line of a text ends.                                    *)
LEMMA FirstLineIs ==
  ASSUME NEW p \in Texts, NEW r \in Texts, \A i \in 1 .. Len(p) : p[i] # EOL,
         ScriptText = p \o (<<EOL>> \o r)
  PROVE  Script!HasLine /\ Script!FirstLine = p /\ Script!AfterLine = r
<1> DEFINE t == ScriptText
           n == Len(p)
<1>1. EOL \in Tok
  BY DEF Tok
<1>2. t = p \o (<<EOL>> \o r)
  OBVIOUS
<1>3. t \in Texts /\ Len(t) = n + 1 + Len(r) /\ n \in Nat /\ Len(r) \in Nat
  BY <1>1, <1>2 DEF Texts
<1>4. /\ \A i \in 1 .. n : t[i] = p[i]
      /\ t[n + 1] = EOL
      /\ \A i \in 1 .. Len(r) : t[n + 1 + i] = r[i]
  BY <1>1, <1>2 DEF Texts
<1> HIDE DEF t, n
<1>5. Script!HasLine
  <2>1. n + 1 \in 1 .. Len(t)
    BY <1>3
  <2> QED
    BY <2>1, <1>4 DEF Script!HasLine, t
<1> DEFINE I == {i \in 1 .. Len(t) : t[i] = EOL}
<1>6. Min(I) = n + 1 /\ I # {}
  <2>1. n + 1 \in I
    BY <1>3, <1>4
  <2>2. ASSUME NEW i \in I PROVE n + 1 <= i
    <3>1. i \in 1 .. n => t[i] # EOL
      BY <1>4 DEF n
    <3>2. i \in Nat /\ i >= 1 /\ t[i] = EOL
      BY <1>3
    <3> QED
      BY <3>1, <3>2, <1>3
  <2>3. I \subseteq Nat
    BY <1>3
  <2> HIDE DEF I
  <2>4. Min(I) \in I /\ \A i \in I : Min(I) <= i
    BY <2>1, <2>2, Zenon DEF Min
  <2>5. Min(I) <= n + 1 /\ n + 1 <= Min(I) /\ Min(I) \in Nat
    BY <2>1, <2>2, <2>3, <2>4
  <2> QED
    BY <2>1, <2>5, <1>3
<1>7. Script!FirstLine = SubSeq(t, 1, n)
  <2> DEFINE at == IF I # {} THEN Min(I) ELSE 0
  <2>1. Script!FirstLine = SubSeq(t, 1, at - 1)
    BY DEF Script!FirstLine, Script!SelectInSeq, Script!Min, Min, t
  <2>2. at = n + 1
    BY <1>6
  <2> HIDE DEF at, I
  <2>3. at - 1 = n
    BY <1>3, <2>2
  <2> QED
    BY <2>1, <2>3
<1>8. SubSeq(t, 1, n) = p
  <2>1. SubSeq(t, 1, n) \in Texts /\ Len(SubSeq(t, 1, n)) = n /\ \A i \in 1 .. n : SubSeq(t, 1, n)[i] = t[i]
    BY <1>3 DEF Texts
  <2> QED
    BY <2>1, <1>4, SeqEqual DEF Texts, n
<1>9. SubSeq(t, n + 2, Len(t)) = r
  <2> DEFINE u == SubSeq(t, n + 2, Len(t))
  <2>1. u \in Texts /\ Len(u) = Len(r)
    BY <1>3 DEF Texts
  <2>2. \A i \in 1 .. Len(r) : u[i] = r[i]
    BY <1>3, <1>4 DEF Texts
  <2> HIDE DEF u
  <2>3. u = r
    BY <2>1, <2>2, SeqEqual DEF Texts
  <2> QED
    BY <2>3 DEF u
<1>10. Script!AfterLine = SubSeq(t, n + 2, Len(t))
  BY <1>7, <1>8 DEF Script!AfterLine, t, n
<1> QED
  BY <1>5, <1>7, <1>8, <1>9, <1>10

-----------------------------------------------------------------------------
(* The buffers: the operator is asked only when all are read, and a line   *)
(* typed is one line.                                                      *)
Buffers ==
  /\ stack \in Seq(Texts) /\ line_read \in Texts
  /\ loading_file = Len(stack)
  /\ mode = "off" => stack = <<>> /\ line_read = <<>> /\ parsed = <<>>
  /\ stack # <<>> => line_read = <<>>
  /\ \A i \in 1 .. Len(line_read) : line_read[i] = EOL => i = Len(line_read)

(* The line so far: its words, and no others, have asked for an entry.     *)
Shifted == [token : Tok, slot : 0 .. WlSize + 1]
LineSoFar ==
  /\ parsed \in Seq(Shifted)
  /\ \A i \in 1 .. Len(parsed) :
       parsed[i].token # EOL /\ (parsed[i].slot = Keyword <=> parsed[i].token \notin Words)

(* Every word that has an entry has one of its own, and it is still there. *)
OwnEntry ==
  /\ \A i \in 1 .. Len(parsed) : parsed[i].slot \in Slots => list[parsed[i].slot] = parsed[i].token
  /\ \A i, j \in 1 .. Len(parsed) :
       parsed[i].slot \in Slots /\ parsed[i].slot = parsed[j].slot => i = j

(* Nothing else is in the list, and a word is refused only when it is      *)
(* full - as long as there is memory and the input goes on.                *)
OnlyTheLine ==
  ~disturbed =>
    /\ \A s \in Slots : list[s] # NULL => \E i \in 1 .. Len(parsed) : parsed[i].slot = s
    /\ (\E i \in 1 .. Len(parsed) : parsed[i].slot = Error) => \A s \in Slots : list[s] # NULL

(* The modes, and what is counted.                                         *)
Modes ==
  /\ mode \in {"off", "interactive", "once", "demo", "over"}
  /\ typed \in 0 .. MaxTyped /\ faults \in 0 .. MaxFaults
  /\ disturbed \in BOOLEAN /\ glued \in BOOLEAN

(* The watch list: its cursor is at a free entry, or behind the last.      *)
WatchList ==
  /\ list \in [Slots -> Words \cup {NULL}]
  /\ free \in 1 .. WlSize + 1
  /\ free <= WlSize => list[free] = NULL

IInv == Modes /\ Buffers /\ LineSoFar /\ WatchList /\ OwnEntry /\ OnlyTheLine

Tokens(q) == [i \in 1 .. Len(q) |-> q[i].token]

LEMMA TokOf == EOL \in Tok /\ "exit" \in Tok /\ "restore" \in Tok
BY DEF Tok

LEMMA TokensType ==
  ASSUME NEW q \in Seq(Shifted)
  PROVE  Tokens(q) \in Texts /\ Len(Tokens(q)) = Len(q) /\ \A i \in 1 .. Len(q) : Tokens(q)[i] = q[i].token
<1>1. \A i \in 1 .. Len(q) : q[i] \in Shifted
  OBVIOUS
<1>2. \A i \in 1 .. Len(q) : q[i].token \in Tok
  BY <1>1 DEF Shifted
<1>3. Tokens(q) \in [1 .. Len(q) -> Tok]
  BY <1>2 DEF Tokens
<1>4. Len(q) \in Nat
  OBVIOUS
<1> QED
  BY <1>3, <1>4 DEF Tokens, Texts

LEMMA TokensAppend ==
  ASSUME NEW q \in Seq(Shifted), NEW e \in Shifted
  PROVE  Append(q, e) \in Seq(Shifted) /\ Tokens(Append(q, e)) = Tokens(q) \o <<e.token>>
<1>1. Append(q, e) \in Seq(Shifted)
  OBVIOUS
<1>2. e.token \in Tok
  BY DEF Shifted
<1> DEFINE a == Append(q, e)
           tq == Tokens(q)
           ta == Tokens(a)
<1>3. tq \in Texts /\ Len(tq) = Len(q) /\ ta \in Texts /\ Len(ta) = Len(q) + 1 /\ Len(q) \in Nat
  <2>1. tq \in Texts /\ Len(tq) = Len(q)
    BY TokensType
  <2>2. ta \in Texts /\ Len(ta) = Len(a)
    BY <1>1, TokensType
  <2>3. Len(a) = Len(q) + 1 /\ Len(q) \in Nat
    OBVIOUS
  <2> QED
    BY <2>1, <2>2, <2>3
<1>4. \A i \in 1 .. Len(q) : ta[i] = tq[i]
  BY DEF Tokens
<1>5. ta[Len(q) + 1] = e.token
  BY DEF Tokens
<1> HIDE DEF tq, ta
<1>6. tq \o <<e.token>> \in Texts /\ Len(tq \o <<e.token>>) = Len(q) + 1
  BY <1>2, <1>3 DEF Texts
<1>7. \A i \in 1 .. Len(q) + 1 : ta[i] = (tq \o <<e.token>>)[i]
  BY <1>2, <1>3, <1>4, <1>5 DEF Texts
<1>8. ta = tq \o <<e.token>>
  BY <1>3, <1>6, <1>7, SeqEqual DEF Texts
<1> QED
  BY <1>1, <1>8 DEF tq, ta

LEMMA TokensEmpty == Tokens(<<>>) = <<>>
BY DEF Tokens

(* The text in the parts that the lexer knows.                             *)
LEMMA ScriptIs ==
  ScriptText = IF mode = "over" THEN <<>> ELSE (Tokens(parsed) \o FlattenSeq(stack)) \o line_read
BY DEF ScriptText, Tokens

LEMMA EmptyText == <<>> \in Texts /\ \A t \in Texts : t \o <<>> = t /\ <<>> \o t = t
BY DEF Texts

LEMMA CatText == \A a, b \in Texts : a \o b \in Texts
BY DEF Texts

LEMMA CatTexts ==
  ASSUME NEW a \in Texts, NEW b \in Texts, NEW c \in Texts
  PROVE  (a \o b) \o c = a \o (b \o c)
BY ConcatThree DEF Texts

LEMMA FlatText == \A q \in Seq(Texts) : FlattenSeq(q) \in Texts
BY FlattenOver DEF Texts

LEMMA HeadText ==
  ASSUME NEW t \in Texts, t # <<>>
  PROVE  Head(t) \in Tok /\ Tail(t) \in Texts /\ <<Head(t)>> \in Texts /\ t = <<Head(t)>> \o Tail(t)
BY DEF Texts

LEMMA HeadBuffer ==
  ASSUME NEW q \in Seq(Texts), q # <<>>
  PROVE  Head(q) \in Texts /\ Tail(q) \in Seq(Texts) /\ FlattenSeq(q) = Head(q) \o FlattenSeq(Tail(q))
BY FlattenHead DEF Texts

LEMMA PushText ==
  ASSUME NEW q \in Seq(Texts), NEW t \in Texts
  PROVE  /\ <<t>> \o q \in Seq(Texts) /\ <<t>> \o q # <<>>
         /\ FlattenSeq(<<t>> \o q) = t \o FlattenSeq(q)
<1>1. <<t>> \o q \in Seq(Texts) /\ <<t>> \o q # <<>> /\ Head(<<t>> \o q) = t /\ Tail(<<t>> \o q) = q
  OBVIOUS
<1> HIDE DEF Texts
<1> QED
  BY <1>1, HeadBuffer

(* What is unread behind the next token.                                   *)
LineBehind == IF stack # <<>> THEN line_read ELSE Tail(line_read)
Behind == FlattenSeq(Consumed) \o LineBehind

LEMMA ConsumedOne ==
  ASSUME Buffers, Unread # <<>>
  PROVE  /\ Head(Unread) \in Tok /\ Consumed \in Seq(Texts) /\ LineBehind \in Texts /\ Behind \in Texts
         /\ FlattenSeq(stack) \o line_read = <<Head(Unread)>> \o Behind
<1> DEFINE h == Head(Unread)
<1>1. stack \in Seq(Texts) /\ line_read \in Texts
  BY DEF Buffers
<1>2. CASE stack # <<>>
  <2> DEFINE top == Head(stack)
             below == Tail(stack)
             f == FlattenSeq(below)
             r == Tail(top)
  <2>1. Unread = top /\ Consumed = <<r>> \o below /\ LineBehind = line_read
    BY <1>2 DEF Unread, Consumed, LineBehind
  <2>2. top \in Texts /\ below \in Seq(Texts) /\ FlattenSeq(stack) = top \o f
    BY <1>1, <1>2, HeadBuffer
  <2>3. h \in Tok /\ r \in Texts /\ <<h>> \in Texts /\ top = <<h>> \o r
    BY <2>1, <2>2, HeadText
  <2>4. Consumed \in Seq(Texts) /\ FlattenSeq(Consumed) = r \o f
    BY <2>1, <2>2, <2>3, PushText
  <2>5. f \in Texts /\ r \o f \in Texts
    BY <2>2, <2>3, FlatText, CatText
  <2> HIDE DEF h, top, below, f, r
  <2>6. FlattenSeq(stack) = <<h>> \o (r \o f)
    BY <2>2, <2>3, <2>5, CatTexts
  <2>7. FlattenSeq(stack) \o line_read = <<h>> \o ((r \o f) \o line_read)
    BY <2>3, <2>5, <2>6, <1>1, CatTexts
  <2>8. Behind \in Texts
    BY <1>1, <2>1, <2>4, <2>5, CatText DEF Behind
  <2> QED
    BY <1>1, <2>1, <2>3, <2>4, <2>7, <2>8 DEF Behind, h
<1>3. CASE stack = <<>>
  <2> DEFINE r == Tail(line_read)
  <2>1. Unread = line_read /\ Consumed = <<>> /\ LineBehind = r
    BY <1>3 DEF Unread, Consumed, LineBehind
  <2>2. h \in Tok /\ r \in Texts /\ line_read = <<h>> \o r
    BY <1>1, <2>1, HeadText
  <2>3. FlattenSeq(stack) = <<>> /\ FlattenSeq(Consumed) = <<>>
    BY <1>3, <2>1, FlattenEmpty
  <2> HIDE DEF h, r
  <2>4. Behind = r /\ <<>> \o line_read = line_read
    BY <1>1, <2>1, <2>2, <2>3, EmptyText DEF Behind
  <2>5. Consumed \in Seq(Texts)
    BY <2>1
  <2> QED
    BY <1>1, <2>1, <2>2, <2>3, <2>4, <2>5 DEF h
<1> QED
  BY <1>2, <1>3

LEMMA TextInFront ==
  ASSUME Buffers, LineSoFar, mode # "over", Unread # <<>>
  PROVE  ScriptText = Tokens(parsed) \o (<<Head(Unread)>> \o Behind)
<1>1. Tokens(parsed) \in Texts /\ FlattenSeq(stack) \in Texts /\ line_read \in Texts
  BY TokensType, FlatText DEF Buffers, LineSoFar
<1>2. ScriptText = (Tokens(parsed) \o FlattenSeq(stack)) \o line_read
  BY ScriptIs
<1>3. ScriptText = Tokens(parsed) \o (FlattenSeq(stack) \o line_read)
  BY <1>1, <1>2, CatTexts
<1> QED
  BY <1>3, ConsumedOne

(* The scanner has gone one token on.                                      *)
LEMMA Advanced ==
  ASSUME Buffers, Unread # <<>>, Advance
  PROVE  stack' = Consumed /\ line_read' = LineBehind /\ Len(stack') = Len(stack)
<1>1. stack' = Consumed /\ line_read' = LineBehind
  BY DEF Advance, Consumed, LineBehind
<1>2. CASE stack # <<>>
  <2>1. stack \in Seq(Texts)
    BY DEF Buffers
  <2>2. Head(stack) \in Texts /\ Tail(stack) \in Seq(Texts) /\ Len(Tail(stack)) = Len(stack) - 1
    BY <1>2, <2>1
  <2>3. Unread = Head(stack)
    BY <1>2 DEF Unread
  <2>4. Tail(Head(stack)) \in Texts
    BY <2>2, <2>3, HeadText
  <2>5. Len(<<Tail(Head(stack))>> \o Tail(stack)) = 1 + (Len(stack) - 1) /\ Len(stack) \in Nat
    BY <2>1, <2>2, <2>4
  <2> QED
    BY <1>1, <1>2, <2>5 DEF Consumed
<1>3. CASE stack = <<>>
  BY <1>1, <1>3 DEF Consumed
<1> QED
  BY <1>1, <1>2, <1>3

LEMMA ScriptIsNext ==
  ScriptText' = IF mode' = "over" THEN <<>> ELSE (Tokens(parsed') \o FlattenSeq(stack')) \o line_read'
BY DEF ScriptText, Tokens

(* One token on, what is unread is what was behind it.                     *)
LEMMA TextAfter ==
  ASSUME Buffers, Unread # <<>>, Advance, parsed' \in Seq(Shifted), mode' # "over"
  PROVE  ScriptText' = Tokens(parsed') \o Behind
<1>1. stack' = Consumed /\ line_read' = LineBehind
  BY Advanced
<1>2. Tokens(parsed') \in Texts
  BY TokensType
<1>3. Consumed \in Seq(Texts) /\ LineBehind \in Texts
  BY ConsumedOne
<1>4. FlattenSeq(Consumed) \in Texts
  BY <1>3, FlatText
<1>5. ScriptText' = (Tokens(parsed') \o FlattenSeq(Consumed)) \o LineBehind
  BY <1>1, ScriptIsNext
<1> QED
  BY <1>2, <1>3, <1>4, <1>5, CatTexts DEF Behind

LEMMA BehindLine ==
  ASSUME Buffers, LineSoFar, Running, Unread # <<>>, Advance, parsed' = <<>>, mode' # "over"
  PROVE  ScriptText' = Behind
<1>1. parsed' \in Seq(Shifted)
  BY DEF LineSoFar
<1>2. ScriptText' = <<>> \o Behind
  BY <1>1, TextAfter, TokensEmpty
<1> QED
  BY <1>2, ConsumedOne, EmptyText

(* A line of the terminal is read to its end before anything else is.      *)
LEMMA BuffersOn ==
  ASSUME Buffers, Running, Unread # <<>>, Advance, mode' # "off", loading_file' = loading_file
  PROVE  Buffers'
<1>1. stack' = Consumed /\ line_read' = LineBehind /\ Len(stack') = Len(stack)
  BY Advanced
<1>2. Consumed \in Seq(Texts) /\ LineBehind \in Texts
  BY ConsumedOne
<1>3. CASE stack # <<>>
  <2>1. line_read = <<>> /\ LineBehind = <<>>
    BY <1>3 DEF Buffers, LineBehind
  <2> QED
    BY <1>1, <1>2, <2>1 DEF Buffers
<1>4. CASE stack = <<>>
  <2>1. LineBehind = Tail(line_read) /\ Consumed = <<>> /\ Unread = line_read
    BY <1>4 DEF Consumed, LineBehind, Unread
  <2>2. line_read \in Seq(Tok) /\ line_read # <<>>
    BY <2>1 DEF Buffers, Texts
  <2>3. /\ Len(LineBehind) = Len(line_read) - 1
        /\ \A i \in 1 .. Len(LineBehind) : LineBehind[i] = line_read[i + 1] /\ i + 1 \in 1 .. Len(line_read)
    BY <2>1, <2>2
  <2>4. \A i \in 1 .. Len(LineBehind) : LineBehind[i] = EOL => i + 1 = Len(line_read)
    BY <2>3 DEF Buffers
  <2>5. \A i \in 1 .. Len(LineBehind) : LineBehind[i] = EOL => i = Len(LineBehind)
    BY <2>2, <2>3, <2>4
  <2> QED
    BY <1>1, <1>2, <2>1, <2>5 DEF Buffers
<1> QED
  BY <1>3, <1>4

(* The line read from the terminal ends with it.                           *)
LEMMA LineEnds ==
  ASSUME Buffers, Unread # <<>>, Head(Unread) = EOL
  PROVE  LineBehind = <<>> /\ Behind = FlattenSeq(Consumed)
<1>1. LineBehind = <<>>
  <2>1. CASE stack # <<>>
    BY <2>1 DEF Buffers, LineBehind
  <2>2. CASE stack = <<>>
    <3>1. Unread = line_read /\ line_read \in Seq(Tok) /\ line_read # <<>> /\ LineBehind = Tail(line_read)
      BY <2>2 DEF Buffers, Texts, Unread, LineBehind
    <3>2. line_read[1] = EOL /\ 1 \in 1 .. Len(line_read)
      BY <3>1
    <3>3. Len(line_read) = 1
      BY <3>2 DEF Buffers
    <3> QED
      BY <3>1, <3>3
  <2> QED
    BY <2>1, <2>2
<1>2. FlattenSeq(Consumed) \in Texts
  BY ConsumedOne, FlatText
<1> QED
  BY <1>1, <1>2, EmptyText DEF Behind

-----------------------------------------------------------------------------
(* The buffers that are pushed, but one that there is no memory for.       *)
LEMMA Pushed ==
  ASSUME NEW buffers \in Seq(Texts), NEW below \in Seq(Texts), set_input_buff(buffers, below)
  PROVE  /\ stack' \in Seq(Texts) /\ loading_file' = Len(stack')
         /\ \/ /\ FlattenSeq(stack') = FlattenSeq(buffers) \o FlattenSeq(below)
               /\ disturbed' = disturbed
            \/ /\ disturbed' = TRUE
               /\ \E a, b, c \in Texts :
                    /\ FlattenSeq(buffers) = (a \o b) \o c
                    /\ FlattenSeq(stack') = (a \o c) \o FlattenSeq(below)
<1>1. CASE /\ stack' = buffers \o below
           /\ loading_file' = Len(buffers) + Len(below) /\ MemoryHolds
  <2>1. stack' \in Seq(Texts) /\ Len(stack') = Len(buffers) + Len(below)
    BY <1>1
  <2>2. FlattenSeq(buffers \o below) = FlattenSeq(buffers) \o FlattenSeq(below)
    BY FlattenCat DEF Texts
  <2> QED
    BY <1>1, <2>1, <2>2 DEF MemoryHolds
<1>2. CASE /\ NoMemory
           /\ \E k \in 1 .. Len(buffers) :
                /\ stack' = RemoveAt(buffers, k) \o below
                /\ loading_file' = Len(buffers) - 1 + Len(below)
  <2>1. PICK k \in 1 .. Len(buffers) :
          /\ stack' = RemoveAt(buffers, k) \o below
          /\ loading_file' = Len(buffers) - 1 + Len(below)
    BY <1>2
  <2> DEFINE n == Len(buffers)
             x == SubSeq(buffers, 1, k - 1)
             y == SubSeq(buffers, k, k)
             z == SubSeq(buffers, k + 1, n)
  <2>0. n \in Nat /\ k \in 1 .. n /\ \A i \in 1 .. n : buffers[i] \in Texts
    OBVIOUS
  <2>2. x \in Seq(Texts) /\ Len(x) = k - 1
    <3>1. \A i \in 1 .. k - 1 : buffers[i] \in Texts
      BY <2>0
    <3>2. Len(x) = IF 1 <= k - 1 THEN k - 1 - 1 + 1 ELSE 0
      BY <2>0, <3>1, SubSeqProperties
    <3>3. x \in Seq(Texts)
      BY <2>0, <3>1, SubSeqProperties
    <3> HIDE DEF x
    <3> QED
      BY <2>0, <3>2, <3>3
  <2>3. z \in Seq(Texts) /\ Len(z) = n - k
    <3>1. \A i \in k + 1 .. n : buffers[i] \in Texts
      BY <2>0
    <3>2. Len(z) = IF k + 1 <= n THEN n - (k + 1) + 1 ELSE 0
      BY <2>0, <3>1, SubSeqProperties
    <3>3. z \in Seq(Texts)
      BY <2>0, <3>1, SubSeqProperties
    <3> HIDE DEF n, z
    <3> QED
      BY <2>0, <3>2, <3>3
  <2>4. y \in Seq(Texts)
    <3>1. \A i \in k .. k : buffers[i] \in Texts
      BY <2>0
    <3> QED
      BY <2>0, <3>1, SubSeqProperties
  <2>5. buffers = (x \o y) \o z
    <3>1. x \o SubSeq(buffers, k - 1 + 1, k) = SubSeq(buffers, 1, k)
      BY <2>0, ConcatAdjacentSubSeq
    <3>2. k - 1 + 1 = k
      BY <2>0
    <3>3. SubSeq(buffers, 1, k) \o z = SubSeq(buffers, 1, n)
      BY <2>0, ConcatAdjacentSubSeq
    <3>4. SubSeq(buffers, 1, n) = buffers
      BY SubSeqFull
    <3> QED
      BY <3>1, <3>2, <3>3, <3>4
  <2>6. RemoveAt(buffers, k) = x \o z
    BY DEF RemoveAt
  <2> HIDE DEF x, y, z, n
  <2>7. x \o y \in Seq(Texts) /\ x \o z \in Seq(Texts) /\ Len(x \o z) = n - 1
    <3> HIDE DEF Texts
    <3>1. x \o y \in Seq(Texts) /\ x \o z \in Seq(Texts)
      BY <2>2, <2>3, <2>4
    <3>2. Len(x \o z) = Len(x) + Len(z)
      BY <2>2, <2>3, ConcatProperties
    <3>3. k - 1 + (n - k) = n - 1
      BY <2>0
    <3> QED
      BY <2>2, <2>3, <3>1, <3>2, <3>3
  <2> DEFINE a == FlattenSeq(x)
             b == FlattenSeq(y)
             c == FlattenSeq(z)
  <2>8. FlattenSeq(buffers) = (a \o b) \o c
    <3>1. FlattenSeq((x \o y) \o z) = FlattenSeq(x \o y) \o FlattenSeq(z)
      BY <2>3, <2>7, FlattenCat DEF Texts
    <3>2. FlattenSeq(x \o y) = FlattenSeq(x) \o FlattenSeq(y)
      BY <2>2, <2>4, FlattenCat DEF Texts
    <3> QED
      BY <2>5, <3>1, <3>2
  <2>9. FlattenSeq(stack') = (a \o c) \o FlattenSeq(below)
    <3>1. FlattenSeq((x \o z) \o below) = FlattenSeq(x \o z) \o FlattenSeq(below)
      BY <2>7, FlattenCat DEF Texts
    <3>2. FlattenSeq(x \o z) = FlattenSeq(x) \o FlattenSeq(z)
      BY <2>2, <2>3, FlattenCat DEF Texts
    <3> QED
      BY <2>1, <2>6, <3>1, <3>2
  <2>10. a \in Texts /\ b \in Texts /\ c \in Texts
    BY <2>2, <2>3, <2>4, FlatText
  <2>11. stack' \in Seq(Texts) /\ loading_file' = Len(stack')
    <3>1. (x \o z) \o below \in Seq(Texts) /\ Len((x \o z) \o below) = n - 1 + Len(below)
      BY <2>7
    <3> QED
      BY <2>1, <2>6, <3>1 DEF n
  <2> HIDE DEF a, b, c
  <2> QED
    BY <1>2, <2>8, <2>9, <2>10, <2>11 DEF NoMemory
<1> QED
  BY <1>1, <1>2 DEF set_input_buff

-----------------------------------------------------------------------------
(* Where the watch list is free.                                           *)
LEMMA LeastOf ==
  ASSUME NEW O, O \subseteq Nat, O # {}
  PROVE  \E j \in O : \A k \in O : j <= k
<1>1. IsWellFoundedOn(OpToRel(<, Nat), Nat)
  BY NatLessThanWellFounded
<1>2. PICK n \in O : \A m \in O : <<m, n>> \notin OpToRel(<, Nat)
  BY <1>1, WFMin
<1>3. \A m \in O : ~(m < n)
  BY <1>2 DEF OpToRel
<1>4. n \in Nat /\ \A m \in O : m \in Nat
  OBVIOUS
<1>5. \A m \in O : n <= m
  BY <1>3, <1>4
<1> QED
  BY <1>5

LEMMA GreatestOf ==
  ASSUME NEW O, O \subseteq 1 .. WlSize, O # {}
  PROVE  \E j \in O : \A k \in O : k <= j
<1> DEFINE D == {WlSize - k : k \in O}
<1>0. WlSize \in Nat /\ \A k \in O : k \in 1 .. WlSize
  BY InputAssumption
<1>1. D \subseteq Nat /\ D # {}
  <2>1. \A k \in O : WlSize - k \in Nat
    BY <1>0
  <2> QED
    BY <2>1
<1>2. PICK d \in D : \A e \in D : d <= e
  <2> HIDE DEF D
  <2> QED
    BY <1>1, LeastOf
<1>3. PICK j \in O : d = WlSize - j
  OBVIOUS
<1>4. ASSUME NEW k \in O PROVE k <= j
  <2>1. WlSize - k \in D
    OBVIOUS
  <2>2. WlSize - j <= WlSize - k
    BY <1>2, <1>3, <2>1
  <2> QED
    BY <2>2, <1>0, <1>3
<1> QED
  BY <1>3, <1>4

LEMMA FreeFromIs ==
  ASSUME NEW l, NEW i \in 1 .. WlSize + 1
  PROVE  /\ FreeFrom(l, i) \in 1 .. WlSize + 1
         /\ FreeFrom(l, i) <= WlSize => l[FreeFrom(l, i)] = NULL
<1> DEFINE open == {j \in i .. WlSize : l[j] = NULL}
<1>0. WlSize \in Nat
  BY InputAssumption
<1>1. CASE open = {}
  <2>1. FreeFrom(l, i) = WlSize + 1
    BY <1>1 DEF FreeFrom
  <2> QED
    BY <2>1, <1>0
<1>2. CASE open # {}
  <2>1. FreeFrom(l, i) = CHOOSE j \in open : \A k \in open : j <= k
    BY <1>2 DEF FreeFrom
  <2>2. open \subseteq Nat
    BY <1>0
  <2>3. \A j \in open : j \in 1 .. WlSize + 1 /\ l[j] = NULL
    BY <1>0
  <2> HIDE DEF open
  <2>4. \E j \in open : \A k \in open : j <= k
    BY <1>2, <2>2, LeastOf
  <2>5. FreeFrom(l, i) \in open
    BY <2>1, <2>4, Zenon
  <2> QED
    BY <2>3, <2>5
<1> QED
  BY <1>1, <1>2

LEMMA FreeSlotIs ==
  ASSUME WatchList
  PROVE  /\ FreeSlot \in 1 .. WlSize + 1
         /\ FreeSlot <= WlSize => FreeSlot \in Slots /\ list[FreeSlot] = NULL
         /\ FreeSlot > WlSize => \A s \in Slots : list[s] # NULL
<1>0. WlSize \in Nat
  BY InputAssumption
<1>1. CASE ~(free > WlSize)
  <2>1. FreeSlot = free /\ free \in 1 .. WlSize + 1
    BY <1>1 DEF FreeSlot, WatchList
  <2> QED
    BY <1>0, <1>1, <2>1 DEF WatchList, Slots
<1>2. CASE free > WlSize
  <2> DEFINE open == {j \in Slots : list[j] = NULL}
  <2>1. FreeSlot = LastFree(list)
    BY <1>2 DEF FreeSlot
  <2>2. CASE open = {}
    <3>1. FreeSlot = WlSize + 1
      BY <2>1, <2>2 DEF LastFree
    <3>2. \A s \in Slots : list[s] # NULL
      BY <2>2
    <3> QED
      BY <1>0, <3>1, <3>2
  <2>3. CASE open # {}
    <3>1. FreeSlot = CHOOSE j \in open : \A k \in open : k <= j
      BY <2>1, <2>3 DEF LastFree
    <3>2. open \subseteq 1 .. WlSize /\ \A j \in open : j \in Slots /\ list[j] = NULL
      BY DEF Slots
    <3> HIDE DEF open
    <3>3. \E j \in open : \A k \in open : k <= j
      BY <2>3, <3>2, GreatestOf
    <3>4. FreeSlot \in open
      BY <3>1, <3>3, Zenon
    <3>5. FreeSlot \in 1 .. WlSize
      BY <3>2, <3>4
    <3> QED
      BY <1>0, <3>2, <3>4, <3>5
  <2> QED
    BY <2>2, <2>3
<1> QED
  BY <1>1, <1>2

-----------------------------------------------------------------------------
(* A token more in the line.                                               *)
LEMMA ShiftStep ==
  ASSUME LineSoFar, NEW token \in Tok, token # EOL, NEW slot \in 0 .. WlSize + 1,
         slot = Keyword <=> token \notin Words, Shift(token, slot)
  PROVE  /\ LineSoFar'
         /\ Len(parsed') = Len(parsed) + 1 /\ Len(parsed) \in Nat
         /\ \A i \in 1 .. Len(parsed) : parsed'[i] = parsed[i]
         /\ parsed'[Len(parsed) + 1].token = token /\ parsed'[Len(parsed) + 1].slot = slot
         /\ Tokens(parsed') = Tokens(parsed) \o <<token>>
<1> DEFINE e == [token |-> token, slot |-> slot]
<1>1. e \in Shifted /\ e.token = token /\ e.slot = slot
  BY DEF Shifted
<1>2. parsed \in Seq(Shifted) /\ parsed' = Append(parsed, e)
  BY DEF LineSoFar, Shift
<1> HIDE DEF e
<1>3. parsed' \in Seq(Shifted) /\ Tokens(parsed') = Tokens(parsed) \o <<token>>
  BY <1>1, <1>2, TokensAppend
<1>4. /\ Len(parsed') = Len(parsed) + 1 /\ Len(parsed) \in Nat
      /\ \A i \in 1 .. Len(parsed) : parsed'[i] = parsed[i]
      /\ parsed'[Len(parsed) + 1] = e
  BY <1>2
<1>5. \A i \in 1 .. Len(parsed') :
        parsed'[i].token # EOL /\ (parsed'[i].slot = Keyword <=> parsed'[i].token \notin Words)
  <2> SUFFICES ASSUME NEW i \in 1 .. Len(parsed')
               PROVE  parsed'[i].token # EOL /\ (parsed'[i].slot = Keyword <=> parsed'[i].token \notin Words)
    OBVIOUS
  <2>1. i \in 1 .. Len(parsed) \/ i = Len(parsed) + 1
    BY <1>4
  <2> QED
    BY <2>1, <1>1, <1>4 DEF LineSoFar
<1> QED
  BY <1>1, <1>3, <1>4, <1>5 DEF LineSoFar

(* What yylex leaves in the watch list.                                    *)
LEMMA WordStep ==
  ASSUME IInv, yylex
  PROVE  /\ LineSoFar' /\ WatchList' /\ OwnEntry' /\ OnlyTheLine'
         /\ Tokens(parsed') = Tokens(parsed) \o <<Head(Unread)>>
         /\ faults' \in 0 .. MaxFaults /\ (disturbed' = disturbed \/ disturbed' = TRUE)
<1> DEFINE token == Head(Unread)
           n == Len(parsed)
<1>0. WlSize \in Nat /\ WlSize > 0 /\ NULL \notin Words /\ MaxFaults \in Nat
  BY InputAssumption
<1>1. token \in Tok /\ token # EOL
  BY ConsumedOne DEF IInv, yylex
<1>2. LineSoFar /\ WatchList /\ OwnEntry /\ OnlyTheLine /\ faults \in 0 .. MaxFaults
  BY DEF IInv, Modes
<1>3. /\ FreeSlot \in 1 .. WlSize + 1
      /\ FreeSlot <= WlSize => FreeSlot \in Slots /\ list[FreeSlot] = NULL
      /\ FreeSlot > WlSize => \A s \in Slots : list[s] # NULL
  BY <1>2, FreeSlotIs
<1>4. \A i \in 1 .. n : parsed[i] \in Shifted /\ parsed[i].slot \in 0 .. WlSize + 1
  <2>1. \A i \in 1 .. n : parsed[i] \in Shifted
    BY <1>2 DEF LineSoFar
  <2> QED
    BY <2>1 DEF Shifted
<1>9. \A i \in 1 .. n : parsed[i].slot \in Slots => list[parsed[i].slot] \in Words
  BY <1>2, <1>4 DEF LineSoFar, OwnEntry, Keyword, Slots
<1> HIDE DEF token, n
<1>5. CASE token \notin Words /\ Shift(token, Keyword) /\ UNCHANGED wl /\ MemoryHolds
  <2>1. Keyword \in 0 .. WlSize + 1 /\ Keyword \notin Slots /\ Keyword # Error
    BY <1>0 DEF Keyword, Slots, Error
  <2>2. /\ LineSoFar' /\ Len(parsed') = n + 1 /\ n \in Nat
        /\ \A i \in 1 .. n : parsed'[i] = parsed[i]
        /\ parsed'[n + 1].slot = Keyword
        /\ Tokens(parsed') = Tokens(parsed) \o <<token>>
    BY <1>1, <1>2, <1>5, <2>1, ShiftStep DEF n
  <2>3. list' = list /\ free' = free /\ disturbed' = disturbed /\ faults' = faults
    BY <1>5 DEF wl, MemoryHolds
  <2>4. WatchList'
    BY <1>2, <2>3 DEF WatchList, Slots
  <2>5. \A i \in 1 .. n + 1 : i \in 1 .. n \/ i = n + 1
    BY <2>2
  <2>6. OwnEntry'
    <3>1. \A i \in 1 .. n + 1 : parsed'[i].slot \in Slots => list'[parsed'[i].slot] = parsed'[i].token
      BY <1>2, <2>1, <2>2, <2>3, <2>5 DEF OwnEntry, n
    <3>2. \A i, j \in 1 .. n + 1 : parsed'[i].slot \in Slots /\ parsed'[i].slot = parsed'[j].slot => i = j
      BY <1>2, <2>1, <2>2, <2>5 DEF OwnEntry, n
    <3> QED
      BY <2>2, <3>1, <3>2 DEF OwnEntry, Slots
  <2>7. OnlyTheLine'
    BY <1>2, <2>1, <2>2, <2>3, <2>5 DEF OnlyTheLine, Slots, Error, n
  <2> QED
    BY <1>2, <2>2, <2>3, <2>4, <2>6, <2>7 DEF token
<1>6. CASE /\ token \in Words /\ MemoryHolds
           /\ \E slot \in Slots : wl_add_entry(token, slot) /\ Shift(token, slot)
  <2>1. PICK slot \in Slots : wl_add_entry(token, slot) /\ Shift(token, slot)
    BY <1>6
  <2>2. /\ slot \in 1 .. WlSize /\ list[slot] = NULL /\ list' = [list EXCEPT ![slot] = token]
        /\ free' = FreeFrom(list', slot + 1)
    BY <1>3, <2>1 DEF wl_add_entry, Slots
  <2>3. slot \in 0 .. WlSize + 1 /\ slot # Keyword /\ slot # Error /\ slot + 1 \in 1 .. WlSize + 1
    BY <1>0, <2>2 DEF Keyword, Error
  <2>4. /\ LineSoFar' /\ Len(parsed') = n + 1 /\ n \in Nat
        /\ \A i \in 1 .. n : parsed'[i] = parsed[i]
        /\ parsed'[n + 1].slot = slot /\ parsed'[n + 1].token = token
        /\ Tokens(parsed') = Tokens(parsed) \o <<token>>
    BY <1>1, <1>2, <1>6, <2>1, <2>3, ShiftStep DEF n
  <2>5. disturbed' = disturbed /\ faults' = faults
    BY <1>6 DEF MemoryHolds
  <2>6. /\ list' \in [Slots -> Words \cup {NULL}] /\ list'[slot] = token
        /\ \A s \in Slots : s # slot => list'[s] = list[s]
    BY <1>2, <1>6, <2>1, <2>2 DEF WatchList
  <2>7. WatchList'
    <3>1. free' \in 1 .. WlSize + 1 /\ (free' <= WlSize => list'[free'] = NULL)
      BY <2>2, <2>3, FreeFromIs
    <3> QED
      BY <2>6, <3>1 DEF WatchList, Slots
  <2>8. \A i \in 1 .. n : parsed[i].slot \in Slots => parsed[i].slot # slot
    BY <1>0, <1>9, <2>2
  <2>9. \A i \in 1 .. n + 1 : i \in 1 .. n \/ i = n + 1
    BY <2>4
  <2>10. OwnEntry'
    <3>1. \A i \in 1 .. n + 1 : parsed'[i].slot \in Slots => list'[parsed'[i].slot] = parsed'[i].token
      BY <1>2, <2>4, <2>6, <2>8, <2>9 DEF OwnEntry, n
    <3>2. \A i, j \in 1 .. n + 1 : parsed'[i].slot \in Slots /\ parsed'[i].slot = parsed'[j].slot => i = j
      BY <1>2, <2>4, <2>8, <2>9 DEF OwnEntry, n
    <3> QED
      BY <3>1, <3>2, <2>4 DEF OwnEntry, Slots
  <2>11. OnlyTheLine'
    <3> SUFFICES ASSUME ~disturbed
                 PROVE  /\ \A s \in Slots : list'[s] # NULL => \E i \in 1 .. n + 1 : parsed'[i].slot = s
                        /\ (\E i \in 1 .. n + 1 : parsed'[i].slot = Error) => \A s \in Slots : list'[s] # NULL
      BY <2>4, <2>5 DEF OnlyTheLine, Slots, Error
    <3>1. ASSUME NEW s \in Slots, list'[s] # NULL PROVE \E i \in 1 .. n + 1 : parsed'[i].slot = s
      <4>1. CASE s = slot
        BY <4>1, <2>4
      <4>2. CASE s # slot
        <5>1. PICK i \in 1 .. n : parsed[i].slot = s
          BY <1>2, <2>6, <3>1, <4>2 DEF OnlyTheLine, n
        <5> QED
          BY <2>4, <5>1
      <4> QED
        BY <4>1, <4>2
    <3>2. ASSUME NEW i \in 1 .. n + 1, parsed'[i].slot = Error PROVE \A s \in Slots : list'[s] # NULL
      <4>1. i \in 1 .. n /\ parsed[i].slot = Error
        BY <2>3, <2>4, <2>9, <3>2
      <4>2. \A s \in Slots : list[s] # NULL
        BY <1>2, <4>1 DEF OnlyTheLine, n
      <4> QED
        BY <2>1, <2>2, <4>2
    <3> QED
      BY <3>1, <3>2
  <2> QED
    BY <1>2, <2>4, <2>5, <2>7, <2>10, <2>11 DEF token
<1>7. ASSUME token \in Words, Shift(token, Error), list' = list, free' \in 1 .. WlSize + 1,
             free' <= WlSize => list[free'] = NULL,
             disturbed' = TRUE \/ (disturbed' = disturbed /\ \A s \in Slots : list[s] # NULL)
      PROVE  /\ LineSoFar' /\ WatchList' /\ OwnEntry' /\ OnlyTheLine'
             /\ Tokens(parsed') = Tokens(parsed) \o <<token>>
  <2>1. Error \in 0 .. WlSize + 1 /\ Error \notin Slots /\ Error # Keyword
    BY <1>0 DEF Keyword, Slots, Error
  <2>2. /\ LineSoFar' /\ Len(parsed') = n + 1 /\ n \in Nat
        /\ \A i \in 1 .. n : parsed'[i] = parsed[i]
        /\ parsed'[n + 1].slot = Error
        /\ Tokens(parsed') = Tokens(parsed) \o <<token>>
    BY <1>1, <1>2, <1>7, <2>1, ShiftStep DEF n
  <2>4. WatchList'
    BY <1>2, <1>7 DEF WatchList, Slots
  <2>5. \A i \in 1 .. n + 1 : i \in 1 .. n \/ i = n + 1
    BY <2>2
  <2>6. OwnEntry'
    <3>1. \A i \in 1 .. n + 1 : parsed'[i].slot \in Slots => list[parsed'[i].slot] = parsed'[i].token
      BY <1>2, <2>1, <2>2, <2>5 DEF OwnEntry, n
    <3>2. \A i, j \in 1 .. n + 1 : parsed'[i].slot \in Slots /\ parsed'[i].slot = parsed'[j].slot => i = j
      BY <1>2, <2>1, <2>2, <2>5 DEF OwnEntry, n
    <3> QED
      BY <1>7, <3>1, <3>2, <2>2 DEF OwnEntry, Slots
  <2>7. OnlyTheLine'
    <3> SUFFICES ASSUME ~disturbed'
                 PROVE  /\ \A s \in Slots : list[s] # NULL => \E i \in 1 .. n + 1 : parsed'[i].slot = s
                        /\ \A s \in Slots : list[s] # NULL
      BY <2>2, <1>7 DEF OnlyTheLine, Slots, Error
    <3>1. ~disturbed /\ \A s \in Slots : list[s] # NULL
      BY <1>7
    <3>2. ASSUME NEW s \in Slots PROVE \E i \in 1 .. n + 1 : parsed'[i].slot = s
      <4>1. PICK i \in 1 .. n : parsed[i].slot = s
        BY <1>2, <3>1 DEF OnlyTheLine, n
      <4> QED
        BY <2>2, <4>1
    <3> QED
      BY <3>1, <3>2
  <2> QED
    BY <2>2, <2>4, <2>6, <2>7
<1>8. CASE /\ token \in Words /\ FreeSlot > WlSize /\ MemoryHolds
           /\ Shift(token, Error) /\ free' = FreeSlot /\ list' = list
  BY <1>2, <1>3, <1>7, <1>8 DEF MemoryHolds, token
<1>10. CASE token \in Words /\ NoMemory /\ Shift(token, Error) /\ UNCHANGED wl
  <2>1. list' = list /\ free' = free /\ disturbed' = TRUE /\ faults' = faults + 1 /\ faults < MaxFaults
    BY <1>10 DEF wl, NoMemory
  <2>2. free \in 1 .. WlSize + 1 /\ (free <= WlSize => list[free] = NULL)
    BY <1>2 DEF WatchList
  <2>3. faults' \in 0 .. MaxFaults
    BY <1>0, <1>2, <2>1
  <2>4. /\ LineSoFar' /\ WatchList' /\ OwnEntry' /\ OnlyTheLine'
        /\ Tokens(parsed') = Tokens(parsed) \o <<token>>
    BY <1>10, <2>1, <2>2, <1>7
  <2> QED
    BY <2>1, <2>3, <2>4 DEF token
<1> QED
  BY <1>5, <1>6, <1>8, <1>10 DEF yylex, token

(* A line is through: its entries are freed.                               *)
LEMMA CleanedUp ==
  ASSUME wl_cleanup, parsed' = <<>>
  PROVE  LineSoFar' /\ WatchList' /\ OwnEntry' /\ OnlyTheLine'
<1>1. WlSize \in Nat /\ WlSize > 0
  BY InputAssumption
<1>2. Len(parsed') = 0 /\ parsed' \in Seq(Shifted)
  OBVIOUS
<1>3. LineSoFar'
  BY <1>2 DEF LineSoFar
<1>4. WatchList'
  BY <1>1 DEF wl_cleanup, WatchList, Slots
<1>5. OwnEntry'
  BY <1>2 DEF OwnEntry
<1>6. OnlyTheLine'
  BY <1>2 DEF OnlyTheLine, wl_cleanup, Slots
<1> QED
  BY <1>3, <1>4, <1>5, <1>6

(* A restore that fails leaves words in the list, and no line they are of. *)
LEMMA LeftBehind ==
  ASSUME WatchList, disturbed' = TRUE, parsed' = <<>>,
         NEW slot, UNCHANGED wl \/ (slot \in Slots /\ wl_free_entry(slot))
  PROVE  LineSoFar' /\ WatchList' /\ OwnEntry' /\ OnlyTheLine'
<1>2. Len(parsed') = 0 /\ parsed' \in Seq(Shifted)
  OBVIOUS
<1>3. LineSoFar'
  BY <1>2 DEF LineSoFar
<1>4. WatchList'
  <2>1. CASE UNCHANGED wl
    BY <2>1 DEF wl, WatchList, Slots
  <2>2. CASE slot \in Slots /\ wl_free_entry(slot)
    BY <2>2 DEF wl_free_entry, WatchList, Slots
  <2> QED
    BY <2>1, <2>2
<1>5. OwnEntry'
  BY <1>2 DEF OwnEntry
<1>6. OnlyTheLine'
  BY DEF OnlyTheLine
<1> QED
  BY <1>3, <1>4, <1>5, <1>6

(* The line has no part in what only concerns the buffers.                 *)
LEMMA LineStays ==
  ASSUME LineSoFar, WatchList, OwnEntry, OnlyTheLine,
         UNCHANGED <<parsed, wl>>, disturbed' = disturbed \/ disturbed' = TRUE
  PROVE  LineSoFar' /\ WatchList' /\ OwnEntry' /\ OnlyTheLine'
BY DEF LineSoFar, WatchList, OwnEntry, OnlyTheLine, wl, Slots, Error

LEMMA StartStep ==
  ASSUME IInv, NEW m \in {"interactive", "once", "demo"}, NEW buffers \in Seq(Texts), Start(m, buffers)
  PROVE  IInv'
<1>1. <<>> \in Seq(Texts) /\ set_input_buff(buffers, <<>>)
  BY DEF Start
<1>2. /\ stack' \in Seq(Texts) /\ loading_file' = Len(stack')
      /\ disturbed' = disturbed \/ disturbed' = TRUE
  BY <1>1, Pushed
<1>3. faults' \in 0 .. MaxFaults
  BY <1>1, InputAssumption DEF IInv, Modes, set_input_buff, NoMemory, MemoryHolds
<1>4. line_read' = <<>> /\ mode' = m /\ UNCHANGED <<parsed, wl, typed, glued>>
  BY DEF IInv, Buffers, Start
<1>5. Modes'
  BY <1>2, <1>3, <1>4 DEF IInv, Modes
<1>6. Buffers'
  BY <1>2, <1>4, EmptyText DEF Buffers
<1>7. LineSoFar' /\ WatchList' /\ OwnEntry' /\ OnlyTheLine'
  BY <1>2, <1>4, LineStays DEF IInv
<1> QED
  BY <1>5, <1>6, <1>7 DEF IInv

(* What the ways to start queue.                                           *)
LEMMA Queued ==
  /\ Restore \in Seq(Texts)
  /\ \A cmd \in Typed : Line(cmd) \in Texts /\ Len(Line(cmd)) = Len(cmd) + 1
                          /\ \A i \in 1 .. Len(Line(cmd)) : Line(cmd)[i] = EOL => i = Len(Line(cmd))
  /\ Line(<<"exit">>) \in Texts
<1>1. <<"restore">> \in Texts /\ <<"exit">> \in Texts
  BY TokOf DEF Texts
<1>2. \A t \in Texts : Line(t) \in Texts
  BY TokOf DEF Line, Texts
<1>3. Restore \in Seq(Texts)
  BY <1>1, <1>2 DEF Restore
<1>4. ASSUME NEW cmd \in Typed
      PROVE  /\ Line(cmd) \in Texts /\ Len(Line(cmd)) = Len(cmd) + 1
             /\ \A i \in 1 .. Len(Line(cmd)) : Line(cmd)[i] = EOL => i = Len(Line(cmd))
  <2>1. cmd \in Seq(Tok)
    BY InputTexts DEF Texts
  <2>2. \A i \in 1 .. Len(cmd) : cmd[i] # EOL
    BY <2>1, InputAssumption
  <2>3. Len(Line(cmd)) = Len(cmd) + 1 /\ \A i \in 1 .. Len(cmd) : Line(cmd)[i] = cmd[i]
    BY <2>1 DEF Line
  <2>4. Len(cmd) \in Nat
    BY <2>1
  <2>5. \A i \in 1 .. Len(Line(cmd)) : i \in 1 .. Len(cmd) \/ i = Len(Line(cmd))
    BY <2>3, <2>4
  <2> QED
    BY <2>1, <2>2, <2>3, <2>5, <1>2 DEF Texts
<1> QED
  BY <1>1, <1>2, <1>3, <1>4

LEMMA Starts ==
  ASSUME StartCLI \/ StartCLIExit \/ start_cli_demo
  PROVE  \E m \in {"interactive", "once", "demo"}, buffers \in Seq(Texts) : Start(m, buffers)
<1>1. CASE StartCLI
  <2>1. PICK fresh \in BOOLEAN : Start("interactive", IF fresh THEN Restore ELSE <<>>)
    BY <1>1 DEF StartCLI
  <2>2. Restore \in Seq(Texts) /\ <<>> \in Seq(Texts)
    BY Queued
  <2> QED
    BY <2>1, <2>2
<1>2. CASE StartCLIExit
  <2>1. PICK fresh \in BOOLEAN, cmd \in Typed :
          Start("once", (IF fresh THEN Restore ELSE <<>>) \o <<Line(cmd), Line(<<"exit">>)>>)
    BY <1>2 DEF StartCLIExit
  <2>2. <<Line(cmd), Line(<<"exit">>)>> \in Seq(Texts)
    BY Queued
  <2>3. (IF fresh THEN Restore ELSE <<>>) \in Seq(Texts)
    BY Queued
  <2>4. (IF fresh THEN Restore ELSE <<>>) \o <<Line(cmd), Line(<<"exit">>)>> \in Seq(Texts)
    BY <2>2, <2>3
  <2> QED
    BY <2>1, <2>4
<1>3. CASE start_cli_demo
  <2>1. PICK fresh \in BOOLEAN : Start("demo", IF fresh THEN Restore \o <<Line(<<"exit">>)>> ELSE <<>>)
    BY <1>3 DEF start_cli_demo
  <2>2. Restore \o <<Line(<<"exit">>)>> \in Seq(Texts) /\ <<>> \in Seq(Texts)
    BY Queued
  <2> QED
    BY <2>1, <2>2
<1> QED
  BY <1>1, <1>2, <1>3

-----------------------------------------------------------------------------
(* The line that ends: its words are those it was written with.            *)
LEMMA LineTaken ==
  ASSUME IInv, NEW ran, Ends(ran)
  PROVE  /\ Running /\ Unread # <<>> /\ Head(Unread) = EOL /\ parsed' = <<>> /\ typed' = typed
         /\ done' = Append(done, [line |-> Tokens(parsed), ran |-> ran])
<1> DEFINE taken == [i \in 1 .. Len(parsed) |->
                       IF parsed[i].slot = Error THEN parsed[i].token ELSE Command[i]]
<1>1. /\ Running /\ Unread # <<>> /\ Head(Unread) = EOL /\ parsed' = <<>> /\ typed' = typed
      /\ done' = Append(done, [line |-> taken, ran |-> ran])
  BY DEF Ends
<1>2. \A i \in 1 .. Len(parsed) : Command[i] = parsed[i].token
  BY DEF Command, IInv, OwnEntry
<1>3. taken = Tokens(parsed)
  BY <1>2 DEF Tokens
<1> QED
  BY <1>1, <1>3

LEMMA CommandIs ==
  ASSUME IInv
  PROVE  Command = Tokens(parsed)
BY DEF Command, IInv, OwnEntry, Tokens

LEMMA FileRecords ==
  ASSUME Opens
  PROVE  /\ FileText[Name] \in Texts /\ Records(FileText[Name]) \in Seq(Texts)
         /\ FlattenSeq(Records(FileText[Name])) = FileText[Name]
<1>1. FileText[Name] \in Texts
  BY InputTexts DEF Opens
<1> QED
  BY <1>1, RecordsFlat DEF Texts

LEMMA AdvanceStep ==
  ASSUME IInv, Running, Unread # <<>>, Advance, mode' \in {mode, "over"}, loading_file' = loading_file,
         typed' = typed, faults' \in 0 .. MaxFaults, disturbed' \in BOOLEAN, glued' \in BOOLEAN
  PROVE  Modes' /\ Buffers'
<1>1. mode' # "off"
  BY DEF Running
<1>2. Buffers'
  BY <1>1, BuffersOn DEF IInv
<1> QED
  BY <1>2 DEF IInv, Modes

LEMMA RestoreStep ==
  ASSUME IInv, restore_config
  PROVE  IInv'
<1>1. Opens /\ Running /\ Unread # <<>> /\ parsed' = <<>> /\ typed' = typed
  BY LineTaken DEF restore_config
<1>2. /\ set_input_buff(Records(FileText[Name]), Consumed)
      /\ line_read' = <<>> /\ glued' \in BOOLEAN /\ wl_cleanup /\ mode' = mode
  BY DEF restore_config, IInv, Modes
<1>3. Consumed \in Seq(Texts)
  BY <1>1, ConsumedOne DEF IInv
<1>4. /\ stack' \in Seq(Texts) /\ loading_file' = Len(stack')
      /\ disturbed' = disturbed \/ disturbed' = TRUE
  BY <1>1, <1>2, <1>3, FileRecords, Pushed
<1>5. faults' \in 0 .. MaxFaults
  BY <1>2, InputAssumption DEF IInv, Modes, set_input_buff, NoMemory, MemoryHolds
<1>6. Modes'
  BY <1>1, <1>2, <1>4, <1>5 DEF IInv, Modes
<1>7. Buffers'
  <2>1. mode' # "off"
    BY <1>1, <1>2 DEF Running
  <2> QED
    BY <2>1, <1>2, <1>4, EmptyText DEF Buffers
<1>8. LineSoFar' /\ WatchList' /\ OwnEntry' /\ OnlyTheLine'
  BY <1>1, <1>2, CleanedUp
<1> QED
  BY <1>6, <1>7, <1>8 DEF IInv

LEMMA FailingStep ==
  ASSUME IInv, restore_fails
  PROVE  IInv'
<1>1. PICK ran \in BOOLEAN :
        /\ Ends(ran)
        /\ IF ran /\ Len(Command) = 2 /\ parsed[2].slot \in Slots
           THEN wl_free_entry(parsed[2].slot) ELSE UNCHANGED wl
  BY DEF restore_fails
<1>2. Running /\ Unread # <<>> /\ parsed' = <<>> /\ typed' = typed
  BY <1>1, LineTaken
<1>3. faults' \in 0 .. MaxFaults /\ disturbed' = TRUE
  BY InputAssumption DEF restore_fails, NoMemory, IInv, Modes
<1>4. Advance /\ mode' \in {mode, "over"} /\ loading_file' = loading_file /\ glued' = glued /\ glued \in BOOLEAN
  BY DEF restore_fails, IInv, Modes
<1>5. Modes' /\ Buffers'
  BY <1>2, <1>3, <1>4, AdvanceStep
<1>6. UNCHANGED wl \/ (parsed[2].slot \in Slots /\ wl_free_entry(parsed[2].slot))
  BY <1>1
<1>7. LineSoFar' /\ WatchList' /\ OwnEntry' /\ OnlyTheLine'
  BY <1>2, <1>3, <1>6, LeftBehind DEF IInv
<1> QED
  BY <1>5, <1>7 DEF IInv

LEMMA LineStep ==
  ASSUME IInv, line \/ exit \/ restore_default
  PROVE  IInv'
<1>1. PICK ran : Ends(ran)
  BY DEF line, exit, restore_default
<1>2. Running /\ Unread # <<>> /\ parsed' = <<>> /\ typed' = typed
  BY <1>1, LineTaken
<1>3. /\ Advance /\ wl_cleanup /\ mode' \in {mode, "over"}
      /\ UNCHANGED <<loading_file, faults, disturbed, glued>>
  BY DEF line, exit, restore_default
<1>4. faults' \in 0 .. MaxFaults /\ disturbed' \in BOOLEAN /\ glued' \in BOOLEAN
  BY <1>3 DEF IInv, Modes
<1>5. Modes' /\ Buffers'
  BY <1>2, <1>3, <1>4, AdvanceStep
<1>6. LineSoFar' /\ WatchList' /\ OwnEntry' /\ OnlyTheLine'
  BY <1>2, <1>3, CleanedUp
<1> QED
  BY <1>5, <1>6 DEF IInv

LEMMA YylexStep ==
  ASSUME IInv, yylex
  PROVE  IInv'
<1>1. /\ LineSoFar' /\ WatchList' /\ OwnEntry' /\ OnlyTheLine'
      /\ faults' \in 0 .. MaxFaults /\ (disturbed' = disturbed \/ disturbed' = TRUE)
  BY WordStep
<1>2. Running /\ Unread # <<>> /\ Advance /\ UNCHANGED <<mode, loading_file, done, typed, glued>>
  BY DEF yylex
<1>3. disturbed' \in BOOLEAN /\ glued' \in BOOLEAN
  BY <1>1, <1>2 DEF IInv, Modes
<1>4. Modes' /\ Buffers'
  BY <1>1, <1>2, <1>3, AdvanceStep
<1> QED
  BY <1>1, <1>4 DEF IInv

LEMMA YywrapStep ==
  ASSUME IInv, yywrap
  PROVE  IInv'
<1>1. /\ stack \in Seq(Texts) /\ stack # <<>> /\ stack' = Tail(stack) /\ loading_file' = loading_file - 1
      /\ UNCHANGED <<mode, line_read, parsed, wl, typed, faults, disturbed, glued>>
      /\ mode # "off"
  BY DEF IInv, Buffers, yywrap, history, Running
<1>2. stack' \in Seq(Texts) /\ loading_file' = Len(stack')
  <2>1. loading_file = Len(stack)
    BY DEF IInv, Buffers
  <2> HIDE DEF Texts
  <2> QED
    BY <1>1, <2>1
<1>3. Buffers'
  BY <1>1, <1>2 DEF IInv, Buffers
<1>4. Modes'
  BY <1>1 DEF IInv, Modes
<1>5. LineSoFar' /\ WatchList' /\ OwnEntry' /\ OnlyTheLine'
  BY <1>1, LineStays DEF IInv
<1> QED
  BY <1>3, <1>4, <1>5 DEF IInv

LEMMA ReadlineStep ==
  ASSUME IInv, readline_input
  PROVE  IInv'
<1>1. PICK cmd \in Typed : line_read' = Line(cmd)
  BY DEF readline_input
<1>2. /\ mode # "off" /\ stack = <<>> /\ typed' = typed + 1 /\ typed < MaxTyped
      /\ UNCHANGED <<mode, stack, loading_file, parsed, wl, faults, disturbed, glued>>
  BY DEF readline_input, Running
<1>3. Buffers'
  BY <1>1, <1>2, Queued DEF IInv, Buffers
<1>4. Modes'
  BY <1>2, InputAssumption DEF IInv, Modes
<1>5. LineSoFar' /\ WatchList' /\ OwnEntry' /\ OnlyTheLine'
  BY <1>2, LineStays DEF IInv
<1> QED
  BY <1>3, <1>4, <1>5 DEF IInv

LEMMA EndStep ==
  ASSUME IInv, end_of_input
  PROVE  IInv'
<1>1. /\ parsed' = <<>> /\ mode # "off" /\ mode' \in {mode, "over"}
      /\ disturbed' = (disturbed \/ parsed # <<>>)
      /\ UNCHANGED <<stack, loading_file, line_read, wl, typed, faults, glued>>
  BY DEF end_of_input, Running
<1>2. Modes' /\ Buffers'
  BY <1>1 DEF IInv, Modes, Buffers
<1>3. CASE parsed = <<>>
  <2>1. parsed' = parsed /\ (disturbed' = disturbed \/ disturbed' = TRUE)
    BY <1>1, <1>3 DEF IInv, Modes
  <2>2. LineSoFar' /\ WatchList' /\ OwnEntry' /\ OnlyTheLine'
    BY <1>1, <2>1, LineStays DEF IInv
  <2> QED
    BY <1>2, <2>2 DEF IInv
<1>4. CASE parsed # <<>>
  <2>1. disturbed' = TRUE
    BY <1>1, <1>4
  <2>2. LineSoFar' /\ WatchList' /\ OwnEntry' /\ OnlyTheLine'
    BY <1>1, <2>1, LeftBehind DEF IInv
  <2> QED
    BY <1>2, <2>2 DEF IInv
<1> QED
  BY <1>3, <1>4

LEMMA IInvStep == IInv /\ [Next]_vars => IInv'
<1> SUFFICES ASSUME IInv, [Next]_vars PROVE IInv'
  OBVIOUS
<1>1. CASE UNCHANGED vars
  <2>1. UNCHANGED <<mode, stack, loading_file, line_read, parsed, wl, typed, faults, disturbed, glued>>
    BY <1>1 DEF vars, history
  <2>2. Modes' /\ Buffers'
    BY <2>1 DEF IInv, Modes, Buffers
  <2>3. LineSoFar' /\ WatchList' /\ OwnEntry' /\ OnlyTheLine'
    BY <2>1, LineStays DEF IInv
  <2> QED
    BY <2>2, <2>3 DEF IInv
<1>2. CASE StartCLI \/ StartCLIExit \/ start_cli_demo
  BY <1>2, Starts, StartStep
<1>3. CASE cleanup
  <2>1. /\ mode' = "over" /\ disturbed' = TRUE
        /\ UNCHANGED <<stack, loading_file, line_read, parsed, wl, typed, faults, glued>>
    BY <1>3 DEF cleanup
  <2>2. Modes' /\ Buffers'
    BY <2>1 DEF IInv, Modes, Buffers
  <2>3. LineSoFar' /\ WatchList' /\ OwnEntry' /\ OnlyTheLine'
    BY <2>1, LineStays DEF IInv
  <2> QED
    BY <2>2, <2>3 DEF IInv
<1> QED
  BY <1>1, <1>2, <1>3, ReadlineStep, EndStep, YylexStep, YywrapStep, LineStep, RestoreStep, FailingStep
     DEF Next, Parse

LEMMA IInvInit == Init => IInv
<1> SUFFICES ASSUME Init PROVE IInv
  OBVIOUS
<1>1. WlSize \in Nat /\ WlSize > 0 /\ MaxTyped \in Nat /\ MaxFaults \in Nat
  BY InputAssumption
<1>2. Modes
  <2>1. mode = "off" /\ typed = 0 /\ faults = 0 /\ disturbed = FALSE /\ glued = FALSE
    BY DEF Init
  <2>2. typed \in 0 .. MaxTyped /\ faults \in 0 .. MaxFaults
    BY <1>1, <2>1
  <2>3. disturbed \in BOOLEAN /\ glued \in BOOLEAN
    BY <2>1
  <2> QED
    BY <2>1, <2>2, <2>3 DEF Modes
<1>3. Buffers
  BY EmptyText DEF Init, Buffers
<1>4. LineSoFar /\ OwnEntry /\ OnlyTheLine
  BY DEF Init, LineSoFar, OwnEntry, OnlyTheLine
<1>5. WatchList
  BY <1>1 DEF Init, WatchList, Slots
<1> QED
  BY <1>2, <1>3, <1>4, <1>5 DEF IInv

(* Whatever is typed, restored and lost, every word of the line has its    *)
(* own entry in the watch list (cli/parser.y, wl_add_entry), only its words *)
(* have one while nothing is lost, the cursor is never at an entry in use, *)
(* and the operator is asked only when every buffer is read.               *)
THEOREM InputInductive == Spec => []IInv
BY IInvInit, IInvStep, PTL DEF Spec

(* The types, for any lines and files: the count of the lexer's buffers is *)
(* the number there are, as yywrap and set_input_buff rely on.             *)
THEOREM InputTypes == Spec => []TypeOK
<1>1. IInv => TypeOK
  <2> SUFFICES ASSUME IInv PROVE TypeOK
    OBVIOUS
  <2>1. \A i \in 1 .. Len(parsed) : parsed[i] \in Shifted
    BY DEF IInv, LineSoFar
  <2>2. \A i \in 1 .. Len(parsed) : parsed[i].slot \in 0 .. WlSize + 1
    BY <2>1 DEF Shifted
  <2> QED
    BY <2>2 DEF IInv, Modes, Buffers, WatchList, TypeOK
<1> QED
  BY <1>1, InputInductive, PTL

-----------------------------------------------------------------------------
(* How many words a line has: no more than there are entries when each has *)
(* one, and more when the list is full and one has none.                   *)
WordsAt == {i \in 1 .. Len(parsed) : parsed[i].slot # Keyword}

LEMMA WordsAre ==
  ASSUME LineSoFar
  PROVE  Script!WordsOf(Tokens(parsed)) = Cardinality(WordsAt) /\ IsFiniteSet(WordsAt)
<1> DEFINE p == Tokens(parsed)
<1>1. /\ p \in Texts /\ Len(p) = Len(parsed) /\ Len(parsed) \in Nat
      /\ \A i \in 1 .. Len(parsed) : p[i] = parsed[i].token
  BY TokensType DEF LineSoFar
<1>2. DOMAIN p = 1 .. Len(parsed)
  BY DEF Tokens
<1>3. {i \in DOMAIN p : p[i] \in Words} = WordsAt
  BY <1>1, <1>2 DEF LineSoFar, WordsAt
<1>4. Script!WordsOf(p) = Script!Cardinality({i \in DOMAIN p : p[i] \in Words})
  BY DEF Script!WordsOf
<1>5. \A X : Script!Cardinality(X) = Cardinality(X)
  BY DEF Script!Cardinality, Cardinality
<1>6. IsFiniteSet(WordsAt)
  <2>1. IsFiniteSet(1 .. Len(parsed))
    BY <1>1, FS_Interval
  <2> QED
    BY <2>1, FS_Subset DEF WordsAt
<1> QED
  BY <1>3, <1>4, <1>5, <1>6

LEMMA WordsFit ==
  ASSUME IInv, \A i \in 1 .. Len(parsed) : parsed[i].slot # Error
  PROVE  Script!WordsOf(Tokens(parsed)) <= WlSize
<1> DEFINE f == [i \in WordsAt |-> parsed[i].slot]
<1>0. WlSize \in Nat /\ WlSize > 0
  BY InputAssumption
<1>1. \A i \in 1 .. Len(parsed) : parsed[i].slot \in 0 .. WlSize + 1
  <2>1. \A i \in 1 .. Len(parsed) : parsed[i] \in Shifted
    BY DEF IInv, LineSoFar
  <2> QED
    BY <2>1 DEF Shifted
<1>2. \A i \in WordsAt : i \in 1 .. Len(parsed) /\ parsed[i].slot \in Slots
  BY <1>0, <1>1 DEF WordsAt, Slots, Keyword, Error
<1>3. f \in Injection(WordsAt, Slots)
  <2>1. f \in [WordsAt -> Slots]
    BY <1>2
  <2>2. \A i, j \in WordsAt : f[i] = f[j] => i = j
    BY <1>2 DEF IInv, OwnEntry
  <2> QED
    BY <2>1, <2>2 DEF Injection, IsInjective
<1>4. IsFiniteSet(Slots) /\ Cardinality(Slots) = WlSize
  BY <1>0, FS_Interval DEF Slots
<1>5. Cardinality(WordsAt) <= Cardinality(Slots)
  BY <1>3, <1>4, FS_Injection
<1> QED
  BY <1>4, <1>5, WordsAre DEF IInv

LEMMA WordsOverflow ==
  ASSUME IInv, ~disturbed, NEW e \in 1 .. Len(parsed), parsed[e].slot = Error
  PROVE  ~(Script!WordsOf(Tokens(parsed)) <= WlSize)
<1> DEFINE at(s) == CHOOSE i \in 1 .. Len(parsed) : parsed[i].slot = s
           f == [s \in 1 .. WlSize + 1 |-> at(s)]
<1>0. WlSize \in Nat /\ WlSize > 0
  BY InputAssumption
<1>1. \A s \in 1 .. WlSize + 1 : \E i \in 1 .. Len(parsed) : parsed[i].slot = s
  <2>1. \A s \in Slots : \E i \in 1 .. Len(parsed) : parsed[i].slot = s
    BY DEF IInv, OnlyTheLine
  <2>2. \A s \in 1 .. WlSize + 1 : s \in Slots \/ s = Error
    BY <1>0 DEF Slots, Error
  <2> QED
    BY <2>1, <2>2
<1>2. \A s \in 1 .. WlSize + 1 : at(s) \in 1 .. Len(parsed) /\ parsed[at(s)].slot = s
  BY <1>1
<1> HIDE DEF at
<1>3. f \in Injection(1 .. WlSize + 1, WordsAt)
  <2>1. \A s \in 1 .. WlSize + 1 : at(s) \in WordsAt
    BY <1>0, <1>2 DEF WordsAt, Keyword
  <2>2. f \in [1 .. WlSize + 1 -> WordsAt]
    BY <2>1
  <2>3. \A s, t \in 1 .. WlSize + 1 : f[s] = f[t] => s = t
    BY <1>2
  <2> QED
    BY <2>2, <2>3 DEF Injection, IsInjective
<1>4. Cardinality(1 .. WlSize + 1) = WlSize + 1
  BY <1>0, FS_Interval
<1>5. IsFiniteSet(WordsAt)
  BY WordsAre DEF IInv
<1>6. Cardinality(1 .. WlSize + 1) <= Cardinality(WordsAt) /\ Cardinality(WordsAt) \in Nat
  BY <1>3, <1>5, FS_Injection, FS_CardinalityType
<1> QED
  BY <1>0, <1>4, <1>6, WordsAre DEF IInv

(* A line that parses is accepted; one that does not is not, unless an     *)
(* entry was missing.                                                      *)
LEMMA Accepts ==
  ASSUME IInv
  PROVE  /\ Parses => Script!Accepted(Tokens(parsed))
         /\ ~disturbed => (Parses <=> Script!Accepted(Tokens(parsed)))
<1> DEFINE p == Tokens(parsed)
<1>1. Command = p
  BY CommandIs
<1>2. Script!Accepted(p) <=> p \in Grammar /\ Script!WordsOf(p) <= WlSize
  BY DEF Script!Accepted
<1>3. Parses <=> p \in Grammar /\ \A i \in 1 .. Len(parsed) : parsed[i].slot # Error
  BY <1>1 DEF Parses
<1> HIDE DEF p
<1>4. (\A i \in 1 .. Len(parsed) : parsed[i].slot # Error) => Script!WordsOf(p) <= WlSize
  BY WordsFit DEF p
<1>5. ~disturbed => ((\E i \in 1 .. Len(parsed) : parsed[i].slot = Error) => ~(Script!WordsOf(p) <= WlSize))
  BY WordsOverflow DEF p
<1> QED
  BY <1>2, <1>3, <1>4, <1>5 DEF p

-----------------------------------------------------------------------------
LEMMA ThinSuffix ==
  ASSUME NEW a \in Texts, NEW b \in Texts
  PROVE  Script!Thinned(b, a \o b)
<1>1. Script!Thinned(<<>> \o b, (<<>> \o a) \o b)
  BY EmptyText, ThinnedCut DEF Texts
<1> QED
  BY <1>1, EmptyText

LEMMA ThinSame ==
  ASSUME NEW t \in Texts
  PROVE  Script!Thinned(t, t)
BY ThinSuffix, EmptyText

LEMMA ThinAll ==
  ASSUME NEW t \in Texts
  PROVE  Script!Thinned(<<>>, t)
<1>1. Script!Thinned(<<>>, t \o <<>>)
  BY EmptyText, ThinSuffix
<1> QED
  BY <1>1, EmptyText

(* The line that ends is the first line of the text.                       *)
LEMMA FirstOfText ==
  ASSUME IInv, NEW ran, Ends(ran)
  PROVE  Script!HasLine /\ Script!FirstLine = Tokens(parsed) /\ Script!AfterLine = Behind /\ Behind \in Texts
<1>1. Running /\ Unread # <<>> /\ Head(Unread) = EOL
  BY LineTaken
<1>2. ScriptText = Tokens(parsed) \o (<<EOL>> \o Behind)
  BY <1>1, TextInFront DEF IInv, Running
<1>3. Behind \in Texts
  BY <1>1, ConsumedOne DEF IInv
<1>4. Tokens(parsed) \in Texts /\ \A i \in 1 .. Len(Tokens(parsed)) : Tokens(parsed)[i] # EOL
  BY TokensType DEF IInv, LineSoFar
<1> QED
  BY <1>2, <1>3, <1>4, FirstLineIs

LEMMA InsertsText ==
  ASSUME NEW p
  PROVE  /\ Script!Inserted(p) \in Texts
         /\ ~(p # <<>> /\ Head(p) = "restore") => Script!Inserted(p) = <<>>
<1>1. CASE /\ p # <<>> /\ Head(p) = "restore"
           /\ Script!Named(p) \in DOMAIN FileText /\ FileText[Script!Named(p)] # NoFile
  BY <1>1, InputTexts DEF Script!Inserted
<1>2. CASE ~(/\ p # <<>> /\ Head(p) = "restore"
             /\ Script!Named(p) \in DOMAIN FileText /\ FileText[Script!Named(p)] # NoFile)
  <2>1. Script!Inserted(p) = <<>>
    BY <1>2 DEF Script!Inserted
  <2> QED
    BY <1>2, <2>1, EmptyText
<1> QED
  BY <1>1, <1>2

LEMMA FirstWord ==
  ASSUME IInv, Parses
  PROVE  Tokens(parsed) # <<>> /\ Head(Tokens(parsed)) = Command[1]
<1>1. Command = Tokens(parsed) /\ Tokens(parsed) \in Grammar /\ Tokens(parsed) \in Texts
  BY CommandIs, TokensType DEF Parses, IInv, LineSoFar
<1>2. Tokens(parsed) # <<>>
  BY <1>1, InputAssumption
<1> QED
  BY <1>1, <1>2 DEF Texts

LEMMA InsertsFile ==
  ASSUME IInv, Restores
  PROVE  Script!Inserted(Tokens(parsed)) = IF Opens THEN FileText[Name] ELSE <<>>
<1> DEFINE p == Tokens(parsed)
<1>1. p # <<>> /\ Head(p) = "restore"
  BY FirstWord DEF Restores
<1>2. Script!Named(p) = Name
  BY CommandIs DEF Script!Named, Name
<1> HIDE DEF p
<1> QED
  BY <1>1, <1>2 DEF Script!Inserted, Opens, p

(* A line taken as it should be.                                           *)
LEMMA Taking ==
  ASSUME IInv, NEW ran, Ends(ran), ran = Script!Accepted(Tokens(parsed)),
         mode' = "over" <=> Tokens(parsed) = <<"exit">>,
         mode' = "over" => ScriptText' = <<>>,
         mode' # "over" /\ ran => ScriptText' = Script!Inserted(Tokens(parsed)) \o Behind,
         mode' # "over" /\ ~ran => ScriptText' = Behind,
         UNCHANGED disturbed
  PROVE  Script!Take
<1>1. Script!HasLine /\ Script!FirstLine = Tokens(parsed) /\ Script!AfterLine = Behind
  BY FirstOfText
<1>2. mode # "over" /\ done' = Append(done, [line |-> Tokens(parsed), ran |-> ran])
  BY LineTaken DEF Running
<1> QED
  BY <1>1, <1>2 DEF Script!Take

(* A line of a disturbed input.                                            *)
LEMMA TakingDisturbed ==
  ASSUME IInv, NEW ran, Ends(ran), ran \in {FALSE, Script!Accepted(Tokens(parsed))}, disturbed' = TRUE,
         mode' = "over" => ScriptText' = <<>>,
         mode' # "over" => Script!Thinned(ScriptText', Script!Inserted(Tokens(parsed)) \o Behind)
  PROVE  Script!TakeDisturbed
<1>1. Script!HasLine /\ Script!FirstLine = Tokens(parsed) /\ Script!AfterLine = Behind
  BY FirstOfText
<1>2. mode # "over" /\ done' = Append(done, [line |-> Tokens(parsed), ran |-> ran])
  BY LineTaken DEF Running
<1> QED
  BY <1>1, <1>2 DEF Script!TakeDisturbed

(* Any line that changes nothing of the input, exit, and a restore of a    *)
(* file that is not there.                                                 *)
LEMMA LineTakes ==
  ASSUME IInv, line
  PROVE  Script!Take \/ Script!TakeDisturbed
<1> DEFINE p == Tokens(parsed)
<1>1. Ends(Parses) /\ ~(Parses /\ Command[1] \in {"exit", "restore"}) /\ Advance
      /\ mode' = mode /\ disturbed' = disturbed
  BY DEF line
<1>2. Running /\ Unread # <<>> /\ parsed' = <<>> /\ mode' # "over"
  BY <1>1, LineTaken DEF Running
<1>3. ScriptText' = Behind /\ Behind \in Texts
  BY <1>1, <1>2, BehindLine, FirstOfText DEF IInv
<1>4. /\ Parses => Script!Accepted(p)
      /\ ~disturbed => (Parses <=> Script!Accepted(p))
  BY Accepts
<1>5. Parses => p # <<>> /\ Head(p) = Command[1]
  BY FirstWord
<1>6. Parses => Script!Inserted(p) = <<>> /\ p # <<"exit">>
  <2> SUFFICES ASSUME Parses PROVE Script!Inserted(p) = <<>> /\ p # <<"exit">>
    OBVIOUS
  <2>1. Head(p) # "exit" /\ Head(p) # "restore"
    BY <1>1, <1>5
  <2>2. p # <<"exit">>
    BY <2>1
  <2> QED
    BY <2>1, <2>2, InsertsText
<1>7. Parses \in BOOLEAN
  BY DEF Parses
<1> HIDE DEF p
<1>8. CASE disturbed
  <2>1. Parses \in {FALSE, Script!Accepted(p)}
    BY <1>4, <1>7 DEF Script!Accepted
  <2>2. Script!Thinned(ScriptText', Script!Inserted(p) \o Behind)
    BY <1>3, InsertsText, ThinSuffix
  <2> QED
    BY <1>1, <1>2, <1>8, <2>1, <2>2, TakingDisturbed DEF p
<1>9. CASE ~disturbed
  <2>1. Parses = Script!Accepted(p)
    BY <1>4, <1>7, <1>9 DEF Script!Accepted
  <2>2. p # <<"exit">>
    <3> SUFFICES ASSUME p = <<"exit">> PROVE FALSE
      OBVIOUS
    <3>1. ~Parses
      BY <1>6
    <3>2. ~Script!Accepted(p)
      BY <1>4, <1>9, <3>1
    <3>3. p \in Grammar
      BY InputAssumption
    <3>4. PICK e \in 1 .. Len(parsed) : parsed[e].slot = Error
      BY <3>1, <3>3, CommandIs DEF Parses, p
    <3>5. Len(parsed) = 1
      BY TokensType DEF p, IInv, LineSoFar
    <3>6. \A i, j \in 1 .. Len(parsed) : i = j
      BY <3>5
    <3>7. 1 \in Slots /\ Error # 1
      BY InputAssumption DEF Slots, Error
    <3>8. \E i \in 1 .. Len(parsed) : parsed[i].slot = 1
      BY <1>9, <3>4, <3>7 DEF IInv, OnlyTheLine
    <3> QED
      BY <3>4, <3>6, <3>7, <3>8
  <2>3. Parses => ScriptText' = Script!Inserted(p) \o Behind
    BY <1>3, <1>6, EmptyText
  <2> QED
    BY <1>1, <1>2, <1>3, <2>1, <2>2, <2>3, Taking DEF p
<1> QED
  BY <1>8, <1>9

LEMMA ExitTakes ==
  ASSUME IInv, exit
  PROVE  Script!Take
<1>1. Ends(TRUE) /\ Parses /\ Command = <<"exit">> /\ mode' = "over" /\ disturbed' = disturbed
  BY DEF exit
<1>2. Script!Accepted(Tokens(parsed)) /\ Tokens(parsed) = <<"exit">>
  BY <1>1, Accepts, CommandIs
<1>3. ScriptText' = <<>>
  BY <1>1, ScriptIsNext
<1>4. Script!Accepted(Tokens(parsed)) = TRUE
  BY <1>2 DEF Script!Accepted
<1> QED
  BY <1>1, <1>2, <1>3, <1>4, Taking

(* The first word of a restore is not that of an exit.                     *)
LEMMA RestoreIs ==
  ASSUME IInv, Restores
  PROVE  Script!Accepted(Tokens(parsed)) = TRUE /\ Tokens(parsed) # <<"exit">>
<1>1. Parses /\ Command[1] = "restore"
  BY DEF Restores
<1>2. Script!Accepted(Tokens(parsed)) = TRUE
  BY <1>1, Accepts DEF Script!Accepted
<1>3. Head(Tokens(parsed)) = "restore"
  BY <1>1, FirstWord
<1> QED
  BY <1>2, <1>3

LEMMA DefaultTakes ==
  ASSUME IInv, restore_default
  PROVE  Script!Take
<1>1. Ends(TRUE) /\ Restores /\ ~Opens /\ Advance /\ mode' = mode /\ disturbed' = disturbed
  BY DEF restore_default
<1>2. Running /\ Unread # <<>> /\ parsed' = <<>> /\ mode' # "over"
  BY <1>1, LineTaken DEF Running
<1>3. ScriptText' = Behind /\ Behind \in Texts
  BY <1>1, <1>2, BehindLine, FirstOfText DEF IInv
<1>4. Script!Inserted(Tokens(parsed)) = <<>>
  BY <1>1, InsertsFile
<1>5. ScriptText' = Script!Inserted(Tokens(parsed)) \o Behind
  BY <1>3, <1>4, EmptyText
<1> QED
  BY <1>1, <1>2, <1>5, RestoreIs, Taking

LEMMA CutEnds ==
  ASSUME NEW a \in Texts, NEW c \in Texts, NEW u \in Texts
  PROVE  (a \o c) \o u = a \o (c \o u)
BY CatTexts

LEMMA CutThins ==
  ASSUME NEW a \in Texts, NEW b \in Texts, NEW c \in Texts, NEW u \in Texts
  PROVE  Script!Thinned(a \o (c \o u), (a \o b) \o (c \o u))
BY CatText, ThinnedCut DEF Texts

LEMMA CutFront ==
  ASSUME NEW a \in Texts, NEW b \in Texts, NEW c \in Texts, NEW u \in Texts
  PROVE  Script!Thinned((a \o c) \o u, ((a \o b) \o c) \o u)
<1>1. Script!Thinned(a \o (c \o u), (a \o b) \o (c \o u))
  BY CutThins
<1>2. a \o b \in Texts
  BY CatText
<1>3. (a \o c) \o u = a \o (c \o u)
  BY CutEnds
<1>4. ((a \o b) \o c) \o u = (a \o b) \o (c \o u)
  BY <1>2, CutEnds
<1> QED
  BY <1>1, <1>3, <1>4, Zenon

LEMMA CutThin ==
  ASSUME NEW f, NEW s, NEW u \in Texts,
         \E a, b, c \in Texts : f = (a \o b) \o c /\ s = (a \o c) \o u
  PROVE  Script!Thinned(s, f \o u)
BY CutFront, Zenon

(* A restore puts the text of the file in front of what is unread.         *)
LEMMA RestoreTakes ==
  ASSUME IInv, restore_config
  PROVE  Script!Take \/ Script!TakeDisturbed
<1> DEFINE file == FileText[Name]
           unread == FlattenSeq(Consumed)
<1>1. /\ Ends(TRUE) /\ Restores /\ Opens /\ mode' = mode
      /\ set_input_buff(Records(file), Consumed) /\ line_read' = <<>>
  BY DEF restore_config
<1>2. Running /\ Unread # <<>> /\ Head(Unread) = EOL /\ parsed' = <<>> /\ mode' # "over"
  BY <1>1, LineTaken DEF Running
<1>3. Behind = unread /\ Consumed \in Seq(Texts) /\ unread \in Texts
  BY <1>2, LineEnds, ConsumedOne, FlatText DEF IInv
<1>4. file \in Texts /\ Records(file) \in Seq(Texts) /\ FlattenSeq(Records(file)) = file
  BY <1>1, FileRecords
<1>5. Script!Inserted(Tokens(parsed)) = file
  BY <1>1, InsertsFile
<1> HIDE DEF file, unread
<1>6. /\ stack' \in Seq(Texts)
      /\ \/ FlattenSeq(stack') = file \o unread /\ disturbed' = disturbed
         \/ /\ disturbed' = TRUE
            /\ \E a, b, c \in Texts :
                 file = (a \o b) \o c /\ FlattenSeq(stack') = (a \o c) \o unread
  <2> DEFINE rs == Records(file)
             Cut(x, y) == \/ FlattenSeq(stack') = x \o y /\ disturbed' = disturbed
                          \/ /\ disturbed' = TRUE
                             /\ \E a, b, c \in Texts :
                                  x = (a \o b) \o c /\ FlattenSeq(stack') = (a \o c) \o y
  <2>1. set_input_buff(rs, Consumed) /\ rs \in Seq(Texts) /\ Consumed \in Seq(Texts)
    BY <1>1, <1>3, <1>4
  <2>2. FlattenSeq(rs) = file /\ FlattenSeq(Consumed) = unread
    BY <1>4 DEF unread
  <2> HIDE DEF rs
  <2>3. stack' \in Seq(Texts) /\ Cut(FlattenSeq(rs), FlattenSeq(Consumed))
    BY <2>1, Pushed
  <2> HIDE DEF Cut
  <2>4. stack' \in Seq(Texts) /\ Cut(file, unread)
    BY <2>2, <2>3
  <2> QED
    BY <2>4 DEF Cut
<1>7. ScriptText' = FlattenSeq(stack')
  <2>1. FlattenSeq(stack') \in Texts
    BY <1>6, FlatText
  <2>2. ScriptText' = (<<>> \o FlattenSeq(stack')) \o <<>>
    BY <1>1, <1>2, ScriptIsNext, TokensEmpty
  <2> QED
    BY <2>1, <2>2, EmptyText
<1>8. CASE FlattenSeq(stack') = file \o unread /\ disturbed' = disturbed
  BY <1>1, <1>2, <1>3, <1>5, <1>7, <1>8, RestoreIs, Taking
<1>9. CASE /\ disturbed' = TRUE
           /\ \E a, b, c \in Texts :
                file = (a \o b) \o c /\ FlattenSeq(stack') = (a \o c) \o unread
  <2>1. Script!Thinned(FlattenSeq(stack'), file \o unread)
    BY <1>3, <1>9, CutThin, Zenon
  <2>2. Script!Thinned(ScriptText', Script!Inserted(Tokens(parsed)) \o Behind)
    BY <1>3, <1>5, <1>7, <2>1
  <2> QED
    BY <1>1, <1>2, <1>9, <2>2, RestoreIs, TakingDisturbed
<1> QED
  BY <1>6, <1>8, <1>9

LEMMA FailureTakes ==
  ASSUME IInv, restore_fails
  PROVE  Script!TakeDisturbed
<1>1. PICK ran \in BOOLEAN : Ends(ran)
  BY DEF restore_fails
<1>2. Restores /\ disturbed' = TRUE /\ Advance
  BY DEF restore_fails, NoMemory
<1>3. Running /\ Unread # <<>> /\ parsed' = <<>>
  BY <1>1, LineTaken
<1>4. ran \in {FALSE, Script!Accepted(Tokens(parsed))}
  BY <1>2, RestoreIs
<1>5. mode' = "over" => ScriptText' = <<>>
  BY ScriptIsNext
<1>6. mode' # "over" => Script!Thinned(ScriptText', Script!Inserted(Tokens(parsed)) \o Behind)
  <2> SUFFICES ASSUME mode' # "over"
               PROVE  Script!Thinned(ScriptText', Script!Inserted(Tokens(parsed)) \o Behind)
    OBVIOUS
  <2>1. ScriptText' = Behind /\ Behind \in Texts
    BY <1>1, <1>2, <1>3, BehindLine, FirstOfText DEF IInv
  <2> QED
    BY <2>1, InsertsText, ThinSuffix
<1> QED
  BY <1>1, <1>2, <1>4, <1>5, <1>6, TakingDisturbed

(* A token goes from the buffers to the line.                              *)
LEMMA TokenStutters ==
  ASSUME IInv, yylex
  PROVE  UNCHANGED Script!vars \/ Script!Lose
<1>1. Running /\ Unread # <<>> /\ Advance /\ mode' = mode /\ done' = done
  BY DEF yylex
<1>2. /\ parsed' \in Seq(Shifted) /\ Tokens(parsed') = Tokens(parsed) \o <<Head(Unread)>>
      /\ disturbed' = disturbed \/ disturbed' = TRUE
  BY WordStep DEF LineSoFar
<1>3. mode # "over" /\ mode' # "over"
  BY <1>1 DEF Running
<1>4. ScriptText' = Tokens(parsed') \o Behind
  BY <1>1, <1>2, <1>3, TextAfter DEF IInv
<1>5. Tokens(parsed) \in Texts /\ Head(Unread) \in Tok /\ Behind \in Texts
  BY <1>1, TokensType, ConsumedOne DEF IInv, LineSoFar
<1>6. <<Head(Unread)>> \in Texts
  BY <1>5 DEF Texts
<1>7. ScriptText = Tokens(parsed) \o (<<Head(Unread)>> \o Behind)
  BY <1>1, <1>3, TextInFront DEF IInv
<1>8. ScriptText' = ScriptText
  BY <1>2, <1>4, <1>5, <1>6, <1>7, CatTexts
<1>9. ScriptText \in Texts
  BY <1>5, <1>6, <1>7, CatText
<1>10. CASE disturbed' = disturbed
  BY <1>1, <1>8, <1>10 DEF Script!vars
<1>11. CASE disturbed' = TRUE
  <2>1. Script!Thinned(ScriptText', ScriptText)
    BY <1>8, <1>9, ThinSame
  <2> QED
    BY <1>1, <1>3, <1>11, <2>1 DEF Script!Lose
<1> QED
  BY <1>2, <1>10, <1>11

LEMMA WrapStutters ==
  ASSUME IInv, yywrap
  PROVE  UNCHANGED Script!vars
<1>1. /\ stack # <<>> /\ Unread = <<>> /\ stack' = Tail(stack)
      /\ UNCHANGED <<mode, line_read, parsed, done, disturbed>>
  BY DEF yywrap, history
<1>2. Head(stack) = <<>> /\ stack \in Seq(Texts)
  BY <1>1 DEF Unread, IInv, Buffers
<1>3. Tail(stack) \in Seq(Texts) /\ FlattenSeq(stack) = <<>> \o FlattenSeq(Tail(stack))
  BY <1>1, <1>2, HeadBuffer
<1>4. FlattenSeq(stack') = FlattenSeq(stack)
  BY <1>1, <1>3, FlatText, EmptyText
<1>5. ScriptText' = ScriptText
  BY <1>1, <1>4, ScriptIs, ScriptIsNext
<1> QED
  BY <1>1, <1>5 DEF Script!vars

(* The operator is asked when there is no line.                            *)
LEMMA TextOfLine ==
  ASSUME IInv, mode # "over", stack = <<>>, line_read = <<>>
  PROVE  /\ ScriptText = Tokens(parsed) /\ ScriptText \in Texts
         /\ ~Script!HasLine
<1>1. Tokens(parsed) \in Texts /\ \A i \in 1 .. Len(Tokens(parsed)) : Tokens(parsed)[i] # EOL
  BY TokensType DEF IInv, LineSoFar
<1>2. ScriptText = (Tokens(parsed) \o <<>>) \o <<>>
  BY ScriptIs, FlattenEmpty
<1>3. ScriptText = Tokens(parsed)
  BY <1>1, <1>2, EmptyText
<1> QED
  BY <1>1, <1>3 DEF Script!HasLine

LEMMA Prefix ==
  ASSUME NEW a \in Texts, NEW b \in Texts
  PROVE  Script!IsPrefix(a, a \o b)
<1>1. Len(a) <= Len(a \o b) /\ Len(a) \in Nat
  BY DEF Texts
<1>2. SubSeq(a, 1, Len(a)) = SubSeq(a \o b, 1, Len(a))
  BY DEF Texts
<1> QED
  BY <1>1, <1>2 DEF Script!IsPrefix

LEMMA ReadlineQueues ==
  ASSUME IInv, readline_input
  PROVE  Script!Queue
<1>1. PICK cmd \in Typed : line_read' = Line(cmd)
  BY DEF readline_input
<1>2. /\ mode # "over" /\ stack = <<>> /\ line_read = <<>>
      /\ UNCHANGED <<mode, stack, parsed, done, disturbed>>
  BY DEF readline_input, Running
<1>3. ScriptText = Tokens(parsed) /\ ScriptText \in Texts /\ ~Script!HasLine
  BY <1>2, TextOfLine
<1>4. Line(cmd) \in Texts
  BY Queued
<1>5. ScriptText' = (Tokens(parsed) \o <<>>) \o Line(cmd)
  BY <1>1, <1>2, ScriptIsNext, FlattenEmpty
<1>6. ScriptText' = ScriptText \o Line(cmd)
  BY <1>3, <1>5, EmptyText
<1>7. Script!IsPrefix(ScriptText, ScriptText')
  BY <1>3, <1>4, <1>6, Prefix
<1> QED
  BY <1>2, <1>3, <1>7 DEF Script!Queue

LEMMA StartQueues ==
  ASSUME IInv, NEW m \in {"interactive", "once", "demo"}, NEW buffers \in Seq(Texts), Start(m, buffers)
  PROVE  Script!Queue
<1>1. /\ mode = "off" /\ mode' = m /\ set_input_buff(buffers, <<>>)
      /\ UNCHANGED <<line_read, parsed, done>>
  BY DEF Start
<1>2. <<>> \in Seq(Texts)
  OBVIOUS
<1>3. stack' \in Seq(Texts) /\ (disturbed' = disturbed \/ disturbed' = TRUE)
  BY <1>1, <1>2, Pushed
<1>4. stack = <<>> /\ line_read = <<>> /\ parsed = <<>>
  BY <1>1 DEF IInv, Buffers
<1>5. ScriptText = <<>> /\ ~Script!HasLine
  BY <1>1, <1>4, TextOfLine, TokensEmpty
<1>6. ScriptText' = (<<>> \o FlattenSeq(stack')) \o <<>>
  BY <1>1, <1>4, ScriptIsNext, TokensEmpty
<1>7. FlattenSeq(stack') \in Texts
  BY <1>3, FlatText
<1>8. ScriptText' = <<>> \o FlattenSeq(stack')
  BY <1>6, <1>7, EmptyText
<1>9. Script!IsPrefix(ScriptText, ScriptText')
  BY <1>5, <1>7, <1>8, EmptyText, Prefix
<1>10. disturbed => disturbed'
  BY <1>3
<1>11. mode # "over" /\ (mode' = "over") = (mode = "over")
  BY <1>1
<1> QED
  BY <1>1, <1>5, <1>9, <1>10, <1>11 DEF Script!Queue

LEMMA EndEnds ==
  ASSUME IInv, end_of_input
  PROVE  Script!End \/ Script!Lose
<1>1. /\ mode # "over" /\ stack = <<>> /\ line_read = <<>> /\ parsed' = <<>>
      /\ mode' = IF parsed = <<>> \/ mode = "demo" THEN "over" ELSE mode
      /\ disturbed' = (disturbed \/ parsed # <<>>)
      /\ UNCHANGED <<stack, line_read, done>>
  BY DEF end_of_input, Running
<1>2. ScriptText = Tokens(parsed) /\ ScriptText \in Texts
  BY <1>1, TextOfLine
<1>3. ScriptText' = <<>>
  <2>1. ScriptText' = IF mode' = "over" THEN <<>> ELSE (<<>> \o <<>>) \o <<>>
    BY <1>1, ScriptIsNext, TokensEmpty, FlattenEmpty
  <2> QED
    BY <2>1, EmptyText
<1>4. CASE mode' = "over"
  <2>1. parsed = <<>> => ScriptText = <<>>
    BY <1>2, TokensEmpty
  <2>2. parsed # <<>> => disturbed'
    BY <1>1
  <2> QED
    BY <1>1, <1>3, <1>4, <2>1, <2>2 DEF Script!End
<1>5. CASE mode' # "over"
  <2>1. parsed # <<>> /\ disturbed'
    BY <1>1, <1>5
  <2>2. Script!Thinned(ScriptText', ScriptText)
    BY <1>2, <1>3, ThinAll
  <2> QED
    BY <1>1, <1>5, <2>1, <2>2 DEF Script!Lose
<1> QED
  BY <1>4, <1>5

LEMMA CleanupEnds ==
  ASSUME cleanup
  PROVE  Script!End
<1>1. mode # "over" /\ mode' = "over" /\ disturbed' = TRUE /\ done' = done
  BY DEF cleanup, Running
<1>2. ScriptText' = <<>>
  BY <1>1, ScriptIsNext
<1> QED
  BY <1>1, <1>2 DEF Script!End

(* Every step of the cli is one of the script, or none.                    *)
LEMMA ScriptStep == IInv /\ [Next]_vars => [Script!Next]_Script!vars
<1> SUFFICES ASSUME IInv, [Next]_vars PROVE Script!Next \/ UNCHANGED Script!vars
  OBVIOUS
<1>1. CASE UNCHANGED vars
  <2>1. UNCHANGED <<mode, stack, line_read, parsed, done, disturbed>>
    BY <1>1 DEF vars, history
  <2>2. ScriptText' = ScriptText
    BY <2>1, ScriptIs, ScriptIsNext
  <2> QED
    BY <2>1, <2>2 DEF Script!vars
<1>2. CASE StartCLI \/ StartCLIExit \/ start_cli_demo
  BY <1>2, Starts, StartQueues DEF Script!Next
<1>3. CASE readline_input
  BY <1>3, ReadlineQueues DEF Script!Next
<1>4. CASE end_of_input
  BY <1>4, EndEnds DEF Script!Next
<1>5. CASE cleanup
  BY <1>5, CleanupEnds DEF Script!Next
<1>6. CASE yylex
  BY <1>6, TokenStutters DEF Script!Next
<1>7. CASE yywrap
  BY <1>7, WrapStutters
<1>8. CASE line \/ exit
  BY <1>8, LineTakes, ExitTakes DEF Script!Next
<1>9. CASE restore_config \/ restore_default \/ restore_fails
  BY <1>9, RestoreTakes, DefaultTakes, FailureTakes DEF Script!Next
<1> QED
  BY <1>1, <1>2, <1>3, <1>4, <1>5, <1>6, <1>7, <1>8, <1>9 DEF Next, Parse

(* The input of a cli is the text that CommandScript promises, for any     *)
(* lines and files, any size of the watch list, and any number of faults.  *)
THEOREM TakesScript == Spec => IsScript
<1>1. Init => Script!Init
  <2> SUFFICES ASSUME Init PROVE Script!Init
    OBVIOUS
  <2>1. mode = "off" /\ stack = <<>> /\ line_read = <<>> /\ parsed = <<>> /\ done = <<>> /\ disturbed = FALSE
    BY DEF Init
  <2>2. ScriptText = (<<>> \o <<>>) \o <<>>
    BY <2>1, ScriptIs, TokensEmpty, FlattenEmpty
  <2>3. ScriptText = <<>>
    BY <2>2, EmptyText
  <2> QED
    BY <2>1, <2>3 DEF Script!Init
<1> QED
  BY <1>1, InputInductive, ScriptStep, PTL DEF Spec, IsScript, Script!Spec

=============================================================================
