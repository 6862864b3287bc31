------------------------ MODULE FirmwareUpdateProofs ------------------------
(***************************************************************************)
(* Proofs about FirmwareUpdate: for flashes and files of any size and any  *)
(* number of updates, a card is reconfigured only with the whole file, an  *)
(* update that nothing disturbs succeeds whatever was in the flash, and    *)
(* the hardware number survives.                                           *)
(***************************************************************************)
EXTENDS FirmwareUpdate, WellFoundedInduction, TLAPS

-----------------------------------------------------------------------------
(* Induction over a set of numbers, from the least number outside it.      *)
LEMMA NatInd ==
  ASSUME NEW S, 0 \in S, \A n \in Nat : n \in S => n + 1 \in S
  PROVE  Nat \subseteq S
<1> DEFINE T == {n \in Nat : n \notin S}
<1> SUFFICES ASSUME T # {} PROVE FALSE
  OBVIOUS
<1>1. IsWellFoundedOn(OpToRel(<, Nat), Nat)
  BY NatLessThanWellFounded
<1>2. PICK n \in T : \A m \in T : <<m, n>> \notin OpToRel(<, Nat)
  BY <1>1, WFMin
<1>3. \A m \in T : ~(m < n)
  BY <1>2 DEF OpToRel
<1>4. n # 0 /\ n - 1 \in Nat
  OBVIOUS
<1>5. n - 1 \notin T
  BY <1>3, <1>4
<1>6. n - 1 \in S /\ n - 1 + 1 = n
  BY <1>4, <1>5
<1> QED
  BY <1>4, <1>6

(* FlattenSeq appends one sequence after the other.                        *)
LEMMA FlattenStep ==
  ASSUME NEW S, NEW q \in Seq(Seq(S)), Len(q) > 0
  PROVE  \E g \in [1 .. Len(q) -> Seq(S)] :
           /\ g[1] = q[1]
           /\ \A i \in 1 .. Len(q) - 1 : g[i + 1] = g[i] \o q[i + 1]
           /\ FlattenSeq(q) = g[Len(q)]
<1> DEFINE n == Len(q)
           Cat(x, i) == IF i = 1 THEN q[i] ELSE x \o q[i]
           Body(g) == [i \in 1 .. n |-> Cat(g[i - 1], i)]
           Upto(k) == {g \in [1 .. k -> Seq(S)] : \A i \in 1 .. k : g[i] = Cat(g[i - 1], i)}
           Good == {k \in Nat : k + 1 <= n => \E g : g \in Upto(k + 1)}
<1>0. n \in Nat \ {0} /\ \A i \in 1 .. n : q[i] \in Seq(S)
  OBVIOUS
<1>1. \A x, y : Cat(x, 1) = Cat(y, 1)
  OBVIOUS
<1>2. \A x : Cat(x, 1) \in Seq(S)
  BY <1>0
<1>3. \A x \in Seq(S) : \A i \in 1 .. n : Cat(x, i) \in Seq(S)
  BY <1>0
<1>c. Cat(n, 1) = q[1] /\ \A x : \A i \in 2 .. n : Cat(x, i) = x \o q[i]
  OBVIOUS
<1>d. FlattenSeq(q) = (CHOOSE x : x = Body(x))[n]
  BY <1>0, Zenon DEF FlattenSeq
<1> HIDE DEF Cat, n
<1>4. 0 \in Good
  <2> DEFINE h == [i \in 1 .. 1 |-> Cat(0, 1)]
  <2>1. h \in [1 .. 1 -> Seq(S)]
    BY <1>2
  <2>2. \A i \in 1 .. 1 : h[i] = Cat(h[i - 1], i)
    BY <1>1
  <2>3. h \in Upto(1)
    BY <2>1, <2>2
  <2> HIDE DEF Upto
  <2> QED
    BY <2>3, <1>0
<1>5. ASSUME NEW k \in Nat, k \in Good PROVE k + 1 \in Good
  <2> SUFFICES ASSUME k + 1 + 1 <= n PROVE \E h : h \in Upto(k + 1 + 1)
    <3> HIDE DEF Upto
    <3> QED
      OBVIOUS
  <2>1. PICK g : g \in Upto(k + 1)
    <3>1. k + 1 <= n
      BY <1>0
    <3> HIDE DEF Upto
    <3> QED
      BY <3>1, <1>5
  <2> DEFINE h == [i \in 1 .. k + 1 + 1 |-> IF i = k + 1 + 1 THEN Cat(g[k + 1], k + 1 + 1) ELSE g[i]]
  <2>2. Cat(g[k + 1], k + 1 + 1) \in Seq(S)
    BY <2>1, <1>0, <1>3
  <2>3. h \in [1 .. k + 1 + 1 -> Seq(S)]
    BY <2>1, <2>2
  <2>4. ASSUME NEW i \in 1 .. k + 1 + 1 PROVE h[i] = Cat(h[i - 1], i)
    <3>1. CASE i = k + 1 + 1
      BY <3>1
    <3>2. CASE i \in 2 .. k + 1
      BY <3>2, <2>1
    <3>3. CASE i = 1
      BY <3>3, <2>1, <1>1
    <3> QED
      BY <3>1, <3>2, <3>3
  <2>5. h \in Upto(k + 1 + 1)
    BY <2>3, <2>4
  <2> QED
    BY <2>5
<1>6. n - 1 \in Good
  <2> HIDE DEF Good
  <2>1. \A k \in Nat : k \in Good => k + 1 \in Good
    BY <1>5
  <2>2. Nat \subseteq Good
    BY <1>4, <2>1, NatInd
  <2> QED
    BY <1>0, <2>2
<1>7. PICK g : g \in Upto(n)
  <2>1. n - 1 + 1 = n /\ n - 1 + 1 <= n
    BY <1>0
  <2> HIDE DEF Upto
  <2> QED
    BY <2>1, <1>6
<1>8. g = Body(g)
  BY <1>7
<1> DEFINE f == CHOOSE x : x = Body(x)
<1>9. f = Body(f)
  <2> HIDE DEF Body
  <2> QED
    BY <1>8
<1> HIDE DEF f
<1> DEFINE Alike == {k \in Nat : k + 1 <= n => f[k + 1] = g[k + 1]}
<1>10. \A i \in 1 .. n : f[i] = Cat(f[i - 1], i) /\ g[i] = Cat(g[i - 1], i)
  BY <1>7, <1>9
<1>11. 0 \in Alike
  BY <1>0, <1>10, <1>1
<1>12. ASSUME NEW k \in Nat, k \in Alike PROVE k + 1 \in Alike
  <2> SUFFICES ASSUME k + 1 + 1 <= n PROVE f[k + 1 + 1] = g[k + 1 + 1]
    OBVIOUS
  <2>1. f[k + 1] = g[k + 1]
    BY <1>12, <1>0
  <2>2. f[k + 1 + 1] = Cat(f[k + 1], k + 1 + 1) /\ g[k + 1 + 1] = Cat(g[k + 1], k + 1 + 1)
    BY <1>10, <1>0
  <2> QED
    BY <2>1, <2>2
<1>13. f[n] = g[n]
  <2> HIDE DEF Alike
  <2>1. \A k \in Nat : k \in Alike => k + 1 \in Alike
    BY <1>12
  <2>2. Nat \subseteq Alike
    BY <1>11, <2>1, NatInd
  <2>3. n - 1 \in Alike
    BY <1>0, <2>2
  <2> QED
    BY <2>3, <1>0 DEF Alike
<1>14. g[1] = q[1] /\ \A i \in 1 .. n - 1 : g[i + 1] = g[i] \o q[i + 1]
  <2>1. g[1] = Cat(g[0], 1)
    BY <1>0, <1>10
  <2>2. Cat(g[0], 1) = Cat(n, 1)
    BY <1>1, Zenon
  <2>3. \A i \in 1 .. n - 1 : g[i + 1] = Cat(g[i], i + 1)
    BY <1>0, <1>10
  <2>4. \A i \in 1 .. n - 1 : Cat(g[i], i + 1) = g[i] \o q[i + 1]
    <3>1. \A i \in 1 .. n - 1 : i + 1 \in 2 .. n
      BY <1>0
    <3> QED
      BY <3>1, <1>c, Zenon
  <2> QED
    BY <2>1, <2>2, <2>3, <2>4, <1>c
<1>15. FlattenSeq(q) = g[n] /\ g \in [1 .. n -> Seq(S)]
  BY <1>7, <1>13, <1>d DEF f
<1> QED
  BY <1>14, <1>15 DEF n

(* What it returns consists of the elements of the sequences it is given.  *)
LEMMA FlattenOver ==
  ASSUME NEW S, NEW q \in Seq(Seq(S))
  PROVE  FlattenSeq(q) \in Seq(S)
<1>1. CASE Len(q) = 0
  <2>1. FlattenSeq(q) = q
    BY <1>1 DEF FlattenSeq
  <2>2. q = << >>
    BY <1>1
  <2> QED
    BY <2>1, <2>2
<1>2. CASE Len(q) > 0
  <2>1. PICK g \in [1 .. Len(q) -> Seq(S)] : FlattenSeq(q) = g[Len(q)]
    BY <1>2, FlattenStep
  <2>2. Len(q) \in 1 .. Len(q)
    BY <1>2
  <2> QED
    BY <2>1, <2>2
<1> QED
  BY <1>1, <1>2

(* And of all of them.                                                     *)
LEMMA FlattenHas ==
  ASSUME NEW S, NEW q \in Seq(Seq(S)), NEW k \in 1 .. Len(q), NEW j \in 1 .. Len(q[k])
  PROVE  \E t \in 1 .. Len(FlattenSeq(q)) : FlattenSeq(q)[t] = q[k][j]
<1> DEFINE n == Len(q)
<1>1. PICK g \in [1 .. n -> Seq(S)] :
        /\ g[1] = q[1]
        /\ \A i \in 1 .. n - 1 : g[i + 1] = g[i] \o q[i + 1]
        /\ FlattenSeq(q) = g[n]
  <2>1. Len(q) > 0
    OBVIOUS
  <2> QED
    BY <2>1, FlattenStep
<1>2. n \in Nat /\ k \in 1 .. n /\ q[k] \in Seq(S)
  OBVIOUS
<1> HIDE DEF n
<1> DEFINE e == q[k][j]
           Has(s) == \E t \in 1 .. Len(s) : s[t] = e
           Upto == {m \in Nat : k + m <= n => Has(g[k + m])}
<1>3. \A a, b \in Seq(S) : Has(a) => Has(a \o b)
  <2> SUFFICES ASSUME NEW a \in Seq(S), NEW b \in Seq(S), NEW t \in 1 .. Len(a), a[t] = e
               PROVE  Has(a \o b)
    OBVIOUS
  <2>1. t \in 1 .. Len(a \o b) /\ (a \o b)[t] = a[t]
    OBVIOUS
  <2> QED
    BY <2>1
<1>4. Has(g[k])
  <2>1. CASE k = 1
    BY <2>1, <1>1
  <2>2. CASE k # 1
    <3>1. PICK i \in 1 .. n - 1 : k = i + 1
      BY <2>2, <1>2
    <3>2. g[k] = g[i] \o q[k] /\ g[i] \in Seq(S)
      <4>1. g[i + 1] = g[i] \o q[i + 1]
        BY <1>1
      <4>2. g[i] \in Seq(S)
        BY <1>1, <1>2
      <4> QED
        BY <4>1, <4>2, <3>1, Zenon
    <3>3. /\ Len(g[i]) + j \in 1 .. Len(g[i] \o q[k])
          /\ (g[i] \o q[k])[Len(g[i]) + j] = q[k][j]
      <4> DEFINE a == g[i]
                 b == q[k]
      <4>1. a \in Seq(S) /\ b \in Seq(S) /\ j \in 1 .. Len(b)
        BY <3>2, <1>2
      <4> HIDE DEF a, b
      <4>2. Len(a) + j \in 1 .. Len(a \o b) /\ (a \o b)[Len(a) + j] = b[j]
        BY <4>1
      <4> QED
        BY <4>2 DEF a, b
    <3> QED
      BY <3>2, <3>3
  <2> QED
    BY <2>1, <2>2
<1> HIDE DEF Has
<1>5. 0 \in Upto
  BY <1>4, <1>2
<1>6. ASSUME NEW m \in Nat, m \in Upto PROVE m + 1 \in Upto
  <2> SUFFICES ASSUME k + (m + 1) <= n PROVE Has(g[k + (m + 1)])
    OBVIOUS
  <2>1. Has(g[k + m]) /\ k + m \in 1 .. n /\ k + m \in 1 .. n - 1
    BY <1>6, <1>2
  <2>2. g[k + m + 1] = g[k + m] \o q[k + m + 1]
    BY <2>1, <1>1
  <2>3. g[k + m] \in Seq(S)
    BY <2>1, <1>1
  <2>4. q[k + m + 1] \in Seq(S)
    <3>1. k + m + 1 \in 1 .. Len(q)
      BY <2>1, <1>2 DEF n
    <3> QED
      BY <3>1
  <2> QED
    <3>1. k + (m + 1) = k + m + 1
      BY <1>2
    <3>2. Has(g[k + m + 1])
      BY <2>1, <2>2, <2>3, <2>4, <1>3
    <3> QED
      BY <3>1, <3>2
<1>7. n - k \in Upto
  <2> HIDE DEF Upto
  <2>1. \A m \in Nat : m \in Upto => m + 1 \in Upto
    BY <1>6
  <2>2. Nat \subseteq Upto
    BY <1>5, <2>1, NatInd
  <2> QED
    BY <1>2, <2>2
<1>8. Has(g[n])
  BY <1>7, <1>2
<1> QED
  BY <1>8, <1>1 DEF Has

-----------------------------------------------------------------------------
(* Whole numbers: quotient and rest, and products that keep an order.      *)
LEMMA DivMod ==
  ASSUME NEW w \in Int, NEW n \in Nat \ {0}
  PROVE  \E q \in Int : \E r \in 0 .. n - 1 :
           q = w \div n /\ r = w % n /\ w = q * n + r
<1>1. PICK q \in Int : q = w \div n
  OBVIOUS
<1>2. PICK r \in 0 .. n - 1 : r = w % n
  OBVIOUS
<1>3. w = q * n + r
  BY <1>1, <1>2, Z3
<1> QED
  BY <1>1, <1>2, <1>3

LEMMA DivUnique ==
  ASSUME NEW w \in Int, NEW n \in Nat \ {0}, NEW q \in Int, NEW r \in 0 .. n - 1, w = q * n + r
  PROVE  w \div n = q /\ w % n = r
  OBVIOUS

LEMMA Times ==
  ASSUME NEW a \in Int, NEW b \in Int, NEW n \in Nat, a <= b
  PROVE  a * n \in Int /\ b * n \in Int /\ a * n <= b * n
  OBVIOUS

(* The parts of w words fill them, the last one to the end.                *)
LEMMA NeedParts ==
  ASSUME NEW w \in Nat, NEW size \in Nat \ {0}
  PROVE  /\ Need(w, size) \in Nat /\ LastPart(w, size) \in 1 .. size
         /\ w = 0 => Need(w, size) = 0
         /\ w > 0 => Need(w, size) > 0 /\ (Need(w, size) - 1) * size + LastPart(w, size) = w
<1>1. PICK q \in Int : \E r \in 0 .. size - 1 :
        q = w \div size /\ r = w % size /\ w = q * size + r
  BY DivMod
<1>2. PICK r \in 0 .. size - 1 : q = w \div size /\ r = w % size /\ w = q * size + r
  BY <1>1
<1>3. q >= 0
  BY <1>2
<1>4. CASE r = 0
  <2>1. w > 0 => q > 0
    BY <1>2, <1>3, <1>4
  <2>2. (q - 1) * size + size = q * size
    OBVIOUS
  <2>3. w = 0 => q = 0
    BY <1>2, <1>3, <1>4
  <2>4. Need(w, size) = q /\ LastPart(w, size) = size
    BY <1>2, <1>4 DEF Need, LastPart
  <2> QED
    BY <1>2, <1>3, <1>4, <2>1, <2>2, <2>3, <2>4
<1>5. CASE r # 0
  <2>1. Need(w, size) = q + 1 /\ LastPart(w, size) = r
    BY <1>2, <1>5 DEF Need, LastPart
  <2>2. w # 0 /\ q + 1 - 1 = q
    BY <1>2, <1>3, <1>5
  <2>3. (Need(w, size) - 1) * size + LastPart(w, size) = w
    <3>1. \A n \in Int : n = q + 1 => (n - 1) * size + r = w
      BY <1>2
    <3> QED
      BY <2>1, <3>1
  <2> QED
    BY <1>3, <1>5, <2>1, <2>2, <2>3
<1> QED
  BY <1>4, <1>5

LEMMA PartFits ==
  ASSUME NEW w \in Nat, NEW size \in Nat \ {0}, NEW i \in 1 .. Need(w, size)
  PROVE  /\ Part(w, size, i) \in 1 .. size
         /\ (i - 1) * size \in Nat /\ (i - 1) * size + Part(w, size, i) <= w
<1> DEFINE n == Need(w, size)
           l == LastPart(w, size)
<1>1. n \in Nat /\ l \in 1 .. size /\ (w > 0 => (n - 1) * size + l = w) /\ (w = 0 => n = 0)
  BY NeedParts
<1>2. w > 0 /\ i \in 1 .. n
  BY <1>1
<1>3. Part(w, size, i) = IF i = n THEN l ELSE size
  BY DEF Part
<1> HIDE DEF n, l
<1>4. (i - 1) * size \in Nat
  BY <1>1, <1>2
<1>5. CASE i = n
  BY <1>1, <1>2, <1>3, <1>4, <1>5
<1>6. CASE i # n
  <2>1. i * size <= (n - 1) * size /\ i * size = (i - 1) * size + size
    BY <1>1, <1>2, <1>6
  <2> QED
    BY <1>1, <1>2, <1>3, <1>4, <1>6, <2>1
<1> QED
  BY <1>5, <1>6

LEMMA PartOf ==
  ASSUME NEW w \in Nat, NEW size \in Nat \ {0}, NEW j \in 0 .. w - 1
  PROVE  \E i \in 1 .. Need(w, size) :
           (i - 1) * size <= j /\ j < (i - 1) * size + Part(w, size, i)
<1> DEFINE n == Need(w, size)
           l == LastPart(w, size)
<1>1. n \in Nat /\ l \in 1 .. size /\ (n - 1) * size + l = w /\ n > 0
  BY NeedParts
<1>2. PICK q \in Int : \E r \in 0 .. size - 1 :
        q = j \div size /\ r = j % size /\ j = q * size + r
  BY DivMod
<1> DEFINE i == q + 1
<1>3. i \in Int /\ (i - 1) * size <= j /\ j < (i - 1) * size + size
  BY <1>2
<1>4. Part(w, size, i) = IF i = n THEN l ELSE size
  BY DEF Part
<1> HIDE DEF n, l, i
<1>5. i >= 1
  <2> SUFFICES ASSUME i <= 0 PROVE FALSE
    BY <1>3
  <2>1. (i - 1) * size <= -1 * size
    BY <1>3
  <2> QED
    BY <2>1, <1>3
<1>6. i <= n
  <2> SUFFICES ASSUME i - 1 >= n PROVE FALSE
    BY <1>3, <1>1
  <2>1. n * size <= (i - 1) * size /\ n * size = (n - 1) * size + size
    BY <1>1, <1>3
  <2> QED
    BY <2>1, <1>1, <1>3
<1> QED
  <2>1. i \in 1 .. n /\ (i - 1) * size <= j /\ j < (i - 1) * size + Part(w, size, i)
    <3>1. i \in 1 .. n
      BY <1>1, <1>3, <1>5, <1>6
    <3>2. j < (i - 1) * size + Part(w, size, i)
      <4>1. CASE i = n
        BY <1>1, <1>3, <1>4, <4>1
      <4>2. CASE i # n
        BY <1>3, <1>4, <4>2
      <4> QED
        BY <4>1, <4>2
    <3> QED
      BY <3>1, <3>2, <1>3
  <2> QED
    BY <2>1 DEF n

-----------------------------------------------------------------------------
(* The steps of a plan: unlock the banks, erase their blocks, program the  *)
(* buffers, then the four of the number, the comparison and the end.       *)
BlocksOf(f) == need_bank(f) * Blocks
Start(f) == need_bank(f) + BlocksOf(f)
Length(f) == Start(f) + Len(program(f)) + 4

(* The buffers that lie between two addresses, a shift from their place in *)
(* the file.                                                               *)
Buffers(lo, hi, shift) ==
  {s \in [do : {"program"}, addr : Int, from : Int, len : Nat \ {0}] :
     lo <= s.addr /\ s.addr + s.len <= hi /\ s.addr - s.from = shift}
Covers(seq, lo, hi) ==
  \A a \in lo .. hi - 1 : \E t \in 1 .. Len(seq) : a \in Range_(seq[t])

LEMMA SizesOf ==
  /\ BufferSize \in Nat \ {0} /\ BlockSize \in Nat \ {0} /\ Blocks \in Nat \ {0, 1}
  /\ Banks \in Nat /\ NumberBank \in 1 .. Banks - 1 /\ Uint8 \in Nat /\ Uint8 > Banks
  /\ BankSize \in Nat \ {0} /\ BankSize = Blocks * BlockSize /\ BlockSize < BankSize
  /\ LogicAt \in Addresses /\ HardwareAt \in Addresses
  /\ LogicAt = NumberBank * BankSize /\ LogicAt \in Nat /\ HardwareAt = LogicAt + BlockSize
<1>1. /\ BufferSize \in Nat \ {0} /\ BlockSize \in Nat \ {0} /\ Blocks \in Nat \ {0, 1}
      /\ Banks \in Nat /\ NumberBank \in 1 .. Banks - 1 /\ Uint8 \in Nat /\ Uint8 > Banks
  BY FlashAssumption
<1>2. BankSize \in Nat \ {0} /\ BankSize = Blocks * BlockSize
  BY <1>1 DEF BankSize
<1>3. BlockSize < BankSize
  BY <1>1, <1>2, 2 * BlockSize <= Blocks * BlockSize
<1>4. /\ NumberBank * BankSize \in Nat /\ (NumberBank + 1) * BankSize <= Banks * BankSize
      /\ (NumberBank + 1) * BankSize = NumberBank * BankSize + BankSize
      /\ Banks * BankSize \in Nat
  BY <1>1, <1>2
<1> QED
  BY <1>1, <1>2, <1>3, <1>4 DEF LogicAt, HardwareAt, Addresses

LEMMA BlockProgram ==
  ASSUME NEW addr \in Int, NEW from \in Int, NEW w \in Nat
  PROVE  /\ block_program(addr, from, w) \in Seq(Buffers(addr, addr + w, addr - from))
         /\ Covers(block_program(addr, from, w), addr, addr + w)
<1> DEFINE n == Need(w, BufferSize)
           p == block_program(addr, from, w)
           buffer(i) == Do("program", addr + (i - 1) * BufferSize, from + (i - 1) * BufferSize,
                           Part(w, BufferSize, i))
<1>1. BufferSize \in Nat \ {0} /\ n \in Nat
  BY SizesOf, NeedParts
<1>2. p = [i \in 1 .. n |-> buffer(i)]
  BY DEF block_program
<1>3. ASSUME NEW i \in 1 .. n
      PROVE  /\ buffer(i) \in Buffers(addr, addr + w, addr - from)
             /\ Range_(buffer(i)) =
                  addr + (i - 1) * BufferSize .. addr + (i - 1) * BufferSize + Part(w, BufferSize, i) - 1
  <2> DEFINE at == (i - 1) * BufferSize
             l == Part(w, BufferSize, i)
  <2>1. l \in 1 .. BufferSize /\ at \in Nat /\ at + l <= w
    BY <1>1, PartFits
  <2> HIDE DEF at, l
  <2>2. Do("program", addr + at, from + at, l) \in Buffers(addr, addr + w, addr - from)
    BY <2>1, <1>1 DEF Do, Buffers
  <2>3. Range_(Do("program", addr + at, from + at, l)) = addr + at .. addr + at + l - 1
    BY DEF Do, Range_
  <2> QED
    BY <2>2, <2>3 DEF at, l
<1>4. \A i \in 1 .. n : p[i] = buffer(i)
  BY <1>2
<1>5. p \in Seq(Buffers(addr, addr + w, addr - from))
  <2> HIDE DEF buffer
  <2> QED
    BY <1>1, <1>2, <1>3
<1>6. Len(p) = n
  <2> HIDE DEF buffer
  <2> QED
    BY <1>1, <1>2
<1>7. ASSUME NEW a \in addr .. addr + w - 1
      PROVE  \E t \in 1 .. n : a \in Range_(buffer(t))
  <2>1. a - addr \in 0 .. w - 1
    OBVIOUS
  <2>2. PICK i \in 1 .. n : (i - 1) * BufferSize <= a - addr
                            /\ a - addr < (i - 1) * BufferSize + Part(w, BufferSize, i)
    BY <2>1, <1>1, PartOf
  <2>3. Part(w, BufferSize, i) \in Int /\ (i - 1) * BufferSize \in Int
    BY <1>1, PartFits
  <2>4. a \in addr + (i - 1) * BufferSize .. addr + (i - 1) * BufferSize + Part(w, BufferSize, i) - 1
    BY <2>2, <2>3
  <2> QED
    BY <2>4, <1>3
<1>8. Covers(p, addr, addr + w)
  BY <1>4, <1>6, <1>7 DEF Covers
<1> QED
  BY <1>5, <1>8

LEMMA BuffersWithin ==
  ASSUME NEW lo \in Int, NEW hi \in Int, NEW low \in Int, NEW high \in Int, NEW shift \in Int,
         lo <= low, high <= hi, NEW p \in Seq(Buffers(low, high, shift))
  PROVE  p \in Seq(Buffers(lo, hi, shift))
<1>1. Buffers(low, high, shift) \subseteq Buffers(lo, hi, shift)
  BY DEF Buffers
<1> QED
  BY <1>1

(* Pieces that each cover their own range cover the range they add up to.  *)
LEMMA FlattenCovers ==
  ASSUME NEW S, NEW q \in Seq(Seq(S)), NEW k \in 1 .. Len(q), NEW a,
         \E t \in 1 .. Len(q[k]) : a \in Range_(q[k][t])
  PROVE  \E t \in 1 .. Len(FlattenSeq(q)) : a \in Range_(FlattenSeq(q)[t])
<1>1. PICK j \in 1 .. Len(q[k]) : a \in Range_(q[k][j])
  OBVIOUS
<1>2. PICK t \in 1 .. Len(FlattenSeq(q)) : FlattenSeq(q)[t] = q[k][j]
  BY FlattenHas
<1>3. a \in Range_(FlattenSeq(q)[t])
  BY <1>1, <1>2
<1> QED
  BY <1>3

LEMMA BankProgram ==
  ASSUME NEW bank \in Int, NEW from \in Int, NEW w \in Nat
  PROVE  /\ bank * BankSize \in Int
         /\ bank_program(bank, from, w)
              \in Seq(Buffers(bank * BankSize, bank * BankSize + w, bank * BankSize - from))
         /\ Covers(bank_program(bank, from, w), bank * BankSize, bank * BankSize + w)
<1>a. BlockSize \in Nat \ {0} /\ BankSize \in Nat
  BY SizesOf
<1>b. PICK start \in Int : start = bank * BankSize
  BY <1>a
<1>c. PICK n \in Nat : n = Need(w, BlockSize)
  BY <1>a, NeedParts
<1> DEFINE block(i) == block_program(start + (i - 1) * BlockSize, from + (i - 1) * BlockSize,
                                     Part(w, BlockSize, i))
           q == [i \in 1 .. n |-> block(i)]
           B == Buffers(start, start + w, start - from)
<1>2. bank_program(bank, from, w) = FlattenSeq(q)
  BY <1>b, <1>c DEF bank_program
<1>3. ASSUME NEW i \in 1 .. n
      PROVE  /\ block(i) \in Seq(B)
             /\ Covers(block(i), start + (i - 1) * BlockSize,
                       start + (i - 1) * BlockSize + Part(w, BlockSize, i))
  <2>1. /\ Part(w, BlockSize, i) \in 1 .. BlockSize /\ (i - 1) * BlockSize \in Nat
        /\ (i - 1) * BlockSize + Part(w, BlockSize, i) <= w
    BY <1>a, <1>c, PartFits
  <2>2. PICK l \in 1 .. BlockSize : l = Part(w, BlockSize, i)
    BY <2>1
  <2>3. PICK at \in Nat : at = (i - 1) * BlockSize
    BY <2>1
  <2>4. at + l <= w
    BY <2>1, <2>2, <2>3
  <2>5. PICK x \in Int, y \in Int, z \in Nat : x = start + at /\ y = from + at /\ z = l
    BY <1>a
  <2>6. block_program(x, y, z) \in Seq(Buffers(x, x + z, x - y)) /\ Covers(block_program(x, y, z), x, x + z)
    BY BlockProgram
  <2>7. x - y = start - from /\ start <= x /\ x + z <= start + w
    BY <2>4, <2>5
  <2>8. block_program(x, y, z) \in Seq(Buffers(start, start + w, start - from))
    <3>1. /\ start \in Int /\ start + w \in Int /\ x \in Int /\ x + z \in Int /\ start - from \in Int
      BY <1>a
    <3>2. block_program(x, y, z) \in Seq(Buffers(x, x + z, start - from))
      BY <2>6, <2>7
    <3> QED
      BY <3>1, <3>2, <2>7, BuffersWithin
  <2>9. block(i) = block_program(x, y, z)
    BY <2>2, <2>3, <2>5
  <2> QED
    BY <2>2, <2>3, <2>5, <2>6, <2>8, <2>9
<1> HIDE DEF block, B
<1>4. q \in Seq(Seq(B)) /\ Len(q) = n /\ \A i \in 1 .. n : q[i] = block(i)
  BY <1>3
<1> HIDE DEF q
<1>5. FlattenSeq(q) \in Seq(B)
  BY <1>4, FlattenOver
<1>6. ASSUME NEW a \in start .. start + w - 1
      PROVE  \E t \in 1 .. Len(FlattenSeq(q)) : a \in Range_(FlattenSeq(q)[t])
  <2>1. a - start \in 0 .. w - 1
    OBVIOUS
  <2>2. PICK i \in 1 .. n : (i - 1) * BlockSize <= a - start
                            /\ a - start < (i - 1) * BlockSize + Part(w, BlockSize, i)
    BY <2>1, <1>a, <1>c, PartOf
  <2>3. Part(w, BlockSize, i) \in Int /\ (i - 1) * BlockSize \in Int
    BY <1>a, <1>c, PartFits
  <2>4. /\ start + (i - 1) * BlockSize <= a
        /\ a < start + (i - 1) * BlockSize + Part(w, BlockSize, i)
    BY <2>2, <2>3
  <2>5. \E t \in 1 .. Len(block(i)) : a \in Range_(block(i)[t])
    <3>0. PICK p : p = block(i)
      OBVIOUS
    <3>1. PICK lo \in Int, hi \in Int :
            lo = start + (i - 1) * BlockSize /\ hi = start + (i - 1) * BlockSize + Part(w, BlockSize, i)
      BY <2>3
    <3>2. Covers(p, lo, hi)
      BY <1>3, <3>0, <3>1
    <3>3. a \in lo .. hi - 1
      BY <2>4, <3>1
    <3>4. \E t \in 1 .. Len(p) : a \in Range_(p[t])
      BY <3>2, <3>3 DEF Covers
    <3> QED
      BY <3>0, <3>4
  <2>6. i \in 1 .. Len(q) /\ q[i] = block(i)
    BY <1>4
  <2>7. \E t \in 1 .. Len(q[i]) : a \in Range_(q[i][t])
    BY <2>5, <2>6
  <2> QED
    BY <2>6, <2>7, <1>4, FlattenCovers
<1>7. Covers(FlattenSeq(q), start, start + w)
  BY <1>6 DEF Covers
<1> QED
  BY <1>b, <1>2, <1>5, <1>7 DEF B

(* A file that fits ends before the bank of the numbers.                   *)
Fits(f) == ~f.odd /\ f.size \in 1 .. NumberBank * BankSize


LEMMA ConcatCovers ==
  ASSUME NEW S, NEW p \in Seq(S), NEW q \in Seq(S), NEW lo \in Int, NEW mid \in Int, NEW hi \in Int,
         Covers(p, lo, mid), Covers(q, mid, hi)
  PROVE  Covers(p \o q, lo, hi)
<1> SUFFICES ASSUME NEW a \in lo .. hi - 1
             PROVE  \E t \in 1 .. Len(p \o q) : a \in Range_((p \o q)[t])
  BY DEF Covers
<1>1. CASE a < mid
  <2>1. a \in lo .. mid - 1
    BY <1>1
  <2>2. PICK t \in 1 .. Len(p) : a \in Range_(p[t])
    BY <2>1 DEF Covers
  <2>3. t \in 1 .. Len(p \o q) /\ (p \o q)[t] = p[t]
    OBVIOUS
  <2> QED
    BY <2>2, <2>3
<1>2. CASE a >= mid
  <2>1. a \in mid .. hi - 1
    BY <1>2
  <2>2. PICK t \in 1 .. Len(q) : a \in Range_(q[t])
    BY <2>1 DEF Covers
  <2>3. Len(p) + t \in 1 .. Len(p \o q) /\ (p \o q)[Len(p) + t] = q[t]
    OBVIOUS
  <2> QED
    BY <2>2, <2>3
<1> QED
  BY <1>1, <1>2

(* The banks of a file, of any size.                                       *)
LEMMA CountsOf ==
  ASSUME NEW f \in Files
  PROVE  /\ Words(f) \in Nat /\ f.size \in Int /\ f.version \in Int
         /\ need_bank(f) \in 0 .. Uint8 - 1 /\ BlocksOf(f) \in Nat
         /\ last_words(f) \in 1 .. BankSize /\ whole_banks(f) \in Nat /\ Taken(f) \in Nat
         /\ last_bank(f) = IF need_bank(f) = 0 THEN Uint8 - 1 ELSE need_bank(f) - 1
         /\ whole_banks(f) = IF need_bank(f) = 0 THEN 0 ELSE need_bank(f) - 1
         /\ need_bank(f) * BankSize \in Nat
         /\ need_bank(f) > 0 => Taken(f) + BankSize = need_bank(f) * BankSize
         /\ need_bank(f) = 0 => Taken(f) = 0
<1>1. f.size \in Int /\ f.version \in Int
  BY FlashAssumption
<1>2. PICK m \in Nat \ {0} : m = 2 * Uint8 * BankSize
  BY SizesOf
<1>3. Words(f) \in Nat
  <2>1. f.size % m \in 0 .. m - 1
    BY <1>1
  <2> QED
    BY <2>1, <1>2 DEF Words
<1>4. /\ BankSize \in Nat \ {0} /\ Uint8 \in Nat \ {0, 1} /\ Blocks \in Nat
  BY SizesOf
<1>5. /\ Need(Words(f), BankSize) \in Nat /\ last_words(f) \in 1 .. BankSize
  BY <1>3, <1>4, NeedParts DEF last_words
<1>6. PICK u \in 0 .. Uint8 - 1 : u = need_bank(f)
  BY <1>4, <1>5 DEF need_bank
<1>7. last_bank(f) = IF u = 0 THEN Uint8 - 1 ELSE u - 1
  <2>1. CASE u = 0
    <3>1. 0 - 1 = -1 * Uint8 + (Uint8 - 1) /\ Uint8 - 1 \in 0 .. Uint8 - 1
      BY <1>4
    <3>2. (0 - 1) % Uint8 = Uint8 - 1
      BY <3>1, <1>4, DivUnique
    <3> QED
      BY <3>2, <2>1, <1>6 DEF last_bank
  <2>2. CASE u # 0
    <3>1. u - 1 \in 0 .. Uint8 - 1 /\ u - 1 = 0 * Uint8 + (u - 1)
      BY <2>2, <1>4
    <3>2. (u - 1) % Uint8 = u - 1
      BY <3>1, <1>4, DivUnique
    <3> QED
      BY <3>2, <2>2, <1>6 DEF last_bank
  <2> QED
    BY <2>1, <2>2
<1>8. whole_banks(f) = IF u = 0 THEN 0 ELSE u - 1
  BY <1>6 DEF whole_banks
<1>9. PICK n \in Nat : n = whole_banks(f)
  BY <1>8
<1>10. n * BankSize \in Nat /\ u * BankSize \in Nat /\ u * Blocks \in Nat
  BY <1>4
<1>11. u > 0 => n * BankSize + BankSize = u * BankSize
  BY <1>4, <1>8, <1>9
<1>12. Taken(f) = n * BankSize /\ BlocksOf(f) = u * Blocks
  BY <1>9, <1>6 DEF Taken, BlocksOf
<1> QED
  <2>1. u = 0 => n * BankSize = 0
    BY <1>4, <1>8, <1>9
  <2> QED
    BY <1>1, <1>3, <1>5, <1>6, <1>7, <1>8, <1>9, <1>10, <1>11, <1>12, <2>1

(* Those of one that fits: its last bank is not empty, its words are all   *)
(* counted and all read.                                                   *)
LEMMA FitsCounts ==
  ASSUME NEW f \in Files, Fits(f)
  PROVE  /\ need_bank(f) \in 1 .. NumberBank
         /\ Taken(f) + last_words(f) = f.size
<1>2. /\ BankSize \in Nat \ {0} /\ Uint8 \in Nat /\ Banks < Uint8 /\ NumberBank \in 1 .. Banks - 1
      /\ Banks \in Nat
  BY SizesOf
<1>3. PICK m \in Nat : m = 2 * Uint8 * BankSize
  BY <1>2
<1>4. PICK top \in Nat : top = NumberBank * BankSize
  BY <1>2
<1>1. PICK w \in Nat \ {0} : w = f.size /\ w <= top
  BY <1>4 DEF Fits
<1>5. w < m
  <2>1. PICK p \in Nat : p = Uint8 * BankSize
    BY <1>2
  <2>2. top <= p /\ p > 0
    BY <1>2, <1>4, <2>1
  <2>3. m = p + p
    BY <1>2, <1>3, <2>1
  <2> QED
    BY <1>1, <2>2, <2>3
<1>6. Words(f) = w
  <2>1. m \in Nat \ {0} /\ w = 0 * m + w /\ w \in 0 .. m - 1
    BY <1>1, <1>4, <1>5
  <2>2. w % m = w
    BY <2>1, DivUnique
  <2> QED
    BY <2>2, <1>1, <1>3 DEF Words
<1>7. PICK n \in Nat : n = Need(w, BankSize)
  BY <1>2, NeedParts
<1>8. PICK l \in 1 .. BankSize : l = LastPart(w, BankSize)
  BY <1>2, NeedParts
<1>9. n > 0 /\ (n - 1) * BankSize + l = w
  BY <1>2, <1>7, <1>8, NeedParts
<1>10. n <= NumberBank
  <2> SUFFICES ASSUME n - 1 >= NumberBank PROVE FALSE
    BY <1>2
  <2>1. PICK k \in Int : k = (n - 1) * BankSize
    BY <1>2
  <2>2. k >= top
    BY <1>2, <1>4, <2>1, Times
  <2>3. k + l = w
    BY <1>9, <2>1
  <2> QED
    BY <1>1, <2>2, <2>3
<1>11. need_bank(f) = n
  <2>1. n \in 0 .. Uint8 - 1 /\ n = 0 * Uint8 + n /\ Uint8 \in Nat \ {0}
    BY <1>10, <1>2
  <2>2. n % Uint8 = n
    BY <2>1, DivUnique
  <2> QED
    BY <2>2, <1>6, <1>7 DEF need_bank
<1>12. Taken(f) = (n - 1) * BankSize
  <2>1. whole_banks(f) = n - 1
    BY <1>11, <1>9 DEF whole_banks
  <2> QED
    BY <2>1 DEF Taken
<1>13. last_words(f) = l
  BY <1>6, <1>8 DEF last_words
<1> QED
  BY <1>1, <1>9, <1>10, <1>11, <1>12, <1>13

(* The buffers of a program are those of its banks: one after the other    *)
(* from the beginning of the flash, or of one bank behind it when the      *)
(* banks were counted as none.                                             *)
LEMMA WholeBanks ==
  ASSUME NEW n \in Nat
  PROVE  LET q == [b \in 1 .. n |-> bank_program(b - 1, (b - 1) * BankSize, BankSize)]
         IN  /\ n * BankSize \in Nat
             /\ FlattenSeq(q) \in Seq(Buffers(0, n * BankSize, 0))
             /\ Covers(FlattenSeq(q), 0, n * BankSize)
<1>1. PICK s \in Nat \ {0} : s = BankSize
  BY SizesOf
<1>2. PICK top \in Nat : top = n * s
  OBVIOUS
<1> DEFINE bank(b) == bank_program(b - 1, (b - 1) * s, s)
           q == [b \in 1 .. n |-> bank(b)]
           B == Buffers(0, top, 0)
<1>3. ASSUME NEW b \in 1 .. n
      PROVE  /\ bank(b) \in Seq(B)
             /\ (b - 1) * s \in Nat
             /\ Covers(bank(b), (b - 1) * s, (b - 1) * s + s)
  <2>1. PICK k \in Nat : k = (b - 1) * s
    OBVIOUS
  <2>2. k + s <= top
    <3>1. b * s <= n * s /\ b * s = (b - 1) * s + s
      OBVIOUS
    <3> QED
      BY <3>1, <2>1, <1>2
  <2>3. /\ bank_program(b - 1, k, s) \in Seq(Buffers(k, k + s, k - k))
        /\ Covers(bank_program(b - 1, k, s), k, k + s)
    <3>1. b - 1 \in Int /\ s \in Nat /\ k \in Int /\ (b - 1) * BankSize = k
      BY <1>1, <2>1
    <3>2. /\ bank_program(b - 1, k, s)
               \in Seq(Buffers((b - 1) * BankSize, (b - 1) * BankSize + s, (b - 1) * BankSize - k))
          /\ Covers(bank_program(b - 1, k, s), (b - 1) * BankSize, (b - 1) * BankSize + s)
      BY <3>1, BankProgram
    <3> QED
      BY <3>1, <3>2
  <2>4. bank_program(b - 1, k, s) \in Seq(B)
    <3>1. k - k = 0 /\ 0 <= k /\ 0 \in Int /\ k \in Int /\ k + s \in Int /\ top \in Int
      OBVIOUS
    <3>2. bank_program(b - 1, k, s) \in Seq(Buffers(k, k + s, 0))
      BY <3>1, <2>3
    <3> QED
      BY <3>1, <3>2, <2>2, BuffersWithin
  <2> QED
    BY <2>1, <2>3, <2>4
<1> HIDE DEF bank, B
<1>4. q \in Seq(Seq(B)) /\ Len(q) = n /\ \A b \in 1 .. n : q[b] = bank(b)
  BY <1>3
<1> HIDE DEF q
<1>5. FlattenSeq(q) \in Seq(B)
  BY <1>4, FlattenOver
<1>6. ASSUME NEW a \in 0 .. top - 1
      PROVE  \E t \in 1 .. Len(FlattenSeq(q)) : a \in Range_(FlattenSeq(q)[t])
  <2>1. PICK d \in Int : \E r \in 0 .. s - 1 : d = a \div s /\ r = a % s /\ a = d * s + r
    BY DivMod
  <2>2. PICK r \in 0 .. s - 1 : a = d * s + r
    BY <2>1
  <2>3. d >= 0
    BY <2>2
  <2>4. d < n
    <3> SUFFICES ASSUME d >= n PROVE FALSE
      BY <2>2
    <3>1. d * s >= n * s
      BY <2>2, Times
    <3>2. PICK k \in Int : k = d * s
      OBVIOUS
    <3> QED
      BY <3>1, <3>2, <2>2, <1>2
  <2>5. PICK b \in 1 .. n : b = d + 1
    BY <2>3, <2>4
  <2>6. PICK p : p = bank(b)
    OBVIOUS
  <2>7. PICK lo \in Int, hi \in Int : lo = (b - 1) * s /\ hi = (b - 1) * s + s
    OBVIOUS
  <2>8. Covers(p, lo, hi)
    BY <1>3, <2>6, <2>7
  <2>9. a \in lo .. hi - 1
    <3>1. b - 1 = d
      BY <2>5
    <3>2. lo = d * s /\ hi = lo + s
      BY <3>1, <2>7
    <3> QED
      BY <3>2, <2>2
  <2>10. \E t \in 1 .. Len(p) : a \in Range_(p[t])
    BY <2>8, <2>9 DEF Covers
  <2>11. b \in 1 .. Len(q) /\ q[b] = p
    BY <1>4, <2>6
  <2>12. \E t \in 1 .. Len(q[b]) : a \in Range_(q[b][t])
    BY <2>10, <2>11
  <2> QED
    BY <2>11, <2>12, <1>4, FlattenCovers
<1>7. Covers(FlattenSeq(q), 0, top)
  BY <1>6 DEF Covers
<1> QED
  BY <1>1, <1>2, <1>5, <1>7 DEF B, q, bank

LEMMA ProgramOf ==
  ASSUME NEW f \in Files
  PROVE  LET hi == Taken(f) + last_words(f)
             far == (Uint8 - 1) * BankSize
         IN  /\ far \in Nat
             /\ need_bank(f) > 0 => program(f) \in Seq(Buffers(0, hi, 0)) /\ Covers(program(f), 0, hi)
             /\ need_bank(f) = 0 => program(f) \in Seq(Buffers(far, far + last_words(f), far))
<1>1. PICK n \in Nat : n = whole_banks(f)
  BY CountsOf
<1>2. PICK w \in Nat : w = last_words(f)
  BY CountsOf, SizesOf
<1>3. PICK k \in Int : k = last_bank(f)
  BY CountsOf, SizesOf
<1>4. PICK taken \in Nat : taken = n * BankSize
  BY SizesOf
<1>5. Taken(f) = taken
  BY <1>1, <1>4 DEF Taken
<1>6. PICK p : /\ p = FlattenSeq([b \in 1 .. n |-> bank_program(b - 1, (b - 1) * BankSize, BankSize)])
               /\ p \in Seq(Buffers(0, taken, 0)) /\ Covers(p, 0, taken)
  BY <1>4, WholeBanks
<1>7. PICK start \in Int : start = k * BankSize
  BY SizesOf
<1>8. PICK q : /\ q = bank_program(k, taken, w)
               /\ q \in Seq(Buffers(start, start + w, start - taken)) /\ Covers(q, start, start + w)
  BY <1>7, BankProgram
<1>9. program(f) = p \o q
  BY <1>1, <1>2, <1>3, <1>5, <1>6, <1>8 DEF program
<1>10. PICK far \in Nat : far = (Uint8 - 1) * BankSize
  BY SizesOf
<1>11. CASE need_bank(f) > 0
  <2>1. k = n
    BY <1>11, <1>1, <1>3, CountsOf
  <2>2. start = taken
    BY <2>1, <1>4, <1>7
  <2>3. PICK hi \in Nat : hi = taken + w
    OBVIOUS
  <2>4. q \in Seq(Buffers(taken, hi, 0)) /\ Covers(q, taken, hi)
    BY <1>8, <2>2, <2>3
  <2>5. p \in Seq(Buffers(0, hi, 0))
    BY <1>6, <2>3, BuffersWithin
  <2>6. q \in Seq(Buffers(0, hi, 0))
    BY <2>3, <2>4, BuffersWithin
  <2>7. p \o q \in Seq(Buffers(0, hi, 0))
    BY <2>5, <2>6
  <2>8. Covers(p \o q, 0, hi)
    BY <2>4, <2>5, <2>6, <1>6, ConcatCovers
  <2> QED
    BY <2>3, <2>7, <2>8, <1>2, <1>5, <1>9, <1>10, <1>11
<1>12. CASE need_bank(f) = 0
  <2>1. n = 0 /\ k = Uint8 - 1
    BY <1>12, <1>1, <1>3, CountsOf
  <2>2. taken = 0 /\ start = far
    BY <2>1, <1>4, <1>7, <1>10, SizesOf
  <2>3. p = << >>
    <3>1. Buffers(0, 0, 0) = {}
      BY DEF Buffers
    <3> QED
      BY <3>1, <2>2, <1>6
  <2>4. p \o q = q
    BY <2>3, <1>8
  <2>5. start - taken = far /\ start + w = far + w
    BY <2>2
  <2>6. program(f) \in Seq(Buffers(far, far + w, far))
    <3>1. q \in Seq(Buffers(far, far + w, far))
      BY <1>8, <2>2, <2>5
    <3> QED
      BY <3>1, <2>4, <1>9
  <2> QED
    BY <2>6, <1>2, <1>10, <1>12
<1> QED
  <2>1. need_bank(f) = 0 \/ need_bank(f) > 0
    BY CountsOf, SizesOf
  <2> QED
    BY <2>1, <1>11, <1>12

(* Where the parts of a plan are.                                          *)
LEMMA ConcatParts ==
  ASSUME NEW S, NEW a \in Seq(S), NEW b \in Seq(S)
  PROVE  /\ a \o b \in Seq(S) /\ Len(a \o b) = Len(a) + Len(b)
         /\ \A t \in 1 .. Len(a) : (a \o b)[t] = a[t]
         /\ \A t \in Len(a) + 1 .. Len(a) + Len(b) : (a \o b)[t] = b[t - Len(a)]
  OBVIOUS

LEMMA PlanOf ==
  ASSUME NEW f \in Files
  PROVE  LET u == need_bank(f)
             e == Start(f)
             l == Length(f)
         IN  /\ u \in Nat /\ BlocksOf(f) \in Nat /\ e = u + BlocksOf(f)
             /\ Len(program(f)) \in Nat /\ l = e + Len(program(f)) + 4
             /\ Len(Plan[f]) = l
             /\ \A t \in 1 .. u : Plan[f][t] = Do("unlock", (t - 1) * BankSize, 0, BankSize)
             /\ \A t \in u + 1 .. e : Plan[f][t] = Do("erase", (t - u - 1) * BlockSize, 0, BlockSize)
             /\ \A t \in e + 1 .. l - 4 :
                  t - e \in 1 .. Len(program(f)) /\ Plan[f][t] = program(f)[t - e]
             /\ Plan[f][l - 3] = Do("erase", LogicAt, 0, BlockSize)
             /\ Plan[f][l - 2] = Do("number", LogicAt, 0, 1)
             /\ Plan[f][l - 1] = Do("compare", 0, 0, 0)
             /\ Plan[f][l] = Do("reconfig", 0, 0, 0)
<1> DEFINE Step == [do : {"unlock", "erase", "program", "number", "compare", "reconfig"}, addr : Int, from : Int, len : Int]
<1>1. PICK u \in Nat : u = need_bank(f)
  BY CountsOf
<1>2. PICK n \in Nat : n = BlocksOf(f) /\ n = u * Blocks
  BY <1>1, CountsOf DEF BlocksOf
<1>3. BankSize \in Nat /\ BlockSize \in Nat /\ LogicAt \in Nat
  BY SizesOf
<1>4. PICK a : a = unlock(f)
  OBVIOUS
<1>5. a \in Seq(Step) /\ Len(a) = u /\ \A t \in 1 .. u : a[t] = Do("unlock", (t - 1) * BankSize, 0, BankSize)
  <2>1. \A t \in 1 .. u : Do("unlock", (t - 1) * BankSize, 0, BankSize) \in Step
    BY <1>3 DEF Do
  <2>2. a = [t \in 1 .. u |-> Do("unlock", (t - 1) * BankSize, 0, BankSize)]
    BY <1>1, <1>4 DEF unlock
  <2> HIDE DEF Step
  <2> QED
    BY <2>1, <2>2
<1>6. PICK b : b = erase(f)
  OBVIOUS
<1>7. b \in Seq(Step) /\ Len(b) = n /\ \A t \in 1 .. n : b[t] = Do("erase", (t - 1) * BlockSize, 0, BlockSize)
  <2>1. \A t \in 1 .. n : Do("erase", (t - 1) * BlockSize, 0, BlockSize) \in Step
    BY <1>3 DEF Do
  <2>2. b = [t \in 1 .. n |-> Do("erase", (t - 1) * BlockSize, 0, BlockSize)]
    BY <1>1, <1>2, <1>6 DEF erase
  <2> HIDE DEF Step
  <2> QED
    BY <2>1, <2>2
<1>8. PICK p : p = program(f)
  OBVIOUS
<1>9. p \in Seq(Step)
  <2>1. PICK lo, hi, shift : p \in Seq(Buffers(lo, hi, shift))
    BY <1>8, <1>1, ProgramOf
  <2>2. Buffers(lo, hi, shift) \subseteq Step
    BY DEF Buffers
  <2> HIDE DEF Step
  <2> QED
    BY <2>1, <2>2
<1>10. PICK c : c = set_logic_num
  OBVIOUS
<1>11. /\ c \in Seq(Step) /\ Len(c) = 2
       /\ c[1] = Do("erase", LogicAt, 0, BlockSize) /\ c[2] = Do("number", LogicAt, 0, 1)
  <2>1. Do("erase", LogicAt, 0, BlockSize) \in Step /\ Do("number", LogicAt, 0, 1) \in Step
    BY <1>3 DEF Do
  <2>2. c = <<Do("erase", LogicAt, 0, BlockSize), Do("number", LogicAt, 0, 1)>>
    BY <1>10 DEF set_logic_num
  <2> HIDE DEF Step
  <2> QED
    BY <2>1, <2>2
<1>12. PICK d : d = <<Do("compare", 0, 0, 0), Do("reconfig", 0, 0, 0)>>
  OBVIOUS
<1>13. /\ d \in Seq(Step) /\ Len(d) = 2
       /\ d[1] = Do("compare", 0, 0, 0) /\ d[2] = Do("reconfig", 0, 0, 0)
  <2>1. Do("compare", 0, 0, 0) \in Step /\ Do("reconfig", 0, 0, 0) \in Step
    BY DEF Do
  <2> HIDE DEF Step
  <2> QED
    BY <2>1, <1>12
<1> HIDE DEF Step
<1>14. Plan[f] = a \o b \o p \o c \o d
  BY <1>4, <1>6, <1>8, <1>10, <1>12 DEF Plan
<1>15. PICK m \in Nat : m = Len(p)
  BY <1>9
<1>25. PICK e \in Nat : e = u + n
  OBVIOUS
<1>31. PICK g \in Nat : g = e + m
  OBVIOUS
<1>32. PICK l \in Nat : l = g + 4
  OBVIOUS
<1>16. PICK ab : ab = a \o b
  OBVIOUS
<1>17. /\ ab \in Seq(Step) /\ Len(ab) = e
       /\ \A t \in 1 .. u : ab[t] = a[t]
       /\ \A t \in u + 1 .. e : ab[t] = b[t - u]
  <2>1. /\ a \in Seq(Step) /\ b \in Seq(Step) /\ Len(a) = u /\ Len(b) = n
    BY <1>5, <1>7
  <2>2. /\ ab \in Seq(Step) /\ Len(ab) = Len(a) + Len(b)
        /\ \A t \in 1 .. Len(a) : ab[t] = a[t]
        /\ \A t \in Len(a) + 1 .. Len(a) + Len(b) : ab[t] = b[t - Len(a)]
    BY <2>1, <1>16, ConcatParts
  <2> QED
    BY <2>1, <2>2, <1>25
<1>18. PICK abp : abp = ab \o p
  OBVIOUS
<1>19. /\ abp \in Seq(Step) /\ Len(abp) = g
       /\ \A t \in 1 .. e : abp[t] = ab[t]
       /\ \A t \in e + 1 .. g : abp[t] = p[t - e]
  BY <1>17, <1>9, <1>15, <1>18, <1>31, ConcatParts
<1>20. PICK abpc : abpc = abp \o c
  OBVIOUS
<1>21. /\ abpc \in Seq(Step) /\ Len(abpc) = g + 2
       /\ \A t \in 1 .. g : abpc[t] = abp[t]
       /\ abpc[g + 1] = c[1] /\ abpc[g + 2] = c[2]
  <2>1. /\ abpc \in Seq(Step) /\ Len(abpc) = g + 2
        /\ \A t \in 1 .. g : abpc[t] = abp[t]
        /\ \A t \in g + 1 .. g + 2 : abpc[t] = c[t - g]
    <3>1. abp \in Seq(Step) /\ Len(abp) = g /\ c \in Seq(Step) /\ Len(c) = 2
      BY <1>19, <1>11
    <3>2. PICK k \in Nat : k = 2 /\ Len(c) = k
      BY <3>1
    <3>3. /\ abpc \in Seq(Step) /\ Len(abpc) = g + k
          /\ \A t \in 1 .. g : abpc[t] = abp[t]
          /\ \A t \in g + 1 .. g + k : abpc[t] = c[t - g]
      <4>1. Len(c) = k
        BY <3>2
      <4> QED
        BY <3>1, <4>1, <1>20, ConcatParts
    <3> QED
      BY <3>2, <3>3
  <2>2. abpc[g + 1] = c[g + 1 - g] /\ abpc[g + 2] = c[g + 2 - g]
    BY <2>1
  <2>3. g + 1 - g = 1 /\ g + 2 - g = 2
    OBVIOUS
  <2> QED
    BY <2>1, <2>2, <2>3
<1>22. PICK w : w = abpc \o d
  OBVIOUS
<1>33. PICK h \in Nat : h = g + 2
  OBVIOUS
<1>23. /\ w \in Seq(Step) /\ Len(w) = l
       /\ \A t \in 1 .. h : w[t] = abpc[t]
       /\ w[h + 1] = d[1] /\ w[h + 2] = d[2]
  <2>1. /\ w \in Seq(Step) /\ Len(w) = h + 2
        /\ \A t \in 1 .. h : w[t] = abpc[t]
        /\ \A t \in h + 1 .. h + 2 : w[t] = d[t - h]
    <3>1. abpc \in Seq(Step) /\ Len(abpc) = h /\ d \in Seq(Step) /\ Len(d) = 2
      BY <1>21, <1>13, <1>33
    <3>2. PICK k \in Nat : k = 2 /\ Len(d) = k
      BY <3>1
    <3>3. /\ w \in Seq(Step) /\ Len(w) = h + k
          /\ \A t \in 1 .. h : w[t] = abpc[t]
          /\ \A t \in h + 1 .. h + k : w[t] = d[t - h]
      <4>1. Len(d) = k
        BY <3>2
      <4> QED
        BY <3>1, <4>1, <1>22, ConcatParts
    <3> QED
      BY <3>2, <3>3
  <2>2. w[h + 1] = d[h + 1 - h] /\ w[h + 2] = d[h + 2 - h]
    BY <2>1
  <2>3. h + 1 - h = 1 /\ h + 2 - h = 2 /\ h + 2 = l
    BY <1>32, <1>33
  <2> QED
    BY <2>1, <2>2, <2>3
<1>24. Plan[f] = w
  BY <1>14, <1>16, <1>18, <1>20, <1>22
<1>26. Start(f) = e /\ Length(f) = l
  BY <1>1, <1>2, <1>8, <1>15, <1>25, <1>31, <1>32 DEF Start, Length
<1>34. u <= e /\ e <= g /\ g <= h /\ g = l - 4 /\ h = l - 2
  BY <1>25, <1>31, <1>32, <1>33
<1>27. \A t \in 1 .. u : w[t] = Do("unlock", (t - 1) * BankSize, 0, BankSize)
  <2>1. \A t \in 1 .. u : w[t] = a[t]
    BY <1>17, <1>19, <1>21, <1>23, <1>34
  <2> QED
    BY <2>1, <1>5
<1>28. \A t \in u + 1 .. e : w[t] = Do("erase", (t - u - 1) * BlockSize, 0, BlockSize)
  <2> SUFFICES ASSUME NEW t \in u + 1 .. e
               PROVE  w[t] = Do("erase", (t - u - 1) * BlockSize, 0, BlockSize)
    OBVIOUS
  <2>1. w[t] = b[t - u]
    <3>1. t \in 1 .. e /\ t \in 1 .. g /\ t \in 1 .. h
      BY <1>34
    <3>2. w[t] = abpc[t] /\ abpc[t] = abp[t] /\ abp[t] = ab[t]
      BY <3>1, <1>19, <1>21, <1>23
    <3>3. ab[t] = b[t - u]
      BY <1>17
    <3> QED
      BY <3>2, <3>3
  <2>2. PICK k \in 1 .. n : k = t - u
    BY <1>25
  <2> QED
    BY <2>1, <2>2, <1>7
<1>29. \A t \in e + 1 .. l - 4 : t - e \in 1 .. m /\ w[t] = p[t - e]
  <2> SUFFICES ASSUME NEW t \in e + 1 .. g PROVE t - e \in 1 .. m /\ w[t] = p[t - e]
    BY <1>34
  <2>1. w[t] = p[t - e]
    <3>1. t \in 1 .. g /\ t \in 1 .. h
      BY <1>34
    <3>2. w[t] = abpc[t] /\ abpc[t] = abp[t]
      BY <3>1, <1>21, <1>23
    <3>3. abp[t] = p[t - e]
      BY <1>19
    <3> QED
      BY <3>2, <3>3
  <2>2. t - e \in 1 .. m
    BY <1>31
  <2> QED
    BY <2>1, <2>2
<1>30. w[l - 3] = c[1] /\ w[l - 2] = c[2] /\ w[l - 1] = d[1] /\ w[l] = d[2]
  <2>1. l - 3 = g + 1 /\ l - 2 = g + 2 /\ l - 1 = h + 1 /\ l = h + 2
    BY <1>34
  <2>2. w[g + 1] = abpc[g + 1] /\ w[g + 2] = abpc[g + 2]
    BY <1>23, <1>33
  <2> QED
    BY <2>1, <2>2, <1>21, <1>23
<1>35. e = u + BlocksOf(f) /\ l = e + Len(program(f)) + 4
  BY <1>2, <1>8, <1>15, <1>25, <1>31, <1>32
<1> QED
  BY <1>1, <1>2, <1>8, <1>11, <1>13, <1>15, <1>23, <1>24, <1>26, <1>27, <1>28, <1>29, <1>30, <1>35

(* And what a step of each kind does.                                      *)
LEMMA StepOf ==
  ASSUME NEW f \in Files, NEW t \in 1 .. Length(f)
  PROVE  LET u == need_bank(f)
             e == Start(f)
             l == Length(f)
             s == Plan[f][t]
         IN  /\ s.do = "unlock" => t \in 1 .. u /\ s.addr = (t - 1) * BankSize
             /\ s.do = "erase" =>
                  /\ s.len = BlockSize
                  /\ \/ t \in u + 1 .. e /\ s.addr = (t - u - 1) * BlockSize
                     \/ t = l - 3 /\ s.addr = LogicAt
             /\ s.do = "program" =>
                  /\ t \in e + 1 .. l - 4
                  /\ s.addr \in Int /\ s.from \in Int /\ s.len \in Nat \ {0}
                  /\ u > 0 => /\ 0 <= s.addr /\ s.from = s.addr
                              /\ s.addr + s.len <= Taken(f) + last_words(f)
                  /\ u = 0 => (Uint8 - 1) * BankSize <= s.addr
             /\ s.do = "number" => t = l - 2
             /\ s.do = "compare" => t = l - 1
             /\ s.do = "reconfig" <=> t = l
             /\ t \in e + 1 .. l - 4 => s.do = "program"
<1>1. PICK u \in Nat : u = need_bank(f)
  BY PlanOf
<1>2. PICK n \in Nat : n = BlocksOf(f)
  BY PlanOf
<1>3. PICK m \in Nat : m = Len(program(f))
  BY PlanOf
<1>4. PICK e \in Nat : e = Start(f) /\ e = u + n
  BY <1>1, <1>2, PlanOf
<1>5. PICK l \in Nat : l = Length(f) /\ l = e + m + 4
  <2>1. Length(f) = Start(f) + Len(program(f)) + 4
    BY PlanOf
  <2> QED
    BY <2>1, <1>3, <1>4
<1>6. PICK s : s = Plan[f][t]
  OBVIOUS
<1>7. CASE t \in 1 .. u
  <2>1. s = Do("unlock", (t - 1) * BankSize, 0, BankSize)
    BY <1>1, <1>6, <1>7, PlanOf
  <2>2. s.do = "unlock" /\ s.addr = (t - 1) * BankSize
    BY <2>1 DEF Do
  <2> QED
    BY <2>2, <1>1, <1>4, <1>5, <1>6, <1>7
<1>8. CASE t \in u + 1 .. e
  <2>1. s = Do("erase", (t - u - 1) * BlockSize, 0, BlockSize)
    BY <1>1, <1>4, <1>6, <1>8, PlanOf
  <2>2. s.do = "erase" /\ s.addr = (t - u - 1) * BlockSize /\ s.len = BlockSize
    BY <2>1 DEF Do
  <2> QED
    BY <2>2, <1>1, <1>4, <1>5, <1>6, <1>8
<1>9. CASE t \in e + 1 .. l - 4
  <2>1. t - e \in 1 .. m /\ s = program(f)[t - e]
    BY <1>3, <1>4, <1>5, <1>6, <1>9, PlanOf
  <2>2. u > 0 => s \in Buffers(0, Taken(f) + last_words(f), 0)
    <3>1. u > 0 => program(f) \in Seq(Buffers(0, Taken(f) + last_words(f), 0))
      BY <1>1, ProgramOf
    <3> QED
      BY <3>1, <2>1, <1>3
  <2>3. u = 0 => s \in Buffers((Uint8 - 1) * BankSize, (Uint8 - 1) * BankSize + last_words(f),
                               (Uint8 - 1) * BankSize)
    <3>1. u = 0 => program(f) \in Seq(Buffers((Uint8 - 1) * BankSize,
                     (Uint8 - 1) * BankSize + last_words(f), (Uint8 - 1) * BankSize))
      BY <1>1, ProgramOf
    <3> QED
      BY <3>1, <2>1, <1>3
  <2>4. s.do = "program" /\ s.addr \in Int /\ s.from \in Int /\ s.len \in Nat \ {0}
    <3>1. u = 0 \/ u > 0
      OBVIOUS
    <3> QED
      BY <3>1, <2>2, <2>3 DEF Buffers
  <2>5. u > 0 => /\ 0 <= s.addr /\ s.from = s.addr
                 /\ s.addr + s.len <= Taken(f) + last_words(f)
    BY <2>2 DEF Buffers
  <2>6. u = 0 => (Uint8 - 1) * BankSize <= s.addr
    BY <2>3 DEF Buffers
  <2> QED
    BY <2>4, <2>5, <2>6, <1>1, <1>4, <1>5, <1>6, <1>9
<1>10. CASE t = l - 3
  <2>1. s = Do("erase", LogicAt, 0, BlockSize)
    BY <1>5, <1>6, <1>10, PlanOf
  <2>2. s.do = "erase" /\ s.addr = LogicAt /\ s.len = BlockSize
    BY <2>1 DEF Do
  <2> QED
    BY <2>2, <1>1, <1>4, <1>5, <1>6, <1>10
<1>11. CASE t = l - 2
  <2>1. s = Do("number", LogicAt, 0, 1)
    BY <1>5, <1>6, <1>11, PlanOf
  <2>2. s.do = "number"
    BY <2>1 DEF Do
  <2> QED
    BY <2>2, <1>1, <1>4, <1>5, <1>6, <1>11
<1>12. CASE t = l - 1
  <2>1. s = Do("compare", 0, 0, 0)
    BY <1>5, <1>6, <1>12, PlanOf
  <2>2. s.do = "compare"
    BY <2>1 DEF Do
  <2> QED
    BY <2>2, <1>1, <1>4, <1>5, <1>6, <1>12
<1>13. CASE t = l
  <2>1. s = Do("reconfig", 0, 0, 0)
    BY <1>5, <1>6, <1>13, PlanOf
  <2>2. s.do = "reconfig"
    BY <2>1 DEF Do
  <2> QED
    BY <2>2, <1>1, <1>4, <1>5, <1>6, <1>13
<1>14. \/ t \in 1 .. u \/ t \in u + 1 .. e \/ t \in e + 1 .. l - 4
       \/ t = l - 3 \/ t = l - 2 \/ t = l - 1 \/ t = l
  BY <1>4, <1>5
<1> QED
  BY <1>7, <1>8, <1>9, <1>10, <1>11, <1>12, <1>13, <1>14

LEMMA LengthOf ==
  ASSUME NEW f \in Files
  PROVE  /\ need_bank(f) \in Nat /\ BlocksOf(f) \in Nat /\ Start(f) \in Nat /\ Length(f) \in Nat
         /\ Start(f) = need_bank(f) + BlocksOf(f) /\ Start(f) + 4 <= Length(f)
<1>1. /\ need_bank(f) \in Nat /\ BlocksOf(f) \in Nat /\ Start(f) = need_bank(f) + BlocksOf(f)
      /\ Len(program(f)) \in Nat
  BY PlanOf
<1>2. Length(f) = Start(f) + Len(program(f)) + 4
  BY PlanOf
<1> QED
  BY <1>1, <1>2

(* A file whose banks, counted in Uint8, reach into the one of the numbers *)
(* is the one that drv_update_firmware notes.                              *)
LEMMA SpoiltBy ==
  ASSUME NEW f \in Files, need_bank(f) \in NumberBank + 1 .. Banks
  PROVE  ((Words(f) - 1) \div BankSize) % Uint8 \in NumberBank .. Banks - 1
<1>1. PICK w \in Nat : w = Words(f)
  BY CountsOf
<1>2. BankSize \in Nat \ {0} /\ Uint8 \in Nat \ {0} /\ NumberBank \in Nat /\ Banks \in Nat /\ Banks < Uint8
  BY SizesOf
<1>3. PICK n \in Nat : n = Need(w, BankSize)
  BY <1>2, NeedParts
<1>4. PICK k \in 0 .. Uint8 - 1 : k = need_bank(f)
  BY CountsOf
<1>5. k = n % Uint8 /\ k \in NumberBank + 1 .. Banks
  BY <1>1, <1>3, <1>4 DEF need_bank
<1>6. PICK q \in Int : \E r \in 0 .. Uint8 - 1 : q = n \div Uint8 /\ r = n % Uint8 /\ n = q * Uint8 + r
  BY <1>2, DivMod
<1>7. n = q * Uint8 + k
  BY <1>5, <1>6
<1>8. n > 0
  <2> SUFFICES ASSUME n = 0 PROVE FALSE
    OBVIOUS
  <2>1. 0 = 0 * Uint8 + 0 /\ 0 \in 0 .. Uint8 - 1
    BY <1>2
  <2>2. 0 % Uint8 = 0
    BY <2>1, <1>2, DivUnique
  <2> QED
    BY <2>2, <1>2, <1>5
<1>9. PICK l \in 1 .. BankSize : l = LastPart(w, BankSize)
  BY <1>2, NeedParts
<1>10. (n - 1) * BankSize + l = w
  <2>1. w # 0
    BY <1>2, <1>3, <1>8, NeedParts
  <2> QED
    BY <2>1, <1>2, <1>3, <1>9, NeedParts
<1>11. (w - 1) \div BankSize = n - 1
  <2>1. w - 1 = (n - 1) * BankSize + (l - 1)
    <3>1. PICK p \in Int : p = (n - 1) * BankSize
      BY <1>2
    <3> QED
      BY <3>1, <1>10
  <2>2. l - 1 \in 0 .. BankSize - 1 /\ w - 1 \in Int /\ n - 1 \in Int
    BY <1>2
  <2> QED
    BY <2>1, <2>2, <1>2, DivUnique
<1>12. (n - 1) % Uint8 = k - 1
  <2>1. n - 1 = q * Uint8 + (k - 1)
    <3>1. PICK p \in Int : p = q * Uint8
      BY <1>2
    <3> QED
      BY <3>1, <1>7
  <2>2. k - 1 \in 0 .. Uint8 - 1 /\ n - 1 \in Int
    BY <1>2, <1>5
  <2> QED
    BY <2>1, <2>2, <1>2, DivUnique
<1> QED
  BY <1>1, <1>2, <1>5, <1>11, <1>12

-----------------------------------------------------------------------------
(* What the updates keep, beside the hardware number.                      *)
Types ==
  /\ flash \in [Addresses -> Int]
  /\ file \in Files /\ src \in Files /\ compared \in Files
  /\ step \in 0 .. Length(src)
  /\ disturbed \in BOOLEAN /\ spoilt \in BOOLEAN
  /\ step > 0 => ~src.odd

(* What the comparison has found holds until the card is reconfigured.     *)
Verified ==
  step > 0 /\ step = Length(src) =>
    compared.size \in Nat /\ ReadBack(src) = Swapped(compared)

(* A file that is too long stops at the first bank behind the flash, one   *)
(* that reaches the bank of the numbers has been noted.                    *)
Reach ==
  step > 0 => /\ need_bank(src) > Banks => step <= Banks + 1
              /\ need_bank(src) \in NumberBank + 1 .. Banks => spoilt

(* An update that nothing disturbs, of a file that fits: the words of the  *)
(* blocks that are erased are blank or right, those of the buffers that    *)
(* are programmed are right, and the number comes into an erased word.     *)
Right(a) == byte_swap(Word(src, a + 1))
Erased ==
  \A k \in 1 .. BlocksOf(src) :
    need_bank(src) + k < step =>
      \A a \in (k - 1) * BlockSize .. k * BlockSize - 1 :
        a < src.size => flash[a] \in {Blank, Right(a)}
Done ==
  \A t \in 1 .. step - 1 :
    Plan[src][t].do = "program" => \A a \in Range_(Plan[src][t]) : flash[a] = Right(a)
Numbered ==
  /\ step = Length(src) - 2 => flash[LogicAt] = Blank
  /\ step >= Length(src) - 1 => flash[LogicAt] = Number(src)
Undisturbed ==
  ~disturbed /\ Fits(src) =>
    /\ outcome # "error"
    /\ step > 0 => src = file /\ Erased /\ Done /\ Numbered

(* The inductive invariant.                                                *)
IInv == Types /\ Verified /\ Reach /\ HardwareNumKept /\ Undisturbed

LEMMA InitInv == Init => IInv
<1> SUFFICES ASSUME Init PROVE IInv
  OBVIOUS
<1>1. flash \in [Addresses -> Int]
  <2>1. flash = [a \in Addresses |-> IF a = HardwareAt THEN Hardware ELSE Old]
    BY DEF Init
  <2> QED
    BY <2>1 DEF Hardware, Old
<1>2. Types
  <2>1. file \in Files /\ src \in Files /\ compared \in Files /\ step = 0
    BY DEF Init
  <2>2. Length(src) \in Nat
    BY <2>1, LengthOf
  <2>3. step \in 0 .. Length(src)
    BY <2>1, <2>2
  <2>4. disturbed \in BOOLEAN /\ spoilt \in BOOLEAN
    BY DEF Init
  <2>5. ~(step > 0)
    BY <2>1
  <2> QED
    BY <2>1, <2>3, <2>4, <2>5, <1>1 DEF Types
<1>3. HardwareNumKept
  <2>1. HardwareAt \in Addresses
    BY SizesOf
  <2> QED
    BY <2>1 DEF Init, HardwareNumKept
<1>4. Verified /\ Reach /\ Undisturbed
  BY DEF Init, Verified, Reach, Undisturbed
<1> QED
  BY <1>2, <1>3, <1>4 DEF IInv

LEMMA StartInv == IInv /\ drv_update_firmware => IInv'
<1> SUFFICES ASSUME IInv, drv_update_firmware PROVE IInv'
  OBVIOUS
<1>1. Types /\ Verified /\ Reach /\ HardwareNumKept /\ Undisturbed
  BY DEF IInv
<1>2. /\ step = 0 /\ src' = file /\ UNCHANGED <<flash, file, compared>> /\ disturbed' = FALSE
      /\ \/ file.odd /\ step' = 0 /\ outcome' = "error"
         \/ ~file.odd /\ step' = 1 /\ outcome' = "none"
  BY DEF drv_update_firmware, Ends
<1>3. spoilt' = (spoilt \/ (~file.odd /\ ((Words(file) - 1) \div BankSize) % Uint8 \in NumberBank .. Banks - 1))
  BY DEF drv_update_firmware
<1>4. file \in Files /\ Length(file) \in Nat /\ Length(file) >= 4 /\ need_bank(file) \in Nat
  <2>1. file \in Files
    BY <1>1 DEF Types
  <2> QED
    BY <2>1, LengthOf
<1>5. Length(src)' = Length(file) /\ need_bank(src)' = need_bank(file)
  BY <1>2 DEF Length, Start, BlocksOf, need_bank, Words, program, whole_banks, Taken, last_bank, last_words
<1>6. Types'
  <2>1. spoilt' \in BOOLEAN /\ disturbed' \in BOOLEAN
    BY <1>1, <1>2, <1>3 DEF Types
  <2>2. step' \in 0 .. Length(src)'
    BY <1>2, <1>4, <1>5
  <2>3. step' > 0 => ~src'.odd
    BY <1>2
  <2>4. /\ flash' \in [Addresses -> Int]
        /\ file' \in Files /\ src' \in Files /\ compared' \in Files
    BY <1>1, <1>2 DEF Types
  <2> QED
    BY <2>1, <2>2, <2>3, <2>4 DEF Types
<1>7. Verified'
  BY <1>2, <1>4, <1>5 DEF Verified
<1>8. Reach'
  <2>1. Banks \in Nat
    BY SizesOf
  <2>2. step' > 0 => ~file.odd /\ step' = 1
    BY <1>2
  <2>3. need_bank(file) \in NumberBank + 1 .. Banks
          => ((Words(file) - 1) \div BankSize) % Uint8 \in NumberBank .. Banks - 1
    BY <1>4, SpoiltBy
  <2>4. step' > 0 /\ need_bank(file) \in NumberBank + 1 .. Banks => spoilt'
    BY <1>3, <2>2, <2>3
  <2> QED
    BY <2>1, <2>2, <2>4, <1>5 DEF Reach
<1>9. HardwareNumKept'
  BY <1>1, <1>2, <1>3 DEF HardwareNumKept
<1>10. Undisturbed'
  <2>1. CASE file.odd
    BY <2>1, <1>2 DEF Undisturbed, Fits
  <2>2. CASE ~file.odd
    <3>1. outcome' = "none" /\ step' = 1 /\ src' = file'
      BY <2>2, <1>2
    <3>2. Done'
      BY <3>1 DEF Done
    <3>3. Numbered'
      BY <3>1, <1>4, <1>5 DEF Numbered
    <3>4. Erased'
      <4>1. BlocksOf(file) \in Nat /\ BlocksOf(src)' = BlocksOf(file)
        BY <1>2, <1>4, LengthOf DEF BlocksOf, need_bank, Words
      <4> QED
        BY <4>1, <3>1, <1>4, <1>5 DEF Erased
    <3> QED
      BY <3>1, <3>2, <3>3, <3>4 DEF Undisturbed
  <2> QED
    BY <2>1, <2>2
<1> QED
  BY <1>6, <1>7, <1>8, <1>9, <1>10 DEF IInv

(* An update that ends leaves the flash as it is.                          *)
LEMMA EndInv ==
  ASSUME IInv, UNCHANGED <<flash, file, src, spoilt, compared>>, step' = 0, disturbed' \in BOOLEAN,
         ~disturbed' /\ Fits(src) => outcome' # "error"
  PROVE  IInv'
<1>1. Types /\ HardwareNumKept
  BY DEF IInv
<1>2. Types'
  <2>1. src \in Files /\ Length(src) \in Nat
    BY <1>1, LengthOf DEF Types
  <2>2. step' \in 0 .. Length(src)' /\ ~(step' > 0)
    BY <2>1
  <2>3. disturbed' \in BOOLEAN /\ spoilt' \in BOOLEAN
    BY <1>1 DEF Types
  <2> QED
    BY <2>2, <2>3, <1>1 DEF Types
<1>3. ~(step' > 0)
  OBVIOUS
<1>4. Verified' /\ Reach' /\ HardwareNumKept'
  BY <1>1, <1>3 DEF Verified, Reach, HardwareNumKept
<1>5. Undisturbed'
  BY <1>3 DEF Undisturbed
<1> QED
  BY <1>2, <1>4, <1>5 DEF IInv

(* One that goes on, before the comparison.                                *)
LEMMA GoesInv ==
  ASSUME IInv, UNCHANGED <<file, src, spoilt, compared, outcome>>, step > 0, step' = step + 1,
         step < Length(src) - 1,
         need_bank(src) <= Banks \/ step <= Banks,
         flash' \in [Addresses -> Int], HardwareNumKept',
         disturbed' \in BOOLEAN, ~disturbed' => ~disturbed,
         ~disturbed' /\ Fits(src) /\ Erased /\ Done /\ Numbered => Erased' /\ Done' /\ Numbered'
  PROVE  IInv'
<1>1. Types /\ Reach /\ Undisturbed
  BY DEF IInv
<1>2. /\ src \in Files /\ Length(src) \in Nat /\ Length(src)' = Length(src) /\ step \in Nat
      /\ need_bank(src)' = need_bank(src) /\ need_bank(src) \in Nat /\ Banks \in Nat
  BY <1>1, LengthOf, SizesOf DEF Types
<1>3. Types'
  <2>1. step' \in 0 .. Length(src)'
    BY <1>2
  <2>2. disturbed' \in BOOLEAN /\ spoilt' \in BOOLEAN
    BY <1>1 DEF Types
  <2>3. step' > 0 => ~src'.odd
    BY <1>1 DEF Types
  <2> QED
    BY <2>1, <2>2, <2>3, <1>1 DEF Types
<1>4. Verified'
  BY <1>2 DEF Verified
<1>5. Reach'
  <2>1. need_bank(src) > Banks => step + 1 <= Banks + 1
    BY <1>2
  <2>2. need_bank(src) \in NumberBank + 1 .. Banks => spoilt'
    BY <1>1 DEF Reach
  <2> QED
    BY <2>1, <2>2, <1>2 DEF Reach
<1>6. Undisturbed'
  <2> SUFFICES ASSUME ~disturbed', Fits(src)
               PROVE  outcome' # "error" /\ src' = file' /\ Erased' /\ Done' /\ Numbered'
    BY DEF Undisturbed
  <2>1. outcome # "error" /\ src = file /\ Erased /\ Done /\ Numbered
    BY <1>1 DEF Undisturbed
  <2> QED
    BY <2>1
<1> QED
  BY <1>3, <1>4, <1>5, <1>6 DEF IInv

LEMMA UnlockInv == IInv /\ bank_unlock => IInv'
<1> SUFFICES ASSUME IInv, bank_unlock PROVE IInv'
  OBVIOUS
<1>1. /\ step > 0 /\ Plan[src][step].do = "unlock" /\ flash' = flash
      /\ UNCHANGED <<file, src, spoilt, faults, disturbed, compared>>
      /\ \/ Plan[src][step].addr \in Addresses /\ step' = step + 1 /\ outcome' = outcome
         \/ Plan[src][step].addr \notin Addresses /\ step' = 0 /\ outcome' = "error"
  BY DEF bank_unlock, Now, Goes, Ends, NoFault, Same
<1>2. Types /\ HardwareNumKept
  BY DEF IInv
<1>3. src \in Files /\ step \in 1 .. Length(src) /\ disturbed \in BOOLEAN
  <2>1. src \in Files /\ step \in 0 .. Length(src) /\ disturbed \in BOOLEAN
    BY <1>2 DEF Types
  <2> QED
    BY <2>1, <1>1, LengthOf
<1>4. PICK u \in Nat, l \in Nat : u = need_bank(src) /\ l = Length(src) /\ u + BlocksOf(src) + 4 <= l
  BY <1>3, LengthOf
<1>5. step \in 1 .. u /\ Plan[src][step].addr = (step - 1) * BankSize
  BY <1>1, <1>3, <1>4, StepOf
<1>6. BlocksOf(src) \in Nat /\ Banks \in Nat /\ NumberBank \in 1 .. Banks - 1 /\ BankSize \in Nat \ {0}
  BY <1>3, LengthOf, SizesOf
<1>7. CASE Plan[src][step].addr \in Addresses /\ step' = step + 1 /\ outcome' = outcome
  <2>1. step < Length(src) - 1
    BY <1>4, <1>5, <1>6
  <2>2. step <= Banks
    <3> SUFFICES ASSUME step - 1 >= Banks PROVE FALSE
      BY <1>5, <1>6
    <3>1. Banks * BankSize <= (step - 1) * BankSize
      BY <1>5, <1>6, Times
    <3>2. PICK k \in Int : k = (step - 1) * BankSize
      BY <1>5, <1>6
    <3>3. k < Banks * BankSize
      BY <3>2, <1>5, <1>7, <1>6 DEF Addresses
    <3> QED
      BY <3>1, <3>2, <3>3, <1>6
  <2>3. HardwareNumKept'
    BY <1>1, <1>2 DEF HardwareNumKept
  <2>4. ASSUME Fits(src), Erased, Done, Numbered PROVE Erased' /\ Done' /\ Numbered'
    <3>1. Erased'
      <4>1. \A k \in 1 .. BlocksOf(src) : ~(u + k < step')
        BY <1>5, <1>6, <1>7
      <4> QED
        BY <4>1, <1>1, <1>4 DEF Erased
    <3>2. Done'
      <4>1. \A t \in 1 .. step' - 1 : t \in 1 .. step - 1 \/ t = step
        BY <1>5, <1>7
      <4>2. \A a : Right(a)' = Right(a)
        BY <1>1 DEF Right
      <4> QED
        BY <4>1, <4>2, <1>1, <2>4 DEF Done, Right
    <3>3. Numbered'
      <4>1. step' < Length(src) - 2
        BY <1>4, <1>5, <1>6, <1>7
      <4> QED
        BY <4>1, <1>1, <1>4, <1>5, <1>7 DEF Numbered
    <3> QED
      BY <3>1, <3>2, <3>3
  <2>5. flash' \in [Addresses -> Int]
    BY <1>1, <1>2 DEF Types
  <2> QED
    BY <1>1, <1>3, <1>7, <2>1, <2>2, <2>3, <2>4, <2>5, GoesInv
<1>8. CASE Plan[src][step].addr \notin Addresses /\ step' = 0 /\ outcome' = "error"
  <2>1. ~Fits(src)
    <3> SUFFICES ASSUME Fits(src) PROVE FALSE
      OBVIOUS
    <3>1. u <= NumberBank
      BY <1>3, <1>4, FitsCounts
    <3>2. step - 1 <= Banks - 1 /\ 0 <= step - 1
      BY <3>1, <1>5, <1>6
    <3>3. (step - 1) * BankSize <= (Banks - 1) * BankSize
      BY <3>2, <1>5, <1>6, Times
    <3>4. PICK k \in Nat : k = (step - 1) * BankSize
      BY <3>2, <1>5, <1>6
    <3>5. (Banks - 1) * BankSize = Banks * BankSize - BankSize
      BY <1>6
    <3>6. k \in Addresses
      BY <3>3, <3>4, <3>5, <1>6 DEF Addresses
    <3> QED
      BY <3>4, <3>6, <1>5, <1>8
  <2> QED
    BY <1>1, <1>3, <1>8, <2>1, EndInv
<1> QED
  BY <1>1, <1>7, <1>8

(* The blocks of a file lie in its banks, and the words of one that fits   *)
(* in its blocks.                                                          *)
LEMMA BlockEnds ==
  ASSUME NEW f \in Files, NEW k \in 1 .. BlocksOf(f)
  PROVE  /\ (k - 1) * BlockSize \in Nat /\ k * BlockSize = (k - 1) * BlockSize + BlockSize
         /\ k * BlockSize <= need_bank(f) * BankSize
<1>1. PICK u \in Nat : u = need_bank(f)
  BY CountsOf
<1>2. BlockSize \in Nat \ {0} /\ Blocks \in Nat /\ BankSize = Blocks * BlockSize
  BY SizesOf
<1>3. PICK n \in Nat : n = u * Blocks
  BY <1>2
<1>4. k \in 1 .. n
  BY <1>1, <1>3 DEF BlocksOf
<1>5. n * BlockSize = u * BankSize
  BY <1>2, <1>3
<1>6. k * BlockSize <= n * BlockSize
  BY <1>2, <1>4, Times
<1>7. (k - 1) * BlockSize \in Nat /\ k * BlockSize = (k - 1) * BlockSize + BlockSize
  BY <1>2, <1>4
<1> QED
  BY <1>1, <1>5, <1>6, <1>7

LEMMA InBlock ==
  ASSUME NEW f \in Files, Fits(f), NEW a \in 0 .. f.size - 1
  PROVE  \E k \in 1 .. BlocksOf(f) : a \in (k - 1) * BlockSize .. k * BlockSize - 1
<1>1. PICK u \in Nat \ {0} : u = need_bank(f)
  BY CountsOf, FitsCounts
<1>2. /\ BlockSize \in Nat \ {0} /\ Blocks \in Nat /\ BankSize = Blocks * BlockSize
      /\ BankSize \in Nat
  BY SizesOf
<1>3. PICK n \in Nat : n = u * Blocks
  BY <1>2
<1>4. PICK top \in Nat : top = n * BlockSize
  BY <1>2
<1>5. a < top /\ a \in Nat
  <2>1. PICK taken \in Nat, w \in 1 .. BankSize :
          taken = Taken(f) /\ w = last_words(f) /\ taken + w = f.size
    BY CountsOf, FitsCounts
  <2>2. taken + BankSize = u * BankSize
    BY <1>1, <2>1, CountsOf
  <2>3. u * BankSize = top
    BY <1>2, <1>3, <1>4
  <2> QED
    BY <2>1, <2>2, <2>3, <1>2
<1>6. PICK q \in Int : \E r \in 0 .. BlockSize - 1 :
        q = a \div BlockSize /\ r = a % BlockSize /\ a = q * BlockSize + r
  BY <1>2, <1>5, DivMod
<1>7. PICK r \in 0 .. BlockSize - 1 : a = q * BlockSize + r
  BY <1>6
<1>8. q >= 0
  BY <1>2, <1>5, <1>7
<1>9. q < n
  <2> SUFFICES ASSUME n <= q PROVE FALSE
    OBVIOUS
  <2>1. n * BlockSize <= q * BlockSize
    BY <1>2, Times
  <2>2. PICK p \in Int : p = q * BlockSize
    BY <1>2
  <2> QED
    BY <2>1, <2>2, <1>2, <1>4, <1>5, <1>7
<1>10. PICK k \in 1 .. n : k = q + 1
  BY <1>8, <1>9
<1>11. (k - 1) * BlockSize <= a /\ a < k * BlockSize
  <2>1. PICK p \in Int : p = q * BlockSize
    BY <1>2
  <2>2. (k - 1) * BlockSize = p
    BY <1>10, <2>1
  <2>3. k * BlockSize = p + BlockSize
    BY <1>10, <2>1, <1>2
  <2> QED
    BY <2>1, <2>2, <2>3, <1>7, <1>2
<1>12. k \in 1 .. BlocksOf(f)
  BY <1>1, <1>3 DEF BlocksOf
<1>13. a \in (k - 1) * BlockSize .. k * BlockSize - 1
  <2>1. (k - 1) * BlockSize \in Int /\ k * BlockSize \in Int
    BY <1>2
  <2> QED
    BY <2>1, <1>11, <1>5
<1> QED
  BY <1>12, <1>13

LEMMA EraseInv == IInv /\ block_erase => IInv'
<1> SUFFICES ASSUME IInv, block_erase PROVE IInv'
  OBVIOUS
<1>1. PICK s : s = Plan[src][step]
  OBVIOUS
<1>2. /\ step > 0 /\ s.do = "erase" /\ step' = step + 1
      /\ UNCHANGED <<file, src, spoilt, faults, disturbed, compared, outcome>>
      /\ flash' = [a \in Addresses |-> IF a \in Range_(s) THEN Blank ELSE flash[a]]
  BY <1>1 DEF block_erase, Now, Goes, NoFault, Same
<1>3. Types /\ Reach /\ HardwareNumKept
  BY DEF IInv
<1>4. src \in Files /\ step \in 1 .. Length(src) /\ disturbed \in BOOLEAN
  <2>1. src \in Files /\ step \in 0 .. Length(src) /\ disturbed \in BOOLEAN
    BY <1>3 DEF Types
  <2> QED
    BY <2>1, <1>2, LengthOf
<1>5. PICK u \in Nat, n \in Nat, e \in Nat, l \in Nat :
        /\ u = need_bank(src) /\ n = BlocksOf(src) /\ e = Start(src) /\ l = Length(src)
        /\ e = u + n /\ e + 4 <= l
  BY <1>4, LengthOf
<1>6. /\ s.len = BlockSize
      /\ \/ step \in u + 1 .. e /\ s.addr = (step - u - 1) * BlockSize
         \/ step = l - 3 /\ s.addr = LogicAt
  BY <1>1, <1>2, <1>4, <1>5, StepOf
<1>7. /\ Banks \in Nat /\ NumberBank \in 1 .. Banks - 1 /\ BlockSize \in Nat \ {0}
      /\ BankSize \in Nat \ {0} /\ LogicAt = NumberBank * BankSize
      /\ LogicAt \in Nat /\ LogicAt \in Addresses /\ HardwareAt \in Addresses
      /\ HardwareAt = LogicAt + BlockSize
  BY SizesOf
<1>8. u <= Banks
  BY <1>2, <1>3, <1>5, <1>6, <1>7 DEF Reach
<1>9. step \in u + 1 .. e =>
        \E k \in 1 .. n : /\ k = step - u /\ s.addr = (k - 1) * BlockSize
                          /\ Range_(s) = (k - 1) * BlockSize .. k * BlockSize - 1
  <2> SUFFICES ASSUME step \in u + 1 .. e
               PROVE  \E k \in 1 .. n : /\ k = step - u /\ s.addr = (k - 1) * BlockSize
                                        /\ Range_(s) = (k - 1) * BlockSize .. k * BlockSize - 1
    OBVIOUS
  <2>1. PICK k \in 1 .. n : k = step - u
    BY <1>5
  <2>2. s.addr = (k - 1) * BlockSize
    BY <1>5, <1>6, <2>1
  <2>3. (k - 1) * BlockSize \in Nat /\ k * BlockSize = (k - 1) * BlockSize + BlockSize
    BY <1>4, <1>5, BlockEnds
  <2>4. Range_(s) = (k - 1) * BlockSize .. k * BlockSize - 1
    BY <2>2, <2>3, <1>6, <1>7 DEF Range_
  <2> QED
    BY <2>1, <2>2, <2>4
<1>10. step = l - 3 => Range_(s) = LogicAt .. LogicAt + BlockSize - 1
  <2> SUFFICES ASSUME step = l - 3
               PROVE  Range_(s) = LogicAt .. LogicAt + BlockSize - 1
    OBVIOUS
  <2>1. ~(step \in u + 1 .. e)
    BY <1>5
  <2>2. s.addr = LogicAt
    BY <2>1, <1>6
  <2> QED
    BY <2>2, <1>6 DEF Range_
<1>11. flash' \in [Addresses -> Int]
  BY <1>2, <1>3 DEF Types, Blank
<1>12. HardwareNumKept'
  <2>1. CASE spoilt
    BY <2>1, <1>2 DEF HardwareNumKept
  <2>2. CASE ~spoilt
    <3>1. u <= NumberBank
      BY <2>2, <1>2, <1>3, <1>5, <1>7, <1>8 DEF Reach
    <3>2. HardwareAt \notin Range_(s)
      <4>1. CASE step \in u + 1 .. e
        <5>1. PICK k \in 1 .. n : Range_(s) = (k - 1) * BlockSize .. k * BlockSize - 1
          BY <1>9, <4>1
        <5>2. k * BlockSize <= u * BankSize
          BY <1>4, <1>5, BlockEnds
        <5>3. u * BankSize <= NumberBank * BankSize
          BY <3>1, <1>7, Times
        <5>4. PICK x \in Int : x = u * BankSize
          BY <1>7
        <5>5. PICK y \in Int : y = k * BlockSize
          BY <1>7
        <5> QED
          BY <5>1, <5>2, <5>3, <5>4, <5>5, <1>7
      <4>2. CASE step = l - 3
        BY <4>2, <1>10, <1>7
      <4> QED
        BY <4>1, <4>2, <1>6
    <3> QED
      BY <3>2, <2>2, <1>2, <1>3, <1>7 DEF HardwareNumKept
  <2> QED
    BY <2>1, <2>2
<1>13. ASSUME Fits(src), Erased, Done, Numbered PROVE Erased' /\ Done' /\ Numbered'
  <2>1. src.size \in Int /\ src.size <= LogicAt
    <3>1. PICK top \in Nat : top = NumberBank * BankSize
      BY <1>7
    <3> QED
      BY <1>13, <3>1, <1>7 DEF Fits
  <2>2. \A a \in Addresses : flash'[a] = IF a \in Range_(s) THEN Blank ELSE flash[a]
    BY <1>2
  <2>3. ASSUME NEW a \in Nat, a < src.size PROVE a \in Addresses
    BY <2>1, <2>3, <1>7 DEF Addresses
  <2>4. Erased'
    <3> SUFFICES ASSUME NEW k \in 1 .. n, u + k < step + 1,
                        NEW a \in (k - 1) * BlockSize .. k * BlockSize - 1, a < src.size
                 PROVE  flash'[a] \in {Blank, Right(a)}
      BY <1>2, <1>5 DEF Erased, Right
    <3>1. a \in Addresses
      <4>1. (k - 1) * BlockSize \in Nat /\ k * BlockSize \in Int
        BY <1>4, <1>5, <1>7, BlockEnds
      <4>2. a \in Nat
        BY <4>1
      <4> QED
        BY <4>2, <2>3
    <3>2. CASE u + k < step
      <4>1. flash[a] \in {Blank, Right(a)}
        BY <1>13, <1>5, <3>2 DEF Erased
      <4> QED
        BY <4>1, <3>1, <2>2
    <3>3. CASE u + k = step
      <4>1. step \in u + 1 .. e
        BY <3>3, <1>5
      <4>2. PICK j \in 1 .. n : j = step - u /\ Range_(s) = (j - 1) * BlockSize .. j * BlockSize - 1
        BY <1>9, <4>1
      <4>3. j = k
        BY <3>3, <4>2
      <4> QED
        BY <4>2, <4>3, <3>1, <2>2
    <3> QED
      BY <3>2, <3>3, <1>4, <1>5
  <2>5. Done'
    <3> SUFFICES ASSUME NEW t \in 1 .. step, Plan[src][t].do = "program",
                        NEW a \in Range_(Plan[src][t])
                 PROVE  flash'[a] = Right(a)
      BY <1>2, <1>4 DEF Done, Right
    <3>1. t \in 1 .. Length(src)
      BY <1>4, LengthOf
    <3>2. PICK p : p = Plan[src][t]
      OBVIOUS
    <3>3. u > 0 /\ Taken(src) + last_words(src) = src.size
      BY <1>4, <1>5, <1>7, <1>13, FitsCounts
    <3>4. /\ t \in e + 1 .. l - 4
          /\ p.addr \in Int /\ p.len \in Nat /\ 0 <= p.addr /\ p.addr + p.len <= src.size
      <4>1. /\ t \in e + 1 .. l - 4 /\ p.addr \in Int /\ p.len \in Nat
            /\ u > 0 => 0 <= p.addr /\ p.addr + p.len <= Taken(src) + last_words(src)
        BY <3>1, <3>2, <1>4, <1>5, StepOf
      <4> QED
        BY <4>1, <3>3
    <3>5. a \in Nat /\ a < src.size
      BY <3>2, <3>4, <2>1 DEF Range_
    <3>6. t # step /\ step = l - 3
      BY <1>1, <1>2, <1>5, <1>6, <3>4
    <3>7. a \notin Range_(s)
      BY <3>5, <3>6, <1>10, <1>7, <2>1
    <3>8. flash[a] = Right(a)
      BY <1>13, <3>6, <1>4 DEF Done
    <3> QED
      BY <3>5, <3>7, <3>8, <2>2, <2>3
  <2>6. Numbered'
    <3>1. step + 1 = l - 2 => flash'[LogicAt] = Blank
      <4> SUFFICES ASSUME step = l - 3 PROVE flash'[LogicAt] = Blank
        BY <1>4, <1>5
      <4>1. LogicAt \in Range_(s)
        BY <1>10, <1>7
      <4> QED
        BY <4>1, <2>2, <1>7
    <3>2. ~(step + 1 >= l - 1)
      BY <1>5, <1>6
    <3> QED
      BY <3>1, <3>2, <1>2, <1>5 DEF Numbered
  <2> QED
    BY <2>4, <2>5, <2>6
<1>14. step < Length(src) - 1
  BY <1>5, <1>6
<1> QED
  BY <1>2, <1>4, <1>5, <1>8, <1>11, <1>12, <1>13, <1>14, GoesInv

(* A word of the program that a file brings where it belongs.              *)
LEMMA ProgramWord ==
  ASSUME NEW f \in Files, Fits(f), NEW t \in 1 .. Length(f), Plan[f][t].do = "program",
         NEW a \in Range_(Plan[f][t])
  PROVE  /\ a \in Nat /\ a < f.size /\ a \in Addresses
         /\ Plan[f][t].addr \in Addresses
         /\ Plan[f][t].from + a - Plan[f][t].addr + 1 = a + 1
<1>1. PICK s : s = Plan[f][t]
  OBVIOUS
<1>2. need_bank(f) > 0 /\ Taken(f) + last_words(f) = f.size
  BY FitsCounts, CountsOf, SizesOf
<1>3. /\ s.addr \in Int /\ s.from \in Int /\ s.len \in Nat \ {0}
      /\ need_bank(f) > 0 => 0 <= s.addr /\ s.from = s.addr
                             /\ s.addr + s.len <= Taken(f) + last_words(f)
  BY <1>1, StepOf
<1>4. 0 <= s.addr /\ s.from = s.addr /\ s.addr + s.len <= f.size
  BY <1>2, <1>3
<1>5. a \in s.addr .. s.addr + s.len - 1
  BY <1>1 DEF Range_
<1>6. f.size \in Int /\ f.size <= LogicAt /\ LogicAt \in Addresses
  <2>1. PICK top \in Nat : top = NumberBank * BankSize
    BY SizesOf
  <2> QED
    BY <2>1, SizesOf DEF Fits
<1>7. \A x \in Nat : x < f.size => x \in Addresses
  <2>1. PICK top \in Nat : top = Banks * BankSize
    BY SizesOf
  <2>2. Addresses = 0 .. top - 1
    BY <2>1 DEF Addresses
  <2> QED
    BY <2>2, <1>6
<1>8. a \in Nat /\ a < f.size
  BY <1>3, <1>4, <1>5, <1>6
<1>9. s.addr \in Nat /\ s.addr < f.size
  BY <1>3, <1>4, <1>6
<1> QED
  BY <1>1, <1>3, <1>4, <1>7, <1>8, <1>9

LEMMA ProgramInv == IInv /\ buffer_program => IInv'
<1> SUFFICES ASSUME IInv, buffer_program PROVE IInv'
  OBVIOUS
<1>1. PICK s : s = Plan[src][step]
  OBVIOUS
<1> DEFINE new == [a \in Addresses |->
                     IF a \in Range_(s)
                     THEN Programmed(flash[a], byte_swap(Word(src, s.from + a - s.addr + 1)))
                     ELSE flash[a]]
<1>2. /\ step > 0 /\ s.do = "program" /\ UNCHANGED <<file, src, spoilt, compared>>
      /\ IF s.addr \in Addresses
         THEN /\ step' = step + 1 /\ outcome' = outcome
              /\ \/ flash' = new /\ disturbed' = disturbed
                 \/ \E a \in Range_(s) : flash' = [new EXCEPT ![a] = Junk] /\ disturbed' = TRUE
         ELSE flash' = flash /\ step' = 0 /\ outcome' = "error" /\ disturbed' = disturbed
  BY <1>1 DEF buffer_program, Now, Goes, Ends, NoFault, Fault, Same
<1>3. Types /\ Reach /\ HardwareNumKept
  BY DEF IInv
<1>4. src \in Files /\ step \in 1 .. Length(src) /\ disturbed \in BOOLEAN
  <2>1. src \in Files /\ step \in 0 .. Length(src) /\ disturbed \in BOOLEAN
    BY <1>3 DEF Types
  <2> QED
    BY <2>1, <1>2, LengthOf
<1>5. PICK u \in Nat, n \in Nat, e \in Nat, l \in Nat :
        /\ u = need_bank(src) /\ n = BlocksOf(src) /\ e = Start(src) /\ l = Length(src)
        /\ e = u + n /\ e + 4 <= l
  BY <1>4, LengthOf
<1>6. /\ step \in e + 1 .. l - 4
      /\ s.addr \in Int /\ s.from \in Int /\ s.len \in Nat \ {0}
      /\ u > 0 => 0 <= s.addr /\ s.addr + s.len <= Taken(src) + last_words(src)
      /\ u = 0 => (Uint8 - 1) * BankSize <= s.addr
  BY <1>1, <1>2, <1>4, <1>5, StepOf
<1>7. /\ Banks \in Nat /\ NumberBank \in 1 .. Banks - 1 /\ BlockSize \in Nat \ {0}
      /\ BankSize \in Nat \ {0} /\ LogicAt = NumberBank * BankSize
      /\ LogicAt \in Nat /\ LogicAt \in Addresses /\ HardwareAt \in Addresses
      /\ HardwareAt = LogicAt + BlockSize /\ Uint8 \in Nat /\ Uint8 > Banks
  BY SizesOf
<1>8. u <= Banks
  BY <1>2, <1>3, <1>5, <1>6, <1>7 DEF Reach
<1>9. CASE s.addr \in Addresses
  <2>1. \/ flash' = new /\ disturbed' = disturbed
        \/ \E a \in Range_(s) : flash' = [new EXCEPT ![a] = Junk] /\ disturbed' = TRUE
    BY <1>2, <1>9
  <2>2. flash' \in [Addresses -> Int]
    <3>1. src.version \in Int
      BY <1>4, CountsOf
    <3>2. Range_(s) \subseteq Int
      BY <1>6 DEF Range_
    <3>3. ASSUME NEW a \in Addresses, a \in Range_(s)
          PROVE  Programmed(flash[a], byte_swap(Word(src, s.from + a - s.addr + 1))) \in Int
      BY <3>1, <3>2, <3>3, <1>6 DEF Programmed, byte_swap, Word, Junk
    <3>4. new \in [Addresses -> Int]
      BY <3>3, <1>3 DEF Types
    <3> HIDE DEF new
    <3> QED
      BY <3>4, <2>1 DEF Junk
  <2>3. \A a \in Addresses : a \notin Range_(s) => flash'[a] = flash[a]
    <3>1. \A a \in Addresses : a \notin Range_(s) => new[a] = flash[a]
      OBVIOUS
    <3>2. DOMAIN new = Addresses
      OBVIOUS
    <3> HIDE DEF new
    <3> QED
      BY <3>1, <3>2, <2>1
  <2>4. HardwareNumKept'
    <3>1. CASE spoilt
      BY <3>1, <1>2 DEF HardwareNumKept
    <3>2. CASE ~spoilt
      <4>1. u <= NumberBank
        BY <3>2, <1>2, <1>3, <1>5, <1>7, <1>8 DEF Reach
      <4>2. u > 0
        <5> SUFFICES ASSUME u = 0 PROVE FALSE
          OBVIOUS
        <5>1. Banks * BankSize <= (Uint8 - 1) * BankSize
          BY <1>7, Times
        <5>2. PICK x \in Nat : x = Banks * BankSize
          BY <1>7
        <5>3. PICK y \in Nat : y = (Uint8 - 1) * BankSize
          BY <1>7
        <5>4. s.addr < x
          BY <1>6, <1>9, <5>2 DEF Addresses
        <5> QED
          BY <1>6, <5>1, <5>2, <5>3, <5>4
      <4>3. HardwareAt \notin Range_(s)
        <5>1. PICK taken \in Nat, w \in 1 .. BankSize : taken = Taken(src) /\ w = last_words(src)
          BY <1>4, CountsOf
        <5>2. taken + BankSize = u * BankSize
          BY <4>2, <5>1, <1>4, <1>5, CountsOf
        <5>3. u * BankSize <= NumberBank * BankSize
          BY <4>1, <1>7, Times
        <5>4. PICK x \in Int : x = u * BankSize
          BY <1>7
        <5>5. s.addr + s.len <= LogicAt
          BY <4>2, <5>1, <5>2, <5>3, <5>4, <1>6, <1>7
        <5> QED
          BY <5>5, <1>6, <1>7 DEF Range_
      <4> QED
        BY <4>3, <3>2, <2>3, <1>2, <1>3, <1>7 DEF HardwareNumKept
    <3> QED
      BY <3>1, <3>2
  <2>5. disturbed' \in BOOLEAN /\ (~disturbed' => ~disturbed /\ flash' = new)
    BY <2>1, <1>4
  <2>6. ASSUME ~disturbed', Fits(src), Erased, Done, Numbered PROVE Erased' /\ Done' /\ Numbered'
    <3>1. ASSUME NEW a \in Range_(s) PROVE a \in Addresses /\ flash'[a] = Right(a)
      <4>1. /\ a \in Nat /\ a < src.size /\ a \in Addresses
            /\ s.from + a - s.addr + 1 = a + 1
        BY <1>1, <1>2, <1>4, <2>6, ProgramWord
      <4>2. a \in 0 .. src.size - 1
        BY <4>1, <1>4, CountsOf
      <4>3. PICK k \in 1 .. n : a \in (k - 1) * BlockSize .. k * BlockSize - 1
        BY <4>2, <1>4, <1>5, <2>6, InBlock
      <4>4. u + k < step
        BY <1>5, <1>6
      <4>5. flash[a] \in {Blank, Right(a)}
        BY <4>1, <4>3, <4>4, <2>6, <1>5 DEF Erased
      <4>6. flash'[a] = Programmed(flash[a], Right(a))
        <5>1. new[a] = Programmed(flash[a], byte_swap(Word(src, s.from + a - s.addr + 1)))
          BY <4>1
        <5>2. byte_swap(Word(src, s.from + a - s.addr + 1)) = Right(a)
          BY <4>1 DEF Right
        <5> QED
          BY <5>1, <5>2, <2>5, <2>6
      <4> QED
        BY <4>1, <4>5, <4>6 DEF Programmed
    <3>2. \A a : Right(a)' = Right(a)
      BY <1>2 DEF Right
    <3>3. Erased'
      <4> SUFFICES ASSUME NEW k \in 1 .. n, u + k < step + 1,
                          NEW a \in (k - 1) * BlockSize .. k * BlockSize - 1, a < src.size
                   PROVE  flash'[a] \in {Blank, Right(a)}
        BY <1>2, <1>5, <1>9 DEF Erased, Right
      <4>1. u + k < step
        BY <1>5, <1>6
      <4>2. flash[a] \in {Blank, Right(a)}
        BY <4>1, <2>6, <1>5 DEF Erased
      <4>3. a \in Addresses
        <5>1. (k - 1) * BlockSize \in Nat /\ k * BlockSize \in Int
          BY <1>4, <1>5, <1>7, BlockEnds
        <5>2. a \in Nat
          BY <5>1
        <5>3. src.size \in Int /\ src.size <= LogicAt
          <6>1. PICK top \in Nat : top = NumberBank * BankSize
            BY <1>7
          <6> QED
            BY <2>6, <6>1, <1>7 DEF Fits
        <5> QED
          BY <5>2, <5>3, <1>7 DEF Addresses
      <4> QED
        BY <4>2, <4>3, <3>1, <2>3
    <3>4. Done'
      <4> SUFFICES ASSUME NEW t \in 1 .. step, Plan[src][t].do = "program",
                          NEW a \in Range_(Plan[src][t])
                   PROVE  flash'[a] = Right(a)
        BY <1>2, <1>4, <1>9 DEF Done, Right
      <4>1. t \in 1 .. Length(src)
        BY <1>4, LengthOf
      <4>2. a \in Addresses
        BY <4>1, <1>4, <2>6, ProgramWord
      <4>3. CASE t = step
        BY <4>3, <1>1, <3>1
      <4>4. CASE t # step
        <5>1. flash[a] = Right(a)
          BY <4>4, <2>6, <1>4 DEF Done
        <5> QED
          BY <5>1, <4>2, <3>1, <2>3
      <4> QED
        BY <4>3, <4>4
    <3>5. Numbered'
      <4>1. step + 1 # l - 2 /\ ~(step + 1 >= l - 1)
        BY <1>5, <1>6
      <4> QED
        BY <4>1, <1>2, <1>5, <1>9 DEF Numbered
    <3> QED
      BY <3>3, <3>4, <3>5
  <2>7. step < Length(src) - 1
    BY <1>5, <1>6
  <2> QED
    BY <1>2, <1>4, <1>5, <1>8, <1>9, <2>2, <2>4, <2>5, <2>6, <2>7, GoesInv
<1>10. CASE s.addr \notin Addresses
  <2>1. ~Fits(src)
    <3> SUFFICES ASSUME Fits(src) PROVE FALSE
      OBVIOUS
    <3>1. s.addr \in Range_(s)
      BY <1>6 DEF Range_
    <3> QED
      BY <3>1, <1>1, <1>2, <1>4, <1>10, ProgramWord
  <2> QED
    BY <1>2, <1>4, <1>10, <2>1, EndInv
<1> QED
  BY <1>9, <1>10

LEMMA NumberInv == IInv /\ word_program => IInv'
<1> SUFFICES ASSUME IInv, word_program PROVE IInv'
  OBVIOUS
<1> DEFINE read == Taken(src) + last_words(src)
           sn == IF read = src.size THEN Number(src) ELSE Word(src, read + 1)
<1>1. /\ step > 0 /\ Plan[src][step].do = "number" /\ UNCHANGED <<file, src, spoilt, compared, outcome>>
      /\ step' = step + 1
      /\ \/ flash' = [flash EXCEPT ![LogicAt] = Programmed(@, sn)] /\ disturbed' = disturbed
         \/ flash' = [flash EXCEPT ![LogicAt] = Junk] /\ disturbed' = TRUE
  BY DEF word_program, Now, Goes, NoFault, Fault, Same
<1>2. Types /\ Reach /\ HardwareNumKept
  BY DEF IInv
<1>3. src \in Files /\ step \in 1 .. Length(src) /\ disturbed \in BOOLEAN
  <2>1. src \in Files /\ step \in 0 .. Length(src) /\ disturbed \in BOOLEAN
    BY <1>2 DEF Types
  <2> QED
    BY <2>1, <1>1, LengthOf
<1>4. PICK u \in Nat, n \in Nat, e \in Nat, l \in Nat :
        /\ u = need_bank(src) /\ n = BlocksOf(src) /\ e = Start(src) /\ l = Length(src)
        /\ e = u + n /\ e + 4 <= l
  BY <1>3, LengthOf
<1>5. step = l - 2
  BY <1>1, <1>3, <1>4, StepOf
<1>6. /\ LogicAt \in Nat /\ LogicAt \in Addresses /\ HardwareAt = LogicAt + BlockSize
      /\ BlockSize \in Nat \ {0} /\ LogicAt = NumberBank * BankSize /\ Banks \in Nat
      /\ BankSize \in Nat /\ NumberBank \in Nat /\ HardwareAt \in Addresses
  BY SizesOf
<1>7. u <= Banks
  BY <1>1, <1>2, <1>4, <1>5, <1>6 DEF Reach
<1>8. sn \in Int
  <2>1. /\ src.version \in Int /\ src.size \in Int /\ Taken(src) \in Int
        /\ last_words(src) \in 1 .. BankSize
    BY <1>3, CountsOf
  <2>2. last_words(src) \in Int
    BY <2>1, <1>6
  <2> QED
    BY <2>1, <2>2 DEF Number, Word
<1> HIDE DEF sn
<1>9. PICK w \in Int : flash' = [flash EXCEPT ![LogicAt] = w]
  BY <1>1, <1>2, <1>8 DEF Programmed, Junk, Types
<1>10. flash' \in [Addresses -> Int] /\ \A a \in Addresses : a # LogicAt => flash'[a] = flash[a]
  BY <1>2, <1>9 DEF Types
<1>11. HardwareNumKept'
  BY <1>1, <1>2, <1>6, <1>10 DEF HardwareNumKept
<1>12. disturbed' \in BOOLEAN /\ (~disturbed' => ~disturbed)
  BY <1>1, <1>3
<1>13. ASSUME ~disturbed', Fits(src), Erased, Done, Numbered PROVE Erased' /\ Done' /\ Numbered'
  <2>1. src.size \in Int /\ src.size <= LogicAt
    <3>1. PICK top \in Nat : top = NumberBank * BankSize
      BY <1>6
    <3> QED
      BY <1>13, <3>1, <1>6 DEF Fits
  <2>2. \A a \in Nat : a < src.size => a \in Addresses /\ a # LogicAt
    <3>1. PICK top \in Nat : top = Banks * BankSize
      BY <1>6
    <3>2. Addresses = 0 .. top - 1
      BY <3>1 DEF Addresses
    <3> QED
      BY <3>2, <2>1, <1>6
  <2>3. Erased'
    <3> SUFFICES ASSUME NEW k \in 1 .. n,
                        NEW a \in (k - 1) * BlockSize .. k * BlockSize - 1, a < src.size
                 PROVE  flash'[a] \in {Blank, Right(a)}
      BY <1>1, <1>4 DEF Erased, Right
    <3>1. a \in Nat
      <4>1. (k - 1) * BlockSize \in Nat /\ k * BlockSize \in Int
        BY <1>3, <1>4, <1>6, BlockEnds
      <4> QED
        BY <4>1
    <3>2. u + k < step
      BY <1>4, <1>5
    <3>3. flash[a] \in {Blank, Right(a)}
      BY <3>2, <1>13, <1>4 DEF Erased
    <3> QED
      BY <3>1, <3>3, <2>2, <1>10
  <2>4. Done'
    <3> SUFFICES ASSUME NEW t \in 1 .. step, Plan[src][t].do = "program",
                        NEW a \in Range_(Plan[src][t])
                 PROVE  flash'[a] = Right(a)
      BY <1>1, <1>3 DEF Done, Right
    <3>1. t \in 1 .. Length(src)
      BY <1>3, LengthOf
    <3>2. a \in Nat /\ a < src.size
      BY <3>1, <1>3, <1>13, ProgramWord
    <3>3. t # step
      BY <1>1
    <3>4. flash[a] = Right(a)
      BY <3>3, <1>13, <1>3 DEF Done
    <3> QED
      BY <3>2, <3>4, <2>2, <1>10
  <2>5. Numbered'
    <3>1. flash[LogicAt] = Blank
      BY <1>4, <1>5, <1>13 DEF Numbered
    <3>2. sn = Number(src)
      BY <1>3, <1>13, FitsCounts DEF sn
    <3>3. flash' = [flash EXCEPT ![LogicAt] = Programmed(flash[LogicAt], sn)]
      BY <1>1, <1>13
    <3>4. flash'[LogicAt] = Number(src)
      BY <3>1, <3>2, <3>3, <1>2, <1>6 DEF Programmed, Types
    <3>5. step' # l - 2
      BY <1>1, <1>4, <1>5
    <3> QED
      BY <3>4, <3>5, <1>1, <1>4 DEF Numbered, Number
  <2> QED
    BY <2>3, <2>4, <2>5
<1>14. step < Length(src) - 1
  BY <1>4, <1>5
<1> QED
  BY <1>1, <1>3, <1>4, <1>7, <1>10, <1>11, <1>12, <1>13, <1>14, GoesInv

(* What is read back when the file fits and nothing has disturbed its      *)
(* update: every word of it was in a buffer.                               *)
LEMMA ReadBackIs ==
  ASSUME Types, Fits(src), Done, Numbered, step = Length(src) - 1
  PROVE  ReadBack(src) = Swapped(src) /\ Len(ReadBack(src)) = src.size + 1
<1>1. src \in Files
  BY DEF Types
<1>2. PICK z \in Nat : z = src.size /\ Taken(src) + last_words(src) = z
  <2>1. src.size \in Int /\ src.size >= 1
    <3>1. PICK top \in Nat : top = NumberBank * BankSize
      BY SizesOf
    <3> QED
      BY <3>1 DEF Fits
  <2> QED
    BY <2>1, <1>1, FitsCounts
<1>3. PICK e \in Nat, m \in Nat : e = Start(src) /\ m = Len(program(src)) /\ Length(src) = e + m + 4
  BY <1>1, LengthOf, PlanOf
<1>4. Covers(program(src), 0, z)
  BY <1>1, <1>2, FitsCounts, ProgramOf
<1>5. ASSUME NEW i \in 1 .. z PROVE flash[i - 1] = byte_swap(Word(src, i))
  <2>1. i - 1 \in 0 .. z - 1
    OBVIOUS
  <2>2. PICK j \in 1 .. m : i - 1 \in Range_(program(src)[j])
    BY <2>1, <1>3, <1>4 DEF Covers
  <2>3. PICK t \in e + 1 .. Length(src) - 4 : t = e + j
    BY <1>3
  <2>4. Plan[src][t] = program(src)[j]
    <3>1. Plan[src][t] = program(src)[t - e]
      BY <1>1, <1>3, PlanOf
    <3>2. t - e = j
      BY <2>3
    <3> QED
      BY <3>1, <3>2
  <2>5. t \in 1 .. Length(src) /\ t \in 1 .. step - 1
    BY <1>3
  <2>6. Plan[src][t].do = "program"
    BY <2>3, <2>5, <1>1, <1>3, StepOf
  <2>7. flash[i - 1] = Right(i - 1)
    BY <2>2, <2>4, <2>5, <2>6 DEF Done
  <2>8. i - 1 + 1 = i
    OBVIOUS
  <2> QED
    BY <2>7, <2>8 DEF Right
<1>6. flash[LogicAt] = Number(src)
  <2>1. step >= Length(src) - 1
    BY <1>3
  <2> QED
    BY <2>1 DEF Numbered
<1>7. ReadBack(src) = [i \in 1 .. z + 1 |-> IF i <= z THEN flash[i - 1] ELSE flash[LogicAt]]
  BY <1>2 DEF ReadBack
<1>8. Swapped(src) = [i \in 1 .. z + 1 |-> IF i <= z THEN byte_swap(Word(src, i)) ELSE Number(src)]
  BY <1>2 DEF Swapped
<1>9. ReadBack(src) = Swapped(src)
  <2>1. \A i \in 1 .. z + 1 : (IF i <= z THEN flash[i - 1] ELSE flash[LogicAt])
                              = (IF i <= z THEN byte_swap(Word(src, i)) ELSE Number(src))
    BY <1>5, <1>6
  <2> QED
    BY <2>1, <1>7, <1>8
<1>10. Len(ReadBack(src)) = z + 1
  BY <1>7
<1> QED
  BY <1>2, <1>9, <1>10

LEMMA CompareInv == IInv /\ compare_file_order => IInv'
<1> SUFFICES ASSUME IInv, compare_file_order PROVE IInv'
  OBVIOUS
<1>1. /\ step > 0 /\ Plan[src][step].do = "compare"
      /\ UNCHANGED <<flash, file, src, spoilt, disturbed>>
      /\ IF ~file.odd /\ file.size >= 0 /\ ReadBack(src) = Swapped(file)
         THEN step' = step + 1 /\ compared' = file /\ outcome' = outcome
         ELSE step' = 0 /\ outcome' = "error" /\ compared' = compared
  BY DEF compare_file_order, Now, Ends, NoFault, Same
<1>2. Types /\ Reach /\ HardwareNumKept /\ Undisturbed
  BY DEF IInv
<1>3. src \in Files /\ file \in Files /\ step \in 1 .. Length(src) /\ disturbed \in BOOLEAN
  <2>1. src \in Files /\ file \in Files /\ step \in 0 .. Length(src) /\ disturbed \in BOOLEAN
    BY <1>2 DEF Types
  <2> QED
    BY <2>1, <1>1, LengthOf
<1>4. PICK u \in Nat, l \in Nat : u = need_bank(src) /\ l = Length(src) /\ u + 4 <= l
  BY <1>3, LengthOf
<1>5. step = l - 1
  BY <1>1, <1>3, <1>4, StepOf
<1>6. CASE ~file.odd /\ file.size >= 0 /\ ReadBack(src) = Swapped(file)
  <2>1. step' = l /\ compared' = file /\ outcome' = outcome
    BY <1>1, <1>4, <1>5, <1>6
  <2>2. Types'
    <3>1. step' \in 0 .. Length(src)'
      BY <2>1, <1>1, <1>4
    <3>2. step' > 0 => ~src'.odd
      BY <1>1, <1>2 DEF Types
    <3>3. disturbed' \in BOOLEAN /\ spoilt' \in BOOLEAN
      BY <1>1, <1>2 DEF Types
    <3> QED
      BY <2>1, <3>1, <3>2, <3>3, <1>1, <1>2, <1>3 DEF Types
  <2>3. Verified'
    <3>1. file.size \in Nat
      BY <1>3, <1>6, CountsOf
    <3>2. ReadBack(src)' = Swapped(compared)'
      <4>1. ReadBack(src)' = ReadBack(src)
        BY <1>1 DEF ReadBack
      <4> QED
        BY <4>1, <1>6, <2>1
    <3> QED
      BY <3>1, <3>2, <2>1 DEF Verified
  <2>4. Reach'
    <3>1. Banks \in Nat
      BY SizesOf
    <3>2. u <= Banks
      BY <3>1, <1>1, <1>2, <1>4, <1>5 DEF Reach
    <3>3. u \in NumberBank + 1 .. Banks => spoilt
      BY <1>1, <1>2, <1>4 DEF Reach
    <3> QED
      BY <3>1, <3>2, <3>3, <1>1, <1>4 DEF Reach
  <2>5. HardwareNumKept'
    BY <1>1, <1>2 DEF HardwareNumKept
  <2>6. Undisturbed'
    <3> SUFFICES ASSUME ~disturbed, Fits(src)
                 PROVE  outcome' # "error" /\ src' = file' /\ Erased' /\ Done' /\ Numbered'
      BY <1>1 DEF Undisturbed
    <3>1. outcome # "error" /\ src = file /\ Erased /\ Done /\ Numbered
      BY <1>1, <1>2 DEF Undisturbed
    <3>2. Erased'
      <4>1. \A k \in 1 .. BlocksOf(src) : need_bank(src) + k < step
        <5>1. BlocksOf(src) \in Nat /\ need_bank(src) + BlocksOf(src) + 4 <= l
          BY <1>3, <1>4, LengthOf
        <5> QED
          BY <5>1, <1>4, <1>5
      <4> QED
        BY <4>1, <3>1, <1>1 DEF Erased, Right
    <3>3. Done'
      <4> SUFFICES ASSUME NEW t \in 1 .. step, Plan[src][t].do = "program",
                          NEW a \in Range_(Plan[src][t])
                   PROVE  flash[a] = Right(a)
        BY <1>1, <2>1, <1>4, <1>5 DEF Done, Right
      <4>1. t # step
        BY <1>1
      <4> QED
        BY <4>1, <3>1, <1>3 DEF Done
    <3>4. Numbered'
      <4>1. flash[LogicAt] = Number(src)
        BY <3>1, <1>4, <1>5 DEF Numbered
      <4>2. step' # l - 2
        BY <2>1, <1>4
      <4> QED
        BY <4>1, <4>2, <1>1, <1>4 DEF Numbered, Number
    <3> QED
      BY <3>1, <3>2, <3>3, <3>4, <2>1, <1>1
  <2> QED
    BY <2>2, <2>3, <2>4, <2>5, <2>6 DEF IInv
<1>7. CASE ~(~file.odd /\ file.size >= 0 /\ ReadBack(src) = Swapped(file))
  <2>1. step' = 0 /\ outcome' = "error" /\ compared' = compared
    BY <1>1, <1>7
  <2>2. ~(~disturbed' /\ Fits(src))
    <3> SUFFICES ASSUME ~disturbed, Fits(src) PROVE FALSE
      BY <1>1
    <3>1. src = file /\ Done /\ Numbered
      BY <1>1, <1>2 DEF Undisturbed
    <3>2. ReadBack(src) = Swapped(src)
      BY <3>1, <1>2, <1>4, <1>5, ReadBackIs
    <3>3. ~src.odd /\ src.size >= 0
      <4>1. PICK top \in Nat : top = NumberBank * BankSize
        BY SizesOf
      <4> QED
        BY <4>1 DEF Fits
    <3> QED
      BY <3>1, <3>2, <3>3, <1>7
  <2> QED
    BY <2>1, <2>2, <1>1, <1>3, EndInv
<1> QED
  BY <1>6, <1>7

LEMMA LastInv == IInv /\ (reconfig \/ exit \/ open_fails) => IInv'
<1> SUFFICES ASSUME IInv, reconfig \/ exit \/ open_fails PROVE IInv'
  OBVIOUS
<1>1. Types
  BY DEF IInv
<1>2. UNCHANGED <<flash, file, src, spoilt, compared>> /\ step' = 0
  BY DEF reconfig, exit, open_fails, Ends, Same
<1>3. disturbed' \in BOOLEAN /\ (~disturbed' => outcome' # "error")
  <2>1. CASE reconfig
    BY <2>1, <1>1 DEF reconfig, Ends, NoFault, Types
  <2>2. CASE exit
    BY <2>2 DEF exit, Fault
  <2>3. CASE open_fails
    BY <2>3 DEF open_fails, Fault
  <2> QED
    BY <2>1, <2>2, <2>3
<1> QED
  BY <1>2, <1>3, EndInv

LEMMA ReplaceInv == IInv /\ replace => IInv'
<1> SUFFICES ASSUME IInv, replace PROVE IInv'
  OBVIOUS
<1>1. Types /\ Verified /\ Reach /\ HardwareNumKept /\ Undisturbed
  BY DEF IInv
<1>2. /\ file' \in Files /\ disturbed' = (disturbed \/ step > 0)
      /\ UNCHANGED <<flash, src, step, compared, outcome, spoilt>>
  BY DEF replace
<1>3. Types'
  <2>1. disturbed' \in BOOLEAN /\ spoilt' \in BOOLEAN
    BY <1>1, <1>2 DEF Types
  <2> QED
    BY <2>1, <1>1, <1>2 DEF Types
<1>4. Verified' /\ Reach' /\ HardwareNumKept'
  BY <1>1, <1>2 DEF Verified, ReadBack, Swapped, Reach, HardwareNumKept
<1>5. Undisturbed'
  <2> SUFFICES ASSUME ~disturbed', Fits(src) PROVE outcome # "error" /\ ~(step > 0)
    BY <1>2 DEF Undisturbed
  <2> QED
    BY <1>1, <1>2 DEF Undisturbed
<1> QED
  BY <1>3, <1>4, <1>5 DEF IInv

LEMMA StutterInv == IInv /\ UNCHANGED vars => IInv'
<1> SUFFICES ASSUME IInv, UNCHANGED vars PROVE IInv'
  OBVIOUS
<1> QED
  BY DEF IInv, vars, Types, Verified, ReadBack, Swapped, Reach, HardwareNumKept,
         Undisturbed, Erased, Done, Numbered, Right, Number

LEMMA StepInv == IInv /\ [Next]_vars => IInv'
BY StartInv, UnlockInv, EraseInv, ProgramInv, NumberInv, CompareInv, LastInv, ReplaceInv,
   StutterInv DEF Next

-----------------------------------------------------------------------------
(* For flashes, files and numbers of updates of any size, whatever is cut  *)
(* off, written wrong or replaced: the invariant holds in every state.     *)
THEOREM Inductive == Spec => []IInv
BY InitInv, StepInv, PTL DEF Spec

(* A card is reconfigured only when its flash holds, word for word, the    *)
(* file it was compared with and the number of that file.                  *)
THEOREM WholeFile == Spec => []ReconfiguredWhole
<1>1. IInv => ReconfiguredWhole
  <2> SUFFICES ASSUME IInv, Now("reconfig")
               PROVE  /\ \A i \in 1 .. compared.size : flash[i - 1] = byte_swap(Word(compared, i))
                      /\ flash[LogicAt] = Number(compared)
    BY DEF ReconfiguredWhole
  <2>1. Types /\ Verified
    BY DEF IInv
  <2>2. src \in Files /\ step \in 1 .. Length(src) /\ Plan[src][step].do = "reconfig"
    <3>1. src \in Files /\ step \in 0 .. Length(src) /\ step > 0
      BY <2>1 DEF Types, Now
    <3> QED
      BY <3>1, LengthOf DEF Now
  <2>3. step > 0 /\ step = Length(src)
    BY <2>2, StepOf, LengthOf
  <2>4. PICK z \in Nat : z = compared.size
    BY <2>1, <2>3 DEF Verified
  <2>5. ReadBack(src) = Swapped(compared)
    BY <2>1, <2>3 DEF Verified
  <2>6. PICK n \in Nat : n = Taken(src) + last_words(src)
    <3>1. Taken(src) \in Nat /\ last_words(src) \in 1 .. BankSize /\ BankSize \in Nat
      BY <2>2, CountsOf, SizesOf
    <3> QED
      BY <3>1
  <2>7. ReadBack(src) = [i \in 1 .. n + 1 |-> IF i <= n THEN flash[i - 1] ELSE flash[LogicAt]]
    BY <2>6 DEF ReadBack
  <2>8. Swapped(compared)
          = [i \in 1 .. z + 1 |-> IF i <= z THEN byte_swap(Word(compared, i)) ELSE Number(compared)]
    BY <2>4 DEF Swapped
  <2>9. n = z
    <3>1. 1 .. n + 1 = 1 .. z + 1
      BY <2>5, <2>7, <2>8
    <3>2. n + 1 \in 1 .. z + 1 /\ z + 1 \in 1 .. n + 1
      BY <3>1
    <3> QED
      BY <3>2
  <2>10. \A i \in 1 .. z + 1 :
           (IF i <= z THEN flash[i - 1] ELSE flash[LogicAt])
             = (IF i <= z THEN byte_swap(Word(compared, i)) ELSE Number(compared))
    BY <2>5, <2>7, <2>8, <2>9
  <2>11. \A i \in 1 .. z : flash[i - 1] = byte_swap(Word(compared, i))
    BY <2>10
  <2>12. flash[LogicAt] = Number(compared)
    <3>1. z + 1 \in 1 .. z + 1 /\ ~(z + 1 <= z)
      OBVIOUS
    <3> QED
      BY <3>1, <2>10
  <2> QED
    BY <2>4, <2>11, <2>12
<1> QED
  BY <1>1, Inductive, PTL

(* Whatever was left in the flash, an update that nothing disturbs does    *)
(* not fail for a file that fits.                                          *)
THEOREM TriedAgain == Spec => []TryAgainSucceeds
<1>1. IInv => TryAgainSucceeds
  <2> SUFFICES ASSUME IInv, outcome = "error", ~disturbed
               PROVE  src.odd \/ src.size \notin 1 .. NumberBank * BankSize
    BY DEF TryAgainSucceeds
  <2>1. ~Fits(src)
    BY DEF IInv, Undisturbed
  <2> QED
    BY <2>1 DEF Fits
<1> QED
  BY <1>1, Inductive, PTL

(* The hardware number survives every update but those that were noted.    *)
THEOREM NumberKept == Spec => []HardwareNumKept
<1>1. IInv => HardwareNumKept
  BY DEF IInv
<1> QED
  BY <1>1, Inductive, PTL
=============================================================================
