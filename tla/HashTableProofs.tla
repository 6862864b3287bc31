-------------------------- MODULE HashTableProofs --------------------------
(***************************************************************************)
(* Proofs about HashTable: for any number of keys, values, bins and        *)
(* addresses, every allocated entry hangs in one chain, that of its key,   *)
(* at one place, and the cursor that a client holds between two requests   *)
(* points into the chain of its bin.  And the table implements the map of  *)
(* module KeyStore: the search lists every entry that matches, once.       *)
(*                                                                         *)
(* The invariant names the chains: a sequence of addresses for each bin,   *)
(* of which the pointers of table and heap are one spelling (Hangs).  The  *)
(* recursive functions of the model, Node along the pointers of a bin and  *)
(* Seek along the bins, are shown to be what those sequences say.          *)
(***************************************************************************)
EXTENDS HashTable, FiniteSetTheorems, WellFoundedInduction, TLAPS

-----------------------------------------------------------------------------
(* Induction over a set of numbers, from the least number outside it.      *)
LEMMA NatInd ==
  ASSUME NEW S, 0 \in S, \A n \in Nat : n \in S => n + 1 \in S
  PROVE  Nat \subseteq S
<1> DEFINE T == {n \in Nat : n \notin S}
<1> SUFFICES ASSUME T # {} PROVE FALSE
  OBVIOUS
<1>1. IsWellFoundedOn(OpToRel(<, Nat), Nat)
  BY NatLessThanWellFounded
<1>2. PICK n \in T : \A m \in T : <<m, n>> \notin OpToRel(<, Nat)
  BY <1>1, WFMin
<1>3. \A m \in T : ~(m < n)
  BY <1>2 DEF OpToRel
<1>4. n # 0 /\ n - 1 \in Nat
  OBVIOUS
<1>5. n - 1 \notin T
  BY <1>3, <1>4
<1>6. n - 1 \in S /\ n - 1 + 1 = n
  BY <1>4, <1>5
<1> QED
  BY <1>4, <1>6

(* Every set of numbers has a least one.                                   *)
LEMMA Least ==
  ASSUME NEW S, S \subseteq Nat, S # {}
  PROVE  \E n \in S : \A m \in S : n <= m
<1>1. IsWellFoundedOn(OpToRel(<, Nat), Nat)
  BY NatLessThanWellFounded
<1>2. PICK n \in S : \A m \in S : <<m, n>> \notin OpToRel(<, Nat)
  BY <1>1, WFMin
<1>3. \A m \in S : ~(m < n)
  BY <1>2 DEF OpToRel
<1> QED
  BY <1>3

-----------------------------------------------------------------------------
N == Cardinality(Addrs)
Pointers == Addrs \cup {Null}
Entries == [key : Keys, value : Values, next : Pointers]
(* The pointer at place i of a chain: an address, and Null behind the end. *)
Nth(q, i) == IF i \in 1 .. Len(q) THEN q[i] ELSE Null

(* The chains ch are what the heads t and the heap h spell.                *)
Held(h, b, q) ==
  \A i \in 1 .. Len(q) :
    /\ h[q[i]] \in Entries
    /\ HASH[h[q[i]].key] = b
    /\ h[q[i]].next = Nth(q, i + 1)
Distinct(h, q) == \A i, j \in 1 .. Len(q) : h[q[i]].key = h[q[j]].key => i = j
Hangs(ch, t, h) ==
  /\ ch \in [Bins -> Seq(Addrs)]
  /\ t = [b \in Bins |-> Nth(ch[b], 1)]
  /\ h \in [Addrs -> Entries \cup {Free}]
  /\ \A b \in Bins : Held(h, b, ch[b]) /\ Distinct(h, ch[b])
  /\ \A a \in Addrs : h[a] # Free => \E b \in Bins : \E i \in 1 .. Len(ch[b]) : ch[b][i] = a

(* No entry of a key looks like free memory.                               *)
LEMMA FreeIsNone == Free \notin Entries
  BY HashAssumption DEF Free, Entries

(* The heap has a number of addresses.                                     *)
LEMMA NatN == N \in Nat /\ Positions = 0 .. N
  BY HashAssumption, FS_CardinalityType DEF N, Positions

(* A chain is not longer than the heap has addresses.                      *)
LEMMA ChainFits ==
  ASSUME NEW ch, NEW t, NEW h, Hangs(ch, t, h), NEW b \in Bins
  PROVE  /\ ch[b] \in Seq(Addrs) /\ Len(ch[b]) \in Nat /\ Len(ch[b]) <= N
         /\ \A i, j \in 1 .. Len(ch[b]) : ch[b][i] = ch[b][j] => i = j
<1>1. ch[b] \in Seq(Addrs) /\ Distinct(h, ch[b])
  BY DEF Hangs
<1> DEFINE q == ch[b]
<1>2. q \in Seq(Addrs) /\ Len(q) \in Nat
  BY <1>1
<1>3. \A i, j \in 1 .. Len(q) : q[i] = q[j] => i = j
  BY <1>1 DEF Distinct
<1> HIDE DEF q
<1>4. q \in Injection(1 .. Len(q), Addrs)
  BY <1>2, <1>3 DEF Injection, IsInjective
<1>5. Cardinality(1 .. Len(q)) <= Cardinality(Addrs)
  BY <1>4, FS_Injection, HashAssumption
<1>6. Cardinality(1 .. Len(q)) = Len(q)
  BY <1>2, FS_Interval, SMTT(30)
<1> QED
  BY <1>2, <1>3, <1>5, <1>6 DEF N, q

(* The recursive function along the pointers of a bin is its chain.        *)
LEMMA NodeIs ==
  ASSUME NEW ch, Hangs(ch, table, heap), NEW b \in Bins
  PROVE  Node(b) = [i \in Positions |-> Nth(ch[b], i + 1)]
<1> DEFINE q == ch[b]
           Body(n) == [i \in Positions |-> IF i = 0 THEN table[b] ELSE Link(n[i - 1])]
           g == [i \in Positions |-> Nth(q, i + 1)]
<1>1. q \in Seq(Addrs) /\ Len(q) \in Nat /\ Held(heap, b, q) /\ table[b] = Nth(q, 1)
  BY DEF Hangs
<1>2. \A i \in Positions : i # 0 => i \in Nat /\ i - 1 \in Positions
  BY NatN
<1> HIDE DEF q
<1>3. \A i \in Nat : Link(Nth(q, i + 1)) = Nth(q, i + 2)
  <2> TAKE i \in Nat
  <2>1. CASE i + 1 \in 1 .. Len(q)
    <3>1. Nth(q, i + 1) = q[i + 1] /\ q[i + 1] \in Addrs
      BY <1>1, <2>1 DEF Nth
    <3>2. heap[q[i + 1]].next = Nth(q, (i + 1) + 1)
      BY <1>1, <2>1 DEF Held
    <3>3. (i + 1) + 1 = i + 2 /\ q[i + 1] # Null
      BY <3>1, HashAssumption
    <3> QED
      BY <3>1, <3>2, <3>3 DEF Link
  <2>2. CASE i + 1 \notin 1 .. Len(q)
    <3>1. i + 2 \notin 1 .. Len(q)
      BY <1>1, <2>2
    <3> QED
      BY <2>2, <3>1 DEF Nth, Link
  <2> QED
    BY <2>1, <2>2
<1>4. g = Body(g)
  <2> SUFFICES ASSUME NEW i \in Positions
               PROVE  g[i] = IF i = 0 THEN table[b] ELSE Link(g[i - 1])
    OBVIOUS
  <2>1. CASE i = 0
    BY <1>1, <2>1
  <2>2. CASE i # 0
    <3>1. i - 1 \in Positions /\ i - 1 \in Nat /\ i \in Nat
      BY <1>2, <2>2, NatN
    <3>2. PICK j \in Nat : j = i - 1 /\ j + 1 = i /\ j + 2 = i + 1
      BY <3>1
    <3>3. Link(Nth(q, j + 1)) = Nth(q, j + 2)
      BY <1>3
    <3> QED
      BY <2>2, <3>1, <3>2, <3>3
  <2> QED
    BY <2>1, <2>2
<1> DEFINE f == CHOOSE n : n = Body(n)
<1>5. f = Body(f)
  BY <1>4
<1>6. Node(b) = f
  BY DEF Node
<1> HIDE DEF f
<1> DEFINE S == {i \in Nat : i \in Positions => f[i] = Nth(q, i + 1)}
<1>7. 0 \in S
  BY <1>1, <1>5, NatN
<1>8. \A i \in Nat : i \in S => i + 1 \in S
  <2> SUFFICES ASSUME NEW i \in Nat, i \in S, i + 1 \in Positions
               PROVE  f[i + 1] = Nth(q, (i + 1) + 1)
    OBVIOUS
  <2>1. i \in Positions /\ i + 1 # 0 /\ (i + 1) - 1 = i /\ (i + 1) + 1 = i + 2
    BY NatN
  <2>2. f[i + 1] = Link(f[i])
    BY <1>5, <2>1
  <2> QED
    BY <1>3, <2>1, <2>2
<1> HIDE DEF Body
<1>9. Nat \subseteq S
  BY <1>7, <1>8, NatInd
<1>10. \A i \in Positions : f[i] = Nth(q, i + 1)
  BY <1>9, NatN
<1>11. f = [i \in Positions |-> f[i]]
  BY <1>5 DEF Body
<1> QED
  BY <1>6, <1>10, <1>11 DEF q

(* The place of a key: its entry and the one before it, or the end of the  *)
(* chain, which then does not have the key.                                *)
LEMMA PlaceIs ==
  ASSUME NEW ch, Hangs(ch, table, heap), NEW k \in Keys
  PROVE  LET q == ch[HASH[k]] IN
         /\ \/ /\ hash_lookup(k) = Null
               /\ \A i \in 1 .. Len(q) : heap[q[i]].key # k
            \/ \E p \in 1 .. Len(q) :
                 /\ hash_lookup(k) = q[p] /\ q[p] \in Addrs /\ heap[q[p]].key = k
                 /\ Prev(k) = Nth(q, p - 1)
<1> DEFINE b == HASH[k]
           q == ch[b]
           n == Node(b)
           stops(i) == n[i] = Null \/ heap[n[i]].key = k
           First(i) == stops(i) /\ \A j \in 0 .. i - 1 : ~stops(j)
<1>1. b \in Bins
  BY HashAssumption DEF Bins
<1>2. q \in Seq(Addrs) /\ Len(q) \in Nat /\ Len(q) <= N
  BY <1>1, ChainFits
<1>3. \A i \in 0 .. N : n[i] = Nth(q, i + 1)
  BY <1>1, NodeIs, NatN
<1>4. Place(k) = CHOOSE i \in Positions : First(i)
  BY DEF Place
<1>5. hash_lookup(k) = n[Place(k)] /\ Prev(k) = IF Place(k) = 0 THEN Null ELSE n[Place(k) - 1]
  BY DEF hash_lookup, Prev
<1> HIDE DEF b, q, n
<1>6. stops(N)
  <2>1. N + 1 \notin 1 .. Len(q) /\ N \in 0 .. N
    BY <1>2, NatN
  <2> QED
    BY <1>3, <2>1 DEF Nth
<1>7. \E i \in Positions : First(i)
  <2> DEFINE S == {i \in Positions : stops(i)}
  <2>1. S \subseteq Nat /\ S # {}
    BY <1>6, NatN
  <2> HIDE DEF stops
  <2>2. PICK i \in S : \A j \in S : i <= j
    BY <2>1, Least
  <2>3. \A j \in 0 .. i - 1 : j \in Positions /\ ~(i <= j)
    BY <2>1, <2>2, NatN
  <2> QED
    BY <2>2, <2>3
<1>8. Place(k) \in Positions /\ First(Place(k))
  BY <1>4, <1>7
<1> DEFINE p == Place(k)
<1> HIDE DEF First
<1>9. PICK m \in 0 .. N : m = Place(k) /\ First(m)
  BY <1>8, NatN
<1>10. n[m] = Nth(q, m + 1) /\ m \in Nat
  BY <1>3, <1>9, NatN
<1>11. CASE m + 1 \in 1 .. Len(q)
  <2>1. n[m] = q[m + 1] /\ q[m + 1] \in Addrs /\ q[m + 1] # Null
    BY <1>2, <1>10, <1>11, HashAssumption DEF Nth
  <2>2. heap[q[m + 1]].key = k
    BY <1>9, <2>1 DEF First
  <2>3. Prev(k) = Nth(q, (m + 1) - 1)
    <3>1. CASE m = 0
      BY <1>5, <1>9, <3>1 DEF Nth
    <3>2. CASE m # 0
      <4>1. m - 1 \in 0 .. N /\ (m - 1) + 1 = m /\ (m + 1) - 1 = m
        BY <3>2, NatN
      <4>2. n[m - 1] = Nth(q, (m - 1) + 1)
        BY <1>3, <4>1
      <4> QED
        BY <1>5, <1>9, <3>2, <4>1, <4>2
    <3> QED
      BY <3>1, <3>2
  <2>4. hash_lookup(k) = q[m + 1]
    BY <1>5, <1>9, <2>1
  <2>5. \E r \in 1 .. Len(q) : /\ hash_lookup(k) = q[r] /\ q[r] \in Addrs /\ heap[q[r]].key = k
                              /\ Prev(k) = Nth(q, r - 1)
    BY <1>11, <2>1, <2>2, <2>3, <2>4
  <2> QED
    BY <2>5 DEF q, b
<1>12. CASE m + 1 \notin 1 .. Len(q)
  <2>1. hash_lookup(k) = Null
    BY <1>5, <1>9, <1>10, <1>12 DEF Nth
  <2>2. ASSUME NEW i \in 1 .. Len(q) PROVE heap[q[i]].key # k
    <3>1. PICK j \in Nat : j = i - 1 /\ j + 1 = i
      BY <1>2
    <3>2. j \in 0 .. m - 1 /\ j \in 0 .. N
      BY <1>2, <1>10, <1>12, <3>1, NatN
    <3>3. ~stops(j)
      BY <1>9, <3>2 DEF First
    <3>4. n[j] = q[i]
      BY <1>3, <3>1, <3>2 DEF Nth
    <3> QED
      BY <3>3, <3>4
  <2> QED
    BY <2>1, <2>2 DEF q, b
<1> QED
  BY <1>11, <1>12

(* Taking the entry at place p out of the chain of b: the one before it,   *)
(* or the head of the bin, points behind it, and it is freed.              *)
Taken(ch, t, h, b, p, t1, h1) ==
  /\ Hangs(ch, t, h) /\ b \in Bins /\ p \in 1 .. Len(ch[b])
  /\ t1 = IF p = 1 THEN [t EXCEPT ![b] = h[ch[b][p]].next] ELSE t
  /\ h1 = IF p = 1 THEN [h EXCEPT ![ch[b][p]] = Free]
          ELSE [h EXCEPT ![ch[b][p - 1]].next = h[ch[b][p]].next, ![ch[b][p]] = Free]

(* The other entries still hang together, and none has the key.            *)
LEMMA Unlinks ==
  ASSUME NEW ch, NEW t, NEW h, NEW b, NEW p, NEW t1, NEW h1, Taken(ch, t, h, b, p, t1, h1)
  PROVE  \E c1 : /\ Hangs(c1, t1, h1)
                 /\ \A i \in 1 .. Len(c1[b]) : h1[c1[b][i]].key # h[ch[b][p]].key
<1>a. /\ Hangs(ch, t, h) /\ b \in Bins /\ p \in 1 .. Len(ch[b])
      /\ t1 = IF p = 1 THEN [t EXCEPT ![b] = h[ch[b][p]].next] ELSE t
      /\ h1 = IF p = 1 THEN [h EXCEPT ![ch[b][p]] = Free]
              ELSE [h EXCEPT ![ch[b][p - 1]].next = h[ch[b][p]].next, ![ch[b][p]] = Free]
  BY DEF Taken
<1> USE <1>a
<1> DEFINE q == ch[b]
           old == q[p]
           Src(i) == IF i < p THEN i ELSE i + 1
           r == [i \in 1 .. Len(q) - 1 |-> q[Src(i)]]
           c1 == [ch EXCEPT ![b] = r]
<1>1. /\ q \in Seq(Addrs) /\ Len(q) \in Nat
      /\ \A i, j \in 1 .. Len(q) : q[i] = q[j] => i = j
  BY ChainFits
<1>2. /\ ch \in [Bins -> Seq(Addrs)]
      /\ t = [c \in Bins |-> Nth(ch[c], 1)]
      /\ h \in [Addrs -> Entries \cup {Free}]
      /\ Held(h, b, q) /\ Distinct(h, q)
      /\ \A c \in Bins : Held(h, c, ch[c]) /\ Distinct(h, ch[c])
      /\ \A a \in Addrs : h[a] # Free => \E c \in Bins : \E i \in 1 .. Len(ch[c]) : ch[c][i] = a
  BY DEF Hangs
<1>3. p \in 1 .. Len(q) /\ old \in Addrs /\ old = q[p]
  BY <1>1
<1>4. /\ t1 = IF p = 1 THEN [t EXCEPT ![b] = h[old].next] ELSE t
      /\ h1 = IF p = 1 THEN [h EXCEPT ![old] = Free]
              ELSE [h EXCEPT ![q[p - 1]].next = h[old].next, ![old] = Free]
  OBVIOUS
<1>5. c1 = [ch EXCEPT ![b] = r] /\ r = [i \in 1 .. Len(q) - 1 |-> q[Src(i)]]
  OBVIOUS
<1>6. SUFFICES Hangs(c1, t1, h1) /\ \A i \in 1 .. Len(c1[b]) : h1[c1[b][i]].key # h[old].key
  OBVIOUS
<1>7. q = ch[b]
  OBVIOUS
<1> HIDE DEF q, old, r, c1
<1>8. \A i \in 1 .. Len(q) - 1 : Src(i) \in 1 .. Len(q) /\ Src(i) # p
  BY <1>1, <1>3
<1>9. \A i, j \in 1 .. Len(q) - 1 : Src(i) = Src(j) => i = j
  BY <1>1, <1>3
<1> HIDE DEF Src
<1>10. r \in Seq(Addrs) /\ Len(r) = Len(q) - 1 /\ Len(q) - 1 \in Nat /\ \A i \in 1 .. Len(q) - 1 : r[i] = q[Src(i)]
  <2>1. r \in [1 .. Len(q) - 1 -> Addrs] /\ Len(q) - 1 \in Nat
    BY <1>1, <1>3, <1>5, <1>8
  <2>2. r \in Seq(Addrs) /\ Len(r) = Len(q) - 1
    BY <2>1, SMTT(30)
  <2> QED
    BY <1>5, <2>1, <2>2
<1>11. /\ c1 \in [Bins -> Seq(Addrs)] /\ c1[b] = r
       /\ \A c \in Bins : c # b => c1[c] = ch[c]
  BY <1>2, <1>5, <1>10
(* What the heap has at each address afterwards.                           *)
<1>12. /\ h1 \in [Addrs -> Entries \cup {Free}]
       /\ h1[old] = Free
       /\ \A a \in Addrs \ {old} : p = 1 \/ a # q[p - 1] => h1[a] = h[a]
       /\ p # 1 => /\ q[p - 1] # old /\ q[p - 1] \in Addrs
                   /\ h1[q[p - 1]] = [h[q[p - 1]] EXCEPT !.next = h[old].next]
                   /\ h1[q[p - 1]] \in Entries
  <2>1. CASE p = 1
    BY <1>2, <1>3, <1>4, <2>1
  <2>2. CASE p # 1
    <3>1. PICK l \in 1 .. Len(q) : l = p - 1 /\ l # p
      BY <1>1, <1>3, <2>2
    <3>2. q[l] # old /\ q[l] \in Addrs
      BY <1>1, <1>3, <3>1
    <3>3. h1 = [h EXCEPT ![q[l]].next = h[old].next, ![old] = Free]
      BY <1>4, <2>2, <3>1
    <3>4. h[q[l]] \in Entries /\ h[old] \in Entries
      BY <1>2, <1>3 DEF Held
    <3>5. [h[q[l]] EXCEPT !.next = h[old].next] \in Entries
      BY <3>4 DEF Entries
    <3>6. h1 = [a \in Addrs |-> IF a = old THEN Free
                               ELSE IF a = q[l] THEN [h[q[l]] EXCEPT !.next = h[old].next] ELSE h[a]]
      BY <1>2, <1>3, <3>2, <3>3
    <3> HIDE DEF Entries
    <3>7. h1 \in [Addrs -> Entries \cup {Free}]
      BY <1>2, <3>5, <3>6
    <3>8. /\ h1[old] = Free /\ h1[q[l]] = [h[q[l]] EXCEPT !.next = h[old].next]
          /\ \A a \in Addrs \ {old} : a # q[l] => h1[a] = h[a]
      BY <1>3, <3>2, <3>6
    <3> QED
      BY <2>2, <3>1, <3>2, <3>5, <3>7, <3>8
  <2> QED
    BY <2>1, <2>2
<1>13. \A c \in Bins : c # b => /\ \A i \in 1 .. Len(ch[c]) : h1[ch[c][i]] = h[ch[c][i]]
  <2> SUFFICES ASSUME NEW c \in Bins, c # b, NEW i \in 1 .. Len(ch[c])
               PROVE  h1[ch[c][i]] = h[ch[c][i]]
    OBVIOUS
  <2>1. ch[c][i] \in Addrs /\ HASH[h[ch[c][i]].key] = c
    BY <1>2 DEF Held
  <2>2. \A j \in 1 .. Len(q) : ch[c][i] # q[j]
    BY <1>2, <2>1, SMTT(30) DEF Held
  <2>3. p # 1 => p - 1 \in 1 .. Len(q)
    BY <1>1, <1>3
  <2>4. ch[c][i] # old /\ (p = 1 \/ ch[c][i] # q[p - 1])
    BY <1>3, <2>2, <2>3
  <2> QED
    BY <1>12, <2>1, <2>4
(* The chain of b: every entry keeps its key, the one before old its next. *)
<1>14. ASSUME NEW i \in 1 .. Len(r)
       PROVE  /\ r[i] \in Addrs /\ r[i] = q[Src(i)] /\ r[i] # old
              /\ h1[r[i]] \in Entries /\ h1[r[i]].key = h[q[Src(i)]].key
              /\ h1[r[i]].next = Nth(r, i + 1)
  <2>1. i \in 1 .. Len(q) - 1 /\ Src(i) \in 1 .. Len(q) /\ Src(i) # p /\ i \in Nat
    BY <1>8, <1>10
  <2>2. r[i] = q[Src(i)] /\ r[i] \in Addrs /\ r[i] # old
    BY <1>1, <1>3, <1>10, <2>1
  <2>3. h[q[Src(i)]] \in Entries /\ h[q[Src(i)]].next = Nth(q, Src(i) + 1)
    BY <1>2, <2>1 DEF Held
  <2>4. h[old].next = Nth(q, p + 1)
    BY <1>2, <1>3 DEF Held
  <2>5. CASE i = p - 1
    <3>1. p # 1 /\ Src(i) = i /\ q[p - 1] = r[i]
      BY <1>1, <1>3, <2>1, <2>2, <2>5 DEF Src
    <3>2. h1[r[i]] = [h[q[Src(i)]] EXCEPT !.next = Nth(q, p + 1)] /\ h1[r[i]] \in Entries
      BY <1>12, <2>2, <2>4, <3>1
    <3>3. h1[r[i]].key = h[q[Src(i)]].key /\ h1[r[i]].next = Nth(q, p + 1)
      <4>1. PICK e \in Entries : e = h[q[Src(i)]]
        BY <2>3
      <4>2. PICK x : x = Nth(q, p + 1)
        OBVIOUS
      <4>3. h1[r[i]] = [e EXCEPT !.next = x]
        BY <3>2, <4>1, <4>2
      <4>4. [e EXCEPT !.next = x].key = e.key /\ [e EXCEPT !.next = x].next = x
        BY DEF Entries
      <4> QED
        BY <4>1, <4>2, <4>3, <4>4
    <3>4. Nth(q, p + 1) = Nth(r, i + 1)
      <4>1. i + 1 = p
        BY <1>3, <2>5
      <4>2. CASE p \in 1 .. Len(q) - 1
        <5>1. Src(p) = p + 1 /\ p + 1 \in 1 .. Len(q) /\ p \in 1 .. Len(r)
          BY <1>1, <1>3, <1>10, <4>2 DEF Src
        <5>2. r[p] = q[p + 1]
          BY <1>10, <4>2, <5>1
        <5> QED
          BY <4>1, <5>1, <5>2 DEF Nth
      <4>3. CASE p \notin 1 .. Len(q) - 1
        BY <1>1, <1>3, <1>10, <4>1, <4>3 DEF Nth
      <4> QED
        BY <4>2, <4>3
    <3> QED
      BY <2>2, <3>2, <3>3, <3>4
  <2>6. CASE i # p - 1
    <3>1. p = 1 \/ r[i] # q[p - 1]
      <4>1. Src(i) # p - 1
        BY <1>3, <2>1, <2>6 DEF Src
      <4>2. p # 1 => p - 1 \in 1 .. Len(q)
        BY <1>1, <1>3
      <4> QED
        BY <1>1, <2>1, <2>2, <4>1, <4>2
    <3>2. h1[r[i]] = h[q[Src(i)]]
      BY <1>12, <2>2, <3>1
    <3>3. Nth(q, Src(i) + 1) = Nth(r, i + 1)
      <4>1. CASE i < p
        <5>1. Src(i) = i /\ i + 1 < p /\ i + 1 \in 1 .. Len(q) - 1
          BY <1>1, <1>3, <2>1, <2>6, <4>1 DEF Src
        <5>2. Src(i + 1) = i + 1 /\ r[i + 1] = q[Src(i + 1)]
          BY <1>10, <5>1 DEF Src
        <5> QED
          BY <1>1, <1>10, <5>1, <5>2 DEF Nth
      <4>2. CASE ~(i < p)
        <5>1. Src(i) = i + 1 /\ Src(i + 1) = (i + 1) + 1
          BY <1>3, <2>1, <4>2 DEF Src
        <5>2. CASE i + 1 \in 1 .. Len(q) - 1
          <6>1. r[i + 1] = q[(i + 1) + 1] /\ (i + 1) + 1 \in 1 .. Len(q)
            BY <1>1, <1>10, <2>1, <5>1, <5>2, SMTT(30)
          <6> QED
            BY <1>10, <5>1, <5>2, <6>1 DEF Nth
        <5>3. CASE i + 1 \notin 1 .. Len(q) - 1
          <6>1. (i + 1) + 1 \notin 1 .. Len(q)
            BY <1>1, <2>1, <5>3
          <6> QED
            BY <1>10, <5>1, <5>3, <6>1 DEF Nth
        <5> QED
          BY <5>2, <5>3
      <4> QED
        BY <4>1, <4>2
    <3> QED
      BY <2>2, <2>3, <3>2, <3>3
  <2> QED
    BY <2>5, <2>6
<1>15. Held(h1, b, r)
  <2> SUFFICES ASSUME NEW i \in 1 .. Len(r)
               PROVE  h1[r[i]] \in Entries /\ HASH[h1[r[i]].key] = b /\ h1[r[i]].next = Nth(r, i + 1)
    BY DEF Held
  <2>1. Src(i) \in 1 .. Len(q)
    BY <1>8, <1>10
  <2>2. HASH[h[q[Src(i)]].key] = b
    BY <1>2, <2>1 DEF Held
  <2> QED
    BY <1>14, <2>2
<1>16. Distinct(h1, r)
  <2> SUFFICES ASSUME NEW i \in 1 .. Len(r), NEW j \in 1 .. Len(r), h1[r[i]].key = h1[r[j]].key
               PROVE  i = j
    BY DEF Distinct
  <2>1. h[q[Src(i)]].key = h[q[Src(j)]].key
    BY <1>14
  <2>2. i \in 1 .. Len(q) - 1 /\ j \in 1 .. Len(q) - 1
    BY <1>10
  <2>3. Src(i) = Src(j)
    BY <1>2, <1>8, <2>1, <2>2 DEF Distinct
  <2> QED
    BY <1>9, <2>2, <2>3
<1>17. \A i \in 1 .. Len(r) : h1[r[i]].key # h[old].key
  <2> SUFFICES ASSUME NEW i \in 1 .. Len(r), h[q[Src(i)]].key = h[old].key
               PROVE  FALSE
    BY <1>14
  <2>1. Src(i) \in 1 .. Len(q) /\ Src(i) # p
    BY <1>8, <1>10
  <2> QED
    BY <1>2, <1>3, <2>1 DEF Distinct
<1>18. \A c \in Bins : Held(h1, c, c1[c]) /\ Distinct(h1, c1[c])
  <2> SUFFICES ASSUME NEW c \in Bins, c # b
               PROVE  Held(h1, c, c1[c]) /\ Distinct(h1, c1[c])
    BY <1>11, <1>15, <1>16
  <2>1. Held(h, c, ch[c]) /\ Distinct(h, ch[c]) /\ c1[c] = ch[c]
    BY <1>2, <1>11
  <2>2. \A i \in 1 .. Len(ch[c]) : h1[ch[c][i]] = h[ch[c][i]]
    BY <1>13
  <2>3. Held(h1, c, ch[c])
    BY <2>1, <2>2 DEF Held
  <2>4. Distinct(h1, ch[c])
    BY <2>1, <2>2 DEF Distinct
  <2> QED
    BY <2>1, <2>3, <2>4
<1>19. t1 = [c \in Bins |-> Nth(c1[c], 1)]
  <2>1. t1[b] = Nth(r, 1) /\ t1 \in [Bins -> Pointers]
    <3>1. t \in [Bins -> Pointers] /\ t[b] = Nth(q, 1)
      <4>1. \A c \in Bins : Nth(ch[c], 1) \in Pointers
        BY <1>2 DEF Nth, Pointers
      <4> QED
        BY <1>2, <1>7, <4>1
    <3>2. CASE p = 1
      <4>1. h[old].next = Nth(q, 2)
        <5>1. 1 \in 1 .. Len(q) /\ old = q[1]
          BY <1>3, <3>2
        <5>2. h[q[1]].next = Nth(q, 1 + 1)
          BY <1>2, <5>1 DEF Held
        <5> QED
          BY <5>1, <5>2
      <4>2. Nth(q, 2) = Nth(r, 1)
        <5>1. CASE 1 \in 1 .. Len(q) - 1
          BY <1>1, <1>10, <3>2, <5>1, SMTT(30) DEF Nth, Src
        <5>2. CASE 1 \notin 1 .. Len(q) - 1
          BY <1>1, <1>10, <5>2 DEF Nth
        <5> QED
          BY <5>1, <5>2
      <4>3. h[old] \in Entries
        BY <1>2, <1>3 DEF Held
      <4>4. h[old].next \in Pointers
        BY <4>3 DEF Entries
      <4> QED
        BY <1>4, <3>1, <3>2, <4>1, <4>2, <4>4
    <3>3. CASE p # 1
      <4>1. 1 \in 1 .. Len(q) - 1 /\ Src(1) = 1
        BY <1>1, <1>3, <3>3 DEF Src
      <4>2. Nth(r, 1) = Nth(q, 1)
        BY <1>1, <1>10, <4>1 DEF Nth
      <4> QED
        BY <1>4, <3>1, <3>3, <4>2
    <3> QED
      BY <3>2, <3>3
  <2>2. \A c \in Bins : c # b => t1[c] = Nth(ch[c], 1)
    BY <1>2, <1>4
  <2> QED
    BY <1>11, <2>1, <2>2
<1>20. \A a \in Addrs : h1[a] # Free => \E c \in Bins : \E i \in 1 .. Len(c1[c]) : c1[c][i] = a
  <2> SUFFICES ASSUME NEW a \in Addrs, h1[a] # Free
               PROVE  \E c \in Bins : \E i \in 1 .. Len(c1[c]) : c1[c][i] = a
    OBVIOUS
  <2>1. a # old /\ h[a] # Free
    <3>1. p # 1 => p - 1 \in 1 .. Len(q)
      BY <1>1, <1>3
    <3>2. p # 1 => h[q[p - 1]] \in Entries
      BY <1>2, <3>1 DEF Held
    <3>3. a # old
      BY <1>12
    <3>4. CASE p # 1 /\ a = q[p - 1]
      BY <3>2, <3>3, <3>4, FreeIsNone
    <3>5. CASE p = 1 \/ a # q[p - 1]
      <4>1. h1[a] = h[a]
        BY <1>12, <3>3, <3>5
      <4> QED
        BY <3>3, <4>1
    <3> QED
      BY <3>4, <3>5
  <2>2a. PICK c \in Bins : \E i \in 1 .. Len(ch[c]) : ch[c][i] = a
    BY <1>2, <2>1
  <2>2. PICK i \in 1 .. Len(ch[c]) : ch[c][i] = a
    BY <2>2a
  <2>3. CASE c # b
    BY <1>11, <2>2, <2>3
  <2>4. CASE c = b
    <3>1. i \in 1 .. Len(q) /\ q[i] = a /\ i # p
      BY <1>3, <1>7, <2>1, <2>2, <2>4
    <3>2. CASE i < p
      <4>1. i \in 1 .. Len(q) - 1 /\ Src(i) = i
        BY <1>1, <1>3, <3>1, <3>2 DEF Src
      <4> QED
        BY <1>10, <1>11, <3>1, <4>1
    <3>3. CASE ~(i < p)
      <4>1. PICK j \in 1 .. Len(q) - 1 : j + 1 = i /\ ~(j < p)
        <5>1. i - 1 \in 1 .. Len(q) - 1 /\ (i - 1) + 1 = i /\ ~(i - 1 < p)
          BY <1>1, <1>3, <3>1, <3>3
        <5> QED
          BY <5>1
      <4>2. Src(j) = i
        BY <4>1 DEF Src
      <4> QED
        BY <1>10, <1>11, <3>1, <4>1, <4>2
    <3> QED
      BY <3>2, <3>3
  <2> QED
    BY <2>3, <2>4
<1>21. Hangs(c1, t1, h1)
  BY <1>11, <1>12, <1>18, <1>19, <1>20 DEF Hangs
<1> QED
  BY <1>6, <1>11, <1>17, <1>21

(* A new entry for k goes to a free address, in front of the chain of k.   *)
Fronted(ch, t, h, b, k, v, a, t1, h1) ==
  /\ Hangs(ch, t, h) /\ k \in Keys /\ v \in Values /\ b = HASH[k]
  /\ \A i \in 1 .. Len(ch[b]) : h[ch[b][i]].key # k
  /\ a \in Addrs /\ h[a] = Free
  /\ t1 = [t EXCEPT ![b] = a]
  /\ h1 = [h EXCEPT ![a] = [key |-> k, value |-> v, next |-> t[b]]]

(* It hangs together with the others.                                      *)
LEMMA Inserts ==
  ASSUME NEW ch, NEW t, NEW h, NEW b, NEW k, NEW v, NEW a, NEW t1, NEW h1,
         Fronted(ch, t, h, b, k, v, a, t1, h1)
  PROVE  \E c1 : Hangs(c1, t1, h1)
<1>a. /\ Hangs(ch, t, h) /\ k \in Keys /\ v \in Values /\ b = HASH[k]
      /\ \A i \in 1 .. Len(ch[b]) : h[ch[b][i]].key # k
      /\ a \in Addrs /\ h[a] = Free
      /\ t1 = [t EXCEPT ![b] = a]
      /\ h1 = [h EXCEPT ![a] = [key |-> k, value |-> v, next |-> t[b]]]
  BY DEF Fronted
<1> USE <1>a
<1> DEFINE q == ch[b]
           e == [key |-> k, value |-> v, next |-> t[b]]
           r == [i \in 1 .. Len(q) + 1 |-> IF i = 1 THEN a ELSE q[i - 1]]
           c1 == [ch EXCEPT ![b] = r]
<1>1. b \in Bins
  BY HashAssumption DEF Bins
<1>2. /\ ch \in [Bins -> Seq(Addrs)]
      /\ t = [c \in Bins |-> Nth(ch[c], 1)]
      /\ h \in [Addrs -> Entries \cup {Free}]
      /\ Held(h, b, q) /\ Distinct(h, q)
      /\ \A c \in Bins : Held(h, c, ch[c]) /\ Distinct(h, ch[c])
      /\ \A x \in Addrs : h[x] # Free => \E c \in Bins : \E i \in 1 .. Len(ch[c]) : ch[c][i] = x
  BY <1>1 DEF Hangs
<1>3. q \in Seq(Addrs) /\ Len(q) \in Nat /\ \A i \in 1 .. Len(q) : q[i] \in Addrs /\ h[q[i]].key # k
  BY <1>1, ChainFits
<1>4. t[b] = Nth(q, 1) /\ t[b] \in Pointers
  BY <1>1, <1>2, <1>3 DEF Nth, Pointers
<1>5. e \in Entries /\ e.key = k /\ e.next = Nth(q, 1)
  BY <1>4 DEF Entries
<1>6. h1 = [h EXCEPT ![a] = e] /\ c1 = [ch EXCEPT ![b] = r] /\ q = ch[b]
  OBVIOUS
<1>7. r = [i \in 1 .. Len(q) + 1 |-> IF i = 1 THEN a ELSE q[i - 1]]
  OBVIOUS
<1> HIDE DEF q, e, r, c1
<1>8. r \in Seq(Addrs) /\ Len(r) = Len(q) + 1 /\ r[1] = a /\ \A i \in 1 .. Len(q) : r[i + 1] = q[i]
  <2>1. r \in [1 .. Len(q) + 1 -> Addrs] /\ Len(q) + 1 \in Nat
    BY <1>3, <1>7
  <2>2. r \in Seq(Addrs) /\ Len(r) = Len(q) + 1
    BY <2>1
  <2>3. r[1] = a
    BY <1>3, <1>7
  <2>4. \A i \in 1 .. Len(q) : i + 1 \in 1 .. Len(q) + 1 /\ i + 1 # 1 /\ (i + 1) - 1 = i
    BY <1>3
  <2> QED
    BY <1>7, <2>2, <2>3, <2>4
<1>9. /\ c1 \in [Bins -> Seq(Addrs)] /\ c1[b] = r
      /\ \A c \in Bins : c # b => c1[c] = ch[c]
  BY <1>1, <1>2, <1>6, <1>8
<1>10. /\ h1 \in [Addrs -> Entries \cup {Free}]
       /\ h1[a] = e
       /\ \A x \in Addrs : x # a => h1[x] = h[x]
  BY <1>2, <1>5, <1>6
<1>11. \A c \in Bins : \A i \in 1 .. Len(ch[c]) : ch[c][i] \in Addrs /\ ch[c][i] # a /\ h1[ch[c][i]] = h[ch[c][i]]
  <2> SUFFICES ASSUME NEW c \in Bins, NEW i \in 1 .. Len(ch[c])
               PROVE  ch[c][i] \in Addrs /\ ch[c][i] # a
    BY <1>10
  <2>1. ch[c][i] \in Addrs /\ h[ch[c][i]] \in Entries
    BY <1>2 DEF Held
  <2> QED
    BY <2>1, FreeIsNone
<1>12. ASSUME NEW i \in 1 .. Len(r)
       PROVE  \/ i = 1 /\ r[i] = a
              \/ \E j \in 1 .. Len(q) : i = j + 1 /\ r[i] = q[j]
  <2>1. CASE i = 1
    BY <1>8, <2>1
  <2>2. CASE i # 1
    <3>1. i - 1 \in 1 .. Len(q) /\ i = (i - 1) + 1
      BY <1>3, <1>8, <2>2
    <3> QED
      BY <1>8, <3>1
  <2> QED
    BY <2>1, <2>2
<1>13. \A j \in Nat : Nth(r, j + 2) = Nth(q, j + 1)
  <2> TAKE j \in Nat
  <2>1. CASE j + 1 \in 1 .. Len(q)
    <3>1. (j + 1) + 1 \in 1 .. Len(r) /\ r[(j + 1) + 1] = q[j + 1] /\ (j + 1) + 1 = j + 2
      BY <1>3, <1>8, <2>1
    <3> QED
      BY <2>1, <3>1 DEF Nth
  <2>2. CASE j + 1 \notin 1 .. Len(q)
    <3>1. j + 2 \notin 1 .. Len(r)
      BY <1>3, <1>8, <2>2
    <3> QED
      BY <2>2, <3>1 DEF Nth
  <2> QED
    BY <2>1, <2>2
<1>14. Held(h1, b, r)
  <2> SUFFICES ASSUME NEW i \in 1 .. Len(r)
               PROVE  h1[r[i]] \in Entries /\ HASH[h1[r[i]].key] = b /\ h1[r[i]].next = Nth(r, i + 1)
    BY DEF Held
  <2>1. CASE i = 1 /\ r[i] = a
    <3>1. Nth(r, 0 + 2) = Nth(q, 0 + 1)
      BY <1>13
    <3>2. Nth(r, i + 1) = Nth(q, 1)
      BY <2>1, <3>1
    <3> QED
      BY <1>5, <1>10, <2>1, <3>2
  <2>2. CASE \E j \in 1 .. Len(q) : i = j + 1 /\ r[i] = q[j]
    <3>1. PICK j \in 1 .. Len(q) : i = j + 1 /\ r[i] = q[j]
      BY <2>2
    <3>2. h1[r[i]] = h[q[j]] /\ j \in Nat /\ i + 1 = j + 2
      BY <1>1, <1>6, <1>11, <3>1
    <3>3. h[q[j]] \in Entries /\ HASH[h[q[j]].key] = b /\ h[q[j]].next = Nth(q, j + 1)
      BY <1>2, <3>1 DEF Held
    <3>4. Nth(r, j + 2) = Nth(q, j + 1)
      BY <1>13, <3>2
    <3> QED
      BY <3>2, <3>3, <3>4
  <2> QED
    BY <1>12, <2>1, <2>2
<1>15. Distinct(h1, r)
  <2> SUFFICES ASSUME NEW i \in 1 .. Len(r), NEW j \in 1 .. Len(r), h1[r[i]].key = h1[r[j]].key
               PROVE  i = j
    BY DEF Distinct
  <2>1. \A x \in 1 .. Len(q) : h1[q[x]].key = h[q[x]].key /\ h1[q[x]].key # k
    BY <1>1, <1>3, <1>6, <1>11
  <2>2. h1[a].key = k
    BY <1>5, <1>10
  <2>3. \/ i = 1 /\ r[i] = a
        \/ \E x \in 1 .. Len(q) : i = x + 1 /\ r[i] = q[x]
    BY <1>12
  <2>4. \/ j = 1 /\ r[j] = a
        \/ \E x \in 1 .. Len(q) : j = x + 1 /\ r[j] = q[x]
    BY <1>12
  <2>5. \A x, y \in 1 .. Len(q) : h1[q[x]].key = h1[q[y]].key => x = y
    BY <1>2, <2>1 DEF Distinct
  <2> QED
    BY <2>1, <2>2, <2>3, <2>4, <2>5
<1>16. \A c \in Bins : Held(h1, c, c1[c]) /\ Distinct(h1, c1[c])
  <2> SUFFICES ASSUME NEW c \in Bins, c # b
               PROVE  Held(h1, c, c1[c]) /\ Distinct(h1, c1[c])
    BY <1>9, <1>14, <1>15
  <2>1. Held(h, c, ch[c]) /\ Distinct(h, ch[c]) /\ c1[c] = ch[c]
    BY <1>2, <1>9
  <2>2. \A i \in 1 .. Len(ch[c]) : h1[ch[c][i]] = h[ch[c][i]]
    BY <1>11
  <2>3. Held(h1, c, ch[c])
    BY <2>1, <2>2 DEF Held
  <2>4. Distinct(h1, ch[c])
    BY <2>1, <2>2 DEF Distinct
  <2> QED
    BY <2>1, <2>3, <2>4
<1>17. t1 = [c \in Bins |-> Nth(c1[c], 1)]
  <2>1. Nth(r, 1) = a
    BY <1>3, <1>8 DEF Nth
  <2>2. \A c \in Bins : c # b => Nth(c1[c], 1) = t[c]
    BY <1>2, <1>9
  <2> QED
    BY <1>1, <1>2, <1>9, <2>1, <2>2
<1>18. \A x \in Addrs : h1[x] # Free => \E c \in Bins : \E i \in 1 .. Len(c1[c]) : c1[c][i] = x
  <2> SUFFICES ASSUME NEW x \in Addrs, h1[x] # Free
               PROVE  \E c \in Bins : \E i \in 1 .. Len(c1[c]) : c1[c][i] = x
    OBVIOUS
  <2>1. CASE x = a
    <3>1. 1 \in 1 .. Len(c1[b]) /\ c1[b][1] = a
      BY <1>3, <1>8, <1>9
    <3> QED
      BY <1>1, <2>1, <3>1
  <2>2. CASE x # a
    <3>1a. PICK c \in Bins : \E i \in 1 .. Len(ch[c]) : ch[c][i] = x
      BY <1>2, <1>10, <2>2
    <3>1. PICK i \in 1 .. Len(ch[c]) : ch[c][i] = x
      BY <3>1a
    <3>2. CASE c # b
      BY <1>9, <3>1, <3>2
    <3>3. CASE c = b
      <4>1. i \in 1 .. Len(q) /\ q[i] = x
        BY <1>6, <3>1, <3>3
      <4>2. i + 1 \in 1 .. Len(c1[b]) /\ c1[b][i + 1] = x
        BY <1>3, <1>8, <1>9, <4>1
      <4> QED
        BY <1>1, <4>2
    <3> QED
      BY <3>2, <3>3
  <2> QED
    BY <2>1, <2>2
<1>19. h1 \in [Addrs -> Entries \cup {Free}]
  BY <1>10
<1>20. c1 \in [Bins -> Seq(Addrs)]
  BY <1>9
<1> HIDE DEF Entries
<1>21. Hangs(c1, t1, h1)
  BY <1>16, <1>17, <1>18, <1>19, <1>20 DEF Hangs
<1> QED
  BY <1>21

-----------------------------------------------------------------------------
(* The entries of a bin are those of its chain.                            *)
LEMMA ChainIs ==
  ASSUME NEW ch, Hangs(ch, table, heap), NEW b \in Bins
  PROVE  Chain(b) = {ch[b][i] : i \in 1 .. Len(ch[b])}
<1> DEFINE q == ch[b]
<1>1. q \in Seq(Addrs) /\ Len(q) \in Nat /\ Len(q) <= N
  BY ChainFits
<1>2. Node(b) = [i \in Positions |-> Nth(q, i + 1)]
  BY NodeIs
<1> HIDE DEF q
<1>3. ASSUME NEW x \in Chain(b)
      PROVE  \E i \in 1 .. Len(q) : x = q[i]
  <2>1. PICK i \in Positions : x = Node(b)[i] /\ x # Null
    BY DEF Chain
  <2> QED
    BY <1>2, <2>1 DEF Nth
<1>4. ASSUME NEW i \in 1 .. Len(q)
      PROVE  q[i] \in Chain(b)
  <2>1. PICK j \in Positions : j + 1 = i
    <3>1. i - 1 \in 0 .. N /\ (i - 1) + 1 = i
      BY <1>1, NatN
    <3> QED
      BY <3>1, NatN
  <2>2. Node(b)[j] = q[i]
    BY <1>2, <2>1 DEF Nth
  <2>3. q[i] # Null
    BY <1>1, HashAssumption
  <2> QED
    BY <2>2, <2>3 DEF Chain
<1> QED
  BY <1>3, <1>4 DEF q

(* Chains that hang are sound.                                             *)
LEMMA HangsSound ==
  ASSUME NEW ch, Hangs(ch, table, heap)
  PROVE  ChainsSound
<1>1. \A b \in Bins : Chain(b) = {ch[b][i] : i \in 1 .. Len(ch[b])}
  BY ChainIs
<1>2. /\ ch \in [Bins -> Seq(Addrs)]
      /\ \A b \in Bins : Held(heap, b, ch[b]) /\ Distinct(heap, ch[b])
      /\ \A a \in Addrs : heap[a] # Free => \E b \in Bins : \E i \in 1 .. Len(ch[b]) : ch[b][i] = a
  BY DEF Hangs
<1>3. ASSUME NEW b \in Bins PROVE Node(b)[Cardinality(Addrs)] = Null
  <2>1. Len(ch[b]) \in Nat /\ Len(ch[b]) <= N /\ N \in Positions /\ N + 1 \notin 1 .. Len(ch[b])
    BY ChainFits, NatN
  <2>2. Node(b)[N] = Nth(ch[b], N + 1)
    BY <2>1, NodeIs
  <2> QED
    BY <2>1, <2>2 DEF Nth, N
<1>4. ASSUME NEW b \in Bins, NEW a \in Chain(b)
      PROVE  a \in Addrs /\ heap[a] # Free /\ HASH[heap[a].key] = b
  <2>1. PICK i \in 1 .. Len(ch[b]) : a = ch[b][i]
    BY <1>1
  <2>2. a \in Addrs /\ heap[a] \in Entries /\ HASH[heap[a].key] = b
    BY <1>2, <2>1 DEF Held
  <2> QED
    BY <2>2, FreeIsNone
<1>5. ASSUME NEW a \in Allocated
      PROVE  \E b \in Bins : \E i \in 1 .. Len(ch[b]) : ch[b][i] = a
  BY <1>2 DEF Allocated
<1>6. Allocated = UNION {Chain(b) : b \in Bins}
  <2>1. ASSUME NEW a \in Allocated PROVE \E b \in Bins : a \in Chain(b)
    BY <1>1, <1>5
  <2>2. ASSUME NEW b \in Bins, NEW a \in Chain(b) PROVE a \in Allocated
    BY <1>4 DEF Allocated
  <2> QED
    BY <2>1, <2>2
<1>7. ASSUME NEW a \in Allocated, NEW c \in Allocated, heap[a].key = heap[c].key
      PROVE  a = c
  <2>1a. PICK b \in Bins : \E i \in 1 .. Len(ch[b]) : ch[b][i] = a
    BY <1>5
  <2>1. PICK i \in 1 .. Len(ch[b]) : ch[b][i] = a
    BY <2>1a
  <2>2a. PICK d \in Bins : \E j \in 1 .. Len(ch[d]) : ch[d][j] = c
    BY <1>5
  <2>2. PICK j \in 1 .. Len(ch[d]) : ch[d][j] = c
    BY <2>2a
  <2>3. HASH[heap[a].key] = b /\ HASH[heap[c].key] = d
    BY <1>2, <2>1, <2>2 DEF Held
  <2>4. b = d
    BY <1>7, <2>3
  <2>5. i = j
    BY <1>2, <1>7, <2>1, <2>2, <2>4 DEF Distinct
  <2> QED
    BY <2>1, <2>2, <2>4, <2>5
<1> QED
  BY <1>3, <1>4, <1>6, <1>7 DEF ChainsSound

-----------------------------------------------------------------------------
(* A search that goes from c to next[c] until it stops, by steps to lower  *)
(* ranks.                                                                  *)
Descends(C, Stops, next, M, rank) ==
  /\ next \in [C -> C] /\ M \in Nat /\ rank \in [C -> 0 .. M]
  /\ \A c \in C : c \notin Stops => rank[next[c]] < rank[c]

(* There is a function that says where it stops.                           *)
LEMMA SearchExists ==
  ASSUME NEW C, NEW Stops, NEW next, NEW M, NEW rank, Descends(C, Stops, next, M, rank)
  PROVE  \E f : f = [c \in C |-> IF c \in Stops THEN c ELSE f[next[c]]]
<1>a. /\ next \in [C -> C] /\ M \in Nat /\ rank \in [C -> 0 .. M]
      /\ \A c \in C : c \notin Stops => rank[next[c]] < rank[c]
  BY DEF Descends
<1> USE <1>a
<1> DEFINE D(n) == {c \in C : rank[c] < n}
           Solves(f, n) == /\ f = [c \in D(n) |-> f[c]]
                           /\ \A c \in D(n) : f[c] = IF c \in Stops THEN c ELSE f[next[c]]
           S == {n \in Nat : \E f : Solves(f, n)}
<1>1. 0 \in S
  <2>1. D(0) = {}
    OBVIOUS
  <2>2. Solves([c \in {} |-> c], 0)
    BY <2>1
  <2> QED
    BY <2>2
<1>2. \A n \in Nat : n \in S => n + 1 \in S
  <2> SUFFICES ASSUME NEW n \in Nat, \E f : Solves(f, n)
               PROVE  \E g : Solves(g, n + 1)
    <3> HIDE DEF Solves
    <3> QED
      OBVIOUS
  <2>f. PICK f : Solves(f, n)
    <3> HIDE DEF Solves
    <3> QED
      OBVIOUS
  <2> DEFINE g == [c \in D(n + 1) |-> IF c \in Stops THEN c ELSE f[next[c]]]
  <2>1. g = [c \in D(n + 1) |-> g[c]]
    OBVIOUS
  <2>s. \A c \in D(n) : f[c] = IF c \in Stops THEN c ELSE f[next[c]]
    BY <2>f
  <2>2. ASSUME NEW c \in D(n + 1), c \notin Stops
        PROVE  g[c] = g[next[c]]
    <3>1. next[c] \in C /\ rank[next[c]] < n
      <4>1. c \in C /\ rank[c] < n + 1 /\ rank[next[c]] < rank[c] /\ next[c] \in C
        BY <2>2
      <4> QED
        BY <4>1
    <3>2. next[c] \in D(n) /\ next[c] \in D(n + 1)
      BY <3>1
    <3>3. f[next[c]] = IF next[c] \in Stops THEN next[c] ELSE f[next[next[c]]]
      BY <2>s, <3>2
    <3> HIDE DEF D
    <3>4. g[next[c]] = IF next[c] \in Stops THEN next[c] ELSE f[next[next[c]]]
      BY <3>2
    <3>5. g[c] = f[next[c]]
      BY <2>2
    <3> QED
      BY <3>3, <3>4, <3>5
  <2>3. \A c \in D(n + 1) : c \in Stops => g[c] = c
    OBVIOUS
  <2> HIDE DEF g, D
  <2>4. Solves(g, n + 1)
    BY <2>1, <2>2, <2>3
  <2> QED
    BY <2>4
<1> HIDE DEF Solves
<1>3. Nat \subseteq S
  BY <1>1, <1>2, NatInd
<1>4. PICK f : Solves(f, M + 1)
  BY <1>3
<1>5. D(M + 1) = C
  OBVIOUS
<1> HIDE DEF D
<1>6. f = [c \in C |-> f[c]] /\ \A c \in C : f[c] = IF c \in Stops THEN c ELSE f[next[c]]
  BY <1>4, <1>5 DEF Solves
<1> QED
  BY <1>6

(* Where it stops is where the steps lead: whatever set they do not leave, *)
(* the search does not leave either.                                       *)
LEMMA SearchStays ==
  ASSUME NEW C, NEW Stops, NEW next, NEW M, NEW rank, Descends(C, Stops, next, M, rank)
  PROVE  \A f, G :
           /\ \A c \in C : f[c] = IF c \in Stops THEN c ELSE f[next[c]]
           /\ G \subseteq C /\ \A c \in G : c \notin Stops => next[c] \in G
           => \A c \in G : f[c] \in G /\ f[c] \in Stops
<1>a. /\ next \in [C -> C] /\ M \in Nat /\ rank \in [C -> 0 .. M]
      /\ \A c \in C : c \notin Stops => rank[next[c]] < rank[c]
  BY DEF Descends
<1> SUFFICES ASSUME NEW f, NEW G,
                    \A c \in C : f[c] = IF c \in Stops THEN c ELSE f[next[c]],
                    G \subseteq C, \A c \in G : c \notin Stops => next[c] \in G
             PROVE  \A c \in G : f[c] \in G /\ f[c] \in Stops
  OBVIOUS
<1> USE <1>a
<1> DEFINE Lost == {c \in G : ~(f[c] \in G /\ f[c] \in Stops)}
           R == {rank[c] : c \in Lost}
<1> SUFFICES ASSUME Lost # {} PROVE FALSE
  OBVIOUS
<1>1. R \subseteq Nat /\ R # {}
  OBVIOUS
<1>2. PICK n \in R : \A m \in R : n <= m
  BY <1>1, Least
<1>3. PICK c \in Lost : rank[c] = n
  BY <1>2
<1>4. c \in G /\ c \in C /\ c \notin Stops
  BY <1>3
<1>5. next[c] \in G /\ next[c] \in C /\ rank[next[c]] < rank[c]
  BY <1>4
<1>6. next[c] \notin Lost
  <2> SUFFICES ASSUME next[c] \in Lost PROVE FALSE
    OBVIOUS
  <2>1. rank[next[c]] \in R
    OBVIOUS
  <2> HIDE DEF R, Lost
  <2>2. n <= rank[next[c]] /\ rank[next[c]] \in Nat /\ n \in Nat
    BY <1>1, <1>2, <2>1
  <2> QED
    BY <1>3, <1>5, <2>2
<1>7. f[c] = f[next[c]]
  BY <1>4
<1> QED
  BY <1>3, <1>5, <1>6, <1>7

-----------------------------------------------------------------------------
(* Some chains hang from the table.                                        *)
Hung == \E ch : Hangs(ch, table, heap)
Cursors == [bin : 0 .. Size, entry : Pointers]
(* Where a search stops, and how it goes on elsewhere.                     *)
Hit(c) == c.bin = Size \/ (c.entry # Null /\ match(Text(pattern), Name[heap[c.entry].key]))
Further(c) ==
  IF c.entry # Null THEN [c EXCEPT !.entry = Link(c.entry)]
  ELSE [bin |-> c.bin + 1, entry |-> IF c.bin + 1 < Size THEN table[c.bin + 1] ELSE Null]
(* The cursors that a search of sound chains gets to.                      *)
Reached == {c \in Cursors : c.bin < Size /\ c.entry # Null => c.entry \in Chain(c.bin)}

(* The place of an entry in its chain gives the rank of its address.       *)
LEMMA Ranked ==
  ASSUME NEW ch, NEW t, NEW h, Hangs(ch, t, h)
  PROVE  \E d \in [Addrs -> 0 .. N] : \A a \in Addrs : h[a].next # Null =>
           h[a].next \in Addrs /\ d[h[a].next] < d[a]
<1> DEFINE In(a, i) == \E b \in Bins : i \in 1 .. Len(ch[b]) /\ ch[b][i] = a
           d == [a \in Addrs |-> IF h[a] = Free THEN 0 ELSE N - (CHOOSE i \in 1 .. N : In(a, i))]
<1>1. /\ h \in [Addrs -> Entries \cup {Free}]
      /\ \A b \in Bins : Held(h, b, ch[b]) /\ Distinct(h, ch[b])
      /\ \A a \in Addrs : h[a] # Free => \E b \in Bins : \E i \in 1 .. Len(ch[b]) : ch[b][i] = a
  BY DEF Hangs
<1>2. \A b \in Bins : ch[b] \in Seq(Addrs) /\ Len(ch[b]) \in Nat /\ Len(ch[b]) <= N
  BY ChainFits
<1>3. ASSUME NEW b \in Bins, NEW i \in 1 .. Len(ch[b])
      PROVE  ch[b][i] \in Addrs /\ i \in 1 .. N /\ d[ch[b][i]] = N - i
  <2> DEFINE a == ch[b][i]
  <2>1. a \in Addrs /\ i \in 1 .. N /\ In(a, i)
    BY <1>2, NatN
  <2>2. h[a] \in Entries /\ HASH[h[a].key] = b
    BY <1>1 DEF Held
  <2>3. ASSUME NEW j, In(a, j) PROVE j = i
    <3>1. PICK c \in Bins : j \in 1 .. Len(ch[c]) /\ ch[c][j] = a
      BY <2>3
    <3>2. HASH[h[a].key] = c
      BY <1>1, <3>1 DEF Held
    <3>3. c = b
      BY <2>2, <3>2
    <3> QED
      BY <1>1, <3>1, <3>3 DEF Distinct
  <2> HIDE DEF In
  <2>4. (CHOOSE j \in 1 .. N : In(a, j)) = i
    BY <2>1, <2>3
  <2> QED
    BY <2>1, <2>2, <2>4, FreeIsNone
<1>4. ASSUME NEW a \in Addrs, h[a] # Free
      PROVE  /\ d[a] \in 0 .. N
             /\ h[a].next # Null => h[a].next \in Addrs /\ d[h[a].next] < d[a]
  <2>1. PICK b \in Bins : \E i \in 1 .. Len(ch[b]) : ch[b][i] = a
    BY <1>1, <1>4
  <2>2. PICK i \in 1 .. Len(ch[b]) : ch[b][i] = a
    BY <2>1
  <2> HIDE DEF d
  <2>3. d[a] = N - i /\ i \in 1 .. N
    BY <1>3, <2>2
  <2>4. h[a].next = Nth(ch[b], i + 1)
    BY <1>1, <2>2 DEF Held
  <2>5. ASSUME h[a].next # Null
        PROVE  h[a].next \in Addrs /\ d[h[a].next] < d[a]
    <3>1. PICK j \in 1 .. Len(ch[b]) : j = i + 1 /\ h[a].next = ch[b][j]
      <4>1. i + 1 \in 1 .. Len(ch[b]) /\ h[a].next = ch[b][i + 1]
        BY <2>4, <2>5 DEF Nth
      <4> QED
        BY <4>1
    <3>2. ch[b][j] \in Addrs /\ j \in 1 .. N /\ d[ch[b][j]] = N - j
      BY <1>3
    <3> QED
      BY <2>3, <3>1, <3>2, NatN
  <2> QED
    BY <2>3, <2>5, NatN
<1>5. \A a \in Addrs : h[a] = Free => d[a] = 0 /\ h[a].next = Null
  BY DEF Free
<1>6. d \in [Addrs -> 0 .. N]
  <2>1. d = [a \in Addrs |-> d[a]]
    OBVIOUS
  <2> HIDE DEF d
  <2>2. \A a \in Addrs : d[a] \in 0 .. N
    BY <1>4, <1>5, NatN
  <2> QED
    BY <2>1, <2>2
<1> HIDE DEF d
<1> QED
  BY <1>4, <1>5, <1>6

(* Going on leads to a cursor of a lower rank: fewer bins to come, or the  *)
(* same bin and less of its chain.                                         *)
LEMMA FurtherOn ==
  ASSUME Hung
  PROVE  \E M \in Nat : \E rank \in [Cursors -> 0 .. M] : \A c \in Cursors : ~Hit(c) =>
           Further(c) \in Cursors /\ rank[Further(c)] < rank[c]
<1>1. PICK ch : Hangs(ch, table, heap)
  BY DEF Hung
<1>2. PICK d \in [Addrs -> 0 .. N] : \A a \in Addrs : heap[a].next # Null =>
        heap[a].next \in Addrs /\ d[heap[a].next] < d[a]
  BY <1>1, Ranked
<1>3. table \in [Bins -> Pointers]
  <2>1. \A b \in Bins : ch[b] \in Seq(Addrs) /\ Nth(ch[b], 1) \in Pointers
    BY <1>1 DEF Hangs, Nth, Pointers
  <2> QED
    BY <1>1, <2>1 DEF Hangs
<1> DEFINE K == N + 2
           Part(c) == IF c.entry = Null THEN 0 ELSE d[c.entry] + 1
           rank == [c \in Cursors |-> (Size - c.bin) * K + Part(c)]
<1>4. K \in Nat /\ Size \in Nat /\ Size # 0
  BY NatN, HashAssumption
<1>5. \A c \in Cursors : /\ c.bin \in 0 .. Size /\ c.entry \in Pointers /\ Part(c) \in 0 .. K - 1
                        /\ c = [bin |-> c.bin, entry |-> c.entry]
  BY <1>2, NatN DEF Cursors, Pointers
<1> HIDE DEF K, Part
<1>6. \A n \in 0 .. Size : n * K \in Nat /\ n * K <= Size * K /\ (n # 0 => (n - 1) * K + K = n * K)
  <2> SUFFICES ASSUME NEW n \in 0 .. Size
               PROVE  n * K \in Nat /\ n * K <= Size * K /\ (n # 0 => (n - 1) * K + K = n * K)
    OBVIOUS
  <2>1. n \in Nat /\ n <= Size
    BY <1>4
  <2>2. n * K \in Nat /\ n * K <= Size * K
    BY <1>4, <2>1
  <2>3. (n - 1) * K + K = n * K
    BY <1>4, <2>1
  <2> QED
    BY <2>2, <2>3
<1>7. rank \in [Cursors -> 0 .. Size * K + K]
  <2> SUFFICES ASSUME NEW c \in Cursors
               PROVE  (Size - c.bin) * K + Part(c) \in 0 .. Size * K + K
    OBVIOUS
  <2>1. PICK n \in 0 .. Size : n = Size - c.bin
    BY <1>4, <1>5
  <2>2. n * K \in Nat /\ n * K <= Size * K /\ Size * K \in Nat
    BY <1>4, <1>6
  <2> QED
    BY <1>4, <1>5, <2>1, <2>2
<1>8. ASSUME NEW c \in Cursors, ~Hit(c)
      PROVE  Further(c) \in Cursors /\ rank[Further(c)] < rank[c]
  <2>1. c.bin \in 0 .. Size - 1 /\ c.bin # Size
    <3>1. c.bin # Size
      BY <1>8 DEF Hit
    <3> QED
      BY <1>4, <1>5, <3>1
  <2>2. PICK n \in 1 .. Size : n = Size - c.bin
    BY <1>4, <2>1
  <2>3. rank[c] = n * K + Part(c) /\ n * K \in Nat
    BY <1>6, <2>2
  <2>4. CASE c.entry # Null
    <3> DEFINE e == [c EXCEPT !.entry = Link(c.entry)]
    <3>1. c.entry \in Addrs /\ Link(c.entry) = heap[c.entry].next
      BY <1>5, <2>4 DEF Pointers, Link
    <3>2. Link(c.entry) \in Pointers
      BY <1>2, <3>1 DEF Pointers
    <3>3. Further(c) = e /\ e.bin = c.bin /\ e.entry = Link(c.entry) /\ e \in Cursors
      BY <2>4, <3>2 DEF Further, Cursors
    <3>4. Part(c) = d[c.entry] + 1 /\ d[c.entry] \in 0 .. N
      BY <1>2, <2>4, <3>1 DEF Part
    <3> HIDE DEF e
    <3>5. rank[e] = n * K + Part(e)
      BY <2>2, <3>3
    <3>6. Part(e) < Part(c)
      <4>1. CASE Link(c.entry) = Null
        BY <3>3, <3>4, <4>1, NatN DEF Part
      <4>2. CASE Link(c.entry) # Null
        <5>1. Link(c.entry) \in Addrs /\ d[Link(c.entry)] < d[c.entry]
          BY <1>2, <3>1, <4>2
        <5>2. Part(e) = d[Link(c.entry)] + 1 /\ d[Link(c.entry)] \in 0 .. N
          BY <1>2, <3>3, <4>2, <5>1 DEF Part
        <5> QED
          BY <3>4, <5>1, <5>2, NatN
      <4> QED
        BY <4>1, <4>2
    <3>7. Part(e) \in Nat /\ Part(c) \in Nat
      BY <1>4, <1>5, <3>3
    <3>8. rank[e] < rank[c]
      BY <2>3, <3>5, <3>6, <3>7
    <3> QED
      BY <3>3, <3>8
  <2>5. CASE c.entry = Null
    <3> DEFINE head == IF c.bin + 1 < Size THEN table[c.bin + 1] ELSE Null
               e == [bin |-> c.bin + 1, entry |-> head]
    <3>1. head \in Pointers
      BY <1>3, <1>4, <2>1 DEF Bins, Pointers
    <3> HIDE DEF head
    <3>2. Further(c) = e /\ e.bin = c.bin + 1 /\ e \in Cursors
      BY <1>4, <2>1, <2>5, <3>1 DEF Further, Cursors, head
    <3> HIDE DEF e
    <3>3. PICK m \in 0 .. Size : m = n - 1 /\ m = Size - e.bin
      BY <1>4, <2>1, <2>2, <3>2
    <3>4. rank[e] = m * K + Part(e) /\ m * K \in Nat
      BY <1>6, <3>2, <3>3
    <3>5. m * K + K = n * K
      <4>1. n \in 0 .. Size /\ n # 0
        OBVIOUS
      <4> QED
        BY <1>6, <3>3, <4>1
    <3>6. Part(e) \in 0 .. K - 1 /\ Part(c) = 0
      BY <1>5, <2>5, <3>2 DEF Part
    <3>7. rank[e] < rank[c]
      BY <1>4, <2>3, <3>4, <3>5, <3>6
    <3> QED
      BY <3>2, <3>7
  <2> QED
    BY <2>4, <2>5
<1>9. Size * K + K \in Nat
  BY <1>4
<1> HIDE DEF rank
<1> QED
  BY <1>7, <1>8, <1>9

(* What a search reaches, it goes on from to what a search reaches.        *)
LEMMA FurtherReached ==
  ASSUME Hung, NEW c \in Reached, ~Hit(c), Further(c) \in Cursors
  PROVE  Further(c) \in Reached
<1>1. PICK ch : Hangs(ch, table, heap)
  BY DEF Hung
<1>2. c.bin \in 0 .. Size - 1 /\ c.bin \in Bins /\ Size \in Nat /\ c \in Cursors
  <2>1. c.bin # Size
    BY DEF Hit
  <2>2. c \in Cursors
    BY DEF Reached
  <2> QED
    BY <2>1, <2>2, HashAssumption DEF Cursors, Bins
<1>3. \A b \in Bins : /\ Chain(b) = {ch[b][i] : i \in 1 .. Len(ch[b])}
                      /\ table[b] = Nth(ch[b], 1)
                      /\ Held(heap, b, ch[b])
  BY <1>1, ChainIs DEF Hangs
<1>4. CASE c.entry # Null
  <2>1. Further(c) = [c EXCEPT !.entry = Link(c.entry)] /\ Link(c.entry) = heap[c.entry].next
    BY <1>4 DEF Further, Link
  <2>2. Further(c).bin = c.bin /\ Further(c).entry = heap[c.entry].next
    BY <1>2, <2>1 DEF Cursors
  <2>3. c.entry \in Chain(c.bin)
    BY <1>2, <1>4 DEF Reached, Bins
  <2>4. PICK i \in 1 .. Len(ch[c.bin]) : c.entry = ch[c.bin][i]
    BY <1>2, <1>3, <2>3
  <2>5. heap[c.entry].next = Nth(ch[c.bin], i + 1)
    BY <1>2, <1>3, <2>4 DEF Held
  <2>6. heap[c.entry].next # Null => heap[c.entry].next \in Chain(c.bin)
    BY <1>2, <1>3, <2>5 DEF Nth
  <2> QED
    BY <2>2, <2>6 DEF Reached
<1>5. CASE c.entry = Null
  <2>1. /\ Further(c).bin = c.bin + 1
        /\ Further(c).entry = IF c.bin + 1 < Size THEN table[c.bin + 1] ELSE Null
    BY <1>5 DEF Further
  <2>2. c.bin + 1 < Size => /\ c.bin + 1 \in Bins
                            /\ table[c.bin + 1] # Null => table[c.bin + 1] \in Chain(c.bin + 1)
    <3> SUFFICES ASSUME c.bin + 1 < Size
                 PROVE  /\ c.bin + 1 \in Bins
                        /\ table[c.bin + 1] # Null => table[c.bin + 1] \in Chain(c.bin + 1)
      OBVIOUS
    <3>1. PICK b \in Bins : b = c.bin + 1
      BY <1>2 DEF Bins
    <3> QED
      BY <1>3, <3>1 DEF Nth
  <2>3. Further(c).entry # Null => Further(c).bin < Size /\ Further(c).entry \in Chain(Further(c).bin)
    <3>1. CASE c.bin + 1 < Size
      <4>1. PICK b : b = c.bin + 1
        OBVIOUS
      <4>2. Further(c).bin = b /\ Further(c).entry = table[b] /\ b < Size
        BY <2>1, <3>1, <4>1
      <4>3. table[b] # Null => table[b] \in Chain(b)
        BY <2>2, <3>1, <4>1
      <4> QED
        BY <4>2, <4>3
    <3>2. CASE ~(c.bin + 1 < Size)
      BY <2>1, <3>2
    <3> QED
      BY <3>1, <3>2
  <2> QED
    BY <2>3 DEF Reached
<1> QED
  BY <1>4, <1>5

(* Seek stops, in whatever set of cursors going on does not leave.         *)
LEMMA SeekLeads ==
  ASSUME Hung, NEW G, G \subseteq Reached, \A x \in G : ~Hit(x) => Further(x) \in G
  PROVE  \A c \in G : Seek[c] \in G /\ Hit(Seek[c])
<1> DEFINE Stops == {x \in Cursors : Hit(x)}
           next == [x \in Cursors |-> IF x \in Stops THEN x ELSE Further(x)]
           Body(at) == [x \in Cursors |->
             IF Hit(x) THEN x
             ELSE IF x.entry # Null THEN at[[x EXCEPT !.entry = Link(x.entry)]]
             ELSE at[[bin |-> x.bin + 1, entry |-> IF x.bin + 1 < Size THEN table[x.bin + 1] ELSE Null]]]
<1>1. PICK M \in Nat : \E rank \in [Cursors -> 0 .. M] : \A x \in Cursors : ~Hit(x) =>
        Further(x) \in Cursors /\ rank[Further(x)] < rank[x]
  BY FurtherOn
<1>2. PICK rank \in [Cursors -> 0 .. M] : \A x \in Cursors : ~Hit(x) =>
        Further(x) \in Cursors /\ rank[Further(x)] < rank[x]
  BY <1>1
<1>3. next \in [Cursors -> Cursors]
  BY <1>2
<1>4. \A x \in Cursors : x \notin Stops => next[x] = Further(x) /\ rank[next[x]] < rank[x]
  BY <1>2
<1>5. \A x \in Cursors : x \in Stops <=> Hit(x)
  OBVIOUS
<1>6. \A at : Body(at) = [x \in Cursors |-> IF x \in Stops THEN x ELSE at[next[x]]]
  <2> SUFFICES ASSUME NEW at, NEW x \in Cursors
               PROVE  Body(at)[x] = IF x \in Stops THEN x ELSE at[next[x]]
    OBVIOUS
  <2> HIDE DEF Hit
  <2> QED
    BY <1>4, <1>5 DEF Further
<1> HIDE DEF Stops, next
<1>6a. Descends(Cursors, Stops, next, M, rank)
  BY <1>3, <1>4 DEF Descends
<1>7. \E f : f = [x \in Cursors |-> IF x \in Stops THEN x ELSE f[next[x]]]
  BY <1>6a, SearchExists
<1> HIDE DEF Body
<1>8. \E f : f = Body(f)
  BY <1>6, <1>7
<1> DEFINE f == CHOOSE at : at = Body(at)
<1>9. f = Body(f)
  BY <1>8
<1>10. Seek = f
  BY DEF Seek, Body, Cursors, Pointers, Hit
<1> HIDE DEF f
<1>11. \A x \in Cursors : f[x] = IF x \in Stops THEN x ELSE f[next[x]]
  BY <1>6, <1>9
<1>12. Reached \subseteq Cursors
  BY DEF Reached
<1>13. \A x \in G : x \notin Stops => next[x] \in G
  BY <1>4, <1>5, <1>12
<1>14. \A x \in G : f[x] \in G /\ f[x] \in Stops
  BY <1>6a, <1>11, <1>12, <1>13, SearchStays
<1> QED
  BY <1>5, <1>10, <1>12, <1>14

(* Seek stops, at a cursor that a search reaches.                          *)
LEMMA SeekStops ==
  ASSUME Hung, NEW c \in Reached
  PROVE  Seek[c] \in Reached /\ Hit(Seek[c])
<1>1. ASSUME NEW x \in Reached, ~Hit(x) PROVE Further(x) \in Reached
  <2>1. Further(x) \in Cursors
    BY <1>1, FurtherOn DEF Reached
  <2> QED
    BY <1>1, <2>1, FurtherReached
<1> QED
  BY <1>1, SeekLeads

-----------------------------------------------------------------------------
(* A cursor that a client holds names a bin, and an address or none.       *)
CursorPlaced == phase = "next" => state \in [bin : Bins, entry : Pointers]
IInv == Hung /\ CursorPlaced /\ CursorLive

(* Without leaves the other entries as they were, and none of the key.     *)
LEMMA WithoutKey ==
  ASSUME Hung, NEW k \in Keys
  PROVE  \E ch : /\ Hangs(ch, Without(k).table, Without(k).heap)
                 /\ \A i \in 1 .. Len(ch[HASH[k]]) : Without(k).heap[ch[HASH[k]][i]].key # k
<1>1. PICK ch : Hangs(ch, table, heap)
  BY DEF Hung
<1> DEFINE b == HASH[k]
           q == ch[b]
<1>2. b \in Bins /\ q \in Seq(Addrs) /\ Len(q) \in Nat /\ \A i, j \in 1 .. Len(q) : q[i] = q[j] => i = j
  <2>1. b \in Bins
    BY HashAssumption DEF Bins
  <2> QED
    BY <1>1, <2>1, ChainFits
<1>3. CASE hash_lookup(k) = Null
  <2>1. \A i \in 1 .. Len(q) : q[i] # Null
    BY <1>2, HashAssumption
  <2>2. \A i \in 1 .. Len(q) : heap[q[i]].key # k
    BY <1>1, <1>3, <2>1, PlaceIs
  <2>3. Without(k).table = table /\ Without(k).heap = heap
    BY <1>3 DEF Without
  <2> QED
    BY <1>1, <2>2, <2>3
<1>4. CASE hash_lookup(k) # Null
  <2>1. PICK p \in 1 .. Len(q) : /\ hash_lookup(k) = q[p] /\ q[p] \in Addrs /\ heap[q[p]].key = k
                               /\ Prev(k) = Nth(q, p - 1)
    BY <1>1, <1>4, PlaceIs
  <2>2. Without(k) = Unlinked(k)
    BY <1>4 DEF Without
  <2> DEFINE t1 == IF p = 1 THEN [table EXCEPT ![b] = heap[q[p]].next] ELSE table
             h1 == IF p = 1 THEN [heap EXCEPT ![q[p]] = Free]
                   ELSE [heap EXCEPT ![q[p - 1]].next = heap[q[p]].next, ![q[p]] = Free]
  <2>3. Unlinked(k).table = t1 /\ Unlinked(k).heap = h1
    <3>1. CASE p = 1
      <4>1. Prev(k) = Null
        BY <2>1, <3>1 DEF Nth
      <4> QED
        BY <2>1, <3>1, <4>1 DEF Unlinked
    <3>2. CASE p # 1
      <4>1. p - 1 \in 1 .. Len(q)
        BY <1>2, <3>2
      <4>2. Prev(k) = q[p - 1] /\ q[p - 1] # Null
        BY <1>2, <2>1, <4>1, HashAssumption DEF Nth
      <4> QED
        BY <2>1, <3>2, <4>2 DEF Unlinked
    <3> QED
      BY <3>1, <3>2
  <2>4. \E c1 : /\ Hangs(c1, t1, h1)
                /\ \A i \in 1 .. Len(c1[b]) : h1[c1[b][i]].key # heap[q[p]].key
    <3>1. PICK t2, h2 : t2 = t1 /\ h2 = h1
      OBVIOUS
    <3>2. Taken(ch, table, heap, b, p, t2, h2)
      BY <1>1, <1>2, <3>1 DEF Taken
    <3> HIDE DEF t1, h1, b
    <3>3. \E c1 : /\ Hangs(c1, t2, h2)
                  /\ \A i \in 1 .. Len(c1[b]) : h2[c1[b][i]].key # heap[ch[b][p]].key
      BY <3>2, Unlinks
    <3> QED
      BY <3>1, <3>3
  <2> HIDE DEF t1, h1
  <2> QED
    BY <2>1, <2>2, <2>3, <2>4
<1> QED
  BY <1>3, <1>4

(* An insertion, which deletes first, and may then find no memory.         *)
LEMMA AddKey ==
  ASSUME IInv, NEW k \in Keys, NEW v \in Values, dbipc_addkey(k, v)
  PROVE  IInv'
<1>1. phase = "no" /\ phase' = "no" /\ hash_insert(k, v)
  BY DEF dbipc_addkey, searchvars
<1>2. PICK t, h : t = Without(k).table /\ h = Without(k).heap
  OBVIOUS
<1>3. PICK ch : /\ Hangs(ch, t, h)
                /\ \A i \in 1 .. Len(ch[HASH[k]]) : h[ch[HASH[k]][i]].key # k
  BY <1>2, WithoutKey DEF IInv
<1>4. \/ \E a \in Addrs : /\ h[a] = Free
                          /\ heap' = [h EXCEPT ![a] = [key |-> k, value |-> v, next |-> t[HASH[k]]]]
                          /\ table' = [t EXCEPT ![HASH[k]] = a]
      \/ heap' = h /\ table' = t
  BY <1>1, <1>2 DEF hash_insert
<1>5. \E c1 : Hangs(c1, table', heap')
  <2>1. CASE heap' = h /\ table' = t
    BY <1>3, <2>1
  <2>2. CASE \E a \in Addrs : /\ h[a] = Free
                             /\ heap' = [h EXCEPT ![a] = [key |-> k, value |-> v, next |-> t[HASH[k]]]]
                             /\ table' = [t EXCEPT ![HASH[k]] = a]
    <3>1. PICK a \in Addrs : /\ h[a] = Free
                            /\ heap' = [h EXCEPT ![a] = [key |-> k, value |-> v, next |-> t[HASH[k]]]]
                            /\ table' = [t EXCEPT ![HASH[k]] = a]
      BY <2>2
    <3>2. PICK t1, h1, b : t1 = table' /\ h1 = heap' /\ b = HASH[k]
      OBVIOUS
    <3>3. Fronted(ch, t, h, b, k, v, a, t1, h1)
      BY <1>3, <3>1, <3>2 DEF Fronted
    <3>4. \E c1 : Hangs(c1, t1, h1)
      BY <3>3, Inserts
    <3> QED
      BY <3>2, <3>4
  <2> QED
    BY <1>4, <2>1, <2>2
<1> QED
  BY <1>1, <1>5 DEF IInv, Hung, CursorPlaced, CursorLive

(* A deletion.                                                             *)
LEMMA DelKey ==
  ASSUME IInv, NEW k \in Keys, dbipc_delkey(k)
  PROVE  IInv'
<1>1. phase' = "no" /\ hash_lookup(k) # Null /\ table' = Unlinked(k).table /\ heap' = Unlinked(k).heap
  BY DEF dbipc_delkey, searchvars
<1>2. Without(k) = Unlinked(k)
  BY <1>1 DEF Without
<1>3. \E ch : Hangs(ch, table', heap')
  BY <1>1, <1>2, WithoutKey DEF IInv
<1> QED
  BY <1>1, <1>3 DEF IInv, Hung, CursorPlaced, CursorLive

(* The release of the table: nothing is left.                              *)
LEMMA Close ==
  ASSUME IInv, hash_close
  PROVE  IInv'
<1>1. /\ phase' = "no"
      /\ heap' = [a \in Addrs |-> IF \E b \in Bins : a \in Chain(b) THEN Free ELSE heap[a]]
      /\ table' = [b \in Bins |-> Null]
  BY DEF hash_close, searchvars
<1>2. ChainsSound
  BY HangsSound DEF IInv, Hung
<1>3. ASSUME NEW a \in Addrs PROVE heap'[a] = Free
  <2>1. (\E b \in Bins : a \in Chain(b)) \/ heap[a] = Free
    BY <1>2 DEF ChainsSound, Allocated
  <2> QED
    BY <1>1, <2>1
<1>4. heap' \in [Addrs -> Entries \cup {Free}]
  <2>1. heap' = [a \in Addrs |-> heap'[a]]
    BY <1>1
  <2> QED
    BY <1>3, <2>1
<1> DEFINE none == [b \in Bins |-> <<>>]
<1>5. none \in [Bins -> Seq(Addrs)] /\ \A b \in Bins : none[b] = <<>> /\ Len(none[b]) = 0
  OBVIOUS
<1> HIDE DEF none
<1>6. \A b \in Bins : Held(heap', b, none[b]) /\ Distinct(heap', none[b]) /\ Nth(none[b], 1) = Null
  BY <1>5 DEF Held, Distinct, Nth
<1>7. Hangs(none, table', heap')
  BY <1>1, <1>3, <1>4, <1>5, <1>6 DEF Hangs
<1> QED
  BY <1>1, <1>7 DEF IInv, Hung, CursorPlaced, CursorLive

(* What a search finds, and the cursor it leaves with the client.          *)
LEMMA SearchGoesOn ==
  ASSUME IInv, NEW c \in Reached, Found(Seek[c]), UNCHANGED <<table, heap>>
  PROVE  IInv'
<1>1. PICK ch : Hangs(ch, table, heap)
  BY DEF IInv, Hung
<1>2. Hung' /\ \A b : Chain(b)' = Chain(b)
  <2>1. Hung'
    BY <1>1 DEF Hung, Hangs
  <2>2. ASSUME NEW b PROVE Chain(b)' = Chain(b)
    BY DEF Chain, Node, Link
  <2> QED
    BY <2>1, <2>2
<1>3. PICK e : e = Seek[c] /\ e \in Reached /\ Hit(e) /\ Found(e)
  BY SeekStops DEF IInv
<1>4. CASE phase' = "no"
  BY <1>2, <1>4 DEF IInv, CursorPlaced, CursorLive
<1>5. CASE e.bin < Size /\ Lists(e)
  <2>1. e \in Cursors /\ e.bin # Size /\ e.entry # Null
    <3>1. e \in Cursors
      BY <1>3 DEF Reached
    <3>2. e.bin # Size
      BY <1>5, HashAssumption
    <3> QED
      BY <1>3, <3>1, <3>2 DEF Hit
  <2>2. e.bin \in Bins /\ e.entry \in Chain(e.bin)
    BY <1>3, <1>5, <2>1, HashAssumption DEF Reached, Bins, Cursors
  <2>3. PICK i \in 1 .. Len(ch[e.bin]) : e.entry = ch[e.bin][i]
    BY <1>1, <2>2, ChainIs
  <2>4. Held(heap, e.bin, ch[e.bin]) /\ ch[e.bin] \in Seq(Addrs)
    BY <1>1, <2>2 DEF Hangs
  <2>5. Link(e.entry) = Nth(ch[e.bin], i + 1)
    BY <2>1, <2>3, <2>4 DEF Link, Held
  <2>6. Link(e.entry) \in Pointers /\ (Link(e.entry) # Null => Link(e.entry) \in Chain(e.bin))
    BY <1>1, <2>2, <2>4, <2>5, ChainIs DEF Nth, Pointers
  <2>7. state' = [e EXCEPT !.entry = Link(e.entry)]
    BY <1>5 DEF Lists
  <2>8. state'.bin = e.bin /\ state'.entry = Link(e.entry) /\ state' \in [bin : Bins, entry : Pointers]
    BY <2>1, <2>2, <2>6, <2>7 DEF Cursors
  <2>9. CursorLive'
    BY <1>2, <2>6, <2>8 DEF CursorLive
  <2> QED
    BY <1>2, <2>8, <2>9 DEF IInv, CursorPlaced
<1> QED
  BY <1>3, <1>4, <1>5 DEF Found, Ends

(* The inductive invariant: the pointers of the table and the heap are     *)
(* chains, and the cursor of a search is in the chain of its bin.          *)
THEOREM Inductive == Spec => []IInv
<1>1. Init => IInv
  <2> SUFFICES ASSUME Init PROVE IInv
    OBVIOUS
  <2> DEFINE none == [b \in Bins |-> <<>>]
  <2>1. none \in [Bins -> Seq(Addrs)] /\ \A b \in Bins : none[b] = <<>> /\ Len(none[b]) = 0
    OBVIOUS
  <2> HIDE DEF none
  <2>2. \A b \in Bins : Held(heap, b, none[b]) /\ Distinct(heap, none[b]) /\ Nth(none[b], 1) = Null
    BY <2>1 DEF Held, Distinct, Nth
  <2>3. heap \in [Addrs -> Entries \cup {Free}] /\ \A a \in Addrs : heap[a] = Free
    BY DEF Init
  <2>4. table = [b \in Bins |-> Nth(none[b], 1)]
    BY <2>2 DEF Init
  <2>5. Hangs(none, table, heap)
    BY <2>1, <2>2, <2>3, <2>4 DEF Hangs
  <2>6. phase = "no"
    BY DEF Init
  <2> QED
    BY <2>5, <2>6 DEF IInv, Hung, CursorPlaced, CursorLive
<1>2. IInv /\ [Next]_vars => IInv'
  <2> SUFFICES ASSUME IInv, [Next]_vars PROVE IInv'
    OBVIOUS
  <2>1. ASSUME NEW k \in Keys, dbipc_delkey(k) PROVE IInv'
    BY <2>1, DelKey
  <2>2. ASSUME NEW k \in Keys, NEW v \in Values, dbipc_addkey(k, v) PROVE IInv'
    BY <2>2, AddKey
  <2>3. CASE hash_close
    BY <2>3, Close
  <2>4. CASE db_dump
    <3>1. phase' = "first" /\ UNCHANGED <<table, heap>>
      BY <2>4 DEF db_dump
    <3> QED
      BY <3>1 DEF IInv, Hung, Hangs, CursorPlaced, CursorLive
  <2>5. CASE hash_get_first
    <3> DEFINE c == [bin |-> 0, entry |-> table[0]]
    <3>1. PICK ch : Hangs(ch, table, heap)
      BY DEF IInv, Hung
    <3>2. 0 \in Bins /\ 0 \in 0 .. Size /\ 0 < Size
      BY HashAssumption DEF Bins
    <3>3. table[0] = Nth(ch[0], 1) /\ ch[0] \in Seq(Addrs) /\ Chain(0) = {ch[0][i] : i \in 1 .. Len(ch[0])}
      BY <3>1, <3>2, ChainIs DEF Hangs
    <3>4. table[0] \in Pointers /\ (table[0] # Null => table[0] \in Chain(0))
      BY <3>3 DEF Nth, Pointers
    <3>5. c \in Reached
      BY <3>2, <3>4 DEF Reached, Cursors
    <3>6. Found(Seek[c]) /\ UNCHANGED <<table, heap>>
      BY <2>5 DEF hash_get_first
    <3> QED
      BY <3>5, <3>6, SearchGoesOn
  <2>6. CASE hash_get_next
    <3>1. phase = "next" /\ Found(Seek[state]) /\ UNCHANGED <<table, heap>>
      BY <2>6 DEF hash_get_next
    <3>2. state \in [bin : Bins, entry : Pointers] /\ (state.entry # Null => state.entry \in Chain(state.bin))
      BY <3>1 DEF IInv, CursorPlaced, CursorLive
    <3>3. Bins \subseteq 0 .. Size
      BY HashAssumption DEF Bins
    <3>4. state \in Reached
      BY <3>2, <3>3 DEF Reached, Cursors
    <3> QED
      BY <3>1, <3>4, SearchGoesOn
  <2>7. CASE UNCHANGED vars
    BY <2>7 DEF vars, IInv, Hung, CursorPlaced, CursorLive, Chain, Node, Link
  <2> QED
    BY <2>1, <2>2, <2>3, <2>4, <2>5, <2>6, <2>7 DEF Next
<1> QED
  BY <1>1, <1>2, PTL DEF Spec

(* Every allocated entry hangs in one chain, at one place, that of its     *)
(* key, and no key has two: nothing is lost and nothing is freed twice     *)
(* (hash_insert, hash_delete_key and hash_close of utils/hash.c).          *)
THEOREM ChainsAreSound == Spec => []ChainsSound
<1>1. IInv => ChainsSound
  BY HangsSound DEF IInv, Hung
<1> QED
  BY <1>1, Inductive, PTL

(* The cursor that a client holds between hash_get_first and hash_get_next *)
(* points into the chain of its bin.                                       *)
THEOREM CursorIsLive == Spec => []CursorLive
<1>1. IInv => CursorLive
  BY DEF IInv
<1> QED
  BY <1>1, Inductive, PTL

-----------------------------------------------------------------------------
(* The refinement of KeyStore.  What a map is to have for a key is what    *)
(* the entry of that key holds, and nothing where no entry has it.         *)
Store == [k \in Keys |-> IF hash_lookup(k) = Null THEN Absent ELSE heap[hash_lookup(k)].value]
StoreIs ==
  /\ \A a \in Allocated : heap[a] \in Entries
  /\ \A a, c \in Allocated : heap[a].key = heap[c].key => a = c
  /\ \A k \in Keys :
       \/ Store[k] = Absent /\ \A a \in Allocated : heap[a].key # k
       \/ \E a \in Allocated : heap[a].key = k /\ Store[k] = heap[a].value

LEMMA HungStore ==
  ASSUME Hung
  PROVE  StoreIs
<1>1. PICK ch : Hangs(ch, table, heap)
  BY DEF Hung
<1>2. /\ heap \in [Addrs -> Entries \cup {Free}] /\ ch \in [Bins -> Seq(Addrs)]
      /\ \A b \in Bins : Held(heap, b, ch[b])
      /\ \A a \in Addrs : heap[a] # Free => \E b \in Bins : \E i \in 1 .. Len(ch[b]) : ch[b][i] = a
  BY <1>1 DEF Hangs
<1>3. \A a \in Allocated : heap[a] \in Entries
  BY <1>2 DEF Allocated
<1>4. \A a, c \in Allocated : heap[a].key = heap[c].key => a = c
  BY <1>1, HangsSound DEF ChainsSound
<1>5. ASSUME NEW k \in Keys
      PROVE  \/ Store[k] = Absent /\ \A a \in Allocated : heap[a].key # k
             \/ \E a \in Allocated : heap[a].key = k /\ Store[k] = heap[a].value
  <2>1. HASH[k] \in Bins
    BY HashAssumption DEF Bins
  <2>2. CASE \E p \in 1 .. Len(ch[HASH[k]]) :
               /\ hash_lookup(k) = ch[HASH[k]][p] /\ ch[HASH[k]][p] \in Addrs
               /\ heap[ch[HASH[k]][p]].key = k
    <3>1. PICK p \in 1 .. Len(ch[HASH[k]]) :
               /\ hash_lookup(k) = ch[HASH[k]][p] /\ ch[HASH[k]][p] \in Addrs
               /\ heap[ch[HASH[k]][p]].key = k
      BY <2>2
    <3>2. heap[hash_lookup(k)] \in Entries
      BY <1>2, <2>1, <3>1 DEF Held
    <3>3. hash_lookup(k) \in Allocated /\ hash_lookup(k) # Null
      BY <3>1, <3>2, FreeIsNone, HashAssumption DEF Allocated
    <3> QED
      BY <3>1, <3>3 DEF Store
  <2>3. CASE /\ hash_lookup(k) = Null
             /\ \A i \in 1 .. Len(ch[HASH[k]]) : heap[ch[HASH[k]][i]].key # k
    <3>1. ASSUME NEW a \in Allocated, heap[a].key = k PROVE FALSE
      <4>1. PICK b \in Bins : \E i \in 1 .. Len(ch[b]) : ch[b][i] = a
        BY <1>2 DEF Allocated
      <4>2. PICK i \in 1 .. Len(ch[b]) : ch[b][i] = a
        BY <4>1
      <4>3. b = HASH[k]
        BY <1>2, <3>1, <4>2 DEF Held
      <4> QED
        BY <2>3, <3>1, <4>2, <4>3
    <3> QED
      BY <2>3, <3>1 DEF Store
  <2> QED
    BY <1>1, <2>2, <2>3, PlaceIs
<1> QED
  BY <1>3, <1>4, <1>5 DEF StoreIs

(* Where no entry of another key comes, goes or changes, the map changes   *)
(* at k only.                                                              *)
LEMMA StoreChanges ==
  ASSUME StoreIs, StoreIs', NEW k \in Keys,
         \A a \in Addrs : \/ heap'[a] # Free /\ heap'[a].key # k
                          \/ heap[a] # Free /\ heap[a].key # k
                          => /\ heap[a] # Free /\ heap'[a] # Free
                             /\ heap'[a].key = heap[a].key /\ heap'[a].value = heap[a].value
  PROVE  /\ Store' = [Store EXCEPT ![k] = Store'[k]]
         /\ \/ Store'[k] = Absent /\ \A a \in Addrs : heap'[a] # Free => heap'[a].key # k
            \/ \E a \in Addrs : heap'[a] # Free /\ heap'[a].key = k /\ Store'[k] = heap'[a].value
<1>1. ASSUME NEW j \in Keys, j # k PROVE Store'[j] = Store[j]
  <2>1. CASE Store[j] = Absent /\ \A a \in Allocated : heap[a].key # j
    <3>1. \A a \in Allocated' : heap'[a].key # j
      BY <1>1, <2>1 DEF Allocated
    <3> QED
      BY <2>1, <3>1 DEF StoreIs
  <2>2. CASE \E a \in Allocated : heap[a].key = j /\ Store[j] = heap[a].value
    <3>1. PICK a \in Allocated : heap[a].key = j /\ Store[j] = heap[a].value
      BY <2>2
    <3>2. a \in Allocated' /\ heap'[a].key = j /\ heap'[a].value = heap[a].value
      BY <1>1, <3>1 DEF Allocated
    <3>3. PICK c \in Allocated' : heap'[c].key = j /\ Store'[j] = heap'[c].value
      BY <3>2 DEF StoreIs
    <3>4. c = a
      BY <3>2, <3>3 DEF StoreIs
    <3> QED
      BY <3>1, <3>2, <3>3, <3>4
  <2> QED
    BY <2>1, <2>2 DEF StoreIs
<1>2. Store' = [j \in Keys |-> Store'[j]] /\ Store = [j \in Keys |-> Store[j]]
  BY DEF Store
<1>3. \/ Store'[k] = Absent /\ \A a \in Addrs : heap'[a] # Free => heap'[a].key # k
      \/ \E a \in Addrs : heap'[a] # Free /\ heap'[a].key = k /\ Store'[k] = heap'[a].value
  BY DEF StoreIs, Allocated
<1> HIDE DEF Store
<1> QED
  BY <1>1, <1>2, <1>3

(* Without frees the entry of the key and keeps what the others hold.      *)
LEMMA WithoutKeeps ==
  ASSUME Hung, NEW k \in Keys, NEW h, h = Without(k).heap
  PROVE  \A a \in Addrs :
           /\ h[a] # Free => h[a].key # k
           /\ h[a] # Free \/ (heap[a] # Free /\ heap[a].key # k)
                => /\ heap[a] # Free /\ h[a] # Free
                   /\ h[a].key = heap[a].key /\ h[a].value = heap[a].value
<1>1. PICK ch : Hangs(ch, table, heap)
  BY DEF Hung
<1>2. PICK t : t = Without(k).table
  OBVIOUS
<1>3. PICK c1 : Hangs(c1, t, h) /\ \A i \in 1 .. Len(c1[HASH[k]]) : h[c1[HASH[k]][i]].key # k
  BY <1>2, WithoutKey
<1>4. ASSUME NEW a \in Addrs, h[a] # Free PROVE h[a].key # k
  <2>1. PICK b \in Bins : \E i \in 1 .. Len(c1[b]) : c1[b][i] = a
    BY <1>3, <1>4 DEF Hangs
  <2>2. PICK i \in 1 .. Len(c1[b]) : c1[b][i] = a
    BY <2>1
  <2>3. HASH[h[a].key] = b
    BY <1>3, <2>2 DEF Hangs, Held
  <2> QED
    BY <1>3, <2>2, <2>3
<1>5. CASE hash_lookup(k) = Null
  BY <1>4, <1>5 DEF Without
<1>6. CASE hash_lookup(k) # Null
  <2> DEFINE q == ch[HASH[k]]
  <2>1. PICK p \in 1 .. Len(q) : /\ hash_lookup(k) = q[p] /\ q[p] \in Addrs /\ heap[q[p]].key = k
                               /\ Prev(k) = Nth(q, p - 1)
    BY <1>1, <1>6, PlaceIs
  <2>2. h = Unlinked(k).heap
    BY <1>6 DEF Without
  <2>3. HASH[k] \in Bins
    BY HashAssumption DEF Bins
  <2>4. /\ heap \in [Addrs -> Entries \cup {Free}] /\ q \in Seq(Addrs) /\ Len(q) \in Nat
        /\ \A i \in 1 .. Len(q) : heap[q[i]] \in Entries
    BY <1>1, <2>3 DEF Hangs, Held
  <2> HIDE DEF q
  <2>5. CASE Prev(k) = Null
    <3>1. h = [heap EXCEPT ![q[p]] = Free]
      BY <2>1, <2>2, <2>5 DEF Unlinked
    <3> QED
      BY <1>4, <2>1, <2>4, <3>1
  <2>6. CASE Prev(k) # Null
    <3>1. PICK a \in Addrs : a = Prev(k) /\ heap[a] \in Entries
      <4>1. p - 1 \in 1 .. Len(q)
        BY <2>1, <2>6 DEF Nth
      <4> QED
        BY <2>1, <2>4, <4>1 DEF Nth
    <3>2. h = [heap EXCEPT ![a].next = heap[q[p]].next, ![q[p]] = Free]
      BY <2>1, <2>2, <2>6, <3>1 DEF Unlinked
    <3>3. PICK e : e = [heap[a] EXCEPT !.next = heap[q[p]].next]
      OBVIOUS
    <3>4. e \in Entries /\ e.key = heap[a].key /\ e.value = heap[a].value
      <4>1. heap[q[p]] \in Entries
        BY <2>4
      <4> QED
        BY <3>1, <3>3, <4>1 DEF Entries
    <3>5. /\ h[q[p]] = Free
          /\ \A c \in Addrs \ {q[p]} : h[c] = IF c = a THEN e ELSE heap[c]
      BY <2>1, <2>4, <3>1, <3>2, <3>3
    <3> QED
      BY <1>4, <2>1, <3>1, <3>4, <3>5, FreeIsNone
  <2> QED
    BY <2>5, <2>6
<1> QED
  BY <1>5, <1>6

(* A deletion, or an insertion without memory, empties the key.            *)
LEMMA Deletes ==
  ASSUME Hung, StoreIs, StoreIs', NEW k \in Keys, heap' = Without(k).heap
  PROVE  Store' = [Store EXCEPT ![k] = Absent]
<1>1. PICK h : h = Without(k).heap /\ heap' = h
  OBVIOUS
<1>2. \A a \in Addrs :
        /\ h[a] # Free => h[a].key # k
        /\ h[a] # Free \/ (heap[a] # Free /\ heap[a].key # k)
             => /\ heap[a] # Free /\ h[a] # Free
                /\ h[a].key = heap[a].key /\ h[a].value = heap[a].value
  BY <1>1, WithoutKeeps
<1>3. /\ Store' = [Store EXCEPT ![k] = Store'[k]]
      /\ \/ Store'[k] = Absent /\ \A a \in Addrs : heap'[a] # Free => heap'[a].key # k
         \/ \E a \in Addrs : heap'[a] # Free /\ heap'[a].key = k /\ Store'[k] = heap'[a].value
  <2> HIDE DEF Store, StoreIs
  <2> QED
    BY <1>1, <1>2, StoreChanges
<1> HIDE DEF Store
<1> QED
  BY <1>1, <1>2, <1>3

(* An insertion gives the key its value, or leaves it with none.           *)
LEMMA Puts ==
  ASSUME Hung, StoreIs, StoreIs', NEW k \in Keys, NEW v \in Values, hash_insert(k, v)
  PROVE  Store' = [Store EXCEPT ![k] = v] \/ Store' = [Store EXCEPT ![k] = Absent]
<1>1. PICK t, h : t = Without(k).table /\ h = Without(k).heap
  OBVIOUS
<1>2. \A a \in Addrs :
        /\ h[a] # Free => h[a].key # k
        /\ h[a] # Free \/ (heap[a] # Free /\ heap[a].key # k)
             => /\ heap[a] # Free /\ h[a] # Free
                /\ h[a].key = heap[a].key /\ h[a].value = heap[a].value
  BY <1>1, WithoutKeeps
<1>3. \/ \E a \in Addrs : /\ h[a] = Free
                          /\ heap' = [h EXCEPT ![a] = [key |-> k, value |-> v, next |-> t[HASH[k]]]]
      \/ heap' = Without(k).heap
  BY <1>1 DEF hash_insert
<1>4. CASE heap' = Without(k).heap
  BY <1>4, Deletes
<1>5. CASE \E a \in Addrs : /\ h[a] = Free
                           /\ heap' = [h EXCEPT ![a] = [key |-> k, value |-> v, next |-> t[HASH[k]]]]
  <2>1. PICK a \in Addrs : /\ h[a] = Free
                          /\ heap' = [h EXCEPT ![a] = [key |-> k, value |-> v, next |-> t[HASH[k]]]]
    BY <1>5
  <2>2. PICK e : /\ e = [key |-> k, value |-> v, next |-> t[HASH[k]]]
                 /\ e.key = k /\ e.value = v /\ e # Free
    <3>1. PICK e : e = [key |-> k, value |-> v, next |-> t[HASH[k]]]
      OBVIOUS
    <3>2. e.key = k /\ e.value = v /\ Free.key = Null /\ k # Null
      BY <3>1, HashAssumption DEF Free
    <3> QED
      BY <3>1, <3>2
  <2>3. h \in [Addrs -> Entries \cup {Free}]
    <3>1. PICK c1 : Hangs(c1, t, h)
      BY <1>1, WithoutKey
    <3> QED
      BY <3>1 DEF Hangs
  <2>4. heap'[a] = e /\ \A c \in Addrs \ {a} : heap'[c] = h[c]
    BY <2>1, <2>2, <2>3
  <2>5. /\ Store' = [Store EXCEPT ![k] = Store'[k]]
        /\ \/ Store'[k] = Absent /\ \A c \in Addrs : heap'[c] # Free => heap'[c].key # k
           \/ \E c \in Addrs : heap'[c] # Free /\ heap'[c].key = k /\ Store'[k] = heap'[c].value
    <3>1. \A c \in Addrs : \/ heap'[c] # Free /\ heap'[c].key # k
                           \/ heap[c] # Free /\ heap[c].key # k
            => /\ heap[c] # Free /\ heap'[c] # Free
               /\ heap'[c].key = heap[c].key /\ heap'[c].value = heap[c].value
      BY <1>2, <2>1, <2>2, <2>4
    <3> HIDE DEF Store, StoreIs
    <3> QED
      BY <3>1, StoreChanges
  <2>6. Store'[k] = v
    BY <1>2, <2>2, <2>4, <2>5
  <2> QED
    BY <2>5, <2>6
<1> QED
  BY <1>1, <1>3, <1>4, <1>5

(* The release of the table empties the map.                               *)
LEMMA Empties ==
  ASSUME Hung, StoreIs', hash_close
  PROVE  Store' = [k \in Keys |-> Absent]
<1>1. ChainsSound
  BY HangsSound DEF Hung
<1>2. \A a \in Addrs : heap'[a] = Free
  <2> SUFFICES ASSUME NEW a \in Addrs PROVE heap'[a] = Free
    OBVIOUS
  <2>1. (\E b \in Bins : a \in Chain(b)) \/ heap[a] = Free
    BY <1>1 DEF ChainsSound, Allocated
  <2> QED
    BY <2>1 DEF hash_close
<1>3. \A k \in Keys : Store'[k] = Absent
  BY <1>2 DEF StoreIs, Allocated
<1>4. Store' = [k \in Keys |-> Store'[k]]
  BY DEF Store
<1> HIDE DEF Store
<1> QED
  BY <1>3, <1>4

-----------------------------------------------------------------------------
(* The entries that a search at the cursor c has still to come to: those   *)
(* of the bins to come, and what its own chain has from c on.              *)
From(ch, c, b, i) == c.bin < b \/ (c.bin = b /\ \E j \in 1 .. i : ch[b][j] = c.entry)
Coming(ch, c) ==
  {a \in Addrs : \E b \in Bins : \E i \in 1 .. Len(ch[b]) : ch[b][i] = a /\ From(ch, c, b, i)}

(* An entry has one place.                                                 *)
LEMMA OnePlace ==
  ASSUME NEW ch, Hangs(ch, table, heap),
         NEW b \in Bins, NEW i \in 1 .. Len(ch[b]), NEW d \in Bins, NEW j \in 1 .. Len(ch[d]),
         ch[b][i] = ch[d][j]
  PROVE  b = d /\ i = j
<1>1. HASH[heap[ch[b][i]].key] = b /\ HASH[heap[ch[d][j]].key] = d
  BY DEF Hangs, Held
<1>2. b = d
  BY <1>1
<1> QED
  BY <1>2, ChainFits

(* Past an entry, that entry is no longer to come.                         *)
LEMMA PastEntry ==
  ASSUME NEW ch, Hangs(ch, table, heap), NEW c \in Cursors, c.bin \in Bins,
         NEW p \in 1 .. Len(ch[c.bin]), ch[c.bin][p] = c.entry
  PROVE  /\ c.entry \in Coming(ch, c)
         /\ Coming(ch, [c EXCEPT !.entry = Link(c.entry)]) = Coming(ch, c) \ {c.entry}
<1> DEFINE q == ch[c.bin]
<1>1. PICK e : e = [c EXCEPT !.entry = Link(c.entry)]
  OBVIOUS
<1>2. /\ q \in Seq(Addrs) /\ Len(q) \in Nat /\ c.entry \in Addrs /\ c.entry # Null
      /\ heap[c.entry].next = Nth(q, p + 1)
  BY HashAssumption DEF Hangs, Held
<1>3. e.bin = c.bin /\ e.entry = Nth(q, p + 1)
  BY <1>1, <1>2 DEF Cursors, Link
<1>4. c.entry \in Coming(ch, c)
  <2>1. ch[c.bin][p] = c.entry /\ From(ch, c, c.bin, p)
    BY DEF From
  <2> QED
    BY <1>2, <2>1 DEF Coming
<1>5. ASSUME NEW b \in Bins, NEW i \in 1 .. Len(ch[b])
      PROVE  From(ch, e, b, i) <=> From(ch, c, b, i) /\ ch[b][i] # c.entry
  <2>1. CASE c.bin # b
    <3>1. ch[b][i] # c.entry
      BY <2>1, OnePlace
    <3> QED
      BY <1>3, <2>1, <3>1 DEF From
  <2>2. CASE c.bin = b
    <3>1. ASSUME NEW j \in 1 .. i, ch[b][j] = e.entry
          PROVE  p \in 1 .. i /\ i # p
      <4>1. j \in 1 .. Len(q) /\ q[j] \in Addrs
        BY <1>2, <2>2
      <4>2. p + 1 \in 1 .. Len(q) /\ q[p + 1] = q[j]
        BY <1>3, <2>2, <3>1, <4>1, HashAssumption DEF Nth
      <4>3. p + 1 = j
        BY <2>2, <4>1, <4>2, OnePlace
      <4> QED
        BY <2>2, <4>3
    <3>2. ASSUME NEW j \in 1 .. i, ch[b][j] = c.entry, ch[b][i] # c.entry
          PROVE  \E l \in 1 .. i : ch[b][l] = e.entry
      <4>1. j \in 1 .. Len(ch[b]) /\ p \in 1 .. Len(ch[b]) /\ j # i
        BY <2>2, <3>2
      <4>2. j = p
        BY <2>2, <3>2, <4>1, OnePlace
      <4>3. p + 1 \in 1 .. i /\ p + 1 \in 1 .. Len(q)
        BY <1>2, <2>2, <4>1, <4>2
      <4>4. e.entry = q[p + 1]
        BY <1>3, <4>3 DEF Nth
      <4> QED
        BY <2>2, <4>3, <4>4
    <3>3. ~(c.bin < b) /\ ~(e.bin < b) /\ e.bin = b
      BY <1>3, <2>2 DEF Bins
    <3>4. ASSUME From(ch, e, b, i) PROVE From(ch, c, b, i) /\ ch[b][i] # c.entry
      <4>1. p \in 1 .. i /\ i # p
        BY <3>1, <3>3, <3>4 DEF From
      <4>2. ch[b][i] # c.entry
        BY <2>2, <4>1, OnePlace
      <4> QED
        BY <2>2, <4>1, <4>2 DEF From
    <3>5. ASSUME From(ch, c, b, i), ch[b][i] # c.entry PROVE From(ch, e, b, i)
      BY <3>2, <3>3, <3>5 DEF From
    <3> QED
      BY <3>4, <3>5
  <2> QED
    BY <2>1, <2>2
<1>6. Coming(ch, e) = Coming(ch, c) \ {c.entry}
  BY <1>5 DEF Coming
<1> QED
  BY <1>1, <1>4, <1>6

(* Behind the end of a chain come the bins that were to come before.       *)
LEMMA PastEnd ==
  ASSUME NEW ch, Hangs(ch, table, heap), NEW c \in Cursors, c.bin \in Bins, c.entry = Null
  PROVE  Coming(ch, Further(c)) = Coming(ch, c)
<1>1. PICK e : e = Further(c)
  OBVIOUS
<1>2. /\ e.bin = c.bin + 1
      /\ e.entry = IF c.bin + 1 < Size THEN table[c.bin + 1] ELSE Null
  BY <1>1 DEF Further
<1>3. \A b \in Bins : b \in Nat /\ b < Size
  BY HashAssumption DEF Bins
<1>4. ASSUME NEW b \in Bins, NEW i \in 1 .. Len(ch[b])
      PROVE  From(ch, e, b, i) <=> From(ch, c, b, i)
  <2>1. ch[b] \in Seq(Addrs) /\ table[b] = Nth(ch[b], 1)
    BY DEF Hangs
  <2>2. ~(\E j \in 1 .. i : ch[b][j] = c.entry)
    BY <2>1, HashAssumption
  <2>3. From(ch, c, b, i) <=> c.bin < b
    BY <2>2 DEF From
  <2>4. CASE e.bin = b
    <3>1. e.entry = ch[b][1] /\ 1 \in 1 .. i
      BY <1>2, <1>3, <2>1, <2>4 DEF Nth
    <3>2. c.bin < b
      BY <1>2, <1>3, <2>4
    <3> QED
      BY <2>3, <2>4, <3>1, <3>2 DEF From
  <2>5. CASE e.bin # b
    <3>1. e.bin < b <=> c.bin < b
      BY <1>2, <1>3, <2>5
    <3> QED
      BY <2>3, <2>5, <3>1 DEF From
  <2> QED
    BY <2>4, <2>5
<1> QED
  BY <1>1, <1>4 DEF Coming

(* At the start of a search everything is to come, at its end nothing.     *)
LEMMA ComingEnds ==
  ASSUME NEW ch, Hangs(ch, table, heap), NEW c \in Cursors
  PROVE  /\ Coming(ch, [bin |-> 0, entry |-> table[0]]) = Allocated
         /\ c.bin = Size => Coming(ch, c) = {}
<1>1. \A b \in Bins : b \in Nat /\ b < Size
  BY HashAssumption DEF Bins
<1>2. c.bin = Size => Coming(ch, c) = {}
  <2> SUFFICES ASSUME c.bin = Size, NEW b \in Bins, NEW i, From(ch, c, b, i) PROVE FALSE
    BY DEF Coming
  <2>1. ~(c.bin < b) /\ c.bin # b
    BY <1>1, HashAssumption
  <2> QED
    BY <2>1 DEF From
<1>3. PICK e : e = [bin |-> 0, entry |-> table[0]] /\ e.bin = 0 /\ e.entry = table[0]
  <2>1. PICK e : e = [bin |-> 0, entry |-> table[0]]
    OBVIOUS
  <2>2. e.bin = 0 /\ e.entry = table[0]
    BY <2>1
  <2> QED
    BY <2>1, <2>2
<1>4. ASSUME NEW b \in Bins, NEW i \in 1 .. Len(ch[b]) PROVE From(ch, e, b, i)
  <2>1. ch[b] \in Seq(Addrs) /\ table[b] = Nth(ch[b], 1)
    BY DEF Hangs
  <2>2. CASE b = 0
    <3>1. e.entry = ch[b][1] /\ 1 \in 1 .. i
      BY <1>3, <2>1, <2>2 DEF Nth
    <3> QED
      BY <1>3, <2>2, <3>1 DEF From
  <2>3. CASE b # 0
    BY <1>1, <1>3, <2>3 DEF From
  <2> QED
    BY <2>2, <2>3
<1>5. ASSUME NEW b \in Bins, NEW i \in 1 .. Len(ch[b])
      PROVE  ch[b][i] \in Addrs /\ heap[ch[b][i]] # Free
  BY FreeIsNone DEF Hangs, Held
<1>6. \A a \in Addrs : heap[a] # Free => \E b \in Bins : \E i \in 1 .. Len(ch[b]) : ch[b][i] = a
  BY DEF Hangs
<1>7. Coming(ch, e) = Allocated
  BY <1>4, <1>5, <1>6 DEF Coming, Allocated
<1> QED
  BY <1>2, <1>3, <1>7

(* The entries that a search is to list, and what it lists of one.         *)
Sought == {a \in Allocated : match(Text(pattern), Name[heap[a].key])}
Pair(a) == <<heap[a].key, heap[a].value>>

(* Up to where Seek stops, nothing that is sought is passed over.          *)
LEMMA SeekComing ==
  ASSUME Hung, NEW ch, Hangs(ch, table, heap), NEW c \in Reached
  PROVE  /\ Seek[c] \in Reached /\ Hit(Seek[c])
         /\ Coming(ch, Seek[c]) \cap Sought = Coming(ch, c) \cap Sought
<1> DEFINE G == {x \in Reached : Coming(ch, x) \cap Sought = Coming(ch, c) \cap Sought}
<1>1. G \subseteq Reached /\ c \in G
  OBVIOUS
<1>2. ASSUME NEW x \in G, ~Hit(x) PROVE Further(x) \in G
  <2>1. Further(x) \in Reached
    <3>1. x \in Reached /\ x \in Cursors
      BY DEF Reached
    <3>2. Further(x) \in Cursors
      BY <1>2, <3>1, FurtherOn
    <3> QED
      BY <1>2, <3>1, <3>2, FurtherReached
  <2>2. x \in Cursors /\ x.bin \in Bins /\ x.bin < Size
    <3>1. x \in Cursors /\ x.bin # Size
      BY <1>2 DEF Reached, Hit
    <3> QED
      BY <3>1, HashAssumption DEF Cursors, Bins
  <2>3. CASE x.entry = Null
    BY <2>1, <2>2, <2>3, PastEnd
  <2>4. CASE x.entry # Null
    <3>1. x.entry \in Chain(x.bin)
      BY <2>2, <2>4 DEF Reached
    <3>2. PICK p \in 1 .. Len(ch[x.bin]) : ch[x.bin][p] = x.entry
      BY <2>2, <3>1, ChainIs
    <3>3. Coming(ch, Further(x)) = Coming(ch, x) \ {x.entry}
      BY <2>2, <2>4, <3>2, PastEntry DEF Further
    <3>4. x.entry \notin Sought
      BY <1>2, <2>4 DEF Hit, Sought
    <3> QED
      BY <2>1, <3>3, <3>4
  <2> QED
    BY <2>3, <2>4
<1> HIDE DEF G
<1>3. Seek[c] \in G /\ Hit(Seek[c])
  BY <1>1, <1>2, SeekLeads
<1> QED
  BY <1>3 DEF G

(* Where a search goes on from.                                            *)
Cursor == IF phase = "first" THEN [bin |-> 0, entry |-> table[0]] ELSE state
LEMMA CursorReached ==
  ASSUME IInv, phase \in {"first", "next"}
  PROVE  Cursor \in Reached
<1>1. PICK ch : Hangs(ch, table, heap)
  BY DEF IInv, Hung
<1>2. 0 \in Bins /\ 0 \in 0 .. Size /\ 0 < Size /\ Bins \subseteq 0 .. Size
  BY HashAssumption DEF Bins
<1>3. CASE phase = "first"
  <2>1. table[0] = Nth(ch[0], 1) /\ ch[0] \in Seq(Addrs) /\ Chain(0) = {ch[0][i] : i \in 1 .. Len(ch[0])}
    BY <1>1, <1>2, ChainIs DEF Hangs
  <2>2. table[0] \in Pointers /\ (table[0] # Null => table[0] \in Chain(0))
    BY <2>1 DEF Nth, Pointers
  <2> QED
    BY <1>2, <1>3, <2>2 DEF Cursor, Reached, Cursors
<1>4. CASE phase = "next"
  <2>1. state \in [bin : Bins, entry : Pointers] /\ (state.entry # Null => state.entry \in Chain(state.bin))
    BY <1>4 DEF IInv, CursorPlaced, CursorLive
  <2>2. state \in Reached
    BY <1>2, <2>1 DEF Reached, Cursors
  <2> QED
    BY <1>4, <2>2 DEF Cursor
<1> QED
  BY <1>3, <1>4

(* What is listed is what was sought and is no longer to come.             *)
ListedSoFar == {listed[i] : i \in 1 .. Len(listed)}
SearchInv ==
  phase # "no" =>
    /\ phase \in {"first", "next"} /\ pattern \in Globs /\ listed \in Seq(Keys \X Values)
    /\ \E ch : /\ Hangs(ch, table, heap)
               /\ ListedSoFar = {Pair(a) : a \in Sought \ Coming(ch, Cursor)}

(* What match of utils/match.c says of a pattern and a key is what the     *)
(* promise says of them: an equation between two recursive functions, for  *)
(* given texts.  The theorem takes it as its hypothesis; run Hash checks   *)
(* the promise with the texts of its keys and patterns.                    *)
PatternsAgree ==
  \A g \in Globs, k \in Keys : match(Text(g), Name[k]) <=> Abstract!Matches(g, Name[k])

(* What a search is to list, told from the map and told from the heap.     *)
LEMMA WantedIs ==
  ASSUME StoreIs, PatternsAgree, pattern \in Globs
  PROVE  Abstract!Wanted = {Pair(a) : a \in Sought}
<1>1. Abstract!Wanted = {<<k, Store[k]>> : k \in {j \in Keys : Store[j] # Absent /\ Abstract!Matches(pattern, Name[j])}}
  BY DEF Abstract!Wanted, Store
<1>2. \A a \in Allocated : heap[a].key \in Keys /\ heap[a].value \in Values /\ heap[a].value # Absent
  BY HashAssumption DEF StoreIs, Entries
<1>3. \A k \in Keys : match(Text(pattern), Name[k]) <=> Abstract!Matches(pattern, Name[k])
  BY DEF PatternsAgree
<1>4. \A k \in Keys : \/ Store[k] = Absent /\ \A a \in Allocated : heap[a].key # k
                      \/ \E a \in Allocated : heap[a].key = k /\ Store[k] = heap[a].value
  BY DEF StoreIs
<1>5. \A a, c \in Allocated : heap[a].key = heap[c].key => a = c
  BY DEF StoreIs
<1> DEFINE Said(j) == Abstract!Matches(pattern, Name[j])
           Found1(j) == match(Text(pattern), Name[j])
<1>6. \A k \in Keys : Found1(k) <=> Said(k)
  BY <1>3
<1>7. Sought = {a \in Allocated : Found1(heap[a].key)}
  BY DEF Sought
<1>8. Abstract!Wanted = {<<k, Store[k]>> : k \in {j \in Keys : Store[j] # Absent /\ Said(j)}}
  BY <1>1
<1> HIDE DEF Said, Found1, Store
<1>9. ASSUME NEW a \in Sought
      PROVE  Pair(a) \in {<<k, Store[k]>> : k \in {j \in Keys : Store[j] # Absent /\ Said(j)}}
  <2>1. PICK k \in Keys : k = heap[a].key
    BY <1>2, <1>7
  <2>2. PICK c \in Allocated : heap[c].key = k /\ Store[k] = heap[c].value
    BY <1>4, <1>7, <2>1
  <2>3. c = a
    BY <1>5, <1>7, <2>1, <2>2
  <2>4. Store[k] = heap[a].value /\ Store[k] # Absent /\ Said(k)
    BY <1>2, <1>6, <1>7, <2>1, <2>2, <2>3
  <2> QED
    BY <2>1, <2>4 DEF Pair
<1>10. ASSUME NEW k \in Keys, Store[k] # Absent, Said(k)
       PROVE  \E a \in Sought : Pair(a) = <<k, Store[k]>>
  <2>1. PICK a \in Allocated : heap[a].key = k /\ Store[k] = heap[a].value
    BY <1>4, <1>10
  <2> QED
    BY <1>6, <1>7, <1>10, <2>1 DEF Pair
<1> QED
  BY <1>8, <1>9, <1>10

LEMMA Appended ==
  ASSUME NEW T, NEW s \in Seq(T), NEW x \in T
  PROVE  /\ Append(s, x) \in Seq(T)
         /\ {Append(s, x)[i] : i \in 1 .. Len(Append(s, x))} = {s[i] : i \in 1 .. Len(s)} \cup {x}
<1>1. /\ Append(s, x) \in Seq(T) /\ Len(Append(s, x)) = Len(s) + 1 /\ Len(s) \in Nat
      /\ \A i \in 1 .. Len(s) : Append(s, x)[i] = s[i]
      /\ Append(s, x)[Len(s) + 1] = x
  OBVIOUS
<1>2. PICK l \in Nat : l = Len(s)
  BY <1>1
<1>3. 1 .. l + 1 = 1 .. l \cup {l + 1}
  BY <1>2
<1> QED
  BY <1>1, <1>2, <1>3

(* A step of a search lists an entry that is wanted and not yet listed, or *)
(* ends: with all that is wanted listed, or for want of memory.            *)
LEMMA SearchStep ==
  ASSUME IInv, StoreIs, SearchInv, PatternsAgree, phase # "no",
         Found(Seek[Cursor]), UNCHANGED <<table, heap>>
  PROVE  SearchInv' /\ (Abstract!List \/ Abstract!End)
<1>1. /\ phase \in {"first", "next"} /\ pattern \in Globs /\ listed \in Seq(Keys \X Values)
      /\ \E ch : /\ Hangs(ch, table, heap)
                 /\ ListedSoFar = {Pair(a) : a \in Sought \ Coming(ch, Cursor)}
  BY DEF SearchInv
<1>2. PICK ch : /\ Hangs(ch, table, heap)
                /\ ListedSoFar = {Pair(a) : a \in Sought \ Coming(ch, Cursor)}
  BY <1>1
<1>3. PICK c : c = Cursor /\ c \in Reached
  BY <1>1, CursorReached
<1>4. PICK e : e = Seek[c] /\ e \in Reached /\ Hit(e)
               /\ Coming(ch, e) \cap Sought = Coming(ch, c) \cap Sought
  BY <1>2, <1>3, SeekComing DEF IInv
<1>5. ListedSoFar = {Pair(a) : a \in Sought \ Coming(ch, e)}
  <2>1. Sought \ Coming(ch, e) = Sought \ Coming(ch, c)
    BY <1>4
  <2> QED
    BY <1>2, <1>3, <2>1
<1>6. Abstract!Wanted = {Pair(a) : a \in Sought} /\ Abstract!Listed = ListedSoFar
  BY <1>1, WantedIs DEF Abstract!Listed, ListedSoFar
<1>7. e \in Cursors
  BY <1>4 DEF Reached
<1>8. Store' = Store
  BY DEF Store, hash_lookup, Place, Node, Link
<1>9. ASSUME NEW short \in BOOLEAN, Ends(short), ~short => ListedSoFar = Abstract!Wanted
      PROVE  SearchInv' /\ Abstract!End
  <2>1. phase' = "no" /\ cut' = short /\ pattern' = <<>> /\ listed' = <<>>
    BY <1>9 DEF Ends
  <2>2. SearchInv'
    BY <2>1 DEF SearchInv
  <2>3. Abstract!End
    <3> HIDE DEF Store
    <3>1. (phase # "no") = TRUE /\ (phase' # "no") = FALSE
      BY <2>1
    <3>2. Store' = Store
      BY <1>8
    <3> QED
      BY <1>6, <1>9, <2>1, <3>1, <3>2 DEF Abstract!End, Store
  <2> QED
    BY <2>2, <2>3
<1>10. CASE e.bin = Size /\ Ends(FALSE)
  <2>1. Coming(ch, e) = {}
    BY <1>2, <1>7, <1>10, ComingEnds
  <2>2. ListedSoFar = Abstract!Wanted
    BY <1>5, <1>6, <2>1
  <2> QED
    BY <1>9, <1>10, <2>2
<1>11. CASE Ends(TRUE)
  BY <1>9, <1>11
<1>12. CASE e.bin < Size /\ Lists(e)
  <2>1. /\ phase' = "next" /\ listed' = Append(listed, Pair(e.entry))
        /\ state' = [e EXCEPT !.entry = Link(e.entry)]
        /\ pattern' = pattern /\ cut' = cut
    BY <1>12 DEF Lists, Pair
  <2>2. e.bin # Size /\ e.bin \in Bins
    BY <1>7, <1>12, HashAssumption DEF Cursors, Bins
  <2>3. /\ e.entry # Null /\ match(Text(pattern), Name[heap[e.entry].key])
        /\ e.entry \in Chain(e.bin)
    BY <1>4, <1>12, <2>2 DEF Hit, Reached
  <2>4. PICK p \in 1 .. Len(ch[e.bin]) : ch[e.bin][p] = e.entry
    BY <1>2, <2>2, <2>3, ChainIs
  <2>5. e.entry \in Addrs /\ heap[e.entry] \in Entries
    BY <1>2, <2>2, <2>4 DEF Hangs, Held
  <2>6. e.entry \in Sought
    BY <2>3, <2>5, FreeIsNone DEF Sought, Allocated
  <2>7. /\ e.entry \in Coming(ch, e)
        /\ Coming(ch, state') = Coming(ch, e) \ {e.entry}
    BY <1>2, <1>7, <2>1, <2>2, <2>4, PastEntry
  <2>8. Pair(e.entry) \in Keys \X Values
    BY <2>5 DEF Pair, Entries
  <2>9. listed' \in Seq(Keys \X Values) /\ ListedSoFar' = ListedSoFar \cup {Pair(e.entry)}
    <3>1. PICK x : x = Pair(e.entry)
      OBVIOUS
    <3> QED
      BY <1>1, <2>1, <2>8, <3>1, Appended DEF ListedSoFar
  <2>10. Sought' = Sought /\ \A a : Pair(a)' = Pair(a)
    BY <2>1 DEF Sought, Allocated, Pair
  <2>11. ListedSoFar' = {Pair(a) : a \in Sought \ Coming(ch, state')}
    BY <1>5, <2>6, <2>7, <2>9
  <2>12. Cursor' = state'
    BY <2>1 DEF Cursor
  <2>13. SearchInv'
    <3>1. Hangs(ch, table', heap')
      BY <1>2
    <3>2. ListedSoFar' = {Pair(a)' : a \in Sought' \ Coming(ch, Cursor')}
      BY <2>10, <2>11, <2>12
    <3> QED
      BY <1>1, <2>1, <2>9, <3>1, <3>2 DEF SearchInv
  <2>14. Pair(e.entry) \in Abstract!Wanted \ Abstract!Listed
    <3>1. \A a \in Sought : Pair(a) = Pair(e.entry) => a = e.entry
      BY <2>6 DEF Pair, Sought, StoreIs
    <3>2. Pair(e.entry) \notin ListedSoFar
      BY <1>5, <2>7, <3>1
    <3> QED
      BY <1>6, <2>6, <3>2
  <2>15. Abstract!List
    <3> HIDE DEF Store
    <3>1. (phase # "no") = TRUE /\ (phase' # "no") = TRUE
      BY <2>1
    <3> QED
      BY <1>8, <2>1, <2>14, <3>1 DEF Abstract!List, Store
  <2> QED
    BY <2>13, <2>15
<1> QED
  BY <1>3, <1>4, <1>10, <1>11, <1>12 DEF Found

(* A search begins with nothing listed and everything to come.             *)
LEMMA SearchBegins ==
  ASSUME IInv, db_dump
  PROVE  SearchInv' /\ Abstract!Begin
<1>1. /\ phase = "no" /\ phase' = "first" /\ pattern' \in Globs /\ listed' = <<>> /\ cut' = FALSE
      /\ table' = table /\ heap' = heap
  BY DEF db_dump
<1>2. PICK ch : Hangs(ch, table, heap)
  BY DEF IInv, Hung
<1>3. Cursor' = [bin |-> 0, entry |-> table[0]]
  BY <1>1 DEF Cursor
<1>4. Coming(ch, Cursor') = Allocated
  <2>1. 0 \in 0 .. Size
    BY HashAssumption
  <2>2. [bin |-> 0, entry |-> Null] \in Cursors
    BY <2>1 DEF Cursors, Pointers
  <2> QED
    BY <1>2, <1>3, <2>2, ComingEnds
<1>5. Sought' \subseteq Allocated
  BY <1>1 DEF Sought, Allocated
<1>6. ListedSoFar' = {Pair(a)' : a \in Sought' \ Coming(ch, Cursor')}
  <2>1. Sought' \ Coming(ch, Cursor') = {}
    BY <1>4, <1>5
  <2>2. ListedSoFar' = {}
    BY <1>1 DEF ListedSoFar
  <2> QED
    BY <2>1, <2>2
<1>7. SearchInv'
  BY <1>1, <1>2, <1>6 DEF SearchInv
<1>8. Store' = Store
  BY <1>1 DEF Store, hash_lookup, Place, Node, Link
<1>9. (phase # "no") = FALSE /\ (phase' # "no") = TRUE
  BY <1>1
<1> HIDE DEF Store
<1>10. Abstract!Begin
  BY <1>1, <1>8, <1>9 DEF Abstract!Begin, Store
<1> QED
  BY <1>7, <1>10

(* Every step of the table is a step of the map, or changes nothing of it. *)
LEMMA StepMaps ==
  ASSUME PatternsAgree, IInv, IInv', SearchInv, [Next]_vars
  PROVE  SearchInv' /\ [Abstract!Next]_(Abstract!vars)
<1>1. Hung /\ StoreIs /\ StoreIs'
  <2>1. Hung /\ Hung'
    BY DEF IInv
  <2>2. Hung => StoreIs
    BY HungStore
  <2>3. (Hung => StoreIs)'
    BY HungStore, PTL
  <2> QED
    BY <2>1, <2>2, <2>3
<1> HIDE DEF Store
<1>2. ASSUME phase = "no", UNCHANGED searchvars, NEW s, Store' = s
      PROVE  SearchInv' /\ Abstract!Change(s)
  <2>1. /\ phase' = "no" /\ pattern' = pattern /\ listed' = listed /\ cut' = cut
        /\ (phase # "no") = FALSE /\ (phase' # "no") = FALSE
    BY <1>2 DEF searchvars
  <2> QED
    BY <1>2, <2>1 DEF SearchInv, Abstract!Change, Store
<1>3. ASSUME NEW k \in Keys, dbipc_delkey(k) PROVE SearchInv' /\ Abstract!Remove(k)
  <2>1. phase = "no" /\ UNCHANGED searchvars /\ heap' = Without(k).heap
    BY <1>3 DEF dbipc_delkey, Without
  <2>2. Store' = [Store EXCEPT ![k] = Absent]
    BY <1>1, <2>1, Deletes
  <2> QED
    BY <1>2, <2>1, <2>2 DEF Abstract!Remove, Store
<1>4. ASSUME NEW k \in Keys, NEW v \in Values, dbipc_addkey(k, v)
      PROVE  SearchInv' /\ (Abstract!Insert(k) \/ Abstract!Remove(k))
  <2>1. phase = "no" /\ UNCHANGED searchvars /\ hash_insert(k, v)
    BY <1>4 DEF dbipc_addkey
  <2>2. Store' = [Store EXCEPT ![k] = v] \/ Store' = [Store EXCEPT ![k] = Absent]
    BY <1>1, <2>1, Puts
  <2> QED
    BY <1>2, <2>1, <2>2 DEF Abstract!Remove, Abstract!Insert, Store
<1>5. ASSUME hash_close PROVE SearchInv' /\ Abstract!Clear
  <2>1. phase = "no" /\ UNCHANGED searchvars
    BY <1>5 DEF hash_close
  <2>2. Store' = [k \in Keys |-> Absent]
    BY <1>1, <1>5, Empties
  <2> QED
    BY <1>2, <2>1, <2>2 DEF Abstract!Clear
<1>6. ASSUME db_dump PROVE SearchInv' /\ Abstract!Begin
  BY <1>6, SearchBegins
<1>7. ASSUME hash_get_first \/ hash_get_next
      PROVE  SearchInv' /\ (Abstract!List \/ Abstract!End)
  <2>1. phase # "no" /\ Found(Seek[Cursor]) /\ UNCHANGED <<table, heap>>
    BY <1>7 DEF hash_get_first, hash_get_next, Cursor
  <2> QED
    BY <1>1, <2>1, SearchStep
<1>8. ASSUME UNCHANGED vars PROVE SearchInv' /\ UNCHANGED Abstract!vars
  <2>1. /\ table' = table /\ heap' = heap /\ phase' = phase /\ pattern' = pattern
        /\ state' = state /\ listed' = listed /\ cut' = cut
    BY <1>8 DEF vars
  <2>2. SearchInv'
    <3>1. /\ Sought' = Sought /\ Cursor' = Cursor /\ ListedSoFar' = ListedSoFar
          /\ \A a : Pair(a)' = Pair(a)
      BY <2>1 DEF Sought, Allocated, Cursor, ListedSoFar, Pair
    <3>2. \A ch : /\ Hangs(ch, table', heap') <=> Hangs(ch, table, heap)
                 /\ {Pair(a)' : a \in Sought' \ Coming(ch, Cursor')} = {Pair(a) : a \in Sought \ Coming(ch, Cursor)}
      BY <2>1, <3>1
    <3> QED
      BY <2>1, <3>1, <3>2 DEF SearchInv
  <2>3. Store' = Store
    BY <2>1 DEF Store, hash_lookup, Place, Node, Link
  <2>4. UNCHANGED Abstract!vars
    BY <2>1, <2>3 DEF Abstract!vars, Store
  <2> QED
    BY <2>2, <2>4
<1> QED
  BY <1>3, <1>4, <1>5, <1>6, <1>7, <1>8 DEF Next, Abstract!Next

(* The hash table implements the map that KeyStore promises: an insertion, *)
(* a deletion and the release of the table are steps of the map, and a     *)
(* search (hash_get_first and hash_get_next of utils/hash.c, steered by    *)
(* db_dump of cli/database.c) lists every entry that matches, once.        *)
THEOREM ImplementsKeyStore ==
  ASSUME PatternsAgree
  PROVE  Spec => IsKeyStore
<1>1. IInv /\ Init => SearchInv /\ Abstract!Init
  <2> SUFFICES ASSUME IInv, Init PROVE SearchInv /\ Abstract!Init
    OBVIOUS
  <2>1. SearchInv
    BY DEF Init, SearchInv
  <2>2. StoreIs
    BY HungStore DEF IInv
  <2>3. \A k \in Keys : Store[k] = Absent
    BY <2>2 DEF Init, StoreIs, Allocated
  <2>4. Store = [k \in Keys |-> Store[k]]
    BY DEF Store
  <2> HIDE DEF Store
  <2>5. Store = [k \in Keys |-> Absent] /\ (phase # "no") = FALSE
    BY <2>3, <2>4 DEF Init
  <2>6. Abstract!Init
    BY <2>5 DEF Init, Abstract!Init, Store
  <2> QED
    BY <2>1, <2>6
<1>2. IInv /\ IInv' /\ SearchInv /\ [Next]_vars => SearchInv' /\ [Abstract!Next]_(Abstract!vars)
  BY StepMaps
<1> QED
  BY <1>1, <1>2, Inductive, PTL DEF Spec, IsKeyStore, Abstract!Spec
=============================================================================
