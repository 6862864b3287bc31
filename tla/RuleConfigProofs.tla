-------------------------- MODULE RuleConfigProofs --------------------------
(***************************************************************************)
(* Proofs about RuleConfig: for any number of cli processes, any rules and *)
(* any number of faults, every command, the error returns of its database  *)
(* calls included, undoes the locks it took, works on the rules only while *)
(* it holds the database lock, and the database is initialised once.       *)
(*                                                                         *)
(* What is left of a command is a sequence of steps (todo[c]).  The        *)
(* invariant is that it can be run from the nesting count the cli has now  *)
(* to a count of 0, every step that works on the database at a count above *)
(* 0: a labelling of the sequence with counts, one more than it has steps. *)
(* Taking a step drops the first label; a branch replaces a step by a      *)
(* sequence that runs between the same labels; an error return (Recover)   *)
(* goes on from the first unlock, whose label is the count of now.         *)
(*                                                                         *)
(* The second part proves, as long as no fault has happened, what the      *)
(* database holds: its counts, the ends of the loops, the rules that are   *)
(* read.  There the labels are states of the rules of one set (a table:    *)
(* its count, its rules, the fields their flags name, the fields that are  *)
(* there), with the nesting count and the mark of initialisation: what is  *)
(* left of a section takes the table of now to one that is counted and     *)
(* whole.                                                                  *)
(*                                                                         *)
(* The third part proves that the CAM follows the database, when one cli   *)
(* runs and no two rules share an entry.                                   *)
(***************************************************************************)
EXTENDS RuleConfig, FiniteSetTheorems, WellFoundedInduction, TLAPS

-----------------------------------------------------------------------------
(* Induction over a set of numbers, from the least number outside it.      *)
LEMMA NatInd ==
  ASSUME NEW S, 0 \in S, \A n \in Nat : n \in S => n + 1 \in S
  PROVE  Nat \subseteq S
<1> DEFINE T == {n \in Nat : n \notin S}
<1> SUFFICES ASSUME T # {} PROVE FALSE
  OBVIOUS
<1>1. IsWellFoundedOn(OpToRel(<, Nat), Nat)
  BY NatLessThanWellFounded
<1>2. PICK n \in T : \A m \in T : <<m, n>> \notin OpToRel(<, Nat)
  BY <1>1, WFMin
<1>3. \A m \in T : ~(m < n)
  BY <1>2 DEF OpToRel
<1>4. n # 0 /\ n - 1 \in Nat
  OBVIOUS
<1>5. n - 1 \notin T
  BY <1>3, <1>4
<1>6. n - 1 \in S /\ n - 1 + 1 = n
  BY <1>4, <1>5
<1> QED
  BY <1>4, <1>6


(* FlattenSeq appends one sequence after the other.                        *)
LEMMA FlattenStep ==
  ASSUME NEW S, NEW q \in Seq(Seq(S)), Len(q) > 0
  PROVE  \E g \in [1 .. Len(q) -> Seq(S)] :
           /\ g[1] = q[1]
           /\ \A i \in 1 .. Len(q) - 1 : g[i + 1] = g[i] \o q[i + 1]
           /\ FlattenSeq(q) = g[Len(q)]
<1> DEFINE n == Len(q)
           Cat(x, i) == IF i = 1 THEN q[i] ELSE x \o q[i]
           Body(g) == [i \in 1 .. n |-> Cat(g[i - 1], i)]
           Upto(k) == {g \in [1 .. k -> Seq(S)] : \A i \in 1 .. k : g[i] = Cat(g[i - 1], i)}
           Good == {k \in Nat : k + 1 <= n => \E g : g \in Upto(k + 1)}
<1>0. n \in Nat \ {0} /\ \A i \in 1 .. n : q[i] \in Seq(S)
  OBVIOUS
<1>1. \A x, y : Cat(x, 1) = Cat(y, 1)
  OBVIOUS
<1>2. \A x : Cat(x, 1) \in Seq(S)
  BY <1>0
<1>3. \A x \in Seq(S) : \A i \in 1 .. n : Cat(x, i) \in Seq(S)
  BY <1>0
<1>c. Cat(n, 1) = q[1] /\ \A x : \A i \in 2 .. n : Cat(x, i) = x \o q[i]
  OBVIOUS
<1>d. FlattenSeq(q) = (CHOOSE x : x = Body(x))[n]
  BY <1>0, Zenon DEF FlattenSeq
<1> HIDE DEF Cat, n
<1>4. 0 \in Good
  <2> DEFINE h == [i \in 1 .. 1 |-> Cat(0, 1)]
  <2>1. h \in [1 .. 1 -> Seq(S)]
    BY <1>2
  <2>2. \A i \in 1 .. 1 : h[i] = Cat(h[i - 1], i)
    BY <1>1
  <2>3. h \in Upto(1)
    BY <2>1, <2>2
  <2> HIDE DEF Upto
  <2> QED
    BY <2>3, <1>0
<1>5. ASSUME NEW k \in Nat, k \in Good PROVE k + 1 \in Good
  <2> SUFFICES ASSUME k + 1 + 1 <= n PROVE \E h : h \in Upto(k + 1 + 1)
    <3> HIDE DEF Upto
    <3> QED
      OBVIOUS
  <2>1. PICK g : g \in Upto(k + 1)
    <3>1. k + 1 <= n
      BY <1>0
    <3> HIDE DEF Upto
    <3> QED
      BY <3>1, <1>5
  <2> DEFINE h == [i \in 1 .. k + 1 + 1 |-> IF i = k + 1 + 1 THEN Cat(g[k + 1], k + 1 + 1) ELSE g[i]]
  <2>2. Cat(g[k + 1], k + 1 + 1) \in Seq(S)
    BY <2>1, <1>0, <1>3
  <2>3. h \in [1 .. k + 1 + 1 -> Seq(S)]
    BY <2>1, <2>2
  <2>4. ASSUME NEW i \in 1 .. k + 1 + 1 PROVE h[i] = Cat(h[i - 1], i)
    <3>1. CASE i = k + 1 + 1
      BY <3>1
    <3>2. CASE i \in 2 .. k + 1
      BY <3>2, <2>1
    <3>3. CASE i = 1
      BY <3>3, <2>1, <1>1
    <3> QED
      BY <3>1, <3>2, <3>3
  <2>5. h \in Upto(k + 1 + 1)
    BY <2>3, <2>4
  <2> QED
    BY <2>5
<1>6. n - 1 \in Good
  <2> HIDE DEF Good
  <2>1. \A k \in Nat : k \in Good => k + 1 \in Good
    BY <1>5
  <2>2. Nat \subseteq Good
    BY <1>4, <2>1, NatInd
  <2> QED
    BY <1>0, <2>2
<1>7. PICK g : g \in Upto(n)
  <2>1. n - 1 + 1 = n /\ n - 1 + 1 <= n
    BY <1>0
  <2> HIDE DEF Upto
  <2> QED
    BY <2>1, <1>6
<1>8. g = Body(g)
  BY <1>7
<1> DEFINE f == CHOOSE x : x = Body(x)
<1>9. f = Body(f)
  <2> HIDE DEF Body
  <2> QED
    BY <1>8
<1> HIDE DEF f
<1> DEFINE Alike == {k \in Nat : k + 1 <= n => f[k + 1] = g[k + 1]}
<1>10. \A i \in 1 .. n : f[i] = Cat(f[i - 1], i) /\ g[i] = Cat(g[i - 1], i)
  BY <1>7, <1>9
<1>11. 0 \in Alike
  BY <1>0, <1>10, <1>1
<1>12. ASSUME NEW k \in Nat, k \in Alike PROVE k + 1 \in Alike
  <2> SUFFICES ASSUME k + 1 + 1 <= n PROVE f[k + 1 + 1] = g[k + 1 + 1]
    OBVIOUS
  <2>1. f[k + 1] = g[k + 1]
    BY <1>12, <1>0
  <2>2. f[k + 1 + 1] = Cat(f[k + 1], k + 1 + 1) /\ g[k + 1 + 1] = Cat(g[k + 1], k + 1 + 1)
    BY <1>10, <1>0
  <2> QED
    BY <2>1, <2>2
<1>13. f[n] = g[n]
  <2> HIDE DEF Alike
  <2>1. \A k \in Nat : k \in Alike => k + 1 \in Alike
    BY <1>12
  <2>2. Nat \subseteq Alike
    BY <1>11, <2>1, NatInd
  <2>3. n - 1 \in Alike
    BY <1>0, <2>2
  <2> QED
    BY <2>3, <1>0 DEF Alike
<1>14. g[1] = q[1] /\ \A i \in 1 .. n - 1 : g[i + 1] = g[i] \o q[i + 1]
  <2>1. g[1] = Cat(g[0], 1)
    BY <1>0, <1>10
  <2>2. Cat(g[0], 1) = Cat(n, 1)
    BY <1>1, Zenon
  <2>3. \A i \in 1 .. n - 1 : g[i + 1] = Cat(g[i], i + 1)
    BY <1>0, <1>10
  <2>4. \A i \in 1 .. n - 1 : Cat(g[i], i + 1) = g[i] \o q[i + 1]
    <3>1. \A i \in 1 .. n - 1 : i + 1 \in 2 .. n
      BY <1>0
    <3> QED
      BY <3>1, <1>c, Zenon
  <2> QED
    BY <2>1, <2>2, <2>3, <2>4, <1>c
<1>15. FlattenSeq(q) = g[n] /\ g \in [1 .. n -> Seq(S)]
  BY <1>7, <1>13, <1>d DEF f
<1> QED
  BY <1>14, <1>15 DEF n

(* What it returns consists of the elements of the sequences it is given.  *)
LEMMA FlattenOver ==
  ASSUME NEW S, NEW q \in Seq(Seq(S))
  PROVE  FlattenSeq(q) \in Seq(S)
<1>1. CASE Len(q) = 0
  <2>1. FlattenSeq(q) = q
    BY <1>1 DEF FlattenSeq
  <2>2. q = << >>
    BY <1>1
  <2> QED
    BY <2>1, <2>2
<1>2. CASE Len(q) > 0
  <2>1. PICK g \in [1 .. Len(q) -> Seq(S)] : FlattenSeq(q) = g[Len(q)]
    BY <1>2, FlattenStep
  <2>2. Len(q) \in 1 .. Len(q)
    BY <1>2
  <2> QED
    BY <2>1, <2>2
<1> QED
  BY <1>1, <1>2

-----------------------------------------------------------------------------
(* What a sequence of steps does, when G says what one step does: it takes *)
(* a to b, through a label of L behind every step.                         *)
Runs(q, G, L, a, b) ==
  \E d \in [1 .. Len(q) + 1 -> L] :
    /\ d[1] = a /\ d[Len(q) + 1] = b
    /\ \A i \in 1 .. Len(q) : <<q[i], d[i], d[i + 1]>> \in G

(* The empty sequence stays where it is.                                   *)
LEMMA RunsEmpty ==
  ASSUME NEW G, NEW L, NEW a, NEW b
  PROVE  /\ Runs(<<>>, G, L, a, b) => a = b
         /\ a \in L => Runs(<<>>, G, L, a, a)
<1>1. Len(<<>>) = 0
  OBVIOUS
<1>2. ASSUME a \in L PROVE Runs(<<>>, G, L, a, a)
  <2> DEFINE d == [i \in 1 .. Len(<<>>) + 1 |-> a]
  <2>1. d \in [1 .. Len(<<>>) + 1 -> L] /\ d[1] = a /\ d[Len(<<>>) + 1] = a
    BY <1>1, <1>2
  <2>2. \A i \in 1 .. Len(<<>>) : FALSE
    BY <1>1
  <2> HIDE DEF d
  <2> QED
    BY <2>1, <2>2, Zenon DEF Runs
<1> QED
  BY <1>1, <1>2 DEF Runs

(* One step is one move.                                                   *)
LEMMA RunsOne ==
  ASSUME NEW G, NEW L, NEW t, NEW a \in L, NEW b \in L, <<t, a, b>> \in G
  PROVE  Runs(<<t>>, G, L, a, b)
<1> DEFINE d == [i \in 1 .. Len(<<t>>) + 1 |-> IF i = 1 THEN a ELSE b]
<1>1. Len(<<t>>) = 1 /\ <<t>>[1] = t
  OBVIOUS
<1>2. d \in [1 .. Len(<<t>>) + 1 -> L] /\ d[1] = a /\ d[Len(<<t>>) + 1] = b
  BY <1>1
<1>3. \A i \in 1 .. Len(<<t>>) : <<<<t>>[i], d[i], d[i + 1]>> \in G
  BY <1>1
<1> QED
  BY <1>2, <1>3 DEF Runs

(* Two sequences, one after the other.                                     *)
LEMMA RunsCat ==
  ASSUME NEW S, NEW G, NEW L, NEW p \in Seq(S), NEW q \in Seq(S),
         NEW a, NEW b, NEW c, Runs(p, G, L, a, b), Runs(q, G, L, b, c)
  PROVE  Runs(p \o q, G, L, a, c)
<1>1. PICK d \in [1 .. Len(p) + 1 -> L] :
        /\ d[1] = a /\ d[Len(p) + 1] = b
        /\ \A i \in 1 .. Len(p) : <<p[i], d[i], d[i + 1]>> \in G
  BY DEF Runs
<1>2. PICK e \in [1 .. Len(q) + 1 -> L] :
        /\ e[1] = b /\ e[Len(q) + 1] = c
        /\ \A i \in 1 .. Len(q) : <<q[i], e[i], e[i + 1]>> \in G
  BY DEF Runs
<1>3. PICK m \in Nat : m = Len(p)
  OBVIOUS
<1>4. PICK n \in Nat : n = Len(q)
  OBVIOUS
<1>5. Len(p \o q) = m + n
  BY <1>3, <1>4
<1> DEFINE f == [i \in 1 .. m + n + 1 |-> IF i <= m THEN d[i] ELSE e[i - m]]
<1>6. f \in [1 .. m + n + 1 -> L]
  <2> SUFFICES ASSUME NEW i \in 1 .. m + n + 1 PROVE f[i] \in L
    OBVIOUS
  <2>1. CASE i <= m
    <3>1. f[i] = d[i] /\ i \in 1 .. Len(p) + 1
      BY <2>1, <1>3
    <3> QED
      BY <3>1
  <2>2. CASE i > m
    <3>1. f[i] = e[i - m] /\ i - m \in 1 .. Len(q) + 1
      BY <2>2, <1>4
    <3> QED
      BY <3>1
  <2> QED
    BY <2>1, <2>2
<1>7. f[1] = a
  <2>1. CASE m = 0
    BY <2>1, <1>1, <1>2, <1>3
  <2>2. CASE m > 0
    BY <2>2, <1>1
  <2> QED
    BY <2>1, <2>2
<1>8. f[m + n + 1] = c
  BY <1>2, <1>4
<1>9. ASSUME NEW i \in 1 .. m + n PROVE <<(p \o q)[i], f[i], f[i + 1]>> \in G
  <2>1. CASE i <= m
    <3>1. (p \o q)[i] = p[i]
      BY <2>1, <1>3
    <3>2. f[i] = d[i]
      BY <2>1
    <3>3. f[i + 1] = d[i + 1]
      <4>1. CASE i + 1 <= m
        BY <4>1
      <4>2. CASE i = m
        BY <4>2, <1>1, <1>2, <1>3
      <4> QED
        BY <2>1, <4>1, <4>2
    <3> QED
      BY <3>1, <3>2, <3>3, <2>1, <1>1, <1>3
  <2>2. CASE i > m
    <3>1. PICK j \in 1 .. n : i = m + j
      <4>1. i - m \in 1 .. n /\ i = m + (i - m)
        BY <2>2
      <4> QED
        BY <4>1
    <3>2. (p \o q)[i] = q[j]
      BY <3>1, <1>3, <1>4
    <3>3. f[i] = e[j] /\ f[i + 1] = e[j + 1]
      <4>1. i - m = j /\ i + 1 - m = j + 1
        BY <3>1
      <4> QED
        BY <4>1, <2>2
    <3> QED
      BY <3>2, <3>3, <1>2, <1>4
  <2>3. i <= m \/ i > m
    OBVIOUS
  <2> HIDE DEF f
  <2> QED
    BY <2>1, <2>2, <2>3, Zenon
<1> QED
  <2> HIDE DEF f
  <2>1. \E g \in [1 .. Len(p \o q) + 1 -> L] :
          /\ g[1] = a /\ g[Len(p \o q) + 1] = c
          /\ \A i \in 1 .. Len(p \o q) : <<(p \o q)[i], g[i], g[i + 1]>> \in G
    BY <1>5, <1>6, <1>7, <1>8, <1>9
  <2> QED
    BY <2>1 DEF Runs

(* The first step is a move, and the others run from where it leads.       *)
LEMMA RunsHead ==
  ASSUME NEW S, NEW G, NEW L, NEW q \in Seq(S), q # <<>>, NEW a, NEW b, Runs(q, G, L, a, b)
  PROVE  \E c \in L : <<Head(q), a, c>> \in G /\ Runs(Tail(q), G, L, c, b)
<1>1. PICK d \in [1 .. Len(q) + 1 -> L] :
        /\ d[1] = a /\ d[Len(q) + 1] = b
        /\ \A i \in 1 .. Len(q) : <<q[i], d[i], d[i + 1]>> \in G
  BY DEF Runs
<1>2. PICK n \in Nat : Len(q) = n + 1
  <2>1. Len(q) - 1 \in Nat /\ Len(q) = Len(q) - 1 + 1
    OBVIOUS
  <2> QED
    BY <2>1
<1>3. Len(Tail(q)) = n /\ Head(q) = q[1] /\ \A i \in 1 .. n : Tail(q)[i] = q[i + 1]
  BY <1>2
<1> DEFINE e == [i \in 1 .. n + 1 |-> d[i + 1]]
<1>4. e \in [1 .. n + 1 -> L] /\ e[1] = d[2] /\ e[n + 1] = b
  BY <1>1, <1>2
<1>5. ASSUME NEW i \in 1 .. n PROVE <<Tail(q)[i], e[i], e[i + 1]>> \in G
  <2>1. e[i] = d[i + 1] /\ e[i + 1] = d[i + 1 + 1] /\ i + 1 \in 1 .. Len(q)
    BY <1>2
  <2> QED
    BY <2>1, <1>1, <1>3
<1>6. Runs(Tail(q), G, L, d[2], b)
  <2> HIDE DEF e
  <2> QED
    BY <1>3, <1>4, <1>5 DEF Runs
<1>7. <<Head(q), a, d[2]>> \in G /\ d[2] \in L
  BY <1>1, <1>2, <1>3
<1> QED
  BY <1>6, <1>7

(* Sequences that are put together run one after the other.                *)
LEMMA RunsFlatten ==
  ASSUME NEW S, NEW G, NEW L, NEW q \in Seq(Seq(S)), NEW d \in [1 .. Len(q) + 1 -> L],
         \A i \in 1 .. Len(q) : Runs(q[i], G, L, d[i], d[i + 1])
  PROVE  /\ FlattenSeq(q) \in Seq(S)
         /\ Runs(FlattenSeq(q), G, L, d[1], d[Len(q) + 1])
<1>1. CASE Len(q) = 0
  <2>1. FlattenSeq(q) = q /\ q = <<>>
    BY <1>1 DEF FlattenSeq
  <2>2. d[1] \in L
    BY <1>1
  <2> QED
    BY <2>1, <2>2, <1>1, RunsEmpty
<1>2. CASE Len(q) > 0
  <2>1. PICK g \in [1 .. Len(q) -> Seq(S)] :
          /\ g[1] = q[1]
          /\ \A i \in 1 .. Len(q) - 1 : g[i + 1] = g[i] \o q[i + 1]
          /\ FlattenSeq(q) = g[Len(q)]
    BY <1>2, FlattenStep
  <2>2. PICK n \in Nat \ {0} : n = Len(q)
    BY <1>2
  <2> DEFINE Good == {k \in Nat : k + 1 <= n => Runs(g[k + 1], G, L, d[1], d[k + 1 + 1])}
  <2>3. 0 \in Good
    BY <2>1, <2>2
  <2>4. ASSUME NEW k \in Nat, k \in Good PROVE k + 1 \in Good
    <3> SUFFICES ASSUME k + 1 + 1 <= n PROVE Runs(g[k + 1 + 1], G, L, d[1], d[k + 1 + 1 + 1])
      OBVIOUS
    <3>1. Runs(g[k + 1], G, L, d[1], d[k + 1 + 1])
      BY <2>4
    <3>2. Runs(q[k + 1 + 1], G, L, d[k + 1 + 1], d[k + 1 + 1 + 1])
      BY <2>2
    <3>3. g[k + 1 + 1] = g[k + 1] \o q[k + 1 + 1] /\ g[k + 1] \in Seq(S)
      <4>1. k + 1 \in 1 .. n - 1 /\ k + 1 \in 1 .. n
        OBVIOUS
      <4> HIDE DEF Good
      <4> QED
        BY <4>1, <2>1, <2>2
    <3>4. q[k + 1 + 1] \in Seq(S)
      BY <2>2
    <3>5. Runs(g[k + 1] \o q[k + 1 + 1], G, L, d[1], d[k + 1 + 1 + 1])
      BY <3>1, <3>2, <3>3, <3>4, RunsCat
    <3> QED
      BY <3>3, <3>5
  <2>5. n - 1 \in Good
    <3> HIDE DEF Good
    <3>1. \A k \in Nat : k \in Good => k + 1 \in Good
      BY <2>4
    <3>2. Nat \subseteq Good
      BY <2>3, <3>1, NatInd
    <3> QED
      BY <2>2, <3>2
  <2>6. n - 1 + 1 = n /\ n - 1 + 1 + 1 = n + 1
    OBVIOUS
  <2> QED
    BY <2>1, <2>2, <2>5, <2>6
<1> QED
  BY <1>1, <1>2

(* The values that are stored and written, and the steps commands make.    *)
AllFields == Fields(1) \cup Fields(2)
Values == UNION {{r[f] : f \in DOMAIN r} : r \in UNION {Rules[s] : s \in Sets}}
RuleValues == (UNION {Rules[s] : s \in Sets}) \cup {Nothing, AnyRule}
Entries == {CamAddr(s, id) : s \in Sets, id \in Ids}
Count32 == 0 .. Word - 1
StepsOf(s) ==
  [do : {"num"}, s : {s}, n : Count32]
    \cup [do : {"flag"}, s : {s}, id : Ids, fs : SUBSET Fields(s)]
    \cup [do : {"field"}, s : {s}, id : Ids, f : Fields(s), v : Values]
    \cup [do : {"delflag"}, s : {s}, id : Ids]
    \cup [do : {"delfield"}, s : {s}, id : Ids, f : Fields(s)]
    \cup [do : {"set"}, s : {s}, id : Ids, r : Rules[s]]
    \cup [do : {"clear", "show"}, s : {s}, id : Ids, r : {Nothing}]
    \cup [do : {"count"}, mode : {"reset", "save"}, s : {s}]
    \cup [do : {"scan"}, mode : {"reset", "save"}, s : {s}, id : 0 .. MaxRule, matched : Nat, number : Count32]
Steps ==
  [do : {"lock", "unlock", "startup", "uninit", "init", "signals", "global"}]
    \cup [do : {"reg"}, h : {1, 2}, r : RuleValues]
    \cup [do : {"cam"}, a : Entries]
    \cup UNION {StepsOf(s) : s \in Sets}

(* The steps that work on the database between a lock and an unlock, those *)
(* that need no lock, and those that stand for the rest of their command.  *)
Guarded == {"uninit", "num", "flag", "field", "delflag", "delfield", "count", "scan", "global"}
Free == {"reg", "cam", "signals"}
Branches == {"startup", "set", "clear", "show"}

(* The assumptions, in the form the proofs use.                            *)
LEMMA Numbers ==
  /\ MaxRule \in Nat \ {0} /\ Word \in Nat /\ Word > MaxRule + 1
  /\ Sets \subseteq {1, 2} /\ NoCli \notin Clis
  /\ RuleIds \subseteq Ids
BY RuleAssumption DEF Ids

(* The two fields of a rule set.                                           *)
LEMMA TwoFields ==
  ASSUME NEW s \in {1, 2}
  PROVE  FieldSeq[s][1] \in Fields(s) /\ FieldSeq[s][2] \in Fields(s) /\ FieldSeq[s][1] # FieldSeq[s][2]
         /\ Fields(s) = {FieldSeq[s][1], FieldSeq[s][2]}
<1>1. FieldSeq[s] = IF s = 1 THEN <<"protocol", "srcip">> ELSE <<"offset", "key">>
  BY DEF FieldSeq
<1>2. Fields(s) = {FieldSeq[s][1], FieldSeq[s][2]}
  BY DEF Fields
<1> QED
  BY <1>1, <1>2

(* What the constructors of steps return are steps.                        *)
LEMMA PlainSteps ==
  /\ Lock \in Steps /\ Unlock \in Steps
  /\ \A p \in {"startup", "uninit", "init", "signals", "global"} : Plain(p) \in Steps
BY DEF Steps, Lock, Unlock, Plain

(* The steps on a rule.                                                    *)
LEMMA RuleSteps ==
  ASSUME NEW s \in Sets
  PROVE  /\ \A n \in Count32 : SetNum(s, n) \in Steps
         /\ \A m \in {"reset", "save"} : Count(m, s) \in Steps
         /\ \A m \in {"reset", "save"}, i \in 0 .. MaxRule, k \in Nat, n \in Count32 : Scan(m, s, i, k, n) \in Steps
         /\ \A id \in Ids :
              /\ \A F \in SUBSET Fields(s) : InsertFlag(s, id, F) \in Steps
              /\ \A f \in Fields(s), v \in Values : InsertField(s, id, f, v) \in Steps
              /\ DeleteFlag(s, id) \in Steps
              /\ \A f \in Fields(s) : DeleteField(s, id, f) \in Steps
              /\ \A r \in Rules[s] : Branch("set", s, id, r) \in Steps
              /\ \A op \in {"clear", "show"} : Branch(op, s, id, Nothing) \in Steps
<1>1. StepsOf(s) \subseteq Steps
  BY DEF Steps
<1>2. \A n \in Count32 : SetNum(s, n) \in StepsOf(s)
  BY DEF StepsOf, SetNum
<1>3. \A m \in {"reset", "save"} : Count(m, s) \in StepsOf(s)
  BY DEF StepsOf, Count
<1>4. \A m \in {"reset", "save"}, i \in 0 .. MaxRule, k \in Nat, n \in Count32 : Scan(m, s, i, k, n) \in StepsOf(s)
  BY DEF StepsOf, Scan
<1>5. ASSUME NEW id \in Ids
      PROVE  /\ \A F \in SUBSET Fields(s) : InsertFlag(s, id, F) \in StepsOf(s)
             /\ \A f \in Fields(s), v \in Values : InsertField(s, id, f, v) \in StepsOf(s)
             /\ DeleteFlag(s, id) \in StepsOf(s)
             /\ \A f \in Fields(s) : DeleteField(s, id, f) \in StepsOf(s)
             /\ \A r \in Rules[s] : Branch("set", s, id, r) \in StepsOf(s)
             /\ \A op \in {"clear", "show"} : Branch(op, s, id, Nothing) \in StepsOf(s)
  BY DEF StepsOf, InsertFlag, InsertField, DeleteFlag, DeleteField, Branch
<1> QED
  BY <1>1, <1>2, <1>3, <1>4, <1>5

(* The steps on the device.                                                *)
LEMMA DeviceSteps ==
  /\ \A h \in {1, 2}, r \in RuleValues : WriteHalf(h, r) \in Steps
  /\ \A s \in Sets, id \in Ids : CamCommand(CamAddr(s, id)) \in Steps
<1>1. \A h \in {1, 2}, r \in RuleValues : WriteHalf(h, r) \in Steps
  BY DEF Steps, WriteHalf
<1>2. \A a \in Entries : CamCommand(a) \in Steps
  BY DEF Steps, CamCommand
<1> QED
  BY <1>1, <1>2 DEF Entries

(* What a step of each kind carries.                                       *)
LEMMA StepKinds ==
  ASSUME NEW t \in Steps
  PROVE  /\ t.do \in {"lock", "unlock", "init"} \cup Guarded \cup Free \cup Branches
         /\ t.do \in (Guarded \ {"uninit", "global"}) \cup {"set", "clear", "show"} => t.s \in Sets
         /\ t.do \in {"flag", "field", "delflag", "delfield", "set", "clear", "show"} => t.id \in Ids
         /\ t.do \in {"field", "delfield"} => t.f \in Fields(t.s)
         /\ t.do = "num" => t.n \in Count32
         /\ t.do = "flag" => t.fs \subseteq Fields(t.s)
         /\ t.do = "field" => t.v \in Values
         /\ t.do \in {"count", "scan"} => t.mode \in {"reset", "save"}
         /\ t.do = "scan" => t.id \in 0 .. MaxRule /\ t.matched \in Nat /\ t.number \in Count32
         /\ t.do = "set" => t.r \in Rules[t.s]
         /\ t.do \in {"clear", "show"} => t.r = Nothing
<1> DEFINE Goal ==
               /\ t.do \in {"lock", "unlock", "init"} \cup Guarded \cup Free \cup Branches
               /\ t.do \in (Guarded \ {"uninit", "global"}) \cup {"set", "clear", "show"} => t.s \in Sets
               /\ t.do \in {"flag", "field", "delflag", "delfield", "set", "clear", "show"} => t.id \in Ids
               /\ t.do \in {"field", "delfield"} => t.f \in Fields(t.s)
               /\ t.do = "num" => t.n \in Count32
               /\ t.do = "flag" => t.fs \subseteq Fields(t.s)
               /\ t.do = "field" => t.v \in Values
               /\ t.do \in {"count", "scan"} => t.mode \in {"reset", "save"}
               /\ t.do = "scan" => t.id \in 0 .. MaxRule /\ t.matched \in Nat /\ t.number \in Count32
               /\ t.do = "set" => t.r \in Rules[t.s]
               /\ t.do \in {"clear", "show"} => t.r = Nothing
<1> SUFFICES Goal
  OBVIOUS
<1>1. CASE t \in [do : {"lock", "unlock", "startup", "uninit", "init", "signals", "global"}]
  BY <1>1 DEF Guarded, Free, Branches
<1>2. CASE t \in [do : {"reg"}, h : {1, 2}, r : RuleValues]
  BY <1>2 DEF Guarded, Free, Branches
<1>3. CASE t \in [do : {"cam"}, a : Entries]
  BY <1>3 DEF Guarded, Free, Branches
<1>4. ASSUME NEW s \in Sets, t \in StepsOf(s) PROVE Goal
  <2>1. CASE t \in [do : {"num"}, s : {s}, n : Count32]
    BY <2>1 DEF Guarded, Free, Branches
  <2>2. CASE t \in [do : {"flag"}, s : {s}, id : Ids, fs : SUBSET Fields(s)]
    BY <2>2 DEF Guarded, Free, Branches
  <2>3. CASE t \in [do : {"field"}, s : {s}, id : Ids, f : Fields(s), v : Values]
    BY <2>3 DEF Guarded, Free, Branches
  <2>4. CASE t \in [do : {"delflag"}, s : {s}, id : Ids]
    BY <2>4 DEF Guarded, Free, Branches
  <2>5. CASE t \in [do : {"delfield"}, s : {s}, id : Ids, f : Fields(s)]
    BY <2>5 DEF Guarded, Free, Branches
  <2>6. CASE t \in [do : {"set"}, s : {s}, id : Ids, r : Rules[s]]
    BY <2>6 DEF Guarded, Free, Branches
  <2>7. CASE t \in [do : {"clear", "show"}, s : {s}, id : Ids, r : {Nothing}]
    BY <2>7 DEF Guarded, Free, Branches
  <2>8. CASE t \in [do : {"count"}, mode : {"reset", "save"}, s : {s}]
    BY <2>8 DEF Guarded, Free, Branches
  <2>9. CASE t \in [do : {"scan"}, mode : {"reset", "save"}, s : {s}, id : 0 .. MaxRule, matched : Nat, number : Count32]
    BY <2>9 DEF Guarded, Free, Branches
  <2> HIDE DEF Goal
  <2> QED
    BY <1>4, <2>1, <2>2, <2>3, <2>4, <2>5, <2>6, <2>7, <2>8, <2>9 DEF StepsOf
<1> HIDE DEF Goal
<1> QED
  BY <1>1, <1>2, <1>3, <1>4 DEF Steps

-----------------------------------------------------------------------------
(* The plans of the commands consist of such steps.                        *)
CamSteps == {t \in Steps : t.do \in {"reg", "cam"}}
FreeSteps == {t \in Steps : t.do \in Free}
HeldSteps == {t \in Steps : t.do \in Guarded \cup Free}

(* Sequences of steps of a kind are sequences of steps.                    *)
LEMMA Sub ==
  /\ CamSteps \subseteq FreeSteps /\ FreeSteps \subseteq HeldSteps /\ HeldSteps \subseteq Steps
  /\ Seq(CamSteps) \subseteq Seq(FreeSteps)
  /\ Seq(FreeSteps) \subseteq Seq(HeldSteps) /\ Seq(HeldSteps) \subseteq Seq(Steps)
<1>1. CamSteps \subseteq FreeSteps /\ FreeSteps \subseteq HeldSteps /\ HeldSteps \subseteq Steps
  BY DEF CamSteps, FreeSteps, HeldSteps, Free
<1>2. ASSUME NEW S, NEW T, S \subseteq T PROVE Seq(S) \subseteq Seq(T)
  <2> SUFFICES ASSUME NEW q \in Seq(S) PROVE q \in Seq(T)
    OBVIOUS
  <2>1. q \in [1 .. Len(q) -> S] /\ Len(q) \in Nat
    OBVIOUS
  <2>2. q \in [1 .. Len(q) -> T]
    BY <1>2, <2>1
  <2> QED
    BY <2>1, <2>2
<1> QED
  BY <1>1, <1>2

(* Writing a rule to the device needs no lock.                             *)
LEMMA DeviceFree ==
  ASSUME NEW s \in Sets, NEW id \in Ids, NEW r \in RuleValues
  PROVE  drv_set_ruleset(s, id, r) \in Seq(CamSteps)
<1>1. \A h \in {1, 2} : WriteHalf(h, r) \in CamSteps
  BY DeviceSteps DEF CamSteps, WriteHalf
<1>2. CamCommand(CamAddr(s, id)) \in CamSteps
  BY DeviceSteps DEF CamSteps, CamCommand
<1>3. <<WriteHalf(1, r), WriteHalf(2, r), CamCommand(CamAddr(s, id))>> \in Seq(CamSteps)
  BY <1>1, <1>2
<1> QED
  BY <1>3 DEF drv_set_ruleset, WriteCam

(* Neither does a reset of the device.                                     *)
LEMMA ResetFree ==
  ASSUME NEW s \in Sets
  PROVE  reset_filter_default_config(s) \in Seq(CamSteps)
<1> DEFINE piece(i) == drv_set_ruleset(s, i - 1, IF i < MaxRule THEN Nothing ELSE AnyRule)
           q == [i \in 1 .. MaxRule |-> piece(i)]
<1>1. ASSUME NEW i \in 1 .. MaxRule PROVE piece(i) \in Seq(CamSteps)
  <2>1. i - 1 \in Ids
    BY Numbers DEF Ids
  <2>2. (IF i < MaxRule THEN Nothing ELSE AnyRule) \in RuleValues
    <3>1. Nothing \in RuleValues /\ AnyRule \in RuleValues
      BY DEF RuleValues
    <3> QED
      BY <3>1, Zenon
  <2> QED
    BY <2>1, <2>2, DeviceFree
<1> HIDE DEF piece
<1>2. q \in Seq(Seq(CamSteps))
  BY <1>1, Numbers
<1>3. FlattenSeq(q) \in Seq(CamSteps)
  BY <1>2, FlattenOver
<1> QED
  BY <1>3 DEF reset_filter_default_config, piece

(* A sequence of two, put together.                                        *)
LEMMA Two ==
  ASSUME NEW a, NEW b
  PROVE  <<a>> \o <<b>> = <<a, b>>
<1> DEFINE S == {a, b}
           c == <<a>> \o <<b>>
<1>1. <<a>> \in Seq(S) /\ <<b>> \in Seq(S) /\ <<a, b>> \in Seq(S)
  OBVIOUS
<1>2. c \in Seq(S) /\ Len(c) = 2 /\ c[1] = a /\ c[2] = b
  BY <1>1
<1> HIDE DEF c, S
<1>3. Len(<<a, b>>) = 2 /\ <<a, b>>[1] = a /\ <<a, b>>[2] = b
  OBVIOUS
<1>4. \A x, y \in Seq(S) : Len(x) = Len(y) /\ (\A i \in 1 .. Len(x) : x[i] = y[i]) => x = y
  OBVIOUS
<1>5. c = <<a, b>>
  BY <1>1, <1>2, <1>3, <1>4
<1> QED
  BY <1>5 DEF c

(* The fields that a set of fields names, in the order of the code.        *)
LEMMA NamedFields ==
  ASSUME NEW s \in Sets, NEW F
  PROVE  Named(s, F) \in Seq(Fields(s)) /\ \A i \in 1 .. Len(Named(s, F)) : Named(s, F)[i] \in F
<1>1. s \in {1, 2}
  BY Numbers
<1> DEFINE a == FieldSeq[s][1]
           b == FieldSeq[s][2]
           p == IF a \in F THEN <<a>> ELSE <<>>
           q == IF b \in F THEN <<b>> ELSE <<>>
<1>2. a \in Fields(s) /\ b \in Fields(s)
  BY <1>1, TwoFields
<1>3. Named(s, F) = p \o q
  BY DEF Named
<1> HIDE DEF a, b
<1>4. CASE a \in F /\ b \in F
  <2>1. p = <<a>> /\ q = <<b>>
    BY <1>4
  <2>3. <<a>> \o <<b>> = <<a, b>>
    BY Two
  <2> QED
    BY <1>2, <1>3, <1>4, <2>1, <2>3
<1>5. CASE a \in F /\ b \notin F
  <2>1. p \o q = <<a>>
    BY <1>5
  <2> QED
    BY <1>2, <1>3, <1>5, <2>1
<1>6. CASE a \notin F /\ b \in F
  <2>1. p \o q = <<b>>
    BY <1>6
  <2> QED
    BY <1>2, <1>3, <1>6, <2>1
<1>7. CASE a \notin F /\ b \notin F
  <2>1. p \o q = <<>>
    BY <1>7
  <2> QED
    BY <1>3, <2>1
<1> QED
  BY <1>4, <1>5, <1>6, <1>7

(* Storing a rule needs the lock, and nothing but.                         *)
LEMMA SetHeld ==
  ASSUME NEW s \in Sets, NEW id \in Ids, NEW r \in Rules[s]
  PROVE  db_set_filter_rule(s, id, r) \in Seq(HeldSteps)
<1> DEFINE fs == Named(s, DOMAIN r)
           q == [i \in 1 .. Len(fs) |-> InsertField(s, id, fs[i], r[fs[i]])]
<1>1. fs \in Seq(Fields(s)) /\ \A i \in 1 .. Len(fs) : fs[i] \in DOMAIN r
  BY NamedFields
<1>2. DOMAIN r \subseteq Fields(s)
  BY RuleAssumption
<1>3. InsertFlag(s, id, DOMAIN r) \in HeldSteps
  BY <1>2, RuleSteps DEF HeldSteps, InsertFlag, Guarded
<1>4. ASSUME NEW i \in 1 .. Len(fs) PROVE InsertField(s, id, fs[i], r[fs[i]]) \in HeldSteps
  <2>1. r[fs[i]] \in Values /\ fs[i] \in Fields(s)
    BY <1>1 DEF Values
  <2> HIDE DEF fs
  <2>2. InsertField(s, id, fs[i], r[fs[i]]) \in Steps
    BY <2>1, RuleSteps
  <2> QED
    BY <2>2 DEF HeldSteps, InsertField, Guarded
<1> HIDE DEF fs
<1>5. q \in Seq(HeldSteps)
  BY <1>1, <1>4
<1> HIDE DEF q
<1>6. <<InsertFlag(s, id, DOMAIN r)>> \o q \in Seq(HeldSteps)
  BY <1>3, <1>5
<1> QED
  BY <1>6 DEF db_set_filter_rule, q, fs

(* So does deleting one.                                                   *)
LEMMA DeleteHeld ==
  ASSUME NEW s \in Sets, NEW id \in Ids
  PROVE  db_delete_filter_rule(s, id) \in Seq(HeldSteps)
<1> DEFINE fs == Named(s, flag[s][id])
           q == [i \in 1 .. Len(fs) |-> DeleteField(s, id, fs[i])]
<1>1. fs \in Seq(Fields(s))
  BY NamedFields
<1>2. DeleteFlag(s, id) \in HeldSteps
  BY RuleSteps DEF HeldSteps, DeleteFlag, Guarded
<1> HIDE DEF fs
<1>3. ASSUME NEW i \in 1 .. Len(fs) PROVE DeleteField(s, id, fs[i]) \in HeldSteps
  <2>1. fs[i] \in Fields(s)
    BY <1>1
  <2>2. DeleteField(s, id, fs[i]) \in Steps
    BY <2>1, RuleSteps
  <2> QED
    BY <2>2 DEF HeldSteps, DeleteField, Guarded
<1>4. q \in Seq(HeldSteps)
  BY <1>1, <1>3
<1> HIDE DEF q
<1>5. <<DeleteFlag(s, id)>> \o q \in Seq(HeldSteps)
  BY <1>2, <1>4
<1> QED
  BY <1>5 DEF db_delete_filter_rule, q, fs

(* What is done for each rule set is a sequence of the same steps.         *)
LEMMA PerSetIn ==
  ASSUME NEW S, NEW steps, \A s \in Sets : steps[s] \in Seq(S)
  PROVE  PerSet(steps) \in Seq(S)
<1>1. <<>> \in Seq(S)
  OBVIOUS
<1>2. (IF 1 \in Sets THEN steps[1] ELSE <<>>) \in Seq(S) /\ (IF 2 \in Sets THEN steps[2] ELSE <<>>) \in Seq(S)
  BY <1>1
<1> QED
  BY <1>2 DEF PerSet

(* What the resets, the save and the start-up do between locks.            *)
Body ==
  PerSet([s \in Sets |-> reset_filter_default_config(s)]) \o PerSet([s \in Sets |-> cli_reset_default_config_db(s)])
SaveBody == PerSet([s \in Sets |-> cli_save_config_filter(s)])
ZeroBody == PerSet([s \in Sets |-> db_init_config(s)])

(* The bodies of the resets and of the save need the lock.                 *)
LEMMA BodiesHeld ==
  Body \in Seq(HeldSteps) /\ SaveBody \in Seq(HeldSteps) /\ ZeroBody \in Seq(HeldSteps)
<1>1. PerSet([s \in Sets |-> reset_filter_default_config(s)]) \in Seq(HeldSteps)
  BY ResetFree, Sub, PerSetIn
<1>2. ASSUME NEW s \in Sets, NEW m \in {"reset", "save"} PROVE <<Count(m, s)>> \in Seq(HeldSteps)
  <2>1. Count(m, s) \in HeldSteps
    BY RuleSteps DEF HeldSteps, Count, Guarded
  <2> QED
    BY <2>1
<1>3. ASSUME NEW s \in Sets PROVE <<SetNum(s, 0)>> \in Seq(HeldSteps)
  <2>1. SetNum(s, 0) \in Steps
    <3>1. 0 \in Count32
      BY Numbers DEF Count32
    <3> QED
      BY <3>1, RuleSteps
  <2>2. SetNum(s, 0) \in HeldSteps
    BY <2>1 DEF HeldSteps, SetNum, Guarded
  <2> QED
    BY <2>2
<1>4. PerSet([s \in Sets |-> cli_reset_default_config_db(s)]) \in Seq(HeldSteps)
  BY <1>2, PerSetIn DEF cli_reset_default_config_db
<1>5. SaveBody \in Seq(HeldSteps)
  BY <1>2, PerSetIn DEF cli_save_config_filter, SaveBody
<1>6. ZeroBody \in Seq(HeldSteps)
  BY <1>3, PerSetIn DEF db_init_config, ZeroBody
<1>7. Body \in Seq(HeldSteps)
  BY <1>1, <1>4 DEF Body
<1> QED
  BY <1>5, <1>6, <1>7

(* The plans of the commands are sequences of steps.                       *)
LEMMA Plans ==
  /\ cli_reset_default_config = <<Lock>> \o Body \o <<Unlock>>
  /\ cli_save_config = <<Lock>> \o SaveBody \o <<Plain("global"), Unlock>>
  /\ Startup(TRUE) = <<Unlock, Plain("signals")>>
  /\ Startup(FALSE) =
       <<Plain("uninit")>> \o ZeroBody \o cli_reset_default_config
         \o <<Plain("init"), Unlock, Plain("signals")>> \o cli_reset_default_config
<1>1. \A a, b, c \in Seq(Steps) : <<Lock>> \o a \o b \o c = <<Lock>> \o (a \o b) \o c
  BY PlainSteps
<1>2. PerSet([s \in Sets |-> reset_filter_default_config(s)]) \in Seq(Steps)
  BY ResetFree, Sub, PerSetIn
<1>3. PerSet([s \in Sets |-> cli_reset_default_config_db(s)]) \in Seq(Steps)
  <2>1. \A s \in Sets : <<Count("reset", s)>> \in Seq(Steps)
    BY RuleSteps
  <2> QED
    BY <2>1, PerSetIn DEF cli_reset_default_config_db
<1>4. <<Unlock>> \in Seq(Steps)
  BY PlainSteps
<1> QED
  BY <1>1, <1>2, <1>3, <1>4 DEF cli_reset_default_config, cli_save_config, Startup, Body, SaveBody, ZeroBody

-----------------------------------------------------------------------------
(* What a step does to the locks of its cli: the nesting count, and        *)
(* whether the cli is on its way to mark the database as initialised,      *)
(* which it never is without the lock.                                     *)
Labels == {x \in [depth : 0 .. 2, marked : BOOLEAN] : x.marked => x.depth > 0}
At(d, m) == [depth |-> d, marked |-> m]
Goes(t, x, y) ==
  \/ t.do = "lock" /\ y = At(x.depth + 1, x.marked)
  \/ t.do = "unlock" /\ y = At(x.depth - 1, x.marked)
  \/ t.do = "init" /\ x.marked /\ y = At(x.depth, FALSE)
  \/ t.do \in Guarded /\ x.depth > 0 /\ y = x
  \/ t.do \in Free /\ y = x
LockMoves == {g \in Steps \X Labels \X Labels : Goes(g[1], g[2], g[3])}
LockRuns(q, x, y) == Runs(q, LockMoves, Labels, x, y)

(* The labels in use.                                                      *)
LEMMA LabelsAre ==
  /\ At(0, FALSE) \in Labels /\ At(1, FALSE) \in Labels /\ At(1, TRUE) \in Labels
  /\ At(0, FALSE).depth = 0 /\ At(1, FALSE).depth = 1 /\ At(1, TRUE).depth = 1
  /\ ~At(0, FALSE).marked /\ ~At(1, FALSE).marked /\ At(1, TRUE).marked
  /\ \A x \in Labels : x.depth \in 0 .. 2 /\ x.marked \in BOOLEAN /\ x = At(x.depth, x.marked)
                        /\ (x.marked => x.depth > 0)
BY DEF Labels, At

(* A step by itself.                                                       *)
LEMMA OneMove ==
  ASSUME NEW t \in Steps, NEW x \in Labels, NEW y \in Labels, Goes(t, x, y)
  PROVE  <<t>> \in Seq(Steps) /\ LockRuns(<<t>>, x, y)
<1>1. <<t, x, y>> \in LockMoves
  BY DEF LockMoves
<1>2. LockRuns(<<t>>, x, y)
  BY <1>1, RunsOne DEF LockRuns
<1> QED
  BY <1>2

(* Steps that hold the lock, and steps that need none, leave it alone.     *)
LEMMA Held ==
  ASSUME NEW q \in Seq(HeldSteps), NEW x \in Labels, x.depth > 0 \/ q \in Seq(FreeSteps)
  PROVE  LockRuns(q, x, x)
<1> DEFINE d == [i \in 1 .. Len(q) + 1 |-> x]
<1>1. ASSUME NEW i \in 1 .. Len(q) PROVE <<q[i], x, x>> \in LockMoves
  <2>1. q[i] \in HeldSteps
    OBVIOUS
  <2>2. x.depth > 0 \/ q[i].do \in Free
    BY DEF FreeSteps
  <2>3. Goes(q[i], x, x)
    BY <2>1, <2>2 DEF HeldSteps, Goes
  <2>4. q[i] \in Steps
    BY <2>1 DEF HeldSteps
  <2> QED
    BY <2>3, <2>4 DEF LockMoves
<1>2. d \in [1 .. Len(q) + 1 -> Labels] /\ d[1] = x /\ d[Len(q) + 1] = x
  OBVIOUS
<1>3. \A i \in 1 .. Len(q) : <<q[i], d[i], d[i + 1]>> \in LockMoves
  BY <1>1
<1> HIDE DEF d
<1> QED
  BY <1>2, <1>3 DEF LockRuns, Runs

(* Two parts of a command, one after the other.                            *)
LEMMA Cat ==
  ASSUME NEW p \in Seq(Steps), NEW q \in Seq(Steps), NEW x, NEW y, NEW z,
         LockRuns(p, x, y), LockRuns(q, y, z)
  PROVE  p \o q \in Seq(Steps) /\ LockRuns(p \o q, x, z)
BY RunsCat DEF LockRuns

(* A sequence of three, put together.                                      *)
LEMMA Three ==
  ASSUME NEW a, NEW b, NEW c
  PROVE  <<a>> \o <<b, c>> = <<a, b, c>>
<1> DEFINE S == {a, b, c}
           d == <<a>> \o <<b, c>>
<1>1. <<a>> \in Seq(S) /\ <<b, c>> \in Seq(S) /\ <<a, b, c>> \in Seq(S)
  OBVIOUS
<1>2. d \in Seq(S) /\ Len(d) = 3 /\ d[1] = a /\ d[2] = b /\ d[3] = c
  BY <1>1
<1> HIDE DEF d, S
<1>3. Len(<<a, b, c>>) = 3 /\ <<a, b, c>>[1] = a /\ <<a, b, c>>[2] = b /\ <<a, b, c>>[3] = c
  OBVIOUS
<1>4. \A x, y \in Seq(S) : Len(x) = Len(y) /\ (\A i \in 1 .. Len(x) : x[i] = y[i]) => x = y
  OBVIOUS
<1>5. d = <<a, b, c>>
  BY <1>1, <1>2, <1>3, <1>4
<1> QED
  BY <1>5 DEF d

(* Locks and unlocks count up and down.                                    *)
LEMMA Locking ==
  /\ <<Lock>> \in Seq(Steps) /\ <<Unlock>> \in Seq(Steps)
  /\ \A m \in BOOLEAN : LockRuns(<<Lock>>, At(1, m), At(2, m)) /\ LockRuns(<<Unlock>>, At(2, m), At(1, m))
  /\ LockRuns(<<Lock>>, At(0, FALSE), At(1, FALSE)) /\ LockRuns(<<Unlock>>, At(1, FALSE), At(0, FALSE))
<1>1. Lock \in Steps /\ Unlock \in Steps /\ Lock.do = "lock" /\ Unlock.do = "unlock"
  BY PlainSteps DEF Lock, Unlock
<1>2. ASSUME NEW m \in BOOLEAN PROVE LockRuns(<<Lock>>, At(1, m), At(2, m)) /\ LockRuns(<<Unlock>>, At(2, m), At(1, m))
  <2>1. At(1, m) \in Labels /\ At(2, m) \in Labels
    BY DEF Labels, At
  <2>2. Goes(Lock, At(1, m), At(2, m)) /\ Goes(Unlock, At(2, m), At(1, m))
    BY <1>1, LabelsAre DEF Goes, At
  <2> QED
    BY <1>1, <2>1, <2>2, OneMove
<1>3. Goes(Lock, At(0, FALSE), At(1, FALSE)) /\ Goes(Unlock, At(1, FALSE), At(0, FALSE))
  BY <1>1, LabelsAre DEF Goes, At
<1> QED
  <2>1. <<Lock>> \in Seq(Steps) /\ <<Unlock>> \in Seq(Steps)
    BY <1>1
  <2>2. LockRuns(<<Lock>>, At(0, FALSE), At(1, FALSE)) /\ LockRuns(<<Unlock>>, At(1, FALSE), At(0, FALSE))
    BY <1>1, <1>3, LabelsAre, OneMove
  <2> QED
    BY <1>2, <2>1, <2>2

(* A reset undoes its locks.                                               *)
LEMMA ResetRuns ==
  /\ cli_reset_default_config \in Seq(Steps)
  /\ LockRuns(cli_reset_default_config, At(0, FALSE), At(0, FALSE))
  /\ \A m \in BOOLEAN : LockRuns(cli_reset_default_config, At(1, m), At(1, m))
<1>1. Body \in Seq(Steps)
  BY BodiesHeld, Sub
<1>2. ASSUME NEW m \in BOOLEAN PROVE LockRuns(Body, At(1, m), At(1, m)) /\ LockRuns(Body, At(2, m), At(2, m))
  <2>1. At(1, m) \in Labels /\ At(2, m) \in Labels /\ At(1, m).depth > 0 /\ At(2, m).depth > 0
    BY DEF Labels, At
  <2> QED
    BY <2>1, BodiesHeld, Held
<1>3. LockRuns(<<Lock>> \o Body, At(0, FALSE), At(1, FALSE)) /\ <<Lock>> \o Body \in Seq(Steps)
  BY <1>1, <1>2, Locking, Cat
<1>4. \A m \in BOOLEAN : LockRuns(<<Lock>> \o Body, At(1, m), At(2, m))
  BY <1>1, <1>2, Locking, Cat
<1>5. LockRuns(<<Lock>> \o Body \o <<Unlock>>, At(0, FALSE), At(0, FALSE))
  BY <1>3, Locking, Cat
<1>6. \A m \in BOOLEAN : LockRuns(<<Lock>> \o Body \o <<Unlock>>, At(1, m), At(1, m))
  BY <1>3, <1>4, Locking, Cat
<1>7. cli_reset_default_config = <<Lock>> \o Body \o <<Unlock>>
  BY Plans
<1>8. <<Lock>> \o Body \o <<Unlock>> \in Seq(Steps)
  BY <1>3, Locking
<1> QED
  BY <1>5, <1>6, <1>7, <1>8

(* So does a save, which nests a second lock in its own.                   *)
LEMMA SaveRuns ==
  cli_save_config \in Seq(Steps) /\ LockRuns(cli_save_config, At(0, FALSE), At(0, FALSE))
<1>1. SaveBody \in Seq(Steps) /\ LockRuns(SaveBody, At(1, FALSE), At(1, FALSE))
  BY BodiesHeld, Sub, Held, LabelsAre
<1>2. <<Plain("global")>> \in Seq(Steps) /\ LockRuns(<<Plain("global")>>, At(1, FALSE), At(1, FALSE))
  <2>1. Plain("global") \in Steps /\ Plain("global").do \in Guarded
    BY PlainSteps DEF Plain, Guarded
  <2>2. Goes(Plain("global"), At(1, FALSE), At(1, FALSE))
    BY <2>1, LabelsAre DEF Goes, At
  <2> QED
    BY <2>1, <2>2, OneMove, LabelsAre
<1>3. <<Plain("global"), Unlock>> \in Seq(Steps) /\ LockRuns(<<Plain("global"), Unlock>>, At(1, FALSE), At(0, FALSE))
  <2>1. <<Plain("global")>> \o <<Unlock>> = <<Plain("global"), Unlock>>
    BY Two
  <2>2. /\ <<Plain("global")>> \o <<Unlock>> \in Seq(Steps)
        /\ LockRuns(<<Plain("global")>> \o <<Unlock>>, At(1, FALSE), At(0, FALSE))
    BY <1>2, Locking, Cat
  <2> QED
    BY <2>1, <2>2
<1>4. <<Lock>> \o SaveBody \in Seq(Steps) /\ LockRuns(<<Lock>> \o SaveBody, At(0, FALSE), At(1, FALSE))
  BY <1>1, Locking, Cat
<1> QED
  BY <1>3, <1>4, Cat, Plans

(* So does the start of a cli, whatever it finds, and it marks the         *)
(* database as initialised only if it did not find it so.                  *)
LEMMA StartupRuns ==
  /\ Startup(TRUE) \in Seq(Steps) /\ LockRuns(Startup(TRUE), At(1, FALSE), At(0, FALSE))
  /\ Startup(FALSE) \in Seq(Steps) /\ LockRuns(Startup(FALSE), At(1, TRUE), At(0, FALSE))
<1>1. <<Plain("signals")>> \in Seq(Steps) /\ LockRuns(<<Plain("signals")>>, At(0, FALSE), At(0, FALSE))
  <2>1. Plain("signals") \in Steps /\ Plain("signals").do \in Free
    BY PlainSteps DEF Plain, Free
  <2>2. Goes(Plain("signals"), At(0, FALSE), At(0, FALSE))
    BY <2>1, LabelsAre DEF Goes, At
  <2> QED
    BY <2>1, <2>2, OneMove, LabelsAre
<1>2. <<Unlock, Plain("signals")>> \in Seq(Steps) /\ LockRuns(<<Unlock, Plain("signals")>>, At(1, FALSE), At(0, FALSE))
  <2>1. <<Unlock>> \o <<Plain("signals")>> = <<Unlock, Plain("signals")>>
    BY Two
  <2>2. /\ <<Unlock>> \o <<Plain("signals")>> \in Seq(Steps)
        /\ LockRuns(<<Unlock>> \o <<Plain("signals")>>, At(1, FALSE), At(0, FALSE))
    BY <1>1, Locking, Cat
  <2> QED
    BY <2>1, <2>2
<1>3. <<Plain("uninit")>> \in Seq(Steps) /\ LockRuns(<<Plain("uninit")>>, At(1, TRUE), At(1, TRUE))
  <2>1. Plain("uninit") \in Steps /\ Plain("uninit").do \in Guarded
    BY PlainSteps DEF Plain, Guarded
  <2>2. Goes(Plain("uninit"), At(1, TRUE), At(1, TRUE))
    BY <2>1, LabelsAre DEF Goes, At
  <2> QED
    BY <2>1, <2>2, OneMove, LabelsAre
<1>4. <<Plain("init")>> \in Seq(Steps) /\ LockRuns(<<Plain("init")>>, At(1, TRUE), At(1, FALSE))
  <2>1. Plain("init") \in Steps /\ Plain("init").do = "init"
    BY PlainSteps DEF Plain
  <2>2. Goes(Plain("init"), At(1, TRUE), At(1, FALSE))
    BY <2>1, LabelsAre DEF Goes, At
  <2> QED
    BY <2>1, <2>2, OneMove, LabelsAre
<1>5. /\ <<Plain("init"), Unlock, Plain("signals")>> \in Seq(Steps)
      /\ LockRuns(<<Plain("init"), Unlock, Plain("signals")>>, At(1, TRUE), At(0, FALSE))
  <2>1. <<Plain("init")>> \o <<Unlock, Plain("signals")>> = <<Plain("init"), Unlock, Plain("signals")>>
    BY Three
  <2>2. /\ <<Plain("init")>> \o <<Unlock, Plain("signals")>> \in Seq(Steps)
        /\ LockRuns(<<Plain("init")>> \o <<Unlock, Plain("signals")>>, At(1, TRUE), At(0, FALSE))
    BY <1>2, <1>4, Cat
  <2> QED
    BY <2>1, <2>2
<1>6. ZeroBody \in Seq(Steps) /\ LockRuns(ZeroBody, At(1, TRUE), At(1, TRUE))
  BY BodiesHeld, Sub, Held, LabelsAre
<1> DEFINE a == <<Plain("uninit")>> \o ZeroBody
           b == a \o cli_reset_default_config
           c == b \o <<Plain("init"), Unlock, Plain("signals")>>
<1>7. a \in Seq(Steps) /\ LockRuns(a, At(1, TRUE), At(1, TRUE))
  BY <1>3, <1>6, Cat
<1> HIDE DEF a
<1>8. b \in Seq(Steps) /\ LockRuns(b, At(1, TRUE), At(1, TRUE))
  BY <1>7, ResetRuns, Cat
<1> HIDE DEF b
<1>9. c \in Seq(Steps) /\ LockRuns(c, At(1, TRUE), At(0, FALSE))
  BY <1>5, <1>8, Cat
<1> HIDE DEF c
<1>10. /\ c \o cli_reset_default_config \in Seq(Steps)
       /\ LockRuns(c \o cli_reset_default_config, At(1, TRUE), At(0, FALSE))
  BY <1>9, ResetRuns, Cat
<1> QED
  BY <1>2, <1>10, Plans DEF a, b, c

(* The first lock or unlock is what an error return goes on with: until    *)
(* there the nesting count has not changed.                                *)
LEMMA RecoverRuns ==
  ASSUME NEW q \in Seq(Steps), NEW x \in Labels, x.depth > 0, LockRuns(q, x, At(0, FALSE))
  PROVE  /\ Recover(q) \in Seq(Steps)
         /\ \E y \in Labels : /\ y.depth = x.depth /\ (y.marked => x.marked)
                              /\ LockRuns(Recover(q), y, At(0, FALSE))
<1>1. PICK d \in [1 .. Len(q) + 1 -> Labels] :
        /\ d[1] = x /\ d[Len(q) + 1] = At(0, FALSE)
        /\ \A i \in 1 .. Len(q) : <<q[i], d[i], d[i + 1]>> \in LockMoves
  BY DEF LockRuns, Runs
<1>2. PICK n \in Nat : n = Len(q)
  OBVIOUS
<1>3. \A i \in 1 .. n : q[i] \in Steps /\ d[i] \in Labels /\ d[i + 1] \in Labels /\ Goes(q[i], d[i], d[i + 1])
  BY <1>1, <1>2 DEF LockMoves
<1> DEFINE Turn(i) == q[i].do \in {"lock", "unlock"}
           Level == {k \in Nat : k <= n /\ (\A i \in 1 .. k : ~Turn(i))
                                 => d[k + 1].depth = x.depth /\ (d[k + 1].marked => x.marked)}
<1>4. 0 \in Level
  BY <1>1
<1>5. ASSUME NEW k \in Nat, k \in Level PROVE k + 1 \in Level
  <2> SUFFICES ASSUME k + 1 <= n, \A i \in 1 .. k + 1 : ~Turn(i)
               PROVE  d[k + 1 + 1].depth = x.depth /\ (d[k + 1 + 1].marked => x.marked)
    OBVIOUS
  <2>1. d[k + 1].depth = x.depth /\ (d[k + 1].marked => x.marked)
    BY <1>5
  <2>2. Goes(q[k + 1], d[k + 1], d[k + 1 + 1]) /\ ~Turn(k + 1) /\ d[k + 1] \in Labels
    BY <1>3
  <2>3. \/ d[k + 1 + 1] = At(d[k + 1].depth, FALSE)
        \/ d[k + 1 + 1] = d[k + 1]
    BY <2>2 DEF Goes
  <2>4. CASE d[k + 1 + 1] = At(d[k + 1].depth, FALSE)
    <3>1. d[k + 1 + 1].depth = d[k + 1].depth /\ ~d[k + 1 + 1].marked
      BY <2>4 DEF At
    <3> QED
      BY <2>1, <3>1
  <2> QED
    BY <2>1, <2>3, <2>4
<1>6. \A k \in 0 .. n : (\A i \in 1 .. k : ~Turn(i))
                         => d[k + 1].depth = x.depth /\ (d[k + 1].marked => x.marked)
  <2>1. Nat \subseteq Level
    <3> HIDE DEF Level
    <3>1. \A k \in Nat : k \in Level => k + 1 \in Level
      BY <1>5
    <3> QED
      BY <1>4, <3>1, NatInd
  <2> QED
    BY <2>1, <1>2
<1>7. \E i \in 1 .. n : Turn(i)
  <2> SUFFICES ASSUME \A i \in 1 .. n : ~Turn(i) PROVE FALSE
    OBVIOUS
  <2>1. d[n + 1].depth = x.depth
    BY <1>6
  <2>2. d[n + 1] = At(0, FALSE)
    BY <1>1, <1>2
  <2>3. x.depth = 0
    BY <2>1, <2>2 DEF At
  <2> QED
    BY <2>3
<1> DEFINE k == CHOOSE i \in 1 .. Len(q) :
                  /\ q[i].do \in {"lock", "unlock"}
                  /\ \A j \in 1 .. i - 1 : q[j].do \notin {"lock", "unlock"}
<1>8. k \in 1 .. n /\ Turn(k) /\ \A j \in 1 .. k - 1 : ~Turn(j)
  <2> DEFINE First(i) == q[i].do \in {"lock", "unlock"} /\ \A j \in 1 .. i - 1 : q[j].do \notin {"lock", "unlock"}
  <2>1. \E i \in 1 .. n : First(i)
    <3> DEFINE None == {m \in Nat : \A i \in 1 .. n : i <= m => ~Turn(i)}
    <3> SUFFICES ASSUME \A i \in 1 .. n : ~First(i) PROVE FALSE
      OBVIOUS
    <3>1. 0 \in None
      OBVIOUS
    <3>2. ASSUME NEW m \in Nat, m \in None PROVE m + 1 \in None
      BY <3>2
    <3>3. Nat \subseteq None
      <4> HIDE DEF None
      <4>1. \A m \in Nat : m \in None => m + 1 \in None
        BY <3>2
      <4> QED
        BY <3>1, <4>1, NatInd
    <3>4. n \in None
      BY <3>3
    <3>5. \A i \in 1 .. n : ~Turn(i)
      BY <3>4
    <3> QED
      BY <3>5, <1>7
  <2> HIDE DEF First
  <2>2. (CHOOSE i \in 1 .. n : First(i)) \in 1 .. n /\ First(CHOOSE i \in 1 .. n : First(i))
    BY <2>1
  <2>3. k = CHOOSE i \in 1 .. n : First(i)
    BY <1>2 DEF First
  <2> HIDE DEF k
  <2> QED
    BY <2>2, <2>3 DEF First
<1> HIDE DEF k
<1> DEFINE rest == SubSeq(q, k, Len(q))
           e == [i \in 1 .. n - k + 1 + 1 |-> d[k + i - 1]]
<1>9. /\ rest \in Seq(Steps) /\ Len(rest) = n - k + 1
      /\ \A i \in 1 .. n - k + 1 : rest[i] = q[k + i - 1]
  BY <1>2, <1>8
<1>10. PICK m \in Nat : m = n - k + 1
  BY <1>8
<1>11. e \in [1 .. m + 1 -> Labels] /\ e[1] = d[k] /\ e[m + 1] = At(0, FALSE)
  <2>1. \A i \in 1 .. m + 1 : k + i - 1 \in 1 .. n + 1
    <3>1. n \in Nat /\ k \in 1 .. n /\ m \in Nat /\ m = n - k + 1
      BY <1>8, <1>10
    <3> QED
      BY <3>1
  <2>2. e \in [1 .. m + 1 -> Labels]
    BY <2>1, <1>1, <1>2, <1>10
  <2>3. k + 1 - 1 = k /\ k + (m + 1) - 1 = n + 1
    BY <1>8, <1>10
  <2>4. e[1] = d[k] /\ e[m + 1] = d[n + 1]
    <3>1. 1 \in 1 .. n - k + 1 + 1 /\ m + 1 \in 1 .. n - k + 1 + 1
      BY <1>10
    <3>2. e[1] = d[k + 1 - 1] /\ e[m + 1] = d[k + (m + 1) - 1]
      BY <3>1
    <3> QED
      BY <3>2, <2>3
  <2> HIDE DEF e
  <2> QED
    BY <2>2, <2>4, <1>1, <1>2
<1>12. ASSUME NEW i \in 1 .. m PROVE Goes(rest[i], e[i], e[i + 1]) /\ <<rest[i], e[i], e[i + 1]>> \in LockMoves
  <2>1. PICK j \in 1 .. n : j = k + i - 1
    BY <1>8, <1>10
  <2>2. rest[i] = q[j] /\ e[i] = d[j] /\ e[i + 1] = d[j + 1]
    <3>1. k + (i + 1) - 1 = j + 1 /\ i \in 1 .. n - k + 1 + 1 /\ i + 1 \in 1 .. n - k + 1 + 1
      BY <2>1, <1>8, <1>10
    <3> QED
      BY <3>1, <2>1, <1>9, <1>10
  <2> QED
    BY <2>2, <1>1, <1>2, <1>3
<1> HIDE DEF e
<1>13. LockRuns(rest, d[k], At(0, FALSE))
  BY <1>9, <1>10, <1>11, <1>12 DEF LockRuns, Runs
<1> DEFINE piece(i) == IF rest[i].do \in {"reg", "cam"} THEN <<>> ELSE <<rest[i]>>
           sifted == [i \in 1 .. Len(rest) |-> piece(i)]
<1> HIDE DEF rest
<1>14. FlattenSeq(sifted) \in Seq(Steps) /\ LockRuns(FlattenSeq(sifted), d[k], At(0, FALSE))
  <2>1. ASSUME NEW i \in 1 .. m PROVE piece(i) \in Seq(Steps) /\ LockRuns(piece(i), e[i], e[i + 1])
    <3>1. rest[i] \in Steps /\ e[i] \in Labels /\ e[i + 1] \in Labels
      <4>1. rest[i] \in Steps
        BY <1>9, <1>10
      <4>2. i \in 1 .. m + 1 /\ i + 1 \in 1 .. m + 1
        OBVIOUS
      <4> QED
        BY <4>1, <4>2, <1>11
    <3>2. CASE rest[i].do \in {"reg", "cam"}
      <4>1. piece(i) = <<>>
        BY <3>2
      <4>2. e[i] = e[i + 1]
        BY <3>2, <1>12 DEF Goes, Free, Guarded
      <4>3. LockRuns(<<>>, e[i], e[i])
        BY <3>1, RunsEmpty DEF LockRuns
      <4> QED
        BY <4>1, <4>2, <4>3
    <3>3. CASE rest[i].do \notin {"reg", "cam"}
      <4>1. piece(i) = <<rest[i]>>
        BY <3>3
      <4>2. LockRuns(<<rest[i]>>, e[i], e[i + 1])
        BY <3>1, <1>12, OneMove
      <4> QED
        BY <3>1, <4>1, <4>2
    <3> QED
      BY <3>2, <3>3
  <2> HIDE DEF piece
  <2>2. sifted \in Seq(Seq(Steps)) /\ Len(sifted) = m /\ \A i \in 1 .. m : sifted[i] = piece(i)
    BY <2>1, <1>9, <1>10, SMTT(30)
  <2> HIDE DEF sifted
  <2>3. \A i \in 1 .. Len(sifted) : Runs(sifted[i], LockMoves, Labels, e[i], e[i + 1])
    BY <2>1, <2>2 DEF LockRuns
  <2>4. e \in [1 .. Len(sifted) + 1 -> Labels]
    BY <2>2, <1>11
  <2>5. FlattenSeq(sifted) \in Seq(Steps) /\ Runs(FlattenSeq(sifted), LockMoves, Labels, e[1], e[Len(sifted) + 1])
    BY <2>2, <2>3, <2>4, RunsFlatten
  <2> QED
    BY <2>2, <2>5, <1>11 DEF LockRuns
<1> HIDE DEF sifted
<1>15. Recover(q) = rest \/ Recover(q) = FlattenSeq(sifted)
  BY DEF Recover, rest, sifted, piece, k
<1>16. d[k].depth = x.depth /\ (d[k].marked => x.marked) /\ d[k] \in Labels
  <2>1. PICK j \in 0 .. n : k = j + 1
    <3>1. k - 1 \in 0 .. n /\ k = k - 1 + 1
      BY <1>8
    <3> QED
      BY <3>1
  <2>2. \A i \in 1 .. j : ~Turn(i)
    BY <1>8, <2>1
  <2> QED
    BY <1>6, <2>1, <2>2, <1>1, <1>2, <1>8
<1> QED
  BY <1>9, <1>13, <1>14, <1>15, <1>16

-----------------------------------------------------------------------------
Idle == At(0, FALSE)

Types ==
  /\ owner \in Clis \cup {NoCli}
  /\ db_lock \in [Clis -> Count32]
  /\ up \in [Clis -> {"off", "starting", "on"}]
  /\ todo \in [Clis -> Seq(Steps)]
  /\ inited \in BOOLEAN
  /\ num \in [Sets -> Count32 \cup {Absent}]

(* A command that has not got to its branch, or what is left of one.       *)
Branching(c) ==
  \E t \in Steps : /\ t.do \in Branches
                   /\ \/ todo[c] = <<Lock, t>> /\ db_lock[c] = 0
                      \/ todo[c] = <<t>> /\ db_lock[c] = 1
Going(c) ==
  \E x \in Labels : /\ x.depth = db_lock[c]
                    /\ x.marked => ~inited \/ faults > 0
                    /\ LockRuns(todo[c], x, Idle)
Orderly(c) ==
  IF up[c] = "off" THEN todo[c] = <<>> /\ owner # c
  ELSE (owner = c <=> db_lock[c] > 0) /\ (Branching(c) \/ Going(c))
Order == \A c \in Clis : Orderly(c)

IInv == faults \in Nat /\ (SettingsRead => Types /\ Order)

(* The head of what is left of a command, when it is not its branch.       *)
LEMMA Taken ==
  ASSUME Types, NEW c \in Clis, Orderly(c), todo[c] # <<>>, Head(todo[c]).do \notin Branches
  PROVE  /\ up[c] # "off" /\ Rest(c) \in Seq(Steps) /\ Head(todo[c]) \in Steps
         /\ owner = c <=> db_lock[c] > 0
         /\ \/ \E t \in Steps : t.do \in Branches /\ todo[c] = <<Lock, t>> /\ db_lock[c] = 0
            \/ \E x, y \in Labels :
                 /\ x.depth = db_lock[c] /\ (x.marked => ~inited \/ faults > 0)
                 /\ Goes(Head(todo[c]), x, y) /\ LockRuns(Rest(c), y, Idle)
<1>1. up[c] # "off" /\ todo[c] \in Seq(Steps)
  BY DEF Orderly, Types
<1>2. Rest(c) \in Seq(Steps) /\ Head(todo[c]) \in Steps
  BY <1>1 DEF Rest
<1>3. (owner = c <=> db_lock[c] > 0) /\ (Branching(c) \/ Going(c))
  BY <1>1 DEF Orderly
<1>4. CASE Branching(c)
  <2>1. PICK t \in Steps : t.do \in Branches /\ (todo[c] = <<t>> \/ (todo[c] = <<Lock, t>> /\ db_lock[c] = 0))
    BY <1>4 DEF Branching
  <2>2. todo[c] # <<t>>
    BY <2>1
  <2> QED
    BY <1>1, <1>2, <1>3, <2>1, <2>2
<1>5. CASE Going(c)
  <2>1. PICK x \in Labels : /\ x.depth = db_lock[c] /\ (x.marked => ~inited \/ faults > 0)
                            /\ LockRuns(todo[c], x, Idle)
    BY <1>5 DEF Going
  <2>2. PICK y \in Labels : <<Head(todo[c]), x, y>> \in LockMoves /\ LockRuns(Tail(todo[c]), y, Idle)
    BY <1>1, <2>1, RunsHead DEF LockRuns
  <2>3. Goes(Head(todo[c]), x, y)
    BY <2>2 DEF LockMoves
  <2> QED
    BY <1>1, <1>2, <1>3, <2>1, <2>2, <2>3 DEF Rest
<1> QED
  BY <1>3, <1>4, <1>5

(* A command that has got to its branch holds the lock, once.              *)
LEMMA Branched ==
  ASSUME Types, NEW c \in Clis, Orderly(c), todo[c] # <<>>, Head(todo[c]).do \in Branches
  PROVE  /\ up[c] # "off" /\ Head(todo[c]) \in Steps /\ owner = c /\ db_lock[c] = 1
         /\ todo[c] = <<Head(todo[c])>>
<1>1. up[c] # "off" /\ todo[c] \in Seq(Steps)
  BY DEF Orderly, Types
<1>2. (owner = c <=> db_lock[c] > 0) /\ (Branching(c) \/ Going(c))
  BY <1>1 DEF Orderly
<1>3. ~Going(c)
  <2> SUFFICES ASSUME Going(c) PROVE FALSE
    OBVIOUS
  <2>1. PICK x \in Labels : LockRuns(todo[c], x, Idle)
    BY DEF Going
  <2>2. PICK y \in Labels : <<Head(todo[c]), x, y>> \in LockMoves
    BY <1>1, <2>1, RunsHead DEF LockRuns
  <2>3. Goes(Head(todo[c]), x, y)
    BY <2>2 DEF LockMoves
  <2> QED
    BY <2>3 DEF Goes, Branches, Guarded, Free
<1>4. PICK t \in Steps : t.do \in Branches /\ (todo[c] = <<Lock, t>> \/ (todo[c] = <<t>> /\ db_lock[c] = 1))
  <2>1. Branching(c)
    BY <1>2, <1>3
  <2> QED
    BY <2>1, Zenon DEF Branching
<1>5. todo[c] # <<Lock, t>>
  <2> SUFFICES ASSUME todo[c] = <<Lock, t>> PROVE FALSE
    OBVIOUS
  <2>1. Head(todo[c]) = Lock
    OBVIOUS
  <2> QED
    BY <2>1 DEF Lock, Branches
<1> QED
  BY <1>1, <1>2, <1>4, <1>5

(* A step of one cli leaves the others in order.                           *)
LEMMA Others ==
  ASSUME Types, Order, faults \in Nat, faults' \in Nat, faults' >= faults,
         NEW c \in Clis, NEW d \in Clis, d # c,
         todo'[d] = todo[d], db_lock'[d] = db_lock[d], up'[d] = up[d],
         \/ owner' = owner
         \/ owner = NoCli /\ owner' = c
         \/ owner = c /\ owner' = NoCli,
         inited' => inited \/ owner = c
  PROVE  Orderly(d)'
<1>1. NoCli # d
  BY Numbers
<1>2. owner' = d <=> owner = d
  BY <1>1
<1>3. CASE up[d] = "off"
  BY <1>2, <1>3 DEF Orderly, Order
<1>4. CASE up[d] # "off"
  <2>1. (owner = d <=> db_lock[d] > 0) /\ (Branching(d) \/ Going(d))
    BY <1>4 DEF Orderly, Order
  <2>2. CASE Branching(d)
    <3>1. Branching(d)'
      BY <2>2 DEF Branching
    <3> QED
      BY <1>2, <1>4, <2>1, <3>1 DEF Orderly
  <2>3. CASE Going(d)
    <3>1. PICK x \in Labels : /\ x.depth = db_lock[d] /\ (x.marked => ~inited \/ faults > 0)
                              /\ LockRuns(todo[d], x, Idle)
      BY <2>3 DEF Going
    <3>2. x.marked => ~inited' \/ faults' > 0
      <4> SUFFICES ASSUME x.marked PROVE ~inited' \/ faults' > 0
        OBVIOUS
      <4>1. db_lock[d] > 0
        BY <3>1, LabelsAre
      <4>2. owner # c
        BY <2>1, <4>1
      <4> QED
        BY <3>1, <4>2
    <3>3. Going(d)'
      BY <3>1, <3>2 DEF Going
    <3> QED
      BY <1>2, <1>4, <2>1, <3>3 DEF Orderly
  <2> QED
    BY <2>1, <2>2, <2>3
<1> QED
  BY <1>3, <1>4

(* A step inside a section, or one that needs no lock, goes on with a      *)
(* sequence that can be run where what is left of the command can.         *)
LEMMA Continue ==
  ASSUME Types, Order, faults \in Nat, faults' \in Nat, faults' >= faults,
         NEW c \in Clis, todo[c] # <<>>, Head(todo[c]).do \in Guarded \cup Free,
         UNCHANGED <<owner, db_lock, up>>, inited' => inited,
         NEW q \in Seq(Steps), todo' = [todo EXCEPT ![c] = q],
         \A y \in Labels :
           /\ y.depth = db_lock[c] /\ (Head(todo[c]).do \in Guarded => y.depth > 0)
           /\ LockRuns(Rest(c), y, Idle)
           => \E z \in Labels : /\ z.depth = y.depth /\ (z.marked => y.marked)
                                /\ LockRuns(q, z, Idle)
  PROVE  Order' /\ todo' \in [Clis -> Seq(Steps)]
<1>1. Head(todo[c]).do \notin Branches /\ Head(todo[c]).do # "lock"
  BY DEF Branches, Guarded, Free
<1>2. todo[c] \in Seq(Steps) /\ todo'[c] = q /\ todo' \in [Clis -> Seq(Steps)]
  BY DEF Types
<1>3. \A t : todo[c] # <<Lock, t>>
  <2> SUFFICES ASSUME NEW t, todo[c] = <<Lock, t>> PROVE FALSE
    OBVIOUS
  <2>1. Head(todo[c]) = Lock
    OBVIOUS
  <2> QED
    BY <2>1, <1>1 DEF Lock
<1>4. /\ up[c] # "off" /\ (owner = c <=> db_lock[c] > 0)
      /\ \E x, y \in Labels :
           /\ x.depth = db_lock[c] /\ (x.marked => ~inited \/ faults > 0)
           /\ Goes(Head(todo[c]), x, y) /\ LockRuns(Rest(c), y, Idle)
  BY <1>1, <1>3, Taken DEF Order
<1>5. PICK x, y \in Labels :
           /\ x.depth = db_lock[c] /\ (x.marked => ~inited \/ faults > 0)
           /\ Goes(Head(todo[c]), x, y) /\ LockRuns(Rest(c), y, Idle)
  BY <1>4
<1>6. y = x /\ (Head(todo[c]).do \in Guarded => y.depth > 0)
  BY <1>1, <1>5 DEF Goes, Guarded, Free
<1>7. PICK z \in Labels : z.depth = y.depth /\ (z.marked => y.marked) /\ LockRuns(q, z, Idle)
  BY <1>5, <1>6
<1>8. Going(c)'
  <2>1. z.depth = db_lock'[c]
    BY <1>5, <1>6, <1>7
  <2>2. z.marked => ~inited' \/ faults' > 0
    BY <1>5, <1>6, <1>7
  <2>3. LockRuns(todo'[c], z, Idle)
    BY <1>2, <1>7
  <2> QED
    BY <2>1, <2>2, <2>3 DEF Going
<1>9. Orderly(c)'
  BY <1>4, <1>8 DEF Orderly
<1>10. ASSUME NEW d \in Clis, d # c PROVE Orderly(d)'
  <2>1. todo'[d] = todo[d]
    BY <1>10 DEF Types
  <2> QED
    BY <1>10, <2>1, Others
<1> QED
  BY <1>2, <1>9, <1>10 DEF Order

-----------------------------------------------------------------------------
(* The actions.                                                            *)
Kept == Types /\ Order

LEMMA InitInv == Init => IInv
<1> SUFFICES ASSUME Init PROVE IInv
  OBVIOUS
<1>1. Types
  <2>1. 0 \in Count32
    BY Numbers DEF Count32
  <2>2. <<>> \in Seq(Steps)
    OBVIOUS
  <2>3. todo \in [Clis -> Seq(Steps)]
    BY <2>2 DEF Init
  <2>4. num \in [Sets -> Count32 \cup {Absent}]
    BY DEF Init
  <2>5. db_lock \in [Clis -> Count32] /\ up \in [Clis -> {"off", "starting", "on"}]
    BY <2>1 DEF Init
  <2> QED
    BY <2>3, <2>4, <2>5 DEF Init, Types
<1>2. Order
  BY Numbers DEF Init, Order, Orderly
<1> QED
  BY <1>1, <1>2 DEF Init, IInv

(* A cli gets a command when it has nothing to do, and no lock.            *)
LEMMA GiveInv ==
  ASSUME Kept, faults \in Nat, NEW c \in Clis, NEW op, NEW q, Give(c, op, q),
         \/ \E t \in Steps : t.do \in Branches /\ q = <<Lock, t>>
         \/ q \in Seq(Steps) /\ LockRuns(q, Idle, Idle)
  PROVE  Kept'
<1>1. /\ up[c] = "on" /\ todo[c] = <<>> /\ todo' = [todo EXCEPT ![c] = q]
      /\ UNCHANGED <<owner, db_lock, up, inited, num, faults>>
  BY DEF Give, Ready, Become, dbvars
<1>2. (owner = c <=> db_lock[c] > 0) /\ db_lock[c] = 0
  <2>1. (owner = c <=> db_lock[c] > 0) /\ (Branching(c) \/ Going(c))
    BY <1>1 DEF Kept, Order, Orderly
  <2>2. ~Branching(c)
    <3> SUFFICES ASSUME NEW t \in Steps, todo[c] = <<Lock, t>> \/ todo[c] = <<t>> PROVE FALSE
      BY DEF Branching
    <3> QED
      BY <1>1
  <2>3. PICK x \in Labels : x.depth = db_lock[c] /\ LockRuns(<<>>, x, Idle)
    BY <1>1, <2>1, <2>2 DEF Going
  <2>4. x = Idle
    BY <2>3, RunsEmpty DEF LockRuns
  <2> QED
    BY <2>1, <2>3, <2>4, LabelsAre DEF Idle
<1>3. q \in Seq(Steps)
  <2>1. ASSUME NEW t \in Steps PROVE <<Lock, t>> \in Seq(Steps)
    BY PlainSteps
  <2> QED
    BY <2>1
<1>4. Types'
  BY <1>1, <1>3 DEF Kept, Types
<1>5. todo'[c] = q
  BY <1>1 DEF Kept, Types
<1>6. Branching(c)' \/ Going(c)'
  <2>1. CASE \E t \in Steps : t.do \in Branches /\ q = <<Lock, t>>
    <3>1. Branching(c)'
      BY <1>1, <1>2, <1>5, <2>1 DEF Branching
    <3> QED
      BY <3>1
  <2>2. CASE LockRuns(q, Idle, Idle)
    <3>1. Idle \in Labels /\ Idle.depth = 0 /\ ~Idle.marked
      BY LabelsAre DEF Idle
    <3>2. Going(c)'
      BY <1>1, <1>2, <1>5, <2>2, <3>1 DEF Going
    <3> QED
      BY <3>2
  <2> QED
    BY <2>1, <2>2
<1>7. Orderly(c)'
  BY <1>1, <1>2, <1>6 DEF Orderly
<1>8. ASSUME NEW d \in Clis, d # c PROVE Orderly(d)'
  <2>1. todo'[d] = todo[d]
    BY <1>1, <1>8 DEF Kept, Types
  <2> QED
    BY <1>1, <1>8, <2>1, Others DEF Kept
<1> QED
  BY <1>4, <1>7, <1>8 DEF Kept, Order

(* The commands of the operator.                                           *)
LEMMA CommandInv ==
  ASSUME Kept, faults \in Nat, NEW c \in Clis, Command(c)
  PROVE  Kept'
<1>1. ASSUME set(c) PROVE Kept'
  <2>1. PICK s \in Sets, id \in RuleIds : \E r \in Rules[s] : Give(c, "set", <<Lock, Branch("set", s, id, r)>>)
    BY <1>1 DEF set
  <2>2. PICK r \in Rules[s] : Give(c, "set", <<Lock, Branch("set", s, id, r)>>)
    BY <2>1
  <2>3. Branch("set", s, id, r) \in Steps /\ Branch("set", s, id, r).do \in Branches
    BY RuleSteps, Numbers DEF Branch, Branches
  <2> QED
    BY <2>2, <2>3, GiveInv
<1>2. ASSUME NEW op \in {"clear", "show"}, NEW s \in Sets, NEW id \in RuleIds,
             Give(c, op, <<Lock, Branch(op, s, id, Nothing)>>)
      PROVE  Kept'
  <2>1. Branch(op, s, id, Nothing) \in Steps
    BY RuleSteps, Numbers
  <2>2. Branch(op, s, id, Nothing).do \in Branches
    BY DEF Branch, Branches
  <2> QED
    BY <1>2, <2>1, <2>2, GiveInv
<1>3. ASSUME clear(c) \/ show(c) PROVE Kept'
  BY <1>2, <1>3 DEF clear, show
<1>4. ASSUME restore(c) PROVE Kept'
  BY <1>4, ResetRuns, GiveInv DEF restore, Idle
<1>5. ASSUME save(c) PROVE Kept'
  BY <1>5, SaveRuns, GiveInv DEF save, Idle
<1> QED
  BY <1>1, <1>3, <1>4, <1>5 DEF Command

(* A cli starts.                                                           *)
LEMMA StartInv ==
  ASSUME Kept, faults \in Nat, NEW c \in Clis, StartCLI(c)
  PROVE  Kept'
<1> DEFINE t == Plain("startup")
<1>1. t \in Steps /\ t.do \in Branches /\ <<Lock, t>> \in Seq(Steps)
  BY PlainSteps DEF Plain, Branches
<1>2. /\ up[c] = "off" /\ todo' = [todo EXCEPT ![c] = <<Lock, t>>]
      /\ up' = [up EXCEPT ![c] = "starting"] /\ db_lock' = [db_lock EXCEPT ![c] = 0]
      /\ UNCHANGED <<owner, inited, num, faults>>
  BY DEF StartCLI, Become, dbvars
<1> HIDE DEF t
<1>3. owner # c
  BY <1>2 DEF Kept, Order, Orderly
<1>4. 0 \in Count32
  BY Numbers DEF Count32
<1>5. Types'
  BY <1>1, <1>2, <1>4 DEF Kept, Types
<1>6. todo'[c] = <<Lock, t>> /\ db_lock'[c] = 0 /\ up'[c] = "starting"
  BY <1>2 DEF Kept, Types
<1>7. Branching(c)'
  BY <1>1, <1>6 DEF Branching
<1>8. Orderly(c)'
  BY <1>2, <1>3, <1>6, <1>7 DEF Orderly
<1>9. ASSUME NEW d \in Clis, d # c PROVE Orderly(d)'
  <2>1. todo'[d] = todo[d] /\ up'[d] = up[d] /\ db_lock'[d] = db_lock[d]
    BY <1>2, <1>9 DEF Kept, Types
  <2> QED
    BY <1>2, <1>9, <2>1, Others DEF Kept
<1> QED
  BY <1>5, <1>8, <1>9 DEF Kept, Order

(* A cli ends, by itself or by a signal: db_close gives the lock back.     *)
LEMMA LeaveInv ==
  ASSUME Kept, faults \in Nat, NEW c \in Clis, Leave(c), faults' \in Nat, faults' >= faults
  PROVE  Kept'
<1>1. /\ todo' = [todo EXCEPT ![c] = <<>>] /\ up' = [up EXCEPT ![c] = "off"]
      /\ owner' = IF owner = c THEN NoCli ELSE owner
      /\ UNCHANGED <<db_lock, inited, num>>
  BY DEF Leave, Become, dbvars
<1>2. Types'
  BY <1>1 DEF Kept, Types
<1>3. Orderly(c)'
  <2>1. todo'[c] = <<>> /\ up'[c] = "off" /\ owner' # c
    BY <1>1, Numbers DEF Kept, Types
  <2> QED
    BY <2>1 DEF Orderly
<1>4. ASSUME NEW d \in Clis, d # c PROVE Orderly(d)'
  <2>1. todo'[d] = todo[d] /\ up'[d] = up[d] /\ db_lock'[d] = db_lock[d]
    BY <1>1, <1>4 DEF Kept, Types
  <2>2. owner' = owner \/ (owner = c /\ owner' = NoCli)
    BY <1>1
  <2> QED
    BY <1>1, <1>4, <2>1, <2>2, Others DEF Kept
<1> QED
  BY <1>2, <1>3, <1>4 DEF Kept, Order

(* The nesting count is that of the labels, and small.                     *)
LEMMA LockedInv ==
  ASSUME Kept, faults \in Nat, NEW c \in Clis, cli_db_lock(c)
  PROVE  Kept'
<1>1. /\ todo[c] # <<>> /\ Head(todo[c]).do = "lock" /\ todo' = [todo EXCEPT ![c] = Rest(c)]
      /\ IF db_lock[c] = 0 THEN owner = NoCli /\ owner' = c ELSE owner' = owner
      /\ db_lock' = [db_lock EXCEPT ![c] = (@ + 1) % Word]
      /\ UNCHANGED <<up, inited, num, faults>>
  BY DEF cli_db_lock, Running, Become, dbvars
<1>2. /\ up[c] # "off" /\ Rest(c) \in Seq(Steps) /\ (owner = c <=> db_lock[c] > 0)
      /\ \/ \E t \in Steps : t.do \in Branches /\ todo[c] = <<Lock, t>> /\ db_lock[c] = 0
         \/ \E x, y \in Labels :
              /\ x.depth = db_lock[c] /\ (x.marked => ~inited \/ faults > 0)
              /\ Goes(Head(todo[c]), x, y) /\ LockRuns(Rest(c), y, Idle)
  <2>1. Head(todo[c]).do \notin Branches
    BY <1>1 DEF Branches
  <2> QED
    BY <1>1, <2>1, Taken DEF Kept, Order
<1>3. db_lock[c] \in 0 .. 1 /\ (Branching(c)' \/ Going(c)') /\ db_lock'[c] = db_lock[c] + 1
  <2>1. todo'[c] = Rest(c) /\ db_lock[c] \in Nat /\ db_lock'[c] = (db_lock[c] + 1) % Word
    BY <1>1 DEF Kept, Types, Count32
  <2>2. ASSUME db_lock[c] \in 0 .. 1 PROVE db_lock'[c] = db_lock[c] + 1
    <3>1. Word > 2 /\ Word \in Nat
      BY Numbers
    <3> QED
      BY <2>1, <2>2, <3>1
  <2>3. ASSUME NEW t \in Steps, t.do \in Branches, todo[c] = <<Lock, t>>, db_lock[c] = 0
        PROVE  db_lock[c] \in 0 .. 1 /\ Branching(c)'
    <3>1. Rest(c) = <<t>>
      BY <2>3 DEF Rest
    <3>2. db_lock'[c] = 1
      BY <2>2, <2>3
    <3> QED
      BY <2>1, <2>3, <3>1, <3>2 DEF Branching
  <2>4. ASSUME NEW x \in Labels, NEW y \in Labels, x.depth = db_lock[c], x.marked => ~inited \/ faults > 0,
               Goes(Head(todo[c]), x, y), LockRuns(Rest(c), y, Idle)
        PROVE  db_lock[c] \in 0 .. 1 /\ Going(c)'
    <3>1. y = At(x.depth + 1, x.marked)
      BY <1>1, <2>4 DEF Goes, Guarded, Free
    <3>2. y.depth = db_lock[c] + 1 /\ y.marked = x.marked
      BY <2>4, <3>1 DEF At
    <3>3. db_lock[c] \in 0 .. 1
      BY <2>1, <3>2, LabelsAre
    <3>4. y.depth = db_lock'[c] /\ (y.marked => ~inited' \/ faults' > 0)
      BY <1>1, <2>2, <2>4, <3>2, <3>3
    <3> QED
      BY <2>1, <2>4, <3>3, <3>4 DEF Going
  <2> QED
    BY <1>2, <2>2, <2>3, <2>4
<1>4. Types'
  <2>1. db_lock[c] + 1 \in Count32
    BY <1>3, Numbers DEF Count32
  <2>2. db_lock' \in [Clis -> Count32]
    BY <1>1, <1>3, <2>1 DEF Kept, Types
  <2>3. owner' \in Clis \cup {NoCli}
    BY <1>1 DEF Kept, Types
  <2> QED
    BY <1>1, <1>2, <2>2, <2>3 DEF Kept, Types
<1>5. Orderly(c)'
  <2>1. owner' = c
    BY <1>1, <1>2, <1>3
  <2>2. up'[c] # "off" /\ db_lock'[c] > 0
    BY <1>1, <1>2, <1>3
  <2> QED
    BY <1>3, <2>1, <2>2 DEF Orderly
<1>6. ASSUME NEW d \in Clis, d # c PROVE Orderly(d)'
  <2>1. todo'[d] = todo[d] /\ up'[d] = up[d] /\ db_lock'[d] = db_lock[d]
    BY <1>1, <1>6 DEF Kept, Types
  <2>2. owner' = owner \/ (owner = NoCli /\ owner' = c)
    BY <1>1
  <2> QED
    BY <1>1, <1>6, <2>1, <2>2, Others DEF Kept
<1> QED
  BY <1>4, <1>5, <1>6 DEF Kept, Order

(* The same for an unlock, which is never one too many.                    *)
LEMMA UnlockedInv ==
  ASSUME Kept, faults \in Nat, NEW c \in Clis, cli_db_unlock(c)
  PROVE  Kept'
<1>1. /\ todo[c] # <<>> /\ Head(todo[c]).do = "unlock" /\ todo' = [todo EXCEPT ![c] = Rest(c)]
      /\ db_lock' = [db_lock EXCEPT ![c] = (@ - 1) % Word]
      /\ owner' = IF db_lock'[c] = 0 /\ owner = c THEN NoCli ELSE owner
      /\ UNCHANGED <<up, inited, num, faults>>
  BY DEF cli_db_unlock, Running, Become, dbvars
<1>2. /\ up[c] # "off" /\ Rest(c) \in Seq(Steps) /\ (owner = c <=> db_lock[c] > 0)
      /\ \E x, y \in Labels :
              /\ x.depth = db_lock[c] /\ (x.marked => ~inited \/ faults > 0)
              /\ Goes(Head(todo[c]), x, y) /\ LockRuns(Rest(c), y, Idle)
  <2>1. Head(todo[c]).do \notin Branches
    BY <1>1 DEF Branches
  <2>2. ASSUME NEW t PROVE todo[c] # <<Lock, t>>
    <3> SUFFICES ASSUME todo[c] = <<Lock, t>> PROVE FALSE
      OBVIOUS
    <3>1. Head(todo[c]) = Lock
      OBVIOUS
    <3> QED
      BY <1>1, <3>1 DEF Lock
  <2> QED
    BY <1>1, <2>1, <2>2, Taken DEF Kept, Order
<1>3. PICK x, y \in Labels :
              /\ x.depth = db_lock[c] /\ (x.marked => ~inited \/ faults > 0)
              /\ Goes(Head(todo[c]), x, y) /\ LockRuns(Rest(c), y, Idle)
  BY <1>2
<1>4. y = At(x.depth - 1, x.marked)
  BY <1>1, <1>3 DEF Goes, Guarded, Free
<1>5. y.depth = db_lock[c] - 1 /\ y.marked = x.marked
  BY <1>3, <1>4 DEF At
<1>6. db_lock[c] \in 1 .. 2 /\ db_lock'[c] = db_lock[c] - 1 /\ db_lock'[c] \in Count32
  <2>1. db_lock[c] \in Nat /\ db_lock'[c] = (db_lock[c] - 1) % Word
    BY <1>1 DEF Kept, Types, Count32
  <2>2. db_lock[c] \in 1 .. 2
    BY <1>3, <1>5, <2>1, LabelsAre
  <2>3. Word > 2 /\ Word \in Nat
    BY Numbers
  <2>4. db_lock'[c] = db_lock[c] - 1
    BY <2>1, <2>2, <2>3
  <2> QED
    BY <2>2, <2>3, <2>4 DEF Count32
<1>7. todo'[c] = Rest(c) /\ todo' \in [Clis -> Seq(Steps)]
  BY <1>1, <1>2 DEF Kept, Types
<1>8. Types'
  <2>1. db_lock' \in [Clis -> Count32]
    BY <1>1, <1>6 DEF Kept, Types
  <2>2. owner' \in Clis \cup {NoCli}
    BY <1>1 DEF Kept, Types
  <2> QED
    BY <1>1, <1>7, <2>1, <2>2 DEF Kept, Types
<1>9. Orderly(c)'
  <2>1. owner = c
    BY <1>2, <1>6
  <2>2. owner' = c <=> db_lock'[c] > 0
    BY <1>1, <1>6, <2>1, Numbers
  <2>3. y.depth = db_lock'[c] /\ (y.marked => ~inited' \/ faults' > 0)
    BY <1>1, <1>3, <1>5, <1>6
  <2>4. Going(c)'
    BY <1>3, <1>7, <2>3 DEF Going
  <2> QED
    BY <1>1, <1>2, <2>2, <2>4 DEF Orderly
<1>10. ASSUME NEW d \in Clis, d # c PROVE Orderly(d)'
  <2>1. todo'[d] = todo[d] /\ up'[d] = up[d] /\ db_lock'[d] = db_lock[d]
    BY <1>1, <1>10 DEF Kept, Types
  <2>2. owner' = owner \/ (owner = c /\ owner' = NoCli)
    BY <1>1
  <2> QED
    BY <1>1, <1>10, <2>1, <2>2, Others DEF Kept
<1> QED
  BY <1>8, <1>9, <1>10 DEF Kept, Order

(* A branch is replaced by a sequence that undoes its one lock.            *)
LEMMA BranchInv ==
  ASSUME Kept, faults \in Nat, faults' \in Nat, faults' >= faults,
         NEW c \in Clis, todo[c] # <<>>, Head(todo[c]).do \in Branches,
         NEW q \in Seq(Steps), todo' = [todo EXCEPT ![c] = q],
         UNCHANGED <<owner, db_lock, up, num>>, inited' \in BOOLEAN, inited' => inited,
         \/ LockRuns(q, At(1, FALSE), Idle)
         \/ LockRuns(q, At(1, TRUE), Idle) /\ (~inited' \/ faults' > 0)
  PROVE  Kept'
<1>0. PICK m \in BOOLEAN : (m => ~inited' \/ faults' > 0) /\ LockRuns(q, At(1, m), Idle)
  OBVIOUS
<1>1. up[c] # "off" /\ owner = c /\ db_lock[c] = 1
  BY Branched DEF Kept, Order
<1>2. todo'[c] = q /\ todo' \in [Clis -> Seq(Steps)]
  BY DEF Kept, Types
<1>3. Types'
  BY <1>2 DEF Kept, Types
<1>4. Going(c)'
  <2>1. At(1, m) \in Labels /\ At(1, m).depth = 1 /\ At(1, m).marked = m
    BY DEF Labels, At
  <2> QED
    BY <1>0, <1>1, <1>2, <2>1 DEF Going
<1>5. Orderly(c)'
  BY <1>1, <1>4 DEF Orderly
<1>6. ASSUME NEW d \in Clis, d # c PROVE Orderly(d)'
  <2>1. todo'[d] = todo[d] /\ up'[d] = up[d] /\ db_lock'[d] = db_lock[d]
    BY <1>6 DEF Kept, Types
  <2> QED
    BY <1>6, <2>1, Others DEF Kept
<1> QED
  BY <1>3, <1>5, <1>6 DEF Kept, Order

(* The shortest of them.                                                   *)
LEMMA Unlocks == <<Unlock>> \in Seq(Steps) /\ LockRuns(<<Unlock>>, At(1, FALSE), Idle)
BY Locking DEF Idle

(* The plan of a set, and that of a clear, from the branch on.             *)
LEMMA SectionRuns ==
  ASSUME NEW p \in Seq(HeldSteps), NEW q \in Seq(HeldSteps), NEW r \in Seq(FreeSteps)
  PROVE  /\ p \o q \o <<Unlock>> \o r \in Seq(Steps) /\ LockRuns(p \o q \o <<Unlock>> \o r, At(1, FALSE), Idle)
         /\ p \o q \o r \o <<Unlock>> \in Seq(Steps) /\ LockRuns(p \o q \o r \o <<Unlock>>, At(1, FALSE), Idle)
<1>1. p \in Seq(Steps) /\ q \in Seq(Steps) /\ r \in Seq(Steps) /\ r \in Seq(HeldSteps)
  BY Sub
<1>2. LockRuns(p, At(1, FALSE), At(1, FALSE)) /\ LockRuns(q, At(1, FALSE), At(1, FALSE))
      /\ LockRuns(r, At(1, FALSE), At(1, FALSE)) /\ LockRuns(r, Idle, Idle)
  BY <1>1, Held, LabelsAre DEF Idle
<1>3. p \o q \in Seq(Steps) /\ LockRuns(p \o q, At(1, FALSE), At(1, FALSE))
  BY <1>1, <1>2, Cat
<1> DEFINE a == p \o q
<1> HIDE DEF a
<1>4. a \in Seq(Steps) /\ LockRuns(a, At(1, FALSE), At(1, FALSE))
  BY <1>3 DEF a
<1>5. a \o <<Unlock>> \in Seq(Steps) /\ LockRuns(a \o <<Unlock>>, At(1, FALSE), Idle)
  BY <1>4, Unlocks, Cat
<1>6. a \o <<Unlock>> \o r \in Seq(Steps) /\ LockRuns(a \o <<Unlock>> \o r, At(1, FALSE), Idle)
  BY <1>1, <1>2, <1>5, Cat
<1>7. a \o r \in Seq(Steps) /\ LockRuns(a \o r, At(1, FALSE), At(1, FALSE))
  BY <1>1, <1>2, <1>4, Cat
<1>8. a \o r \o <<Unlock>> \in Seq(Steps) /\ LockRuns(a \o r \o <<Unlock>>, At(1, FALSE), Idle)
  BY <1>7, Unlocks, Cat
<1> QED
  BY <1>6, <1>8 DEF a

(* A count goes up and down inside the section.                            *)
LEMMA CountHeld ==
  ASSUME Types, NEW s \in Sets, num[s] # Absent
  PROVE  <<SetNum(s, (num[s] + 1) % Word)>> \in Seq(HeldSteps) /\ <<SetNum(s, (num[s] - 1) % Word)>> \in Seq(HeldSteps)
<1>1. num[s] \in Count32
  BY DEF Types
<1>2. (num[s] + 1) % Word \in Count32 /\ (num[s] - 1) % Word \in Count32
  BY <1>1, Numbers DEF Count32
<1>3. \A n \in Count32 : SetNum(s, n) \in HeldSteps
  BY RuleSteps DEF HeldSteps, SetNum, Guarded
<1> QED
  BY <1>2, <1>3

(* What a read leaves alone.                                               *)
LEMMA ReadIs ==
  ASSUME NEW c, NEW q, Read(c, q)
  PROVE  todo' = [todo EXCEPT ![c] = q] /\ UNCHANGED <<owner, db_lock, up, num, inited, faults>>
BY DEF Read, Become, dbvars

(* A branch that only reads.                                               *)
LEMMA ReadBranchInv ==
  ASSUME Kept, faults \in Nat, NEW c \in Clis, todo[c] # <<>>, Head(todo[c]).do \in Branches,
         NEW q \in Seq(Steps), Read(c, q),
         LockRuns(q, At(1, FALSE), Idle) \/ (LockRuns(q, At(1, TRUE), Idle) /\ ~inited)
  PROVE  Kept'
<1>1. todo' = [todo EXCEPT ![c] = q] /\ UNCHANGED <<owner, db_lock, up, num, inited, faults>>
  BY ReadIs
<1>2. inited' \in BOOLEAN /\ (inited' => inited) /\ faults' \in Nat /\ faults' >= faults
  BY <1>1 DEF Kept, Types
<1>3. \/ LockRuns(q, At(1, FALSE), Idle)
      \/ LockRuns(q, At(1, TRUE), Idle) /\ (~inited' \/ faults' > 0)
  BY <1>1
<1> QED
  BY <1>1, <1>2, <1>3, BranchInv

(* The branch of the start of a cli.                                       *)
LEMMA StartBranchInv ==
  ASSUME Kept, faults \in Nat, NEW c \in Clis, StartBranch(c)
  PROVE  Kept'
<1>1. todo[c] # <<>> /\ Head(todo[c]).do = "startup" /\ Read(c, Startup(inited))
  BY DEF StartBranch, Running
<1>2. inited \in BOOLEAN /\ Head(todo[c]).do \in Branches
  BY <1>1 DEF Kept, Types, Branches
<1>3. CASE inited
  <2>1. inited = TRUE
    BY <1>2, <1>3
  <2>2. Read(c, Startup(TRUE))
    BY <1>1, <2>1
  <2> QED
    BY <1>1, <1>2, <2>2, StartupRuns, ReadBranchInv DEF Idle
<1>4. CASE ~inited
  <2>1. inited = FALSE
    BY <1>2, <1>4
  <2>2. Read(c, Startup(FALSE))
    BY <1>1, <2>1
  <2> QED
    BY <1>1, <1>2, <1>4, <2>2, StartupRuns, ReadBranchInv DEF Idle
<1> QED
  BY <1>3, <1>4

(* A branch that does nothing.                                             *)
LEMMA UnlockOnlyInv ==
  ASSUME Kept, faults \in Nat, NEW c \in Clis, todo[c] # <<>>, Head(todo[c]).do \in Branches, Read(c, <<Unlock>>)
  PROVE  Kept'
BY Unlocks, ReadBranchInv

(* The branch of a set.                                                    *)
LEMMA SetInv ==
  ASSUME Kept, faults \in Nat, NEW c \in Clis, cli_fpga_set_ruleset(c)
  PROVE  Kept'
<1> DEFINE t == Head(todo[c])
           count == IF Exists(t.s, t.id) THEN <<>> ELSE <<SetNum(t.s, (num[t.s] + 1) % Word)>>
           p == db_set_filter_rule(t.s, t.id, t.r)
           r == drv_set_ruleset(t.s, t.id, t.r)
<1>1. todo[c] # <<>> /\ t.do = "set" /\ t.do \in Branches
  BY DEF cli_fpga_set_ruleset, Running, Branches
<1>2. \/ Read(c, <<Unlock>>)
      \/ (Exists(t.s, t.id) \/ num[t.s] # Absent) /\ Read(c, count \o p \o <<Unlock>> \o r)
  BY DEF cli_fpga_set_ruleset
<1>3. t.s \in Sets /\ t.id \in Ids /\ t.r \in Rules[t.s]
  <2>1. t \in Steps
    BY <1>1, Branched DEF Kept, Order
  <2> QED
    BY <1>1, <2>1, StepKinds
<1> HIDE DEF t
<1>4. p \in Seq(HeldSteps)
  BY <1>3, SetHeld
<1>5. r \in Seq(FreeSteps)
  BY <1>3, DeviceFree, Sub DEF RuleValues
<1>6. ASSUME Exists(t.s, t.id) \/ num[t.s] # Absent PROVE count \in Seq(HeldSteps)
  BY <1>3, <1>6, CountHeld DEF Kept
<1> HIDE DEF p, r, count
<1>7. ASSUME Exists(t.s, t.id) \/ num[t.s] # Absent, Read(c, count \o p \o <<Unlock>> \o r) PROVE Kept'
  <2> DEFINE q == count \o p \o <<Unlock>> \o r
  <2>1. q \in Seq(Steps) /\ LockRuns(q, At(1, FALSE), Idle)
    BY <1>4, <1>5, <1>6, <1>7, SectionRuns
  <2> HIDE DEF q
  <2>2. Read(c, q)
    BY <1>7 DEF q
  <2> QED
    BY <1>1, <2>1, <2>2, ReadBranchInv DEF t
<1>8. ASSUME Read(c, <<Unlock>>) PROVE Kept'
  BY <1>1, <1>8, UnlockOnlyInv DEF t
<1> QED
  BY <1>2, <1>7, <1>8

(* That of a clear.                                                        *)
LEMMA ClearInv ==
  ASSUME Kept, faults \in Nat, NEW c \in Clis, cli_fpga_clear_ruleset(c)
  PROVE  Kept'
<1> DEFINE t == Head(todo[c])
           count == <<SetNum(t.s, (num[t.s] - 1) % Word)>>
           p == db_delete_filter_rule(t.s, t.id)
           r == drv_set_ruleset(t.s, t.id, t.r)
<1>1. todo[c] # <<>> /\ t.do = "clear" /\ t.do \in Branches
  BY DEF cli_fpga_clear_ruleset, Running, Branches
<1>2. \/ Read(c, <<Unlock>>)
      \/ num[t.s] # Absent /\ Read(c, count \o p \o r \o <<Unlock>>)
  BY DEF cli_fpga_clear_ruleset
<1>3. t.s \in Sets /\ t.id \in Ids /\ t.r \in RuleValues
  <2>1. t \in Steps
    BY <1>1, Branched DEF Kept, Order
  <2> QED
    BY <1>1, <2>1, StepKinds DEF RuleValues
<1> HIDE DEF t
<1>4. p \in Seq(HeldSteps)
  BY <1>3, DeleteHeld
<1>5. r \in Seq(FreeSteps)
  BY <1>3, DeviceFree, Sub
<1>6. ASSUME num[t.s] # Absent PROVE count \in Seq(HeldSteps)
  BY <1>3, <1>6, CountHeld DEF Kept
<1> HIDE DEF p, r, count
<1>7. ASSUME num[t.s] # Absent, Read(c, count \o p \o r \o <<Unlock>>) PROVE Kept'
  <2> DEFINE q == count \o p \o r \o <<Unlock>>
  <2>1. q \in Seq(Steps) /\ LockRuns(q, At(1, FALSE), Idle)
    BY <1>4, <1>5, <1>6, <1>7, SectionRuns
  <2> HIDE DEF q
  <2>2. Read(c, q)
    BY <1>7 DEF q
  <2> QED
    BY <1>1, <2>1, <2>2, ReadBranchInv DEF t
<1>8. ASSUME Read(c, <<Unlock>>) PROVE Kept'
  BY <1>1, <1>8, UnlockOnlyInv DEF t
<1> QED
  BY <1>2, <1>7, <1>8

(* That of a show.                                                         *)
LEMMA ShowInv ==
  ASSUME Kept, faults \in Nat, NEW c \in Clis, cli_get_filter_ruleset(c)
  PROVE  Kept'
BY UnlockOnlyInv DEF cli_get_filter_ruleset, Running, Branches

(* A step that does not branch goes on with its rest, behind steps that    *)
(* hold the lock, or with the error return.                                *)
LEMMA RestInv ==
  ASSUME Types, Order, NEW c \in Clis, todo[c] # <<>>, Head(todo[c]).do \in Guarded \cup Free,
         NEW p \in Seq(HeldSteps), p = <<>> \/ Head(todo[c]).do \in Guarded
  PROVE  /\ Rest(c) \in Seq(Steps) /\ p \o Rest(c) \in Seq(Steps)
         /\ \A y \in Labels :
              /\ y.depth = db_lock[c] /\ (Head(todo[c]).do \in Guarded => y.depth > 0)
              /\ LockRuns(Rest(c), y, Idle)
              => LockRuns(p \o Rest(c), y, Idle)
<1>1. Rest(c) \in Seq(Steps) /\ p \in Seq(Steps)
  BY Sub DEF Types, Rest
<1>2. CASE p = <<>>
  <2>1. p \o Rest(c) = Rest(c)
    BY <1>1, <1>2
  <2> QED
    BY <1>1, <2>1
<1>3. CASE Head(todo[c]).do \in Guarded
  <2>1. ASSUME NEW y \in Labels, y.depth > 0 PROVE LockRuns(p, y, y)
    BY <2>1, Held
  <2> QED
    BY <1>1, <1>3, <2>1, Cat
<1> QED
  BY <1>2, <1>3

(* The two invariants together.                                            *)
LEMMA ContinueInv ==
  ASSUME Kept, faults \in Nat, faults' \in Nat, faults' >= faults,
         NEW c \in Clis, todo[c] # <<>>, Head(todo[c]).do \in Guarded \cup Free,
         UNCHANGED <<owner, db_lock, up>>, inited' \in BOOLEAN, inited' => inited,
         num' \in [Sets -> Count32 \cup {Absent}],
         NEW p \in Seq(HeldSteps), p = <<>> \/ Head(todo[c]).do \in Guarded,
         \/ todo' = [todo EXCEPT ![c] = p \o Rest(c)]
         \/ todo' = [todo EXCEPT ![c] = Rest(c)]
         \/ todo' = [todo EXCEPT ![c] = Recover(Rest(c))] /\ Head(todo[c]).do \in Guarded
  PROVE  Kept'
<1>0. Types /\ Order
  BY DEF Kept
<1>1. /\ Rest(c) \in Seq(Steps) /\ p \o Rest(c) \in Seq(Steps)
      /\ \A y \in Labels :
           /\ y.depth = db_lock[c] /\ (Head(todo[c]).do \in Guarded => y.depth > 0)
           /\ LockRuns(Rest(c), y, Idle)
           => LockRuns(p \o Rest(c), y, Idle)
  BY <1>0, RestInv
<1>2. ASSUME Order', todo' \in [Clis -> Seq(Steps)] PROVE Kept'
  BY <1>2 DEF Kept, Types
<1>3. CASE todo' = [todo EXCEPT ![c] = p \o Rest(c)]
  BY <1>0, <1>1, <1>2, <1>3, Continue
<1>4. CASE todo' = [todo EXCEPT ![c] = Rest(c)]
  BY <1>0, <1>1, <1>2, <1>4, Continue
<1>5. CASE todo' = [todo EXCEPT ![c] = Recover(Rest(c))] /\ Head(todo[c]).do \in Guarded
  <2>1. \A y \in Labels : y.depth > 0 /\ LockRuns(Rest(c), y, Idle)
          => /\ Recover(Rest(c)) \in Seq(Steps)
             /\ \E z \in Labels : /\ z.depth = y.depth /\ (z.marked => y.marked)
                                  /\ LockRuns(Recover(Rest(c)), z, Idle)
    BY <1>1, RecoverRuns DEF Idle
  <2>2. Recover(Rest(c)) \in Seq(Steps)
    <3>1. Head(todo[c]).do \notin Branches /\ Head(todo[c]).do # "lock"
      BY <1>5 DEF Branches, Guarded
    <3>2. \A t : todo[c] # <<Lock, t>>
      <4> SUFFICES ASSUME NEW t, todo[c] = <<Lock, t>> PROVE FALSE
        OBVIOUS
      <4>1. Head(todo[c]) = Lock
        OBVIOUS
      <4> QED
        BY <4>1, <3>1 DEF Lock
    <3>3. PICK x, y \in Labels :
            x.depth = db_lock[c] /\ Goes(Head(todo[c]), x, y) /\ LockRuns(Rest(c), y, Idle)
      BY <1>0, <3>1, <3>2, Taken DEF Order
    <3>4. y.depth > 0
      BY <1>5, <3>3 DEF Goes, Guarded, Free
    <3> QED
      BY <2>1, <3>3, <3>4
  <2> DEFINE q == Recover(Rest(c))
  <2>3. \A y \in Labels :
          /\ y.depth = db_lock[c] /\ (Head(todo[c]).do \in Guarded => y.depth > 0)
          /\ LockRuns(Rest(c), y, Idle)
          => \E z \in Labels : /\ z.depth = y.depth /\ (z.marked => y.marked)
                               /\ LockRuns(q, z, Idle)
    BY <1>5, <2>1
  <2>4. q \in Seq(Steps) /\ todo' = [todo EXCEPT ![c] = q]
    BY <1>5, <2>2
  <2> HIDE DEF q
  <2>5. Order' /\ todo' \in [Clis -> Seq(Steps)]
    BY <1>0, <2>3, <2>4, Continue
  <2> QED
    BY <1>2, <2>5
<1> QED
  BY <1>3, <1>4, <1>5

(* A step that does not branch is one of the steps.                        *)
LEMMA GuardedHead ==
  ASSUME Kept, NEW c \in Clis, todo[c] # <<>>, Head(todo[c]).do \in Guarded \cup Free
  PROVE  Head(todo[c]) \in Steps
<1>1. Head(todo[c]).do \notin Branches
  BY DEF Branches, Guarded, Free
<1> QED
  BY <1>1, Taken DEF Kept, Order

(* What a read or a write of the database goes on with.                    *)
LEMMA ReadInv ==
  ASSUME Kept, faults \in Nat, NEW c \in Clis, todo[c] # <<>>, Head(todo[c]).do \in Guarded,
         NEW p \in Seq(HeldSteps),
         Read(c, p \o Rest(c)) \/ Read(c, Rest(c)) \/ Read(c, Recover(Rest(c)))
  PROVE  Kept'
<1>1. /\ UNCHANGED <<owner, db_lock, up, num, inited, faults>>
      /\ \/ todo' = [todo EXCEPT ![c] = p \o Rest(c)]
         \/ todo' = [todo EXCEPT ![c] = Rest(c)]
         \/ todo' = [todo EXCEPT ![c] = Recover(Rest(c))]
  BY ReadIs
<1>2. inited' \in BOOLEAN /\ (inited' => inited) /\ faults' \in Nat /\ faults' >= faults
      /\ num' \in [Sets -> Count32 \cup {Absent}]
  BY <1>1 DEF Kept, Types
<1> QED
  BY <1>1, <1>2, ContinueInv

(* The same for a write.                                                   *)
LEMMA WroteInv ==
  ASSUME Kept, faults \in Nat, NEW c \in Clis, todo[c] # <<>>, Head(todo[c]).do \in Guarded \cup Free,
         Wrote(c), inited' \in BOOLEAN, inited' => inited, num' \in [Sets -> Count32 \cup {Absent}]
  PROVE  Kept'
<1>1. UNCHANGED <<owner, db_lock, up, faults>> /\ todo' = [todo EXCEPT ![c] = Rest(c)]
  BY DEF Wrote, Become
<1>2. <<>> \in Seq(HeldSteps) /\ faults' \in Nat /\ faults' >= faults
  BY <1>1
<1> QED
  BY <1>1, <1>2, ContinueInv

(* A step of a loop over the rules.                                        *)
LEMMA ScanHeld ==
  ASSUME Types, NEW s \in Sets, NEW m \in {"reset", "save"}, NEW i \in 0 .. MaxRule, NEW k \in Nat, NEW n \in Count32
  PROVE  <<Scan(m, s, i, k, n)>> \in Seq(HeldSteps)
<1>1. Scan(m, s, i, k, n) \in HeldSteps
  BY RuleSteps DEF HeldSteps, Scan, Guarded
<1> QED
  BY <1>1

(* The loops of save and reset begin.                                      *)
LEMMA StartScanInv ==
  ASSUME Kept, faults \in Nat, NEW c \in Clis, StartScan(c)
  PROVE  Kept'
<1> DEFINE t == Head(todo[c])
<1>1. todo[c] # <<>> /\ t.do = "count" /\ t.do \in Guarded
  BY DEF StartScan, Running, Guarded
<1>2. t \in Steps
  BY <1>1, GuardedHead
<1>3. t.s \in Sets /\ t.mode \in {"reset", "save"}
  BY <1>1, <1>2, StepKinds
<1>4. num \in [Sets -> Count32 \cup {Absent}]
  BY DEF Kept, Types
<1>5. num[t.s] \in Count32 \cup {Absent}
  <2> HIDE DEF t
  <2> QED
    BY <1>3, <1>4
<1>6. \/ Read(c, Recover(Rest(c)))
      \/ num[t.s] # Absent /\ Read(c, <<Scan(t.mode, t.s, 0, 0, num[t.s])>> \o Rest(c))
  BY DEF StartScan
<1> DEFINE n == num[t.s]
<1>7. CASE Read(c, Recover(Rest(c)))
  <2>1. <<>> \in Seq(HeldSteps)
    OBVIOUS
  <2> QED
    BY <1>1, <1>7, <2>1, ReadInv
<1> HIDE DEF n
<1>8. CASE n # Absent /\ Read(c, <<Scan(t.mode, t.s, 0, 0, n)>> \o Rest(c))
  <2> DEFINE p == <<Scan(t.mode, t.s, 0, 0, n)>>
  <2>1. n \in Count32 /\ 0 \in 0 .. MaxRule /\ 0 \in Nat
    BY <1>5, <1>8, Numbers DEF n
  <2>2. p \in Seq(HeldSteps)
    <3> HIDE DEF t
    <3> QED
      BY <1>3, <2>1, ScanHeld DEF Kept
  <2>3. Read(c, p \o Rest(c))
    BY <1>8
  <2> HIDE DEF p
  <2> QED
    BY <1>1, <2>2, <2>3, ReadInv
<1> QED
  BY <1>6, <1>7, <1>8 DEF n

(* The loops of save and reset go on, or end.                              *)
LEMMA ScanStepInv ==
  ASSUME Kept, faults \in Nat, NEW c \in Clis, ScanStep(c)
  PROVE  Kept'
<1> DEFINE t == Head(todo[c])
           next == IF t.id < MaxRule THEN t.id + 1 ELSE t.id
           on(m) == <<Scan(t.mode, t.s, next, m, t.number)>> \o Rest(c)
<1>1. todo[c] # <<>> /\ t.do = "scan" /\ t.do \in Guarded
  BY DEF ScanStep, Running, Guarded
<1>2. t \in Steps
  BY <1>1, GuardedHead
<1>3. /\ t.s \in Sets /\ t.mode \in {"reset", "save"} /\ t.id \in 0 .. MaxRule
      /\ t.matched \in Nat /\ t.number \in Count32
  BY <1>1, <1>2, StepKinds
<1>4. \/ Read(c, <<SetNum(t.s, 0)>> \o Rest(c))
      \/ Read(c, Rest(c)) \/ Read(c, Recover(Rest(c)))
      \/ Read(c, on(t.matched)) \/ Read(c, on(t.matched + 1))
      \/ t.id < MaxRule /\ Read(c, db_delete_filter_rule(t.s, t.id) \o on(t.matched + 1))
  BY DEF ScanStep
<1> HIDE DEF t
<1>5. next \in 0 .. MaxRule
  BY <1>3, Numbers
<1> HIDE DEF next
<1>6. Rest(c) \in Seq(Steps)
  BY <1>1 DEF Rest, Kept, Types, t
<1>7. ASSUME NEW k \in Nat, Read(c, on(k)) PROVE Kept'
  <2> DEFINE p == <<Scan(t.mode, t.s, next, k, t.number)>>
  <2>1. p \in Seq(HeldSteps)
    BY <1>3, <1>5, ScanHeld DEF Kept
  <2>2. Read(c, p \o Rest(c))
    BY <1>7
  <2> HIDE DEF p
  <2> QED
    BY <1>1, <2>1, <2>2, ReadInv DEF t
<1>8. ASSUME Read(c, <<SetNum(t.s, 0)>> \o Rest(c)) PROVE Kept'
  <2>1. SetNum(t.s, 0) \in HeldSteps
    <3>1. 0 \in Count32
      BY Numbers DEF Count32
    <3> QED
      BY <1>3, <3>1, RuleSteps DEF HeldSteps, SetNum, Guarded
  <2>2. <<SetNum(t.s, 0)>> \in Seq(HeldSteps)
    BY <2>1
  <2> QED
    BY <1>1, <1>8, <2>2, ReadInv DEF t
<1>9. ASSUME t.id < MaxRule, Read(c, db_delete_filter_rule(t.s, t.id) \o on(t.matched + 1)) PROVE Kept'
  <2> DEFINE a == db_delete_filter_rule(t.s, t.id)
             b == <<Scan(t.mode, t.s, next, t.matched + 1, t.number)>>
  <2>1. t.id \in Ids
    BY <1>3, <1>9, Numbers DEF Ids
  <2>2. a \in Seq(HeldSteps)
    BY <1>3, <2>1, DeleteHeld
  <2>3. b \in Seq(HeldSteps)
    BY <1>3, <1>5, ScanHeld DEF Kept
  <2>4. Read(c, a \o (b \o Rest(c)))
    BY <1>9
  <2> HIDE DEF a, b
  <2>5. a \o (b \o Rest(c)) = (a \o b) \o Rest(c) /\ a \o b \in Seq(HeldSteps)
    <3>1. a \in Seq(Steps) /\ b \in Seq(Steps)
      BY <2>2, <2>3, Sub
    <3> QED
      BY <1>6, <2>2, <2>3, <3>1
  <2>6. Read(c, (a \o b) \o Rest(c))
    BY <2>4, <2>5
  <2> QED
    BY <1>1, <2>5, <2>6, ReadInv DEF t
<1>10. ASSUME Read(c, Rest(c)) \/ Read(c, Recover(Rest(c))) PROVE Kept'
  <2>1. <<>> \in Seq(HeldSteps)
    OBVIOUS
  <2> QED
    BY <1>1, <1>10, <2>1, ReadInv DEF t
<1> QED
  BY <1>3, <1>4, <1>7, <1>8, <1>9, <1>10

(* The writes to the database and to the device.                           *)
LEMMA WriteInv ==
  ASSUME Kept, faults \in Nat, NEW c \in Clis,
         \/ db_set_filter_rule_num(c) \/ db_insert_flag(c) \/ db_insert_field(c) \/ db_delete_flag(c)
         \/ db_delete_field(c) \/ db_mark_uninitialized(c) \/ reg_write(c) \/ cam_command(c) \/ save_global_config(c)
  PROVE  Kept'
<1>0. num \in [Sets -> Count32 \cup {Absent}] /\ inited \in BOOLEAN
  BY DEF Kept, Types
<1>1. CASE db_set_filter_rule_num(c)
  <2> DEFINE t == Head(todo[c])
  <2>1. todo[c] # <<>> /\ t.do = "num" /\ t.do \in Guarded
    BY <1>1 DEF db_set_filter_rule_num, Running, Guarded
  <2>2. t \in Steps
    BY <2>1, GuardedHead
  <2>3. t.s \in Sets /\ t.n \in Count32
    BY <2>1, <2>2, StepKinds
  <2>4. num' = [num EXCEPT ![t.s] = t.n] /\ inited' = inited /\ Wrote(c)
    BY <1>1 DEF db_set_filter_rule_num
  <2>5. num' \in [Sets -> Count32 \cup {Absent}]
    BY <1>0, <2>3, <2>4
  <2> QED
    BY <1>0, <2>1, <2>4, <2>5, WroteInv
<1>2. CASE db_insert_flag(c) \/ db_insert_field(c) \/ db_delete_flag(c)
  <2>1. todo[c] # <<>> /\ Head(todo[c]).do \in Guarded /\ Wrote(c) /\ UNCHANGED <<inited, num>>
    BY <1>2 DEF db_insert_flag, db_insert_field, db_delete_flag, Running, Guarded
  <2> QED
    BY <1>0, <2>1, WroteInv
<1>3. CASE db_delete_field(c)
  <2>1. todo[c] # <<>> /\ Head(todo[c]).do \in Guarded
    BY <1>3 DEF db_delete_field, Running, Guarded
  <2>2. Read(c, Recover(Rest(c))) \/ (Wrote(c) /\ UNCHANGED <<inited, num>>)
    BY <1>3 DEF db_delete_field
  <2>3. <<>> \in Seq(HeldSteps)
    OBVIOUS
  <2>4. CASE Read(c, Recover(Rest(c)))
    BY <2>1, <2>3, <2>4, ReadInv
  <2>5. CASE Wrote(c) /\ UNCHANGED <<inited, num>>
    BY <1>0, <2>1, <2>5, WroteInv
  <2> QED
    BY <2>2, <2>4, <2>5
<1>4. CASE db_mark_uninitialized(c)
  <2>1. todo[c] # <<>> /\ Head(todo[c]).do \in Guarded /\ Wrote(c) /\ inited' = FALSE /\ num' = num
    BY <1>4 DEF db_mark_uninitialized, Running, Guarded
  <2> QED
    BY <1>0, <2>1, WroteInv
<1>5. CASE reg_write(c) \/ cam_command(c)
  <2>1. todo[c] # <<>> /\ Head(todo[c]).do \in Free /\ Wrote(c) /\ UNCHANGED <<inited, num>>
    BY <1>5 DEF reg_write, cam_command, Running, Free, dbvars
  <2> QED
    BY <1>0, <2>1, WroteInv
<1>6. CASE save_global_config(c)
  <2>1. todo[c] # <<>> /\ Head(todo[c]).do \in Guarded /\ Read(c, Rest(c))
    BY <1>6 DEF save_global_config, Running, Guarded
  <2>2. <<>> \in Seq(HeldSteps)
    OBVIOUS
  <2> QED
    BY <2>1, <2>2, ReadInv
<1> QED
  BY <1>1, <1>2, <1>3, <1>4, <1>5, <1>6

(* Whoever marks the database as initialised holds the lock.               *)
LEMMA MarkedHead ==
  ASSUME Kept, NEW c \in Clis, Running(c, "init")
  PROVE  /\ up[c] # "off" /\ Rest(c) \in Seq(Steps) /\ owner = c
         /\ ~inited \/ faults > 0
         /\ \E y \in Labels : y.depth = db_lock[c] /\ ~y.marked /\ LockRuns(Rest(c), y, Idle)
<1>1. todo[c] # <<>> /\ Head(todo[c]).do = "init" /\ Head(todo[c]).do \notin Branches
  BY DEF Running, Branches
<1>2. \A t : todo[c] # <<Lock, t>>
  <2> SUFFICES ASSUME NEW t, todo[c] = <<Lock, t>> PROVE FALSE
    OBVIOUS
  <2>1. Head(todo[c]) = Lock
    OBVIOUS
  <2> QED
    BY <2>1, <1>1 DEF Lock
<1>3. /\ up[c] # "off" /\ Rest(c) \in Seq(Steps) /\ (owner = c <=> db_lock[c] > 0)
      /\ \E x, y \in Labels :
           /\ x.depth = db_lock[c] /\ (x.marked => ~inited \/ faults > 0)
           /\ Goes(Head(todo[c]), x, y) /\ LockRuns(Rest(c), y, Idle)
  BY <1>1, <1>2, Taken DEF Kept, Order
<1>4. PICK x, y \in Labels :
           /\ x.depth = db_lock[c] /\ (x.marked => ~inited \/ faults > 0)
           /\ Goes(Head(todo[c]), x, y) /\ LockRuns(Rest(c), y, Idle)
  BY <1>3
<1>5. x.marked /\ y = At(x.depth, FALSE)
  BY <1>1, <1>4 DEF Goes, Guarded, Free
<1>6. y.depth = x.depth /\ ~y.marked
  BY <1>5 DEF At
<1>7. x.depth > 0
  BY <1>5, LabelsAre
<1> QED
  BY <1>3, <1>4, <1>5, <1>6, <1>7

(* Marking it, or failing to.                                              *)
LEMMA InitializedInv ==
  ASSUME Kept, faults \in Nat, faults' \in Nat, faults' >= faults, NEW c \in Clis, Running(c, "init"),
         todo' = [todo EXCEPT ![c] = Rest(c)], UNCHANGED <<owner, db_lock, up, num>>, inited' \in BOOLEAN
  PROVE  Kept'
<1>1. /\ up[c] # "off" /\ Rest(c) \in Seq(Steps) /\ owner = c
      /\ \E y \in Labels : y.depth = db_lock[c] /\ ~y.marked /\ LockRuns(Rest(c), y, Idle)
  BY MarkedHead
<1>2. todo'[c] = Rest(c) /\ todo' \in [Clis -> Seq(Steps)]
  BY <1>1 DEF Kept, Types
<1>3. Types'
  BY <1>2 DEF Kept, Types
<1>4. Going(c)'
  BY <1>1, <1>2 DEF Going
<1>5. owner = c <=> db_lock[c] > 0
  BY <1>1 DEF Kept, Order, Orderly
<1>6. Orderly(c)'
  BY <1>1, <1>4, <1>5 DEF Orderly
<1>7. ASSUME NEW d \in Clis, d # c PROVE Orderly(d)'
  <2>1. todo'[d] = todo[d] /\ up'[d] = up[d] /\ db_lock'[d] = db_lock[d]
    BY <1>7 DEF Kept, Types
  <2> QED
    BY <1>1, <1>7, <2>1, Others DEF Kept
<1> QED
  BY <1>3, <1>6, <1>7 DEF Kept, Order

(* The end of the start of a cli: signals are captured from now on.        *)
LEMMA SignalsInv ==
  ASSUME Kept, faults \in Nat, NEW c \in Clis, capture_signals(c)
  PROVE  Kept'
<1>1. /\ todo[c] # <<>> /\ Head(todo[c]).do = "signals" /\ Head(todo[c]).do \notin Branches
      /\ up' = [up EXCEPT ![c] = "on"] /\ todo' = [todo EXCEPT ![c] = Rest(c)]
      /\ UNCHANGED <<owner, db_lock, inited, num, faults>>
  BY DEF capture_signals, Running, Branches, Become, dbvars
<1>2. \A t : todo[c] # <<Lock, t>>
  <2> SUFFICES ASSUME NEW t, todo[c] = <<Lock, t>> PROVE FALSE
    OBVIOUS
  <2>1. Head(todo[c]) = Lock
    OBVIOUS
  <2> QED
    BY <2>1, <1>1 DEF Lock
<1>3. /\ up[c] # "off" /\ Rest(c) \in Seq(Steps) /\ (owner = c <=> db_lock[c] > 0)
      /\ \E x, y \in Labels :
           /\ x.depth = db_lock[c] /\ (x.marked => ~inited \/ faults > 0)
           /\ Goes(Head(todo[c]), x, y) /\ LockRuns(Rest(c), y, Idle)
  BY <1>1, <1>2, Taken DEF Kept, Order
<1>4. PICK x, y \in Labels :
           /\ x.depth = db_lock[c] /\ (x.marked => ~inited \/ faults > 0)
           /\ Goes(Head(todo[c]), x, y) /\ LockRuns(Rest(c), y, Idle)
  BY <1>3
<1>5. y = x
  BY <1>1, <1>4 DEF Goes, Guarded, Free
<1>6. todo'[c] = Rest(c) /\ todo' \in [Clis -> Seq(Steps)] /\ up'[c] = "on"
      /\ up' \in [Clis -> {"off", "starting", "on"}]
  BY <1>1, <1>3 DEF Kept, Types
<1>7. Types'
  BY <1>1, <1>6 DEF Kept, Types
<1>8. Going(c)'
  BY <1>1, <1>4, <1>5, <1>6 DEF Going
<1>9. Orderly(c)'
  BY <1>1, <1>3, <1>6, <1>8 DEF Orderly
<1>10. ASSUME NEW d \in Clis, d # c PROVE Orderly(d)'
  <2>1. todo'[d] = todo[d] /\ up'[d] = up[d] /\ db_lock'[d] = db_lock[d]
    BY <1>1, <1>10 DEF Kept, Types
  <2> QED
    BY <1>1, <1>10, <2>1, Others DEF Kept
<1> QED
  BY <1>7, <1>9, <1>10 DEF Kept, Order

(* A failing call to the database: the command ends in order.              *)
LEMMA FailInv ==
  ASSUME Kept, faults \in Nat, NEW c \in Clis, DbFails(c), Head(todo[c]).do # "global"
  PROVE  Kept'
<1> DEFINE t == Head(todo[c])
           q == CASE t.do = "startup" -> Startup(FALSE)
                  [] t.do \in {"set", "clear", "show"} -> <<Unlock>>
                  [] t.do = "global" -> <<Unlock>> \o Rest(c)
                  [] t.do = "init" -> Rest(c)
                  [] OTHER -> Recover(Rest(c))
<1>1. /\ todo[c] # <<>> /\ todo' = [todo EXCEPT ![c] = q]
      /\ faults' = faults + 1
      /\ Fetches(t) \/ t.do \in {"num", "flag", "field", "uninit", "init"}
      /\ num' = IF t.do = "num" THEN [num EXCEPT ![t.s] = Absent] ELSE num
      /\ inited' = (inited /\ t.do \notin {"uninit", "init"})
      /\ UNCHANGED <<owner, db_lock, up>>
  BY DEF DbFails, Suffer, Become
<1>2. faults' \in Nat /\ faults' >= faults /\ faults' > 0
  BY <1>1
<1>3. t.do \in {"startup", "count", "delflag", "set", "clear", "show", "scan", "num", "flag", "field", "uninit", "init"}
  BY <1>1 DEF Fetches
<1>4. inited' \in BOOLEAN /\ (inited' => inited)
  BY <1>1 DEF Kept, Types
<1>5. t.do = "startup" => q = Startup(FALSE)
  OBVIOUS
<1>6. t.do \in {"set", "clear", "show"} => q = <<Unlock>>
  OBVIOUS
<1>7. t.do = "init" => q = Rest(c)
  OBVIOUS
<1>8. t.do \in {"count", "delflag", "scan", "num", "flag", "field", "uninit"} => q = Recover(Rest(c))
  OBVIOUS
<1> HIDE DEF t, q
<1>9. CASE t.do = "startup"
  <2>1. num' = num
    BY <1>1, <1>9
  <2>2. q \in Seq(Steps) /\ LockRuns(q, At(1, TRUE), Idle)
    BY <1>5, <1>9, StartupRuns DEF Idle
  <2>3. t.do \in Branches
    BY <1>9 DEF Branches
  <2> QED
    BY <1>1, <1>2, <1>4, <2>1, <2>2, <2>3, BranchInv DEF t
<1>10. CASE t.do \in {"set", "clear", "show"}
  <2>1. num' = num
    BY <1>1, <1>10
  <2>2. q \in Seq(Steps) /\ LockRuns(q, At(1, FALSE), Idle)
    BY <1>6, <1>10, Unlocks
  <2>3. t.do \in Branches
    BY <1>10 DEF Branches
  <2> QED
    BY <1>1, <1>2, <1>4, <2>1, <2>2, <2>3, BranchInv DEF t
<1>11. CASE t.do = "init"
  <2>1. num' = num /\ Running(c, "init")
    BY <1>1, <1>11 DEF Running, t
  <2> QED
    BY <1>1, <1>2, <1>4, <1>7, <1>11, <2>1, InitializedInv
<1>12. CASE t.do \in {"count", "delflag", "scan", "num", "flag", "field", "uninit"}
  <2>1. t.do \in Guarded
    BY <1>12 DEF Guarded
  <2>2. num' \in [Sets -> Count32 \cup {Absent}]
    BY <1>1 DEF Kept, Types
  <2>3. todo' = [todo EXCEPT ![c] = Recover(Rest(c))]
    BY <1>1, <1>8, <1>12
  <2>4. <<>> \in Seq(HeldSteps)
    OBVIOUS
  <2> QED
    BY <1>1, <1>2, <1>4, <2>1, <2>2, <2>3, <2>4, ContinueInv DEF t
<1> QED
  BY <1>3, <1>9, <1>10, <1>11, <1>12

(* Every step, by its action.                                              *)
LEMMA StepInv == IInv /\ [Next]_vars => IInv'
<1> SUFFICES ASSUME IInv, [Next]_vars PROVE IInv'
  OBVIOUS
<1>1. CASE UNCHANGED vars
  <2>1. UNCHANGED <<owner, db_lock, up, todo, inited, num, faults>>
    BY <1>1 DEF vars
  <2> QED
    BY <2>1 DEF IInv, SettingsRead, Types, Order, Orderly, Branching, Going
<1>2. ASSUME NEW c \in Clis, StartCLI(c) \/ Command(c) \/ exit(c) \/ Step(c)
      PROVE  IInv'
  <2>1. faults' = faults
    BY <1>2 DEF StartCLI, Command, set, clear, show, restore, save, Give, exit, Step, cli_db_lock, cli_db_unlock,
                StartBranch, cli_fpga_set_ruleset, cli_fpga_clear_ruleset, cli_get_filter_ruleset, StartScan, ScanStep,
                save_global_config, db_set_filter_rule_num, db_insert_flag, db_insert_field, db_delete_flag,
                db_delete_field, db_mark_uninitialized, db_set_initialized, capture_signals, reg_write, cam_command,
                Read, Wrote
  <2>2. ASSUME Kept PROVE Kept'
    <3>0. faults \in Nat
      BY DEF IInv
    <3>1. CASE StartCLI(c)
      BY <2>2, <3>0, <3>1, StartInv
    <3>2. CASE Command(c)
      BY <2>2, <3>0, <3>2, CommandInv
    <3>3. CASE exit(c)
      BY <2>1, <2>2, <3>0, <3>3, LeaveInv DEF exit
    <3>4. CASE db_set_initialized(c)
      <4>1. /\ Running(c, "init") /\ inited' = TRUE /\ todo' = [todo EXCEPT ![c] = Rest(c)]
            /\ UNCHANGED <<owner, db_lock, up, num>>
        BY <3>4 DEF db_set_initialized, Wrote, Become
      <4>2. faults' \in Nat /\ faults' >= faults /\ inited' \in BOOLEAN
        BY <2>1, <3>0, <4>1
      <4> QED
        BY <2>2, <3>0, <4>1, <4>2, InitializedInv
    <3>5. CASE Step(c)
      BY <2>2, <3>0, <3>4, <3>5, LockedInv, UnlockedInv, StartBranchInv, SetInv, ClearInv, ShowInv, StartScanInv,
         ScanStepInv, WriteInv, SignalsInv DEF Step
    <3> QED
      BY <1>2, <3>1, <3>2, <3>3, <3>5
  <2> QED
    BY <2>1, <2>2 DEF IInv, Kept, SettingsRead
<1>3. ASSUME NEW c \in Clis, Fault(c) PROVE IInv'
  <2>1. faults' = faults + 1 /\ faults \in Nat
    BY <1>3 DEF Fault, cleanup, DbFails, CamTimeout, Suffer, IInv
  <2>2. ASSUME SettingsRead' PROVE Kept'
    <3>1. Kept /\ "settings" \notin FaultKinds
      BY <2>1, <2>2 DEF IInv, SettingsRead, Kept
    <3>2. CASE cleanup(c)
      BY <2>1, <3>1, <3>2, LeaveInv DEF cleanup
    <3>3. CASE DbFails(c)
      <4>1. Head(todo[c]).do # "global"
        BY <3>1, <3>3 DEF DbFails, Suffer
      <4> QED
        BY <2>1, <3>1, <3>3, <4>1, FailInv
    <3>4. CASE CamTimeout(c)
      <4>1. /\ todo[c] # <<>> /\ Head(todo[c]).do \in Free /\ todo' = [todo EXCEPT ![c] = Rest(c)]
            /\ UNCHANGED <<owner, db_lock, up, inited, num>>
        BY <3>4 DEF CamTimeout, Running, Free, Become, dbvars
      <4>2. <<>> \in Seq(HeldSteps) /\ inited' \in BOOLEAN /\ num' \in [Sets -> Count32 \cup {Absent}]
        BY <3>1, <4>1 DEF Kept, Types
      <4>3. faults' \in Nat /\ faults' >= faults /\ faults \in Nat /\ (inited' => inited)
        BY <2>1, <4>1
      <4>4. /\ num' \in [Sets -> Count32 \cup {Absent}]
            /\ \/ todo' = [todo EXCEPT ![c] = <<>> \o Rest(c)]
               \/ todo' = [todo EXCEPT ![c] = Rest(c)]
               \/ todo' = [todo EXCEPT ![c] = Recover(Rest(c))]
        BY <4>1, <4>2
      <4> QED
        BY <3>1, <4>1, <4>2, <4>3, <4>4, ContinueInv
    <3> QED
      BY <1>3, <3>2, <3>3, <3>4 DEF Fault
  <2> QED
    BY <2>1, <2>2 DEF IInv, Kept
<1> QED
  BY <1>1, <1>2, <1>3 DEF Next

(* In every reachable state in which the settings have not failed under a  *)
(* save, every command is a sequence whose locks and unlocks match.        *)
THEOREM Inductive == Spec => []IInv
BY InitInv, StepInv, PTL DEF Spec

(* DB.Init is set once (cli.c and database.c): "db_set_initialized called  *)
(* twice!" is never seen, however many cli processes start together, as    *)
(* long as no call fails.                                                  *)
THEOREM OneInit == Spec => []InitOnce
<1>1. IInv => InitOnce
  <2> SUFFICES ASSUME IInv, Undisturbed, NEW c \in Clis, Running(c, "init") PROVE ~inited
    BY DEF InitOnce
  <2>1. Kept /\ faults = 0
    BY DEF IInv, SettingsRead, Undisturbed, Kept
  <2>2. ~inited \/ faults > 0
    BY <2>1, MarkedHead
  <2> QED
    BY <2>1, <2>2
<1> QED
  BY <1>1, Inductive, PTL

(* As long as save_global_config, which then unlocks once too often, has   *)
(* not failed to read a setting, every path out of a command, the error    *)
(* returns of parserops.c and database.c too, has undone its locks, for    *)
(* any number of cli processes and any number of signals, failing calls    *)
(* and CAM time-outs.                                                      *)
THEOREM Released == Spec => []LocksUndone
<1>1. IInv => LocksUndone
  <2> SUFFICES ASSUME IInv, SettingsRead
               PROVE \A c \in Clis : todo[c] = <<>> => owner # c /\ (up[c] # "off" => db_lock[c] = 0)
    BY DEF LocksUndone
  <2>1. Types /\ Order
    BY DEF IInv
  <2>2. ASSUME NEW c \in Clis, todo[c] = <<>> PROVE owner # c /\ (up[c] # "off" => db_lock[c] = 0)
    <3>1. CASE up[c] = "off"
      BY <2>1, <3>1 DEF Order, Orderly
    <3>2. CASE up[c] # "off"
      <4>1. (owner = c <=> db_lock[c] > 0) /\ (Branching(c) \/ Going(c))
        BY <2>1, <3>2 DEF Order, Orderly
      <4>2. ~Branching(c)
        <5> SUFFICES ASSUME NEW t \in Steps, todo[c] = <<Lock, t>> \/ todo[c] = <<t>> PROVE FALSE
          BY DEF Branching
        <5> QED
          BY <2>2
      <4>3. PICK x \in Labels : x.depth = db_lock[c] /\ LockRuns(<<>>, x, Idle)
        BY <2>2, <4>1, <4>2 DEF Going
      <4>4. x = Idle
        BY <4>3, RunsEmpty DEF LockRuns
      <4>5. Idle.depth = 0
        BY DEF Idle, At
      <4>6. db_lock[c] = 0
        BY <4>3, <4>4, <4>5
      <4>7. ~(db_lock[c] > 0)
        BY <4>6
      <4> QED
        BY <4>1, <4>6, <4>7
    <3> QED
      BY <3>1, <3>2
  <2> QED
    BY <2>2
<1> QED
  BY <1>1, Inductive, PTL

(* With the same exception, whoever reads or writes the rules in the       *)
(* database is the owner of its lock.                                      *)
THEOREM SectionsAreOwned == Spec => []SectionOwned
<1>1. IInv => SectionOwned
  <2> SUFFICES ASSUME IInv, SettingsRead
               PROVE \A c \in Clis :
                 \A k \in {"set", "clear", "show", "count", "scan", "num", "flag", "field", "delflag", "delfield"} :
                   Running(c, k) => owner = c
    BY DEF SectionOwned
  <2>1. Types /\ Order
    BY DEF IInv
  <2>2. ASSUME NEW c \in Clis,
               NEW k \in {"set", "clear", "show", "count", "scan", "num", "flag", "field", "delflag", "delfield"},
               Running(c, k)
        PROVE  owner = c
    <3>1. todo[c] # <<>> /\ Head(todo[c]).do = k
      BY <2>2 DEF Running
    <3>2. CASE k \in Branches
      BY <2>1, <3>1, <3>2, Branched DEF Order
    <3>3. CASE k \notin Branches
      <4>1. k \in Guarded
        BY <3>3 DEF Branches, Guarded
      <4>2. \A t : todo[c] # <<Lock, t>>
        <5> SUFFICES ASSUME NEW t, todo[c] = <<Lock, t>> PROVE FALSE
          OBVIOUS
        <5>1. Head(todo[c]) = Lock
          OBVIOUS
        <5> QED
          BY <5>1, <3>1 DEF Lock
      <4>3. /\ owner = c <=> db_lock[c] > 0
            /\ \E x, y \in Labels : x.depth = db_lock[c] /\ Goes(Head(todo[c]), x, y)
        BY <2>1, <3>1, <3>3, <4>2, Taken DEF Order
      <4>4. PICK x, y \in Labels : x.depth = db_lock[c] /\ Goes(Head(todo[c]), x, y)
        BY <4>3
      <4>5. x.depth > 0
        BY <3>1, <4>1, <4>4 DEF Goes, Guarded, Free
      <4> QED
        BY <4>3, <4>4, <4>5
    <3> QED
      BY <3>2, <3>3
  <2> QED
    BY <2>2
<1> QED
  BY <1>1, Inductive, PTL

-----------------------------------------------------------------------------
(* What the steps do to the rules.  A set is seen as a table, and each     *)
(* step as a move from one table to another; a loop over the rules is one  *)
(* move, to the table it will have made when it ends.                      *)

(* The rules of a set as the database has them: the count, the rules whose *)
(* flag is there, the fields each flag names and the fields that are there.*)
Table(n, e, a, p) == [num |-> n, ex |-> e, named |-> a, present |-> p]
Tables ==
  {x \in [num : Count32 \cup {Absent}, ex : SUBSET Ids, named : [Ids -> SUBSET AllFields],
          present : [Ids -> SUBSET AllFields]] :
     \A id \in Ids \ x.ex : x.named[id] = {}}
EveryWhole(a) == \A id \in Ids : a.named[id] \subseteq a.present[id]
Right(a) == a.num = Cardinality(a.ex) /\ EveryWhole(a)
Emptied(a) == Table(0, {}, [id \in Ids |-> {}], [id \in Ids |-> a.present[id] \ a.named[id]])
Walked(m, a) == IF m = "reset" THEN Emptied(a) ELSE a
From(a, n) == {id \in a.ex : id >= n}
(* What a loop has still to count is what is there from its index on.      *)
Ahead(t, a) ==
  /\ t.number - t.matched = Cardinality(From(a, t.id))
  /\ EveryWhole(a)
  /\ t.mode = "reset" => a.ex = From(a, t.id)

(* What a step does to the table of its set.  A loop is one step.          *)
TableStep(t, a, b) ==
  \/ t.do = "num" /\ b = Table(t.n, a.ex, a.named, a.present)
  \/ t.do = "flag" /\ b = Table(a.num, a.ex \cup {t.id}, [a.named EXCEPT ![t.id] = t.fs], a.present)
  \/ t.do = "field" /\ b = Table(a.num, a.ex, a.named, [a.present EXCEPT ![t.id] = @ \cup {t.f}])
  \/ t.do = "delflag" /\ b = Table(a.num, a.ex \ {t.id}, [a.named EXCEPT ![t.id] = {}], a.present)
  \/ /\ t.do = "delfield" /\ t.f \in a.present[t.id]
     /\ b = Table(a.num, a.ex, a.named, [a.present EXCEPT ![t.id] = @ \ {t.f}])
  \/ t.do = "count" /\ Right(a) /\ b = Walked(t.mode, a)
  \/ t.do = "scan" /\ Ahead(t, a) /\ b = Walked(t.mode, a)
TableMoves(s) == {g \in StepsOf(s) \X Tables \X Tables : TableStep(g[1], g[2], g[3])}
TableRuns(q, s, a, b) == Runs(q, TableMoves(s), Tables, a, b)

(* What a table is made of.                                                *)
LEMMA TablesAre ==
  ASSUME NEW a \in Tables
  PROVE  /\ a.num \in Count32 \cup {Absent} /\ a.ex \in SUBSET Ids
         /\ a.named \in [Ids -> SUBSET AllFields] /\ a.present \in [Ids -> SUBSET AllFields]
         /\ \A id \in Ids \ a.ex : a.named[id] = {}
         /\ a = Table(a.num, a.ex, a.named, a.present)
BY DEF Tables, Table

(* What the constructor of tables returns.                                 *)
LEMMA TableIs ==
  ASSUME NEW n \in Count32 \cup {Absent}, NEW e \in SUBSET Ids, NEW a \in [Ids -> SUBSET AllFields],
         NEW p \in [Ids -> SUBSET AllFields], \A id \in Ids \ e : a[id] = {}
  PROVE  /\ Table(n, e, a, p) \in Tables
         /\ Table(n, e, a, p).num = n /\ Table(n, e, a, p).ex = e
         /\ Table(n, e, a, p).named = a /\ Table(n, e, a, p).present = p
BY DEF Tables, Table

(* A set after its reset has no rule, and counts none.                     *)
LEMMA EmptiedIs ==
  ASSUME NEW a \in Tables
  PROVE  Emptied(a) \in Tables /\ Right(Emptied(a)) /\ Emptied(a).ex = {}
<1>1. 0 \in Count32
  BY Numbers DEF Count32
<1> DEFINE n == [id \in Ids |-> {}]
           p == [id \in Ids |-> a.present[id] \ a.named[id]]
<1>2. n \in [Ids -> SUBSET AllFields] /\ p \in [Ids -> SUBSET AllFields] /\ \A id \in Ids : n[id] = {}
  BY TablesAre
<1> HIDE DEF n, p
<1>3. /\ Table(0, {}, n, p) \in Tables /\ Table(0, {}, n, p).num = 0 /\ Table(0, {}, n, p).ex = {}
      /\ Table(0, {}, n, p).named = n
  BY <1>1, <1>2, TableIs
<1>4. Emptied(a) = Table(0, {}, n, p)
  BY DEF Emptied, n, p
<1>5. Right(Table(0, {}, n, p))
  BY <1>2, <1>3, FS_EmptySet DEF Right, EveryWhole
<1> QED
  BY <1>3, <1>4, <1>5

(* Rules are few.                                                          *)
LEMMA FewRules ==
  ASSUME NEW e \in SUBSET Ids
  PROVE  IsFiniteSet(e) /\ Cardinality(e) \in Nat /\ Cardinality(e) + 1 < Word
<1>1. IsFiniteSet(Ids) /\ Cardinality(Ids) = MaxRule
  BY FS_Interval, Numbers DEF Ids
<1>2. IsFiniteSet(e) /\ Cardinality(e) <= MaxRule
  BY <1>1, FS_Subset
<1>3. Cardinality(e) \in Nat
  BY <1>2, FS_CardinalityType
<1> QED
  BY <1>2, <1>3, Numbers

(* The table that a loop leaves is a table.                                *)
LEMMA WalkedIs ==
  ASSUME NEW a \in Tables, NEW m \in {"reset", "save"}
  PROVE  Walked(m, a) \in Tables /\ (Right(a) => Right(Walked(m, a)))
BY EmptiedIs DEF Walked

(* A step that leads from table to table.                                  *)
LEMMA OneTableStep ==
  ASSUME NEW s, NEW t \in StepsOf(s), NEW a \in Tables, NEW b \in Tables, TableStep(t, a, b)
  PROVE  TableRuns(<<t>>, s, a, b)
<1>1. <<t, a, b>> \in TableMoves(s)
  BY DEF TableMoves
<1> QED
  BY <1>1, RunsOne DEF TableRuns

(* Which steps are steps on a set.                                         *)
LEMMA StepsOfAre ==
  ASSUME NEW s \in Sets
  PROVE  /\ StepsOf(s) \subseteq Steps
         /\ \A n \in Count32 : SetNum(s, n) \in StepsOf(s)
         /\ \A m \in {"reset", "save"} : Count(m, s) \in StepsOf(s)
         /\ \A m \in {"reset", "save"}, i \in 0 .. MaxRule, k \in Nat, n \in Count32 : Scan(m, s, i, k, n) \in StepsOf(s)
         /\ \A id \in Ids :
              /\ \A F \in SUBSET Fields(s) : InsertFlag(s, id, F) \in StepsOf(s)
              /\ \A f \in Fields(s), v \in Values : InsertField(s, id, f, v) \in StepsOf(s)
              /\ DeleteFlag(s, id) \in StepsOf(s)
              /\ \A f \in Fields(s) : DeleteField(s, id, f) \in StepsOf(s)
<1>1. StepsOf(s) \subseteq Steps
  BY DEF Steps
<1>2. \A n \in Count32 : SetNum(s, n) \in StepsOf(s)
  BY DEF StepsOf, SetNum
<1>3. \A m \in {"reset", "save"} : Count(m, s) \in StepsOf(s)
  BY DEF StepsOf, Count
<1>4. \A m \in {"reset", "save"}, i \in 0 .. MaxRule, k \in Nat, n \in Count32 : Scan(m, s, i, k, n) \in StepsOf(s)
  BY DEF StepsOf, Scan
<1>5. ASSUME NEW id \in Ids
      PROVE  /\ \A F \in SUBSET Fields(s) : InsertFlag(s, id, F) \in StepsOf(s)
             /\ \A f \in Fields(s), v \in Values : InsertField(s, id, f, v) \in StepsOf(s)
             /\ DeleteFlag(s, id) \in StepsOf(s)
             /\ \A f \in Fields(s) : DeleteField(s, id, f) \in StepsOf(s)
  BY DEF StepsOf, InsertFlag, InsertField, DeleteFlag, DeleteField
<1> QED
  BY <1>1, <1>2, <1>3, <1>4, <1>5

(* The fields of a set are among those of all.                             *)
LEMMA FieldsOfSet == \A s \in Sets : Fields(s) \subseteq AllFields
BY Numbers DEF AllFields

(* The fields a set of fields names are all of them, each once.            *)
LEMMA NamedAll ==
  ASSUME NEW s \in Sets, NEW F \in SUBSET Fields(s)
  PROVE  /\ F = {Named(s, F)[i] : i \in 1 .. Len(Named(s, F))}
         /\ \A i, j \in 1 .. Len(Named(s, F)) : Named(s, F)[i] = Named(s, F)[j] => i = j
<1>1. s \in {1, 2}
  BY Numbers
<1> DEFINE a == FieldSeq[s][1]
           b == FieldSeq[s][2]
           p == IF a \in F THEN <<a>> ELSE <<>>
           q == IF b \in F THEN <<b>> ELSE <<>>
<1>2. a # b /\ Fields(s) = {a, b}
  BY <1>1, TwoFields
<1>3. Named(s, F) = p \o q
  BY DEF Named
<1> HIDE DEF a, b
<1>4. CASE a \in F /\ b \in F
  <2>1. p = <<a>> /\ q = <<b>>
    BY <1>4
  <2>2. <<a>> \o <<b>> = <<a, b>>
    BY Two
  <2>3. Named(s, F) = <<a, b>> /\ F = {a, b}
    BY <1>2, <1>3, <1>4, <2>1, <2>2
  <2> QED
    BY <1>2, <2>3
<1>5. CASE a \in F /\ b \notin F
  <2>1. Named(s, F) = <<a>> /\ F = {a}
    BY <1>2, <1>3, <1>5
  <2> QED
    BY <2>1
<1>6. CASE a \notin F /\ b \in F
  <2>1. Named(s, F) = <<b>> /\ F = {b}
    BY <1>2, <1>3, <1>6
  <2> QED
    BY <2>1
<1>7. CASE a \notin F /\ b \notin F
  <2>1. Named(s, F) = <<>> /\ F = {}
    BY <1>2, <1>3, <1>7
  <2> QED
    BY <2>1
<1> QED
  BY <1>4, <1>5, <1>6, <1>7

(* Storing the fields of a rule, and deleting them, one by one.            *)
With(a, id, F) == Table(a.num, a.ex, a.named, [a.present EXCEPT ![id] = @ \cup F])
Without(a, id, F) == Table(a.num, a.ex, a.named, [a.present EXCEPT ![id] = @ \ F])

(* Tables with more fields of a rule, or fewer.                            *)
LEMMA FieldTables ==
  ASSUME NEW a \in Tables, NEW id \in Ids, NEW F \in SUBSET AllFields
  PROVE  With(a, id, F) \in Tables /\ Without(a, id, F) \in Tables
<1> DEFINE p == [a.present EXCEPT ![id] = @ \cup F]
           q == [a.present EXCEPT ![id] = @ \ F]
<1>1. p \in [Ids -> SUBSET AllFields] /\ q \in [Ids -> SUBSET AllFields]
  BY TablesAre
<1> HIDE DEF p, q
<1>2. Table(a.num, a.ex, a.named, p) \in Tables /\ Table(a.num, a.ex, a.named, q) \in Tables
  BY <1>1, TablesAre, TableIs
<1> QED
  BY <1>2 DEF With, Without, p, q

(* One field more, or one less.                                            *)
LEMMA FieldMoves ==
  ASSUME NEW s \in Sets, NEW a \in Tables, NEW id \in Ids, NEW F \in SUBSET Fields(s), NEW f \in Fields(s)
  PROVE  /\ \A v \in Values :
              <<InsertField(s, id, f, v), With(a, id, F), With(a, id, F \cup {f})>> \in TableMoves(s)
         /\ f \in a.present[id] \ F =>
              <<DeleteField(s, id, f), Without(a, id, F), Without(a, id, F \cup {f})>> \in TableMoves(s)
<1>1. F \in SUBSET AllFields /\ F \cup {f} \in SUBSET AllFields
  BY FieldsOfSet
<1>2. a.present \in [Ids -> SUBSET AllFields]
  BY TablesAre
<1>3. ASSUME NEW v \in Values
      PROVE  <<InsertField(s, id, f, v), With(a, id, F), With(a, id, F \cup {f})>> \in TableMoves(s)
  <2> DEFINE t == InsertField(s, id, f, v)
             x == With(a, id, F)
  <2>1. t \in StepsOf(s) /\ t.do = "field" /\ t.id = id /\ t.f = f
    BY StepsOfAre DEF InsertField
  <2>2. x.num = a.num /\ x.ex = a.ex /\ x.named = a.named /\ x.present = [a.present EXCEPT ![id] = @ \cup F]
    BY DEF With, Table
  <2>3. [x.present EXCEPT ![id] = @ \cup {f}] = [a.present EXCEPT ![id] = @ \cup (F \cup {f})]
    BY <1>2, <2>2
  <2>4. With(a, id, F \cup {f}) = Table(x.num, x.ex, x.named, [x.present EXCEPT ![t.id] = @ \cup {t.f}])
    BY <2>1, <2>2, <2>3 DEF With
  <2> HIDE DEF t, x
  <2>5. TableStep(t, x, With(a, id, F \cup {f}))
    BY <2>1, <2>4 DEF TableStep
  <2>6. x \in Tables /\ With(a, id, F \cup {f}) \in Tables
    BY <1>1, FieldTables DEF x
  <2>7. <<t, x, With(a, id, F \cup {f})>> \in TableMoves(s)
    BY <2>1, <2>5, <2>6 DEF TableMoves
  <2> QED
    BY <2>7 DEF t, x
<1>4. ASSUME f \in a.present[id] \ F
      PROVE  <<DeleteField(s, id, f), Without(a, id, F), Without(a, id, F \cup {f})>> \in TableMoves(s)
  <2> DEFINE t == DeleteField(s, id, f)
             x == Without(a, id, F)
  <2>1. t \in StepsOf(s) /\ t.do = "delfield" /\ t.id = id /\ t.f = f
    BY StepsOfAre DEF DeleteField
  <2>2. x.num = a.num /\ x.ex = a.ex /\ x.named = a.named /\ x.present = [a.present EXCEPT ![id] = @ \ F]
    BY DEF Without, Table
  <2>3. [x.present EXCEPT ![id] = @ \ {f}] = [a.present EXCEPT ![id] = @ \ (F \cup {f})]
    BY <1>2, <2>2
  <2>4. Without(a, id, F \cup {f}) = Table(x.num, x.ex, x.named, [x.present EXCEPT ![t.id] = @ \ {t.f}])
    BY <2>1, <2>2, <2>3 DEF Without
  <2>5. t.f \in x.present[t.id]
    BY <1>2, <1>4, <2>1, <2>2
  <2> HIDE DEF t, x
  <2>6. TableStep(t, x, Without(a, id, F \cup {f}))
    BY <2>1, <2>4, <2>5 DEF TableStep
  <2>7. x \in Tables /\ Without(a, id, F \cup {f}) \in Tables
    BY <1>1, FieldTables DEF x
  <2>8. <<t, x, Without(a, id, F \cup {f})>> \in TableMoves(s)
    BY <2>1, <2>6, <2>7 DEF TableMoves
  <2> QED
    BY <2>8 DEF t, x
<1> QED
  BY <1>3, <1>4

(* All of them, one by one.                                                *)
LEMMA FieldRuns ==
  ASSUME NEW s \in Sets, NEW a \in Tables, NEW id \in Ids, NEW fs \in Seq(Fields(s)),
         \A i, j \in 1 .. Len(fs) : fs[i] = fs[j] => i = j
  PROVE  \A q \in Seq(Steps) : Len(q) = Len(fs) =>
           /\ (\A i \in 1 .. Len(fs) : \E v \in Values : q[i] = InsertField(s, id, fs[i], v)) =>
                TableRuns(q, s, a, With(a, id, {fs[i] : i \in 1 .. Len(fs)}))
           /\ /\ \A i \in 1 .. Len(fs) : q[i] = DeleteField(s, id, fs[i])
              /\ {fs[i] : i \in 1 .. Len(fs)} \subseteq a.present[id]
              => TableRuns(q, s, a, Without(a, id, {fs[i] : i \in 1 .. Len(fs)}))
<1> DEFINE F == {fs[i] : i \in 1 .. Len(fs)}
           n == Len(fs)
           U == [k \in 1 .. n + 1 |-> {fs[j] : j \in 1 .. k - 1}]
<1>1. n \in Nat /\ \A k \in 1 .. n + 1 : U[k] \in SUBSET Fields(s)
  OBVIOUS
<1>2. \A i \in 1 .. n : U[i + 1] = U[i] \cup {fs[i]} /\ fs[i] \in Fields(s) /\ fs[i] \notin U[i]
  <2> SUFFICES ASSUME NEW i \in 1 .. n
               PROVE  U[i + 1] = U[i] \cup {fs[i]} /\ fs[i] \in Fields(s) /\ fs[i] \notin U[i]
    OBVIOUS
  <2>1. 1 .. i + 1 - 1 = 1 .. i - 1 \cup {i}
    OBVIOUS
  <2>2. \A j \in 1 .. i - 1 : j \in 1 .. Len(fs) /\ j # i
    OBVIOUS
  <2> QED
    BY <2>1, <2>2
<1>3. U[1] = {} /\ U[n + 1] = F
  BY <1>1
<1>4. With(a, id, {}) = a /\ Without(a, id, {}) = a
  <2>1. [a.present EXCEPT ![id] = @ \cup {}] = a.present /\ [a.present EXCEPT ![id] = @ \ {}] = a.present
    BY TablesAre
  <2> QED
    BY <2>1, TablesAre DEF With, Without
<1>5. \A k \in 1 .. n + 1 : U[k] \in SUBSET AllFields
  BY <1>1, FieldsOfSet
<1> HIDE DEF U, F
<1>6. ASSUME NEW q \in Seq(Steps), Len(q) = n,
             \A i \in 1 .. n : \E v \in Values : q[i] = InsertField(s, id, fs[i], v)
      PROVE  TableRuns(q, s, a, With(a, id, F))
  <2> DEFINE d == [k \in 1 .. n + 1 |-> With(a, id, U[k])]
  <2>1. Len(q) = n
    BY <1>6
  <2>2. d \in [1 .. n + 1 -> Tables] /\ d[1] = a /\ d[n + 1] = With(a, id, F)
    <3>1. \A k \in 1 .. n + 1 : With(a, id, U[k]) \in Tables
      BY <1>5, FieldTables
    <3>2. 1 \in 1 .. n + 1 /\ n + 1 \in 1 .. n + 1
      BY <1>1
    <3> QED
      BY <1>3, <1>4, <3>1, <3>2
  <2>3. ASSUME NEW i \in 1 .. n PROVE <<q[i], d[i], d[i + 1]>> \in TableMoves(s)
    <3>0. i \in 1 .. n + 1 /\ i + 1 \in 1 .. n + 1
      BY <1>1
    <3>v. PICK v \in Values : q[i] = InsertField(s, id, fs[i], v)
      BY <1>6
    <3>1. q[i] = InsertField(s, id, fs[i], v) /\ d[i] = With(a, id, U[i]) /\ d[i + 1] = With(a, id, U[i] \cup {fs[i]})
      BY <1>2, <3>0, <3>v
    <3>2. U[i] \in SUBSET Fields(s) /\ fs[i] \in Fields(s)
      BY <1>1, <1>2, <3>0
    <3> HIDE DEF d
    <3>3. <<InsertField(s, id, fs[i], v), With(a, id, U[i]), With(a, id, U[i] \cup {fs[i]})>> \in TableMoves(s)
      BY <3>2, FieldMoves
    <3> QED
      BY <3>1, <3>3, Zenon
  <2> HIDE DEF d, n
  <2>4. \A i \in 1 .. Len(q) : <<q[i], d[i], d[i + 1]>> \in TableMoves(s)
    BY <2>1, <2>3
  <2>5. TableRuns(q, s, a, With(a, id, F))
    BY <2>1, <2>2, <2>4 DEF TableRuns, Runs
  <2> QED
    BY <2>5
<1>7. ASSUME NEW q \in Seq(Steps), Len(q) = n,
             \A i \in 1 .. n : q[i] = DeleteField(s, id, fs[i]), F \subseteq a.present[id]
      PROVE  TableRuns(q, s, a, Without(a, id, F))
  <2> DEFINE d == [k \in 1 .. n + 1 |-> Without(a, id, U[k])]
  <2>1. Len(q) = n
    BY <1>7
  <2>2. d \in [1 .. n + 1 -> Tables] /\ d[1] = a /\ d[n + 1] = Without(a, id, F)
    <3>1. \A k \in 1 .. n + 1 : Without(a, id, U[k]) \in Tables
      BY <1>5, FieldTables
    <3>2. 1 \in 1 .. n + 1 /\ n + 1 \in 1 .. n + 1
      BY <1>1
    <3> QED
      BY <1>3, <1>4, <3>1, <3>2
  <2>3. ASSUME NEW i \in 1 .. n PROVE <<q[i], d[i], d[i + 1]>> \in TableMoves(s)
    <3>0. i \in 1 .. n + 1 /\ i + 1 \in 1 .. n + 1
      BY <1>1
    <3>1. q[i] = DeleteField(s, id, fs[i]) /\ d[i] = Without(a, id, U[i]) /\ d[i + 1] = Without(a, id, U[i] \cup {fs[i]})
      BY <1>2, <1>7, <3>0
    <3>2. U[i] \in SUBSET Fields(s) /\ fs[i] \in Fields(s) /\ fs[i] \in a.present[id] \ U[i]
      <4>1. fs[i] \in F
        BY DEF F
      <4> QED
        BY <1>1, <1>2, <1>7, <3>0, <4>1
    <3> HIDE DEF d
    <3>3. <<DeleteField(s, id, fs[i]), Without(a, id, U[i]), Without(a, id, U[i] \cup {fs[i]})>> \in TableMoves(s)
      BY <3>2, FieldMoves
    <3> QED
      BY <3>1, <3>3, Zenon
  <2> HIDE DEF d, n
  <2>4. \A i \in 1 .. Len(q) : <<q[i], d[i], d[i + 1]>> \in TableMoves(s)
    BY <2>1, <2>3
  <2>5. TableRuns(q, s, a, Without(a, id, F))
    BY <2>1, <2>2, <2>4 DEF TableRuns, Runs
  <2> QED
    BY <2>5
<1> QED
  BY <1>6, <1>7 DEF F

Drop(a, id) ==
  Table(a.num, a.ex \ {id}, [a.named EXCEPT ![id] = {}], [a.present EXCEPT ![id] = @ \ a.named[id]])
Store(a, id, F) ==
  Table(a.num, a.ex \cup {id}, [a.named EXCEPT ![id] = F], [a.present EXCEPT ![id] = @ \cup F])
Counted(a, n) == Table(n, a.ex, a.named, a.present)

(* Tables with a rule less, or more, and with another count.               *)
LEMMA ChangedTables ==
  ASSUME NEW a \in Tables, NEW id \in Ids
  PROVE  /\ Drop(a, id) \in Tables /\ Drop(a, id).num = a.num /\ Drop(a, id).ex = a.ex \ {id}
         /\ EveryWhole(a) => EveryWhole(Drop(a, id))
         /\ \A F \in SUBSET AllFields :
              /\ Store(a, id, F) \in Tables /\ Store(a, id, F).num = a.num
              /\ Store(a, id, F).ex = a.ex \cup {id}
              /\ EveryWhole(a) => EveryWhole(Store(a, id, F))
         /\ \A n \in Count32 \cup {Absent} :
              /\ Counted(a, n) \in Tables /\ Counted(a, n).num = n
              /\ Counted(a, n).ex = a.ex /\ Counted(a, n).named = a.named /\ Counted(a, n).present = a.present
              /\ EveryWhole(a) => EveryWhole(Counted(a, n))
<1>1. /\ a.num \in Count32 \cup {Absent} /\ a.ex \in SUBSET Ids
      /\ a.named \in [Ids -> SUBSET AllFields] /\ a.present \in [Ids -> SUBSET AllFields]
      /\ \A i \in Ids \ a.ex : a.named[i] = {}
  BY TablesAre
<1>2. /\ Drop(a, id) \in Tables /\ Drop(a, id).num = a.num /\ Drop(a, id).ex = a.ex \ {id}
      /\ EveryWhole(a) => EveryWhole(Drop(a, id))
  <2> DEFINE e == a.ex \ {id}
             m == [a.named EXCEPT ![id] = {}]
             p == [a.present EXCEPT ![id] = @ \ a.named[id]]
  <2>1. /\ e \in SUBSET Ids /\ m \in [Ids -> SUBSET AllFields] /\ p \in [Ids -> SUBSET AllFields]
        /\ \A i \in Ids \ e : m[i] = {}
        /\ \A i \in Ids : a.named[i] \subseteq a.present[i] => m[i] \subseteq p[i]
    BY <1>1
  <2> HIDE DEF e, m, p
  <2>2. /\ Table(a.num, e, m, p) \in Tables /\ Table(a.num, e, m, p).num = a.num /\ Table(a.num, e, m, p).ex = e
        /\ Table(a.num, e, m, p).named = m /\ Table(a.num, e, m, p).present = p
    BY <1>1, <2>1, TableIs
  <2>3. Drop(a, id) = Table(a.num, e, m, p)
    BY DEF Drop, e, m, p
  <2>4. EveryWhole(a) => EveryWhole(Table(a.num, e, m, p))
    BY <2>1, <2>2 DEF EveryWhole
  <2> QED
    BY <2>2, <2>3, <2>4 DEF e
<1>3. ASSUME NEW F \in SUBSET AllFields
      PROVE  /\ Store(a, id, F) \in Tables /\ Store(a, id, F).num = a.num
             /\ Store(a, id, F).ex = a.ex \cup {id}
             /\ EveryWhole(a) => EveryWhole(Store(a, id, F))
  <2> DEFINE e == a.ex \cup {id}
             m == [a.named EXCEPT ![id] = F]
             p == [a.present EXCEPT ![id] = @ \cup F]
  <2>1. /\ e \in SUBSET Ids /\ m \in [Ids -> SUBSET AllFields] /\ p \in [Ids -> SUBSET AllFields]
        /\ \A i \in Ids \ e : m[i] = {}
        /\ \A i \in Ids : a.named[i] \subseteq a.present[i] => m[i] \subseteq p[i]
    BY <1>1
  <2> HIDE DEF e, m, p
  <2>2. /\ Table(a.num, e, m, p) \in Tables /\ Table(a.num, e, m, p).num = a.num /\ Table(a.num, e, m, p).ex = e
        /\ Table(a.num, e, m, p).named = m /\ Table(a.num, e, m, p).present = p
    BY <1>1, <2>1, TableIs
  <2>3. Store(a, id, F) = Table(a.num, e, m, p)
    BY DEF Store, e, m, p
  <2>4. EveryWhole(a) => EveryWhole(Table(a.num, e, m, p))
    BY <2>1, <2>2 DEF EveryWhole
  <2> QED
    BY <2>2, <2>3, <2>4 DEF e
<1>4. ASSUME NEW n \in Count32 \cup {Absent}
      PROVE  /\ Counted(a, n) \in Tables /\ Counted(a, n).num = n
             /\ Counted(a, n).ex = a.ex /\ Counted(a, n).named = a.named /\ Counted(a, n).present = a.present
             /\ EveryWhole(a) => EveryWhole(Counted(a, n))
  <2>1. /\ Counted(a, n) \in Tables /\ Counted(a, n).num = n
        /\ Counted(a, n).ex = a.ex /\ Counted(a, n).named = a.named /\ Counted(a, n).present = a.present
    BY <1>1, TableIs DEF Counted
  <2> QED
    BY <2>1 DEF EveryWhole
<1> QED
  BY <1>2, <1>3, <1>4

(* Deleting a rule: the flag goes first, and then the fields it named.     *)
LEMMA DeleteRuns ==
  ASSUME NEW s \in Sets, NEW a \in Tables, NEW id \in Ids, EveryWhole(a),
         flag[s][id] = a.named[id], a.named[id] \subseteq Fields(s)
  PROVE  TableRuns(db_delete_filter_rule(s, id), s, a, Drop(a, id))
<1> DEFINE F == a.named[id]
           fs == Named(s, F)
           b == Table(a.num, a.ex \ {id}, [a.named EXCEPT ![id] = {}], a.present)
           q == [i \in 1 .. Len(fs) |-> DeleteField(s, id, fs[i])]
<1>1. /\ a.num \in Count32 \cup {Absent} /\ a.ex \in SUBSET Ids
      /\ a.named \in [Ids -> SUBSET AllFields] /\ a.present \in [Ids -> SUBSET AllFields]
      /\ \A i \in Ids \ a.ex : a.named[i] = {}
  BY TablesAre
<1>2. F \subseteq a.present[id] /\ F \in SUBSET Fields(s)
  BY DEF EveryWhole
<1>3. /\ b \in Tables /\ b.num = a.num /\ b.ex = a.ex \ {id}
      /\ b.named = [a.named EXCEPT ![id] = {}] /\ b.present = a.present
  <2>1. /\ [a.named EXCEPT ![id] = {}] \in [Ids -> SUBSET AllFields]
        /\ \A i \in Ids \ (a.ex \ {id}) : [a.named EXCEPT ![id] = {}][i] = {}
        /\ a.ex \ {id} \in SUBSET Ids
    BY <1>1
  <2> QED
    BY <1>1, <2>1, TableIs
<1>4. TableRuns(<<DeleteFlag(s, id)>>, s, a, b)
  <2>1. DeleteFlag(s, id) \in StepsOf(s) /\ DeleteFlag(s, id).do = "delflag" /\ DeleteFlag(s, id).id = id
    BY StepsOfAre DEF DeleteFlag
  <2>2. TableStep(DeleteFlag(s, id), a, b)
    BY <2>1 DEF TableStep
  <2> QED
    BY <1>3, <2>1, <2>2, OneTableStep
<1>5. Drop(a, id) = Without(b, id, F)
  BY <1>3 DEF Drop, Without
<1>6. /\ fs \in Seq(Fields(s)) /\ F = {fs[i] : i \in 1 .. Len(fs)}
      /\ \A i, j \in 1 .. Len(fs) : fs[i] = fs[j] => i = j
  BY <1>2, NamedFields, NamedAll
<1> HIDE DEF fs, b, F
<1>9. <<DeleteFlag(s, id)>> \in Seq(Steps) /\ q \in Seq(Steps)
  BY <1>6, RuleSteps
<1>q. Len(q) = Len(fs) /\ \A i \in 1 .. Len(fs) : q[i] = DeleteField(s, id, fs[i])
  BY <1>6
<1>p. {fs[i] : i \in 1 .. Len(fs)} \subseteq b.present[id]
  BY <1>2, <1>3, <1>6
<1> HIDE DEF q
<1>7. TableRuns(q, s, b, Without(b, id, {fs[i] : i \in 1 .. Len(fs)}))
  BY <1>3, <1>6, <1>9, <1>q, <1>p, FieldRuns
<1>8. TableRuns(q, s, b, Drop(a, id))
  BY <1>5, <1>6, <1>7
<1>10. TableRuns(<<DeleteFlag(s, id)>> \o q, s, a, Drop(a, id))
  BY <1>4, <1>8, <1>9, RunsCat DEF TableRuns
<1>11. db_delete_filter_rule(s, id) = <<DeleteFlag(s, id)>> \o q
  BY DEF db_delete_filter_rule, q, fs, F
<1> QED
  BY <1>10, <1>11

(* Storing one: the flag goes first, and then the fields it names.         *)
LEMMA StoreRuns ==
  ASSUME NEW s \in Sets, NEW a \in Tables, NEW id \in Ids, NEW r \in Rules[s]
  PROVE  TableRuns(db_set_filter_rule(s, id, r), s, a, Store(a, id, DOMAIN r)) /\ DOMAIN r \in SUBSET AllFields
<1> DEFINE F == DOMAIN r
           fs == Named(s, F)
           b == Table(a.num, a.ex \cup {id}, [a.named EXCEPT ![id] = F], a.present)
           q == [i \in 1 .. Len(fs) |-> InsertField(s, id, fs[i], r[fs[i]])]
<1>1. /\ a.num \in Count32 \cup {Absent} /\ a.ex \in SUBSET Ids
      /\ a.named \in [Ids -> SUBSET AllFields] /\ a.present \in [Ids -> SUBSET AllFields]
      /\ \A i \in Ids \ a.ex : a.named[i] = {}
  BY TablesAre
<1>2. F \in SUBSET Fields(s) /\ F \in SUBSET AllFields
  BY RuleAssumption, FieldsOfSet
<1>a. \A f \in F : r[f] \in Values
  BY DEF Values
<1> HIDE DEF F
<1>3. /\ b \in Tables /\ b.num = a.num /\ b.ex = a.ex \cup {id}
      /\ b.named = [a.named EXCEPT ![id] = F] /\ b.present = a.present
  <2>1. /\ [a.named EXCEPT ![id] = F] \in [Ids -> SUBSET AllFields]
        /\ \A i \in Ids \ (a.ex \cup {id}) : [a.named EXCEPT ![id] = F][i] = {}
        /\ a.ex \cup {id} \in SUBSET Ids
    BY <1>1, <1>2
  <2> QED
    BY <1>1, <2>1, TableIs
<1>4. TableRuns(<<InsertFlag(s, id, F)>>, s, a, b)
  <2>1. InsertFlag(s, id, F) \in StepsOf(s) /\ InsertFlag(s, id, F).do = "flag"
        /\ InsertFlag(s, id, F).id = id /\ InsertFlag(s, id, F).fs = F
    BY <1>2, StepsOfAre DEF InsertFlag
  <2>2. TableStep(InsertFlag(s, id, F), a, b)
    BY <2>1 DEF TableStep
  <2> QED
    BY <1>3, <2>1, <2>2, OneTableStep
<1>5. Store(a, id, F) = With(b, id, F)
  BY <1>3 DEF Store, With
<1>6. /\ fs \in Seq(Fields(s)) /\ F = {fs[i] : i \in 1 .. Len(fs)}
      /\ \A i, j \in 1 .. Len(fs) : fs[i] = fs[j] => i = j
  BY <1>2, NamedFields, NamedAll
<1> HIDE DEF fs, b
<1>b. \A i \in 1 .. Len(fs) : r[fs[i]] \in Values
  BY <1>a, <1>6
<1>9. <<InsertFlag(s, id, F)>> \in Seq(Steps) /\ q \in Seq(Steps)
  <2>1. \A i \in 1 .. Len(fs) : InsertField(s, id, fs[i], r[fs[i]]) \in Steps
    BY <1>6, <1>b, RuleSteps
  <2>2. InsertFlag(s, id, F) \in Steps
    BY <1>2, RuleSteps
  <2>3. q \in Seq(Steps)
    BY <1>6, <2>1
  <2> QED
    BY <2>2, <2>3
<1>q. Len(q) = Len(fs) /\ \A i \in 1 .. Len(fs) : \E v \in Values : q[i] = InsertField(s, id, fs[i], v)
  BY <1>6, <1>b
<1> HIDE DEF q
<1>7. TableRuns(q, s, b, With(b, id, {fs[i] : i \in 1 .. Len(fs)}))
  BY <1>3, <1>6, <1>9, <1>q, FieldRuns
<1>8. TableRuns(q, s, b, Store(a, id, F))
  BY <1>5, <1>6, <1>7
<1>10. TableRuns(<<InsertFlag(s, id, F)>> \o q, s, a, Store(a, id, F))
  BY <1>4, <1>8, <1>9, RunsCat DEF TableRuns
<1>11. db_set_filter_rule(s, id, r) = <<InsertFlag(s, id, F)>> \o q
  BY DEF db_set_filter_rule, q, fs, F
<1> QED
  BY <1>2, <1>10, <1>11 DEF F

(* Counting a rule that is new, and storing it, keeps the count right.     *)
LEMMA SetPlan ==
  ASSUME NEW s \in Sets, NEW a \in Tables, NEW id \in Ids, NEW r \in Rules[s], Right(a)
  PROVE  LET count == IF id \in a.ex THEN <<>> ELSE <<SetNum(s, (a.num + 1) % Word)>>
         IN  \E b \in Tables : Right(b) /\ TableRuns(count \o db_set_filter_rule(s, id, r), s, a, b)
<1>1. /\ IsFiniteSet(a.ex) /\ Cardinality(a.ex) \in Nat /\ Cardinality(a.ex) + 1 < Word
      /\ a.num = Cardinality(a.ex) /\ EveryWhole(a)
  BY TablesAre, FewRules DEF Right
<1>2. db_set_filter_rule(s, id, r) \in Seq(Steps)
  BY SetHeld, Sub
<1>3. CASE id \in a.ex
  <2> DEFINE b == Store(a, id, DOMAIN r)
  <2>1. /\ TableRuns(db_set_filter_rule(s, id, r), s, a, b) /\ b \in Tables /\ b.num = a.num
        /\ b.ex = a.ex \cup {id} /\ EveryWhole(b)
    BY <1>1, StoreRuns, ChangedTables
  <2>2. a.ex \cup {id} = a.ex
    BY <1>3
  <2>3. Right(b)
    BY <1>1, <2>1, <2>2 DEF Right
  <2> HIDE DEF b
  <2>4. <<>> \o db_set_filter_rule(s, id, r) = db_set_filter_rule(s, id, r)
    BY <1>2
  <2> QED
    BY <1>3, <2>1, <2>3, <2>4
<1>4. CASE id \notin a.ex
  <2> DEFINE n == a.num + 1
             x == Counted(a, n)
             b == Store(x, id, DOMAIN r)
  <2>1. n \in Count32 /\ n % Word = n
    BY <1>1, Numbers DEF Count32
  <2>2. x \in Tables /\ x.num = n /\ x.ex = a.ex /\ EveryWhole(x)
    BY <1>1, <2>1, ChangedTables
  <2>3. TableRuns(<<SetNum(s, n)>>, s, a, x)
    <3>1. SetNum(s, n) \in StepsOf(s) /\ SetNum(s, n).do = "num" /\ SetNum(s, n).n = n
      BY <2>1, StepsOfAre DEF SetNum
    <3>2. TableStep(SetNum(s, n), a, x)
      BY <3>1 DEF TableStep, Counted
    <3> QED
      BY <2>2, <3>1, <3>2, OneTableStep
  <2> HIDE DEF x
  <2>4. /\ TableRuns(db_set_filter_rule(s, id, r), s, x, b) /\ b \in Tables /\ b.num = n
        /\ b.ex = a.ex \cup {id} /\ EveryWhole(b)
    BY <2>2, StoreRuns, ChangedTables
  <2>5. Cardinality(a.ex \cup {id}) = Cardinality(a.ex) + 1
    BY <1>1, <1>4, FS_AddElement
  <2>6. Right(b)
    BY <1>1, <2>4, <2>5 DEF Right
  <2> HIDE DEF b
  <2>7. <<SetNum(s, n)>> \in Seq(Steps)
    BY <2>1, RuleSteps
  <2>8. TableRuns(<<SetNum(s, n)>> \o db_set_filter_rule(s, id, r), s, a, b)
    BY <1>2, <2>3, <2>4, <2>7, RunsCat DEF TableRuns
  <2>9. (a.num + 1) % Word = n
    BY <2>1
  <2> HIDE DEF n
  <2> QED
    BY <1>4, <2>4, <2>6, <2>8, <2>9
<1> QED
  BY <1>3, <1>4

(* So does counting one off, and deleting it.                              *)
LEMMA ClearPlan ==
  ASSUME NEW s \in Sets, NEW a \in Tables, NEW id \in a.ex, Right(a),
         flag[s][id] = a.named[id], a.named[id] \subseteq Fields(s)
  PROVE  \E b \in Tables :
           /\ Right(b)
           /\ TableRuns(<<SetNum(s, (a.num - 1) % Word)>> \o db_delete_filter_rule(s, id), s, a, b)
<1>1. /\ IsFiniteSet(a.ex) /\ Cardinality(a.ex) \in Nat /\ Cardinality(a.ex) + 1 < Word
      /\ a.num = Cardinality(a.ex) /\ EveryWhole(a) /\ id \in Ids
  BY TablesAre, FewRules DEF Right
<1>2. db_delete_filter_rule(s, id) \in Seq(Steps)
  BY <1>1, DeleteHeld, Sub
<1>3. IsFiniteSet(a.ex \ {id}) /\ Cardinality(a.ex \ {id}) = Cardinality(a.ex) - 1
  BY <1>1, FS_RemoveElement
<1>4. Cardinality(a.ex \ {id}) \in Nat
  BY <1>3, FS_CardinalityType
<1> DEFINE n == a.num - 1
           x == Counted(a, n)
           b == Drop(x, id)
<1>5. n \in Count32 /\ n % Word = n
  BY <1>1, <1>3, <1>4, Numbers DEF Count32
<1>6. x \in Tables /\ x.num = n /\ x.ex = a.ex /\ x.named = a.named /\ EveryWhole(x)
  BY <1>1, <1>5, ChangedTables
<1>7. TableRuns(<<SetNum(s, n)>>, s, a, x)
  <2>1. SetNum(s, n) \in StepsOf(s) /\ SetNum(s, n).do = "num" /\ SetNum(s, n).n = n
    BY <1>5, StepsOfAre DEF SetNum
  <2>2. TableStep(SetNum(s, n), a, x)
    BY <2>1 DEF TableStep, Counted
  <2> QED
    BY <1>6, <2>1, <2>2, OneTableStep
<1> HIDE DEF x
<1>8. flag[s][id] = x.named[id] /\ x.named[id] \subseteq Fields(s)
  BY <1>6
<1>9. TableRuns(db_delete_filter_rule(s, id), s, x, b)
  BY <1>1, <1>6, <1>8, DeleteRuns
<1>10. b \in Tables /\ b.num = n /\ b.ex = a.ex \ {id} /\ EveryWhole(b)
  BY <1>1, <1>6, ChangedTables
<1>11. Right(b)
  BY <1>1, <1>3, <1>10 DEF Right
<1> HIDE DEF b
<1>12. <<SetNum(s, n)>> \in Seq(Steps)
  BY <1>5, RuleSteps
<1>13. TableRuns(<<SetNum(s, n)>> \o db_delete_filter_rule(s, id), s, a, b)
  BY <1>2, <1>7, <1>9, <1>12, RunsCat DEF TableRuns
<1>14. (a.num - 1) % Word = n
  BY <1>5
<1> HIDE DEF n
<1> QED
  BY <1>10, <1>11, <1>13, <1>14

(* A loop has still to count as many rules as there are from its index on. *)
LEMMA AheadIs ==
  ASSUME NEW s \in Sets, NEW t \in StepsOf(s), t.do = "scan", NEW a \in Tables, Ahead(t, a)
  PROVE  /\ t.id \in 0 .. MaxRule /\ t.matched \in Nat /\ t.number \in Count32 /\ t.mode \in {"reset", "save"}
         /\ t.s = s
         /\ IsFiniteSet(From(a, t.id)) /\ Cardinality(From(a, t.id)) \in Nat
         /\ t.matched <= t.number
         /\ t.matched = t.number => From(a, t.id) = {}
         /\ t.id = MaxRule => t.matched = t.number
         /\ t.matched # t.number =>
              /\ t.id \in Ids
              /\ t.id \notin a.ex => From(a, t.id + 1) = From(a, t.id)
              /\ t.id \in a.ex => /\ From(a, t.id + 1) = From(a, t.id) \ {t.id}
                                  /\ Cardinality(From(a, t.id + 1)) = Cardinality(From(a, t.id)) - 1
<1>0. StepsOf(s) \subseteq Steps
  BY StepsOfAre
<1>1. t.id \in 0 .. MaxRule /\ t.matched \in Nat /\ t.number \in Count32 /\ t.mode \in {"reset", "save"}
  BY <1>0, StepKinds
<1>s. t.s = s
  BY DEF StepsOf
<1>2. a.ex \in SUBSET Ids
  BY TablesAre
<1>3. From(a, t.id) \in SUBSET Ids
  BY <1>2 DEF From
<1>4. IsFiniteSet(From(a, t.id)) /\ Cardinality(From(a, t.id)) \in Nat
  BY <1>3, FewRules
<1>5. t.number - t.matched = Cardinality(From(a, t.id))
  BY DEF Ahead
<1>n. t.number \in Nat
  BY <1>1, Numbers DEF Count32
<1>6. t.matched <= t.number
  BY <1>1, <1>4, <1>5, <1>n
<1>7. t.matched = t.number => From(a, t.id) = {}
  BY <1>1, <1>4, <1>5, <1>n, FS_EmptySet
<1>8. t.id = MaxRule => t.matched = t.number
  <2> SUFFICES ASSUME t.id = MaxRule PROVE t.matched = t.number
    OBVIOUS
  <2>1. From(a, t.id) = {}
    BY <1>2, Numbers DEF From, Ids
  <2>2. Cardinality(From(a, t.id)) = 0
    BY <2>1, FS_EmptySet
  <2> QED
    BY <1>1, <1>5, <1>n, <2>2
<1>9. ASSUME t.matched # t.number
      PROVE  /\ t.id \in Ids
             /\ t.id \notin a.ex => From(a, t.id + 1) = From(a, t.id)
             /\ t.id \in a.ex => /\ From(a, t.id + 1) = From(a, t.id) \ {t.id}
                                 /\ Cardinality(From(a, t.id + 1)) = Cardinality(From(a, t.id)) - 1
  <2>1. t.id \in Ids
    BY <1>1, <1>8, <1>9, Numbers DEF Ids
  <2>2. \A i \in a.ex : i \in Nat /\ (i >= t.id + 1 <=> i >= t.id /\ i # t.id)
    BY <1>1, <1>2, Numbers DEF Ids
  <2>3. From(a, t.id + 1) = From(a, t.id) \ {t.id}
    BY <2>2 DEF From
  <2>4. t.id \in a.ex => t.id \in From(a, t.id)
    BY <2>1 DEF From, Ids
  <2>5. t.id \in a.ex => Cardinality(From(a, t.id + 1)) = Cardinality(From(a, t.id)) - 1
    BY <1>4, <2>3, <2>4, FS_RemoveElement
  <2>6. t.id \notin a.ex => From(a, t.id + 1) = From(a, t.id)
    BY <2>3 DEF From
  <2> QED
    BY <2>1, <2>3, <2>5, <2>6
<1> QED
  BY <1>1, <1>s, <1>4, <1>6, <1>7, <1>8, <1>9

(* A loop begins with all rules ahead.                                     *)
LEMMA CountPlan ==
  ASSUME NEW s \in Sets, NEW m \in {"reset", "save"}, NEW a \in Tables, Right(a)
  PROVE  TableRuns(<<Scan(m, s, 0, 0, a.num)>>, s, a, Walked(m, a)) /\ a.num \in Count32
<1>1. a.ex \in SUBSET Ids /\ a.num = Cardinality(a.ex) /\ EveryWhole(a)
  BY TablesAre DEF Right
<1>2. a.num \in Nat /\ a.num + 1 < Word
  BY <1>1, FewRules
<1>3. a.num \in Count32
  BY <1>2, Numbers DEF Count32
<1> DEFINE t == Scan(m, s, 0, 0, a.num)
<1>4. /\ t \in StepsOf(s) /\ t.do = "scan" /\ t.mode = m /\ t.id = 0 /\ t.matched = 0 /\ t.number = a.num
  <2>1. 0 \in 0 .. MaxRule /\ 0 \in Nat
    BY Numbers
  <2>2. t \in StepsOf(s)
    BY <1>3, <2>1, StepsOfAre
  <2> QED
    BY <2>2 DEF Scan
<1> HIDE DEF t
<1>5. From(a, 0) = a.ex
  BY <1>1 DEF From, Ids
<1>6. Ahead(t, a)
  BY <1>1, <1>2, <1>4, <1>5 DEF Ahead
<1>7. TableStep(t, a, Walked(m, a))
  BY <1>4, <1>6 DEF TableStep
<1>8. TableRuns(<<t>>, s, a, Walked(m, a))
  BY <1>4, <1>7, WalkedIs, OneTableStep
<1> QED
  BY <1>3, <1>8 DEF t

(* A loop that goes on.                                                    *)
LEMMA ScanOn ==
  ASSUME NEW s \in Sets, NEW t \in StepsOf(s), t.do = "scan", NEW a \in Tables, EveryWhole(a),
         NEW k \in Nat, t.matched \in Nat, t.number \in Count32, t.id \in Ids, t.mode \in {"reset", "save"},
         t.number - k = Cardinality(From(a, t.id + 1)), t.mode = "reset" => a.ex = From(a, t.id + 1)
  PROVE  /\ Scan(t.mode, s, t.id + 1, k, t.number) \in StepsOf(s)
         /\ TableRuns(<<Scan(t.mode, s, t.id + 1, k, t.number)>>, s, a, Walked(t.mode, a))
<1> DEFINE u == Scan(t.mode, s, t.id + 1, k, t.number)
<1>1. u \in StepsOf(s)
  <2>1. t.id + 1 \in 0 .. MaxRule
    BY Numbers DEF Ids
  <2> QED
    BY <2>1, StepsOfAre
<1>2. u.do = "scan" /\ u.mode = t.mode /\ u.id = t.id + 1 /\ u.matched = k /\ u.number = t.number
  BY DEF Scan
<1> HIDE DEF u
<1>3. Ahead(u, a)
  BY <1>2 DEF Ahead
<1>4. TableStep(u, a, Walked(t.mode, a))
  BY <1>2, <1>3 DEF TableStep
<1>5. TableRuns(<<u>>, s, a, Walked(t.mode, a))
  BY <1>1, <1>4, WalkedIs, OneTableStep
<1> QED
  BY <1>1, <1>5 DEF u

(* Emptying what is left after a rule was dropped.                         *)
LEMMA EmptiedAfter ==
  ASSUME NEW a \in Tables, NEW id \in Ids
  PROVE  Emptied(Drop(a, id)) = Emptied(a)
<1> DEFINE m == [a.named EXCEPT ![id] = {}]
           p == [a.present EXCEPT ![id] = @ \ a.named[id]]
<1>1. a.named \in [Ids -> SUBSET AllFields] /\ a.present \in [Ids -> SUBSET AllFields]
  BY TablesAre
<1>2. Drop(a, id).named = m /\ Drop(a, id).present = p
  BY DEF Drop, Table
<1>3. \A i \in Ids : p[i] \ m[i] = a.present[i] \ a.named[i]
  BY <1>1
<1> HIDE DEF m, p
<1>4. [i \in Ids |-> p[i] \ m[i]] = [i \in Ids |-> a.present[i] \ a.named[i]]
  BY <1>3
<1> QED
  BY <1>2, <1>4 DEF Emptied

(* The end of a loop, and one turn of it.                                  *)
LEMMA ScanPlan ==
  ASSUME NEW s \in Sets, NEW t \in StepsOf(s), t.do = "scan", NEW a \in Tables, Ahead(t, a)
  PROVE  /\ t.matched >= t.number =>
              /\ t.mode = "reset" => TableRuns(<<SetNum(s, 0)>>, s, a, Walked(t.mode, a))
              /\ t.mode = "save" => Walked(t.mode, a) = a
         /\ t.matched < t.number =>
              /\ t.id \in Ids
              /\ t.id \notin a.ex =>
                   TableRuns(<<Scan(t.mode, s, t.id + 1, t.matched, t.number)>>, s, a, Walked(t.mode, a))
              /\ t.id \in a.ex /\ t.mode = "save" =>
                   TableRuns(<<Scan(t.mode, s, t.id + 1, t.matched + 1, t.number)>>, s, a, Walked(t.mode, a))
              /\ t.id \in a.ex /\ t.mode = "reset"
                 /\ flag[s][t.id] = a.named[t.id] /\ a.named[t.id] \subseteq Fields(s) =>
                   TableRuns(db_delete_filter_rule(s, t.id) \o <<Scan(t.mode, s, t.id + 1, t.matched + 1, t.number)>>,
                             s, a, Walked(t.mode, a))
<1>0. /\ t.matched \in Nat /\ t.number \in Count32 /\ t.mode \in {"reset", "save"}
      /\ t.matched <= t.number /\ EveryWhole(a) /\ t.number \in Nat
      /\ t.mode = "reset" => a.ex = From(a, t.id)
      /\ t.number - t.matched = Cardinality(From(a, t.id))
  <2>1. t.matched \in Nat /\ t.number \in Count32 /\ t.mode \in {"reset", "save"} /\ t.matched <= t.number
    BY AheadIs
  <2> QED
    BY <2>1, Numbers DEF Ahead, Count32
<1>a. a.ex \in SUBSET Ids
  BY TablesAre
<1>1. ASSUME t.matched >= t.number
      PROVE  /\ t.mode = "reset" => TableRuns(<<SetNum(s, 0)>>, s, a, Walked(t.mode, a))
             /\ t.mode = "save" => Walked(t.mode, a) = a
  <2>1. From(a, t.id) = {}
    <3>1. t.matched = t.number
      BY <1>0, <1>1
    <3> QED
      BY <3>1, AheadIs
  <2>2. ASSUME t.mode = "reset" PROVE TableRuns(<<SetNum(s, 0)>>, s, a, Walked(t.mode, a))
    <3>1. a.ex = {}
      BY <1>0, <2>1, <2>2
    <3>2. /\ a.named \in [Ids -> SUBSET AllFields] /\ a.present \in [Ids -> SUBSET AllFields]
          /\ \A id \in Ids : a.named[id] = {}
      BY <3>1, TablesAre
    <3>3. a.named = [id \in Ids |-> {}] /\ a.present = [id \in Ids |-> a.present[id] \ a.named[id]]
      BY <3>2
    <3>4. Emptied(a) = Table(0, a.ex, a.named, a.present)
      BY <3>1, <3>3 DEF Emptied
    <3>5. SetNum(s, 0) \in StepsOf(s) /\ SetNum(s, 0).do = "num" /\ SetNum(s, 0).n = 0
      <4>1. 0 \in Count32
        BY Numbers DEF Count32
      <4> QED
        BY <4>1, StepsOfAre DEF SetNum
    <3>6. TableStep(SetNum(s, 0), a, Emptied(a))
      BY <3>4, <3>5 DEF TableStep
    <3>7. TableRuns(<<SetNum(s, 0)>>, s, a, Emptied(a))
      BY <3>5, <3>6, EmptiedIs, OneTableStep
    <3> QED
      BY <2>2, <3>7 DEF Walked
  <2> QED
    BY <2>2 DEF Walked
<1>2. ASSUME t.matched < t.number
      PROVE  /\ t.id \in Ids
             /\ t.id \notin a.ex =>
                  TableRuns(<<Scan(t.mode, s, t.id + 1, t.matched, t.number)>>, s, a, Walked(t.mode, a))
             /\ t.id \in a.ex /\ t.mode = "save" =>
                  TableRuns(<<Scan(t.mode, s, t.id + 1, t.matched + 1, t.number)>>, s, a, Walked(t.mode, a))
             /\ t.id \in a.ex /\ t.mode = "reset"
                /\ flag[s][t.id] = a.named[t.id] /\ a.named[t.id] \subseteq Fields(s) =>
                  TableRuns(db_delete_filter_rule(s, t.id) \o <<Scan(t.mode, s, t.id + 1, t.matched + 1, t.number)>>,
                            s, a, Walked(t.mode, a))
  <2>1. t.matched # t.number
    BY <1>0, <1>2
  <2>2. /\ t.id \in Ids
        /\ t.id \notin a.ex => From(a, t.id + 1) = From(a, t.id)
        /\ t.id \in a.ex => /\ From(a, t.id + 1) = From(a, t.id) \ {t.id}
                            /\ Cardinality(From(a, t.id + 1)) = Cardinality(From(a, t.id)) - 1
    BY <2>1, AheadIs
  <2>c. Cardinality(From(a, t.id)) \in Nat
    BY AheadIs
  <2>3. ASSUME t.id \notin a.ex
        PROVE  TableRuns(<<Scan(t.mode, s, t.id + 1, t.matched, t.number)>>, s, a, Walked(t.mode, a))
    <3>1. t.number - t.matched = Cardinality(From(a, t.id + 1)) /\ (t.mode = "reset" => a.ex = From(a, t.id + 1))
      BY <1>0, <2>2, <2>3
    <3> QED
      BY <1>0, <2>2, <3>1, ScanOn
  <2>4. ASSUME t.id \in a.ex, t.mode = "save"
        PROVE  TableRuns(<<Scan(t.mode, s, t.id + 1, t.matched + 1, t.number)>>, s, a, Walked(t.mode, a))
    <3>1. t.matched + 1 \in Nat /\ t.number - (t.matched + 1) = Cardinality(From(a, t.id + 1)) /\ t.mode # "reset"
      BY <1>0, <2>2, <2>4, <2>c
    <3> QED
      BY <1>0, <2>2, <3>1, ScanOn
  <2>5. ASSUME t.id \in a.ex, t.mode = "reset", flag[s][t.id] = a.named[t.id], a.named[t.id] \subseteq Fields(s)
        PROVE  TableRuns(db_delete_filter_rule(s, t.id) \o <<Scan(t.mode, s, t.id + 1, t.matched + 1, t.number)>>,
                         s, a, Walked(t.mode, a))
    <3> DEFINE b == Drop(a, t.id)
               u == Scan(t.mode, s, t.id + 1, t.matched + 1, t.number)
    <3>1. b \in Tables /\ b.ex = a.ex \ {t.id} /\ EveryWhole(b)
      BY <1>0, <2>2, ChangedTables
    <3>2. TableRuns(db_delete_filter_rule(s, t.id), s, a, b)
      BY <1>0, <2>2, <2>5, DeleteRuns
    <3>3. Walked(t.mode, b) = Walked(t.mode, a)
      BY <2>2, <2>5, EmptiedAfter DEF Walked
    <3> HIDE DEF b
    <3>4. From(b, t.id + 1) = From(a, t.id + 1) /\ b.ex = From(a, t.id + 1)
      <4>1. b.ex = From(a, t.id + 1)
        BY <1>0, <2>2, <2>5, <3>1
      <4>2. From(b, t.id + 1) = b.ex
        BY <4>1 DEF From
      <4> QED
        BY <4>1, <4>2
    <3>5. t.matched + 1 \in Nat /\ t.number - (t.matched + 1) = Cardinality(From(b, t.id + 1))
      BY <1>0, <2>2, <2>5, <2>c, <3>4
    <3>6. u \in StepsOf(s) /\ TableRuns(<<u>>, s, b, Walked(t.mode, b))
      BY <1>0, <2>2, <3>1, <3>4, <3>5, ScanOn
    <3> HIDE DEF u
    <3>7. <<u>> \in Seq(Steps) /\ db_delete_filter_rule(s, t.id) \in Seq(Steps)
      BY <2>2, <3>6, StepsOfAre, DeleteHeld, Sub
    <3>8. TableRuns(db_delete_filter_rule(s, t.id) \o <<u>>, s, a, Walked(t.mode, b))
      BY <3>2, <3>6, <3>7, RunsCat DEF TableRuns
    <3> QED
      BY <3>3, <3>8 DEF u
  <2> QED
    BY <2>2, <2>3, <2>4, <2>5
<1> QED
  BY <1>1, <1>2

-----------------------------------------------------------------------------
(* What a cli that holds the lock makes of a set: its nesting count, the   *)
(* mark of the initialisation and the table.  The steps of a section run   *)
(* from what is seen now to a count of 0 over a table that is right.       *)

View(d, i, a) == [depth |-> d, inited |-> i, tab |-> a]
Views == [depth : 0 .. 2, inited : BOOLEAN, tab : Tables]
(* Steps on the other rule sets, and those that touch none.                *)
Aside(s) ==
  {t \in Steps : \/ t.do \in {"reg", "cam", "global"}
                 \/ t.do \in Guarded /\ \E u \in Sets \ {s} : t \in StepsOf(u)}
Shows(t, s, x, y) ==
  /\ x.depth > 0
  /\ \/ t.do = "lock" /\ y = View(x.depth + 1, x.inited, x.tab)
     \/ t.do = "unlock" /\ y = View(x.depth - 1, x.inited, x.tab)
     \/ t.do = "uninit" /\ ~x.inited /\ y = x
     \/ t.do = "init" /\ y.inited /\ y = View(x.depth, y.inited, x.tab)
     \/ t \in Aside(s) /\ y = x
     \/ t \in StepsOf(s) /\ TableStep(t, x.tab, y.tab) /\ y = View(x.depth, x.inited, y.tab)
ViewMoves(s) == {g \in Steps \X Views \X Views : Shows(g[1], s, g[2], g[3])}
ViewRuns(q, s, x, y) == Runs(q, ViewMoves(s), Views, x, y)

(* What a view is made of.                                                 *)
LEMMA ViewsAre ==
  /\ \A x \in Views : /\ x.depth \in 0 .. 2 /\ x.inited \in BOOLEAN /\ x.tab \in Tables
                      /\ x = View(x.depth, x.inited, x.tab)
  /\ \A d \in 0 .. 2, i \in BOOLEAN, a \in Tables : View(d, i, a) \in Views
  /\ \A d, i, a : View(d, i, a).depth = d /\ View(d, i, a).inited = i /\ View(d, i, a).tab = a
BY DEF Views, View

(* One step.                                                               *)
LEMMA ViewOne ==
  ASSUME NEW s, NEW t \in Steps, NEW x \in Views, NEW y \in Views, Shows(t, s, x, y)
  PROVE  <<t>> \in Seq(Steps) /\ ViewRuns(<<t>>, s, x, y)
<1>1. <<t, x, y>> \in ViewMoves(s)
  BY DEF ViewMoves
<1>2. ViewRuns(<<t>>, s, x, y)
  BY <1>1, RunsOne DEF ViewRuns
<1> QED
  BY <1>2

(* One sequence after the other.                                           *)
LEMMA ViewCat ==
  ASSUME NEW s, NEW p \in Seq(Steps), NEW q \in Seq(Steps), NEW x, NEW y, NEW z,
         ViewRuns(p, s, x, y), ViewRuns(q, s, y, z)
  PROVE  p \o q \in Seq(Steps) /\ ViewRuns(p \o q, s, x, z)
BY RunsCat DEF ViewRuns

(* What a sequence does to the table of a set, it does in its section.     *)
LEMMA Lifted ==
  ASSUME NEW s \in Sets, NEW q \in Seq(Steps), NEW d \in 1 .. 2, NEW i \in BOOLEAN, NEW a, NEW b, TableRuns(q, s, a, b)
  PROVE  ViewRuns(q, s, View(d, i, a), View(d, i, b))
<1>1. PICK e \in [1 .. Len(q) + 1 -> Tables] :
        /\ e[1] = a /\ e[Len(q) + 1] = b
        /\ \A k \in 1 .. Len(q) : <<q[k], e[k], e[k + 1]>> \in TableMoves(s)
  BY DEF TableRuns, Runs
<1> DEFINE g == [k \in 1 .. Len(q) + 1 |-> View(d, i, e[k])]
<1>2. \A k \in 1 .. Len(q) + 1 : View(d, i, e[k]) \in Views
  <2>1. d \in 0 .. 2
    OBVIOUS
  <2> QED
    BY <1>1, <2>1, ViewsAre
<1>3. g \in [1 .. Len(q) + 1 -> Views] /\ g[1] = View(d, i, a) /\ g[Len(q) + 1] = View(d, i, b)
  <2>1. 1 \in 1 .. Len(q) + 1 /\ Len(q) + 1 \in 1 .. Len(q) + 1
    OBVIOUS
  <2> QED
    BY <1>1, <1>2, <2>1
<1>4. ASSUME NEW k \in 1 .. Len(q) PROVE <<q[k], g[k], g[k + 1]>> \in ViewMoves(s)
  <2>0. k \in 1 .. Len(q) + 1 /\ k + 1 \in 1 .. Len(q) + 1
    OBVIOUS
  <2>1. g[k] = View(d, i, e[k]) /\ g[k + 1] = View(d, i, e[k + 1])
    BY <2>0
  <2>2. q[k] \in StepsOf(s) /\ TableStep(q[k], e[k], e[k + 1])
    BY <1>1 DEF TableMoves
  <2> HIDE DEF g
  <2>3. View(d, i, e[k]) \in Views /\ View(d, i, e[k + 1]) \in Views
    BY <1>2, <2>0
  <2>4. d > 0
    OBVIOUS
  <2>5. Shows(q[k], s, View(d, i, e[k]), View(d, i, e[k + 1]))
    <3> DEFINE x == View(d, i, e[k])
               y == View(d, i, e[k + 1])
    <3>1. x.depth = d /\ x.inited = i /\ x.tab = e[k] /\ y.tab = e[k + 1] /\ y = View(d, i, e[k + 1])
      BY ViewsAre
    <3> HIDE DEF x, y
    <3>2. x.depth > 0 /\ TableStep(q[k], x.tab, y.tab) /\ y = View(x.depth, x.inited, y.tab)
      BY <2>2, <2>4, <3>1
    <3>3. Shows(q[k], s, x, y)
      BY <2>2, <3>2 DEF Shows
    <3> QED
      BY <3>3 DEF x, y
  <2>6. q[k] \in Steps
    OBVIOUS
  <2> QED
    BY <2>1, <2>3, <2>5, <2>6 DEF ViewMoves
<1> HIDE DEF g
<1> QED
  BY <1>3, <1>4 DEF ViewRuns, Runs

(* Steps aside change nothing.                                             *)
LEMMA Stays ==
  ASSUME NEW s, NEW q \in Seq(Aside(s)), NEW x \in Views, x.depth > 0
  PROVE  q \in Seq(Steps) /\ ViewRuns(q, s, x, x)
<1> DEFINE d == [i \in 1 .. Len(q) + 1 |-> x]
<1>0. q \in Seq(Steps)
  <2>1. Aside(s) \subseteq Steps
    BY DEF Aside
  <2>2. q \in [1 .. Len(q) -> Aside(s)] /\ Len(q) \in Nat
    OBVIOUS
  <2>3. q \in [1 .. Len(q) -> Steps]
    BY <2>1, <2>2
  <2> QED
    BY <2>2, <2>3
<1>1. ASSUME NEW i \in 1 .. Len(q) PROVE <<q[i], x, x>> \in ViewMoves(s)
  <2>1. q[i] \in Aside(s) /\ q[i] \in Steps
    BY <1>0
  <2>2. Shows(q[i], s, x, x)
    BY <2>1 DEF Shows
  <2> QED
    BY <2>1, <2>2 DEF ViewMoves
<1>2. d \in [1 .. Len(q) + 1 -> Views] /\ d[1] = x /\ d[Len(q) + 1] = x
  OBVIOUS
<1>3. \A i \in 1 .. Len(q) : <<q[i], d[i], d[i + 1]>> \in ViewMoves(s)
  BY <1>1
<1> HIDE DEF d
<1> QED
  BY <1>0, <1>2, <1>3 DEF ViewRuns, Runs

(* What is done to one set is aside for the other.                         *)
LEMMA OtherSet ==
  ASSUME NEW s \in Sets, NEW u \in Sets, u # s, NEW q \in Seq(Steps), NEW a, NEW b, TableRuns(q, u, a, b)
  PROVE  q \in Seq(Aside(s))
<1>1. PICK e \in [1 .. Len(q) + 1 -> Tables] :
        \A k \in 1 .. Len(q) : <<q[k], e[k], e[k + 1]>> \in TableMoves(u)
  BY DEF TableRuns, Runs
<1>2. ASSUME NEW k \in 1 .. Len(q) PROVE q[k] \in Aside(s)
  <2>1. q[k] \in StepsOf(u) /\ TableStep(q[k], e[k], e[k + 1])
    BY <1>1 DEF TableMoves
  <2>2. q[k].do \in Guarded
    BY <2>1 DEF TableStep, Guarded
  <2>3. q[k] \in Steps
    OBVIOUS
  <2> QED
    BY <2>1, <2>2, <2>3 DEF Aside
<1>3. q \in [1 .. Len(q) -> Steps] /\ Len(q) \in Nat
  OBVIOUS
<1>4. q \in [1 .. Len(q) -> Aside(s)]
  BY <1>2, <1>3
<1> QED
  BY <1>3, <1>4

(* Register writes leave the tables alone.                                 *)
LEMMA CamAside ==
  ASSUME NEW s \in Sets
  PROVE  Seq(CamSteps) \subseteq Seq(Aside(s)) /\ <<>> \in Seq(Aside(s))
         /\ \A p, q \in Seq(Aside(s)) : p \o q \in Seq(Aside(s))
<1>1. CamSteps \subseteq Aside(s)
  BY DEF CamSteps, Aside
<1>2. ASSUME NEW q \in Seq(CamSteps) PROVE q \in Seq(Aside(s))
  <2>1. q \in [1 .. Len(q) -> CamSteps] /\ Len(q) \in Nat
    OBVIOUS
  <2>2. q \in [1 .. Len(q) -> Aside(s)]
    BY <1>1, <2>1
  <2> QED
    BY <2>1, <2>2
<1> QED
  BY <1>2

(* What is done for each set, seen from one of them.                       *)
LEMMA PerSetViews ==
  ASSUME NEW s \in Sets, NEW x \in Views, NEW y \in Views, x.depth > 0, y.depth > 0, NEW steps,
         steps[s] \in Seq(Steps), ViewRuns(steps[s], s, x, y),
         \A u \in Sets \ {s} : steps[u] \in Seq(Aside(s))
  PROVE  PerSet(steps) \in Seq(Steps) /\ ViewRuns(PerSet(steps), s, x, y)
<1> DEFINE p == IF 1 \in Sets THEN steps[1] ELSE <<>>
           q == IF 2 \in Sets THEN steps[2] ELSE <<>>
<1>1. s \in {1, 2}
  BY Numbers
<1>2. PerSet(steps) = p \o q
  BY DEF PerSet
<1>3. <<>> \in Seq(Aside(s))
  BY CamAside
<1>4. CASE s = 1
  <2>1. p = steps[s] /\ q \in Seq(Aside(s))
    BY <1>3, <1>4
  <2> HIDE DEF p, q
  <2>2. q \in Seq(Steps) /\ ViewRuns(q, s, y, y)
    BY <2>1, Stays
  <2> QED
    BY <1>2, <2>1, <2>2, ViewCat
<1>5. CASE s = 2
  <2>1. q = steps[s] /\ p \in Seq(Aside(s))
    BY <1>3, <1>5
  <2> HIDE DEF p, q
  <2>2. p \in Seq(Steps) /\ ViewRuns(p, s, x, x)
    BY <2>1, Stays
  <2> QED
    BY <1>2, <2>1, <2>2, ViewCat
<1> QED
  BY <1>1, <1>4, <1>5

(* A lock and an unlock leave the table alone.                             *)
LEMMA LockViews ==
  ASSUME NEW s \in Sets, NEW i \in BOOLEAN, NEW a \in Tables
  PROVE  /\ <<Lock>> \in Seq(Steps) /\ <<Unlock>> \in Seq(Steps)
         /\ ViewRuns(<<Lock>>, s, View(1, i, a), View(2, i, a))
         /\ ViewRuns(<<Unlock>>, s, View(2, i, a), View(1, i, a))
         /\ ViewRuns(<<Unlock>>, s, View(1, i, a), View(0, i, a))
<1>1. Lock \in Steps /\ Unlock \in Steps /\ Lock.do = "lock" /\ Unlock.do = "unlock"
  BY PlainSteps DEF Lock, Unlock
<1>2. View(0, i, a) \in Views /\ View(1, i, a) \in Views /\ View(2, i, a) \in Views
  BY ViewsAre
<1>3. /\ View(1, i, a).depth = 1 /\ View(1, i, a).inited = i /\ View(1, i, a).tab = a
      /\ View(2, i, a).depth = 2 /\ View(2, i, a).inited = i /\ View(2, i, a).tab = a
  BY ViewsAre
<1>4. 1 + 1 = 2 /\ 2 - 1 = 1 /\ 1 - 1 = 0
  OBVIOUS
<1>5. /\ Shows(Lock, s, View(1, i, a), View(2, i, a)) /\ Shows(Unlock, s, View(2, i, a), View(1, i, a))
      /\ Shows(Unlock, s, View(1, i, a), View(0, i, a))
  BY <1>1, <1>3, <1>4 DEF Shows
<1> QED
  BY <1>1, <1>2, <1>5, ViewOne

(* Counting through a set.                                                 *)
LEMMA CountViews ==
  ASSUME NEW s \in Sets, NEW m \in {"reset", "save"}, NEW a \in Tables, Right(a)
  PROVE  /\ \A u \in Sets : <<Count(m, u)>> \in Seq(Steps)
         /\ TableRuns(<<Count(m, s)>>, s, a, Walked(m, a))
         /\ \A u \in Sets \ {s} : <<Count(m, u)>> \in Seq(Aside(s))
<1>1. \A u \in Sets : Count(m, u) \in StepsOf(u) /\ Count(m, u) \in Steps /\ Count(m, u).do = "count" /\ Count(m, u).mode = m
  BY StepsOfAre DEF Count
<1>2. TableStep(Count(m, s), a, Walked(m, a))
  BY <1>1 DEF TableStep
<1>3. TableRuns(<<Count(m, s)>>, s, a, Walked(m, a))
  BY <1>1, <1>2, WalkedIs, OneTableStep
<1>4. ASSUME NEW u \in Sets \ {s} PROVE Count(m, u) \in Aside(s)
  BY <1>1 DEF Aside, Guarded
<1> QED
  BY <1>1, <1>3, <1>4

(* A reset empties the sets.                                               *)
LEMMA BodyViews ==
  ASSUME NEW s \in Sets, NEW d \in 1 .. 2, NEW i \in BOOLEAN, NEW a \in Tables, Right(a)
  PROVE  Body \in Seq(Steps) /\ ViewRuns(Body, s, View(d, i, a), View(d, i, Emptied(a)))
<1> DEFINE f == [u \in Sets |-> reset_filter_default_config(u)]
           g == [u \in Sets |-> cli_reset_default_config_db(u)]
           x == View(d, i, a)
           y == View(d, i, Emptied(a))
<1>1. x \in Views /\ y \in Views /\ x.depth > 0 /\ y.depth > 0
  <2>1. d \in 0 .. 2 /\ d > 0 /\ Emptied(a) \in Tables
    BY EmptiedIs
  <2> QED
    BY <2>1, ViewsAre, SMTT(30)
<1>2. \A u \in Sets : f[u] \in Seq(Aside(s))
  <2>1. \A u \in Sets : f[u] \in Seq(CamSteps)
    BY ResetFree
  <2> QED
    BY <2>1, CamAside
<1>3. PerSet(f) \in Seq(Steps) /\ ViewRuns(PerSet(f), s, x, x)
  <2>1. f[s] \in Seq(Steps) /\ ViewRuns(f[s], s, x, x)
    BY <1>1, <1>2, Stays
  <2> HIDE DEF f, x
  <2> QED
    BY <1>1, <1>2, <2>1, PerSetViews
<1>4. PerSet(g) \in Seq(Steps) /\ ViewRuns(PerSet(g), s, x, y)
  <2>1. \A u \in Sets : g[u] = <<Count("reset", u)>>
    BY DEF cli_reset_default_config_db
  <2>2. TableRuns(<<Count("reset", s)>>, s, a, Emptied(a))
    BY CountViews DEF Walked
  <2>3. \A u \in Sets : <<Count("reset", u)>> \in Seq(Steps) /\ (u # s => <<Count("reset", u)>> \in Seq(Aside(s)))
    BY CountViews
  <2>4. ViewRuns(<<Count("reset", s)>>, s, x, y)
    BY <2>2, <2>3, Lifted
  <2> HIDE DEF g, x, y
  <2>5. g[s] \in Seq(Steps) /\ ViewRuns(g[s], s, x, y) /\ \A u \in Sets \ {s} : g[u] \in Seq(Aside(s))
    BY <2>1, <2>3, <2>4
  <2> QED
    BY <1>1, <2>5, PerSetViews
<1>5. Body = PerSet(f) \o PerSet(g)
  BY DEF Body
<1> HIDE DEF f, g, x, y
<1>6. PerSet(f) \o PerSet(g) \in Seq(Steps) /\ ViewRuns(PerSet(f) \o PerSet(g), s, x, y)
  BY <1>3, <1>4, ViewCat
<1> QED
  BY <1>5, <1>6 DEF x, y

(* What is left of a reset once it has its lock, and all of it inside one. *)
LEMMA ResetViews ==
  ASSUME NEW s \in Sets, NEW i \in BOOLEAN, NEW a \in Tables, Right(a)
  PROVE  /\ Body \o <<Unlock>> \in Seq(Steps)
         /\ ViewRuns(Body \o <<Unlock>>, s, View(1, i, a), View(0, i, Emptied(a)))
         /\ cli_reset_default_config \in Seq(Steps)
         /\ ViewRuns(cli_reset_default_config, s, View(1, i, a), View(1, i, Emptied(a)))
<1>1. /\ Body \in Seq(Steps)
      /\ ViewRuns(Body, s, View(1, i, a), View(1, i, Emptied(a)))
      /\ ViewRuns(Body, s, View(2, i, a), View(2, i, Emptied(a)))
  BY BodyViews
<1>2. /\ <<Lock>> \in Seq(Steps) /\ <<Unlock>> \in Seq(Steps)
      /\ ViewRuns(<<Lock>>, s, View(1, i, a), View(2, i, a))
  BY LockViews
<1>3. /\ ViewRuns(<<Unlock>>, s, View(2, i, Emptied(a)), View(1, i, Emptied(a)))
      /\ ViewRuns(<<Unlock>>, s, View(1, i, Emptied(a)), View(0, i, Emptied(a)))
  BY EmptiedIs, LockViews
<1>4. Body \o <<Unlock>> \in Seq(Steps) /\ ViewRuns(Body \o <<Unlock>>, s, View(1, i, a), View(0, i, Emptied(a)))
  BY <1>1, <1>2, <1>3, ViewCat
<1>5. <<Lock>> \o Body \in Seq(Steps) /\ ViewRuns(<<Lock>> \o Body, s, View(1, i, a), View(2, i, Emptied(a)))
  BY <1>1, <1>2, ViewCat
<1>6. /\ <<Lock>> \o Body \o <<Unlock>> \in Seq(Steps)
      /\ ViewRuns(<<Lock>> \o Body \o <<Unlock>>, s, View(1, i, a), View(1, i, Emptied(a)))
  BY <1>2, <1>3, <1>5, ViewCat
<1> QED
  BY <1>4, <1>6, Plans

(* A save changes nothing.                                                 *)
LEMMA SaveViews ==
  ASSUME NEW s \in Sets, NEW i \in BOOLEAN, NEW a \in Tables, Right(a)
  PROVE  /\ SaveBody \o <<Plain("global"), Unlock>> \in Seq(Steps)
         /\ ViewRuns(SaveBody \o <<Plain("global"), Unlock>>, s, View(1, i, a), View(0, i, a))
<1> DEFINE g == [u \in Sets |-> cli_save_config_filter(u)]
           x == View(1, i, a)
<1>1. x \in Views /\ x.depth > 0
  BY ViewsAre
<1>2. PerSet(g) \in Seq(Steps) /\ ViewRuns(PerSet(g), s, x, x)
  <2>1. \A u \in Sets : g[u] = <<Count("save", u)>>
    BY DEF cli_save_config_filter
  <2>2. TableRuns(<<Count("save", s)>>, s, a, a)
    BY CountViews DEF Walked
  <2>3. \A u \in Sets : <<Count("save", u)>> \in Seq(Steps) /\ (u # s => <<Count("save", u)>> \in Seq(Aside(s)))
    BY CountViews
  <2>4. ViewRuns(<<Count("save", s)>>, s, x, x)
    <3>1. 1 \in 1 .. 2 /\ <<Count("save", s)>> \in Seq(Steps)
      BY <2>3
    <3> QED
      BY <2>2, <3>1, Lifted
  <2> HIDE DEF g, x
  <2>5. g[s] \in Seq(Steps) /\ ViewRuns(g[s], s, x, x) /\ \A u \in Sets \ {s} : g[u] \in Seq(Aside(s))
    BY <2>1, <2>3, <2>4
  <2> QED
    BY <1>1, <2>5, PerSetViews
<1>3. SaveBody = PerSet(g)
  BY DEF SaveBody
<1>4. <<Plain("global")>> \in Seq(Steps) /\ ViewRuns(<<Plain("global")>>, s, x, x)
  <2>1. Plain("global") \in Aside(s)
    BY PlainSteps DEF Plain, Aside
  <2>2. <<Plain("global")>> \in Seq(Aside(s))
    BY <2>1
  <2> HIDE DEF x
  <2> QED
    BY <1>1, <2>2, Stays
<1>5. <<Unlock>> \in Seq(Steps) /\ ViewRuns(<<Unlock>>, s, x, View(0, i, a))
  BY LockViews
<1> HIDE DEF g, x
<1>6. <<Plain("global")>> \o <<Unlock>> = <<Plain("global"), Unlock>>
  BY Two
<1>7. /\ <<Plain("global")>> \o <<Unlock>> \in Seq(Steps)
      /\ ViewRuns(<<Plain("global")>> \o <<Unlock>>, s, x, View(0, i, a))
  BY <1>4, <1>5, ViewCat
<1>8. /\ SaveBody \o <<Plain("global"), Unlock>> \in Seq(Steps)
      /\ ViewRuns(SaveBody \o <<Plain("global"), Unlock>>, s, x, View(0, i, a))
  BY <1>2, <1>3, <1>6, <1>7, ViewCat
<1> QED
  BY <1>8 DEF x

(* The start of a cli that finds the database new, up to its unlock.       *)
Opening ==
  <<Plain("uninit")>> \o ZeroBody \o cli_reset_default_config \o <<Plain("init"), Unlock>>

(* It is the beginning of the start-up.                                    *)
LEMMA OpeningIs == Startup(FALSE) = Opening \o (<<Plain("signals")>> \o cli_reset_default_config)
<1> DEFINE p == <<Plain("uninit")>> \o ZeroBody \o cli_reset_default_config
           i == <<Plain("init")>>
           u == <<Unlock>>
           g == <<Plain("signals")>>
           r == cli_reset_default_config
<1>1. r \in Seq(Steps)
  BY ResetRuns
<1>2. i \in Seq(Steps) /\ u \in Seq(Steps) /\ g \in Seq(Steps) /\ <<Plain("uninit")>> \in Seq(Steps)
  BY PlainSteps DEF Plain
<1>3. ZeroBody \in Seq(Steps)
  BY BodiesHeld, Sub
<1>4. p \in Seq(Steps)
  BY <1>1, <1>2, <1>3
<1>5. <<Plain("init"), Unlock>> = i \o u /\ <<Unlock, Plain("signals")>> = u \o g
  BY Two
<1>6. <<Plain("init"), Unlock, Plain("signals")>> = i \o (u \o g)
  BY <1>5, Three
<1>7. Startup(FALSE) = p \o <<Plain("init"), Unlock, Plain("signals")>> \o r
  BY Plans
<1>8. Opening = p \o <<Plain("init"), Unlock>>
  BY DEF Opening
<1> HIDE DEF p, i, u, g, r
<1>9. p \o (i \o (u \o g)) \o r = p \o (i \o u) \o (g \o r)
  <2>1. \A a, b, c \in Seq(Steps) : a \o b \in Seq(Steps) /\ a \o (b \o c) = a \o b \o c
    OBVIOUS
  <2>2. p \o (i \o (u \o g)) = p \o (i \o u) \o g
    <3> DEFINE y == i \o u
    <3>1. y \in Seq(Steps) /\ i \o (u \o g) = y \o g
      BY <1>2, <2>1
    <3> HIDE DEF y
    <3>2. p \o (y \o g) = p \o y \o g
      BY <1>2, <1>4, <2>1, <3>1, SMTT(30)
    <3> QED
      BY <3>1, <3>2 DEF y
  <2>3. p \o (i \o u) \in Seq(Steps)
    BY <1>2, <1>4, <2>1
  <2> DEFINE x == p \o (i \o u)
  <2>4. x \in Seq(Steps) /\ p \o (i \o (u \o g)) = x \o g
    BY <2>2, <2>3
  <2> HIDE DEF x
  <2>5. x \o g \o r = x \o (g \o r)
    BY <1>1, <1>2, <2>1, <2>4
  <2> QED
    BY <2>4, <2>5, Zenon DEF x
<1>10. Startup(FALSE) = Opening \o (g \o r)
  BY <1>5, <1>6, <1>7, <1>8, <1>9
<1> QED
  BY <1>10 DEF g, r

(* It leaves no rules behind, and counts none.                             *)
LEMMA OpeningViews ==
  ASSUME NEW s \in Sets, NEW a \in Tables, a.ex = {},
         NEW i \in BOOLEAN, ~i, NEW j \in BOOLEAN, j
  PROVE  /\ Opening \in Seq(Steps)
         /\ ViewRuns(Opening, s, View(1, i, a), View(0, j, Emptied(Counted(a, 0))))
         /\ Right(Emptied(Counted(a, 0))) /\ Emptied(Counted(a, 0)) \in Tables
<1> DEFINE b == Counted(a, 0)
           e == Emptied(b)
<1>0. 0 \in Count32 /\ 0 \in Ids
  BY Numbers DEF Count32, Ids
<1>1. b \in Tables /\ b.num = 0 /\ b.ex = {} /\ Right(b)
  <2>1. b \in Tables /\ b.num = 0 /\ b.ex = {} /\ b.named = a.named
    BY <1>0, ChangedTables
  <2>2. \A id \in Ids : b.named[id] = {}
    BY <2>1, TablesAre
  <2> QED
    BY <2>1, <2>2, FS_EmptySet DEF Right, EveryWhole
<1>2. e \in Tables /\ Right(e)
  BY <1>1, EmptiedIs
<1>3. <<Plain("uninit")>> \in Seq(Steps) /\ ViewRuns(<<Plain("uninit")>>, s, View(1, i, a), View(1, i, a))
  <2>1. Plain("uninit") \in Steps /\ Plain("uninit").do = "uninit"
    BY PlainSteps DEF Plain
  <2>2. View(1, i, a) \in Views /\ View(1, i, a).depth = 1 /\ View(1, i, a).inited = i
    BY ViewsAre
  <2>3. Shows(Plain("uninit"), s, View(1, i, a), View(1, i, a))
    BY <2>1, <2>2 DEF Shows
  <2> QED
    BY <2>1, <2>2, <2>3, ViewOne
<1>4. ZeroBody \in Seq(Steps) /\ ViewRuns(ZeroBody, s, View(1, i, a), View(1, i, b))
  <2> DEFINE g == [u \in Sets |-> db_init_config(u)]
             x == View(1, i, a)
             y == View(1, i, b)
  <2>1. \A u \in Sets : g[u] = <<SetNum(u, 0)>>
    BY DEF db_init_config
  <2>2. \A u \in Sets : SetNum(u, 0) \in StepsOf(u) /\ SetNum(u, 0) \in Steps /\ SetNum(u, 0).do = "num" /\ SetNum(u, 0).n = 0
    BY <1>0, StepsOfAre DEF SetNum
  <2>3. TableStep(SetNum(s, 0), a, b)
    BY <2>2 DEF TableStep, Counted
  <2>4. TableRuns(<<SetNum(s, 0)>>, s, a, b)
    BY <1>1, <2>2, <2>3, OneTableStep
  <2>5. ViewRuns(<<SetNum(s, 0)>>, s, x, y)
    <3>1. <<SetNum(s, 0)>> \in Seq(Steps) /\ 1 \in 1 .. 2
      BY <2>2
    <3> QED
      BY <2>4, <3>1, Lifted
  <2>6. ASSUME NEW u \in Sets \ {s} PROVE SetNum(u, 0) \in Aside(s)
    BY <2>2 DEF Aside, Guarded
  <2>a. \A u \in Sets \ {s} : <<SetNum(u, 0)>> \in Seq(Aside(s))
    BY <2>6
  <2>b. <<SetNum(s, 0)>> \in Seq(Steps)
    BY <2>2
  <2>7. x \in Views /\ y \in Views /\ x.depth > 0 /\ y.depth > 0
    BY <1>1, ViewsAre, SMTT(30)
  <2>8. ZeroBody = PerSet(g)
    BY DEF ZeroBody
  <2> HIDE DEF g, x, y
  <2>9. g[s] \in Seq(Steps) /\ ViewRuns(g[s], s, x, y) /\ \A u \in Sets \ {s} : g[u] \in Seq(Aside(s))
    BY <2>1, <2>5, <2>a, <2>b
  <2>10. PerSet(g) \in Seq(Steps) /\ ViewRuns(PerSet(g), s, x, y)
    BY <2>7, <2>9, PerSetViews
  <2> QED
    BY <2>8, <2>10 DEF x, y
<1>5. /\ cli_reset_default_config \in Seq(Steps)
      /\ ViewRuns(cli_reset_default_config, s, View(1, i, b), View(1, i, e))
  BY <1>1, ResetViews
<1>6. <<Plain("init")>> \in Seq(Steps) /\ ViewRuns(<<Plain("init")>>, s, View(1, i, e), View(1, j, e))
  <2>1. Plain("init") \in Steps /\ Plain("init").do = "init"
    BY PlainSteps DEF Plain
  <2>2. View(1, i, e) \in Views /\ View(1, j, e) \in Views
    <3>1. 1 \in 0 .. 2
      OBVIOUS
    <3> QED
      BY <1>2, <3>1, ViewsAre
  <2> DEFINE x == View(1, i, e)
             y == View(1, j, e)
  <2>3. x.depth = 1 /\ x.tab = e /\ y.depth = 1 /\ y.tab = e
    BY DEF View
  <2>a. y.inited
    BY DEF View
  <2>4. y = View(1, j, e)
    OBVIOUS
  <2> HIDE DEF x, y
  <2>5. x.depth > 0 /\ y.inited /\ y = View(x.depth, y.inited, x.tab)
    <3>1. y = View(y.depth, y.inited, y.tab)
      BY <2>2, <2>4, ViewsAre
    <3> QED
      BY <2>3, <2>a, <3>1
  <2>6. Shows(Plain("init"), s, x, y)
    BY <2>1, <2>5 DEF Shows
  <2>7. Shows(Plain("init"), s, View(1, i, e), View(1, j, e))
    BY <2>6 DEF x, y
  <2> QED
    BY <2>1, <2>2, <2>7, ViewOne
<1>7. <<Unlock>> \in Seq(Steps) /\ ViewRuns(<<Unlock>>, s, View(1, j, e), View(0, j, e))
  BY <1>2, LockViews
<1> HIDE DEF b, e
<1>8. <<Plain("init")>> \o <<Unlock>> = <<Plain("init"), Unlock>>
  BY Two
<1>9. /\ <<Plain("init")>> \o <<Unlock>> \in Seq(Steps)
      /\ ViewRuns(<<Plain("init")>> \o <<Unlock>>, s, View(1, i, e), View(0, j, e))
  BY <1>6, <1>7, ViewCat
<1> DEFINE p == <<Plain("uninit")>> \o ZeroBody
           q == p \o cli_reset_default_config
<1>10. p \in Seq(Steps) /\ ViewRuns(p, s, View(1, i, a), View(1, i, b))
  BY <1>3, <1>4, ViewCat
<1> HIDE DEF p
<1>11. q \in Seq(Steps) /\ ViewRuns(q, s, View(1, i, a), View(1, i, e))
  BY <1>5, <1>10, ViewCat
<1> HIDE DEF q
<1>12. /\ q \o <<Plain("init"), Unlock>> \in Seq(Steps)
       /\ ViewRuns(q \o <<Plain("init"), Unlock>>, s, View(1, i, a), View(0, j, e))
  BY <1>8, <1>9, <1>11, ViewCat
<1>13. Opening = q \o <<Plain("init"), Unlock>>
  BY DEF Opening, p, q
<1> QED
  BY <1>2, <1>12, <1>13 DEF e, b

-----------------------------------------------------------------------------
(* The tables as the database has them now, and what a write makes of      *)
(* them.                                                                   *)

(* The table of a set as the database holds it now.                        *)
NamedNow(s) == [id \in Ids |-> IF Exists(s, id) THEN flag[s][id] ELSE {}]
PresentNow(s) == [id \in Ids |-> {f \in Fields(s) : field[s][id][f] # Absent}]
Tab(s) == Table(num[s], Existing(s), NamedNow(s), PresentNow(s))
Seen(c, s) == View(db_lock[c], inited, Tab(s))

Shapes ==
  /\ num \in [Sets -> Count32 \cup {Absent}]
  /\ flag \in [Sets -> [Ids -> (SUBSET AllFields) \cup {Absent}]]
  /\ field \in [Sets -> [Ids -> UNION {[Fields(s) -> Values \cup {Absent}] : s \in Sets}]]
  /\ \A s \in Sets, id \in Ids :
       /\ Exists(s, id) => flag[s][id] \in SUBSET Fields(s)
       /\ field[s][id] \in [Fields(s) -> Values \cup {Absent}]

(* A key that is there is not absent.                                      *)
LEMMA NotAbsent ==
  /\ \A v \in Values : v # Absent
  /\ \A s \in Sets : \A F \in SUBSET Fields(s) : F # Absent
  /\ \A n \in Count32 : n # Absent
<1>1. \A v \in Values : v # Absent
  <2> SUFFICES ASSUME NEW v \in Values PROVE v # Absent
    OBVIOUS
  <2>1. PICK r \in UNION {Rules[s] : s \in Sets} : v \in {r[f] : f \in DOMAIN r}
    BY DEF Values
  <2>2. PICK s \in Sets : r \in Rules[s]
    BY <2>1
  <2>3. PICK f \in DOMAIN r : v = r[f]
    BY <2>1
  <2> QED
    BY <2>2, <2>3, RuleAssumption
<1>2. \A s \in Sets : \A F \in SUBSET Fields(s) : F # Absent
  BY RuleAssumption
<1>3. \A n \in Count32 : n # Absent
  BY RuleAssumption DEF Count32
<1> QED
  BY <1>1, <1>2, <1>3

(* It is a table, which says of each rule what the keys say.               *)
LEMMA TabIs ==
  ASSUME Shapes, NEW s \in Sets
  PROVE  /\ Tab(s) \in Tables /\ Tab(s).num = num[s] /\ Tab(s).ex = Existing(s)
         /\ Tab(s).named = NamedNow(s) /\ Tab(s).present = PresentNow(s)
         /\ \A id \in Ids : /\ id \in Existing(s) <=> Exists(s, id)
                            /\ Exists(s, id) => NamedNow(s)[id] = flag[s][id]
                            /\ NamedNow(s)[id] \subseteq Fields(s)
<1>1. Existing(s) \in SUBSET Ids /\ num[s] \in Count32 \cup {Absent}
  BY DEF Existing, Shapes
<1>2. \A id \in Ids : /\ id \in Existing(s) <=> Exists(s, id)
                      /\ Exists(s, id) => NamedNow(s)[id] = flag[s][id]
                      /\ ~Exists(s, id) => NamedNow(s)[id] = {}
                      /\ NamedNow(s)[id] \subseteq Fields(s)
  BY DEF Existing, NamedNow, Shapes
<1>3. NamedNow(s) \in [Ids -> SUBSET AllFields] /\ PresentNow(s) \in [Ids -> SUBSET AllFields]
  BY <1>2, FieldsOfSet DEF NamedNow, PresentNow
<1> QED
  BY <1>1, <1>2, <1>3, TableIs DEF Tab

(* Whoever finds the table whole finds the rules whole.                    *)
LEMMA WholeRules ==
  ASSUME Shapes, NEW s \in Sets, EveryWhole(Tab(s)), NEW id \in Ids, Exists(s, id)
  PROVE  Whole(s, id)
<1>1. NamedNow(s)[id] \subseteq PresentNow(s)[id] /\ NamedNow(s)[id] = flag[s][id]
  BY TabIs DEF EveryWhole
<1>2. \A f \in PresentNow(s)[id] : field[s][id][f] # Absent
  BY DEF PresentNow
<1> QED
  BY <1>1, <1>2 DEF Whole

(* What each write makes of the tables.                                    *)
LEMMA NumWritten ==
  ASSUME Shapes, NEW s \in Sets, NEW n \in Count32, num' = [num EXCEPT ![s] = n], UNCHANGED <<flag, field>>
  PROVE  /\ Shapes' /\ Tab(s)' = Table(n, Tab(s).ex, Tab(s).named, Tab(s).present)
         /\ \A u \in Sets \ {s} : Tab(u)' = Tab(u)
<1>1. Shapes'
  BY DEF Shapes, Exists
<1>2. \A u \in Sets : Existing(u)' = Existing(u) /\ NamedNow(u)' = NamedNow(u) /\ PresentNow(u)' = PresentNow(u)
  BY DEF Existing, NamedNow, PresentNow, Exists
<1>3. num'[s] = n /\ \A u \in Sets \ {s} : num'[u] = num[u]
  BY DEF Shapes
<1> QED
  BY <1>1, <1>2, <1>3, TabIs DEF Tab

(* A flag that is inserted or deleted.                                     *)
LEMMA FlagWritten ==
  ASSUME Shapes, NEW s \in Sets, NEW id \in Ids, NEW F \in (SUBSET Fields(s)) \cup {Absent},
         flag' = [flag EXCEPT ![s][id] = F], UNCHANGED <<num, field>>
  PROVE  /\ Shapes'
         /\ F # Absent => Tab(s)' = Table(Tab(s).num, Tab(s).ex \cup {id}, [Tab(s).named EXCEPT ![id] = F], Tab(s).present)
         /\ F = Absent => Tab(s)' = Table(Tab(s).num, Tab(s).ex \ {id}, [Tab(s).named EXCEPT ![id] = {}], Tab(s).present)
         /\ \A u \in Sets \ {s} : Tab(u)' = Tab(u)
<1>1. /\ flag'[s][id] = F
      /\ \A u \in Sets, i \in Ids : u # s \/ i # id => flag'[u][i] = flag[u][i]
      /\ flag' \in [Sets -> [Ids -> (SUBSET AllFields) \cup {Absent}]]
  <2>1. Fields(s) \subseteq AllFields
    BY FieldsOfSet
  <2> QED
    BY <2>1 DEF Shapes
<1>2. Shapes'
  BY <1>1 DEF Shapes, Exists
<1>3. \A u \in Sets : PresentNow(u)' = PresentNow(u) /\ num'[u] = num[u]
  BY DEF PresentNow
<1>4. \A u \in Sets \ {s} : Existing(u)' = Existing(u) /\ NamedNow(u)' = NamedNow(u)
  BY <1>1 DEF Existing, NamedNow, Exists
<1>5. /\ F # Absent => Existing(s)' = Existing(s) \cup {id} /\ NamedNow(s)' = [NamedNow(s) EXCEPT ![id] = F]
      /\ F = Absent => Existing(s)' = Existing(s) \ {id} /\ NamedNow(s)' = [NamedNow(s) EXCEPT ![id] = {}]
  <2>1. \A i \in Ids \ {id} : Exists(s, i)' = Exists(s, i) /\ flag'[s][i] = flag[s][i]
    BY <1>1 DEF Exists
  <2>2. Exists(s, id)' = (F # Absent) /\ flag'[s][id] = F
    BY <1>1 DEF Exists
  <2>3. F # Absent => Existing(s)' = Existing(s) \cup {id}
    BY <2>1, <2>2 DEF Existing
  <2>4. F = Absent => Existing(s)' = Existing(s) \ {id}
    BY <2>1, <2>2 DEF Existing
  <2>5. F # Absent => NamedNow(s)' = [NamedNow(s) EXCEPT ![id] = F]
    BY <2>1, <2>2 DEF NamedNow
  <2>6. F = Absent => NamedNow(s)' = [NamedNow(s) EXCEPT ![id] = {}]
    BY <2>1, <2>2 DEF NamedNow
  <2> QED
    BY <2>3, <2>4, <2>5, <2>6
<1> QED
  BY <1>2, <1>3, <1>4, <1>5, TabIs DEF Tab

(* A field that is inserted or deleted.                                    *)
LEMMA FieldWritten ==
  ASSUME Shapes, NEW s \in Sets, NEW id \in Ids, NEW f \in Fields(s), NEW v \in Values \cup {Absent},
         field' = [field EXCEPT ![s][id][f] = v], UNCHANGED <<num, flag>>
  PROVE  /\ Shapes'
         /\ v # Absent => Tab(s)' = Table(Tab(s).num, Tab(s).ex, Tab(s).named, [Tab(s).present EXCEPT ![id] = @ \cup {f}])
         /\ v = Absent => Tab(s)' = Table(Tab(s).num, Tab(s).ex, Tab(s).named, [Tab(s).present EXCEPT ![id] = @ \ {f}])
         /\ \A u \in Sets \ {s} : Tab(u)' = Tab(u)
<1>1. field[s][id] \in [Fields(s) -> Values \cup {Absent}]
  BY DEF Shapes
<1> DEFINE g == [field[s][id] EXCEPT ![f] = v]
<1>2. g \in [Fields(s) -> Values \cup {Absent}] /\ g[f] = v /\ \A e \in Fields(s) \ {f} : g[e] = field[s][id][e]
  BY <1>1
<1>3. field' = [field EXCEPT ![s] = [field[s] EXCEPT ![id] = g]]
  OBVIOUS
<1> HIDE DEF g
<1>4. /\ field'[s][id] = g
      /\ \A u \in Sets, i \in Ids : u # s \/ i # id => field'[u][i] = field[u][i]
      /\ field' \in [Sets -> [Ids -> UNION {[Fields(u) -> Values \cup {Absent}] : u \in Sets}]]
  BY <1>2, <1>3 DEF Shapes
<1>5. Shapes'
  BY <1>2, <1>4 DEF Shapes, Exists
<1>6. \A u \in Sets : Existing(u)' = Existing(u) /\ NamedNow(u)' = NamedNow(u) /\ num'[u] = num[u]
  BY DEF Existing, NamedNow, Exists
<1>7. \A u \in Sets \ {s} : PresentNow(u)' = PresentNow(u)
  BY <1>4 DEF PresentNow
<1>8. /\ v # Absent => PresentNow(s)' = [PresentNow(s) EXCEPT ![id] = @ \cup {f}]
      /\ v = Absent => PresentNow(s)' = [PresentNow(s) EXCEPT ![id] = @ \ {f}]
  <2> DEFINE old == [i \in Ids |-> {e \in Fields(s) : field[s][i][e] # Absent}]
             new == [i \in Ids |-> {e \in Fields(s) : field'[s][i][e] # Absent}]
  <2>1. \A i \in Ids \ {id} : new[i] = old[i]
    BY <1>4
  <2>2. new[id] = {e \in Fields(s) : g[e] # Absent} /\ old[id] = {e \in Fields(s) : field[s][id][e] # Absent}
    BY <1>4
  <2>3. /\ v # Absent => new[id] = old[id] \cup {f}
        /\ v = Absent => new[id] = old[id] \ {f}
    BY <1>2, <2>2
  <2>4. PresentNow(s) = old /\ PresentNow(s)' = new
    BY DEF PresentNow
  <2>5. \A F : [old EXCEPT ![id] = F] = [i \in Ids |-> IF i = id THEN F ELSE old[i]]
    OBVIOUS
  <2>6. new = [i \in Ids |-> new[i]]
    OBVIOUS
  <2> HIDE DEF old, new
  <2>7. /\ v # Absent => new = [old EXCEPT ![id] = old[id] \cup {f}]
        /\ v = Absent => new = [old EXCEPT ![id] = old[id] \ {f}]
    BY <2>1, <2>3, <2>5, <2>6
  <2> QED
    BY <2>4, <2>7
<1> QED
  BY <1>5, <1>6, <1>7, <1>8, TabIs DEF Tab

-----------------------------------------------------------------------------
(* The invariant of the data.  Nobody holds the lock: every set is counted *)
(* and whole, or none has been stored yet.  Somebody does: what is left of *)
(* the section makes it so.  Whoever waits will find it so.                *)

Ends(q, s, x) == \E z \in Views : ViewRuns(q, s, x, z) /\ z.depth = 0 /\ z.inited /\ Right(z.tab)
Calls == {"set", "clear", "show"}
Tails == {<<>>, cli_reset_default_config, cli_save_config} \cup {<<Lock, t>> : t \in {u \in Steps : u.do \in Calls}}
Waiting(q) == \E p \in Seq(FreeSteps), r \in Tails : q = p \o r

Fresh == ~inited /\ \A s \in Sets : Existing(s) = {}
Settled == inited /\ \A s \in Sets : Right(Tab(s))
Waits(c) == todo[c] \in {<<>>, <<Lock, Plain("startup")>>} \/ (inited /\ Waiting(todo[c]))
Works(c) ==
  \/ \E t \in Steps : /\ todo[c] = <<t>> /\ t.do \in Branches
                      /\ Settled \/ (Fresh /\ t.do = "startup")
  \/ \E a, b \in Seq(Steps) : /\ todo[c] = a \o b /\ Waiting(b)
                              /\ \A s \in Sets : Ends(a, s, Seen(c, s))
Placed(c) == /\ up[c] = "on" => inited
             /\ IF owner = c THEN Works(c) ELSE Waits(c)
Data ==
  /\ Shapes
  /\ owner = NoCli => Settled \/ Fresh
  /\ \A c \in Clis : Placed(c)
Sound == Types /\ Order /\ Data

DInv == faults = 0 => Data

(* What is left of a waiting command starts with a free step or a lock.    *)
LEMMA WaitingIs ==
  ASSUME NEW q, Waiting(q)
  PROVE  /\ q \in Seq(Steps)
         /\ q # <<>> => \/ Head(q).do \in Free /\ Waiting(Tail(q))
                        \/ Head(q) = Lock
                           /\ \/ q = cli_reset_default_config
                              \/ q = cli_save_config
                              \/ \E t \in Steps : t.do \in Calls /\ q = <<Lock, t>>
<1>1. PICK p \in Seq(FreeSteps), r \in Tails : q = p \o r
  BY DEF Waiting
<1>2. p \in Seq(Steps)
  BY Sub
<1>l. Lock \in Steps
  BY PlainSteps
<1>3. r \in Seq(Steps)
  <2>1. \A t \in Steps : <<Lock, t>> \in Seq(Steps)
    BY <1>l
  <2>2. cli_reset_default_config \in Seq(Steps) /\ cli_save_config \in Seq(Steps) /\ <<>> \in Seq(Steps)
    BY ResetRuns, SaveRuns
  <2> QED
    BY <1>1, <2>1, <2>2 DEF Tails
<1>4. CASE p = <<>>
  <2>1. q = r
    BY <1>1, <1>3, <1>4
  <2>2. CASE r = <<>>
    BY <1>3, <2>1, <2>2
  <2>3. CASE r = cli_reset_default_config
    <3>1. Body \o <<Unlock>> \in Seq(Steps) /\ Body \in Seq(Steps) /\ <<Unlock>> \in Seq(Steps)
      BY BodiesHeld, Sub, PlainSteps
    <3>2. \A x, y \in Seq(Steps) : <<Lock>> \o x \o y = <<Lock>> \o (x \o y)
      BY <1>l
    <3>3. r = <<Lock>> \o (Body \o <<Unlock>>)
      BY <2>3, <3>1, <3>2, Plans
    <3>4. Head(r) = Lock
      BY <1>l, <3>1, <3>3
    <3> QED
      BY <1>3, <2>1, <2>3, <3>4
  <2>4. CASE r = cli_save_config
    <3>1. SaveBody \in Seq(Steps) /\ <<Plain("global"), Unlock>> \in Seq(Steps)
      BY BodiesHeld, Sub, PlainSteps
    <3>2. \A x, y \in Seq(Steps) : <<Lock>> \o x \o y = <<Lock>> \o (x \o y) /\ x \o y \in Seq(Steps)
      BY <1>l
    <3>3. r = <<Lock>> \o (SaveBody \o <<Plain("global"), Unlock>>) /\ SaveBody \o <<Plain("global"), Unlock>> \in Seq(Steps)
      BY <2>4, <3>1, <3>2, Plans
    <3>4. Head(r) = Lock
      BY <1>l, <3>1, <3>3
    <3> QED
      BY <1>3, <2>1, <2>4, <3>4
  <2>5. CASE \E t \in Steps : t.do \in Calls /\ r = <<Lock, t>>
    BY <1>3, <2>1, <2>5
  <2>6. r \in {<<>>, cli_reset_default_config, cli_save_config} \/ \E t \in Steps : t.do \in Calls /\ r = <<Lock, t>>
    BY <1>1 DEF Tails
  <2> QED
    BY <2>2, <2>3, <2>4, <2>5, <2>6
<1>5. CASE p # <<>>
  <2>1. Head(p) \in FreeSteps /\ Tail(p) \in Seq(FreeSteps)
    BY <1>5
  <2>2. Head(q) = Head(p) /\ Tail(q) = Tail(p) \o r
    BY <1>1, <1>2, <1>3, <1>5
  <2>3. Waiting(Tail(q))
    BY <1>1, <2>1, <2>2 DEF Waiting
  <2>4. q \in Seq(Steps)
    BY <1>1, <1>2, <1>3
  <2> QED
    BY <2>1, <2>2, <2>3, <2>4 DEF FreeSteps
<1> QED
  BY <1>4, <1>5

(* Commands that wait.                                                     *)
LEMMA WaitingAre ==
  /\ Waiting(<<>>) /\ Waiting(cli_reset_default_config) /\ Waiting(cli_save_config)
  /\ \A t \in Steps : t.do \in Calls => Waiting(<<Lock, t>>)
  /\ \A p \in Seq(FreeSteps) : Waiting(p) /\ Waiting(p \o cli_reset_default_config)
<1>1. ASSUME NEW r \in Tails, r \in Seq(Steps) PROVE Waiting(r)
  <2>1. <<>> \in Seq(FreeSteps) /\ <<>> \o r = r
    BY <1>1
  <2> QED
    BY <1>1, <2>1 DEF Waiting
<1>2. Lock \in Steps
  BY PlainSteps
<1>3. cli_reset_default_config \in Seq(Steps) /\ cli_save_config \in Seq(Steps) /\ <<>> \in Seq(Steps)
  BY ResetRuns, SaveRuns
<1>4. <<>> \in Tails /\ cli_reset_default_config \in Tails /\ cli_save_config \in Tails
  BY DEF Tails
<1>5. ASSUME NEW t \in Steps, t.do \in Calls PROVE Waiting(<<Lock, t>>)
  <2>1. <<Lock, t>> \in Tails
    BY <1>5 DEF Tails
  <2>2. <<Lock, t>> \in Seq(Steps)
    BY <1>2
  <2> QED
    BY <1>1, <2>1, <2>2
<1>6. ASSUME NEW p \in Seq(FreeSteps) PROVE Waiting(p) /\ Waiting(p \o cli_reset_default_config)
  <2>1. p \o <<>> = p
    OBVIOUS
  <2> QED
    BY <1>4, <2>1 DEF Waiting
<1> QED
  BY <1>1, <1>3, <1>4, <1>5, <1>6

(* The step that a working cli takes next.                                 *)
LEMMA WorksNext ==
  ASSUME Sound, NEW c \in Clis, owner = c, todo[c] # <<>>, Head(todo[c]).do \notin Branches
  PROVE  \E a, b \in Seq(Steps) :
           /\ Rest(c) = a \o b /\ Waiting(b) /\ Head(todo[c]) \in Steps
           /\ \A s \in Sets : \E y \in Views : Shows(Head(todo[c]), s, Seen(c, s), y) /\ Ends(a, s, y)
<1>1. PICK a, b \in Seq(Steps) : /\ todo[c] = a \o b /\ Waiting(b)
                                 /\ \A s \in Sets : Ends(a, s, Seen(c, s))
  <2>1. Works(c)
    BY DEF Sound, Data, Placed
  <2>2. ASSUME NEW t \in Steps, todo[c] = <<t>>, t.do \in Branches PROVE FALSE
    BY <2>2
  <2> QED
    BY <2>1, <2>2 DEF Works
<1>2. db_lock[c] > 0
  BY DEF Sound, Order, Orderly
<1>3. PICK s0 \in Sets : TRUE
  BY RuleAssumption
<1>4. a # <<>>
  <2> SUFFICES ASSUME a = <<>> PROVE FALSE
    OBVIOUS
  <2>1. PICK z \in Views : ViewRuns(<<>>, s0, Seen(c, s0), z) /\ z.depth = 0
    BY <1>1 DEF Ends
  <2>2. Seen(c, s0) = z
    BY <2>1, RunsEmpty DEF ViewRuns
  <2>3. Seen(c, s0).depth = db_lock[c]
    BY ViewsAre DEF Seen
  <2> QED
    BY <1>2, <2>1, <2>2, <2>3
<1>5. /\ Head(todo[c]) = Head(a) /\ Rest(c) = Tail(a) \o b /\ Tail(a) \in Seq(Steps) /\ Head(a) \in Steps
  BY <1>1, <1>4 DEF Rest
<1>6. ASSUME NEW s \in Sets PROVE \E y \in Views : Shows(Head(a), s, Seen(c, s), y) /\ Ends(Tail(a), s, y)
  <2>1. PICK z \in Views : ViewRuns(a, s, Seen(c, s), z) /\ z.depth = 0 /\ z.inited /\ Right(z.tab)
    BY <1>1 DEF Ends
  <2>2. PICK y \in Views : <<Head(a), Seen(c, s), y>> \in ViewMoves(s) /\ ViewRuns(Tail(a), s, y, z)
    BY <1>4, <2>1, RunsHead DEF ViewRuns
  <2> QED
    BY <2>1, <2>2 DEF ViewMoves, Ends
<1> QED
  BY <1>1, <1>5, <1>6

(* A step of one cli leaves the others where they are.                     *)
LEMMA OthersPlaced ==
  ASSUME Data, NEW c \in Clis, NEW d \in Clis, d # c,
         todo'[d] = todo[d], db_lock'[d] = db_lock[d], up'[d] = up[d],
         \/ owner' = owner /\ UNCHANGED dbvars
         \/ owner = NoCli /\ owner' = c /\ UNCHANGED dbvars
         \/ owner = c /\ owner' \in {c, NoCli} /\ (inited => inited')
  PROVE  Placed(d)'
<1>1. NoCli # d
  BY Numbers
<1>2. Placed(d)
  BY DEF Data
<1>3. inited => inited'
  BY DEF dbvars
<1>4. CASE owner = d
  <2>1. owner' = owner /\ UNCHANGED dbvars
    BY <1>1, <1>4
  <2>2. Works(d)
    BY <1>2, <1>4 DEF Placed
  <2>3. \A s \in Sets : Seen(d, s)' = Seen(d, s) /\ Tab(s)' = Tab(s) /\ Existing(s)' = Existing(s)
    BY <2>1 DEF dbvars, Seen, Tab, Existing, NamedNow, PresentNow, Exists
  <2>4. (Settled => Settled') /\ (Fresh => Fresh')
    BY <2>1, <2>3 DEF Settled, Fresh, dbvars
  <2>5. Works(d)'
    <3>1. CASE \E t \in Steps : /\ todo[d] = <<t>> /\ t.do \in Branches
                                /\ Settled \/ (Fresh /\ t.do = "startup")
      BY <2>4, <3>1 DEF Works
    <3>2. CASE \E a, b \in Seq(Steps) : /\ todo[d] = a \o b /\ Waiting(b)
                                        /\ \A s \in Sets : Ends(a, s, Seen(d, s))
      <4>1. PICK a, b \in Seq(Steps) : /\ todo[d] = a \o b /\ Waiting(b)
                                       /\ \A s \in Sets : Ends(a, s, Seen(d, s))
        BY <3>2
      <4>2. \A s \in Sets : Ends(a, s, Seen(d, s)')
        BY <2>3, <4>1
      <4>3. \A s \in Sets : Ends(a, s, Seen(d, s))'
        BY <4>2 DEF Ends
      <4> QED
        BY <4>1, <4>3 DEF Works
    <3> QED
      BY <2>2, <3>1, <3>2 DEF Works
  <2> QED
    BY <1>2, <1>3, <1>4, <2>1, <2>5 DEF Placed
<1>5. CASE owner # d
  <2>1. owner' # d
    BY <1>1, <1>5
  <2>2. Waits(d)
    BY <1>2, <1>5 DEF Placed
  <2>3. Waits(d)'
    BY <1>3, <2>2 DEF Waits
  <2> QED
    BY <1>2, <1>3, <2>1, <2>3 DEF Placed
<1> QED
  BY <1>4, <1>5

(* A working cli goes on with a sequence that does what its step does.     *)
LEMMA WorkOn ==
  ASSUME Sound, NEW c \in Clis, owner = c, todo[c] # <<>>, Head(todo[c]).do \notin Branches,
         NEW p \in Seq(Steps), todo' = [todo EXCEPT ![c] = p \o Rest(c)],
         owner' = owner, up' = up, \A d \in Clis \ {c} : db_lock'[d] = db_lock[d],
         inited => inited', Shapes',
         \A s \in Sets : \A y \in Views : Shows(Head(todo[c]), s, Seen(c, s), y) => ViewRuns(p, s, Seen(c, s)', y)
  PROVE  Data'
<1>1. PICK a, b \in Seq(Steps) :
        /\ Rest(c) = a \o b /\ Waiting(b) /\ Head(todo[c]) \in Steps
        /\ \A s \in Sets : \E y \in Views : Shows(Head(todo[c]), s, Seen(c, s), y) /\ Ends(a, s, y)
  BY WorksNext
<1>2. todo'[c] = p \o Rest(c) /\ \A d \in Clis \ {c} : todo'[d] = todo[d]
  BY DEF Sound, Types
<1>3. p \o Rest(c) = p \o a \o b /\ p \o a \in Seq(Steps)
  <2>1. \A x, y, z \in Seq(Steps) : x \o (y \o z) = x \o y \o z /\ x \o y \in Seq(Steps)
    BY SMTT(30)
  <2> QED
    BY <1>1, <2>1, SMTT(30)
<1>4. ASSUME NEW s \in Sets PROVE Ends(p \o a, s, Seen(c, s)')
  <2>1. PICK y \in Views : Shows(Head(todo[c]), s, Seen(c, s), y) /\ Ends(a, s, y)
    BY <1>1
  <2>2. ViewRuns(p, s, Seen(c, s)', y)
    BY <2>1
  <2>3. PICK z \in Views : ViewRuns(a, s, y, z) /\ z.depth = 0 /\ z.inited /\ Right(z.tab)
    BY <2>1 DEF Ends
  <2>4. ViewRuns(p \o a, s, Seen(c, s)', z)
    BY <2>2, <2>3, ViewCat
  <2> QED
    BY <2>3, <2>4 DEF Ends
<1>5. Works(c)'
  <2>1. \A s \in Sets : Ends(p \o a, s, Seen(c, s))'
    BY <1>4 DEF Ends
  <2> QED
    BY <1>1, <1>2, <1>3, <2>1 DEF Works
<1>6. Placed(c)'
  BY <1>5 DEF Sound, Data, Placed
<1>7. ASSUME NEW d \in Clis, d # c PROVE Placed(d)'
  BY <1>2, <1>7, OthersPlaced DEF Sound
<1>8. owner' # NoCli
  BY Numbers
<1> QED
  BY <1>6, <1>7, <1>8 DEF Data

(* What a step shows of a set, by its kind.                                *)
LEMMA ShowsIs ==
  ASSUME NEW t \in Steps, NEW s \in Sets, NEW x \in Views, NEW y \in Views, Shows(t, s, x, y)
  PROVE  /\ x.depth > 0
         /\ t.do \in {"reg", "cam", "global"} => y = x
         /\ t.do \notin Branches \cup {"signals"}
         /\ t.do \in Guarded \ {"uninit", "global"} =>
              IF t.s = s THEN t \in StepsOf(s) /\ TableStep(t, x.tab, y.tab) /\ y = View(x.depth, x.inited, y.tab)
              ELSE y = x
         /\ t.do = "uninit" => ~x.inited /\ y = x
         /\ t.do = "init" => y.inited /\ y = View(x.depth, y.inited, x.tab)
         /\ t.do = "lock" => y = View(x.depth + 1, x.inited, x.tab)
         /\ t.do = "unlock" => y = View(x.depth - 1, x.inited, x.tab)
<1>1. \A u \in Sets : t \in StepsOf(u) => t.s = u
  BY DEF StepsOf
<1>2. TableStep(t, x.tab, y.tab) => t.do \in Guarded \ {"uninit", "global"}
  BY DEF TableStep, Guarded
<1>3. t \in Aside(s) => /\ t.do \in {"reg", "cam"} \cup Guarded
                        /\ t.do \in Guarded \ {"uninit", "global"} => t.s # s
  BY <1>1 DEF Aside, Guarded
<1>4. \A u \in Sets : t \in StepsOf(u) => t.do \notin {"uninit", "global", "init", "lock", "unlock"}
  BY DEF StepsOf
<1>5. t \in Aside(s) => t.do # "uninit"
  BY <1>4 DEF Aside
<1>6. t.do = "lock" \/ t.do = "unlock" \/ t.do = "uninit" \/ t.do = "init" \/ t \in Aside(s)
      \/ (t \in StepsOf(s) /\ TableStep(t, x.tab, y.tab))
  BY DEF Shows
<1>7. x.depth > 0
  BY DEF Shows
<1>8. t.do \notin Branches \cup {"signals"}
  BY <1>2, <1>3, <1>6 DEF Guarded, Branches
<1>9. t.do \in {"reg", "cam", "global"} => y = x
  BY <1>2 DEF Shows, Guarded
<1>10. ASSUME t.do \in Guarded \ {"uninit", "global"}
       PROVE  IF t.s = s THEN t \in StepsOf(s) /\ TableStep(t, x.tab, y.tab) /\ y = View(x.depth, x.inited, y.tab)
              ELSE y = x
  <2>1. t.do \notin {"lock", "unlock", "uninit", "init"}
    BY <1>10 DEF Guarded
  <2>2. \/ t \in Aside(s) /\ y = x
        \/ t \in StepsOf(s) /\ TableStep(t, x.tab, y.tab) /\ y = View(x.depth, x.inited, y.tab)
    BY <2>1 DEF Shows
  <2> QED
    BY <1>1, <1>3, <1>10, <2>2
<1>11. t.do = "uninit" => ~x.inited /\ y = x
  BY <1>2, <1>5 DEF Shows, Guarded
<1>12. t.do \in {"lock", "unlock", "init"} => t \notin Aside(s) /\ t \notin StepsOf(s)
  BY <1>3, <1>4 DEF Guarded
<1>13. t.do = "init" => y.inited /\ y = View(x.depth, y.inited, x.tab)
  BY <1>12 DEF Shows
<1>14. /\ t.do = "lock" => y = View(x.depth + 1, x.inited, x.tab)
       /\ t.do = "unlock" => y = View(x.depth - 1, x.inited, x.tab)
  BY <1>12 DEF Shows
<1> QED
  BY <1>7, <1>8, <1>9, <1>10, <1>11, <1>13, <1>14

(* Steps of which a cli that has the lock makes nothing more.              *)
LEMMA Onward ==
  ASSUME Sound, NEW c \in Clis, owner = c, todo[c] # <<>>, Head(todo[c]).do \notin Branches,
         todo' = [todo EXCEPT ![c] = Rest(c)],
         owner' = owner, up' = up, \A d \in Clis \ {c} : db_lock'[d] = db_lock[d],
         inited => inited', Shapes',
         \A s \in Sets : \A y \in Views : Shows(Head(todo[c]), s, Seen(c, s), y) => Seen(c, s)' = y
  PROVE  Data'
<1> DEFINE p == <<>>
<1>1. p \in Seq(Steps)
  OBVIOUS
<1>2. Rest(c) \in Seq(Steps)
  BY DEF Sound, Types, Rest
<1>3. p \o Rest(c) = Rest(c)
  BY <1>2
<1>4. ASSUME NEW s \in Sets, NEW y \in Views, Shows(Head(todo[c]), s, Seen(c, s), y)
      PROVE  ViewRuns(p, s, Seen(c, s)', y)
  <2>1. Seen(c, s)' = y
    BY <1>4
  <2>2. ViewRuns(<<>>, s, y, y)
    BY RunsEmpty DEF ViewRuns
  <2> QED
    BY <2>1, <2>2
<1> HIDE DEF p
<1>5. todo' = [todo EXCEPT ![c] = p \o Rest(c)]
  BY <1>3
<1> QED
  BY <1>1, <1>4, <1>5, WorkOn

(* The cli that takes a step.                                              *)
LEMMA Taker ==
  ASSUME Sound, NEW c \in Clis, todo[c] # <<>>
  PROVE  /\ Head(todo[c]) \in Steps
         /\ owner # c => \/ Head(todo[c]) = Lock
                         \/ inited /\ Head(todo[c]).do \in Free /\ Waiting(Rest(c))
         /\ owner = c => Head(todo[c]).do # "signals"
<1>1. Head(todo[c]) \in Steps
  BY DEF Sound, Types
<1>2. ASSUME owner # c
      PROVE  \/ Head(todo[c]) = Lock
             \/ inited /\ Head(todo[c]).do \in Free /\ Waiting(Rest(c))
  <2>1. todo[c] = <<Lock, Plain("startup")>> \/ (inited /\ Waiting(todo[c]))
    BY <1>2 DEF Sound, Data, Placed, Waits
  <2>2. CASE todo[c] = <<Lock, Plain("startup")>>
    BY <2>2
  <2>3. CASE inited /\ Waiting(todo[c])
    BY <2>3, WaitingIs DEF Rest
  <2> QED
    BY <2>1, <2>2, <2>3
<1>3. ASSUME owner = c PROVE Head(todo[c]).do # "signals"
  <2> SUFFICES ASSUME Head(todo[c]).do = "signals" PROVE FALSE
    OBVIOUS
  <2>1. Head(todo[c]).do \notin Branches
    BY DEF Branches
  <2>2. PICK s0 \in Sets : TRUE
    BY RuleAssumption
  <2>3. PICK y \in Views : Shows(Head(todo[c]), s0, Seen(c, s0), y)
    BY <1>3, <2>1, WorksNext
  <2>4. Seen(c, s0).depth > 0 /\ ~(Head(todo[c]) \in Aside(s0)) /\ ~(Head(todo[c]) \in StepsOf(s0))
    BY <2>3 DEF Shows, Aside, Guarded, StepsOf
  <2> QED
    BY <2>3, <2>4 DEF Shows
<1> QED
  BY <1>1, <1>2, <1>3

(* Seen is a view: a working cli has nested its locks at most twice.       *)
LEMMA SeenIs ==
  ASSUME Sound, NEW c \in Clis, NEW s \in Sets
  PROVE  /\ Tab(s) \in Tables /\ inited \in BOOLEAN
         /\ Seen(c, s) = View(db_lock[c], inited, Tab(s))
         /\ db_lock[c] \in 0 .. 2 => Seen(c, s) \in Views
         /\ Seen(c, s).depth = db_lock[c] /\ Seen(c, s).inited = inited /\ Seen(c, s).tab = Tab(s)
<1>1. Tab(s) \in Tables /\ inited \in BOOLEAN
  BY TabIs DEF Sound, Data, Types
<1>2. Seen(c, s) = View(db_lock[c], inited, Tab(s))
  BY DEF Seen
<1>3. View(db_lock[c], inited, Tab(s)).depth = db_lock[c] /\ View(db_lock[c], inited, Tab(s)).tab = Tab(s)
  BY ViewsAre
<1>4. View(db_lock[c], inited, Tab(s)).inited = inited
  BY <1>1 DEF View
<1>5. db_lock[c] \in 0 .. 2 => View(db_lock[c], inited, Tab(s)) \in Views
  BY <1>1, ViewsAre
<1> QED
  BY <1>1, <1>2, <1>3, <1>4, <1>5

(* And so is what a step shows.                                            *)
LEMMA SeenWorks ==
  ASSUME Sound, NEW c \in Clis, owner = c, NEW s \in Sets, NEW t, NEW y \in Views, Shows(t, s, Seen(c, s), y),
         t = Head(todo[c]), todo[c] # <<>>, t.do \notin Branches
  PROVE  Seen(c, s) \in Views /\ db_lock[c] \in 1 .. 2
<1>1. db_lock[c] \in 1 .. 2
  <2>1. up[c] # "off" /\ db_lock[c] > 0 /\ (Branching(c) \/ Going(c)) /\ todo[c] # <<>>
    BY DEF Sound, Order, Orderly
  <2>2. CASE Going(c)
    <3>1. PICK x \in Labels : x.depth = db_lock[c]
      BY <2>2 DEF Going
    <3> QED
      BY <2>1, <3>1, LabelsAre
  <2>3. CASE Branching(c)
    <3>1. db_lock[c] = 1
      BY <2>1, <2>3 DEF Branching
    <3> QED
      BY <3>1
  <2> QED
    BY <2>1, <2>2, <2>3
<1>2. db_lock[c] \in 0 .. 2
  BY <1>1
<1> QED
  BY <1>1, <1>2, SeenIs

(* Only the owner of the lock takes the steps that need it.                *)
LEMMA Owned ==
  ASSUME Sound, NEW c \in Clis, todo[c] # <<>>, Head(todo[c]).do \notin {"lock"} \cup Free
  PROVE  owner = c /\ Head(todo[c]) \in Steps
<1>1. Head(todo[c]) # Lock
  BY DEF Lock
<1> QED
  BY <1>1, Taker

(* A write to the table of one set.                                        *)
LEMMA TableWritten ==
  ASSUME Sound, NEW c \in Clis, todo[c] # <<>>, Head(todo[c]).do \in Guarded \ {"uninit", "global"},
         todo' = [todo EXCEPT ![c] = Rest(c)], UNCHANGED <<owner, up, db_lock, inited>>, Shapes',
         NEW v \in Sets, v = Head(todo[c]).s, \A u \in Sets \ {v} : Tab(u)' = Tab(u),
         \A b \in Tables : TableStep(Head(todo[c]), Tab(v), b) => Tab(v)' = b
  PROVE  Data'
<1> DEFINE t == Head(todo[c])
<1>0. t.do \notin Branches /\ t.do \notin {"lock"} \cup Free
  BY DEF Guarded, Branches, Free
<1>1. owner = c /\ t \in Steps
  BY <1>0, Owned
<1>2. ASSUME NEW s \in Sets, NEW y \in Views, Shows(t, s, Seen(c, s), y)
      PROVE  Seen(c, s)' = y
  <2>1. Seen(c, s) \in Views
    BY <1>0, <1>1, <1>2, SeenWorks
  <2>2. IF t.s = s THEN t \in StepsOf(s) /\ TableStep(t, Seen(c, s).tab, y.tab)
                        /\ y = View(Seen(c, s).depth, Seen(c, s).inited, y.tab)
        ELSE y = Seen(c, s)
    BY <1>1, <1>2, <2>1, ShowsIs
  <2>3. Seen(c, s).depth = db_lock[c] /\ Seen(c, s).tab = Tab(s) /\ Seen(c, s) = View(db_lock[c], inited, Tab(s))
    BY SeenIs
  <2>i. View(Seen(c, s).depth, Seen(c, s).inited, y.tab) = View(db_lock[c], inited, y.tab)
    <3>1. Seen(c, s).inited = inited
      BY SeenIs
    <3> QED
      BY <2>3, <3>1
  <2>4. Seen(c, s)' = View(db_lock[c], inited, Tab(s)')
    BY DEF Seen
  <2>5. CASE t.s = s
    <3>1. TableStep(t, Tab(s), y.tab) /\ y.tab \in Tables
      BY <2>2, <2>3, <2>5, ViewsAre
    <3>2. s = v
      BY <2>5
    <3>3. Tab(s)' = y.tab
      BY <3>1, <3>2
    <3> QED
      BY <2>2, <2>4, <2>5, <2>i, <3>3
  <2>6. CASE t.s # s
    <3>1. Tab(s)' = Tab(s)
      BY <2>6
    <3> QED
      BY <2>2, <2>3, <2>4, <2>6, <3>1
  <2> QED
    BY <2>5, <2>6
<1> HIDE DEF t
<1>3. \A d \in Clis \ {c} : db_lock'[d] = db_lock[d]
  OBVIOUS
<1> QED
  BY <1>0, <1>1, <1>2, <1>3, Onward DEF t

(* The writes.                                                             *)
LEMMA WrittenData ==
  ASSUME Sound, NEW c \in Clis,
         \/ db_set_filter_rule_num(c) \/ db_insert_flag(c) \/ db_insert_field(c)
         \/ db_delete_flag(c)
         \/ db_delete_field(c) /\ field[Head(todo[c]).s][Head(todo[c]).id][Head(todo[c]).f] # Absent
  PROVE  Data'
<1> DEFINE t == Head(todo[c])
<1>1. todo[c] # <<>> /\ t.do \in {"num", "flag", "field", "delflag", "delfield"}
  BY DEF db_set_filter_rule_num, db_insert_flag, db_insert_field, db_delete_flag, db_delete_field, Running
<1>2. t.do \in Guarded \ {"uninit", "global"} /\ t.do \notin {"lock"} \cup Free
  BY <1>1 DEF Guarded, Free
<1>3. t \in Steps
  BY <1>1, <1>2, Owned
<1>s. PICK s \in Sets : s = t.s
  BY <1>1, <1>2, <1>3, StepKinds
<1>4. /\ s = t.s
      /\ t.do # "num" => t.id \in Ids
      /\ t.do \in {"field", "delfield"} => t.f \in Fields(s)
      /\ t.do = "num" => t.n \in Count32
      /\ t.do = "flag" => t.fs \in SUBSET Fields(s)
      /\ t.do = "field" => t.v \in Values
  BY <1>1, <1>2, <1>3, <1>s, StepKinds
<1>5. /\ todo' = [todo EXCEPT ![c] = Rest(c)] /\ UNCHANGED <<owner, up, db_lock, inited>>
      /\ t.do = "num" => num' = [num EXCEPT ![s] = t.n] /\ UNCHANGED <<flag, field>>
      /\ t.do = "flag" => flag' = [flag EXCEPT ![s][t.id] = t.fs] /\ UNCHANGED <<num, field>>
      /\ t.do = "field" => field' = [field EXCEPT ![s][t.id][t.f] = t.v] /\ UNCHANGED <<num, flag>>
      /\ t.do = "delflag" => flag' = [flag EXCEPT ![s][t.id] = Absent] /\ UNCHANGED <<num, field>>
      /\ t.do = "delfield" => field' = [field EXCEPT ![s][t.id][t.f] = Absent] /\ UNCHANGED <<num, flag>>
  BY <1>s DEF db_set_filter_rule_num, db_insert_flag, db_insert_field, db_delete_flag, db_delete_field, Running, Wrote, Become
<1>6. Shapes
  BY DEF Sound, Data
<1> HIDE DEF t
<1> SUFFICES /\ Shapes' /\ \A u \in Sets \ {s} : Tab(u)' = Tab(u)
             /\ \A b \in Tables : TableStep(t, Tab(s), b) => Tab(s)' = b
  BY <1>1, <1>2, <1>5, <1>s, TableWritten DEF t
<1>7. CASE t.do = "num"
  <2>1. /\ Shapes' /\ Tab(s)' = Table(t.n, Tab(s).ex, Tab(s).named, Tab(s).present)
        /\ \A u \in Sets \ {s} : Tab(u)' = Tab(u)
    BY <1>4, <1>5, <1>6, <1>7, NumWritten
  <2> QED
    BY <1>7, <2>1 DEF TableStep
<1>8. CASE t.do = "flag"
  <2>1. t.fs # Absent
    BY <1>4, <1>8, NotAbsent
  <2>2. /\ Shapes' /\ Tab(s)' = Table(Tab(s).num, Tab(s).ex \cup {t.id}, [Tab(s).named EXCEPT ![t.id] = t.fs], Tab(s).present)
        /\ \A u \in Sets \ {s} : Tab(u)' = Tab(u)
    <3>1. PICK i \in Ids : i = t.id
      BY <1>4, <1>8
    <3>2. PICK F \in (SUBSET Fields(s)) \cup {Absent} : F = t.fs
      BY <1>4, <1>8
    <3>3. flag' = [flag EXCEPT ![s][i] = F] /\ UNCHANGED <<num, field>>
      BY <1>5, <1>8, <3>1, <3>2
    <3>4. /\ Shapes'
          /\ F # Absent => Tab(s)' = Table(Tab(s).num, Tab(s).ex \cup {i}, [Tab(s).named EXCEPT ![i] = F], Tab(s).present)
          /\ \A u \in Sets \ {s} : Tab(u)' = Tab(u)
      BY <1>6, <3>3, FlagWritten
    <3> QED
      BY <2>1, <3>1, <3>2, <3>4
  <2> QED
    BY <1>8, <2>2 DEF TableStep
<1>9. CASE t.do = "field"
  <2>1. t.v # Absent
    BY <1>4, <1>9, NotAbsent
  <2>2. /\ Shapes' /\ Tab(s)' = Table(Tab(s).num, Tab(s).ex, Tab(s).named, [Tab(s).present EXCEPT ![t.id] = @ \cup {t.f}])
        /\ \A u \in Sets \ {s} : Tab(u)' = Tab(u)
    <3>1. PICK i \in Ids : i = t.id
      BY <1>4, <1>9
    <3>2. PICK f \in Fields(s) : f = t.f
      BY <1>4, <1>9
    <3>3. PICK w \in Values \cup {Absent} : w = t.v
      BY <1>4, <1>9
    <3>4. field' = [field EXCEPT ![s][i][f] = w] /\ UNCHANGED <<num, flag>>
      BY <1>5, <1>9, <3>1, <3>2, <3>3
    <3>5. /\ Shapes'
          /\ w # Absent => Tab(s)' = Table(Tab(s).num, Tab(s).ex, Tab(s).named, [Tab(s).present EXCEPT ![i] = @ \cup {f}])
          /\ w = Absent => Tab(s)' = Table(Tab(s).num, Tab(s).ex, Tab(s).named, [Tab(s).present EXCEPT ![i] = @ \ {f}])
          /\ \A u \in Sets \ {s} : Tab(u)' = Tab(u)
      BY <1>6, <3>4, FieldWritten
    <3> QED
      BY <2>1, <3>1, <3>2, <3>3, <3>5
  <2> QED
    BY <1>9, <2>2 DEF TableStep
<1>10. CASE t.do = "delflag"
  <2>2. /\ Shapes' /\ Tab(s)' = Table(Tab(s).num, Tab(s).ex \ {t.id}, [Tab(s).named EXCEPT ![t.id] = {}], Tab(s).present)
        /\ \A u \in Sets \ {s} : Tab(u)' = Tab(u)
    BY <1>4, <1>5, <1>6, <1>10, FlagWritten
  <2> QED
    BY <1>10, <2>2 DEF TableStep
<1>11. CASE t.do = "delfield"
  <2>2. /\ Shapes' /\ Tab(s)' = Table(Tab(s).num, Tab(s).ex, Tab(s).named, [Tab(s).present EXCEPT ![t.id] = @ \ {t.f}])
        /\ \A u \in Sets \ {s} : Tab(u)' = Tab(u)
    <3>1. PICK i \in Ids : i = t.id
      BY <1>4, <1>11
    <3>2. PICK f \in Fields(s) : f = t.f
      BY <1>4, <1>11
    <3>3. PICK w \in Values \cup {Absent} : w = Absent
      BY <1>4, <1>11
    <3>4. field' = [field EXCEPT ![s][i][f] = w] /\ UNCHANGED <<num, flag>>
      BY <1>5, <1>11, <3>1, <3>2, <3>3
    <3>5. /\ Shapes'
          /\ w # Absent => Tab(s)' = Table(Tab(s).num, Tab(s).ex, Tab(s).named, [Tab(s).present EXCEPT ![i] = @ \cup {f}])
          /\ w = Absent => Tab(s)' = Table(Tab(s).num, Tab(s).ex, Tab(s).named, [Tab(s).present EXCEPT ![i] = @ \ {f}])
          /\ \A u \in Sets \ {s} : Tab(u)' = Tab(u)
      BY <1>6, <3>4, FieldWritten
    <3> QED
      BY <3>1, <3>2, <3>3, <3>5
  <2> QED
    BY <1>11, <2>2 DEF TableStep
<1> QED
  BY <1>1, <1>7, <1>8, <1>9, <1>10, <1>11

(* A key that is deleted is there.                                         *)
LEMMA DeletedIsThere ==
  ASSUME Sound, NEW c \in Clis, db_delete_field(c)
  PROVE  field[Head(todo[c]).s][Head(todo[c]).id][Head(todo[c]).f] # Absent
<1> DEFINE t == Head(todo[c])
<1>1. todo[c] # <<>> /\ t.do = "delfield" /\ t.do \notin Branches
  BY DEF db_delete_field, Running, Branches
<1>2. t.do \in Guarded \ {"uninit", "global"} /\ t.do \notin {"lock"} \cup Free
  BY <1>1 DEF Guarded, Free
<1>3. owner = c /\ t \in Steps
  BY <1>1, <1>2, Owned
<1>4. t.s \in Sets /\ t.id \in Ids /\ t.f \in Fields(t.s)
  BY <1>1, <1>2, <1>3, StepKinds
<1>5. PICK y \in Views : Shows(t, t.s, Seen(c, t.s), y)
  BY <1>1, <1>3, <1>4, WorksNext
<1>6. Seen(c, t.s) \in Views
  BY <1>1, <1>3, <1>4, <1>5, SeenWorks
<1>7. TableStep(t, Seen(c, t.s).tab, y.tab)
  BY <1>2, <1>3, <1>4, <1>5, <1>6, ShowsIs
<1>8. t.f \in Tab(t.s).present[t.id]
  <2>1. Seen(c, t.s).tab = Tab(t.s)
    BY <1>4, SeenIs
  <2> QED
    BY <1>1, <1>7, <2>1 DEF TableStep
<1>9. Tab(t.s).present = PresentNow(t.s)
  BY <1>4, TabIs DEF Sound, Data
<1> HIDE DEF t
<1>10. PresentNow(t.s)[t.id] = {f \in Fields(t.s) : field[t.s][t.id][f] # Absent}
  BY <1>4 DEF PresentNow
<1>11. field[t.s][t.id][t.f] # Absent
  BY <1>8, <1>9, <1>10
<1> QED
  BY <1>11 DEF t

(* Every write of the database keeps the invariant.                        *)
LEMMA WriteData ==
  ASSUME Sound, NEW c \in Clis,
         \/ db_set_filter_rule_num(c) \/ db_insert_flag(c) \/ db_insert_field(c)
         \/ db_delete_flag(c) \/ db_delete_field(c)
  PROVE  Data'
BY WrittenData, DeletedIsThere

-----------------------------------------------------------------------------
(* The actions.                                                            *)

(* A step that leaves the database alone.                                  *)
LEMMA DatabaseKept ==
  ASSUME UNCHANGED dbvars
  PROVE  /\ (Shapes => Shapes') /\ (Settled => Settled') /\ (Fresh => Fresh') /\ inited' = inited
         /\ \A s \in Sets : Tab(s)' = Tab(s) /\ Existing(s)' = Existing(s)
<1>1. num' = num /\ flag' = flag /\ field' = field /\ inited' = inited
  BY DEF dbvars
<1>2. \A s \in Sets : Tab(s)' = Tab(s) /\ Existing(s)' = Existing(s)
  BY <1>1 DEF Tab, Existing, NamedNow, PresentNow, Exists
<1>3. Shapes => Shapes'
  BY <1>1 DEF Shapes, Exists
<1>4. (Settled => Settled') /\ (Fresh => Fresh')
  BY <1>1, <1>2 DEF Settled, Fresh
<1> QED
  BY <1>1, <1>2, <1>3, <1>4

(* A step of a cli that has not the lock.                                  *)
LEMMA FreeStep ==
  ASSUME Sound, NEW c \in Clis, owner # c, inited, todo[c] # <<>>, Waiting(Rest(c)),
         todo' = [todo EXCEPT ![c] = Rest(c)],
         UNCHANGED <<owner, db_lock, dbvars>>, \A d \in Clis \ {c} : up'[d] = up[d]
  PROVE  Data'
<1>1. UNCHANGED dbvars
  OBVIOUS
<1>2. Shapes' /\ inited' = inited /\ (owner' = NoCli => Settled' \/ Fresh')
  BY <1>1, DatabaseKept DEF Sound, Data
<1>3. todo'[c] = Rest(c) /\ \A d \in Clis \ {c} : todo'[d] = todo[d]
  BY DEF Sound, Types
<1>4. Placed(c)'
  BY <1>2, <1>3 DEF Placed, Waits
<1>5. ASSUME NEW d \in Clis, d # c PROVE Placed(d)'
  <2>1. up'[d] = up[d]
    BY <1>5
  <2> QED
    BY <1>1, <1>3, <1>5, <2>1, OthersPlaced DEF Sound
<1> QED
  BY <1>2, <1>4, <1>5 DEF Data

(* A step of its owner that changes nothing of what Seen shows.            *)
LEMMA OwnStep ==
  ASSUME Sound, NEW c \in Clis, owner = c, todo[c] # <<>>, Head(todo[c]).do \in {"reg", "cam", "global"},
         todo' = [todo EXCEPT ![c] = Rest(c)],
         UNCHANGED <<owner, up, db_lock, dbvars>>
  PROVE  Data'
<1>1. UNCHANGED dbvars
  OBVIOUS
<1>2. Shapes' /\ inited' = inited /\ \A s \in Sets : Tab(s)' = Tab(s)
  BY <1>1, DatabaseKept DEF Sound, Data
<1>3. Head(todo[c]).do \notin Branches /\ Head(todo[c]) \in Steps
  BY Taker DEF Branches
<1>4. ASSUME NEW s \in Sets, NEW y \in Views, Shows(Head(todo[c]), s, Seen(c, s), y) PROVE Seen(c, s)' = y
  <2>1. Seen(c, s)' = Seen(c, s)
    BY <1>2 DEF Seen
  <2>2. Seen(c, s) \in Views
    BY <1>3, <1>4, SeenWorks
  <2>3. y = Seen(c, s)
    BY <1>3, <1>4, <2>2, ShowsIs
  <2> QED
    BY <2>1, <2>3
<1>5. owner' = owner /\ up' = up /\ \A d \in Clis \ {c} : db_lock'[d] = db_lock[d]
  OBVIOUS
<1> QED
  BY <1>2, <1>3, <1>4, <1>5, Onward

(* Register writes, the CAM commands and the settings.                     *)
LEMMA DeviceData ==
  ASSUME Sound, NEW c \in Clis, reg_write(c) \/ cam_command(c) \/ save_global_config(c)
  PROVE  Data'
<1>1. /\ todo[c] # <<>> /\ Head(todo[c]).do \in {"reg", "cam", "global"}
      /\ todo' = [todo EXCEPT ![c] = Rest(c)] /\ UNCHANGED <<owner, up, db_lock, dbvars>>
  BY DEF reg_write, cam_command, save_global_config, Running, Wrote, Read, Become
<1>2. CASE owner = c
  BY <1>1, <1>2, OwnStep
<1>3. CASE owner # c
  <2>1. inited /\ Waiting(Rest(c))
    <3>1. Head(todo[c]) # Lock
      BY <1>1 DEF Lock
    <3> QED
      BY <1>1, <1>3, <3>1, Taker
  <2> QED
    BY <1>1, <1>3, <2>1, FreeStep
<1> QED
  BY <1>2, <1>3

(* The end of a start.                                                     *)
LEMMA SignalsData ==
  ASSUME Sound, NEW c \in Clis, capture_signals(c)
  PROVE  Data'
<1>1. /\ todo[c] # <<>> /\ Head(todo[c]).do = "signals" /\ up' = [up EXCEPT ![c] = "on"]
      /\ todo' = [todo EXCEPT ![c] = Rest(c)] /\ UNCHANGED <<owner, db_lock, dbvars>>
  BY DEF capture_signals, Running, Become
<1>2. owner # c
  BY <1>1, Taker
<1>3. inited /\ Waiting(Rest(c))
  <2>1. Head(todo[c]) # Lock
    BY <1>1 DEF Lock
  <2> QED
    BY <1>1, <1>2, <2>1, Taker
<1>4. \A d \in Clis \ {c} : up'[d] = up[d]
  BY <1>1 DEF Sound, Types
<1> QED
  BY <1>1, <1>2, <1>3, <1>4, FreeStep

(* The marks of the initialisation.                                        *)
LEMMA MarkData ==
  ASSUME Sound, NEW c \in Clis, db_mark_uninitialized(c) \/ db_set_initialized(c)
  PROVE  Data'
<1> DEFINE t == Head(todo[c])
<1>1. /\ todo[c] # <<>> /\ t.do \in {"uninit", "init"}
      /\ todo' = [todo EXCEPT ![c] = Rest(c)] /\ UNCHANGED <<owner, up, db_lock, num, flag, field>>
      /\ inited' \in BOOLEAN /\ (inited' <=> t.do = "init")
  BY DEF db_mark_uninitialized, db_set_initialized, Running, Wrote, Become
<1>2. owner = c /\ t \in Steps /\ t.do \notin Branches
  BY <1>1, Owned DEF Free, Branches
<1>3. \A s \in Sets : Tab(s)' = Tab(s)
  BY <1>1 DEF Tab, Existing, NamedNow, PresentNow, Exists
<1>4. Shapes'
  BY <1>1 DEF Sound, Data, Shapes, Exists
<1> HIDE DEF t
<1>5. ASSUME NEW s \in Sets, NEW y \in Views, Shows(t, s, Seen(c, s), y) PROVE Seen(c, s)' = y
  <2>1. Seen(c, s) \in Views
    BY <1>1, <1>2, <1>5, SeenWorks DEF t
  <2>2. Seen(c, s)' = View(db_lock[c], inited', Tab(s))
    BY <1>1, <1>3 DEF Seen
  <2>3. /\ Seen(c, s).depth = db_lock[c] /\ Seen(c, s).inited = inited /\ Seen(c, s).tab = Tab(s)
        /\ Seen(c, s) = View(db_lock[c], inited, Tab(s)) /\ inited \in BOOLEAN
    BY SeenIs
  <2>4. CASE t.do = "uninit"
    <3>1. ~Seen(c, s).inited /\ y = Seen(c, s)
      BY <1>2, <1>5, <2>1, <2>4, ShowsIs
    <3>2. inited' = inited
      BY <1>1, <2>3, <2>4, <3>1
    <3> QED
      BY <2>2, <2>3, <3>1, <3>2
  <2>5. CASE t.do = "init"
    <3>1. y.inited /\ y = View(Seen(c, s).depth, y.inited, Seen(c, s).tab)
      BY <1>2, <1>5, <2>1, <2>5, ShowsIs
    <3>2. y.inited \in BOOLEAN
      BY ViewsAre
    <3>3. inited' = y.inited
      BY <1>1, <2>5, <3>1, <3>2
    <3> QED
      BY <2>2, <2>3, <3>1, <3>3
  <2> QED
    BY <1>1, <2>4, <2>5
<1>6. inited => inited'
  <2>1. PICK s0 \in Sets : TRUE
    BY RuleAssumption
  <2>2. PICK y \in Views : Shows(t, s0, Seen(c, s0), y)
    BY <1>1, <1>2, WorksNext DEF t
  <2>3. Seen(c, s0) \in Views
    BY <1>1, <1>2, <2>2, SeenWorks DEF t
  <2>4. t.do = "uninit" => ~Seen(c, s0).inited
    BY <1>2, <2>2, <2>3, ShowsIs
  <2>5. Seen(c, s0).inited = inited
    BY SeenIs
  <2> QED
    BY <1>1, <2>4, <2>5
<1>7. owner' = owner /\ up' = up /\ \A d \in Clis \ {c} : db_lock'[d] = db_lock[d]
  BY <1>1
<1> QED
  BY <1>1, <1>2, <1>4, <1>5, <1>6, <1>7, Onward DEF t

(* What the owner of the lock finds in the database: the step that it      *)
(* takes on a set can be taken on its table.                               *)
LEMMA OwnTable ==
  ASSUME Sound, NEW c \in Clis, todo[c] # <<>>, Head(todo[c]).do \in Guarded \ {"uninit", "global"}
  PROVE  /\ owner = c /\ Head(todo[c]).s \in Sets /\ Head(todo[c]) \in StepsOf(Head(todo[c]).s)
         /\ \E b \in Tables : TableStep(Head(todo[c]), Tab(Head(todo[c]).s), b)
<1> DEFINE t == Head(todo[c])
<1>1. t.do \notin Branches /\ t.do \notin {"lock"} \cup Free
  BY DEF Guarded, Branches, Free
<1>2. owner = c /\ t \in Steps
  BY <1>1, Owned
<1> HIDE DEF t
<1>3. t.s \in Sets
  BY <1>2, StepKinds DEF t
<1>4. PICK y \in Views : Shows(t, t.s, Seen(c, t.s), y)
  BY <1>1, <1>2, <1>3, WorksNext DEF t
<1>5. Seen(c, t.s) \in Views
  BY <1>1, <1>2, <1>3, <1>4, SeenWorks DEF t
<1>6. t \in StepsOf(t.s) /\ TableStep(t, Seen(c, t.s).tab, y.tab)
  BY <1>2, <1>3, <1>4, <1>5, ShowsIs DEF t
<1>7. Seen(c, t.s).tab = Tab(t.s) /\ y.tab \in Tables
  BY <1>3, SeenIs, ViewsAre
<1> QED
  BY <1>2, <1>3, <1>6, <1>7 DEF t

(* A read of the table of a set that goes on with steps on it.             *)
LEMMA TableRead ==
  ASSUME Sound, NEW c \in Clis, todo[c] # <<>>, Head(todo[c]).do \in Guarded \ {"uninit", "global"},
         NEW p \in Seq(Steps), Read(c, p \o Rest(c)),
         NEW v \in Sets, v = Head(todo[c]).s,
         \A b \in Tables : TableStep(Head(todo[c]), Tab(v), b) => TableRuns(p, v, Tab(v), b)
  PROVE  Data'
<1> DEFINE t == Head(todo[c])
<1>0. t.do \notin Branches
  BY DEF Guarded, Branches
<1>1. owner = c /\ t \in Steps
  BY OwnTable, Taker
<1>2. todo' = [todo EXCEPT ![c] = p \o Rest(c)] /\ UNCHANGED <<owner, db_lock, up, dbvars>>
  BY DEF Read, Become
<1>3. UNCHANGED dbvars
  BY <1>2
<1>4. Shapes' /\ inited' = inited /\ \A s \in Sets : Tab(s)' = Tab(s)
  BY <1>3, DatabaseKept DEF Sound, Data
<1>5. PICK b0 \in Tables : TableRuns(p, v, Tab(v), b0)
  BY OwnTable
<1> HIDE DEF t
<1>6. ASSUME NEW s \in Sets, NEW y \in Views, Shows(t, s, Seen(c, s), y)
      PROVE  ViewRuns(p, s, Seen(c, s)', y)
  <2>1. Seen(c, s) \in Views /\ db_lock[c] \in 1 .. 2
    BY <1>0, <1>1, <1>6, SeenWorks DEF t
  <2>2. IF t.s = s THEN t \in StepsOf(s) /\ TableStep(t, Seen(c, s).tab, y.tab)
                        /\ y = View(Seen(c, s).depth, Seen(c, s).inited, y.tab)
        ELSE y = Seen(c, s)
    BY <1>1, <1>6, <2>1, ShowsIs DEF t
  <2>3. Seen(c, s).depth = db_lock[c] /\ Seen(c, s).tab = Tab(s) /\ Seen(c, s) = View(db_lock[c], inited, Tab(s))
    BY SeenIs
  <2>i. Seen(c, s).inited = inited /\ inited \in BOOLEAN
    BY SeenIs
  <2>4. Seen(c, s)' = Seen(c, s)
    BY <1>2, <1>4 DEF Seen
  <2>5. CASE t.s = s
    <3>1. TableStep(t, Tab(s), y.tab) /\ y.tab \in Tables
      BY <2>2, <2>3, <2>5, ViewsAre
    <3>2. s = v
      BY <2>5 DEF t
    <3>3. TableRuns(p, s, Tab(s), y.tab)
      BY <3>1, <3>2 DEF t
    <3>4. ViewRuns(p, s, View(db_lock[c], inited, Tab(s)), View(db_lock[c], inited, y.tab))
      BY <2>1, <2>i, <3>3, Lifted
    <3>5. y = View(db_lock[c], inited, y.tab)
      BY <2>2, <2>3, <2>5, <2>i
    <3> QED
      BY <2>3, <2>4, <3>4, <3>5
  <2>6. CASE t.s # s
    <3>1. p \in Seq(Aside(s))
      BY <1>5, <2>6, OtherSet DEF t
    <3>2. Seen(c, s).depth > 0
      BY <2>1, <2>3
    <3>3. ViewRuns(p, s, Seen(c, s), Seen(c, s))
      BY <2>1, <3>1, <3>2, Stays
    <3> QED
      BY <2>2, <2>4, <2>6, <3>3
  <2> QED
    BY <2>5, <2>6
<1>7. owner' = owner /\ up' = up /\ \A d \in Clis \ {c} : db_lock'[d] = db_lock[d]
  BY <1>2
<1> QED
  BY <1>0, <1>1, <1>2, <1>4, <1>6, <1>7, WorkOn DEF t

(* The loops over the rules begin.                                         *)
LEMMA StartScanData ==
  ASSUME Sound, NEW c \in Clis, StartScan(c)
  PROVE  Data'
<1> DEFINE t == Head(todo[c])
<1>1. todo[c] # <<>> /\ t.do = "count"
  BY DEF StartScan, Running
<1>2. t.do \in Guarded \ {"uninit", "global"}
  BY <1>1 DEF Guarded
<1>3. t.s \in Sets /\ t \in Steps
  BY <1>1, <1>2, OwnTable, Taker
<1> HIDE DEF t
<1>v. PICK v \in Sets : v = t.s
  BY <1>3
<1>m. PICK m \in {"reset", "save"} : m = t.mode
  BY <1>1, <1>3, StepKinds
<1>4. PICK b \in Tables : TableStep(t, Tab(v), b)
  BY <1>1, <1>2, <1>v, OwnTable DEF t
<1>5. Right(Tab(v)) /\ Tab(v) \in Tables /\ Tab(v).num = num[v]
  BY <1>1, <1>4, TabIs DEF TableStep, Sound, Data
<1>6. TableRuns(<<Scan(m, v, 0, 0, num[v])>>, v, Tab(v), Walked(m, Tab(v))) /\ num[v] \in Count32
  BY <1>5, CountPlan
<1>7. num[v] # Absent
  BY <1>6, NotAbsent
<1> DEFINE p == <<Scan(m, v, 0, 0, num[v])>>
<1>8. Read(c, p \o Rest(c))
  BY <1>7, <1>v, <1>m DEF StartScan, t
<1>9. p \in Seq(Steps)
  <2>1. 0 \in 0 .. MaxRule /\ 0 \in Nat
    BY Numbers
  <2>2. Scan(m, v, 0, 0, num[v]) \in Steps
    BY <1>6, <2>1, RuleSteps
  <2> QED
    BY <2>2
<1>10. TableRuns(p, v, Tab(v), Walked(m, Tab(v)))
  BY <1>6
<1> HIDE DEF p
<1>11. \A a \in Tables : TableStep(t, Tab(v), a) => TableRuns(p, v, Tab(v), a)
  BY <1>1, <1>m, <1>10 DEF TableStep
<1> QED
  BY <1>1, <1>2, <1>8, <1>9, <1>11, <1>v, TableRead DEF t

(* They go on, or end.                                                     *)
LEMMA ScanStepData ==
  ASSUME Sound, NEW c \in Clis, ScanStep(c)
  PROVE  Data'
<1> DEFINE t == Head(todo[c])
<1>1. todo[c] # <<>> /\ t.do = "scan"
  BY DEF ScanStep, Running
<1>2. t.do \in Guarded \ {"uninit", "global"}
  BY <1>1 DEF Guarded
<1>3. t.s \in Sets /\ t \in Steps /\ t \in StepsOf(t.s)
  BY <1>1, <1>2, OwnTable, Taker
<1>r. Rest(c) \in Seq(Steps)
  BY <1>1 DEF Rest, Sound, Types
<1> DEFINE next == IF t.id < MaxRule THEN t.id + 1 ELSE t.id
           found == t.id < MaxRule /\ Exists(t.s, t.id)
           on(k) == <<Scan(t.mode, t.s, next, k, t.number)>> \o Rest(c)
<1>s. \/ /\ t.matched >= t.number
         /\ Read(c, IF t.mode = "reset" THEN <<SetNum(t.s, 0)>> \o Rest(c) ELSE Rest(c))
      \/ /\ t.matched < t.number /\ ~found
         /\ Read(c, on(t.matched))
      \/ /\ t.matched < t.number /\ found /\ t.mode = "reset"
         /\ Read(c, db_delete_filter_rule(t.s, t.id) \o on(t.matched + 1))
      \/ /\ t.matched < t.number /\ found /\ t.mode = "save"
         /\ Read(c, IF Whole(t.s, t.id) THEN on(t.matched + 1) ELSE Recover(Rest(c)))
  BY DEF ScanStep
<1>4. \E b \in Tables : TableStep(t, Tab(t.s), b)
  BY <1>1, <1>2, OwnTable
<1>w. \A q \in Seq(Steps) : Read(c, q \o Rest(c)) /\ TableRuns(q, t.s, Tab(t.s), Walked(t.mode, Tab(t.s))) => Data'
  <2> SUFFICES ASSUME NEW q \in Seq(Steps), Read(c, q \o Rest(c)),
                      TableRuns(q, t.s, Tab(t.s), Walked(t.mode, Tab(t.s)))
               PROVE  Data'
    OBVIOUS
  <2>1. \A a \in Tables : TableStep(t, Tab(t.s), a) => TableRuns(q, t.s, Tab(t.s), a)
    BY <1>1 DEF TableStep
  <2> HIDE DEF t
  <2>2. PICK v \in Sets : v = t.s
    BY <1>3
  <2> QED
    BY <1>1, <1>2, <2>1, <2>2, TableRead DEF t
<1> HIDE DEF t
<1>v. PICK v \in Sets : v = t.s
  BY <1>3
<1>5. Ahead(t, Tab(v))
  BY <1>1, <1>4, <1>v DEF TableStep
<1>6. /\ t.id \in 0 .. MaxRule /\ t.matched \in Nat /\ t.number \in Count32 /\ t.mode \in {"reset", "save"}
  BY <1>1, <1>3, StepKinds
<1>7. Shapes /\ Tab(v) \in Tables
  BY TabIs DEF Sound, Data
<1> DEFINE a == Tab(v)
<1>8. /\ a.ex = Existing(v) /\ EveryWhole(a)
      /\ \A id \in Ids : /\ id \in a.ex <=> Exists(v, id)
                         /\ Exists(v, id) => a.named[id] = flag[v][id]
                         /\ a.named[id] \subseteq Fields(v)
  BY <1>5, <1>7, TabIs DEF Ahead
<1>9. ASSUME t.matched >= t.number PROVE Data'
  <2>1. /\ t.mode = "reset" => TableRuns(<<SetNum(v, 0)>>, v, Tab(v), Walked(t.mode, Tab(v)))
        /\ t.mode = "save" => Walked(t.mode, Tab(v)) = Tab(v)
    BY <1>1, <1>3, <1>5, <1>7, <1>9, <1>v, ScanPlan
  <2>0. ~(t.matched < t.number)
    BY <1>6, <1>9, Numbers DEF Count32
  <2>i. Read(c, IF t.mode = "reset" THEN <<SetNum(t.s, 0)>> \o Rest(c) ELSE Rest(c))
    BY <1>s, <2>0, Zenon
  <2>2. CASE t.mode = "reset"
    <3>1. <<SetNum(v, 0)>> \in Seq(Steps)
      <4>1. 0 \in Count32
        BY Numbers DEF Count32
      <4>2. SetNum(v, 0) \in Steps
        BY <4>1, RuleSteps
      <4> QED
        BY <4>2
    <3>2. Read(c, <<SetNum(v, 0)>> \o Rest(c))
      BY <1>v, <2>2, <2>i
    <3> QED
      BY <1>v, <1>w, <2>1, <2>2, <3>1, <3>2
  <2>3. CASE t.mode = "save"
    <3> DEFINE q == <<>>
    <3>1. q \in Seq(Steps) /\ q \o Rest(c) = Rest(c)
      BY <1>r
    <3>2. Read(c, Rest(c))
      BY <2>3, <2>i
    <3>3. TableRuns(q, v, Tab(v), Walked(t.mode, Tab(v)))
      BY <1>7, <2>1, <2>3, RunsEmpty DEF TableRuns
    <3> HIDE DEF q
    <3>4. Read(c, q \o Rest(c))
      BY <3>1, <3>2
    <3> QED
      BY <1>v, <1>w, <3>1, <3>3, <3>4
  <2> QED
    BY <1>6, <2>2, <2>3
<1>10. ASSUME t.matched < t.number PROVE Data'
  <2>1. t.id \in Ids
    BY <1>1, <1>3, <1>5, <1>7, <1>10, <1>v, ScanPlan
  <2>2. next = t.id + 1 /\ t.id < MaxRule /\ next \in 0 .. MaxRule
    BY <2>1, Numbers DEF Ids
  <2>3. \A k \in Nat : <<Scan(t.mode, v, t.id + 1, k, t.number)>> \in Seq(Steps)
    <3>1. \A k \in Nat : Scan(t.mode, v, t.id + 1, k, t.number) \in Steps
      BY <1>6, <2>2, RuleSteps
    <3> QED
      BY <3>1
  <2>4. \A k : on(k) = <<Scan(t.mode, v, t.id + 1, k, t.number)>> \o Rest(c)
    BY <1>v, <2>2
  <2>5. found <=> t.id \in a.ex
    BY <1>8, <1>v, <2>1, <2>2
  <2> HIDE DEF next, on, found, a
  <2>6. CASE t.id \notin a.ex
    <3>1. TableRuns(<<Scan(t.mode, v, t.id + 1, t.matched, t.number)>>, v, Tab(v), Walked(t.mode, Tab(v)))
      BY <1>1, <1>3, <1>5, <1>7, <1>10, <1>v, <2>6, ScanPlan DEF a
    <3>2. Read(c, on(t.matched))
      BY <1>6, <1>10, <1>s, <2>5, <2>6, Numbers DEF Count32
    <3>3. Read(c, <<Scan(t.mode, v, t.id + 1, t.matched, t.number)>> \o Rest(c))
      BY <2>4, <3>2
    <3> QED
      BY <1>6, <1>v, <1>w, <2>3, <3>1, <3>3
  <2>k. t.matched + 1 \in Nat
    BY <1>6
  <2>7. CASE t.id \in a.ex /\ t.mode = "save"
    <3>1. TableRuns(<<Scan(t.mode, v, t.id + 1, t.matched + 1, t.number)>>, v, Tab(v), Walked(t.mode, Tab(v)))
      BY <1>1, <1>3, <1>5, <1>7, <1>10, <1>v, <2>7, ScanPlan DEF a
    <3>2. Whole(v, t.id)
      BY <1>7, <1>8, <2>1, <2>7, WholeRules DEF a
    <3>3. Read(c, on(t.matched + 1))
      BY <1>6, <1>10, <1>s, <1>v, <2>5, <2>7, <3>2, Numbers DEF Count32
    <3>4. Read(c, <<Scan(t.mode, v, t.id + 1, t.matched + 1, t.number)>> \o Rest(c))
      BY <2>4, <3>3
    <3> QED
      BY <1>v, <1>w, <2>3, <2>k, <3>1, <3>4
  <2>8. CASE t.id \in a.ex /\ t.mode = "reset"
    <3>0. flag[v][t.id] = Tab(v).named[t.id] /\ Tab(v).named[t.id] \subseteq Fields(v)
      BY <1>8, <2>1, <2>8 DEF a
    <3> DEFINE d == db_delete_filter_rule(v, t.id)
               e == <<Scan(t.mode, v, t.id + 1, t.matched + 1, t.number)>>
    <3>1. TableRuns(d \o e, v, Tab(v), Walked(t.mode, Tab(v)))
      BY <1>1, <1>3, <1>5, <1>7, <1>10, <1>v, <2>8, <3>0, ScanPlan DEF a
    <3>2. d \in Seq(Steps) /\ e \in Seq(Steps)
      BY <2>1, <2>3, <2>k, DeleteHeld, Sub
    <3>3. Read(c, d \o on(t.matched + 1))
      BY <1>6, <1>10, <1>s, <1>v, <2>5, <2>8, Numbers DEF Count32
    <3>4. Read(c, d \o (e \o Rest(c)))
      BY <2>4, <3>3
    <3> HIDE DEF d, e
    <3>5. d \o (e \o Rest(c)) = (d \o e) \o Rest(c) /\ d \o e \in Seq(Steps)
      BY <1>r, <3>2
    <3>6. Read(c, (d \o e) \o Rest(c))
      BY <3>4, <3>5
    <3> QED
      BY <1>v, <1>w, <3>1, <3>5, <3>6
  <2> QED
    BY <1>6, <2>6, <2>7, <2>8
<1> QED
  BY <1>6, <1>9, <1>10 DEF Count32

(* The lock is taken: a command that waited works on what it finds.        *)
LEMMA TakenData ==
  ASSUME Sound, NEW c \in Clis, owner = NoCli, owner' = c, todo[c] # <<>>, Head(todo[c]).do = "lock",
         db_lock[c] = 0, db_lock' = [db_lock EXCEPT ![c] = 1], todo' = [todo EXCEPT ![c] = Rest(c)],
         UNCHANGED <<up, dbvars>>
  PROVE  Data'
<1>0. NoCli # c
  BY Numbers
<1>1. UNCHANGED dbvars
  OBVIOUS
<1>2. /\ Shapes' /\ inited' = inited /\ (Settled => Settled') /\ (Fresh => Fresh')
      /\ \A s \in Sets : Tab(s)' = Tab(s)
  BY <1>1, DatabaseKept DEF Sound, Data
<1>3. /\ todo'[c] = Rest(c) /\ \A d \in Clis \ {c} : todo'[d] = todo[d]
      /\ db_lock'[c] = 1 /\ \A d \in Clis \ {c} : db_lock'[d] = db_lock[d]
  BY DEF Sound, Types
<1>4. Settled \/ Fresh
  BY DEF Sound, Data
<1>5. inited => Settled
  BY <1>4 DEF Fresh
<1>6. todo[c] = <<Lock, Plain("startup")>> \/ (inited /\ Waiting(todo[c]))
  BY <1>0 DEF Sound, Data, Placed, Waits
<1>7. ASSUME NEW t \in Steps, todo[c] = <<Lock, t>>, t.do \in Branches, Settled' \/ (Fresh' /\ t.do = "startup")
      PROVE  Works(c)'
  <2>1. todo'[c] = <<t>>
    BY <1>3, <1>7 DEF Rest
  <2> QED
    BY <1>7, <2>1 DEF Works
<1>8. ASSUME todo[c] = <<Lock, Plain("startup")>> PROVE Works(c)'
  <2>1. Plain("startup") \in Steps
    BY PlainSteps
  <2>2. Plain("startup").do = "startup" /\ "startup" \in Branches
    BY DEF Plain, Branches
  <2> QED
    BY <1>2, <1>4, <1>7, <1>8, <2>1, <2>2
<1>s. ASSUME NEW s \in Sets, inited
      PROVE  Seen(c, s)' = View(1, inited, Tab(s)) /\ Right(Tab(s)) /\ Tab(s) \in Tables /\ inited \in BOOLEAN
  <2>1. Seen(c, s)' = View(1, inited, Tab(s))
    BY <1>2, <1>3 DEF Seen
  <2> QED
    BY <1>5, <1>s, <2>1, SeenIs DEF Settled
<1>w. ASSUME NEW a \in Seq(Steps), Rest(c) = a, \A s \in Sets : Ends(a, s, Seen(c, s)') PROVE Works(c)'
  <2>1. todo'[c] = a \o <<>> /\ <<>> \in Seq(Steps)
    BY <1>3, <1>w
  <2>2. \A s \in Sets : Ends(a, s, Seen(c, s))'
    BY <1>w DEF Ends
  <2> QED
    BY <2>1, <2>2, WaitingAre DEF Works
<1>b. Body \in Seq(Steps) /\ SaveBody \in Seq(Steps) /\ <<Unlock>> \in Seq(Steps) /\ Lock \in Steps
      /\ <<Plain("global"), Unlock>> \in Seq(Steps)
  BY BodiesHeld, Sub, PlainSteps
<1>t. \A x, y \in Seq(Steps) : Tail(<<Lock>> \o x \o y) = x \o y
  <2>1. \A x, y \in Seq(Steps) : <<Lock>> \o x \o y = <<Lock>> \o (x \o y) /\ x \o y \in Seq(Steps)
    BY <1>b
  <2>2. \A x \in Seq(Steps) : Tail(<<Lock>> \o x) = x
    BY <1>b
  <2> QED
    BY <2>1, <2>2
<1>9. ASSUME inited /\ todo[c] = cli_reset_default_config PROVE Works(c)'
  <2> DEFINE a == Body \o <<Unlock>>
  <2>1. Rest(c) = a /\ a \in Seq(Steps)
    BY <1>9, <1>b, <1>t, Plans DEF Rest
  <2>2. ASSUME NEW s \in Sets PROVE Ends(a, s, Seen(c, s)')
    <3>1. Right(Tab(s)) /\ Tab(s) \in Tables /\ inited \in BOOLEAN /\ Seen(c, s)' = View(1, inited, Tab(s))
      BY <1>9, <1>s
    <3>2. ViewRuns(a, s, View(1, inited, Tab(s)), View(0, inited, Emptied(Tab(s))))
      BY <3>1, ResetViews
    <3>3. Emptied(Tab(s)) \in Tables /\ Right(Emptied(Tab(s)))
      BY <3>1, EmptiedIs
    <3> DEFINE z == View(0, inited, Emptied(Tab(s)))
    <3>4. z \in Views /\ z.depth = 0 /\ (z.inited <=> inited) /\ z.tab = Emptied(Tab(s))
      <4>1. 0 \in 0 .. 2
        OBVIOUS
      <4>2. z \in Views
        BY <3>1, <3>3, <4>1, ViewsAre
      <4>3. z.depth = 0 /\ z.tab = Emptied(Tab(s))
        BY ViewsAre
      <4>4. z.inited = inited
        BY DEF View
      <4> QED
        BY <4>2, <4>3, <4>4
    <3>5. ViewRuns(a, s, Seen(c, s)', z) /\ Right(z.tab) /\ z.inited
      BY <1>9, <3>1, <3>2, <3>3, <3>4
    <3> HIDE DEF z, a
    <3> QED
      BY <3>4, <3>5 DEF Ends
  <2> HIDE DEF a
  <2> QED
    BY <1>w, <2>1, <2>2
<1>10. ASSUME inited /\ todo[c] = cli_save_config PROVE Works(c)'
  <2> DEFINE a == SaveBody \o <<Plain("global"), Unlock>>
  <2>1. Rest(c) = a /\ a \in Seq(Steps)
    BY <1>10, <1>b, <1>t, Plans, SMTT(30) DEF Rest
  <2>2. ASSUME NEW s \in Sets PROVE Ends(a, s, Seen(c, s)')
    <3>1. Right(Tab(s)) /\ Tab(s) \in Tables /\ inited \in BOOLEAN /\ Seen(c, s)' = View(1, inited, Tab(s))
      BY <1>10, <1>s
    <3>2. ViewRuns(a, s, View(1, inited, Tab(s)), View(0, inited, Tab(s)))
      BY <3>1, SaveViews
    <3> DEFINE z == View(0, inited, Tab(s))
    <3>4. z \in Views /\ z.depth = 0 /\ (z.inited <=> inited) /\ z.tab = Tab(s)
      <4>1. 0 \in 0 .. 2
        OBVIOUS
      <4>2. z \in Views
        BY <3>1, <4>1, ViewsAre
      <4>3. z.depth = 0 /\ z.tab = Tab(s)
        BY ViewsAre
      <4>4. z.inited = inited
        BY DEF View
      <4> QED
        BY <4>2, <4>3, <4>4
    <3>5. ViewRuns(a, s, Seen(c, s)', z) /\ Right(z.tab) /\ z.inited
      BY <1>10, <3>1, <3>2, <3>4
    <3> HIDE DEF z, a
    <3> QED
      BY <3>4, <3>5 DEF Ends
  <2> HIDE DEF a
  <2> QED
    BY <1>w, <2>1, <2>2
<1>11. ASSUME inited /\ \E t \in Steps : t.do \in Calls /\ todo[c] = <<Lock, t>> PROVE Works(c)'
  <2>1. PICK t \in Steps : t.do \in Calls /\ todo[c] = <<Lock, t>>
    BY <1>11
  <2>2. t.do \in Branches
    BY <2>1 DEF Calls, Branches
  <2> QED
    BY <1>2, <1>5, <1>7, <1>11, <2>1, <2>2
<1>12. Works(c)'
  <2>1. CASE inited /\ Waiting(todo[c])
    <3>1. Head(todo[c]).do \notin Free
      BY DEF Free
    <3>2. \/ todo[c] = cli_reset_default_config
          \/ todo[c] = cli_save_config
          \/ \E t \in Steps : t.do \in Calls /\ todo[c] = <<Lock, t>>
      BY <2>1, <3>1, WaitingIs
    <3> QED
      BY <1>9, <1>10, <1>11, <2>1, <3>2
  <2> QED
    BY <1>6, <1>8, <2>1
<1>13. Placed(c)'
  BY <1>2, <1>12 DEF Placed, Sound, Data
<1>14. ASSUME NEW d \in Clis, d # c PROVE Placed(d)'
  <2>1. up'[d] = up[d]
    OBVIOUS
  <2> QED
    BY <1>1, <1>3, <1>14, <2>1, OthersPlaced DEF Sound
<1> QED
  BY <1>0, <1>2, <1>13, <1>14 DEF Data

(* What the order of locks says of their count.                            *)
LEMMA LockedOnce ==
  ASSUME Sound, NEW c \in Clis, todo[c] # <<>>
  PROVE  /\ owner # c => db_lock[c] = 0
         /\ owner = c => db_lock[c] > 0
         /\ db_lock[c] \in Nat
<1>1. db_lock[c] \in Nat
  BY Numbers DEF Sound, Types, Count32
<1>2. owner = c <=> db_lock[c] > 0
  BY DEF Sound, Order, Orderly
<1> QED
  BY <1>1, <1>2

(* Taking the lock, or nesting it, keeps the invariant.                    *)
LEMMA LockData ==
  ASSUME Sound, NEW c \in Clis, cli_db_lock(c)
  PROVE  Data'
<1>1. /\ todo[c] # <<>> /\ Head(todo[c]).do = "lock"
      /\ IF db_lock[c] = 0 THEN owner = NoCli /\ owner' = c ELSE owner' = owner
      /\ db_lock' = [db_lock EXCEPT ![c] = (db_lock[c] + 1) % Word]
      /\ todo' = [todo EXCEPT ![c] = Rest(c)] /\ UNCHANGED <<up, dbvars>>
  BY DEF cli_db_lock, Running, Become
<1>2. /\ owner # c => db_lock[c] = 0
      /\ owner = c => db_lock[c] > 0
      /\ db_lock[c] \in Nat
  BY <1>1, LockedOnce
<1>3. CASE owner # c
  <2>1. db_lock[c] = 0 /\ (db_lock[c] + 1) % Word = 1
    BY <1>2, <1>3, Numbers
  <2> QED
    BY <1>1, <2>1, TakenData
<1>4. CASE owner = c
  <2>1. UNCHANGED dbvars /\ owner' = owner
    BY <1>1, <1>2, <1>4
  <2>2. Shapes' /\ inited' = inited /\ \A s \in Sets : Tab(s)' = Tab(s)
    BY <2>1, DatabaseKept DEF Sound, Data
  <2>3. Head(todo[c]).do \notin Branches /\ Head(todo[c]) \in Steps
    BY <1>1, Taker DEF Branches
  <2>4. /\ db_lock'[c] = (db_lock[c] + 1) % Word
        /\ \A d \in Clis \ {c} : db_lock'[d] = db_lock[d]
    BY <1>1 DEF Sound, Types
  <2>5. ASSUME NEW s \in Sets, NEW y \in Views, Shows(Head(todo[c]), s, Seen(c, s), y) PROVE Seen(c, s)' = y
    <3>1. Seen(c, s) \in Views /\ db_lock[c] \in 1 .. 2
      BY <1>1, <1>4, <2>3, <2>5, SeenWorks
    <3>2. y = View(Seen(c, s).depth + 1, Seen(c, s).inited, Seen(c, s).tab)
      BY <1>1, <2>3, <2>5, <3>1, ShowsIs
    <3>3. Seen(c, s).depth = db_lock[c] /\ Seen(c, s).inited = inited /\ Seen(c, s).tab = Tab(s)
      BY SeenIs
    <3>4. (db_lock[c] + 1) % Word = db_lock[c] + 1
      <4>1. y.depth = db_lock[c] + 1 /\ y.depth \in 0 .. 2
        BY <3>2, <3>3, ViewsAre
      <4> QED
        BY <3>1, <4>1, Numbers
    <3>5. Seen(c, s)' = View(db_lock[c] + 1, inited, Tab(s))
      BY <2>2, <2>4, <3>4 DEF Seen
    <3> QED
      BY <3>2, <3>3, <3>5
  <2>6. owner' = owner /\ up' = up /\ (inited => inited')
    BY <1>1, <2>1, <2>2
  <2> QED
    BY <1>1, <1>4, <2>2, <2>3, <2>4, <2>5, <2>6, Onward
<1> QED
  BY <1>3, <1>4

(* Without the lock nothing is left of a section.                          *)
LEMMA SectionEnds ==
  ASSUME NEW s, NEW a \in Seq(Steps), NEW y \in Views, y.depth = 0, Ends(a, s, y)
  PROVE  a = <<>> /\ y.inited /\ Right(y.tab)
<1>1. PICK z \in Views : ViewRuns(a, s, y, z) /\ z.depth = 0 /\ z.inited /\ Right(z.tab)
  BY DEF Ends
<1>2. a = <<>>
  <2> SUFFICES ASSUME a # <<>> PROVE FALSE
    OBVIOUS
  <2>1. PICK x \in Views : <<Head(a), y, x>> \in ViewMoves(s)
    BY <1>1, RunsHead DEF ViewRuns
  <2>2. y.depth > 0
    BY <2>1 DEF ViewMoves, Shows
  <2> QED
    BY <2>2
<1>3. y = z
  BY <1>1, <1>2, RunsEmpty DEF ViewRuns
<1> QED
  BY <1>1, <1>2, <1>3

(* Undoing a lock, or giving it back, keeps it.                            *)
LEMMA UnlockData ==
  ASSUME Sound, NEW c \in Clis, cli_db_unlock(c)
  PROVE  Data'
<1>1. /\ todo[c] # <<>> /\ Head(todo[c]).do = "unlock"
      /\ db_lock' = [db_lock EXCEPT ![c] = (db_lock[c] - 1) % Word]
      /\ owner' = IF db_lock'[c] = 0 /\ owner = c THEN NoCli ELSE owner
      /\ todo' = [todo EXCEPT ![c] = Rest(c)] /\ UNCHANGED <<up, dbvars>>
  BY DEF cli_db_unlock, Running, Become
<1>2. owner = c /\ Head(todo[c]) \in Steps /\ Head(todo[c]).do \notin Branches
  BY <1>1, Owned DEF Free, Branches
<1>3. UNCHANGED dbvars
  BY <1>1
<1>4. /\ Shapes' /\ inited' = inited /\ (Settled => Settled')
      /\ \A s \in Sets : Tab(s)' = Tab(s)
  BY <1>3, DatabaseKept DEF Sound, Data
<1>5. /\ todo'[c] = Rest(c) /\ \A d \in Clis \ {c} : todo'[d] = todo[d]
      /\ db_lock'[c] = (db_lock[c] - 1) % Word /\ \A d \in Clis \ {c} : db_lock'[d] = db_lock[d]
  BY <1>1 DEF Sound, Types
<1>6. PICK a, b \in Seq(Steps) :
           /\ Rest(c) = a \o b /\ Waiting(b)
           /\ \A s \in Sets : \E y \in Views : Shows(Head(todo[c]), s, Seen(c, s), y) /\ Ends(a, s, y)
  BY <1>1, <1>2, WorksNext
<1>7. ASSUME NEW s \in Sets, NEW y \in Views, Shows(Head(todo[c]), s, Seen(c, s), y)
      PROVE  y = View(db_lock[c] - 1, inited, Tab(s)) /\ db_lock[c] \in 1 .. 2
  <2>1. Seen(c, s) \in Views /\ db_lock[c] \in 1 .. 2
    BY <1>1, <1>2, <1>7, SeenWorks
  <2>2. y = View(Seen(c, s).depth - 1, Seen(c, s).inited, Seen(c, s).tab)
    BY <1>1, <1>2, <1>7, <2>1, ShowsIs
  <2>3. Seen(c, s).depth = db_lock[c] /\ Seen(c, s).inited = inited /\ Seen(c, s).tab = Tab(s)
    BY SeenIs
  <2> QED
    BY <2>1, <2>2, <2>3
<1>8. db_lock[c] \in 1 .. 2
  <2>1. PICK s0 \in Sets : TRUE
    BY RuleAssumption
  <2> QED
    BY <1>6, <1>7, <2>1
<1>9. db_lock'[c] = db_lock[c] - 1
  <2>1. db_lock[c] = 1 \/ db_lock[c] = 2
    BY <1>8
  <2>2. Word \in Nat /\ Word > 2
    BY Numbers
  <2>3. \A n \in 1 .. 2 : (n - 1) % Word = n - 1
    BY <2>2
  <2> QED
    BY <1>5, <1>8, <2>3
<1>10. CASE db_lock[c] = 2
  <2>1. owner' = owner /\ up' = up /\ (inited => inited') /\ \A d \in Clis \ {c} : db_lock'[d] = db_lock[d]
    <3>1. db_lock'[c] # 0
      BY <1>9, <1>10
    <3> QED
      BY <1>1, <1>4, <1>5, <3>1
  <2>2. \A s \in Sets : Seen(c, s)' = View(db_lock[c] - 1, inited, Tab(s))
    BY <1>4, <1>9 DEF Seen
  <2>3. ASSUME NEW s \in Sets, NEW y \in Views, Shows(Head(todo[c]), s, Seen(c, s), y) PROVE Seen(c, s)' = y
    BY <1>7, <2>2, <2>3
  <2> QED
    BY <1>1, <1>2, <1>4, <2>1, <2>3, Onward
<1>11. CASE db_lock[c] = 1
  <2>1. owner' = NoCli /\ owner' # c
    BY <1>1, <1>2, <1>9, <1>11, Numbers
  <2>2. ASSUME NEW s \in Sets PROVE a = <<>> /\ inited /\ Right(Tab(s))
    <3>1. PICK y \in Views : Shows(Head(todo[c]), s, Seen(c, s), y) /\ Ends(a, s, y)
      BY <1>6
    <3>2. y = View(0, inited, Tab(s))
      BY <1>7, <1>11, <3>1
    <3>3. y.depth = 0 /\ y.tab = Tab(s) /\ y.inited = inited
      BY <3>2, ViewsAre
    <3>4. a = <<>> /\ y.inited /\ Right(y.tab)
      BY <3>1, <3>3, SectionEnds
    <3> QED
      BY <3>3, <3>4
  <2>3. a = <<>> /\ inited
    <3>1. PICK s0 \in Sets : TRUE
      BY RuleAssumption
    <3> QED
      BY <2>2, <3>1
  <2>4. Settled
    BY <2>2, <2>3 DEF Settled
  <2>5. Rest(c) = b
    BY <1>6, <2>3
  <2>6. Waits(c)'
    BY <1>4, <1>5, <1>6, <2>3, <2>5 DEF Waits
  <2>7. Placed(c)'
    BY <1>1, <1>4, <2>1, <2>3, <2>6 DEF Placed
  <2>8. ASSUME NEW d \in Clis, d # c PROVE Placed(d)'
    <3>1. up'[d] = up[d] /\ (inited => inited')
      BY <1>1, <1>4
    <3> QED
      BY <1>2, <1>5, <2>1, <2>8, <3>1, OthersPlaced DEF Sound
  <2> QED
    BY <1>4, <2>4, <2>7, <2>8 DEF Data
<1> QED
  BY <1>8, <1>10, <1>11

(* A command at its branch, and what it finds there.                       *)
LEMMA AtBranch ==
  ASSUME Sound, NEW c \in Clis, todo[c] # <<>>, Head(todo[c]).do \in Branches
  PROVE  /\ owner = c /\ db_lock[c] = 1 /\ Head(todo[c]) \in Steps
         /\ Settled \/ (Fresh /\ Head(todo[c]).do = "startup")
<1>1. owner = c /\ db_lock[c] = 1 /\ Head(todo[c]) \in Steps
  BY Branched DEF Sound, Order
<1>2. Works(c)
  BY <1>1 DEF Sound, Data, Placed
<1>3. CASE \E t \in Steps : /\ todo[c] = <<t>> /\ t.do \in Branches
                            /\ Settled \/ (Fresh /\ t.do = "startup")
  BY <1>1, <1>3
<1>4. CASE \E a, b \in Seq(Steps) : /\ todo[c] = a \o b /\ Waiting(b)
                                    /\ \A s \in Sets : Ends(a, s, Seen(c, s))
  <2>1. PICK a, b \in Seq(Steps) : todo[c] = a \o b /\ \A s \in Sets : Ends(a, s, Seen(c, s))
    BY <1>4
  <2>2. PICK s \in Sets : TRUE
    BY RuleAssumption
  <2>3. PICK z \in Views : ViewRuns(a, s, Seen(c, s), z) /\ z.depth = 0
    BY <2>1 DEF Ends
  <2>4. Seen(c, s) \in Views /\ Seen(c, s).depth = 1
    <3>1. db_lock[c] \in 0 .. 2
      BY <1>1
    <3> QED
      BY <1>1, <3>1, SeenIs
  <2>5. a # <<>>
    <3> SUFFICES ASSUME a = <<>> PROVE FALSE
      OBVIOUS
    <3>1. Seen(c, s) = z
      BY <2>3, RunsEmpty DEF ViewRuns
    <3> QED
      BY <2>3, <2>4, <3>1
  <2>6. Head(todo[c]) = Head(a)
    BY <2>1, <2>5
  <2>7. PICK x \in Views : <<Head(a), Seen(c, s), x>> \in ViewMoves(s)
    BY <2>3, <2>5, RunsHead DEF ViewRuns
  <2>8. Shows(Head(a), s, Seen(c, s), x) /\ Head(a) \in Steps
    BY <2>7 DEF ViewMoves
  <2>9. Head(a).do \notin Branches
    BY <2>4, <2>8, ShowsIs
  <2> QED
    BY <2>6, <2>9
<1> QED
  BY <1>1, <1>2, <1>3, <1>4 DEF Works

(* It goes on with a section that leaves the rules counted and whole.      *)
LEMMA BranchData ==
  ASSUME Sound, NEW c \in Clis, todo[c] # <<>>, Head(todo[c]).do \in Branches,
         NEW a \in Seq(Steps), NEW b \in Seq(Steps), Waiting(b), Read(c, a \o b),
         \A s \in Sets : Ends(a, s, View(1, inited, Tab(s)))
  PROVE  Data'
<1>1. owner = c /\ db_lock[c] = 1
  BY AtBranch
<1>2. todo' = [todo EXCEPT ![c] = a \o b] /\ UNCHANGED <<owner, db_lock, up, dbvars>>
  BY DEF Read, Become
<1>3. UNCHANGED dbvars
  BY <1>2
<1>4. Shapes' /\ inited' = inited /\ \A s \in Sets : Tab(s)' = Tab(s)
  BY <1>3, DatabaseKept DEF Sound, Data
<1>5. todo'[c] = a \o b /\ \A d \in Clis \ {c} : todo'[d] = todo[d]
  BY <1>2 DEF Sound, Types
<1>6. ASSUME NEW s \in Sets PROVE Ends(a, s, Seen(c, s))'
  <2>1. Seen(c, s)' = View(1, inited, Tab(s))
    BY <1>1, <1>2, <1>4 DEF Seen
  <2>2. Ends(a, s, Seen(c, s)')
    BY <2>1
  <2> QED
    BY <2>2 DEF Ends
<1>7. Works(c)'
  BY <1>5, <1>6 DEF Works
<1>8. Placed(c)'
  BY <1>1, <1>2, <1>4, <1>7 DEF Placed, Sound, Data
<1>9. ASSUME NEW d \in Clis, d # c PROVE Placed(d)'
  <2>1. up'[d] = up[d] /\ db_lock'[d] = db_lock[d]
    BY <1>2
  <2> QED
    BY <1>2, <1>3, <1>5, <1>9, <2>1, OthersPlaced DEF Sound
<1>10. owner' # NoCli
  BY <1>1, <1>2, Numbers
<1> QED
  BY <1>4, <1>8, <1>9, <1>10 DEF Data

(* A section that works on the table of one set, with register writes.     *)
LEMMA SectionPlan ==
  ASSUME Sound, Settled, NEW v \in Sets, NEW p \in Seq(Steps), NEW b \in Tables, Right(b),
         TableRuns(p, v, Tab(v), b), NEW r \in Seq(CamSteps), NEW s \in Sets
  PROVE  /\ p \o <<Unlock>> \in Seq(Steps) /\ Ends(p \o <<Unlock>>, s, View(1, inited, Tab(s)))
         /\ p \o r \o <<Unlock>> \in Seq(Steps) /\ Ends(p \o r \o <<Unlock>>, s, View(1, inited, Tab(s)))
<1>1. inited \in BOOLEAN /\ inited /\ Tab(s) \in Tables /\ Right(Tab(s))
  BY TabIs DEF Sound, Types, Settled, Data
<1> DEFINE e == IF s = v THEN b ELSE Tab(s)
           x == View(1, inited, Tab(s))
           y == View(1, inited, e)
           z == View(0, inited, e)
<1>2. e \in Tables /\ Right(e)
  BY <1>1
<1>i. inited \in BOOLEAN /\ 1 \in 0 .. 2 /\ Tab(s) \in Tables
  BY <1>1
<1>3. x \in Views /\ x.depth = 1
  <2>1. x \in Views
    BY <1>i, ViewsAre
  <2>2. x.depth = 1
    BY ViewsAre
  <2> QED
    BY <2>1, <2>2
<1> HIDE DEF e
<1>4. y \in Views /\ y.depth = 1
  <2>1. y \in Views
    BY <1>i, <1>2, ViewsAre
  <2>2. y.depth = 1
    BY ViewsAre
  <2> QED
    BY <2>1, <2>2
<1>5. z \in Views /\ z.depth = 0 /\ z.inited /\ z.tab = e
  <2>1. 0 \in 0 .. 2
    OBVIOUS
  <2>2. z \in Views
    BY <1>1, <1>2, <2>1, ViewsAre
  <2>3. z.depth = 0 /\ z.tab = e
    BY ViewsAre
  <2>4. z.inited = inited
    BY DEF View
  <2> QED
    BY <1>1, <2>2, <2>3, <2>4
<1>6. ViewRuns(p, s, x, y)
  <2>1. CASE s = v
    <3>1. 1 \in 1 .. 2
      OBVIOUS
    <3>2. TableRuns(p, s, Tab(s), e)
      BY <2>1 DEF e
    <3> QED
      BY <1>1, <3>1, <3>2, Lifted
  <2>2. CASE s # v
    <3>1. p \in Seq(Aside(s))
      BY <2>2, OtherSet
    <3>2. e = Tab(s)
      BY <2>2 DEF e
    <3>3. y = x
      BY <3>2
    <3>4. x.depth > 0
      BY <1>3
    <3>5. ViewRuns(p, s, x, x)
      BY <1>3, <3>1, <3>4, Stays
    <3> QED
      BY <3>3, <3>5
  <2> QED
    BY <2>1, <2>2
<1>7. <<Unlock>> \in Seq(Steps) /\ ViewRuns(<<Unlock>>, s, y, z)
  BY <1>1, <1>2, LockViews
<1>8. r \in Seq(Steps) /\ ViewRuns(r, s, y, y)
  <2>1. r \in Seq(Aside(s)) /\ y.depth > 0
    BY <1>4, CamAside
  <2> QED
    BY <1>4, <2>1, Stays
<1> HIDE DEF x, y, z
<1>9. p \o <<Unlock>> \in Seq(Steps) /\ ViewRuns(p \o <<Unlock>>, s, x, z)
  BY <1>6, <1>7, ViewCat
<1>10. p \o r \in Seq(Steps) /\ ViewRuns(p \o r, s, x, y)
  BY <1>6, <1>8, ViewCat
<1>11. p \o r \o <<Unlock>> \in Seq(Steps) /\ ViewRuns(p \o r \o <<Unlock>>, s, x, z)
  BY <1>7, <1>10, ViewCat
<1>12. Ends(p \o <<Unlock>>, s, x) /\ Ends(p \o r \o <<Unlock>>, s, x)
  BY <1>2, <1>5, <1>9, <1>11 DEF Ends
<1> QED
  BY <1>9, <1>11, <1>12 DEF x

(* A branch that finds nothing to do.                                      *)
LEMMA UnlockPlan ==
  ASSUME Sound, Settled, NEW s \in Sets
  PROVE  <<Unlock>> \in Seq(Steps) /\ Ends(<<Unlock>>, s, View(1, inited, Tab(s)))
<1>1. inited \in BOOLEAN /\ inited /\ Tab(s) \in Tables /\ Right(Tab(s))
  BY TabIs DEF Sound, Types, Settled, Data
<1> DEFINE z == View(0, inited, Tab(s))
<1>2. z \in Views /\ z.depth = 0 /\ z.inited /\ z.tab = Tab(s)
  <2>1. 0 \in 0 .. 2
    OBVIOUS
  <2>2. z \in Views
    BY <1>1, <2>1, ViewsAre
  <2>3. z.depth = 0 /\ z.tab = Tab(s)
    BY ViewsAre
  <2>4. z.inited = inited
    BY DEF View
  <2> QED
    BY <1>1, <2>2, <2>3, <2>4
<1>3. <<Unlock>> \in Seq(Steps) /\ ViewRuns(<<Unlock>>, s, View(1, inited, Tab(s)), z)
  BY <1>1, LockViews
<1> HIDE DEF z
<1> QED
  BY <1>1, <1>2, <1>3 DEF Ends

(* So does a branch that only unlocks,                                     *)
LEMMA UnlockOnlyData ==
  ASSUME Sound, NEW c \in Clis, todo[c] # <<>>, Head(todo[c]).do \in Branches, Settled, Read(c, <<Unlock>>)
  PROVE  Data'
<1> DEFINE b == <<>>
<1>1. b \in Seq(Steps) /\ Waiting(b) /\ <<Unlock>> \in Seq(Steps)
  BY WaitingAre, PlainSteps
<1>2. <<Unlock>> \o b = <<Unlock>>
  BY <1>1
<1> HIDE DEF b
<1>3. Read(c, <<Unlock>> \o b)
  BY <1>2
<1>4. \A s \in Sets : Ends(<<Unlock>>, s, View(1, inited, Tab(s)))
  BY UnlockPlan
<1> QED
  BY <1>1, <1>3, <1>4, BranchData

(* and a show is one.                                                      *)
LEMMA ShowData ==
  ASSUME Sound, NEW c \in Clis, cli_get_filter_ruleset(c)
  PROVE  Data'
<1>1. todo[c] # <<>> /\ Head(todo[c]).do = "show" /\ Read(c, <<Unlock>>)
  BY DEF cli_get_filter_ruleset, Running
<1>2. Head(todo[c]).do \in Branches
  BY <1>1 DEF Branches
<1>3. Settled
  BY <1>1, <1>2, AtBranch
<1> QED
  BY <1>1, <1>2, <1>3, UnlockOnlyData

(* A cli finds the database as another left it, or new.                    *)
LEMMA StartBranchData ==
  ASSUME Sound, NEW c \in Clis, StartBranch(c)
  PROVE  Data'
<1>1. todo[c] # <<>> /\ Head(todo[c]).do = "startup" /\ Read(c, Startup(inited)) /\ inited \in BOOLEAN
  BY DEF StartBranch, Running, Sound, Types
<1>2. Head(todo[c]).do \in Branches
  BY <1>1 DEF Branches
<1>3. Settled \/ Fresh
  BY <1>1, <1>2, AtBranch
<1> DEFINE g == <<Plain("signals")>>
<1>4. g \in Seq(FreeSteps) /\ g \in Seq(Steps) /\ <<Unlock>> \in Seq(Steps)
  <2>1. Plain("signals") \in FreeSteps
    BY PlainSteps DEF FreeSteps, Free, Plain
  <2> QED
    BY <2>1, Sub, PlainSteps
<1>5. ASSUME inited PROVE Data'
  <2>1. Settled /\ inited = TRUE
    BY <1>1, <1>3, <1>5 DEF Fresh
  <2>2. Startup(inited) = <<Unlock, Plain("signals")>>
    BY <2>1, Plans
  <2>3. Startup(inited) = <<Unlock>> \o g
    BY <1>4, <2>2
  <2> HIDE DEF g
  <2>4. Read(c, <<Unlock>> \o g) /\ Waiting(g)
    BY <1>1, <1>4, <2>3, WaitingAre
  <2>5. \A s \in Sets : Ends(<<Unlock>>, s, View(1, inited, Tab(s)))
    BY <2>1, UnlockPlan
  <2> QED
    BY <1>1, <1>2, <1>4, <2>4, <2>5, BranchData
<1>6. ASSUME ~inited PROVE Data'
  <2>1. Fresh /\ inited = FALSE
    BY <1>1, <1>3, <1>6 DEF Settled
  <2>2. Startup(inited) = Opening \o (g \o cli_reset_default_config)
    BY <2>1, OpeningIs
  <2> HIDE DEF g
  <2>3. Waiting(g \o cli_reset_default_config)
    BY <1>4, WaitingAre
  <2> DEFINE b == g \o cli_reset_default_config
  <2>4. b \in Seq(Steps)
    BY <1>4, ResetRuns
  <2> HIDE DEF b
  <2>5. Waiting(b) /\ Read(c, Opening \o b)
    BY <1>1, <2>2, <2>3 DEF b
  <2>6. ASSUME NEW s \in Sets PROVE Opening \in Seq(Steps) /\ Ends(Opening, s, View(1, inited, Tab(s)))
    <3>1. Tab(s) \in Tables /\ Tab(s).ex = {}
      BY <2>1, TabIs DEF Fresh, Sound, Data
    <3>2. PICK j \in BOOLEAN : j
      OBVIOUS
    <3> DEFINE e == Emptied(Counted(Tab(s), 0))
               z == View(0, j, e)
    <3>3. /\ Opening \in Seq(Steps)
          /\ ViewRuns(Opening, s, View(1, inited, Tab(s)), z)
          /\ Right(e) /\ e \in Tables
      BY <1>1, <1>6, <3>1, <3>2, OpeningViews
    <3> HIDE DEF e
    <3>4. z \in Views /\ z.depth = 0 /\ z.tab = e /\ z.inited
      <4>1. 0 \in 0 .. 2 /\ j \in BOOLEAN
        OBVIOUS
      <4>2. z \in Views
        BY <3>3, <4>1, ViewsAre
      <4>3. z.depth = 0 /\ z.tab = e
        BY ViewsAre
      <4>4. z.inited = j
        BY DEF View
      <4> QED
        BY <3>2, <4>2, <4>3, <4>4
    <3> HIDE DEF z
    <3>5. Right(z.tab)
      BY <3>3, <3>4
    <3> QED
      BY <3>3, <3>4, <3>5 DEF Ends
  <2>7. Opening \in Seq(Steps)
    <3>1. PICK s0 \in Sets : TRUE
      BY RuleAssumption
    <3> QED
      BY <2>6
  <2> QED
    BY <1>1, <1>2, <2>4, <2>5, <2>6, <2>7, BranchData
<1> QED
  BY <1>5, <1>6

(* A set counts and stores its rule.                                       *)
LEMMA SetData ==
  ASSUME Sound, NEW c \in Clis, cli_fpga_set_ruleset(c)
  PROVE  Data'
<1> DEFINE t == Head(todo[c])
           count == IF Exists(t.s, t.id) THEN <<>> ELSE <<SetNum(t.s, (num[t.s] + 1) % Word)>>
           p == db_set_filter_rule(t.s, t.id, t.r)
           r == drv_set_ruleset(t.s, t.id, t.r)
<1>1. todo[c] # <<>> /\ t.do = "set" /\ t.do \in Branches
  BY DEF cli_fpga_set_ruleset, Running, Branches
<1>2. \/ Read(c, <<Unlock>>)
      \/ Read(c, count \o p \o <<Unlock>> \o r)
  BY DEF cli_fpga_set_ruleset
<1>3. t \in Steps /\ Settled
  BY <1>1, AtBranch
<1>4. t.s \in Sets /\ t.id \in Ids /\ t.r \in Rules[t.s]
  BY <1>1, <1>3, StepKinds
<1> HIDE DEF t
<1>5. Right(Tab(t.s)) /\ Tab(t.s) \in Tables /\ Tab(t.s).num = num[t.s]
      /\ (t.id \in Tab(t.s).ex <=> Exists(t.s, t.id))
  BY <1>3, <1>4, TabIs DEF Settled, Sound, Data
<1>6. PICK b \in Tables : Right(b) /\ TableRuns(count \o p, t.s, Tab(t.s), b)
  <2> DEFINE k == IF t.id \in Tab(t.s).ex THEN <<>> ELSE <<SetNum(t.s, (Tab(t.s).num + 1) % Word)>>
  <2>1. \E b \in Tables : Right(b) /\ TableRuns(k \o db_set_filter_rule(t.s, t.id, t.r), t.s, Tab(t.s), b)
    BY <1>4, <1>5, SetPlan
  <2>2. k = count
    BY <1>5
  <2> HIDE DEF k, count
  <2> QED
    BY <2>1, <2>2
<1>7. p \in Seq(Steps)
  BY <1>4, SetHeld, Sub
<1>8. r \in Seq(CamSteps) /\ r \in Seq(FreeSteps) /\ r \in Seq(Steps)
  BY <1>4, DeviceFree, Sub DEF RuleValues
<1>9. count \in Seq(Steps)
  <2>1. CASE Exists(t.s, t.id)
    BY <2>1
  <2>2. CASE ~Exists(t.s, t.id)
    <3>1. (num[t.s] + 1) % Word \in Count32
      <4>1. num[t.s] \in Nat
        <5>1. Tab(t.s).num = Cardinality(Tab(t.s).ex) /\ Tab(t.s).ex \in SUBSET Ids
          BY <1>4, <1>5, TablesAre DEF Right
        <5>2. IsFiniteSet(Tab(t.s).ex)
          BY <5>1, FewRules
        <5> QED
          BY <1>5, <5>1, <5>2, FS_CardinalityType
      <4> QED
        BY <4>1, Numbers DEF Count32
    <3>2. SetNum(t.s, (num[t.s] + 1) % Word) \in Steps
      BY <1>4, <3>1, RuleSteps
    <3> QED
      BY <2>2, <3>2
  <2> QED
    BY <2>1, <2>2
<1> HIDE DEF count, p, r
<1>10. ASSUME Read(c, count \o p \o <<Unlock>> \o r) PROVE Data'
  <2> DEFINE q == count \o p
  <2>1. q \in Seq(Steps) /\ <<Unlock>> \in Seq(Steps)
    BY <1>7, <1>9, PlainSteps
  <2>2. TableRuns(q, t.s, Tab(t.s), b)
    BY <1>6
  <2>3. Read(c, q \o <<Unlock>> \o r)
    BY <1>10
  <2> HIDE DEF q
  <2>4. \A s \in Sets : Ends(q \o <<Unlock>>, s, View(1, inited, Tab(s)))
    BY <1>3, <1>4, <1>6, <1>8, <2>1, <2>2, SectionPlan
  <2> DEFINE a == q \o <<Unlock>>
  <2>5. a \in Seq(Steps)
    BY <2>1
  <2>6. Read(c, a \o r) /\ \A s \in Sets : Ends(a, s, View(1, inited, Tab(s)))
    BY <2>3, <2>4
  <2> HIDE DEF a
  <2>7. Waiting(r)
    BY <1>8, WaitingAre
  <2> QED
    BY <1>1, <1>8, <2>5, <2>6, <2>7, BranchData DEF t
<1>11. ASSUME Read(c, <<Unlock>>) PROVE Data'
  BY <1>1, <1>3, <1>11, UnlockOnlyData DEF t
<1> QED
  BY <1>2, <1>10, <1>11 DEF count, p, r

(* A clear takes one out, from the database and from the device.           *)
LEMMA ClearData ==
  ASSUME Sound, NEW c \in Clis, cli_fpga_clear_ruleset(c)
  PROVE  Data'
<1> DEFINE t == Head(todo[c])
           count == <<SetNum(t.s, (num[t.s] - 1) % Word)>>
           p == db_delete_filter_rule(t.s, t.id)
           r == drv_set_ruleset(t.s, t.id, t.r)
<1>1. todo[c] # <<>> /\ t.do = "clear" /\ t.do \in Branches
  BY DEF cli_fpga_clear_ruleset, Running, Branches
<1>2. \/ Read(c, <<Unlock>>)
      \/ Exists(t.s, t.id) /\ Read(c, count \o p \o r \o <<Unlock>>)
  BY DEF cli_fpga_clear_ruleset
<1>3. t \in Steps /\ Settled
  BY <1>1, AtBranch
<1>4. t.s \in Sets /\ t.id \in Ids /\ t.r \in RuleValues
  BY <1>1, <1>3, StepKinds DEF RuleValues
<1> HIDE DEF t
<1>5. /\ Right(Tab(t.s)) /\ Tab(t.s) \in Tables /\ Tab(t.s).num = num[t.s]
      /\ (t.id \in Tab(t.s).ex <=> Exists(t.s, t.id))
      /\ (Exists(t.s, t.id) => Tab(t.s).named[t.id] = flag[t.s][t.id])
      /\ Tab(t.s).named[t.id] \subseteq Fields(t.s)
  BY <1>3, <1>4, TabIs DEF Settled, Sound, Data
<1>7. p \in Seq(Steps)
  BY <1>4, DeleteHeld, Sub
<1>8. r \in Seq(CamSteps)
  BY <1>4, DeviceFree
<1>9. count \in Seq(Steps)
  <2>1. (num[t.s] - 1) % Word \in Count32
    <3>1. num[t.s] \in Nat
      <4>1. Tab(t.s).num = Cardinality(Tab(t.s).ex) /\ Tab(t.s).ex \in SUBSET Ids
        BY <1>4, <1>5, TablesAre DEF Right
      <4>2. IsFiniteSet(Tab(t.s).ex)
        BY <4>1, FewRules
      <4> QED
        BY <1>5, <4>1, <4>2, FS_CardinalityType
    <3> QED
      BY <3>1, Numbers DEF Count32
  <2>2. SetNum(t.s, (num[t.s] - 1) % Word) \in Steps
    BY <1>4, <2>1, RuleSteps
  <2> QED
    BY <2>2
<1>10. ASSUME Exists(t.s, t.id), Read(c, count \o p \o r \o <<Unlock>>) PROVE Data'
  <2>1. PICK b \in Tables : Right(b) /\ TableRuns(count \o p, t.s, Tab(t.s), b)
    <3>1. t.id \in Tab(t.s).ex /\ flag[t.s][t.id] = Tab(t.s).named[t.id]
      BY <1>5, <1>10
    <3>2. \E b \in Tables : Right(b) /\ TableRuns(<<SetNum(t.s, (Tab(t.s).num - 1) % Word)>> \o db_delete_filter_rule(t.s, t.id), t.s, Tab(t.s), b)
      BY <1>4, <1>5, <3>1, ClearPlan
    <3> QED
      BY <1>5, <3>2
  <2> HIDE DEF count, p, r
  <2> DEFINE q == count \o p
  <2>2. q \in Seq(Steps)
    BY <1>7, <1>9
  <2>3. TableRuns(q, t.s, Tab(t.s), b)
    BY <2>1
  <2>4. Read(c, q \o r \o <<Unlock>>)
    BY <1>10
  <2> HIDE DEF q
  <2> DEFINE a == q \o r \o <<Unlock>>
             e == <<>>
  <2>5. /\ a \in Seq(Steps)
        /\ \A s \in Sets : Ends(a, s, View(1, inited, Tab(s)))
    <3>1. \A s \in Sets : a \in Seq(Steps) /\ Ends(a, s, View(1, inited, Tab(s)))
      BY <1>3, <1>4, <1>8, <2>1, <2>2, <2>3, SectionPlan
    <3>2. PICK s0 \in Sets : TRUE
      BY RuleAssumption
    <3> HIDE DEF a
    <3> QED
      BY <3>1, <3>2
  <2>6. Read(c, a)
    BY <2>4
  <2> HIDE DEF a
  <2>7. e \in Seq(Steps) /\ Waiting(e) /\ a \o e = a
    BY <2>5, WaitingAre
  <2> HIDE DEF e
  <2>8. Read(c, a \o e)
    BY <2>6, <2>7
  <2> QED
    BY <1>1, <2>5, <2>7, <2>8, BranchData DEF t
<1>11. ASSUME Read(c, <<Unlock>>) PROVE Data'
  BY <1>1, <1>3, <1>11, UnlockOnlyData DEF t
<1> QED
  BY <1>2, <1>10, <1>11

(* A cli with nothing to do has not the lock.                              *)
LEMMA IdleWaits ==
  ASSUME Sound, NEW c \in Clis, todo[c] = <<>> \/ up[c] = "off"
  PROVE  owner # c /\ todo[c] = <<>>
<1>1. CASE up[c] = "off"
  BY <1>1 DEF Sound, Order, Orderly
<1>2. CASE up[c] # "off"
  <2>1. todo[c] = <<>> /\ (owner = c <=> db_lock[c] > 0)
    BY <1>2 DEF Sound, Order, Orderly
  <2>2. ASSUME owner = c PROVE FALSE
    <3>1. Works(c)
      BY <2>2 DEF Sound, Data, Placed
    <3>2. ~ \E t : todo[c] = <<t>>
      BY <2>1
    <3>3. PICK a, b \in Seq(Steps) : todo[c] = a \o b /\ \A s \in Sets : Ends(a, s, Seen(c, s))
      BY <3>1, <3>2 DEF Works
    <3>4. a = <<>>
      BY <2>1, <3>3
    <3>5. PICK s \in Sets : TRUE
      BY RuleAssumption
    <3>6. PICK z \in Views : ViewRuns(a, s, Seen(c, s), z) /\ z.depth = 0
      BY <3>3 DEF Ends
    <3>7. Seen(c, s) = z
      BY <3>4, <3>6, RunsEmpty DEF ViewRuns
    <3>8. db_lock[c] = 0
      BY <3>6, <3>7, SeenIs
    <3> QED
      BY <2>1, <2>2, <3>8
  <2> QED
    BY <2>1, <2>2
<1> QED
  BY <1>1, <1>2

(* A cli that does not hold the lock starts, is given a command or leaves. *)
LEMMA PlacedAnew ==
  ASSUME Sound, NEW c \in Clis, owner # c, NEW q, todo' = [todo EXCEPT ![c] = q],
         q \in {<<>>, <<Lock, Plain("startup")>>} \/ (inited /\ Waiting(q)),
         owner' = owner, UNCHANGED dbvars, \A d \in Clis \ {c} : db_lock'[d] = db_lock[d] /\ up'[d] = up[d],
         up'[c] = "on" => inited
  PROVE  Data'
<1>1. Shapes' /\ inited' = inited /\ (owner' = NoCli => Settled' \/ Fresh')
  BY DatabaseKept DEF Sound, Data
<1>2. todo'[c] = q /\ \A d \in Clis \ {c} : todo'[d] = todo[d]
  BY DEF Sound, Types
<1>3. Placed(c)'
  BY <1>1, <1>2 DEF Placed, Waits
<1>4. ASSUME NEW d \in Clis, d # c PROVE Placed(d)'
  <2>1. db_lock'[d] = db_lock[d] /\ up'[d] = up[d]
    BY <1>4
  <2> QED
    BY <1>2, <1>4, <2>1, OthersPlaced DEF Sound
<1> QED
  BY <1>1, <1>3, <1>4 DEF Data

(* A cli starts.                                                           *)
LEMMA StartData ==
  ASSUME Sound, NEW c \in Clis, StartCLI(c)
  PROVE  Data'
<1>1. /\ up[c] = "off" /\ up' = [up EXCEPT ![c] = "starting"] /\ db_lock' = [db_lock EXCEPT ![c] = 0]
      /\ todo' = [todo EXCEPT ![c] = <<Lock, Plain("startup")>>] /\ owner' = owner /\ UNCHANGED dbvars
  BY DEF StartCLI, Become
<1>2. owner # c
  BY <1>1, IdleWaits
<1>3. up'[c] = "starting" /\ \A d \in Clis \ {c} : db_lock'[d] = db_lock[d] /\ up'[d] = up[d]
  BY <1>1 DEF Sound, Types
<1> QED
  BY <1>1, <1>2, <1>3, PlacedAnew

(* One leaves.                                                             *)
LEMMA LeaveData ==
  ASSUME Sound, NEW c \in Clis, exit(c)
  PROVE  Data'
<1>1. /\ todo[c] = <<>> /\ up' = [up EXCEPT ![c] = "off"] /\ UNCHANGED <<db_lock, dbvars>>
      /\ todo' = [todo EXCEPT ![c] = <<>>] /\ owner' = IF owner = c THEN NoCli ELSE owner
  BY DEF exit, Leave, Become, Ready
<1>2. owner # c
  BY <1>1, IdleWaits
<1>3. UNCHANGED dbvars /\ owner' = owner
  BY <1>1, <1>2
<1>4. up'[c] = "off" /\ \A d \in Clis \ {c} : db_lock'[d] = db_lock[d] /\ up'[d] = up[d]
  BY <1>1 DEF Sound, Types
<1> QED
  BY <1>1, <1>2, <1>3, <1>4, PlacedAnew

(* One is given a command.                                                 *)
LEMMA GiveData ==
  ASSUME Sound, NEW c \in Clis, NEW op, NEW q, Give(c, op, q), Waiting(q)
  PROVE  Data'
<1>1. /\ todo[c] = <<>> /\ up[c] = "on" /\ UNCHANGED <<db_lock, up, owner, dbvars>>
      /\ todo' = [todo EXCEPT ![c] = q]
  BY DEF Give, Ready, Become
<1>2. owner # c
  BY <1>1, IdleWaits
<1>3. inited
  BY <1>1 DEF Sound, Data, Placed
<1>4. UNCHANGED dbvars /\ owner' = owner /\ \A d \in Clis \ {c} : db_lock'[d] = db_lock[d] /\ up'[d] = up[d]
  BY <1>1
<1> QED
  BY <1>1, <1>2, <1>3, <1>4, PlacedAnew

(* The commands of the operator.                                           *)
LEMMA CommandData ==
  ASSUME Sound, NEW c \in Clis, Command(c)
  PROVE  Data'
<1>1. ASSUME set(c) PROVE Data'
  <2>1. PICK s \in Sets, id \in RuleIds : \E r \in Rules[s] : Give(c, "set", <<Lock, Branch("set", s, id, r)>>)
    BY <1>1 DEF set
  <2>2. PICK r \in Rules[s] : Give(c, "set", <<Lock, Branch("set", s, id, r)>>)
    BY <2>1
  <2>3. Branch("set", s, id, r) \in Steps /\ Branch("set", s, id, r).do \in Calls
    BY RuleSteps, Numbers DEF Branch, Calls
  <2>4. Waiting(<<Lock, Branch("set", s, id, r)>>)
    BY <2>3, WaitingAre
  <2> QED
    BY <2>2, <2>4, GiveData
<1>2. ASSUME NEW op \in {"clear", "show"}, NEW s \in Sets, NEW id \in RuleIds,
             Give(c, op, <<Lock, Branch(op, s, id, Nothing)>>)
      PROVE  Data'
  <2>1. Branch(op, s, id, Nothing) \in Steps
    BY RuleSteps, Numbers
  <2>2. Branch(op, s, id, Nothing).do \in Calls
    BY DEF Branch, Calls
  <2>3. Waiting(<<Lock, Branch(op, s, id, Nothing)>>)
    BY <2>1, <2>2, WaitingAre
  <2> QED
    BY <1>2, <2>3, GiveData
<1>3. ASSUME clear(c) \/ show(c) PROVE Data'
  BY <1>2, <1>3 DEF clear, show
<1>4. ASSUME restore(c) PROVE Data'
  BY <1>4, WaitingAre, GiveData DEF restore
<1>5. ASSUME save(c) PROVE Data'
  BY <1>5, WaitingAre, GiveData DEF save
<1> QED
  BY <1>1, <1>3, <1>4, <1>5 DEF Command

(* Nothing is stored at first.                                             *)
LEMMA InitData == Init => DInv
<1> SUFFICES ASSUME Init PROVE Data
  BY DEF DInv
<1>1. Shapes
  <2>1. num \in [Sets -> Count32 \cup {Absent}]
    BY DEF Init
  <2>2. flag \in [Sets -> [Ids -> (SUBSET AllFields) \cup {Absent}]]
    BY DEF Init
  <2>3. \A s \in Sets, id \in Ids : flag[s][id] = Absent /\ field[s][id] = [f \in Fields(s) |-> Absent]
    BY DEF Init
  <2>4. \A s \in Sets, id \in Ids : field[s][id] \in [Fields(s) -> Values \cup {Absent}]
    <3>1. \A s \in Sets : [f \in Fields(s) |-> Absent] \in [Fields(s) -> Values \cup {Absent}]
      OBVIOUS
    <3> QED
      BY <2>3, <3>1
  <2>5. field \in [Sets -> [Ids -> UNION {[Fields(s) -> Values \cup {Absent}] : s \in Sets}]]
    <3>1. ASSUME NEW s \in Sets
          PROVE  [id \in Ids |-> [f \in Fields(s) |-> Absent]] \in [Ids -> UNION {[Fields(u) -> Values \cup {Absent}] : u \in Sets}]
      <4>1. [f \in Fields(s) |-> Absent] \in [Fields(s) -> Values \cup {Absent}]
        OBVIOUS
      <4>2. [f \in Fields(s) |-> Absent] \in UNION {[Fields(u) -> Values \cup {Absent}] : u \in Sets}
        BY <4>1
      <4> QED
        BY <4>2
    <3> QED
      BY <3>1 DEF Init
  <2> QED
    BY <2>1, <2>2, <2>3, <2>4, <2>5 DEF Shapes, Exists
<1>2. Fresh
  BY DEF Init, Fresh, Existing, Exists
<1>3. ASSUME NEW c \in Clis PROVE Placed(c)
  <2>1. owner # c /\ up[c] = "off" /\ todo[c] = <<>>
    BY Numbers DEF Init
  <2> QED
    BY <2>1 DEF Placed, Waits
<1> QED
  BY <1>1, <1>2, <1>3 DEF Data

(* Every step keeps the invariant, by its action.                          *)
LEMMA StepData == IInv /\ DInv /\ [Next]_vars => DInv'
<1> SUFFICES ASSUME IInv, DInv, [Next]_vars, faults' = 0 PROVE Data'
  BY DEF DInv
<1>0. faults \in Nat
  BY DEF IInv
<1>s. ASSUME faults = 0 PROVE Sound
  BY <1>s DEF IInv, DInv, SettingsRead, Sound
<1>1. CASE UNCHANGED vars
  <2>1. UNCHANGED <<owner, db_lock, up, todo, dbvars>> /\ faults = 0
    BY <1>1 DEF vars, dbvars
  <2>2. Sound
    BY <1>s, <2>1
  <2>3. Shapes' /\ inited' = inited /\ (Settled => Settled') /\ (Fresh => Fresh')
        /\ \A s \in Sets : Tab(s)' = Tab(s)
    BY <2>1, <2>2, DatabaseKept DEF Sound, Data
  <2>4. ASSUME NEW c \in Clis PROVE Placed(c)'
    <3>1. Waits(c) => Waits(c)'
      BY <2>1, <2>3 DEF Waits
    <3>2. Works(c) => Works(c)'
      <4>1. CASE \E t \in Steps : /\ todo[c] = <<t>> /\ t.do \in Branches
                                  /\ Settled \/ (Fresh /\ t.do = "startup")
        BY <2>1, <2>3, <4>1 DEF Works
      <4>2. CASE \E a, b \in Seq(Steps) : /\ todo[c] = a \o b /\ Waiting(b)
                                          /\ \A s \in Sets : Ends(a, s, Seen(c, s))
        <5>1. PICK a, b \in Seq(Steps) : /\ todo[c] = a \o b /\ Waiting(b)
                                         /\ \A s \in Sets : Ends(a, s, Seen(c, s))
          BY <4>2
        <5>2. \A s \in Sets : Ends(a, s, Seen(c, s)')
          BY <2>1, <2>3, <5>1 DEF Seen
        <5>3. \A s \in Sets : Ends(a, s, Seen(c, s))'
          BY <5>2 DEF Ends
        <5> QED
          BY <2>1, <5>1, <5>3 DEF Works
      <4> QED
        BY <4>1, <4>2 DEF Works
    <3> QED
      BY <2>1, <2>2, <2>3, <3>1, <3>2 DEF Placed, Sound, Data
  <2> QED
    BY <2>1, <2>2, <2>3, <2>4 DEF Data, Sound
<1>2. ASSUME NEW c \in Clis, StartCLI(c) \/ Command(c) \/ exit(c) \/ Step(c)
      PROVE  Data'
  <2>1. faults' = faults
    BY <1>2 DEF StartCLI, Command, set, clear, show, restore, save, Give, exit, Step, cli_db_lock, cli_db_unlock,
                StartBranch, cli_fpga_set_ruleset, cli_fpga_clear_ruleset, cli_get_filter_ruleset, StartScan, ScanStep,
                save_global_config, db_set_filter_rule_num, db_insert_flag, db_insert_field, db_delete_flag,
                db_delete_field, db_mark_uninitialized, db_set_initialized, capture_signals, reg_write, cam_command,
                Read, Wrote
  <2>2. Sound
    BY <1>s, <2>1
  <2>3. CASE Step(c)
    BY <2>2, <2>3, LockData, UnlockData, StartBranchData, SetData, ClearData, ShowData, StartScanData, ScanStepData,
       DeviceData, WriteData, MarkData, SignalsData DEF Step
  <2> QED
    BY <1>2, <2>2, <2>3, StartData, CommandData, LeaveData
<1>3. ASSUME NEW c \in Clis, Fault(c) PROVE FALSE
  <2>1. faults' = faults + 1
    BY <1>3 DEF Fault, cleanup, DbFails, CamTimeout, Suffer
  <2> QED
    BY <1>0, <2>1
<1> QED
  BY <1>1, <1>2, <1>3 DEF Next

-----------------------------------------------------------------------------
(* The theorems about the rules.                                           *)

(* In every state without a fault before it, what the commands under way   *)
(* have still to do takes the rules to a count that is right and fields    *)
(* that are all there.                                                     *)
THEOREM DataKept == Spec => []DInv
BY InitData, StepData, Inductive, PTL DEF Spec

(* The stored count of a rule set ("Filter<s>.<oc>.No", database.c) is the *)
(* number of its rules whenever nobody holds the database lock, for any    *)
(* number of cli processes and any rules, as long as no signal and no      *)
(* failing call has cut a command short.                                   *)
THEOREM CountKept == Spec => []FilterNoKept
<1>1. IInv /\ DInv => FilterNoKept
  <2> SUFFICES ASSUME DInv, Undisturbed, inited, owner = NoCli, NEW s \in Sets
               PROVE  num[s] = Cardinality(Existing(s))
    BY DEF FilterNoKept, FilterNo
  <2>1. Shapes /\ (Settled \/ Fresh)
    BY DEF DInv, Undisturbed, Data
  <2>2. Right(Tab(s))
    BY <2>1 DEF Settled, Fresh
  <2>3. Tab(s).num = num[s] /\ Tab(s).ex = Existing(s)
    BY <2>1, TabIs
  <2> QED
    BY <2>2, <2>3 DEF Right
<1> QED
  BY <1>1, Inductive, DataKept, PTL

(* The invariants, as long as no fault has happened.                       *)
LEMMA SoundNow == IInv /\ DInv /\ Undisturbed => Sound
BY DEF IInv, DInv, SettingsRead, Undisturbed, Sound

(* A loop has as many rules ahead as it has still to count.                *)
LEMMA LoopAhead ==
  ASSUME Sound, NEW c \in Clis, Running(c, "scan")
  PROVE  /\ Head(todo[c]).s \in Sets /\ Tab(Head(todo[c]).s) \in Tables
         /\ Head(todo[c]) \in StepsOf(Head(todo[c]).s)
         /\ Ahead(Head(todo[c]), Tab(Head(todo[c]).s))
<1> DEFINE t == Head(todo[c])
<1>1. todo[c] # <<>> /\ t.do = "scan" /\ t.do \in Guarded \ {"uninit", "global"}
  BY DEF Running, Guarded
<1>2. /\ t.s \in Sets /\ t \in StepsOf(t.s)
      /\ \E b \in Tables : TableStep(t, Tab(t.s), b)
  BY <1>1, OwnTable
<1> HIDE DEF t
<1>3. Ahead(t, Tab(t.s))
  BY <1>1, <1>2 DEF TableStep
<1>4. Tab(t.s) \in Tables
  BY <1>2, TabIs DEF Sound, Data
<1> QED
  BY <1>2, <1>3, <1>4 DEF t

(* The loops of cli_save_config and cli_reset_default_config               *)
(* (parserops.c), which stop at the stored count and have no other bound   *)
(* on the index, find that many rules inside the table, under the same     *)
(* condition.                                                              *)
THEOREM ScansEnd == Spec => []ScanInTable
<1>1. IInv /\ DInv => ScanInTable
  <2> SUFFICES ASSUME IInv, DInv, Undisturbed, NEW c \in Clis, Running(c, "scan"),
                      Head(todo[c]).id = MaxRule
               PROVE  Head(todo[c]).matched = Head(todo[c]).number
    BY DEF ScanInTable
  <2>1. Sound
    BY SoundNow
  <2> DEFINE t == Head(todo[c])
  <2>2. t.s \in Sets /\ Tab(t.s) \in Tables /\ t \in StepsOf(t.s) /\ Ahead(t, Tab(t.s))
    BY <2>1, LoopAhead
  <2>3. t.do = "scan" /\ t.id = MaxRule
    BY DEF Running
  <2> HIDE DEF t
  <2>4. t.matched = t.number
    BY <2>2, <2>3, AheadIs
  <2> QED
    BY <2>4 DEF t
<1> QED
  BY <1>1, Inductive, DataKept, PTL

(* Whoever reads a rule (show and save, parserops.c) finds every key its   *)
(* flag names (database.c), under the same condition.                      *)
THEOREM RulesReadWhole == Spec => []ReadsWhole
<1>1. IInv /\ DInv => ReadsWhole
  <2> SUFFICES ASSUME IInv, DInv, Undisturbed, NEW c \in Clis, NEW s \in Sets, NEW id \in Ids, Exists(s, id),
                      \/ Running(c, "show") /\ Head(todo[c]).s = s
                      \/ Running(c, "scan") /\ Head(todo[c]).s = s /\ Head(todo[c]).mode = "save"
               PROVE  Whole(s, id)
    BY DEF ReadsWhole
  <2>1. Sound
    BY SoundNow
  <2>2. EveryWhole(Tab(s))
    <3>1. CASE Running(c, "show")
      <4>1. todo[c] # <<>> /\ Head(todo[c]).do = "show" /\ Head(todo[c]).do \in Branches
        BY <3>1 DEF Running, Branches
      <4>2. Settled
        BY <2>1, <4>1, AtBranch
      <4> QED
        BY <4>2 DEF Settled, Right
    <3>2. CASE Running(c, "scan") /\ Head(todo[c]).s = s
      BY <2>1, <3>2, LoopAhead DEF Ahead
    <3> QED
      BY <3>1, <3>2
  <2> QED
    BY <2>1, <2>2, WholeRules DEF Sound, Data
<1> QED
  BY <1>1, Inductive, DataKept, PTL

-----------------------------------------------------------------------------
(* The third part proves what the CAM holds, when only one cli runs and no *)
(* two rules share an entry.  Here the labels are what there is of one     *)
(* rule (a cell: its flag, its fields and its entry) with the registers.   *)

Both(r) == <<r, r>>
Halves == [1 .. 2 -> RuleValues]
Cell(n, f, e, g) == [named |-> n, fld |-> f, entry |-> e, regs |-> g]
Cells(s) ==
  [named : (SUBSET Fields(s)) \cup {Absent}, fld : [Fields(s) -> Values \cup {Absent}],
   entry : Halves, regs : Halves]
(* A rule after a reset of its set: its flag goes, and the fields it names.*)
Dropped(x) ==
  IF x.named = Absent THEN x
  ELSE Cell(Absent, [f \in DOMAIN x.fld |-> IF f \in x.named THEN Absent ELSE x.fld[f]], x.entry, x.regs)

(* The steps that leave rule i of set s alone, but for its entry.          *)
OnKeys == {"flag", "field", "delflag", "delfield"}
Elsewhere(s, i) ==
  {t \in Steps : \/ t.do \in {"lock", "unlock", "uninit", "init", "signals", "global", "num"}
                 \/ t.do \in OnKeys /\ ~(t.s = s /\ t.id = i)
                 \/ t.do \in {"count", "scan"} /\ ~(t.s = s /\ t.mode = "reset")}
(* What a step does to the rule.  A loop is one step again.                *)
CellGoes(t, s, i, x, y) ==
  \/ t \in Elsewhere(s, i) /\ y = x
  \/ t.do \in OnKeys /\ t.s = s /\ t.id = i
     /\ \/ t.do = "flag" /\ y = Cell(t.fs, x.fld, x.entry, x.regs)
        \/ t.do = "field" /\ y = Cell(x.named, [x.fld EXCEPT ![t.f] = t.v], x.entry, x.regs)
        \/ t.do = "delflag" /\ y = Cell(Absent, x.fld, x.entry, x.regs)
        \/ t.do = "delfield" /\ y = Cell(x.named, [x.fld EXCEPT ![t.f] = Absent], x.entry, x.regs)
  \/ t.do \in {"count", "scan"} /\ t.s = s /\ t.mode = "reset" /\ y = Dropped(x)
  \/ t.do = "reg" /\ y = Cell(x.named, x.fld, x.entry, [x.regs EXCEPT ![t.h] = t.r])
  \/ t.do = "cam" /\ y = Cell(x.named, x.fld, IF t.a = CamAddr(s, i) THEN x.regs ELSE x.entry, x.regs)
CellMoves(s, i) == {g \in Steps \X Cells(s) \X Cells(s) : CellGoes(g[1], s, i, g[2], g[3])}
CellRuns(q, s, i, x, y) == Runs(q, CellMoves(s, i), Cells(s), x, y)

(* What a cell is made of.                                                 *)
LEMMA CellsAre ==
  ASSUME NEW s
  PROVE  /\ \A x \in Cells(s) : /\ x.named \in (SUBSET Fields(s)) \cup {Absent}
                                /\ x.fld \in [Fields(s) -> Values \cup {Absent}]
                                /\ x.entry \in Halves /\ x.regs \in Halves
                                /\ x = Cell(x.named, x.fld, x.entry, x.regs)
         /\ \A n \in (SUBSET Fields(s)) \cup {Absent}, f \in [Fields(s) -> Values \cup {Absent}],
              e \in Halves, g \in Halves : Cell(n, f, e, g) \in Cells(s)
         /\ \A n, f, e, g : /\ Cell(n, f, e, g).named = n /\ Cell(n, f, e, g).fld = f
                            /\ Cell(n, f, e, g).entry = e /\ Cell(n, f, e, g).regs = g
BY DEF Cells, Cell

(* The halves of an entry that matches one rule.                           *)
LEMMA HalvesAre ==
  /\ Nothing \in RuleValues /\ AnyRule \in RuleValues
  /\ \A r \in RuleValues : Both(r) \in Halves
  /\ \A g \in Halves : \A r \in RuleValues :
       /\ [g EXCEPT ![1] = r] \in Halves /\ [g EXCEPT ![2] = r] \in Halves
       /\ [[g EXCEPT ![1] = r] EXCEPT ![2] = r] = Both(r)
<1>1. Nothing \in RuleValues /\ AnyRule \in RuleValues
  BY DEF RuleValues
<1>2. ASSUME NEW r \in RuleValues PROVE Both(r) \in Halves
  <2>1. Both(r) = [j \in 1 .. 2 |-> r]
    BY DEF Both
  <2> QED
    BY <2>1 DEF Halves
<1>3. ASSUME NEW g \in Halves, NEW r \in RuleValues
      PROVE  /\ [g EXCEPT ![1] = r] \in Halves /\ [g EXCEPT ![2] = r] \in Halves
             /\ [[g EXCEPT ![1] = r] EXCEPT ![2] = r] = Both(r)
  <2>1. [g EXCEPT ![1] = r] \in Halves /\ [g EXCEPT ![2] = r] \in Halves
    BY DEF Halves
  <2>2. [[g EXCEPT ![1] = r] EXCEPT ![2] = r] = [j \in 1 .. 2 |-> r]
    <3>1. DOMAIN g = 1 .. 2
      BY DEF Halves
    <3>2. \A j \in 1 .. 2 : [[g EXCEPT ![1] = r] EXCEPT ![2] = r][j] = r
      BY <3>1
    <3> QED
      BY <3>1, <3>2
  <2> QED
    BY <2>1, <2>2 DEF Both
<1> QED
  BY <1>1, <1>2, <1>3

(* A rule that is dropped.                                                 *)
LEMMA DroppedIs ==
  ASSUME NEW s \in Sets, NEW x \in Cells(s)
  PROVE  /\ Dropped(x) \in Cells(s) /\ Dropped(x).named = Absent
         /\ Dropped(x).entry = x.entry /\ Dropped(x).regs = x.regs
         /\ x.named = Absent => Dropped(x) = x
         /\ Dropped(Dropped(x)) = Dropped(x)
<1>1. /\ x.named \in (SUBSET Fields(s)) \cup {Absent} /\ x.fld \in [Fields(s) -> Values \cup {Absent}]
      /\ x.entry \in Halves /\ x.regs \in Halves
  BY CellsAre
<1>2. CASE x.named = Absent
  BY <1>2 DEF Dropped
<1>3. CASE x.named # Absent
  <2> DEFINE f == [k \in DOMAIN x.fld |-> IF k \in x.named THEN Absent ELSE x.fld[k]]
  <2>1. f \in [Fields(s) -> Values \cup {Absent}]
    BY <1>1
  <2> HIDE DEF f
  <2>2. Dropped(x) = Cell(Absent, f, x.entry, x.regs)
    BY <1>3 DEF Dropped, f
  <2>3. Dropped(x) \in Cells(s) /\ Dropped(x).named = Absent
        /\ Dropped(x).entry = x.entry /\ Dropped(x).regs = x.regs
    BY <1>1, <2>1, <2>2, CellsAre
  <2>4. \A y : y = Dropped(x) => Dropped(y) = y
    BY <2>3 DEF Dropped
  <2> QED
    BY <1>3, <2>3, <2>4
<1> QED
  BY <1>2, <1>3

(* One step.                                                               *)
LEMMA CellOne ==
  ASSUME NEW s, NEW i, NEW t \in Steps, NEW x \in Cells(s), NEW y \in Cells(s), CellGoes(t, s, i, x, y)
  PROVE  <<t>> \in Seq(Steps) /\ CellRuns(<<t>>, s, i, x, y)
<1>1. <<t, x, y>> \in CellMoves(s, i)
  BY DEF CellMoves
<1> QED
  BY <1>1, RunsOne DEF CellRuns

(* One sequence after the other.                                           *)
LEMMA CellCat ==
  ASSUME NEW s, NEW i, NEW p \in Seq(Steps), NEW q \in Seq(Steps), NEW x, NEW y, NEW z,
         CellRuns(p, s, i, x, y), CellRuns(q, s, i, y, z)
  PROVE  p \o q \in Seq(Steps) /\ CellRuns(p \o q, s, i, x, z)
BY RunsCat DEF CellRuns

(* Steps elsewhere change nothing.                                         *)
LEMMA CellStays ==
  ASSUME NEW s, NEW i, NEW q \in Seq(Elsewhere(s, i)), NEW x \in Cells(s)
  PROVE  q \in Seq(Steps) /\ CellRuns(q, s, i, x, x)
<1>1. q \in Seq(Steps)
  <2>1. q \in [1 .. Len(q) -> Elsewhere(s, i)] /\ Elsewhere(s, i) \subseteq Steps
    BY DEF Elsewhere
  <2>2. q \in [1 .. Len(q) -> Steps] /\ Len(q) \in Nat
    BY <2>1
  <2> QED
    BY <2>2
<1> DEFINE d == [k \in 1 .. Len(q) + 1 |-> x]
<1>2. d \in [1 .. Len(q) + 1 -> Cells(s)] /\ d[1] = x /\ d[Len(q) + 1] = x
  <2>1. Len(q) \in Nat
    OBVIOUS
  <2> QED
    BY <2>1
<1>3. ASSUME NEW k \in 1 .. Len(q) PROVE <<q[k], d[k], d[k + 1]>> \in CellMoves(s, i)
  <2>1. d[k] = x /\ d[k + 1] = x /\ q[k] \in Elsewhere(s, i) /\ q[k] \in Steps
    BY <1>1
  <2>2. <<q[k], x, x>> \in CellMoves(s, i)
    BY <2>1 DEF CellMoves, CellGoes
  <2> QED
    BY <2>1, <2>2
<1> HIDE DEF d
<1>4. CellRuns(q, s, i, x, x)
  BY <1>2, <1>3, Zenon DEF CellRuns, Runs
<1> QED
  BY <1>1, <1>4

(* The CAM entries of the rules: the operators' rules of a set have each   *)
(* its own, which no other rule of the two sets has but those of the upper *)
(* half of set 2.                                                          *)
LEMMA Addresses ==
  ASSUME Board = "MC10P_FLOW" => RuleIds \subseteq 0 .. CamSelect - 1,
         NEW s \in Sets, NEW i \in RuleIds, NEW u \in Sets, NEW k \in Ids, CamAddr(u, k) = CamAddr(s, i)
  PROVE  /\ k \in RuleIds => u = s /\ k = i
         /\ s = 1 => u = 1 /\ k = i
<1>0. /\ s \in {1, 2} /\ u \in {1, 2} /\ i \in Ids /\ CamSelect \in Nat \ {0}
      /\ \A n \in Ids : n \in Nat /\ n < 2 * CamSelect
  BY RuleAssumption DEF Ids
<1>1. CASE Board # "MC10P_FLOW"
  BY <1>0, <1>1 DEF CamAddr
<1>2. CASE Board = "MC10P_FLOW"
  <2>1. \A n \in Ids : n < CamSelect => n \div CamSelect = 0 /\ n % CamSelect = n
    BY <1>0
  <2>2. \A n \in Ids : n >= CamSelect => n \div CamSelect = 1
    BY <1>0
  <2>3. i < CamSelect /\ (k \in RuleIds => k < CamSelect)
    BY <1>0, <1>2
  <2> QED
    BY <1>0, <1>2, <2>1, <2>2, <2>3 DEF CamAddr
<1> QED
  BY <1>1, <1>2

(* Storing the fields of a rule, and deleting them, one by one.            *)
Laid(x, F, w) ==
  Cell(x.named, [f \in DOMAIN x.fld |-> IF f \in F THEN w[f] ELSE x.fld[f]], x.entry, x.regs)
Touch(s, i, f, v) == IF v = Absent THEN DeleteField(s, i, f) ELSE InsertField(s, i, f, v)

(* A cell with other values in some fields.                                *)
LEMMA LaidIs ==
  ASSUME NEW s \in Sets, NEW x \in Cells(s), NEW w, NEW F \in SUBSET Fields(s),
         \A f \in F : w[f] \in Values \cup {Absent}
  PROVE  /\ Laid(x, F, w) \in Cells(s)
         /\ Laid(x, F, w).named = x.named /\ Laid(x, F, w).entry = x.entry /\ Laid(x, F, w).regs = x.regs
         /\ Laid(x, F, w).fld = [f \in Fields(s) |-> IF f \in F THEN w[f] ELSE x.fld[f]]
         /\ F = {} => Laid(x, F, w) = x
<1>1. /\ x.named \in (SUBSET Fields(s)) \cup {Absent} /\ x.fld \in [Fields(s) -> Values \cup {Absent}]
      /\ x.entry \in Halves /\ x.regs \in Halves /\ x = Cell(x.named, x.fld, x.entry, x.regs)
  BY CellsAre
<1> DEFINE g == [f \in Fields(s) |-> IF f \in F THEN w[f] ELSE x.fld[f]]
<1>2. g \in [Fields(s) -> Values \cup {Absent}] /\ (F = {} => g = x.fld)
  BY <1>1
<1>3. Laid(x, F, w) = Cell(x.named, g, x.entry, x.regs)
  BY <1>1 DEF Laid
<1>4. Laid(x, F, w).fld = g
  BY <1>3, CellsAre
<1> HIDE DEF g
<1>5. /\ Cell(x.named, g, x.entry, x.regs) \in Cells(s)
      /\ Cell(x.named, g, x.entry, x.regs).named = x.named
      /\ Cell(x.named, g, x.entry, x.regs).entry = x.entry /\ Cell(x.named, g, x.entry, x.regs).regs = x.regs
  BY <1>1, <1>2, CellsAre
<1>6. F = {} => Laid(x, F, w) = x
  BY <1>1, <1>2, <1>3
<1> QED
  BY <1>3, <1>4, <1>5, <1>6 DEF g

(* One field more.                                                         *)
LEMMA LaidMore ==
  ASSUME NEW s \in Sets, NEW i \in Ids, NEW x \in Cells(s), NEW w, NEW F \in SUBSET Fields(s), NEW f \in Fields(s),
         \A k \in F \cup {f} : w[k] \in Values \cup {Absent}
  PROVE  /\ Touch(s, i, f, w[f]) \in Steps
         /\ <<Touch(s, i, f, w[f]), Laid(x, F, w), Laid(x, F \cup {f}, w)>> \in CellMoves(s, i)
<1> DEFINE t == Touch(s, i, f, w[f])
           a == Laid(x, F, w)
           b == Laid(x, F \cup {f}, w)
<1>1. /\ a \in Cells(s) /\ a.named = x.named /\ a.entry = x.entry /\ a.regs = x.regs
      /\ a.fld = [k \in Fields(s) |-> IF k \in F THEN w[k] ELSE x.fld[k]]
  BY LaidIs
<1>2. /\ b \in Cells(s) /\ b.named = x.named /\ b.entry = x.entry /\ b.regs = x.regs
      /\ b.fld = [k \in Fields(s) |-> IF k \in F \cup {f} THEN w[k] ELSE x.fld[k]]
  <2>1. F \cup {f} \in SUBSET Fields(s)
    OBVIOUS
  <2> QED
    BY <2>1, LaidIs
<1> HIDE DEF a, b
<1>3. b.fld = [a.fld EXCEPT ![f] = w[f]]
  BY <1>1, <1>2
<1>4. b = Cell(a.named, [a.fld EXCEPT ![f] = w[f]], a.entry, a.regs)
  BY <1>1, <1>2, <1>3, CellsAre
<1>5. /\ t \in Steps /\ t.s = s /\ t.id = i /\ t.f = f
      /\ \/ t.do = "field" /\ t.v = w[f]
         \/ t.do = "delfield" /\ w[f] = Absent
  <2>1. CASE w[f] = Absent
    <3>1. t = DeleteField(s, i, f)
      BY <2>1 DEF Touch
    <3> QED
      BY <2>1, <3>1, RuleSteps DEF DeleteField
  <2>2. CASE w[f] # Absent
    <3>1. t = InsertField(s, i, f, w[f]) /\ w[f] \in Values
      BY <2>2 DEF Touch
    <3> QED
      BY <3>1, RuleSteps DEF InsertField
  <2> QED
    BY <2>1, <2>2
<1> HIDE DEF t
<1>6. CellGoes(t, s, i, a, b)
  BY <1>4, <1>5 DEF CellGoes, OnKeys
<1>7. <<t, a, b>> \in CellMoves(s, i)
  BY <1>1, <1>2, <1>5, <1>6 DEF CellMoves
<1> QED
  BY <1>5, <1>7 DEF t, a, b

(* All of them, one by one.                                                *)
LEMMA FieldCells ==
  ASSUME NEW s \in Sets, NEW i \in Ids, NEW x \in Cells(s), NEW fs \in Seq(Fields(s)), NEW w,
         \A k \in 1 .. Len(fs) : w[fs[k]] \in Values \cup {Absent}
  PROVE  LET q == [k \in 1 .. Len(fs) |-> Touch(s, i, fs[k], w[fs[k]])]
         IN  /\ q \in Seq(Steps)
             /\ CellRuns(q, s, i, x, Laid(x, {fs[k] : k \in 1 .. Len(fs)}, w))
<1> DEFINE q == [k \in 1 .. Len(fs) |-> Touch(s, i, fs[k], w[fs[k]])]
           n == Len(fs)
           U == [k \in 1 .. n + 1 |-> {fs[j] : j \in 1 .. k - 1}]
           F == {fs[k] : k \in 1 .. Len(fs)}
           d == [k \in 1 .. n + 1 |-> Laid(x, U[k], w)]
<1>1. n \in Nat /\ \A k \in 1 .. n + 1 : U[k] \in SUBSET Fields(s) /\ \A f \in U[k] : w[f] \in Values \cup {Absent}
  OBVIOUS
<1>2. \A k \in 1 .. n : U[k + 1] = U[k] \cup {fs[k]} /\ fs[k] \in Fields(s) /\ w[fs[k]] \in Values \cup {Absent}
  <2> SUFFICES ASSUME NEW k \in 1 .. n PROVE U[k + 1] = U[k] \cup {fs[k]}
    OBVIOUS
  <2>1. 1 .. k + 1 - 1 = 1 .. k - 1 \cup {k}
    OBVIOUS
  <2> QED
    BY <2>1
<1>3. U[1] = {} /\ U[n + 1] = F
  BY <1>1
<1>4. Len(q) = n /\ \A k \in 1 .. n : q[k] = Touch(s, i, fs[k], w[fs[k]])
  BY <1>1
<1> HIDE DEF U, F, q
<1>5. \A k \in 1 .. n : /\ q[k] \in Steps
                        /\ <<q[k], Laid(x, U[k], w), Laid(x, U[k] \cup {fs[k]}, w)>> \in CellMoves(s, i)
  <2> SUFFICES ASSUME NEW k \in 1 .. n
               PROVE  /\ q[k] \in Steps
                      /\ <<q[k], Laid(x, U[k], w), Laid(x, U[k] \cup {fs[k]}, w)>> \in CellMoves(s, i)
    OBVIOUS
  <2>1. k \in 1 .. n + 1
    BY <1>1
  <2>2. U[k] \in SUBSET Fields(s) /\ fs[k] \in Fields(s) /\ \A f \in U[k] \cup {fs[k]} : w[f] \in Values \cup {Absent}
    BY <1>1, <1>2, <2>1
  <2>3. q[k] = Touch(s, i, fs[k], w[fs[k]])
    BY <1>4
  <2>4. /\ Touch(s, i, fs[k], w[fs[k]]) \in Steps
        /\ <<Touch(s, i, fs[k], w[fs[k]]), Laid(x, U[k], w), Laid(x, U[k] \cup {fs[k]}, w)>> \in CellMoves(s, i)
    <3> DEFINE f == fs[k]
               G == U[k]
    <3>1. G \in SUBSET Fields(s) /\ f \in Fields(s) /\ \A g \in G \cup {f} : w[g] \in Values \cup {Absent}
      BY <2>2
    <3> HIDE DEF f, G
    <3>2. /\ Touch(s, i, f, w[f]) \in Steps
          /\ <<Touch(s, i, f, w[f]), Laid(x, G, w), Laid(x, G \cup {f}, w)>> \in CellMoves(s, i)
      BY <3>1, LaidMore
    <3> QED
      BY <3>2 DEF f, G
  <2> QED
    BY <2>3, <2>4
<1>6. q \in Seq(Steps)
  <2>1. DOMAIN q = 1 .. n /\ q = [k \in DOMAIN q |-> q[k]]
    BY DEF q
  <2>2. q \in [1 .. n -> Steps]
    BY <1>5, <2>1
  <2> QED
    BY <1>1, <2>2
<1>7. d \in [1 .. n + 1 -> Cells(s)] /\ d[1] = x /\ d[n + 1] = Laid(x, F, w)
  <2>1. \A k \in 1 .. n + 1 : Laid(x, U[k], w) \in Cells(s)
    BY <1>1, LaidIs
  <2>2. 1 \in 1 .. n + 1 /\ n + 1 \in 1 .. n + 1
    BY <1>1
  <2>3. Laid(x, U[1], w) = x
    BY <1>1, <1>3, <2>2, LaidIs
  <2> QED
    BY <1>3, <2>1, <2>2, <2>3
<1>8. \A k \in 1 .. n : <<q[k], d[k], d[k + 1]>> \in CellMoves(s, i)
  <2> SUFFICES ASSUME NEW k \in 1 .. n PROVE <<q[k], d[k], d[k + 1]>> \in CellMoves(s, i)
    OBVIOUS
  <2>1. k \in 1 .. n + 1 /\ k + 1 \in 1 .. n + 1
    BY <1>1
  <2>2. d[k] = Laid(x, U[k], w) /\ d[k + 1] = Laid(x, U[k] \cup {fs[k]}, w)
    BY <1>2, <2>1
  <2> QED
    BY <1>5, <2>2
<1> HIDE DEF d
<1>9. CellRuns(q, s, i, x, Laid(x, F, w))
  BY <1>4, <1>7, <1>8, Zenon DEF CellRuns, Runs
<1> QED
  BY <1>6, <1>9 DEF q, F

(* Storing a rule, and deleting it.                                        *)
LEMMA RuleCells ==
  ASSUME NEW s \in Sets, NEW i \in Ids, NEW x \in Cells(s)
  PROVE  /\ \A r \in Rules[s] : \E y \in Cells(s) :
              /\ db_set_filter_rule(s, i, r) \in Seq(Steps) /\ CellRuns(db_set_filter_rule(s, i, r), s, i, x, y)
              /\ y.named = DOMAIN r /\ \A f \in DOMAIN r : y.fld[f] = r[f]
              /\ y.entry = x.entry /\ y.regs = x.regs
         /\ x.named # Absent /\ x.named = flag[s][i] =>
              /\ db_delete_filter_rule(s, i) \in Seq(Steps)
              /\ CellRuns(db_delete_filter_rule(s, i), s, i, x, Dropped(x))
<1>1. /\ x.named \in (SUBSET Fields(s)) \cup {Absent} /\ x.fld \in [Fields(s) -> Values \cup {Absent}]
      /\ x.entry \in Halves /\ x.regs \in Halves
  BY CellsAre
<1>2. ASSUME NEW r \in Rules[s]
      PROVE  \E y \in Cells(s) :
              /\ db_set_filter_rule(s, i, r) \in Seq(Steps) /\ CellRuns(db_set_filter_rule(s, i, r), s, i, x, y)
              /\ y.named = DOMAIN r /\ \A f \in DOMAIN r : y.fld[f] = r[f]
              /\ y.entry = x.entry /\ y.regs = x.regs
  <2> DEFINE F == DOMAIN r
             fs == Named(s, F)
             z == Cell(F, x.fld, x.entry, x.regs)
             q == [k \in 1 .. Len(fs) |-> Touch(s, i, fs[k], r[fs[k]])]
             y == Laid(z, F, r)
  <2>1. F \in SUBSET Fields(s) /\ \A f \in F : r[f] \in Values /\ r[f] # Absent
    BY RuleAssumption DEF Values
  <2>2. z \in Cells(s) /\ z.named = F /\ z.entry = x.entry /\ z.regs = x.regs
    BY <1>1, <2>1, CellsAre
  <2>3. InsertFlag(s, i, F) \in Steps /\ CellGoes(InsertFlag(s, i, F), s, i, x, z)
    <3>1. InsertFlag(s, i, F) \in Steps
      BY <2>1, RuleSteps
    <3> QED
      BY <3>1 DEF CellGoes, OnKeys, InsertFlag
  <2> HIDE DEF z, F
  <2>4. fs \in Seq(Fields(s)) /\ F = {fs[k] : k \in 1 .. Len(fs)}
    BY <2>1, NamedFields, NamedAll
  <2>f. [k \in 1 .. Len(fs) |-> InsertField(s, i, fs[k], r[fs[k]])] = q
    <3>1. \A k \in 1 .. Len(fs) : r[fs[k]] # Absent
      BY <2>1, <2>4
    <3> QED
      BY <3>1 DEF Touch
  <2> HIDE DEF fs
  <2>5. \A k \in 1 .. Len(fs) : r[fs[k]] \in Values \cup {Absent}
    BY <2>1, <2>4
  <2>6. q \in Seq(Steps) /\ CellRuns(q, s, i, z, Laid(z, {fs[k] : k \in 1 .. Len(fs)}, r))
    BY <2>2, <2>4, <2>5, FieldCells
  <2>7. /\ y \in Cells(s) /\ y.named = F /\ y.entry = x.entry /\ y.regs = x.regs
        /\ \A f \in F : y.fld[f] = r[f]
    <3>1. \A f \in F : r[f] \in Values \cup {Absent}
      BY <2>1
    <3>2. /\ y \in Cells(s) /\ y.named = z.named /\ y.entry = z.entry /\ y.regs = z.regs
          /\ y.fld = [f \in Fields(s) |-> IF f \in F THEN r[f] ELSE z.fld[f]]
      BY <2>1, <2>2, <3>1, LaidIs
    <3> HIDE DEF y
    <3> QED
      BY <2>1, <2>2, <3>2
  <2>8. CellRuns(q, s, i, z, y)
    BY <2>4, <2>6
  <2> HIDE DEF q, y
  <2>9. <<InsertFlag(s, i, F)>> \in Seq(Steps) /\ CellRuns(<<InsertFlag(s, i, F)>>, s, i, x, z)
    BY <2>2, <2>3, CellOne
  <2>10. <<InsertFlag(s, i, F)>> \o q \in Seq(Steps) /\ CellRuns(<<InsertFlag(s, i, F)>> \o q, s, i, x, y)
    BY <2>6, <2>8, <2>9, CellCat
  <2>11. db_set_filter_rule(s, i, r) = <<InsertFlag(s, i, F)>> \o q
    BY <2>f DEF db_set_filter_rule, fs, F
  <2> QED
    BY <2>7, <2>10, <2>11 DEF F
<1>3. ASSUME x.named # Absent, x.named = flag[s][i]
      PROVE  /\ db_delete_filter_rule(s, i) \in Seq(Steps)
             /\ CellRuns(db_delete_filter_rule(s, i), s, i, x, Dropped(x))
  <2> DEFINE F == x.named
             w == [f \in Fields(s) |-> Absent]
             fs == Named(s, F)
             z == Cell(Absent, x.fld, x.entry, x.regs)
             q == [k \in 1 .. Len(fs) |-> Touch(s, i, fs[k], w[fs[k]])]
  <2>1. F \in SUBSET Fields(s) /\ \A f \in F : w[f] = Absent
    BY <1>1, <1>3
  <2>2. z \in Cells(s) /\ z.named = Absent /\ z.entry = x.entry /\ z.regs = x.regs /\ z.fld = x.fld
    BY <1>1, CellsAre
  <2>3. DeleteFlag(s, i) \in Steps /\ CellGoes(DeleteFlag(s, i), s, i, x, z)
    <3>1. DeleteFlag(s, i) \in Steps
      BY RuleSteps
    <3> QED
      BY <3>1 DEF CellGoes, OnKeys, DeleteFlag
  <2>4. fs \in Seq(Fields(s)) /\ F = {fs[k] : k \in 1 .. Len(fs)}
    BY <2>1, NamedFields, NamedAll
  <2> HIDE DEF z, F, fs
  <2>5. \A k \in 1 .. Len(fs) : w[fs[k]] = Absent
    BY <2>1, <2>4
  <2>f. [k \in 1 .. Len(fs) |-> DeleteField(s, i, fs[k])] = q
    BY <2>5 DEF Touch
  <2> HIDE DEF w
  <2>6. q \in Seq(Steps) /\ CellRuns(q, s, i, z, Laid(z, {fs[k] : k \in 1 .. Len(fs)}, w))
    <3>1. \A k \in 1 .. Len(fs) : w[fs[k]] \in Values \cup {Absent}
      BY <2>5
    <3> QED
      BY <2>2, <2>4, <3>1, FieldCells
  <2>7. Laid(z, F, w) = Dropped(x)
    <3>1. [f \in DOMAIN x.fld |-> IF f \in F THEN w[f] ELSE x.fld[f]] = [f \in DOMAIN x.fld |-> IF f \in F THEN Absent ELSE x.fld[f]]
      BY <2>1
    <3> QED
      BY <1>3, <2>2, <3>1 DEF Laid, Dropped, F
  <2>8. CellRuns(q, s, i, z, Dropped(x))
    BY <2>4, <2>6, <2>7
  <2> HIDE DEF q
  <2>9. <<DeleteFlag(s, i)>> \in Seq(Steps) /\ CellRuns(<<DeleteFlag(s, i)>>, s, i, x, z)
    BY <2>2, <2>3, CellOne
  <2>10. <<DeleteFlag(s, i)>> \o q \in Seq(Steps) /\ CellRuns(<<DeleteFlag(s, i)>> \o q, s, i, x, Dropped(x))
    BY <2>6, <2>8, <2>9, CellCat
  <2>11. db_delete_filter_rule(s, i) = <<DeleteFlag(s, i)>> \o q
    BY <1>3, <2>f DEF db_delete_filter_rule, fs, F
  <2> QED
    BY <2>10, <2>11
<1> QED
  BY <1>2, <1>3

(* Storing and deleting another rule leaves this one alone.                *)
LEMMA OtherRule ==
  ASSUME NEW s, NEW i, NEW u \in Sets, NEW k \in Ids, u = s => k # i
  PROVE  /\ \A r \in Rules[u] : db_set_filter_rule(u, k, r) \in Seq(Elsewhere(s, i))
         /\ db_delete_filter_rule(u, k) \in Seq(Elsewhere(s, i))
<1>1. ASSUME NEW t \in Steps, t.do \in OnKeys, t.s = u, t.id = k PROVE t \in Elsewhere(s, i)
  BY <1>1 DEF Elsewhere
<1>2. ASSUME NEW r \in Rules[u] PROVE db_set_filter_rule(u, k, r) \in Seq(Elsewhere(s, i))
  <2> DEFINE fs == Named(u, DOMAIN r)
             q == [j \in 1 .. Len(fs) |-> InsertField(u, k, fs[j], r[fs[j]])]
  <2>1. fs \in Seq(Fields(u)) /\ \A j \in 1 .. Len(fs) : fs[j] \in DOMAIN r
    BY NamedFields
  <2>2. DOMAIN r \subseteq Fields(u)
    BY RuleAssumption
  <2>3. InsertFlag(u, k, DOMAIN r) \in Elsewhere(s, i)
    <3>1. InsertFlag(u, k, DOMAIN r) \in Steps
      BY <2>2, RuleSteps
    <3> QED
      BY <1>1, <3>1 DEF InsertFlag, OnKeys
  <2>4. ASSUME NEW j \in 1 .. Len(fs) PROVE InsertField(u, k, fs[j], r[fs[j]]) \in Elsewhere(s, i)
    <3>1. r[fs[j]] \in Values /\ fs[j] \in Fields(u)
      BY <2>1 DEF Values
    <3> HIDE DEF fs
    <3>2. InsertField(u, k, fs[j], r[fs[j]]) \in Steps
      BY <3>1, RuleSteps
    <3> QED
      BY <1>1, <3>2 DEF InsertField, OnKeys
  <2> HIDE DEF fs
  <2>5. q \in Seq(Elsewhere(s, i))
    BY <2>1, <2>4
  <2> HIDE DEF q
  <2>6. <<InsertFlag(u, k, DOMAIN r)>> \o q \in Seq(Elsewhere(s, i))
    BY <2>3, <2>5
  <2> QED
    BY <2>6 DEF db_set_filter_rule, q, fs
<1>3. db_delete_filter_rule(u, k) \in Seq(Elsewhere(s, i))
  <2> DEFINE fs == Named(u, flag[u][k])
             q == [j \in 1 .. Len(fs) |-> DeleteField(u, k, fs[j])]
  <2>1. fs \in Seq(Fields(u))
    BY NamedFields
  <2>2. DeleteFlag(u, k) \in Elsewhere(s, i)
    <3>1. DeleteFlag(u, k) \in Steps
      BY RuleSteps
    <3> QED
      BY <1>1, <3>1 DEF DeleteFlag, OnKeys
  <2> HIDE DEF fs
  <2>3. ASSUME NEW j \in 1 .. Len(fs) PROVE DeleteField(u, k, fs[j]) \in Elsewhere(s, i)
    <3>1. fs[j] \in Fields(u)
      BY <2>1
    <3>2. DeleteField(u, k, fs[j]) \in Steps
      BY <3>1, RuleSteps
    <3> QED
      BY <1>1, <3>2 DEF DeleteField, OnKeys
  <2>4. q \in Seq(Elsewhere(s, i))
    BY <2>1, <2>3
  <2> HIDE DEF q
  <2>5. <<DeleteFlag(u, k)>> \o q \in Seq(Elsewhere(s, i))
    BY <2>2, <2>4
  <2> QED
    BY <2>5 DEF db_delete_filter_rule, q, fs
<1> QED
  BY <1>2, <1>3

(* What writing rule k of set u to the device makes of a cell: the         *)
(* registers are written even if the entry is another's.                   *)
Hits(u, k, s, i) == CamAddr(u, k) = CamAddr(s, i)
Silent(u, r) == u = 2 /\ DOMAIN r \intersect {"key", "every"} = {}
Written(u, k, r, s, i, x) ==
  IF Silent(u, r) THEN x
  ELSE Cell(x.named, x.fld, IF Hits(u, k, s, i) THEN Both(r) ELSE x.entry, Both(r))

LEMMA DeviceCells ==
  ASSUME Board # "none", NEW s \in Sets, NEW i \in Ids, NEW u \in Sets, NEW k \in Ids, NEW r \in RuleValues,
         NEW x \in Cells(s)
  PROVE  /\ drv_set_ruleset(u, k, r) \in Seq(Steps) /\ Written(u, k, r, s, i, x) \in Cells(s)
         /\ CellRuns(drv_set_ruleset(u, k, r), s, i, x, Written(u, k, r, s, i, x))
<1>0. /\ x.named \in (SUBSET Fields(s)) \cup {Absent} /\ x.fld \in [Fields(s) -> Values \cup {Absent}]
      /\ x.entry \in Halves /\ x.regs \in Halves
  BY CellsAre
<1>1. CASE Silent(u, r)
  <2>1. drv_set_ruleset(u, k, r) = <<>> /\ Written(u, k, r, s, i, x) = x
    BY <1>1 DEF drv_set_ruleset, Silent, Written
  <2>2. <<>> \in Seq(Steps) /\ CellRuns(<<>>, s, i, x, x)
    BY RunsEmpty DEF CellRuns
  <2> QED
    BY <2>1, <2>2
<1>2. CASE ~Silent(u, r)
  <2> DEFINE a == WriteHalf(1, r)
             b == WriteHalf(2, r)
             t == CamCommand(CamAddr(u, k))
             g == [x.regs EXCEPT ![1] = r]
             e == IF Hits(u, k, s, i) THEN Both(r) ELSE x.entry
             y == Cell(x.named, x.fld, x.entry, g)
             z == Cell(x.named, x.fld, x.entry, Both(r))
             v == Cell(x.named, x.fld, e, Both(r))
  <2>1. drv_set_ruleset(u, k, r) = <<a>> \o (<<b>> \o <<t>>)
    <3>1. drv_set_ruleset(u, k, r) = <<a, b, t>>
      BY <1>2 DEF drv_set_ruleset, WriteCam, Silent
    <3> HIDE DEF a, b, t
    <3>2. <<b>> \o <<t>> = <<b, t>>
      BY Two
    <3> QED
      BY <3>1, <3>2, Three
  <2>2. a \in Steps /\ b \in Steps /\ t \in Steps
    BY DeviceSteps
  <2>3. g \in Halves /\ Both(r) \in Halves /\ [g EXCEPT ![2] = r] = Both(r) /\ e \in Halves
    BY <1>0, HalvesAre
  <2>4. y \in Cells(s) /\ CellGoes(a, s, i, x, y)
    <3>1. y \in Cells(s)
      BY <1>0, <2>3, CellsAre
    <3>2. a.do = "reg" /\ a.h = 1 /\ a.r = r
      BY DEF WriteHalf
    <3> QED
      BY <3>1, <3>2 DEF CellGoes
  <2>5. z \in Cells(s) /\ CellGoes(b, s, i, y, z)
    <3>1. z \in Cells(s)
      BY <1>0, <2>3, CellsAre
    <3>2. b.do = "reg" /\ b.h = 2 /\ b.r = r
      BY DEF WriteHalf
    <3>3. y.named = x.named /\ y.fld = x.fld /\ y.entry = x.entry /\ y.regs = g
      BY CellsAre
    <3> HIDE DEF b, y, g
    <3> QED
      BY <2>3, <3>1, <3>2, <3>3 DEF CellGoes
  <2>6. v \in Cells(s) /\ CellGoes(t, s, i, z, v)
    <3>1. v \in Cells(s)
      BY <1>0, <2>3, CellsAre
    <3>2. t.do = "cam" /\ t.a = CamAddr(u, k)
      BY DEF CamCommand
    <3>3. z.named = x.named /\ z.fld = x.fld /\ z.entry = x.entry /\ z.regs = Both(r)
      BY CellsAre
    <3> HIDE DEF t, z
    <3> QED
      BY <3>1, <3>2, <3>3 DEF CellGoes, Hits
  <2>7. Written(u, k, r, s, i, x) = v
    BY <1>2 DEF Written
  <2> HIDE DEF a, b, t, y, z, v
  <2>8. <<b>> \o <<t>> \in Seq(Steps) /\ CellRuns(<<b>> \o <<t>>, s, i, y, v)
    BY <2>2, <2>4, <2>5, <2>6, CellOne, CellCat
  <2>9. <<a>> \o (<<b>> \o <<t>>) \in Seq(Steps) /\ CellRuns(<<a>> \o (<<b>> \o <<t>>), s, i, x, v)
    <3>1. <<a>> \in Seq(Steps) /\ CellRuns(<<a>>, s, i, x, y)
      BY <2>2, <2>4, CellOne
    <3> QED
      BY <2>8, <3>1, CellCat
  <2> QED
    BY <2>1, <2>6, <2>7, <2>9
<1> QED
  BY <1>1, <1>2

(* The reset of the device for one set, and what it makes of a cell.       *)
AfterReset(u, s, i, e) ==
  IF u = 1 /\ Hits(u, MaxRule - 1, s, i) THEN Both(AnyRule)
  ELSE IF \E k \in 1 .. MaxRule - 1 : Hits(u, k - 1, s, i) THEN Both(Nothing)
  ELSE e

LEMMA ResetCells ==
  ASSUME Board # "none", NEW s \in Sets, NEW i \in Ids, NEW u \in Sets, NEW x \in Cells(s)
  PROVE  /\ reset_filter_default_config(u) \in Seq(Steps)
         /\ \E y \in Cells(s) :
              /\ CellRuns(reset_filter_default_config(u), s, i, x, y)
              /\ y.named = x.named /\ y.fld = x.fld /\ y.entry = AfterReset(u, s, i, x.entry)
<1>0. /\ x.named \in (SUBSET Fields(s)) \cup {Absent} /\ x.fld \in [Fields(s) -> Values \cup {Absent}]
      /\ x.entry \in Halves /\ x.regs \in Halves /\ x = Cell(x.named, x.fld, x.entry, x.regs)
  BY CellsAre
<1>n. PICK n \in Nat \ {0} : n = MaxRule
  BY Numbers
<1>u. u \in {1, 2} /\ DOMAIN Nothing = {"every"} /\ DOMAIN AnyRule = {}
  BY Numbers DEF Nothing, AnyRule
<1> DEFINE hit(k) == Hits(u, k - 1, s, i)
           past(k) == \E j \in 1 .. k - 1 : j < n /\ hit(j)
           e(k) == IF k = n + 1 /\ u = 1 /\ hit(n) THEN Both(AnyRule)
                   ELSE IF past(k) THEN Both(Nothing) ELSE x.entry
           g(k) == IF k = n + 1 /\ u = 1 THEN Both(AnyRule)
                   ELSE IF \E j \in 1 .. k - 1 : j < n THEN Both(Nothing) ELSE x.regs
           v(k) == IF k < n THEN Nothing ELSE AnyRule
           piece(k) == drv_set_ruleset(u, k - 1, v(k))
           q == [k \in 1 .. n |-> piece(k)]
           d == [k \in 1 .. n + 1 |-> Cell(x.named, x.fld, e(k), g(k))]
<1>1. \A k \in 1 .. n + 1 : e(k) \in Halves /\ g(k) \in Halves
  BY <1>0, HalvesAre
<1>2. \A k \in 1 .. n : k - 1 \in Ids /\ v(k) \in RuleValues
  BY <1>n, HalvesAre DEF Ids
<1>3. \A k \in 1 .. n :
        Cell(x.named, x.fld, e(k + 1), g(k + 1)) = Written(u, k - 1, v(k), s, i, Cell(x.named, x.fld, e(k), g(k)))
  <2> SUFFICES ASSUME NEW k \in 1 .. n
               PROVE  Cell(x.named, x.fld, e(k + 1), g(k + 1))
                        = Written(u, k - 1, v(k), s, i, Cell(x.named, x.fld, e(k), g(k)))
    OBVIOUS
  <2> DEFINE z == Cell(x.named, x.fld, e(k), g(k))
  <2>1. z.named = x.named /\ z.fld = x.fld /\ z.entry = e(k) /\ z.regs = g(k)
    BY CellsAre
  <2> HIDE DEF z
  <2>2. CASE k < n
    <3>1. ~Silent(u, v(k)) /\ v(k) = Nothing
      BY <1>u, <2>2 DEF Silent
    <3>2. past(k + 1) <=> past(k) \/ hit(k)
      BY <2>2
    <3>3. k + 1 # n + 1 /\ k # n + 1 /\ k \in 1 .. k + 1 - 1
      BY <2>2
    <3>4. e(k + 1) = (IF hit(k) THEN Both(Nothing) ELSE e(k)) /\ g(k + 1) = Both(Nothing)
      <4> HIDE DEF hit
      <4>1. g(k + 1) = Both(Nothing)
        BY <2>2, <3>3
      <4> HIDE DEF past
      <4>2. e(k + 1) = IF hit(k) THEN Both(Nothing) ELSE e(k)
        BY <3>2, <3>3
      <4> QED
        BY <4>1, <4>2
    <3> HIDE DEF e, g
    <3> QED
      BY <2>1, <3>1, <3>4 DEF Written, z
  <2>3. CASE k = n
    <3>1. v(k) = AnyRule /\ (Silent(u, v(k)) <=> u = 2)
      BY <1>u, <2>3 DEF Silent
    <3>2. (past(k + 1) <=> past(k)) /\ k # n + 1 /\ k + 1 = n + 1
      BY <2>3
    <3>g. (\E j \in 1 .. k + 1 - 1 : j < n) <=> (\E j \in 1 .. k - 1 : j < n)
      BY <2>3
    <3>3. CASE u = 2
      <4>1. e(k + 1) = e(k) /\ g(k + 1) = g(k)
        <5> HIDE DEF hit, past
        <5> QED
          BY <3>2, <3>3, <3>g
      <4> HIDE DEF e, g
      <4> QED
        BY <3>1, <3>3, <4>1 DEF Written
    <3>4. CASE u = 1
      <4>1. e(k + 1) = (IF hit(k) THEN Both(AnyRule) ELSE e(k)) /\ g(k + 1) = Both(AnyRule)
        <5> HIDE DEF hit, past
        <5> QED
          BY <2>3, <3>2, <3>4
      <4> HIDE DEF e, g
      <4> QED
        BY <2>1, <3>1, <3>4, <4>1 DEF Written, z
    <3> QED
      BY <1>u, <3>3, <3>4
  <2> QED
    BY <2>2, <2>3
<1>4. e(1) = x.entry /\ g(1) = x.regs
  BY <1>n
<1>5. e(n + 1) = AfterReset(u, s, i, x.entry)
  <2>1. past(n + 1) <=> \E k \in 1 .. n - 1 : Hits(u, k - 1, s, i)
    OBVIOUS
  <2> HIDE DEF past
  <2> QED
    BY <1>n, <2>1 DEF AfterReset
<1> HIDE DEF e, g, v
<1>6. d \in [1 .. n + 1 -> Cells(s)]
  BY <1>0, <1>1, CellsAre
<1>7. ASSUME NEW k \in 1 .. n PROVE piece(k) \in Seq(Steps) /\ Runs(piece(k), CellMoves(s, i), Cells(s), d[k], d[k + 1])
  <2>1. k \in 1 .. n + 1 /\ k + 1 \in 1 .. n + 1
    OBVIOUS
  <2>2. d[k + 1] = Written(u, k - 1, v(k), s, i, d[k]) /\ d[k] \in Cells(s)
    BY <1>3, <1>6, <2>1
  <2> HIDE DEF d
  <2> QED
    BY <1>2, <2>2, DeviceCells DEF CellRuns
<1>8. d[1] = x /\ d[n + 1] = Cell(x.named, x.fld, e(n + 1), g(n + 1)) /\ d[n + 1] \in Cells(s)
  <2>1. 1 \in 1 .. n + 1 /\ n + 1 \in 1 .. n + 1
    OBVIOUS
  <2> QED
    BY <1>0, <1>4, <1>6, <2>1
<1> HIDE DEF d, piece
<1>9. q \in Seq(Seq(Steps)) /\ Len(q) = n /\ \A k \in 1 .. n : q[k] = piece(k)
  BY <1>7
<1>10. FlattenSeq(q) = reset_filter_default_config(u)
  BY <1>n DEF reset_filter_default_config, piece, v
<1> HIDE DEF q
<1>11. FlattenSeq(q) \in Seq(Steps) /\ CellRuns(FlattenSeq(q), s, i, d[1], d[n + 1])
  <2>1. \A k \in 1 .. Len(q) : Runs(q[k], CellMoves(s, i), Cells(s), d[k], d[k + 1])
    BY <1>7, <1>9
  <2>2. d \in [1 .. Len(q) + 1 -> Cells(s)]
    BY <1>6, <1>9
  <2> QED
    BY <1>9, <2>1, <2>2, RunsFlatten DEF CellRuns
<1>12. /\ d[n + 1].named = x.named /\ d[n + 1].fld = x.fld /\ d[n + 1].entry = e(n + 1)
  BY <1>8, CellsAre
<1> QED
  BY <1>5, <1>8, <1>10, <1>11, <1>12

(* What CamMatches says of a cell.                                         *)
Off(s, i, e) == e = Both(Nothing) \/ (i = MaxRule - 1 /\ (s = 2 \/ e = Both(AnyRule)))
Match(s, i, x) ==
  IF x.named = Absent THEN Off(s, i, x.entry)
  ELSE (s = 2 /\ "key" \notin x.named) \/ x.entry = Both([f \in x.named |-> x.fld[f]])

(* There is a device, and no two rules of the operators share an entry.    *)
Apart == Board # "none" /\ (Board = "MC10P_FLOW" => RuleIds \subseteq 0 .. CamSelect - 1)

(* What is done for each set.                                              *)
LEMMA PerSetCells ==
  ASSUME NEW s, NEW i, NEW steps, NEW x \in Cells(s), NEW y \in Cells(s), NEW z \in Cells(s),
         IF 1 \in Sets THEN steps[1] \in Seq(Steps) /\ CellRuns(steps[1], s, i, x, y) ELSE y = x,
         IF 2 \in Sets THEN steps[2] \in Seq(Steps) /\ CellRuns(steps[2], s, i, y, z) ELSE z = y
  PROVE  PerSet(steps) \in Seq(Steps) /\ CellRuns(PerSet(steps), s, i, x, z)
<1> DEFINE p == IF 1 \in Sets THEN steps[1] ELSE <<>>
           q == IF 2 \in Sets THEN steps[2] ELSE <<>>
<1>1. \A a \in Cells(s) : <<>> \in Seq(Steps) /\ CellRuns(<<>>, s, i, a, a)
  BY RunsEmpty DEF CellRuns
<1>2. p \in Seq(Steps) /\ CellRuns(p, s, i, x, y)
  BY <1>1
<1>3. q \in Seq(Steps) /\ CellRuns(q, s, i, y, z)
  BY <1>1
<1>4. PerSet(steps) = p \o q
  BY DEF PerSet
<1> HIDE DEF p, q
<1> QED
  BY <1>2, <1>3, <1>4, CellCat

(* A reset of the device leaves the entry of every rule as it should be    *)
(* for one that is absent: the entries of set 1 are not those of set 2,    *)
(* and those of set 2 are written after those of set 1.                    *)
LEMMA DeviceReset ==
  ASSUME Apart, NEW s \in Sets, NEW i \in RuleIds, NEW x \in Cells(s)
  PROVE  LET q == PerSet([u \in Sets |-> reset_filter_default_config(u)])
         IN  /\ q \in Seq(Steps)
             /\ \E y \in Cells(s) : CellRuns(q, s, i, x, y) /\ y.named = x.named /\ y.fld = x.fld /\ Off(s, i, y.entry)
<1> DEFINE steps == [u \in Sets |-> reset_filter_default_config(u)]
<1>0. s \in {1, 2} /\ i \in Ids /\ MaxRule \in Nat \ {0} /\ Board # "none" /\ Sets \subseteq {1, 2}
  BY Numbers DEF Apart
<1>1. ASSUME NEW u \in Sets, NEW a \in Cells(s)
      PROVE  /\ steps[u] \in Seq(Steps)
             /\ \E b \in Cells(s) :
                  /\ CellRuns(steps[u], s, i, a, b) /\ b.named = a.named /\ b.fld = a.fld
                  /\ u = s => Off(s, i, b.entry)
                  /\ s = 1 /\ u = 2 => b.entry = a.entry
  <2>1. PICK b \in Cells(s) :
          /\ CellRuns(reset_filter_default_config(u), s, i, a, b)
          /\ b.named = a.named /\ b.fld = a.fld /\ b.entry = AfterReset(u, s, i, a.entry)
    BY <1>0, ResetCells
  <2>2. reset_filter_default_config(u) \in Seq(Steps)
    BY <1>0, <2>1, ResetCells
  <2>3. \A k \in Ids : Hits(u, k, s, i) /\ s = 1 => u = 1 /\ k = i
    BY Addresses DEF Hits, Apart
  <2>4. MaxRule - 1 \in Ids /\ \A k \in 1 .. MaxRule - 1 : k - 1 \in Ids
    BY <1>0 DEF Ids
  <2>5. ASSUME u = s PROVE Off(s, i, b.entry)
    <3>1. CASE i = MaxRule - 1
      <4>1. s = 1 => Hits(u, MaxRule - 1, s, i)
        BY <2>5, <3>1 DEF Hits
      <4> QED
        BY <1>0, <2>1, <2>5, <3>1, <4>1 DEF Off, AfterReset
    <3>2. CASE i # MaxRule - 1
      <4>1. PICK j \in 1 .. MaxRule - 1 : j - 1 = i
        <5>1. PICK j \in Nat : j = i + 1
          BY <1>0 DEF Ids
        <5>2. j \in 1 .. MaxRule - 1 /\ j - 1 = i
          BY <1>0, <3>2, <5>1 DEF Ids
        <5> QED
          BY <5>2
      <4>2. Hits(u, j - 1, s, i)
        BY <2>5, <4>1 DEF Hits
      <4>3. ~(u = 1 /\ Hits(u, MaxRule - 1, s, i))
        BY <2>3, <2>4, <2>5, <3>2
      <4>4. \E k \in 1 .. MaxRule - 1 : Hits(u, k - 1, s, i)
        BY <4>2, Zenon
      <4>5. b.entry = Both(Nothing)
        BY <2>1, <4>3, <4>4 DEF AfterReset
      <4> QED
        BY <4>5 DEF Off
    <3> QED
      BY <3>1, <3>2
  <2>6. ASSUME s = 1, u = 2 PROVE b.entry = a.entry
    <3>1. ~(u = 1) /\ \A k \in 1 .. MaxRule - 1 : ~Hits(u, k - 1, s, i)
      BY <2>3, <2>4, <2>6
    <3> QED
      BY <2>1, <3>1 DEF AfterReset
  <2> QED
    BY <2>1, <2>2, <2>5, <2>6
<1> HIDE DEF steps
<1>2. PICK y \in Cells(s) :
        /\ IF 1 \in Sets THEN steps[1] \in Seq(Steps) /\ CellRuns(steps[1], s, i, x, y) ELSE y = x
        /\ y.named = x.named /\ y.fld = x.fld
        /\ s = 1 => Off(s, i, y.entry)
  <2>1. CASE 1 \in Sets
    BY <1>1, <2>1
  <2>2. CASE 1 \notin Sets
    BY <2>2
  <2> QED
    BY <2>1, <2>2
<1>3. PICK z \in Cells(s) :
        /\ IF 2 \in Sets THEN steps[2] \in Seq(Steps) /\ CellRuns(steps[2], s, i, y, z) ELSE z = y
        /\ z.named = y.named /\ z.fld = y.fld
        /\ s = 2 => Off(s, i, z.entry)
        /\ s = 1 => z.entry = y.entry
  <2>1. CASE 2 \in Sets
    <3>1. PICK z \in Cells(s) :
            /\ CellRuns(steps[2], s, i, y, z) /\ z.named = y.named /\ z.fld = y.fld
            /\ 2 = s => Off(s, i, z.entry)
            /\ s = 1 /\ 2 = 2 => z.entry = y.entry
      BY <1>1, <2>1
    <3>2. steps[2] \in Seq(Steps)
      BY <1>1, <2>1
    <3> QED
      BY <2>1, <3>1, <3>2
  <2>2. CASE 2 \notin Sets
    BY <2>2
  <2> QED
    BY <2>1, <2>2
<1>4. PerSet(steps) \in Seq(Steps) /\ CellRuns(PerSet(steps), s, i, x, z)
  BY <1>2, <1>3, PerSetCells
<1>5. Off(s, i, z.entry)
  BY <1>0, <1>2, <1>3
<1>6. z.named = x.named /\ z.fld = x.fld
  BY <1>2, <1>3
<1> QED
  BY <1>4, <1>5, <1>6 DEF steps

(* Counting through the sets and dropping what is there.                   *)
LEMMA CountReset ==
  ASSUME NEW s \in Sets, NEW i, NEW x \in Cells(s)
  PROVE  LET q == PerSet([u \in Sets |-> cli_reset_default_config_db(u)])
         IN  q \in Seq(Steps) /\ CellRuns(q, s, i, x, Dropped(x))
<1> DEFINE steps == [u \in Sets |-> cli_reset_default_config_db(u)]
           y == IF s = 1 THEN Dropped(x) ELSE x
<1>0. s \in {1, 2} /\ Dropped(x) \in Cells(s)
  BY Numbers, DroppedIs
<1>1. ASSUME NEW u \in Sets
      PROVE  /\ steps[u] \in Seq(Steps)
             /\ u = s => CellRuns(steps[u], s, i, x, Dropped(x))
             /\ u # s => \A a \in Cells(s) : CellRuns(steps[u], s, i, a, a)
  <2>1. steps[u] = <<Count("reset", u)>>
    BY DEF cli_reset_default_config_db
  <2>2. Count("reset", u) \in Steps
    BY RuleSteps
  <2>3. u = s => CellGoes(Count("reset", u), s, i, x, Dropped(x))
    BY DEF CellGoes, Count
  <2>4. ASSUME u # s, NEW a \in Cells(s) PROVE CellGoes(Count("reset", u), s, i, a, a)
    <3>1. Count("reset", u) \in Elsewhere(s, i)
      BY <2>2, <2>4 DEF Elsewhere, Count
    <3> QED
      BY <3>1 DEF CellGoes
  <2>5. Count("reset", u) \in Steps => <<Count("reset", u)>> \in Seq(Steps)
    OBVIOUS
  <2> HIDE DEF steps
  <2> QED
    BY <1>0, <2>1, <2>2, <2>3, <2>4, <2>5, CellOne
<1> HIDE DEF steps
<1>2. CASE s = 1
  <2>1. /\ steps[1] \in Seq(Steps) /\ CellRuns(steps[1], s, i, x, Dropped(x))
    BY <1>1, <1>2
  <2>2. 2 \in Sets => steps[2] \in Seq(Steps) /\ CellRuns(steps[2], s, i, Dropped(x), Dropped(x))
    BY <1>0, <1>1, <1>2
  <2>3. PerSet(steps) \in Seq(Steps) /\ CellRuns(PerSet(steps), s, i, x, Dropped(x))
    BY <1>0, <1>2, <2>1, <2>2, PerSetCells
  <2> QED
    BY <2>3 DEF steps
<1>3. CASE s = 2
  <2>1. /\ steps[2] \in Seq(Steps) /\ CellRuns(steps[2], s, i, x, Dropped(x))
    BY <1>1, <1>3
  <2>2. 1 \in Sets => steps[1] \in Seq(Steps) /\ CellRuns(steps[1], s, i, x, x)
    BY <1>0, <1>1, <1>3
  <2>3. PerSet(steps) \in Seq(Steps) /\ CellRuns(PerSet(steps), s, i, x, Dropped(x))
    BY <1>0, <1>3, <2>1, <2>2, PerSetCells
  <2> QED
    BY <2>3 DEF steps
<1> QED
  BY <1>0, <1>2, <1>3

(* The steps of a command that leave every rule alone.                     *)
LEMMA CommonSteps ==
  ASSUME NEW s, NEW i
  PROVE  /\ Lock \in Elsewhere(s, i) /\ Unlock \in Elsewhere(s, i)
         /\ \A p \in {"uninit", "init", "signals", "global"} : Plain(p) \in Elsewhere(s, i)
         /\ \A u \in Sets, n \in Count32 : SetNum(u, n) \in Elsewhere(s, i)
         /\ \A u \in Sets : Count("save", u) \in Elsewhere(s, i)
<1>1. Lock \in Elsewhere(s, i) /\ Unlock \in Elsewhere(s, i)
  BY PlainSteps DEF Elsewhere, Lock, Unlock
<1>2. \A p \in {"uninit", "init", "signals", "global"} : Plain(p) \in Elsewhere(s, i)
  BY PlainSteps DEF Elsewhere, Plain
<1>3. \A u \in Sets, n \in Count32 : SetNum(u, n) \in Elsewhere(s, i)
  BY RuleSteps DEF Elsewhere, SetNum
<1>4. \A u \in Sets : Count("save", u) \in Elsewhere(s, i)
  <2> SUFFICES ASSUME NEW u \in Sets PROVE Count("save", u) \in Elsewhere(s, i)
    OBVIOUS
  <2>1. Count("save", u) \in Steps
    BY RuleSteps
  <2> QED
    BY <2>1 DEF Elsewhere, Count
<1> QED
  BY <1>1, <1>2, <1>3, <1>4

(* A reset takes every rule to one that matches nothing, or everything in  *)
(* the last entry.                                                         *)
LEMMA ResetAll ==
  ASSUME Apart, NEW s \in Sets, NEW i \in RuleIds, NEW x \in Cells(s)
  PROVE  /\ cli_reset_default_config \in Seq(Steps)
         /\ \E z \in Cells(s) : CellRuns(cli_reset_default_config, s, i, x, z) /\ Match(s, i, z)
<1> DEFINE p == PerSet([u \in Sets |-> reset_filter_default_config(u)])
           q == PerSet([u \in Sets |-> cli_reset_default_config_db(u)])
<1>1. PICK y \in Cells(s) : CellRuns(p, s, i, x, y) /\ y.named = x.named /\ y.fld = x.fld /\ Off(s, i, y.entry)
  BY DeviceReset
<1>2. p \in Seq(Steps)
  BY DeviceReset
<1>3. q \in Seq(Steps) /\ CellRuns(q, s, i, y, Dropped(y))
  BY CountReset
<1> DEFINE z == Dropped(y)
<1>4. z \in Cells(s) /\ z.named = Absent /\ z.entry = y.entry
  BY DroppedIs
<1> HIDE DEF z
<1>5. Match(s, i, z)
  BY <1>1, <1>4 DEF Match
<1>6. \A a \in Cells(s) : /\ <<Lock>> \in Seq(Steps) /\ CellRuns(<<Lock>>, s, i, a, a)
                          /\ <<Unlock>> \in Seq(Steps) /\ CellRuns(<<Unlock>>, s, i, a, a)
  <2>1. <<Lock>> \in Seq(Elsewhere(s, i)) /\ <<Unlock>> \in Seq(Elsewhere(s, i))
    BY CommonSteps
  <2> QED
    BY <2>1, CellStays
<1>7. Body = p \o q
  BY DEF Body
<1> HIDE DEF p, q
<1>8. Body \in Seq(Steps) /\ CellRuns(Body, s, i, x, z)
  BY <1>1, <1>2, <1>3, <1>7, CellCat DEF z
<1>9. <<Lock>> \o Body \in Seq(Steps) /\ CellRuns(<<Lock>> \o Body, s, i, x, z)
  BY <1>6, <1>8, CellCat
<1>10. <<Lock>> \o Body \o <<Unlock>> \in Seq(Steps) /\ CellRuns(<<Lock>> \o Body \o <<Unlock>>, s, i, x, z)
  BY <1>4, <1>6, <1>9, CellCat
<1> QED
  BY <1>4, <1>5, <1>10, Plans

(* A save changes nothing.                                                 *)
LEMMA SaveAll ==
  ASSUME NEW s \in Sets, NEW i, NEW x \in Cells(s)
  PROVE  cli_save_config \in Seq(Steps) /\ CellRuns(cli_save_config, s, i, x, x)
<1>1. SaveBody \in Seq(Elsewhere(s, i))
  <2> DEFINE steps == [u \in Sets |-> cli_save_config_filter(u)]
  <2>1. \A u \in Sets : steps[u] \in Seq(Elsewhere(s, i))
    BY CommonSteps DEF cli_save_config_filter
  <2> HIDE DEF steps
  <2>2. PerSet(steps) \in Seq(Elsewhere(s, i))
    BY <2>1, PerSetIn
  <2> QED
    BY <2>2 DEF SaveBody, steps
<1>2. <<Lock>> \in Seq(Elsewhere(s, i)) /\ <<Plain("global"), Unlock>> \in Seq(Elsewhere(s, i))
  BY CommonSteps
<1>3. <<Lock>> \o SaveBody \o <<Plain("global"), Unlock>> \in Seq(Elsewhere(s, i))
  BY <1>1, <1>2
<1> QED
  BY <1>3, Plans, CellStays

(* The start of a cli, whatever it finds.                                  *)
LEMMA StartupAll ==
  ASSUME Apart, NEW s \in Sets, NEW i \in RuleIds, NEW x \in Cells(s)
  PROVE  /\ Startup(TRUE) \in Seq(Steps) /\ CellRuns(Startup(TRUE), s, i, x, x)
         /\ Startup(FALSE) \in Seq(Steps)
         /\ \E z \in Cells(s) : CellRuns(Startup(FALSE), s, i, x, z) /\ Match(s, i, z)
<1>1. Startup(TRUE) \in Seq(Steps) /\ CellRuns(Startup(TRUE), s, i, x, x)
  <2>1. <<Unlock, Plain("signals")>> \in Seq(Elsewhere(s, i))
    BY CommonSteps
  <2> QED
    BY <2>1, Plans, CellStays
<1> DEFINE r == cli_reset_default_config
           t == <<Plain("init"), Unlock, Plain("signals")>>
           b == <<Plain("uninit")>> \o ZeroBody
<1>2. b \in Seq(Elsewhere(s, i)) /\ t \in Seq(Elsewhere(s, i))
  <2> DEFINE steps == [u \in Sets |-> db_init_config(u)]
  <2>1. \A u \in Sets : steps[u] \in Seq(Elsewhere(s, i))
    <3>1. 0 \in Count32
      BY Numbers DEF Count32
    <3> QED
      BY <3>1, CommonSteps DEF db_init_config
  <2> HIDE DEF steps
  <2>2. PerSet(steps) \in Seq(Elsewhere(s, i))
    BY <2>1, PerSetIn
  <2>3. ZeroBody \in Seq(Elsewhere(s, i))
    BY <2>2 DEF ZeroBody, steps
  <2>4. <<Plain("uninit")>> \in Seq(Elsewhere(s, i)) /\ t \in Seq(Elsewhere(s, i))
    BY CommonSteps
  <2> QED
    BY <2>3, <2>4
<1>3. Startup(FALSE) = b \o r \o t \o r
  BY Plans
<1> HIDE DEF b, t
<1>4. PICK y \in Cells(s) : r \in Seq(Steps) /\ CellRuns(r, s, i, x, y)
  BY ResetAll
<1>5. PICK z \in Cells(s) : CellRuns(r, s, i, y, z) /\ Match(s, i, z)
  BY ResetAll
<1>6. b \in Seq(Steps) /\ CellRuns(b, s, i, x, x) /\ t \in Seq(Steps) /\ CellRuns(t, s, i, y, y)
  BY <1>2, CellStays
<1> HIDE DEF r
<1>7. b \o r \in Seq(Steps) /\ CellRuns(b \o r, s, i, x, y)
  BY <1>4, <1>6, CellCat
<1>8. b \o r \o t \in Seq(Steps) /\ CellRuns(b \o r \o t, s, i, x, y)
  BY <1>6, <1>7, CellCat
<1>9. b \o r \o t \o r \in Seq(Steps) /\ CellRuns(b \o r \o t \o r, s, i, x, z)
  BY <1>4, <1>5, <1>8, CellCat
<1> QED
  BY <1>1, <1>3, <1>5, <1>9

-----------------------------------------------------------------------------
(* What is left of the command takes every rule of the operators to an     *)
(* entry that matches it.  Before its branch a command finds it so.        *)
CellNow(s, i) == Cell(flag[s][i], field[s][i], cam[CamAddr(s, i)], regs)
CamTypes == regs \in Halves /\ cam \in [Entries -> Halves]
Ended(q, s, i, x) == \E z \in Cells(s) : CellRuns(q, s, i, x, z) /\ Match(s, i, z)
Celled(c, s, i) ==
  \/ ~inited /\ todo[c] = <<>>
  \/ \E t \in Steps : /\ t.do \in Branches /\ todo[c] \in {<<Lock, t>>, <<t>>}
                      /\ inited => Match(s, i, CellNow(s, i))
                      /\ t.do \in {"set", "clear"} => t.id \in RuleIds
  \/ Ended(todo[c], s, i, CellNow(s, i))
CInv == faults = 0 => CamTypes /\ \A c \in Clis, s \in Sets, i \in RuleIds : Celled(c, s, i)

(* The cell of a rule, as it is now.                                       *)
LEMMA CellNowIs ==
  ASSUME Shapes, CamTypes, NEW s \in Sets, NEW i \in Ids
  PROVE  /\ CellNow(s, i) \in Cells(s)
         /\ CellNow(s, i).named = flag[s][i] /\ CellNow(s, i).fld = field[s][i]
         /\ CellNow(s, i).entry = cam[CamAddr(s, i)] /\ CellNow(s, i).regs = regs
<1>1. flag[s][i] \in (SUBSET Fields(s)) \cup {Absent} /\ field[s][i] \in [Fields(s) -> Values \cup {Absent}]
  BY DEF Shapes, Exists
<1>2. CamAddr(s, i) \in Entries
  BY DEF Entries
<1>3. cam[CamAddr(s, i)] \in Halves /\ regs \in Halves
  BY <1>2 DEF CamTypes
<1> QED
  BY <1>1, <1>3, CellsAre DEF CellNow

(* A step that changes no part of it.                                      *)
LEMMA CellRead ==
  ASSUME UNCHANGED <<flag, field, cam, regs>>, NEW s, NEW i
  PROVE  CellNow(s, i)' = CellNow(s, i)
BY DEF CellNow

(* What a step makes of a cell, by its kind.                               *)
LEMMA ElsewhereIs ==
  ASSUME NEW t, NEW s, NEW i, t \in Elsewhere(s, i)
  PROVE  \/ t.do \in {"lock", "unlock", "uninit", "init", "signals", "global", "num"}
         \/ t.do \in OnKeys /\ ~(t.s = s /\ t.id = i)
         \/ t.do \in {"count", "scan"} /\ ~(t.s = s /\ t.mode = "reset")
BY DEF Elsewhere

LEMMA PlainGoes ==
  ASSUME NEW t \in Steps, NEW s, NEW i, NEW x, NEW y, CellGoes(t, s, i, x, y)
  PROVE  /\ t.do \notin Branches
         /\ t.do \in {"lock", "unlock", "uninit", "init", "signals", "global", "num"} => y = x
         /\ t.do \in OnKeys /\ ~(t.s = s /\ t.id = i) => y = x
<1>1. t.do \notin Branches
  BY ElsewhereIs DEF CellGoes, OnKeys, Branches
<1>2. t.do \in {"lock", "unlock", "uninit", "init", "signals", "global", "num"} => y = x
  BY DEF CellGoes, OnKeys
<1>3. t.do \in OnKeys /\ ~(t.s = s /\ t.id = i) => y = x
  BY DEF CellGoes, OnKeys
<1> QED
  BY <1>1, <1>2, <1>3

LEMMA KeyGoes ==
  ASSUME NEW t \in Steps, NEW s, NEW i, NEW x, NEW y, CellGoes(t, s, i, x, y), t.do \in OnKeys, t.s = s, t.id = i
  PROVE  \/ t.do = "flag" /\ y = Cell(t.fs, x.fld, x.entry, x.regs)
         \/ t.do = "field" /\ y = Cell(x.named, [x.fld EXCEPT ![t.f] = t.v], x.entry, x.regs)
         \/ t.do = "delflag" /\ y = Cell(Absent, x.fld, x.entry, x.regs)
         \/ t.do = "delfield" /\ y = Cell(x.named, [x.fld EXCEPT ![t.f] = Absent], x.entry, x.regs)
<1>1. t \notin Elsewhere(s, i)
  BY ElsewhereIs DEF OnKeys
<1> QED
  BY <1>1 DEF CellGoes, OnKeys

LEMMA LoopGoes ==
  ASSUME NEW t \in Steps, NEW s, NEW i, NEW x, NEW y, CellGoes(t, s, i, x, y), t.do \in {"count", "scan"}
  PROVE  y = IF t.s = s /\ t.mode = "reset" THEN Dropped(x) ELSE x
BY ElsewhereIs DEF CellGoes, OnKeys

LEMMA DeviceGoes ==
  ASSUME NEW t \in Steps, NEW s, NEW i, NEW x, NEW y, CellGoes(t, s, i, x, y), t.do \in {"reg", "cam"}
  PROVE  \/ t.do = "reg" /\ y = Cell(x.named, x.fld, x.entry, [x.regs EXCEPT ![t.h] = t.r])
         \/ t.do = "cam" /\ y = Cell(x.named, x.fld, IF t.a = CamAddr(s, i) THEN x.regs ELSE x.entry, x.regs)
BY ElsewhereIs DEF CellGoes, OnKeys

(* A command goes on with a sequence that does what its step does.         *)
LEMMA RunOn ==
  ASSUME Types, NEW c \in Clis, todo[c] # <<>>, NEW s, NEW i, Ended(todo[c], s, i, CellNow(s, i)),
         NEW p \in Seq(Steps), todo' = [todo EXCEPT ![c] = p \o Rest(c)],
         \A y \in Cells(s) : CellGoes(Head(todo[c]), s, i, CellNow(s, i), y) => CellRuns(p, s, i, CellNow(s, i)', y)
  PROVE  Celled(c, s, i)'
<1>1. todo[c] \in Seq(Steps) /\ Rest(c) \in Seq(Steps) /\ todo'[c] = p \o Rest(c)
  BY DEF Types, Rest
<1>2. PICK z \in Cells(s) : CellRuns(todo[c], s, i, CellNow(s, i), z) /\ Match(s, i, z)
  BY DEF Ended
<1>3. PICK y \in Cells(s) : <<Head(todo[c]), CellNow(s, i), y>> \in CellMoves(s, i) /\ CellRuns(Rest(c), s, i, y, z)
  BY <1>1, <1>2, RunsHead DEF CellRuns, Rest
<1>4. CellGoes(Head(todo[c]), s, i, CellNow(s, i), y)
  BY <1>3 DEF CellMoves
<1>5. CellRuns(p \o Rest(c), s, i, CellNow(s, i)', z)
  BY <1>1, <1>3, <1>4, CellCat
<1>6. Ended(todo'[c], s, i, CellNow(s, i)')
  BY <1>1, <1>2, <1>5 DEF Ended
<1>7. Ended(todo[c], s, i, CellNow(s, i))'
  BY <1>6 DEF Ended
<1> QED
  BY <1>7 DEF Celled

(* So does one that is past its lock and its branch.                       *)
LEMMA GoesOn ==
  ASSUME Types, NEW c \in Clis, todo[c] # <<>>, Head(todo[c]).do \notin Branches \cup {"lock"},
         NEW s, NEW i, Celled(c, s, i),
         NEW p \in Seq(Steps), todo' = [todo EXCEPT ![c] = p \o Rest(c)],
         \A y \in Cells(s) : CellGoes(Head(todo[c]), s, i, CellNow(s, i), y) => CellRuns(p, s, i, CellNow(s, i)', y)
  PROVE  Celled(c, s, i)'
<1>1. ASSUME NEW t \in Steps, t.do \in Branches, todo[c] \in {<<Lock, t>>, <<t>>} PROVE FALSE
  <2>1. Head(todo[c]) = Lock \/ Head(todo[c]) = t
    BY <1>1
  <2> QED
    BY <1>1, <2>1 DEF Lock
<1>2. Ended(todo[c], s, i, CellNow(s, i))
  BY <1>1 DEF Celled
<1> QED
  BY <1>2, RunOn

(* And one whose step is all that was to do.                               *)
LEMMA Follow ==
  ASSUME Types, NEW c \in Clis, todo[c] # <<>>, NEW s, NEW i, Celled(c, s, i),
         Head(todo[c]).do \notin Branches,
         Head(todo[c]).do = "lock" => Ended(todo[c], s, i, CellNow(s, i)),
         todo' = [todo EXCEPT ![c] = Rest(c)],
         \A y \in Cells(s) : CellGoes(Head(todo[c]), s, i, CellNow(s, i), y) => CellNow(s, i)' = y
  PROVE  Celled(c, s, i)'
<1> DEFINE p == <<>>
<1>1. p \in Seq(Steps) /\ Rest(c) \in Seq(Steps)
  BY DEF Types, Rest
<1>2. p \o Rest(c) = Rest(c)
  BY <1>1
<1>3. ASSUME NEW y \in Cells(s), CellGoes(Head(todo[c]), s, i, CellNow(s, i), y) PROVE CellRuns(p, s, i, CellNow(s, i)', y)
  <2>1. CellNow(s, i)' = y
    BY <1>3
  <2>2. CellRuns(<<>>, s, i, y, y)
    BY RunsEmpty DEF CellRuns
  <2> QED
    BY <2>1, <2>2
<1> HIDE DEF p
<1>4. todo' = [todo EXCEPT ![c] = p \o Rest(c)]
  BY <1>2
<1>5. CASE Head(todo[c]).do = "lock"
  BY <1>1, <1>3, <1>4, <1>5, RunOn
<1>6. CASE Head(todo[c]).do # "lock"
  BY <1>1, <1>3, <1>4, <1>6, GoesOn
<1> QED
  BY <1>5, <1>6

(* Steps that change no part of a rule.                                    *)
LEMMA PlainCells ==
  ASSUME Sound, CamTypes, NEW c \in Clis, todo[c] # <<>>, NEW s \in Sets, NEW i \in RuleIds, Celled(c, s, i),
         Head(todo[c]).do \in {"unlock", "uninit", "init", "signals", "global", "num"},
         todo' = [todo EXCEPT ![c] = Rest(c)], UNCHANGED <<flag, field, cam, regs>>
  PROVE  Celled(c, s, i)'
<1>1. Head(todo[c]) \in Steps
  BY DEF Sound, Types
<1>2. CellNow(s, i)' = CellNow(s, i)
  BY CellRead
<1>3. ASSUME NEW y \in Cells(s), CellGoes(Head(todo[c]), s, i, CellNow(s, i), y) PROVE CellNow(s, i)' = y
  BY <1>1, <1>2, <1>3, PlainGoes
<1>4. Head(todo[c]).do \notin Branches /\ Head(todo[c]).do # "lock"
  BY DEF Branches
<1> QED
  BY <1>3, <1>4, Follow DEF Sound

(* Nor does a lock: a command is at its branch, or goes on.                *)
LEMMA LockCells ==
  ASSUME Sound, CamTypes, NEW c \in Clis, cli_db_lock(c), NEW s \in Sets, NEW i \in RuleIds, Celled(c, s, i)
  PROVE  Celled(c, s, i)'
<1>1. /\ todo[c] # <<>> /\ Head(todo[c]).do = "lock" /\ todo' = [todo EXCEPT ![c] = Rest(c)]
      /\ UNCHANGED <<flag, field, cam, regs>> /\ inited' = inited
  BY DEF cli_db_lock, Running, Become, dbvars, hwvars
<1>2. Head(todo[c]) \in Steps /\ todo'[c] = Rest(c)
  BY <1>1 DEF Sound, Types
<1>3. CellNow(s, i)' = CellNow(s, i)
  BY <1>1, CellRead
<1>4. CASE Ended(todo[c], s, i, CellNow(s, i))
  <2>1. ASSUME NEW y \in Cells(s), CellGoes(Head(todo[c]), s, i, CellNow(s, i), y) PROVE CellNow(s, i)' = y
    BY <1>1, <1>2, <1>3, <2>1, PlainGoes
  <2>2. Head(todo[c]).do \notin Branches
    BY <1>1 DEF Branches
  <2> QED
    BY <1>1, <1>4, <2>1, <2>2, Follow DEF Sound
<1>5. CASE ~Ended(todo[c], s, i, CellNow(s, i))
  <2>1. PICK t \in Steps : /\ t.do \in Branches /\ todo[c] \in {<<Lock, t>>, <<t>>}
                           /\ inited => Match(s, i, CellNow(s, i))
                           /\ t.do \in {"set", "clear"} => t.id \in RuleIds
    BY <1>1, <1>5 DEF Celled
  <2>2. todo[c] # <<t>>
    BY <1>1, <2>1 DEF Branches
  <2>3. todo'[c] = <<t>>
    <3>1. todo[c] = <<Lock, t>>
      BY <2>1, <2>2
    <3> QED
      BY <1>2, <3>1 DEF Rest
  <2>4. inited' => Match(s, i, CellNow(s, i)')
    BY <1>1, <1>3, <2>1
  <2>5. inited' => Match(s, i, CellNow(s, i))'
    BY <2>4 DEF Match, Off
  <2> QED
    BY <2>1, <2>3, <2>5 DEF Celled
<1> QED
  BY <1>4, <1>5

(* What a device step carries.                                             *)
LEMMA DeviceKinds ==
  ASSUME NEW t \in Steps
  PROVE  /\ t.do = "reg" => t.h \in {1, 2} /\ t.r \in RuleValues
         /\ t.do = "cam" => t.a \in Entries
<1>1. \A u \in Sets : t \in StepsOf(u) => t.do \notin {"reg", "cam"}
  BY DEF StepsOf
<1>2. t.do \in {"reg", "cam"} => \/ t \in [do : {"reg"}, h : {1, 2}, r : RuleValues]
                                 \/ t \in [do : {"cam"}, a : Entries]
  BY <1>1 DEF Steps
<1> QED
  BY <1>2

(* Writes to the device.                                                   *)
LEMMA RegCells ==
  ASSUME Sound, CamTypes, NEW c \in Clis, reg_write(c)
  PROVE  /\ CamTypes'
         /\ \A s \in Sets, i \in RuleIds : Celled(c, s, i) => Celled(c, s, i)'
<1> DEFINE t == Head(todo[c])
<1>1. /\ todo[c] # <<>> /\ t.do = "reg" /\ todo' = [todo EXCEPT ![c] = Rest(c)]
      /\ regs' = [regs EXCEPT ![t.h] = t.r] /\ UNCHANGED <<flag, field, cam>>
  BY DEF reg_write, Running, Wrote, Become, dbvars
<1>2. t \in Steps
  BY <1>1 DEF Sound, Types
<1> HIDE DEF t
<1>3. t.h \in {1, 2} /\ t.r \in RuleValues
  BY <1>1, <1>2, DeviceKinds
<1>4. CamTypes'
  BY <1>1, <1>3 DEF CamTypes, Halves
<1>5. ASSUME NEW s \in Sets, NEW i \in RuleIds, Celled(c, s, i) PROVE Celled(c, s, i)'
  <2>1. /\ CellNow(s, i).named = flag[s][i] /\ CellNow(s, i).fld = field[s][i]
        /\ CellNow(s, i).entry = cam[CamAddr(s, i)] /\ CellNow(s, i).regs = regs
    BY CellNowIs, Numbers DEF Sound, Data
  <2>2. CellNow(s, i)' = Cell(flag[s][i], field[s][i], cam[CamAddr(s, i)], [regs EXCEPT ![t.h] = t.r])
    BY <1>1 DEF CellNow
  <2>3. ASSUME NEW y \in Cells(s), CellGoes(t, s, i, CellNow(s, i), y) PROVE CellNow(s, i)' = y
    BY <1>1, <1>2, <2>1, <2>2, <2>3, DeviceGoes
  <2>4. t.do \notin Branches /\ t.do # "lock"
    BY <1>1 DEF Branches
  <2> QED
    BY <1>1, <1>5, <2>3, <2>4, Follow DEF Sound, t
<1> QED
  BY <1>4, <1>5

LEMMA EntryCells ==
  ASSUME Sound, CamTypes, NEW c \in Clis, cam_command(c)
  PROVE  /\ CamTypes'
         /\ \A s \in Sets, i \in RuleIds : Celled(c, s, i) => Celled(c, s, i)'
<1> DEFINE t == Head(todo[c])
<1>1. /\ todo[c] # <<>> /\ t.do = "cam" /\ todo' = [todo EXCEPT ![c] = Rest(c)]
      /\ cam' = [cam EXCEPT ![t.a] = regs] /\ UNCHANGED <<flag, field, regs>>
  BY DEF cam_command, Running, Wrote, Become, dbvars
<1>2. t \in Steps
  BY <1>1 DEF Sound, Types
<1> HIDE DEF t
<1>3. t.a \in Entries
  BY <1>1, <1>2, DeviceKinds
<1>4. CamTypes'
  BY <1>1, <1>3 DEF CamTypes
<1>5. ASSUME NEW s \in Sets, NEW i \in RuleIds, Celled(c, s, i) PROVE Celled(c, s, i)'
  <2>1. /\ CellNow(s, i).named = flag[s][i] /\ CellNow(s, i).fld = field[s][i]
        /\ CellNow(s, i).entry = cam[CamAddr(s, i)] /\ CellNow(s, i).regs = regs
    BY CellNowIs, Numbers DEF Sound, Data
  <2>0. CamAddr(s, i) \in Entries
    BY Numbers DEF Entries
  <2>2. cam'[CamAddr(s, i)] = IF t.a = CamAddr(s, i) THEN regs ELSE cam[CamAddr(s, i)]
    BY <1>1, <2>0 DEF CamTypes
  <2>p. CamAddr(s, i)' = CamAddr(s, i)
    BY DEF CamAddr
  <2>3. CellNow(s, i)' = Cell(flag[s][i], field[s][i], cam'[CamAddr(s, i)], regs)
    BY <1>1, <2>p DEF CellNow
  <2>4. ASSUME NEW y \in Cells(s), CellGoes(t, s, i, CellNow(s, i), y) PROVE CellNow(s, i)' = y
    <3>1. y = Cell(CellNow(s, i).named, CellNow(s, i).fld,
                   IF t.a = CamAddr(s, i) THEN CellNow(s, i).regs ELSE CellNow(s, i).entry, CellNow(s, i).regs)
      BY <1>1, <1>2, <2>4, DeviceGoes
    <3> QED
      BY <2>1, <2>2, <2>3, <3>1
  <2>5. t.do \notin Branches /\ t.do # "lock"
    BY <1>1 DEF Branches
  <2> QED
    BY <1>1, <1>5, <2>4, <2>5, Follow DEF Sound, t
<1> QED
  BY <1>4, <1>5

(* Writes to the database.                                                 *)
LEMMA KeyCells ==
  ASSUME Sound, CamTypes, NEW c \in Clis, NEW s \in Sets, NEW i \in RuleIds, Celled(c, s, i),
         db_insert_flag(c) \/ db_insert_field(c) \/ db_delete_flag(c) \/ db_delete_field(c)
  PROVE  Celled(c, s, i)'
<1> DEFINE t == Head(todo[c])
           own == t.s = s /\ t.id = i
<1>1. /\ todo[c] # <<>> /\ t.do \in OnKeys /\ todo' = [todo EXCEPT ![c] = Rest(c)]
      /\ UNCHANGED <<cam, regs>>
      /\ t.do = "flag" => flag' = [flag EXCEPT ![t.s][t.id] = t.fs] /\ field' = field
      /\ t.do = "delflag" => flag' = [flag EXCEPT ![t.s][t.id] = Absent] /\ field' = field
      /\ t.do = "field" => field' = [field EXCEPT ![t.s][t.id][t.f] = t.v] /\ flag' = flag
      /\ t.do = "delfield" => field' = [field EXCEPT ![t.s][t.id][t.f] = Absent] /\ flag' = flag
  <2>1. CASE db_insert_flag(c)
    BY <2>1 DEF db_insert_flag, Running, Wrote, Become, hwvars, OnKeys
  <2>2. CASE db_insert_field(c)
    BY <2>2 DEF db_insert_field, Running, Wrote, Become, hwvars, OnKeys
  <2>3. CASE db_delete_flag(c)
    BY <2>3 DEF db_delete_flag, Running, Wrote, Become, hwvars, OnKeys
  <2>4. CASE db_delete_field(c)
    <3>1. field[t.s][t.id][t.f] # Absent
      BY <2>4, DeletedIsThere
    <3> QED
      BY <2>4, <3>1 DEF db_delete_field, Running, Wrote, Become, hwvars, OnKeys
  <2> QED
    BY <2>1, <2>2, <2>3, <2>4
<1>2. t \in Steps
  BY <1>1 DEF Sound, Types
<1>3. t.s \in Sets /\ t.id \in Ids /\ (t.do \in {"field", "delfield"} => t.f \in Fields(t.s))
  BY <1>1, <1>2, StepKinds DEF OnKeys, Guarded
<1> HIDE DEF t
<1>4. /\ CellNow(s, i).named = flag[s][i] /\ CellNow(s, i).fld = field[s][i]
      /\ CellNow(s, i).entry = cam[CamAddr(s, i)] /\ CellNow(s, i).regs = regs
  BY CellNowIs, Numbers DEF Sound, Data
<1>5. /\ flag \in [Sets -> [Ids -> (SUBSET AllFields) \cup {Absent}]] /\ DOMAIN field = Sets
      /\ i \in Ids /\ \A u \in Sets : DOMAIN field[u] = Ids
  BY Numbers DEF Sound, Data, Shapes
<1>p. CamAddr(s, i)' = CamAddr(s, i)
  BY DEF CamAddr
<1>6. CellNow(s, i)' = Cell(flag'[s][i], field'[s][i], cam[CamAddr(s, i)], regs)
  BY <1>1, <1>p DEF CellNow
<1>7. ASSUME ~own PROVE flag'[s][i] = flag[s][i] /\ field'[s][i] = field[s][i]
  BY <1>1, <1>3, <1>5, <1>7 DEF OnKeys
<1>8. ASSUME own
      PROVE  /\ t.do = "flag" => flag'[s][i] = t.fs /\ field'[s][i] = field[s][i]
             /\ t.do = "delflag" => flag'[s][i] = Absent /\ field'[s][i] = field[s][i]
             /\ t.do = "field" => flag'[s][i] = flag[s][i] /\ field'[s][i] = [field[s][i] EXCEPT ![t.f] = t.v]
             /\ t.do = "delfield" => flag'[s][i] = flag[s][i] /\ field'[s][i] = [field[s][i] EXCEPT ![t.f] = Absent]
  BY <1>1, <1>3, <1>5, <1>8
<1>9. ASSUME NEW y \in Cells(s), CellGoes(t, s, i, CellNow(s, i), y) PROVE CellNow(s, i)' = y
  <2>1. CASE ~own
    <3>1. y = CellNow(s, i)
      BY <1>1, <1>2, <1>9, <2>1, PlainGoes
    <3>2. y = Cell(flag[s][i], field[s][i], cam[CamAddr(s, i)], regs)
      BY <3>1 DEF CellNow
    <3> QED
      BY <1>6, <1>7, <2>1, <3>2
  <2>2. CASE own
    <3>1. \/ t.do = "flag" /\ y = Cell(t.fs, field[s][i], cam[CamAddr(s, i)], regs)
          \/ t.do = "field" /\ y = Cell(flag[s][i], [field[s][i] EXCEPT ![t.f] = t.v], cam[CamAddr(s, i)], regs)
          \/ t.do = "delflag" /\ y = Cell(Absent, field[s][i], cam[CamAddr(s, i)], regs)
          \/ t.do = "delfield" /\ y = Cell(flag[s][i], [field[s][i] EXCEPT ![t.f] = Absent], cam[CamAddr(s, i)], regs)
      BY <1>1, <1>2, <1>4, <1>9, <2>2, KeyGoes
    <3> QED
      BY <1>6, <1>8, <2>2, <3>1
  <2> QED
    BY <2>1, <2>2
<1>10. t.do \notin Branches /\ t.do # "lock"
  BY <1>1 DEF Branches, OnKeys
<1> QED
  BY <1>1, <1>9, <1>10, Follow DEF Sound, t

(* Loops: one that begins,                                                 *)
LEMMA StartScanCells ==
  ASSUME Sound, CamTypes, NEW c \in Clis, StartScan(c), NEW s \in Sets, NEW i \in RuleIds, Celled(c, s, i)
  PROVE  Celled(c, s, i)'
<1> DEFINE t == Head(todo[c])
<1>1. todo[c] # <<>> /\ t.do = "count"
  BY DEF StartScan, Running
<1>2. t.do \in Guarded \ {"uninit", "global"}
  BY <1>1 DEF Guarded
<1>3. t.s \in Sets /\ t \in Steps
  BY <1>1, <1>2, OwnTable, Taker
<1> HIDE DEF t
<1>v. PICK v \in Sets : v = t.s
  BY <1>3
<1>m. PICK m \in {"reset", "save"} : m = t.mode
  BY <1>1, <1>3, StepKinds
<1>4. PICK b \in Tables : TableStep(t, Tab(v), b)
  BY <1>1, <1>2, <1>v, OwnTable DEF t
<1>5. Right(Tab(v)) /\ Tab(v) \in Tables /\ Tab(v).num = num[v]
  BY <1>1, <1>4, TabIs DEF TableStep, Sound, Data
<1>6. num[v] \in Count32
  BY <1>5, CountPlan
<1>7. num[v] # Absent
  BY <1>6, NotAbsent
<1> DEFINE g == Scan(m, v, 0, 0, num[v])
<1>8. /\ todo' = [todo EXCEPT ![c] = <<g>> \o Rest(c)]
      /\ UNCHANGED <<flag, field, cam, regs>>
  BY <1>7, <1>v, <1>m DEF StartScan, Read, Become, dbvars, hwvars, t
<1>9. g \in Steps /\ g.do = "scan" /\ g.s = v /\ g.mode = m
  <2>1. 0 \in 0 .. MaxRule /\ 0 \in Nat
    BY Numbers
  <2>2. g \in Steps
    BY <1>6, <2>1, RuleSteps
  <2> QED
    BY <2>2 DEF Scan
<1> HIDE DEF g
<1>10. CellNow(s, i)' = CellNow(s, i) /\ CellNow(s, i) \in Cells(s)
  BY <1>8, CellRead, CellNowIs, Numbers DEF Sound, Data
<1>11. ASSUME NEW y \in Cells(s), CellGoes(t, s, i, CellNow(s, i), y) PROVE CellRuns(<<g>>, s, i, CellNow(s, i)', y)
  <2>1. y = IF v = s /\ m = "reset" THEN Dropped(CellNow(s, i)) ELSE CellNow(s, i)
    BY <1>1, <1>3, <1>11, <1>v, <1>m, LoopGoes
  <2>2. CellGoes(g, s, i, CellNow(s, i), y)
    BY <1>9, <2>1 DEF CellGoes, Elsewhere
  <2> QED
    BY <1>9, <1>10, <2>2, CellOne
<1>12. <<g>> \in Seq(Steps)
  BY <1>9
<1>13. t.do \notin Branches \cup {"lock"}
  BY <1>1 DEF Branches
<1> QED
  BY <1>1, <1>8, <1>11, <1>12, <1>13, GoesOn DEF t, Sound

(* and one that goes on, or ends: a reset ends when no rule is left.       *)
LEMMA ScanCells ==
  ASSUME Sound, CamTypes, NEW c \in Clis, ScanStep(c), NEW s \in Sets, NEW i \in RuleIds, Celled(c, s, i)
  PROVE  Celled(c, s, i)'
<1> DEFINE t == Head(todo[c])
<1>1. todo[c] # <<>> /\ t.do = "scan"
  BY DEF ScanStep, Running
<1>2. t.s \in Sets /\ Tab(t.s) \in Tables /\ t \in StepsOf(t.s) /\ Ahead(t, Tab(t.s))
  BY LoopAhead DEF ScanStep
<1>3. t \in Steps
  BY <1>1 DEF Sound, Types
<1>r. Rest(c) \in Seq(Steps)
  BY <1>1 DEF Rest, Sound, Types
<1> DEFINE next == IF t.id < MaxRule THEN t.id + 1 ELSE t.id
           found == t.id < MaxRule /\ Exists(t.s, t.id)
           on(k) == <<Scan(t.mode, t.s, next, k, t.number)>> \o Rest(c)
<1>s. \/ /\ t.matched >= t.number
         /\ Read(c, IF t.mode = "reset" THEN <<SetNum(t.s, 0)>> \o Rest(c) ELSE Rest(c))
      \/ /\ t.matched < t.number /\ ~found
         /\ Read(c, on(t.matched))
      \/ /\ t.matched < t.number /\ found /\ t.mode = "reset"
         /\ Read(c, db_delete_filter_rule(t.s, t.id) \o on(t.matched + 1))
      \/ /\ t.matched < t.number /\ found /\ t.mode = "save"
         /\ Read(c, IF Whole(t.s, t.id) THEN on(t.matched + 1) ELSE Recover(Rest(c)))
  BY DEF ScanStep
<1>4. t.do \notin Branches \cup {"lock"}
  BY <1>1 DEF Branches
<1>5. UNCHANGED <<flag, field, cam, regs>>
  BY <1>s, Zenon DEF Read, dbvars, hwvars
<1>x. PICK x \in Cells(s) : x = CellNow(s, i) /\ x.named = flag[s][i]
  BY CellNowIs, Numbers DEF Sound, Data
<1>6. CellNow(s, i)' = x
  BY <1>5, <1>x, CellRead
<1> DEFINE z == IF t.s = s /\ t.mode = "reset" THEN Dropped(x) ELSE x
<1>7. z \in Cells(s)
  BY DroppedIs
<1>w. \A q \in Seq(Steps) : Read(c, q \o Rest(c)) /\ CellRuns(q, s, i, x, z) => Celled(c, s, i)'
  <2> SUFFICES ASSUME NEW q \in Seq(Steps), Read(c, q \o Rest(c)), CellRuns(q, s, i, x, z)
               PROVE  Celled(c, s, i)'
    OBVIOUS
  <2>1. \A y \in Cells(s) : CellGoes(t, s, i, CellNow(s, i), y) => y = z
    BY <1>1, <1>3, <1>x, LoopGoes
  <2> HIDE DEF z
  <2>2. \A y \in Cells(s) : CellGoes(t, s, i, CellNow(s, i), y) => CellRuns(q, s, i, CellNow(s, i)', y)
    BY <1>6, <2>1
  <2>3. todo' = [todo EXCEPT ![c] = q \o Rest(c)]
    BY DEF Read, Become
  <2> QED
    BY <1>1, <1>4, <2>2, <2>3, GoesOn DEF Sound
<1> HIDE DEF t
<1>v. PICK v \in Sets : v = t.s
  BY <1>2
<1>k. /\ t.id \in 0 .. MaxRule /\ t.matched \in Nat /\ t.number \in Count32 /\ t.mode \in {"reset", "save"}
      /\ MaxRule \in Nat /\ next \in 0 .. MaxRule /\ t.number \in Nat
  BY <1>1, <1>3, StepKinds, Numbers DEF Count32
<1>e. \A k \in Nat : LET g == Scan(t.mode, v, next, k, t.number)
                     IN  <<g>> \in Seq(Steps) /\ (\A a \in Cells(s) : CellRuns(<<g>>, s, i, a, IF v = s /\ t.mode = "reset" THEN Dropped(a) ELSE a))
  <2> SUFFICES ASSUME NEW k \in Nat, NEW a \in Cells(s)
               PROVE  LET g == Scan(t.mode, v, next, k, t.number)
                      IN  <<g>> \in Seq(Steps) /\ CellRuns(<<g>>, s, i, a, IF v = s /\ t.mode = "reset" THEN Dropped(a) ELSE a)
    BY <1>x
  <2> DEFINE g == Scan(t.mode, v, next, k, t.number)
             b == IF v = s /\ t.mode = "reset" THEN Dropped(a) ELSE a
  <2>1. g \in Steps
    BY <1>k, RuleSteps
  <2>2. g.do = "scan" /\ g.s = v /\ g.mode = t.mode
    BY DEF Scan
  <2> HIDE DEF g, next
  <2>3. b \in Cells(s)
    BY DroppedIs
  <2>4. CellGoes(g, s, i, a, b)
    BY <2>1, <2>2 DEF CellGoes, Elsewhere
  <2> HIDE DEF b
  <2>5. <<g>> \in Seq(Steps) /\ CellRuns(<<g>>, s, i, a, b)
    BY <2>1, <2>3, <2>4, CellOne
  <2> QED
    BY <2>5 DEF g, b
<1>9. ASSUME t.matched >= t.number PROVE Celled(c, s, i)'
  <2>0. ~(t.matched < t.number)
    BY <1>k, <1>9
  <2>i. Read(c, IF t.mode = "reset" THEN <<SetNum(t.s, 0)>> \o Rest(c) ELSE Rest(c))
    BY <1>s, <2>0, Zenon
  <2>2. CASE t.mode = "reset"
    <3>1. <<SetNum(v, 0)>> \in Seq(Elsewhere(s, i))
      <4>1. 0 \in Count32
        BY Numbers DEF Count32
      <4>2. SetNum(v, 0) \in Elsewhere(s, i)
        BY <4>1, CommonSteps
      <4> QED
        BY <4>2
    <3>2. <<SetNum(v, 0)>> \in Seq(Steps) /\ CellRuns(<<SetNum(v, 0)>>, s, i, x, x)
      BY <3>1, CellStays
    <3>3. Read(c, <<SetNum(v, 0)>> \o Rest(c))
      BY <1>v, <2>2, <2>i
    <3>4. z = x
      <4>1. CASE v # s
        BY <1>v, <4>1
      <4>2. CASE v = s
        <5>1. Tab(v).ex = {}
          <6>1. Tab(v).ex = From(Tab(v), t.id) /\ t.number - t.matched = Cardinality(From(Tab(v), t.id))
            BY <1>2, <1>v, <2>2 DEF Ahead
          <6>2. Tab(v).ex \in SUBSET Ids
            BY <1>2, <1>v, TablesAre
          <6>3. IsFiniteSet(Tab(v).ex) /\ Cardinality(Tab(v).ex) \in Nat
            BY <6>2, FewRules
          <6>4. Cardinality(Tab(v).ex) = 0
            BY <1>k, <1>9, <6>1, <6>3
          <6> QED
            BY <6>3, <6>4, FS_EmptySet
        <5>2. ~Exists(s, i)
          BY <4>2, <5>1, TabIs, Numbers DEF Sound, Data
        <5>3. x.named = Absent
          BY <1>x, <5>2 DEF Exists
        <5> QED
          BY <5>3, DroppedIs
      <4> QED
        BY <4>1, <4>2
    <3> QED
      BY <1>w, <3>2, <3>3, <3>4
  <2>3. CASE t.mode = "save"
    <3> DEFINE q == <<>>
    <3>1. q \in Seq(Steps) /\ q \o Rest(c) = Rest(c)
      BY <1>r
    <3>2. Read(c, Rest(c))
      BY <2>3, <2>i
    <3>3. CellRuns(q, s, i, x, z)
      BY <2>3, RunsEmpty DEF CellRuns
    <3> HIDE DEF q, z
    <3>4. Read(c, q \o Rest(c))
      BY <3>1, <3>2
    <3> QED
      BY <1>w, <3>1, <3>3, <3>4
  <2> QED
    BY <1>k, <2>2, <2>3
<1>10. ASSUME t.matched < t.number PROVE Celled(c, s, i)'
  <2>0. ~(t.matched >= t.number)
    BY <1>k, <1>10
  <2>1. \A k \in Nat : Read(c, on(k)) => Celled(c, s, i)'
    <3> SUFFICES ASSUME NEW k \in Nat, Read(c, on(k)) PROVE Celled(c, s, i)'
      OBVIOUS
    <3> DEFINE e == <<Scan(t.mode, v, next, k, t.number)>>
    <3>1. Read(c, e \o Rest(c))
      BY <1>v
    <3>2. e \in Seq(Steps) /\ CellRuns(e, s, i, x, z)
      BY <1>e, <1>v
    <3> HIDE DEF e, z
    <3> QED
      BY <1>w, <3>1, <3>2
  <2>k. t.matched + 1 \in Nat
    BY <1>k
  <2>2. CASE ~found
    <3>1. Read(c, on(t.matched))
      <4> HIDE DEF found, on
      <4> QED
        BY <1>s, <2>0, <2>2, Zenon
    <3> QED
      BY <1>k, <2>1, <3>1
  <2>3. CASE found /\ t.mode = "save"
    <3>1. Whole(v, t.id)
      <4>1. t.id \in Ids /\ Exists(v, t.id) /\ EveryWhole(Tab(v))
        BY <1>2, <1>k, <1>v, <2>3, Numbers DEF Ids, Ahead
      <4> QED
        BY <4>1, WholeRules DEF Sound, Data
    <3>2. Read(c, IF Whole(t.s, t.id) THEN on(t.matched + 1) ELSE Recover(Rest(c)))
      <4> HIDE DEF found, on
      <4> QED
        BY <1>s, <2>0, <2>3
    <3>3. Read(c, on(t.matched + 1))
      <4> HIDE DEF on
      <4> QED
        BY <1>v, <3>1, <3>2
    <3> QED
      BY <2>1, <2>k, <3>3
  <2>4. CASE found /\ t.mode = "reset"
    <3> DEFINE d == db_delete_filter_rule(v, t.id)
               e == <<Scan(t.mode, v, next, t.matched + 1, t.number)>>
    <3>0. t.id \in Ids /\ Exists(v, t.id)
      BY <1>k, <1>v, <2>4, Numbers DEF Ids
    <3>1. Read(c, d \o on(t.matched + 1))
      <4>1. Read(c, db_delete_filter_rule(t.s, t.id) \o on(t.matched + 1))
        <5> HIDE DEF found, on
        <5> QED
          BY <1>s, <2>0, <2>4
      <4> HIDE DEF on
      <4> QED
        BY <1>v, <4>1
    <3>2. Read(c, d \o (e \o Rest(c)))
      BY <1>v, <3>1
    <3>3. PICK y \in Cells(s) : /\ d \in Seq(Steps) /\ CellRuns(d, s, i, x, y)
                                /\ z = IF v = s /\ t.mode = "reset" THEN Dropped(y) ELSE y
      <4>1. CASE v = s /\ t.id = i
        <5>1. x.named # Absent
          BY <1>x, <3>0, <4>1 DEF Exists
        <5>2. d \in Seq(Steps) /\ CellRuns(d, s, i, x, Dropped(x))
          BY <1>x, <3>0, <4>1, <5>1, RuleCells
        <5>3. Dropped(x) \in Cells(s) /\ Dropped(Dropped(x)) = Dropped(x) /\ z = Dropped(x)
          BY <1>v, <2>4, <4>1, DroppedIs
        <5> HIDE DEF d, z
        <5> QED
          BY <2>4, <4>1, <5>2, <5>3
      <4>2. CASE ~(v = s /\ t.id = i)
        <5>1. d \in Seq(Elsewhere(s, i))
          BY <3>0, <4>2, OtherRule
        <5>2. d \in Seq(Steps) /\ CellRuns(d, s, i, x, x)
          BY <5>1, CellStays
        <5>3. z = IF v = s /\ t.mode = "reset" THEN Dropped(x) ELSE x
          BY <1>v
        <5> HIDE DEF d, z
        <5> QED
          BY <5>2, <5>3
      <4> QED
        BY <4>1, <4>2
    <3>4. e \in Seq(Steps) /\ CellRuns(e, s, i, y, IF v = s /\ t.mode = "reset" THEN Dropped(y) ELSE y)
      BY <1>e, <2>k
    <3> HIDE DEF d, e, z
    <3>5. d \o e \in Seq(Steps) /\ CellRuns(d \o e, s, i, x, z)
      BY <3>3, <3>4, CellCat
    <3>6. d \o (e \o Rest(c)) = (d \o e) \o Rest(c)
      BY <1>r, <3>3, <3>4
    <3>7. Read(c, (d \o e) \o Rest(c))
      BY <3>2, <3>6
    <3> QED
      BY <1>w, <3>5, <3>7
  <2> QED
    BY <1>k, <2>2, <2>3, <2>4
<1> QED
  BY <1>k, <1>9, <1>10

(* A command at its branch finds the rules of the operators as CamMatches  *)
(* says, and is about one of them.                                         *)
LEMMA FoundAtBranch ==
  ASSUME Sound, NEW c \in Clis, todo[c] # <<>>, Head(todo[c]).do \in Branches, NEW s, NEW i, Celled(c, s, i)
  PROVE  /\ inited => Match(s, i, CellNow(s, i))
         /\ Head(todo[c]).do \in {"set", "clear"} => Head(todo[c]).id \in RuleIds
<1>1. todo[c] \in Seq(Steps) /\ Head(todo[c]) \in Steps
  BY DEF Sound, Types
<1>2. ASSUME Ended(todo[c], s, i, CellNow(s, i)) PROVE FALSE
  <2>1. PICK z \in Cells(s) : CellRuns(todo[c], s, i, CellNow(s, i), z)
    BY <1>2 DEF Ended
  <2>2. PICK y \in Cells(s) : <<Head(todo[c]), CellNow(s, i), y>> \in CellMoves(s, i)
    BY <1>1, <2>1, RunsHead DEF CellRuns
  <2>3. CellGoes(Head(todo[c]), s, i, CellNow(s, i), y)
    BY <2>2 DEF CellMoves
  <2> QED
    BY <1>1, <2>3, PlainGoes
<1>3. PICK t \in Steps : /\ t.do \in Branches /\ todo[c] \in {<<Lock, t>>, <<t>>}
                         /\ inited => Match(s, i, CellNow(s, i))
                         /\ t.do \in {"set", "clear"} => t.id \in RuleIds
  BY <1>2 DEF Celled
<1>4. todo[c] # <<Lock, t>>
  <2> SUFFICES ASSUME todo[c] = <<Lock, t>> PROVE FALSE
    OBVIOUS
  <2>1. Head(todo[c]) = Lock
    OBVIOUS
  <2> QED
    BY <2>1 DEF Lock, Branches
<1>5. Head(todo[c]) = t
  BY <1>3, <1>4
<1> QED
  BY <1>3, <1>5

(* A command that is given the sequence it needs.                          *)
LEMMA PlanCells ==
  ASSUME Types, NEW c \in Clis, NEW q, todo' = [todo EXCEPT ![c] = q], UNCHANGED <<flag, field, cam, regs>>,
         NEW s, NEW i, Ended(q, s, i, CellNow(s, i))
  PROVE  Celled(c, s, i)'
<1>1. todo'[c] = q /\ CellNow(s, i)' = CellNow(s, i)
  BY CellRead DEF Types
<1>2. Ended(todo'[c], s, i, CellNow(s, i)')
  BY <1>1
<1>3. Ended(todo[c], s, i, CellNow(s, i))'
  BY <1>2 DEF Ended
<1> QED
  BY <1>3 DEF Celled

(* The start of a cli,                                                     *)
LEMMA StartBranchCells ==
  ASSUME Apart, Sound, CamTypes, NEW c \in Clis, StartBranch(c), NEW s \in Sets, NEW i \in RuleIds, Celled(c, s, i)
  PROVE  Celled(c, s, i)'
<1>1. /\ todo[c] # <<>> /\ Head(todo[c]).do \in Branches /\ todo' = [todo EXCEPT ![c] = Startup(inited)]
      /\ UNCHANGED <<flag, field, cam, regs>>
  BY DEF StartBranch, Running, Read, Become, dbvars, hwvars, Branches
<1>2. CellNow(s, i) \in Cells(s)
  BY CellNowIs, Numbers DEF Sound, Data
<1>3. Ended(Startup(inited), s, i, CellNow(s, i))
  <2>1. CASE inited = TRUE
    <3>1. Match(s, i, CellNow(s, i))
      BY <1>1, <2>1, FoundAtBranch
    <3>2. CellRuns(Startup(inited), s, i, CellNow(s, i), CellNow(s, i))
      BY <1>2, <2>1, StartupAll
    <3> QED
      BY <1>2, <3>1, <3>2 DEF Ended
  <2>2. CASE inited = FALSE
    <3>1. \E z \in Cells(s) : CellRuns(Startup(inited), s, i, CellNow(s, i), z) /\ Match(s, i, z)
      BY <1>2, <2>2, StartupAll
    <3> QED
      BY <3>1 DEF Ended
  <2> QED
    BY <2>1, <2>2 DEF Sound, Types
<1> QED
  BY <1>1, <1>3, PlanCells DEF Sound

(* a branch that only unlocks,                                             *)
LEMMA UnlockOnlyCells ==
  ASSUME Sound, CamTypes, NEW c \in Clis, todo[c] # <<>>, Head(todo[c]).do \in Branches, inited, Read(c, <<Unlock>>),
         NEW s \in Sets, NEW i \in RuleIds, Celled(c, s, i)
  PROVE  Celled(c, s, i)'
<1>1. todo' = [todo EXCEPT ![c] = <<Unlock>>] /\ UNCHANGED <<flag, field, cam, regs>>
  BY DEF Read, Become, dbvars, hwvars
<1>2. CellNow(s, i) \in Cells(s)
  BY CellNowIs, Numbers DEF Sound, Data
<1>3. <<Unlock>> \in Seq(Elsewhere(s, i))
  BY CommonSteps
<1>4. CellRuns(<<Unlock>>, s, i, CellNow(s, i), CellNow(s, i))
  BY <1>2, <1>3, CellStays
<1>5. Match(s, i, CellNow(s, i))
  BY FoundAtBranch
<1>6. Ended(<<Unlock>>, s, i, CellNow(s, i))
  BY <1>2, <1>4, <1>5 DEF Ended
<1> QED
  BY <1>1, <1>6, PlanCells DEF Sound

(* Writing one rule to the device leaves the match of the others.          *)
LEMMA Rewritten ==
  ASSUME Apart, NEW s \in Sets, NEW i \in RuleIds, NEW u \in Sets, NEW k \in RuleIds, ~(u = s /\ k = i),
         NEW r \in RuleValues, NEW x \in Cells(s), Match(s, i, x)
  PROVE  Match(s, i, Written(u, k, r, s, i, x))
<1>1. ~Hits(u, k, s, i)
  BY Addresses, Numbers DEF Hits, Apart
<1> DEFINE y == Written(u, k, r, s, i, x)
<1>2. y.named = x.named /\ y.fld = x.fld /\ y.entry = x.entry
  BY <1>1, CellsAre DEF Written
<1> HIDE DEF y
<1>3. Match(s, i, y)
  BY <1>2 DEF Match
<1> QED
  BY <1>3 DEF y

(* A set: the rule is stored and then written,                             *)
LEMMA SetCells ==
  ASSUME Apart, Sound, CamTypes, NEW c \in Clis, cli_fpga_set_ruleset(c),
         NEW s \in Sets, NEW i \in RuleIds, Celled(c, s, i)
  PROVE  Celled(c, s, i)'
<1> DEFINE t == Head(todo[c])
           count == IF Exists(t.s, t.id) THEN <<>> ELSE <<SetNum(t.s, (num[t.s] + 1) % Word)>>
           p == db_set_filter_rule(t.s, t.id, t.r)
           r == drv_set_ruleset(t.s, t.id, t.r)
<1>1. todo[c] # <<>> /\ t.do = "set" /\ t.do \in Branches
  BY DEF cli_fpga_set_ruleset, Running, Branches
<1>2. \/ Read(c, <<Unlock>>)
      \/ ~(~Exists(t.s, t.id) /\ num[t.s] = Absent) /\ Read(c, count \o p \o <<Unlock>> \o r)
  BY DEF cli_fpga_set_ruleset
<1>3. t \in Steps /\ inited
  BY <1>1, AtBranch DEF Settled
<1>4. t.s \in Sets /\ t.id \in Ids /\ t.r \in Rules[t.s] /\ t.r \in RuleValues
  BY <1>1, <1>3, StepKinds DEF RuleValues
<1>5. t.id \in RuleIds
  BY <1>1, FoundAtBranch
<1>x. PICK x \in Cells(s) : x = CellNow(s, i) /\ Match(s, i, x)
  BY <1>1, <1>3, FoundAtBranch, CellNowIs, Numbers DEF Sound, Data
<1> HIDE DEF t
<1>6. CASE Read(c, <<Unlock>>)
  BY <1>1, <1>3, <1>6, UnlockOnlyCells DEF t
<1>7. CASE ~(~Exists(t.s, t.id) /\ num[t.s] = Absent) /\ Read(c, count \o p \o <<Unlock>> \o r)
  <2>1. count \in Seq(Elsewhere(s, i))
    <3>1. CASE Exists(t.s, t.id)
      BY <3>1
    <3>2. CASE ~Exists(t.s, t.id)
      <4>1. num[t.s] \in Nat
        BY <1>4, <1>7, <3>2 DEF Sound, Types, Count32
      <4>2. (num[t.s] + 1) % Word \in Count32
        BY <4>1, Numbers DEF Count32
      <4>3. SetNum(t.s, (num[t.s] + 1) % Word) \in Elsewhere(s, i)
        BY <1>4, <4>2, CommonSteps
      <4> QED
        BY <3>2, <4>3
    <3> QED
      BY <3>1, <3>2
  <2> HIDE DEF count
  <2>2. count \in Seq(Steps) /\ CellRuns(count, s, i, x, x)
    BY <2>1, CellStays
  <2>3. PICK y \in Cells(s) :
          /\ p \in Seq(Steps) /\ CellRuns(p, s, i, x, y)
          /\ Match(s, i, Written(t.s, t.id, t.r, s, i, y))
    <3>1. CASE t.s = s /\ t.id = i
      <4>1. PICK y \in Cells(s) :
              /\ p \in Seq(Steps) /\ CellRuns(p, s, i, x, y)
              /\ y.named = DOMAIN t.r /\ \A f \in DOMAIN t.r : y.fld[f] = t.r[f]
        BY <1>4, <3>1, RuleCells, Numbers
      <4> DEFINE z == Written(t.s, t.id, t.r, s, i, y)
      <4>2. y.named # Absent
        BY <1>4, <4>1, NotAbsent, RuleAssumption
      <4>3. CASE Silent(t.s, t.r)
        <5>1. z = y /\ s = 2 /\ "key" \notin y.named
          BY <3>1, <4>1, <4>3 DEF Written, Silent
        <5> QED
          BY <4>1, <4>2, <5>1 DEF Match
      <4>4. CASE ~Silent(t.s, t.r)
        <5>1. z = Cell(y.named, y.fld, Both(t.r), Both(t.r))
          BY <3>1, <4>4 DEF Written, Hits
        <5>2. z.named = y.named /\ z.fld = y.fld /\ z.entry = Both(t.r)
          BY <5>1, CellsAre
        <5>3. [f \in y.named |-> y.fld[f]] = t.r
          BY <1>4, <4>1, RuleAssumption
        <5> HIDE DEF z
        <5>4. Match(s, i, z)
          BY <4>2, <5>2, <5>3 DEF Match
        <5> QED
          BY <4>1, <5>4 DEF z
      <4> QED
        BY <4>3, <4>4
    <3>2. CASE ~(t.s = s /\ t.id = i)
      <4>1. p \in Seq(Elsewhere(s, i))
        BY <1>4, <3>2, OtherRule
      <4>2. p \in Seq(Steps) /\ CellRuns(p, s, i, x, x)
        BY <4>1, CellStays
      <4>3. Match(s, i, Written(t.s, t.id, t.r, s, i, x))
        BY <1>4, <1>5, <1>x, <3>2, Rewritten
      <4> QED
        BY <4>2, <4>3
    <3> QED
      BY <3>1, <3>2
  <2> DEFINE z == Written(t.s, t.id, t.r, s, i, y)
  <2>4. r \in Seq(Steps) /\ z \in Cells(s) /\ CellRuns(r, s, i, y, z)
    BY <1>4, DeviceCells, Numbers DEF Apart
  <2>5. Match(s, i, z)
    BY <2>3
  <2> HIDE DEF z, p, r
  <2>6. <<Unlock>> \in Seq(Steps) /\ CellRuns(<<Unlock>>, s, i, y, y)
    <3>1. <<Unlock>> \in Seq(Elsewhere(s, i))
      BY CommonSteps
    <3> QED
      BY <3>1, CellStays
  <2>7. count \o p \in Seq(Steps) /\ CellRuns(count \o p, s, i, x, y)
    BY <2>2, <2>3, CellCat
  <2>8. count \o p \o <<Unlock>> \in Seq(Steps) /\ CellRuns(count \o p \o <<Unlock>>, s, i, x, y)
    BY <2>6, <2>7, CellCat
  <2>9. CellRuns(count \o p \o <<Unlock>> \o r, s, i, x, z)
    BY <2>4, <2>8, CellCat
  <2> DEFINE q == count \o p \o <<Unlock>> \o r
  <2>10. Ended(q, s, i, CellNow(s, i))
    BY <1>x, <2>4, <2>5, <2>9 DEF Ended
  <2>11. todo' = [todo EXCEPT ![c] = q] /\ UNCHANGED <<flag, field, cam, regs>>
    BY <1>7 DEF Read, Become, dbvars, hwvars
  <2> HIDE DEF q
  <2> QED
    BY <2>10, <2>11, PlanCells DEF Sound
<1> QED
  BY <1>2, <1>6, <1>7

(* and a clear takes it out, and writes that nothing matches.              *)
LEMMA ClearCells ==
  ASSUME Apart, Sound, CamTypes, NEW c \in Clis, cli_fpga_clear_ruleset(c),
         NEW s \in Sets, NEW i \in RuleIds, Celled(c, s, i)
  PROVE  Celled(c, s, i)'
<1> DEFINE t == Head(todo[c])
           count == <<SetNum(t.s, (num[t.s] - 1) % Word)>>
           p == db_delete_filter_rule(t.s, t.id)
           r == drv_set_ruleset(t.s, t.id, t.r)
<1>1. todo[c] # <<>> /\ t.do = "clear" /\ t.do \in Branches
  BY DEF cli_fpga_clear_ruleset, Running, Branches
<1>2. \/ Read(c, <<Unlock>>)
      \/ Exists(t.s, t.id) /\ num[t.s] # Absent /\ Read(c, count \o p \o r \o <<Unlock>>)
  BY DEF cli_fpga_clear_ruleset
<1>3. t \in Steps /\ inited
  BY <1>1, AtBranch DEF Settled
<1>4. t.s \in Sets /\ t.id \in Ids /\ t.r = Nothing /\ t.r \in RuleValues
  BY <1>1, <1>3, StepKinds, HalvesAre
<1>5. t.id \in RuleIds
  BY <1>1, FoundAtBranch
<1>x. PICK x \in Cells(s) : x = CellNow(s, i) /\ Match(s, i, x) /\ x.named = flag[s][i]
  BY <1>1, <1>3, FoundAtBranch, CellNowIs, Numbers DEF Sound, Data
<1> HIDE DEF t
<1>6. CASE Read(c, <<Unlock>>)
  BY <1>1, <1>3, <1>6, UnlockOnlyCells DEF t
<1>7. CASE Exists(t.s, t.id) /\ num[t.s] # Absent /\ Read(c, count \o p \o r \o <<Unlock>>)
  <2>1. count \in Seq(Elsewhere(s, i))
    <3>1. num[t.s] \in Nat
      BY <1>4, <1>7 DEF Sound, Types, Count32
    <3>2. (num[t.s] - 1) % Word \in Count32
      BY <3>1, Numbers DEF Count32
    <3>3. SetNum(t.s, (num[t.s] - 1) % Word) \in Elsewhere(s, i)
      BY <1>4, <3>2, CommonSteps
    <3> QED
      BY <3>3
  <2> HIDE DEF count
  <2>2. count \in Seq(Steps) /\ CellRuns(count, s, i, x, x)
    BY <2>1, CellStays
  <2>3. PICK y \in Cells(s) :
          /\ p \in Seq(Steps) /\ CellRuns(p, s, i, x, y)
          /\ Match(s, i, Written(t.s, t.id, t.r, s, i, y))
    <3>1. CASE t.s = s /\ t.id = i
      <4>1. x.named # Absent
        BY <1>7, <1>x, <3>1 DEF Exists
      <4>2. p \in Seq(Steps) /\ CellRuns(p, s, i, x, Dropped(x))
        BY <1>4, <1>x, <3>1, <4>1, RuleCells
      <4>3. Dropped(x) \in Cells(s) /\ Dropped(x).named = Absent
        BY DroppedIs
      <4> DEFINE z == Written(t.s, t.id, t.r, s, i, Dropped(x))
      <4>4. ~Silent(t.s, t.r)
        BY <1>4 DEF Silent, Nothing
      <4>5. z = Cell(Dropped(x).named, Dropped(x).fld, Both(t.r), Both(t.r))
        BY <3>1, <4>4 DEF Written, Hits
      <4>6. z.named = Absent /\ z.entry = Both(Nothing)
        BY <1>4, <4>3, <4>5, CellsAre
      <4> HIDE DEF z
      <4>7. Match(s, i, z)
        BY <4>6 DEF Match, Off
      <4> QED
        BY <4>2, <4>3, <4>7 DEF z
    <3>2. CASE ~(t.s = s /\ t.id = i)
      <4>1. p \in Seq(Elsewhere(s, i))
        BY <1>4, <3>2, OtherRule
      <4>2. p \in Seq(Steps) /\ CellRuns(p, s, i, x, x)
        BY <4>1, CellStays
      <4>3. Match(s, i, Written(t.s, t.id, t.r, s, i, x))
        BY <1>4, <1>5, <1>x, <3>2, Rewritten
      <4> QED
        BY <4>2, <4>3
    <3> QED
      BY <3>1, <3>2
  <2> DEFINE z == Written(t.s, t.id, t.r, s, i, y)
  <2>4. r \in Seq(Steps) /\ z \in Cells(s) /\ CellRuns(r, s, i, y, z)
    BY <1>4, DeviceCells, Numbers DEF Apart
  <2>5. Match(s, i, z)
    BY <2>3
  <2> HIDE DEF z, p, r
  <2>6. <<Unlock>> \in Seq(Steps) /\ CellRuns(<<Unlock>>, s, i, z, z)
    <3>1. <<Unlock>> \in Seq(Elsewhere(s, i))
      BY CommonSteps
    <3> QED
      BY <2>4, <3>1, CellStays
  <2>7. count \o p \in Seq(Steps) /\ CellRuns(count \o p, s, i, x, y)
    BY <2>2, <2>3, CellCat
  <2>8. count \o p \o r \in Seq(Steps) /\ CellRuns(count \o p \o r, s, i, x, z)
    BY <2>4, <2>7, CellCat
  <2>9. CellRuns(count \o p \o r \o <<Unlock>>, s, i, x, z)
    BY <2>6, <2>8, CellCat
  <2> DEFINE q == count \o p \o r \o <<Unlock>>
  <2>10. Ended(q, s, i, CellNow(s, i))
    BY <1>x, <2>4, <2>5, <2>9 DEF Ended
  <2>11. todo' = [todo EXCEPT ![c] = q] /\ UNCHANGED <<flag, field, cam, regs>>
    BY <1>7 DEF Read, Become, dbvars, hwvars
  <2> HIDE DEF q
  <2> QED
    BY <2>10, <2>11, PlanCells DEF Sound
<1> QED
  BY <1>2, <1>6, <1>7

(* With nothing to do, a rule is matched.                                  *)
LEMMA IdleMatch ==
  ASSUME NEW c \in Clis, todo[c] = <<>>, inited, NEW s, NEW i, Celled(c, s, i)
  PROVE  Match(s, i, CellNow(s, i))
<1>1. ~ \E t \in Steps : todo[c] \in {<<Lock, t>>, <<t>>}
  OBVIOUS
<1>2. Ended(<<>>, s, i, CellNow(s, i))
  BY <1>1 DEF Celled
<1>3. PICK z \in Cells(s) : CellRuns(<<>>, s, i, CellNow(s, i), z) /\ Match(s, i, z)
  BY <1>2 DEF Ended
<1>4. CellNow(s, i) = z
  BY <1>3, RunsEmpty DEF CellRuns
<1> QED
  BY <1>3, <1>4

(* Conversely, a rule that is matched is so with nothing to do.            *)
LEMMA MatchEnded ==
  ASSUME NEW s, NEW i, NEW x \in Cells(s), Match(s, i, x)
  PROVE  Ended(<<>>, s, i, x)
<1>1. CellRuns(<<>>, s, i, x, x)
  BY RunsEmpty DEF CellRuns
<1> QED
  BY <1>1 DEF Ended

(* A cli that is given a command it has to lock for.                       *)
LEMMA AskCells ==
  ASSUME Sound, CamTypes, NEW c \in Clis, todo[c] = <<>>, NEW t \in Steps, t.do \in Branches,
         todo' = [todo EXCEPT ![c] = <<Lock, t>>], UNCHANGED <<inited, flag, field, cam, regs>>,
         t.do \in {"set", "clear"} => t.id \in RuleIds,
         NEW s \in Sets, NEW i \in RuleIds, Celled(c, s, i)
  PROVE  Celled(c, s, i)'
<1>1. todo'[c] = <<Lock, t>> /\ CellNow(s, i)' = CellNow(s, i)
  BY CellRead DEF Sound, Types
<1>2. inited' => Match(s, i, CellNow(s, i)')
  BY <1>1, IdleMatch
<1>3. inited' => Match(s, i, CellNow(s, i))'
  BY <1>2 DEF Match, Off
<1> QED
  BY <1>1, <1>3 DEF Celled

(* The start of a cli,                                                     *)
LEMMA StartCells ==
  ASSUME Sound, CamTypes, NEW c \in Clis, StartCLI(c), NEW s \in Sets, NEW i \in RuleIds, Celled(c, s, i)
  PROVE  Celled(c, s, i)'
<1> DEFINE t == Plain("startup")
<1>1. /\ todo' = [todo EXCEPT ![c] = <<Lock, t>>] /\ up[c] = "off"
      /\ UNCHANGED <<inited, flag, field, cam, regs>>
  BY DEF StartCLI, Become, dbvars, hwvars
<1>2. t \in Steps
  BY PlainSteps
<1>3. t.do \in Branches /\ t.do \notin {"set", "clear"}
  BY DEF Plain, Branches
<1>4. todo[c] = <<>>
  BY <1>1, IdleWaits
<1> HIDE DEF t
<1> QED
  BY <1>1, <1>2, <1>3, <1>4, AskCells

(* its end,                                                                *)
LEMMA LeaveCells ==
  ASSUME Sound, CamTypes, NEW c \in Clis, exit(c), NEW s \in Sets, NEW i \in RuleIds, Celled(c, s, i)
  PROVE  Celled(c, s, i)'
<1>1. /\ todo[c] = <<>> /\ up[c] = "on" /\ todo' = [todo EXCEPT ![c] = <<>>]
      /\ UNCHANGED <<flag, field, cam, regs>>
  BY DEF exit, Leave, Become, Ready, dbvars, hwvars
<1>2. inited
  BY <1>1 DEF Sound, Data, Placed
<1>3. CellNow(s, i) \in Cells(s)
  BY CellNowIs, Numbers DEF Sound, Data
<1>4. Ended(<<>>, s, i, CellNow(s, i))
  BY <1>1, <1>2, <1>3, IdleMatch, MatchEnded
<1> QED
  BY <1>1, <1>4, PlanCells DEF Sound

(* and the commands of the operator.                                       *)
LEMMA GiveCells ==
  ASSUME Sound, CamTypes, NEW c \in Clis, NEW op, NEW q, Give(c, op, q), NEW s \in Sets, NEW i \in RuleIds, Celled(c, s, i),
         \/ \E t \in Steps : /\ t.do \in Branches /\ q = <<Lock, t>>
                             /\ t.do \in {"set", "clear"} => t.id \in RuleIds
         \/ CellNow(s, i) \in Cells(s) /\ Match(s, i, CellNow(s, i)) => Ended(q, s, i, CellNow(s, i))
  PROVE  Celled(c, s, i)'
<1>1. /\ todo[c] = <<>> /\ up[c] = "on" /\ todo' = [todo EXCEPT ![c] = q]
      /\ UNCHANGED <<inited, flag, field, cam, regs>>
  BY DEF Give, Ready, Become, dbvars, hwvars
<1>2. inited
  BY <1>1 DEF Sound, Data, Placed
<1>3. CellNow(s, i) \in Cells(s)
  BY CellNowIs, Numbers DEF Sound, Data
<1>4. Match(s, i, CellNow(s, i))
  BY <1>1, <1>2, IdleMatch
<1>5. CASE \E t \in Steps : /\ t.do \in Branches /\ q = <<Lock, t>>
                            /\ t.do \in {"set", "clear"} => t.id \in RuleIds
  <2>1. PICK t \in Steps : /\ t.do \in Branches /\ q = <<Lock, t>>
                           /\ t.do \in {"set", "clear"} => t.id \in RuleIds
    BY <1>5
  <2> QED
    BY <1>1, <2>1, AskCells
<1>6. CASE Ended(q, s, i, CellNow(s, i))
  BY <1>1, <1>6, PlanCells DEF Sound
<1> QED
  BY <1>3, <1>4, <1>5, <1>6

LEMMA CommandCells ==
  ASSUME Apart, Sound, CamTypes, NEW c \in Clis, Command(c), NEW s \in Sets, NEW i \in RuleIds, Celled(c, s, i)
  PROVE  Celled(c, s, i)'
<1>1. ASSUME set(c) PROVE Celled(c, s, i)'
  <2>1. PICK u \in Sets, id \in RuleIds : \E r \in Rules[u] : Give(c, "set", <<Lock, Branch("set", u, id, r)>>)
    BY <1>1 DEF set
  <2>2. PICK r \in Rules[u] : Give(c, "set", <<Lock, Branch("set", u, id, r)>>)
    BY <2>1
  <2> DEFINE t == Branch("set", u, id, r)
  <2>3. t \in Steps
    BY RuleSteps, Numbers
  <2>4. t.do \in Branches /\ t.id \in RuleIds
    BY DEF Branch, Branches
  <2> HIDE DEF t
  <2>5. Give(c, "set", <<Lock, t>>)
    BY <2>2 DEF t
  <2> QED
    BY <2>3, <2>4, <2>5, GiveCells
<1>2. ASSUME NEW op \in {"clear", "show"}, NEW u \in Sets, NEW id \in RuleIds,
             Give(c, op, <<Lock, Branch(op, u, id, Nothing)>>)
      PROVE  Celled(c, s, i)'
  <2> DEFINE t == Branch(op, u, id, Nothing)
  <2>1. t \in Steps
    BY RuleSteps, Numbers
  <2>2. t.do \in Branches /\ t.id \in RuleIds
    BY DEF Branch, Branches
  <2> HIDE DEF t
  <2>3. Give(c, op, <<Lock, t>>)
    BY <1>2 DEF t
  <2> QED
    BY <2>1, <2>2, <2>3, GiveCells
<1>3. ASSUME clear(c) \/ show(c) PROVE Celled(c, s, i)'
  BY <1>2, <1>3 DEF clear, show
<1>4. ASSUME restore(c) PROVE Celled(c, s, i)'
  <2>1. CellNow(s, i) \in Cells(s) => Ended(cli_reset_default_config, s, i, CellNow(s, i))
    BY ResetAll DEF Ended
  <2> QED
    BY <1>4, <2>1, GiveCells DEF restore
<1>5. ASSUME save(c) PROVE Celled(c, s, i)'
  <2>1. CellNow(s, i) \in Cells(s) /\ Match(s, i, CellNow(s, i)) => Ended(cli_save_config, s, i, CellNow(s, i))
    BY SaveAll DEF Ended
  <2> QED
    BY <1>5, <2>1, GiveCells DEF save
<1> QED
  BY <1>1, <1>3, <1>4, <1>5 DEF Command

(* Show, and the steps that change neither rules nor device.               *)
LEMMA OtherCells ==
  ASSUME Sound, CamTypes, NEW c \in Clis, NEW s \in Sets, NEW i \in RuleIds, Celled(c, s, i),
         \/ cli_get_filter_ruleset(c) \/ cli_db_unlock(c) \/ capture_signals(c) \/ save_global_config(c)
         \/ db_set_filter_rule_num(c) \/ db_mark_uninitialized(c) \/ db_set_initialized(c)
  PROVE  Celled(c, s, i)'
<1>1. CASE cli_get_filter_ruleset(c)
  <2>1. /\ todo[c] # <<>> /\ Head(todo[c]).do \in Branches /\ Head(todo[c]).do # "startup"
        /\ Read(c, <<Unlock>>)
    BY <1>1 DEF cli_get_filter_ruleset, Running, Branches
  <2>2. inited
    BY <2>1, AtBranch DEF Settled
  <2> QED
    BY <2>1, <2>2, UnlockOnlyCells
<1>2. ASSUME \/ cli_db_unlock(c) \/ capture_signals(c) \/ save_global_config(c)
             \/ db_set_filter_rule_num(c) \/ db_mark_uninitialized(c) \/ db_set_initialized(c)
      PROVE  /\ todo[c] # <<>> /\ Head(todo[c]).do \in {"unlock", "uninit", "init", "signals", "global", "num"}
             /\ todo' = [todo EXCEPT ![c] = Rest(c)] /\ UNCHANGED <<flag, field, cam, regs>>
  BY <1>2 DEF cli_db_unlock, capture_signals, save_global_config, db_set_filter_rule_num, db_mark_uninitialized,
              db_set_initialized, Running, Become, Read, Wrote, dbvars, hwvars
<1> QED
  BY <1>1, <1>2, PlainCells

(* Every step of the cli keeps its rules on their way to a match,          *)
LEMMA StepCells ==
  ASSUME Apart, Sound, CamTypes, NEW c \in Clis, StartCLI(c) \/ Command(c) \/ exit(c) \/ Step(c),
         NEW s \in Sets, NEW i \in RuleIds, Celled(c, s, i)
  PROVE  Celled(c, s, i)'
<1>1. CASE reg_write(c) \/ cam_command(c)
  BY <1>1, RegCells, EntryCells
<1>2. CASE Step(c) /\ ~reg_write(c) /\ ~cam_command(c)
  BY <1>2, LockCells, StartBranchCells, SetCells, ClearCells, StartScanCells, ScanCells, KeyCells, OtherCells DEF Step
<1> QED
  BY <1>1, <1>2, StartCells, LeaveCells, CommandCells

(* and the device in its types.                                            *)
LEMMA StepTypes ==
  ASSUME Sound, CamTypes, NEW c \in Clis, StartCLI(c) \/ Command(c) \/ exit(c) \/ Step(c)
  PROVE  CamTypes'
<1>1. CASE reg_write(c) \/ cam_command(c)
  BY <1>1, RegCells, EntryCells
<1>2. CASE ~reg_write(c) /\ ~cam_command(c)
  <2>1. regs' = regs /\ cam' = cam
    BY <1>2 DEF StartCLI, Command, set, clear, show, restore, save, Give, exit, Leave, Step, cli_db_lock, cli_db_unlock,
                StartBranch, cli_fpga_set_ruleset, cli_fpga_clear_ruleset, cli_get_filter_ruleset, StartScan, ScanStep,
                save_global_config, db_set_filter_rule_num, db_insert_flag, db_insert_field, db_delete_flag,
                db_delete_field, db_mark_uninitialized, db_set_initialized, capture_signals, Read, Wrote, hwvars
  <2>2. Entries' = Entries
    BY DEF Entries, CamAddr, Ids
  <2> QED
    BY <2>1, <2>2 DEF CamTypes
<1> QED
  BY <1>1, <1>2

(* Nothing is stored at first, and no cli has begun.                       *)
LEMMA InitCam == Init => CInv
<1> SUFFICES ASSUME Init PROVE CamTypes /\ \A c \in Clis, s \in Sets, i \in RuleIds : Celled(c, s, i)
  BY DEF CInv
<1>1. CamTypes
  <2>1. regs = Both(Nothing) /\ cam = [a \in Entries |-> Both(Nothing)]
    BY DEF Init, Entries, Both
  <2> QED
    BY <2>1, HalvesAre DEF CamTypes
<1>2. \A c \in Clis : ~inited /\ todo[c] = <<>>
  BY DEF Init
<1> QED
  BY <1>1, <1>2 DEF Celled

(* With one cli, every step keeps the invariant.                           *)
LEMMA StepCam ==
  ASSUME Apart, \E c \in Clis : Clis = {c}, IInv, DInv, CInv, [Next]_vars
  PROVE  CInv'
<1> SUFFICES ASSUME faults' = 0
             PROVE  CamTypes' /\ \A c \in Clis, s \in Sets, i \in RuleIds : Celled(c, s, i)'
  BY DEF CInv
<1>0. faults \in Nat
  BY DEF IInv
<1>s. ASSUME faults = 0 PROVE Sound /\ CamTypes /\ \A c \in Clis, s \in Sets, i \in RuleIds : Celled(c, s, i)
  BY <1>s, SoundNow DEF Undisturbed, CInv
<1>1. CASE UNCHANGED vars
  <2>1. UNCHANGED <<todo, inited, flag, field, regs, cam>> /\ faults = 0
    BY <1>1 DEF vars
  <2>2. CamTypes'
    <3>1. Entries' = Entries
      BY DEF Entries, CamAddr, Ids
    <3> QED
      BY <1>s, <2>1, <3>1 DEF CamTypes
  <2>3. ASSUME NEW c \in Clis, NEW s \in Sets, NEW i \in RuleIds PROVE Celled(c, s, i)'
    <3>1. CellNow(s, i)' = CellNow(s, i)
      BY <2>1, CellRead
    <3>2. CASE ~inited /\ todo[c] = <<>>
      BY <2>1, <3>2 DEF Celled
    <3>3. CASE \E t \in Steps : /\ t.do \in Branches /\ todo[c] \in {<<Lock, t>>, <<t>>}
                                /\ inited => Match(s, i, CellNow(s, i))
                                /\ t.do \in {"set", "clear"} => t.id \in RuleIds
      <4>1. PICK t \in Steps : /\ t.do \in Branches /\ todo[c] \in {<<Lock, t>>, <<t>>}
                               /\ inited => Match(s, i, CellNow(s, i))
                               /\ t.do \in {"set", "clear"} => t.id \in RuleIds
        BY <3>3
      <4>2. inited' => Match(s, i, CellNow(s, i)')
        BY <2>1, <3>1, <4>1
      <4>3. inited' => Match(s, i, CellNow(s, i))'
        BY <4>2 DEF Match, Off
      <4> QED
        BY <2>1, <4>1, <4>3 DEF Celled
    <3>4. CASE Ended(todo[c], s, i, CellNow(s, i))
      <4>1. Ended(todo'[c], s, i, CellNow(s, i)')
        BY <2>1, <3>1, <3>4
      <4>2. Ended(todo[c], s, i, CellNow(s, i))'
        BY <4>1 DEF Ended
      <4> QED
        BY <4>2 DEF Celled
    <3> QED
      BY <1>s, <2>1, <3>2, <3>3, <3>4 DEF Celled
  <2> QED
    BY <2>2, <2>3
<1>2. ASSUME NEW c \in Clis, StartCLI(c) \/ Command(c) \/ exit(c) \/ Step(c)
      PROVE  CamTypes' /\ \A d \in Clis, s \in Sets, i \in RuleIds : Celled(d, s, i)'
  <2>1. faults' = faults
    BY <1>2 DEF StartCLI, Command, set, clear, show, restore, save, Give, exit, Step, cli_db_lock, cli_db_unlock,
                StartBranch, cli_fpga_set_ruleset, cli_fpga_clear_ruleset, cli_get_filter_ruleset, StartScan, ScanStep,
                save_global_config, db_set_filter_rule_num, db_insert_flag, db_insert_field, db_delete_flag,
                db_delete_field, db_mark_uninitialized, db_set_initialized, capture_signals, reg_write, cam_command,
                Read, Wrote
  <2>2. Sound /\ CamTypes /\ \A s \in Sets, i \in RuleIds : Celled(c, s, i)
    BY <1>s, <1>2, <2>1
  <2>3. \A s \in Sets, i \in RuleIds : Celled(c, s, i)'
    BY <1>2, <2>2, StepCells
  <2>4. \A d \in Clis : d = c
    OBVIOUS
  <2>5. CamTypes'
    BY <1>2, <2>2, StepTypes
  <2> QED
    BY <2>3, <2>4, <2>5
<1>3. ASSUME NEW c \in Clis, Fault(c) PROVE FALSE
  <2>1. faults' = faults + 1
    BY <1>3 DEF Fault, cleanup, DbFails, CamTimeout, Suffer
  <2> QED
    BY <1>0, <2>1
<1> QED
  BY <1>1, <1>2, <1>3 DEF Next

(* What the driver writes (drv_set_ruleset and reset_filter_default_config *)
(* of drvops.c) follows what parserops.c stores: with nothing under way,   *)
(* the entry of every rule of the operators holds what the database says   *)
(* of it, as long as no signal and no failing call has cut a command short *)
(* and no CAM command has timed out.  It is so for any rules and any board *)
(* with a device, when one cli runs and, on MC10P_FLOW, the indices are    *)
(* below the bit that selects rule set 2; without either, entries and      *)
(* registers are shared and it is not so.                                  *)
THEOREM CamFollows ==
  ASSUME Apart, \E c \in Clis : Clis = {c}
  PROVE  Spec => []CamMatches
<1>1. ASSUME IInv, DInv, CInv PROVE CamMatches
  <2> SUFFICES ASSUME Undisturbed, Quiet, inited, NEW s \in Sets, NEW i \in RuleIds
               PROVE  LET entry == cam[CamAddr(s, i)]
                          last == i = MaxRule - 1
                          is(r) == entry = <<r, r>>
                      IN  IF Exists(s, i)
                          THEN (s = 2 /\ "key" \notin flag[s][i]) \/ is(Stored(s, i))
                          ELSE is(Nothing) \/ (last /\ (s = 2 \/ is(AnyRule)))
    BY DEF CamMatches
  <2>1. PICK c \in Clis : Clis = {c}
    OBVIOUS
  <2>2. Sound /\ CamTypes /\ Celled(c, s, i) /\ todo[c] = <<>>
    BY <1>1, SoundNow DEF Undisturbed, CInv, Quiet
  <2>3. Match(s, i, CellNow(s, i))
    BY <2>2, IdleMatch
  <2>4. /\ CellNow(s, i).named = flag[s][i] /\ CellNow(s, i).fld = field[s][i]
        /\ CellNow(s, i).entry = cam[CamAddr(s, i)]
    BY <2>2, CellNowIs, Numbers DEF Sound, Data
  <2>5. CASE Exists(s, i)
    <3>1. Stored(s, i) = [f \in CellNow(s, i).named |-> CellNow(s, i).fld[f]]
      BY <2>4 DEF Stored
    <3>2. \/ s = 2 /\ "key" \notin flag[s][i]
          \/ cam[CamAddr(s, i)] = Both([f \in CellNow(s, i).named |-> CellNow(s, i).fld[f]])
      BY <2>3, <2>4, <2>5 DEF Match, Exists
    <3> QED
      BY <2>5, <3>1, <3>2 DEF Both
  <2>6. CASE ~Exists(s, i)
    <3>1. Off(s, i, cam[CamAddr(s, i)])
      BY <2>3, <2>4, <2>6 DEF Match, Exists
    <3> QED
      BY <2>6, <3>1 DEF Off, Both
  <2> QED
    BY <2>5, <2>6
<1>2. Init => CInv
  BY InitCam
<1>3. IInv /\ DInv /\ CInv /\ [Next]_vars => CInv'
  BY StepCam
<1>4. IInv /\ DInv /\ CInv => CamMatches
  BY <1>1
<1> QED
  BY <1>2, <1>3, <1>4, Inductive, DataKept, PTL DEF Spec
=============================================================================
