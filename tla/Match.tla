------------------------------- MODULE Match -------------------------------
(***************************************************************************)
(* The wildcard match of utils/match.c, which the search of the database   *)
(* applies to every key: match(pattern, text).                             *)
(*                                                                         *)
(* A text is a sequence of character codes.  Of the codes that matche      *)
(* returns only the difference that matters is kept: "valid"; "stop", the  *)
(* bad patterns and MATCH_ABORT, which end the loop of matche_after_star;  *)
(* and "no", the mismatches that let it try the next character.            *)
(***************************************************************************)
EXTENDS Integers, FiniteSets, Sequences

STAR == 42
ANY == 63
OPEN == 91
CLOSE == 93
NOT == {33, 94}
DASH == 45
ESCAPE == 92
NUL == 0
At(s, i) == IF i <= Len(s) THEN s[i] ELSE NUL

(* One character or range of a [..] construct, read from position k on.    *)
Bad == [bad |-> TRUE]
Item(p, k) ==
  LET a == IF At(p, k) = ESCAPE THEN k + 1 ELSE k
      b == IF At(p, a + 2) = ESCAPE THEN a + 3 ELSE a + 2
  IN  IF At(p, a) = NUL THEN Bad
      ELSE IF At(p, a + 1) # DASH THEN [bad |-> FALSE, of |-> {p[a]}, next |-> a + 1]
      ELSE IF At(p, a + 2) \in {NUL, CLOSE} \/ At(p, b) = NUL THEN Bad
      ELSE [bad |-> FALSE, of |-> (p[a] .. p[b]) \cup (p[b] .. p[a]), next |-> b + 1]

(* The position of the bracket that closes the construct, 0 without one.   *)
Skip(p, k) ==
  LET at[i \in 1 .. Len(p) + 2] ==
        IF At(p, i) = CLOSE THEN i
        ELSE IF At(p, i) = NUL \/ (At(p, i) = ESCAPE /\ At(p, i + 1) = NUL) THEN 0
        ELSE at[IF At(p, i) = ESCAPE THEN i + 2 ELSE i + 1]
  IN  at[k]
(* Whether c is a member of the construct, and where to go on: items are   *)
(* read up to the first one that c is in.                                  *)
Member(p, k, c) ==
  LET at[i \in 1 .. Len(p) + 2] ==
        IF At(p, i) = CLOSE THEN [bad |-> FALSE, in |-> FALSE, close |-> i]
        ELSE LET item == Item(p, i)
             IN  IF item.bad THEN Bad
                 ELSE IF c \in item.of
                      THEN [bad |-> FALSE, in |-> TRUE, close |-> Skip(p, item.next)]
                      ELSE at[item.next]
  IN  IF At(p, k) = CLOSE THEN Bad ELSE at[k]

(* The first character of the pattern behind the stars and question marks  *)
(* from i on.                                                              *)
Behind(p, i) ==
  CHOOSE e \in i .. Len(p) + 1 :
    /\ e > Len(p) \/ p[e] \notin {STAR, ANY}
    /\ \A k \in i .. e - 1 : p[k] \in {STAR, ANY}
Asked(p, i) == Cardinality({k \in i .. Behind(p, i) - 1 : p[k] = ANY})

(* Star: the rest of the pattern is tried at every character of the text   *)
(* that it can start with, until one try gives a definite result.          *)
AfterStar_off(p, t, i, j, rest) ==
  LET e == Behind(p, i)
      from == j + Asked(p, i)
      nextp == IF At(p, e) = ESCAPE THEN At(p, e + 1) ELSE At(p, e)
      tries == {u \in from + 1 .. Len(t) :
                  (nextp = t[u] \/ nextp = OPEN) /\ rest[<<e, u>>] # "no"}
  IN  IF from > Len(t) + 1 THEN "stop"
      ELSE IF e > Len(p) THEN "valid"
      ELSE IF nextp = NUL \/ tries = {} THEN "stop"
      ELSE rest[<<e, CHOOSE u \in tries : \A v \in tries : u <= v>>]
AfterStar(p, t, i, j, rest) ==
  LET e == Behind(p, i)
      from == j + Asked(p, i)
      nextp == IF At(p, e) = ESCAPE THEN At(p, e + 1) ELSE At(p, e)
      tries == {u \in from .. Len(t) :
                  (nextp = t[u] \/ nextp = OPEN) /\ rest[<<e, u>>] # "no"}
  IN  IF from > Len(t) + 1 THEN "stop"
      ELSE IF e > Len(p) THEN "valid"
      ELSE IF nextp = NUL \/ tries = {} THEN "stop"
      ELSE rest[<<e, CHOOSE u \in tries : \A v \in tries : u <= v>>]

matche(p, t) ==
  LET m[at \in (1 .. Len(p) + 1) \X (1 .. Len(t) + 1)] ==
        LET i == at[1]
            j == at[2]
            literal(k) == IF p[k] = t[j] THEN m[<<k + 1, j + 1>>] ELSE "no"
            invert == At(p, i + 1) \in NOT
            set == Member(p, IF invert THEN i + 2 ELSE i + 1, t[j])
        IN  IF i > Len(p) THEN IF j > Len(t) THEN "valid" ELSE "no"
            ELSE IF j > Len(t) THEN IF p[i] = STAR /\ i = Len(p) THEN "valid" ELSE "stop"
            ELSE CASE p[i] = ANY -> m[<<i + 1, j + 1>>]
                   [] p[i] = STAR -> AfterStar(p, t, i, j, m)
                   [] p[i] = OPEN ->
                        IF set.bad THEN "stop"
                        ELSE IF set.in = invert THEN "no"
                        ELSE IF set.close = 0 THEN "stop"
                        ELSE m[<<set.close + 1, j + 1>>]
                   [] p[i] = ESCAPE -> IF i = Len(p) THEN "stop" ELSE literal(i + 1)
                   [] OTHER -> literal(i)
  IN  m[<<1, 1>>]

match(p, t) == matche(p, t) = "valid"
=============================================================================
