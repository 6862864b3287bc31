------------------------------ MODULE KeyStore ------------------------------
(***************************************************************************)
(* What the hash table of db_server promises: a map from keys to values,   *)
(* and a search under the database lock that lists every entry whose key   *)
(* matches a pattern, once.  Module HashTable implements it.               *)
(***************************************************************************)
EXTENDS Integers, Sequences

CONSTANTS
  Keys, Values, Absent,
  Name,       \* Name[k]: the text of key k, a sequence of characters
  Globs       \* the patterns: sequences of elements [of, many]

VARIABLES
  store,      \* store[k]: the value of key k, or Absent
  searching,  \* TRUE while a client searches, with the database locked
  pattern,    \* what it searches for
  listed,     \* the entries it has listed, in some order
  cut         \* TRUE when a search ended early, for want of memory
vars == <<store, searching, pattern, listed, cut>>

(* The text can be cut into one piece per element: a character of the set  *)
(* the element names or, for "*", any number of characters.                *)
Matches(g, t) ==
  \E cut_at \in [0 .. Len(g) -> 0 .. Len(t)] :
    /\ cut_at[0] = 0 /\ cut_at[Len(g)] = Len(t)
    /\ \A i \in 1 .. Len(g) :
         /\ cut_at[i - 1] <= cut_at[i]
         /\ g[i].many \/ cut_at[i] = cut_at[i - 1] + 1
         /\ \A j \in cut_at[i - 1] + 1 .. cut_at[i] : t[j] \in g[i].of

Init ==
  /\ store = [k \in Keys |-> Absent]
  /\ searching = FALSE /\ pattern = <<>> /\ listed = <<>> /\ cut = FALSE

Change(s) == ~searching /\ store' = s /\ UNCHANGED <<searching, pattern, listed, cut>>
Insert(k) == \E v \in Values : Change([store EXCEPT ![k] = v])
(* A deletion, or an insertion for which there is no memory.               *)
Remove(k) == Change([store EXCEPT ![k] = Absent])
Clear == Change([k \in Keys |-> Absent])

Begin ==
  /\ ~searching /\ searching' = TRUE
  /\ pattern' \in Globs
  /\ listed' = <<>> /\ cut' = FALSE
  /\ UNCHANGED store
Wanted == {<<k, store[k]>> :
             k \in {j \in Keys : store[j] # Absent /\ Matches(pattern, Name[j])}}
Listed == {listed[i] : i \in 1 .. Len(listed)}
List ==
  /\ searching
  /\ \E entry \in Wanted \ Listed : listed' = Append(listed, entry)
  /\ UNCHANGED <<store, searching, pattern, cut>>
End ==
  /\ searching /\ searching' = FALSE
  /\ cut' \in BOOLEAN /\ (~cut' => Listed = Wanted)
  /\ pattern' = <<>> /\ listed' = <<>>
  /\ UNCHANGED store

Next ==
  \/ \E k \in Keys : Insert(k) \/ Remove(k)
  \/ Clear \/ Begin \/ List \/ End
Spec == Init /\ [][Next]_vars
=============================================================================
