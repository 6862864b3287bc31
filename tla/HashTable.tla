----------------------------- MODULE HashTable -----------------------------
(***************************************************************************)
(* The hash table that db_server keeps the database in: an array of bins,  *)
(* each the head of a chain of entries on the heap, and the search that a  *)
(* client steers with a cursor it holds between two requests.  The search  *)
(* matches every key with a wildcard pattern: see module Match.  Sources:  *)
(* utils/hash.c, the getfirst and getnext of db_server/db_server.c and     *)
(* their only user, db_dump of cli/database.c.                             *)
(*                                                                         *)
(* A call of hash.c is one step: module DbServer shows that no two threads *)
(* are inside it together, and that no other client writes while one holds *)
(* the lock, as db_dump does.                                              *)
(***************************************************************************)
EXTENDS Match, SequencesExt

CONSTANTS
  Keys, Values,
  Name,     \* Name[k]: the text of key k
  Globs,    \* the patterns, see module KeyStore; element e is written e.text
  Absent,   \* no value
  Addrs,    \* the addresses of the heap
  Null,     \* the null pointer
  Size,     \* HASH_TABLE_SIZE
  HASH      \* HASH[k]: the bin of key k

ASSUME HashAssumption ==
  /\ Absent \notin Values /\ Null \notin Addrs /\ Null \notin Keys
  /\ IsFiniteSet(Addrs)
  /\ Size \in Nat \ {0}
  /\ HASH \in [Keys -> 0 .. Size - 1]
  /\ <<>> \in Globs

VARIABLES
  table,    \* table[b]: the first entry of bin b
  heap,     \* heap[a]: the entry allocated at a, or Free
  phase,    \* where db_dump is: no, first or next
  pattern,  \* what it was asked for
  state,    \* the cursor the client holds, [bin, entry]
  listed,   \* the entries it has printed, in order
  cut       \* TRUE when it ended early, for want of memory
vars == <<table, heap, phase, pattern, state, listed, cut>>
searchvars == <<phase, pattern, state, listed, cut>>

Free == [key |-> Null, value |-> Null, next |-> Null]
Allocated == {a \in Addrs : heap[a] # Free}
Bins == 0 .. Size - 1
Start == [bin |-> 0, entry |-> Null]

(* The entry n links down the chain of bin b, and Null behind its end.     *)
Positions == 0 .. Cardinality(Addrs)
Link(a) == IF a = Null THEN Null ELSE heap[a].next
Node(b) ==
  LET n[i \in Positions] == IF i = 0 THEN table[b] ELSE Link(n[i - 1]) IN n
Chain(b) == {Node(b)[i] : i \in Positions} \ {Null}

(* The loop of hash_lookup, hash_insert and hash_delete_key: the place of  *)
(* the first entry with the key, or of the end of the chain.               *)
Place(k) ==
  LET n == Node(HASH[k])
      stops(i) == n[i] = Null \/ heap[n[i]].key = k
  IN  CHOOSE i \in Positions : stops(i) /\ \A j \in 0 .. i - 1 : ~stops(j)
hash_lookup(k) == Node(HASH[k])[Place(k)]
Prev(k) == IF Place(k) = 0 THEN Null ELSE Node(HASH[k])[Place(k) - 1]

-----------------------------------------------------------------------------
(* Unlinks and frees the entry of k: what hash_insert does with an old     *)
(* entry, and hash_delete_key with the entry it finds.                     *)
Unlinked_kept(k) ==
  LET old == hash_lookup(k)
      b == HASH[k]
  IN  IF Prev(k) = Null
      THEN [table |-> [table EXCEPT ![b] = heap[old].next], heap |-> heap]
      ELSE [table |-> table, heap |-> [heap EXCEPT ![Prev(k)].next = heap[old].next]]
Unlinked(k) ==
  LET old == hash_lookup(k)
      b == HASH[k]
  IN  IF Prev(k) = Null
      THEN [table |-> [table EXCEPT ![b] = heap[old].next], heap |-> [heap EXCEPT ![old] = Free]]
      ELSE [table |-> table,
            heap |-> [heap EXCEPT ![Prev(k)].next = heap[old].next, ![old] = Free]]
Without(k) == IF hash_lookup(k) = Null THEN [table |-> table, heap |-> heap] ELSE Unlinked(k)

(* The old entry goes before memory for the new one is asked for.          *)
hash_insert(k, v) ==
  LET w == Without(k)
  IN  \/ \E a \in Addrs :
           /\ w.heap[a] = Free
           /\ heap' = [w.heap EXCEPT ![a] = [key |-> k, value |-> v, next |-> w.table[HASH[k]]]]
           /\ table' = [w.table EXCEPT ![HASH[k]] = a]
      \/ heap' = w.heap /\ table' = w.table

dbipc_addkey(k, v) == phase = "no" /\ hash_insert(k, v) /\ UNCHANGED searchvars
dbipc_delkey_unlocked(k) ==
  /\ hash_lookup(k) # Null
  /\ table' = Unlinked(k).table /\ heap' = Unlinked(k).heap
  /\ UNCHANGED searchvars
dbipc_delkey(k) ==
  /\ phase = "no"
  /\ hash_lookup(k) # Null
  /\ table' = Unlinked(k).table /\ heap' = Unlinked(k).heap
  /\ UNCHANGED searchvars

(* hash_close frees every chain; db_server, started again, opens anew.     *)
(* A search that a shutdown overtakes is left out: see module DbServer.    *)
hash_close ==
  /\ phase = "no"
  /\ heap' = [a \in Addrs |-> IF \E b \in Bins : a \in Chain(b) THEN Free ELSE heap[a]]
  /\ table' = [b \in Bins |-> Null]
  /\ UNCHANGED searchvars

-----------------------------------------------------------------------------
(* The loops of hash_get_first and hash_get_next: from the cursor on, the  *)
(* first entry that matches, bin after bin.                                *)
Text(g) == FlattenSeq([i \in 1 .. Len(g) |-> g[i].text])
Seek ==
  LET at[c \in [bin : 0 .. Size, entry : Addrs \cup {Null}]] ==
        IF c.bin = Size \/ (c.entry # Null /\ match(Text(pattern), Name[heap[c.entry].key])) THEN c
        ELSE IF c.entry # Null THEN at[[c EXCEPT !.entry = Link(c.entry)]]
        ELSE at[[bin |-> c.bin + 1,
                 entry |-> IF c.bin + 1 < Size THEN table[c.bin + 1] ELSE Null]]
  IN  at

db_dump ==
  /\ phase = "no"
  /\ phase' = "first"
  /\ pattern' \in Globs
  /\ state' = Start /\ listed' = <<>> /\ cut' = FALSE
  /\ UNCHANGED <<table, heap>>

(* The search ends at the end of the table, or when there is no memory for *)
(* the copy, which looks the same to the client.                           *)
Ends(short) ==
  /\ phase' = "no" /\ state' = Start /\ cut' = short
  /\ pattern' = <<>> /\ listed' = <<>>
Lists_stays(c) ==
  /\ phase' = "next"
  /\ listed' = Append(listed, <<heap[c.entry].key, heap[c.entry].value>>)
  /\ state' = c
  /\ UNCHANGED <<pattern, cut>>
Lists(c) ==
  /\ phase' = "next"
  /\ listed' = Append(listed, <<heap[c.entry].key, heap[c.entry].value>>)
  /\ state' = [c EXCEPT !.entry = Link(c.entry)]
  /\ UNCHANGED <<pattern, cut>>
Found(c) == \/ c.bin = Size /\ Ends(FALSE)
            \/ c.bin < Size /\ (Lists(c) \/ Ends(TRUE))
hash_get_first ==
  /\ phase = "first"
  /\ Found(Seek[[bin |-> 0, entry |-> table[0]]])
  /\ UNCHANGED <<table, heap>>
hash_get_next ==
  /\ phase = "next"
  /\ Found(Seek[state])
  /\ UNCHANGED <<table, heap>>

Init ==
  /\ table = [b \in Bins |-> Null]
  /\ heap = [a \in Addrs |-> Free]
  /\ phase = "no" /\ pattern = <<>> /\ state = Start /\ listed = <<>> /\ cut = FALSE
Next ==
  \/ \E k \in Keys : dbipc_delkey(k) \/ \E v \in Values : dbipc_addkey(k, v)
  \/ hash_close \/ db_dump \/ hash_get_first \/ hash_get_next
Spec == Init /\ [][Next]_vars

-----------------------------------------------------------------------------
(* Every allocated entry hangs in one chain, at one place, that of its     *)
(* key, and no key has two: nothing is lost and nothing is freed twice.    *)
ChainsSound ==
  /\ \A b \in Bins : Node(b)[Cardinality(Addrs)] = Null
  /\ Allocated = UNION {Chain(b) : b \in Bins}
  /\ \A b \in Bins : \A a \in Chain(b) : HASH[heap[a].key] = b
  /\ \A a, c \in Allocated : heap[a].key = heap[c].key => a = c

(* The cursor that the client holds between two requests, an address in    *)
(* the memory of db_server, points into the chain of its bin.              *)
CursorLive == phase = "next" /\ state.entry # Null => state.entry \in Chain(state.bin)

(* The table is a map from keys to values; an insertion without memory     *)
(* deletes, and a search that is not cut short lists what it must, once.   *)
Abstract == INSTANCE KeyStore WITH
  store <- [k \in Keys |-> IF hash_lookup(k) = Null THEN Absent ELSE heap[hash_lookup(k)].value],
  searching <- phase # "no"
IsKeyStore == Abstract!Spec
=============================================================================
