--------------------------- MODULE CommandScript ---------------------------
(***************************************************************************)
(* What the input of the cli promises: one text of command lines.  A       *)
(* restore puts the text of the file it names in front of what is still to *)
(* be read; every line is taken once, in order, with the words it was      *)
(* written with, and only what does not parse or has more words than the   *)
(* watch list has entries is rejected.  The operator is asked for a line   *)
(* only when no line is left.                                              *)
(*                                                                         *)
(* Once the cli is disturbed (memory has run out, the operator has ended   *)
(* the input in the middle of a line, a signal has come), lines may be     *)
(* lost or rejected, but never changed or reordered.                       *)
(***************************************************************************)
EXTENDS Naturals, SequencesExt

CONSTANTS
  EOL,         \* the end of a line
  Words,       \* the words that take an entry of the watch list
  WlSize,      \* the size of the watch list
  Grammar,     \* the lines that are commands
  NoFile,      \* a file that cannot be opened
  FileText,    \* FileText[name]: the text of a configuration file
  DefaultFile  \* the name of the file of a restore without a name

VARIABLES text, done, disturbed, over
vars == <<text, done, disturbed, over>>

HasLine == \E i \in 1 .. Len(text) : text[i] = EOL
FirstLine == SubSeq(text, 1, SelectInSeq(text, LAMBDA t : t = EOL) - 1)
AfterLine == SubSeq(text, Len(FirstLine) + 2, Len(text))
WordsOf(line) == Cardinality({i \in DOMAIN line : line[i] \in Words})
Accepted(line) == line \in Grammar /\ WordsOf(line) <= WlSize

(* The text that a command inserts.                                        *)
Named(line) == IF Len(line) = 1 THEN DefaultFile ELSE line[2]
Inserted(line) ==
  IF /\ line # <<>> /\ Head(line) = "restore"
     /\ Named(line) \in DOMAIN FileText /\ FileText[Named(line)] # NoFile
  THEN FileText[Named(line)] ELSE <<>>

(* s is t with some of its tokens left out: the tokens of s are found, one *)
(* after the other, in t.                                                  *)
Thinned(s, t) ==
  LET found[j \in 0 .. Len(t)] ==
        IF j = 0 THEN 0
        ELSE LET n == found[j - 1]
             IN  IF n < Len(s) /\ s[n + 1] = t[j] THEN n + 1 ELSE n
  IN  found[Len(t)] = Len(s)

Init == text = <<>> /\ done = <<>> /\ disturbed = FALSE /\ over = FALSE

(* Start-up queues lines, and an operator who is asked types one.          *)
Queue ==
  /\ ~over /\ ~HasLine
  /\ IsPrefix(text, text')
  /\ disturbed => disturbed'
  /\ UNCHANGED <<done, over>>
Take ==
  /\ ~over /\ HasLine
  /\ done' = Append(done, [line |-> FirstLine, ran |-> Accepted(FirstLine)])
  /\ over' = (FirstLine = <<"exit">>)
  /\ text' = CASE over' -> <<>>
               [] ~over' /\ Accepted(FirstLine) -> Inserted(FirstLine) \o AfterLine
               [] OTHER -> AfterLine
  /\ UNCHANGED disturbed
(* A line of a disturbed input may be rejected, and insert less.           *)
TakeDisturbed ==
  /\ ~over /\ HasLine /\ disturbed'
  /\ \E ran \in {FALSE, Accepted(FirstLine)} :
       /\ done' = Append(done, [line |-> FirstLine, ran |-> ran])
       /\ over' => text' = <<>>
       /\ ~over' => Thinned(text', Inserted(FirstLine) \o AfterLine)
(* Lines that a disturbed input loses.                                     *)
Lose ==
  /\ ~over /\ disturbed'
  /\ Thinned(text', text)
  /\ UNCHANGED <<done, over>>
(* The end of the input, or of the process.                                *)
End ==
  /\ ~over /\ over'
  /\ text = <<>> \/ disturbed'
  /\ text' = <<>>
  /\ UNCHANGED done

Next == Queue \/ Take \/ TakeDisturbed \/ Lose \/ End
Spec == Init /\ [][Next]_vars
=============================================================================
