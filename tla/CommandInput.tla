---------------------------- MODULE CommandInput ----------------------------
(***************************************************************************)
(* The input of a cli: the stack of buffers of the lexer (cli/lexer.l),    *)
(* the lines of the grammar with the restore of a configuration file       *)
(* (cli/parser.y), the three ways to start a cli (cli/cli.c,               *)
(* cli/cli_demo.c) and the watch list that owns the words of the line      *)
(* being parsed (utils/watch_list.c).                                      *)
(*                                                                         *)
(* A token is a keyword or a word; a word, a string, a MAC address or a    *)
(* rule option takes an entry of the watch list, and the parser goes on    *)
(* with a pointer to that entry.  What a command does is in the other      *)
(* modules; here it only matters that it is run, and with which words.     *)
(***************************************************************************)
EXTENDS Naturals, SequencesExt

CONSTANTS
  EOL,         \* the end of a line, T_EOS
  Words,       \* the tokens that take an entry of the watch list
  WlSize,      \* the size of the watch list, 32
  Grammar,     \* the lines that are commands
  Typed,       \* the lines an operator types
  NoFile,      \* a file that cannot be opened
  FileText,    \* FileText[name]: the text of a configuration file
  DefaultFile, \* DEFAULT_CONFIG_FILE
  NULL,        \* a free entry of the watch list
  MaxTyped,    \* bound on the lines typed
  MaxFaults    \* bound on the allocations that fail

(* Text is a sequence of tokens, whatever these are.                       *)
IsText(text) == text \in Seq(Range(text))

ASSUME InputAssumption ==
  /\ WlSize \in Nat \ {0} /\ NULL \notin Words /\ EOL \notin Words
  /\ MaxTyped \in Nat /\ MaxFaults \in Nat
  /\ DefaultFile \in DOMAIN FileText
  /\ \A cmd \in Typed : IsText(cmd) /\ \A i \in DOMAIN cmd : cmd[i] # EOL
  /\ \A name \in DOMAIN FileText : FileText[name] = NoFile \/ IsText(FileText[name])
  /\ EOL \notin {"exit", "restore"} /\ <<"exit">> \in Grammar /\ <<>> \notin Grammar

VARIABLES
  mode,         \* off, interactive, once, demo, over
  stack,        \* pparm->input: what is unread in each buffer, top first
  loading_file, \* the count of them
  line_read,    \* what is unread of the line typed
  parsed,       \* the tokens of the line so far, each with its entry
  list, free,   \* the watch list and its first free entry
  done,         \* the lines taken, and whether they were run
  typed, faults, \* counts
  disturbed,    \* memory ran out, a signal came, or the input ended in a line
  glued         \* a file was restored that does not end in a newline
wl == <<list, free>>
history == <<typed, faults, disturbed, glued>>
vars == <<mode, stack, loading_file, line_read, parsed, wl, done, history>>

Running == mode \in {"interactive", "once", "demo"}
NoMemory == faults < MaxFaults /\ faults' = faults + 1 /\ disturbed' = TRUE
MemoryHolds == UNCHANGED <<faults, disturbed>>

-----------------------------------------------------------------------------
(* The watch list.  When the cursor has reached the end, the whole list is *)
(* searched, and the last free entry of it is taken.                       *)
Slots == 1 .. WlSize
FreeFrom(l, i) ==
  LET open == {j \in i .. WlSize : l[j] = NULL}
  IN  IF open = {} THEN WlSize + 1 ELSE CHOOSE j \in open : \A k \in open : j <= k
LastFree(l) ==
  LET open == {j \in Slots : l[j] = NULL}
  IN  IF open = {} THEN WlSize + 1 ELSE CHOOSE j \in open : \A k \in open : k <= j
FreeSlot == IF free > WlSize THEN LastFree(list) ELSE free
wl_add_entry_next(word, slot) ==
  /\ slot = FreeSlot /\ slot <= WlSize
  /\ list' = [list EXCEPT ![slot] = word]
  /\ free' = slot
wl_add_entry(word, slot) ==
  /\ slot = FreeSlot /\ slot <= WlSize
  /\ list' = [list EXCEPT ![slot] = word]
  /\ free' = FreeFrom(list', slot + 1)
wl_free_entry(slot) == list' = [list EXCEPT ![slot] = NULL] /\ free' = free
wl_cleanup == list' = [s \in Slots |-> NULL] /\ free' = 1

-----------------------------------------------------------------------------
(* The stack of buffers.  A buffer that cannot be allocated is left out:   *)
(* nobody looks at the result of set_input_buff.                           *)
set_input_buff(buffers, below) ==
  \/ stack' = buffers \o below /\ loading_file' = Len(buffers) + Len(below) /\ MemoryHolds
  \/ /\ NoMemory
     /\ \E k \in 1 .. Len(buffers) :
          /\ stack' = RemoveAt(buffers, k) \o below
          /\ loading_file' = Len(buffers) - 1 + Len(below)

Line(tokens) == Append(tokens, EOL)
Restore == <<Line(<<"restore">>)>>
Start(m, buffers) ==
  /\ mode = "off"
  /\ mode' = m
  /\ set_input_buff(buffers, <<>>)
  /\ UNCHANGED <<line_read, parsed, wl, done, typed, glued>>
(* A cli that finds the database uninitialised restores the saved          *)
(* configuration first.                                                    *)
StartCLI == \E fresh \in BOOLEAN : Start("interactive", IF fresh THEN Restore ELSE <<>>)
StartCLIExit ==
  \E fresh \in BOOLEAN, cmd \in Typed :
    Start("once", (IF fresh THEN Restore ELSE <<>>) \o <<Line(cmd), Line(<<"exit">>)>>)
start_cli_demo ==
  \E fresh \in BOOLEAN : Start("demo", IF fresh THEN Restore \o <<Line(<<"exit">>)>> ELSE <<>>)

(* The scanner reads the top buffer, or the line typed.                    *)
Unread == IF stack # <<>> THEN Head(stack) ELSE line_read
Advance ==
  IF stack # <<>> THEN stack' = <<Tail(Head(stack))>> \o Tail(stack) /\ line_read' = line_read
  ELSE line_read' = Tail(line_read) /\ stack' = stack

(* The end of a buffer: back to the one below it.                          *)
yywrap_all ==
  /\ Running /\ stack # <<>> /\ Unread = <<>>
  /\ stack' = <<>>
  /\ loading_file' = 0
  /\ UNCHANGED <<mode, line_read, parsed, wl, done, history>>
yywrap ==
  /\ Running /\ stack # <<>> /\ Unread = <<>>
  /\ stack' = Tail(stack)
  /\ loading_file' = loading_file - 1
  /\ UNCHANGED <<mode, line_read, parsed, wl, done, history>>

(* Below the last buffer is the terminal.                                  *)
readline_input ==
  /\ Running /\ stack = <<>> /\ line_read = <<>>
  /\ typed < MaxTyped /\ typed' = typed + 1
  /\ \E cmd \in Typed : line_read' = Line(cmd)
  /\ UNCHANGED <<mode, stack, loading_file, parsed, wl, done, faults, disturbed, glued>>
(* The operator ends the input.  Between two lines the parser accepts; in  *)
(* a line it gives up, and StartCLI and StartCLIExit call it again.        *)
end_of_input ==
  /\ Running /\ stack = <<>> /\ line_read = <<>>
  /\ parsed' = <<>>
  /\ mode' = IF parsed = <<>> \/ mode = "demo" THEN "over" ELSE mode
  /\ disturbed' = (disturbed \/ parsed # <<>>)
  /\ UNCHANGED <<stack, loading_file, line_read, wl, done, typed, faults, glued>>

(* A token.  An entry that cannot be made is an error token; the parser    *)
(* then skips the rest of the line.                                        *)
Keyword == 0
Error == WlSize + 1
Shift(token, slot) == parsed' = Append(parsed, [token |-> token, slot |-> slot])
yylex ==
  /\ Running /\ Unread # <<>> /\ Head(Unread) # EOL
  /\ LET token == Head(Unread)
     IN  \/ token \notin Words /\ Shift(token, Keyword) /\ UNCHANGED wl /\ MemoryHolds
         \/ /\ token \in Words /\ MemoryHolds
            /\ \E slot \in Slots : wl_add_entry(token, slot) /\ Shift(token, slot)
         \/ /\ token \in Words /\ FreeSlot > WlSize /\ MemoryHolds
            /\ Shift(token, Error) /\ free' = FreeSlot /\ list' = list
         \/ token \in Words /\ NoMemory /\ Shift(token, Error) /\ UNCHANGED wl
  /\ Advance
  /\ UNCHANGED <<mode, loading_file, done, typed, glued>>

-----------------------------------------------------------------------------
(* The line as the command gets it: words are read through their entries.  *)
Command == [i \in 1 .. Len(parsed) |->
              IF parsed[i].slot \in Slots THEN list[parsed[i].slot] ELSE parsed[i].token]
Parses == (\A i \in 1 .. Len(parsed) : parsed[i].slot # Error) /\ Command \in Grammar
Ends(ran) ==
  /\ Running /\ Unread # <<>> /\ Head(Unread) = EOL
  /\ done' = Append(done, [line |-> [i \in 1 .. Len(parsed) |->
                                      IF parsed[i].slot = Error THEN parsed[i].token ELSE Command[i]],
                           ran |-> ran])
  /\ parsed' = <<>>
  /\ UNCHANGED typed

(* A line that changes nothing of the input: any other command, an empty   *)
(* line, a line with an error in it.  Its words are freed at its end.      *)
line ==
  /\ Ends(Parses)
  /\ ~(Parses /\ Command[1] \in {"exit", "restore"})
  /\ Advance
  /\ wl_cleanup
  /\ UNCHANGED <<mode, loading_file, faults, disturbed, glued>>
(* exit and quit: the parser accepts, and the cli ends.                    *)
exit ==
  /\ Ends(TRUE)
  /\ Parses /\ Command = <<"exit">>
  /\ mode' = "over"
  /\ Advance
  /\ wl_cleanup
  /\ UNCHANGED <<loading_file, faults, disturbed, glued>>

(* The records that fgets makes of a file: its lines, and what is read     *)
(* behind the last newline, often nothing.                                 *)
Taken(records, token) ==
  LET last == Len(records)
      grown == [records EXCEPT ![last] = Append(@, token)]
  IN  IF token = EOL THEN Append(grown, <<>>) ELSE grown
Records(text) ==
  LET read[n \in 0 .. Len(text)] ==
        IF n = 0 THEN <<<<>>>>
        ELSE LET before == read[n - 1] IN Taken(before, text[n])
  IN  read[Len(text)]
Terminated(text) == text = <<>> \/ text[Len(text)] = EOL

Name == IF Len(Command) = 1 THEN DefaultFile ELSE Command[2]
Restores == Parses /\ Command[1] = "restore"
Opens == Name \in DOMAIN FileText /\ FileText[Name] # NoFile
Consumed == IF stack # <<>> THEN <<Tail(Head(stack))>> \o Tail(stack) ELSE <<>>

(* lif restore config: the records go onto the stack from the last to the  *)
(* first, so that they are read from the first to the last.                *)
restore_config_reversed ==
  /\ Ends(TRUE)
  /\ Restores /\ Opens
  /\ set_input_buff(Reverse(Records(FileText[Name])), Consumed)
  /\ line_read' = <<>>
  /\ glued' = (glued \/ ~Terminated(FileText[Name]))
  /\ wl_cleanup
  /\ UNCHANGED mode
restore_config ==
  /\ Ends(TRUE)
  /\ Restores /\ Opens
  /\ set_input_buff(Records(FileText[Name]), Consumed)
  /\ line_read' = <<>>
  /\ glued' = (glued \/ ~Terminated(FileText[Name]))
  /\ wl_cleanup
  /\ UNCHANGED mode
(* With "default", or a file that cannot be opened, there is only the      *)
(* reset.                                                                  *)
restore_default ==
  /\ Ends(TRUE)
  /\ Restores /\ ~Opens
  /\ Advance
  /\ wl_cleanup
  /\ UNCHANGED <<mode, loading_file, faults, disturbed, glued>>
(* No memory for the records: the parser returns -1 and is called again,   *)
(* except by start_cli_demo.  The words of the line are not freed, but for *)
(* the name, if there was memory for the head of the list.                 *)
restore_fails ==
  /\ \E ran \in BOOLEAN :
       /\ Ends(ran)
       /\ IF ran /\ Len(Command) = 2 /\ parsed[2].slot \in Slots
          THEN wl_free_entry(parsed[2].slot) ELSE UNCHANGED wl
  /\ Restores /\ NoMemory
  /\ Advance
  /\ mode' = IF mode = "demo" THEN "over" ELSE mode
  /\ UNCHANGED <<loading_file, glued>>

(* SIGINT, SIGTERM, and SIGALRM 20 minutes after the last prompt; only     *)
(* StartCLI captures them, but the others end the process, too.            *)
cleanup ==
  /\ Running
  /\ mode' = "over"
  /\ disturbed' = TRUE
  /\ UNCHANGED <<stack, loading_file, line_read, parsed, wl, done, typed, faults, glued>>

Init ==
  /\ mode = "off"
  /\ stack = <<>> /\ loading_file = 0
  /\ line_read = <<>> /\ parsed = <<>>
  /\ list = [s \in Slots |-> NULL] /\ free = 1
  /\ done = <<>>
  /\ typed = 0 /\ faults = 0
  /\ disturbed = FALSE /\ glued = FALSE

Parse ==
  \/ yylex \/ yywrap \/ line \/ exit
  \/ restore_config \/ restore_default \/ restore_fails
Next ==
  \/ StartCLI \/ StartCLIExit \/ start_cli_demo
  \/ readline_input \/ end_of_input
  \/ Parse \/ cleanup
(* The parser runs; operators and signals come or not.                     *)
Spec == Init /\ [][Next]_vars /\ WF_vars(Parse)

-----------------------------------------------------------------------------
(* Every variable has values of its kind; the count of buffers is right,   *)
(* and the cursor of the watch list never stands on an entry in use, which *)
(* the next word would overwrite.                                          *)
TypeOK ==
  /\ mode \in {"off", "interactive", "once", "demo", "over"}
  /\ loading_file = Len(stack)
  /\ list \in [Slots -> Words \cup {NULL}]
  /\ free \in 1 .. WlSize + 1
  /\ free <= WlSize => list[free] = NULL
  /\ \A i \in 1 .. Len(parsed) : parsed[i].slot \in 0 .. WlSize + 1
  /\ typed \in 0 .. MaxTyped /\ faults \in 0 .. MaxFaults
  /\ disturbed \in BOOLEAN /\ glued \in BOOLEAN

(* What is still to be taken, the line being parsed included.              *)
ScriptText ==
  IF mode = "over" THEN <<>>
  ELSE [i \in 1 .. Len(parsed) |-> parsed[i].token] \o FlattenSeq(stack) \o line_read

(* The buffers, the line being parsed and the words in the watch list are  *)
(* together one text of command lines, taken in order (parser.y:232 pushes *)
(* the records of a file so that they are read as they were written).      *)
Script == INSTANCE CommandScript WITH text <- ScriptText, over <- (mode = "over")
IsScript == Script!Spec

(* A cli that is started with a command ends after it, without asking the  *)
(* operator (cli.c:191 queues an exit behind the command).  A file without *)
(* a newline at its end swallows the line that follows it.                 *)
OneCommandEnds == mode = "once" ~> mode = "over" \/ disturbed \/ glued
=============================================================================
