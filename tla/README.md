# ATCA-7400 interface card software: TLA+ models

TLA+ models, model-checking runs and machine-checked proofs for the software in
`src/p1020_etx_v3.5.3/` (version 3.5.3): the configuration database, its
clients, the input and the commands of the cli, the firmware update, the kernel
driver of the cards and the console server of the switch. Paths below are relative
to that directory.

## 1. The system

| part | state it keeps | operations | talks to |
|---|---|---|---|
| `db_server` | hash table of keys, one recursive mutex, `g_run`, one detached thread per connection | GETKEY ADDKEY DELKEY KEYEXISTS GETFIRST GETNEXT LOCK UNLOCK CLOSE SHUTDOWN | clients over TCP 7667 on the loopback |
| `db_client` | socket and one request buffer per process | one call per command, synchronous | `db_server` |
| `utils/hash.c`, `match.c` | bins, chains of entries | open, close, insert, delete, get, exists, first, next by pattern | `db_server` only |
| `cli`, `cli_demo` | nesting count `db_lock`, input stack of the lexer, watch list | yacc grammar -> `parserops.c` -> `database.c`, `drvops.c` | `db_server`, `cs_server`, `/dev/qnf<n>`, `/dev/tap`, `qnf.conf`, `firmware.bin` |
| `lib/qnfapi.c` | none | register reads and writes, CAM entries, forward table, flash | kernel driver `qnf` |
| `cs_server` | terminal buffer and its count, one mutex, a thread per client, one reader thread, the shell process | SET CLOSE SHUTDOWN | clients over TCP 7668, the switch shell on a pty |
| `bootsetup` | none | start and stop of `db_server` | `db_server` |
| driver `qnf` | table of 32 slots, flags per slot | probe, remove, open, release, ioctl | PCI cards |
| driver `tap`, `bypass_monitor` | one register | get and set by ioctl; blink the leds | the bypass hardware |

What is hard here, and hardly tested (the repository has no tests):

* LOCK is advisory and spans requests: `g_db_mutex` is taken by one request of
  a connection and given back by another. Every process nests its own locks.
* A client can die, be ended by a signal, or run its signal handler in the
  middle of a request; the handler then uses the same socket.
* Shutdown has to get the monitor out of `accept`, and frees the table.
* Rules are several keys each, with a count beside them; the loops that walk
  over them stop at the count. The device is written partly outside the lock.
* Addresses in the device are made of rule numbers of five or six bits.
* Registers are read, changed and written back by processes that share no lock.
* A restored file is pushed onto the input stack while it is being read from it.
* A card can be pulled while files are open on it, or being opened.
* A firmware update takes twenty minutes, under an alarm of twenty minutes.
* `cs_server` waits a fixed time and shares its buffer with a reader thread.

What makes each part correct, in a line: the database is exclusive to the owner
of the lock and answers what was asked; the hash table is a map and a search
lists it; count, flags and fields of the rules agree and the CAM follows them;
a saved configuration restores what was saved; the lines of a file are taken once,
in order, with their words; registers follow the database; a write reaches the
card it is for; a card is reconfigured only from a whole firmware; a command to the
switch shell gets its own response. `PROJECT.json` lists every hazard at its line.

## 2. Modules

| module | models | stands on |
|---|---|---|
| `DbServer` | `db_server.c`, `db_client.c`, `cleanup` of `cli.c` | TCP semantics (`CloseEnd`, `AfterWrite`, SIGPIPE) |
| `DbServerProofs` | theorems about it | |
| `KeyStore` | abstract: a map, and searches of it | `Match` for what a search lists |
| `Match` | `match.c` beside a reference definition of its patterns | |
| `HashTable` | `hash.c` with the commands that reach it | implements `KeyStore` |
| `HashTableProofs` | theorems about it | |
| `RuleConfig` | rule commands from `parser.y` down to `reg_write` | the lock and atomic data commands that `DbServer` is about |
| `RuleConfigProofs` | theorems about it | |
| `ForwardMode` | forward mode commands, save and restore, device addresses | the same lock |
| `GlobalConfig` | the other settings: words, MAC addresses, ports and `qnf.conf`, bypass and its monitor | the same lock |
| `GlobalConfigProofs` | theorems about it | |
| `CommandScript` | abstract: one text of command lines, taken in order | |
| `CommandInput` | `lexer.l` input, lines of `parser.y`, `watch_list.c`, starts of `cli.c` and `cli_demo.c` | implements `CommandScript` |
| `CommandInputProofs` | theorems about `CommandInput` | |
| `FirmwareUpdate` | `drv_update_firmware` and the flash routines of `qnfapi.c` | programming of a flash |
| `FirmwareUpdateProofs` | theorems about it | |
| `QnfDriver` | `drv/qnf_drv.c` | the kernel around a PCI driver |
| `DeviceProofs` | theorems about `QnfDriver` and `ForwardMode`, which meet in the card | |
| `CsServer` | `cs_server.c`, `cs_client.c` | the shell as a queue of commands |
| `CsServerProofs` | theorems about it | |

The MC modules hold the sets, functions and symmetries of the instances.

**DbServer.** `cl`, `held`, `ops`, `pend` are a client process; `rq`, `cq`, `rs`,
`cEnd`, `sEnd` the two streams of its connection; `mon`, `conn`, `backlog` the
monitor loop; `thr`, `buf`, `ans` the thread of each connection; `owner`, `depth`
the recursive mutex; `table`, `open` the hash table. Each action is a stage of a
call: send, read of the request, dispatch, entry to and exit from the hash
function, response, read of the response. A message is one unit of the stream,
because both ends read until they have a whole `struct dbipcrec`. The end of a
stream is not noticed by `dbipc_read_request` (the thread spins), which is what
`dbipc_read_request` in the model does: nothing. A client whose `db_open` fails ends in
the model; in the code (`cli.c:110`, `163`) it goes on to a lock, with a request buffer that
`db_client.c:119` has freed and no connection.

**HashTable, KeyStore, Match.** `heap` is a set of addresses; chains are `next`
links; a search holds a raw address between two requests as the client does.
`hash_insert` frees the old entry of a key before it asks for memory. A search
carries a pattern: `HashTable` walks the chains and asks `match`, translated in
`Match` function by function (`matche`, `matche_after_star`, ranges, inversions,
escapes); `KeyStore` lists the keys that the reference `Matches` of the same
module accepts, a definition that knows nothing of the code's cursor. So
`IsKeyStore` is at once the refinement and the correctness of the pattern match.
Insertion, deletion and close happen while no search is under way, since all
clients change the table under the database lock and search under it; the
exception, a shutdown, is in `DbServer`, where `stop_db_srv` frees the table
without the mutex.

**RuleConfig.** A command is a sequence of steps (`todo`): lock, database
write, register write, unlock. A step that branches on what it reads replaces
itself by the steps of its branch. Reads are merged with the branch they decide,
because the lock is held; writes are separate, because a signal, a failing call
or another process's register writes come between them. Error returns are
`Recover`: what the callers do after the routine that failed. `FaultKinds` are
`signal` (the handler ends the cli), `memory` (the database refuses a key), `cam`
(the CAM times out) and `settings` (a fetch of `save_global_config` fails; it unlocks twice, and what
holds only without it says so by `SettingsRead`). On MC10P_FLOW a time-out of the CAM
may come before or after the entry is written. The
six fields of a rule are two, the four ports ("oc") one, the eight or ten CAM
registers two halves. `Board = "none"` is a system whose device does not open,
where the drivers return 0 without writing.

**ForwardMode.** A command walks over the pairs of rules it names, first in the
database under the lock, then in the device after the unlock. `SetAddr`,
`ResetAddr` and `Or` are the address arithmetic of `parserops.c:1552`,
`drvops.c:238` and `qnfapi.c:1521`. On MC20E a mode the board does not know is
written with an uninitialised command: a choice among the possible outcomes.
The order of a walk is left open, which allows more than the code does.

**GlobalConfig.** A set command changes the database under the lock in one step
and the device in steps of its own, after it: one for a word, four for a MAC
address, two (get, set) for the bypass register. `astray` names the registers
that two commands crossed on, or that a reset of this build leaves out: there the
code promises nothing. `inode`, `conf`, `tmp` and `left` are the files behind
`qnf.conf` and `qnf.conf.tmp`, by inode because a rename moves a file away
from under a stream that is still open on it; `ReadLine` is the reading of a
line with `strtok` and `sscanf`, with what stays in a variable that is not
assigned. Settings are 0 (default) or 1, ports two of each card. The failures of a
save are those of its fetches; `fprintf` and `fclose`, which the code does not look at
before its rename (`parserops.c:1048`), do not fail here, and no cli is killed in
the middle of a command. An insert into the database that fails
(as at `parserops.c:2138`), and may lose the key, is left out too.

**CommandInput.** `stack` is the stack of input buffers with the unread tokens of
each, `line_read` the line that readline gave, `parsed` the tokens of the line so
far with the entry of the watch list that holds the text of each, `list` and
`free` the watch list. `Parse` is one action of the lexer or parser: a token, a
line, a `yywrap`, a restore. The refinement mapping puts the four together
into the one text of `CommandScript`: so pushing the records of a file in any
other order, dropping a word or freeing one too early is a step the abstract
module does not have. `disturbed` is set by an allocation that fails, a signal, or an
input that ends in a line; from then on lines may be lost, not invented.

**FirmwareUpdate.** `Plan` is what an update does with the file it has opened: the
sequence of bank unlocks, block erases, buffers of words, the number, the
comparison and the reconfiguration, computed by the arithmetic of the code
(`need_bank` in 8 bits, `last_words` at the end of a bank, of a block and of a
buffer). Each action does the next of them to `flash`. Words are numbers that
tell version and place; `byte_swap` is minus; four words of the flash that hold a
serial number are one. A fault is an error bit or a signal (both end the process)
or a word that is written wrong without an error bit. `open_fails` is the card or the file
that cannot be opened (`drvops.c:75` to `91`). `replace` puts another
`firmware.bin` in place at any time; one that is overwritten while it is read is left
out. What is behind the end of the flash reads
as 0xffff (`qnfapi.c:1840`), so the unlock of a bank there ends the update.

**QnfDriver.** `flags`, `devId`, `mmio` and `node` are the table of slots. The kernel
probes and removes one card at a time, so a removal is one step; a probe is two
(`qnf_init_one` reads the flags of its slot, `attach` stores them and does the rest). An
open is up to seven: entry and attached test, test of QNFF_INITED, test of the device, begin
and end of the chip set-up, read of the flags and the store that marks the slot, with removals,
probes and other opens between any two of them. The set-up can fail, and the open goes
on as if it had not (`qnf_drv.c:155`, `hyphy20g_wrapper.c:760`); two at once on one chip, or one
that began on another card, may leave it in either state. `file[f].card` remembers for
which card a file was opened, `chip[c]` what the last set-up that ended has made of a chip.
A read or write of a register is where `mmio` leads; it changes nothing in the model.

**CsServer.** A line of terminal output is the unit of data. `csipc_set` is
the mutex and the typed command, `wakeup` the end of the fixed wait and the read
of `ttyCount`, `reset_count`, then `answer`; `tty2net_*` is the reader, which
takes no mutex. `late` records that a wait ended before the shell was through.
`csipc_shutdown` ends the thread of its client without an answer. The length of a
line is left out: `tty2net` collects it in 1024 bytes without a bound (`cs_server.c:469`), so that a longer
one overruns the stack; and a `read` that fails closes the terminal and goes on reading
it (`cs_server.c:473`), which is left out too.

## 3. Runs

| run | instance | shows |
|---|---|---|
| `db_faults` | 2 clients, locks nested 2 deep, 1 request per critical section, kills, signals, allocation failures | types, exclusion in the table, lock counts agree, answers match and stay true, an orderly close frees the lock, and only a death inside the signal handler can bring SIGPIPE to the server |
| `db_live` | 1 client, 2 stoppers, listen queue of 1 | critical sections end; the process ends after SHUTDOWN |
| `hash` | 3 keys in 2 bins, 3 entries of memory, patterns with stars, question marks, brackets, escapes | chains, cursor, and refinement of `KeyStore` with its patterns |
| `rule_shared` | 2 clis that come and go, 2 rules of one set, no device, a signal or a failing insert at any point | count, whole rules, loops inside the table, one initialisation, ownership, and every way out of a command has undone its locks, the failing fetch of a save apart |
| `rule_cam` | 1 cli, both sets, rule numbers below the select bit, a CAM time-out or a failing fetch | CAM equals database; commands end |
| `forward` | 1 cli, 2 x 2 pairs, MC20E_PPOE (rows twice as long as needed), all five kinds of mode | no default stored, save and restore, device equals database |
| `config` | 2 clis and the bypass monitor, 3 commands, 3 builds, a save that fails | registers hold what the commands asked for; `qnf.conf` is one whole save; what a new database reads from it |
| `input` | three ways to start, a saved file, one that restores another, one without a newline at its end, one that is missing; watch list of 2, an allocation that fails | refinement of `CommandScript`; a cli started with a command ends after it; buffer count and watch list cursor |
| `firmware` | banks of 2 x 2 buffers of 2 words, files of 13 kinds of length, 3 updates, 2 faults, 1 new file | only a whole file is put to use; trying again succeeds; the hardware number stays |
| `drivers` | 2 cards, one with a chip, 2 files, 2 slots, 1 failing call | slots accounted for, unless a mark crossed a removal; a file reaches its card, unless that was removed; no open of a card with a chip returns before a set-up of it has ended |
| `cs` | 2 clients with a command each, kills, shutdown and end of the shell, buffer of 3 lines | responses are whole, and one command is in the shell, unless a wait was too short; count in the buffer; every served command answered |
| `rule_cleared` (violation) | 2 clis | a set writes the CAM after its unlock, behind a reset or clear |

Bounds. Two clients are enough for every race of the lock and the registers:
the mutex, the CAM registers and the terminal each have one holder and one
intruder. `MaxDepth = 2` is the deepest nesting the cli makes (start-up around
a reset). `MaxOps`, `MaxCmds` and `MaxTyped` only bound how often a loop is taken.
`ListenQ` of 1 makes the queue fill, which 5 in the code would need more stoppers
for. `Word = 8` stands for 2^32: larger than any count reached, small enough for an
unsigned count to wrap. `MaxRule`, `CamSelect`, `Row` are scaled together, so
that an address bit is missing or present as in the builds: `MaxRule = 2
CamSelect` is 64 rules on MC10P_FLOW, `2 MaxRule = Row` MC20E_PPOE, `MaxRule =
Row` MC20E. `WlSize = 2` stands for 32, and some lines have three words.
In `firmware` 32 words a buffer, 64K a block, 8 blocks a bank, 16 banks, the
numbers in bank 14 and 2^8 are 2, 4, 2, 4, 2 and 8, in the same order of size;
the lengths are those at which a division changes: none, one short of a bank,
a bank, one more, all before the numbers, one more, all, more, 2^8 banks and one
more. `QNF_MAX_BOARDS = 2` is full with both cards or one failed probe.
`MaxFaults` of 1 or 2: single or double faults, at every point; 1 in `drivers`, whose
steps are the finest.

Deadlock is checked in `hash`, `rule_*` and `forward`. The other
systems stop for good reasons: all clients have left, the server or the cli has,
or the bound on commands, updates or files is used up; in `drivers`, an open that the
kernel has killed in the set-up keeps the module loaded, with its table full.

Fairness. `DbServer!FairSpec` gives weak fairness to the monitor, to the steps of
each thread and of the clients inside a call, and no more: POSIX threads that can run
do run. That is enough, since no step toward the end of a critical section waits for
the mutex of another. No fairness is given to the decision of
an operator to type a command. `RuleConfig!Spec` gives the steps of a command
weak fairness and its lock strong fairness: a default mutex that is released
over and over is got in the end. `CommandInput!Spec`
gives weak fairness to `Parse` only: the process runs, nobody has to type or to send a signal.
`CsServer!Spec` is like `RuleConfig`'s: weak fairness for accept, threads, clients that wait and
the reader of the terminal, strong fairness for `csipc_set`, which waits for
`g_cs_mutex`; the shell is fair too, since the code assumes it answers.

Each property has a mutant in the module (named after the definition it
replaces): a forgotten lock, a flat nesting count, a count raised twice, a
swapped order, a missing reset, an unlinked entry that is not freed, a bank erased
for a block, a comparison that stops at the sizes.

## 4. Proofs

`DbServerProofs` proves for every number of clients and stoppers, every set of keys
and values and every combination of faults: `TypeOK`, `HashExclusive`,
`LockAgreement`, `ResponseMatches`, `OrderlyCloseFreesLock`, `OnlyOwnerWrites`,
`SigpipeNeedsTwoAnswers` and `AnswerStillTrue`.
Assumption: `DbAssumption` (disjoint processes, positive bounds). None of the
properties is inductive by itself. The invariant `TypeOK /\ LockInv` adds where
a request is on its way from client to thread and back (`InFlight`): the mutex
depth of a client and what it believes differ by the effect of that one request,
applied between the thread's execution and the read of the response; and, for
the time after a client has died, that a data command in a stream or a thread
was sent under the lock (`ThreadInv`). Each action preserves it (one lemma or
step per action), the properties follow. `OnlyOwnerWrites` follows from the
invariant and the actions that assign `table`. Two more invariants stand on this one.
`PipeInv` counts, for each connection that is still served, the answers that are due
against the writes the kernel allows: a request and a CLOSE are unanswered together only
inside the signal handler before it has read anything, so a client that has gone in any
other way is written to at most once, and the second write, which raises SIGPIPE, needs
one that was killed there. `AnswerInv` says that the answer of a data command is true
of the table from the moment the thread has it: the client owns the mutex until it has read
it, so no other thread is inside the table.

`HashTableProofs` proves `ChainsSound` and `CursorLive` for any set of keys and values, any
number of bins, any hash function into them and any finite heap, under `HashAssumption`. The invariant names the
chains: there is, for each bin, a sequence of addresses of which `table` and the `next`
fields are one spelling (`Hangs`); together the sequences hold every allocated address,
each entry in the bin of its key and no key twice. The recursive functions of the
model are shown to be what the sequences say: `Node`, which follows the pointers of a
bin, is the sequence with Null behind its end (`NodeIs`, by induction over the places),
so a chain ends within the number of addresses there are; `Seek`, the loops of
`hash_get_first` and `hash_get_next`, is well defined and stops at an entry or at the end, because each
of its moves lowers a rank, the bins to come and then the rest of the chain
(`SearchExists`, `SearchStays`). An unlinked entry is taken out of one sequence (`Taken`) and
a new one is put in front of one (`Fronted`); the sequences that result are spelt by the
new heap. With the cursor: insertion and deletion come between searches, so where
it stands stays in its chain.

`ImplementsKeyStore` is the refinement, `IsKeyStore`. That a step of the table is the
step of the map with the same name is a matter of what the heap holds (`StoreIs`:
a key has the value of the one entry that has it): `Deletes`, `Puts` and `Empties`.
For the search, `SearchInv` says that what is listed is what is sought and no longer to
come, where `Coming` is the part of the chains from the cursor on. A move
over an entry takes that entry out of `Coming` (`PastEntry`), a move to the next bin takes
nothing (`PastEnd`), so `Seek` passes over nothing that matches (`SeekComing`), and what it
stops at is not listed yet; at the end nothing is to come. The hypothesis
`PatternsAgree` is the other half, what `match` says of one pattern and one text: an equation
between two recursive functions, by induction over the pattern, which only the run
`hash` checks, for its texts.

`CommandInputProofs` proves `TypeOK` and `IsScript` of `CommandInput`, for any lines typed, any
files, any grammar and size of the watch list and any number of faults. Assumption:
`InputAssumption` (what is typed and read are sequences of tokens, a typed line has no
end of line in it, `exit` is a command, and the empty line, which the grammar takes by a rule of
its own, is none). The inductive invariant `IInv` has six parts, all of which TLC has checked on
the instance of the run `input`: modes and counts; the buffers (`Buffers`: the operator is asked
only when every buffer is read, a typed line ends at its end); the line (`LineSoFar`: no end of
line in it, and the words, and they only, have asked for an entry); the watch list (`WatchList`:
the cursor is at a free entry or behind the last); `OwnEntry`, that the words of the line that
have an entry have one each and it holds their text; and `OnlyTheLine`, that while nothing is
lost no other entry is in use, so that a word is refused only if the line has more words than
the list has entries. The last two are what the refinement needs: the parser accepts
a line exactly when it is a command whose words fit (`Accepts`), and what it runs is what was
written (`CommandIs`). The rest is about texts. `FlattenSeq` of the stack is the text
that is unread (`FlattenCat`), pushing buffers puts their text in front of it, or, if an
allocation fails, their text with a piece cut out (`Pushed`), the records of a file are the file
(`FileRecords`), and a text out of which a piece was cut is `Thinned` (`ThinnedCut`). Then
each action of the input is a step of `CommandScript` or none (`ScriptStep`): a token moves from
the buffers to the line and leaves the text alone (`TokenStutters`), the end of a
line takes it (`LineTakes`, `ExitTakes`), a restore takes its line and puts the file in its place
(`RestoreTakes`).

Of `ForwardMode`, whose `FMSpec` stands beside the `Spec` of `QnfDriver` there,
`DeviceProofs` proves `TypeOK`, `OneWalk` (the walks over the database exclude each
other) and `NoDefaultStored` for any number of clis; `SaveRestores` for every number of rules and set of modes, through the two lemmas that a
printed mode is parsed as itself and that the lines of a saved file name each
pair at most once; and `TagMatches` for one cli on MC20E_PPOE, where `FiveBits`
shows that pairs have addresses of their own. `Walks` is the strengthening:
what a walk has passed already has its new mode.

`DeviceProofs` also proves `SlotsAccounted`, `AccessesArrive` and `OpenedAfterSetUp` for
every number of cards, files, slots and failing calls, under `DriverAssumption`.
The inductive invariant `IInv` has six parts: the types; `SlotsAccounted` itself; a probe
under way has a free slot, which is nobody's (`Probes`); a
device node exists only on the slot of a bound card (`Nodes`); a file with a card is on
the slot of that card, which is bound (`Uses`: this is why a removal has to find
every file of its card); and a slot that is marked has had a set-up of its chip to the end, an
open that is about to mark it has ended one too, and two opens are between the test and the mark of one
card only if that is noted in `crossed` (`Marks`). What the slots, nodes and files say of each
other holds while no mark has changed the attached bit (`torn`), `Marks` while no card was removed in the middle
of an open (`raced`). The step lemmas go action by action;
the removal, the probe and the mark are the hard ones, since the first two hand a slot on
and the last stores flags that it has read before. What the theorems do not say:
a set-up may have failed; a file that was left open over a change of cards reads and writes the
next card (`Gone`).

`RuleConfigProofs` proves `InitOnce`, `LocksUndone` and `SectionOwned` (the last two
say themselves that they hold until a fetch of `save_global_config` has failed, `SettingsRead`:
from then on they are false, see section 5), for any number of clis,
any rules, a count of any width and any number of signals, failing calls and CAM
time-outs. The invariant reads `todo[c]`, what is left of a command, as a program: it can
be labelled with nesting counts, from the `db_lock[c]` of now to 0, so that a lock
goes up by one, an unlock down, and every step that works on the database stands at a
count above 0 (`Going`). `Runs` says what a labelling is; its lemmas say that
sequences put together run one after the other, and what `FlattenSeq` does to them, so
that the plan of each command is labelled once (`StartupRuns`, `SaveRuns`, `SectionRuns`)
and each action only drops a label, or puts a plan in the place of a branch. The error
return, `Recover`, goes on from the first lock or unlock, up to which the count cannot have
changed (`RecoverRuns`). A second part of the label, whether this cli is going to mark
the database as initialised, gives `InitOnce`: it is set while it holds the lock, so no
other cli can have done so.

Its second part proves `FilterNoKept`, `ScanInTable` and `ReadsWhole`, with the same
generality, while `faults = 0` (as the properties say: what a command that was cut short
leaves behind is wrong). The labels are now states of the data. A `Table` is what the
database holds of one rule set: the count, the rules, the fields their flags name and the
fields that are there. `TableStep` says what a step does to it; a loop of reset or save is
one step of it, from a table that agrees with the counters of the loop (`Ahead`: what has
still to be counted is what is there from the index on) to the one it leaves behind. The
plan of each command is shown to run from every table that is counted and whole
(`Right`) to another one, whichever rule is set over or cleared; a `View` adds the nesting
count and the mark of initialisation, which send a first start over an empty database,
where there is no count, through the initialisation (`Opening`). The invariant `DInv`: with nobody in a section the
tables are `Right`, or nothing has been initialised (`Fresh`); a cli without the lock has
at most register writes, the signal handlers and then a whole section before it (`Waits`);
the owner's section takes each table of now to a `Right` one (`Works`). That a loop which
has run to the end of the table has counted everything is then arithmetic: from there on
nothing is there.

Its third part proves `CamMatches` (`CamFollows`), again while `faults = 0`, for any rules
and either board, under two hypotheses: one cli runs, and no two rules of the operators
share an entry (`Apart`: there is a device, and on MC10P_FLOW the indices are below
`CamSelect`). Both are needed: register writes come after the unlock, so that two
clis mix their halves, and larger indices of set 1 land in set 2 (section 5). The labels
are now a `Cell`: the flag, the fields and the entry of one rule with the registers. A
step on another rule, or on no rule, leaves the cell alone (`Elsewhere`); a reset loop is
one step that drops the rule (`Dropped`); a cell is a `Match` when it says what `CamMatches`
says. `ResetAll` takes any cell to a `Match`, although it writes all entries of both
sets in order and the two sets may share some: the entry keeps the last of them
(`AfterReset`). A new rule is stored before it is written and a cleared one deleted before
its entry is, and both plans end in a `Match` for that rule and every other (`SetCells`,
`ClearCells`). The invariant `CInv`: what is left of the command takes the cell of now to a `Match`,
or the command is at its lock or branch, and the cell is one already if the database is initialised
(`Celled`).

`FirmwareUpdateProofs` proves `ReconfiguredWhole`, `TryAgainSucceeds` and
`HardwareNumKept` for flashes of any geometry, files of any size and any number of
updates, under `FlashAssumption`. Half of it is arithmetic without faults: which words
each step of a `Plan` erases and programs, that the steps cover the file without a gap
(`Covers`), through divisions with and without a rest. The invariant says what is in the
flash when `step` is reached: the blocks that are erased are blank or right, the buffers
that are programmed are right, the number is in place from its step on, as long as
nobody disturbs the update; what the comparison has found stays so until the card is
reconfigured, in any case; a step of a file that does not reach the bank of the
numbers does not touch `HardwareAt`.

`GlobalConfigProofs` proves `AsTold`, `FileWhole` and `SurvivesRestart` for any number of clis, commands,
settings and bypass lines. For each register (a word, the MAC addresses, the tap
register) the invariant says: outside `astray` at most one command is on its way to it,
the register differs from the database only by what that command still has to write, and
what the command or the monitor has read is what the register holds. For the files: every
inode that is called qnf.conf or may get that name is known to be spoilt, or going to be
written whole by the save that has it open, or just written by the holder of the lock, or
holds the settings of the last save.
`SurvivesRestart` then needs what the parser makes of the nine lines of a whole file. `Parsed`
is a fold over the lines; `ParsedReads` shows that it is some sequence of readings, each
made from the one before by `ReadLine`, and `ParsedPrinted` follows that sequence along
`Layout`: port 0 has its values after its line, port 1 has the second value of the last
line that has assigned the variable. `Ports` adds to the invariant that every
line in a file or a stream is one of `Layout` with two values, and that all settings have two ports.

`CsServerProofs` proves `PromptIsWhole`, `OneInShell` and `CountInBuffer` for any number of clients,
lines of a response and any buffer that one response fits in, under `CsAssumption`.
While no wait was too short, the lines that
are counted are a prefix of the response to the one command in progress, the line with
the reader, if there is one, is the next of it, and the lines the shell has still to
print are the rest; `OneInShell` follows. After a wait that was too short the next command is typed while
the rest of the last one is still to come: two commands are in the shell then, and the
first two properties claim nothing; `CountInBuffer` still holds.

Where a proof needs induction over numbers, it takes the least number outside a set
(`NatInd`, from the well-foundedness of `Nat`), because the library's induction theorem
takes an operator.

Only model-checked: liveness (`CriticalSectionEnds`, `ShutdownCompletes`,
`CommandsEnd`, `Answered`, `OneCommandEnds`), which is out of the prover's reach, and the pattern
match itself (`PatternsAgree`, the hypothesis of `ImplementsKeyStore`), an equation of two
recursive definitions for every text.

## 5. What the models show of the code

With a run: `rule_cleared`. Each of the following violates a property in an instance that
is described, or was seen while reading.

Rules and forward modes:

* A signal between the two inserts of a set: `cli_fpga_set_ruleset1` raises the
  stored count in one call to the database (`parserops.c:1091`) and stores the rule in
  later ones; the handler (`cli.c:59`) ends the cli in between, and `db_close` gives
  the lock back. The count is then one more than "Number of filter rules"
  (`database.c:67`), and the loops of reset and save run past the rules. The invariant
  `FilterNo` of `RuleConfig`, with one cli and one signal, shows it; `FilterNoKept`
  is what holds without a fault.
* `drvops.c:416` ORs the set into bit 5 of a CAM address (the comment on line 415
  says "addr(5) = '0'"): rules 32 to 63 of set 1 land in set 2. `CamMatches` with
  `MaxRule = 2 CamSelect` and rule numbers from the select bit up shows it.
* `cli_fpga_set_ruleset1` unlocks the database (`parserops.c:1119`) before it writes the
  registers (`parserops.c:1121`): two clis mix the halves of their rules.
  `CamMatches` with two clis that set and clear, and no fault, fails.
* `qnfapi.c:1494` puts two six-bit numbers five bits apart on MC20E: two pairs share an
  entry. `TagMatches` with `Board = "MC20E"`, `MaxRule = Row = 4` shows it.
* `drvops.c:238` resets ten-bit addresses with shift 5 where `parserops.c:1552`
  sets twelve-bit ones with shift 6: on MC10P_FLOW the modes of most rules are not
  reset in the device. `Board = "MC10P_FLOW"` and `MaxRule = Row = 4` shows it.
* `drvops.c:641`: `action.cmd` is uninitialised for three of the five modes on
  MC20E.
* `save_global_config` unlocks before it returns an error (`parserops.c:470`) and so
  does its caller (`parserops.c:183`): after a failing fetch `db_lock` is
  2^32 - 1. The `settings` fault does this in `rule_cam`; with it in `rule_shared`, and
  without the premise `SettingsRead`, `LocksUndone` fails at once.
* `parser.y:521` and `543` compare the port number with `MAX_RULE_NO`, where
  they mean the rule number.

Settings:

* `qnf.conf`: the lines up to PPP_MODE are written "%u,%u", the later ones "%u, %u"
  (`parserops.c:970` to `1045`), all are read with `strtok` at spaces and "%u,%u"
  (`database.c:248`). The second port of every later line gets the value the
  variable had before, that of PPP_MODE. `SurvivesRestart` says exactly what comes back.
* `qnf.conf.tmp` is opened and emptied (`parserops.c:903`) before the lock is taken
  (`parserops.c:910`); a save that fails does not close it, and its lines are
  written when its cli exits, over whatever that file is called by then.
  `FileWhole` holds but for these files (`smeared`).
* A reset does not write the port and mode registers of GTP builds, nor the ranges
  of MC20E; nor are they written when a new database is initialised. The traffic
  setting of GTP has no effect on a device when it is switched off. The mode "both" is
  saved as "outer"; a sample rate cannot be set back to 100. `database.c:725` resets
  12 of 16 packet length ranges; a range of number 8 or more is refused on MC10P
  ("Wrong packet length range"). `database.c:402` inserts "GTP.DestPorts", lines
  1141 and 1150 read and write "GTP.DstPorts"; `database.c:392` initialises a
  maximum with the minimum. Without a `qnf.conf` the initialisation of MC10P
  fails; ports 2 and 3 of its array are never assigned.
* Two commands that cross between database and device leave the other's value in the
  register (`astray`); the source and the destination MAC address share one
  (`drvops.c:759`), and the bypass commands and the monitor share another.

Input:

* A restored file without a newline at its end glues its last line to the line that
  follows it; after `cli <command>` that is the queued "exit", and the cli goes on
  asking the operator. `OneCommandEnds` excludes this (`glued`).
* A file that restores itself makes the stack grow for ever. `fgets` of 512 splits
  longer lines. The result of `set_input_buff` is ignored.
* The signal handler calls `wl_destroy`, whatever `wl_cleanup` is at: entries may be
  freed twice. The alarm of the last prompt is never cancelled. A cli started with a
  command captures no signals. `set_input_file` has no caller.
* `match.h:67` says a star stands for zero or more characters; "a**" does not match
  "a". `TwoStars` keeps such patterns out of the reference. `db_dump` has no caller.

Database and console:

* `hash.c:544` returns -1 for a key that exists, where `db_client.c:643` takes a
  positive value; the model's KEYEXISTS is the result the client acts on.
* `cs_server.c:224`: a shutdown is neither answered nor wakes the accept; the
  client waits for ever. `cs_server.c:264` waits a fixed time "to get all the
  response", and what comes later goes to the next command.

Driver:

* `qnf_init` returns 0 when its device numbers cannot be had (398 to 415) and leaks
  them when the driver cannot be registered. A failed probe keeps its slot for
  good. `unit > QNF_MAX_BOARDS` (137) can never be true, `offset > mmio_size` (202)
  lets one word past the end through.
* A removal clears the slot under open files. An open that is in progress then
  marks the slot, and so the next card in it, as initialised (`raced`). It may even bring
  back or lose QNFF_ATTACHED, which it read before (`torn`): `flags |=` at 157 and 294 has no lock.
* The result of `hyphy20g_init` is not looked at (155), and it returns 0 whatever
  fails below it: a file may be open on a chip that is not set up, and no later open
  tries again. Two first opens at once (`crossed`) set the chip up twice, the second
  perhaps under a file that is already in use. When its settings cannot be opened it closes
  the error pointer, which kills the opening process (`Killed`).
* A file that stays open over a change of cards reads and writes the next card of its slot
  (`Gone` in `AccessesArrive`).

Firmware:

* A file that reaches into bank 14 erases the hardware number (`spoilt`); one that
  is longer than the flash, or shorter than 8 bytes, ends at the unlock of the first
  bank behind it or at its first write, with "block unlock fail" or "VPP invalid
  error".
* Error bits call `exit(1)` in the middle of the update; the polling loops have no
  time-out; results of `read` and `open` in the verification are not looked at. There is
  no second image: a cut-off update leaves a card that has to be updated again before
  it is reconfigured. Builds without a flash print "Update success".
* `TryAgainSucceeds` is about one update at a time: nothing keeps two clis from
  updating one card together.

## 6. Not modelled

* Vendored and generated code: `cli/drv/hyphy20g_lib` and `cli/lib/lib_framer_*` (the
  chip maker's driver libraries and register headers), `lexer.c`, `parser.c`,
  `y.tab.h`. They are about 425,000 of the 440,000 lines of the repository, and
  nothing of the system's own logic is in them; the map therefore covers a small
  share of all lines, and somewhat under half (6,700) of the system's own 15,000 (19,000 with headers and unbuilt sources). No makefile builds
  `cli/backup`.
* In the modelled parts: commands that only show something, raw register access and
  the framer settings; the led and phy commands of `drv_bypass_set` (1349 to 1473) and
  `Is_Open` of the tap driver, which nothing uses; configuration space and the
  bounds of unit and offset in `qnf_drv.c` (described above); the wrappers of the
  hash table for each type; start of the daemons and of `bootsetup`; set-up of the
  pseudo terminal.
* Formats (but those of `qnf.conf`, see `ReadLine`), logging, and the grammar of the
  commands: each module gives the commands it is about, `CommandInput` any lines.
* `errprint.c`: output only.

## 7. Plan

1. Done: the modules of section 2, and the proofs of section 4.
2. Process control: `bootsetup` start and stop composed with `DbServer`, with a restart
   of `db_server` under clients that stay.
