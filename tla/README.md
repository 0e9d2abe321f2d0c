# A formal model of MMT-Security

MMT-Security watches network traffic for sequences of events.  A rule says, for
example, "a SYN, then no answer within two seconds"; a deep packet inspection
library (MMT-DPI) extracts the attributes the rules need from each packet, and
MMT-Security turns every packet into a *message*, walks the state machines of
its rules with it and reports verdicts.

This directory holds TLA+ modules that model it, TLC configurations that
check them on small instances, and proofs checked by TLAPS.  Every definition is
read off the C sources under `src/src`; `PROJECT.json` lists, per definition,
the lines it stands for.

Contents: [the system](#the-system), [the modules](#the-modules),
[the runs](#the-runs), [proofs](#proofs), [what the checks found](#what-the-checks-found),
[seen while modelling](#seen-while-modelling),
[what is not modelled](#what-is-not-modelled), [plan](#plan).

## The system

    rules (XML) -> rule.c, expression.c -> gen_code.c -> C -> plugins (.so)
                                                                 |
    packets -> MMT-DPI -> main_sec_standalone.c  --+             |
                                                   +-> mmt_sec_process (mmt_security.c)
    reports over a socket -> main_sec_server.c   --+             |
                                         one thread: mmt_single_security.c
                                         several:    mmt_smp_security.c
                                                        | one ring per thread
                                                     mmt_single_security.c (in each thread)
                                                        | every rule the message concerns
                                                     rule_verif_engine.c -> mmt_fsm.c
                                                        | verdict
                                         verdict_printer.c -> files, Redis

Status is **M** modelled, **P** partly, **-** not.

| Component | State it keeps | Operations | What is hard, and what makes it correct |
|---|---|---|---|
| **P** Lock-free ring `lock_free_spsc_ring.{h,c}` | slots, `_head`, `_tail`, and each side's cached copy of the other's index | push, pop, pop_burst | Two threads without a lock, deciding from stale indices. No slot is overwritten or read too early; the ring is a FIFO channel; what is in it comes out. |
| **M** Rule state machine `mmt_fsm.c` | per instance: state, deadlines, execution trace | `fsm_handle_event`, `fsm_handle_single_packet`, clones, timeouts, temporary states | Limits of delays, a clone against a move, timeouts before events. |
| **M** Verification engine `rule_verif_engine.c` | instances by id, nodes by expected event, next free id, last valid trace | `rule_engine_process`: walks lists that the step may change under it | Nodes point to instances and indices that may be stale; ids are reused; one verdict ends a family of instances. Every instance is filed under exactly what it waits for; verdicts are right and given once. |
| **P** Messages and references `message_t.c`, `mmt_alloc.h` | attributes, reference count | create, retain, free (with and without atomics), set attribute | Freed only when nobody refers to the message; its data stay in its buffer, apart. |
| **P** Multi-threaded front end `mmt_smp_security.c` | rings, threads, their handlers and hashes | process (dispatch), stop, register, unregister, rules added and removed | Full rings, the end of threads, references from several threads, a signal in the middle of a dispatch. Each thread gets what concerns it, once and in order, and all of it before the end. |
| **M** Single-threaded front end `mmt_single_security.c` | engines, hashes, verdict counts, ignored flows | process, register, unregister, rules added and removed | Arrays that are replaced while threads use them; counts that must follow their rules. |
| **P** Global state `mmt_security.c` | rules, attributes and their numbers, handlers, a lock | init, close, register, unregister, add and remove rules | Attribute numbers are in messages, in handlers and in generated code at once; decisions before the lock. |
| **M** Set of ignored flows `mmt_set*.h`, `mmt_filter.h`, `mmt_ring.h` | hash table, filter, ring of slots in order of age | add (evicting the oldest), check | The three must agree after any sequence of additions. |
| **P** Generation of machines `gen_code.c` | tree of a rule, states, transitions | THEN, AND, OR, NOT, BEFORE, COMPUTE; guards; calls | The machine must mean what the rule says, and fit the engine. |
| **P** Rule and expression parsers `rule.c`, `expression.c` | trees | parsing, numbering, delays | Brackets, functions, units and strictness of delays. |
| **P** Plugins `plugins_engine.c` | tables of plugins and rules | load a folder (again), close all | Ids stay unique; code stays mapped while a thread may run it. |
| **P** Standalone program `main_sec_standalone.c` | attributes it extracts, handler | packet handler, commands, signals | Extraction must follow the rules; signals at any moment. |
| **P** Server program `main_sec_server.c` | connections, child processes, reports | accept, fork, receive, signals | Short reads, failed forks, ends at any moment. |
| **M** Output to files `send_msg_to_file.c` | current file, time of its opening, a lock | write, rotate, close | No line lost, none written after the semaphore that says the file is complete. |
| **P** Output to Redis `thredis.c`, `send_msg_to_redis.c` | a queue of waiters, a reader thread | command, reading of answers, loss of the connection | Answers must reach the thread that asked, and everybody wakes up. |
| **M** Verdict printer `verdict_printer.c` | output mode | init, send, free | Order of its outputs, its end while threads run. |
| **M** Conversion of traces (`mmt_security.c`) | place, room and size in a buffer | trace to text | Three counters that must agree, in a buffer that may be too small. |
| **M** Configuration `config.c` | table of values | reading a file, twice | |
| **M** Messages from the DPI `dpi_message_t.h` | | data of each type, payload lengths | Lengths computed from offsets of headers. |
| **P** Table of protocols `main_gen_dpi.c`, `mmt_dpi.h` | protocols by place | generation, look-up by name and number | Places without a protocol, protocols told twice. |
| **P** Utilities `mmt_map_t.c`, `mmt_dbl_linked_list.h`, `mmt_utils.h` | trees, lists, masks as text | set, insert, remove, expand | Removal during a walk; overlapping ranges. |
| **-** Functions rules may call, diagnosis and platform, rules and tests | | | see [what is not modelled](#what-is-not-modelled) |

`PROJECT.json` has the same inventory with paths, and, under `hazards`, the places
where this code is hard to test, each with the properties that would fail if it went wrong.

## The modules

| Module | Role |
|---|---|
| `Fifo` | what a ring promises: a bounded first-in first-out channel |
| `SpscRing` | the ring, one access to shared memory per step; refines `Fifo` |
| `SpscRingProofs` | theorems about `SpscRing` |
| `RuleFsm` | the state machine of a rule, as operators on an instance |
| `RuleEngine` | the engine of one rule, one node of its lists per step |
| `RuleVerdicts` | the engine with all its messages remembered: what verdicts mean |
| `RuleEngineProofs` | theorems about the lists and the walk; about attempts; about what verdicts mean |
| `SinglePacket` | the short way for rules whose events are looked for in one message |
| `Delivery` | what the multi-threaded front end promises |
| `SmpSecurity` | the dispatcher, the threads and the reference counts; refines `Delivery` |
| `SmpSecurityProofs` | theorems about `SmpSecurity` |
| `FlowMemory` | what a set of ignored flows promises: a bounded memory |
| `IgnoreSet` | table, filter and ring of slots; refines `FlowMemory` |
| `IgnoreSetProofs` | theorems about `IgnoreSet` |
| `Plugins` | the rules folder and the tables of plugins |
| `RuleUpdate` (extends `Plugins`) | global rules and attributes, handlers, and the program around them, while rules change |
| `RuleUpdateProofs` | theorems about `RuleUpdate` |
| `Expression` | the parser, and the printer, of boolean expressions over tokens |
| `RuleReader` (extends `Expression`) | elements of a rule file to trees; delays, numbers |
| `GenCode` (extends `RuleReader`) | trees to machines, attributes of events, guards, calls |
| `RuleMeaning` | what a rule says, from its operators alone |
| `RuleCompiler` (extends `GenCode`) | a file of rules through reader and generator; compared with `RuleMeaning`, run with `RuleFsm` and `SinglePacket` |
| `Messages` | the configuration; reports and packets to messages |
| `TraceText` (extends `Messages`) | remembered messages to the text of an alert |
| `MessageProofs` | theorems about `Messages` and `TraceText` |
| `FileOutput` | verdicts in files |
| `Thredis` | verdicts over one Redis connection |
| `ServerProcess` | a process from its input to its outputs and its end; composes `FileOutput` and `Thredis` |
| `ServerParent` | the process that accepts connections and forks |
| `ServerProofs` | theorems about `ServerProcess` and `ServerParent` |
| `Dictionary`, `BinaryMap` | what a map promises; the tree that implements it |
| `ListOf`, `LinkList` | what a list promises; the linked list, with a walk through it |
| `DpiTable` | the generated table of protocols, and looking things up in it |
| `RuleMask` | numbers and ranges as text |
| `TableProofs` | theorems about `BinaryMap`, `LinkList`, `DpiTable` and `RuleMask` |
| `MC...` | instances for TLC |

Definitions whose names have a suffix behind an underscore and whose comment begins with "Slip:"
(`TooBig_End`, `LockFile_Shared`, ...) are plausible mistakes in the
definition they stand before.  No specification uses them; `PROJECT.json` pairs
each with the property that must fail when it takes that definition's place.

A property a run checks is often a conjunction of named parts that fail for
related reasons; each part is a definition with its own comment.

### The ring (`SpscRing`)

`data`, `head`, `tail`, `cachedHead` and `cachedTail` are the fields of
`lock_free_spsc_ring_t`.  The producer's `ppc` is where it is in `ring_push`: it
tests the ring against its cached tail (`PushCheck`), loads the real one when
that looks full (`PushReload`), writes the slot (`PushWrite`) and publishes
(`PushPublish`).  The consumer tests, loads, copies slot by slot and hands the
slots back (`PopCheck`, `PopReload`, `PopCopy`, `PopRelease`); `ring_pop` is a
burst of one.  A step is one access to memory the other thread uses.  The
`__sync` builtins around the indices are full barriers, so the steps of one
thread are taken in program order.

### Rules (`RuleFsm`, `RuleEngine`, `RuleVerdicts`, `SinglePacket`)

A rule is a constant record `Rule`: its states, transitions (event, action,
target), delays and temporary states, which is what `gen_code.c` writes into a
plugin.  `Guard` stands for the guards it generates and takes the trace, because
guards refer to the messages of earlier events.  `HandleEvent` is
`fsm_handle_event` with all it calls: the timeout that comes before the event,
the clone that moves instead of the instance, the temporary state that tries its
transitions on the same message, the deadlines of the state that is entered.

`RuleEngine` gives instances and nodes addresses, because the code compares and
reuses them.  `byId` and `expecting` are the two arrays of lists.  `Receive` is a call
of `rule_engine_process`; then each step deals with one node: `Skip` it, if this
message reached it before, or try its transition (`Tried`, `Fired`) and then

  * `Stay`: nothing came of it;
  * `Advance`: the instance, or the clone it made, is filed under its next events;
  * `Drop`: an instance ends without a verdict;
  * `Conclude`: a verdict, which ends every instance with the same id and the call;
  * `Halt`: `mmt_halt`, for want of an id or of the transition.

`next` is the pointer the loop saved before it processed the node.  The sweep for
timeouts behind the loop is dead code: the condition in front of it compares the
message with fields that are only set after it.

Times are small integers, and each message is `Delays` later than the one before.
What a message contains is a record of `has` (events all of whose attributes it
carries), `sat` (events whose condition it meets) and `key` (a value that guards
compare between messages).

`SinglePacket` is the path of a rule without a delay and with two events:
`_process_single_packet` tries the bootstrap instance on each message and resets it.
Its state is small enough to be a record, which `RuleCompiler` drives with every
pair of messages on every such rule that it generates.

### Threads (`SmpSecurity`)

A ring is a sequence of at most `Capacity` messages here: `SpscRingProofs` shows
that the real one is no different.  The dispatching thread (`dpc`) is between two messages,
in the loop that pushes one to the threads of its `mask`, in `pthread_join`, or
giving memory back.  A thread (`wpc`) polls its ring, works on its batch, or gives
up a reference: `FreeLast` and `FreeShared` are the test in `free_message_ts` and
`Subtract` its atomic subtraction, two steps as in the code.  What the rules of a
thread keep in their traces is `held`; `Verify` lets them keep the message, and
drop what they kept, in any way.  `Stop` is `mmt_smp_sec_unregister`, which the
signal handlers of both programs call in whatever the dispatching thread is doing;
the dispatch it interrupts never goes on (`cut`).

### Ignored flows (`IgnoreSet`)

`slot`, `ring` and `filter` are the three parts of `mmt_set_ex_t`; `Find` is the
linear probing, `Evict` empties the slot that was filled first *whatever it holds by now* and clears
the bits of what it holds, `Add` is `mmt_set_ex_add`.  The filter may forget
elements that share a byte with an evicted one, and emptying a slot cuts a chain:
neither is a bug as long as what is said to be ignored was alerted, which is the
promise `FlowMemory` states together with how much may be forgotten at once.
`Verify`, `Verdict` and `Finish` are the loop of `mmt_single_sec_process` around it.

### Changing rules (`Plugins`, `RuleUpdate`)

`rules` and `atts` are the global arrays (the place of an attribute is its
number in all messages), `told` what `_update_rules_hash` wrote into the code of
each rule, `engines` and `hash` what each handler keeps.  A caller of
`mmt_sec_add_rules` reads the folder and decides what is new (`AskAdd`), appends
under the global lock (`AddGlobal`), and then changes the handler of one thread after the
other under that handler's lock (`AddToThread`); `RemoveGlobal` and `RemoveFromThread`
likewise.  Threads work between these steps.  The standalone program
then registers new attributes to MMT-DPI (`Register`).

A failed assertion does not stop the world.  Rules or attributes for which there is no room
(`RoomFor`, `AddGlobal`; `mmt_security.c:828` and `:857`) and a file that is no plugin (`LoadFails`) send the
thread that updates into `exit` (its place is `"exit"`, and it keeps the global lock if it had it) while the
others go on; then the destructor closes all plugins under them (`ExitFailed`), and nothing is known of what
comes after.  The limit at line 828 is 100000 (`mmt_security.c:36`) and the loader asserts a limit of 50000 of its own (`plugins_engine.c:117`), so line 828 can
only fail in a build that sets its limit lower; `MaxRules` stands for any setting.  The start is
in `Init`: the rules to exclude, the distribution of rules over threads by a mask
(`Distribute`).  The end is in `Interrupt`, `Unregister`, `Close` and `ExitAtOnce`, a
second signal, which exits while threads still run.

### From a rule to code (`Expression` to `RuleCompiler`)

The parsers work on tokens: a word is abstracted to its parts and what they look like.
The ids of properties and of events have 16 bits (`rule.c:231`): 65536 is no number, and 65537 is 1.
`Parse` follows the code with a stack of the nodes it has opened, since father
pointers only lead to them.  `GenRule` builds the machine with the same allocation of states
as `gen_code.c` (states that several parts share, transitions that are rewritten,
the numbering by the order of printing), and `ProtoAtts`, `Entries`, `GuardReads` say which
data an event is stored with and which its guard reads.  `RuleMeaning` is written from the operators
only: the words of events and elapsed delays that settle a rule, with the
outcome.  `MeaningKept` compares it with the paths of the machine.

`RuleMeaning!Expressible` leaves out what the generator has no states for (see
[seen while modelling](#seen-while-modelling)): a part that can
come to nothing under the second part of a NOT or the first of a BEFORE, and a BEFORE or a
COMPUTE below another operator.

### From a packet to an alert (`Messages`, `TraceText`)

`config` is the table of `config.c`, read line by line (`ReadLine`), twice.
`Create` allocates a buffer whose length the configuration gives, and `SetElement` is the one
place that writes into it; of a line, only blanks may stand between name and value.  `Receive` takes the next field of a report,
`Extract` the next attribute of a packet, whose lengths come from the offsets of
headers.  All three widths are constants: `UINT16` for the lengths of payloads and data (`PayloadLen`,
`DataLen`), `UINT32` for options and the length of the buffer, `SIZE_T` for the test whether data fit (`TooBig`).  No input is assumed to be
sane.  A header may be said to begin behind what was captured, so that the length wraps, and the IP
header may be said to have less than the 20 bytes `dpi_message_t.h:96` takes off, so that the length of its
options is nearly 2^64, wraps again in the sum of `message_t.c:143`, and is copied over the end of the
buffer: `overrun`, after which the model goes no further.

`TraceText` follows the three counters of
`_convert_execution_trace_to_json_string` (`pos`, `room`, `size`), piece by
piece, and compares the outcome with what an alert should show.  `room` does not count values
(`mmt_security.c:541`), so what the code passes to `snprintf` as a limit may be more than the buffer has: `Passes` says
for each piece whether it would be written behind the end, `over` that one was, `whole` that none was cut.
Text is abstracted to its length, and values of text have a zero at their end.

### Outputs and processes (`FileOutput`, `Thredis`, `ServerProcess`, `ServerParent`)

In `FileOutput` a thread reads the clock before it asks for the lock, may close
and seal the file, opens the next and writes; stdio may keep what is written.
`CloseFile` is the same work done by the thread that ends the program, without the lock.
The disk may refuse at any time.  A write, a close or the flush at exit saves any part of what it should
(`Save`): the file is then in `failed`, the error is only logged, and the semaphore is made all
the same (`send_msg_to_file.c:29-48`, `57-59`).  A semaphore may fail to be made.  A data file that cannot be opened is `mmt_halt` by the
thread that prints, with the lock in its hand (`OpenFails`, then `HaltedBy` in `ServerProcess`).

In `Thredis` a step is what happens under `thredis->mutex`; the record a thread waits
with lives on its stack, and its own mutex is part of `Enqueue`, `Sleep` and
`Wake`.  `pthread_cond_wait` (`thredis.c:160`) may return without a signal, and is in no loop: `Spurious` lets a thread go with
its record (a thread and the number of its command) still in the list, as `strayed`.  Whoever follows a pointer to a
record whose call is over (`Gone`), or links the same place of a stack a second time, takes the step `Crash`, and nothing
is known from there on.  The Redis server answers in order and may disappear at any moment.

`ServerProcess` puts both behind the same threads, with the end of the stream at any
place in a report, signals, `mmt_halt` by any thread, and the ways each program ends.  `Stop` is `exit` while others
run: it closes plugins before stdio writes its buffers, so the buffers may be lost, too.
`ServerParent` is `main` of the server: options, `accept`, `fork` that may fail, `wait`.

### Tables (`BinaryMap`, `LinkList`, `DpiTable`, `RuleMask`)

Each structure has its own small state and is explored by itself within one run
(`MCTables`).  Two are shown to implement an abstract one: `MapRight` is a refinement of `Dictionary` with
the order of iteration, `ListRight` one of `ListOf` with a walk that survives removals.

## The runs

| Run | Instance | Shows |
|---|---|---|
| `ring` | 5 slots, 2 values, bursts of 2 and 3 besides single pops | `RingSafe`, `ImplementsFifo`, `OldestTaken` |
| `rule_then` | `a THEN b` within [1,2], 4 ids, 4 messages of 5 kinds, gaps 0 to 2 | `ListsSound`, `FamiliesApart`, `VerdictTimes`, `FailureTrue` |
| `rule_nested` | `(a THEN b) THEN (c THEN d)`, 3 ids, 5 messages of 5 kinds, gaps 0 to 2 | `WalkSafe`, `NothingForgotten`, `OneVerdict` |
| `smp` | 2 threads, 2 attributes, rings of 2, bursts of 2, 3 messages | `MemorySafe`, `EndInOrder`, `ImplementsDelivery` |
| `smp_live` | rings of 1, 2 messages | `Verified`, `StopEnds` |
| `ignore` | 4 slots, 4 flows of 3 two-valued bytes, evictions of two, traces of up to 2 | `TableSound`, `IgnoredAlerted`, `ImplementsMemory` |
| `update` | 2 plugin files that may turn out to be none, 5 rules and 5 attributes where 4 of each fit, 2 threads, 3 changes, 1 verdict per engine | `RulesSound`, `EnginesBacked`, `HashCurrent`, `NeedsExtracted`, `AlertsKept` |
| `gen` | expressions of up to 4 tokens from 8 and 5 from 5 within brackets, operators up to 3 levels, all numberings (0, 65535 to 65537 and none among them) and references of 3 events, all delays | `ExpressionKept`, `DelayMeant`, `CodeFit`, `MeaningKept`, `SinglePacketMeant` |
| `gen_index` | the references of 3 events | `EventIndex` fails |
| `message` | 6 attributes, options of IP and data among them, 4 files of options, reports of up to 3 fields, packets of up to 4 protocols cut anywhere and with IP headers of any kind, a rule of 2 events | `MessageKept`, `CapturedOnly`, `AlertShows` |
| `server` | 2 threads, 1 report and an end of any kind, 2 seconds; both outputs with one file, files that change in both programs, Redis alone | `FilesKept`, `RepliesMatch`, `EndsWell`, `Ends` |
| `tables` | 4 keys, lists of 4 nodes, 4 protocols in every sequence of 4 calls, masks of up to 3 entries, 4 clients | `MapRight`, `ListRight`, `LookupRight`, `MaskRead`, `ParentSound` |

The type invariant of a module is a part of the first group its run checks.

**Bounds.**  A ring of five slots holds three values: its indices wrap, a burst can
be cut by the end of the array, by the limit and by the head, and three places
show any reordering of neighbours; the proofs cover every other size.  For the
rules, four messages are two attempts (two firsts and two answers) in every order
and at every distance from "too early" to "too late", with ids enough for all of
them; gaps of 0, 1 and 2 around delays of
one and two units put messages before, on, between and after every limit.
The nested rule lets waiting instances make clones, and instances end without a verdict; five
messages take it to its end and give one more.  Two threads and rings of one or two are enough for a full ring in
front of one thread while the other goes on, and for two threads that give up
the last references at once; three messages fill a ring of two and leave one over.
In `ignore` nothing bounds the run but the table: all sequences of additions are explored, the
state space is finite, and a ring of three places loses two at a time, as
large tables do.  Flows were chosen so that two have one home, chains cross and one wraps, and
most pairs share a byte.
In `update` three changes are an addition, a removal and an addition of the
same rule; one rule is in both files, and one rule and one attribute too many reach the two assertions, at the same
update or at different ones.
In `gen` two levels of operators show every pair of them and three what goes wrong only through
a state that two levels share.  Delays from -1 to 2 in four units are either side of every comparison.
In `message` numbers are narrow: a length of data ends at 15 (`UINT16`), an option at 199 (`UINT32`) and a sum of lengths
at 999 (`SIZE_T`), which leaves them in the same order and as far apart as sums of them need (`WidthAssumption`).  So captures of
7, 15, 24 and 33 bytes end in front of a header, behind it, and so far behind it that the 16-bit length wraps; IP headers are
unknown, one byte too short, bare, and with options.  The buffers are one that fits
every input, one that some fields do not fit, and two whose size has wrapped in the configuration.  The
text of an alert has 51 bytes: two events with one value each fit, and longer alerts are cut, are closed
before their end, or pass the end of the buffer.
In `server` two seconds and a period of one give two rotations that race; one message for each
thread from the report and one from the cut one behind it make two verdicts each.
Masks of three entries have every overlap of two ranges and something after it.

The engines' runs stop when `MaxMessages` have arrived, the front end's
when everything is given back, `update` when the program has ended, `gen` when the file is
written, `server` when the process is gone, `message` when the trace is full, `tables` when an input is used up:
those configurations turn the deadlock check off.

**Fairness.**  `ring`: weak fairness of the consumer, whose loop polls for ever
(`_process_one_thread`), and of a push that has begun, which does not block; a producer
need not push again.  `smp_live`: weak fairness of the dispatcher's loop and of each thread's
loop, which is what the operating system's scheduler gives a running thread: none of them waits
for anything but the condition its step states.  Messages and the call that
unregisters need never come.  `server`: weak fairness of the main thread, of each worker and of the
reader thread, for the same reason, and of the Redis server's answers as long as it is
connected.  That last one is an assumption about the environment: a Redis server that neither
answers nor closes its connection makes a thread wait for ever, and the program with it.
That the peer ends is not assumed; it is the left side of `Ends`.  Nor is anything assumed of signals, of the disk, which may
refuse for ever, or of wake-ups without a signal.  A process that follows a pointer to nothing (`crashed`) has
ended, too, as far as `Ends` goes; `CrashExplained`, a part of `RepliesMatch`, says that it takes a wake-up
without a signal or a lost connection to get there.

## Proofs

Eight modules hold theorems; each is checked by TLAPS from the named assumptions of the modules it is
about, for every value of the constants they allow.  TLC evaluates these assumptions on every run of those modules.  Bounds of the runs (`MaxMessages`, `MaxReports`,
`MaxTime`, `MaxClients`) are constants too, so a theorem holds for runs of any length.  No property of the
runs below is inductive as it stands; for each module the strengthening is
named, with the reason it is needed.

| Module | Theorems | About |
|---|---|---|
| `SpscRingProofs` | `TypeCorrect`, `Safety`, `Refinement` | `RingSafe`, `ImplementsFifo` |
| `SmpSecurityProofs` | `MemoryIsSafe`, `EndsInOrder`, `DeliveryRefinement` | `MemorySafe`, `EndInOrder`, `ImplementsDelivery` |
| `RuleEngineProofs` | `StoreIsSound`, `WalkIsSafe`, `FamiliesStayApart`, `VerdictEndsAttempt`, `NothingIsForgotten`, `VerdictsInTime`, `FailuresAreTrue` | `ListsSound`, `WalkSafe`, `FamiliesApart`, `OneVerdict`, `NothingForgotten`, `VerdictTimes`, `FailureTrue` |
| `IgnoreSetProofs` | `TableIsSound`, `OnlyAlerted`, `MemoryRefinement` | `TableSound`, `IgnoredAlerted`, `ImplementsMemory` |
| `RuleUpdateProofs` | `HashSafe`, `NeedsSafe`, `BackedSafe`, `RulesSafe`, `AlertsSafe` | `HashCurrent`, `NeedsExtracted`, `EnginesBacked`, `RulesSound`, `AlertsKept` |
| `ServerProofs` | `FilesAreKept`, `RepliesDoMatch`, `EndsAsItShould`, `ParentIsSound` | `FilesKept`, `RepliesMatch`, `EndsWell`, `ParentSound` |
| `MessageProofs` | `MessageIsKept`, `WhatWasCaptured`, `AlertsShow` | `MessageKept`, `CapturedOnly`, `AlertShows` |
| `TableProofs` | `MapIsRight`, `ListIsRight`, `LookupIsRight`, `MaskIsRead` | `MapRight`, `ListRight`, `LookupRight`, `MaskRead` |

### The ring (`SpscRingProofs`)

For every `Size` of at least two, every set of values and every set of burst lengths.  A step from a state
that satisfies `RingSafe` may trust a cached index that is wrong.  The strengthening `IInv` adds what makes a
stale index harmless, that it only lags: `cachedTail` lies between the position the
producer would overwrite and `tail` (`CachedTailLags`), `cachedHead` between `tail` and `head`
(`CachedHeadLags`), both said with distances around the ring, and what each program
counter knows.  `DistNext`, `DistSkip` and `DistSplit` are the arithmetic of these distances,
stated once; `Wrap` removes `%`.  Preservation (`NextIInv`) has one step per action.
The refinement takes `Contents` of each state to `Fifo`'s queue: `PushPublish` is
`Put`, `PushReload` that finds the ring full is `Refuse`, `PopRelease` is `Take`,
`PopReload` that finds it empty is `TakeNothing`, and every other step changes none of
`Fifo`'s variables.

### Threads and references (`SmpSecurityProofs`)

For every number of threads, capacity, length of bursts and hash of each thread.  `IInv` is
`TypeOK /\ LineInv /\ RefInv`.

`LineInv` looks at what a thread has processed, has in its batch and has in its
ring as one line.  Each line rises and only its end may be NULL (`LinesRise`); NULL
is in no line before the dispatcher has stopped (`EndGiven`); the message in hand is newer than all lines that still
wait for it (`CurNewest`), and so is the one a signal cut off (`CutNewest`); every message a thread wants is in its
line, in the dispatcher's hand for it, or the one cut off (`AllInLine`).  `InHand` and
`JoinedInTurn` are what program counters know.  `EndInOrder` and the refinement of `Delivery` follow from
it: a push or a pop moves a message along its line, `Verify` takes it to `Delivery`'s `got`.

`RefInv` counts: `ref[m]` is at least the number of threads `m` is on its way to, plus those that keep it
in their traces, plus those that have given it up and have not subtracted yet (`Counted`).  That the last of these still
counts is the core: between the test of `free_message_ts` and its subtraction a thread is still an owner, so
nobody else can see the count at one and free the message.  It is an inequality because two threads that both pass
the test leave the count above the owners (see [seen while modelling](#seen-while-modelling)): never too
low, sometimes too high.  `KeptVerified`, `GivenOnce` and `Unreachable` say who may own.

### The engine of a rule (`RuleEngineProofs`)

For any number of ids, messages and delays between them, any kinds of messages, any guards, and **any rule of a
class** that the theorem names as its hypothesis.  The classes are in `RuleFsm`:

| Class | The rule | Needed because |
|---|---|---|
| `StepByStep` | the initial state only makes clones, timeouts end instances, and a transition that moves an instance on (and not a clone of it) is the only way on from its state | a node of a state that was left would ask the next state for a transition it does not have |
| `OncePerPath(past)` | no attempt meets an event twice | a second message under an event would hide the one an attempt began with |
| `OneBeginning` | one transition leads out of the initial state | one message would begin two attempts, which a verdict tells apart by their ids only |
| `InTime` | no state is temporary, and a delay inside another begins at once | an instance in a temporary state, or one that is too early for ever, waits with deadlines that have passed |
| `IsThen` | `a THEN b` with a delay that leaves time | `RuleVerdicts` says what a verdict means for this rule; it implies `StepByStep` and `InTime` (`ThenInClass`) |

That these hypotheses are those of real rules is checked, not assumed: `MCRuleEngine` and `MCRuleVerdicts` state the
classes of their rules with `ASSUME`, and `StepwiseFit` in the run `gen` (a part of `CodeFit`) checks that the
machines `GenCode` generates for rules of THEN, AND, OR in the first or the last place and NOT around all of it are
`StepByStep` and `OncePerPath`, those whose nested delays begin at once `InTime`, and those of the form
`a THEN b` `IsThen`.  Outside the classes are rules where the engine does something else, which
[seen while modelling](#seen-while-modelling) lists: an OR whose parts are left waiting in the middle of a rule, BEFORE, parts without
delay whose state is temporary; and NOT below other operators, where a
timeout goes on, and an OR of two events as the whole rule, which the proofs do not deal with.

`Sound`, for `StoreIsSound` and `WalkIsSafe`: the nodes in the lists by event are exactly the nodes alive, each once, in the list of
the event its transition expects now (`NodesFit`); instances likewise by id (`IdsFit`); and the node the walk
goes on with is one of the list it walks.  The last part is what `WalkSafe` needs and what a step could break: a node that is
processed moves on or ends instances and frees nodes of all lists, the current one included.  It survives
because an instance has at most one node per event (so no other node of the list walked goes with
one that moves on), and because a verdict, which may free anything, ends the walk.

`Attempts(past)`, for `FamiliesStayApart`: `Sound`, and the traces fit.  Instances other than the first have met something
(so that they have a first message), messages of one number are one message, and what an instance holds
lies in `past` of its state (`TracesFit`); instances of one id began with one message
(`Families`).  `Ending(past)`, for `VerdictEndsAttempt`, adds the converse, one id for each beginning (`Attempted`), which
needs `Counted`: while an instance is alive that began with the current message, the nodes of the bootstrap instance
have been passed with it, and `Skip` keeps them from beginning with it again.

`Sound /\ Patient`, for `NothingIsForgotten`: every instance is filed under all its transitions and waits within its
deadlines; nothing is newer than the message; and **a node whose counter shows the message is through with
it** (`CountersTell`: it met it, or it is not yet overdue and the message is not for it).  During a walk the lists
before the current one are all marked, and so is what stands in the current one before `next` (`Walked`).  What a step appends
behind the walk was made with the message and is marked.  When the walk ends, every node is therefore through: none is overdue or passed over.

`Sound /\ Patient /\ Truth`, for the two theorems about verdicts of `a THEN b`: every instance but the first holds exactly
its a, with the deadlines that follow from it (`AllBegun`); its nodes are not older than that a, so that no message answers
itself (`CountedFrom`); and no message that went through all the lists was its b (`Unanswered`), which is
where `Patient` is needed: at the end of a walk every node is through with the message, so the
message was no b for an instance that still waits.

### Ignored flows (`IgnoreSetProofs`)

For any size of the table and of evictions, any flows, homes and bytes.  `Sound`: the filled slots are in the ring and the ring has room for
one more (`Fit`), the flow added last is found (`Found`: its bits are in the filter and the probing ends
at it), and what the table holds was alerted.  `Found` is what makes additions and `TableSound` go together: a flow just added must
not be evicted by the same call, though `Evict` empties slots whatever they hold by now.  Evictions
are a fold over `Burst` steps; lemmas about one `Evict` are carried over it by looking at the first of the intermediate states
(`Evictions`, `Additions`, `Firsts`) for which one would fail.  For the refinement of `FlowMemory`,
`Lost` bounds what one addition may forget.

### Changing rules (`RuleUpdateProofs`)

For any plugin files, rules, attributes, masks, numbers of threads and sequences of commands.  Assumed are
what the code asserts or refuses: a file has no id twice, every rule of a file has finitely many attributes,
the mask at the start names rules that are there, each once, and leaves a thread for the others.  `IInv` ties the four
places where rules are known.

Rules to be verified or added are of an open plugin (`PlugInv`), until an exit under running threads closes all of them.  `AttsInv` is what `HashCurrent` needs: `atts` holds no
attribute twice and covers every rule there is, and what an engine and its rule's functions were told are the indices of today.  It
survives because additions only append (`IndicesStay`), and a removal leaves `atts` alone.  `KnownInv`: the program's
count is behind `atts` only while an updater is on its way from `AddGlobal` to `Register`, or never gets there because its assertion
failed (`Adding`).  `LockInv` and
`BackedInv`: who holds the lock is between the first handler and the last, or in `exit` with it, and a handler verifies a rule that is gone only if
the updater that removed it has not come to it (`Behind`); with the lock free there is none, which is `RemovedGone`.
`OnceInv`, that nothing is twice in the arrays, is inductive for one caller only: two may both find a rule missing (see
[seen while modelling](#seen-while-modelling)).  `RulesSafe` and `AlertsSafe` say so in their
hypothesis `OneCaller`; the others hold for any number of callers.

The code's loops are folds here: loading files, taking rules out, appending attributes, going through the engines of
a handler, and three in the distribution of rules.  Each fold is first turned into steps from
its base (`RemoveFold`, `LoadFold`, ...), once per operator since a lemma cannot take one as parameter; what a loop does is then
an induction over its steps (`UpTo`).  For `Keep` the place looked at and the length of the array go
together, so that the whole array has been looked at when the loop ends.  For `Distribute`,
`NamedGood` and `EqualGood` say that what threads have and what is left is all there is, once (`Parts`), that threads
not yet served have nothing, and that their number is the divisor: the last one gets all that is left.

### Processes of the server (`ServerProofs`)

For any number of threads, any periods, any length.  `IInv` is `FileInv /\ ReplyInv /\ EndInv`.

`FileInv`: who is between closing a file and having written to the next one, or ends the program because there is no next one, holds the
lock (`LockHeld`); what
was found out about the current file still holds when it is used, since only the holder changes it (`FileStands`);
names and times of files only grow (`FilesInOrder`); where there is no file one is being opened, could not be opened, or none ever
was (`FileThere`); the thread that ends the program closes only when no other is printing (`Printing`).  The last
one is what makes the close without the lock harmless.  What the disk refused stays with the file it was meant for: a verdict is on
the disk, in the buffer of the current file, or its file is in `failed` (`Saved`, `SavedAll`), and so a file
that is not in `failed` when it gets its semaphore is complete.

`ReplyInv`: answers parsed, answers on their way back and commands on the wire, one behind the other (`Commands`),
are those of the first records of the line of waiters, in its order (`InStep`; a thread that has written and not yet queued
up counts as last), **whether the threads of these records still wait or woke without a signal**.  So answers never slip to
the record of another call, and an answer that comes for a record whose call is over is found out (`Gone`) where the code would write through
it.  `OwnReply` alone does not say that the *next* answer is the one of the first in line.  `MutexHeld`, `WaitOnce` and `Lost`
say who may change the line and what a lost connection leaves; `WaitersWait` that only a wake-up
without a signal leaves a record behind.

`EndInv`: the stream is whole reports and then at most one end (`StreamEnds`), no more reports are counted than
were sent (`ReportsRead`, one more for the cut one, which is read as a whole one), every verdict given has been written to a file or
is the one being printed (`Printed`), and the last file is closed before the end (`ClosedLast`).  A program that ends as it should has given all its
verdicts to the disk, whether by the end of its reports or by a signal that leaves some unread; one that halts promises nothing.

`ParentIInv` is about the process that accepts connections, for any options: every client got the cores
of its number (`ServedInTurn`), the parent holds the socket of the client it is forking for and no other
(`HeldNow`), and signals and waiting agree (`SignalsCounted`).  That clients in a row share no core is
then arithmetic of remainders (`RemainderUnique`, `TimesGrows`).

### Messages and alerts (`MessageProofs`)

For any options and files of them, any types of attributes, any reports and packets, any events of a rule, any
size of the buffer of an alert.  Assumed of the inputs (`InputAssumption`) are only their types: a report is a
sequence of fields; a packet says for each attribute what it has, its captured length has 32 bits, the length of its IP header is a
byte, and its headers may be said to begin anywhere.  Of the types (`TypesAssumption`): an attribute that
is a TCP flag is a number, as `mmt_dpi.h` has it; of the options (`ConfigAssumption`), that they are integers of the width `UINT32`; and
of the widths (`WidthAssumption`), that a sum of two lengths of 32 bits does not wrap in `SIZE_T`, which is 2^64.

`IInv`, for `MessageKept`: `Kept(msg)` says that the data of a message lie apart, between the header in front
of them and `index`, so that what is put at `index` touches none of them; that an attribute is set exactly if its bit is; and that
`index` is below `UINT32`.  The last is why the sum in `TooBig` does not wrap for any length but that of options of an IP
header with less than 20 bytes (`OptionsAre`, `FitsIs`): `OverrunExplained`.
An attribute that comes again gets a new place behind all the others, and its first data stay where they are, unused: what lies
apart is the data *of the attributes*.  `Says(msg, input, n)` says what the first `n` fields left: an element is the word of one of its fields,
and of the last one unless the data before it took too much.  The step needs that `index` is at most what those fields take together
(`Needed`), since that decides whether the next one fits.

`CapturedOnly` says of what was copied where it begins (`Begins`) and how far it goes: never past the capture, and exactly to
its end if that is less than 2^16 bytes away; of two attributes that lead to one place, that they have one length.  A header said
to begin behind the capture is the case it says least of, and there is nothing to say: the code copies as many bytes as the wrapped
length says.  `CopiedIs` ties what an element holds to the input; the rest is arithmetic of sums and
remainders (`TotalNext`, `OffsetsGrow`, `BehindIs`).

`AlertShows` compares two nested loops over events and attributes, the code's and the one that joins parts with commas.
`TraceFits`, a part of `IInv`, says what the loops read.  `Showing` is the invariant of the inner loop and `Telling` of the outer
one: as long as the room left is more than a number takes, what is stepped over together with the piece that is not
(`out` and `last`) is the text expected so far; and the room only shrinks, by at least the head of an event, so that it
tells whether a comma is due (`t.room # MaxText`).  That is where `AlertShows` could go wrong, and why `HeadText` must be positive.
The loops are recursive functions; `SolutionExists` turns each into a sequence of steps.

That an alert that fits is written within the buffer is an induction over the same loops.  `Full` counts everything, values and all, that an
alert may take.  `Fitting(t, last)` says that at most `last` bytes are written so far, nothing was cut, and that the room, which
counts less than was written, is at least what `last` leaves; each piece moves `last` by what `Full` has for
it (`AttributeFits`, `BegunFits`, `EndFits`, then `ElementsFit`, `EventFits`, `EventsFit`).

### Tables (`TableProofs`)

For any keys that are ordered, any nodes, protocols, calls and masks, and any sequence of operations.

`MapIsRight`, the refinement of `Dictionary`: in a tree each node stands where the search for its key ends
(`IsTree`), so that a place and a key determine each other; the order of the visits is then the order of the keys,
by the first turn on which two places differ (`BeforeSmaller`), and a
clone, which inserts the nodes of the other tree in that order, holds the same (`CloneIs`).

`ListIsRight`, the refinement of `ListOf`: `Chained(s)` says that the links, forwards and backwards, are those of one
sequence `s` that holds each allocated node once; `Walking(s)` that what a walk has still to see is the end of that sequence, and
that the node it is at, if it is still there, stands before it.  That is what makes the removal of the current node
harmless.  It would not survive the removal of the next one, which only a verdict brings about, and a verdict ends the walk.

`LookupIsRight` assumes of the protocols DPI tells of that no two have one name, and no two attributes of
one protocol have one name or number (`DpiAssumption`), which the 8,000 generated lines of `mmt_dpi.h` satisfy.
`TableIInv`: the indices are those of a sequence of sums (`Numbered`), every row is a dummy or that of its number,
and the last row is one that was told (`LastTold`), so that a protocol that comes in order is never behind the
table it is already in (`ToldFound`).

`MaskIsRead`: `Reading` says that what is left of a text is its end, and that a well-formed text's numbers so far are those its first
entries mean.  `ListsAgree`, that the list of all ids has what the threads' lists have, each once, holds for texts
that are not well formed, too.

### Only model-checked

  * All liveness (`OldestTaken`, `Verified`, `StopEnds`, `Ends`): the prover does not deal with fairness.
  * The parsers and the generator (`ExpressionKept`, `DelayMeant`, `CodeFit`, `MeaningKept`,
    `SinglePacketMeant`): `Expression`, `RuleReader`, `GenCode`, `RuleMeaning` and `RuleCompiler` use recursive
    operators on trees, which the prover's arithmetic backend does not take; what they compute for every tree would be
    an induction over trees.

## What the checks found

  * `gen_index`: the array of events with their attributes has no entry for an event that
    reads nothing of its own message, and all events behind it are stored one place too low
    (`gen_code.c:901`).  The engine then tries events on messages by the data of other
    events, and a guard reads what the message does not have.  Both sides are quoted under `findings`.
    `GuardCovered`, in `gen`, shows that nothing is wrong where every event has an entry.

## Seen while modelling

What a run once showed, or reading did, and no run is kept for.  Where a property
excepts one of these, its comment says so.

Engine and machines

  * A message's first verdict ends its processing, so another attempt misses its
    answer and is reported as a failure (`rule_verif_engine.c:475`; excepted by `FailureTrue`).
  * Ids freed below the last one freed are not found again, and the program halts
    for want of ids it has (`rule_verif_engine.c:266`).
  * `a BEFORE b` takes its bootstrap instance along and is never verified again
    (`mmt_fsm.c:242`, `gen_code.c:465`).
  * `(a THEN (b OR c)) THEN d`: a node stays filed for a state that was left, and asks the next one for a
    transition it does not have (`rule_verif_engine.c:325`, `mmt_fsm.c:187`).
  * An instance in a temporary state whose event did not come stays for ever
    (`mmt_fsm.c:130`), and the clone of one is freed at once (`mmt_fsm.c:72`).
  * The server numbers reports from 0, the counter nodes are made with, so the first
    one is never verified (`rule_verif_engine.c:464`).
  * With events numbered in reverse the single-packet path records its message under event 1
    (`mmt_fsm.c:305`), so that the other event finds none; `SinglePacketMeant` is about the usual order.

Generator and parsers

  * No states for: a part that comes to nothing under the second part of a NOT (it counts as failure), or
    under the first of a BEFORE; a nested COMPUTE generates nothing, and a nested BEFORE
    sends the generator into endless recursion (`gen_code.c:342`).
  * `<` and `>` between strings are printed with the comparison reversed, and a comparison of two
    computed values becomes one of strings (`expression.c:800`).  A number with a dot is taken for a
    protocol and its attribute.  Missing brackets and operands are accepted.
  * The order of a delay's limits is asserted before their signs are applied.
  * Event ids that are not given take the event's position and may meet one that is.
  * In a call, an attribute without an index is declared for the first parameter of `update` only.
  * `_alnumify` goes on past its buffer when a name is cut.

Threads, memory and ignored flows

  * Two threads that give up the last two references together free nothing
    (`message_t.c:98`).
  * `ring_push_burst`, which only a test calls, fills the slot its comment says it
    keeps clear (`lock_free_spsc_ring.h:118`).
  * Threads are named by the bits of a 64-bit mask (`mmt_smp_security.c:309`); there may be more.
  * A flow stays with the program until *every* thread ignores it, also threads none of whose rules
    it concerns; a rule added later never sees a flow that is ignored.
  * The filter may forget what the table still holds (`mmt_set_uint64.h:116`).

Changing rules

  * Two callers may add the same rule twice: what is new is decided before the
    lock is taken (`mmt_security.c:808`).  `update` has one caller, as the programs do.
  * An existing rule that a mask names for another thread is given to that one too
    (`mmt_security.c:801`).  A mask that names all threads leaves the other rules to nobody; an id
    in it that no rule has is passed over, and the thread gets another rule (`mmt_smp_security.c:203`).
  * An attribute too many is stored before the assertion that compares the number (`mmt_security.c:854`).
  * The program never unregisters attributes of removed rules: it compares an array with itself
    (`main_sec_standalone.c:272`).
  * Handlers stay in the list of handlers after they are freed (`mmt_security.c:336`).  A signal that
    interrupts an update while it holds a handler's lock lets the end wait for a thread that waits for that lock.
    A second signal exits while threads run code that the destructor unmaps, and so does a failed assertion of an update: too
    many rules or attributes, or a file that is no plugin (`mmt_security.c:828`, `:857`, `plugins_engine.c:186`; both excepted by `PluginsOpen`).
  * Unloading single rules, which no program asks for, leaves their slots (`plugins_engine.c:122`).

Messages and masks

  * A field that does not fit is left out, and its callers go on.  The server reads a field by
    the size of its type, whatever length it came with.
  * An IP header that is said to be shorter than 20 bytes has options of nearly 2^64 bytes (`dpi_message_t.h:96`); the sum that
    tests whether they fit wraps (`message_t.c:143`), and the copy passes the end of the buffer.  `OverrunExplained` says that nothing else does.
  * The length of a payload or of data wraps on 16 bits where a header is said to begin behind the capture, and the copy reads what was not
    captured; where a capture goes 2^16 bytes or more beyond a header, the payload is shorter than it (excepted by `CapturedOnly`).
  * The room of an alert's buffer counts names but not values (`mmt_security.c:541`), nor commas and closing brackets: an alert that is
    longer than the buffer may pass its end, and one that is cut is not well formed.  `AlertShows` is about alerts that
    fit, and about longer ones that were neither cut nor passed the end.
  * A line `name = value` sets 0 (`config.c:64`).
  * A range goes on from the last number of the *array*, not from its own beginning, which
    differs when that number stands before it: `5,1-3,5-7` also gives 4, and `1-8,2-3` is refused.
    `RuleMask!WellFormed` leaves out such texts.  `3-3` is refused.
  * A thread named twice in a mask is an error for one reader of masks and none for the other.

Outputs and processes

  * A file that could not be written or closed gets its semaphore like any other (`send_msg_to_file.c:29-48`, `57-59`), so that a
    reader takes an incomplete file for a complete one (excepted by `SealedComplete`).
  * A data file that cannot be opened ends the program from the thread that prints (`send_msg_to_file.c:85-87`); messages and
    verdicts of the others are lost, and those in the buffers of stdio may be, for `exit` closes the plugins first.
  * A thread that wakes without a signal (`thredis.c:160`) takes that for a lost answer, and leaves a record in the list of waiters whose frame is
    gone; the next answer goes there (`crashed` in `Thredis`; excepted by `WaitersWait`).
  * A server interrupted by a signal leaves its last file without a semaphore.  A signal inside a file rotation
    of a program with one thread may close the file twice.
  * A second interrupt during the end runs the end twice in the standalone program.
  * A report longer than the buffer, and an error of `recv`, are not told from data.
  * A connection to Redis that is lost is a SIGPIPE for the writer; a hang-up alone
    keeps the reader turning; and `send_msg_to_redis.c:65` follows a pointer the reader may have cleared (`crashed` in `Thredis`).
    `thredis_close`, which nothing calls, waits for itself.

## What is not modelled

  * **Text and formatting**: libxml2, the spelling of words and numbers, the C text that
    the generator prints around machines and guards, logging, statistics, usage texts and options.
  * **External**: MMT-DPI, hiredis, libxml2, sockets, `dlopen`, stdio.  What the code relies on is in the actions
    that use them.  The generated data of `mmt_dpi.h` is data; how it is generated and
    searched is `DpiTable`.
  * **Counters of a rule** (`counter_min` and `counter_max`, `rule.c:154-163`): they are read, compared and
    printed with the delays, and the engine does not look at them.
  * **Limits of the loader**: what the assertions of `plugins_engine.c:117` and `:182` (50000 rules, and the number of plugins) leave behind in the middle of a plugin, and
    what the one attribute stored behind the array of attributes overwrites before the assertion fails.
  * **Functions rules may call** (`mmt_fsm` embedded functions, regular expressions): conditions without state on the data of
    a message, which `Guard` stands for.
  * **Diagnosis and platform**: logging, versions, affinity of threads to cores, hints to the processor.
  * **Never called in the repository**: `ring_push_burst`, `thredis_close`, the hash tables and the binary search
    of the utilities, the memory pools, cloning of messages, unloading of single rules, and the argument `stop_immediately`.
  * **Memory below the barriers**: the ring's steps are sequentially consistent, as the builtins make them.
  * **Chains of temporary states** (a rule all of whose nested delays are 0): `RuleFsm` assumes there are none.
  * **Reference counts in `RuleEngine`**: they are in `SmpSecurity`, where several threads change
    them, and in `SinglePacket`.

## Plan

Every safety property and every refinement a run checks is proved, but for the five of `gen`.  What is left:

  1. `RuleEngineProofs`: rules that begin with AND or OR, where one message begins several attempts.
  2. The classes of rules as a theorem about the generator (`StepwiseFit`) instead of a check of small rules; it needs
     `GenCode` without recursive operators, and an induction over trees.
