# lib_switch in TLA+

`lib_switch` builds a small program, `sw`, that loads shared libraries, links
the switches among them to the protocols among them, and then lets itself be
managed from a terminal and over TCP port 6123. This directory models the
program at the level of its control: what it does at boot, which processes it
consists of, how a client's message travels, and how a command line is read.
TLC checks the models on small instances; TLAPS proves their safety
properties for every value of the constants.

Line numbers are those of the repository's files.

## 1. The system

| component | files | state | operations |
|---|---|---|---|
| Boot | `main.c`, `common.h` | `hndl[]`, `switches[]`, `protocols[]`, `comms[]`, `clis[]` with their counters, `loop`, `proto_loop` | `read_libs`, `init` of each library, `register_mod`, `app_init`, the linking loop |
| Processes | `main.c`, `lib_sock_comm.c`, `lib_cli_comm.c` | the processes, each with its copy of `ch_id`, `exit_main`, `loop` and the open sockets | `start` of each module (fork), accept and fork, `quit`, signals, `exit_handler` |
| Socket relay and client | `lib_sock_comm.c`, `client/lib_sock_comm.c`, `app_msgs.h` | one buffer and `len` in the handler, one buffer in the client, the two byte streams | send, recv, call by position, reply, close |
| Bridge protocol | `lib_bridge.c`, `lib_bridge.h` | `br_devs[]`, `br_dev_cnt`, locals of the command functions | the seven messages, `add-br`, `del-br`, `add-br-if`, `del-br-if`, `set-age`, `show`, `load` |
| Flow protocol | `lib_flow.c`, `lib_flow.h` | `flw_devs[]`, `flw_dev_cnt`; of a filter line `rqd_field`, `tuples[25]`, `actions[25]` with their counters, the device and the table | the seven messages, `filter` `add`, `del` and `dump`, `load`, `show`, `help` |
| Shell | `lib_cli_comm.c` | its line buffer, which outlives an `fgets` that fails | `help`, `exit`, `quit`, `sec n;command` |
| Switches | `lib_asic*.c`, `lib_flow_stub*.c` | none | offer a protocol (`proto_reg_func`), methods that print, `halt` |
| Flow dump, client loader, `app_cli.h` | `lib_flow_dbg.c`, `client/main.c`, `app_cli.h` | none that matters | printing; an older copy of the loader; declarations nobody uses |

**How they interact.** Modules call each other through tables of function
pointers which the boot fills. After the boot nothing is shared: `start` of the
socket module and of the shell fork, and the socket listener forks once more for
every client, so that each process goes on with its own copy of the tables and
variables. Between processes there are only signals (`SIGUSR1` from the shell to
its parent; `SIGKILL` from `exit_handler` to the stored children) and the sockets.
Nothing waits for children, nothing is written to disk, no locks exist.

**What is hard here.** (a) Positions: messages and `sec` address modules by
positions that depend on the order in which `readdir` returned the files.
(b) `fork` copies everything, including variables that are only half set, and a
child that fails returns into `main()`'s loop and becomes a second main program.
(c) Process numbers are stored and signalled later, and 0 and -1 mean "the group"
and "everybody" to `kill`. (d) One `loop` variable serves nested loops. (e) The
relay takes one `recv` for one message, and the end of the stream for another.
(f) Local variables that a command's options leave unset. (g) Tables and buffers
of fixed size that are never checked. `PROJECT.json` lists every such hazard at
its line, with the properties that would notice.

**What makes each part correct.** Boot: every library that can be initialised is
in the table of its type once, in order; each protocol has the switches that
support it, once each, in order; no table overruns unless the directory is too
large. Processes: quit reaches the main program and ends it; the shutdown of the
process that was started kills only its own children, unless a fork failed, and halts
everything in order; one start of the program has the port. Relay: message by message in step, replies inside the buffers, both
sides end. Bridge commands: the device is called with what was typed; `load` comes back.
Filters: no field is installed without those before it; every field and action arrives
once, as typed; a line stays inside the arrays. Shell: only lines that were typed are
run; the number behind `sec` means a protocol that is there.

## 2. Modules

| module | models | correspondence |
|---|---|---|
| `SwRegistry` | boot and linking, `main.c` 27-300 and the `init`, `register_dev` and `proto_reg_func` of the libraries | a C table with its counter is a sequence; `pc` is where `main()` is; one action per turn of each loop (`SkipEntry`, `CannotOpenLib`, `OpenLib`, `InitLib`, `proto_reg_func`, `NextProto`). A store behind a table leads to `pc = "undefined"` |
| `SwLinks` | what the boot promises, without tables or indices | abstract specification of `SwRegistry` (`ImplementsLinks`) |
| `SwLifecycle` | the processes, from `start` to the last kill | a process is a number; `code[p]` is the code it runs, `loop[p]`, `exit_main[p]`, `ch_comm[p]`, `ch_cli[p]` its copies of the variables. `Fork` is the copy, `End` the death of processes; each turn of a loop of `main()` and `exit_handler` is an action |
| `SwShutdown` | the order in which modules are halted | abstract specification of the end of the first process (`ShutsDownInOrder`) |
| `SwExchange` | what the relay promises a client that waits: ask, carry out once, answer, or leave | abstract specification of `SwRelay` while replies fit (`InExchange`) |
| `SwRelay` | one connection of the sample client, its handler, and the message tables of all protocols | a message is its number in the client's script; streams are counted in messages upwards, in bytes downwards; `boot` is what the boot left behind |
| `SwBridgeCli` | bridge commands from the shell and from files | a line is a sequence of options (key, number); `vals` are the local variables of the running command; `files` are the lines left in each file that is being loaded |
| `SwFlowFilter` | `fib_cmd_filter` of the flow protocol | an option is its key, what stands behind it and its value, of an address an octet (text that `ether_aton` or `inet_pton` refuses counts as nothing readable); one action per branch of the two option loops; `tuples` and `actions` are the arrays up to their counters, `at` the place in the function. A store behind an array or a null pointer leads to `at = "crashed"` |
| `SwShell` | the shell's line buffer and `sec`, and the flow protocol's `cli_cmd` and `load` | a line is its first word, a number and options; `Cut` takes away a letter; `buf` is the buffer, `typed` the buffer as it was when `fgets` last read a line into it. Only the first letters of a word are compared, so of `quit`, `help` and a `sec` without a space the number of letters behind them is kept: `quit;` without its last letter is a quit |
| `SwProgress` | nothing of its own: an order of tuples of amounts of work | `SwRegistry`, `SwLifecycle`, `SwRelay`, `SwBridgeCli` and `SwShell` say with it that loops come to an end |
| `MCRegistry`, `MCSwTree`, `MCRelay`, `MCBridgeCli`, `MCShell` | nothing | values of the constants for TLC |
| `SwRegistry_proofs`, `SwLifecycle_proofs`, `SwShutdown_proofs`, `SwRelay_proofs`, `SwBridgeCli_proofs`, `SwShell_proofs`, `SwProgress_proofs` | nothing | theorems and proofs |

The modules meet as follows. `SwRegistry` ends where `SwLifecycle` begins
(`NComm`, `NCli`, `NSwitch`, `NProto` are the lengths of its four tables, and
`HasHalt` says which switches set `halt`). `SwRelay`'s `Boots` are final states of
`SwRegistry`: up to two protocol libraries in any order with the application
protocol last, as `SwRegistry_proofs!HandedOver` has it. `SwRelay` is the inside of a process
that `SwLifecycle` has in `code[p] = "handle"`: its ends `"accept"` and `"dead"`
are `HandlerLeavesLoop`, `HandlerDies` and `Crash` there. `SwBridgeCli` likewise is
inside the shell; a command that ends in undefined behaviour is that module's `Crash`.
`SwShell` extends `SwFlowFilter`: the shell's variables are those of the caller, and a
filter line of a file or of the terminal is run by the same actions. A bridge command is
one action there, `SecBridge`, with the two outcomes that `SwBridgeCli` leaves it: the
prompt, or undefined behaviour. The process that `SwShell` is in is the one that
`SwLifecycle` has in `code[p] = "shell"`; `cli_protos` and the number of devices in its
`Boots` are, like `SwRelay`'s, those of a boot that has finished.

**External.** The operating system is modelled from how the program uses it:
`fork`, `kill`, `bind`, `accept`, `recv`, `send` and orphaning. Two facts deserve
to be named. Client and server are on one host, so what one `send` writes arrives
whole; several sends may still be received together. And the listener keeps its
descriptor of each connection it accepts, so the death of a handler is not seen by
the client; `SwRelay` assumes the listener outlives the handler.

## 3. Runs

Passing runs; the states are those of the complete state space of the instance. Where a
run checks `IInv`, the type invariant `TypeOK` is its first part.

| run | instance | what it shows |
|---|---|---|
| `registry` (163,742 states) | five files, each of any of nine kinds, read in every order; tables of four entries | `IInv`; overruns happen only with too many libraries (`OverflowOnlyWhenFull`); tables are in order (`RegistrationOrder`), device tables too (`DevicesInOrder`); the boot implements `SwLinks` (`ImplementsLinks`); every step leaves less of it (`BootProgress`) |
| `lifecycle` (1,138) | one start, five processes, two clients, two switches, three protocols; forks fail and children crash; fair | the end implements `SwShutdown`; from the halting of the switches on, whoever is alive besides it accepts or serves clients on the program's port (`OnlyServersRemain`); no loop of `main()` or `exit_handler` goes back (`MainForward`); a main program that was told to quit ends (`QuitEnds`), and nobody but such servers ever lives again (`QuitClears`) |
| `faults` (867,495) | two starts, four processes, two switches of which the second has no `halt`; socket and accept fail, `fork` fails when no process is left, handlers and shells crash, signals from outside | `quit` is never sent where it would be lost (`QuitReachesMain`); whom `exit_handler` kills (`KillTargets`): the process that was started its own children, a listener that became a main program nobody of another start, and everybody only after a `fork` that failed; processes that hold the port are of one start (`OnePortOwner`); whoever becomes a main program and comes to its shutdown halts its modules in order (`HaltsInOrder`; that one that gets to the end has halted all is checked by `lifecycle`, here the second switch ends it); `IInv` |
| `relay` (38,341) | every order of up to two protocol libraries, 0 to 126 switches, fair | `InStep`: a client whose reply buffer holds the replies goes on only when all its messages have been relayed once, in order; while they fit, both sides implement `SwExchange` (`InExchange`); whether they fit or not, messages are relayed in order and at most once while the client is there (`RelayedOnce`), the two never wait for each other (`NoMutualWait`) and the script goes forward (`ScriptProgress`); `ReplyInBuffer`; `ClientServed`; `HandlerLeaves`; `IInv` |
| `bridge_cli` (99,298) | one device; lines of up to three options over the numbers -1, 0, 65536; two files of two lines, fair | `CallAsTyped`, `UndefinedCauses`, `OnlyLastLineLoads`, `LoadReturns`; every step of a load leaves less of it (`LoadProgress`); `IInv` |
| `commands` (230,064) | arrays of 25, tables of 256; short lines over fourteen options, long lines that fill or overfill the arrays, from the terminal, from a file and after the end of input; none, one and two devices, fair | what the line says reaches the device (`FlowAsTyped`); no field without those before it, and at most eleven for each `in-phy-port` (`FieldsInOrder`); what brings a filter down (`CrashCauses`) and what the shell (`ShellCauses`); `IInv`; the end of input ends in undefined behaviour, unless it came within a last line that is a quit (`EofEnds`), and every step on the way leaves less to run (`EofProgress`) |

Runs that end in a violation. Each checks one sentence of the repository against the code.

| run | sentence | what the counterexample shows |
|---|---|---|
| `relay_target` | `README.md:29`: a message is relayed "to the respective protocol handler" | `protocols[type]` (`lib_sock_comm.c:76`) is a position in the order of the directory; the main program's protocol, type 0, is registered last |
| `default_tree` | `main.c:196`: "halt all subsystems" | `lib_flow_stub` sets no `halt`; the call through it ends the program in the middle of `exit_handler` |
| `handlers` | `main.c:224`: "Halt the messaging side first" | the socket module's halt kills the listener, not the processes that serve clients |
| `bridge_messages` | `lib_bridge.c:95`: the row `{PROTOCOL_BRIDGE,BR_ADD_BR_IF,br_add_br_if}` | rows are in another order than the numbers; message 1 deletes the bridge |
| `unasked` | `README.md:29`: it waits for messages from a client and relays "that message" | `recv` returns 0 at the end of the stream, and the last message is carried out again |
| `full_lines` | `README.md:35`: the shell "listens for full line entries" | the input ends within `sec 1;filter add` and a word that is no option. The filter is refused; `fgets` then fails and leaves the line where it is, `lib_cli_comm.c:46` cuts the word off it, and the line is run again: the device is called in a turn in which nothing was read |

### Bounds, and why they are enough

* `registry`. Four entries and five files give tables that are full, overfull and
  not full, the failing `dlopen` before and after other libraries, and all mixes of
  two protocols with three switches. File names are interchangeable in the model
  (symmetry); the order of the directory is the order of `unread` being emptied.
  `relay_target` uses `MAX_OBJECTS` = 256 and the seven files the Makefile builds.
  All of its properties are also proved without bounds.
* `lifecycle`, `faults`, `default_tree`, `handlers`. `MaxPid` bounds how many
  processes ever exist; when it is reached `fork` fails, as it may in the code.
  Four are enough for a program, its listener, its shell and one of: a handler, a
  second program, a listener turned main program with a shell of its own;
  `lifecycle` has a fifth, for the handler of a second client. `MaxStarts`
  and `MaxConns` bound what operator and clients do. In `faults` a `fork` fails
  only when no process is left, so that a stored -1 has to come from such a `fork`; one that
  fails at any time is in `lifecycle` and in the proofs. In `lifecycle`
  `accept` does not fail: a server that is left over and whose `accept` failed would
  return to `main()` and start a shell. The safety properties of
  `faults`, `OnlyServersRemain` and `MainForward` are proved for every value of
  all of these bounds. `lifecycle` has two switches and
  three protocols because the loops over them share a variable with the loop over
  command lines; with equal or smaller numbers that would not show. It is right for
  at least one protocol, which is always there (the program's own).
* `relay`. The number of switches is on both sides of what fits into the client's
  128 bytes (29 and 30) and into the handler's 512 (125 and 126). `repeats` counts to
  2 because no property distinguishes more. The client's script is the whole of the
  code's: two queries, then seven bridge messages.
* `bridge_cli`. Three options are enough to repeat one and to have one of each;
  -1, 0 and 65536 are below, at and, cut to a short, again at the only device. Locals
  start as 0 or 7, a device that is there and one that is not. Two files let a file load
  another one or itself; `fopen` fails at the bound as it does when descriptors run out.

* `commands`. `ArraySize` and `MaxObjects` have the code's values. The short lines are all
  of up to two options over fourteen, which are each kind of option and each edge of a
  number: negative, behind the table, more than sixteen bits, more than a short. The
  long ones are the whole chain of fields, the chain with each one of them missing, 25 and
  26 fields, 25 and 26 actions, and addresses that are none. Words that are compared by
  their first letters have none, one and two letters behind them. Every line is also run
  cut letter by letter, after the end of input. One boot has so many protocols that the flow
  protocol's number has two digits, one has no `dump_flow`. Two lines of a file are
  enough for one with its newline and one without. All but
  `EofEnds` is also proved without bounds.

`CHECK_DEADLOCK FALSE` is set where the system may stop: all processes dead or
waiting for somebody, a connection over, a shell that has quit, undefined behaviour reached. The boot has
an explicit last state and is checked for deadlock.

### Fairness

* `SwLifecycle!FairSpec`: the scheduler runs every process that can take a step of its
  own (`Proceed`). No fairness for what clients, users and the system do (`Respond`):
  nobody has to connect, type `quit` or fail. `main()` waits in `while(!exit_main)`,
  `main.c` 350, so it does see the flag.
* `SwRelay!FairSpec`: the client and the handler run, and a reset, once caused, arrives.
  The client need not be interrupted.
* `SwBridgeCli!FairSpec`: a line that was begun is finished and a file is read on; which
  lines are in files or typed is open, and nobody has to type.
* `SwShell!FairSpec`: the shell's process runs; nobody has to type, and input need not end.
  The loop has no way out but `quit` and `exit` (`while(1)`, `lib_cli_comm.c` 41), so that
  a shell whose input has ended does run on.

## 4. Proofs

Each proof module is about every value of the constants of the module it extends:
`SwRegistry_proofs` any finite set of files, any set of directories over them, any table
size; `SwProgress_proofs` tuples of any length; `SwLifecycle_proofs` any number of modules, processes, starts and connections, and
all faults; `SwRelay_proofs` any number of switches, devices and protocol libraries;
`SwBridgeCli_proofs` and `SwShell_proofs` any lines, files, devices and array sizes. The
assumptions are those the modules state: types of the constants, finitely many files
(`FilesAssumption`), switches in `HasHalt` that exist, and for the shell
that its protocols fit into their table (`ProtosAssumption`), which is what
`SwRegistry_proofs!HandedOver` says of a boot that was finished. `SwShutdown_proofs` has
an assumption of its own, `OneStart`, explained below.

| theorem | states |
|---|---|
| `SwRegistry_proofs!InvariantHolds` | `Spec => []IInv` |
| `SwRegistry_proofs!TypeCorrect` | `Spec => []TypeOK` |
| `SwRegistry_proofs!OverflowCauses` | `Spec => []OverflowOnlyWhenFull` |
| `SwRegistry_proofs!BootImplementsLinks` | `Spec => ImplementsLinks` |
| `SwRegistry_proofs!TablesInOrder` | `Spec => []RegistrationOrder` |
| `SwRegistry_proofs!DeviceTablesInOrder` | `Spec => []DevicesInOrder` |
| `SwRegistry_proofs!HandedOver` | a finished boot hands over 1 to `MaxObjects` protocols, the application's last |
| `SwRegistry_proofs!BootEnds` | `Spec => BootProgress` |
| `SwProgress_proofs!LowerEnds` | no sequence of tuples of amounts goes down for ever |
| `SwLifecycle_proofs!InvariantHolds` | `Spec => []IInv` |
| `SwLifecycle_proofs!TypeCorrect` | `Spec => []TypeOK` |
| `SwLifecycle_proofs!QuitIsHeard` | `Spec => []QuitReachesMain` |
| `SwLifecycle_proofs!PortOwner` | `Spec => []OnePortOwner` |
| `SwLifecycle_proofs!KillsOwnChildren` | `Spec => []KillTargets` |
| `SwLifecycle_proofs!ShutdownKeepsOrder` | `Spec => HaltsInOrder` |
| `SwLifecycle_proofs!LoopsStayInRange` | `Spec => []LoopsInRange` |
| `SwLifecycle_proofs!MainGoesForward` | `Spec => MainForward` |
| `SwShutdown_proofs!ServersRemain` | `OneStart` implies `Spec => []OnlyServersRemain` |
| `SwShutdown_proofs!ShutdownImplemented` | `OneStart` implies `Spec => ShutsDownInOrder` |
| `SwRelay_proofs!InvariantHolds` | `Spec => []IInv` |
| `SwRelay_proofs!TypeCorrect` | `Spec => []TypeOK` |
| `SwRelay_proofs!ClientInStep` | `Spec => []InStep` |
| `SwRelay_proofs!RepliesFit` | `Spec => []ReplyInBuffer` |
| `SwRelay_proofs!RelaysAtMostOnce` | `Spec => []RelayedOnce` |
| `SwRelay_proofs!NeverBothWait` | `Spec => []NoMutualWait` |
| `SwRelay_proofs!RelayImplementsExchange` | `Spec => InExchange` |
| `SwRelay_proofs!ScriptGoesForward` | `Spec => ScriptProgress` |
| `SwBridgeCli_proofs!InvariantHolds` | `Spec => []IInv` |
| `SwBridgeCli_proofs!TypeCorrect` | `Spec => []TypeOK` |
| `SwBridgeCli_proofs!CallsAsTyped` | `Spec => []CallAsTyped` |
| `SwBridgeCli_proofs!BridgeUndefined` | `Spec => []UndefinedCauses` |
| `SwBridgeCli_proofs!LastLineLoads` | `Spec => []OnlyLastLineLoads` |
| `SwBridgeCli_proofs!LoadGoesForward` | `Spec => LoadProgress` |
| `SwShell_proofs!InvariantHolds` | `Spec => []IInv` |
| `SwShell_proofs!TypeCorrect` | `Spec => []TypeOK` |
| `SwShell_proofs!FiltersAsTyped` | `Spec => []FlowAsTyped` |
| `SwShell_proofs!FieldOrderKept` | `Spec => []FieldsInOrder` |
| `SwShell_proofs!FilterCrashes` | `Spec => []CrashCauses` |
| `SwShell_proofs!ShellUndefined` | `Spec => []ShellCauses` |
| `SwShell_proofs!EofGoesForward` | `Spec => EofProgress` |

**The boot's invariant.** That linking never overruns a device table does not follow
from the lengths of the tables alone: the device table of protocol k grows by at most
one per switch *offered to k*, and only if k is in the table once. So `IInv` says that
handles are distinct (`HandlesOK`), that each table holds distinct libraries of its type
(`TablesOK`), and that a device table holds exactly the supporting switches that were
offered so far, with a length behind the loops (`DevicesOK`). `OverflowOnlyWhenFull` then
needs a count: a full table of distinct libraries, and one more, are as many files. The
refinement reads sequences as sets; each step maps to a step of `SwLinks` or to none, the
one that needs thought being a supporting pair, which is new because of `DevicesOK`.
`RegistrationOrder` and `DevicesInOrder` say that a table is the part of another one that
its loop has passed, in the same order (`Selects`); they are inductive with `IInv`.

**The processes' invariant.** `KillTargets` is about the moment of the kill, but what is
stored in `ch_id` was stored long before, perhaps in another process. So `IInv` follows
the stored numbers: processes that do not exist yet are nobody's child and in nobody's
memory (`UnusedBlank`), a process that the operator started only runs main code
(`RootsAreMain`), behind its start loop every `ch_id` is a child of its own, dead, or the
-1 of a failed fork (`CommIds`, `CliIds`), and a listener's copy of the shells' `ch_id` is
still 0 (`CliIds`), so that a listener that returns to `main()` kills in its loop over
command lines only shells it has forked itself. Its loop over the sockets is another
matter: there its own `ch_id` is 0, and `kill(0)` ends its whole group, the first process
and its shell included. That this is the worst, and no process of another start is hit
unless a `fork` failed, is `StoredIds`. `ServersHoldPort` says that who accepts or serves
has the listening socket. `QuitReachesMain` and `OnePortOwner` are inductive together with
these.

**The shutdown.** The order of the shutdown is kept by every process that becomes a main
program, whatever fails (`HaltsInOrder`); it needs one command line, because with another
number of them the loops inside are not run once. What is halted follows from the place in
`exit_handler` and `loop` (`HaltedInPlace`, with `LoopsInRange`). That the first process
halts *all* of its modules before it is gone (`ShutsDownInOrder`) is true only if it is not
ended in between, and without `OneStart` it is: a listener that fails to bind becomes
a second main program, whose halt kills with a stored 0 its whole group; a second start
whose fork failed kills with -1 everybody; a switch without `halt` ends the program half
way; and with two command line modules the variable that counts them is the one the loops
inside use. So the theorem is about one start with one socket module and one shell whose
switches all have `halt`, where forks may fail and handlers and shells may crash. Its
invariant adds to `IInv` that the first process is the only main program and finds the
port free (`Alone`), and what is halted at each place of `exit_handler` (`HaltedSoFar`).
`OnlyServersRemain` says what the kills have reached: then no process is a child of the
first one, about to bind, a shell or another main program. Handlers are not reached, and
one whose `recv` fails goes back to `accept` on the socket it inherited
(`lib_sock_comm.c` 63, 73, 85): what is left may serve new clients and fork more
handlers, and holds the port (`ServersHoldPort`), which a later start then cannot bind.
That none of them becomes a main program rests on `OneStart`, where `accept` does not fail.

**The connection's invariant.** `InStep` speaks of the client; what keeps it in step is
where the one message or reply is. `OneAtATime` says that as long as the replies fit, either
the handler holds the message or it is on its way, or the reply is, and never two of
them. That no reply leaves the handler's buffer is separate (`ReplyInBuffer`): what is
received at once is at most the client's whole script, and with the header that is
smaller than the buffer; only the list of switches can be longer. When replies do not
fit, the client runs ahead, and less holds, but for every number of switches: its
connection is open as long as it is there (`ClientKeepsOpen`), what was relayed is behind
what is in the buffer and that behind what is on its way (`RelayedBefore`), from which
`RelayedOnce` follows, and a handler that has nothing to receive has left the client
bytes to read (`NoMutualWait`). For the refinement, the message of a call is the one that
`SwExchange` has as its turn because of `OneAtATime`.

**The commands' invariants.** For the bridge commands it is enough that what holds at the
call holds at every option (`AsTyped`), and that a line without newline is its file's last.
For filters the options are counted: the tuple of the option at place i is the `Rank` of i
among the fields read so far, so that nothing is lost, doubled or out of order
(`FlowAsTyped`). `rqd_field` is the place of the last tuple (`LastPlace`), and each
`in-phy-port` has begun at most eleven tuples, the last of them as many as `rqd_field`
says (`Restarts`); `FieldsInOrder` follows.

**Progress.** Liveness is out of the prover's reach, but what liveness here is hard about
is not the scheduler: it is whether loops that share variables, files that load files, or
two sides that take each other's bytes in parts come to an end. So each of these has an
amount of work left, a tuple of numbers (`BootLeft`, `MainLeft`, `ScriptLeft`, `LoadLeft`,
`EofLeft`), and an action property that every step, whoever takes it, leaves less
(`BootProgress`, `MainForward`, `ScriptProgress`, `LoadProgress`, `EofProgress`). These are
proved from the invariants, and `LowerEnds` proves that no tuple can go down for ever. What
remains of liveness is that somebody can always take the next step and that the scheduler
lets them; that, and only that, is left to the runs with fairness. `HandlerLeaves` has no
such measure: until the reset arrives the handler may go round its loop any number of times.

**What the properties had to except.** Places where the code does what its neighbouring
lines would not let expect, and which the properties name: the device number is compared
with `>` (`lib_flow.c:231`), so the first one behind the table is called (`CrashCauses`); a
source address that is none is a null pointer where the destination address is checked
(369-377); an IPv4 address with a newline behind it is not read, and garbage is
installed (438, 475); `drop`, which the help offers as an action, is stored and not
counted (634), so that it does not arrive (`FlowAsTyped`).

**Only model-checked.** Liveness (`QuitEnds`, `QuitClears`, `ClientServed`,
`HandlerLeaves`, `LoadReturns`, `EofEnds`), which the prover does not handle, except
for the progress it rests on. That `Selects` means the library's `SelectSeq`, a recursive
operator, is an assumption of `MCRegistry` that TLC evaluates on short sequences. That the
`Boots` of `SwRelay` and `SwShell` are final states of `SwRegistry` is by construction of
the instances; `HandedOver` proves what the assumptions of these modules need.

## 5. Not modelled

* Command lines of more than 4095 letters, which `fgets` returns in parts.
* Clients other than the sample client. What indices of a message may be is known only
  for the messages it sends.
* Text that is printed, `lib_flow_dbg.c`, help texts; the client's loader
  (`client/main.c`), an older copy of `main.c`'s; `app_cli.h`, unused declarations.
* What happens after undefined behaviour.

## 6. Plan

1. Done: `SwRegistry`, `SwLinks`, `SwLifecycle`, `SwShutdown`, `SwRelay`, `SwBridgeCli`,
   `SwFlowFilter`, `SwShell` with their runs.
2. Done: proofs of every safety and every progress property the runs check, and of the
   three refinements, that of the shutdown under `OneStart`.
3. Left: the shutdown's refinement under less than `OneStart` (no socket module, or several
   starts where the first process is not hit); a client that sends any message, as a second
   instance of the handler; the shutdown for any number of command line modules, once it
   is known what `exit_handler` should do with them.
