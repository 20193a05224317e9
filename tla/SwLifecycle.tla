---------------------------- MODULE SwLifecycle ----------------------------
(***************************************************************************)
(* The processes of lib_switch after the modules are linked: how main()    *)
(* starts the socket and command line modules, each of which forks; how    *)
(* the socket listener forks a handler for every client; how `quit` in the *)
(* shell signals its parent; and how exit_handler takes everything down.   *)
(*                                                                         *)
(* A child of fork runs on in a copy of its parent's memory: its own       *)
(* `loop`, exit_main, ch_id of every module, and open sockets.  A listener *)
(* that cannot bind, or whose accept fails, returns 0 from its start       *)
(* function, and so continues in main()'s own loop: it is a second main    *)
(* program.  All of this is in the variables; a process is a number.       *)
(* Processes are never reused: a dead child stays a zombie, because        *)
(* nothing here calls wait (main.c:269 hooks SIGCHLD and ignores it).      *)
(***************************************************************************)
EXTENDS Integers, FiniteSets, SwProgress

CONSTANTS MaxPid,       \* how many processes there can be: fork fails after that
          NComm,        \* comm_cnt, cli_cnt, switch_cnt and proto_cnt
          NCli,
          NSwitch,
          NProto,
          HasHalt,      \* the switches whose halt is not NULL
          MaxStarts,    \* how often the operator starts the program
          MaxConns,     \* how many connections the clients open
          Faults        \* what may go wrong: some of FaultKinds

FaultKinds == {"fork", "socket", "accept", "crash", "signal"}

Pids == 1..MaxPid
Outside == 0            \* the parent of a process that has none among Pids

ASSUME CountsAssumption ==
  /\ MaxPid \in Nat /\ NComm \in Nat /\ NCli \in Nat /\ NSwitch \in Nat /\ NProto \in Nat
  /\ MaxStarts \in Nat /\ MaxConns \in Nat
ASSUME HasHaltAssumption == HasHalt \subseteq 0..(NSwitch - 1)
ASSUME FaultsAssumption == Faults \subseteq FaultKinds

VARIABLES code,         \* which code a process runs
          parent,
          group,        \* its process group: the process the operator started
          loop,         \* main()'s and exit_handler's loop variable
          exit_main,
          ch_comm,      \* ch_id of each socket module, in each process
          ch_cli,       \* ch_id of each command line module
          listening,    \* the processes that hold the socket of port 6123
          halted,       \* the modules whose halt a process has called
          conns         \* connections opened so far

vars == <<code, parent, group, loop, exit_main, ch_comm, ch_cli, listening, halted, conns>>

MainCodes  == {"start_comm", "start_cli", "wait",
               "halt_comm", "halt_cli", "halt_sw", "halt_proto", "close"}
SockCodes  == {"bind", "accept", "handle"}
ShellCodes == {"shell", "quit"}

Alive == {p \in Pids : code[p] \notin {"none", "dead"}}
Unused == {p \in Pids : code[p] = "none"}
Roots == {p \in Pids : group[p] = p}

Comms == 0..(NComm - 1)
Clis  == 0..(NCli - 1)

-----------------------------------------------------------------------------
Init ==
  /\ code = [p \in Pids |-> "none"]
  /\ parent = [p \in Pids |-> Outside]
  /\ group = [p \in Pids |-> 0]
  /\ loop = [p \in Pids |-> 0]
  /\ exit_main = [p \in Pids |-> FALSE]
  /\ ch_comm = [p \in Pids |-> [i \in Comms |-> 0]]
  /\ ch_cli = [p \in Pids |-> [i \in Clis |-> 0]]
  /\ listening = {}
  /\ halted = [p \in Pids |-> {}]
  /\ conns = 0

Goto(p, c) == code' = [code EXCEPT ![p] = c]

(* The processes in dying end; next is what the others do.  Their children *)
(* get another parent, their sockets are closed.                           *)
End(dying, next) ==
  /\ code' = [p \in Pids |-> IF p \in dying THEN "dead" ELSE next[p]]
  /\ parent' = [p \in Pids |-> IF parent[p] \in dying THEN Outside ELSE parent[p]]
  /\ listening' = listening \ dying

(* The process number fork returns, if there is one left.                  *)
NextPid == {q \in Unused : \A r \in Unused : q <= r}

(* What a child c of p gets by fork, but for loop, ch_comm and ch_cli.     *)
Fork(p, c, does) ==
  /\ code' = [code EXCEPT ![c] = does]
  /\ parent' = [parent EXCEPT ![c] = p]
  /\ group' = [group EXCEPT ![c] = group[p]]
  /\ exit_main' = [exit_main EXCEPT ![c] = exit_main[p]]
  /\ listening' = listening \cup {q \in {c} : p \in listening}
  /\ UNCHANGED halted

ForkCanFail == Unused = {} \/ "fork" \in Faults

(* The operator starts ./sw; the modules load and link as in SwRegistry.   *)
Start(p) ==
  /\ p \in NextPid
  /\ Cardinality(Roots) < MaxStarts
  /\ Goto(p, "start_comm")
  /\ group' = [group EXCEPT ![p] = p]
  /\ UNCHANGED <<parent, loop, exit_main, ch_comm, ch_cli, listening, halted, conns>>

-----------------------------------------------------------------------------
(* The start loops of main().                                              *)

sock_comm_start(p) ==
  /\ code[p] = "start_comm"
  /\ loop[p] < NComm
  /\ \E c \in NextPid :
       /\ Fork(p, c, "bind")
       /\ ch_comm' = [ch_comm EXCEPT ![p][loop[p]] = c,
                                     ![c] = [ch_comm[p] EXCEPT ![loop[p]] = 0]]
       /\ ch_cli' = [ch_cli EXCEPT ![c] = ch_cli[p]]
       /\ loop' = [loop EXCEPT ![p] = loop[p] + 1, ![c] = loop[p]]
  /\ UNCHANGED conns

(* fork's -1 is stored like a process number.                              *)
sock_comm_start_fails(p) ==
  /\ code[p] = "start_comm"
  /\ loop[p] < NComm
  /\ ForkCanFail
  /\ ch_comm' = [ch_comm EXCEPT ![p][loop[p]] = -1]
  /\ loop' = [loop EXCEPT ![p] = loop[p] + 1]
  /\ UNCHANGED <<code, parent, group, exit_main, ch_cli, listening, halted, conns>>

EndStartComm(p) ==
  /\ code[p] = "start_comm"
  /\ loop[p] = NComm
  /\ Goto(p, "start_cli")
  /\ loop' = [loop EXCEPT ![p] = 0]
  /\ UNCHANGED <<parent, group, exit_main, ch_comm, ch_cli, listening, halted, conns>>

(* Mutant: the parent does not keep what fork returned.                    *)
cli_comm_start_ForgetsChild(p) ==
  /\ code[p] = "start_cli"
  /\ loop[p] < NCli
  /\ \E c \in NextPid :
       /\ Fork(p, c, "shell")
       /\ ch_comm' = [ch_comm EXCEPT ![c] = ch_comm[p]]
       /\ ch_cli' = [ch_cli EXCEPT ![c] = [ch_cli[p] EXCEPT ![loop[p]] = 0]]
       /\ loop' = [loop EXCEPT ![p] = loop[p] + 1, ![c] = loop[p]]
  /\ UNCHANGED conns

cli_comm_start(p) ==
  /\ code[p] = "start_cli"
  /\ loop[p] < NCli
  /\ \E c \in NextPid :
       /\ Fork(p, c, "shell")
       /\ ch_comm' = [ch_comm EXCEPT ![c] = ch_comm[p]]
       /\ ch_cli' = [ch_cli EXCEPT ![p][loop[p]] = c,
                                   ![c] = [ch_cli[p] EXCEPT ![loop[p]] = 0]]
       /\ loop' = [loop EXCEPT ![p] = loop[p] + 1, ![c] = loop[p]]
  /\ UNCHANGED conns

(* Mutant: nothing is stored when fork fails.                              *)
cli_comm_start_fails_Unstored(p) ==
  /\ code[p] = "start_cli"
  /\ loop[p] < NCli
  /\ ForkCanFail
  /\ loop' = [loop EXCEPT ![p] = loop[p] + 1]
  /\ UNCHANGED <<code, parent, group, exit_main, ch_comm, ch_cli, listening, halted, conns>>

cli_comm_start_fails(p) ==
  /\ code[p] = "start_cli"
  /\ loop[p] < NCli
  /\ ForkCanFail
  /\ ch_cli' = [ch_cli EXCEPT ![p][loop[p]] = -1]
  /\ loop' = [loop EXCEPT ![p] = loop[p] + 1]
  /\ UNCHANGED <<code, parent, group, exit_main, ch_comm, listening, halted, conns>>

(* Mutant: main() serves connections itself instead of waiting.            *)
EndStartCli_Serves(p) ==
  /\ code[p] = "start_cli"
  /\ loop[p] = NCli
  /\ Goto(p, "accept")
  /\ UNCHANGED <<parent, group, loop, exit_main, ch_comm, ch_cli, listening, halted, conns>>

EndStartCli(p) ==
  /\ code[p] = "start_cli"
  /\ loop[p] = NCli
  /\ Goto(p, "wait")
  /\ UNCHANGED <<parent, group, loop, exit_main, ch_comm, ch_cli, listening, halted, conns>>

-----------------------------------------------------------------------------
(* The socket module's child.                                              *)

(* Mutant: the port can be bound again while it is in use.                 *)
Bind_Shares(p) ==
  /\ code[p] = "bind"
  /\ Goto(p, "accept")
  /\ listening' = listening \cup {p}
  /\ UNCHANGED <<parent, group, loop, exit_main, ch_comm, ch_cli, halted, conns>>

Bind(p) ==
  /\ code[p] = "bind"
  /\ listening = {}
  /\ Goto(p, "accept")
  /\ listening' = {p}
  /\ UNCHANGED <<parent, group, loop, exit_main, ch_comm, ch_cli, halted, conns>>

(* `return 0` from the start function takes the child back to the for loop *)
(* of main() that started it.                                              *)
ReturnToMain(p) ==
  /\ Goto(p, "start_comm")
  /\ loop' = [loop EXCEPT ![p] = loop[p] + 1]
  /\ UNCHANGED <<parent, group, exit_main, ch_comm, ch_cli, listening, halted, conns>>

BindFails(p) ==
  /\ code[p] = "bind"
  /\ listening # {} \/ "socket" \in Faults
  /\ ReturnToMain(p)

AcceptFails(p) ==
  /\ code[p] = "accept"
  /\ "accept" \in Faults
  /\ ReturnToMain(p)

(* A client connects and the acceptor forks a handler.  When fork fails    *)
(* the connection is never served, and no process changes.                 *)
Accept(p) ==
  /\ code[p] = "accept"
  /\ conns < MaxConns
  /\ conns' = conns + 1
  /\ \E c \in NextPid :
       /\ Fork(p, c, "handle")
       /\ loop' = [loop EXCEPT ![c] = loop[p]]
       /\ ch_comm' = [ch_comm EXCEPT ![c] = ch_comm[p]]
       /\ ch_cli' = [ch_cli EXCEPT ![c] = ch_cli[p]]

(* recv returns an error: the handler leaves its loop, closes the client   *)
(* and goes round the accept loop in which it was forked.                  *)
HandlerLeavesLoop(p) ==
  /\ code[p] = "handle"
  /\ Goto(p, "accept")
  /\ UNCHANGED <<parent, group, loop, exit_main, ch_comm, ch_cli, listening, halted, conns>>

(* A send after the client is gone raises SIGPIPE.                         *)
HandlerDies(p) ==
  /\ code[p] = "handle"
  /\ End({p}, code)
  /\ UNCHANGED <<group, loop, exit_main, ch_comm, ch_cli, halted, conns>>

-----------------------------------------------------------------------------
(* The shell: `quit` and `exit` signal the parent, then kill the shell.    *)
(* The handler of SIGUSR1 only sets exit_main, in whatever process.        *)
QuitSignal(p) ==
  /\ code[p] = "shell"
  /\ Goto(p, "quit")
  /\ exit_main' = [q \in Pids |-> exit_main[q] \/ (q = parent[p] /\ q \in Alive)]
  /\ UNCHANGED <<parent, group, loop, ch_comm, ch_cli, listening, halted, conns>>

QuitDie(p) ==
  /\ code[p] = "quit"
  /\ End({p}, code)
  /\ UNCHANGED <<group, loop, exit_main, ch_comm, ch_cli, halted, conns>>

-----------------------------------------------------------------------------
(* Mutant: the children are sent SIGTERM, which most of them ignore.       *)
Killed_Term(p, ch) ==
  {q \in IF ch = 0 THEN {r \in Alive : group[r] = group[p]}
         ELSE IF ch = -1 THEN Alive \ {p}
         ELSE Alive \cap {ch} : exit_main[q]}

(* exit_handler.  kill(ch_id, SIGKILL) with a ch_id of 0 reaches the whole *)
(* process group, and with -1 every process but the caller.                *)
Killed(p, ch) ==
  IF ch = 0 THEN {q \in Alive : group[q] = group[p]}
  ELSE IF ch = -1 THEN Alive \ {p}
  ELSE Alive \cap {ch}

(* Mutant: exit_handler goes on with the loop variable of main().          *)
BeginHalt_KeepsLoop(p) ==
  /\ code[p] = "wait"
  /\ exit_main[p]
  /\ Goto(p, "halt_comm")
  /\ UNCHANGED <<parent, group, loop, exit_main, ch_comm, ch_cli, listening, halted, conns>>

BeginHalt(p) ==
  /\ code[p] = "wait"
  /\ exit_main[p]
  /\ Goto(p, "halt_comm")
  /\ loop' = [loop EXCEPT ![p] = 0]
  /\ UNCHANGED <<parent, group, exit_main, ch_comm, ch_cli, listening, halted, conns>>

HaltComm(p) ==
  /\ code[p] = "halt_comm"
  /\ loop[p] < NComm
  /\ End(Killed(p, ch_comm[p][loop[p]]), code)
  /\ halted' = [halted EXCEPT ![p] = @ \cup {<<"comm", loop[p]>>}]
  /\ loop' = [loop EXCEPT ![p] = loop[p] + 1]
  /\ UNCHANGED <<group, exit_main, ch_comm, ch_cli, conns>>

EndHaltComm(p) ==
  /\ code[p] = "halt_comm"
  /\ loop[p] = NComm
  /\ Goto(p, "halt_cli")
  /\ loop' = [loop EXCEPT ![p] = 0]
  /\ UNCHANGED <<parent, group, exit_main, ch_comm, ch_cli, listening, halted, conns>>

(* The loops over switches and protocols are inside the loop over the      *)
(* command lines, and all three count with the same variable.              *)
HaltCli(p) ==
  /\ code[p] = "halt_cli"
  /\ loop[p] < NCli
  /\ End(Killed(p, ch_cli[p][loop[p]]), [code EXCEPT ![p] = "halt_sw"])
  /\ halted' = [halted EXCEPT ![p] = @ \cup {<<"cli", loop[p]>>}]
  /\ loop' = [loop EXCEPT ![p] = 0]
  /\ UNCHANGED <<group, exit_main, ch_comm, ch_cli, conns>>

HaltSwitch(p) ==
  /\ code[p] = "halt_sw"
  /\ loop[p] \in HasHalt
  /\ halted' = [halted EXCEPT ![p] = @ \cup {<<"switch", loop[p]>>}]
  /\ loop' = [loop EXCEPT ![p] = loop[p] + 1]
  /\ UNCHANGED <<code, parent, group, exit_main, ch_comm, ch_cli, listening, conns>>

(* A call through a halt that no init has set.                             *)
HaltSwitchCrashes(p) ==
  /\ code[p] = "halt_sw"
  /\ loop[p] < NSwitch /\ loop[p] \notin HasHalt
  /\ End({p}, code)
  /\ UNCHANGED <<group, loop, exit_main, ch_comm, ch_cli, halted, conns>>

(* Mutant: the loop over the switches stops one early.                     *)
EndHaltSwitch_Early(p) ==
  /\ code[p] = "halt_sw"
  /\ loop[p] = NSwitch - 1
  /\ Goto(p, "halt_proto")
  /\ loop' = [loop EXCEPT ![p] = 0]
  /\ UNCHANGED <<parent, group, exit_main, ch_comm, ch_cli, listening, halted, conns>>

EndHaltSwitch(p) ==
  /\ code[p] = "halt_sw"
  /\ loop[p] = NSwitch
  /\ Goto(p, "halt_proto")
  /\ loop' = [loop EXCEPT ![p] = 0]
  /\ UNCHANGED <<parent, group, exit_main, ch_comm, ch_cli, listening, halted, conns>>

HaltProto(p) ==
  /\ code[p] = "halt_proto"
  /\ loop[p] < NProto
  /\ halted' = [halted EXCEPT ![p] = @ \cup {<<"protocol", loop[p]>>}]
  /\ loop' = [loop EXCEPT ![p] = loop[p] + 1]
  /\ UNCHANGED <<code, parent, group, exit_main, ch_comm, ch_cli, listening, conns>>

(* Mutant: the inner loop leaves its variable at 0 for the outer one.      *)
EndHaltProto_Restarts(p) ==
  /\ code[p] = "halt_proto"
  /\ loop[p] = NProto
  /\ Goto(p, "halt_cli")
  /\ loop' = [loop EXCEPT ![p] = 0]
  /\ UNCHANGED <<parent, group, exit_main, ch_comm, ch_cli, listening, halted, conns>>

(* The outer loop's increment, on what the inner loop left in `loop`.      *)
EndHaltProto(p) ==
  /\ code[p] = "halt_proto"
  /\ loop[p] = NProto
  /\ Goto(p, "halt_cli")
  /\ loop' = [loop EXCEPT ![p] = loop[p] + 1]
  /\ UNCHANGED <<parent, group, exit_main, ch_comm, ch_cli, listening, halted, conns>>

EndHaltCli(p) ==
  /\ code[p] = "halt_cli"
  /\ loop[p] >= NCli
  /\ Goto(p, "close")
  /\ UNCHANGED <<parent, group, loop, exit_main, ch_comm, ch_cli, listening, halted, conns>>

(* Mutant: exit_handler returns to main() without killing the process.     *)
CloseAndDie_Returns(p) ==
  /\ code[p] = "close"
  /\ Goto(p, "wait")
  /\ UNCHANGED <<parent, group, loop, exit_main, ch_comm, ch_cli, listening, halted, conns>>

(* The libraries are closed and the process kills itself.                  *)
CloseAndDie(p) ==
  /\ code[p] = "close"
  /\ End({p}, code)
  /\ UNCHANGED <<group, loop, exit_main, ch_comm, ch_cli, halted, conns>>

-----------------------------------------------------------------------------
(* What comes from outside.                                                *)

(* A handler or a shell is brought down by what it is sent.                *)
Crash(p) ==
  /\ "crash" \in Faults
  /\ code[p] \in {"handle", "shell"}
  /\ End({p}, code)
  /\ UNCHANGED <<group, loop, exit_main, ch_comm, ch_cli, halted, conns>>

(* SIGUSR1 from outside, and SIGTERM, which every process takes without    *)
(* effect until SIGUSR1 has restored its default action.                   *)
Usr1(p) ==
  /\ "signal" \in Faults
  /\ p \in Alive /\ ~exit_main[p]
  /\ exit_main' = [exit_main EXCEPT ![p] = TRUE]
  /\ UNCHANGED <<code, parent, group, loop, ch_comm, ch_cli, listening, halted, conns>>

Term(p) ==
  /\ "signal" \in Faults
  /\ p \in Alive /\ exit_main[p]
  /\ End({p}, code)
  /\ UNCHANGED <<group, loop, exit_main, ch_comm, ch_cli, halted, conns>>

(* SIGINT goes to a whole group.  lib_cli_comm.c has every process ignore  *)
(* it, until SIGUSR1 restores the default action.                          *)
Interrupt(g) ==
  /\ "signal" \in Faults
  /\ LET dying == {q \in Alive : group[q] = g /\ (exit_main[q] \/ NCli = 0)} IN
       /\ dying # {}
       /\ End(dying, code)
  /\ UNCHANGED <<group, loop, exit_main, ch_comm, ch_cli, halted, conns>>

(* The steps a process takes by itself.                                    *)
Proceed(p) ==
  \/ sock_comm_start(p) \/ sock_comm_start_fails(p) \/ EndStartComm(p)
  \/ cli_comm_start(p) \/ cli_comm_start_fails(p) \/ EndStartCli(p)
  \/ Bind(p) \/ BindFails(p)
  \/ QuitDie(p)
  \/ BeginHalt(p) \/ HaltComm(p) \/ EndHaltComm(p)
  \/ HaltCli(p) \/ EndHaltCli(p)
  \/ HaltSwitch(p) \/ HaltSwitchCrashes(p) \/ EndHaltSwitch(p)
  \/ HaltProto(p) \/ EndHaltProto(p)
  \/ CloseAndDie(p)

(* What clients, the user of the shell and the system make it do.          *)
Respond(p) ==
  \/ Start(p)
  \/ Accept(p) \/ AcceptFails(p) \/ HandlerLeavesLoop(p) \/ HandlerDies(p)
  \/ QuitSignal(p) \/ Crash(p)
  \/ Usr1(p) \/ Term(p) \/ Interrupt(p)

Next == \E p \in Pids : Proceed(p) \/ Respond(p)

Spec == Init /\ [][Next]_vars

(* The scheduler runs every process that can go on; nobody has to connect, *)
(* to type quit or to fail.                                                *)
FairSpec == Spec /\ \A p \in Pids : WF_vars(Proceed(p))

-----------------------------------------------------------------------------
Modules ==
  ({"comm"} \X Comms) \cup ({"cli"} \X Clis) \cup ({"switch"} \X (0..(NSwitch - 1)))
    \cup ({"protocol"} \X (0..(NProto - 1)))

(* Every variable has its type, only living processes hold the port, and   *)
(* only registered modules are ever halted (main.c:224-244).               *)
TypeOK ==
  /\ code \in [Pids -> {"none", "dead"} \cup MainCodes \cup SockCodes \cup ShellCodes]
  /\ parent \in [Pids -> Pids \cup {Outside}]
  /\ group \in [Pids -> Pids \cup {0}]
  /\ loop \in [Pids -> Nat]
  /\ exit_main \in [Pids -> BOOLEAN]
  /\ ch_comm \in [Pids -> [Comms -> Pids \cup {0, -1}]]
  /\ ch_cli \in [Pids -> [Clis -> Pids \cup {0, -1}]]
  /\ listening \subseteq Alive
  /\ halted \in [Pids -> SUBSET Modules]
  /\ conns \in Nat

(* The parent that a shell signals on quit (lib_cli_comm.c:55) is a process *)
(* in main()'s own code past its start loop for sockets, or is gone: quit   *)
(* never goes to a listener or to a client's handler, where exit_main would *)
(* be set and never read.                                                   *)
QuitReachesMain ==
  \A p \in Pids :
    code[p] \in ShellCodes =>
      parent[p] = Outside \/ code[parent[p]] \in MainCodes \ {"start_comm"}

(* What a stored ch_id of p stands for, once its start function was called.*)
ChildOf(p, ch) ==
  \/ ch = -1 /\ ForkCanFail
  \/ ch \in Pids /\ (parent[ch] = p \/ code[ch] = "dead")

(* A kill by p stays within its own start of the program, or a fork failed.*)
OwnGroup(p, ch) ==
  \/ ch = -1 /\ ForkCanFail
  \/ \A q \in Killed(p, ch) : group[q] = group[p]

(* Whom exit_handler kills (lib_sock_comm.c:98, lib_cli_comm.c:119): the   *)
(* process the operator started kills its own children, in both loops; any *)
(* other main program does so in the loop over command lines.  Such a one  *)
(* was a listener, and what it kills in the loop over sockets may be its   *)
(* whole group, since the ch_id of the module that forked it is still the  *)
(* child's 0: itself, the first process and its shell with it, but nobody  *)
(* of another start.  Everybody is killed only after a fork has failed.    *)
KillTargets ==
  \A p \in Pids :
    /\ code[p] = "halt_comm" /\ loop[p] < NComm =>
         /\ p \in Roots => ChildOf(p, ch_comm[p][loop[p]])
         /\ OwnGroup(p, ch_comm[p][loop[p]])
    /\ code[p] = "halt_cli" /\ loop[p] < NCli =>
         ChildOf(p, ch_cli[p][loop[p]])

(* All processes that hold the port belong to one start of the program:    *)
(* one that was started while an earlier one or its handlers still live    *)
(* gets no listener of its own (lib_sock_comm.c:52).                       *)
OnePortOwner == \A p, q \in listening : group[p] = group[q]

(* The inductive invariant behind these, in named parts.                   *)

(* What is not a process yet is nobody's parent, group or child, and has   *)
(* the memory of a program that starts.                                    *)
UnusedBlank ==
  \A q \in Unused :
    /\ group[q] = 0 /\ loop[q] = 0
    /\ \A i \in Comms : ch_comm[q][i] = 0
    /\ \A i \in Clis : ch_cli[q][i] = 0
    /\ \A p \in Pids :
         /\ parent[p] # q /\ group[p] # q
         /\ \A i \in Comms : ch_comm[p][i] # q
         /\ \A i \in Clis : ch_cli[p][i] # q

RootsAreMain == \A p \in Roots : code[p] \in MainCodes \cup {"dead"}

(* The socket modules a root has started, and the command line modules any *)
(* process has: all of them behind the start loop, none before it.         *)
CommIds ==
  \A p \in Roots, i \in Comms :
    code[p] \in MainCodes /\ (code[p] = "start_comm" => i < loop[p])
      => ChildOf(p, ch_comm[p][i])

CliIds ==
  \A p \in Pids, i \in Clis :
    /\ code[p] \in SockCodes \cup {"start_comm"} => ch_cli[p][i] = 0
    /\ code[p] \in MainCodes \ {"start_comm"} /\ (code[p] = "start_cli" => i < loop[p])
         => ChildOf(p, ch_cli[p][i])

(* A ch_id of a socket module is a process of the same start, or a fork    *)
(* failed.                                                                 *)
StoredIds ==
  \A p \in Pids, i \in Comms :
    /\ ch_comm[p][i] = -1 => ForkCanFail
    /\ ch_comm[p][i] \in Pids => group[ch_comm[p][i]] = group[p]

(* Who accepts or serves has the socket, from bind or by fork.             *)
ServersHoldPort == \A p \in Pids : code[p] \in {"accept", "handle"} => p \in listening

(* No loop takes its variable past its end; the loops inside the one over  *)
(* command lines leave it at proto_cnt, and that loop adds 1 to it         *)
(* (main.c:231-246).                                                       *)
LoopsInRange ==
  \A p \in Pids :
    /\ code[p] \in SockCodes => loop[p] < NComm
    /\ code[p] \in {"start_comm", "halt_comm"} => loop[p] <= NComm
    /\ code[p] = "start_cli" => loop[p] <= NCli
    /\ code[p] = "halt_cli" => loop[p] \in {0, NProto + 1}
    /\ code[p] = "halt_sw" => loop[p] <= NSwitch
    /\ code[p] = "halt_proto" => loop[p] <= NProto

IInv ==
  /\ TypeOK
  /\ QuitReachesMain
  /\ OnePortOwner
  /\ UnusedBlank
  /\ RootsAreMain
  /\ CommIds
  /\ CliIds
  /\ StoredIds
  /\ ServersHoldPort

(* The end of the first process, as SwShutdown demands it: its modules are *)
(* halted once each, communications first, then command lines, switches    *)
(* and protocols (main.c:224-244), and it dies only when all are.          *)
ClassRank(class) ==
  IF class = "comm" THEN 1 ELSE IF class = "cli" THEN 2 ELSE IF class = "switch" THEN 3 ELSE 4

Shutdown ==
  INSTANCE SwShutdown WITH
    Mods  <- Modules,
    Rank  <- [m \in Modules |-> ClassRank(m[1])],
    alive <- code[1] # "dead",
    done  <- halted[1]

ShutsDownInOrder == Shutdown!SSpec

(* What is halted at each place of exit_handler.                           *)
First(class, n) == {class} \X (0..(n - 1))

HaltedAt(p) ==
  CASE code[p] = "halt_comm"  -> First("comm", loop[p])
    [] code[p] = "halt_cli"   -> IF loop[p] = 0 THEN First("comm", NComm) ELSE Modules
    [] code[p] = "halt_sw"    -> First("comm", NComm) \cup First("cli", NCli)
                                   \cup First("switch", loop[p])
    [] code[p] = "halt_proto" -> First("comm", NComm) \cup First("cli", NCli)
                                   \cup First("switch", NSwitch) \cup First("protocol", loop[p])
    [] code[p] = "close"      -> Modules
    [] OTHER                  -> {}

HaltedInPlace == NCli = 1 => \A p \in Pids : code[p] # "dead" => halted[p] = HaltedAt(p)

(* Whatever fails, whoever kills it half way and however it became a main  *)
(* program: with one command line a process halts no module twice and none *)
(* before those of the classes before it, and comes to the end of          *)
(* exit_handler only when all are halted (main.c:224-247).                 *)
HaltsInOrder ==
  [][NCli = 1 =>
       \A p \in Pids :
         /\ code[p] = "close" => halted[p] = Modules
         /\ \/ UNCHANGED halted[p]
            \/ \E m \in Modules \ halted[p] :
                 /\ halted'[p] = halted[p] \cup {m}
                 /\ \A n \in Modules : ClassRank(n[1]) < ClassRank(m[1]) => n \in halted[p]]_vars

(* When the loop over command lines is over, whoever is left of a program  *)
(* that started once holds its port: what main() forked itself is dead, and*)
(* there is no other main program, no child about to bind and no shell at  *)
(* the terminal (lib_sock_comm.c:98, lib_cli_comm.c:119).  Who is left     *)
(* serves a client or, once its recv has failed, accepts new ones on the   *)
(* socket it inherited and forks more of its kind (lib_sock_comm.c:63, :69,*)
(* :73, :85).                                                              *)
OnlyServersRemain ==
  \A p \in Roots :
    code[p] \in {"halt_sw", "halt_proto", "close", "dead"} =>
      \A q \in Alive \ {p} :
        group[q] = p => parent[q] # p /\ code[q] \in {"accept", "handle"} /\ q \in listening

(* What is left of main() and exit_handler: the loops still to come, with  *)
(* the one over command lines before and after its inner loops, and the    *)
(* turns of the present one.                                               *)
LoopsLeft(p) ==
  CASE code[p] = "start_comm" -> 9
    [] code[p] = "start_cli"  -> 8
    [] code[p] = "wait"       -> 7
    [] code[p] = "halt_comm"  -> 6
    [] code[p] = "halt_cli"   -> IF loop[p] < NCli THEN 5 ELSE 2
    [] code[p] = "halt_sw"    -> 4
    [] code[p] = "halt_proto" -> 3
    [] code[p] = "close"      -> 1
    [] OTHER                  -> 0

TurnsLeft(p) ==
  CASE code[p] \in {"start_comm", "halt_comm"} -> NComm - loop[p]
    [] code[p] = "start_cli"                   -> NCli - loop[p]
    [] code[p] = "halt_sw"                     -> NSwitch - loop[p]
    [] code[p] = "halt_proto"                  -> NProto - loop[p]
    [] OTHER                                   -> 0

MainLeft(p) == <<LoopsLeft(p), TurnsLeft(p)>>

(* main() only ever goes forward, to its end: no process, signal or fault  *)
(* takes it back or round a loop again, although the loops over switches   *)
(* and protocols use the variable of the loop they are in (main.c:231-246),*)
(* as long as there are at most proto_cnt + 1 command lines.               *)
MainForward ==
  [][NCli <= NProto + 1 =>
       \A p \in Pids : code[p] \in MainCodes =>
         UNCHANGED <<code[p], loop[p]>> \/ Lower(2, MainLeft(p)', MainLeft(p))]_vars

(* A main program that has seen SIGUSR1 ends, whatever it was doing.       *)
QuitEnds ==
  \A p \in Pids : (code[p] \in MainCodes /\ exit_main[p]) ~> (code[p] = "dead")

(* After quit a program comes down to its servers, and for good: they may  *)
(* accept clients and multiply as long as the port is theirs, but as long  *)
(* as accept does not fail none of them becomes a main program or starts a *)
(* shell that reads the terminal.                                          *)
QuitClears ==
  \A p \in Pids :
    (p \in Roots /\ exit_main[p]) ~>
      [](/\ code[p] = "dead"
         /\ \A q \in Alive : group[q] = p => code[q] \in {"handle", "accept"} /\ q \in listening)

(* "Halt the messaging side first" (main.c:224): while the switches and    *)
(* protocols are halted, no process serves messages any more.              *)
MessagingHaltedFirst ==
  \A p \in Roots :
    code[p] \in {"halt_sw", "halt_proto"} =>
      ~\E q \in Alive : group[q] = p /\ code[q] \in {"accept", "handle"}

(* "halt all subsystems" (main.c:196): a program that ended has halted     *)
(* every module it registered.                                             *)
AllSubsystemsHalted == \A p \in Roots : code[p] = "dead" => halted[p] = Modules

============================================================================
