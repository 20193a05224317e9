------------------------- MODULE SwShutdown_proofs -------------------------
(***************************************************************************)
(* SwLifecycle implements SwShutdown: one start of the program, with the   *)
(* socket module and the shell of the repository, and any number of        *)
(* switches, protocols, clients and processes, also if forks fail and      *)
(* handlers and shells crash, halts its modules in order and leaves only   *)
(* processes that accept and serve clients on the port it had.             *)
(***************************************************************************)
EXTENDS SwLifecycle_proofs, FiniteSetTheorems

(* What the theorem is about.                                              *)
OneStart ==
  /\ 1 \in Pids
  /\ NComm = 1 /\ NCli = 1 /\ MaxStarts = 1
  /\ HasHalt = 0..(NSwitch - 1)
  /\ Faults \subseteq {"fork", "crash"}

-----------------------------------------------------------------------------
(* The first process is the only main program, there is one listener that  *)
(* binds, and it finds the port free.                                      *)
Alone ==
  /\ parent[1] = Outside
  /\ code[1] # "none" => group[1] = 1
  /\ code[1] = "none" \/ (code[1] = "start_comm" /\ loop[1] = 0) =>
       listening = {} /\ \A p \in Pids \ {1} : code[p] = "none"
  /\ \A p \in Pids \ {1} : code[p] \notin MainCodes /\ group[p] # p
  /\ \A p \in Pids : code[p] = "bind" =>
       listening = {} /\ \A q \in Pids : code[q] = "bind" => q = p

(* What is halted at each place in exit_handler.                           *)
HaltedSoFar ==
  /\ code[1] \in {"none", "start_comm", "start_cli", "wait"} => halted[1] = {}
  /\ code[1] = "halt_comm" => loop[1] <= 1 /\ halted[1] = First("comm", loop[1])
  /\ code[1] = "halt_cli" => halted[1] = IF loop[1] = 0 THEN First("comm", 1) ELSE Modules
  /\ code[1] = "halt_sw" =>
       /\ loop[1] <= NSwitch
       /\ halted[1] = First("comm", 1) \cup First("cli", 1) \cup First("switch", loop[1])
  /\ code[1] = "halt_proto" =>
       /\ loop[1] <= NProto
       /\ halted[1] = First("comm", 1) \cup First("cli", 1) \cup First("switch", NSwitch)
                        \cup First("protocol", loop[1])
  /\ code[1] \in {"close", "dead"} => halted[1] = Modules

SInv == IInv /\ Alone /\ HaltedSoFar

-----------------------------------------------------------------------------
(* Types of the first process's variables, and the codes it can run.       *)
LEMMA FirstProcess ==
  ASSUME OneStart, SInv
  PROVE  /\ code \in [Pids -> {"none", "dead"} \cup MainCodes \cup SockCodes \cup ShellCodes]
         /\ loop \in [Pids -> Nat] /\ halted \in [Pids -> SUBSET Modules]
         /\ code[1] \in MainCodes \cup {"none", "dead"}
         /\ 1 \in Pids /\ Outside \notin Pids
<1>1. 1 \in Pids /\ Outside \notin Pids
  BY DEF OneStart, Outside, Pids
<1>2. TypeOK /\ RootsAreMain /\ Alone
  BY DEF SInv, IInv
<1>3. code[1] \in MainCodes \cup {"none", "dead"}
  BY <1>1, <1>2 DEF RootsAreMain, Alone, Roots
<1> QED BY <1>1, <1>2, <1>3 DEF TypeOK

(* The operator starts the first process, and once.                        *)
LEMMA StartsFirst ==
  ASSUME OneStart, SInv, NEW p \in Pids, Start(p)
  PROVE  p = 1 /\ code[1] = "none"
<1>1. Cardinality(Roots) < 1 /\ p \in NextPid
  BY DEF Start, OneStart
<1>2. IsFiniteSet(Roots)
  <2>1. IsFiniteSet(1..MaxPid)
    BY FS_Interval, CountsAssumption
  <2> QED BY <2>1, FS_Subset DEF Roots, Pids
<1>3. Cardinality(Roots) = 0
  BY <1>1, <1>2, FS_CardinalityType
<1>4. Roots = {}
  BY <1>2, <1>3, FS_EmptySet
<1>5. code[1] = "none"
  BY <1>4, FirstProcess DEF SInv, Alone, Roots
<1>6. 1 \in Unused /\ p \in Unused /\ p <= 1
  BY <1>1, <1>5, FirstProcess DEF Unused, NextPid
<1> QED BY <1>5, <1>6 DEF Pids

(* What process 1 does, and what the others do.                            *)
MainStep ==
  \/ Start(1)
  \/ sock_comm_start(1) \/ sock_comm_start_fails(1) \/ EndStartComm(1)
  \/ cli_comm_start(1) \/ cli_comm_start_fails(1) \/ EndStartCli(1)
  \/ BeginHalt(1) \/ HaltComm(1) \/ EndHaltComm(1)
  \/ HaltCli(1) \/ EndHaltCli(1)
  \/ HaltSwitch(1) \/ EndHaltSwitch(1) \/ HaltProto(1) \/ EndHaltProto(1)
  \/ CloseAndDie(1)

ChildStep(p) ==
  \/ Bind(p) \/ Accept(p) \/ HandlerLeavesLoop(p) \/ HandlerDies(p)
  \/ QuitSignal(p) \/ QuitDie(p) \/ Crash(p)

LEMMA Steps ==
  ASSUME OneStart, SInv, Next
  PROVE  MainStep \/ \E p \in Pids \ {1} : ChildStep(p)
<1>1. PICK p \in Pids : Proceed(p) \/ Respond(p)
  BY DEF Next
<1>2. /\ "socket" \notin Faults /\ "accept" \notin Faults /\ "signal" \notin Faults
      /\ HasHalt = 0..(NSwitch - 1)
  BY DEF OneStart
<1>3. ~AcceptFails(p) /\ ~Usr1(p) /\ ~Term(p) /\ ~Interrupt(p)
  BY <1>2 DEF AcceptFails, Usr1, Term, Interrupt
<1>4. ~BindFails(p)
  BY <1>2 DEF BindFails, SInv, Alone
<1>5. ~HaltSwitchCrashes(p)
  <2>1. loop[p] \in Nat /\ NSwitch \in Nat
    BY FirstProcess, CountsAssumption
  <2> QED BY <1>2, <2>1 DEF HaltSwitchCrashes
<1>6. CASE Start(p)
  BY <1>6, StartsFirst DEF MainStep
<1>7. CASE ~Start(p) /\ p = 1
  <2>1. code[1] \notin SockCodes \cup ShellCodes
    BY FirstProcess DEF MainCodes, SockCodes, ShellCodes
  <2>2. ~ChildStep(1)
    BY <2>1 DEF ChildStep, Bind, Accept, HandlerLeavesLoop, HandlerDies, QuitSignal, QuitDie, Crash,
                SockCodes, ShellCodes
  <2> QED BY <1>1, <1>3, <1>4, <1>5, <1>7, <2>2 DEF Proceed, Respond, MainStep, ChildStep
<1>8. CASE ~Start(p) /\ p # 1
  <2>1. code[p] \notin MainCodes
    BY <1>8 DEF SInv, Alone
  <2>2. /\ ~sock_comm_start(p) /\ ~sock_comm_start_fails(p) /\ ~EndStartComm(p)
        /\ ~cli_comm_start(p) /\ ~cli_comm_start_fails(p) /\ ~EndStartCli(p)
        /\ ~BeginHalt(p) /\ ~HaltComm(p) /\ ~EndHaltComm(p) /\ ~HaltCli(p) /\ ~EndHaltCli(p)
        /\ ~HaltSwitch(p) /\ ~EndHaltSwitch(p) /\ ~HaltProto(p) /\ ~EndHaltProto(p)
        /\ ~CloseAndDie(p)
    BY <2>1 DEF MainCodes, sock_comm_start, sock_comm_start_fails, EndStartComm, cli_comm_start,
                cli_comm_start_fails, EndStartCli, BeginHalt, HaltComm, EndHaltComm, HaltCli,
                EndHaltCli, HaltSwitch, EndHaltSwitch, HaltProto, EndHaltProto, CloseAndDie
  <2>3. ChildStep(p)
    BY <1>1, <1>3, <1>4, <1>5, <1>8, <2>2 DEF Proceed, Respond, ChildStep
  <2> QED BY <1>8, <2>3
<1> QED BY <1>6, <1>7, <1>8

-----------------------------------------------------------------------------
(* A process that is forked is a new one, and none of the first.           *)
LEMMA NewProcess ==
  ASSUME OneStart, SInv, NEW p \in Pids, code[p] \notin {"none", "dead"}, NEW c \in NextPid,
         NEW does, Fork(p, c, does)
  PROVE  /\ c \in Pids \ {1} /\ c # p /\ code[c] = "none"
         /\ code' = [code EXCEPT ![c] = does]
         /\ parent'[1] = parent[1] /\ group'[1] = group[1]
         /\ \A q \in Pids : q # c => group'[q] = group[q]
         /\ group'[c] # c
         /\ halted' = halted
         /\ listening = {} => listening' = {}
<1>1. c \in Pids /\ code[c] = "none" /\ c # p /\ c \in Unused
  BY DEF NextPid, Unused
<1>2. c # 1
  BY <1>1, FirstProcess DEF SInv, Alone
<1>3. group[p] # c /\ group \in [Pids -> Pids \cup {0}] /\ parent \in [Pids -> Pids \cup {Outside}]
  BY <1>1 DEF SInv, IInv, UnusedBlank, TypeOK
<1>4. 1 \in Pids /\ listening \subseteq Alive
  BY FirstProcess DEF SInv, IInv, TypeOK
<1>5. listening = {} => listening' = {}
  BY DEF Fork
<1> QED BY <1>1, <1>2, <1>3, <1>4, <1>5 DEF Fork

(* Processes end that are none but the first at its own end.               *)
LEMMA EndAlone ==
  ASSUME OneStart, SInv, NEW dying \in SUBSET Pids, NEW next, End(dying, next),
         \A q \in Pids \ {1} : next[q] = code[q],
         next[1] \notin {"none", "start_comm"}, code[1] # "none",
         next[1] \in MainCodes, UNCHANGED group
  PROVE  Alone'
<1>1. /\ code' = [q \in Pids |-> IF q \in dying THEN "dead" ELSE next[q]]
      /\ parent' = [q \in Pids |-> IF parent[q] \in dying THEN Outside ELSE parent[q]]
      /\ listening' = listening \ dying /\ group' = group /\ 1 \in Pids
  BY FirstProcess DEF End
<1>2. parent'[1] = Outside
  BY <1>1 DEF SInv, Alone
<1>3. code'[1] # "none" /\ code'[1] # "start_comm" /\ code'[1] # "bind"
  BY <1>1 DEF MainCodes
<1>4. \A q \in Pids \ {1} : code'[q] \notin MainCodes /\ group[q] # q
  BY <1>1 DEF SInv, Alone, MainCodes
<1>5. \A q \in Pids : code'[q] = "bind" => code[q] = "bind"
  BY <1>1, <1>3
<1> QED BY <1>1, <1>2, <1>3, <1>4, <1>5 DEF SInv, Alone

(* What a child does leaves the first process alone.                       *)
LEMMA ChildAlone ==
  ASSUME OneStart, SInv, NEW p \in Pids \ {1}, ChildStep(p)
  PROVE  Alone' /\ code'[1] = code[1] /\ loop'[1] = loop[1] /\ halted' = halted
<1>1. p \in Pids /\ p # 1 /\ code[p] \in SockCodes \cup ShellCodes
  BY DEF ChildStep, Bind, Accept, HandlerLeavesLoop, HandlerDies, QuitSignal, QuitDie, Crash,
         SockCodes, ShellCodes
<1>2. code[p] \notin {"none", "dead"}
  BY <1>1 DEF SockCodes, ShellCodes
<1>3. code[1] # "none" /\ ~(code[1] = "start_comm" /\ loop[1] = 0) /\ group[1] = 1
  BY <1>1, <1>2 DEF SInv, Alone
<1>4. CASE Bind(p)
  <2>1. /\ code' = [code EXCEPT ![p] = "accept"] /\ code[p] = "bind"
        /\ UNCHANGED <<parent, group, loop, halted>>
    BY <1>4 DEF Bind, Goto
  <2>2. \A q \in Pids : code'[q] # "bind"
    BY <2>1, FirstProcess DEF SInv, Alone
  <2>3. \A q \in Pids \ {1} : code'[q] \notin MainCodes
    BY <2>1, FirstProcess DEF SInv, Alone, MainCodes
  <2> QED BY <1>1, <1>3, <2>1, <2>2, <2>3, FirstProcess DEF SInv, Alone
<1>5. CASE Accept(p)
  <2>1. PICK c \in NextPid :
          Fork(p, c, "handle") /\ loop' = [loop EXCEPT ![c] = loop[p]]
    BY <1>5 DEF Accept
  <2>2. /\ c \in Pids \ {1} /\ code' = [code EXCEPT ![c] = "handle"]
        /\ parent'[1] = parent[1] /\ group'[1] = group[1]
        /\ \A q \in Pids : q # c => group'[q] = group[q]
        /\ group'[c] # c /\ halted' = halted
        /\ listening = {} => listening' = {}
    BY <1>1, <1>2, <2>1, NewProcess
  <2>3. code'[1] = code[1] /\ loop'[1] = loop[1]
    BY <2>1, <2>2, FirstProcess
  <2>4. \A q \in Pids \ {1} : code'[q] \notin MainCodes /\ group'[q] # q
    BY <2>2, FirstProcess DEF SInv, Alone, MainCodes
  <2>5. \A q \in Pids : code'[q] = "bind" => code[q] = "bind"
    BY <2>2, FirstProcess
  <2> QED BY <1>3, <2>2, <2>3, <2>4, <2>5 DEF SInv, Alone
<1>6. CASE HandlerLeavesLoop(p) \/ QuitSignal(p)
  <2>1. PICK c \in {"accept", "quit"} : code' = [code EXCEPT ![p] = c]
    BY <1>6 DEF HandlerLeavesLoop, QuitSignal, Goto
  <2>2. UNCHANGED <<parent, group, loop, listening, halted>>
    BY <1>6 DEF HandlerLeavesLoop, QuitSignal
  <2>3. \A q \in Pids \ {1} : code'[q] \notin MainCodes
    BY <2>1, FirstProcess DEF SInv, Alone, MainCodes
  <2>4. \A q \in Pids : code'[q] = "bind" => code[q] = "bind"
    BY <2>1, FirstProcess
  <2> QED BY <1>1, <1>3, <2>1, <2>2, <2>3, <2>4, FirstProcess DEF SInv, Alone
<1>7. CASE HandlerDies(p) \/ QuitDie(p) \/ Crash(p)
  <2>1. End({p}, code) /\ UNCHANGED <<group, loop, halted>>
    BY <1>7 DEF HandlerDies, QuitDie, Crash
  <2>2. /\ code' = [q \in Pids |-> IF q = p THEN "dead" ELSE code[q]]
        /\ parent' = [q \in Pids |-> IF parent[q] = p THEN Outside ELSE parent[q]]
        /\ listening' = listening \ {p}
    BY <2>1 DEF End
  <2>3. \A q \in Pids \ {1} : code'[q] \notin MainCodes
    BY <2>2 DEF SInv, Alone, MainCodes
  <2>4. \A q \in Pids : code'[q] = "bind" => code[q] = "bind"
    BY <2>2
  <2>5. code'[1] = code[1] /\ parent'[1] = Outside
    BY <1>1, <2>2, FirstProcess DEF SInv, Alone
  <2> QED BY <1>1, <1>3, <2>1, <2>2, <2>3, <2>4, <2>5, FirstProcess DEF SInv, Alone
<1> QED BY <1>4, <1>5, <1>6, <1>7 DEF ChildStep

-----------------------------------------------------------------------------
(* The first process goes on in its own code.                              *)
LEMMA MoveAlone ==
  ASSUME OneStart, SInv, code[1] # "none", NEW c \in MainCodes, code' = [code EXCEPT ![1] = c],
         c = "start_comm" => loop'[1] # 0, UNCHANGED <<parent, group, listening>>
  PROVE  Alone'
<1>1. code'[1] = c /\ c # "none" /\ c # "bind" /\ \A q \in Pids \ {1} : code'[q] = code[q]
  BY FirstProcess DEF MainCodes
<1> QED BY <1>1 DEF SInv, Alone

(* The children of the first process.                                      *)
LEMMA ForkAlone ==
  ASSUME OneStart, SInv, NEW c \in NextPid, NEW does \in {"bind", "shell"}, Fork(1, c, does),
         code[1] \in {"start_comm", "start_cli"},
         code[1] = "start_comm" => loop'[1] # 0,
         does = "bind" => code[1] = "start_comm" /\ loop[1] = 0
  PROVE  Alone' /\ code'[1] = code[1] /\ halted' = halted
<1>1. /\ c \in Pids \ {1} /\ code' = [code EXCEPT ![c] = does]
      /\ parent'[1] = parent[1] /\ group'[1] = group[1]
      /\ \A q \in Pids : q # c => group'[q] = group[q]
      /\ group'[c] # c /\ halted' = halted
      /\ listening = {} => listening' = {}
  BY NewProcess, FirstProcess
<1>2. code'[1] = code[1] /\ code'[c] = does /\ \A q \in Pids \ {c} : code'[q] = code[q]
  BY <1>1, FirstProcess
<1>3. \A q \in Pids \ {1} : code'[q] \notin MainCodes /\ group'[q] # q
  BY <1>1, <1>2 DEF SInv, Alone, MainCodes
<1>4. \A q \in Pids : code'[q] = "bind" =>
         listening' = {} /\ \A r \in Pids : code'[r] = "bind" => r = q
  <2>1. CASE does = "bind"
    <3>1. listening = {} /\ \A q \in Pids \ {1} : code[q] = "none"
      BY <2>1 DEF SInv, Alone
    <3>2. \A q \in Pids : code'[q] = "bind" => q = c
      BY <1>2, <3>1, <2>1
    <3> QED BY <1>1, <3>1, <3>2
  <2>2. CASE does = "shell"
    <3>1. \A q \in Pids : code'[q] = "bind" => code[q] = "bind"
      BY <1>2, <2>2
    <3> QED BY <1>1, <3>1 DEF SInv, Alone
  <2> QED BY <2>1, <2>2
<1> QED BY <1>1, <1>2, <1>3, <1>4 DEF SInv, Alone

(* exit_handler does not kill its own process.                             *)
LEMMA NotKilled ==
  ASSUME OneStart, SInv
  PROVE  /\ HaltComm(1) => 1 \notin Killed(1, ch_comm[1][loop[1]])
         /\ HaltCli(1) => 1 \notin Killed(1, ch_cli[1][loop[1]])
<1>1. ASSUME NEW ch, ChildOf(1, ch), code[1] # "dead"
      PROVE  1 \notin Killed(1, ch)
  <2>1. ch = -1 \/ (ch \in Pids /\ ch # 0)
    BY <1>1, FirstProcess DEF ChildOf, Outside
  <2>2. ch \in Pids /\ ch = 1 => FALSE
    BY <1>1, FirstProcess DEF ChildOf, SInv, Alone
  <2> QED BY <2>1, <2>2 DEF Killed
<1>2. loop[1] \in Nat /\ 1 \in Pids /\ NComm = 1 /\ NCli = 1
  BY FirstProcess DEF OneStart
<1>3. ASSUME HaltComm(1) PROVE 1 \notin Killed(1, ch_comm[1][loop[1]])
  <2>1. code[1] = "halt_comm" /\ loop[1] \in Comms
    BY <1>2, <1>3 DEF HaltComm, Comms
  <2>2. 1 \in Roots
    BY <1>2, <2>1 DEF Roots, SInv, Alone
  <2>3. ChildOf(1, ch_comm[1][loop[1]])
    BY <2>1, <2>2 DEF SInv, IInv, CommIds, MainCodes
  <2> QED BY <1>1, <2>1, <2>3
<1>4. ASSUME HaltCli(1) PROVE 1 \notin Killed(1, ch_cli[1][loop[1]])
  <2>1. code[1] = "halt_cli" /\ loop[1] \in Clis
    BY <1>2, <1>4 DEF HaltCli, Clis
  <2>2. ChildOf(1, ch_cli[1][loop[1]])
    BY <1>2, <2>1 DEF SInv, IInv, CliIds, MainCodes
  <2> QED BY <1>1, <2>1, <2>2
<1> QED BY <1>3, <1>4

LEMMA MainAlone ==
  ASSUME OneStart, SInv, MainStep
  PROVE  Alone'
<1>0. /\ code \in [Pids -> {"none", "dead"} \cup MainCodes \cup SockCodes \cup ShellCodes]
      /\ loop \in [Pids -> Nat] /\ 1 \in Pids /\ NComm = 1 /\ NCli = 1
  BY FirstProcess DEF OneStart
<1>1. CASE Start(1)
  <2>1. code[1] = "none" /\ 1 \in Unused
    BY <1>0, <1>1, StartsFirst DEF Unused
  <2>2. loop[1] = 0 /\ listening = {} /\ group \in [Pids -> Pids \cup {0}]
    BY <2>1 DEF SInv, IInv, TypeOK, UnusedBlank, Alone
  <2>3. code' = [code EXCEPT ![1] = "start_comm"] /\ group' = [group EXCEPT ![1] = 1]
        /\ UNCHANGED <<parent, loop, listening>>
    BY <1>1 DEF Start, Goto
  <2>4. /\ code'[1] = "start_comm" /\ group'[1] = 1
        /\ \A q \in Pids \ {1} : code'[q] = code[q] /\ group'[q] = group[q]
    BY <1>0, <2>2, <2>3
  <2> QED BY <2>1, <2>2, <2>3, <2>4 DEF SInv, Alone
<1>2. CASE sock_comm_start(1)
  <2>1. PICK c \in NextPid :
          /\ Fork(1, c, "bind")
          /\ loop' = [loop EXCEPT ![1] = loop[1] + 1, ![c] = loop[1]]
    BY <1>2 DEF sock_comm_start
  <2>2. code[1] = "start_comm" /\ loop[1] = 0
    BY <1>0, <1>2 DEF sock_comm_start
  <2>3. c # 1
    BY <1>0, <2>1, <2>2, NewProcess
  <2>4. loop'[1] # 0
    BY <1>0, <2>1, <2>2, <2>3
  <2> QED BY <2>1, <2>2, <2>4, ForkAlone
<1>3. CASE cli_comm_start(1)
  <2>1. PICK c \in NextPid : Fork(1, c, "shell")
    BY <1>3 DEF cli_comm_start
  <2>2. code[1] = "start_cli"
    BY <1>3 DEF cli_comm_start
  <2> QED BY <2>1, <2>2, ForkAlone
<1>4. CASE sock_comm_start_fails(1) \/ cli_comm_start_fails(1) \/ HaltSwitch(1) \/ HaltProto(1)
  <2>1. code[1] \in MainCodes /\ code' = [code EXCEPT ![1] = code[1]]
        /\ UNCHANGED <<parent, group, listening>>
    BY <1>0, <1>4 DEF sock_comm_start_fails, cli_comm_start_fails, HaltSwitch, HaltProto, MainCodes
  <2>2. loop'[1] = loop[1] + 1 /\ loop[1] \in Nat
    BY <1>0, <1>4 DEF sock_comm_start_fails, cli_comm_start_fails, HaltSwitch, HaltProto
  <2>3. code[1] # "none" /\ loop'[1] # 0
    BY <2>1, <2>2 DEF MainCodes
  <2> QED BY <2>1, <2>3, MoveAlone
<1>5. CASE \/ EndStartComm(1) \/ EndStartCli(1) \/ BeginHalt(1) \/ EndHaltComm(1)
           \/ EndHaltCli(1) \/ EndHaltSwitch(1) \/ EndHaltProto(1)
  <2>1. PICK c \in MainCodes \ {"start_comm"} : code' = [code EXCEPT ![1] = c]
    BY <1>5 DEF EndStartComm, EndStartCli, BeginHalt, EndHaltComm, EndHaltCli, EndHaltSwitch,
                EndHaltProto, Goto, MainCodes
  <2>2. code[1] # "none" /\ UNCHANGED <<parent, group, listening>>
    BY <1>5 DEF EndStartComm, EndStartCli, BeginHalt, EndHaltComm, EndHaltCli, EndHaltSwitch,
                EndHaltProto
  <2> QED BY <2>1, <2>2, MoveAlone
<1>6. CASE HaltComm(1) \/ HaltCli(1) \/ CloseAndDie(1)
  <2>1. code[1] \in {"halt_comm", "halt_cli", "close"} /\ UNCHANGED group
    BY <1>6 DEF HaltComm, HaltCli, CloseAndDie
  <2>2. PICK dying \in SUBSET Pids, next \in {code, [code EXCEPT ![1] = "halt_sw"]} :
          End(dying, next)
    <3>1. \A ch : Killed(1, ch) \in SUBSET Pids
      BY DEF Killed, Alive
    <3>2. {1} \in SUBSET Pids
      BY <1>0
    <3> QED BY <1>6, <3>1, <3>2 DEF HaltComm, HaltCli, CloseAndDie
  <2>3. /\ \A q \in Pids \ {1} : next[q] = code[q]
        /\ next[1] \in MainCodes /\ next[1] \notin {"none", "start_comm"}
    BY <1>0, <2>1 DEF MainCodes
  <2> QED BY <2>1, <2>2, <2>3, EndAlone
<1> QED BY <1>1, <1>2, <1>3, <1>4, <1>5, <1>6 DEF MainStep

-----------------------------------------------------------------------------
(* One more module of a class.                                             *)
LEMMA FirstNext ==
  ASSUME NEW class, NEW n \in Nat
  PROVE  /\ First(class, n + 1) = First(class, n) \cup {<<class, n>>}
         /\ <<class, n>> \notin First(class, n)
         /\ First(class, 0) = {}
<1>1. 0..(n + 1 - 1) = 0..(n - 1) \cup {n} /\ n \notin 0..(n - 1) /\ 0..(0 - 1) = {}
  OBVIOUS
<1> QED BY <1>1 DEF First

(* The modules by their classes, with the ranks of these.                  *)
LEMMA ByClass ==
  ASSUME OneStart
  PROVE  /\ Modules = First("comm", 1) \cup First("cli", 1) \cup First("switch", NSwitch)
                        \cup First("protocol", NProto)
         /\ \A n : /\ \A m \in First("comm", n) : m[1] = "comm" /\ ClassRank(m[1]) = 1
                   /\ \A m \in First("cli", n) : m[1] = "cli" /\ ClassRank(m[1]) = 2
                   /\ \A m \in First("switch", n) : m[1] = "switch" /\ ClassRank(m[1]) = 3
                   /\ \A m \in First("protocol", n) : m[1] = "protocol" /\ ClassRank(m[1]) = 4
<1>1. Comms = 0..(1 - 1) /\ Clis = 0..(1 - 1)
  BY DEF OneStart, Comms, Clis
<1>2. Modules = First("comm", 1) \cup First("cli", 1) \cup First("switch", NSwitch)
                  \cup First("protocol", NProto)
  BY <1>1 DEF Modules, First
<1>3. ASSUME NEW class, NEW n, NEW m \in First(class, n)
      PROVE  m[1] = class
  BY <1>3 DEF First
<1>4. /\ ClassRank("comm") = 1 /\ ClassRank("cli") = 2
      /\ ClassRank("switch") = 3 /\ ClassRank("protocol") = 4
  BY DEF ClassRank
<1> QED BY <1>2, <1>3, <1>4

(* A step of SwShutdown, or none.                                          *)
Refines == Shutdown!SNext \/ UNCHANGED Shutdown!svars

(* One module is halted in its turn.                                       *)
LEMMA HaltRefines ==
  ASSUME NEW m \in Modules, code[1] # "dead", code'[1] # "dead",
         m \notin halted[1], halted'[1] = halted[1] \cup {m},
         \A n \in Modules : ClassRank(n[1]) < ClassRank(m[1]) => n \in halted[1]
  PROVE  Refines
<1>1. (code'[1] # "dead") = (code[1] # "dead")
  OBVIOUS
<1>2. Shutdown!Halt(m)
  BY <1>1 DEF Shutdown!Halt
<1> QED BY <1>2 DEF Refines, Shutdown!SNext

(* Nothing is halted, and the process goes on.                             *)
LEMMA StutterRefines ==
  ASSUME halted'[1] = halted[1], code'[1] = "dead" <=> code[1] = "dead"
  PROVE  Refines
<1>1. (code'[1] # "dead") = (code[1] # "dead")
  OBVIOUS
<1> QED BY <1>1 DEF Refines, Shutdown!svars

(* Before exit_handler, and between its loops.                             *)
LEMMA QuietHalted ==
  ASSUME OneStart, SInv,
         \/ Start(1)
         \/ sock_comm_start(1) \/ sock_comm_start_fails(1) \/ EndStartComm(1)
         \/ cli_comm_start(1) \/ cli_comm_start_fails(1) \/ EndStartCli(1)
         \/ BeginHalt(1) \/ EndHaltComm(1)
         \/ EndHaltCli(1) \/ EndHaltSwitch(1) \/ EndHaltProto(1)
  PROVE  HaltedSoFar' /\ Refines
<1>0. /\ code \in [Pids -> {"none", "dead"} \cup MainCodes \cup SockCodes \cup ShellCodes]
      /\ loop \in [Pids -> Nat] /\ 1 \in Pids /\ NComm = 1 /\ NCli = 1 /\ HaltedSoFar
      /\ NSwitch \in Nat /\ NProto \in Nat
  BY FirstProcess, CountsAssumption DEF OneStart, SInv
<1>1. CASE Start(1)
  <2>1. code[1] = "none" /\ code'[1] = "start_comm" /\ halted' = halted
    BY <1>0, <1>1, StartsFirst DEF Start, Goto
  <2> QED BY <1>0, <2>1, StutterRefines DEF HaltedSoFar
<1>2. CASE sock_comm_start(1) \/ cli_comm_start(1)
  <2>1. code[1] \in {"start_comm", "start_cli"} /\ code[1] \notin {"none", "dead"}
    BY <1>2 DEF sock_comm_start, cli_comm_start
  <2>2. PICK c \in NextPid : Fork(1, c, "bind") \/ Fork(1, c, "shell")
    BY <1>2 DEF sock_comm_start, cli_comm_start
  <2>3. code'[1] = code[1] /\ halted' = halted
    BY <1>0, <2>1, <2>2, NewProcess
  <2> QED BY <1>0, <2>1, <2>3, StutterRefines DEF HaltedSoFar
<1>3. CASE sock_comm_start_fails(1) \/ cli_comm_start_fails(1) \/ EndStartComm(1) \/ EndStartCli(1)
  <2>1. /\ code[1] \in {"start_comm", "start_cli"} /\ halted' = halted
        /\ code'[1] \in {"start_comm", "start_cli", "wait"}
    BY <1>0, <1>3 DEF sock_comm_start_fails, cli_comm_start_fails, EndStartComm, EndStartCli, Goto
  <2> QED BY <1>0, <2>1, StutterRefines DEF HaltedSoFar
<1>4. CASE BeginHalt(1)
  <2>1. code[1] = "wait" /\ code'[1] = "halt_comm" /\ loop'[1] = 0 /\ halted' = halted
    BY <1>0, <1>4 DEF BeginHalt, Goto
  <2>2. First("comm", 0) = {}
    BY FirstNext
  <2> QED BY <1>0, <2>1, <2>2, StutterRefines DEF HaltedSoFar
<1>5. CASE EndHaltComm(1)
  <2>1. /\ code[1] = "halt_comm" /\ loop[1] = 1
        /\ code'[1] = "halt_cli" /\ loop'[1] = 0 /\ halted' = halted
    BY <1>0, <1>5 DEF EndHaltComm, Goto
  <2> QED BY <1>0, <2>1, StutterRefines DEF HaltedSoFar
<1>6. CASE EndHaltCli(1)
  <2>1. code[1] = "halt_cli" /\ loop[1] # 0 /\ code'[1] = "close" /\ halted' = halted
    BY <1>0, <1>6 DEF EndHaltCli, Goto
  <2> QED BY <1>0, <2>1, StutterRefines DEF HaltedSoFar
<1>7. CASE EndHaltSwitch(1)
  <2>1. /\ code[1] = "halt_sw" /\ loop[1] = NSwitch
        /\ code'[1] = "halt_proto" /\ loop'[1] = 0 /\ halted' = halted
    BY <1>0, <1>7 DEF EndHaltSwitch, Goto
  <2>2. First("protocol", 0) = {}
    BY FirstNext
  <2> QED BY <1>0, <2>1, <2>2, StutterRefines DEF HaltedSoFar
<1>8. CASE EndHaltProto(1)
  <2>1. /\ code[1] = "halt_proto" /\ loop[1] = NProto
        /\ code'[1] = "halt_cli" /\ loop'[1] # 0 /\ halted' = halted
    BY <1>0, <1>8 DEF EndHaltProto, Goto
  <2> QED BY <1>0, <2>1, ByClass, StutterRefines DEF HaltedSoFar
<1> QED BY <1>1, <1>2, <1>3, <1>4, <1>5, <1>6, <1>7, <1>8

(* Each halt is of a module whose turn it is.                              *)
LEMMA HaltHalted ==
  ASSUME OneStart, SInv, HaltComm(1) \/ HaltCli(1) \/ HaltSwitch(1) \/ HaltProto(1)
  PROVE  HaltedSoFar' /\ Refines
<1>0. /\ code \in [Pids -> {"none", "dead"} \cup MainCodes \cup SockCodes \cup ShellCodes]
      /\ loop \in [Pids -> Nat] /\ loop[1] \in Nat /\ halted \in [Pids -> SUBSET Modules]
      /\ 1 \in Pids /\ NComm = 1 /\ NCli = 1 /\ HaltedSoFar
      /\ NSwitch \in Nat /\ NProto \in Nat /\ HasHalt = 0..(NSwitch - 1)
  BY FirstProcess, CountsAssumption DEF OneStart, SInv
<1>1. CASE HaltComm(1)
  <2>1. /\ code[1] = "halt_comm" /\ loop[1] = 0 /\ loop'[1] = 1
        /\ halted'[1] = halted[1] \cup {<<"comm", 0>>}
    BY <1>0, <1>1 DEF HaltComm
  <2>2. code'[1] = "halt_comm"
    BY <1>0, <1>1, <2>1, NotKilled DEF HaltComm, End
  <2>3. /\ halted[1] = {} /\ First("comm", 1) = {<<"comm", 0>>}
    <3>1. First("comm", 0 + 1) = First("comm", 0) \cup {<<"comm", 0>>} /\ First("comm", 0) = {}
      BY FirstNext
    <3> QED BY <1>0, <2>1, <3>1 DEF HaltedSoFar
  <2>4. HaltedSoFar'
    BY <2>1, <2>2, <2>3 DEF HaltedSoFar
  <2>5. <<"comm", 0>> \in Modules /\ \A n \in Modules : ~(ClassRank(n[1]) < ClassRank("comm"))
    BY <2>3, ByClass DEF ClassRank
  <2> QED BY <2>1, <2>2, <2>3, <2>4, <2>5, HaltRefines
<1>2. CASE HaltCli(1)
  <2>1. /\ code[1] = "halt_cli" /\ loop[1] = 0 /\ loop'[1] = 0
        /\ halted'[1] = halted[1] \cup {<<"cli", 0>>}
    BY <1>0, <1>2 DEF HaltCli
  <2>2. code'[1] = "halt_sw"
    BY <1>0, <1>2, <2>1, NotKilled DEF HaltCli, End
  <2>3. /\ halted[1] = First("comm", 1) /\ First("cli", 1) = {<<"cli", 0>>}
        /\ First("switch", 0) = {}
    <3>1. First("cli", 0 + 1) = First("cli", 0) \cup {<<"cli", 0>>} /\ First("cli", 0) = {}
      BY FirstNext
    <3>2. First("switch", 0) = {}
      BY FirstNext
    <3> QED BY <1>0, <2>1, <3>1, <3>2 DEF HaltedSoFar
  <2>4. HaltedSoFar'
    BY <1>0, <2>1, <2>2, <2>3 DEF HaltedSoFar
  <2>5. /\ <<"cli", 0>> \in Modules /\ <<"cli", 0>> \notin First("comm", 1)
        /\ ClassRank("cli") = 2
        /\ \A n \in Modules : ClassRank(n[1]) < 2 => n \in First("comm", 1)
    BY <2>3, ByClass DEF ClassRank
  <2> QED BY <2>1, <2>2, <2>3, <2>4, <2>5, HaltRefines
<1>3. CASE HaltSwitch(1)
  <2> DEFINE m == <<"switch", loop[1]>>
  <2>1. /\ code[1] = "halt_sw" /\ code' = code /\ loop[1] < NSwitch /\ loop'[1] = loop[1] + 1
        /\ halted'[1] = halted[1] \cup {m}
    BY <1>0, <1>3 DEF HaltSwitch
  <2>2. /\ First("switch", loop[1] + 1) = First("switch", loop[1]) \cup {m}
        /\ m \notin First("switch", loop[1])
    BY <1>0, FirstNext
  <2>3. halted[1] = First("comm", 1) \cup First("cli", 1) \cup First("switch", loop[1])
    BY <1>0, <2>1 DEF HaltedSoFar
  <2>4. HaltedSoFar'
    BY <1>0, <2>1, <2>2, <2>3 DEF HaltedSoFar
  <2>5. m \in Modules /\ m \in First("switch", NSwitch)
    BY <1>0, <2>1, ByClass DEF First
  <2>6. /\ m \notin First("comm", 1) /\ m \notin First("cli", 1) /\ ClassRank(m[1]) = 3
        /\ \A n \in Modules : ClassRank(n[1]) < 3 => n \in First("comm", 1) \cup First("cli", 1)
    BY <2>5, ByClass
  <2> QED BY <2>1, <2>2, <2>3, <2>4, <2>5, <2>6, HaltRefines
<1>4. CASE HaltProto(1)
  <2> DEFINE m == <<"protocol", loop[1]>>
  <2>1. /\ code[1] = "halt_proto" /\ code' = code /\ loop[1] < NProto /\ loop'[1] = loop[1] + 1
        /\ halted'[1] = halted[1] \cup {m}
    BY <1>0, <1>4 DEF HaltProto
  <2>2. /\ First("protocol", loop[1] + 1) = First("protocol", loop[1]) \cup {m}
        /\ m \notin First("protocol", loop[1])
    BY <1>0, FirstNext
  <2>3. halted[1] = First("comm", 1) \cup First("cli", 1) \cup First("switch", NSwitch)
                      \cup First("protocol", loop[1])
    BY <1>0, <2>1 DEF HaltedSoFar
  <2>4. HaltedSoFar'
    BY <1>0, <2>1, <2>2, <2>3 DEF HaltedSoFar
  <2>5. m \in Modules /\ m \in First("protocol", NProto)
    BY <1>0, <2>1, ByClass DEF First
  <2>6. /\ m \notin First("comm", 1) /\ m \notin First("cli", 1) /\ m \notin First("switch", NSwitch)
        /\ ClassRank(m[1]) = 4
        /\ \A n \in Modules : ClassRank(n[1]) < 4 =>
              n \in First("comm", 1) \cup First("cli", 1) \cup First("switch", NSwitch)
    BY <2>5, ByClass
  <2> QED BY <2>1, <2>2, <2>3, <2>4, <2>5, <2>6, HaltRefines
<1> QED BY <1>1, <1>2, <1>3, <1>4

(* The process kills itself when nothing is left to halt.                  *)
LEMMA DieHalted ==
  ASSUME OneStart, SInv, CloseAndDie(1)
  PROVE  HaltedSoFar' /\ Refines
<1>1. code[1] = "close" /\ code'[1] = "dead" /\ halted' = halted /\ halted[1] = Modules
  BY FirstProcess DEF CloseAndDie, End, SInv, HaltedSoFar
<1>2. Shutdown!Exit
  BY <1>1 DEF Shutdown!Exit
<1> QED BY <1>1, <1>2 DEF HaltedSoFar, Refines, Shutdown!SNext

-----------------------------------------------------------------------------
LEMMA InitSInv == OneStart /\ Init => SInv /\ Shutdown!SInit
<1> SUFFICES ASSUME OneStart, Init PROVE SInv /\ Shutdown!SInit
  OBVIOUS
<1>1. 1 \in Pids /\ code[1] = "none" /\ halted[1] = {} /\ parent[1] = Outside
  BY DEF OneStart, Init
<1>2. Alone
  BY <1>1 DEF Init, Alone, MainCodes, Pids
<1>3. HaltedSoFar
  BY <1>1 DEF HaltedSoFar
<1>4. Shutdown!SInit
  <2>1. (code[1] # "dead") = TRUE
    BY <1>1
  <2> QED BY <1>1, <2>1 DEF Shutdown!SInit
<1> QED BY <1>2, <1>3, <1>4, InitIInv DEF SInv

LEMMA NextSInv ==
  ASSUME OneStart, SInv, [Next]_vars
  PROVE  Alone' /\ HaltedSoFar' /\ Refines
<1>1. CASE UNCHANGED vars
  <2>1. Alone'
    BY <1>1 DEF SInv, Alone, vars
  <2>2. HaltedSoFar'
    BY <1>1 DEF SInv, HaltedSoFar, vars
  <2>3. Refines
    BY <1>1, StutterRefines DEF vars
  <2> QED BY <2>1, <2>2, <2>3
<1>2. CASE MainStep
  <2>1. Alone'
    BY <1>2, MainAlone
  <2>2. HaltedSoFar' /\ Refines
    BY <1>2, QuietHalted, HaltHalted, DieHalted DEF MainStep
  <2> QED BY <2>1, <2>2
<1>3. ASSUME NEW p \in Pids \ {1}, ChildStep(p)
      PROVE  Alone' /\ HaltedSoFar' /\ Refines
  <2>1. Alone' /\ code'[1] = code[1] /\ loop'[1] = loop[1] /\ halted' = halted
    BY <1>3, ChildAlone
  <2>2. HaltedSoFar'
    BY <2>1 DEF SInv, HaltedSoFar
  <2> QED BY <2>1, <2>2, StutterRefines
<1> QED BY <1>1, <1>2, <1>3, Steps

(* However often forks fail, whoever crashes and whatever clients do, one  *)
(* start of the program with its socket module and its shell halts the     *)
(* modules as SwShutdown says: each once, in the order of main.c:224-244,  *)
(* and all of them before the process ends.                                *)
THEOREM ShutdownImplemented ==
  ASSUME OneStart
  PROVE  Spec => ShutsDownInOrder
<1>1. Init => Alone /\ HaltedSoFar /\ Shutdown!SInit
  BY InitSInv DEF SInv
<1>2. IInv /\ Alone /\ HaltedSoFar /\ [Next]_vars => Alone' /\ HaltedSoFar'
  BY NextSInv DEF SInv
<1>3. IInv /\ Alone /\ HaltedSoFar /\ [Next]_vars => [Shutdown!SNext]_(Shutdown!svars)
  BY NextSInv DEF SInv, Refines
<1> QED BY <1>1, <1>2, <1>3, InvariantHolds, PTL DEF Spec, ShutsDownInOrder, Shutdown!SSpec

-----------------------------------------------------------------------------
(* What remains of the program.  Of the living processes only the listener *)
(* and the shell are children of the first one, as it knows them, and each *)
(* only until its module is halted; the others accept and serve clients.   *)
Listener(q) ==
  /\ code[q] \in {"bind", "accept"}
  /\ q = ch_comm[1][0]
  /\ code[1] \in {"start_comm", "start_cli", "wait"} \/ (code[1] = "halt_comm" /\ loop[1] = 0)

Terminal(q) ==
  /\ code[q] \in ShellCodes
  /\ q = ch_cli[1][0]
  /\ \/ code[1] \in {"wait", "halt_comm"}
     \/ code[1] = "start_cli" /\ loop[1] = 1
     \/ code[1] = "halt_cli" /\ loop[1] = 0

Children ==
  \A q \in Alive \ {1} :
    /\ code[q] \in {"bind"} \cup ShellCodes => parent[q] = 1
    /\ parent[q] = 1 => Listener(q) \/ Terminal(q)

(* A child goes on, forks or ends: that changes no child of process 1.     *)
LEMMA ChildChildren ==
  ASSUME OneStart, SInv, Children, NEW p \in Pids \ {1}, ChildStep(p)
  PROVE  Children'
<1>0. /\ code \in [Pids -> {"none", "dead"} \cup MainCodes \cup SockCodes \cup ShellCodes]
      /\ parent \in [Pids -> Pids \cup {Outside}]
      /\ code'[1] = code[1] /\ loop'[1] = loop[1] /\ p \in Alive /\ 1 \in Pids
  <2>1. p \in Alive
    BY DEF ChildStep, Bind, Accept, HandlerLeavesLoop, HandlerDies, QuitSignal, QuitDie, Crash, Alive
  <2> QED BY <2>1, ChildAlone, FirstProcess DEF SInv, IInv, TypeOK
<1>1. CASE Bind(p) \/ HandlerLeavesLoop(p) \/ QuitSignal(p)
  <2>1. /\ code' = [code EXCEPT ![p] = code'[p]] /\ UNCHANGED <<parent, ch_comm, ch_cli>>
        /\ \/ code[p] = "bind" /\ code'[p] = "accept"
           \/ code[p] = "handle" /\ code'[p] = "accept"
           \/ code[p] = "shell" /\ code'[p] = "quit"
    BY <1>0, <1>1 DEF Bind, HandlerLeavesLoop, QuitSignal, Goto
  <2> QED BY <1>0, <2>1 DEF Children, Listener, Terminal, Alive, ShellCodes
<1>2. CASE Accept(p)
  <2>1. PICK c \in NextPid :
          /\ Fork(p, c, "handle") /\ ch_comm' = [ch_comm EXCEPT ![c] = ch_comm[p]]
          /\ ch_cli' = [ch_cli EXCEPT ![c] = ch_cli[p]]
    BY <1>2 DEF Accept
  <2>2. /\ c \in Pids \ {1} /\ code' = [code EXCEPT ![c] = "handle"]
        /\ parent' = [parent EXCEPT ![c] = p]
    BY <1>0, <2>1, NewProcess DEF Fork, Alive
  <2>3. ch_comm'[1] = ch_comm[1] /\ ch_cli'[1] = ch_cli[1]
    BY <1>0, <2>1, <2>2 DEF SInv, IInv, TypeOK
  <2> QED BY <1>0, <2>2, <2>3 DEF Children, Listener, Terminal, Alive, ShellCodes
<1>3. CASE HandlerDies(p) \/ QuitDie(p) \/ Crash(p)
  <2>1. End({p}, code) /\ UNCHANGED <<ch_comm, ch_cli>>
    BY <1>3 DEF HandlerDies, QuitDie, Crash
  <2>2. /\ code' = [q \in Pids |-> IF q = p THEN "dead" ELSE code[q]]
        /\ parent' = [q \in Pids |-> IF parent[q] = p THEN Outside ELSE parent[q]]
    BY <2>1 DEF End
  <2> QED BY <1>0, <2>1, <2>2, FirstProcess DEF Children, Listener, Terminal, Alive, Outside
<1> QED BY <1>1, <1>2, <1>3 DEF ChildStep

(* The first process starts, or forks its listener: it is alone till then. *)
LEMMA FirstChildren ==
  ASSUME OneStart, SInv, Children,
         Start(1) \/ sock_comm_start(1) \/ sock_comm_start_fails(1)
  PROVE  Children'
<1>0. /\ code \in [Pids -> {"none", "dead"} \cup MainCodes \cup SockCodes \cup ShellCodes]
      /\ loop \in [Pids -> Nat] /\ 1 \in Pids /\ NComm = 1 /\ Comms = {0}
      /\ ch_comm \in [Pids -> [Comms -> Pids \cup {0, -1}]]
      /\ parent \in [Pids -> Pids \cup {Outside}]
  <2>1. 0..(1 - 1) = {0}
    OBVIOUS
  <2> QED BY <2>1, FirstProcess DEF OneStart, SInv, IInv, TypeOK, Comms
<1>1. \A q \in Pids \ {1} : code[q] = "none"
  <2>1. code[1] = "none" \/ (code[1] = "start_comm" /\ loop[1] = 0)
    BY <1>0, StartsFirst DEF sock_comm_start, sock_comm_start_fails
  <2> QED BY <2>1 DEF SInv, Alone
<1>2. CASE Start(1) \/ sock_comm_start_fails(1)
  <2>1. \A q \in Pids \ {1} : code'[q] = "none"
    BY <1>0, <1>1, <1>2 DEF Start, Goto, sock_comm_start_fails
  <2> QED BY <2>1 DEF Children, Alive
<1>3. CASE sock_comm_start(1)
  <2>1. PICK c \in NextPid :
          /\ Fork(1, c, "bind")
          /\ ch_comm' = [ch_comm EXCEPT ![1][loop[1]] = c,
                                        ![c] = [ch_comm[1] EXCEPT ![loop[1]] = 0]]
    BY <1>3 DEF sock_comm_start
  <2>2. code[1] = "start_comm" /\ loop[1] = 0
    BY <1>0, <1>3 DEF sock_comm_start
  <2>3. /\ c \in Pids \ {1} /\ code' = [code EXCEPT ![c] = "bind"]
        /\ parent' = [parent EXCEPT ![c] = 1]
    BY <1>0, <2>1, <2>2, NewProcess DEF Fork
  <2>4. ch_comm'[1][0] = c
    BY <1>0, <2>1, <2>2, <2>3
  <2>5. \A q \in Alive' \ {1} : q = c
    BY <1>0, <1>1, <2>3 DEF Alive
  <2>6. code'[1] = "start_comm" /\ code'[c] = "bind" /\ parent'[c] = 1
    BY <1>0, <2>2, <2>3
  <2> QED BY <2>4, <2>5, <2>6 DEF Children, Listener
<1> QED BY <1>2, <1>3

(* The shell is forked, or not, once.                                      *)
LEMMA ShellChildren ==
  ASSUME OneStart, SInv, Children, cli_comm_start(1) \/ cli_comm_start_fails(1)
  PROVE  Children'
<1>0. /\ code \in [Pids -> {"none", "dead"} \cup MainCodes \cup SockCodes \cup ShellCodes]
      /\ loop \in [Pids -> Nat] /\ 1 \in Pids /\ NCli = 1 /\ Clis = {0}
      /\ ch_comm \in [Pids -> [Comms -> Pids \cup {0, -1}]]
      /\ ch_cli \in [Pids -> [Clis -> Pids \cup {0, -1}]]
      /\ parent \in [Pids -> Pids \cup {Outside}]
  <2>1. 0..(1 - 1) = {0}
    OBVIOUS
  <2> QED BY <2>1, FirstProcess DEF OneStart, SInv, IInv, TypeOK, Clis
<1>1. code[1] = "start_cli" /\ loop[1] = 0
  BY <1>0 DEF cli_comm_start, cli_comm_start_fails
<1>2. \A q \in Alive \ {1} : ~Terminal(q)
  BY <1>1 DEF Terminal
<1>3. CASE cli_comm_start(1)
  <2>1. PICK c \in NextPid :
          /\ Fork(1, c, "shell")
          /\ ch_comm' = [ch_comm EXCEPT ![c] = ch_comm[1]]
          /\ ch_cli' = [ch_cli EXCEPT ![1][loop[1]] = c,
                                      ![c] = [ch_cli[1] EXCEPT ![loop[1]] = 0]]
          /\ loop' = [loop EXCEPT ![1] = loop[1] + 1, ![c] = loop[1]]
    BY <1>3 DEF cli_comm_start
  <2>2. /\ c \in Pids \ {1} /\ code' = [code EXCEPT ![c] = "shell"]
        /\ parent' = [parent EXCEPT ![c] = 1]
    BY <1>0, <1>1, <2>1, NewProcess DEF Fork
  <2>3. ch_cli'[1][0] = c /\ ch_comm'[1] = ch_comm[1] /\ loop'[1] = 1
    BY <1>0, <1>1, <2>1, <2>2
  <2>4. code'[1] = "start_cli" /\ code'[c] = "shell" /\ parent'[c] = 1
    BY <1>0, <1>1, <2>2
  <2>5. Terminal(c)'
    BY <2>3, <2>4 DEF Terminal, ShellCodes
  <2>6. ASSUME NEW q \in Alive' \ {1}, q # c
        PROVE  /\ code'[q] \in {"bind"} \cup ShellCodes => parent'[q] = 1
               /\ parent'[q] = 1 => Listener(q)'
    <3>1. q \in Alive \ {1} /\ code'[q] = code[q] /\ parent'[q] = parent[q]
      BY <1>0, <2>2, <2>6 DEF Alive
    <3> QED BY <1>1, <1>2, <2>3, <2>4, <3>1 DEF Children, Listener
  <2> QED BY <2>4, <2>5, <2>6 DEF Children
<1>4. CASE cli_comm_start_fails(1)
  <2>1. UNCHANGED <<code, parent, ch_comm>>
    BY <1>4 DEF cli_comm_start_fails
  <2>2. \A q \in Alive \ {1} : parent[q] = 1 => Listener(q)'
    BY <1>1, <1>2, <2>1 DEF Children, Listener
  <2> QED BY <2>1, <2>2 DEF Children, Alive
<1> QED BY <1>3, <1>4

(* Between the forks and the halts of its modules process 1 just goes on.  *)
LEMMA QuietChildren ==
  ASSUME OneStart, SInv, Children,
         \/ EndStartComm(1) \/ EndStartCli(1) \/ BeginHalt(1) \/ EndHaltComm(1) \/ EndHaltCli(1)
         \/ HaltSwitch(1) \/ EndHaltSwitch(1) \/ HaltProto(1) \/ EndHaltProto(1)
  PROVE  Children'
<1>0. /\ code \in [Pids -> {"none", "dead"} \cup MainCodes \cup SockCodes \cup ShellCodes]
      /\ loop \in [Pids -> Nat] /\ 1 \in Pids /\ NComm = 1 /\ NCli = 1
      /\ UNCHANGED <<parent, ch_comm, ch_cli>>
  BY FirstProcess DEF OneStart, EndStartComm, EndStartCli, BeginHalt, EndHaltComm, EndHaltCli,
       HaltSwitch, EndHaltSwitch, HaltProto, EndHaltProto
<1>1. \A q \in Pids \ {1} : code'[q] = code[q]
  BY <1>0 DEF EndStartComm, EndStartCli, BeginHalt, EndHaltComm, EndHaltCli,
       HaltSwitch, EndHaltSwitch, HaltProto, EndHaltProto, Goto
<1>2. \A q \in Alive' \ {1} : q \in Alive \ {1}
  BY <1>1 DEF Alive
<1>3. \/ code[1] = "start_comm" /\ code'[1] = "start_cli"
      \/ code[1] = "start_cli" /\ code'[1] = "wait"
      \/ code[1] = "wait" /\ code'[1] = "halt_comm" /\ loop'[1] = 0
      \/ code[1] = "halt_comm" /\ loop[1] = 1 /\ code'[1] = "halt_cli" /\ loop'[1] = 0
      \/ code[1] = "halt_cli" /\ loop[1] # 0
      \/ code[1] \in {"halt_sw", "halt_proto"}
  BY <1>0 DEF EndStartComm, EndStartCli, BeginHalt, EndHaltComm, EndHaltCli,
       HaltSwitch, EndHaltSwitch, HaltProto, EndHaltProto, Goto
<1>4. ASSUME NEW q \in Alive \ {1}, Listener(q) \/ Terminal(q)
      PROVE  Listener(q)' \/ Terminal(q)'
  <2>1. code'[q] = code[q]
    BY <1>1 DEF Alive
  <2> QED BY <1>0, <1>3, <1>4, <2>1 DEF Listener, Terminal
<1>5. ASSUME NEW q \in Alive' \ {1}
      PROVE  /\ code'[q] \in {"bind"} \cup ShellCodes => parent'[q] = 1
             /\ parent'[q] = 1 => Listener(q)' \/ Terminal(q)'
  <2>1. q \in Alive \ {1} /\ code'[q] = code[q] /\ parent'[q] = parent[q]
    BY <1>0, <1>1, <1>2 DEF Alive
  <2> QED BY <1>4, <2>1 DEF Children
<1> QED BY <1>5 DEF Children

(* The halts kill the children for which process 1 has numbers.            *)
LEMMA HaltChildren ==
  ASSUME OneStart, SInv, Children, HaltComm(1) \/ HaltCli(1) \/ CloseAndDie(1)
  PROVE  Children'
<1>0. /\ code \in [Pids -> {"none", "dead"} \cup MainCodes \cup SockCodes \cup ShellCodes]
      /\ parent \in [Pids -> Pids \cup {Outside}] /\ loop \in [Pids -> Nat]
      /\ 1 \in Pids /\ NComm = 1 /\ NCli = 1 /\ Outside # 1
      /\ \A q \in Pids : q # 0 /\ q # -1
      /\ UNCHANGED <<ch_comm, ch_cli>>
  BY FirstProcess DEF OneStart, HaltComm, HaltCli, CloseAndDie, SInv, IInv, TypeOK, Pids, Outside
<1>1. CASE HaltComm(1)
  <2>. DEFINE dying == Killed(1, ch_comm[1][loop[1]])
  <2>1. /\ code[1] = "halt_comm" /\ loop[1] = 0 /\ End(dying, code) /\ loop'[1] = 1
        /\ 1 \notin dying
    BY <1>0, <1>1, NotKilled DEF HaltComm
  <2>2. /\ code' = [q \in Pids |-> IF q \in dying THEN "dead" ELSE code[q]]
        /\ parent' = [q \in Pids |-> IF parent[q] \in dying THEN Outside ELSE parent[q]]
    BY <2>1 DEF End
  <2>3. \A q \in Alive : q = ch_comm[1][0] => q \in dying
    BY <1>0, <2>1 DEF Killed, Alive
  <2>. HIDE DEF dying
  <2>4. ASSUME NEW q \in Alive' \ {1}
        PROVE  /\ code'[q] \in {"bind"} \cup ShellCodes => parent'[q] = 1
               /\ parent'[q] = 1 => Listener(q)' \/ Terminal(q)'
    <3>1. /\ q \in Alive \ {1} /\ q \notin dying /\ code'[q] = code[q] /\ code'[1] = "halt_comm"
          /\ parent'[q] = 1 <=> parent[q] = 1
      BY <1>0, <2>1, <2>2 DEF Alive
    <3>2. ~Listener(q)
      BY <2>3, <3>1 DEF Listener
    <3>3. Terminal(q) => Terminal(q)'
      BY <1>0, <3>1 DEF Terminal
    <3> QED BY <3>1, <3>2, <3>3 DEF Children
  <2> QED BY <2>4 DEF Children
<1>2. CASE HaltCli(1)
  <2>. DEFINE dying == Killed(1, ch_cli[1][loop[1]])
  <2>1. /\ code[1] = "halt_cli" /\ loop[1] = 0 /\ End(dying, [code EXCEPT ![1] = "halt_sw"])
        /\ 1 \notin dying
    BY <1>0, <1>2, NotKilled DEF HaltCli
  <2>2. /\ code' = [q \in Pids |-> IF q \in dying THEN "dead" ELSE [code EXCEPT ![1] = "halt_sw"][q]]
        /\ parent' = [q \in Pids |-> IF parent[q] \in dying THEN Outside ELSE parent[q]]
    BY <2>1 DEF End
  <2>3. \A q \in Alive : q = ch_cli[1][0] => q \in dying
    BY <1>0, <2>1 DEF Killed, Alive
  <2>. HIDE DEF dying
  <2>4. ASSUME NEW q \in Alive' \ {1}
        PROVE  /\ code'[q] \notin {"bind"} \cup ShellCodes
               /\ parent'[q] # 1
    <3>1. /\ q \in Alive \ {1} /\ q \notin dying /\ code'[q] = code[q]
          /\ parent'[q] = 1 <=> parent[q] = 1
      BY <1>0, <2>1, <2>2 DEF Alive
    <3>2. ~Listener(q) /\ ~Terminal(q)
      BY <2>1, <2>3, <3>1 DEF Listener, Terminal
    <3> QED BY <3>1, <3>2 DEF Children
  <2> QED BY <2>4 DEF Children
<1>3. CASE CloseAndDie(1)
  <2>1. code[1] = "close" /\ End({1}, code)
    BY <1>3 DEF CloseAndDie
  <2>2. /\ code' = [q \in Pids |-> IF q = 1 THEN "dead" ELSE code[q]]
        /\ parent' = [q \in Pids |-> IF parent[q] = 1 THEN Outside ELSE parent[q]]
    BY <2>1 DEF End
  <2>3. ASSUME NEW q \in Alive' \ {1}
        PROVE  code'[q] \notin {"bind"} \cup ShellCodes /\ parent'[q] # 1
    <3>1. q \in Alive \ {1} /\ code'[q] = code[q] /\ ~Listener(q) /\ ~Terminal(q)
      BY <1>0, <2>1, <2>2 DEF Alive, Listener, Terminal
    <3> QED BY <1>0, <2>2, <3>1 DEF Children, Alive
  <2> QED BY <2>3 DEF Children
<1> QED BY <1>1, <1>2, <1>3

(* When the switches and protocols are halted, and ever after, whoever is  *)
(* left of one start of the program besides main() is no child of it and   *)
(* accepts or serves clients on the socket of its port: no main program, no*)
(* child about to bind and no shell (lib_sock_comm.c:98,                   *)
(* lib_cli_comm.c:119).  This holds for any number of processes and        *)
(* clients, also when forks failed, children crashed, and handlers went    *)
(* back to accept (lib_sock_comm.c:85) and forked more handlers.           *)
THEOREM ServersRemain ==
  ASSUME OneStart
  PROVE  Spec => []OnlyServersRemain
<1>1. Init => Alone /\ HaltedSoFar /\ Children
  <2>1. Init => Children
    BY DEF Init, Children, Alive
  <2> QED BY <2>1, InitSInv DEF SInv
<1>2. IInv /\ Alone /\ HaltedSoFar /\ Children /\ [Next]_vars => Alone' /\ HaltedSoFar' /\ Children'
  <2> SUFFICES ASSUME SInv, Children, [Next]_vars PROVE Children'
    BY NextSInv DEF SInv
  <2>1. CASE UNCHANGED vars
    BY <2>1 DEF vars, Children, Alive, Listener, Terminal
  <2>2. CASE MainStep
    BY <2>2, FirstChildren, ShellChildren, QuietChildren, HaltChildren DEF MainStep
  <2>3. CASE \E p \in Pids \ {1} : ChildStep(p)
    BY <2>3, ChildChildren
  <2> QED BY <2>1, <2>2, <2>3, Steps
<1>3. IInv /\ Alone /\ HaltedSoFar /\ Children => OnlyServersRemain
  <2> SUFFICES ASSUME SInv, Children, NEW p \in Roots,
                      code[p] \in {"halt_sw", "halt_proto", "close", "dead"},
                      NEW q \in Alive \ {p}
               PROVE  parent[q] # p /\ code[q] \in {"accept", "handle"} /\ q \in listening
    BY DEF SInv, OnlyServersRemain
  <2>1. p = 1
    BY DEF Roots, SInv, Alone
  <2>2. ~Listener(q) /\ ~Terminal(q)
    BY <2>1 DEF Listener, Terminal
  <2>3. parent[q] # 1 /\ code[q] \notin {"bind"} \cup ShellCodes
    BY <2>1, <2>2 DEF Children
  <2>4. q \in Pids /\ code[q] \in SockCodes \cup ShellCodes
    BY <2>1, FirstProcess DEF SInv, Alone, Alive
  <2>5. q \in Pids /\ code[q] \in {"accept", "handle"}
    BY <2>3, <2>4 DEF SockCodes
  <2>6. q \in listening
    BY <2>5 DEF SInv, IInv, ServersHoldPort
  <2> QED BY <2>1, <2>3, <2>5, <2>6
<1> QED BY <1>1, <1>2, <1>3, InvariantHolds, PTL DEF Spec

=============================================================================
