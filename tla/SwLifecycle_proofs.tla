------------------------- MODULE SwLifecycle_proofs -------------------------
(***************************************************************************)
(* Proofs about the processes of lib_switch, for every number of modules,  *)
(* starts, connections and processes, and with every fault: types, whom    *)
(* the shell signals, whom exit_handler kills, who holds the port, and     *)
(* that main() only goes forward.                                          *)
(***************************************************************************)
EXTENDS SwLifecycle, SwProgress_proofs, TLAPS

USE CountsAssumption, HasHaltAssumption, FaultsAssumption

(* Before the program is started no process exists.                        *)
LEMMA InitIInv == Init => IInv
<1>. SUFFICES ASSUME Init PROVE IInv
  OBVIOUS
<1>. USE DEF Init
<1>0. MaxPid \in Nat /\ 0 \notin Pids /\ Pids \subseteq Nat
  BY DEF Pids
<1>1. TypeOK
  BY <1>0 DEF TypeOK, Outside, Alive
<1>2. QuitReachesMain
  BY DEF QuitReachesMain, ShellCodes
<1>3. OnePortOwner
  BY DEF OnePortOwner
<1>4. UnusedBlank
  BY <1>0 DEF UnusedBlank, Unused, Outside
<1>5. RootsAreMain
  BY <1>0 DEF RootsAreMain, Roots
<1>6. CommIds
  BY <1>0 DEF CommIds, Roots
<1>7. CliIds
  BY DEF CliIds, MainCodes
<1>8. StoredIds
  BY <1>0 DEF StoredIds
<1>9. ServersHoldPort
  BY DEF ServersHoldPort
<1>. QED  BY <1>1, <1>2, <1>3, <1>4, <1>5, <1>6, <1>7, <1>8, <1>9 DEF IInv

(* Processes end, and the others do not change what they run, but for a    *)
(* main program that goes on from a command line module to the switches.   *)
LEMMA EndStep ==
  ASSUME IInv, NEW dying \in SUBSET Alive, NEW next, End(dying, next),
         \A q \in Pids : next[q] = code[q] \/ (code[q] = "halt_cli" /\ next[q] = "halt_sw"),
         loop' \in [Pids -> Nat],
         \A q \in Pids : loop'[q] = loop[q] \/ code[q] \in {"halt_comm", "halt_cli"},
         halted' \in [Pids -> SUBSET Modules],
         UNCHANGED <<group, exit_main, ch_comm, ch_cli, conns>>
  PROVE  IInv'
<1>. USE DEF IInv
<1>0. /\ code' = [q \in Pids |-> IF q \in dying THEN "dead" ELSE next[q]]
      /\ parent' = [q \in Pids |-> IF parent[q] \in dying THEN Outside ELSE parent[q]]
      /\ listening' = listening \ dying
      /\ Outside \notin Pids
  BY DEF End, Outside, Pids
<1>1. TypeOK'
  <2>1. code' \in [Pids -> {"none", "dead"} \cup MainCodes \cup SockCodes \cup ShellCodes]
    BY <1>0 DEF TypeOK, MainCodes
  <2>2. parent' \in [Pids -> Pids \cup {Outside}]
    BY <1>0 DEF TypeOK
  <2>3. listening' \subseteq Alive'
    BY <1>0 DEF TypeOK, Alive
  <2>. QED  BY <2>1, <2>2, <2>3 DEF TypeOK
<1>2. Unused' = Unused
  BY <1>0 DEF Unused, Alive
<1>3. QuitReachesMain'
  <2>. SUFFICES ASSUME NEW p \in Pids, code'[p] \in ShellCodes
                PROVE  parent'[p] = Outside \/ code'[parent'[p]] \in MainCodes \ {"start_comm"}
    BY DEF QuitReachesMain
  <2>1. code[p] \in ShellCodes
    BY <1>0 DEF ShellCodes
  <2>2. CASE parent[p] = Outside \/ parent[p] \in dying
    BY <1>0, <2>2
  <2>3. CASE parent[p] # Outside /\ parent[p] \notin dying
    <3>1. parent[p] \in Pids /\ parent'[p] = parent[p]
      BY <1>0, <2>3 DEF TypeOK
    <3>2. code[parent[p]] \in MainCodes \ {"start_comm"}
      BY <2>1, <2>3 DEF QuitReachesMain
    <3>. QED  BY <1>0, <2>3, <3>1, <3>2 DEF MainCodes
  <2>. QED  BY <2>2, <2>3
<1>4. OnePortOwner'
  BY <1>0 DEF OnePortOwner
<1>5. UnusedBlank'
  <2>1. \A q \in Unused : loop'[q] = loop[q]
    BY DEF Unused
  <2>2. \A p \in Pids, q \in Unused : parent'[p] # q
    BY <1>0 DEF UnusedBlank, Unused
  <2>. QED  BY <1>2, <2>1, <2>2 DEF UnusedBlank
<1>6. Roots' = Roots
  BY DEF Roots
<1>7. RootsAreMain'
  BY <1>0, <1>6 DEF RootsAreMain, Roots, MainCodes
<1>8. ASSUME NEW p \in Pids, code'[p] # "dead", NEW ch, ChildOf(p, ch)
      PROVE  ChildOf(p, ch)'
  <2>1. ForkCanFail => ForkCanFail'
    BY <1>2 DEF ForkCanFail
  <2>2. p \notin dying
    BY <1>0, <1>8
  <2>3. ch \in Pids /\ parent[ch] = p => parent'[ch] = p
    BY <1>0, <2>2
  <2>4. ch \in Pids /\ code[ch] = "dead" => code'[ch] = "dead"
    BY <1>0
  <2>. QED  BY <1>8, <2>1, <2>3, <2>4 DEF ChildOf
<1>9. CommIds'
  BY <1>0, <1>6, <1>8 DEF CommIds, Roots, MainCodes
<1>10. CliIds'
  <2>. SUFFICES ASSUME NEW p \in Pids, NEW i \in Clis
                PROVE  /\ code'[p] \in SockCodes \cup {"start_comm"} => ch_cli[p][i] = 0
                       /\ code'[p] \in MainCodes \ {"start_comm"} /\ (code'[p] = "start_cli" => i < loop'[p])
                            => ChildOf(p, ch_cli[p][i])'
    BY DEF CliIds
  <2>1. ASSUME code'[p] \in SockCodes \cup {"start_comm"} PROVE ch_cli[p][i] = 0
    BY <1>0, <2>1 DEF CliIds, SockCodes
  <2>2. ASSUME code'[p] \in MainCodes \ {"start_comm"}, code'[p] = "start_cli" => i < loop'[p]
        PROVE  ChildOf(p, ch_cli[p][i])'
    <3>1. code[p] \in MainCodes \ {"start_comm"} /\ (code[p] = "start_cli" => i < loop[p])
      BY <1>0, <2>2 DEF MainCodes
    <3>2. ChildOf(p, ch_cli[p][i])
      BY <3>1 DEF CliIds
    <3>. QED  BY <1>8, <2>2, <3>2 DEF MainCodes
  <2>. QED  BY <2>1, <2>2
<1>11. StoredIds'
  BY <1>2 DEF StoredIds, ForkCanFail
<1>12. ServersHoldPort'
  BY <1>0 DEF ServersHoldPort
<1>. QED  BY <1>1, <1>3, <1>4, <1>5, <1>7, <1>9, <1>10, <1>11, <1>12

(* One process goes on in its own code; no process comes or goes.          *)
LEMMA MoveStep ==
  ASSUME IInv, NEW p \in Alive, NEW c, Goto(p, c),
         \/ /\ {code[p], c} \subseteq MainCodes \ {"start_comm"} /\ c # "start_cli"
            /\ code[p] = "start_cli" => c = "wait" /\ loop[p] = NCli
         \/ code[p] = "start_comm" /\ c = "start_cli" /\ loop[p] = NComm /\ loop'[p] = 0
         \/ code[p] \in SockCodes /\ c \in SockCodes \cup {"start_comm"}
         \/ code[p] = "shell" /\ c = "quit",
         loop' \in [Pids -> Nat],
         \A q \in Pids : q # p => loop'[q] = loop[q],
         exit_main' \in [Pids -> BOOLEAN],
         UNCHANGED <<parent, group, ch_comm, ch_cli, halted, conns>>,
         listening' \subseteq Alive, OnePortOwner',
         \A q \in listening : q # p => q \in listening',
         c \in {"accept", "handle"} => p \in listening'
  PROVE  IInv'
<1>. USE DEF IInv
<1>0. /\ code' = [code EXCEPT ![p] = c] /\ p \in Pids
      /\ code \in [Pids -> {"none", "dead"} \cup MainCodes \cup SockCodes \cup ShellCodes]
      /\ Outside \notin Pids
      /\ code[p] \notin {"none", "dead"}
  BY DEF Goto, TypeOK, Alive, Outside, Pids
<1>1. c \in MainCodes \cup SockCodes \cup ShellCodes /\ c \notin {"none", "dead"}
  BY DEF MainCodes, SockCodes, ShellCodes
<1>2. Unused' = Unused /\ Alive' = Alive /\ Roots' = Roots
  BY <1>0, <1>1 DEF Unused, Alive, Roots
<1>3. TypeOK'
  BY <1>0, <1>1, <1>2 DEF TypeOK
<1>4. QuitReachesMain'
  <2>. SUFFICES ASSUME NEW q \in Pids, code'[q] \in ShellCodes
                PROVE  parent[q] = Outside \/ code'[parent[q]] \in MainCodes \ {"start_comm"}
    BY DEF QuitReachesMain
  <2>1. code[q] \in ShellCodes
    BY <1>0 DEF ShellCodes, MainCodes, SockCodes
  <2>2. parent[q] = Outside \/ (parent[q] \in Pids /\ code[parent[q]] \in MainCodes \ {"start_comm"})
    BY <2>1 DEF QuitReachesMain, TypeOK
  <2>. QED  BY <1>0, <2>2 DEF MainCodes, SockCodes
<1>5. UnusedBlank'
  <2>1. \A q \in Unused : loop'[q] = loop[q]
    BY <1>0 DEF Unused
  <2>. QED  BY <1>2, <2>1 DEF UnusedBlank
<1>6. RootsAreMain'
  <2>1. ASSUME NEW r \in Roots PROVE code'[r] \in MainCodes \cup {"dead"}
    <3>1. code[r] \in MainCodes \cup {"dead"}
      BY DEF RootsAreMain
    <3>. QED  BY <1>0, <3>1 DEF MainCodes, SockCodes, Roots
  <2>. QED  BY <1>2, <2>1 DEF RootsAreMain
<1>7. \A q, ch : ChildOf(q, ch) => ChildOf(q, ch)'
  BY <1>0, <1>2 DEF ChildOf, ForkCanFail
<1>8. CommIds'
  <2>. SUFFICES ASSUME NEW r \in Roots, NEW i \in Comms,
                       code'[r] \in MainCodes, code'[r] = "start_comm" => i < loop'[r]
                PROVE  ChildOf(r, ch_comm[r][i])
    BY <1>2, <1>7 DEF CommIds
  <2>1. code[r] \in MainCodes /\ (code[r] = "start_comm" => i < loop[r])
    <3>1. r \in Pids /\ code[r] \in MainCodes \cup {"dead"}
      BY DEF RootsAreMain, Roots
    <3>2. CASE r # p
      BY <1>0, <3>1, <3>2
    <3>3. CASE r = p
      <4>1. code[p] \in MainCodes /\ code[p] \notin SockCodes /\ code[p] # "shell"
        BY <1>0, <3>1, <3>3 DEF MainCodes, SockCodes
      <4>2. code[p] = "start_comm" => loop[p] = NComm
        BY <4>1 DEF MainCodes
      <4>3. i < NComm /\ i \in Nat
        BY DEF Comms
      <4>. QED  BY <3>3, <4>1, <4>2, <4>3
    <3>. QED  BY <3>2, <3>3
  <2>. QED  BY <2>1 DEF CommIds
<1>9. CliIds'
  <2>. SUFFICES ASSUME NEW q \in Pids, NEW i \in Clis
                PROVE  /\ code'[q] \in SockCodes \cup {"start_comm"} => ch_cli[q][i] = 0
                       /\ code'[q] \in MainCodes \ {"start_comm"} /\ (code'[q] = "start_cli" => i < loop'[q])
                            => ChildOf(q, ch_cli[q][i])
    BY <1>7 DEF CliIds
  <2>1. CASE q # p
    BY <1>0, <2>1 DEF CliIds
  <2>2. CASE q = p
    <3>0. code'[p] = c
      BY <1>0
    <3>1. i \in Nat /\ i < NCli
      BY DEF Clis
    <3>2. CASE /\ {code[p], c} \subseteq MainCodes \ {"start_comm"} /\ c # "start_cli"
               /\ code[p] = "start_cli" => c = "wait" /\ loop[p] = NCli
      BY <2>2, <3>0, <3>1, <3>2 DEF CliIds, SockCodes, MainCodes
    <3>3. CASE code[p] = "start_comm" /\ c = "start_cli" /\ loop[p] = NComm /\ loop'[p] = 0
      BY <2>2, <3>0, <3>1, <3>3 DEF SockCodes
    <3>4. CASE code[p] \in SockCodes /\ c \in SockCodes \cup {"start_comm"}
      BY <2>2, <3>0, <3>4 DEF CliIds, SockCodes, MainCodes
    <3>5. CASE code[p] = "shell" /\ c = "quit"
      BY <2>2, <3>0, <3>5 DEF SockCodes, MainCodes
    <3>. QED  BY <3>2, <3>3, <3>4, <3>5
  <2>. QED  BY <2>1, <2>2
<1>10. StoredIds'
  BY <1>2 DEF StoredIds, ForkCanFail
<1>11. ServersHoldPort'
  BY <1>0 DEF ServersHoldPort
<1>. QED  BY <1>3, <1>4, <1>5, <1>6, <1>8, <1>9, <1>10, <1>11 DEF IInv

(* A fork: the child is new, and only the parent learns its number.        *)
LEMMA ForkStep ==
  ASSUME IInv, NEW p \in Alive, NEW c \in Unused, NEW does, Fork(p, c, does),
         conns' \in Nat, loop' \in [Pids -> Nat],
         ch_comm' \in [Pids -> [Comms -> Pids \cup {0, -1}]],
         ch_cli' \in [Pids -> [Clis -> Pids \cup {0, -1}]],
         \A q \in Pids \ {p, c} :
           ch_comm'[q] = ch_comm[q] /\ ch_cli'[q] = ch_cli[q] /\ loop'[q] = loop[q],
         \A i \in Comms : ch_comm'[c][i] = ch_comm[p][i] \/ ch_comm'[c][i] = 0,
         \A i \in Clis : ch_cli'[c][i] = ch_cli[p][i] \/ ch_cli'[c][i] = 0,
         \/ /\ code[p] = "start_comm" /\ does = "bind" /\ loop'[p] = loop[p] + 1
            /\ ch_cli'[p] = ch_cli[p] /\ ch_comm'[p] = [ch_comm[p] EXCEPT ![loop[p]] = c]
         \/ /\ code[p] = "start_cli" /\ does = "shell" /\ loop'[p] = loop[p] + 1
            /\ ch_comm'[p] = ch_comm[p] /\ ch_cli'[p] = [ch_cli[p] EXCEPT ![loop[p]] = c]
         \/ /\ code[p] = "accept" /\ does = "handle"
            /\ ch_comm'[p] = ch_comm[p] /\ ch_cli'[p] = ch_cli[p]
  PROVE  IInv'
<1>. USE DEF IInv
<1>0. /\ p \in Pids /\ c \in Pids /\ p # c /\ Outside \notin Pids /\ 0 \notin Pids
      /\ code[c] = "none" /\ code[p] \notin {"none", "dead"}
      /\ code' = [code EXCEPT ![c] = does]
      /\ parent' = [parent EXCEPT ![c] = p]
      /\ group' = [group EXCEPT ![c] = group[p]]
      /\ listening' = listening \cup {q \in {c} : p \in listening}
      /\ exit_main' = [exit_main EXCEPT ![c] = exit_main[p]] /\ halted' = halted
  BY DEF Fork, Alive, Unused, Outside, Pids
<1>1. /\ code \in [Pids -> {"none", "dead"} \cup MainCodes \cup SockCodes \cup ShellCodes]
      /\ parent \in [Pids -> Pids \cup {Outside}] /\ group \in [Pids -> Pids \cup {0}]
      /\ loop \in [Pids -> Nat] /\ exit_main \in [Pids -> BOOLEAN]
      /\ ch_comm \in [Pids -> [Comms -> Pids \cup {0, -1}]]
      /\ ch_cli \in [Pids -> [Clis -> Pids \cup {0, -1}]]
      /\ listening \subseteq Alive /\ halted \in [Pids -> SUBSET Modules]
  BY DEF TypeOK
<1>2. /\ group[c] = 0 /\ \A q \in Pids : parent[q] # c /\ group[q] # c
      /\ \A q \in Pids, i \in Comms : ch_comm[q][i] # c
      /\ \A q \in Pids, i \in Clis : ch_cli[q][i] # c
  BY DEF UnusedBlank
<1>3. does \in {"bind", "shell", "handle"}
  OBVIOUS
<1>4. TypeOK'
  <2>1. code' \in [Pids -> {"none", "dead"} \cup MainCodes \cup SockCodes \cup ShellCodes]
    BY <1>0, <1>1, <1>3 DEF SockCodes, ShellCodes
  <2>2. Alive' = Alive \cup {c}
    BY <1>0, <1>1, <1>3 DEF Alive
  <2>3. /\ parent' \in [Pids -> Pids \cup {Outside}] /\ group' \in [Pids -> Pids \cup {0}]
        /\ exit_main' \in [Pids -> BOOLEAN]
    BY <1>0, <1>1
  <2>4. listening' \subseteq Alive'
    BY <1>0, <1>1, <2>2
  <2>. QED  BY <1>0, <1>1, <2>1, <2>3, <2>4 DEF TypeOK
<1>5. Unused' = Unused \ {c}
  BY <1>0, <1>1, <1>3 DEF Unused
<1>6. QuitReachesMain'
  <2>. SUFFICES ASSUME NEW q \in Pids, code'[q] \in ShellCodes
                PROVE  parent'[q] = Outside \/ code'[parent'[q]] \in MainCodes \ {"start_comm"}
    BY DEF QuitReachesMain
  <2>1. CASE q = c
    <3>1. does = "shell" /\ code[p] = "start_cli"
      BY <1>0, <1>1, <2>1 DEF ShellCodes
    <3>. QED  BY <1>0, <1>1, <2>1, <3>1 DEF MainCodes
  <2>2. CASE q # c
    <3>1. parent'[q] = parent[q] /\ code[q] \in ShellCodes /\ parent[q] # c
      BY <1>0, <1>1, <1>2, <2>2
    <3>2. parent[q] = Outside \/ (parent[q] \in Pids /\ code[parent[q]] \in MainCodes \ {"start_comm"})
      BY <1>1, <3>1 DEF QuitReachesMain
    <3>. QED  BY <1>0, <1>1, <3>1, <3>2
  <2>. QED  BY <2>1, <2>2
<1>7. OnePortOwner'
  <2>1. \A q \in listening : q # c /\ q \in Pids
    BY <1>0, <1>1 DEF Alive
  <2>. QED  BY <1>0, <1>1, <2>1 DEF OnePortOwner
<1>8. UnusedBlank'
  <2>. SUFFICES ASSUME NEW q \in Unused \ {c}
                PROVE  /\ group'[q] = 0 /\ loop'[q] = 0
                       /\ \A i \in Comms : ch_comm'[q][i] = 0
                       /\ \A i \in Clis : ch_cli'[q][i] = 0
                       /\ \A r \in Pids :
                            /\ parent'[r] # q /\ group'[r] # q
                            /\ \A i \in Comms : ch_comm'[r][i] # q
                            /\ \A i \in Clis : ch_cli'[r][i] # q
    BY <1>5 DEF UnusedBlank
  <2>1. q \in Pids /\ q # p /\ q # c /\ q # 0
    BY <1>0 DEF Unused
  <2>2. /\ group[q] = 0 /\ loop[q] = 0
        /\ \A i \in Comms : ch_comm[q][i] = 0
        /\ \A i \in Clis : ch_cli[q][i] = 0
        /\ \A r \in Pids :
             /\ parent[r] # q /\ group[r] # q
             /\ \A i \in Comms : ch_comm[r][i] # q
             /\ \A i \in Clis : ch_cli[r][i] # q
    BY DEF UnusedBlank
  <2>3. \A r \in Pids : parent'[r] # q /\ group'[r] # q
    BY <1>0, <1>1, <2>1, <2>2
  <2>4. \A r \in Pids, i \in Comms : ch_comm'[r][i] # q
    <3>1. \A i \in Comms : ch_comm'[p][i] # q
      BY <1>0, <1>1, <2>1, <2>2
    <3>2. \A i \in Comms : ch_comm'[c][i] # q
      BY <1>0, <2>1, <2>2
    <3>. QED  BY <2>2, <3>1, <3>2
  <2>5. \A r \in Pids, i \in Clis : ch_cli'[r][i] # q
    <3>1. \A i \in Clis : ch_cli'[p][i] # q
      BY <1>0, <1>1, <2>1, <2>2
    <3>2. \A i \in Clis : ch_cli'[c][i] # q
      BY <1>0, <2>1, <2>2
    <3>. QED  BY <2>2, <3>1, <3>2
  <2>. QED  BY <1>0, <1>1, <2>1, <2>2, <2>3, <2>4, <2>5
<1>. DEFINE NewChildOf(q, ch) ==
              \/ ch = -1 /\ ForkCanFail'
              \/ ch \in Pids /\ (parent'[ch] = q \/ code'[ch] = "dead")
<1>9. Roots' = Roots /\ c \notin Roots
  BY <1>0, <1>1, <1>2 DEF Roots
<1>10. RootsAreMain'
  BY <1>0, <1>1, <1>9 DEF RootsAreMain, Roots
<1>11. ASSUME NEW q \in Pids, NEW ch, ch # c, ChildOf(q, ch)
       PROVE  NewChildOf(q, ch)
  BY <1>0, <1>1, <1>5, <1>11 DEF ChildOf, ForkCanFail
<1>12. NewChildOf(p, c)
  BY <1>0, <1>1
<1>. HIDE DEF NewChildOf
<1>13. CommIds'
  <2>. SUFFICES ASSUME NEW r \in Roots, NEW i \in Comms,
                       code'[r] \in MainCodes, code'[r] = "start_comm" => i < loop'[r]
                PROVE  NewChildOf(r, ch_comm'[r][i])
    BY <1>9 DEF CommIds, ChildOf, NewChildOf
  <2>1. r \in Pids /\ r # c /\ code'[r] = code[r]
    BY <1>0, <1>1, <1>9 DEF Roots
  <2>2. CASE ch_comm'[r][i] = ch_comm[r][i] /\ (code[r] = "start_comm" => i < loop[r])
    BY <1>2, <1>11, <2>1, <2>2 DEF CommIds
  <2>3. CASE r = p /\ code[p] = "start_comm" /\ i = loop[p]
    BY <1>0, <1>1, <1>12, <2>1, <2>3
  <2>4. CASE r = p /\ code[p] = "start_comm" /\ i # loop[p]
    <3>1. i < loop[p] /\ ch_comm'[p][i] = ch_comm[p][i]
      BY <1>0, <1>1, <2>1, <2>4 DEF Comms
    <3>. QED  BY <2>2, <2>4, <3>1
  <2>5. CASE r # p \/ code[p] # "start_comm"
    BY <2>1, <2>2, <2>5
  <2>. QED  BY <2>3, <2>4, <2>5
<1>14. CliIds'
  <2>. SUFFICES ASSUME NEW q \in Pids, NEW i \in Clis
                PROVE  /\ code'[q] \in SockCodes \cup {"start_comm"} => ch_cli'[q][i] = 0
                       /\ code'[q] \in MainCodes \ {"start_comm"} /\ (code'[q] = "start_cli" => i < loop'[q])
                            => NewChildOf(q, ch_cli'[q][i])
    BY DEF CliIds, ChildOf, NewChildOf
  <2>1. CASE q = c
    <3>1. code'[c] = does
      BY <1>0, <1>1
    <3>2. does \in {"bind", "handle"} => ch_cli[p][i] = 0
      BY <1>0 DEF CliIds, SockCodes
    <3>. QED  BY <1>3, <2>1, <3>1, <3>2 DEF SockCodes, MainCodes
  <2>2. CASE q # c /\ ch_cli'[q][i] = ch_cli[q][i] /\ (code[q] = "start_cli" => i < loop[q])
    <3>1. code'[q] = code[q]
      BY <1>0, <1>1, <2>2
    <3>. QED  BY <1>2, <1>11, <2>2, <3>1 DEF CliIds
  <2>3. CASE q = p /\ code[p] = "start_cli" /\ i = loop[p]
    BY <1>0, <1>1, <1>12, <2>3 DEF SockCodes
  <2>4. CASE q = p /\ code[p] = "start_cli" /\ i # loop[p]
    <3>1. ch_cli'[p][i] = ch_cli[p][i] /\ code'[p] = "start_cli" /\ loop'[p] = loop[p] + 1
      BY <1>0, <1>1, <2>4
    <3>2. CASE i < loop[p]
      BY <1>0, <2>2, <2>4, <3>1, <3>2
    <3>3. CASE ~(i < loop[p])
      BY <1>0, <1>1, <2>4, <3>1, <3>3 DEF Clis, SockCodes
    <3>. QED  BY <3>2, <3>3
  <2>5. CASE q # c /\ (q # p \/ code[p] # "start_cli")
    <3>1. ch_cli'[q] = ch_cli[q] /\ code'[q] = code[q]
      BY <1>0, <1>1, <2>5
    <3>2. CASE code[q] = "start_cli"
      <4>1. q # p /\ loop'[q] = loop[q]
        BY <2>5, <3>2
      <4>2. CASE i < loop[q]
        BY <2>2, <2>5, <3>1, <4>2
      <4>3. CASE ~(i < loop[q])
        BY <3>1, <3>2, <4>1, <4>3 DEF SockCodes
      <4>. QED  BY <4>2, <4>3
    <3>3. CASE code[q] # "start_cli"
      BY <2>2, <2>5, <3>1, <3>3
    <3>. QED  BY <3>2, <3>3
  <2>. QED  BY <2>1, <2>3, <2>4, <2>5
<1>15. StoredIds'
  <2>. SUFFICES ASSUME NEW q \in Pids, NEW i \in Comms
                PROVE  /\ ch_comm'[q][i] = -1 => ForkCanFail'
                       /\ ch_comm'[q][i] \in Pids => group'[ch_comm'[q][i]] = group'[q]
    BY DEF StoredIds
  <2>1. \A r \in Pids :
          /\ ch_comm[r][i] = -1 => ForkCanFail'
          /\ ch_comm[r][i] \in Pids => ch_comm[r][i] # c /\ group[ch_comm[r][i]] = group[r]
    BY <1>2, <1>5 DEF StoredIds, ForkCanFail
  <2>2. \A ch \in Pids : group'[ch] = IF ch = c THEN group[p] ELSE group[ch]
    BY <1>0, <1>1
  <2>3. ch_comm'[c][i] = ch_comm[p][i] \/ ch_comm'[c][i] = 0
    OBVIOUS
  <2>4. ch_comm'[p][i] = ch_comm[p][i] \/ ch_comm'[p][i] = c
    <3>1. ch_comm[p] \in [Comms -> Pids \cup {0, -1}]
      BY <1>0, <1>1
    <3>. QED  BY <3>1
  <2>5. c # -1 /\ 0 # -1
    BY <1>0 DEF Pids
  <2>6. CASE q = c
    BY <1>0, <2>1, <2>2, <2>3, <2>5, <2>6
  <2>7. CASE q = p
    BY <1>0, <2>1, <2>2, <2>4, <2>5, <2>7
  <2>8. CASE q # c /\ q # p
    BY <1>0, <2>1, <2>2, <2>8
  <2>. QED  BY <2>6, <2>7, <2>8
<1>16. ServersHoldPort'
  <2>1. does = "handle" => p \in listening
    BY <1>0 DEF ServersHoldPort
  <2>2. \A q \in Pids : code'[q] = IF q = c THEN does ELSE code[q]
    BY <1>0, <1>1
  <2>. QED  BY <1>0, <1>3, <2>1, <2>2 DEF ServersHoldPort
<1>. QED  BY <1>4, <1>6, <1>7, <1>8, <1>10, <1>13, <1>14, <1>15, <1>16

(* A start of the program makes a root of an unused process.               *)
LEMMA StartStep ==
  ASSUME IInv, NEW p \in Pids, Start(p)
  PROVE  IInv'
<1>. USE DEF IInv
<1>0. /\ p \in Unused /\ code[p] = "none" /\ p # 0
      /\ code' = [code EXCEPT ![p] = "start_comm"]
      /\ group' = [group EXCEPT ![p] = p]
      /\ UNCHANGED <<parent, loop, exit_main, ch_comm, ch_cli, listening, halted, conns>>
      /\ code \in [Pids -> {"none", "dead"} \cup MainCodes \cup SockCodes \cup ShellCodes]
      /\ group \in [Pids -> Pids \cup {0}]
      /\ listening \subseteq Alive
  BY DEF Start, NextPid, Unused, Goto, Pids, TypeOK
<1>1. /\ loop[p] = 0 /\ group[p] = 0
      /\ \A i \in Clis : ch_cli[p][i] = 0
      /\ \A i \in Comms : ch_comm[p][i] = 0
      /\ \A q \in Pids : parent[q] # p /\ group[q] # p
      /\ \A q \in Pids, i \in Comms : ch_comm[q][i] # p
      /\ \A q \in Pids, i \in Clis : ch_cli[q][i] # p
  BY <1>0 DEF UnusedBlank
<1>2. Unused' = Unused \ {p} /\ Alive' = Alive \cup {p} /\ Roots' = Roots \cup {p}
  BY <1>0, <1>1 DEF Unused, Alive, Roots
<1>3. TypeOK'
  BY <1>0, <1>2 DEF TypeOK, MainCodes
<1>4. QuitReachesMain'
  BY <1>0, <1>1 DEF QuitReachesMain, ShellCodes, TypeOK
<1>5. OnePortOwner'
  BY <1>0 DEF OnePortOwner, Alive
<1>6. UnusedBlank'
  BY <1>0, <1>2 DEF UnusedBlank
<1>7. RootsAreMain'
  BY <1>0, <1>2 DEF RootsAreMain, Roots, MainCodes
<1>8. \A q, ch : ch # p /\ ChildOf(q, ch) => ChildOf(q, ch)'
  BY <1>0, <1>2 DEF ChildOf, ForkCanFail
<1>9. CommIds'
  <2>. SUFFICES ASSUME NEW r \in Roots \cup {p}, NEW i \in Comms,
                       code'[r] \in MainCodes, code'[r] = "start_comm" => i < loop[r]
                PROVE  ChildOf(r, ch_comm[r][i])
    BY <1>0, <1>1, <1>2, <1>8 DEF CommIds, Roots
  <2>1. r # p
    BY <1>0, <1>1 DEF Comms
  <2>. QED  BY <1>0, <2>1 DEF CommIds, Roots
<1>10. CliIds'
  <2>. SUFFICES ASSUME NEW q \in Pids, NEW i \in Clis
                PROVE  /\ code'[q] \in SockCodes \cup {"start_comm"} => ch_cli[q][i] = 0
                       /\ code'[q] \in MainCodes \ {"start_comm"} /\ (code'[q] = "start_cli" => i < loop[q])
                            => ChildOf(q, ch_cli[q][i])
    BY <1>0, <1>1, <1>8 DEF CliIds
  <2>. QED  BY <1>0, <1>1 DEF CliIds
<1>11. StoredIds'
  <2>. SUFFICES ASSUME NEW q \in Pids, NEW i \in Comms
                PROVE  /\ ch_comm[q][i] = -1 => ForkCanFail'
                       /\ ch_comm[q][i] \in Pids => group'[ch_comm[q][i]] = group'[q]
    BY <1>0 DEF StoredIds
  <2>1. /\ ch_comm[q][i] = -1 => ForkCanFail'
        /\ ch_comm[q][i] \in Pids => ch_comm[q][i] # p /\ group[ch_comm[q][i]] = group[q]
    BY <1>1, <1>2 DEF StoredIds, ForkCanFail
  <2>2. q = p => ch_comm[q][i] \notin Pids
    BY <1>1 DEF Pids
  <2>. QED  BY <1>0, <2>1, <2>2
<1>12. ServersHoldPort'
  BY <1>0 DEF ServersHoldPort
<1>. QED  BY <1>3, <1>4, <1>5, <1>6, <1>7, <1>9, <1>10, <1>11, <1>12

(* A fork that fails leaves -1 where the number of the child would be.     *)
LEMMA ForkFailStep ==
  ASSUME IInv, NEW p \in Pids, sock_comm_start_fails(p) \/ cli_comm_start_fails(p)
  PROVE  IInv'
<1>. USE DEF IInv
<1>0. /\ p \notin Unused /\ ForkCanFail
      /\ UNCHANGED <<code, parent, group, exit_main, listening, halted, conns>>
      /\ loop' = [loop EXCEPT ![p] = loop[p] + 1] /\ loop \in [Pids -> Nat]
      /\ ch_comm \in [Pids -> [Comms -> Pids \cup {0, -1}]]
      /\ ch_cli \in [Pids -> [Clis -> Pids \cup {0, -1}]]
  BY DEF sock_comm_start_fails, cli_comm_start_fails, Unused, TypeOK
<1>1. Unused' = Unused /\ Alive' = Alive /\ Roots' = Roots
  BY <1>0 DEF Unused, Alive, Roots
<1>2. QuitReachesMain' /\ OnePortOwner' /\ RootsAreMain'
  BY <1>0, <1>1 DEF QuitReachesMain, OnePortOwner, RootsAreMain
<1>3. \A q, ch : ChildOf(q, ch)' <=> ChildOf(q, ch)
  BY <1>0, <1>1 DEF ChildOf, ForkCanFail
<1>4. \A q : ChildOf(q, -1)
  BY <1>0 DEF ChildOf
<1>5. -1 \notin Pids
  BY DEF Pids
<1>a. ServersHoldPort'
  BY <1>0 DEF ServersHoldPort
<1>6. CASE sock_comm_start_fails(p)
  <2>1. /\ code[p] = "start_comm" /\ ch_cli' = ch_cli
        /\ ch_comm' = [ch_comm EXCEPT ![p][loop[p]] = -1]
    BY <1>6 DEF sock_comm_start_fails
  <2>2. TypeOK'
    <3>1. [ch_comm[p] EXCEPT ![loop[p]] = -1] \in [Comms -> Pids \cup {0, -1}]
      BY <1>0
    <3>2. ch_comm' = [ch_comm EXCEPT ![p] = [ch_comm[p] EXCEPT ![loop[p]] = -1]]
      BY <1>0, <2>1
    <3>3. ch_comm' \in [Pids -> [Comms -> Pids \cup {0, -1}]]
      BY <1>0, <3>1, <3>2
    <3>4. loop' \in [Pids -> Nat]
      BY <1>0
    <3>. QED  BY <1>0, <1>1, <2>1, <3>3, <3>4 DEF TypeOK
  <2>3. UnusedBlank'
    BY <1>0, <1>1, <1>5, <2>1 DEF UnusedBlank, Unused
  <2>4. CommIds'
    <3>. SUFFICES ASSUME NEW r \in Roots, NEW i \in Comms,
                         code[r] \in MainCodes, code[r] = "start_comm" => i < loop'[r]
                  PROVE  ChildOf(r, ch_comm'[r][i])
      BY <1>0, <1>1, <1>3 DEF CommIds
    <3>1. r \in Pids
      BY DEF Roots
    <3>2. CASE r = p /\ i = loop[p]
      BY <1>0, <1>4, <2>1, <3>1, <3>2
    <3>3. CASE r = p /\ i # loop[p]
      <4>1. i < loop[p] /\ ch_comm'[r][i] = ch_comm[r][i]
        BY <1>0, <2>1, <3>3 DEF Comms
      <4>. QED  BY <3>3, <4>1 DEF CommIds
    <3>4. CASE r # p
      BY <1>0, <2>1, <3>1, <3>4 DEF CommIds
    <3>. QED  BY <3>2, <3>3, <3>4
  <2>5. CliIds'
    <3>1. \A q \in Pids : code[q] # "start_comm" => loop'[q] = loop[q]
      BY <1>0, <2>1
    <3>. QED  BY <1>0, <1>3, <2>1, <3>1 DEF CliIds
  <2>6. StoredIds'
    <3>1. \A q \in Pids, i \in Comms : ch_comm'[q][i] = ch_comm[q][i] \/ ch_comm'[q][i] = -1
      BY <1>0, <2>1
    <3>. QED  BY <1>0, <1>1, <1>5, <3>1 DEF StoredIds, ForkCanFail
  <2>. QED  BY <1>2, <1>a, <2>2, <2>3, <2>4, <2>5, <2>6
<1>7. CASE cli_comm_start_fails(p)
  <2>1. /\ code[p] = "start_cli" /\ ch_comm' = ch_comm
        /\ ch_cli' = [ch_cli EXCEPT ![p][loop[p]] = -1]
    BY <1>7 DEF cli_comm_start_fails
  <2>2. TypeOK'
    <3>1. [ch_cli[p] EXCEPT ![loop[p]] = -1] \in [Clis -> Pids \cup {0, -1}]
      BY <1>0
    <3>2. ch_cli' = [ch_cli EXCEPT ![p] = [ch_cli[p] EXCEPT ![loop[p]] = -1]]
      BY <1>0, <2>1
    <3>3. ch_cli' \in [Pids -> [Clis -> Pids \cup {0, -1}]]
      BY <1>0, <3>1, <3>2
    <3>4. loop' \in [Pids -> Nat]
      BY <1>0
    <3>. QED  BY <1>0, <1>1, <2>1, <3>3, <3>4 DEF TypeOK
  <2>3. UnusedBlank'
    BY <1>0, <1>1, <1>5, <2>1 DEF UnusedBlank, Unused
  <2>4. CommIds'
    <3>1. \A q \in Pids : code[q] # "start_cli" => loop'[q] = loop[q]
      BY <1>0, <2>1
    <3>. QED  BY <1>0, <1>1, <1>3, <2>1, <3>1 DEF CommIds, Roots
  <2>5. CliIds'
    <3>. SUFFICES ASSUME NEW q \in Pids, NEW i \in Clis
                  PROVE  /\ code[q] \in SockCodes \cup {"start_comm"} => ch_cli'[q][i] = 0
                         /\ code[q] \in MainCodes \ {"start_comm"} /\ (code[q] = "start_cli" => i < loop'[q])
                              => ChildOf(q, ch_cli'[q][i])
      BY <1>0, <1>3 DEF CliIds
    <3>1. CASE q = p /\ i = loop[p]
      BY <1>0, <1>4, <2>1, <3>1 DEF SockCodes
    <3>2. CASE q = p /\ i # loop[p]
      <4>1. i < loop'[p] => i < loop[p]
        BY <1>0, <3>2 DEF Clis
      <4>2. ch_cli'[q][i] = ch_cli[q][i]
        BY <1>0, <2>1, <3>2
      <4>. QED  BY <3>2, <4>1, <4>2 DEF CliIds
    <3>3. CASE q # p
      BY <1>0, <2>1, <3>3 DEF CliIds
    <3>. QED  BY <3>1, <3>2, <3>3
  <2>6. StoredIds'
    BY <1>0, <1>1, <2>1 DEF StoredIds, ForkCanFail
  <2>. QED  BY <1>2, <1>a, <2>2, <2>3, <2>4, <2>5, <2>6
<1>. QED  BY <1>6, <1>7

-----------------------------------------------------------------------------
(* The steps that move one process through its code.                       *)
LEMMA MoveSteps ==
  ASSUME IInv, NEW p \in Pids,
         \/ EndStartComm(p) \/ EndStartCli(p)
         \/ Bind(p) \/ BindFails(p) \/ AcceptFails(p) \/ HandlerLeavesLoop(p)
         \/ QuitSignal(p)
         \/ BeginHalt(p) \/ EndHaltComm(p) \/ EndHaltCli(p)
         \/ EndHaltSwitch(p) \/ EndHaltProto(p)
  PROVE  IInv'
<1>0. /\ loop \in [Pids -> Nat] /\ exit_main \in [Pids -> BOOLEAN]
      /\ listening \subseteq Alive /\ OnePortOwner
  BY DEF IInv, TypeOK
<1>. USE DEF Goto
<1>1. CASE EndStartComm(p)
  <2>1. p \in Alive /\ OnePortOwner' /\ loop' \in [Pids -> Nat]
    BY <1>0, <1>1 DEF EndStartComm, Alive, OnePortOwner
  <2>. QED  BY <1>0, <1>1, <2>1, MoveStep DEF EndStartComm
<1>2. CASE EndStartCli(p)
  <2>1. p \in Alive /\ OnePortOwner' /\ {"start_cli", "wait"} \subseteq MainCodes \ {"start_comm"}
    BY <1>0, <1>2 DEF EndStartCli, Alive, OnePortOwner, MainCodes
  <2>. QED  BY <1>0, <1>2, <2>1, MoveStep DEF EndStartCli
<1>3. CASE Bind(p)
  <2>1. p \in Alive /\ OnePortOwner' /\ {"bind", "accept"} \subseteq SockCodes /\ listening' \subseteq Alive
    BY <1>0, <1>3 DEF Bind, Alive, OnePortOwner, SockCodes
  <2>. QED  BY <1>0, <1>3, <2>1, MoveStep DEF Bind
<1>4. CASE BindFails(p) \/ AcceptFails(p)
  <2>1. /\ p \in Alive /\ OnePortOwner' /\ {"bind", "accept"} \subseteq SockCodes
        /\ loop' \in [Pids -> Nat]
    BY <1>0, <1>4 DEF BindFails, AcceptFails, ReturnToMain, Alive, OnePortOwner, SockCodes
  <2>. QED  BY <1>0, <1>4, <2>1, MoveStep DEF BindFails, AcceptFails, ReturnToMain
<1>5. CASE HandlerLeavesLoop(p)
  <2>1. p \in Alive /\ OnePortOwner' /\ {"handle", "accept"} \subseteq SockCodes
    BY <1>0, <1>5 DEF HandlerLeavesLoop, Alive, OnePortOwner, SockCodes
  <2>2. p \in listening
    BY <1>5 DEF IInv, ServersHoldPort, HandlerLeavesLoop
  <2>. QED  BY <1>0, <1>5, <2>1, <2>2, MoveStep DEF HandlerLeavesLoop
<1>6. CASE QuitSignal(p)
  <2>1. p \in Alive /\ OnePortOwner' /\ exit_main' \in [Pids -> BOOLEAN]
    BY <1>0, <1>6 DEF QuitSignal, Alive, OnePortOwner
  <2>. QED  BY <1>0, <1>6, <2>1, MoveStep DEF QuitSignal
<1>7. CASE BeginHalt(p) \/ EndHaltComm(p) \/ EndHaltCli(p) \/ EndHaltSwitch(p) \/ EndHaltProto(p)
  <2>1. /\ p \in Alive /\ OnePortOwner' /\ loop' \in [Pids -> Nat]
        /\ {"wait", "halt_comm", "halt_cli", "halt_sw", "halt_proto", "close"}
             \subseteq MainCodes \ {"start_comm"}
    BY <1>0, <1>7 DEF BeginHalt, EndHaltComm, EndHaltCli, EndHaltSwitch, EndHaltProto,
                      Alive, OnePortOwner, MainCodes
  <2>. QED  BY <1>0, <1>7, <2>1, MoveStep
            DEF BeginHalt, EndHaltComm, EndHaltCli, EndHaltSwitch, EndHaltProto
<1>. QED  BY <1>1, <1>2, <1>3, <1>4, <1>5, <1>6, <1>7

(* The steps that only halt a module without a process, or take a signal.  *)
LEMMA QuietSteps ==
  ASSUME IInv, NEW p \in Pids, HaltSwitch(p) \/ HaltProto(p) \/ Usr1(p)
  PROVE  IInv'
<1>a. /\ loop \in [Pids -> Nat] /\ exit_main \in [Pids -> BOOLEAN]
      /\ halted \in [Pids -> SUBSET Modules]
  BY DEF IInv, TypeOK
<1>b. UNCHANGED <<code, parent, group, ch_comm, ch_cli, listening, conns>>
  BY DEF HaltSwitch, HaltProto, Usr1
<1>c. exit_main' \in [Pids -> BOOLEAN]
  BY <1>a DEF HaltSwitch, HaltProto, Usr1
<1>d. \/ loop' = loop
      \/ loop' = [loop EXCEPT ![p] = loop[p] + 1] /\ code[p] \in {"halt_sw", "halt_proto"}
  BY DEF HaltSwitch, HaltProto, Usr1
<1>0. /\ loop \in [Pids -> Nat] /\ exit_main \in [Pids -> BOOLEAN]
      /\ halted \in [Pids -> SUBSET Modules]
      /\ UNCHANGED <<code, parent, group, ch_comm, ch_cli, listening, conns>>
      /\ exit_main' \in [Pids -> BOOLEAN] /\ loop' \in [Pids -> Nat]
      /\ \A q \in Pids : loop'[q] = loop[q] \/ code[q] \in {"halt_sw", "halt_proto"}
  BY <1>a, <1>b, <1>c, <1>d
<1>1. halted' \in [Pids -> SUBSET Modules]
  <2>1. HaltSwitch(p) => <<"switch", loop[p]>> \in Modules
    BY DEF HaltSwitch, Modules
  <2>2. HaltProto(p) => <<"protocol", loop[p]>> \in Modules
    BY <1>0 DEF HaltProto, Modules
  <2>. QED  BY <1>0, <2>1, <2>2 DEF HaltSwitch, HaltProto, Usr1
<1>2. Unused' = Unused /\ Alive' = Alive /\ Roots' = Roots
  BY <1>0 DEF Unused, Alive, Roots
<1>3. TypeOK' /\ QuitReachesMain' /\ OnePortOwner' /\ RootsAreMain'
  BY <1>0, <1>1, <1>2 DEF IInv, TypeOK, QuitReachesMain, OnePortOwner, RootsAreMain
<1>4. UnusedBlank'
  BY <1>0, <1>2 DEF IInv, UnusedBlank, Unused
<1>5. \A q, ch : ChildOf(q, ch)' <=> ChildOf(q, ch)
  BY <1>0, <1>2 DEF ChildOf, ForkCanFail
<1>6. CommIds' /\ CliIds'
  BY <1>0, <1>2, <1>5 DEF IInv, CommIds, CliIds, Roots
<1>7. StoredIds' /\ ServersHoldPort'
  BY <1>0, <1>2 DEF IInv, StoredIds, ForkCanFail, ServersHoldPort
<1>. QED  BY <1>3, <1>4, <1>6, <1>7 DEF IInv

(* The steps in which a process forks.                                     *)
LEMMA ForkSteps ==
  ASSUME IInv, NEW p \in Pids, sock_comm_start(p) \/ cli_comm_start(p) \/ Accept(p)
  PROVE  IInv'
<1>0. /\ loop \in [Pids -> Nat] /\ conns \in Nat
      /\ ch_comm \in [Pids -> [Comms -> Pids \cup {0, -1}]]
      /\ ch_cli \in [Pids -> [Clis -> Pids \cup {0, -1}]]
      /\ p \in Alive /\ \A c \in NextPid : c \in Unused /\ c # p /\ c \in Pids
  BY DEF IInv, TypeOK, sock_comm_start, cli_comm_start, Accept, Alive, NextPid, Unused
<1>1. CASE sock_comm_start(p)
  <2>1. PICK c \in NextPid :
          /\ Fork(p, c, "bind")
          /\ ch_comm' = [ch_comm EXCEPT ![p][loop[p]] = c,
                                        ![c] = [ch_comm[p] EXCEPT ![loop[p]] = 0]]
          /\ ch_cli' = [ch_cli EXCEPT ![c] = ch_cli[p]]
          /\ loop' = [loop EXCEPT ![p] = loop[p] + 1, ![c] = loop[p]]
    BY <1>1 DEF sock_comm_start
  <2>2. c \in Pids /\ c # p
    BY <1>0
  <2>3. /\ ch_comm' = [ch_comm EXCEPT ![p] = [ch_comm[p] EXCEPT ![loop[p]] = c],
                               ![c] = [ch_comm[p] EXCEPT ![loop[p]] = 0]]
        /\ [ch_comm[p] EXCEPT ![loop[p]] = c] \in [Comms -> Pids \cup {0, -1}]
        /\ [ch_comm[p] EXCEPT ![loop[p]] = 0] \in [Comms -> Pids \cup {0, -1}]
    BY <1>0, <2>1, <2>2
  <2>a. /\ ch_comm'[p] = [ch_comm[p] EXCEPT ![loop[p]] = c]
        /\ ch_comm'[c] = [ch_comm[p] EXCEPT ![loop[p]] = 0]
        /\ \A q \in Pids \ {p, c} : ch_comm'[q] = ch_comm[q]
    BY <1>0, <2>2, <2>3
  <2>b. /\ ch_cli'[p] = ch_cli[p] /\ ch_cli'[c] = ch_cli[p]
        /\ \A q \in Pids \ {p, c} : ch_cli'[q] = ch_cli[q] /\ loop'[q] = loop[q]
        /\ loop'[p] = loop[p] + 1
    BY <1>0, <2>1, <2>2
  <2>c. loop' \in [Pids -> Nat] /\ ch_cli' \in [Pids -> [Clis -> Pids \cup {0, -1}]]
    BY <1>0, <2>1, <2>2
  <2>4. ch_comm' \in [Pids -> [Comms -> Pids \cup {0, -1}]]
    BY <1>0, <2>2, <2>3
  <2>5. \A i \in Comms : ch_comm'[c][i] = ch_comm[p][i] \/ ch_comm'[c][i] = 0
    BY <1>0, <2>a
  <2>. QED  BY <1>0, <1>1, <2>1, <2>2, <2>a, <2>b, <2>c, <2>4, <2>5, ForkStep DEF sock_comm_start
<1>2. CASE cli_comm_start(p)
  <2>1. PICK c \in NextPid :
          /\ Fork(p, c, "shell")
          /\ ch_comm' = [ch_comm EXCEPT ![c] = ch_comm[p]]
          /\ ch_cli' = [ch_cli EXCEPT ![p][loop[p]] = c,
                                      ![c] = [ch_cli[p] EXCEPT ![loop[p]] = 0]]
          /\ loop' = [loop EXCEPT ![p] = loop[p] + 1, ![c] = loop[p]]
    BY <1>2 DEF cli_comm_start
  <2>2. c \in Pids /\ c # p
    BY <1>0
  <2>3. /\ ch_cli' = [ch_cli EXCEPT ![p] = [ch_cli[p] EXCEPT ![loop[p]] = c],
                              ![c] = [ch_cli[p] EXCEPT ![loop[p]] = 0]]
        /\ [ch_cli[p] EXCEPT ![loop[p]] = c] \in [Clis -> Pids \cup {0, -1}]
        /\ [ch_cli[p] EXCEPT ![loop[p]] = 0] \in [Clis -> Pids \cup {0, -1}]
    BY <1>0, <2>1, <2>2
  <2>a. /\ ch_cli'[p] = [ch_cli[p] EXCEPT ![loop[p]] = c]
        /\ ch_cli'[c] = [ch_cli[p] EXCEPT ![loop[p]] = 0]
        /\ \A q \in Pids \ {p, c} : ch_cli'[q] = ch_cli[q]
    BY <1>0, <2>2, <2>3
  <2>b. /\ ch_comm'[p] = ch_comm[p] /\ ch_comm'[c] = ch_comm[p]
        /\ \A q \in Pids \ {p, c} : ch_comm'[q] = ch_comm[q] /\ loop'[q] = loop[q]
        /\ loop'[p] = loop[p] + 1
    BY <1>0, <2>1, <2>2
  <2>c. loop' \in [Pids -> Nat] /\ ch_comm' \in [Pids -> [Comms -> Pids \cup {0, -1}]]
    BY <1>0, <2>1, <2>2
  <2>4. ch_cli' \in [Pids -> [Clis -> Pids \cup {0, -1}]]
    BY <1>0, <2>2, <2>3
  <2>5. \A i \in Clis : ch_cli'[c][i] = ch_cli[p][i] \/ ch_cli'[c][i] = 0
    BY <1>0, <2>a
  <2>. QED  BY <1>0, <1>2, <2>1, <2>2, <2>a, <2>b, <2>c, <2>4, <2>5, ForkStep DEF cli_comm_start
<1>3. CASE Accept(p)
  <2>1. PICK c \in NextPid :
          /\ Fork(p, c, "handle")
          /\ loop' = [loop EXCEPT ![c] = loop[p]]
          /\ ch_comm' = [ch_comm EXCEPT ![c] = ch_comm[p]]
          /\ ch_cli' = [ch_cli EXCEPT ![c] = ch_cli[p]]
    BY <1>3 DEF Accept
  <2>2. /\ ch_comm'[p] = ch_comm[p] /\ ch_comm'[c] = ch_comm[p]
        /\ ch_cli'[p] = ch_cli[p] /\ ch_cli'[c] = ch_cli[p]
        /\ \A q \in Pids \ {p, c} :
             ch_comm'[q] = ch_comm[q] /\ ch_cli'[q] = ch_cli[q] /\ loop'[q] = loop[q]
        /\ loop' \in [Pids -> Nat]
        /\ ch_comm' \in [Pids -> [Comms -> Pids \cup {0, -1}]]
        /\ ch_cli' \in [Pids -> [Clis -> Pids \cup {0, -1}]]
    BY <1>0, <2>1
  <2>3. conns' \in Nat
    BY <1>0, <1>3 DEF Accept
  <2>. QED  BY <1>0, <1>3, <2>1, <2>2, <2>3, ForkStep DEF Accept
<1>. QED  BY <1>1, <1>2, <1>3

(* The steps in which processes end.                                       *)
LEMMA EndSteps ==
  ASSUME IInv, NEW p \in Pids,
         \/ HandlerDies(p) \/ QuitDie(p) \/ Crash(p) \/ Term(p) \/ Interrupt(p)
         \/ HaltComm(p) \/ HaltCli(p) \/ HaltSwitchCrashes(p) \/ CloseAndDie(p)
  PROVE  IInv'
<1>0. /\ loop \in [Pids -> Nat] /\ halted \in [Pids -> SUBSET Modules]
      /\ code \in [Pids -> {"none", "dead"} \cup MainCodes \cup SockCodes \cup ShellCodes]
  BY DEF IInv, TypeOK
<1>1. CASE HandlerDies(p) \/ QuitDie(p) \/ Crash(p) \/ Term(p) \/ HaltSwitchCrashes(p) \/ CloseAndDie(p)
  <2>1. {p} \in SUBSET Alive
    BY <1>1 DEF HandlerDies, QuitDie, Crash, Term, HaltSwitchCrashes, CloseAndDie, Alive
  <2>2. End({p}, code) /\ UNCHANGED <<group, loop, exit_main, ch_comm, ch_cli, halted, conns>>
    BY <1>1 DEF HandlerDies, QuitDie, Crash, Term, HaltSwitchCrashes, CloseAndDie
  <2>. QED  BY <1>0, <2>1, <2>2, EndStep
<1>2. CASE Interrupt(p)
  <2>. DEFINE dying == {q \in Alive : group[q] = p /\ (exit_main[q] \/ NCli = 0)}
  <2>1. dying \in SUBSET Alive
    OBVIOUS
  <2>2. End(dying, code) /\ UNCHANGED <<group, loop, exit_main, ch_comm, ch_cli, halted, conns>>
    BY <1>2 DEF Interrupt
  <2>. HIDE DEF dying
  <2>. QED  BY <1>0, <2>1, <2>2, EndStep
<1>3. CASE HaltComm(p)
  <2>. DEFINE dying == Killed(p, ch_comm[p][loop[p]])
  <2>1. dying \in SUBSET Alive
    BY DEF Killed
  <2>2. /\ End(dying, code) /\ code[p] = "halt_comm"
        /\ UNCHANGED <<group, exit_main, ch_comm, ch_cli, conns>>
    BY <1>3 DEF HaltComm
  <2>3. loop' \in [Pids -> Nat] /\ \A q \in Pids : loop'[q] = loop[q] \/ code[q] = "halt_comm"
    BY <1>0, <1>3 DEF HaltComm
  <2>4. halted' \in [Pids -> SUBSET Modules]
    <3>1. <<"comm", loop[p]>> \in Modules
      BY <1>0, <1>3 DEF HaltComm, Modules, Comms
    <3>. QED  BY <1>0, <1>3, <3>1 DEF HaltComm
  <2>. HIDE DEF dying
  <2>. QED  BY <2>1, <2>2, <2>3, <2>4, EndStep
<1>4. CASE HaltCli(p)
  <2>. DEFINE dying == Killed(p, ch_cli[p][loop[p]])
              next  == [code EXCEPT ![p] = "halt_sw"]
  <2>1. dying \in SUBSET Alive
    BY DEF Killed
  <2>2. /\ End(dying, next) /\ code[p] = "halt_cli"
        /\ UNCHANGED <<group, exit_main, ch_comm, ch_cli, conns>>
    BY <1>4 DEF HaltCli
  <2>3. \A q \in Pids : next[q] = code[q] \/ (code[q] = "halt_cli" /\ next[q] = "halt_sw")
    BY <1>0, <2>2
  <2>4. loop' \in [Pids -> Nat] /\ \A q \in Pids : loop'[q] = loop[q] \/ code[q] = "halt_cli"
    BY <1>0, <1>4 DEF HaltCli
  <2>5. halted' \in [Pids -> SUBSET Modules]
    <3>1. <<"cli", loop[p]>> \in Modules
      BY <1>0, <1>4 DEF HaltCli, Modules, Clis
    <3>. QED  BY <1>0, <1>4, <3>1 DEF HaltCli
  <2>. HIDE DEF dying, next
  <2>. QED  BY <2>1, <2>2, <2>3, <2>4, <2>5, EndStep
<1>. QED  BY <1>1, <1>2, <1>3, <1>4

(* The invariant does not look at anything but the variables.              *)
LEMMA StutterStep ==
  ASSUME IInv, UNCHANGED vars
  PROVE  IInv'
<1>. USE DEF vars
<1>1. UNCHANGED <<Alive, Unused, Roots>>
  BY DEF Alive, Unused, Roots
<1>2. \A q, ch : ChildOf(q, ch)' <=> ChildOf(q, ch)
  BY <1>1 DEF ChildOf, ForkCanFail
<1>3. TypeOK' /\ QuitReachesMain' /\ OnePortOwner' /\ UnusedBlank' /\ RootsAreMain'
  BY <1>1 DEF IInv, TypeOK, QuitReachesMain, OnePortOwner, UnusedBlank, RootsAreMain
<1>4. CommIds' /\ CliIds'
  BY <1>1, <1>2 DEF IInv, CommIds, CliIds
<1>5. StoredIds' /\ ServersHoldPort'
  BY <1>1 DEF IInv, StoredIds, ForkCanFail, ServersHoldPort
<1>. QED  BY <1>3, <1>4, <1>5 DEF IInv

(* The inductive invariant, for every number of processes and modules and  *)
(* every set of faults.                                                    *)
THEOREM InvariantHolds == Spec => []IInv
<1>1. Init => IInv
  BY InitIInv
<1>2. IInv /\ [Next]_vars => IInv'
  <2>. SUFFICES ASSUME IInv, [Next]_vars PROVE IInv'
    OBVIOUS
  <2>1. ASSUME NEW p \in Pids, Proceed(p) PROVE IInv'
    BY <2>1, MoveSteps, QuietSteps, ForkSteps, EndSteps, ForkFailStep DEF Proceed
  <2>2. ASSUME NEW p \in Pids, Respond(p) PROVE IInv'
    BY <2>2, StartStep, MoveSteps, QuietSteps, ForkSteps, EndSteps DEF Respond
  <2>3. CASE UNCHANGED vars
    BY <2>3, StutterStep
  <2>. QED  BY <2>1, <2>2, <2>3 DEF Next
<1>. QED  BY <1>1, <1>2, PTL DEF Spec

(* Every variable has its type, for any number of processes and modules.   *)
THEOREM TypeCorrect == Spec => []TypeOK
<1>1. IInv => TypeOK
  BY DEF IInv
<1>. QED  BY <1>1, InvariantHolds, PTL

(* Quit is never sent to a listener or a handler (lib_cli_comm.c:55), even *)
(* when failed listeners run main() again and fork shells of their own.    *)
THEOREM QuitIsHeard == Spec => []QuitReachesMain
<1>1. IInv => QuitReachesMain
  BY DEF IInv
<1>. QED  BY <1>1, InvariantHolds, PTL

(* At most one start of the program holds the port at a time.              *)
THEOREM PortOwner == Spec => []OnePortOwner
<1>1. IInv => OnePortOwner
  BY DEF IInv
<1>. QED  BY <1>1, InvariantHolds, PTL

(* exit_handler of the process the operator started kills exactly its own  *)
(* children, or everybody after a failed fork.  A listener that became a   *)
(* main program may kill its group, with the first process and its shell,  *)
(* but nobody of another start (lib_sock_comm.c:98, lib_cli_comm.c:119).   *)
THEOREM KillsOwnChildren == Spec => []KillTargets
<1>1. IInv => KillTargets
  <2>. SUFFICES ASSUME IInv, NEW p \in Pids
                PROVE  /\ code[p] = "halt_comm" /\ loop[p] < NComm =>
                            /\ p \in Roots => ChildOf(p, ch_comm[p][loop[p]])
                            /\ OwnGroup(p, ch_comm[p][loop[p]])
                       /\ code[p] = "halt_cli" /\ loop[p] < NCli =>
                            ChildOf(p, ch_cli[p][loop[p]])
    BY DEF KillTargets
  <2>0. loop[p] \in Nat
    BY DEF IInv, TypeOK
  <2>1. ASSUME code[p] = "halt_comm", loop[p] < NComm
        PROVE  /\ p \in Roots => ChildOf(p, ch_comm[p][loop[p]])
               /\ OwnGroup(p, ch_comm[p][loop[p]])
    <3>1. loop[p] \in Comms /\ "halt_comm" \in MainCodes
      BY <2>0, <2>1 DEF Comms, MainCodes
    <3>2. p \in Roots => ChildOf(p, ch_comm[p][loop[p]])
      BY <2>1, <3>1 DEF IInv, CommIds
    <3>3. ch_comm[p][loop[p]] \in Pids \cup {0, -1}
      BY <3>1 DEF IInv, TypeOK
    <3>4. OwnGroup(p, ch_comm[p][loop[p]])
      BY <3>1, <3>3 DEF IInv, StoredIds, OwnGroup, Killed
    <3>. QED  BY <3>2, <3>4
  <2>2. ASSUME code[p] = "halt_cli", loop[p] < NCli
        PROVE  ChildOf(p, ch_cli[p][loop[p]])
    <3>1. loop[p] \in Clis /\ "halt_cli" \in MainCodes \ {"start_comm"}
      BY <2>0, <2>2 DEF Clis, MainCodes
    <3>. QED  BY <2>2, <3>1 DEF IInv, CliIds
  <2>. QED  BY <2>1, <2>2
<1>. QED  BY <1>1, InvariantHolds, PTL

-----------------------------------------------------------------------------
(* How a process gets on, in whatever step of whatever process.            *)

GoesTo(q, c, n) == code'[q] = c /\ loop'[q] = n

StartSteps(q) ==
  \/ code[q] = "none" /\ GoesTo(q, "start_comm", 0)
  \/ code[q] = "start_comm" /\ loop[q] < NComm /\ GoesTo(q, "start_comm", loop[q] + 1)
  \/ code[q] = "start_comm" /\ loop[q] = NComm /\ GoesTo(q, "start_cli", 0)
  \/ code[q] = "start_cli" /\ loop[q] < NCli /\ GoesTo(q, "start_cli", loop[q] + 1)
  \/ code[q] = "start_cli" /\ loop[q] = NCli /\ GoesTo(q, "wait", loop[q])

ChildSteps(q) ==
  \/ code[q] = "none" /\ code'[q] \in {"bind", "handle"} /\ loop'[q] < NComm
  \/ code[q] = "none" /\ code'[q] = "shell"
  \/ code[q] \in SockCodes /\ code'[q] \in SockCodes /\ loop'[q] = loop[q]
  \/ code[q] \in SockCodes /\ GoesTo(q, "start_comm", loop[q] + 1)
  \/ code[q] = "shell" /\ code'[q] = "quit"

ExitSteps(q) ==
  \/ code[q] = "wait" /\ GoesTo(q, "halt_comm", 0)
  \/ code[q] = "halt_comm" /\ loop[q] = NComm /\ GoesTo(q, "halt_cli", 0)
  \/ code[q] = "halt_sw" /\ loop[q] = NSwitch /\ GoesTo(q, "halt_proto", 0)
  \/ code[q] = "halt_proto" /\ loop[q] = NProto /\ GoesTo(q, "halt_cli", loop[q] + 1)
  \/ code[q] = "halt_cli" /\ loop[q] >= NCli /\ GoesTo(q, "close", loop[q])

(* A module is halted, and the process may kill itself with it.            *)
HaltsOne(q, class, c, n) ==
  /\ halted'[q] = halted[q] \cup {<<class, loop[q]>>}
  /\ GoesTo(q, c, n) \/ code'[q] = "dead"

HaltSteps(q) ==
  \/ code[q] = "halt_comm" /\ loop[q] < NComm /\ HaltsOne(q, "comm", "halt_comm", loop[q] + 1)
  \/ code[q] = "halt_cli" /\ loop[q] < NCli /\ HaltsOne(q, "cli", "halt_sw", 0)
  \/ code[q] = "halt_sw" /\ loop[q] < NSwitch /\ HaltsOne(q, "switch", "halt_sw", loop[q] + 1)
  \/ code[q] = "halt_proto" /\ loop[q] < NProto
       /\ HaltsOne(q, "protocol", "halt_proto", loop[q] + 1)

ProcessStep(q) ==
  \/ /\ halted'[q] = halted[q]
     /\ \/ GoesTo(q, code[q], loop[q])
        \/ code'[q] = "dead"
        \/ StartSteps(q) \/ ChildSteps(q) \/ ExitSteps(q)
  \/ HaltSteps(q)

(* Who goes on is in its own code or is killed; nobody else is moved.      *)
LEMMA ProcessSteps ==
  ASSUME IInv, LoopsInRange, [Next]_vars, NEW q \in Pids
  PROVE  ProcessStep(q)
<1>. USE DEF ProcessStep, GoesTo, HaltsOne
<1>0. /\ code \in [Pids -> {"none", "dead"} \cup MainCodes \cup SockCodes \cup ShellCodes]
      /\ loop \in [Pids -> Nat] /\ halted \in [Pids -> SUBSET Modules]
  BY DEF IInv, TypeOK
<1>1. CASE UNCHANGED vars
  BY <1>1 DEF vars
<1>2. ASSUME NEW p \in Pids, Proceed(p) \/ Respond(p) PROVE ProcessStep(q)
  <2>1. CASE Start(p)
    <3>1. loop[p] = 0 /\ code[p] = "none"
      BY <2>1 DEF IInv, UnusedBlank, Start, NextPid, Unused
    <3>. QED  BY <1>0, <2>1, <3>1 DEF Start, Goto, StartSteps
  <2>2. CASE sock_comm_start_fails(p) \/ EndStartComm(p) \/ cli_comm_start_fails(p) \/ EndStartCli(p)
    BY <1>0, <2>2 DEF sock_comm_start_fails, EndStartComm, cli_comm_start_fails, EndStartCli,
                      Goto, StartSteps
  <2>3. CASE sock_comm_start(p) \/ cli_comm_start(p) \/ Accept(p)
    <3>1. PICK c \in NextPid :
            /\ halted' = halted
            /\ \/ /\ code[p] = "start_comm" /\ loop[p] < NComm /\ code' = [code EXCEPT ![c] = "bind"]
                  /\ loop' = [loop EXCEPT ![p] = loop[p] + 1, ![c] = loop[p]]
               \/ /\ code[p] = "start_cli" /\ loop[p] < NCli /\ code' = [code EXCEPT ![c] = "shell"]
                  /\ loop' = [loop EXCEPT ![p] = loop[p] + 1, ![c] = loop[p]]
               \/ /\ code[p] = "accept" /\ code' = [code EXCEPT ![c] = "handle"]
                  /\ loop' = [loop EXCEPT ![c] = loop[p]]
      BY <2>3 DEF sock_comm_start, cli_comm_start, Accept, Fork
    <3>2. c \in Pids /\ code[c] = "none" /\ c # p
      BY <3>1 DEF NextPid, Unused
    <3>3. code[p] = "accept" => loop[p] < NComm
      BY DEF LoopsInRange, SockCodes
    <3>4. CASE q = c
      BY <1>0, <3>1, <3>2, <3>3, <3>4 DEF ChildSteps
    <3>5. CASE q = p
      BY <1>0, <3>1, <3>2, <3>5 DEF StartSteps
    <3>6. CASE q # c /\ q # p
      BY <1>0, <3>1, <3>2, <3>6
    <3>. QED  BY <3>4, <3>5, <3>6
  <2>4. CASE Bind(p) \/ BindFails(p) \/ AcceptFails(p) \/ HandlerLeavesLoop(p) \/ QuitSignal(p)
    BY <1>0, <2>4 DEF Bind, BindFails, AcceptFails, ReturnToMain, HandlerLeavesLoop, QuitSignal,
                      Goto, ChildSteps, SockCodes
  <2>5. CASE BeginHalt(p) \/ EndHaltComm(p) \/ EndHaltCli(p) \/ EndHaltSwitch(p) \/ EndHaltProto(p)
    BY <1>0, <2>5 DEF BeginHalt, EndHaltComm, EndHaltCli, EndHaltSwitch, EndHaltProto,
                      Goto, ExitSteps
  <2>6. CASE HaltSwitch(p)
    <3>1. loop[p] < NSwitch
      <4>1. loop[p] \in 0..(NSwitch - 1) /\ NSwitch \in Nat
        BY <2>6 DEF HaltSwitch
      <4>. QED  BY <4>1
    <3>. QED  BY <1>0, <2>6, <3>1 DEF HaltSwitch, HaltSteps
  <2>7. CASE HaltProto(p)
    BY <1>0, <2>7 DEF HaltProto, HaltSteps
  <2>8. CASE HaltComm(p)
    BY <1>0, <2>8 DEF HaltComm, End, HaltSteps
  <2>9. CASE HaltCli(p)
    BY <1>0, <2>9 DEF HaltCli, End, HaltSteps
  <2>10. CASE \/ HandlerDies(p) \/ QuitDie(p) \/ Crash(p) \/ Term(p)
              \/ HaltSwitchCrashes(p) \/ CloseAndDie(p)
    BY <1>0, <2>10 DEF HandlerDies, QuitDie, Crash, Term, HaltSwitchCrashes, CloseAndDie, End
  <2>11. CASE Interrupt(p)
    BY <1>0, <2>11 DEF Interrupt, End
  <2>12. CASE Usr1(p)
    BY <2>12 DEF Usr1
  <2>. QED  BY <1>2, <2>1, <2>2, <2>3, <2>4, <2>5, <2>6, <2>7, <2>8, <2>9, <2>10, <2>11, <2>12
            DEF Proceed, Respond
<1>. QED  BY <1>1, <1>2 DEF Next

(* No loop takes its variable past its end, for any number of modules and  *)
(* with every fault: also not in a listener that returns to main()         *)
(* (main.c:231-246, 301-312).                                              *)
THEOREM LoopsStayInRange == Spec => []LoopsInRange
<1>1. Init => LoopsInRange
  BY DEF Init, LoopsInRange, SockCodes
<1>2. IInv /\ IInv' /\ LoopsInRange /\ [Next]_vars => LoopsInRange'
  <2>. SUFFICES ASSUME IInv, loop' \in [Pids -> Nat], LoopsInRange, [Next]_vars
                PROVE  LoopsInRange'
    BY DEF IInv, TypeOK
  <2>1. ASSUME NEW q \in Pids
        PROVE  /\ code'[q] \in SockCodes => loop'[q] < NComm
               /\ code'[q] \in {"start_comm", "halt_comm"} => loop'[q] <= NComm
               /\ code'[q] = "start_cli" => loop'[q] <= NCli
               /\ code'[q] = "halt_cli" => loop'[q] \in {0, NProto + 1}
               /\ code'[q] = "halt_sw" => loop'[q] <= NSwitch
               /\ code'[q] = "halt_proto" => loop'[q] <= NProto
    <3>0. /\ ProcessStep(q) /\ loop[q] \in Nat /\ loop'[q] \in Nat
          /\ NComm \in Nat /\ NCli \in Nat /\ NSwitch \in Nat /\ NProto \in Nat
      BY ProcessSteps DEF IInv, TypeOK
    <3>1. CASE GoesTo(q, code[q], loop[q]) \/ code'[q] = "dead"
      BY <3>1 DEF GoesTo, LoopsInRange, SockCodes
    <3>2. CASE StartSteps(q)
      BY <3>0, <3>2 DEF StartSteps, GoesTo, SockCodes
    <3>3. CASE ChildSteps(q)
      BY <3>0, <3>3 DEF ChildSteps, GoesTo, LoopsInRange, SockCodes
    <3>4. CASE ExitSteps(q)
      BY <3>0, <3>4 DEF ExitSteps, GoesTo, SockCodes
    <3>5. CASE HaltSteps(q)
      BY <3>0, <3>5 DEF HaltSteps, HaltsOne, GoesTo, SockCodes
    <3>. QED  BY <3>0, <3>1, <3>2, <3>3, <3>4, <3>5 DEF ProcessStep
  <2>. QED  BY <2>1 DEF LoopsInRange
<1>. QED  BY <1>1, <1>2, InvariantHolds, PTL DEF Spec

(* main() and exit_handler only go forward (main.c:231-246, 301-353), for  *)
(* any number of processes and modules and with every fault.  By LowerEnds *)
(* a main program takes finitely many steps: what is left of "quit ends    *)
(* the program" is that it gets to take them.                              *)
THEOREM MainGoesForward == Spec => MainForward
<1>1. ASSUME IInv, LoopsInRange, loop' \in [Pids -> Nat], LoopsInRange', Next,
             NCli <= NProto + 1, NEW p \in Pids, code[p] \in MainCodes
      PROVE  UNCHANGED <<code[p], loop[p]>> \/ Lower(2, MainLeft(p)', MainLeft(p))
  <2>0. /\ ProcessStep(p) /\ loop[p] \in Nat /\ loop'[p] \in Nat
        /\ NComm \in Nat /\ NCli \in Nat /\ NSwitch \in Nat /\ NProto \in Nat
    BY <1>1, ProcessSteps DEF IInv, TypeOK
  <2>1. LoopsLeft(p) \in Nat /\ LoopsLeft(p)' \in Nat
    BY DEF LoopsLeft
  <2>2. TurnsLeft(p) \in Nat
    BY <1>1, <2>0 DEF LoopsInRange, TurnsLeft
  <2>3. TurnsLeft(p)' \in Nat
    BY <1>1, <2>0 DEF LoopsInRange, TurnsLeft
  <2>4. \/ UNCHANGED <<code[p], loop[p]>>
        \/ LoopsLeft(p)' < LoopsLeft(p)
        \/ LoopsLeft(p)' = LoopsLeft(p) /\ TurnsLeft(p)' < TurnsLeft(p)
    <3>1. CASE GoesTo(p, code[p], loop[p])
      BY <3>1 DEF GoesTo
    <3>2. CASE code'[p] = "dead"
      BY <1>1, <3>2 DEF LoopsLeft, MainCodes
    <3>3. CASE StartSteps(p)
      BY <1>1, <2>0, <3>3 DEF StartSteps, GoesTo, LoopsLeft, TurnsLeft, MainCodes
    <3>4. CASE ChildSteps(p)
      BY <1>1, <3>4 DEF ChildSteps, MainCodes, SockCodes
    <3>5. CASE ExitSteps(p)
      BY <1>1, <2>0, <3>5 DEF ExitSteps, GoesTo, LoopsLeft, TurnsLeft
    <3>6. CASE HaltSteps(p) /\ code'[p] # "dead"
      BY <1>1, <2>0, <3>6 DEF HaltSteps, HaltsOne, GoesTo, LoopsLeft, TurnsLeft
    <3>. QED  BY <2>0, <3>1, <3>2, <3>3, <3>4, <3>5, <3>6 DEF ProcessStep
  <2>. QED  BY <2>1, <2>2, <2>3, <2>4, LowerTwo DEF MainLeft
<1>2. IInv /\ IInv' /\ LoopsInRange /\ LoopsInRange' /\ [Next]_vars =>
        [NCli <= NProto + 1 =>
           \A p \in Pids : code[p] \in MainCodes =>
             UNCHANGED <<code[p], loop[p]>> \/ Lower(2, MainLeft(p)', MainLeft(p))]_vars
  <2>1. IInv' => loop' \in [Pids -> Nat]
    BY DEF IInv, TypeOK
  <2>. QED  BY <1>1, <2>1
<1>. QED  BY <1>2, InvariantHolds, LoopsStayInRange, PTL DEF Spec, MainForward

-----------------------------------------------------------------------------
(* What the order of the shutdown rests on.                                *)

LEMMA NextOfClass ==
  ASSUME NEW class, NEW n \in Nat
  PROVE  First(class, n) \cup {<<class, n>>} = First(class, n + 1) /\ First(class, 0) = {}
<1>1. 0..(n - 1) \cup {n} = 0..((n + 1) - 1) /\ 0..(0 - 1) = {}
  OBVIOUS
<1>. QED  BY <1>1 DEF First

(* Modules, class by class.                                                *)
LEMMA AllModules ==
  Modules = First("comm", NComm) \cup First("cli", NCli)
              \cup First("switch", NSwitch) \cup First("protocol", NProto)
BY DEF Modules, First, Comms, Clis

LEMMA InPlaceKept ==
  ASSUME IInv, LoopsInRange, HaltedInPlace, [Next]_vars, IInv', NCli = 1
  PROVE  HaltedInPlace'
<1>. SUFFICES ASSUME NEW q \in Pids, code'[q] # "dead"
              PROVE  halted'[q] = HaltedAt(q)'
  BY DEF HaltedInPlace
<1>0. /\ ProcessStep(q) /\ loop[q] \in Nat /\ loop'[q] \in Nat
      /\ NComm \in Nat /\ NSwitch \in Nat /\ NProto \in Nat
      /\ code[q] # "dead" => halted[q] = HaltedAt(q)
  BY ProcessSteps DEF IInv, TypeOK, HaltedInPlace
<1>1. Modules' = Modules
  BY DEF Modules
<1>2. CASE halted'[q] = halted[q] /\ GoesTo(q, code[q], loop[q])
  BY <1>0, <1>1, <1>2 DEF GoesTo, HaltedAt
<1>3. CASE halted'[q] = halted[q] /\ (StartSteps(q) \/ ChildSteps(q))
  BY <1>0, <1>3 DEF StartSteps, ChildSteps, GoesTo, SockCodes, HaltedAt
<1>4. CASE halted'[q] = halted[q] /\ ExitSteps(q)
  <2>1. First("comm", 0) = {} /\ First("switch", 0) = {} /\ First("protocol", 0) = {}
    BY NextOfClass
  <2>2. loop[q] + 1 # 0
    BY <1>0
  <2>3. CASE code[q] = "wait" \/ code[q] = "halt_comm" \/ code[q] = "halt_sw"
    BY <1>0, <1>4, <2>1, <2>3 DEF ExitSteps, GoesTo, HaltedAt
  <2>4. CASE code[q] = "halt_proto"
    <3>1. halted[q] = Modules /\ halted'[q] = Modules /\ code'[q] = "halt_cli" /\ loop'[q] # 0
      BY <1>0, <1>4, <2>2, <2>4, AllModules DEF ExitSteps, GoesTo, HaltedAt
    <3>. QED  BY <1>1, <3>1 DEF HaltedAt
  <2>5. CASE code[q] = "halt_cli"
    <3>1. loop[q] # 0 /\ code'[q] = "close"
      BY <1>0, <1>4, <2>5 DEF ExitSteps, GoesTo
    <3>2. halted'[q] = Modules
      BY <1>0, <1>4, <2>5, <3>1 DEF HaltedAt
    <3>. QED  BY <1>1, <3>1, <3>2 DEF HaltedAt
  <2>. QED  BY <1>4, <2>3, <2>4, <2>5 DEF ExitSteps
<1>5. CASE HaltSteps(q)
  <2>1. First("switch", 0) = {} /\ First("cli", 1) = {<<"cli", 0>>}
    BY DEF First
  <2>2. \A class : First(class, loop[q]) \cup {<<class, loop[q]>>} = First(class, loop[q] + 1)
    BY <1>0, NextOfClass
  <2>3. CASE code[q] = "halt_cli"
    <3>1. loop[q] = 0 /\ code'[q] = "halt_sw" /\ loop'[q] = 0
          /\ halted'[q] = halted[q] \cup {<<"cli", loop[q]>>}
      BY <1>0, <1>5, <2>3 DEF HaltSteps, HaltsOne, GoesTo
    <3>2. halted[q] = First("comm", NComm)
      BY <1>0, <2>3, <3>1 DEF HaltedAt
    <3>3. HaltedAt(q)' = First("comm", NComm) \cup First("cli", 1) \cup First("switch", 0)
      BY <3>1 DEF HaltedAt
    <3>. QED  BY <2>1, <3>1, <3>2, <3>3
  <2>4. CASE code[q] # "halt_cli"
    BY <1>0, <1>5, <2>2, <2>4 DEF HaltSteps, HaltsOne, GoesTo, HaltedAt
  <2>. QED  BY <2>3, <2>4
<1>. QED  BY <1>0, <1>2, <1>3, <1>4, <1>5 DEF ProcessStep

(* The module that is halted is a new one, and those before it are halted. *)
LEMMA HaltsNext ==
  ASSUME IInv, LoopsInRange, HaltedInPlace, NCli = 1, NEW q \in Pids, HaltSteps(q)
  PROVE  \E m \in Modules \ halted[q] :
           /\ halted'[q] = halted[q] \cup {m}
           /\ \A n \in Modules : ClassRank(n[1]) < ClassRank(m[1]) => n \in halted[q]
<1>0. /\ loop[q] \in Nat /\ NComm \in Nat /\ NSwitch \in Nat /\ NProto \in Nat
      /\ code[q] # "dead" => halted[q] = HaltedAt(q)
  BY DEF IInv, TypeOK, HaltedInPlace
<1>1. \A n \in Modules : n[1] \in {"comm", "cli", "switch", "protocol"}
  BY AllModules DEF First
<1>2. CASE code[q] = "halt_comm"
  <2>1. halted[q] = First("comm", loop[q]) /\ loop[q] < NComm
        /\ halted'[q] = halted[q] \cup {<<"comm", loop[q]>>}
    BY <1>0, <1>2 DEF HaltSteps, HaltsOne, HaltedAt
  <2>2. <<"comm", loop[q]>> \in Modules \ halted[q]
    BY <1>0, <2>1, AllModules DEF First
  <2>. QED  BY <1>1, <2>1, <2>2 DEF ClassRank
<1>3. CASE code[q] = "halt_cli"
  <2>1. halted[q] = First("comm", NComm) /\ loop[q] = 0
        /\ halted'[q] = halted[q] \cup {<<"cli", loop[q]>>}
    BY <1>0, <1>3 DEF HaltSteps, HaltsOne, HaltedAt
  <2>2. <<"cli", loop[q]>> \in Modules \ halted[q]
    BY <2>1, AllModules DEF First
  <2>3. \A n \in Modules : ClassRank(n[1]) < 2 => n \in halted[q]
    BY <2>1, AllModules DEF First, ClassRank
  <2>. QED  BY <2>1, <2>2, <2>3 DEF ClassRank
<1>4. CASE code[q] = "halt_sw"
  <2>1. halted[q] = First("comm", NComm) \cup First("cli", NCli) \cup First("switch", loop[q])
        /\ loop[q] < NSwitch /\ halted'[q] = halted[q] \cup {<<"switch", loop[q]>>}
    BY <1>0, <1>4 DEF HaltSteps, HaltsOne, HaltedAt
  <2>2. <<"switch", loop[q]>> \in Modules \ halted[q]
    BY <1>0, <2>1, AllModules DEF First
  <2>3. \A n \in Modules : ClassRank(n[1]) < 3 => n \in halted[q]
    BY <2>1, AllModules DEF First, ClassRank
  <2>. QED  BY <2>1, <2>2, <2>3 DEF ClassRank
<1>5. CASE code[q] = "halt_proto"
  <2>1. halted[q] = First("comm", NComm) \cup First("cli", NCli)
                      \cup First("switch", NSwitch) \cup First("protocol", loop[q])
        /\ loop[q] < NProto /\ halted'[q] = halted[q] \cup {<<"protocol", loop[q]>>}
    BY <1>0, <1>5 DEF HaltSteps, HaltsOne, HaltedAt
  <2>2. <<"protocol", loop[q]>> \in Modules \ halted[q]
    BY <1>0, <2>1, AllModules DEF First
  <2>3. \A n \in Modules : ClassRank(n[1]) < 4 => n \in halted[q]
    BY <2>1, AllModules DEF First, ClassRank
  <2>. QED  BY <2>1, <2>2, <2>3 DEF ClassRank
<1>. QED  BY <1>2, <1>3, <1>4, <1>5 DEF HaltSteps

(* The order of the shutdown needs nothing but the one command line: it is *)
(* kept by every process that becomes a main program, in any number of     *)
(* starts, with switches without halt and with every fault                 *)
(* (main.c:224-247).                                                       *)
THEOREM ShutdownKeepsOrder == Spec => HaltsInOrder
<1>1. Init => HaltedInPlace
  BY DEF Init, HaltedInPlace, HaltedAt
<1>2. IInv /\ IInv' /\ LoopsInRange /\ HaltedInPlace /\ [Next]_vars => HaltedInPlace'
  BY InPlaceKept DEF HaltedInPlace
<1>3. IInv /\ LoopsInRange /\ HaltedInPlace /\ [Next]_vars =>
        [NCli = 1 =>
           \A p \in Pids :
             /\ code[p] = "close" => halted[p] = Modules
             /\ \/ UNCHANGED halted[p]
                \/ \E m \in Modules \ halted[p] :
                     /\ halted'[p] = halted[p] \cup {m}
                     /\ \A n \in Modules : ClassRank(n[1]) < ClassRank(m[1]) => n \in halted[p]]_vars
  <2>. SUFFICES ASSUME IInv, LoopsInRange, HaltedInPlace, [Next]_vars, NCli = 1, NEW p \in Pids
                PROVE  /\ code[p] = "close" => halted[p] = Modules
                       /\ \/ UNCHANGED halted[p]
                          \/ \E m \in Modules \ halted[p] :
                               /\ halted'[p] = halted[p] \cup {m}
                               /\ \A n \in Modules :
                                    ClassRank(n[1]) < ClassRank(m[1]) => n \in halted[p]
    OBVIOUS
  <2>1. code[p] = "close" => halted[p] = Modules
    BY DEF HaltedInPlace, HaltedAt
  <2>2. ProcessStep(p)
    BY ProcessSteps
  <2>3. halted'[p] = halted[p] \/ HaltSteps(p)
    BY <2>2 DEF ProcessStep
  <2>. QED  BY <2>1, <2>3, HaltsNext
<1>. QED  BY <1>1, <1>2, <1>3, InvariantHolds, LoopsStayInRange, PTL DEF Spec, HaltsInOrder

============================================================================
