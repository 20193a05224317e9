----------------------------- MODULE SwRegistry -----------------------------
(***************************************************************************)
(* The boot of the program `sw`: main() reads the shared libraries of its  *)
(* directory in the order readdir gives them, calls init of each one,      *)
(* which registers a module in one of four tables of MAX_OBJECTS entries,  *)
(* registers itself as the application protocol, and then offers every     *)
(* protocol to every switch, so that the switches that support it append   *)
(* themselves to the protocol's own device table.                          *)
(*                                                                         *)
(* A table with its counter (switches[] and switch_cnt, ...) is a sequence *)
(* of module names; the C index n is position n + 1.  A library is named   *)
(* by its file, and what it contains is its kind.  No table is checked for *)
(* room in the code: a store past the end leaves the defined behaviours of *)
(* the program, and is modelled by pc = "undefined", where nothing more is *)
(* said.                                                                   *)
(***************************************************************************)
EXTENDS Naturals, Sequences, FiniteSets, SwProgress

CONSTANTS Files,        \* the names of the directory's entries
          Dirs,         \* the directories considered: functions from Files to Kinds
          AppMain,      \* the protocol that main.c itself registers
          MaxObjects    \* MAX_OBJECTS of common.h, 256 in the code

(* "plain" is an entry without ".so" in its name, "unloadable" one dlopen  *)
(* refuses, "noinit" a library without the symbol init.                    *)
Kinds == {"plain", "unloadable", "noinit", "bridge", "flow",
          "asic", "flow_stub", "sock", "cli"}

ModTypes == {"switch", "protocol", "comm", "cli"}

ASSUME DirsAssumption == Dirs \subseteq [Files -> Kinds]
ASSUME FilesAssumption == IsFiniteSet(Files) /\ AppMain \notin Files
ASSUME MaxObjectsAssumption == MaxObjects \in Nat

VARIABLES pc,           \* where main() is: open, read, init, link, linked, undefined
          dir,          \* the directory, fixed before the program starts
          unread,       \* the entries readdir has not returned yet
          hndl,         \* hndl[] up to hndl_cnt: the libraries that are open
          mods,         \* the four module tables, each up to its counter
          devs,         \* br_devs[] or flw_devs[] of each protocol library
          proto_loop,   \* main()'s variables of these names
          loop

vars == <<pc, dir, unread, hndl, mods, devs, proto_loop, loop>>

Modules == Files \cup {AppMain}

switches  == mods["switch"]
protocols == mods["protocol"]

(* The table in which init of a library registers its module.              *)
ModType(kind) ==
  IF kind \in {"asic", "flow_stub"} THEN "switch"
  ELSE IF kind \in {"bridge", "flow"} THEN "protocol"
  ELSE IF kind = "sock" THEN "comm" ELSE "cli"

(* PROTOCOL_APP, PROTOCOL_BRIDGE and PROTOCOL_FLOW: the `type` of a        *)
(* protocol, which the field `id` repeats.                                 *)
ProtoType(m) ==
  IF m = AppMain THEN 0 ELSE IF dir[m] = "bridge" THEN 1 ELSE 2

(* The only protocol type to which the proto_reg_func of a switch answers. *)
SwitchProto(s) == IF dir[s] = "asic" THEN 1 ELSE 2

Supports(p, s) == SwitchProto(s) = ProtoType(p)

-----------------------------------------------------------------------------
Init ==
  /\ pc = "open"
  /\ dir \in Dirs
  /\ unread = Files
  /\ hndl = <<>>
  /\ mods = [t \in ModTypes |-> <<>>]
  /\ devs = [f \in Files |-> <<>>]
  /\ proto_loop = 0
  /\ loop = 0

(* opendir succeeds, or fails and leaves the program without libraries.    *)
OpenDir ==
  /\ pc = "open"
  /\ pc' = "read"
  /\ UNCHANGED <<dir, unread, hndl, mods, devs, proto_loop, loop>>

CannotOpenDir ==
  /\ pc = "open"
  /\ pc' = "init"
  /\ UNCHANGED <<dir, unread, hndl, mods, devs, proto_loop, loop>>

(* One turn of the readdir loop.  The result of dlopen is stored in        *)
(* hndl[hndl_cnt] whether it succeeded or not.                             *)
Reads(f) ==
  /\ pc = "read"
  /\ f \in unread
  /\ unread' = unread \ {f}

SkipEntry(f) ==
  /\ Reads(f)
  /\ dir[f] = "plain"
  /\ UNCHANGED <<pc, dir, hndl, mods, devs, proto_loop, loop>>

(* Mutant: hndl_cnt is counted up whether or not dlopen succeeded.         *)
CannotOpenLib_Counted(f) ==
  /\ Reads(f)
  /\ dir[f] = "unloadable"
  /\ IF Len(hndl) < MaxObjects
       THEN hndl' = Append(hndl, f) /\ UNCHANGED pc
       ELSE pc' = "undefined" /\ UNCHANGED hndl
  /\ UNCHANGED <<dir, mods, devs, proto_loop, loop>>

CannotOpenLib(f) ==
  /\ Reads(f)
  /\ dir[f] = "unloadable"
  /\ pc' = IF Len(hndl) < MaxObjects THEN pc ELSE "undefined"
  /\ UNCHANGED <<dir, hndl, mods, devs, proto_loop, loop>>

OpenLib(f) ==
  /\ Reads(f)
  /\ dir[f] \notin {"plain", "unloadable"}
  /\ IF Len(hndl) < MaxObjects
       THEN hndl' = Append(hndl, f) /\ UNCHANGED pc
       ELSE pc' = "undefined" /\ UNCHANGED hndl
  /\ UNCHANGED <<dir, mods, devs, proto_loop, loop>>

EndRead ==
  /\ pc = "read"
  /\ unread = {}
  /\ pc' = "init"
  /\ UNCHANGED <<dir, unread, hndl, mods, devs, proto_loop, loop>>

(* Mutant: the tables are one entry shorter than MAX_OBJECTS.              *)
register_mod_Short(type, m, after) ==
  IF Len(mods[type]) < MaxObjects - 1
    THEN mods' = [mods EXCEPT ![type] = Append(@, m)] /\ pc' = after
    ELSE pc' = "undefined" /\ UNCHANGED mods

(* register_mod and the function of register_sw, register_proto,           *)
(* register_comm and register_cli it calls; `after` is where main() goes   *)
(* on when the entry fits.                                                 *)
register_mod(type, m, after) ==
  IF Len(mods[type]) < MaxObjects
    THEN mods' = [mods EXCEPT ![type] = Append(@, m)] /\ pc' = after
    ELSE pc' = "undefined" /\ UNCHANGED mods

(* Mutant: a library without init ends the loop over the libraries.        *)
InitLib_Break ==
  /\ pc = "init"
  /\ loop < Len(hndl)
  /\ LET lib == hndl[loop + 1] IN
       IF dir[lib] = "noinit"
         THEN UNCHANGED <<pc, mods>> /\ loop' = Len(hndl)
         ELSE register_mod(ModType(dir[lib]), lib, pc) /\ loop' = loop + 1
  /\ UNCHANGED <<dir, unread, hndl, devs, proto_loop>>

(* One turn of the loop over the open libraries: dlsym, then init.         *)
InitLib ==
  /\ pc = "init"
  /\ loop < Len(hndl)
  /\ LET lib == hndl[loop + 1] IN
       IF dir[lib] = "noinit"
         THEN UNCHANGED <<pc, mods>>
         ELSE register_mod(ModType(dir[lib]), lib, pc)
  /\ loop' = loop + 1
  /\ UNCHANGED <<dir, unread, hndl, devs, proto_loop>>

(* Mutant: the linking loop starts with the `loop` of the loop before.     *)
app_init_KeepsLoop ==
  /\ pc = "init"
  /\ loop = Len(hndl)
  /\ register_mod("protocol", AppMain, "link")
  /\ proto_loop' = 0
  /\ UNCHANGED <<dir, unread, hndl, devs, loop>>

app_init ==
  /\ pc = "init"
  /\ loop = Len(hndl)
  /\ register_mod("protocol", AppMain, "link")
  /\ proto_loop' = 0
  /\ loop' = 0
  /\ UNCHANGED <<dir, unread, hndl, devs>>

(* register_dev of a bridge or flow library: the device goes to the end of *)
(* the library's table.  That of main.c keeps nothing, and no switch calls *)
(* it.                                                                     *)
register_dev(p, s) ==
  IF Len(devs[p]) < MaxObjects
    THEN devs' = [devs EXCEPT ![p] = Append(@, s)] /\ UNCHANGED pc
    ELSE pc' = "undefined" /\ UNCHANGED devs

(* Mutant: proto_reg_func calls register_dev whatever the protocol.        *)
proto_reg_func_Any ==
  /\ pc = "link"
  /\ proto_loop < Len(protocols)
  /\ loop < Len(switches)
  /\ LET p == protocols[proto_loop + 1]
         s == switches[loop + 1]
     IN  IF p # AppMain THEN register_dev(p, s) ELSE UNCHANGED <<pc, devs>>
  /\ loop' = loop + 1
  /\ UNCHANGED <<dir, unread, hndl, mods, proto_loop>>

(* The inner turn of the linking loop: the switch is offered the protocol, *)
(* and its proto_reg_func calls register_dev or only reports.              *)
proto_reg_func ==
  /\ pc = "link"
  /\ proto_loop < Len(protocols)
  /\ loop < Len(switches)
  /\ LET p == protocols[proto_loop + 1]
         s == switches[loop + 1]
     IN  IF Supports(p, s) THEN register_dev(p, s) ELSE UNCHANGED <<pc, devs>>
  /\ loop' = loop + 1
  /\ UNCHANGED <<dir, unread, hndl, mods, proto_loop>>

(* Mutant: the inner loop is not started again for the next protocol.      *)
NextProto_KeepsLoop ==
  /\ pc = "link"
  /\ proto_loop < Len(protocols)
  /\ loop = Len(switches)
  /\ proto_loop' = proto_loop + 1
  /\ UNCHANGED <<pc, dir, unread, hndl, mods, devs, loop>>

(* Mutant: one variable counts protocols and switches.                     *)
NextProto_Shares ==
  /\ pc = "link"
  /\ proto_loop < Len(protocols)
  /\ loop = Len(switches)
  /\ proto_loop' = loop
  /\ loop' = 0
  /\ UNCHANGED <<pc, dir, unread, hndl, mods, devs>>

NextProto ==
  /\ pc = "link"
  /\ proto_loop < Len(protocols)
  /\ loop = Len(switches)
  /\ proto_loop' = proto_loop + 1
  /\ loop' = 0
  /\ UNCHANGED <<pc, dir, unread, hndl, mods, devs>>

Linked ==
  /\ pc = "link"
  /\ proto_loop = Len(protocols)
  /\ pc' = "linked"
  /\ UNCHANGED <<dir, unread, hndl, mods, devs, proto_loop, loop>>

(* The boot is over: the tables do not change any more.                    *)
Booted ==
  /\ pc \in {"linked", "undefined"}
  /\ UNCHANGED vars

Next ==
  \/ OpenDir \/ CannotOpenDir
  \/ \E f \in Files : SkipEntry(f) \/ CannotOpenLib(f) \/ OpenLib(f)
  \/ EndRead
  \/ InitLib \/ app_init
  \/ proto_reg_func \/ NextProto \/ Linked
  \/ Booted

Spec == Init /\ [][Next]_vars

-----------------------------------------------------------------------------
(* Every variable has its type, and the loops stay inside the tables they  *)
(* walk through: main() uses one variable `loop` for the handles and then  *)
(* for the switches (main.c:275-300).                                      *)
TypeOK ==
  /\ pc \in {"open", "read", "init", "link", "linked", "undefined"}
  /\ dir \in Dirs
  /\ unread \subseteq Files
  /\ hndl \in Seq(Files)
  /\ mods \in [ModTypes -> Seq(Modules)]
  /\ devs \in [Files -> Seq(Files)]
  /\ proto_loop \in Nat
  /\ loop \in Nat
  /\ pc \in {"open", "read"} => loop = 0
  /\ pc = "init" => loop <= Len(hndl)
  /\ pc = "link" => loop <= Len(switches) /\ proto_loop <= Len(protocols)

OfKind(kinds) == {f \in Files : dir[f] \in kinds}

(* A table is overrun only by a directory with more libraries than handles *)
(* (main.c:85), or with so many protocol libraries that there is no entry  *)
(* left for the main program's own (main.c:193).  No other unchecked store *)
(* of the boot can go wrong: not in the other tables, and not in the       *)
(* device tables, however the libraries are ordered.                       *)
OverflowOnlyWhenFull ==
  pc = "undefined" =>
    \/ Cardinality(OfKind(Kinds \ {"plain"})) > MaxObjects
    \/ Cardinality(OfKind({"bridge", "flow"})) >= MaxObjects

EntriesOf(seq) == {seq[i] : i \in 1..Len(seq)}

(* sub holds what seq has of S, in the order of seq and each entry once;   *)
(* if there are no duplicates in seq this is SelectSeq.                    *)
InOrderOf(sub, seq) ==
  \A i, j \in 1..Len(sub), k, l \in 1..Len(seq) :
    i < j /\ sub[i] = seq[k] /\ sub[j] = seq[l] => k < l

Selects(sub, seq, S) ==
  /\ EntriesOf(sub) = EntriesOf(seq) \cap S
  /\ InOrderOf(sub, seq)

(* The modules that have had their turn to register, and those of a type.  *)
Called == IF pc = "init" THEN SubSeq(hndl, 1, loop) ELSE Append(hndl, AppMain)

OfType(t) ==
  {f \in Files : dir[f] # "noinit" /\ ModType(dir[f]) = t}
    \cup (IF t = "protocol" THEN {AppMain} ELSE {})

(* While libraries are initialised and ever after, each table holds all    *)
(* modules of its type that had their turn, in the order their libraries   *)
(* were opened, the main program's protocol last.  These positions are the *)
(* numbers that the shell (`sec n`, lib_cli_comm.c:70) and the messages    *)
(* (lib_sock_comm.c:76) use.                                               *)
RegistrationOrder ==
  pc \in {"init", "link", "linked"} =>
    \A t \in ModTypes : Selects(mods[t], Called, OfType(t))

(* Devices are in the order in which the switches registered, and when     *)
(* main() goes on to start its modules, every protocol library has each    *)
(* switch that supports it exactly once, and no other: `dev=n` means the   *)
(* n-th supporting switch in every library.                                *)
DevicesInOrder ==
  /\ \A p \in Files : InOrderOf(devs[p], switches)
  /\ pc = "linked" =>
       \A p \in Files :
         EntriesOf(devs[p]) = IF p \in EntriesOf(protocols)
                                THEN {s \in EntriesOf(switches) : Supports(p, s)} ELSE {}

(* What is left of the boot: its stage, the turns of the stage's loop, and *)
(* of the loop inside the linking loop.                                    *)
Stage ==
  CASE pc = "open" -> 4 [] pc = "read" -> 3 [] pc = "init" -> 2 [] pc = "link" -> 1 [] OTHER -> 0

Turns ==
  CASE pc = "read" -> Cardinality(unread)
    [] pc = "init" -> Len(hndl) - loop
    [] pc = "link" -> Len(protocols) - proto_loop
    [] OTHER       -> 0

InnerTurns == IF pc = "link" THEN Len(switches) - loop ELSE 0

BootLeft == <<Stage, Turns, InnerTurns>>

(* The boot comes to an end whatever the directory holds, although three   *)
(* loops share the variable `loop` (main.c:275-300): each step leaves less *)
(* to do than there was.                                                   *)
BootProgress == [][Lower(3, BootLeft', BootLeft)]_vars

(* README.md:29 says that the socket module relays a message "to the       *)
(* respective protocol handler"; it takes protocols[type]                  *)
(* (lib_sock_comm.c:76).  This would be right if the entry at a registered *)
(* protocol's type were a protocol of that type.                           *)
RelayTarget ==
  pc = "linked" =>
    \A i \in 1..Len(protocols) :
      LET type == ProtoType(protocols[i]) IN
        /\ type < Len(protocols)
        /\ ProtoType(protocols[type + 1]) = type

-----------------------------------------------------------------------------
(* The inductive invariant behind these properties, in named parts.        *)
NoDuplicates(seq) == \A i, j \in 1..Len(seq) : seq[i] = seq[j] => i = j

(* A handle is open once, is not read again, and is that of a library.     *)
HandlesOK ==
  /\ Len(hndl) <= MaxObjects
  /\ NoDuplicates(hndl)
  /\ \A f \in EntriesOf(hndl) : f \notin unread /\ dir[f] \notin {"plain", "unloadable"}

Initialised == IF pc = "init" THEN 1..loop ELSE 1..Len(hndl)

(* A table holds, once each, libraries that were initialised and belong in *)
(* it; only the table of protocols holds AppMain, after loading.           *)
TablesOK ==
  \A t \in ModTypes :
    /\ pc \in {"open", "read"} => mods[t] = <<>>
    /\ pc = "init" => Len(mods[t]) <= loop
    /\ Len(mods[t]) <= MaxObjects
    /\ NoDuplicates(mods[t])
    /\ \A m \in EntriesOf(mods[t]) \ {AppMain} :
         /\ dir[m] # "noinit" /\ ModType(dir[m]) = t
         /\ \E k \in Initialised : hndl[k] = m
    /\ AppMain \in EntriesOf(mods[t]) <=> t = "protocol" /\ pc \in {"link", "linked"}

(* The linking loop has passed protocol k and switch j (counted from 1).   *)
Offered(k, j) ==
  \/ pc = "linked"
  \/ pc = "link" /\ (k <= proto_loop \/ (k = proto_loop + 1 /\ j <= loop))

(* A device table holds, once each, exactly the supporting switches that   *)
(* were offered its protocol so far; its length lags behind the loops,     *)
(* which is why it never runs out of room.                                 *)
DevicesOK ==
  /\ \A p \in Files :
       /\ NoDuplicates(devs[p])
       /\ \A s \in Files :
            s \in EntriesOf(devs[p]) <=>
              /\ Supports(p, s)
              /\ \E k \in 1..Len(protocols), j \in 1..Len(switches) :
                   protocols[k] = p /\ switches[j] = s /\ Offered(k, j)
  /\ pc = "link" =>
       \A k \in 1..Len(protocols) :
         protocols[k] # AppMain =>
           Len(devs[protocols[k]]) <= IF k <= proto_loop THEN Len(switches)
                                      ELSE IF k = proto_loop + 1 THEN loop ELSE 0

(* Everything a step of the boot relies on about the steps before it.      *)
IInv ==
  /\ TypeOK
  /\ HandlesOK
  /\ TablesOK
  /\ DevicesOK
  /\ OverflowOnlyWhenFull

-----------------------------------------------------------------------------
(* The boot implements SwLinks: the tables and device tables are read as   *)
(* the sets of what they hold.                                             *)
Phase ==
  IF pc \in {"open", "read", "init"} THEN "loading"
  ELSE IF pc = "link" THEN "linking"
  ELSE IF pc = "linked" THEN "running" ELSE "failed"

Registered == UNION {EntriesOf(mods[t]) : t \in ModTypes}

ProtoSwitchPairs ==
  {pair \in (OfKind({"bridge", "flow"}) \cup {AppMain}) \X OfKind({"asic", "flow_stub"}) :
     Supports(pair[1], pair[2])}

LinkedPairs == {pair \in Files \X Files : pair[2] \in EntriesOf(devs[pair[1]])}

Links ==
  INSTANCE SwLinks WITH
    Modules    <- Modules,
    MainApp    <- AppMain,
    phase      <- Phase,
    registered <- Registered,
    supports   <- ProtoSwitchPairs,
    links      <- LinkedPairs

(* Modules register once each while the program loads, then exactly the    *)
(* supporting pairs are linked, nothing is unregistered or unlinked, and   *)
(* running starts when no pair is missing; a failure is one of loading.    *)
ImplementsLinks == Links!LSpec

=============================================================================
