---------------------------- MODULE SwBridgeCli ----------------------------
(***************************************************************************)
(* The commands of the bridge protocol, as the shell's `sec` hands them    *)
(* over line by line and as `load` reads them from files.  A command is    *)
(* found by its first letters, then its line is cut at spaces and read     *)
(* option by option into local variables, which nothing initialises, and   *)
(* at the end of the line the method of device br_devs[dev_id] is called.  *)
(*                                                                         *)
(* An option is a key and the number atoi finds behind its "=".  A line is *)
(* built up one option at a time; what was typed so far is kept in `line`. *)
(***************************************************************************)
EXTENDS SwProgress, Integers, SequencesExt

CONSTANTS BrDevCnt,     \* br_dev_cnt
          Numbers,      \* the numbers that are typed
          Garbage,      \* what a local variable may hold at first
          MaxOptions,   \* the longest line, in options
          MaxLines,     \* the longest file, in lines
          MaxFiles      \* how many files can be open: fopen fails after that

ASSUME SizesAssumption ==
  BrDevCnt \in Nat /\ MaxOptions \in Nat /\ MaxLines \in Nat /\ MaxFiles \in Nat
ASSUME NumbersAssumption == Numbers \subseteq Int /\ Garbage \subseteq Int

VARIABLES pc,           \* "idle", "line", "options", "called", or "undefined"
          files,        \* the lines left in each file being loaded, innermost last
          newline,      \* whether the line still ends with its newline
          cmd,          \* the command whose options are read
          line,         \* its options so far
          vals          \* its local variables: dev_id, br_id and if_id or age

vars == <<pc, files, newline, cmd, line, vals>>

-----------------------------------------------------------------------------
(* The five functions differ in the options they know, in the method they  *)
(* call, and in whether the command word is compared to its end.           *)
cmd_add_br ==
  [method |-> "br_add_br", options |-> {"dev", "br-id"}, whole_word |-> TRUE]
cmd_del_br ==
  [method |-> "br_del_br", options |-> {"dev", "br-id"}, whole_word |-> TRUE]
cmd_del_br_if ==
  [method |-> "br_del_br_if", options |-> {"dev", "br-id", "if-id"}, whole_word |-> FALSE]
cmd_add_br_if ==
  [method |-> "br_add_br_if", options |-> {"dev", "br-id", "if-id"}, whole_word |-> FALSE]
cmd_set_age ==
  [method |-> "br_set_age", options |-> {"dev", "br-id", "age"}, whole_word |-> FALSE]

Commands == {cmd_add_br, cmd_del_br, cmd_del_br_if, cmd_add_br_if, cmd_set_age}

Keys == {"dev", "br-id", "if-id", "age"}

(* An option with a known key and a number, one without "=", or anything   *)
(* else between two spaces, "" included.                                   *)
Options ==
  [key : Keys, given : {TRUE}, num : Numbers] \cup [key : Keys \cup {"other"}, given : {FALSE}, num : {0}]

(* (short)(n)                                                              *)
Short(n) == ((n + 32768) % 65536) - 32768

DeviceExists(dev_id) == 0 <= dev_id /\ dev_id < BrDevCnt

NoVals == [k \in Keys |-> 0]

-----------------------------------------------------------------------------
Init ==
  /\ pc = "idle"
  /\ files = <<>>
  /\ newline = FALSE
  /\ cmd = cmd_add_br
  /\ line = <<>>
  /\ vals = NoVals

(* Mutant: fgets always returns the same line of a file.                   *)
ReadLine_Stays ==
  /\ pc = "idle"
  /\ pc' = "line"
  /\ \/ files = <<>> /\ newline' = FALSE
     \/ files # <<>> /\ Last(files) > 0 /\ newline' = TRUE
  /\ UNCHANGED <<files, cmd, line, vals>>

(* The next line comes from the shell, which removes the newline, or by    *)
(* fgets from the innermost file, where only the last line may be without. *)
ReadLine ==
  /\ pc = "idle"
  /\ pc' = "line"
  /\ \/ files = <<>> /\ newline' = FALSE /\ UNCHANGED files
     \/ \E n \in 1..MaxLines :
          /\ files # <<>> /\ Last(files) = n
          /\ newline' \in {TRUE, n # 1}
          /\ files' = Append(Front(files), n - 1)
  /\ UNCHANGED <<cmd, line, vals>>

EndOfFile ==
  /\ pc = "idle"
  /\ files # <<>> /\ Last(files) = 0
  /\ files' = Front(files)
  /\ UNCHANGED <<pc, newline, cmd, line, vals>>

(* The command's function returns, and its variables are gone.             *)
Leave == pc' = "idle" /\ line' = <<>> /\ vals' = NoVals

(* cli_cmd finds one of the five commands by the first letters of the line.*)
StartCommand(c) ==
  /\ pc = "line"
  /\ pc' = "options"
  /\ cmd' = c
  /\ \E dev_id, br_id, arg \in Garbage :
       vals' = [k \in Keys |-> IF k = "dev" THEN dev_id ELSE IF k = "br-id" THEN br_id ELSE arg]
  /\ UNCHANGED <<files, newline, line>>

(* Mutant: the device number is not compared with br_dev_cnt.              *)
Rejects_AnyDevice(o) == o.key \notin cmd.options \/ ~o.given

(* Mutant: only the upper end of the device number is checked.             *)
Rejects_TooLarge(o) ==
  \/ o.key \notin cmd.options
  \/ ~o.given
  \/ o.key = "dev" /\ Short(o.num) > BrDevCnt - 1

Rejects(o) ==
  \/ o.key \notin cmd.options
  \/ ~o.given
  \/ o.key = "dev" /\ ~DeviceExists(Short(o.num))

(* One turn of the strsep loop; a bad option ends the command.             *)
ReadOption(o) ==
  /\ pc = "options"
  /\ Len(line) < MaxOptions
  /\ IF Rejects(o)
       THEN Leave
       ELSE /\ line' = Append(line, o)
            /\ vals' = [vals EXCEPT ![o.key] = Short(o.num)]
            /\ UNCHANGED pc
  /\ UNCHANGED <<files, newline, cmd>>

(* The command word is itself the first option that is read, and a bad one *)
(* if something follows its letters, be it the newline.                    *)
RejectWord ==
  /\ pc = "options"
  /\ line = <<>> /\ cmd.whole_word
  /\ Leave
  /\ UNCHANGED <<files, newline, cmd>>

(* The end of the line: br_devs[dev_id]->method(br_id, ...).  A word that  *)
(* has to be whole and is followed by a newline was not taken for one.     *)
CallDevice ==
  /\ pc = "options"
  /\ line # <<>> \/ ~newline \/ ~cmd.whole_word
  /\ pc' = IF DeviceExists(vals["dev"]) THEN "called" ELSE "undefined"
  /\ UNCHANGED <<files, newline, cmd, line, vals>>

Return ==
  /\ pc = "called"
  /\ Leave
  /\ UNCHANGED <<files, newline, cmd>>

(* Mutant: the newline is cut off the name.                                *)
cmd_load_CutsNewline ==
  /\ pc = "line"
  /\ Len(files) < MaxFiles
  /\ \E n \in 0..MaxLines : files' = Append(files, n)
  /\ pc' = "idle"
  /\ UNCHANGED <<newline, cmd, line, vals>>

(* Mutant: fopen never fails.                                              *)
cmd_load_NoLimit ==
  /\ pc = "line"
  /\ ~newline
  /\ \E n \in 0..MaxLines : files' = Append(files, n)
  /\ pc' = "idle"
  /\ UNCHANGED <<newline, cmd, line, vals>>

(* load: the name is everything to the end of the line.  No file has a     *)
(* newline in its name, and a name of fewer than four letters with its     *)
(* space is not looked at.                                                 *)
cmd_load ==
  /\ pc = "line"
  /\ ~newline
  /\ Len(files) < MaxFiles
  /\ \E n \in 0..MaxLines : files' = Append(files, n)
  /\ pc' = "idle"
  /\ UNCHANGED <<newline, cmd, line, vals>>

(* help, a word that is no command, a load that opens nothing.             *)
NoEffect ==
  /\ pc = "line"
  /\ pc' = "idle"
  /\ UNCHANGED <<files, newline, cmd, line, vals>>

(* show prints a name for each device from an argument that is not there.  *)
cmd_show ==
  /\ pc = "line"
  /\ pc' \in (IF BrDevCnt = 0 THEN {"idle"} ELSE {"idle", "undefined"})
  /\ UNCHANGED <<files, newline, cmd, line, vals>>

cli_cmd ==
  \/ \E c \in Commands : StartCommand(c)
  \/ cmd_load \/ cmd_show \/ NoEffect

(* What happens without anybody at the shell.                              *)
Proceed ==
  \/ files # <<>> /\ ReadLine
  \/ EndOfFile
  \/ cli_cmd
  \/ \E o \in Options : ReadOption(o)
  \/ RejectWord \/ CallDevice \/ Return

Next == (files = <<>> /\ ReadLine) \/ Proceed

Spec == Init /\ [][Next]_vars

(* A line that was begun is run to its end, and a file to its last line.   *)
FairSpec == Spec /\ WF_vars(Proceed)

-----------------------------------------------------------------------------
(* Every variable has its type.                                            *)
TypeOK ==
  /\ pc \in {"idle", "line", "options", "called", "undefined"}
  /\ files \in Seq(0..MaxLines) /\ Len(files) <= MaxFiles
  /\ newline \in BOOLEAN
  /\ cmd \in Commands
  /\ line \in Seq(Options) /\ Len(line) <= MaxOptions
  /\ vals \in [Keys -> Int]

(* The places of a key in the line.                                        *)
Typed(key) == {i \in 1..Len(line) : line[i].key = key}

(* The options that were read are the command's, each device among them    *)
(* exists, and each variable is what the last of its options says.         *)
AsTyped ==
  /\ \A i \in 1..Len(line) :
       /\ line[i].key \in cmd.options /\ line[i].given
       /\ line[i].key = "dev" => DeviceExists(Short(line[i].num))
  /\ \A key \in cmd.options :
       IF Typed(key) = {} THEN vals[key] \in Garbage
       ELSE \E i \in Typed(key) :
              vals[key] = Short(line[i].num) /\ \A j \in Typed(key) : j <= i

(* The device is called with what the line says, however often and in     *)
(* whatever order it says it: the last number of each option, as a short;  *)
(* each device that is named exists (lib_bridge.c:160, :231, ...), each    *)
(* option is one of the command's, and only an option that is missing      *)
(* leaves its variable to what was on the stack.                           *)
CallAsTyped == pc = "called" => AsTyped

(* The bridge protocol runs into undefined behaviour only on a line that   *)
(* does not name its device, and in `show` (lib_bridge.c:123).             *)
UndefinedCauses == pc = "undefined" => Typed("dev") = {}

(* While a file is loaded from another one, the other one has no lines     *)
(* left: a load of anything but the last line finds no file (fgets leaves  *)
(* the newline in the name, lib_bridge.c:552), so that the buffer and the  *)
(* place of the outer file do not matter.                                  *)
OnlyLastLineLoads == \A i \in 1..Len(files) : i < Len(files) => files[i] = 0

(* The inductive invariant: what holds at the call holds at every option,  *)
(* a line without newline is the last one of its file.                     *)
IInv ==
  /\ TypeOK
  /\ pc \in {"idle", "line"} => line = <<>>
  /\ pc \in {"options", "called"} => AsTyped
  /\ pc = "line" /\ ~newline /\ files # <<>> => Last(files) = 0
  /\ OnlyLastLineLoads
  /\ UndefinedCauses

(* What is left of a load.  As long as lines are read: files that can still*)
(* be opened, lines of the innermost one, and the way of the present line. *)
(* When the innermost file is at its end, every other one is: what is left *)
(* then is to close them.                                                  *)
Closing == pc = "idle" /\ (files = <<>> \/ Last(files) = 0)

LineLeft == CASE pc = "line" -> 3 [] pc = "options" -> 2 [] pc = "called" -> 1 [] OTHER -> 0

LoadLeft ==
  <<IF Closing THEN 0 ELSE MaxFiles - Len(files) + 1,
    IF Closing THEN Len(files) ELSE Last(files),
    LineLeft,
    MaxOptions - Len(line)>>

(* Until a load is back at the shell every step leaves less of it, so that *)
(* files that load files, or themselves, can not go on for ever: once one  *)
(* of them ends no line of any other is read again (lib_bridge.c:552-556). *)
LoadProgress == [][files # <<>> => Lower(4, LoadLeft', LoadLeft)]_vars

(* A load comes back to the shell, even that of a file that loads itself.  *)
LoadReturns == files # <<>> ~> files = <<>> \/ pc = "undefined"

=============================================================================
