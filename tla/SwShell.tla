------------------------------ MODULE SwShell ------------------------------
(***************************************************************************)
(* The command line shell, run_cmd, with the commands of the flow protocol *)
(* behind its `sec`.  fgets reads a line into a buffer, the last letter is *)
(* cut off for a newline, and the line is run.  When there is no more      *)
(* input fgets leaves the buffer as it is, and each turn of the loop cuts  *)
(* one more letter off the last line and runs what is left of it.          *)
(*                                                                         *)
(* A line is its first word, the number behind it, and the options behind  *)
(* the number, which is what the protocol gets.  Of a word only the first  *)
(* letters are compared: for "help", "quit" (or "exit") and a `sec`        *)
(* without a space the number is how many letters stand behind them.       *)
(* Letters of which nothing depends are cut together: all letters of an    *)
(* address or of another word, once the first of them is gone, the ";"     *)
(* with the option behind it, and the last digit of the number of `sec` is *)
(* taken for a 0.                                                          *)
(***************************************************************************)
EXTENDS SwFlowFilter, SwProgress

CONSTANTS MaxObjects,   \* MAX_OBJECTS of common.h, 256 in the code
          ShellLines,   \* the lines that are typed
          FileLines,    \* the lines of files
          MaxFileLines  \* the longest file, in lines

(* "bare" is "sec" without a space, "unset" a buffer nothing was read into.*)
Words == {"help", "quit", "sec", "bare", "other", "empty", "unset"}

Lines == [word : Words, num : Int, opts : Seq(Options)]

ASSUME ProtosAssumption ==
  \A b \in Boots :
    b.cli_protos \in Seq({"flow", "bridge", "app"}) /\ Len(b.cli_protos) <= MaxObjects
ASSUME LinesAssumption == ShellLines \subseteq Lines /\ FileLines \subseteq Seq(Options)
ASSUME ShellSizes == MaxObjects \in Nat /\ MaxFileLines \in Nat

VARIABLES shell,        \* "prompt", "run", "filter", "load", "ended" or "undefined"
          buf,          \* buf[4096], without the letter that was cut
          typed,        \* history: buf as it was when fgets last read a line
          eof,          \* whether the input has ended
          unread        \* how many lines are left of the file that is loaded

shell_vars == <<shell, buf, typed, eof, unread>>
vars == <<filter_vars, shell_vars>>

-----------------------------------------------------------------------------
Base(key) == IF key \in {"dl-dst", "dl-src", "dl-type"} THEN 16 ELSE 10

(* One letter less of an option, and of a line.                            *)
CutOption(o) ==
  IF o.val = "value" /\ o.num >= Base(o.key)
    THEN [o EXCEPT !.num = o.num \div Base(o.key)]
  ELSE IF o.val = "value"
    THEN [key |-> o.key, val |-> "blank", num |-> 0]
  ELSE IF o.val = "blank"
    THEN [o EXCEPT !.val = "none"]
  ELSE [o EXCEPT !.key = "other"]

CutOptions(opts) ==
  LET last == opts[Len(opts)]
      front == SubSeq(opts, 1, Len(opts) - 1)
  IN  IF last.key = "other" /\ last.val = "none" THEN front ELSE Append(front, CutOption(last))

Cut(l) ==
  IF l.opts # <<>>
    THEN [l EXCEPT !.opts = CutOptions(l.opts)]
  ELSE IF l.word = "sec" /\ l.num # 0
    THEN [l EXCEPT !.num = IF l.num >= 10 THEN l.num \div 10 ELSE 0]
  ELSE IF l.word \in {"help", "quit", "bare"} /\ l.num > 0
    THEN [l EXCEPT !.num = l.num - 1]
  ELSE [l EXCEPT !.word = CASE l.word = "sec"  -> "bare"
                            [] l.word \in {"help", "quit", "bare"} -> "other"
                            [] OTHER -> "empty"]

Blank(word) == [word |-> word, num |-> 0, opts |-> <<>>]

-----------------------------------------------------------------------------
Init ==
  /\ FilterInit
  /\ shell = "prompt"
  /\ buf = Blank("unset")
  /\ typed = Blank("unset")
  /\ eof = FALSE
  /\ unread = 0

(* Mutant: two letters are cut off, as for a carriage return.              *)
TypeLine_CutsTwo ==
  /\ shell = "prompt" /\ ~eof
  /\ shell' = "run"
  /\ \E l \in ShellLines : buf' = Cut(l) /\ typed' = l
  /\ UNCHANGED <<eof, unread, filter_vars>>

(* A full line.                                                            *)
TypeLine ==
  /\ shell = "prompt" /\ ~eof
  /\ shell' = "run"
  /\ \E l \in ShellLines : buf' = l /\ typed' = l
  /\ UNCHANGED <<eof, unread, filter_vars>>

(* Input that ends within a line: it loses its last letter, with which     *)
(* "quit;" is still a quit and "quit" is not.                              *)
TypePart ==
  /\ shell = "prompt" /\ ~eof
  /\ shell' = "run"
  /\ \E l \in ShellLines : l.word # "empty" /\ buf' = Cut(l) /\ typed' = Cut(l)
  /\ eof' = TRUE
  /\ UNCHANGED <<unread, filter_vars>>

(* Input that ends behind a line.                                          *)
EndInput ==
  /\ shell = "prompt" /\ ~eof
  /\ eof' = TRUE
  /\ UNCHANGED <<shell, buf, typed, unread, filter_vars>>

(* Mutant: an end of input is noticed, and waited out.                     *)
RunAgain_Waits ==
  /\ shell = "prompt" /\ eof
  /\ buf.word \notin {"empty", "unset"}
  /\ shell' = "run"
  /\ UNCHANGED <<buf, typed, eof, unread, filter_vars>>

(* Mutant: only a line that fgets has read loses its last letter.          *)
RunAgain_KeepsLetter ==
  /\ shell = "prompt" /\ eof
  /\ shell' = IF buf.word \in {"empty", "unset"} THEN "undefined" ELSE "run"
  /\ UNCHANGED <<buf, typed, eof, unread, filter_vars>>

(* fgets has failed; buf[strlen(buf) - 1] of an empty buffer is buf[-1].   *)
RunAgain ==
  /\ shell = "prompt" /\ eof
  /\ IF buf.word \in {"empty", "unset"}
       THEN shell' = "undefined" /\ UNCHANGED buf
       ELSE shell' = "run" /\ buf' = Cut(buf)
  /\ UNCHANGED <<typed, eof, unread, filter_vars>>

(* help, and whatever is no command.                                       *)
NoEffect ==
  /\ shell = "run" /\ buf.word \in {"help", "other", "empty"}
  /\ shell' = "prompt"
  /\ UNCHANGED <<buf, typed, eof, unread, filter_vars>>

(* quit and exit kill the shell.                                           *)
Quit ==
  /\ shell = "run" /\ buf.word = "quit"
  /\ shell' = "ended"
  /\ UNCHANGED <<buf, typed, eof, unread, filter_vars>>

-----------------------------------------------------------------------------
InTable(n) == 0 <= n /\ n < MaxObjects

(* The protocol a number stands for, none where cli_protos[n] is null.     *)
Proto(n) == IF n < Len(boot.cli_protos) THEN boot.cli_protos[n + 1] ELSE "none"

(* The number is looked up first.  The command begins three letters behind *)
(* the space: of "sec 10;filter" it is ";filter", of "sec 0" it is what    *)
(* stands behind the line.                                                 *)
Reaches(proto) == InTable(buf.num) /\ Proto(buf.num) = proto /\ buf.num < 10

SecUndefined ==
  /\ shell = "run"
  /\ \/ buf.word = "bare"
     \/ buf.word = "sec" /\ ~InTable(buf.num)
     \/ buf.word = "sec" /\ \E p \in {"flow", "bridge", "app"} : Reaches(p) /\ buf.opts = <<>>
  /\ shell' = "undefined"
  /\ UNCHANGED <<buf, typed, eof, unread, filter_vars>>

(* No protocol of this number, or only a ";" for its command.              *)
SecNothing ==
  /\ shell = "run" /\ buf.word = "sec" /\ InTable(buf.num)
  /\ Proto(buf.num) = "none" \/ buf.num >= 10 \/ (buf.opts # <<>> /\ Reaches("app"))
  /\ shell' = "prompt"
  /\ UNCHANGED <<buf, typed, eof, unread, filter_vars>>

(* A command of the bridge protocol, SwBridgeCli.                          *)
SecBridge ==
  /\ shell = "run" /\ buf.word = "sec" /\ Reaches("bridge") /\ buf.opts # <<>>
  /\ shell' \in {"prompt", "undefined"}
  /\ UNCHANGED <<buf, typed, eof, unread, filter_vars>>

SecFlow == shell = "run" /\ buf.word = "sec" /\ Reaches("flow") /\ buf.opts # <<>>

(* cli_cmd of lib_flow.c: filter, load, and help, show or no command.      *)
FlowFilter ==
  /\ SecFlow /\ buf.opts[1].key = "filter"
  /\ shell' = "filter"
  /\ StartFilter(buf.opts, FALSE)
  /\ UNCHANGED <<buf, typed, eof, unread>>

(* fopen finds a file by the rest of the line.                             *)
FlowLoad ==
  /\ SecFlow /\ buf.opts[1].key = "load" /\ Len(buf.opts) > 1
  /\ shell' = "load"
  /\ unread' \in 0..MaxFileLines
  /\ UNCHANGED <<buf, typed, eof, filter_vars>>

FlowNothing ==
  /\ SecFlow /\ buf.opts[1].key # "filter"
  /\ shell' = "prompt"
  /\ UNCHANGED <<buf, typed, eof, unread, filter_vars>>

-----------------------------------------------------------------------------
FilterReturns ==
  /\ shell = "filter" /\ at = "off"
  /\ shell' = "prompt"
  /\ UNCHANGED <<buf, typed, eof, unread, filter_vars>>

(* Mutant: the last line is run again when fgets finds no more.            *)
NextLine_PastEnd ==
  /\ shell = "load" /\ at = "off" /\ unread >= 0
  /\ unread' = unread - 1
  /\ \E l \in FileLines : StartFilter(l, TRUE)
  /\ UNCHANGED <<shell, buf, typed, eof>>

(* fgets and fib_cmd_filter: only the last line may be without newline.    *)
NextLine ==
  /\ shell = "load" /\ at = "off" /\ unread > 0
  /\ unread' = unread - 1
  /\ \E l \in FileLines : \E ends \in {TRUE, unread # 1} : StartFilter(l, ends)
  /\ UNCHANGED <<shell, buf, typed, eof>>

EndOfFile ==
  /\ shell = "load" /\ at = "off" /\ unread = 0
  /\ shell' = "prompt"
  /\ UNCHANGED <<buf, typed, eof, unread, filter_vars>>

Filter == FilterStep /\ UNCHANGED shell_vars

(* What happens without anybody at the terminal.                           *)
Proceed ==
  \/ RunAgain \/ NoEffect \/ Quit
  \/ SecUndefined \/ SecNothing \/ SecBridge
  \/ FlowFilter \/ FlowLoad \/ FlowNothing
  \/ FilterReturns \/ NextLine \/ EndOfFile
  \/ Filter

Next == TypeLine \/ TypePart \/ EndInput \/ Proceed

Spec == Init /\ [][Next]_vars

(* The shell's process runs; nobody has to type, and input need not end.   *)
FairSpec == Spec /\ WF_vars(Proceed)

-----------------------------------------------------------------------------
(* Every variable has its type.                                            *)
TypeOK ==
  /\ FilterTypeOK
  /\ shell \in {"prompt", "run", "filter", "load", "ended", "undefined"}
  /\ buf \in Lines /\ typed \in Lines
  /\ eof \in BOOLEAN
  /\ unread \in 0..MaxFileLines
  /\ shell \notin {"filter", "load"} => at = "off"

(* The shell gone wrong, or brought down by a filter.                      *)
Undefined == shell = "undefined" \/ at = "crashed"

(* As long as there is input, the shell itself gets into undefined         *)
(* behaviour only by a number outside of the table or one with nothing     *)
(* behind it (lib_cli_comm.c:69, :71, :73), or in a bridge command.  At    *)
(* the end of input it is enough that a `sec` was the last line, or none.  *)
ShellCauses ==
  shell = "undefined" /\ ~eof =>
    /\ buf = typed
    /\ typed.word \in {"sec", "bare"}
    /\ typed.num >= 0 /\ typed.num < Len(boot.cli_protos) =>
         typed.word = "bare" \/ typed.opts = <<>> \/ boot.cli_protos[typed.num + 1] = "bridge"

(* The inductive invariant of the shell and its filters.                   *)
IInv ==
  /\ TypeOK
  /\ FilterInv
  /\ ~eof => buf = typed
  /\ ShellCauses

(* The end of input ends in undefined behaviour: the shell goes on until   *)
(* it writes in front of its buffer or one of the commands that are left   *)
(* of the last line brings it down (lib_cli_comm.c:44-46).  It quits only  *)
(* if the input ended within a line that is a quit without its last        *)
(* letter, and in the turn in which that was read: no turn in which fgets  *)
(* fails ever leaves the loop.                                             *)
EofEnds == eof ~> Undefined \/ (shell = "ended" /\ buf = typed)

(* What is left when no more input comes: the options of the last line,    *)
(* what can be cut off the last of them, and off the word; and for the run *)
(* of what is left of the line, the lines of its file and of the filter.   *)
OptionLeft(o) ==
  CASE o.val = "value" -> 3 + (IF o.num > 0 THEN o.num ELSE 0)
    [] o.val = "blank" -> 2
    [] OTHER           -> IF o.key = "other" THEN 0 ELSE 1

LastLeft(opts) == IF opts = <<>> THEN 0 ELSE OptionLeft(opts[Len(opts)])

WordLeft(l) ==
  CASE l.word = "sec"                      -> 3 + (IF l.num >= 0 THEN l.num ELSE 1)
    [] l.word \in {"help", "quit", "bare"} -> 2 + (IF l.num >= 0 THEN l.num ELSE 0)
    [] l.word = "other"                    -> 1
    [] OTHER                               -> 0

RunLeft ==
  CASE shell = "run" -> 4 [] shell = "load" -> 3 [] shell = "filter" -> 2
    [] shell = "prompt" -> 1 [] OTHER -> 0

FilterLeft ==
  CASE at \in {"options", "actions"} -> Len(line) - pos + 2 [] at = "called" -> 1 [] OTHER -> 0

EofLeft == <<Len(buf.opts), LastLeft(buf.opts), WordLeft(buf), RunLeft, unread, FilterLeft>>

(* Behind the end of input each step leaves less: every turn of the shell's*)
(* loop runs a shorter line than the one before (lib_cli_comm.c:44-47), so *)
(* that the turns have an end, whatever was typed last and whatever files  *)
(* it loads.                                                               *)
EofProgress == [][eof => Lower(6, EofLeft', EofLeft)]_vars

(* README.md:35: the shell "opens input and listens for full line entries",*)
(* so that a device is only called for a line that fgets has just read,    *)
(* and not in a turn in which it read nothing (lib_cli_comm.c:44).         *)
OnlyFullLines == shell = "filter" /\ at = "called" => buf = typed

=============================================================================
