------------------------- MODULE SwBridgeCli_proofs -------------------------
(***************************************************************************)
(* With what the bridge commands call a device, for any numbers, lines and *)
(* files of any length, and any number of devices.                         *)
(***************************************************************************)
EXTENDS SwBridgeCli, SwProgress_proofs, SequenceTheorems, TLAPS

(* Numbers are numbers, cut to a short or not.                             *)
LEMMA ShortType ==
  ASSUME NEW n \in Int
  PROVE  Short(n) \in Int
BY DEF Short

(* The numbers of options are integers.                                    *)
LEMMA OptionType ==
  ASSUME NEW o \in Options
  PROVE  /\ o.key \in Keys \cup {"other"}
         /\ o.num \in Int
         /\ o.given => o.key \in Keys
<1>1. CASE o \in [key : Keys, given : {TRUE}, num : Numbers]
  BY <1>1, NumbersAssumption
<1>2. CASE o \in [key : Keys \cup {"other"}, given : {FALSE}, num : {0}]
  <2>1. o.given = FALSE
    BY <1>2
  <2> QED BY <1>2, <2>1
<1> QED BY <1>1, <1>2 DEF Options

(* What the five commands have in common.                                  *)
LEMMA CommandOptions ==
  ASSUME NEW c \in Commands
  PROVE  "dev" \in c.options /\ c.options \subseteq Keys
BY DEF Commands, Keys, cmd_add_br, cmd_del_br, cmd_del_br_if, cmd_add_br_if, cmd_set_age

(* A sequence without its last element.                                    *)
LEMMA LastAndFront ==
  ASSUME NEW S, NEW seq \in Seq(S), seq # <<>>
  PROVE  /\ Len(seq) \in Nat \ {0}
         /\ Last(seq) = seq[Len(seq)]
         /\ Last(seq) \in S
         /\ Front(seq) \in Seq(S)
         /\ Len(Front(seq)) = Len(seq) - 1
         /\ \A i \in 1..(Len(seq) - 1) : Front(seq)[i] = seq[i]
<1>1. Len(seq) \in Nat \ {0}
  OBVIOUS
<1>2. \A i \in 1..Len(seq) : seq[i] \in S
  OBVIOUS
<1>3. Front(seq) \in Seq(S)
  BY <1>1, <1>2, SubSeqProperties DEF Front
<1>4. Len(Front(seq)) = Len(seq) - 1
  <2>1. /\ 1 <= Len(seq) - 1 => Len(Front(seq)) = (Len(seq) - 1) - 1 + 1
        /\ ~(1 <= Len(seq) - 1) => Len(Front(seq)) = 0
    BY <1>1, <1>2, SubSeqProperties DEF Front
  <2>2. \A n \in Nat \ {0} : (n - 1) - 1 + 1 = n - 1 /\ (~(1 <= n - 1) => n - 1 = 0)
    OBVIOUS
  <2> QED BY <1>1, <2>1, <2>2
<1>5. \A i \in 1..(Len(seq) - 1) : Front(seq)[i] = seq[i]
  BY <1>1, <1>2 DEF Front
<1> QED BY <1>1, <1>2, <1>3, <1>4, <1>5 DEF Last

(* One more file, or one more line.                                        *)
LEMMA Appended ==
  ASSUME NEW S, NEW seq \in Seq(S), NEW x \in S
  PROVE  /\ Append(seq, x) \in Seq(S)
         /\ Len(Append(seq, x)) = Len(seq) + 1
         /\ Append(seq, x) # <<>>
         /\ \A i \in 1..Len(seq) : Append(seq, x)[i] = seq[i]
         /\ Append(seq, x)[Len(seq) + 1] = x
OBVIOUS

-----------------------------------------------------------------------------
(* A function's return leaves nothing to say of its variables.             *)
LEMMA LeaveInv ==
  ASSUME IInv, Leave, pc # "line", UNCHANGED <<files, newline, cmd>>
  PROVE  IInv'
<1>1. TypeOK'
  <2>1. line' = <<>> /\ vals' \in [Keys -> Int] /\ pc' = "idle"
    BY DEF Leave, NoVals
  <2>2. line' \in Seq(Options) /\ Len(line') <= MaxOptions
    BY <2>1, SizesAssumption
  <2> QED BY <2>1, <2>2 DEF IInv, TypeOK
<1> QED BY <1>1 DEF IInv, Leave, OnlyLastLineLoads, UndefinedCauses

LEMMA ReadLineInv ==
  ASSUME IInv, ReadLine
  PROVE  IInv'
<1>1. pc = "idle" /\ pc' = "line" /\ line = <<>> /\ UNCHANGED <<cmd, line, vals>>
  BY DEF IInv, ReadLine
<1>2. CASE files = <<>> /\ newline' = FALSE /\ UNCHANGED files
  BY <1>1, <1>2 DEF IInv, TypeOK, OnlyLastLineLoads, UndefinedCauses
<1>3. ASSUME NEW n \in 1..MaxLines, files # <<>>, Last(files) = n,
             newline' \in {TRUE, n # 1}, files' = Append(Front(files), n - 1)
      PROVE  IInv'
  <2>1. files \in Seq(0..MaxLines) /\ n - 1 \in 0..MaxLines
    BY SizesAssumption DEF IInv, TypeOK
  <2>2. /\ Front(files) \in Seq(0..MaxLines) /\ Len(Front(files)) = Len(files) - 1
        /\ Len(files) \in Nat \ {0}
        /\ \A i \in 1..(Len(files) - 1) : Front(files)[i] = files[i]
    BY <2>1, <1>3, LastAndFront
  <2>3. /\ files' \in Seq(0..MaxLines) /\ Len(files') = Len(files) /\ files' # <<>>
        /\ \A i \in 1..(Len(files) - 1) : files'[i] = files[i]
        /\ files'[Len(files)] = n - 1
    BY <2>1, <2>2, <1>3, Appended
  <2>4. newline' \in BOOLEAN /\ (~newline' => n = 1)
    BY <1>3
  <2>5. TypeOK'
    BY <1>1, <2>3, <2>4 DEF IInv, TypeOK
  <2>6. OnlyLastLineLoads'
    BY <2>2, <2>3 DEF IInv, OnlyLastLineLoads
  <2>7. ~newline' => Last(files)' = 0
    BY <2>2, <2>3, <2>4 DEF Last
  <2> QED BY <1>1, <2>5, <2>6, <2>7 DEF IInv, UndefinedCauses
<1> QED BY <1>2, <1>3 DEF ReadLine

LEMMA EndOfFileInv ==
  ASSUME IInv, EndOfFile
  PROVE  IInv'
<1>1. files \in Seq(0..MaxLines) /\ files # <<>>
  BY DEF IInv, TypeOK, EndOfFile
<1>2. /\ files' \in Seq(0..MaxLines) /\ Len(files') = Len(files) - 1
      /\ Len(files) \in Nat \ {0}
      /\ \A i \in 1..(Len(files) - 1) : files'[i] = files[i]
  BY <1>1, LastAndFront DEF EndOfFile
<1>3. TypeOK'
  BY <1>2, SizesAssumption DEF IInv, TypeOK, EndOfFile
<1>4. OnlyLastLineLoads'
  BY <1>2 DEF IInv, OnlyLastLineLoads
<1> QED BY <1>3, <1>4 DEF IInv, EndOfFile, UndefinedCauses

(* The variables of a command that begins are whatever they are.           *)
LEMMA StartCommandInv ==
  ASSUME IInv, NEW c \in Commands, StartCommand(c)
  PROVE  IInv'
<1>1. pc = "line" /\ pc' = "options" /\ line' = <<>> /\ cmd' = c /\ UNCHANGED <<files, newline>>
  BY DEF IInv, StartCommand
<1>2. vals' \in [Keys -> Int] /\ \A k \in Keys : vals'[k] \in Garbage
  BY NumbersAssumption DEF StartCommand
<1>3. Typed("dev")' = {} /\ \A key \in Keys : Typed(key)' = {}
  BY <1>1 DEF Typed
<1>4. AsTyped'
  BY <1>1, <1>2, <1>3, CommandOptions DEF AsTyped
<1>5. TypeOK'
  BY <1>1, <1>2, SizesAssumption DEF IInv, TypeOK
<1> QED BY <1>1, <1>4, <1>5 DEF IInv, OnlyLastLineLoads, UndefinedCauses

(* An option that is taken is the last of its key.                         *)
LEMMA TakeOptionInv ==
  ASSUME IInv, NEW o \in Options, pc = "options", Len(line) < MaxOptions, ~Rejects(o),
         line' = Append(line, o), vals' = [vals EXCEPT ![o.key] = Short(o.num)],
         UNCHANGED <<pc, files, newline, cmd>>
  PROVE  IInv'
<1>1. /\ o.key \in cmd.options /\ o.given
      /\ o.key = "dev" => DeviceExists(Short(o.num))
      /\ o.key \in Keys /\ Short(o.num) \in Int
  BY OptionType, ShortType DEF Rejects
<1>2. /\ line \in Seq(Options) /\ cmd \in Commands /\ vals \in [Keys -> Int] /\ AsTyped
      /\ Len(line) \in Nat
  BY DEF IInv, TypeOK
<1>3. /\ line' \in Seq(Options) /\ Len(line') = Len(line) + 1
      /\ \A i \in 1..Len(line) : line'[i] = line[i]
      /\ line'[Len(line) + 1] = o
  BY <1>2, Appended
<1>4. TypeOK'
  BY <1>1, <1>2, <1>3, SizesAssumption DEF IInv, TypeOK
<1>5. ASSUME NEW i \in 1..Len(line')
      PROVE  /\ line'[i].key \in cmd.options /\ line'[i].given
             /\ line'[i].key = "dev" => DeviceExists(Short(line'[i].num))
  <2>1. CASE i = Len(line) + 1
    BY <1>1, <1>3, <2>1
  <2>2. CASE i \in 1..Len(line)
    BY <1>2, <1>3, <2>2 DEF AsTyped
  <2> QED BY <1>2, <1>3, <2>1, <2>2
<1>6. ASSUME NEW key \in cmd.options
      PROVE  IF Typed(key)' = {} THEN vals'[key] \in Garbage
             ELSE \E i \in Typed(key)' :
                    vals'[key] = Short(line'[i].num) /\ \A j \in Typed(key)' : j <= i
  <2>1. key \in Keys
    BY <1>2, CommandOptions
  <2>2. CASE key = o.key
    <3>1. Len(line) + 1 \in Typed(key)' /\ \A j \in Typed(key)' : j <= Len(line) + 1
      BY <1>2, <1>3, <2>2 DEF Typed
    <3>2. vals'[key] = Short(line'[Len(line) + 1].num)
      BY <1>1, <1>2, <1>3, <2>2
    <3> QED BY <3>1, <3>2
  <2>3. CASE key # o.key
    <3>1. Typed(key)' = Typed(key) /\ vals'[key] = vals[key]
      BY <1>2, <1>3, <2>1, <2>3 DEF Typed
    <3>2. \A i \in Typed(key) : line'[i] = line[i]
      BY <1>3 DEF Typed
    <3> QED BY <1>2, <3>1, <3>2 DEF AsTyped
  <2> QED BY <2>2, <2>3
<1>7. AsTyped'
  BY <1>5, <1>6 DEF AsTyped, DeviceExists
<1> QED BY <1>3, <1>4, <1>7 DEF IInv, OnlyLastLineLoads, UndefinedCauses

LEMMA ReadOptionInv ==
  ASSUME IInv, NEW o \in Options, ReadOption(o)
  PROVE  IInv'
<1>1. CASE Rejects(o)
  BY <1>1, LeaveInv DEF ReadOption
<1>2. CASE ~Rejects(o)
  BY <1>2, TakeOptionInv DEF ReadOption
<1> QED BY <1>1, <1>2

(* Only a line without dev= can lead outside of the table.                 *)
LEMMA CallDeviceInv ==
  ASSUME IInv, CallDevice
  PROVE  IInv'
<1>1. pc = "options" /\ AsTyped /\ cmd \in Commands /\ UNCHANGED <<files, newline, cmd, line, vals>>
  BY DEF IInv, TypeOK, CallDevice
<1>2. ASSUME Typed("dev") # {}
      PROVE  DeviceExists(vals["dev"])
  <2>1. PICK i \in Typed("dev") : vals["dev"] = Short(line[i].num)
    BY <1>1, <1>2, CommandOptions DEF AsTyped
  <2>2. i \in 1..Len(line) /\ line[i].key = "dev"
    BY DEF Typed
  <2> QED BY <1>1, <2>1, <2>2 DEF AsTyped
<1>3. AsTyped' /\ Typed("dev")' = Typed("dev")
  BY <1>1 DEF AsTyped, Typed, DeviceExists
<1>4. CASE DeviceExists(vals["dev"])
  BY <1>1, <1>3, <1>4 DEF IInv, TypeOK, CallDevice, OnlyLastLineLoads, UndefinedCauses
<1>5. CASE ~DeviceExists(vals["dev"])
  BY <1>1, <1>2, <1>3, <1>5 DEF IInv, TypeOK, CallDevice, OnlyLastLineLoads, UndefinedCauses
<1> QED BY <1>4, <1>5

(* The file that loads another one has just given its last line.           *)
LEMMA LoadInv ==
  ASSUME IInv, cmd_load
  PROVE  IInv'
<1>1. PICK n \in 0..MaxLines : files' = Append(files, n)
  BY DEF cmd_load
<1>2. files \in Seq(0..MaxLines) /\ Len(files) \in Nat
  BY DEF IInv, TypeOK
<1>3. /\ files' \in Seq(0..MaxLines) /\ Len(files') = Len(files) + 1
      /\ \A i \in 1..Len(files) : files'[i] = files[i]
  BY <1>1, <1>2, Appended
<1>4. Len(files) # 0 => files[Len(files)] = 0
  BY <1>2 DEF IInv, cmd_load, Last
<1>5. OnlyLastLineLoads'
  BY <1>2, <1>3, <1>4 DEF IInv, OnlyLastLineLoads
<1>6. TypeOK'
  BY <1>2, <1>3, SizesAssumption DEF IInv, TypeOK, cmd_load
<1> QED BY <1>5, <1>6 DEF IInv, cmd_load, UndefinedCauses

(* show reads an argument that is not there, before any option is read.    *)
LEMMA ShowInv ==
  ASSUME IInv, cmd_show \/ NoEffect
  PROVE  IInv'
<1>1. pc = "line" /\ pc' \in {"idle", "undefined"} /\ line = <<>> /\ UNCHANGED <<files, newline, cmd, line, vals>>
  BY DEF IInv, cmd_show, NoEffect
<1>2. Typed("dev")' = {}
  BY <1>1 DEF Typed
<1> QED BY <1>1, <1>2 DEF IInv, TypeOK, OnlyLastLineLoads, UndefinedCauses

-----------------------------------------------------------------------------
LEMMA InitInv == Init => IInv
<1>1. Init => TypeOK
  <2>1. cmd_add_br \in Commands /\ NoVals \in [Keys -> Int]
    BY DEF Commands, NoVals
  <2>2. <<>> \in Seq(0..MaxLines) /\ <<>> \in Seq(Options) /\ Len(<<>>) = 0
    OBVIOUS
  <2>3. Len(<<>>) <= MaxFiles /\ Len(<<>>) <= MaxOptions
    BY <2>2, SizesAssumption
  <2> QED BY <2>1, <2>2, <2>3 DEF Init, TypeOK
<1> QED BY <1>1 DEF Init, IInv, OnlyLastLineLoads, UndefinedCauses

LEMMA NextInv == IInv /\ [Next]_vars => IInv'
<1> SUFFICES ASSUME IInv, [Next]_vars
             PROVE  IInv'
  OBVIOUS
<1>1. CASE ReadLine
  BY <1>1, ReadLineInv
<1>2. CASE EndOfFile
  BY <1>2, EndOfFileInv
<1>3. ASSUME NEW c \in Commands, StartCommand(c)
      PROVE  IInv'
  BY <1>3, StartCommandInv
<1>4. CASE cmd_load
  BY <1>4, LoadInv
<1>5. CASE cmd_show \/ NoEffect
  BY <1>5, ShowInv
<1>6. ASSUME NEW o \in Options, ReadOption(o)
      PROVE  IInv'
  BY <1>6, ReadOptionInv
<1>7. CASE RejectWord
  BY <1>7, LeaveInv DEF RejectWord
<1>8. CASE CallDevice
  BY <1>8, CallDeviceInv
<1>9. CASE Return
  BY <1>9, LeaveInv DEF Return
<1>10. CASE UNCHANGED vars
  BY <1>10 DEF vars, IInv, TypeOK, AsTyped, Typed, DeviceExists, OnlyLastLineLoads, UndefinedCauses, Last
<1> QED BY <1>1, <1>2, <1>3, <1>4, <1>5, <1>6, <1>7, <1>8, <1>9, <1>10 DEF Next, Proceed, cli_cmd

(* The inductive invariant of the bridge commands holds for every number   *)
(* of devices, every set of numbers, lines and files of any length.        *)
THEOREM InvariantHolds == Spec => []IInv
BY InitInv, NextInv, PTL DEF Spec

(* Every variable has its type; in particular no more files are open than  *)
(* fopen opens (lib_bridge.c:548).                                         *)
THEOREM TypeCorrect == Spec => []TypeOK
<1>1. IInv => TypeOK
  BY DEF IInv
<1> QED BY <1>1, InvariantHolds, PTL

(* A device is called with what the line says of each option last, and the *)
(* device named is one that exists (lib_bridge.c:160).                     *)
THEOREM CallsAsTyped == Spec => []CallAsTyped
<1>1. IInv => CallAsTyped
  BY DEF IInv, CallAsTyped
<1> QED BY <1>1, InvariantHolds, PTL

(* A bridge command comes into undefined behaviour only without dev= or in *)
(* show (lib_bridge.c:193, :123).                                          *)
THEOREM BridgeUndefined == Spec => []UndefinedCauses
<1>1. IInv => UndefinedCauses
  BY DEF IInv
<1> QED BY <1>1, InvariantHolds, PTL

(* A file that loads another one has no lines left (lib_bridge.c:552).     *)
THEOREM LastLineLoads == Spec => []OnlyLastLineLoads
<1>1. IInv => OnlyLastLineLoads
  BY DEF IInv
<1> QED BY <1>1, InvariantHolds, PTL

-----------------------------------------------------------------------------
(* The amounts of LoadLeft by name.                                        *)
FilesToOpen == IF Closing THEN 0 ELSE MaxFiles - Len(files) + 1
ToReadOrClose == IF Closing THEN Len(files) ELSE Last(files)
OptionsToRead == MaxOptions - Len(line)

LEMMA LoadAmounts ==
  IInv /\ (files # <<>> \/ Closing) =>
    FilesToOpen \in Nat /\ ToReadOrClose \in Nat /\ OptionsToRead \in Nat
<1> SUFFICES ASSUME IInv, files # <<>> \/ Closing
             PROVE  FilesToOpen \in Nat /\ ToReadOrClose \in Nat /\ OptionsToRead \in Nat
  OBVIOUS
<1>1. /\ Len(files) \in Nat /\ Len(files) <= MaxFiles
      /\ Len(line) \in Nat /\ Len(line) <= MaxOptions
      /\ MaxFiles \in Nat /\ MaxOptions \in Nat /\ MaxLines \in Nat
  BY SizesAssumption DEF IInv, TypeOK
<1>2. files # <<>> => Last(files) \in 0..MaxLines
  BY LastAndFront DEF IInv, TypeOK
<1> QED BY <1>1, <1>2 DEF FilesToOpen, ToReadOrClose, OptionsToRead

LEMMA LoadLower ==
  ASSUME IInv, IInv', files # <<>>, files' # <<>> \/ Closing',
         \/ FilesToOpen' < FilesToOpen
         \/ FilesToOpen' = FilesToOpen /\ ToReadOrClose' < ToReadOrClose
         \/ FilesToOpen' = FilesToOpen /\ ToReadOrClose' = ToReadOrClose /\ LineLeft' < LineLeft
         \/ /\ FilesToOpen' = FilesToOpen /\ ToReadOrClose' = ToReadOrClose
            /\ LineLeft' = LineLeft /\ OptionsToRead' < OptionsToRead
  PROVE  Lower(4, LoadLeft', LoadLeft)
<1>1. FilesToOpen \in Nat /\ ToReadOrClose \in Nat /\ LineLeft \in Nat /\ OptionsToRead \in Nat
  BY LoadAmounts DEF LineLeft
<1>2. FilesToOpen' \in Nat /\ ToReadOrClose' \in Nat /\ LineLeft' \in Nat /\ OptionsToRead' \in Nat
  <2>1. (IInv /\ (files # <<>> \/ Closing) =>
           FilesToOpen \in Nat /\ ToReadOrClose \in Nat /\ OptionsToRead \in Nat)'
    BY LoadAmounts, PTL
  <2> QED BY <2>1 DEF LineLeft
<1>3. LoadLeft = <<FilesToOpen, ToReadOrClose, LineLeft, OptionsToRead>>
  BY DEF LoadLeft, FilesToOpen, ToReadOrClose, OptionsToRead
<1>4. LoadLeft' = <<FilesToOpen', ToReadOrClose', LineLeft', OptionsToRead'>>
  BY <1>3 DEF LoadLeft, FilesToOpen, ToReadOrClose, OptionsToRead
<1> QED BY <1>1, <1>2, <1>3, <1>4, LowerFour

(* A line less in the innermost file.                                      *)
LEMMA ReadLineLowers ==
  ASSUME IInv, IInv', files # <<>>, ReadLine
  PROVE  Lower(4, LoadLeft', LoadLeft)
<1>1. PICK n \in 1..MaxLines : Last(files) = n /\ files' = Append(Front(files), n - 1)
  BY DEF ReadLine
<1>2. pc = "idle" /\ pc' = "line"
  BY DEF ReadLine
<1>3. n \in Nat /\ n # 0 /\ n - 1 \in 0..MaxLines /\ n - 1 < n
  BY <1>1, SizesAssumption
<1>4. /\ Front(files) \in Seq(0..MaxLines) /\ Len(Front(files)) = Len(files) - 1
      /\ Len(files) \in Nat
  BY LastAndFront DEF IInv, TypeOK
<1>5. /\ Len(files') = Len(files) /\ files' # <<>> /\ files'[Len(files)] = n - 1
  BY <1>1, <1>3, <1>4, Appended
<1>6. Last(files)' = n - 1
  BY <1>5 DEF Last
<1>7. ~Closing /\ ~Closing'
  BY <1>1, <1>2, <1>3 DEF Closing
<1>8. FilesToOpen' = FilesToOpen /\ ToReadOrClose' < ToReadOrClose
  BY <1>1, <1>3, <1>5, <1>6, <1>7 DEF FilesToOpen, ToReadOrClose
<1> QED BY <1>5, <1>8, LoadLower

(* A file is closed, and the one that loaded it is at its end, too.        *)
LEMMA EndOfFileLowers ==
  ASSUME IInv, IInv', EndOfFile
  PROVE  Lower(4, LoadLeft', LoadLeft)
<1>1. files # <<>> /\ pc = "idle" /\ pc' = "idle" /\ files' = Front(files) /\ Closing
  BY DEF EndOfFile, Closing
<1>2. /\ files' \in Seq(0..MaxLines) /\ Len(files') = Len(files) - 1
      /\ Len(files) \in Nat \ {0}
      /\ \A i \in 1..(Len(files) - 1) : files'[i] = files[i]
  BY <1>1, LastAndFront DEF IInv, TypeOK
<1>3. Closing'
  <2>1. CASE files' = <<>>
    BY <1>1, <2>1 DEF Closing
  <2>2. CASE files' # <<>>
    <3>1. Len(files') # 0 /\ Len(files') \in 1..(Len(files) - 1)
      BY <1>2, <2>2
    <3>2. files'[Len(files')] = 0
      BY <1>2, <3>1 DEF IInv, OnlyLastLineLoads
    <3>3. Last(files)' = 0
      BY <3>2 DEF Last
    <3> QED BY <1>1, <3>3 DEF Closing
  <2> QED BY <2>1, <2>2
<1>4. FilesToOpen' = FilesToOpen /\ ToReadOrClose' < ToReadOrClose
  BY <1>1, <1>2, <1>3 DEF FilesToOpen, ToReadOrClose
<1> QED BY <1>1, <1>3, <1>4, LoadLower

(* Another file is opened, and closed at once if it is empty.              *)
LEMMA LoadLowers ==
  ASSUME IInv, IInv', files # <<>>, cmd_load
  PROVE  Lower(4, LoadLeft', LoadLeft)
<1>1. PICK n \in 0..MaxLines : files' = Append(files, n)
  BY DEF cmd_load
<1>2. pc = "line" /\ ~Closing /\ Len(files) < MaxFiles
  BY DEF cmd_load, Closing
<1>3. files \in Seq(0..MaxLines) /\ Len(files) \in Nat /\ MaxFiles \in Nat
  BY SizesAssumption DEF IInv, TypeOK
<1>4. Len(files') = Len(files) + 1 /\ files' # <<>>
  BY <1>1, <1>3, Appended
<1>5. FilesToOpen' < FilesToOpen
  BY <1>2, <1>3, <1>4 DEF FilesToOpen
<1> QED BY <1>4, <1>5, LoadLower

(* A line goes on, or ends, and with the last line of a file the file.     *)
LEMMA LineLowers ==
  ASSUME IInv, IInv', files # <<>>, UNCHANGED files, pc # "idle",
         LineLeft' < LineLeft
  PROVE  Lower(4, LoadLeft', LoadLeft)
<1>1. ~Closing /\ files' # <<>> /\ Last(files)' = Last(files)
  BY DEF Closing, Last
<1>2. Len(files) \in Nat /\ Len(files) <= MaxFiles /\ MaxFiles \in Nat
  BY SizesAssumption DEF IInv, TypeOK
<1>3. CASE Closing'
  <2>1. FilesToOpen' < FilesToOpen
    BY <1>1, <1>2, <1>3 DEF FilesToOpen
  <2> QED BY <1>1, <2>1, LoadLower
<1>4. CASE ~Closing'
  <2>1. FilesToOpen' = FilesToOpen /\ ToReadOrClose' = ToReadOrClose
    BY <1>1, <1>4 DEF FilesToOpen, ToReadOrClose
  <2> QED BY <1>1, <2>1, LoadLower
<1> QED BY <1>3, <1>4

(* An option that is taken keeps the command, and is one less to read.     *)
LEMMA ReadOptionLowers ==
  ASSUME IInv, IInv', files # <<>>, NEW o \in Options, ReadOption(o)
  PROVE  Lower(4, LoadLeft', LoadLeft)
<1>1. pc = "options" /\ Len(line) < MaxOptions /\ UNCHANGED files
  BY DEF ReadOption
<1>2. CASE Rejects(o)
  <2>1. LineLeft' < LineLeft
    BY <1>1, <1>2 DEF ReadOption, Leave, LineLeft
  <2> QED BY <1>1, <2>1, LineLowers
<1>3. CASE ~Rejects(o)
  <2>1. pc' = pc /\ line' = Append(line, o) /\ line \in Seq(Options)
    BY <1>3 DEF ReadOption, IInv, TypeOK
  <2>2. Len(line') = Len(line) + 1 /\ Len(line) \in Nat /\ MaxOptions \in Nat
    BY <2>1, Appended, SizesAssumption
  <2>3. ~Closing /\ ~Closing' /\ Last(files)' = Last(files)
    BY <1>1, <2>1 DEF Closing, Last
  <2>4. FilesToOpen' = FilesToOpen /\ ToReadOrClose' = ToReadOrClose /\ LineLeft' = LineLeft
    BY <1>1, <2>1, <2>3 DEF FilesToOpen, ToReadOrClose, LineLeft
  <2>5. OptionsToRead' < OptionsToRead
    BY <2>2 DEF OptionsToRead
  <2> QED BY <1>1, <2>4, <2>5, LoadLower
<1> QED BY <1>2, <1>3

(* A load, once begun, only goes forward, whatever the files hold and      *)
(* however deep they load one another (lib_bridge.c:532-557): by LowerEnds *)
(* the steps before it is back at the shell have an end.                   *)
THEOREM LoadGoesForward == Spec => LoadProgress
<1>1. ASSUME IInv, [Next]_vars, files # <<>>
      PROVE  Lower(4, LoadLeft', LoadLeft) \/ UNCHANGED vars
  <2>0. IInv'
    BY <1>1, NextInv
  <2>1. CASE ReadLine
    BY <1>1, <2>0, <2>1, ReadLineLowers
  <2>2. CASE EndOfFile
    BY <1>1, <2>0, <2>2, EndOfFileLowers
  <2>3. ASSUME NEW c \in Commands, StartCommand(c)
        PROVE  Lower(4, LoadLeft', LoadLeft)
    <3>1. pc = "line" /\ UNCHANGED files /\ LineLeft' < LineLeft
      BY <2>3 DEF StartCommand, LineLeft
    <3> QED BY <1>1, <2>0, <3>1, LineLowers
  <2>4. CASE cmd_load
    BY <1>1, <2>0, <2>4, LoadLowers
  <2>5. CASE cmd_show \/ NoEffect
    <3>1. pc = "line" /\ pc' \in {"idle", "undefined"} /\ UNCHANGED files
      BY <2>5 DEF cmd_show, NoEffect
    <3>2. LineLeft' < LineLeft
      BY <3>1 DEF LineLeft
    <3> QED BY <1>1, <2>0, <3>1, <3>2, LineLowers
  <2>6. ASSUME NEW o \in Options, ReadOption(o)
        PROVE  Lower(4, LoadLeft', LoadLeft)
    BY <1>1, <2>0, <2>6, ReadOptionLowers
  <2>7. CASE RejectWord \/ CallDevice \/ Return
    <3>1. pc \in {"options", "called"} /\ UNCHANGED files
      BY <2>7 DEF RejectWord, CallDevice, Return
    <3>2. LineLeft' < LineLeft
      BY <2>7 DEF RejectWord, CallDevice, Return, Leave, LineLeft
    <3> QED BY <1>1, <2>0, <3>1, <3>2, LineLowers
  <2> QED BY <1>1, <2>1, <2>2, <2>3, <2>4, <2>5, <2>6, <2>7 DEF Next, Proceed, cli_cmd
<1> QED BY <1>1, InvariantHolds, PTL DEF Spec, LoadProgress

=============================================================================
