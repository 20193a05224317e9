--------------------------- MODULE SwShell_proofs ---------------------------
(***************************************************************************)
(* What the filter command hands to a device and what brings the shell     *)
(* down, proved for lines of any length and arrays of any size.            *)
(***************************************************************************)
EXTENDS SwShell, SwProgress_proofs, FiniteSetTheorems, SequenceTheorems, TLAPS

(* The order of the fields without its indices.                            *)
LEMMA FieldNames ==
  Fields = {"in-phy-port", "in-port", "dl-dst", "dl-src", "dl-type", "nw-dst",
            "nw-src", "nw-ecn", "nw-proto", "tp-dst", "tp-src"}
BY DEF Fields, FieldOrder, NumFields

(* Each field has one place, and in-phy-port the first.                    *)
LEMMA PlaceOfField ==
  ASSUME NEW f \in Fields
  PROVE  /\ Place(f) \in 1..NumFields
         /\ FieldOrder[Place(f)] = f
         /\ Place(f) = 1 <=> f = "in-phy-port"
<1>1. \E i \in 1..NumFields : FieldOrder[i] = f
  BY DEF Fields
<1>2. Place(f) \in 1..NumFields /\ FieldOrder[Place(f)] = f
  BY <1>1 DEF Place
<1>3. \A i \in 1..NumFields : FieldOrder[i] = "in-phy-port" <=> i = 1
  BY DEF FieldOrder, NumFields
<1> QED BY <1>2, <1>3

-----------------------------------------------------------------------------
(* The places that were read are finitely many, and their ranks count them.*)
LEMMA Ranks ==
  ASSUME pos \in Nat, NEW keys
  PROVE  /\ IsFiniteSet(Read(keys)) /\ Cardinality(Read(keys)) \in Nat
         /\ \A i \in Read(keys) : Rank(i, keys) \in 1..Cardinality(Read(keys))
<1>1. IsFiniteSet(1..pos)
  BY FS_Interval
<1>2. IsFiniteSet(Read(keys)) /\ Cardinality(Read(keys)) \in Nat
  BY <1>1, FS_Subset, FS_CardinalityType DEF Read
<1>3. ASSUME NEW i \in Read(keys)
      PROVE  Rank(i, keys) \in 1..Cardinality(Read(keys))
  <2> DEFINE Below == {j \in Read(keys) : j <= i}
  <2>1. IsFiniteSet(Below) /\ Cardinality(Below) <= Cardinality(Read(keys))
    BY <1>2, FS_Subset
  <2>2. i \in Below
    BY DEF Read
  <2>3. Cardinality(Below) \in Nat /\ Cardinality(Below) # 0
    BY <2>1, <2>2, FS_CardinalityType, FS_EmptySet
  <2> QED BY <1>2, <2>1, <2>3 DEF Rank
<1> QED BY <1>2, <1>3

(* One more option is read.                                                *)
LEMMA ReadNext ==
  ASSUME pos \in Nat, line' = line, pos' = pos + 1, NEW keys
  PROVE  /\ Opt.key \notin keys => Read(keys)' = Read(keys)
         /\ Opt.key \in keys => /\ Read(keys)' = Read(keys) \cup {pos + 1}
                                /\ Cardinality(Read(keys)') = Cardinality(Read(keys)) + 1
                                /\ \A i : i = pos + 1 => Rank(i, keys)' = Cardinality(Read(keys)) + 1
         /\ \A i \in Read(keys) : Rank(i, keys)' = Rank(i, keys)
         /\ Cardinality(Read(keys)) <= Cardinality(Read(keys)')
<1>1. Opt.key \notin keys => Read(keys)' = Read(keys)
  BY DEF Read, Opt
<1>2. Opt.key \in keys => Read(keys)' = Read(keys) \cup {pos + 1}
  BY DEF Read, Opt
<1>3. pos + 1 \notin Read(keys) /\ \A i \in Read(keys) : i <= pos /\ i \in Nat
  BY DEF Read
<1>4. IsFiniteSet(Read(keys)) /\ Cardinality(Read(keys)) \in Nat
  BY Ranks
<1>5. Opt.key \in keys => Cardinality(Read(keys)') = Cardinality(Read(keys)) + 1
  BY <1>2, <1>3, <1>4, FS_AddElement
<1>6. ASSUME Opt.key \in keys, NEW i, i = pos + 1
      PROVE  Rank(i, keys)' = Cardinality(Read(keys)) + 1
  <2>1. {j \in Read(keys)' : j <= i} = Read(keys)'
    BY <1>2, <1>3, <1>6
  <2> QED BY <2>1, <1>5, <1>6 DEF Rank
<1>7. ASSUME NEW i \in Read(keys)
      PROVE  Rank(i, keys)' = Rank(i, keys)
  <2>1. {j \in Read(keys)' : j <= i} = {j \in Read(keys) : j <= i}
    BY <1>1, <1>2, <1>3
  <2> QED BY <2>1 DEF Rank
<1>8. Cardinality(Read(keys)) <= Cardinality(Read(keys)')
  BY <1>1, <1>4, <1>5
<1> QED BY <1>1, <1>2, <1>5, <1>6, <1>7, <1>8

-----------------------------------------------------------------------------
(* Letters are cut off lines, and what is left is a line.                  *)
LEMMA CutOptionType ==
  ASSUME NEW o \in Options
  PROVE  CutOption(o) \in Options
<1> DEFINE n == o.num \div Base(o.key)
<1>1. Base(o.key) = 10 \/ Base(o.key) = 16
  BY DEF Base
<1>2. o.num \in Int
  BY DEF Options
<1>3. n \in Int
  <2>1. o.num \div 10 \in Int /\ o.num \div 16 \in Int
    BY <1>2
  <2> QED BY <1>1, <2>1
<1>4. 0 <= o.num /\ o.num <= 255 => 0 <= n /\ n <= 255
  <2> SUFFICES ASSUME 0 <= o.num, o.num <= 255 PROVE 0 <= n /\ n <= 255
    OBVIOUS
  <2>1. /\ 0 <= o.num \div 10 /\ o.num \div 10 <= 255
        /\ 0 <= o.num \div 16 /\ o.num \div 16 <= 255
    BY <1>2
  <2> QED BY <1>1, <2>1
<1>5. [o EXCEPT !.num = n] \in Options
  <2> HIDE DEF n
  <2> QED BY <1>3, <1>4 DEF Options
<1>6. [key |-> o.key, val |-> "blank", num |-> 0] \in Options /\ [o EXCEPT !.val = "none"] \in Options
  BY DEF Options
<1>7. [o EXCEPT !.key = "other"] \in Options
  BY DEF Options, Keys, Addresses
<1> QED BY <1>5, <1>6, <1>7 DEF CutOption

LEMMA CutOptionsType ==
  ASSUME NEW opts \in Seq(Options), opts # <<>>
  PROVE  CutOptions(opts) \in Seq(Options)
<1>1. Len(opts) \in Nat \ {0} /\ opts[Len(opts)] \in Options
  OBVIOUS
<1>2. SubSeq(opts, 1, Len(opts) - 1) \in Seq(Options)
  BY <1>1
<1>3. CutOption(opts[Len(opts)]) \in Options
  BY <1>1, CutOptionType
<1> QED BY <1>2, <1>3 DEF CutOptions

LEMMA CutType ==
  ASSUME NEW l \in Lines
  PROVE  Cut(l) \in Lines
<1>1. CASE l.opts # <<>>
  BY <1>1, CutOptionsType DEF Cut, Lines
<1>2. CASE l.opts = <<>> /\ l.word = "sec" /\ l.num # 0
  BY <1>2 DEF Cut, Lines
<1>3. CASE l.opts = <<>> /\ l.word \in {"help", "quit", "bare"} /\ l.num > 0
  BY <1>3 DEF Cut, Lines
<1>4. CASE l.opts = <<>> /\ (l.word = "sec" => l.num = 0)
           /\ ~(l.word \in {"help", "quit", "bare"} /\ l.num > 0)
  <2> DEFINE w == CASE l.word = "sec"  -> "bare"
                    [] l.word \in {"help", "quit", "bare"} -> "other"
                    [] OTHER -> "empty"
  <2>1. w \in Words
    BY DEF Words
  <2>2. Cut(l) = [l EXCEPT !.word = w]
    BY <1>4 DEF Cut
  <2> QED BY <2>1, <2>2 DEF Lines
<1> QED BY <1>1, <1>2, <1>3, <1>4

(* The values stored for a field are octets or a number.                   *)
LEMMA ValuesType ==
  ASSUME NEW o \in Options, NEW last \in BOOLEAN
  PROVE  Values(o, last) \subseteq Seq(Int)
<1>1. o.num \in Int /\ Bits(Number(o)) \in Int
  BY DEF Options, Number, Bits
<1>2. <<2, 0, 0, 0, 0, o.num>> \in Seq(Int)
  BY <1>1
<1>3. <<o.num, 0, 0, 10>> \in Seq(Int)
  BY <1>1
<1>4. <<Bits(Number(o))>> \in Seq(Int)
  BY <1>1
<1>5. CASE o.key \in {"dl-dst", "dl-src"}
  BY <1>1, <1>2, <1>5 DEF Values
<1>6. CASE o.key \notin {"dl-dst", "dl-src", "nw-dst", "nw-src"}
  BY <1>1, <1>4, <1>6 DEF Values
<1>7. CASE o.key \in {"nw-dst", "nw-src"} /\ o.val = "value" /\ ~last
  BY <1>1, <1>3, <1>7 DEF Values
<1>8. CASE o.key \in {"nw-dst", "nw-src"} /\ ~(o.val = "value" /\ ~last)
  BY <1>8, GarbageAssumption DEF Values
<1> QED BY <1>5, <1>6, <1>7, <1>8

-----------------------------------------------------------------------------
(* Type correctness.  A line is begun at its first option, which is why    *)
(* the two are proved together.                                            *)
Typing == TypeOK /\ (at = "off" => pos = 0)

LEMMA InitTypes == Init => Typing
<1> SUFFICES ASSUME Init PROVE Typing
  OBVIOUS
<1>1. boot \in Boots /\ boot.flw_dev_cnt \in Nat
  BY BootsAssumption DEF Init, FilterInit
<1>2. /\ line \in Seq(Options) /\ pos \in 0..Len(line) /\ actions \in Seq(Nat)
      /\ tuples \in Seq([id : Fields, value : Seq(Int)])
  BY DEF Init, FilterInit
<1>3. Len(tuples) <= ArraySize /\ Len(actions) <= ArraySize
  BY ArrayAssumption DEF Init, FilterInit
<1>4. /\ newline \in BOOLEAN /\ at = "off" /\ flow_cmd \in Commands \cup {"none"}
      /\ eof \in BOOLEAN /\ shell = "prompt"
  BY DEF Init, FilterInit
<1>5. dev_id \in 0..boot.flw_dev_cnt /\ tbl_id \in Nat /\ rqd_field \in 0..NumFields /\ pos = 0
  BY <1>1 DEF Init, FilterInit, NumFields
<1>6. FilterTypeOK
  BY <1>1, <1>2, <1>3, <1>4, <1>5, Zenon DEF FilterTypeOK
<1>7. Blank("unset") \in Lines
  <2>1. <<>> \in Seq(Options) /\ "unset" \in Words /\ 0 \in Int
    BY DEF Words
  <2> QED BY <2>1 DEF Blank, Lines
<1>8. buf \in Lines /\ typed \in Lines /\ unread \in 0..MaxFileLines
  BY <1>7, ShellSizes DEF Init
<1> QED BY <1>4, <1>5, <1>6, <1>8, Zenon DEF Typing, TypeOK

FilterTyping == FilterTypeOK /\ (at = "off" => pos = 0)

(* The option that comes next is one.                                      *)
LEMMA OptType ==
  ASSUME FilterTypeOK, pos < Len(line)
  PROVE  Opt \in Options /\ pos \in Nat /\ pos + 1 \in 0..Len(line)
<1>1. line \in Seq(Options) /\ pos \in 0..Len(line) /\ Len(line) \in Nat
  BY DEF FilterTypeOK
<1>2. pos + 1 \in 1..Len(line)
  BY <1>1
<1> QED BY <1>1, <1>2 DEF Opt

(* What is read of an option's number.                                     *)
LEMMA NumberType ==
  ASSUME NEW o \in Options
  PROVE  /\ Number(o) \in Int /\ Short(Number(o)) \in Int
         /\ Bits(Number(o)) \in Nat
BY DEF Options, Number, Short, Bits

LEMMA LeaveTypes ==
  ASSUME FilterTypeOK, Leave, boot' = boot
  PROVE  FilterTyping'
<1>1. boot' \in Boots /\ boot.flw_dev_cnt \in Nat
  BY BootsAssumption DEF FilterTypeOK
<1>2. /\ line' \in Seq(Options) /\ pos' \in 0..Len(line') /\ actions' \in Seq(Nat)
      /\ tuples' \in Seq([id : Fields, value : Seq(Int)])
  BY DEF Leave
<1>3. Len(tuples') <= ArraySize /\ Len(actions') <= ArraySize
  BY ArrayAssumption DEF Leave
<1>4. newline' \in BOOLEAN /\ at' = "off" /\ flow_cmd' \in Commands \cup {"none"}
  BY DEF Leave
<1>5. dev_id' \in 0..boot'.flw_dev_cnt /\ tbl_id' \in Nat /\ rqd_field' \in 0..NumFields /\ pos' = 0
  BY <1>1 DEF Leave, NumFields
<1> QED BY <1>1, <1>2, <1>3, <1>4, <1>5, Zenon DEF FilterTypeOK, FilterTyping

LEMMA CrashTypes ==
  ASSUME FilterTypeOK, Crash, boot' = boot, pos < Len(line)
  PROVE  FilterTyping'
<1>1. pos' \in 0..Len(line') /\ at' = "crashed"
  BY OptType DEF Crash
<1> QED BY <1>1, Zenon DEF Crash, locals, FilterTypeOK, FilterTyping

(* A step to the next option that changes only some of the variables.      *)
LEMMA NextTypes ==
  ASSUME FilterTypeOK, pos < Len(line), boot' = boot, line' = line, newline' = newline,
         pos' = pos + 1, at' \in {"options", "actions"},
         flow_cmd' \in Commands \cup {"none"}, dev_id' \in 0..boot.flw_dev_cnt,
         tbl_id' \in Nat, rqd_field' \in 0..NumFields,
         tuples' \in Seq([id : Fields, value : Seq(Int)]), Len(tuples') <= ArraySize,
         actions' \in Seq(Nat), Len(actions') <= ArraySize
  PROVE  FilterTyping'
<1>1. pos' \in 0..Len(line')
  BY OptType
<1>2. at' # "off" /\ at' \in {"off", "options", "actions", "called", "crashed"}
  OBVIOUS
<1>3. /\ boot' \in Boots /\ line' \in Seq(Options) /\ newline' \in BOOLEAN
      /\ dev_id' \in 0..boot'.flw_dev_cnt
  BY Zenon DEF FilterTypeOK
<1> QED BY <1>1, <1>2, <1>3, Zenon DEF FilterTypeOK, FilterTyping

LEMMA FilterStepTypes ==
  ASSUME FilterTyping, FilterStep
  PROVE  FilterTyping' /\ at # "off"
<1> USE DEF FilterTyping
<1>1. CASE SkipFilter
  BY <1>1, NextTypes DEF SkipFilter, Sees, Advance, locals, FilterTypeOK
<1>2. CASE SetCommand
  BY <1>2, NextTypes DEF SetCommand, Sees, Advance, FilterTypeOK
<1>3. CASE ReadDev
  <2>1. dev_id' \in 0..boot.flw_dev_cnt
    <3>1. Short(Number(Opt)) \in Int
      BY <1>3, OptType, NumberType DEF ReadDev, Sees
    <3> QED BY <1>3, <3>1 DEF ReadDev, DeviceAccepted
  <2> QED BY <1>3, <2>1, NextTypes DEF ReadDev, Sees, Advance, FilterTypeOK
<1>4. CASE ReadTbl
  <2>1. tbl_id' \in Nat
    <3>1. Short(Number(Opt)) \in Int
      BY <1>4, OptType, NumberType DEF ReadTbl, Sees
    <3> QED BY <1>4, <3>1 DEF ReadTbl
  <2> QED BY <1>4, <2>1, NextTypes DEF ReadTbl, Sees, Advance, FilterTypeOK
<1>5. CASE ReadField
  <2>1. Opt \in Options /\ Opt.key \in Fields
    BY <1>5, OptType DEF ReadField, SeesField, Sees
  <2>2. rqd_field' \in 0..NumFields
    <3>1. Place(Opt.key) \in 1..NumFields
      BY <2>1, PlaceOfField
    <3> QED BY <1>5, <3>1 DEF ReadField, NumFields
  <2>3. HasNewline(pos + 1) \in BOOLEAN
    BY DEF HasNewline, FilterTypeOK
  <2>4. PICK value \in Values(Opt, HasNewline(pos + 1)) :
          tuples' = Append(tuples, [id |-> Opt.key, value |-> value])
    BY <1>5 DEF ReadField
  <2>5. value \in Seq(Int)
    BY <2>1, <2>3, <2>4, ValuesType
  <2>6. [id |-> Opt.key, value |-> value] \in [id : Fields, value : Seq(Int)]
    BY <2>1, <2>5
  <2>7. /\ tuples' \in Seq([id : Fields, value : Seq(Int)])
        /\ Len(tuples') = Len(tuples) + 1 /\ Len(tuples) \in Nat
    BY <2>4, <2>6 DEF FilterTypeOK
  <2>8. Len(tuples') <= ArraySize
    BY <1>5, <2>7, ArrayAssumption DEF ReadField
  <2> QED BY <1>5, <2>2, <2>7, <2>8, NextTypes DEF ReadField, SeesField, Sees, Advance, FilterTypeOK
<1>6. CASE OverrunTuples
  BY <1>6, CrashTypes DEF OverrunTuples, SeesField, Sees
<1>7. CASE BadSource
  BY <1>7, CrashTypes DEF BadSource, SeesField, Sees
<1>8. CASE BeginActions
  BY <1>8, NextTypes DEF BeginActions, Sees, locals, FilterTypeOK
<1>9. CASE Reject
  BY <1>9, LeaveTypes DEF Reject, Sees
<1>10. CASE Drop
  BY <1>10, NextTypes DEF Drop, Sees, Advance, locals, FilterTypeOK
<1>11. CASE OutPort
  <2>1. Bits(Number(Opt)) \in Nat
    BY <1>11, OptType, NumberType DEF OutPort, Sees
  <2>2. /\ actions' \in Seq(Nat)
        /\ Len(actions') = Len(actions) + 1 /\ Len(actions) \in Nat
    BY <1>11, <2>1 DEF OutPort, FilterTypeOK
  <2>3. Len(actions') <= ArraySize
    BY <1>11, <2>2, ArrayAssumption DEF OutPort
  <2> QED BY <1>11, <2>2, <2>3, NextTypes DEF OutPort, Sees, Advance, FilterTypeOK
<1>12. CASE OverrunActions
  BY <1>12, CrashTypes DEF OverrunActions, Sees
<1>13. CASE RejectAction
  BY <1>13, LeaveTypes DEF RejectAction, Sees
<1>14. CASE NoCommand
  BY <1>14, LeaveTypes DEF NoCommand, AtEnd
<1>15. CASE CallDevice
  <2>1. at' \in {"called", "crashed"} /\ at # "off"
    BY <1>15 DEF CallDevice, AtEnd
  <2> QED BY <1>15, <2>1, Zenon DEF CallDevice, locals, FilterTypeOK
<1>16. CASE DeviceReturns
  <2>1. CASE boot.has_dump
    BY <1>16, <2>1, LeaveTypes DEF DeviceReturns
  <2>2. CASE ~boot.has_dump
    <3>1. at' = "crashed" /\ at = "called"
      BY <1>16, <2>2 DEF DeviceReturns
    <3> QED BY <1>16, <2>2, <3>1, Zenon DEF DeviceReturns, locals, FilterTypeOK
  <2> QED BY <2>1, <2>2
<1> QED
  BY <1>1, <1>2, <1>3, <1>4, <1>5, <1>6, <1>7, <1>8, <1>9, <1>10, <1>11, <1>12, <1>13,
     <1>14, <1>15, <1>16 DEF FilterStep

(* A line is handed to the filter.                                         *)
LEMMA StartTypes ==
  ASSUME FilterTyping, NEW cmd \in Seq(Options), NEW ends \in BOOLEAN, StartFilter(cmd, ends)
  PROVE  FilterTyping'
<1>1. line' \in Seq(Options) /\ newline' \in BOOLEAN /\ at' = "options"
  BY Zenon DEF StartFilter
<1>2. pos' \in 0..Len(line')
  BY <1>1 DEF StartFilter, FilterTyping
<1> QED BY <1>1, <1>2, Zenon DEF StartFilter, locals, FilterTypeOK, FilterTyping

(* A step of the shell alone.                                              *)
LEMMA ShellTypes ==
  ASSUME Typing, UNCHANGED filter_vars,
         shell' \in {"prompt", "run", "load", "ended", "undefined"},
         shell' # "load" => at = "off",
         buf' \in Lines, typed' \in Lines, eof' \in BOOLEAN, unread' \in 0..MaxFileLines
  PROVE  Typing'
<1>1. FilterTypeOK' /\ (at' = "off" => pos' = 0)
  BY Zenon DEF filter_vars, Typing, TypeOK, FilterTypeOK
<1>2. shell' \notin {"filter", "load"} => at' = "off"
  BY DEF filter_vars
<1>3. shell' \in {"prompt", "run", "filter", "load", "ended", "undefined"}
  OBVIOUS
<1> QED BY <1>1, <1>2, <1>3, Zenon DEF Typing, TypeOK

LEMMA NextStepTypes ==
  ASSUME Typing, [Next]_vars
  PROVE  Typing'
<1>0. /\ buf \in Lines /\ typed \in Lines /\ eof \in BOOLEAN /\ unread \in 0..MaxFileLines
      /\ FilterTyping /\ (shell \notin {"filter", "load"} => at = "off")
  BY Zenon DEF Typing, TypeOK, FilterTyping
<1>1. CASE TypeLine
  BY <1>0, <1>1, ShellTypes, LinesAssumption DEF TypeLine
<1>2. CASE TypePart
  <2>1. buf' \in Lines /\ typed' \in Lines
    BY <1>2, CutType, LinesAssumption DEF TypePart
  <2> QED BY <1>0, <1>2, <2>1, ShellTypes DEF TypePart
<1>3. CASE EndInput
  BY <1>0, <1>3, ShellTypes DEF EndInput
<1>4. CASE RunAgain
  <2>1. buf' \in Lines /\ shell' \in {"run", "undefined"}
    BY <1>0, <1>4, CutType DEF RunAgain
  <2> QED BY <1>0, <1>4, <2>1, ShellTypes DEF RunAgain
<1>5. CASE NoEffect \/ Quit \/ SecUndefined \/ SecNothing \/ SecBridge
  <2>1. /\ shell' \in {"prompt", "ended", "undefined"} /\ shell = "run"
        /\ UNCHANGED <<buf, typed, eof, unread, filter_vars>>
    BY <1>5 DEF NoEffect, Quit, SecUndefined, SecNothing, SecBridge
  <2> QED BY <1>0, <2>1, ShellTypes
<1>6. CASE FlowFilter
  <2>1. buf.opts \in Seq(Options)
    BY <1>0 DEF Lines
  <2>2. FilterTyping'
    BY <1>0, <1>6, <2>1, StartTypes DEF FlowFilter
  <2>3. shell' = "filter"
    BY <1>6 DEF FlowFilter
  <2> QED BY <1>0, <1>6, <2>2, <2>3, Zenon DEF FlowFilter, FilterTyping, Typing, TypeOK
<1>7. CASE FlowLoad
  BY <1>0, <1>7, ShellTypes DEF FlowLoad, SecFlow
<1>8. CASE FlowNothing
  BY <1>0, <1>8, ShellTypes DEF FlowNothing, SecFlow
<1>9. CASE FilterReturns
  BY <1>0, <1>9, ShellTypes DEF FilterReturns
<1>10. CASE NextLine
  <2>1. PICK l \in FileLines : \E ends \in {TRUE, unread # 1} : StartFilter(l, ends)
    BY <1>10 DEF NextLine
  <2>2. FilterTyping'
    BY <1>0, <2>1, StartTypes, LinesAssumption
  <2>3. unread' \in 0..MaxFileLines /\ shell' = "load"
    BY <1>0, <1>10, ShellSizes DEF NextLine
  <2> QED BY <1>0, <1>10, <2>2, <2>3, Zenon DEF NextLine, FilterTyping, Typing, TypeOK
<1>11. CASE EndOfFile
  BY <1>0, <1>11, ShellTypes DEF EndOfFile
<1>12. CASE Filter
  <2>1. FilterTyping' /\ at # "off" /\ UNCHANGED shell_vars
    BY <1>0, <1>12, FilterStepTypes DEF Filter
  <2>2. shell \in {"filter", "load"}
    BY <1>0, <2>1
  <2> QED BY <2>1, <2>2, Zenon DEF shell_vars, FilterTyping, Typing, TypeOK
<1>13. CASE UNCHANGED vars
  BY <1>13, Zenon DEF vars, filter_vars, shell_vars, Typing, TypeOK, FilterTypeOK
<1> QED
  BY <1>1, <1>2, <1>3, <1>4, <1>5, <1>6, <1>7, <1>8, <1>9, <1>10, <1>11, <1>12, <1>13
  DEF Next, Proceed

(* Every variable of the shell and of its filters always has its type.     *)
THEOREM TypeCorrect == Spec => []TypeOK
<1>1. Typing => TypeOK
  BY DEF Typing
<1> QED BY <1>1, InitTypes, NextStepTypes, PTL DEF Spec

-----------------------------------------------------------------------------
(* Before the first option nothing was read.                               *)
LEMMA InitInv == Init => FilterInv
<1> SUFFICES ASSUME Init PROVE FilterInv
  OBVIOUS
<1> USE DEF Init, FilterInit
<1>1. \A keys : Read(keys) = {}
  BY DEF Read
<1>2. Cardinality({}) = 0
  BY FS_EmptySet
<1>3. TuplesAsTyped /\ ActionsAsTyped
  BY <1>1, <1>2 DEF TuplesAsTyped, ActionsAsTyped
<1>4. CommandAsTyped /\ LastSays("dev", dev_id, 0) /\ LastSays("tbl", tbl_id, 0)
  BY <1>1 DEF CommandAsTyped, LastSays
<1>5. LastPlace /\ Restarts /\ Chained /\ CrashCauses
  BY DEF LastPlace, Restarts, Chained, CrashCauses
<1> QED BY <1>3, <1>4, <1>5 DEF FilterInv, FlowAsTyped

LEMMA LeaveInv ==
  ASSUME Leave
  PROVE  FilterInv'
<1> USE DEF Leave
<1>1. \A keys : Read(keys)' = {}
  BY DEF Read
<1>2. Cardinality({}) = 0
  BY FS_EmptySet
<1>3. TuplesAsTyped' /\ ActionsAsTyped'
  BY <1>1, <1>2 DEF TuplesAsTyped, ActionsAsTyped
<1>4. CommandAsTyped' /\ LastSays("dev", dev_id, 0)' /\ LastSays("tbl", tbl_id, 0)'
  BY <1>1 DEF CommandAsTyped, LastSays
<1>5. LastPlace' /\ Restarts' /\ Chained' /\ CrashCauses'
  BY DEF LastPlace, Restarts, Chained, CrashCauses
<1> QED BY <1>3, <1>4, <1>5 DEF FilterInv, FlowAsTyped

LEMMA StartInv ==
  ASSUME FilterInv, NEW cmd, NEW ends, StartFilter(cmd, ends)
  PROVE  FilterInv'
<1>1. pos = 0 /\ pos' = 0 /\ at = "off" /\ at' = "options" /\ UNCHANGED locals
  BY DEF StartFilter, FilterInv
<1>2. \A keys : Read(keys) = {} /\ Read(keys)' = {}
  BY <1>1 DEF Read
<1>3. TuplesAsTyped' /\ ActionsAsTyped'
  BY <1>1, <1>2 DEF FilterInv, FlowAsTyped, TuplesAsTyped, ActionsAsTyped, locals
<1>4. CommandAsTyped' /\ LastSays("dev", dev_id, 0)' /\ LastSays("tbl", tbl_id, 0)'
  BY <1>1, <1>2 DEF FilterInv, FlowAsTyped, CommandAsTyped, LastSays, locals
<1>5. LastPlace' /\ Chained' /\ CrashCauses'
  BY <1>1 DEF FilterInv, LastPlace, Chained, CrashCauses, locals
<1>6. Restarts'
  BY <1>1, <1>2 DEF FilterInv, Restarts, locals
<1> QED BY <1>1, <1>3, <1>4, <1>5, <1>6 DEF FilterInv, FlowAsTyped

-----------------------------------------------------------------------------
(* What an option leaves alone stays as typed.                             *)
NextOption ==
  /\ FilterTypeOK /\ pos < Len(line)
  /\ line' = line /\ newline' = newline /\ pos' = pos + 1

LEMMA TuplesKept ==
  ASSUME NextOption, TuplesAsTyped, Opt.key \notin Fields, tuples' = tuples
  PROVE  TuplesAsTyped'
<1>1. Read(Fields)' = Read(Fields) /\ \A i \in Read(Fields) : Rank(i, Fields)' = Rank(i, Fields)
  BY ReadNext, OptType DEF NextOption
<1>2. \A i : HasNewline(i)' = HasNewline(i)
  BY DEF HasNewline, NextOption
<1>3. \A o, last : Values(o, last)' = Values(o, last)
  BY DEF Values
<1> QED BY <1>1, <1>2, <1>3 DEF TuplesAsTyped, NextOption

LEMMA ActionsKept ==
  ASSUME NextOption, ActionsAsTyped, Opt.key # "out-port", actions' = actions
  PROVE  ActionsAsTyped'
<1>1. /\ Read({"out-port"})' = Read({"out-port"})
      /\ \A i \in Read({"out-port"}) : Rank(i, {"out-port"})' = Rank(i, {"out-port"})
  BY ReadNext, OptType DEF NextOption
<1> QED BY <1>1 DEF ActionsAsTyped, NextOption

LEMMA CommandKept ==
  ASSUME NextOption, CommandAsTyped, Opt.key \notin Commands, flow_cmd' = flow_cmd
  PROVE  CommandAsTyped'
<1>1. Read(Commands)' = Read(Commands)
  BY ReadNext, OptType DEF NextOption
<1> QED BY <1>1 DEF CommandAsTyped, NextOption

LEMMA DevKept ==
  ASSUME NextOption, LastSays("dev", dev_id, 0), Opt.key # "dev", dev_id' = dev_id
  PROVE  LastSays("dev", dev_id, 0)'
<1>1. Read({"dev"})' = Read({"dev"})
  BY ReadNext, OptType DEF NextOption
<1> QED BY <1>1 DEF LastSays, NextOption

LEMMA TblKept ==
  ASSUME NextOption, LastSays("tbl", tbl_id, 0), Opt.key # "tbl", tbl_id' = tbl_id
  PROVE  LastSays("tbl", tbl_id, 0)'
<1>1. Read({"tbl"})' = Read({"tbl"})
  BY ReadNext, OptType DEF NextOption
<1> QED BY <1>1 DEF LastSays, NextOption

LEMMA OrderKept ==
  ASSUME NextOption, LastPlace, Restarts, Chained, tuples' = tuples, rqd_field' = rqd_field
  PROVE  LastPlace' /\ Restarts' /\ Chained'
<1> DEFINE C == Cardinality(Read({"in-phy-port"}))
<1>1. C \in Nat /\ C' \in Nat /\ C <= C'
  <2>1. pos \in Nat /\ pos' \in Nat
    BY OptType DEF NextOption
  <2>2. C \in Nat /\ C <= C'
    BY <2>1, ReadNext, Ranks DEF NextOption
  <2>3. C' = C \/ C' = C + 1
    BY <2>1, ReadNext DEF NextOption
  <2> QED BY <2>2, <2>3
<1>2. Len(tuples) \in Nat /\ rqd_field \in Nat
  BY DEF NextOption, FilterTypeOK, NumFields
<1>3. Restarts'
  BY <1>1, <1>2 DEF Restarts, NumFields
<1>4. LastPlace' /\ Chained'
  BY DEF LastPlace, Chained
<1> QED BY <1>3, <1>4

(* A step to the next option that keeps everything as typed.               *)
LEMMA NextInv ==
  ASSUME at' \in {"options", "actions"}, LastPlace', Restarts', Chained',
         TuplesAsTyped', ActionsAsTyped', CommandAsTyped',
         LastSays("dev", dev_id, 0)', LastSays("tbl", tbl_id, 0)'
  PROVE  FilterInv'
BY DEF FilterInv, FlowAsTyped, CrashCauses

-----------------------------------------------------------------------------
(* A field is appended with its value, and in its place.                   *)
LEMMA ReadFieldInv ==
  ASSUME FilterTyping, FilterInv, ReadField
  PROVE  FilterInv'
<1>1. /\ NextOption /\ at = "options" /\ at' = "options" /\ Opt.key \in Fields /\ InOrder(Opt.key)
      /\ UNCHANGED <<boot, flow_cmd, dev_id, tbl_id, actions>>
      /\ rqd_field' = Place(Opt.key)
  BY DEF ReadField, SeesField, Sees, Advance, NextOption, FilterTyping
<1>2. /\ LastPlace /\ Restarts /\ Chained /\ TuplesAsTyped /\ ActionsAsTyped /\ CommandAsTyped
      /\ LastSays("dev", dev_id, 0) /\ LastSays("tbl", tbl_id, 0)
  BY <1>1 DEF FilterInv, FlowAsTyped
<1>3. PICK value \in Values(Opt, HasNewline(pos + 1)) :
        tuples' = Append(tuples, [id |-> Opt.key, value |-> value])
  BY DEF ReadField
<1>4. Len(tuples) \in Nat /\ pos \in Nat /\ tuples \in Seq([id : Fields, value : Seq(Int)])
  BY <1>1, OptType DEF FilterTyping, FilterTypeOK
<1>5. /\ Len(tuples') = Len(tuples) + 1
      /\ \A i \in 1..Len(tuples) : tuples'[i] = tuples[i]
      /\ tuples'[Len(tuples) + 1] = [id |-> Opt.key, value |-> value]
  BY <1>3, <1>4
<1>6. Opt.key \notin Commands \cup {"dev", "tbl", "out-port"}
  BY <1>1, FieldNames DEF Commands
<1>6a. \A i \in 1..Len(tuples) :
         \/ tuples'[i].id = "in-phy-port"
         \/ i > 1 /\ Place(tuples'[i].id) = Place(tuples'[i - 1].id) + 1
  <2> SUFFICES ASSUME NEW i \in 1..Len(tuples), tuples'[i].id # "in-phy-port"
               PROVE  i > 1 /\ Place(tuples'[i].id) = Place(tuples'[i - 1].id) + 1
    OBVIOUS
  <2>1. tuples'[i] = tuples[i]
    BY <1>5
  <2>2. i > 1 /\ Place(tuples[i].id) = Place(tuples[i - 1].id) + 1
    BY <1>2, <2>1, Zenon DEF Chained
  <2>3. i - 1 \in 1..Len(tuples)
    BY <1>4, <2>2
  <2>4. tuples'[i - 1] = tuples[i - 1]
    BY <1>5, <2>3
  <2> QED BY <2>1, <2>2, <2>4, Zenon
<1>7. ActionsAsTyped' /\ CommandAsTyped' /\ LastSays("dev", dev_id, 0)' /\ LastSays("tbl", tbl_id, 0)'
  BY <1>1, <1>2, <1>6, ActionsKept, CommandKept, DevKept, TblKept
<1>8. TuplesAsTyped'
  <2>1. /\ Read(Fields)' = Read(Fields) \cup {pos + 1}
        /\ Cardinality(Read(Fields)') = Cardinality(Read(Fields)) + 1
        /\ \A i \in Read(Fields) : Rank(i, Fields)' = Rank(i, Fields)
        /\ \A i : i = pos + 1 => Rank(i, Fields)' = Cardinality(Read(Fields)) + 1
    BY <1>1, <1>4, ReadNext DEF NextOption
  <2>2. Len(tuples) = Cardinality(Read(Fields))
    BY <1>2 DEF TuplesAsTyped
  <2>3. \A i \in Read(Fields) : Rank(i, Fields) \in 1..Len(tuples)
    BY <1>4, <2>2, Ranks
  <2>4. \A o, last : Values(o, last)' = Values(o, last)
    BY DEF Values
  <2>5. \A i : HasNewline(i)' = HasNewline(i)
    BY <1>1 DEF HasNewline, NextOption
  <2>6. ASSUME NEW i \in Read(Fields)'
        PROVE  /\ (tuples[Rank(i, Fields)].id = line[i].key)'
               /\ (tuples[Rank(i, Fields)].value \in Values(line[i], HasNewline(i)))'
    <3>1. CASE i \in Read(Fields)
      <4>1. tuples'[Rank(i, Fields)'] = tuples[Rank(i, Fields)]
        BY <1>5, <2>1, <2>3, <3>1
      <4>2. line'[i] = line[i]
        BY <1>1 DEF NextOption
      <4> QED BY <1>2, <2>4, <2>5, <3>1, <4>1, <4>2 DEF TuplesAsTyped
    <3>2. CASE i = pos + 1
      <4>1. tuples'[Rank(i, Fields)'] = [id |-> Opt.key, value |-> value]
        BY <1>5, <2>1, <2>2, <3>2
      <4>2. line'[i] = Opt
        BY <1>1, <3>2 DEF NextOption, Opt
      <4>3. tuples'[Rank(i, Fields)'].id = Opt.key /\ tuples'[Rank(i, Fields)'].value = value
        BY <4>1
      <4>4. HasNewline(i)' = HasNewline(pos + 1)
        BY <2>5, <3>2
      <4> QED BY <1>3, <4>2, <4>3, <4>4, Zenon
    <3> QED BY <2>1, <3>1, <3>2
  <2> QED BY <1>5, <2>1, <2>2, <2>6 DEF TuplesAsTyped
<1>9. /\ Place(Opt.key) \in 1..NumFields
      /\ Place(Opt.key) = 1 <=> Opt.key = "in-phy-port"
  BY <1>1, PlaceOfField
<1>10. LastPlace'
  BY <1>1, <1>4, <1>5 DEF LastPlace
<1>11. CASE Opt.key = "in-phy-port"
  <2> DEFINE C == Cardinality(Read({"in-phy-port"}))
  <2>1. C \in Nat /\ C' = C + 1
    BY <1>1, <1>4, <1>11, ReadNext, Ranks DEF NextOption
  <2>2. rqd_field' = 1 /\ rqd_field <= NumFields /\ rqd_field \in Nat
    BY <1>1, <1>9, <1>11 DEF FilterTyping, FilterTypeOK, NumFields
  <2>3. Restarts'
    BY <1>2, <1>4, <1>5, <2>1, <2>2 DEF Restarts, NumFields
  <2>4. Chained'
    <3>1. tuples'[Len(tuples) + 1].id = "in-phy-port"
      BY <1>5, <1>11
    <3>2. \A i \in 1..Len(tuples') : i \in 1..Len(tuples) \/ i = Len(tuples) + 1
      BY <1>4, <1>5
    <3> QED BY <1>6a, <3>1, <3>2, Zenon DEF Chained
  <2> QED BY <1>1, <1>7, <1>8, <1>10, <2>3, <2>4, NextInv
<1>12. CASE Opt.key # "in-phy-port"
  <2> DEFINE C == Cardinality(Read({"in-phy-port"}))
  <2>1. rqd_field = Place(Opt.key) - 1 /\ rqd_field > 0 /\ rqd_field \in Nat
    BY <1>1, <1>9, <1>12 DEF InOrder, NumFields
  <2>2. tuples # <<>> /\ Len(tuples) > 0 /\ Place(tuples[Len(tuples)].id) = Place(Opt.key) - 1
    BY <1>2, <1>4, <2>1 DEF LastPlace
  <2>3. C \in Nat /\ C' = C
    BY <1>1, <1>4, <1>12, ReadNext, Ranks DEF NextOption
  <2>4. Restarts'
    <3>1. Len(tuples) <= NumFields * (C - 1) + rqd_field
      BY <1>2, <2>2 DEF Restarts
    <3>2. rqd_field' = rqd_field + 1
      BY <1>1, <1>9, <2>1 DEF NumFields
    <3>3. Len(tuples') <= NumFields * (C - 1) + rqd_field'
      BY <1>4, <1>5, <2>1, <2>3, <3>1, <3>2 DEF NumFields
    <3> QED BY <2>3, <3>3 DEF Restarts
  <2>5. Chained'
    <3>1. tuples'[Len(tuples)] = tuples[Len(tuples)] /\ tuples'[Len(tuples) + 1].id = Opt.key
      BY <1>4, <1>5, <2>2
    <3>2. Place(tuples'[Len(tuples) + 1].id) = Place(tuples'[Len(tuples)].id) + 1
      BY <1>9, <2>2, <3>1
    <3>3. \A i \in 1..Len(tuples') : i \in 1..Len(tuples) \/ (i = Len(tuples) + 1 /\ i > 1 /\ i - 1 = Len(tuples))
      BY <1>4, <1>5, <2>2
    <3> QED BY <1>6a, <3>2, <3>3, Zenon DEF Chained
  <2> QED BY <1>1, <1>7, <1>8, <1>10, <2>4, <2>5, NextInv
<1> QED BY <1>11, <1>12

(* A command, a device or a table is the last of its kind.                 *)
LEMMA SettingInv ==
  ASSUME FilterTyping, FilterInv, SkipFilter \/ SetCommand \/ ReadDev \/ ReadTbl \/ BeginActions
  PROVE  FilterInv'
<1>1. /\ NextOption /\ at = "options" /\ at' \in {"options", "actions"}
      /\ Opt.key \in Commands \cup {"filter", "dev", "tbl", "action"}
      /\ UNCHANGED <<boot, rqd_field, tuples, actions>>
  BY DEF SkipFilter, SetCommand, ReadDev, ReadTbl, BeginActions, Sees, Advance, locals,
         NextOption, FilterTyping
<1>2. /\ LastPlace /\ Restarts /\ Chained /\ TuplesAsTyped /\ ActionsAsTyped /\ CommandAsTyped
      /\ LastSays("dev", dev_id, 0) /\ LastSays("tbl", tbl_id, 0)
  BY <1>1 DEF FilterInv, FlowAsTyped
<1>3. Opt.key \notin Fields /\ Opt.key # "out-port"
  BY <1>1, FieldNames DEF Commands
<1>4. TuplesAsTyped' /\ ActionsAsTyped' /\ LastPlace' /\ Restarts' /\ Chained'
  BY <1>1, <1>2, <1>3, TuplesKept, ActionsKept, OrderKept
<1>5. pos \in Nat /\ pos' = pos + 1 /\ line' = line /\ line'[pos + 1] = Opt
  BY <1>1, OptType DEF NextOption, Opt
<1>6. ASSUME NEW keys
      PROVE  /\ \A j \in Read(keys)' : j <= pos + 1
             /\ Opt.key \in keys => pos + 1 \in Read(keys)'
  BY <1>5 DEF Read
<1>7. CASE SkipFilter \/ BeginActions
  <2>1. UNCHANGED <<flow_cmd, dev_id, tbl_id>> /\ Opt.key \notin Commands \cup {"dev", "tbl"}
    BY <1>7 DEF SkipFilter, BeginActions, Sees, locals, Commands
  <2> QED BY <1>1, <1>2, <1>4, <2>1, CommandKept, DevKept, TblKept, NextInv
<1>8. CASE SetCommand
  <2>1. /\ UNCHANGED <<dev_id, tbl_id>> /\ flow_cmd' = Opt.key
        /\ Opt.key \in Commands /\ Opt.key \notin {"dev", "tbl"}
    BY <1>8 DEF SetCommand, Sees, Commands
  <2>2. CommandAsTyped'
    BY <1>5, <1>6, <2>1 DEF CommandAsTyped
  <2> QED BY <1>1, <1>2, <1>4, <2>1, <2>2, DevKept, TblKept, NextInv
<1>9. CASE ReadDev
  <2>1. /\ UNCHANGED <<flow_cmd, tbl_id>> /\ dev_id' = Short(Number(Opt))
        /\ Opt.key = "dev" /\ Opt.key \notin Commands \cup {"tbl"}
    BY <1>9 DEF ReadDev, Sees, Commands
  <2>2. LastSays("dev", dev_id, 0)'
    BY <1>5, <1>6, <2>1 DEF LastSays
  <2> QED BY <1>1, <1>2, <1>4, <2>1, <2>2, CommandKept, TblKept, NextInv
<1>10. CASE ReadTbl
  <2>1. /\ UNCHANGED <<flow_cmd, dev_id>> /\ tbl_id' = Short(Number(Opt))
        /\ Opt.key = "tbl" /\ Opt.key \notin Commands \cup {"dev"}
    BY <1>10 DEF ReadTbl, Sees, Commands
  <2>2. LastSays("tbl", tbl_id, 0)'
    BY <1>5, <1>6, <2>1 DEF LastSays
  <2> QED BY <1>1, <1>2, <1>4, <2>1, <2>2, CommandKept, DevKept, NextInv
<1> QED BY <1>7, <1>8, <1>9, <1>10

(* A port is appended; a drop is not.                                      *)
LEMMA ActionInv ==
  ASSUME FilterTyping, FilterInv, Drop \/ OutPort
  PROVE  FilterInv'
<1> DEFINE Ports == {"out-port"}
<1>1. /\ NextOption /\ at = "actions" /\ at' = "actions" /\ Opt.key \in {"drop", "out-port"}
      /\ UNCHANGED <<boot, rqd_field, tuples, flow_cmd, dev_id, tbl_id>>
  BY DEF Drop, OutPort, Sees, Advance, locals, NextOption, FilterTyping
<1>2. /\ LastPlace /\ Restarts /\ Chained /\ TuplesAsTyped /\ ActionsAsTyped /\ CommandAsTyped
      /\ LastSays("dev", dev_id, 0) /\ LastSays("tbl", tbl_id, 0)
  BY <1>1 DEF FilterInv, FlowAsTyped
<1>3. Opt.key \notin Fields \cup Commands \cup {"dev", "tbl"}
  BY <1>1, FieldNames DEF Commands
<1>4. /\ TuplesAsTyped' /\ LastPlace' /\ Restarts' /\ Chained'
      /\ CommandAsTyped' /\ LastSays("dev", dev_id, 0)' /\ LastSays("tbl", tbl_id, 0)'
  BY <1>1, <1>2, <1>3, TuplesKept, OrderKept, CommandKept, DevKept, TblKept
<1>5. CASE Drop
  <2>1. actions' = actions /\ Opt.key # "out-port"
    BY <1>5 DEF Drop, Sees, locals
  <2> QED BY <1>1, <1>2, <1>4, <2>1, ActionsKept, NextInv
<1>6. CASE OutPort
  <2>1. /\ actions' = Append(actions, Bits(Number(Opt))) /\ Opt.key \in Ports
        /\ actions \in Seq(Nat) /\ Len(actions) \in Nat /\ pos \in Nat
    BY <1>1, <1>6, OptType DEF OutPort, Sees, FilterTyping, FilterTypeOK
  <2>2. /\ Len(actions') = Len(actions) + 1
        /\ \A i \in 1..Len(actions) : actions'[i] = actions[i]
        /\ actions'[Len(actions) + 1] = Bits(Number(Opt))
    BY <2>1
  <2>3. /\ Read(Ports)' = Read(Ports) \cup {pos + 1}
        /\ Cardinality(Read(Ports)') = Cardinality(Read(Ports)) + 1
        /\ \A i \in Read(Ports) : Rank(i, Ports)' = Rank(i, Ports)
        /\ \A i : i = pos + 1 => Rank(i, Ports)' = Cardinality(Read(Ports)) + 1
    BY <1>1, <2>1, ReadNext DEF NextOption
  <2>4. Len(actions) = Cardinality(Read(Ports))
    BY <1>2 DEF ActionsAsTyped
  <2>5. \A i \in Read(Ports) : Rank(i, Ports) \in 1..Len(actions)
    BY <2>1, <2>4, Ranks
  <2>6. ASSUME NEW i \in Read(Ports)'
        PROVE  (actions[Rank(i, Ports)] = Bits(Number(line[i])))'
    <3>1. CASE i \in Read(Ports)
      <4>1. actions'[Rank(i, Ports)'] = actions[Rank(i, Ports)]
        BY <2>2, <2>3, <2>5, <3>1
      <4>2. line'[i] = line[i]
        BY <1>1 DEF NextOption
      <4> QED BY <1>2, <3>1, <4>1, <4>2 DEF ActionsAsTyped
    <3>2. CASE i = pos + 1
      <4>1. actions'[Rank(i, Ports)'] = Bits(Number(Opt))
        BY <2>2, <2>3, <2>4, <3>2
      <4>2. line'[i] = Opt
        BY <1>1, <3>2 DEF NextOption, Opt
      <4> QED BY <4>1, <4>2
    <3> QED BY <2>3, <3>1, <3>2
  <2>7. ActionsAsTyped'
    BY <2>2, <2>3, <2>4, <2>6 DEF ActionsAsTyped
  <2> QED BY <1>1, <1>4, <2>7, NextInv
<1> QED BY <1>5, <1>6

(* A line that brings the process down does so for one of the causes.      *)
LEMMA CrashInv ==
  ASSUME FilterTyping, FilterInv, boot' = boot, Crash, pos < Len(line), at \in {"options", "actions"},
         \/ Opt.key \in Fields /\ Len(tuples) = ArraySize
         \/ Opt.key \in {"out-port", "drop"} /\ Len(actions) = ArraySize
         \/ Opt.key = "dl-src" /\ Opt.val = "blank"
  PROVE  FilterInv'
<1>1. /\ NextOption /\ at' = "crashed" /\ pos \in Nat /\ line'[pos'] = Opt
      /\ UNCHANGED locals
  BY OptType DEF Crash, NextOption, FilterTyping, Opt
<1>2. /\ LastPlace /\ Restarts /\ Chained /\ TuplesAsTyped /\ ActionsAsTyped
  BY DEF FilterInv, FlowAsTyped
<1>3. LastPlace' /\ Restarts' /\ Chained'
  BY <1>1, <1>2, OrderKept DEF locals
<1>4. CASE Opt.key \in Fields /\ Len(tuples) = ArraySize
  <2>1. Cardinality(Read(Fields)') = Cardinality(Read(Fields)) + 1
    BY <1>1, <1>4, ReadNext DEF NextOption
  <2>2. Cardinality(Read(Fields)) = ArraySize
    BY <1>2, <1>4 DEF TuplesAsTyped
  <2>3. Cardinality(Read(Fields)') > ArraySize
    BY <2>1, <2>2, ArrayAssumption
  <2> QED BY <1>1, <1>3, <2>3 DEF FilterInv, FlowAsTyped, CrashCauses
<1>5. CASE Opt.key \in {"out-port", "drop"} /\ Len(actions) = ArraySize
  <2>1. Cardinality(Read({"out-port"})) = ArraySize
    BY <1>2, <1>5 DEF ActionsAsTyped
  <2>2. CASE Opt.key = "drop"
    <3>1. Cardinality(Read({"out-port"})') = ArraySize
      BY <1>1, <2>1, <2>2, ReadNext DEF NextOption
    <3> QED BY <1>1, <1>3, <2>2, <3>1 DEF FilterInv, FlowAsTyped, CrashCauses
  <2>3. CASE Opt.key = "out-port"
    <3>1. Cardinality(Read({"out-port"})') = ArraySize + 1
      BY <1>1, <2>1, <2>3, ReadNext DEF NextOption
    <3>2. Cardinality(Read({"out-port"})') > ArraySize
      BY <3>1, ArrayAssumption
    <3> QED BY <1>1, <1>3, <3>2 DEF FilterInv, FlowAsTyped, CrashCauses
  <2> QED BY <1>5, <2>2, <2>3
<1>6. CASE Opt.key = "dl-src" /\ Opt.val = "blank"
  BY <1>1, <1>3, <1>6 DEF FilterInv, FlowAsTyped, CrashCauses
<1> QED BY <1>4, <1>5, <1>6

(* Only the device behind the table, or one without dump_flow, crashes.    *)
LEMMA CallInv ==
  ASSUME FilterTyping, FilterInv, CallDevice \/ (DeviceReturns /\ ~boot.has_dump)
  PROVE  FilterInv'
<1>1. /\ UNCHANGED <<boot, line, newline, pos, locals>> /\ pos = Len(line) /\ at # "crashed"
      /\ at' \in {"called", "crashed"}
  BY DEF CallDevice, DeviceReturns, AtEnd, FilterInv
<1>2. \A keys : Read(keys)' = Read(keys) /\ \A i : Rank(i, keys)' = Rank(i, keys)
  BY <1>1 DEF Read, Rank
<1>3. \A i : HasNewline(i)' = HasNewline(i)
  BY <1>1 DEF HasNewline
<1>4. TuplesAsTyped' /\ ActionsAsTyped'
  BY <1>1, <1>2, <1>3 DEF FilterInv, FlowAsTyped, TuplesAsTyped, ActionsAsTyped, locals
<1>5. CommandAsTyped' /\ LastSays("dev", dev_id, 0)' /\ LastSays("tbl", tbl_id, 0)'
  BY <1>1, <1>2 DEF FilterInv, FlowAsTyped, CommandAsTyped, LastSays, locals
<1>6. LastPlace' /\ Chained' /\ Restarts'
  BY <1>1, <1>2 DEF FilterInv, LastPlace, Chained, Restarts, locals
<1>7. CrashCauses'
  <2> SUFFICES ASSUME at' = "crashed"
               PROVE  dev_id = boot.flw_dev_cnt \/ ~boot.has_dump
    BY <1>1 DEF CrashCauses, locals
  <2>1. boot.flw_dev_cnt \in Nat /\ dev_id \in 0..boot.flw_dev_cnt
    BY BootsAssumption DEF FilterTyping, FilterTypeOK
  <2> QED BY <2>1 DEF CallDevice, DeviceReturns
<1> QED BY <1>1, <1>4, <1>5, <1>6, <1>7 DEF FilterInv, FlowAsTyped

LEMMA FilterStepInv ==
  ASSUME FilterTyping, FilterInv, FilterStep
  PROVE  FilterInv'
<1>1. CASE SkipFilter \/ SetCommand \/ ReadDev \/ ReadTbl \/ BeginActions
  BY <1>1, SettingInv
<1>2. CASE ReadField
  BY <1>2, ReadFieldInv
<1>3. CASE OverrunTuples
  BY <1>3, CrashInv DEF OverrunTuples, SeesField, Sees
<1>4. CASE BadSource
  <2>1. Opt.val = "blank"
    BY <1>4, OptType DEF BadSource, SeesField, Sees, IsMac, FilterTyping, Options
  <2> QED BY <1>4, <2>1, CrashInv DEF BadSource, SeesField, Sees
<1>5. CASE OverrunActions
  BY <1>5, CrashInv DEF OverrunActions, Sees
<1>6. CASE Reject \/ RejectAction \/ NoCommand
  BY <1>6, LeaveInv DEF Reject, RejectAction, NoCommand
<1>7. CASE Drop \/ OutPort
  BY <1>7, ActionInv
<1>8. CASE CallDevice
  BY <1>8, CallInv
<1>9. CASE DeviceReturns
  BY <1>9, CallInv, LeaveInv DEF DeviceReturns
<1> QED BY <1>1, <1>2, <1>3, <1>4, <1>5, <1>6, <1>7, <1>8, <1>9 DEF FilterStep

-----------------------------------------------------------------------------
(* The filter's part of the invariant does not look at the shell.          *)
LEMMA FilterInvKept ==
  ASSUME FilterInv, UNCHANGED filter_vars
  PROVE  FilterInv'
<1>1. \A keys : Read(keys)' = Read(keys) /\ \A i : Rank(i, keys)' = Rank(i, keys)
  BY DEF Read, Rank, filter_vars
<1>2. \A i : HasNewline(i)' = HasNewline(i)
  BY DEF HasNewline, filter_vars
<1>3. at # "crashed" => TuplesAsTyped' /\ ActionsAsTyped'
  BY <1>1, <1>2 DEF FilterInv, FlowAsTyped, TuplesAsTyped, ActionsAsTyped, filter_vars
<1>4. at # "crashed" =>
        CommandAsTyped' /\ LastSays("dev", dev_id, 0)' /\ LastSays("tbl", tbl_id, 0)'
  BY <1>1 DEF FilterInv, FlowAsTyped, CommandAsTyped, LastSays, filter_vars
<1>5. LastPlace' /\ Chained' /\ Restarts'
  BY <1>1 DEF FilterInv, LastPlace, Chained, Restarts, filter_vars
<1>6. CrashCauses'
  BY <1>1 DEF FilterInv, CrashCauses, filter_vars
<1> QED BY <1>3, <1>4, <1>5, <1>6 DEF FilterInv, FlowAsTyped, filter_vars

LEMMA NextStepInv ==
  ASSUME Typing, FilterInv, [Next]_vars
  PROVE  FilterInv'
<1>1. FilterTyping
  BY DEF Typing, TypeOK, FilterTyping
<1>2. CASE Filter
  BY <1>1, <1>2, FilterStepInv DEF Filter
<1>3. CASE FlowFilter
  BY <1>3, StartInv DEF FlowFilter
<1>4. CASE NextLine
  BY <1>4, StartInv DEF NextLine
<1>5. CASE \/ TypeLine \/ TypePart \/ EndInput \/ RunAgain \/ NoEffect \/ Quit
           \/ SecUndefined \/ SecNothing \/ SecBridge \/ FlowLoad \/ FlowNothing
           \/ FilterReturns \/ EndOfFile \/ UNCHANGED vars
  <2>1. UNCHANGED filter_vars
    BY <1>5 DEF TypeLine, TypePart, EndInput, RunAgain, NoEffect, Quit, SecUndefined, SecNothing,
                SecBridge, FlowLoad, FlowNothing, FilterReturns, EndOfFile, vars
  <2> QED BY <2>1, FilterInvKept
<1> QED BY <1>2, <1>3, <1>4, <1>5 DEF Next, Proceed

-----------------------------------------------------------------------------
(* As long as there is input the buffer holds what was typed.              *)
Buffer == ~eof => buf = typed

LEMMA NextStepShell ==
  ASSUME Typing, Buffer, ShellCauses, [Next]_vars
  PROVE  Buffer' /\ ShellCauses'
<1> USE DEF Buffer
<1>1. CASE SecUndefined
  <2>1. /\ UNCHANGED <<buf, typed, eof, boot>>
        /\ buf.word \in {"sec", "bare"}
    BY <1>1 DEF SecUndefined, filter_vars
  <2>2. ASSUME ~eof, typed.num >= 0, typed.num < Len(boot.cli_protos), typed.word # "bare"
        PROVE  typed.opts = <<>>
    <3>1. boot \in Boots /\ typed.num \in Int
      BY DEF Typing, TypeOK, FilterTypeOK, Lines
    <3>2. Len(boot.cli_protos) \in Nat /\ Len(boot.cli_protos) <= MaxObjects
      BY <3>1, ProtosAssumption
    <3>3. InTable(typed.num)
      BY <2>2, <3>1, <3>2, ShellSizes DEF InTable
    <3> QED BY <1>1, <2>2, <3>3 DEF SecUndefined
  <2> QED BY <2>1, <2>2 DEF ShellCauses
<1>2. CASE SecBridge
  <2>1. /\ UNCHANGED <<buf, typed, eof, boot>> /\ buf.word = "sec"
        /\ Proto(buf.num) = "bridge"
    BY <1>2 DEF SecBridge, filter_vars, Reaches
  <2>2. ~eof /\ typed.num < Len(boot.cli_protos) => boot.cli_protos[typed.num + 1] = "bridge"
    BY <2>1 DEF Proto
  <2> QED BY <2>1, <2>2 DEF ShellCauses
<1>3. CASE RunAgain
  BY <1>3 DEF RunAgain, ShellCauses
<1>4. CASE Filter
  BY <1>4 DEF Filter, FilterStep, shell_vars, ShellCauses, SkipFilter, SetCommand, ReadDev, ReadTbl,
       ReadField, OverrunTuples, BadSource, BeginActions, Reject, Drop, OutPort, OverrunActions,
       RejectAction, NoCommand, CallDevice, DeviceReturns
<1>5. CASE TypeLine \/ TypePart \/ EndInput
  BY <1>5 DEF TypeLine, TypePart, EndInput, ShellCauses
<1>6. CASE NoEffect \/ Quit \/ SecNothing
  BY <1>6 DEF NoEffect, Quit, SecNothing, ShellCauses
<1>7. CASE FlowFilter \/ FlowLoad \/ FlowNothing
  BY <1>7 DEF FlowFilter, FlowLoad, FlowNothing, ShellCauses
<1>8. CASE FilterReturns \/ NextLine \/ EndOfFile
  BY <1>8 DEF FilterReturns, NextLine, EndOfFile, ShellCauses
<1>9. CASE UNCHANGED vars
  BY <1>9 DEF vars, filter_vars, shell_vars, ShellCauses
<1> QED
  BY <1>1, <1>2, <1>3, <1>4, <1>5, <1>6, <1>7, <1>8, <1>9 DEF Next, Proceed

-----------------------------------------------------------------------------
(* The inductive invariant of the shell and its filters, for lines of any  *)
(* length, arrays of any size and any table of protocols.                  *)
THEOREM InvariantHolds == Spec => []IInv
<1>1. Init => Buffer /\ ShellCauses
  BY DEF Init, Buffer, ShellCauses
<1>2. Typing /\ FilterInv /\ Buffer /\ ShellCauses => IInv
  BY DEF IInv, Typing, Buffer
<1> QED BY <1>1, <1>2, InitTypes, NextStepTypes, InitInv, NextStepInv, NextStepShell, PTL DEF Spec

(* The device gets the fields, ports, table and command that were typed.   *)
THEOREM FiltersAsTyped == Spec => []FlowAsTyped
BY InvariantHolds, PTL DEF IInv, FilterInv

(* No flow leaves out a field, and without three in-phy-ports none has     *)
(* more than twice eleven of them.                                         *)
THEOREM FieldOrderKept == Spec => []FieldsInOrder
<1>1. IInv => FieldsInOrder
  <2> SUFFICES ASSUME IInv PROVE FieldsInOrder
    OBVIOUS
  <2> DEFINE C == Cardinality(Read({"in-phy-port"}))
  <2>1. /\ tuples \in Seq([id : Fields, value : Seq(Int)]) /\ Len(tuples) \in Nat
        /\ rqd_field \in 0..NumFields /\ line \in Seq(Options) /\ pos \in Nat
    BY DEF IInv, TypeOK, FilterTypeOK
  <2>2. C \in Nat
    BY <2>1, Ranks
  <2>3. Len(tuples) <= NumFields * C
    BY <2>1, <2>2 DEF IInv, FilterInv, Restarts, NumFields
  <2> QED BY <2>3 DEF IInv, FilterInv, FieldsInOrder
<1> QED BY <1>1, InvariantHolds, PTL

(* A filter brings the process down only for the causes listed.            *)
THEOREM FilterCrashes == Spec => []CrashCauses
BY InvariantHolds, PTL DEF IInv, FilterInv

(* While there is input the shell comes to grief only over a bad `sec`.    *)
THEOREM ShellUndefined == Spec => []ShellCauses
BY InvariantHolds, PTL DEF IInv

-----------------------------------------------------------------------------
(* A letter less is less of an option and less of a line.                  *)
LEMMA OptionLeftType ==
  ASSUME NEW o \in Options
  PROVE  OptionLeft(o) \in Nat
<1>1. o.num \in Int
  BY DEF Options
<1>2. 3 + (IF o.num > 0 THEN o.num ELSE 0) \in Nat
  BY <1>1
<1> QED BY <1>2 DEF OptionLeft

LEMMA CutOptionLess ==
  ASSUME NEW o \in Options, ~(o.key = "other" /\ o.val = "none")
  PROVE  OptionLeft(CutOption(o)) < OptionLeft(o)
<1>1. o.num \in Int /\ (Base(o.key) = 10 \/ Base(o.key) = 16)
  BY DEF Options, Base
<1>2. o.val \in {"none", "blank", "value"} /\ o.key \in Keys
  BY DEF Options
<1>3. CASE o.val = "value" /\ o.num >= Base(o.key)
  <2>1. o.num \div Base(o.key) \in Int /\ o.num \div Base(o.key) > 0 /\ o.num \div Base(o.key) < o.num
    <3>1. \A n \in Int : n >= 10 => n \div 10 \in Int /\ n \div 10 > 0 /\ n \div 10 < n
      OBVIOUS
    <3>2. \A n \in Int : n >= 16 => n \div 16 \in Int /\ n \div 16 > 0 /\ n \div 16 < n
      OBVIOUS
    <3> QED BY <1>1, <1>3, <3>1, <3>2
  <2>2. CutOption(o).val = "value" /\ CutOption(o).num = o.num \div Base(o.key)
    BY <1>3 DEF CutOption, Options
  <2>3. o.num > 0
    BY <1>1, <1>3
  <2>4. OptionLeft(o) = 3 + o.num
    BY <1>3, <2>3 DEF OptionLeft
  <2>5. OptionLeft(CutOption(o)) = 3 + o.num \div Base(o.key)
    BY <2>1, <2>2 DEF OptionLeft
  <2> HIDE DEF CutOption
  <2> QED BY <1>1, <2>1, <2>4, <2>5
<1>4. CASE o.val = "value" /\ ~(o.num >= Base(o.key))
  <2>1. CutOption(o).val = "blank"
    BY <1>4 DEF CutOption
  <2>2. OptionLeft(CutOption(o)) = 2
    BY <2>1 DEF OptionLeft
  <2>3. OptionLeft(o) = 3 + (IF o.num > 0 THEN o.num ELSE 0)
    BY <1>4 DEF OptionLeft
  <2> QED BY <1>1, <2>2, <2>3
<1>5. CASE o.val = "blank"
  <2>1. CutOption(o).val = "none"
    BY <1>5 DEF CutOption, Options
  <2>2. OptionLeft(CutOption(o)) \in {0, 1} /\ OptionLeft(o) = 2
    BY <1>5, <2>1 DEF OptionLeft
  <2> QED BY <2>2
<1>6. CASE o.val = "none"
  <2>1. CutOption(o).val = "none" /\ CutOption(o).key = "other"
    BY <1>6 DEF CutOption, Options
  <2>2. OptionLeft(CutOption(o)) = 0 /\ OptionLeft(o) = 1
    BY <1>6, <2>1 DEF OptionLeft
  <2> QED BY <2>2
<1> QED BY <1>2, <1>3, <1>4, <1>5, <1>6

LEMMA LineLeftTypes ==
  ASSUME NEW l \in Lines
  PROVE  Len(l.opts) \in Nat /\ LastLeft(l.opts) \in Nat /\ WordLeft(l) \in Nat
<1>1. l.opts \in Seq(Options) /\ l.num \in Int
  BY DEF Lines
<1>2. l.opts # <<>> => l.opts[Len(l.opts)] \in Options
  BY <1>1
<1>3. LastLeft(l.opts) \in Nat
  BY <1>2, OptionLeftType DEF LastLeft
<1>4. 3 + (IF l.num >= 0 THEN l.num ELSE 1) \in Nat
  BY <1>1
<1> QED BY <1>1, <1>3, <1>4 DEF WordLeft

LEMMA CutOptionsLess ==
  ASSUME NEW opts \in Seq(Options), opts # <<>>
  PROVE  \/ Len(CutOptions(opts)) < Len(opts)
         \/ Len(CutOptions(opts)) = Len(opts) /\ LastLeft(CutOptions(opts)) < LastLeft(opts)
<1> DEFINE last == opts[Len(opts)]
           front == SubSeq(opts, 1, Len(opts) - 1)
<1>1. Len(opts) \in Nat \ {0} /\ last \in Options
  OBVIOUS
<1>2. front \in Seq(Options) /\ Len(front) = Len(opts) - 1
  <2>1. \A i \in 1..(Len(opts) - 1) : opts[i] \in Options
    BY <1>1
  <2>2. /\ front \in Seq(Options)
        /\ 1 <= Len(opts) - 1 => Len(front) = (Len(opts) - 1) - 1 + 1
        /\ ~(1 <= Len(opts) - 1) => Len(front) = 0
    BY <1>1, <2>1, SubSeqProperties
  <2>3. \A n \in Nat \ {0} : (n - 1) - 1 + 1 = n - 1 /\ (~(1 <= n - 1) => n - 1 = 0)
    OBVIOUS
  <2> QED BY <1>1, <2>2, <2>3
<1>3. CASE last.key = "other" /\ last.val = "none"
  BY <1>1, <1>2, <1>3 DEF CutOptions
<1>4. CASE ~(last.key = "other" /\ last.val = "none")
  <2>1. CutOptions(opts) = Append(front, CutOption(last)) /\ CutOption(last) \in Options
    BY <1>1, <1>4, CutOptionType DEF CutOptions
  <2> HIDE DEF front, last
  <2>2. /\ Len(CutOptions(opts)) = Len(opts)
        /\ CutOptions(opts)[Len(opts)] = CutOption(last)
        /\ CutOptions(opts) # <<>>
    BY <1>1, <1>2, <2>1
  <2>3. LastLeft(CutOptions(opts)) = OptionLeft(CutOption(last)) /\ LastLeft(opts) = OptionLeft(last)
    BY <2>2 DEF LastLeft, last
  <2> QED BY <1>1, <1>4, <2>2, <2>3, CutOptionLess
<1> QED BY <1>3, <1>4

LEMMA CutLess ==
  ASSUME NEW l \in Lines, l.word \notin {"empty", "unset"}
  PROVE  \/ Len(Cut(l).opts) < Len(l.opts)
         \/ Len(Cut(l).opts) = Len(l.opts) /\ LastLeft(Cut(l).opts) < LastLeft(l.opts)
         \/ /\ Len(Cut(l).opts) = Len(l.opts) /\ LastLeft(Cut(l).opts) = LastLeft(l.opts)
            /\ WordLeft(Cut(l)) < WordLeft(l)
<1>1. l.opts \in Seq(Options) /\ l.num \in Int /\ l.word \in Words
  BY DEF Lines
<1>2. CASE l.opts # <<>>
  <2>1. Cut(l).opts = CutOptions(l.opts)
    BY <1>2 DEF Cut, Lines
  <2> QED BY <1>1, <1>2, <2>1, CutOptionsLess
<1>3. CASE l.opts = <<>> /\ l.word = "sec" /\ l.num # 0
  <2> DEFINE n == IF l.num >= 10 THEN l.num \div 10 ELSE 0
  <2>1. Cut(l).opts = l.opts /\ Cut(l).word = "sec" /\ Cut(l).num = n
    BY <1>3 DEF Cut, Lines
  <2>2. /\ n \in Nat
        /\ l.num > 0 => n < l.num
    <3>1. \A k \in Int : k >= 10 => k \div 10 \in Nat /\ k \div 10 < k
      OBVIOUS
    <3> QED BY <1>1, <3>1
  <2>3. WordLeft(Cut(l)) = 3 + n
    BY <2>1, <2>2 DEF WordLeft
  <2>4. WordLeft(l) = 3 + (IF l.num >= 0 THEN l.num ELSE 1)
    BY <1>3 DEF WordLeft
  <2>5. l.num < 0 => n = 0
    BY <1>1
  <2> HIDE DEF n
  <2>6. WordLeft(Cut(l)) < WordLeft(l)
    BY <1>1, <1>3, <2>2, <2>3, <2>4, <2>5
  <2> QED BY <2>1, <2>6
<1>4. CASE l.opts = <<>> /\ l.word \in {"help", "quit", "bare"} /\ l.num > 0
  <2>1. Cut(l).opts = l.opts /\ Cut(l).word = l.word /\ Cut(l).num = l.num - 1
    BY <1>4 DEF Cut, Lines
  <2>2. WordLeft(Cut(l)) = 2 + (l.num - 1)
    BY <1>1, <1>4, <2>1 DEF WordLeft
  <2>3. WordLeft(l) = 2 + l.num
    BY <1>1, <1>4 DEF WordLeft
  <2>4. WordLeft(Cut(l)) < WordLeft(l)
    BY <1>1, <2>2, <2>3
  <2> QED BY <2>1, <2>4
<1>5. CASE l.opts = <<>> /\ (l.word = "sec" => l.num = 0)
           /\ ~(l.word \in {"help", "quit", "bare"} /\ l.num > 0)
  <2> DEFINE w == CASE l.word = "sec"  -> "bare"
                    [] l.word \in {"help", "quit", "bare"} -> "other"
                    [] OTHER -> "empty"
  <2>1. Cut(l) = [l EXCEPT !.word = w]
    BY <1>5 DEF Cut
  <2>2. Cut(l).opts = l.opts /\ Cut(l).word = w /\ Cut(l).num = l.num
    BY <2>1 DEF Lines
  <2>3. CASE l.word = "sec"
    <3>1. WordLeft(l) = 3
      BY <1>5, <2>3 DEF WordLeft
    <3>2. WordLeft(Cut(l)) = 2
      BY <1>5, <2>2, <2>3 DEF WordLeft
    <3> QED BY <2>2, <3>1, <3>2
  <2>4. CASE l.word \in {"help", "quit", "bare"}
    <3>1. WordLeft(Cut(l)) = 1
      BY <2>2, <2>4 DEF WordLeft
    <3>2. WordLeft(l) = 2
      BY <1>1, <1>5, <2>4 DEF WordLeft
    <3> QED BY <2>2, <3>1, <3>2
  <2>5. CASE l.word = "other"
    <3>1. WordLeft(Cut(l)) = 0 /\ WordLeft(l) = 1
      BY <2>2, <2>5 DEF WordLeft
    <3> QED BY <2>2, <3>1
  <2> QED BY <1>1, <2>3, <2>4, <2>5 DEF Words
<1> QED BY <1>2, <1>3, <1>4, <1>5

-----------------------------------------------------------------------------
(* What is left behind the end of input.                                   *)
LEMMA EofAmounts ==
  Typing =>
    /\ Len(buf.opts) \in Nat /\ LastLeft(buf.opts) \in Nat /\ WordLeft(buf) \in Nat
    /\ RunLeft \in Nat /\ unread \in Nat /\ FilterLeft \in Nat
<1> SUFFICES ASSUME Typing
             PROVE  /\ Len(buf.opts) \in Nat /\ LastLeft(buf.opts) \in Nat /\ WordLeft(buf) \in Nat
                    /\ RunLeft \in Nat /\ unread \in Nat /\ FilterLeft \in Nat
  OBVIOUS
<1>1. buf \in Lines /\ unread \in 0..MaxFileLines /\ FilterTypeOK
  BY Zenon DEF Typing, TypeOK
<1>2. Len(line) - pos + 2 \in Nat
  <2>1. pos \in 0..Len(line) /\ Len(line) \in Nat
    BY <1>1 DEF FilterTypeOK
  <2> QED BY <2>1
<1>3. FilterLeft \in Nat
  BY <1>2 DEF FilterLeft
<1>4. unread \in Nat /\ RunLeft \in Nat
  BY <1>1, ShellSizes DEF RunLeft
<1> QED BY <1>1, <1>3, <1>4, LineLeftTypes

LEMMA EofLower ==
  ASSUME Typing, Typing',
         \/ Len(buf'.opts) < Len(buf.opts)
         \/ Len(buf'.opts) = Len(buf.opts) /\ LastLeft(buf'.opts) < LastLeft(buf.opts)
         \/ /\ Len(buf'.opts) = Len(buf.opts) /\ LastLeft(buf'.opts) = LastLeft(buf.opts)
            /\ WordLeft(buf') < WordLeft(buf)
         \/ /\ buf' = buf
            /\ \/ RunLeft' < RunLeft
               \/ RunLeft' = RunLeft /\ unread' < unread
               \/ RunLeft' = RunLeft /\ unread' = unread /\ FilterLeft' < FilterLeft
  PROVE  Lower(6, EofLeft', EofLeft)
<1>1. /\ Len(buf.opts) \in Nat /\ LastLeft(buf.opts) \in Nat /\ WordLeft(buf) \in Nat
      /\ RunLeft \in Nat /\ unread \in Nat /\ FilterLeft \in Nat
  BY EofAmounts
<1>2. (Typing =>
         /\ Len(buf.opts) \in Nat /\ LastLeft(buf.opts) \in Nat /\ WordLeft(buf) \in Nat
         /\ RunLeft \in Nat /\ unread \in Nat /\ FilterLeft \in Nat)'
  BY EofAmounts, PTL
<1>3. /\ Len(buf'.opts) \in Nat /\ LastLeft(buf'.opts) \in Nat /\ WordLeft(buf') \in Nat
      /\ RunLeft' \in Nat /\ unread' \in Nat /\ FilterLeft' \in Nat
  BY <1>2
<1>4. EofLeft = <<Len(buf.opts), LastLeft(buf.opts), WordLeft(buf), RunLeft, unread, FilterLeft>>
  BY DEF EofLeft
<1>5. EofLeft' = <<Len(buf'.opts), LastLeft(buf'.opts), WordLeft(buf'), RunLeft', unread', FilterLeft'>>
  BY DEF EofLeft
<1>6. Lower(6, <<Len(buf'.opts), LastLeft(buf'.opts), WordLeft(buf'), RunLeft', unread', FilterLeft'>>,
               <<Len(buf.opts), LastLeft(buf.opts), WordLeft(buf), RunLeft, unread, FilterLeft>>)
  <2> DEFINE a1 == Len(buf.opts)   b1 == Len(buf'.opts)
             a2 == LastLeft(buf.opts)   b2 == LastLeft(buf'.opts)
             a3 == WordLeft(buf)   b3 == WordLeft(buf')
  <2>1. /\ a1 \in Nat /\ a2 \in Nat /\ a3 \in Nat /\ b1 \in Nat /\ b2 \in Nat /\ b3 \in Nat
        /\ RunLeft \in Nat /\ unread \in Nat /\ FilterLeft \in Nat
        /\ RunLeft' \in Nat /\ unread' \in Nat /\ FilterLeft' \in Nat
    BY <1>1, <1>3
  <2>2. \/ b1 < a1
        \/ b1 = a1 /\ b2 < a2
        \/ b1 = a1 /\ b2 = a2 /\ b3 < a3
        \/ b1 = a1 /\ b2 = a2 /\ b3 = a3 /\ RunLeft' < RunLeft
        \/ b1 = a1 /\ b2 = a2 /\ b3 = a3 /\ RunLeft' = RunLeft /\ unread' < unread
        \/ /\ b1 = a1 /\ b2 = a2 /\ b3 = a3 /\ RunLeft' = RunLeft /\ unread' = unread
           /\ FilterLeft' < FilterLeft
    OBVIOUS
  <2> HIDE DEF a1, a2, a3, b1, b2, b3
  <2>3. Lower(6, <<b1, b2, b3, RunLeft', unread', FilterLeft'>>, <<a1, a2, a3, RunLeft, unread, FilterLeft>>)
    BY ONLY <2>1, <2>2 DEF Lower, Amounts
  <2> QED BY <2>3 DEF a1, a2, a3, b1, b2, b3
<1> QED BY <1>4, <1>5, <1>6

(* A step of the filter reads one more option, or is its last.             *)
LEMMA FilterStepLess ==
  ASSUME FilterTyping, FilterStep
  PROVE  FilterLeft' < FilterLeft
<1>1. pos \in 0..Len(line) /\ Len(line) \in Nat
  BY DEF FilterTyping, FilterTypeOK
<1>2. CASE SkipFilter \/ SetCommand \/ ReadDev \/ ReadTbl \/ ReadField \/ BeginActions \/ Drop \/ OutPort
  <2>1. /\ at \in {"options", "actions"} /\ at' \in {"options", "actions"}
        /\ pos < Len(line) /\ pos' = pos + 1 /\ line' = line
    BY <1>2 DEF SkipFilter, SetCommand, ReadDev, ReadTbl, ReadField, SeesField, BeginActions, Drop, OutPort,
                Sees, Advance
  <2>2. FilterLeft = Len(line) - pos + 2 /\ FilterLeft' = Len(line) - (pos + 1) + 2
    BY <2>1 DEF FilterLeft
  <2> QED BY <1>1, <2>2
<1>3. CASE \/ OverrunTuples \/ BadSource \/ Reject \/ OverrunActions \/ RejectAction
           \/ NoCommand \/ CallDevice
  <2>1. at \in {"options", "actions"} /\ at' \in {"off", "crashed", "called"}
    BY <1>3 DEF OverrunTuples, BadSource, Reject, OverrunActions, RejectAction, NoCommand, CallDevice,
                SeesField, Sees, Crash, Leave, AtEnd
  <2>2. FilterLeft = Len(line) - pos + 2 /\ FilterLeft' \in {0, 1}
    BY <2>1 DEF FilterLeft
  <2> QED BY <1>1, <2>2
<1>4. CASE DeviceReturns
  <2>1. at = "called" /\ at' \in {"off", "crashed"}
    BY <1>4 DEF DeviceReturns, Leave
  <2>2. FilterLeft = 1 /\ FilterLeft' = 0
    BY <2>1 DEF FilterLeft
  <2> QED BY <2>2
<1> QED BY <1>2, <1>3, <1>4 DEF FilterStep

(* Behind the end of input the shell only goes forward, whatever was typed *)
(* and whatever files are loaded (lib_cli_comm.c:41-47): with LowerEnds,   *)
(* it does not run what is left of its last line for ever.                 *)
THEOREM EofGoesForward == Spec => EofProgress
<1>1. ASSUME Typing, [Next]_vars, eof
      PROVE  Lower(6, EofLeft', EofLeft) \/ UNCHANGED vars
  <2>0. Typing'
    BY <1>1, NextStepTypes
  <2>1. CASE RunAgain
    <3>1. CASE buf.word \in {"empty", "unset"}
      <4>1. buf' = buf /\ shell = "prompt" /\ shell' = "undefined"
        BY <2>1, <3>1 DEF RunAgain
      <4>2. RunLeft' < RunLeft
        BY <4>1 DEF RunLeft
      <4> QED BY <1>1, <2>0, <4>1, <4>2, EofLower
    <3>2. CASE buf.word \notin {"empty", "unset"}
      <4>1. buf' = Cut(buf) /\ buf \in Lines
        BY <1>1, <2>1, <3>2, Zenon DEF RunAgain, Typing, TypeOK
      <4> QED BY <1>1, <2>0, <3>2, <4>1, CutLess, EofLower
    <3> QED BY <3>1, <3>2
  <2>2. CASE \/ NoEffect \/ Quit \/ SecUndefined \/ SecNothing \/ SecBridge
             \/ FlowFilter \/ FlowLoad \/ FlowNothing
    <3>1. buf' = buf /\ shell = "run" /\ shell' \in {"prompt", "ended", "undefined", "filter", "load"}
      BY <2>2 DEF NoEffect, Quit, SecUndefined, SecNothing, SecBridge, FlowFilter, FlowLoad, FlowNothing, SecFlow
    <3>2. RunLeft' < RunLeft
      BY <3>1 DEF RunLeft
    <3> QED BY <1>1, <2>0, <3>1, <3>2, EofLower
  <2>3. CASE FilterReturns \/ EndOfFile
    <3>1. buf' = buf /\ shell \in {"filter", "load"} /\ shell' = "prompt"
      BY <2>3 DEF FilterReturns, EndOfFile
    <3>2. RunLeft' < RunLeft
      BY <3>1 DEF RunLeft
    <3> QED BY <1>1, <2>0, <3>1, <3>2, EofLower
  <2>4. CASE NextLine
    <3>1. buf' = buf /\ shell' = shell /\ unread > 0 /\ unread' = unread - 1 /\ unread \in Nat
      BY <1>1, <2>4, EofAmounts DEF NextLine
    <3>2. RunLeft' = RunLeft /\ unread' < unread
      BY <3>1 DEF RunLeft
    <3> QED BY <1>1, <2>0, <3>1, <3>2, EofLower
  <2>5. CASE Filter
    <3>1. buf' = buf /\ shell' = shell /\ unread' = unread /\ FilterTyping /\ FilterStep
      BY <1>1, <2>5, Zenon DEF Filter, shell_vars, Typing, TypeOK, FilterTyping
    <3>2. RunLeft' = RunLeft /\ FilterLeft' < FilterLeft
      BY <3>1, FilterStepLess DEF RunLeft
    <3> QED BY <1>1, <2>0, <3>1, <3>2, EofLower
  <2>6. CASE TypeLine \/ TypePart \/ EndInput
    BY <1>1, <2>6 DEF TypeLine, TypePart, EndInput
  <2> QED BY <1>1, <2>1, <2>2, <2>3, <2>4, <2>5, <2>6 DEF Next, Proceed
<1> QED BY <1>1, InitTypes, NextStepTypes, PTL DEF Spec, EofProgress

=============================================================================
