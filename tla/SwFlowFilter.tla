---------------------------- MODULE SwFlowFilter ----------------------------
(***************************************************************************)
(* The filter command of the flow protocol, fib_cmd_filter.  A line is cut *)
(* at spaces and read option by option: add, del or dump, a device, a      *)
(* table, the fields to match in one fixed order, "action", and the        *)
(* actions.  At the end of the line a method of flw_devs[dev_id] is called *)
(* with the tuples and actions that were read.                             *)
(*                                                                         *)
(* An option is its key, what stands behind it (no "=", a "=" with nothing *)
(* readable behind it, or a value) and the value: a number or, of an       *)
(* address, its last group, an octet; the other groups are always the same.*)
(* Text that the functions for addresses refuse is nothing readable.       *)
(***************************************************************************)
EXTENDS Integers, Sequences, FiniteSets

CONSTANTS Boots,        \* what the boot may have left behind
          ArraySize,    \* the size of tuples[] and actions[], 25 in the code
          Garbage       \* what a tuple's bytes may hold at first

ASSUME BootsAssumption == \A b \in Boots : b.flw_dev_cnt \in Nat /\ b.has_dump \in BOOLEAN
ASSUME ArrayAssumption == ArraySize \in Nat
ASSUME GarbageAssumption == Garbage \subseteq Seq(Int) /\ Garbage # {}

VARIABLES boot,         \* flw_dev_cnt, and whether the devices are linked with dump_flow
          at,           \* "off", "options", "actions", "called" or "crashed"
          line,         \* the line that is read
          newline,      \* whether its newline is still there
          pos,          \* how many of its options strsep has returned
          flow_cmd,     \* the variables of these names
          dev_id,
          tbl_id,
          rqd_field,
          tuples,       \* tuples[] up to tuple_cnt
          actions       \* the ports of actions[] up to action_cnt

locals == <<flow_cmd, dev_id, tbl_id, rqd_field, tuples, actions>>
filter_vars == <<boot, at, line, newline, pos, flow_cmd, dev_id, tbl_id, rqd_field, tuples, actions>>

-----------------------------------------------------------------------------
Commands == {"add", "del", "dump"}

(* The one order in which fields may follow each other: rqd_field is the   *)
(* place of the last one, its 11 and 12 being 10 and 11 here.              *)
FieldOrder == <<"in-phy-port", "in-port", "dl-dst", "dl-src", "dl-type", "nw-dst",
                "nw-src", "nw-ecn", "nw-proto", "tp-dst", "tp-src">>

NumFields == 11

Fields == {FieldOrder[i] : i \in 1..NumFields}

Place(field) == CHOOSE i \in 1..NumFields : FieldOrder[i] = field

(* Mutant: nw-proto may be left out.                                       *)
InOrder_NoProto(field) ==
  \/ field = "in-phy-port"
  \/ rqd_field = Place(field) - 1
  \/ field = "tp-dst" /\ rqd_field = Place("nw-ecn")

(* in-phy-port has no place to keep: it starts the order again.            *)
InOrder(field) ==
  \/ field = "in-phy-port"
  \/ rqd_field = Place(field) - 1

Keys == Fields \cup Commands \cup {"filter", "dev", "tbl", "action", "drop", "out-port", "load", "other"}

Addresses == {"dl-dst", "dl-src", "nw-dst", "nw-src"}

Options ==
  {o \in [key : Keys, val : {"none", "blank", "value"}, num : Int] :
     o.key \in Addresses /\ o.val = "value" => 0 <= o.num /\ o.num <= 255}

(* The value of an option to atoi and strtol, and in sixteen bits.         *)
Number(o) == IF o.val = "value" THEN o.num ELSE 0
Short(n)  == ((n + 32768) % 65536) - 32768
Bits(n)   == n % 65536

(* What is stored for a field: a number; six octets as typed; four octets  *)
(* turned around, or whatever was there if inet_pton, whose result nobody  *)
(* looks at, does not like the text: it does not like a newline.           *)
Values(o, last) ==
  IF o.key \in {"dl-dst", "dl-src"}
    THEN {<<2, 0, 0, 0, 0, o.num>>}
  ELSE IF o.key \notin {"nw-dst", "nw-src"}
    THEN {<<Bits(Number(o))>>}
  ELSE IF o.val = "value" /\ ~last
    THEN {<<o.num, 0, 0, 10>>}
  ELSE Garbage

(* The option strsep returns next, and whether the newline hangs on it.    *)
Opt == line[pos + 1]
HasNewline(i) == newline /\ i = Len(line)

Sees(stage, keys) ==
  /\ at = stage
  /\ pos < Len(line)
  /\ Opt.key \in keys

(* The function returns, and its variables are gone.                       *)
Leave ==
  /\ at' = "off" /\ line' = <<>> /\ newline' = FALSE /\ pos' = 0
  /\ flow_cmd' = "none" /\ dev_id' = 0 /\ tbl_id' = 0 /\ rqd_field' = 0
  /\ tuples' = <<>> /\ actions' = <<>>

(* A store behind an array, a null pointer: nothing more is said.          *)
Crash == at' = "crashed" /\ pos' = pos + 1 /\ UNCHANGED <<line, newline, locals>>

Advance == pos' = pos + 1 /\ UNCHANGED <<at, line, newline>>

-----------------------------------------------------------------------------
FilterInit ==
  /\ boot \in Boots
  /\ at = "off" /\ line = <<>> /\ newline = FALSE /\ pos = 0
  /\ flow_cmd = "none" /\ dev_id = 0 /\ tbl_id = 0 /\ rqd_field = 0
  /\ tuples = <<>> /\ actions = <<>>

(* fib_cmd_filter(cmd)                                                     *)
StartFilter(cmd, ends) ==
  /\ at = "off"
  /\ at' = "options" /\ line' = cmd /\ newline' = ends
  /\ UNCHANGED <<boot, pos, locals>>

SkipFilter ==
  /\ Sees("options", {"filter"})
  /\ Advance
  /\ UNCHANGED <<boot, locals>>

SetCommand ==
  /\ Sees("options", Commands)
  /\ flow_cmd' = Opt.key
  /\ Advance
  /\ UNCHANGED <<boot, dev_id, tbl_id, rqd_field, tuples, actions>>

(* Mutant: negative numbers are not refused.                               *)
DeviceAccepted_Any(d) == d <= boot.flw_dev_cnt

(* The first number behind the table passes.                               *)
DeviceAccepted(d) == 0 <= d /\ d <= boot.flw_dev_cnt

ReadDev ==
  /\ Sees("options", {"dev"}) /\ flow_cmd # "none"
  /\ Opt.val # "none" /\ DeviceAccepted(Short(Number(Opt)))
  /\ dev_id' = Short(Number(Opt))
  /\ Advance
  /\ UNCHANGED <<boot, flow_cmd, tbl_id, rqd_field, tuples, actions>>

ReadTbl ==
  /\ Sees("options", {"tbl"}) /\ flow_cmd # "none"
  /\ Opt.val # "none" /\ Short(Number(Opt)) >= 0
  /\ tbl_id' = Short(Number(Opt))
  /\ Advance
  /\ UNCHANGED <<boot, flow_cmd, dev_id, rqd_field, tuples, actions>>

SeesField == Sees("options", Fields) /\ flow_cmd # "none" /\ InOrder(Opt.key)

IsMac(o) == o.val = "value"

ReadField ==
  /\ SeesField
  /\ Len(tuples) < ArraySize
  /\ Opt.val # "none" /\ (Opt.key \in {"dl-dst", "dl-src"} => IsMac(Opt))
  /\ rqd_field' = Place(Opt.key)
  /\ \E value \in Values(Opt, HasNewline(pos + 1)) :
       tuples' = Append(tuples, [id |-> Opt.key, value |-> value])
  /\ Advance
  /\ UNCHANGED <<boot, flow_cmd, dev_id, tbl_id, actions>>

(* tuples[tuple_cnt].id is stored first, then the value is looked at.  A   *)
(* bad source address is a null pointer to ether_ntoa; a bad destination   *)
(* address is refused.                                                     *)
OverrunTuples ==
  /\ SeesField
  /\ Len(tuples) = ArraySize
  /\ Crash
  /\ UNCHANGED boot

BadSource ==
  /\ SeesField
  /\ Len(tuples) < ArraySize
  /\ Opt.key = "dl-src" /\ Opt.val # "none" /\ ~IsMac(Opt)
  /\ Crash
  /\ UNCHANGED boot

BeginActions ==
  /\ Sees("options", {"action"}) /\ flow_cmd # "none"
  /\ at' = "actions" /\ pos' = pos + 1
  /\ UNCHANGED <<boot, line, newline, locals>>

(* goto out: nothing has reached the device.                               *)
Rejects(o) ==
  \/ flow_cmd = "none"
  \/ o.key \notin Fields \cup {"dev", "tbl", "action"}
  \/ o.key = "dev" /\ (o.val = "none" \/ ~DeviceAccepted(Short(Number(o))))
  \/ o.key = "tbl" /\ (o.val = "none" \/ Short(Number(o)) < 0)
  \/ o.key \in Fields /\ ~InOrder(o.key)
  \/ /\ o.key \in Fields /\ Len(tuples) < ArraySize
     /\ o.val = "none" \/ (o.key = "dl-dst" /\ ~IsMac(o))

Reject ==
  /\ Sees("options", Keys \ (Commands \cup {"filter"})) /\ Rejects(Opt)
  /\ Leave
  /\ UNCHANGED boot

(* Mutant: drop is counted, as a port.                                     *)
Drop_Counted ==
  /\ Sees("actions", {"drop"})
  /\ Len(actions) < ArraySize
  /\ actions' = Append(actions, 0)
  /\ Advance
  /\ UNCHANGED <<boot, flow_cmd, dev_id, tbl_id, rqd_field, tuples>>

(* drop is stored and not counted: the next action takes its place.        *)
Drop ==
  /\ Sees("actions", {"drop"})
  /\ Len(actions) < ArraySize
  /\ Advance
  /\ UNCHANGED <<boot, locals>>

OutPort ==
  /\ Sees("actions", {"out-port"})
  /\ Len(actions) < ArraySize
  /\ Opt.val # "none"
  /\ actions' = Append(actions, Bits(Number(Opt)))
  /\ Advance
  /\ UNCHANGED <<boot, flow_cmd, dev_id, tbl_id, rqd_field, tuples>>

OverrunActions ==
  /\ Sees("actions", {"drop", "out-port"})
  /\ Len(actions) = ArraySize
  /\ Crash
  /\ UNCHANGED boot

RejectAction ==
  /\ \/ Sees("actions", Keys \ {"drop", "out-port"})
     \/ Sees("actions", {"out-port"}) /\ Len(actions) < ArraySize /\ Opt.val = "none"
  /\ Leave
  /\ UNCHANGED boot

-----------------------------------------------------------------------------
AtEnd == at \in {"options", "actions"} /\ pos = Len(line)

NoCommand ==
  /\ AtEnd /\ flow_cmd = "none"
  /\ Leave
  /\ UNCHANGED boot

(* flw_devs[dev_id]->f_add, f_delete or f_lookup(dev_id, tbl_id, &flow)    *)
CallDevice ==
  /\ AtEnd /\ flow_cmd # "none"
  /\ at' = IF 0 <= dev_id /\ dev_id < boot.flw_dev_cnt THEN "called" ELSE "crashed"
  /\ UNCHANGED <<boot, line, newline, pos, locals>>

(* The stub's methods call dump_flow, which the Makefile does not link     *)
(* into lib_flow_stub.so and compile.sh does.                              *)
DeviceReturns ==
  /\ at = "called"
  /\ IF boot.has_dump THEN Leave
     ELSE at' = "crashed" /\ UNCHANGED <<line, newline, pos, locals>>
  /\ UNCHANGED boot

FilterStep ==
  \/ SkipFilter \/ SetCommand \/ ReadDev \/ ReadTbl
  \/ ReadField \/ OverrunTuples \/ BadSource \/ BeginActions \/ Reject
  \/ Drop \/ OutPort \/ OverrunActions \/ RejectAction
  \/ NoCommand \/ CallDevice \/ DeviceReturns

-----------------------------------------------------------------------------
FilterTypeOK ==
  /\ boot \in Boots
  /\ at \in {"off", "options", "actions", "called", "crashed"}
  /\ line \in Seq(Options)
  /\ newline \in BOOLEAN
  /\ pos \in 0..Len(line)
  /\ flow_cmd \in Commands \cup {"none"}
  /\ dev_id \in 0..boot.flw_dev_cnt
  /\ tbl_id \in Nat
  /\ rqd_field \in 0..NumFields
  /\ tuples \in Seq([id : Fields, value : Seq(Int)]) /\ Len(tuples) <= ArraySize
  /\ actions \in Seq(Nat) /\ Len(actions) <= ArraySize

(* The places among the options read so far of options with these keys.    *)
Read(keys) == {i \in 1..pos : line[i].key \in keys}

(* Which of them the one at place i is, counted from the first.            *)
Rank(i, keys) == Cardinality({j \in Read(keys) : j <= i})

(* A variable holds what the last of its options says.                     *)
LastSays(key, variable, default) ==
  IF Read({key}) = {} THEN variable = default
  ELSE \E i \in Read({key}) :
         /\ variable = Short(Number(line[i]))
         /\ \A j \in Read({key}) : j <= i

TuplesAsTyped ==
  /\ Len(tuples) = Cardinality(Read(Fields))
  /\ \A i \in Read(Fields) :
       /\ tuples[Rank(i, Fields)].id = line[i].key
       /\ tuples[Rank(i, Fields)].value \in Values(line[i], HasNewline(i))

ActionsAsTyped ==
  /\ Len(actions) = Cardinality(Read({"out-port"}))
  /\ \A i \in Read({"out-port"}) :
       actions[Rank(i, {"out-port"})] = Bits(Number(line[i]))

CommandAsTyped ==
  IF Read(Commands) = {} THEN flow_cmd = "none"
  ELSE \E i \in Read(Commands) : flow_cmd = line[i].key /\ \A j \in Read(Commands) : j <= i

(* Every field and every output port of the line is handed to the device   *)
(* once, in the order typed and with the value typed, and nothing else is; *)
(* method, device and table are the ones named last.  What does not arrive *)
(* is a drop (lib_flow.c:634), and an IPv4 address before the newline of a *)
(* file (lib_flow.c:438, :475) arrives as garbage.                         *)
FlowAsTyped ==
  at # "crashed" =>
    /\ TuplesAsTyped /\ ActionsAsTyped /\ CommandAsTyped
    /\ LastSays("dev", dev_id, 0) /\ LastSays("tbl", tbl_id, 0)

Chained ==
  \A i \in 1..Len(tuples) :
    \/ tuples[i].id = "in-phy-port"
    \/ i > 1 /\ Place(tuples[i].id) = Place(tuples[i - 1].id) + 1

(* The flow never has a field without the ones before it in the order      *)
(* (the comparisons with rqd_field, lib_flow.c:284-591), and since only    *)
(* in-phy-port starts the order again there are at most eleven times as    *)
(* many fields as there are of those: it takes three to overrun tuples[25].*)
FieldsInOrder ==
  /\ Chained
  /\ Len(tuples) <= NumFields * Cardinality(Read({"in-phy-port"}))

(* Why a filter line brings the process down: the method is called of the  *)
(* first device behind the table (lib_flow.c:231, or none is registered),  *)
(* or of one that was linked without dump_flow; the line has more fields   *)
(* or actions than fit, or a source address that is none.                  *)
CrashCauses ==
  at = "crashed" =>
    \/ pos = Len(line) /\ (dev_id = boot.flw_dev_cnt \/ ~boot.has_dump)
    \/ Cardinality(Read(Fields)) > ArraySize
    \/ Cardinality(Read({"out-port"})) > ArraySize
    \/ Cardinality(Read({"out-port"})) = ArraySize /\ line[pos].key = "drop"
    \/ line[pos].key = "dl-src" /\ line[pos].val = "blank"

(* The inductive invariant: rqd_field is the place of the last tuple, each *)
(* in-phy-port has begun at most eleven of them and the last of these has  *)
(* come as far as rqd_field.                                               *)
LastPlace == rqd_field = IF tuples = <<>> THEN 0 ELSE Place(tuples[Len(tuples)].id)

Restarts ==
  tuples # <<>> =>
    Len(tuples) <= NumFields * (Cardinality(Read({"in-phy-port"})) - 1) + rqd_field

FilterInv ==
  /\ at = "off" => pos = 0
  /\ at = "called" => pos = Len(line)
  /\ LastPlace /\ Restarts /\ Chained
  /\ FlowAsTyped
  /\ CrashCauses

=============================================================================
