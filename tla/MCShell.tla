------------------------------ MODULE MCShell ------------------------------
(***************************************************************************)
(* Lines for the shell: all short ones over a few options, and the long    *)
(* ones that it takes to read every field or to fill an array.             *)
(***************************************************************************)
EXTENDS SwShell

Val(key, n) == [key |-> key, val |-> "value", num |-> n]
Bare(key)  == [key |-> key, val |-> "none", num |-> 0]
Blanked(key) == [key |-> key, val |-> "blank", num |-> 0]

Protos == <<"bridge", "flow", "app">>

(* The flow library alone, without, with one and with two devices; the     *)
(* devices of the Makefile; so many libraries that flow is number 10.      *)
MCBoots ==
  [flw_dev_cnt : {0, 1, 2}, has_dump : {TRUE}, cli_protos : {<<"flow", "app">>}] \cup
  {[flw_dev_cnt |-> 1, has_dump |-> FALSE, cli_protos |-> <<"bridge", "flow", "app">>],
   [flw_dev_cnt |-> 1, has_dump |-> TRUE, cli_protos |-> [i \in 1..10 |-> "bridge"] \o <<"flow", "app">>]}

(* Every field, with values: octets in addresses, else more than two bytes.*)
Chain ==
  [i \in 1..NumFields |-> Val(FieldOrder[i], IF FieldOrder[i] \in Addresses THEN 248 + i ELSE 65536 + i)]

Few == {Bare("filter"), Bare("add"), Bare("other"),
        Val("dev", -1), Val("dev", 1), Val("dev", 65536), Blanked("dev"),
        Val("tbl", 3), Val("tbl", 40000),
        Val("in-phy-port", 12), Val("in-port", 65537), Bare("action"), Bare("drop"), Val("out-port", 7)}

Short1 == {<<o>> : o \in Few}
Shorts == {<<>>} \cup Short1 \cup {a \o b : a \in Short1, b \in Short1}

Start == <<Bare("filter"), Bare("add")>>

Repeat(o, n) == [i \in 1..n |-> o]

WithoutField(i) == SubSeq(Chain, 1, i - 1) \o SubSeq(Chain, i + 1, NumFields)

Longs ==
  {Start \o Chain \o <<Bare("action"), Val("out-port", 1), Bare("drop"), Val("out-port", 2)>>,
   Start \o SubSeq(Chain, 1, 6),
   Start \o SubSeq(Chain, 1, 7),
   Start \o SubSeq(Chain, 1, 2) \o <<Blanked("dl-dst")>>,
   Start \o SubSeq(Chain, 1, 3) \o <<Blanked("dl-src")>>,
   Start \o Chain \o Chain \o SubSeq(Chain, 1, 3),
   Start \o Chain \o Chain \o SubSeq(Chain, 1, 4),
   Start \o Repeat(Val("in-phy-port", 1), ArraySize) \o <<Bare("in-phy-port")>>,
   Start \o <<Bare("action")>> \o Repeat(Val("out-port", 1), ArraySize) \o <<Bare("drop")>>,
   Start \o <<Bare("action")>> \o Repeat(Val("out-port", 1), ArraySize + 1),
   Start \o <<Bare("action")>> \o Repeat(Bare("drop"), ArraySize + 2) \o <<Val("out-port", 1)>>}
    \cup {Start \o WithoutField(i) : i \in 1..NumFields}

MCFileLines == {<<Bare("del")>> \o s : s \in Shorts} \cup Longs \cup {<<Bare("other")>>}

Sec(n, opts) == [word |-> "sec", num |-> n, opts |-> opts]

MCShellLines ==
  {Blank(w) : w \in Words \ {"unset", "sec"}} \cup
  {[Blank(w) EXCEPT !.num = n] : w \in {"help", "quit", "bare"}, n \in 1..2} \cup
  {Sec(n, <<>>) : n \in {-1, 0, 1, 5, 10, 12, 256}} \cup
  {Sec(n, <<o>>) : n \in {-1, 0, 1, 9, 10, 256}, o \in {Bare("filter"), Bare("load"), Bare("other")}} \cup
  {Sec(n, <<Bare("load"), Bare("other")>>) : n \in {0, 1, 10}} \cup
  {Sec(n, Start \o s) : n \in {0, 1}, s \in Shorts} \cup
  {Sec(0, <<Bare("filter")>> \o s) : s \in Short1} \cup
  {Sec(0, l) : l \in Longs}

MCGarbage == {<<9, 9, 9, 9>>}

=============================================================================
