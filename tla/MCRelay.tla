------------------------------ MODULE MCRelay ------------------------------
(* What SwRegistry leaves behind: up to two protocol libraries in any      *)
(* order, then the main program's protocol; some switches, of which some   *)
(* are in the device tables.                                               *)
EXTENDS SwRelay

Libraries == UNION {[1..n -> {"bridge", "flow"}] : n \in 0..2}

MCBoots ==
  {[protocols |-> Append(libs, "app"), switch_cnt |-> br + flw + other,
    br_dev_cnt |-> br, flw_dev_cnt |-> flw] :
     libs \in Libraries, br \in 0..1, flw \in 0..1, other \in {0, 28, 124}}

=============================================================================
