------------------------------ MODULE MCSwTree ------------------------------
(* The directory the Makefile builds, read in any order.                   *)
EXTENDS SwRegistry

SwFiles == {"sw", "lib_asic.so", "lib_bridge.so", "lib_cli_comm.so",
            "lib_flow.so", "lib_flow_stub.so", "lib_sock_comm.so"}

SwDir ==
  [f \in SwFiles |->
     CASE f = "lib_asic.so"      -> "asic"
       [] f = "lib_bridge.so"    -> "bridge"
       [] f = "lib_cli_comm.so"  -> "cli"
       [] f = "lib_flow.so"      -> "flow"
       [] f = "lib_flow_stub.so" -> "flow_stub"
       [] f = "lib_sock_comm.so" -> "sock"
       [] OTHER                  -> "plain"]

SwDirs == {SwDir}

=============================================================================
