----------------------------- MODULE SwShutdown -----------------------------
(***************************************************************************)
(* What the program promises about its end: every registered module is     *)
(* halted once, the communications modules before the command lines, these *)
(* before the switches and the switches before the protocols, and the      *)
(* program is gone only when nothing is left to halt.                      *)
(***************************************************************************)
EXTENDS Naturals

CONSTANTS Mods,         \* the registered modules
          Rank          \* Rank[m]: the place of the class of m in the order

VARIABLES alive, done   \* whether the program runs, the modules halted

svars == <<alive, done>>

SInit == alive = TRUE /\ done = {}

Halt(m) ==
  /\ alive
  /\ m \notin done
  /\ \A n \in Mods : Rank[n] < Rank[m] => n \in done
  /\ done' = done \cup {m}
  /\ UNCHANGED alive

Exit ==
  /\ alive
  /\ done = Mods
  /\ alive' = FALSE
  /\ UNCHANGED done

SNext == (\E m \in Mods : Halt(m)) \/ Exit

SSpec == SInit /\ [][SNext]_svars

============================================================================
