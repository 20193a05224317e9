------------------------------ MODULE SwLinks ------------------------------
(***************************************************************************)
(* What the boot of lib_switch promises, without tables, loops or indices. *)
(* Modules register while the program loads.  When loading is over, every  *)
(* registered switch module is linked to every registered protocol module  *)
(* it supports, one pair at a time; the program runs when every such pair  *)
(* is linked, and no other pair ever is.  Loading may fail (there are more *)
(* libraries than the tables have room for); linking may not.              *)
(***************************************************************************)

CONSTANTS Modules,      \* everything that can register
          MainApp       \* the module that the main program is itself

VARIABLES phase,        \* "loading", "linking", "running" or "failed"
          registered,   \* the modules that have registered
          supports,     \* the pairs <<p, s>> such that switch s supports protocol p
          links         \* the pairs linked so far

lvars == <<phase, registered, supports, links>>

Required == supports \cap (registered \X registered)

LInit ==
  /\ phase = "loading"
  /\ registered = {}
  /\ supports \in SUBSET (Modules \X Modules)
  /\ links = {}

Register(m) ==
  /\ phase = "loading"
  /\ m \notin registered
  /\ registered' = registered \cup {m}
  /\ UNCHANGED <<phase, supports, links>>

Fail ==
  /\ phase = "loading"
  /\ phase' = "failed"
  /\ UNCHANGED <<registered, supports, links>>

StartLinking ==
  /\ phase = "loading"
  /\ MainApp \notin registered
  /\ phase' = "linking"
  /\ registered' = registered \cup {MainApp}
  /\ UNCHANGED <<supports, links>>

LinkPair(p, s) ==
  /\ phase = "linking"
  /\ <<p, s>> \in Required \ links
  /\ links' = links \cup {<<p, s>>}
  /\ UNCHANGED <<phase, registered, supports>>

Run ==
  /\ phase = "linking"
  /\ links = Required
  /\ phase' = "running"
  /\ UNCHANGED <<registered, supports, links>>

LNext ==
  \/ \E m \in Modules : Register(m)
  \/ Fail
  \/ StartLinking
  \/ \E p, s \in Modules : LinkPair(p, s)
  \/ Run

LSpec == LInit /\ [][LNext]_lvars

============================================================================
