----------------------------- MODULE SwExchange -----------------------------
(***************************************************************************)
(* What the socket relay promises to a client that waits for its replies:  *)
(* turn by turn, one message is asked, carried out once and answered.  A   *)
(* client that leaves in the middle of its turn of the module may still    *)
(* have that one message carried out, and nothing behind it.               *)
(***************************************************************************)
EXTENDS Naturals, Sequences

CONSTANT Script         \* how many messages the client has

VARIABLES turn,         \* "client", "module", or "over": the client has left
          asked,        \* how many messages the client has asked
          relayed       \* the messages carried out, in order

evars == <<turn, asked, relayed>>

EInit == turn = "client" /\ asked = 0 /\ relayed = <<>>

Ask ==
  /\ turn = "client"
  /\ asked < Script
  /\ turn' = "module"
  /\ asked' = asked + 1
  /\ UNCHANGED relayed

Carry ==
  /\ turn # "client"
  /\ Len(relayed) < asked
  /\ relayed' = Append(relayed, asked)
  /\ UNCHANGED <<turn, asked>>

Answer ==
  /\ turn = "module"
  /\ Len(relayed) = asked
  /\ turn' = "client"
  /\ UNCHANGED <<asked, relayed>>

Leave ==
  /\ turn # "over"
  /\ turn' = "over"
  /\ UNCHANGED <<asked, relayed>>

ENext == Ask \/ Carry \/ Answer \/ Leave

ESpec == EInit /\ [][ENext]_evars

=============================================================================
