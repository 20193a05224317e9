------------------------------ MODULE SwRelay ------------------------------
(***************************************************************************)
(* Management over the socket: the sample client sends its nine messages   *)
(* over one TCP connection, waiting for a reply after each; the process    *)
(* that the listener forked for the connection receives into one buffer,   *)
(* calls the function at message[message_id] of the protocol at            *)
(* protocols[type], and sends the buffer back.                             *)
(*                                                                         *)
(* The client connects to its own host, so what one send writes arrives    *)
(* whole, and recv returns everything that has arrived, up to the size of  *)
(* its buffer.  Nothing else separates messages.  A message is its number  *)
(* in the client's order; the payload is left out, because the client      *)
(* fills in the same bridge and the same query every time.                 *)
(*                                                                         *)
(* The listener keeps its own descriptor of the connection, so the end of  *)
(* a handler does not close it, and the client is not told.                *)
(***************************************************************************)
EXTENDS SwProgress, Sequences

CONSTANT Boots          \* what the boot of the program may have left behind

Protocols == {"bridge", "flow", "app"}

ASSUME BootsAssumption ==
  Boots \subseteq [protocols : Seq(Protocols), switch_cnt : Nat,
                   br_dev_cnt : Nat, flw_dev_cnt : Nat]

VARIABLES boot,         \* protocols[], switch_cnt, br_dev_cnt and flw_dev_cnt
          client,       \* "ready" to send, "waiting" for a reply, "ended"
          sent,         \* how many messages the client has sent
          up,           \* how many of these, the last ones, are not received
          down,         \* bytes of replies the client has not received
          conn,         \* the connection, as the handler's socket knows it
          handler,      \* "recv", "call", "send", "accept" (left its loop), "dead",
                        \* or "undefined": it has written behind its buffer
          msg,          \* the message in the handler's buffer, 0 when it is blank
          fresh,        \* whether that message was just received
          len,          \* the handler's variable of this name
          served,       \* the messages relayed, in order
          repeats       \* how often a message was relayed again, counted to 2

vars == <<boot, client, sent, up, down, conn, handler, msg, fresh, len, served, repeats>>

HdrSize     == 12       \* sizeof(struct app_msg_hdr)
SzBuf       == 512      \* SZ_BUF, the handler's buffer
ReplyBuf    == 128      \* the client's buffer
MsgQryMax   == 2        \* MSG_QRY_MAX
BrMaxMsg    == 7        \* BR_MAX_MSG

-----------------------------------------------------------------------------
(* The client's script: MSG_QRY_MAX messages of PROTOCOL_APP, then         *)
(* BR_MAX_MSG of PROTOCOL_BRIDGE.  A blank buffer reads as message 0 of    *)
(* type 0.                                                                 *)
Messages == MsgQryMax + BrMaxMsg

Type(n) == IF n <= MsgQryMax THEN 0 ELSE 1
MessageId(n) == IF n = 0 THEN 0 ELSE IF n <= MsgQryMax THEN n - 1 ELSE n - MsgQryMax - 1

(* The bytes of the first n messages: a query has 4 bytes behind its       *)
(* header, a struct br_msg_param 24.                                       *)
BytesUpTo(n) ==
  IF n <= MsgQryMax THEN n * (HdrSize + 4)
  ELSE MsgQryMax * (HdrSize + 4) + (n - MsgQryMax) * (HdrSize + 24)

-----------------------------------------------------------------------------
(* The tables of messages, by position.                                    *)
br_message ==
  <<"br_add_br", "br_del_br", "br_add_br_if", "br_del_br_if", "br_set_age",
    "br_dump", "br_set_max_age">>
flw_message ==
  <<"flw_add_flw", "flw_del_flw", "flw_add_flw_if", "flw_del_flw_if", "flw_set_age",
    "flw_dump", "flw_set_max_age">>
app_message == <<"app_msg_qry_sw", "app_msg_qry_proto">>

MessageTable(protocol) ==
  IF protocol = "bridge" THEN br_message
  ELSE IF protocol = "flow" THEN flw_message ELSE app_message

(* What protocols[type]->message[message_id].func is for message n: none   *)
(* when the entry of protocols[] is null, and anything behind the table.   *)
Func(n) ==
  IF Type(n) >= Len(boot.protocols) THEN "none"
  ELSE LET table == MessageTable(boot.protocols[Type(n) + 1]) IN
         IF MessageId(n) < Len(table) THEN table[MessageId(n) + 1] ELSE "anything"

(* The method of the device that a function of lib_bridge.c calls.         *)
DeviceCall(func) ==
  IF func = "br_add_br" THEN "br_add_br"
  ELSE IF func = "br_del_br" THEN "br_del_br"
  ELSE IF func \in {"br_add_br_if", "br_del_br_if", "br_set_age", "br_set_max_age"}
         THEN "br_add_br_if"
  ELSE "none"

(* Whether the function can bring the handler down, and whether it can     *)
(* return: the bridge and flow functions go to entry 0 of their device     *)
(* table; the only flow device has no dump_flow to call in f_add; a blank  *)
(* query asks for switch 0.                                                *)
CanCrash(n) ==
  LET func == Func(n) IN
    \/ func = "anything"
    \/ DeviceCall(func) # "none" /\ boot.br_dev_cnt = 0
    \/ func = "flw_add_flw"
    \/ func = "flw_del_flw" /\ boot.flw_dev_cnt = 0
    \/ func = "app_msg_qry_sw" /\ n = 0 /\ boot.switch_cnt = 0

MustCrash(n) == CanCrash(n) /\ Func(n) # "anything"

(* Mutant: app_msg_qry_sw returns the size of the buffer.                  *)
Returns_Size(n) == IF Func(n) # "app_msg_qry_sw" THEN 1 ELSE SzBuf

(* What a function returns: the bytes that app_msg_qry_sw writes over the  *)
(* query, 1 otherwise.  The client's query is for all switches; the type   *)
(* written over it makes it one for switch 0 when it is read again.        *)
Returns(n) ==
  IF Func(n) # "app_msg_qry_sw" THEN 1
  ELSE IF fresh \/ boot.switch_cnt = 0 THEN 4 * boot.switch_cnt ELSE 4

-----------------------------------------------------------------------------
Init ==
  /\ boot \in Boots
  /\ client = "ready"
  /\ sent = 0 /\ up = 0 /\ down = 0
  /\ conn = "open"
  /\ handler = "recv"
  /\ msg = 0 /\ fresh = FALSE /\ len = 0
  /\ served = <<>>
  /\ repeats = 0

-----------------------------------------------------------------------------
(* The client.                                                             *)

(* Mutant: the loop over the messages goes one too far.                    *)
SendMessage_OneMore ==
  /\ client = "ready"
  /\ sent <= Messages
  /\ client' = "waiting"
  /\ sent' = sent + 1
  /\ up' = up + 1
  /\ UNCHANGED <<boot, down, conn, handler, msg, fresh, len, served, repeats>>

SendMessage ==
  /\ client = "ready"
  /\ sent < Messages
  /\ client' = "waiting"
  /\ sent' = sent + 1
  /\ up' = up + 1
  /\ UNCHANGED <<boot, down, conn, handler, msg, fresh, len, served, repeats>>

(* Mutant: the client does not wait until there is something to receive.   *)
RecvReply_NoWait ==
  /\ client = "waiting"
  /\ client' = "ready"
  /\ down' = IF down <= ReplyBuf THEN 0 ELSE down - ReplyBuf
  /\ UNCHANGED <<boot, sent, up, conn, handler, msg, fresh, len, served, repeats>>

RecvReply ==
  /\ client = "waiting"
  /\ down > 0
  /\ client' = "ready"
  /\ down' = IF down <= ReplyBuf THEN 0 ELSE down - ReplyBuf
  /\ UNCHANGED <<boot, sent, up, conn, handler, msg, fresh, len, served, repeats>>

(* A socket that is closed with bytes unread resets the connection.        *)
End ==
  /\ client' = "ended"
  /\ conn' = IF down > 0 THEN "reset" ELSE "closed"
  /\ UNCHANGED <<boot, sent, up, down, handler, msg, fresh, len, served, repeats>>

Close == client = "ready" /\ sent = Messages /\ End

(* The client is interrupted.                                              *)
Interrupted == client # "ended" /\ End

(* A reply to a client that has closed is answered with a reset.           *)
ResetArrives ==
  /\ conn = "answered"
  /\ conn' = "broken"
  /\ UNCHANGED <<boot, client, sent, up, down, handler, msg, fresh, len, served, repeats>>

-----------------------------------------------------------------------------
(* The handler.                                                            *)

(* recv returns what has arrived; only the first message in it is looked   *)
(* at.                                                                     *)
Receive ==
  /\ handler = "recv"
  /\ up > 0
  /\ handler' = "call"
  /\ msg' = sent - up + 1
  /\ fresh' = TRUE
  /\ len' = BytesUpTo(sent) - BytesUpTo(sent - up)
  /\ up' = 0
  /\ UNCHANGED <<boot, client, sent, down, conn, served, repeats>>

(* Mutant: the socket does not block, and nothing received is taken for a  *)
(* message.                                                                *)
ReceiveEnd_NoBlock ==
  /\ handler = "recv"
  /\ up = 0 /\ msg # 0
  /\ conn # "reset"
  /\ handler' = "call"
  /\ fresh' = FALSE
  /\ len' = 0
  /\ UNCHANGED <<boot, client, sent, up, down, conn, msg, served, repeats>>

(* recv returns 0 at the end of the stream, which the loop takes for a     *)
(* message: the one that is still in the buffer.                           *)
ReceiveEnd ==
  /\ handler = "recv"
  /\ up = 0
  /\ conn \in {"closed", "answered", "broken"}
  /\ handler' = "call"
  /\ fresh' = FALSE
  /\ len' = 0
  /\ UNCHANGED <<boot, client, sent, up, down, conn, msg, served, repeats>>

(* recv returns -1; the handler goes round the listener's accept loop.     *)
ReceiveError ==
  /\ handler = "recv"
  /\ up = 0
  /\ conn = "reset"
  /\ handler' = "accept"
  /\ UNCHANGED <<boot, client, sent, up, down, conn, msg, fresh, len, served, repeats>>

Call ==
  /\ handler = "call"
  /\ ~MustCrash(msg)
  /\ handler' = IF HdrSize + Returns(msg) <= SzBuf THEN "send" ELSE "undefined"
  /\ len' = IF Func(msg) \in {"none", "anything"} THEN len ELSE Returns(msg)
  /\ served' = IF fresh THEN Append(served, msg) ELSE served
  /\ repeats' = IF fresh \/ repeats = 2 THEN repeats ELSE repeats + 1
  /\ UNCHANGED <<boot, client, sent, up, down, conn, msg, fresh>>

CallCrashes ==
  /\ handler = "call"
  /\ CanCrash(msg)
  /\ handler' = "dead"
  /\ UNCHANGED <<boot, client, sent, up, down, conn, msg, fresh, len, served, repeats>>

(* Mutant: the reply is as long as the function says, without the header.  *)
SendReply_NoHeader ==
  /\ handler = "send"
  /\ conn \in {"open", "closed", "answered"}
  /\ handler' = "recv"
  /\ IF conn = "open" THEN down' = down + len /\ UNCHANGED conn
     ELSE conn' = "answered" /\ UNCHANGED down
  /\ len' = 0
  /\ UNCHANGED <<boot, client, sent, up, msg, fresh, served, repeats>>

SendReply ==
  /\ handler = "send"
  /\ conn \in {"open", "closed", "answered"}
  /\ handler' = "recv"
  /\ IF conn = "open" THEN down' = down + HdrSize + len /\ UNCHANGED conn
     ELSE conn' = "answered" /\ UNCHANGED down
  /\ len' = 0
  /\ UNCHANGED <<boot, client, sent, up, msg, fresh, served, repeats>>

(* The first send after a reset returns -1, which nobody looks at; the     *)
(* next raises SIGPIPE.                                                    *)
SendFails ==
  /\ handler = "send"
  /\ conn = "reset"
  /\ conn' = "broken"
  /\ handler' = "recv"
  /\ len' = 0
  /\ UNCHANGED <<boot, client, sent, up, down, msg, fresh, served, repeats>>

(* Mutant: SIGPIPE is ignored.                                             *)
BrokenPipe_Ignored ==
  /\ handler = "send"
  /\ conn = "broken"
  /\ handler' = "recv"
  /\ len' = 0
  /\ UNCHANGED <<boot, client, sent, up, down, conn, msg, fresh, served, repeats>>

BrokenPipe ==
  /\ handler = "send"
  /\ conn = "broken"
  /\ handler' = "dead"
  /\ UNCHANGED <<boot, client, sent, up, down, conn, msg, fresh, len, served, repeats>>

ClientStep == SendMessage \/ RecvReply \/ Close

HandlerStep ==
  \/ Receive \/ ReceiveEnd \/ ReceiveError
  \/ Call \/ CallCrashes
  \/ SendReply \/ SendFails \/ BrokenPipe

Next == ClientStep \/ Interrupted \/ HandlerStep \/ ResetArrives

Spec == Init /\ [][Next]_vars

(* Both programs run, and the network delivers.                            *)
FairSpec ==
  Spec /\ WF_vars(ClientStep) /\ WF_vars(HandlerStep) /\ WF_vars(ResetArrives)

-----------------------------------------------------------------------------
(* Every variable has its type, and only messages that were sent are in    *)
(* flight or in the buffer.                                                *)
TypeOK ==
  /\ boot \in Boots
  /\ client \in {"ready", "waiting", "ended"}
  /\ sent \in 0..Messages /\ up \in 0..sent /\ down \in Nat
  /\ conn \in {"open", "closed", "answered", "reset", "broken"}
  /\ handler \in {"recv", "call", "send", "accept", "dead", "undefined"}
  /\ msg \in 0..(sent - up)
  /\ fresh \in BOOLEAN
  /\ len \in Nat
  /\ served \in Seq(1..sent)
  /\ repeats \in 0..2

(* A list of all switch types fits into the client's buffer.               *)
ReplyFits == HdrSize + 4 * boot.switch_cnt <= ReplyBuf

(* "wait for reply" (client/lib_sock_comm.c:42): as long as replies fit    *)
(* into its buffer, the client goes on only when the handler has relayed   *)
(* every message sent so far, in order and once each, and no byte of a     *)
(* reply is left over; and nothing is relayed twice while it is there.     *)
InStep ==
  ReplyFits =>
    /\ served = [i \in 1..Len(served) |-> i]
    /\ Len(served) \in {sent, sent - 1}
    /\ client = "ready" => Len(served) = sent /\ up = 0 /\ down = 0
    /\ client # "ended" => repeats = 0

(* At most once and in order: whatever replies do not fit and however many *)
(* messages one recv takes in (lib_sock_comm.c:73), messages are relayed   *)
(* in the order in which they were sent, none of them twice, and none is   *)
(* relayed again while the client is there.                                *)
RelayedOnce ==
  /\ \A i, j \in 1..Len(served) : i < j => served[i] < served[j]
  /\ client # "ended" => repeats = 0

(* What the handler sends back never ends behind its buffer                *)
(* (lib_sock_comm.c:80-81), although the reply to a null entry of          *)
(* protocols[] counts the bytes of all messages that were received at      *)
(* once; and it writes behind the buffer only for more than 125 switches   *)
(* (main.c:131).                                                           *)
ReplyInBuffer ==
  /\ handler = "send" => HdrSize + len <= SzBuf
  /\ handler = "undefined" => boot.switch_cnt > 125

(* One message at a time: it is under way, in the buffer before its call,  *)
(* or relayed, and the client waits until the last byte of the reply is    *)
(* there.  After its end the handler may still find its last message.      *)
OneAtATime ==
  /\ served = [i \in 1..Len(served) |-> i]
  /\ up > 0 => up = 1 /\ handler = "recv" /\ Len(served) = sent - 1
  /\ handler = "call" /\ fresh => msg = sent /\ Len(served) = sent - 1
  /\ handler = "call" /\ ~fresh => Len(served) = sent /\ client = "ended"
  /\ up = 0 /\ handler \notin {"call", "dead"} => Len(served) = sent
  /\ handler = "dead" => Len(served) \in {sent, sent - 1}
  /\ client = "ready" => up = 0 /\ down = 0 /\ handler = "recv"
  /\ client # "ended" =>
       /\ conn = "open" /\ repeats = 0
       /\ handler \in {"call", "send"} => HdrSize + len <= ReplyBuf
       /\ down > 0 => up = 0 /\ handler = "recv" /\ down <= ReplyBuf

(* The connection is there as long as the client is.                       *)
ClientKeepsOpen == client # "ended" => conn = "open"

(* Client and handler never wait for each other's bytes at the same time   *)
(* (client/lib_sock_comm.c:43, lib_sock_comm.c:73), even when several      *)
(* messages were received at once and got one reply for all of them, or    *)
(* what is left of a long reply was taken for the next one.                *)
NoMutualWait == client = "waiting" /\ handler = "recv" => up > 0 \/ down > 0

(* What was relayed is behind what the handler has in its buffer, and that *)
(* behind what is on its way; what is called was just received.            *)
RelayedBefore ==
  /\ \A i \in 1..Len(served) : served[i] <= sent - up
  /\ handler = "call" /\ fresh => \A i \in 1..Len(served) : served[i] < msg
  /\ handler = "call" /\ client # "ended" => fresh

(* The inductive invariant of the connection.                              *)
IInv ==
  /\ TypeOK
  /\ fresh => msg # 0
  /\ handler = "call" => len <= BytesUpTo(Messages)
  /\ ReplyInBuffer
  /\ ClientKeepsOpen
  /\ NoMutualWait
  /\ RelayedOnce /\ RelayedBefore
  /\ ReplyFits => OneAtATime

Exchange ==
  INSTANCE SwExchange WITH
    Script  <- Messages,
    turn    <- CASE client = "ready"   -> "client"
                 [] client = "waiting" -> "module"
                 [] client = "ended"   -> "over",
    asked   <- sent,
    relayed <- served

(* As long as replies fit into the client's buffer, client and handler     *)
(* carry out SwExchange: each recv, call and send of the handler, and what *)
(* the two sockets hold, is a step of one exchange or none                 *)
(* (client/lib_sock_comm.c:41-43, lib_sock_comm.c:73-82).                  *)
InExchange ==
  /\ ReplyFits => Exchange!EInit
  /\ [][ReplyFits => Exchange!ENext \/ UNCHANGED Exchange!evars]_vars

(* What is left of the script: messages to send, of those that were sent   *)
(* the ones to receive, and the rest of the way of the last one.           *)
HandlerLeft == CASE handler = "call" -> 2 [] handler = "send" -> 1 [] OTHER -> 0

ScriptLeft ==
  <<IF client = "ended" THEN 0 ELSE Messages - sent + 1,
    up, HandlerLeft, IF client = "waiting" THEN 1 ELSE 0>>

(* Before the client ends, every step of either side brings its script     *)
(* nearer to the end, even when replies do not fit: no message is received *)
(* or called a second time, and no reply answered with another message.    *)
ScriptProgress == [][client # "ended" => Lower(4, ScriptLeft', ScriptLeft)]_vars

(* The client gets through its script, or is interrupted, unless the       *)
(* handler is brought down by one of its messages.                         *)
ClientServed == <>(client = "ended" \/ handler \in {"dead", "undefined"})

(* When the client is gone, the handler does not stay in its loop.         *)
HandlerLeaves == client = "ended" ~> handler \in {"accept", "dead", "undefined"}

(* The module waits for messages and relays them (README.md:29): it relays *)
(* only what a client has sent, and that once.                             *)
NothingUnasked == repeats = 0

(* The method of the device for which a message's id stands, by the names  *)
(* of enum br_msg_id (lib_bridge.h:5-14).                                  *)
Asked(id) ==
  <<"br_add_br", "br_add_br_if", "br_del_br_if", "br_del_br", "br_set_age",
    "br_set_max_age", "none">>[id + 1]

(* A message to the bridge protocol runs the function that the row with    *)
(* its id names, {PROTOCOL_BRIDGE,BR_DEL_BR,br_del_br} and so on           *)
(* (lib_bridge.c:92-99), and so the device method of that name.            *)
BridgeMessagesWork ==
  \A i \in 1..Len(served) :
    LET n == served[i] IN
      Type(n) = 1 /\ Func(n) \in {br_message[j] : j \in 1..Len(br_message)}
        => DeviceCall(Func(n)) = Asked(MessageId(n))

=============================================================================
