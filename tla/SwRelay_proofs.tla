--------------------------- MODULE SwRelay_proofs ---------------------------
(***************************************************************************)
(* Client and handler are in step and no reply leaves its buffer, for any  *)
(* number of switches and devices and protocol libraries in any order.     *)
(***************************************************************************)
EXTENDS SwRelay, SwProgress_proofs, SequenceTheorems, TLAPS

(* What the boot leaves behind.                                            *)
LEMMA BootType ==
  ASSUME TypeOK
  PROVE  boot.protocols \in Seq(Protocols) /\ boot.switch_cnt \in Nat
BY BootsAssumption DEF TypeOK

(* Types as the steps need them.                                           *)
LEMMA Types ==
  ASSUME TypeOK
  PROVE  /\ sent \in Nat /\ up \in Nat /\ down \in Nat /\ len \in Nat
         /\ served \in Seq(Nat) /\ Len(served) \in Nat
         /\ fresh \in BOOLEAN
         /\ handler \in {"recv", "call", "send", "accept", "dead", "undefined"}
         /\ client \in {"ready", "waiting", "ended"}
<1>1. sent \in Nat
  BY DEF TypeOK, Messages, MsgQryMax, BrMaxMsg
<1>2. served \in Seq(Nat)
  BY <1>1, SeqMonotonic DEF TypeOK
<1>3. Len(served) \in Nat
  BY <1>2
<1> QED BY <1>1, <1>2, <1>3 DEF TypeOK

(* Bytes that arrive, of one message and of several.                       *)
LEMMA Bytes ==
  ASSUME NEW n \in 0..Messages, NEW k \in 0..n
  PROVE  /\ BytesUpTo(n) - BytesUpTo(n - k) \in Nat
         /\ BytesUpTo(n) - BytesUpTo(n - k) <= BytesUpTo(Messages)
         /\ k = 1 => HdrSize + (BytesUpTo(n) - BytesUpTo(n - k)) <= ReplyBuf
BY DEF BytesUpTo, Messages, MsgQryMax, BrMaxMsg, HdrSize, ReplyBuf

(* How long a reply becomes.                                               *)
LEMMA ReturnsBound ==
  ASSUME TypeOK, NEW n
  PROVE  /\ Returns(n) \in Nat
         /\ Returns(n) = 1 \/ Returns(n) <= 4 * boot.switch_cnt
BY BootType DEF Returns

(* The next message is relayed in order.                                   *)
LEMMA NextServed ==
  ASSUME NEW seq \in Seq(Nat), seq = [i \in 1..Len(seq) |-> i], NEW n \in Nat, n = Len(seq) + 1
  PROVE  Append(seq, n) = [i \in 1..Len(Append(seq, n)) |-> i]
<1>1. Len(Append(seq, n)) = Len(seq) + 1 /\ Append(seq, n) \in Seq(Nat)
  OBVIOUS
<1>2. \A i \in 1..(Len(seq) + 1) : Append(seq, n)[i] = i
  OBVIOUS
<1>3. Append(seq, n) = [i \in 1..Len(Append(seq, n)) |-> Append(seq, n)[i]]
  BY <1>1, LenProperties
<1> QED BY <1>1, <1>2, <1>3

(* What was relayed stays in order and behind what is in the buffer, and   *)
(* what is in the buffer behind what is on its way.                        *)
LEMMA OnceKept ==
  ASSUME IInv, Next
  PROVE  RelayedOnce' /\ RelayedBefore'
<1>1. /\ sent \in Nat /\ up \in 0..sent /\ msg \in 0..(sent - up)
      /\ served \in Seq(Nat) /\ Len(served) \in Nat
      /\ \A i \in 1..Len(served) : served[i] \in Nat
      /\ RelayedOnce /\ RelayedBefore
  BY Types DEF IInv, TypeOK
<1>2. CASE SendMessage
  <2>1. /\ sent' = sent + 1 /\ up' = up + 1 /\ client # "ended"
        /\ UNCHANGED <<handler, msg, fresh, served, repeats>>
    BY <1>2 DEF SendMessage
  <2>2. sent' - up' = sent - up
    BY <1>1, <2>1
  <2> QED BY <1>1, <2>1, <2>2 DEF RelayedOnce, RelayedBefore
<1>3. CASE Receive
  <2>1. /\ up > 0 /\ up' = 0 /\ msg' = sent - up + 1 /\ fresh' = TRUE
        /\ UNCHANGED <<client, sent, served, repeats>>
    BY <1>3 DEF Receive
  <2>2. \A i \in 1..Len(served) : served[i] < msg' /\ served[i] <= sent' - up'
    <3>1. sent - up < msg' /\ sent - up \in Nat /\ sent' - up' = sent /\ msg' <= sent
      BY <1>1, <2>1
    <3> QED BY <1>1, <2>1, <3>1 DEF RelayedBefore
  <2> QED BY <1>1, <2>1, <2>2 DEF RelayedOnce, RelayedBefore
<1>4. CASE ReceiveEnd
  <2>1. client = "ended" /\ fresh' = FALSE /\ UNCHANGED <<client, sent, up, served, repeats>>
    BY <1>4 DEF ReceiveEnd, IInv, ClientKeepsOpen
  <2> QED BY <1>1, <2>1 DEF RelayedOnce, RelayedBefore
<1>5. CASE Call /\ fresh
  <2>1. /\ handler = "call" /\ handler' # "call" /\ served' = Append(served, msg)
        /\ UNCHANGED <<client, sent, up, repeats>>
    BY <1>5 DEF Call
  <2>2. /\ Len(served') = Len(served) + 1 /\ served'[Len(served) + 1] = msg
        /\ \A i \in 1..Len(served) : served'[i] = served[i]
    BY <1>1, <2>1
  <2>3. \A i \in 1..Len(served) : served[i] < msg
    BY <1>1, <1>5, <2>1 DEF RelayedBefore
  <2>4. \A i, j \in 1..Len(served') : i < j => served'[i] < served'[j]
    <3> SUFFICES ASSUME NEW i \in 1..Len(served'), NEW j \in 1..Len(served'), i < j
                 PROVE  served'[i] < served'[j]
      OBVIOUS
    <3>1. i \in 1..Len(served)
      BY <1>1, <2>2
    <3>2. CASE j \in 1..Len(served)
      BY <1>1, <2>2, <3>1, <3>2 DEF RelayedOnce
    <3>3. CASE j = Len(served) + 1
      BY <2>2, <2>3, <3>1, <3>3
    <3> QED BY <1>1, <2>2, <3>2, <3>3
  <2>5. \A i \in 1..Len(served') : served'[i] <= sent' - up'
    <3> SUFFICES ASSUME NEW i \in 1..Len(served') PROVE served'[i] <= sent - up
      BY <2>1
    <3>1. CASE i \in 1..Len(served)
      BY <1>1, <2>2, <3>1 DEF RelayedBefore
    <3>2. CASE i = Len(served) + 1
      BY <1>1, <2>2, <3>2
    <3> QED BY <1>1, <2>2, <3>1, <3>2
  <2>6. client' # "ended" => repeats' = 0
    BY <1>1, <2>1 DEF RelayedOnce
  <2> QED BY <2>1, <2>4, <2>5, <2>6 DEF RelayedOnce, RelayedBefore
<1>6. CASE Call /\ ~fresh
  <2>1. /\ client = "ended" /\ handler' # "call" /\ UNCHANGED <<client, sent, up, served>>
    BY <1>1, <1>6 DEF Call, RelayedBefore
  <2> QED BY <1>1, <2>1 DEF RelayedOnce, RelayedBefore
<1>7. CASE \/ RecvReply \/ Close \/ Interrupted \/ ResetArrives
           \/ ReceiveError \/ CallCrashes \/ SendReply \/ SendFails \/ BrokenPipe
  <2>1. /\ client' # "ended" => client # "ended"
        /\ handler' = "call" => handler = "call"
        /\ UNCHANGED <<sent, up, msg, fresh, served, repeats>>
    BY <1>7 DEF RecvReply, Close, Interrupted, End, ResetArrives, ReceiveError,
                CallCrashes, SendReply, SendFails, BrokenPipe
  <2> QED BY <1>1, <2>1 DEF RelayedOnce, RelayedBefore
<1> QED BY <1>2, <1>3, <1>4, <1>5, <1>6, <1>7 DEF Next, ClientStep, HandlerStep

-----------------------------------------------------------------------------
(* The client.                                                             *)
LEMMA SendMessageInv ==
  ASSUME IInv, SendMessage
  PROVE  IInv'
<1>1. /\ sent \in 0..Messages /\ up \in 0..sent /\ msg \in 0..(sent - up) /\ Messages \in Nat
      /\ sent < Messages /\ sent' = sent + 1 /\ up' = up + 1 /\ msg' = msg
  BY DEF IInv, TypeOK, SendMessage, Messages, MsgQryMax, BrMaxMsg
<1>2. served' \in Seq(1..sent')
  <2>1. served \in Seq(1..sent) /\ 1..sent \subseteq 1..(sent + 1)
    BY <1>1 DEF IInv, TypeOK
  <2> QED BY <2>1, <1>1, SeqMonotonic DEF SendMessage
<1>3. TypeOK'
  BY <1>1, <1>2 DEF IInv, TypeOK, SendMessage
<1>4. ReplyFits' => ReplyFits /\ OneAtATime
  BY DEF IInv, ReplyFits, SendMessage
<1>5. ReplyFits' => OneAtATime'
  <2>1. SUFFICES ASSUME OneAtATime PROVE OneAtATime'
    BY <1>4
  <2>2. /\ up = 0 /\ down = 0 /\ handler = "recv" /\ Len(served) = sent
        /\ conn = "open" /\ repeats = 0
    BY <2>1, Types DEF IInv, OneAtATime, SendMessage
  <2>3. served' = [i \in 1..Len(served') |-> i] /\ Len(served') = sent' - 1
    BY <1>1, <2>1, <2>2 DEF OneAtATime, SendMessage
  <2>4. up' = 1 /\ down' = 0 /\ handler' = "recv" /\ client' = "waiting" /\ conn' = "open" /\ repeats' = 0
    BY <1>1, <2>2 DEF SendMessage
  <2> QED BY <2>3, <2>4 DEF OneAtATime
<1>6. NoMutualWait'
  BY <1>1 DEF NoMutualWait
<1>7. RelayedOnce' /\ RelayedBefore'
  BY OnceKept DEF Next, ClientStep, HandlerStep
<1> QED BY <1>3, <1>5, <1>6, <1>7 DEF IInv, SendMessage, ReplyInBuffer, ClientKeepsOpen

LEMMA RecvReplyInv ==
  ASSUME IInv, RecvReply
  PROVE  IInv'
<1>1. down' \in Nat /\ (down <= ReplyBuf => down' = 0)
  BY DEF IInv, TypeOK, RecvReply, ReplyBuf
<1>2. TypeOK'
  BY <1>1 DEF IInv, TypeOK, RecvReply
<1>3. ReplyFits' => ReplyFits /\ OneAtATime
  BY DEF IInv, ReplyFits, RecvReply
<1>4. ReplyFits' => OneAtATime'
  BY <1>1, <1>3 DEF OneAtATime, RecvReply
<1>5. RelayedOnce' /\ RelayedBefore'
  BY OnceKept DEF Next, ClientStep, HandlerStep
<1> QED BY <1>2, <1>4, <1>5 DEF IInv, RecvReply, ReplyInBuffer, ClientKeepsOpen, NoMutualWait

LEMMA EndInv ==
  ASSUME IInv, Close \/ Interrupted
  PROVE  IInv'
<1>1. TypeOK'
  BY DEF IInv, TypeOK, Close, Interrupted, End
<1>2. ReplyFits' => OneAtATime'
  BY DEF IInv, ReplyFits, OneAtATime, Close, Interrupted, End
<1>3. RelayedOnce' /\ RelayedBefore'
  BY OnceKept DEF Next, ClientStep, HandlerStep
<1> QED BY <1>1, <1>2, <1>3 DEF IInv, Close, Interrupted, End, ReplyInBuffer, ClientKeepsOpen, NoMutualWait

LEMMA ResetArrivesInv ==
  ASSUME IInv, ResetArrives
  PROVE  IInv'
<1>1. TypeOK'
  BY DEF IInv, TypeOK, ResetArrives
<1>2. ReplyFits' => OneAtATime'
  BY DEF IInv, ReplyFits, OneAtATime, ResetArrives
<1>3. RelayedOnce' /\ RelayedBefore'
  BY OnceKept DEF Next, ClientStep, HandlerStep
<1> QED BY <1>1, <1>2, <1>3 DEF IInv, ResetArrives, ReplyInBuffer, ClientKeepsOpen, NoMutualWait

-----------------------------------------------------------------------------
(* The handler.                                                            *)
LEMMA ReceiveInv ==
  ASSUME IInv, Receive
  PROVE  IInv'
<1>1. /\ sent \in 0..Messages /\ up \in 1..sent /\ Messages \in Nat
      /\ handler = "recv" /\ handler' = "call" /\ fresh' = TRUE
      /\ msg' = sent - up + 1 /\ up' = 0 /\ len' = BytesUpTo(sent) - BytesUpTo(sent - up)
      /\ UNCHANGED <<boot, client, sent, down, conn, served, repeats>>
  BY DEF IInv, TypeOK, Receive, Messages, MsgQryMax, BrMaxMsg
<1>2. /\ len' \in Nat /\ len' <= BytesUpTo(Messages)
      /\ up = 1 => HdrSize + len' <= ReplyBuf
  <2>1. up \in 0..sent
    BY <1>1
  <2> QED BY <1>1, <2>1, Bytes
<1>3. TypeOK'
  BY <1>1, <1>2 DEF IInv, TypeOK
<1>4. ReplyFits' => ReplyFits /\ OneAtATime
  BY <1>1 DEF IInv, ReplyFits
<1>5. ReplyFits' => OneAtATime'
  <2>1. SUFFICES ASSUME OneAtATime PROVE OneAtATime'
    BY <1>4
  <2>2. /\ up = 1 /\ Len(served) = sent - 1 /\ client # "ready"
        /\ client # "ended" => conn = "open" /\ repeats = 0 /\ ~(down > 0)
    <3>1. up > 0 /\ up # 0 /\ up \in Nat
      BY <1>1
    <3> QED BY <3>1, <2>1, Types DEF IInv, OneAtATime
  <2>3. served' = [i \in 1..Len(served') |-> i] /\ Len(served') = sent' - 1 /\ msg' = sent'
    BY <1>1, <2>1, <2>2 DEF OneAtATime
  <2>4. HdrSize + len' <= ReplyBuf
    BY <1>2, <2>2
  <2>5. HdrSize' = HdrSize /\ ReplyBuf' = ReplyBuf
    BY DEF HdrSize, ReplyBuf
  <2> QED BY <1>1, <2>2, <2>3, <2>4, <2>5 DEF OneAtATime
<1>6. BytesUpTo(Messages)' = BytesUpTo(Messages)
  BY DEF BytesUpTo
<1>7. RelayedOnce' /\ RelayedBefore'
  BY OnceKept DEF Next, ClientStep, HandlerStep
<1> QED BY <1>1, <1>2, <1>3, <1>5, <1>6, <1>7 DEF IInv, ReplyInBuffer, ClientKeepsOpen, NoMutualWait

LEMMA ReceiveEndInv ==
  ASSUME IInv, ReceiveEnd
  PROVE  IInv'
<1>1. TypeOK'
  BY DEF IInv, TypeOK, ReceiveEnd
<1>2. ReplyFits' => OneAtATime'
  BY DEF IInv, ReplyFits, OneAtATime, ReceiveEnd
<1>3. len' <= BytesUpTo(Messages)
  BY DEF ReceiveEnd, BytesUpTo, Messages, MsgQryMax, BrMaxMsg, HdrSize
<1>4. RelayedOnce' /\ RelayedBefore'
  BY OnceKept DEF Next, ClientStep, HandlerStep
<1> QED BY <1>1, <1>2, <1>3, <1>4 DEF IInv, ReceiveEnd, ReplyInBuffer, ClientKeepsOpen, NoMutualWait

LEMMA ReceiveErrorInv ==
  ASSUME IInv, ReceiveError
  PROVE  IInv'
<1>1. TypeOK'
  BY DEF IInv, TypeOK, ReceiveError
<1>2. ReplyFits' => OneAtATime'
  BY DEF IInv, ReplyFits, OneAtATime, ReceiveError
<1>3. RelayedOnce' /\ RelayedBefore'
  BY OnceKept DEF Next, ClientStep, HandlerStep
<1> QED BY <1>1, <1>2, <1>3 DEF IInv, ReceiveError, ReplyInBuffer, ClientKeepsOpen, NoMutualWait

(* A function was called, and returned.                                    *)
LEMMA CallInv ==
  ASSUME IInv, Call
  PROVE  IInv'
<1>1. /\ handler = "call" /\ len \in Nat /\ len <= BytesUpTo(Messages)
      /\ handler' \in {"send", "undefined"}
      /\ len' = len \/ len' = Returns(msg)
      /\ UNCHANGED <<boot, client, sent, up, down, conn, msg, fresh>>
  BY DEF IInv, TypeOK, Call
<1>2. boot.switch_cnt \in Nat /\ Returns(msg) \in Nat
      /\ (Returns(msg) = 1 \/ Returns(msg) <= 4 * boot.switch_cnt)
  BY BootType, ReturnsBound DEF IInv
<1>3. served \in Seq(1..sent) /\ served \in Seq(Nat) /\ Len(served) \in Nat /\ sent \in Nat
  <2>1. served \in Seq(1..sent) /\ 1..sent \subseteq Nat /\ sent \in Nat
    BY DEF IInv, TypeOK
  <2> QED BY <2>1, SeqMonotonic
<1>4. RelayedOnce' /\ RelayedBefore'
  BY OnceKept DEF Next, HandlerStep
<1>5. CASE ~fresh
  <2>1. served' = served /\ repeats' \in 0..2
    BY <1>5 DEF Call, IInv, TypeOK
  <2>2. TypeOK'
    BY <1>1, <1>2, <1>3, <2>1 DEF IInv, TypeOK
  <2>3. ReplyFits' => OneAtATime'
    BY <1>1, <1>5, <2>1 DEF IInv, ReplyFits, OneAtATime
  <2>4. ReplyInBuffer'
    BY <1>1, <1>2 DEF Call, ReplyInBuffer, HdrSize, SzBuf, BytesUpTo, Messages, MsgQryMax, BrMaxMsg
  <2> QED BY <1>1, <1>4, <1>5, <2>2, <2>3, <2>4 DEF IInv, ClientKeepsOpen, NoMutualWait
<1>6. CASE fresh
  <2>1. msg \in 1..sent /\ served' = Append(served, msg) /\ repeats' = repeats
    BY <1>6 DEF Call, IInv, TypeOK
  <2>2. served' \in Seq(1..sent) /\ Len(served') = Len(served) + 1
    BY <1>3, <2>1
  <2>3. TypeOK'
    BY <1>1, <1>2, <2>1, <2>2 DEF IInv, TypeOK
  <2>4. ReplyFits' => ReplyFits /\ OneAtATime
    BY <1>1 DEF IInv, ReplyFits
  <2>5. ReplyFits => HdrSize + Returns(msg) <= ReplyBuf
    BY <1>2 DEF ReplyFits, HdrSize, ReplyBuf
  <2>6. ReplyFits => served' = [i \in 1..Len(served') |-> i]
    <3>1. SUFFICES ASSUME ReplyFits PROVE served' = [i \in 1..Len(served') |-> i]
      OBVIOUS
    <3>2. /\ served = [i \in 1..Len(served) |-> i]
          /\ msg = Len(served) + 1
      BY <1>1, <1>3, <1>6, <3>1 DEF IInv, OneAtATime
    <3> QED BY <1>3, <2>1, <3>2, NextServed
  <2>7. ReplyFits' => OneAtATime'
    BY <1>1, <1>3, <1>6, <2>1, <2>2, <2>4, <2>5, <2>6 DEF OneAtATime
  <2>8. ReplyInBuffer'
    BY <1>1, <1>2 DEF Call, ReplyInBuffer, HdrSize, SzBuf, BytesUpTo, Messages, MsgQryMax, BrMaxMsg
  <2> QED BY <1>1, <1>4, <1>6, <2>1, <2>3, <2>7, <2>8 DEF IInv, ClientKeepsOpen, NoMutualWait
<1> QED BY <1>5, <1>6

(* The handler is brought down, by a call or by a signal.                  *)
LEMMA DiesInv ==
  ASSUME IInv, CallCrashes \/ BrokenPipe
  PROVE  IInv'
<1>1. /\ handler \in {"call", "send"} /\ handler' = "dead"
      /\ UNCHANGED <<boot, client, sent, up, down, conn, msg, fresh, len, served, repeats>>
  BY DEF CallCrashes, BrokenPipe
<1>2. TypeOK'
  BY <1>1 DEF IInv, TypeOK
<1>3. ReplyFits' => OneAtATime'
  BY <1>1, Types DEF IInv, ReplyFits, OneAtATime
<1>4. RelayedOnce' /\ RelayedBefore'
  BY OnceKept DEF Next, ClientStep, HandlerStep
<1> QED BY <1>1, <1>2, <1>3, <1>4 DEF IInv, ReplyInBuffer, ClientKeepsOpen, NoMutualWait

LEMMA SendReplyInv ==
  ASSUME IInv, SendReply \/ SendFails
  PROVE  IInv'
<1>1. /\ handler = "send" /\ handler' = "recv" /\ len' = 0
      /\ IF conn = "open" THEN down' = down + HdrSize + len /\ conn' = conn ELSE down' = down
      /\ down' \in Nat /\ conn' \in {"open", "closed", "answered", "reset", "broken"}
      /\ UNCHANGED <<boot, client, sent, up, msg, fresh, served, repeats>>
  BY DEF IInv, TypeOK, SendReply, SendFails, HdrSize
<1>2. TypeOK'
  BY <1>1 DEF IInv, TypeOK
<1>3. ReplyFits' => ReplyFits /\ OneAtATime
  BY <1>1 DEF IInv, ReplyFits
<1>4. ReplyFits' => OneAtATime'
  <2>1. SUFFICES ASSUME OneAtATime PROVE OneAtATime'
    BY <1>3
  <2>2. /\ up = 0 /\ Len(served) = sent
        /\ client = "waiting" => conn = "open" /\ down = 0 /\ HdrSize + len <= ReplyBuf
        /\ client # "ready"
    BY <1>1, <2>1, Types DEF IInv, OneAtATime
  <2>3. client = "waiting" => down' <= ReplyBuf /\ conn' = "open"
    BY <1>1, <2>2, Types DEF IInv, HdrSize, ReplyBuf
  <2> QED BY <1>1, <2>1, <2>2, <2>3, Types DEF IInv, OneAtATime
<1>5. ClientKeepsOpen' /\ NoMutualWait'
  <2>1. SUFFICES ASSUME client # "ended"
                 PROVE  conn' = "open" /\ down' > 0
    BY <1>1 DEF ClientKeepsOpen, NoMutualWait
  <2>2. conn = "open" /\ down \in Nat /\ len \in Nat
    BY <2>1, Types DEF IInv, ClientKeepsOpen
  <2> QED BY <1>1, <2>2 DEF HdrSize
<1>6. RelayedOnce' /\ RelayedBefore'
  BY OnceKept DEF Next, ClientStep, HandlerStep
<1> QED BY <1>1, <1>2, <1>4, <1>5, <1>6 DEF IInv, ReplyInBuffer

-----------------------------------------------------------------------------
LEMMA InitInv == Init => IInv
<1> SUFFICES ASSUME Init PROVE IInv
  OBVIOUS
<1>1. Messages \in Nat /\ <<>> \in Seq(1..0) /\ Len(<<>>) = 0
  BY EmptySeq DEF Messages, MsgQryMax, BrMaxMsg
<1>2. TypeOK
  <2>1. sent \in 0..Messages /\ up \in 0..sent /\ msg \in 0..(sent - up) /\ served \in Seq(1..sent)
    BY <1>1 DEF Init
  <2>2. 0 \in Nat /\ 0 \in 0..2
    OBVIOUS
  <2> QED BY <2>1, <2>2 DEF Init, TypeOK
<1>3. served = [i \in 1..Len(served) |-> i]
  BY <1>1, LenProperties DEF Init
<1>4. OneAtATime
  BY <1>1, <1>3 DEF Init, OneAtATime
<1>5. RelayedOnce /\ RelayedBefore
  BY <1>1 DEF Init, RelayedOnce, RelayedBefore
<1> QED BY <1>2, <1>4, <1>5 DEF Init, IInv, ReplyInBuffer, ClientKeepsOpen, NoMutualWait

LEMMA NextInv == IInv /\ [Next]_vars => IInv'
<1> SUFFICES ASSUME IInv, [Next]_vars
             PROVE  IInv'
  OBVIOUS
<1>1. CASE SendMessage
  BY <1>1, SendMessageInv
<1>2. CASE RecvReply
  BY <1>2, RecvReplyInv
<1>3. CASE Close \/ Interrupted
  BY <1>3, EndInv
<1>4. CASE ResetArrives
  BY <1>4, ResetArrivesInv
<1>5. CASE Receive
  BY <1>5, ReceiveInv
<1>6. CASE ReceiveEnd
  BY <1>6, ReceiveEndInv
<1>7. CASE ReceiveError
  BY <1>7, ReceiveErrorInv
<1>8. CASE Call
  BY <1>8, CallInv
<1>9. CASE CallCrashes \/ BrokenPipe
  BY <1>9, DiesInv
<1>10. CASE SendReply \/ SendFails
  BY <1>10, SendReplyInv
<1>11. CASE UNCHANGED vars
  BY <1>11 DEF vars, IInv, TypeOK, ReplyInBuffer, ClientKeepsOpen, NoMutualWait, ReplyFits,
                   OneAtATime, RelayedOnce, RelayedBefore
<1> QED BY <1>1, <1>2, <1>3, <1>4, <1>5, <1>6, <1>7, <1>8, <1>9, <1>10, <1>11
        DEF Next, ClientStep, HandlerStep

(* The inductive invariant of a connection holds whatever the boot has     *)
(* left behind.                                                            *)
THEOREM InvariantHolds == Spec => []IInv
BY InitInv, NextInv, PTL DEF Spec

(* Every variable has its type; only messages that were sent are in flight *)
(* or in the buffer.                                                       *)
THEOREM TypeCorrect == Spec => []TypeOK
<1>1. IInv => TypeOK
  BY DEF IInv
<1> QED BY <1>1, InvariantHolds, PTL

(* With up to 29 switches one recv is one message and one reply: messages  *)
(* are relayed once each, in order, and the client waits for each          *)
(* (client/lib_sock_comm.c:42, lib_sock_comm.c:73).                        *)
THEOREM ClientInStep == Spec => []InStep
<1>1. IInv => InStep
  <2> SUFFICES ASSUME IInv, ReplyFits PROVE InStep
    BY DEF InStep
  <2>1. OneAtATime
    BY DEF IInv
  <2>2. Len(served) \in {sent, sent - 1}
    <3>1. CASE up > 0
      BY <2>1, <3>1, Types DEF IInv, OneAtATime
    <3>2. CASE up = 0
      BY <2>1, <3>2, Types DEF IInv, OneAtATime
    <3> QED BY <3>1, <3>2, Types DEF IInv
  <2> QED BY <2>1, <2>2, Types DEF IInv, OneAtATime, InStep
<1> QED BY <1>1, InvariantHolds, PTL

(* No reply ends behind the handler's buffer, and the list of switches is  *)
(* written behind it only for more than 125 of them (lib_sock_comm.c:80,   *)
(* main.c:131).                                                            *)
THEOREM RepliesFit == Spec => []ReplyInBuffer
<1>1. IInv => ReplyInBuffer
  BY DEF IInv
<1> QED BY <1>1, InvariantHolds, PTL

(* Client and handler never wait for each other, for any number of         *)
(* switches and whatever messages and replies are received at once         *)
(* (client/lib_sock_comm.c:43, lib_sock_comm.c:73).                        *)
THEOREM NeverBothWait == Spec => []NoMutualWait
<1>1. IInv => NoMutualWait
  BY DEF IInv
<1> QED BY <1>1, InvariantHolds, PTL

(* Messages are relayed in the order in which they were sent and at most   *)
(* once, for any number of switches and however many one recv takes in;    *)
(* none is relayed again before the client is gone (lib_sock_comm.c:73).   *)
THEOREM RelaysAtMostOnce == Spec => []RelayedOnce
<1>1. IInv => RelayedOnce
  BY DEF IInv
<1> QED BY <1>1, InvariantHolds, PTL

-----------------------------------------------------------------------------
(* Steps of the exchange.                                                  *)
LEMMA AskStep ==
  ASSUME IInv, ReplyFits, SendMessage
  PROVE  Exchange!Ask
BY DEF SendMessage, Exchange!Ask

(* A message that was just received is the next one, and relayed in turn;  *)
(* what is called again is not.                                            *)
LEMMA CarryStep ==
  ASSUME IInv, ReplyFits, Call
  PROVE  Exchange!Carry \/ UNCHANGED Exchange!evars
<1>1. OneAtATime /\ handler = "call" /\ UNCHANGED <<client, sent>>
  BY DEF IInv, Call
<1>2. CASE ~fresh
  BY <1>1, <1>2 DEF Call, Exchange!evars
<1>3. CASE fresh
  <2>1. /\ msg = sent /\ Len(served) = sent - 1 /\ client # "ready"
        /\ served' = Append(served, sent)
    BY <1>1, <1>3 DEF OneAtATime, Call
  <2>2. Len(served) < sent
    BY <2>1, Types DEF IInv
  <2>3. client \in {"waiting", "ended"}
    BY <2>1, Types DEF IInv
  <2> QED BY <1>1, <2>1, <2>2, <2>3 DEF Exchange!Carry
<1> QED BY <1>1, <1>2, <1>3, Types DEF IInv

(* There is something to receive only when the message was relayed.        *)
LEMMA AnswerStep ==
  ASSUME IInv, ReplyFits, RecvReply
  PROVE  Exchange!Answer
<1>1. /\ client = "waiting" /\ client' = "ready" /\ down > 0
      /\ UNCHANGED <<sent, served>>
  BY DEF RecvReply
<1>2. up = 0 /\ handler = "recv" /\ Len(served) = sent
  BY <1>1 DEF IInv, OneAtATime
<1> QED BY <1>1, <1>2 DEF Exchange!Answer

(* Client and handler carry out SwExchange, whatever the boot has left     *)
(* behind, as long as the list of switches fits into the client's buffer   *)
(* (client/lib_sock_comm.c:42, lib_sock_comm.c:73-82).                     *)
THEOREM RelayImplementsExchange == Spec => InExchange
<1>1. Init => (ReplyFits => Exchange!EInit)
  BY DEF Init, Exchange!EInit
<1>2. ASSUME IInv, [Next]_vars
      PROVE  [ReplyFits => Exchange!ENext \/ UNCHANGED Exchange!evars]_vars
  <2> SUFFICES ASSUME ReplyFits
               PROVE  Exchange!ENext \/ UNCHANGED Exchange!evars \/ UNCHANGED vars
    OBVIOUS
  <2>1. CASE SendMessage
    BY <2>1, <1>2, AskStep DEF Exchange!ENext
  <2>2. CASE RecvReply
    BY <2>2, <1>2, AnswerStep DEF Exchange!ENext
  <2>3. CASE Close \/ Interrupted
    <3>1. client # "ended" /\ client' = "ended" /\ UNCHANGED <<sent, served>>
      BY <2>3 DEF Close, Interrupted, End
    <3>2. client \in {"ready", "waiting"}
      BY <3>1, <1>2 DEF IInv, TypeOK
    <3> QED BY <3>1, <3>2 DEF Exchange!ENext, Exchange!Leave
  <2>4. CASE Call
    BY <2>4, <1>2, CarryStep DEF Exchange!ENext
  <2>5. CASE ResetArrives \/ Receive \/ ReceiveEnd \/ ReceiveError \/ CallCrashes
             \/ SendReply \/ SendFails \/ BrokenPipe
    <3>1. UNCHANGED <<client, sent, served>>
      BY <2>5 DEF ResetArrives, Receive, ReceiveEnd, ReceiveError, CallCrashes,
                  SendReply, SendFails, BrokenPipe
    <3> QED BY <3>1 DEF Exchange!evars
  <2> QED BY <1>2, <2>1, <2>2, <2>3, <2>4, <2>5 DEF Next, ClientStep, HandlerStep
<1> QED BY <1>1, <1>2, InvariantHolds, PTL DEF Spec, InExchange

-----------------------------------------------------------------------------
(* Every step before the end of the client brings the script nearer to     *)
(* its end, for any number of switches: the client and its handler cannot  *)
(* go round in circles (LowerEnds), but only wait for each other.          *)
THEOREM ScriptGoesForward == Spec => ScriptProgress
<1>1. ASSUME IInv, [Next]_vars, client # "ended"
      PROVE  Lower(4, ScriptLeft', ScriptLeft) \/ UNCHANGED vars
  <2>1. /\ client \in {"ready", "waiting"} /\ conn = "open"
        /\ sent \in 0..Messages /\ up \in 0..sent /\ Messages \in Nat /\ Messages' = Messages
    BY <1>1 DEF IInv, TypeOK, ClientKeepsOpen, Messages, MsgQryMax, BrMaxMsg
  <2>2. client' \in {"ready", "waiting", "ended"} /\ sent' \in 0..Messages /\ up' \in 0..sent'
    BY <1>1, <2>1, NextInv DEF IInv, TypeOK
  <2>3. /\ HandlerLeft \in 0..2 /\ HandlerLeft' \in 0..2
    BY DEF HandlerLeft
  <2> DEFINE First == IF client = "ended" THEN 0 ELSE Messages - sent + 1
  <2> DEFINE Waits == IF client = "waiting" THEN 1 ELSE 0
  <2>4. First \in Nat /\ First' \in Nat /\ Waits \in Nat /\ Waits' \in Nat
        /\ up \in Nat /\ up' \in Nat /\ HandlerLeft \in Nat /\ HandlerLeft' \in Nat
    <3>1. \A n \in 0..Messages : Messages - n + 1 \in Nat
      BY <2>1
    <3>2. First \in Nat /\ First' \in Nat
      BY <3>1, <2>1, <2>2
    <3>3. up \in Nat /\ up' \in Nat
      BY <2>1, <2>2
    <3> QED BY <2>3, <3>2, <3>3
  <2>5. ScriptLeft = <<First, up, HandlerLeft, Waits>> /\ ScriptLeft' = <<First', up', HandlerLeft', Waits'>>
    BY DEF ScriptLeft
  <2> DEFINE Goes == \/ First' < First
                     \/ First' = First /\ up' < up
                     \/ First' = First /\ up' = up /\ HandlerLeft' < HandlerLeft
                     \/ First' = First /\ up' = up /\ HandlerLeft' = HandlerLeft /\ Waits' < Waits
  <2>6. Goes => Lower(4, ScriptLeft', ScriptLeft)
    <3> HIDE DEF First, Waits
    <3> QED BY <2>4, <2>5, LowerFour
  <2>7. CASE SendMessage
    BY <2>1, <2>6, <2>7 DEF SendMessage
  <2>8. CASE RecvReply
    BY <2>1, <2>6, <2>8 DEF RecvReply, HandlerLeft
  <2>9. CASE Close \/ Interrupted
    BY <2>1, <2>6, <2>9 DEF Close, Interrupted, End
  <2>10. CASE Receive
    BY <2>1, <2>6, <2>10 DEF Receive
  <2>11. CASE Call \/ CallCrashes
    BY <2>1, <2>6, <2>11 DEF Call, CallCrashes, HandlerLeft
  <2>12. CASE SendReply
    BY <2>1, <2>6, <2>12 DEF SendReply, HandlerLeft
  <2>13. CASE ResetArrives \/ ReceiveEnd \/ ReceiveError \/ SendFails \/ BrokenPipe
    BY <2>1, <2>13 DEF ResetArrives, ReceiveEnd, ReceiveError, SendFails, BrokenPipe
  <2> QED BY <1>1, <2>7, <2>8, <2>9, <2>10, <2>11, <2>12, <2>13
          DEF Next, ClientStep, HandlerStep
<1> QED BY <1>1, InvariantHolds, PTL DEF Spec, ScriptProgress

=============================================================================
