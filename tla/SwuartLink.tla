----------------------------- MODULE SwuartLink -----------------------------
(***************************************************************************)
(* What the software UART promises to a device that answers requests over  *)
(* a half-duplex line (as the Diabolo bootloader does): the byte hw(read)  *)
(* returns is the byte the peer sent, each byte is returned once, and the  *)
(* peer receives the bytes given to hw(write), all of them and in order.   *)
(* The two never talk at once.                                             *)
(***************************************************************************)
EXTENDS Naturals, Sequences

CONSTANTS Bytes, None,
          MaxReply   \* the longest reply, in bytes

VARIABLES
  turn,   \* "quiet"; "asked": a request is on its way; "reply"
  line,   \* bytes that were sent and not received yet
  due,    \* bytes of the reply that the device has not sent yet
  got,    \* what hw(read) returned, while the application thinks about it
  heard   \* the byte the peer received last, until it sends another request

vars == <<turn, line, due, got, heard>>

Init == /\ turn = "quiet" /\ line = <<>> /\ due = 0
        /\ got = None /\ heard = None

\* The peer sends a request that calls for n bytes.
Ask(b, n) == /\ turn = "quiet"
             /\ turn' = "asked" /\ line' = <<b>> /\ due' = n
             /\ heard' = None
             /\ UNCHANGED got

\* hw(read, UART) returns it.
Read == /\ turn = "asked"
        /\ turn' = "reply" /\ got' = Head(line) /\ line' = Tail(line)
        /\ UNCHANGED <<due, heard>>

\* The application calls hw(write, UART, b).
Answer(b) == /\ turn = "reply" /\ due > 0
             /\ line' = Append(line, b) /\ due' = due - 1 /\ got' = None
             /\ UNCHANGED <<turn, heard>>

\* The peer receives a byte; the last one ends the exchange.
Hear == /\ turn = "reply" /\ line # <<>>
        /\ heard' = Head(line) /\ line' = Tail(line)
        /\ turn' = IF due = 0 /\ line' = <<>> THEN "quiet" ELSE "reply"
        /\ UNCHANGED <<due, got>>

Next == \/ Read \/ Hear
        \/ \E b \in Bytes : Answer(b) \/ \E n \in 1..MaxReply : Ask(b, n)

Spec == Init /\ [][Next]_vars
=============================================================================
