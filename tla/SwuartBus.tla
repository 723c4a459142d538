------------------------------ MODULE SwuartBus ------------------------------
(***************************************************************************)
(* The software UART, an application that calls it and a peer on the line. *)
(*                                                                         *)
(* mode.polite: the peer sends one byte, then listens until it has all of  *)
(* the reply (the master of src/atmel/avr/examples/diabolo); the           *)
(* application reads a byte, then writes the bytes of the reply (examples  *)
(* 05-2, 07-1, 08-1, 09-1).  Otherwise the peer transmits when it wants,   *)
(* and the application calls any function of the UART at any time.         *)
(***************************************************************************)
EXTENDS Swuart

CONSTANTS None, Listening,   \* no byte; the peer waits for a start bit
          MaxReply           \* the longest reply, in bytes

ASSUME ReplyAssumption == MaxReply \in Nat \ {0}

VARIABLES
  ear,    \* the peer's receiver: None, Listening, or a frame being sampled
  app,    \* the polite application: "reading" a request, "writing" a reply
  sent,   \* bytes sent by either side and not received yet
  due,    \* bytes of the reply the application has not written yet
  got,    \* what hw(read) returned to the application
  heard   \* what the peer received

vars == <<uart, ear, app, sent, due, got, heard>>
exchange == <<app, sent, due, got, heard>>

Sampling == [bits : UNION {[1..n -> Bit] : n \in 0..NB}, toSample : 1..dt0]

ASSUME EarAssumption ==
  None # Listening /\ None \notin Sampling /\ Listening \notin Sampling

-----------------------------------------------------------------------------
(* The application.                                                        *)

Read == /\ app = "reading"
        /\ CallGet
        /\ UNCHANGED <<ear, exchange>>

Write(b) == /\ app = "writing"
            /\ CallPut(b)
            /\ sent' = Append(sent, b)
            /\ due' = due - 1 /\ got' = None
            /\ app' = IF due = 1 THEN "reading" ELSE "writing"
            /\ UNCHANGED <<ear, heard>>

AnyCall == /\ app = "any"
           /\ CallGet \/ Clear \/ \E b \in Byte : CallPut(b)
           /\ UNCHANGED <<ear, exchange>>

Wait == /\ GetWait \/ GetClear \/ PutWait \/ PutSlot \/ PutOff
        /\ UNCHANGED <<ear, exchange>>

\* getbyte returns: the request has arrived.
Return == /\ GetLoad
          /\ IF app = "any" THEN UNCHANGED exchange
             ELSE /\ app' = "writing" /\ got' = data
                  /\ sent' = IF sent = <<>> THEN <<>> ELSE Tail(sent)
                  /\ UNCHANGED <<due, heard>>
          /\ UNCHANGED ear

\* putbyte sends the start bit: a peer that listens sees it.
Start == /\ PutStart
         /\ ear' = IF ear = Listening THEN [bits |-> <<>>, toSample |-> dt0] ELSE ear
         /\ UNCHANGED exchange

Interrupt == Handlers /\ UNCHANGED <<ear, exchange>>

-----------------------------------------------------------------------------
(* The peer.                                                               *)

\* A request that calls for n bytes.
Ask(b, n) == /\ mode.polite /\ ear = None
             /\ PeerStart(b)
             /\ ear' = Listening
             /\ sent' = <<b>> /\ due' = n /\ heard' = None
             /\ UNCHANGED <<app, got>>

Disturb(b) == /\ ~ mode.polite
              /\ PeerStart(b)
              /\ UNCHANGED <<ear, exchange>>

\* The peer has sampled the stop bit: 1, or the byte is lost.
Hear == IF Txd = 0 THEN ear' = Listening /\ UNCHANGED <<sent, heard>>
        ELSE /\ heard' = ear.bits
             /\ sent' = IF sent = <<>> THEN <<>> ELSE Tail(sent)
             /\ ear' = IF due = 0 /\ sent' = <<>> THEN None ELSE Listening

\* Half a bit later; the peer samples the line in the middle of its bits.
Tick ==
  /\ Elapse
  /\ UNCHANGED <<app, due, got>>
  /\ IF ear \in {None, Listening} THEN UNCHANGED <<ear, sent, heard>>
     ELSE IF ear.toSample > 1
     THEN ear' = [ear EXCEPT !.toSample = @ - 1] /\ UNCHANGED <<sent, heard>>
     ELSE IF Len(ear.bits) < NB
     THEN /\ ear' = [bits |-> Append(ear.bits, Txd), toSample |-> dtn]
          /\ UNCHANGED <<sent, heard>>
     ELSE Hear

Init == /\ UartInit
        /\ ear = None /\ app = IF mode.polite THEN "reading" ELSE "any"
        /\ sent = <<>> /\ due = 0 /\ got = None /\ heard = None

Device == Wait \/ Return \/ Start
Next == \/ Read \/ AnyCall \/ Device \/ Interrupt \/ Tick
        \/ \E b \in Byte : \/ Write(b) \/ Disturb(b)
                           \/ \E n \in 1..MaxReply : Ask(b, n)

Spec == Init /\ [][Next]_vars

(* Time passes, the handlers run, and the processor goes on with the        *)
(* function that was called; a polite application calls hw(read) again.     *)
FairSpec == /\ Spec
            /\ WF_vars(Tick) /\ WF_vars(Interrupt) /\ WF_vars(Device)
            /\ WF_vars(Read)

-----------------------------------------------------------------------------
(* Properties.                                                             *)

TypeOK == /\ UartTypeOK
          /\ ear \in {None, Listening} \cup Sampling
          /\ app \in {"reading", "writing", "any"} /\ due \in 0..MaxReply
          /\ sent \in Seq(Byte) /\ Len(sent) <= MaxReply
          /\ {got, heard} \subseteq Byte \cup {None}

(* swuarta.sx 257, 483, 627, 709: listening is given up at the start of a   *)
(* frame and taken up again at its end.  At every moment the UART is        *)
(* listening, in a frame, or about to send: it is never deaf for good.      *)
NeverDeaf == startIE \/ matchIE \/ main.pc = "put_start"

(* swuarta.sx 693-697: "WBTX is needed between end of reception and         *)
(* beginning of transmission since the stop bit is sampled before the end   *)
(* of its slot."  The device never starts a frame while the frame of a      *)
(* polite peer, stop bit included, is on the line, and never while the peer *)
(* is not ready for it.                                                     *)
NoOverlap ==
  [][mode.polite /\ At("put_start") /\ ~ At("put_start")' =>
       out = <<>> /\ ear = Listening]_vars

(* With a polite peer every request is read once and unchanged, and every   *)
(* byte of the reply is received unchanged and in order: SwuartLink.        *)
Turn == CASE ear = None -> "quiet"
          [] ear # None /\ app = "reading" /\ due > 0 -> "asked"
          [] OTHER -> "reply"

Link == INSTANCE SwuartLink WITH turn <- Turn, line <- sent, Bytes <- Byte
ImplementsLink == Link!Spec

(* A polite exchange goes on: a request is read, and once the application   *)
(* has written all of its reply the reply gets through.                     *)
Answers == /\ Turn = "asked" ~> Turn = "reply"
           /\ (Turn = "reply" /\ due = 0) ~> Turn = "quiet"

(* The frame the UART is in comes to an end, whatever is on the line and    *)
(* whatever the status byte holds.                                          *)
FrameEnds == matchIE ~> ~ matchIE

(* swuarta_2.h 69-70: "transmissions are delayed (i.e.                      *)
(* hw(write,swuart0,data) blocks) until a reception is completed once it    *)
(* has started".                                                            *)
TransmissionDelayed ==
  [][At("put_start") /\ ~ At("put_start")' => ~ matchIE]_vars
=============================================================================
