------------------------------ MODULE Diabolo ------------------------------
(***************************************************************************)
(* The firmware of the Diabolo bootloader, in a device with a boot section *)
(* (src/atmel/avr/examples/diabolo/firmware/diabolo-atmelavr.sx), with the *)
(* memories it programs and its serial line.                               *)
(*                                                                         *)
(* A token stands for a command byte, or for the consecutive bytes of one  *)
(* field: an address (with the count of an EEPROM command), data, a CRC.   *)
(* A CRC is represented by what it is computed from: two CRCs are equal    *)
(* only if their data are, and none is made of two equal bytes.  The UART  *)
(* of the bootloader has neither buffer nor interrupt: what arrives while  *)
(* the device is busy is lost.                                             *)
(***************************************************************************)
EXTENDS Naturals, Sequences

CONSTANTS
  Pages, Blank, Data,  \* pages of the application, 0xFF bytes, contents
  Torn,                \* content of a page whose programming failed
  None,                \* nothing
  OldApp, NewApp,      \* the application in the device and the new one
  EECRC, EEPCNT        \* addresses in EEPROM: application CRC, programmings count

BlankApp == [p \in Pages |-> Blank]

ASSUME DiaboloAssumption ==
  /\ Blank \in Data /\ Torn \notin Data /\ None \notin Data
  /\ {OldApp, NewApp} \subseteq [Pages -> Data]
  /\ OldApp # NewApp /\ BlankApp \notin {OldApp, NewApp}
  /\ EECRC # EEPCNT

VARIABLES
  flash,    \* [Pages -> contents]
  cold,     \* EXTRF or PORF is set in MCUSR: only the application clears them
  rxlow,    \* the host holds RXD low
  pc,       \* what the firmware does
  rcvd,     \* tokens received since the prompt
  appcrc,   \* R3:R2, the CRC of the application that stat computed
  toDev,    \* tokens on their way to the device
  toHost    \* tokens on their way to the host, or in its receive buffer

device == <<flash, cold, rxlow, pc, rcvd, appcrc, toDev, toHost>>

-----------------------------------------------------------------------------
(* Tokens.                                                                 *)

Token(k, c, a, d) == [k |-> k, c |-> c, a |-> a, d |-> d]
Cmd(c)       == Token("cmd", c, None, None)
Addr(a)      == Token("addr", "none", a, None)
Bytes(d)     == Token("data", "none", None, d)
Crc(c, a, d) == Token("crc", c, a, d)      \* of command c, address a, data d
Code(c)      == Token("code", c, None, None)

Eol    == Cmd("eol")     \* '\n'
Prompt == Code("#")
Error  == Code("!")
Junk   == Token("junk", "none", None, None)   \* bytes received with errors

\* Number of tokens of a command; unknown ones are one token long.
CmdLen(t) == IF t.k # "cmd" THEN 1
             ELSE IF t.c \in {"F", "E"} THEN 4
             ELSE IF t.c \in {"f", "e", "X"} THEN 2
             ELSE 1

\* A slip for ImplementsUpdate to catch: what icrc returns is ignored.
CrcIgnored(r) == r[1].c = "F" => r[2].a \in Pages

\* Label icrc: the CRC received is the one of the tokens before it.
CrcOk(r) == IF r[1].c = "X" THEN r[2] = Crc("X", None, None)
            ELSE /\ r[2].k = "addr" /\ r[3].k = "data"
                 /\ r[4] = Crc(r[1].c, r[2].a, r[3].d)

-----------------------------------------------------------------------------
(* Memories.                                                               *)

\* Label eerd: AP_EEPE and AP_EERE name the position of EEMPE, so that EEPROM is
\* neither written nor read.  The two bytes "read" are the content of EEDR: twice
\* the same, which is no CRC.
EepromCrc == None

\* Label stat: the application has the CRC in EEPROM and is not all 0xFF.
CrcValid == EepromCrc = flash /\ flash # BlankApp

\* What the memory contains when a programming is interrupted.
Interrupted ==
  \/ /\ pc \in {"erase", "write"}
     /\ \E x \in {flash[rcvd[2].a], Torn, Blank}
               \cup (IF pc = "write" THEN {rcvd[3].d} ELSE {}) :
          flash' = [flash EXCEPT ![rcvd[2].a] = x]
  \/ pc \notin {"erase", "write"} /\ UNCHANGED flash

-----------------------------------------------------------------------------
(* The firmware.                                                           *)

Goto(state) == pc' = state /\ rcvd' = <<>>
Send(s)     == toHost' = toHost \o s

\* Any reset; low: the host holds RXD low.
Reset(low) ==
  /\ Interrupted
  /\ Goto("reset")
  /\ rxlow' = low
  /\ UNCHANGED appcrc

\* A slip for WholeRuns to catch: the CRC is not checked.
BootUnchecked ==
  /\ pc = "reset"
  /\ \/ ~ cold /\ Goto("app") /\ UNCHANGED appcrc
     \/ /\ cold /\ appcrc' = flash
        /\ Goto(IF ~ rxlow /\ flash # BlankApp THEN "app" ELSE "sync")
  /\ UNCHANGED <<flash, cold, rxlow, toDev, toHost>>

\* Label reset: without EXTRF nor PORF the application starts at once, as after a
\* brown-out or watchdog reset; else it starts if RXD did not remain low and its
\* CRC is valid.
Boot ==
  /\ pc = "reset"
  /\ \/ ~ cold /\ Goto("app") /\ UNCHANGED appcrc
     \/ /\ cold /\ appcrc' = flash
        /\ Goto(IF ~ rxlow /\ CrcValid THEN "app" ELSE "sync")
  /\ UNCHANGED <<flash, cold, rxlow, toDev, toHost>>

\* Label x: the CRC is computed again after an unknown command.
Stat ==
  /\ pc = "stat"
  /\ appcrc' = flash
  /\ Goto("error") /\ Send(<<Error>>)
  /\ UNCHANGED <<flash, cold, rxlow, toDev>>

\* The entry point from the application does not compute the CRC: R3:R2 hold
\* what the application left there.
EnterFromApp ==
  /\ pc = "app"
  /\ Goto("sync")
  /\ appcrc' = None
  /\ UNCHANGED <<flash, cold, rxlow, toDev, toHost>>

\* The application clears the flags of MCUSR.
ClearFlags ==
  /\ pc = "app" /\ cold
  /\ cold' = FALSE
  /\ UNCHANGED <<flash, rxlow, pc, rcvd, appcrc, toDev, toHost>>

\* The device executes the complete command r.
Execute(r) ==
  LET c == r[1].c
      Reply(a, d) == Goto("prompt") /\ Send(<<Bytes(d), Crc(c, a, d), Prompt>>)
      Refuse      == Goto("prompt") /\ Send(<<Code("crc"), Prompt>>)
  IN \/ c = "i" /\ Reply(None, appcrc)
     \/ c = "f" /\ Reply(r[2].a, IF r[2].a \in Pages THEN flash[r[2].a] ELSE None)
     \/ c = "e" /\ Reply(r[2].a, EepromCrc)
     \/ c \in {"F", "E"} /\ ~ CrcOk(r) /\ Refuse
     \/ c = "F" /\ CrcOk(r) /\ pc' = "erase" /\ rcvd' = r /\ UNCHANGED toHost
     \/ c = "E" /\ CrcOk(r) /\ Goto("prompt") /\ Send(<<Prompt>>)
     \/ c = "X" /\ CrcOk(r) /\ Goto("app") /\ Send(<<Code("ok")>>)
     \/ c = "X" /\ ~ CrcOk(r) /\ Goto("error") /\ Send(<<Error>>)

\* The device receives token t.
Receive(t) ==
  \/ /\ pc = "error"
     /\ IF t = Eol THEN Goto("prompt") /\ Send(<<Prompt>>)
                   ELSE Goto("error") /\ Send(<<Error>>)
  \/ LET r == Append(rcvd, t)
     IN /\ pc = "prompt"
        /\ IF r[1].k # "cmd" \/ r[1].c \in {"eol", "*"}
           THEN Goto("stat") /\ UNCHANGED toHost
           ELSE IF Len(r) < CmdLen(r[1])
                THEN pc' = pc /\ rcvd' = r /\ UNCHANGED toHost
                ELSE Execute(r)

\* A slip for TypeOK to catch: the address is not kept for the writing.
EraseForgets ==
  /\ pc = "erase"
  /\ flash' = [flash EXCEPT ![rcvd[2].a] = Blank]
  /\ Goto("write")
  /\ UNCHANGED <<cold, rxlow, appcrc, toDev, toHost>>

\* Label xF, after ibuf: the page is erased.
Erase ==
  /\ pc = "erase"
  /\ flash' = [flash EXCEPT ![rcvd[2].a] = Blank]
  /\ pc' = "write"
  /\ UNCHANGED <<cold, rxlow, rcvd, appcrc, toDev, toHost>>

\* The page is written, unless it is made of 0xFF, and verified.
Write(content) ==
  /\ pc = "write"
  /\ flash' = [flash EXCEPT ![rcvd[2].a] = content]
  /\ Send(<<Code(IF content = rcvd[3].d THEN "done" ELSE "fail"), Prompt>>)
  /\ Goto("prompt")
  /\ UNCHANGED <<cold, rxlow, appcrc, toDev>>

\* A token reaches the device: it is received if the device waits for it, and
\* may be lost if the device is still sending.
Deliver ==
  /\ toDev # <<>> /\ toDev' = Tail(toDev)
  /\ \/ Receive(Head(toDev))
     \/ /\ pc \notin {"error", "prompt"} \/ toHost # <<>>
        /\ UNCHANGED <<pc, rcvd, toHost>>
  /\ UNCHANGED <<flash, cold, rxlow, appcrc>>

DeviceStep == \/ Boot \/ Stat \/ Erase \/ Deliver
              \/ pc = "write" /\ Write(rcvd[3].d)
=============================================================================
