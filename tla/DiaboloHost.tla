---------------------------- MODULE DiaboloHost ----------------------------
(***************************************************************************)
(* The host program that updates the application of a device through the   *)
(* Diabolo bootloader (diabolo.py --burn-flash, devices.py and link.py),   *)
(* with an unreliable serial line, failing flash pages, power failures and *)
(* brown-outs, and a user who runs the program again until it reports that *)
(* the application started.                                                *)
(***************************************************************************)
EXTENDS Diabolo, FiniteSets

CONSTANTS
  Repeats,     \* attempts of a command: 4 in the code
  Resumes,     \* attempts to get the prompt: 256 in the code
  MaxTrouble   \* for either value of wired: a reset or a flash fault counts for 1,
               \* a line fault for 2

ASSUME HostAssumption ==
  /\ Pages \subseteq Nat /\ Pages # {}
  /\ None \notin [Pages -> Data \cup {Torn}]
  /\ Repeats \in Nat \ {0} /\ Resumes \in Nat

VARIABLES
  wired,    \* the host drives the reset pin, else the application enters Diabolo
  stage,    \* what run() is doing
  wait,     \* "idle": nothing | "resume": the reply to '\n' | "reply": the reply to cmd
            \*   | "done": the reception is over
  cmd,      \* the command being executed: [c, a, d]
  last,     \* link.lastchar
  got,      \* tokens of the reply
  repeat, resumes,    \* attempts left
  run,      \* what run() knows, a record:
            \*   appcrc, eeappcrc: the attributes of the device object
            \*   cache: contents of the pages read
            \*   todo: pages to read or to write; redo: pages to reprogram
            \*   changed: device.flash_changed
            \*   restarted: the device computed the CRC again
  trouble   \* what remains of MaxTrouble[wired]

host == <<stage, wait, cmd, last, got, repeat, resumes, run>>
vars == <<device, wired, host, trouble>>

-----------------------------------------------------------------------------
(* Commands and replies.                                                   *)

Command(c, a, d) == [c |-> c, a |-> a, d |-> d]
Identify == Command("i", None, None)

\* The tokens sent for command m.
Frame(m) ==
  CASE m.c \in {"i", "*"} -> <<Cmd(m.c)>>
    [] m.c = "X"          -> <<Cmd("X"), Crc("X", None, None)>>
    [] m.c \in {"f", "e"} -> <<Cmd(m.c), Addr(m.a)>>
    [] OTHER -> <<Cmd(m.c), Addr(m.a), Bytes(m.d), Crc(m.c, m.a, m.d)>>

\* The number of tokens to wait for: 1000 bytes after 'i', that is, until the
\* line is quiet.
ReplyLen == CASE cmd.c = "i"          -> 99
              [] cmd.c \in {"f", "e"} -> 3
              [] cmd.c = "F"          -> 2
              [] OTHER                -> 1

\* The last byte of a token.
LastChar(t) == IF t.k = "code" THEN t.c ELSE "other"

\* execute() returns the reply: the prompt ends it, with a valid CRC if it has one.
GoodReply ==
  /\ last = "#"
  /\ cmd.c \in {"i", "f", "e"} =>
       /\ Len(got) = 3 /\ got[1].k = "data"
       /\ got[2] = Crc(cmd.c, cmd.a, got[1].d)

\* write_flash_page(): a void reply raises an exception.
FlashReply == got # <<>> /\ got # <<Prompt>>
Changed    == got[1] \in {Code("done"), Code("ok")}
Failed     == got[1] \in {Code("crc"), Code("fail")}

-----------------------------------------------------------------------------
(* Steps of the host.                                                      *)

Fresh == [appcrc |-> None, eeappcrc |-> None, cache |-> [p \in Pages |-> None],
          todo |-> {}, redo |-> {}, changed |-> FALSE, restarted |-> FALSE]

\* Go on with command m at stage s, knowing r.
Go(s, m, r) ==
  /\ stage' = s /\ cmd' = m /\ run' = r
  /\ wait' = "idle" /\ got' = <<>>
  /\ repeat' = (IF m.c = "F" THEN 1 ELSE Repeats) /\ resumes' = Resumes

Die == Go("off", Identify, Fresh)

Working == stage \notin {"off", "sync", "started"}
Quiet   == /\ toDev = <<>> /\ toHost = <<>>
           /\ pc \notin {"erase", "write"}
           /\ pc \in {"stat", "reset"} => cmd.c # "*" /\ resumes > 1
\* (stat ends before the attempts of resume(), or the wait of one second after
\* '*', are exhausted.)

\* The user runs the program: it resets the device with RXD held low, if the
\* reset pin is wired.
Run ==
  /\ stage = "off"
  /\ IF wired THEN Reset(TRUE) /\ cold' = TRUE
              ELSE UNCHANGED <<flash, cold, rxlow, pc, rcvd, appcrc>>
  /\ toDev' = <<>> /\ toHost' = <<>>
  /\ Go("sync", Identify, Fresh) /\ last' = "none"
  /\ UNCHANGED <<trouble>>

\* link.sync(): the device measures the bit duration and sends '!'.  A device that
\* was not reset and is still in the dialogue sends it for the bytes it does not
\* expect, after computing the CRC if it was at the prompt.
Sync ==
  /\ stage = "sync"
  /\ \/ pc = "sync" /\ UNCHANGED appcrc
     \/ ~ wired /\ pc = "error" /\ UNCHANGED appcrc
     \/ ~ wired /\ pc = "prompt" /\ appcrc' = flash
  /\ Goto("error") /\ last' = "!"
  /\ Go("identify", Identify, Fresh)
  /\ toDev' = <<>> /\ toHost' = <<>>
  /\ UNCHANGED <<flash, cold, rxlow, trouble>>

\* The application runs: the synchronization fails.
SyncFails ==
  /\ stage = "sync" /\ pc = "app"
  /\ Die
  /\ UNCHANGED <<device, last, trouble>>

\* resume(): ask for the prompt unless it is the last character received.
Resume ==
  /\ Working /\ wait = "idle" /\ last # "#"
  /\ IF resumes = 0
     THEN Die /\ UNCHANGED <<last, toDev>>
     ELSE /\ last' = (IF last = "!" THEN "none" ELSE last)
          /\ toDev' = toDev \o <<Eol>>
          /\ wait' = "resume" /\ resumes' = resumes - 1
          /\ UNCHANGED <<stage, cmd, got, repeat, run>>
  /\ UNCHANGED <<flash, cold, rxlow, pc, rcvd, appcrc, toHost, trouble>>

\* The prompt is there: send the command.
SendCommand ==
  /\ Working /\ wait = "idle" /\ last = "#"
  /\ last' = "none" /\ got' = <<>> /\ wait' = "reply"
  /\ toDev' = toDev \o Frame(cmd)
  /\ UNCHANGED <<flash, cold, rxlow, pc, rcvd, appcrc, toHost,
                 stage, cmd, repeat, resumes, run, trouble>>

\* rx(): a token of the reply.
Rx ==
  /\ toHost # <<>> /\ toHost' = Tail(toHost)
  /\ last' = LastChar(Head(toHost))
  /\ \/ /\ wait = "resume"
        /\ wait' = "idle" /\ UNCHANGED got
     \/ /\ wait = "reply" /\ Len(got) < ReplyLen
        /\ got' = Append(got, Head(toHost))
        /\ wait' = IF Len(got') = ReplyLen THEN "done" ELSE wait
  /\ UNCHANGED <<flash, cold, rxlow, pc, rcvd, appcrc, toDev,
                 stage, cmd, repeat, resumes, run, trouble>>

Timeout ==
  /\ Quiet
  /\ \/ wait = "resume" /\ wait' = "idle"
     \/ wait = "reply" /\ wait' = "done"
  /\ UNCHANGED <<device, stage, cmd, last, got, repeat, resumes, run, trouble>>

\* execute(): no prompt at the end of the reply, or CRC error.
Retry ==
  /\ wait = "done" /\ ~ GoodReply /\ cmd.c \notin {"*", "X"}
  /\ IF repeat = 1
     THEN Die
     ELSE /\ repeat' = repeat - 1 /\ resumes' = Resumes /\ wait' = "idle"
          /\ UNCHANGED <<stage, cmd, got, run>>
  /\ UNCHANGED <<device, last, trouble>>

-----------------------------------------------------------------------------
(* The program, from one reply to the next command.                        *)

Read(p)    == Command("f", p, None)
Burn(p, d) == Command("F", p, d)
StoreCrc   == Command("E", EECRC, NewApp)
Recompute  == Command("*", None, None)
First(S)   == CHOOSE p \in S : \A q \in S : p <= q

\* A slip for Programmed to catch: the CRCs are not compared.
FinishAnyway(r) == Go("start", Command("X", None, None), r)

\* The end of the program: the application is started if its CRC is valid.
Finish(r) == IF r.appcrc = r.eeappcrc /\ r.appcrc # BlankApp
             THEN Go("start", Command("X", None, None), r)
             ELSE Die

\* What is to be done next, knowing r: write a page, or see to one that failed, or
\* increment the programmings count, or store the CRC, or finish.
NextWrite(r) ==
  IF r.todo # {} THEN Go("write", Burn(First(r.todo), NewApp[First(r.todo)]), r)
  ELSE IF r.redo # {} THEN Go("redo", Read(First(r.redo)), r)
  ELSE IF r.changed THEN Go("pgmcount", Command("E", EEPCNT, None), r)
  ELSE IF r.eeappcrc # NewApp THEN Go("crc", StoreCrc, r)
  ELSE Finish(r)

\* A slip for Recovers to catch: the CRC is stored only with new pages.
CompareOnly(r) ==
  LET differ == {p \in Pages : r.cache[p] # NewApp[p]}
      s      == [r EXCEPT !.cache = Fresh.cache, !.todo = differ]
  IN IF differ # {} THEN NextWrite(s) ELSE Finish(s)

\* All pages are read.
Compare(r) ==
  LET differ == {p \in Pages : r.cache[p] # NewApp[p]}
      s      == [r EXCEPT !.cache = Fresh.cache, !.todo = differ]
  IN IF differ # {} THEN NextWrite(s)
     ELSE IF s.eeappcrc # NewApp THEN Go("onlycrc", StoreCrc, s)
     ELSE Finish(s)

\* (The reply to 'f' is 256 bytes, never equal to the 64 or 128 bytes of a page:
\* a page that failed is found not virgin, and again once it is erased, and the
\* reprogramming of failed pages is given up.)
Accept ==
  LET p == cmd.a
      d == got[1].d
  IN
  /\ wait = "done" /\ GoodReply /\ cmd.c \notin {"*", "X"}
  /\ UNCHANGED <<device, last, trouble>>
  /\ \/ /\ stage = "identify"
        /\ Go("eecrc", Command("e", EECRC, None), [run EXCEPT !.appcrc = d])
     \/ /\ stage = "eecrc"
        /\ Go("eepcnt", Command("e", EEPCNT, None), [run EXCEPT !.eeappcrc = d])
     \/ /\ stage = "eepcnt"
        /\ IF run.restarted THEN Finish(run)
           ELSE Go("read", Read(First(Pages)), [run EXCEPT !.todo = Pages])
     \/ /\ stage = "read"
        /\ LET r == [run EXCEPT !.cache[p] = d, !.todo = @ \ {p}]
           IN IF r.todo # {} THEN Go("read", Read(First(r.todo)), r) ELSE Compare(r)
     \/ /\ stage \in {"write", "erase"} /\ ~ FlashReply
        /\ Die
     \/ /\ stage = "write" /\ FlashReply
        /\ NextWrite([run EXCEPT !.todo = @ \ {p}, !.changed = @ \/ Changed,
                              !.redo = IF Failed THEN @ \cup {p} ELSE @])
     \/ /\ stage = "redo"
        /\ Go("erase", Burn(p, Blank), run)
     \/ /\ stage = "erase" /\ FlashReply
        /\ Go("erased", Read(p), [run EXCEPT !.changed = @ \/ Changed])
     \/ /\ stage = "erased"
        /\ NextWrite([run EXCEPT !.redo = {}])
     \/ /\ stage = "pgmcount"
        /\ IF run.eeappcrc # NewApp THEN Go("crc", StoreCrc, run)
                                    ELSE Go("stat", Recompute, run)
     \/ /\ stage = "crc"
        /\ Go("stat", Recompute, [run EXCEPT !.eeappcrc = NewApp])
     \/ /\ stage = "onlycrc"
        /\ Finish([run EXCEPT !.eeappcrc = NewApp])

\* The reply to '*': '\n' gets the prompt back, then the device is identified again.
Restart ==
  /\ wait = "done" /\ stage = "stat"
  /\ IF got = <<Error>> THEN Go("identify", Identify, [run EXCEPT !.restarted = TRUE])
                        ELSE Die
  /\ UNCHANGED <<device, last, trouble>>

\* start_application(): '\0' is expected.
Started ==
  /\ wait = "done" /\ stage = "start"
  /\ IF got = <<Code("ok")>> THEN Go("started", Identify, Fresh) ELSE Die
  /\ UNCHANGED <<device, last, trouble>>

-----------------------------------------------------------------------------
(* What may go wrong.                                                      *)

Fault(n) == trouble >= n /\ trouble' = trouble - n /\ UNCHANGED <<wired, host>>

Codes == {Code(c) : c \in {"done", "fail", "crc", "ok", "#", "!", "other"}}
Altered(t) == (CASE t.k = "cmd"  -> {Cmd(c) : c \in {"i", "f", "e", "F", "E", "X", "eol", "*"}}
                 [] t.k = "code" -> Codes
                 [] OTHER        -> {Junk}) \ {t}

\* A token is lost or altered on the line.
LineFault ==
  /\ Fault(2)
  /\ UNCHANGED <<flash, cold, rxlow, pc, rcvd, appcrc>>
  /\ \/ toDev # <<>> /\ toDev' = Tail(toDev) /\ UNCHANGED toHost
     \/ toHost # <<>> /\ toHost' = Tail(toHost) /\ UNCHANGED toDev
     \/ /\ toDev # <<>> /\ UNCHANGED toHost
        /\ \E x \in Altered(Head(toDev)) : toDev' = <<x>> \o Tail(toDev)
     \/ /\ toHost # <<>> /\ UNCHANGED toDev
        /\ \E x \in Altered(Head(toHost)) : toHost' = <<x>> \o Tail(toHost)

\* The verification of a page that was written fails.
FlashFault == Fault(1) /\ Write(Torn)

\* The device loses its power, or is reset by the brown-out detector or the
\* watchdog, which leaves EXTRF and PORF as they are; what it was sending is lost.
PowerFailure ==
  /\ Fault(1)
  /\ Reset(FALSE)
  /\ cold' = TRUE \/ UNCHANGED cold
  /\ \E n \in 0..Len(toHost) : toHost' = SubSeq(toHost, 1, n)
  /\ UNCHANGED toDev

-----------------------------------------------------------------------------
Init ==
  /\ wired \in BOOLEAN
  /\ flash \in {OldApp, BlankApp, NewApp} /\ cold \in BOOLEAN
  /\ pc \in {"reset", "app"} /\ rxlow = FALSE /\ rcvd = <<>> /\ appcrc = None
  /\ pc = "reset" => cold
  /\ pc = "app" => flash # BlankApp
  /\ toDev = <<>> /\ toHost = <<>>
  /\ stage = "off" /\ wait = "idle" /\ cmd = Identify /\ last = "none" /\ got = <<>>
  /\ repeat = Repeats /\ resumes = Resumes
  /\ run = Fresh
  /\ trouble = MaxTrouble[wired]

DeviceRuns == DeviceStep /\ UNCHANGED <<wired, host, trouble>>
AppRuns    == (EnterFromApp \/ ClearFlags) /\ UNCHANGED <<wired, host, trouble>>
HostRuns   == /\ \/ Run \/ Sync \/ SyncFails \/ Resume \/ SendCommand \/ Rx \/ Timeout
                 \/ Retry \/ Accept \/ Restart \/ Started
              /\ UNCHANGED wired

Next == DeviceRuns \/ AppRuns \/ HostRuns \/ LineFault \/ FlashFault \/ PowerFailure

Spec == Init /\ [][Next]_vars /\ WF_vars(DeviceRuns) /\ WF_vars(HostRuns)

-----------------------------------------------------------------------------
(* Properties.                                                             *)

Contents == Data \cup {Torn}

\* The variables have their types; the command of the page being programmed is
\* there until the programming is over.
TypeOK ==
  /\ flash \in [Pages -> Contents]
  /\ appcrc \in [Pages -> Contents] \cup {None}
  /\ cold \in BOOLEAN /\ wired \in BOOLEAN
  /\ pc \in {"reset", "sync", "error", "prompt", "erase", "write", "stat", "app"}
  /\ pc \in {"erase", "write"} => Len(rcvd) = 4
  /\ wait \in {"idle", "resume", "reply", "done"}
  /\ resumes \in 0..Resumes /\ repeat \in 0..Repeats
  /\ run.redo \subseteq Pages /\ run.todo \subseteq Pages

\* The host reports that the application started only if the flash memory
\* contains the new application, whatever the faults.
Programmed == stage = "started" => flash = NewApp

\* README.md of Diabolo: "validity of application code and communication messages
\* are checked with a 16-bit CRC".  What runs is the whole old or new application,
\* never one that is partly programmed.  This holds if the host resets the device:
\* a programming starts with EXTRF set, and no later reset skips the checks.  (If the
\* application enters Diabolo, it may have cleared EXTRF and PORF, and a brown-out
\* during the programming starts what there is.)
WholeRuns == wired /\ pc = "app" => flash \in {OldApp, NewApp}

\* The updates are done as DiaboloUpdate promises: a page is given its new content
\* or loses the former one, while no application runs, whatever is received; and
\* only after an application cleared the flags of MCUSR does an application that is
\* not whole run.
Running == IF pc = "app" THEN flash ELSE None
Update == INSTANCE DiaboloUpdate WITH
            memory <- flash, running <- Running, cleared <- ~ cold
ImplementsUpdate == Update!Spec

\* A line that failed, pages that failed or lost power never leave a device that
\* cannot be programmed: once faults are over, running the program again and again
\* ends with the new application started.
Recovers == wired => <>[](stage = "started" /\ flash = NewApp)
=============================================================================
