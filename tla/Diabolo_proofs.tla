--------------------------- MODULE Diabolo_proofs ---------------------------
(***************************************************************************)
(* Proofs about the Diabolo bootloader and its host, for any application,  *)
(* any number of attempts and of faults.                                   *)
(***************************************************************************)
EXTENDS DiaboloHost, SequenceTheorems, WellFoundedInduction, TLAPS

-----------------------------------------------------------------------------
(* What the variables contain, whatever the faults.                        *)

Addrs  == Pages \cup {EECRC, EEPCNT, None}
Values == Contents \cup {None} \cup [Pages -> Contents]
Kinds   == {"cmd", "addr", "data", "crc", "code", "junk"}
Letters == {"i", "f", "e", "F", "E", "X", "eol", "*", "none", "done", "fail", "crc", "ok",
            "#", "!", "other"}
Tokens  == [k : Kinds, c : Letters, a : Addrs, d : Values]

\* The CRCs of the host: a page is given its new content or is erased.  A fault
\* does not make one.
HostCrc(t) ==
  t.k = "crc" /\ t.c = "F" => t.a \in Pages /\ t.d \in {NewApp[t.a], Blank}

DevTokens == {t \in Tokens : HostCrc(t)}

Runs == [appcrc : Values, eeappcrc : Values, cache : [Pages -> Values],
         todo : SUBSET Pages, redo : SUBSET Pages,
         changed : BOOLEAN, restarted : BOOLEAN]

\* The command of each stage.
StageCmd(s, m) ==
  \/ s \in {"off", "sync", "identify", "started"} /\ m = Identify
  \/ s = "eecrc"    /\ m = Command("e", EECRC, None)
  \/ s = "eepcnt"   /\ m = Command("e", EEPCNT, None)
  \/ s \in {"read", "redo", "erased"} /\ \E p \in Pages : m = Read(p)
  \/ s = "write"    /\ \E p \in Pages : m = Burn(p, NewApp[p])
  \/ s = "erase"    /\ \E p \in Pages : m = Burn(p, Blank)
  \/ s = "pgmcount" /\ m = Command("E", EEPCNT, None)
  \/ s \in {"crc", "onlycrc"} /\ m = StoreCrc
  \/ s = "stat"     /\ m = Recompute
  \/ s = "start"    /\ m = Command("X", None, None)

Pcs == {"reset", "sync", "error", "prompt", "erase", "write", "stat", "app"}

\* What is being programmed is in the command received; a command is executed
\* as soon as it is complete.
Programming ==
  /\ pc = "prompt" /\ rcvd # <<>> => Len(rcvd) < CmdLen(rcvd[1])
  /\ pc \in {"erase", "write"} =>
       Len(rcvd) = 4 /\ rcvd[2].a \in Pages /\ rcvd[3].d \in {NewApp[rcvd[2].a], Blank}

DeviceOK == /\ flash \in [Pages -> Contents] /\ cold \in BOOLEAN
            /\ Programming /\ pc \in Pcs
            /\ appcrc \in [Pages -> Contents] \cup {None}
            /\ rcvd \in Seq(DevTokens)

LineOK == toDev \in Seq(DevTokens) /\ toHost \in Seq(Tokens)

HostOK == /\ StageCmd(stage, cmd) /\ run \in Runs /\ got \in Seq(Tokens)
          /\ wait \in {"idle", "resume", "reply", "done"}
          /\ resumes \in 0 .. Resumes /\ repeat \in 1 .. Repeats

TypeInv == DeviceOK /\ LineOK /\ HostOK

-----------------------------------------------------------------------------
(* What host and device know of each other on a line without faults.       *)

\* Received and still to come are the first elements of f, or all of them.
Part(f, s, t) == /\ Len(s) + Len(t) <= Len(f)
                 /\ \A i \in 1 .. Len(s) : s[i] = f[i]
                 /\ \A i \in 1 .. Len(t) : t[i] = f[Len(s) + i]

Whole(f, s, t) == Part(f, s, t) /\ Len(s) + Len(t) = Len(f)

\* The device is out of the dialogue until the host resets it.
Away == pc \in {"reset", "sync", "app"}

\* What a CRC or a page that the device reports must be.
Truthful(d) ==
  /\ stage = "identify" /\ run.restarted => d # None
  /\ stage = "eecrc"    => d = EepromCrc
  /\ stage = "read"     => d = flash[cmd.a]

\* The replies of the device to the command.
Replies ==
  CASE cmd.c \in {"i", "f", "e"} ->
         {<<Bytes(d), Crc(cmd.c, cmd.a, d), Prompt>> : d \in {v \in Values : Truthful(v)}}
    [] cmd.c = "F" -> {<<Code("done"), Prompt>>, <<Code("fail"), Prompt>>}
    [] cmd.c = "E" -> {<<Prompt>>}
    [] cmd.c = "X" -> {<<Code("ok")>>}
    [] OTHER       -> {<<Error>>}

Ready == /\ toDev = <<>> /\ toHost = <<>> /\ rcvd = <<>>
         /\ pc = IF last = "#" THEN "prompt" ELSE "error"

Resuming == /\ rcvd = <<>>
            /\ \/ toDev = <<Eol>> /\ toHost = <<>> /\ pc = "error"
               \/ toDev = <<>> /\ toHost = <<Prompt>> /\ pc = "prompt"

Sending == /\ pc = "prompt" /\ toHost = <<>> /\ got = <<>> /\ toDev # <<>>
           /\ Whole(Frame(cmd), rcvd, toDev)

Executing == /\ toDev = <<>> /\ toHost = <<>> /\ got = <<>>
             /\ \/ pc \in {"erase", "write"} /\ cmd.c = "F" /\ rcvd = Frame(cmd)
                \/ pc = "stat" /\ cmd = Recompute /\ rcvd = <<>>

Replying == /\ toDev = <<>> /\ rcvd = <<>> /\ cmd.c # "X"
            /\ pc = IF cmd.c = "*" THEN "error" ELSE "prompt"
            /\ cmd.c = "*" => appcrc # None
            /\ \E r \in Replies : Whole(r, got, toHost)

InStep == /\ wait = "idle"   => Ready
          /\ wait = "resume" => Resuming
          /\ wait = "reply"  => Sending \/ Executing \/ Replying
          /\ wait = "done"   => Replying

Alone == /\ wait = "idle"   => toHost = <<>>
         /\ wait = "resume" => toHost \in {<<>>, <<Prompt>>}
         /\ wait \in {"reply", "done"} =>
              \/ got = <<>> /\ toHost = <<>>
              \/ \E r \in Replies : Part(r, got, toHost)

Dialogue == /\ Working => IF Away THEN Alone ELSE InStep
            /\ ~ Working => wait = "idle"
            /\ wait = "done" => toHost = <<>>
            /\ wait \in {"reply", "done"} =>
                 last = IF got = <<>> THEN "none" ELSE LastChar(got[Len(got)])

\* Stages where the host has read the CRC in EEPROM, and not stored the new one.
Reading == {"eepcnt", "read", "write", "redo", "erase", "erased", "pgmcount", "crc"}

\* Where the device is when the host is not in a dialogue with it, or has just begun.
Apart ==
  /\ stage \in {"off", "sync"} => Away \/ (toDev = <<>> /\ pc \in {"error", "prompt"})
  /\ stage = "started" => Away
  /\ stage = "identify" /\ run.restarted /\ ~ Away => appcrc # None

\* What the host concluded, at stage s knowing r, is still true of the memory.
Founded(s, r) ==
  /\ s \in {"eecrc", "eepcnt"} /\ r.restarted => r.appcrc # None
  /\ s \in Reading => r.eeappcrc = None
  /\ s = "read"    => \A p \in Pages \ r.todo : r.cache[p] = flash[p]
  /\ s \in {"onlycrc", "start", "started"} => flash = NewApp
  /\ r.restarted   => s \in {"identify", "eecrc", "eepcnt"}

Known == Founded(stage, run)

IInv == TypeInv /\ Dialogue /\ Apart /\ Known

-----------------------------------------------------------------------------
(* Pages and sequences.                                                    *)

LEMMA Smallest ==
  ASSUME NEW S \in SUBSET Nat, S # {}
  PROVE  \E p \in S : \A q \in S : p <= q
  <1> DEFINE R == OpToRel(<, Nat)
  <1>1. \A i, j \in Nat : <<i, j>> \in R <=> i < j
    BY DEF OpToRel
  <1>2. IsWellFoundedOn(R, Nat)
    BY NatLessThanWellFounded
  <1> HIDE DEF R
  <1>3. PICK i \in S : \A j \in S : ~ (<<j, i>> \in R)
    BY <1>2, WFMin
  <1>4. \A j \in S : ~ (j < i)
    BY <1>1, <1>3
  <1> QED
    BY <1>3, <1>4, SMT

LEMMA FirstIn ==
  ASSUME NEW S \in SUBSET Pages, S # {}
  PROVE  First(S) \in S
  <1>1. S \in SUBSET Nat
    BY HostAssumption
  <1> QED
    BY <1>1, Smallest DEF First

\* A token that arrives moves from what is to come to what was received.
LEMMA PartMoves ==
  ASSUME NEW S, NEW f \in Seq(S), NEW s \in Seq(S), NEW t \in Seq(S), t # <<>>,
         Part(f, s, t)
  PROVE  /\ Part(f, Append(s, Head(t)), Tail(t))
         /\ Len(Append(s, Head(t))) = Len(s) + 1
         /\ Len(Tail(t)) = Len(t) - 1
         /\ Head(t) = f[Len(s) + 1]
  <1> DEFINE u == Append(s, Head(t))
             v == Tail(t)
  <1>1. /\ Head(t) = t[1] /\ t[1] \in S /\ v \in Seq(S) /\ Len(v) = Len(t) - 1
        /\ \A i \in 1 .. Len(v) : v[i] = t[i + 1]
        /\ Len(t) \in Nat \ {0} /\ Len(s) \in Nat /\ Len(f) \in Nat
    BY HeadTailProperties, ElementOfSeq, LenProperties, EmptySeq
  <1>2. /\ Len(u) = Len(s) + 1
        /\ \A i \in 1 .. Len(s) : u[i] = s[i]
        /\ u[Len(s) + 1] = t[1]
    BY <1>1, AppendProperties
  <1> HIDE DEF u, v
  <1>3. Head(t) = f[Len(s) + 1]
    BY <1>1 DEF Part
  <1>4. Part(f, u, v)
    BY <1>1, <1>2, <1>3, SMT DEF Part
  <1> QED
    BY <1>1, <1>2, <1>3, <1>4 DEF u, v

\* When nothing is to come everything was received.
LEMMA WholeReceived ==
  ASSUME NEW S, NEW f \in Seq(S), NEW s \in Seq(S), Whole(f, s, <<>>)
  PROVE  s = f
  BY SeqEqual, LenProperties, EmptySeq DEF Whole, Part

LEMMA WholeToCome ==
  ASSUME NEW S, NEW f \in Seq(S)
  PROVE  Whole(f, <<>>, f)
  BY LenProperties, EmptySeq, SMT DEF Whole, Part

-----------------------------------------------------------------------------
(* Types, whatever the faults.                                             *)

LEMMA TokensTyped ==
  /\ \A c \in Letters : Cmd(c) \in DevTokens /\ Code(c) \in Tokens
  /\ \A a \in Addrs : Addr(a) \in DevTokens
  /\ \A d \in Values : Bytes(d) \in DevTokens
  /\ \A c \in Letters, a \in Addrs, d \in Values : Crc(c, a, d) \in Tokens
  /\ Junk \in DevTokens /\ Eol \in DevTokens /\ Prompt \in Tokens /\ Error \in Tokens
  BY DEF Cmd, Addr, Bytes, Crc, Code, Eol, Prompt, Error, Junk, Token, DevTokens, HostCrc,
         Tokens, Kinds, Letters, Addrs, Values

LEMMA Distinct ==
  /\ NewApp \in [Pages -> Data] /\ OldApp \in [Pages -> Data] /\ BlankApp \in [Pages -> Data]
  /\ [Pages -> Data] \subseteq [Pages -> Contents]
  /\ None \notin [Pages -> Contents] /\ None \notin Data
  BY DiaboloAssumption, HostAssumption DEF Addrs, Contents, BlankApp

\* A command of the host is made of tokens that are what they should be.
LEMMA FrameTyped ==
  ASSUME NEW s, NEW m, StageCmd(s, m)
  PROVE  Frame(m) \in Seq(DevTokens)
  <1>1. ASSUME m = Identify \/ m = Recompute
        PROVE  Frame(m) \in Seq(DevTokens)
    <2>1. Frame(m) = <<Cmd(m.c)>> /\ m.c \in Letters
      BY <1>1 DEF Frame, Identify, Recompute, Command, Letters
    <2> QED
      BY <2>1, TokensTyped DEF Letters
  <1>2. ASSUME m = Command("X", None, None)
        PROVE  Frame(m) \in Seq(DevTokens)
    <2>1. Frame(m) = <<Cmd("X"), Crc("X", None, None)>>
      BY <1>2 DEF Frame, Command
    <2>2. Crc("X", None, None) \in DevTokens
      BY DEF Crc, Token, DevTokens, HostCrc, Tokens, Kinds, Letters, Addrs, Values
    <2> QED
      BY <2>1, <2>2, TokensTyped DEF Letters
  <1>3. ASSUME NEW c \in {"e", "f"}, NEW a \in Addrs, m = Command(c, a, None)
        PROVE  Frame(m) \in Seq(DevTokens)
    <2>1. Frame(m) = <<Cmd(c), Addr(a)>>
      BY <1>3 DEF Frame, Command
    <2> QED
      BY <2>1, TokensTyped DEF Letters
  <1>4. ASSUME NEW c \in {"E", "F"}, NEW a \in Addrs, NEW d \in Values,
               m = Command(c, a, d), HostCrc(Crc(c, a, d))
        PROVE  Frame(m) \in Seq(DevTokens)
    <2>1. Frame(m) = <<Cmd(c), Addr(a), Bytes(d), Crc(c, a, d)>>
      BY <1>4 DEF Frame, Command
    <2>2. Crc(c, a, d) \in DevTokens
      BY <1>4, TokensTyped DEF DevTokens, Letters
    <2> QED
      BY <2>1, <2>2, TokensTyped DEF Letters
  <1>5. HostCrc(Crc("E", EECRC, NewApp)) /\ HostCrc(Crc("E", EEPCNT, None))
    BY DEF HostCrc, Crc, Token
  <1>6. \A p \in Pages : \A d \in {NewApp[p], Blank} : HostCrc(Crc("F", p, d))
    BY DEF HostCrc, Crc, Token
  <1>7. /\ NewApp \in Values /\ None \in Values /\ \A d \in Data : d \in Values
        /\ EECRC \in Addrs /\ EEPCNT \in Addrs /\ \A p \in Pages : p \in Addrs
        /\ Blank \in Data /\ \A p \in Pages : NewApp[p] \in Data
    BY Distinct, DiaboloAssumption DEF Values, Addrs, Contents
  <1> QED
    BY <1>1, <1>2, <1>3, <1>4, <1>5, <1>6, <1>7 DEF StageCmd, StoreCrc, Read, Burn

\* A stage of the program with its command.
LEMMA GoTyped ==
  ASSUME NEW s, NEW m, NEW r \in Runs, StageCmd(s, m), Go(s, m, r)
  PROVE  HostOK'
  BY HostAssumption DEF Go, HostOK, StageCmd

LEMMA FreshTyped ==
  Fresh \in Runs /\ StageCmd("off", Identify)
  BY DEF Fresh, Runs, Values, StageCmd

LEMMA DieTyped ==
  ASSUME Die
  PROVE  HostOK'
  BY FreshTyped, GoTyped DEF Die

LEMMA FinishTyped ==
  ASSUME NEW r \in Runs, Finish(r)
  PROVE  HostOK'
  <1>1. StageCmd("start", Command("X", None, None))
    BY DEF StageCmd
  <1> QED
    BY <1>1, GoTyped, DieTyped DEF Finish

LEMMA NextWriteTyped ==
  ASSUME NEW r \in Runs, NextWrite(r)
  PROVE  HostOK'
  <1>1. r.todo \in SUBSET Pages /\ r.redo \in SUBSET Pages
    BY DEF Runs
  <1>3. CASE r.todo # {}
    <2>1. StageCmd("write", Burn(First(r.todo), NewApp[First(r.todo)]))
      BY <1>1, <1>3, FirstIn DEF StageCmd
    <2> QED
      BY <1>3, <2>1, GoTyped DEF NextWrite
  <1>4. CASE r.todo = {} /\ r.redo # {}
    <2>1. StageCmd("redo", Read(First(r.redo)))
      BY <1>1, <1>4, FirstIn DEF StageCmd
    <2> QED
      BY <1>4, <2>1, GoTyped DEF NextWrite
  <1>5. StageCmd("pgmcount", Command("E", EEPCNT, None)) /\ StageCmd("crc", StoreCrc)
    BY DEF StageCmd
  <1> QED
    BY <1>3, <1>4, <1>5, GoTyped, FinishTyped DEF NextWrite

LEMMA CompareTyped ==
  ASSUME NEW r \in Runs, Compare(r)
  PROVE  HostOK'
  <1> DEFINE differ == {p \in Pages : r.cache[p] # NewApp[p]}
             s      == [r EXCEPT !.cache = Fresh.cache, !.todo = differ]
  <1>1. s \in Runs
    BY DEF Runs, Fresh, Values
  <1>2. StageCmd("onlycrc", StoreCrc)
    BY DEF StageCmd
  <1>3. IF differ # {} THEN NextWrite(s)
        ELSE IF s.eeappcrc # NewApp THEN Go("onlycrc", StoreCrc, s)
        ELSE Finish(s)
    BY DEF Compare
  <1> HIDE DEF s, differ
  <1> QED
    BY <1>1, <1>2, <1>3, GoTyped, NextWriteTyped, FinishTyped

\* The command of a page names a page.
LEMMA StageCommands ==
  ASSUME StageCmd(stage, cmd)
  PROVE  /\ stage \in {"read", "redo", "erased"} =>
              cmd.c = "f" /\ cmd.a \in Pages /\ cmd = Read(cmd.a)
         /\ stage \in {"write", "erase"} => cmd.c = "F" /\ cmd.a \in Pages
         /\ stage \in {"off", "sync", "identify", "started"} => cmd.c = "i"
         /\ stage \in {"eecrc", "eepcnt"} => cmd.c = "e"
         /\ stage \in {"crc", "onlycrc", "pgmcount"} => cmd.c = "E"
         /\ stage \in {"crc", "onlycrc"} => cmd = StoreCrc
         /\ (stage = "start") <=> cmd.c = "X"
         /\ (stage = "stat") <=> cmd.c = "*"
         /\ cmd.c = "f" => stage \in {"read", "redo", "erased"}
         /\ cmd.c = "e" => stage \in {"eecrc", "eepcnt"}
         /\ cmd.c = "F" => stage \in {"write", "erase"}
         /\ cmd.c = "E" => stage \in {"crc", "onlycrc", "pgmcount"}
         /\ cmd.c = "i" => stage \in {"off", "sync", "identify", "started"}
         /\ cmd.c \in {"i", "e", "f", "E", "F", "X", "*"}
  BY DEF StageCmd, Identify, Recompute, StoreCrc, Read, Burn, Command

\* Data of a reply that the host accepts.
LEMMA ReplyTyped ==
  ASSUME got \in Seq(Tokens), GoodReply, cmd.c \in {"i", "f", "e"}
  PROVE  got[1].d \in Values
  <1>1. got[1] \in Tokens
    BY DEF GoodReply
  <1> QED
    BY <1>1 DEF Tokens

LEMMA AcceptTyped ==
  ASSUME HostOK, Accept
  PROVE  HostOK'
  <1> DEFINE p == cmd.a
             d == got[1].d
  <1>1. StageCmd(stage, cmd) /\ run \in Runs
    BY DEF HostOK
  <1>2. cmd.c \in {"i", "f", "e"} => d \in Values
    BY ReplyTyped DEF HostOK, Accept
  <1>3. ASSUME stage = "identify",
               Go("eecrc", Command("e", EECRC, None), [run EXCEPT !.appcrc = d])
        PROVE  HostOK'
    <2>1. [run EXCEPT !.appcrc = d] \in Runs
      BY <1>1, <1>2, <1>3, StageCommands DEF Runs
    <2>2. StageCmd("eecrc", Command("e", EECRC, None))
      BY DEF StageCmd
    <2> QED
      BY <1>3, <2>1, <2>2, GoTyped
  <1>4. ASSUME stage = "eecrc",
               Go("eepcnt", Command("e", EEPCNT, None), [run EXCEPT !.eeappcrc = d])
        PROVE  HostOK'
    <2>1. [run EXCEPT !.eeappcrc = d] \in Runs
      BY <1>1, <1>2, <1>4, StageCommands DEF Runs
    <2>2. StageCmd("eepcnt", Command("e", EEPCNT, None))
      BY DEF StageCmd
    <2> QED
      BY <1>4, <2>1, <2>2, GoTyped
  <1>5. ASSUME IF run.restarted THEN Finish(run)
               ELSE Go("read", Read(First(Pages)), [run EXCEPT !.todo = Pages])
        PROVE  HostOK'
    <2>1. [run EXCEPT !.todo = Pages] \in Runs
      BY <1>1 DEF Runs
    <2>2. StageCmd("read", Read(First(Pages)))
      BY FirstIn, HostAssumption DEF StageCmd
    <2> QED
      BY <1>1, <1>5, <2>1, <2>2, GoTyped, FinishTyped
  <1>6. ASSUME stage = "read", NEW r, r = [run EXCEPT !.cache[p] = d, !.todo = @ \ {p}],
               IF r.todo # {} THEN Go("read", Read(First(r.todo)), r) ELSE Compare(r)
        PROVE  HostOK'
    <2>1. r \in Runs /\ r.todo \in SUBSET Pages
      BY <1>1, <1>2, <1>6, StageCommands DEF Runs
    <2>2. r.todo # {} => StageCmd("read", Read(First(r.todo)))
      BY <2>1, FirstIn DEF StageCmd
    <2> QED
      BY <1>6, <2>1, <2>2, GoTyped, CompareTyped
  <1>7. ASSUME stage \in {"write", "erased"},
               NEW r, \/ r = [run EXCEPT !.todo = @ \ {p}, !.changed = @ \/ Changed,
                                         !.redo = IF Failed THEN @ \cup {p} ELSE @]
                      \/ r = [run EXCEPT !.redo = {}],
               NextWrite(r)
        PROVE  HostOK'
    <2> DEFINE changed == run.changed \/ Changed
    <2>1. /\ run.todo \ {p} \in SUBSET Pages /\ run.redo \cup {p} \in SUBSET Pages
          /\ run.redo \in SUBSET Pages
      BY <1>1, <1>7, StageCommands DEF Runs
    <2>2. changed \in BOOLEAN
      BY <1>1 DEF Runs, Changed
    <2>3. \/ r = [run EXCEPT !.todo = run.todo \ {p}, !.changed = changed,
                             !.redo = IF Failed THEN run.redo \cup {p} ELSE run.redo]
          \/ r = [run EXCEPT !.redo = {}]
      BY <1>7
    <2> HIDE DEF changed
    <2>4. r \in Runs
      BY <1>1, <2>1, <2>2, <2>3 DEF Runs
    <2> QED
      BY <1>7, <2>4, NextWriteTyped
  <1>8. ASSUME stage = "erase", Go("erased", Read(p), [run EXCEPT !.changed = @ \/ Changed])
        PROVE  HostOK'
    <2> DEFINE changed == run.changed \/ Changed
    <2>1. changed \in BOOLEAN
      BY <1>1 DEF Runs, Changed
    <2>2. Go("erased", Read(p), [run EXCEPT !.changed = changed])
      BY <1>8
    <2> HIDE DEF changed
    <2>3. [run EXCEPT !.changed = changed] \in Runs
      BY <1>1, <2>1 DEF Runs
    <2>4. StageCmd("erased", Read(p))
      BY <1>1, <1>8, StageCommands DEF StageCmd
    <2> QED
      BY <2>2, <2>3, <2>4, GoTyped
  <1>9. ASSUME stage = "redo", Go("erase", Burn(p, Blank), run)
        PROVE  HostOK'
    <2>1. StageCmd("erase", Burn(p, Blank))
      BY <1>1, <1>9, StageCommands DEF StageCmd
    <2> QED
      BY <1>1, <1>9, <2>1, GoTyped
  <1>10. ASSUME \/ Go("crc", StoreCrc, run)
                \/ Go("stat", Recompute, run)
                \/ Go("stat", Recompute, [run EXCEPT !.eeappcrc = NewApp])
                \/ Finish([run EXCEPT !.eeappcrc = NewApp])
         PROVE  HostOK'
    <2>1. [run EXCEPT !.eeappcrc = NewApp] \in Runs
      BY <1>1, Distinct DEF Runs, Values
    <2>2. StageCmd("crc", StoreCrc) /\ StageCmd("stat", Recompute)
      BY DEF StageCmd
    <2> QED
      BY <1>1, <1>10, <2>1, <2>2, GoTyped, FinishTyped
  <1> QED
    BY <1>3, <1>4, <1>5, <1>6, <1>7, <1>8, <1>9, <1>10, DieTyped, Zenon DEF Accept

\* Replies of the device.
LEMMA RepliesTyped ==
  /\ \A c \in Letters : <<Code(c), Prompt>> \in Seq(Tokens) /\ <<Code(c)>> \in Seq(Tokens)
  /\ <<Prompt>> \in Seq(Tokens) /\ <<Error>> \in Seq(Tokens)
  /\ \A c \in Letters, a \in Addrs, d \in Values :
       <<Bytes(d), Crc(c, a, d), Prompt>> \in Seq(Tokens)
  BY TokensTyped DEF DevTokens

LEMMA FlashTyped ==
  ASSUME flash \in [Pages -> Contents]
  PROVE  /\ flash \in Values /\ \A p \in Pages : flash[p] \in Values
         /\ EepromCrc \in Values
  BY DEF Values, EepromCrc

\* An interrupted programming leaves the page erased, programmed, or without content.
LEMMA InterruptedPage ==
  ASSUME Programming, Interrupted
  PROVE  \/ flash' = flash
         \/ \E p \in Pages : \E x \in {flash[p], Torn, Blank, NewApp[p]} :
              flash' = [flash EXCEPT ![p] = x]
  <1>1. CASE pc \in {"erase", "write"}
    BY <1>1 DEF Interrupted, Programming
  <1>2. CASE pc \notin {"erase", "write"}
    BY <1>2 DEF Interrupted
  <1> QED
    BY <1>1, <1>2

LEMMA InterruptedTyped ==
  ASSUME flash \in [Pages -> Contents], Programming, Interrupted
  PROVE  flash' \in [Pages -> Contents]
  <1>1. /\ Torn \in Contents /\ Blank \in Contents
        /\ \A p \in Pages : flash[p] \in Contents /\ NewApp[p] \in Contents
    BY DiaboloAssumption, Distinct DEF Contents
  <1> QED
    BY <1>1, InterruptedPage

LEMMA ResetTyped ==
  ASSUME DeviceOK, NEW low, Reset(low), cold' \in BOOLEAN
  PROVE  DeviceOK'
  <1>1. flash' \in [Pages -> Contents]
    BY InterruptedTyped DEF DeviceOK, Reset
  <1> QED
    BY <1>1 DEF DeviceOK, Reset, Goto, Programming, Pcs

\* Nothing is being received or programmed.
LEMMA NothingReceived ==
  ASSUME rcvd' = <<>>, pc' \notin {"erase", "write"}
  PROVE  Programming'
  BY DEF Programming

\* The device executes a complete command.
LEMMA ExecuteTyped ==
  ASSUME DeviceOK, toHost \in Seq(Tokens), NEW r \in Seq(DevTokens), r # <<>>,
         r[1].k = "cmd", Len(r) = CmdLen(r[1]), pc = "prompt", Execute(r)
  PROVE  /\ toHost' \in Seq(Tokens) /\ rcvd' \in Seq(DevTokens) /\ pc' \in Pcs
         /\ Programming'
  <1> DEFINE c == r[1].c
  <1>1. /\ Len(r) \in Nat
        /\ c \in {"f", "e", "X"} => Len(r) = 2
        /\ c \in {"F", "E"} => Len(r) = 4
        /\ c = "i" => Len(r) = 1
    BY DEF CmdLen
  <1>2. \A i \in 1 .. Len(r) : r[i] \in DevTokens
    BY ElementOfSeq
  <1>3. /\ c \in Letters
        /\ c \in {"f", "e", "F", "E"} => r[2].a \in Addrs
    BY <1>1, <1>2, EmptySeq, LenProperties DEF DevTokens, Tokens
  <1>4. /\ appcrc \in Values /\ None \in Values /\ None \in Addrs
        /\ EepromCrc \in Values /\ \A p \in Pages : flash[p] \in Values
    BY FlashTyped DEF DeviceOK, Values, Addrs
  <1>5. ASSUME NEW a \in Addrs, NEW d \in Values,
               Goto("prompt"), Send(<<Bytes(d), Crc(c, a, d), Prompt>>)
        PROVE  toHost' \in Seq(Tokens) /\ rcvd' = <<>> /\ pc' = "prompt"
    BY <1>3, <1>5, RepliesTyped, ConcatProperties DEF Goto, Send
  <1>6. ASSUME NEW s \in Seq(Tokens), NEW q, Goto(q), Send(s)
        PROVE  toHost' \in Seq(Tokens) /\ rcvd' = <<>> /\ pc' = q
    BY <1>6, ConcatProperties DEF Goto, Send
  <1>7. ASSUME c = "F", CrcOk(r), rcvd' = r, UNCHANGED toHost, pc' = "erase"
        PROVE  toHost' \in Seq(Tokens) /\ rcvd' \in Seq(DevTokens) /\ Programming' /\ pc' \in Pcs
    <2>1. HostCrc(r[4]) /\ r[4] = Crc(c, r[2].a, r[3].d)
      BY <1>1, <1>2, <1>7 DEF CrcOk, DevTokens
    <2>2. r[2].a \in Pages /\ r[3].d \in {NewApp[r[2].a], Blank}
      BY <1>7, <2>1 DEF HostCrc, Crc, Token
    <2> QED
      BY <1>1, <1>7, <2>2 DEF Programming, Pcs
  <1>8. ASSUME NEW a \in Addrs, NEW d \in Values,
               Goto("prompt"), Send(<<Bytes(d), Crc(c, a, d), Prompt>>)
        PROVE  toHost' \in Seq(Tokens) /\ rcvd' \in Seq(DevTokens) /\ pc' \in Pcs /\ Programming'
    BY <1>5, <1>8, NothingReceived, EmptySeq DEF Pcs
  <1>9. ASSUME NEW q \in {"prompt", "error", "app"}, NEW s \in Seq(Tokens), Goto(q), Send(s)
        PROVE  toHost' \in Seq(Tokens) /\ rcvd' \in Seq(DevTokens) /\ pc' \in Pcs /\ Programming'
    BY <1>6, <1>9, NothingReceived, EmptySeq DEF Pcs
  <1>10. /\ <<Code("crc"), Prompt>> \in Seq(Tokens) /\ <<Prompt>> \in Seq(Tokens)
         /\ <<Code("ok")>> \in Seq(Tokens) /\ <<Error>> \in Seq(Tokens)
    BY RepliesTyped DEF Letters
  <1>11. CASE c = "i"
    BY <1>4, <1>8, <1>11 DEF Execute
  <1>12. CASE c = "f"
    <2>1. (IF r[2].a \in Pages THEN flash[r[2].a] ELSE None) \in Values
      BY <1>4
    <2> QED
      BY <1>3, <1>8, <1>12, <2>1 DEF Execute
  <1>13. CASE c = "e"
    BY <1>3, <1>4, <1>8, <1>13 DEF Execute
  <1>14. CASE c \in {"F", "E", "X"}
    BY <1>7, <1>9, <1>10, <1>14 DEF Execute
  <1> QED
    BY <1>11, <1>12, <1>13, <1>14 DEF Execute

LEMMA ReceiveTyped ==
  ASSUME DeviceOK, toHost \in Seq(Tokens), NEW t \in DevTokens, Receive(t)
  PROVE  /\ toHost' \in Seq(Tokens) /\ rcvd' \in Seq(DevTokens) /\ pc' \in Pcs
         /\ Programming'
  <1>1. CASE pc = "error"
    <2>1. \E s \in {<<Prompt>>, <<Error>>}, q \in {"prompt", "error"} : Goto(q) /\ Send(s)
      BY <1>1 DEF Receive
    <2>2. PICK s \in {<<Prompt>>, <<Error>>}, q \in {"prompt", "error"} : Goto(q) /\ Send(s)
      BY <2>1
    <2> QED
      BY <2>2, RepliesTyped, ConcatProperties, NothingReceived, EmptySeq DEF Goto, Send, Pcs
  <1>2. CASE pc = "prompt"
    <2> DEFINE r == Append(rcvd, t)
    <2>1. /\ r \in Seq(DevTokens) /\ r # <<>> /\ Len(r) = Len(rcvd) + 1
          /\ Len(rcvd) \in Nat
          /\ \A i \in 1 .. Len(rcvd) : r[i] = rcvd[i]
      BY AppendProperties, LenProperties DEF DeviceOK
    <2>2. /\ IF r[1].k # "cmd" \/ r[1].c \in {"eol", "*"}
             THEN Goto("stat") /\ UNCHANGED toHost
             ELSE IF Len(r) < CmdLen(r[1])
                  THEN pc' = pc /\ rcvd' = r /\ UNCHANGED toHost
                  ELSE Execute(r)
      BY <1>2 DEF Receive
    <2>3. CmdLen(r[1]) \in Nat \ {0}
      BY DEF CmdLen
    <2>4. rcvd # <<>> => Len(rcvd) < CmdLen(r[1])
      <3>1. rcvd # <<>> => Len(rcvd) # 0
        BY EmptySeq DEF DeviceOK
      <3>2. rcvd # <<>> => r[1] = rcvd[1]
        BY <2>1, <3>1
      <3> QED
        BY <1>2, <3>2 DEF DeviceOK, Programming
    <2>5. rcvd = <<>> => Len(rcvd) = 0
      BY EmptySeq
    <2> HIDE DEF r
    <2>6. Len(r) <= CmdLen(r[1])
      BY <2>1, <2>3, <2>4, <2>5
    <2>7. CASE r[1].k # "cmd" \/ r[1].c \in {"eol", "*"}
      BY <2>2, <2>7, NothingReceived, EmptySeq DEF Goto, Pcs
    <2>8. CASE ~ (r[1].k # "cmd" \/ r[1].c \in {"eol", "*"}) /\ Len(r) < CmdLen(r[1])
      <3>1. pc' = "prompt" /\ rcvd' = r /\ toHost' = toHost
        BY <1>2, <2>2, <2>8
      <3>2. Programming'
        BY <2>8, <3>1 DEF Programming
      <3> QED
        BY <2>1, <3>1, <3>2 DEF Pcs
    <2>9. CASE r[1].k = "cmd" /\ Len(r) = CmdLen(r[1]) /\ Execute(r)
      BY <1>2, <2>1, <2>9, ExecuteTyped
    <2> QED
      BY <2>1, <2>2, <2>3, <2>6, <2>7, <2>8, <2>9
  <1> QED
    BY <1>1, <1>2 DEF Receive

LEMMA DeliverTyped ==
  ASSUME DeviceOK, LineOK, Deliver
  PROVE  DeviceOK' /\ LineOK'
  <1>1. Head(toDev) \in DevTokens /\ toDev' \in Seq(DevTokens)
    BY HeadTailProperties DEF LineOK, Deliver
  <1>2. UNCHANGED <<flash, cold, appcrc>>
    BY DEF Deliver
  <1>3. CASE Receive(Head(toDev))
    BY <1>1, <1>2, <1>3, ReceiveTyped DEF DeviceOK, LineOK
  <1>4. CASE UNCHANGED <<pc, rcvd, toHost>>
    BY <1>1, <1>2, <1>4 DEF DeviceOK, LineOK, Programming, Pcs
  <1> QED
    BY <1>3, <1>4 DEF Deliver

\* What the device does, a failure of a page included.
DeviceMoves == DeviceStep \/ EnterFromApp \/ ClearFlags \/ Write(Torn)

LEMMA DeviceTyped ==
  ASSUME DeviceOK, LineOK, DeviceMoves
  PROVE  DeviceOK' /\ LineOK'
  <1>1. /\ flash \in [Pages -> Contents] /\ cold \in BOOLEAN
        /\ Programming /\ appcrc \in [Pages -> Contents] \cup {None}
    BY DEF DeviceOK
  <1>2. ASSUME NEW q \in Pcs \ {"erase", "write"}, Goto(q),
               NEW s \in Seq(Tokens), toHost' = toHost \o s, toDev' = toDev, cold' = cold,
               flash' \in [Pages -> Contents], appcrc' \in [Pages -> Contents] \cup {None}
        PROVE  DeviceOK' /\ LineOK'
    BY <1>1, <1>2, NothingReceived, EmptySeq, ConcatProperties DEF DeviceOK, LineOK, Goto
  <1>3. toHost = toHost \o <<>>
    BY ConcatEmptySeq DEF LineOK
  <1>4. CASE Boot
    BY <1>1, <1>2, <1>3, <1>4, EmptySeq DEF Boot, Pcs
  <1>5. CASE Stat
    BY <1>1, <1>2, <1>5, RepliesTyped DEF Stat, Send, Pcs
  <1>6. CASE EnterFromApp
    BY <1>1, <1>2, <1>3, <1>6, EmptySeq DEF EnterFromApp, Pcs
  <1>7. CASE ClearFlags
    BY <1>7 DEF ClearFlags, DeviceOK, LineOK, Programming
  <1>8. CASE Erase
    BY <1>1, <1>8, DiaboloAssumption DEF Erase, DeviceOK, LineOK, Programming, Pcs, Contents
  <1>9. ASSUME NEW d \in Contents, Write(d)
        PROVE  DeviceOK' /\ LineOK'
    <2>1. <<Code(IF d = rcvd[3].d THEN "done" ELSE "fail"), Prompt>> \in Seq(Tokens)
      BY RepliesTyped DEF Letters
    <2>2. flash' \in [Pages -> Contents]
      BY <1>1, <1>9 DEF Write
    <2> QED
      BY <1>1, <1>2, <1>9, <2>1, <2>2 DEF Write, Send, Pcs
  <1>10. pc = "write" => rcvd[3].d \in Contents
    BY <1>1, Distinct, DiaboloAssumption DEF Programming, Contents
  <1>11. Torn \in Contents
    BY DEF Contents
  <1> QED
    BY <1>4, <1>5, <1>6, <1>7, <1>8, <1>9, <1>10, <1>11, DeliverTyped
    DEF DeviceMoves, DeviceStep

LEMMA LineFaultTyped ==
  ASSUME DeviceOK, LineOK, LineFault
  PROVE  DeviceOK' /\ LineOK'
  <1>1. DeviceOK'
    BY DEF LineFault, DeviceOK, Programming
  <1>2. \A t \in Tokens : \A z \in Altered(t) : z \in DevTokens
    <2>1. \A c \in Letters : Code(c) \in DevTokens
      BY TokensTyped DEF Code, Token, DevTokens, HostCrc
    <2>2. Codes \subseteq DevTokens
      BY <2>1 DEF Codes, Letters
    <2>3. {Cmd(c) : c \in {"i", "f", "e", "F", "E", "X", "eol", "*"}} \subseteq DevTokens
      BY TokensTyped DEF Letters
    <2> QED
      BY <2>2, <2>3, TokensTyped DEF Altered
  <1>3. DevTokens \subseteq Tokens
    BY DEF DevTokens
  <1>4. ASSUME NEW S, NEW s \in Seq(S), s # <<>>, NEW z \in S
        PROVE  Tail(s) \in Seq(S) /\ <<z>> \o Tail(s) \in Seq(S) /\ Head(s) \in S
    <2>1. Tail(s) \in Seq(S) /\ Head(s) \in S /\ <<z>> \in Seq(S)
      BY <1>4, HeadTailProperties
    <2> QED
      BY <2>1, ConcatProperties
  <1>5. CASE toDev # <<>> /\ toDev' = Tail(toDev) /\ UNCHANGED toHost
    BY <1>1, <1>5, HeadTailProperties DEF LineOK
  <1>6. CASE toHost # <<>> /\ toHost' = Tail(toHost) /\ UNCHANGED toDev
    BY <1>1, <1>6, HeadTailProperties DEF LineOK
  <1>7. CASE /\ toDev # <<>> /\ UNCHANGED toHost
             /\ \E z \in Altered(Head(toDev)) : toDev' = <<z>> \o Tail(toDev)
    <2>1. PICK z \in Altered(Head(toDev)) : toDev' = <<z>> \o Tail(toDev)
      BY <1>7
    <2>2. Head(toDev) \in DevTokens
      BY <1>7, HeadTailProperties DEF LineOK
    <2>3. z \in DevTokens
      BY <1>2, <1>3, <2>1, <2>2
    <2> QED
      BY <1>1, <1>4, <1>7, <2>1, <2>3 DEF LineOK
  <1>8. CASE /\ toHost # <<>> /\ UNCHANGED toDev
             /\ \E z \in Altered(Head(toHost)) : toHost' = <<z>> \o Tail(toHost)
    <2>1. PICK z \in Altered(Head(toHost)) : toHost' = <<z>> \o Tail(toHost)
      BY <1>8
    <2>2. Head(toHost) \in Tokens
      BY <1>8, HeadTailProperties DEF LineOK
    <2>3. z \in Tokens
      BY <1>2, <1>3, <2>1, <2>2
    <2> QED
      BY <1>1, <1>4, <1>8, <2>1, <2>3 DEF LineOK
  <1> QED
    BY <1>1, <1>5, <1>6, <1>7, <1>8 DEF LineFault

LEMMA PowerFailureTyped ==
  ASSUME DeviceOK, LineOK, PowerFailure
  PROVE  DeviceOK' /\ LineOK'
  <1>1. PICK n \in 0 .. Len(toHost) : toHost' = SubSeq(toHost, 1, n)
    BY DEF PowerFailure
  <1>2. toHost' \in Seq(Tokens)
    BY <1>1, SubSeqProperties, LenProperties, ElementOfSeq DEF LineOK
  <1>3. cold' \in BOOLEAN
    BY DEF PowerFailure, DeviceOK
  <1> QED
    BY <1>2, <1>3, ResetTyped DEF PowerFailure, LineOK

\* The steps of the host that do not go on with the program.
LEMMA HostTyped ==
  ASSUME TypeInv, HostRuns
  PROVE  TypeInv'
  <1> USE DEF TypeInv
  <1>1. ASSUME UNCHANGED device
        PROVE  DeviceOK' /\ LineOK'
    BY <1>1 DEF device, DeviceOK, LineOK, Programming
  <1>2. ASSUME UNCHANGED <<flash, cold, rxlow, pc, rcvd, appcrc>>
        PROVE  DeviceOK'
    BY <1>2 DEF DeviceOK, Programming
  <1>3. CASE Run
    <2>1. StageCmd("sync", Identify)
      BY DEF StageCmd
    <2>2. DeviceOK'
      BY <1>2, <1>3, ResetTyped DEF Run
    <2> QED
      BY <1>3, <2>1, <2>2, FreshTyped, GoTyped, EmptySeq DEF Run, LineOK
  <1>4. CASE Sync
    <2>1. StageCmd("identify", Identify)
      BY DEF StageCmd
    <2>2. DeviceOK'
      BY <1>4, NothingReceived, EmptySeq DEF Sync, Goto, DeviceOK, Pcs
    <2> QED
      BY <1>4, <2>1, <2>2, FreshTyped, GoTyped, EmptySeq DEF Sync, LineOK
  <1>5. CASE SyncFails
    BY <1>1, <1>5, DieTyped DEF SyncFails
  <1>6. CASE Resume
    <2>1. toDev \o <<Eol>> \in Seq(DevTokens)
      BY TokensTyped, ConcatProperties DEF LineOK
    <2>2. HostOK'
      BY <1>6, DieTyped, HostAssumption DEF Resume, HostOK, StageCmd
    <2> QED
      BY <1>2, <1>6, <2>1, <2>2 DEF Resume, LineOK
  <1>7. CASE SendCommand
    <2>1. toDev' \in Seq(DevTokens)
      BY <1>7, FrameTyped, ConcatProperties DEF SendCommand, LineOK, HostOK
    <2>2. HostOK'
      BY <1>7, EmptySeq DEF SendCommand, HostOK, StageCmd
    <2> QED
      BY <1>2, <1>7, <2>1, <2>2 DEF SendCommand, LineOK
  <1>8. CASE Rx
    <2>1. Head(toHost) \in Tokens /\ toHost' \in Seq(Tokens)
      BY <1>8, HeadTailProperties DEF Rx, LineOK
    <2>2. Append(got, Head(toHost)) \in Seq(Tokens)
      BY <2>1, AppendProperties DEF HostOK
    <2>3. HostOK'
      BY <1>8, <2>2 DEF Rx, HostOK, StageCmd
    <2> QED
      BY <1>2, <1>8, <2>1, <2>3 DEF Rx, LineOK
  <1>9. CASE Timeout
    BY <1>1, <1>9 DEF Timeout, HostOK, StageCmd
  <1>10. CASE Retry
    <2>1. HostOK'
      BY <1>10, DieTyped, HostAssumption DEF Retry, HostOK, StageCmd
    <2> QED
      BY <1>1, <1>10, <2>1 DEF Retry
  <1>11. CASE Accept
    BY <1>1, <1>11, AcceptTyped DEF Accept
  <1>12. CASE Restart
    <2>1. [run EXCEPT !.restarted = TRUE] \in Runs /\ StageCmd("identify", Identify)
      BY DEF HostOK, Runs, StageCmd
    <2> QED
      BY <1>1, <1>12, <2>1, GoTyped, DieTyped DEF Restart
  <1>13. CASE Started
    <2>1. StageCmd("started", Identify)
      BY DEF StageCmd
    <2> QED
      BY <1>1, <1>13, <2>1, GoTyped, DieTyped, FreshTyped DEF Started
  <1> QED
    BY <1>3, <1>4, <1>5, <1>6, <1>7, <1>8, <1>9, <1>10, <1>11, <1>12, <1>13 DEF HostRuns

LEMMA StepTyped ==
  ASSUME TypeInv, [Next]_vars
  PROVE  TypeInv'
  <1>1. ASSUME UNCHANGED host
        PROVE  HostOK'
    BY <1>1 DEF TypeInv, host, HostOK, StageCmd
  <1>2. CASE UNCHANGED vars
    BY <1>1, <1>2 DEF TypeInv, vars, device, DeviceOK, LineOK, Programming
  <1>3. CASE DeviceRuns \/ AppRuns \/ FlashFault
    BY <1>1, <1>3, DeviceTyped
    DEF TypeInv, DeviceRuns, AppRuns, FlashFault, Fault, DeviceMoves
  <1>4. CASE LineFault
    BY <1>1, <1>4, LineFaultTyped DEF TypeInv, LineFault, Fault
  <1>5. CASE PowerFailure
    BY <1>1, <1>5, PowerFailureTyped DEF TypeInv, PowerFailure, Fault
  <1> QED
    BY <1>2, <1>3, <1>4, <1>5, HostTyped DEF Next

LEMMA InitTyped ==
  ASSUME Init
  PROVE  TypeInv
  <1>1. DeviceOK
    BY Distinct, EmptySeq DEF Init, DeviceOK, Programming, Pcs
  <1>2. LineOK
    BY EmptySeq DEF Init, LineOK
  <1>3. HostOK
    BY FreshTyped, HostAssumption, EmptySeq DEF Init, HostOK, StageCmd
  <1> QED
    BY <1>1, <1>2, <1>3 DEF TypeInv

LEMMA Typed ==
  Spec => []TypeInv
  <1>1. TypeInv /\ [Next]_vars => TypeInv'
    BY StepTyped
  <1> QED
    BY <1>1, InitTyped, PTL DEF Spec

\* The reset pin is wired or not, for good.
LEMMA WiredKept ==
  ASSUME [Next]_vars
  PROVE  wired' = wired
  BY Zenon DEF Next, vars, DeviceRuns, AppRuns, HostRuns, LineFault, FlashFault,
               PowerFailure, Fault

\* The variables have their types, and what is being programmed is in the command
\* received, whatever the faults of the line, of the memory and of the power.
THEOREM TypeCorrect == Spec => []TypeOK
  <1>1. TypeInv /\ wired \in BOOLEAN => TypeOK
    BY HostAssumption DEF TypeInv, DeviceOK, HostOK, Programming, Pcs, Runs, TypeOK
  <1>2. Init => wired \in BOOLEAN
    BY DEF Init
  <1>3. wired \in BOOLEAN /\ [Next]_vars => (wired \in BOOLEAN)'
    BY WiredKept
  <1> QED
    BY <1>1, <1>2, <1>3, Typed, PTL DEF Spec

-----------------------------------------------------------------------------
(* The memory and the application that runs, whatever the faults.          *)

\* The application is started by the host.
StartedByCommand == pc = "prompt" /\ pc' = "app"

\* What one step may change: a page, only while it is being programmed; EXTRF and
\* PORF, by a reset and by the application; and an application is started by the
\* host, or by a reset that leaves these flags cleared.
Effects ==
  /\ flash' = flash \/ (pc \in {"erase", "write"} /\ pc' # "app" /\ Update!Altered)
  /\ \/ cold' = cold
     \/ cold' = TRUE /\ pc' # "app"
     \/ cold' = FALSE /\ pc = "app" /\ pc' = "app"
  /\ pc # "app" /\ pc' = "app" =>
       flash' = flash /\ cold' = cold /\ (~ cold \/ StartedByCommand)

LEMMA ResetEffects ==
  ASSUME DeviceOK, NEW low, Reset(low), cold' \in {TRUE, cold}
  PROVE  Effects
  <1>0. cold' = TRUE \/ cold' = cold
    BY Zenon
  <1>1. pc' # "app"
    BY DEF Reset, Goto
  <1>2. CASE pc \in {"erase", "write"}
    <2>1. flash' = flash \/ Update!Altered
      <3>1. PICK x \in {flash[rcvd[2].a], Torn, Blank, rcvd[3].d} :
              flash' = [flash EXCEPT ![rcvd[2].a] = x]
        BY <1>2 DEF Reset, Interrupted
      <3>2. rcvd[2].a \in Pages /\ rcvd[3].d \in {NewApp[rcvd[2].a], Blank}
        BY <1>2 DEF DeviceOK, Programming
      <3>3. CASE x = flash[rcvd[2].a]
        BY <3>1, <3>2, <3>3 DEF DeviceOK
      <3>4. CASE x # flash[rcvd[2].a]
        BY <3>1, <3>2, <3>4 DEF Update!Altered
      <3> QED
        BY <3>3, <3>4
    <2> QED
      BY <1>0, <1>1, <1>2, <2>1, Zenon DEF Effects
  <1>3. CASE pc \notin {"erase", "write"}
    <2>1. flash' = flash
      BY <1>3 DEF Reset, Interrupted
    <2> QED
      BY <1>0, <1>1, <2>1, Zenon DEF Effects
  <1> QED
    BY <1>2, <1>3

LEMMA StepEffects ==
  ASSUME TypeInv, [Next]_vars
  PROVE  Effects
  <1>1. DeviceOK
    BY DEF TypeInv
  <1>2. CASE flash' = flash /\ cold' = cold /\ (pc' = pc \/ pc' # "app")
    BY <1>2 DEF Effects
  <1>3. ASSUME NEW d, Write(d), d \in {rcvd[3].d, Torn}
        PROVE  Effects
    <2>1. rcvd[2].a \in Pages /\ d \in {Blank, Torn, NewApp[rcvd[2].a]}
      BY <1>1, <1>3 DEF DeviceOK, Programming, Write
    <2>2. Update!Altered
      BY <1>3, <2>1 DEF Write, Update!Altered
    <2> QED
      BY <1>3, <2>2 DEF Write, Goto, Effects
  <1>4. CASE Erase
    <2>1. rcvd[2].a \in Pages
      BY <1>1, <1>4 DEF DeviceOK, Programming, Erase
    <2>2. Update!Altered
      BY <1>4, <2>1 DEF Erase, Update!Altered
    <2> QED
      BY <1>4, <2>2 DEF Erase, Effects
  <1>5. CASE Boot
    <2>1. ~ CrcValid
      BY <1>1, Distinct DEF DeviceOK, CrcValid, EepromCrc
    <2> QED
      BY <1>5, <2>1 DEF Boot, Goto, Effects
  <1>6. CASE Deliver
    <2>1. flash' = flash /\ cold' = cold
      BY <1>6 DEF Deliver
    <2>2. ASSUME NEW t, Receive(t)
          PROVE  pc' # "app" \/ StartedByCommand
      BY <2>2 DEF Receive, Goto, StartedByCommand
    <2> QED
      BY <1>2, <1>6, <2>1, <2>2 DEF Deliver, Effects
  <1>7. CASE Stat \/ EnterFromApp
    BY <1>2, <1>7 DEF Stat, EnterFromApp, Goto
  <1>8. CASE ClearFlags
    <2>1. pc = "app" /\ pc' = pc /\ cold' = FALSE /\ flash' = flash
      BY <1>8 DEF ClearFlags
    <2>2. pc' = "app"
      BY <2>1
    <2> QED
      BY <2>1, <2>2, Zenon DEF Effects
  <1>9. CASE PowerFailure
    BY <1>1, <1>9, ResetEffects DEF PowerFailure
  <1>10. CASE Run
    <2>1. CASE wired
      BY <1>1, <1>10, <2>1, ResetEffects DEF Run
    <2>2. CASE ~ wired
      BY <1>2, <1>10, <2>2 DEF Run
    <2> QED
      BY <2>1, <2>2
  <1>11. CASE Sync
    BY <1>2, <1>11 DEF Sync, Goto
  <1>12. CASE SyncFails \/ Timeout \/ Retry \/ Accept \/ Restart \/ Started \/ UNCHANGED vars
    <2>1. UNCHANGED device
      BY <1>12, Zenon DEF SyncFails, Timeout, Retry, Accept, Restart, Started, vars
    <2> QED
      BY <1>2, <2>1 DEF device
  <1>13. CASE Resume \/ SendCommand \/ Rx \/ LineFault
    <2>1. UNCHANGED flash /\ UNCHANGED cold /\ UNCHANGED pc
      BY <1>13, Zenon DEF Resume, SendCommand, Rx, LineFault
    <2> QED
      BY <1>2, <2>1
  <1>14. CASE DeviceRuns
    BY <1>3, <1>4, <1>5, <1>6, <1>7, <1>14 DEF DeviceRuns, DeviceStep
  <1>15. CASE AppRuns \/ FlashFault
    BY <1>3, <1>7, <1>8, <1>15 DEF AppRuns, FlashFault
  <1> QED
    BY <1>9, <1>10, <1>11, <1>12, <1>13, <1>14, <1>15, Zenon DEF Next, HostRuns

LEMMA UpdateStep ==
  ASSUME TypeInv, [Next]_vars, StartedByCommand => flash \in {OldApp, NewApp}
  PROVE  [Update!Next]_(Update!vars)
  <1>1. flash # None /\ flash' # None /\ cold \in BOOLEAN /\ cold' \in BOOLEAN
    BY StepTyped, Distinct DEF TypeInv, DeviceOK
  <1>2. Effects
    BY StepEffects
  <1>3. (~ cold)' \in {~ cold, FALSE} <=> (cold' = cold \/ cold' = TRUE)
    BY <1>1
  <1>4. CASE pc # "app" /\ pc' # "app"
    <2>1. Running = None /\ Running' = None
      BY <1>4 DEF Running
    <2>2. flash' = flash \/ Update!Altered
      BY <1>2 DEF Effects
    <2>3. cold' = cold \/ cold' = TRUE
      BY <1>2, <1>4 DEF Effects
    <2>4. Update!Program
      BY <1>3, <2>1, <2>2, <2>3, Zenon DEF Update!Program
    <2> QED
      BY <2>4 DEF Update!Next
  <1>5. CASE pc # "app" /\ pc' = "app"
    <2>1. flash' = flash /\ cold' = cold /\ (~ cold \/ StartedByCommand)
      BY <1>2, <1>5 DEF Effects
    <2>2. Running = None /\ Running' = flash
      BY <1>5, <2>1 DEF Running
    <2> QED
      BY <2>1, <2>2 DEF Update!Next, Update!Start
  <1>6. CASE pc = "app"
    <2>1. flash' = flash /\ Running = flash
      BY <1>2, <1>6 DEF Effects, Running
    <2>2. CASE pc' = "app"
      <3>1. cold' = cold \/ cold' = FALSE
        BY <1>2, <2>2 DEF Effects
      <3>2. Running' = Running
        BY <2>1, <2>2 DEF Running
      <3>3. CASE cold' = cold
        BY <2>1, <3>2, <3>3 DEF Update!vars
      <3>4. CASE cold' = FALSE
        <4>1. (~ cold)' = TRUE
          BY <3>4
        <4> QED
          BY <1>1, <2>1, <3>2, <4>1 DEF Update!Next, Update!Clear
      <3> QED
        BY <3>1, <3>3, <3>4, Zenon
    <2>3. CASE pc' # "app"
      <3>1. Running' = None
        BY <2>3 DEF Running
      <3>2. cold' = cold \/ cold' = TRUE
        BY <1>2, <2>3 DEF Effects
      <3> QED
        BY <1>1, <1>3, <2>1, <3>1, <3>2 DEF Update!Next, Update!Stop
    <2> QED
      BY <2>2, <2>3
  <1> QED
    BY <1>4, <1>5, <1>6

LEMMA UpdateInit ==
  ASSUME Init
  PROVE  Update!Init
  <1>1. flash # None /\ cold \in BOOLEAN
    BY InitTyped, Distinct DEF TypeInv, DeviceOK
  <1>2. Running \in {None, flash} /\ (~ cold => Running # None) /\ (~ cold) \in BOOLEAN
    BY <1>1 DEF Init, Running
  <1> QED
    BY <1>2 DEF Update!Init, Init, BlankApp

\* Whatever the faults, those of the line included, and whether or not the host
\* resets the device, the memory and the application that runs change as
\* DiaboloUpdate promises, except when the host itself starts the application: a
\* page is erased or given its new content while no application runs, and a reset
\* starts one that is not whole only after an application cleared EXTRF and PORF.
THEOREM MemoriesAsPromised ==
  Spec => Update!Init /\ [][StartedByCommand \/ Update!Next]_(Update!vars)
  <1>1. TypeInv /\ [Next]_vars => [StartedByCommand \/ Update!Next]_(Update!vars)
    BY UpdateStep
  <1> QED
    BY <1>1, UpdateInit, Typed, PTL DEF Spec

-----------------------------------------------------------------------------
(* The dialogue, on a line without faults.                                 *)

\* What a reply is made of.
LEMMA ReplyTokens ==
  ASSUME TypeInv, NEW r \in Replies
  PROVE  /\ r \in Seq(Tokens) /\ Len(r) \in 1 .. 3
         /\ cmd.c # "i" => Len(r) = ReplyLen
         /\ cmd.c \notin {"*", "X"} => r[Len(r)] = Prompt
         /\ cmd.c = "*" => r = <<Error>>
         /\ cmd.c \in {"i", "f", "e"} =>
              Len(r) = 3 /\ \E d \in Values : Truthful(d) /\ r[1] = Bytes(d)
  <1>1. StageCmd(stage, cmd)
    BY DEF TypeInv, HostOK
  <1>2. CASE cmd.c \in {"i", "f", "e"}
    <2>1. PICK d \in {v \in Values : Truthful(v)} :
            r = <<Bytes(d), Crc(cmd.c, cmd.a, d), Prompt>>
      BY <1>2 DEF Replies
    <2>2. cmd.c \in Letters /\ cmd.a \in Addrs
      BY <1>1, <1>2
      DEF StageCmd, Identify, Recompute, StoreCrc, Read, Burn, Command, Letters, Addrs
    <2>3. r \in Seq(Tokens)
      BY <2>1, <2>2, RepliesTyped
    <2> QED
      BY <1>2, <2>1, <2>3 DEF ReplyLen
  <1>3. CASE cmd.c = "F"
    <2>1. PICK c \in {"done", "fail"} : r = <<Code(c), Prompt>>
      BY <1>3 DEF Replies
    <2>2. r \in Seq(Tokens)
      BY <2>1, RepliesTyped DEF Letters
    <2> QED
      BY <1>3, <2>1, <2>2 DEF ReplyLen
  <1>4. CASE cmd.c = "E"
    <2>1. r = <<Prompt>>
      BY <1>4 DEF Replies
    <2> QED
      BY <1>4, <2>1, RepliesTyped DEF ReplyLen, Letters
  <1>5. CASE cmd.c = "X"
    <2>1. r = <<Code("ok")>>
      BY <1>5 DEF Replies
    <2> QED
      BY <1>5, <2>1, RepliesTyped DEF ReplyLen, Letters
  <1>6. CASE cmd.c = "*"
    <2>1. r = <<Error>>
      BY <1>6 DEF Replies
    <2> QED
      BY <1>6, <2>1, RepliesTyped DEF ReplyLen, Letters
  <1> QED
    BY <1>1, <1>2, <1>3, <1>4, <1>5, <1>6, StageCommands

LEMMA RepliesKept ==
  ASSUME UNCHANGED <<stage, cmd, run, flash>>
  PROVE  Replies' = Replies
  BY DEF Replies, Truthful, EepromCrc

\* What the host and the device do when the device is busy or receives something.
LEMMA Situation ==
  ASSUME TypeInv, Dialogue, Apart
  PROVE  /\ pc \in {"erase", "write", "stat"} =>
              Working /\ wait = "reply" /\ Executing
         /\ ~ Away /\ toDev # <<>> =>
              /\ Working /\ pc \in {"error", "prompt"}
              /\ \/ wait = "resume" /\ Resuming
                 \/ wait = "reply" /\ Sending
         /\ Working /\ ~ Away => InStep
         /\ Working /\ Away => Alone
         /\ ~ Working /\ stage = "started" => Away
         /\ ~ Working /\ ~ Away => toDev = <<>> /\ pc \in {"error", "prompt"}
  <1>1. wait \in {"idle", "resume", "reply", "done"}
    BY DEF TypeInv, HostOK
  <1>2. /\ ~ Working => Away \/ (toDev = <<>> /\ pc \in {"error", "prompt"})
        /\ stage = "started" => Away
    BY DEF Working, Apart
  <1>3. Working => IF Away THEN Alone ELSE InStep
    BY DEF Dialogue
  <1>4. pc \in {"erase", "write", "stat"} =>
          ~ Away /\ ~ Ready /\ ~ Resuming /\ ~ Sending /\ ~ Replying
    BY DEF Away, Ready, Resuming, Sending, Replying
  <1>5. toDev # <<>> => ~ Ready /\ ~ Executing /\ ~ Replying
    BY DEF Ready, Executing, Replying
  <1>6. (Resuming => pc \in {"error", "prompt"}) /\ (Sending => pc = "prompt")
    BY DEF Resuming, Sending
  <1> QED
    BY <1>1, <1>2, <1>3, <1>4, <1>5, <1>6 DEF InStep

\* The number of tokens of a command of the host.
LEMMA FrameLen ==
  ASSUME NEW s, NEW m, StageCmd(s, m)
  PROVE  /\ Len(Frame(m)) = CmdLen(Frame(m)[1]) /\ Len(Frame(m)) \in 1 .. 4
         /\ Frame(m)[1] = Cmd(m.c)
         /\ m.c \in {"f", "e", "F", "E"} => Len(Frame(m)) >= 2 /\ Frame(m)[2] = Addr(m.a)
         /\ m.c \in {"F", "E", "X"} => CrcOk(Frame(m))
         /\ m.c \in {"F", "E"} => Frame(m)[3] = Bytes(m.d)
  <1>1. m.c \in {"i", "*", "X", "f", "e", "E", "F"}
    BY DEF StageCmd, Identify, Recompute, StoreCrc, Read, Burn, Command
  <1>2. CASE m.c \in {"i", "*"}
    <2>1. Frame(m) = <<Cmd(m.c)>>
      BY <1>2 DEF Frame
    <2> QED
      BY <1>2, <2>1 DEF CmdLen, Cmd, Token
  <1>3. CASE m.c = "X"
    <2>1. Frame(m) = <<Cmd("X"), Crc("X", None, None)>>
      BY <1>3 DEF Frame
    <2> QED
      BY <1>3, <2>1 DEF CmdLen, Cmd, Token, CrcOk
  <1>4. CASE m.c \in {"f", "e"}
    <2>1. Frame(m) = <<Cmd(m.c), Addr(m.a)>>
      BY <1>4 DEF Frame
    <2> QED
      BY <1>4, <2>1 DEF CmdLen, Cmd, Token
  <1>5. CASE m.c \in {"F", "E"}
    <2>1. Frame(m) = <<Cmd(m.c), Addr(m.a), Bytes(m.d), Crc(m.c, m.a, m.d)>>
      BY <1>5 DEF Frame
    <2> QED
      BY <1>5, <2>1 DEF CmdLen, Cmd, Addr, Bytes, Token, CrcOk
  <1> QED
    BY <1>1, <1>2, <1>3, <1>4, <1>5

\* What the device answers as soon as it has received a command.
LEMMA CommandExecuted ==
  ASSUME TypeInv, Apart, Working, pc = "prompt", toHost = <<>>, got = <<>>,
         toDev' = <<>>, UNCHANGED <<host, flash, appcrc>>,
         cmd.c # "*", Execute(Frame(cmd))
  PROVE  \/ (Executing \/ Replying)'
         \/ pc' = "app" /\ \E r \in Replies' : Part(r, got', toHost')
  <1> DEFINE f == Frame(cmd)
  <1>1. StageCmd(stage, cmd)
    BY DEF TypeInv, HostOK
  <1>2. /\ f[1].c = cmd.c /\ f[1] = Cmd(cmd.c)
        /\ cmd.c \in {"f", "e", "F", "E"} => f[2].a = cmd.a
        /\ cmd.c \in {"F", "E", "X"} => CrcOk(f)
    <2>1. /\ f[1] = Cmd(cmd.c)
          /\ cmd.c \in {"f", "e", "F", "E"} => f[2] = Addr(cmd.a)
          /\ cmd.c \in {"F", "E", "X"} => CrcOk(f)
      BY <1>1, FrameLen
    <2> HIDE DEF f
    <2> QED
      BY <2>1 DEF Cmd, Addr, Token
  <1>3. /\ got' = <<>> /\ cmd' = cmd /\ stage' = stage /\ Replies' = Replies
    BY RepliesKept DEF host
  <1>4. ASSUME NEW s \in Replies, Goto("prompt"), Send(s), cmd.c # "X"
        PROVE  Replying'
    <2>1. s \in Seq(Tokens)
      BY ReplyTokens
    <2>2. toHost' = s
      BY <1>4, <2>1, ConcatProperties, ConcatEmptySeq DEF Send
    <2>3. Whole(s, got', toHost')
      BY <1>3, <2>1, <2>2, WholeToCome
    <2>4. (\E r \in Replies : Whole(r, got, toHost))'
      BY <1>3, <2>3
    <2> QED
      BY <1>3, <1>4, <2>4 DEF Goto, Replying
  <1>5. ASSUME NEW d \in Values, Truthful(d), cmd.c \in {"i", "f", "e"},
               Goto("prompt"), Send(<<Bytes(d), Crc(cmd.c, cmd.a, d), Prompt>>)
        PROVE  Replying'
    <2>1. <<Bytes(d), Crc(cmd.c, cmd.a, d), Prompt>> \in Replies
      BY <1>5 DEF Replies
    <2> QED
      BY <1>4, <1>5, <2>1
  <1>6. CASE cmd.c = "i"
    <2>1. Goto("prompt") /\ Send(<<Bytes(appcrc), Crc("i", None, appcrc), Prompt>>)
      BY <1>2, <1>6 DEF Execute
    <2>2. cmd.a = None /\ stage = "identify"
      BY <1>1, <1>6, StageCommands DEF Working, StageCmd, Identify, Command
    <2>3. appcrc \in Values /\ Truthful(appcrc)
      BY <2>2 DEF TypeInv, DeviceOK, Values, Apart, Away, Truthful
    <2> QED
      BY <1>5, <1>6, <2>1, <2>2, <2>3
  <1>7. CASE cmd.c = "f"
    <2>1. cmd.a \in Pages
      BY <1>1, <1>7, StageCommands
    <2>2. Goto("prompt") /\ Send(<<Bytes(flash[cmd.a]), Crc("f", cmd.a, flash[cmd.a]), Prompt>>)
      BY <1>2, <1>7, <2>1 DEF Execute
    <2>3. flash[cmd.a] \in Values /\ Truthful(flash[cmd.a])
      BY <1>1, <1>7, <2>1, FlashTyped, StageCommands DEF TypeInv, DeviceOK, Truthful
    <2> QED
      BY <1>5, <1>7, <2>2, <2>3
  <1>8. CASE cmd.c = "e"
    <2>1. Goto("prompt") /\ Send(<<Bytes(EepromCrc), Crc("e", cmd.a, EepromCrc), Prompt>>)
      BY <1>2, <1>8 DEF Execute
    <2>2. EepromCrc \in Values
      BY DEF Values, EepromCrc
    <2>3. Truthful(EepromCrc)
      BY <1>1, <1>8, StageCommands DEF Truthful
    <2> QED
      BY <1>5, <1>8, <2>1, <2>2, <2>3
  <1>9. CASE cmd.c = "F"
    <2>1. pc' = "erase" /\ rcvd' = f /\ UNCHANGED toHost
      BY <1>2, <1>9 DEF Execute
    <2> QED
      BY <1>3, <1>9, <2>1 DEF Executing
  <1>10. CASE cmd.c = "E"
    <2>1. Goto("prompt") /\ Send(<<Prompt>>)
      BY <1>2, <1>10 DEF Execute
    <2>2. <<Prompt>> \in Replies
      BY <1>10 DEF Replies
    <2> QED
      BY <1>4, <1>10, <2>1, <2>2
  <1>11. CASE cmd.c = "X"
    <2>1. Goto("app") /\ Send(<<Code("ok")>>)
      BY <1>2, <1>11 DEF Execute
    <2>2. <<Code("ok")>> \in Replies /\ <<Code("ok")>> \in Seq(Tokens)
      BY <1>11, RepliesTyped DEF Replies, Letters
    <2>3. toHost' = <<Code("ok")>>
      BY <2>1, <2>2, ConcatProperties, ConcatEmptySeq DEF Send
    <2>4. Part(<<Code("ok")>>, got', toHost')
      BY <1>3, <2>2, <2>3, WholeToCome DEF Whole
    <2> QED
      BY <1>3, <2>1, <2>2, <2>4 DEF Goto
  <1> QED
    BY <1>1, <1>6, <1>7, <1>8, <1>9, <1>10, <1>11, StageCommands

LEMMA CommandReceived ==
  ASSUME TypeInv, Apart, Working, Sending, Deliver, UNCHANGED host
  PROVE  \/ (Sending \/ Executing \/ Replying)'
         \/ pc' = "app" /\ \E r \in Replies' : Part(r, got', toHost')
  <1> DEFINE f == Frame(cmd)
             r == Append(rcvd, Head(toDev))
  <1>1. StageCmd(stage, cmd) /\ rcvd \in Seq(DevTokens) /\ toDev \in Seq(DevTokens)
    BY DEF TypeInv, HostOK, DeviceOK, LineOK
  <1>2. f \in Seq(DevTokens) /\ f[1] = Cmd(cmd.c) /\ Len(f) = CmdLen(f[1]) /\ Len(f) \in 1 .. 4
    BY <1>1, FrameTyped, FrameLen
  <1>3. /\ Part(f, r, toDev') /\ Len(r) = Len(rcvd) + 1 /\ Len(toDev') = Len(toDev) - 1
        /\ Len(rcvd) + Len(toDev) = Len(f)
        /\ r \in Seq(DevTokens) /\ toDev' \in Seq(DevTokens)
    BY <1>1, <1>2, PartMoves, HeadTailProperties, AppendProperties DEF Sending, Whole, Deliver
  <1>4. Len(rcvd) \in Nat /\ Len(toDev) \in Nat
    BY <1>1, LenProperties
  <1>5. Whole(f, r, toDev')
    BY <1>2, <1>3, <1>4 DEF Whole
  <1>6. r[1] = Cmd(cmd.c)
    BY <1>2, <1>3, <1>4 DEF Part
  <1>7. toDev' = <<>> <=> Len(r) = Len(f)
    BY <1>2, <1>3, <1>4, EmptySeq
  <1>8. toDev' = <<>> => r = f
    BY <1>2, <1>3, <1>5, WholeReceived
  <1>9. /\ pc = "prompt" /\ toHost = <<>> /\ got = <<>> /\ Receive(Head(toDev))
        /\ UNCHANGED <<flash, rxlow, appcrc>> /\ cmd' = cmd /\ got' = <<>>
    BY DEF Deliver, Sending, host
  <1>10. IF r[1].k # "cmd" \/ r[1].c \in {"eol", "*"}
         THEN Goto("stat") /\ UNCHANGED toHost
         ELSE IF Len(r) < CmdLen(r[1])
              THEN pc' = pc /\ rcvd' = r /\ UNCHANGED toHost
              ELSE Execute(r)
    BY <1>9 DEF Receive
  <1> HIDE DEF r, f
  <1>11. r[1].k = "cmd" /\ r[1].c = cmd.c /\ cmd.c # "eol" /\ CmdLen(r[1]) = Len(f)
    BY <1>1, <1>2, <1>6, StageCommands DEF Cmd, Token
  <1>12. CASE cmd.c = "*"
    <2>1. pc' = "stat" /\ rcvd' = <<>> /\ toHost' = <<>>
      BY <1>9, <1>10, <1>11, <1>12 DEF Goto
    <2>2. Len(f) = 1
      BY <1>2, <1>12 DEF CmdLen, Cmd, Token
    <2>3. toDev' = <<>>
      BY <1>2, <1>3, <1>4, <1>7, <2>2
    <2>4. cmd = Recompute
      BY <1>1, <1>12 DEF StageCmd, Identify, Recompute, StoreCrc, Read, Burn, Command
    <2> QED
      BY <1>9, <2>1, <2>3, <2>4 DEF Executing
  <1>13. CASE cmd.c # "*" /\ Len(r) < Len(f)
    <2>1. pc' = "prompt" /\ rcvd' = r /\ toHost' = <<>>
      BY <1>9, <1>10, <1>11, <1>13
    <2>2. toDev' # <<>> /\ Whole(Frame(cmd), rcvd, toDev)'
      BY <1>5, <1>7, <1>9, <1>13, <2>1 DEF f
    <2> QED
      BY <1>9, <2>1, <2>2 DEF Sending
  <1>14. CASE cmd.c # "*" /\ Len(r) = Len(f)
    <2>1. Execute(Frame(cmd)) /\ toDev' = <<>>
      BY <1>7, <1>8, <1>10, <1>11, <1>14 DEF f
    <2> QED
      BY <1>9, <1>14, <2>1, CommandExecuted
  <1> QED
    BY <1>2, <1>3, <1>4, <1>12, <1>13, <1>14

\* The device is alone.
LEMMA AwayTalks ==
  ASSUME TypeInv, Dialogue, Apart, Away, UNCHANGED host, DeviceMoves
  PROVE  Dialogue' /\ Apart' /\ Away' /\ UNCHANGED flash
  <1>1. UNCHANGED flash /\ UNCHANGED toHost /\ Away'
    <2>1. CASE Boot
      BY <2>1 DEF Boot, Goto, Away
    <2>2. CASE EnterFromApp \/ ClearFlags
      BY <2>2 DEF EnterFromApp, ClearFlags, Goto, Away
    <2>3. CASE Deliver
      <3>1. UNCHANGED <<pc, toHost>>
        BY <2>3 DEF Deliver, Receive, Away
      <3> QED
        BY <2>3, <3>1 DEF Deliver, Away
    <2>4. ~ (Stat \/ Erase \/ (pc = "write" /\ Write(rcvd[3].d)) \/ Write(Torn))
      BY DEF Away, Stat, Erase, Write
    <2> QED
      BY <2>1, <2>2, <2>3, <2>4 DEF DeviceMoves, DeviceStep
  <1>2. UNCHANGED <<stage, wait, cmd, last, got, run>> /\ Replies' = Replies
    BY <1>1, RepliesKept DEF host
  <1>3. Working => Alone
    BY DEF Dialogue
  <1>4. Alone => Alone'
    BY <1>1, <1>2 DEF Alone
  <1>5. Dialogue'
    BY <1>1, <1>2, <1>3, <1>4 DEF Dialogue, Working
  <1>6. Apart'
    BY <1>1, <1>2 DEF Apart
  <1> QED
    BY <1>1, <1>5, <1>6

\* The device executes a command.
LEMMA ExecutingTalks ==
  ASSUME TypeInv, Executing, UNCHANGED host,
         Stat \/ Erase \/ (pc = "write" /\ Write(rcvd[3].d)) \/ Write(Torn)
  PROVE  /\ (Executing \/ Replying)' /\ ~ Away'
         /\ cmd.c # "F" => flash' = flash
         /\ cmd # Recompute => appcrc' = appcrc
  <1>1. /\ cmd' = cmd /\ got' = got /\ got = <<>> /\ toDev = <<>> /\ toHost = <<>>
        /\ stage' = stage
    BY DEF Executing, host
  <1>2. ASSUME NEW s \in Seq(Tokens), Send(s), s \in Replies', rcvd' = <<>>, toDev' = <<>>,
               pc' = (IF cmd.c = "*" THEN "error" ELSE "prompt"), cmd.c # "X",
               cmd.c = "*" => appcrc' # None
        PROVE  Replying'
    <2>1. toHost' = s
      BY <1>1, <1>2, ConcatProperties, ConcatEmptySeq DEF Send
    <2>2. Whole(s, got', toHost')
      BY <1>1, <1>2, <2>1, WholeToCome
    <2>3. (\E r \in Replies : Whole(r, got, toHost))'
      BY <1>2, <2>2
    <2> QED
      BY <1>1, <1>2, <2>3 DEF Replying
  <1>3. CASE Stat
    <2>1. cmd = Recompute /\ cmd.c = "*"
      BY <1>3 DEF Stat, Executing, Recompute, Command
    <2>2. <<Error>> \in Replies'
      BY <1>1, <2>1 DEF Replies, Recompute, Command
    <2>3. appcrc' # None
      BY <1>3, Distinct DEF Stat, TypeInv, DeviceOK
    <2>4. Replying'
      BY <1>1, <1>2, <1>3, <2>1, <2>2, <2>3, RepliesTyped DEF Stat, Goto
    <2> QED
      BY <1>3, <2>1, <2>4 DEF Stat, Goto, Away
  <1>4. CASE Erase
    <2>1. Executing'
      BY <1>1, <1>4 DEF Erase, Executing
    <2> QED
      BY <1>4, <2>1 DEF Erase, Executing, Away
  <1>5. ASSUME NEW d, Write(d)
        PROVE  Replying' /\ ~ Away' /\ cmd.c = "F" /\ appcrc' = appcrc
    <2>1. PICK c \in {"done", "fail"} : Send(<<Code(c), Prompt>>)
      BY <1>5 DEF Write
    <2>2. cmd.c = "F"
      BY <1>5 DEF Write, Executing
    <2>3. <<Code(c), Prompt>> \in Replies' /\ <<Code(c), Prompt>> \in Seq(Tokens)
      BY <1>1, <2>2, RepliesTyped DEF Replies, Letters
    <2>4. Replying'
      BY <1>1, <1>2, <1>5, <2>1, <2>2, <2>3 DEF Write, Goto
    <2> QED
      BY <1>5, <2>2, <2>4 DEF Write, Goto, Away
  <1> QED
    BY <1>3, <1>4, <1>5, Zenon

\* The device is in the dialogue, or waits for the next run of the host.
LEMMA InStepTalks ==
  ASSUME TypeInv, Dialogue, Apart, ~ Away, UNCHANGED host, DeviceMoves
  PROVE  /\ Dialogue' /\ Apart' /\ Working
         /\ cmd.c # "F" => flash' = flash
  <1> DEFINE Busy == Stat \/ Erase \/ (pc = "write" /\ Write(rcvd[3].d)) \/ Write(Torn)
  <1>1. UNCHANGED <<stage, wait, cmd, last, got, run>> /\ StageCmd(stage, cmd)
    BY DEF host, TypeInv, HostOK
  <1>2. Busy \/ Deliver
    BY DEF DeviceMoves, DeviceStep, Boot, EnterFromApp, ClearFlags, Away
  <1>3. Busy => pc \in {"erase", "write", "stat"}
    BY DEF Stat, Erase, Write
  <1>4. Busy => Working /\ wait = "reply" /\ Executing
    BY <1>3, Situation
  <1>5. Busy => /\ (Executing \/ Replying)' /\ ~ Away'
                /\ cmd.c # "F" => flash' = flash
                /\ cmd # Recompute => appcrc' = appcrc
    BY <1>4, ExecutingTalks
  <1>6. Deliver => toDev # <<>> /\ flash' = flash /\ appcrc' = appcrc
    BY DEF Deliver
  <1>7. Deliver => /\ Working
                   /\ \/ wait = "resume" /\ Resuming
                      \/ wait = "reply" /\ Sending
    BY <1>6, Situation
  <1>8. ASSUME Deliver, wait = "resume", Resuming
        PROVE  Resuming' /\ ~ Away'
    <2>1. toDev = <<Eol>> /\ toHost = <<>> /\ pc = "error"
      BY <1>6, <1>8 DEF Resuming
    <2>2. Head(toDev) = Eol /\ toDev' = <<>>
      BY <1>8, <2>1 DEF Deliver
    <2>3. Goto("prompt") /\ Send(<<Prompt>>)
      BY <1>8, <2>1, <2>2 DEF Deliver, Receive
    <2>4. toHost' = <<Prompt>>
      BY <2>1, <2>3, RepliesTyped, ConcatProperties, ConcatEmptySeq DEF Send
    <2> QED
      BY <2>2, <2>3, <2>4 DEF Goto, Resuming, Away
  <1>9. ASSUME Deliver, wait = "reply", Sending
        PROVE  \/ (Sending \/ Executing \/ Replying)'
               \/ pc' = "app" /\ \E r \in Replies' : Part(r, got', toHost')
    BY <1>7, <1>9, CommandReceived
  <1> HIDE DEF Busy
  <1>10. Working /\ wait # "done" /\ Working'
    BY <1>1, <1>2, <1>4, <1>7 DEF Working
  <1>11. \/ ~ Away' /\ InStep'
         \/ Away' /\ Alone'
    <2>1. CASE Busy
      BY <1>1, <1>4, <1>5, <2>1 DEF InStep
    <2>2. CASE Deliver /\ wait = "resume" /\ Resuming
      BY <1>1, <1>8, <2>2 DEF InStep
    <2>3. CASE Deliver /\ wait = "reply" /\ Sending
      <3>1. (Sending \/ Executing \/ Replying)' => ~ Away'
        BY DEF Sending, Executing, Replying, Away
      <3> QED
        BY <1>1, <1>9, <2>3, <3>1 DEF InStep, Alone, Away
    <2> QED
      BY <1>2, <1>7, <2>1, <2>2, <2>3
  <1>12. Dialogue'
    BY <1>1, <1>10, <1>11 DEF Dialogue
  <1>13. /\ cmd.c # "F" => flash' = flash
         /\ cmd # Recompute => appcrc' = appcrc
    BY <1>2, <1>5, <1>6
  <1>14. Apart'
    <2>1. stage = "identify" => cmd.c # "F" /\ cmd # Recompute
      BY <1>1 DEF StageCmd, Identify, Recompute, Command
    <2> QED
      BY <1>1, <1>10, <1>13, <2>1 DEF Apart, Working
  <1> QED
    BY <1>10, <1>12, <1>13, <1>14

LEMMA PartShorter ==
  ASSUME NEW S, NEW f \in Seq(S), NEW s \in Seq(S), NEW t \in Seq(S), Part(f, s, t),
         NEW n \in 0 .. Len(t)
  PROVE  Part(f, s, SubSeq(t, 1, n))
  <1> DEFINE u == SubSeq(t, 1, n)
  <1>1. Len(s) \in Nat /\ Len(t) \in Nat /\ Len(f) \in Nat
    BY LenProperties
  <1>2. u = [i \in 1 .. n |-> t[i]]
    BY <1>1, SMT
  <1>3. Len(u) = n /\ \A i \in 1 .. n : u[i] = t[i]
    BY <1>1, <1>2
  <1> HIDE DEF u
  <1>4. n \in Int /\ n <= Len(t)
    BY <1>1
  <1>5. Len(s) + Len(u) <= Len(f)
    BY <1>1, <1>3, <1>4, SMT DEF Part
  <1>6. \A i \in 1 .. Len(u) : i \in 1 .. Len(t) /\ u[i] = t[i]
    BY <1>1, <1>3, <1>4, SMT
  <1>7. Part(f, s, u)
    BY <1>5, <1>6 DEF Part
  <1> QED
    BY <1>7 DEF u

LEMMA PowerTalks ==
  ASSUME TypeInv, Dialogue, Apart, PowerFailure
  PROVE  /\ Dialogue' /\ Apart'
         /\ ~ Working \/ cmd.c # "F" => flash' = flash
  <1>1. /\ UNCHANGED <<stage, wait, cmd, last, got, run, toDev, appcrc>>
        /\ pc' = "reset" /\ Away' /\ Interrupted
    BY DEF PowerFailure, Fault, host, Reset, Goto, Away
  <1>2. PICK n \in 0 .. Len(toHost) : toHost' = SubSeq(toHost, 1, n)
    BY DEF PowerFailure
  <1>3. toHost \in Seq(Tokens) /\ got \in Seq(Tokens)
    BY DEF TypeInv, LineOK, HostOK
  <1>4. toHost = <<>> => toHost' = <<>>
    <2>1. toHost = <<>> => n = 0
      BY <1>2
    <2> QED
      BY <1>2, <2>1, SubSeqEmpty
  <1>5. pc \notin {"erase", "write"} => flash' = flash
    BY <1>1 DEF Interrupted
  <1>6. ~ Working \/ cmd.c # "F" => flash' = flash
    <2>1. pc \in {"erase", "write"} => Working /\ cmd.c = "F"
      BY Situation DEF Executing
    <2> QED
      BY <1>5, <2>1
  <1>7. Working => Alone'
    <2> SUFFICES ASSUME Working PROVE Alone'
      OBVIOUS
    <2>1. wait = "idle" => toHost' = <<>>
      BY <1>4, Situation DEF Alone, InStep, Ready
    <2>2. wait = "resume" => toHost' \in {<<>>, <<Prompt>>}
      <3>1. wait = "resume" => toHost \in {<<>>, <<Prompt>>}
        BY Situation DEF Alone, InStep, Resuming
      <3>2. ASSUME toHost = <<Prompt>>
            PROVE  toHost' \in {<<>>, <<Prompt>>}
        <4>1. n = 0 \/ n = Len(toHost)
          BY <1>2, <3>2
        <4>2. SubSeq(toHost, 1, Len(toHost)) = toHost
          BY <1>3, SubSeqFull
        <4>3. SubSeq(toHost, 1, 0) = <<>>
          BY SubSeqEmpty
        <4> QED
          BY <1>2, <3>2, <4>1, <4>2, <4>3
      <3> QED
        BY <1>4, <3>1, <3>2
    <2>3. wait \in {"reply", "done"} =>
            \/ got = <<>> /\ toHost = <<>>
            \/ /\ \E r \in Replies : Part(r, got, toHost)
               /\ pc \notin {"erase", "write"}
      BY Situation DEF Alone, InStep, Sending, Executing, Replying, Whole, Away
    <2>4. ASSUME \E r \in Replies : Part(r, got, toHost),
                 pc \notin {"erase", "write"}
          PROVE  \E r \in Replies' : Part(r, got', toHost')
      <3>1. PICK r \in Replies : Part(r, got, toHost)
        BY <2>4
      <3>2. Part(r, got, toHost')
        BY <1>2, <1>3, <3>1, ReplyTokens, PartShorter
      <3>3. Replies' = Replies
        BY <1>1, <1>5, <2>4, RepliesKept
      <3> QED
        BY <1>1, <3>2, <3>3
    <2> QED
      BY <1>1, <1>4, <2>1, <2>2, <2>3, <2>4 DEF Alone
  <1>8. Dialogue'
    BY <1>1, <1>4, <1>7 DEF Dialogue, Working
  <1>9. Apart'
    BY <1>1, <1>4 DEF Apart
  <1> QED
    BY <1>6, <1>8, <1>9

-----------------------------------------------------------------------------
(* The host in the dialogue.                                               *)

\* The reception is over.
LEMMA Answered ==
  ASSUME TypeInv, Dialogue, Apart, Working, wait = "done"
  PROVE  /\ toHost = <<>>
         /\ ~ Away => /\ toDev = <<>> /\ rcvd = <<>> /\ cmd.c # "X"
                      /\ pc = IF cmd.c = "*" THEN "error" ELSE "prompt"
                      /\ cmd.c = "*" => appcrc # None
                      /\ last = IF cmd.c = "*" THEN "!" ELSE "#"
         /\ GoodReply /\ cmd.c \in {"i", "f", "e"} =>
              Truthful(got[1].d) /\ got[1].d \in Values
  <1>1. toHost = <<>> /\ got \in Seq(Tokens) /\ StageCmd(stage, cmd)
        /\ last = IF got = <<>> THEN "none" ELSE LastChar(got[Len(got)])
    BY DEF Dialogue, TypeInv, HostOK
  <1>2. ASSUME NEW r \in Replies, Part(r, got, toHost),
               GoodReply, cmd.c \in {"i", "f", "e"}
        PROVE  Truthful(got[1].d)
    <2>1. PICK d \in Values : Truthful(d) /\ r[1] = Bytes(d)
      BY <1>2, ReplyTokens
    <2>2. Len(got) = 3
      BY <1>2 DEF GoodReply
    <2>3. got[1] = Bytes(d)
      BY <1>2, <2>1, <2>2 DEF Part
    <2> QED
      BY <2>1, <2>3 DEF Bytes, Token
  <1>3. GoodReply => got # <<>>
    BY <1>1 DEF GoodReply
  <1>4. CASE Away
    <2>1. Alone
      BY <1>4, Situation
    <2> QED
      BY <1>1, <1>2, <1>3, <1>4, <2>1, ReplyTyped DEF Alone
  <1>5. CASE ~ Away
    <2>1. Replying
      BY <1>5, Situation DEF InStep
    <2>2. PICK r \in Replies : Whole(r, got, toHost)
      BY <2>1 DEF Replying
    <2>3. r \in Seq(Tokens) /\ got = r /\ Len(r) \in 1 .. 3 /\ r # <<>>
      <3>1. r \in Seq(Tokens) /\ Len(r) \in 1 .. 3
        BY <2>2, ReplyTokens
      <3>2. Whole(r, got, <<>>)
        BY <1>1, <2>2
      <3>3. got = r
        BY <1>1, <3>1, <3>2, WholeReceived
      <3> QED
        BY <3>1, <3>3
    <2>4. last = LastChar(r[Len(r)])
      BY <1>1, <2>3
    <2>5. last = IF cmd.c = "*" THEN "!" ELSE "#"
      <3>1. CASE cmd.c = "*"
        <4>1. r = <<Error>>
          BY <3>1, ReplyTokens
        <4>2. last = LastChar(Error)
          BY <2>4, <4>1
        <4> QED
          BY <3>1, <4>2 DEF LastChar, Error, Code, Token
      <3>2. CASE cmd.c # "*"
        <4>1. last = LastChar(Prompt)
          BY <2>1, <2>4, <3>2, ReplyTokens DEF Replying
        <4> QED
          BY <3>2, <4>1 DEF LastChar, Prompt, Code, Token
      <3> QED
        BY <3>1, <3>2
    <2>6. GoodReply /\ cmd.c \in {"i", "f", "e"} => Truthful(got[1].d)
      BY <1>2, <2>2 DEF Whole
    <2>7. GoodReply /\ cmd.c \in {"i", "f", "e"} => got[1].d \in Values
      BY <1>1, ReplyTyped
    <2> QED
      BY <1>1, <1>5, <2>1, <2>5, <2>6, <2>7 DEF Replying
  <1> QED
    BY <1>4, <1>5

\* The host goes on with its program after a reply.
LEMMA GoesOn ==
  ASSUME TypeInv, Dialogue, Apart, Working, wait = "done", cmd.c \notin {"*", "X"},
         UNCHANGED <<device, last>>, wait' = "idle"
  PROVE  /\ Dialogue'
         /\ stage' \notin {"sync", "started", "identify"} => Apart'
         /\ UNCHANGED <<stage, run>> => Apart'
  <1>1. UNCHANGED <<flash, pc, rcvd, appcrc, toDev, toHost>>
    BY DEF device
  <1>2. toHost = <<>>
        /\ (~ Away => toDev = <<>> /\ rcvd = <<>> /\ last = "#" /\ pc = "prompt")
    BY Answered
  <1>3. ~ Away => Ready'
    BY <1>1, <1>2 DEF Ready
  <1>4. Dialogue'
    BY <1>1, <1>2, <1>3 DEF Dialogue, Alone, InStep, Away
  <1>5. stage' \notin {"sync", "started", "identify"} => Apart'
    BY <1>1, <1>2 DEF Apart, Away
  <1>6. UNCHANGED <<stage, run>> => Apart'
    BY <1>1 DEF Apart, Working, Away
  <1> QED
    BY <1>4, <1>5, <1>6

\* Where the program goes on.
Onward == wait' = "idle" /\ stage' \notin {"sync", "started", "identify"}

LEMMA FinishOnward ==
  ASSUME NEW r, Finish(r)
  PROVE  Onward
  BY DEF Finish, Die, Go, Onward

LEMMA NextWriteOnward ==
  ASSUME NEW r, NextWrite(r)
  PROVE  Onward
  BY FinishOnward DEF NextWrite, Go, Onward

LEMMA CompareOnward ==
  ASSUME NEW r, Compare(r)
  PROVE  Onward
  BY FinishOnward, NextWriteOnward DEF Compare, Go, Onward

LEMMA AcceptOnward ==
  ASSUME Accept
  PROVE  Onward
  <1>1. ASSUME NEW s, NEW m, NEW r, Go(s, m, r), s \notin {"sync", "started", "identify"}
        PROVE  Onward
    BY <1>1 DEF Go, Onward
  <1>2. Die => Onward
    BY DEF Die, Go, Onward
  <1> QED
    BY <1>1, <1>2, FinishOnward, NextWriteOnward, CompareOnward, SMTT(30) DEF Accept

LEMMA HostTalks ==
  ASSUME TypeInv, Dialogue, Apart, HostRuns
  PROVE  Dialogue' /\ Apart'
  <1>1. /\ StageCmd(stage, cmd) /\ toHost \in Seq(Tokens) /\ got \in Seq(Tokens)
        /\ toDev \in Seq(DevTokens) /\ resumes \in Nat
    BY HostAssumption DEF TypeInv, HostOK, LineOK
  <1>2. CASE Run
    <2>1. /\ stage = "off" /\ stage' = "sync" /\ wait' = "idle" /\ toDev' = <<>>
          /\ toHost' = <<>>
      BY <1>2 DEF Run, Go
    <2>2. pc' = pc \/ pc' = "reset"
      BY <1>2 DEF Run, Reset, Goto
    <2> QED
      BY <2>1, <2>2 DEF Dialogue, Working, Apart, Away
  <1>3. CASE Sync
    <2>1. /\ stage' = "identify" /\ wait' = "idle" /\ run' = Fresh /\ pc' = "error"
          /\ toDev' = <<>> /\ toHost' = <<>> /\ rcvd' = <<>> /\ last' = "!"
      BY <1>3 DEF Sync, Goto, Go
    <2>2. Ready'
      BY <2>1 DEF Ready
    <2> QED
      BY <2>1, <2>2 DEF Fresh, Dialogue, Working, Apart, Away, InStep
  <1>4. CASE SyncFails
    BY <1>4 DEF SyncFails, Die, Go, Dialogue, Working, Apart, Away, device
  <1>5. CASE Resume
    <2>1. /\ Working /\ wait = "idle" /\ last # "#"
          /\ UNCHANGED <<flash, pc, rcvd, appcrc, toHost>>
      BY <1>5, Zenon DEF Resume
    <2>2. IF Away THEN toHost = <<>> ELSE Ready
      BY <2>1, Situation DEF Alone, InStep
    <2>3. CASE Die /\ UNCHANGED <<last, toDev>>
      BY <2>1, <2>2, <2>3 DEF Die, Go, Dialogue, Working, Apart, Away, Ready
    <2>4. CASE /\ toDev' = toDev \o <<Eol>> /\ wait' = "resume"
               /\ UNCHANGED <<stage, cmd, got, run>>
      <3>1. ~ Away => toDev' = <<Eol>> /\ Resuming'
        BY <2>1, <2>2, <2>4, TokensTyped, ConcatEmptySeq, ConcatProperties
        DEF Ready, Resuming
      <3> QED
        BY <2>1, <2>2, <2>4, <3>1 DEF Dialogue, Working, Apart, Away, InStep, Alone
    <2> QED
      BY <1>5, <2>3, <2>4 DEF Resume
  <1>6. CASE SendCommand
    <2>1. /\ Working /\ wait = "idle" /\ last = "#"
          /\ UNCHANGED <<flash, pc, rcvd, appcrc, toHost, stage, cmd, run>>
          /\ last' = "none" /\ got' = <<>> /\ wait' = "reply"
          /\ toDev' = toDev \o Frame(cmd)
      BY <1>6 DEF SendCommand
    <2>2. IF Away THEN toHost = <<>> ELSE Ready
      BY <2>1, Situation DEF Alone, InStep
    <2>3. ASSUME ~ Away
          PROVE  Sending'
      <3>1. Frame(cmd) \in Seq(DevTokens) /\ Len(Frame(cmd)) \in 1 .. 4
        BY <1>1, FrameTyped, FrameLen
      <3>2. toDev' = Frame(cmd) /\ toDev' # <<>> /\ rcvd' = <<>> /\ pc' = "prompt" /\ toHost' = <<>>
        <4>1. toDev = <<>> /\ toHost = <<>> /\ rcvd = <<>> /\ pc = "prompt"
          BY <2>1, <2>2, <2>3 DEF Ready
        <4>2. toDev' = Frame(cmd)
          BY <2>1, <3>1, <4>1, ConcatEmptySeq
        <4> QED
          BY <2>1, <3>1, <4>1, <4>2
      <3>3. Whole(Frame(cmd), rcvd, toDev)'
        BY <2>1, <3>1, <3>2, WholeToCome
      <3> QED
        BY <2>1, <3>2, <3>3 DEF Sending
    <2> QED
      BY <2>1, <2>2, <2>3 DEF Dialogue, Working, Apart, Away, InStep, Alone
  <1>7. CASE Rx
    <2>1. /\ UNCHANGED <<flash, pc, rcvd, appcrc, toDev, stage, cmd, run>>
          /\ toHost # <<>> /\ toHost' = Tail(toHost) /\ last' = LastChar(Head(toHost))
      BY <1>7 DEF Rx
    <2>2. Replies' = Replies
      BY <2>1, RepliesKept
    <2>3. CASE wait = "resume" /\ wait' = "idle" /\ UNCHANGED got
      <3>1. Working => toHost = <<Prompt>> /\ (~ Away => Resuming)
        BY <2>1, <2>3, Situation DEF Alone, InStep, Resuming
      <3>2. Working => toHost' = <<>> /\ last' = "#"
        <4>1. Tail(<<Prompt>>) = <<>> /\ Head(<<Prompt>>) = Prompt
          OBVIOUS
        <4>2. LastChar(Prompt) = "#"
          BY DEF LastChar, Prompt, Code, Token
        <4> QED
          BY <2>1, <3>1, <4>1, <4>2
      <3>3. Working /\ ~ Away => Ready'
        BY <2>1, <2>3, <3>1, <3>2 DEF Resuming, Ready
      <3> QED
        BY <2>1, <2>3, <3>2, <3>3 DEF Dialogue, Working, Apart, Away, InStep, Alone
    <2>4. CASE /\ wait = "reply" /\ Len(got) < ReplyLen
               /\ got' = Append(got, Head(toHost))
               /\ wait' = IF Len(got') = ReplyLen THEN "done" ELSE wait
      <3>1. /\ Len(got') = Len(got) + 1 /\ got'[Len(got')] = Head(toHost) /\ got' # <<>>
            /\ Len(got) \in Nat /\ Head(toHost) \in Tokens /\ toHost' \in Seq(Tokens)
            /\ got' \in Seq(Tokens)
        BY <1>1, <2>1, <2>4, AppendProperties, HeadTailProperties, LenProperties
      <3>2. wait' \in {"reply", "done"} =>
              last' = IF got' = <<>> THEN "none" ELSE LastChar(got'[Len(got')])
        BY <2>1, <3>1
      <3>3. ASSUME NEW r \in Replies, Part(r, got, toHost)
            PROVE  /\ Part(r, got', toHost')
                   /\ Whole(r, got, toHost) => Whole(r, got', toHost')
                   /\ wait' = "done" => toHost' = <<>>
        <4>1. /\ r \in Seq(Tokens) /\ Len(r) \in 1 .. 3
              /\ cmd.c # "i" => Len(r) = ReplyLen
          BY ReplyTokens
        <4>2. /\ Part(r, got', toHost') /\ Len(toHost') = Len(toHost) - 1
          BY <1>1, <2>1, <2>4, <3>3, <4>1, PartMoves
        <4>3. Len(toHost) \in Nat /\ Len(toHost') \in Nat
          BY <1>1, <3>1, LenProperties
        <4>4. Whole(r, got, toHost) => Whole(r, got', toHost')
          BY <3>1, <4>2, <4>3 DEF Whole
        <4>5. wait' = "done" => Len(got') = Len(r)
          <5>1. wait' = "done" => Len(got') = ReplyLen
            BY <2>4
          <5>2. cmd.c = "i" => ReplyLen = 99
            BY DEF ReplyLen
          <5>3. Len(got') <= 3
            BY <3>1, <4>1, <4>2, <4>3 DEF Part
          <5> QED
            BY <4>1, <5>1, <5>2, <5>3, <3>1
        <4>6. wait' = "done" => toHost' = <<>>
          BY <3>1, <4>1, <4>2, <4>3, <4>5, EmptySeq DEF Part
        <4> QED
          BY <4>2, <4>4, <4>6
      <3>4. CASE ~ Working
        BY <2>4, <3>4 DEF Dialogue
      <3>5. CASE Working /\ Away
        <4>1. PICK r \in Replies : Part(r, got, toHost)
          BY <2>1, <2>4, <3>5, Situation DEF Alone
        <4>2. /\ \E q \in Replies' : Part(q, got', toHost')
              /\ wait' = "done" => toHost' = <<>>
              /\ wait' \in {"reply", "done"}
          BY <2>2, <2>4, <3>3, <4>1
        <4>3. Alone'
          BY <4>2 DEF Alone
        <4> QED
          BY <2>1, <3>2, <3>5, <4>2, <4>3 DEF Dialogue, Working, Apart, Away
      <3>6. CASE Working /\ ~ Away
        <4>1. Replying
          BY <2>1, <2>4, <3>6, Situation DEF InStep, Sending, Executing
        <4>2. PICK r \in Replies : Whole(r, got, toHost)
          BY <4>1 DEF Replying
        <4>3. /\ Whole(r, got', toHost')
              /\ wait' = "done" => toHost' = <<>>
              /\ wait' \in {"reply", "done"}
          BY <2>4, <3>3, <4>2 DEF Whole
        <4>4. (\E s \in Replies : Whole(s, got, toHost))'
          BY <2>2, <4>3
        <4>5. Replying'
          BY <2>1, <4>1, <4>4 DEF Replying
        <4> QED
          BY <2>1, <3>2, <3>6, <4>3, <4>5 DEF Dialogue, Working, Apart, Away, InStep
      <3> QED
        BY <3>4, <3>5, <3>6
    <2> QED
      BY <1>7, <2>3, <2>4, Zenon DEF Rx
  <1>8. CASE Timeout
    <2>1. UNCHANGED <<flash, pc, rcvd, appcrc, toDev, toHost, stage, cmd, last, got, run>>
      BY <1>8 DEF Timeout, device
    <2>2. /\ toDev = <<>> /\ toHost = <<>> /\ pc \notin {"erase", "write"}
          /\ pc = "stat" => cmd.c # "*"
          /\ \/ wait = "resume" /\ wait' = "idle"
             \/ wait = "reply" /\ wait' = "done"
      BY <1>8 DEF Timeout, Quiet
    <2>3. Working /\ Replies' = Replies
      BY <2>1, <2>2, RepliesKept DEF Dialogue
    <2>4. CASE Away
      <3>1. Alone
        BY <2>3, <2>4, Situation
      <3> QED
        BY <2>1, <2>2, <2>3, <2>4, <3>1 DEF Dialogue, Working, Apart, Away, Alone
    <2>5. CASE ~ Away
      <3>1. ~ Resuming /\ ~ Sending /\ ~ Executing
        BY <2>2 DEF Resuming, Sending, Executing, Recompute, Command
      <3>2. wait = "reply" /\ Replying
        BY <2>2, <2>3, <2>5, <3>1, Situation DEF InStep
      <3>3. Replying'
        BY <2>1, <2>3, <3>2 DEF Replying
      <3> QED
        BY <2>1, <2>2, <2>3, <2>5, <3>2, <3>3 DEF Dialogue, Working, Apart, Away, InStep
    <2> QED
      BY <2>4, <2>5
  <1>9. CASE Retry
    <2>1. /\ wait = "done" /\ cmd.c \notin {"*", "X"} /\ UNCHANGED <<device, last>>
          /\ wait' = "idle" /\ (stage' = "off" \/ UNCHANGED <<stage, run>>)
      BY <1>9 DEF Retry, Die, Go
    <2> QED
      BY <2>1, GoesOn DEF Dialogue
  <1>10. CASE Accept
    <2>1. /\ wait = "done" /\ cmd.c \notin {"*", "X"} /\ UNCHANGED <<device, last>>
      BY <1>10 DEF Accept
    <2> QED
      BY <1>10, <2>1, AcceptOnward, GoesOn DEF Dialogue, Onward
  <1>11. CASE Restart
    <2>1. /\ wait = "done" /\ stage = "stat" /\ cmd.c = "*" /\ Working
          /\ UNCHANGED <<flash, pc, rcvd, appcrc, toDev, toHost, last>>
          /\ wait' = "idle" /\ stage' \in {"off", "identify"}
      BY <1>1, <1>11, StageCommands DEF Restart, Die, Go, device, Working
    <2>2. toHost = <<>>
          /\ (~ Away => toDev = <<>> /\ rcvd = <<>> /\ last = "!" /\ pc = "error" /\ appcrc # None)
      BY <2>1, Answered
    <2> QED
      BY <2>1, <2>2 DEF Dialogue, Working, Apart, Away, InStep, Alone, Ready
  <1>12. CASE Started
    <2>1. /\ wait = "done" /\ stage = "start" /\ cmd.c = "X" /\ Working
          /\ UNCHANGED <<flash, pc, rcvd, appcrc, toDev, toHost, last>>
          /\ wait' = "idle" /\ stage' \in {"off", "started"}
      BY <1>1, <1>12, StageCommands DEF Started, Die, Go, device, Working
    <2>2. Away
      BY <2>1, Answered
    <2> QED
      BY <2>1, <2>2 DEF Dialogue, Working, Apart, Away
  <1> QED
    BY <1>2, <1>3, <1>4, <1>5, <1>6, <1>7, <1>8, <1>9, <1>10, <1>11, <1>12 DEF HostRuns

-----------------------------------------------------------------------------
(* What the host knows.                                                    *)

LEMMA GoKnown ==
  ASSUME UNCHANGED flash, NEW s, NEW m, NEW r, Go(s, m, r), Founded(s, r)
  PROVE  Known'
  BY DEF Go, Known, Founded

LEMMA DieKnown ==
  ASSUME Die
  PROVE  Known'
  BY DEF Die, Go, Fresh, Known, Founded, Reading

LEMMA FinishKnown ==
  ASSUME UNCHANGED flash, NEW r, Finish(r),
         r.appcrc = r.eeappcrc => flash = NewApp /\ ~ r.restarted
  PROVE  Known'
  <1>1. flash = NewApp /\ ~ r.restarted => Founded("start", r)
    BY DEF Founded, Reading
  <1> QED
    BY <1>1, GoKnown, DieKnown DEF Finish

\* The CRC that the host read is not the one of the new application: it stores it.
LEMMA NextWriteKnown ==
  ASSUME UNCHANGED flash, NEW r, NextWrite(r), ~ r.restarted, r.eeappcrc = None
  PROVE  Known'
  <1>1. \A s \in {"write", "redo", "pgmcount", "crc"} : Founded(s, r)
    BY DEF Founded, Reading
  <1>2. None # NewApp
    BY Distinct
  <1> QED
    BY <1>1, <1>2, GoKnown DEF NextWrite

LEMMA CompareKnown ==
  ASSUME flash \in [Pages -> Contents], UNCHANGED flash, NEW r \in Runs, Compare(r),
         ~ r.restarted, r.eeappcrc = None, \A p \in Pages : r.cache[p] = flash[p]
  PROVE  Known'
  <1> DEFINE differ == {p \in Pages : r.cache[p] # NewApp[p]}
             s      == [r EXCEPT !.cache = Fresh.cache, !.todo = differ]
  <1>1. s.eeappcrc = r.eeappcrc /\ s.restarted = r.restarted
    BY DEF Runs
  <1>2. IF differ # {} THEN NextWrite(s)
        ELSE IF s.eeappcrc # NewApp THEN Go("onlycrc", StoreCrc, s)
        ELSE Finish(s)
    BY DEF Compare
  <1>3. NewApp \in [Pages -> Contents] /\ None # NewApp
    BY Distinct
  <1>4. differ = {} => flash = NewApp
    BY <1>3
  <1> HIDE DEF differ, s
  <1>5. CASE differ # {}
    BY <1>1, <1>2, <1>5, NextWriteKnown
  <1>6. CASE differ = {}
    <2>1. Founded("onlycrc", s)
      BY <1>1, <1>4, <1>6 DEF Founded, Reading
    <2> QED
      BY <1>1, <1>2, <1>3, <1>6, <2>1, GoKnown
  <1> QED
    BY <1>5, <1>6

LEMMA AcceptKnown ==
  ASSUME IInv, Accept
  PROVE  Known'
  <1> DEFINE p == cmd.a
             d == got[1].d
  <1>1. /\ StageCmd(stage, cmd) /\ run \in Runs /\ flash \in [Pages -> Contents]
        /\ UNCHANGED flash /\ wait = "done" /\ GoodReply /\ Working
    BY DEF IInv, TypeInv, HostOK, DeviceOK, Accept, device, Dialogue
  <1>2. cmd.c \in {"i", "f", "e"} => Truthful(d) /\ d \in Values
    BY <1>1, Answered DEF IInv
  <1>3. Founded(stage, run)
    BY DEF IInv, Known
  <1>4. NewApp # None
    BY Distinct
  <1>5. ASSUME stage = "identify",
               Go("eecrc", Command("e", EECRC, None), [run EXCEPT !.appcrc = d])
        PROVE  Known'
    <2>1. Truthful(d)
      BY <1>1, <1>2, <1>5, StageCommands
    <2>2. Founded("eecrc", [run EXCEPT !.appcrc = d])
      BY <1>1, <1>3, <1>5, <2>1 DEF Founded, Reading, Truthful, Runs
    <2> QED
      BY <1>1, <1>5, <2>2, GoKnown
  <1>6. ASSUME stage = "eecrc",
               Go("eepcnt", Command("e", EEPCNT, None), [run EXCEPT !.eeappcrc = d])
        PROVE  Known'
    <2>1. d = None
      BY <1>1, <1>2, <1>6, StageCommands DEF Truthful, EepromCrc
    <2>2. Founded("eepcnt", [run EXCEPT !.eeappcrc = d])
      BY <1>1, <1>3, <1>6, <2>1 DEF Founded, Reading, Runs
    <2> QED
      BY <1>1, <1>6, <2>2, GoKnown
  <1>7. ASSUME stage = "eepcnt",
               IF run.restarted THEN Finish(run)
               ELSE Go("read", Read(First(Pages)), [run EXCEPT !.todo = Pages])
        PROVE  Known'
    <2>1. run.eeappcrc = None /\ (run.restarted => run.appcrc # None)
      BY <1>3, <1>7 DEF Founded, Reading
    <2>2. CASE run.restarted
      BY <1>1, <1>7, <2>1, <2>2, FinishKnown
    <2>3. CASE ~ run.restarted
      <3>1. Founded("read", [run EXCEPT !.todo = Pages])
        BY <1>1, <2>1, <2>3 DEF Founded, Reading, Runs
      <3> QED
        BY <1>1, <1>7, <2>3, <3>1, GoKnown
    <2> QED
      BY <2>2, <2>3
  <1>8. ASSUME stage = "read", NEW r, r = [run EXCEPT !.cache[p] = d, !.todo = @ \ {p}],
               IF r.todo # {} THEN Go("read", Read(First(r.todo)), r) ELSE Compare(r)
        PROVE  Known'
    <2>1. p \in Pages /\ d = flash[p] /\ d \in Values
      BY <1>1, <1>2, <1>8, StageCommands DEF Truthful
    <2>2. /\ run.eeappcrc = None /\ ~ run.restarted
          /\ \A q \in Pages \ run.todo : run.cache[q] = flash[q]
      BY <1>3, <1>8 DEF Founded, Reading
    <2>3. /\ r.eeappcrc = run.eeappcrc /\ r.restarted = run.restarted
          /\ r.todo = run.todo \ {p} /\ r.cache = [run.cache EXCEPT ![p] = d]
          /\ r \in Runs
      BY <1>1, <1>8, <2>1 DEF Runs
    <2>4. \A q \in Pages \ r.todo : r.cache[q] = flash[q]
      BY <1>1, <2>1, <2>2, <2>3 DEF Runs
    <2>5. CASE r.todo # {}
      <3>1. Founded("read", r)
        BY <2>2, <2>3, <2>4 DEF Founded, Reading
      <3> QED
        BY <1>1, <1>8, <2>5, <3>1, GoKnown
    <2>6. CASE r.todo = {}
      <3>1. \A q \in Pages : r.cache[q] = flash[q]
        BY <2>4, <2>6
      <3> QED
        BY <1>1, <1>8, <2>2, <2>3, <2>6, <3>1, CompareKnown
    <2> QED
      BY <2>5, <2>6
  <1>9. stage \in Reading \ {"eepcnt"} => ~ run.restarted /\ run.eeappcrc = None
    BY <1>3 DEF Founded, Reading
  <1>10. ASSUME stage \in {"write", "erased"},
                NEW r, \/ r = [run EXCEPT !.todo = @ \ {p}, !.changed = @ \/ Changed,
                                          !.redo = IF Failed THEN @ \cup {p} ELSE @]
                       \/ r = [run EXCEPT !.redo = {}],
                NextWrite(r)
         PROVE  Known'
    <2>1. r.eeappcrc = run.eeappcrc /\ r.restarted = run.restarted
      BY <1>1, <1>10 DEF Runs
    <2> QED
      BY <1>1, <1>9, <1>10, <2>1, NextWriteKnown DEF Reading
  <1>11. ASSUME stage = "erase", Go("erased", Read(p), [run EXCEPT !.changed = @ \/ Changed])
         PROVE  Known'
    <2> DEFINE changed == run.changed \/ Changed
               r == [run EXCEPT !.changed = changed]
    <2>1. Go("erased", Read(p), r)
      BY <1>11
    <2> HIDE DEF changed
    <2>2. r.eeappcrc = run.eeappcrc /\ r.restarted = run.restarted
      BY <1>1 DEF Runs
    <2> HIDE DEF r
    <2>3. Founded("erased", r)
      BY <1>9, <1>11, <2>2 DEF Founded, Reading
    <2> QED
      BY <1>1, <2>1, <2>3, GoKnown
  <1>12. ASSUME stage = "redo", Go("erase", Burn(p, Blank), run)
         PROVE  Known'
    <2>1. Founded("erase", run)
      BY <1>9, <1>12 DEF Founded, Reading
    <2> QED
      BY <1>1, <1>12, <2>1, GoKnown
  <1>13. ASSUME stage = "pgmcount",
                IF run.eeappcrc # NewApp THEN Go("crc", StoreCrc, run)
                                         ELSE Go("stat", Recompute, run)
         PROVE  Known'
    <2>1. Founded("crc", run) /\ run.eeappcrc # NewApp
      BY <1>4, <1>9, <1>13 DEF Founded, Reading
    <2> QED
      BY <1>1, <1>13, <2>1, GoKnown
  <1>14. ASSUME stage = "crc", Go("stat", Recompute, [run EXCEPT !.eeappcrc = NewApp])
         PROVE  Known'
    <2> DEFINE r == [run EXCEPT !.eeappcrc = NewApp]
    <2>1. r.restarted = run.restarted
      BY <1>1 DEF Runs
    <2> HIDE DEF r
    <2>2. Founded("stat", r)
      BY <1>9, <1>14, <2>1 DEF Founded, Reading
    <2> QED
      BY <1>1, <1>14, <2>2, GoKnown DEF r
  <1>15. ASSUME stage = "onlycrc", Finish([run EXCEPT !.eeappcrc = NewApp])
         PROVE  Known'
    <2> DEFINE r == [run EXCEPT !.eeappcrc = NewApp]
    <2>1. flash = NewApp /\ ~ run.restarted
      BY <1>3, <1>15 DEF Founded
    <2>2. r.restarted = run.restarted
      BY <1>1 DEF Runs
    <2> HIDE DEF r
    <2> QED
      BY <1>1, <1>15, <2>1, <2>2, FinishKnown DEF r
  <1> QED
    BY <1>5, <1>6, <1>7, <1>8, <1>10, <1>11, <1>12, <1>13, <1>14, <1>15, DieKnown, Zenon
    DEF Accept

\* The memory changes only as the command of the host tells.
LEMMA KnownKept ==
  ASSUME IInv, UNCHANGED <<stage, run>>, ~ Working \/ cmd.c # "F" => flash' = flash
  PROVE  Known'
  <1>1. StageCmd(stage, cmd) /\ Founded(stage, run)
    BY DEF IInv, TypeInv, HostOK, Known
  <1>2. CASE flash' = flash
    BY <1>1, <1>2 DEF Known, Founded
  <1>3. CASE stage \in {"write", "erase"}
    BY <1>1, <1>3 DEF Known, Founded
  <1> QED
    BY <1>1, <1>2, <1>3, StageCommands

-----------------------------------------------------------------------------
(* The theorems, on a line without faults.                                 *)

LEMMA InitIInv ==
  ASSUME Init
  PROVE  IInv
  <1>1. Dialogue /\ Apart
    BY DEF Init, Dialogue, Apart, Working, Away
  <1>2. Known
    BY DEF Init, Known, Founded, Reading, Fresh
  <1> QED
    BY <1>1, <1>2, InitTyped DEF IInv

LEMMA StepIInv ==
  ASSUME IInv, [Next /\ ~ LineFault]_vars
  PROVE  IInv'
  <1>1. TypeInv /\ Dialogue /\ Apart /\ Known
    BY DEF IInv
  <1>2. TypeInv'
    BY <1>1, StepTyped
  <1>3. CASE DeviceRuns \/ AppRuns \/ FlashFault
    <2>1. UNCHANGED host /\ DeviceMoves
      BY <1>3 DEF DeviceRuns, AppRuns, FlashFault, Fault, DeviceMoves
    <2>2. /\ Dialogue' /\ Apart'
          /\ ~ Working \/ cmd.c # "F" => flash' = flash
      BY <1>1, <2>1, AwayTalks, InStepTalks
    <2>3. Known'
      BY <2>1, <2>2, KnownKept DEF host
    <2> QED
      BY <1>2, <2>2, <2>3 DEF IInv
  <1>4. CASE PowerFailure
    <2>1. /\ Dialogue' /\ Apart' /\ UNCHANGED <<stage, run>>
          /\ ~ Working \/ cmd.c # "F" => flash' = flash
      BY <1>1, <1>4, PowerTalks DEF PowerFailure, Fault, host
    <2> QED
      BY <1>2, <2>1, KnownKept DEF IInv
  <1>5. CASE HostRuns
    <2>1. Dialogue' /\ Apart'
      BY <1>1, <1>5, HostTalks
    <2>2. CASE Run
      BY <1>2, <2>1, <2>2 DEF Run, Go, Fresh, Known, Founded, Reading, IInv
    <2>3. CASE Sync
      <3>1. Known'
        BY <2>3 DEF Sync, Go, Fresh, Known, Founded, Reading
      <3> QED
        BY <1>2, <2>1, <3>1 DEF IInv
    <2>4. CASE SyncFails
      BY <1>2, <2>1, <2>4, DieKnown DEF SyncFails, IInv
    <2>5. CASE Resume \/ SendCommand \/ Rx \/ Timeout \/ Retry
      <3>1. \/ Die
            \/ UNCHANGED stage /\ UNCHANGED run
        BY <2>5, Zenon DEF Resume, SendCommand, Rx, Timeout, Retry
      <3>2. UNCHANGED flash
        BY <2>5, Zenon DEF Resume, SendCommand, Rx, Timeout, Retry, device
      <3>3. Known'
        BY <3>1, <3>2, DieKnown, KnownKept
      <3> QED
        BY <1>2, <2>1, <3>3 DEF IInv
    <2>6. CASE Accept
      BY <1>2, <2>1, <2>6, AcceptKnown DEF IInv
    <2>7. CASE Restart
      <3> DEFINE r == [run EXCEPT !.restarted = TRUE]
      <3>1. UNCHANGED flash
        BY <2>7 DEF Restart, device
      <3>2. Founded("identify", r)
        BY DEF Founded, Reading
      <3>3. Known'
        BY <2>7, <3>1, <3>2, GoKnown, DieKnown DEF Restart
      <3> QED
        BY <1>2, <2>1, <3>3 DEF IInv
    <2>8. CASE Started
      <3>1. flash = NewApp /\ UNCHANGED flash
        BY <1>1, <2>8 DEF Started, Known, Founded, device
      <3>2. Founded("started", Fresh)
        BY <3>1 DEF Founded, Reading, Fresh
      <3>3. Known'
        BY <2>8, <3>1, <3>2, GoKnown, DieKnown DEF Started
      <3> QED
        BY <1>2, <2>1, <3>3 DEF IInv
    <2> QED
      BY <1>5, <2>2, <2>3, <2>4, <2>5, <2>6, <2>7, <2>8 DEF HostRuns
  <1>6. CASE UNCHANGED vars
    <2>1. UNCHANGED <<stage, wait, cmd, last, got, run, flash, pc, rcvd, appcrc, toDev, toHost>>
      BY <1>6 DEF vars, host, device
    <2>2. Replies' = Replies
      BY <2>1, RepliesKept
    <2>3. Dialogue'
      BY <1>1, <2>1, <2>2
      DEF Dialogue, Working, Away, Alone, InStep, Ready, Resuming, Sending, Executing, Replying
    <2>4. Apart'
      BY <1>1, <2>1 DEF Apart, Away
    <2>5. Known'
      BY <2>1, KnownKept
    <2> QED
      BY <1>2, <2>3, <2>4, <2>5 DEF IInv
  <1> QED
    BY <1>3, <1>4, <1>5, <1>6 DEF Next

LEMMA Invariance ==
  Spec /\ [][~ LineFault]_vars => []IInv
  <1>1. IInv /\ [Next /\ ~ LineFault]_vars => IInv'
    BY StepIInv
  <1>2. [Next]_vars /\ [~ LineFault]_vars => [Next /\ ~ LineFault]_vars
    OBVIOUS
  <1> QED
    BY <1>1, <1>2, InitIInv, PTL DEF Spec

\* Without line faults, whatever the faults of the memory and of the power, whatever
\* was in the device, and whether or not it is reset, the host reports that the
\* application started only if the flash memory contains the whole new application.
THEOREM ProgrammedCorrect == Spec /\ [][~ LineFault]_vars => []Programmed
  <1>1. IInv => Programmed
    BY DEF IInv, Known, Founded, Programmed
  <1> QED
    BY <1>1, Invariance, PTL

\* The host commands to start the application only if it is the new one.
LEMMA StartsNewApp ==
  ASSUME IInv, [Next]_vars, StartedByCommand
  PROVE  flash = NewApp /\ Working
  <1>1. CASE Deliver
    <2>1. /\ pc = "prompt" /\ pc' = "app" /\ toDev # <<>> /\ Receive(Head(toDev))
      BY <1>1 DEF StartedByCommand, Deliver
    <2> DEFINE f == Frame(cmd)
               r == Append(rcvd, Head(toDev))
    <2>2. Working /\ Sending /\ StageCmd(stage, cmd)
      BY <2>1, Situation DEF IInv, Away, Resuming, TypeInv, HostOK
    <2>3. Execute(r) /\ r[1].c = "X"
      BY <2>1 DEF Receive, Goto, Execute
    <2>4. /\ f \in Seq(DevTokens) /\ Len(f) \in 1 .. 4 /\ f[1] = Cmd(cmd.c)
          /\ rcvd \in Seq(DevTokens) /\ toDev \in Seq(DevTokens)
      BY <2>2, FrameTyped, FrameLen DEF IInv, TypeInv, DeviceOK, LineOK
    <2>5. Part(f, r, Tail(toDev)) /\ Len(r) = Len(rcvd) + 1 /\ Len(rcvd) \in Nat
      BY <2>1, <2>2, <2>4, PartMoves, LenProperties DEF Sending, Whole
    <2>6. r[1] = Cmd(cmd.c)
      BY <2>4, <2>5 DEF Part
    <2>7. cmd.c = "X"
      BY <2>3, <2>6 DEF Cmd, Token
    <2> QED
      BY <2>2, <2>7, StageCommands DEF IInv, Known, Founded
  <1>2. CASE ~ Deliver
    <2>1. pc' # "app" \/ pc # "prompt"
      <3>1. CASE DeviceRuns \/ AppRuns \/ FlashFault
        BY <1>2, <3>1
        DEF DeviceRuns, AppRuns, FlashFault, DeviceStep, Boot, Stat, Erase, Write,
            EnterFromApp, ClearFlags, Goto
      <3>2. CASE Run \/ Sync \/ PowerFailure
        BY <3>2 DEF Run, Sync, PowerFailure, Reset, Goto
      <3>3. CASE SyncFails \/ Timeout \/ Retry \/ Accept \/ Restart \/ Started \/ UNCHANGED vars
        <4>1. UNCHANGED device
          BY <3>3, Zenon DEF SyncFails, Timeout, Retry, Accept, Restart, Started, vars
        <4> QED
          BY <4>1 DEF device
      <3>4. CASE Resume \/ SendCommand \/ Rx \/ LineFault
        <4>1. UNCHANGED pc
          BY <3>4, Zenon DEF Resume, SendCommand, Rx, LineFault
        <4> QED
          BY <4>1
      <3> QED
        BY <3>1, <3>2, <3>3, <3>4, Zenon DEF Next, HostRuns
    <2> QED
      BY <2>1 DEF StartedByCommand
  <1> QED
    BY <1>1, <1>2

\* Without line faults, the updates are done as DiaboloUpdate promises, whatever the
\* faults of the memory and of the power, and whether or not the host resets the
\* device.
THEOREM UpdatesAsPromised == Spec /\ [][~ LineFault]_vars => ImplementsUpdate
  <1>1. IInv /\ [Next]_vars => [Update!Next]_(Update!vars)
    <2> SUFFICES ASSUME IInv, [Next]_vars
                 PROVE  [Update!Next]_(Update!vars)
      OBVIOUS
    <2>1. TypeInv
      BY DEF IInv
    <2>2. StartedByCommand => flash = NewApp
      BY StartsNewApp
    <2> QED
      BY <2>1, <2>2, UpdateStep
  <1> QED
    BY <1>1, UpdateInit, Invariance, PTL DEF Spec, ImplementsUpdate, Update!Spec

\* Where the host resets the device, EXTRF is set while the device is in the dialogue
\* and while something is programmed: when an application runs, or a reset would
\* start one without a check, the memory contains a whole application.
Checked ==
  wired /\ (pc = "app" \/ ~ cold) =>
    Away /\ stage # "sync" /\ flash \in {OldApp, NewApp}

LEMMA InitChecked ==
  ASSUME Init
  PROVE  Checked
  BY DEF Init, Checked, Away

\* Only a new run of the host waits for the synchronization.
LEMMA NotSync ==
  ASSUME [Next]_vars, ~ Run, stage' = "sync"
  PROVE  stage = "sync"
  <1>1. CASE UNCHANGED host
    BY <1>1 DEF host
  <1>2. CASE Die \/ UNCHANGED stage
    BY <1>2 DEF Die, Go
  <1>3. CASE DeviceRuns \/ AppRuns \/ LineFault \/ FlashFault \/ PowerFailure \/ UNCHANGED vars
    BY <1>1, <1>3, Zenon DEF DeviceRuns, AppRuns, LineFault, FlashFault, PowerFailure, Fault, vars
  <1>4. CASE SyncFails \/ Resume \/ SendCommand \/ Rx \/ Timeout \/ Retry
    BY <1>2, <1>4, Zenon DEF SyncFails, Resume, SendCommand, Rx, Timeout, Retry
  <1>5. CASE Accept
    BY <1>5, AcceptOnward DEF Onward
  <1>6. CASE Sync \/ Restart \/ Started
    BY <1>6 DEF Sync, Restart, Started, Die, Go
  <1> QED
    BY <1>3, <1>4, <1>5, <1>6, Zenon DEF Next, HostRuns

\* Only the synchronization begins the dialogue.
LEMMA StaysAway ==
  ASSUME IInv, [Next]_vars, Away, ~ Sync, ~ Run
  PROVE  Away'
  <1>1. CASE UNCHANGED pc
    BY <1>1 DEF Away
  <1>2. CASE DeviceRuns \/ AppRuns \/ FlashFault
    <2>1. UNCHANGED host /\ DeviceMoves
      BY <1>2 DEF DeviceRuns, AppRuns, FlashFault, Fault, DeviceMoves
    <2> QED
      BY <2>1, AwayTalks DEF IInv
  <1>3. CASE PowerFailure
    BY <1>3 DEF PowerFailure, Reset, Goto, Away
  <1>4. CASE SyncFails \/ Timeout \/ Retry \/ Accept \/ Restart \/ Started \/ UNCHANGED vars
    <2>1. UNCHANGED device
      BY <1>4, Zenon DEF SyncFails, Timeout, Retry, Accept, Restart, Started, vars
    <2> QED
      BY <1>1, <2>1 DEF device
  <1>5. CASE Resume \/ SendCommand \/ Rx \/ LineFault
    <2>1. UNCHANGED pc
      BY <1>5, Zenon DEF Resume, SendCommand, Rx, LineFault
    <2> QED
      BY <1>1, <2>1
  <1> QED
    BY <1>2, <1>3, <1>4, <1>5, Zenon DEF Next, HostRuns

LEMMA StepChecked ==
  ASSUME IInv, Checked, [Next]_vars
  PROVE  Checked'
  <1> SUFFICES ASSUME wired, pc' = "app" \/ ~ cold'
               PROVE  Away' /\ stage' # "sync" /\ flash' \in {OldApp, NewApp}
    BY WiredKept DEF Checked
  <1>1. Effects
    BY StepEffects DEF IInv
  <1>2. ~ Run
    BY DEF Run, Reset, Goto
  <1>3. CASE pc # "app" /\ pc' = "app"
    <2>1. flash' = flash /\ (~ cold \/ StartedByCommand)
      BY <1>1, <1>3 DEF Effects
    <2>2. stage # "sync" /\ flash \in {OldApp, NewApp}
      BY <2>1, StartsNewApp DEF Checked, Working
    <2> QED
      BY <1>2, <1>3, <2>1, <2>2, NotSync DEF Away
  <1>4. CASE pc = "app" \/ (~ cold /\ pc' # "app")
    <2>1. Away /\ stage # "sync" /\ flash \in {OldApp, NewApp}
      BY <1>4 DEF Checked
    <2>2. flash' = flash
      BY <1>1, <2>1 DEF Effects, Away
    <2>3. ~ Sync
      BY <2>1 DEF Sync
    <2> QED
      BY <1>2, <2>1, <2>2, <2>3, NotSync, StaysAway
  <1>5. pc' # "app" => pc = "app" \/ ~ cold
    BY <1>1 DEF Effects
  <1> QED
    BY <1>3, <1>4, <1>5

\* Where the host resets the device, and without line faults, what runs is the
\* whole old or new application, whatever the faults of the memory and of the power.
THEOREM WholeRunsCorrect == Spec /\ [][~ LineFault]_vars => []WholeRuns
  <1>1. Checked => WholeRuns
    BY DEF Checked, WholeRuns
  <1>2. IInv /\ Checked /\ [Next]_vars => Checked'
    BY StepChecked
  <1> QED
    BY <1>1, <1>2, InitChecked, Invariance, PTL DEF Spec
=============================================================================
