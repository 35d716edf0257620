----------------------------- MODULE EnsmProofs -----------------------------
(***************************************************************************)
(* What the driver of the ENSM keeps, whatever the platform, the calls and *)
(* the moves of the pins.                                                  *)
(*                                                                         *)
(* A call is a program that the steps of the driver consume and expand, so *)
(* the invariant is about what is left of it.  Each operation allows only  *)
(* certain programs after itself (Follows); that every operation of the    *)
(* program is so followed (Sound) is kept by every expansion, and relates  *)
(* the registers to the operations that are still to come.  The last part  *)
(* adds where the state the user asked for is kept while a call moves the  *)
(* chip, as long as no call has looked at it during a flush.               *)
(***************************************************************************)
EXTENDS Ensm, Integers, TLAPS

-----------------------------------------------------------------------------
(***************************************************************************)
(* Programs, on a platform that is FDD or not.                             *)
(***************************************************************************)

Wanted == Active \cup {"ALERT", "WAIT", "SLEEP"}
Forced == {"ALERT", "FDD"}

\* The accesses and calls that a program is made of.
Ops ==
  {<<"poll">>, <<"save">>, <<"restorePrev">>, <<"restoreSaved">>}
  \cup ({"write"} \X SUBSET Bits)
  \cup ({"force", "run", "try"} \X Forced)
  \cup ({"synth", "clocks", "track"} \X BOOLEAN)
  \cup ({"mode"} \X BOOLEAN \X BOOLEAN)
  \cup ({"state", "done"} \X Wanted \X BOOLEAN)

Cons(op, s) == <<op>> \o s

Contains(s, op) == \E i \in 1 .. Len(s) : s[i] = op
Has(s, name) == \E i \in 1 .. Len(s) : s[i][1] = name

\* The next operation of s is one of the names.
Starts(s, names) == s # <<>> /\ Head(s)[1] \in names

\* An operation of a name in names comes before the next change of the duplex mode.
Meets(s, names) ==
  \E i \in 1 .. Len(s) : s[i][1] \in names /\ \A j \in 1 .. i - 1 : s[j][1] # "mode"

\* So does a force of FDD, or what it is for.
MeetsFdd(s) ==
  \E i \in 1 .. Len(s) :
    /\ s[i] \in {"force", "run", "try"} \X {"FDD"}
    /\ \A j \in 1 .. i - 1 : s[j][1] # "mode"

\* Tracking that is put off is put on again; what may fail gives up no more than that.
Retracks(op, rest) ==
  /\ op = <<"track", FALSE>> => Contains(rest, <<"track", TRUE>>)
  /\ op[1] = "try" => rest = Cons(<<"track", TRUE>>, Cons(<<"restorePrev">>, <<>>))

\* A program has one request.  The last of its writes of the clocks has them on
\* exactly when the driver will not believe the chip asleep.
Settles(op, rest) ==
  /\ op[1] \in {"state", "done"} => \A name \in {"state", "done", "clocks", "synth"} : ~Has(rest, name)
  /\ op[1] = "clocks" =>
       /\ Has(rest, "done")
       /\ \A st \in Wanted, pin \in BOOLEAN :
            Contains(rest, <<"done", st, pin>>) /\ ~Has(rest, "clocks") => (op[2] <=> st # "SLEEP")

\* A state is forced, in the duplex mode that has it, right before what runs in it.
Forces(op, rest, fdd) ==
  /\ Starts(rest, {"run", "try"}) => op = <<"poll">> \/ op = <<"force", Head(rest)[2]>>
  /\ op[1] = "write" /\ Starts(rest, {"poll"}) /\ Starts(Tail(rest), {"run", "try"}) =>
       LET to == Head(Tail(rest))[2]
       IN  /\ "pin" \notin op[2]
           /\ to = "FDD" => op[2] \cap {"tx", "rx"} # {}
           /\ to = "ALERT" => op[2] \cap {"tx", "rx"} = {} /\ op[2] \cap Alert # {}
  /\ op[1] # "write" => ~(Starts(rest, {"poll"}) /\ Starts(Tail(rest), {"run", "try"}))
  /\ op[1] = "mode" =>
       /\ ~Has(rest, "mode") => op[2] = fdd
       /\ Meets(rest, {"state", "done"}) => op[2] = fdd
       /\ MeetsFdd(rest) => op[2]

\* What set-up does when the interface is tuned.
SetUpEnd == Cons(<<"force", "ALERT">>, Cons(<<"restorePrev">>, <<>>))

\* A write that gives the chip to the pins comes after what relies on the state.
Ends(s) == Has(s, "done") \/ (~Has(s, "restoreSaved") /\ (Has(s, "restorePrev") => Has(s, "force")))

\* The request is written right before it is granted, and its synthesizer is on.
Requests(op, rest) ==
  /\ Starts(rest, {"done"}) /\ Head(rest)[2] # "SLEEP" =>
       op = <<"write", Request(Head(rest)[2], Head(rest)[3])>>
  /\ op[1] = "write" /\ "pin" \in op[2] => Ends(rest)
  /\ op[1] \in {"state", "done"} => rest = <<>> \/ Starts(rest, {"save"})
  /\ op[1] = "synth" =>
       /\ Has(rest, "done") /\ ~Has(rest, "synth")
       /\ \A st \in Wanted, pin \in BOOLEAN :
            Contains(rest, <<"done", st, pin>>) => st \in {"TX", "RX"} /\ (op[2] <=> st = "TX")

\* What takes the chip somewhere else brings it back.
Returns(op, rest) ==
  /\ op[1] = "mode" => ~Has(rest, "done") /\ (Has(rest, "state") \/ Has(rest, "restoreSaved"))
  /\ op[1] = "save" => ~Has(rest, "save") /\ Has(rest, "restoreSaved")
  /\ op[1] = "force" => \/ Has(rest, "restoreSaved")
                        \/ ~Has(rest, "force") /\ Has(rest, "restorePrev")
  /\ op[1] = "restoreSaved" => rest \in {<<>>, SetUpEnd}
  /\ op[1] = "restorePrev" => rest = <<>>

Follows(op, rest, fdd) ==
  /\ Retracks(op, rest) /\ Settles(op, rest) /\ Forces(op, rest, fdd)
  /\ Requests(op, rest) /\ Returns(op, rest)

\* Every operation of s is followed by what may follow it.
Sound(s, fdd) == \A i \in 1 .. Len(s) : Follows(s[i], SubSeq(s, i + 1, Len(s)), fdd)

-----------------------------------------------------------------------------
(***************************************************************************)
(* The inductive invariant.                                                *)
(***************************************************************************)

ProgramInv == todo \in Seq(Ops) /\ Sound(todo, plat.fdd)

\* Tracking that is off is put on again by the rest of the call.
TrackInv == ~failed /\ ~tracking => Contains(todo, <<"track", TRUE>>)

\* The clocks are as the driver believes, or will believe when the request is done.
ClocksInv ==
  ~Has(todo, "clocks") =>
    /\ ~Has(todo, "done") => (clocks <=> curr # "SLEEP")
    /\ \A st \in Wanted, pin \in BOOLEAN :
         Contains(todo, <<"done", st, pin>>) => (clocks <=> st # "SLEEP")

\* The duplex mode is that of the platform except in a scan, which runs in FDD.
DuplexInv ==
  /\ ~Has(todo, "mode") => fddMode = plat.fdd
  /\ Meets(todo, {"state", "done"}) => fddMode = plat.fdd
  /\ MeetsFdd(todo) => fddMode

\* The chip is in the state that was forced, or on its way there.
ForcedInv ==
  /\ RunsWhereForced
  /\ At("poll") /\ Starts(Tail(todo), {"run", "try"}) =>
       /\ "pin" \notin config1
       /\ Goal(config1) = Head(Tail(todo))[2]
       /\ clocks => state \in {"FLUSH", Goal(config1)}

\* What is asked for is a state of the duplex mode, and the driver knows it.
AskedInv == asked # "NONE" => Fits(asked) /\ curr = asked

\* A request is under way.
Pending == Has(todo, "state") \/ Has(todo, "done")

\* With one synthesizer at a time, the one of the request is on before it is
\* done, and stays on until the duplex mode is set or the interface is tuned.
SynthInv ==
  ~plat.fdd /\ ~plat.dualSynth =>
    /\ \A st \in {"TX", "RX"} :
         Contains(todo, <<"done", st, FALSE>>) /\ ~Has(todo, "synth") => (txnrx <=> st = "TX")
    /\ asked \in {"TX", "RX"} /\ ~tuned /\ ~Pending /\ ~Has(todo, "mode")
       /\ ~Has(todo, "restoreSaved") => (txnrx <=> asked = "TX")

DriverInv ==
  /\ TypeOK /\ ProgramInv /\ TrackInv /\ ClocksInv /\ DuplexInv /\ ForcedInv
  /\ AskedInv /\ SynthInv

-----------------------------------------------------------------------------
(***************************************************************************)
(* Programs, one operation at a time.                                      *)
(***************************************************************************)

\* An operation before a program.
LEMMA ConsFacts ==
  ASSUME NEW op \in Ops, NEW s \in Seq(Ops)
  PROVE  /\ Cons(op, s) \in Seq(Ops) /\ Cons(op, s) # <<>>
         /\ Head(Cons(op, s)) = op /\ Tail(Cons(op, s)) = s
         /\ Len(Cons(op, s)) = Len(s) + 1 /\ Cons(op, s)[1] = op
         /\ \A i \in 1 .. Len(s) : Cons(op, s)[i + 1] = s[i]
BY DEF Cons

\* A program that is not empty is an operation before the rest.
LEMMA Uncons ==
  ASSUME NEW s \in Seq(Ops), s # <<>>
  PROVE  /\ Head(s) \in Ops /\ Tail(s) \in Seq(Ops)
         /\ s = Cons(Head(s), Tail(s))
<1>1. Head(s) \in Ops /\ Tail(s) \in Seq(Ops) /\ Len(s) \in Nat /\ Len(s) >= 1
  OBVIOUS
<1>2. s = <<Head(s)>> \o Tail(s)
  <2>1. Len(<<Head(s)>> \o Tail(s)) = Len(s)
    BY <1>1
  <2>2. \A i \in 1 .. Len(s) : s[i] = (<<Head(s)>> \o Tail(s))[i]
    BY <1>1
  <2> QED BY <1>1, <2>1, <2>2
<1> QED BY <1>1, <1>2 DEF Cons

\* The places of a program with an operation before it.
LEMMA Places ==
  ASSUME NEW n \in Nat
  PROVE  /\ 1 .. n + 1 = {1} \cup {i + 1 : i \in 1 .. n}
         /\ 1 .. n + 1 = {1} \cup 2 .. n + 1
<1>1. ASSUME NEW i \in 1 .. n + 1, i # 1
      PROVE  i - 1 \in 1 .. n /\ i = (i - 1) + 1
  BY <1>1
<1>2. \A i \in 1 .. n : i + 1 \in 1 .. n + 1
  OBVIOUS
<1>3. 1 \in 1 .. n + 1
  OBVIOUS
<1>4. 1 .. n + 1 \subseteq {1} \cup {i + 1 : i \in 1 .. n}
  BY <1>1
<1> QED BY <1>2, <1>3, <1>4

\* What is in it.
LEMMA ConsHas ==
  ASSUME NEW op \in Ops, NEW s \in Seq(Ops)
  PROVE  \A name : Has(Cons(op, s), name) <=> op[1] = name \/ Has(s, name)
<1> DEFINE c == Cons(op, s)
<1>0. Len(s) \in Nat
  OBVIOUS
<1>1. /\ Len(s) \in Nat /\ Len(c) = Len(s) + 1 /\ c[1] = op
      /\ \A i \in 1 .. Len(s) : c[i + 1] = s[i]
  BY <1>0, ConsFacts, Zenon
<1>2. 1 .. Len(c) = {1} \cup {i + 1 : i \in 1 .. Len(s)}
  BY <1>1, Places
<1> HIDE DEF c
<1>3. \A name : Has(c, name) <=> op[1] = name \/ Has(s, name)
  BY <1>1, <1>2 DEF Has
<1> QED BY <1>3 DEF c

\* An operation before a program is contained in it, and nothing else is added.
LEMMA ConsContains ==
  ASSUME NEW op \in Ops, NEW s \in Seq(Ops)
  PROVE  \A other : Contains(Cons(op, s), other) <=> op = other \/ Contains(s, other)
<1> DEFINE c == Cons(op, s)
<1>0. Len(s) \in Nat
  OBVIOUS
<1>1. /\ Len(s) \in Nat /\ Len(c) = Len(s) + 1 /\ c[1] = op
      /\ \A i \in 1 .. Len(s) : c[i + 1] = s[i]
  BY <1>0, ConsFacts, Zenon
<1>2. 1 .. Len(c) = {1} \cup {i + 1 : i \in 1 .. Len(s)}
  BY <1>1, Places
<1> HIDE DEF c
<1>3. \A other : Contains(c, other) <=> op = other \/ Contains(s, other)
  BY <1>1, <1>2 DEF Contains
<1> QED BY <1>3 DEF c

\* The first of its operations that a predicate of its places looks for.
LEMMA ConsMeets ==
  ASSUME NEW op \in Ops, NEW s \in Seq(Ops)
  PROVE  /\ \A names : Meets(Cons(op, s), names) <=>
                         op[1] \in names \/ (op[1] # "mode" /\ Meets(s, names))
         /\ MeetsFdd(Cons(op, s)) <=>
              op \in {"force", "run", "try"} \X {"FDD"} \/ (op[1] # "mode" /\ MeetsFdd(s))
<1> DEFINE c == Cons(op, s)
<1>0. Len(s) \in Nat
  OBVIOUS
<1>1. /\ Len(s) \in Nat /\ Len(c) = Len(s) + 1 /\ c[1] = op
      /\ \A i \in 1 .. Len(s) : c[i + 1] = s[i]
  BY <1>0, ConsFacts, Zenon
<1>2. 1 .. Len(c) = {1} \cup {i + 1 : i \in 1 .. Len(s)}
  BY <1>1, Places
<1>3. \A i \in 1 .. Len(s) : 1 .. (i + 1) - 1 = {1} \cup {j + 1 : j \in 1 .. i - 1}
  <2> TAKE i \in 1 .. Len(s)
  <2>1. i - 1 \in Nat /\ (i - 1) + 1 = (i + 1) - 1
    BY <1>1
  <2> QED BY <2>1, Places
<1>4. \A i \in 1 .. Len(s) : (\A j \in 1 .. (i + 1) - 1 : c[j][1] # "mode")
                               <=> op[1] # "mode" /\ \A j \in 1 .. i - 1 : s[j][1] # "mode"
  <2> TAKE i \in 1 .. Len(s)
  <2>1. \A j \in 1 .. i - 1 : j \in 1 .. Len(s) /\ c[j + 1] = s[j]
    BY <1>1
  <2> HIDE DEF c
  <2>2. (\A j \in 1 .. (i + 1) - 1 : c[j][1] # "mode")
          <=> c[1][1] # "mode" /\ \A j \in 1 .. i - 1 : c[j + 1][1] # "mode"
    BY <1>3, Zenon
  <2> QED BY <1>1, <2>1, <2>2
<1>5. \A j \in 1 .. 1 - 1 : FALSE
  OBVIOUS
<1> HIDE DEF c
<1>6. ASSUME NEW names
      PROVE  Meets(c, names) <=> op[1] \in names \/ (op[1] # "mode" /\ Meets(s, names))
  <2>1. Meets(c, names) <=> \/ c[1][1] \in names /\ \A j \in 1 .. 1 - 1 : c[j][1] # "mode"
                            \/ \E i \in 1 .. Len(s) :
                                 /\ c[i + 1][1] \in names
                                 /\ \A j \in 1 .. (i + 1) - 1 : c[j][1] # "mode"
    BY <1>2 DEF Meets
  <2> QED BY <1>1, <1>4, <1>5, <2>1 DEF Meets
<1>7. MeetsFdd(c) <=>
        op \in {"force", "run", "try"} \X {"FDD"} \/ (op[1] # "mode" /\ MeetsFdd(s))
  <2> DEFINE F == {"force", "run", "try"} \X {"FDD"}
  <2>1. MeetsFdd(c) <=> \/ c[1] \in F /\ \A j \in 1 .. 1 - 1 : c[j][1] # "mode"
                        \/ \E i \in 1 .. Len(s) :
                             /\ c[i + 1] \in F
                             /\ \A j \in 1 .. (i + 1) - 1 : c[j][1] # "mode"
    BY <1>2 DEF MeetsFdd
  <2>2. MeetsFdd(s) <=> \E i \in 1 .. Len(s) : /\ s[i] \in F
                                               /\ \A j \in 1 .. i - 1 : s[j][1] # "mode"
    BY DEF MeetsFdd
  <2> HIDE DEF F
  <2>3. MeetsFdd(c) <=> op \in F \/ (op[1] # "mode" /\ MeetsFdd(s))
    BY <1>1, <1>4, <1>5, <2>1, <2>2
  <2> QED BY <2>3 DEF F
<1> QED BY <1>6, <1>7 DEF c

\* It is sound when the operation may come before a sound program.
LEMMA ConsSound ==
  ASSUME NEW op \in Ops, NEW s \in Seq(Ops), NEW fdd
  PROVE  Sound(Cons(op, s), fdd) <=> Follows(op, s, fdd) /\ Sound(s, fdd)
<1> DEFINE c == Cons(op, s)
<1>0. Len(s) \in Nat
  OBVIOUS
<1>1. /\ c \in Seq(Ops) /\ Len(s) \in Nat /\ Len(c) = Len(s) + 1 /\ c[1] = op
      /\ \A i \in 1 .. Len(s) : c[i + 1] = s[i]
  BY <1>0, ConsFacts, Zenon
<1>2. 1 .. Len(c) = {1} \cup {i + 1 : i \in 1 .. Len(s)}
  BY <1>1, Places
<1>3. SubSeq(c, 1 + 1, Len(c)) = s
  <2>1. SubSeq(c, 2, Len(c)) \in Seq(Ops) /\ Len(SubSeq(c, 2, Len(c))) = Len(s)
    BY <1>1
  <2>2. \A i \in 1 .. Len(s) : SubSeq(c, 2, Len(c))[i] = s[i]
    BY <1>1
  <2> QED BY <1>1, <2>1, <2>2
<1>4. \A i \in 1 .. Len(s) : SubSeq(c, (i + 1) + 1, Len(c)) = SubSeq(s, i + 1, Len(s))
  <2> TAKE i \in 1 .. Len(s)
  <2> DEFINE a == SubSeq(c, (i + 1) + 1, Len(c))
             b == SubSeq(s, i + 1, Len(s))
  <2>1. a \in Seq(Ops) /\ b \in Seq(Ops) /\ Len(a) = Len(s) - i /\ Len(b) = Len(s) - i
    BY <1>1
  <2>2. \A k \in 1 .. Len(s) - i : a[k] = c[(i + 1) + k] /\ b[k] = s[i + k]
    BY <1>1
  <2>3. \A k \in 1 .. Len(s) - i : i + k \in 1 .. Len(s) /\ (i + 1) + k = (i + k) + 1
    BY <1>1
  <2> HIDE DEF a, b, c
  <2>4. \A k \in 1 .. Len(s) - i : a[k] = b[k]
    BY <1>1, <2>2, <2>3
  <2>5. a = b
    BY <2>1, <2>4
  <2> QED BY <2>5 DEF a, b
<1> HIDE DEF c
<1>5. Sound(c, fdd) <=> /\ Follows(c[1], SubSeq(c, 1 + 1, Len(c)), fdd)
                   /\ \A i \in 1 .. Len(s) :
                        Follows(c[i + 1], SubSeq(c, (i + 1) + 1, Len(c)), fdd)
  BY <1>2 DEF Sound
<1>6. Sound(c, fdd) <=> Follows(op, s, fdd) /\ \A i \in 1 .. Len(s) :
                                                 Follows(s[i], SubSeq(s, i + 1, Len(s)), fdd)
  BY <1>1, <1>3, <1>4, <1>5
<1> QED BY <1>6 DEF Sound, c

\* The empty program has nothing.
LEMMA Empty ==
  /\ <<>> \in Seq(Ops)
  /\ \A name : ~Has(<<>>, name)
  /\ \A op : ~Contains(<<>>, op)
  /\ \A names : ~Meets(<<>>, names) /\ ~Starts(<<>>, names)
  /\ ~MeetsFdd(<<>>)
  /\ \A fdd : Sound(<<>>, fdd)
BY DEF Has, Contains, Meets, MeetsFdd, Starts, Sound

\* Concatenation, one operation at a time.
LEMMA Concat ==
  ASSUME NEW s \in Seq(Ops)
  PROVE  /\ <<>> \o s = s /\ s \o <<>> = s
         /\ \A a \in Seq(Ops) : a \o s \in Seq(Ops)
         /\ \A a, b \in Seq(Ops) : (a \o b) \o s = a \o (b \o s)
<1>1. <<>> \o s = s /\ s \o <<>> = s
  OBVIOUS
<1>2. \A a \in Seq(Ops) : a \o s \in Seq(Ops)
  OBVIOUS
<1>3. ASSUME NEW a \in Seq(Ops), NEW b \in Seq(Ops)
      PROVE  (a \o b) \o s = a \o (b \o s)
  <2>1. /\ a \o b \in Seq(Ops) /\ Len(a) \in Nat /\ Len(b) \in Nat /\ Len(s) \in Nat
        /\ b \o s \in Seq(Ops) /\ Len(a \o b) = Len(a) + Len(b) /\ Len(b \o s) = Len(b) + Len(s)
    OBVIOUS
  <2>2. /\ (a \o b) \o s \in Seq(Ops) /\ a \o (b \o s) \in Seq(Ops)
        /\ Len((a \o b) \o s) = Len(a) + Len(b) + Len(s)
        /\ Len(a \o (b \o s)) = Len(a) + Len(b) + Len(s)
    BY <2>1
  <2>3. \A i \in 1 .. Len(a) + Len(b) + Len(s) : ((a \o b) \o s)[i] = (a \o (b \o s))[i]
    BY <2>1
  <2> QED BY <2>2, <2>3
<1> QED BY <1>1, <1>2, <1>3

\* The operations have the shapes that the steps give them.
LEMMA OpShape ==
  ASSUME NEW op \in Ops
  PROVE  /\ op[1] = "write" => op[2] \subseteq Bits /\ op = <<"write", op[2]>>
         /\ op[1] \in {"force", "run", "try"} => op[2] \in Forced /\ op = <<op[1], op[2]>>
         /\ op[1] \in {"synth", "clocks", "track"} => op[2] \in BOOLEAN /\ op = <<op[1], op[2]>>
         /\ op[1] = "mode" => /\ op[2] \in BOOLEAN /\ op[3] \in BOOLEAN
                              /\ op = <<op[1], op[2], op[3]>>
         /\ op[1] \in {"state", "done"} => /\ op[2] \in Wanted /\ op[3] \in BOOLEAN
                                           /\ op = <<op[1], op[2], op[3]>>
<1>1. CASE op \in {<<"poll">>, <<"save">>, <<"restorePrev">>, <<"restoreSaved">>}
  <2>1. op[1] \in {"poll", "save", "restorePrev", "restoreSaved"}
    BY <1>1
  <2> QED BY <2>1
<1>2. CASE op \in {"write"} \X SUBSET Bits
  BY <1>2
<1>3. CASE op \in {"force", "run", "try"} \X Forced
  BY <1>3
<1>4. CASE op \in {"synth", "clocks", "track"} \X BOOLEAN
  BY <1>4
<1>5. CASE op \in {"mode"} \X BOOLEAN \X BOOLEAN
  BY <1>5
<1>6. CASE op \in {"state", "done"} \X Wanted \X BOOLEAN
  BY <1>6
<1> QED BY <1>1, <1>2, <1>3, <1>4, <1>5, <1>6 DEF Ops

\* The accesses and calls are operations.
LEMMA OpsIn ==
  /\ <<"poll">> \in Ops /\ <<"save">> \in Ops
  /\ <<"restorePrev">> \in Ops /\ <<"restoreSaved">> \in Ops
  /\ \A v \in SUBSET Bits : <<"write", v>> \in Ops
  /\ \A to \in Forced : /\ <<"force", to>> \in Ops /\ <<"run", to>> \in Ops
                        /\ <<"try", to>> \in Ops
  /\ \A b \in BOOLEAN : /\ <<"synth", b>> \in Ops /\ <<"clocks", b>> \in Ops
                        /\ <<"track", b>> \in Ops
  /\ \A b, c \in BOOLEAN : <<"mode", b, c>> \in Ops
  /\ \A st \in Wanted, c \in BOOLEAN : <<"state", st, c>> \in Ops /\ <<"done", st, c>> \in Ops
BY DEF Ops

\* Programs that are written out.
LEMMA Written ==
  ASSUME NEW a \in Ops, NEW b \in Ops, NEW c \in Ops, NEW s \in Seq(Ops)
  PROVE  /\ <<a>> \o s = Cons(a, s)
         /\ <<a, b>> \o s = Cons(a, Cons(b, s))
         /\ <<a, b, c>> \o s = Cons(a, Cons(b, Cons(c, s)))
<1>1. <<a>> \o s = Cons(a, s)
  BY DEF Cons
<1>2. <<a, b>> = <<a>> \o <<b>>
  <2>1. <<a, b>> \in Seq(Ops) /\ <<a>> \o <<b>> \in Seq(Ops)
    OBVIOUS
  <2>2. Len(<<a, b>>) = 2 /\ Len(<<a>> \o <<b>>) = 2
    OBVIOUS
  <2>3. \A i \in 1 .. 2 : <<a, b>>[i] = (<<a>> \o <<b>>)[i]
    OBVIOUS
  <2> DEFINE l == <<a, b>>
             r == <<a>> \o <<b>>
  <2>4. /\ l \in Seq(Ops) /\ r \in Seq(Ops) /\ Len(l) = 2 /\ Len(r) = 2
        /\ \A i \in 1 .. 2 : l[i] = r[i]
    BY <2>1, <2>2, <2>3
  <2> HIDE DEF l, r
  <2>5. l = r
    BY <2>4
  <2> QED BY <2>5 DEF l, r
<1>3. <<a, b, c>> = <<a, b>> \o <<c>>
  <2>1. <<a, b, c>> \in Seq(Ops) /\ <<a, b>> \o <<c>> \in Seq(Ops)
    OBVIOUS
  <2>2. Len(<<a, b, c>>) = 3 /\ Len(<<a, b>> \o <<c>>) = 3
    OBVIOUS
  <2>3. \A i \in 1 .. 3 : <<a, b, c>>[i] = (<<a, b>> \o <<c>>)[i]
    OBVIOUS
  <2> QED BY <2>1, <2>2, <2>3
<1> DEFINE A == <<a>>
           B == <<b>>
           C == <<c>>
<1>4. /\ A \in Seq(Ops) /\ B \in Seq(Ops) /\ C \in Seq(Ops) /\ A \o B \in Seq(Ops)
      /\ B \o s \in Seq(Ops) /\ C \o s \in Seq(Ops)
  OBVIOUS
<1>5. <<a, b>> = A \o B /\ <<a, b, c>> = (A \o B) \o C
  BY <1>2, <1>3
<1> HIDE DEF A, B, C
<1>6. ASSUME NEW t \in Seq(Ops)
      PROVE  (A \o B) \o t = A \o (B \o t)
  <2>1. \A x, y \in Seq(Ops) : (x \o y) \o t = x \o (y \o t)
    BY Concat
  <2> QED BY <1>4, <2>1
<1>7. ((A \o B) \o C) \o s = (A \o B) \o (C \o s)
  <2>1. \A x, y \in Seq(Ops) : (x \o y) \o s = x \o (y \o s)
    BY Concat
  <2> QED BY <1>4, <2>1
<1>8. (A \o B) \o s = A \o (B \o s) /\ (A \o B) \o (C \o s) = A \o (B \o (C \o s))
  BY <1>4, <1>6
<1> QED BY <1>1, <1>5, <1>7, <1>8 DEF Cons, A, B, C

\* Concatenation, for the provers to take as it is.
Cat(a, s) == a \o s

\* Concatenation of programs is associative, and the empty program is its unit.
LEMMA Assoc ==
  ASSUME NEW a \in Seq(Ops), NEW b \in Seq(Ops), NEW s \in Seq(Ops)
  PROVE  /\ Cat(a, b) \in Seq(Ops) /\ Cat(Cat(a, b), s) = Cat(a, Cat(b, s))
         /\ Cat(<<>>, s) = s
<1>1. \A x, y \in Seq(Ops) : (x \o y) \o s = x \o (y \o s)
  BY Concat
<1>2. \A x \in Seq(Ops) : x \o b \in Seq(Ops) /\ <<>> \o s = s
  BY Concat
<1> QED BY <1>1, <1>2 DEF Cat

\* Longer ones.
LEMMA Assoc4 ==
  ASSUME NEW a \in Seq(Ops), NEW b \in Seq(Ops), NEW c \in Seq(Ops), NEW s \in Seq(Ops)
  PROVE  Cat(Cat(a, Cat(Cat(b, b), c)), s) = Cat(a, Cat(b, Cat(b, Cat(c, s))))
<1> DEFINE bb == Cat(b, b)
           bc == Cat(bb, c)
           cs == Cat(c, s)
<1>1. bb \in Seq(Ops) /\ \A t \in Seq(Ops) : Cat(bb, t) = Cat(b, Cat(b, t))
  BY Assoc
<1> HIDE DEF bb
<1>2. bc \in Seq(Ops) /\ cs \in Seq(Ops) /\ Cat(bc, s) = Cat(bb, cs)
  BY <1>1, Assoc
<1> HIDE DEF bc, cs
<1>3. Cat(Cat(a, bc), s) = Cat(a, Cat(bc, s))
  BY <1>2, Assoc
<1> QED BY <1>1, <1>2, <1>3 DEF bb, bc, cs

\* The statement of the next lemma, as one formula for the provers.
Flat(a, b, c, d, e, s) ==
  /\ Cat(Cat(Cat(Cat(a, b), c), d), e) \in Seq(Ops)
  /\ Cat(e, s) \in Seq(Ops) /\ Cat(d, Cat(e, s)) \in Seq(Ops)
  /\ Cat(c, Cat(d, Cat(e, s))) \in Seq(Ops)
  /\ Cat(b, Cat(c, Cat(d, Cat(e, s)))) \in Seq(Ops)
  /\ Cat(Cat(Cat(Cat(Cat(a, b), c), d), e), s) = Cat(a, Cat(b, Cat(c, Cat(d, Cat(e, s)))))

\* Six programs one after the other, whichever are joined first.
LEMMA Assoc6 ==
  ASSUME NEW a \in Seq(Ops), NEW b \in Seq(Ops), NEW c \in Seq(Ops), NEW d \in Seq(Ops),
         NEW e \in Seq(Ops), NEW s \in Seq(Ops)
  PROVE  Flat(a, b, c, d, e, s)
<1> DEFINE ab == Cat(a, b)
           abc == Cat(ab, c)
           abcd == Cat(abc, d)
           es == Cat(e, s)
           des == Cat(d, es)
           cdes == Cat(c, des)
<1>1. ab \in Seq(Ops) /\ \A t \in Seq(Ops) : Cat(ab, t) = Cat(a, Cat(b, t))
  BY Assoc
<1> HIDE DEF ab
<1>2. abc \in Seq(Ops) /\ \A t \in Seq(Ops) : Cat(abc, t) = Cat(ab, Cat(c, t))
  BY <1>1, Assoc
<1> HIDE DEF abc
<1>3. abcd \in Seq(Ops) /\ \A t \in Seq(Ops) : Cat(abcd, t) = Cat(abc, Cat(d, t))
  BY <1>2, Assoc
<1> HIDE DEF abcd
<1>4. Cat(abcd, e) \in Seq(Ops) /\ Cat(Cat(abcd, e), s) = Cat(abcd, es) /\ es \in Seq(Ops)
  BY <1>3, Assoc
<1> HIDE DEF es
<1>5. Cat(abcd, es) = Cat(abc, des) /\ des \in Seq(Ops)
  BY <1>3, <1>4, Assoc
<1> HIDE DEF des
<1>6. Cat(abc, des) = Cat(ab, cdes) /\ cdes \in Seq(Ops)
  BY <1>2, <1>5, Assoc
<1> HIDE DEF cdes
<1>7. Cat(ab, cdes) = Cat(a, Cat(b, cdes)) /\ Cat(b, cdes) \in Seq(Ops)
  BY <1>1, <1>6, Assoc
<1> QED BY <1>4, <1>5, <1>6, <1>7 DEF Flat, ab, abc, abcd, es, des, cdes

\* A pair with a third value appended.
LEMMA Appended == \A a, b, c : Append(<<a, b>>, c) = <<a, b, c>>
<1> TAKE a, b, c
<1> DEFINE S == {a, b, c}
           l == Append(<<a, b>>, c)
           r == <<a, b, c>>
<1>1. /\ l \in Seq(S) /\ r \in Seq(S) /\ Len(l) = 3 /\ Len(r) = 3
      /\ \A i \in 1 .. 3 : l[i] = r[i]
  <2>1. <<a, b>> \in Seq(S) /\ Len(<<a, b>>) = 2 /\ <<a, b>>[1] = a /\ <<a, b>>[2] = b
    OBVIOUS
  <2> QED BY <2>1
<1> HIDE DEF l, r, S
<1>2. l = r
  BY <1>1
<1> QED BY <1>2 DEF l, r

\* Two or three operations, as operations before the empty program.
LEMMA Lists ==
  ASSUME NEW a \in Ops, NEW b \in Ops, NEW c \in Ops
  PROVE  /\ <<a, b>> = Cons(a, Cons(b, <<>>))
         /\ <<a, b, c>> = Cons(a, Cons(b, Cons(c, <<>>)))
<1> DEFINE l == <<a, b>>
           m == <<a, b, c>>
<1>1. \A s \in Seq(Ops) : l \o s = Cons(a, Cons(b, s))
  BY Written, Zenon
<1>2. \A s \in Seq(Ops) : m \o s = Cons(a, Cons(b, Cons(c, s)))
  BY Written, Zenon
<1>3. l \in Seq(Ops) /\ m \in Seq(Ops)
  OBVIOUS
<1> HIDE DEF l, m
<1>4. l \o <<>> = l /\ m \o <<>> = m /\ <<>> \in Seq(Ops)
  BY <1>3, Concat
<1>5. l = Cons(a, Cons(b, <<>>)) /\ m = Cons(a, Cons(b, Cons(c, <<>>)))
  BY <1>1, <1>2, <1>4, Zenon
<1> QED BY <1>5 DEF l, m

\* The statement of the next lemma.
Three(a, b, c, s) == <<a, b, c>> \o s = Cons(a, Cons(b, Cons(c, s)))

\* Three operations written before a program.
LEMMA Written3 ==
  ASSUME NEW a \in Ops, NEW b \in Ops, NEW c \in Ops, NEW s \in Seq(Ops)
  PROVE  Three(a, b, c, s)
BY Written DEF Three

\* A concatenation, place by place.
LEMMA Joined ==
  ASSUME NEW a \in Seq(Ops), NEW b \in Seq(Ops)
  PROVE  /\ a \o b \in Seq(Ops) /\ Len(a \o b) = Len(a) + Len(b)
         /\ \A i \in 1 .. Len(a) : (a \o b)[i] = a[i]
         /\ \A i \in 1 .. Len(b) : (a \o b)[Len(a) + i] = b[i]
OBVIOUS

\* Programs with the same operations are the same.
LEMMA SameSeq ==
  ASSUME NEW a \in Seq(Ops), NEW b \in Seq(Ops), Len(a) = Len(b),
         \A i \in 1 .. Len(a) : a[i] = b[i]
  PROVE  a = b
OBVIOUS

\* What an operation is not.
LEMMA Differ ==
  ASSUME NEW op
  PROVE  /\ op[1] # "track" => op # <<"track", TRUE>>
         /\ op[1] # "done" => \A st, pin : op # <<"done", st, pin>>
<1>1. ASSUME op = <<"track", TRUE>> PROVE op[1] = "track"
  BY <1>1
<1>2. ASSUME NEW st, NEW pin, op = <<"done", st, pin>> PROVE op[1] = "done"
  BY <1>2
<1> QED BY <1>1, <1>2

\* The same of five operations.
LEMMA SameFive ==
  ASSUME NEW l \in Seq(Ops), NEW m \in Seq(Ops), Len(l) = 5, Len(m) = 5,
         l[1] = m[1], l[2] = m[2], l[3] = m[3], l[4] = m[4], l[5] = m[5]
  PROVE  l = m
<1>1. \A i \in 1 .. 5 : i \in {1, 2, 3, 4, 5}
  OBVIOUS
<1>2. \A i \in 1 .. Len(l) : l[i] = m[i]
  BY <1>1
<1> QED BY <1>2

\* The same of five.
LEMMA Lists5 ==
  ASSUME NEW a \in Ops, NEW b \in Ops, NEW c \in Ops, NEW x \in Ops, NEW y \in Ops
  PROVE  <<a, b, c, x, y>> = Cons(a, Cons(b, Cons(c, Cons(x, Cons(y, <<>>)))))
<1>1. <<a, b, c, x, y>> \in Seq(Ops) /\ <<a, b, c>> \in Seq(Ops) /\ <<x, y>> \in Seq(Ops)
  OBVIOUS
<1>2. PICK l \in Seq(Ops), m \in Seq(Ops), s \in Seq(Ops) :
        l = <<a, b, c, x, y>> /\ m = <<a, b, c>> /\ s = <<x, y>>
  BY <1>1, Zenon
<1>3. s = Cons(x, Cons(y, <<>>))
  <2>1. <<x, y>> = Cons(x, Cons(y, <<>>))
    BY Lists, Zenon
  <2> QED BY <1>2, <2>1
<1>4. m \o s = Cons(a, Cons(b, Cons(c, s)))
  <2>1. Three(a, b, c, s)
    BY Written3
  <2> QED BY <1>2, <2>1 DEF Three
<1>5. /\ Len(m) = 3 /\ m[1] = a /\ m[2] = b /\ m[3] = c
      /\ Len(s) = 2 /\ s[1] = x /\ s[2] = y
      /\ Len(l) = 5 /\ l[1] = a /\ l[2] = b /\ l[3] = c /\ l[4] = x /\ l[5] = y
  BY <1>2
<1>6. l = m \o s
  <2> DEFINE r == m \o s
  <2>1. /\ r \in Seq(Ops) /\ Len(r) = Len(m) + Len(s)
        /\ \A i \in 1 .. Len(m) : r[i] = m[i]
        /\ \A i \in 1 .. Len(s) : r[Len(m) + i] = s[i]
    BY Joined
  <2> HIDE DEF r
  <2>2. /\ Len(r) = 5 /\ \A i \in 1 .. 3 : r[i] = m[i]
        /\ \A i \in 1 .. 2 : r[3 + i] = s[i]
    BY <1>5, <2>1
  <2>3. r[1] = m[1] /\ r[2] = m[2] /\ r[3] = m[3] /\ r[4] = s[1] /\ r[5] = s[2]
    BY <2>2
  <2>4. l = r
    BY <1>5, <2>1, <2>2, <2>3, SameFive
  <2> QED BY <2>4 DEF r
<1> QED BY <1>2, <1>3, <1>4, <1>6

\* The statement of the next lemma.
Six(a, b, c, x, y, z, s) ==
  <<a, b, c, x, y, z>> \o s = Cons(a, Cons(b, Cons(c, Cons(x, Cons(y, Cons(z, s))))))

\* Six operations written before a program.
LEMMA Written6 ==
  ASSUME NEW a \in Ops, NEW b \in Ops, NEW c \in Ops, NEW x \in Ops, NEW y \in Ops, NEW z \in Ops,
         NEW s \in Seq(Ops)
  PROVE  Six(a, b, c, x, y, z, s)
<1>1. <<a, b, c, x, y, z>> \in Seq(Ops) /\ <<a, b, c>> \in Seq(Ops) /\ <<x, y, z>> \in Seq(Ops)
  OBVIOUS
<1>2. PICK l \in Seq(Ops), m \in Seq(Ops), n \in Seq(Ops) :
        l = <<a, b, c, x, y, z>> /\ m = <<a, b, c>> /\ n = <<x, y, z>>
  BY <1>1, Zenon
<1>3. n \o s = Cons(x, Cons(y, Cons(z, s))) /\ n \o s \in Seq(Ops)
  <2>1. Three(x, y, z, s)
    BY Written3
  <2>2. n \o s \in Seq(Ops)
    BY Joined
  <2> QED BY <1>2, <2>1, <2>2 DEF Three
<1>4. m \o (n \o s) = Cons(a, Cons(b, Cons(c, n \o s)))
  <2>1. PICK t \in Seq(Ops) : t = n \o s
    BY <1>3
  <2>2. Three(a, b, c, t)
    BY Written3
  <2> QED BY <1>2, <2>1, <2>2 DEF Three
<1>5. /\ Len(m) = 3 /\ m[1] = a /\ m[2] = b /\ m[3] = c
      /\ Len(n) = 3 /\ n[1] = x /\ n[2] = y /\ n[3] = z
      /\ Len(l) = 6 /\ l[1] = a /\ l[2] = b /\ l[3] = c /\ l[4] = x /\ l[5] = y /\ l[6] = z
  BY <1>2
<1>6. l = m \o n
  <2> DEFINE r == m \o n
  <2>1. /\ r \in Seq(Ops) /\ Len(r) = Len(m) + Len(n)
        /\ \A i \in 1 .. Len(m) : r[i] = m[i]
        /\ \A i \in 1 .. Len(n) : r[Len(m) + i] = n[i]
    BY Joined
  <2> HIDE DEF r
  <2>2. /\ Len(r) = 6 /\ \A i \in 1 .. 3 : r[i] = m[i]
        /\ \A i \in 1 .. 3 : r[3 + i] = n[i]
    BY <1>5, <2>1
  <2>3. r[1] = m[1] /\ r[2] = m[2] /\ r[3] = m[3] /\ r[4] = n[1] /\ r[5] = n[2] /\ r[6] = n[3]
    BY <2>2
  <2>4. \A i \in 1 .. 6 : i \in {1, 2, 3, 4, 5, 6}
    OBVIOUS
  <2>5. \A i \in 1 .. Len(l) : l[i] = r[i]
    BY <1>5, <2>3, <2>4
  <2>6. l = r
    BY <2>1, <2>2, <1>5, <2>5, SameSeq
  <2> QED BY <2>6 DEF r
<1>7. (m \o n) \o s = m \o (n \o s)
  BY Assoc DEF Cat
<1>8. l \o s = Cons(a, Cons(b, Cons(c, Cons(x, Cons(y, Cons(z, s))))))
  BY <1>3, <1>4, <1>6, <1>7
<1> QED BY <1>2, <1>8 DEF Six

\* The statement of the next lemma.
Two(a, b, s) == <<a, b>> \o s = Cons(a, Cons(b, s))

\* Two operations written before a program.
LEMMA Written2 ==
  ASSUME NEW a \in Ops, NEW b \in Ops, NEW s \in Seq(Ops)
  PROVE  Two(a, b, s)
BY Written DEF Two

-----------------------------------------------------------------------------
(***************************************************************************)
(* What may follow each operation.                                         *)
(***************************************************************************)

\* The program does not begin with what asks something of the operation before it.
Fresh(s) == ~Starts(s, {"run", "try", "poll", "done"})

\* Before a fresh program.
LEMMA FollowsFresh ==
  ASSUME NEW s \in Seq(Ops), NEW fdd \in BOOLEAN, Fresh(s)
  PROVE  /\ Follows(<<"poll">>, s, fdd)
         /\ ~Has(s, "save") /\ Has(s, "restoreSaved") => Follows(<<"save">>, s, fdd)
         /\ \A v \in SUBSET Bits : ("pin" \in v => Ends(s)) => Follows(<<"write", v>>, s, fdd)
         /\ \A to \in Forced :
              /\ Has(s, "restoreSaved") \/ (~Has(s, "force") /\ Has(s, "restorePrev")) =>
                   Follows(<<"force", to>>, s, fdd)
              /\ Follows(<<"run", to>>, s, fdd)
              /\ s = Cons(<<"track", TRUE>>, Cons(<<"restorePrev">>, <<>>)) =>
                   Follows(<<"try", to>>, s, fdd)
         /\ Follows(<<"track", TRUE>>, s, fdd)
         /\ Contains(s, <<"track", TRUE>>) => Follows(<<"track", FALSE>>, s, fdd)
         /\ \A b, c \in BOOLEAN :
              /\ ~Has(s, "mode") => b = fdd
              /\ Meets(s, {"state", "done"}) => b = fdd
              /\ MeetsFdd(s) => b
              /\ ~Has(s, "done") /\ (Has(s, "state") \/ Has(s, "restoreSaved"))
              => Follows(<<"mode", b, c>>, s, fdd)
<1>1. /\ ~Starts(s, {"run", "try"}) /\ ~Starts(s, {"poll"}) /\ ~Starts(s, {"done"})
  BY DEF Fresh, Starts
<1> QED BY <1>1 DEF Follows, Retracks, Settles, Forces, Requests, Returns

\* Before the end of a call, or the tuning that set-up goes on with.
LEMMA FollowsLast ==
  ASSUME NEW s \in Seq(Ops), NEW fdd \in BOOLEAN, Fresh(s)
  PROVE  /\ s = <<>> => Follows(<<"restorePrev">>, s, fdd)
         /\ s \in {<<>>, SetUpEnd} => Follows(<<"restoreSaved">>, s, fdd)
         /\ /\ s = <<>> \/ Starts(s, {"save"})
            /\ \A name \in {"state", "done", "clocks", "synth"} : ~Has(s, name)
            => \A st \in Wanted, c \in BOOLEAN :
                 Follows(<<"state", st, c>>, s, fdd) /\ Follows(<<"done", st, c>>, s, fdd)
         /\ \A b \in BOOLEAN :
              /\ Has(s, "done")
              /\ Has(s, "clocks") \/ \A st \in Wanted, c \in BOOLEAN :
                                        Contains(s, <<"done", st, c>>) => (b <=> st # "SLEEP")
              => Follows(<<"clocks", b>>, s, fdd)
         /\ \A b \in BOOLEAN :
              /\ Has(s, "done") /\ ~Has(s, "synth")
              /\ \A st \in Wanted, c \in BOOLEAN :
                   Contains(s, <<"done", st, c>>) => st \in {"TX", "RX"} /\ (b <=> st = "TX")
              => Follows(<<"synth", b>>, s, fdd)
<1>1. /\ ~Starts(s, {"run", "try"}) /\ ~Starts(s, {"poll"}) /\ ~Starts(s, {"done"})
  BY DEF Fresh, Starts
<1> QED BY <1>1 DEF Follows, Retracks, Settles, Forces, Requests, Returns

\* Before what ends a request.
LEMMA FollowsRequest ==
  ASSUME NEW s \in Seq(Ops), NEW fdd \in BOOLEAN, NEW st \in Wanted, NEW pin \in BOOLEAN
  PROVE  LET d == Cons(<<"done", st, pin>>, s)
         IN  /\ st # "SLEEP" => Follows(<<"write", Request(st, pin)>>, d, fdd)
             /\ /\ st = "SLEEP"
                /\ \A name \in {"state", "done", "clocks", "synth"} : ~Has(s, name)
                => Follows(<<"clocks", FALSE>>, d, fdd)
<1> DEFINE o == <<"done", st, pin>>
           d == Cons(o, s)
<1>1. o \in Ops /\ o[1] = "done" /\ o[2] = st /\ o[3] = pin
  BY OpsIn
<1>2. /\ d # <<>> /\ Head(d) = o
      /\ \A name : Has(d, name) <=> o[1] = name \/ Has(s, name)
      /\ \A other : Contains(d, other) <=> o = other \/ Contains(s, other)
  BY <1>1, ConsFacts, ConsHas, ConsContains
<1>3. ~Starts(d, {"run", "try"}) /\ ~Starts(d, {"poll"})
  BY <1>1, <1>2 DEF Starts
<1>4. ASSUME st # "SLEEP" PROVE Follows(<<"write", Request(st, pin)>>, d, fdd)
  BY <1>1, <1>2, <1>3, <1>4 DEF Follows, Retracks, Settles, Forces, Requests, Returns, Ends
<1>5. ASSUME st = "SLEEP", \A name \in {"state", "done", "clocks", "synth"} : ~Has(s, name)
      PROVE  Follows(<<"clocks", FALSE>>, d, fdd)
  <2>1. \A x \in Wanted, c \in BOOLEAN : Contains(s, <<"done", x, c>>) => Has(s, "done")
    BY DEF Contains, Has
  <2>2. \A x \in Wanted, c \in BOOLEAN : Contains(d, <<"done", x, c>>) => x = "SLEEP"
    <3> TAKE x \in Wanted, c \in BOOLEAN
    <3>1. Contains(d, <<"done", x, c>>) => o = <<"done", x, c>>
      BY <1>2, <1>5, <2>1
    <3> QED BY <1>5, <3>1
  <2> HIDE DEF d
  <2> QED BY <1>1, <1>2, <1>3, <1>5, <2>2 DEF Follows, Retracks, Settles, Forces, Requests, Returns
<1> QED BY <1>4, <1>5

\* Before the wait of ad9361_ensm_force_state, and before the write that it waits for.
LEMMA FollowsForce ==
  ASSUME NEW s \in Seq(Ops), NEW fdd \in BOOLEAN, NEW to \in Forced,
         Follows(<<"force", to>>, s, fdd), NEW v \in SUBSET Bits, "pin" \notin v,
         to = "FDD" => v \cap {"tx", "rx"} # {},
         to = "ALERT" => v \cap {"tx", "rx"} = {} /\ v \cap Alert # {}
  PROVE  /\ Follows(<<"poll">>, s, fdd)
         /\ Follows(<<"write", v>>, Cons(<<"poll">>, s), fdd)
<1>1. /\ Starts(s, {"run", "try"}) => Head(s)[2] = to
      /\ ~(Starts(s, {"poll"}) /\ Starts(Tail(s), {"run", "try"}))
      /\ Starts(s, {"done"}) => Head(s)[2] = "SLEEP"
  <2>1. Forces(<<"force", to>>, s, fdd) /\ Requests(<<"force", to>>, s)
    BY DEF Follows
  <2>2. <<"force", to>> # <<"poll">> /\ \A v2 : <<"force", to>> # <<"write", v2>>
    OBVIOUS
  <2>3. Starts(s, {"run", "try"}) => Head(s)[2] = to
    BY <2>1, <2>2 DEF Forces
  <2>4. ~(Starts(s, {"poll"}) /\ Starts(Tail(s), {"run", "try"}))
    BY <2>1 DEF Forces
  <2>5. Starts(s, {"done"}) => Head(s)[2] = "SLEEP"
    BY <2>1, <2>2 DEF Requests
  <2> QED BY <2>3, <2>4, <2>5
<1>2. Follows(<<"poll">>, s, fdd)
  BY <1>1 DEF Follows, Retracks, Settles, Forces, Requests, Returns
<1> DEFINE p == Cons(<<"poll">>, s)
<1>3. p # <<>> /\ Head(p) = <<"poll">> /\ Tail(p) = s
  BY OpsIn, ConsFacts
<1>4. ~Starts(p, {"run", "try"}) /\ ~Starts(p, {"done"})
  BY <1>3 DEF Starts
<1> HIDE DEF p
<1>5. Follows(<<"write", v>>, p, fdd)
  BY <1>1, <1>3, <1>4 DEF Follows, Retracks, Settles, Forces, Requests, Returns, Forced
<1> QED BY <1>2, <1>5 DEF p

-----------------------------------------------------------------------------
(***************************************************************************)
(* The programs of the calls.                                              *)
(***************************************************************************)

\* All that is known of c, an operation before a program.
IsCons(c, op, s, fdd) ==
  /\ c \in Seq(Ops) /\ c # <<>> /\ Head(c) = op /\ Tail(c) = s
  /\ \A name : Has(c, name) <=> op[1] = name \/ Has(s, name)
  /\ \A other : Contains(c, other) <=> op = other \/ Contains(s, other)
  /\ \A names : Meets(c, names) <=> op[1] \in names \/ (op[1] # "mode" /\ Meets(s, names))
  /\ MeetsFdd(c) <=> \/ op \in {"force", "run", "try"} \X {"FDD"}
                     \/ op[1] # "mode" /\ MeetsFdd(s)
  /\ \A names : Starts(c, names) <=> op[1] \in names
  /\ Fresh(c) <=> op[1] \notin {"run", "try", "poll", "done"}
  /\ Sound(c, fdd) <=> Follows(op, s, fdd) /\ Sound(s, fdd)

\* What IsCons says holds of an operation before a program.
LEMMA ConsAll ==
  ASSUME NEW op \in Ops, NEW s \in Seq(Ops), NEW fdd
  PROVE  IsCons(Cons(op, s), op, s, fdd)
<1> DEFINE c == Cons(op, s)
<1>1. c \in Seq(Ops) /\ c # <<>> /\ Head(c) = op /\ Tail(c) = s
  BY ConsFacts
<1>2. \A name : Has(c, name) <=> op[1] = name \/ Has(s, name)
  BY ConsHas
<1>3. \A other : Contains(c, other) <=> op = other \/ Contains(s, other)
  BY ConsContains
<1>4. /\ \A names : Meets(c, names) <=>
                      op[1] \in names \/ (op[1] # "mode" /\ Meets(s, names))
      /\ MeetsFdd(c) <=> op \in {"force", "run", "try"} \X {"FDD"}
                         \/ (op[1] # "mode" /\ MeetsFdd(s))
  BY ConsMeets
<1>5. Sound(c, fdd) <=> Follows(op, s, fdd) /\ Sound(s, fdd)
  BY ConsSound
<1> HIDE DEF c
<1>6. /\ \A names : Starts(c, names) <=> op[1] \in names
      /\ Fresh(c) <=> op[1] \notin {"run", "try", "poll", "done"}
  BY <1>1 DEF Starts, Fresh
<1>7. IsCons(c, op, s, fdd)
  BY <1>1, <1>2, <1>3, <1>4, <1>5, <1>6, Zenon DEF IsCons
<1> QED BY <1>7 DEF c

\* What is met is in the program.
LEMMA MeetsHas ==
  ASSUME NEW s
  PROVE  /\ Meets(s, {"state", "done"}) => Has(s, "state") \/ Has(s, "done")
         /\ \A st, c : /\ Contains(s, <<"done", st, c>>) => Has(s, "done")
                       /\ Contains(s, <<"state", st, c>>) => Has(s, "state")
BY DEF Meets, Has, Contains

\* A program between the save and the restore of a tuning.
Tuning(s, fdd) ==
  /\ s \in Seq(Ops) /\ Sound(s, fdd) /\ Fresh(s)
  /\ Has(s, "restoreSaved")
  /\ \A name \in {"save", "state", "done", "clocks", "synth"} : ~Has(s, name)
  /\ ~fdd => Has(s, "mode")

\* What a user's call starts with.
Program(s, fdd) ==
  /\ s \in Seq(Ops) /\ Sound(s, fdd) /\ Fresh(s) /\ s # <<>>
  /\ ~Has(s, "clocks") /\ ~Has(s, "done") /\ ~Has(s, "synth")
  /\ MeetsFdd(s) => fdd

\* The end of set-up.
LEMMA SetUpEnds ==
  ASSUME NEW fdd \in BOOLEAN
  PROVE  /\ SetUpEnd \in Seq(Ops) /\ Sound(SetUpEnd, fdd)
         /\ \A name : Has(SetUpEnd, name) <=> name \in {"force", "restorePrev"}
         /\ ~MeetsFdd(SetUpEnd)
         /\ ~Starts(SetUpEnd, {"run", "try", "done", "poll"})
<1> DEFINE r == Cons(<<"restorePrev">>, <<>>)
           l == Cons(<<"force", "ALERT">>, r)
<1>0. /\ <<"restorePrev">> \in Ops /\ <<"force", "ALERT">> \in Ops
      /\ <<>> \in Seq(Ops) /\ "ALERT" \in Forced
  BY OpsIn, Empty DEF Forced
<1>1. /\ r \in Seq(Ops) /\ Sound(r, fdd) /\ Fresh(r) /\ ~MeetsFdd(r)
      /\ \A name : Has(r, name) <=> name = "restorePrev"
  <2>1. Follows(<<"restorePrev">>, <<>>, fdd)
    BY <1>0, Empty, FollowsLast DEF Fresh
  <2>2. IsCons(r, <<"restorePrev">>, <<>>, fdd)
    BY <1>0, ConsAll
  <2> QED BY <2>1, <2>2, Empty DEF IsCons
<1> HIDE DEF r
<1>2. /\ l \in Seq(Ops) /\ Sound(l, fdd) /\ Fresh(l) /\ ~MeetsFdd(l) /\ l # <<>> /\ Tail(l) = r
      /\ \A name : Has(l, name) <=> name \in {"force", "restorePrev"}
  <2>1. Follows(<<"force", "ALERT">>, r, fdd)
    BY <1>0, <1>1, FollowsFresh
  <2>2. IsCons(l, <<"force", "ALERT">>, r, fdd)
    BY <1>0, <1>1, ConsAll
  <2> QED BY <1>1, <2>1, <2>2 DEF IsCons
<1> HIDE DEF l
<1>3. SetUpEnd = l
  BY DEF SetUpEnd, l, r
<1> QED BY <1>2, <1>3 DEF Fresh, Starts

\* The end of a tuning: the duplex mode and the state are restored.
LEMMA TuneEnds ==
  ASSUME NEW end \in {<<>>, SetUpEnd}, NEW fdd \in BOOLEAN, NEW pin \in BOOLEAN
  PROVE  LET r == Cons(<<"restoreSaved">>, end)
             d == IF fdd THEN r ELSE Cons(<<"mode", fdd, pin>>, r)
         IN  Tuning(d, fdd) /\ (MeetsFdd(d) => fdd)
<1> DEFINE r == Cons(<<"restoreSaved">>, end)
           d == Cons(<<"mode", fdd, pin>>, r)
<1>0. /\ end \in Seq(Ops) /\ Sound(end, fdd) /\ ~MeetsFdd(end)
      /\ \A name \in {"save", "state", "done", "clocks", "synth", "mode"} : ~Has(end, name)
      /\ ~Starts(end, {"run", "try", "done"}) /\ ~Starts(end, {"poll"})
  <2>1. CASE end = <<>>
    BY <2>1, Empty DEF Starts
  <2>2. CASE end = SetUpEnd
    BY <2>2, SetUpEnds DEF Starts
  <2> QED BY <2>1, <2>2
<1>1. /\ r \in Seq(Ops) /\ Sound(r, fdd) /\ Fresh(r) /\ ~MeetsFdd(r) /\ Has(r, "restoreSaved")
      /\ \A name \in {"save", "state", "done", "clocks", "synth", "mode"} : ~Has(r, name)
  <2>1. Follows(<<"restoreSaved">>, end, fdd)
    BY <1>0 DEF Follows, Retracks, Settles, Forces, Requests, Returns, Starts
  <2>2. IsCons(r, <<"restoreSaved">>, end, fdd)
    BY <1>0, OpsIn, ConsAll
  <2> QED BY <1>0, <2>1, <2>2 DEF IsCons
<1> HIDE DEF r
<1>2. ~Meets(r, {"state", "done"})
  BY <1>1, MeetsHas
<1>3. ASSUME ~fdd
      PROVE  /\ d \in Seq(Ops) /\ Sound(d, fdd) /\ Fresh(d) /\ Has(d, "restoreSaved")
             /\ ~MeetsFdd(d) /\ Has(d, "mode")
             /\ \A name \in {"save", "state", "done", "clocks", "synth"} : ~Has(d, name)
  <2>1. Follows(<<"mode", fdd, pin>>, r, fdd)
    BY <1>1, <1>2, FollowsFresh
  <2>2. IsCons(d, <<"mode", fdd, pin>>, r, fdd)
    BY <1>1, OpsIn, ConsAll
  <2> QED BY <1>1, <1>2, <1>3, <2>1, <2>2 DEF IsCons
<1> HIDE DEF d
<1>4. LET e == IF fdd THEN r ELSE d IN Tuning(e, fdd) /\ (MeetsFdd(e) => fdd)
  BY <1>1, <1>3 DEF Tuning
<1> QED BY <1>4 DEF r, d

\* A force before the rest of a tuning, and one round of the delay scan.
LEMMA TuneForces ==
  ASSUME NEW s, NEW fdd \in BOOLEAN, Tuning(s, fdd)
  PROVE  /\ \A to \in Forced : Tuning(Cons(<<"force", to>>, s), fdd)
         /\ MeetsFdd(Cons(<<"force", "ALERT">>, s)) => MeetsFdd(s)
         /\ Tuning(SetIntfDelay \o s, fdd)
         /\ Tuning(Append(SetIntfDelay, <<"run", "FDD">>) \o s, fdd)
<1>0. /\ \A to \in Forced : <<"force", to>> \in Ops
      /\ <<"run", "FDD">> \in Ops /\ "ALERT" \in Forced /\ "FDD" \in Forced
  BY OpsIn DEF Forced
<1>1. ASSUME NEW t, Tuning(t, fdd), NEW to \in Forced
      PROVE  /\ Tuning(Cons(<<"force", to>>, t), fdd)
             /\ to = "ALERT" => (MeetsFdd(Cons(<<"force", to>>, t)) => MeetsFdd(t))
  <2> DEFINE c == Cons(<<"force", to>>, t)
  <2>1. IsCons(c, <<"force", to>>, t, fdd)
    BY <1>0, <1>1, ConsAll DEF Tuning
  <2>2. Follows(<<"force", to>>, t, fdd)
    BY <1>1, FollowsFresh DEF Tuning
  <2> HIDE DEF c
  <2>3. Tuning(c, fdd)
    BY <1>1, <2>1, <2>2 DEF IsCons, Tuning
  <2>4. to = "ALERT" => (MeetsFdd(c) => MeetsFdd(t))
    BY <2>1 DEF IsCons
  <2> QED BY <2>3, <2>4 DEF c
<1>2. Tuning(SetIntfDelay \o s, fdd)
  <2>1. SetIntfDelay \o s = Cons(<<"force", "ALERT">>, Cons(<<"force", "FDD">>, s))
    BY <1>0, Written DEF SetIntfDelay, Tuning
  <2>2. Tuning(Cons(<<"force", "FDD">>, s), fdd)
    BY <1>0, <1>1
  <2> QED BY <1>0, <1>1, <2>1, <2>2
<1>3. Tuning(Append(SetIntfDelay, <<"run", "FDD">>) \o s, fdd)
  <2> DEFINE a == <<"run", "FDD">>
             r == Cons(a, s)
             f == Cons(<<"force", "FDD">>, r)
  <2>1. Append(SetIntfDelay, a) \o s = Cons(<<"force", "ALERT">>, f)
    <3> DEFINE x == <<"force", "ALERT">>
               y == <<"force", "FDD">>
    <3>1. Append(SetIntfDelay, a) = <<x, y, a>>
      BY Appended DEF SetIntfDelay
    <3>2. x \in Ops /\ y \in Ops /\ a \in Ops /\ s \in Seq(Ops)
      BY <1>0 DEF Tuning
    <3> HIDE DEF x, y, a
    <3>3. <<x, y, a>> \o s = Cons(x, Cons(y, Cons(a, s)))
      BY <3>2, Written
    <3> QED BY <3>1, <3>3 DEF x, y
  <2>2. IsCons(r, a, s, fdd)
    BY <1>0, ConsAll DEF Tuning
  <2>3. Follows(a, s, fdd)
    BY <1>0, FollowsFresh DEF Tuning
  <2> HIDE DEF r
  <2>4. /\ r \in Seq(Ops) /\ Sound(r, fdd) /\ Head(r) = <<"run", "FDD">> /\ Has(r, "restoreSaved")
        /\ \A names : Starts(r, names) <=> "run" \in names
        /\ \A name \in {"save", "state", "done", "clocks", "synth"} : ~Has(r, name)
        /\ ~fdd => Has(r, "mode")
    BY <2>2, <2>3 DEF Tuning, IsCons
  <2>5. Follows(<<"force", "FDD">>, r, fdd)
    BY <2>4 DEF Follows, Retracks, Settles, Forces, Requests, Returns
  <2>6. IsCons(f, <<"force", "FDD">>, r, fdd)
    BY <1>0, <2>4, ConsAll
  <2> HIDE DEF f, a
  <2>7. Tuning(f, fdd)
    BY <2>4, <2>5, <2>6 DEF Tuning, IsCons
  <2> QED BY <1>0, <1>1, <2>1, <2>7 DEF a
<1> QED BY <1>0, <1>1, <1>2, <1>3

\* The program of ad9361_dig_tune, before the end of the call it is in.
LEMMA DigTunes ==
  ASSUME plat.fdd \in BOOLEAN, plat.pinCtrl \in BOOLEAN,
         NEW skip \in BOOLEAN, NEW ok \in BOOLEAN, NEW end \in {<<>>, SetUpEnd}
  PROVE  /\ DigTune(skip, ok) \in Seq(Ops)
         /\ DigTune(skip, ok) \o end # <<>>
         /\ Head(DigTune(skip, ok) \o end) = <<"save">>
         /\ ~Has(DigTune(skip, ok) \o end, "state")
         /\ Program(DigTune(skip, ok) \o end, plat.fdd)
<1> DEFINE fdd == plat.fdd
           duplex(m, p) == IF fdd THEN <<>> ELSE << <<"mode", m, p>> >>
           round == Append(SetIntfDelay, <<"run", "FDD">>)
           B2 == IF ok THEN SetIntfDelay ELSE <<>>
           delay == Cat(Cat(round, round), B2)
           C1 == duplex(TRUE, FALSE)
           C2 == IF skip THEN <<>> ELSE Cat(C1, delay)
           C3 == IF skip \/ ~ok THEN << <<"force", "ALERT">> >> ELSE <<>>
           C4 == duplex(fdd, plat.pinCtrl)
           C5 == << <<"restoreSaved">> >>
           C0 == << <<"save">> >>
           s5 == Cat(C5, end)
           s4 == Cat(C4, s5)
           s3 == Cat(C3, s4)
           s2 == Cat(C2, s3)
           s0 == Cat(C0, s2)
<1>0. /\ <<"save">> \in Ops /\ <<"restoreSaved">> \in Ops /\ <<"force", "ALERT">> \in Ops
      /\ <<"force", "FDD">> \in Ops /\ <<"run", "FDD">> \in Ops
      /\ \A b, c \in BOOLEAN : <<"mode", b, c>> \in Ops
  BY OpsIn DEF Forced
<1>1. DigTune(skip, ok) = Cat(Cat(Cat(Cat(C0, C2), C3), C4), C5)
  BY DEF DigTune, DigTuneDelay, Cat
<1>2. /\ C0 \in Seq(Ops) /\ C1 \in Seq(Ops) /\ C3 \in Seq(Ops) /\ C4 \in Seq(Ops) /\ C5 \in Seq(Ops)
      /\ round \in Seq(Ops) /\ B2 \in Seq(Ops) /\ end \in Seq(Ops)
  <2>1. SetIntfDelay \in Seq(Ops)
    BY <1>0 DEF SetIntfDelay
  <2>2. round \in Seq(Ops)
    BY <1>0, <2>1
  <2>3. B2 \in Seq(Ops) /\ end \in Seq(Ops)
    BY <2>1, SetUpEnds, Empty
  <2>4. C1 \in Seq(Ops) /\ C4 \in Seq(Ops)
    <3>1. <<"mode", TRUE, FALSE>> \in Ops /\ <<"mode", fdd, plat.pinCtrl>> \in Ops
      BY <1>0
    <3> QED BY <3>1
  <2>5. C0 \in Seq(Ops) /\ C3 \in Seq(Ops) /\ C5 \in Seq(Ops)
    BY <1>0
  <2> QED BY <2>2, <2>3, <2>4, <2>5
<1> HIDE DEF round, B2, C0, C1, C3, C4, C5
<1>3. /\ delay \in Seq(Ops) /\ Cat(C1, delay) \in Seq(Ops)
      /\ \A s \in Seq(Ops) : Cat(Cat(C1, delay), s) = Cat(C1, Cat(round, Cat(round, Cat(B2, s))))
  <2>1. Cat(round, round) \in Seq(Ops) /\ delay \in Seq(Ops) /\ Cat(C1, delay) \in Seq(Ops)
    BY <1>2, Assoc
  <2>2. \A s \in Seq(Ops) : Cat(Cat(C1, delay), s) = Cat(C1, Cat(round, Cat(round, Cat(B2, s))))
    BY <1>2, Assoc4
  <2> QED BY <2>1, <2>2
<1> HIDE DEF delay
<1>4. C2 \in Seq(Ops)
  BY <1>3
<1> HIDE DEF C2
<1>5. Flat(C0, C2, C3, C4, C5, end)
  BY <1>2, <1>4, Assoc6
<1>6. s5 \in Seq(Ops) /\ s4 \in Seq(Ops) /\ s3 \in Seq(Ops) /\ s2 \in Seq(Ops)
  BY <1>5 DEF Flat
<1>7. DigTune(skip, ok) \in Seq(Ops) /\ DigTune(skip, ok) \o end = s0
  <2>1. DigTune(skip, ok) \in Seq(Ops) /\ Cat(DigTune(skip, ok), end) = s0
    BY <1>1, <1>5 DEF Flat
  <2> QED BY <2>1 DEF Cat
<1> HIDE DEF s0, s2, s3, s4, s5
<1>8. Tuning(s4, fdd) /\ (MeetsFdd(s4) => fdd)
  <2> DEFINE r == Cons(<<"restoreSaved">>, end)
  <2>1. s5 = r
    BY DEF C5, Cons, s5, Cat
  <2> HIDE DEF r
  <2>2. s4 = IF fdd THEN r ELSE Cons(<<"mode", fdd, plat.pinCtrl>>, r)
    <3>1. s4 = Cat(C4, r)
      BY <2>1 DEF s4
    <3>2. CASE fdd
      <4>1. s4 = Cat(<<>>, r)
        BY <3>1, <3>2 DEF C4
      <4> QED BY <1>6, <2>1, <3>2, <4>1, Assoc
    <3>3. CASE ~fdd
      BY <3>1, <3>3 DEF C4, Cons, Cat
    <3> QED BY <3>2, <3>3
  <2> QED BY <2>2, TuneEnds DEF r
<1>9. Tuning(s3, fdd) /\ (MeetsFdd(s3) => fdd)
  <2>1. CASE skip \/ ~ok
    <3>1. s3 = Cons(<<"force", "ALERT">>, s4)
      BY <2>1 DEF C3, Cons, s3, Cat
    <3> QED BY <1>8, <3>1, TuneForces DEF Forced
  <2>2. CASE ~(skip \/ ~ok)
    <3>1. s3 = Cat(<<>>, s4)
      BY <2>2 DEF C3, s3
    <3>2. s3 = s4
      BY <1>6, <3>1, Assoc
    <3> QED BY <1>8, <3>2
  <2> QED BY <2>1, <2>2
<1>10. Tuning(s2, fdd) /\ (MeetsFdd(s2) => fdd)
  <2>1. CASE skip
    <3>1. s2 = Cat(<<>>, s3)
      BY <2>1 DEF C2, s2
    <3>2. s2 = s3
      BY <1>6, <3>1, Assoc
    <3> QED BY <1>9, <3>2
  <2>2. CASE ~skip
    <3> DEFINE t == Cat(B2, s3)
               u == Cat(round, t)
               v == Cat(round, u)
    <3>1. Tuning(t, fdd)
      <4>1. CASE ok
        <5>1. t = Cat(SetIntfDelay, s3)
          BY <4>1 DEF B2
        <5> HIDE DEF t
        <5> QED BY <1>9, <5>1, TuneForces DEF Cat
      <4>2. CASE ~ok
        <5>1. t = Cat(<<>>, s3)
          BY <4>2 DEF B2
        <5>2. t = s3
          BY <1>6, <5>1, Assoc
        <5> HIDE DEF t
        <5> QED BY <1>9, <5>2
      <4> QED BY <4>1, <4>2
    <3>6. s2 = Cat(C1, v)
      <4>1. s2 = Cat(Cat(C1, delay), s3)
        BY <2>2 DEF C2, s2
      <4> QED BY <1>3, <1>6, <4>1
    <3> HIDE DEF t
    <3>2. Tuning(u, fdd)
      BY <3>1, TuneForces DEF round, Cat
    <3> HIDE DEF u
    <3>3. Tuning(v, fdd)
      BY <3>2, TuneForces DEF round, Cat
    <3>4. v \in Seq(Ops)
      BY <3>3 DEF Tuning
    <3> HIDE DEF v
    <3>7. CASE fdd
      <4>1. s2 = Cat(<<>>, v)
        BY <3>6, <3>7 DEF C1
      <4>2. s2 = v
        BY <3>4, <4>1, Assoc
      <4> QED BY <3>3, <3>7, <4>2
    <3>8. CASE ~fdd
      <4> DEFINE op == <<"mode", TRUE, FALSE>>
      <4>1. s2 = Cons(op, v)
        BY <3>6, <3>8 DEF C1, Cons, Cat
      <4>2. op \in Ops
        BY OpsIn
      <4>3. IsCons(s2, op, v, fdd)
        BY <3>4, <4>1, <4>2, ConsAll
      <4>4. ~Meets(v, {"state", "done"})
        BY <3>3, MeetsHas DEF Tuning
      <4>5. Follows(op, v, fdd)
        BY <3>3, <3>8, <4>4, FollowsFresh DEF Tuning
      <4> QED BY <3>3, <3>8, <4>3, <4>5 DEF IsCons, Tuning
    <3> QED BY <3>7, <3>8
  <2> QED BY <2>1, <2>2
<1>11. IsCons(s0, <<"save">>, s2, fdd)
  <2>1. s0 = Cons(<<"save">>, s2)
    BY DEF C0, Cons, s0, Cat
  <2> QED BY <1>0, <1>6, <2>1, ConsAll
<1>12. Follows(<<"save">>, s2, fdd)
  BY <1>10, FollowsFresh DEF Tuning
<1>13. /\ s0 # <<>> /\ Head(s0) = <<"save">> /\ ~Has(s0, "state") /\ Program(s0, fdd)
  BY <1>10, <1>11, <1>12 DEF IsCons, Tuning, Program
<1> QED BY <1>13, <1>7

\* The calls that force a state, do their work in it and restore the state.
LEMMA WorkInAlert ==
  ASSUME NEW fdd \in BOOLEAN, NEW tracks \in BOOLEAN, NEW work \in {"run", "try"},
         work = "try" => tracks
  PROVE  LET p == Cons(<<"restorePrev">>, <<>>)
             q == IF tracks THEN Cons(<<"track", TRUE>>, p) ELSE p
             f == Cons(<<"force", "ALERT">>, Cons(<<work, "ALERT">>, q))
         IN  Program(IF tracks THEN Cons(<<"track", FALSE>>, f) ELSE f, fdd)
<1> DEFINE p == Cons(<<"restorePrev">>, <<>>)
           t == Cons(<<"track", TRUE>>, p)
           q == IF tracks THEN t ELSE p
           w == Cons(<<work, "ALERT">>, q)
           f == Cons(<<"force", "ALERT">>, w)
           g == Cons(<<"track", FALSE>>, f)
<1>0. /\ <<"restorePrev">> \in Ops /\ <<"track", TRUE>> \in Ops /\ <<"track", FALSE>> \in Ops
      /\ <<work, "ALERT">> \in Ops /\ <<"force", "ALERT">> \in Ops /\ <<>> \in Seq(Ops)
      /\ "ALERT" \in Forced
  BY OpsIn, Empty DEF Forced
<1>1. /\ p \in Seq(Ops) /\ Sound(p, fdd) /\ Fresh(p) /\ ~MeetsFdd(p)
      /\ \A name : Has(p, name) <=> name = "restorePrev"
  <2>1. Follows(<<"restorePrev">>, <<>>, fdd)
    BY <1>0, Empty, FollowsLast DEF Fresh
  <2>2. IsCons(p, <<"restorePrev">>, <<>>, fdd)
    BY <1>0, ConsAll
  <2> QED BY <2>1, <2>2, Empty DEF IsCons
<1>2. /\ q \in Seq(Ops) /\ Sound(q, fdd) /\ Fresh(q) /\ ~MeetsFdd(q)
      /\ tracks => Contains(q, <<"track", TRUE>>)
      /\ \A name : Has(q, name) => name \in {"restorePrev", "track"}
      /\ Has(q, "restorePrev")
  <2> HIDE DEF p
  <2>1. Follows(<<"track", TRUE>>, p, fdd)
    BY <1>1, FollowsFresh
  <2>2. IsCons(t, <<"track", TRUE>>, p, fdd)
    BY <1>0, <1>1, ConsAll
  <2> HIDE DEF t
  <2> QED BY <1>1, <2>1, <2>2 DEF IsCons
<1>3. /\ w \in Seq(Ops) /\ Sound(w, fdd) /\ ~MeetsFdd(w) /\ Head(w) = <<work, "ALERT">>
      /\ \A names : Starts(w, names) <=> work \in names
      /\ tracks => Contains(w, <<"track", TRUE>>)
      /\ \A name : Has(w, name) => name \in {"restorePrev", "track", "run", "try"}
      /\ Has(w, "restorePrev")
  <2>1. Follows(<<work, "ALERT">>, q, fdd)
    <3>1. work = "try" => q = Cons(<<"track", TRUE>>, Cons(<<"restorePrev">>, <<>>))
      OBVIOUS
    <3> HIDE DEF q
    <3> QED BY <1>0, <1>2, <3>1, FollowsFresh
  <2> HIDE DEF q
  <2>2. IsCons(w, <<work, "ALERT">>, q, fdd)
    BY <1>0, <1>2, ConsAll
  <2> HIDE DEF w
  <2> QED BY <1>2, <2>1, <2>2 DEF IsCons
<1> HIDE DEF p, t, q, w
<1>4. /\ f \in Seq(Ops) /\ Sound(f, fdd) /\ ~MeetsFdd(f) /\ Fresh(f) /\ f # <<>>
      /\ tracks => Contains(f, <<"track", TRUE>>)
      /\ ~Has(f, "clocks") /\ ~Has(f, "done") /\ ~Has(f, "synth")
  <2>1. Follows(<<"force", "ALERT">>, w, fdd)
    <3>1. /\ ~Has(w, "force") /\ ~Starts(w, {"poll"}) /\ ~Starts(w, {"done"})
      BY <1>3
    <3> QED BY <1>3, <3>1 DEF Follows, Retracks, Settles, Forces, Requests, Returns
  <2>2. IsCons(f, <<"force", "ALERT">>, w, fdd)
    BY <1>0, <1>3, ConsAll
  <2> HIDE DEF f
  <2> QED BY <1>3, <2>1, <2>2 DEF IsCons
<1> HIDE DEF f
<1>5. tracks => Program(g, fdd)
  <2>1. tracks => Follows(<<"track", FALSE>>, f, fdd)
    BY <1>4, FollowsFresh
  <2>2. IsCons(g, <<"track", FALSE>>, f, fdd)
    BY <1>0, <1>4, ConsAll
  <2> HIDE DEF g
  <2> QED BY <1>4, <2>1, <2>2 DEF IsCons, Program
<1>6. ~tracks => Program(f, fdd)
  BY <1>4 DEF Program
<1> QED BY <1>5, <1>6 DEF p, t, q, w, f

\* What a user may call.
LEMMA UserPrograms ==
  ASSUME plat.fdd \in BOOLEAN, plat.pinCtrl \in BOOLEAN
  PROVE  /\ \A st \in Wanted, pin \in BOOLEAN : Program(SetMode(st, pin), plat.fdd)
         /\ Program(DoCalibRun, plat.fdd) /\ Program(UpdateRfBandwidth, plat.fdd)
         /\ Program(LoadFirFilterCoef, plat.fdd)
         /\ \A skip, ok \in BOOLEAN : Program(DigTune(skip, ok), plat.fdd)
<1> DEFINE fdd == plat.fdd
<1>0. <<>> \in Seq(Ops)
  BY Empty
<1>1. ASSUME NEW st \in Wanted, NEW pin \in BOOLEAN
      PROVE  Program(SetMode(st, pin), fdd)
  <2> DEFINE m == <<"mode", fdd, pin>>
             o == <<"state", st, pin>>
             s == Cons(o, <<>>)
             p == Cons(m, s)
  <2>1. m \in Ops /\ o \in Ops
    BY OpsIn
  <2>2. SetMode(st, pin) = p
    <3>1. SetMode(st, pin) = <<m, o>>
      BY DEF SetMode
    <3> HIDE DEF m, o
    <3> QED BY <2>1, <3>1, Lists
  <2>3. Follows(o, <<>>, fdd)
    BY <1>0, Empty, FollowsLast DEF Fresh
  <2>4. IsCons(s, o, <<>>, fdd)
    BY <1>0, <2>1, ConsAll
  <2> HIDE DEF s
  <2>5. /\ s \in Seq(Ops) /\ Sound(s, fdd) /\ Fresh(s) /\ ~MeetsFdd(s)
        /\ \A name : Has(s, name) <=> name = "state"
    BY <2>3, <2>4, Empty DEF IsCons
  <2>6. Follows(m, s, fdd)
    BY <2>5, FollowsFresh
  <2>7. IsCons(p, m, s, fdd)
    BY <2>1, <2>5, ConsAll
  <2> HIDE DEF p
  <2> QED BY <2>2, <2>5, <2>6, <2>7 DEF IsCons, Program
<1>2. \A skip, ok \in BOOLEAN : Program(DigTune(skip, ok), fdd)
  <2> TAKE skip, ok \in BOOLEAN
  <2>1. DigTune(skip, ok) \in Seq(Ops) /\ Program(DigTune(skip, ok) \o <<>>, fdd)
    BY DigTunes
  <2>2. DigTune(skip, ok) \o <<>> = DigTune(skip, ok)
    BY <2>1, Concat
  <2> QED BY <2>1, <2>2
<1> DEFINE a == <<"track", FALSE>>
           b == <<"force", "ALERT">>
           c == <<"run", "ALERT">>
           x == <<"try", "ALERT">>
           d == <<"track", TRUE>>
           e == <<"restorePrev">>
<1>3. a \in Ops /\ b \in Ops /\ c \in Ops /\ x \in Ops /\ d \in Ops /\ e \in Ops
  BY OpsIn DEF Forced
<1>4. Program(LoadFirFilterCoef, fdd)
  <2>1. Program(Cons(b, Cons(c, Cons(e, <<>>))), fdd)
    BY WorkInAlert
  <2>2. LoadFirFilterCoef = <<b, c, e>>
    BY DEF LoadFirFilterCoef
  <2> HIDE DEF a, b, c, d, e, x
  <2>3. <<b, c, e>> = Cons(b, Cons(c, Cons(e, <<>>)))
    BY <1>3, Lists, Zenon
  <2> QED BY <2>1, <2>2, <2>3, Zenon
<1>5. ASSUME NEW y \in Ops
      PROVE  <<a, b, y, d, e>> = Cons(a, Cons(b, Cons(y, Cons(d, Cons(e, <<>>)))))
  <2> HIDE DEF a, b, c, d, e, x
  <2> QED BY <1>3, Lists5
<1>6. Program(DoCalibRun, fdd)
  <2>1. Program(Cons(a, Cons(b, Cons(c, Cons(d, Cons(e, <<>>))))), fdd)
    BY WorkInAlert
  <2>2. DoCalibRun = <<a, b, c, d, e>>
    BY DEF DoCalibRun
  <2> QED BY <1>3, <1>5, <2>1, <2>2, Zenon
<1>7. Program(UpdateRfBandwidth, fdd)
  <2>1. Program(Cons(a, Cons(b, Cons(x, Cons(d, Cons(e, <<>>))))), fdd)
    BY WorkInAlert
  <2>2. UpdateRfBandwidth = <<a, b, x, d, e>>
    BY DEF UpdateRfBandwidth
  <2> QED BY <1>3, <1>5, <2>1, <2>2, Zenon
<1> QED BY <1>1, <1>2, <1>4, <1>6, <1>7

\* What set-up starts with: the request, the tuning and the end.
LEMMA SetUps ==
  ASSUME plat.fdd \in BOOLEAN, plat.pinCtrl \in BOOLEAN, NEW ok \in BOOLEAN
  PROVE  /\ Program(SetUp(ok), plat.fdd)
         /\ \E s \in Seq(Ops) :
              SetUp(ok) = Cons(<<"state", IF plat.fdd THEN "FDD" ELSE "RX", plat.pinCtrl>>, s)
<1> DEFINE st == IF plat.fdd THEN "FDD" ELSE "RX"
           o == <<"state", st, plat.pinCtrl>>
           dt == DigTune(FALSE, ok)
           s == dt \o SetUpEnd
<1>0. o \in Ops /\ st \in Wanted
  BY OpsIn DEF Wanted, Active
<1>1. /\ dt \in Seq(Ops) /\ s # <<>> /\ Head(s) = <<"save">> /\ ~Has(s, "state")
      /\ Program(s, plat.fdd)
  BY DigTunes
<1>2. SetUp(ok) = Cons(o, s)
  <2> DEFINE x == <<"force", "ALERT">>
             y == <<"restorePrev">>
             b == <<o>>
  <2>1. SetUp(ok) = Cat(Cat(b, dt), <<x, y>>)
    BY DEF SetUp, Cat
  <2>2. x \in Ops /\ y \in Ops
    BY OpsIn DEF Forced
  <2> HIDE DEF x, y, o, dt
  <2>3. <<x, y>> = SetUpEnd
    <3>1. <<x, y>> = Cons(x, Cons(y, <<>>))
      BY <2>2, Lists
    <3> QED BY <3>1 DEF SetUpEnd, x, y
  <2>4. b \in Seq(Ops)
    BY <1>0
  <2> HIDE DEF b
  <2>5. Cat(Cat(b, dt), SetUpEnd) = Cat(b, Cat(dt, SetUpEnd))
    BY <1>1, <2>4, SetUpEnds, Assoc
  <2>6. SetUp(ok) = Cat(b, Cat(dt, SetUpEnd))
    BY <2>1, <2>3, <2>5
  <2> QED BY <2>6 DEF Cat, Cons, b
<1>6. s \in Seq(Ops)
  BY <1>1 DEF Program
<1> HIDE DEF s
<1>3. IsCons(Cons(o, s), o, s, plat.fdd)
  BY <1>0, <1>1, ConsAll DEF Program
<1>4. Follows(o, s, plat.fdd)
  <2>1. Starts(s, {"save"}) /\ Fresh(s) /\ s \in Seq(Ops)
    BY <1>1 DEF Starts, Program
  <2>2. \A name \in {"state", "done", "clocks", "synth"} : ~Has(s, name)
    BY <1>1 DEF Program
  <2> QED BY <1>0, <2>1, <2>2, FollowsLast
<1> HIDE DEF o
<1>5. Program(Cons(o, s), plat.fdd)
  BY <1>1, <1>3, <1>4 DEF IsCons, Program, o
<1> QED BY <1>2, <1>5, <1>6 DEF o

-----------------------------------------------------------------------------
(***************************************************************************)
(* The steps keep the program sound.                                       *)
(***************************************************************************)

\* The running call, one operation at a time.
LEMMA Running ==
  ASSUME ProgramInv, todo # <<>>
  PROVE  /\ Head(todo) \in Ops /\ Tail(todo) \in Seq(Ops)
         /\ IsCons(todo, Head(todo), Tail(todo), plat.fdd)
         /\ Follows(Head(todo), Tail(todo), plat.fdd) /\ Sound(Tail(todo), plat.fdd)
<1>1. todo \in Seq(Ops) /\ Sound(todo, plat.fdd)
  BY DEF ProgramInv
<1>2. /\ Head(todo) \in Ops /\ Tail(todo) \in Seq(Ops)
      /\ todo = Cons(Head(todo), Tail(todo))
  BY <1>1, Uncons
<1>3. IsCons(Cons(Head(todo), Tail(todo)), Head(todo), Tail(todo), plat.fdd)
  BY <1>2, ConsAll
<1>4. IsCons(todo, Head(todo), Tail(todo), plat.fdd)
  BY <1>2, <1>3
<1>5. Follows(Head(todo), Tail(todo), plat.fdd) /\ Sound(Tail(todo), plat.fdd)
  BY <1>1, <1>4 DEF IsCons
<1> QED BY <1>2, <1>4, <1>5

\* What is left of a call before and after an expansion, as far as the invariant looks.
Same(t, s, fdd) ==
  /\ t \in Seq(Ops) /\ Sound(t, fdd)
  /\ \A name : name \notin {"write", "poll"} => (Has(t, name) <=> Has(s, name))
  /\ \A st, pin : Contains(t, <<"done", st, pin>>) <=> Contains(s, <<"done", st, pin>>)
  /\ Contains(t, <<"track", TRUE>>) <=> Contains(s, <<"track", TRUE>>)
  /\ Meets(t, {"state", "done"}) <=> Meets(s, {"state", "done"})
  /\ MeetsFdd(t) <=> MeetsFdd(s)

\* A write or a poll before a program changes nothing of that.
LEMMA SameCons ==
  ASSUME NEW op \in Ops, op[1] \in {"write", "poll"}, NEW t, NEW s, NEW fdd \in BOOLEAN,
         Same(t, s, fdd), Follows(op, t, fdd)
  PROVE  Same(Cons(op, t), s, fdd)
<1> DEFINE c == Cons(op, t)
<1>1. IsCons(c, op, t, fdd)
  BY ConsAll DEF Same
<1>2. op[1] # "track" /\ op[1] # "done"
  OBVIOUS
<1>3. op # <<"track", TRUE>> /\ \A st, pin : op # <<"done", st, pin>>
  BY <1>2, Differ
<1>4. op[1] # "mode" /\ op \notin {"force", "run", "try"} \X {"FDD"}
  OBVIOUS
<1> HIDE DEF c
<1>5. Same(c, s, fdd)
  BY <1>1, <1>3, <1>4 DEF Same, IsCons
<1> QED BY <1>5 DEF c

\* ad9361_ensm_force_state
LEMMA ForceProgram ==
  ASSUME NEW s \in Seq(Ops), NEW fdd \in BOOLEAN, Sound(s, fdd), NEW to \in Forced,
         Follows(<<"force", to>>, s, fdd), NEW v \in SUBSET Bits, "pin" \notin v,
         to = "FDD" => v \cap {"tx", "rx"} # {},
         to = "ALERT" => v \cap {"tx", "rx"} = {} /\ v \cap Alert # {}
  PROVE  LET p == << <<"write", Alert>>, <<"write", v>>, <<"poll">> >> \o s
         IN  Same(p, s, fdd) /\ Fresh(p)
<1> DEFINE w == <<"write", Alert>>
           x == <<"write", v>>
           y == <<"poll">>
           p == Cons(y, s)
           q == Cons(x, p)
           r == Cons(w, q)
<1>1. w \in Ops /\ x \in Ops /\ y \in Ops
  BY OpsIn DEF Alert, Bits
<1>2. Follows(y, s, fdd) /\ Follows(x, p, fdd)
  BY FollowsForce
<1>3. Same(p, s, fdd)
  <2>1. Same(s, s, fdd)
    BY DEF Same
  <2> QED BY <1>1, <1>2, <2>1, SameCons
<1> HIDE DEF p
<1>4. Same(q, s, fdd)
  BY <1>1, <1>2, <1>3, SameCons
<1>5. IsCons(q, x, p, fdd)
  BY <1>1, <1>3, ConsAll DEF Same
<1> HIDE DEF q
<1>6. Fresh(q)
  BY <1>5 DEF IsCons
<1>7. Follows(w, q, fdd)
  BY <1>4, <1>6, FollowsFresh DEF Same, Alert, Bits
<1>8. Same(r, s, fdd)
  BY <1>1, <1>4, <1>7, SameCons
<1>9. IsCons(r, w, q, fdd)
  BY <1>1, <1>4, ConsAll DEF Same
<1> HIDE DEF r
<1>10. Fresh(r)
  BY <1>9 DEF IsCons
<1>11. << w, x, y >> \o s = r
  <2> HIDE DEF w, x, y
  <2>0. Three(w, x, y, s)
    BY <1>1, Written3
  <2>1. << w, x, y >> \o s = Cons(w, Cons(x, Cons(y, s)))
    BY <2>0 DEF Three
  <2> QED BY <2>1 DEF r, q, p
<1> QED BY <1>8, <1>10, <1>11

\* What is written to come back to a state.
Restored(st) ==
  (config1 \ {"tx", "rx", "forceAlert"}) \cup {"toAlert"}
  \cup (CASE st \in {"TX", "FDD"} -> {"tx"}
          [] st = "RX" -> {"rx"}
          [] OTHER -> {})

\* The accesses of ad9361_ensm_restore_state.
LEMMA RestoreShape ==
  ASSUME NEW s \in Seq(Ops), config1 \subseteq Bits, NEW st
  PROVE  LET w(v, t) == Cons(<<"write", v>>, t)
         IN  Restoring(st) \o s =
               IF st \notin Active \cup {"ALERT"} THEN s
               ELSE w(Alert, w(Restored(st), IF pinCtl THEN w(Restored(st) \cup {"pin"}, s) ELSE s))
<1> DEFINE w == <<"write", Alert>>
           x == <<"write", Restored(st)>>
           y == <<"write", Restored(st) \cup {"pin"}>>
<1>1. Restored(st) \in SUBSET Bits /\ Restored(st) \cup {"pin"} \in SUBSET Bits
  BY DEF Bits, Restored
<1>2. w \in Ops /\ x \in Ops /\ y \in Ops
  BY <1>1, OpsIn DEF Alert, Bits
<1>3. CASE st \notin Active \cup {"ALERT"}
  <2>1. Restoring(st) = <<>>
    BY <1>3 DEF Restoring
  <2> QED BY <1>3, <2>1, Concat
<1>4. CASE st \in Active \cup {"ALERT"} /\ ~pinCtl
  <2>1. Restoring(st) = <<w, x>>
    <3>1. Restoring(st) = <<w, x>> \o <<>>
      BY <1>4 DEF Restoring, Restored
    <3>2. <<w, x>> \in Seq(Ops)
      BY <1>2
    <3> HIDE DEF w, x
    <3> QED BY <3>1, <3>2, Concat
  <2> HIDE DEF w, x
  <2>2. <<w, x>> \o s = Cons(w, Cons(x, s))
    BY <1>2, Written
  <2> QED BY <1>4, <2>1, <2>2 DEF w, x
<1>5. CASE st \in Active \cup {"ALERT"} /\ pinCtl
  <2>1. Restoring(st) = <<w, x, y>>
    <3>1. Restoring(st) = <<w, x>> \o <<y>>
      BY <1>5 DEF Restoring, Restored
    <3> HIDE DEF w, x, y
    <3>2. <<w, x>> \o <<y>> = Append(<<w, x>>, y)
      BY <1>2
    <3> QED BY <3>1, <3>2, Appended
  <2> HIDE DEF w, x, y
  <2>3. Three(w, x, y, s)
    BY <1>2, Written3
  <2>2. <<w, x, y>> \o s = Cons(w, Cons(x, Cons(y, s)))
    BY <2>3 DEF Three
  <2> QED BY <1>5, <2>1, <2>2 DEF w, x, y
<1> QED BY <1>3, <1>4, <1>5

\* ad9361_ensm_restore_state
LEMMA RestoreProgram ==
  ASSUME NEW s \in {<<>>, SetUpEnd}, plat.fdd \in BOOLEAN, config1 \subseteq Bits, NEW st
  PROVE  /\ Same(Restoring(st) \o s, s, plat.fdd)
         /\ Restoring(st) \o s = s \/ Fresh(Restoring(st) \o s)
<1> DEFINE fdd == plat.fdd
           val == Restored(st)
           w(v, t) == Cons(<<"write", v>>, t)
<1>0. /\ s \in Seq(Ops) /\ Sound(s, fdd) /\ Ends(s)
      /\ ~Starts(s, {"run", "try", "done"}) /\ ~(Starts(s, {"poll"}) /\ Starts(Tail(s), {"run", "try"}))
  <2>1. CASE s = <<>>
    BY <2>1, Empty DEF Ends
  <2>2. CASE s = SetUpEnd
    BY <2>2, SetUpEnds DEF Ends, Starts
  <2> QED BY <2>1, <2>2
<1>1. Same(s, s, fdd)
  BY <1>0 DEF Same
<1>2. val \in SUBSET Bits /\ val \cup {"pin"} \in SUBSET Bits /\ Alert \in SUBSET Bits
  BY DEF Bits, Restored, Alert
<1> HIDE DEF val
<1>3. \A v \in SUBSET Bits : Follows(<<"write", v>>, s, fdd)
  <2>1. ~Starts(s, {"run", "try"}) /\ ~Starts(s, {"done"})
    BY <1>0 DEF Starts
  <2> QED BY <1>0, <2>1 DEF Follows, Retracks, Settles, Forces, Requests, Returns
<1>4. ASSUME NEW v \in SUBSET Bits, NEW t, Same(t, s, fdd), Follows(<<"write", v>>, t, fdd)
      PROVE  LET c == w(v, t)
             IN  Same(c, s, fdd) /\ Fresh(c) /\ \A u \in SUBSET Bits : Follows(<<"write", u>>, c, fdd)
  <2> DEFINE op == <<"write", v>>
             c == Cons(op, t)
  <2>0. op \in Ops /\ op[1] = "write"
    BY OpsIn
  <2>1. Same(c, s, fdd)
    BY <1>4, <2>0, SameCons
  <2>2. IsCons(c, op, t, fdd)
    BY <1>4, <2>0, ConsAll DEF Same
  <2> HIDE DEF c
  <2>3. Fresh(c)
    BY <2>2 DEF IsCons
  <2>4. \A u \in SUBSET Bits : Follows(<<"write", u>>, c, fdd)
    <3>1. Ends(c) /\ c \in Seq(Ops)
      BY <1>0, <2>1 DEF Same, Ends
    <3> QED BY <2>3, <3>1, FollowsFresh
  <2> QED BY <2>1, <2>3, <2>4 DEF c
<1> HIDE DEF w
<1> DEFINE t == IF pinCtl THEN w(val \cup {"pin"}, s) ELSE s
<1>5. Same(t, s, fdd) /\ \A u \in SUBSET Bits : Follows(<<"write", u>>, t, fdd)
  BY <1>1, <1>2, <1>3, <1>4
<1> HIDE DEF t
<1>6. Same(w(val, t), s, fdd) /\ \A u \in SUBSET Bits : Follows(<<"write", u>>, w(val, t), fdd)
  BY <1>2, <1>4, <1>5
<1>7. Same(w(Alert, w(val, t)), s, fdd) /\ Fresh(w(Alert, w(val, t)))
  BY <1>2, <1>4, <1>6
<1>8. Restoring(st) \o s = IF st \notin Active \cup {"ALERT"} THEN s ELSE w(Alert, w(val, t))
  BY <1>0, RestoreShape DEF t, val, w
<1> QED BY <1>1, <1>7, <1>8

\* What a request comes to: t asks for st and goes on with s.
Leads(t, s, names, st, pin, fdd) ==
  /\ t \in Seq(Ops) /\ Sound(t, fdd)
  /\ \A name : Has(t, name) <=> name \in names \/ Has(s, name)
  /\ \A x, c : Contains(t, <<"done", x, c>>) <=> x = st /\ c = pin
  /\ MeetsFdd(t) <=> MeetsFdd(s)
  /\ Contains(t, <<"track", TRUE>>) <=> Contains(s, <<"track", TRUE>>)

\* What may come after a request.
After1(s, fdd) ==
  /\ s \in Seq(Ops) /\ Sound(s, fdd) /\ Fresh(s)
  /\ s = <<>> \/ Starts(s, {"save"})
  /\ \A name \in {"state", "done", "clocks", "synth"} : ~Has(s, name)

\* One more access before it.
Grows(op, c, t, s, names, st, pin, fdd) ==
  /\ Leads(c, s, names \cup {op[1]}, st, pin, fdd)
  /\ op[1] # "poll" => Fresh(c)
  /\ ~Starts(c, {"run", "try"}) /\ ~Starts(c, {"done"})
  /\ Tail(c) = t

\* An access before what asks for a state asks for it too.
LEMMA LeadsCons ==
  ASSUME NEW op \in Ops, op[1] \in {"write", "poll", "clocks", "synth"},
         NEW t, NEW s, NEW names, NEW st, NEW pin, NEW fdd \in BOOLEAN,
         Leads(t, s, names, st, pin, fdd), Follows(op, t, fdd)
  PROVE  Grows(op, Cons(op, t), t, s, names, st, pin, fdd)
<1> DEFINE c == Cons(op, t)
<1>1. IsCons(c, op, t, fdd)
  BY ConsAll DEF Leads
<1>2. op[1] # "track" /\ op[1] # "done"
  OBVIOUS
<1>3. op # <<"track", TRUE>> /\ \A x, d : op # <<"done", x, d>>
  BY <1>2, Differ
<1>4. op \notin {"force", "run", "try"} \X {"FDD"}
  OBVIOUS
<1> HIDE DEF c
<1>5. Leads(c, s, names \cup {op[1]}, st, pin, fdd)
  BY <1>1, <1>2, <1>3, <1>4 DEF IsCons, Leads
<1>6. /\ op[1] # "poll" => Fresh(c)
      /\ ~Starts(c, {"run", "try"}) /\ ~Starts(c, {"done"}) /\ Tail(c) = t
  BY <1>1 DEF IsCons
<1>7. Grows(op, c, t, s, names, st, pin, fdd)
  BY <1>5, <1>6 DEF Grows
<1> QED BY <1>7 DEF c

\* A poll, and the write before it.
LEMMA LeadsPoll ==
  ASSUME NEW v \in SUBSET Bits, NEW t, Fresh(t),
         NEW s, NEW names, "pin" \in v => "done" \in names, NEW st, NEW pin, NEW fdd \in BOOLEAN,
         Leads(t, s, names, st, pin, fdd)
  PROVE  LET c == Cons(<<"write", v>>, Cons(<<"poll">>, t))
         IN  Leads(c, s, names \cup {"poll", "write"}, st, pin, fdd) /\ Fresh(c)
<1> DEFINE y == <<"poll">>
           w == <<"write", v>>
           d == Cons(y, t)
           c == Cons(w, d)
<1>0. y \in Ops /\ w \in Ops /\ y[1] = "poll" /\ w[1] = "write"
  BY OpsIn
<1>1. Follows(y, t, fdd)
  BY FollowsFresh DEF Leads
<1>2. /\ Leads(d, s, names \cup {"poll"}, st, pin, fdd)
      /\ ~Starts(d, {"run", "try"}) /\ ~Starts(d, {"done"}) /\ Tail(d) = t
  <2>1. Grows(y, d, t, s, names, st, pin, fdd)
    BY <1>0, <1>1, LeadsCons
  <2> QED BY <1>0, <2>1 DEF Grows
<1> HIDE DEF d, y
<1>3. Follows(w, d, fdd)
  <2>1. ~Starts(Tail(d), {"run", "try"})
    BY <1>2 DEF Fresh, Starts
  <2>2. "pin" \in v => Ends(d)
    BY <1>2 DEF Leads, Ends
  <2> QED BY <1>2, <2>1, <2>2 DEF Follows, Retracks, Settles, Forces, Requests, Returns
<1> HIDE DEF w
<1>4. Leads(c, s, (names \cup {"poll"}) \cup {"write"}, st, pin, fdd) /\ Fresh(c)
  <2>1. Grows(w, c, d, s, names \cup {"poll"}, st, pin, fdd)
    BY <1>0, <1>2, <1>3, LeadsCons
  <2> HIDE DEF c
  <2> QED BY <1>0, <2>1 DEF Grows
<1>5. (names \cup {"poll"}) \cup {"write"} = names \cup {"poll", "write"}
  OBVIOUS
<1> HIDE DEF c
<1>6. Leads(c, s, names \cup {"poll", "write"}, st, pin, fdd) /\ Fresh(c)
  BY <1>4, <1>5
<1> QED BY <1>6 DEF c, d, y, w

\* The last two operations of ad9361_ensm_set_state.
LEMMA GrantProgram ==
  ASSUME NEW s, NEW fdd \in BOOLEAN, After1(s, fdd), NEW st \in Wanted, NEW pin \in BOOLEAN
  PROVE  /\ Leads(Cons(<<"done", st, pin>>, s), s, {"done"}, st, pin, fdd)
         /\ st # "SLEEP" =>
              LET w == Cons(<<"write", Request(st, pin)>>, Cons(<<"done", st, pin>>, s))
              IN  Leads(w, s, {"done", "write"}, st, pin, fdd) /\ Fresh(w)
<1> DEFINE o == <<"done", st, pin>>
           v == <<"write", Request(st, pin)>>
           d == Cons(o, s)
           w == Cons(v, d)
<1>0. o \in Ops /\ v \in Ops
  <2>1. Request(st, pin) \in SUBSET Bits
    BY DEF Request, Bits
  <2> QED BY <2>1, OpsIn
<1>1. \A x, c : ~Contains(s, <<"done", x, c>>)
  BY MeetsHas DEF After1
<1>2. IsCons(d, o, s, fdd)
  BY <1>0, ConsAll DEF After1
<1>3. Follows(o, s, fdd)
  BY FollowsLast DEF After1
<1> HIDE DEF d
<1>4. \A x, c : o = <<"done", x, c>> <=> x = st /\ c = pin
  OBVIOUS
<1>5. o # <<"track", TRUE>> /\ o[1] = "done" /\ o \notin {"force", "run", "try"} \X {"FDD"}
  OBVIOUS
<1>6. Leads(d, s, {"done"}, st, pin, fdd)
  <2> HIDE DEF o
  <2> QED BY <1>1, <1>2, <1>3, <1>4, <1>5 DEF IsCons, Leads, After1
<1>7. ASSUME st # "SLEEP"
      PROVE  Leads(w, s, {"done", "write"}, st, pin, fdd) /\ Fresh(w)
  <2>1. Follows(v, d, fdd)
    BY <1>7, FollowsRequest DEF d, After1
  <2>2. v[1] = "write"
    OBVIOUS
  <2> HIDE DEF v
  <2>3. Leads(w, s, {"done"} \cup {"write"}, st, pin, fdd) /\ Fresh(w)
    <3>1. Grows(v, w, d, s, {"done"}, st, pin, fdd)
      BY <1>0, <1>6, <2>1, <2>2, LeadsCons
    <3> HIDE DEF w
    <3> QED BY <2>2, <3>1 DEF Grows
  <2>4. {"done"} \cup {"write"} = {"done", "write"}
    OBVIOUS
  <2> QED BY <2>3, <2>4
<1> QED BY <1>6, <1>7 DEF d, w, o, v

\* It falls asleep.
Sleeps(t, s, fdd) ==
  \E names : /\ Leads(t, s, names, "SLEEP", FALSE, fdd) /\ Fresh(t)
             /\ {"clocks", "done"} \subseteq names /\ names \cap {"state", "mode", "save", "synth"} = {}

\* The program of falling asleep does.
LEMMA SleepProgram ==
  ASSUME NEW s, plat.fdd \in BOOLEAN, After1(s, plat.fdd)
  PROVE  Sleeps(FallAsleep \o s, s, plat.fdd)
<1> DEFINE fdd == plat.fdd
           u == {IF plat.fdd THEN "tx" ELSE "rx"}
           x1 == <<"write", {}>>
           x2 == <<"write", u>>
           x3 == <<"poll">>
           x5 == <<"clocks", FALSE>>
           x6 == <<"done", "SLEEP", FALSE>>
           s6 == Cons(x6, s)
           s5 == Cons(x5, s6)
           s4 == Cons(x1, s5)
           s3 == Cons(x3, s4)
           s2 == Cons(x2, s3)
           s1 == Cons(x1, s2)
           n5 == {"done"} \cup {"clocks"}
           n4 == n5 \cup {"write"}
           n2 == n4 \cup {"poll", "write"}
           n1 == n2 \cup {"write"}
<1>0. /\ x1 \in Ops /\ x2 \in Ops /\ x3 \in Ops /\ x5 \in Ops /\ x6 \in Ops
      /\ x1[1] = "write" /\ x5[1] = "clocks" /\ u \in SUBSET Bits /\ "pin" \notin u
  BY OpsIn DEF Bits, Wanted
<1>1. Leads(s6, s, {"done"}, "SLEEP", FALSE, fdd)
  BY GrantProgram DEF Wanted
<1>2. Follows(x5, s6, fdd)
  BY FollowsRequest DEF Wanted, After1
<1> HIDE DEF x1, x2, x3, x5, x6, u
<1>3. Leads(s5, s, n5, "SLEEP", FALSE, fdd) /\ Fresh(s5)
  <2> HIDE DEF s6
  <2>1. Grows(x5, s5, s6, s, {"done"}, "SLEEP", FALSE, fdd)
    BY <1>0, <1>1, <1>2, LeadsCons
  <2> HIDE DEF s5
  <2> QED BY <1>0, <2>1 DEF Grows
<1> HIDE DEF s5, n5
<1>4. Leads(s4, s, n4, "SLEEP", FALSE, fdd) /\ Fresh(s4)
  <2>1. Follows(x1, s5, fdd)
    BY <1>3, FollowsFresh DEF Leads, x1
  <2>2. Grows(x1, s4, s5, s, n5, "SLEEP", FALSE, fdd)
    BY <1>0, <1>3, <2>1, LeadsCons
  <2> HIDE DEF s4
  <2> QED BY <1>0, <2>2 DEF Grows
<1> HIDE DEF s4, n4
<1>5. Leads(s2, s, n2, "SLEEP", FALSE, fdd) /\ Fresh(s2)
  BY <1>0, <1>4, LeadsPoll DEF x2, x3
<1> HIDE DEF s2, n2
<1>6. Leads(s1, s, n1, "SLEEP", FALSE, fdd) /\ Fresh(s1)
  <2>1. Follows(x1, s2, fdd)
    BY <1>5, FollowsFresh DEF Leads, x1
  <2>2. Grows(x1, s1, s2, s, n2, "SLEEP", FALSE, fdd)
    BY <1>0, <1>5, <2>1, LeadsCons
  <2> HIDE DEF s1
  <2> QED BY <1>0, <2>2 DEF Grows
<1> HIDE DEF s1
<1>7. FallAsleep \o s = s1
  <2>1. FallAsleep = <<x1, x2, x3, x1, x5, x6>>
    BY DEF FallAsleep, x1, x2, x3, x5, x6, u
  <2>2. s \in Seq(Ops)
    BY DEF After1
  <2>3. <<x1, x2, x3, x1, x5, x6>> \o s =
          Cons(x1, Cons(x2, Cons(x3, Cons(x1, Cons(x5, Cons(x6, s))))))
    <3>1. Six(x1, x2, x3, x1, x5, x6, s)
      BY <1>0, <2>2, Written6
    <3> QED BY <3>1 DEF Six
  <2> QED BY <2>1, <2>3 DEF s1, s2, s4, s5
<1>8. {"clocks", "done"} \subseteq n1 /\ n1 \cap {"state", "mode", "save", "synth"} = {}
  BY DEF n2, n4, n5
<1> QED BY <1>6, <1>7, <1>8 DEF Sleeps

\* The parts of ad9361_ensm_set_state for a state and a request for pin control.
Through(st, pin) == << <<"write", (Request(st, pin) \ {"tx", "rx"}) \cup Alert>>, <<"poll">> >>
Invalid(st)      == ~Fits(st) \/ (st \in {"TX", "RX"} /\ curr # "ALERT")
Synth1(st, pin)  == ~plat.fdd /\ ~pin /\ ~plat.dualSynth /\ st \in {"TX", "RX"}
Granting(st, pin) ==
  (IF Invalid(st) THEN Through(st, pin) ELSE <<>>)
  \o (IF Synth1(st, pin) THEN << <<"synth", st = "TX">> >> ELSE <<>>)
  \o << <<"write", Request(st, pin)>>, <<"done", st, pin>> >>
Setting(st, pin) ==
  WakeUp \o (IF st = "SLEEP" THEN FallAsleep
             ELSE IF Invalid(st) /\ curr = "ALERT" THEN <<>> ELSE Granting(st, pin))

\* What the rest of the call is like once the request is expanded.
Asked(t, s, st, pin, fdd) ==
  \E names : /\ Leads(t, s, names, st, pin, fdd) /\ Fresh(t)
             /\ "done" \in names /\ names \cap {"state", "mode", "save"} = {}
             /\ "clocks" \in names <=> (st = "SLEEP" \/ curr = "SLEEP")
             /\ "synth" \in names <=> Synth1(st, pin)

\* The request that is granted.
LEMMA GrantingProgram ==
  ASSUME plat.fdd \in BOOLEAN, NEW s, After1(s, plat.fdd), NEW st \in Wanted \ {"SLEEP"},
         NEW pin \in BOOLEAN
  PROVE  /\ Granting(st, pin) \in Seq(Ops)
         /\ \E names : /\ Leads(Granting(st, pin) \o s, s, names, st, pin, plat.fdd)
                       /\ Fresh(Granting(st, pin) \o s)
                       /\ "done" \in names /\ names \cap {"state", "mode", "save", "clocks"} = {}
                       /\ "synth" \in names <=> Synth1(st, pin)
<1> DEFINE fdd == plat.fdd
           v == (Request(st, pin) \ {"tx", "rx"}) \cup Alert
           o1 == <<"write", v>>
           o2 == <<"poll">>
           o3 == <<"synth", st = "TX">>
           o4 == <<"write", Request(st, pin)>>
           o5 == <<"done", st, pin>>
           A == IF Invalid(st) THEN <<o1, o2>> ELSE <<>>
           B == IF Synth1(st, pin) THEN <<o3>> ELSE <<>>
           C == <<o4, o5>>
           s3 == Cons(o4, Cons(o5, s))
           s2 == IF Synth1(st, pin) THEN Cons(o3, s3) ELSE s3
           s1 == IF Invalid(st) THEN Cons(o1, Cons(o2, s2)) ELSE s2
           n3 == {"done", "write"}
           n2 == n3 \cup {"synth"}
<1>1. Request(st, pin) \in SUBSET Bits /\ v \in SUBSET Bits
  BY DEF Request, Bits, Alert
<1>2. o1 \in Ops /\ o2 \in Ops /\ o3 \in Ops /\ o4 \in Ops /\ o5 \in Ops
  BY <1>1, OpsIn
<1>3. Granting(st, pin) = Cat(Cat(A, B), C)
  BY DEF Granting, Through, Cat
<1>4. Leads(s3, s, n3, st, pin, fdd) /\ Fresh(s3)
  BY GrantProgram
<1>5. \E n : /\ Leads(s2, s, n, st, pin, fdd) /\ Fresh(s2)
             /\ "done" \in n /\ n \cap {"state", "mode", "save", "clocks"} = {}
             /\ "synth" \in n <=> Synth1(st, pin)
  <2>1. CASE Synth1(st, pin)
    <3>1. /\ Has(s3, "done") /\ ~Has(s3, "synth")
          /\ \A x \in Wanted, c \in BOOLEAN : Contains(s3, <<"done", x, c>>) => x = st
      BY <1>4 DEF Leads, After1
    <3>2. st \in {"TX", "RX"} /\ (st = "TX") \in BOOLEAN
      BY <2>1 DEF Synth1
    <3>3. Follows(o3, s3, fdd)
      <4>1. s3 \in Seq(Ops) /\ Fresh(s3)
        BY <1>4 DEF Leads
      <4> HIDE DEF s3
      <4> QED BY <3>1, <3>2, <4>1, FollowsLast
    <3>4. o3[1] = "synth"
      OBVIOUS
    <3> HIDE DEF o3, s3, n3
    <3>5. Grows(o3, Cons(o3, s3), s3, s, n3, st, pin, fdd)
      BY <1>2, <1>4, <3>3, <3>4, LeadsCons
    <3>6. Leads(s2, s, n2, st, pin, fdd) /\ Fresh(s2)
      BY <2>1, <3>4, <3>5 DEF Grows
    <3>7. "done" \in n2 /\ n2 \cap {"state", "mode", "save", "clocks"} = {} /\ "synth" \in n2
      BY DEF n3
    <3> QED BY <2>1, <3>6, <3>7
  <2>2. CASE ~Synth1(st, pin)
    <3>1. "done" \in n3 /\ n3 \cap {"state", "mode", "save", "clocks"} = {} /\ "synth" \notin n3
      OBVIOUS
    <3> HIDE DEF s3, n3
    <3> QED BY <1>4, <2>2, <3>1
  <2> QED BY <2>1, <2>2
<1> HIDE DEF s2
<1>6. \E n : /\ Leads(s1, s, n, st, pin, fdd) /\ Fresh(s1)
             /\ "done" \in n /\ n \cap {"state", "mode", "save", "clocks"} = {}
             /\ "synth" \in n <=> Synth1(st, pin)
  <2>1. CASE Invalid(st)
    <3>1. PICK n : /\ Leads(s2, s, n, st, pin, fdd) /\ Fresh(s2)
                   /\ "done" \in n /\ n \cap {"state", "mode", "save", "clocks"} = {}
                   /\ "synth" \in n <=> Synth1(st, pin)
      BY <1>5
    <3> HIDE DEF v
    <3>2. Leads(s1, s, n \cup {"poll", "write"}, st, pin, fdd) /\ Fresh(s1)
      BY <1>1, <2>1, <3>1, LeadsPoll
    <3>3. /\ "done" \in n \cup {"poll", "write"}
          /\ (n \cup {"poll", "write"}) \cap {"state", "mode", "save", "clocks"} = {}
          /\ "synth" \in n \cup {"poll", "write"} <=> Synth1(st, pin)
      BY <3>1
    <3> HIDE DEF s1
    <3> QED BY <3>2, <3>3
  <2>2. CASE ~Invalid(st)
    BY <1>5, <2>2
  <2> QED BY <2>1, <2>2
<1>7. s \in Seq(Ops) /\ s3 \in Seq(Ops) /\ s2 \in Seq(Ops)
  BY <1>4, <1>5 DEF After1, Leads
<1> HIDE DEF o1, o2, o3, o4, o5
<1>8. A \in Seq(Ops) /\ B \in Seq(Ops) /\ C \in Seq(Ops)
  BY <1>2
<1>9. C \o s = s3
  <2>1. Two(o4, o5, s)
    BY <1>2, <1>7, Written2
  <2> QED BY <2>1 DEF Two
<1>10. Cat(B, s3) = s2
  <2>1. CASE Synth1(st, pin)
    BY <2>1 DEF s2, Cat, Cons
  <2>2. CASE ~Synth1(st, pin)
    <3>1. Cat(B, s3) = Cat(<<>>, s3)
      BY <2>2
    <3> HIDE DEF s3
    <3> QED BY <1>7, <2>2, <3>1, Assoc DEF s2
  <2> QED BY <2>1, <2>2
<1>11. Cat(A, s2) = s1
  <2>1. CASE Invalid(st)
    <3>1. Two(o1, o2, s2)
      BY <1>2, <1>7, Written2
    <3> QED BY <2>1, <3>1 DEF Cat, Two
  <2>2. CASE ~Invalid(st)
    <3>1. Cat(A, s2) = Cat(<<>>, s2)
      BY <2>2
    <3> QED BY <1>7, <2>2, <3>1, Assoc
  <2> QED BY <2>1, <2>2
<1> HIDE DEF A, B, C, s1, s2, s3
<1>12. Cat(A, B) \in Seq(Ops) /\ Cat(Cat(A, B), C) \in Seq(Ops)
  BY <1>8, Assoc
<1>13. Cat(Cat(Cat(A, B), C), s) = Cat(Cat(A, B), Cat(C, s))
  BY <1>7, <1>8, <1>12, Assoc
<1>14. Cat(Cat(A, B), s3) = Cat(A, Cat(B, s3))
  BY <1>7, <1>8, Assoc
<1>15. Granting(st, pin) \o s = s1
  BY <1>3, <1>9, <1>10, <1>11, <1>13, <1>14 DEF Cat
<1> QED BY <1>3, <1>6, <1>12, <1>15

\* The request, with leaving sleep before it.
LEMMA SettingProgram ==
  ASSUME plat.fdd \in BOOLEAN, NEW s, After1(s, plat.fdd), NEW st \in Wanted, NEW pin \in BOOLEAN
  PROVE  IF st # "SLEEP" /\ Invalid(st) /\ curr = "ALERT"
           THEN Setting(st, pin) \o s = s
           ELSE Asked(Setting(st, pin) \o s, s, st, st # "SLEEP" /\ pin, plat.fdd)
<1> DEFINE fdd == plat.fdd
           X == IF st = "SLEEP" THEN FallAsleep
                ELSE IF Invalid(st) /\ curr = "ALERT" THEN <<>> ELSE Granting(st, pin)
           b == st # "SLEEP" /\ pin
           refuse == st # "SLEEP" /\ Invalid(st) /\ curr = "ALERT"
           t == X \o s
<1>0. s \in Seq(Ops)
  BY DEF After1
<1>1. X \in Seq(Ops)
  <2>1. FallAsleep \in Seq(Ops)
    <3>1. /\ <<"write", {}>> \in Ops /\ <<"write", {IF plat.fdd THEN "tx" ELSE "rx"}>> \in Ops
          /\ <<"poll">> \in Ops /\ <<"clocks", FALSE>> \in Ops /\ <<"done", "SLEEP", FALSE>> \in Ops
      BY OpsIn DEF Bits, Wanted
    <3> QED BY <3>1 DEF FallAsleep
  <2>2. st # "SLEEP" => Granting(st, pin) \in Seq(Ops)
    BY GrantingProgram
  <2> QED BY <2>1, <2>2, Empty
<1>2. refuse => t = s
  <2>1. refuse => X = <<>>
    OBVIOUS
  <2> QED BY <1>0, <2>1, Concat
<1>3. ~refuse => \E n : /\ Leads(t, s, n, st, b, fdd) /\ Fresh(t)
                        /\ "done" \in n /\ n \cap {"state", "mode", "save"} = {}
                        /\ "clocks" \in n <=> st = "SLEEP"
                        /\ "synth" \in n <=> Synth1(st, b)
  <2>1. CASE st = "SLEEP"
    <3>1. X = FallAsleep /\ b = FALSE
      BY <2>1
    <3>2. Sleeps(FallAsleep \o s, s, fdd)
      BY SleepProgram
    <3>3. ~Synth1(st, b)
      BY <2>1 DEF Synth1
    <3> HIDE DEF X, b
    <3> QED BY <2>1, <3>1, <3>2, <3>3 DEF Sleeps
  <2>2. CASE st # "SLEEP" /\ ~refuse
    <3>1. X = Granting(st, pin) /\ b = pin
      BY <2>2
    <3>2. \E n : /\ Leads(Granting(st, pin) \o s, s, n, st, pin, fdd)
                 /\ Fresh(Granting(st, pin) \o s)
                 /\ "done" \in n /\ n \cap {"state", "mode", "save", "clocks"} = {}
                 /\ "synth" \in n <=> Synth1(st, pin)
      BY <2>2, GrantingProgram
    <3>3. PICK n : /\ Leads(Granting(st, pin) \o s, s, n, st, pin, fdd)
                   /\ Fresh(Granting(st, pin) \o s)
                   /\ "done" \in n /\ n \cap {"state", "mode", "save", "clocks"} = {}
                   /\ "synth" \in n <=> Synth1(st, pin)
      BY <3>2
    <3>4. n \cap {"state", "mode", "save"} = {} /\ "clocks" \notin n
      BY <3>3
    <3> HIDE DEF X, b
    <3> QED BY <2>2, <3>1, <3>3, <3>4
  <2> QED BY <2>1, <2>2
<1>4. Setting(st, pin) = Cat(WakeUp, X)
  BY DEF Setting, Cat
<1> HIDE DEF X
<1>5. CASE curr # "SLEEP"
  <2>1. WakeUp = <<>>
    BY <1>5 DEF WakeUp
  <2>2. Setting(st, pin) \o s = t
    BY <1>1, <1>4, <2>1, Assoc
  <2> HIDE DEF t, b
  <2>3. ~refuse => Asked(t, s, st, b, fdd)
    BY <1>3, <1>5 DEF Asked
  <2> QED BY <1>2, <2>2, <2>3 DEF b
<1>6. CASE curr = "SLEEP"
  <2> DEFINE o1 == <<"clocks", TRUE>>
             o2 == <<"write", Alert>>
             t2 == Cons(o2, t)
             t1 == Cons(o1, t2)
  <2>0. o1 \in Ops /\ o2 \in Ops /\ o1[1] = "clocks" /\ o2[1] = "write" /\ Alert \in SUBSET Bits
    BY OpsIn DEF Alert, Bits
  <2>1. ~refuse
    BY <1>6
  <2>2. PICK n : /\ Leads(t, s, n, st, b, fdd) /\ Fresh(t)
                 /\ "done" \in n /\ n \cap {"state", "mode", "save"} = {}
                 /\ "clocks" \in n <=> st = "SLEEP"
                 /\ "synth" \in n <=> Synth1(st, b)
    BY <1>3, <2>1
  <2> HIDE DEF t, b
  <2>3. t \in Seq(Ops) /\ Follows(o2, t, fdd)
    BY <2>0, <2>2, FollowsFresh DEF Leads, Alert
  <2> HIDE DEF o1, o2
  <2>4. Grows(o2, t2, t, s, n, st, b, fdd)
    BY <2>0, <2>2, <2>3, LeadsCons
  <2> DEFINE n2 == n \cup {"write"}
  <2> HIDE DEF t2
  <2>5. Leads(t2, s, n2, st, b, fdd) /\ Fresh(t2)
    BY <2>0, <2>4 DEF Grows
  <2>6. /\ "done" \in n2 /\ n2 \cap {"state", "mode", "save"} = {} /\ ("clocks" \in n2 <=> st = "SLEEP")
        /\ ("synth" \in n2 <=> Synth1(st, b))
    BY <2>2
  <2> HIDE DEF n2
  <2>7. Follows(o1, t2, fdd)
    <3>1. t2 \in Seq(Ops) /\ Has(t2, "done") /\ (st = "SLEEP" => Has(t2, "clocks"))
      BY <2>5, <2>6 DEF Leads
    <3>2. \A x \in Wanted, c \in BOOLEAN : Contains(t2, <<"done", x, c>>) => x = st
      BY <2>5 DEF Leads
    <3> QED BY <2>5, <3>1, <3>2, FollowsLast DEF o1
  <2>8. Grows(o1, t1, t2, s, n2, st, b, fdd)
    BY <2>0, <2>5, <2>7, LeadsCons
  <2> DEFINE n1 == n2 \cup {"clocks"}
  <2>9. t2 \in Seq(Ops)
    BY <2>5 DEF Leads
  <2> HIDE DEF t1
  <2>10. Leads(t1, s, n1, st, b, fdd) /\ Fresh(t1)
    BY <2>0, <2>8 DEF Grows
  <2>11. /\ "done" \in n1 /\ n1 \cap {"state", "mode", "save"} = {} /\ "clocks" \in n1
         /\ ("synth" \in n1 <=> Synth1(st, b))
    BY <2>6
  <2> HIDE DEF n1
  <2>12. Asked(t1, s, st, b, fdd)
    BY <1>6, <2>10, <2>11 DEF Asked
  <2>13. Setting(st, pin) \o s = t1
    <3>1. WakeUp = <<o1, o2>>
      BY <1>6 DEF WakeUp, o1, o2
    <3>2. WakeUp \in Seq(Ops)
      BY <2>0, <3>1
    <3>3. Cat(Cat(WakeUp, X), s) = Cat(WakeUp, Cat(X, s))
      BY <1>0, <1>1, <3>2, Assoc
    <3>4. Two(o1, o2, t)
      BY <2>0, <2>3, Written2
    <3>5. Cat(X, s) = t
      BY DEF Cat, t
    <3>6. Cat(WakeUp, t) = Cons(o1, Cons(o2, t))
      BY <3>1, <3>4 DEF Cat, Two
    <3> QED BY <1>4, <3>3, <3>5, <3>6 DEF t1, t2, Cat
  <2> QED BY <2>1, <2>12, <2>13 DEF b
<1> QED BY <1>5, <1>6

-----------------------------------------------------------------------------
(***************************************************************************)
(* The steps keep the invariant.                                           *)
(***************************************************************************)

\* Reading the state keeps the ghost of it a truth value.
LEMMA SeesType ==
  ASSUME outrun \in BOOLEAN, Sees
  PROVE  outrun' \in BOOLEAN
<1>1. CASE state = "FLUSH"
  BY <1>1 DEF Sees
<1>2. CASE state # "FLUSH"
  BY <1>2 DEF Sees
<1> QED BY <1>1, <1>2

\* The registers and the fields have their types.
LEMMA TypeStep ==
  ASSUME TypeOK, ProgramInv, Next
  PROVE  TypeOK'
<1>0. todo # <<>> => Head(todo) \in Ops
  BY Running
<1>1. CASE FlushEnd
  BY <1>1 DEF FlushEnd, TypeOK, Goal, States, Active, phy, ghosts
<1>2. CASE PinMove
  BY <1>2 DEF PinMove, TypeOK, States, Active, phy, ghosts
<1>3. CASE UserCalls
  <2>1. PICK program : Call(program)
    BY <1>3 DEF UserCalls
  <2> QED BY <2>1 DEF Call, TypeOK, chip, phy, Active
<1>4. CASE Write
  <2>1. Arg \subseteq Bits
    BY <1>0, <1>4, OpShape DEF Write, At, Arg
  <2>2. After(Arg) \in States
    BY DEF After, Goal, States, Active, TypeOK
  <2> QED BY <1>4, <2>1, <2>2 DEF Write, TypeOK, phy, ghosts
<1>5. CASE Poll
  BY <1>5 DEF Poll, TypeOK, chip, phy, ghosts
<1>6. CASE ForceState
  <2>0. outrun' \in BOOLEAN
    BY <1>6, SeesType DEF ForceState, TypeOK
  <2>1. CASE state = Arg
    BY <1>6, <2>0, <2>1 DEF ForceState, TypeOK, chip
  <2>2. CASE state # Arg
    <3>1. pinCtl' = ("pin" \in config1)
      BY <1>6, <2>2 DEF ForceState
    <3>2. pinCtl' \in BOOLEAN
      <4>1. CASE "pin" \in config1
        BY <3>1, <4>1
      <4>2. CASE "pin" \notin config1
        BY <3>1, <4>2
      <4> QED BY <4>1, <4>2
    <3> QED BY <1>6, <2>0, <3>2 DEF ForceState, TypeOK, chip
  <2> QED BY <2>1, <2>2
<1>7. CASE RestoreState
  <2>1. tuned' \in BOOLEAN
    BY <1>7 DEF RestoreState, TypeOK, At
  <2> QED BY <1>7, <2>1 DEF RestoreState, TypeOK, chip, phy
<1>8. CASE SetEnsmMode
  <2>1. Arg \in BOOLEAN
    BY <1>0, <1>8, OpShape DEF SetEnsmMode, At, Arg
  <2> QED BY <1>8, <2>1 DEF SetEnsmMode, TypeOK, phy, ghosts, Bits, States, Active
<1>9. CASE SetState
  <2>1. asked' \in Active \cup {"ALERT", "NONE"}
    BY <1>9 DEF SetState, TypeOK
  <2> QED BY <1>9, <2>1 DEF SetState, TypeOK, chip, phy
<1>10. CASE StateSet
  <2>1. Arg \in Wanted
    BY <1>0, <1>10, OpShape DEF StateSet, At, Arg
  <2> QED BY <1>10, <2>1 DEF StateSet, TypeOK, chip, Wanted, States, Active
<1>11. CASE Registers
  <2>1. Arg \in BOOLEAN
    BY <1>0, <1>11, OpShape DEF Registers, At, Arg
  <2> QED BY <1>11, <2>1 DEF Registers, TypeOK, phy, States, Active
<1>12. CASE Run
  BY <1>12 DEF Run, TypeOK, chip, phy, ghosts
<1>13. CASE Fail
  BY <1>13 DEF Fail, TypeOK, chip, phy
<1>14. CASE Save
  <2>1. outrun' \in BOOLEAN
    BY <1>14, SeesType DEF Save, TypeOK
  <2> QED BY <1>14, <2>1 DEF Save, TypeOK, chip
<1> QED BY <1>1, <1>2, <1>3, <1>4, <1>5, <1>6, <1>7, <1>8, <1>9, <1>10, <1>11, <1>12, <1>13,
           <1>14 DEF Next, Driver

\* The parts of the invariant about the rest of the call.
Rest == ProgramInv /\ TrackInv /\ ClocksInv /\ DuplexInv

\* Each is kept when what is expanded, or dropped, is none of what it looks for.
LEMMA Quiet ==
  ASSUME Rest, todo # <<>>, Same(todo', Tail(todo), plat.fdd), plat' = plat
  PROVE  /\ ProgramInv'
         /\ Head(todo)[1] # "track" /\ tracking' = tracking /\ failed' = failed => TrackInv'
         /\ Head(todo)[1] \notin {"clocks", "done"} /\ clocks' = clocks /\ curr' = curr => ClocksInv'
         /\ Head(todo)[1] # "mode" /\ fddMode' = fddMode => DuplexInv'
<1>1. /\ IsCons(todo, Head(todo), Tail(todo), plat.fdd) /\ Head(todo) \in Ops
  BY Running DEF Rest
<1>2. ProgramInv'
  BY DEF ProgramInv, Same
<1>3. ASSUME Head(todo)[1] # "track", tracking' = tracking, failed' = failed
      PROVE  TrackInv'
  <2>1. Head(todo) # <<"track", TRUE>>
    BY <1>1, <1>3, Differ
  <2> QED BY <1>1, <1>3, <2>1 DEF TrackInv, IsCons, Same, Rest
<1>4. ASSUME Head(todo)[1] \notin {"clocks", "done"}, clocks' = clocks, curr' = curr
      PROVE  ClocksInv'
  <2>0. \A st, pin : Head(todo) # <<"done", st, pin>>
    BY <1>1, <1>4, Differ
  <2>1. \A name \in {"done", "clocks"} : Has(todo, name) <=> Has(todo', name)
    BY <1>1, <1>4 DEF IsCons, Same
  <2>2. \A st, pin : Contains(todo, <<"done", st, pin>>) <=> Contains(todo', <<"done", st, pin>>)
    BY <1>1, <2>0 DEF IsCons, Same
  <2> QED BY <1>4, <2>1, <2>2 DEF ClocksInv, Rest
<1>5. ASSUME Head(todo)[1] # "mode", fddMode' = fddMode
      PROVE  DuplexInv'
  <2>1. Has(todo, "mode") <=> Has(todo', "mode")
    BY <1>1, <1>5 DEF IsCons, Same
  <2>2. Meets(todo', {"state", "done"}) => Meets(todo, {"state", "done"})
    BY <1>1, <1>5 DEF IsCons, Same
  <2>3. MeetsFdd(todo') => MeetsFdd(todo)
    BY <1>1, <1>5 DEF IsCons, Same
  <2> QED BY <1>5, <2>1, <2>2, <2>3 DEF DuplexInv, Rest
<1> QED BY <1>2, <1>3, <1>4, <1>5

\* A step that drops the next operation.
LEMMA Dropped ==
  ASSUME Rest, todo # <<>>, Then(<<>>)
  PROVE  /\ todo' = Tail(todo) /\ todo' \in Seq(Ops) /\ Sound(todo', plat.fdd)
         /\ Same(todo', Tail(todo), plat.fdd)
<1>1. Tail(todo) \in Seq(Ops) /\ Sound(Tail(todo), plat.fdd)
  BY Running DEF Rest
<1>2. todo' = Tail(todo)
  BY <1>1, Concat DEF Then
<1> QED BY <1>1, <1>2 DEF Same

\* What comes next is not in a state that the step leaves.
LEMMA NotForced ==
  ASSUME Rest, todo # <<>>
  PROVE  /\ Fresh(todo') => ForcedInv'
         /\ todo' = Tail(todo) /\ Head(todo)[1] \notin {"write", "force", "poll"} => ForcedInv'
<1>1. Follows(Head(todo), Tail(todo), plat.fdd)
  BY Running DEF Rest
<1>2. ASSUME Fresh(todo') PROVE ForcedInv'
  BY <1>2 DEF ForcedInv, RunsWhereForced, At, Fresh, Starts
<1>3. ASSUME todo' = Tail(todo), Head(todo)[1] \notin {"write", "force", "poll"}
      PROVE  ForcedInv'
  <2>1. ~Starts(todo', {"run", "try"}) /\ ~(Starts(todo', {"poll"}) /\ Starts(Tail(todo'), {"run", "try"}))
    BY <1>1, <1>3 DEF Follows, Forces
  <2> QED BY <2>1 DEF ForcedInv, RunsWhereForced, At, Starts
<1> QED BY <1>2, <1>3

\* The next operation is what a state was forced for.
LEMMA RunsNext ==
  ASSUME NEW s \in Seq(Ops), Starts(s, {"run", "try"})
  PROVE  Head(s)[2] \in Forced /\ (Head(s)[2] = "FDD" => MeetsFdd(s))
<1>1. s # <<>> /\ Head(s)[1] \in {"run", "try"}
  BY DEF Starts
<1>2. Head(s) \in Ops /\ Tail(s) \in Seq(Ops) /\ s = Cons(Head(s), Tail(s))
  BY <1>1, Uncons
<1>3. Head(s)[2] \in Forced /\ Head(s) = <<Head(s)[1], Head(s)[2]>>
  BY <1>1, <1>2, OpShape
<1>4. IsCons(Cons(Head(s), Tail(s)), Head(s), Tail(s), TRUE)
  BY <1>2, ConsAll
<1>5. Head(s)[2] = "FDD" => Head(s) \in {"force", "run", "try"} \X {"FDD"}
  BY <1>1, <1>3
<1>6. Head(s)[2] = "FDD" => MeetsFdd(s)
  BY <1>2, <1>4, <1>5 DEF IsCons
<1> QED BY <1>3, <1>6

\* What comes next is not in a state that was forced.
LEMMA FreshForced ==
  ASSUME Fresh(todo')
  PROVE  ForcedInv'
BY DEF ForcedInv, RunsWhereForced, At, Fresh, Starts

\* The flush and the pins.
LEMMA ChipStep ==
  ASSUME Rest, ForcedInv, FlushEnd \/ PinMove
  PROVE  Rest' /\ ForcedInv'
<1>1. UNCHANGED <<plat, config1, fddMode, clocks, tracking, curr, failed, todo>>
  BY DEF FlushEnd, PinMove, phy, ghosts
<1>2. Rest'
  BY <1>1 DEF Rest, ProgramInv, TrackInv, ClocksInv, DuplexInv
<1>3. CASE FlushEnd
  <2>1. Starts(todo, {"run", "try"}) => Head(todo)[2] \in Forced
    BY RunsNext DEF Rest, ProgramInv
  <2>2. ~((At("run") \/ At("try")) /\ "pin" \notin config1 /\ clocks)
    BY <1>3, <2>1 DEF FlushEnd, ForcedInv, RunsWhereForced, At, Arg, Starts, Forced
  <2>3. RunsWhereForced'
    BY <1>1, <2>2 DEF RunsWhereForced, At
  <2>4. ASSUME At("poll")', Starts(Tail(todo'), {"run", "try"})
        PROVE  /\ "pin" \notin config1' /\ Goal(config1)' = Head(Tail(todo'))[2]
               /\ clocks' => state' \in {"FLUSH", Goal(config1)'}
    <3>1. At("poll") /\ Starts(Tail(todo), {"run", "try"})
      BY <1>1, <2>4 DEF At
    <3>2. "pin" \notin config1 /\ Goal(config1) = Head(Tail(todo))[2]
      BY <3>1 DEF ForcedInv
    <3>3. Goal(config1)' = Goal(config1)
      BY <1>1 DEF Goal
    <3> QED BY <1>1, <1>3, <3>2, <3>3 DEF FlushEnd
  <2>5. ForcedInv'
    BY <2>3, <2>4 DEF ForcedInv
  <2> QED BY <1>2, <2>5
<1>4. CASE PinMove
  <2>1. ForcedInv'
    BY <1>1, <1>4 DEF PinMove, ForcedInv, RunsWhereForced, At
  <2> QED BY <1>2, <2>1
<1> QED BY <1>3, <1>4

\* The user's next call.
LEMMA CallStep ==
  ASSUME TypeOK, Rest, UserCalls
  PROVE  Rest' /\ ForcedInv'
<1>0. plat.fdd \in BOOLEAN /\ plat.pinCtrl \in BOOLEAN
  BY DEF TypeOK
<1>1. PICK program : Call(program) /\ Program(program, plat.fdd)
  BY <1>0, UserPrograms DEF UserCalls, Wanted, ClkMuxSetParent, RssiGainStepCalib, TimingAnalysis
<1>2. /\ todo = <<>> /\ todo' = program
      /\ UNCHANGED <<plat, fddMode, clocks, tracking, curr, failed>>
  BY <1>1 DEF Call, chip, phy
<1>3. (~failed => tracking) /\ (clocks <=> curr # "SLEEP") /\ fddMode = plat.fdd
  BY <1>2, Empty DEF Rest, TrackInv, ClocksInv, DuplexInv
<1>4. \A st, pin : ~Contains(todo', <<"done", st, pin>>)
  BY <1>1, <1>2, MeetsHas DEF Program
<1>5. Rest'
  BY <1>1, <1>2, <1>3, <1>4 DEF Rest, ProgramInv, TrackInv, ClocksInv, DuplexInv, Program
<1>6. ForcedInv'
  BY <1>1, <1>2, FreshForced DEF Program
<1> QED BY <1>5, <1>6

\* A write of CONFIG_1.
LEMMA WriteStep ==
  ASSUME TypeOK, Rest, ForcedInv, Write
  PROVE  Rest' /\ ForcedInv' /\ Same(todo', Tail(todo), plat.fdd)
<1>1. /\ todo # <<>> /\ Head(todo)[1] = "write" /\ Then(<<>>)
      /\ UNCHANGED <<plat, fddMode, clocks, tracking, curr, failed>>
  BY DEF Write, At, phy, ghosts
<1>2. todo' = Tail(todo) /\ Same(todo', Tail(todo), plat.fdd)
  BY <1>1, Dropped
<1>3. Rest'
  BY <1>1, <1>2, Quiet DEF Rest
<1>4. /\ Follows(Head(todo), Tail(todo), plat.fdd) /\ Tail(todo) \in Seq(Ops)
      /\ IsCons(todo, Head(todo), Tail(todo), plat.fdd)
  BY <1>1, Running DEF Rest
<1>5. ~Starts(todo', {"run", "try"})
  <2>1. Head(todo) # <<"poll">> /\ Head(todo) # <<"force", Head(todo')[2]>>
    BY <1>1
  <2> QED BY <1>2, <1>4, <2>1 DEF Follows, Forces
<1>6. ASSUME At("poll")', Starts(Tail(todo'), {"run", "try"})
      PROVE  /\ "pin" \notin config1' /\ Goal(config1)' = Head(Tail(todo'))[2]
             /\ clocks' => state' \in {"FLUSH", Goal(config1)'}
  <2> DEFINE to == Head(Tail(todo'))[2]
  <2>1. Starts(todo', {"poll"})
    BY <1>6 DEF At, Starts
  <2>2. /\ "pin" \notin Arg
        /\ to = "FDD" => Arg \cap {"tx", "rx"} # {}
        /\ to = "ALERT" => Arg \cap {"tx", "rx"} = {} /\ Arg \cap Alert # {}
    BY <1>1, <1>2, <1>4, <1>6, <2>1 DEF Follows, Forces, Arg
  <2>3. /\ Tail(todo') \in Seq(Ops) /\ Head(todo')[1] = "poll"
        /\ IsCons(todo', Head(todo'), Tail(todo'), plat.fdd)
    <3>1. todo' # <<>> /\ Head(todo')[1] = "poll" /\ todo' \in Seq(Ops)
      BY <1>2, <1>4, <1>6 DEF At
    <3>2. Head(todo') \in Ops /\ Tail(todo') \in Seq(Ops) /\ todo' = Cons(Head(todo'), Tail(todo'))
      BY <3>1, Uncons
    <3>3. IsCons(Cons(Head(todo'), Tail(todo')), Head(todo'), Tail(todo'), plat.fdd)
      BY <3>2, ConsAll
    <3> QED BY <3>1, <3>2, <3>3
  <2>4. to \in Forced /\ (to = "FDD" => MeetsFdd(Tail(todo')))
    BY <1>6, <2>3, RunsNext
  <2>5. to = "FDD" => fddMode
    <3>1. to = "FDD" => MeetsFdd(todo)
      BY <1>1, <1>2, <1>4, <2>3, <2>4 DEF IsCons
    <3> QED BY <3>1 DEF Rest, DuplexInv
  <2>6. config1' = Arg /\ fddMode' = fddMode /\ clocks' = clocks /\ state' = After(Arg)
    BY DEF Write
  <2>7. Goal(config1)' = to
    BY <2>2, <2>4, <2>5, <2>6 DEF Goal, Forced
  <2>8. Goal(config1)' = Goal(Arg)
    BY <2>6 DEF Goal
  <2>9. clocks' => state' \in {"FLUSH", Goal(Arg)}
    BY <2>2, <2>6 DEF After
  <2> QED BY <2>2, <2>6, <2>7, <2>8, <2>9
<1>7. ForcedInv'
  BY <1>5, <1>6 DEF ForcedInv, RunsWhereForced, At, Starts
<1> QED BY <1>2, <1>3, <1>7

\* A poll of the state.
LEMMA PollStep ==
  ASSUME Rest, ForcedInv, Poll
  PROVE  Rest' /\ ForcedInv' /\ Same(todo', Tail(todo), plat.fdd)
<1>1. /\ todo # <<>> /\ Head(todo)[1] = "poll" /\ Then(<<>>) /\ state # "FLUSH"
      /\ UNCHANGED <<plat, fddMode, clocks, tracking, curr, failed, config1, state>>
  BY DEF Poll, At, phy, ghosts, chip
<1>2. todo' = Tail(todo) /\ Same(todo', Tail(todo), plat.fdd)
  BY <1>1, Dropped
<1>3. Rest'
  BY <1>1, <1>2, Quiet DEF Rest
<1>4. Follows(Head(todo), Tail(todo), plat.fdd)
  BY <1>1, Running DEF Rest
<1>5. ~(Starts(todo', {"poll"}) /\ Starts(Tail(todo'), {"run", "try"}))
  BY <1>1, <1>2, <1>4 DEF Follows, Forces
<1>6. Starts(todo', {"run", "try"}) /\ clocks => state = Head(todo')[2]
  BY <1>1, <1>2 DEF ForcedInv, At
<1>7. ForcedInv'
  BY <1>1, <1>5, <1>6 DEF ForcedInv, RunsWhereForced, At, Arg, Starts
<1> QED BY <1>2, <1>3, <1>7

\* ad9361_ensm_force_state
LEMMA ForceStep ==
  ASSUME TypeOK, Rest, ForcedInv, ForceState
  PROVE  /\ Rest' /\ ForcedInv' /\ Same(todo', Tail(todo), plat.fdd)
         /\ todo' = Tail(todo) \/ Fresh(todo')
<1>1. /\ todo # <<>> /\ Head(todo)[1] = "force"
      /\ UNCHANGED <<plat, fddMode, clocks, tracking, curr, failed, config1, state>>
  BY DEF ForceState, At, ghosts, chip
<1>2. /\ Follows(Head(todo), Tail(todo), plat.fdd) /\ Tail(todo) \in Seq(Ops)
      /\ Sound(Tail(todo), plat.fdd) /\ Head(todo) \in Ops
  BY <1>1, Running DEF Rest
<1>3. Arg \in Forced /\ Head(todo) = <<"force", Arg>>
  BY <1>1, <1>2, OpShape DEF Arg
<1>4. CASE state = Arg
  <2>1. Then(<<>>)
    BY <1>4 DEF ForceState
  <2>2. todo' = Tail(todo) /\ Same(todo', Tail(todo), plat.fdd)
    BY <1>1, <2>1, Dropped
  <2>3. Rest'
    BY <1>1, <2>2, Quiet DEF Rest
  <2>4. ~(Starts(todo', {"poll"}) /\ Starts(Tail(todo'), {"run", "try"}))
    BY <1>1, <1>2, <2>2 DEF Follows, Forces
  <2>5. Starts(todo', {"run", "try"}) => Arg = Head(todo')[2]
    <3>1. Starts(todo', {"run", "try"}) =>
            Head(todo) = <<"poll">> \/ Head(todo) = <<"force", Head(todo')[2]>>
      BY <1>2, <2>2 DEF Follows, Forces
    <3> QED BY <1>3, <3>1
  <2>6. ForcedInv'
    BY <1>1, <1>4, <2>4, <2>5 DEF ForcedInv, RunsWhereForced, At, Arg, Starts
  <2> QED BY <2>2, <2>3, <2>6
<1>5. CASE state # Arg
  <2> DEFINE kept == (config1 \ {"pin"}) \ (IF state = "WAIT" THEN {} ELSE {"toAlert"})
             val == IF Arg = "ALERT" THEN (kept \ {"tx", "rx"}) \cup Alert ELSE kept \cup {"tx"}
             p == << <<"write", Alert>>, <<"write", val>>, <<"poll">> >> \o Tail(todo)
  <2>1. todo' = p
    BY <1>5 DEF ForceState, Then
  <2>2. /\ val \in SUBSET Bits /\ "pin" \notin val
        /\ Arg = "FDD" => val \cap {"tx", "rx"} # {}
        /\ Arg = "ALERT" => val \cap {"tx", "rx"} = {} /\ val \cap Alert # {}
    BY DEF TypeOK, Bits, Alert
  <2> HIDE DEF val
  <2>3. plat.fdd \in BOOLEAN
    BY DEF TypeOK
  <2>4. Same(p, Tail(todo), plat.fdd) /\ Fresh(p)
    BY <1>2, <1>3, <2>2, <2>3, ForceProgram
  <2> HIDE DEF p
  <2>5. Rest'
    BY <1>1, <2>1, <2>4, Quiet DEF Rest
  <2>6. ForcedInv'
    BY <2>1, <2>4, FreshForced
  <2> QED BY <2>1, <2>4, <2>5, <2>6
<1> QED BY <1>4, <1>5

\* ad9361_ensm_restore_state
LEMMA RestoreStep ==
  ASSUME TypeOK, Rest, RestoreState
  PROVE  /\ Rest' /\ ForcedInv' /\ Same(todo', Tail(todo), plat.fdd)
         /\ todo' = Tail(todo) \/ Fresh(todo')
<1>1. /\ todo # <<>> /\ Head(todo)[1] \in {"restorePrev", "restoreSaved"}
      /\ \E st : Then(Restoring(st))
      /\ UNCHANGED <<plat, fddMode, clocks, tracking, curr, failed>>
  BY DEF RestoreState, At, chip, phy
<1>2. PICK st : Then(Restoring(st))
  BY <1>1
<1>3. Tail(todo) \in {<<>>, SetUpEnd}
  <2>1. Follows(Head(todo), Tail(todo), plat.fdd)
    BY <1>1, Running DEF Rest
  <2> QED BY <1>1, <2>1 DEF Follows, Returns
<1>4. todo' = Restoring(st) \o Tail(todo)
  BY <1>2 DEF Then
<1>5. /\ Same(todo', Tail(todo), plat.fdd)
      /\ todo' = Tail(todo) \/ Fresh(todo')
  BY <1>3, <1>4, RestoreProgram DEF TypeOK
<1>6. Rest'
  BY <1>1, <1>5, Quiet DEF Rest
<1>7. ForcedInv'
  BY <1>1, <1>5, FreshForced, NotForced
<1> QED BY <1>5, <1>6, <1>7

\* ad9361_set_ensm_mode
LEMMA ModeStep ==
  ASSUME Rest, SetEnsmMode
  PROVE  Rest' /\ ForcedInv' /\ Same(todo', Tail(todo), plat.fdd)
<1>1. /\ todo # <<>> /\ Head(todo)[1] = "mode" /\ Then(<<>>) /\ fddMode' = Head(todo)[2]
      /\ UNCHANGED <<plat, clocks, tracking, curr, failed>>
  BY DEF SetEnsmMode, At, Arg, phy, ghosts
<1>2. todo' = Tail(todo) /\ Same(todo', Tail(todo), plat.fdd)
  BY <1>1, Dropped
<1>3. ProgramInv' /\ TrackInv' /\ ClocksInv'
  BY <1>1, <1>2, Quiet
<1>4. DuplexInv'
  <2>1. Follows(Head(todo), Tail(todo), plat.fdd)
    BY <1>1, Running DEF Rest
  <2> QED BY <1>1, <1>2, <2>1 DEF Follows, Forces, DuplexInv
<1>5. ForcedInv'
  BY <1>1, <1>2, NotForced
<1> QED BY <1>2, <1>3, <1>4, <1>5 DEF Rest

\* ad9361_ensm_set_state
LEMMA RequestStep ==
  ASSUME TypeOK, Rest, SetState
  PROVE  /\ Rest' /\ ForcedInv'
         /\ asked' = "NONE" \/ Has(todo', "done")
         /\ Fresh(todo') /\ (Has(todo', "save") => Has(todo, "save"))
         /\ ~plat.fdd /\ ~plat.dualSynth =>
              \A x \in {"TX", "RX"} : Contains(todo', <<"done", x, FALSE>>) => Has(todo', "synth")
<1> DEFINE st == Arg
           pin == Head(todo)[3]
           s == Tail(todo)
           fdd == plat.fdd
           t == Setting(st, pin) \o s
<1>1. /\ todo # <<>> /\ Head(todo)[1] = "state"
      /\ UNCHANGED <<plat, fddMode, clocks, tracking, curr, failed>>
  BY DEF SetState, At, chip, phy
<1>2. todo' = t
  BY DEF SetState, Setting, Granting, Through, Invalid, Synth1, Then
<1> HIDE DEF t
<1>3. /\ IsCons(todo, Head(todo), s, fdd) /\ Follows(Head(todo), s, fdd) /\ Sound(s, fdd)
      /\ s \in Seq(Ops) /\ Head(todo) \in Ops
  BY <1>1, Running DEF Rest
<1>4. st \in Wanted /\ pin \in BOOLEAN
  BY <1>1, <1>3, OpShape DEF Arg
<1> HIDE DEF st, pin
<1>5. After1(s, fdd)
  <2>1. s = <<>> \/ Starts(s, {"save"})
    BY <1>1, <1>3 DEF Follows, Requests
  <2>2. Fresh(s)
    BY <2>1 DEF Fresh, Starts
  <2>3. \A name \in {"state", "done", "clocks", "synth"} : ~Has(s, name)
    BY <1>1, <1>3 DEF Follows, Settles
  <2> QED BY <1>3, <2>1, <2>2, <2>3 DEF After1
<1>6. /\ ~Has(todo, "clocks") /\ ~Has(todo, "done") /\ Meets(todo, {"state", "done"})
      /\ MeetsFdd(s) => MeetsFdd(todo)
      /\ Contains(todo, <<"track", TRUE>>) => Contains(s, <<"track", TRUE>>)
  <2>1. Head(todo) # <<"track", TRUE>>
    BY <1>1, <1>3, Differ
  <2> HIDE DEF s
  <2> QED BY <1>1, <1>3, <1>5, <2>1 DEF IsCons, After1
<1>7. (clocks <=> curr # "SLEEP") /\ fddMode = fdd /\ (MeetsFdd(s) => fddMode)
  BY <1>6 DEF Rest, ClocksInv, DuplexInv
<1>8. IF st # "SLEEP" /\ Invalid(st) /\ curr = "ALERT"
        THEN t = s
        ELSE Asked(t, s, st, st # "SLEEP" /\ pin, fdd)
  BY <1>4, <1>5, SettingProgram DEF TypeOK, t
<1> HIDE DEF s
<1>9. CASE st # "SLEEP" /\ Invalid(st) /\ curr = "ALERT"
  <2>0. t = s
    BY <1>8, <1>9
  <2>1. \A x, c : ~Contains(s, <<"done", x, c>>)
    BY <1>5, MeetsHas DEF After1
  <2>2. Rest'
    BY <1>1, <1>2, <1>5, <1>6, <1>7, <2>0, <2>1
       DEF Rest, ProgramInv, TrackInv, ClocksInv, DuplexInv, After1
  <2>3. ForcedInv'
    BY <1>2, <1>5, <2>0, FreshForced DEF After1
  <2>4. asked' = "NONE"
    BY <1>9 DEF SetState, Invalid, st
  <2>5. Fresh(todo') /\ (Has(todo', "save") => Has(todo, "save"))
    BY <1>2, <1>3, <1>5, <2>0 DEF After1, IsCons
  <2> QED BY <1>2, <2>0, <2>1, <2>2, <2>3, <2>4, <2>5
<1>10. CASE ~(st # "SLEEP" /\ Invalid(st) /\ curr = "ALERT")
  <2> DEFINE c == st # "SLEEP" /\ pin
  <2>1. PICK names : /\ Leads(t, s, names, st, c, fdd) /\ Fresh(t)
                     /\ "done" \in names /\ names \cap {"state", "mode", "save"} = {}
                     /\ "clocks" \in names <=> (st = "SLEEP" \/ curr = "SLEEP")
                     /\ "synth" \in names <=> Synth1(st, c)
    BY <1>8, <1>10 DEF Asked
  <2> HIDE DEF c
  <2>2. ProgramInv' /\ TrackInv'
    BY <1>1, <1>2, <1>6, <2>1 DEF ProgramInv, TrackInv, Leads, Rest
  <2>3. ClocksInv'
    <3>1. /\ Has(t, "done")
          /\ ~Has(t, "clocks") => st # "SLEEP" /\ curr # "SLEEP"
          /\ \A x \in Wanted, d \in BOOLEAN : Contains(t, <<"done", x, d>>) => x = st
      BY <2>1 DEF Leads
    <3> QED BY <1>1, <1>2, <1>7, <3>1 DEF ClocksInv
  <2>4. DuplexInv'
    BY <1>1, <1>2, <1>7, <2>1 DEF DuplexInv, Leads
  <2>5. ForcedInv'
    BY <1>2, <2>1, FreshForced
  <2>6. Has(todo', "done")
    BY <1>2, <2>1 DEF Leads
  <2>8. Fresh(todo') /\ (Has(todo', "save") => Has(todo, "save"))
    <3>1. Fresh(t) /\ (Has(t, "save") => Has(s, "save"))
      BY <2>1 DEF Leads
    <3>2. Has(s, "save") => Has(todo, "save")
      BY <1>3 DEF IsCons
    <3> QED BY <1>2, <3>1, <3>2
  <2>7. ASSUME ~plat.fdd, ~plat.dualSynth, NEW x \in {"TX", "RX"},
               Contains(todo', <<"done", x, FALSE>>)
        PROVE  Has(todo', "synth")
    <3>1. x = st /\ c = FALSE
      <4>1. \A y, d : Contains(t, <<"done", y, d>>) => y = st /\ d = c
        BY <2>1 DEF Leads
      <4> QED BY <1>2, <2>7, <4>1, Zenon
    <3>2. Synth1(st, c)
      BY <2>7, <3>1 DEF Synth1
    <3> QED BY <1>2, <2>1, <3>2 DEF Leads
  <2> QED BY <2>2, <2>3, <2>4, <2>5, <2>6, <2>7, <2>8 DEF Rest
<1> QED BY <1>9, <1>10

\* Its last statement.
LEMMA DoneStep ==
  ASSUME Rest, StateSet
  PROVE  Rest' /\ ForcedInv' /\ Same(todo', Tail(todo), plat.fdd)
<1>1. /\ todo # <<>> /\ Head(todo)[1] = "done" /\ Then(<<>>) /\ curr' = Head(todo)[2]
      /\ UNCHANGED <<plat, fddMode, clocks, tracking, failed>>
  BY DEF StateSet, At, Arg, chip
<1>2. todo' = Tail(todo) /\ Same(todo', Tail(todo), plat.fdd)
  BY <1>1, Dropped
<1>3. ProgramInv' /\ TrackInv' /\ DuplexInv'
  BY <1>1, <1>2, Quiet
<1>4. ClocksInv'
  <2>1. /\ IsCons(todo, Head(todo), Tail(todo), plat.fdd) /\ Head(todo) \in Ops
        /\ Follows(Head(todo), Tail(todo), plat.fdd)
    BY <1>1, Running DEF Rest
  <2>2. \A name \in {"state", "done", "clocks", "synth"} : ~Has(Tail(todo), name)
    BY <1>1, <2>1 DEF Follows, Settles
  <2>3. /\ Head(todo)[2] \in Wanted /\ Head(todo)[3] \in BOOLEAN
        /\ Head(todo) = <<"done", Head(todo)[2], Head(todo)[3]>>
    BY <1>1, <2>1, OpShape
  <2>4. Contains(todo, <<"done", Head(todo)[2], Head(todo)[3]>>) /\ ~Has(todo, "clocks")
    BY <1>1, <2>1, <2>2, <2>3 DEF IsCons
  <2>5. clocks <=> Head(todo)[2] # "SLEEP"
    BY <2>3, <2>4 DEF Rest, ClocksInv
  <2>6. \A x, c : ~Contains(todo', <<"done", x, c>>)
    BY <1>2, <2>2, MeetsHas
  <2> QED BY <1>1, <1>2, <2>2, <2>5, <2>6 DEF ClocksInv
<1>5. ForcedInv'
  BY <1>1, <1>2, NotForced
<1> QED BY <1>2, <1>3, <1>4, <1>5 DEF Rest

\* The other registers.
LEMMA RegistersStep ==
  ASSUME Rest, Registers
  PROVE  Rest' /\ ForcedInv' /\ Same(todo', Tail(todo), plat.fdd)
<1>1. /\ todo # <<>> /\ Head(todo)[1] \in {"clocks", "synth", "track"} /\ Then(<<>>)
      /\ UNCHANGED <<plat, fddMode, curr>>
  BY DEF Registers, At, phy
<1>2. todo' = Tail(todo) /\ Same(todo', Tail(todo), plat.fdd)
  BY <1>1, Dropped
<1>3. ProgramInv' /\ DuplexInv'
  BY <1>1, <1>2, Quiet
<1>4. Follows(Head(todo), Tail(todo), plat.fdd) /\ Head(todo) \in Ops
  BY <1>1, Running DEF Rest
<1>5. ClocksInv'
  <2>1. CASE Head(todo)[1] = "clocks"
    <3>1. clocks' = Head(todo)[2]
      BY <2>1 DEF Registers, At, Arg
    <3> QED BY <1>1, <1>2, <1>4, <2>1, <3>1 DEF Follows, Settles, ClocksInv
  <2>2. CASE Head(todo)[1] # "clocks"
    <3>1. clocks' = clocks
      BY <2>2 DEF Registers, At
    <3> QED BY <1>1, <1>2, <2>2, <3>1, Quiet
  <2> QED BY <2>1, <2>2
<1>6. TrackInv'
  <2>1. CASE Head(todo)[1] = "track"
    <3>1. tracking' = Head(todo)[2]
      BY <2>1 DEF Registers, At, Arg
    <3>2. Head(todo)[2] \in BOOLEAN /\ Head(todo) = <<"track", Head(todo)[2]>>
      BY <1>4, <2>1, OpShape
    <3>3. CASE Head(todo)[2] = TRUE
      BY <3>1, <3>3 DEF TrackInv
    <3>4. CASE Head(todo)[2] = FALSE
      <4>1. Head(todo) = <<"track", FALSE>>
        BY <3>2, <3>4
      <4>2. Contains(Tail(todo), <<"track", TRUE>>)
        BY <1>4, <4>1 DEF Follows, Retracks
      <4> QED BY <1>2, <4>2 DEF TrackInv
    <3> QED BY <3>2, <3>3, <3>4
  <2>2. CASE Head(todo)[1] # "track"
    <3>1. tracking' = tracking /\ failed' = failed
      BY <2>2 DEF Registers, At
    <3> QED BY <1>1, <1>2, <2>2, <3>1, Quiet
  <2> QED BY <2>1, <2>2
<1>7. ForcedInv'
  BY <1>1, <1>2, NotForced
<1> QED BY <1>2, <1>3, <1>5, <1>6, <1>7 DEF Rest

\* What the state was forced for, and the save of a tuning.
LEMMA WorkStep ==
  ASSUME Rest, Run \/ Save
  PROVE  Rest' /\ ForcedInv' /\ Same(todo', Tail(todo), plat.fdd)
<1>1. /\ todo # <<>> /\ Head(todo)[1] \in {"run", "try", "save"} /\ Then(<<>>)
      /\ UNCHANGED <<plat, fddMode, clocks, tracking, curr, failed>>
  BY DEF Run, Save, At, chip, phy, ghosts
<1>2. todo' = Tail(todo) /\ Same(todo', Tail(todo), plat.fdd)
  BY <1>1, Dropped
<1>3. Rest'
  BY <1>1, <1>2, Quiet DEF Rest
<1>4. ForcedInv'
  BY <1>1, <1>2, NotForced
<1> QED BY <1>2, <1>3, <1>4

\* ad9361_update_rf_bandwidth fails.
LEMMA FailStep ==
  ASSUME Rest, Fail
  PROVE  Rest' /\ ForcedInv'
<1>1. /\ todo # <<>> /\ Head(todo)[1] = "try" /\ todo' = <<>> /\ failed' = TRUE
      /\ UNCHANGED <<plat, fddMode, clocks, tracking, curr>>
  BY DEF Fail, At, chip, phy
<1> DEFINE r == Cons(<<"restorePrev">>, <<>>)
           k == Cons(<<"track", TRUE>>, r)
<1>2. /\ Tail(todo) = k /\ IsCons(todo, Head(todo), Tail(todo), plat.fdd)
  <2>1. IsCons(todo, Head(todo), Tail(todo), plat.fdd) /\ Follows(Head(todo), Tail(todo), plat.fdd)
    BY <1>1, Running DEF Rest
  <2> QED BY <1>1, <2>1 DEF Follows, Retracks
<1>3. IsCons(r, <<"restorePrev">>, <<>>, plat.fdd)
  BY OpsIn, Empty, ConsAll
<1>4. IsCons(k, <<"track", TRUE>>, r, plat.fdd)
  <2>1. r \in Seq(Ops) /\ <<"track", TRUE>> \in Ops
    BY <1>3, OpsIn DEF IsCons
  <2> HIDE DEF r
  <2> QED BY <2>1, ConsAll
<1> HIDE DEF r, k
<1>5. ~Has(todo, "clocks") /\ ~Has(todo, "done") /\ ~Has(todo, "mode")
  BY <1>1, <1>2, <1>3, <1>4, Empty DEF IsCons
<1>6. (clocks <=> curr # "SLEEP") /\ fddMode = plat.fdd
  BY <1>5 DEF Rest, ClocksInv, DuplexInv
<1>7. Rest'
  BY <1>1, <1>6, Empty DEF Rest, ProgramInv, TrackInv, ClocksInv, DuplexInv
<1>8. ForcedInv'
  BY <1>1, Empty, FreshForced DEF Fresh
<1> QED BY <1>7, <1>8

\* What is asked for fits the duplex mode.
LEMMA AskedStep ==
  ASSUME AskedInv, Next
  PROVE  AskedInv'
<1>1. plat' = plat
  BY DEF Next, FlushEnd, PinMove, UserCalls, Call, Driver, Write, Poll, ForceState, RestoreState,
         SetEnsmMode, SetState, StateSet, Registers, Run, Fail, Save
<1>2. (asked' \in {asked, "NONE"} /\ curr' = curr) \/ (Fits(asked') /\ curr' = asked') \/ asked' = "NONE"
  BY DEF Next, FlushEnd, PinMove, UserCalls, Call, Driver, Write, Poll, ForceState, RestoreState,
         SetEnsmMode, SetState, StateSet, Registers, Run, Fail, Save, chip, phy, ghosts
<1> QED BY <1>1, <1>2 DEF AskedInv, Fits

\* A step that has nothing to do with the request.
LEMMA QuietSynth ==
  ASSUME Rest, SynthInv, todo # <<>>, Same(todo', Tail(todo), plat.fdd),
         Head(todo)[1] \notin {"synth", "done", "state", "mode"},
         UNCHANGED <<plat, txnrx, asked>>,
         tuned' \/ (Head(todo)[1] # "restoreSaved" /\ tuned' = tuned)
  PROVE  SynthInv'
<1>1. IsCons(todo, Head(todo), Tail(todo), plat.fdd) /\ Head(todo) \in Ops
  BY Running DEF Rest
<1>2. \A st, c : Contains(todo', <<"done", st, c>>) => Contains(todo, <<"done", st, c>>)
  BY <1>1 DEF IsCons, Same
<1>3. /\ \A name \in {"state", "done", "mode", "synth"} : Has(todo', name) <=> Has(todo, name)
      /\ Head(todo)[1] # "restoreSaved" => (Has(todo', "restoreSaved") <=> Has(todo, "restoreSaved"))
  BY <1>1 DEF IsCons, Same
<1> QED BY <1>2, <1>3 DEF SynthInv, Pending

\* The synthesizer follows the request.
LEMMA SynthStep ==
  ASSUME TypeOK, Rest, ForcedInv, SynthInv, Next
  PROVE  SynthInv'
<1>1. CASE FlushEnd \/ PinMove
  <2>1. UNCHANGED <<plat, txnrx, asked, tuned, todo>>
    BY <1>1 DEF FlushEnd, PinMove, ghosts
  <2> QED BY <2>1 DEF SynthInv, Pending
<1>2. CASE UserCalls
  <2>0. plat.fdd \in BOOLEAN /\ plat.pinCtrl \in BOOLEAN
    BY DEF TypeOK
  <2>1. PICK program : Call(program) /\ Program(program, plat.fdd)
    BY <1>2, <2>0, UserPrograms
       DEF UserCalls, Wanted, ClkMuxSetParent, RssiGainStepCalib, TimingAnalysis
  <2>2. /\ todo = <<>> /\ todo' = program /\ asked' \in {"NONE", asked}
        /\ UNCHANGED <<plat, txnrx, tuned>>
    BY <2>1 DEF Call, chip
  <2>3. ~plat.fdd /\ ~plat.dualSynth /\ asked \in {"TX", "RX"} /\ ~tuned => (txnrx <=> asked = "TX")
    BY <2>2, Empty DEF SynthInv, Pending
  <2>4. \A st, c : ~Contains(todo', <<"done", st, c>>)
    BY <2>1, <2>2, MeetsHas DEF Program
  <2> QED BY <2>2, <2>3, <2>4 DEF SynthInv
<1>3. CASE Write \/ Poll \/ ForceState \/ RestoreState \/ Run \/ Save
  <2>1. Same(todo', Tail(todo), plat.fdd)
    BY <1>3, WriteStep, PollStep, ForceStep, RestoreStep, WorkStep
  <2>2. /\ todo # <<>>
        /\ Head(todo)[1] \in {"write", "poll", "force", "restorePrev", "restoreSaved", "run", "try", "save"}
        /\ UNCHANGED <<plat, txnrx, asked>>
    BY <1>3 DEF Write, Poll, ForceState, RestoreState, Run, Save, At, chip, phy, ghosts
  <2>3. tuned' \/ (Head(todo)[1] # "restoreSaved" /\ tuned' = tuned)
    <3>1. CASE RestoreState
      <4>1. CASE Head(todo)[1] = "restoreSaved"
        BY <2>2, <3>1, <4>1 DEF RestoreState, At
      <4>2. CASE Head(todo)[1] # "restoreSaved"
        <5>1. tuned' = (tuned \/ FALSE)
          BY <3>1, <4>2 DEF RestoreState, At
        <5>2. tuned' = tuned
          BY <5>1 DEF TypeOK
        <5> QED BY <4>2, <5>2
      <4> QED BY <4>1, <4>2
    <3>2. CASE Write \/ Poll \/ ForceState \/ Run \/ Save
      BY <2>2, <3>2 DEF Write, Poll, ForceState, Run, Save, At, ghosts
    <3> QED BY <1>3, <3>1, <3>2
  <2> QED BY <2>1, <2>2, <2>3, QuietSynth
<1>4. CASE SetEnsmMode
  <2>1. todo # <<>> /\ Head(todo)[1] = "mode" /\ Then(<<>>)
    BY <1>4 DEF SetEnsmMode, At
  <2>2. todo' = Tail(todo) /\ Follows(Head(todo), Tail(todo), plat.fdd)
    BY <2>1, Dropped, Running DEF Rest
  <2>3. ~Has(todo', "done") /\ (Has(todo', "state") \/ Has(todo', "restoreSaved"))
    BY <2>1, <2>2 DEF Follows, Returns
  <2>4. \A st, c : ~Contains(todo', <<"done", st, c>>)
    BY <2>3, MeetsHas
  <2> QED BY <2>3, <2>4 DEF SynthInv, Pending
<1>5. CASE SetState
  <2>1. /\ asked' = "NONE" \/ Has(todo', "done")
        /\ ~plat.fdd /\ ~plat.dualSynth =>
             \A x \in {"TX", "RX"} : Contains(todo', <<"done", x, FALSE>>) => Has(todo', "synth")
    BY <1>5, RequestStep
  <2>2. plat' = plat
    BY <1>5 DEF SetState
  <2> QED BY <2>1, <2>2 DEF SynthInv, Pending
<1>6. CASE StateSet
  <2>1. /\ todo # <<>> /\ Head(todo)[1] = "done" /\ Then(<<>>) /\ UNCHANGED <<plat, txnrx>>
        /\ asked' \in {"TX", "RX"} => asked' = Head(todo)[2] /\ ~Head(todo)[3]
    BY <1>6 DEF StateSet, At, Arg, chip
  <2>2. /\ todo' = Tail(todo) /\ Follows(Head(todo), Tail(todo), plat.fdd) /\ Head(todo) \in Ops
        /\ IsCons(todo, Head(todo), Tail(todo), plat.fdd)
    BY <2>1, Dropped, Running DEF Rest
  <2>3. ~Has(todo', "done") /\ ~Has(todo, "synth")
    BY <2>1, <2>2 DEF Follows, Settles, IsCons
  <2>4. \A st, c : ~Contains(todo', <<"done", st, c>>)
    BY <2>3, MeetsHas
  <2>5. ASSUME asked' \in {"TX", "RX"}
        PROVE  Contains(todo, <<"done", asked', FALSE>>)
    <3>1. Head(todo) = <<"done", Head(todo)[2], Head(todo)[3]>> /\ Head(todo)[3] \in BOOLEAN
      BY <2>1, <2>2, OpShape
    <3>2. Head(todo) = <<"done", asked', FALSE>>
      BY <2>1, <2>5, <3>1
    <3> QED BY <2>2, <3>2 DEF IsCons
  <2> QED BY <2>1, <2>3, <2>4, <2>5 DEF SynthInv
<1>7. CASE Registers
  <2>1. /\ todo # <<>> /\ Head(todo)[1] \in {"clocks", "synth", "track"} /\ Then(<<>>)
        /\ UNCHANGED <<plat, asked, tuned>>
    BY <1>7 DEF Registers, At
  <2>2. CASE Head(todo)[1] = "synth"
    <3>1. /\ todo' = Tail(todo) /\ Follows(Head(todo), Tail(todo), plat.fdd)
          /\ txnrx' = Head(todo)[2]
      BY <1>7, <2>1, <2>2, Dropped, Running DEF Rest, Registers, At, Arg
    <3>2. /\ Has(todo', "done")
          /\ \A st \in {"TX", "RX"} :
               Contains(todo', <<"done", st, FALSE>>) => (txnrx' <=> st = "TX")
      BY <2>2, <3>1 DEF Follows, Requests, Wanted, Active
    <3> QED BY <3>2 DEF SynthInv, Pending
  <2>3. CASE Head(todo)[1] # "synth"
    <3>1. txnrx' = txnrx
      BY <1>7, <2>3 DEF Registers, At
    <3>2. Same(todo', Tail(todo), plat.fdd)
      BY <1>7, RegistersStep
    <3> QED BY <2>1, <2>3, <3>1, <3>2, QuietSynth
  <2> QED BY <2>2, <2>3
<1>8. CASE Fail
  <2>1. todo' = <<>> /\ asked' = "NONE"
    BY <1>8 DEF Fail
  <2> QED BY <2>1, Empty DEF SynthInv
<1> QED BY <1>1, <1>2, <1>3, <1>4, <1>5, <1>6, <1>7, <1>8 DEF Next, Driver

\* Set-up begins in the invariant.
LEMMA StartInvariant == Init => DriverInv
<1> SUFFICES ASSUME Init PROVE DriverInv
  OBVIOUS
<1>1. plat.fdd \in BOOLEAN /\ plat.pinCtrl \in BOOLEAN
  BY DEF Init
<1>2. PICK ok \in BOOLEAN : todo = SetUp(ok)
  BY DEF Init
<1>3. Program(todo, plat.fdd)
  BY <1>1, <1>2, SetUps
<1>4. TypeOK
  BY DEF Init, TypeOK, Active, States, Bits, Alert
<1>5. fddMode = plat.fdd /\ clocks = TRUE /\ tracking = TRUE /\ curr # "SLEEP"
  BY <1>1 DEF Init
<1>6. \A st, pin : ~Contains(todo, <<"done", st, pin>>)
  BY <1>3, MeetsHas DEF Program
<1>7. ProgramInv /\ TrackInv /\ ClocksInv /\ DuplexInv
  BY <1>3, <1>5, <1>6 DEF ProgramInv, TrackInv, ClocksInv, DuplexInv, Program
<1>8. ForcedInv
  BY <1>3 DEF ForcedInv, RunsWhereForced, At, Fresh, Starts, Program
<1>9. AskedInv /\ SynthInv
  BY <1>6 DEF Init, AskedInv, SynthInv
<1> QED BY <1>4, <1>7, <1>8, <1>9 DEF DriverInv

\* Every step keeps it.
LEMMA StepInvariant == DriverInv /\ [Next]_vars => DriverInv'
<1> SUFFICES ASSUME DriverInv, [Next]_vars PROVE DriverInv'
  OBVIOUS
<1>0. TypeOK /\ Rest /\ ForcedInv /\ ProgramInv /\ AskedInv /\ SynthInv
  BY DEF DriverInv, Rest
<1>1. CASE UNCHANGED vars
  <2>1. /\ UNCHANGED <<plat, config1, fddMode, txnrx, state, clocks, tracking>>
        /\ UNCHANGED <<curr, prev, pinCtl, saved, todo, began, asked, tuned, outrun, failed>>
    BY <1>1 DEF vars, chip, phy, ghosts
  <2>2. TypeOK'
    BY <1>0, <2>1 DEF TypeOK
  <2>3. Rest'
    BY <1>0, <2>1 DEF Rest, ProgramInv, TrackInv, ClocksInv, DuplexInv
  <2>4. ForcedInv'
    BY <1>0, <2>1 DEF ForcedInv, RunsWhereForced, At, Arg, Goal
  <2>5. AskedInv' /\ SynthInv'
    BY <1>0, <2>1 DEF AskedInv, SynthInv, Fits, Pending
  <2> QED BY <2>2, <2>3, <2>4, <2>5 DEF DriverInv, Rest
<1>2. CASE Next
  <2>1. TypeOK'
    BY <1>0, <1>2, TypeStep
  <2>2. Rest' /\ ForcedInv'
    BY <1>0, <1>2, ChipStep, CallStep, WriteStep, PollStep, ForceStep, RestoreStep, ModeStep,
       RequestStep, DoneStep, RegistersStep, WorkStep, FailStep DEF Next, Driver
  <2>3. AskedInv' /\ SynthInv'
    BY <1>0, <1>2, AskedStep, SynthStep
  <2> QED BY <2>1, <2>2, <2>3 DEF DriverInv, Rest
<1> QED BY <1>1, <1>2

\* So it always holds.
LEMMA Invariance == Spec => []DriverInv
<1> QED BY StartInvariant, StepInvariant, PTL DEF Spec

-----------------------------------------------------------------------------
(***************************************************************************)
(* The theorems.                                                           *)
(***************************************************************************)

\* The registers and the driver's fields have their types, whatever is called.
THEOREM DriverTypes == Spec => []TypeOK
<1>1. DriverInv => TypeOK
  BY DEF DriverInv
<1> QED BY <1>1, Invariance, PTL

\* A calibration, a table load or a delay scan runs in the state that was
\* forced for it (ad9361_ensm_force_state), whatever call is made and however
\* long the chip flushes.
THEOREM WorkIsWhereForced == Spec => []RunsWhereForced
<1>1. DriverInv => RunsWhereForced
  BY DEF DriverInv, ForcedInv
<1> QED BY <1>1, Invariance, PTL

\* Only a change of bandwidth that failed leaves the tracking calibrations off.
THEOREM TrackingComesBack == Spec => []TrackingReturns
<1>1. DriverInv => TrackingReturns
  BY Empty DEF DriverInv, TrackInv, TrackingReturns
<1> QED BY <1>1, Invariance, PTL

\* Between calls the driver believes the chip asleep exactly while its clocks
\* are off (curr_ensm_state and the clock enables agree).
THEOREM SleepIsKnown == Spec => []SleepsDark
<1>1. DriverInv => SleepsDark
  BY Empty DEF DriverInv, ClocksInv, SleepsDark
<1> QED BY <1>1, Invariance, PTL

\* The synthesizer of the direction asked for is on, until the interface is
\* tuned (TXNRX_SPI_CTRL, written by ad9361_ensm_set_state).
THEOREM SynthIsRight == Spec => []SynthFollows
<1>1. DriverInv => SynthFollows
  <2> SUFFICES ASSUME DriverInv, Idle, asked \in {"TX", "RX"}, ~plat.dualSynth, ~tuned
               PROVE  txnrx = (asked = "TX")
    BY DEF SynthFollows
  <2>1. todo = <<>> /\ txnrx \in BOOLEAN /\ plat.fdd \in BOOLEAN
    BY DEF Idle, DriverInv, TypeOK
  <2>2. ~plat.fdd
    BY DEF DriverInv, AskedInv, Fits
  <2>3. txnrx <=> asked = "TX"
    BY <2>1, <2>2, Empty DEF DriverInv, SynthInv, Pending
  <2> QED BY <2>1, <2>3
<1> QED BY <1>1, Invariance, PTL

-----------------------------------------------------------------------------
(***************************************************************************)
(* The state the user asked for, until a call finds the chip in a flush.   *)
(***************************************************************************)

\* The bits c send the chip to the state asked for.
Aims(c) == "pin" \notin c /\ Goal(c) = asked

\* The chip is there, or on its way.
Heading == "pin" \notin config1 => Goal(config1) = asked /\ state \in {"FLUSH", asked}

\* What is left of ad9361_ensm_restore_state ends with a write that aims at the state.
Final(s) ==
  \E v \in SUBSET Bits :
    \/ Aims(v) /\ \E end \in {<<>>, SetUpEnd} : s = Cons(<<"write", v>>, end)
    \/ Aims(v) /\ s = Cons(<<"write", v>>, Cons(<<"write", v \cup {"pin"}>>, <<>>))
    \/ s = Cons(<<"write", v \cup {"pin"}>>, <<>>)

\* Where the state asked for is kept while a call moves the chip.
InSaved == ~Has(todo, "save") /\ Has(todo, "restoreSaved")
InPrev ==
  /\ ~Has(todo, "save") /\ ~Has(todo, "restoreSaved")
  /\ Has(todo, "restorePrev") /\ ~Has(todo, "force")
InChip ==
  /\ ~Has(todo, "save") /\ ~Has(todo, "restoreSaved")
  /\ Has(todo, "restorePrev") => Has(todo, "force")

Kept ==
  /\ Has(todo, "save") => At("save") /\ Heading
  /\ InSaved => saved = asked
  /\ InPrev => prev = asked
  /\ InChip /\ Has(todo, "write") =>
       Final(todo) \/ (Head(todo) = <<"write", Alert>> /\ Final(Tail(todo)))
  /\ InChip /\ ~Has(todo, "write") => Heading /\ ~Has(todo, "poll")

HoldInv ==
  ~outrun /\ asked # "NONE" /\ ~Pending =>
    /\ "pin" \in config1 => todo = <<>>
    /\ Has(todo, "restoreSaved") => ~pinCtl \/ ~Has(todo, "restorePrev")
    /\ Kept

\* A request that has been written.
DoneInv ==
  At("done") /\ Arg # "SLEEP" =>
    /\ config1 = Request(Arg, Head(todo)[3])
    /\ "pin" \notin config1 => state \in {"FLUSH", Goal(config1)}

\* The request of set-up finds the chip where the first lines of set-up left it.
FirstState   == IF plat.fdd THEN "FDD" ELSE "RX"
FirstRequest == <<"state", FirstState, plat.pinCtrl>>
FirstDone    == <<"done", FirstState, plat.pinCtrl>>
FirstWrite   == <<"write", Request(FirstState, plat.pinCtrl)>>

First(s) ==
  \/ todo = Cons(FirstRequest, s)
  \/ todo = Cons(FirstWrite, Cons(FirstDone, s))
  \/ \E b \in BOOLEAN : todo = Cons(<<"synth", b>>, Cons(FirstWrite, Cons(FirstDone, s)))

StartInv ==
  Pending /\ Has(todo, "save") =>
    /\ ~pinCtl
    /\ \/ /\ "pin" \notin config1
          /\ state = (IF plat.fdd THEN "FDD" ELSE "ALERT") /\ curr = state
          /\ \E s \in Seq(Ops) : First(s)
       \/ At("done") /\ ("pin" \in config1 \/ state = Arg)

HeldInv == DriverInv /\ HoldInv /\ DoneInv /\ StartInv

\* A user's call asks for a state, or tunes, or forces a state and comes back.
UserCall(s) ==
  \/ Has(s, "state") /\ ~Has(s, "save")
  \/ /\ Starts(s, {"save"}) /\ Has(s, "restoreSaved")
     /\ ~Has(s, "restorePrev") /\ ~Has(s, "state")
  \/ /\ \A name \in {"save", "restoreSaved", "write", "poll", "state"} : ~Has(s, name)
     /\ Has(s, "restorePrev") => Has(s, "force")

\* The operations of a tuning.
LEMMA TuneNames ==
  ASSUME plat.fdd \in BOOLEAN, plat.pinCtrl \in BOOLEAN,
         NEW skip \in BOOLEAN, NEW ok \in BOOLEAN
  PROVE  /\ DigTune(skip, ok) \in Seq(Ops)
         /\ \A name : Has(DigTune(skip, ok), name) => name \notin {"restorePrev", "state", "write", "poll"}
<1> DEFINE T == {op \in Ops : op[1] \notin {"restorePrev", "state", "write", "poll"}}
           d(fdd, pin) == IF plat.fdd THEN <<>> ELSE << <<"mode", fdd, pin>> >>
           x == <<"force", "ALERT">>
           y == <<"force", "FDD">>
           r == <<"run", "FDD">>
           v == <<"save">>
           u == <<"restoreSaved">>
<1>1. x \in T /\ y \in T /\ r \in T /\ v \in T /\ u \in T
  <2>1. x \in Ops /\ y \in Ops /\ r \in Ops /\ v \in Ops /\ u \in Ops
    BY OpsIn DEF Forced
  <2>2. x[1] = "force" /\ y[1] = "force" /\ r[1] = "run" /\ v[1] = "save" /\ u[1] = "restoreSaved"
    OBVIOUS
  <2> HIDE DEF x, y, r, v, u
  <2> QED BY <2>1, <2>2
<1>2. \A b, c \in BOOLEAN : <<"mode", b, c>> \in T
  BY OpsIn
<1> HIDE DEF T
<1>3. \A b, c \in BOOLEAN : d(b, c) \in Seq(T)
  <2> TAKE b, c \in BOOLEAN
  <2> DEFINE m == <<"mode", b, c>>
  <2>1. m \in T
    BY <1>2, Zenon
  <2>2. d(b, c) = IF plat.fdd THEN <<>> ELSE << m >>
    OBVIOUS
  <2> HIDE DEF m, d
  <2>3. <<>> \in Seq(T) /\ << m >> \in Seq(T)
    BY <2>1
  <2> QED BY <2>2, <2>3
<1>4. SetIntfDelay \in Seq(T)
  BY <1>1 DEF SetIntfDelay
<1>5. DigTuneDelay(ok) \in Seq(T)
  BY <1>1, <1>4 DEF DigTuneDelay
<1> DEFINE A == << v >>
           B == IF skip THEN <<>> ELSE d(TRUE, FALSE) \o DigTuneDelay(ok)
           C == IF skip \/ ~ok THEN << x >> ELSE <<>>
           D == d(plat.fdd, plat.pinCtrl)
           E == << u >>
<1>6. DigTune(skip, ok) = A \o B \o C \o D \o E
  BY DEF DigTune
<1>7. A \in Seq(T) /\ B \in Seq(T) /\ C \in Seq(T) /\ D \in Seq(T) /\ E \in Seq(T)
  <2>1. d(TRUE, FALSE) \in Seq(T) /\ D \in Seq(T)
    <3> HIDE DEF d
    <3> QED BY <1>3, Zenon
  <2> HIDE DEF d, v, u, x, D
  <2>2. <<>> \in Seq(T) /\ << v >> \in Seq(T) /\ << u >> \in Seq(T) /\ << x >> \in Seq(T)
    BY <1>1
  <2>3. d(TRUE, FALSE) \o DigTuneDelay(ok) \in Seq(T)
    <3>1. \A m, n \in Seq(T) : m \o n \in Seq(T)
      OBVIOUS
    <3> QED BY <1>5, <2>1, <3>1, Zenon
  <2>4. B \in Seq(T)
    <3>1. CASE skip
      BY <2>2, <3>1 DEF B
    <3>2. CASE ~skip
      <4>1. B = d(TRUE, FALSE) \o DigTuneDelay(ok)
        BY <3>2, Zenon DEF B
      <4> QED BY <2>3, <4>1, Zenon
    <3> QED BY <3>1, <3>2
  <2>5. C \in Seq(T)
    BY <2>2, Zenon DEF C
  <2> QED BY <2>1, <2>2, <2>4, <2>5
<1> HIDE DEF A, B, C, D, E
<1>8. DigTune(skip, ok) \in Seq(T)
  BY <1>6, <1>7
<1>9. \A i \in 1 .. Len(DigTune(skip, ok)) : DigTune(skip, ok)[i] \in T
  BY <1>8
<1>10. \A name : Has(DigTune(skip, ok), name) => name \notin {"restorePrev", "state", "write", "poll"}
  BY <1>9 DEF Has, T
<1>11. DigTune(skip, ok) \in Seq(Ops)
  BY <1>8 DEF T
<1> QED BY <1>10, <1>11

\* What the user calls is a user's call.
LEMMA CallShapes ==
  ASSUME plat.fdd \in BOOLEAN, plat.pinCtrl \in BOOLEAN
  PROVE  /\ \A st \in Wanted, pin \in BOOLEAN : UserCall(SetMode(st, pin))
         /\ UserCall(DoCalibRun) /\ UserCall(UpdateRfBandwidth) /\ UserCall(LoadFirFilterCoef)
         /\ \A skip, ok \in BOOLEAN : UserCall(DigTune(skip, ok))
<1>1. \A st \in Wanted, pin \in BOOLEAN : UserCall(SetMode(st, pin))
  BY DEF SetMode, UserCall, Has
<1>2. UserCall(DoCalibRun)
  <2>1. \A name : Has(DoCalibRun, name) <=> name \in {"track", "force", "run", "restorePrev"}
    BY DEF DoCalibRun, Has
  <2> QED BY <2>1 DEF UserCall
<1>3. UserCall(UpdateRfBandwidth)
  <2>1. \A name : Has(UpdateRfBandwidth, name) <=> name \in {"track", "force", "try", "restorePrev"}
    BY DEF UpdateRfBandwidth, Has
  <2> QED BY <2>1 DEF UserCall
<1>4. UserCall(LoadFirFilterCoef)
  <2>1. \A name : Has(LoadFirFilterCoef, name) <=> name \in {"force", "run", "restorePrev"}
    BY DEF LoadFirFilterCoef, Has
  <2> QED BY <2>1 DEF UserCall
<1>5. ASSUME NEW skip \in BOOLEAN, NEW ok \in BOOLEAN
      PROVE  UserCall(DigTune(skip, ok))
  <2> DEFINE t == DigTune(skip, ok)
  <2>1. /\ t \o <<>> # <<>> /\ Head(t \o <<>>) = <<"save">> /\ Sound(t \o <<>>, plat.fdd)
    BY DigTunes DEF Program
  <2>2. /\ t \in Seq(Ops)
        /\ \A name : Has(t, name) => name \notin {"restorePrev", "state", "write", "poll"}
    BY TuneNames
  <2> HIDE DEF t
  <2>3. t \o <<>> = t
    BY <2>2, Concat
  <2>4. t # <<>> /\ Head(t) = <<"save">> /\ Sound(t, plat.fdd)
    BY <2>1, <2>3
  <2>5. Head(t) \in Ops /\ Tail(t) \in Seq(Ops) /\ t = Cons(Head(t), Tail(t))
    BY <2>2, <2>4, Uncons
  <2>6. IsCons(t, Head(t), Tail(t), plat.fdd)
    BY <2>5, ConsAll
  <2>7. Follows(<<"save">>, Tail(t), plat.fdd)
    BY <2>4, <2>6 DEF IsCons
  <2>8. Has(Tail(t), "restoreSaved")
    BY <2>7 DEF Follows, Returns
  <2> QED BY <2>2, <2>4, <2>6, <2>8 DEF UserCall, IsCons, t
<1> QED BY <1>1, <1>2, <1>3, <1>4, <1>5

-----------------------------------------------------------------------------
(***************************************************************************)
(* The steps keep the state asked for.                                     *)
(***************************************************************************)

\* What is in the end of set-up.
LEMMA Ended ==
  /\ SetUpEnd \in Seq(Ops) /\ SetUpEnd # <<>>
  /\ \A name : Has(SetUpEnd, name) <=> name \in {"force", "restorePrev"}
<1>1. /\ SetUpEnd \in Seq(Ops)
      /\ \A name : Has(SetUpEnd, name) <=> name \in {"force", "restorePrev"}
  BY SetUpEnds
<1> QED BY <1>1, Empty

\* The end of a restore is a write.
LEMMA FinalHead ==
  ASSUME NEW s, Final(s)
  PROVE  /\ s # <<>> /\ Head(s)[1] = "write" /\ Has(s, "write")
         /\ \/ Aims(Head(s)[2]) /\ Tail(s) \in {<<>>, SetUpEnd}
            \/ /\ Aims(Head(s)[2])
               /\ \E v \in SUBSET Bits : Tail(s) = Cons(<<"write", v \cup {"pin"}>>, <<>>)
            \/ "pin" \in Head(s)[2] /\ Tail(s) = <<>>
         /\ \A name : Has(s, name) => name \in {"write", "force", "restorePrev"}
         /\ Has(s, "restorePrev") => Has(s, "force")
<1>0. <<>> \in Seq(Ops) /\ SetUpEnd \in Seq(Ops)
  BY Ended, Empty
<1>1. ASSUME NEW v \in SUBSET Bits, NEW t \in Seq(Ops)
      PROVE  LET c == Cons(<<"write", v>>, t)
             IN  /\ c # <<>> /\ Head(c) = <<"write", v>> /\ Tail(c) = t /\ c \in Seq(Ops)
                 /\ \A name : Has(c, name) <=> name = "write" \/ Has(t, name)
  <2> DEFINE c == Cons(<<"write", v>>, t)
  <2>1. IsCons(c, <<"write", v>>, t, TRUE)
    BY OpsIn, ConsAll
  <2> HIDE DEF c
  <2> QED BY <2>1 DEF IsCons, c
<1>2. \A v \in SUBSET Bits : v \cup {"pin"} \in SUBSET Bits
  BY DEF Bits
<1>3. PICK v \in SUBSET Bits :
        \/ Aims(v) /\ \E end \in {<<>>, SetUpEnd} : s = Cons(<<"write", v>>, end)
        \/ Aims(v) /\ s = Cons(<<"write", v>>, Cons(<<"write", v \cup {"pin"}>>, <<>>))
        \/ s = Cons(<<"write", v \cup {"pin"}>>, <<>>)
  BY DEF Final
<1>4. CASE Aims(v) /\ \E end \in {<<>>, SetUpEnd} : s = Cons(<<"write", v>>, end)
  <2>1. PICK end \in {<<>>, SetUpEnd} : s = Cons(<<"write", v>>, end)
    BY <1>4
  <2>2. /\ s # <<>> /\ Head(s) = <<"write", v>> /\ Tail(s) = end
        /\ \A name : Has(s, name) <=> name = "write" \/ Has(end, name)
    BY <1>0, <1>1, <2>1
  <2>3. \A name : Has(end, name) => name \in {"force", "restorePrev"}
    BY Ended, Empty
  <2>4. Has(end, "restorePrev") => Has(end, "force")
    BY Ended, Empty
  <2>5. Head(s)[1] = "write" /\ Head(s)[2] = v
    BY <2>2
  <2>6. Aims(Head(s)[2]) /\ Tail(s) \in {<<>>, SetUpEnd}
    BY <1>4, <2>2, <2>5
  <2>7. /\ \A name : Has(s, name) => name \in {"write", "force", "restorePrev"}
        /\ Has(s, "restorePrev") => Has(s, "force")
    BY <2>2, <2>3, <2>4
  <2> QED BY <2>2, <2>5, <2>6, <2>7
<1>5. CASE Aims(v) /\ s = Cons(<<"write", v>>, Cons(<<"write", v \cup {"pin"}>>, <<>>))
  <2> DEFINE t == Cons(<<"write", v \cup {"pin"}>>, <<>>)
  <2>1. t \in Seq(Ops) /\ \A name : Has(t, name) <=> name = "write"
    BY <1>0, <1>1, <1>2, Empty
  <2>2. /\ s # <<>> /\ Head(s) = <<"write", v>> /\ Tail(s) = t
        /\ \A name : Has(s, name) <=> name = "write"
    <3> HIDE DEF t
    <3> QED BY <1>1, <1>5, <2>1 DEF t
  <2>3. Head(s)[1] = "write" /\ Head(s)[2] = v
    BY <2>2
  <2>4. Aims(Head(s)[2]) /\ \E u \in SUBSET Bits : Tail(s) = Cons(<<"write", u \cup {"pin"}>>, <<>>)
    BY <1>5, <2>2, <2>3
  <2> HIDE DEF t
  <2> QED BY <2>2, <2>3, <2>4
<1>6. CASE s = Cons(<<"write", v \cup {"pin"}>>, <<>>)
  <2>1. /\ s # <<>> /\ Head(s) = <<"write", v \cup {"pin"}>> /\ Tail(s) = <<>>
        /\ \A name : Has(s, name) <=> name = "write"
    BY <1>0, <1>1, <1>2, <1>6, Empty
  <2> QED BY <2>1
<1> QED BY <1>3, <1>4, <1>5, <1>6

\* It stays the end of a restore.
LEMMA FinalNext ==
  ASSUME NEW s, Final(s), UNCHANGED <<fddMode, asked>>
  PROVE  Final(s)'
BY DEF Final, Aims, Goal

\* What HoldInv says of a call that is under way.
LEMMA Holding ==
  ASSUME HoldInv, ~outrun, asked # "NONE", ~Pending, todo # <<>>
  PROVE  /\ "pin" \notin config1 /\ Kept
         /\ Has(todo, "restoreSaved") => ~pinCtl \/ ~Has(todo, "restorePrev")
BY DEF HoldInv

\* An access that has nothing to do with the state.
LEMMA QuietHold ==
  ASSUME Rest, HoldInv, todo # <<>>, Head(todo)[1] \in {"track", "run", "try"},
         todo' = Tail(todo),
         UNCHANGED <<plat, config1, fddMode, state, saved, prev, pinCtl, asked, outrun>>
  PROVE  HoldInv'
<1> SUFFICES ASSUME ~outrun', asked' # "NONE", ~Pending'
             PROVE  /\ "pin" \in config1' => todo' = <<>>
                    /\ Has(todo', "restoreSaved") => ~pinCtl' \/ ~Has(todo', "restorePrev")
                    /\ Kept'
  BY DEF HoldInv
<1>1. \A name : Has(todo, name) <=> Head(todo)[1] = name \/ Has(todo', name)
  BY Running DEF Rest, IsCons
<1>2. \A name : name \notin {"track", "run", "try"} => (Has(todo', name) <=> Has(todo, name))
  BY <1>1
<1>3. ~Pending
  BY <1>2 DEF Pending
<1>4. /\ "pin" \notin config1 /\ Kept
      /\ Has(todo, "restoreSaved") => ~pinCtl \/ ~Has(todo, "restorePrev")
  BY <1>3, Holding
<1>5. ~Has(todo, "save")
  BY <1>4 DEF Kept, At
<1>6. InChip => ~Has(todo, "write")
  <2>1. SUFFICES ASSUME InChip, Has(todo, "write") PROVE FALSE
    OBVIOUS
  <2>2. Final(todo) \/ Head(todo) = <<"write", Alert>>
    BY <1>4, <2>1 DEF Kept
  <2>3. Head(todo)[1] = "write"
    BY <2>2, FinalHead
  <2> QED BY <2>3
<1>7. InChip => Heading /\ ~Has(todo, "poll")
  BY <1>4, <1>6 DEF Kept
<1>8. /\ InSaved' <=> InSaved
      /\ InPrev' <=> InPrev
      /\ InChip' <=> InChip
  BY <1>2 DEF InSaved, InPrev, InChip
<1>9. Heading' <=> Heading
  BY DEF Heading, Goal
<1>10. Kept'
  BY <1>2, <1>4, <1>5, <1>6, <1>7, <1>8, <1>9 DEF Kept
<1> QED BY <1>2, <1>4, <1>10

\* The flush ends, or the pins move the chip.
LEMMA ChipHold ==
  ASSUME TypeOK, HoldInv, FlushEnd \/ PinMove
  PROVE  HoldInv'
<1> SUFFICES ASSUME ~outrun', asked' # "NONE", ~Pending'
             PROVE  /\ "pin" \in config1' => todo' = <<>>
                    /\ Has(todo', "restoreSaved") => ~pinCtl' \/ ~Has(todo', "restorePrev")
                    /\ Kept'
  BY DEF HoldInv
<1>1. UNCHANGED <<plat, config1, fddMode, saved, prev, pinCtl, asked, outrun, todo>>
  BY DEF FlushEnd, PinMove, phy, ghosts
<1>2. asked # "NONE" /\ ~outrun /\ ~Pending
  BY <1>1 DEF Pending
<1>3. /\ "pin" \in config1 => todo = <<>>
      /\ Has(todo, "restoreSaved") => ~pinCtl \/ ~Has(todo, "restorePrev")
      /\ Kept
  BY <1>2 DEF HoldInv
<1>4. /\ InSaved' <=> InSaved
      /\ InPrev' <=> InPrev
      /\ InChip' <=> InChip
  BY <1>1 DEF InSaved, InPrev, InChip
<1>5. asked # "FLUSH"
  BY DEF TypeOK, Active
<1>6. CASE "pin" \in config1
  <2>1. todo = <<>> /\ todo' = <<>>
    BY <1>1, <1>3, <1>6
  <2>2. Heading'
    BY <1>1, <1>6 DEF Heading
  <2>3. Kept'
    BY <2>1, <2>2, Empty DEF Kept, InSaved, InPrev
  <2> QED BY <2>1, <2>3, Empty
<1>7. CASE "pin" \notin config1
  <2>1. state = "FLUSH" /\ state' = Goal(config1)
    BY <1>7 DEF FlushEnd, PinMove
  <2>2. At("save") => At("save")'
    BY <1>1 DEF At
  <2>3. Heading => Heading'
    BY <1>1, <1>7, <2>1 DEF Heading, Goal
  <2>4. Final(todo) => Final(todo)'
    <3>1. ASSUME Final(todo) PROVE Final(todo)'
      <4>1. PICK s : s = todo
        OBVIOUS
      <4>2. Final(s)'
        BY <1>1, <3>1, <4>1, FinalNext
      <4> QED BY <1>1, <4>1, <4>2 DEF Final
    <3> QED BY <3>1
  <2>5. Final(Tail(todo)) => Final(Tail(todo))'
    BY <1>1 DEF Final, Aims, Goal
  <2>7. Kept'
    BY <1>1, <1>3, <1>4, <2>2, <2>3, <2>4, <2>5 DEF Kept
  <2> QED BY <1>1, <1>3, <2>7
<1> QED BY <1>6, <1>7

\* The user's next call.
LEMMA CallHold ==
  ASSUME TypeOK, HoldInv, UserCalls
  PROVE  /\ HoldInv'
         /\ ~(Pending' /\ Has(todo', "save")) /\ ~Starts(todo', {"done"})
<1>0. plat.fdd \in BOOLEAN /\ plat.pinCtrl \in BOOLEAN
  BY DEF TypeOK
<1>1. PICK program : Call(program) /\ Program(program, plat.fdd) /\ UserCall(program)
  BY <1>0, UserPrograms, CallShapes
     DEF UserCalls, Wanted, ClkMuxSetParent, RssiGainStepCalib, TimingAnalysis
<1>2. /\ todo = <<>> /\ todo' = program
      /\ asked' = IF "pin" \in config1 THEN "NONE" ELSE asked
      /\ UNCHANGED <<plat, config1, fddMode, state, saved, prev, pinCtl, outrun>>
  BY <1>1 DEF Call, chip, phy
<1>3. UserCall(todo') /\ ~Has(todo', "done") /\ ~Starts(todo', {"done"})
  BY <1>1, <1>2 DEF Program, Fresh, Starts
<1>4. ~(Pending' /\ Has(todo', "save"))
  <2>1. Starts(todo', {"save"}) => ~Starts(todo', {"state"})
    BY DEF Starts
  <2> QED BY <1>3 DEF UserCall, Pending
<1>5. HoldInv'
  <2> SUFFICES ASSUME ~outrun', asked' # "NONE", ~Pending'
               PROVE  /\ "pin" \in config1' => todo' = <<>>
                      /\ Has(todo', "restoreSaved") => ~pinCtl' \/ ~Has(todo', "restorePrev")
                      /\ Kept'
    BY DEF HoldInv
  <2>1. "pin" \notin config1 /\ asked' = asked /\ asked # "NONE" /\ ~outrun
    BY <1>2
  <2>2. ~Pending /\ Heading
    <3>1. ~Pending
      BY <1>2, Empty DEF Pending
    <3>2. Kept /\ InChip /\ ~Has(todo, "write")
      BY <1>2, <2>1, <3>1, Empty DEF HoldInv, InChip
    <3> QED BY <3>1, <3>2 DEF Kept
  <2>4. Heading'
    BY <1>2, <2>1, <2>2 DEF Heading, Goal
  <2>5. Has(todo', "restoreSaved") => ~Has(todo', "restorePrev")
    BY <1>3 DEF UserCall, Pending
  <2>6. CASE Starts(todo', {"save"}) /\ Has(todo', "restoreSaved")
    <3>1. Has(todo', "save")
      <4>1. todo' # <<>> /\ Head(todo')[1] = "save" /\ todo' \in Seq(Ops)
        BY <1>1, <1>2, <2>6 DEF Starts, Program
      <4> QED BY <4>1 DEF Has
    <3>2. Kept'
      BY <1>2, <2>1, <2>4, <2>6, <3>1 DEF Kept, InSaved, InPrev, InChip, At, Starts
    <3> QED BY <1>2, <2>1, <2>5, <3>2
  <2>7. CASE /\ \A name \in {"save", "restoreSaved", "write", "poll", "state"} : ~Has(todo', name)
             /\ Has(todo', "restorePrev") => Has(todo', "force")
    <3>1. Kept'
      BY <1>2, <2>1, <2>4, <2>7 DEF Kept, InSaved, InPrev, InChip
    <3> QED BY <1>2, <2>1, <2>5, <3>1
  <2> QED BY <1>3, <2>6, <2>7 DEF UserCall, Pending
<1> QED BY <1>3, <1>4, <1>5

\* A write of CONFIG_1.
LEMMA WriteHold ==
  ASSUME TypeOK, Rest, AskedInv, HoldInv, Write
  PROVE  HoldInv'
<1> SUFFICES ASSUME ~outrun', asked' # "NONE", ~Pending'
             PROVE  /\ "pin" \in config1' => todo' = <<>>
                    /\ Has(todo', "restoreSaved") => ~pinCtl' \/ ~Has(todo', "restorePrev")
                    /\ Kept'
  BY DEF HoldInv
<1>1. /\ todo # <<>> /\ Head(todo)[1] = "write" /\ Then(<<>>)
      /\ config1' = Arg /\ state' = After(Arg)
      /\ UNCHANGED <<plat, fddMode, clocks, saved, prev, pinCtl, asked, outrun>>
  BY DEF Write, At, phy, ghosts
<1>2. todo' = Tail(todo)
  BY <1>1, Dropped
<1>3. \A name : Has(todo, name) <=> Head(todo)[1] = name \/ Has(todo', name)
  BY <1>1, <1>2, Running DEF Rest, IsCons
<1>4. \A name : name # "write" => (Has(todo', name) <=> Has(todo, name))
  BY <1>1, <1>3
<1>5. ~Pending /\ Has(todo, "write")
  BY <1>1, <1>3, <1>4 DEF Pending
<1>6. /\ "pin" \notin config1 /\ Kept
      /\ Has(todo, "restoreSaved") => ~pinCtl \/ ~Has(todo, "restorePrev")
  BY <1>1, <1>5, Holding
<1>7. ~Has(todo, "save") /\ ~Has(todo', "save") /\ ~Has(todo', "done")
  BY <1>1, <1>4, <1>5, <1>6 DEF Kept, At, Pending
<1>8. "pin" \in Arg => ~InSaved /\ ~InPrev
  <2>1. Follows(Head(todo), Tail(todo), plat.fdd)
    BY <1>1, Running DEF Rest
  <2>2. "pin" \in Arg => Ends(todo')
    BY <1>1, <1>2, <2>1 DEF Follows, Requests, Arg
  <2> QED BY <1>4, <1>7, <2>2 DEF Ends, InSaved, InPrev
<1>9. CASE InSaved \/ InPrev
  <2>1. InSaved' \/ InPrev'
    BY <1>4, <1>9 DEF InSaved, InPrev
  <2>2. Kept'
    BY <1>1, <1>4, <1>6, <1>7, <2>1 DEF Kept, InSaved, InPrev, InChip
  <2> QED BY <1>1, <1>4, <1>6, <1>8, <1>9, <2>2
<1>10. CASE InChip
  <2>0. InChip' /\ ~InSaved' /\ ~InPrev'
    BY <1>4, <1>10 DEF InSaved, InPrev, InChip
  <2>1. CASE Head(todo) = <<"write", Alert>> /\ Final(Tail(todo))
    <3>1. Arg = Alert /\ "pin" \notin Alert
      BY <2>1 DEF Arg, Alert
    <3>2. Has(todo', "write")
      BY <1>2, <2>1, FinalHead
    <3>3. Final(todo)'
      BY <1>1, <1>2, <2>1 DEF Final, Aims, Goal
    <3>4. Kept'
      BY <1>7, <2>0, <3>2, <3>3 DEF Kept
    <3> QED BY <1>1, <1>4, <1>6, <3>1, <3>4
  <2>2. CASE Final(todo)
    <3>1. \/ Aims(Arg) /\ todo' \in {<<>>, SetUpEnd}
          \/ Aims(Arg) /\ \E v \in SUBSET Bits : todo' = Cons(<<"write", v \cup {"pin"}>>, <<>>)
          \/ "pin" \in Arg /\ todo' = <<>>
      BY <1>2, <2>2, FinalHead DEF Arg
    <3>2. CASE Aims(Arg) /\ todo' \in {<<>>, SetUpEnd}
      <4>1. ~Has(todo', "write") /\ ~Has(todo', "poll") /\ ~Has(todo', "clocks")
        BY <3>2, Ended, Empty
      <4>2. clocks
        <5>1. ~Has(todo, "clocks") /\ ~Has(todo, "done")
          BY <1>4, <1>7, <4>1
        <5>2. curr # "SLEEP"
          BY <1>1 DEF AskedInv, TypeOK, Active
        <5> QED BY <5>1, <5>2 DEF Rest, ClocksInv
      <4>3. "pin" \notin Arg /\ Goal(Arg) = asked
        BY <3>2 DEF Aims
      <4>4. state' \in {"FLUSH", asked}
        BY <1>1, <4>2, <4>3 DEF After
      <4>5. Goal(config1)' = asked
        BY <1>1, <4>3 DEF Goal
      <4>6. Heading'
        BY <1>1, <4>4, <4>5 DEF Heading
      <4>7. Kept'
        BY <1>7, <2>0, <4>1, <4>6 DEF Kept
      <4> QED BY <1>1, <1>4, <1>6, <4>3, <4>7
    <3>3. CASE Aims(Arg) /\ \E v \in SUBSET Bits : todo' = Cons(<<"write", v \cup {"pin"}>>, <<>>)
      <4>1. Final(todo)'
        BY <3>3 DEF Final
      <4>2. "pin" \notin Arg
        BY <3>3 DEF Aims
      <4>3. Has(todo', "write")
        <5>1. PICK v \in SUBSET Bits : todo' = Cons(<<"write", v \cup {"pin"}>>, <<>>)
          BY <3>3
        <5>2. <<"write", v \cup {"pin"}>> \in Ops
          <6>1. v \cup {"pin"} \in SUBSET Bits
            BY DEF Bits
          <6> QED BY <6>1, OpsIn
        <5>3. IsCons(todo', <<"write", v \cup {"pin"}>>, <<>>, TRUE)
          BY <5>1, <5>2, Empty, ConsAll
        <5> QED BY <5>3 DEF IsCons
      <4>4. Kept'
        BY <1>7, <2>0, <4>1, <4>3 DEF Kept
      <4> QED BY <1>1, <1>4, <1>6, <4>2, <4>4
    <3>4. CASE "pin" \in Arg /\ todo' = <<>>
      <4>1. Heading'
        BY <1>1, <3>4 DEF Heading
      <4>2. Kept'
        BY <1>7, <2>0, <3>4, <4>1, Empty DEF Kept
      <4> QED BY <3>4, <4>2, Empty
    <3> QED BY <3>1, <3>2, <3>3, <3>4
  <2> QED BY <1>5, <1>6, <1>10, <2>1, <2>2 DEF Kept
<1>11. InSaved \/ InPrev \/ InChip
  BY <1>7 DEF InSaved, InPrev, InChip
<1> QED BY <1>9, <1>10, <1>11

\* A poll of the state.
LEMMA PollHold ==
  ASSUME Rest, HoldInv, Poll
  PROVE  HoldInv'
<1> SUFFICES ASSUME ~outrun', asked' # "NONE", ~Pending'
             PROVE  /\ "pin" \in config1' => todo' = <<>>
                    /\ Has(todo', "restoreSaved") => ~pinCtl' \/ ~Has(todo', "restorePrev")
                    /\ Kept'
  BY DEF HoldInv
<1>1. /\ todo # <<>> /\ Head(todo)[1] = "poll" /\ Then(<<>>) /\ state # "FLUSH"
      /\ UNCHANGED <<plat, config1, fddMode, state, saved, prev, pinCtl, asked, outrun>>
  BY DEF Poll, At, phy, ghosts, chip
<1>2. todo' = Tail(todo)
  BY <1>1, Dropped
<1>3. \A name : Has(todo, name) <=> Head(todo)[1] = name \/ Has(todo', name)
  BY <1>1, <1>2, Running DEF Rest, IsCons
<1>4. \A name : name # "poll" => (Has(todo', name) <=> Has(todo, name))
  BY <1>1, <1>3
<1>5. ~Pending
  BY <1>4 DEF Pending
<1>6. /\ "pin" \notin config1 /\ Kept
      /\ Has(todo, "restoreSaved") => ~pinCtl \/ ~Has(todo, "restorePrev")
  BY <1>1, <1>5, Holding
<1>7. ~Has(todo, "save")
  BY <1>1, <1>6 DEF Kept, At
<1>8. InChip => ~Has(todo, "write")
  <2>1. SUFFICES ASSUME InChip, Has(todo, "write") PROVE FALSE
    OBVIOUS
  <2>2. Final(todo) \/ Head(todo) = <<"write", Alert>>
    BY <1>6, <2>1 DEF Kept
  <2>3. Head(todo)[1] = "write"
    BY <2>2, FinalHead
  <2> QED BY <1>1, <2>3
<1>9. ~InChip
  BY <1>1, <1>3, <1>6, <1>8 DEF Kept
<1>11. /\ InSaved' <=> InSaved
       /\ InPrev' <=> InPrev
       /\ InChip' <=> InChip
  BY <1>4 DEF InSaved, InPrev, InChip
<1>12. Kept'
  BY <1>1, <1>4, <1>6, <1>7, <1>9, <1>11 DEF Kept
<1> QED BY <1>1, <1>4, <1>6, <1>12

\* ad9361_ensm_force_state
LEMMA ForceHold ==
  ASSUME TypeOK, Rest, ForcedInv, HoldInv, ForceState
  PROVE  HoldInv'
<1> SUFFICES ASSUME ~outrun', asked' # "NONE", ~Pending'
             PROVE  /\ "pin" \in config1' => todo' = <<>>
                    /\ Has(todo', "restoreSaved") => ~pinCtl' \/ ~Has(todo', "restorePrev")
                    /\ Kept'
  BY DEF HoldInv
<1>1. /\ todo # <<>> /\ Head(todo)[1] = "force" /\ prev' = state
      /\ pinCtl' \in {pinCtl, ("pin" \in config1)}
      /\ ~outrun /\ state # "FLUSH"
      /\ UNCHANGED <<plat, config1, fddMode, saved, state, asked>>
  BY DEF ForceState, Sees, TypeOK, At, chip
<1>2. Same(todo', Tail(todo), plat.fdd)
  BY ForceStep
<1>3. /\ \A name : Has(todo, name) <=> Head(todo)[1] = name \/ Has(Tail(todo), name)
      /\ Follows(Head(todo), Tail(todo), plat.fdd)
  BY <1>1, Running DEF Rest, IsCons
<1>4. \A name \in {"save", "restoreSaved", "restorePrev", "state", "done"} :
        Has(todo', name) <=> Has(todo, name)
  BY <1>1, <1>2, <1>3 DEF Same
<1>5. ~Pending
  BY <1>4 DEF Pending
<1>6. /\ "pin" \notin config1 /\ Kept
      /\ Has(todo, "restoreSaved") => ~pinCtl \/ ~Has(todo, "restorePrev")
  BY <1>1, <1>5, Holding
<1>7. ~Has(todo, "save") /\ Has(todo, "force")
  BY <1>1, <1>3, <1>6 DEF Kept, At
<1>8. Has(todo, "restoreSaved") => Kept'
  BY <1>1, <1>4, <1>6, <1>7 DEF Kept, InSaved, InPrev, InChip
<1>9. ASSUME ~Has(todo, "restoreSaved")
      PROVE  Kept'
  <2>1. InChip
    BY <1>7, <1>9 DEF InChip
  <2>2. ~Has(todo, "write")
    <3>1. SUFFICES ASSUME Has(todo, "write") PROVE FALSE
      OBVIOUS
    <3>2. Final(todo) \/ Head(todo) = <<"write", Alert>>
      BY <1>6, <2>1, <3>1 DEF Kept
    <3>3. Head(todo)[1] = "write"
      BY <3>2, FinalHead
    <3> QED BY <1>1, <3>3
  <2>3. state = asked
    <3>1. Heading
      BY <1>6, <2>1, <2>2 DEF Kept
    <3> QED BY <1>1, <1>6, <3>1 DEF Heading
  <2>4. ~Has(Tail(todo), "force") /\ Has(Tail(todo), "restorePrev")
    BY <1>1, <1>3, <1>9 DEF Follows, Returns
  <2>5. ~Has(todo', "force") /\ Has(todo', "restorePrev")
    BY <1>2, <2>4 DEF Same
  <2> QED BY <1>1, <1>4, <1>7, <1>9, <2>3, <2>5 DEF Kept, InSaved, InPrev, InChip
<1>10. ~pinCtl => ~pinCtl'
  BY <1>1, <1>6
<1> QED BY <1>1, <1>4, <1>6, <1>8, <1>9, <1>10

\* ad9361_ensm_restore_state
LEMMA RestoreHold ==
  ASSUME TypeOK, Rest, AskedInv, HoldInv, RestoreState
  PROVE  HoldInv'
<1> SUFFICES ASSUME ~outrun', asked' # "NONE", ~Pending'
             PROVE  /\ "pin" \in config1' => todo' = <<>>
                    /\ Has(todo', "restoreSaved") => ~pinCtl' \/ ~Has(todo', "restorePrev")
                    /\ Kept'
  BY DEF HoldInv
<1>1. /\ todo # <<>> /\ Head(todo)[1] \in {"restorePrev", "restoreSaved"}
      /\ Then(Restoring(IF Head(todo)[1] = "restorePrev" THEN prev ELSE saved))
      /\ UNCHANGED <<plat, config1, fddMode, clocks, saved, prev, pinCtl, state, asked, outrun>>
  BY DEF RestoreState, At, chip, phy
<1> DEFINE T == Tail(todo)
<1>2. /\ \A name : Has(todo, name) <=> Head(todo)[1] = name \/ Has(T, name)
      /\ T \in {<<>>, SetUpEnd} /\ T \in Seq(Ops) /\ (Head(todo)[1] = "restorePrev" => T = <<>>)
  <2>1. Follows(Head(todo), Tail(todo), plat.fdd)
    BY <1>1, Running DEF Rest
  <2>2. T \in Seq(Ops) /\ \A name : Has(todo, name) <=> Head(todo)[1] = name \/ Has(T, name)
    BY <1>1, Running DEF Rest, IsCons
  <2> QED BY <1>1, <2>1, <2>2 DEF Follows, Returns
<1>3. \A name : Has(T, name) => name \in {"force", "restorePrev"}
  BY <1>2, Ended, Empty
<1>4. ~Pending /\ ~Has(todo, "mode") /\ ~Has(todo, "save")
  BY <1>1, <1>2, <1>3 DEF Pending
<1>5. /\ "pin" \notin config1 /\ Kept
      /\ Has(todo, "restoreSaved") => ~pinCtl \/ ~Has(todo, "restorePrev")
  BY <1>1, <1>4, Holding
<1>6. Then(Restoring(asked))
  <2>1. CASE Head(todo)[1] = "restorePrev"
    <3>1. T = <<>>
      BY <1>2, <2>1
    <3>2. ~Has(todo, "restoreSaved") /\ ~Has(todo, "force") /\ Has(todo, "restorePrev")
      BY <1>2, <2>1, <3>1, Empty
    <3>3. prev = asked
      BY <1>4, <1>5, <3>2 DEF Kept, InPrev
    <3> QED BY <1>1, <2>1, <3>3
  <2>2. CASE Head(todo)[1] = "restoreSaved"
    <3>1. saved = asked
      BY <1>2, <1>4, <1>5, <2>2 DEF Kept, InSaved
    <3> QED BY <1>1, <2>2, <3>1
  <2> QED BY <1>1, <2>1, <2>2
<1>7. pinCtl => T = <<>>
  <2>1. Head(todo)[1] = "restoreSaved" /\ pinCtl => ~Has(T, "restorePrev")
    BY <1>2, <1>5
  <2>2. T = SetUpEnd => Has(T, "restorePrev")
    BY Ended
  <2> QED BY <1>1, <1>2, <2>1, <2>2
<1> DEFINE w(v, t) == Cons(<<"write", v>>, t)
           val == Restored(asked)
           f == w(val, IF pinCtl THEN w(val \cup {"pin"}, T) ELSE T)
<1>8. val \in SUBSET Bits
  BY DEF Restored, Bits, TypeOK
<1>9. Aims(val)
  <2>1. fddMode = plat.fdd
    BY <1>4 DEF Rest, DuplexInv
  <2>2. asked \in Active \cup {"ALERT"} /\ Fits(asked)
    BY <1>1 DEF TypeOK, AskedInv
  <2>3. "pin" \notin val
    BY <1>5 DEF Restored
  <2>4. Goal(val) = asked
    <3>1. CASE asked = "ALERT"
      <4>1. val \cap {"tx", "rx"} = {} /\ "toAlert" \in val
        BY <3>1 DEF Restored
      <4> QED BY <3>1, <4>1 DEF Goal, Alert
    <3>2. CASE asked \in {"TX", "FDD"}
      <4>1. "tx" \in val
        BY <3>2 DEF Restored
      <4> QED BY <2>1, <2>2, <3>2, <4>1 DEF Goal, Fits
    <3>3. CASE asked = "RX"
      <4>1. "tx" \notin val /\ "rx" \in val
        BY <3>3 DEF Restored
      <4> QED BY <2>1, <2>2, <3>3, <4>1 DEF Goal, Fits
    <3> QED BY <2>2, <3>1, <3>2, <3>3 DEF Active
  <2> QED BY <2>3, <2>4 DEF Aims
<1>10. todo' = w(Alert, f)
  <2>1. todo' = Restoring(asked) \o T
    BY <1>6 DEF Then
  <2>2. asked \in Active \cup {"ALERT"}
    BY <1>1 DEF TypeOK
  <2> QED BY <1>2, <2>1, <2>2, RestoreShape DEF TypeOK
<1> HIDE DEF val
<1>11. Final(f)
  <2>1. CASE pinCtl
    <3>1. f = Cons(<<"write", val>>, Cons(<<"write", val \cup {"pin"}>>, <<>>))
      BY <1>7, <2>1
    <3> HIDE DEF f
    <3> QED BY <1>8, <1>9, <3>1 DEF Final
  <2>2. CASE ~pinCtl
    <3>1. f = Cons(<<"write", val>>, T)
      BY <2>2
    <3> HIDE DEF f
    <3> QED BY <1>2, <1>8, <1>9, <3>1 DEF Final
  <2> QED BY <2>1, <2>2
<1>12. f \in Seq(Ops)
  <2>1. val \cup {"pin"} \in SUBSET Bits
    BY <1>8 DEF Bits
  <2> QED BY <1>2, <1>8, <2>1, OpsIn, ConsFacts
<1> HIDE DEF f, T
<1>13. /\ Head(todo') = <<"write", Alert>> /\ Tail(todo') = f
       /\ \A name : Has(todo', name) <=> name = "write" \/ Has(f, name)
  <2>1. <<"write", Alert>> \in Ops
    BY OpsIn DEF Alert, Bits
  <2>2. IsCons(todo', <<"write", Alert>>, f, TRUE)
    BY <1>10, <1>12, <2>1, ConsAll
  <2> QED BY <2>2 DEF IsCons
<1>14. /\ \A name : Has(todo', name) => name \in {"write", "force", "restorePrev"}
       /\ Has(todo', "restorePrev") => Has(todo', "force")
  BY <1>11, <1>13, FinalHead
<1>15. PICK end : end = f
  OBVIOUS
<1>16. Final(Tail(todo))'
  <2>1. Final(end)'
    BY <1>1, <1>11, <1>15, FinalNext
  <2>2. Tail(todo)' = end
    BY <1>13, <1>15
  <2> QED BY <2>1, <2>2 DEF Final
<1>17. Kept'
  BY <1>13, <1>14, <1>16 DEF Kept, InSaved, InPrev, InChip
<1> QED BY <1>1, <1>5, <1>14, <1>17

\* ad9361_set_ensm_mode
LEMMA ModeHold ==
  ASSUME Rest, HoldInv, SetEnsmMode
  PROVE  HoldInv'
<1> SUFFICES ASSUME ~outrun', asked' # "NONE", ~Pending'
             PROVE  /\ "pin" \in config1' => todo' = <<>>
                    /\ Has(todo', "restoreSaved") => ~pinCtl' \/ ~Has(todo', "restorePrev")
                    /\ Kept'
  BY DEF HoldInv
<1>1. /\ todo # <<>> /\ Head(todo)[1] = "mode" /\ Then(<<>>)
      /\ config1' \in {config1, {"tx", "rx"}}
      /\ UNCHANGED <<plat, saved, prev, pinCtl, asked, outrun>>
  BY DEF SetEnsmMode, At, phy, ghosts
<1>2. todo' = Tail(todo)
  BY <1>1, Dropped
<1>3. /\ \A name : Has(todo, name) <=> Head(todo)[1] = name \/ Has(todo', name)
      /\ Follows(Head(todo), todo', plat.fdd)
  BY <1>1, <1>2, Running DEF Rest, IsCons
<1>4. ~Pending /\ Has(todo', "restoreSaved")
  BY <1>1, <1>3 DEF Follows, Returns, Pending
<1>5. /\ "pin" \notin config1 /\ Kept
      /\ Has(todo, "restoreSaved") => ~pinCtl \/ ~Has(todo, "restorePrev")
  BY <1>1, <1>4, Holding
<1>6. ~Has(todo, "save") /\ ~Has(todo', "save") /\ saved = asked
  BY <1>1, <1>3, <1>4, <1>5 DEF Kept, At, InSaved
<1>7. Kept'
  BY <1>1, <1>4, <1>6 DEF Kept, InSaved, InPrev, InChip
<1> QED BY <1>1, <1>3, <1>5, <1>7

\* The save of a tuning.
LEMMA SaveHold ==
  ASSUME TypeOK, Rest, HoldInv, Save
  PROVE  HoldInv'
<1> SUFFICES ASSUME ~outrun', asked' # "NONE", ~Pending'
             PROVE  /\ "pin" \in config1' => todo' = <<>>
                    /\ Has(todo', "restoreSaved") => ~pinCtl' \/ ~Has(todo', "restorePrev")
                    /\ Kept'
  BY DEF HoldInv
<1>1. /\ todo # <<>> /\ Head(todo)[1] = "save" /\ Then(<<>>) /\ saved' = state
      /\ ~outrun /\ state # "FLUSH"
      /\ UNCHANGED <<plat, config1, state, prev, pinCtl, asked>>
  BY DEF Save, Sees, TypeOK, At, chip
<1>2. todo' = Tail(todo)
  BY <1>1, Dropped
<1>3. /\ \A name : Has(todo, name) <=> Head(todo)[1] = name \/ Has(todo', name)
      /\ Follows(Head(todo), todo', plat.fdd)
  BY <1>1, <1>2, Running DEF Rest, IsCons
<1>4. /\ ~Pending /\ Has(todo', "restoreSaved") /\ ~Has(todo', "save") /\ Has(todo, "save")
      /\ Has(todo, "restoreSaved")
  BY <1>1, <1>3 DEF Follows, Returns, Pending
<1>5. /\ "pin" \notin config1 /\ Kept
      /\ Has(todo, "restoreSaved") => ~pinCtl \/ ~Has(todo, "restorePrev")
  BY <1>1, <1>4, Holding
<1>6. saved' = asked
  BY <1>1, <1>4, <1>5 DEF Kept, Heading
<1>7. Kept'
  BY <1>1, <1>4, <1>6 DEF Kept, InSaved, InPrev, InChip
<1> QED BY <1>1, <1>3, <1>5, <1>7

\* The other registers.
LEMMA RegistersHold ==
  ASSUME Rest, HoldInv, Registers
  PROVE  HoldInv'
<1>1. /\ todo # <<>> /\ Head(todo)[1] \in {"clocks", "synth", "track"} /\ Then(<<>>)
      /\ UNCHANGED <<plat, config1, fddMode, saved, prev, pinCtl, asked, outrun>>
  BY DEF Registers, At, phy
<1>2. todo' = Tail(todo)
  BY <1>1, Dropped
<1>3. CASE Head(todo)[1] = "track"
  <2>1. state' = state
    BY <1>3 DEF Registers, At
  <2> QED BY <1>1, <1>2, <1>3, <2>1, QuietHold
<1>4. CASE Head(todo)[1] # "track"
  <2>1. Follows(Head(todo), todo', plat.fdd)
    BY <1>1, <1>2, Running DEF Rest
  <2>2. Has(todo', "done")
    BY <1>1, <1>4, <2>1 DEF Follows, Settles, Requests
  <2> QED BY <2>2 DEF HoldInv, Pending
<1> QED BY <1>3, <1>4

\* ad9361_ensm_set_state, what the state was forced for, and a failure.
LEMMA OtherHold ==
  ASSUME TypeOK, Rest, HoldInv, SetState \/ Run \/ Save \/ Fail
  PROVE  HoldInv'
<1>1. CASE SetState
  <2>1. asked' = "NONE" \/ Has(todo', "done")
    BY <1>1, RequestStep
  <2> QED BY <2>1 DEF HoldInv, Pending
<1>2. CASE Run
  <2>1. /\ todo # <<>> /\ Head(todo)[1] \in {"track", "run", "try"} /\ Then(<<>>)
        /\ UNCHANGED <<plat, config1, fddMode, state, saved, prev, pinCtl, asked, outrun>>
    BY <1>2 DEF Run, At, chip, phy, ghosts
  <2>2. todo' = Tail(todo)
    BY <2>1, Dropped
  <2> QED BY <2>1, <2>2, QuietHold
<1>3. CASE Save
  BY <1>3, SaveHold
<1>4. CASE Fail
  BY <1>4 DEF Fail, HoldInv
<1> QED BY <1>1, <1>2, <1>3, <1>4

\* The bits of a request send the chip to the state that is asked for.
LEMMA RequestAims ==
  ASSUME NEW st \in Active \cup {"ALERT"}, Fits(st), fddMode = plat.fdd
  PROVE  Goal(Request(st, FALSE)) = st /\ "pin" \notin Request(st, FALSE)
<1> DEFINE c == Request(st, FALSE)
<1>1. c = {"toAlert"} \cup (CASE st \in {"TX", "FDD"} -> {"tx"}
                              [] st = "RX" -> {"rx"}
                              [] st = "ALERT" -> {"forceAlert"}
                              [] OTHER -> {})
  BY DEF Request
<1>2. CASE st = "ALERT"
  <2>1. c = {"toAlert", "forceAlert"}
    BY <1>1, <1>2
  <2> HIDE DEF c
  <2> QED BY <1>2, <2>1 DEF Goal, Alert, c
<1>3. CASE st \in {"TX", "FDD"}
  <2>1. c = {"toAlert", "tx"}
    BY <1>1, <1>3
  <2> HIDE DEF c
  <2> QED BY <1>3, <2>1 DEF Goal, Fits, c
<1>4. CASE st = "RX"
  <2>1. c = {"toAlert", "rx"}
    BY <1>1, <1>4
  <2> HIDE DEF c
  <2> QED BY <1>4, <2>1 DEF Goal, Fits, c
<1> QED BY <1>2, <1>3, <1>4 DEF Active

\* What the request of set-up is expanded to: the chip needs no way through ALERT.
LEMMA DirectGrant ==
  ASSUME plat.fdd \in BOOLEAN, NEW s, After1(s, plat.fdd), NEW st \in Wanted \ {"SLEEP"},
         NEW pin \in BOOLEAN, ~Invalid(st), curr # "SLEEP"
  PROVE  LET w == Cons(<<"write", Request(st, pin)>>, Cons(<<"done", st, pin>>, s))
         IN  \/ Setting(st, pin) \o s = w
             \/ \E b \in BOOLEAN : Setting(st, pin) \o s = Cons(<<"synth", b>>, w)
<1> DEFINE b == st = "TX"
           o3 == <<"synth", b>>
           o4 == <<"write", Request(st, pin)>>
           o5 == <<"done", st, pin>>
           B == IF Synth1(st, pin) THEN <<o3>> ELSE <<>>
           C == <<o4, o5>>
           w == Cons(o4, Cons(o5, s))
<1>1. Request(st, pin) \in SUBSET Bits /\ b \in BOOLEAN
  BY DEF Request, Bits
<1>2. o3 \in Ops /\ o4 \in Ops /\ o5 \in Ops /\ s \in Seq(Ops)
  BY <1>1, OpsIn DEF After1
<1>3. WakeUp = <<>> /\ Granting(st, pin) = Cat(Cat(<<>>, B), C)
  BY DEF WakeUp, Granting, Cat
<1>4. Setting(st, pin) = Cat(<<>>, Cat(Cat(<<>>, B), C))
  BY <1>3 DEF Setting, Cat
<1> HIDE DEF o3, o4, o5, b
<1>5. B \in Seq(Ops) /\ C \in Seq(Ops) /\ <<>> \in Seq(Ops)
  BY <1>2
<1>6. Cat(C, s) = w
  <2>1. Two(o4, o5, s)
    BY <1>2, Written2
  <2> QED BY <2>1 DEF Two, Cat
<1>7. w \in Seq(Ops)
  BY <1>2, ConsFacts
<1> DEFINE t == Cat(B, C)
<1> HIDE DEF w, C
<1>8. t \in Seq(Ops) /\ Cat(t, s) = Cat(B, w)
  <2> HIDE DEF B
  <2>1. Cat(B, C) \in Seq(Ops) /\ Cat(Cat(B, C), s) = Cat(B, Cat(C, s))
    BY <1>2, <1>5, Assoc
  <2> QED BY <1>6, <2>1
<1>9. Setting(st, pin) = t
  <2>1. Cat(<<>>, B) = B
    BY <1>5, Assoc
  <2>2. Cat(<<>>, t) = t
    BY <1>5, <1>8, Assoc
  <2> QED BY <1>4, <2>1, <2>2
<1> HIDE DEF t
<1>10. Setting(st, pin) \o s = Cat(B, w)
  BY <1>8, <1>9 DEF Cat
<1>11. CASE Synth1(st, pin)
  <2>1. Cat(B, w) = Cons(o3, w)
    BY <1>11 DEF Cat, Cons
  <2>2. Setting(st, pin) \o s = Cons(o3, w)
    BY <1>10, <2>1
  <2> QED BY <1>1, <2>2 DEF w, o3, o4, o5
<1>12. CASE ~Synth1(st, pin)
  <2>1. Cat(B, w) = w
    <3>1. B = <<>>
      BY <1>12
    <3> QED BY <1>7, <3>1, Assoc
  <2>2. Setting(st, pin) \o s = w
    BY <1>10, <2>1
  <2> QED BY <2>2 DEF w, o4, o5
<1> QED BY <1>11, <1>12

\* What is next in the request of set-up.
LEMMA FirstHead ==
  ASSUME plat.fdd \in BOOLEAN, plat.pinCtrl \in BOOLEAN, NEW s \in Seq(Ops), First(s)
  PROVE  /\ todo # <<>> /\ Head(todo)[1] \in {"state", "write", "synth"}
         /\ Head(todo)[1] = "state" => Head(todo) = FirstRequest /\ Tail(todo) = s
         /\ Head(todo)[1] = "write" =>
              Head(todo) = FirstWrite /\ Tail(todo) = Cons(FirstDone, s)
         /\ Head(todo)[1] = "synth" => Tail(todo) = Cons(FirstWrite, Cons(FirstDone, s))
<1> DEFINE d == Cons(FirstDone, s)
           w == Cons(FirstWrite, d)
<1>1. /\ FirstRequest \in Ops /\ FirstWrite \in Ops /\ FirstDone \in Ops
      /\ \A b \in BOOLEAN : <<"synth", b>> \in Ops
  <2>1. FirstState \in Wanted
    BY DEF FirstState, Wanted, Active
  <2>2. Request(FirstState, plat.pinCtrl) \in SUBSET Bits
    BY DEF Request, Bits
  <2> QED BY <2>1, <2>2, OpsIn DEF FirstRequest, FirstWrite, FirstDone
<1>2. FirstRequest[1] = "state" /\ FirstWrite[1] = "write"
  BY DEF FirstRequest, FirstWrite
<1>3. d \in Seq(Ops)
  BY <1>1, ConsFacts
<1>4. w \in Seq(Ops) /\ w # <<>> /\ Head(w) = FirstWrite /\ Tail(w) = d
  <2> HIDE DEF d
  <2> QED BY <1>1, <1>3, ConsFacts
<1>5. CASE todo = Cons(FirstRequest, s)
  <2>1. todo # <<>> /\ Head(todo) = FirstRequest /\ Tail(todo) = s
    BY <1>1, <1>5, ConsFacts
  <2> QED BY <1>2, <2>1
<1>6. CASE todo = w
  <2> HIDE DEF w
  <2> QED BY <1>2, <1>4, <1>6
<1>7. CASE \E b \in BOOLEAN : todo = Cons(<<"synth", b>>, w)
  <2>1. PICK b \in BOOLEAN : todo = Cons(<<"synth", b>>, w)
    BY <1>7
  <2> HIDE DEF w
  <2>2. todo # <<>> /\ Head(todo) = <<"synth", b>> /\ Tail(todo) = w
    BY <1>1, <1>4, <2>1, ConsFacts
  <2> QED BY <2>2 DEF w
<1> QED BY <1>5, <1>6, <1>7 DEF First

\* The last statement of ad9361_ensm_set_state: the chip is there, or on its way.
LEMMA DoneHold ==
  ASSUME TypeOK, Rest, DoneInv, StartInv, StateSet
  PROVE  HoldInv'
<1> SUFFICES ASSUME ~outrun', asked' # "NONE", ~Pending'
             PROVE  /\ "pin" \in config1' => todo' = <<>>
                    /\ Has(todo', "restoreSaved") => ~pinCtl' \/ ~Has(todo', "restorePrev")
                    /\ Kept'
  BY DEF HoldInv
<1>1. /\ todo # <<>> /\ Head(todo)[1] = "done" /\ Then(<<>>) /\ Arg = Head(todo)[2]
      /\ asked' = Arg /\ Fits(Arg) /\ Arg \in Active \cup {"ALERT"} /\ ~Head(todo)[3]
      /\ UNCHANGED <<plat, config1, fddMode, state, pinCtl>>
  BY DEF StateSet, At, Arg, chip
<1>2. /\ todo' = Tail(todo) /\ Tail(todo) \in Seq(Ops) /\ Head(todo) \in Ops
      /\ IsCons(todo, Head(todo), Tail(todo), plat.fdd)
      /\ Follows(Head(todo), Tail(todo), plat.fdd)
  BY <1>1, Dropped, Running DEF Rest
<1>3. Head(todo)[3] \in BOOLEAN
  BY <1>1, <1>2, OpShape
<1>4. Head(todo)[3] = FALSE
  BY <1>1, <1>3
<1>5. At("done") /\ Arg # "SLEEP"
  BY <1>1 DEF At, Active
<1>6. config1 = Request(Arg, FALSE) /\ ("pin" \notin config1 => state \in {"FLUSH", Goal(config1)})
  <2>1. config1 = Request(Arg, Head(todo)[3])
    BY <1>5 DEF DoneInv
  <2>2. config1 = Request(Arg, FALSE)
    BY <1>4, <2>1, Zenon
  <2> QED BY <1>5, <2>2 DEF DoneInv
<1>7. fddMode = plat.fdd
  BY <1>1, <1>2 DEF IsCons, Rest, DuplexInv
<1>8. Goal(config1) = Arg /\ "pin" \notin config1 /\ state \in {"FLUSH", Arg}
  BY <1>1, <1>6, <1>7, RequestAims
<1>9. Heading'
  BY <1>1, <1>8 DEF Heading, Goal
<1>10. Tail(todo) = <<>> \/ Starts(Tail(todo), {"save"})
  BY <1>1, <1>2 DEF Follows, Requests
<1>11. CASE Tail(todo) = <<>>
  BY <1>1, <1>2, <1>8, <1>9, <1>11, Empty DEF Kept, InSaved, InPrev
<1>12. CASE Starts(Tail(todo), {"save"})
  <2>1. Tail(todo) # <<>> /\ Head(Tail(todo))[1] = "save"
    BY <1>12 DEF Starts
  <2>2. Has(Tail(todo), "save")
    BY <1>2, <2>1 DEF Has
  <2>3. Pending /\ Has(todo, "save")
    BY <1>1, <1>2, <2>2 DEF IsCons, Pending
  <2>4. plat.fdd \in BOOLEAN /\ plat.pinCtrl \in BOOLEAN
    BY DEF TypeOK
  <2>5. ~pinCtl
    BY <1>1, <1>8, <2>3, <2>4, FirstHead DEF StartInv
  <2>6. At("save")' /\ Has(todo', "save")
    BY <1>2, <2>1, <2>2 DEF At
  <2>7. Kept'
    BY <1>1, <1>9, <2>6 DEF Kept, InSaved, InPrev, InChip
  <2> QED BY <1>1, <1>8, <2>5, <2>7
<1> QED BY <1>10, <1>11, <1>12

\* A request is done right after it is written.
LEMMA DoneWritten ==
  ASSUME TypeOK, Rest, ForcedInv, HoldInv, DoneInv, Next
  PROVE  DoneInv'
<1>1. CASE FlushEnd \/ PinMove
  <2>1. UNCHANGED <<config1, fddMode, todo>>
    BY <1>1 DEF FlushEnd, PinMove
  <2>2. "pin" \notin config1 => state = "FLUSH" /\ state' = Goal(config1)
    BY <1>1 DEF FlushEnd, PinMove
  <2> QED BY <2>1, <2>2 DEF DoneInv, At, Arg, Goal
<1>2. CASE UserCalls
  <2>1. ~Starts(todo', {"done"})
    BY <1>2, CallHold
  <2> QED BY <2>1 DEF DoneInv, At, Starts
<1>3. ASSUME Fresh(todo') PROVE DoneInv'
  BY <1>3 DEF DoneInv, At, Fresh, Starts
<1>4. ASSUME todo # <<>>, todo' = Tail(todo), Head(todo)[1] # "write"
      PROVE  DoneInv'
  <2>1. Follows(Head(todo), Tail(todo), plat.fdd)
    BY <1>4, Running DEF Rest
  <2>2. \A v : Head(todo) # <<"write", v>>
    <3>1. \A v : <<"write", v>>[1] = "write"
      OBVIOUS
    <3> QED BY <1>4, <3>1, Zenon
  <2>3. Requests(Head(todo), todo')
    BY <1>4, <2>1 DEF Follows
  <2>4. Starts(todo', {"done"}) /\ Head(todo')[2] # "SLEEP" =>
          Head(todo) = <<"write", Request(Head(todo')[2], Head(todo')[3])>>
    BY <2>3 DEF Requests
  <2>5. Starts(todo', {"done"}) => Head(todo')[2] = "SLEEP"
    BY <2>2, <2>4, Zenon
  <2> QED BY <2>5 DEF DoneInv, At, Arg, Starts
<1>5. CASE Write
  <2>1. /\ todo # <<>> /\ Head(todo)[1] = "write" /\ Then(<<>>)
        /\ config1' = Arg /\ state' = After(Arg)
        /\ UNCHANGED <<plat, fddMode, clocks, curr>>
    BY <1>5 DEF Write, At, phy
  <2>2. /\ todo' = Tail(todo) /\ Tail(todo) \in Seq(Ops) /\ Sound(Tail(todo), plat.fdd)
        /\ IsCons(todo, Head(todo), Tail(todo), plat.fdd)
        /\ Follows(Head(todo), Tail(todo), plat.fdd)
    BY <2>1, Dropped, Running DEF Rest
  <2> SUFFICES ASSUME At("done")', Arg' # "SLEEP"
               PROVE  /\ config1' = Request(Arg', Head(todo')[3])
                      /\ "pin" \notin config1' => state' \in {"FLUSH", Goal(config1)'}
    BY DEF DoneInv
  <2>3. Starts(todo', {"done"}) /\ Arg' = Head(todo')[2]
    BY DEF At, Arg, Starts
  <2>4. Head(todo) = <<"write", Request(Head(todo')[2], Head(todo')[3])>>
    BY <2>2, <2>3 DEF Follows, Requests
  <2>5. config1' = Request(Arg', Head(todo')[3])
    BY <2>1, <2>3, <2>4 DEF Arg
  <2>6. clocks
    <3> DEFINE s == Tail(todo)
    <3>1. s \in Seq(Ops) /\ s # <<>> /\ Head(s)[1] = "done" /\ Head(s)[2] # "SLEEP"
      BY <2>2, <2>3 DEF Starts
    <3> HIDE DEF s
    <3>2. Head(s) \in Ops /\ Tail(s) \in Seq(Ops) /\ s = Cons(Head(s), Tail(s))
      BY <3>1, Uncons
    <3>3. IsCons(Cons(Head(s), Tail(s)), Head(s), Tail(s), plat.fdd)
      BY <3>2, ConsAll
    <3>4. IsCons(s, Head(s), Tail(s), plat.fdd)
      BY <3>2, <3>3
    <3>5. Follows(Head(s), Tail(s), plat.fdd)
      BY <2>2, <3>4 DEF IsCons, s
    <3>6. ~Has(Tail(s), "clocks")
      BY <3>1, <3>5 DEF Follows, Settles
    <3>7. ~Has(todo, "clocks")
      BY <2>1, <2>2, <3>1, <3>4, <3>6 DEF IsCons, s
    <3>8. /\ Head(s)[2] \in Wanted /\ Head(s)[3] \in BOOLEAN
          /\ Head(s) = <<"done", Head(s)[2], Head(s)[3]>>
      BY <3>1, <3>2, OpShape
    <3>9. Contains(todo, <<"done", Head(s)[2], Head(s)[3]>>)
      BY <2>2, <3>4, <3>8 DEF IsCons, s
    <3> QED BY <3>1, <3>7, <3>8, <3>9 DEF Rest, ClocksInv
  <2>7. Goal(config1)' = Goal(Arg)
    BY <2>1 DEF Goal
  <2> QED BY <2>1, <2>5, <2>6, <2>7 DEF After
<1>6. CASE Poll \/ SetEnsmMode \/ Registers \/ Run \/ Save \/ StateSet
  <2>1. todo # <<>> /\ Head(todo)[1] # "write" /\ Then(<<>>)
    BY <1>6 DEF Poll, SetEnsmMode, Registers, Run, Save, StateSet, At
  <2> QED BY <1>4, <2>1, Dropped
<1>7. CASE ForceState \/ RestoreState
  <2>1. todo # <<>> /\ Head(todo)[1] # "write"
    BY <1>7 DEF ForceState, RestoreState, At
  <2>2. todo' = Tail(todo) \/ Fresh(todo')
    BY <1>7, ForceStep, RestoreStep
  <2> QED BY <1>3, <1>4, <2>1, <2>2
<1>8. CASE SetState
  BY <1>3, <1>8, RequestStep
<1>9. CASE Fail
  BY <1>9 DEF Fail, DoneInv, At
<1> QED BY <1>1, <1>2, <1>5, <1>6, <1>7, <1>8, <1>9 DEF Next, Driver

\* The request of set-up, step by step.
LEMMA StartStep ==
  ASSUME TypeOK, Rest, ForcedInv, HoldInv, StartInv, Next
  PROVE  StartInv'
<1> SUFFICES ASSUME Pending', Has(todo', "save")
             PROVE  /\ ~pinCtl'
                    /\ \/ /\ "pin" \notin config1'
                          /\ state' = (IF plat'.fdd THEN "FDD" ELSE "ALERT") /\ curr' = state'
                          /\ \E s \in Seq(Ops) : First(s)'
                       \/ At("done")' /\ ("pin" \in config1' \/ state' = Arg')
  BY DEF StartInv
<1>1. plat.fdd \in BOOLEAN /\ plat.pinCtrl \in BOOLEAN
  BY DEF TypeOK
<1>2. ~UserCalls
  BY CallHold
<1>3. Pending /\ Has(todo, "save")
  <2>1. CASE FlushEnd \/ PinMove
    BY <2>1 DEF FlushEnd, PinMove, Pending
  <2>2. CASE Write \/ Poll \/ ForceState \/ RestoreState \/ SetEnsmMode \/ StateSet \/ Registers
             \/ Run \/ Save
    <3>1. Same(todo', Tail(todo), plat.fdd) /\ todo # <<>>
      BY <2>2, WriteStep, PollStep, ForceStep, RestoreStep, ModeStep, DoneStep, RegistersStep,
         WorkStep
         DEF Write, Poll, ForceState, RestoreState, SetEnsmMode, StateSet, Registers, Run, Save, At
    <3>2. \A name : Has(todo, name) <=> Head(todo)[1] = name \/ Has(Tail(todo), name)
      BY <3>1, Running DEF Rest, IsCons
    <3> QED BY <3>1, <3>2 DEF Pending, Same
  <2>3. CASE SetState
    <3>1. Has(todo, "save")
      BY <2>3, RequestStep
    <3>2. todo # <<>> /\ Head(todo)[1] = "state"
      BY <2>3 DEF SetState, At
    <3>3. Has(todo, "state")
      BY <3>2, Running DEF Rest, IsCons
    <3> QED BY <3>1, <3>3 DEF Pending
  <2>4. CASE Fail
    BY <2>4, Empty DEF Fail
  <2> QED BY <1>2, <2>1, <2>2, <2>3, <2>4 DEF Next, Driver
<1>4. ~pinCtl
  BY <1>3 DEF StartInv
<1>5. CASE At("done") /\ ("pin" \in config1 \/ state = Arg)
  <2>1. CASE FlushEnd \/ PinMove
    <3>1. UNCHANGED <<config1, pinCtl, todo>>
      BY <2>1 DEF FlushEnd, PinMove, phy
    <3>2. "pin" \notin config1 => state = "FLUSH"
      BY <2>1 DEF FlushEnd, PinMove
    <3>3. Arg # "FLUSH"
      <4>1. Head(todo) \in Ops /\ Head(todo)[1] = "done"
        BY <1>5, Running DEF Rest, At
      <4> QED BY <4>1, OpShape DEF Arg, Wanted, Active
    <3> QED BY <1>4, <1>5, <3>1, <3>2, <3>3 DEF At, Arg
  <2>2. CASE Driver
    <3>1. StateSet
      BY <1>5, <2>2 DEF Driver, Write, Poll, ForceState, RestoreState, SetEnsmMode, SetState,
                        Registers, Run, Fail, Save, At
    <3>2. todo # <<>> /\ Head(todo)[1] = "done" /\ todo' = Tail(todo)
      BY <3>1, Dropped DEF StateSet, At
    <3>3. Follows(Head(todo), Tail(todo), plat.fdd)
      BY <3>2, Running DEF Rest
    <3>4. ~Pending'
      BY <3>2, <3>3 DEF Follows, Settles, Pending
    <3> QED BY <3>4
  <2> QED BY <1>2, <2>1, <2>2 DEF Next
<1>6. CASE /\ "pin" \notin config1
           /\ state = (IF plat.fdd THEN "FDD" ELSE "ALERT") /\ curr = state
           /\ \E s \in Seq(Ops) : First(s)
  <2>1. PICK s \in Seq(Ops) : First(s)
    BY <1>6
  <2>2. /\ todo # <<>> /\ Head(todo)[1] \in {"state", "write", "synth"}
        /\ Head(todo)[1] = "state" => Head(todo) = FirstRequest /\ Tail(todo) = s
        /\ Head(todo)[1] = "write" =>
             Head(todo) = FirstWrite /\ Tail(todo) = Cons(FirstDone, s)
        /\ Head(todo)[1] = "synth" => Tail(todo) = Cons(FirstWrite, Cons(FirstDone, s))
    BY <1>1, <2>1, FirstHead
  <2>3. SetState \/ Write \/ Registers
    <3>1. ~FlushEnd /\ ~PinMove
      BY <1>6 DEF FlushEnd, PinMove
    <3> QED BY <1>2, <2>2, <3>1 DEF Next, Driver, Poll, ForceState, RestoreState, SetEnsmMode,
                                    StateSet, Run, Fail, Save, At
  <2>4. UNCHANGED <<plat, curr, pinCtl>>
    BY <2>3 DEF SetState, Write, Registers, phy
  <2>5. /\ FirstState' = FirstState /\ FirstRequest' = FirstRequest
        /\ FirstDone' = FirstDone /\ FirstWrite' = FirstWrite
    BY <2>4 DEF FirstState, FirstRequest, FirstDone, FirstWrite
  <2>6. CASE SetState
    <3> DEFINE w == Cons(FirstWrite, Cons(FirstDone, s))
    <3>1. Head(todo) = FirstRequest /\ Tail(todo) = s /\ UNCHANGED <<config1, state>>
      BY <2>2, <2>6 DEF SetState, At, chip
    <3>2. Arg = FirstState /\ Head(todo)[3] = plat.pinCtrl
      BY <3>1 DEF FirstRequest, Arg
    <3>3. todo' = Setting(FirstState, plat.pinCtrl) \o s
      <4>1. todo' = Setting(Arg, Head(todo)[3]) \o Tail(todo)
        BY <2>6 DEF SetState, Setting, Granting, Through, Invalid, Synth1, Then
      <4> QED BY <3>1, <3>2, <4>1
    <3>4. /\ FirstState \in Wanted \ {"SLEEP"} /\ ~Invalid(FirstState) /\ curr # "SLEEP"
      BY <1>1, <1>6 DEF FirstState, Wanted, Active, Invalid, Fits
    <3>5. After1(s, plat.fdd)
      <4>1. /\ Follows(Head(todo), s, plat.fdd) /\ Sound(s, plat.fdd) /\ Head(todo)[1] = "state"
        BY <2>2, <2>6, <3>1, Running DEF Rest, SetState, At
      <4>2. s = <<>> \/ Starts(s, {"save"})
        BY <4>1 DEF Follows, Requests
      <4>3. Fresh(s)
        BY <4>2 DEF Fresh, Starts
      <4>4. \A name \in {"state", "done", "clocks", "synth"} : ~Has(s, name)
        BY <4>1 DEF Follows, Settles
      <4> QED BY <4>1, <4>2, <4>3, <4>4 DEF After1
    <3>6. \/ Setting(FirstState, plat.pinCtrl) \o s = w
          \/ \E b \in BOOLEAN : Setting(FirstState, plat.pinCtrl) \o s = Cons(<<"synth", b>>, w)
      <4> DEFINE st == FirstState
                 pin == plat.pinCtrl
      <4>1. st \in Wanted \ {"SLEEP"} /\ ~Invalid(st) /\ pin \in BOOLEAN
        BY <1>1, <3>4
      <4>2. FirstWrite = <<"write", Request(st, pin)>> /\ FirstDone = <<"done", st, pin>>
        BY DEF FirstWrite, FirstDone
      <4> HIDE DEF st, pin
      <4>3. LET v == Cons(<<"write", Request(st, pin)>>, Cons(<<"done", st, pin>>, s))
            IN  \/ Setting(st, pin) \o s = v
                \/ \E b \in BOOLEAN : Setting(st, pin) \o s = Cons(<<"synth", b>>, v)
        BY <1>1, <3>4, <3>5, <4>1, DirectGrant
      <4> QED BY <4>2, <4>3 DEF st, pin
    <3>7. First(s)'
      BY <2>5, <3>3, <3>6 DEF First
    <3> QED BY <1>4, <1>6, <2>4, <3>1, <3>7
  <2>7. CASE Registers
    <3>1. Head(todo)[1] = "synth" /\ Then(<<>>) /\ UNCHANGED <<config1, state>>
      BY <2>2, <2>7 DEF Registers, At
    <3>2. todo' = Cons(FirstWrite, Cons(FirstDone, s))
      BY <2>2, <3>1, Dropped
    <3>3. First(s)'
      BY <2>5, <3>2 DEF First
    <3> QED BY <1>4, <1>6, <2>4, <3>1, <3>3
  <2>8. CASE Write
    <3> DEFINE d == Cons(FirstDone, s)
    <3>1. /\ Head(todo) = FirstWrite /\ Tail(todo) = d /\ Then(<<>>)
          /\ config1' = Arg /\ state' = After(Arg)
      BY <2>2, <2>8 DEF Write, At
    <3>2. todo' = d
      BY <2>2, <3>1, Dropped
    <3>3. FirstState \in Wanted \ {"SLEEP"} /\ FirstDone \in Ops
      <4>1. FirstState \in Wanted \ {"SLEEP"}
        BY <1>1 DEF FirstState, Wanted, Active
      <4> QED BY <1>1, <4>1, OpsIn DEF FirstDone
    <3>4. IsCons(d, FirstDone, s, plat.fdd)
      BY <3>3, ConsAll
    <3>5. FirstDone[1] = "done" /\ FirstDone[2] = FirstState
      BY DEF FirstDone
    <3> HIDE DEF d
    <3>6. At("done")' /\ Arg' = FirstState
      BY <3>2, <3>4, <3>5 DEF At, Arg, IsCons
    <3>7. Arg = Request(FirstState, plat.pinCtrl)
      BY <3>1 DEF Arg, FirstWrite
    <3>8. /\ IsCons(todo, Head(todo), d, plat.fdd) /\ Sound(d, plat.fdd) /\ Head(todo)[1] = "write"
      BY <2>2, <2>8, <3>1, Running DEF Rest, Write, At
    <3>9. clocks
      <4>1. Follows(FirstDone, s, plat.fdd)
        BY <3>4, <3>8 DEF IsCons
      <4>2. ~Has(todo, "clocks")
        BY <3>4, <3>5, <3>8, <4>1 DEF IsCons, Follows, Settles
      <4>3. Contains(todo, FirstDone)
        BY <3>4, <3>8 DEF IsCons
      <4>4. Contains(todo, <<"done", FirstState, plat.pinCtrl>>)
        BY <4>3 DEF FirstDone
      <4> QED BY <1>1, <3>3, <4>2, <4>4 DEF Rest, ClocksInv
    <3>10. fddMode = plat.fdd
      BY <3>4, <3>5, <3>8 DEF IsCons, Rest, DuplexInv
    <3>11. "pin" \in config1' \/ state' = FirstState
      <4>1. CASE plat.fdd
        <5>1. FirstState = "FDD" /\ "tx" \in Arg
          BY <3>7, <4>1 DEF FirstState, Request
        <5> QED BY <1>6, <3>1, <3>9, <3>10, <4>1, <5>1 DEF After, Goal
      <4>2. CASE ~plat.fdd
        <5>1. FirstState = "RX" /\ "rx" \in Arg /\ "tx" \notin Arg
          BY <3>7, <4>2 DEF FirstState, Request
        <5> QED BY <1>6, <3>1, <3>9, <3>10, <4>2, <5>1 DEF After, Goal, Active
      <4> QED BY <4>1, <4>2
    <3> QED BY <1>4, <2>4, <3>6, <3>11
  <2> QED BY <2>3, <2>6, <2>7, <2>8
<1> QED BY <1>3, <1>5, <1>6 DEF StartInv

\* Set-up begins in it.
LEMMA StartHeld == Init => HeldInv
<1> SUFFICES ASSUME Init PROVE HeldInv
  OBVIOUS
<1>1. plat.fdd \in BOOLEAN /\ plat.pinCtrl \in BOOLEAN
  BY DEF Init
<1>2. PICK ok \in BOOLEAN : todo = SetUp(ok)
  BY DEF Init
<1>3. Program(todo, plat.fdd) /\ \E s \in Seq(Ops) : todo = Cons(FirstRequest, s)
  BY <1>1, <1>2, SetUps DEF FirstRequest, FirstState
<1>4. HoldInv
  BY DEF Init, HoldInv
<1>5. DoneInv
  BY <1>3 DEF DoneInv, At, Program, Fresh, Starts
<1>6. "pin" \notin config1 /\ ~pinCtl
  BY DEF Init, Alert
<1>7. StartInv
  <2>1. \E s \in Seq(Ops) : First(s)
    BY <1>3 DEF First
  <2> QED BY <1>6, <2>1 DEF Init, StartInv
<1> QED BY <1>4, <1>5, <1>7, StartInvariant DEF HeldInv

\* Every step keeps it.
LEMMA StepHeld == HeldInv /\ [Next]_vars => HeldInv'
<1> SUFFICES ASSUME HeldInv, [Next]_vars PROVE HeldInv'
  OBVIOUS
<1>0. /\ DriverInv /\ TypeOK /\ Rest /\ ForcedInv /\ AskedInv
      /\ HoldInv /\ DoneInv /\ StartInv
  BY DEF HeldInv, DriverInv, Rest
<1>1. DriverInv'
  BY <1>0, StepInvariant
<1>2. CASE UNCHANGED vars
  <2>1. /\ UNCHANGED <<plat, config1, fddMode, state, curr, prev, pinCtl, saved, todo, asked, outrun>>
    BY <1>2 DEF vars, chip, phy, ghosts
  <2>2. HoldInv'
    BY <1>0, <2>1 DEF HoldInv, Kept, Pending, InSaved, InPrev, InChip, At, Heading, Final, Aims, Goal
  <2>3. DoneInv'
    BY <1>0, <2>1 DEF DoneInv, At, Arg, Goal
  <2>4. StartInv'
    BY <1>0, <2>1 DEF StartInv, Pending, At, Arg, First, FirstState, FirstRequest, FirstDone,
                      FirstWrite
  <2> QED BY <1>1, <2>2, <2>3, <2>4 DEF HeldInv
<1>3. CASE Next
  <2>1. HoldInv'
    BY <1>0, <1>3, ChipHold, CallHold, WriteHold, PollHold, ForceHold, RestoreHold, ModeHold,
       OtherHold, DoneHold, RegistersHold DEF Next, Driver
  <2>2. DoneInv' /\ StartInv'
    BY <1>0, <1>3, DoneWritten, StartStep
  <2> QED BY <1>1, <2>1, <2>2 DEF HeldInv
<1> QED BY <1>2, <1>3

\* The chip is in the state the user last asked for and was granted, whatever
\* calibrations, filter loads and interface tunings ran since (what
\* ad9361_ensm_force_state and the save of ad9361_dig_tune keep comes back by
\* ad9361_ensm_restore_state), until a call finds the chip in a flush.
THEOREM StateIsHeld == Spec => []StateHeld
<1>1. HeldInv => StateHeld
  <2> SUFFICES ASSUME HeldInv, ~outrun, Idle, asked # "NONE", "pin" \notin config1
               PROVE  state = asked
    BY DEF StateHeld, StateRestored
  <2>1. todo = <<>> /\ state # "FLUSH"
    BY DEF Idle
  <2>2. ~Pending /\ InChip /\ ~Has(todo, "write")
    BY <2>1, Empty DEF Pending, InChip
  <2>3. Heading
    BY <2>2 DEF HeldInv, HoldInv, Kept
  <2> QED BY <2>1, <2>3 DEF Heading
<1>2. Init => HeldInv
  BY StartHeld
<1>3. HeldInv /\ [Next]_vars => HeldInv'
  BY StepHeld
<1> QED BY <1>1, <1>2, <1>3, PTL DEF Spec
=============================================================================
