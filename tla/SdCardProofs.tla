---------------------------- MODULE SdCardProofs ----------------------------
(***************************************************************************)
(* Proofs about SdCard: whatever the controller and the card do, a read    *)
(* that succeeds returns the blocks it was asked for, a write that         *)
(* succeeded stays on the card, and a call in which no wait ran out leaves *)
(* the controller ready for the next.                                      *)
(***************************************************************************)
EXTENDS SdCard, TLAPS

----------------------------------------------------------------------------
(* What the variables range over *)

Codes == {"go_idle", "if_cond", "app0", "app", "op_cond", "cid", "rel_addr", "select",
          "scr", "bus_width", "blockcnt", "read", "write", "stop"}
Moving == {"read", "write", "scr"}
Commands == {c \in [do : {"cmd"}, on : Codes, arg : Nat, num : Nat] :
               c.num > 0 <=> c.on \in Moving}
Waits == [do : {"status"}, on : {"clock", "dat", "write"}]
           \cup [do : {"int"}, on : {"read_rdy", "write_rdy", "data_done"}]
           \cup [do : {"poll"}, on : {"reset", "clock"}]
Items == Commands \cup Waits \cup {Fetch, Store, ReadScr}
Flags == {"cmd_done", "read_rdy", "write_rdy", "data_done"} \cup Errors
Words == VALUES \cup {NONE, "scr", "short"}
Blocks == 0 .. BLOCKS - 1

HostType ==
  host \in [inhibit : SUBSET {"cmd", "dat", "write"}, int : SUBSET Flags, fifo : Words,
            issued : Commands \cup {NoCmd},
            xfer : [kind : Moving \cup {NONE}, block : Nat, left : Nat]]

CardType == card \in [hc : BOOLEAN, blkcnt : BOOLEAN, block : [Blocks -> Words \ {NONE}]]

DrvType ==
  drv \in [op : {NONE, "init", "read", "write"}, lba : Nat, num : Nat, data : Words,
           todo : Seq(Items), phase : {"start", "issue", "answer", "answered", "no_answer"},
           cnt : Nat, tries : Int, ccs : BOOLEAN, buf : Seq(Words)]

SdType ==
  sd \in [ready : BOOLEAN, err : {"ok", "timeout", "error"}, rca : {0, 1}, ccs : BOOLEAN,
          blkcnt : BOOLEAN]

Types ==
  /\ HostType /\ CardType /\ DrvType /\ SdType
  /\ sure \in [Blocks -> Words] /\ late \in BOOLEAN /\ faults \in Nat

----------------------------------------------------------------------------
(* Where a call stands.  The list of a read or a write is a wait, perhaps a *)
(* block count, the data command at place 0, two places for each block, and *)
(* what ends the call.                                                      *)

LeadOf(num) == IF num > 1 /\ sd.ccs /\ sd.blkcnt THEN 1 ELSE 0
TellOf(num) == IF num > 1 /\ sd.ccs /\ ~sd.blkcnt THEN 1 ELSE 0
EndsOf(op, num) == 2 * num + (IF op = "write" THEN 1 ELSE 0) + TellOf(num)
DataCmdOf(op, lba, num) == Cmd(op, IF sd.ccs THEN lba ELSE lba * BLOCK_SIZE, num)
TurnOf(op, r) == IF r % 2 = 1 THEN Await(IF op = "read" THEN "read_rdy" ELSE "write_rdy")
                 ELSE IF op = "read" THEN Fetch ELSE Store
ItemOf(op, lba, num, r) ==
  CASE r < -LeadOf(num) -> Wait(IF op = "read" THEN "dat" ELSE "write")
    [] r = -1 /\ LeadOf(num) = 1 -> Cmd("blockcnt", num, 0)
    [] r = 0 -> DataCmdOf(op, lba, num)
    [] r \in 1 .. 2 * num -> TurnOf(op, r)
    [] r = 2 * num + 1 /\ op = "write" -> Await("data_done")
    [] OTHER -> Cmd("stop", 0, 0)

InCall == drv.op \in {"read", "write"}
Lead == LeadOf(drv.num)
Ends == EndsOf(drv.op, drv.num)
DataCmd == DataCmdOf(drv.op, drv.lba, drv.num)
CallItem(r) == ItemOf(drv.op, drv.lba, drv.num, r)
Place == Ends + 1 - Len(drv.todo)
(* the blocks that the driver has not moved yet *)
Turns == IF Place <= 0 THEN drv.num
         ELSE IF Place > 2 * drv.num THEN 0 ELSE drv.num - (Place - 1) \div 2

CallShape ==
  InCall =>
    /\ sd.ready /\ drv.num > 0 /\ drv.lba + drv.num <= BLOCKS /\ (drv.num > 1 => sd.ccs)
    /\ drv.op = "write" => drv.data \in VALUES
    /\ Place >= -(1 + Lead)
    /\ \A r \in Place .. Ends : drv.todo[r - Place + 1] = CallItem(r)

(* Initialisation: up to enable_card, then InitRest, then the bus width *)
EarlyItems == {Poll("reset"), Poll("clock"), Wait("clock"), Cmd("go_idle", 0, 0), Cmd("if_cond", 0, 0),
               Cmd("app0", 0, 0), Cmd("app", 0, 0)}
Early(todo) ==
  /\ todo # <<>> /\ todo[Len(todo)] = Cmd("op_cond", 0, 0)
  /\ \A k \in 1 .. Len(todo) - 1 : todo[k] \in EarlyItems
Rest(todo) == Len(todo) <= 10 /\ \A k \in 1 .. Len(todo) : todo[k] = InitRest[10 - Len(todo) + k]
(* the places of InitRest before the SCR is read: the APP command, the command
   itself, and the wait for its data *)
CheckAt(todo) == Rest(todo) /\ Len(todo) = 4
ScrAt(todo) == todo # <<>> /\ todo[1].do = "cmd" /\ todo[1].on = "scr"
IntAt(todo) == todo # <<>> /\ todo[1].do = "int"
LastItems == {Cmd("app0", 0, 0), Cmd("app", 0, 0), Cmd("bus_width", 0, 0)}
Last(todo) == \A k \in 1 .. Len(todo) : todo[k] \in LastItems

InitShape ==
  drv.op = "init" =>
    /\ ~sd.ready
    /\ \/ Early(drv.todo)
       \/ (drv.ccs = card.hc) /\ (Rest(drv.todo) \/ Last(drv.todo))
       \/ drv.todo = <<>> /\ sd.err # "ok"

(* enable_card looks at the answer to SEND_OP_COND. *)
PhaseShape ==
  drv.todo # <<>> /\ drv.phase \in {"answered", "no_answer"} => Now.do = "cmd" /\ Now.on = "op_cond"

KnowsCard == sd.ready => sd.ccs = card.hc
IdleEmpty == drv.op = NONE => drv.todo = <<>>

----------------------------------------------------------------------------
(* The controller *)

NoData == host.issued.num = 0 /\ X.kind = NONE
Controller ==
  /\ host.issued # NoCmd <=> "cmd" \in host.inhibit
  /\ ~NoData => "dat" \in host.inhibit
  /\ host.issued.num = 0 \/ X.kind = NONE
  /\ X.kind = NONE => X.left = 0
  /\ drv.todo # <<>> /\ drv.phase = "issue" => host.issued = NoCmd

(* Past its wait and before its data command, nothing moves. *)
Waited ==
  /\ InCall /\ drv.todo # <<>> /\ Place > -(1 + Lead)
       /\ (Place < 0 \/ (Place = 0 /\ drv.phase # "answer")) =>
       NoData /\ (drv.op = "write" => "write" \notin host.inhibit)
  /\ drv.op = "init" /\ ScrAt(drv.todo) /\ drv.phase # "answer" => NoData
  /\ drv.op = "init" /\ CheckAt(drv.todo) => NoData

----------------------------------------------------------------------------
(* Blocks on their way to the card *)

Target(b) == b \in Blocks /\ sure[b] = NONE
Targets ==
  /\ host.issued.on = "write" =>
       \A b \in Nat : Addressed(host.issued) <= b /\ b < Addressed(host.issued) + host.issued.num
                        => Target(b)
  /\ X.kind = "write" => \A b \in Nat : X.block <= b /\ b < X.block + X.left => Target(b)
  /\ drv.op = "write" => \A b \in Nat : drv.lba <= b /\ b < drv.lba + drv.num => Target(b)

Alive == drv.todo # <<>> \/ sd.err = "ok"
Begun == Alive /\ (Place > 0 \/ (Place = 0 /\ drv.phase = "answer"))
Full == IF host.fifo = NONE THEN 0 ELSE 1
Asked ==
  /\ Place = 0 /\ drv.phase = "answer" /\ host.issued = DataCmd /\ X.kind = NONE
  /\ host.int = {} /\ (drv.op = "write" => "write" \notin host.inhibit)
Ruined == NoData /\ Pending # {}

Written(n) == \A b \in Blocks : drv.lba <= b /\ b < drv.lba + n => card.block[b] = drv.data

(* stale: the FIFO held a block of an earlier call when this one began *)
Writing(stale) ==
  /\ X.kind = "write" /\ Place <= 2 * drv.num + 1
  /\ "data_done" \notin host.int
  /\ X.left = Turns + Full - stale /\ X.block = drv.lba + drv.num - X.left
  /\ X.left <= drv.num
  /\ stale = 1 => Turns >= 1
  /\ "write_rdy" \in host.int \/ Doing("store") =>
       X.left > 0 /\ Full = 0 /\ "write" \in host.inhibit
  /\ "write_rdy" \in host.int => ~Doing("store")
  /\ stale = 0 => (Full = 1 => host.fifo = drv.data) /\ Written(drv.num - X.left)

WriteEnded ==
  /\ NoData
  /\ \/ Turns = 0 /\ Place > 2 * drv.num /\ Written(drv.num)
     \/ Turns = 1 /\ ~Doing("store") /\ "write_rdy" \notin host.int

WriteStage ==
  drv.op = "write" /\ Begun =>
    \/ Asked \/ WriteEnded \/ Writing(0) \/ Writing(1)
    \/ Ruined /\ Place <= 2 * drv.num + 1

----------------------------------------------------------------------------
(* Blocks on their way from the card *)

Fetched(n) == Len(drv.buf) = n /\ \A c \in 1 .. n : drv.buf[c] = card.block[drv.lba + c - 1]

(* the FIFO still holds a block of an earlier call: no data comes *)
Blocked ==
  X.kind = "read" /\ Place <= 1
    /\ Full = 1 /\ X.left = drv.num /\ "read_rdy" \notin host.int
Reading ==
  /\ X.kind = "read"
  /\ X.left = Turns - Full /\ X.block = drv.lba + drv.num - X.left
  /\ Fetched(drv.num - Turns)
  /\ Full = 1 => host.fifo = card.block[X.block - 1]
  /\ "read_rdy" \in host.int => Full = 1 /\ ~Doing("fetch")
  /\ Doing("fetch") => Full = 1
ReadEnded == NoData /\ Place > 2 * drv.num /\ Fetched(drv.num)

ReadStage ==
  drv.op = "read" =>
    /\ Alive /\ ~Begun => drv.buf = <<>>
    /\ Begun =>
         \/ Asked /\ drv.buf = <<>>
         \/ Blocked \/ Reading \/ ReadEnded
         \/ Ruined /\ Turns >= 1 /\ (Doing("fetch") => Turns >= 2)

----------------------------------------------------------------------------
(* What is left of earlier calls when no wait has run out *)

Answering == Doing("cmd") /\ drv.phase = "answer"
Scr == drv.op = "init" /\ ((ScrAt(drv.todo) /\ drv.phase = "answer") \/ IntAt(drv.todo))

Clean ==
  /\ host.issued # NoCmd =>
       Answering /\ host.issued = Now /\ "cmd_done" \notin host.int /\ Pending = {} /\ X.left = 0
  /\ Pending # {} =>
       /\ host.issued = NoCmd /\ X.left = 0
       /\ \/ Doing("int") \/ Answering
          \/ (Doing("fetch") \/ Doing("store")) /\ Len(drv.todo) > 1 /\ drv.todo[2].do = "int"
  /\ X.left > 0 =>
       Doing("int") \/ (Answering /\ Now.num > 0) \/ Doing("fetch") \/ Doing("store")

ShortScr ==
  ~sd.ready =>
    /\ host.issued.num <= 1 /\ X.left <= 1
    /\ Scr /\ (host.issued.num > 0 \/ X.left > 0) => "read_rdy" \notin host.int

CInv ==
  /\ Types /\ CallShape /\ InitShape /\ PhaseShape /\ KnowsCard /\ IdleEmpty
  /\ Controller /\ Waited /\ Targets /\ WriteStage /\ ReadStage /\ WritesStay
  /\ ShortScr /\ (~late => Clean)

----------------------------------------------------------------------------
(* The lists of the calls *)

LEMMA NextItems ==
  ASSUME NEW S, NEW s \in Seq(S), s # <<>>
  PROVE  /\ Tail(s) \in Seq(S) /\ Len(Tail(s)) = Len(s) - 1 /\ Len(s) \in Nat \ {0} /\ s[1] \in S
         /\ \A k \in 1 .. Len(s) - 1 : Tail(s)[k] = s[k + 1]
OBVIOUS

LEMMA JoinItems ==
  ASSUME NEW S, NEW s \in Seq(S), NEW t \in Seq(S), NEW j, j = s \o t
  PROVE  /\ j \in Seq(S) /\ Len(j) = Len(s) + Len(t)
         /\ Len(s) \in Nat /\ Len(t) \in Nat
         /\ \A k \in 1 .. Len(s) : j[k] = s[k]
         /\ \A k \in 1 .. Len(t) : j[Len(s) + k] = t[k]
OBVIOUS

LEMMA SomeItems ==
  ASSUME NEW S, NEW s \in Seq(S)
  PROVE  Len(s) \in Nat /\ (s = <<>> <=> Len(s) = 0)
OBVIOUS

LEMMA CodeIs ==
  ASSUME NEW code \in Codes, NEW arg \in Nat, NEW num \in Nat, num > 0 <=> code \in Moving
  PROVE  Cmd(code, arg, num) \in Commands /\ Cmd(code, arg, num) \in Items
BY DEF Cmd, Commands, Items

LEMMA ItemsAre ==
  /\ \A on \in {"clock", "dat", "write"} : Wait(on) \in Items
  /\ \A on \in {"read_rdy", "write_rdy", "data_done"} : Await(on) \in Items
  /\ \A on \in {"reset", "clock"} : Poll(on) \in Items
  /\ Fetch \in Items /\ Store \in Items /\ ReadScr \in Items
BY DEF Items, Waits, Wait, Await, Poll, Fetch, Store, ReadScr

LEMMA AppIs ==
  ASSUME NEW code \in {"op_cond", "bus_width"}
  PROVE  /\ App(code) \in Seq(Items) /\ Len(App(code)) = 2
         /\ App(code)[1] \in {Cmd("app0", 0, 0), Cmd("app", 0, 0)} /\ App(code)[2] = Cmd(code, 0, 0)
<1>1. PICK a \in {"app0", "app"} : a = IF sd.rca = 0 THEN "app0" ELSE "app"
  OBVIOUS
<1>2. Cmd(a, 0, 0) \in Items /\ Cmd(code, 0, 0) \in Items
  BY CodeIs DEF Codes, Moving
<1>3. App(code) = <<Cmd(a, 0, 0), Cmd(code, 0, 0)>>
  BY <1>1 DEF App
<1>4. Cmd(a, 0, 0) \in {Cmd("app0", 0, 0), Cmd("app", 0, 0)}
  OBVIOUS
<1> QED BY <1>2, <1>3, <1>4

LEMMA InitListIs == InitList \in Seq(Items) /\ Early(InitList)
<1>1. PICK app : app = App("op_cond")
  OBVIOUS
<1>2. /\ app \in Seq(Items) /\ Len(app) = 2
      /\ app[1] \in {Cmd("app0", 0, 0), Cmd("app", 0, 0)} /\ app[2] = Cmd("op_cond", 0, 0)
  BY <1>1, AppIs
<1>3. PICK first : first = <<Poll("reset"), Wait("clock"), Poll("clock"), Cmd("go_idle", 0, 0), Cmd("if_cond", 0, 0)>>
  OBVIOUS
<1>4. /\ first \in Seq(Items) /\ Len(first) = 5
  <2>1. Cmd("go_idle", 0, 0) \in Items /\ Cmd("if_cond", 0, 0) \in Items
    BY CodeIs DEF Codes, Moving
  <2>2. Poll("reset") \in Items /\ Wait("clock") \in Items /\ Poll("clock") \in Items
    BY ItemsAre
  <2> QED BY <1>3, <2>1, <2>2
<1>5. \A k \in 1 .. 5 : first[k] \in EarlyItems
  BY <1>3 DEF EarlyItems
<1>6. InitList = first \o app
  BY <1>1, <1>3 DEF InitList
<1>7. /\ InitList \in Seq(Items) /\ Len(InitList) = 5 + 2
      /\ \A k \in 1 .. 5 : InitList[k] = first[k]
      /\ \A k \in 1 .. 2 : InitList[5 + k] = app[k]
  <2>1. first \in Seq(Items) /\ app \in Seq(Items)
    BY <1>2, <1>4
  <2>2. /\ InitList \in Seq(Items) /\ Len(InitList) = Len(first) + Len(app)
        /\ \A k \in 1 .. Len(first) : InitList[k] = first[k]
        /\ \A k \in 1 .. Len(app) : InitList[Len(first) + k] = app[k]
    BY <1>6, <2>1, JoinItems
  <2>3. Len(first) = 5 /\ Len(app) = 2
    BY <1>2, <1>4
  <2> QED BY <2>2, <2>3
<1>8. /\ \A k \in 1 .. 5 : InitList[k] = first[k]
      /\ InitList[6] = app[1] /\ InitList[7] = app[2] /\ Len(InitList) = 7
  BY <1>7
<1>9. InitList[6] \in EarlyItems
  BY <1>2, <1>8 DEF EarlyItems
<1>10. \A k \in 1 .. 6 : InitList[k] \in EarlyItems
  BY <1>5, <1>8, <1>9
<1>11. InitList[Len(InitList)] = Cmd("op_cond", 0, 0) /\ InitList # <<>>
  <2>1. InitList # <<>>
    BY <1>7, SomeItems
  <2> QED BY <1>2, <1>8, <2>1
<1> QED BY <1>7, <1>8, <1>10, <1>11 DEF Early

LEMMA InitRestIs == InitRest \in Seq(Items) /\ Len(InitRest) = 10
<1>1. /\ Cmd("cid", 0, 0) \in Items /\ Cmd("rel_addr", 0, 0) \in Items /\ Cmd("select", 0, 0) \in Items
      /\ Cmd("app", 0, 0) \in Items /\ Cmd("scr", 0, 1) \in Items
  BY CodeIs DEF Codes, Moving
<1>2. /\ Wait("clock") \in Items /\ Poll("clock") \in Items /\ Wait("dat") \in Items
      /\ Await("read_rdy") \in Items /\ ReadScr \in Items
  BY ItemsAre
<1> QED BY <1>1, <1>2 DEF InitRest

LEMMA ItemsOf ==
  ASSUME NEW S, NEW n \in Nat, NEW f \in [1 .. n -> S]
  PROVE  f \in Seq(S) /\ Len(f) = n
OBVIOUS

LEMMA ThreeParts ==
  ASSUME NEW S, NEW first \in Seq(S), NEW one \in Seq(S), NEW turns \in Seq(S),
         NEW mv, mv = (first \o one) \o turns
  PROVE  /\ mv \in Seq(S) /\ Len(mv) = Len(first) + Len(one) + Len(turns)
         /\ Len(first) \in Nat /\ Len(one) \in Nat /\ Len(turns) \in Nat
         /\ \A k \in 1 .. Len(first) : mv[k] = first[k]
         /\ \A k \in 1 .. Len(one) : mv[Len(first) + k] = one[k]
         /\ \A k \in 1 .. Len(turns) : mv[Len(first) + Len(one) + k] = turns[k]
OBVIOUS

(* The middle of a list, on either kind of card *)
FlagOf(op) == IF op = "read" THEN "read_rdy" ELSE "write_rdy"
StepOf(op) == IF op = "read" THEN Fetch ELSE Store
IsMove(mv, op, lba, num) == mv = Move(op, FlagOf(op), StepOf(op), lba, num)

LEMMA MoveIs ==
  ASSUME NEW op \in {"read", "write"}, NEW lba \in Nat, NEW num \in Nat \ {0}, num > 1 => sd.ccs,
         NEW mv, IsMove(mv, op, lba, num)
  PROVE  /\ mv \in Seq(Items) /\ Len(mv) = LeadOf(num) + 1 + 2 * num /\ LeadOf(num) \in {0, 1}
         /\ LeadOf(num) = 1 => mv[1] = Cmd("blockcnt", num, 0)
         /\ mv[LeadOf(num) + 1] = DataCmdOf(op, lba, num)
         /\ \A k \in 1 .. 2 * num : mv[LeadOf(num) + 1 + k] = TurnOf(op, k)
<1> DEFINE flag == FlagOf(op)
<1> DEFINE step == StepOf(op)
<1> DEFINE lead == LeadOf(num)
<1>0. lead \in {0, 1}
  BY DEF LeadOf
<1>1. flag \in {"read_rdy", "write_rdy"} /\ step \in {Fetch, Store}
  BY DEF FlagOf, StepOf
<1>2. Await(flag) \in Items /\ step \in Items
  BY <1>1, ItemsAre
<1> HIDE DEF flag, step, lead
<1>3. PICK data : data = DataCmdOf(op, lba, num)
  OBVIOUS
<1>4. data \in Items
  <2>1. PICK arg : arg = IF sd.ccs THEN lba ELSE lba * BLOCK_SIZE
    OBVIOUS
  <2>2. arg \in Nat
    BY <2>1, CardAssumption
  <2>3. op \in Codes /\ op \in Moving
    BY DEF Codes, Moving
  <2> QED BY <1>3, <2>1, <2>2, <2>3, CodeIs DEF DataCmdOf
<1>5. Cmd("blockcnt", num, 0) \in Items
  BY CodeIs DEF Codes, Moving
<1>6. CASE sd.ccs
  <2>1. PICK first : first = IF num > 1 /\ sd.blkcnt THEN <<Cmd("blockcnt", num, 0)>> ELSE <<>>
    OBVIOUS
  <2>2. /\ first \in Seq(Items) /\ Len(first) = lead /\ (lead = 1 => first[1] = Cmd("blockcnt", num, 0))
    BY <1>5, <1>6, <2>1 DEF LeadOf, lead
  <2>3. PICK one : one = <<data>>
    OBVIOUS
  <2>4. one \in Seq(Items) /\ Len(one) = 1 /\ one[1] = data
    BY <1>4, <2>3
  <2>5. PICK turns : turns = [k \in 1 .. 2 * num |-> IF k % 2 = 1 THEN Await(flag) ELSE step]
    OBVIOUS
  <2>6. /\ turns \in Seq(Items) /\ Len(turns) = 2 * num
        /\ \A k \in 1 .. 2 * num : turns[k] = TurnOf(op, k)
    <3>1. turns \in [1 .. 2 * num -> Items]
      BY <1>2, <2>5
    <3>2. 2 * num \in Nat
      OBVIOUS
    <3>3. turns \in Seq(Items) /\ Len(turns) = 2 * num
      BY <3>1, <3>2
    <3> QED BY <2>5, <3>3 DEF TurnOf, FlagOf, StepOf, flag, step
  <2>7. mv = (first \o one) \o turns
    BY <1>3, <1>6, <2>1, <2>3, <2>5 DEF Move, DataCmdOf, IsMove, flag, step
  <2>8. first \in Seq(Items) /\ one \in Seq(Items) /\ turns \in Seq(Items) /\ 2 * num \in Nat
    BY <2>2, <2>4, <2>6
  <2>9. /\ mv \in Seq(Items) /\ Len(mv) = Len(first) + Len(one) + Len(turns)
        /\ \A k \in 1 .. Len(first) : mv[k] = first[k]
        /\ \A k \in 1 .. Len(one) : mv[Len(first) + k] = one[k]
        /\ \A k \in 1 .. Len(turns) : mv[Len(first) + Len(one) + k] = turns[k]
    BY <2>7, <2>8, ThreeParts
  <2>10. Len(first) = lead /\ Len(one) = 1 /\ Len(turns) = 2 * num
    BY <2>2, <2>4, <2>6
  <2>11. /\ Len(mv) = lead + 1 + 2 * num /\ (lead = 1 => mv[1] = first[1]) /\ mv[lead + 1] = one[1]
         /\ \A k \in 1 .. 2 * num : mv[lead + 1 + k] = turns[k]
    BY <1>0, <2>9, <2>10
  <2> QED BY <1>0, <1>3, <2>2, <2>4, <2>6, <2>9, <2>11 DEF lead
<1>7. CASE ~sd.ccs
  <2>1. num = 1 /\ lead = 0
    BY <1>7 DEF LeadOf, lead
  <2>2. mv = [k \in 1 .. 3 |-> CASE k % 3 = 1 -> Cmd(op, (lba + k \div 3) * BLOCK_SIZE, 1)
                                 [] k % 3 = 2 -> Await(flag)
                                 [] OTHER -> step]
    BY <1>7, <2>1 DEF Move, IsMove, flag, step
  <2>3. 1 \div 3 = 0 /\ 1 % 3 = 1 /\ 2 % 3 = 2 /\ 3 % 3 = 0 /\ lba + 0 = lba
    OBVIOUS
  <2>4. mv[1] = data /\ mv[2] = Await(flag) /\ mv[3] = step
    BY <1>3, <1>7, <2>1, <2>2, <2>3 DEF DataCmdOf
  <2>5. mv \in [1 .. 3 -> Items]
    <3>1. \A k \in 1 .. 3 : k = 1 \/ k = 2 \/ k = 3
      OBVIOUS
    <3>2. \A k \in 1 .. 3 : mv[k] \in Items
      BY <1>2, <1>4, <2>4, <3>1
    <3> QED BY <2>2, <3>2
  <2>6. mv \in Seq(Items) /\ Len(mv) = 3
    BY <2>5, ItemsOf
  <2>7. TurnOf(op, 1) = mv[2] /\ TurnOf(op, 2) = mv[3]
    BY <2>4 DEF TurnOf, FlagOf, StepOf, flag, step
  <2>8. \A k \in 1 .. 2 * num : k = 1 \/ k = 2
    BY <2>1
  <2>9. \A k \in 1 .. 2 * num : mv[lead + 1 + k] = TurnOf(op, k)
    BY <2>1, <2>7, <2>8
  <2>10. Len(mv) = lead + 1 + 2 * num
    BY <2>1, <2>6
  <2> QED BY <1>3, <2>1, <2>4, <2>6, <2>9, <2>10 DEF lead
<1> QED BY <1>6, <1>7

LEMMA FourParts ==
  ASSUME NEW S, NEW first \in Seq(S), NEW mv \in Seq(S), NEW one \in Seq(S), NEW last \in Seq(S),
         NEW all, all = ((first \o mv) \o one) \o last
  PROVE  /\ all \in Seq(S) /\ Len(all) = Len(first) + Len(mv) + Len(one) + Len(last)
         /\ Len(first) \in Nat /\ Len(mv) \in Nat /\ Len(one) \in Nat /\ Len(last) \in Nat
         /\ \A k \in 1 .. Len(first) : all[k] = first[k]
         /\ \A k \in 1 .. Len(mv) : all[Len(first) + k] = mv[k]
         /\ \A k \in 1 .. Len(one) : all[Len(first) + Len(mv) + k] = one[k]
         /\ \A k \in 1 .. Len(last) : all[Len(first) + Len(mv) + Len(one) + k] = last[k]
<1>1. PICK some : some = (first \o mv) \o one
  OBVIOUS
<1>2. /\ some \in Seq(S) /\ Len(some) = Len(first) + Len(mv) + Len(one)
      /\ Len(first) \in Nat /\ Len(mv) \in Nat /\ Len(one) \in Nat
      /\ \A k \in 1 .. Len(first) : some[k] = first[k]
      /\ \A k \in 1 .. Len(mv) : some[Len(first) + k] = mv[k]
      /\ \A k \in 1 .. Len(one) : some[Len(first) + Len(mv) + k] = one[k]
  BY <1>1, ThreeParts
<1>3. all = some \o last /\ some \in Seq(S)
  BY <1>1, <1>2
<1>4. /\ all \in Seq(S) /\ Len(all) = Len(some) + Len(last) /\ Len(last) \in Nat
      /\ \A k \in 1 .. Len(some) : all[k] = some[k]
      /\ \A k \in 1 .. Len(last) : all[Len(some) + k] = last[k]
  BY <1>3, JoinItems
<1> QED BY <1>2, <1>4

IsList(list, op, lba, num) == list = IF op = "read" THEN ReadList(lba, num) ELSE WriteList(lba, num)

LEMMA StopIs ==
  ASSUME NEW num \in Nat
  PROVE  /\ Stop(num) \in Seq(Items) /\ Len(Stop(num)) = TellOf(num) /\ TellOf(num) \in {0, 1}
         /\ \A k \in 1 .. Len(Stop(num)) : Stop(num)[k] = Cmd("stop", 0, 0)
<1>1. Cmd("stop", 0, 0) \in Items
  BY CodeIs DEF Codes, Moving
<1> QED BY <1>1 DEF Stop, TellOf

(* What a call has to do, by place *)
LEMMA CallListIs ==
  ASSUME NEW op \in {"read", "write"}, NEW lba \in Nat, NEW num \in Nat \ {0}, num > 1 => sd.ccs,
         NEW list, IsList(list, op, lba, num)
  PROVE  /\ list \in Seq(Items) /\ Len(list) = EndsOf(op, num) + 2 + LeadOf(num)
         /\ \A k \in 1 .. Len(list) : list[k] = ItemOf(op, lba, num, k - 2 - LeadOf(num))
<1>1. PICK mv : IsMove(mv, op, lba, num)
  BY DEF IsMove
<1>2. /\ mv \in Seq(Items) /\ Len(mv) = LeadOf(num) + 1 + 2 * num /\ LeadOf(num) \in {0, 1}
      /\ LeadOf(num) = 1 => mv[1] = Cmd("blockcnt", num, 0)
      /\ mv[LeadOf(num) + 1] = DataCmdOf(op, lba, num)
      /\ \A k \in 1 .. 2 * num : mv[LeadOf(num) + 1 + k] = TurnOf(op, k)
  BY <1>1, MoveIs
<1>3. PICK lead \in {0, 1} : lead = LeadOf(num)
  BY <1>2
<1>31. Len(mv) = lead + 1 + 2 * num /\ Len(mv) \in Nat
  BY <1>2, <1>3
<1>4. PICK wait : wait = <<Wait(IF op = "read" THEN "dat" ELSE "write")>>
  OBVIOUS
<1>5. wait \in Seq(Items) /\ Len(wait) = 1 /\ wait[1] = Wait(IF op = "read" THEN "dat" ELSE "write")
  BY <1>4, ItemsAre
<1>6. PICK stop : stop = Stop(num)
  OBVIOUS
<1>7. PICK tell \in {0, 1} : tell = TellOf(num)
  BY DEF TellOf
<1>8. stop \in Seq(Items) /\ Len(stop) = tell /\ \A k \in 1 .. Len(stop) : stop[k] = Cmd("stop", 0, 0)
  BY <1>6, <1>7, StopIs
<1>9. \A k \in 1 .. Len(mv) : mv[k] = ItemOf(op, lba, num, k - 1 - lead)
  <2> SUFFICES ASSUME NEW k \in 1 .. Len(mv) PROVE mv[k] = ItemOf(op, lba, num, k - 1 - lead)
    OBVIOUS
  <2>1. k \in Int /\ 1 <= k /\ k <= lead + 1 + 2 * num
    BY <1>2, <1>3
  <2>2. CASE k < lead + 1
    <3>1. PICK r : r = k - 1 - lead
      OBVIOUS
    <3>2. k = 1 /\ lead = 1
      BY <2>1, <2>2
    <3>3. r = -1
      BY <3>1, <3>2
    <3>4. ItemOf(op, lba, num, r) = Cmd("blockcnt", num, 0)
      BY <1>3, <3>2, <3>3 DEF ItemOf
    <3>5. mv[k] = Cmd("blockcnt", num, 0)
      BY <1>2, <1>3, <3>2
    <3> QED BY <3>1, <3>4, <3>5
  <2>3. CASE k = lead + 1
    <3>1. PICK r : r = k - 1 - lead
      OBVIOUS
    <3>2. r = 0
      BY <2>1, <2>3, <3>1
    <3>3. ItemOf(op, lba, num, r) = DataCmdOf(op, lba, num)
      BY <1>3, <3>2 DEF ItemOf
    <3>4. mv[k] = DataCmdOf(op, lba, num)
      BY <1>2, <1>3, <2>3
    <3> QED BY <3>1, <3>3, <3>4
  <2>4. CASE k > lead + 1
    <3>1. PICK r : r = k - 1 - lead
      OBVIOUS
    <3>2. r \in 1 .. 2 * num /\ k = lead + 1 + r /\ ~(r < -lead) /\ r # -1 /\ r # 0
      BY <2>1, <2>4, <3>1
    <3>3. mv[k] = TurnOf(op, r)
      BY <1>2, <1>3, <3>2
    <3>4. ItemOf(op, lba, num, r) = TurnOf(op, r)
      BY <1>3, <3>2 DEF ItemOf
    <3> QED BY <3>1, <3>3, <3>4
  <2> QED BY <2>1, <2>2, <2>3, <2>4
<1>10. ItemOf(op, lba, num, -1 - lead) = wait[1]
  BY <1>3, <1>5 DEF ItemOf
<1>11. CASE op = "read"
  <2>1. list = (wait \o mv) \o stop
    BY <1>1, <1>4, <1>6, <1>11 DEF IsList, ReadList, IsMove, FlagOf, StepOf
  <2>2. wait \in Seq(Items) /\ mv \in Seq(Items) /\ stop \in Seq(Items)
    BY <1>2, <1>5, <1>8
  <2>3. /\ list \in Seq(Items) /\ Len(list) = Len(wait) + Len(mv) + Len(stop)
        /\ Len(mv) \in Nat
        /\ \A k \in 1 .. Len(wait) : list[k] = wait[k]
        /\ \A k \in 1 .. Len(mv) : list[Len(wait) + k] = mv[k]
        /\ \A k \in 1 .. Len(stop) : list[Len(wait) + Len(mv) + k] = stop[k]
    BY <2>1, <2>2, ThreeParts
  <2>4. Len(wait) = 1 /\ Len(stop) = tell
    BY <1>5, <1>8
  <2>5. /\ Len(list) = 1 + Len(mv) + tell /\ list[1] = wait[1]
        /\ \A k \in 1 .. Len(mv) : list[1 + k] = mv[k]
        /\ \A k \in 1 .. tell : list[1 + Len(mv) + k] = stop[k]
    BY <2>3, <2>4
  <2>6. ASSUME NEW k \in 1 .. Len(list) PROVE list[k] = ItemOf(op, lba, num, k - 2 - lead)
    <3>1. k \in Int /\ 1 <= k /\ k <= 1 + Len(mv) + tell
      BY <2>3, <2>5
    <3>2. CASE k = 1
      <4>1. k - 2 - lead = -1 - lead
        BY <3>2
      <4> QED BY <1>10, <2>5, <3>2, <4>1
    <3>3. CASE k > 1 /\ k <= 1 + Len(mv)
      <4>1. PICK i : i = k - 1
        OBVIOUS
      <4>2. i \in 1 .. Len(mv) /\ 1 + i = k /\ i - 1 - lead = k - 2 - lead
        BY <1>31, <3>1, <3>3, <4>1
      <4>3. list[1 + i] = mv[i] /\ mv[i] = ItemOf(op, lba, num, i - 1 - lead)
        BY <1>9, <2>5, <4>2
      <4> QED BY <4>2, <4>3
    <3>4. CASE k > 1 + Len(mv)
      <4>1. k = 1 + Len(mv) + 1 /\ tell = 1
        BY <2>3, <3>1, <3>4
      <4>2. list[k] = Cmd("stop", 0, 0)
        BY <1>8, <2>4, <2>5, <4>1
      <4>3. k - 2 - lead = 2 * num + 1
        BY <1>31, <4>1
      <4>4. ItemOf(op, lba, num, 2 * num + 1) = Cmd("stop", 0, 0)
        BY <1>3, <1>11 DEF ItemOf
      <4> QED BY <4>2, <4>3, <4>4
    <3> QED BY <3>1, <3>2, <3>3, <3>4
  <2>7. Len(list) = EndsOf(op, num) + 2 + lead
    BY <1>2, <1>3, <1>7, <1>11, <2>5 DEF EndsOf
  <2> QED BY <1>3, <2>3, <2>6, <2>7
<1>12. CASE op = "write"
  <2>0. PICK one : one = <<Await("data_done")>>
    OBVIOUS
  <2>01. one \in Seq(Items) /\ Len(one) = 1 /\ one[1] = Await("data_done")
    BY <2>0, ItemsAre
  <2>1. list = ((wait \o mv) \o one) \o stop
    BY <1>1, <1>4, <1>6, <1>12, <2>0 DEF IsList, WriteList, IsMove, FlagOf, StepOf
  <2>2. wait \in Seq(Items) /\ mv \in Seq(Items) /\ one \in Seq(Items) /\ stop \in Seq(Items)
    BY <1>2, <1>5, <1>8, <2>01
  <2>3. /\ list \in Seq(Items) /\ Len(list) = Len(wait) + Len(mv) + Len(one) + Len(stop)
        /\ Len(mv) \in Nat
        /\ \A k \in 1 .. Len(wait) : list[k] = wait[k]
        /\ \A k \in 1 .. Len(mv) : list[Len(wait) + k] = mv[k]
        /\ \A k \in 1 .. Len(one) : list[Len(wait) + Len(mv) + k] = one[k]
        /\ \A k \in 1 .. Len(stop) : list[Len(wait) + Len(mv) + Len(one) + k] = stop[k]
    BY <2>1, <2>2, FourParts
  <2>4. Len(wait) = 1 /\ Len(one) = 1 /\ Len(stop) = tell
    BY <1>5, <1>8, <2>01
  <2>5. /\ Len(list) = 2 + Len(mv) + tell /\ list[1] = wait[1]
        /\ \A k \in 1 .. Len(mv) : list[1 + k] = mv[k]
        /\ list[2 + Len(mv)] = one[1]
        /\ \A k \in 1 .. tell : list[2 + Len(mv) + k] = stop[k]
    <3>1. Len(list) = 2 + Len(mv) + tell /\ list[1] = wait[1]
      BY <2>3, <2>4
    <3>2. \A k \in 1 .. Len(mv) : list[1 + k] = mv[k]
      BY <2>3, <2>4
    <3>3. list[2 + Len(mv)] = one[1]
      <4>1. list[Len(wait) + Len(mv) + 1] = one[1]
        BY <2>3, <2>4
      <4>2. Len(wait) + Len(mv) + 1 = 2 + Len(mv)
        BY <2>3, <2>4
      <4> QED BY <4>1, <4>2
    <3>4. ASSUME NEW k \in 1 .. tell PROVE list[2 + Len(mv) + k] = stop[k]
      <4>1. list[Len(wait) + Len(mv) + Len(one) + k] = stop[k]
        BY <2>3, <2>4
      <4>2. Len(wait) + Len(mv) + Len(one) + k = 2 + Len(mv) + k
        BY <2>3, <2>4
      <4> QED BY <4>1, <4>2
    <3> QED BY <3>1, <3>2, <3>3, <3>4
  <2>6. ASSUME NEW k \in 1 .. Len(list) PROVE list[k] = ItemOf(op, lba, num, k - 2 - lead)
    <3>1. k \in Int /\ 1 <= k /\ k <= 2 + Len(mv) + tell
      BY <2>3, <2>5
    <3>2. CASE k = 1
      <4>1. k - 2 - lead = -1 - lead
        BY <3>2
      <4> QED BY <1>10, <2>5, <3>2, <4>1
    <3>3. CASE k > 1 /\ k <= 1 + Len(mv)
      <4>1. PICK i : i = k - 1
        OBVIOUS
      <4>2. i \in 1 .. Len(mv) /\ 1 + i = k /\ i - 1 - lead = k - 2 - lead
        BY <1>31, <3>1, <3>3, <4>1
      <4>3. list[1 + i] = mv[i] /\ mv[i] = ItemOf(op, lba, num, i - 1 - lead)
        BY <1>9, <2>5, <4>2
      <4> QED BY <4>2, <4>3
    <3>4. CASE k = 2 + Len(mv)
      <4>3. k - 2 - lead = 2 * num + 1
        BY <1>31, <3>4
      <4>4. ItemOf(op, lba, num, 2 * num + 1) = Await("data_done")
        BY <1>3, <1>12 DEF ItemOf
      <4> QED BY <2>01, <2>5, <3>4, <4>3, <4>4
    <3>5. CASE k > 2 + Len(mv)
      <4>1. k = 2 + Len(mv) + 1 /\ tell = 1
        BY <2>3, <3>1, <3>5
      <4>2. list[k] = Cmd("stop", 0, 0)
        BY <1>8, <2>4, <2>5, <4>1
      <4>3. k - 2 - lead = 2 * num + 2
        BY <1>31, <4>1
      <4>4. ItemOf(op, lba, num, 2 * num + 2) = Cmd("stop", 0, 0)
        BY <1>3 DEF ItemOf
      <4> QED BY <4>2, <4>3, <4>4
    <3> QED BY <2>3, <3>1, <3>2, <3>3, <3>4, <3>5
  <2>7. Len(list) = EndsOf(op, num) + 2 + lead
    BY <1>2, <1>3, <1>7, <1>12, <2>5 DEF EndsOf
  <2> QED BY <1>3, <2>3, <2>6, <2>7
<1> QED BY <1>11, <1>12

----------------------------------------------------------------------------
(* What a step of the driver comes to *)

Keeps ==
  /\ drv'.op = drv.op /\ drv'.lba = drv.lba /\ drv'.num = drv.num /\ drv'.data = drv.data
  /\ sd'.ready = sd.ready /\ sd'.ccs = sd.ccs
HostKeeps ==
  /\ host'.inhibit = host.inhibit /\ host'.fifo = host.fifo /\ host'.issued = host.issued
  /\ host'.xfer = host.xfer

Stays == /\ drv'.todo = drv.todo /\ drv'.phase = drv.phase /\ sd'.err = sd.err
         /\ host' = host /\ late' = late
GoesOn == drv'.todo = Tail(drv.todo) /\ drv'.phase = "start"
Ends0 == drv'.todo = <<>> /\ sd'.err # "ok"
Fails ==
  /\ sd'.err # "ok"
  /\ \/ drv'.todo = <<>>
     \/ Now.do = "cmd" /\ Now.on \in Unchecked /\ Now.on # "op_cond" /\ GoesOn
     \/ Now.do = "cmd" /\ Now.on = "op_cond" /\ drv'.todo = drv.todo /\ drv'.phase = "no_answer"
(* why a wait may fail *)
Because == late' = TRUE \/ (late' = late /\ Pending # {})
SameCall == Keeps /\ sd'.blkcnt = sd.blkcnt /\ drv'.buf = drv.buf /\ drv'.ccs = drv.ccs

LEMMA DoneIs ==
  ASSUME DrvType, drv.todo # <<>>
  PROVE  /\ Done(drv).op = drv.op /\ Done(drv).lba = drv.lba /\ Done(drv).num = drv.num
         /\ Done(drv).data = drv.data /\ Done(drv).ccs = drv.ccs /\ Done(drv).buf = drv.buf
         /\ Done(drv).todo = Tail(drv.todo) /\ Done(drv).phase = "start"
         /\ Done(drv) \in [op : {NONE, "init", "read", "write"}, lba : Nat, num : Nat, data : Words,
               todo : Seq(Items), phase : {"start", "issue", "answer", "answered", "no_answer"},
               cnt : Nat, tries : Int, ccs : BOOLEAN, buf : Seq(Words)]
<1>1. Tail(drv.todo) \in Seq(Items)
  BY NextItems DEF DrvType
<1>2. COUNTDOWN \in Nat
  BY CardAssumption
<1> QED BY <1>1, <1>2 DEF Done, DrvType

LEMMA FailedOut ==
  ASSUME DrvType, SdType, drv.todo # <<>>, NEW e \in {"timeout", "error"}, Failed(e)
  PROVE  SameCall /\ Fails /\ DrvType' /\ SdType'
<1>1. /\ sd'.err # "ok" /\ sd'.ready = sd.ready /\ sd'.ccs = sd.ccs /\ sd'.blkcnt = sd.blkcnt
      /\ SdType'
  BY DEF Failed, SdType
<1>2. CASE Now.do = "cmd" /\ Now.on \in Unchecked /\ Now.on # "op_cond"
  <2>1. drv' = Done(drv)
    BY <1>2 DEF Failed
  <2> QED BY <1>1, <1>2, <2>1, DoneIs DEF DrvType, SameCall, Keeps, Fails, GoesOn
<1>3. CASE Now.do = "cmd" /\ Now.on = "op_cond"
  <2>1. drv' = [drv EXCEPT !.phase = "no_answer"]
    BY <1>3 DEF Failed, Unchecked
  <2> QED BY <1>1, <1>3, <2>1 DEF DrvType, SameCall, Keeps, Fails
<1>4. CASE ~(Now.do = "cmd" /\ Now.on \in Unchecked)
  <2>1. drv' = [drv EXCEPT !.todo = <<>>]
    BY <1>4 DEF Failed
  <2>2. <<>> \in Seq(Items)
    OBVIOUS
  <2>3. DrvType'
    BY <2>1, <2>2 DEF DrvType
  <2>4. SameCall /\ drv'.todo = <<>>
    BY <1>1, <2>1 DEF DrvType, SameCall, Keeps
  <2> QED BY <1>1, <2>3, <2>4 DEF Fails
<1> QED BY <1>2, <1>3, <1>4

LEMMA TurnOut ==
  ASSUME DrvType, drv.cnt > 0, drv' = [drv EXCEPT !.cnt = @ - 1], UNCHANGED <<host, sd, late>>
  PROVE  SameCall /\ Stays /\ DrvType'
<1>1. DrvType'
  <2>1. drv.cnt - 1 \in Nat
    BY DEF DrvType
  <2> QED BY <2>1 DEF DrvType
<1>2. SameCall
  BY DEF DrvType, SameCall, Keeps
<1>3. Stays
  BY DEF DrvType, Stays
<1> QED BY <1>1, <1>2, <1>3

(* sd_status and the polls look at the controller and leave it alone. *)
LEMMA StatusOut ==
  ASSUME Types, StatusStep \/ PollStep
  PROVE  /\ drv.todo # <<>> /\ Now.do \in {"status", "poll"} /\ SameCall /\ host' = host
         /\ DrvType' /\ SdType'
         /\ \/ Stays
            \/ Fails /\ Because
            \/ /\ GoesOn /\ sd' = sd /\ late' = late
               /\ Now.do = "status" /\ Now.on = "dat" => "dat" \notin host.inhibit
               /\ Now.do = "status" /\ Now.on = "write" =>
                    "dat" \notin host.inhibit /\ "write" \notin host.inhibit
<1>0. DrvType /\ SdType
  BY DEF Types
<1>1. CASE StatusStep
  <2>1. drv.todo # <<>> /\ Now.do = "status" /\ Now.on \in {"dat", "write"}
    BY <1>1 DEF StatusStep, Doing
  <2>2. sd_status(Now.on, Done(drv))
    BY <1>1 DEF StatusStep
  <2>3. CASE drv.cnt > 0 /\ drv' = [drv EXCEPT !.cnt = @ - 1] /\ UNCHANGED <<host, sd, late>>
    <3>1. SameCall /\ Stays /\ DrvType'
      BY <1>0, <2>3, TurnOut
    <3>2. SdType' /\ host' = host
      BY <1>0, <2>3 DEF SdType
    <3> QED BY <2>1, <3>1, <3>2
  <2>4. CASE Failed("timeout") /\ host' = host /\ Because
    BY <1>0, <2>1, <2>4, FailedOut
  <2>5. CASE /\ drv' = Done(drv) /\ UNCHANGED <<host, sd, late>>
             /\ Mask[Now.on] \cap host.inhibit = {}
    <3>1. SameCall /\ GoesOn /\ DrvType' /\ SdType'
      BY <1>0, <2>1, <2>5, DoneIs DEF SameCall, Keeps, GoesOn, DrvType, SdType
    <3>2. Now.on = "dat" => "dat" \notin host.inhibit
      BY <2>5 DEF Mask
    <3>3. Now.on = "write" => "dat" \notin host.inhibit /\ "write" \notin host.inhibit
      BY <2>5 DEF Mask
    <3> QED BY <2>1, <2>5, <3>1, <3>2, <3>3
  <2>6. \/ drv.cnt > 0 /\ drv' = [drv EXCEPT !.cnt = @ - 1] /\ UNCHANGED <<host, sd, late>>
        \/ Failed("timeout") /\ host' = host /\ Because
        \/ /\ drv' = Done(drv) /\ UNCHANGED <<host, sd, late>>
           /\ Mask[Now.on] \cap host.inhibit = {}
    <3> DEFINE busy == Mask[Now.on] \cap host.inhibit # {} /\ Pending = {}
    <3>1. CASE busy /\ drv.cnt > 0
      BY <2>2, <3>1 DEF sd_status, Countdown
    <3>2. CASE ~(busy /\ drv.cnt > 0) /\ drv.cnt = 0
      BY <2>2, <3>2 DEF sd_status, Countdown, Because
    <3>3. CASE ~busy /\ drv.cnt # 0
      <4>1. CASE Pending # {}
        BY <2>2, <3>3, <4>1 DEF sd_status, Countdown, Because
      <4>2. CASE Pending = {}
        BY <2>2, <3>3, <4>2 DEF sd_status, Countdown, Because
      <4> QED BY <4>1, <4>2
    <3>4. drv.cnt \in Nat
      BY <1>0 DEF DrvType
    <3> QED BY <3>1, <3>2, <3>3, <3>4
  <2> QED BY <2>3, <2>4, <2>5, <2>6
<1>2. CASE PollStep
  <2>1. drv.todo # <<>> /\ Now.do \in {"status", "poll"} /\ (Now.do = "status" => Now.on = "clock")
    BY <1>2 DEF PollStep, Doing
  <2>3. CASE drv.cnt > 0 /\ drv' = [drv EXCEPT !.cnt = @ - 1] /\ UNCHANGED <<host, sd, late>>
    <3>1. SameCall /\ Stays /\ DrvType'
      BY <1>0, <2>3, TurnOut
    <3>2. SdType' /\ host' = host
      BY <1>0, <2>3 DEF SdType
    <3> QED BY <2>1, <3>1, <3>2
  <2>4. CASE Failed("error") /\ host' = host /\ Because
    BY <1>0, <2>1, <2>4, FailedOut
  <2>5. CASE /\ drv' = Done(drv) /\ UNCHANGED <<host, sd, late>>
    <3>1. SameCall /\ GoesOn /\ DrvType' /\ SdType'
      BY <1>0, <2>1, <2>5, DoneIs DEF SameCall, Keeps, GoesOn, DrvType, SdType
    <3> QED BY <2>1, <2>5, <3>1
  <2> QED BY <1>2, <2>3, <2>4, <2>5 DEF PollStep, Countdown, Because
<1> QED BY <1>1, <1>2

LEMMA ClearIs ==
  ASSUME HostType, NEW flags \in SUBSET Flags, host' = [host EXCEPT !.int = flags]
  PROVE  HostType' /\ HostKeeps /\ host'.int = flags
<1>1. HostType'
  BY DEF HostType
<1>2. HostKeeps /\ host'.int = flags
  BY DEF HostType, HostKeeps
<1> QED BY <1>1, <1>2

(* sd_int, where the waits of a transfer call it *)
LEMMA IntOut ==
  ASSUME Types, IntStep
  PROVE  /\ drv.todo # <<>> /\ Now.do = "int" /\ SameCall /\ HostKeeps
         /\ DrvType' /\ SdType' /\ HostType'
         /\ \/ Stays
            \/ Ends0 /\ Because /\ host'.int = {}
            \/ /\ GoesOn /\ sd' = sd /\ late' = late /\ Pending = {}
               /\ Now.on \in host.int /\ host'.int = host.int \ {Now.on}
<1>0. DrvType /\ SdType /\ HostType
  BY DEF Types
<1>1. drv.todo # <<>> /\ Now.do = "int"
  BY DEF IntStep, Doing
<1>2. sd_int(Now.on, drv' = Done(drv) /\ UNCHANGED sd)
  BY DEF IntStep
<1>3. CASE drv.cnt > 0 /\ drv' = [drv EXCEPT !.cnt = @ - 1] /\ UNCHANGED <<host, sd, late>>
  <2>1. SameCall /\ Stays /\ DrvType'
    BY <1>0, <1>3, TurnOut
  <2>2. SdType' /\ HostType' /\ HostKeeps
    BY <1>0, <1>3 DEF SdType, HostType, HostKeeps
  <2> QED BY <1>1, <2>1, <2>2
<1>4. ASSUME NEW e \in {"timeout", "error"}, Failed(e), host' = [host EXCEPT !.int = {}], Because
      PROVE  /\ SameCall /\ HostKeeps /\ DrvType' /\ SdType' /\ HostType'
             /\ Ends0 /\ Because /\ host'.int = {}
  <2>1. SameCall /\ Fails /\ DrvType' /\ SdType'
    BY <1>0, <1>1, <1>4, FailedOut
  <2>2. HostType' /\ HostKeeps /\ host'.int = {}
    <3>1. {} \in SUBSET Flags
      OBVIOUS
    <3> QED BY <1>0, <1>4, <3>1, ClearIs
  <2>3. Ends0
    BY <1>1, <2>1 DEF Fails, Ends0
  <2> QED BY <1>4, <2>1, <2>2, <2>3
<1>5. CASE /\ drv' = Done(drv) /\ UNCHANGED <<sd, late>> /\ host' = [host EXCEPT !.int = @ \ {Now.on}]
           /\ Pending = {} /\ host.int \cap ({Now.on} \cup Errors) # {}
  <2>1. SameCall /\ GoesOn /\ DrvType' /\ SdType'
    BY <1>0, <1>1, <1>5, DoneIs DEF SameCall, Keeps, GoesOn, DrvType, SdType
  <2>2. PICK flags : flags = host.int \ {Now.on}
    OBVIOUS
  <2>3. flags \in SUBSET Flags
    BY <1>0, <2>2 DEF HostType
  <2>4. HostType' /\ HostKeeps /\ host'.int = flags
    BY <1>0, <1>5, <2>2, <2>3, ClearIs
  <2>5. Now.on \in host.int
    BY <1>5 DEF Pending
  <2> QED BY <1>1, <1>5, <2>1, <2>2, <2>4, <2>5
<1>6. \/ drv.cnt > 0 /\ drv' = [drv EXCEPT !.cnt = @ - 1] /\ UNCHANGED <<host, sd, late>>
      \/ \E e \in {"timeout", "error"} : Failed(e) /\ host' = [host EXCEPT !.int = {}] /\ Because
      \/ /\ drv' = Done(drv) /\ UNCHANGED <<sd, late>> /\ host' = [host EXCEPT !.int = @ \ {Now.on}]
         /\ Pending = {} /\ host.int \cap ({Now.on} \cup Errors) # {}
  <2> DEFINE busy == host.int \cap ({Now.on} \cup Errors) = {}
  <2>1. CASE busy /\ drv.cnt > 0
    BY <1>2, <2>1 DEF sd_int, Countdown
  <2>2. CASE ~(busy /\ drv.cnt > 0) /\ drv.cnt = 0
    BY <1>2, <2>2 DEF sd_int, Countdown, Because
  <2>3. CASE ~busy /\ drv.cnt # 0
    <3>1. CASE Pending # {}
      BY <1>2, <2>3, <3>1 DEF sd_int, Countdown, Because
    <3>2. CASE Pending = {}
      BY <1>2, <2>3, <3>2 DEF sd_int, Countdown, Because
    <3> QED BY <3>1, <3>2
  <2>4. drv.cnt \in Nat
    BY <1>0 DEF DrvType
  <2> QED BY <2>1, <2>2, <2>3, <2>4
<1> QED BY <1>1, <1>3, <1>4, <1>5, <1>6

(* sd_execute_command: the wait for the command line *)
LEMMA WaitOut ==
  ASSUME Types, CommandWait
  PROVE  /\ drv.todo # <<>> /\ Now.do = "cmd" /\ drv.phase = "start" /\ SameCall /\ host' = host
         /\ DrvType' /\ SdType'
         /\ \/ Stays
            \/ Fails /\ Because
            \/ /\ drv'.todo = drv.todo /\ drv'.phase = "issue" /\ sd' = sd /\ late' = late
               /\ "cmd" \notin host.inhibit
<1>0. DrvType /\ SdType
  BY DEF Types
<1>1. drv.todo # <<>> /\ Now.do = "cmd" /\ drv.phase = "start"
  BY DEF CommandWait, Doing
<1>2. sd_status("cmd", [drv EXCEPT !.phase = "issue", !.cnt = COUNTDOWN])
  BY DEF CommandWait
<1>3. CASE drv.cnt > 0 /\ drv' = [drv EXCEPT !.cnt = @ - 1] /\ UNCHANGED <<host, sd, late>>
  <2>1. SameCall /\ Stays /\ DrvType'
    BY <1>0, <1>3, TurnOut
  <2>2. SdType' /\ host' = host
    BY <1>0, <1>3 DEF SdType
  <2> QED BY <1>1, <2>1, <2>2
<1>4. CASE Failed("timeout") /\ host' = host /\ Because
  <2>1. SameCall /\ Fails /\ DrvType' /\ SdType'
    BY <1>0, <1>1, <1>4, FailedOut
  <2> QED BY <1>1, <1>4, <2>1
<1>5. CASE /\ drv' = [drv EXCEPT !.phase = "issue", !.cnt = COUNTDOWN] /\ UNCHANGED <<host, sd, late>>
           /\ Mask["cmd"] \cap host.inhibit = {}
  <2>1. COUNTDOWN \in Nat
    BY CardAssumption
  <2>2. DrvType'
    BY <1>0, <1>5, <2>1 DEF DrvType
  <2>3. SameCall /\ SdType' /\ drv'.todo = drv.todo /\ drv'.phase = "issue"
    BY <1>0, <1>5 DEF DrvType, SdType, SameCall, Keeps
  <2>4. "cmd" \notin host.inhibit
    BY <1>5 DEF Mask
  <2> QED BY <1>1, <1>5, <2>2, <2>3, <2>4
<1>6. \/ drv.cnt > 0 /\ drv' = [drv EXCEPT !.cnt = @ - 1] /\ UNCHANGED <<host, sd, late>>
      \/ Failed("timeout") /\ host' = host /\ Because
      \/ /\ drv' = [drv EXCEPT !.phase = "issue", !.cnt = COUNTDOWN] /\ UNCHANGED <<host, sd, late>>
         /\ Mask["cmd"] \cap host.inhibit = {}
  <2> DEFINE busy == Mask["cmd"] \cap host.inhibit # {} /\ Pending = {}
  <2>1. CASE busy /\ drv.cnt > 0
    BY <1>2, <2>1 DEF sd_status, Countdown
  <2>2. CASE ~(busy /\ drv.cnt > 0) /\ drv.cnt = 0
    BY <1>2, <2>2 DEF sd_status, Countdown, Because
  <2>3. CASE ~busy /\ drv.cnt # 0
    <3>1. CASE Pending # {}
      BY <1>2, <2>3, <3>1 DEF sd_status, Countdown, Because
    <3>2. CASE Pending = {}
      BY <1>2, <2>3, <3>2 DEF sd_status, Countdown, Because
    <3> QED BY <3>1, <3>2
  <2>4. drv.cnt \in Nat
    BY <1>0 DEF DrvType
  <2> QED BY <2>1, <2>2, <2>3, <2>4
<1> QED BY <1>3, <1>4, <1>5, <1>6

LEMMA NowIs ==
  ASSUME DrvType, drv.todo # <<>>
  PROVE  Now \in Items /\ (Now.do = "cmd" => Now \in Commands)
<1>1. Now \in Items
  BY NextItems DEF DrvType, Now
<1> QED BY <1>1 DEF Items, Waits, Fetch, Store, ReadScr

(* ... the start of the command, ... *)
LEMMA IssueOut ==
  ASSUME Types, CommandIssue
  PROVE  /\ drv.todo # <<>> /\ Now.do = "cmd" /\ drv.phase = "issue" /\ SameCall
         /\ Now \in Commands
         /\ DrvType' /\ SdType' /\ HostType'
         /\ drv'.todo = drv.todo /\ drv'.phase = "answer" /\ late' = late
         /\ host'.int = {} /\ host'.issued = Now /\ host'.inhibit = host.inhibit \cup Lines(Now)
         /\ host'.fifo = host.fifo /\ host'.xfer = host.xfer
<1>0. DrvType /\ SdType /\ HostType
  BY DEF Types
<1>1. drv.todo # <<>> /\ Now.do = "cmd" /\ drv.phase = "issue"
  BY DEF CommandIssue, Doing
<1>2. Now \in Commands
  BY <1>0, <1>1, NowIs
<1>3. drv' = [drv EXCEPT !.phase = "answer"] /\ late' = late
  BY DEF CommandIssue
<1>4. /\ sd' \in {[sd EXCEPT !.err = sd.err], [sd EXCEPT !.err = "ok"]}
  BY DEF CommandIssue
<1>5. SdType' /\ sd'.ready = sd.ready /\ sd'.ccs = sd.ccs /\ sd'.blkcnt = sd.blkcnt
  BY <1>0, <1>4 DEF SdType
<1>6. DrvType' /\ drv'.todo = drv.todo /\ drv'.phase = "answer"
  BY <1>0, <1>3 DEF DrvType
<1>7. SameCall
  BY <1>0, <1>3, <1>5 DEF SameCall, Keeps, DrvType
<1>8. PICK c \in Commands : c = Now
  BY <1>2
<1>9. PICK lines \in SUBSET {"cmd", "dat", "write"} : lines = host.inhibit \cup Lines(c)
  BY <1>0 DEF HostType, Lines
<1>10. host' = [host EXCEPT !.int = {}, !.issued = c, !.inhibit = lines]
  BY <1>8, <1>9 DEF CommandIssue
<1>11. HostType'
  BY <1>0, <1>10 DEF HostType
<1>12. /\ host'.int = {} /\ host'.issued = c /\ host'.inhibit = lines
       /\ host'.fifo = host.fifo /\ host'.xfer = host.xfer
  BY <1>0, <1>10 DEF HostType
<1> QED BY <1>1, <1>2, <1>3, <1>5, <1>6, <1>7, <1>8, <1>9, <1>11, <1>12

(* ... and the wait for its answer *)
LEMMA AnswerOut ==
  ASSUME Types, CommandAnswer
  PROVE  /\ drv.todo # <<>> /\ Now.do = "cmd" /\ drv.phase = "answer" /\ SameCall /\ HostKeeps
         /\ DrvType' /\ SdType' /\ HostType'
         /\ \/ Stays
            \/ Fails /\ Because /\ host'.int = {}
            \/ /\ late' = late /\ Pending = {}
               /\ "cmd_done" \in host.int /\ host'.int = host.int \ {"cmd_done"}
               /\ \/ GoesOn /\ Now.on # "op_cond"
                  \/ Ends0 /\ Now.on \in {"rel_addr", "app"}
                  \/ Now.on = "op_cond" /\ drv'.todo = drv.todo /\ drv'.phase = "answered"
<1>0. DrvType /\ SdType /\ HostType
  BY DEF Types
<1>1. drv.todo # <<>> /\ Now.do = "cmd" /\ drv.phase = "answer"
  BY DEF CommandAnswer, Doing
<1> DEFINE Told == CASE Now.on = "rel_addr" ->
                          \E err \in {"ok", "error"} :
                            /\ sd' = [sd EXCEPT !.rca = 1, !.err = err]
                            /\ drv' = IF err = "ok" THEN Done(drv) ELSE [drv EXCEPT !.todo = <<>>]
                     [] Now.on = "op_cond" -> UNCHANGED sd /\ drv' = [drv EXCEPT !.phase = "answered"]
                     [] Now.on = "app" -> \/ UNCHANGED sd /\ drv' = Done(drv)
                                          \/ Failed("error")
                     [] OTHER -> UNCHANGED sd /\ drv' = Done(drv)
<1>2. sd_int("cmd_done", Told)
  BY DEF CommandAnswer
<1>3. CASE drv.cnt > 0 /\ drv' = [drv EXCEPT !.cnt = @ - 1] /\ UNCHANGED <<host, sd, late>>
  <2>1. SameCall /\ Stays /\ DrvType'
    BY <1>0, <1>3, TurnOut
  <2>2. SdType' /\ HostType' /\ HostKeeps
    BY <1>0, <1>3 DEF SdType, HostType, HostKeeps
  <2> QED BY <1>1, <2>1, <2>2
<1>4. ASSUME NEW e \in {"timeout", "error"}, Failed(e), host' = [host EXCEPT !.int = {}], Because
      PROVE  /\ SameCall /\ HostKeeps /\ DrvType' /\ SdType' /\ HostType'
             /\ Fails /\ Because /\ host'.int = {}
  <2>1. SameCall /\ Fails /\ DrvType' /\ SdType'
    BY <1>0, <1>1, <1>4, FailedOut
  <2>2. HostType' /\ HostKeeps /\ host'.int = {}
    <3>1. {} \in SUBSET Flags
      OBVIOUS
    <3> QED BY <1>0, <1>4, <3>1, ClearIs
  <2> QED BY <1>4, <2>1, <2>2
<1>5. ASSUME Told
      PROVE  /\ SameCall /\ DrvType' /\ SdType'
             /\ \/ GoesOn /\ Now.on # "op_cond"
                \/ Ends0 /\ Now.on \in {"rel_addr", "app"}
                \/ Now.on = "op_cond" /\ drv'.todo = drv.todo /\ drv'.phase = "answered"
  <2>1. ASSUME drv' = Done(drv), sd' = sd, Now.on # "op_cond"
        PROVE  SameCall /\ DrvType' /\ SdType' /\ GoesOn
    BY <1>0, <1>1, <2>1, DoneIs DEF SameCall, Keeps, GoesOn, DrvType, SdType
  <2>2. CASE Now.on = "rel_addr"
    <3>1. PICK err \in {"ok", "error"} :
             /\ sd' = [sd EXCEPT !.rca = 1, !.err = err]
             /\ drv' = IF err = "ok" THEN Done(drv) ELSE [drv EXCEPT !.todo = <<>>]
      BY <1>5, <2>2
    <3>2. SdType' /\ sd'.ready = sd.ready /\ sd'.ccs = sd.ccs /\ sd'.blkcnt = sd.blkcnt /\ sd'.err = err
      BY <1>0, <3>1 DEF SdType
    <3>3. CASE err = "ok"
      <4>1. drv' = Done(drv)
        BY <3>1, <3>3
      <4> QED BY <1>0, <1>1, <2>2, <3>2, <4>1, DoneIs DEF SameCall, Keeps, GoesOn, DrvType
    <3>4. CASE err = "error"
      <4>1. drv' = [drv EXCEPT !.todo = <<>>]
        BY <3>1, <3>4
      <4>2. <<>> \in Seq(Items)
        OBVIOUS
      <4>3. DrvType'
        BY <1>0, <4>1, <4>2 DEF DrvType
      <4>4. SameCall /\ Ends0
        BY <1>0, <3>2, <3>4, <4>1 DEF DrvType, SameCall, Keeps, Ends0
      <4> QED BY <2>2, <3>2, <4>3, <4>4
    <3> QED BY <3>3, <3>4
  <2>3. CASE Now.on = "op_cond"
    <3>1. sd' = sd /\ drv' = [drv EXCEPT !.phase = "answered"]
      BY <1>5, <2>3
    <3> QED BY <1>0, <2>3, <3>1 DEF DrvType, SdType, SameCall, Keeps
  <2>4. CASE Now.on = "app"
    <3>1. CASE sd' = sd /\ drv' = Done(drv)
      BY <2>1, <2>4, <3>1
    <3>2. CASE Failed("error")
      <4>1. SameCall /\ Fails /\ DrvType' /\ SdType'
        BY <1>0, <1>1, <3>2, FailedOut
      <4>2. Ends0
        BY <2>4, <4>1 DEF Fails, Unchecked, Ends0
      <4> QED BY <2>4, <4>1, <4>2
    <3>3. (sd' = sd /\ drv' = Done(drv)) \/ Failed("error")
      BY <1>5, <2>4
    <3> QED BY <3>1, <3>2, <3>3
  <2>5. CASE Now.on \notin {"rel_addr", "op_cond", "app"}
    <3>1. sd' = sd /\ drv' = Done(drv)
      BY <1>5, <2>5
    <3> QED BY <2>1, <2>5, <3>1
  <2> QED BY <2>2, <2>3, <2>4, <2>5
<1>6. CASE Told /\ host' = [host EXCEPT !.int = @ \ {"cmd_done"}] /\ late' = late
           /\ Pending = {} /\ host.int \cap ({"cmd_done"} \cup Errors) # {}
  <2>1. PICK flags : flags = host.int \ {"cmd_done"}
    OBVIOUS
  <2>2. flags \in SUBSET Flags
    BY <1>0, <2>1 DEF HostType
  <2>3. HostType' /\ HostKeeps /\ host'.int = flags
    BY <1>0, <1>6, <2>1, <2>2, ClearIs
  <2>4. "cmd_done" \in host.int
    BY <1>6 DEF Pending
  <2> HIDE DEF Told
  <2> QED BY <1>1, <1>5, <1>6, <2>1, <2>3, <2>4
<1>7. \/ drv.cnt > 0 /\ drv' = [drv EXCEPT !.cnt = @ - 1] /\ UNCHANGED <<host, sd, late>>
      \/ \E e \in {"timeout", "error"} : Failed(e) /\ host' = [host EXCEPT !.int = {}] /\ Because
      \/ Told /\ host' = [host EXCEPT !.int = @ \ {"cmd_done"}] /\ late' = late
           /\ Pending = {} /\ host.int \cap ({"cmd_done"} \cup Errors) # {}
  <2> HIDE DEF Told
  <2> DEFINE busy == host.int \cap ({"cmd_done"} \cup Errors) = {}
  <2>1. CASE busy /\ drv.cnt > 0
    BY <1>2, <2>1 DEF sd_int, Countdown
  <2>2. CASE ~(busy /\ drv.cnt > 0) /\ drv.cnt = 0
    BY <1>2, <2>2 DEF sd_int, Countdown, Because
  <2>3. CASE ~busy /\ drv.cnt # 0
    <3>1. CASE Pending # {}
      BY <1>2, <2>3, <3>1 DEF sd_int, Countdown, Because
    <3>2. CASE Pending = {}
      BY <1>2, <2>3, <3>2 DEF sd_int, Countdown, Because
    <3> QED BY <3>1, <3>2
  <2>4. drv.cnt \in Nat
    BY <1>0 DEF DrvType
  <2> QED BY <2>1, <2>2, <2>3, <2>4
<1> HIDE DEF Told
<1> QED BY <1>1, <1>3, <1>4, <1>6, <1>7

LEMMA EnableOut ==
  ASSUME Types, EnableCard
  PROVE  /\ drv.todo # <<>> /\ Now.do = "cmd" /\ drv.phase \in {"answered", "no_answer"}
         /\ Keeps /\ sd'.blkcnt = sd.blkcnt /\ drv'.buf = drv.buf
         /\ host' = host /\ late' = late /\ DrvType' /\ SdType'
         /\ \/ Ends0
            \/ drv'.todo = InitRest /\ drv'.ccs = card.hc /\ drv'.phase = "start"
            \/ drv'.todo = App("op_cond") /\ drv'.phase = "start"
<1>0. DrvType /\ SdType /\ CardType
  BY DEF Types
<1>1. drv.todo # <<>> /\ Now.do = "cmd" /\ drv.phase \in {"answered", "no_answer"}
  BY DEF EnableCard, Doing
<1>2. host' = host /\ late' = late
  BY DEF EnableCard
<1>3. PICK d : d = Done(drv)
  OBVIOUS
<1>4. /\ d.op = drv.op /\ d.lba = drv.lba /\ d.num = drv.num
      /\ d.data = drv.data /\ d.buf = drv.buf /\ d.phase = "start"
      /\ d \in [op : {NONE, "init", "read", "write"}, lba : Nat, num : Nat, data : Words,
               todo : Seq(Items), phase : {"start", "issue", "answer", "answered", "no_answer"},
               cnt : Nat, tries : Int, ccs : BOOLEAN, buf : Seq(Words)]
  BY <1>0, <1>1, <1>3, DoneIs
<1>5. \/ \E e \in {"timeout", "error"} : sd' = [sd EXCEPT !.err = e] /\ drv' = [drv EXCEPT !.todo = <<>>]
      \/ drv' = [d EXCEPT !.todo = InitRest, !.ccs = card.hc] /\ sd' = sd
      \/ drv' = [d EXCEPT !.todo = App("op_cond"), !.tries = @ - 1] /\ sd' = sd
  <2>1. PICK says : IF sd.err = "error" \/ LastTry
                    THEN /\ sd' = [sd EXCEPT !.err = IF @ = "error" THEN @ ELSE "timeout"]
                         /\ drv' = [drv EXCEPT !.todo = <<>>]
                    ELSE IF says = "low"
                    THEN sd' = [sd EXCEPT !.err = "error"] /\ drv' = [drv EXCEPT !.todo = <<>>]
                    ELSE IF says = "up"
                    THEN drv' = [Done(drv) EXCEPT !.todo = InitRest, !.ccs = card.hc] /\ UNCHANGED sd
                    ELSE /\ UNCHANGED sd
                         /\ drv' = [Done(drv) EXCEPT !.todo = App("op_cond"), !.tries = @ - 1]
    BY DEF EnableCard
  <2> QED BY <1>3, <2>1
<1>6. ASSUME NEW e \in {"timeout", "error"}, sd' = [sd EXCEPT !.err = e], drv' = [drv EXCEPT !.todo = <<>>]
      PROVE  Keeps /\ sd'.blkcnt = sd.blkcnt /\ drv'.buf = drv.buf /\ DrvType' /\ SdType' /\ Ends0
  <2>1. <<>> \in Seq(Items)
    OBVIOUS
  <2>2. DrvType'
    BY <1>0, <1>6, <2>1 DEF DrvType
  <2>3. SdType' /\ sd'.ready = sd.ready /\ sd'.ccs = sd.ccs /\ sd'.blkcnt = sd.blkcnt /\ sd'.err = e
    BY <1>0, <1>6 DEF SdType
  <2> QED BY <1>0, <1>6, <2>2, <2>3 DEF DrvType, Keeps, Ends0
<1>7. CASE drv' = [d EXCEPT !.todo = InitRest, !.ccs = card.hc] /\ sd' = sd
  <2>1. InitRest \in Seq(Items) /\ card.hc \in BOOLEAN
    BY <1>0, InitRestIs DEF CardType
  <2>2. DrvType' /\ SdType'
    BY <1>0, <1>4, <1>7, <2>1 DEF DrvType, SdType
  <2>3. Keeps /\ sd'.blkcnt = sd.blkcnt /\ drv'.buf = drv.buf /\ drv'.todo = InitRest /\ drv'.phase = "start"
        /\ drv'.ccs = card.hc
    BY <1>4, <1>7 DEF Keeps
  <2> QED BY <1>1, <1>2, <2>2, <2>3
<1>8. CASE drv' = [d EXCEPT !.todo = App("op_cond"), !.tries = @ - 1] /\ sd' = sd
  <2>1. App("op_cond") \in Seq(Items) /\ Len(App("op_cond")) = 2 /\ d.tries - 1 \in Int
    BY <1>4, AppIs
  <2>2. DrvType' /\ SdType'
    BY <1>0, <1>4, <1>8, <2>1 DEF DrvType, SdType
  <2>3. Keeps /\ sd'.blkcnt = sd.blkcnt /\ drv'.buf = drv.buf /\ drv'.todo = App("op_cond") /\ drv'.phase = "start"
    BY <1>4, <1>8 DEF Keeps
  <2> QED BY <1>1, <1>2, <2>2, <2>3
<1> QED BY <1>1, <1>2, <1>5, <1>6, <1>7, <1>8

(* The data register *)
LEMMA FetchOut ==
  ASSUME Types, FetchStep
  PROVE  /\ drv.todo # <<>> /\ Now.do = "fetch" /\ Keeps /\ GoesOn
         /\ sd' = sd /\ late' = late /\ DrvType' /\ HostType' /\ drv'.ccs = drv.ccs
         /\ drv'.buf = Append(drv.buf, host.fifo)
         /\ host'.fifo = NONE /\ host'.int = host.int /\ host'.inhibit = host.inhibit
         /\ host'.issued = host.issued /\ host'.xfer = host.xfer
<1>0. DrvType /\ HostType
  BY DEF Types
<1>1. drv.todo # <<>> /\ Now.do = "fetch" /\ sd' = sd /\ late' = late
  BY DEF FetchStep, Doing
<1>2. PICK d : d = Done(drv)
  OBVIOUS
<1>3. /\ d.op = drv.op /\ d.lba = drv.lba /\ d.num = drv.num /\ d.ccs = drv.ccs /\ d.todo = Tail(drv.todo)
      /\ d.data = drv.data /\ d.buf = drv.buf /\ d.phase = "start"
      /\ d \in [op : {NONE, "init", "read", "write"}, lba : Nat, num : Nat, data : Words,
               todo : Seq(Items), phase : {"start", "issue", "answer", "answered", "no_answer"},
               cnt : Nat, tries : Int, ccs : BOOLEAN, buf : Seq(Words)]
  BY <1>0, <1>1, <1>2, DoneIs
<1>4. PICK more \in Seq(Words) : more = Append(d.buf, host.fifo)
  <2>1. host.fifo \in Words /\ d.buf \in Seq(Words)
    BY <1>0, <1>3 DEF HostType
  <2>2. Append(d.buf, host.fifo) \in Seq(Words)
    BY <2>1
  <2> QED BY <2>2
<1>5. drv' = [d EXCEPT !.buf = more]
  BY <1>2, <1>4 DEF FetchStep
<1>6. DrvType'
  BY <1>3, <1>5 DEF DrvType
<1>7. Keeps /\ GoesOn /\ drv'.ccs = drv.ccs /\ drv'.buf = more
  BY <1>1, <1>3, <1>5 DEF Keeps, GoesOn
<1>8. host' = [host EXCEPT !.fifo = NONE] /\ NONE \in Words
  BY DEF FetchStep, Words
<1>9. HostType'
  BY <1>0, <1>8 DEF HostType
<1>10. /\ host'.fifo = NONE /\ host'.int = host.int /\ host'.inhibit = host.inhibit
       /\ host'.issued = host.issued /\ host'.xfer = host.xfer
  BY <1>0, <1>8 DEF HostType
<1> QED BY <1>1, <1>3, <1>4, <1>6, <1>7, <1>9, <1>10

LEMMA StoreOut ==
  ASSUME Types, StoreStep
  PROVE  /\ drv.todo # <<>> /\ Now.do = "store" /\ SameCall /\ GoesOn
         /\ sd' = sd /\ late' = late /\ DrvType' /\ HostType'
         /\ host'.fifo = drv.data /\ host'.int = host.int /\ host'.inhibit = host.inhibit \ {"write"}
         /\ host'.issued = host.issued /\ host'.xfer = host.xfer
<1>0. DrvType /\ HostType
  BY DEF Types
<1>1. drv.todo # <<>> /\ Now.do = "store" /\ sd' = sd /\ late' = late
  BY DEF StoreStep, Doing
<1>2. drv' = Done(drv)
  BY DEF StoreStep
<1>3. SameCall /\ GoesOn /\ DrvType'
  BY <1>0, <1>1, <1>2, DoneIs DEF SameCall, Keeps, GoesOn, DrvType
<1>4. PICK lines \in SUBSET {"cmd", "dat", "write"} : lines = host.inhibit \ {"write"}
  BY <1>0 DEF HostType
<1>5. host' = [host EXCEPT !.fifo = drv.data, !.inhibit = lines] /\ drv.data \in Words
  BY <1>0, <1>4 DEF StoreStep, DrvType
<1>6. HostType'
  BY <1>0, <1>5 DEF HostType
<1>7. /\ host'.fifo = drv.data /\ host'.int = host.int /\ host'.inhibit = lines
      /\ host'.issued = host.issued /\ host'.xfer = host.xfer
  BY <1>0, <1>5 DEF HostType
<1> QED BY <1>1, <1>3, <1>4, <1>6, <1>7

LEMMA ScrOut ==
  ASSUME Types, ReadScrStep
  PROVE  /\ drv.todo # <<>> /\ Now.do = "scr" /\ Keeps /\ drv'.ccs = drv.ccs /\ drv'.buf = drv.buf
         /\ sd'.err = sd.err /\ late' = late /\ DrvType' /\ HostType' /\ SdType'
         /\ drv'.todo \in {App("bus_width"), <<>>} /\ drv'.phase = "start"
         /\ host'.fifo = NONE /\ host'.int = host.int /\ host'.inhibit = host.inhibit
         /\ host'.issued = host.issued /\ host'.xfer = host.xfer
<1>0. DrvType /\ HostType /\ SdType /\ CardType
  BY DEF Types
<1>1. drv.todo # <<>> /\ Now.do = "scr" /\ late' = late
  BY DEF ReadScrStep, Doing
<1>2. PICK d : d = Done(drv)
  OBVIOUS
<1>3. /\ d.op = drv.op /\ d.lba = drv.lba /\ d.num = drv.num /\ d.ccs = drv.ccs
      /\ d.data = drv.data /\ d.buf = drv.buf /\ d.phase = "start"
      /\ d \in [op : {NONE, "init", "read", "write"}, lba : Nat, num : Nat, data : Words,
               todo : Seq(Items), phase : {"start", "issue", "answer", "answered", "no_answer"},
               cnt : Nat, tries : Int, ccs : BOOLEAN, buf : Seq(Words)]
  BY <1>0, <1>1, <1>2, DoneIs
<1>4. PICK list \in {App("bus_width"), <<>>} : drv' = [d EXCEPT !.todo = list]
  <2>1. PICK wide \in BOOLEAN : drv' = [Done(drv) EXCEPT !.todo = IF wide THEN App("bus_width") ELSE <<>>]
    BY DEF ReadScrStep
  <2> QED BY <1>2, <2>1
<1>5. list \in Seq(Items)
  <2>1. App("bus_width") \in Seq(Items)
    BY AppIs
  <2>2. <<>> \in Seq(Items)
    OBVIOUS
  <2> QED BY <2>1, <2>2
<1>6. DrvType'
  BY <1>3, <1>4, <1>5 DEF DrvType
<1>7. sd' = [sd EXCEPT !.blkcnt = card.blkcnt] /\ card.blkcnt \in BOOLEAN
  BY <1>0 DEF ReadScrStep, CardType
<1>8. SdType' /\ sd'.err = sd.err /\ sd'.ready = sd.ready /\ sd'.ccs = sd.ccs
  BY <1>0, <1>7 DEF SdType
<1>9. Keeps /\ drv'.ccs = drv.ccs /\ drv'.buf = drv.buf /\ drv'.todo = list /\ drv'.phase = "start"
  BY <1>3, <1>4, <1>8 DEF Keeps
<1>10. host' = [host EXCEPT !.fifo = NONE] /\ NONE \in Words
  BY DEF ReadScrStep, Words
<1>11. HostType'
  BY <1>0, <1>10 DEF HostType
<1>12. /\ host'.fifo = NONE /\ host'.int = host.int /\ host'.inhibit = host.inhibit
       /\ host'.issued = host.issued /\ host'.xfer = host.xfer
  BY <1>0, <1>10 DEF HostType
<1> QED BY <1>1, <1>6, <1>8, <1>9, <1>11, <1>12

----------------------------------------------------------------------------
(* The beginning and the end of a call *)

LEMMA CallOut ==
  ASSUME NEW op \in {"init", "read", "write"}, NEW lba \in Nat, NEW num \in Nat, NEW data \in Words,
         NEW list \in Seq(Items), Call(op, lba, num, data, list)
  PROVE  /\ drv'.op = op /\ drv'.lba = lba /\ drv'.num = num /\ drv'.data = data /\ drv'.todo = list
         /\ drv'.phase = "start" /\ drv'.buf = <<>> /\ drv'.ccs = FALSE /\ DrvType'
<1>1. COUNTDOWN \in Nat /\ TRIES - 1 \in Int
  BY CardAssumption
<1>2. <<>> \in Seq(Words)
  OBVIOUS
<1>3. drv' = [op |-> op, lba |-> lba, num |-> num, data |-> data, todo |-> list,
              phase |-> "start", cnt |-> COUNTDOWN, tries |-> TRIES - 1, ccs |-> FALSE, buf |-> <<>>]
  BY DEF Call, NoCall
<1> QED BY <1>1, <1>2, <1>3 DEF DrvType

LEMMA NoCallIs ==
  ASSUME drv = NoCall
  PROVE  /\ drv.op = NONE /\ drv.todo = <<>> /\ drv.phase = "start" /\ DrvType
<1>1. COUNTDOWN \in Nat /\ NONE \in Words
  BY CardAssumption DEF Words
<1>2. <<>> \in Seq(Words) /\ <<>> \in Seq(Items)
  OBVIOUS
<1> QED BY <1>1, <1>2 DEF NoCall, DrvType

LEMMA FinishOut ==
  ASSUME Types, Finish
  PROVE  /\ drv.op # NONE /\ drv.todo = <<>> /\ host' = host /\ late' = late
         /\ drv'.op = NONE /\ drv'.todo = <<>> /\ drv'.phase = "start" /\ DrvType' /\ SdType'
         /\ sd'.err = sd.err /\ (sd.ready => sd'.ready)
         /\ \/ sd'.ready = sd.ready /\ sd'.ccs = sd.ccs
            \/ drv.op = "init" /\ sd.err = "ok" /\ sd'.ccs = drv.ccs
         /\ sure' = [b \in Blocks |->
                IF drv.op = "write" /\ sd.err = "ok" /\ b \in drv.lba .. drv.lba + drv.num - 1
                THEN drv.data ELSE sure[b]]
         /\ sure' \in [Blocks -> Words]
<1>0. DrvType /\ SdType /\ sure \in [Blocks -> Words]
  BY DEF Types
<1>1. drv.op # NONE /\ drv.todo = <<>> /\ host' = host /\ late' = late /\ drv' = NoCall
  BY DEF Finish
<1>2. drv'.op = NONE /\ drv'.todo = <<>> /\ drv'.phase = "start" /\ DrvType'
  <2>1. COUNTDOWN \in Nat /\ NONE \in Words
    BY CardAssumption DEF Words
  <2>2. <<>> \in Seq(Words) /\ <<>> \in Seq(Items)
    OBVIOUS
  <2> QED BY <1>1, <2>1, <2>2 DEF NoCall, DrvType
<1>3. drv.ccs \in BOOLEAN /\ drv.data \in Words
  BY <1>0 DEF DrvType
<1>4. CASE drv.op = "init" /\ sd.err = "ok"
  <2>1. sd' = [sd EXCEPT !.ready = TRUE, !.ccs = drv.ccs]
    BY <1>4 DEF Finish
  <2> QED BY <1>0, <1>1, <1>2, <1>3, <1>4, <2>1 DEF SdType, Finish
<1>5. CASE ~(drv.op = "init" /\ sd.err = "ok")
  <2>1. sd' = sd
    BY <1>5 DEF Finish
  <2>2. SdType'
    BY <1>0, <2>1 DEF SdType
  <2> QED BY <1>0, <1>1, <1>2, <1>3, <2>1, <2>2 DEF Finish
<1> QED BY <1>4, <1>5

----------------------------------------------------------------------------
(* The steps of the controller and the card *)

LEMMA IssuedIs ==
  ASSUME HostType
  PROVE  /\ host.issued # NoCmd => host.issued \in Commands
         /\ host.issued.num \in Nat /\ host.issued.arg \in Nat
         /\ host.issued.num > 0 <=> host.issued.on \in Moving
         /\ host.issued = NoCmd => host.issued.num = 0
         /\ host.issued.num = 0 => Kind(host.issued.on) = NONE
         /\ host.issued.num > 0 => Kind(host.issued.on) = host.issued.on
<1>1. host.issued \in Commands \cup {NoCmd}
  BY DEF HostType
<1>2. NoCmd.num = 0 /\ NoCmd.arg = 0 /\ NoCmd.on = NONE /\ NONE \notin Moving
  BY DEF NoCmd, Cmd, NONE, Moving
<1>3. /\ host.issued.num \in Nat /\ host.issued.arg \in Nat
      /\ host.issued.num > 0 <=> host.issued.on \in Moving
  BY <1>1, <1>2 DEF Commands
<1>4. \A code : (code \in Moving => Kind(code) = code) /\ (code \notin Moving => Kind(code) = NONE)
  BY DEF Kind, Moving
<1> QED BY <1>1, <1>2, <1>3, <1>4

LEMMA AddressedIs ==
  ASSUME NEW c, c.arg \in Nat
  PROVE  Addressed(c) \in Nat
<1>1. BLOCK_SIZE \in Nat \ {0}
  BY CardAssumption
<1>2. c.arg \div BLOCK_SIZE \in Nat
  BY <1>1
<1> QED BY <1>2 DEF Addressed

LEMMA AnswerHw ==
  ASSUME Types, Answer
  PROVE  /\ host.issued # NoCmd /\ HostType'
         /\ host'.int = host.int \cup {"cmd_done"} /\ host'.issued = NoCmd
         /\ host'.inhibit = host.inhibit \ {"cmd"} /\ host'.fifo = host.fifo
         /\ host.issued.num = 0 => host'.xfer = host.xfer
         /\ host.issued.num > 0 =>
              /\ host'.xfer.kind = host.issued.on /\ host'.xfer.left = host.issued.num
              /\ host'.xfer.block = Addressed(host.issued)
<1>0. HostType
  BY DEF Types
<1>1. PICK c : c = host.issued
  OBVIOUS
<1>2. /\ c # NoCmd /\ c \in Commands /\ c.num \in Nat /\ c.arg \in Nat /\ (c.num > 0 <=> c.on \in Moving)
      /\ (c.num = 0 => Kind(c.on) = NONE) /\ (c.num > 0 => Kind(c.on) = c.on)
  BY <1>0, <1>1, IssuedIs DEF Answer
<1>3. PICK flags \in SUBSET Flags : flags = host.int \cup {"cmd_done"}
  BY <1>0 DEF HostType, Flags
<1>4. PICK lines \in SUBSET {"cmd", "dat", "write"} : lines = host.inhibit \ {"cmd"}
  BY <1>0 DEF HostType
<1>5. Addressed(c) \in Nat
  BY <1>2, AddressedIs
<1>6. PICK x \in [kind : Moving \cup {NONE}, block : Nat, left : Nat] :
         x = IF c.num = 0 THEN host.xfer ELSE [kind |-> c.on, block |-> Addressed(c), left |-> c.num]
  <2>1. CASE c.num = 0
    BY <1>0, <2>1 DEF HostType
  <2>2. CASE c.num # 0
    <3>1. c.on \in Moving
      BY <1>2, <2>2
    <3> QED BY <1>2, <1>5, <2>2, <3>1
  <2> QED BY <2>1, <2>2
<1>7. host' = [host EXCEPT !.int = flags, !.issued = NoCmd, !.inhibit = lines, !.xfer = x]
  <2>1. host' = [host EXCEPT !.int = @ \cup {"cmd_done"}, !.issued = NoCmd, !.inhibit = @ \ {"cmd"},
                             !.xfer = IF Kind(c.on) = NONE THEN host.xfer
                                      ELSE [kind |-> Kind(c.on),
                                            block |-> IF Kind(c.on) = NONE THEN 0 ELSE Addressed(c),
                                            left |-> c.num]]
    BY <1>1 DEF Answer
  <2>2. x = IF Kind(c.on) = NONE THEN host.xfer
            ELSE [kind |-> Kind(c.on), block |-> IF Kind(c.on) = NONE THEN 0 ELSE Addressed(c),
                  left |-> c.num]
    <3>1. CASE c.num = 0
      BY <1>2, <1>6, <3>1
    <3>2. CASE c.num # 0
      <4>1. Kind(c.on) = c.on /\ c.on # NONE
        BY <1>2, <3>2 DEF Moving, NONE
      <4> QED BY <1>6, <3>2, <4>1
    <3> QED BY <3>1, <3>2
  <2> QED BY <1>3, <1>4, <2>1, <2>2
<1>8. HostType'
  BY <1>0, <1>7 DEF HostType
<1>9. /\ host'.int = flags /\ host'.issued = NoCmd /\ host'.inhibit = lines /\ host'.fifo = host.fifo
      /\ host'.xfer = x
  BY <1>0, <1>7 DEF HostType
<1>10. c.num > 0 => x.kind = c.on /\ x.left = c.num /\ x.block = Addressed(c)
  BY <1>6
<1>11. c.num = 0 => x = host.xfer
  BY <1>6
<1> QED BY <1>1, <1>2, <1>3, <1>4, <1>8, <1>9, <1>10, <1>11

LEMMA NoXferIs ==
  /\ NoXfer.kind = NONE /\ NoXfer.left = 0
  /\ NoXfer \in [kind : Moving \cup {NONE}, block : Nat, left : Nat]
BY DEF NoXfer

LEMMA ReportOut ==
  ASSUME HostType, faults \in Nat, NEW lines \in SUBSET {"cmd", "dat", "write"}, NEW fifo \in Words,
         NEW c \in Commands \cup {NoCmd}, NEW x \in [kind : Moving \cup {NONE}, block : Nat, left : Nat],
         ReportError([host EXCEPT !.inhibit = lines, !.fifo = fifo, !.issued = c, !.xfer = x])
  PROVE  /\ HostType' /\ faults' \in Nat
         /\ host'.inhibit = lines /\ host'.fifo = fifo /\ host'.issued = c /\ host'.xfer = x
         /\ host'.int \cap Errors # {} /\ host.int \subseteq host'.int
         /\ \A f \in host'.int : f \in host.int \/ f \in Errors
<1>1. PICK z : z = [host EXCEPT !.inhibit = lines, !.fifo = fifo, !.issued = c, !.xfer = x]
  OBVIOUS
<1>2. PICK e \in Errors : host' = [z EXCEPT !.int = @ \cup {e}] /\ faults' = faults + 1
  BY <1>1 DEF ReportError
<1>3. /\ z \in [inhibit : SUBSET {"cmd", "dat", "write"}, int : SUBSET Flags, fifo : Words,
                issued : Commands \cup {NoCmd}, xfer : [kind : Moving \cup {NONE}, block : Nat, left : Nat]]
      /\ z.inhibit = lines /\ z.fifo = fifo /\ z.issued = c /\ z.xfer = x /\ z.int = host.int
  BY <1>1 DEF HostType
<1>4. PICK flags \in SUBSET Flags : flags = z.int \cup {e}
  BY <1>3 DEF Flags
<1>5. host' = [z EXCEPT !.int = flags]
  BY <1>2, <1>4
<1>6. HostType'
  BY <1>3, <1>5 DEF HostType
<1>7. /\ host'.inhibit = lines /\ host'.fifo = fifo /\ host'.issued = c /\ host'.xfer = x
      /\ host'.int = flags
  BY <1>3, <1>5
<1>8. /\ flags \cap Errors # {} /\ host.int \subseteq flags
      /\ \A f \in flags : f \in host.int \/ f \in Errors
  BY <1>3, <1>4
<1> QED BY <1>2, <1>6, <1>7, <1>8

LEMMA AnswerErrorHw ==
  ASSUME Types, AnswerError
  PROVE  /\ host.issued # NoCmd /\ HostType' /\ faults' \in Nat
         /\ host'.inhibit = host.inhibit \ Lines(host.issued) /\ host'.fifo = host.fifo
         /\ host'.issued = NoCmd /\ host'.xfer = host.xfer
         /\ host'.int \cap Errors # {} /\ host.int \subseteq host'.int
         /\ \A f \in host'.int : f \in host.int \/ f \in Errors
<1>0. HostType /\ faults \in Nat /\ host.issued # NoCmd
  BY DEF Types, AnswerError
<1>1. PICK lines \in SUBSET {"cmd", "dat", "write"} : lines = host.inhibit \ Lines(host.issued)
  BY <1>0 DEF HostType
<1>2. host.fifo \in Words /\ host.xfer \in [kind : Moving \cup {NONE}, block : Nat, left : Nat]
      /\ NoCmd \in Commands \cup {NoCmd}
  BY <1>0 DEF HostType
<1>3. [host EXCEPT !.issued = NoCmd, !.inhibit = @ \ Lines(host.issued)]
        = [host EXCEPT !.inhibit = lines, !.fifo = host.fifo, !.issued = NoCmd, !.xfer = host.xfer]
  BY <1>0, <1>1 DEF HostType
<1>4. ReportError([host EXCEPT !.inhibit = lines, !.fifo = host.fifo, !.issued = NoCmd, !.xfer = host.xfer])
  BY <1>3 DEF AnswerError
<1> QED BY <1>0, <1>1, <1>2, <1>4, ReportOut

LEMMA DataErrorHw ==
  ASSUME Types, DataError
  PROVE  /\ X.left > 0 /\ HostType' /\ faults' \in Nat
         /\ host'.inhibit = host.inhibit \ {"dat", "write"} /\ host'.fifo = NONE
         /\ host'.issued = host.issued /\ host'.xfer = NoXfer
         /\ host'.int \cap Errors # {} /\ host.int \subseteq host'.int
         /\ \A f \in host'.int : f \in host.int \/ f \in Errors
<1>0. HostType /\ faults \in Nat /\ X.left > 0
  BY DEF Types, DataError
<1>1. PICK lines \in SUBSET {"cmd", "dat", "write"} : lines = host.inhibit \ {"dat", "write"}
  BY <1>0 DEF HostType
<1>2. NONE \in Words /\ NoXfer \in [kind : Moving \cup {NONE}, block : Nat, left : Nat]
      /\ host.issued \in Commands \cup {NoCmd}
  BY <1>0, NoXferIs DEF HostType, Words
<1>3. [host EXCEPT !.inhibit = @ \ {"dat", "write"}, !.fifo = NONE, !.xfer = NoXfer]
        = [host EXCEPT !.inhibit = lines, !.fifo = NONE, !.issued = host.issued, !.xfer = NoXfer]
  BY <1>0, <1>1 DEF HostType
<1>4. ReportError([host EXCEPT !.inhibit = lines, !.fifo = NONE, !.issued = host.issued, !.xfer = NoXfer])
  BY <1>3 DEF DataError
<1> QED BY <1>0, <1>1, <1>2, <1>4, ReportOut

LEMMA DataDoneHw ==
  ASSUME Types, DataDone
  PROVE  /\ X.kind # NONE /\ X.left = 0 /\ host.fifo = NONE /\ HostType'
         /\ host'.inhibit = host.inhibit \ {"dat"} /\ host'.fifo = host.fifo
         /\ host'.issued = host.issued /\ host'.xfer = NoXfer
         /\ host'.int = host.int \cup {"data_done"}
<1>0. HostType /\ X.kind # NONE /\ X.left = 0 /\ host.fifo = NONE
  BY DEF Types, DataDone
<1>1. PICK lines \in SUBSET {"cmd", "dat", "write"} : lines = host.inhibit \ {"dat"}
  BY <1>0 DEF HostType
<1>2. PICK flags \in SUBSET Flags : flags = host.int \cup {"data_done"}
  BY <1>0 DEF HostType, Flags
<1>3. host' = [host EXCEPT !.int = flags, !.inhibit = lines, !.xfer = NoXfer]
  BY <1>1, <1>2 DEF DataDone
<1>4. HostType'
  BY <1>0, <1>3, NoXferIs DEF HostType
<1>5. /\ host'.inhibit = lines /\ host'.fifo = host.fifo /\ host'.issued = host.issued
      /\ host'.xfer = NoXfer /\ host'.int = flags
  BY <1>0, <1>3 DEF HostType
<1> QED BY <1>0, <1>1, <1>2, <1>4, <1>5

(* A block in the FIFO or on the card *)
LEMMA MovedIs ==
  ASSUME HostType, X.left > 0
  PROVE  /\ [X EXCEPT !.block = @ + 1, !.left = @ - 1] \in [kind : Moving \cup {NONE}, block : Nat, left : Nat]
         /\ [X EXCEPT !.block = @ + 1, !.left = @ - 1].kind = X.kind
         /\ [X EXCEPT !.block = @ + 1, !.left = @ - 1].block = X.block + 1
         /\ [X EXCEPT !.block = @ + 1, !.left = @ - 1].left = X.left - 1
<1>1. X \in [kind : Moving \cup {NONE}, block : Nat, left : Nat]
  BY DEF HostType, X
<1>2. X.block + 1 \in Nat /\ X.left - 1 \in Nat
  BY <1>1
<1> QED BY <1>1, <1>2

LEMMA DataReadyHw ==
  ASSUME Types, DataReady
  PROVE  /\ X.left > 0 /\ HostType' /\ host.fifo = NONE
         /\ host'.issued = host.issued /\ UNCHANGED <<card, faults>>
         /\ \/ /\ X.kind \in {"read", "scr"} /\ host'.inhibit = host.inhibit
               /\ host'.int = host.int \cup {"read_rdy"}
               /\ host'.xfer.kind = X.kind /\ host'.xfer.block = X.block + 1
               /\ host'.xfer.left = X.left - 1
               /\ X.kind = "read" => host'.fifo = card.block[X.block % BLOCKS]
            \/ /\ X.kind = "write" /\ "write" \notin host.inhibit
               /\ host'.inhibit = host.inhibit \cup {"write"}
               /\ host'.int = host.int \cup {"write_rdy"}
               /\ host'.xfer = host.xfer /\ host'.fifo = host.fifo
<1>0. HostType /\ CardType /\ X.left > 0 /\ UNCHANGED <<card, faults>>
  BY DEF Types, DataReady
<1>1. CASE X.kind \in {"read", "scr"}
  <2>1. PICK x \in [kind : Moving \cup {NONE}, block : Nat, left : Nat] :
           /\ x = [X EXCEPT !.block = @ + 1, !.left = @ - 1]
           /\ x.kind = X.kind /\ x.block = X.block + 1 /\ x.left = X.left - 1
    BY <1>0, MovedIs
  <2>2. PICK flags \in SUBSET Flags : flags = host.int \cup {"read_rdy"}
    BY <1>0 DEF HostType, Flags
  <2>3. PICK word \in (IF X.kind = "scr" THEN {"scr", "short"} ELSE {card.block[X.block % BLOCKS]}) :
           host' = [host EXCEPT !.fifo = word, !.int = flags, !.xfer = x] /\ host.fifo = NONE
    BY <1>1, <2>1, <2>2 DEF DataReady
  <2>4. word \in Words /\ (X.kind = "read" => word = card.block[X.block % BLOCKS])
    <3>1. X.block % BLOCKS \in Blocks
      <4>1. X.block \in Nat
        BY <1>0 DEF HostType, X
      <4>2. BLOCKS \in Nat \ {0}
        BY CardAssumption
      <4> QED BY <4>1, <4>2 DEF Blocks
    <3>2. card.block[X.block % BLOCKS] \in Words
      BY <1>0, <3>1 DEF CardType
    <3> QED BY <2>3, <3>2 DEF Words
  <2>5. HostType'
    BY <1>0, <2>3, <2>4 DEF HostType
  <2>6. /\ host'.inhibit = host.inhibit /\ host'.fifo = word /\ host'.issued = host.issued
        /\ host'.xfer = x /\ host'.int = flags
    BY <1>0, <2>3 DEF HostType
  <2> QED BY <1>0, <1>1, <2>1, <2>2, <2>3, <2>4, <2>5, <2>6
<1>2. CASE X.kind = "write"
  <2>1. PICK lines \in SUBSET {"cmd", "dat", "write"} : lines = host.inhibit \cup {"write"}
    BY <1>0 DEF HostType
  <2>2. PICK flags \in SUBSET Flags : flags = host.int \cup {"write_rdy"}
    BY <1>0 DEF HostType, Flags
  <2>3. /\ host' = [host EXCEPT !.int = flags, !.inhibit = lines]
        /\ host.fifo = NONE /\ "write" \notin host.inhibit
    BY <1>2, <2>1, <2>2 DEF DataReady
  <2>4. HostType'
    BY <1>0, <2>3 DEF HostType
  <2>5. /\ host'.inhibit = lines /\ host'.fifo = host.fifo /\ host'.issued = host.issued
        /\ host'.xfer = host.xfer /\ host'.int = flags
    BY <1>0, <2>3 DEF HostType
  <2> QED BY <1>0, <1>2, <2>1, <2>2, <2>3, <2>4, <2>5
<1>3. X.kind \in {"read", "scr"} \/ X.kind = "write"
  BY DEF DataReady
<1> QED BY <1>1, <1>2, <1>3

LEMMA ProgramHw ==
  ASSUME Types, Program
  PROVE  /\ X.left > 0 /\ X.kind = "write" /\ host.fifo # NONE /\ HostType' /\ CardType'
         /\ host'.inhibit = host.inhibit /\ host'.fifo = NONE /\ host'.int = host.int
         /\ host'.issued = host.issued /\ host'.xfer.kind = X.kind
         /\ host'.xfer.block = X.block + 1 /\ host'.xfer.left = X.left - 1
         /\ card'.hc = card.hc
         /\ card'.block = [card.block EXCEPT ![X.block % BLOCKS] = host.fifo]
<1>0. HostType /\ CardType /\ X.left > 0 /\ X.kind = "write" /\ host.fifo # NONE
  BY DEF Types, Program
<1>1. PICK x \in [kind : Moving \cup {NONE}, block : Nat, left : Nat] :
         /\ x = [X EXCEPT !.block = @ + 1, !.left = @ - 1]
         /\ x.kind = X.kind /\ x.block = X.block + 1 /\ x.left = X.left - 1
  BY <1>0, MovedIs
<1>2. host' = [host EXCEPT !.fifo = NONE, !.xfer = x] /\ NONE \in Words
  BY <1>1 DEF Program, Words
<1>3. HostType'
  BY <1>0, <1>2 DEF HostType
<1>4. /\ host'.inhibit = host.inhibit /\ host'.fifo = NONE /\ host'.issued = host.issued
      /\ host'.xfer = x /\ host'.int = host.int
  BY <1>0, <1>2 DEF HostType
<1>5. host.fifo \in Words
  BY <1>0 DEF HostType
<1>6. PICK new \in [Blocks -> Words \ {NONE}] : new = [card.block EXCEPT ![X.block % BLOCKS] = host.fifo]
  BY <1>0, <1>5 DEF CardType
<1>7. card' = [card EXCEPT !.block = new]
  BY <1>6 DEF Program
<1>8. CardType' /\ card'.hc = card.hc /\ card'.block = new
  BY <1>0, <1>7 DEF CardType
<1> QED BY <1>0, <1>1, <1>3, <1>4, <1>6, <1>8

----------------------------------------------------------------------------
(* Places of a call *)

LEMMA PlaceType ==
  ASSUME Types
  PROVE  /\ Lead \in {0, 1} /\ Ends \in Nat /\ Ends >= 2 * drv.num /\ Len(drv.todo) \in Nat /\ Place \in Int
         /\ drv.num \in Nat /\ (drv.todo = <<>> <=> Len(drv.todo) = 0)
         /\ drv.op = "write" => Ends >= 2 * drv.num + 1
         /\ Ends <= 2 * drv.num + 2 /\ (drv.op # "write" => Ends <= 2 * drv.num + 1)
<1>1. drv.num \in Nat /\ drv.todo \in Seq(Items)
  BY DEF Types, DrvType
<1>2. Len(drv.todo) \in Nat /\ (drv.todo = <<>> <=> Len(drv.todo) = 0)
  BY <1>1, SomeItems
<1>3. LeadOf(drv.num) \in {0, 1} /\ TellOf(drv.num) \in {0, 1}
  BY DEF LeadOf, TellOf
<1>4. Ends \in Nat /\ Ends >= 2 * drv.num /\ (drv.op = "write" => Ends >= 2 * drv.num + 1)
      /\ Ends <= 2 * drv.num + 2 /\ (drv.op # "write" => Ends <= 2 * drv.num + 1)
  BY <1>1, <1>3 DEF Ends, EndsOf
<1> QED BY <1>1, <1>2, <1>3, <1>4 DEF Lead, Place

LEMMA HalfIs ==
  ASSUME NEW n \in Nat, NEW p \in 1 .. 2 * n
  PROVE  \E t \in 1 .. n : /\ t = n - (p - 1) \div 2
                           /\ p % 2 = 1 => p = 2 * (n - t) + 1
                           /\ p % 2 = 0 => p = 2 * (n - t) + 2
                           /\ p % 2 = 1 \/ p % 2 = 0
<1>1. PICK t : t = n - (p - 1) \div 2
  OBVIOUS
<1>2. t \in 1 .. n /\ (p % 2 = 1 \/ p % 2 = 0)
  BY <1>1
<1>3. p % 2 = 1 => p = 2 * (n - t) + 1
  BY <1>1
<1>4. p % 2 = 0 => p = 2 * (n - t) + 2
  BY <1>1
<1> QED BY <1>1, <1>2, <1>3, <1>4

LEMMA TurnsType ==
  ASSUME Types
  PROVE  /\ Turns \in 0 .. drv.num
         /\ Place <= 0 => Turns = drv.num
         /\ Place > 2 * drv.num => (Turns = 0 \/ Place <= 0)
         /\ Place \in 1 .. 2 * drv.num =>
              /\ Turns \in 1 .. drv.num
              /\ Place % 2 = 1 => Place = 2 * (drv.num - Turns) + 1
              /\ Place % 2 = 0 => Place = 2 * (drv.num - Turns) + 2
              /\ Place % 2 = 1 \/ Place % 2 = 0
<1>1. Place \in Int /\ drv.num \in Nat
  BY PlaceType
<1>2. CASE Place <= 0
  BY <1>1, <1>2 DEF Turns
<1>3. CASE Place > 2 * drv.num /\ ~(Place <= 0)
  BY <1>1, <1>3 DEF Turns
<1>4. CASE Place \in 1 .. 2 * drv.num
  <2>1. Turns = drv.num - (Place - 1) \div 2
    BY <1>1, <1>4 DEF Turns
  <2>2. PICK t \in 1 .. drv.num :
             /\ t = drv.num - (Place - 1) \div 2
             /\ Place % 2 = 1 => Place = 2 * (drv.num - t) + 1
             /\ Place % 2 = 0 => Place = 2 * (drv.num - t) + 2
             /\ Place % 2 = 1 \/ Place % 2 = 0
    BY <1>1, <1>4, HalfIs
  <2>3. Turns = t
    BY <2>1, <2>2
  <2> QED BY <1>1, <1>4, <2>2, <2>3
<1> QED BY <1>1, <1>2, <1>3, <1>4

(* What the driver is about to do, by place *)
AtWait == Now = Wait(IF drv.op = "read" THEN "dat" ELSE "write") /\ Place = -(1 + Lead)
AtCount == Now = Cmd("blockcnt", drv.num, 0) /\ Place = -1 /\ Lead = 1
AtData == Now = DataCmd /\ Place = 0
AtReady == /\ Now = Await(FlagOf(drv.op)) /\ Turns \in 1 .. drv.num
           /\ Place = 2 * (drv.num - Turns) + 1
AtStep == /\ Now = StepOf(drv.op) /\ Turns \in 1 .. drv.num
          /\ Place = 2 * (drv.num - Turns) + 2
AtDone == /\ Now = Await("data_done") /\ drv.op = "write" /\ Place = 2 * drv.num + 1
AtStop == /\ Now = Cmd("stop", 0, 0) /\ Place = Ends /\ Place > 2 * drv.num
          /\ drv.op = "write" => Place > 2 * drv.num + 1

LEMMA ItemCases ==
  ASSUME NEW op, NEW lba, NEW num \in Nat, NEW r \in Int, NEW lead \in {0, 1}, lead = LeadOf(num)
  PROVE  /\ r < -lead => ItemOf(op, lba, num, r) = Wait(IF op = "read" THEN "dat" ELSE "write")
         /\ r = -1 /\ lead = 1 => ItemOf(op, lba, num, r) = Cmd("blockcnt", num, 0)
         /\ r = 0 => ItemOf(op, lba, num, r) = DataCmdOf(op, lba, num)
         /\ r \in 1 .. 2 * num => ItemOf(op, lba, num, r) = TurnOf(op, r)
<1>1. CASE r < -lead
  <2>1. ~(r = -1 /\ lead = 1) /\ r # 0 /\ r \notin 1 .. 2 * num
    BY <1>1
  <2>2. ItemOf(op, lba, num, r) = Wait(IF op = "read" THEN "dat" ELSE "write")
    BY <1>1 DEF ItemOf
  <2> QED BY <2>1, <2>2
<1>2. CASE r = -1 /\ lead = 1
  <2>1. ~(r < -lead) /\ r # 0 /\ r \notin 1 .. 2 * num
    BY <1>2
  <2>2. ItemOf(op, lba, num, r) = Cmd("blockcnt", num, 0)
    BY <1>2, <2>1 DEF ItemOf
  <2> QED BY <2>1, <2>2
<1>3. CASE r = 0
  <2>1. ~(r < -lead) /\ r # -1 /\ r \notin 1 .. 2 * num
    BY <1>3
  <2>2. ItemOf(op, lba, num, r) = DataCmdOf(op, lba, num)
    BY <1>3, <2>1 DEF ItemOf
  <2> QED BY <2>1, <2>2
<1>4. CASE r \in 1 .. 2 * num
  <2>1. ~(r < -lead) /\ r # -1 /\ r # 0
    BY <1>4
  <2>2. ItemOf(op, lba, num, r) = TurnOf(op, r)
    BY <1>4, <2>1 DEF ItemOf
  <2> QED BY <2>1, <2>2
<1> QED BY <1>1, <1>2, <1>3, <1>4

LEMMA CallPlaces ==
  ASSUME Types, CallShape, InCall, drv.todo # <<>>
  PROVE  AtWait \/ AtCount \/ AtData \/ AtReady \/ AtStep \/ AtDone \/ AtStop
<1>1. /\ Place \in Int /\ Lead \in {0, 1} /\ Place >= -(1 + Lead) /\ drv.num \in Nat /\ Ends \in Nat
      /\ Len(drv.todo) \in Nat \ {0} /\ Place <= Ends /\ Ends <= 2 * drv.num + 2
      /\ (drv.op # "write" => Ends <= 2 * drv.num + 1)
  BY PlaceType DEF CallShape, Place
<1>2. Now = CallItem(Place)
  <2>1. Place \in Place .. Ends /\ Place - Place + 1 = 1
    BY <1>1
  <2>2. drv.todo[Place - Place + 1] = CallItem(Place)
    BY <2>1 DEF CallShape
  <2> QED BY <2>1, <2>2 DEF Now
<1>20. /\ Place < -Lead => Now = Wait(IF drv.op = "read" THEN "dat" ELSE "write")
       /\ Place = -1 /\ Lead = 1 => Now = Cmd("blockcnt", drv.num, 0)
       /\ Place = 0 => Now = DataCmdOf(drv.op, drv.lba, drv.num)
       /\ Place \in 1 .. 2 * drv.num => Now = TurnOf(drv.op, Place)
  <2>1. PICK r \in Int, lead \in {0, 1}, n \in Nat : r = Place /\ lead = Lead /\ n = drv.num
    BY <1>1
  <2>2. lead = LeadOf(n) /\ Now = ItemOf(drv.op, drv.lba, n, r)
    BY <1>2, <2>1 DEF Lead, CallItem
  <2>3. PICK op, lba : op = drv.op /\ lba = drv.lba
    OBVIOUS
  <2>4. /\ r < -lead => ItemOf(op, lba, n, r) = Wait(IF op = "read" THEN "dat" ELSE "write")
        /\ r = -1 /\ lead = 1 => ItemOf(op, lba, n, r) = Cmd("blockcnt", n, 0)
        /\ r = 0 => ItemOf(op, lba, n, r) = DataCmdOf(op, lba, n)
        /\ r \in 1 .. 2 * n => ItemOf(op, lba, n, r) = TurnOf(op, r)
    BY <2>2, ItemCases
  <2> QED BY <2>1, <2>2, <2>3, <2>4
<1>3. CASE Place < -Lead
  <2>1. Place = -(1 + Lead)
    BY <1>1, <1>3
  <2>2. Now = Wait(IF drv.op = "read" THEN "dat" ELSE "write")
    BY <1>3, <1>20
  <2> QED BY <2>1, <2>2 DEF AtWait
<1>4. CASE ~(Place < -Lead) /\ Place < 0
  <2>1. Place = -1 /\ Lead = 1
    BY <1>1, <1>4
  <2>2. Now = Cmd("blockcnt", drv.num, 0)
    BY <2>1, <1>20
  <2> QED BY <2>1, <2>2 DEF AtCount
<1>5. CASE Place = 0
  <2>1. ~(Place < -Lead) /\ Place # -1
    BY <1>1, <1>5
  <2>2. Now = DataCmd
    BY <1>5, <1>20 DEF DataCmd
  <2> QED BY <1>5, <2>2 DEF AtData
<1>6. CASE Place \in 1 .. 2 * drv.num
  <2>1. ~(Place < -Lead) /\ Place # -1 /\ Place # 0
    BY <1>1, <1>6
  <2>2. Now = TurnOf(drv.op, Place)
    BY <1>6, <1>20
  <2>3. /\ Turns \in 1 .. drv.num
        /\ Place % 2 = 1 => Place = 2 * (drv.num - Turns) + 1
        /\ Place % 2 = 0 => Place = 2 * (drv.num - Turns) + 2
        /\ Place % 2 = 1 \/ Place % 2 = 0
    BY <1>6, TurnsType
  <2>4. CASE Place % 2 = 1
    <3>1. Now = Await(FlagOf(drv.op))
      BY <2>2, <2>4 DEF TurnOf, FlagOf
    <3> QED BY <2>3, <2>4, <3>1 DEF AtReady
  <2>5. CASE Place % 2 = 0
    <3>1. Now = StepOf(drv.op)
      BY <2>2, <2>5 DEF TurnOf, StepOf
    <3> QED BY <2>3, <2>5, <3>1 DEF AtStep
  <2> QED BY <2>3, <2>4, <2>5
<1>7. CASE Place > 2 * drv.num /\ Place > 0
  <2>1. ~(Place < -Lead) /\ Place # -1 /\ Place # 0 /\ Place \notin 1 .. 2 * drv.num
    BY <1>1, <1>7
  <2>2. CASE Place = 2 * drv.num + 1 /\ drv.op = "write"
    <3>1. Now = Await("data_done")
      BY <1>2, <2>1, <2>2 DEF CallItem, ItemOf, Lead
    <3> QED BY <2>2, <3>1 DEF AtDone
  <2>3. CASE ~(Place = 2 * drv.num + 1 /\ drv.op = "write")
    <3>1. Now = Cmd("stop", 0, 0)
      BY <1>2, <2>1, <2>3 DEF CallItem, ItemOf, Lead
    <3>2. Place = Ends
      BY <1>1, <1>7, <2>3
    <3> QED BY <1>1, <1>7, <2>3, <3>1, <3>2 DEF AtStop
  <2> QED BY <2>2, <2>3
<1> QED BY <1>1, <1>3, <1>4, <1>5, <1>6, <1>7

LEMMA SamePlaces ==
  ASSUME Keeps, sd'.blkcnt = sd.blkcnt
  PROVE  /\ Lead' = Lead /\ Ends' = Ends /\ DataCmd' = DataCmd /\ (InCall' <=> InCall)
         /\ \A r : CallItem(r)' = CallItem(r)
<1>1. Lead' = Lead
  BY DEF Keeps, Lead, LeadOf
<1>2. Ends' = Ends
  BY DEF Keeps, Ends, EndsOf, TellOf
<1>3. DataCmd' = DataCmd
  BY DEF Keeps, DataCmd, DataCmdOf
<1>4. ASSUME NEW r PROVE CallItem(r)' = CallItem(r)
  BY DEF Keeps, CallItem, ItemOf, LeadOf, DataCmdOf
<1> QED BY <1>1, <1>2, <1>3, <1>4 DEF InCall, Keeps

LEMMA ShapeStays ==
  ASSUME Types, CallShape, Keeps, sd'.blkcnt = sd.blkcnt, drv'.todo = drv.todo
  PROVE  CallShape' /\ Place' = Place /\ Turns' = Turns
<1>1. Lead' = Lead /\ Ends' = Ends /\ (InCall' <=> InCall) /\ \A r : CallItem(r)' = CallItem(r)
  BY SamePlaces
<1>2. Place' = Place
  BY <1>1 DEF Place
<1>3. Turns' = Turns
  BY <1>2 DEF Turns, Keeps
<1>4. SUFFICES ASSUME InCall PROVE CallShape'
  BY <1>1, <1>2, <1>3 DEF CallShape
<1>5. /\ sd'.ready /\ drv'.num > 0 /\ drv'.lba + drv'.num <= BLOCKS /\ (drv'.num > 1 => sd'.ccs)
      /\ drv'.op = "write" => drv'.data \in VALUES
      /\ Place' >= -(1 + Lead')
  BY <1>1, <1>2, <1>4 DEF CallShape, Keeps
<1>6. ASSUME NEW r \in Place' .. Ends' PROVE drv'.todo[r - Place' + 1] = CallItem(r)'
  BY <1>1, <1>2, <1>4 DEF CallShape
<1> QED BY <1>5, <1>6 DEF CallShape

LEMMA ShapeGoesOn ==
  ASSUME Types, CallShape, Keeps, sd'.blkcnt = sd.blkcnt, drv.todo # <<>>, drv'.todo = Tail(drv.todo)
  PROVE  CallShape' /\ Place' = Place + 1
<1>1. Lead' = Lead /\ Ends' = Ends /\ (InCall' <=> InCall) /\ \A r : CallItem(r)' = CallItem(r)
  BY SamePlaces
<1>2. drv.todo \in Seq(Items)
  BY DEF Types, DrvType
<1>3. /\ Len(drv'.todo) = Len(drv.todo) - 1 /\ Len(drv.todo) \in Nat \ {0}
      /\ \A k \in 1 .. Len(drv.todo) - 1 : drv'.todo[k] = drv.todo[k + 1]
  BY <1>2, NextItems
<1>4. Place' = Place + 1 /\ Place \in Int
  BY <1>1, <1>3, PlaceType DEF Place
<1>5. SUFFICES ASSUME InCall PROVE CallShape'
  BY <1>1, <1>4 DEF CallShape
<1>6. /\ sd'.ready /\ drv'.num > 0 /\ drv'.lba + drv'.num <= BLOCKS /\ (drv'.num > 1 => sd'.ccs)
      /\ drv'.op = "write" => drv'.data \in VALUES
  BY <1>5 DEF CallShape, Keeps
<1>7. Place' >= -(1 + Lead')
  BY <1>1, <1>4, <1>5, PlaceType DEF CallShape
<1>8. ASSUME NEW r \in Place' .. Ends' PROVE drv'.todo[r - Place' + 1] = CallItem(r)'
  <2>1. Ends \in Nat /\ Place = Ends + 1 - Len(drv.todo)
    BY PlaceType DEF Place
  <2>2. PICK k : k = r - Place' + 1
    OBVIOUS
  <2>3. k \in 1 .. Len(drv.todo) - 1 /\ k + 1 = r - Place + 1 /\ r \in Place .. Ends
    BY <1>1, <1>3, <1>4, <2>1, <2>2
  <2>4. drv.todo[r - Place + 1] = CallItem(r)
    BY <1>5, <2>3 DEF CallShape
  <2>5. drv'.todo[k] = drv.todo[k + 1]
    BY <1>3, <2>3
  <2>6. CallItem(r)' = CallItem(r)
    BY <1>1
  <2> QED BY <2>2, <2>3, <2>4, <2>5, <2>6
<1> QED BY <1>6, <1>7, <1>8 DEF CallShape

LEMMA ShapeEnds ==
  ASSUME Types, CallShape, Keeps, sd'.blkcnt = sd.blkcnt, drv'.todo = <<>>
  PROVE  CallShape' /\ Place' = Ends + 1
<1>1. Lead' = Lead /\ Ends' = Ends /\ (InCall' <=> InCall) /\ Len(drv'.todo) = 0
  BY SamePlaces
<1>2. Place' = Ends + 1 /\ Ends \in Nat /\ Lead \in {0, 1}
  BY <1>1, PlaceType DEF Place
<1>3. Place' .. Ends' = {}
  BY <1>1, <1>2
<1> QED BY <1>1, <1>2, <1>3 DEF CallShape, Keeps

----------------------------------------------------------------------------
(* What comes after what, in a call *)

AfterReady == /\ Len(drv.todo) > 1 /\ drv.todo[2] = Await(FlagOf(drv.op))
AfterStep ==
  IF Turns > 1 THEN AfterReady
  ELSE IF drv.op = "write" THEN Len(drv.todo) > 1 /\ drv.todo[2] = Await("data_done")
  ELSE Len(drv.todo) > 1 => drv.todo[2] = Cmd("stop", 0, 0)

LEMMA SecondIs ==
  ASSUME Types, CallShape, InCall, drv.todo # <<>>
  PROVE  /\ AtWait => Len(drv.todo) > 1
         /\ AtCount => Len(drv.todo) > 1
         /\ AtData => AfterReady
         /\ AtReady => Len(drv.todo) > 1 /\ drv.todo[2] = StepOf(drv.op)
         /\ AtStep => AfterStep
         /\ AtDone /\ Len(drv.todo) > 1 => drv.todo[2] = Cmd("stop", 0, 0)
         /\ AtStop => ~(Len(drv.todo) > 1)
<1>1. /\ Place \in Int /\ Lead \in {0, 1} /\ drv.num \in Nat /\ Ends \in Nat
      /\ Ends >= 2 * drv.num /\ Ends <= 2 * drv.num + 2
      /\ (drv.op # "write" => Ends <= 2 * drv.num + 1)
      /\ (drv.op = "write" => Ends >= 2 * drv.num + 1)
  BY PlaceType
<1>15. Place <= Ends /\ (Len(drv.todo) > 1 <=> Place < Ends) /\ (Place = Ends => Len(drv.todo) = 1)
  <2>1. PICK len \in Nat, ends \in Nat : len = Len(drv.todo) /\ len # 0 /\ ends = Ends
    BY PlaceType
  <2>2. Place = ends + 1 - len
    BY <2>1 DEF Place
  <2>3. Place <= ends /\ (len > 1 <=> Place < ends) /\ (Place = ends => len = 1)
    <3>1. len # 0
      BY <2>1
    <3> QED BY <2>2, <3>1
  <2> QED BY <2>1, <2>3
<1>2. drv.num > 0
  BY DEF CallShape
<1>3. Len(drv.todo) > 1 => drv.todo[2] = CallItem(Place + 1)
  <2>1. Len(drv.todo) > 1 => Place + 1 \in Place .. Ends /\ (Place + 1) - Place + 1 = 2
    BY <1>1, <1>15
  <2>2. Len(drv.todo) > 1 => drv.todo[(Place + 1) - Place + 1] = CallItem(Place + 1)
    BY <2>1 DEF CallShape
  <2> QED BY <2>1, <2>2
<1>4. PICK r \in Int : r = Place + 1
  BY <1>1
<1>5. /\ r = 0 => CallItem(r) = DataCmd
      /\ r \in 1 .. 2 * drv.num => CallItem(r) = TurnOf(drv.op, r)
  <2>1. PICK lead \in {0, 1}, n \in Nat : lead = LeadOf(n) /\ n = drv.num
    BY <1>1 DEF Lead
  <2>2. PICK op, lba : op = drv.op /\ lba = drv.lba
    OBVIOUS
  <2>3. /\ r = 0 => ItemOf(op, lba, n, r) = DataCmdOf(op, lba, n)
        /\ r \in 1 .. 2 * n => ItemOf(op, lba, n, r) = TurnOf(op, r)
    BY <2>1, ItemCases
  <2> QED BY <2>1, <2>2, <2>3 DEF CallItem, DataCmd
<1>6. r = 2 * drv.num + 1 /\ drv.op = "write" => CallItem(r) = Await("data_done")
  <2>1. HAVE r = 2 * drv.num + 1 /\ drv.op = "write"
  <2>2. ~(r < -Lead) /\ r # -1 /\ r # 0 /\ r \notin 1 .. 2 * drv.num
    BY <1>1, <2>1
  <2> QED BY <2>1, <2>2 DEF CallItem, ItemOf, Lead
<1>7. r > 2 * drv.num /\ ~(r = 2 * drv.num + 1 /\ drv.op = "write") => CallItem(r) = Cmd("stop", 0, 0)
  <2>1. HAVE r > 2 * drv.num /\ ~(r = 2 * drv.num + 1 /\ drv.op = "write")
  <2>2. ~(r < -Lead) /\ r # -1 /\ r # 0 /\ r \notin 1 .. 2 * drv.num
    BY <1>1, <2>1
  <2> QED BY <2>1, <2>2 DEF CallItem, ItemOf, Lead
<1>8. AtWait => Len(drv.todo) > 1
  BY <1>1, <1>2, <1>15 DEF AtWait
<1>9. AtCount => Len(drv.todo) > 1
  BY <1>1, <1>2, <1>15 DEF AtCount
<1>10. AtData => AfterReady
  <2>1. HAVE AtData
  <2>2. r = 1 /\ r \in 1 .. 2 * drv.num /\ r % 2 = 1 /\ Len(drv.todo) > 1
    BY <1>1, <1>2, <1>4, <1>15, <2>1 DEF AtData
  <2>3. CallItem(r) = Await(FlagOf(drv.op))
    BY <1>5, <2>2 DEF TurnOf, FlagOf
  <2> QED BY <1>3, <1>4, <2>2, <2>3 DEF AfterReady
<1>11. AtReady => Len(drv.todo) > 1 /\ drv.todo[2] = StepOf(drv.op)
  <2>1. HAVE AtReady
  <2>2. PICK h \in Nat : r = 2 * h + 2 /\ r \in 1 .. 2 * drv.num /\ Len(drv.todo) > 1
    <3>1. Turns \in 1 .. drv.num /\ Place = 2 * (drv.num - Turns) + 1
      BY <2>1 DEF AtReady
    <3>2. drv.num - Turns \in Nat
      BY <1>1, <3>1
    <3>3. r = 2 * (drv.num - Turns) + 2 /\ r \in 1 .. 2 * drv.num /\ Len(drv.todo) > 1
      BY <1>1, <1>4, <1>15, <3>1
    <3> QED BY <3>2, <3>3
  <2>3. r % 2 = 0
    BY <2>2
  <2>4. CallItem(r) = StepOf(drv.op)
    BY <1>5, <2>2, <2>3 DEF TurnOf, StepOf
  <2> QED BY <1>3, <1>4, <2>2, <2>4
<1>12. AtStep => AfterStep
  <2>1. HAVE AtStep
  <2>2. Turns \in 1 .. drv.num /\ Place = 2 * (drv.num - Turns) + 2
    BY <2>1 DEF AtStep
  <2>3. CASE Turns > 1
    <3>1. drv.num - Turns \in Nat /\ Turns # 1
      BY <1>1, <2>2, <2>3
    <3>2. r = 2 * (drv.num - Turns) + 3 /\ r \in 1 .. 2 * drv.num /\ Len(drv.todo) > 1
      BY <1>1, <1>4, <1>15, <2>2, <2>3
    <3>3. PICK h \in Nat : r = 2 * h + 3
      BY <3>1, <3>2
    <3>4. r % 2 = 1
      BY <3>3
    <3>5. CallItem(r) = Await(FlagOf(drv.op))
      BY <1>5, <3>2, <3>4 DEF TurnOf, FlagOf
    <3> QED BY <1>3, <1>4, <2>3, <3>2, <3>5 DEF AfterReady, AfterStep
  <2>4. CASE ~(Turns > 1)
    <3>1. r = 2 * drv.num + 1
      BY <1>1, <1>4, <2>2, <2>4
    <3>2. CASE drv.op = "write"
      <4>1. Len(drv.todo) > 1
        BY <1>1, <1>4, <1>15, <3>1, <3>2
      <4> QED BY <1>3, <1>4, <1>6, <2>4, <3>1, <3>2, <4>1 DEF AfterStep
    <3>3. CASE drv.op # "write"
      <4>1. r > 2 * drv.num
        BY <1>1, <3>1
      <4> QED BY <1>3, <1>4, <1>7, <2>4, <3>1, <3>3, <4>1 DEF AfterStep
    <3> QED BY <3>2, <3>3
  <2> QED BY <2>3, <2>4
<1>13. AtDone /\ Len(drv.todo) > 1 => drv.todo[2] = Cmd("stop", 0, 0)
  <2>1. HAVE AtDone /\ Len(drv.todo) > 1
  <2>2. r = 2 * drv.num + 2
    BY <1>1, <1>4, <2>1 DEF AtDone
  <2>3. r > 2 * drv.num /\ r # 2 * drv.num + 1
    BY <1>1, <2>2
  <2> QED BY <1>3, <1>4, <1>7, <2>1, <2>3
<1>14. AtStop => ~(Len(drv.todo) > 1)
  BY <1>1, <1>15 DEF AtStop
<1> QED BY <1>8, <1>9, <1>10, <1>11, <1>12, <1>13, <1>14

LEMMA NextPlace ==
  ASSUME Types, CallShape, InCall, Keeps, sd'.blkcnt = sd.blkcnt, drv.todo # <<>>,
         drv'.todo = Tail(drv.todo)
  PROVE  /\ CallShape' /\ Place' = Place + 1
         /\ drv'.todo # <<>> <=> Len(drv.todo) > 1
         /\ drv'.todo # <<>> => Now' = drv.todo[2]
         /\ AtData \/ AtReady \/ AtDone \/ AtStop => Turns' = Turns
         /\ AtStep => Turns' = Turns - 1
         /\ AtDone \/ AtStop => Turns = 0
<1>1. CallShape' /\ Place' = Place + 1 /\ drv'.num = drv.num
  BY ShapeGoesOn DEF Keeps
<1>2. /\ drv'.todo # <<>> <=> Len(drv.todo) > 1
      /\ drv'.todo # <<>> => Now' = drv.todo[2]
  <2>1. drv.todo \in Seq(Items)
    BY DEF Types, DrvType
  <2>2. /\ Tail(drv.todo) \in Seq(Items) /\ Len(Tail(drv.todo)) = Len(drv.todo) - 1
        /\ Len(drv.todo) \in Nat \ {0}
        /\ \A k \in 1 .. Len(drv.todo) - 1 : Tail(drv.todo)[k] = drv.todo[k + 1]
    BY <2>1, NextItems
  <2>3. drv'.todo = <<>> <=> Len(drv'.todo) = 0
    BY <2>2, SomeItems
  <2>4. PICK len \in Nat : len = Len(drv.todo)
    BY <2>2
  <2>5. Len(drv'.todo) = len - 1
    BY <2>2, <2>4
  <2>6. len - 1 # 0 => 1 \in 1 .. len - 1 /\ len > 1
    <3>1. len # 0
      BY <2>2, <2>4
    <3> QED BY <3>1
  <2>7. len > 1 => len - 1 # 0
    OBVIOUS
  <2>8. drv'.todo # <<>> <=> len > 1
    BY <2>3, <2>5, <2>6, <2>7
  <2>9. \A k \in 1 .. len - 1 : Tail(drv.todo)[k] = drv.todo[k + 1]
    BY <2>2, <2>4
  <2>10. len > 1 => Tail(drv.todo)[1] = drv.todo[1 + 1]
    BY <2>6, <2>7, <2>9
  <2> QED BY <2>4, <2>8, <2>10 DEF Now
<1>3. Place \in Int /\ drv.num \in Nat
  BY PlaceType
<1>40. PICK t, u : t = Turns /\ u = Turns'
  OBVIOUS
<1>4. PICK n \in Nat, p \in Int : n = drv.num /\ p = Place' /\ t = Turns /\ u = Turns'
  BY <1>1, <1>3, <1>40
<1>5. n = drv.num /\ p = Place + 1 /\ t = Turns /\ u = Turns'
  BY <1>1, <1>4
<1>6. u = IF p <= 0 THEN n ELSE IF p > 2 * n THEN 0 ELSE n - (p - 1) \div 2
  <2>1. n = drv'.num
    BY <1>1, <1>4
  <2> QED BY <1>4, <2>1 DEF Turns
<1>7. ASSUME NEW s \in 1 .. n, p = 2 * (n - s) + 1 \/ p = 2 * (n - s) + 2
      PROVE  u = s
  <2>1. PICK h \in Nat : h = n - s
    BY <1>7
  <2>2. p = 2 * h + 1 \/ p = 2 * h + 2
    BY <1>7, <2>1
  <2>3. (p - 1) \div 2 = h
    BY <2>2
  <2>4. ~(p <= 0) /\ ~(p > 2 * n) /\ n - h = s
    BY <1>7, <2>1, <2>2
  <2> QED BY <1>6, <2>3, <2>4
<1>8. AtData => u = t
  <2>1. HAVE AtData
  <2>2. p = 1 /\ t = n /\ n # 0
    BY <1>3, <1>5, <2>1, TurnsType DEF AtData, CallShape
  <2>3. n \in 1 .. n /\ p = 2 * (n - n) + 1
    BY <2>2
  <2> QED BY <1>7, <2>2, <2>3
<1>9. AtReady => u = t
  <2>1. HAVE AtReady
  <2>2. t \in 1 .. n /\ p = 2 * (n - t) + 2
    BY <1>3, <1>5, <2>1 DEF AtReady
  <2> QED BY <1>7, <2>2
<1>10. AtStep => u = t - 1
  <2>1. HAVE AtStep
  <2>2. t \in 1 .. n /\ p = 2 * (n - t) + 3
    BY <1>3, <1>5, <2>1 DEF AtStep
  <2>3. CASE t = 1
    BY <1>6, <2>2, <2>3
  <2>4. CASE t # 1
    <3>1. PICK s \in 1 .. n : s = t - 1
      BY <2>2, <2>4
    <3>2. p = 2 * (n - s) + 1
      BY <2>2, <3>1
    <3> QED BY <1>7, <3>1, <3>2
  <2> QED BY <2>3, <2>4
<1>11. AtDone \/ AtStop => u = 0 /\ t = 0
  <2>1. HAVE AtDone \/ AtStop
  <2>2. p > 2 * n /\ p > 0 /\ Place > 2 * drv.num /\ ~(Place <= 0)
    BY <1>3, <1>5, <2>1 DEF AtDone, AtStop
  <2>3. t = 0
    BY <1>5, <2>2, TurnsType
  <2> QED BY <1>6, <2>2, <2>3
<1> QED BY <1>1, <1>2, <1>5, <1>8, <1>9, <1>10, <1>11

----------------------------------------------------------------------------
(* All the steps of the driver inside a call, by what they come to *)

DriverStep ==
  \/ StatusStep \/ IntStep \/ PollStep \/ CommandWait \/ CommandIssue \/ CommandAnswer
  \/ EnableCard \/ FetchStep \/ StoreStep \/ ReadScrStep

(* what a failure says of the controller, and leaves of it *)
Answered == /\ late' = late /\ Now.do = "cmd" /\ drv.phase = "answer" /\ Pending = {}
            /\ "cmd_done" \in host.int /\ host'.int = host.int \ {"cmd_done"}
Trouble ==
  /\ HostKeeps
  /\ \/ late' = TRUE
     \/ late' = late /\ Pending # {} /\ host'.int = {}
     \/ late' = late /\ Pending # {} /\ Now.do \in {"status", "poll"}
     \/ late' = late /\ Pending # {} /\ Now.do = "cmd" /\ drv.phase = "start"
     \/ Answered /\ Now.on \in {"rel_addr", "app", "op_cond"}

MStay == Stays /\ SameCall
MQuit == drv'.todo = <<>> /\ sd'.err # "ok" /\ Trouble /\ SameCall
MSkip == /\ Now.do = "cmd" /\ Now.on \in Unchecked /\ Now.on # "op_cond"
         /\ GoesOn /\ sd'.err # "ok" /\ Trouble /\ SameCall
MEnable == /\ Now.do = "cmd" /\ Now.on = "op_cond" /\ drv'.todo = drv.todo
           /\ drv'.phase \in {"answered", "no_answer"} /\ Trouble /\ SameCall
MPass == /\ Now.do \in {"status", "poll"} /\ GoesOn /\ host' = host /\ late' = late /\ sd' = sd /\ SameCall
         /\ Now.do = "status" /\ Now.on = "dat" => "dat" \notin host.inhibit
         /\ Now.do = "status" /\ Now.on = "write" =>
              "dat" \notin host.inhibit /\ "write" \notin host.inhibit
MReady == /\ Now.do = "cmd" /\ drv.phase = "start" /\ SameCall /\ host' = host /\ sd' = sd /\ late' = late
          /\ drv'.todo = drv.todo /\ drv'.phase = "issue" /\ "cmd" \notin host.inhibit
MIssue == /\ Now.do = "cmd" /\ drv.phase = "issue" /\ SameCall /\ Now \in Commands
          /\ drv'.todo = drv.todo /\ drv'.phase = "answer" /\ late' = late
          /\ host'.int = {} /\ host'.issued = Now /\ host'.inhibit = host.inhibit \cup Lines(Now)
          /\ host'.fifo = host.fifo /\ host'.xfer = host.xfer
MAnswer == Answered /\ GoesOn /\ Now.on # "op_cond" /\ HostKeeps /\ SameCall
MInt == /\ Now.do = "int" /\ SameCall /\ HostKeeps /\ GoesOn /\ sd' = sd /\ late' = late /\ Pending = {}
        /\ Now.on \in host.int /\ host'.int = host.int \ {Now.on}
MFetch == /\ Now.do = "fetch" /\ Keeps /\ GoesOn /\ sd' = sd /\ late' = late /\ drv'.ccs = drv.ccs
          /\ drv'.buf = Append(drv.buf, host.fifo)
          /\ host'.fifo = NONE /\ host'.int = host.int /\ host'.inhibit = host.inhibit
          /\ host'.issued = host.issued /\ host'.xfer = host.xfer
MStore == /\ Now.do = "store" /\ SameCall /\ GoesOn /\ sd' = sd /\ late' = late
          /\ host'.fifo = drv.data /\ host'.int = host.int /\ host'.inhibit = host.inhibit \ {"write"}
          /\ host'.issued = host.issued /\ host'.xfer = host.xfer
MScr == /\ Now.do = "scr" /\ Keeps /\ drv'.ccs = drv.ccs /\ late' = late
        /\ drv'.todo \in {App("bus_width"), <<>>} /\ drv'.phase = "start"
        /\ host'.fifo = NONE /\ host'.int = host.int /\ host'.inhibit = host.inhibit
        /\ host'.issued = host.issued /\ host'.xfer = host.xfer
MUp == /\ Now.do = "cmd" /\ drv.phase \in {"answered", "no_answer"} /\ Keeps /\ host' = host /\ late' = late
       /\ \/ Ends0
          \/ drv'.todo = InitRest /\ drv'.ccs = card.hc /\ drv'.phase = "start"
          \/ drv'.todo = App("op_cond") /\ drv'.phase = "start"

LEMMA FailMoves ==
  ASSUME Fails, Trouble, SameCall
  PROVE  MQuit \/ MSkip \/ MEnable
BY DEF Fails, MQuit, MSkip, MEnable

LEMMA DriverMoves ==
  ASSUME Types, DriverStep
  PROVE  /\ drv.todo # <<>> /\ Keeps /\ DrvType' /\ SdType' /\ HostType'
         /\ \/ MStay \/ MQuit \/ MSkip \/ MEnable \/ MPass \/ MReady \/ MIssue \/ MAnswer \/ MInt
            \/ MFetch \/ MStore \/ MScr \/ MUp
<1>0. HostType /\ SdType
  BY DEF Types
<1>1. CASE StatusStep \/ PollStep
  <2>1. /\ drv.todo # <<>> /\ Now.do \in {"status", "poll"} /\ SameCall /\ host' = host
        /\ DrvType' /\ SdType' /\ HostType' /\ HostKeeps
    BY <1>0, <1>1, StatusOut DEF HostType, HostKeeps
  <2>2. CASE Stays
    BY <2>1, <2>2 DEF MStay, SameCall
  <2>3. CASE Fails /\ Because
    <3>1. Trouble
      BY <2>1, <2>3 DEF Trouble, Because
    <3> QED BY <2>1, <2>3, <3>1, FailMoves DEF SameCall
  <2>4. CASE /\ GoesOn /\ sd' = sd /\ late' = late
             /\ Now.do = "status" /\ Now.on = "dat" => "dat" \notin host.inhibit
             /\ Now.do = "status" /\ Now.on = "write" =>
                  "dat" \notin host.inhibit /\ "write" \notin host.inhibit
    BY <2>1, <2>4 DEF MPass, SameCall
  <2> QED BY <1>1, <2>2, <2>3, <2>4, StatusOut
<1>2. CASE IntStep
  <2>1. /\ drv.todo # <<>> /\ Now.do = "int" /\ SameCall /\ HostKeeps
        /\ DrvType' /\ SdType' /\ HostType'
    BY <1>2, IntOut
  <2>2. CASE Stays
    BY <2>1, <2>2 DEF MStay, SameCall
  <2>3. CASE Ends0 /\ Because /\ host'.int = {}
    BY <2>1, <2>3 DEF MQuit, Trouble, Because, Ends0, SameCall
  <2>4. CASE /\ GoesOn /\ sd' = sd /\ late' = late /\ Pending = {}
             /\ Now.on \in host.int /\ host'.int = host.int \ {Now.on}
    BY <2>1, <2>4 DEF MInt, SameCall
  <2> QED BY <1>2, <2>2, <2>3, <2>4, IntOut
<1>3. CASE CommandWait
  <2>1. /\ drv.todo # <<>> /\ Now.do = "cmd" /\ drv.phase = "start" /\ SameCall /\ host' = host
        /\ DrvType' /\ SdType' /\ HostType' /\ HostKeeps
    BY <1>0, <1>3, WaitOut DEF HostType, HostKeeps
  <2>2. CASE Stays
    BY <2>1, <2>2 DEF MStay, SameCall
  <2>3. CASE Fails /\ Because
    <3>1. Trouble
      BY <2>1, <2>3 DEF Trouble, Because
    <3> QED BY <2>1, <2>3, <3>1, FailMoves DEF SameCall
  <2>4. CASE /\ drv'.todo = drv.todo /\ drv'.phase = "issue" /\ sd' = sd /\ late' = late
             /\ "cmd" \notin host.inhibit
    BY <2>1, <2>4 DEF MReady, SameCall
  <2> QED BY <1>3, <2>2, <2>3, <2>4, WaitOut
<1>4. CASE CommandIssue
  BY <1>4, IssueOut DEF MIssue, SameCall
<1>5. CASE CommandAnswer
  <2>1. /\ drv.todo # <<>> /\ Now.do = "cmd" /\ drv.phase = "answer" /\ SameCall /\ HostKeeps
        /\ DrvType' /\ SdType' /\ HostType'
    BY <1>5, AnswerOut
  <2>2. CASE Stays
    BY <2>1, <2>2 DEF MStay, SameCall
  <2>3. CASE Fails /\ Because /\ host'.int = {}
    <3>1. Trouble
      BY <2>1, <2>3 DEF Trouble, Because
    <3> QED BY <2>1, <2>3, <3>1, FailMoves DEF SameCall
  <2>4. CASE /\ late' = late /\ Pending = {}
             /\ "cmd_done" \in host.int /\ host'.int = host.int \ {"cmd_done"}
             /\ \/ GoesOn /\ Now.on # "op_cond"
                \/ Ends0 /\ Now.on \in {"rel_addr", "app"}
                \/ Now.on = "op_cond" /\ drv'.todo = drv.todo /\ drv'.phase = "answered"
    <3>1. Answered
      BY <2>1, <2>4 DEF Answered
    <3>2. CASE GoesOn /\ Now.on # "op_cond"
      BY <2>1, <3>1, <3>2 DEF MAnswer, SameCall
    <3>3. CASE Ends0 /\ Now.on \in {"rel_addr", "app"}
      BY <2>1, <3>1, <3>3 DEF MQuit, Trouble, Ends0, SameCall
    <3>4. CASE Now.on = "op_cond" /\ drv'.todo = drv.todo /\ drv'.phase = "answered"
      BY <2>1, <3>1, <3>4 DEF MEnable, Trouble, SameCall
    <3> QED BY <2>4, <3>2, <3>3, <3>4
  <2> QED BY <1>5, <2>2, <2>3, <2>4, AnswerOut
<1>6. CASE EnableCard
  <2>1. HostType'
    BY <1>0, <1>6, EnableOut DEF HostType
  <2> QED BY <1>6, <2>1, EnableOut DEF MUp
<1>7. CASE FetchStep
  <2>1. SdType'
    BY <1>0, <1>7, FetchOut DEF SdType
  <2> QED BY <1>7, <2>1, FetchOut DEF MFetch
<1>8. CASE StoreStep
  <2>1. SdType'
    BY <1>0, <1>8, StoreOut DEF SdType
  <2> QED BY <1>8, <2>1, StoreOut DEF MStore, SameCall
<1>9. CASE ReadScrStep
  BY <1>9, ScrOut DEF MScr
<1> QED BY <1>1, <1>2, <1>3, <1>4, <1>5, <1>6, <1>7, <1>8, <1>9 DEF DriverStep

(* The same inside a read or a write, by place *)

AtCmd == AtCount \/ AtData \/ AtStop

LEMMA NowAt ==
  ASSUME InCall
  PROVE  /\ AtWait => Now.do = "status" /\ Now.on = (IF drv.op = "read" THEN "dat" ELSE "write")
         /\ AtCount => Now.do = "cmd" /\ Now.on = "blockcnt" /\ Now.num = 0
         /\ AtData => Now.do = "cmd" /\ Now.on = drv.op /\ Now.num = drv.num
         /\ AtStop => Now.do = "cmd" /\ Now.on = "stop" /\ Now.num = 0
         /\ AtReady => Now.do = "int" /\ Now.on = FlagOf(drv.op)
         /\ AtDone => Now.do = "int" /\ Now.on = "data_done"
         /\ AtStep => Now.do = IF drv.op = "read" THEN "fetch" ELSE "store"
<1>1. drv.op \in {"read", "write"}
  BY DEF InCall
<1>2. AtWait => Now.do = "status" /\ Now.on = (IF drv.op = "read" THEN "dat" ELSE "write")
  BY DEF AtWait, Wait
<1>3. AtCount => Now.do = "cmd" /\ Now.on = "blockcnt" /\ Now.num = 0
  BY DEF AtCount, Cmd
<1>4. AtData => Now.do = "cmd" /\ Now.on = drv.op /\ Now.num = drv.num
  BY DEF AtData, DataCmd, DataCmdOf, Cmd
<1>5. AtStop => Now.do = "cmd" /\ Now.on = "stop" /\ Now.num = 0
  BY DEF AtStop, Cmd
<1>6. AtReady => Now.do = "int" /\ Now.on = FlagOf(drv.op)
  BY DEF AtReady, Await
<1>7. AtDone => Now.do = "int" /\ Now.on = "data_done"
  BY DEF AtDone, Await
<1>8. AtStep => Now.do = IF drv.op = "read" THEN "fetch" ELSE "store"
  BY DEF AtStep, StepOf, Fetch, Store
<1> QED BY <1>2, <1>3, <1>4, <1>5, <1>6, <1>7, <1>8

CStay == MStay /\ Place' = Place /\ Turns' = Turns
CQuit == drv'.todo = <<>> /\ sd'.err # "ok" /\ Trouble
CWait == /\ AtWait /\ MPass /\ Place' = Place + 1 /\ "dat" \notin host.inhibit
         /\ drv.op = "write" => "write" \notin host.inhibit
CReady == AtCmd /\ MReady /\ Place' = Place /\ Turns' = Turns
CIssue == AtCmd /\ MIssue /\ Place' = Place /\ Turns' = Turns
CAnswer == /\ AtCmd /\ MAnswer /\ Place' = Place + 1
           /\ AtData => drv'.todo # <<>> /\ Now'.do = "int" /\ Turns' = Turns
           /\ AtStop => drv'.todo = <<>> /\ Turns' = Turns /\ Turns = 0
CInt == /\ MInt /\ Place' = Place + 1 /\ Turns' = Turns
        /\ \/ /\ AtReady /\ drv'.todo # <<>> /\ Now.on = FlagOf(drv.op)
              /\ Now'.do = (IF drv.op = "read" THEN "fetch" ELSE "store")
           \/ /\ AtDone /\ Turns = 0 /\ Now.on = "data_done"
              /\ drv'.todo # <<>> => Now'.do = "cmd"
CFetch == /\ AtStep /\ drv.op = "read" /\ MFetch /\ Place' = Place + 1 /\ Turns' = Turns - 1
          /\ Len(drv.todo) > 1 => drv'.todo # <<>> /\ Now' = drv.todo[2]
          /\ Turns > 1 => Len(drv.todo) > 1 /\ drv.todo[2].do = "int"
          /\ drv'.todo # <<>> => Now'.do \in {"int", "cmd"}
CStore == /\ AtStep /\ drv.op = "write" /\ MStore /\ Place' = Place + 1 /\ Turns' = Turns - 1
          /\ drv'.todo # <<>> /\ Now'.do = "int"

LEMMA CallMoves ==
  ASSUME Types, CallShape, PhaseShape, InCall, DriverStep
  PROVE  /\ drv.todo # <<>> /\ Keeps /\ DrvType' /\ SdType' /\ HostType' /\ sd'.blkcnt = sd.blkcnt
         /\ CallShape' /\ InCall'
         /\ \/ CStay \/ CQuit \/ CWait \/ CReady \/ CIssue \/ CAnswer \/ CInt \/ CFetch \/ CStore
<1>1. /\ drv.todo # <<>> /\ Keeps /\ DrvType' /\ SdType' /\ HostType'
      /\ \/ MStay \/ MQuit \/ MSkip \/ MEnable \/ MPass \/ MReady \/ MIssue \/ MAnswer \/ MInt
         \/ MFetch \/ MStore \/ MScr \/ MUp
  BY DriverMoves
<1>2. AtWait \/ AtCount \/ AtData \/ AtReady \/ AtStep \/ AtDone \/ AtStop
  BY <1>1, CallPlaces
<1>3. InCall' /\ drv.op \in {"read", "write"}
  BY <1>1 DEF Keeps, InCall
<1>4. /\ AtWait => Now.do = "status" /\ Now.on = (IF drv.op = "read" THEN "dat" ELSE "write")
      /\ AtCount => Now.do = "cmd" /\ Now.on = "blockcnt"
      /\ AtData => Now.do = "cmd" /\ Now.on = drv.op
      /\ AtStop => Now.do = "cmd" /\ Now.on = "stop"
      /\ AtReady => Now.do = "int" /\ Now.on = FlagOf(drv.op)
      /\ AtDone => Now.do = "int" /\ Now.on = "data_done"
      /\ AtStep => Now.do = IF drv.op = "read" THEN "fetch" ELSE "store"
  BY NowAt
<1>5. /\ AtData => AfterReady
      /\ AtReady => Len(drv.todo) > 1 /\ drv.todo[2] = StepOf(drv.op)
      /\ AtStep => AfterStep
      /\ AtDone /\ Len(drv.todo) > 1 => drv.todo[2] = Cmd("stop", 0, 0)
      /\ AtStop => ~(Len(drv.todo) > 1)
  BY <1>1, SecondIs
<1>6. SameCall => sd'.blkcnt = sd.blkcnt
  BY DEF SameCall
<1>7. ASSUME sd'.blkcnt = sd.blkcnt, GoesOn
      PROVE  /\ CallShape' /\ Place' = Place + 1
             /\ drv'.todo # <<>> <=> Len(drv.todo) > 1
             /\ drv'.todo # <<>> => Now' = drv.todo[2]
             /\ AtData \/ AtReady \/ AtDone \/ AtStop => Turns' = Turns
             /\ AtStep => Turns' = Turns - 1
             /\ AtDone \/ AtStop => Turns = 0
  <2>1. drv'.todo = Tail(drv.todo)
    BY <1>7 DEF GoesOn
  <2> QED BY <1>1, <1>7, <2>1, NextPlace
<1>8. ASSUME sd'.blkcnt = sd.blkcnt, drv'.todo = drv.todo
      PROVE  CallShape' /\ Place' = Place /\ Turns' = Turns
  BY <1>1, <1>8, ShapeStays
<1>9. ASSUME sd'.blkcnt = sd.blkcnt, drv'.todo = <<>>
      PROVE  CallShape'
  BY <1>1, <1>9, ShapeEnds
<1>10. CASE MStay
  BY <1>1, <1>3, <1>6, <1>8, <1>10 DEF MStay, Stays, CStay
<1>11. CASE MQuit
  BY <1>1, <1>3, <1>6, <1>9, <1>11 DEF MQuit, CQuit
<1>12. CASE MSkip
  <2>1. AtStop /\ GoesOn /\ sd'.blkcnt = sd.blkcnt
    BY <1>2, <1>3, <1>4, <1>6, <1>12 DEF MSkip, Unchecked
  <2>2. CallShape' /\ drv'.todo = <<>>
    <3>1. ~(Len(drv.todo) > 1)
      BY <1>5, <2>1
    <3> QED BY <1>7, <2>1, <3>1
  <2> QED BY <1>1, <1>3, <1>12, <2>1, <2>2 DEF MSkip, CQuit
<1>13. CASE MEnable
  BY <1>2, <1>3, <1>4, <1>13 DEF MEnable
<1>14. CASE MPass
  <2>1. AtWait /\ GoesOn /\ sd'.blkcnt = sd.blkcnt /\ Now.do = "status"
    BY <1>2, <1>3, <1>4, <1>6, <1>14 DEF MPass
  <2>2. CallShape' /\ Place' = Place + 1
    BY <1>7, <2>1
  <2>3. "dat" \notin host.inhibit /\ (drv.op = "write" => "write" \notin host.inhibit)
    BY <1>3, <1>4, <1>14, <2>1 DEF MPass
  <2> QED BY <1>1, <1>3, <1>14, <2>1, <2>2, <2>3 DEF CWait
<1>15. CASE MReady
  <2>1. AtCmd /\ sd'.blkcnt = sd.blkcnt /\ drv'.todo = drv.todo
    BY <1>2, <1>3, <1>4, <1>6, <1>15 DEF MReady, AtCmd
  <2> QED BY <1>1, <1>3, <1>8, <1>15, <2>1 DEF CReady
<1>16. CASE MIssue
  <2>1. AtCmd /\ sd'.blkcnt = sd.blkcnt /\ drv'.todo = drv.todo
    BY <1>2, <1>3, <1>4, <1>6, <1>16 DEF MIssue, AtCmd
  <2> QED BY <1>1, <1>3, <1>8, <1>16, <2>1 DEF CIssue
<1>17. CASE MAnswer
  <2>1. AtCmd /\ sd'.blkcnt = sd.blkcnt /\ GoesOn
    BY <1>2, <1>3, <1>4, <1>6, <1>17 DEF MAnswer, Answered, AtCmd
  <2>2. AtData => drv'.todo # <<>> /\ Now'.do = "int" /\ Turns' = Turns
    BY <1>5, <1>7, <2>1 DEF AfterReady, Await
  <2>3. AtStop => drv'.todo = <<>> /\ Turns' = Turns /\ Turns = 0
    <3>1. AtStop => ~(Len(drv.todo) > 1)
      BY <1>5
    <3> QED BY <1>7, <2>1, <3>1
  <2>4. CallShape' /\ Place' = Place + 1
    BY <1>7, <2>1
  <2> QED BY <1>1, <1>3, <1>17, <2>1, <2>2, <2>3, <2>4 DEF CAnswer
<1>18. CASE MInt
  <2>1. (AtReady \/ AtDone) /\ sd'.blkcnt = sd.blkcnt /\ GoesOn
    BY <1>2, <1>3, <1>4, <1>6, <1>18 DEF MInt
  <2>2. CallShape' /\ Place' = Place + 1 /\ Turns' = Turns
    BY <1>7, <2>1
  <2>3. AtReady => /\ drv'.todo # <<>> /\ Now.on = FlagOf(drv.op)
                   /\ Now'.do = (IF drv.op = "read" THEN "fetch" ELSE "store")
    BY <1>4, <1>5, <1>7, <2>1 DEF StepOf, Fetch, Store
  <2>4. AtDone => Turns = 0 /\ Now.on = "data_done" /\ (drv'.todo # <<>> => Now'.do = "cmd")
    BY <1>4, <1>5, <1>7, <2>1 DEF Cmd
  <2> QED BY <1>1, <1>3, <1>18, <2>1, <2>2, <2>3, <2>4 DEF CInt
<1>19. CASE MFetch
  <2>1. AtStep /\ drv.op = "read" /\ GoesOn /\ sd'.blkcnt = sd.blkcnt
    BY <1>2, <1>3, <1>4, <1>19 DEF MFetch
  <2>2. CallShape' /\ Place' = Place + 1 /\ Turns' = Turns - 1
    BY <1>7, <2>1
  <2>3. /\ Len(drv.todo) > 1 => drv'.todo # <<>> /\ Now' = drv.todo[2]
        /\ drv'.todo # <<>> => Len(drv.todo) > 1
    BY <1>7, <2>1
  <2>4. AfterStep
    BY <1>5, <2>1
  <2>5. Turns > 1 => Len(drv.todo) > 1 /\ drv.todo[2].do = "int"
    BY <2>4 DEF AfterStep, AfterReady, Await
  <2>6. Len(drv.todo) > 1 => drv.todo[2].do \in {"int", "cmd"}
    BY <2>1, <2>4 DEF AfterStep, AfterReady, Await, Cmd
  <2> QED BY <1>1, <1>3, <1>19, <2>1, <2>2, <2>3, <2>5, <2>6 DEF CFetch
<1>20. CASE MStore
  <2>1. AtStep /\ drv.op = "write" /\ GoesOn /\ sd'.blkcnt = sd.blkcnt
    BY <1>2, <1>3, <1>4, <1>6, <1>20 DEF MStore
  <2>2. CallShape' /\ Place' = Place + 1 /\ Turns' = Turns - 1
    BY <1>7, <2>1
  <2>3. Len(drv.todo) > 1 => drv'.todo # <<>> /\ Now' = drv.todo[2]
    BY <1>7, <2>1
  <2>4. AfterStep
    BY <1>5, <2>1
  <2>5. Len(drv.todo) > 1 /\ drv.todo[2].do = "int"
    BY <2>1, <2>4 DEF AfterStep, AfterReady, Await
  <2> QED BY <1>1, <1>3, <1>20, <2>1, <2>2, <2>3, <2>5 DEF CStore
<1>21. CASE MScr
  BY <1>2, <1>3, <1>4, <1>21 DEF MScr
<1>22. CASE MUp
  <2>1. Now.on = "op_cond" /\ Now.do = "cmd"
    BY <1>1, <1>22 DEF MUp, PhaseShape
  <2> QED BY <1>2, <1>3, <1>4, <2>1
<1> QED BY <1>1, <1>10, <1>11, <1>12, <1>13, <1>14, <1>15, <1>16, <1>17, <1>18, <1>19, <1>20, <1>21, <1>22

----------------------------------------------------------------------------
(* The steps of an initialisation *)

LEMMA RestItems ==
  /\ InitRest[1] = Cmd("cid", 0, 0) /\ InitRest[2] = Cmd("rel_addr", 0, 0)
  /\ InitRest[3] = Wait("clock") /\ InitRest[4] = Poll("clock") /\ InitRest[5] = Cmd("select", 0, 0)
  /\ InitRest[6] = Wait("dat") /\ InitRest[7] = Cmd("app", 0, 0) /\ InitRest[8] = Cmd("scr", 0, 1)
  /\ InitRest[9] = Await("read_rdy") /\ InitRest[10] = ReadScr
BY DEF InitRest

RestCodes == {"cid", "rel_addr", "select", "app", "scr"}

LEMMA RestDoes ==
  ASSUME NEW k \in 1 .. 10
  PROVE  /\ InitRest[k].do = "int" => k = 9
         /\ InitRest[k].do = "cmd" /\ InitRest[k].on = "scr" => k = 8
         /\ InitRest[k].do \in {"cmd", "status", "poll", "int", "scr"}
         /\ InitRest[k].do = "cmd" => InitRest[k].on \in RestCodes
         /\ InitRest[k].do = "cmd" /\ InitRest[k].on # "scr" => InitRest[k].num = 0
<1>1. k \in {1, 2, 3, 4, 5, 6, 7, 8, 9, 10}
  OBVIOUS
<1> DEFINE Fit(j) == /\ InitRest[j].do = "int" => j = 9
                     /\ InitRest[j].do = "cmd" /\ InitRest[j].on = "scr" => j = 8
                     /\ InitRest[j].do \in {"cmd", "status", "poll", "int", "scr"}
                     /\ InitRest[j].do = "cmd" => InitRest[j].on \in RestCodes
                     /\ InitRest[j].do = "cmd" /\ InitRest[j].on # "scr" => InitRest[j].num = 0
<1>2. Fit(1) /\ Fit(2) /\ Fit(5) /\ Fit(7) /\ Fit(8)
  BY RestItems DEF Cmd, RestCodes
<1>3. Fit(3) /\ Fit(4) /\ Fit(6) /\ Fit(9) /\ Fit(10)
  BY RestItems DEF Wait, Poll, Await, ReadScr
<1> HIDE DEF Fit
<1>4. Fit(k)
  BY <1>1, <1>2, <1>3
<1> QED BY <1>4 DEF Fit

LEMMA RestNow ==
  ASSUME NEW s \in Seq(Items), s # <<>>, Rest(s)
  PROVE  /\ Rest(Tail(s))
         /\ CheckAt(Tail(s)) => s[1] = Wait("dat")
         /\ ScrAt(Tail(s)) => CheckAt(s)
         /\ CheckAt(s) => s[1] = Cmd("app", 0, 0)
         /\ ScrAt(s) => s[1] = Cmd("scr", 0, 1) /\ IntAt(Tail(s))
         /\ IntAt(Tail(s)) => ScrAt(s)
         /\ IntAt(s) => s[1] = Await("read_rdy")
         /\ s[1].do \in {"cmd", "status", "poll", "int", "scr"}
         /\ s[1].do = "cmd" => s[1].on \in RestCodes
         /\ s[1].do = "cmd" /\ s[1].on # "scr" => s[1].num = 0
<1>1. /\ Tail(s) \in Seq(Items) /\ Len(Tail(s)) = Len(s) - 1 /\ Len(s) \in Nat \ {0}
      /\ \A k \in 1 .. Len(s) - 1 : Tail(s)[k] = s[k + 1]
  BY NextItems
<1>2. Tail(s) = <<>> <=> Len(Tail(s)) = 0
  BY <1>1, SomeItems
<1>3. PICK n : n = Len(s)
  OBVIOUS
<1>4. n \in 1 .. 10 /\ \A k \in 1 .. n : s[k] = InitRest[10 - n + k]
  <2>1. Len(s) <= 10 /\ \A k \in 1 .. Len(s) : s[k] = InitRest[10 - Len(s) + k]
    BY DEF Rest
  <2>2. n <= 10 /\ \A k \in 1 .. n : s[k] = InitRest[10 - n + k]
    BY <1>3, <2>1
  <2>3. n \in Nat /\ n # 0
    BY <1>1, <1>3
  <2>4. n \in 1 .. 10
    <3>1. n <= 10
      BY <2>2
    <3> QED BY <2>3, <3>1
  <2> QED BY <2>2, <2>4
<1>5. Len(Tail(s)) = n - 1 /\ \A k \in 1 .. n - 1 : Tail(s)[k] = s[k + 1]
  BY <1>1, <1>3
<1>6. PICK t : t = Tail(s)
  OBVIOUS
<1>7. Len(t) = n - 1 /\ (t = <<>> <=> n - 1 = 0) /\ \A k \in 1 .. n - 1 : t[k] = s[k + 1]
  BY <1>2, <1>5, <1>6
<1>8. Rest(t)
  <2>1. \A k \in 1 .. n - 1 : k + 1 \in 1 .. n /\ 10 - n + (k + 1) = 10 - (n - 1) + k
    BY <1>4
  <2>2. \A k \in 1 .. n - 1 : t[k] = InitRest[10 - (n - 1) + k]
    BY <1>4, <1>7, <2>1
  <2>3. n - 1 <= 10
    BY <1>4
  <2> QED BY <1>7, <2>2, <2>3 DEF Rest
<1>9. PICK k \in 1 .. 10 : k = 11 - n
  BY <1>4
<1>10. s[1] = InitRest[k]
  <2>1. 1 \in 1 .. n /\ 10 - n + 1 = k
    BY <1>4, <1>9
  <2> QED BY <1>4, <2>1
<1>11. t # <<>> => k + 1 \in 1 .. 10 /\ t[1] = InitRest[k + 1]
  <2>1. HAVE t # <<>>
  <2>2. 1 \in 1 .. n - 1 /\ 2 \in 1 .. n /\ 10 - n + 2 = k + 1 /\ k + 1 \in 1 .. 10
    BY <1>4, <1>7, <1>9, <2>1
  <2>3. t[1] = s[2]
    BY <1>7, <2>2
  <2>4. s[2] = InitRest[10 - n + 2]
    BY <1>4, <2>2
  <2> QED BY <2>2, <2>3, <2>4
<1>12. /\ s[1].do = "int" => k = 9
       /\ s[1].do = "cmd" /\ s[1].on = "scr" => k = 8
       /\ s[1].do \in {"cmd", "status", "poll", "int", "scr"}
       /\ s[1].do = "cmd" => s[1].on \in RestCodes
       /\ s[1].do = "cmd" /\ s[1].on # "scr" => s[1].num = 0
  BY <1>10, RestDoes
<1>13. PICK j : j = k + 1
  OBVIOUS
<1>14. j \in 1 .. 10 => /\ InitRest[j].do = "int" => j = 9
                        /\ InitRest[j].do = "cmd" /\ InitRest[j].on = "scr" => j = 8
  BY RestDoes
<1>15. CheckAt(t) => s[1] = Wait("dat")
  <2>1. HAVE CheckAt(t)
  <2>2. n - 1 = 4
    BY <1>7, <2>1 DEF CheckAt
  <2>3. k = 6
    BY <1>4, <1>9, <2>2
  <2> QED BY <1>10, <2>3, RestItems
<1>16. ScrAt(t) => CheckAt(s)
  <2>1. HAVE ScrAt(t)
  <2>2. j \in 1 .. 10 /\ t[1] = InitRest[j] /\ t[1].do = "cmd" /\ t[1].on = "scr"
    BY <1>11, <1>13, <2>1 DEF ScrAt
  <2>3. j = 8
    BY <1>14, <2>2
  <2>4. n = 4
    BY <1>4, <1>9, <1>13, <2>3
  <2> QED BY <1>3, <2>4 DEF CheckAt
<1>17. CheckAt(s) => s[1] = Cmd("app", 0, 0)
  <2>1. HAVE CheckAt(s)
  <2>2. n = 4
    BY <1>3, <2>1 DEF CheckAt
  <2>3. k = 7
    BY <1>4, <1>9, <2>2
  <2> QED BY <1>10, <2>3, RestItems
<1>18. ScrAt(s) => s[1] = Cmd("scr", 0, 1) /\ IntAt(t)
  <2>1. HAVE ScrAt(s)
  <2>2. k = 8
    BY <1>12, <2>1 DEF ScrAt
  <2>3. n - 1 # 0
    BY <1>4, <1>9, <2>2
  <2>4. t # <<>> /\ t[1] = InitRest[k + 1] /\ k + 1 = 9
    BY <1>7, <1>11, <2>2, <2>3
  <2> QED BY <1>10, <2>2, <2>4, RestItems DEF IntAt, Await
<1>19. IntAt(t) => ScrAt(s)
  <2>1. HAVE IntAt(t)
  <2>2. j \in 1 .. 10 /\ t[1] = InitRest[j] /\ t[1].do = "int"
    BY <1>11, <1>13, <2>1 DEF IntAt
  <2>3. j = 9
    BY <1>14, <2>2
  <2>4. k = 8
    BY <1>13, <2>3
  <2> QED BY <1>10, <2>4, RestItems DEF ScrAt, Cmd
<1>20. IntAt(s) => s[1] = Await("read_rdy")
  BY <1>10, <1>12, RestItems DEF IntAt
<1> QED BY <1>6, <1>8, <1>12, <1>15, <1>16, <1>17, <1>18, <1>19, <1>20

EarlyCodes == {"go_idle", "if_cond", "app0", "app", "op_cond", "bus_width"}
(* what comes before and after InitRest *)
Plain(i) == /\ i.do \in {"cmd", "status", "poll"}
            /\ i.do = "status" => i.on = "clock"
            /\ i.do = "cmd" => i.on \in EarlyCodes /\ i.num = 0

LEMMA PlainIs ==
  /\ \A i \in EarlyItems : Plain(i) /\ ~(i.do = "cmd" /\ i.on = "op_cond")
  /\ \A i \in LastItems : Plain(i) /\ ~(i.do = "cmd" /\ i.on = "op_cond")
  /\ Plain(Cmd("op_cond", 0, 0)) /\ Cmd("op_cond", 0, 0).on = "op_cond" /\ Cmd("op_cond", 0, 0).do = "cmd"
<1>1. Plain(Poll("reset")) /\ Plain(Poll("clock")) /\ Plain(Wait("clock"))
  BY DEF Plain, Poll, Wait
<1>2. \A code \in EarlyCodes : Plain(Cmd(code, 0, 0)) /\ Cmd(code, 0, 0).on = code /\ Cmd(code, 0, 0).do = "cmd"
  BY DEF Plain, Cmd
<1>3. Poll("reset").do # "cmd" /\ Poll("clock").do # "cmd" /\ Wait("clock").do # "cmd"
  BY DEF Poll, Wait
<1>4. \A i \in EarlyItems : Plain(i) /\ ~(i.do = "cmd" /\ i.on = "op_cond")
  BY <1>1, <1>2, <1>3 DEF EarlyItems, EarlyCodes
<1>5. \A i \in LastItems : Plain(i) /\ ~(i.do = "cmd" /\ i.on = "op_cond")
  BY <1>2 DEF LastItems, EarlyCodes
<1> QED BY <1>2, <1>4, <1>5 DEF EarlyCodes

LEMMA CheckEnds ==
  ASSUME NEW s, CheckAt(s)
  PROVE  s[4] = ReadScr /\ Len(s) = 4 /\ s[4].do = "scr"
<1>1. PICK n : n = Len(s)
  OBVIOUS
<1>2. n = 4 /\ \A k \in 1 .. n : s[k] = InitRest[10 - n + k]
  BY <1>1 DEF CheckAt, Rest
<1>3. 4 \in 1 .. n /\ 10 - n + 4 = 10
  BY <1>2
<1>4. s[4] = InitRest[10]
  BY <1>2, <1>3
<1> QED BY <1>1, <1>2, <1>4, RestItems DEF ReadScr

LEMMA EarlyNow ==
  ASSUME NEW s \in Seq(Items), Early(s)
  PROVE  /\ s # <<>> /\ Plain(s[1]) /\ ~CheckAt(s)
         /\ ~(s[1].do = "cmd" /\ s[1].on = "op_cond") => Early(Tail(s))
<1>1. /\ Tail(s) \in Seq(Items) /\ Len(Tail(s)) = Len(s) - 1 /\ Len(s) \in Nat \ {0}
      /\ \A k \in 1 .. Len(s) - 1 : Tail(s)[k] = s[k + 1]
  BY NextItems DEF Early
<1>2. PICK n, t : n = Len(s) /\ t = Tail(s)
  OBVIOUS
<1>3. n \in Nat /\ n # 0 /\ Len(t) = n - 1 /\ \A k \in 1 .. n - 1 : t[k] = s[k + 1]
  BY <1>1, <1>2
<1>4. s # <<>> /\ s[n] = Cmd("op_cond", 0, 0) /\ \A k \in 1 .. n - 1 : s[k] \in EarlyItems
  BY <1>2 DEF Early
<1>5. n = 1 => s[1] = Cmd("op_cond", 0, 0)
  BY <1>4
<1>6. n # 1 => s[1] \in EarlyItems
  <2>1. n # 1 => 1 \in 1 .. n - 1
    BY <1>3
  <2> QED BY <1>4, <2>1
<1>7. Plain(s[1]) /\ (~(s[1].do = "cmd" /\ s[1].on = "op_cond") => n # 1)
  BY <1>5, <1>6, PlainIs
<1>8. ~CheckAt(s)
  <2>1. SUFFICES ASSUME CheckAt(s) PROVE FALSE
    OBVIOUS
  <2>2. s[4].do = "scr" /\ n = 4
    BY <1>2, <2>1, CheckEnds
  <2>3. s[4] = Cmd("op_cond", 0, 0)
    BY <1>4, <2>2
  <2> QED BY <2>2, <2>3 DEF Cmd
<1>9. n # 1 => Early(t)
  <2>1. HAVE n # 1
  <2>2. t # <<>>
    <3>1. t = <<>> <=> Len(t) = 0
      BY <1>1, <1>2, SomeItems
    <3>2. n - 1 # 0
      BY <1>3, <2>1
    <3> QED BY <1>3, <3>1, <3>2
  <2>3. t[n - 1] = Cmd("op_cond", 0, 0)
    <3>1. n - 1 \in 1 .. n - 1 /\ (n - 1) + 1 = n
      BY <1>3, <2>1
    <3> QED BY <1>3, <1>4, <3>1
  <2>4. \A k \in 1 .. (n - 1) - 1 : t[k] \in EarlyItems
    <3>1. \A k \in 1 .. (n - 1) - 1 : k \in 1 .. n - 1 /\ k + 1 \in 1 .. n - 1
      BY <1>3
    <3> QED BY <1>3, <1>4, <3>1
  <2> QED BY <1>3, <2>2, <2>3, <2>4 DEF Early
<1> QED BY <1>2, <1>4, <1>7, <1>8, <1>9

LEMMA LastNow ==
  ASSUME NEW s \in Seq(Items), s # <<>>, Last(s)
  PROVE  Plain(s[1]) /\ ~CheckAt(s) /\ Last(Tail(s))
<1>1. /\ Len(Tail(s)) = Len(s) - 1 /\ Len(s) \in Nat \ {0}
      /\ \A k \in 1 .. Len(s) - 1 : Tail(s)[k] = s[k + 1]
  BY NextItems
<1>2. PICK n, t : n = Len(s) /\ t = Tail(s)
  OBVIOUS
<1>3. n \in Nat /\ n # 0 /\ Len(t) = n - 1 /\ \A k \in 1 .. n - 1 : t[k] = s[k + 1]
  BY <1>1, <1>2
<1>4. \A k \in 1 .. n : s[k] \in LastItems
  BY <1>2 DEF Last
<1>5. s[1] \in LastItems
  <2>1. 1 \in 1 .. n
    BY <1>3
  <2> QED BY <1>4, <2>1
<1>6. ~CheckAt(s)
  <2>1. SUFFICES ASSUME CheckAt(s) PROVE FALSE
    OBVIOUS
  <2>2. s[4].do = "scr" /\ n = 4
    BY <1>2, <2>1, CheckEnds
  <2>3. s[4] \in LastItems
    BY <1>4, <2>2
  <2>4. Plain(s[4])
    BY <2>3, PlainIs
  <2> QED BY <2>2, <2>4 DEF Plain
<1>7. Last(t)
  <2>1. \A k \in 1 .. n - 1 : k + 1 \in 1 .. n
    BY <1>3
  <2>2. \A k \in 1 .. n - 1 : t[k] \in LastItems
    BY <1>3, <1>4, <2>1
  <2> QED BY <1>3, <2>2 DEF Last
<1> QED BY <1>2, <1>5, <1>6, <1>7, PlainIs

LEMMA PlainCalm ==
  ASSUME NEW s, s # <<>> => Plain(s[1])
  PROVE  ~ScrAt(s) /\ ~IntAt(s)
BY DEF Plain, ScrAt, IntAt, EarlyCodes

(* any list of an initialisation *)
Listed(s) == Early(s) \/ Rest(s) \/ Last(s)
Calm(s) == ~CheckAt(s) /\ ~ScrAt(s) /\ ~IntAt(s)

LEMMA LastCalm ==
  ASSUME NEW s \in Seq(Items), Last(s)
  PROVE  Calm(s)
<1>1. CASE s = <<>>
  <2>1. ~CheckAt(s)
    <3>1. SUFFICES ASSUME CheckAt(s) PROVE FALSE
      OBVIOUS
    <3>2. Len(s) = 4 /\ Len(s) = 0
      BY <1>1, <3>1, CheckEnds, SomeItems
    <3> QED BY <3>2
  <2> QED BY <1>1, <2>1 DEF Calm, ScrAt, IntAt
<1>2. CASE s # <<>>
  BY <1>2, LastNow, PlainCalm DEF Calm
<1> QED BY <1>1, <1>2

LEMMA EarlyCalm ==
  ASSUME NEW s \in Seq(Items), Early(s)
  PROVE  Calm(s)
BY EarlyNow, PlainCalm DEF Calm

InitCodes == {"go_idle", "if_cond", "app0", "app", "op_cond", "bus_width", "cid", "rel_addr", "select", "scr"}

LEMMA ListedNow ==
  ASSUME NEW s \in Seq(Items), s # <<>>, Listed(s)
  PROVE  /\ CheckAt(s) => s[1] = Cmd("app", 0, 0)
         /\ ScrAt(s) => s[1] = Cmd("scr", 0, 1)
         /\ IntAt(s) => s[1] = Await("read_rdy")
         /\ s[1].do \in {"cmd", "status", "poll", "int", "scr"}
         /\ s[1].do = "cmd" => s[1].on \in InitCodes
         /\ s[1].do = "cmd" /\ s[1].on # "scr" => s[1].num = 0
<1>1. CASE Rest(s)
  BY <1>1, RestNow DEF RestCodes, InitCodes
<1>2. CASE Early(s) \/ Last(s)
  <2>1. Plain(s[1]) /\ Calm(s)
    BY <1>2, EarlyNow, LastNow, EarlyCalm, LastCalm
  <2> QED BY <2>1 DEF Plain, Calm, EarlyCodes, InitCodes
<1> QED BY <1>1, <1>2 DEF Listed

LEMMA ListedNext ==
  ASSUME NEW s \in Seq(Items), s # <<>>, Listed(s), ~(s[1].do = "cmd" /\ s[1].on = "op_cond")
  PROVE  /\ Early(s) => Early(Tail(s))
         /\ Rest(s) => Rest(Tail(s))
         /\ Last(s) => Last(Tail(s))
         /\ CheckAt(Tail(s)) => s[1] = Wait("dat")
         /\ ScrAt(Tail(s)) => CheckAt(s)
         /\ ScrAt(s) => IntAt(Tail(s))
         /\ IntAt(Tail(s)) => ScrAt(s)
<1>0. Tail(s) \in Seq(Items)
  BY NextItems
<1>1. /\ Early(s) => Early(Tail(s))
      /\ Rest(s) => Rest(Tail(s))
      /\ Last(s) => Last(Tail(s))
  BY EarlyNow, RestNow, LastNow
<1>2. CASE Rest(s)
  BY <1>1, <1>2, RestNow
<1>3. CASE Early(s)
  <2>1. Calm(Tail(s)) /\ Calm(s)
    BY <1>0, <1>1, <1>3, EarlyCalm
  <2> QED BY <1>1, <2>1 DEF Calm
<1>4. CASE Last(s)
  <2>1. Calm(Tail(s)) /\ Calm(s)
    BY <1>0, <1>1, <1>4, LastCalm
  <2> QED BY <1>1, <2>1 DEF Calm
<1> QED BY <1>2, <1>3, <1>4 DEF Listed

LEMMA NewLists ==
  /\ InitRest \in Seq(Items) /\ Rest(InitRest) /\ Calm(InitRest)
  /\ App("op_cond") \in Seq(Items) /\ Early(App("op_cond")) /\ Calm(App("op_cond"))
  /\ App("bus_width") \in Seq(Items) /\ Last(App("bus_width")) /\ Calm(App("bus_width"))
<1>1. InitRest \in Seq(Items) /\ Rest(InitRest) /\ Calm(InitRest)
  <2>1. InitRest \in Seq(Items) /\ Len(InitRest) = 10
    BY InitRestIs
  <2>2. PICK n : n = Len(InitRest)
    OBVIOUS
  <2>3. n = 10 /\ \A k \in 1 .. n : 10 - n + k = k
    BY <2>1, <2>2
  <2>4. Rest(InitRest)
    <3>1. n <= 10 /\ \A k \in 1 .. n : InitRest[k] = InitRest[10 - n + k]
      BY <2>3
    <3> QED BY <2>2, <3>1 DEF Rest
  <2>5. ~CheckAt(InitRest)
    <3>1. SUFFICES ASSUME CheckAt(InitRest) PROVE FALSE
      OBVIOUS
    <3>2. n = 4
      BY <2>2, <3>1, CheckEnds
    <3> QED BY <2>3, <3>2
  <2>6. ~ScrAt(InitRest) /\ ~IntAt(InitRest)
    BY RestItems DEF ScrAt, IntAt, Cmd
  <2> QED BY <2>1, <2>4, <2>5, <2>6 DEF Calm
<1>2. App("op_cond") \in Seq(Items) /\ Early(App("op_cond"))
  <2>1. PICK app : app = App("op_cond")
    OBVIOUS
  <2>2. /\ app \in Seq(Items) /\ Len(app) = 2
        /\ app[1] \in {Cmd("app0", 0, 0), Cmd("app", 0, 0)} /\ app[2] = Cmd("op_cond", 0, 0)
    BY <2>1, AppIs
  <2>3. app # <<>>
    <3>1. Len(app) # 0
      BY <2>2
    <3> QED BY <2>2, <3>1, SomeItems
  <2>4. PICK n : n = Len(app)
    OBVIOUS
  <2>5. n = 2 /\ \A k \in 1 .. n - 1 : k = 1
    BY <2>2, <2>4
  <2>6. app[n] = Cmd("op_cond", 0, 0) /\ \A k \in 1 .. n - 1 : app[k] \in EarlyItems
    BY <2>2, <2>5 DEF EarlyItems
  <2> QED BY <2>1, <2>2, <2>3, <2>4, <2>6 DEF Early
<1>3. App("bus_width") \in Seq(Items) /\ Last(App("bus_width"))
  <2>1. PICK app : app = App("bus_width")
    OBVIOUS
  <2>2. /\ app \in Seq(Items) /\ Len(app) = 2
        /\ app[1] \in {Cmd("app0", 0, 0), Cmd("app", 0, 0)} /\ app[2] = Cmd("bus_width", 0, 0)
    BY <2>1, AppIs
  <2>4. PICK n : n = Len(app)
    OBVIOUS
  <2>5. n = 2 /\ \A k \in 1 .. n : k = 1 \/ k = 2
    BY <2>2, <2>4
  <2>6. \A k \in 1 .. n : app[k] \in LastItems
    BY <2>2, <2>5 DEF LastItems
  <2> QED BY <2>1, <2>2, <2>4, <2>6 DEF Last
<1> QED BY <1>1, <1>2, <1>3, EarlyCalm, LastCalm

IQuit == CQuit /\ Calm(drv'.todo)
ISkip == MSkip /\ Calm(drv'.todo)
IEnable == MEnable /\ Calm(drv'.todo)
IPass == /\ MPass /\ ~ScrAt(drv'.todo) /\ ~IntAt(drv'.todo)
         /\ CheckAt(drv'.todo) => "dat" \notin host.inhibit
IIssue == MIssue /\ Now.num <= 1 /\ (Now.num > 0 => ScrAt(drv.todo)) /\ Now.on # "write"
IAnswer == /\ MAnswer /\ ~CheckAt(drv'.todo)
           /\ ScrAt(drv'.todo) => CheckAt(drv.todo)
           /\ IntAt(drv'.todo) => ScrAt(drv.todo)
           /\ Now.num > 0 => IntAt(drv'.todo)
IInt == MInt /\ Calm(drv'.todo) /\ Now.on = "read_rdy" /\ IntAt(drv.todo)
IScr == MScr /\ Calm(drv'.todo)
IUp == MUp /\ Calm(drv'.todo)

LEMMA InitMoves ==
  ASSUME Types, InitShape, PhaseShape, drv.op = "init", DriverStep, card' = card
  PROVE  /\ drv.todo # <<>> /\ Keeps /\ DrvType' /\ SdType' /\ HostType' /\ InitShape' /\ ~sd.ready
         /\ \/ MStay \/ IQuit \/ ISkip \/ IEnable \/ IPass \/ MReady \/ IIssue \/ IAnswer \/ IInt
            \/ IScr \/ IUp
<1>1. /\ drv.todo # <<>> /\ Keeps /\ DrvType' /\ SdType' /\ HostType'
      /\ \/ MStay \/ MQuit \/ MSkip \/ MEnable \/ MPass \/ MReady \/ MIssue \/ MAnswer \/ MInt
         \/ MFetch \/ MStore \/ MScr \/ MUp
  BY DriverMoves
<1>2. PICK s \in Seq(Items) : s = drv.todo
  BY DEF Types, DrvType
<1>3. ~sd.ready /\ s # <<>> /\ Listed(s) /\ (Early(s) \/ (drv.ccs = card.hc /\ (Rest(s) \/ Last(s))))
  BY <1>1, <1>2 DEF InitShape, Listed
<1>4. ~sd'.ready /\ drv'.op = "init" /\ card' = card
  BY <1>1, <1>3 DEF Keeps
<1>5. /\ CheckAt(s) => s[1] = Cmd("app", 0, 0)
      /\ ScrAt(s) => s[1] = Cmd("scr", 0, 1)
      /\ IntAt(s) => s[1] = Await("read_rdy")
      /\ s[1].do \in {"cmd", "status", "poll", "int", "scr"}
      /\ s[1].do = "cmd" => s[1].on \in InitCodes
      /\ s[1].do = "cmd" /\ s[1].on # "scr" => s[1].num = 0
  BY <1>3, ListedNow
<1>6. Now = s[1]
  BY <1>2 DEF Now
<1>7. ASSUME ~(s[1].do = "cmd" /\ s[1].on = "op_cond"), drv'.todo = Tail(drv.todo), drv'.ccs = drv.ccs
      PROVE  /\ InitShape'
             /\ CheckAt(drv'.todo) => s[1] = Wait("dat")
             /\ ScrAt(drv'.todo) => CheckAt(s)
             /\ ScrAt(s) => IntAt(drv'.todo)
             /\ IntAt(drv'.todo) => ScrAt(s)
  <2>1. PICK t : t = Tail(s)
    OBVIOUS
  <2>2. /\ Early(s) => Early(t)
        /\ Rest(s) => Rest(t)
        /\ Last(s) => Last(t)
        /\ CheckAt(t) => s[1] = Wait("dat")
        /\ ScrAt(t) => CheckAt(s)
        /\ ScrAt(s) => IntAt(t)
        /\ IntAt(t) => ScrAt(s)
    BY <1>3, <1>7, <2>1, ListedNext
  <2>3. drv'.todo = t
    BY <1>2, <1>7, <2>1
  <2> QED BY <1>3, <1>4, <1>7, <2>2, <2>3 DEF InitShape
<1>8. ASSUME drv'.todo = drv.todo, drv'.ccs = drv.ccs
      PROVE  InitShape'
  BY <1>2, <1>3, <1>4, <1>8 DEF InitShape
<1>9. Calm(<<>>) /\ Last(<<>>)
  <2>1. <<>> \in Seq(Items) /\ Last(<<>>)
    BY DEF Last
  <2> QED BY <2>1, LastCalm
<1>10. ASSUME drv'.todo = <<>>, sd'.err # "ok"
       PROVE  InitShape' /\ Calm(drv'.todo)
  BY <1>4, <1>9, <1>10 DEF InitShape
<1>11. CASE MStay
  BY <1>1, <1>3, <1>8, <1>11 DEF MStay, Stays, SameCall
<1>12. CASE MQuit
  BY <1>1, <1>3, <1>10, <1>12 DEF MQuit, IQuit, CQuit
<1>13. CASE MSkip
  <2>1. s[1].do = "cmd" /\ s[1].on \in {"app0", "cid", "stop"} /\ drv'.todo = Tail(drv.todo) /\ drv'.ccs = drv.ccs
    BY <1>6, <1>13 DEF MSkip, GoesOn, SameCall, Unchecked
  <2>2. /\ InitShape'
        /\ CheckAt(drv'.todo) => s[1] = Wait("dat")
        /\ ScrAt(drv'.todo) => CheckAt(s)
        /\ IntAt(drv'.todo) => ScrAt(s)
    BY <1>7, <2>1
  <2>3. s[1] # Wait("dat") /\ s[1] # Cmd("app", 0, 0) /\ s[1] # Cmd("scr", 0, 1)
    BY <2>1 DEF Wait, Cmd
  <2>4. Calm(drv'.todo)
    BY <1>5, <2>2, <2>3 DEF Calm
  <2> QED BY <1>1, <1>3, <1>13, <2>2, <2>4 DEF ISkip
<1>14. CASE MEnable
  <2>1. s[1].on = "op_cond" /\ s[1].do = "cmd" /\ drv'.todo = s /\ drv'.todo = drv.todo /\ drv'.ccs = drv.ccs
    BY <1>2, <1>6, <1>14 DEF MEnable, SameCall
  <2>2. s[1] # Cmd("app", 0, 0) /\ s[1] # Cmd("scr", 0, 1) /\ s[1] # Await("read_rdy")
    BY <2>1 DEF Cmd, Await
  <2>3. Calm(drv'.todo)
    BY <1>5, <2>1, <2>2 DEF Calm
  <2> QED BY <1>1, <1>3, <1>8, <1>14, <2>1, <2>3 DEF IEnable
<1>15. CASE MPass
  <2>1. s[1].do \in {"status", "poll"} /\ drv'.todo = Tail(drv.todo) /\ drv'.ccs = drv.ccs
    BY <1>6, <1>15 DEF MPass, GoesOn, SameCall
  <2>2. /\ InitShape'
        /\ CheckAt(drv'.todo) => s[1] = Wait("dat")
        /\ ScrAt(drv'.todo) => CheckAt(s)
        /\ IntAt(drv'.todo) => ScrAt(s)
    BY <1>7, <2>1
  <2>3. s[1] # Cmd("app", 0, 0) /\ s[1] # Cmd("scr", 0, 1)
    BY <2>1 DEF Cmd
  <2>4. ~ScrAt(drv'.todo) /\ ~IntAt(drv'.todo)
    BY <1>5, <2>2, <2>3
  <2>5. CheckAt(drv'.todo) => "dat" \notin host.inhibit
    BY <1>6, <1>15, <2>2 DEF MPass, Wait
  <2> QED BY <1>1, <1>3, <1>15, <2>2, <2>4, <2>5 DEF IPass
<1>16. CASE MReady
  BY <1>1, <1>3, <1>8, <1>16 DEF MReady, SameCall
<1>17. CASE MIssue
  <2>1. s[1].do = "cmd" /\ s[1] \in Commands /\ drv'.todo = drv.todo /\ drv'.ccs = drv.ccs
    BY <1>6, <1>17 DEF MIssue, SameCall
  <2>2. s[1].on # "write"
    BY <1>5, <2>1 DEF InitCodes
  <2>3. CASE s[1].on = "scr"
    <3>1. ScrAt(s)
      BY <1>3, <2>1, <2>3 DEF ScrAt
    <3>2. s[1].num = 1
      BY <1>5, <3>1 DEF Cmd
    <3> QED BY <1>1, <1>2, <1>3, <1>6, <1>8, <1>17, <2>1, <2>2, <3>1, <3>2 DEF IIssue
  <2>4. CASE s[1].on # "scr"
    <3>1. s[1].num = 0
      BY <1>5, <2>1, <2>4
    <3> QED BY <1>1, <1>3, <1>6, <1>8, <1>17, <2>1, <2>2, <3>1 DEF IIssue
  <2> QED BY <2>3, <2>4
<1>18. CASE MAnswer
  <2>1. s[1].do = "cmd" /\ s[1].on # "op_cond" /\ drv'.todo = Tail(drv.todo) /\ drv'.ccs = drv.ccs
    BY <1>6, <1>18 DEF MAnswer, Answered, GoesOn, SameCall
  <2>2. /\ InitShape'
        /\ CheckAt(drv'.todo) => s[1] = Wait("dat")
        /\ ScrAt(drv'.todo) => CheckAt(s)
        /\ ScrAt(s) => IntAt(drv'.todo)
        /\ IntAt(drv'.todo) => ScrAt(s)
    BY <1>7, <2>1
  <2>3. s[1] # Wait("dat")
    BY <2>1 DEF Wait
  <2>4. s[1].num > 0 => IntAt(drv'.todo)
    <3>1. CASE s[1].on = "scr"
      BY <1>3, <2>1, <2>2, <3>1 DEF ScrAt
    <3>2. CASE s[1].on # "scr"
      BY <1>5, <2>1, <3>2
    <3> QED BY <3>1, <3>2
  <2> QED BY <1>1, <1>2, <1>3, <1>6, <1>18, <2>2, <2>3, <2>4 DEF IAnswer
<1>19. CASE MInt
  <2>1. s[1].do = "int" /\ drv'.todo = Tail(drv.todo) /\ drv'.ccs = drv.ccs
    BY <1>6, <1>19 DEF MInt, GoesOn, SameCall
  <2>2. /\ InitShape'
        /\ CheckAt(drv'.todo) => s[1] = Wait("dat")
        /\ ScrAt(drv'.todo) => CheckAt(s)
        /\ IntAt(drv'.todo) => ScrAt(s)
    BY <1>7, <2>1
  <2>3. s[1] # Wait("dat") /\ s[1] # Cmd("app", 0, 0) /\ s[1] # Cmd("scr", 0, 1)
    BY <2>1 DEF Wait, Cmd
  <2>4. Calm(drv'.todo)
    BY <1>5, <2>2, <2>3 DEF Calm
  <2>5. IntAt(s) /\ s[1].on = "read_rdy"
    <3>1. IntAt(s)
      BY <1>3, <2>1 DEF IntAt
    <3> QED BY <1>5, <3>1 DEF Await
  <2> QED BY <1>1, <1>2, <1>3, <1>6, <1>19, <2>2, <2>4, <2>5 DEF IInt
<1>20. CASE MFetch \/ MStore
  BY <1>5, <1>6, <1>20 DEF MFetch, MStore
<1>21. CASE MScr
  <2>1. s[1].do = "scr" /\ drv'.todo \in {App("bus_width"), <<>>} /\ drv'.ccs = drv.ccs
    BY <1>6, <1>21 DEF MScr
  <2>2. ~Early(s)
    <3>1. SUFFICES ASSUME Early(s) PROVE FALSE
      OBVIOUS
    <3>2. Plain(s[1])
      BY <3>1, EarlyNow
    <3> QED BY <2>1, <3>2 DEF Plain
  <2>3. drv'.ccs = card'.hc
    BY <1>3, <2>1, <2>2
  <2>4. Last(drv'.todo) /\ Calm(drv'.todo)
    BY <1>9, <2>1, NewLists
  <2> QED BY <1>1, <1>3, <1>4, <1>21, <2>3, <2>4 DEF IScr, InitShape
<1>22. CASE MUp
  <2>1. CASE Ends0
    BY <1>1, <1>3, <1>10, <1>22, <2>1 DEF Ends0, IUp
  <2>2. CASE drv'.todo = InitRest /\ drv'.ccs = card.hc /\ drv'.phase = "start"
    <3>1. drv'.ccs = card'.hc /\ Rest(drv'.todo) /\ Calm(drv'.todo)
      BY <2>2, NewLists
    <3> QED BY <1>1, <1>3, <1>4, <1>22, <3>1 DEF IUp, InitShape
  <2>3. CASE drv'.todo = App("op_cond") /\ drv'.phase = "start"
    <3>1. Early(drv'.todo) /\ Calm(drv'.todo)
      BY <2>3, NewLists
    <3> QED BY <1>1, <1>3, <1>4, <1>22, <3>1 DEF IUp, InitShape
  <2> QED BY <1>22, <2>1, <2>2, <2>3 DEF MUp
<1> QED BY <1>1, <1>11, <1>12, <1>13, <1>14, <1>15, <1>16, <1>17, <1>18, <1>19, <1>20, <1>21, <1>22

----------------------------------------------------------------------------
(* A step of the driver inside a read or a write keeps the invariant. *)

CallStep == InCall /\ DriverStep /\ card' = card /\ sure' = sure /\ faults' = faults
InitStep == drv.op = "init" /\ DriverStep /\ card' = card /\ sure' = sure /\ faults' = faults

LEMMA CommandIs ==
  ASSUME NEW c \in Commands
  PROVE  /\ c # NoCmd /\ "cmd" \in Lines(c) /\ "write" \notin Lines(c) /\ c.num \in Nat /\ c.arg \in Nat
         /\ c.num > 0 => "dat" \in Lines(c)
         /\ c.num = 0 => Lines(c) = {"cmd"}
<1>1. c.on \in Codes /\ c.num \in Nat /\ c.arg \in Nat
  BY DEF Commands
<1>2. NoCmd.on \notin Codes
  BY DEF NoCmd, Cmd, Codes, NONE
<1> QED BY <1>1, <1>2 DEF Lines

LEMMA NoCmdIs == NoCmd.num = 0 /\ NoCmd.on # "write" /\ NoCmd.arg = 0
BY DEF NoCmd, Cmd, NONE

LEMMA LateIs ==
  ASSUME Types, late' = late \/ late' = TRUE
  PROVE  late' \in BOOLEAN
BY DEF Types

LEMMA CallFrame ==
  ASSUME CInv, CallStep
  PROVE  /\ Types' /\ CallShape' /\ InitShape' /\ PhaseShape' /\ KnowsCard' /\ IdleEmpty' /\ ShortScr'
         /\ (late' = late \/ late' = TRUE) /\ sd.ready /\ Types /\ Keeps
         /\ DataCmd' = DataCmd /\ drv.todo # <<>> /\ Lead' = Lead
         /\ \/ CStay \/ CQuit \/ CWait \/ CReady \/ CIssue \/ CAnswer \/ CInt \/ CFetch \/ CStore
<1>1. Types /\ CallShape /\ PhaseShape /\ InCall /\ DriverStep /\ IdleEmpty /\ KnowsCard
  BY DEF CInv, CallStep
<1>2. /\ drv.todo # <<>> /\ Keeps /\ DrvType' /\ SdType' /\ HostType' /\ sd'.blkcnt = sd.blkcnt
      /\ CallShape' /\ InCall'
      /\ \/ CStay \/ CQuit \/ CWait \/ CReady \/ CIssue \/ CAnswer \/ CInt \/ CFetch \/ CStore
  BY <1>1, CallMoves
<1>3. late' = late \/ late' = TRUE
  BY <1>2 DEF CStay, MStay, Stays, CQuit, Trouble, Answered, CWait, MPass, CReady, MReady, CIssue, MIssue,
              CAnswer, MAnswer, CInt, MInt, CFetch, MFetch, CStore, MStore
<1>4. Types'
  <2>1. late' \in BOOLEAN
    BY <1>1, <1>3, LateIs
  <2>2. CardType' /\ sure' \in [Blocks -> Words] /\ faults' \in Nat
    BY <1>1 DEF Types, CallStep, CardType
  <2> QED BY <1>2, <2>1, <2>2 DEF Types
<1>5. sd.ready /\ sd'.ready /\ sd'.ccs = sd.ccs /\ drv'.op # "init" /\ drv'.op # NONE
  BY <1>1, <1>2 DEF CallShape, Keeps, InCall, NONE
<1>6. InitShape' /\ IdleEmpty' /\ ShortScr'
  BY <1>5 DEF InitShape, IdleEmpty, ShortScr
<1>7. KnowsCard'
  BY <1>1, <1>5 DEF KnowsCard, CallStep
<1>8. PhaseShape'
  <2>1. CASE drv'.phase \in {"start", "issue", "answer"}
    BY <2>1 DEF PhaseShape
  <2>2. CASE CStay
    BY <1>1, <2>2 DEF CStay, MStay, Stays, PhaseShape, Now
  <2>3. CASE CQuit
    BY <2>3 DEF CQuit, PhaseShape
  <2>4. CASE ~CStay /\ ~CQuit
    BY <1>2, <2>1, <2>4 DEF CWait, MPass, CReady, MReady, CIssue, MIssue,
              CAnswer, MAnswer, CInt, MInt, CFetch, MFetch, CStore, MStore, GoesOn
  <2> QED BY <2>2, <2>3, <2>4
<1>9. DataCmd' = DataCmd /\ Lead' = Lead
  BY <1>2, SamePlaces
<1> QED BY <1>1, <1>2, <1>3, <1>4, <1>5, <1>6, <1>7, <1>8, <1>9

LEMMA CallController ==
  ASSUME CInv, CallStep
  PROVE  Controller'
<1>1. Controller /\ Types /\ Waited /\ InCall /\ CallShape
  BY DEF CInv, CallStep
<1>2. drv.todo # <<>>
  BY CallFrame
<1>3. CASE CStay
  BY <1>1, <1>3 DEF CStay, MStay, Stays, Controller, NoData, X
<1>4. CASE CQuit
  BY <1>1, <1>4 DEF CQuit, Trouble, HostKeeps, Controller, NoData, X
<1>5. CASE CWait
  BY <1>1, <1>5 DEF CWait, MPass, GoesOn, Controller, NoData, X
<1>6. CASE CReady
  BY <1>1, <1>6 DEF CReady, MReady, Controller, NoData, X
<1>7. CASE CIssue
  <2>1. /\ AtCmd /\ Now \in Commands /\ host'.issued = Now /\ host'.inhibit = host.inhibit \cup Lines(Now)
        /\ host'.xfer = host.xfer /\ drv'.phase = "answer" /\ drv.phase = "issue"
    BY <1>7 DEF CIssue, MIssue
  <2>2. host.issued = NoCmd /\ host.issued.num = 0
    BY <1>1, <1>2, <2>1, NoCmdIs DEF Controller
  <2>3. Now.num > 0 => X.kind = NONE
    <3>1. HAVE Now.num > 0
    <3>2. AtData
      BY <1>1, <2>1, <3>1, NowAt DEF AtCmd
    <3>3. Place = 0 /\ Lead \in {0, 1}
      BY <1>1, <3>2, PlaceType DEF AtData
    <3>4. NoData
      BY <1>1, <1>2, <2>1, <3>3 DEF Waited
    <3> QED BY <3>4 DEF NoData
  <2>4. /\ Now # NoCmd /\ "cmd" \in Lines(Now) /\ Now.num \in Nat
        /\ Now.num > 0 => "dat" \in Lines(Now)
        /\ Now.num = 0 => Lines(Now) = {"cmd"}
    BY <2>1, CommandIs
  <2>5. host'.issued # NoCmd /\ "cmd" \in host'.inhibit
    BY <2>1, <2>4
  <2>6. ~NoData' => "dat" \in host'.inhibit
    <3>1. CASE Now.num > 0
      BY <2>1, <2>4, <3>1
    <3>2. CASE ~(Now.num > 0)
      BY <1>1, <2>1, <2>2, <2>4, <3>2 DEF NoData, X, Controller
    <3> QED BY <3>1, <3>2
  <2>7. host'.issued.num = 0 \/ X'.kind = NONE
    BY <2>1, <2>3, <2>4 DEF X
  <2> QED BY <1>1, <2>1, <2>5, <2>6, <2>7 DEF Controller, X
<1>8. CASE CAnswer
  BY <1>1, <1>8 DEF CAnswer, MAnswer, GoesOn, HostKeeps, Controller, NoData, X
<1>9. CASE CInt
  BY <1>1, <1>9 DEF CInt, MInt, GoesOn, HostKeeps, Controller, NoData, X
<1>10. CASE CFetch
  BY <1>1, <1>10 DEF CFetch, MFetch, GoesOn, Controller, NoData, X
<1>11. CASE CStore
  BY <1>1, <1>11 DEF CStore, MStore, GoesOn, Controller, NoData, X
<1> QED BY <1>3, <1>4, <1>5, <1>6, <1>7, <1>8, <1>9, <1>10, <1>11, CallFrame

LEMMA TimesOver ==
  ASSUME NEW a \in Nat, NEW b \in Nat \ {0}
  PROVE  (a * b) \div b = a
OBVIOUS

LEMMA AddressedData ==
  ASSUME Types, KnowsCard, sd.ready
  PROVE  Addressed(DataCmd) = drv.lba /\ DataCmd.num = drv.num /\ DataCmd.on = drv.op
<1>0. PICK lba \in Nat : lba = drv.lba
  BY DEF Types, DrvType
<1>1. PICK arg : lba = drv.lba /\ arg = IF sd.ccs THEN lba ELSE lba * BLOCK_SIZE
  BY <1>0
<1>2. DataCmd.arg = arg /\ DataCmd.num = drv.num /\ DataCmd.on = drv.op
  BY <1>1 DEF DataCmd, DataCmdOf, Cmd
<1>3. CASE sd.ccs
  BY <1>1, <1>2, <1>3 DEF Addressed, KnowsCard
<1>4. CASE ~sd.ccs
  <2>1. BLOCK_SIZE \in Nat \ {0}
    BY CardAssumption
  <2>2. arg \div BLOCK_SIZE = lba
    BY <1>1, <1>4, <2>1, TimesOver
  <2> QED BY <1>1, <1>2, <1>4, <2>2 DEF Addressed, KnowsCard
<1> QED BY <1>2, <1>3, <1>4

LEMMA CallWaited ==
  ASSUME CInv, CallStep
  PROVE  Waited'
<1>1. Controller /\ Types /\ Waited /\ InCall /\ CallShape
  BY DEF CInv, CallStep
<1>2. /\ drv.todo # <<>> /\ Lead' = Lead /\ Keeps /\ drv'.op # "init" /\ drv'.op = drv.op
      /\ Place \in Int /\ Lead \in {0, 1} /\ drv.num \in Nat
  BY <1>1, CallFrame, PlaceType DEF Keeps, InCall
<1>3. CASE CStay
  BY <1>1, <1>2, <1>3 DEF CStay, MStay, Stays, Waited, NoData, X, InCall
<1>4. CASE CQuit
  BY <1>1, <1>2, <1>4 DEF CQuit, Waited
<1>5. CASE CWait
  <2>1. NoData /\ host' = host /\ (drv.op = "write" => "write" \notin host.inhibit)
    BY <1>1, <1>5 DEF CWait, MPass, Controller
  <2>2. NoData' /\ (drv'.op = "write" => "write" \notin host'.inhibit)
    BY <1>2, <2>1 DEF NoData, X
  <2> QED BY <1>2, <2>2 DEF Waited
<1>6. CASE CReady
  BY <1>1, <1>2, <1>6 DEF CReady, MReady, Waited, NoData, X, InCall
<1>7. CASE CIssue
  <2>1. /\ AtCmd /\ Now \in Commands /\ host'.issued = Now /\ host'.inhibit = host.inhibit \cup Lines(Now)
        /\ host'.xfer = host.xfer /\ drv'.phase = "answer" /\ drv.phase = "issue" /\ Place' = Place
    BY <1>7 DEF CIssue, MIssue
  <2>2. CASE AtCount
    <3>1. NoData /\ (drv.op = "write" => "write" \notin host.inhibit)
      BY <1>1, <1>2, <2>1, <2>2 DEF AtCount, Waited
    <3>2. Now.num = 0 /\ "write" \notin Lines(Now)
      BY <1>1, <2>1, <2>2, NowAt, CommandIs
    <3>3. NoData' /\ (drv'.op = "write" => "write" \notin host'.inhibit)
      BY <1>2, <2>1, <3>1, <3>2 DEF NoData, X
    <3> QED BY <1>2, <3>3 DEF Waited
  <2>3. CASE AtData \/ AtStop
    BY <1>2, <2>1, <2>3 DEF AtData, AtStop, Waited
  <2> QED BY <2>1, <2>2, <2>3 DEF AtCmd
<1>8. CASE CAnswer
  <2>1. AtCmd /\ HostKeeps /\ Place' = Place + 1
    BY <1>8 DEF CAnswer, MAnswer
  <2>2. CASE AtCount
    <3>1. NoData /\ (drv.op = "write" => "write" \notin host.inhibit)
      BY <1>1, <1>2, <2>1, <2>2 DEF AtCount, Waited
    <3>2. NoData' /\ (drv'.op = "write" => "write" \notin host'.inhibit)
      BY <1>2, <2>1, <3>1 DEF NoData, X, HostKeeps
    <3> QED BY <1>2, <3>2 DEF Waited
  <2>3. CASE AtData \/ AtStop
    <3>1. Place' > 0
      BY <1>2, <2>1, <2>3 DEF AtData, AtStop
    <3> QED BY <1>2, <2>1, <3>1 DEF Waited
  <2> QED BY <2>1, <2>2, <2>3 DEF AtCmd
<1>9. CASE CInt \/ CFetch \/ CStore
  <2>1. Place > 0
    BY <1>2, <1>9 DEF CInt, CFetch, CStore, AtReady, AtDone, AtStep
  <2>2. Place' > 0 /\ Place' \in Int
    BY <1>2, <1>9, <2>1 DEF CInt, CFetch, CStore
  <2> QED BY <1>2, <2>2 DEF Waited
<1> QED BY <1>3, <1>4, <1>5, <1>6, <1>7, <1>8, <1>9, CallFrame

LEMMA CallTargets ==
  ASSUME CInv, CallStep
  PROVE  Targets'
<1>1. Controller /\ Types /\ Targets /\ InCall /\ CallShape /\ KnowsCard
  BY DEF CInv, CallStep
<1>2. card' = card /\ sure' = sure /\ \A b : Target(b)' <=> Target(b)
  BY DEF CallStep, Target
<1>3. /\ Keeps /\ sd.ready
      /\ \/ CStay \/ CQuit \/ CWait \/ CReady \/ CIssue \/ CAnswer \/ CInt \/ CFetch \/ CStore
  BY CallFrame
<1>4. host'.xfer = host.xfer
  BY <1>3 DEF CStay, MStay, Stays, CQuit, Trouble, HostKeeps, CWait, MPass, CReady, MReady, CIssue, MIssue,
              CAnswer, MAnswer, CInt, MInt, CFetch, MFetch, CStore, MStore
<1>5. X'.kind = "write" => \A b \in Nat : X'.block <= b /\ b < X'.block + X'.left => Target(b)'
  BY <1>1, <1>2, <1>4 DEF Targets, X
<1>6. drv'.op = "write" => \A b \in Nat : drv'.lba <= b /\ b < drv'.lba + drv'.num => Target(b)'
  BY <1>1, <1>2, <1>3 DEF Targets, Keeps
<1>7. host'.issued.on = "write" =>
        \A b \in Nat : Addressed(host'.issued) <= b /\ b < Addressed(host'.issued) + host'.issued.num
                         => Target(b)'
  <2>1. CASE CIssue
    <3>1. AtCmd /\ host'.issued = Now
      BY <2>1 DEF CIssue, MIssue
    <3>2. CASE Now.on = "write"
      <4>1. Now = DataCmd /\ drv.op = "write"
        BY <1>1, <3>1, <3>2, NowAt DEF AtCmd, AtData, InCall
      <4>2. Addressed(host'.issued) = drv.lba /\ host'.issued.num = drv.num
        BY <1>1, <1>3, <3>1, <4>1, AddressedData
      <4> QED BY <1>1, <1>2, <4>1, <4>2 DEF Targets
    <3>3. CASE Now.on # "write"
      BY <3>1, <3>3
    <3> QED BY <3>2, <3>3
  <2>2. CASE ~CIssue
    <3>1. host'.issued = host.issued
      BY <1>3, <2>2 DEF CStay, MStay, Stays, CQuit, Trouble, HostKeeps, CWait, MPass, CReady, MReady,
              CAnswer, MAnswer, CInt, MInt, CFetch, MFetch, CStore, MStore
    <3> QED BY <1>1, <1>2, <3>1 DEF Targets
  <2> QED BY <2>1, <2>2
<1>8. Addressed(host.issued)' = Addressed(host'.issued)
  BY <1>2 DEF Addressed
<1> QED BY <1>5, <1>6, <1>7, <1>8 DEF Targets

LEMMA CallWrites ==
  ASSUME CInv, CallStep
  PROVE  WriteStage'
<1>1. Controller /\ Types /\ Waited /\ InCall /\ CallShape /\ WriteStage
  BY DEF CInv, CallStep
<1>2. /\ drv.todo # <<>> /\ Lead' = Lead /\ Keeps /\ DataCmd' = DataCmd
      /\ \/ CStay \/ CQuit \/ CWait \/ CReady \/ CIssue \/ CAnswer \/ CInt \/ CFetch \/ CStore
  BY CallFrame
<1>3. SUFFICES ASSUME drv.op = "write", Begun'
               PROVE  \/ Asked' \/ WriteEnded' \/ Writing(0)' \/ Writing(1)'
                      \/ Ruined' /\ Place' <= 2 * drv'.num + 1
  BY <1>2 DEF WriteStage, Keeps
<1>4. /\ drv'.op = drv.op /\ drv'.num = drv.num /\ drv'.lba = drv.lba /\ drv'.data = drv.data
      /\ card' = card /\ drv.num \in Nat /\ drv.num > 0 /\ drv.data \in VALUES /\ drv.lba \in Nat
      /\ Place \in Int /\ Lead \in {0, 1} /\ Turns \in 0 .. drv.num
      /\ X.left \in Nat /\ X.block \in Nat
  <2>1. Place \in Int /\ Lead \in {0, 1} /\ Turns \in 0 .. drv.num /\ drv.num \in Nat
    BY <1>1, PlaceType, TurnsType
  <2>2. X.left \in Nat /\ X.block \in Nat /\ drv.lba \in Nat
    BY <1>1 DEF Types, HostType, DrvType, X
  <2> QED BY <1>1, <1>2, <1>3, <2>1, <2>2 DEF Keeps, CallShape, CallStep
<1>5. Begun => \/ Asked \/ WriteEnded \/ Writing(0) \/ Writing(1)
               \/ Ruined /\ Place <= 2 * drv.num + 1
  BY <1>1, <1>3 DEF WriteStage
<1>6. Begun <=> Place > 0 \/ (Place = 0 /\ drv.phase = "answer")
  BY <1>2 DEF Begun, Alive
<1>7. ASSUME Place > 2 * drv.num + 1, Begun
      PROVE  NoData /\ Turns = 0 /\ Written(drv.num)
  <2>1. Turns = 0
    BY <1>1, <1>4, <1>7, TurnsType
  <2>2. WriteEnded
    BY <1>4, <1>5, <1>7 DEF Asked, Writing
  <2> QED BY <1>4, <2>1, <2>2 DEF WriteEnded
<1>8. CASE CStay
  <2>1. /\ host' = host /\ drv'.todo = drv.todo /\ drv'.phase = drv.phase /\ sd'.err = sd.err
        /\ Place' = Place /\ Turns' = Turns
    BY <1>8 DEF CStay, MStay, Stays
  <2>2. Begun
    BY <1>3, <2>1 DEF Begun, Alive
  <2>3. CASE Asked
    BY <1>2, <1>4, <2>1, <2>3 DEF Asked, X
  <2>4. CASE WriteEnded
    BY <1>2, <1>4, <2>1, <2>4 DEF WriteEnded, NoData, X, Written, Doing, Now
  <2>5. ASSUME NEW s \in {0, 1}, Writing(s) PROVE Writing(s)'
    BY <1>2, <1>4, <2>1, <2>5 DEF Writing, X, Full, Written, Doing, Now
  <2>6. CASE Ruined /\ Place <= 2 * drv.num + 1
    BY <1>2, <1>4, <2>1, <2>6 DEF Ruined, NoData, X, Pending
  <2> QED BY <1>5, <2>2, <2>3, <2>4, <2>5, <2>6
<1>9. CASE CQuit
  BY <1>3, <1>9 DEF CQuit, Begun, Alive
<1>10. CASE CWait
  <2>1. Place' <= 0 /\ Place' \in Int /\ drv'.phase = "start"
    BY <1>4, <1>10 DEF CWait, MPass, GoesOn, AtWait
  <2> QED BY <1>3, <2>1 DEF Begun
<1>11. CASE CReady \/ CIssue
  <2>1. AtCmd /\ Place' = Place /\ Turns' = Turns /\ drv.phase # "answer"
    BY <1>11 DEF CReady, MReady, CIssue, MIssue
  <2>2. CASE AtStop
    <3>1. NoData /\ Turns = 0 /\ Written(drv.num) /\ Place > 2 * drv.num + 1
      <4>1. Place > 2 * drv.num + 1
        BY <1>3, <2>2 DEF AtStop
      <4> QED BY <1>4, <1>6, <1>7, <4>1
    <3>2. NoData'
      BY <1>1, <1>11, <2>2, <3>1, NowAt DEF NoData, X, CReady, MReady, CIssue, MIssue
    <3> QED BY <1>4, <2>1, <3>1, <3>2 DEF WriteEnded, Written
  <2>3. CASE AtCount
    BY <1>3, <2>1, <2>3 DEF AtCount, Begun
  <2>4. CASE AtData /\ CReady
    BY <1>3, <2>1, <2>4 DEF AtData, CReady, MReady, Begun
  <2>5. CASE AtData /\ CIssue
    <3>1. /\ host'.issued = Now /\ host'.int = {} /\ host'.xfer = host.xfer /\ drv'.phase = "answer"
          /\ host'.inhibit = host.inhibit \cup Lines(Now) /\ "write" \notin Lines(Now)
      BY <2>5, CommandIs DEF CIssue, MIssue
    <3>2. Now = DataCmd /\ Place = 0
      BY <2>5 DEF AtData
    <3>3. NoData /\ "write" \notin host.inhibit
      BY <1>1, <1>2, <1>3, <1>4, <2>1, <3>2 DEF Waited
    <3>4. Asked'
      BY <1>2, <2>1, <3>1, <3>2, <3>3 DEF Asked, NoData, X
    <3> QED BY <3>4
  <2> QED BY <1>11, <2>1, <2>2, <2>3, <2>4, <2>5 DEF AtCmd
<1>12. CASE CAnswer
  <2>1. /\ AtCmd /\ HostKeeps /\ Place' = Place + 1 /\ Pending = {} /\ "cmd_done" \in host.int
        /\ host'.int = host.int \ {"cmd_done"} /\ drv'.phase = "start" /\ drv.phase = "answer"
    BY <1>12 DEF CAnswer, MAnswer, Answered, GoesOn
  <2>2. CASE AtStop
    <3>1. NoData /\ Turns = 0 /\ Written(drv.num) /\ Place > 2 * drv.num + 1
      <4>1. Place > 2 * drv.num + 1
        BY <1>3, <2>2 DEF AtStop
      <4> QED BY <1>4, <1>6, <1>7, <4>1
    <3>2. NoData' /\ Turns' = 0
      BY <1>12, <2>1, <2>2, <3>1 DEF NoData, X, HostKeeps, CAnswer
    <3> QED BY <1>4, <2>1, <3>1, <3>2 DEF WriteEnded, Written
  <2>3. CASE AtCount
    BY <1>3, <2>1, <2>3 DEF AtCount, Begun
  <2>4. CASE AtData
    <3>1. Place = 0 /\ Place' = 1 /\ drv'.todo # <<>> /\ Now'.do = "int" /\ Turns' = Turns /\ Turns = drv.num
      BY <1>1, <1>4, <1>12, <2>1, <2>4, TurnsType DEF AtData, CAnswer
    <3>2. Begun
      BY <1>6, <2>1, <3>1
    <3>3. CASE Asked
      BY <2>1, <3>3 DEF Asked
    <3>4. CASE WriteEnded
      BY <1>4, <2>1, <3>1, <3>4 DEF WriteEnded, NoData, X, HostKeeps, Doing
    <3>5. ASSUME NEW s \in {0, 1}, Writing(s) PROVE Writing(s)'
      BY <1>4, <2>1, <3>1, <3>5 DEF Writing, X, Full, Written, Doing, HostKeeps
    <3>6. CASE Ruined
      BY <2>1, <3>6 DEF Ruined
    <3> QED BY <1>5, <3>2, <3>3, <3>4, <3>5, <3>6
  <2> QED BY <2>1, <2>2, <2>3, <2>4 DEF AtCmd
<1>13. CASE CInt
  <2>1. /\ HostKeeps /\ Place' = Place + 1 /\ Turns' = Turns /\ Pending = {} /\ Now.on \in host.int
        /\ host'.int = host.int \ {Now.on}
    BY <1>13 DEF CInt, MInt
  <2>2. CASE AtReady /\ drv'.todo # <<>> /\ Now.on = FlagOf(drv.op)
             /\ Now'.do = (IF drv.op = "read" THEN "fetch" ELSE "store")
    <3>1. /\ Now.on = "write_rdy" /\ Now'.do = "store" /\ Place > 0 /\ Place' <= 2 * drv.num
          /\ Turns >= 1
      BY <1>3, <1>4, <2>1, <2>2 DEF AtReady, FlagOf
    <3>2. Begun
      BY <1>6, <3>1
    <3>3. CASE Asked
      BY <3>1, <3>3 DEF Asked
    <3>4. CASE WriteEnded
      BY <1>4, <2>1, <3>1, <3>4 DEF WriteEnded
    <3>5. ASSUME NEW s \in {0, 1}, Writing(s) PROVE Writing(s)'
      BY <1>4, <2>1, <2>2, <3>1, <3>5 DEF Writing, X, Full, Written, Doing, HostKeeps
    <3>6. CASE Ruined
      BY <2>1, <3>6 DEF Ruined
    <3> QED BY <1>5, <3>2, <3>3, <3>4, <3>5, <3>6
  <2>3. CASE AtDone /\ Turns = 0 /\ Now.on = "data_done"
    <3>1. Place = 2 * drv.num + 1 /\ Place > 0 /\ Place' > 2 * drv.num
      BY <1>4, <2>1, <2>3 DEF AtDone
    <3>2. Begun
      BY <1>6, <3>1
    <3>3. WriteEnded
      BY <1>4, <1>5, <2>1, <2>3, <3>1, <3>2 DEF Asked, Writing, Ruined
    <3>4. WriteEnded'
      BY <1>4, <2>1, <2>3, <3>1, <3>3 DEF WriteEnded, NoData, X, HostKeeps, Written
    <3> QED BY <3>4
  <2> QED BY <1>13, <2>2, <2>3 DEF CInt
<1>14. CASE CFetch
  BY <1>3, <1>14 DEF CFetch
<1>15. CASE CStore
  <2>1. /\ Place' = Place + 1 /\ Turns' = Turns - 1 /\ drv'.todo # <<>> /\ Now'.do = "int"
        /\ host'.fifo = drv.data /\ host'.int = host.int /\ host'.inhibit = host.inhibit \ {"write"}
        /\ host'.issued = host.issued /\ host'.xfer = host.xfer /\ Now.do = "store"
    BY <1>15 DEF CStore, MStore
  <2>2. Turns >= 1 /\ Place > 0 /\ Place' <= 2 * drv.num + 1
    BY <1>4, <1>15, <2>1 DEF CStore, AtStep
  <2>3. drv.data # NONE
    BY <1>4, CardAssumption
  <2>4. Begun /\ Doing("store")
    BY <1>2, <1>6, <2>1, <2>2 DEF Doing
  <2>5. CASE Asked
    BY <2>2, <2>5 DEF Asked
  <2>6. CASE WriteEnded
    BY <1>4, <2>2, <2>4, <2>6 DEF WriteEnded
  <2>7. ASSUME NEW s \in {0, 1}, Writing(s) PROVE Writing(s)'
    <3>1. X.left > 0 /\ Full = 0 /\ "write_rdy" \notin host.int /\ Full' = 1
      BY <2>1, <2>3, <2>4, <2>7 DEF Writing, Full
    <3>2. ~Doing("store")' /\ X' = X
      BY <2>1 DEF Doing, X
    <3> QED BY <1>4, <2>1, <2>2, <2>7, <3>1, <3>2 DEF Writing, Written
  <2>8. CASE Ruined
    <3>1. Ruined'
      BY <2>1, <2>8 DEF Ruined, NoData, X, Pending
    <3> QED BY <1>4, <2>2, <3>1
  <2> QED BY <1>5, <2>4, <2>5, <2>6, <2>7, <2>8
<1> QED BY <1>2, <1>8, <1>9, <1>10, <1>11, <1>12, <1>13, <1>14, <1>15

LEMMA FetchedMore ==
  ASSUME NEW S, NEW buf \in Seq(S), NEW w \in S, NEW n \in Nat, Len(buf) = n,
         NEW f, \A c \in 1 .. n : buf[c] = f[c], w = f[n + 1]
  PROVE  Len(Append(buf, w)) = n + 1 /\ \A c \in 1 .. n + 1 : Append(buf, w)[c] = f[c]
OBVIOUS

LEMMA CallReads ==
  ASSUME CInv, CallStep
  PROVE  ReadStage'
<1>1. Controller /\ Types /\ Waited /\ InCall /\ CallShape /\ ReadStage
  BY DEF CInv, CallStep
<1>2. /\ drv.todo # <<>> /\ Lead' = Lead /\ Keeps /\ DataCmd' = DataCmd
      /\ \/ CStay \/ CQuit \/ CWait \/ CReady \/ CIssue \/ CAnswer \/ CInt \/ CFetch \/ CStore
  BY CallFrame
<1>3. SUFFICES ASSUME drv.op = "read", Alive'
               PROVE  /\ ~Begun' => drv'.buf = <<>>
                      /\ Begun' =>
                           \/ Asked' /\ drv'.buf = <<>>
                           \/ Blocked' \/ Reading' \/ ReadEnded'
                           \/ Ruined' /\ Turns' >= 1 /\ (Doing("fetch")' => Turns' >= 2)
  BY <1>2 DEF ReadStage, Keeps, Begun
<1>4. /\ drv'.op = drv.op /\ drv'.num = drv.num /\ drv'.lba = drv.lba
      /\ card' = card /\ drv.num \in Nat /\ drv.num > 0 /\ drv.lba \in Nat
      /\ Place \in Int /\ Lead \in {0, 1} /\ Turns \in 0 .. drv.num
      /\ X.left \in Nat /\ X.block \in Nat
  <2>1. Place \in Int /\ Lead \in {0, 1} /\ Turns \in 0 .. drv.num /\ drv.num \in Nat
    BY <1>1, PlaceType, TurnsType
  <2>2. X.left \in Nat /\ X.block \in Nat /\ drv.lba \in Nat
    BY <1>1 DEF Types, HostType, DrvType, X
  <2> QED BY <1>1, <1>2, <1>3, <2>1, <2>2 DEF Keeps, CallShape, CallStep
<1>5. Begun => \/ Asked /\ drv.buf = <<>>
               \/ Blocked \/ Reading \/ ReadEnded
               \/ Ruined /\ Turns >= 1 /\ (Doing("fetch") => Turns >= 2)
  BY <1>1, <1>3 DEF ReadStage
<1>6. Begun <=> Place > 0 \/ (Place = 0 /\ drv.phase = "answer")
  BY <1>2 DEF Begun, Alive
<1>7. ~Begun => drv.buf = <<>>
  BY <1>1, <1>2, <1>3 DEF ReadStage, Alive
<1>8. CASE CStay
  <2>1. /\ host' = host /\ drv'.todo = drv.todo /\ drv'.phase = drv.phase /\ drv'.buf = drv.buf
        /\ Place' = Place /\ Turns' = Turns
    BY <1>8 DEF CStay, MStay, Stays, SameCall
  <2>2. Begun' <=> Begun
    BY <1>2, <2>1 DEF Begun, Alive
  <2>3. CASE ~Begun
    BY <1>7, <2>1, <2>2, <2>3
  <2>4. CASE Asked /\ drv.buf = <<>>
    BY <1>2, <1>4, <2>1, <2>2, <2>4 DEF Asked, X, Begun
  <2>5. CASE Begun /\ Blocked
    BY <1>4, <2>1, <2>2, <2>5 DEF Blocked, X, Full
  <2>6. CASE Begun /\ Reading
    BY <1>4, <2>1, <2>2, <2>6 DEF Reading, X, Full, Fetched, Doing, Now
  <2>7. CASE Begun /\ ReadEnded
    BY <1>4, <2>1, <2>2, <2>7 DEF ReadEnded, NoData, X, Fetched
  <2>8. CASE Begun /\ Ruined /\ Turns >= 1 /\ (Doing("fetch") => Turns >= 2)
    BY <1>4, <2>1, <2>2, <2>8 DEF Ruined, NoData, X, Pending, Doing, Now
  <2> QED BY <1>5, <2>3, <2>4, <2>5, <2>6, <2>7, <2>8
<1>9. CASE CQuit
  BY <1>3, <1>9 DEF CQuit, Alive
<1>10. CASE CWait
  <2>1. Place' <= 0 /\ Place' \in Int /\ drv'.phase = "start" /\ Place < 0 /\ drv'.buf = drv.buf
    BY <1>4, <1>10 DEF CWait, MPass, GoesOn, AtWait, SameCall
  <2>2. ~Begun' /\ ~Begun
    BY <1>4, <1>6, <2>1 DEF Begun
  <2> QED BY <1>7, <2>1, <2>2
<1>11. CASE CReady \/ CIssue
  <2>1. /\ AtCmd /\ Place' = Place /\ Turns' = Turns /\ drv.phase # "answer" /\ drv'.buf = drv.buf
        /\ drv'.todo = drv.todo
    BY <1>11 DEF CReady, MReady, CIssue, MIssue, SameCall
  <2>2. CASE AtStop
    <3>1. Place > 2 * drv.num /\ Turns = 0 /\ Begun /\ Begun'
      <4>1. Place > 2 * drv.num /\ Place > 0
        BY <1>4, <2>2 DEF AtStop
      <4> QED BY <1>1, <1>3, <1>4, <1>6, <2>1, <4>1, TurnsType DEF Begun
    <3>2. Now.num = 0 /\ Now.do = "cmd" /\ Now' = Now
      BY <1>1, <2>1, <2>2, NowAt DEF Now
    <3>3. CASE Reading
      <4>1. host'.xfer = host.xfer /\ host'.fifo = host.fifo /\ (host'.int = host.int \/ host'.int = {})
        BY <1>11 DEF CReady, MReady, CIssue, MIssue
      <4> QED BY <1>2, <1>4, <2>1, <3>1, <3>2, <3>3, <4>1 DEF Reading, X, Full, Fetched, Doing
    <3>4. CASE ReadEnded
      <4>1. NoData'
        BY <1>11, <3>2, <3>4 DEF ReadEnded, NoData, X, CReady, MReady, CIssue, MIssue
      <4> QED BY <1>4, <2>1, <3>1, <3>4, <4>1 DEF ReadEnded, Fetched
    <3> QED BY <1>4, <1>5, <3>1, <3>3, <3>4 DEF Asked, Blocked
  <2>3. CASE AtCount
    BY <1>6, <1>7, <2>1, <2>3 DEF AtCount, Begun
  <2>4. CASE AtData /\ CReady
    BY <1>6, <1>7, <2>1, <2>4 DEF AtData, CReady, MReady, Begun
  <2>5. CASE AtData /\ CIssue
    <3>1. /\ host'.issued = Now /\ host'.int = {} /\ host'.xfer = host.xfer /\ drv'.phase = "answer"
      BY <2>5 DEF CIssue, MIssue
    <3>2. Now = DataCmd /\ Place = 0
      BY <2>5 DEF AtData
    <3>3. NoData
      BY <1>1, <1>2, <1>4, <2>1, <3>2 DEF Waited
    <3>4. Asked' /\ drv'.buf = <<>>
      BY <1>2, <1>3, <1>4, <1>6, <1>7, <2>1, <3>1, <3>2, <3>3 DEF Asked, NoData, X
    <3>5. Begun'
      BY <1>3, <3>4 DEF Begun, Asked
    <3> QED BY <3>4, <3>5
  <2> QED BY <1>11, <2>1, <2>2, <2>3, <2>4, <2>5 DEF AtCmd
<1>12. CASE CAnswer
  <2>1. /\ AtCmd /\ HostKeeps /\ Place' = Place + 1 /\ Pending = {} /\ "cmd_done" \in host.int
        /\ host'.int = host.int \ {"cmd_done"} /\ drv'.phase = "start" /\ drv.phase = "answer"
        /\ drv'.buf = drv.buf
    BY <1>12 DEF CAnswer, MAnswer, Answered, GoesOn, SameCall
  <2>2. CASE AtStop
    <3>1. Place > 2 * drv.num /\ Place' > 2 * drv.num /\ Turns = 0 /\ Turns' = 0 /\ Begun /\ Begun' /\ drv'.todo = <<>>
      <4>1. Place > 2 * drv.num /\ Place > 0
        BY <1>4, <2>2 DEF AtStop
      <4> QED BY <1>3, <1>4, <1>6, <1>12, <2>1, <2>2, <4>1 DEF Begun, CAnswer
    <3>2. CASE Reading
      BY <1>4, <2>1, <3>1, <3>2 DEF Reading, X, Full, Fetched, Doing, HostKeeps
    <3>3. CASE ReadEnded
      BY <1>4, <2>1, <3>1, <3>3 DEF ReadEnded, NoData, X, Fetched, HostKeeps
    <3> QED BY <1>4, <1>5, <3>1, <3>2, <3>3 DEF Asked, Blocked
  <2>3. CASE AtCount
    BY <1>6, <1>7, <2>1, <2>3 DEF AtCount, Begun
  <2>4. CASE AtData
    <3>1. Place = 0 /\ Place' = 1 /\ drv'.todo # <<>> /\ Now'.do = "int" /\ Turns' = Turns /\ Turns = drv.num
      BY <1>1, <1>4, <1>12, <2>1, <2>4, TurnsType DEF AtData, CAnswer
    <3>2. Begun /\ Begun'
      BY <1>3, <1>6, <2>1, <3>1 DEF Begun
    <3>3. CASE Asked
      BY <2>1, <3>3 DEF Asked
    <3>4. CASE Blocked
      BY <1>4, <2>1, <3>1, <3>2, <3>4 DEF Blocked, X, HostKeeps, Full
    <3>5. CASE Reading
      BY <1>4, <2>1, <3>1, <3>2, <3>5 DEF Reading, X, Full, Fetched, Doing, HostKeeps
    <3>6. CASE ReadEnded
      BY <1>4, <3>1, <3>6 DEF ReadEnded
    <3>7. CASE Ruined
      BY <2>1, <3>7 DEF Ruined
    <3> QED BY <1>5, <3>2, <3>3, <3>4, <3>5, <3>6, <3>7
  <2> QED BY <2>1, <2>2, <2>3, <2>4 DEF AtCmd
<1>13. CASE CInt
  <2>1. /\ HostKeeps /\ Place' = Place + 1 /\ Turns' = Turns /\ Pending = {} /\ Now.on \in host.int
        /\ host'.int = host.int \ {Now.on} /\ drv'.buf = drv.buf
    BY <1>13 DEF CInt, MInt, SameCall
  <2>2. AtReady /\ drv'.todo # <<>> /\ Now.on = "read_rdy" /\ Now'.do = "fetch"
    BY <1>3, <1>13 DEF CInt, AtDone, FlagOf
  <2>3. Place > 0 /\ Turns >= 1 /\ Place <= 2 * drv.num /\ Place' > 0
    BY <1>4, <2>1, <2>2 DEF AtReady
  <2>4. Begun /\ Begun'
    BY <1>3, <1>6, <2>3 DEF Begun
  <2>5. CASE Asked
    BY <2>3, <2>5 DEF Asked
  <2>6. CASE Blocked
    BY <2>1, <2>2, <2>6 DEF Blocked
  <2>7. CASE Reading
    BY <1>4, <2>1, <2>2, <2>3, <2>4, <2>7 DEF Reading, X, Full, Fetched, Doing, HostKeeps
  <2>8. CASE ReadEnded
    BY <1>4, <2>3, <2>8 DEF ReadEnded
  <2>9. CASE Ruined
    BY <2>1, <2>9 DEF Ruined
  <2> QED BY <1>5, <2>4, <2>5, <2>6, <2>7, <2>8, <2>9
<1>14. CASE CFetch
  <2>1. /\ Place' = Place + 1 /\ Turns' = Turns - 1 /\ Now.do = "fetch" /\ drv'.buf = Append(drv.buf, host.fifo)
        /\ host'.fifo = NONE /\ host'.int = host.int /\ host'.inhibit = host.inhibit
        /\ host'.issued = host.issued /\ host'.xfer = host.xfer /\ ~Doing("fetch")'
    BY <1>14 DEF CFetch, MFetch, Doing
  <2>2. Place > 1 /\ Place' > 0 /\ Turns >= 1 /\ Place <= 2 * drv.num
    BY <1>4, <1>14, <2>1 DEF CFetch, AtStep
  <2>3. Begun /\ Begun' /\ Doing("fetch")
    BY <1>2, <1>3, <1>4, <1>6, <2>1, <2>2 DEF Begun, Doing
  <2>4. CASE Asked
    BY <2>2, <2>4 DEF Asked
  <2>5. CASE Blocked
    BY <1>4, <2>2, <2>5 DEF Blocked
  <2>6. CASE Reading
    <3>1. /\ Full = 1 /\ X.left = Turns - 1 /\ "read_rdy" \notin host.int
          /\ host.fifo = card.block[X.block - 1] /\ X.block = drv.lba + drv.num - X.left
          /\ Fetched(drv.num - Turns) /\ X.kind = "read"
      BY <1>4, <2>3, <2>6 DEF Reading
    <3>2. Full' = 0 /\ X' = X
      BY <2>1 DEF Full, X
    <3>3. PICK n \in Nat : n = drv.num - Turns
      BY <1>4
    <3>4. PICK f : f = [c \in 1 .. n + 1 |-> card.block[drv.lba + c - 1]]
      OBVIOUS
    <3>5. X.block - 1 = drv.lba + (n + 1) - 1 /\ n + 1 \in 1 .. n + 1 /\ n + 1 = drv.num - Turns'
      BY <1>4, <2>1, <3>1, <3>3
    <3>6. host.fifo = f[n + 1]
      BY <3>1, <3>4, <3>5
    <3>7. Len(drv.buf) = n /\ \A c \in 1 .. n : drv.buf[c] = f[c]
      <4>1. Fetched(n)
        BY <3>1, <3>3
      <4>2. \A c \in 1 .. n : c \in 1 .. n + 1
        BY <3>3
      <4> QED BY <3>4, <4>1, <4>2 DEF Fetched
    <3>8. drv.buf \in Seq(Words) /\ host.fifo \in Words
      BY <1>1 DEF Types, DrvType, HostType
    <3>9. Len(drv'.buf) = n + 1 /\ \A c \in 1 .. n + 1 : drv'.buf[c] = f[c]
      BY <2>1, <3>6, <3>7, <3>8, FetchedMore
    <3>10. Fetched(drv.num - Turns)'
      BY <1>4, <3>4, <3>5, <3>9 DEF Fetched
    <3> QED BY <1>4, <2>1, <2>3, <3>1, <3>2, <3>10 DEF Reading
  <2>7. CASE ReadEnded
    BY <1>4, <2>2, <2>7 DEF ReadEnded
  <2>8. CASE Ruined /\ Turns >= 1 /\ (Doing("fetch") => Turns >= 2)
    <3>1. Ruined'
      BY <2>1, <2>8 DEF Ruined, NoData, X, Pending
    <3> QED BY <1>4, <2>1, <2>3, <2>8, <3>1
  <2> QED BY <1>5, <2>3, <2>4, <2>5, <2>6, <2>7, <2>8
<1>15. CASE CStore
  BY <1>3, <1>15 DEF CStore
<1> QED BY <1>2, <1>8, <1>9, <1>10, <1>11, <1>12, <1>13, <1>14, <1>15

LEMMA QuietIs ==
  ASSUME Types, Clean, ~Answering, ~Doing("int"), ~Doing("fetch"), ~Doing("store")
  PROVE  host.issued = NoCmd /\ Pending = {} /\ X.left = 0
<1>1. X.left \in Nat
  BY DEF Types, HostType, X
<1> QED BY <1>1 DEF Clean

LEMMA QuietStays ==
  ASSUME host'.issued = NoCmd, host'.xfer.left = 0, host'.int \cap Errors = {}
  PROVE  Clean'
BY DEF Clean, X, Pending

(* A wait that failed, or an answer that ends the call *)
LEMMA TroubleClean ==
  ASSUME Types, Clean, drv.todo # <<>>, Trouble, late' # TRUE
  PROVE  Clean'
<1>1. X.left \in Nat
  BY DEF Types, HostType, X
<1>2. CASE Pending # {}
  <2>1. Doing("int") \/ Answering \/ Doing("fetch") \/ Doing("store")
    BY <1>2 DEF Clean
  <2>2. host.issued = NoCmd /\ X.left = 0
    BY <1>2 DEF Clean
  <2>3. host'.int = {}
    BY <1>2, <2>1 DEF Trouble, Doing, Answering, Answered
  <2> QED BY <2>2, <2>3, QuietStays DEF Trouble, HostKeeps, X
<1>3. CASE Pending = {}
  <2>1. Answered /\ Now.on \in {"rel_addr", "app", "op_cond"}
    BY <1>3 DEF Trouble
  <2>2. Now.num = 0
    <3>1. Now \in Commands
      BY <2>1, NowIs DEF Types, Answered
    <3> QED BY <2>1, <3>1 DEF Commands, Moving
  <2>3. host.issued = NoCmd
    BY <2>1 DEF Clean, Answered
  <2>4. X.left = 0
    BY <1>1, <2>1, <2>2 DEF Clean, Doing, Answered
  <2>5. host'.int \cap Errors = {}
    BY <2>1 DEF Answered, Pending
  <2> QED BY <2>3, <2>4, <2>5, QuietStays DEF Trouble, HostKeeps, X
<1> QED BY <1>2, <1>3

LEMMA CallClean ==
  ASSUME CInv, CallStep, late' # TRUE
  PROVE  Clean'
<1>1. Controller /\ Types /\ InCall /\ CallShape /\ WriteStage /\ ReadStage
  BY DEF CInv, CallStep
<1>2. /\ drv.todo # <<>> /\ Keeps /\ late' = late
      /\ \/ CStay \/ CQuit \/ CWait \/ CReady \/ CIssue \/ CAnswer \/ CInt \/ CFetch \/ CStore
  BY CallFrame
<1>3. Clean
  BY <1>2 DEF CInv, Types
<1>4. X.left \in Nat /\ Place \in Int /\ drv.num \in Nat /\ drv.num > 0 /\ Turns \in 0 .. drv.num
  BY <1>1, PlaceType, TurnsType DEF Types, HostType, X, CallShape
<1>5. Begun <=> Place > 0 \/ (Place = 0 /\ drv.phase = "answer")
  BY <1>2 DEF Begun, Alive
<1>6. CASE CStay
  BY <1>3, <1>6 DEF CStay, MStay, Stays, Clean, Pending, X, Answering, Doing, Now
<1>7. CASE CQuit
  BY <1>1, <1>2, <1>3, <1>7, TroubleClean DEF CQuit
<1>8. CASE CWait
  <2>1. Now.do = "status" /\ host' = host
    BY <1>1, <1>8, NowAt DEF CWait, MPass
  <2>2. host.issued = NoCmd /\ Pending = {} /\ X.left = 0
    BY <1>1, <1>3, <2>1, QuietIs DEF Doing, Answering
  <2> QED BY <2>1, <2>2, QuietStays DEF Pending, X
<1>9. CASE CReady
  <2>1. Now.do = "cmd" /\ drv.phase = "start" /\ host' = host
    BY <1>9 DEF CReady, MReady
  <2>2. host.issued = NoCmd /\ Pending = {} /\ X.left = 0
    BY <1>1, <1>3, <2>1, QuietIs DEF Doing, Answering
  <2> QED BY <2>1, <2>2, QuietStays DEF Pending, X
<1>10. CASE CIssue
  <2>1. /\ Now.do = "cmd" /\ drv.phase = "issue" /\ host'.xfer = host.xfer /\ host'.int = {}
        /\ host'.issued = Now /\ drv'.todo = drv.todo /\ drv'.phase = "answer"
    BY <1>10 DEF CIssue, MIssue
  <2>2. X.left = 0
    BY <1>1, <1>3, <2>1, QuietIs DEF Doing, Answering
  <2> QED BY <1>2, <2>1, <2>2 DEF Clean, Pending, X, Answering, Doing, Now
<1>11. CASE CAnswer
  <2>1. /\ AtCmd /\ HostKeeps /\ Pending = {} /\ "cmd_done" \in host.int
        /\ host'.int = host.int \ {"cmd_done"} /\ drv.phase = "answer" /\ Now.do = "cmd"
    BY <1>11 DEF CAnswer, MAnswer, Answered
  <2>2. host.issued = NoCmd
    BY <1>3, <2>1 DEF Clean
  <2>3. CASE X.left > 0
    <3>1. Now.num > 0
      BY <1>3, <2>1, <2>3 DEF Clean, Doing
    <3>2. AtData
      BY <1>1, <2>1, <3>1, NowAt DEF AtCmd
    <3>3. Doing("int")'
      BY <1>11, <3>2 DEF CAnswer, Doing
    <3> QED BY <2>1, <2>2, <3>3 DEF Clean, HostKeeps, Pending, X
  <2>4. CASE X.left = 0
    BY <2>1, <2>2, <2>4, QuietStays DEF HostKeeps, Pending, X
  <2> QED BY <1>4, <2>3, <2>4
<1>12. CASE CInt
  <2>1. /\ HostKeeps /\ Pending = {} /\ Now.on \in host.int /\ Now.do = "int"
        /\ host'.int = host.int \ {Now.on}
    BY <1>12 DEF CInt, MInt
  <2>2. host.issued = NoCmd /\ Pending' = {}
    BY <1>3, <2>1 DEF Clean, Answering, Doing, Pending
  <2>3. CASE AtReady /\ drv'.todo # <<>> /\ Now'.do = (IF drv.op = "read" THEN "fetch" ELSE "store")
    <3>1. Doing("fetch")' \/ Doing("store")'
      BY <2>3 DEF Doing
    <3> QED BY <2>1, <2>2, <3>1 DEF Clean, HostKeeps, X
  <2>4. CASE AtDone /\ Now.on = "data_done"
    <3>1. Place = 2 * drv.num + 1 /\ drv.op = "write" /\ Place > 0
      BY <1>4, <2>4 DEF AtDone
    <3>2. NoData
      BY <1>1, <1>5, <2>1, <2>4, <3>1 DEF WriteStage, Asked, Writing, WriteEnded, Ruined
    <3>3. X.left = 0
      BY <1>1, <3>2 DEF NoData, Controller
    <3> QED BY <2>1, <2>2, <3>3, QuietStays DEF HostKeeps, X, Pending
  <2> QED BY <1>12, <2>3, <2>4 DEF CInt
<1>13. CASE CFetch
  <2>1. /\ AtStep /\ drv.op = "read" /\ Now.do = "fetch" /\ host'.int = host.int
        /\ host'.issued = host.issued /\ host'.xfer = host.xfer
        /\ Len(drv.todo) > 1 => drv'.todo # <<>> /\ Now' = drv.todo[2]
        /\ Turns > 1 => Len(drv.todo) > 1 /\ drv.todo[2].do = "int"
    BY <1>13 DEF CFetch, MFetch
  <2>2. host.issued = NoCmd
    BY <1>3, <2>1 DEF Clean, Answering, Doing
  <2>3. Pending # {} => X.left = 0 /\ Doing("int")'
    BY <1>3, <2>1 DEF Clean, Answering, Doing
  <2>4. X.left > 0 => Doing("int")'
    <3>1. HAVE X.left > 0
    <3>2. Place > 1 /\ Turns >= 1 /\ Place <= 2 * drv.num /\ Begun /\ Doing("fetch")
      BY <1>2, <1>4, <1>5, <2>1 DEF AtStep, Doing
    <3>3. ~NoData
      BY <1>1, <3>1 DEF NoData, Controller
    <3>4. Reading
      BY <1>1, <1>4, <2>1, <3>2, <3>3 DEF ReadStage, Asked, Blocked, ReadEnded, Ruined
    <3>5. Turns > 1
      BY <1>4, <3>1, <3>2, <3>4 DEF Reading
    <3> QED BY <2>1, <3>5 DEF Doing
  <2> QED BY <2>1, <2>2, <2>3, <2>4 DEF Clean, X, Pending
<1>14. CASE CStore
  <2>1. /\ Now.do = "store" /\ host'.int = host.int /\ Doing("int")'
        /\ host'.issued = host.issued /\ host'.xfer = host.xfer
    BY <1>14 DEF CStore, MStore, Doing
  <2>2. host.issued = NoCmd
    BY <1>3, <2>1 DEF Clean, Answering, Doing
  <2>3. Pending # {} => X.left = 0
    BY <1>3 DEF Clean
  <2> QED BY <2>1, <2>2, <2>3 DEF Clean, X, Pending
<1> QED BY <1>2, <1>6, <1>7, <1>8, <1>9, <1>10, <1>11, <1>12, <1>13, <1>14

LEMMA CallKeeps ==
  ASSUME CInv, CallStep
  PROVE  CInv'
<1>1. WritesStay'
  BY DEF CInv, CallStep, WritesStay
<1>2. ~late' => Clean'
  BY CallClean
<1> QED BY <1>1, <1>2, CallFrame, CallController, CallWaited, CallTargets, CallWrites, CallReads DEF CInv

----------------------------------------------------------------------------
(* So does a step of an initialisation. *)

LEMMA InitFrame ==
  ASSUME CInv, InitStep
  PROVE  /\ Types' /\ CallShape' /\ InitShape' /\ PhaseShape' /\ KnowsCard' /\ IdleEmpty'
         /\ WriteStage' /\ ReadStage' /\ WritesStay'
         /\ (late' = late \/ late' = TRUE) /\ Keeps /\ drv'.op = "init" /\ ~sd.ready
         /\ drv.todo # <<>> /\ Listed(drv.todo) /\ drv.todo \in Seq(Items)
         /\ \/ MStay \/ IQuit \/ ISkip \/ IEnable \/ IPass \/ MReady \/ IIssue \/ IAnswer \/ IInt
            \/ IScr \/ IUp
<1>1. Types /\ InitShape /\ PhaseShape /\ drv.op = "init" /\ DriverStep /\ card' = card /\ WritesStay
  BY DEF CInv, InitStep
<1>2. /\ drv.todo # <<>> /\ Keeps /\ DrvType' /\ SdType' /\ HostType' /\ InitShape' /\ ~sd.ready
      /\ \/ MStay \/ IQuit \/ ISkip \/ IEnable \/ IPass \/ MReady \/ IIssue \/ IAnswer \/ IInt
         \/ IScr \/ IUp
  BY <1>1, InitMoves
<1>3. late' = late \/ late' = TRUE
  BY <1>2 DEF MStay, Stays, IQuit, CQuit, ISkip, MSkip, IEnable, MEnable, Trouble, Answered, IPass, MPass, MReady,
              IIssue, MIssue, IAnswer, MAnswer, IInt, MInt, IScr, MScr, IUp, MUp
<1>4. Types'
  <2>1. late' \in BOOLEAN
    BY <1>1, <1>3, LateIs
  <2>2. CardType' /\ sure' \in [Blocks -> Words] /\ faults' \in Nat
    BY <1>1 DEF Types, InitStep, CardType
  <2> QED BY <1>2, <2>1, <2>2 DEF Types
<1>5. drv'.op = "init" /\ ~sd'.ready
  BY <1>1, <1>2 DEF Keeps
<1>6. CallShape' /\ KnowsCard' /\ IdleEmpty' /\ WriteStage' /\ ReadStage'
  BY <1>5 DEF CallShape, InCall, KnowsCard, IdleEmpty, WriteStage, ReadStage, NONE
<1>7. WritesStay'
  BY <1>1 DEF WritesStay, InitStep
<1>8. PhaseShape'
  <2>1. CASE drv'.phase \in {"start", "issue", "answer"}
    BY <2>1 DEF PhaseShape
  <2>2. CASE MStay
    BY <1>1, <2>2 DEF MStay, Stays, PhaseShape, Now
  <2>3. CASE drv'.todo = <<>>
    BY <2>3 DEF PhaseShape
  <2>4. CASE IEnable
    BY <2>4 DEF IEnable, MEnable, PhaseShape, Now
  <2>5. CASE ~MStay /\ ~IEnable /\ drv'.todo # <<>>
    BY <1>2, <2>1, <2>5 DEF IQuit, CQuit, ISkip, MSkip, IPass, MPass, MReady, IIssue, MIssue,
                            IAnswer, MAnswer, IInt, MInt, IScr, MScr, IUp, MUp, GoesOn, Ends0
  <2> QED BY <2>2, <2>3, <2>4, <2>5
<1>9. Listed(drv.todo) /\ drv.todo \in Seq(Items)
  BY <1>1, <1>2 DEF InitShape, Listed, Types, DrvType
<1> QED BY <1>1, <1>2, <1>3, <1>4, <1>5, <1>6, <1>7, <1>8, <1>9

LEMMA InitControls ==
  ASSUME CInv, InitStep
  PROVE  Controller' /\ Targets'
<1>1. Controller /\ Types /\ Waited /\ Targets /\ drv.op = "init"
  BY DEF CInv, InitStep
<1>2. /\ drv.todo # <<>> /\ drv'.op = "init"
      /\ \/ MStay \/ IQuit \/ ISkip \/ IEnable \/ IPass \/ MReady \/ IIssue \/ IAnswer \/ IInt
         \/ IScr \/ IUp
  BY InitFrame
<1>3. card' = card /\ sure' = sure /\ \A b : Target(b)' <=> Target(b)
  BY DEF InitStep, Target
<1>4. CASE IIssue
  <2>1. /\ Now \in Commands /\ host'.issued = Now /\ host'.inhibit = host.inhibit \cup Lines(Now)
        /\ host'.xfer = host.xfer /\ drv'.phase = "answer" /\ drv.phase = "issue" /\ Now.on # "write"
        /\ Now.num > 0 => ScrAt(drv.todo)
    BY <1>4 DEF IIssue, MIssue
  <2>2. host.issued = NoCmd /\ host.issued.num = 0
    BY <1>1, <1>2, <2>1, NoCmdIs DEF Controller
  <2>3. Now.num > 0 => X.kind = NONE
    BY <1>1, <2>1 DEF Waited, NoData
  <2>4. /\ Now # NoCmd /\ "cmd" \in Lines(Now) /\ Now.num \in Nat
        /\ Now.num > 0 => "dat" \in Lines(Now)
        /\ Now.num = 0 => Lines(Now) = {"cmd"}
    BY <2>1, CommandIs
  <2>5. host'.issued # NoCmd /\ "cmd" \in host'.inhibit
    BY <2>1, <2>4
  <2>6. ~NoData' => "dat" \in host'.inhibit
    <3>1. CASE Now.num > 0
      BY <2>1, <2>4, <3>1
    <3>2. CASE ~(Now.num > 0)
      BY <1>1, <2>1, <2>2, <2>4, <3>2 DEF NoData, X, Controller
    <3> QED BY <3>1, <3>2
  <2>7. host'.issued.num = 0 \/ X'.kind = NONE
    BY <2>1, <2>3, <2>4 DEF X
  <2>8. Controller'
    BY <1>1, <2>1, <2>5, <2>6, <2>7 DEF Controller, X
  <2>9. Targets'
    BY <1>1, <1>2, <1>3, <2>1 DEF Targets, X
  <2> QED BY <2>8, <2>9
<1>5. CASE ~IIssue
  <2>1. host'.issued = host.issued /\ host'.xfer = host.xfer /\ host'.inhibit = host.inhibit
    BY <1>2, <1>5 DEF MStay, Stays, IQuit, CQuit, ISkip, MSkip, IEnable, MEnable, Trouble, HostKeeps, IPass, MPass,
              MReady, IAnswer, MAnswer, IInt, MInt, IScr, MScr, IUp, MUp
  <2>2. drv'.todo # <<>> /\ drv'.phase = "issue" => host.issued = NoCmd
    <3>1. CASE MStay
      BY <1>1, <3>1 DEF MStay, Stays, Controller
    <3>2. CASE MReady
      BY <1>1, <3>2 DEF MReady, Controller
    <3>3. CASE ~MStay /\ ~MReady
      BY <1>2, <1>5, <3>3 DEF IQuit, CQuit, ISkip, MSkip, IEnable, MEnable, IPass, MPass,
              IAnswer, MAnswer, IInt, MInt, IScr, MScr, IUp, MUp, GoesOn, Ends0
    <3> QED BY <3>1, <3>2, <3>3
  <2>3. Controller'
    BY <1>1, <2>1, <2>2 DEF Controller, NoData, X
  <2>4. Addressed(host.issued)' = Addressed(host.issued)
    BY <1>3, <2>1 DEF Addressed
  <2>5. Targets'
    BY <1>1, <1>2, <1>3, <2>1, <2>4 DEF Targets, X
  <2> QED BY <2>3, <2>5
<1> QED BY <1>4, <1>5

LEMMA InitWaited ==
  ASSUME CInv, InitStep
  PROVE  Waited' /\ ShortScr'
<1>1. Controller /\ Types /\ Waited /\ ShortScr /\ drv.op = "init"
  BY DEF CInv, InitStep
<1>2. /\ drv.todo # <<>> /\ drv'.op = "init" /\ ~sd.ready /\ Listed(drv.todo) /\ drv.todo \in Seq(Items)
      /\ \/ MStay \/ IQuit \/ ISkip \/ IEnable \/ IPass \/ MReady \/ IIssue \/ IAnswer \/ IInt
         \/ IScr \/ IUp
  BY InitFrame
<1>3. ASSUME ScrAt(drv'.todo) /\ drv'.phase # "answer" => NoData', CheckAt(drv'.todo) => NoData'
      PROVE  Waited'
  BY <1>2, <1>3 DEF Waited, InCall
<1>4. ASSUME host'.issued.num <= 1, host'.xfer = host.xfer,
             Scr' /\ (host'.issued.num > 0 \/ X.left > 0) => "read_rdy" \notin host'.int
      PROVE  ShortScr'
  BY <1>1, <1>2, <1>4 DEF ShortScr, X
<1>5. host.issued.num <= 1
  BY <1>1, <1>2 DEF ShortScr
<1>6. CASE MStay
  <2>1. host' = host /\ drv'.todo = drv.todo /\ drv'.phase = drv.phase
    BY <1>6 DEF MStay, Stays
  <2>2. NoData' <=> NoData
    BY <2>1 DEF NoData, X
  <2>3. Waited'
    BY <1>1, <1>3, <2>1, <2>2 DEF Waited
  <2>4. Scr' <=> Scr
    BY <1>1, <1>2, <2>1 DEF Scr
  <2> QED BY <1>1, <1>2, <1>4, <1>5, <2>1, <2>3, <2>4 DEF ShortScr
<1>7. CASE IQuit \/ ISkip \/ IEnable \/ IInt \/ IScr \/ IUp
  <2>1. Calm(drv'.todo) /\ host'.issued = host.issued /\ host'.xfer = host.xfer
    BY <1>7 DEF IQuit, CQuit, ISkip, MSkip, IEnable, MEnable, Trouble, HostKeeps,
                IInt, MInt, IScr, MScr, IUp, MUp
  <2>2. Waited'
    BY <1>3, <2>1 DEF Calm
  <2>3. ~Scr'
    BY <2>1 DEF Calm, Scr
  <2> QED BY <1>4, <1>5, <2>1, <2>2, <2>3
<1>8. CASE IPass
  <2>1. /\ host' = host /\ ~ScrAt(drv'.todo) /\ ~IntAt(drv'.todo)
        /\ CheckAt(drv'.todo) => "dat" \notin host.inhibit
    BY <1>8 DEF IPass, MPass
  <2>2. NoData' <=> NoData
    BY <2>1 DEF NoData, X
  <2>3. Waited'
    BY <1>1, <1>3, <2>1, <2>2 DEF Controller
  <2>4. ~Scr'
    BY <2>1 DEF Scr
  <2> QED BY <1>4, <1>5, <2>1, <2>3, <2>4
<1>9. CASE MReady
  <2>1. /\ host' = host /\ drv'.todo = drv.todo /\ drv'.phase = "issue" /\ drv.phase = "start"
        /\ Now.do = "cmd"
    BY <1>9 DEF MReady
  <2>2. NoData' <=> NoData
    BY <2>1 DEF NoData, X
  <2>3. Waited'
    BY <1>1, <1>3, <2>1, <2>2 DEF Waited
  <2>4. ~Scr'
    BY <2>1 DEF Scr, IntAt, Now
  <2> QED BY <1>4, <1>5, <2>1, <2>3, <2>4
<1>10. CASE IIssue
  <2>1. /\ host'.issued = Now /\ host'.xfer = host.xfer /\ host'.int = {} /\ drv'.todo = drv.todo
        /\ drv'.phase = "answer" /\ Now.num <= 1
    BY <1>10 DEF IIssue, MIssue
  <2>2. CheckAt(drv'.todo) => NoData'
    <3>1. HAVE CheckAt(drv'.todo)
    <3>2. Now = Cmd("app", 0, 0)
      BY <1>2, <2>1, <3>1, ListedNow DEF Now
    <3>3. Now.num = 0 /\ NoData
      BY <1>1, <2>1, <3>1, <3>2 DEF Cmd, Waited
    <3> QED BY <2>1, <3>3 DEF NoData, X
  <2>3. Waited'
    BY <1>3, <2>1, <2>2
  <2> QED BY <1>4, <2>1, <2>3
<1>11. CASE IAnswer
  <2>1. /\ HostKeeps /\ drv'.phase = "start" /\ drv.phase = "answer" /\ ~CheckAt(drv'.todo)
        /\ host'.int = host.int \ {"cmd_done"}
        /\ ScrAt(drv'.todo) => CheckAt(drv.todo)
        /\ IntAt(drv'.todo) => ScrAt(drv.todo)
    BY <1>11 DEF IAnswer, MAnswer, Answered, GoesOn
  <2>2. NoData' <=> NoData
    BY <2>1 DEF NoData, X, HostKeeps
  <2>3. Waited'
    BY <1>1, <1>3, <2>1, <2>2 DEF Waited
  <2>4. Scr' => Scr
    BY <1>1, <2>1 DEF Scr
  <2>5. Scr' /\ (host'.issued.num > 0 \/ X.left > 0) => "read_rdy" \notin host'.int
    BY <1>1, <1>2, <2>1, <2>4 DEF ShortScr, HostKeeps
  <2> QED BY <1>4, <1>5, <2>1, <2>3, <2>5 DEF HostKeeps
<1> QED BY <1>2, <1>6, <1>7, <1>8, <1>9, <1>10, <1>11

LEMMA InitClean ==
  ASSUME CInv, InitStep, late' # TRUE
  PROVE  Clean'
<1>1. Controller /\ Types /\ ShortScr /\ drv.op = "init"
  BY DEF CInv, InitStep
<1>2. /\ drv.todo # <<>> /\ drv'.op = "init" /\ ~sd.ready /\ late' = late
      /\ \/ MStay \/ IQuit \/ ISkip \/ IEnable \/ IPass \/ MReady \/ IIssue \/ IAnswer \/ IInt
         \/ IScr \/ IUp
  BY InitFrame
<1>3. Clean
  BY <1>2 DEF CInv, Types
<1>4. X.left \in Nat
  BY <1>1 DEF Types, HostType, X
<1>5. CASE MStay
  BY <1>3, <1>5 DEF MStay, Stays, Clean, Pending, X, Answering, Doing, Now
<1>6. CASE IQuit \/ ISkip \/ IEnable
  <2>1. Trouble
    BY <1>6 DEF IQuit, CQuit, ISkip, MSkip, IEnable, MEnable
  <2> QED BY <1>1, <1>2, <1>3, <2>1, TroubleClean
<1>7. CASE IPass \/ MReady \/ IScr \/ IUp
  <2>1. /\ host'.issued = host.issued /\ host'.xfer = host.xfer /\ host'.int = host.int
        /\ Now.do \in {"status", "poll", "scr", "cmd"} /\ (Now.do = "cmd" => drv.phase # "answer")
    BY <1>7 DEF IPass, MPass, MReady, IScr, MScr, IUp, MUp
  <2>2. host.issued = NoCmd /\ Pending = {} /\ X.left = 0
    BY <1>1, <1>3, <2>1, QuietIs DEF Doing, Answering
  <2> QED BY <2>1, <2>2, QuietStays DEF Pending, X
<1>8. CASE IIssue
  <2>1. /\ Now.do = "cmd" /\ drv.phase = "issue" /\ host'.xfer = host.xfer /\ host'.int = {}
        /\ host'.issued = Now /\ drv'.todo = drv.todo /\ drv'.phase = "answer"
    BY <1>8 DEF IIssue, MIssue
  <2>2. X.left = 0
    BY <1>1, <1>3, <2>1, QuietIs DEF Doing, Answering
  <2> QED BY <1>2, <2>1, <2>2 DEF Clean, Pending, X, Answering, Doing, Now
<1>9. CASE IAnswer
  <2>1. /\ HostKeeps /\ Pending = {} /\ "cmd_done" \in host.int
        /\ host'.int = host.int \ {"cmd_done"} /\ drv.phase = "answer" /\ Now.do = "cmd"
        /\ Now.num > 0 => IntAt(drv'.todo)
    BY <1>9 DEF IAnswer, MAnswer, Answered
  <2>2. host.issued = NoCmd
    BY <1>3, <2>1 DEF Clean
  <2>3. CASE X.left > 0
    <3>1. Now.num > 0
      BY <1>3, <2>1, <2>3 DEF Clean, Doing
    <3>2. Doing("int")'
      BY <2>1, <3>1 DEF Doing, IntAt, Now
    <3> QED BY <2>1, <2>2, <3>2 DEF Clean, HostKeeps, Pending, X
  <2>4. CASE X.left = 0
    BY <2>1, <2>2, <2>4, QuietStays DEF HostKeeps, Pending, X
  <2> QED BY <1>4, <2>3, <2>4
<1>10. CASE IInt
  <2>1. /\ HostKeeps /\ Pending = {} /\ "read_rdy" \in host.int /\ Now.do = "int" /\ IntAt(drv.todo)
        /\ host'.int = host.int \ {Now.on}
    BY <1>10 DEF IInt, MInt
  <2>2. host.issued = NoCmd
    BY <1>3, <2>1 DEF Clean, Answering, Doing
  <2>3. X.left = 0
    BY <1>1, <1>2, <1>4, <2>1 DEF ShortScr, Scr
  <2> QED BY <2>1, <2>2, <2>3, QuietStays DEF HostKeeps, Pending, X
<1> QED BY <1>2, <1>5, <1>6, <1>7, <1>8, <1>9, <1>10

LEMMA InitKeeps ==
  ASSUME CInv, InitStep
  PROVE  CInv'
<1>1. ~late' => Clean'
  BY InitClean
<1> QED BY <1>1, InitFrame, InitControls, InitWaited DEF CInv

----------------------------------------------------------------------------
(* The beginning of a call *)

LEMMA IdleClean ==
  ASSUME Types, ~late => Clean, drv.todo = <<>>, host' = host, late' = late
  PROVE  ~late' => Clean'
<1>1. HAVE ~late'
<1>2. host.issued = NoCmd /\ Pending = {} /\ X.left = 0
  BY <1>1, QuietIs DEF Answering, Doing
<1> QED BY <1>2, QuietStays DEF Pending, X

LEMMA SameController ==
  ASSUME Controller, host' = host, drv'.phase = "start"
  PROVE  Controller'
BY DEF Controller, NoData, X

LEMMA SdInitKeeps ==
  ASSUME CInv, sd_init
  PROVE  CInv'
<1>1. /\ Types /\ Controller /\ Targets /\ WritesStay /\ ShortScr /\ IdleEmpty /\ (~late => Clean)
  BY DEF CInv
<1>2. /\ drv.op = NONE /\ ~sd.ready /\ host' = host /\ card' = card /\ sure' = sure /\ late' = late
      /\ faults' = faults
      /\ sd' = [ready |-> FALSE, err |-> "ok", rca |-> 0, ccs |-> FALSE, blkcnt |-> FALSE]
  BY DEF sd_init
<1>3. PICK list \in Seq(Items) : list = InitList /\ Early(list)
  BY InitListIs
<1>4. drv'.op = "init" /\ drv'.todo = list /\ drv'.phase = "start" /\ DrvType'
  <2>1. Call("init", 0, 0, NONE, list) /\ NONE \in Words /\ 0 \in Nat
    BY <1>3 DEF sd_init, Words
  <2> QED BY <2>1, CallOut
<1>5. Calm(list) /\ list # <<>>
  BY <1>3, EarlyCalm, EarlyNow
<1>6. Types'
  <2>1. SdType' /\ ~sd'.ready
    BY <1>2 DEF SdType
  <2>2. HostType' /\ CardType'
    BY <1>1, <1>2 DEF Types, HostType, CardType
  <2> QED BY <1>1, <1>2, <1>4, <2>1, <2>2 DEF Types
<1>7. ~sd'.ready
  BY <1>2
<1>8. CallShape' /\ KnowsCard' /\ IdleEmpty' /\ WriteStage' /\ ReadStage' /\ PhaseShape'
  BY <1>4, <1>7 DEF CallShape, InCall, KnowsCard, IdleEmpty, WriteStage, ReadStage, PhaseShape, NONE
<1>9. InitShape'
  BY <1>3, <1>4, <1>7 DEF InitShape
<1>10. Controller'
  BY <1>1, <1>2, <1>4, SameController
<1>11. Waited'
  BY <1>4, <1>5 DEF Waited, InCall, Calm
<1>12. Targets'
  <2>1. \A b : Target(b)' <=> Target(b)
    BY <1>2 DEF Target
  <2>2. Addressed(host.issued)' = Addressed(host.issued)
    BY <1>2 DEF Addressed
  <2> QED BY <1>1, <1>2, <1>4, <2>1, <2>2 DEF Targets, X
<1>13. WritesStay'
  BY <1>1, <1>2 DEF WritesStay
<1>14. ShortScr'
  <2>1. ~Scr'
    BY <1>4, <1>5 DEF Calm, Scr
  <2> QED BY <1>1, <1>2, <2>1 DEF ShortScr, X
<1>15. ~late' => Clean'
  BY <1>1, <1>2, IdleClean DEF IdleEmpty
<1> QED BY <1>6, <1>8, <1>9, <1>10, <1>11, <1>12, <1>13, <1>14, <1>15 DEF CInv

LEMMA BeginShape ==
  ASSUME NEW op \in {"read", "write"}, NEW lba \in Nat, NEW num \in Nat \ {0}, NEW data \in Words,
         NEW list, sd.ready, sd' = sd, lba + num <= BLOCKS, num > 1 => sd.ccs,
         op = "write" => data \in VALUES, IsList(list, op, lba, num), Call(op, lba, num, data, list)
  PROVE  /\ CallShape' /\ DrvType' /\ drv'.op = op /\ drv'.lba = lba /\ drv'.num = num
         /\ drv'.phase = "start" /\ drv'.buf = <<>> /\ ~Begun' /\ ~(Place' > -(1 + Lead'))
<1>1. /\ list \in Seq(Items) /\ Len(list) = EndsOf(op, num) + 2 + LeadOf(num)
      /\ \A k \in 1 .. Len(list) : list[k] = ItemOf(op, lba, num, k - 2 - LeadOf(num))
  BY CallListIs
<1>2. /\ drv'.op = op /\ drv'.lba = lba /\ drv'.num = num /\ drv'.data = data /\ drv'.todo = list
      /\ drv'.phase = "start" /\ drv'.buf = <<>> /\ DrvType'
  <2>1. op \in {"init", "read", "write"} /\ num \in Nat /\ list \in Seq(Items)
    BY <1>1
  <2> QED BY <2>1, CallOut
<1>3. PICK lead \in {0, 1}, ends \in Nat, len \in Nat :
         lead = LeadOf(num) /\ ends = EndsOf(op, num) /\ len = Len(list)
  <2>1. LeadOf(num) \in {0, 1} /\ EndsOf(op, num) \in Nat
    BY DEF LeadOf, EndsOf, TellOf
  <2>2. Len(list) \in Nat
    BY <1>1, SomeItems
  <2> QED BY <2>1, <2>2
<1>4. len = ends + 2 + lead
  BY <1>1, <1>3
<1>5. Lead' = lead /\ Ends' = ends
  <2>1. Lead' = LeadOf(num)
    BY <1>2 DEF Lead, LeadOf
  <2>2. Ends' = EndsOf(op, num)
    BY <1>2 DEF Ends, EndsOf, TellOf
  <2> QED BY <1>3, <2>1, <2>2
<1>6. Place' = ends + 1 - len
  BY <1>2, <1>3, <1>5 DEF Place
<1>7. Place' = -(1 + lead) /\ Place' < 0 /\ ~(Place' > -(1 + lead)) /\ ~(Place' > 0) /\ Place' # 0
  BY <1>4, <1>6
<1>8. \A r \in Place' .. Ends' : drv'.todo[r - Place' + 1] = CallItem(r)'
  <2>1. PICK p \in Int : p = -(1 + lead)
    OBVIOUS
  <2>2. SUFFICES ASSUME NEW r \in p .. ends
                 PROVE  list[r - p + 1] = CallItem(r)'
    BY <1>2, <1>5, <1>7, <2>1
  <2>3. CallItem(r)' = ItemOf(op, lba, num, r)
    BY <1>2 DEF CallItem, ItemOf, LeadOf, DataCmdOf
  <2>4. PICK k \in 1 .. len : k = r - p + 1 /\ k - 2 - lead = r
    BY <1>4, <2>1, <2>2
  <2>5. list[k] = ItemOf(op, lba, num, k - 2 - lead)
    BY <1>1, <1>3
  <2> QED BY <2>3, <2>4, <2>5
<1>9. CallShape'
  <2>1. sd'.ready /\ (num > 1 => sd'.ccs) /\ num > 0
    OBVIOUS
  <2>2. Place' >= -(1 + Lead')
    BY <1>5, <1>7
  <2> QED BY <1>2, <1>8, <2>1, <2>2 DEF CallShape
<1>10. ~Begun'
  BY <1>7 DEF Begun
<1> QED BY <1>2, <1>5, <1>7, <1>9, <1>10

(* What the two calls share *)
LEMMA BeginKeeps ==
  ASSUME CInv, NEW op \in {"read", "write"}, NEW lba \in Nat, NEW num \in Nat \ {0}, NEW data \in Words,
         NEW list, sd.ready, lba + num <= BLOCKS, num > 1 => sd.ccs, drv.op = NONE,
         op = "write" => data \in VALUES, IsList(list, op, lba, num), Call(op, lba, num, data, list),
         UNCHANGED <<host, card, sd, late, faults>>,
         sure' \in [Blocks -> Words], \A b \in Blocks : sure'[b] = sure[b] \/ sure'[b] = NONE,
         op = "write" => \A b \in Blocks : lba <= b /\ b < lba + num => sure'[b] = NONE
  PROVE  CInv'
<1>1. /\ Types /\ Controller /\ Targets /\ WritesStay /\ KnowsCard /\ IdleEmpty /\ (~late => Clean)
  BY DEF CInv
<1>2. host' = host /\ card' = card /\ sd' = sd /\ late' = late /\ faults' = faults
  OBVIOUS
<1>3. /\ CallShape' /\ DrvType' /\ drv'.op = op /\ drv'.lba = lba /\ drv'.num = num
      /\ drv'.phase = "start" /\ drv'.buf = <<>> /\ ~Begun' /\ ~(Place' > -(1 + Lead'))
  BY <1>2, BeginShape
<1>4. Types'
  <2>1. HostType' /\ CardType' /\ SdType'
    BY <1>1, <1>2 DEF Types, HostType, CardType, SdType
  <2> QED BY <1>1, <1>2, <1>3, <2>1 DEF Types
<1>5. InitShape' /\ PhaseShape' /\ KnowsCard' /\ IdleEmpty'
  BY <1>1, <1>2, <1>3 DEF InitShape, PhaseShape, KnowsCard, IdleEmpty, NONE
<1>6. ShortScr'
  BY <1>2 DEF ShortScr
<1>7. Controller'
  BY <1>1, <1>2, <1>3, SameController
<1>8. Waited'
  <2>1. drv'.op # "init"
    BY <1>3
  <2> QED BY <1>3, <2>1 DEF Waited
<1>9. WriteStage' /\ ReadStage'
  BY <1>3 DEF WriteStage, ReadStage
<1>10. Targets'
  <2>1. \A b : Target(b) => Target(b)'
    BY DEF Target
  <2>2. Addressed(host.issued)' = Addressed(host.issued)
    BY <1>2 DEF Addressed
  <2>3. host'.issued.on = "write" =>
          \A b \in Nat : Addressed(host.issued)' <= b /\ b < Addressed(host.issued)' + host'.issued.num
                           => Target(b)'
    BY <1>1, <1>2, <2>1, <2>2 DEF Targets
  <2>4. X'.kind = "write" => \A b \in Nat : X'.block <= b /\ b < X'.block + X'.left => Target(b)'
    BY <1>1, <1>2, <2>1 DEF Targets, X
  <2>5. drv'.op = "write" => \A b \in Nat : drv'.lba <= b /\ b < drv'.lba + drv'.num => Target(b)'
    <3>1. SUFFICES ASSUME op = "write", NEW b \in Nat, lba <= b, b < lba + num
                   PROVE  Target(b)'
      BY <1>3
    <3>2. b \in Blocks
      BY <3>1, CardAssumption DEF Blocks
    <3> QED BY <3>1, <3>2 DEF Target
  <2> QED BY <2>3, <2>4, <2>5 DEF Targets
<1>11. WritesStay'
  <2>1. DOMAIN sure = Blocks /\ DOMAIN sure' = Blocks
    BY <1>1 DEF Types
  <2> QED BY <1>1, <1>2, <2>1 DEF WritesStay
<1>12. ~late' => Clean'
  BY <1>1, <1>2, IdleClean DEF IdleEmpty
<1> QED BY <1>3, <1>4, <1>5, <1>6, <1>7, <1>8, <1>9, <1>10, <1>11, <1>12 DEF CInv

LEMMA ReadKeeps ==
  ASSUME CInv, NEW lba \in 0 .. BLOCKS - 1, NEW num \in 1 .. MAX_NUM, lba + num <= BLOCKS,
         num > 1 => sd.ccs, sd_readblock(lba, num)
  PROVE  CInv'
<1>1. PICK list : IsList(list, "read", lba, num)
  BY DEF IsList
<1>2. /\ lba \in Nat /\ num \in Nat \ {0} /\ NONE \in Words /\ sure \in [Blocks -> Words]
  BY CardAssumption DEF Words, CInv, Types
<1>3. /\ Call("read", lba, num, NONE, list) /\ sd.ready /\ drv.op = NONE
      /\ UNCHANGED <<host, card, sd, late, faults>> /\ sure' = sure
  BY <1>1 DEF sd_readblock, IsList
<1>4. sure' \in [Blocks -> Words] /\ \A b \in Blocks : sure'[b] = sure[b] \/ sure'[b] = NONE
  BY <1>2, <1>3
<1>5. "read" \in {"read", "write"} /\ "read" # "write"
  OBVIOUS
<1> QED BY <1>1, <1>2, <1>3, <1>4, <1>5, BeginKeeps

LEMMA WriteKeeps ==
  ASSUME CInv, NEW lba \in 0 .. BLOCKS - 1, NEW num \in 1 .. MAX_NUM, lba + num <= BLOCKS,
         num > 1 => sd.ccs, NEW data \in VALUES, sd_writeblock(lba, num, data)
  PROVE  CInv'
<1>1. PICK list : IsList(list, "write", lba, num)
  BY DEF IsList
<1>2. /\ lba \in Nat /\ num \in Nat \ {0} /\ data \in Words /\ NONE \in Words
      /\ sure \in [Blocks -> Words]
  BY CardAssumption DEF Words, CInv, Types
<1>3. /\ Call("write", lba, num, data, list) /\ sd.ready /\ drv.op = NONE
      /\ UNCHANGED <<host, card, sd, late, faults>>
      /\ sure' = [b \in DOMAIN sure |-> IF b \in lba .. lba + num - 1 THEN NONE ELSE sure[b]]
  BY <1>1 DEF sd_writeblock, IsList
<1>4. sure' \in [Blocks -> Words] /\ \A b \in Blocks : sure'[b] = sure[b] \/ sure'[b] = NONE
  BY <1>2, <1>3
<1>5. \A b \in Blocks : lba <= b /\ b < lba + num => sure'[b] = NONE
  <2>1. SUFFICES ASSUME NEW b \in Blocks, lba <= b, b < lba + num PROVE sure'[b] = NONE
    OBVIOUS
  <2>2. b \in Int
    BY CardAssumption DEF Blocks
  <2>3. b \in lba .. lba + num - 1
    BY <1>2, <2>1, <2>2
  <2> QED BY <1>2, <1>3, <2>3
<1>6. "write" \in {"read", "write"}
  OBVIOUS
<1> QED BY <1>1, <1>2, <1>3, <1>4, <1>5, <1>6, BeginKeeps

----------------------------------------------------------------------------
(* The end of a call *)

LEMMA FinishKeeps ==
  ASSUME CInv, Finish, UNCHANGED <<card, faults>>
  PROVE  CInv'
<1>1. /\ Types /\ Controller /\ Targets /\ WritesStay /\ KnowsCard /\ InitShape /\ ShortScr
      /\ CallShape /\ WriteStage /\ (~late => Clean)
  BY DEF CInv
<1>2. /\ drv.op # NONE /\ drv.todo = <<>> /\ host' = host /\ late' = late
      /\ drv'.op = NONE /\ drv'.todo = <<>> /\ drv'.phase = "start" /\ DrvType' /\ SdType'
      /\ (sd.ready => sd'.ready)
      /\ \/ sd'.ready = sd.ready /\ sd'.ccs = sd.ccs
         \/ drv.op = "init" /\ sd.err = "ok" /\ sd'.ccs = drv.ccs
      /\ sure' \in [Blocks -> Words] /\ card' = card /\ faults' = faults
  BY <1>1, FinishOut
<1>3. sure' = [b \in Blocks |->
                IF drv.op = "write" /\ sd.err = "ok" /\ b \in drv.lba .. drv.lba + drv.num - 1
                THEN drv.data ELSE sure[b]]
  BY <1>1, FinishOut
<1>4. Types'
  <2>1. HostType' /\ CardType'
    BY <1>1, <1>2 DEF Types, HostType, CardType
  <2> QED BY <1>1, <1>2, <2>1 DEF Types
<1>5. /\ CallShape' /\ InitShape' /\ PhaseShape' /\ IdleEmpty' /\ WriteStage' /\ ReadStage' /\ Waited'
  BY <1>2 DEF CallShape, InCall, InitShape, PhaseShape, IdleEmpty, WriteStage, ReadStage, Waited, NONE
<1>6. KnowsCard'
  <2>1. CASE drv.op = "init" /\ sd.err = "ok" /\ sd'.ccs = drv.ccs
    <3>1. drv.ccs = card.hc
      BY <1>1, <1>2, <2>1 DEF InitShape, Early
    <3> QED BY <1>2, <2>1, <3>1 DEF KnowsCard
  <2>2. CASE sd'.ready = sd.ready /\ sd'.ccs = sd.ccs
    BY <1>1, <1>2, <2>2 DEF KnowsCard
  <2> QED BY <1>2, <2>1, <2>2
<1>7. Controller'
  BY <1>1, <1>2, SameController
<1>8. ShortScr'
  BY <1>1, <1>2 DEF ShortScr, X, Scr, NONE
<1>9. ~late' => Clean'
  BY <1>1, <1>2, IdleClean
<1>10. CASE ~(drv.op = "write" /\ sd.err = "ok")
  <2>1. sure' = sure
    BY <1>1, <1>3, <1>10 DEF Types
  <2>2. \A b : Target(b)' <=> Target(b)
    BY <2>1 DEF Target
  <2>3. Addressed(host.issued)' = Addressed(host.issued)
    BY <1>2 DEF Addressed
  <2>4. Targets'
    BY <1>1, <1>2, <2>2, <2>3 DEF Targets, X, NONE
  <2>5. WritesStay'
    BY <1>1, <1>2, <2>1 DEF WritesStay
  <2> QED BY <1>2, <1>4, <1>5, <1>6, <1>7, <1>8, <1>9, <2>4, <2>5 DEF CInv
<1>11. CASE drv.op = "write" /\ sd.err = "ok"
  <2>1. /\ Place \in Int /\ drv.num \in Nat /\ Ends >= 2 * drv.num + 1 /\ Ends \in Nat
        /\ Len(drv.todo) = 0 /\ Turns \in 0 .. drv.num /\ drv.lba \in Nat
    BY <1>1, <1>2, <1>11, PlaceType, TurnsType DEF Types, DrvType
  <2>2. Place > 2 * drv.num + 1 /\ Place > 0
    BY <2>1 DEF Place
  <2>3. Begun /\ Turns = 0
    BY <1>1, <1>11, <2>1, <2>2, TurnsType DEF Begun, Alive
  <2>4. NoData /\ Written(drv.num)
    BY <1>1, <1>11, <2>1, <2>2, <2>3 DEF WriteStage, Asked, Writing, WriteEnded
  <2>5. host.issued.on # "write" /\ X.kind # "write"
    <3>1. host.issued.num = 0 /\ X.kind = NONE
      BY <2>4 DEF NoData
    <3> QED BY <1>1, <3>1, IssuedIs DEF Types, Moving, NONE
  <2>6. Targets'
    BY <1>2, <2>5 DEF Targets, X, NONE
  <2>7. WritesStay'
    <3>1. DOMAIN sure = Blocks /\ DOMAIN sure' = Blocks
      BY <1>1, <1>2 DEF Types
    <3>2. SUFFICES ASSUME NEW b \in Blocks, sure'[b] # NONE PROVE card.block[b] = sure'[b]
      BY <1>2, <3>1 DEF WritesStay
    <3>3. b \in Int
      BY CardAssumption DEF Blocks
    <3>4. CASE b \in drv.lba .. drv.lba + drv.num - 1
      <4>1. drv.lba <= b /\ b < drv.lba + drv.num
        BY <2>1, <3>3, <3>4
      <4>2. card.block[b] = drv.data
        BY <2>4, <4>1 DEF Written
      <4>3. sure'[b] = drv.data
        BY <1>3, <1>11, <3>4
      <4> QED BY <4>2, <4>3
    <3>5. CASE b \notin drv.lba .. drv.lba + drv.num - 1
      <4>1. sure'[b] = sure[b]
        BY <1>3, <3>5
      <4> QED BY <1>1, <3>1, <3>2, <4>1 DEF WritesStay
    <3> QED BY <3>4, <3>5
  <2> QED BY <1>2, <1>4, <1>5, <1>6, <1>7, <1>8, <1>9, <2>6, <2>7 DEF CInv
<1> QED BY <1>10, <1>11

----------------------------------------------------------------------------
(* What the controller and the card do keeps the invariant. *)

HAnswer ==
  /\ host.issued # NoCmd /\ card' = card
  /\ host'.int = host.int \cup {"cmd_done"} /\ host'.issued = NoCmd
  /\ host'.inhibit = host.inhibit \ {"cmd"} /\ host'.fifo = host.fifo
  /\ host.issued.num = 0 => host'.xfer = host.xfer
  /\ host.issued.num > 0 =>
       /\ host'.xfer.kind = host.issued.on /\ host'.xfer.left = host.issued.num
       /\ host'.xfer.block = Addressed(host.issued)
Reports ==
  /\ host'.int \cap Errors # {} /\ host.int \subseteq host'.int
  /\ \A f \in host'.int : f \in host.int \/ f \in Errors
HRefuse ==
  /\ host.issued # NoCmd /\ card' = card /\ Reports
  /\ host'.inhibit = host.inhibit \ Lines(host.issued) /\ host'.fifo = host.fifo
  /\ host'.issued = NoCmd /\ host'.xfer = host.xfer
HFill ==
  /\ X.left > 0 /\ host.fifo = NONE /\ host'.issued = host.issued /\ card' = card
  /\ X.kind \in {"read", "scr"} /\ host'.inhibit = host.inhibit
  /\ host'.int = host.int \cup {"read_rdy"}
  /\ host'.xfer.kind = X.kind /\ host'.xfer.block = X.block + 1 /\ host'.xfer.left = X.left - 1
  /\ X.kind = "read" => host'.fifo = card.block[X.block % BLOCKS]
HAsk ==
  /\ X.left > 0 /\ host.fifo = NONE /\ host'.issued = host.issued /\ card' = card
  /\ X.kind = "write" /\ "write" \notin host.inhibit
  /\ host'.inhibit = host.inhibit \cup {"write"} /\ host'.int = host.int \cup {"write_rdy"}
  /\ host'.xfer = host.xfer /\ host'.fifo = host.fifo
HProgram ==
  /\ X.left > 0 /\ X.kind = "write" /\ host.fifo # NONE
  /\ host'.inhibit = host.inhibit /\ host'.fifo = NONE /\ host'.int = host.int
  /\ host'.issued = host.issued /\ host'.xfer.kind = X.kind
  /\ host'.xfer.block = X.block + 1 /\ host'.xfer.left = X.left - 1
  /\ card'.block = [card.block EXCEPT ![X.block % BLOCKS] = host.fifo]
HDone ==
  /\ X.kind # NONE /\ X.left = 0 /\ host.fifo = NONE /\ card' = card
  /\ host'.inhibit = host.inhibit \ {"dat"} /\ host'.fifo = host.fifo
  /\ host'.issued = host.issued /\ host'.xfer = NoXfer /\ host'.int = host.int \cup {"data_done"}
HBreak ==
  /\ X.left > 0 /\ card' = card /\ Reports
  /\ host'.inhibit = host.inhibit \ {"dat", "write"} /\ host'.fifo = NONE
  /\ host'.issued = host.issued /\ host'.xfer = NoXfer
HStep == HAnswer \/ HRefuse \/ HFill \/ HAsk \/ HProgram \/ HDone \/ HBreak

LEMMA HwSteps ==
  ASSUME Types, Hardware
  PROVE  /\ drv' = drv /\ sd' = sd /\ sure' = sure /\ late' = late /\ card'.hc = card.hc
         /\ HStep /\ Types'
<1>1. drv' = drv /\ sd' = sd /\ sure' = sure /\ late' = late
  BY DEF Hardware
<1>2. ASSUME HostType', CardType', faults' \in Nat PROVE Types'
  <2>1. DrvType' /\ SdType'
    BY <1>1 DEF Types, DrvType, SdType
  <2> QED BY <1>1, <1>2, <2>1 DEF Types
<1>3. card' = card => CardType'
  BY DEF Types, CardType
<1>4. faults \in Nat
  BY DEF Types
<1>5. CASE Answer /\ UNCHANGED card
  <2>1. HAnswer /\ HostType'
    BY <1>5, AnswerHw DEF HAnswer
  <2>2. faults' = faults
    BY <1>5 DEF Answer
  <2> QED BY <1>1, <1>2, <1>3, <1>4, <1>5, <2>1, <2>2 DEF HStep
<1>6. CASE AnswerError /\ UNCHANGED card
  <2>1. HRefuse /\ HostType' /\ faults' \in Nat
    BY <1>6, AnswerErrorHw DEF HRefuse, Reports
  <2> QED BY <1>1, <1>2, <1>3, <1>6, <2>1 DEF HStep
<1>7. CASE DataDone /\ UNCHANGED card
  <2>1. HDone /\ HostType'
    BY <1>7, DataDoneHw DEF HDone
  <2>2. faults' = faults
    BY <1>7 DEF DataDone
  <2> QED BY <1>1, <1>2, <1>3, <1>4, <1>7, <2>1, <2>2 DEF HStep
<1>8. CASE DataError /\ UNCHANGED card
  <2>1. HBreak /\ HostType' /\ faults' \in Nat
    BY <1>8, DataErrorHw DEF HBreak, Reports
  <2> QED BY <1>1, <1>2, <1>3, <1>8, <2>1 DEF HStep
<1>9. CASE DataReady
  <2>1. (HFill \/ HAsk) /\ HostType' /\ card' = card /\ faults' = faults
    BY <1>9, DataReadyHw DEF HFill, HAsk
  <2> QED BY <1>1, <1>2, <1>3, <1>4, <2>1 DEF HStep
<1>10. CASE Program
  <2>1. HProgram /\ HostType' /\ CardType' /\ card'.hc = card.hc
    BY <1>10, ProgramHw DEF HProgram
  <2>2. faults' = faults
    BY <1>10 DEF Program
  <2> QED BY <1>1, <1>2, <1>4, <2>1, <2>2 DEF HStep
<1> QED BY <1>5, <1>6, <1>7, <1>8, <1>9, <1>10 DEF Hardware

LEMMA HwFrame ==
  ASSUME CInv, Hardware
  PROVE  /\ drv' = drv /\ sd' = sd /\ sure' = sure /\ late' = late /\ card'.hc = card.hc
         /\ HStep /\ Types' /\ CallShape' /\ InitShape' /\ PhaseShape' /\ KnowsCard' /\ IdleEmpty'
         /\ Place' = Place /\ Turns' = Turns /\ Lead' = Lead /\ DataCmd' = DataCmd
         /\ \A what : Doing(what)' <=> Doing(what)
<1>1. Types /\ CallShape /\ InitShape /\ PhaseShape /\ KnowsCard /\ IdleEmpty
  BY DEF CInv
<1>2. /\ drv' = drv /\ sd' = sd /\ sure' = sure /\ late' = late /\ card'.hc = card.hc
      /\ HStep /\ Types'
  BY <1>1, HwSteps
<1>3. Keeps /\ sd'.blkcnt = sd.blkcnt /\ drv'.todo = drv.todo
  BY <1>2 DEF Keeps
<1>4. Lead' = Lead /\ DataCmd' = DataCmd
  BY <1>3, SamePlaces
<1>5. CallShape' /\ Place' = Place /\ Turns' = Turns
  BY <1>1, <1>3, ShapeStays
<1>6. InitShape' /\ PhaseShape' /\ KnowsCard' /\ IdleEmpty'
  BY <1>1, <1>2 DEF InitShape, PhaseShape, KnowsCard, IdleEmpty, Now
<1>7. \A what : Doing(what)' <=> Doing(what)
  BY <1>2 DEF Doing, Now
<1> QED BY <1>2, <1>4, <1>5, <1>6, <1>7

(* A transfer rules out a command that asks for another. *)
LEMMA MovingIs ==
  ASSUME Types, Controller
  PROVE  /\ X.left \in Nat /\ X.block \in Nat /\ host.issued.num \in Nat
         /\ X.left > 0 => X.kind # NONE
         /\ X.kind # NONE => host.issued.num = 0
         /\ NoData => X.left = 0 /\ X.kind = NONE /\ host.issued.num = 0
         /\ host.issued # NoCmd => host.issued \in Commands
         /\ host.issued.num > 0 => host.issued.on \in Moving
<1>1. HostType
  BY DEF Types
<1>2. X.left \in Nat /\ X.block \in Nat
  BY <1>1 DEF HostType, X
<1>3. /\ host.issued # NoCmd => host.issued \in Commands
      /\ host.issued.num \in Nat /\ (host.issued.num > 0 => host.issued.on \in Moving)
  BY <1>1, IssuedIs
<1> QED BY <1>2, <1>3 DEF Controller, NoData

LEMMA HwController ==
  ASSUME CInv, Hardware
  PROVE  Controller' /\ Waited'
<1>1. Types /\ Controller /\ Waited
  BY DEF CInv
<1>2. drv' = drv /\ HStep /\ Place' = Place /\ Lead' = Lead
  BY HwFrame
<1>3. /\ X.left \in Nat /\ X.block \in Nat /\ host.issued.num \in Nat
      /\ X.left > 0 => X.kind # NONE
      /\ X.kind # NONE => host.issued.num = 0
      /\ NoData => X.left = 0 /\ X.kind = NONE /\ host.issued.num = 0
      /\ host.issued # NoCmd => host.issued \in Commands
      /\ host.issued.num > 0 => host.issued.on \in Moving
  BY <1>1, MovingIs
<1>4. NoCmd.num = 0
  BY NoCmdIs
<1>5. NoXfer.kind = NONE /\ NoXfer.left = 0 /\ NONE \notin Moving
  BY NoXferIs DEF NONE, Moving
<1>6. CASE HAnswer
  <2>1. ASSUME host.issued.num = 0 PROVE Controller'
    BY <1>1, <1>2, <1>3, <1>4, <1>6, <2>1 DEF HAnswer, Controller, NoData, X
  <2>2. ASSUME host.issued.num > 0 PROVE Controller'
    BY <1>1, <1>2, <1>3, <1>4, <1>5, <1>6, <2>2 DEF HAnswer, Controller, NoData, X
  <2>3. Controller'
    BY <1>3, <2>1, <2>2
  <2>4. NoData => NoData'
    BY <1>3, <1>4, <1>6 DEF HAnswer, NoData, X
  <2>5. "write" \notin host.inhibit => "write" \notin host'.inhibit
    BY <1>6 DEF HAnswer
  <2> QED BY <1>1, <1>2, <2>3, <2>4, <2>5 DEF Waited, InCall
<1>7. CASE HRefuse
  <2>1. "cmd" \in Lines(host.issued) /\ (host.issued.num = 0 => Lines(host.issued) = {"cmd"})
    BY <1>3, <1>7, CommandIs DEF HRefuse
  <2>2. Controller'
    BY <1>1, <1>2, <1>3, <1>4, <1>7, <2>1 DEF HRefuse, Controller, NoData, X
  <2>3. NoData => NoData'
    BY <1>3, <1>4, <1>7 DEF HRefuse, NoData, X
  <2>4. "write" \notin host.inhibit => "write" \notin host'.inhibit
    BY <1>7 DEF HRefuse
  <2> QED BY <1>1, <1>2, <2>2, <2>3, <2>4 DEF Waited, InCall
<1>8. CASE HFill \/ HAsk \/ HProgram
  <2>1. /\ host'.issued = host.issued /\ X'.kind = X.kind /\ X.kind # NONE /\ ~NoData
        /\ "cmd" \in host'.inhibit <=> "cmd" \in host.inhibit
        /\ "dat" \in host'.inhibit <=> "dat" \in host.inhibit
    BY <1>3, <1>8 DEF HFill, HAsk, HProgram, X
  <2>2. Controller'
    BY <1>1, <1>2, <1>3, <2>1 DEF Controller, NoData
  <2> QED BY <1>1, <1>2, <2>1, <2>2 DEF Waited, InCall
<1>9. CASE HDone \/ HBreak
  <2>1. /\ host'.issued = host.issued /\ X'.kind = NONE /\ X'.left = 0 /\ X.kind # NONE /\ ~NoData
        /\ "cmd" \in host'.inhibit <=> "cmd" \in host.inhibit
    BY <1>3, <1>5, <1>9 DEF HDone, HBreak, X
  <2>2. Controller'
    BY <1>1, <1>2, <1>3, <2>1 DEF Controller, NoData
  <2> QED BY <1>1, <1>2, <2>1, <2>2 DEF Waited, InCall
<1> QED BY <1>2, <1>6, <1>7, <1>8, <1>9 DEF HStep

LEMMA HwShort ==
  ASSUME CInv, Hardware
  PROVE  ShortScr'
<1>1. Types /\ Controller /\ ShortScr
  BY DEF CInv
<1>2. drv' = drv /\ sd' = sd /\ HStep
  BY HwFrame
<1>3. Scr' <=> Scr
  BY <1>2 DEF Scr
<1>4. /\ X.left \in Nat /\ host.issued.num \in Nat
      /\ X.left > 0 => X.kind # NONE
      /\ X.kind # NONE => host.issued.num = 0
  BY <1>1, MovingIs
<1>5. NoCmd.num = 0 /\ NoXfer.left = 0
  BY NoCmdIs, NoXferIs
<1>6. SUFFICES ASSUME ~sd.ready
               PROVE  /\ host'.issued.num <= 1 /\ X'.left <= 1
                      /\ Scr /\ (host'.issued.num > 0 \/ X'.left > 0) => "read_rdy" \notin host'.int
  BY <1>2, <1>3 DEF ShortScr
<1>7. /\ host.issued.num <= 1 /\ X.left <= 1
      /\ Scr /\ (host.issued.num > 0 \/ X.left > 0) => "read_rdy" \notin host.int
  BY <1>1, <1>6 DEF ShortScr
<1>8. CASE HAnswer
  <2>1. CASE host.issued.num = 0
    BY <1>4, <1>5, <1>7, <1>8, <2>1 DEF HAnswer, X
  <2>2. CASE host.issued.num > 0
    BY <1>4, <1>5, <1>7, <1>8, <2>2 DEF HAnswer, X
  <2> QED BY <1>4, <2>1, <2>2
<1>9. CASE HRefuse
  BY <1>4, <1>5, <1>7, <1>9 DEF HRefuse, Reports, Errors, X
<1>10. CASE HFill \/ HProgram
  <2>1. host'.issued.num = 0 /\ X'.left = 0
    BY <1>4, <1>7, <1>10 DEF HFill, HProgram, X
  <2> QED BY <2>1
<1>11. CASE HAsk
  BY <1>4, <1>7, <1>11 DEF HAsk, X
<1>12. CASE HDone \/ HBreak
  <2>1. host'.issued.num = 0 /\ X'.left = 0
    BY <1>4, <1>5, <1>12 DEF HDone, HBreak, X
  <2> QED BY <2>1
<1> QED BY <1>2, <1>8, <1>9, <1>10, <1>11, <1>12 DEF HStep

LEMMA HwTargets ==
  ASSUME CInv, Hardware
  PROVE  Targets' /\ WritesStay'
<1>1. Types /\ Controller /\ Targets /\ WritesStay
  BY DEF CInv
<1>2. drv' = drv /\ sure' = sure /\ card'.hc = card.hc /\ HStep
  BY HwFrame
<1>3. /\ X.left \in Nat /\ X.block \in Nat /\ host.issued.num \in Nat
      /\ host.issued.num > 0 => host.issued.on \in Moving
  BY <1>1, MovingIs
<1>4. \A b : Target(b)' <=> Target(b)
  BY <1>2 DEF Target
<1>5. NoCmd.on # "write" /\ NoXfer.kind # "write"
  BY NoCmdIs, NoXferIs DEF NONE
<1>6. host'.issued.on = "write" =>
        \A b \in Nat : Addressed(host.issued)' <= b /\ b < Addressed(host.issued)' + host'.issued.num
                         => Target(b)'
  <2>1. host'.issued = host.issued \/ host'.issued = NoCmd
    BY <1>2 DEF HStep, HAnswer, HRefuse, HFill, HAsk, HProgram, HDone, HBreak
  <2>2. CASE host'.issued = host.issued
    <3>1. Addressed(host.issued)' = Addressed(host.issued)
      BY <1>2, <2>2 DEF Addressed
    <3> QED BY <1>1, <1>4, <2>2, <3>1 DEF Targets
  <2> QED BY <1>5, <2>1, <2>2
<1>7. drv'.op = "write" => \A b \in Nat : drv'.lba <= b /\ b < drv'.lba + drv'.num => Target(b)'
  BY <1>1, <1>2, <1>4 DEF Targets
<1>8. X'.kind = "write" => \A b \in Nat : X'.block <= b /\ b < X'.block + X'.left => Target(b)'
  <2>1. CASE HAnswer /\ host.issued.num > 0
    <3>1. X'.kind = host.issued.on /\ X'.left = host.issued.num /\ X'.block = Addressed(host.issued)
      BY <2>1 DEF HAnswer, X
    <3> QED BY <1>1, <1>4, <3>1 DEF Targets
  <2>2. CASE (HAnswer /\ host.issued.num = 0) \/ HRefuse \/ HAsk
    <3>1. X' = X
      BY <2>2 DEF HAnswer, HRefuse, HAsk, X
    <3> QED BY <1>1, <1>4, <3>1 DEF Targets
  <2>3. CASE HFill \/ HDone \/ HBreak
    <3>1. X'.kind # "write"
      BY <1>5, <2>3 DEF HFill, HDone, HBreak, X
    <3> QED BY <3>1
  <2>4. CASE HProgram
    <3>1. X'.block = X.block + 1 /\ X'.left = X.left - 1 /\ X.kind = "write"
      BY <2>4 DEF HProgram, X
    <3>2. \A b \in Nat : X'.block <= b /\ b < X'.block + X'.left => X.block <= b /\ b < X.block + X.left
      BY <1>3, <3>1
    <3> QED BY <1>1, <1>4, <3>1, <3>2 DEF Targets
  <2> QED BY <1>2, <1>3, <2>1, <2>2, <2>3, <2>4 DEF HStep
<1>9. WritesStay'
  <2>1. CASE ~HProgram
    <3>1. card' = card
      BY <1>2, <2>1 DEF HStep, HAnswer, HRefuse, HFill, HAsk, HDone, HBreak
    <3> QED BY <1>1, <1>2, <3>1 DEF WritesStay
  <2>2. CASE HProgram
    <3>1. PICK k \in Nat : k = X.block
      BY <1>3
    <3>2. Target(k)
      <4>1. k <= X.block /\ X.block <= k /\ k < X.block + X.left /\ X.kind = "write"
        BY <1>3, <2>2, <3>1 DEF HProgram
      <4> QED BY <1>1, <4>1 DEF Targets
    <3>3. k \in Blocks /\ sure[k] = NONE
      BY <3>2 DEF Target
    <3>4. k % BLOCKS = k
      BY <3>3, CardAssumption DEF Blocks
    <3>5. card'.block = [card.block EXCEPT ![k] = host.fifo]
      BY <2>2, <3>1, <3>4 DEF HProgram
    <3>6. DOMAIN sure = Blocks /\ card.block \in [Blocks -> Words \ {NONE}]
      BY <1>1 DEF Types, CardType
    <3>7. \A b \in Blocks : b # k => card'.block[b] = card.block[b]
      BY <3>5, <3>6
    <3> QED BY <1>1, <1>2, <3>3, <3>6, <3>7 DEF WritesStay
  <2> QED BY <2>1, <2>2
<1> QED BY <1>6, <1>7, <1>8, <1>9 DEF Targets

LEMMA HwClean ==
  ASSUME CInv, Hardware, ~late
  PROVE  Clean'
<1>1. Types /\ Controller /\ Clean /\ CallShape /\ InitShape /\ IdleEmpty /\ ReadStage
  BY DEF CInv
<1>2. drv' = drv /\ HStep /\ \A what : Doing(what)' <=> Doing(what)
  BY HwFrame
<1>3. /\ X.left \in Nat /\ host.issued.num \in Nat
      /\ X.left > 0 => X.kind # NONE
      /\ X.kind # NONE => host.issued.num = 0
  BY <1>1, MovingIs
<1>4. (Answering' <=> Answering) /\ Now' = Now
  BY <1>2 DEF Answering, Now
<1>5. NoXfer.left = 0
  BY NoXferIs
<1>6. CASE HAnswer
  <2>1. Answering /\ host.issued = Now /\ Pending = {} /\ X.left = 0
    BY <1>1, <1>6 DEF HAnswer, Clean
  <2>2. host'.issued = NoCmd /\ Pending' = {}
    BY <1>6, <2>1 DEF HAnswer, Pending, Errors
  <2>3. X'.left > 0 => Now.num > 0
    BY <1>3, <1>6, <2>1 DEF HAnswer, X
  <2> QED BY <1>4, <2>1, <2>2, <2>3 DEF Clean
<1>7. CASE HRefuse
  <2>1. Answering /\ X.left = 0
    BY <1>1, <1>7 DEF HRefuse, Clean
  <2>2. host'.issued = NoCmd /\ X' = X
    BY <1>7 DEF HRefuse, X
  <2> QED BY <1>4, <2>1, <2>2 DEF Clean
<1>8. CASE HFill \/ HAsk \/ HProgram
  <2>1. X.left > 0 /\ host'.issued = host.issued /\ Pending' = Pending
    BY <1>8 DEF HFill, HAsk, HProgram, Pending, Errors
  <2>2. host.issued = NoCmd /\ Pending = {}
    BY <1>1, <2>1 DEF Clean
  <2>3. Doing("int") \/ (Answering /\ Now.num > 0) \/ Doing("fetch") \/ Doing("store")
    BY <1>1, <2>1 DEF Clean
  <2> QED BY <1>2, <1>4, <2>1, <2>2, <2>3 DEF Clean
<1>9. CASE HDone
  <2>1. /\ X'.left = 0 /\ host'.issued = host.issued /\ Pending' = Pending
        /\ ("cmd_done" \in host'.int <=> "cmd_done" \in host.int)
    BY <1>5, <1>9 DEF HDone, X, Pending, Errors
  <2> QED BY <1>1, <1>2, <1>4, <2>1 DEF Clean
<1>10. CASE HBreak
  <2>1. X.left > 0 /\ X'.left = 0 /\ host'.issued = host.issued
    BY <1>5, <1>10 DEF HBreak, X
  <2>2. host.issued = NoCmd
    BY <1>1, <2>1 DEF Clean
  <2>3. Doing("int") \/ Answering \/ Doing("fetch") \/ Doing("store")
    BY <1>1, <2>1 DEF Clean
  <2>4. Doing("fetch") \/ Doing("store") => Len(drv.todo) > 1 /\ drv.todo[2].do = "int"
    <3>1. SUFFICES ASSUME Doing("fetch") \/ Doing("store")
                   PROVE  Len(drv.todo) > 1 /\ drv.todo[2].do = "int"
      OBVIOUS
    <3>2. drv.todo # <<>> /\ drv.todo \in Seq(Items) /\ (Now.do = "fetch" \/ Now.do = "store")
      BY <1>1, <3>1 DEF Doing, Types, DrvType
    <3>3. drv.op # "init"
      <4>1. SUFFICES ASSUME drv.op = "init" PROVE FALSE
        OBVIOUS
      <4>2. Listed(drv.todo)
        BY <1>1, <3>2, <4>1 DEF InitShape, Listed
      <4>3. Now.do \in {"cmd", "status", "poll", "int", "scr"}
        BY <3>2, <4>2, ListedNow DEF Now
      <4> QED BY <3>2, <4>3
    <3>4. InCall
      BY <1>1, <3>2, <3>3 DEF InCall, Types, DrvType, IdleEmpty
    <3>5. AtStep
      <4>1. AtWait \/ AtCount \/ AtData \/ AtReady \/ AtStep \/ AtDone \/ AtStop
        BY <1>1, <3>2, <3>4, CallPlaces
      <4> QED BY <3>2, <3>4, <4>1, NowAt
    <3>6. AfterStep
      BY <1>1, <3>2, <3>4, <3>5, SecondIs
    <3>7. \A flag : Await(flag).do = "int"
      BY DEF Await
    <3>8. CASE drv.op = "write"
      BY <3>6, <3>7, <3>8 DEF AfterStep, AfterReady
    <3>9. CASE drv.op = "read"
      <4>1. Place \in Int /\ drv.num \in Nat /\ Turns \in 0 .. drv.num
        BY <1>1, PlaceType, TurnsType
      <4>2. Place > 1 /\ Turns >= 1 /\ Place <= 2 * drv.num
        BY <3>5, <4>1 DEF AtStep
      <4>3. Begun /\ Doing("fetch")
        BY <3>2, <3>4, <3>5, <3>9, <4>1, <4>2, NowAt DEF Begun, Alive, Doing
      <4>4. ~NoData
        BY <1>3, <2>1 DEF NoData
      <4>5. Reading
        BY <1>1, <3>9, <4>1, <4>2, <4>3, <4>4 DEF ReadStage, Asked, Blocked, ReadEnded, Ruined
      <4>6. Turns > 1
        BY <1>3, <2>1, <4>1, <4>3, <4>5 DEF Reading
      <4> QED BY <3>6, <3>7, <4>6 DEF AfterStep, AfterReady
    <3> QED BY <3>4, <3>8, <3>9 DEF InCall
  <2> QED BY <1>2, <1>4, <2>1, <2>2, <2>3, <2>4 DEF Clean
<1> QED BY <1>2, <1>6, <1>7, <1>8, <1>9, <1>10 DEF HStep

(* Nothing moves: the command line may still answer, and that changes nothing. *)
LEMMA NothingMoves ==
  ASSUME Types, Controller, NoData, HStep
  PROVE  /\ HAnswer \/ HRefuse
         /\ NoData' /\ card' = card /\ host'.fifo = host.fifo
         /\ host.int \subseteq host'.int
         /\ \A f \in host'.int : f \in host.int \/ f \in Errors \/ f = "cmd_done"
<1>1. X.left = 0 /\ X.kind = NONE /\ host.issued.num = 0
  BY MovingIs
<1>2. HAnswer \/ HRefuse
  BY <1>1 DEF HStep, HFill, HAsk, HProgram, HDone, HBreak
<1>3. NoCmd.num = 0
  BY NoCmdIs
<1>4. NoData' /\ card' = card /\ host'.fifo = host.fifo
  BY <1>1, <1>2, <1>3 DEF HAnswer, HRefuse, NoData, X
<1> QED BY <1>2, <1>4 DEF HAnswer, HRefuse, Reports

(* The answer to another command leaves a transfer as it is. *)
LEMMA TransferGoesOn ==
  ASSUME Types, Controller, X.kind # NONE, HAnswer \/ HRefuse
  PROVE  /\ X' = X /\ card' = card /\ host'.fifo = host.fifo
         /\ ("write" \in host'.inhibit <=> "write" \in host.inhibit)
         /\ \A f \in {"read_rdy", "write_rdy", "data_done"} : f \in host'.int <=> f \in host.int
<1>1. host.issued.num = 0 /\ (host.issued # NoCmd => host.issued \in Commands)
  BY MovingIs
<1>2. CASE HAnswer
  BY <1>1, <1>2 DEF HAnswer, X
<1>3. CASE HRefuse
  <2>1. Lines(host.issued) = {"cmd"}
    BY <1>1, <1>3, CommandIs DEF HRefuse
  <2> QED BY <1>3, <2>1 DEF HRefuse, Reports, Errors, X
<1> QED BY <1>2, <1>3

(* At its data command a call neither fetches nor stores. *)
LEMMA NotYet ==
  ASSUME Types, CallShape, InCall, Place <= 1
  PROVE  ~Doing("fetch") /\ ~Doing("store")
<1>1. SUFFICES ASSUME Doing("fetch") \/ Doing("store") PROVE FALSE
  OBVIOUS
<1>2. drv.todo # <<>> /\ (Now.do = "fetch" \/ Now.do = "store")
  BY <1>1 DEF Doing
<1>3. AtStep
  <2>1. AtWait \/ AtCount \/ AtData \/ AtReady \/ AtStep \/ AtDone \/ AtStop
    BY <1>2, CallPlaces
  <2> QED BY <1>2, <2>1, NowAt
<1>4. Place \in Int /\ drv.num \in Nat
  BY PlaceType
<1> QED BY <1>3, <1>4 DEF AtStep

LEMMA HwWrites ==
  ASSUME CInv, Hardware
  PROVE  WriteStage'
<1>1. Types /\ Controller /\ CallShape /\ WriteStage /\ KnowsCard
  BY DEF CInv
<1>2. /\ drv' = drv /\ sd' = sd /\ HStep /\ Place' = Place /\ Turns' = Turns /\ DataCmd' = DataCmd
      /\ \A what : Doing(what)' <=> Doing(what)
  BY HwFrame
<1>3. SUFFICES ASSUME drv.op = "write", Begun
               PROVE  \/ Asked' \/ WriteEnded' \/ Writing(0)' \/ Writing(1)'
                      \/ Ruined' /\ Place <= 2 * drv.num + 1
  BY <1>2 DEF WriteStage, Begun, Alive
<1>4. /\ InCall /\ sd.ready /\ drv.num \in Nat /\ drv.num > 0 /\ drv.lba \in Nat
      /\ drv.lba + drv.num <= BLOCKS /\ Place \in Int /\ Turns \in 0 .. drv.num
  BY <1>1, <1>3, PlaceType, TurnsType DEF InCall, CallShape, Types, DrvType
<1>5. /\ X.left \in Nat /\ X.block \in Nat /\ host.issued.num \in Nat
      /\ X.left > 0 => X.kind # NONE
      /\ X.kind # NONE => host.issued.num = 0
      /\ X.kind = NONE => X.left = 0
  BY <1>1, MovingIs DEF Controller
<1>6. NoCmd.num = 0 /\ NoXfer.kind = NONE /\ NoXfer.left = 0
  BY NoCmdIs, NoXferIs
<1>7. CASE Asked
  <2>1. /\ Place = 0 /\ drv.phase = "answer" /\ host.issued = DataCmd /\ X.kind = NONE /\ X.left = 0
        /\ host.int = {} /\ "write" \notin host.inhibit
    BY <1>3, <1>5, <1>7 DEF Asked
  <2>2. HAnswer \/ HRefuse
    BY <1>2, <2>1 DEF HStep, HFill, HAsk, HProgram, HDone, HBreak
  <2>3. Addressed(DataCmd) = drv.lba /\ DataCmd.num = drv.num /\ DataCmd.on = "write"
    BY <1>1, <1>3, <1>4, AddressedData
  <2>4. CASE HAnswer
    <3>1. /\ X'.kind = "write" /\ X'.left = drv.num /\ X'.block = drv.lba
          /\ host'.int = {"cmd_done"} /\ host'.fifo = host.fifo
      BY <1>4, <2>1, <2>3, <2>4 DEF HAnswer, X
    <3>2. Turns = drv.num /\ ~Doing("store")
      BY <1>1, <1>4, <2>1, TurnsType, NotYet
    <3>3. Full' = Full /\ Full \in {0, 1}
      BY <3>1 DEF Full
    <3>4. Written(0)'
      BY <1>2, <1>4, CardAssumption DEF Written, Blocks
    <3>5. drv.num - drv.num = 0 /\ drv.lba + drv.num - drv.num = drv.lba
          /\ Place <= 2 * drv.num + 1 /\ drv.num <= drv.num
      BY <1>4, <2>1
    <3>6. CASE Full = 0
      <4>1. drv.num = Turns + 0 - 0
        BY <1>4, <3>2
      <4>2. Writing(0)'
        BY <1>2, <3>1, <3>2, <3>3, <3>4, <3>5, <3>6, <4>1 DEF Writing
      <4> QED BY <4>2
    <3>7. CASE Full = 1
      <4>1. drv.num = Turns + 1 - 1 /\ Turns >= 1
        BY <1>4, <3>2
      <4>2. Writing(1)'
        BY <1>2, <3>1, <3>2, <3>3, <3>5, <3>7, <4>1 DEF Writing
      <4> QED BY <4>2
    <3> QED BY <3>3, <3>6, <3>7
  <2>5. CASE HRefuse
    <3>1. Ruined'
      BY <1>6, <2>1, <2>5 DEF HRefuse, Reports, Ruined, NoData, X, Pending
    <3> QED BY <1>4, <2>1, <3>1
  <2> QED BY <2>2, <2>4, <2>5
<1>8. CASE WriteEnded
  <2>1. NoData' /\ card' = card /\ \A f \in host'.int : f \in host.int \/ f \in Errors \/ f = "cmd_done"
    BY <1>1, <1>2, <1>8, NothingMoves DEF WriteEnded
  <2>2. WriteEnded'
    BY <1>2, <1>8, <2>1 DEF WriteEnded, Written, Errors
  <2> QED BY <2>2
<1>9. CASE Ruined /\ Place <= 2 * drv.num + 1
  <2>1. NoData' /\ host.int \subseteq host'.int
    BY <1>1, <1>2, <1>9, NothingMoves DEF Ruined
  <2>2. Ruined'
    BY <1>9, <2>1 DEF Ruined, Pending
  <2> QED BY <1>9, <2>2
<1>10. ASSUME NEW s \in {0, 1}, Writing(s)
       PROVE  WriteEnded' \/ Writing(s)' \/ (Ruined' /\ Place <= 2 * drv.num + 1)
  <2>1. /\ X.kind = "write" /\ X.kind # NONE /\ Place <= 2 * drv.num + 1
        /\ "data_done" \notin host.int
        /\ X.left = Turns + Full - s /\ X.block = drv.lba + drv.num - X.left
        /\ X.left <= drv.num
        /\ s = 1 => Turns >= 1
        /\ "write_rdy" \in host.int \/ Doing("store") =>
             X.left > 0 /\ Full = 0 /\ "write" \in host.inhibit
        /\ "write_rdy" \in host.int => ~Doing("store")
        /\ s = 0 => (Full = 1 => host.fifo = drv.data) /\ Written(drv.num - X.left)
    BY <1>10 DEF Writing, NONE
  <2>2. CASE HAnswer \/ HRefuse
    <3>1. /\ X' = X /\ card' = card /\ host'.fifo = host.fifo
          /\ ("write" \in host'.inhibit <=> "write" \in host.inhibit)
          /\ \A f \in {"read_rdy", "write_rdy", "data_done"} : f \in host'.int <=> f \in host.int
      BY <1>1, <2>1, <2>2, TransferGoesOn
    <3>2. Full' = Full
      BY <3>1 DEF Full
    <3>3. Writing(s)'
      BY <1>2, <1>10, <3>1, <3>2 DEF Writing, Written
    <3> QED BY <3>3
  <2>3. CASE HFill
    BY <2>1, <2>3 DEF HFill
  <2>4. CASE HAsk
    <3>1. /\ X' = X /\ card' = card /\ host'.fifo = host.fifo /\ host.fifo = NONE /\ X.left > 0
          /\ "write" \in host'.inhibit /\ "write" \notin host.inhibit
          /\ host'.int = host.int \cup {"write_rdy"}
      BY <2>4 DEF HAsk, X
    <3>2. Full' = Full /\ Full = 0 /\ ~Doing("store")
      BY <2>1, <3>1 DEF Full
    <3>3. Writing(s)'
      BY <1>2, <1>10, <3>1, <3>2 DEF Writing, Written
    <3> QED BY <3>3
  <2>5. CASE HProgram
    <3>1. /\ X'.kind = "write" /\ X'.block = X.block + 1 /\ X'.left = X.left - 1 /\ X.left > 0
          /\ host'.int = host.int /\ host'.inhibit = host.inhibit /\ host.fifo # NONE /\ host'.fifo = NONE
          /\ card'.block = [card.block EXCEPT ![X.block % BLOCKS] = host.fifo]
      BY <2>1, <2>5 DEF HProgram, X
    <3>2. Full' = 0 /\ Full = 1 /\ "write_rdy" \notin host.int /\ ~Doing("store")
      BY <2>1, <3>1 DEF Full
    <3>3. X'.left = Turns + 0 - s /\ X'.block = drv.lba + drv.num - X'.left /\ X'.left <= drv.num
      BY <1>4, <1>5, <2>1, <3>1, <3>2
    <3>4. s = 0 => Written(drv.num - X.left)'
      <4>1. PICK n \in Nat, k \in Nat, left \in Nat :
                 n = drv.num - X.left /\ k = X.block /\ left = X.left /\ left > 0
        BY <1>4, <1>5, <2>1, <3>1
      <4>2. k = drv.lba + n /\ drv.num - X'.left = n + 1 /\ k < BLOCKS
        BY <1>4, <2>1, <3>1, <4>1, CardAssumption
      <4>3. k \in Blocks /\ k % BLOCKS = k
        BY <4>2, CardAssumption DEF Blocks
      <4>4. card'.block = [card.block EXCEPT ![k] = host.fifo] /\ DOMAIN card.block = Blocks
        BY <1>1, <3>1, <4>1, <4>3 DEF Types, CardType
      <4>5. SUFFICES ASSUME s = 0, NEW b \in Blocks, drv.lba <= b, b < drv.lba + (n + 1)
                     PROVE  card'.block[b] = drv.data
        BY <1>2, <4>2 DEF Written
      <4>6. b \in Int
        BY CardAssumption DEF Blocks
      <4>7. CASE b = k
        BY <2>1, <3>2, <4>3, <4>4, <4>5, <4>7
      <4>8. CASE b # k
        <5>1. b < drv.lba + n
          <6>1. PICK lba \in Nat, i \in Int : lba = drv.lba /\ i = b
            BY <1>4, <4>6
          <6>2. i < lba + (n + 1) /\ i # lba + n
            BY <4>2, <4>5, <4>8, <6>1
          <6>3. i < lba + n
            BY <6>2
          <6> QED BY <6>1, <6>3
        <5>2. card.block[b] = drv.data
          BY <2>1, <4>1, <4>5, <5>1 DEF Written
        <5> QED BY <4>4, <4>8, <5>2
      <4> QED BY <4>7, <4>8
    <3>5. Writing(s)'
      BY <1>2, <2>1, <3>1, <3>2, <3>3, <3>4 DEF Writing
    <3> QED BY <3>5
  <2>6. CASE HDone
    <3>1. /\ X.left = 0 /\ Full = 0 /\ card' = card
          /\ host'.int = host.int \cup {"data_done"}
      BY <2>6 DEF HDone, Full
    <3>2. NoData'
      BY <1>5, <1>6, <2>1, <2>6 DEF HDone, NoData, X
    <3>3. Turns = s
      BY <1>4, <2>1, <3>1
    <3>4. ~Doing("store") /\ "write_rdy" \notin host'.int
      BY <2>1, <3>1
    <3>5. CASE s = 1
      BY <1>2, <3>2, <3>3, <3>4, <3>5 DEF WriteEnded
    <3>6. CASE s = 0
      <4>1. Place > 2 * drv.num
        BY <1>1, <1>4, <3>3, <3>6, TurnsType
      <4>2. drv.num - X.left = drv.num
        BY <1>4, <3>1
      <4>3. Written(drv.num)'
        BY <1>2, <2>1, <3>1, <3>6, <4>2 DEF Written
      <4> QED BY <1>2, <3>2, <3>3, <3>6, <4>1, <4>3 DEF WriteEnded
    <3> QED BY <3>5, <3>6
  <2>7. CASE HBreak
    <3>1. Ruined'
      BY <1>5, <1>6, <2>1, <2>7 DEF HBreak, Reports, Ruined, NoData, X, Pending
    <3> QED BY <2>1, <3>1
  <2> QED BY <1>2, <2>2, <2>3, <2>4, <2>5, <2>6, <2>7 DEF HStep
<1>11. Asked \/ WriteEnded \/ Writing(0) \/ Writing(1) \/ (Ruined /\ Place <= 2 * drv.num + 1)
  BY <1>1, <1>3 DEF WriteStage
<1> QED BY <1>7, <1>8, <1>9, <1>10, <1>11

LEMMA HwReads ==
  ASSUME CInv, Hardware
  PROVE  ReadStage'
<1>1. Types /\ Controller /\ CallShape /\ ReadStage /\ KnowsCard
  BY DEF CInv
<1>2. /\ drv' = drv /\ sd' = sd /\ HStep /\ Place' = Place /\ Turns' = Turns /\ DataCmd' = DataCmd
      /\ \A what : Doing(what)' <=> Doing(what)
  BY HwFrame
<1>3. SUFFICES ASSUME drv.op = "read", Begun
               PROVE  \/ Blocked' \/ Reading' \/ ReadEnded'
                      \/ Ruined' /\ Turns >= 1 /\ (Doing("fetch") => Turns >= 2)
  BY <1>1, <1>2 DEF ReadStage, Begun, Alive
<1>4. /\ InCall /\ sd.ready /\ drv.num \in Nat /\ drv.num > 0 /\ drv.lba \in Nat
      /\ drv.lba + drv.num <= BLOCKS /\ Place \in Int /\ Turns \in 0 .. drv.num
  BY <1>1, <1>3, PlaceType, TurnsType DEF InCall, CallShape, Types, DrvType
<1>5. /\ X.left \in Nat /\ X.block \in Nat /\ host.issued.num \in Nat
      /\ X.left > 0 => X.kind # NONE
      /\ X.kind # NONE => host.issued.num = 0
      /\ X.kind = NONE => X.left = 0
  BY <1>1, MovingIs DEF Controller
<1>6. NoCmd.num = 0 /\ NoXfer.kind = NONE /\ NoXfer.left = 0
  BY NoCmdIs, NoXferIs
<1>7. card' = card => \A n : Fetched(n)' <=> Fetched(n)
  BY <1>2 DEF Fetched
<1>8. CASE Asked /\ drv.buf = <<>>
  <2>1. /\ Place = 0 /\ drv.phase = "answer" /\ host.issued = DataCmd /\ X.kind = NONE /\ X.left = 0
        /\ host.int = {}
    BY <1>3, <1>5, <1>8 DEF Asked
  <2>2. HAnswer \/ HRefuse
    BY <1>2, <2>1 DEF HStep, HFill, HAsk, HProgram, HDone, HBreak
  <2>3. Addressed(DataCmd) = drv.lba /\ DataCmd.num = drv.num /\ DataCmd.on = "read"
    BY <1>1, <1>3, <1>4, AddressedData
  <2>4. Turns = drv.num /\ ~Doing("fetch") /\ Turns >= 1 /\ Place <= 1
    <3>1. Place <= 1 /\ Place <= 0
      BY <2>1
    <3>2. Turns = drv.num /\ ~Doing("fetch")
      BY <1>1, <1>4, <3>1, TurnsType, NotYet
    <3> QED BY <1>4, <3>1, <3>2
  <2>5. CASE HAnswer
    <3>1. /\ X'.kind = "read" /\ X'.left = drv.num /\ X'.block = drv.lba
          /\ host'.int = {"cmd_done"} /\ host'.fifo = host.fifo
      BY <1>4, <2>1, <2>3, <2>5 DEF HAnswer, X
    <3>2. Full' = Full /\ Full \in {0, 1}
      BY <3>1 DEF Full
    <3>3. CASE Full = 0
      <4>1. Fetched(0)'
        BY <1>2, <1>8 DEF Fetched
      <4>2. /\ drv.num - Turns = 0 /\ drv.num = Turns - 0 /\ drv.lba = drv.lba + drv.num - drv.num
        BY <1>4, <2>4
      <4>3. Reading'
        BY <1>2, <2>4, <3>1, <3>2, <3>3, <4>1, <4>2 DEF Reading
      <4> QED BY <4>3
    <3>4. CASE Full = 1
      <4>1. Blocked'
        BY <1>2, <2>4, <3>1, <3>2, <3>4 DEF Blocked
      <4> QED BY <4>1
    <3> QED BY <3>2, <3>3, <3>4
  <2>6. CASE HRefuse
    <3>1. Ruined'
      BY <1>6, <2>1, <2>6 DEF HRefuse, Reports, Ruined, NoData, X, Pending
    <3> QED BY <2>4, <3>1
  <2> QED BY <2>2, <2>5, <2>6
<1>9. CASE ReadEnded
  <2>1. NoData' /\ card' = card
    BY <1>1, <1>2, <1>9, NothingMoves DEF ReadEnded
  <2>2. ReadEnded'
    BY <1>2, <1>7, <1>9, <2>1 DEF ReadEnded
  <2> QED BY <2>2
<1>10. CASE Ruined /\ Turns >= 1 /\ (Doing("fetch") => Turns >= 2)
  <2>1. NoData' /\ host.int \subseteq host'.int
    BY <1>1, <1>2, <1>10, NothingMoves DEF Ruined
  <2>2. Ruined'
    BY <1>10, <2>1 DEF Ruined, Pending
  <2> QED BY <1>10, <2>2
<1>11. CASE Blocked
  <2>1. X.kind = "read" /\ Place <= 1 /\ Full = 1 /\ X.left = drv.num /\ "read_rdy" \notin host.int
    BY <1>11 DEF Blocked
  <2>2. X.kind # NONE /\ host.fifo # NONE /\ X.left # 0
    BY <1>4, <2>1 DEF NONE, Full
  <2>3. CASE HAnswer \/ HRefuse
    <3>1. X' = X /\ host'.fifo = host.fifo /\ "read_rdy" \notin host'.int
      BY <1>1, <2>1, <2>2, <2>3, TransferGoesOn
    <3>2. Full' = Full
      BY <3>1 DEF Full
    <3>3. Blocked'
      BY <1>2, <2>1, <3>1, <3>2 DEF Blocked
    <3> QED BY <3>3
  <2>4. CASE HFill \/ HAsk \/ HProgram \/ HDone
    BY <2>1, <2>2, <2>4 DEF HFill, HAsk, HProgram, HDone
  <2>5. CASE HBreak
    <3>1. Ruined'
      BY <1>5, <1>6, <2>2, <2>5 DEF HBreak, Reports, Ruined, NoData, X, Pending
    <3>2. ~Doing("fetch")
      BY <1>1, <1>4, <2>1, NotYet
    <3>3. Turns >= 1
      <4>1. Place <= 0 \/ Place \in 1 .. 2 * drv.num
        BY <1>4, <2>1
      <4>2. Turns = drv.num \/ Turns \in 1 .. drv.num
        BY <1>1, <4>1, TurnsType
      <4> QED BY <1>4, <4>2
    <3> QED BY <3>1, <3>2, <3>3
  <2> QED BY <1>2, <2>3, <2>4, <2>5 DEF HStep
<1>12. CASE Reading
  <2>1. /\ X.kind = "read" /\ X.kind # NONE /\ Full \in {0, 1}
        /\ X.left = Turns - Full /\ X.block = drv.lba + drv.num - X.left
        /\ Fetched(drv.num - Turns)
        /\ Full = 1 => host.fifo = card.block[X.block - 1]
        /\ "read_rdy" \in host.int => Full = 1 /\ ~Doing("fetch")
        /\ Doing("fetch") => Full = 1
    BY <1>12 DEF Reading, NONE, Full
  <2>2. CASE HAnswer \/ HRefuse
    <3>1. /\ X' = X /\ card' = card /\ host'.fifo = host.fifo
          /\ ("read_rdy" \in host'.int <=> "read_rdy" \in host.int)
      BY <1>1, <2>1, <2>2, TransferGoesOn
    <3>2. Full' = Full
      BY <3>1 DEF Full
    <3>3. Reading'
      BY <1>2, <1>7, <2>1, <3>1, <3>2 DEF Reading
    <3> QED BY <3>3
  <2>3. CASE HFill
    <3>1. /\ X'.kind = "read" /\ X'.block = X.block + 1 /\ X'.left = X.left - 1 /\ X.left > 0
          /\ host'.fifo = card.block[X.block % BLOCKS] /\ card' = card /\ host.fifo = NONE
      BY <2>1, <2>3 DEF HFill, X
    <3>2. Full = 0
      BY <3>1 DEF Full
    <3>3. X.block \in Blocks /\ X.block % BLOCKS = X.block
      <4>1. PICK k \in Nat : k = X.block
        BY <1>5
      <4>2. k < BLOCKS
        BY <1>4, <1>5, <2>1, <3>1, <4>1, CardAssumption
      <4>3. k \in Blocks /\ k % BLOCKS = k
        BY <4>2, CardAssumption DEF Blocks
      <4> QED BY <4>1, <4>3
    <3>4. card.block[X.block] # NONE
      BY <1>1, <3>3 DEF Types, CardType
    <3>5. Full' = 1
      BY <3>1, <3>3, <3>4 DEF Full
    <3>6. /\ X'.left = Turns - 1 /\ X'.block = drv.lba + drv.num - X'.left /\ X'.block - 1 = X.block
      BY <1>4, <1>5, <2>1, <3>1, <3>2
    <3>7. ~Doing("fetch")
      BY <2>1, <3>2
    <3>8. Reading'
      BY <1>2, <1>7, <2>1, <3>1, <3>3, <3>5, <3>6, <3>7 DEF Reading
    <3> QED BY <3>8
  <2>4. CASE HAsk \/ HProgram
    BY <2>1, <2>4 DEF HAsk, HProgram
  <2>5. CASE HDone
    <3>1. X.left = 0 /\ Full = 0 /\ card' = card
      BY <2>5 DEF HDone, Full
    <3>2. NoData'
      BY <1>5, <1>6, <2>1, <2>5 DEF HDone, NoData, X
    <3>3. Turns = 0 /\ drv.num - Turns = drv.num
      BY <1>4, <2>1, <3>1
    <3>4. Place > 2 * drv.num
      BY <1>1, <1>4, <3>3, TurnsType
    <3>5. ReadEnded'
      BY <1>2, <1>7, <2>1, <3>1, <3>2, <3>3, <3>4 DEF ReadEnded
    <3> QED BY <3>5
  <2>6. CASE HBreak
    <3>1. Ruined'
      BY <1>5, <1>6, <2>1, <2>6 DEF HBreak, Reports, Ruined, NoData, X, Pending
    <3>2. X.left > 0
      BY <2>6 DEF HBreak
    <3>3. Turns >= 1 /\ (Full = 1 => Turns >= 2)
      BY <1>4, <1>5, <2>1, <3>2
    <3> QED BY <2>1, <3>1, <3>3
  <2> QED BY <1>2, <2>2, <2>3, <2>4, <2>5, <2>6 DEF HStep
<1>13. \/ Asked /\ drv.buf = <<>>
       \/ Blocked \/ Reading \/ ReadEnded
       \/ Ruined /\ Turns >= 1 /\ (Doing("fetch") => Turns >= 2)
  BY <1>1, <1>3 DEF ReadStage
<1> QED BY <1>8, <1>9, <1>10, <1>11, <1>12, <1>13

LEMMA HardwareKeeps ==
  ASSUME CInv, Hardware
  PROVE  CInv'
<1>1. late' = late
  BY HwFrame
<1>2. ~late' => Clean'
  BY <1>1, HwClean
<1> QED BY <1>2, HwFrame, HwController, HwShort, HwTargets, HwWrites, HwReads DEF CInv

----------------------------------------------------------------------------
(* The theorems *)

LEMMA InitCInv ==
  ASSUME Init
  PROVE  CInv
<1>1. PICK hc \in BOOLEAN, blkcnt \in BOOLEAN, block \in [0 .. BLOCKS - 1 -> VALUES] :
         card = [hc |-> hc, blkcnt |-> blkcnt, block |-> block]
  BY DEF Init
<1>2. /\ drv.op = NONE /\ drv.todo = <<>> /\ drv.phase = "start" /\ DrvType
  BY NoCallIs DEF Init
<1>3. /\ host.inhibit = {} /\ host.int = {} /\ host.fifo = NONE /\ host.issued = NoCmd
      /\ host.xfer = NoXfer /\ HostType
  <2>1. host = [inhibit |-> {}, int |-> {}, fifo |-> NONE, issued |-> NoCmd, xfer |-> NoXfer]
    BY DEF Init
  <2>2. NONE \in Words /\ NoCmd \in Commands \cup {NoCmd}
    BY DEF Words
  <2> QED BY <2>1, <2>2, NoXferIs DEF HostType
<1>4. CardType /\ card.block = block
  <2>1. block \in [Blocks -> Words \ {NONE}]
    BY <1>1, CardAssumption DEF Blocks, Words
  <2> QED BY <1>1, <2>1 DEF CardType
<1>5. SdType /\ ~sd.ready
  BY DEF Init, SdType
<1>6. sure = [b \in Blocks |-> card.block[b]] /\ late = FALSE /\ faults = 0
  BY DEF Init, Blocks
<1>7. sure \in [Blocks -> Words] /\ WritesStay
  BY <1>4, <1>6 DEF CardType, WritesStay
<1>8. Types
  BY <1>2, <1>3, <1>4, <1>5, <1>6, <1>7 DEF Types
<1>9. NoCmd.num = 0 /\ NoCmd.on # "write" /\ NoXfer.kind = NONE /\ NoXfer.left = 0
  BY NoCmdIs, NoXferIs
<1>10. CallShape /\ InitShape /\ PhaseShape /\ KnowsCard /\ IdleEmpty /\ Waited /\ WriteStage /\ ReadStage
  BY <1>2, <1>5 DEF CallShape, InCall, InitShape, PhaseShape, KnowsCard, IdleEmpty, Waited, WriteStage,
                    ReadStage, NONE
<1>11. Controller
  BY <1>3, <1>9 DEF Controller, NoData, X
<1>12. Targets
  BY <1>2, <1>3, <1>9 DEF Targets, X, NONE
<1>13. ShortScr
  BY <1>3, <1>9 DEF ShortScr, X
<1>14. Clean
  BY <1>3, <1>9 DEF Clean, X, Pending
<1> QED BY <1>7, <1>8, <1>10, <1>11, <1>12, <1>13, <1>14 DEF CInv

LEMMA StutterCInv ==
  ASSUME CInv, UNCHANGED vars
  PROVE  CInv'
<1>1. /\ host' = host /\ card' = card /\ drv' = drv /\ sd' = sd /\ sure' = sure /\ late' = late
      /\ faults' = faults
  BY DEF vars
<1>2. /\ Types /\ CallShape /\ InitShape /\ PhaseShape /\ KnowsCard /\ IdleEmpty
      /\ Controller /\ Waited /\ Targets /\ WriteStage /\ ReadStage /\ WritesStay
      /\ ShortScr /\ (~late => Clean)
  BY DEF CInv
<1>3. Keeps /\ sd'.blkcnt = sd.blkcnt /\ drv'.todo = drv.todo
  BY <1>1 DEF Keeps
<1>4. Lead' = Lead /\ DataCmd' = DataCmd
  BY <1>3, SamePlaces
<1>5. CallShape' /\ Place' = Place /\ Turns' = Turns
  BY <1>2, <1>3, ShapeStays
<1>6. Types'
  BY <1>1, <1>2 DEF Types, HostType, CardType, DrvType, SdType
<1>7. InitShape' /\ PhaseShape' /\ KnowsCard' /\ IdleEmpty' /\ WritesStay' /\ Controller'
  BY <1>1, <1>2 DEF InitShape, PhaseShape, KnowsCard, IdleEmpty, Now, WritesStay, Controller, NoData, X
<1>8. Waited' /\ ShortScr'
  BY <1>1, <1>2, <1>4, <1>5 DEF Waited, NoData, X, InCall, ShortScr, Scr
<1>9. Targets'
  BY <1>1, <1>2 DEF Targets, X, Target, Addressed
<1>10. Clean' <=> Clean
  BY <1>1 DEF Clean, X, Pending, Answering, Doing, Now
<1>11. /\ (Begun' <=> Begun) /\ (Alive' <=> Alive) /\ X' = X /\ Full' = Full /\ (NoData' <=> NoData)
       /\ (Asked' <=> Asked) /\ (Ruined' <=> Ruined) /\ \A what : Doing(what)' <=> Doing(what)
  BY <1>1, <1>4, <1>5 DEF Begun, Alive, X, Full, NoData, Asked, Ruined, Pending, Doing, Now
<1>12. /\ \A n : Written(n)' <=> Written(n)
       /\ \A n : Fetched(n)' <=> Fetched(n)
  BY <1>1 DEF Written, Fetched
<1>13. WriteStage'
  <2>1. WriteEnded' <=> WriteEnded
    BY <1>1, <1>5, <1>11, <1>12 DEF WriteEnded
  <2>2. ASSUME NEW s PROVE Writing(s)' <=> Writing(s)
    BY <1>1, <1>5, <1>11, <1>12 DEF Writing
  <2> QED BY <1>1, <1>2, <1>5, <1>11, <2>1, <2>2 DEF WriteStage
<1>14. ReadStage'
  BY <1>1, <1>2, <1>5, <1>11, <1>12 DEF ReadStage, Blocked, Reading, ReadEnded
<1> QED BY <1>1, <1>2, <1>5, <1>6, <1>7, <1>8, <1>9, <1>10, <1>13, <1>14 DEF CInv

LEMMA NextCInv ==
  ASSUME CInv, [Next]_vars
  PROVE  CInv'
<1>1. CASE sd_init
  BY <1>1, SdInitKeeps
<1>2. ASSUME NEW lba \in 0 .. BLOCKS - 1, NEW num \in 1 .. MAX_NUM, lba + num <= BLOCKS, num > 1 => sd.ccs,
             sd_readblock(lba, num) \/ \E data \in VALUES : sd_writeblock(lba, num, data)
      PROVE  CInv'
  BY <1>2, ReadKeeps, WriteKeeps
<1>3. CASE Driver
  <2>1. card' = card /\ faults' = faults /\ (Finish \/ (DriverStep /\ sure' = sure))
    BY <1>3 DEF Driver, DriverStep
  <2>2. CASE Finish
    BY <2>1, <2>2, FinishKeeps
  <2>3. CASE DriverStep /\ sure' = sure
    <3>1. drv.todo # <<>>
      BY <2>3, DriverMoves DEF CInv
    <3>2. drv.op = "init" \/ InCall
      BY <3>1 DEF CInv, Types, DrvType, IdleEmpty, InCall
    <3>3. CASE InCall
      BY <2>1, <2>3, <3>3, CallKeeps DEF CallStep
    <3>4. CASE drv.op = "init"
      BY <2>1, <2>3, <3>4, InitKeeps DEF InitStep
    <3> QED BY <3>2, <3>3, <3>4
  <2> QED BY <2>1, <2>2, <2>3
<1>4. CASE Hardware
  BY <1>4, HardwareKeeps
<1>5. CASE UNCHANGED vars
  BY <1>5, StutterCInv
<1> QED BY <1>1, <1>2, <1>3, <1>4, <1>5 DEF Next

(* The inductive invariant: where a call stands, what the controller owes it, and
   what is in the FIFO and on the card agree in every state. *)
THEOREM AlwaysCInv == Spec => []CInv
<1>1. Init => CInv
  BY InitCInv
<1>2. CInv /\ [Next]_vars => CInv'
  BY NextCInv
<1> QED BY <1>1, <1>2, PTL DEF Spec

LEMMA ReadDone ==
  ASSUME CInv
  PROVE  ReadsRight
<1>1. SUFFICES ASSUME drv.op = "read", drv.todo = <<>>, sd.err = "ok"
               PROVE  drv.buf = [c \in 1 .. drv.num |-> card.block[drv.lba + c - 1]]
  BY DEF ReadsRight
<1>2. Types /\ Controller /\ CallShape /\ ReadStage
  BY DEF CInv
<1>3. /\ Place \in Int /\ drv.num \in Nat /\ Ends \in Nat /\ Ends >= 2 * drv.num /\ Len(drv.todo) = 0
      /\ Turns \in 0 .. drv.num /\ drv.num > 0
  BY <1>1, <1>2, PlaceType, TurnsType DEF CallShape, InCall
<1>4. Place > 2 * drv.num /\ Place > 1
  BY <1>3 DEF Place
<1>5. Begun /\ Turns = 0
  BY <1>1, <1>2, <1>3, <1>4, TurnsType DEF Begun, Alive
<1>6. Reading \/ ReadEnded
  BY <1>1, <1>2, <1>3, <1>4, <1>5 DEF ReadStage, Asked, Blocked
<1>7. drv.num - Turns = drv.num
  BY <1>3, <1>5
<1>8. Fetched(drv.num)
  BY <1>6, <1>7 DEF Reading, ReadEnded
<1>9. PICK buf \in Seq(Words), n \in Nat : buf = drv.buf /\ n = drv.num
  BY <1>2, <1>3 DEF Types, DrvType
<1>10. Len(buf) = n /\ \A c \in 1 .. n : buf[c] = card.block[drv.lba + c - 1]
  BY <1>8, <1>9 DEF Fetched
<1> QED BY <1>9, <1>10

LEMMA IdleDone ==
  ASSUME CInv
  PROVE  CleanBetweenCalls
<1>1. SUFFICES ASSUME drv.op = NONE, ~late
               PROVE  Pending = {} /\ "cmd" \notin host.inhibit
  BY DEF CleanBetweenCalls, Pending
<1>2. Types /\ Controller /\ Clean /\ drv.todo = <<>>
  BY <1>1 DEF CInv, IdleEmpty
<1>3. host.issued = NoCmd /\ Pending = {}
  BY <1>2, QuietIs DEF Answering, Doing
<1> QED BY <1>2, <1>3 DEF Controller

(* A read that sd_readblock reports as successful has the blocks it was asked for
   in its buffer, whatever the controller answered late or with an error: a block
   that an earlier call left in the FIFO is never taken for one of them. *)
THEOREM ReadsReturnBlocks == Spec => []ReadsRight
<1>1. CInv => ReadsRight
  BY ReadDone
<1> QED BY <1>1, AlwaysCInv, PTL

(* What sd_writeblock reported as written is on the card until the block is
   written again: no transfer that an earlier call gave up reaches it. *)
THEOREM WritesKept == Spec => []WritesStay
<1>1. CInv => WritesStay
  BY DEF CInv
<1> QED BY <1>1, AlwaysCInv, PTL

(* A call in which no wait ran out leaves no error flag in INTERRUPT and the
   command line free, whatever errors it met. *)
THEOREM CleanCalls == Spec => []CleanBetweenCalls
<1>1. CInv => CleanBetweenCalls
  BY IdleDone
<1> QED BY <1>1, AlwaysCInv, PTL

=============================================================================
