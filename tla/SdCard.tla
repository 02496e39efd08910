------------------------------- MODULE SdCard -------------------------------
(***************************************************************************)
(* The EMMC driver, drivers/sd/sd.c: initialisation of the card, block     *)
(* reads and block writes.  Every function of the driver is a fixed list   *)
(* of waits, commands and transfers that ends at the first failure, so a   *)
(* call is modelled by the list of what it has still to do.  A wait polls  *)
(* a register with a countdown; the host controller and the card answer    *)
(* when they like: in time, with an error, after the driver has given up,  *)
(* or never.  They are external, and modelled from how the driver uses     *)
(* their registers and from the controller's rule that DAT_INHIBIT stays   *)
(* set until a transfer has ended and its data has been taken.             *)
(***************************************************************************)
EXTENDS Integers, Sequences

CONSTANTS
  BLOCKS,      \* number of blocks of the card
  BLOCK_SIZE,  \* 512
  MAX_NUM,     \* blocks of one call
  VALUES,      \* contents of a block
  COUNTDOWN,   \* turns of a wait: 500000, 1000000, 100000 or 10000
  TRIES,       \* attempts of enable_card, 6
  MAX_FAULTS   \* bound: errors the hardware reports

NONE == "none"

ASSUME CardAssumption ==
  /\ NONE \notin VALUES
  /\ BLOCKS \in Nat \ {0} /\ BLOCK_SIZE \in Nat \ {0} /\ MAX_NUM \in Nat \ {0}
  /\ COUNTDOWN \in Nat \ {0} /\ TRIES \in Nat \ {0} /\ MAX_FAULTS \in Nat

VARIABLES
  host,   \* the controller: inhibit bits, INTERRUPT, the data FIFO, the transfer
  card,   \* the card: its blocks, and what kind of card it is
  drv,    \* the call in progress
  sd,     \* sd_err, sd_rca and the flags in sd_scr
  sure,   \* history: block -> content of the last write that succeeded
  late,   \* history: some wait ran out of turns
  faults  \* errors reported so far

vars == <<host, card, drv, sd, sure, late, faults>>

Errors == {"timeout", "error"}            \* INT_ERROR_MASK

(* What a call has to do, and a command with its argument and block count *)
Wait(mask) == [do |-> "status", on |-> mask]
Await(flag) == [do |-> "int", on |-> flag]
Poll(what) == [do |-> "poll", on |-> what]
Cmd(code, arg, num) == [do |-> "cmd", on |-> code, arg |-> arg, num |-> num]
(* the lines a command keeps busy *)
Lines(c) == IF c.num > 0 THEN {"cmd", "dat"} ELSE {"cmd"}
NoCmd == Cmd(NONE, 0, 0)
Fetch == [do |-> "fetch"]
Store == [do |-> "store"]
ReadScr == [do |-> "scr"]

(* sd_execute_command sends an APP command first for these; while the card has
   no address (rca = 0) it goes on when that fails. *)
App(code) == <<Cmd(IF sd.rca = 0 THEN "app0" ELSE "app", 0, 0), Cmd(code, 0, 0)>>
NeedApp == {"op_cond", "scr", "bus_width"}
(* Commands whose callers go on when they fail, or look at sd_err later *)
Unchecked == {"app0", "op_cond", "cid", "stop"}

NoXfer == [kind |-> NONE, block |-> 0, left |-> 0]
NoCall == [op |-> NONE, lba |-> 0, num |-> 0, data |-> NONE, todo |-> <<>>,
           phase |-> "start", cnt |-> COUNTDOWN, tries |-> 0, ccs |-> FALSE, buf |-> <<>>]

Init ==
  /\ host = [inhibit |-> {}, int |-> {}, fifo |-> NONE, issued |-> NoCmd, xfer |-> NoXfer]
  /\ \E hc, blkcnt \in BOOLEAN, block \in [0 .. BLOCKS - 1 -> VALUES] :
       card = [hc |-> hc, blkcnt |-> blkcnt, block |-> block]
  /\ drv = NoCall
  /\ sd = [ready |-> FALSE, err |-> "ok", rca |-> 0, ccs |-> FALSE, blkcnt |-> FALSE]
  /\ sure = [b \in 0 .. BLOCKS - 1 |-> card.block[b]]
  /\ late = FALSE
  /\ faults = 0

-----------------------------------------------------------------------------
(* The calls, as lists *)

InitList ==
  <<Poll("reset"), Wait("clock"), Poll("clock"), Cmd("go_idle", 0, 0), Cmd("if_cond", 0, 0)>>
  \o App("op_cond")

(* after enable_card *)
InitRest ==
  <<Cmd("cid", 0, 0), Cmd("rel_addr", 0, 0), Wait("clock"), Poll("clock"),
    Cmd("select", 0, 0), Wait("dat"), Cmd("app", 0, 0), Cmd("scr", 0, 1), Await("read_rdy"), ReadScr>>

(* Block by block, with a command for each unless the card takes block numbers *)
Move(code, flag, step, lba, num) ==
  IF sd.ccs
  THEN (IF num > 1 /\ sd.blkcnt THEN <<Cmd("blockcnt", num, 0)>> ELSE <<>>)
       \o <<Cmd(code, lba, num)>>
       \o [k \in 1 .. 2 * num |-> IF k % 2 = 1 THEN Await(flag) ELSE step]
  ELSE [k \in 1 .. 3 * num |->
          CASE k % 3 = 1 -> Cmd(code, (lba + k \div 3) * BLOCK_SIZE, 1)
            [] k % 3 = 2 -> Await(flag)
            [] OTHER -> step]

Stop(num) == IF num > 1 /\ ~sd.blkcnt /\ sd.ccs THEN <<Cmd("stop", 0, 0)>> ELSE <<>>

ReadListNoWait(lba, num) == Move("read", "read_rdy", Fetch, lba, num) \o Stop(num)

ReadList(lba, num) ==
  <<Wait("dat")>> \o Move("read", "read_rdy", Fetch, lba, num) \o Stop(num)

WriteList(lba, num) ==
  <<Wait("write")>> \o Move("write", "write_rdy", Store, lba, num)
  \o <<Await("data_done")>> \o Stop(num)

Call(op, lba, num, data, todo) ==
  drv' = [NoCall EXCEPT !.op = op, !.lba = lba, !.num = num, !.data = data, !.todo = todo,
                        !.tries = TRIES - 1]

sd_init ==
  /\ drv.op = NONE /\ ~sd.ready
  /\ Call("init", 0, 0, NONE, InitList)
  /\ sd' = [ready |-> FALSE, err |-> "ok", rca |-> 0, ccs |-> FALSE, blkcnt |-> FALSE]
  /\ UNCHANGED <<host, card, sure, late, faults>>

sd_readblock(lba, num) ==
  /\ drv.op = NONE /\ sd.ready
  /\ Call("read", lba, num, NONE, ReadList(lba, num))
  /\ UNCHANGED <<host, card, sd, sure, late, faults>>

(* From here on the blocks hold the old content or the new one. *)
sd_writeblock(lba, num, data) ==
  /\ drv.op = NONE /\ sd.ready
  /\ Call("write", lba, num, data, WriteList(lba, num))
  /\ sure' = [b \in DOMAIN sure |-> IF b \in lba .. lba + num - 1 THEN NONE ELSE sure[b]]
  /\ UNCHANGED <<host, card, sd, late, faults>>

-----------------------------------------------------------------------------
(* Steps of the driver *)

Now == drv.todo[1]
Doing(what) == drv.todo # <<>> /\ Now.do = what
Done(d) == [d EXCEPT !.todo = Tail(@), !.phase = "start", !.cnt = COUNTDOWN]

(* A failure ends the call, except in a command whose caller goes on.  Whatever
   an APP command fails of, the command that needed it reports an error. *)
Failed(err) ==
  /\ sd' = [sd EXCEPT !.err = IF Now.do = "cmd" /\ Now.on = "app" THEN "error" ELSE err]
  /\ drv' = IF Now.do = "cmd" /\ Now.on \in Unchecked
            THEN IF Now.on = "op_cond" THEN [drv EXCEPT !.phase = "no_answer"] ELSE Done(drv)
            ELSE [drv EXCEPT !.todo = <<>>]

CountdownStuck(busy, Ready, Expired) ==
  IF busy THEN UNCHANGED <<drv, host, sd, late>> ELSE Ready /\ UNCHANGED late

(* while (busy && cnt--) wait_msec(1): one turn of it.  What is ready in the
   very last turn counts as late. *)
Countdown(busy, Ready, Expired) ==
  IF busy /\ drv.cnt > 0
  THEN drv' = [drv EXCEPT !.cnt = @ - 1] /\ UNCHANGED <<host, sd, late>>
  ELSE IF drv.cnt = 0
  THEN Expired /\ late' = TRUE
  ELSE Ready /\ UNCHANGED late

Pending == host.int \cap Errors
Mask == [dat |-> {"dat"}, write |-> {"dat", "write"}, cmd |-> {"cmd"}]

(* sd_status; when it fails, its callers set sd_err to SD_TIMEOUT *)
sd_status(mask, next) ==
  Countdown(Mask[mask] \cap host.inhibit # {} /\ Pending = {},
            IF Pending # {} THEN Failed("timeout") /\ UNCHANGED host
            ELSE drv' = next /\ UNCHANGED <<host, sd>>,
            Failed("timeout") /\ UNCHANGED host)

SdIntKeepsErrors(flag, Go) ==
  Countdown(host.int \cap ({flag} \cup Errors) = {},
            IF Pending # {} THEN Failed("error") /\ UNCHANGED host
            ELSE host' = [host EXCEPT !.int = @ \ {flag}] /\ Go,
            Failed("timeout") /\ UNCHANGED host)

(* sd_int: on success it clears the flag it waited for, else all it has read *)
sd_int(flag, Go) ==
  LET clear == host' = [host EXCEPT !.int = {}]
  IN Countdown(host.int \cap ({flag} \cup Errors) = {},
               IF Pending # {}
               THEN clear /\ Failed(IF "timeout" \in Pending THEN "timeout" ELSE "error")
               ELSE host' = [host EXCEPT !.int = @ \ {flag}] /\ Go,
               clear /\ Failed("timeout"))

StatusStep == Doing("status") /\ Now.on \in {"dat", "write"} /\ sd_status(Now.on, Done(drv))

IntStep == Doing("int") /\ sd_int(Now.on, drv' = Done(drv) /\ UNCHANGED sd)

(* reset_emmc and sd_set_clock: waits for the inhibit bits, which look at no
   error flag, and for bits that the controller sets in its own time *)
PollStep ==
  \/ /\ Doing("status") /\ Now.on = "clock"
     /\ Countdown(host.inhibit # {}, drv' = Done(drv) /\ UNCHANGED <<host, sd>>,
                  Failed("error") /\ UNCHANGED host)
  \/ /\ Doing("poll")
     /\ \E busy \in BOOLEAN :
          Countdown(busy, drv' = Done(drv) /\ UNCHANGED <<host, sd>>,
                    Failed("error") /\ UNCHANGED host)

(* sd_execute_command: wait for the command line, ... *)
CommandWait ==
  /\ Doing("cmd") /\ drv.phase = "start"
  /\ sd_status("cmd", [drv EXCEPT !.phase = "issue", !.cnt = COUNTDOWN])

CommandIssueKeepsFlags ==
  /\ Doing("cmd") /\ drv.phase = "issue"
  /\ sd' = [sd EXCEPT !.err = IF Now.on \in NeedApp THEN @ ELSE "ok"]
  /\ host' = [host EXCEPT !.issued = Now, !.inhibit = @ \cup Lines(Now)]
  /\ drv' = [drv EXCEPT !.phase = "answer"]
  /\ UNCHANGED late

(* ... clear what is left of the last command, and start this one, ... *)
CommandIssue ==
  /\ Doing("cmd") /\ drv.phase = "issue"
  /\ sd' = [sd EXCEPT !.err = IF Now.on \in NeedApp THEN @ ELSE "ok"]
  /\ host' = [host EXCEPT !.int = {}, !.issued = Now,
                          !.inhibit = @ \cup Lines(Now)]
  /\ drv' = [drv EXCEPT !.phase = "answer"]
  /\ UNCHANGED late

(* ... and wait for the answer.  The error bits in it are looked at only for
   SEND_REL_ADDR; an APP command wants to see that it was understood. *)
CommandAnswer ==
  /\ Doing("cmd") /\ drv.phase = "answer"
  /\ sd_int("cmd_done",
       CASE Now.on = "rel_addr" ->
              \E err \in {"ok", "error"} :
                /\ sd' = [sd EXCEPT !.rca = 1, !.err = err]
                /\ drv' = IF err = "ok" THEN Done(drv) ELSE [drv EXCEPT !.todo = <<>>]
         [] Now.on = "op_cond" -> UNCHANGED sd /\ drv' = [drv EXCEPT !.phase = "answered"]
         [] Now.on = "app" -> \/ UNCHANGED sd /\ drv' = Done(drv)
                              \/ Failed("error")
         [] OTHER -> UNCHANGED sd /\ drv' = Done(drv))

LastTry == drv.tries = 0

(* enable_card: an answer that says the card is up ends the attempts, unless it
   was the last of them; it then has to name the right voltage. *)
EnableCard ==
  /\ Doing("cmd") /\ drv.phase \in {"answered", "no_answer"}
  /\ \E says \in (IF drv.phase = "answered" THEN {"up", "low", "busy"} ELSE {"busy"}) :
       IF sd.err = "error" \/ LastTry
       THEN /\ sd' = [sd EXCEPT !.err = IF @ = "error" THEN @ ELSE "timeout"]
            /\ drv' = [drv EXCEPT !.todo = <<>>]
       ELSE IF says = "low"
       THEN sd' = [sd EXCEPT !.err = "error"] /\ drv' = [drv EXCEPT !.todo = <<>>]
       ELSE IF says = "up"
       THEN drv' = [Done(drv) EXCEPT !.todo = InitRest, !.ccs = card.hc] /\ UNCHANGED sd
       ELSE /\ UNCHANGED sd
            /\ drv' = [Done(drv) EXCEPT !.todo = App("op_cond"), !.tries = @ - 1]
  /\ UNCHANGED <<host, late>>

(* The loop over the data register *)
FetchStep ==
  /\ Doing("fetch")
  /\ drv' = [Done(drv) EXCEPT !.buf = Append(@, host.fifo)]
  /\ host' = [host EXCEPT !.fifo = NONE]
  /\ UNCHANGED <<sd, late>>

StoreStep ==
  /\ Doing("store")
  /\ drv' = Done(drv)
  /\ host' = [host EXCEPT !.fifo = drv.data, !.inhibit = @ \ {"write"}]
  /\ UNCHANGED <<sd, late>>

(* The loop over the two words of the SCR has a counter that it does not count
   down: without the second word it goes on for ever. *)
ReadScrStep ==
  /\ Doing("scr") /\ host.fifo = "scr"
  /\ host' = [host EXCEPT !.fifo = NONE]
  /\ sd' = [sd EXCEPT !.blkcnt = card.blkcnt]
  /\ \E wide \in BOOLEAN : drv' = [Done(drv) EXCEPT !.todo = IF wide THEN App("bus_width") ELSE <<>>]
  /\ UNCHANGED late

Spinning == Doing("scr") /\ host.fifo # "scr"

Finish ==
  /\ drv.op # NONE /\ drv.todo = <<>>
  /\ drv' = NoCall
  /\ sd' = IF drv.op = "init" /\ sd.err = "ok"
           THEN [sd EXCEPT !.ready = TRUE, !.ccs = drv.ccs] ELSE sd
  /\ sure' = [b \in DOMAIN sure |->
                IF drv.op = "write" /\ sd.err = "ok" /\ b \in drv.lba .. drv.lba + drv.num - 1
                THEN drv.data ELSE sure[b]]
  /\ UNCHANGED <<host, late>>

Driver ==
  /\ \/ (StatusStep \/ IntStep \/ PollStep \/ CommandWait \/ CommandIssue \/ CommandAnswer
           \/ EnableCard \/ FetchStep \/ StoreStep \/ ReadScrStep) /\ UNCHANGED sure
     \/ Finish
  /\ UNCHANGED <<card, faults>>

-----------------------------------------------------------------------------
(* The hardware.  A transfer begins with the answer to its command. *)

Kind(code) == CASE code = "read" -> "read" [] code = "write" -> "write" [] code = "scr" -> "scr"
                [] OTHER -> NONE

Addressed(c) == IF card.hc THEN c.arg ELSE c.arg \div BLOCK_SIZE

Answer ==
  LET c == host.issued
      x == [kind |-> Kind(c.on), block |-> IF Kind(c.on) = NONE THEN 0 ELSE Addressed(c),
            left |-> c.num]
  IN /\ c # NoCmd
     /\ host' = [host EXCEPT !.int = @ \cup {"cmd_done"}, !.issued = NoCmd,
                             !.inhibit = @ \ {"cmd"},
                             !.xfer = IF x.kind = NONE THEN host.xfer ELSE x]
     /\ UNCHANGED faults

ReportError(x) ==
  \E e \in Errors :
    /\ faults < MAX_FAULTS
    /\ faults' = faults + 1
    /\ host' = [x EXCEPT !.int = @ \cup {e}]

(* The command fails, and with it the transfer it asked for. *)
AnswerError ==
  /\ host.issued # NoCmd
  /\ ReportError([host EXCEPT !.issued = NoCmd, !.inhibit = @ \ Lines(host.issued)])

X == host.xfer

DataReady ==
  /\ X.left > 0
  /\ \/ /\ X.kind \in {"read", "scr"}
        /\ host.fifo = NONE
        /\ \E fifo \in IF X.kind = "scr" THEN {"scr", "short"} ELSE {card.block[X.block % BLOCKS]} :
             host' = [host EXCEPT !.fifo = fifo, !.int = @ \cup {"read_rdy"},
                                  !.xfer = [X EXCEPT !.block = @ + 1, !.left = @ - 1]]
     \/ /\ X.kind = "write" /\ host.fifo = NONE /\ "write" \notin host.inhibit
        /\ host' = [host EXCEPT !.int = @ \cup {"write_rdy"}, !.inhibit = @ \cup {"write"}]
  /\ UNCHANGED <<card, faults>>

(* A block of a write transfer reaches the card. *)
Program ==
  /\ X.kind = "write" /\ X.left > 0 /\ host.fifo # NONE
  /\ card' = [card EXCEPT !.block[X.block % BLOCKS] = host.fifo]
  /\ host' = [host EXCEPT !.fifo = NONE, !.xfer = [X EXCEPT !.block = @ + 1, !.left = @ - 1]]
  /\ UNCHANGED faults

DataDone ==
  /\ X.kind # NONE /\ X.left = 0 /\ host.fifo = NONE
  /\ host' = [host EXCEPT !.int = @ \cup {"data_done"}, !.inhibit = @ \ {"dat"}, !.xfer = NoXfer]
  /\ UNCHANGED faults

DataError ==
  /\ X.left > 0
  /\ ReportError([host EXCEPT !.inhibit = @ \ {"dat", "write"}, !.fifo = NONE, !.xfer = NoXfer])

Hardware ==
  /\ \/ (Answer \/ AnswerError \/ DataDone \/ DataError) /\ UNCHANGED card
     \/ DataReady
     \/ Program
  /\ UNCHANGED <<drv, sd, sure, late>>

(* The kernel moves one block at a time.  Several are tried only on cards that
   take them in one command: on others the driver does not wait for a block to
   be written before it sends the command for the next. *)
Next ==
  \/ sd_init
  \/ \E lba \in 0 .. BLOCKS - 1, num \in 1 .. MAX_NUM :
       /\ lba + num <= BLOCKS /\ (num > 1 => sd.ccs)
       /\ sd_readblock(lba, num) \/ \E data \in VALUES : sd_writeblock(lba, num, data)
  \/ Driver
  \/ Hardware

Spec == Init /\ [][Next]_vars
(* The driver polls; the hardware owes it nothing. *)
FairSpec == Spec /\ WF_vars(Driver)

-----------------------------------------------------------------------------
(* Properties *)

(* A read that succeeds returns the blocks it was asked for, on a card of
   either kind, and never the data of an earlier read whose answer came after
   the driver had given it up. *)
ReadsRight ==
  drv.op = "read" /\ drv.todo = <<>> /\ sd.err = "ok" =>
    drv.buf = [c \in 1 .. drv.num |-> card.block[drv.lba + c - 1]]

(* What a successful write stored stays on the card until the block is written
   again: no earlier write that was given up overtakes it, and no write is
   reported before its data is on the card. *)
WritesStay == \A b \in DOMAIN sure : sure[b] # NONE => card.block[b] = sure[b]

(* Unless a wait ran out, a call leaves nothing behind that would make the next
   one fail: no error flag, and the command line free. *)
CleanBetweenCalls ==
  drv.op = NONE /\ ~late => host.int \cap Errors = {} /\ "cmd" \notin host.inhibit

(* Every call returns although the hardware may never answer; except that
   sd_init may wait for the second word of the SCR for ever. *)
CallsReturn == (drv.op # NONE) ~> (drv.op = NONE \/ Spinning)

=============================================================================
