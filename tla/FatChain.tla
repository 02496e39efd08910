------------------------------ MODULE FatChain ------------------------------
(***************************************************************************)
(* Cluster chains of libs/fat32/fat.c: the one-sector window through which *)
(* the library reads and writes the volume, the two copies of the FAT, and *)
(* the loops that lengthen and remove a chain, for the callers that create *)
(* a file, move to the end of it and unlink it.  Any access to the card    *)
(* may fail, and the power may go between two steps: what is in the window *)
(* is then lost.                                                           *)
(*                                                                         *)
(* A sector is a row of ITEMS numbers.  A row of the FAT holds one number  *)
(* per cluster: 0 when it is free, the next cluster of its chain, EOC, or  *)
(* BAD.  The row "info" is the FsInfo sector and "dir" a directory: number *)
(* f of it is the first cluster of file f, 0 when there is no such file.   *)
(***************************************************************************)
EXTENDS Integers, FiniteSets

CONSTANTS
  CLUST_CNT,  \* fat->clust_cnt: the clusters are 2 .. CLUST_CNT - 1
  ITEMS,      \* numbers in a sector, 128
  MIRROR,     \* fat->fat_sect[1] # 0: the second copy is kept up to date
  FILES,      \* files of the directory
  MAX_FAULTS  \* bound: failed accesses and power cuts of a behaviour

ASSUME ChainAssumption ==
  /\ CLUST_CNT \in Nat /\ CLUST_CNT > 3
  /\ ITEMS \in Nat /\ ITEMS > 1
  /\ FILES \subseteq 0 .. ITEMS - 1
  /\ MIRROR \in BOOLEAN /\ MAX_FAULTS \in Nat

VARIABLES
  vol,     \* the volume: struct Fat, and the card behind it
  call,    \* the call the client is in
  pos,     \* file -> cluster its open handle has reached, 0 when closed
  hurt     \* history: how many faults, and whether one hit a removal

vars == <<vol, call, pos, hurt>>

Clusters == 2 .. CLUST_CNT - 1
FREE == 0
EOC == CLUST_CNT
BAD == CLUST_CNT + 1
Items == 0 .. ITEMS - 1

Active == "active"
Mirror == "mirror"
Info == <<"info", 0>>
Directory == <<"dir", 0>>
NoSector == <<"none", 0>>
FatSectors == {Active, Mirror} \X (0 .. (CLUST_CNT - 1) \div ITEMS)
Sectors == FatSectors \cup {Info, Directory}

SectorOf(copy, clust) == <<copy, clust \div ITEMS>>

Idle == [op |-> "none", at |-> "none", file |-> 0, prev |-> 0, clust |-> 0]

-----------------------------------------------------------------------------
(* The window.  A function of the library maps a volume to its possible
   outcomes: the volume it leaves, and the error it returns. *)

Ok(v) == {[vol |-> v, err |-> "none"]}
Fault(v) == IF hurt.faults < MAX_FAULTS THEN {[vol |-> v, err |-> "io"]} ELSE {}

(* int err = ...; if (err) return err; and so on with F *)
Then(outcomes, F(_)) ==
  UNION {IF o.err = "none" THEN F(o.vol) ELSE {o} : o \in outcomes}

sync_buf(v) ==
  IF v.dirty
  THEN Ok([v EXCEPT !.disk[v.sect] = v.buf, !.dirty = FALSE]) \cup Fault(v)
  ELSE Ok(v)

update_buf(v, sect) ==
  IF v.sect = sect
  THEN Ok(v)
  ELSE Then(sync_buf(v), LAMBDA w : Ok([w EXCEPT !.buf = w.disk[sect], !.sect = sect])
                                      \cup Fault(w))

sync_fs(v) ==
  Then(sync_buf(v), LAMBDA w :
    IF ~w.info_dirty
    THEN Ok(w)
    ELSE Then(update_buf(w, Info), LAMBDA x :
           Then(sync_buf([x EXCEPT !.buf[0] = x.last_used, !.buf[1] = x.free_cnt,
                                   !.dirty = TRUE]), LAMBDA y :
             Ok([y EXCEPT !.info_dirty = FALSE]))))

(* The entry of clust is then Entry(vol, clust). *)
get_fat(v, clust) == update_buf(v, SectorOf(Active, clust))
Entry(v, clust) == v.buf[clust % ITEMS]

IsLast(val) == val = EOC

put_item(v, sect, item, val) ==
  Then(update_buf(v, sect), LAMBDA w : Ok([w EXCEPT !.buf[item] = val, !.dirty = TRUE]))

put_fat2(v, copy, clust, val) == put_item(v, SectorOf(copy, clust), clust % ITEMS, val)

PutFatFirstCopy(v, clust, val) == put_fat2(v, Active, clust, val)

put_fat(v, clust, val) ==
  IF MIRROR
  THEN Then(put_fat2(v, Mirror, clust, val), LAMBDA w : put_fat2(w, Active, clust, val))
  ELSE put_fat2(v, Active, clust, val)

-----------------------------------------------------------------------------
(* What the volume says: the window covers the sector it holds. *)

Content(v, sect) == IF v.sect = sect THEN v.buf ELSE v.disk[sect]
Table(v, copy) ==
  [c \in Clusters |-> Content(v, SectorOf(copy, c))[c % ITEMS]]
DiskTable(v, copy) == [c \in Clusters |-> v.disk[SectorOf(copy, c)][c % ITEMS]]
FreeClusters(v) == {c \in Clusters : Table(v, Active)[c] = FREE}
Start(v, f) == Content(v, Directory)[f]

(* fat_mount: the hints of the FsInfo sector, and nothing in the window. *)
fat_mount(disk) ==
  [disk |-> disk, sect |-> NoSector, buf |-> disk[Info], dirty |-> FALSE,
   info_dirty |-> FALSE, last_used |-> disk[Info][0], free_cnt |-> disk[Info][1]]

(* A formatted volume: the directory has the first cluster, the two copies of
   the FAT agree, one cluster may be bad, and no file exists. *)
Formatted(bad, hint) ==
  LET entry(c) == CASE c = 2 -> EOC [] c \in bad -> BAD [] OTHER -> FREE
  IN [s \in Sectors |->
        [i \in Items |->
           CASE s \in FatSectors -> entry(s[2] * ITEMS + i)
             [] s = Info -> IF i = 0 THEN hint ELSE CLUST_CNT - 3 - Cardinality(bad)
             [] OTHER -> 0]]

Init ==
  /\ \E hint \in Clusters, bad \in {{}, {CLUST_CNT - 1}} :
       vol = fat_mount(Formatted(bad, hint))
  /\ call = Idle
  /\ pos = [f \in FILES |-> 0]
  /\ hurt = [faults |-> 0, removal |-> FALSE]

-----------------------------------------------------------------------------
(* Steps of a call *)

Hurt == hurt' = [faults |-> hurt.faults + 1,
                 removal |-> hurt.removal \/ call.op = "unlink"]

(* One step of the call in progress: the outcomes of a function, and what the
   call does next when it returns no error.  An error ends the call. *)
Does(outcomes, next(_)) ==
  \E o \in outcomes :
    /\ vol' = o.vol
    /\ IF o.err = "none"
       THEN next(o.vol)
       ELSE /\ call' = Idle
            /\ Hurt
            /\ UNCHANGED pos

Goto(at) == call' = [call EXCEPT !.at = at] /\ UNCHANGED <<pos, hurt>>
Return == call' = Idle /\ UNCHANGED <<pos, hurt>>
Wrap(c) == IF c >= CLUST_CNT THEN 2 ELSE c

ScanFromPrev == IF call.prev = 0 THEN vol.last_used ELSE call.prev

ScanFrom == vol.last_used

CameRoundNever(c) == c = CLUST_CNT

CameRound(c) == c = vol.last_used

(* stretch_chain: the cluster after prev is tried first ... *)
StretchTry ==
  /\ call.at = "stretch"
  /\ LET v == [vol EXCEPT !.info_dirty = TRUE]
         c == Wrap(call.prev + 1)
         Scan == call' = [call EXCEPT !.at = "scan", !.clust = ScanFrom]
     IN IF call.prev = 0
        THEN vol' = v /\ Scan /\ UNCHANGED <<pos, hurt>>
        ELSE Does(get_fat(v, c), LAMBDA w :
               /\ IF Entry(w, c) = FREE
                  THEN call' = [call EXCEPT !.at = "mark", !.clust = c]
                  ELSE Scan
               /\ UNCHANGED <<pos, hurt>>)

(* ... then every other one, from the last one allocated on. *)
StretchScan ==
  /\ call.at = "scan"
  /\ LET c == Wrap(call.clust + 1)
     IN IF CameRound(c)
        THEN Return /\ UNCHANGED vol
        ELSE Does(get_fat(vol, c), LAMBDA w :
               /\ call' = [call EXCEPT !.at = IF Entry(w, c) = FREE THEN "mark" ELSE "scan",
                                       !.clust = c]
               /\ UNCHANGED <<pos, hurt>>)

(* If the first read of the scan fails, stretch_chain returns a variable it
   has not set: a caller that reads 0 goes on with a cluster nobody chose. *)
StretchUninitialised ==
  /\ call.at = "scan"
  /\ call.prev = 0
  /\ call.clust = vol.last_used
  /\ \E o \in get_fat(vol, Wrap(call.clust + 1)) : o.err # "none" /\ vol' = o.vol
  /\ call' = [Idle EXCEPT !.op = "wild"]
  /\ Hurt
  /\ UNCHANGED pos

StretchMarkOnly ==
  call.at = "mark" /\ Does(put_fat(vol, call.clust, EOC), LAMBDA w : Goto("finish"))

StretchMarkNotWhenLinking ==
  /\ call.at = "mark"
  /\ Does(IF call.prev = 0 THEN put_fat(vol, call.clust, EOC) ELSE Ok(vol),
          LAMBDA w : Goto(IF call.prev # 0 THEN "link" ELSE "finish"))

StretchMark ==
  /\ call.at = "mark"
  /\ Does(put_fat(vol, call.clust, EOC),
          LAMBDA w : Goto(IF call.prev # 0 THEN "link" ELSE "finish"))

StretchLink ==
  /\ call.at = "link"
  /\ Does(put_fat(vol, call.prev, call.clust), LAMBDA w : Goto("finish"))

StretchFinish ==
  /\ call.at = "finish"
  /\ Does(sync_fs([vol EXCEPT !.last_used = call.clust, !.free_cnt = @ - 1]), LAMBDA w :
       IF call.op = "create"
       THEN Goto("enter")
       ELSE /\ pos' = [pos EXCEPT ![call.file] = call.clust]
            /\ call' = Idle
            /\ UNCHANGED hurt)

(* remove_chain: one turn of its loop *)
RemoveStep ==
  LET c == call.clust
      Freed(w) == Then(put_fat(w, c, FREE), LAMBDA x : Ok([x EXCEPT !.free_cnt = @ + 1]))
  IN /\ call.at = "remove"
     /\ \E o \in get_fat([vol EXCEPT !.info_dirty = TRUE], c) :
          LET next == Entry(o.vol, c)
          IN IF o.err = "none" /\ next \in {BAD, FREE}
             THEN vol' = o.vol /\ Return
             ELSE Does(Then({o}, Freed), LAMBDA x :
                    /\ call' = [call EXCEPT !.at = IF IsLast(next) THEN "sync" ELSE "remove",
                                            !.clust = IF IsLast(next) THEN c ELSE next]
                    /\ UNCHANGED <<pos, hurt>>)

-----------------------------------------------------------------------------
(* The callers *)

Begin(op, at, f, prev, clust) ==
  call' = [op |-> op, at |-> at, file |-> f, prev |-> prev, clust |-> clust]

(* fat_file_open of a file that does not exist: create_chain, then dir_add *)
CallCreate(f) ==
  /\ call = Idle
  /\ pos[f] = 0
  /\ Does(update_buf(vol, Directory), LAMBDA w :
       /\ w.buf[f] = 0
       /\ Begin("create", "stretch", f, 0, 0)
       /\ UNCHANGED <<pos, hurt>>)

EnterFile ==
  /\ call.at = "enter"
  /\ Does(put_item(vol, Directory, call.file, call.clust), LAMBDA w :
       /\ pos' = [pos EXCEPT ![call.file] = call.clust]
       /\ call' = Idle
       /\ UNCHANGED hurt)

(* fat_file_open of a file that exists *)
CallOpen(f) ==
  /\ call = Idle
  /\ pos[f] = 0
  /\ Does(update_buf(vol, Directory), LAMBDA w :
       /\ w.buf[f] # 0
       /\ pos' = [pos EXCEPT ![f] = w.buf[f]]
       /\ UNCHANGED <<call, hurt>>)

(* fat_file_seek over the end of the cluster the handle has reached *)
CallSeek(f) ==
  /\ call = Idle
  /\ pos[f] # 0
  /\ Does(get_fat(vol, pos[f]), LAMBDA w :
       LET next == Entry(w, pos[f])
       IN CASE next \in {BAD, FREE} -> UNCHANGED <<call, pos, hurt>>
            [] IsLast(next) -> Begin("extend", "stretch", f, pos[f], 0) /\ UNCHANGED <<pos, hurt>>
            [] OTHER -> pos' = [pos EXCEPT ![f] = next] /\ UNCHANGED <<call, hurt>>)

(* fat_file_close writes the entry of the file, and syncs *)
CallClose(f) ==
  /\ call = Idle
  /\ pos[f] # 0
  /\ Does(Then(update_buf(vol, Directory), sync_fs), LAMBDA w :
       /\ pos' = [pos EXCEPT ![f] = 0]
       /\ UNCHANGED <<call, hurt>>)

(* fat_unlink: remove_chain, then remove_entries *)
CallUnlink(f) ==
  /\ call = Idle
  /\ pos[f] = 0
  /\ Does(update_buf(vol, Directory), LAMBDA w :
       /\ w.buf[f] # 0
       /\ Begin("unlink", "remove", f, 0, w.buf[f])
       /\ UNCHANGED <<pos, hurt>>)

(* sync_fs at the end of remove_chain, remove_entries and sync_fs *)
RemoveEntry ==
  /\ call.at = "sync"
  /\ Does(Then(Then(sync_fs(vol), LAMBDA w : put_item(w, Directory, call.file, 0)), sync_fs),
          LAMBDA w : Return)

(* The power goes, and the volume is mounted again. *)
PowerCut ==
  /\ call.op # "wild"
  /\ vol' = fat_mount(vol.disk)
  /\ call' = Idle
  /\ pos' = [f \in FILES |-> 0]
  /\ hurt.faults < MAX_FAULTS
  /\ Hurt

Calls == \E f \in FILES : CallCreate(f) \/ CallOpen(f) \/ CallSeek(f) \/ CallClose(f) \/ CallUnlink(f)

Steps ==
  \/ StretchTry \/ StretchScan \/ StretchMark \/ StretchLink \/ StretchFinish
  \/ RemoveStep \/ RemoveEntry \/ EnterFile

Next == Calls \/ Steps \/ StretchUninitialised \/ PowerCut

Spec == Init /\ [][Next]_vars
(* A call in progress is the client's own thread of control: it goes on. *)
FairSpec == Spec /\ WF_vars(Steps)

-----------------------------------------------------------------------------
(* Properties *)

(* The clusters of table t from cluster c on, as get_fat follows them *)
Chain(t, c) ==
  LET reach[n \in 0 .. CLUST_CNT] ==
        IF n = 0 THEN {c}
        ELSE reach[n - 1] \cup {t[d] : d \in reach[n - 1] \cap Clusters}
  IN reach[CLUST_CNT]

(* What a table t and a directory start (file -> first cluster) say of the
   files: every chain runs over used clusters to an end mark, and no two
   chains, nor the directory's own, have a cluster in common. *)
Consistent(t, start) ==
  LET files == {f \in FILES : start[f] # 0}
  IN /\ \A f \in files : Chain(t, start[f]) \subseteq (Clusters \ {2}) \cup {EOC}
     /\ \A f, g \in files :
          f # g => Chain(t, start[f]) \cap Chain(t, start[g]) = {EOC}
     /\ t[2] = EOC

(* While no removal has been interrupted, the files stay whole and apart
   through every error and every power cut: for the library (the window over
   the card), and for whoever mounts either copy of the FAT that is on the
   card now.  It rests on the order of stretch_chain: mark, link, enter. *)
FilesIntact ==
  call.op # "unlink" /\ ~hurt.removal =>
    /\ Consistent(Table(vol, Active), Content(vol, Directory))
    /\ \A copy \in IF MIRROR THEN {Active, Mirror} ELSE {Active} :
         Consistent(DiskTable(vol, copy), vol.disk[Directory])

(* An open handle stands on a cluster of its own file, whatever failed. *)
HandleInChain ==
  ~hurt.removal =>
    \A f \in FILES : pos[f] # 0 => pos[f] \in Chain(Table(vol, Active), Start(vol, f))

(* What the library keeps twice agrees between calls: free_cnt with the FAT
   (never less than there is, and exact when nothing failed), the count on
   the card with free_cnt whenever the window is clean, and, when no access
   failed, the second copy of the FAT with the first. *)
CopiesAgree ==
  call = Idle =>
    LET free == Cardinality(FreeClusters(vol))
    IN /\ ~hurt.removal => vol.free_cnt >= free
       /\ hurt.faults = 0 => vol.free_cnt = free
       /\ hurt.faults = 0 /\ ~vol.info_dirty => vol.disk[Info][1] = free
       /\ MIRROR /\ hurt.faults = 0 => Table(vol, Active) = Table(vol, Mirror)

(* stretch_chain gives up only when the volume is full: every cluster is in
   use, except that the scan never looks at last_used itself. *)
FullMeansFull ==
  [][call.at = "scan" /\ call' = Idle /\ hurt' = hurt
       => FreeClusters(vol) \subseteq {vol.last_used}]_vars

(* Every call returns: the scan comes round, and no chain is a cycle. *)
CallsReturn == (call # Idle) ~> (call = Idle \/ call.op = "wild")

=============================================================================
