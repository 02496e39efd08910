------------------------------ MODULE FatFile ------------------------------
(***************************************************************************)
(* Open files of libs/fat32/fat.c: the one-sector buffer and the position  *)
(* of every handle, and the calls the kernel makes on it (open, write,     *)
(* read from the start, close).  A write or a read goes sector by sector;  *)
(* each turn of its loop is a step.                                        *)
(*                                                                         *)
(* The cluster chains are those of module FatChain, here without their     *)
(* window: stretch_chain takes some free cluster, finds none, or fails     *)
(* before or after the link is made.  Any access to the card may fail.     *)
(***************************************************************************)
EXTENDS Integers, FiniteSets, FiniteSetsExt

CONSTANTS
  CLUSTERS,        \* clusters of the volume that may hold file data
  SECT_PER_CLUST,  \* 1 << fat->clust_shift
  SECT_SIZE,       \* 512
  FILES,           \* names the clients use
  HANDLES,         \* struct File of the clients
  LENGTHS,         \* lengths of the reads and writes
  MAX_OFFSET,      \* bound: no write goes beyond this offset
  MAX_WRITES,      \* bound: calls of fat_file_write; each writes its own byte
  MAX_FAULTS       \* bound: failing calls

FREE == "free"
EOC == "eoc"
NONE == "none"

ASSUME FileAssumption ==
  /\ IsFiniteSet(CLUSTERS)
  /\ CLUSTERS \cap {FREE, EOC, NONE} = {} /\ NONE \notin FILES
  /\ SECT_PER_CLUST \in Nat \ {0} /\ SECT_SIZE \in Nat \ {0}
  /\ LENGTHS \subseteq Nat \ {0}
  /\ MAX_OFFSET \in Nat /\ MAX_WRITES \in Nat /\ MAX_FAULTS \in Nat

VARIABLES
  fat,      \* the volume: next, start, size, card
  file,     \* handle -> struct File
  call,     \* the loop in progress: op, handle, bytes left
  ghost,    \* what was written: data, len, unsure
  writes,   \* calls of fat_file_write so far
  faults    \* calls that failed so far

vars == <<fat, file, call, ghost, writes, faults>>

Offsets == 0 .. MAX_OFFSET
ClustSize == SECT_SIZE * SECT_PER_CLUST
Sectors == CLUSTERS \X (0 .. SECT_PER_CLUST - 1)
NoSector == <<NONE, 0>>   \* 0xffffffff
Limit(a, b) == IF a < b THEN a ELSE b

Closed == [name |-> NONE]
Open(h) == file[h] # Closed
OpenOn(f) == {h \in HANDLES : file[h].name = f}
Idle == [op |-> NONE]

Init ==
  /\ fat = [next |-> [c \in CLUSTERS |-> FREE], start |-> [f \in FILES |-> NONE],
            size |-> [f \in FILES |-> 0],
            card |-> [s \in Sectors |-> [i \in 0 .. SECT_SIZE - 1 |-> 0]]]
  /\ file = [h \in HANDLES |-> Closed]
  /\ call = Idle
  /\ ghost = [data |-> [f \in FILES |-> [o \in Offsets |-> 0]],
              len |-> [f \in FILES |-> 0], unsure |-> {}]
  /\ writes = 0
  /\ faults = 0

-----------------------------------------------------------------------------
(* A function maps a volume v and a handle f to its outcomes: what it leaves
   of both, and the error it returns. *)

Out(v, f, err) == {[fat |-> v, file |-> f, err |-> err]}
Ok(v, f) == Out(v, f, NONE)
Fault(v, f) == IF faults < MAX_FAULTS THEN Out(v, f, "io") ELSE {}
Then(outcomes, F(_, _)) ==
  UNION {IF o.err = NONE THEN F(o.fat, o.file) ELSE {o} : o \in outcomes}

ops_write(v, f, sect) == Ok([v EXCEPT !.card[sect] = f.buf], f) \cup Fault(v, f)
ops_read(v, f, sect) == Ok(v, [f EXCEPT !.buf = v.card[sect]]) \cup Fault(v, f)

FreeClusters(v) == {c \in CLUSTERS : v.next[c] = FREE}

StretchNoLink(v, f) ==
  UNION {Ok([v EXCEPT !.next[c] = EOC], [f EXCEPT !.clust = c]) : c \in FreeClusters(v)}

(* stretch_chain(fat, f.clust, &next); file->clust = next *)
stretch_chain(v, f) ==
  LET linked(c) == [v EXCEPT !.next[f.clust] = c, !.next[c] = EOC]
  IN IF FreeClusters(v) = {}
     THEN Out(v, f, "full")
     ELSE Fault(v, f) \cup UNION {Ok(linked(c), [f EXCEPT !.clust = c])
                                    \cup Fault(linked(c), f) : c \in FreeClusters(v)}

(* One turn of the loop of fat_file_seek *)
Follow(v, f) ==
  Fault(v, f) \cup
  IF v.next[f.clust] = EOC
  THEN stretch_chain(v, f)
  ELSE Ok(v, [f EXCEPT !.clust = v.next[f.clust]])

MoveBufferNoWriteBack(v, f, ssect) ==
  IF f.sect = ssect THEN Ok(v, f) ELSE ops_read(v, [f EXCEPT !.dirty = FALSE], f.sect)

(* The end of fat_file_seek: the buffer moves from sector ssect to f.sect *)
MoveBuffer(v, f, ssect) ==
  IF f.sect = ssect
  THEN Ok(v, f)
  ELSE Then(IF f.dirty
            THEN Then(ops_write(v, f, ssect), LAMBDA w, g : Ok(w, [g EXCEPT !.dirty = FALSE]))
            ELSE Ok(v, f), LAMBDA w, g : ops_read(w, g, g.sect))

RewoundOffsetOnly(f, off) ==
  IF off \div ClustSize < f.offset \div ClustSize THEN [f EXCEPT !.offset = 0] ELSE f

(* Backwards over a cluster boundary, the chain is followed from its start. *)
Rewound(f, off) ==
  IF off \div ClustSize < f.offset \div ClustSize
  THEN [f EXCEPT !.clust = f.sclust, !.sect = <<f.sclust, 0>>, !.offset = 0]
  ELSE f

fat_file_seek(v, f, off) ==
  LET g == Rewound(f, off)
      turns == off \div ClustSize - g.offset \div ClustSize
      follow[i \in 0 .. turns] == IF i = 0 THEN Ok(v, g) ELSE Then(follow[i - 1], Follow)
  IN Then(follow[turns], LAMBDA w, x :
       MoveBuffer(w, [x EXCEPT !.sect = <<x.clust, (off \div SECT_SIZE) % SECT_PER_CLUST>>,
                               !.offset = off], f.sect))

(* The buffer is written whether or not it is dirty; the size of the entry
   and the window follow when the handle was used. *)
fat_file_sync(v, f) ==
  Then(ops_write(v, f, f.sect), LAMBDA w, g :
    LET x == IF g.modified THEN [w EXCEPT !.size[g.name] = g.size] ELSE w
    IN Ok(x, [g EXCEPT !.modified = FALSE]) \cup Fault(w, g) \cup Fault(x, g))

-----------------------------------------------------------------------------
(* The calls of the kernel *)

(* The outcome o of a call on file f: an error leaves nothing promised of f. *)
Unsure(f, o) == IF o.err = "io" THEN {f} ELSE {}
Count(o) == faults' = IF o.err = "io" THEN faults + 1 ELSE faults

(* fat_file_open with FAT_CREATE: create_chain and dir_add when there is no
   such file; the size is cut with FAT_TRUNC, and the position is at the end
   with FAT_APPEND. *)
CreateChain(v, f) ==
  IF v.start[f] # NONE
  THEN Ok(v, Closed)
  ELSE IF FreeClusters(v) = {}
  THEN Out(v, Closed, "full")
  ELSE Fault(v, Closed) \cup
       UNION {LET w == [v EXCEPT !.next[c] = EOC]
              IN Ok([w EXCEPT !.start[f] = c], Closed) \cup Fault(w, Closed)
              : c \in FreeClusters(v)}

NewHandle(v, f, trunc) ==
  [name |-> f, sclust |-> v.start[f], clust |-> v.start[f], sect |-> NoSector, offset |-> 0,
   size |-> IF trunc THEN 0 ELSE v.size[f], modified |-> trunc /\ v.size[f] # 0,
   dirty |-> FALSE, buf |-> [i \in 0 .. SECT_SIZE - 1 |-> 0]]

fat_file_open(h, f, trunc, append) ==
  /\ call = Idle
  /\ ~Open(h)
  /\ \E o \in Then(CreateChain(fat, f), LAMBDA v, g :
                LET new == NewHandle(v, f, trunc)
                IN fat_file_seek(v, new, IF append THEN new.size ELSE 0)) :
       /\ fat' = o.fat
       /\ file' = [file EXCEPT ![h] = IF o.err = NONE THEN o.file ELSE Closed]
       /\ ghost' = [data |-> IF trunc /\ o.err = NONE
                             THEN [ghost.data EXCEPT ![f] = [i \in Offsets |-> 0]]
                             ELSE ghost.data,
                    len |-> IF trunc /\ o.err = NONE
                            THEN [ghost.len EXCEPT ![f] = 0] ELSE ghost.len,
                    unsure |-> ghost.unsure \cup
                               IF OpenOn(f) # {} THEN {f} ELSE Unsure(f, o)]
       /\ Count(o)
  /\ UNCHANGED <<call, writes>>

(* fat_file_write: the loop is entered ... *)
CallWrite(h, len) ==
  /\ call = Idle
  /\ Open(h)
  /\ writes < MAX_WRITES
  /\ file[h].offset + len <= MAX_OFFSET
  /\ file' = [file EXCEPT ![h].modified = TRUE]
  /\ writes' = writes + 1
  /\ call' = [op |-> "write", h |-> h, len |-> len]
  /\ UNCHANGED <<fat, ghost, faults>>

(* ... and copies into the buffer, then moves on, until an error, which it
   does not return, or the end.  The size is brought up to date after it. *)
WriteStep ==
  LET h == call.h
      f == file[h]
      idx == f.offset % SECT_SIZE
      cnt == Limit(call.len, SECT_SIZE - idx)
      put == [f EXCEPT !.buf = [i \in DOMAIN f.buf |->
                                  IF i \in idx .. idx + cnt - 1 THEN writes ELSE f.buf[i]],
                       !.dirty = TRUE]
      Ended(o) == o.err # NONE \/ call.len = cnt
      sized(g) == [g EXCEPT !.size = IF g.offset > g.size THEN g.offset ELSE g.size]
  IN /\ call.op = "write"
     /\ \E o \in fat_file_seek(fat, put, f.offset + cnt) :
          /\ fat' = o.fat
          /\ file' = [file EXCEPT ![h] = IF Ended(o) THEN sized(o.file) ELSE o.file]
          /\ call' = IF Ended(o) THEN Idle ELSE [call EXCEPT !.len = @ - cnt]
          /\ ghost' = [data |-> [ghost.data EXCEPT ![f.name] =
                         [i \in Offsets |-> IF i \in f.offset .. f.offset + cnt - 1
                                            THEN writes ELSE @[i]]],
                       len |-> IF o.err = NONE
                               THEN [ghost.len EXCEPT ![f.name] = Max({@, f.offset + cnt})]
                               ELSE ghost.len,
                       unsure |-> ghost.unsure \cup Unsure(f.name, o)]
          /\ Count(o)
     /\ UNCHANGED writes

(* syscall_read_file goes to the start, whether or not that works, and reads *)
CallRead(h, len) ==
  /\ call = Idle
  /\ Open(h)
  /\ \E o \in fat_file_seek(fat, file[h], 0) :
       /\ fat' = o.fat
       /\ file' = [file EXCEPT ![h] = o.file]
       /\ ghost' = [ghost EXCEPT !.unsure = @ \cup Unsure(file[h].name, o)]
       /\ Count(o)
  /\ call' = [op |-> "read", h |-> h, len |-> len]
  /\ UNCHANGED writes

ReadStep ==
  LET h == call.h
      f == file[h]
      cnt == Limit(call.len, Limit(SECT_SIZE - (f.offset % SECT_SIZE), f.size - f.offset))
  IN /\ call.op = "read"
     /\ IF call.len = 0 \/ f.offset >= f.size
        THEN call' = Idle /\ UNCHANGED <<fat, file, ghost, faults>>
        ELSE \E o \in fat_file_seek(fat, f, f.offset + cnt) :
               /\ fat' = o.fat
               /\ file' = [file EXCEPT ![h] = o.file]
               /\ call' = IF o.err = NONE THEN [call EXCEPT !.len = @ - cnt] ELSE Idle
               /\ ghost' = [ghost EXCEPT !.unsure = @ \cup Unsure(f.name, o)]
               /\ Count(o)
     /\ UNCHANGED writes

(* A close that fails leaves the descriptor, and the handle, in place. *)
fat_file_close(h) ==
  /\ call = Idle
  /\ Open(h)
  /\ \E o \in fat_file_sync(fat, file[h]) :
       /\ fat' = o.fat
       /\ file' = [file EXCEPT ![h] = IF o.err = NONE THEN Closed ELSE o.file]
       /\ ghost' = [ghost EXCEPT !.unsure = @ \cup Unsure(file[h].name, o)]
       /\ Count(o)
  /\ UNCHANGED <<call, writes>>

Next ==
  \/ \E h \in HANDLES, f \in FILES, trunc, append \in BOOLEAN : fat_file_open(h, f, trunc, append)
  \/ \E h \in HANDLES, len \in LENGTHS : CallWrite(h, len) \/ CallRead(h, len)
  \/ \E h \in HANDLES : fat_file_close(h)
  \/ WriteStep
  \/ ReadStep

Spec == Init /\ [][Next]_vars

-----------------------------------------------------------------------------
(* Properties *)

(* Cluster i of the chain of file f, no cluster beyond its end *)
Nth(f, i) ==
  LET walk[n \in 0 .. i] ==
        IF n = 0 THEN fat.start[f]
        ELSE IF walk[n - 1] \in CLUSTERS THEN fat.next[walk[n - 1]] ELSE NONE
  IN walk[i]

(* No handle leaves its own file: whatever failed and whoever shares it, the
   clusters it stands on and writes its buffer to are on its file's chain. *)
InOwnChain ==
  \A h \in HANDLES : Open(h) =>
    LET chain == {Nth(file[h].name, i) : i \in 0 .. Cardinality(CLUSTERS) - 1}
    IN file[h].clust \in chain /\ file[h].sect[1] \in chain

(* The position and the buffer of a handle agree: the buffer holds the sector
   that the offset is in, also after a write found the volume full. *)
PositionAgrees ==
  \A h \in HANDLES : Open(h) /\ file[h].name \notin ghost.unsure =>
    LET f == file[h]
    IN /\ f.clust = Nth(f.name, f.offset \div ClustSize)
       /\ f.sect = <<f.clust, (f.offset \div SECT_SIZE) % SECT_PER_CLUST>>
       /\ f.dirty \/ f.buf = fat.card[f.sect]

(* Byte o of file f: in the buffer of a handle, or else on the card *)
ByteAt(f, o) ==
  LET at == {h \in OpenOn(f) : file[h].offset \div SECT_SIZE = o \div SECT_SIZE}
      sect == <<Nth(f, o \div ClustSize), (o \div SECT_SIZE) % SECT_PER_CLUST>>
  IN IF sect \notin Sectors THEN 0
     ELSE IF at = {} THEN fat.card[sect][o % SECT_SIZE]
     ELSE file[CHOOSE h \in at : TRUE].buf[o % SECT_SIZE]

(* Every byte is the last one written there, and the length is where the
   writes got to, for every file that no failed call and no second handle
   touched: failures and full volumes met by other files do no harm. *)
NothingLost ==
  \A f \in FILES \ ghost.unsure :
    /\ \A o \in Offsets : ghost.data[f][o] # 0 => ByteAt(f, o) = ghost.data[f][o]
    /\ call = Idle =>
         \/ \E h \in OpenOn(f) : file[h].size = ghost.len[f]
         \/ OpenOn(f) = {} /\ fat.size[f] = ghost.len[f]

=============================================================================
