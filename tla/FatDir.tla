------------------------------- MODULE FatDir -------------------------------
(***************************************************************************)
(* Directories of libs/fat32/fat.c.  A directory is the row of 32-byte     *)
(* slots of its clusters: unused, ended, a fragment of a long name, or the *)
(* short entry that the fragments before it belong to.  Entries are found  *)
(* by walking the slots, added in the first run of unused ones that is     *)
(* long enough, with a new cluster when the directory is full, and removed *)
(* by marking their slots unused.  A listing keeps a position in the row   *)
(* from one system call to the next.                                       *)
(*                                                                         *)
(* The window is left to module FatChain: here a slot is what the library  *)
(* sees, and a function that writes several slots may fail before any.     *)
(***************************************************************************)
EXTENDS Integers, Sequences, FiniteSets, FiniteSetsExt

CONSTANTS
  NAMES,      \* long names the clients use
  PATHS,      \* paths the clients use, sequences of names
  Lfns(_),    \* fragments of a long name, (len + 12) / 13
  Short(_),   \* put_sfn_name: the short name of a long one; several may share it
  SLOTS,      \* slots of a cluster
  N_DIRS,     \* directories beside the root, 0
  POOL,       \* free clusters
  ROOTS,      \* the rows the root directory may start with
  MAX_FAULTS  \* bound: failing calls

ASSUME DirAssumption ==
  /\ \A n \in NAMES : Lfns(n) \in Nat \ {0}
  /\ PATHS \subseteq Seq(NAMES) \ {<<>>}
  /\ SLOTS \in Nat /\ SLOTS > 2
  /\ N_DIRS \in Nat /\ POOL \in Nat /\ MAX_FAULTS \in Nat

VARIABLES
  dir,     \* directory -> its row of slots; empty when there is no such directory
  pool,    \* free clusters
  cursor,  \* the Dir of a listing, and what it has reported
  tree,    \* history: directory -> name -> what the name was given to
  hurt,    \* history: directories that a failed call left half changed
  faults   \* failed calls so far

vars == <<dir, pool, cursor, tree, hurt, faults>>

Dirs == 0 .. N_DIRS
Root == 0
File == -1

Slot(k, name, seq, ref) == [k |-> k, name |-> name, seq |-> seq, ref |-> ref]
EndMark == Slot("last", "", 0, 0)
Unused == Slot("unused", "", 0, 0)
Junk == Slot("sfn", "junk", 0, File)
(* The head of a name is its last fragment. *)
Lfn(name, seq) == Slot(IF seq = Lfns(name) THEN "head" ELSE "lfn", name, seq, 0)
Sfn(short, ref) == Slot("sfn", short, 0, ref)

sfn_is_last(s) == s.k = "last"
sfn_is_free(s) == s.k \in {"last", "unused"}
sfn_is_lfn(s) == s.k \in {"head", "lfn"}

(* Slots the walk reaches, and the short names that stand alone among them *)
Reached(row) == {i \in 1 .. Len(row) : \A j \in 1 .. i : ~sfn_is_last(row[j])}
Alone(row) ==
  {i \in Reached(row) : row[i].k = "sfn" /\ (i > 1 => ~sfn_is_lfn(row[i - 1]))}

NoCursor == [dir |-> Root, idx |-> 1, seen |-> <<>>, had |-> {}, at |-> "none"]

Init ==
  /\ \E row \in ROOTS :
       /\ dir = [d \in Dirs |-> IF d = Root THEN row ELSE <<>>]
       /\ tree = [d \in Dirs |->
                    IF d = Root THEN {[name |-> row[i].name, ref |-> row[i].ref] : i \in Alone(row)}
                    ELSE {}]
  /\ pool = POOL
  /\ cursor = NoCursor
  /\ hurt = {}
  /\ faults = 0

-----------------------------------------------------------------------------
(* Finding *)

Found(first, last) == [err |-> "none", first |-> first, last |-> last]
Fails(err) == [err |-> err, first |-> 0, last |-> 0]

(* parse_lfn_name and the test of the short entry after it: the fragments from
   i on, all of one checksum, and a short entry that has it. *)
parse_lfn_name(row, i) ==
  LET cnt == row[i].seq
      crc == Short(row[i].name)
      Fits(s, j) == IF j < cnt THEN sfn_is_lfn(s) /\ Short(s.name) = crc
                    ELSE s.k = "sfn" /\ s.name = crc
      stop == {j \in 0 .. cnt : i + j > Len(row) \/ ~Fits(row[i + j], j)}
  IN IF row[i].k # "head" THEN Fails("broken")
     ELSE IF stop = {} THEN Found(i, i + cnt)
     ELSE IF i + Min(stop) > Len(row) THEN Fails("eof") ELSE Fails("broken")

(* The name the fragments spell *)
Spells(row, i, name) ==
  /\ row[i].seq = Lfns(name)
  /\ \A j \in 0 .. Lfns(name) - 1 : row[i + j] = Lfn(name, Lfns(name) - j)

dir_search(row, name) ==
  LET walk[i \in 1 .. Len(row) + 1] ==
        IF i > Len(row) \/ sfn_is_last(row[i]) THEN Fails("eof")
        ELSE IF sfn_is_free(row[i]) THEN walk[i + 1]
        ELSE IF sfn_is_lfn(row[i])
        THEN LET p == parse_lfn_name(row, i)
             IN IF p.err # "none" \/ Spells(row, i, name) THEN p ELSE walk[p.last + 1]
        ELSE IF row[i].name = Short(name) THEN Found(i, i) ELSE walk[i + 1]
  IN walk[1]

(* follow_path: every component but the last has to be a directory.  at is the
   directory the last component was looked up in. *)
follow_path(path) ==
  LET walk[i \in 0 .. Len(path)] ==
        IF i = 0 THEN [err |-> "none", at |-> Root, first |-> 0, last |-> 0, ref |-> Root]
        ELSE LET w == walk[i - 1]
                 s == dir_search(dir[w.ref], path[i])
             IN IF w.err # "none" THEN [w EXCEPT !.err = "path"]
                ELSE IF w.ref = File THEN [w EXCEPT !.err = "path"]
                ELSE [err |-> s.err, at |-> w.ref, first |-> s.first, last |-> s.last,
                      ref |-> IF s.err = "none" THEN dir[w.ref][s.last].ref ELSE File]
  IN walk[Len(path)]

-----------------------------------------------------------------------------
(* Adding and removing *)

(* The first k of the writes ws, each a slot number and its new content *)
Written(row, ws, k) ==
  [i \in 1 .. Len(row) |->
     LET w == {j \in 1 .. k : ws[j][1] = i} IN IF w = {} THEN row[i] ELSE ws[Max(w)][2]]

Cleared(n) == [i \in 1 .. n * SLOTS |-> EndMark]

(* The loop of dir_add: the first run of n slots that are unused, or come after
   the end mark, or are in a cluster still to be added. *)
AfterEnd(row, i) == i > Len(row) \/ \E j \in 1 .. i : sfn_is_last(row[j])
Usable(row, i) == AfterEnd(row, i) \/ sfn_is_free(row[i])
FirstRun(row, n) == Min({i \in 1 .. Len(row) + 1 : \A j \in i .. i + n - 1 : Usable(row, j)})

(* Clusters that dir_next_stretch adds: the slot after the run has to exist. *)
Missing(row, n) ==
  LET need == FirstRun(row, n) + n - Len(row)
  IN IF need <= 0 THEN 0 ELSE (need + SLOTS - 1) \div SLOTS

AddWritesNoEnd(row, name, ref) ==
  LET n == Lfns(name)
      p == FirstRun(row, n + 1)
  IN [i \in 1 .. n |-> <<p + i - 1, Lfn(name, n - i + 1)>>] \o <<<<p + n, Sfn(Short(name), ref)>>>>

(* The end mark after the run, if the run reached the old one; the fragments,
   the last one first; the short entry *)
AddWrites(row, name, ref) ==
  LET n == Lfns(name)
      p == FirstRun(row, n + 1)
  IN (IF AfterEnd(row, p + n) THEN <<<<p + n + 1, EndMark>>>> ELSE <<>>)
     \o [i \in 1 .. n |-> <<p + i - 1, Lfn(name, n - i + 1)>>]
     \o <<<<p + n, Sfn(Short(name), ref)>>>>

(* remove_entries *)
RemoveWrites(first, last) == [i \in 1 .. last - first + 1 |-> <<first + i - 1, Unused>>]

(* What a call leaves: the row of directory d, the free clusters, the error,
   and whether the row is as it was, is changed as asked, or is torn. *)
Out(row, left, err, is) == [row |-> row, pool |-> left, err |-> err, is |-> is]
Fault(outcomes) == IF faults < MAX_FAULTS THEN outcomes ELSE {}

(* A cluster is cleared after it is linked: one that was not holds junk. *)
Grown(row, left, n) ==
  IF n > left
  THEN {Out(row \o Cleared(left), 0, "full", "same")}
  ELSE {Out(row \o Cleared(n), left - n, "none", "same")} \cup
       Fault({Out(row \o Cleared(k), left - k, "io", "same") : k \in 0 .. n - 1} \cup
             {Out(row \o Cleared(k) \o [i \in 1 .. SLOTS |-> Junk], left - k - 1, "io",
                  IF k > 0 \/ AfterEnd(row, Len(row)) THEN "same" ELSE "torn") : k \in 0 .. n - 1})

(* An end mark alone does no harm; part of an entry does.  The last access is
   that of the sync_fs or the fat_file_seek that follows. *)
Stored(row, left, ws) ==
  LET all == Written(row, ws, Len(ws))
      Torn(k) == \E j \in 1 .. k : ws[j][2] # EndMark
  IN {Out(all, left, "none", "done")} \cup
     Fault({Out(all, left, "io", "done")} \cup
           {Out(Written(row, ws, k), left, "io", IF Torn(k) THEN "torn" ELSE "same") :
              k \in 0 .. Len(ws) - 1})

dir_add(row, left, name, ref) ==
  UNION {IF g.err # "none" THEN {g} ELSE Stored(g.row, g.pool, AddWrites(row, name, ref)) :
         g \in Grown(row, left, Missing(row, Lfns(name) + 1))}

Count(o) == faults' = IF o.err = "io" THEN faults + 1 ELSE faults

(* A listing of a directory that was cut into promises nothing any more. *)
Spoiled(d) == IF cursor.dir = d THEN NoCursor ELSE cursor

-----------------------------------------------------------------------------
(* The calls *)

(* fat_file_open of a new file, fat_dir_create: a cluster first (for a directory
   cleared, with its two dot entries), then dir_add.  When that fails the
   cluster is lost. *)
Create(path, ref) ==
  LET f == follow_path(path)
      d == f.at
      name == path[Len(path)]
      dots == <<Sfn(".", ref), Sfn("..", d)>> \o [i \in 1 .. SLOTS - 2 |-> EndMark]
      outcomes == IF pool = 0 THEN {Out(dir[d], 0, "full", "same")}
                  ELSE dir_add(dir[d], pool - 1, name, ref) \cup
                       Fault({Out(dir[d], left, "io", "same") : left \in {pool, pool - 1}})
  IN /\ f.err = "eof"
     /\ \E o \in outcomes :
          /\ dir' = [e \in Dirs |-> IF e = d THEN o.row
                                    ELSE IF e = ref /\ o.is = "done" THEN dots ELSE dir[e]]
          /\ pool' = o.pool
          /\ tree' = IF o.is = "done"
                     THEN [tree EXCEPT ![d] = @ \cup {[name |-> name, ref |-> ref]}] ELSE tree
          /\ hurt' = IF o.is = "torn" THEN hurt \cup {d} ELSE hurt
          /\ cursor' = IF o.is = "torn" THEN Spoiled(d) ELSE cursor
          /\ Count(o)

CreateFile(path) == Create(path, File)

fat_dir_create(path) ==
  LET unused == {d \in Dirs \ {Root} : dir[d] = <<>>}
  IN unused # {} /\ Create(path, Min(unused))

EmptyUnchecked(row) == TRUE

(* fat_unlink: a directory has to be empty after its dot entries, up to an end
   mark.  Its clusters go first, then its slots; what a failure leaves of that
   is in no directory's hands. *)
Empty(row) ==
  \E i \in 3 .. Len(row) : sfn_is_last(row[i]) /\ \A j \in 3 .. i : sfn_is_free(row[j])

fat_unlink(path) ==
  LET f == follow_path(path)
      d == f.at
      freed == IF f.ref = File THEN 1 ELSE Len(dir[f.ref]) \div SLOTS
  IN /\ f.err = "none"
     /\ f.ref # File => Empty(dir[f.ref]) /\ cursor.dir # f.ref
     /\ \E o \in Stored(dir[d], pool + freed, RemoveWrites(f.first, f.last)) :
          /\ dir' = [e \in Dirs |-> IF e = d THEN o.row ELSE IF e = f.ref THEN <<>> ELSE dir[e]]
          /\ pool' = o.pool
          /\ tree' = [tree EXCEPT ![d] = {e \in @ : e.name \notin {path[Len(path)],
                                                                   Short(path[Len(path)])}}]
          /\ hurt' = IF o.is = "done" THEN hurt ELSE Dirs
          /\ cursor' = Spoiled(d)
          /\ Count(o)

(* fat_dir_open for a listing *)
OpenDir(path) ==
  LET f == follow_path(path)
  IN /\ f.err = "none"
     /\ f.ref # File
     /\ cursor' = [dir |-> f.ref, idx |-> 1, seen |-> <<>>,
                   had |-> {e.name : e \in tree[f.ref]}, at |-> "on"]
     /\ UNCHANGED <<dir, pool, tree, hurt, faults>>

ReadStopsAtHole(row, i) ==
  IF i > Len(row) \/ sfn_is_free(row[i]) THEN Fails("eof")
  ELSE IF sfn_is_lfn(row[i]) THEN parse_lfn_name(row, i) ELSE Found(i, i)

(* fat_dir_read: the next entry from slot i on *)
fat_dir_read(row, i) ==
  LET walk[j \in i .. Len(row) + 1] ==
        IF j > Len(row) \/ sfn_is_last(row[j]) THEN Fails("eof")
        ELSE IF sfn_is_free(row[j]) THEN walk[j + 1]
        ELSE IF sfn_is_lfn(row[j]) THEN parse_lfn_name(row, j)
        ELSE Found(j, j)
  IN walk[i]

(* syscall_get_next_entry: fat_dir_read, and fat_dir_next, whose error drops
   the entry that was read. *)
syscall_get_next_entry ==
  LET row == dir[cursor.dir]
      e == fat_dir_read(row, cursor.idx)
      ends == e.err # "none" \/ e.last = Len(row)
  IN /\ cursor.at = "on"
     /\ cursor' = IF ends THEN NoCursor
                  ELSE [cursor EXCEPT !.idx = e.last + 1, !.seen = Append(@, row[e.first].name)]
     /\ UNCHANGED <<dir, pool, tree, hurt, faults>>

(* After a removal that failed nothing is promised, nor looked at, any more. *)
Next ==
  /\ hurt # Dirs
  /\ \/ \E path \in PATHS : CreateFile(path) \/ fat_dir_create(path) \/ fat_unlink(path)
     \/ \E path \in PATHS \cup {<<>>} : OpenDir(path)
     \/ syscall_get_next_entry

Spec == Init /\ [][Next]_vars

-----------------------------------------------------------------------------
(* Properties *)

(* The walk over the slots finds exactly the names that were added and not
   removed, whatever holes, old slots behind the end mark and added clusters
   there are, and although a name may be answered by a short one.  It takes
   more than a failed call to break it: the failure has to come between the
   slots of one entry. *)
LookupExact ==
  \A d \in Dirs \ hurt, n \in NAMES :
    LET s == dir_search(dir[d], n)
        known == {e \in tree[d] : e.name \in {n, Short(n)}}
    IN dir[d] # <<>> =>
         /\ s.err \in {"none", "eof"}
         /\ {e.ref : e \in known} = IF s.err = "none" THEN {dir[d][s.last].ref} ELSE {}

(* Directories are a tree: each but the root has one entry, in the directory
   its dot-dot entry names.  No directory with entries is ever removed. *)
TreeSound ==
  hurt = {} =>
    \A d \in Dirs \ {Root} :
      LET parents == {p \in Dirs : \E e \in tree[p] : e.ref = d}
      IN IF dir[d] = <<>> THEN parents = {} /\ tree[d] = {} ELSE parents = {dir[d][2].ref}

(* A listing that reaches the end reported every entry that was there when it
   began, and none twice, while others add entries; except that it drops the
   entry in the last slot of a directory that has no end mark. *)
ListingComplete ==
  [][LET row == dir[cursor.dir]
         missed == cursor.had \ {cursor.seen[i] : i \in DOMAIN cursor.seen}
     IN /\ cursor.at = "on" /\ cursor'.at = "none"
        /\ UNCHANGED <<dir, tree>> /\ cursor.dir \notin hurt
        =>
          /\ missed # {} => ~AfterEnd(row, Len(row)) /\ Cardinality(missed) = 1
          /\ \A i, j \in DOMAIN cursor.seen : cursor.seen[i] = cursor.seen[j] => i = j]_vars

=============================================================================
