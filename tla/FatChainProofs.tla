--------------------------- MODULE FatChainProofs ---------------------------
(***************************************************************************)
(* Proofs about FatChain, for any number of clusters, files and faults:    *)
(* files stay whole and apart through errors and power cuts, open handles  *)
(* stay in their files, what is kept twice agrees, and stretch_chain says  *)
(* full only when the volume is.                                           *)
(*                                                                         *)
(* The argument has four parts.  The window: a function of the library     *)
(* changes the volume seen through the window (View) in known ways, and    *)
(* leaves on the card (Card) what was there or a view it passed through.   *)
(* Chains: a chain that ends is a path of distinct clusters, which writing *)
(* elsewhere leaves alone and linking a marked cluster makes longer.       *)
(* Views: what marking, linking, entering and freeing do to a volume that  *)
(* can be mounted.  And the inductive invariant, action by action: what is *)
(* on the card is always an earlier view, so that what holds of every view *)
(* of a call holds of what a power cut leaves.                             *)
(***************************************************************************)
EXTENDS FatChain, QueueLemmas, FiniteSetTheorems

Row == [Items -> Int]

(* The volume as the library sees it through the window, and as it is on the
   card: the two copies of the FAT, the directory, the FsInfo sector. *)
View(v) == [t |-> Table(v, Active), m |-> Table(v, Mirror),
            s |-> Content(v, Directory), i |-> Content(v, Info)]
Card(v) == [t |-> DiskTable(v, Active), m |-> DiskTable(v, Mirror),
            s |-> v.disk[Directory], i |-> v.disk[Info]]

(* A window that is not dirty holds what is on the card. *)
Windowed(v) ==
  /\ v \in [disk : [Sectors -> Row], sect : Sectors \cup {NoSector}, buf : Row, dirty : BOOLEAN,
            info_dirty : BOOLEAN, last_used : Clusters, free_cnt : Int]
  /\ v.dirty => v.sect \in Sectors
  /\ v.sect \in Sectors /\ ~v.dirty => v.buf = v.disk[v.sect]

SameHints(v, w) ==
  w.info_dirty = v.info_dirty /\ w.last_used = v.last_used /\ w.free_cnt = v.free_cnt

-----------------------------------------------------------------------------
(* The window *)

LEMMA SectorItem ==
  ASSUME NEW c \in Nat, NEW d \in Nat, c \div ITEMS = d \div ITEMS, c % ITEMS = d % ITEMS
  PROVE  c = d
BY ChainAssumption

LEMMA ItemRange ==
  ASSUME NEW c \in Clusters
  PROVE  c % ITEMS \in Items /\ c \div ITEMS \in 0 .. (CLUST_CNT - 1) \div ITEMS /\ c \in Nat
BY ChainAssumption DEF Clusters, Items

LEMMA SectorFacts ==
  /\ \A c \in Clusters : \A x \in {Active, Mirror} :
       SectorOf(x, c) \in Sectors /\ SectorOf(x, c) # Info /\ SectorOf(x, c) # Directory
  /\ \A c, d \in Clusters : SectorOf(Active, c) # SectorOf(Mirror, d)
  /\ Info \in Sectors /\ Directory \in Sectors /\ Info # Directory
  /\ NoSector \notin Sectors
<1>1. \A c \in Clusters : \A x \in {Active, Mirror} : SectorOf(x, c) \in FatSectors
  BY ItemRange DEF SectorOf, FatSectors
<1>2. \A c \in Clusters : \A x \in {Active, Mirror} :
        SectorOf(x, c)[1] = x
  BY DEF SectorOf
<1>3. Info[1] = "info" /\ Directory[1] = "dir" /\ NoSector[1] = "none"
  BY DEF Info, Directory, NoSector
<1>4. \A s \in FatSectors : s[1] \in {"active", "mirror"}
  BY DEF FatSectors, Active, Mirror
<1> QED BY <1>1, <1>2, <1>3, <1>4 DEF Sectors, Active, Mirror

LEMMA SameView ==
  ASSUME NEW v, NEW w, \A s \in Sectors : Content(w, s) = Content(v, s)
  PROVE  View(w) = View(v)
BY SectorFacts DEF View, Table

LEMMA CardIsView ==
  ASSUME NEW v, NEW w, \A s \in Sectors : w.disk[s] = Content(v, s)
  PROVE  Card(w) = View(v)
BY SectorFacts DEF View, Card, Table, DiskTable

LEMMA SameCard ==
  ASSUME NEW v, NEW w, w.disk = v.disk
  PROVE  Card(w) = Card(v)
BY DEF Card, DiskTable

(* A clean window hides nothing. *)
LEMMA CleanWindow ==
  ASSUME NEW v, Windowed(v), ~v.dirty
  PROVE  Card(v) = View(v)
<1>1. \A s \in Sectors : v.disk[s] = Content(v, s)
  BY SectorFacts DEF Windowed, Content
<1> QED BY <1>1, CardIsView

LEMMA Flush ==
  ASSUME NEW v, Windowed(v), v.sect \in Sectors
  PROVE  LET w == [v EXCEPT !.disk[v.sect] = v.buf, !.dirty = FALSE]
         IN /\ Windowed(w) /\ ~w.dirty /\ SameHints(v, w)
            /\ View(w) = View(v) /\ Card(w) = View(v)
            /\ \A s \in Sectors : Content(w, s) = Content(v, s)
<1> DEFINE w == [v EXCEPT !.disk[v.sect] = v.buf, !.dirty = FALSE]
<1>1. /\ w.disk = [v.disk EXCEPT ![v.sect] = v.buf] /\ w.sect = v.sect /\ w.buf = v.buf
      /\ w.dirty = FALSE /\ SameHints(v, w)
  BY DEF Windowed, SameHints
<1>2. /\ v.disk \in [Sectors -> Row] /\ v.buf \in Row
  BY DEF Windowed
<1>3. w \in [disk : [Sectors -> Row], sect : Sectors \cup {NoSector}, buf : Row, dirty : BOOLEAN,
             info_dirty : BOOLEAN, last_used : Clusters, free_cnt : Int]
  BY DEF Windowed
<1> HIDE DEF w
<1>4. Windowed(w)
  BY <1>1, <1>2, <1>3 DEF Windowed
<1>5. \A s \in Sectors : Content(w, s) = Content(v, s) /\ w.disk[s] = Content(v, s)
  BY <1>1, <1>2 DEF Content
<1>6. View(w) = View(v) /\ Card(w) = View(v)
  BY <1>5, SameView, CardIsView
<1> QED BY <1>1, <1>4, <1>5, <1>6 DEF w

LEMMA Load ==
  ASSUME NEW v, Windowed(v), ~v.dirty, NEW sect \in Sectors
  PROVE  LET w == [v EXCEPT !.buf = v.disk[sect], !.sect = sect]
         IN /\ Windowed(w) /\ ~w.dirty /\ SameHints(v, w) /\ w.sect = sect
            /\ View(w) = View(v) /\ Card(w) = View(v)
            /\ \A s \in Sectors : Content(w, s) = Content(v, s)
<1> DEFINE w == [v EXCEPT !.buf = v.disk[sect], !.sect = sect]
<1>1. /\ w.disk = v.disk /\ w.sect = sect /\ w.buf = v.disk[sect]
      /\ w.dirty = v.dirty /\ SameHints(v, w)
  BY DEF Windowed, SameHints
<1>2. /\ v.disk \in [Sectors -> Row] /\ v.buf \in Row
  BY DEF Windowed
<1>3. w \in [disk : [Sectors -> Row], sect : Sectors \cup {NoSector}, buf : Row, dirty : BOOLEAN,
             info_dirty : BOOLEAN, last_used : Clusters, free_cnt : Int]
  BY <1>2 DEF Windowed
<1> HIDE DEF w
<1>4. Windowed(w)
  BY <1>1, <1>2, <1>3 DEF Windowed
<1>5. \A s \in Sectors : Content(w, s) = Content(v, s) /\ w.disk[s] = Content(v, s)
  BY <1>1, <1>2 DEF Content, Windowed
<1>6. View(w) = View(v) /\ Card(w) = View(v)
  BY <1>5, SameView, CardIsView
<1> QED BY <1>1, <1>4, <1>5, <1>6 DEF w

(* An item is put into the window; only that item of its sector has changed. *)
PutBuf(v, item, val) == [v EXCEPT !.buf[item] = val, !.dirty = TRUE]
ItemPut(v, w, sect, item, val) ==
  \A s \in Sectors : Content(w, s) = IF s = sect THEN [Content(v, s) EXCEPT ![item] = val]
                                    ELSE Content(v, s)

LEMMA Store ==
  ASSUME NEW v, Windowed(v), v.sect \in Sectors, NEW item \in Items, NEW val \in Int,
         NEW w, w = PutBuf(v, item, val)
  PROVE  /\ Windowed(w) /\ w.dirty /\ SameHints(v, w) /\ w.sect = v.sect
         /\ Card(w) = Card(v)
         /\ ItemPut(v, w, v.sect, item, val)
<1>1. /\ w.disk = v.disk /\ w.sect = v.sect /\ w.buf = [v.buf EXCEPT ![item] = val]
      /\ w.dirty = TRUE /\ SameHints(v, w)
  BY DEF Windowed, SameHints, PutBuf
<1>2. /\ v.disk \in [Sectors -> Row] /\ v.buf \in Row
  BY DEF Windowed
<1>3. [v.buf EXCEPT ![item] = val] \in Row
  BY <1>2 DEF Row
<1>4. w \in [disk : [Sectors -> Row], sect : Sectors \cup {NoSector}, buf : Row, dirty : BOOLEAN,
             info_dirty : BOOLEAN, last_used : Clusters, free_cnt : Int]
  BY <1>3 DEF Windowed, PutBuf
<1>5. Windowed(w)
  BY <1>1, <1>4 DEF Windowed
<1>6. ItemPut(v, w, v.sect, item, val)
  BY <1>1 DEF Content, ItemPut
<1>7. Card(w) = Card(v)
  BY <1>1, SameCard
<1> QED BY <1>1, <1>5, <1>6, <1>7

(* What the functions of the window leave: the view is as it was, and the card
   is as it was or has caught up with the view. *)
Kept(v, w) ==
  /\ Windowed(w) /\ SameHints(v, w)
  /\ View(w) = View(v)
  /\ \A s \in Sectors : Content(w, s) = Content(v, s)
  /\ Card(w) \in {Card(v), View(v)}

LEMMA KeptRefl ==
  ASSUME NEW v, Windowed(v)
  PROVE  Kept(v, v)
BY DEF Kept, SameHints

LEMMA KeptTrans ==
  ASSUME NEW u, NEW v, NEW w, Kept(u, v), Kept(v, w)
  PROVE  Kept(u, w)
BY DEF Kept, SameHints

LEMMA SyncBuf ==
  ASSUME NEW v, Windowed(v), NEW o \in sync_buf(v)
  PROVE  /\ Kept(v, o.vol) /\ o.err \in {"none", "io"}
         /\ o.err = "none" => ~o.vol.dirty /\ Card(o.vol) = View(v)
<1>1. CASE v.dirty
  <2>1. v.sect \in Sectors
    BY <1>1 DEF Windowed
  <2> DEFINE w == [v EXCEPT !.disk[v.sect] = v.buf, !.dirty = FALSE]
  <2>2. /\ Windowed(w) /\ ~w.dirty /\ SameHints(v, w)
        /\ View(w) = View(v) /\ Card(w) = View(v)
        /\ \A s \in Sectors : Content(w, s) = Content(v, s)
    BY <2>1, Flush
  <2>3. o \in {[vol |-> w, err |-> "none"], [vol |-> v, err |-> "io"]}
    BY <1>1 DEF sync_buf, Ok, Fault
  <2> HIDE DEF w
  <2>4. Kept(v, w) /\ Kept(v, v)
    BY <2>2, KeptRefl DEF Kept
  <2>5. CASE o = [vol |-> w, err |-> "none"]
    BY <2>5, <2>2, <2>4
  <2>6. CASE o = [vol |-> v, err |-> "io"]
    BY <2>6, <2>4
  <2> QED BY <2>3, <2>5, <2>6
<1>2. CASE ~v.dirty
  <2>1. o = [vol |-> v, err |-> "none"]
    BY <1>2 DEF sync_buf, Ok
  <2> QED BY <2>1, <1>2, KeptRefl, CleanWindow
<1> QED BY <1>1, <1>2

LEMMA UpdateBuf ==
  ASSUME NEW v, Windowed(v), NEW sect \in Sectors, NEW o \in update_buf(v, sect)
  PROVE  /\ Kept(v, o.vol) /\ o.err \in {"none", "io"}
         /\ o.err = "none" => o.vol.sect = sect /\ (v.sect # sect => Card(o.vol) = View(v))
<1>1. CASE v.sect = sect
  <2>1. o = [vol |-> v, err |-> "none"]
    BY <1>1 DEF update_buf, Ok
  <2> QED BY <2>1, <1>1, KeptRefl
<1>2. CASE v.sect # sect
  <2>1. PICK p \in sync_buf(v) :
          IF p.err = "none"
          THEN o \in {[vol |-> [p.vol EXCEPT !.buf = p.vol.disk[sect], !.sect = sect],
                       err |-> "none"], [vol |-> p.vol, err |-> "io"]}
          ELSE o = p
    BY <1>2 DEF update_buf, Then, Ok, Fault
  <2>2. /\ Kept(v, p.vol) /\ p.err \in {"none", "io"}
        /\ p.err = "none" => ~p.vol.dirty /\ Card(p.vol) = View(v)
    BY SyncBuf
  <2>3. CASE p.err # "none"
    BY <2>1, <2>2, <2>3
  <2>4. CASE p.err = "none"
    <3> DEFINE u == p.vol
               w == [u EXCEPT !.buf = u.disk[sect], !.sect = sect]
    <3>1. Windowed(u) /\ ~u.dirty /\ Card(u) = View(v) /\ View(u) = View(v) /\ Kept(v, u)
      BY <2>2, <2>4 DEF Kept
    <3>2. o \in {[vol |-> w, err |-> "none"], [vol |-> u, err |-> "io"]}
      BY <2>1, <2>4
    <3> HIDE DEF u
    <3>3. /\ Windowed(w) /\ ~w.dirty /\ SameHints(u, w) /\ w.sect = sect
          /\ View(w) = View(u) /\ Card(w) = View(u)
          /\ \A s \in Sectors : Content(w, s) = Content(u, s)
      BY <3>1, Load
    <3> HIDE DEF w
    <3>4. Kept(v, w)
      BY <3>1, <3>3 DEF Kept, SameHints
    <3>5. CASE o = [vol |-> w, err |-> "none"]
      BY <3>5, <3>1, <3>3, <3>4
    <3>6. CASE o = [vol |-> u, err |-> "io"]
      BY <3>6, <3>1
    <3> QED BY <3>2, <3>5, <3>6
  <2> QED BY <2>3, <2>4
<1> QED BY <1>1, <1>2

(* The view after an entry of one copy of the FAT, of the directory or of the
   FsInfo sector has been written *)
PutTable(w, x, c, val) ==
  [t |-> IF x = Active THEN [w.t EXCEPT ![c] = val] ELSE w.t,
   m |-> IF x = Mirror THEN [w.m EXCEPT ![c] = val] ELSE w.m, s |-> w.s, i |-> w.i]
PutEntry(w, f, val) == [t |-> w.t, m |-> w.m, s |-> [w.s EXCEPT ![f] = val], i |-> w.i]
PutInfo(w, last, cnt) ==
  [t |-> w.t, m |-> w.m, s |-> w.s, i |-> [[w.i EXCEPT ![0] = last] EXCEPT ![1] = cnt]]

(* What is between a view and the one put_fat leaves *)
PutBoth(w, c, val) ==
  IF MIRROR THEN PutTable(PutTable(w, Mirror, c, val), Active, c, val)
  ELSE PutTable(w, Active, c, val)
Stages(w, c, val) ==
  {w, PutBoth(w, c, val)} \cup IF MIRROR THEN {PutTable(w, Mirror, c, val)} ELSE {}

LEMMA PutItem ==
  ASSUME NEW v, Windowed(v), NEW sect \in Sectors, NEW item \in Items, NEW val \in Int,
         NEW o \in put_item(v, sect, item, val)
  PROVE  /\ o.err \in {"none", "io"}
         /\ o.err = "io" => Kept(v, o.vol)
         /\ o.err = "none" =>
              /\ Windowed(o.vol) /\ SameHints(v, o.vol) /\ o.vol.sect = sect
              /\ Card(o.vol) \in {Card(v), View(v)}
              /\ v.sect # sect => Card(o.vol) = View(v)
              /\ ItemPut(v, o.vol, sect, item, val)
<1>1. PICK p \in update_buf(v, sect) :
        IF p.err = "none"
        THEN o = [vol |-> [p.vol EXCEPT !.buf[item] = val, !.dirty = TRUE], err |-> "none"]
        ELSE o = p
  BY DEF put_item, Then, Ok
<1>2. /\ Kept(v, p.vol) /\ p.err \in {"none", "io"}
      /\ p.err = "none" => p.vol.sect = sect /\ (v.sect # sect => Card(p.vol) = View(v))
  BY UpdateBuf
<1>3. CASE p.err # "none"
  BY <1>1, <1>2, <1>3
<1>4. CASE p.err = "none"
  <2> DEFINE u == p.vol
             w == [u EXCEPT !.buf[item] = val, !.dirty = TRUE]
  <2>1. Windowed(u) /\ u.sect = sect /\ SameHints(v, u) /\ Card(u) \in {Card(v), View(v)}
    BY <1>2, <1>4 DEF Kept
  <2>2. \A s \in Sectors : Content(u, s) = Content(v, s)
    BY <1>2 DEF Kept
  <2>3. o = [vol |-> w, err |-> "none"]
    BY <1>1, <1>4
  <2> HIDE DEF u
  <2>4. /\ Windowed(w) /\ w.dirty /\ SameHints(u, w) /\ w.sect = u.sect
        /\ Card(w) = Card(u)
        /\ ItemPut(u, w, sect, item, val)
    <3>1. Windowed(u) /\ u.sect \in Sectors
      BY <2>1
    <3>2. w = PutBuf(u, item, val)
      BY DEF PutBuf
    <3> HIDE DEF w
    <3> QED BY <2>1, <3>1, <3>2, Store
  <2> HIDE DEF w
  <2>5. v.sect # sect => Card(u) = View(v)
    BY <1>2, <1>4 DEF u
  <2>6. Windowed(w) /\ SameHints(v, w) /\ w.sect = sect
    BY <2>1, <2>4 DEF SameHints
  <2>7. ItemPut(v, w, sect, item, val)
    BY <2>2, <2>4 DEF ItemPut
  <2> QED BY <2>1, <2>3, <2>4, <2>5, <2>6, <2>7
<1> QED BY <1>3, <1>4

LEMMA PutFat2 ==
  ASSUME NEW v, Windowed(v), NEW x \in {Active, Mirror}, NEW c \in Clusters, NEW val \in Int,
         NEW o \in put_fat2(v, x, c, val)
  PROVE  /\ o.err \in {"none", "io"}
         /\ o.err = "io" => Kept(v, o.vol)
         /\ o.err = "none" =>
              /\ Windowed(o.vol) /\ SameHints(v, o.vol) /\ o.vol.sect = SectorOf(x, c)
              /\ Card(o.vol) \in {Card(v), View(v)}
              /\ v.sect # SectorOf(x, c) => Card(o.vol) = View(v)
              /\ View(o.vol) = PutTable(View(v), x, c, val)
<1> DEFINE sect == SectorOf(x, c)
           item == c % ITEMS
<1>1. sect \in Sectors /\ item \in Items /\ sect # Info /\ sect # Directory
  BY SectorFacts, ItemRange
<1>2. o \in put_item(v, sect, item, val)
  BY DEF put_fat2
<1> HIDE DEF sect, item
<1>3. /\ o.err \in {"none", "io"}
      /\ o.err = "io" => Kept(v, o.vol)
      /\ o.err = "none" =>
           /\ Windowed(o.vol) /\ SameHints(v, o.vol) /\ o.vol.sect = sect
           /\ Card(o.vol) \in {Card(v), View(v)}
           /\ v.sect # sect => Card(o.vol) = View(v)
           /\ ItemPut(v, o.vol, sect, item, val)
  BY <1>1, <1>2, PutItem
<1>4. ASSUME o.err = "none" PROVE View(o.vol) = PutTable(View(v), x, c, val)
  <2> DEFINE w == o.vol
  <2>1. \A s \in Sectors : Content(w, s) = IF s = sect
                                           THEN [Content(v, s) EXCEPT ![item] = val]
                                           ELSE Content(v, s)
    BY <1>3, <1>4 DEF ItemPut
  <2>2. Windowed(w)
    BY <1>3, <1>4
  <2> HIDE DEF w
  <2>3. Content(w, Directory) = Content(v, Directory) /\ Content(w, Info) = Content(v, Info)
    BY <2>1, <1>1, SectorFacts
  <2>4. ASSUME NEW y \in {Active, Mirror}, y # x PROVE Table(w, y) = Table(v, y)
    <3>1. \A d \in Clusters : SectorOf(y, d) \in Sectors /\ SectorOf(y, d) # sect
      BY <2>4, SectorFacts DEF sect
    <3> QED BY <2>1, <3>1 DEF Table
  <2>5. Table(w, x) = [Table(v, x) EXCEPT ![c] = val]
    <3>1. ASSUME NEW d \in Clusters, d # c
          PROVE  Content(w, SectorOf(x, d))[d % ITEMS] = Content(v, SectorOf(x, d))[d % ITEMS]
      <4>1. SectorOf(x, d) \in Sectors /\ d % ITEMS \in Items
        BY SectorFacts, ItemRange
      <4>2. CASE SectorOf(x, d) # sect
        BY <4>1, <4>2, <2>1
      <4>3. CASE SectorOf(x, d) = sect
        <5>1. d \div ITEMS = c \div ITEMS
          BY <4>3 DEF SectorOf, sect
        <5>2. d % ITEMS # item
          BY <5>1, <3>1, SectorItem, ItemRange DEF item
        <5>3. Content(w, sect) = [Content(v, sect) EXCEPT ![item] = val]
          BY <1>1, <2>1
        <5> QED BY <4>3, <5>2, <5>3
      <4> QED BY <4>2, <4>3
    <3>2. Content(w, sect)[item] = val
      <4>1. Content(w, sect) = [Content(v, sect) EXCEPT ![item] = val]
        BY <1>1, <2>1
      <4>2. Content(v, sect) \in Row
        BY <1>1 DEF Content, Windowed
      <4> QED BY <4>1, <4>2, <1>1 DEF Row
    <3> QED BY <3>1, <3>2 DEF Table, sect, item
  <2>6. Active # Mirror
    BY DEF Active, Mirror
  <2>7. View(w) = PutTable(View(v), x, c, val)
    BY <2>3, <2>4, <2>5, <2>6 DEF View, PutTable
  <2> QED BY <2>7 DEF w
<1> QED BY <1>3, <1>4 DEF sect

LEMMA PutFat ==
  ASSUME NEW v, Windowed(v), NEW c \in Clusters, NEW val \in Int, NEW o \in put_fat(v, c, val)
  PROVE  /\ o.err \in {"none", "io"}
         /\ Windowed(o.vol) /\ SameHints(v, o.vol)
         /\ View(o.vol) \in Stages(View(v), c, val)
         /\ Card(o.vol) \in {Card(v)} \cup Stages(View(v), c, val)
         /\ o.err = "none" => View(o.vol) = PutBoth(View(v), c, val)
<1>0. Active \in {Active, Mirror} /\ Mirror \in {Active, Mirror}
  OBVIOUS
<1>1. CASE ~MIRROR
  <2>1. o \in put_fat2(v, Active, c, val)
    BY <1>1 DEF put_fat
  <2>2. /\ o.err \in {"none", "io"}
        /\ o.err = "io" => Kept(v, o.vol)
        /\ o.err = "none" =>
             /\ Windowed(o.vol) /\ SameHints(v, o.vol)
             /\ Card(o.vol) \in {Card(v), View(v)}
             /\ View(o.vol) = PutTable(View(v), Active, c, val)
    BY <2>1, <1>0, PutFat2
  <2> QED BY <1>1, <2>2 DEF Kept, Stages, PutBoth
<1>2. CASE MIRROR
  <2>1. PICK p \in put_fat2(v, Mirror, c, val) :
          IF p.err = "none" THEN o \in put_fat2(p.vol, Active, c, val) ELSE o = p
    BY <1>2 DEF put_fat, Then
  <2>2. /\ p.err \in {"none", "io"}
        /\ p.err = "io" => Kept(v, p.vol)
        /\ p.err = "none" =>
             /\ Windowed(p.vol) /\ SameHints(v, p.vol) /\ p.vol.sect = SectorOf(Mirror, c)
             /\ Card(p.vol) \in {Card(v), View(v)}
             /\ View(p.vol) = PutTable(View(v), Mirror, c, val)
    BY <2>1, <1>0, PutFat2
  <2>3. CASE p.err # "none"
    BY <1>2, <2>1, <2>2, <2>3 DEF Kept, Stages
  <2>4. CASE p.err = "none"
    <3>1. p.vol.sect # SectorOf(Active, c)
      BY <2>2, <2>4, SectorFacts
    <3>2. /\ o.err \in {"none", "io"}
          /\ o.err = "io" => Kept(p.vol, o.vol)
          /\ o.err = "none" =>
               /\ Windowed(o.vol) /\ SameHints(p.vol, o.vol)
               /\ Card(o.vol) = View(p.vol)
               /\ View(o.vol) = PutTable(View(p.vol), Active, c, val)
      <4>1. Windowed(p.vol) /\ o \in put_fat2(p.vol, Active, c, val)
        BY <2>1, <2>2, <2>4
      <4> QED BY <4>1, <3>1, <1>0, PutFat2
    <3> QED BY <1>2, <2>2, <2>4, <3>2 DEF Kept, Stages, PutBoth, SameHints
  <2> QED BY <2>3, <2>4
<1> QED BY <1>1, <1>2

LEMMA PutDir ==
  ASSUME NEW v, Windowed(v), NEW f \in FILES, NEW val \in Int,
         NEW o \in put_item(v, Directory, f, val)
  PROVE  /\ o.err \in {"none", "io"}
         /\ o.err = "io" => Kept(v, o.vol)
         /\ o.err = "none" =>
              /\ Windowed(o.vol) /\ SameHints(v, o.vol)
              /\ Card(o.vol) \in {Card(v), View(v)}
              /\ View(o.vol) = PutEntry(View(v), f, val)
<1>1. Directory \in Sectors /\ f \in Items
  BY SectorFacts, ChainAssumption DEF Items
<1>2. /\ o.err \in {"none", "io"}
      /\ o.err = "io" => Kept(v, o.vol)
      /\ o.err = "none" =>
           /\ Windowed(o.vol) /\ SameHints(v, o.vol)
           /\ Card(o.vol) \in {Card(v), View(v)}
           /\ ItemPut(v, o.vol, Directory, f, val)
  BY <1>1, PutItem
<1>3. ASSUME o.err = "none" PROVE View(o.vol) = PutEntry(View(v), f, val)
  <2> DEFINE w == o.vol
  <2>1. ItemPut(v, w, Directory, f, val)
    BY <1>2, <1>3
  <2> HIDE DEF w
  <2>2. Content(w, Info) = Content(v, Info)
    BY <2>1, SectorFacts DEF ItemPut
  <2>3. Content(w, Directory) = [Content(v, Directory) EXCEPT ![f] = val]
    BY <2>1, <1>1 DEF ItemPut
  <2>4. \A x \in {Active, Mirror} : Table(w, x) = Table(v, x)
    <3>1. \A x \in {Active, Mirror}, c \in Clusters :
            Content(w, SectorOf(x, c)) = Content(v, SectorOf(x, c))
      BY <2>1, SectorFacts DEF ItemPut
    <3> QED BY <3>1 DEF Table
  <2>5. View(w) = PutEntry(View(v), f, val)
    BY <2>2, <2>3, <2>4 DEF View, PutEntry
  <2> QED BY <2>5 DEF w
<1> QED BY <1>2, <1>3

(* The hints are put into the window on the FsInfo sector. *)
LEMMA PutHints ==
  ASSUME NEW v, Windowed(v), v.sect = Info, NEW w,
         w = PutBuf(PutBuf(v, 0, v.last_used), 1, v.free_cnt)
  PROVE  /\ Windowed(w) /\ SameHints(v, w) /\ Card(w) = Card(v)
         /\ View(w) = PutInfo(View(v), v.last_used, v.free_cnt)
<1>1. 0 \in Items /\ 1 \in Items /\ Info \in Sectors
  BY ChainAssumption, SectorFacts DEF Items
<1>2. v.last_used \in Int /\ v.free_cnt \in Int
  BY ChainAssumption DEF Windowed, Clusters
<1>3. PICK u : u = PutBuf(v, 0, v.last_used)
  OBVIOUS
<1>4. /\ Windowed(u) /\ SameHints(v, u) /\ u.sect = v.sect /\ Card(u) = Card(v)
      /\ ItemPut(v, u, v.sect, 0, v.last_used)
  BY <1>1, <1>2, <1>3, Store
<1>5. /\ Windowed(w) /\ SameHints(u, w) /\ Card(w) = Card(u)
      /\ ItemPut(u, w, u.sect, 1, v.free_cnt)
  BY <1>1, <1>2, <1>3, <1>4, Store
<1>6. \A s \in Sectors : s # Info => Content(w, s) = Content(v, s)
  BY <1>4, <1>5 DEF ItemPut
<1>7. Content(w, Info) = [[Content(v, Info) EXCEPT ![0] = v.last_used] EXCEPT ![1] = v.free_cnt]
  <2>1. Content(u, Info) = [Content(v, Info) EXCEPT ![0] = v.last_used]
    BY <1>1, <1>4 DEF ItemPut
  <2>2. Content(w, Info) = [Content(u, Info) EXCEPT ![1] = v.free_cnt]
    BY <1>1, <1>4, <1>5 DEF ItemPut
  <2> QED BY <2>1, <2>2
<1>8. Content(w, Directory) = Content(v, Directory)
  BY <1>6, SectorFacts
<1>9. \A x \in {Active, Mirror} : Table(w, x) = Table(v, x)
  <2>1. \A x \in {Active, Mirror}, c \in Clusters :
          Content(w, SectorOf(x, c)) = Content(v, SectorOf(x, c))
    BY <1>6, SectorFacts
  <2> QED BY <2>1 DEF Table
<1> QED BY <1>4, <1>5, <1>7, <1>8, <1>9 DEF SameHints, View, PutInfo

LEMMA SyncFs ==
  ASSUME NEW v, Windowed(v), NEW o \in sync_fs(v)
  PROVE  /\ o.err \in {"none", "io"}
         /\ Windowed(o.vol) /\ o.vol.last_used = v.last_used /\ o.vol.free_cnt = v.free_cnt
         /\ View(o.vol) \in {View(v), PutInfo(View(v), v.last_used, v.free_cnt)}
         /\ Card(o.vol) \in {Card(v), View(v), View(o.vol)}
         /\ o.err = "none" =>
              /\ ~o.vol.info_dirty /\ Card(o.vol) = View(o.vol)
              /\ View(o.vol) = IF v.info_dirty THEN PutInfo(View(v), v.last_used, v.free_cnt)
                               ELSE View(v)
         /\ o.err = "io" => o.vol.info_dirty = v.info_dirty
<1> DEFINE Rest(w) ==
      IF ~w.info_dirty
      THEN Ok(w)
      ELSE Then(update_buf(w, Info), LAMBDA x :
             Then(sync_buf([x EXCEPT !.buf[0] = x.last_used, !.buf[1] = x.free_cnt,
                                     !.dirty = TRUE]), LAMBDA y :
               Ok([y EXCEPT !.info_dirty = FALSE])))
<1>1. PICK p \in sync_buf(v) : IF p.err = "none" THEN o \in Rest(p.vol) ELSE o = p
  BY DEF sync_fs, Then
<1>2. /\ Kept(v, p.vol) /\ p.err \in {"none", "io"}
      /\ p.err = "none" => ~p.vol.dirty /\ Card(p.vol) = View(v)
  BY SyncBuf
<1>3. CASE p.err # "none"
  BY <1>1, <1>2, <1>3 DEF Kept, SameHints
<1>4. CASE p.err = "none" /\ ~p.vol.info_dirty
  <2>1. o = [vol |-> p.vol, err |-> "none"]
    BY <1>1, <1>4 DEF Ok
  <2> QED BY <2>1, <1>2, <1>4 DEF Kept, SameHints
<1>5. CASE p.err = "none" /\ p.vol.info_dirty
  <2>1. v.info_dirty /\ Windowed(p.vol) /\ Info \in Sectors
    BY <1>2, <1>5, SectorFacts DEF Kept, SameHints
  <2>2. PICK q \in update_buf(p.vol, Info) :
          IF q.err = "none"
          THEN o \in Then(sync_buf([q.vol EXCEPT !.buf[0] = q.vol.last_used,
                                                 !.buf[1] = q.vol.free_cnt, !.dirty = TRUE]),
                          LAMBDA y : Ok([y EXCEPT !.info_dirty = FALSE]))
          ELSE o = q
    <3>1. o \in Then(update_buf(p.vol, Info), LAMBDA x :
             Then(sync_buf([x EXCEPT !.buf[0] = x.last_used, !.buf[1] = x.free_cnt,
                                     !.dirty = TRUE]), LAMBDA y :
               Ok([y EXCEPT !.info_dirty = FALSE])))
      BY <1>1, <1>5
    <3> QED BY <3>1 DEF Then
  <2> HIDE DEF Rest
  <2>3. /\ Kept(p.vol, q.vol) /\ q.err \in {"none", "io"}
        /\ q.err = "none" => q.vol.sect = Info
    BY <2>1, UpdateBuf
  <2>4. /\ Kept(v, q.vol) /\ Card(q.vol) = View(v)
    BY <1>2, <1>5, <2>3 DEF Kept, SameHints
  <2>5. CASE q.err # "none"
    BY <2>2, <2>3, <2>4, <2>5 DEF Kept, SameHints
  <2>6. CASE q.err = "none"
    <3>1. PICK x : x = PutBuf(PutBuf(q.vol, 0, q.vol.last_used), 1, q.vol.free_cnt)
      OBVIOUS
    <3>2. /\ Windowed(x) /\ SameHints(q.vol, x) /\ Card(x) = Card(q.vol)
          /\ View(x) = PutInfo(View(q.vol), q.vol.last_used, q.vol.free_cnt)
      BY <2>3, <2>4, <2>6, <3>1, PutHints DEF Kept
    <3>3. x = [q.vol EXCEPT !.buf[0] = q.vol.last_used, !.buf[1] = q.vol.free_cnt,
                            !.dirty = TRUE]
      BY <3>1 DEF PutBuf
    <3>4. PICK r \in sync_buf(x) :
            IF r.err = "none" THEN o = [vol |-> [r.vol EXCEPT !.info_dirty = FALSE], err |-> "none"]
            ELSE o = r
      BY <2>2, <2>6, <3>3 DEF Then, Ok
    <3>5. /\ Kept(x, r.vol) /\ r.err \in {"none", "io"}
          /\ r.err = "none" => ~r.vol.dirty /\ Card(r.vol) = View(x)
      BY <3>2, SyncBuf
    <3>6. /\ View(x) = PutInfo(View(v), v.last_used, v.free_cnt) /\ Card(x) = View(v)
          /\ x.info_dirty = v.info_dirty /\ x.last_used = v.last_used /\ x.free_cnt = v.free_cnt
      BY <2>4, <3>2 DEF Kept, SameHints
    <3>7. CASE r.err # "none"
      BY <3>4, <3>5, <3>6, <3>7 DEF Kept, SameHints
    <3>8. CASE r.err = "none"
      <4>1. PICK y : y = [r.vol EXCEPT !.info_dirty = FALSE]
        OBVIOUS
      <4>2. o = [vol |-> y, err |-> "none"]
        BY <3>4, <3>8, <4>1
      <4>3. Windowed(r.vol)
        BY <3>5 DEF Kept
      <4>4. /\ Windowed(y) /\ ~y.info_dirty /\ y.last_used = r.vol.last_used
            /\ y.free_cnt = r.vol.free_cnt
            /\ y.disk = r.vol.disk /\ y.buf = r.vol.buf /\ y.sect = r.vol.sect
        BY <4>1, <4>3 DEF Windowed
      <4>5. Card(y) = Card(r.vol) /\ View(y) = View(r.vol)
        <5>1. \A s \in Sectors : Content(y, s) = Content(r.vol, s)
          BY <4>4 DEF Content
        <5> QED BY <4>4, <5>1, SameCard, SameView
      <4> QED BY <2>1, <3>5, <3>6, <3>8, <4>2, <4>4, <4>5 DEF Kept, SameHints
    <3> QED BY <3>5, <3>7, <3>8
  <2> QED BY <2>5, <2>6
<1> QED BY <1>2, <1>3, <1>4, <1>5

-----------------------------------------------------------------------------
(* Chains *)

(* p lists the clusters of the chain from a on in table t, n + 1 of them. *)
IsPath(t, a, p, n) ==
  /\ p \in [0 .. n -> Clusters \ {2}] /\ p[0] = a
  /\ \A i, j \in 0 .. n : p[i] = p[j] => i = j
  /\ \A i \in 0 .. n - 1 : t[p[i]] = p[i + 1]
  /\ t[p[n]] = EOC
HasPath(t, a) == \E n \in Nat : \E p : IsPath(t, a, p, n)

Reached(t, c, r) ==
  r = [n \in 0 .. CLUST_CNT |-> IF n = 0 THEN {c}
                                ELSE r[n - 1] \cup {t[d] : d \in r[n - 1] \cap Clusters}]

LEMMA ChainIs ==
  ASSUME NEW t, NEW c, NEW r, Reached(t, c, r)
  PROVE  Chain(t, c) = r[CLUST_CNT]
<1> DEFINE h == CHOOSE reach : reach = [n \in 0 .. CLUST_CNT |->
                  IF n = 0 THEN {c} ELSE reach[n - 1] \cup {t[d] : d \in reach[n - 1] \cap Clusters}]
<1>1. h = [n \in 0 .. CLUST_CNT |->
             IF n = 0 THEN {c} ELSE h[n - 1] \cup {t[d] : d \in h[n - 1] \cap Clusters}]
  BY DEF Reached
<1>2. Chain(t, c) = h[CLUST_CNT]
  BY DEF Chain
<1> HIDE DEF h
<1> DEFINE T == {n \in 0 .. CLUST_CNT : h[n] = r[n]}
<1>0. CLUST_CNT \in Nat
  BY ChainAssumption
<1>3. 0 \in T
  BY <1>0, <1>1 DEF Reached
<1>4. \A n \in 1 .. CLUST_CNT : n - 1 \in T => n \in T
  <2> SUFFICES ASSUME NEW n \in 1 .. CLUST_CNT, n - 1 \in T PROVE h[n] = r[n]
    BY <1>0
  <2>1. n \in 0 .. CLUST_CNT /\ n # 0 /\ h[n - 1] = r[n - 1]
    BY <1>0
  <2>2. h[n] = h[n - 1] \cup {t[d] : d \in h[n - 1] \cap Clusters}
    BY <1>1, <2>1
  <2>3. r[n] = r[n - 1] \cup {t[d] : d \in r[n - 1] \cap Clusters}
    BY <2>1 DEF Reached
  <2> QED BY <2>1, <2>2, <2>3
<1> HIDE DEF T
<1>5. 0 .. CLUST_CNT \subseteq T
  BY <1>0, <1>3, <1>4, UpTo
<1> QED BY <1>0, <1>2, <1>5 DEF T

LEMMA Constants3 ==
  /\ CLUST_CNT \in Nat /\ CLUST_CNT > 3 /\ 2 \in Clusters
  /\ EOC \notin Clusters /\ FREE \notin Clusters /\ BAD \notin Clusters
  /\ EOC # FREE /\ EOC # BAD /\ BAD # FREE /\ Clusters \subseteq Nat \ {0}
  /\ EOC \in Nat /\ FREE \in Nat /\ BAD \in Nat
BY ChainAssumption DEF Clusters, EOC, FREE, BAD

LEMMA PathShort ==
  ASSUME NEW t, NEW a, NEW n \in Nat, NEW p, IsPath(t, a, p, n)
  PROVE  n + 1 < CLUST_CNT
<1>1. p \in Injection(0 .. n, Clusters \ {2})
  BY DEF IsPath, Injection, IsInjective
<1>2. PICK b \in Int : b = CLUST_CNT - 1
  BY Constants3
<1>3. Clusters \ {2} = 3 .. b
  BY <1>2, Constants3 DEF Clusters
<1>4. IsFiniteSet(3 .. b) /\ Cardinality(3 .. b) = IF 3 > b THEN 0 ELSE b - 3 + 1
  BY FS_Interval
<1>5. Cardinality(0 .. n) = n + 1
  BY FS_Interval
<1>6. PICK S, T : S = 0 .. n /\ T = 3 .. b
  OBVIOUS
<1>7. p \in Injection(S, T) /\ IsFiniteSet(T)
  BY <1>1, <1>3, <1>4, <1>6
<1>8. Cardinality(S) <= Cardinality(T)
  BY <1>7, FS_Injection
<1>9. n + 1 <= IF 3 > b THEN 0 ELSE b - 3 + 1
  BY <1>4, <1>5, <1>6, <1>8
<1> QED BY <1>2, <1>9, Constants3

LEMMA ChainOfPath ==
  ASSUME NEW t, NEW a, NEW n \in Nat, NEW p, IsPath(t, a, p, n)
  PROVE  Chain(t, a) = {p[i] : i \in 0 .. n} \cup {EOC}
<1> DEFINE Up(k) == {p[i] : i \in {j \in 0 .. n : j <= k}} \cup IF k > n THEN {EOC} ELSE {}
           r == [k \in 0 .. CLUST_CNT |-> Up(k)]
<1>0. CLUST_CNT \in Nat /\ n + 1 < CLUST_CNT /\ EOC \notin Clusters
  BY Constants3, PathShort
<1>1. /\ p[0] = a /\ \A i \in 0 .. n : p[i] \in Clusters
      /\ \A i \in 0 .. n - 1 : t[p[i]] = p[i + 1]
      /\ t[p[n]] = EOC
  BY DEF IsPath
<1>2. Up(0) = {a}
  BY <1>1
<1>3. ASSUME NEW k \in 1 .. CLUST_CNT
      PROVE  Up(k) = Up(k - 1) \cup {t[d] : d \in Up(k - 1) \cap Clusters}
  <2>0. k \in Nat /\ k - 1 \in Nat /\ k - 1 + 1 = k
    BY <1>0
  <2>1. Up(k - 1) \subseteq Up(k)
    BY <2>0
  <2>2. ASSUME NEW d \in Up(k - 1) \cap Clusters PROVE t[d] \in Up(k)
    <3>1. PICK i \in 0 .. n : i <= k - 1 /\ d = p[i]
      BY <1>0, <2>2
    <3>2. CASE i < n
      <4>1. t[d] = p[i + 1] /\ i + 1 \in 0 .. n /\ i + 1 <= k
        BY <1>1, <2>0, <3>1, <3>2
      <4> QED BY <4>1
    <3>3. CASE i = n
      <4>1. t[d] = EOC /\ k > n
        BY <1>1, <2>0, <3>1, <3>3
      <4> QED BY <4>1
    <3> QED BY <3>1, <3>2, <3>3
  <2>3. ASSUME NEW e \in Up(k), e \notin Up(k - 1)
        PROVE  e \in {t[d] : d \in Up(k - 1) \cap Clusters}
    <3>1. CASE e \in {p[i] : i \in {j \in 0 .. n : j <= k}}
      <4>1. PICK i \in 0 .. n : i <= k /\ e = p[i]
        BY <3>1
      <4>2. i = k
        <5>1. ~(i <= k - 1)
          BY <2>3, <4>1
        <5> QED BY <4>1, <5>1, <2>0
      <4>3. k - 1 \in 0 .. n - 1 /\ k - 1 \in 0 .. n /\ t[p[k - 1]] = e
        BY <1>1, <2>0, <4>1, <4>2
      <4>4. p[k - 1] \in Up(k - 1) \cap Clusters
        BY <4>3, <1>1, <2>0
      <4> QED BY <4>3, <4>4
    <3>2. CASE e = EOC /\ k > n
      <4>1. ~(k - 1 > n)
        BY <2>3, <3>2
      <4>2. k - 1 = n
        BY <4>1, <3>2, <2>0
      <4>3. p[n] \in Up(k - 1) \cap Clusters
        BY <4>2, <1>1, <2>0
      <4> QED BY <4>3, <3>2, <1>1
    <3> QED BY <2>3, <3>1, <3>2
  <2> HIDE DEF Up
  <2> QED BY <2>1, <2>2, <2>3
<1>4. Reached(t, a, r)
  <2>1. ASSUME NEW k \in 0 .. CLUST_CNT
        PROVE  r[k] = IF k = 0 THEN {a} ELSE r[k - 1] \cup {t[d] : d \in r[k - 1] \cap Clusters}
    <3>1. CASE k = 0
      <4>1. r[k] = Up(0)
        BY <3>1
      <4> HIDE DEF r, Up
      <4> QED BY <4>1, <1>2, <3>1
    <3>2. CASE k # 0
      <4>1. k \in 1 .. CLUST_CNT /\ k - 1 \in 0 .. CLUST_CNT
        BY <1>0, <3>2
      <4>2. r[k] = Up(k) /\ r[k - 1] = Up(k - 1)
        BY <4>1
      <4> HIDE DEF r, Up
      <4> QED BY <4>1, <4>2, <1>3, <3>2
    <3> QED BY <3>1, <3>2
  <2>2. r = [k \in 0 .. CLUST_CNT |-> r[k]]
    OBVIOUS
  <2> HIDE DEF r
  <2> QED BY <2>1, <2>2 DEF Reached
<1>5. r[CLUST_CNT] = Up(CLUST_CNT)
  BY <1>0
<1>6. Up(CLUST_CNT) = {p[i] : i \in 0 .. n} \cup {EOC}
  BY <1>0
<1> HIDE DEF r, Up
<1> QED BY <1>4, <1>5, <1>6, ChainIs

LEMMA PathFacts ==
  ASSUME NEW t, NEW a, HasPath(t, a)
  PROVE  /\ a \in Clusters \ {2} /\ a \in Chain(t, a) /\ EOC \in Chain(t, a)
         /\ Chain(t, a) \subseteq (Clusters \ {2}) \cup {EOC}
         /\ \A d \in Chain(t, a) \cap Clusters : t[d] \in Chain(t, a)
<1>0. PICK n \in Nat : \E q : IsPath(t, a, q, n)
  BY DEF HasPath
<1>1. PICK p : IsPath(t, a, p, n)
  BY <1>0
<1>2. Chain(t, a) = {p[i] : i \in 0 .. n} \cup {EOC}
  BY <1>1, ChainOfPath
<1>3. /\ p[0] = a /\ 0 \in 0 .. n /\ \A i \in 0 .. n : p[i] \in Clusters \ {2}
      /\ \A i \in 0 .. n - 1 : t[p[i]] = p[i + 1]
      /\ t[p[n]] = EOC
  BY <1>1 DEF IsPath
<1>4. ASSUME NEW d \in Chain(t, a) \cap Clusters PROVE t[d] \in Chain(t, a)
  <2>1. PICK i \in 0 .. n : d = p[i]
    BY <1>2, <1>4, Constants3
  <2>2. CASE i = n
    BY <2>1, <2>2, <1>2, <1>3
  <2>3. CASE i # n
    <3>1. i \in 0 .. n - 1 /\ i + 1 \in 0 .. n
      BY <2>3
    <3> QED BY <2>1, <3>1, <1>2, <1>3
  <2> QED BY <2>2, <2>3
<1> QED BY <1>2, <1>3, <1>4

(* A chain is as it was when none of its clusters has changed. *)
LEMMA ChainKept ==
  ASSUME NEW t, NEW u, NEW a, HasPath(t, a), \A d \in Chain(t, a) \cap Clusters : u[d] = t[d]
  PROVE  HasPath(u, a) /\ Chain(u, a) = Chain(t, a)
<1>0. PICK n \in Nat : \E q : IsPath(t, a, q, n)
  BY DEF HasPath
<1>1. PICK p : IsPath(t, a, p, n)
  BY <1>0
<1>2. Chain(t, a) = {p[i] : i \in 0 .. n} \cup {EOC}
  BY <1>1, ChainOfPath
<1>3. \A i \in 0 .. n : p[i] \in Chain(t, a) \cap Clusters
  BY <1>1, <1>2 DEF IsPath
<1>4. IsPath(u, a, p, n)
  <2>1. \A i \in 0 .. n : u[p[i]] = t[p[i]]
    BY <1>3
  <2> QED BY <1>1, <2>1 DEF IsPath
<1>5. Chain(u, a) = {p[i] : i \in 0 .. n} \cup {EOC}
  BY <1>4, ChainOfPath
<1> QED BY <1>2, <1>4, <1>5 DEF HasPath

(* A chain whose last cluster is linked to a new one, also in a table that
   went on from there. *)
LEMMA ChainExtended ==
  ASSUME NEW t, NEW u, NEW a, HasPath(t, a), NEW e \in Chain(t, a) \cap Clusters, t[e] = EOC,
         NEW c \in Clusters \ {2}, c \notin Chain(t, a), u[e] = c, u[c] = EOC,
         \A d \in Chain(t, a) \cap Clusters : t[d] \in Clusters => u[d] = t[d]
  PROVE  HasPath(u, a) /\ Chain(u, a) = Chain(t, a) \cup {c}
<1>0. PICK n \in Nat : \E q : IsPath(t, a, q, n)
  BY DEF HasPath
<1>1. PICK p : IsPath(t, a, p, n)
  BY <1>0
<1>2. Chain(t, a) = {p[i] : i \in 0 .. n} \cup {EOC}
  BY <1>1, ChainOfPath
<1>3. /\ p[0] = a /\ \A i \in 0 .. n : p[i] \in Clusters \ {2} /\ p[i] \in Chain(t, a) \cap Clusters
      /\ \A i, j \in 0 .. n : p[i] = p[j] => i = j
      /\ \A i \in 0 .. n - 1 : t[p[i]] = p[i + 1]
  BY <1>1, <1>2 DEF IsPath
<1>4. e = p[n]
  <2>1. PICK i \in 0 .. n : e = p[i]
    BY <1>2, Constants3
  <2>2. CASE i # n
    <3>1. i \in 0 .. n - 1 /\ i + 1 \in 0 .. n
      BY <2>2
    <3>2. t[e] \in Clusters
      BY <2>1, <3>1, <1>3
    <3> QED BY <3>2, Constants3
  <2> QED BY <2>1, <2>2
<1> DEFINE q == [i \in 0 .. n + 1 |-> IF i <= n THEN p[i] ELSE c]
<1>5. /\ \A i \in 0 .. n : q[i] = p[i] /\ i \in 0 .. n + 1
      /\ q[n + 1] = c /\ n + 1 \in 0 .. n + 1
      /\ \A i \in 0 .. n + 1 : i \in 0 .. n \/ i = n + 1
  OBVIOUS
<1>6. q \in [0 .. n + 1 -> Clusters \ {2}]
  BY <1>3
<1> HIDE DEF q
<1>7. \A i, j \in 0 .. n + 1 : q[i] = q[j] => i = j
  BY <1>3, <1>5
<1>8. \A i \in 0 .. n : u[q[i]] = q[i + 1]
  <2> SUFFICES ASSUME NEW i \in 0 .. n PROVE u[q[i]] = q[i + 1]
    OBVIOUS
  <2>1. CASE i = n
    BY <2>1, <1>4, <1>5
  <2>2. CASE i # n
    <3>1. i \in 0 .. n - 1 /\ i + 1 \in 0 .. n
      BY <2>2
    <3>2. t[p[i]] = p[i + 1] /\ p[i + 1] \in Clusters
      BY <3>1, <1>3
    <3>3. u[p[i]] = p[i + 1]
      BY <3>2, <1>3
    <3> QED BY <3>1, <3>3, <1>5
  <2> QED BY <2>1, <2>2
<1>9. IsPath(u, a, q, n + 1)
  <2>1. q[0] = a /\ n + 1 - 1 = n /\ u[q[n + 1]] = EOC
    BY <1>3, <1>5
  <2> QED BY <1>6, <1>7, <1>8, <2>1 DEF IsPath
<1>10. n + 1 \in Nat /\ Chain(u, a) = {q[i] : i \in 0 .. n + 1} \cup {EOC}
  BY <1>9, ChainOfPath
<1>11. {q[i] : i \in 0 .. n + 1} = {p[i] : i \in 0 .. n} \cup {c}
  BY <1>5
<1> QED BY <1>2, <1>9, <1>10, <1>11 DEF HasPath

LEMMA ChainSingle ==
  ASSUME NEW t, NEW c \in Clusters \ {2}, t[c] = EOC
  PROVE  HasPath(t, c) /\ Chain(t, c) = {c, EOC}
<1>1. PICK p : p = [i \in 0 .. 0 |-> c]
  OBVIOUS
<1>2. IsPath(t, c, p, 0)
  BY <1>1 DEF IsPath
<1>3. Chain(t, c) = {p[i] : i \in 0 .. 0} \cup {EOC}
  BY <1>2, ChainOfPath
<1>4. {p[i] : i \in 0 .. 0} = {c}
  BY <1>1
<1> QED BY <1>2, <1>3, <1>4 DEF HasPath

(* The first cluster and the rest of a chain *)
LEMMA ChainTail ==
  ASSUME NEW t, NEW a, HasPath(t, a)
  PROVE  /\ t[a] \in Clusters \cup {EOC}
         /\ t[a] = EOC => Chain(t, a) = {a, EOC}
         /\ t[a] # EOC => HasPath(t, t[a]) /\ Chain(t, t[a]) = Chain(t, a) \ {a}
<1>0. PICK n \in Nat : \E q : IsPath(t, a, q, n)
  BY DEF HasPath
<1>1. PICK p : IsPath(t, a, p, n)
  BY <1>0
<1>2. Chain(t, a) = {p[i] : i \in 0 .. n} \cup {EOC}
  BY <1>1, ChainOfPath
<1>3. /\ p[0] = a /\ \A i \in 0 .. n : p[i] \in Clusters \ {2}
      /\ \A i, j \in 0 .. n : p[i] = p[j] => i = j
      /\ \A i \in 0 .. n - 1 : t[p[i]] = p[i + 1]
      /\ t[p[n]] = EOC
  BY <1>1 DEF IsPath
<1>4. CASE n = 0
  <2>1. t[a] = EOC
    BY <1>3, <1>4
  <2>2. {p[i] : i \in 0 .. n} = {a}
    BY <1>3, <1>4
  <2> QED BY <2>1, <2>2, <1>2
<1>5. CASE n # 0
  <2>1. 0 \in 0 .. n - 1 /\ 0 \in 0 .. n /\ 0 + 1 = 1 /\ 1 \in 0 .. n /\ n - 1 \in Nat
    BY <1>5
  <2>2. t[a] = p[1] /\ p[1] \in Clusters \ {2} /\ t[a] # EOC
    BY <2>1, <1>3, Constants3
  <2> DEFINE q == [i \in 0 .. n - 1 |-> p[i + 1]]
  <2>3. \A i \in 0 .. n - 1 : q[i] = p[i + 1] /\ i + 1 \in 0 .. n /\ i \in 0 .. n
    BY <2>1
  <2>4. q \in [0 .. n - 1 -> Clusters \ {2}]
    BY <2>3, <1>3
  <2> HIDE DEF q
  <2>5. \A i, j \in 0 .. n - 1 : q[i] = q[j] => i = j
    <3> SUFFICES ASSUME NEW i \in 0 .. n - 1, NEW j \in 0 .. n - 1, q[i] = q[j] PROVE i = j
      OBVIOUS
    <3>1. i + 1 = j + 1
      BY <2>3, <1>3
    <3> QED BY <3>1
  <2>6. \A i \in 0 .. n - 1 - 1 : t[q[i]] = q[i + 1]
    <3> SUFFICES ASSUME NEW i \in 0 .. n - 1 - 1 PROVE t[q[i]] = q[i + 1]
      OBVIOUS
    <3>1. i \in 0 .. n - 1 /\ i + 1 \in 0 .. n - 1
      OBVIOUS
    <3>2. t[p[i + 1]] = p[i + 1 + 1]
      BY <3>1, <1>3
    <3> QED BY <3>1, <3>2, <2>3
  <2>7. q[0] = t[a] /\ t[q[n - 1]] = EOC
    <3>1. n - 1 \in 0 .. n - 1 /\ n - 1 + 1 = n
      BY <2>1
    <3> QED BY <2>1, <2>2, <2>3, <3>1, <1>3
  <2>8. IsPath(t, t[a], q, n - 1)
    BY <2>4, <2>5, <2>6, <2>7 DEF IsPath
  <2>9. Chain(t, t[a]) = {q[i] : i \in 0 .. n - 1} \cup {EOC}
    BY <2>1, <2>8, ChainOfPath
  <2>10. {q[i] : i \in 0 .. n - 1} = {p[i] : i \in 0 .. n} \ {a}
    <3>1. \A i \in 0 .. n - 1 : q[i] \in {p[j] : j \in 0 .. n} /\ q[i] # a
      <4> SUFFICES ASSUME NEW i \in 0 .. n - 1
                   PROVE  q[i] \in {p[j] : j \in 0 .. n} /\ q[i] # a
        OBVIOUS
      <4>1. i + 1 # 0
        OBVIOUS
      <4> QED BY <4>1, <2>1, <2>3, <1>3
    <3>2. \A j \in 0 .. n : p[j] # a => p[j] \in {q[i] : i \in 0 .. n - 1}
      <4> SUFFICES ASSUME NEW j \in 0 .. n, p[j] # a PROVE p[j] \in {q[i] : i \in 0 .. n - 1}
        OBVIOUS
      <4>1. j # 0
        BY <1>3
      <4>2. j - 1 \in 0 .. n - 1 /\ j - 1 + 1 = j
        BY <4>1
      <4>3. q[j - 1] = p[j]
        BY <4>2, <2>3
      <4> QED BY <4>2, <4>3
    <3> QED BY <3>1, <3>2
  <2>11. a # EOC
    BY <1>3, <2>1, Constants3
  <2> QED BY <1>2, <2>1, <2>2, <2>8, <2>9, <2>10, <2>11 DEF HasPath
<1> QED BY <1>4, <1>5

-----------------------------------------------------------------------------
(* Views *)

FatVal == Clusters \cup {FREE, EOC, BAD}
ViewType(w) ==
  /\ w.t \in [Clusters -> FatVal] /\ w.m \in [Clusters -> FatVal]
  /\ w.s \in Row /\ \A f \in FILES : w.s[f] \in Clusters \cup {0}
  /\ w.i \in Row /\ w.i[0] \in Clusters

Copies == IF MIRROR THEN {Active, Mirror} ELSE {Active}
Tab(w, x) == IF x = Active THEN w.t ELSE w.m

(* The clusters of file f, in any copy *)
Claims(w, f) ==
  IF w.s[f] = 0 THEN {} ELSE UNION {Chain(Tab(w, x), w.s[f]) \cap Clusters : x \in Copies}

(* Where the first copy goes on, the second does too. *)
Follows(w) == MIRROR => \A d \in Clusters : w.t[d] \in Clusters => w.m[d] = w.t[d]

(* Whoever mounts a card like this finds all files whole, except those in X. *)
Mountable(w, X) ==
  /\ Follows(w)
  /\ \A x \in Copies : Tab(w, x)[2] = EOC
  /\ \A x \in Copies, f \in FILES \ X : w.s[f] # 0 => HasPath(Tab(w, x), w.s[f])
  /\ \A f, g \in FILES \ X : f # g => Claims(w, f) \cap Claims(w, g) = {}
  /\ \A f \in FILES \ X : \A c \in Claims(w, f) : w.t[c] # FREE

(* Cluster c is marked, and no file has it. *)
Fresh(w, c) ==
  /\ c \in Clusters \ {2}
  /\ \A x \in Copies : Tab(w, x)[c] = EOC
  /\ \A f \in FILES : c \notin Claims(w, f)

LEMMA CopyFacts ==
  /\ Active # Mirror /\ Active \in Copies
  /\ \A x \in Copies : x \in {Active, Mirror} /\ (x = Mirror => MIRROR)
  /\ MIRROR => Mirror \in Copies
  /\ \A w : Tab(w, Active) = w.t /\ Tab(w, Mirror) = w.m
BY DEF Copies, Active, Mirror, Tab

LEMMA ClaimsFacts ==
  ASSUME NEW w, NEW f, w.s[f] # 0
  PROVE  /\ Claims(w, f) \subseteq Clusters
         /\ \A x \in Copies : Chain(Tab(w, x), w.s[f]) \cap Clusters \subseteq Claims(w, f)
         /\ \A c \in Claims(w, f) : \E x \in Copies : c \in Chain(Tab(w, x), w.s[f])
BY DEF Claims

LEMMA ClaimsSame ==
  ASSUME NEW w, NEW u, NEW f, u.s[f] = w.s[f],
         w.s[f] # 0 => \A x \in Copies : Chain(Tab(u, x), w.s[f]) = Chain(Tab(w, x), w.s[f])
  PROVE  Claims(u, f) = Claims(w, f)
<1>1. CASE w.s[f] = 0
  BY <1>1 DEF Claims
<1>2. CASE w.s[f] # 0
  BY <1>2 DEF Claims
<1> QED BY <1>1, <1>2

(* Nothing but cluster c has changed. *)
SameBut(w, u, c) ==
  u.s = w.s /\ \A d \in Clusters \ {c} : u.t[d] = w.t[d] /\ u.m[d] = w.m[d]

LEMMA SameButTab ==
  ASSUME NEW w, NEW u, NEW c, SameBut(w, u, c)
  PROVE  \A x \in Copies : \A d \in Clusters \ {c} : Tab(u, x)[d] = Tab(w, x)[d]
BY DEF SameBut, Tab

(* A cluster that no file has may be given any value. *)
LEMMA Elsewhere ==
  ASSUME NEW w, NEW u, NEW X, Mountable(w, X), NEW c \in Clusters \ {2}, SameBut(w, u, c),
         Follows(u), \A f \in FILES \ X : c \notin Claims(w, f)
  PROVE  /\ Mountable(u, X)
         /\ \A f \in FILES \ X : Claims(u, f) = Claims(w, f)
         /\ \A f \in FILES \ X : w.s[f] # 0 => Chain(u.t, w.s[f]) = Chain(w.t, w.s[f])
<1>1. ASSUME NEW f \in FILES \ X, w.s[f] # 0, NEW x \in Copies
      PROVE  HasPath(Tab(u, x), w.s[f]) /\ Chain(Tab(u, x), w.s[f]) = Chain(Tab(w, x), w.s[f])
  <2>1. HasPath(Tab(w, x), w.s[f])
    BY <1>1 DEF Mountable
  <2>2. \A d \in Chain(Tab(w, x), w.s[f]) \cap Clusters : Tab(u, x)[d] = Tab(w, x)[d]
    <3>1. c \notin Chain(Tab(w, x), w.s[f]) \cap Clusters
      BY <1>1, ClaimsFacts
    <3> QED BY <3>1, SameButTab
  <2> QED BY <2>1, <2>2, ChainKept
<1>2. u.s = w.s
  BY DEF SameBut
<1>3. ASSUME NEW f \in FILES \ X PROVE Claims(u, f) = Claims(w, f)
  BY <1>1, <1>2, ClaimsSame
<1>4. \A x \in Copies : Tab(u, x)[2] = EOC
  BY SameButTab, Constants3 DEF Mountable
<1>5. \A f \in FILES \ X : \A d \in Claims(u, f) : u.t[d] # FREE
  <2> SUFFICES ASSUME NEW f \in FILES \ X, NEW d \in Claims(w, f) PROVE u.t[d] # FREE
    BY <1>3
  <2>1. d \in Clusters /\ d # c
    BY ClaimsFacts DEF Claims
  <2> QED BY <2>1 DEF SameBut, Mountable
<1>6. \A f \in FILES \ X : w.s[f] # 0 => Chain(u.t, w.s[f]) = Chain(w.t, w.s[f])
  BY <1>1, CopyFacts
<1>7. \A x \in Copies, f \in FILES \ X : u.s[f] # 0 => HasPath(Tab(u, x), u.s[f])
  BY <1>1, <1>2
<1>8. \A f, g \in FILES \ X : f # g => Claims(u, f) \cap Claims(u, g) = {}
  BY <1>3 DEF Mountable
<1> QED BY <1>3, <1>4, <1>5, <1>6, <1>7, <1>8 DEF Mountable

(* The last cluster of a file is linked to a marked one, in the second copy or
   in all of them. *)
LEMMA Linked ==
  ASSUME NEW w, NEW u, Mountable(w, {}), NEW file \in FILES, w.s[file] # 0,
         NEW prev \in Chain(w.t, w.s[file]) \cap Clusters, w.t[prev] = EOC,
         NEW c, Fresh(w, c), SameBut(w, u, prev), Follows(u),
         \A x \in Copies : Tab(u, x)[prev] \in {c, Tab(w, x)[prev]}
  PROVE  /\ Mountable(u, {})
         /\ \A f \in FILES \ {file} : w.s[f] # 0 => Chain(u.t, w.s[f]) = Chain(w.t, w.s[f])
         /\ u.t[prev] = c => Chain(u.t, w.s[file]) = Chain(w.t, w.s[file]) \cup {c}
<1>0. Fresh(w, c)
  OBVIOUS
<1>1. /\ c \in Clusters \ {2} /\ \A x \in Copies : Tab(w, x)[c] = EOC
      /\ \A f \in FILES : c \notin Claims(w, f)
  BY <1>0 DEF Fresh
<1>2. u.s = w.s /\ \A x \in Copies : \A d \in Clusters \ {prev} : Tab(u, x)[d] = Tab(w, x)[d]
  BY SameButTab DEF SameBut
<1>3. HasPath(w.t, w.s[file]) /\ \A x \in Copies : HasPath(Tab(w, x), w.s[file])
  BY CopyFacts DEF Mountable
<1>4. prev \in Claims(w, file) /\ prev # c /\ prev # 2 /\ c \notin Chain(w.t, w.s[file])
  <2>1. Chain(w.t, w.s[file]) \cap Clusters \subseteq Claims(w, file)
    BY ClaimsFacts, CopyFacts
  <2>2. prev # 2
    BY <1>3, PathFacts, Constants3
  <2> QED BY <1>1, <2>1, <2>2
<1>5. ASSUME NEW x \in Copies, Tab(u, x)[prev] = c
      PROVE  /\ HasPath(Tab(u, x), w.s[file])
             /\ Chain(Tab(u, x), w.s[file]) = Chain(w.t, w.s[file]) \cup {c}
  <2> DEFINE t == w.t
             v == Tab(u, x)
             a == w.s[file]
  <2>1. v[c] = EOC
    BY <1>1, <1>2, <1>4
  <2>2. ASSUME NEW d \in Chain(t, a) \cap Clusters, t[d] \in Clusters PROVE v[d] = t[d]
    <3>1. d # prev
      BY <2>2, Constants3
    <3>2. Tab(w, x)[d] = t[d]
      BY <2>2, CopyFacts DEF Mountable, Follows
    <3> QED BY <3>1, <3>2, <1>2
  <2>3. /\ HasPath(t, a) /\ prev \in Chain(t, a) \cap Clusters /\ t[prev] = EOC
        /\ c \in Clusters \ {2} /\ c \notin Chain(t, a) /\ v[prev] = c /\ v[c] = EOC
    BY <1>1, <1>3, <1>4, <1>5, <2>1
  <2> HIDE DEF t, v, a
  <2>4. HasPath(v, a) /\ Chain(v, a) = Chain(t, a) \cup {c}
    BY <2>2, <2>3, ChainExtended
  <2> QED BY <2>4 DEF t, v, a
<1>6. ASSUME NEW x \in Copies, Tab(u, x)[prev] # c
      PROVE  /\ HasPath(Tab(u, x), w.s[file])
             /\ Chain(Tab(u, x), w.s[file]) = Chain(Tab(w, x), w.s[file])
  <2>1. \A d \in Chain(Tab(w, x), w.s[file]) \cap Clusters : Tab(u, x)[d] = Tab(w, x)[d]
    BY <1>2, <1>6
  <2> QED BY <2>1, <1>3, ChainKept
<1>7. ASSUME NEW f \in FILES \ {file}, w.s[f] # 0, NEW x \in Copies
      PROVE  HasPath(Tab(u, x), w.s[f]) /\ Chain(Tab(u, x), w.s[f]) = Chain(Tab(w, x), w.s[f])
  <2>1. HasPath(Tab(w, x), w.s[f])
    BY <1>7 DEF Mountable
  <2>2. prev \notin Claims(w, f)
    BY <1>4, <1>7 DEF Mountable
  <2>3. prev \notin Chain(Tab(w, x), w.s[f])
    BY <2>2, <1>7, ClaimsFacts
  <2>4. \A d \in Chain(Tab(w, x), w.s[f]) \cap Clusters : Tab(u, x)[d] = Tab(w, x)[d]
    BY <2>3, <1>2
  <2> QED BY <2>1, <2>4, ChainKept
<1>8. ASSUME NEW f \in FILES \ {file} PROVE Claims(u, f) = Claims(w, f)
  BY <1>2, <1>7, <1>8, ClaimsSame
<1>9. Claims(u, file) \subseteq Claims(w, file) \cup {c}
  <2>1. ASSUME NEW d \in Claims(u, file) PROVE d \in Claims(w, file) \cup {c}
    <3>1. PICK x \in Copies : d \in Chain(Tab(u, x), w.s[file]) /\ d \in Clusters
      BY <1>2, <2>1, ClaimsFacts
    <3>2. d \in Chain(w.t, w.s[file]) \cup {c} \/ d \in Chain(Tab(w, x), w.s[file])
      BY <3>1, <1>5, <1>6
    <3>3. \A y \in Copies : Chain(Tab(w, y), w.s[file]) \cap Clusters \subseteq Claims(w, file)
      BY ClaimsFacts
    <3> QED BY <3>1, <3>2, <3>3, CopyFacts
  <2> QED BY <2>1
<1>10. \A x \in Copies : Tab(u, x)[2] = EOC
  BY <1>2, <1>4, Constants3 DEF Mountable
<1>11. \A x \in Copies, f \in FILES : u.s[f] # 0 => HasPath(Tab(u, x), u.s[f])
  BY <1>2, <1>5, <1>6, <1>7
<1>12. \A f, g \in FILES : f # g => Claims(u, f) \cap Claims(u, g) = {}
  <2>1. \A g \in FILES \ {file} : Claims(u, file) \cap Claims(u, g) = {}
    <3> SUFFICES ASSUME NEW g \in FILES \ {file}, NEW d \in Claims(u, file), d \in Claims(u, g)
                 PROVE  FALSE
      OBVIOUS
    <3>1. d \in Claims(w, g) /\ d \in Claims(w, file) \cup {c}
      BY <1>8, <1>9
    <3> QED BY <3>1, <1>1 DEF Mountable
  <2>2. \A f, g \in FILES \ {file} : f # g => Claims(u, f) \cap Claims(u, g) = {}
    BY <1>8 DEF Mountable
  <2> QED BY <2>1, <2>2
<1>13. \A f \in FILES : \A d \in Claims(u, f) : u.t[d] # FREE
  <2> SUFFICES ASSUME NEW f \in FILES, NEW d \in Claims(u, f) PROVE u.t[d] # FREE
    OBVIOUS
  <2>1. d \in Claims(w, f) \/ d = c
    BY <1>8, <1>9
  <2>2. d \in Clusters
    BY ClaimsFacts DEF Claims
  <2>3. w.t[d] # FREE
    BY <2>1, <1>1, CopyFacts, Constants3 DEF Mountable
  <2>4. CASE d = prev
    BY <2>3, <2>4, <1>1, CopyFacts, Constants3
  <2>5. CASE d # prev
    BY <2>2, <2>3, <2>5, <1>2, CopyFacts
  <2> QED BY <2>4, <2>5
<1>14. Mountable(u, {})
  BY <1>10, <1>11, <1>12, <1>13 DEF Mountable
<1>15. \A f \in FILES \ {file} : w.s[f] # 0 => Chain(u.t, w.s[f]) = Chain(w.t, w.s[f])
  BY <1>7, CopyFacts
<1>16. u.t[prev] = c => Chain(u.t, w.s[file]) = Chain(w.t, w.s[file]) \cup {c}
  BY <1>5, CopyFacts
<1> QED BY <1>14, <1>15, <1>16

(* A directory entry is given a marked cluster, or none. *)
LEMMA Entered ==
  ASSUME NEW w, NEW u, NEW X, Mountable(w, X), w.s \in Row, NEW file \in FILES, X \subseteq {file},
         NEW val \in Int, u = PutEntry(w, file, val),
         val # 0 => Fresh(w, val)
  PROVE  /\ Mountable(u, {})
         /\ u.s[file] = val
         /\ \A f \in FILES \ {file} : u.s[f] = w.s[f]
         /\ val # 0 => val \in Chain(u.t, val)
<1>0. val # 0 => Fresh(w, val)
  OBVIOUS
<1>1. /\ u.t = w.t /\ u.m = w.m /\ u.s[file] = val
      /\ \A f \in FILES \ {file} : u.s[f] = w.s[f]
      /\ \A x \in Copies : Tab(u, x) = Tab(w, x)
  <2>1. file \in Items
    BY ChainAssumption DEF Items
  <2> QED BY <2>1 DEF PutEntry, Row, Tab
<1>2. ASSUME NEW f \in FILES \ {file} PROVE Claims(u, f) = Claims(w, f) /\ f \notin X
  BY <1>1, ClaimsSame
<1>3. ASSUME val # 0, NEW x \in Copies
      PROVE  HasPath(Tab(u, x), val) /\ Chain(Tab(u, x), val) = {val, EOC}
  BY <1>0, <1>1, <1>3, ChainSingle DEF Fresh
<1>4. Claims(u, file) \subseteq {val} \ {0}
  <2>1. CASE val = 0
    BY <1>1, <2>1 DEF Claims
  <2>2. CASE val # 0
    <3>1. ASSUME NEW d \in Claims(u, file) PROVE d = val
      <4>1. PICK x \in Copies : d \in Chain(Tab(u, x), val) /\ d \in Clusters
        BY <1>1, <2>2, <3>1, ClaimsFacts
      <4> QED BY <4>1, <1>3, <2>2, Constants3
    <3> QED BY <2>2, <3>1
  <2> QED BY <2>1, <2>2
<1>5. \A f, g \in FILES : f # g => Claims(u, f) \cap Claims(u, g) = {}
  <2>1. \A g \in FILES \ {file} : Claims(u, file) \cap Claims(u, g) = {}
    BY <1>0, <1>2, <1>4 DEF Fresh
  <2>2. \A f, g \in FILES \ {file} : f # g => Claims(u, f) \cap Claims(u, g) = {}
    BY <1>2 DEF Mountable
  <2> QED BY <2>1, <2>2
<1>6. \A f \in FILES : \A d \in Claims(u, f) : u.t[d] # FREE
  <2>1. \A d \in Claims(u, file) : u.t[d] # FREE
    BY <1>0, <1>1, <1>4, CopyFacts, Constants3 DEF Fresh
  <2>2. \A f \in FILES \ {file} : \A d \in Claims(u, f) : u.t[d] # FREE
    BY <1>1, <1>2 DEF Mountable
  <2> QED BY <2>1, <2>2
<1>7. \A x \in Copies, f \in FILES : u.s[f] # 0 => HasPath(Tab(u, x), u.s[f])
  <2>1. \A x \in Copies, f \in FILES \ {file} : u.s[f] # 0 => HasPath(Tab(u, x), u.s[f])
    BY <1>1, <1>2 DEF Mountable
  <2> QED BY <2>1, <1>1, <1>3
<1>8. Follows(u) /\ \A x \in Copies : Tab(u, x)[2] = EOC
  BY <1>1 DEF Mountable, Follows
<1>9. val # 0 => val \in Chain(u.t, val)
  BY <1>3, CopyFacts
<1> QED BY <1>1, <1>5, <1>6, <1>7, <1>8, <1>9 DEF Mountable

(* The FsInfo sector is no part of any file. *)
LEMMA SameFiles ==
  ASSUME NEW w, NEW u, u.t = w.t, u.m = w.m, u.s = w.s
  PROVE  /\ \A X : Mountable(w, X) => Mountable(u, X)
         /\ \A f : Claims(u, f) = Claims(w, f)
         /\ \A c : Fresh(w, c) => Fresh(u, c)
<1>1. \A x : Tab(u, x) = Tab(w, x)
  BY DEF Tab
<1>2. \A f : Claims(u, f) = Claims(w, f)
  BY <1>1 DEF Claims
<1>3. Follows(w) => Follows(u)
  BY DEF Follows
<1>4. ASSUME NEW X, Mountable(w, X) PROVE Mountable(u, X)
  BY <1>1, <1>2, <1>3, <1>4 DEF Mountable
<1>5. ASSUME NEW c, Fresh(w, c) PROVE Fresh(u, c)
  BY <1>1, <1>2, <1>5 DEF Fresh
<1> QED BY <1>2, <1>4, <1>5

(* A file whose removal begins: its chain is nobody else's. *)
LEMMA RemovalBegins ==
  ASSUME NEW w, Mountable(w, {}), NEW file \in FILES, w.s[file] # 0
  PROVE  /\ Mountable(w, {file}) /\ HasPath(w.t, w.s[file])
         /\ \A g \in FILES \ {file} : Chain(w.t, w.s[file]) \cap Claims(w, g) = {}
<1>1. Mountable(w, {file})
  BY DEF Mountable
<1>2. HasPath(w.t, w.s[file])
  BY CopyFacts DEF Mountable
<1>3. ASSUME NEW g \in FILES \ {file}, NEW d \in Claims(w, g) PROVE d \notin Chain(w.t, w.s[file])
  <2>1. d \in Clusters
    BY DEF Claims
  <2>2. d \notin Claims(w, file)
    BY <1>3 DEF Mountable
  <2> QED BY <2>1, <2>2, ClaimsFacts, CopyFacts
<1> QED BY <1>1, <1>2, <1>3

(* u is w with cluster c given the value val in some copies, or in all. *)
InStages(w, u, c, val) ==
  /\ SameBut(w, u, c) /\ u.s = w.s /\ u.i = w.i
  /\ u.t \in [Clusters -> FatVal] /\ u.m \in [Clusters -> FatVal]
  /\ u.t[c] \in {w.t[c], val} /\ u.m[c] \in {w.m[c], val}
  /\ MIRROR /\ u.t[c] # w.t[c] => u.m[c] = val
AtLast(w, u, c, val) ==
  /\ u.t = [w.t EXCEPT ![c] = val]
  /\ MIRROR => u.m = [w.m EXCEPT ![c] = val]
  /\ \A x \in Copies : Tab(u, x)[c] = val

LEMMA PutBothFacts ==
  ASSUME NEW w, w.t \in [Clusters -> FatVal], w.m \in [Clusters -> FatVal],
         NEW c \in Clusters, NEW val \in FatVal, NEW u \in Stages(w, c, val)
  PROVE  InStages(w, u, c, val) /\ (u = PutBoth(w, c, val) => AtLast(w, u, c, val))
<1>0. Active # Mirror
  BY CopyFacts
<1>1. ASSUME u = PutBoth(w, c, val) PROVE AtLast(w, u, c, val)
  <2>1. /\ u.t = [w.t EXCEPT ![c] = val] /\ u.s = w.s /\ u.i = w.i
        /\ u.m = IF MIRROR THEN [w.m EXCEPT ![c] = val] ELSE w.m
    BY <1>0, <1>1 DEF PutBoth, PutTable
  <2> QED BY <2>1, CopyFacts DEF AtLast, Tab
<1>2. ASSUME u = w PROVE InStages(w, u, c, val)
  BY <1>2 DEF InStages, SameBut
<1>3. ASSUME u = PutBoth(w, c, val) PROVE InStages(w, u, c, val)
  <2>1. /\ u.t = [w.t EXCEPT ![c] = val] /\ u.s = w.s /\ u.i = w.i
        /\ u.m = IF MIRROR THEN [w.m EXCEPT ![c] = val] ELSE w.m
    BY <1>0, <1>3 DEF PutBoth, PutTable
  <2> QED BY <2>1 DEF InStages, SameBut
<1>4. ASSUME MIRROR, u = PutTable(w, Mirror, c, val) PROVE InStages(w, u, c, val)
  <2>1. u.t = w.t /\ u.s = w.s /\ u.i = w.i /\ u.m = [w.m EXCEPT ![c] = val]
    BY <1>0, <1>4 DEF PutTable
  <2> QED BY <2>1 DEF InStages, SameBut
<1> QED BY <1>1, <1>2, <1>3, <1>4 DEF Stages

(* A free cluster is marked. *)
LEMMA MarkStages ==
  ASSUME NEW w, w.t \in [Clusters -> FatVal], w.m \in [Clusters -> FatVal],
         Mountable(w, {}), NEW c \in Clusters, w.t[c] = FREE, NEW u \in Stages(w, c, EOC)
  PROVE  /\ Mountable(u, {}) /\ u.s = w.s
         /\ \A f \in FILES : w.s[f] # 0 => Chain(u.t, w.s[f]) = Chain(w.t, w.s[f])
         /\ u = PutBoth(w, c, EOC) => Fresh(u, c)
<1>1. PICK e \in FatVal : e = EOC /\ u \in Stages(w, c, e)
  BY DEF FatVal
<1>2. /\ SameBut(w, u, c) /\ u.s = w.s
      /\ u.t[c] \in {w.t[c], EOC}
      /\ u = PutBoth(w, c, EOC) => \A x \in Copies : Tab(u, x)[c] = EOC
  <2>1. InStages(w, u, c, e) /\ (u = PutBoth(w, c, e) => AtLast(w, u, c, e))
    BY <1>1, PutBothFacts
  <2> QED BY <1>1, <2>1 DEF InStages, AtLast
<1>3. c # 2 /\ \A f \in FILES \ {} : c \notin Claims(w, f)
  BY CopyFacts, Constants3 DEF Mountable
<1>4. Follows(u)
  <2> SUFFICES ASSUME MIRROR, NEW d \in Clusters, u.t[d] \in Clusters PROVE u.m[d] = u.t[d]
    BY DEF Follows
  <2>1. d # c
    BY <1>2, Constants3
  <2>2. u.t[d] = w.t[d] /\ u.m[d] = w.m[d]
    BY <1>2, <2>1 DEF SameBut
  <2> QED BY <2>2 DEF Mountable, Follows
<1>5. /\ Mountable(u, {})
      /\ \A f \in FILES \ {} : Claims(u, f) = Claims(w, f)
      /\ \A f \in FILES \ {} : w.s[f] # 0 => Chain(u.t, w.s[f]) = Chain(w.t, w.s[f])
  BY <1>2, <1>3, <1>4, Elsewhere
<1>6. u = PutBoth(w, c, EOC) => Fresh(u, c)
  BY <1>2, <1>3, <1>5 DEF Fresh
<1> QED BY <1>2, <1>5, <1>6

(* A marked cluster is linked to the end of a file. *)
LEMMA LinkStages ==
  ASSUME NEW w, w.t \in [Clusters -> FatVal], w.m \in [Clusters -> FatVal],
         Mountable(w, {}), NEW file \in FILES, w.s[file] # 0,
         NEW prev \in Chain(w.t, w.s[file]) \cap Clusters, w.t[prev] = EOC,
         NEW c, Fresh(w, c), NEW u \in Stages(w, prev, c)
  PROVE  /\ Mountable(u, {}) /\ u.s = w.s
         /\ \A f \in FILES : w.s[f] # 0 => Chain(w.t, w.s[f]) \subseteq Chain(u.t, w.s[f])
         /\ u = PutBoth(w, prev, c) => c \in Chain(u.t, w.s[file])
<1>1. c \in FatVal /\ c \in Clusters
  BY DEF FatVal, Fresh
<1>2. /\ SameBut(w, u, prev) /\ u.s = w.s
      /\ u.t[prev] \in {w.t[prev], c} /\ u.m[prev] \in {w.m[prev], c}
      /\ MIRROR /\ u.t[prev] # w.t[prev] => u.m[prev] = c
      /\ u = PutBoth(w, prev, c) => u.t = [w.t EXCEPT ![prev] = c]
  <2>1. InStages(w, u, prev, c) /\ (u = PutBoth(w, prev, c) => AtLast(w, u, prev, c))
    BY <1>1, PutBothFacts
  <2> QED BY <2>1 DEF InStages, AtLast
<1>3. Follows(u)
  <2> SUFFICES ASSUME MIRROR, NEW d \in Clusters, u.t[d] \in Clusters PROVE u.m[d] = u.t[d]
    BY DEF Follows
  <2>1. CASE d # prev
    <3>1. u.t[d] = w.t[d] /\ u.m[d] = w.m[d]
      BY <1>2, <2>1 DEF SameBut
    <3> QED BY <3>1 DEF Mountable, Follows
  <2>2. CASE d = prev
    BY <1>2, <2>2, Constants3
  <2> QED BY <2>1, <2>2
<1>4. \A x \in Copies : Tab(u, x)[prev] \in {c, Tab(w, x)[prev]}
  BY <1>2, CopyFacts
<1>5. /\ Mountable(u, {})
      /\ \A f \in FILES \ {file} : w.s[f] # 0 => Chain(u.t, w.s[f]) = Chain(w.t, w.s[f])
      /\ u.t[prev] = c => Chain(u.t, w.s[file]) = Chain(w.t, w.s[file]) \cup {c}
  BY <1>2, <1>3, <1>4, Linked
<1>6. u.t[prev] # c => Chain(u.t, w.s[file]) = Chain(w.t, w.s[file])
  <2> SUFFICES ASSUME u.t[prev] # c PROVE Chain(u.t, w.s[file]) = Chain(w.t, w.s[file])
    OBVIOUS
  <2>1. HasPath(w.t, w.s[file])
    BY CopyFacts DEF Mountable
  <2>2. \A d \in Chain(w.t, w.s[file]) \cap Clusters : u.t[d] = w.t[d]
    BY <1>2 DEF SameBut
  <2> QED BY <2>1, <2>2, ChainKept
<1>7. u = PutBoth(w, prev, c) => u.t[prev] = c
  BY <1>2
<1> QED BY <1>2, <1>5, <1>6, <1>7

(* The first cluster of what is left of a removed file is freed. *)
LEMMA FreeHead ==
  ASSUME NEW w, w.t \in [Clusters -> FatVal], w.m \in [Clusters -> FatVal],
         NEW file \in FILES, Mountable(w, {file}), NEW c \in Clusters, HasPath(w.t, c),
         \A g \in FILES \ {file} : Chain(w.t, c) \cap Claims(w, g) = {},
         NEW u, u = PutBoth(w, c, FREE)
  PROVE  /\ Mountable(u, {file}) /\ u.s = w.s
         /\ \A f \in FILES \ {file} : w.s[f] # 0 => Chain(u.t, w.s[f]) = Chain(w.t, w.s[f])
         /\ w.t[c] \in Clusters \cup {EOC} /\ u.t = [w.t EXCEPT ![c] = FREE]
         /\ w.t[c] # EOC =>
              /\ HasPath(u.t, w.t[c])
              /\ \A g \in FILES \ {file} : Chain(u.t, w.t[c]) \cap Claims(u, g) = {}
<1>1. FREE \in FatVal /\ u \in Stages(w, c, FREE)
  BY DEF FatVal, Stages
<1>2. SameBut(w, u, c) /\ u.s = w.s /\ u.t = [w.t EXCEPT ![c] = FREE]
  <2>1. PICK e \in FatVal : e = FREE
    BY <1>1
  <2>2. InStages(w, u, c, e) /\ AtLast(w, u, c, e)
    BY <1>1, <2>1, PutBothFacts
  <2> QED BY <2>1, <2>2 DEF InStages, AtLast
<1>3. /\ c # 2 /\ c \in Chain(w.t, c)
      /\ Chain(w.t, c) \subseteq (Clusters \ {2}) \cup {EOC}
  BY PathFacts
<1>4. \A f \in FILES \ {file} : c \notin Claims(w, f)
  BY <1>3
<1>5. Follows(u)
  <2> SUFFICES ASSUME MIRROR, NEW d \in Clusters, u.t[d] \in Clusters PROVE u.m[d] = u.t[d]
    BY DEF Follows
  <2>1. d # c
    BY <1>2, Constants3
  <2>2. u.t[d] = w.t[d] /\ u.m[d] = w.m[d]
    BY <1>2, <2>1 DEF SameBut
  <2> QED BY <2>2 DEF Mountable, Follows
<1>6. /\ Mountable(u, {file})
      /\ \A f \in FILES \ {file} : Claims(u, f) = Claims(w, f)
      /\ \A f \in FILES \ {file} : w.s[f] # 0 => Chain(u.t, w.s[f]) = Chain(w.t, w.s[f])
  BY <1>2, <1>3, <1>4, <1>5, Elsewhere
<1>7. /\ w.t[c] \in Clusters \cup {EOC}
      /\ w.t[c] # EOC => HasPath(w.t, w.t[c]) /\ Chain(w.t, w.t[c]) = Chain(w.t, c) \ {c}
  BY ChainTail
<1>8. ASSUME w.t[c] # EOC
      PROVE  HasPath(u.t, w.t[c]) /\ Chain(u.t, w.t[c]) = Chain(w.t, w.t[c])
  <2>1. \A d \in Chain(w.t, w.t[c]) \cap Clusters : u.t[d] = w.t[d]
    BY <1>2, <1>7, <1>8
  <2> QED BY <2>1, <1>7, <1>8, ChainKept
<1> QED BY <1>2, <1>6, <1>7, <1>8

(* What Mountable means to FilesIntact *)
LEMMA MountableConsistent ==
  ASSUME NEW w, Mountable(w, {}), NEW x \in Copies
  PROVE  Consistent(Tab(w, x), w.s)
<1>1. ASSUME NEW f \in FILES, w.s[f] # 0
      PROVE  /\ Chain(Tab(w, x), w.s[f]) \subseteq (Clusters \ {2}) \cup {EOC}
             /\ EOC \in Chain(Tab(w, x), w.s[f])
             /\ Chain(Tab(w, x), w.s[f]) \cap Clusters \subseteq Claims(w, f)
  <2>1. HasPath(Tab(w, x), w.s[f])
    BY <1>1 DEF Mountable
  <2> QED BY <1>1, <2>1, PathFacts, ClaimsFacts
<1>2. ASSUME NEW f \in FILES, NEW g \in FILES, w.s[f] # 0, w.s[g] # 0, f # g
      PROVE  Chain(Tab(w, x), w.s[f]) \cap Chain(Tab(w, x), w.s[g]) = {EOC}
  <2>1. Claims(w, f) \cap Claims(w, g) = {}
    BY <1>2 DEF Mountable
  <2> QED BY <1>1, <1>2, <2>1
<1>3. Tab(w, x)[2] = EOC
  BY DEF Mountable
<1> QED BY <1>1, <1>2, <1>3 DEF Consistent

-----------------------------------------------------------------------------
(* Free clusters *)

FreeIn(t) == {c \in Clusters : t[c] = FREE}
FreeCnt(t) == Cardinality(FreeIn(t))

LEMMA FreeFacts ==
  /\ IsFiniteSet(Clusters)
  /\ \A t : IsFiniteSet(FreeIn(t)) /\ FreeCnt(t) \in Nat
<1>1. PICK a \in Int, b \in Int : a = 2 /\ b = CLUST_CNT - 1
  BY Constants3
<1>2. IsFiniteSet(a .. b)
  BY FS_Interval
<1>3. IsFiniteSet(Clusters)
  BY <1>1, <1>2 DEF Clusters
<1>4. ASSUME NEW t PROVE IsFiniteSet(FreeIn(t)) /\ FreeCnt(t) \in Nat
  <2>1. PICK S : S = FreeIn(t)
    OBVIOUS
  <2>2. S \subseteq Clusters
    BY <2>1 DEF FreeIn
  <2>3. IsFiniteSet(S)
    BY <1>3, <2>2, FS_Subset
  <2>4. Cardinality(S) \in Nat
    BY <2>3, FS_CardinalityType
  <2> QED BY <2>1, <2>3, <2>4 DEF FreeCnt
<1> QED BY <1>3, <1>4

LEMMA FreeMarked ==
  ASSUME NEW t \in [Clusters -> FatVal], NEW c \in Clusters, t[c] = FREE,
         NEW val \in FatVal, val # FREE, NEW u, u = [t EXCEPT ![c] = val]
  PROVE  FreeCnt(u) = FreeCnt(t) - 1
<1>1. PICK S : S = FreeIn(t)
  OBVIOUS
<1>2. FreeIn(u) = S \ {c} /\ c \in S
  BY <1>1 DEF FreeIn
<1>3. IsFiniteSet(S)
  BY <1>1, FreeFacts
<1>4. Cardinality(S \ {c}) = Cardinality(S) - 1
  BY <1>2, <1>3, FS_RemoveElement
<1> QED BY <1>1, <1>2, <1>4 DEF FreeCnt

LEMMA FreeFreed ==
  ASSUME NEW t \in [Clusters -> FatVal], NEW c \in Clusters, t[c] # FREE,
         NEW u, u = [t EXCEPT ![c] = FREE]
  PROVE  FreeCnt(u) = FreeCnt(t) + 1
<1>1. PICK S : S = FreeIn(t)
  OBVIOUS
<1>2. FreeIn(u) = S \cup {c} /\ c \notin S
  BY <1>1 DEF FreeIn
<1>3. IsFiniteSet(S)
  BY <1>1, FreeFacts
<1>4. Cardinality(S \cup {c}) = Cardinality(S) + 1
  BY <1>2, <1>3, FS_AddElement
<1> QED BY <1>1, <1>2, <1>4 DEF FreeCnt

LEMMA FreeSame ==
  ASSUME NEW t \in [Clusters -> FatVal], NEW c \in Clusters, t[c] # FREE,
         NEW val \in FatVal, val # FREE, NEW u, u = [t EXCEPT ![c] = val]
  PROVE  FreeCnt(u) = FreeCnt(t)
<1>1. FreeIn(u) = FreeIn(t)
  BY DEF FreeIn
<1> QED BY <1>1 DEF FreeCnt

(* A table of the volume while a cluster is given a value *)
LEMMA StageTable ==
  ASSUME NEW w, w.t \in [Clusters -> FatVal], NEW c, NEW val, NEW u, InStages(w, u, c, val)
  PROVE  u.t \in {w.t, [w.t EXCEPT ![c] = val]}
<1>1. /\ u.t \in [Clusters -> FatVal] /\ u.t[c] \in {w.t[c], val}
      /\ \A d \in Clusters \ {c} : u.t[d] = w.t[d]
  BY DEF InStages, SameBut
<1>2. CASE u.t[c] = w.t[c]
  BY <1>1, <1>2
<1>3. CASE u.t[c] = val
  BY <1>1, <1>3
<1> QED BY <1>1, <1>2, <1>3

LEMMA StageTypes ==
  ASSUME NEW w, ViewType(w), NEW u, NEW c, NEW val, InStages(w, u, c, val)
  PROVE  ViewType(u)
BY DEF ViewType, InStages

LEMMA InfoTypes ==
  ASSUME NEW w, ViewType(w), NEW last \in Clusters, NEW cnt \in Int,
         NEW u, u = PutInfo(w, last, cnt)
  PROVE  ViewType(u) /\ u.t = w.t /\ u.m = w.m /\ u.s = w.s /\ u.i[1] = cnt
<1>1. 0 \in Items /\ 1 \in Items /\ last \in Int
  BY ChainAssumption, Constants3 DEF Items
<1>2. u.t = w.t /\ u.m = w.m /\ u.s = w.s /\ u.i = [[w.i EXCEPT ![0] = last] EXCEPT ![1] = cnt]
  BY DEF PutInfo
<1>3. w.i \in Row
  BY DEF ViewType
<1>4. u.i \in Row /\ u.i[0] = last /\ u.i[1] = cnt
  BY <1>1, <1>2, <1>3 DEF Row
<1> QED BY <1>2, <1>4 DEF ViewType

LEMMA EntryTypes ==
  ASSUME NEW w, ViewType(w), NEW f \in FILES, NEW val \in Clusters \cup {0},
         NEW u, u = PutEntry(w, f, val)
  PROVE  ViewType(u) /\ u.t = w.t /\ u.m = w.m /\ u.i = w.i
<1>1. f \in Items /\ val \in Int
  BY ChainAssumption, Constants3 DEF Items
<1>2. u.t = w.t /\ u.m = w.m /\ u.i = w.i /\ u.s = [w.s EXCEPT ![f] = val]
  BY DEF PutEntry
<1>3. w.s \in Row /\ \A g \in FILES : w.s[g] \in Clusters \cup {0}
  BY DEF ViewType
<1>4. u.s \in Row /\ \A g \in FILES : u.s[g] \in Clusters \cup {0}
  BY <1>1, <1>2, <1>3 DEF Row
<1> QED BY <1>2, <1>4 DEF ViewType

(* What get_fat and a look at the directory read *)
LEMMA ReadEntry ==
  ASSUME NEW v, NEW c \in Clusters, v.sect = SectorOf(Active, c)
  PROVE  Entry(v, c) = View(v).t[c]
BY DEF Entry, View, Table, Content

LEMMA ReadDir ==
  ASSUME NEW v, v.sect = Directory
  PROVE  v.buf = View(v).s
BY DEF View, Content

-----------------------------------------------------------------------------
(* The inductive invariant, over a volume v, a call c, the handles p and the
   history h *)

CallType(c) ==
  /\ c \in [op : {"none", "wild", "create", "extend", "unlink"},
            at : {"none", "stretch", "scan", "mark", "link", "finish", "enter", "remove", "sync"},
            file : FILES \cup {0}, prev : Clusters \cup {0}, clust : Clusters \cup {0}]
  /\ (c.at = "none") <=> c.op \in {"none", "wild"}
  /\ (c.op = "unlink") <=> c.at \in {"remove", "sync"}
  /\ c.at = "enter" => c.op = "create"
  /\ c.at = "link" => c.op = "extend"
  /\ c.op \in {"create", "extend", "unlink"} => c.file \in FILES
  /\ c.op = "create" => c.prev = 0
  /\ c.op = "extend" => c.prev \in Clusters
  /\ c.at \in {"scan", "mark", "link", "finish", "enter", "remove"} => c.clust \in Clusters

HurtType(h) == h \in [faults : Nat, removal : BOOLEAN] /\ (h.faults = 0 => ~h.removal)

VolType(v) == Windowed(v) /\ ViewType(View(v)) /\ ViewType(Card(v))

Types(v, c, p, h) ==
  VolType(v) /\ CallType(c) /\ p \in [FILES -> Clusters \cup {0}] /\ HurtType(h)

(* The scan has found no free cluster between last_used and where it is. *)
Passed(last, at, d) == IF at >= last THEN last < d /\ d <= at ELSE last < d \/ d <= at
Scanned(v, c) ==
  c.at = "scan" => \A d \in Clusters : Passed(v.last_used, c.clust, d) => View(v).t[d] # FREE

(* An open handle stands on its file, and its file is not being removed. *)
InChains(w, p) == \A f \in FILES : p[f] # 0 => w.s[f] # 0 /\ p[f] \in Chain(w.t, w.s[f])
Handles(w, c, p) ==
  InChains(w, p) /\ (c.op = "unlink" => \A f \in FILES : p[f] # 0 => f # c.file)

(* What each place of a call has done so far *)
Staged(w, c, p) ==
  /\ c.op = "extend" => c.prev = p[c.file]
  /\ c.op = "extend" /\ c.at # "finish" => w.t[c.prev] = EOC
  /\ c.op = "extend" /\ c.at = "finish" => c.clust \in Chain(w.t, w.s[c.file])
  /\ c.at = "mark" => w.t[c.clust] = FREE
  /\ c.at \in {"link", "enter"} \/ (c.op = "create" /\ c.at = "finish") => Fresh(w, c.clust)
  /\ c.at = "remove" =>
       /\ HasPath(w.t, c.clust)
       /\ \A g \in FILES \ {c.file} : Chain(w.t, c.clust) \cap Claims(w, g) = {}

(* Between the mark and the end of stretch_chain, a cluster is in use that
   free_cnt still counts. *)
Pending(c) == IF c.at \in {"link", "finish"} THEN 1 ELSE 0
Counts(v, c, h) ==
  /\ v.free_cnt >= FreeCnt(View(v).t) + Pending(c)
  /\ h.faults = 0 => /\ v.free_cnt = FreeCnt(View(v).t) + Pending(c)
                     /\ MIRROR => View(v).t = View(v).m
  /\ h.faults = 0 /\ ~v.info_dirty => View(v).i[1] = v.free_cnt /\ Card(v).i[1] = v.free_cnt
  /\ c.at \in {"scan", "mark", "link", "finish", "sync"} => v.info_dirty

(* A card that may be mounted: its count of free clusters is not too small. *)
Whole(w) == Mountable(w, {}) /\ w.i[1] >= FreeCnt(w.t)
Files(v, c) ==
  IF c.op = "unlink" THEN Mountable(View(v), {c.file}) ELSE Whole(View(v)) /\ Whole(Card(v))

Unhurt(v, c, p, h) ==
  /\ Handles(View(v), c, p) /\ Staged(View(v), c, p)
  /\ Counts(v, c, h) /\ Files(v, c)

Sound(v, c, p, h) == Types(v, c, p, h) /\ Scanned(v, c) /\ (~h.removal => Unhurt(v, c, p, h))

(* The state after an error in call c *)
HurtBy(c, h) == [faults |-> h.faults + 1, removal |-> h.removal \/ c.op = "unlink"]

LEMMA HurtByType ==
  ASSUME NEW c, NEW h, HurtType(h)
  PROVE  HurtType(HurtBy(c, h)) /\ HurtBy(c, h).faults # 0
         /\ (~HurtBy(c, h).removal => ~h.removal /\ c.op # "unlink")
<1>1. PICK g : g = HurtBy(c, h)
  OBVIOUS
<1>2. g.faults = h.faults + 1 /\ g.removal = (h.removal \/ c.op = "unlink")
  BY <1>1 DEF HurtBy
<1>3. h.faults \in Nat
  BY DEF HurtType
<1>4. g.faults \in Nat /\ g.faults # 0
  BY <1>2, <1>3
<1>5. g \in [faults : Nat, removal : BOOLEAN]
  BY <1>1, <1>2, <1>4 DEF HurtBy
<1> QED BY <1>1, <1>2, <1>4, <1>5 DEF HurtType

(* A call that ends: only the files and the count matter. *)
LEMMA Ended ==
  ASSUME NEW v, NEW p, NEW h, NEW e \in {Idle, [Idle EXCEPT !.op = "wild"]},
         VolType(v), p \in [FILES -> Clusters \cup {0}], HurtType(h),
         ~h.removal => /\ InChains(View(v), p) /\ Whole(View(v)) /\ Whole(Card(v))
                       /\ Counts(v, Idle, h)
  PROVE  Sound(v, e, p, h)
<1>1. e.op \in {"none", "wild"} /\ e.at = "none" /\ CallType(e)
  BY DEF Idle, CallType
<1>2. Types(v, e, p, h) /\ Scanned(v, e)
  BY <1>1 DEF Types, Scanned
<1>3. ASSUME ~h.removal PROVE Unhurt(v, e, p, h)
  <2>1. Handles(View(v), e, p)
    BY <1>1, <1>3 DEF Handles
  <2>2. Staged(View(v), e, p)
    BY <1>1 DEF Staged
  <2>3. Counts(v, e, h)
    BY <1>1, <1>3 DEF Counts, Pending, Idle
  <2>4. Files(v, e)
    BY <1>1, <1>3 DEF Files
  <2> QED BY <2>1, <2>2, <2>3, <2>4 DEF Unhurt
<1> QED BY <1>2, <1>3 DEF Sound

LEMMA Abort ==
  ASSUME NEW v, NEW c, NEW p, NEW h, NEW e \in {Idle, [Idle EXCEPT !.op = "wild"]},
         VolType(v), p \in [FILES -> Clusters \cup {0}], HurtType(h),
         ~h.removal /\ c.op # "unlink" =>
           /\ InChains(View(v), p) /\ Whole(View(v)) /\ Whole(Card(v))
           /\ v.free_cnt >= FreeCnt(View(v).t)
  PROVE  Sound(v, e, p, HurtBy(c, h))
<1>1. PICK g : g = HurtBy(c, h)
  OBVIOUS
<1>2. HurtType(g) /\ g.faults # 0 /\ (~g.removal => ~h.removal /\ c.op # "unlink")
  BY <1>1, HurtByType
<1>3. ~g.removal => /\ InChains(View(v), p) /\ Whole(View(v)) /\ Whole(Card(v))
                    /\ Counts(v, Idle, g)
  <2> SUFFICES ASSUME ~g.removal
               PROVE  /\ InChains(View(v), p) /\ Whole(View(v)) /\ Whole(Card(v))
                      /\ Counts(v, Idle, g)
    OBVIOUS
  <2>1. /\ InChains(View(v), p) /\ Whole(View(v)) /\ Whole(Card(v))
        /\ v.free_cnt >= FreeCnt(View(v).t)
    BY <1>2
  <2>2. Idle.at = "none" /\ FreeCnt(View(v).t) \in Nat /\ v.free_cnt \in Int
    BY FreeFacts DEF Idle, VolType, Windowed
  <2> QED BY <1>2, <2>1, <2>2 DEF Counts, Pending
<1>4. Sound(v, e, p, g)
  BY <1>2, <1>3, Ended
<1> QED BY <1>1, <1>4

(* What holds in a call also allows it to be given up. *)
LEMMA SoundFacts ==
  ASSUME NEW v, NEW c, NEW p, NEW h, Sound(v, c, p, h)
  PROVE  /\ VolType(v) /\ CallType(c) /\ p \in [FILES -> Clusters \cup {0}] /\ HurtType(h)
         /\ v.free_cnt \in Int /\ FreeCnt(View(v).t) \in Nat
         /\ ~h.removal =>
              /\ InChains(View(v), p) /\ Handles(View(v), c, p) /\ Staged(View(v), c, p)
              /\ Counts(v, c, h) /\ Files(v, c)
              /\ v.free_cnt >= FreeCnt(View(v).t)
              /\ c.op # "unlink" => Whole(View(v)) /\ Whole(Card(v)) /\ Mountable(View(v), {})
<1>1. /\ VolType(v) /\ CallType(c) /\ p \in [FILES -> Clusters \cup {0}] /\ HurtType(h)
      /\ v.free_cnt \in Int /\ FreeCnt(View(v).t) \in Nat
  BY FreeFacts DEF Sound, Types, VolType, Windowed
<1>2. ASSUME ~h.removal
      PROVE  /\ Handles(View(v), c, p) /\ Staged(View(v), c, p) /\ Counts(v, c, h) /\ Files(v, c)
  BY <1>2 DEF Sound, Unhurt
<1>3. ASSUME ~h.removal PROVE v.free_cnt >= FreeCnt(View(v).t) /\ InChains(View(v), p)
  BY <1>1, <1>2, <1>3 DEF Counts, Pending, Handles
<1>4. ASSUME ~h.removal, c.op # "unlink"
      PROVE  Whole(View(v)) /\ Whole(Card(v)) /\ Mountable(View(v), {})
  BY <1>2, <1>4 DEF Files, Whole
<1> QED BY <1>1, <1>2, <1>3, <1>4

(* Moving the window disturbs nothing. *)
LEMMA KeptSound ==
  ASSUME NEW v, NEW c, NEW p, NEW h, Sound(v, c, p, h), NEW u, Kept(v, u)
  PROVE  Sound(u, c, p, h)
<1>1. /\ Windowed(u) /\ View(u) = View(v) /\ Card(u) \in {Card(v), View(v)}
      /\ u.info_dirty = v.info_dirty /\ u.last_used = v.last_used /\ u.free_cnt = v.free_cnt
  BY DEF Kept, SameHints
<1>2. Types(u, c, p, h) /\ Scanned(u, c)
  BY <1>1 DEF Sound, Types, VolType, Scanned
<1>3. ASSUME ~h.removal PROVE Unhurt(u, c, p, h)
  <2>1. Unhurt(v, c, p, h)
    BY <1>3 DEF Sound
  <2>2. Counts(u, c, h)
    BY <1>1, <2>1 DEF Unhurt, Counts
  <2>3. Files(u, c)
    BY <1>1, <2>1 DEF Unhurt, Files
  <2> QED BY <1>1, <2>1, <2>2, <2>3 DEF Unhurt
<1> QED BY <1>2, <1>3 DEF Sound

LEMMA KeptAbort ==
  ASSUME NEW v, NEW c, NEW p, NEW h, Sound(v, c, p, h), NEW u, Kept(v, u),
         NEW e \in {Idle, [Idle EXCEPT !.op = "wild"]}
  PROVE  Sound(u, e, p, HurtBy(c, h))
<1>1. Sound(u, c, p, h)
  BY KeptSound
<1>2. /\ VolType(u) /\ p \in [FILES -> Clusters \cup {0}] /\ HurtType(h)
      /\ ~h.removal /\ c.op # "unlink" =>
           /\ InChains(View(u), p) /\ Whole(View(u)) /\ Whole(Card(u))
           /\ u.free_cnt >= FreeCnt(View(u).t)
  BY <1>1, SoundFacts
<1> QED BY <1>2, Abort

(* stretch_chain and remove_chain begin by marking the hints dirty. *)
LEMMA DirtySound ==
  ASSUME NEW v, NEW c, NEW p, NEW h, Sound(v, c, p, h),
         NEW u, u = [v EXCEPT !.info_dirty = TRUE]
  PROVE  Sound(u, c, p, h) /\ u.info_dirty /\ View(u) = View(v) /\ Card(u) = Card(v)
         /\ u.last_used = v.last_used /\ u.free_cnt = v.free_cnt /\ Windowed(u)
<1>0. Windowed(v)
  BY DEF Sound, Types, VolType
<1>1. /\ Windowed(u) /\ u.info_dirty /\ u.last_used = v.last_used /\ u.free_cnt = v.free_cnt
      /\ u.disk = v.disk /\ u.sect = v.sect /\ u.buf = v.buf
  BY <1>0 DEF Windowed
<1>2. View(u) = View(v) /\ Card(u) = Card(v)
  <2>1. \A s \in Sectors : Content(u, s) = Content(v, s)
    BY <1>1 DEF Content
  <2> QED BY <1>1, <2>1, SameView, SameCard
<1>3. Types(u, c, p, h) /\ Scanned(u, c)
  BY <1>1, <1>2 DEF Sound, Types, VolType, Scanned
<1>4. ASSUME ~h.removal PROVE Unhurt(u, c, p, h)
  <2>1. Unhurt(v, c, p, h)
    BY <1>4 DEF Sound
  <2>2. Counts(u, c, h)
    BY <1>1, <1>2, <2>1 DEF Unhurt, Counts
  <2>3. Files(u, c)
    BY <1>2, <2>1 DEF Unhurt, Files
  <2> QED BY <1>2, <2>1, <2>2, <2>3 DEF Unhurt
<1> QED BY <1>1, <1>2, <1>3, <1>4 DEF Sound

-----------------------------------------------------------------------------
(* The search for a cluster *)

LEMMA WrapRange ==
  ASSUME NEW c \in Clusters
  PROVE  Wrap(c + 1) \in Clusters
BY Constants3 DEF Clusters, Wrap

(* The search goes on, or has found a cluster. *)
LEMMA Moved ==
  ASSUME NEW v, NEW c, NEW p, NEW h, Sound(v, c, p, h), c.at \in {"stretch", "scan"},
         NEW at \in {"scan", "mark"}, NEW x \in Clusters,
         NEW d, d = [c EXCEPT !.at = at, !.clust = x],
         ~h.removal => v.info_dirty, Scanned(v, d),
         at = "mark" => View(v).t[x] = FREE
  PROVE  Sound(v, d, p, h)
<1>1. CallType(c) /\ c.op \in {"create", "extend"}
  <2>1. CallType(c)
    BY SoundFacts
  <2> QED BY <2>1 DEF CallType
<1>2. d.op = c.op /\ d.at = at /\ d.file = c.file /\ d.prev = c.prev /\ d.clust = x
  BY <1>1 DEF CallType
<1>3. CallType(d)
  BY <1>1, <1>2 DEF CallType
<1>4. Types(v, d, p, h)
  BY <1>3 DEF Sound, Types
<1>5. ASSUME ~h.removal PROVE Unhurt(v, d, p, h)
  <2>1. Handles(View(v), c, p) /\ Staged(View(v), c, p) /\ Counts(v, c, h) /\ Files(v, c)
    BY <1>5 DEF Sound, Unhurt
  <2>2. Handles(View(v), d, p)
    BY <1>2, <2>1 DEF Handles
  <2>3. Staged(View(v), d, p)
    BY <1>1, <1>2, <2>1 DEF Staged
  <2>4. Counts(v, d, h)
    BY <1>2, <1>5, <2>1 DEF Counts, Pending
  <2>5. Files(v, d)
    BY <1>2, <2>1 DEF Files
  <2> QED BY <2>2, <2>3, <2>4, <2>5 DEF Unhurt
<1> QED BY <1>4, <1>5 DEF Sound

LEMMA TryStep ==
  ASSUME Sound(vol, call, pos, hurt), StretchTry
  PROVE  Sound(vol', call', pos', hurt')
<1>1. PICK v : v = [vol EXCEPT !.info_dirty = TRUE]
  OBVIOUS
<1>2. Sound(v, call, pos, hurt) /\ v.info_dirty /\ v.last_used = vol.last_used
  BY <1>1, DirtySound
<1>3. call.at = "stretch" /\ CallType(call) /\ Windowed(v) /\ v.last_used \in Clusters
  BY <1>2, SoundFacts DEF StretchTry, VolType, Windowed
<1>4. ASSUME NEW u, Sound(u, call, pos, hurt), u.info_dirty, u.last_used = v.last_used,
             NEW d, d = [call EXCEPT !.at = "scan", !.clust = ScanFrom]
      PROVE  Sound(u, d, pos, hurt)
  <2>1. d = [call EXCEPT !.at = "scan", !.clust = v.last_used]
    BY <1>2, <1>4 DEF ScanFrom
  <2>2. d.at = "scan" /\ d.clust = v.last_used
    BY <1>3, <2>1 DEF CallType
  <2>3. Scanned(u, d)
    BY <1>3, <1>4, <2>2, Constants3 DEF Scanned, Passed
  <2> QED BY <1>3, <1>4, <2>1, <2>3, Moved
<1>5. CASE call.prev = 0
  <2>1. /\ vol' = v /\ pos' = pos /\ hurt' = hurt
        /\ call' = [call EXCEPT !.at = "scan", !.clust = ScanFrom]
    BY <1>1, <1>5 DEF StretchTry
  <2> QED BY <1>2, <1>4, <2>1
<1>6. CASE call.prev # 0
  <2>1. call.prev \in Clusters
    BY <1>3, <1>6 DEF CallType
  <2>2. PICK x : x = Wrap(call.prev + 1)
    OBVIOUS
  <2>3. x \in Clusters /\ SectorOf(Active, x) \in Sectors
    BY <2>1, <2>2, WrapRange, SectorFacts
  <2>4. PICK o \in get_fat(v, x) :
          /\ vol' = o.vol
          /\ IF o.err = "none"
             THEN /\ IF Entry(o.vol, x) = FREE
                     THEN call' = [call EXCEPT !.at = "mark", !.clust = x]
                     ELSE call' = [call EXCEPT !.at = "scan", !.clust = ScanFrom]
                  /\ pos' = pos /\ hurt' = hurt
             ELSE call' = Idle /\ hurt' = HurtBy(call, hurt) /\ pos' = pos
    BY <1>1, <1>6, <2>2 DEF StretchTry, Does, Hurt, HurtBy
  <2>5. Kept(v, o.vol) /\ (o.err = "none" => o.vol.sect = SectorOf(Active, x))
    BY <1>3, <2>3, <2>4, UpdateBuf DEF get_fat
  <2>6. CASE o.err # "none"
    BY <1>2, <2>4, <2>5, <2>6, KeptAbort
  <2>7. CASE o.err = "none"
    <3>1. Sound(o.vol, call, pos, hurt)
      BY <1>2, <2>5, KeptSound
    <3>2. o.vol.info_dirty /\ o.vol.last_used = v.last_used
      BY <1>2, <2>5 DEF Kept, SameHints
    <3>3. Entry(o.vol, x) = View(o.vol).t[x]
      BY <2>3, <2>5, <2>7, ReadEntry
    <3>4. CASE Entry(o.vol, x) = FREE
      <4>1. PICK d : d = [call EXCEPT !.at = "mark", !.clust = x]
        OBVIOUS
      <4>2. Scanned(o.vol, d)
        BY <1>3, <4>1 DEF Scanned, CallType
      <4>3. Sound(o.vol, d, pos, hurt)
        BY <1>3, <2>3, <3>1, <3>2, <3>3, <3>4, <4>1, <4>2, Moved
      <4> QED BY <2>4, <2>7, <3>4, <4>1, <4>3
    <3>5. CASE Entry(o.vol, x) # FREE
      BY <1>4, <2>4, <2>7, <3>1, <3>2, <3>5
    <3> QED BY <3>4, <3>5
  <2> QED BY <2>6, <2>7
<1> QED BY <1>5, <1>6

(* One more cluster has been passed. *)
LEMMA PassedOn ==
  ASSUME NEW last \in Clusters, NEW at \in Clusters, NEW d \in Clusters, Wrap(at + 1) # last,
         Passed(last, Wrap(at + 1), d)
  PROVE  Passed(last, at, d) \/ d = Wrap(at + 1)
<1>1. Clusters = 2 .. CLUST_CNT - 1 /\ CLUST_CNT \in Nat /\ CLUST_CNT > 3
  BY Constants3 DEF Clusters
<1>2. CASE at + 1 >= CLUST_CNT
  <2>1. Wrap(at + 1) = 2
    BY <1>2 DEF Wrap
  <2> QED BY <1>1, <1>2, <2>1 DEF Passed
<1>3. CASE ~(at + 1 >= CLUST_CNT)
  <2>1. Wrap(at + 1) = at + 1
    BY <1>3 DEF Wrap
  <2> QED BY <1>1, <1>3, <2>1 DEF Passed
<1> QED BY <1>2, <1>3

(* When the scan comes round, it has passed every other cluster. *)
LEMMA PassedAll ==
  ASSUME NEW at \in Clusters, NEW d \in Clusters, d # Wrap(at + 1)
  PROVE  Passed(Wrap(at + 1), at, d)
<1>1. Clusters = 2 .. CLUST_CNT - 1 /\ CLUST_CNT \in Nat /\ CLUST_CNT > 3
  BY Constants3 DEF Clusters
<1>2. CASE at + 1 >= CLUST_CNT
  <2>1. Wrap(at + 1) = 2
    BY <1>2 DEF Wrap
  <2> QED BY <1>1, <1>2, <2>1 DEF Passed
<1>3. CASE ~(at + 1 >= CLUST_CNT)
  <2>1. Wrap(at + 1) = at + 1
    BY <1>3 DEF Wrap
  <2> QED BY <1>1, <1>3, <2>1 DEF Passed
<1> QED BY <1>2, <1>3

(* A call that returns without more ado *)
LEMMA Returned ==
  ASSUME NEW v, NEW c, NEW p, NEW h, Sound(v, c, p, h), c.at \notin {"link", "finish"},
         ~h.removal => c.op # "unlink"
  PROVE  Sound(v, Idle, p, h)
<1>1. Idle.at = "none"
  BY DEF Idle
<1>2. ~h.removal => Counts(v, Idle, h)
  BY <1>1, SoundFacts DEF Counts, Pending
<1> QED BY <1>2, SoundFacts, Ended

LEMMA ScanStep ==
  ASSUME Sound(vol, call, pos, hurt), StretchScan
  PROVE  Sound(vol', call', pos', hurt')
<1>1. call.at = "scan" /\ CallType(call) /\ Windowed(vol) /\ vol.last_used \in Clusters
  BY SoundFacts DEF StretchScan, VolType, Windowed
<1>2. call.clust \in Clusters
  BY <1>1 DEF CallType
<1>3. PICK x : x = Wrap(call.clust + 1)
  OBVIOUS
<1>4. x \in Clusters /\ SectorOf(Active, x) \in Sectors
  BY <1>2, <1>3, WrapRange, SectorFacts
<1>5. CASE CameRound(x)
  <2>1. vol' = vol /\ call' = Idle /\ pos' = pos /\ hurt' = hurt
    BY <1>3, <1>5 DEF StretchScan, Return
  <2>2. call.op # "unlink"
    BY <1>1 DEF CallType
  <2> QED BY <1>1, <2>1, <2>2, Returned
<1>6. CASE ~CameRound(x)
  <2>1. PICK o \in get_fat(vol, x) :
          /\ vol' = o.vol
          /\ IF o.err = "none"
             THEN /\ call' = [call EXCEPT !.at = IF Entry(o.vol, x) = FREE THEN "mark" ELSE "scan",
                                          !.clust = x]
                  /\ pos' = pos /\ hurt' = hurt
             ELSE call' = Idle /\ hurt' = HurtBy(call, hurt) /\ pos' = pos
    BY <1>3, <1>6 DEF StretchScan, Does, Hurt, HurtBy
  <2>2. Kept(vol, o.vol) /\ (o.err = "none" => o.vol.sect = SectorOf(Active, x))
    BY <1>1, <1>4, <2>1, UpdateBuf DEF get_fat
  <2>3. CASE o.err # "none"
    BY <2>1, <2>2, <2>3, KeptAbort
  <2>4. CASE o.err = "none"
    <3>1. Sound(o.vol, call, pos, hurt) /\ o.vol.last_used = vol.last_used
      BY <2>2, KeptSound DEF Kept, SameHints
    <3>2. Entry(o.vol, x) = View(o.vol).t[x]
      BY <1>4, <2>2, <2>4, ReadEntry
    <3>3. PICK at \in {"scan", "mark"} : at = IF Entry(o.vol, x) = FREE THEN "mark" ELSE "scan"
      OBVIOUS
    <3>4. PICK d : d = [call EXCEPT !.at = at, !.clust = x]
      OBVIOUS
    <3>5. ~hurt.removal => o.vol.info_dirty
      BY <1>1, <3>1, SoundFacts DEF Counts
    <3>6. d.at = at /\ d.clust = x
      BY <1>1, <3>4 DEF CallType
    <3>7. Scanned(o.vol, d)
      <4> SUFFICES ASSUME at = "scan", NEW y \in Clusters, Passed(vol.last_used, x, y)
                   PROVE  View(o.vol).t[y] # FREE
        BY <3>1, <3>6 DEF Scanned
      <4>1. View(o.vol).t[x] # FREE
        BY <3>2, <3>3
      <4>2. x # vol.last_used
        BY <1>6 DEF CameRound
      <4>3. Passed(vol.last_used, call.clust, y) \/ y = x
        BY <1>1, <1>2, <1>3, <4>2, PassedOn
      <4>4. \A z \in Clusters : Passed(vol.last_used, call.clust, z) => View(o.vol).t[z] # FREE
        BY <1>1, <3>1 DEF Sound, Scanned
      <4> QED BY <4>1, <4>3, <4>4
    <3>8. Sound(o.vol, d, pos, hurt)
      BY <1>1, <1>4, <3>1, <3>2, <3>3, <3>4, <3>5, <3>7, Moved
    <3> QED BY <2>1, <2>4, <3>3, <3>4, <3>8
  <2> QED BY <2>3, <2>4
<1> QED BY <1>5, <1>6

LEMMA UninitialisedStep ==
  ASSUME Sound(vol, call, pos, hurt), StretchUninitialised
  PROVE  Sound(vol', call', pos', hurt')
<1>1. call.at = "scan" /\ CallType(call) /\ Windowed(vol)
  BY SoundFacts DEF StretchUninitialised, VolType
<1>2. call.clust \in Clusters
  BY <1>1 DEF CallType
<1>3. PICK x : x = Wrap(call.clust + 1)
  OBVIOUS
<1>4. x \in Clusters /\ SectorOf(Active, x) \in Sectors
  BY <1>2, <1>3, WrapRange, SectorFacts
<1>5. PICK o \in get_fat(vol, x) : vol' = o.vol
  BY <1>3 DEF StretchUninitialised
<1>6. call' = [Idle EXCEPT !.op = "wild"] /\ hurt' = HurtBy(call, hurt) /\ pos' = pos
  BY DEF StretchUninitialised, Hurt, HurtBy
<1>7. Kept(vol, o.vol)
  BY <1>1, <1>4, <1>5, UpdateBuf DEF get_fat
<1> QED BY <1>5, <1>6, <1>7, KeptAbort

-----------------------------------------------------------------------------
(* The callers *)

(* update_buf(vol, Directory): the start of every call that names a file *)
LEMMA DirectoryRead ==
  ASSUME NEW v, NEW c, NEW p, NEW h, Sound(v, c, p, h), NEW o \in update_buf(v, Directory)
  PROVE  /\ Kept(v, o.vol) /\ Sound(o.vol, c, p, h)
         /\ o.err = "none" => o.vol.buf = View(o.vol).s
<1>1. Windowed(v) /\ Directory \in Sectors
  BY SoundFacts, SectorFacts DEF VolType
<1>2. Kept(v, o.vol) /\ (o.err = "none" => o.vol.sect = Directory)
  BY <1>1, UpdateBuf
<1> QED BY <1>2, KeptSound, ReadDir

LEMMA BegunCreate ==
  ASSUME NEW v, NEW p, NEW h, Sound(v, Idle, p, h), NEW f \in FILES,
         NEW d, d = [op |-> "create", at |-> "stretch", file |-> f, prev |-> 0, clust |-> 0]
  PROVE  Sound(v, d, p, h)
<1>1. CallType(d)
  BY DEF CallType
<1>2. Types(v, d, p, h) /\ Scanned(v, d)
  BY <1>1 DEF Sound, Types, Scanned
<1>3. ASSUME ~h.removal PROVE Unhurt(v, d, p, h)
  <2>1. Handles(View(v), Idle, p) /\ Counts(v, Idle, h) /\ Files(v, Idle)
    BY <1>3 DEF Sound, Unhurt
  <2>2. Handles(View(v), d, p) /\ Staged(View(v), d, p)
    BY <2>1 DEF Handles, Staged
  <2>3. Counts(v, d, h)
    BY <2>1 DEF Counts, Pending, Idle
  <2>4. Files(v, d)
    BY <2>1 DEF Files, Idle
  <2> QED BY <2>2, <2>3, <2>4 DEF Unhurt
<1> QED BY <1>2, <1>3 DEF Sound

LEMMA CreateStep ==
  ASSUME Sound(vol, call, pos, hurt), NEW f \in FILES, CallCreate(f)
  PROVE  Sound(vol', call', pos', hurt')
<1>1. PICK o \in update_buf(vol, Directory) :
        /\ vol' = o.vol
        /\ IF o.err = "none"
           THEN /\ call' = [op |-> "create", at |-> "stretch", file |-> f, prev |-> 0, clust |-> 0]
                /\ pos' = pos /\ hurt' = hurt
           ELSE call' = Idle /\ hurt' = HurtBy(call, hurt) /\ pos' = pos
  BY DEF CallCreate, Does, Begin, Hurt, HurtBy
<1>2. Kept(vol, o.vol) /\ Sound(o.vol, call, pos, hurt) /\ call = Idle
  BY <1>1, DirectoryRead DEF CallCreate
<1>3. CASE o.err # "none"
  BY <1>1, <1>2, <1>3, KeptAbort
<1>4. CASE o.err = "none"
  BY <1>1, <1>2, <1>4, BegunCreate
<1> QED BY <1>3, <1>4

(* The handle of one file moves along its chain, or is closed. *)
LEMMA HandleMoved ==
  ASSUME NEW v, NEW p, NEW h, Sound(v, Idle, p, h), NEW f \in FILES, NEW x \in Clusters \cup {0},
         NEW q, q = [p EXCEPT ![f] = x],
         ~h.removal /\ x # 0 => View(v).s[f] # 0 /\ x \in Chain(View(v).t, View(v).s[f])
  PROVE  Sound(v, Idle, q, h)
<1>1. p \in [FILES -> Clusters \cup {0}] /\ VolType(v) /\ HurtType(h)
  BY SoundFacts
<1>2. q \in [FILES -> Clusters \cup {0}] /\ q[f] = x /\ \A g \in FILES \ {f} : q[g] = p[g]
  BY <1>1
<1>3. ASSUME ~h.removal PROVE InChains(View(v), q)
  <2>1. InChains(View(v), p)
    BY <1>3, SoundFacts
  <2>2. ASSUME NEW g \in FILES, q[g] # 0
        PROVE  View(v).s[g] # 0 /\ q[g] \in Chain(View(v).t, View(v).s[g])
    BY <1>2, <1>3, <2>1, <2>2 DEF InChains
  <2> QED BY <2>2 DEF InChains
<1>4. Idle.op # "unlink"
  BY DEF Idle
<1>5. ~h.removal => Whole(View(v)) /\ Whole(Card(v)) /\ Counts(v, Idle, h)
  BY <1>4, SoundFacts
<1> QED BY <1>1, <1>2, <1>3, <1>5, Ended

(* Where a file begins, and where its chain goes on *)
LEMMA FileChain ==
  ASSUME NEW w, Mountable(w, {}), NEW f \in FILES, w.s[f] # 0
  PROVE  /\ HasPath(w.t, w.s[f]) /\ w.s[f] \in Chain(w.t, w.s[f])
         /\ \A d \in Chain(w.t, w.s[f]) \cap Clusters : w.t[d] \in Chain(w.t, w.s[f])
<1>1. HasPath(w.t, w.s[f])
  BY CopyFacts DEF Mountable
<1> QED BY <1>1, PathFacts

LEMMA OpenStep ==
  ASSUME Sound(vol, call, pos, hurt), NEW f \in FILES, CallOpen(f)
  PROVE  Sound(vol', call', pos', hurt')
<1>1. PICK o \in update_buf(vol, Directory) :
        /\ vol' = o.vol
        /\ IF o.err = "none"
           THEN /\ o.vol.buf[f] # 0 /\ pos' = [pos EXCEPT ![f] = o.vol.buf[f]]
                /\ call' = call /\ hurt' = hurt
           ELSE call' = Idle /\ hurt' = HurtBy(call, hurt) /\ pos' = pos
  BY DEF CallOpen, Does, Hurt, HurtBy
<1>2. /\ Kept(vol, o.vol) /\ Sound(o.vol, call, pos, hurt) /\ call = Idle
      /\ o.err = "none" => o.vol.buf = View(o.vol).s
  BY <1>1, DirectoryRead DEF CallOpen
<1>3. CASE o.err # "none"
  BY <1>1, <1>2, <1>3, KeptAbort
<1>4. CASE o.err = "none"
  <2>1. PICK w : w = View(o.vol)
    OBVIOUS
  <2>2. PICK x : x = w.s[f]
    OBVIOUS
  <2>3. x \in Clusters \cup {0} /\ x # 0 /\ pos' = [pos EXCEPT ![f] = x]
    BY <1>1, <1>2, <1>4, <2>1, <2>2, SoundFacts DEF VolType, ViewType
  <2>4. ~hurt.removal => Mountable(w, {})
    BY <1>2, <2>1, SoundFacts DEF Idle
  <2>5. ~hurt.removal => x \in Chain(w.t, w.s[f])
    BY <2>2, <2>3, <2>4, FileChain
  <2>6. Sound(o.vol, Idle, pos', hurt)
    BY <1>2, <2>1, <2>2, <2>3, <2>5, HandleMoved
  <2> QED BY <1>1, <1>2, <1>4, <2>6
<1> QED BY <1>3, <1>4

LEMMA BegunExtend ==
  ASSUME NEW v, NEW p, NEW h, Sound(v, Idle, p, h), NEW f \in FILES, p[f] # 0,
         View(v).t[p[f]] = EOC,
         NEW d, d = [op |-> "extend", at |-> "stretch", file |-> f, prev |-> p[f], clust |-> 0]
  PROVE  Sound(v, d, p, h)
<1>0. p[f] \in Clusters
  BY SoundFacts
<1>1. CallType(d) /\ d.prev = p[f] /\ d.file = f /\ d.op = "extend" /\ d.at = "stretch"
  BY <1>0 DEF CallType
<1>2. Types(v, d, p, h) /\ Scanned(v, d)
  BY <1>1 DEF Sound, Types, Scanned
<1>3. ASSUME ~h.removal PROVE Unhurt(v, d, p, h)
  <2>1. Handles(View(v), Idle, p) /\ Counts(v, Idle, h) /\ Files(v, Idle)
    BY <1>3 DEF Sound, Unhurt
  <2>2. Handles(View(v), d, p) /\ Staged(View(v), d, p)
    BY <1>1, <2>1 DEF Handles, Staged
  <2>3. Counts(v, d, h)
    BY <1>1, <2>1 DEF Counts, Pending, Idle
  <2>4. Files(v, d)
    BY <1>1, <2>1 DEF Files, Idle
  <2> QED BY <2>2, <2>3, <2>4 DEF Unhurt
<1> QED BY <1>2, <1>3 DEF Sound

LEMMA SeekStep ==
  ASSUME Sound(vol, call, pos, hurt), NEW f \in FILES, CallSeek(f)
  PROVE  Sound(vol', call', pos', hurt')
<1>1. call = Idle /\ pos[f] # 0 /\ Windowed(vol) /\ pos \in [FILES -> Clusters \cup {0}]
  BY SoundFacts DEF CallSeek, VolType
<1>2. PICK x \in Clusters : x = pos[f]
  BY <1>1
<1>3. SectorOf(Active, x) \in Sectors
  BY SectorFacts
<1>4. PICK o \in get_fat(vol, x) :
        /\ vol' = o.vol
        /\ IF o.err = "none"
           THEN CASE Entry(o.vol, x) \in {BAD, FREE} -> call' = call /\ pos' = pos /\ hurt' = hurt
                  [] IsLast(Entry(o.vol, x)) ->
                       /\ call' = [op |-> "extend", at |-> "stretch", file |-> f, prev |-> pos[f],
                                   clust |-> 0]
                       /\ pos' = pos /\ hurt' = hurt
                  [] OTHER -> /\ pos' = [pos EXCEPT ![f] = Entry(o.vol, x)]
                              /\ call' = call /\ hurt' = hurt
           ELSE call' = Idle /\ hurt' = HurtBy(call, hurt) /\ pos' = pos
  BY <1>2 DEF CallSeek, Does, Begin, Hurt, HurtBy
<1>5. Kept(vol, o.vol) /\ (o.err = "none" => o.vol.sect = SectorOf(Active, x))
  BY <1>1, <1>3, <1>4, UpdateBuf DEF get_fat
<1>6. CASE o.err # "none"
  BY <1>4, <1>5, <1>6, KeptAbort
<1>7. CASE o.err = "none"
  <2>1. PICK w, next : w = View(o.vol) /\ next = Entry(o.vol, x)
    OBVIOUS
  <2>2. Sound(o.vol, Idle, pos, hurt) /\ next = w.t[x]
    BY <1>1, <1>5, <1>7, <2>1, KeptSound, ReadEntry
  <2>3. next \in FatVal
    BY <2>1, <2>2, SoundFacts DEF VolType, ViewType
  <2>4. CASE next \in {BAD, FREE}
    <3>1. ~IsLast(next)
      BY <2>4, Constants3 DEF IsLast
    <3>2. call' = call /\ pos' = pos /\ hurt' = hurt
      BY <1>4, <1>7, <2>1, <2>4, <3>1
    <3> QED BY <1>1, <1>4, <2>2, <3>2
  <2>5. CASE next = EOC
    <3>1. next \notin {BAD, FREE}
      BY <2>5, Constants3
    <3>2. /\ call' = [op |-> "extend", at |-> "stretch", file |-> f, prev |-> pos[f], clust |-> 0]
          /\ pos' = pos /\ hurt' = hurt
      BY <1>4, <1>7, <2>1, <2>5, <3>1 DEF IsLast
    <3> QED BY <1>1, <1>2, <1>4, <2>1, <2>2, <2>5, <3>2, BegunExtend
  <2>6. CASE next \notin {BAD, FREE, EOC}
    <3>1. next \in Clusters /\ pos' = [pos EXCEPT ![f] = next] /\ call' = Idle /\ hurt' = hurt
      BY <1>1, <1>4, <1>7, <2>1, <2>3, <2>6 DEF IsLast, FatVal
    <3>2. ~hurt.removal => Mountable(w, {}) /\ w.s[f] # 0 /\ x \in Chain(w.t, w.s[f])
      BY <1>1, <1>2, <2>1, <2>2, SoundFacts DEF Idle, InChains
    <3>3. ~hurt.removal => w.s[f] # 0 /\ next \in Chain(w.t, w.s[f])
      BY <2>2, <3>2, FileChain
    <3>4. Sound(o.vol, Idle, pos', hurt)
      BY <2>1, <2>2, <3>1, <3>3, HandleMoved
    <3> QED BY <1>4, <3>1, <3>4
  <2> QED BY <2>4, <2>5, <2>6
<1> QED BY <1>6, <1>7

LEMMA BegunUnlink ==
  ASSUME NEW v, NEW p, NEW h, Sound(v, Idle, p, h), NEW f \in FILES, p[f] = 0,
         NEW x, x = View(v).s[f], x # 0,
         NEW d, d = [op |-> "unlink", at |-> "remove", file |-> f, prev |-> 0, clust |-> x]
  PROVE  Sound(v, d, p, h)
<1>0. x \in Clusters
  BY SoundFacts DEF VolType, ViewType
<1>1. CallType(d) /\ d.clust = x /\ d.file = f /\ d.op = "unlink" /\ d.at = "remove"
  BY <1>0 DEF CallType
<1>2. Types(v, d, p, h) /\ Scanned(v, d)
  BY <1>1 DEF Sound, Types, Scanned
<1>3. ASSUME ~h.removal PROVE Unhurt(v, d, p, h)
  <2>1. Handles(View(v), Idle, p) /\ Counts(v, Idle, h) /\ Mountable(View(v), {})
    BY <1>3, SoundFacts DEF Idle
  <2>2. /\ Mountable(View(v), {f}) /\ HasPath(View(v).t, x)
        /\ \A g \in FILES \ {f} : Chain(View(v).t, x) \cap Claims(View(v), g) = {}
    BY <2>1, RemovalBegins
  <2>3. Handles(View(v), d, p) /\ Staged(View(v), d, p)
    BY <1>1, <2>1, <2>2 DEF Handles, Staged
  <2>4. Counts(v, d, h)
    BY <1>1, <2>1 DEF Counts, Pending, Idle
  <2>5. Files(v, d)
    BY <1>1, <2>2 DEF Files
  <2> QED BY <2>3, <2>4, <2>5 DEF Unhurt
<1> QED BY <1>2, <1>3 DEF Sound

LEMMA UnlinkStep ==
  ASSUME Sound(vol, call, pos, hurt), NEW f \in FILES, CallUnlink(f)
  PROVE  Sound(vol', call', pos', hurt')
<1>1. PICK o \in update_buf(vol, Directory) :
        /\ vol' = o.vol
        /\ IF o.err = "none"
           THEN /\ o.vol.buf[f] # 0
                /\ call' = [op |-> "unlink", at |-> "remove", file |-> f, prev |-> 0,
                            clust |-> o.vol.buf[f]]
                /\ pos' = pos /\ hurt' = hurt
           ELSE call' = Idle /\ hurt' = HurtBy(call, hurt) /\ pos' = pos
  BY DEF CallUnlink, Does, Begin, Hurt, HurtBy
<1>2. /\ Kept(vol, o.vol) /\ Sound(o.vol, call, pos, hurt) /\ call = Idle /\ pos[f] = 0
      /\ o.err = "none" => o.vol.buf = View(o.vol).s
  BY <1>1, DirectoryRead DEF CallUnlink
<1>3. CASE o.err # "none"
  BY <1>1, <1>2, <1>3, KeptAbort
<1>4. CASE o.err = "none"
  <2>1. PICK x : x = View(o.vol).s[f]
    OBVIOUS
  <2>2. x # 0 /\ call' = [op |-> "unlink", at |-> "remove", file |-> f, prev |-> 0, clust |-> x]
    BY <1>1, <1>2, <1>4, <2>1
  <2> QED BY <1>1, <1>2, <1>4, <2>1, <2>2, BegunUnlink
<1> QED BY <1>3, <1>4

-----------------------------------------------------------------------------
(* sync_fs *)

LEMMA Synced ==
  ASSUME NEW v, NEW p, NEW h, VolType(v), NEW o \in sync_fs(v),
         ~h.removal => /\ InChains(View(v), p) /\ Whole(View(v)) /\ Whole(Card(v))
                       /\ v.free_cnt >= FreeCnt(View(v).t)
  PROVE  /\ VolType(o.vol) /\ o.vol.free_cnt = v.free_cnt /\ o.err \in {"none", "io"}
         /\ View(o.vol).t = View(v).t /\ View(o.vol).m = View(v).m /\ View(o.vol).s = View(v).s
         /\ ~h.removal => /\ InChains(View(o.vol), p) /\ Whole(View(o.vol)) /\ Whole(Card(o.vol))
                          /\ o.vol.free_cnt >= FreeCnt(View(o.vol).t)
<1>1. PICK w, k, u : w = View(v) /\ k = Card(v) /\ u = PutInfo(w, v.last_used, v.free_cnt)
  OBVIOUS
<1>2. Windowed(v) /\ ViewType(w) /\ ViewType(k) /\ v.last_used \in Clusters /\ v.free_cnt \in Int
  BY <1>1 DEF VolType, Windowed
<1>3. ViewType(u) /\ u.t = w.t /\ u.m = w.m /\ u.s = w.s /\ u.i[1] = v.free_cnt
  BY <1>1, <1>2, InfoTypes
<1>4. /\ Windowed(o.vol) /\ o.vol.free_cnt = v.free_cnt /\ o.err \in {"none", "io"}
      /\ View(o.vol) \in {w, u} /\ Card(o.vol) \in {k, w, u}
  BY <1>1, <1>2, SyncFs
<1>5. VolType(o.vol)
  BY <1>2, <1>3, <1>4 DEF VolType
<1>6. View(o.vol).t = w.t /\ View(o.vol).m = w.m /\ View(o.vol).s = w.s
  BY <1>3, <1>4
<1>7. ASSUME ~h.removal
      PROVE  /\ InChains(View(o.vol), p) /\ Whole(View(o.vol)) /\ Whole(Card(o.vol))
             /\ o.vol.free_cnt >= FreeCnt(View(o.vol).t)
  <2>1. InChains(w, p) /\ Whole(w) /\ Whole(k) /\ v.free_cnt >= FreeCnt(w.t)
    BY <1>1, <1>7
  <2>2. InChains(View(o.vol), p)
    BY <1>6, <2>1 DEF InChains
  <2>3. Mountable(u, {})
    BY <1>3, <2>1, SameFiles DEF Whole
  <2>4. Whole(u)
    BY <1>3, <2>1, <2>3 DEF Whole
  <2> QED BY <1>4, <1>6, <2>1, <2>2, <2>4
<1> QED BY <1>1, <1>4, <1>5, <1>6, <1>7

LEMMA SyncedCounts ==
  ASSUME NEW v, NEW h, VolType(v), NEW o \in sync_fs(v), o.err = "none",
         v.free_cnt >= FreeCnt(View(v).t),
         h.faults = 0 => v.free_cnt = FreeCnt(View(v).t) /\ (MIRROR => View(v).t = View(v).m),
         h.faults = 0 /\ ~v.info_dirty => View(v).i[1] = v.free_cnt,
         NEW c, c.at \in {"none", "enter"}
  PROVE  Counts(o.vol, c, h)
<1>1. PICK w, u : w = View(v) /\ u = PutInfo(w, v.last_used, v.free_cnt)
  OBVIOUS
<1>2. Windowed(v) /\ ViewType(w) /\ v.last_used \in Clusters /\ v.free_cnt \in Int
  BY <1>1 DEF VolType, Windowed
<1>3. u.t = w.t /\ u.m = w.m /\ u.s = w.s /\ u.i[1] = v.free_cnt
  BY <1>1, <1>2, InfoTypes
<1>4. /\ o.vol.free_cnt = v.free_cnt /\ Card(o.vol) = View(o.vol)
      /\ View(o.vol) = IF v.info_dirty THEN u ELSE w
  BY <1>1, <1>2, SyncFs
<1>5. View(o.vol).t = w.t /\ View(o.vol).m = w.m
  BY <1>3, <1>4
<1>6. h.faults = 0 => View(o.vol).i[1] = v.free_cnt
  BY <1>1, <1>3, <1>4
<1>7. Pending(c) = 0 /\ FreeCnt(w.t) \in Nat
  BY FreeFacts DEF Pending
<1> QED BY <1>1, <1>2, <1>4, <1>5, <1>6, <1>7 DEF Counts

LEMMA CloseStep ==
  ASSUME Sound(vol, call, pos, hurt), NEW f \in FILES, CallClose(f)
  PROVE  Sound(vol', call', pos', hurt')
<1>1. PICK o \in Then(update_buf(vol, Directory), sync_fs) :
        /\ vol' = o.vol
        /\ IF o.err = "none"
           THEN pos' = [pos EXCEPT ![f] = 0] /\ call' = call /\ hurt' = hurt
           ELSE call' = Idle /\ hurt' = HurtBy(call, hurt) /\ pos' = pos
  BY DEF CallClose, Does, Hurt, HurtBy
<1>2. PICK q \in update_buf(vol, Directory) : IF q.err = "none" THEN o \in sync_fs(q.vol) ELSE o = q
  BY <1>1 DEF Then
<1>3. Kept(vol, q.vol) /\ Sound(q.vol, Idle, pos, hurt) /\ call = Idle
  BY <1>2, DirectoryRead DEF CallClose
<1>4. CASE q.err # "none"
  BY <1>1, <1>2, <1>3, <1>4, KeptAbort
<1>5. CASE q.err = "none"
  <2>1. /\ VolType(q.vol) /\ HurtType(hurt) /\ pos \in [FILES -> Clusters \cup {0}]
        /\ ~hurt.removal => /\ InChains(View(q.vol), pos) /\ Whole(View(q.vol))
                            /\ Whole(Card(q.vol)) /\ q.vol.free_cnt >= FreeCnt(View(q.vol).t)
                            /\ Counts(q.vol, Idle, hurt)
    BY <1>3, SoundFacts DEF Idle
  <2>2. /\ VolType(o.vol) /\ o.err \in {"none", "io"}
        /\ ~hurt.removal => /\ InChains(View(o.vol), pos) /\ Whole(View(o.vol))
                            /\ Whole(Card(o.vol)) /\ o.vol.free_cnt >= FreeCnt(View(o.vol).t)
    BY <1>2, <1>5, <2>1, Synced
  <2>3. CASE o.err # "none"
    <3>1. Sound(o.vol, Idle, pos, HurtBy(call, hurt))
      BY <2>1, <2>2, Abort
    <3> QED BY <1>1, <2>3, <3>1
  <2>4. CASE o.err = "none"
    <3>1. ~hurt.removal => Counts(o.vol, Idle, hurt)
      <4> SUFFICES ASSUME ~hurt.removal PROVE Counts(o.vol, Idle, hurt)
        OBVIOUS
      <4>1. Counts(q.vol, Idle, hurt) /\ Pending(Idle) = 0 /\ Idle.at = "none"
        BY <2>1 DEF Pending, Idle
      <4>2. FreeCnt(View(q.vol).t) \in Nat /\ q.vol.free_cnt \in Int
        BY <2>1, FreeFacts DEF VolType, Windowed
      <4>3. /\ q.vol.free_cnt >= FreeCnt(View(q.vol).t)
            /\ hurt.faults = 0 => /\ q.vol.free_cnt = FreeCnt(View(q.vol).t)
                                  /\ MIRROR => View(q.vol).t = View(q.vol).m
            /\ hurt.faults = 0 /\ ~q.vol.info_dirty => View(q.vol).i[1] = q.vol.free_cnt
        BY <4>1, <4>2 DEF Counts
      <4>4. o \in sync_fs(q.vol) /\ o.err = "none" /\ VolType(q.vol)
        BY <1>2, <1>5, <2>1, <2>4
      <4>5. PICK c : c = Idle /\ c.at \in {"none", "enter"}
        BY <4>1
      <4>6. Counts(o.vol, c, hurt)
        BY <4>3, <4>4, <4>5, SyncedCounts
      <4> QED BY <4>5, <4>6
    <3>2. Sound(o.vol, Idle, pos, hurt)
      BY <2>1, <2>2, <3>1, Ended
    <3>3. Sound(o.vol, Idle, pos', hurt)
      BY <1>1, <2>4, <3>2, HandleMoved
    <3> QED BY <1>1, <1>3, <2>4, <3>3
  <2> QED BY <2>3, <2>4
<1> QED BY <1>4, <1>5

LEMMA FinishStep ==
  ASSUME Sound(vol, call, pos, hurt), StretchFinish
  PROVE  Sound(vol', call', pos', hurt')
<1>1. PICK v : v = [vol EXCEPT !.last_used = call.clust, !.free_cnt = @ - 1]
  OBVIOUS
<1>2. PICK o \in sync_fs(v) :
        /\ vol' = o.vol
        /\ IF o.err = "none"
           THEN IF call.op = "create"
                THEN call' = [call EXCEPT !.at = "enter"] /\ pos' = pos /\ hurt' = hurt
                ELSE /\ pos' = [pos EXCEPT ![call.file] = call.clust]
                     /\ call' = Idle /\ hurt' = hurt
           ELSE call' = Idle /\ hurt' = HurtBy(call, hurt) /\ pos' = pos
  BY <1>1 DEF StretchFinish, Does, Goto, Hurt, HurtBy
<1>3. /\ VolType(vol) /\ CallType(call) /\ HurtType(hurt) /\ pos \in [FILES -> Clusters \cup {0}]
      /\ call.at = "finish"
  BY SoundFacts DEF StretchFinish
<1>4. call.clust \in Clusters /\ call.op \in {"create", "extend"} /\ call.file \in FILES
  BY <1>3 DEF CallType
<1>5. /\ Windowed(v) /\ v.disk = vol.disk /\ v.sect = vol.sect /\ v.buf = vol.buf
      /\ v.info_dirty = vol.info_dirty /\ v.free_cnt = vol.free_cnt - 1
      /\ vol.free_cnt \in Int
  <2>1. Windowed(vol)
    BY <1>3 DEF VolType
  <2>2. vol.free_cnt \in Int /\ vol.free_cnt - 1 \in Int
    BY <2>1 DEF Windowed
  <2>3. /\ v.disk = vol.disk /\ v.sect = vol.sect /\ v.buf = vol.buf /\ v.dirty = vol.dirty
        /\ v.info_dirty = vol.info_dirty /\ v.free_cnt = vol.free_cnt - 1
    BY <1>1, <2>1 DEF Windowed
  <2>4. v \in [disk : [Sectors -> Row], sect : Sectors \cup {NoSector}, buf : Row, dirty : BOOLEAN,
               info_dirty : BOOLEAN, last_used : Clusters, free_cnt : Int]
    BY <1>1, <1>4, <2>1, <2>2 DEF Windowed
  <2> QED BY <2>1, <2>2, <2>3, <2>4 DEF Windowed
<1>6. View(v) = View(vol) /\ Card(v) = Card(vol)
  <2>1. \A s \in Sectors : Content(v, s) = Content(vol, s)
    BY <1>5 DEF Content
  <2> QED BY <1>5, <2>1, SameView, SameCard
<1>7. VolType(v)
  BY <1>3, <1>5, <1>6 DEF VolType
<1>8. ASSUME ~hurt.removal
      PROVE  /\ InChains(View(v), pos) /\ Whole(View(v)) /\ Whole(Card(v))
             /\ v.free_cnt >= FreeCnt(View(v).t)
             /\ hurt.faults = 0 => /\ v.free_cnt = FreeCnt(View(v).t)
                                   /\ MIRROR => View(v).t = View(v).m
             /\ v.info_dirty
             /\ Staged(View(v), call, pos)
  <2>1. /\ InChains(View(v), pos) /\ Whole(View(v)) /\ Whole(Card(v))
        /\ Counts(vol, call, hurt) /\ Staged(View(v), call, pos)
    BY <1>4, <1>6, <1>8, SoundFacts
  <2>2. Pending(call) = 1 /\ FreeCnt(View(v).t) \in Nat
    BY <1>3, FreeFacts DEF Pending
  <2>3. /\ vol.free_cnt >= FreeCnt(View(v).t) + 1 /\ vol.info_dirty
        /\ hurt.faults = 0 => /\ vol.free_cnt = FreeCnt(View(v).t) + 1
                              /\ MIRROR => View(v).t = View(v).m
    BY <1>3, <1>6, <2>1, <2>2 DEF Counts
  <2> QED BY <1>5, <2>1, <2>2, <2>3
<1>9. /\ VolType(o.vol) /\ o.err \in {"none", "io"}
      /\ View(o.vol).t = View(v).t /\ View(o.vol).m = View(v).m /\ View(o.vol).s = View(v).s
      /\ ~hurt.removal => /\ InChains(View(o.vol), pos) /\ Whole(View(o.vol))
                          /\ Whole(Card(o.vol)) /\ o.vol.free_cnt >= FreeCnt(View(o.vol).t)
  BY <1>7, <1>8, Synced
<1>10. CASE o.err # "none"
  <2>1. Sound(o.vol, Idle, pos, HurtBy(call, hurt))
    BY <1>3, <1>9, Abort
  <2> QED BY <1>2, <1>10, <2>1
<1>11. CASE o.err = "none"
  <2>1. ASSUME ~hurt.removal, NEW c, c.at \in {"none", "enter"} PROVE Counts(o.vol, c, hurt)
    BY <1>7, <1>8, <1>11, <2>1, SyncedCounts
  <2>2. CASE call.op = "create"
    <3>1. PICK d : d = [call EXCEPT !.at = "enter"]
      OBVIOUS
    <3>2. /\ d.op = "create" /\ d.at = "enter" /\ d.file = call.file /\ d.clust = call.clust
          /\ CallType(d)
      BY <1>3, <1>4, <2>2, <3>1 DEF CallType
    <3>3. Types(o.vol, d, pos, hurt) /\ Scanned(o.vol, d)
      BY <1>3, <1>9, <3>2 DEF Types, Scanned
    <3>4. ASSUME ~hurt.removal PROVE Unhurt(o.vol, d, pos, hurt)
      <4>1. Fresh(View(v), call.clust)
        BY <1>3, <1>8, <2>2, <3>4 DEF Staged
      <4>2. Fresh(View(o.vol), call.clust)
        BY <1>9, <4>1, SameFiles
      <4>3. Staged(View(o.vol), d, pos)
        BY <3>2, <4>2 DEF Staged
      <4>4. Handles(View(o.vol), d, pos) /\ Files(o.vol, d)
        BY <1>9, <3>2, <3>4 DEF Handles, Files
      <4>5. Counts(o.vol, d, hurt)
        BY <2>1, <3>2, <3>4
      <4> QED BY <4>3, <4>4, <4>5 DEF Unhurt
    <3>5. Sound(o.vol, d, pos, hurt)
      BY <3>3, <3>4 DEF Sound
    <3> QED BY <1>2, <1>11, <2>2, <3>1, <3>5
  <2>3. CASE call.op = "extend"
    <3>1. ~hurt.removal => Counts(o.vol, Idle, hurt)
      BY <2>1 DEF Idle
    <3>2. Sound(o.vol, Idle, pos, hurt)
      BY <1>3, <1>9, <3>1, Ended
    <3>3. ASSUME ~hurt.removal
          PROVE  /\ View(o.vol).s[call.file] # 0
                 /\ call.clust \in Chain(View(o.vol).t, View(o.vol).s[call.file])
      <4>1. /\ call.prev = pos[call.file]
            /\ call.clust \in Chain(View(v).t, View(v).s[call.file])
        BY <1>3, <1>8, <2>3, <3>3 DEF Staged
      <4>2. call.prev # 0
        BY <1>3, <2>3, Constants3 DEF CallType
      <4>3. View(v).s[call.file] # 0
        BY <1>4, <1>8, <3>3, <4>1, <4>2 DEF InChains
      <4> QED BY <1>9, <4>1, <4>3
    <3>4. pos' = [pos EXCEPT ![call.file] = call.clust] /\ call' = Idle /\ hurt' = hurt
      BY <1>2, <1>11, <2>3
    <3>5. Sound(o.vol, Idle, pos', hurt)
      BY <1>4, <3>2, <3>3, <3>4, HandleMoved
    <3> QED BY <1>2, <3>4, <3>5
  <2> QED BY <1>4, <2>2, <2>3
<1> QED BY <1>10, <1>11

-----------------------------------------------------------------------------
(* Writing the FAT and the directory *)

LEMMA PutFatTypes ==
  ASSUME NEW v, VolType(v), NEW x \in Clusters, NEW val \in FatVal, NEW o \in put_fat(v, x, val)
  PROVE  /\ VolType(o.vol) /\ SameHints(v, o.vol) /\ o.err \in {"none", "io"}
         /\ View(o.vol) \in Stages(View(v), x, val)
         /\ Card(o.vol) \in {Card(v)} \cup Stages(View(v), x, val)
         /\ o.err = "none" => View(o.vol) = PutBoth(View(v), x, val)
<1>1. Windowed(v) /\ ViewType(View(v)) /\ ViewType(Card(v)) /\ val \in Int
  BY Constants3 DEF VolType, FatVal
<1>2. /\ o.err \in {"none", "io"} /\ Windowed(o.vol) /\ SameHints(v, o.vol)
      /\ View(o.vol) \in Stages(View(v), x, val)
      /\ Card(o.vol) \in {Card(v)} \cup Stages(View(v), x, val)
      /\ o.err = "none" => View(o.vol) = PutBoth(View(v), x, val)
  BY <1>1, PutFat
<1>3. ASSUME NEW u \in Stages(View(v), x, val) PROVE ViewType(u)
  <2>1. InStages(View(v), u, x, val)
    BY <1>1, PutBothFacts DEF ViewType
  <2> QED BY <1>1, <2>1, StageTypes
<1>4. VolType(o.vol)
  BY <1>1, <1>2, <1>3 DEF VolType
<1> QED BY <1>2, <1>4

LEMMA MarkedView ==
  ASSUME NEW w, ViewType(w), Whole(w), NEW p, InChains(w, p), NEW x \in Clusters, w.t[x] = FREE,
         NEW u \in Stages(w, x, EOC)
  PROVE  /\ Whole(u) /\ InChains(u, p) /\ FreeCnt(u.t) <= FreeCnt(w.t)
         /\ u = PutBoth(w, x, EOC) =>
              /\ Fresh(u, x) /\ FreeCnt(u.t) = FreeCnt(w.t) - 1
              /\ u.t = [w.t EXCEPT ![x] = EOC] /\ u.i = w.i
              /\ MIRROR /\ w.t = w.m => u.t = u.m
<1>1. w.t \in [Clusters -> FatVal] /\ w.m \in [Clusters -> FatVal] /\ w.i[1] \in Int
  <2>1. 1 \in Items /\ w.i \in Row
    BY ChainAssumption DEF ViewType, Items
  <2> QED BY <2>1 DEF ViewType, Row
<1>2. PICK e \in FatVal : e = EOC
  BY DEF FatVal
<1>3. InStages(w, u, x, e) /\ (u = PutBoth(w, x, e) => AtLast(w, u, x, e))
  BY <1>1, <1>2, PutBothFacts
<1>4. /\ Mountable(u, {}) /\ u.s = w.s
      /\ \A f \in FILES : w.s[f] # 0 => Chain(u.t, w.s[f]) = Chain(w.t, w.s[f])
      /\ u = PutBoth(w, x, EOC) => Fresh(u, x)
  BY <1>1, MarkStages DEF Whole
<1>5. PICK t : t = [w.t EXCEPT ![x] = EOC]
  OBVIOUS
<1>6. FreeCnt(t) = FreeCnt(w.t) - 1 /\ u.t \in {w.t, t} /\ u.i = w.i
  <2>1. FreeCnt(t) = FreeCnt(w.t) - 1
    BY <1>1, <1>2, <1>5, FreeMarked, Constants3
  <2>2. u.t \in {w.t, t}
    BY <1>1, <1>2, <1>3, <1>5, StageTable
  <2> QED BY <1>3, <2>1, <2>2 DEF InStages
<1>7. FreeCnt(w.t) \in Nat /\ FreeCnt(u.t) <= FreeCnt(w.t)
  BY <1>6, FreeFacts
<1>8. Whole(u)
  <2>1. w.i[1] >= FreeCnt(w.t) /\ FreeCnt(u.t) \in Nat
    BY FreeFacts DEF Whole
  <2>2. u.i[1] >= FreeCnt(u.t)
    BY <1>1, <1>6, <1>7, <2>1
  <2> QED BY <1>4, <2>2 DEF Whole
<1>9. InChains(u, p)
  BY <1>4 DEF InChains
<1>10. ASSUME u = PutBoth(w, x, EOC)
       PROVE  u.t = [w.t EXCEPT ![x] = EOC] /\ (MIRROR /\ w.t = w.m => u.t = u.m)
  BY <1>2, <1>3, <1>10 DEF AtLast
<1> QED BY <1>4, <1>5, <1>6, <1>7, <1>8, <1>9, <1>10

LEMMA MarkStep ==
  ASSUME Sound(vol, call, pos, hurt), StretchMark
  PROVE  Sound(vol', call', pos', hurt')
<1>1. PICK o \in put_fat(vol, call.clust, EOC) :
        /\ vol' = o.vol
        /\ IF o.err = "none"
           THEN /\ call' = [call EXCEPT !.at = IF call.prev # 0 THEN "link" ELSE "finish"]
                /\ pos' = pos /\ hurt' = hurt
           ELSE call' = Idle /\ hurt' = HurtBy(call, hurt) /\ pos' = pos
  BY DEF StretchMark, Does, Goto, Hurt, HurtBy
<1>2. /\ VolType(vol) /\ CallType(call) /\ HurtType(hurt) /\ pos \in [FILES -> Clusters \cup {0}]
      /\ call.at = "mark" /\ vol.free_cnt \in Int
  BY SoundFacts DEF StretchMark
<1>3. call.clust \in Clusters /\ call.op \in {"create", "extend"} /\ call.file \in FILES
  BY <1>2 DEF CallType
<1>4. PICK w, k, u, x, e :
        w = View(vol) /\ k = Card(vol) /\ u = View(o.vol) /\ x = call.clust /\ e = EOC /\ e \in FatVal
  BY DEF FatVal
<1>5. /\ VolType(o.vol) /\ SameHints(vol, o.vol) /\ o.err \in {"none", "io"}
      /\ u \in Stages(w, x, EOC) /\ Card(o.vol) \in {k} \cup Stages(w, x, EOC)
      /\ o.err = "none" => u = PutBoth(w, x, EOC)
  BY <1>1, <1>2, <1>3, <1>4, PutFatTypes
<1>6. ASSUME ~hurt.removal
      PROVE  /\ InChains(w, pos) /\ Whole(w) /\ Whole(k) /\ w.t[x] = FREE /\ ViewType(w)
             /\ Counts(vol, call, hurt) /\ Staged(w, call, pos)
             /\ vol.free_cnt >= FreeCnt(w.t)
  <2>1. /\ InChains(w, pos) /\ Whole(w) /\ Whole(k)
        /\ Counts(vol, call, hurt) /\ Staged(w, call, pos) /\ vol.free_cnt >= FreeCnt(w.t)
    BY <1>3, <1>4, <1>6, SoundFacts
  <2> QED BY <1>2, <1>4, <2>1 DEF Staged, VolType
<1>7. ASSUME ~hurt.removal, NEW y \in Stages(w, x, EOC)
      PROVE  /\ Whole(y) /\ InChains(y, pos) /\ FreeCnt(y.t) <= FreeCnt(w.t)
             /\ y = PutBoth(w, x, EOC) =>
                  /\ Fresh(y, x) /\ FreeCnt(y.t) = FreeCnt(w.t) - 1
                  /\ y.t = [w.t EXCEPT ![x] = EOC] /\ y.i = w.i
                  /\ MIRROR /\ w.t = w.m => y.t = y.m
  BY <1>3, <1>4, <1>6, <1>7, MarkedView
<1>8. ASSUME ~hurt.removal
      PROVE  /\ InChains(u, pos) /\ Whole(u) /\ Whole(Card(o.vol))
             /\ o.vol.free_cnt >= FreeCnt(u.t)
  <2>1. Whole(u) /\ InChains(u, pos) /\ FreeCnt(u.t) <= FreeCnt(w.t)
    BY <1>5, <1>7, <1>8
  <2>2. Whole(Card(o.vol))
    BY <1>5, <1>6, <1>7, <1>8
  <2>3. o.vol.free_cnt = vol.free_cnt /\ FreeCnt(u.t) \in Nat /\ FreeCnt(w.t) \in Nat
    BY <1>5, FreeFacts DEF SameHints
  <2> QED BY <1>2, <1>6, <1>8, <2>1, <2>2, <2>3
<1>9. CASE o.err # "none"
  <2>1. Sound(o.vol, Idle, pos, HurtBy(call, hurt))
    BY <1>2, <1>4, <1>5, <1>8, Abort
  <2> QED BY <1>1, <1>9, <2>1
<1>10. CASE o.err = "none"
  <2>1. PICK d : d = [call EXCEPT !.at = IF call.prev # 0 THEN "link" ELSE "finish"]
    OBVIOUS
  <2>2. /\ d.op = call.op /\ d.file = call.file /\ d.clust = x /\ d.prev = call.prev
        /\ d.at = IF call.prev # 0 THEN "link" ELSE "finish"
    BY <1>2, <1>4, <2>1 DEF CallType
  <2>3. d.at \in {"link", "finish"} /\ (d.at = "finish" => d.op = "create") /\ CallType(d)
    BY <1>2, <1>3, <1>4, <2>1, <2>2, Constants3 DEF CallType
  <2>4. Types(o.vol, d, pos, hurt) /\ Scanned(o.vol, d)
    BY <1>2, <1>5, <2>3 DEF Types, Scanned
  <2>5. ASSUME ~hurt.removal PROVE Unhurt(o.vol, d, pos, hurt)
    <3>1. /\ Fresh(u, x) /\ FreeCnt(u.t) = FreeCnt(w.t) - 1
          /\ u.t = [w.t EXCEPT ![x] = EOC] /\ u.i = w.i
          /\ MIRROR /\ w.t = w.m => u.t = u.m
      BY <1>5, <1>7, <1>10, <2>5
    <3>2. Staged(u, d, pos)
      <4>1. d.op = "extend" => d.prev = pos[d.file] /\ w.t[d.prev] = EOC /\ d.prev \in Clusters
        BY <1>2, <1>6, <2>2, <2>5 DEF Staged, CallType
      <4>2. d.op = "extend" => u.t[d.prev] = EOC
        BY <1>6, <2>5, <3>1, <4>1 DEF ViewType
      <4> QED BY <2>2, <2>3, <3>1, <4>1, <4>2 DEF Staged
    <3>3. Handles(u, d, pos) /\ Files(o.vol, d)
      BY <1>3, <1>4, <1>8, <2>2, <2>5 DEF Handles, Files
    <3>4. Counts(o.vol, d, hurt)
      <4>1. Pending(call) = 0 /\ Pending(d) = 1 /\ FreeCnt(w.t) \in Nat
        BY <1>2, <2>3, FreeFacts DEF Pending
      <4>2. /\ vol.free_cnt >= FreeCnt(w.t) /\ vol.info_dirty
            /\ hurt.faults = 0 => vol.free_cnt = FreeCnt(w.t) /\ (MIRROR => w.t = w.m)
        BY <1>2, <1>4, <1>6, <2>5, <4>1 DEF Counts
      <4>3. o.vol.free_cnt = vol.free_cnt /\ o.vol.info_dirty = vol.info_dirty
        BY <1>5 DEF SameHints
      <4> QED BY <1>2, <1>4, <3>1, <4>1, <4>2, <4>3 DEF Counts
    <3> QED BY <1>4, <3>2, <3>3, <3>4 DEF Unhurt
  <2>6. Sound(o.vol, d, pos, hurt)
    BY <2>4, <2>5 DEF Sound
  <2> QED BY <1>1, <1>10, <2>1, <2>6
<1> QED BY <1>9, <1>10

LEMMA LinkedView ==
  ASSUME NEW w, ViewType(w), Whole(w), NEW p, InChains(w, p), NEW file \in FILES, w.s[file] # 0,
         NEW prev \in Chain(w.t, w.s[file]) \cap Clusters, w.t[prev] = EOC,
         NEW x, Fresh(w, x), NEW u \in Stages(w, prev, x)
  PROVE  /\ Whole(u) /\ InChains(u, p) /\ FreeCnt(u.t) = FreeCnt(w.t) /\ u.s = w.s
         /\ u = PutBoth(w, prev, x) =>
              /\ x \in Chain(u.t, w.s[file]) /\ u.i = w.i
              /\ MIRROR /\ w.t = w.m => u.t = u.m
<1>1. w.t \in [Clusters -> FatVal] /\ w.m \in [Clusters -> FatVal]
  BY DEF ViewType
<1>2. x \in FatVal /\ x # FREE /\ prev \in Clusters /\ w.t[prev] # FREE
  BY Constants3 DEF Fresh, FatVal
<1>3. InStages(w, u, prev, x) /\ (u = PutBoth(w, prev, x) => AtLast(w, u, prev, x))
  BY <1>1, <1>2, PutBothFacts
<1>4. /\ Mountable(u, {}) /\ u.s = w.s
      /\ \A f \in FILES : w.s[f] # 0 => Chain(w.t, w.s[f]) \subseteq Chain(u.t, w.s[f])
      /\ u = PutBoth(w, prev, x) => x \in Chain(u.t, w.s[file])
  BY <1>1, LinkStages DEF Whole
<1>5. PICK t : t = [w.t EXCEPT ![prev] = x]
  OBVIOUS
<1>6. FreeCnt(t) = FreeCnt(w.t)
  BY <1>1, <1>2, <1>5, FreeSame
<1>7. u.t \in {w.t, t}
  BY <1>1, <1>3, <1>5, StageTable
<1>8. FreeCnt(u.t) = FreeCnt(w.t) /\ u.i = w.i
  BY <1>3, <1>6, <1>7 DEF InStages
<1>9. Whole(u)
  BY <1>4, <1>8 DEF Whole
<1>10. InChains(u, p)
  BY <1>4 DEF InChains
<1>11. ASSUME u = PutBoth(w, prev, x) PROVE MIRROR /\ w.t = w.m => u.t = u.m
  BY <1>3, <1>11 DEF AtLast
<1> QED BY <1>4, <1>8, <1>9, <1>10, <1>11

LEMMA LinkStep ==
  ASSUME Sound(vol, call, pos, hurt), StretchLink
  PROVE  Sound(vol', call', pos', hurt')
<1>1. PICK o \in put_fat(vol, call.prev, call.clust) :
        /\ vol' = o.vol
        /\ IF o.err = "none"
           THEN call' = [call EXCEPT !.at = "finish"] /\ pos' = pos /\ hurt' = hurt
           ELSE call' = Idle /\ hurt' = HurtBy(call, hurt) /\ pos' = pos
  BY DEF StretchLink, Does, Goto, Hurt, HurtBy
<1>2. /\ VolType(vol) /\ CallType(call) /\ HurtType(hurt) /\ pos \in [FILES -> Clusters \cup {0}]
      /\ call.at = "link" /\ vol.free_cnt \in Int
  BY SoundFacts DEF StretchLink
<1>3. /\ call.clust \in Clusters /\ call.op = "extend" /\ call.file \in FILES
      /\ call.prev \in Clusters
  BY <1>2 DEF CallType
<1>4. PICK w, k, u, x, prev, file :
        /\ w = View(vol) /\ k = Card(vol) /\ u = View(o.vol)
        /\ x = call.clust /\ prev = call.prev /\ file = call.file
  OBVIOUS
<1>5. /\ VolType(o.vol) /\ SameHints(vol, o.vol) /\ o.err \in {"none", "io"}
      /\ u \in Stages(w, prev, x) /\ Card(o.vol) \in {k} \cup Stages(w, prev, x)
      /\ o.err = "none" => u = PutBoth(w, prev, x)
  <2>1. x \in FatVal
    BY <1>3, <1>4 DEF FatVal
  <2> QED BY <1>1, <1>2, <1>3, <1>4, <2>1, PutFatTypes
<1>6. ASSUME ~hurt.removal
      PROVE  /\ InChains(w, pos) /\ Whole(w) /\ Whole(k) /\ ViewType(w)
             /\ Counts(vol, call, hurt) /\ prev = pos[file]
             /\ w.s[file] # 0 /\ prev \in Chain(w.t, w.s[file]) \cap Clusters
             /\ w.t[prev] = EOC /\ Fresh(w, x)
             /\ vol.free_cnt >= FreeCnt(w.t)
  <2>1. /\ InChains(w, pos) /\ Whole(w) /\ Whole(k)
        /\ Counts(vol, call, hurt) /\ Staged(w, call, pos) /\ vol.free_cnt >= FreeCnt(w.t)
    BY <1>3, <1>4, <1>6, SoundFacts
  <2>2. prev = pos[file] /\ w.t[prev] = EOC /\ Fresh(w, x) /\ prev # 0
    BY <1>2, <1>3, <1>4, <2>1, Constants3 DEF Staged
  <2>3. w.s[file] # 0 /\ prev \in Chain(w.t, w.s[file])
    BY <1>3, <1>4, <2>1, <2>2 DEF InChains
  <2> QED BY <1>2, <1>3, <1>4, <2>1, <2>2, <2>3 DEF VolType
<1>7. ASSUME ~hurt.removal, NEW y \in Stages(w, prev, x)
      PROVE  /\ Whole(y) /\ InChains(y, pos) /\ FreeCnt(y.t) = FreeCnt(w.t) /\ y.s = w.s
             /\ y = PutBoth(w, prev, x) =>
                  /\ x \in Chain(y.t, w.s[file]) /\ y.i = w.i
                  /\ MIRROR /\ w.t = w.m => y.t = y.m
  BY <1>3, <1>4, <1>6, <1>7, LinkedView
<1>8. ASSUME ~hurt.removal
      PROVE  /\ InChains(u, pos) /\ Whole(u) /\ Whole(Card(o.vol))
             /\ o.vol.free_cnt >= FreeCnt(u.t)
  <2>1. Whole(u) /\ InChains(u, pos) /\ FreeCnt(u.t) = FreeCnt(w.t)
    BY <1>5, <1>7, <1>8
  <2>2. Whole(Card(o.vol))
    BY <1>5, <1>6, <1>7, <1>8
  <2>3. o.vol.free_cnt = vol.free_cnt
    BY <1>5 DEF SameHints
  <2> QED BY <1>2, <1>6, <1>8, <2>1, <2>2, <2>3
<1>9. CASE o.err # "none"
  <2>1. Sound(o.vol, Idle, pos, HurtBy(call, hurt))
    BY <1>2, <1>4, <1>5, <1>8, Abort
  <2> QED BY <1>1, <1>9, <2>1
<1>10. CASE o.err = "none"
  <2>1. PICK d : d = [call EXCEPT !.at = "finish"]
    OBVIOUS
  <2>2. /\ d.op = "extend" /\ d.file = file /\ d.clust = x /\ d.prev = prev /\ d.at = "finish"
    BY <1>2, <1>3, <1>4, <2>1 DEF CallType
  <2>3. CallType(d)
    BY <1>2, <1>3, <1>4, <2>1, <2>2 DEF CallType
  <2>4. Types(o.vol, d, pos, hurt) /\ Scanned(o.vol, d)
    BY <1>2, <1>5, <2>2, <2>3 DEF Types, Scanned
  <2>5. ASSUME ~hurt.removal PROVE Unhurt(o.vol, d, pos, hurt)
    <3>1. /\ FreeCnt(u.t) = FreeCnt(w.t) /\ u.s = w.s
          /\ x \in Chain(u.t, w.s[file]) /\ u.i = w.i
          /\ MIRROR /\ w.t = w.m => u.t = u.m
      BY <1>5, <1>7, <1>10, <2>5
    <3>2. Staged(u, d, pos)
      BY <1>6, <2>2, <2>5, <3>1 DEF Staged
    <3>3. Handles(u, d, pos) /\ Files(o.vol, d)
      BY <1>3, <1>4, <1>8, <2>2, <2>5 DEF Handles, Files
    <3>4. Counts(o.vol, d, hurt)
      <4>1. Pending(call) = 1 /\ Pending(d) = 1
        BY <1>2, <2>2 DEF Pending
      <4>2. o.vol.free_cnt = vol.free_cnt /\ o.vol.info_dirty = vol.info_dirty
        BY <1>5 DEF SameHints
      <4>3. /\ vol.free_cnt >= FreeCnt(w.t) + 1 /\ vol.info_dirty
            /\ hurt.faults = 0 => vol.free_cnt = FreeCnt(w.t) + 1 /\ (MIRROR => w.t = w.m)
        BY <1>2, <1>4, <1>6, <2>5, <4>1 DEF Counts
      <4> QED BY <1>4, <3>1, <4>1, <4>2, <4>3 DEF Counts
    <3> QED BY <1>4, <3>2, <3>3, <3>4 DEF Unhurt
  <2>6. Sound(o.vol, d, pos, hurt)
    BY <2>4, <2>5 DEF Sound
  <2> QED BY <1>1, <1>10, <2>1, <2>6
<1> QED BY <1>9, <1>10

LEMMA EnterStep ==
  ASSUME Sound(vol, call, pos, hurt), EnterFile
  PROVE  Sound(vol', call', pos', hurt')
<1>1. PICK o \in put_item(vol, Directory, call.file, call.clust) :
        /\ vol' = o.vol
        /\ IF o.err = "none"
           THEN pos' = [pos EXCEPT ![call.file] = call.clust] /\ call' = Idle /\ hurt' = hurt
           ELSE call' = Idle /\ hurt' = HurtBy(call, hurt) /\ pos' = pos
  BY DEF EnterFile, Does, Hurt, HurtBy
<1>2. /\ VolType(vol) /\ CallType(call) /\ HurtType(hurt) /\ pos \in [FILES -> Clusters \cup {0}]
      /\ call.at = "enter" /\ vol.free_cnt \in Int
  BY SoundFacts DEF EnterFile
<1>3. call.clust \in Clusters /\ call.op = "create" /\ call.file \in FILES
  BY <1>2 DEF CallType
<1>4. PICK w, k, u, x, file :
        /\ w = View(vol) /\ k = Card(vol) /\ u = PutEntry(w, file, x)
        /\ x = call.clust /\ file = call.file
  OBVIOUS
<1>5. /\ o.err \in {"none", "io"}
      /\ o.err = "io" => Kept(vol, o.vol)
      /\ o.err = "none" =>
           /\ Windowed(o.vol) /\ SameHints(vol, o.vol)
           /\ Card(o.vol) \in {k, w}
           /\ View(o.vol) = u
  <2>1. Windowed(vol) /\ x \in Clusters
    BY <1>2, <1>3, <1>4 DEF VolType
  <2>2. x \in Int
    BY <2>1, Constants3
  <2> QED BY <1>1, <1>3, <1>4, <2>1, <2>2, PutDir
<1>6. CASE o.err # "none"
  BY <1>1, <1>5, <1>6, KeptAbort
<1>7. CASE o.err = "none"
  <2>1. ViewType(w) /\ ViewType(k)
    BY <1>2, <1>4 DEF VolType
  <2>2. ViewType(u) /\ u.t = w.t /\ u.m = w.m /\ u.i = w.i
    BY <1>3, <1>4, <2>1, EntryTypes
  <2>3. VolType(o.vol)
    BY <1>5, <1>7, <2>1, <2>2 DEF VolType
  <2>4. PICK q : q = [pos EXCEPT ![file] = x]
    OBVIOUS
  <2>5. /\ q \in [FILES -> Clusters \cup {0}] /\ q[file] = x
        /\ \A g \in FILES \ {file} : q[g] = pos[g]
    BY <1>2, <1>3, <1>4, <2>4
  <2>6. ASSUME ~hurt.removal
        PROVE  /\ InChains(View(o.vol), q) /\ Whole(View(o.vol)) /\ Whole(Card(o.vol))
               /\ Counts(o.vol, Idle, hurt)
    <3>1. /\ InChains(w, pos) /\ Whole(w) /\ Whole(k)
          /\ Counts(vol, call, hurt) /\ Staged(w, call, pos)
      BY <1>3, <1>4, <2>6, SoundFacts
    <3>2. Fresh(w, x) /\ x # 0 /\ x \in Int
      <4>1. x \in Clusters /\ Fresh(w, x)
        BY <1>2, <1>3, <1>4, <3>1 DEF Staged
      <4> QED BY <4>1, Constants3
    <3>3. w.s \in Row /\ Mountable(w, {}) /\ file \in FILES
      BY <1>3, <1>4, <2>1, <3>1 DEF ViewType, Whole
    <3>4. /\ Mountable(u, {}) /\ u.s[file] = x /\ \A f \in FILES \ {file} : u.s[f] = w.s[f]
          /\ x \in Chain(u.t, x)
      <4>1. PICK X : X = {} /\ Mountable(w, X) /\ X \subseteq {file}
        BY <3>3
      <4>2. /\ Mountable(w, X) /\ w.s \in Row /\ file \in FILES /\ X \subseteq {file}
            /\ x \in Int /\ u = PutEntry(w, file, x) /\ (x # 0 => Fresh(w, x))
        BY <1>4, <3>2, <3>3, <4>1
      <4>3. /\ Mountable(u, {}) /\ u.s[file] = x /\ \A f \in FILES \ {file} : u.s[f] = w.s[f]
            /\ x # 0 => x \in Chain(u.t, x)
        BY ONLY <4>2, Entered
      <4> QED BY <3>2, <4>3
    <3>5. InChains(u, q)
      <4> SUFFICES ASSUME NEW f \in FILES, q[f] # 0
                   PROVE  u.s[f] # 0 /\ q[f] \in Chain(u.t, u.s[f])
        BY DEF InChains
      <4>1. CASE f = file
        BY <2>5, <3>2, <3>4, <4>1
      <4>2. CASE f # file
        <5>1. q[f] = pos[f] /\ u.s[f] = w.s[f]
          BY <2>5, <3>4, <4>2
        <5> QED BY <2>2, <3>1, <5>1 DEF InChains
      <4> QED BY <4>1, <4>2
    <3>6. Whole(u)
      BY <2>2, <3>1, <3>4 DEF Whole
    <3>7. Counts(o.vol, Idle, hurt)
      <4>1. Pending(call) = 0 /\ Pending(Idle) = 0 /\ Idle.at = "none"
        BY <1>2 DEF Pending, Idle
      <4>2. /\ o.vol.free_cnt = vol.free_cnt /\ o.vol.info_dirty = vol.info_dirty
            /\ View(o.vol).t = w.t /\ View(o.vol).m = w.m /\ View(o.vol).i = w.i
            /\ Card(o.vol).i \in {w.i, k.i}
        BY <1>5, <1>7, <2>2 DEF SameHints
      <4> QED BY <1>4, <3>1, <4>1, <4>2 DEF Counts
    <3> QED BY <1>5, <1>7, <3>1, <3>5, <3>6, <3>7
  <2>7. Sound(o.vol, Idle, q, hurt)
    BY <1>2, <2>3, <2>5, <2>6, Ended
  <2> QED BY <1>1, <1>4, <1>7, <2>4, <2>7
<1> QED BY <1>5, <1>6, <1>7

-----------------------------------------------------------------------------
(* Removal *)

(* What freeing the first cluster left of a removed file leaves *)
AfterFree(w, u, c, p) ==
  /\ Mountable(u, {c.file}) /\ FreeCnt(u.t) = FreeCnt(w.t) + 1
  /\ \A f \in FILES : p[f] # 0 => f # c.file /\ u.s[f] # 0 /\ p[f] \in Chain(u.t, u.s[f])
  /\ MIRROR /\ w.t = w.m => u.t = u.m
  /\ w.t[c.clust] # EOC =>
       /\ HasPath(u.t, w.t[c.clust])
       /\ \A g \in FILES \ {c.file} : Chain(u.t, w.t[c.clust]) \cap Claims(u, g) = {}

LEMMA FreedView ==
  ASSUME NEW w, ViewType(w), NEW p, NEW c, CallType(c), c.at = "remove",
         Handles(w, c, p), Staged(w, c, p), Mountable(w, {c.file}),
         NEW u, u = PutBoth(w, c.clust, FREE)
  PROVE  AfterFree(w, u, c, p)
<1>1. c.clust \in Clusters /\ c.file \in FILES /\ c.op = "unlink"
  BY DEF CallType
<1>2. PICK x, file : x = c.clust /\ file = c.file
  OBVIOUS
<1>3. /\ HasPath(w.t, x) /\ \A g \in FILES \ {file} : Chain(w.t, x) \cap Claims(w, g) = {}
      /\ w.t \in [Clusters -> FatVal] /\ w.m \in [Clusters -> FatVal]
      /\ x \in Clusters /\ file \in FILES /\ Mountable(w, {file}) /\ u = PutBoth(w, x, FREE)
  BY <1>1, <1>2 DEF Staged, ViewType
<1>4. /\ Mountable(u, {file}) /\ u.s = w.s
      /\ \A f \in FILES \ {file} : w.s[f] # 0 => Chain(u.t, w.s[f]) = Chain(w.t, w.s[f])
      /\ w.t[x] \in Clusters \cup {EOC} /\ u.t = [w.t EXCEPT ![x] = FREE]
      /\ w.t[x] # EOC =>
           /\ HasPath(u.t, w.t[x])
           /\ \A g \in FILES \ {file} : Chain(u.t, w.t[x]) \cap Claims(u, g) = {}
  BY <1>3, FreeHead
<1>5. FreeCnt(u.t) = FreeCnt(w.t) + 1
  BY <1>3, <1>4, FreeFreed, Constants3
<1>6. ASSUME NEW f \in FILES, p[f] # 0
      PROVE  f # file /\ u.s[f] # 0 /\ p[f] \in Chain(u.t, u.s[f])
  BY <1>1, <1>2, <1>4, <1>6 DEF Handles, InChains
<1>7. MIRROR /\ w.t = w.m => u.t = u.m
  <2>1. PICK e \in FatVal : e = FREE
    BY DEF FatVal
  <2>2. u \in Stages(w, x, e) /\ u = PutBoth(w, x, e)
    BY <1>3, <2>1 DEF Stages
  <2>3. AtLast(w, u, x, e)
    BY <1>3, <2>2, PutBothFacts
  <2> QED BY <2>3 DEF AtLast
<1> QED BY <1>2, <1>4, <1>5, <1>6, <1>7 DEF AfterFree

LEMMA RemovalStep ==
  ASSUME Sound(vol, call, pos, hurt), RemoveStep
  PROVE  Sound(vol', call', pos', hurt')
<1>1. call.at = "remove" /\ CallType(call) /\ HurtType(hurt) /\ pos \in [FILES -> Clusters \cup {0}]
  BY SoundFacts DEF RemoveStep
<1>2. call.clust \in Clusters /\ call.op = "unlink" /\ call.file \in FILES
  BY <1>1 DEF CallType
<1> DEFINE v == [vol EXCEPT !.info_dirty = TRUE]
           x == call.clust
<1>3. v = [vol EXCEPT !.info_dirty = TRUE] /\ x = call.clust
  OBVIOUS
<1>4. Sound(v, call, pos, hurt) /\ v.info_dirty /\ Windowed(v)
  BY <1>3, DirtySound
<1>5. PICK o \in get_fat(v, x) :
        IF o.err = "none" /\ Entry(o.vol, x) \in {BAD, FREE}
        THEN vol' = o.vol /\ call' = Idle /\ pos' = pos /\ hurt' = hurt
        ELSE \E r \in (IF o.err = "none"
                       THEN Then(put_fat(o.vol, x, FREE), LAMBDA y : Ok([y EXCEPT !.free_cnt = @ + 1]))
                       ELSE {o}) :
               /\ vol' = r.vol
               /\ IF r.err = "none"
                  THEN /\ call' = [call EXCEPT
                                     !.at = IF IsLast(Entry(o.vol, x)) THEN "sync" ELSE "remove",
                                     !.clust = IF IsLast(Entry(o.vol, x)) THEN x ELSE Entry(o.vol, x)]
                       /\ pos' = pos /\ hurt' = hurt
                  ELSE call' = Idle /\ hurt' = HurtBy(call, hurt) /\ pos' = pos
  <2> DEFINE Freed(u) ==
        Then(put_fat(u, call.clust, FREE), LAMBDA y : Ok([y EXCEPT !.free_cnt = @ + 1]))
  <2>1. PICK o \in get_fat([vol EXCEPT !.info_dirty = TRUE], call.clust) :
          IF o.err = "none" /\ Entry(o.vol, call.clust) \in {BAD, FREE}
          THEN vol' = o.vol /\ call' = Idle /\ pos' = pos /\ hurt' = hurt
          ELSE \E r \in UNION {IF p.err = "none" THEN Freed(p.vol) ELSE {p} : p \in {o}} :
                 /\ vol' = r.vol
                 /\ IF r.err = "none"
                    THEN /\ call' = [call EXCEPT
                              !.at = IF IsLast(Entry(o.vol, call.clust)) THEN "sync" ELSE "remove",
                              !.clust = IF IsLast(Entry(o.vol, call.clust)) THEN call.clust
                                        ELSE Entry(o.vol, call.clust)]
                         /\ pos' = pos /\ hurt' = hurt
                    ELSE call' = Idle /\ hurt' = HurtBy(call, hurt) /\ pos' = pos
    BY DEF RemoveStep, Does, Then, Return, Hurt, HurtBy
  <2> HIDE DEF Freed
  <2>2. UNION {IF p.err = "none" THEN Freed(p.vol) ELSE {p} : p \in {o}}
          = IF o.err = "none" THEN Freed(o.vol) ELSE {o}
    OBVIOUS
  <2> QED BY <2>1, <2>2 DEF Freed
<1> HIDE DEF v, x
<1>6. Kept(v, o.vol) /\ (o.err = "none" => o.vol.sect = SectorOf(Active, x))
  BY <1>2, <1>3, <1>4, <1>5, UpdateBuf, SectorFacts DEF get_fat
<1>7. Sound(o.vol, call, pos, hurt) /\ o.vol.info_dirty
  BY <1>4, <1>6, KeptSound DEF Kept, SameHints
<1>8. CASE o.err # "none"
  <2>1. vol' = o.vol /\ call' = Idle /\ hurt' = HurtBy(call, hurt) /\ pos' = pos
    BY <1>5, <1>8
  <2> QED BY <1>4, <1>6, <2>1, KeptAbort
<1>9. CASE o.err = "none"
  <2>1. PICK w, next : w = View(o.vol) /\ next = Entry(o.vol, x)
    OBVIOUS
  <2>2. next = w.t[x] /\ VolType(o.vol) /\ ViewType(w)
    BY <1>2, <1>3, <1>6, <1>7, <1>9, <2>1, ReadEntry, SoundFacts DEF VolType
  <2>3. next \in FatVal
    BY <1>2, <1>3, <2>2 DEF ViewType
  <2>4. ASSUME ~hurt.removal
        PROVE  /\ Handles(w, call, pos) /\ Staged(w, call, pos) /\ Counts(o.vol, call, hurt)
               /\ Mountable(w, {call.file}) /\ next \in Clusters \cup {EOC}
    <3>1. /\ Handles(w, call, pos) /\ Staged(w, call, pos) /\ Counts(o.vol, call, hurt)
          /\ Mountable(w, {call.file})
      BY <1>2, <1>7, <2>1, <2>4, SoundFacts DEF Files
    <3>2. HasPath(w.t, x)
      BY <1>1, <1>3, <3>1 DEF Staged
    <3> QED BY <2>2, <3>1, <3>2, ChainTail
  <2>5. CASE next \in {BAD, FREE}
    <3>1. vol' = o.vol /\ call' = Idle /\ pos' = pos /\ hurt' = hurt
      BY <1>5, <1>9, <2>1, <2>5
    <3>2. ~hurt.removal => call.op # "unlink"
      BY <2>4, <2>5, Constants3
    <3> QED BY <1>1, <1>7, <3>1, <3>2, Returned
  <2>6. CASE next \notin {BAD, FREE}
    <3>1. PICK r \in Then(put_fat(o.vol, x, FREE), LAMBDA y : Ok([y EXCEPT !.free_cnt = @ + 1])) :
            /\ vol' = r.vol
            /\ IF r.err = "none"
               THEN /\ call' = [call EXCEPT !.at = IF IsLast(next) THEN "sync" ELSE "remove",
                                            !.clust = IF IsLast(next) THEN x ELSE next]
                    /\ pos' = pos /\ hurt' = hurt
               ELSE call' = Idle /\ hurt' = HurtBy(call, hurt) /\ pos' = pos
      BY <1>5, <1>9, <2>1, <2>6
    <3>2. PICK q \in put_fat(o.vol, x, FREE) :
            IF q.err = "none"
            THEN r = [vol |-> [q.vol EXCEPT !.free_cnt = @ + 1], err |-> "none"]
            ELSE r = q
      BY <3>1 DEF Then, Ok
    <3>3. /\ VolType(q.vol) /\ SameHints(o.vol, q.vol) /\ q.err \in {"none", "io"}
          /\ q.err = "none" => View(q.vol) = PutBoth(w, x, FREE)
      <4>1. PICK e \in FatVal : e = FREE
        BY DEF FatVal
      <4>2. q \in put_fat(o.vol, x, e) /\ x \in Clusters
        BY <1>2, <1>3, <3>2, <4>1
      <4> QED BY <2>1, <2>2, <4>1, <4>2, PutFatTypes
    <3>4. CASE q.err # "none"
      <4>1. Sound(q.vol, Idle, pos, HurtBy(call, hurt))
        BY <1>1, <1>2, <3>3, Abort
      <4> QED BY <3>1, <3>2, <3>4, <4>1
    <3>5. CASE q.err = "none"
      <4>1. PICK y : y = [q.vol EXCEPT !.free_cnt = @ + 1]
        OBVIOUS
      <4>2. /\ VolType(y) /\ View(y) = PutBoth(w, x, FREE) /\ y.free_cnt = o.vol.free_cnt + 1
            /\ y.info_dirty
        <5>1. Windowed(q.vol) /\ q.vol.free_cnt \in Int
          BY <3>3 DEF VolType, Windowed
        <5>2. /\ y.disk = q.vol.disk /\ y.sect = q.vol.sect /\ y.buf = q.vol.buf
              /\ y.dirty = q.vol.dirty /\ y.info_dirty = q.vol.info_dirty
              /\ y.free_cnt = q.vol.free_cnt + 1
          BY <4>1, <5>1 DEF Windowed
        <5>3. y \in [disk : [Sectors -> Row], sect : Sectors \cup {NoSector}, buf : Row,
                     dirty : BOOLEAN, info_dirty : BOOLEAN, last_used : Clusters, free_cnt : Int]
          BY <4>1, <5>1 DEF Windowed
        <5>4. Windowed(y)
          BY <5>1, <5>2, <5>3 DEF Windowed
        <5>5. \A s \in Sectors : Content(y, s) = Content(q.vol, s)
          BY <5>2 DEF Content
        <5>6. View(y) = View(q.vol) /\ Card(y) = Card(q.vol)
          BY <5>2, <5>5, SameView, SameCard
        <5>7. VolType(y)
          BY <3>3, <5>4, <5>6 DEF VolType
        <5> QED BY <1>7, <3>3, <3>5, <5>2, <5>6, <5>7 DEF SameHints
      <4>3. PICK at \in {"sync", "remove"}, z \in Clusters :
              /\ at = IF IsLast(next) THEN "sync" ELSE "remove"
              /\ z = IF IsLast(next) THEN x ELSE next
        BY <1>2, <1>3, <2>3, <2>6 DEF IsLast, FatVal
      <4>4. PICK d : d = [call EXCEPT !.at = at, !.clust = z]
        OBVIOUS
      <4>5. /\ d.op = "unlink" /\ d.at = at /\ d.clust = z /\ d.file = call.file
            /\ CallType(d)
        BY <1>1, <1>2, <4>4 DEF CallType
      <4>6. Types(y, d, pos, hurt) /\ Scanned(y, d)
        BY <1>1, <4>2, <4>5 DEF Types, Scanned
      <4>7. ASSUME ~hurt.removal PROVE Unhurt(y, d, pos, hurt)
        <5>1. PICK u : u = View(y)
          OBVIOUS
        <5>2. /\ Mountable(u, {call.file}) /\ FreeCnt(u.t) = FreeCnt(w.t) + 1
              /\ \A f \in FILES : pos[f] # 0 =>
                   f # call.file /\ u.s[f] # 0 /\ pos[f] \in Chain(u.t, u.s[f])
              /\ MIRROR /\ w.t = w.m => u.t = u.m
              /\ next # EOC =>
                   /\ HasPath(u.t, next)
                   /\ \A g \in FILES \ {call.file} : Chain(u.t, next) \cap Claims(u, g) = {}
          <6>1. /\ ViewType(w) /\ CallType(call) /\ call.at = "remove" /\ Handles(w, call, pos)
                /\ Staged(w, call, pos) /\ Mountable(w, {call.file})
                /\ u = PutBoth(w, call.clust, FREE) /\ next = w.t[call.clust]
            BY <1>1, <1>3, <2>2, <2>4, <4>2, <4>7, <5>1
          <6>2. AfterFree(w, u, call, pos)
            BY ONLY <6>1, FreedView
          <6> QED BY <6>1, <6>2 DEF AfterFree
        <5>3. Handles(u, d, pos) /\ Files(y, d)
          BY <4>5, <5>1, <5>2 DEF Handles, InChains, Files
        <5>4. Staged(u, d, pos)
          BY <4>3, <4>5, <5>2 DEF Staged, IsLast
        <5>5. Counts(y, d, hurt)
          <6>1. Pending(call) = 0 /\ Pending(d) = 0 /\ FreeCnt(w.t) \in Nat
            BY <1>1, <4>5, FreeFacts DEF Pending
          <6>2. /\ o.vol.free_cnt >= FreeCnt(w.t) /\ o.vol.free_cnt \in Int
                /\ hurt.faults = 0 => o.vol.free_cnt = FreeCnt(w.t) /\ (MIRROR => w.t = w.m)
            BY <1>7, <2>1, <2>4, <4>7, <6>1, SoundFacts DEF Counts
          <6> QED BY <4>2, <5>1, <5>2, <6>1, <6>2 DEF Counts
        <5> QED BY <5>1, <5>3, <5>4, <5>5 DEF Unhurt
      <4>8. Sound(y, d, pos, hurt)
        BY <4>6, <4>7 DEF Sound
      <4> QED BY <3>1, <3>2, <3>5, <4>1, <4>3, <4>4, <4>8
    <3> QED BY <3>4, <3>5
  <2> QED BY <2>5, <2>6
<1> QED BY <1>8, <1>9

LEMMA SyncTypes ==
  ASSUME NEW v, VolType(v), NEW o \in sync_fs(v)
  PROVE  VolType(o.vol) /\ o.err \in {"none", "io"}
<1>1. PICK w, u : w = View(v) /\ u = PutInfo(w, v.last_used, v.free_cnt)
  OBVIOUS
<1>2. Windowed(v) /\ ViewType(w) /\ v.last_used \in Clusters /\ v.free_cnt \in Int
  BY <1>1 DEF VolType, Windowed
<1>3. ViewType(u)
  BY <1>1, <1>2, InfoTypes
<1>4. /\ Windowed(o.vol) /\ o.err \in {"none", "io"}
      /\ View(o.vol) \in {w, u} /\ Card(o.vol) \in {Card(v), w, u}
  BY <1>1, <1>2, SyncFs
<1> QED BY <1>2, <1>3, <1>4 DEF VolType

LEMMA PutDirTypes ==
  ASSUME NEW v, VolType(v), NEW f \in FILES, NEW o \in put_item(v, Directory, f, 0)
  PROVE  /\ VolType(o.vol) /\ o.err \in {"none", "io"}
         /\ o.err = "none" => View(o.vol) = PutEntry(View(v), f, 0) /\ SameHints(v, o.vol)
<1>1. Windowed(v) /\ 0 \in Int /\ ViewType(View(v))
  BY DEF VolType
<1>2. /\ o.err \in {"none", "io"} /\ (o.err = "io" => Kept(v, o.vol))
      /\ o.err = "none" =>
           /\ Windowed(o.vol) /\ SameHints(v, o.vol)
           /\ Card(o.vol) \in {Card(v), View(v)}
           /\ View(o.vol) = PutEntry(View(v), f, 0)
  BY <1>1, PutDir
<1>3. ViewType(PutEntry(View(v), f, 0))
  BY <1>1, EntryTypes
<1> QED BY <1>2, <1>3 DEF VolType, Kept

LEMMA EntryStep ==
  ASSUME Sound(vol, call, pos, hurt), RemoveEntry
  PROVE  Sound(vol', call', pos', hurt')
<1>1. call.at = "sync" /\ CallType(call) /\ HurtType(hurt) /\ VolType(vol)
      /\ pos \in [FILES -> Clusters \cup {0}]
  BY SoundFacts DEF RemoveEntry
<1>2. call.op = "unlink" /\ call.file \in FILES
  BY <1>1 DEF CallType
<1>3. PICK o \in Then(Then(sync_fs(vol), LAMBDA w : put_item(w, Directory, call.file, 0)), sync_fs) :
        /\ vol' = o.vol
        /\ IF o.err = "none" THEN call' = Idle /\ pos' = pos /\ hurt' = hurt
           ELSE call' = Idle /\ hurt' = HurtBy(call, hurt) /\ pos' = pos
  BY DEF RemoveEntry, Does, Return, Hurt, HurtBy
<1>4. PICK b \in Then(sync_fs(vol), LAMBDA w : put_item(w, Directory, call.file, 0)) :
        IF b.err = "none" THEN o \in sync_fs(b.vol) ELSE o = b
  BY <1>3 DEF Then
<1>5. PICK a \in sync_fs(vol) :
        IF a.err = "none" THEN b \in put_item(a.vol, Directory, call.file, 0) ELSE b = a
  BY <1>4 DEF Then
<1>6. VolType(a.vol) /\ a.err \in {"none", "io"}
  BY <1>1, <1>5, SyncTypes
<1>7. /\ VolType(b.vol) /\ b.err \in {"none", "io"}
      /\ a.err = "none" /\ b.err = "none" =>
           View(b.vol) = PutEntry(View(a.vol), call.file, 0) /\ SameHints(a.vol, b.vol)
      /\ a.err # "none" => b.err # "none"
  BY <1>2, <1>5, <1>6, PutDirTypes
<1>8. VolType(o.vol) /\ o.err \in {"none", "io"} /\ (b.err # "none" => o.err # "none")
  BY <1>4, <1>7, SyncTypes
<1>9. CASE o.err # "none"
  <2>1. Sound(o.vol, Idle, pos, HurtBy(call, hurt))
    BY <1>1, <1>2, <1>8, Abort
  <2> QED BY <1>3, <1>9, <2>1
<1>10. CASE o.err = "none"
  <2>1. a.err = "none" /\ b.err = "none" /\ o \in sync_fs(b.vol)
    BY <1>4, <1>7, <1>8, <1>10
  <2>2. ASSUME ~hurt.removal
        PROVE  /\ InChains(View(o.vol), pos) /\ Whole(View(o.vol)) /\ Whole(Card(o.vol))
               /\ Counts(o.vol, Idle, hurt)
    <3>1. PICK w, x, u, file :
            /\ w = View(vol) /\ x = PutInfo(w, vol.last_used, vol.free_cnt)
            /\ file = call.file /\ u = PutEntry(x, file, 0)
      OBVIOUS
    <3>2. /\ Handles(w, call, pos) /\ Counts(vol, call, hurt) /\ Mountable(w, {file})
          /\ vol.free_cnt >= FreeCnt(w.t) /\ vol.info_dirty
      BY <1>1, <1>2, <2>2, <3>1, SoundFacts DEF Files, Counts
    <3>3. Windowed(vol) /\ ViewType(w) /\ vol.last_used \in Clusters /\ vol.free_cnt \in Int
      BY <1>1, <3>1 DEF VolType, Windowed
    <3>4. ViewType(x) /\ x.t = w.t /\ x.m = w.m /\ x.s = w.s /\ x.i[1] = vol.free_cnt
      BY <3>1, <3>3, InfoTypes
    <3>5. View(a.vol) = x /\ ~a.vol.info_dirty /\ a.vol.free_cnt = vol.free_cnt
      BY <1>5, <2>1, <3>1, <3>2, <3>3, SyncFs
    <3>6. View(b.vol) = u /\ ~b.vol.info_dirty /\ b.vol.free_cnt = vol.free_cnt /\ Windowed(b.vol)
      BY <1>7, <2>1, <3>1, <3>5 DEF SameHints, VolType
    <3>7. /\ View(o.vol) = u /\ Card(o.vol) = u /\ ~o.vol.info_dirty
          /\ o.vol.free_cnt = vol.free_cnt
      BY <1>10, <2>1, <3>6, SyncFs
    <3>8. ViewType(u) /\ u.t = w.t /\ u.m = w.m /\ u.i = x.i
      BY <1>2, <3>1, <3>4, EntryTypes
    <3>9. Mountable(u, {}) /\ \A f \in FILES \ {file} : u.s[f] = w.s[f]
      <4>1. Mountable(x, {file}) /\ x.s \in Row /\ file \in FILES
        BY <1>2, <3>1, <3>2, <3>4, SameFiles DEF ViewType
      <4>2. PICK X : X = {file}
        OBVIOUS
      <4>3. PICK val \in Int : val = 0
        OBVIOUS
      <4>4. /\ Mountable(x, X) /\ x.s \in Row /\ file \in FILES /\ X \subseteq {file}
            /\ u = PutEntry(x, file, val) /\ (val # 0 => Fresh(x, val))
        BY <3>1, <4>1, <4>2, <4>3
      <4>5. Mountable(u, {}) /\ \A f \in FILES \ {file} : u.s[f] = x.s[f]
        BY <4>4, Entered
      <4> QED BY <3>4, <4>5
    <3>10. InChains(u, pos)
      <4> SUFFICES ASSUME NEW f \in FILES, pos[f] # 0
                   PROVE  u.s[f] # 0 /\ pos[f] \in Chain(u.t, u.s[f])
        BY DEF InChains
      <4>1. f # file /\ w.s[f] # 0 /\ pos[f] \in Chain(w.t, w.s[f])
        BY <1>2, <3>1, <3>2 DEF Handles, InChains
      <4> QED BY <3>8, <3>9, <4>1
    <3>11. Whole(u)
      BY <3>2, <3>4, <3>8, <3>9 DEF Whole
    <3>12. Counts(o.vol, Idle, hurt)
      <4>1. Pending(call) = 0 /\ Pending(Idle) = 0 /\ Idle.at = "none"
        BY <1>1 DEF Pending, Idle
      <4>2. /\ vol.free_cnt >= FreeCnt(w.t) + 0
            /\ hurt.faults = 0 => vol.free_cnt = FreeCnt(w.t) + 0 /\ (MIRROR => w.t = w.m)
        BY <3>1, <3>2, <4>1 DEF Counts
      <4> QED BY <3>4, <3>7, <3>8, <4>1, <4>2 DEF Counts
    <3> QED BY <3>7, <3>10, <3>11, <3>12
  <2>3. Sound(o.vol, Idle, pos, hurt)
    BY <1>1, <1>8, <2>2, Ended
  <2> QED BY <1>3, <1>10, <2>3
<1> QED BY <1>9, <1>10

-----------------------------------------------------------------------------
(* Power cuts, and the start *)

(* Whoever mounts a card sees what is on it. *)
LEMMA Mounted ==
  ASSUME NEW disk \in [Sectors -> Row], disk[Info][0] \in Clusters,
         NEW v, v = fat_mount(disk), NEW u, u.disk = disk
  PROVE  /\ Windowed(v) /\ View(v) = Card(u) /\ Card(v) = Card(u)
         /\ v.last_used = disk[Info][0] /\ v.free_cnt = disk[Info][1] /\ ~v.info_dirty
<1>1. Info \in Sectors /\ NoSector \notin Sectors /\ 0 \in Items /\ 1 \in Items
  BY SectorFacts, ChainAssumption DEF Items
<1>2. disk[Info] \in Row /\ disk[Info][1] \in Int
  BY <1>1 DEF Row
<1>3. /\ v.disk = disk /\ v.sect = NoSector /\ v.buf = disk[Info] /\ v.dirty = FALSE
      /\ v.info_dirty = FALSE /\ v.last_used = disk[Info][0] /\ v.free_cnt = disk[Info][1]
  BY DEF fat_mount
<1>4. v \in [disk : [Sectors -> Row], sect : Sectors \cup {NoSector}, buf : Row, dirty : BOOLEAN,
             info_dirty : BOOLEAN, last_used : Clusters, free_cnt : Int]
  BY <1>2 DEF fat_mount
<1>5. Windowed(v)
  BY <1>1, <1>3, <1>4 DEF Windowed
<1>6. Card(v) = Card(u) /\ Card(v) = View(v)
  BY <1>3, <1>5, SameCard, CleanWindow
<1> QED BY <1>3, <1>5, <1>6

LEMMA PowerCutStep ==
  ASSUME Sound(vol, call, pos, hurt), PowerCut
  PROVE  Sound(vol', call', pos', hurt')
<1>1. VolType(vol) /\ CallType(call) /\ HurtType(hurt)
  BY SoundFacts
<1>2. PICK v, p, disk, k : /\ v = fat_mount(vol.disk) /\ p = [f \in FILES |-> 0]
                           /\ disk = vol.disk /\ k = Card(vol)
  OBVIOUS
<1>3. vol' = v /\ call' = Idle /\ pos' = p /\ hurt' = HurtBy(call, hurt)
  BY <1>2 DEF PowerCut, Hurt, HurtBy
<1>4. disk \in [Sectors -> Row] /\ ViewType(k) /\ k.i = disk[Info]
  BY <1>1, <1>2 DEF VolType, Windowed, Card
<1>5. disk[Info][0] \in Clusters
  BY <1>4 DEF ViewType
<1>6. Windowed(v) /\ View(v) = k /\ Card(v) = k /\ v.free_cnt = k.i[1]
  BY <1>2, <1>4, <1>5, Mounted
<1>7. VolType(v) /\ p \in [FILES -> Clusters \cup {0}]
  BY <1>2, <1>4, <1>6 DEF VolType
<1>8. ~hurt.removal /\ call.op # "unlink" =>
        /\ InChains(View(v), p) /\ Whole(View(v)) /\ Whole(Card(v))
        /\ v.free_cnt >= FreeCnt(View(v).t)
  <2> SUFFICES ASSUME ~hurt.removal, call.op # "unlink"
               PROVE  InChains(k, p) /\ Whole(k) /\ v.free_cnt >= FreeCnt(k.t)
    BY <1>6
  <2>1. Whole(k)
    BY <1>2, SoundFacts
  <2>2. InChains(k, p)
    BY <1>2 DEF InChains
  <2> QED BY <1>6, <2>1, <2>2 DEF Whole
<1>9. Sound(v, Idle, p, HurtBy(call, hurt))
  BY <1>1, <1>7, <1>8, Abort
<1> QED BY <1>3, <1>9

LEMMA FormattedView ==
  ASSUME NEW hint \in Clusters, NEW bad \in {{}, {CLUST_CNT - 1}},
         NEW disk, disk = Formatted(bad, hint), NEW v, v.disk = disk, NEW k, k = Card(v)
  PROVE  /\ disk \in [Sectors -> Row] /\ ViewType(k) /\ k.i = disk[Info] /\ k.t = k.m
         /\ Whole(k) /\ k.i[1] = FreeCnt(k.t)
<1> DEFINE entry(c) == CASE c = 2 -> EOC [] c \in bad -> BAD [] OTHER -> FREE
<1>1. PICK n : n = Cardinality(bad)
  OBVIOUS
<1>2. n \in {0, 1} /\ n = IF bad = {} THEN 0 ELSE 1
  <2>1. Cardinality({}) = 0 /\ Cardinality({CLUST_CNT - 1}) = 1
    BY FS_EmptySet, FS_Singleton
  <2>2. {CLUST_CNT - 1} # {}
    OBVIOUS
  <2> QED BY <1>1, <2>1, <2>2
<1>3. \A c \in Nat : entry(c) \in {EOC, BAD, FREE}
  OBVIOUS
<1>4. \A s \in FatSectors, i \in Items : s[2] * ITEMS + i \in Nat
  <2>1. \A s \in FatSectors : s[2] \in Nat
    BY ChainAssumption DEF FatSectors
  <2>2. \A i \in Items : i \in Nat
    BY ChainAssumption DEF Items
  <2>3. ITEMS \in Nat
    BY ChainAssumption
  <2> QED BY <2>1, <2>2, <2>3
<1>5. /\ \A s \in FatSectors : s # Info /\ s # Directory
      /\ Info \notin FatSectors /\ Directory \notin FatSectors /\ Info # Directory
  <2>1. \A s \in FatSectors : s[1] \in {"active", "mirror"}
    BY DEF FatSectors, Active, Mirror
  <2>2. Info[1] = "info" /\ Directory[1] = "dir"
    BY DEF Info, Directory
  <2> QED BY <2>1, <2>2
<1>6. disk = [s \in Sectors |-> [i \in Items |->
           CASE s \in FatSectors -> entry(s[2] * ITEMS + i)
             [] s = Info -> IF i = 0 THEN hint ELSE CLUST_CNT - 3 - n
             [] OTHER -> 0]]
  BY <1>1 DEF Formatted
<1> HIDE DEF entry
<1>7. /\ \A s \in FatSectors, i \in Items : disk[s][i] = entry(s[2] * ITEMS + i)
      /\ \A i \in Items : disk[Info][i] = IF i = 0 THEN hint ELSE CLUST_CNT - 3 - n
      /\ \A i \in Items : disk[Directory][i] = 0
  <2>1. FatSectors \subseteq Sectors /\ Info \in Sectors /\ Directory \in Sectors
    BY DEF Sectors
  <2>2. ASSUME NEW s \in FatSectors, NEW i \in Items PROVE disk[s][i] = entry(s[2] * ITEMS + i)
    BY <1>5, <1>6, <2>1
  <2>3. ASSUME NEW i \in Items
        PROVE  disk[Info][i] = IF i = 0 THEN hint ELSE CLUST_CNT - 3 - n
    BY <1>5, <1>6, <2>1
  <2>4. ASSUME NEW i \in Items PROVE disk[Directory][i] = 0
    BY <1>5, <1>6, <2>1
  <2> QED BY <2>2, <2>3, <2>4
<1>8. disk \in [Sectors -> Row]
  <2>1. ASSUME NEW s \in Sectors PROVE disk[s] \in Row
    <3>1. disk[s] = [i \in Items |-> disk[s][i]]
      BY <1>6
    <3>2. ASSUME NEW i \in Items PROVE disk[s][i] \in Int
      <4>1. CASE s \in FatSectors
        BY <1>3, <1>4, <1>7, <4>1, Constants3
      <4>2. CASE s = Info
        <5>1. hint \in Int /\ CLUST_CNT - 3 - n \in Int
          BY <1>2, Constants3
        <5> QED BY <1>7, <4>2, <5>1
      <4>3. CASE s = Directory
        BY <1>7, <4>3
      <4> QED BY <4>1, <4>2, <4>3 DEF Sectors
    <3> QED BY <3>1, <3>2 DEF Row
  <2>2. disk = [s \in Sectors |-> disk[s]]
    BY <1>6
  <2> QED BY <2>1, <2>2
<1>9. ASSUME NEW c \in Clusters, NEW x \in {Active, Mirror}
      PROVE  disk[SectorOf(x, c)][c % ITEMS] = entry(c)
  <2>1. SectorOf(x, c) \in FatSectors /\ SectorOf(x, c)[2] = c \div ITEMS /\ c % ITEMS \in Items
    BY ItemRange DEF SectorOf, FatSectors
  <2>2. (c \div ITEMS) * ITEMS + (c % ITEMS) = c
    <3>1. c \in Nat /\ ITEMS \in Nat /\ ITEMS > 1
      BY ChainAssumption, ItemRange
    <3> QED BY ONLY <3>1
  <2> QED BY <1>7, <2>1, <2>2
<1>10. k.t = [c \in Clusters |-> entry(c)] /\ k.m = [c \in Clusters |-> entry(c)]
  BY <1>9 DEF Card, DiskTable
<1>11. k.s = disk[Directory] /\ k.i = disk[Info]
  BY DEF Card
<1>12. /\ 0 \in Items /\ 1 \in Items /\ FILES \subseteq Items /\ 0 # 1
  BY ChainAssumption DEF Items
<1>13. /\ \A f \in FILES : k.s[f] = 0
       /\ k.i[0] = hint /\ k.i[1] = CLUST_CNT - 3 - n
  BY <1>7, <1>11, <1>12
<1>14. ViewType(k)
  <2>1. k.s \in Row /\ k.i \in Row
    BY <1>8, <1>11 DEF Sectors
  <2>2. \A c \in Clusters : entry(c) \in FatVal
    BY <1>3, Constants3 DEF FatVal
  <2> QED BY <1>10, <1>13, <2>1, <2>2 DEF ViewType
<1>15. k.t[2] = EOC /\ \A c \in Clusters : k.t[c] = FREE <=> c # 2 /\ c \notin bad
  <2>1. entry(2) = EOC /\ \A c \in Clusters : entry(c) = FREE <=> c # 2 /\ c \notin bad
    BY Constants3 DEF entry
  <2> QED BY <1>10, <2>1, Constants3
<1>16. FreeCnt(k.t) = CLUST_CNT - 3 - n
  <2>1. PICK a \in Int, b \in Int : a = 3 /\ b = CLUST_CNT - 1
    BY Constants3
  <2>2. PICK S : S = a .. b
    OBVIOUS
  <2>3. IsFiniteSet(S) /\ Cardinality(S) = CLUST_CNT - 3
    BY <2>1, <2>2, FS_Interval, Constants3
  <2>4. FreeIn(k.t) = S \ bad
    BY <1>15, <2>1, <2>2, Constants3 DEF FreeIn, Clusters
  <2>5. CASE bad = {}
    <3>1. FreeIn(k.t) = S
      BY <2>4, <2>5
    <3> QED BY <1>2, <2>3, <2>5, <3>1, Constants3 DEF FreeCnt
  <2>6. CASE bad = {CLUST_CNT - 1}
    <3>1. b \in S /\ FreeIn(k.t) = S \ {b} /\ bad # {}
      BY <2>1, <2>2, <2>4, <2>6, Constants3
    <3>2. Cardinality(S \ {b}) = Cardinality(S) - 1
      BY <2>3, <3>1, FS_RemoveElement
    <3> QED BY <1>2, <2>3, <3>1, <3>2, Constants3 DEF FreeCnt
  <2> QED BY <2>5, <2>6
<1>17. Mountable(k, {})
  <2>1. \A x : Tab(k, x) = k.t
    BY <1>10 DEF Tab
  <2>2. Follows(k)
    BY <1>10 DEF Follows
  <2>3. \A f \in FILES : Claims(k, f) = {}
    BY <1>13 DEF Claims
  <2> QED BY <1>13, <1>15, <2>1, <2>2, <2>3 DEF Mountable
<1>18. Whole(k) /\ k.i[1] = FreeCnt(k.t)
  <2>1. FreeCnt(k.t) \in Nat
    BY FreeFacts
  <2> QED BY <1>13, <1>16, <1>17, <2>1 DEF Whole
<1> QED BY <1>8, <1>10, <1>11, <1>14, <1>18

LEMMA InitSound ==
  ASSUME Init
  PROVE  Sound(vol, call, pos, hurt)
<1>1. PICK hint \in Clusters, bad \in {{}, {CLUST_CNT - 1}} : vol = fat_mount(Formatted(bad, hint))
  BY DEF Init
<1>2. PICK disk, k : disk = Formatted(bad, hint) /\ k = Card(vol)
  OBVIOUS
<1>3. vol.disk = disk
  BY <1>1, <1>2 DEF fat_mount
<1>4. /\ disk \in [Sectors -> Row] /\ ViewType(k) /\ k.i = disk[Info] /\ k.t = k.m
      /\ Whole(k) /\ k.i[1] = FreeCnt(k.t)
  BY <1>2, <1>3, FormattedView
<1>5. disk[Info][0] \in Clusters
  BY <1>4 DEF ViewType
<1>6. Windowed(vol) /\ View(vol) = k /\ Card(vol) = k /\ vol.free_cnt = k.i[1]
  BY <1>1, <1>2, <1>3, <1>4, <1>5, Mounted
<1>7. VolType(vol) /\ pos \in [FILES -> Clusters \cup {0}]
  BY <1>4, <1>6 DEF VolType, Init
<1>8. HurtType(hurt)
  BY DEF Init, HurtType
<1>9. InChains(k, pos)
  BY DEF Init, InChains
<1>10. Counts(vol, Idle, hurt)
  <2>1. Idle.at = "none" /\ Pending(Idle) = 0 /\ FreeCnt(k.t) \in Nat
    BY FreeFacts DEF Idle, Pending
  <2> QED BY <1>4, <1>6, <2>1 DEF Counts
<1>11. Sound(vol, Idle, pos, hurt)
  BY <1>4, <1>6, <1>7, <1>8, <1>9, <1>10, Ended
<1> QED BY <1>11 DEF Init

-----------------------------------------------------------------------------
(* The theorems *)

IInv == Sound(vol, call, pos, hurt)

LEMMA NextSound ==
  ASSUME IInv, [Next]_vars
  PROVE  IInv'
<1>0. Sound(vol, call, pos, hurt)
  BY DEF IInv
<1> SUFFICES Sound(vol', call', pos', hurt')
  BY DEF IInv
<1>1. ASSUME NEW f \in FILES,
             CallCreate(f) \/ CallOpen(f) \/ CallSeek(f) \/ CallClose(f) \/ CallUnlink(f)
      PROVE  Sound(vol', call', pos', hurt')
  BY <1>0, <1>1, CreateStep, OpenStep, SeekStep, CloseStep, UnlinkStep
<1>2. CASE StretchTry
  BY <1>0, <1>2, TryStep
<1>3. CASE StretchScan
  BY <1>0, <1>3, ScanStep
<1>4. CASE StretchMark
  BY <1>0, <1>4, MarkStep
<1>5. CASE StretchLink
  BY <1>0, <1>5, LinkStep
<1>6. CASE StretchFinish
  BY <1>0, <1>6, FinishStep
<1>7. CASE RemoveStep
  BY <1>0, <1>7, RemovalStep
<1>8. CASE RemoveEntry
  BY <1>0, <1>8, EntryStep
<1>9. CASE EnterFile
  BY <1>0, <1>9, EnterStep
<1>10. CASE StretchUninitialised
  BY <1>0, <1>10, UninitialisedStep
<1>11. CASE PowerCut
  BY <1>0, <1>11, PowerCutStep
<1>12. CASE UNCHANGED vars
  BY <1>0, <1>12 DEF vars
<1> QED
  BY <1>1, <1>2, <1>3, <1>4, <1>5, <1>6, <1>7, <1>8, <1>9, <1>10, <1>11, <1>12
  DEF Next, Calls, Steps

(* The inductive invariant holds in every reachable state: the types; what the
   scan has passed; and, while no removal was interrupted, what each place of
   stretch_chain, remove_chain and their callers has done to the volume, and
   that the card could be mounted as it is. *)
THEOREM AlwaysSound == Spec => []IInv
<1>1. Init => IInv
  BY InitSound DEF IInv
<1>2. IInv /\ [Next]_vars => IInv'
  BY NextSound
<1> QED BY <1>1, <1>2, PTL DEF Spec

LEMMA SoundIntact ==
  ASSUME IInv
  PROVE  FilesIntact
<1> SUFFICES ASSUME call.op # "unlink", ~hurt.removal
             PROVE  /\ Consistent(Table(vol, Active), Content(vol, Directory))
                    /\ \A copy \in Copies : Consistent(DiskTable(vol, copy), vol.disk[Directory])
  BY DEF FilesIntact, Copies
<1>1. PICK w, k : w = View(vol) /\ k = Card(vol)
  OBVIOUS
<1>2. Mountable(w, {}) /\ Mountable(k, {})
  BY <1>1, SoundFacts DEF IInv, Whole
<1>3. /\ Tab(w, Active) = Table(vol, Active) /\ w.s = Content(vol, Directory)
      /\ k.s = vol.disk[Directory]
      /\ \A copy \in Copies : Tab(k, copy) = DiskTable(vol, copy)
  BY <1>1, CopyFacts DEF View, Card, Tab
<1>4. Consistent(Tab(w, Active), w.s)
  BY <1>2, CopyFacts, MountableConsistent
<1>5. ASSUME NEW copy \in Copies PROVE Consistent(DiskTable(vol, copy), vol.disk[Directory])
  <2>1. Consistent(Tab(k, copy), k.s)
    BY <1>2, MountableConsistent
  <2> QED BY <1>3, <2>1
<1> QED BY <1>3, <1>4, <1>5

(* Whatever accesses fail and wherever the power goes, as long as no removal was
   interrupted the files of the volume are whole and apart, for the library and
   for whoever mounts either copy of the FAT: for any number of clusters, files
   and faults. *)
THEOREM IntactThroughFaults == Spec => []FilesIntact
<1>1. IInv => FilesIntact
  BY SoundIntact
<1> QED BY <1>1, AlwaysSound, PTL

(* An open handle stands on a cluster of its own file: fat_file_seek never
   follows, and stretch_chain never extends, a chain that is not the file's. *)
THEOREM HandlesStay == Spec => []HandleInChain
<1>1. IInv => HandleInChain
  <2> SUFFICES ASSUME IInv, ~hurt.removal, NEW f \in FILES, pos[f] # 0
               PROVE  pos[f] \in Chain(Table(vol, Active), Start(vol, f))
    BY DEF HandleInChain
  <2>1. InChains(View(vol), pos)
    BY SoundFacts DEF IInv
  <2>2. View(vol).t = Table(vol, Active) /\ View(vol).s[f] = Start(vol, f)
    BY DEF View, Start
  <2> QED BY <2>1, <2>2 DEF InChains
<1> QED BY <1>1, AlwaysSound, PTL

(* What the library keeps twice agrees between calls: free_cnt with the FAT,
   the FsInfo sector with free_cnt, the second copy of the FAT with the first. *)
THEOREM CopiesStay == Spec => []CopiesAgree
<1>1. IInv => CopiesAgree
  <2> SUFFICES ASSUME IInv, call = Idle PROVE CopiesAgree
    BY DEF CopiesAgree
  <2>1. PICK free : free = Cardinality(FreeClusters(vol))
    OBVIOUS
  <2>2. free = FreeCnt(View(vol).t) /\ free \in Nat
    BY <2>1, FreeFacts DEF FreeClusters, FreeCnt, FreeIn, View
  <2>3. /\ View(vol).t = Table(vol, Active) /\ View(vol).m = Table(vol, Mirror)
        /\ Card(vol).i = vol.disk[Info]
    BY DEF View, Card
  <2>4. Idle.at = "none" /\ Pending(Idle) = 0
    BY DEF Idle, Pending
  <2>5. ~hurt.removal => Counts(vol, Idle, hurt)
    BY SoundFacts DEF IInv
  <2>6. hurt.faults = 0 => ~hurt.removal
    BY SoundFacts DEF IInv, HurtType
  <2>7. ~hurt.removal => vol.free_cnt >= free
    BY <2>2, <2>4, <2>5 DEF Counts
  <2>8. hurt.faults = 0 => /\ vol.free_cnt = free
                           /\ MIRROR => Table(vol, Active) = Table(vol, Mirror)
                           /\ ~vol.info_dirty => vol.disk[Info][1] = free
    BY <2>2, <2>3, <2>4, <2>5, <2>6 DEF Counts
  <2> QED BY <2>1, <2>7, <2>8 DEF CopiesAgree
<1> QED BY <1>1, AlwaysSound, PTL

(* A step that ends a scan without an error has looked at every cluster. *)
LEMMA ScanEnds ==
  ASSUME IInv, [Next]_vars, call.at = "scan", call' = Idle, hurt' = hurt
  PROVE  FreeClusters(vol) \subseteq {vol.last_used}
<1>1. /\ CallType(call) /\ HurtType(hurt) /\ call.clust \in Clusters
      /\ \A d \in Clusters : Passed(vol.last_used, call.clust, d) => View(vol).t[d] # FREE
  <2>1. Sound(vol, call, pos, hurt)
    BY DEF IInv
  <2>2. CallType(call) /\ HurtType(hurt)
    BY <2>1, SoundFacts
  <2> QED BY <2>1, <2>2 DEF CallType, Sound, Scanned
<1>2. Idle.at = "none" /\ call # Idle /\ call'.at = "none"
  BY DEF Idle
<1>3. ~(hurt' = HurtBy(call, hurt))
  BY <1>1, HurtByType DEF HurtType, HurtBy
<1>4. ~Hurt
  BY <1>3 DEF Hurt, HurtBy
<1>5. StretchScan
  <2>1. ~\E f \in FILES :
           CallCreate(f) \/ CallOpen(f) \/ CallSeek(f) \/ CallClose(f) \/ CallUnlink(f)
    BY <1>2 DEF CallCreate, CallOpen, CallSeek, CallClose, CallUnlink
  <2>2. ~(StretchTry \/ StretchMark \/ StretchLink \/ StretchFinish \/ RemoveStep \/ RemoveEntry
          \/ EnterFile)
    BY DEF StretchTry, StretchMark, StretchLink, StretchFinish, RemoveStep, RemoveEntry, EnterFile
  <2>3. ~(StretchUninitialised \/ PowerCut)
    BY <1>4 DEF StretchUninitialised, PowerCut
  <2>4. ~UNCHANGED vars
    BY <1>2 DEF vars
  <2> QED BY <2>1, <2>2, <2>3, <2>4 DEF Next, Calls, Steps
<1>6. CameRound(Wrap(call.clust + 1))
  <2> SUFFICES ASSUME ~CameRound(Wrap(call.clust + 1)) PROVE FALSE
    OBVIOUS
  <2>1. PICK x : x = Wrap(call.clust + 1)
    OBVIOUS
  <2>2. PICK o \in get_fat(vol, x) :
          IF o.err = "none"
          THEN call' = [call EXCEPT !.at = IF Entry(o.vol, x) = FREE THEN "mark" ELSE "scan",
                                    !.clust = x]
          ELSE Hurt
    BY <1>5, <2>1 DEF StretchScan, Does
  <2>3. call' = [call EXCEPT !.at = IF Entry(o.vol, x) = FREE THEN "mark" ELSE "scan",
                             !.clust = x]
    BY <1>4, <2>2
  <2>4. call'.at \in {"mark", "scan"}
    BY <1>1, <2>3 DEF CallType
  <2> QED BY <1>2, <2>4
<1>7. ASSUME NEW d \in FreeClusters(vol), d # vol.last_used PROVE FALSE
  <2>1. d \in Clusters /\ View(vol).t[d] = FREE
    BY DEF FreeClusters, View
  <2>2. vol.last_used = Wrap(call.clust + 1)
    BY <1>6 DEF CameRound
  <2>3. Passed(vol.last_used, call.clust, d)
    BY <1>1, <1>7, <2>1, <2>2, PassedAll
  <2> QED BY <1>1, <2>1, <2>3
<1> QED BY <1>7

(* stretch_chain says that the volume is full only when no cluster is free,
   except for last_used, which the scan never looks at. *)
THEOREM FullIsFull == Spec => FullMeansFull
<1> DEFINE A == call.at = "scan" /\ call' = Idle /\ hurt' = hurt
                  => FreeClusters(vol) \subseteq {vol.last_used}
<1>1. IInv /\ [Next]_vars => A
  BY ScanEnds
<1>2. IInv /\ [Next]_vars => [A]_vars
  BY <1>1
<1> HIDE DEF A
<1>3. Spec => [][A]_vars
  BY <1>2, AlwaysSound, PTL DEF Spec
<1> QED BY <1>3 DEF FullMeansFull, A

=============================================================================
