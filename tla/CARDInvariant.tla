---------------------------- MODULE CARDInvariant ----------------------------
(***************************************************************************)
(* The invariant of a memory card. An update writes one of four sectors,   *)
(* and power may be lost at any time; so at any time there is more than    *)
(* one directory and more than one FAT that a restart might take for the   *)
(* newest, and all of these have to go together.                           *)
(***************************************************************************)
EXTENDS CARD

(* Check codes wrap. A failed update leaves a copy that is further ahead   *)
(* of the other than before: the codes tell old from new while fewer       *)
(* updates fail than make half of the codes, which are 2^16.               *)
Few == MaxFaults + 1 < Half

-----------------------------------------------------------------------------
(* Directories and FATs *)

Code == -Half..(Half - 1)
Entry == [used : BOOLEAN, name : Name \cup {None}, length : Nat, start : Block \cup {0}]
DirSector == [ok : BOOLEAN, code : Code, files : [File -> Entry]]
FatSector == [ok : BOOLEAN, code : Code, next : [Block -> Block \cup {Avail, End}], free : Nat, last : 4..(cBlock - 1)]

UsedIn(files) == {f \in File : files[f].used}

(* Files have a length and a name of their own. *)
GoodEntries(files) ==
  /\ \A f \in UsedIn(files) : files[f].length >= 1 /\ files[f].name \in Name
  /\ \A f, g \in UsedIn(files) : files[f].name = files[g].name => f = g

(* __CARDAllocBlock relies on the number of free blocks. *)
Counted(fat) == fat.free = Cardinality(FreeBlocks(fat.next))

DirOK(x) == x \in DirSector /\ GoodEntries(x.files)
FatOK(x) == x \in FatSector /\ Counted(x)

(* The files of directory x have blocks of their own in FAT y.             *)
Fits(x, y) == GoodFiles(y.next, x.files)

(* They have the same blocks in FATs y and z. *)
Same(x, y, z) == \A f \in UsedIn(x.files) : Chain(y.next, x.files[f]) = Chain(z.next, x.files[f])

(* Whichever directory and FAT a restart takes, they fit, and the files    *)
(* have the blocks they have in m.                                         *)
Together(ds, fs, m) == \A x \in ds, y \in fs : Fits(x, y) /\ Same(x, y, m)

-----------------------------------------------------------------------------
(* Check codes *)

(* By how many updates code a is ahead of code b, if it is.                *)
Ahead(a, b) == IF a >= b THEN a - b ELSE a - b + 2 * Half

(* How far a copy can be ahead of the other: one update, and those failed. *)
Gaps == 1..(MaxFaults + 1)

(* The copy that a mount keeps, as __CARDVerify compares them              *)
NewestOf(c, pair) ==
  CHOOSE s \in pair :
    LET ahead == c[s].code - c[Other(s)].code IN
    c[s].ok /\ (c[Other(s)].ok => ahead \in 1..(Half - 1) \/ ahead < -Half)
DirIn(c) == c[NewestOf(c, Dirs)]
FatIn(c) == c[NewestOf(c, Fats)]

-----------------------------------------------------------------------------
(* The card *)

(* One copy is good, and of two good ones it is clear which is the newer.  *)
PairOK(c, pair) ==
  /\ \E s \in pair : c[s].ok
  /\ (\A s \in pair : c[s].ok) => \E s \in pair : Ahead(c[s].code, c[Other(s)].code) \in Gaps

(* A sector is whole and sealed, or it is garbage.                         *)
SectorsOK(c) ==
  /\ DOMAIN c = System
  /\ \A s \in Dirs : c[s] = Garbage \/ (DirOK(c[s]) /\ c[s].ok)
  /\ \A s \in Fats : c[s] = Garbage \/ (FatOK(c[s]) /\ c[s].ok)
  /\ PairOK(c, Dirs) /\ PairOK(c, Fats)

(* What the newest can be, of the card c, the memory w and its current     *)
(* copies k: what is being written, what was written before, what is now.  *)
DirsIn(c, w, k) == {w[k.dir], c[Other(k.dir)], DirIn(c)}
FatsIn(c, w, k) == {w[k.fat], c[Other(k.fat)], FatIn(c)}

(* A mounted card: only the current copies are written, the others are     *)
(* good, and what may be the newest goes together.                         *)
Session(c, w, k) ==
  /\ k.dir \in Dirs /\ k.fat \in Fats
  /\ SectorsOK(c) /\ DOMAIN w = System
  /\ \A s \in Dirs : w[s] \in DirSector
  /\ \A s \in Fats : FatOK(w[s]) /\ w[s].ok
  /\ GoodEntries(w[k.dir].files)
  /\ c[Other(k.dir)].ok /\ c[Other(k.fat)].ok /\ c[Other(k.dir)] = w[Other(k.dir)]
  /\ Together(DirsIn(c, w, k), FatsIn(c, w, k), w[k.fat])

(* The directory in memory is on the card.                                 *)
SavedIn(c, w, k) ==
  w[k.dir].ok /\ NewestOf(c, Dirs) = Other(k.dir) /\ c[Other(k.dir)].files = w[k.dir].files

-----------------------------------------------------------------------------
(* What the operation in progress has still to do *)

(* The entry e has blocks that are no file's. *)
Apart(next, e, files) == GoodChain(next, e) /\ BlocksOf(next, e) \cap AllBlocks(next, files) = {}

(* After the FAT, the entry of the file that is created; after the         *)
(* directory, the blocks of the file that was deleted.                     *)
Pending(o, c, w, k) ==
  LET dir == w[k.dir]
      fat == w[k.fat]
  IN
  /\ o.next \in {"nothing", "create", "delete"}
  /\ o.next = "create" =>
       /\ o.sector = k.fat /\ o.file \in File /\ ~dir.files[o.file].used
       /\ o.entry \in Entry /\ o.entry.used /\ o.entry.length >= 1 /\ o.entry.name \in Name
       /\ \A f \in UsedIn(dir.files) : dir.files[f].name # o.entry.name
       /\ Apart(fat.next, o.entry, dir.files)
  /\ o.next = "delete" => o.sector = k.dir /\ o.entry \in Entry /\ Apart(fat.next, o.entry, dir.files)
  /\ o.next = "nothing" /\ o.sector = k.fat => SavedIn(c, w, k)

-----------------------------------------------------------------------------
(* The invariant *)

(* The copy in memory is as far ahead as updates have failed, and one more *)
(* once it has been sealed for the next.                                   *)
GapOK(s) ==
  Ahead(work[s].code, card[Other(s)].code) \in
    IF op # NoOp /\ op.sector = s THEN 1..(faults + 1) ELSE 0..faults

MountedInv ==
  /\ attached /\ result \in {"ready", "busy", "saved", "error"}
  /\ Session(card, work, cur)
  /\ listening => GapOK(cur.dir) /\ GapOK(cur.fat)
  /\ result \in {"ready", "saved"} => SavedIn(card, work, cur)
  /\ op # NoOp => /\ op.stage \in {"erase", "write"} /\ op.sector \in {cur.dir, cur.fat}
                  /\ work[op.sector].ok
                  /\ op.stage = "write" => listening
                  /\ Pending(op, card, work, cur)

(* Between a mount that found a bad copy and CARDCheck: of a pair with a   *)
(* bad copy none is current, the other one is as after any mount.          *)
HalfInv ==
  /\ result = "broken" /\ op = NoOp /\ DOMAIN work = System
  /\ IF cur.dir = None THEN (\A s \in Dirs : work[s] = card[s]) /\ BadCopy(Dirs)
     ELSE cur.dir = Other(NewestOf(card, Dirs)) /\ card[cur.dir].ok /\ \A s \in Dirs : work[s] = DirIn(card)
  /\ IF cur.fat = None THEN (\A s \in Fats : work[s] = card[s]) /\ BadCopy(Fats)
     ELSE cur.fat = Other(NewestOf(card, Fats)) /\ card[cur.fat].ok /\ \A s \in Fats : work[s] = FatIn(card)

(* The newest directory fits the newest FAT; a sector is bad only after a  *)
(* failure, or while it is written.                                        *)
CardInv ==
  /\ SectorsOK(card) /\ Fits(DirIn(card), FatIn(card))
  /\ faults = 0 => \A s \in System : card[s].ok \/ (op # NoOp /\ op.stage = "write" /\ op.sector = s)
  /\ attached /\ ~listening => faults > 0

FilesInv ==
  /\ TypeOK /\ faults \in 0..MaxFaults
  /\ attached => (op # NoOp <=> result = "busy")
  /\ CardInv
  /\ ~attached => result = "nocard" /\ op = NoOp /\ cur = [dir |-> None, fat |-> None]
  /\ Mounted => MountedInv
  /\ attached /\ ~Mounted => HalfInv
=============================================================================
