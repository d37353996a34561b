---------------------------------- MODULE CARD ----------------------------------
(***************************************************************************)
(* A memory card (src/src/card): its directory and its file allocation     *)
(* table (FAT) are kept twice.  An update erases and writes the copy that  *)
(* is not in use any more, with a new check code and checksum, so that a   *)
(* loss of power, a card pulled out and a failure leave one good copy; a   *)
(* mount and CARDCheck find it by them.                                    *)
(*                                                                         *)
(* One action per call of the program and per interrupt that ends the      *)
(* erasing or the writing of a sector, with all the callbacks that follow. *)
(* The pages a sector is written in, the retries after a status error and  *)
(* the wait for the EXI bus are part of the writing of a sector.  Not      *)
(* modelled: formatting, the contents and attributes of files, the         *)
(* encoding and the game names, which are those of one game.               *)
(***************************************************************************)
EXTENDS Integers, FiniteSets, FiniteSetsExt

CONSTANTS
  Name,        \* file names
  File,        \* 0..(CARD_MAX_FILE - 1): the entries of a directory
  cBlock,      \* the number of blocks of the card, of which 5 are the system's
  Length,      \* the lengths of the files the program creates, in blocks
  Half,        \* 32768: check codes are numbers from -Half to Half - 1
  MaxFaults    \* bound on failures, cards pulled out and losses of power

None == -1
Avail == 0        \* of a block in the FAT: free, and the last of its file
End == -1
System == 1..4    \* the sectors of the two directories and the two FATs
Dirs == {1, 2}
Fats == {3, 4}
Other(s) == IF s \in {1, 3} THEN s + 1 ELSE s - 1
Block == 5..(cBlock - 1)          \* CARDIsValidBlockNo

ASSUME CARDAssumption ==
  /\ Name # {} /\ File # {} /\ File \subseteq Nat
  /\ cBlock \in Nat /\ cBlock > 5
  /\ Length \subseteq Nat \ {0}
  /\ Half \in Nat \ {0} /\ MaxFaults \in Nat

VARIABLES
  card,       \* the sectors of the card
  work,       \* card->workArea: the copies in memory
  cur,        \* card->currentDir and currentFat, as sectors or None
  attached,   \* card->attached
  result,     \* card->result: "saved" is CARD_RESULT_READY after an update, "error" any other failure
  op,         \* the sector in work and what is done next, or NoOp
  listening,  \* the EXI callback is set
  faults      \* number of failures so far

vars == <<card, work, cur, attached, result, op, listening, faults>>

NoOp == [stage |-> "none"]

(* An entry; it is free if its game name is not set (0xff), and then may   *)
(* still have the name and length of a creation that failed.               *)
Unused == [used |-> FALSE, name |-> None, length |-> 0, start |-> 0]

(* A sector whose checksum does not agree *)
Garbage == [ok |-> FALSE]

Increment(code) == IF code = Half - 1 THEN -Half ELSE code + 1

(* __CARDFormatRegionAsync, of all sectors but the first *)
Formatted(s) ==
  IF s \in Dirs THEN [ok |-> TRUE, code |-> s - 1, files |-> [f \in File |-> Unused]]
  ELSE [ok |-> TRUE, code |-> s - 3, next |-> [b \in Block |-> Avail], free |-> cBlock - 5, last |-> 4]

Init ==
  /\ card = [s \in System |-> Formatted(s)]
  /\ work = [s \in System |-> Garbage]
  /\ cur = [dir |-> None, fat |-> None]
  /\ attached = FALSE
  /\ result = "nocard"
  /\ op = NoOp
  /\ listening = FALSE
  /\ faults = 0

-----------------------------------------------------------------------------
(* Files and blocks *)

(* The blocks of a file, and what the FAT has of the last of them *)
Chain(next, e) ==
  LET at[n \in 0..e.length] ==
        IF n = 0 THEN e.start
        ELSE LET b == at[n - 1] IN IF b \in Block THEN next[b] ELSE None
  IN  at

BlocksOf(next, e) == {Chain(next, e)[n] : n \in 0..(e.length - 1)}

(* CARDCheckExAsync walks each chain up to the length of the file. *)
GoodChain(next, e) == BlocksOf(next, e) \subseteq Block /\ Chain(next, e)[e.length] = End

AllBlocks(next, files) == UNION {BlocksOf(next, files[f]) : f \in {g \in File : files[g].used}}

GoodFiles(next, files) ==
  LET Used == {f \in File : files[f].used} IN
  /\ \A f \in Used : GoodChain(next, files[f])
  /\ \A f, g \in Used : f # g => BlocksOf(next, files[f]) \cap BlocksOf(next, files[g]) = {}

FreeBlocks(next) == {b \in Block : next[b] = Avail}

(* __CARDAllocBlock searches from the block after the last one it took,    *)
(* around the end of the card: when block b has its turn, which of the     *)
(* free blocks it is, and the nth of these.                                *)
Turn(last, b) == IF b > last THEN b ELSE b + cBlock
Place(fat, b) == Cardinality({c \in FreeBlocks(fat.next) : Turn(fat.last, c) <= Turn(fat.last, b)})
Nth(fat, n) == CHOOSE b \in FreeBlocks(fat.next) : Place(fat, b) = n

(* As the number of free blocks is right, it finds enough of them.         *)
Allocated(fat, n) ==
  LET taken == {b \in FreeBlocks(fat.next) : Place(fat, b) <= n}
      Following(b) == IF Place(fat, b) = n THEN End ELSE Nth(fat, Place(fat, b) + 1)
  IN  [fat EXCEPT !.next = [b \in Block |-> IF b \in taken THEN Following(b) ELSE fat.next[b]],
                  !.free = @ - n,
                  !.last = Nth(fat, n)]

FirstAllocated(fat) == Nth(fat, 1)

(* __CARDFreeBlock *)
Freed(fat, e) ==
  [fat EXCEPT !.next = [b \in Block |-> IF b \in BlocksOf(fat.next, e) THEN Avail ELSE fat.next[b]],
              !.free = @ + e.length]

(* __CARDUpdateDir and __CARDUpdateFatBlock seal what they write. *)
Sealed(sector) == [sector EXCEPT !.ok = TRUE, !.code = Increment(@)]

-----------------------------------------------------------------------------
(* Finding the copies *)

Valid(sector, s) ==
  /\ sector.ok
  /\ s \in Fats => sector.free = Cardinality(FreeBlocks(sector.next))

Older_later(w, pair) ==
  LET lo == CHOOSE s \in pair : s < Other(s) IN
  IF w[lo].code - w[Other(lo)].code < 0 THEN Other(lo) ELSE lo

(* The copy to be overwritten first, by the difference of the check codes *)
Older(w, pair) ==
  LET lo == CHOOSE s \in pair : s < Other(s) IN
  IF w[lo].code - w[Other(lo)].code < 0 THEN lo ELSE Other(lo)

(* VerifyDir and VerifyFAT: the copies in error, and the current one and   *)
(* the copies in memory thereafter                                         *)
Verify(w, c, pair) ==
  LET bad == {s \in pair : ~Valid(w[s], s)}
      old == Older(w, pair)
  IN
  IF bad # {} THEN [bad |-> bad, cur |-> None, work |-> w]
  ELSE IF c = None THEN [bad |-> {}, cur |-> old, work |-> [w EXCEPT ![old] = w[Other(old)]]]
  ELSE [bad |-> {}, cur |-> c, work |-> w]

VerifyBoth(w, c) ==
  LET d == Verify(w, c.dir, Dirs)
      f == Verify(d.work, c.fat, Fats)
  IN  [bad |-> d.bad \cup f.bad, cur |-> [dir |-> d.cur, fat |-> f.cur], work |-> f.work]

AsCurrent_other(c, s) == IF s \in Dirs THEN [c EXCEPT !.dir = Other(s)] ELSE [c EXCEPT !.fat = Other(s)]

(* The next copy to be written *)
AsCurrent(c, s) == IF s \in Dirs THEN [c EXCEPT !.dir = s] ELSE [c EXCEPT !.fat = s]

(* The FAT with no block taken but those of files *)
WithoutOrphans(fat, files) ==
  LET next == [n \in Block |-> IF n \in AllBlocks(fat.next, files) THEN fat.next[n] ELSE Avail]
  IN  [fat EXCEPT !.next = next, !.free = Cardinality(FreeBlocks(next))]

(* CARDCheckExAsync: one copy in error is replaced by the other.           *)
Mended(v) ==
  LET b == CHOOSE s \in v.bad : TRUE IN
  IF Cardinality(v.bad) # 1 THEN v
  ELSE [v EXCEPT !.cur = AsCurrent(@, b), !.work = [@ EXCEPT ![b] = v.work[Other(b)]]]

(* CARDCheckExAsync, from there to the updates: blocks of no file are      *)
(* freed.  The copy of the FAT that is not current serves to count the     *)
(* uses of the blocks.                                                     *)
FilesChecked(v) ==
  LET current == v.work[v.cur.fat]
      files   == v.work[v.cur.dir].files
      fat     == WithoutOrphans(current, files)
  IN
  IF Cardinality(v.bad) > 1 THEN [update |-> "broken", cur |-> v.cur, work |-> v.work]
  ELSE IF ~GoodFiles(current.next, files)
  THEN [update |-> "broken", cur |-> v.cur, work |-> [v.work EXCEPT ![Other(v.cur.fat)] = Garbage]]
  ELSE [update |-> IF v.bad \cap Dirs # {} THEN "dir"
                   ELSE IF v.bad # {} \/ fat # current THEN "fat" ELSE "none",
        cur |-> v.cur,
        work |-> [v.work EXCEPT ![v.cur.fat] = fat, ![Other(v.cur.fat)] = fat]]

Checked(w, c) == FilesChecked(Mended(VerifyBoth(w, c)))

-----------------------------------------------------------------------------
(* Updates *)

(* __CARDUpdateDir or __CARDUpdateFatBlock of the copy w[s]; o is the rest *)
(* of the operation.                                                       *)
StartUpdate(w, s, o) ==
  /\ work' = [w EXCEPT ![s] = Sealed(@)]
  /\ result' = "busy"
  /\ op' = [o EXCEPT !.stage = "erase", !.sector = s]

Operation(next, file, entry) ==
  [stage |-> "erase", sector |-> None, next |-> next, file |-> file, entry |-> entry]

Save == Operation("nothing", None, Unused)

(* __CARDPutControlBlock, and the callback of the program *)
Put(r) == result' = r /\ op' = NoOp

(* A call that needs the directory.  A card that is found broken must be   *)
(* checked first, and formatted if CARDCheck says so, which is not         *)
(* modelled.                                                               *)
Usable == attached /\ result \notin {"busy", "broken"} /\ cur.dir # None /\ cur.fat # None

dirFiles == work[cur.dir].files

Named(n) == {f \in File : dirFiles[f].used /\ dirFiles[f].name = n}

(* CARD_RESULT_EXIST, NOENT, INSSPACE or NOFILE *)
Refuse == Put("error") /\ UNCHANGED <<card, work, cur, attached, listening, faults>>

-----------------------------------------------------------------------------
(* Calls of the program *)

(* The two copies are more than Half apart: the newer one is taken for the *)
(* older.  It takes 32767 updates; the model leaves out such a mount.      *)
Overflowed(pair) ==
  \E s \in pair : /\ \A t \in pair : Valid(card[t], t)
                  /\ card[s].code - card[Other(s)].code >= Half

CARDMountAsync ==
  /\ result # "busy"
  /\ ~Overflowed(Dirs) /\ ~Overflowed(Fats)
  /\ LET v == VerifyBoth(card, [dir |-> None, fat |-> None]) IN
       /\ work' = v.work
       /\ cur' = v.cur
       /\ Put(IF v.bad = {} THEN "ready" ELSE "broken")
  /\ attached' = TRUE /\ listening' = TRUE
  /\ UNCHANGED <<card, faults>>

(* The callers of DoUnmount.  The work area is not used any more.          *)
Unmounted ==
  /\ attached' = FALSE /\ listening' = FALSE
  /\ work' = [s \in System |-> Garbage]
  /\ cur' = [dir |-> None, fat |-> None]
  /\ Put("nocard")

CARDUnmount ==
  /\ attached /\ result # "busy"
  /\ Unmounted
  /\ UNCHANGED <<card, faults>>

(* The entry gets its name and length now, and its game name and first     *)
(* block once the FAT is written.                                          *)
CARDCreateAsync(n, length) ==
  LET unused == {f \in File : ~dirFiles[f].used}
      f      == Min(unused)
      fat    == work[cur.fat]
      entry  == [Unused EXCEPT !.name = n, !.length = length]
  IN
  /\ Usable
  /\ IF Named(n) # {} \/ unused = {} \/ fat.free < length THEN Refuse
     ELSE /\ StartUpdate([work EXCEPT ![cur.dir].files[f] = entry,
                                      ![cur.dir].ok = @ /\ dirFiles[f] = entry,
                                      ![cur.fat] = Allocated(fat, length)],
                         cur.fat,
                         Operation("create", f, [entry EXCEPT !.used = TRUE, !.start = FirstAllocated(fat)]))
          /\ UNCHANGED <<card, cur, attached, listening, faults>>

CARDDeleteAsync_fatFirst(n) ==
  /\ Usable
  /\ IF Named(n) = {} THEN Refuse
     ELSE \E f \in Named(n) :
            /\ StartUpdate([work EXCEPT ![cur.fat] = Freed(@, dirFiles[f])], cur.fat, Operation("create", f, Unused))
            /\ UNCHANGED <<card, cur, attached, listening, faults>>

CARDDeleteAsync(n) ==
  /\ Usable
  /\ IF Named(n) = {} THEN Refuse
     ELSE \E f \in Named(n) :
            /\ StartUpdate([work EXCEPT ![cur.dir].files[f] = Unused], cur.dir,
                           Operation("delete", None, dirFiles[f]))
            /\ UNCHANGED <<card, cur, attached, listening, faults>>

CARDRenameAsync(old, new) ==
  /\ Usable
  /\ IF Named(old) = {} \/ Named(new) # {} THEN Refuse
     ELSE \E f \in Named(old) :
            /\ StartUpdate([work EXCEPT ![cur.dir].files[f].name = new], cur.dir, Save)
            /\ UNCHANGED <<card, cur, attached, listening, faults>>

(* The program checks a card it has mounted, or has just updated.  After a *)
(* failure CARDCheck would free the blocks of a file that only the memory  *)
(* has lost: its delete did not reach the card.                            *)
Checkable ==
  /\ attached /\ result \in {"ready", "saved", "broken"}
  /\ result = "broken" => None \in {cur.dir, cur.fat}

(* The end of CARDCheckExAsync *)
UpdateChecked(c) ==
  /\ cur' = c.cur
  /\ CASE c.update = "dir" -> StartUpdate(c.work, c.cur.dir, Save)
       [] c.update = "fat" -> StartUpdate(c.work, c.cur.fat, Save)
       [] c.update = "none" -> Put("ready") /\ work' = c.work
       [] c.update = "broken" -> Put("broken") /\ work' = c.work

CARDCheckAsync ==
  /\ Checkable
  /\ UpdateChecked(Checked(work, cur))
  /\ UNCHANGED <<card, attached, listening, faults>>

-----------------------------------------------------------------------------
(* Interrupts *)

InWork(stage) == attached /\ op # NoOp /\ op.stage = stage

(* EraseCallback *)
SectorErased ==
  /\ InWork("erase") /\ listening
  /\ card' = [card EXCEPT ![op.sector] = Garbage]
  /\ op' = [op EXCEPT !.stage = "write"]
  /\ UNCHANGED <<work, cur, attached, result, listening, faults>>

(* WriteCallback: the other copy is the next to be written.  A file that   *)
(* is created appears once its blocks are taken, the blocks of a file that *)
(* is deleted are freed once it has gone.                                  *)
SectorWritten ==
  LET s == op.sector
      w == [work EXCEPT ![Other(s)] = work[s]]
      c == AsCurrent(cur, Other(s))
  IN
  /\ InWork("write") /\ listening
  /\ card' = [card EXCEPT ![s] = work[s]]
  /\ cur' = c
  /\ \/ /\ op.next = "nothing"
        /\ Put("saved")
        /\ work' = w
     \/ /\ op.next = "create"
        /\ StartUpdate([w EXCEPT ![c.dir].files[op.file] = op.entry], c.dir, Save)
     \/ /\ op.next = "delete"
        /\ StartUpdate([w EXCEPT ![c.fat] = Freed(@, op.entry)], c.fat, Save)
  /\ UNCHANGED <<attached, listening, faults>>

(* What a sector may hold when its erasing or writing is interrupted; a    *)
(* card that does not answer in time may have done what it was told.       *)
Interrupted ==
  IF op = NoOp THEN {card}
  ELSE {[card EXCEPT ![op.sector] = x] :
          x \in {Garbage, IF op.stage = "erase" THEN card[op.sector] ELSE work[op.sector]}}

(* The card reports an error, or TimeoutHandler stops listening to it: no  *)
(* update succeeds then before the next mount.                             *)
SectorFailed ==
  /\ attached /\ op # NoOp
  /\ listening => faults < MaxFaults
  /\ faults' = IF listening THEN faults + 1 ELSE faults
  /\ card' \in Interrupted
  /\ listening' \in {FALSE, listening}
  /\ Put("error")
  /\ UNCHANGED <<work, cur, attached>>

(* The power fails or the card is pulled out (__CARDExtHandler). *)
CardLost ==
  /\ attached /\ faults < MaxFaults
  /\ faults' = faults + 1
  /\ card' \in Interrupted
  /\ Unmounted

Next ==
  \/ CARDMountAsync \/ CARDUnmount \/ CARDCheckAsync
  \/ \E n \in Name : \/ \E length \in Length : CARDCreateAsync(n, length)
                     \/ CARDDeleteAsync(n)
                     \/ \E m \in Name : CARDRenameAsync(n, m)
  \/ SectorErased \/ SectorWritten \/ SectorFailed \/ CardLost

Spec == Init /\ [][Next]_vars

-----------------------------------------------------------------------------
(* Properties *)

(* The good copy on the card, or the one written later *)
Newest(pair) ==
  CHOOSE s \in pair :
    LET ahead == card[s].code - card[Other(s)].code IN
    card[s].ok /\ (card[Other(s)].ok => ahead \in 1..(Half - 1) \/ ahead < -Half)

FilesOf(dir, fat) ==
  {<<dir.files[f].name, Chain(fat.next, dir.files[f])>> : f \in {g \in File : dir.files[g].used}}

OnCard(dir) == FilesOf(card[dir], card[Newest(Fats)])

Mounted == attached /\ None \notin {cur.dir, cur.fat}

Files == INSTANCE CARDFiles WITH
  NoFiles <- {},
  files   <- OnCard(Newest(Dirs)),
  kept    <- OnCard(IF Mounted THEN Other(cur.dir) ELSE Newest(Dirs)),
  asked   <- IF Mounted THEN FilesOf(work[cur.dir], work[cur.fat]) ELSE OnCard(Newest(Dirs)),
  done    <- result = "saved"

(* What a mount and CARDCheck make of the card *)
Recovered ==
  LET v == VerifyBoth(card, [dir |-> None, fat |-> None]) IN Checked(v.work, v.cur)

TypeOK ==
  /\ DOMAIN card = System /\ DOMAIN work = System
  /\ cur \in [dir : Dirs \cup {None}, fat : Fats \cup {None}]
  /\ attached \in BOOLEAN /\ listening \in BOOLEAN
  /\ result \in {"nocard", "ready", "broken", "busy", "saved", "error"}
  /\ op # NoOp => op.sector \in System /\ op.stage \in {"erase", "write"}

(* A copy of the directory is good on the card at any time, whatever       *)
(* fails: in a session the one that the last update to succeed has         *)
(* written, as it was written.                                             *)
DirectoryKept ==
  /\ \E s \in Dirs : card[s].ok
  /\ attached /\ cur.dir # None =>
       LET kept == Other(cur.dir) IN card[kept].ok /\ card[kept] = work[kept]

(* The newest files and no block of any other, in a card found so         *)
FoundWhole(r) ==
  LET dir == r.work[r.cur.dir]
      fat == r.work[r.cur.fat]
  IN
  /\ r.update # "broken"
  /\ FilesOf(dir, fat) = OnCard(Newest(Dirs))
  /\ fat.free + Cardinality(AllBlocks(fat.next, dir.files)) = cBlock - 5
  /\ \A f, g \in {h \in File : dir.files[h].used} : dir.files[f].name = dir.files[g].name => f = g

BadCopy(pair) == \E s \in pair : ~card[s].ok

(* If the power failed now, a mount and CARDCheck would find the files of  *)
(* the newest copies, with names of their own, in blocks of their own, and *)
(* all other blocks free.  The card is broken only if a failure before     *)
(* left a bad copy of the directory and one of the FAT.  In a session the  *)
(* copies in memory are good.                                              *)
Recoverable ==
  /\ TypeOK
  /\ attached => (op # NoOp <=> result = "busy")
  /\ \/ Overflowed(Dirs) \/ Overflowed(Fats)
     \/ BadCopy(Dirs) /\ BadCopy(Fats) /\ faults > 0
     \/ FoundWhole(Recovered)
  /\ Mounted => GoodFiles(work[cur.fat].next, work[cur.dir].files)

(* The files of the last operation that succeeded, or those asked for      *)
(* since, are what a restart finds (CARDFiles).                            *)
ImplementsFiles == Files!Spec
=============================================================================
