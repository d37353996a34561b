------------------------------ MODULE CARDProofs ------------------------------
(***************************************************************************)
(* Proofs that a good copy of the directory is on a memory card at any     *)
(* time, for any number of files, blocks and failures and any width of the *)
(* check codes; and, for fewer failures than these codes can tell apart    *)
(* (Few), that the card can always be recovered and holds the files that   *)
(* CARDFiles promises.                                                     *)
(***************************************************************************)
EXTENDS CARDInvariant, FiniteSetTheorems, WellFoundedInduction, TLAPS

(* Of the directories d on the card and w in memory, and the current one   *)
Kept(d, w, current) ==
  IF current = None THEN \A s \in Dirs : w[s].ok => d[s] = w[s]
  ELSE d[Other(current)].ok /\ d[Other(current)] = w[Other(current)]

(* The invariant: a sector in work is the current directory or FAT, and    *)
(* sealed if it is the directory.                                          *)
Memory(w) == DOMAIN w = System /\ \A s \in Dirs : "ok" \in DOMAIN w[s]

Cursors == [dir : Dirs \cup {None}, fat : Fats \cup {None}]

Working ==
  /\ result = "busy" /\ attached
  /\ cur.dir \in Dirs /\ cur.fat \in Fats
  /\ {"sector", "stage"} \subseteq DOMAIN op
  /\ op.sector \in {cur.dir, cur.fat}
  /\ op.sector = cur.dir => work[cur.dir].ok

DirInv ==
  /\ Memory(card) /\ Memory(work)
  /\ cur \in Cursors
  /\ \E s \in Dirs : card[s].ok
  /\ attached => Kept(card, work, cur.dir)
  /\ op # NoOp => Working

(* The other copy of a directory is a directory, that of a FAT a FAT.      *)
LEMMA OtherFacts ==
  /\ \A s \in Dirs : Other(s) \in Dirs /\ Other(s) # s /\ Other(Other(s)) = s
  /\ \A s \in Fats : Other(s) \in Fats /\ Other(s) # s /\ Other(Other(s)) = s
  /\ Dirs \cap Fats = {} /\ System = Dirs \cup Fats /\ None \notin System
  /\ \A s \in Dirs : Dirs = {s, Other(s)}
BY DEF Other, Dirs, Fats, System, None

(* The older copy is one of the two.                                       *)
LEMMA OlderFacts ==
  ASSUME NEW w
  PROVE  Older(w, Dirs) \in Dirs /\ Older(w, Fats) \in Fats
<1>1. \E s \in Dirs : s < Other(s)
  BY DEF Dirs, Other
<1>2. \E s \in Fats : s < Other(s)
  BY DEF Fats, Other
<1> QED
  BY <1>1, <1>2, OtherFacts DEF Older

-----------------------------------------------------------------------------
(* Verification *)

(* VerifyDir keeps the directory that was written last.                    *)
LEMMA VerifyDirs ==
  ASSUME NEW d, NEW w, Memory(w),
         NEW c \in Dirs \cup {None}, Kept(d, w, c),
         NEW v, v = Verify(w, c, Dirs)
  PROVE  /\ Memory(v.work) /\ v.cur \in Dirs \cup {None} /\ v.bad \subseteq Dirs
         /\ Kept(d, v.work, v.cur)
         /\ v.cur = None <=> v.bad # {}
         /\ \A s \in Dirs \ v.bad : v.work[s].ok
<1> DEFINE bad == {s \in Dirs : ~Valid(w[s], s)}
           old == Older(w, Dirs)
<1>1. \A s \in Dirs : w[s].ok <=> s \notin bad
  BY OtherFacts DEF Valid
<1>2. CASE bad # {}
  <2>1. v = [bad |-> bad, cur |-> None, work |-> w]
    BY <1>2 DEF Verify
  <2>2. Kept(d, w, None)
    <3>1. CASE c = None
      BY <3>1
    <3>2. CASE c # None
      <4>1. d[Other(c)] = w[Other(c)] /\ w[Other(c)].ok
        BY <3>2 DEF Kept
      <4>2. bad = {c}
        BY <1>1, <1>2, <4>1, <3>2, OtherFacts
      <4> QED
        BY <4>1, <4>2, <1>1, OtherFacts DEF Kept
    <3> QED
      BY <3>1, <3>2
  <2> QED
    BY <2>1, <2>2, <1>1, <1>2
<1>3. CASE bad = {} /\ c = None
  <2>1. v = [bad |-> {}, cur |-> old, work |-> [w EXCEPT ![old] = w[Other(old)]]]
    BY <1>3 DEF Verify
  <2>2. old \in Dirs /\ Other(old) \in Dirs /\ Other(old) # old /\ old # None
    BY OlderFacts, OtherFacts DEF System
  <2>3. d[Other(old)].ok /\ d[Other(old)] = w[Other(old)]
    BY <1>1, <1>3, <2>2 DEF Kept
  <2>4. Memory(v.work)
    BY <2>1, <2>2, OtherFacts DEF Memory
  <2>5. \A s \in Dirs : v.work[s] = w[Other(old)]
    BY <2>1, <2>2, OtherFacts DEF Memory
  <2> QED
    BY <2>1, <2>2, <2>3, <2>4, <2>5, <1>1, <1>3 DEF Kept
<1>4. CASE bad = {} /\ c # None
  BY <1>1, <1>4 DEF Verify
<1> QED
  BY <1>2, <1>3, <1>4

(* VerifyFAT leaves the directories alone.                                 *)
LEMMA VerifyFats ==
  ASSUME NEW w, Memory(w),
         NEW c \in Fats \cup {None},
         NEW v, v = Verify(w, c, Fats)
  PROVE  /\ Memory(v.work) /\ \A s \in Dirs : v.work[s] = w[s]
         /\ v.cur \in Fats \cup {None} /\ v.bad \subseteq Fats
         /\ v.cur = None <=> v.bad # {}
<1> DEFINE bad == {s \in Fats : ~Valid(w[s], s)}
           old == Older(w, Fats)
<1>1. CASE bad # {}
  BY <1>1 DEF Verify
<1>2. CASE bad = {} /\ c = None
  <2>1. v = [bad |-> {}, cur |-> old, work |-> [w EXCEPT ![old] = w[Other(old)]]]
    BY <1>2 DEF Verify
  <2>2. old \in Fats /\ old # None
    BY OlderFacts, OtherFacts DEF System
  <2> QED
    BY <2>1, <2>2, OtherFacts DEF Memory
<1>3. CASE bad = {} /\ c # None
  BY <1>3 DEF Verify
<1> QED
  BY <1>1, <1>2, <1>3

(* A directory that is found in error has no current copy any more. *)
Verified(d, v) ==
  /\ v = [bad |-> v.bad, cur |-> v.cur, work |-> v.work]
  /\ Memory(v.work) /\ v.cur \in Cursors /\ v.bad \subseteq System
  /\ Kept(d, v.work, v.cur.dir)
  /\ v.cur.dir = None <=> v.bad \cap Dirs # {}
  /\ v.cur.fat = None <=> v.bad \cap Fats # {}
  /\ \A s \in Dirs \ v.bad : v.work[s].ok

(* A verification keeps the directory that was written last.               *)
LEMMA VerifyKeeps ==
  ASSUME NEW d, NEW w, Memory(w), NEW c \in Cursors, Kept(d, w, c.dir)
  PROVE  Verified(d, VerifyBoth(w, c))
<1> DEFINE dv == Verify(w, c.dir, Dirs)
           fv == Verify(dv.work, c.fat, Fats)
           v  == VerifyBoth(w, c)
<1>1. c.dir \in Dirs \cup {None} /\ c.fat \in Fats \cup {None}
  BY DEF Cursors
<1>2. /\ Memory(dv.work) /\ dv.cur \in Dirs \cup {None} /\ dv.bad \subseteq Dirs
      /\ Kept(d, dv.work, dv.cur)
      /\ dv.cur = None <=> dv.bad # {}
      /\ \A s \in Dirs \ dv.bad : dv.work[s].ok
  BY <1>1, VerifyDirs
<1>3. /\ Memory(fv.work) /\ \A s \in Dirs : fv.work[s] = dv.work[s]
      /\ fv.cur \in Fats \cup {None} /\ fv.bad \subseteq Fats
      /\ fv.cur = None <=> fv.bad # {}
  BY <1>1, <1>2, VerifyFats
<1>4. v = [bad |-> dv.bad \cup fv.bad, cur |-> [dir |-> dv.cur, fat |-> fv.cur], work |-> fv.work]
  BY DEF VerifyBoth
<1> HIDE DEF dv, fv, v
<1>5. Kept(d, fv.work, dv.cur)
  BY <1>2, <1>3, OtherFacts DEF Kept
<1> QED
  <2>1. Verified(d, v)
    BY <1>2, <1>3, <1>4, <1>5, OtherFacts DEF Verified, Cursors
  <2> QED
    BY <2>1 DEF v

(* At most one copy in error is none or one.                               *)
LEMMA SomeBad ==
  ASSUME NEW bad \in SUBSET System, ~(Cardinality(bad) > 1)
  PROVE  bad = {} \/ \E x \in System : bad = {x}
<1>1. IsFiniteSet(bad) /\ Cardinality(bad) \in Nat
  <2>1. IsFiniteSet(System)
    <3>1. 1 \in Int /\ 4 \in Int
      OBVIOUS
    <3> QED
      BY <3>1, FS_Interval, Zenon DEF System
  <2>2. IsFiniteSet(bad)
    BY <2>1, FS_Subset
  <2> QED
    BY <2>2, FS_CardinalityType
<1>2. Cardinality(bad) = 0 \/ Cardinality(bad) = 1
  BY <1>1
<1> QED
  BY <1>1, <1>2, FS_EmptySet, FS_Singleton

(* Replacing the one copy in error by the other keeps the directory.       *)
LEMMA MendedKeeps ==
  ASSUME NEW d, NEW v, Verified(d, v), ~(Cardinality(v.bad) > 1),
         NEW m, m = Mended(v)
  PROVE  m.cur.dir \in Dirs /\ m.cur.fat \in Fats /\ m.cur \in Cursors
         /\ Memory(m.work) /\ Kept(d, m.work, m.cur.dir)
<1>1. CASE v.bad = {}
  <2>1. m = v
    BY <1>1, FS_EmptySet DEF Mended
  <2> QED
    BY <1>1, <2>1 DEF Verified, Cursors
<1>2. CASE \E x \in System : v.bad = {x}
  <2>1. PICK x \in System : v.bad = {x}
    BY <1>2
  <2>2. Cardinality(v.bad) = 1 /\ (CHOOSE s \in v.bad : TRUE) = x
    BY <2>1, FS_Singleton
  <2>3. m.cur = AsCurrent(v.cur, x) /\ m.work = [v.work EXCEPT ![x] = v.work[Other(x)]]
    BY <2>2 DEF Mended, Verified
  <2>4. CASE x \in Dirs
    <3>1. m.cur = [v.cur EXCEPT !.dir = x] /\ v.cur.dir = None /\ v.cur.fat \in Fats
      BY <2>1, <2>3, <2>4, OtherFacts DEF Verified, AsCurrent, Cursors
    <3>2. v.work[Other(x)].ok /\ d[Other(x)] = v.work[Other(x)]
      BY <3>1, <2>1, <2>4, OtherFacts DEF Verified, Kept
    <3>3. Memory(m.work) /\ m.work[Other(x)] = v.work[Other(x)]
      BY <2>3, <2>4, OtherFacts DEF Verified, Memory
    <3> QED
      BY <3>1, <3>2, <3>3, <2>4, OtherFacts DEF Kept, Cursors, Verified
  <2>5. CASE x \in Fats
    <3>1. m.cur = [v.cur EXCEPT !.fat = x] /\ v.cur.dir \in Dirs
      BY <2>1, <2>3, <2>5, OtherFacts DEF Verified, AsCurrent, Cursors
    <3>2. Memory(m.work) /\ \A s \in Dirs : m.work[s] = v.work[s]
      BY <2>3, <2>5, OtherFacts DEF Verified, Memory
    <3> QED
      BY <3>1, <3>2, <2>5, OtherFacts DEF Kept, Cursors, Verified
  <2> QED
    BY <2>4, <2>5, OtherFacts
<1> QED
  BY <1>1, <1>2, SomeBad DEF Verified

(* CARDCheck, up to the updates, does too.                                 *)
LEMMA CheckedKeeps ==
  ASSUME NEW d, NEW w, Memory(w), NEW c \in Cursors, Kept(d, w, c.dir),
         NEW r, r = Checked(w, c)
  PROVE  /\ Memory(r.work) /\ r.cur \in Cursors
         /\ Kept(d, r.work, r.cur.dir)
         /\ r.update \in {"dir", "fat", "none", "broken"}
         /\ r.update # "broken" => r.cur.dir \in Dirs /\ r.cur.fat \in Fats
<1> DEFINE v == VerifyBoth(w, c)
           m == Mended(v)
<1>1. Verified(d, v)
  BY VerifyKeeps
<1>2. r = FilesChecked(m)
  BY DEF Checked
<1> HIDE DEF v
<1>3. m.bad = v.bad
  BY <1>1 DEF Mended, Verified
<1>4. CASE Cardinality(v.bad) > 1
  <2>1. m = v
    BY <1>4 DEF Mended
  <2> QED
    BY <1>1, <1>2, <1>4, <2>1 DEF FilesChecked, Verified
<1>5. CASE ~(Cardinality(v.bad) > 1)
  <2>1. m.cur.dir \in Dirs /\ m.cur.fat \in Fats /\ m.cur \in Cursors /\ Memory(m.work) /\ Kept(d, m.work, m.cur.dir)
    BY <1>1, <1>5, MendedKeeps
  <2> HIDE DEF m
  <2> DEFINE current == m.work[m.cur.fat]
             fat == WithoutOrphans(current, m.work[m.cur.dir].files)
  <2>2. \/ r.work = [m.work EXCEPT ![Other(m.cur.fat)] = Garbage] /\ r.update = "broken"
        \/ r.work = [m.work EXCEPT ![m.cur.fat] = fat, ![Other(m.cur.fat)] = fat] /\ r.update \in {"dir", "fat", "none"}
    BY <1>2, <1>3, <1>5 DEF FilesChecked
  <2>3. r.cur = m.cur
    BY <1>2, <1>3, <1>5 DEF FilesChecked
  <2> HIDE DEF fat
  <2>4. Memory(r.work) /\ \A s \in Dirs : r.work[s] = m.work[s]
    BY <2>1, <2>2, OtherFacts DEF Memory
  <2>5. Kept(d, r.work, m.cur.dir)
    BY <2>1, <2>4, OtherFacts DEF Kept
  <2> QED
    BY <2>1, <2>2, <2>3, <2>4, <2>5
<1> QED
  BY <1>4, <1>5

-----------------------------------------------------------------------------
(* Steps *)

(* An update that starts on the current directory or FAT keeps the         *)
(* invariant.                                                              *)
LEMMA Starts ==
  ASSUME NEW w, NEW s, NEW o, StartUpdate(w, s, o), {"sector", "stage"} \subseteq DOMAIN o,
         Memory(w), Memory(card'), \E t \in Dirs : card'[t].ok,
         attached', cur' \in Cursors, cur'.dir \in Dirs, cur'.fat \in Fats,
         s \in {cur'.dir, cur'.fat},
         Kept(card', w, cur'.dir)
  PROVE  DirInv'
<1>1. /\ work' = [w EXCEPT ![s] = Sealed(@)] /\ result' = "busy"
      /\ op'.sector = s /\ {"sector", "stage"} \subseteq DOMAIN op'
  BY DEF StartUpdate
<1>2. \A t \in System \ {s} : work'[t] = w[t]
  BY <1>1 DEF Memory
<1>3. s \in Dirs => work'[s].ok /\ "ok" \in DOMAIN work'[s]
  BY <1>1, OtherFacts DEF Memory, Sealed
<1>4. Memory(work')
  BY <1>1, <1>2, <1>3, OtherFacts DEF Memory
<1>5. Kept(card', work', cur'.dir)
  BY <1>2, OtherFacts DEF Kept
<1> QED
  BY <1>1, <1>3, <1>4, <1>5 DEF DirInv, Working

(* So does an unmount, if a directory is good.                             *)
LEMMA Unmounts ==
  ASSUME Unmounted, Memory(card'), \E t \in Dirs : card'[t].ok
  PROVE  DirInv'
<1>1. Memory(work')
  BY OtherFacts DEF Unmounted, Memory, Garbage
<1> QED
  BY <1>1 DEF Unmounted, DirInv, Put, Cursors

(* A call that is refused changes nothing.                                 *)
LEMMA Refuses == DirInv /\ Refuse => DirInv'
BY DEF Refuse, Put, DirInv

(* A call that updates the directory or the FAT keeps the other directory. *)
LEMMA Calls ==
  ASSUME DirInv, Usable, NEW w, NEW s \in {cur.dir, cur.fat}, NEW next, NEW file, NEW entry,
         StartUpdate(w, s, Operation(next, file, entry)),
         DOMAIN w = System, "ok" \in DOMAIN w[cur.dir],
         w[Other(cur.dir)] = work[Other(cur.dir)],
         UNCHANGED <<card, cur, attached>>
  PROVE  DirInv'
<1>1. cur.dir \in Dirs /\ cur.fat \in Fats /\ attached
  BY DEF DirInv, Usable, Cursors
<1>2. Memory(w)
  BY <1>1, OtherFacts DEF Memory, DirInv
<1>3. Kept(card, w, cur.dir)
  BY <1>1, OtherFacts DEF Kept, DirInv
<1>4. {"sector", "stage"} \subseteq DOMAIN Operation(next, file, entry)
  BY DEF Operation
<1> HIDE DEF Operation
<1> QED
  BY <1>1, <1>2, <1>3, <1>4, Starts DEF DirInv

(* A mount takes the directory that was written last.                      *)
LEMMA Mounts == DirInv /\ CARDMountAsync => DirInv'
<1> SUFFICES ASSUME DirInv, CARDMountAsync PROVE DirInv'
  OBVIOUS
<1> DEFINE c == [dir |-> None, fat |-> None]
           v == VerifyBoth(card, c)
<1>1. Verified(card, v)
  BY VerifyKeeps DEF Kept, Cursors, DirInv
<1>2. work' = v.work /\ cur' = v.cur /\ card' = card /\ op' = NoOp
  BY DEF CARDMountAsync, Put
<1> QED
  BY <1>1, <1>2 DEF DirInv, Verified

(* A creation begins with the FAT, having set the name in memory.          *)
LEMMA Creates ==
  ASSUME NEW n, NEW length, DirInv, CARDCreateAsync(n, length) PROVE DirInv'
<1> DEFINE unused == {f \in File : ~dirFiles[f].used}
           f      == Min(unused)
           fat    == work[cur.fat]
           entry  == [Unused EXCEPT !.name = n, !.length = length]
           full   == [entry EXCEPT !.used = TRUE, !.start = FirstAllocated(fat)]
           same   == work[cur.dir].ok /\ dirFiles[f] = entry
           w      == [work EXCEPT ![cur.dir].files[f] = entry,
                                  ![cur.dir].ok = @ /\ dirFiles[f] = entry,
                                  ![cur.fat] = Allocated(fat, length)]
<1>1. CASE Refuse
  BY <1>1, Refuses
<1>2. CASE ~Refuse
  <2>1. /\ Usable /\ UNCHANGED <<card, cur, attached>>
        /\ StartUpdate(w, cur.fat, Operation("create", f, full))
    BY <1>2 DEF CARDCreateAsync
  <2>2. cur.dir \in Dirs /\ cur.fat \in Fats /\ Memory(work)
    BY <2>1 DEF DirInv, Usable, Cursors
  <2>3. /\ DOMAIN w = System /\ DOMAIN w[cur.dir] = DOMAIN work[cur.dir]
        /\ w[Other(cur.dir)] = work[Other(cur.dir)]
    BY <2>2, OtherFacts DEF Memory
  <2>4. "ok" \in DOMAIN w[cur.dir]
    BY <2>2, <2>3 DEF Memory
  <2> HIDE DEF w, f, full
  <2> QED
    BY <2>1, <2>3, <2>4, Calls
<1> QED
  BY <1>1, <1>2

(* A deletion begins with the directory.                                   *)
LEMMA Deletes ==
  ASSUME NEW n, DirInv, CARDDeleteAsync(n) PROVE DirInv'
<1>1. CASE Refuse
  BY <1>1, Refuses
<1>2. CASE ~Refuse
  <2> DEFINE W(f) == [work EXCEPT ![cur.dir].files[f] = Unused]
  <2>1. PICK f : /\ Usable /\ UNCHANGED <<card, cur, attached>>
                 /\ StartUpdate(W(f), cur.dir, Operation("delete", None, dirFiles[f]))
    BY <1>2 DEF CARDDeleteAsync
  <2>2. cur.dir \in Dirs /\ Memory(work)
    BY <2>1 DEF DirInv, Usable, Cursors
  <2>3. /\ DOMAIN W(f) = System /\ DOMAIN W(f)[cur.dir] = DOMAIN work[cur.dir]
        /\ W(f)[Other(cur.dir)] = work[Other(cur.dir)]
    BY <2>2, OtherFacts DEF Memory
  <2>4. "ok" \in DOMAIN W(f)[cur.dir]
    BY <2>2, <2>3 DEF Memory
  <2> HIDE DEF W
  <2> QED
    BY <2>1, <2>3, <2>4, Calls
<1> QED
  BY <1>1, <1>2

(* A renaming updates the directory.                                       *)
LEMMA Renames ==
  ASSUME NEW old, NEW new, DirInv, CARDRenameAsync(old, new) PROVE DirInv'
<1>1. CASE Refuse
  BY <1>1, Refuses
<1>2. CASE ~Refuse
  <2> DEFINE W(f) == [work EXCEPT ![cur.dir].files[f].name = new]
  <2>1. PICK f : /\ Usable /\ UNCHANGED <<card, cur, attached>>
                 /\ StartUpdate(W(f), cur.dir, Operation("nothing", None, Unused))
    BY <1>2 DEF CARDRenameAsync, Save
  <2>2. cur.dir \in Dirs /\ Memory(work)
    BY <2>1 DEF DirInv, Usable, Cursors
  <2>3. /\ DOMAIN W(f) = System /\ DOMAIN W(f)[cur.dir] = DOMAIN work[cur.dir]
        /\ W(f)[Other(cur.dir)] = work[Other(cur.dir)]
    BY <2>2, OtherFacts DEF Memory
  <2>4. "ok" \in DOMAIN W(f)[cur.dir]
    BY <2>2, <2>3 DEF Memory
  <2> HIDE DEF W
  <2> QED
    BY <2>1, <2>3, <2>4, Calls
<1> QED
  BY <1>1, <1>2

(* A check updates the directory or the FAT, or neither.                   *)
LEMMA Checks == DirInv /\ CARDCheckAsync => DirInv'
<1> SUFFICES ASSUME DirInv, CARDCheckAsync PROVE DirInv'
  OBVIOUS
<1> DEFINE r == Checked(work, cur)
<1>1. /\ attached /\ attached' /\ UNCHANGED card /\ cur' = r.cur
      /\ Kept(card, work, cur.dir) /\ Memory(card) /\ Memory(work) /\ cur \in Cursors
      /\ \E s \in Dirs : card[s].ok
  BY DEF CARDCheckAsync, UpdateChecked, Checkable, DirInv
<1>2. /\ Memory(r.work) /\ r.cur \in Cursors /\ Kept(card, r.work, r.cur.dir)
      /\ r.update \in {"dir", "fat", "none", "broken"}
      /\ r.update # "broken" => r.cur.dir \in Dirs /\ r.cur.fat \in Fats
  BY <1>1, CheckedKeeps
<1>3. {"sector", "stage"} \subseteq DOMAIN Save
  BY DEF Save, Operation
<1>4. \/ r.update = "dir" /\ StartUpdate(r.work, r.cur.dir, Save)
      \/ r.update = "fat" /\ StartUpdate(r.work, r.cur.fat, Save)
      \/ op' = NoOp /\ work' = r.work
  BY <1>2 DEF CARDCheckAsync, UpdateChecked, Put
<1> HIDE DEF r
<1>5. CASE r.update = "dir" /\ StartUpdate(r.work, r.cur.dir, Save)
  BY <1>1, <1>2, <1>3, <1>5, Starts
<1>6. CASE r.update = "fat" /\ StartUpdate(r.work, r.cur.fat, Save)
  BY <1>1, <1>2, <1>3, <1>6, Starts
<1>7. CASE op' = NoOp /\ work' = r.work
  BY <1>1, <1>2, <1>7 DEF DirInv
<1> QED
  BY <1>4, <1>5, <1>6, <1>7

(* What becomes of a sector in work leaves the other directory as it is. *)
LEMMA Writes ==
  ASSUME DirInv, Working, NEW x, "ok" \in DOMAIN x, card' = [card EXCEPT ![op.sector] = x]
  PROVE  /\ Memory(card') /\ \E s \in Dirs : card'[s].ok
         /\ Kept(card', work, cur.dir)
<1>1. cur.dir \in Dirs /\ op.sector \in System /\ op.sector # Other(cur.dir) /\ Other(cur.dir) \in Dirs
  BY OtherFacts DEF Working
<1>2. Memory(card')
  BY <1>1 DEF Memory, DirInv
<1>3. card'[Other(cur.dir)] = card[Other(cur.dir)]
  BY <1>1, OtherFacts DEF Memory, DirInv
<1> QED
  BY <1>1, <1>2, <1>3, OtherFacts DEF Kept, DirInv, Working

(* The sector that is erased is not the one that was written last.         *)
LEMMA Erases == DirInv /\ SectorErased => DirInv'
<1> SUFFICES ASSUME DirInv, SectorErased PROVE DirInv'
  OBVIOUS
<1>1. Working
  BY DEF SectorErased, InWork, DirInv
<1>2. /\ card' = [card EXCEPT ![op.sector] = Garbage] /\ op' = [op EXCEPT !.stage = "write"]
      /\ UNCHANGED <<work, cur, attached, result>>
  BY DEF SectorErased
<1>3. "ok" \in DOMAIN Garbage
  BY DEF Garbage
<1>4. /\ Memory(card') /\ \E s \in Dirs : card'[s].ok
      /\ Kept(card', work, cur.dir)
  BY <1>1, <1>2, <1>3, Writes
<1>5. Working'
  BY <1>1, <1>2 DEF Working
<1> QED
  BY <1>2, <1>4, <1>5 DEF DirInv

(* So an erasing or a writing that is interrupted leaves that one alone.   *)
LEMMA Interrupts ==
  ASSUME DirInv, card' \in Interrupted
  PROVE  /\ Memory(card') /\ \E s \in Dirs : card'[s].ok
         /\ attached => Kept(card', work, cur.dir)
<1>1. CASE op = NoOp
  BY <1>1 DEF Interrupted, DirInv
<1>2. CASE op # NoOp
  <2>1. Working
    BY <1>2 DEF DirInv
  <2>2. PICK x \in {Garbage, IF op.stage = "erase" THEN card[op.sector] ELSE work[op.sector]} :
          card' = [card EXCEPT ![op.sector] = x]
    BY <1>2 DEF Interrupted
  <2>3. op.sector \in Dirs => "ok" \in DOMAIN x
    BY <2>1 DEF DirInv, Memory, Garbage
  <2>4. CASE op.sector \in Dirs
    BY <2>1, <2>2, <2>3, <2>4, Writes
  <2>5. CASE op.sector \notin Dirs
    BY <2>1, <2>2, <2>5, OtherFacts DEF DirInv, Memory, Kept, Working
  <2> QED
    BY <2>4, <2>5
<1> QED
  BY <1>1, <1>2

(* A failure of the card keeps the invariant.                              *)
LEMMA Fails == DirInv /\ SectorFailed => DirInv'
BY Interrupts DEF SectorFailed, Put, DirInv

(* A loss of the card, or of power, keeps the invariant.                   *)
LEMMA Loses == DirInv /\ CardLost => DirInv'
BY Interrupts, Unmounts DEF CardLost

(* A directory that is written becomes the one that was written last.      *)
LEMMA Written == DirInv /\ SectorWritten => DirInv'
<1> SUFFICES ASSUME DirInv, SectorWritten PROVE DirInv'
  OBVIOUS
<1> DEFINE s == op.sector
           w == [work EXCEPT ![Other(s)] = work[s]]
           c == AsCurrent(cur, Other(s))
           W(f, e) == [w EXCEPT ![c.dir].files[f] = e]
           F(e)    == [w EXCEPT ![c.fat] = Freed(@, e)]
<1>1. Working
  BY DEF SectorWritten, InWork, DirInv
<1>2. /\ card' = [card EXCEPT ![s] = work[s]] /\ cur' = c /\ attached' /\ attached
      /\ \/ op' = NoOp /\ work' = w
         \/ StartUpdate(W(op.file, op.entry), c.dir, Save)
         \/ StartUpdate(F(op.entry), c.fat, Save)
  BY <1>1 DEF SectorWritten, Put, Working
<1>3. /\ c.dir \in Dirs /\ c.fat \in Fats /\ c \in Cursors
      /\ s \in Dirs => c.dir = Other(s)
      /\ s \notin Dirs => c.dir = cur.dir
  BY <1>1, OtherFacts DEF Working, AsCurrent, DirInv, Cursors
<1>4. Memory(card') /\ Memory(w)
  BY <1>1, <1>2, OtherFacts DEF Working, DirInv, Memory
<1>5. Kept(card', w, c.dir) /\ \E t \in Dirs : card'[t].ok
  <2>1. CASE s \in Dirs
    <3>1. s = cur.dir /\ work[s].ok /\ c.dir = Other(s)
      BY <1>1, <1>3, <2>1, OtherFacts DEF Working
    <3>2. card'[s] = work[s] /\ w[s] = work[s]
      BY <1>2, <2>1, OtherFacts DEF DirInv, Memory
    <3> QED
      BY <2>1, <3>1, <3>2, OtherFacts DEF Kept
  <2>2. CASE s \notin Dirs
    <3>1. s \in Fats /\ Other(s) \in Fats /\ c.dir = cur.dir
      BY <1>1, <1>3, <2>2, OtherFacts DEF Working
    <3>2. \A t \in Dirs : card'[t] = card[t] /\ w[t] = work[t]
      BY <1>2, <3>1, OtherFacts DEF DirInv, Memory
    <3> QED
      BY <1>2, <1>3, <3>1, <3>2, OtherFacts DEF Kept, DirInv
  <2> QED
    BY <2>1, <2>2
<1>6. {"sector", "stage"} \subseteq DOMAIN Save
  BY DEF Save, Operation
<1>7. CASE op' = NoOp /\ work' = w
  BY <1>2, <1>3, <1>4, <1>5, <1>7 DEF DirInv
<1>8. CASE StartUpdate(W(op.file, op.entry), c.dir, Save)
  <2> DEFINE ww == W(op.file, op.entry)
  <2>1. Memory(ww)
    BY <1>3, <1>4, OtherFacts DEF Memory
  <2>2. ww[Other(c.dir)] = w[Other(c.dir)]
    BY <1>3, <1>4, OtherFacts DEF Memory
  <2> HIDE DEF ww, w, c
  <2>3. Kept(card', ww, c.dir)
    BY <1>3, <1>5, <2>2, OtherFacts DEF Kept
  <2>4. StartUpdate(ww, c.dir, Save)
    BY <1>8 DEF ww
  <2> QED
    BY <1>2, <1>3, <1>4, <1>5, <1>6, <2>1, <2>3, <2>4, Starts
<1>9. CASE StartUpdate(F(op.entry), c.fat, Save)
  <2> DEFINE ww == F(op.entry)
  <2>1. Memory(ww) /\ \A t \in Dirs : ww[t] = w[t]
    BY <1>3, <1>4, OtherFacts DEF Memory
  <2> HIDE DEF ww, w, c
  <2>2. Kept(card', ww, c.dir)
    BY <1>3, <1>5, <2>1, OtherFacts DEF Kept
  <2>3. StartUpdate(ww, c.fat, Save)
    BY <1>9 DEF ww
  <2> QED
    BY <1>2, <1>3, <1>4, <1>5, <1>6, <2>1, <2>2, <2>3, Starts
<1> QED
  BY <1>2, <1>7, <1>8, <1>9

-----------------------------------------------------------------------------
(* A card that was formatted satisfies the invariant.                      *)
LEMMA Inits == Init => DirInv
<1> SUFFICES ASSUME Init PROVE DirInv
  OBVIOUS
<1>1. \A s \in Dirs : Formatted(s).ok /\ "ok" \in DOMAIN Formatted(s)
  BY DEF Formatted
<1>2. Memory(card) /\ \E s \in Dirs : card[s].ok
  BY <1>1, OtherFacts DEF Init, Memory, Dirs
<1>3. Memory(work)
  BY OtherFacts DEF Init, Memory, Garbage
<1> QED
  BY <1>2, <1>3 DEF Init, DirInv, Cursors

(* Every step preserves the invariant.                                     *)
LEMMA Steps == DirInv /\ [Next]_vars => DirInv'
<1> SUFFICES ASSUME DirInv, [Next]_vars PROVE DirInv'
  OBVIOUS
<1>1. CASE CARDUnmount
  BY <1>1, Unmounts DEF CARDUnmount, DirInv
<1>2. CASE UNCHANGED vars
  BY <1>2 DEF vars, DirInv, Working
<1> QED
  BY <1>1, <1>2, Mounts, Checks, Creates, Deletes, Renames, Erases, Written, Fails, Loses DEF Next

(* Whatever fails, the directory of the last update to succeed stays on    *)
(* the card: a proof of DirectoryKept for all constants.                   *)
THEOREM DirectoryStays == Spec => []DirectoryKept
<1>1. DirInv => DirectoryKept
  BY DEF DirInv, DirectoryKept, Kept
<1> QED
  BY <1>1, Inits, Steps, PTL DEF Spec

-----------------------------------------------------------------------------
(* Chains of blocks *)

(* A set of numbers that is not empty has a least one.                     *)
LEMMA LeastNat ==
  ASSUME NEW T \in SUBSET Nat, T # {}
  PROVE  /\ Min(T) \in T
         /\ \A y \in T : Min(T) <= y
<1>1. PICK x \in T : \A y \in T : ~(<<y, x>> \in OpToRel(<, Nat))
  BY NatLessThanWellFounded, WFMin
<1>2. \A y \in T : x <= y
  <2> SUFFICES ASSUME NEW y \in T PROVE x <= y
    OBVIOUS
  <2>1. x \in Nat /\ y \in Nat
    OBVIOUS
  <2>2. ~(y < x)
    BY <1>1, <2>1 DEF OpToRel
  <2> QED
    BY <2>1, <2>2
<1> QED
  BY <1>2 DEF Min

(* The nth block of the chain of an entry, from those before it.           *)
Link(next, e, c, n) ==
  IF n = 0 THEN e.start ELSE IF c[n - 1] \in Block THEN next[c[n - 1]] ELSE None

(* The chain as far as any place is a function.                            *)
LEMMA ChainExists ==
  ASSUME NEW next, NEW e, NEW L \in Nat
  PROVE  \E c : c = [n \in 0..L |-> Link(next, e, c, n)]
<1> DEFINE T == {k \in Nat : ~\E c : c = [n \in 0..k |-> Link(next, e, c, n)]}
<1> SUFFICES ASSUME T # {} PROVE FALSE
  OBVIOUS
<1>1. PICK m \in T : \A k \in T : m <= k
  <2>1. T \in SUBSET Nat
    OBVIOUS
  <2> HIDE DEF T
  <2> QED
    BY <2>1, LeastNat
<1>2. CASE m = 0
  <2> DEFINE c == [n \in 0..0 |-> e.start]
  <2>1. c = [n \in 0..0 |-> Link(next, e, c, n)]
    BY DEF Link
  <2> QED
    BY <1>1, <1>2, <2>1
<1>3. CASE m # 0
  <2>1. m - 1 \in Nat /\ m - 1 \notin T /\ m \in Nat
    BY <1>1, <1>3
  <2>2. PICK c : c = [n \in 0..(m - 1) |-> Link(next, e, c, n)]
    BY <2>1
  <2> DEFINE d == [n \in 0..m |-> IF n < m THEN c[n] ELSE Link(next, e, c, m)]
  <2>3. \A n \in 0..m : d[n] = Link(next, e, d, n)
    <3> SUFFICES ASSUME NEW n \in 0..m PROVE d[n] = Link(next, e, d, n)
      OBVIOUS
    <3>1. n # 0 => n - 1 \in 0..m /\ n - 1 < m
      BY <2>1
    <3>2. n # 0 => d[n - 1] = c[n - 1]
      BY <3>1
    <3>3. Link(next, e, c, n) = Link(next, e, d, n)
      BY <3>2 DEF Link
    <3>4. n < m => n \in 0..(m - 1)
      BY <2>1
    <3>5. n < m => c[n] = Link(next, e, c, n)
      BY <2>2, <3>4
    <3>6. ~(n < m) => n = m
      BY <2>1
    <3>7. d[n] = Link(next, e, c, n)
      BY <3>5, <3>6
    <3> QED
      BY <3>3, <3>7
  <2>4. d = [n \in 0..m |-> Link(next, e, d, n)]
    BY <2>3
  <2> QED
    BY <1>1, <2>4
<1> QED
  BY <1>2, <1>3

(* The recursive definition of Chain has a solution, and Chain is it.      *)
LEMMA ChainFcn ==
  ASSUME NEW next, NEW e, e.length \in Nat
  PROVE  Chain(next, e) = [n \in 0..e.length |-> Link(next, e, Chain(next, e), n)]
<1> DEFINE at[n \in 0..e.length] ==
             IF n = 0 THEN e.start
             ELSE LET b == at[n - 1] IN IF b \in Block THEN next[b] ELSE None
<1>1. Chain(next, e) = at
  BY DEF Chain
<1>2. at = [n \in 0..e.length |-> Link(next, e, at, n)]
  <2>1. \E c : c = [n \in 0..e.length |-> Link(next, e, c, n)]
    BY ChainExists
  <2> QED
    BY <2>1 DEF Link
<1> HIDE DEF at
<1> QED
  BY <1>1, <1>2

(* A chain begins at the start of the file and follows the links of the    *)
(* FAT.                                                                    *)
LEMMA ChainIs ==
  ASSUME NEW next, NEW e, e.length \in Nat
  PROVE  /\ DOMAIN Chain(next, e) = 0..e.length
         /\ Chain(next, e)[0] = e.start
         /\ \A n \in 1..e.length :
              Chain(next, e)[n] = IF Chain(next, e)[n - 1] \in Block THEN next[Chain(next, e)[n - 1]] ELSE None
<1> DEFINE c == Chain(next, e)
<1>1. c = [n \in 0..e.length |-> Link(next, e, c, n)]
  BY ChainFcn
<1> HIDE DEF c
<1>2. DOMAIN c = 0..e.length /\ \A n \in 0..e.length : c[n] = Link(next, e, c, n)
  BY <1>1
<1>3. DOMAIN c = 0..e.length /\ c[0] = e.start /\ \A n \in 1..e.length : c[n] = IF c[n - 1] \in Block THEN next[c[n - 1]] ELSE None
  BY <1>2 DEF Link
<1> QED
  BY <1>3 DEF c

(* The places of a chain before its last are the blocks of the file.       *)
LEMMA BlocksIn ==
  ASSUME NEW next, NEW e
  PROVE  \A n \in 0..(e.length - 1) : Chain(next, e)[n] \in BlocksOf(next, e)
BY DEF BlocksOf

(* Two FATs that agree on the blocks of a file have the same chain for it. *)
LEMMA ChainSame ==
  ASSUME NEW next, NEW next2, NEW e, e.length \in Nat,
         \A b \in BlocksOf(next, e) : next2[b] = next[b]
  PROVE  /\ Chain(next2, e) = Chain(next, e)
         /\ BlocksOf(next2, e) = BlocksOf(next, e)
         /\ GoodChain(next2, e) <=> GoodChain(next, e)
<1> DEFINE c == Chain(next, e)
           d == Chain(next2, e)
           L == e.length
<1>1. /\ DOMAIN c = 0..L /\ DOMAIN d = 0..L /\ c[0] = e.start /\ d[0] = e.start
      /\ \A n \in 1..L : c[n] = IF c[n - 1] \in Block THEN next[c[n - 1]] ELSE None
      /\ \A n \in 1..L : d[n] = IF d[n - 1] \in Block THEN next2[d[n - 1]] ELSE None
  BY ChainIs
<1>2. \A n \in 0..(L - 1) : next2[c[n]] = next[c[n]]
  BY BlocksIn
<1>3. L \in Nat
  OBVIOUS
<1>a. c = [n \in 0..L |-> Link(next, e, c, n)] /\ d = [n \in 0..L |-> Link(next2, e, d, n)]
  BY ChainFcn
<1> HIDE DEF c, d, L
<1>4. \A n \in 0..L : d[n] = c[n]
  <2> DEFINE T == {n \in 0..L : d[n] # c[n]}
  <2> SUFFICES ASSUME T # {} PROVE FALSE
    OBVIOUS
  <2>1. PICK m \in T : \A k \in T : m <= k
    <3>1. T \in SUBSET Nat
      BY <1>3
    <3> HIDE DEF T
    <3> QED
      BY <3>1, LeastNat
  <2>2. m \in 0..L /\ d[m] # c[m] /\ m # 0
    BY <1>1, <2>1
  <2>3. m - 1 \in 0..(L - 1) /\ m \in 1..L /\ m - 1 \in 0..L /\ m - 1 < m
    BY <1>3, <2>2
  <2>4. d[m - 1] = c[m - 1]
    BY <1>3, <2>1, <2>2, <2>3
  <2> QED
    BY <1>1, <1>2, <2>2, <2>3, <2>4
<1>5. d = c
  <2>1. \A n \in 0..L : Link(next, e, c, n) = Link(next2, e, d, n)
    <3>1. \A n \in 0..L : c[n] = Link(next, e, c, n) /\ d[n] = Link(next2, e, d, n)
      BY <1>a
    <3> QED
      BY <1>4, <3>1
  <2> QED
    BY <1>a, <2>1
<1> QED
  BY <1>5 DEF c, d, BlocksOf, GoodChain

(* End and Avail are no blocks.                                            *)
LEMMA Marks ==
  /\ cBlock \in Nat /\ cBlock > 5 /\ Block \subseteq Nat
  /\ End \notin Block /\ Avail \notin Block /\ None \notin Block /\ End # Avail
BY CARDAssumption DEF Block, End, Avail, None

(* The places of a good chain are blocks, each linked to the next and none *)
(* of them free.                                                           *)
LEMMA GoodChainIs ==
  ASSUME NEW next, NEW e, e.length \in Nat, GoodChain(next, e)
  PROVE  /\ \A n \in 0..(e.length - 1) :
              Chain(next, e)[n] \in Block /\ Chain(next, e)[n + 1] = next[Chain(next, e)[n]]
         /\ BlocksOf(next, e) \subseteq Block
         /\ BlocksOf(next, e) \cap FreeBlocks(next) = {}
<1> DEFINE c == Chain(next, e)
           L == e.length
<1>1. \A n \in 0..(L - 1) : c[n] \in BlocksOf(next, e)
  BY BlocksIn
<1>2. BlocksOf(next, e) \subseteq Block /\ c[L] = End
  BY DEF GoodChain
<1>3. \A n \in 1..L : c[n] = IF c[n - 1] \in Block THEN next[c[n - 1]] ELSE None
  BY ChainIs
<1>4. BlocksOf(next, e) = {c[n] : n \in 0..(L - 1)}
  BY DEF BlocksOf
<1>5. L \in Nat
  OBVIOUS
<1> HIDE DEF c, L
<1>6. \A n \in 0..(L - 1) : c[n] \in Block /\ c[n + 1] = next[c[n]]
  <2> SUFFICES ASSUME NEW n \in 0..(L - 1) PROVE c[n] \in Block /\ c[n + 1] = next[c[n]]
    OBVIOUS
  <2>1. n + 1 \in 1..L /\ n + 1 - 1 = n
    BY <1>5
  <2> QED
    BY <1>1, <1>2, <1>3, <2>1
<1>7. \A n \in 0..(L - 1) : next[c[n]] # Avail
  <2> SUFFICES ASSUME NEW n \in 0..(L - 1) PROVE c[n + 1] # Avail
    BY <1>6
  <2>1. n + 1 = L \/ n + 1 \in 0..(L - 1)
    BY <1>5
  <2> QED
    BY <1>2, <1>6, <2>1, Marks
<1>8. BlocksOf(next, e) \cap FreeBlocks(next) = {}
  BY <1>4, <1>7 DEF FreeBlocks
<1> QED
  BY <1>2, <1>6, <1>8 DEF c, L

(* A good chain has no block twice: it would never reach its end.          *)
LEMMA ChainDistinct ==
  ASSUME NEW next, NEW e, e.length \in Nat, GoodChain(next, e),
         NEW i \in 0..(e.length - 1), NEW j \in 0..(e.length - 1), i < j
  PROVE  Chain(next, e)[i] # Chain(next, e)[j]
<1> DEFINE c == Chain(next, e)
           L == e.length
<1>1. c[L] = End
  BY DEF GoodChain
<1>2. \A n \in 0..(L - 1) : c[n] \in Block /\ c[n + 1] = next[c[n]]
  BY GoodChainIs
<1>3. L \in Nat /\ i \in Nat /\ j \in Nat /\ i < j /\ j < L
  OBVIOUS
<1> HIDE DEF c, L
<1> SUFFICES ASSUME c[i] = c[j] PROVE FALSE
  BY DEF c
<1> DEFINE T == {k \in 0..(L - j) : c[i + k] # c[j + k]}
<1>4. CASE T = {}
  <2>1. L - j \in 0..(L - j) /\ j + (L - j) = L /\ i + (L - j) \in 0..(L - 1)
    BY <1>3
  <2>2. c[i + (L - j)] = c[L]
    BY <1>4, <2>1
  <2> QED
    BY <1>1, <1>2, <2>1, <2>2, Marks
<1>5. CASE T # {}
  <2>1. PICK m \in T : \A k \in T : m <= k
    <3>1. T \in SUBSET Nat
      BY <1>3
    <3> HIDE DEF T
    <3> QED
      BY <1>5, <3>1, LeastNat
  <2>2. m \in 0..(L - j) /\ c[i + m] # c[j + m]
    OBVIOUS
  <2>3. m # 0
    BY <1>3, <2>2
  <2>4. m - 1 \in 0..(L - j) /\ m - 1 < m
    BY <1>3, <2>2, <2>3
  <2>5. m - 1 \notin T
    BY <1>3, <2>1, <2>2, <2>4
  <2>6. c[i + (m - 1)] = c[j + (m - 1)]
    BY <2>4, <2>5
  <2>7. /\ i + (m - 1) \in 0..(L - 1) /\ j + (m - 1) \in 0..(L - 1)
        /\ i + (m - 1) + 1 = i + m /\ j + (m - 1) + 1 = j + m
    BY <1>3, <2>2, <2>3
  <2>8. c[i + m] = next[c[i + (m - 1)]] /\ c[j + m] = next[c[j + (m - 1)]]
    BY <1>2, <2>7
  <2> QED
    BY <2>2, <2>6, <2>8
<1> QED
  BY <1>4, <1>5

(* A file with a good chain has as many blocks as its length says.         *)
LEMMA ChainCount ==
  ASSUME NEW next, NEW e, e.length \in Nat, GoodChain(next, e)
  PROVE  IsFiniteSet(BlocksOf(next, e)) /\ Cardinality(BlocksOf(next, e)) = e.length
<1> DEFINE c == Chain(next, e)
           L == e.length
           S == BlocksOf(next, e)
           f == [n \in 0..(L - 1) |-> c[n]]
<1>1. \A i, j \in 0..(L - 1) : i # j => c[i] # c[j]
  <2> SUFFICES ASSUME NEW i \in 0..(L - 1), NEW j \in 0..(L - 1), i # j PROVE c[i] # c[j]
    OBVIOUS
  <2>1. i < j \/ j < i
    OBVIOUS
  <2> QED
    BY <2>1, ChainDistinct
<1>2. S = {c[n] : n \in 0..(L - 1)}
  BY DEF BlocksOf
<1>3. L \in Nat
  OBVIOUS
<1> HIDE DEF c, L, S
<1>4. f \in Injection(0..(L - 1), S) /\ f \in Surjection(0..(L - 1), S)
  BY <1>1, <1>2 DEF Injection, Surjection, IsInjective
<1>5. IsFiniteSet(0..(L - 1)) /\ Cardinality(0..(L - 1)) = L
  <2>1. IsFiniteSet(0..(L - 1)) /\ Cardinality(0..(L - 1)) = IF 0 > L - 1 THEN 0 ELSE (L - 1) - 0 + 1
    BY <1>3, FS_Interval
  <2> QED
    BY <1>3, <2>1
<1>6. IsFiniteSet(S) /\ Cardinality(S) = L
  <2> HIDE DEF f
  <2> QED
    BY <1>4, <1>5, FS_Surjection
<1> QED
  BY <1>6 DEF L, S

-----------------------------------------------------------------------------
(* Allocation *)

(* 1..n has n elements.                                                    *)
LEMMA Interval ==
  ASSUME NEW n \in Nat
  PROVE  IsFiniteSet(1..n) /\ Cardinality(1..n) = n
<1>1. 1 \in Int /\ n \in Int
  OBVIOUS
<1>2. IsFiniteSet(1..n) /\ Cardinality(1..n) = IF 1 > n THEN 0 ELSE n - 1 + 1
  BY <1>1, FS_Interval, Zenon
<1> QED
  BY <1>2

(* A card has cBlock - 5 blocks for files.                                 *)
LEMMA BlocksFinite ==
  /\ IsFiniteSet(Block) /\ Cardinality(Block) = cBlock - 5
  /\ \A S \in SUBSET Block : IsFiniteSet(S) /\ Cardinality(S) \in 0..(cBlock - 5)
<1>1. cBlock \in Nat /\ cBlock > 5
  BY Marks
<1>2. IsFiniteSet(5..(cBlock - 1)) /\ Cardinality(5..(cBlock - 1)) = IF 5 > cBlock - 1 THEN 0 ELSE (cBlock - 1) - 5 + 1
  <2>1. 5 \in Int /\ cBlock - 1 \in Int
    BY <1>1
  <2> QED
    BY <2>1, FS_Interval, Zenon
<1>3. IsFiniteSet(Block) /\ Cardinality(Block) = cBlock - 5
  BY <1>1, <1>2 DEF Block
<1>4. ASSUME NEW S \in SUBSET Block PROVE IsFiniteSet(S) /\ Cardinality(S) \in 0..(cBlock - 5)
  <2>1. IsFiniteSet(S) /\ Cardinality(S) <= Cardinality(Block)
    BY <1>3, FS_Subset
  <2>2. Cardinality(S) \in Nat
    BY <2>1, FS_CardinalityType
  <2> QED
    BY <1>1, <1>3, <2>1, <2>2
<1> QED
  BY <1>3, <1>4

(* In the search of __CARDAllocBlock each block has a turn of its own.     *)
LEMMA Turns ==
  ASSUME NEW last \in 4..(cBlock - 1)
  PROVE  /\ \A b \in Block : Turn(last, b) \in Nat
         /\ \A b, c \in Block : Turn(last, b) = Turn(last, c) => b = c
BY Marks DEF Turn, Block

(* No two free blocks have the same place in the search.                   *)
LEMMA PlacesDiffer ==
  ASSUME NEW fat, fat.last \in 4..(cBlock - 1),
         NEW b \in FreeBlocks(fat.next), NEW c \in FreeBlocks(fat.next), b # c
  PROVE  Place(fat, b) # Place(fat, c)
<1> DEFINE S == FreeBlocks(fat.next)
           upTo(d) == {x \in S : Turn(fat.last, x) <= Turn(fat.last, d)}
<1>1. S \subseteq Block
  BY DEF FreeBlocks
<1> HIDE DEF S
<1>2. \A x \in S : Turn(fat.last, x) \in Nat
  BY <1>1, Turns
<1>3. Turn(fat.last, b) # Turn(fat.last, c) /\ b \in S /\ c \in S
  BY <1>1, Turns DEF S
<1>4. ASSUME NEW x \in S, NEW y \in S, Turn(fat.last, x) < Turn(fat.last, y)
      PROVE  Cardinality(upTo(x)) # Cardinality(upTo(y))
  <2>1. upTo(x) \subseteq upTo(y) /\ y \in upTo(y) /\ y \notin upTo(x)
    BY <1>2, <1>4
  <2>2. upTo(y) \in SUBSET Block
    BY <1>1
  <2> HIDE DEF upTo
  <2>3. IsFiniteSet(upTo(y))
    BY <2>2, BlocksFinite
  <2> QED
    BY <2>1, <2>3, FS_Subset
<1>5. Place(fat, b) = Cardinality(upTo(b)) /\ Place(fat, c) = Cardinality(upTo(c))
  BY DEF Place, S
<1> HIDE DEF upTo
<1>6. Turn(fat.last, b) < Turn(fat.last, c) \/ Turn(fat.last, c) < Turn(fat.last, b)
  BY <1>2, <1>3
<1> QED
  BY <1>3, <1>4, <1>5, <1>6

(* The places of the free blocks are the numbers from one to how many      *)
(* there are, so the nth free block of the search exists, and the first n  *)
(* are n.                                                                  *)
LEMMA PlacesAre ==
  ASSUME NEW fat, fat.last \in 4..(cBlock - 1),
         NEW S, S = FreeBlocks(fat.next), NEW N, N = Cardinality(S)
  PROVE  /\ N \in Nat /\ IsFiniteSet(S) /\ S \subseteq Block
         /\ \A b \in S : Place(fat, b) \in 1..N
         /\ \A k \in 1..N : Nth(fat, k) \in S /\ Place(fat, Nth(fat, k)) = k
         /\ \A b, c \in S : Place(fat, b) = Place(fat, c) => b = c
         /\ \A n \in 0..N : Cardinality({b \in S : Place(fat, b) <= n}) = n
<1>1. S \subseteq Block /\ IsFiniteSet(S) /\ N \in Nat
  <2>1. S \in SUBSET Block
    BY DEF FreeBlocks
  <2> QED
    BY <2>1, BlocksFinite
<1>2. ASSUME NEW b \in S PROVE Place(fat, b) \in 1..N
  <2> DEFINE U == {x \in S : Turn(fat.last, x) <= Turn(fat.last, b)}
  <2>1. U \in SUBSET S /\ b \in U
    BY <1>1, Turns
  <2>2. Place(fat, b) = Cardinality(U)
    BY DEF Place
  <2> HIDE DEF U
  <2>3. IsFiniteSet(U) /\ Cardinality(U) <= N
    BY <1>1, <2>1, FS_Subset
  <2>4. Cardinality(U) \in Nat /\ Cardinality(U) # 0
    BY <2>1, <2>3, FS_CardinalityType, FS_EmptySet
  <2> QED
    BY <1>1, <2>2, <2>3, <2>4
<1>3. \A b, c \in S : Place(fat, b) = Place(fat, c) => b = c
  BY PlacesDiffer
<1> DEFINE f == [b \in S |-> Place(fat, b)]
<1>4. f \in Injection(S, 1..N)
  BY <1>2, <1>3 DEF Injection, IsInjective
<1>5. IsFiniteSet(1..N) /\ Cardinality(1..N) = N
  BY <1>1, Interval
<1>6. f \in Surjection(S, 1..N)
  <2> HIDE DEF f
  <2> QED
    BY <1>4, <1>5, FS_Injection
<1>7. \A k \in 1..N : \E b \in S : Place(fat, b) = k
  BY <1>6 DEF Surjection
<1>8. \A k \in 1..N : Nth(fat, k) \in S /\ Place(fat, Nth(fat, k)) = k
  BY <1>7 DEF Nth
<1>9. ASSUME NEW n \in 0..N PROVE Cardinality({b \in S : Place(fat, b) <= n}) = n
  <2> DEFINE T == {b \in S : Place(fat, b) <= n}
             g == [b \in T |-> Place(fat, b)]
  <2>1. g \in Injection(T, 1..n)
    BY <1>1, <1>2, <1>3 DEF Injection, IsInjective
  <2>2. g \in Surjection(T, 1..n)
    <3>1. \A k \in 1..n : \E b \in T : g[b] = k
      <4> SUFFICES ASSUME NEW k \in 1..n PROVE \E b \in T : g[b] = k
        OBVIOUS
      <4>1. k \in 1..N /\ k <= n
        BY <1>1
      <4>2. PICK b \in S : Place(fat, b) = k
        BY <1>7, <4>1
      <4>3. b \in T /\ g[b] = k
        BY <4>1, <4>2
      <4> QED
        BY <4>3
    <3> QED
      BY <2>1, <3>1 DEF Surjection, Injection
  <2>3. IsFiniteSet(T)
    BY <1>1, FS_Subset
  <2>4. IsFiniteSet(1..n) /\ Cardinality(1..n) = n
    <3>1. n \in Nat
      BY <1>1
    <3> QED
      BY <3>1, Interval
  <2> HIDE DEF g
  <2>5. Cardinality(1..n) = Cardinality(T)
    <3> HIDE DEF T
    <3> QED
      BY <2>1, <2>2, <2>3, FS_Surjection
  <2> QED
    BY <2>4, <2>5
<1> QED
  BY <1>1, <1>2, <1>3, <1>8, <1>9

(* __CARDAllocBlock keeps the number of free blocks right, changes no      *)
(* block that was in use, and links the blocks it takes in the order of    *)
(* the search.                                                             *)
LEMMA AllocatedIs ==
  ASSUME NEW fat \in FatSector, Counted(fat), NEW n \in Nat, n >= 1, n <= fat.free,
         NEW a, a = Allocated(fat, n)
  PROVE  /\ a \in FatSector /\ Counted(a) /\ a.ok = fat.ok /\ a.code = fat.code
         /\ \A b \in Block \ FreeBlocks(fat.next) : a.next[b] = fat.next[b]
         /\ \A k \in 1..n : /\ Nth(fat, k) \in FreeBlocks(fat.next)
                            /\ a.next[Nth(fat, k)] = IF k = n THEN End ELSE Nth(fat, k + 1)
<1> DEFINE S == FreeBlocks(fat.next)
           N == Cardinality(S)
           T == {b \in S : Place(fat, b) <= n}
           Following(b) == IF Place(fat, b) = n THEN End ELSE Nth(fat, Place(fat, b) + 1)
           new == [b \in Block |-> IF b \in T THEN Following(b) ELSE fat.next[b]]
<1>1. /\ N \in Nat /\ IsFiniteSet(S) /\ S \subseteq Block
      /\ \A b \in S : Place(fat, b) \in 1..N
      /\ \A k \in 1..N : Nth(fat, k) \in S /\ Place(fat, Nth(fat, k)) = k
      /\ \A m \in 0..N : Cardinality({b \in S : Place(fat, b) <= m}) = m
  <2>1. fat.last \in 4..(cBlock - 1)
    BY DEF FatSector
  <2> QED
    BY <2>1, PlacesAre
<1>2. fat.free = N /\ n \in 1..N
  BY DEF Counted
<1>3. a = [fat EXCEPT !.next = new, !.free = @ - n, !.last = Nth(fat, n)]
  BY DEF Allocated
<1>4. \A b \in T : Following(b) \in Block \cup {End}
  <2> SUFFICES ASSUME NEW b \in T, Place(fat, b) # n PROVE Nth(fat, Place(fat, b) + 1) \in Block
    OBVIOUS
  <2>1. Place(fat, b) + 1 \in 1..N
    BY <1>1, <1>2
  <2> QED
    BY <1>1, <2>1
<1>5. new \in [Block -> Block \cup {Avail, End}]
  <2> SUFFICES ASSUME NEW b \in Block PROVE new[b] \in Block \cup {Avail, End}
    OBVIOUS
  <2>1. fat.next[b] \in Block \cup {Avail, End}
    BY DEF FatSector
  <2> HIDE DEF Following, T
  <2> QED
    BY <1>4, <2>1
<1>6. FreeBlocks(new) = S \ T
  <2>1. \A b \in Block : new[b] = IF b \in T THEN Following(b) ELSE fat.next[b]
    OBVIOUS
  <2>2. \A b \in Block : b \in S <=> fat.next[b] = Avail
    BY DEF FreeBlocks
  <2> HIDE DEF new, Following
  <2>3. \A b \in T : Following(b) # Avail
    BY <1>4, Marks
  <2> HIDE DEF T, S
  <2> QED
    BY <1>1, <2>1, <2>2, <2>3 DEF FreeBlocks
<1>7. Cardinality(S \ T) = N - n
  <2>1. Cardinality(T) = n /\ T \subseteq S
    BY <1>1, <1>2
  <2>2. S \cap T = T
    BY <2>1
  <2> HIDE DEF T, S
  <2> QED
    BY <1>1, <2>1, <2>2, FS_Difference
<1>8. Nth(fat, n) \in Block /\ Nth(fat, n) \in 4..(cBlock - 1)
  <2>1. Nth(fat, n) \in Block
    BY <1>1, <1>2
  <2> QED
    BY <2>1, Marks DEF Block
<1>9. /\ a.next = new /\ a.free = N - n /\ a.last = Nth(fat, n) /\ a.ok = fat.ok /\ a.code = fat.code
      /\ fat.ok \in BOOLEAN /\ fat.code \in Code /\ DOMAIN a = DOMAIN fat
      /\ a = [ok |-> fat.ok, code |-> fat.code, next |-> new, free |-> N - n, last |-> Nth(fat, n)]
  <2> HIDE DEF new, N
  <2> QED
    BY <1>2, <1>3 DEF FatSector
<1>10. N - n \in Nat
  BY <1>1, <1>2
<1>11. a \in FatSector
  <2> HIDE DEF new, N
  <2> QED
    BY <1>5, <1>8, <1>9, <1>10 DEF FatSector
<1>12. Counted(a)
  <2> HIDE DEF new, N, T, S
  <2> QED
    BY <1>6, <1>7, <1>9 DEF Counted
<1>13. \A b \in Block \ S : a.next[b] = fat.next[b]
  <2> HIDE DEF Following
  <2> QED
    BY <1>9
<1>14. ASSUME NEW k \in 1..n
       PROVE  Nth(fat, k) \in S /\ a.next[Nth(fat, k)] = IF k = n THEN End ELSE Nth(fat, k + 1)
  <2>1. k \in 1..N /\ k <= n
    <3> HIDE DEF N
    <3> QED
      BY <1>1, <1>2
  <2>2. Nth(fat, k) \in S /\ Place(fat, Nth(fat, k)) = k
    BY <1>1, <2>1
  <2>3. Nth(fat, k) \in T /\ Nth(fat, k) \in Block
    BY <1>1, <2>1, <2>2
  <2>4. new[Nth(fat, k)] = Following(Nth(fat, k))
    <3> HIDE DEF Following, T
    <3> QED
      BY <2>3
  <2> HIDE DEF new
  <2> QED
    BY <1>9, <2>2, <2>4
<1> HIDE DEF Following, T, N, new
<1> QED
  BY <1>9, <1>11, <1>12, <1>13, <1>14

(* The chain it makes is good and consists of blocks that were free.       *)
LEMMA AllocatedChain ==
  ASSUME NEW fat \in FatSector, Counted(fat), NEW n \in Nat, n >= 1, n <= fat.free,
         NEW e, e.length = n, e.start = FirstAllocated(fat)
  PROVE  /\ GoodChain(Allocated(fat, n).next, e)
         /\ BlocksOf(Allocated(fat, n).next, e) \subseteq FreeBlocks(fat.next)
         /\ e.start \in Block
<1> DEFINE a == Allocated(fat, n)
           c == Chain(a.next, e)
           S == FreeBlocks(fat.next)
<1>1. \A k \in 1..n : Nth(fat, k) \in S /\ a.next[Nth(fat, k)] = IF k = n THEN End ELSE Nth(fat, k + 1)
  BY AllocatedIs
<1>2. S \subseteq Block
  BY DEF FreeBlocks
<1>3. /\ c[0] = Nth(fat, 1)
      /\ \A k \in 1..n : c[k] = IF c[k - 1] \in Block THEN a.next[c[k - 1]] ELSE None
  BY ChainIs DEF FirstAllocated
<1>4. BlocksOf(a.next, e) = {c[k] : k \in 0..(n - 1)}
  BY DEF BlocksOf
<1> HIDE DEF a, c, S
<1>5. \A k \in 0..(n - 1) : c[k] = Nth(fat, k + 1)
  <2> DEFINE T == {k \in 0..(n - 1) : c[k] # Nth(fat, k + 1)}
  <2> SUFFICES ASSUME T # {} PROVE FALSE
    OBVIOUS
  <2>1. PICK m \in T : \A k \in T : m <= k
    <3>1. T \in SUBSET Nat
      OBVIOUS
    <3> HIDE DEF T
    <3> QED
      BY <3>1, LeastNat
  <2>2. m \in 0..(n - 1) /\ c[m] # Nth(fat, m + 1) /\ m # 0
    BY <1>3, <2>1
  <2>3. m - 1 \in 0..(n - 1) /\ m \in 1..n /\ m # n /\ m - 1 + 1 = m /\ m - 1 < m
    BY <2>2
  <2>4. m - 1 \notin T
    BY <2>1, <2>2, <2>3
  <2>5. c[m - 1] = Nth(fat, m)
    BY <2>3, <2>4
  <2> QED
    BY <1>1, <1>2, <1>3, <2>2, <2>3, <2>5
<1>6. c[n] = End
  <2>1. n - 1 \in 0..(n - 1) /\ n \in 1..n /\ n - 1 + 1 = n
    OBVIOUS
  <2>2. c[n - 1] = Nth(fat, n)
    BY <1>5, <2>1
  <2> QED
    BY <1>1, <1>2, <1>3, <2>1, <2>2
<1>7. BlocksOf(a.next, e) \subseteq S
  <2> SUFFICES ASSUME NEW k \in 0..(n - 1) PROVE c[k] \in S
    BY <1>4
  <2>1. k + 1 \in 1..n
    OBVIOUS
  <2> QED
    BY <1>1, <1>5, <2>1
<1>8. e.start \in Block
  BY <1>1, <1>2 DEF FirstAllocated
<1> QED
  BY <1>2, <1>6, <1>7, <1>8 DEF a, c, S, GoodChain

(* __CARDFreeBlock of a good chain keeps the number of free blocks right,  *)
(* and changes no other block.                                             *)
LEMMA FreedIs ==
  ASSUME NEW fat \in FatSector, Counted(fat), NEW e, e.length \in Nat, GoodChain(fat.next, e),
         NEW a, a = Freed(fat, e)
  PROVE  /\ a \in FatSector /\ Counted(a) /\ a.ok = fat.ok /\ a.code = fat.code
         /\ \A b \in Block \ BlocksOf(fat.next, e) : a.next[b] = fat.next[b]
<1> DEFINE B == BlocksOf(fat.next, e)
           S == FreeBlocks(fat.next)
           new == [b \in Block |-> IF b \in B THEN Avail ELSE fat.next[b]]
<1>1. B \subseteq Block /\ B \cap S = {} /\ IsFiniteSet(B) /\ Cardinality(B) = e.length
  BY GoodChainIs, ChainCount
<1>2. S \in SUBSET Block
  BY DEF FreeBlocks
<1>3. IsFiniteSet(S) /\ Cardinality(S) \in Nat
  BY <1>2, BlocksFinite
<1>4. fat.free = Cardinality(S) /\ fat.ok \in BOOLEAN /\ fat.code \in Code /\ fat.last \in 4..(cBlock - 1)
  BY DEF Counted, FatSector
<1>5. a = [ok |-> fat.ok, code |-> fat.code, next |-> new, free |-> fat.free + e.length, last |-> fat.last]
  <2>1. a = [fat EXCEPT !.next = new, !.free = @ + e.length]
    BY DEF Freed
  <2> HIDE DEF new
  <2> QED
    BY <2>1 DEF FatSector
<1>6. new \in [Block -> Block \cup {Avail, End}]
  <2>1. \A b \in Block : fat.next[b] \in Block \cup {Avail, End}
    BY DEF FatSector
  <2> HIDE DEF B
  <2> QED
    BY <2>1
<1>7. FreeBlocks(new) = S \cup B
  <2> HIDE DEF B
  <2> QED
    BY <1>1 DEF FreeBlocks
<1> HIDE DEF B, S
<1>8. \A b \in Block \ B : new[b] = fat.next[b]
  OBVIOUS
<1> HIDE DEF new
<1>9. Cardinality(S \cup B) = Cardinality(S) + e.length
  <2>1. S \cap B = {}
    BY <1>1
  <2>2. Cardinality(S \cup B) = Cardinality(S) + Cardinality(B) - Cardinality(S \cap B)
    BY <1>1, <1>3, FS_Union
  <2>3. Cardinality(S \cap B) = 0
    BY <2>1, FS_EmptySet
  <2>4. e.length \in Nat
    OBVIOUS
  <2> HIDE DEF Counted
  <2> QED
    BY <1>1, <1>3, <2>2, <2>3, <2>4
<1>10. a \in FatSector
  BY <1>3, <1>4, <1>5, <1>6 DEF FatSector
<1>11. Counted(a)
  <2>1. a.free = fat.free + e.length /\ a.next = new
    BY <1>5
  <2>2. a.free = Cardinality(FreeBlocks(a.next))
    BY <1>4, <1>7, <1>9, <2>1
  <2> QED
    BY <2>2 DEF Counted
<1> QED
  BY <1>5, <1>8, <1>10, <1>11 DEF B

-----------------------------------------------------------------------------
(* Directories and their FAT *)

(* The files that are in use have a length.                                *)
Lengths(files) == \A f \in UsedIn(files) : files[f].length \in Nat

(* A chain is a matter of the start and the length of a file only.         *)
LEMMA ChainOf ==
  ASSUME NEW next, NEW e, NEW e2, e2.start = e.start, e2.length = e.length
  PROVE  /\ Chain(next, e2) = Chain(next, e)
         /\ BlocksOf(next, e2) = BlocksOf(next, e) /\ (GoodChain(next, e2) <=> GoodChain(next, e))
<1>1. Chain(next, e2) = Chain(next, e)
  BY DEF Chain
<1> QED
  BY <1>1 DEF BlocksOf, GoodChain

(* The blocks of all files are those of each.                              *)
LEMMA BlocksAre ==
  ASSUME NEW next, NEW files
  PROVE  /\ \A f \in UsedIn(files) : BlocksOf(next, files[f]) \subseteq AllBlocks(next, files)
         /\ AllBlocks(next, files) = UNION {BlocksOf(next, files[f]) : f \in UsedIn(files)}
BY DEF AllBlocks, UsedIn

(* GoodFiles, in the words used here.                                      *)
LEMMA GoodFilesIs ==
  ASSUME NEW next, NEW files
  PROVE  GoodFiles(next, files) <=>
           /\ \A f \in UsedIn(files) : GoodChain(next, files[f])
           /\ \A f, g \in UsedIn(files) : f # g => BlocksOf(next, files[f]) \cap BlocksOf(next, files[g]) = {}
BY DEF GoodFiles, UsedIn

(* The blocks of good files are blocks of the card that are not free.      *)
LEMMA FilesBlocks ==
  ASSUME NEW next, NEW files, Lengths(files), GoodFiles(next, files)
  PROVE  AllBlocks(next, files) \subseteq Block /\ AllBlocks(next, files) \cap FreeBlocks(next) = {}
<1>1. \A f \in UsedIn(files) : BlocksOf(next, files[f]) \subseteq Block
                              /\ BlocksOf(next, files[f]) \cap FreeBlocks(next) = {}
  BY GoodFilesIs, GoodChainIs DEF Lengths
<1> QED
  BY <1>1, BlocksAre

(* A FAT that agrees with another on the blocks of all files is as good    *)
(* for them.                                                               *)
LEMMA FilesSame ==
  ASSUME NEW next, NEW next2, NEW files, Lengths(files),
         \A b \in AllBlocks(next, files) : next2[b] = next[b]
  PROVE  /\ \A f \in UsedIn(files) : Chain(next2, files[f]) = Chain(next, files[f])
         /\ AllBlocks(next2, files) = AllBlocks(next, files)
         /\ GoodFiles(next2, files) <=> GoodFiles(next, files)
<1>1. ASSUME NEW f \in UsedIn(files)
      PROVE  /\ Chain(next2, files[f]) = Chain(next, files[f])
             /\ BlocksOf(next2, files[f]) = BlocksOf(next, files[f])
             /\ GoodChain(next2, files[f]) <=> GoodChain(next, files[f])
  <2>1. files[f].length \in Nat
    BY DEF Lengths
  <2>2. \A b \in BlocksOf(next, files[f]) : next2[b] = next[b]
    BY BlocksAre
  <2> QED
    BY <2>1, <2>2, ChainSame
<1>2. AllBlocks(next2, files) = AllBlocks(next, files)
  BY <1>1, BlocksAre
<1>3. GoodFiles(next2, files) <=> GoodFiles(next, files)
  BY <1>1, GoodFilesIs
<1> QED
  BY <1>1, <1>2, <1>3

(* The FAT that CARDCheck makes has the chains of all files, and every     *)
(* other block is free and counted as such.                                *)
LEMMA OrphansIs ==
  ASSUME NEW fat \in FatSector, NEW files, Lengths(files), GoodFiles(fat.next, files),
         NEW w, w = WithoutOrphans(fat, files)
  PROVE  /\ w \in FatSector /\ Counted(w) /\ w.ok = fat.ok /\ w.code = fat.code
         /\ \A b \in AllBlocks(fat.next, files) : w.next[b] = fat.next[b]
         /\ w.free + Cardinality(AllBlocks(fat.next, files)) = cBlock - 5
<1> DEFINE A == AllBlocks(fat.next, files)
           new == [n \in Block |-> IF n \in A THEN fat.next[n] ELSE Avail]
<1>1. A \in SUBSET Block /\ A \cap FreeBlocks(fat.next) = {}
  BY FilesBlocks
<1>2. w = [fat EXCEPT !.next = new, !.free = Cardinality(FreeBlocks(new))]
  BY DEF WithoutOrphans
<1> HIDE DEF A
<1>3. \A b \in A : new[b] = fat.next[b]
  BY <1>1
<1>4. new \in [Block -> Block \cup {Avail, End}]
  BY DEF FatSector
<1>5. FreeBlocks(new) = Block \ A
  BY <1>1 DEF FreeBlocks
<1> HIDE DEF new
<1>6. w = [ok |-> fat.ok, code |-> fat.code, next |-> new, free |-> Cardinality(FreeBlocks(new)), last |-> fat.last]
      /\ fat.ok \in BOOLEAN /\ fat.code \in Code /\ fat.last \in 4..(cBlock - 1)
  BY <1>2 DEF FatSector
<1>7. Block \ A \in SUBSET Block
  OBVIOUS
<1>8. Cardinality(Block \ A) \in Nat /\ Cardinality(A) \in Nat
  BY <1>1, <1>7, BlocksFinite
<1>9. Cardinality(Block \ A) = (cBlock - 5) - Cardinality(A)
  <2>1. Block \cap A = A
    BY <1>1
  <2>2. Cardinality(Block \ A) = Cardinality(Block) - Cardinality(Block \cap A)
    BY BlocksFinite, FS_Difference
  <2> QED
    BY <2>1, <2>2, BlocksFinite
<1>10. w \in FatSector
  BY <1>4, <1>5, <1>6, <1>8 DEF FatSector
<1>11. Counted(w)
  BY <1>6 DEF Counted
<1>12. w.free + Cardinality(A) = cBlock - 5
  BY <1>5, <1>6, <1>8, <1>9, Marks
<1> QED
  BY <1>3, <1>6, <1>10, <1>11, <1>12 DEF A

(* A file is added to a directory, with blocks that no file has.           *)
LEMMA FileAdded ==
  ASSUME NEW next, NEW files \in [File -> Entry], NEW f \in File, ~files[f].used, NEW e, e.used,
         GoodFiles(next, files), GoodChain(next, e), BlocksOf(next, e) \cap AllBlocks(next, files) = {}
  PROVE  GoodFiles(next, [files EXCEPT ![f] = e])
<1> DEFINE new == [files EXCEPT ![f] = e]
<1>1. new[f] = e /\ \A g \in File \ {f} : new[g] = files[g]
  OBVIOUS
<1> HIDE DEF new
<1>2. UsedIn(new) = UsedIn(files) \cup {f} /\ f \notin UsedIn(files)
  BY <1>1 DEF UsedIn
<1>3. \A g \in UsedIn(files) : new[g] = files[g]
  BY <1>1, <1>2 DEF UsedIn
<1>4. \A g \in UsedIn(files) : BlocksOf(next, files[g]) \cap BlocksOf(next, e) = {}
  BY BlocksAre
<1>5. \A g \in UsedIn(new) : GoodChain(next, new[g])
  BY <1>1, <1>2, <1>3, GoodFilesIs
<1>6. ASSUME NEW g \in UsedIn(new), NEW h \in UsedIn(new), g # h
      PROVE  BlocksOf(next, new[g]) \cap BlocksOf(next, new[h]) = {}
  <2>1. CASE g = f
    <3>1. h \in UsedIn(files) /\ new[g] = e /\ new[h] = files[h]
      BY <1>1, <1>2, <1>3, <1>6, <2>1
    <3> QED
      BY <1>4, <3>1
  <2>2. CASE h = f
    <3>1. g \in UsedIn(files) /\ new[h] = e /\ new[g] = files[g]
      BY <1>1, <1>2, <1>3, <1>6, <2>2
    <3> QED
      BY <1>4, <3>1
  <2>3. CASE g # f /\ h # f
    <3>1. g \in UsedIn(files) /\ h \in UsedIn(files) /\ new[g] = files[g] /\ new[h] = files[h]
      BY <1>2, <1>3, <2>3
    <3> QED
      BY <1>6, <3>1, GoodFilesIs
  <2> QED
    BY <2>1, <2>2, <2>3
<1>7. GoodFiles(next, new)
  BY <1>5, <1>6, GoodFilesIs
<1> QED
  BY <1>7 DEF new

(* Some files of a directory are left, perhaps by other names: their       *)
(* chains are good and stay.                                               *)
LEMMA FilesLeft ==
  ASSUME NEW next, NEW files, NEW new, UsedIn(new) \subseteq UsedIn(files),
         \A f \in UsedIn(new) : new[f].start = files[f].start /\ new[f].length = files[f].length,
         GoodFiles(next, files)
  PROVE  /\ GoodFiles(next, new)
         /\ \A f \in UsedIn(new) : Chain(next, new[f]) = Chain(next, files[f])
                                   /\ BlocksOf(next, new[f]) = BlocksOf(next, files[f])
         /\ AllBlocks(next, new) \subseteq AllBlocks(next, files)
<1>1. \A f \in UsedIn(new) :
        /\ Chain(next, new[f]) = Chain(next, files[f]) /\ BlocksOf(next, new[f]) = BlocksOf(next, files[f])
        /\ (GoodChain(next, new[f]) <=> GoodChain(next, files[f]))
  BY ChainOf
<1>2. GoodFiles(next, new)
  BY <1>1, GoodFilesIs
<1>3. AllBlocks(next, new) \subseteq AllBlocks(next, files)
  BY <1>1, BlocksAre
<1> QED
  BY <1>1, <1>2, <1>3

-----------------------------------------------------------------------------
(* Check codes and pairs of sectors *)

(* Either copy of a pair is the other of the other.                        *)
LEMMA PairIs ==
  ASSUME NEW pair \in {Dirs, Fats}, NEW s \in pair
  PROVE  /\ Other(s) \in pair /\ Other(Other(s)) = s /\ Other(s) # s /\ pair = {s, Other(s)}
         /\ s \in System /\ Other(s) \in System /\ pair \subseteq System
<1>1. CASE pair = Dirs
  <2>1. s = 1 \/ s = 2
    BY <1>1 DEF Dirs
  <2> QED
    BY <1>1, <2>1 DEF Dirs, Other, System
<1>2. CASE pair = Fats
  <2>1. s = 3 \/ s = 4
    BY <1>2 DEF Fats
  <2> QED
    BY <1>2, <2>1 DEF Fats, Other, System
<1> QED
  BY <1>1, <1>2

(* The sectors are the two pairs, and None is no sector.                   *)
LEMMA Sectors ==
  /\ System = Dirs \cup Fats /\ Dirs \cap Fats = {}
  /\ None \notin System /\ Dirs \subseteq System /\ Fats \subseteq System
  /\ Dirs \in {Dirs, Fats} /\ Fats \in {Dirs, Fats} /\ Garbage.ok = FALSE
  /\ None \notin Dirs /\ None \notin Fats
BY DEF System, Dirs, Fats, None, Garbage

(* Arithmetic of the check codes, which wrap: a copy that is fewer than    *)
(* Half updates ahead of the other is the newer one as __CARDVerify        *)
(* compares them, and Increment takes it one further.                      *)
LEMMA AheadIs ==
  ASSUME Few, NEW a \in Code, NEW b \in Code
  PROVE  /\ Ahead(a, b) \in 0..(2 * Half - 1) /\ Ahead(a, a) = 0
         /\ Ahead(a, b) \in 1..(Half - 1) <=> (a - b \in 1..(Half - 1) \/ a - b < -Half)
         /\ Ahead(a, b) \in 1..(Half - 1) => Ahead(b, a) \notin 1..(Half - 1)
         /\ Gaps \subseteq 1..(Half - 1)
         /\ Increment(a) \in Code
         /\ Ahead(a, b) < 2 * Half - 1 => Ahead(Increment(a), b) = Ahead(a, b) + 1
<1>1. Half \in Nat /\ Half > 0 /\ MaxFaults \in Nat /\ MaxFaults + 1 < Half
  BY CARDAssumption DEF Few
<1>2. a \in Int /\ b \in Int /\ -Half <= a /\ a <= Half - 1 /\ -Half <= b /\ b <= Half - 1
  BY <1>1 DEF Code
<1>3. Ahead(a, b) = IF a >= b THEN a - b ELSE a - b + 2 * Half
  BY DEF Ahead
<1>4. Ahead(b, a) = IF b >= a THEN b - a ELSE b - a + 2 * Half
  BY DEF Ahead
<1>5. Ahead(a, a) = 0
  BY <1>2 DEF Ahead
<1>6. Gaps \subseteq 1..(Half - 1)
  BY <1>1 DEF Gaps
<1>7. Increment(a) = IF a = Half - 1 THEN -Half ELSE a + 1
  BY DEF Increment
<1>8. Ahead(Increment(a), b) = IF Increment(a) >= b THEN Increment(a) - b ELSE Increment(a) - b + 2 * Half
  BY DEF Ahead
<1>9. Increment(a) \in Code
  BY <1>1, <1>2, <1>7 DEF Code
<1>10. Ahead(a, b) \in 0..(2 * Half - 1)
  BY <1>1, <1>2, <1>3
<1>11. Ahead(a, b) \in 1..(Half - 1) <=> (a - b \in 1..(Half - 1) \/ a - b < -Half)
  BY <1>1, <1>2, <1>3
<1>12. Ahead(a, b) \in 1..(Half - 1) => Ahead(b, a) \notin 1..(Half - 1)
  BY <1>1, <1>2, <1>3, <1>4
<1>13. Ahead(a, b) < 2 * Half - 1 => Ahead(Increment(a), b) = Ahead(a, b) + 1
  BY <1>1, <1>2, <1>3, <1>7, <1>8
<1> QED
  BY <1>5, <1>6, <1>9, <1>10, <1>11, <1>12, <1>13

(* The good copies of a pair have a check code.                            *)
Coded(c, pair) == \A s \in pair : c[s].ok => c[s].code \in Code

(* The copy s is good, and ahead of the other by no more updates than may  *)
(* have been made without writing it.                                      *)
IsNewest(c, s) == c[s].ok /\ (c[Other(s)].ok => Ahead(c[s].code, c[Other(s)].code) \in Gaps)

(* Only one copy of a pair can be the newest.                              *)
LEMMA NewestUnique ==
  ASSUME Few, NEW pair \in {Dirs, Fats}, NEW c, Coded(c, pair), NEW s \in pair, IsNewest(c, s)
  PROVE  NewestOf(c, pair) = s
<1> DEFINE o == Other(s)
           Ok(t) == c[t].ok /\ (c[Other(t)].ok => c[t].code - c[Other(t)].code \in 1..(Half - 1)
                                                  \/ c[t].code - c[Other(t)].code < -Half)
<1>1. o \in pair /\ Other(o) = s /\ o # s /\ pair = {s, o}
  BY PairIs
<1>2. c[s].ok /\ c[s].code \in Code /\ (c[o].ok => c[o].code \in Code)
  BY <1>1 DEF Coded, IsNewest
<1> DEFINE a == c[s].code
           b == c[o].code
<1>3. c[o].ok => /\ a \in Code /\ b \in Code
                 /\ (a - b \in 1..(Half - 1) \/ a - b < -Half)
                 /\ ~(b - a \in 1..(Half - 1) \/ b - a < -Half)
  <2> SUFFICES ASSUME c[o].ok
               PROVE  /\ (a - b \in 1..(Half - 1) \/ a - b < -Half)
                      /\ ~(b - a \in 1..(Half - 1) \/ b - a < -Half)
    BY <1>2
  <2>1. a \in Code /\ b \in Code /\ Ahead(a, b) \in Gaps
    BY <1>2 DEF IsNewest
  <2> HIDE DEF a, b
  <2>2. Gaps \subseteq 1..(Half - 1)
    BY <2>1, AheadIs
  <2>3. Ahead(a, b) \in 1..(Half - 1)
    BY <2>1, <2>2
  <2>4. a - b \in 1..(Half - 1) \/ a - b < -Half
    BY <2>1, <2>3, AheadIs
  <2>5. Ahead(b, a) \notin 1..(Half - 1)
    BY <2>1, <2>3, AheadIs
  <2>6. ~(b - a \in 1..(Half - 1) \/ b - a < -Half)
    BY <2>1, <2>5, AheadIs
  <2> QED
    BY <2>4, <2>6
<1>4. Ok(s)
  BY <1>2, <1>3
<1>5. ~Ok(o)
  BY <1>1, <1>2, <1>3
<1>6. NewestOf(c, pair) = CHOOSE t \in pair : Ok(t)
  BY DEF NewestOf
<1> HIDE DEF Ok, o
<1> QED
  BY <1>1, <1>4, <1>5, <1>6

(* One copy of the pairs of a card is.                                     *)
LEMMA NewestIs ==
  ASSUME Few, NEW pair \in {Dirs, Fats}, NEW c, Coded(c, pair), PairOK(c, pair),
         NEW N, N = NewestOf(c, pair)
  PROVE  N \in pair /\ IsNewest(c, N)
<1>1. \E s \in pair : IsNewest(c, s)
  <2>1. CASE \A s \in pair : c[s].ok
    BY <2>1 DEF PairOK, IsNewest
  <2>2. CASE ~\A s \in pair : c[s].ok
    <3>1. PICK s \in pair : c[s].ok
      BY DEF PairOK
    <3>2. ~c[Other(s)].ok
      BY <2>2, <3>1, PairIs
    <3> QED
      BY <3>1, <3>2 DEF IsNewest
  <2> QED
    BY <2>1, <2>2
<1> QED
  BY <1>1, NewestUnique

(* If one copy of a pair is the newest the pair is in order.               *)
LEMMA PairFrom ==
  ASSUME NEW pair \in {Dirs, Fats}, NEW c, NEW s \in pair, IsNewest(c, s)
  PROVE  PairOK(c, pair)
<1>1. Other(s) \in pair
  BY PairIs
<1> QED
  BY <1>1 DEF PairOK, IsNewest

(* What happens to other sectors has no influence on a pair.               *)
LEMMA Untouched ==
  ASSUME NEW pair \in {Dirs, Fats}, NEW c, NEW d, \A s \in pair : d[s] = c[s]
  PROVE  /\ NewestOf(d, pair) = NewestOf(c, pair)
         /\ PairOK(d, pair) <=> PairOK(c, pair)
<1>1. \A s \in pair : d[s] = c[s] /\ d[Other(s)] = c[Other(s)]
  BY PairIs
<1> QED
  BY <1>1 DEF NewestOf, PairOK

(* What the sectors of a card in order are: garbage, or sealed with a      *)
(* code; the newest directory and FAT are good, and checksums tell garbage *)
(* from the rest.                                                          *)
LEMMA SectorsAre ==
  ASSUME Few, NEW c, SectorsOK(c), NEW D, D = NewestOf(c, Dirs), NEW F, F = NewestOf(c, Fats)
  PROVE  /\ D \in Dirs /\ IsNewest(c, D) /\ F \in Fats /\ IsNewest(c, F)
         /\ \A s \in Dirs : c[s] = Garbage \/ DirOK(c[s])
         /\ \A s \in Fats : c[s] = Garbage \/ FatOK(c[s])
         /\ \A s \in System : c[s].ok => c[s].code \in Code
         /\ Coded(c, Dirs) /\ Coded(c, Fats)
         /\ DirOK(c[D]) /\ FatOK(c[F])
         /\ \A s \in System : Valid(c[s], s) <=> c[s].ok
         /\ \A s \in System : c[s] = Garbage <=> ~c[s].ok
<1>1. \A s \in Dirs : c[s] = Garbage \/ (DirOK(c[s]) /\ c[s].ok)
  BY DEF SectorsOK
<1>2. \A s \in Fats : c[s] = Garbage \/ (FatOK(c[s]) /\ c[s].ok)
  BY DEF SectorsOK
<1>3. \A x : DirOK(x) => x.code \in Code
  BY DEF DirOK, DirSector
<1>4. \A x : FatOK(x) => x.code \in Code
  BY DEF FatOK, FatSector
<1>5. \A s \in System : c[s].ok => c[s].code \in Code
  BY <1>1, <1>2, <1>3, <1>4, Sectors
<1>6. Coded(c, Dirs) /\ Coded(c, Fats)
  BY <1>5, Sectors DEF Coded
<1>7. D \in Dirs /\ IsNewest(c, D) /\ F \in Fats /\ IsNewest(c, F)
  BY <1>6, NewestIs, Sectors DEF SectorsOK
<1>8. DirOK(c[D]) /\ FatOK(c[F])
  BY <1>1, <1>2, <1>7, Sectors DEF IsNewest
<1>9. ASSUME NEW s \in System PROVE Valid(c[s], s) <=> c[s].ok
  <2>1. s \in Fats /\ c[s].ok => c[s].free = Cardinality(FreeBlocks(c[s].next))
    BY <1>2, Sectors DEF FatOK, Counted
  <2> QED
    BY <2>1, Sectors DEF Valid
<1>10. \A s \in System : c[s] = Garbage <=> ~c[s].ok
  BY <1>1, <1>2, Sectors
<1> QED
  BY <1>1, <1>2, <1>5, <1>6, <1>7, <1>8, <1>9, <1>10

-----------------------------------------------------------------------------
(* Verification and CARDCheck, of the card *)

(* Both copies pass the checksum.                                          *)
BothValid(w, pair) == \A s \in pair : Valid(w[s], s)

(* Verification of two good copies finds nothing in error and leaves the   *)
(* current one.                                                            *)
LEMMA VerifyGood ==
  ASSUME NEW w, NEW pair, NEW cu, BothValid(w, pair), cu # None
  PROVE  Verify(w, cu, pair) = [bad |-> {}, cur |-> cu, work |-> w]
<1>1. {s \in pair : ~Valid(w[s], s)} = {}
  BY DEF BothValid
<1> QED
  BY <1>1 DEF Verify

(* If one copy is bad, verification finds that and no current one.         *)
LEMMA VerifyBad ==
  ASSUME NEW w, NEW pair \in {Dirs, Fats}, NEW cu, NEW s \in pair, Valid(w[s], s), ~Valid(w[Other(s)], Other(s))
  PROVE  Verify(w, cu, pair) = [bad |-> {Other(s)}, cur |-> None, work |-> w]
<1>1. {t \in pair : ~Valid(w[t], t)} = {Other(s)}
  BY PairIs
<1> QED
  BY <1>1 DEF Verify

(* The codes of a pair are not compared across the wrap (Overflowed).      *)
InOrder(c, pair) ==
  ~\E s \in pair : (\A t \in pair : Valid(c[t], t)) /\ c[s].code - c[Other(s)].code >= Half

(* The older of two good copies on a card is the other one than the        *)
(* newest.                                                                 *)
LEMMA OlderIs ==
  ASSUME Few, NEW pair \in {Dirs, Fats}, NEW c, Coded(c, pair), InOrder(c, pair), BothValid(c, pair),
         NEW N \in pair, IsNewest(c, N), \A s \in pair : c[s].ok,
         NEW w, \A s \in pair : w[s] = c[s]
  PROVE  Older(w, pair) = Other(N)
<1> DEFINE o == Other(N)
           lo == CHOOSE s \in pair : s < Other(s)
<1>1. o \in pair /\ Other(o) = N /\ o # N /\ pair = {N, o} /\ w[N] = c[N] /\ w[o] = c[o]
  BY PairIs
<1>2. lo \in pair
  <2>1. \E s \in pair : s < Other(s)
    BY DEF Dirs, Fats, Other
  <2> QED
    BY <2>1
<1>3. c[N].code \in Code /\ c[o].code \in Code /\ Ahead(c[N].code, c[o].code) \in 1..(Half - 1)
  <2>1. c[N].code \in Code /\ c[o].code \in Code /\ Ahead(c[N].code, c[o].code) \in Gaps
    BY <1>1 DEF Coded, IsNewest
  <2>2. Gaps \subseteq 1..(Half - 1)
    BY ONLY <2>1, Few, AheadIs
  <2> QED
    BY <2>1, <2>2
<1>4. c[N].code - c[o].code \in 1..(Half - 1) \/ c[N].code - c[o].code < -Half
  BY <1>3, AheadIs
<1>5. c[o].code - c[N].code < Half
  BY <1>1, <1>3, CARDAssumption DEF InOrder, BothValid, Code
<1>6. c[N].code \in Int /\ c[o].code \in Int /\ Half \in Nat
  BY <1>3, CARDAssumption DEF Code
<1>7. c[N].code - c[o].code > 0
  BY <1>4, <1>5, <1>6
<1>8. Older(w, pair) = IF w[lo].code - w[Other(lo)].code < 0 THEN lo ELSE Other(lo)
  BY DEF Older
<1> HIDE DEF lo, o
<1>9. lo = N \/ lo = o
  BY <1>1, <1>2
<1>10. CASE lo = N
  <2>1. Other(lo) = o /\ ~(w[lo].code - w[Other(lo)].code < 0)
    BY <1>1, <1>6, <1>7, <1>10 DEF o
  <2> QED
    BY <1>8, <2>1 DEF o
<1>11. CASE lo = o
  <2>1. Other(lo) = N /\ w[lo].code - w[Other(lo)].code < 0
    BY <1>1, <1>6, <1>7, <1>11 DEF o
  <2> QED
    BY <1>8, <1>11, <2>1 DEF o
<1> QED
  BY <1>9, <1>10, <1>11

(* Verification of a pair as it was read from the card: with two good      *)
(* copies the older becomes current and gets the contents of the newest;   *)
(* with one, it is the bad one that is found.                              *)
LEMMA VerifyCard ==
  ASSUME Few, NEW pair \in {Dirs, Fats}, NEW c, Coded(c, pair), InOrder(c, pair),
         \A s \in pair : Valid(c[s], s) <=> c[s].ok,
         NEW N \in pair, IsNewest(c, N),
         NEW w, \A s \in pair : w[s] = c[s],
         NEW v, v = Verify(w, None, pair)
  PROVE  /\ c[Other(N)].ok => v = [bad |-> {}, cur |-> Other(N), work |-> [w EXCEPT ![Other(N)] = c[N]]]
         /\ ~c[Other(N)].ok => v = [bad |-> {Other(N)}, cur |-> None, work |-> w]
<1>1. Other(N) \in pair /\ Other(Other(N)) = N /\ pair = {N, Other(N)} /\ w[N] = c[N] /\ w[Other(N)] = c[Other(N)]
  BY PairIs
<1>2. c[N].ok /\ Valid(w[N], N)
  BY <1>1 DEF IsNewest
<1>3. CASE c[Other(N)].ok
  <2>1. BothValid(c, pair) /\ BothValid(w, pair) /\ \A s \in pair : c[s].ok
    BY <1>1, <1>2, <1>3 DEF BothValid
  <2>2. Older(w, pair) = Other(N)
    BY <2>1, OlderIs
  <2>3. {s \in pair : ~Valid(w[s], s)} = {}
    BY <2>1 DEF BothValid
  <2>4. v = [bad |-> {}, cur |-> Older(w, pair), work |-> [w EXCEPT ![Older(w, pair)] = w[Other(Older(w, pair))]]]
    BY <2>3 DEF Verify
  <2> QED
    BY <1>1, <1>3, <2>2, <2>4
<1>4. CASE ~c[Other(N)].ok
  <2>1. ~Valid(w[Other(N)], Other(N))
    BY <1>1, <1>4
  <2> QED
    BY <1>2, <1>4, <2>1, VerifyBad
<1> QED
  BY <1>3, <1>4

(* The same for both pairs, as a mount does it.                            *)
LEMMA VerifyBothCard ==
  ASSUME Few, NEW c, SectorsOK(c), InOrder(c, Dirs), InOrder(c, Fats),
         NEW D, D = NewestOf(c, Dirs), NEW F, F = NewestOf(c, Fats),
         NEW v, v = VerifyBoth(c, [dir |-> None, fat |-> None])
  PROVE  /\ v.bad = {} <=> c[Other(D)].ok /\ c[Other(F)].ok
         /\ v.cur = [dir |-> IF c[Other(D)].ok THEN Other(D) ELSE None, fat |-> IF c[Other(F)].ok THEN Other(F) ELSE None]
         /\ DOMAIN v.work = System
         /\ v.work[D] = c[D] /\ v.work[Other(D)] = IF c[Other(D)].ok THEN c[D] ELSE c[Other(D)]
         /\ v.work[F] = c[F] /\ v.work[Other(F)] = IF c[Other(F)].ok THEN c[F] ELSE c[Other(F)]
<1> DEFINE N == [dir |-> None, fat |-> None]
           d == Verify(c, None, Dirs)
           f == Verify(d.work, None, Fats)
<1>1. D \in Dirs /\ IsNewest(c, D) /\ F \in Fats /\ IsNewest(c, F) /\ Coded(c, Dirs) /\ Coded(c, Fats)
      /\ DOMAIN c = System /\ (\A s \in System : Valid(c[s], s) <=> c[s].ok)
  BY SectorsAre DEF SectorsOK
<1>2. /\ Other(D) \in Dirs /\ Other(D) # D /\ D \in System /\ Other(D) \in System
      /\ Other(F) \in Fats /\ Other(F) # F /\ F \in System /\ Other(F) \in System
      /\ Dirs \cap Fats = {} /\ \A s \in Dirs : s \in System /\ \A t \in Fats : t \in System
  BY <1>1, PairIs, Sectors
<1>3. /\ c[Other(D)].ok => d = [bad |-> {}, cur |-> Other(D), work |-> [c EXCEPT ![Other(D)] = c[D]]]
      /\ ~c[Other(D)].ok => d = [bad |-> {Other(D)}, cur |-> None, work |-> c]
  <2>1. \A s \in Dirs : Valid(c[s], s) <=> c[s].ok
    BY <1>1, Sectors
  <2>2. Dirs \in {Dirs, Fats}
    OBVIOUS
  <2> HIDE DEF d
  <2>3. d = Verify(c, None, Dirs)
    BY DEF d
  <2> QED
    BY <1>1, <2>1, <2>2, <2>3, VerifyCard
<1>4. /\ d.bad = {} <=> c[Other(D)].ok
      /\ d.cur = IF c[Other(D)].ok THEN Other(D) ELSE None
      /\ DOMAIN d.work = System /\ d.work[D] = c[D]
      /\ d.work[Other(D)] = IF c[Other(D)].ok THEN c[D] ELSE c[Other(D)]
      /\ \A s \in Fats : d.work[s] = c[s]
  <2> HIDE DEF d
  <2>1. CASE c[Other(D)].ok
    BY <1>1, <1>2, <1>3, <2>1
  <2>2. CASE ~c[Other(D)].ok
    BY <1>1, <1>2, <1>3, <2>2
  <2> QED
    BY <2>1, <2>2
<1>5. /\ c[Other(F)].ok => f = [bad |-> {}, cur |-> Other(F), work |-> [d.work EXCEPT ![Other(F)] = c[F]]]
      /\ ~c[Other(F)].ok => f = [bad |-> {Other(F)}, cur |-> None, work |-> d.work]
  <2> DEFINE W == d.work
  <2>1. \A s \in Fats : Valid(c[s], s) <=> c[s].ok
    BY <1>1, Sectors
  <2>2. Fats \in {Dirs, Fats}
    OBVIOUS
  <2>3. f = Verify(W, None, Fats)
    OBVIOUS
  <2> HIDE DEF f, d
  <2>4. \A s \in Fats : W[s] = c[s]
    BY <1>4
  <2>5. F \in Fats /\ IsNewest(c, F) /\ Coded(c, Fats)
    BY <1>1
  <2> HIDE DEF W
  <2>6. /\ c[Other(F)].ok => f = [bad |-> {}, cur |-> Other(F), work |-> [W EXCEPT ![Other(F)] = c[F]]]
        /\ ~c[Other(F)].ok => f = [bad |-> {Other(F)}, cur |-> None, work |-> W]
    BY <2>1, <2>2, <2>3, <2>4, <2>5, VerifyCard
  <2> QED
    BY <2>6 DEF W
<1>6. /\ f.bad = {} <=> c[Other(F)].ok
      /\ f.cur = IF c[Other(F)].ok THEN Other(F) ELSE None
      /\ DOMAIN f.work = System /\ f.work[D] = d.work[D] /\ f.work[Other(D)] = d.work[Other(D)]
      /\ f.work[F] = c[F] /\ f.work[Other(F)] = IF c[Other(F)].ok THEN c[F] ELSE c[Other(F)]
  <2> HIDE DEF f, d
  <2>0. D # Other(F) /\ Other(D) # Other(F) /\ F # Other(F)
    BY <1>1, <1>2
  <2>1. CASE c[Other(F)].ok
    <3>1. f.bad = {} /\ f.cur = Other(F) /\ f.work = [d.work EXCEPT ![Other(F)] = c[F]]
      BY <1>5, <2>1
    <3>2. /\ DOMAIN f.work = System /\ f.work[D] = d.work[D] /\ f.work[Other(D)] = d.work[Other(D)]
          /\ f.work[F] = d.work[F] /\ f.work[Other(F)] = c[F]
      BY <1>1, <1>2, <1>4, <2>0, <3>1
    <3> QED
      BY <1>1, <1>4, <2>1, <3>1, <3>2
  <2>2. CASE ~c[Other(F)].ok
    BY <1>1, <1>2, <1>4, <1>5, <2>0, <2>2
  <2> QED
    BY <2>1, <2>2
<1>7. v = [bad |-> d.bad \cup f.bad, cur |-> [dir |-> d.cur, fat |-> f.cur], work |-> f.work]
  BY DEF VerifyBoth
<1> HIDE DEF d, f
<1> QED
  BY <1>4, <1>6, <1>7

(* What the check of a card starts from: no copy of the pair is in error,  *)
(* or one.                                                                 *)
PairFound(w, cu, pair, N) ==
  \/ cu = Other(N) /\ BothValid(w, pair)
  \/ cu = None /\ Valid(w[N], N) /\ ~Valid(w[Other(N)], Other(N))

(* The copy that counts then.                                              *)
Current(w, cu, N) == IF cu = None THEN w[N] ELSE w[Other(N)]

(* CARDCheck replaces a bad copy by the good one, which becomes current.   *)
LEMMA MendedIs ==
  ASSUME NEW w, DOMAIN w = System, NEW cu, NEW D \in Dirs, NEW F \in Fats, cu = [dir |-> cu.dir, fat |-> cu.fat],
         PairFound(w, cu.dir, Dirs, D), PairFound(w, cu.fat, Fats, F), cu.dir # None \/ cu.fat # None,
         NEW m, m = Mended(VerifyBoth(w, cu))
  PROVE  /\ m.bad \cap Dirs # {} <=> cu.dir = None
         /\ m.bad # {} <=> (cu.dir = None \/ cu.fat = None)
         /\ m.cur = [dir |-> Other(D), fat |-> Other(F)]
         /\ DOMAIN m.work = System /\ m.work[D] = w[D] /\ m.work[F] = w[F]
      /\ m.work[Other(D)] = Current(w, cu.dir, D) /\ m.work[Other(F)] = Current(w, cu.fat, F)
         /\ ~(Cardinality(m.bad) > 1)
<1> DEFINE v == VerifyBoth(w, cu)
           d == Verify(w, cu.dir, Dirs)
           f == Verify(d.work, cu.fat, Fats)
           E == (IF cu.dir = None THEN {Other(D)} ELSE {}) \cup (IF cu.fat = None THEN {Other(F)} ELSE {})
<1>1. /\ Other(D) \in Dirs /\ Other(F) \in Fats /\ Other(D) # Other(F) /\ None \notin Dirs /\ None \notin Fats
      /\ D # Other(D) /\ F # Other(F) /\ D \in System /\ F \in System
      /\ Other(D) \in System /\ Other(F) \in System /\ Other(Other(D)) = D /\ Other(Other(F)) = F
      /\ Other(F) \notin Dirs
      /\ D # Other(F) /\ F # Other(D)
  BY PairIs, Sectors
<1>2. d = [bad |-> IF cu.dir = None THEN {Other(D)} ELSE {}, cur |-> cu.dir, work |-> w]
  <2> HIDE DEF d
  <2>0. d = Verify(w, cu.dir, Dirs)
    BY DEF d
  <2>1. CASE cu.dir = Other(D) /\ BothValid(w, Dirs)
    <3>1. d = [bad |-> {}, cur |-> cu.dir, work |-> w] /\ cu.dir # None
      BY <1>1, <2>0, <2>1, VerifyGood
    <3> QED
      BY <3>1
  <2>2. CASE cu.dir = None /\ Valid(w[D], D) /\ ~Valid(w[Other(D)], Other(D))
    <3>1. d = [bad |-> {Other(D)}, cur |-> None, work |-> w]
      BY <2>0, <2>2, VerifyBad
    <3> QED
      BY <2>2, <3>1
  <2> QED
    BY <2>1, <2>2 DEF PairFound
<1>3. f = [bad |-> IF cu.fat = None THEN {Other(F)} ELSE {}, cur |-> cu.fat, work |-> w]
  <2>0. f = Verify(w, cu.fat, Fats)
    BY <1>2
  <2> HIDE DEF f, d
  <2>1. CASE cu.fat = Other(F) /\ BothValid(w, Fats)
    <3>1. f = [bad |-> {}, cur |-> cu.fat, work |-> w] /\ cu.fat # None
      BY <1>1, <2>0, <2>1, VerifyGood
    <3> QED
      BY <3>1
  <2>2. CASE cu.fat = None /\ Valid(w[F], F) /\ ~Valid(w[Other(F)], Other(F))
    <3>1. f = [bad |-> {Other(F)}, cur |-> None, work |-> w]
      BY <2>0, <2>2, VerifyBad
    <3> QED
      BY <2>2, <3>1
  <2> QED
    BY <2>1, <2>2 DEF PairFound
<1>4. v = [bad |-> d.bad \cup f.bad, cur |-> [dir |-> d.cur, fat |-> f.cur], work |-> f.work]
  BY DEF VerifyBoth
<1> HIDE DEF v, d, f
<1>5. v = [bad |-> E, cur |-> cu, work |-> w]
  BY <1>2, <1>3, <1>4
<1>6. m = Mended(v)
  BY DEF v
<1>7. /\ m.bad = E
      /\ m.cur = [dir |-> Other(D), fat |-> Other(F)] /\ ~(Cardinality(E) > 1)
      /\ DOMAIN m.work = System /\ m.work[D] = w[D] /\ m.work[F] = w[F]
      /\ m.work[Other(D)] = Current(w, cu.dir, D) /\ m.work[Other(F)] = Current(w, cu.fat, F)
  <2>1. CASE cu.dir # None /\ cu.fat # None
    <3>1. E = {} /\ cu.dir = Other(D) /\ cu.fat = Other(F)
      BY <2>1 DEF PairFound
    <3>2. Cardinality(E) = 0
      BY <3>1, FS_EmptySet
    <3>3. Current(w, cu.dir, D) = w[Other(D)] /\ Current(w, cu.fat, F) = w[Other(F)]
      BY <2>1 DEF Current
    <3> HIDE DEF E
    <3>4. m = v
      BY <1>5, <1>6, <3>2 DEF Mended
    <3> QED
      BY <1>1, <1>5, <3>1, <3>2, <3>3, <3>4
  <2>2. CASE cu.dir = None
    <3>1. E = {Other(D)} /\ cu.fat = Other(F) /\ cu.fat # None
      BY <2>2 DEF PairFound
    <3>2. Cardinality(E) = 1
      BY <3>1, FS_Singleton
    <3>3. Current(w, cu.dir, D) = w[D] /\ Current(w, cu.fat, F) = w[Other(F)]
      BY <2>2, <3>1 DEF Current
    <3> HIDE DEF E
    <3>4. (CHOOSE s \in v.bad : TRUE) = Other(D)
      BY <1>5, <3>1
    <3>5. m = [v EXCEPT !.cur = AsCurrent(@, Other(D)), !.work = [@ EXCEPT ![Other(D)] = v.work[Other(Other(D))]]]
      BY <1>5, <1>6, <3>2, <3>4 DEF Mended
    <3>6. AsCurrent(cu, Other(D)) = [cu EXCEPT !.dir = Other(D)]
      BY <1>1 DEF AsCurrent
    <3>7. [cu EXCEPT !.dir = Other(D)] = [dir |-> Other(D), fat |-> Other(F)]
      BY <3>1
    <3>8. m.bad = E /\ m.cur = AsCurrent(cu, Other(D)) /\ m.work = [w EXCEPT ![Other(D)] = w[D]]
      BY <1>1, <1>5, <3>5
    <3>9. /\ DOMAIN m.work = System /\ m.work[D] = w[D] /\ m.work[F] = w[F]
          /\ m.work[Other(D)] = w[D] /\ m.work[Other(F)] = w[Other(F)]
      BY <1>1, <3>8
    <3> QED
      BY <3>2, <3>3, <3>6, <3>7, <3>8, <3>9
  <2>3. CASE cu.fat = None
    <3>1. E = {Other(F)} /\ cu.dir = Other(D) /\ cu.dir # None
      BY <2>3 DEF PairFound
    <3>2. Cardinality(E) = 1
      BY <3>1, FS_Singleton
    <3>3. Current(w, cu.dir, D) = w[Other(D)] /\ Current(w, cu.fat, F) = w[F]
      BY <2>3, <3>1 DEF Current
    <3> HIDE DEF E
    <3>4. (CHOOSE s \in v.bad : TRUE) = Other(F)
      BY <1>5, <3>1
    <3>5. m = [v EXCEPT !.cur = AsCurrent(@, Other(F)), !.work = [@ EXCEPT ![Other(F)] = v.work[Other(Other(F))]]]
      BY <1>5, <1>6, <3>2, <3>4 DEF Mended
    <3>6. AsCurrent(cu, Other(F)) = [cu EXCEPT !.fat = Other(F)]
      BY <1>1 DEF AsCurrent
    <3>7. [cu EXCEPT !.fat = Other(F)] = [dir |-> Other(D), fat |-> Other(F)]
      BY <3>1
    <3>8. m.bad = E /\ m.cur = AsCurrent(cu, Other(F)) /\ m.work = [w EXCEPT ![Other(F)] = w[F]]
      BY <1>1, <1>5, <3>5
    <3>9. /\ DOMAIN m.work = System /\ m.work[D] = w[D] /\ m.work[F] = w[F]
          /\ m.work[Other(D)] = w[Other(D)] /\ m.work[Other(F)] = w[F]
      BY <1>1, <3>8
    <3> QED
      BY <3>2, <3>3, <3>6, <3>7, <3>8, <3>9
  <2> HIDE DEF E
  <2> QED
    BY <2>1, <2>2, <2>3
<1>8. /\ m.bad \cap Dirs # {} <=> cu.dir = None
      /\ m.bad # {} <=> (cu.dir = None \/ cu.fat = None)
  <2>1. m.bad = E
    BY <1>7
  <2>2. CASE cu.dir = None
    BY <1>1, <2>1, <2>2
  <2>3. CASE cu.dir # None
    BY <1>1, <2>1, <2>3
  <2> QED
    BY <2>2, <2>3
<1> QED
  BY <1>7, <1>8

(* CARDCheck of files that are good: it writes the directory if that was   *)
(* mended, else the FAT if that was mended or had blocks of no file, and   *)
(* else nothing.                                                           *)
LEMMA CheckedIs ==
  ASSUME NEW w, DOMAIN w = System, NEW cu, NEW D \in Dirs, NEW F \in Fats, cu = [dir |-> cu.dir, fat |-> cu.fat],
         PairFound(w, cu.dir, Dirs, D), PairFound(w, cu.fat, Fats, F), cu.dir # None \/ cu.fat # None,
         NEW x, x = Current(w, cu.dir, D), NEW y, y = Current(w, cu.fat, F),
         GoodFiles(y.next, x.files), NEW fat, fat = WithoutOrphans(y, x.files),
         NEW r, r = Checked(w, cu)
  PROVE  /\ r.update = (IF cu.dir = None THEN "dir" ELSE IF cu.fat = None \/ fat # y THEN "fat" ELSE "none")
         /\ r.cur = [dir |-> Other(D), fat |-> Other(F)]
         /\ DOMAIN r.work = System
         /\ r.work[D] = w[D] /\ r.work[Other(D)] = x /\ r.work[F] = fat /\ r.work[Other(F)] = fat
<1> DEFINE m == Mended(VerifyBoth(w, cu))
<1>1. /\ Other(D) \in Dirs /\ Other(F) \in Fats /\ Other(D) # Other(F) /\ Other(Other(F)) = F
      /\ Other(D) \in System /\ Other(F) \in System /\ D \in System /\ F \in System
      /\ Other(F) \notin Dirs /\ Other(D) # D /\ Other(F) # F /\ D # F
      /\ D # Other(F) /\ F # Other(D)
  BY PairIs, Sectors
<1> HIDE DEF m
<1>2. /\ m.bad \cap Dirs # {} <=> cu.dir = None
      /\ m.bad # {} <=> (cu.dir = None \/ cu.fat = None)
      /\ m.cur = [dir |-> Other(D), fat |-> Other(F)]
      /\ DOMAIN m.work = System /\ m.work[D] = w[D] /\ m.work[F] = w[F]
      /\ m.work[Other(D)] = x /\ m.work[Other(F)] = y
      /\ ~(Cardinality(m.bad) > 1)
  <2>1. m = Mended(VerifyBoth(w, cu))
    BY DEF m
  <2>2. /\ m.bad \cap Dirs # {} <=> cu.dir = None
        /\ m.bad # {} <=> (cu.dir = None \/ cu.fat = None)
        /\ m.cur = [dir |-> Other(D), fat |-> Other(F)]
        /\ DOMAIN m.work = System /\ m.work[D] = w[D] /\ m.work[F] = w[F]
      /\ m.work[Other(D)] = Current(w, cu.dir, D) /\ m.work[Other(F)] = Current(w, cu.fat, F)
        /\ ~(Cardinality(m.bad) > 1)
    BY <2>1, MendedIs
  <2> QED
    BY <2>2
<1>3. m.work[Other(F)] = y /\ m.work[Other(D)] = x /\ m.work[D] = w[D] /\ DOMAIN m.work = System
  BY <1>1, <1>2
<1>6. r = FilesChecked(m)
  BY DEF Checked, m
<1>7. r = [update |-> IF m.bad \cap Dirs # {} THEN "dir"
                      ELSE IF m.bad # {} \/ fat # y THEN "fat" ELSE "none",
           cur |-> m.cur,
           work |-> [m.work EXCEPT ![Other(F)] = fat, ![F] = fat]]
  BY <1>1, <1>2, <1>3, <1>6 DEF FilesChecked
<1>8. r.work = [m.work EXCEPT ![Other(F)] = fat, ![F] = fat] /\ r.cur = m.cur
      /\ r.update = IF m.bad \cap Dirs # {} THEN "dir" ELSE IF m.bad # {} \/ fat # y THEN "fat" ELSE "none"
  BY <1>7
<1> QED
  BY <1>1, <1>2, <1>3, <1>8

(* One and another are two.                                                *)
LEMMA OneMore ==
  ASSUME NEW S, NEW x, IsFiniteSet(S), Cardinality(S) = 1, x \notin S
  PROVE  Cardinality(S \cup {x}) = 2
<1>1. Cardinality(S \cup {x}) = Cardinality(S) + 1
  BY FS_AddElement
<1> QED
  BY <1>1

(* CARDCheck of two pairs with a bad copy each gives up.                   *)
LEMMA CheckedBroken ==
  ASSUME NEW w, NEW D \in Dirs, NEW F \in Fats, NEW cu, cu = [dir |-> None, fat |-> None],
         PairFound(w, None, Dirs, D), PairFound(w, None, Fats, F)
  PROVE  Checked(w, cu) = [update |-> "broken", cur |-> cu, work |-> w]
<1> DEFINE v == VerifyBoth(w, cu)
<1>1. Other(D) \in Dirs /\ Other(F) \in Fats /\ None \notin Dirs /\ None \notin Fats /\ Other(D) # Other(F)
  BY PairIs, Sectors
<1>2. Verify(w, None, Dirs) = [bad |-> {Other(D)}, cur |-> None, work |-> w]
  BY <1>1, VerifyBad DEF PairFound
<1>3. Verify(w, None, Fats) = [bad |-> {Other(F)}, cur |-> None, work |-> w]
  BY <1>1, VerifyBad DEF PairFound
<1>4. v = [bad |-> {Other(D)} \cup {Other(F)}, cur |-> cu, work |-> w]
  <2> DEFINE a == Verify(w, None, Dirs)
             b == Verify(w, None, Fats)
  <2>1. a.bad = {Other(D)} /\ a.cur = None /\ a.work = w
    BY <1>2
  <2>2. b.bad = {Other(F)} /\ b.cur = None /\ b.work = w
    BY <1>3
  <2>3. cu.dir = None /\ cu.fat = None
    OBVIOUS
  <2>4. v = [bad |-> a.bad \cup b.bad, cur |-> [dir |-> a.cur, fat |-> b.cur], work |-> b.work]
    BY <2>1, <2>3 DEF VerifyBoth
  <2> HIDE DEF a, b, v
  <2> QED
    BY <2>1, <2>2, <2>4
<1>5. Cardinality(v.bad) = 2
  <2>1. IsFiniteSet({Other(D)}) /\ Cardinality({Other(D)}) = 1 /\ Other(F) \notin {Other(D)}
    BY <1>1, FS_Singleton
  <2>2. Cardinality({Other(D)} \cup {Other(F)}) = 2
    BY <2>1, OneMore
  <2> HIDE DEF v
  <2> QED
    BY <1>4, <2>2
<1> HIDE DEF v
<1>6. Mended(v) = v
  BY <1>5 DEF Mended
<1>7. FilesChecked(v) = [update |-> "broken", cur |-> cu, work |-> w]
  BY <1>4, <1>5 DEF FilesChecked
<1> QED
  BY <1>6, <1>7 DEF Checked, v

(* What was sealed passes its checksum.                                    *)
LEMMA SealedIsValid ==
  ASSUME NEW x, NEW s
  PROVE  /\ x.ok /\ s \in Dirs => Valid(x, s)
         /\ x.ok /\ FatOK(x) => Valid(x, s)
<1>1. s \in Dirs => s \notin Fats
  BY Sectors
<1>2. FatOK(x) => x.free = Cardinality(FreeBlocks(x.next))
  BY DEF FatOK, Counted
<1> QED
  BY <1>1, <1>2 DEF Valid

-----------------------------------------------------------------------------
(* Candidates: the directories and FATs that may be the newest *)

(* Two FATs with the same chains show the same files.                      *)
LEMMA FilesOfSame ==
  ASSUME NEW x, NEW y, NEW z, Same(x, y, z)
  PROVE  FilesOf(x, y) = FilesOf(x, z)
BY DEF FilesOf, Same, UsedIn

(* What the files are does not depend on the seal of a directory.          *)
LEMMA SameFiles ==
  ASSUME NEW x, NEW x2, x2.files = x.files
  PROVE  /\ \A y : FilesOf(x2, y) = FilesOf(x, y) /\ (Fits(x2, y) <=> Fits(x, y))
         /\ \A y, z : Same(x2, y, z) <=> Same(x, y, z)
BY DEF FilesOf, Fits, Same

(* The files of a directory have lengths.                                  *)
LEMMA LengthsAre ==
  ASSUME NEW x \in DirSector
  PROVE  Lengths(x.files) /\ x.files \in [File -> Entry]
BY DEF DirSector, Lengths, UsedIn, Entry

(* The FAT that CARDCheck makes is good, and as good for the files as      *)
(* before.                                                                 *)
LEMMA OrphansFit ==
  ASSUME NEW x \in DirSector, NEW y, FatOK(y), Fits(x, y), NEW w, w = WithoutOrphans(y, x.files)
  PROVE  /\ FatOK(w) /\ w.ok = y.ok /\ w.code = y.code
         /\ \A b \in AllBlocks(y.next, x.files) : w.next[b] = y.next[b]
         /\ Fits(x, w) /\ Same(x, w, y)
         /\ w.free + Cardinality(AllBlocks(w.next, x.files)) = cBlock - 5
<1>1. Lengths(x.files) /\ GoodFiles(y.next, x.files) /\ y \in FatSector
  BY LengthsAre DEF FatOK, Fits
<1>2. /\ w \in FatSector /\ Counted(w) /\ w.ok = y.ok /\ w.code = y.code
      /\ \A b \in AllBlocks(y.next, x.files) : w.next[b] = y.next[b]
      /\ w.free + Cardinality(AllBlocks(y.next, x.files)) = cBlock - 5
  BY <1>1, OrphansIs
<1>3. /\ \A f \in UsedIn(x.files) : Chain(w.next, x.files[f]) = Chain(y.next, x.files[f])
      /\ AllBlocks(w.next, x.files) = AllBlocks(y.next, x.files)
      /\ GoodFiles(w.next, x.files) <=> GoodFiles(y.next, x.files)
  BY <1>1, <1>2, FilesSame
<1> QED
  BY <1>1, <1>2, <1>3 DEF FatOK, Fits, Same

(* If the newest directory fits the newest FAT, a mount and CARDCheck find *)
(* exactly its files, in blocks of their own, with all others free.        *)
LEMMA Recovers ==
  ASSUME Few, SectorsOK(card), Fits(DirIn(card), FatIn(card)),
         ~Overflowed(Dirs), ~Overflowed(Fats), ~(BadCopy(Dirs) /\ BadCopy(Fats))
  PROVE  FoundWhole(Recovered)
<1> DEFINE D == NewestOf(card, Dirs)
           F == NewestOf(card, Fats)
           v == VerifyBoth(card, [dir |-> None, fat |-> None])
           r == Checked(v.work, v.cur)
           x == card[D]
           y == card[F]
           fat == WithoutOrphans(y, x.files)
<1>1. /\ D \in Dirs /\ IsNewest(card, D) /\ F \in Fats /\ IsNewest(card, F)
      /\ DirOK(x) /\ FatOK(y)
      /\ \A s \in System : Valid(card[s], s) <=> card[s].ok
  BY SectorsAre
<1>2. InOrder(card, Dirs) /\ InOrder(card, Fats)
  BY DEF Overflowed, InOrder
<1>3. Fits(x, y)
  BY DEF DirIn, FatIn
<1>4. Newest(Dirs) = D /\ Newest(Fats) = F
  BY DEF Newest, NewestOf
<1> HIDE DEF D, F
<1>5. /\ Other(D) \in Dirs /\ Other(F) \in Fats /\ Dirs = {D, Other(D)} /\ Fats = {F, Other(F)}
      /\ x.ok /\ y.ok /\ D \in System /\ F \in System /\ Other(D) \in System /\ Other(F) \in System
      /\ None \notin Dirs /\ None \notin Fats
  BY <1>1, PairIs, Sectors DEF IsNewest
<1>6. card[Other(D)].ok \/ card[Other(F)].ok
  BY <1>5 DEF BadCopy
<1>7. /\ v.cur = [dir |-> IF card[Other(D)].ok THEN Other(D) ELSE None, fat |-> IF card[Other(F)].ok THEN Other(F) ELSE None]
      /\ DOMAIN v.work = System
      /\ v.work[D] = card[D] /\ v.work[Other(D)] = IF card[Other(D)].ok THEN card[D] ELSE card[Other(D)]
      /\ v.work[F] = card[F] /\ v.work[Other(F)] = IF card[Other(F)].ok THEN card[F] ELSE card[Other(F)]
  <2> HIDE DEF v, x, y
  <2>1. v = VerifyBoth(card, [dir |-> None, fat |-> None]) /\ D = NewestOf(card, Dirs) /\ F = NewestOf(card, Fats)
    BY DEF v, D, F
  <2> QED
    BY <1>2, <2>1, VerifyBothCard
<1> HIDE DEF v
<1>8. /\ PairFound(v.work, v.cur.dir, Dirs, D) /\ x = Current(v.work, v.cur.dir, D)
  <2>1. v.work[D] = x /\ Valid(x, D) /\ Valid(x, Other(D))
    BY <1>1, <1>5, <1>7, SealedIsValid
  <2> HIDE DEF x
  <2>2. CASE card[Other(D)].ok
    <3>1. v.work[Other(D)] = x /\ v.cur.dir = Other(D)
      BY <1>7, <2>2 DEF x
    <3> QED
      BY <1>5, <2>1, <3>1 DEF PairFound, BothValid, Current
  <2>3. CASE ~card[Other(D)].ok
    <3>1. v.work[Other(D)] = card[Other(D)] /\ v.cur.dir = None /\ ~Valid(card[Other(D)], Other(D))
      BY <1>1, <1>5, <1>7, <2>3
    <3> QED
      BY <1>5, <2>1, <3>1 DEF PairFound, Current
  <2> QED
    BY <2>2, <2>3
<1>9. /\ PairFound(v.work, v.cur.fat, Fats, F) /\ y = Current(v.work, v.cur.fat, F)
  <2>1. v.work[F] = y /\ Valid(y, F) /\ Valid(y, Other(F))
    BY <1>1, <1>5, <1>7, SealedIsValid
  <2> HIDE DEF y
  <2>2. CASE card[Other(F)].ok
    <3>1. v.work[Other(F)] = y /\ v.cur.fat = Other(F)
      BY <1>7, <2>2 DEF y
    <3> QED
      BY <1>5, <2>1, <3>1 DEF PairFound, BothValid, Current
  <2>3. CASE ~card[Other(F)].ok
    <3>1. v.work[Other(F)] = card[Other(F)] /\ v.cur.fat = None /\ ~Valid(card[Other(F)], Other(F))
      BY <1>1, <1>5, <1>7, <2>3
    <3> QED
      BY <1>5, <2>1, <3>1 DEF PairFound, Current
  <2> QED
    BY <2>2, <2>3
<1>10. v.cur = [dir |-> v.cur.dir, fat |-> v.cur.fat] /\ (v.cur.dir # None \/ v.cur.fat # None)
  BY <1>5, <1>6, <1>7
<1> HIDE DEF x, y
<1>11. /\ r.update \in {"dir", "fat", "none"} /\ r.cur = [dir |-> Other(D), fat |-> Other(F)]
       /\ r.work[Other(D)] = x /\ r.work[Other(F)] = fat
  <2>1. GoodFiles(y.next, x.files)
    BY <1>3 DEF Fits
  <2>2. r = Checked(v.work, v.cur) /\ fat = WithoutOrphans(y, x.files)
    OBVIOUS
  <2> HIDE DEF r, fat
  <2>3. /\ r.update = (IF v.cur.dir = None THEN "dir" ELSE IF v.cur.fat = None \/ fat # y THEN "fat" ELSE "none")
        /\ r.cur = [dir |-> Other(D), fat |-> Other(F)]
        /\ r.work[Other(D)] = x /\ r.work[Other(F)] = fat
    BY <1>1, <1>7, <1>8, <1>9, <1>10, <2>1, <2>2, CheckedIs
  <2>4. r.update \in {"dir", "fat", "none"}
    BY <2>3
  <2> QED
    BY <2>3, <2>4
<1>12. /\ FatOK(fat) /\ Fits(x, fat) /\ Same(x, fat, y)
       /\ fat.free + Cardinality(AllBlocks(fat.next, x.files)) = cBlock - 5
  <2>1. x \in DirSector
    BY <1>1 DEF DirOK
  <2> HIDE DEF fat
  <2>2. fat = WithoutOrphans(y, x.files)
    BY DEF fat
  <2> QED
    BY <1>1, <1>3, <2>1, <2>2, OrphansFit
<1> HIDE DEF r, fat
<1>13. Recovered = r
  BY DEF Recovered, r, v
<1>14. OnCard(Newest(Dirs)) = FilesOf(x, y)
  BY <1>4 DEF OnCard, x, y
<1>15. FilesOf(x, fat) = FilesOf(x, y)
  BY <1>12, FilesOfSame
<1>16. \A f, g \in {h \in File : x.files[h].used} : x.files[f].name = x.files[g].name => f = g
  BY <1>1 DEF DirOK, GoodEntries, UsedIn
<1>17. r.work[r.cur.dir] = x /\ r.work[r.cur.fat] = fat /\ r.update # "broken"
  BY <1>11
<1> QED
  BY <1>12, <1>13, <1>14, <1>15, <1>16, <1>17 DEF FoundWhole

(* Candidates that go together show the same files, whichever FAT the card *)
(* has.                                                                    *)
LEMMA FilesOfTogether ==
  ASSUME NEW ds, NEW fs, NEW m, Together(ds, fs, m), NEW x \in ds, NEW y \in fs
  PROVE  FilesOf(x, y) = FilesOf(x, m)
BY FilesOfSame DEF Together

(* Directories with some of the files of candidates are candidates too: a  *)
(* deletion or a new name.                                                 *)
LEMMA DirsLeft ==
  ASSUME NEW ds, NEW fs, NEW m, Together(ds, fs, m), NEW ds2,
         \A x2 \in ds2 : \E x \in ds : /\ UsedIn(x2.files) \subseteq UsedIn(x.files)
                                       /\ \A f \in UsedIn(x2.files) : /\ x2.files[f].start = x.files[f].start
                                                                      /\ x2.files[f].length = x.files[f].length
  PROVE  Together(ds2, fs, m)
<1> SUFFICES ASSUME NEW x2 \in ds2, NEW y \in fs PROVE Fits(x2, y) /\ Same(x2, y, m)
  BY DEF Together
<1>1. PICK x \in ds : /\ UsedIn(x2.files) \subseteq UsedIn(x.files)
                      /\ \A f \in UsedIn(x2.files) : /\ x2.files[f].start = x.files[f].start
                                                     /\ x2.files[f].length = x.files[f].length
  OBVIOUS
<1>2. GoodFiles(y.next, x.files) /\ \A f \in UsedIn(x.files) : Chain(y.next, x.files[f]) = Chain(m.next, x.files[f])
  BY DEF Together, Fits, Same
<1>3. GoodFiles(y.next, x2.files)
  BY <1>1, <1>2, FilesLeft
<1>4. ASSUME NEW f \in UsedIn(x2.files) PROVE Chain(y.next, x2.files[f]) = Chain(m.next, x2.files[f])
  <2>1. /\ Chain(y.next, x2.files[f]) = Chain(y.next, x.files[f])
        /\ Chain(m.next, x2.files[f]) = Chain(m.next, x.files[f])
    BY <1>1, ChainOf
  <2> QED
    BY <1>1, <1>2, <2>1
<1> QED
  BY <1>3, <1>4 DEF Fits, Same

(* A FAT that differs only in blocks of no candidate file is a candidate   *)
(* too: an allocation, or blocks of a deleted file.                        *)
LEMMA FatChanged ==
  ASSUME NEW ds, NEW fs, NEW m \in fs, Together(ds, fs, m), \A x \in ds : Lengths(x.files),
         NEW n, \A x \in ds : \A b \in AllBlocks(m.next, x.files) : n.next[b] = m.next[b],
         NEW fs2, fs2 \subseteq fs \cup {n}
  PROVE  Together(ds, fs2, n)
<1> SUFFICES ASSUME NEW x \in ds, NEW y \in fs2 PROVE Fits(x, y) /\ Same(x, y, n)
  BY DEF Together
<1>1. /\ \A f \in UsedIn(x.files) : Chain(n.next, x.files[f]) = Chain(m.next, x.files[f])
      /\ GoodFiles(n.next, x.files) <=> GoodFiles(m.next, x.files)
  BY FilesSame
<1>2. Fits(x, m)
  BY DEF Together
<1>3. CASE y = n
  BY <1>1, <1>2, <1>3 DEF Fits, Same
<1>4. CASE y \in fs
  <2>1. Fits(x, y) /\ Same(x, y, m)
    BY <1>4 DEF Together
  <2> QED
    BY <1>1, <2>1 DEF Same
<1> QED
  BY <1>3, <1>4

(* Fewer candidates go together if more do.                                *)
LEMMA FewerTogether ==
  ASSUME NEW ds, NEW fs, NEW m, Together(ds, fs, m), NEW ds2, ds2 \subseteq ds, NEW fs2, fs2 \subseteq fs
  PROVE  Together(ds2, fs2, m)
BY DEF Together

-----------------------------------------------------------------------------
(* Sectors on the card *)

(* What may reach a sector: garbage, or a sealed directory or FAT that is  *)
(* a few updates ahead of the other copy.                                  *)
Writable(c, s, x) ==
  \/ x = Garbage
  \/ /\ x.ok /\ (s \in Dirs => DirOK(x)) /\ (s \in Fats => FatOK(x))
     /\ Ahead(x.code, c[Other(s)].code) \in Gaps

(* A function changed at s.                                                *)
With(f, s, x) == [f EXCEPT ![s] = x]

(* If the other copy is good, any of this leaves a card whose sectors are  *)
(* in order, and makes the sector the newest if it is good and the other   *)
(* one if not.                                                             *)
LEMMA CardStep ==
  ASSUME Few, NEW c, SectorsOK(c), NEW s \in System, c[Other(s)].ok, NEW x, Writable(c, s, x),
         NEW d, d = With(c, s, x)
  PROVE  /\ SectorsOK(d) /\ d[s] = x /\ \A t \in System \ {s} : d[t] = c[t]
         /\ \A pair \in {Dirs, Fats} :
              NewestOf(d, pair) = IF s \in pair THEN IF x.ok THEN s ELSE Other(s) ELSE NewestOf(c, pair)
<1>1. DOMAIN c = System /\ DOMAIN d = System /\ d[s] = x /\ \A t \in System \ {s} : d[t] = c[t]
  BY DEF SectorsOK, With
<1>2. /\ \A t \in Dirs : d[t] = Garbage \/ (DirOK(d[t]) /\ d[t].ok)
      /\ \A t \in Fats : d[t] = Garbage \/ (FatOK(d[t]) /\ d[t].ok)
  BY <1>1, Sectors DEF SectorsOK, Writable
<1>3. ASSUME NEW pair \in {Dirs, Fats}, s \in pair
      PROVE  PairOK(d, pair) /\ NewestOf(d, pair) = IF x.ok THEN s ELSE Other(s)
  <2>1. Other(s) \in pair /\ Other(s) # s /\ Other(Other(s)) = s /\ pair = {s, Other(s)} /\ pair \subseteq System
    BY <1>3, PairIs
  <2>2. d[Other(s)] = c[Other(s)] /\ d[Other(s)].ok
    BY <1>1, <2>1
  <2>3. Coded(d, pair)
    <3>1. \A t \in Dirs : d[t].ok => d[t].code \in Code
      BY <1>2, Sectors DEF DirOK, DirSector
    <3>2. \A t \in Fats : d[t].ok => d[t].code \in Code
      BY <1>2, Sectors DEF FatOK, FatSector
    <3> QED
      BY <3>1, <3>2 DEF Coded
  <2>4. CASE x = Garbage
    <3>1. IsNewest(d, Other(s)) /\ ~x.ok
      BY <1>1, <2>1, <2>2, <2>4, Sectors DEF IsNewest
    <3> QED
      BY <2>1, <2>3, <3>1, NewestUnique, PairFrom
  <2>5. CASE x.ok /\ Ahead(x.code, c[Other(s)].code) \in Gaps
    <3>1. IsNewest(d, s)
      BY <1>1, <2>2, <2>5 DEF IsNewest
    <3> QED
      BY <1>3, <2>3, <2>5, <3>1, NewestUnique, PairFrom
  <2> QED
    BY <2>4, <2>5 DEF Writable
<1>4. ASSUME NEW pair \in {Dirs, Fats}, s \notin pair
      PROVE  PairOK(d, pair) /\ NewestOf(d, pair) = NewestOf(c, pair)
  <2>1. \A t \in pair : d[t] = c[t]
    BY <1>1, <1>4, Sectors
  <2>2. PairOK(c, pair)
    BY DEF SectorsOK
  <2> QED
    BY <2>1, <2>2, Untouched
<1>5. PairOK(d, Dirs) /\ PairOK(d, Fats)
  BY <1>3, <1>4, Sectors
<1>6. SectorsOK(d)
  BY <1>1, <1>2, <1>5 DEF SectorsOK
<1> QED
  BY <1>1, <1>3, <1>4, <1>6

-----------------------------------------------------------------------------
(* Sessions: a mounted card *)

(* What is known of a mounted card, piece by piece.                        *)
LEMMA SessionIs ==
  ASSUME Few, NEW c, NEW w, NEW k, Session(c, w, k)
  PROVE  /\ k.dir \in Dirs /\ k.fat \in Fats /\ k.dir \in System /\ k.fat \in System
         /\ Other(k.dir) \in Dirs /\ Other(k.fat) \in Fats /\ Other(k.dir) \in System /\ Other(k.fat) \in System
         /\ Other(Other(k.dir)) = k.dir /\ Other(Other(k.fat)) = k.fat
         /\ k.dir # Other(k.dir) /\ k.fat # Other(k.fat)
         /\ k.dir \notin Fats /\ k.fat \notin Dirs /\ Other(k.dir) \notin Fats /\ Other(k.fat) \notin Dirs
         /\ SectorsOK(c) /\ DOMAIN w = System /\ DOMAIN c = System
         /\ DirOK(w[k.dir]) /\ FatOK(w[k.fat]) /\ w[k.fat].ok
         /\ Together(DirsIn(c, w, k), FatsIn(c, w, k), w[k.fat])
         /\ \A x \in DirsIn(c, w, k) : x \in DirSector
         /\ \A y \in FatsIn(c, w, k) : FatOK(y)
         /\ Fits(DirIn(c), FatIn(c))
<1>1. k.dir \in Dirs /\ k.fat \in Fats /\ SectorsOK(c)
  BY DEF Session
<1>2. /\ \A s \in Dirs : c[s] = Garbage \/ DirOK(c[s])
      /\ \A s \in Fats : c[s] = Garbage \/ FatOK(c[s])
      /\ DirOK(DirIn(c)) /\ FatOK(FatIn(c))
  BY <1>1, SectorsAre DEF DirIn, FatIn
<1>3. /\ Other(k.dir) \in Dirs /\ Other(k.fat) \in Fats /\ Other(Other(k.dir)) = k.dir /\ Other(Other(k.fat)) = k.fat
      /\ k.dir # Other(k.dir) /\ k.fat # Other(k.fat)
  BY <1>1, PairIs, Sectors
<1>4. DirOK(c[Other(k.dir)]) /\ FatOK(c[Other(k.fat)])
  BY <1>2, <1>3, Sectors DEF Session
<1>5. DirOK(w[k.dir]) /\ FatOK(w[k.fat]) /\ w[k.fat].ok
  BY <1>1 DEF Session, DirOK
<1>6. \A x \in DirsIn(c, w, k) : x \in DirSector
  BY <1>2, <1>4, <1>5 DEF DirsIn, DirOK
<1>7. \A y \in FatsIn(c, w, k) : FatOK(y)
  BY <1>2, <1>4, <1>5 DEF FatsIn
<1>8. Together(DirsIn(c, w, k), FatsIn(c, w, k), w[k.fat])
  BY DEF Session
<1>9. Fits(DirIn(c), FatIn(c))
  BY <1>8 DEF Together, DirsIn, FatsIn
<1> QED
  BY <1>1, <1>3, <1>5, <1>6, <1>7, <1>8, <1>9, Sectors DEF Session, SectorsOK

(* A change of the memory leaves a session if the candidates still go      *)
(* together.                                                               *)
LEMMA SessionChanged ==
  ASSUME Few, NEW c, NEW w, NEW k, Session(c, w, k), NEW v, DOMAIN v = System,
         v[k.dir] \in DirSector, GoodEntries(v[k.dir].files), v[Other(k.dir)] = w[Other(k.dir)],
         FatOK(v[k.fat]), v[k.fat].ok, FatOK(v[Other(k.fat)]), v[Other(k.fat)].ok,
         Together(DirsIn(c, v, k), FatsIn(c, v, k), v[k.fat])
  PROVE  Session(c, v, k)
<1>1. Dirs = {k.dir, Other(k.dir)} /\ Fats = {k.fat, Other(k.fat)}
  BY PairIs DEF Session
<1>2. \A s \in Dirs : v[s] \in DirSector
  BY <1>1 DEF Session
<1>3. \A s \in Fats : FatOK(v[s]) /\ v[s].ok
  BY <1>1
<1> QED
  BY <1>2, <1>3 DEF Session

(* Files and links matter to Fits and Same, codes and checksums do not.    *)
LEMMA Alike ==
  ASSUME NEW x, NEW x2, x2.files = x.files, NEW y, NEW y2, y2.next = y.next, NEW m, NEW m2, m2.next = m.next,
         Fits(x, y), Same(x, y, m)
  PROVE  Fits(x2, y2) /\ Same(x2, y2, m2)
BY DEF Fits, Same

(* Sealing changes the checksum and increments the code.                   *)
LEMMA SealedIs ==
  ASSUME Few, NEW x, x.code \in Code, NEW y, y = Sealed(x)
  PROVE  /\ x \in DirSector => y \in DirSector /\ y.files = x.files
         /\ FatOK(x) => FatOK(y) /\ y.next = x.next /\ y.free = x.free
         /\ x \in DirSector \/ FatOK(x) => y.ok /\ y.code = Increment(x.code)
<1>1. Increment(x.code) \in Code
  BY AheadIs
<1>2. y = [x EXCEPT !.ok = TRUE, !.code = Increment(@)]
  BY DEF Sealed
<1>3. ASSUME x \in DirSector
      PROVE  y \in DirSector /\ y.files = x.files /\ y.ok /\ y.code = Increment(x.code)
  BY <1>1, <1>2, <1>3 DEF DirSector
<1>4. ASSUME FatOK(x)
      PROVE  FatOK(y) /\ y.next = x.next /\ y.free = x.free /\ y.ok /\ y.code = Increment(x.code)
  <2>1. x \in FatSector /\ x.free = Cardinality(FreeBlocks(x.next))
    BY <1>4 DEF FatOK, Counted
  <2>2. y \in FatSector /\ y.next = x.next /\ y.free = x.free /\ y.ok /\ y.code = Increment(x.code)
    BY <1>1, <1>2, <2>1 DEF FatSector
  <2> QED
    BY <2>1, <2>2 DEF FatOK, Counted
<1> QED
  BY <1>3, <1>4

(* v is w with the current copy s sealed.                                  *)
Seals(v, w, k, s) == s \in {k.dir, k.fat} /\ v = [w EXCEPT ![s] = Sealed(@)]

(* The beginning of an update, which seals what is going to be written,    *)
(* leaves a session.                                                       *)
LEMMA SessionSealed ==
  ASSUME Few, NEW c, NEW w, NEW k, Session(c, w, k), NEW s,
         NEW v, Seals(v, w, k, s)
  PROVE  /\ Session(c, v, k) /\ v[s].ok /\ v[s].code = Increment(w[s].code)
         /\ \A t \in System \ {s} : v[t] = w[t]
         /\ v[k.dir].files = w[k.dir].files /\ v[k.fat].next = w[k.fat].next /\ v[k.fat].free = w[k.fat].free
         /\ w[k.dir].ok => v[k.dir].ok
<1>1. /\ k.dir \in Dirs /\ k.fat \in Fats /\ k.dir \in System /\ k.fat \in System
      /\ Other(k.dir) \in System /\ Other(k.fat) \in System /\ Other(k.fat) \in Fats
      /\ k.dir # Other(k.dir) /\ k.fat # Other(k.fat) /\ k.dir \notin Fats /\ k.fat \notin Dirs
      /\ Other(k.dir) \notin Fats /\ Other(k.fat) \notin Dirs
      /\ DOMAIN w = System /\ DirOK(w[k.dir]) /\ FatOK(w[k.fat]) /\ w[k.fat].ok
      /\ Together(DirsIn(c, w, k), FatsIn(c, w, k), w[k.fat])
  BY SessionIs
<1>0. s \in {k.dir, k.fat}
  BY DEF Seals
<1>2. DOMAIN v = System /\ v[s] = Sealed(w[s]) /\ \A t \in System \ {s} : v[t] = w[t]
  BY <1>0, <1>1 DEF Seals
<1>3. w[k.dir] \in DirSector /\ GoodEntries(w[k.dir].files) /\ w[k.dir].code \in Code /\ w[k.fat].code \in Code
  BY <1>1 DEF DirOK, DirSector, FatOK, FatSector
<1>4. /\ v[k.dir] \in DirSector /\ v[k.dir].files = w[k.dir].files
      /\ FatOK(v[k.fat]) /\ v[k.fat].next = w[k.fat].next /\ v[k.fat].ok /\ v[k.fat].free = w[k.fat].free
      /\ v[s].ok /\ v[s].code = Increment(w[s].code) /\ (w[k.dir].ok => v[k.dir].ok)
  <2>1. CASE s = k.dir
    <3>1. v[k.fat] = w[k.fat] /\ v[k.dir] = Sealed(w[k.dir])
      BY <1>1, <1>2, <2>1
    <3>2. v[k.dir] \in DirSector /\ v[k.dir].files = w[k.dir].files /\ v[k.dir].ok /\ v[k.dir].code = Increment(w[k.dir].code)
      BY <1>3, <3>1, SealedIs
    <3> QED
      BY <1>1, <2>1, <3>1, <3>2
  <2>2. CASE s = k.fat
    <3>1. v[k.dir] = w[k.dir] /\ v[k.fat] = Sealed(w[k.fat])
      BY <1>1, <1>2, <2>2
    <3>2. FatOK(v[k.fat]) /\ v[k.fat].next = w[k.fat].next /\ v[k.fat].free = w[k.fat].free
          /\ v[k.fat].ok /\ v[k.fat].code = Increment(w[k.fat].code)
      BY <1>1, <1>3, <3>1, SealedIs
    <3> QED
      BY <1>1, <1>3, <2>2, <3>1, <3>2
  <2> QED
    BY <1>0, <2>1, <2>2
<1>5. v[Other(k.dir)] = w[Other(k.dir)] /\ v[Other(k.fat)] = w[Other(k.fat)]
  BY <1>0, <1>1, <1>2
<1>6. FatOK(v[Other(k.fat)]) /\ v[Other(k.fat)].ok
  BY <1>1, <1>5 DEF Session
<1>7. Together(DirsIn(c, v, k), FatsIn(c, v, k), v[k.fat])
  <2> SUFFICES ASSUME NEW x2 \in DirsIn(c, v, k), NEW y2 \in FatsIn(c, v, k)
               PROVE  Fits(x2, y2) /\ Same(x2, y2, v[k.fat])
    BY DEF Together
  <2>1. PICK x \in DirsIn(c, w, k) : x2.files = x.files
    BY <1>4 DEF DirsIn
  <2>2. PICK y \in FatsIn(c, w, k) : y2.next = y.next
    BY <1>4 DEF FatsIn
  <2>3. Fits(x, y) /\ Same(x, y, w[k.fat])
    BY <1>1 DEF Together
  <2> QED
    BY <1>4, <2>1, <2>2, <2>3, Alike
<1>8. Session(c, v, k)
  BY <1>2, <1>3, <1>4, <1>5, <1>6, <1>7, SessionChanged
<1> QED
  BY <1>2, <1>4, <1>8

(* What a write may leave in a sector: garbage, or what was to be written. *)
Landed(c, w, s, x) ==
  \/ x = Garbage
  \/ x = w[s] /\ x.ok /\ Ahead(x.code, c[Other(s)].code) \in Gaps

(* A write to the current copy, whatever becomes of it, leaves a session   *)
(* in which the newest copies are candidates.                              *)
LEMMA SessionOnCard ==
  ASSUME Few, NEW c, NEW w, NEW k, Session(c, w, k), NEW s \in {k.dir, k.fat}, NEW x, Landed(c, w, s, x),
         NEW d, d = With(c, s, x)
  PROVE  /\ Session(d, w, k)
         /\ d[Other(k.dir)] = c[Other(k.dir)] /\ d[Other(k.fat)] = c[Other(k.fat)]
         /\ d[s] = x /\ \A t \in System \ {s} : d[t] = c[t]
         /\ DirIn(d) \in DirsIn(c, w, k) /\ FatIn(d) \in FatsIn(c, w, k)
         /\ NewestOf(d, Dirs) = IF s = k.dir THEN IF x.ok THEN s ELSE Other(s) ELSE NewestOf(c, Dirs)
         /\ NewestOf(d, Fats) = IF s = k.fat THEN IF x.ok THEN s ELSE Other(s) ELSE NewestOf(c, Fats)
<1>1. /\ k.dir \in Dirs /\ k.fat \in Fats /\ k.dir \in System /\ k.fat \in System
      /\ Other(k.dir) \in System /\ Other(k.fat) \in System
      /\ k.dir # Other(k.dir) /\ k.fat # Other(k.fat) /\ k.dir \notin Fats /\ k.fat \notin Dirs
      /\ Other(k.dir) \notin Fats /\ Other(k.fat) \notin Dirs
      /\ SectorsOK(c) /\ DirOK(w[k.dir]) /\ FatOK(w[k.fat])
      /\ Together(DirsIn(c, w, k), FatsIn(c, w, k), w[k.fat])
  BY SessionIs
<1>2. s \in System /\ c[Other(s)].ok /\ (s \in Dirs <=> s = k.dir) /\ (s \in Fats <=> s = k.fat)
  BY <1>1 DEF Session
<1>3. Writable(c, s, x)
  BY <1>1, <1>2 DEF Writable, Landed
<1>4. /\ SectorsOK(d) /\ d[s] = x /\ \A t \in System \ {s} : d[t] = c[t]
      /\ \A pair \in {Dirs, Fats} :
           NewestOf(d, pair) = IF s \in pair THEN IF x.ok THEN s ELSE Other(s) ELSE NewestOf(c, pair)
  BY <1>1, <1>2, <1>3, CardStep
<1>5. /\ NewestOf(d, Dirs) = IF s = k.dir THEN IF x.ok THEN s ELSE Other(s) ELSE NewestOf(c, Dirs)
      /\ NewestOf(d, Fats) = IF s = k.fat THEN IF x.ok THEN s ELSE Other(s) ELSE NewestOf(c, Fats)
  BY <1>2, <1>4, Sectors
<1>6. d[Other(k.dir)] = c[Other(k.dir)] /\ d[Other(k.fat)] = c[Other(k.fat)] /\ d[Other(s)] = c[Other(s)]
  BY <1>1, <1>4
<1>7. NewestOf(c, Dirs) \in Dirs /\ NewestOf(c, Fats) \in Fats
  BY <1>1, SectorsAre
<1>8. DirIn(d) \in DirsIn(c, w, k)
  <2>1. CASE s = k.dir /\ x.ok
    <3>1. DirIn(d) = w[k.dir]
      BY <1>4, <1>5, <2>1, Sectors DEF DirIn, Landed
    <3> QED
      BY <3>1 DEF DirsIn
  <2>2. CASE s = k.dir /\ ~x.ok
    <3>1. DirIn(d) = c[Other(k.dir)]
      BY <1>5, <1>6, <2>2 DEF DirIn
    <3> QED
      BY <3>1 DEF DirsIn
  <2>3. CASE s # k.dir
    <3>1. NewestOf(d, Dirs) = NewestOf(c, Dirs) /\ NewestOf(c, Dirs) # s /\ NewestOf(c, Dirs) \in System
      BY <1>2, <1>5, <1>7, <2>3, Sectors
    <3>2. DirIn(d) = DirIn(c)
      BY <1>4, <3>1 DEF DirIn
    <3> QED
      BY <3>2 DEF DirsIn
  <2> QED
    BY <2>1, <2>2, <2>3
<1>9. FatIn(d) \in FatsIn(c, w, k)
  <2>1. CASE s = k.fat /\ x.ok
    <3>1. FatIn(d) = w[k.fat]
      BY <1>4, <1>5, <2>1, Sectors DEF FatIn, Landed
    <3> QED
      BY <3>1 DEF FatsIn
  <2>2. CASE s = k.fat /\ ~x.ok
    <3>1. FatIn(d) = c[Other(k.fat)]
      BY <1>5, <1>6, <2>2 DEF FatIn
    <3> QED
      BY <3>1 DEF FatsIn
  <2>3. CASE s # k.fat
    <3>1. NewestOf(d, Fats) = NewestOf(c, Fats) /\ NewestOf(c, Fats) # s /\ NewestOf(c, Fats) \in System
      BY <1>2, <1>5, <1>7, <2>3, Sectors
    <3>2. FatIn(d) = FatIn(c)
      BY <1>4, <3>1 DEF FatIn
    <3> QED
      BY <3>2 DEF FatsIn
  <2> QED
    BY <2>1, <2>2, <2>3
<1>10. DirsIn(d, w, k) \subseteq DirsIn(c, w, k) /\ FatsIn(d, w, k) \subseteq FatsIn(c, w, k)
  BY <1>6, <1>8, <1>9 DEF DirsIn, FatsIn
<1>11. Together(DirsIn(d, w, k), FatsIn(d, w, k), w[k.fat])
  BY <1>1, <1>10, FewerTogether
<1>12. Session(d, w, k)
  BY <1>4, <1>6, <1>11 DEF Session
<1> QED
  BY <1>4, <1>5, <1>6, <1>8, <1>9, <1>12

(* A sector that was written: the other copy becomes current and takes     *)
(* over its contents, and what is on the card and in memory is the same    *)
(* now.                                                                    *)
LEMMA SessionWritten ==
  ASSUME Few, NEW c, NEW w, NEW k, Session(c, w, k), k = [dir |-> k.dir, fat |-> k.fat],
         NEW s \in {k.dir, k.fat}, w[s].ok, Ahead(w[s].code, c[Other(s)].code) \in Gaps,
         NEW d, d = With(c, s, w[s]),
         NEW v, v = With(w, Other(s), w[s]), NEW j, j = AsCurrent(k, Other(s))
  PROVE  /\ Session(d, v, j) /\ j = [dir |-> j.dir, fat |-> j.fat]
         /\ v[j.dir] = w[k.dir] /\ v[j.fat] = w[k.fat]
         /\ s = k.dir => /\ j.dir = Other(s) /\ j.fat = k.fat /\ NewestOf(d, Dirs) = s
                         /\ d[s] = w[s] /\ DirsIn(d, v, j) = {w[k.dir]}
                         /\ FatsIn(d, v, j) = FatsIn(c, w, k)
         /\ s = k.fat => /\ j.fat = Other(s) /\ j.dir = k.dir /\ NewestOf(d, Dirs) = NewestOf(c, Dirs)
                         /\ FatsIn(d, v, j) = {w[k.fat]} /\ d[s] = w[s]
                         /\ DirsIn(d, v, j) = DirsIn(c, w, k)
         /\ d[Other(j.dir)] = IF s = k.dir THEN w[s] ELSE c[Other(k.dir)]
         /\ d[Other(j.fat)] = IF s = k.fat THEN w[s] ELSE c[Other(k.fat)]
         /\ \A t \in System \ {s} : d[t] = c[t]
<1>1. /\ k.dir \in Dirs /\ k.fat \in Fats /\ k.dir \in System /\ k.fat \in System
      /\ Other(k.dir) \in Dirs /\ Other(k.fat) \in Fats
      /\ Other(k.dir) \in System /\ Other(k.fat) \in System
      /\ Other(Other(k.dir)) = k.dir /\ Other(Other(k.fat)) = k.fat
      /\ k.dir # Other(k.dir) /\ k.fat # Other(k.fat) /\ k.dir \notin Fats /\ k.fat \notin Dirs
      /\ Other(k.dir) \notin Fats /\ Other(k.fat) \notin Dirs
      /\ SectorsOK(c) /\ DirOK(w[k.dir]) /\ FatOK(w[k.fat]) /\ w[k.fat].ok
      /\ DOMAIN w = System
      /\ Together(DirsIn(c, w, k), FatsIn(c, w, k), w[k.fat])
  BY SessionIs
<1>2. /\ Session(d, w, k)
      /\ d[Other(k.dir)] = c[Other(k.dir)] /\ d[Other(k.fat)] = c[Other(k.fat)]
      /\ d[s] = w[s] /\ \A t \in System \ {s} : d[t] = c[t]
      /\ DirIn(d) \in DirsIn(c, w, k) /\ FatIn(d) \in FatsIn(c, w, k)
      /\ NewestOf(d, Dirs) = IF s = k.dir THEN s ELSE NewestOf(c, Dirs)
      /\ NewestOf(d, Fats) = IF s = k.fat THEN s ELSE NewestOf(c, Fats)
  <2>1. Landed(c, w, s, w[s])
    BY DEF Landed
  <2> DEFINE x == w[s]
  <2>2. Landed(c, w, s, x) /\ d = With(c, s, x) /\ x.ok
    BY <2>1
  <2> HIDE DEF x
  <2>3. /\ Session(d, w, k)
        /\ d[Other(k.dir)] = c[Other(k.dir)] /\ d[Other(k.fat)] = c[Other(k.fat)]
        /\ d[s] = x /\ \A t \in System \ {s} : d[t] = c[t]
        /\ DirIn(d) \in DirsIn(c, w, k) /\ FatIn(d) \in FatsIn(c, w, k)
        /\ NewestOf(d, Dirs) = IF s = k.dir THEN IF x.ok THEN s ELSE Other(s) ELSE NewestOf(c, Dirs)
        /\ NewestOf(d, Fats) = IF s = k.fat THEN IF x.ok THEN s ELSE Other(s) ELSE NewestOf(c, Fats)
    BY <2>2, SessionOnCard
  <2> QED
    BY <2>2, <2>3 DEF x
<1>3. NewestOf(c, Dirs) \in Dirs /\ NewestOf(c, Fats) \in Fats
  BY <1>1, SectorsAre
<1>4. DOMAIN v = System /\ v[Other(s)] = w[s] /\ \A t \in System \ {Other(s)} : v[t] = w[t]
  BY <1>1 DEF With
<1>5. \A t \in Dirs : w[t] \in DirSector
  BY DEF Session
<1>6. \A t \in Fats : FatOK(w[t]) /\ w[t].ok
  BY DEF Session
<1>7. GoodEntries(w[k.dir].files) /\ c[Other(k.dir)].ok /\ c[Other(k.fat)].ok /\ c[Other(k.dir)] = w[Other(k.dir)]
  BY DEF Session
<1>8. SectorsOK(d)
  BY <1>2 DEF Session
<1>9. CASE s = k.dir
  <2>1. j.dir = Other(s) /\ j.fat = k.fat /\ j = [dir |-> j.dir, fat |-> j.fat] /\ Other(j.dir) = s
    BY <1>1, <1>9 DEF AsCurrent
  <2>2. v[j.dir] = w[s] /\ v[j.fat] = w[k.fat] /\ v[s] = w[s] /\ v[Other(k.fat)] = w[Other(k.fat)]
    BY <1>1, <1>4, <1>9, <2>1
  <2>3. DirIn(d) = w[s] /\ NewestOf(d, Dirs) = s
    BY <1>2, <1>9 DEF DirIn
  <2>4. FatIn(d) = FatIn(c)
    <3>1. NewestOf(d, Fats) = NewestOf(c, Fats) /\ NewestOf(c, Fats) # s /\ NewestOf(c, Fats) \in System
      BY <1>1, <1>2, <1>3, <1>9, Sectors
    <3> QED
      BY <1>2, <3>1 DEF FatIn
  <2>5. DirsIn(d, v, j) = {w[k.dir]}
    BY <1>2, <1>9, <2>1, <2>2, <2>3 DEF DirsIn
  <2>6. FatsIn(d, v, j) = FatsIn(c, w, k)
    BY <1>2, <2>1, <2>2, <2>4 DEF FatsIn
  <2>7. Together({w[k.dir]}, FatsIn(c, w, k), w[k.fat])
    <3>1. {w[k.dir]} \subseteq DirsIn(c, w, k)
      BY DEF DirsIn
    <3> QED
      BY <1>1, <3>1, FewerTogether
  <2>8. \A t \in Dirs : v[t] \in DirSector
    BY <1>1, <1>4, <1>5, <1>9, Sectors
  <2>9. \A t \in Fats : FatOK(v[t]) /\ v[t].ok
    BY <1>1, <1>4, <1>6, <1>9, Sectors
  <2>10. Session(d, v, j)
    <3>1. j.dir \in Dirs /\ j.fat \in Fats
      BY <1>1, <1>9, <2>1
    <3>2. d[Other(j.dir)].ok /\ d[Other(j.fat)].ok /\ d[Other(j.dir)] = v[Other(j.dir)]
      BY <1>1, <1>2, <1>7, <1>9, <2>1, <2>2
    <3>3. GoodEntries(v[j.dir].files)
      BY <1>7, <1>9, <2>2
    <3>4. Together(DirsIn(d, v, j), FatsIn(d, v, j), v[j.fat])
      BY <1>9, <2>2, <2>5, <2>6, <2>7
    <3> QED
      BY <1>4, <1>8, <2>8, <2>9, <3>1, <3>2, <3>3, <3>4 DEF Session
  <2> QED
    BY <1>1, <1>2, <1>9, <2>1, <2>2, <2>3, <2>5, <2>6, <2>10
<1>10. CASE s = k.fat
  <2>1. j.fat = Other(s) /\ j.dir = k.dir /\ j = [dir |-> j.dir, fat |-> j.fat] /\ Other(j.fat) = s
    BY <1>1, <1>10 DEF AsCurrent
  <2>2. v[j.fat] = w[s] /\ v[j.dir] = w[k.dir] /\ v[s] = w[s] /\ v[Other(k.dir)] = w[Other(k.dir)]
    BY <1>1, <1>4, <1>10, <2>1
  <2>3. FatIn(d) = w[s] /\ NewestOf(d, Fats) = s
    BY <1>2, <1>10 DEF FatIn
  <2>4. DirIn(d) = DirIn(c) /\ NewestOf(d, Dirs) = NewestOf(c, Dirs)
    <3>1. NewestOf(d, Dirs) = NewestOf(c, Dirs) /\ NewestOf(c, Dirs) # s /\ NewestOf(c, Dirs) \in System
      BY <1>1, <1>2, <1>3, <1>10, Sectors
    <3> QED
      BY <1>2, <3>1 DEF DirIn
  <2>5. FatsIn(d, v, j) = {w[k.fat]}
    BY <1>2, <1>10, <2>1, <2>2, <2>3 DEF FatsIn
  <2>6. DirsIn(d, v, j) = DirsIn(c, w, k)
    BY <1>2, <2>1, <2>2, <2>4 DEF DirsIn
  <2>7. Together(DirsIn(c, w, k), {w[k.fat]}, w[k.fat])
    <3>1. {w[k.fat]} \subseteq FatsIn(c, w, k)
      BY DEF FatsIn
    <3> QED
      BY <1>1, <3>1, FewerTogether
  <2>8. \A t \in Dirs : v[t] \in DirSector
    BY <1>1, <1>4, <1>5, <1>10, Sectors
  <2>9. \A t \in Fats : FatOK(v[t]) /\ v[t].ok
    BY <1>1, <1>4, <1>6, <1>10, Sectors
  <2>10. Session(d, v, j)
    <3>1. j.dir \in Dirs /\ j.fat \in Fats
      BY <1>1, <1>10, <2>1
    <3>2. d[Other(j.dir)].ok /\ d[Other(j.fat)].ok /\ d[Other(j.dir)] = v[Other(j.dir)]
      BY <1>1, <1>2, <1>7, <1>10, <2>1, <2>2
    <3>3. GoodEntries(v[j.dir].files)
      BY <1>7, <1>10, <2>2
    <3>4. Together(DirsIn(d, v, j), FatsIn(d, v, j), v[j.fat])
      BY <1>10, <2>2, <2>5, <2>6, <2>7
    <3> QED
      BY <1>4, <1>8, <2>8, <2>9, <3>1, <3>2, <3>3, <3>4 DEF Session
  <2> QED
    BY <1>1, <1>2, <1>10, <2>1, <2>2, <2>4, <2>5, <2>6, <2>10
<1> QED
  BY <1>9, <1>10

-----------------------------------------------------------------------------
(* The invariant around a step *)

(* What is in memory is at most n updates ahead of the other copies on the *)
(* card.                                                                   *)
GapIn(c, w, k, n) == \A t \in {k.dir, k.fat} : Ahead(w[t].code, c[Other(t)].code) \in 0..n

(* No sector is in error.                                                  *)
AllGood(c) == \A s \in System : c[s].ok

(* An update that has been begun.                                          *)
Begun(s, next, file, entry) == [stage |-> "erase", sector |-> s, next |-> next, file |-> file, entry |-> entry]

(* What an operation has still to do depends on the files, the links and   *)
(* the seal of the directory only.                                         *)
LEMMA PendingSame ==
  ASSUME NEW o, NEW c, NEW w, NEW k, Pending(o, c, w, k), NEW v,
         v[k.dir].files = w[k.dir].files, v[k.fat].next = w[k.fat].next, w[k.dir].ok => v[k.dir].ok
  PROVE  Pending(o, c, v, k)
<1>1. SavedIn(c, w, k) => SavedIn(c, v, k)
  BY DEF SavedIn
<1> QED
  BY <1>1 DEF Pending

(* The invariant holds after an operation.                                 *)
LEMMA SessionEnds ==
  ASSUME Few, TypeOK', attached', Session(card', work', cur'), faults' \in 0..MaxFaults,
         op' = NoOp, result' \in {"ready", "saved", "error"},
         result' \in {"ready", "saved"} => SavedIn(card', work', cur'),
         listening' => GapIn(card', work', cur', faults'), ~listening' => faults' > 0,
         faults' = 0 => AllGood(card')
  PROVE  FilesInv'
<1>1. Mounted' /\ cur'.dir \in Dirs /\ cur'.fat \in Fats
  BY Sectors DEF Mounted, Session
<1>2. SectorsOK(card') /\ Fits(DirIn(card'), FatIn(card'))
  BY SessionIs
<1>3. CardInv'
  BY <1>2 DEF CardInv, AllGood
<1>4. listening' => GapOK(cur.dir)' /\ GapOK(cur.fat)'
  BY DEF GapIn, GapOK
<1>5. MountedInv'
  BY <1>4 DEF MountedInv
<1> QED
  BY <1>1, <1>3, <1>5 DEF FilesInv

(* The invariant holds after the beginning of an update.                   *)
LEMMA SessionBegins ==
  ASSUME Few, TypeOK', attached', faults' \in 0..MaxFaults,
         NEW w, Session(card', w, cur'), NEW s \in {cur'.dir, cur'.fat}, NEW next, NEW file, NEW entry,
         StartUpdate(w, s, Operation(next, file, entry)),
         Pending(Begun(s, next, file, entry), card', w, cur'),
         listening' => GapIn(card', w, cur', faults'), ~listening' => faults' > 0,
         faults' = 0 => AllGood(card')
  PROVE  FilesInv'
<1>1. op' = Begun(s, next, file, entry) /\ result' = "busy" /\ Seals(work', w, cur', s)
  BY DEF StartUpdate, Operation, Begun, Seals
<1>2. /\ cur'.dir \in Dirs /\ cur'.fat \in Fats /\ cur'.dir # cur'.fat
      /\ SectorsOK(card') /\ Fits(DirIn(card'), FatIn(card'))
      /\ w[cur'.dir].code \in Code /\ w[cur'.fat].code \in Code
      /\ card'[Other(cur'.dir)].code \in Code /\ card'[Other(cur'.fat)].code \in Code
      /\ cur'.dir \in System /\ cur'.fat \in System
  <2>1. /\ cur'.dir \in Dirs /\ cur'.fat \in Fats /\ cur'.dir # cur'.fat
        /\ SectorsOK(card') /\ Fits(DirIn(card'), FatIn(card'))
        /\ DirOK(w[cur'.dir]) /\ FatOK(w[cur'.fat])
        /\ Other(cur'.dir) \in System /\ Other(cur'.fat) \in System
        /\ cur'.dir \in System /\ cur'.fat \in System
    BY SessionIs
  <2>2. w[cur'.dir].code \in Code /\ w[cur'.fat].code \in Code
    BY <2>1 DEF DirOK, FatOK, DirSector, FatSector
  <2>3. card'[Other(cur'.dir)].ok /\ card'[Other(cur'.fat)].ok
    BY DEF Session
  <2>4. \A t \in System : card'[t].ok => card'[t].code \in Code
    BY <2>1, SectorsAre
  <2> QED
    BY <2>1, <2>2, <2>3, <2>4
<1>3. /\ Session(card', work', cur') /\ work'[s].ok /\ work'[s].code = Increment(w[s].code)
      /\ \A t \in System \ {s} : work'[t] = w[t]
      /\ work'[cur'.dir].files = w[cur'.dir].files /\ work'[cur'.fat].next = w[cur'.fat].next
      /\ w[cur'.dir].ok => work'[cur'.dir].ok
  BY <1>1, SessionSealed
<1>4. op'.stage = "erase" /\ op'.sector = s /\ op' # NoOp
  BY <1>1 DEF Begun, NoOp
<1>5. Pending(op', card', work', cur')
  BY <1>1, <1>3, PendingSame
<1>6. Mounted'
  BY <1>2, Sectors DEF Mounted
<1>7. CardInv'
  BY <1>2 DEF CardInv, AllGood
<1>8. ASSUME listening', NEW t \in {cur'.dir, cur'.fat} PROVE GapOK(t)'
  <2>1. Ahead(w[t].code, card'[Other(t)].code) \in 0..faults' /\ t \in System
    BY <1>2, <1>8 DEF GapIn
  <2>2. CASE t = s
    <3>1. w[t].code \in Code /\ card'[Other(t)].code \in Code
      BY <1>2
    <3> DEFINE a == w[t].code
               b == card'[Other(t)].code
    <3> HIDE DEF a, b
    <3>2. Ahead(a, b) < 2 * Half - 1 => Ahead(Increment(a), b) = Ahead(a, b) + 1
      BY <3>1, AheadIs DEF a, b
    <3>3. Ahead(a, b) \in 0..faults' /\ faults' \in 0..MaxFaults
      BY <2>1 DEF a, b
    <3>4. Ahead(Increment(a), b) \in 1..(faults' + 1)
      BY <3>2, <3>3, CARDAssumption DEF Few
    <3> QED
      BY <1>3, <1>4, <2>2, <3>4 DEF GapOK, a, b
  <2>3. CASE t # s
    <3>1. work'[t] = w[t]
      BY <1>3, <2>1, <2>3
    <3> QED
      BY <1>4, <2>1, <2>3, <3>1 DEF GapOK
  <2> QED
    BY <2>2, <2>3
<1>9. MountedInv'
  <2>1. listening' => GapOK(cur.dir)' /\ GapOK(cur.fat)'
    <3>1. ASSUME listening' PROVE GapOK(cur.dir)' /\ GapOK(cur.fat)'
      <4>1. \A t \in {cur'.dir, cur'.fat} : Ahead(work'[t].code, card'[Other(t)].code) \in
               IF op' # NoOp /\ op'.sector = t THEN 1..(faults' + 1) ELSE 0..faults'
        BY <1>8, <3>1 DEF GapOK
      <4> QED
        BY <4>1 DEF GapOK
    <3> QED
      BY <3>1
  <2> QED
    BY <1>1, <1>3, <1>4, <1>5, <2>1 DEF MountedInv
<1> QED
  BY <1>1, <1>4, <1>6, <1>7, <1>9 DEF FilesInv

(* What the invariant says of a mounted card.                              *)
LEMMA MountedIs ==
  ASSUME FilesInv, Mounted
  PROVE  /\ MountedInv /\ Session(card, work, cur) /\ attached /\ cur = [dir |-> cur.dir, fat |-> cur.fat]
         /\ faults \in 0..MaxFaults /\ (~listening => faults > 0)
         /\ op = NoOp => /\ listening => GapIn(card, work, cur, faults)
                         /\ faults = 0 => AllGood(card)
<1>1. MountedInv /\ attached
  BY DEF FilesInv, Mounted
<1>2. cur \in [dir : Dirs \cup {None}, fat : Fats \cup {None}]
  BY DEF FilesInv, TypeOK
<1>3. cur = [dir |-> cur.dir, fat |-> cur.fat]
  BY <1>2
<1>4. op = NoOp => (listening => GapIn(card, work, cur, faults))
  BY <1>1 DEF MountedInv, GapOK, GapIn
<1>5. op = NoOp => (faults = 0 => AllGood(card))
  BY DEF FilesInv, CardInv, AllGood
<1> QED
  BY <1>1, <1>3, <1>4, <1>5 DEF FilesInv, CardInv, MountedInv

(* A card that may be used is mounted and has no operation.                *)
LEMMA UsableIs ==
  ASSUME FilesInv, Usable
  PROVE  Mounted /\ op = NoOp /\ result # "busy"
BY DEF FilesInv, Usable, Mounted

(* A call of a program that updates the directory or the FAT keeps the     *)
(* invariant.                                                              *)
LEMMA CallBegins ==
  ASSUME Few, FilesInv, TypeOK', Usable, UNCHANGED <<card, cur, attached, listening, faults>>,
         NEW w, Session(card, w, cur), \A t \in {cur.dir, cur.fat} : w[t].code = work[t].code,
         NEW s \in {cur.dir, cur.fat}, NEW next, NEW file, NEW entry,
         StartUpdate(w, s, Operation(next, file, entry)),
         Pending(Begun(s, next, file, entry), card, w, cur)
  PROVE  FilesInv'
<1>1. /\ attached /\ faults \in 0..MaxFaults /\ (~listening => faults > 0)
      /\ listening => GapIn(card, work, cur, faults)
      /\ faults = 0 => AllGood(card)
  BY UsableIs, MountedIs
<1>2. listening => GapIn(card, w, cur, faults)
  BY <1>1 DEF GapIn
<1>3. attached' /\ faults' \in 0..MaxFaults /\ Session(card', w, cur') /\ s \in {cur'.dir, cur'.fat}
      /\ Pending(Begun(s, next, file, entry), card', w, cur')
      /\ (listening' => GapIn(card', w, cur', faults')) /\ (~listening' => faults' > 0)
      /\ (faults' = 0 => AllGood(card'))
  BY <1>1, <1>2
<1> QED
  BY <1>3, SessionBegins

(* A call that is refused keeps it.                                        *)
LEMMA FilesRefused ==
  ASSUME Few, FilesInv, TypeOK', Usable, Refuse
  PROVE  FilesInv'
<1>1. /\ attached /\ faults \in 0..MaxFaults /\ (~listening => faults > 0) /\ Session(card, work, cur)
      /\ listening => GapIn(card, work, cur, faults)
      /\ faults = 0 => AllGood(card)
  BY UsableIs, MountedIs
<1>2. UNCHANGED <<card, work, cur, attached, listening, faults>> /\ op' = NoOp /\ result' = "error"
  BY DEF Refuse, Put
<1>3. attached' /\ faults' \in 0..MaxFaults /\ Session(card', work', cur') /\ op' = NoOp
      /\ result' \in {"ready", "saved", "error"} /\ result' \notin {"ready", "saved"}
      /\ (listening' => GapIn(card', work', cur', faults')) /\ (~listening' => faults' > 0)
      /\ (faults' = 0 => AllGood(card'))
  BY <1>1, <1>2
<1> QED
  BY <1>3, SessionEnds

-----------------------------------------------------------------------------
(* The calls of a program *)

(* The directory of a session loses files or gets other names for them.    *)
LEMMA SessionRenamed ==
  ASSUME Few, NEW c, NEW w, NEW k, Session(c, w, k), NEW x \in DirSector, GoodEntries(x.files),
         UsedIn(x.files) \subseteq UsedIn(w[k.dir].files),
         \A f \in UsedIn(x.files) : /\ x.files[f].start = w[k.dir].files[f].start
                                    /\ x.files[f].length = w[k.dir].files[f].length,
         NEW v, v = With(w, k.dir, x)
  PROVE  /\ Session(c, v, k) /\ v[k.dir] = x /\ \A t \in System \ {k.dir} : v[t] = w[t]
         /\ v[k.fat] = w[k.fat]
<1>1. /\ k.dir \in Dirs /\ k.fat \in Fats /\ k.dir \in System /\ k.fat \in System
      /\ Other(k.fat) \in Fats /\ Other(k.dir) \in System /\ Other(k.fat) \in System
      /\ k.dir # Other(k.dir) /\ k.fat # Other(k.fat)
      /\ k.dir \notin Fats /\ DOMAIN w = System /\ FatOK(w[k.fat]) /\ w[k.fat].ok
      /\ Together(DirsIn(c, w, k), FatsIn(c, w, k), w[k.fat])
  BY SessionIs
<1>2. DOMAIN v = System /\ v[k.dir] = x /\ \A t \in System \ {k.dir} : v[t] = w[t]
  BY <1>1 DEF With
<1>3. v[k.fat] = w[k.fat] /\ v[Other(k.fat)] = w[Other(k.fat)] /\ v[Other(k.dir)] = w[Other(k.dir)]
  BY <1>1, <1>2
<1>4. FatOK(v[Other(k.fat)]) /\ v[Other(k.fat)].ok
  BY <1>1, <1>3 DEF Session
<1>5. FatsIn(c, v, k) = FatsIn(c, w, k)
  BY <1>3 DEF FatsIn
<1>6. \A x2 \in DirsIn(c, v, k) : \E y \in DirsIn(c, w, k) :
        /\ UsedIn(x2.files) \subseteq UsedIn(y.files)
        /\ \A f \in UsedIn(x2.files) : x2.files[f].start = y.files[f].start /\ x2.files[f].length = y.files[f].length
  <2>1. w[k.dir] \in DirsIn(c, w, k)
    BY DEF DirsIn
  <2>2. ASSUME NEW x2 \in DirsIn(c, v, k), x2 # x PROVE x2 \in DirsIn(c, w, k)
    BY <1>2, <2>2 DEF DirsIn
  <2> SUFFICES ASSUME NEW x2 \in DirsIn(c, v, k)
               PROVE  \E y \in DirsIn(c, w, k) :
                        /\ UsedIn(x2.files) \subseteq UsedIn(y.files)
                        /\ \A f \in UsedIn(x2.files) : x2.files[f].start = y.files[f].start
                                                       /\ x2.files[f].length = y.files[f].length
    OBVIOUS
  <2>3. CASE x2 = x
    BY <2>1, <2>3
  <2>4. CASE x2 # x
    BY <2>2, <2>4
  <2> QED
    BY <2>3, <2>4
<1>7. Together(DirsIn(c, v, k), FatsIn(c, w, k), w[k.fat])
  BY <1>1, <1>6, DirsLeft
<1>8. Session(c, v, k)
  BY <1>1, <1>2, <1>3, <1>4, <1>5, <1>7, SessionChanged
<1> QED
  BY <1>2, <1>3, <1>8

(* The FAT of a session changes, in blocks of no candidate file.           *)
LEMMA SessionMarked ==
  ASSUME Few, NEW c, NEW w, NEW k, Session(c, w, k), NEW n, FatOK(n), n.ok,
         \A x \in DirsIn(c, w, k) : \A b \in AllBlocks(w[k.fat].next, x.files) : n.next[b] = w[k.fat].next[b],
         NEW v, DOMAIN v = System, v[k.fat] = n, v[k.dir] = w[k.dir], v[Other(k.dir)] = w[Other(k.dir)],
         FatOK(v[Other(k.fat)]), v[Other(k.fat)].ok
  PROVE  Session(c, v, k)
<1>1. /\ k.dir \in Dirs /\ k.fat \in Fats /\ DirOK(w[k.dir])
      /\ Together(DirsIn(c, w, k), FatsIn(c, w, k), w[k.fat])
      /\ \A x \in DirsIn(c, w, k) : x \in DirSector
  BY SessionIs
<1>2. DirsIn(c, v, k) = DirsIn(c, w, k)
  BY DEF DirsIn
<1>3. w[k.fat] \in FatsIn(c, w, k) /\ FatsIn(c, v, k) \subseteq FatsIn(c, w, k) \cup {n}
  BY DEF FatsIn
<1>4. \A x \in DirsIn(c, w, k) : Lengths(x.files)
  BY <1>1, LengthsAre
<1>5. Together(DirsIn(c, w, k), FatsIn(c, v, k), n)
  BY <1>1, <1>3, <1>4, FatChanged
<1>6. v[k.dir] \in DirSector /\ GoodEntries(v[k.dir].files)
  BY <1>1 DEF DirOK
<1> QED
  BY <1>2, <1>5, <1>6, SessionChanged

(* A Boolean value.                                                        *)
Flag(ok) == ok \in BOOLEAN

(* The directory x with the entry e for file f.                            *)
DirPut(x, f, e, ok) == [x EXCEPT !.files[f] = e, !.ok = ok]

(* Such a directory, field by field.                                       *)
LEMMA DirWith ==
  ASSUME NEW x \in DirSector, NEW f \in File, NEW e \in Entry, NEW ok, Flag(ok),
         NEW y, y = DirPut(x, f, e, ok)
  PROVE  /\ y \in DirSector /\ y.code = x.code /\ y.ok = ok
         /\ y.files[f] = e /\ \A g \in File \ {f} : y.files[g] = x.files[g]
<1>1. x.files \in [File -> Entry] /\ x.code \in Code
  BY DEF DirSector
<1>2. y = [ok |-> ok, code |-> x.code, files |-> [x.files EXCEPT ![f] = e]]
  BY DEF DirSector, DirPut
<1>3. [x.files EXCEPT ![f] = e] \in [File -> Entry]
  BY <1>1
<1> QED
  BY <1>1, <1>2, <1>3 DEF DirSector, Flag

(* CARDDelete keeps the invariant: until the directory is written, the     *)
(* blocks of the file are not freed, so both directories fit both FATs.    *)
LEMMA FilesDeleted ==
  ASSUME Few, NEW n, FilesInv, TypeOK', CARDDeleteAsync(n)
  PROVE  FilesInv'
<1>1. Usable
  BY DEF CARDDeleteAsync
<1>2. CASE Refuse
  BY <1>1, <1>2, FilesRefused
<1>3. CASE ~Refuse
  <2> DEFINE md == work[cur.dir]
             mf == work[cur.fat]
             W(f) == [work EXCEPT ![cur.dir].files[f] = Unused]
  <2>1. PICK f \in Named(n) : StartUpdate(W(f), cur.dir, Operation("delete", None, dirFiles[f]))
                              /\ UNCHANGED <<card, cur, attached, listening, faults>>
    BY <1>3 DEF CARDDeleteAsync
  <2> DEFINE w == W(f)
             e == dirFiles[f]
             x == [md EXCEPT !.files[f] = Unused, !.ok = md.ok]
  <2>2. Mounted /\ Session(card, work, cur)
    BY <1>1, UsableIs, MountedIs
  <2>3. /\ cur.dir \in Dirs /\ cur.dir \in System /\ DOMAIN work = System /\ DirOK(md) /\ FatOK(mf) /\ cur.dir # cur.fat
        /\ Together(DirsIn(card, work, cur), FatsIn(card, work, cur), mf)
        /\ cur.fat \in System
    BY <2>2, SessionIs
  <2>4. md \in DirSector /\ GoodEntries(md.files) /\ md.files \in [File -> Entry]
    BY <2>3 DEF DirOK, DirSector
  <2>5. f \in UsedIn(md.files) /\ f \in File /\ e = md.files[f] /\ e \in Entry
    BY <2>4 DEF Named, UsedIn, dirFiles
  <2>6. w = With(work, cur.dir, x)
    <3>1. [md EXCEPT !.files[f] = Unused] = [md EXCEPT !.files[f] = Unused, !.ok = md.ok]
      BY <2>4, <2>5 DEF DirSector
    <3>2. w = [work EXCEPT ![cur.dir] = [md EXCEPT !.files[f] = Unused]]
      OBVIOUS
    <3> HIDE DEF w
    <3> QED
      BY <3>1, <3>2 DEF With
  <2>7. Unused \in Entry /\ ~Unused.used
    BY DEF Unused, Entry, None
  <2>8. /\ x \in DirSector /\ x.code = md.code
        /\ x.files[f] = Unused /\ \A g \in File \ {f} : x.files[g] = md.files[g]
    <3> HIDE DEF md, x
    <3>1. x = DirPut(md, f, Unused, md.ok)
      BY DEF x, DirPut
    <3>2. Flag(md.ok)
      BY <2>4 DEF Flag, DirSector
    <3> QED
      BY <2>4, <2>5, <2>7, <3>1, <3>2, DirWith
  <2> HIDE DEF x, w
  <2>9. /\ UsedIn(x.files) = UsedIn(md.files) \ {f}
        /\ \A g \in UsedIn(x.files) : x.files[g] = md.files[g]
    BY <2>5, <2>7, <2>8 DEF UsedIn
  <2>10. GoodEntries(x.files)
    BY <2>4, <2>9 DEF GoodEntries
  <2>11. /\ Session(card, w, cur) /\ w[cur.dir] = x /\ \A t \in System \ {cur.dir} : w[t] = work[t]
         /\ w[cur.fat] = mf
    BY <2>2, <2>6, <2>8, <2>9, <2>10, SessionRenamed
  <2>12. \A t \in {cur.dir, cur.fat} : w[t].code = work[t].code
    BY <2>8, <2>11
  <2>13. GoodFiles(mf.next, md.files)
    <3>1. md \in DirsIn(card, work, cur) /\ mf \in FatsIn(card, work, cur)
      BY DEF DirsIn, FatsIn
    <3> QED
      BY <2>3, <3>1 DEF Together, Fits
  <2>14. Apart(mf.next, e, x.files)
    <3>1. GoodChain(mf.next, e)
      BY <2>5, <2>13, GoodFilesIs
    <3>2. \A g \in UsedIn(x.files) : BlocksOf(mf.next, e) \cap BlocksOf(mf.next, x.files[g]) = {}
      BY <2>5, <2>9, <2>13, GoodFilesIs
    <3>3. BlocksOf(mf.next, e) \cap AllBlocks(mf.next, x.files) = {}
      BY <3>2, BlocksAre
    <3> QED
      BY <3>1, <3>3 DEF Apart
  <2>15. Pending(Begun(cur.dir, "delete", None, e), card, w, cur)
    BY <2>3, <2>5, <2>11, <2>14 DEF Pending, Begun
  <2>16. StartUpdate(w, cur.dir, Operation("delete", None, e)) /\ UNCHANGED <<card, cur, attached, listening, faults>>
    BY <2>1 DEF w
  <2> HIDE DEF e
  <2> QED
    BY <1>1, <2>11, <2>12, <2>15, <2>16, CallBegins
<1> QED
  BY <1>2, <1>3

(* CARDRename keeps the invariant.                                         *)
LEMMA FilesRenamed ==
  ASSUME Few, NEW old \in Name, NEW new \in Name, FilesInv, TypeOK', CARDRenameAsync(old, new)
  PROVE  FilesInv'
<1>1. Usable
  BY DEF CARDRenameAsync
<1>2. CASE Refuse
  BY <1>1, <1>2, FilesRefused
<1>3. CASE ~Refuse
  <2> DEFINE md == work[cur.dir]
             mf == work[cur.fat]
             W(f) == [work EXCEPT ![cur.dir].files[f].name = new]
  <2>1. PICK f \in Named(old) : StartUpdate(W(f), cur.dir, Save) /\ Named(new) = {}
                                /\ UNCHANGED <<card, cur, attached, listening, faults>>
    BY <1>3 DEF CARDRenameAsync
  <2> DEFINE w == W(f)
             e == [md.files[f] EXCEPT !.name = new]
             x == [md EXCEPT !.files[f] = e, !.ok = md.ok]
  <2>2. Mounted /\ Session(card, work, cur)
    BY <1>1, UsableIs, MountedIs
  <2>3. /\ cur.dir \in Dirs /\ cur.dir \in System /\ DOMAIN work = System /\ DirOK(md) /\ FatOK(mf) /\ cur.dir # cur.fat
        /\ cur.fat \in System
    BY <2>2, SessionIs
  <2>4. md \in DirSector /\ GoodEntries(md.files) /\ md.files \in [File -> Entry]
    BY <2>3 DEF DirOK, DirSector
  <2>5. f \in UsedIn(md.files) /\ f \in File /\ md.files[f] \in Entry
    BY <2>4 DEF Named, UsedIn, dirFiles
  <2>6. w = With(work, cur.dir, x)
    <3>1. [md EXCEPT !.files[f].name = new] = [md EXCEPT !.files[f] = e, !.ok = md.ok]
      BY <2>4, <2>5 DEF DirSector
    <3>2. w = [work EXCEPT ![cur.dir] = [md EXCEPT !.files[f].name = new]]
      OBVIOUS
    <3> HIDE DEF w
    <3> QED
      BY <3>1, <3>2 DEF With
  <2>7. e \in Entry /\ e.name = new /\ e.start = md.files[f].start /\ e.length = md.files[f].length /\ e.used = md.files[f].used
    BY <2>5 DEF Entry
  <2> HIDE DEF e
  <2>8. /\ x \in DirSector /\ x.code = md.code
        /\ x.files[f] = e /\ \A g \in File \ {f} : x.files[g] = md.files[g]
    <3> HIDE DEF md, x
    <3>1. x = DirPut(md, f, e, md.ok)
      BY DEF x, DirPut
    <3>2. Flag(md.ok)
      BY <2>4 DEF Flag, DirSector
    <3> QED
      BY <2>4, <2>5, <2>7, <3>1, <3>2, DirWith
  <2> HIDE DEF x, w
  <2>9. /\ UsedIn(x.files) = UsedIn(md.files)
        /\ \A g \in UsedIn(x.files) : x.files[g].start = md.files[g].start /\ x.files[g].length = md.files[g].length
    BY <2>5, <2>7, <2>8 DEF UsedIn
  <2>10. GoodEntries(x.files)
    <3>1. \A g \in UsedIn(md.files) : md.files[g].name # new
      BY <2>1 DEF Named, UsedIn, dirFiles
    <3>2. \A g \in UsedIn(x.files) : g # f => x.files[g] = md.files[g]
      BY <2>8 DEF UsedIn
    <3>3. \A g \in UsedIn(x.files) : x.files[g].length >= 1 /\ x.files[g].name \in Name
      BY <2>4, <2>7, <2>8, <2>9, <3>2 DEF GoodEntries
    <3>4. ASSUME NEW g \in UsedIn(x.files), NEW h \in UsedIn(x.files), x.files[g].name = x.files[h].name PROVE g = h
      <4>1. \A i, j \in UsedIn(md.files) : md.files[i].name = md.files[j].name => i = j
        BY <2>4 DEF GoodEntries
      <4>2. /\ g \in UsedIn(md.files) /\ h \in UsedIn(md.files)
            /\ x.files[g].name = IF g = f THEN new ELSE md.files[g].name
            /\ x.files[h].name = IF h = f THEN new ELSE md.files[h].name
        BY <2>7, <2>8, <2>9, <3>2
      <4> QED
        BY ONLY <3>1, <3>4, <4>1, <4>2
    <3> QED
      BY <3>3, <3>4 DEF GoodEntries
  <2>11. /\ Session(card, w, cur) /\ w[cur.dir] = x /\ \A t \in System \ {cur.dir} : w[t] = work[t]
         /\ w[cur.fat] = mf
    BY <2>2, <2>6, <2>8, <2>9, <2>10, SessionRenamed
  <2>12. \A t \in {cur.dir, cur.fat} : w[t].code = work[t].code
    BY <2>8, <2>11
  <2>15. Pending(Begun(cur.dir, "nothing", None, Unused), card, w, cur)
    BY <2>3 DEF Pending, Begun
  <2>16. StartUpdate(w, cur.dir, Operation("nothing", None, Unused)) /\ UNCHANGED <<card, cur, attached, listening, faults>>
    BY <2>1 DEF w, Save
  <2> QED
    BY <1>1, <2>11, <2>12, <2>15, <2>16, CallBegins
<1> QED
  BY <1>2, <1>3

(* CARDCreate keeps the invariant: it takes blocks of no file of either    *)
(* directory.                                                              *)
LEMMA FilesCreated ==
  ASSUME Few, NEW n \in Name, NEW length \in Length, FilesInv, TypeOK', CARDCreateAsync(n, length)
  PROVE  FilesInv'
<1>1. Usable
  BY DEF CARDCreateAsync
<1>2. CASE Refuse
  BY <1>1, <1>2, FilesRefused
<1>3. CASE ~Refuse
  <2> DEFINE md == work[cur.dir]
             mf == work[cur.fat]
             unused == {f \in File : ~md.files[f].used}
             f == Min(unused)
             e == [Unused EXCEPT !.name = n, !.length = length]
             ok == md.ok /\ md.files[f] = e
             a == Allocated(mf, length)
             ee == [e EXCEPT !.used = TRUE, !.start = FirstAllocated(mf)]
             w == [work EXCEPT ![cur.dir].files[f] = e, ![cur.dir].ok = @ /\ md.files[f] = e, ![cur.fat] = a]
             x == DirPut(md, f, e, ok)
             v == With(work, cur.dir, x)
  <2>1. /\ Named(n) = {} /\ unused # {} /\ ~(mf.free < length)
        /\ StartUpdate(w, cur.fat, Operation("create", f, ee))
        /\ UNCHANGED <<card, cur, attached, listening, faults>>
    BY <1>3 DEF CARDCreateAsync, dirFiles
  <2>2. Mounted /\ Session(card, work, cur)
    BY <1>1, UsableIs, MountedIs
  <2>3. /\ cur.dir \in Dirs /\ cur.dir \in System /\ DOMAIN work = System /\ DirOK(md) /\ FatOK(mf) /\ cur.dir # cur.fat
        /\ cur.fat \in System /\ mf.ok /\ Other(cur.dir) \in System /\ Other(cur.fat) \in System
        /\ Other(cur.dir) # cur.dir /\ Other(cur.fat) # cur.fat /\ Other(cur.dir) # cur.fat /\ Other(cur.fat) # cur.dir
    <3>1. /\ cur.dir \in Dirs /\ cur.dir \in System /\ DOMAIN work = System /\ DirOK(md) /\ FatOK(mf)
          /\ cur.fat \in System /\ mf.ok /\ Other(cur.dir) \in System /\ Other(cur.fat) \in System
          /\ Other(cur.dir) # cur.dir /\ Other(cur.fat) # cur.fat
          /\ cur.fat \in Fats /\ cur.dir \notin Fats /\ Other(cur.dir) \notin Fats /\ Other(cur.fat) \in Fats
      BY <2>2, SessionIs
    <3> QED
      BY <3>1
  <2>4. md \in DirSector /\ GoodEntries(md.files) /\ md.files \in [File -> Entry]
    BY <2>3 DEF DirOK, DirSector
  <2>5. f \in File /\ ~md.files[f].used
    <3>1. unused \in SUBSET Nat
      BY CARDAssumption
    <3> HIDE DEF unused
    <3>2. f \in unused
      BY <2>1, <3>1, LeastNat
    <3> QED
      BY <3>2 DEF unused
  <2> HIDE DEF f
  <2>6. e \in Entry /\ ~e.used /\ e.name = n /\ e.length = length /\ length \in Nat /\ length >= 1
    <3>1. length \in Nat /\ length >= 1
      BY CARDAssumption
    <3>2. Unused \in Entry /\ ~Unused.used
      BY DEF Unused, Entry, None
    <3> QED
      BY <3>1, <3>2 DEF Entry
  <2>7. Flag(ok)
    BY DEF Flag
  <2>8. ok = (md.ok /\ md.files[f] = e)
    OBVIOUS
  <2>9. w = With(v, cur.fat, a)
    <3> HIDE DEF e, a
    <3>1. x = [md EXCEPT !.files[f] = e, !.ok = @ /\ md.files[f] = e]
      BY <2>4 DEF DirSector, DirPut
    <3> HIDE DEF x
    <3>2. w = [work EXCEPT ![cur.dir] = x, ![cur.fat] = a]
      BY <2>3, <3>1
    <3> HIDE DEF w
    <3> QED
      BY <2>3, <3>2 DEF With
  <2> HIDE DEF w, ok, e
  <2>10. /\ x \in DirSector /\ x.code = md.code
         /\ x.files[f] = e /\ \A g \in File \ {f} : x.files[g] = md.files[g]
    <3> HIDE DEF md, x
    <3>1. x = DirPut(md, f, e, ok)
      BY DEF x
    <3> QED
      BY <2>4, <2>5, <2>6, <2>7, <3>1, DirWith
  <2> HIDE DEF x
  <2>11. /\ UsedIn(x.files) = UsedIn(md.files)
         /\ \A g \in UsedIn(x.files) : x.files[g] = md.files[g]
    BY <2>5, <2>6, <2>10 DEF UsedIn
  <2>12. GoodEntries(x.files)
    BY <2>4, <2>11 DEF GoodEntries
  <2>13. /\ Session(card, v, cur) /\ v[cur.dir] = x /\ \A t \in System \ {cur.dir} : v[t] = work[t]
         /\ v[cur.fat] = mf
    <3> HIDE DEF v
    <3>1. v = With(work, cur.dir, x)
      BY DEF v
    <3> QED
      BY <2>2, <2>10, <2>11, <2>12, <3>1, SessionRenamed
  <2> HIDE DEF v
  <2>14. mf \in FatSector /\ Counted(mf) /\ length <= mf.free
    BY <2>1, <2>3, <2>6 DEF FatOK, FatSector
  <2>15. /\ a \in FatSector /\ Counted(a) /\ a.ok = mf.ok /\ a.code = mf.code
         /\ \A b \in Block \ FreeBlocks(mf.next) : a.next[b] = mf.next[b]
    <3> HIDE DEF a
    <3>1. a = Allocated(mf, length)
      BY DEF a
    <3> QED
      BY <2>6, <2>14, <3>1, AllocatedIs
  <2>16. /\ ee \in Entry /\ ee.used /\ ee.length = length /\ ee.start = FirstAllocated(mf) /\ ee.name = n
         /\ GoodChain(a.next, ee) /\ BlocksOf(a.next, ee) \subseteq FreeBlocks(mf.next)
    <3>1. FirstAllocated(mf) \in Block
      <4>1. [Unused EXCEPT !.length = length, !.start = FirstAllocated(mf)].length = length
        BY DEF Unused
      <4>2. [Unused EXCEPT !.length = length, !.start = FirstAllocated(mf)].start = FirstAllocated(mf)
        BY DEF Unused
      <4> QED
        BY <2>6, <2>14, <4>1, <4>2, AllocatedChain
    <3>2. ee \in Entry /\ ee.length = length /\ ee.start = FirstAllocated(mf) /\ ee.used /\ ee.name = n
      <4>1. FirstAllocated(mf) \in Block \cup {0}
        BY <3>1
      <4> DEFINE first == FirstAllocated(mf)
      <4> HIDE DEF first
      <4>2. ee = [e EXCEPT !.used = TRUE, !.start = first] /\ first \in Block \cup {0}
        BY <4>1 DEF first
      <4> HIDE DEF ee
      <4>3. ee \in Entry /\ ee.length = length /\ ee.start = first /\ ee.used /\ ee.name = n
        BY <2>6, <4>2 DEF Entry
      <4> QED
        BY <4>3 DEF first
    <3> HIDE DEF ee
    <3>3. GoodChain(a.next, ee) /\ BlocksOf(a.next, ee) \subseteq FreeBlocks(mf.next) /\ ee.start \in Block
      BY <2>6, <2>14, <3>2, AllocatedChain DEF a
    <3> QED
      BY <3>2, <3>3
  <2> HIDE DEF a, ee
  <2>17. \A xx \in DirsIn(card, v, cur) : /\ \A b \in AllBlocks(mf.next, xx.files) : a.next[b] = mf.next[b]
                                          /\ AllBlocks(mf.next, xx.files) \cap FreeBlocks(mf.next) = {}
                                          /\ Lengths(xx.files)
    <3> TAKE xx \in DirsIn(card, v, cur)
    <3>1. Together(DirsIn(card, v, cur), FatsIn(card, v, cur), v[cur.fat]) /\ \A y \in DirsIn(card, v, cur) : y \in DirSector
      BY <2>13, SessionIs
    <3>2. mf \in FatsIn(card, v, cur)
      BY <2>13 DEF FatsIn
    <3>3. GoodFiles(mf.next, xx.files)
      BY <3>1, <3>2 DEF Together, Fits
    <3>4. Lengths(xx.files)
      BY <3>1, LengthsAre
    <3>5. AllBlocks(mf.next, xx.files) \subseteq Block /\ AllBlocks(mf.next, xx.files) \cap FreeBlocks(mf.next) = {}
      BY <3>3, <3>4, FilesBlocks
    <3> QED
      BY <2>15, <3>4, <3>5
  <2>18. w[cur.fat] = a /\ DOMAIN w = System /\ \A t \in System \ {cur.fat} : w[t] = v[t]
    <3>1. DOMAIN v = System
      BY <2>13 DEF Session
    <3> QED
      BY <2>3, <2>9, <3>1 DEF With
  <2>19. FatOK(a) /\ a.ok
    BY <2>3, <2>15 DEF FatOK
  <2>20. FatOK(w[Other(cur.fat)]) /\ w[Other(cur.fat)].ok
    <3>1. FatOK(work[Other(cur.fat)]) /\ work[Other(cur.fat)].ok
      <4>1. Other(cur.fat) \in Fats
        BY <2>2, SessionIs
      <4> QED
        BY <2>2, <4>1 DEF Session
    <3> QED
      BY <2>3, <2>13, <2>18, <3>1
  <2>21. /\ w[cur.dir] = v[cur.dir] /\ w[cur.dir] = x /\ w[Other(cur.dir)] = v[Other(cur.dir)]
    BY <2>3, <2>13, <2>18
  <2>22. Session(card, w, cur)
    BY <2>13, <2>17, <2>18, <2>19, <2>20, <2>21, SessionMarked
  <2>23. \A t \in {cur.dir, cur.fat} : w[t].code = work[t].code
    BY <2>10, <2>15, <2>18, <2>21
  <2>24. Apart(a.next, ee, x.files)
    <3>1. x \in DirsIn(card, v, cur)
      BY <2>13 DEF DirsIn
    <3>2. AllBlocks(a.next, x.files) = AllBlocks(mf.next, x.files)
      BY <2>17, <3>1, FilesSame
    <3> QED
      BY <2>16, <2>17, <3>1, <3>2 DEF Apart
  <2>25. \A g \in UsedIn(x.files) : x.files[g].name # n
    BY <2>1, <2>11 DEF Named, UsedIn, dirFiles
  <2>26. Pending(Begun(cur.fat, "create", f, ee), card, w, cur)
    BY <2>5, <2>6, <2>10, <2>16, <2>18, <2>21, <2>24, <2>25 DEF Pending, Begun
  <2> QED
    BY <1>1, <2>1, <2>22, <2>23, <2>26, CallBegins
<1> QED
  BY <1>2, <1>3

(* CARDUnmount keeps it.                                                   *)
LEMMA FilesUnmounted ==
  ASSUME Few, FilesInv, TypeOK', CARDUnmount
  PROVE  FilesInv'
<1>1. /\ UNCHANGED <<card, faults>> /\ op = NoOp /\ op' = NoOp /\ ~attached' /\ result' = "nocard"
      /\ cur' = [dir |-> None, fat |-> None] /\ ~Mounted'
  BY DEF CARDUnmount, Unmounted, Put, FilesInv, Mounted
<1>2. CardInv'
  BY <1>1 DEF FilesInv, CardInv
<1> QED
  BY <1>1, <1>2 DEF FilesInv

-----------------------------------------------------------------------------
(* Updates of a sector *)

(* An erased sector keeps it: it was the current one, and the other copy   *)
(* is good.                                                                *)
LEMMA FilesErased ==
  ASSUME Few, FilesInv, TypeOK', SectorErased
  PROVE  FilesInv'
<1> DEFINE s == op.sector
<1>1. /\ attached /\ op # NoOp /\ op.stage = "erase" /\ listening /\ result = "busy"
      /\ card' = With(card, s, Garbage) /\ op' = [op EXCEPT !.stage = "write"]
      /\ UNCHANGED <<work, cur, attached, result, listening, faults>>
  BY DEF SectorErased, InWork, With, FilesInv
<1>2. Mounted /\ MountedInv /\ Session(card, work, cur)
  <2>1. result # "broken"
    BY <1>1
  <2>2. Mounted
    BY <1>1, <2>1 DEF FilesInv, HalfInv
  <2> QED
    BY <2>2, MountedIs
<1>3. s \in {cur.dir, cur.fat} /\ work[s].ok /\ Pending(op, card, work, cur)
  BY <1>1, <1>2 DEF MountedInv
<1>4. Landed(card, work, s, Garbage)
  BY DEF Landed
<1>5. /\ Session(card', work, cur)
      /\ card'[Other(cur.dir)] = card[Other(cur.dir)] /\ card'[Other(cur.fat)] = card[Other(cur.fat)]
      /\ card'[s] = Garbage /\ \A t \in System \ {s} : card'[t] = card[t]
      /\ NewestOf(card', Dirs) = IF s = cur.dir THEN IF Garbage.ok THEN s ELSE Other(s) ELSE NewestOf(card, Dirs)
  <2> DEFINE g == Garbage
  <2>1. Landed(card, work, s, g) /\ card' = With(card, s, g)
    BY <1>1, <1>4
  <2> HIDE DEF g, s
  <2>2. /\ Session(card', work, cur)
        /\ card'[Other(cur.dir)] = card[Other(cur.dir)] /\ card'[Other(cur.fat)] = card[Other(cur.fat)]
        /\ card'[s] = g /\ \A t \in System \ {s} : card'[t] = card[t]
        /\ NewestOf(card', Dirs) = IF s = cur.dir THEN IF g.ok THEN s ELSE Other(s) ELSE NewestOf(card, Dirs)
    BY <1>2, <1>3, <2>1, SessionOnCard
  <2> QED
    BY <2>2 DEF g
<1>6. SectorsOK(card') /\ Fits(DirIn(card'), FatIn(card'))
  BY <1>5, SessionIs
<1>7. /\ op' # NoOp /\ op'.stage = "write" /\ op'.sector = s /\ op'.next = op.next /\ op'.file = op.file
      /\ op'.entry = op.entry
  BY <1>1 DEF NoOp
<1>8. CardInv'
  BY <1>1, <1>5, <1>6, <1>7 DEF CardInv, FilesInv
<1>9. Pending(op, card', work, cur)
  <2>1. SavedIn(card, work, cur) /\ s = cur.fat => SavedIn(card', work, cur)
    <3>1. cur.fat # cur.dir
      BY <1>2, SessionIs
    <3> QED
      BY <1>5, <3>1 DEF SavedIn
  <2> QED
    BY <1>3, <2>1 DEF Pending
<1>10. Pending(op', card', work, cur)
  BY <1>7, <1>9 DEF Pending
<1>11. (listening => GapOK(cur.dir) /\ GapOK(cur.fat))'
  BY <1>1, <1>2, <1>5, <1>7 DEF GapOK, MountedInv
<1>12. MountedInv'
  BY <1>1, <1>2, <1>3, <1>5, <1>7, <1>10, <1>11 DEF MountedInv
<1>13. Mounted'
  BY <1>1, <1>2 DEF Mounted
<1> QED
  BY <1>1, <1>7, <1>8, <1>12, <1>13 DEF FilesInv

(* The card and the memory after a sector was written, before what         *)
(* follows.                                                                *)
LEMMA SectorDone ==
  ASSUME Few, FilesInv, SectorWritten, NEW s, s = op.sector,
         NEW v, v = With(work, Other(s), work[s]), NEW j, j = AsCurrent(cur, Other(s))
  PROVE  /\ s \in {cur.dir, cur.fat} /\ Pending(op, card, work, cur)
         /\ cur' = j /\ attached' /\ listening' /\ faults' = faults /\ faults \in 0..MaxFaults
         /\ Session(card', v, j) /\ DOMAIN v = System
         /\ v[j.dir] = work[cur.dir] /\ v[j.fat] = work[cur.fat]
         /\ GapIn(card', v, j, faults') /\ (faults' = 0 => AllGood(card'))
         /\ s = cur.dir => SavedIn(card', v, j) /\ DirsIn(card', v, j) = {work[cur.dir]}
         /\ s = cur.fat => /\ SavedIn(card, work, cur) => SavedIn(card', v, j)
                           /\ FatsIn(card', v, j) = {work[cur.fat]}
                           /\ DirIn(card') = DirIn(card) /\ card'[Other(j.dir)] = card[Other(cur.dir)]
<1>1. /\ attached /\ op # NoOp /\ op.stage = "write" /\ listening /\ result = "busy"
      /\ card' = With(card, s, work[s]) /\ cur' = j
      /\ UNCHANGED <<attached, listening, faults>>
  BY DEF SectorWritten, InWork, With, FilesInv
<1>2. Mounted /\ MountedInv /\ Session(card, work, cur) /\ cur = [dir |-> cur.dir, fat |-> cur.fat]
      /\ faults \in 0..MaxFaults
  <2>1. result # "broken"
    BY <1>1
  <2>2. Mounted
    BY <1>1, <2>1 DEF FilesInv, HalfInv
  <2> QED
    BY <2>2, MountedIs
<1>3. s \in {cur.dir, cur.fat} /\ work[s].ok /\ Pending(op, card, work, cur) /\ GapOK(cur.dir) /\ GapOK(cur.fat)
  BY <1>1, <1>2 DEF MountedInv
<1>4. /\ cur.dir \in Dirs /\ cur.fat \in Fats /\ cur.dir # cur.fat /\ DOMAIN work = System
      /\ Other(cur.dir) \in System /\ Other(cur.fat) \in System
      /\ work[cur.dir] \in DirSector /\ work[cur.fat] \in FatSector
      /\ cur.dir \in System /\ cur.fat \in System
      /\ Other(Other(cur.dir)) = cur.dir /\ Other(Other(cur.fat)) = cur.fat
  <2>1. /\ cur.dir \in Dirs /\ cur.fat \in Fats /\ DOMAIN work = System
        /\ Other(cur.dir) \in System /\ Other(cur.fat) \in System
        /\ DirOK(work[cur.dir]) /\ FatOK(work[cur.fat])
        /\ cur.dir \in System /\ cur.fat \in System /\ cur.dir \notin Fats
        /\ Other(Other(cur.dir)) = cur.dir /\ Other(Other(cur.fat)) = cur.fat
    BY <1>2, SessionIs
  <2> QED
    BY <2>1 DEF DirOK, FatOK
<1>5. Ahead(work[s].code, card[Other(s)].code) \in Gaps
  <2>1. Ahead(work[s].code, card[Other(s)].code) \in 1..(faults + 1)
    BY <1>1, <1>3 DEF GapOK
  <2> DEFINE n == Ahead(work[s].code, card[Other(s)].code)
  <2> HIDE DEF n
  <2>2. n \in 1..(faults + 1) /\ faults \in 0..MaxFaults
    BY <1>2, <2>1 DEF n
  <2>3. n \in 1..(MaxFaults + 1)
    BY <2>2, CARDAssumption
  <2> QED
    BY <2>3 DEF Gaps, n
<1>6. /\ Session(card', v, j)
      /\ v[j.dir] = work[cur.dir] /\ v[j.fat] = work[cur.fat]
      /\ s = cur.dir => /\ j.dir = Other(s) /\ j.fat = cur.fat /\ NewestOf(card', Dirs) = s
                        /\ card'[s] = work[s] /\ DirsIn(card', v, j) = {work[cur.dir]}
      /\ s = cur.fat => /\ j.fat = Other(s) /\ j.dir = cur.dir /\ NewestOf(card', Dirs) = NewestOf(card, Dirs)
                        /\ FatsIn(card', v, j) = {work[cur.fat]} /\ card'[s] = work[s]
      /\ card'[Other(j.dir)] = IF s = cur.dir THEN work[s] ELSE card[Other(cur.dir)]
      /\ card'[Other(j.fat)] = IF s = cur.fat THEN work[s] ELSE card[Other(cur.fat)]
      /\ \A t \in System \ {s} : card'[t] = card[t]
  BY <1>1, <1>2, <1>3, <1>5, SessionWritten
<1>7. DOMAIN v = System
  BY <1>6 DEF Session
<1>8. GapIn(card', v, j, faults')
  <2>1. work[cur.dir].code \in Code /\ work[cur.fat].code \in Code
    BY <1>4 DEF DirSector, FatSector
  <2>2. Ahead(work[s].code, work[s].code) = 0 /\ 0 \in 0..faults
    BY <1>2, <1>3, <2>1, AheadIs
  <2>3. \A t \in {cur.dir, cur.fat} : t # s => Ahead(work[t].code, card[Other(t)].code) \in 0..faults
    <3> SUFFICES ASSUME NEW t \in {cur.dir, cur.fat}, t # s
                 PROVE  Ahead(work[t].code, card[Other(t)].code) \in 0..faults
      OBVIOUS
    <3>1. GapOK(t)
      BY <1>3
    <3>2. ~(op # NoOp /\ op.sector = t)
      OBVIOUS
    <3> QED
      BY <3>1, <3>2 DEF GapOK
  <2>4. Ahead(v[j.dir].code, card'[Other(j.dir)].code) \in 0..faults
    BY <1>4, <1>6, <2>2, <2>3
  <2>5. Ahead(v[j.fat].code, card'[Other(j.fat)].code) \in 0..faults
    BY <1>4, <1>6, <2>2, <2>3
  <2> QED
    BY <1>1, <2>4, <2>5 DEF GapIn
<1>9. faults' = 0 => AllGood(card')
  <2>1. faults = 0 => \A t \in System \ {s} : card[t].ok
    BY DEF FilesInv, CardInv
  <2>2. card'[s].ok
    BY <1>3, <1>6
  <2> QED
    BY <1>1, <1>6, <2>1, <2>2 DEF AllGood
<1>10. s = cur.dir => SavedIn(card', v, j)
  BY <1>3, <1>4, <1>6 DEF SavedIn
<1>11. s = cur.fat /\ SavedIn(card, work, cur) => SavedIn(card', v, j)
  BY <1>4, <1>6 DEF SavedIn
<1>12. s = cur.fat => DirIn(card') = DirIn(card) /\ card'[Other(j.dir)] = card[Other(cur.dir)]
  <2>1. SectorsOK(card) /\ cur.fat \in Fats
    BY <1>2, SessionIs
  <2>2. NewestOf(card, Dirs) \in Dirs
    BY <2>1, SectorsAre
  <2> QED
    BY <1>4, <1>6, <2>1, <2>2, Sectors DEF DirIn
<1> QED
  BY <1>1, <1>2, <1>3, <1>6, <1>7, <1>8, <1>9, <1>10, <1>11, <1>12

(* The end of a write keeps the invariant, with what it goes on to: the    *)
(* entry of the file that is created after the FAT, the FAT after the      *)
(* directory of a deletion, or the end.                                    *)
LEMMA FilesWritten ==
  ASSUME Few, FilesInv, TypeOK', SectorWritten
  PROVE  FilesInv'
<1> DEFINE s == op.sector
           v == With(work, Other(s), work[s])
           j == AsCurrent(cur, Other(s))
           md == work[cur.dir]
           mf == work[cur.fat]
<1>1. /\ s \in {cur.dir, cur.fat} /\ Pending(op, card, work, cur)
      /\ cur' = j /\ attached' /\ listening' /\ faults' = faults /\ faults \in 0..MaxFaults
      /\ Session(card', v, j) /\ DOMAIN v = System
      /\ v[j.dir] = md /\ v[j.fat] = mf
      /\ GapIn(card', v, j, faults') /\ (faults' = 0 => AllGood(card'))
      /\ s = cur.dir => SavedIn(card', v, j) /\ DirsIn(card', v, j) = {md}
      /\ s = cur.fat => /\ SavedIn(card, work, cur) => SavedIn(card', v, j)
                        /\ FatsIn(card', v, j) = {mf}
  <2> HIDE DEF s, v, j
  <2>1. s = op.sector /\ v = With(work, Other(s), work[s]) /\ j = AsCurrent(cur, Other(s))
    BY DEF s, v, j
  <2> QED
    BY <2>1, SectorDone
<1>2. \/ op.next = "nothing" /\ Put("saved") /\ work' = v
      \/ op.next = "create" /\ StartUpdate([v EXCEPT ![j.dir].files[op.file] = op.entry], j.dir, Save)
      \/ op.next = "delete" /\ StartUpdate([v EXCEPT ![j.fat] = Freed(@, op.entry)], j.fat, Save)
  BY DEF SectorWritten, With
<1> HIDE DEF v, j
<1>3. /\ j.dir \in Dirs /\ j.fat \in Fats /\ j.dir \in System /\ j.fat \in System /\ j.dir # j.fat
      /\ Other(j.dir) \in System /\ Other(j.fat) \in System /\ Other(j.fat) \in Fats
      /\ Other(j.dir) # j.dir /\ Other(j.fat) # j.fat /\ Other(j.dir) # j.fat /\ Other(j.fat) # j.dir
      /\ DirOK(md) /\ FatOK(mf) /\ mf.ok
      /\ Together(DirsIn(card', v, j), FatsIn(card', v, j), mf)
  <2>1. /\ j.dir \in Dirs /\ j.fat \in Fats /\ j.dir \in System /\ j.fat \in System
        /\ Other(j.dir) \in System /\ Other(j.fat) \in System /\ Other(j.fat) \in Fats
        /\ Other(j.dir) # j.dir /\ Other(j.fat) # j.fat /\ j.dir \notin Fats /\ Other(j.dir) \notin Fats
        /\ DirOK(v[j.dir]) /\ FatOK(v[j.fat]) /\ v[j.fat].ok
        /\ Together(DirsIn(card', v, j), FatsIn(card', v, j), v[j.fat])
    BY <1>1, SessionIs
  <2> QED
    BY <1>1, <2>1
<1>4. md \in DirSector /\ GoodEntries(md.files) /\ md.files \in [File -> Entry] /\ mf \in FatSector /\ Counted(mf)
  BY <1>3 DEF DirOK, FatOK, DirSector
<1>5. GoodFiles(mf.next, md.files)
  <2>1. md \in DirsIn(card', v, j) /\ mf \in FatsIn(card', v, j)
    BY <1>1 DEF DirsIn, FatsIn
  <2> QED
    BY <1>3, <2>1 DEF Together, Fits
<1>6. cur.dir # cur.fat
  <2>1. Mounted
    BY DEF FilesInv, HalfInv, SectorWritten, InWork
  <2>2. Session(card, work, cur)
    BY <2>1, MountedIs
  <2> QED
    BY <2>2, Sectors DEF Session
<1>7. CASE op.next = "nothing" /\ Put("saved") /\ work' = v
  <2>1. SavedIn(card', v, j)
    BY <1>1, <1>7 DEF Pending
  <2>2. op' = NoOp /\ result' = "saved"
    BY <1>7 DEF Put
  <2>3. /\ attached' /\ Session(card', work', cur') /\ faults' \in 0..MaxFaults /\ op' = NoOp
        /\ result' \in {"ready", "saved", "error"} /\ SavedIn(card', work', cur')
        /\ GapIn(card', work', cur', faults') /\ listening' /\ (faults' = 0 => AllGood(card'))
    BY <1>1, <1>7, <2>1, <2>2
  <2> QED
    BY <2>3, SessionEnds
<1>8. CASE op.next = "create" /\ StartUpdate([v EXCEPT ![j.dir].files[op.file] = op.entry], j.dir, Save)
  <2> DEFINE f == op.file
             e == op.entry
             x == DirPut(md, f, e, md.ok)
             w == [v EXCEPT ![j.dir].files[f] = e]
  <2>1. /\ s = cur.fat /\ f \in File /\ ~md.files[f].used
        /\ e \in Entry /\ e.used /\ e.length >= 1 /\ e.name \in Name
        /\ \A g \in UsedIn(md.files) : md.files[g].name # e.name
        /\ Apart(mf.next, e, md.files)
    BY <1>1, <1>8 DEF Pending
  <2>2. w = With(v, j.dir, x)
    <3>1. x = [md EXCEPT !.files[f] = e]
      BY <1>4 DEF DirSector, DirPut
    <3> HIDE DEF x
    <3>2. w = [v EXCEPT ![j.dir] = [md EXCEPT !.files[f] = e]]
      BY <1>1
    <3> HIDE DEF w
    <3> QED
      BY <3>1, <3>2 DEF With
  <2>3. StartUpdate(w, j.dir, Operation("nothing", None, Unused))
    BY <1>8 DEF Save
  <2> HIDE DEF w, f, e
  <2>4. /\ x \in DirSector /\ x.code = md.code /\ x.ok = md.ok
        /\ x.files[f] = e /\ \A g \in File \ {f} : x.files[g] = md.files[g]
    <3> HIDE DEF md, x
    <3>1. x = DirPut(md, f, e, md.ok)
      BY DEF x
    <3>2. Flag(md.ok)
      BY <1>4 DEF Flag, DirSector
    <3> QED
      BY <1>4, <2>1, <3>1, <3>2, DirWith
  <2> HIDE DEF x
  <2>5. x.files = [md.files EXCEPT ![f] = e]
    <3>1. x.files \in [File -> Entry]
      BY <2>4 DEF DirSector
    <3> QED
      BY <1>4, <2>1, <2>4, <3>1
  <2>6. GoodFiles(mf.next, x.files)
    BY <1>4, <1>5, <2>1, <2>5, FileAdded DEF Apart
  <2>7. GoodEntries(x.files)
    <3>1. /\ \A g \in UsedIn(x.files) : g # f => g \in UsedIn(md.files) /\ x.files[g] = md.files[g]
      BY <2>4 DEF UsedIn
    <3> QED
      BY <1>4, <2>1, <2>4, <3>1 DEF GoodEntries
  <2>8. w[j.dir] = x /\ DOMAIN w = System /\ \A t \in System \ {j.dir} : w[t] = v[t]
    BY <1>1, <1>3, <2>2 DEF With
  <2>9. w[j.fat] = mf /\ w[Other(j.dir)] = v[Other(j.dir)] /\ w[Other(j.fat)] = v[Other(j.fat)]
    BY <1>1, <1>3, <2>8
  <2>10. FatOK(w[Other(j.fat)]) /\ w[Other(j.fat)].ok
    <3>1. FatOK(v[Other(j.fat)]) /\ v[Other(j.fat)].ok
      BY <1>1, <1>3 DEF Session
    <3> QED
      BY <2>9, <3>1
  <2>11. Together(DirsIn(card', w, j), FatsIn(card', w, j), w[j.fat])
    <3>1. FatsIn(card', w, j) = {mf}
      BY <1>1, <2>1, <2>9 DEF FatsIn
    <3>2. DirsIn(card', w, j) \subseteq DirsIn(card', v, j) \cup {x}
      BY <2>8 DEF DirsIn
    <3>3. ASSUME NEW y \in DirsIn(card', w, j) PROVE Fits(y, mf) /\ Same(y, mf, mf)
      <4>1. CASE y = x
        BY <2>6, <4>1 DEF Fits, Same
      <4>2. CASE y # x
        <5>1. y \in DirsIn(card', v, j) /\ mf \in FatsIn(card', v, j)
          BY <1>1, <2>1, <3>2, <4>2
        <5> QED
          BY <1>3, <5>1 DEF Together
      <4> QED
        BY <4>1, <4>2
    <3> QED
      BY <2>9, <3>1, <3>3 DEF Together
  <2>12. Session(card', w, j)
    <3>1. /\ w[j.dir] \in DirSector /\ GoodEntries(w[j.dir].files) /\ FatOK(w[j.fat]) /\ w[j.fat].ok
      BY <1>3, <2>4, <2>7, <2>8, <2>9
    <3> QED
      BY <1>1, <2>8, <2>9, <2>10, <2>11, <3>1, SessionChanged
  <2>13. GapIn(card', w, j, faults')
    <3>1. w[j.dir].code = v[j.dir].code /\ w[j.fat].code = v[j.fat].code
      BY <1>1, <2>4, <2>8, <2>9
    <3> QED
      BY <1>1, <3>1 DEF GapIn
  <2>14. Pending(Begun(j.dir, "nothing", None, Unused), card', w, j)
    BY <1>3 DEF Pending, Begun
  <2>15. /\ attached' /\ faults' \in 0..MaxFaults /\ Session(card', w, cur') /\ j.dir \in {cur'.dir, cur'.fat}
         /\ Pending(Begun(j.dir, "nothing", None, Unused), card', w, cur')
         /\ GapIn(card', w, cur', faults') /\ listening' /\ (faults' = 0 => AllGood(card'))
    BY <1>1, <2>12, <2>13, <2>14
  <2> QED
    BY <2>3, <2>15, SessionBegins
<1>9. CASE op.next = "delete" /\ StartUpdate([v EXCEPT ![j.fat] = Freed(@, op.entry)], j.fat, Save)
  <2> DEFINE e == op.entry
             n == Freed(mf, e)
             w == [v EXCEPT ![j.fat] = Freed(@, e)]
  <2>1. s = cur.dir /\ e \in Entry /\ Apart(mf.next, e, md.files)
    BY <1>1, <1>9 DEF Pending
  <2>2. w[j.fat] = n /\ DOMAIN w = System /\ \A t \in System \ {j.fat} : w[t] = v[t]
    BY <1>1, <1>3
  <2>3. StartUpdate(w, j.fat, Operation("nothing", None, Unused))
    BY <1>9 DEF Save
  <2> HIDE DEF w, e
  <2>4. /\ n \in FatSector /\ Counted(n) /\ n.ok = mf.ok /\ n.code = mf.code
        /\ \A b \in Block \ BlocksOf(mf.next, e) : n.next[b] = mf.next[b]
    <3> HIDE DEF n
    <3>1. n = Freed(mf, e)
      BY DEF n
    <3>2. e.length \in Nat /\ GoodChain(mf.next, e)
      BY <2>1 DEF Entry, Apart
    <3> QED
      BY <1>4, <3>1, <3>2, FreedIs
  <2> HIDE DEF n
  <2>5. \A b \in AllBlocks(mf.next, md.files) : n.next[b] = mf.next[b]
    <3>1. Lengths(md.files)
      BY <1>4, LengthsAre
    <3>2. AllBlocks(mf.next, md.files) \subseteq Block
      BY <1>5, <3>1, FilesBlocks
    <3> QED
      BY <2>1, <2>4, <3>2 DEF Apart
  <2>6. \A x \in DirsIn(card', v, j) : \A b \in AllBlocks(v[j.fat].next, x.files) : n.next[b] = v[j.fat].next[b]
    BY <1>1, <2>1, <2>5
  <2>7. w[j.dir] = v[j.dir] /\ w[Other(j.dir)] = v[Other(j.dir)] /\ w[Other(j.fat)] = v[Other(j.fat)]
    BY <1>3, <2>2
  <2>8. FatOK(w[Other(j.fat)]) /\ w[Other(j.fat)].ok
    <3>1. FatOK(v[Other(j.fat)]) /\ v[Other(j.fat)].ok
      BY <1>1, <1>3 DEF Session
    <3> QED
      BY <2>7, <3>1
  <2>9. FatOK(n) /\ n.ok
    BY <1>3, <2>4 DEF FatOK
  <2>10. Session(card', w, j)
    BY <1>1, <2>2, <2>6, <2>7, <2>8, <2>9, SessionMarked
  <2>11. GapIn(card', w, j, faults')
    <3>1. w[j.dir].code = v[j.dir].code /\ w[j.fat].code = v[j.fat].code
      BY <1>1, <2>2, <2>4, <2>7
    <3> QED
      BY <1>1, <3>1 DEF GapIn
  <2>12. SavedIn(card', w, j)
    BY <1>1, <2>1, <2>7 DEF SavedIn
  <2>13. Pending(Begun(j.fat, "nothing", None, Unused), card', w, j)
    BY <2>12 DEF Pending, Begun
  <2>14. /\ attached' /\ faults' \in 0..MaxFaults /\ Session(card', w, cur') /\ j.fat \in {cur'.dir, cur'.fat}
         /\ Pending(Begun(j.fat, "nothing", None, Unused), card', w, cur')
         /\ GapIn(card', w, cur', faults') /\ listening' /\ (faults' = 0 => AllGood(card'))
    BY <1>1, <2>10, <2>11, <2>13
  <2> QED
    BY <2>3, <2>14, SessionBegins
<1> QED
  BY <1>2, <1>7, <1>8, <1>9

(* A session depends on the sectors of the card and on nothing else.       *)
LEMMA SessionKept ==
  ASSUME Few, NEW c, NEW w, NEW k, Session(c, w, k), NEW d, DOMAIN d = System, \A t \in System : d[t] = c[t]
  PROVE  /\ Session(d, w, k)
         /\ NewestOf(d, Dirs) = NewestOf(c, Dirs) /\ DirIn(d) = DirIn(c) /\ FatIn(d) = FatIn(c)
<1>1. /\ k.dir \in Dirs /\ k.fat \in Fats /\ Other(k.dir) \in System /\ Other(k.fat) \in System /\ SectorsOK(c)
  BY SessionIs
<1>2. NewestOf(c, Dirs) \in Dirs /\ NewestOf(c, Fats) \in Fats
  BY <1>1, SectorsAre
<1>3. (\A t \in Dirs : d[t] = c[t]) /\ (\A t \in Fats : d[t] = c[t])
  BY Sectors
<1>4. NewestOf(d, Dirs) = NewestOf(c, Dirs) /\ (PairOK(d, Dirs) <=> PairOK(c, Dirs))
  BY <1>3, Untouched, Sectors
<1>5. NewestOf(d, Fats) = NewestOf(c, Fats) /\ (PairOK(d, Fats) <=> PairOK(c, Fats))
  BY <1>3, Untouched, Sectors
<1>6. SectorsOK(d)
  BY <1>1, <1>3, <1>4, <1>5 DEF SectorsOK
<1>7. DirIn(d) = DirIn(c) /\ FatIn(d) = FatIn(c)
  BY <1>2, <1>3, <1>4, <1>5 DEF DirIn, FatIn
<1>8. d[Other(k.dir)] = c[Other(k.dir)] /\ d[Other(k.fat)] = c[Other(k.fat)]
  BY <1>1
<1>9. DirsIn(d, w, k) = DirsIn(c, w, k) /\ FatsIn(d, w, k) = FatsIn(c, w, k)
  BY <1>7, <1>8 DEF DirsIn, FatsIn
<1>10. Together(DirsIn(d, w, k), FatsIn(d, w, k), w[k.fat])
  BY <1>9 DEF Session
<1> QED
  BY <1>4, <1>6, <1>7, <1>8, <1>10 DEF Session

(* An update that is cut short leaves a session, with candidates for       *)
(* newest copies.                                                          *)
LEMMA CardInterrupted ==
  ASSUME Few, FilesInv, attached, op # NoOp, card' \in Interrupted
  PROVE  /\ Mounted /\ MountedInv /\ Session(card, work, cur) /\ Session(card', work, cur)
         /\ card'[Other(cur.dir)] = card[Other(cur.dir)] /\ card'[Other(cur.fat)] = card[Other(cur.fat)]
         /\ DirIn(card') \in DirsIn(card, work, cur) /\ FatIn(card') \in FatsIn(card, work, cur)
<1> DEFINE s == op.sector
<1>1. Mounted /\ MountedInv /\ Session(card, work, cur) /\ faults \in 0..MaxFaults
  <2>1. Mounted
    BY DEF FilesInv, HalfInv
  <2> QED
    BY <2>1, MountedIs
<1>2. PICK x \in {Garbage, IF op.stage = "erase" THEN card[s] ELSE work[s]} : card' = With(card, s, x)
  BY DEF Interrupted, With
<1>3. s \in {cur.dir, cur.fat} /\ work[s].ok /\ (op.stage = "write" => listening) /\ op.stage \in {"erase", "write"}
  BY <1>1 DEF MountedInv
<1>4. /\ cur.dir \in System /\ cur.fat \in System /\ DOMAIN card = System
      /\ Other(cur.dir) \in System /\ Other(cur.fat) \in System
  BY <1>1, SessionIs
<1>5. CASE Landed(card, work, s, x)
  <2>1. card' = With(card, s, x)
    BY <1>2
  <2>2. s \in {cur.dir, cur.fat}
    BY <1>3
  <2> HIDE DEF s
  <2>3. /\ Session(card', work, cur)
        /\ card'[Other(cur.dir)] = card[Other(cur.dir)] /\ card'[Other(cur.fat)] = card[Other(cur.fat)]
        /\ DirIn(card') \in DirsIn(card, work, cur) /\ FatIn(card') \in FatsIn(card, work, cur)
    BY <1>1, <1>5, <2>1, <2>2, SessionOnCard
  <2> QED
    BY <1>1, <2>3
<1>6. CASE x = card[s]
  <2>1. DOMAIN card' = System /\ \A t \in System : card'[t] = card[t]
    BY <1>2, <1>3, <1>4, <1>6 DEF With
  <2>2. /\ Session(card', work, cur) /\ DirIn(card') = DirIn(card) /\ FatIn(card') = FatIn(card)
    BY <1>1, <2>1, SessionKept
  <2> QED
    BY <1>1, <1>4, <2>1, <2>2 DEF DirsIn, FatsIn
<1>7. CASE op.stage = "write" /\ x = work[s]
  <2>1. GapOK(s)
    BY <1>1, <1>3, <1>7 DEF MountedInv
  <2> DEFINE n == Ahead(work[s].code, card[Other(s)].code)
  <2>2. n \in 1..(faults + 1)
    BY <2>1 DEF GapOK
  <2> HIDE DEF n
  <2>3. n \in 1..(MaxFaults + 1)
    BY <1>1, <2>2, CARDAssumption
  <2>4. Landed(card, work, s, x)
    BY <1>3, <1>7, <2>3 DEF Landed, Gaps, n
  <2> QED
    BY <1>5, <2>4
<1>8. CASE x = Garbage
  BY <1>5, <1>8 DEF Landed
<1> QED
  BY <1>2, <1>3, <1>6, <1>7, <1>8

(* A failed erase or write keeps the invariant.                            *)
LEMMA FilesFailed ==
  ASSUME Few, FilesInv, TypeOK', SectorFailed
  PROVE  FilesInv'
<1>1. /\ attached /\ op # NoOp /\ card' \in Interrupted /\ (listening => faults < MaxFaults)
      /\ faults' = (IF listening THEN faults + 1 ELSE faults) /\ (listening' => listening)
      /\ op' = NoOp /\ result' = "error" /\ UNCHANGED <<work, cur, attached>>
  <2>1. /\ attached /\ op # NoOp /\ card' \in Interrupted /\ (listening => faults < MaxFaults)
        /\ faults' = (IF listening THEN faults + 1 ELSE faults)
        /\ op' = NoOp /\ result' = "error" /\ UNCHANGED <<work, cur, attached>>
    BY DEF SectorFailed, Put
  <2>2. listening' => listening
    BY Zenon DEF SectorFailed
  <2> QED
    BY <2>1, <2>2
<1>2. /\ Mounted /\ MountedInv /\ Session(card', work, cur)
      /\ card'[Other(cur.dir)] = card[Other(cur.dir)] /\ card'[Other(cur.fat)] = card[Other(cur.fat)]
  BY <1>1, CardInterrupted
<1>3. faults \in 0..MaxFaults /\ (~listening => faults > 0)
  BY <1>2, MountedIs
<1>4. faults' \in 0..MaxFaults /\ faults' > 0
  BY <1>1, <1>3, CARDAssumption
<1>5. ASSUME listening' PROVE GapIn(card', work, cur, faults')
  <2> SUFFICES ASSUME NEW t \in {cur.dir, cur.fat}
               PROVE  Ahead(work[t].code, card'[Other(t)].code) \in 0..faults'
    BY DEF GapIn
  <2> DEFINE n == Ahead(work[t].code, card[Other(t)].code)
  <2>1. GapOK(t) /\ faults' = faults + 1
    BY <1>1, <1>2, <1>5 DEF MountedInv
  <2>2. n \in 0..faults \/ n \in 1..(faults + 1)
    BY <2>1 DEF GapOK
  <2>3. card'[Other(t)] = card[Other(t)]
    BY <1>2
  <2> HIDE DEF n
  <2>4. n \in 0..faults'
    BY <1>3, <2>1, <2>2, CARDAssumption
  <2> QED
    BY <2>3, <2>4 DEF n
<1>6. /\ attached' /\ Session(card', work', cur') /\ result' \in {"ready", "saved", "error"}
      /\ result' \notin {"ready", "saved"} /\ (listening' => GapIn(card', work', cur', faults'))
      /\ op' = NoOp /\ faults' \in 0..MaxFaults /\ faults' # 0 /\ faults' > 0
  BY <1>1, <1>2, <1>4, <1>5
<1> QED
  BY <1>6, SessionEnds

(* Loss of power, or of the card, keeps it.                                *)
LEMMA FilesLost ==
  ASSUME Few, FilesInv, TypeOK', CardLost
  PROVE  FilesInv'
<1>1. /\ attached /\ faults < MaxFaults /\ faults' = faults + 1 /\ card' \in Interrupted
      /\ op' = NoOp /\ ~attached' /\ result' = "nocard" /\ cur' = [dir |-> None, fat |-> None] /\ ~Mounted'
  BY DEF CardLost, Unmounted, Put, Mounted
<1>2. faults \in 0..MaxFaults
  BY DEF FilesInv
<1>3. faults' \in 0..MaxFaults /\ faults' # 0
  BY <1>1, <1>2, CARDAssumption
<1>4. SectorsOK(card') /\ Fits(DirIn(card'), FatIn(card'))
  <2>1. CASE op = NoOp
    <3>1. card' = card
      BY <1>1, <2>1 DEF Interrupted
    <3> QED
      BY <3>1 DEF FilesInv, CardInv
  <2>2. CASE op # NoOp
    <3>1. Session(card', work, cur)
      BY <1>1, <2>2, CardInterrupted
    <3> QED
      BY <3>1, SessionIs
  <2> QED
    BY <2>1, <2>2
<1>5. CardInv'
  BY <1>1, <1>3, <1>4 DEF CardInv
<1> QED
  BY <1>1, <1>3, <1>5 DEF FilesInv

-----------------------------------------------------------------------------
(* Mount and check *)

(* A new session: the older copies are current and have the contents of    *)
(* the newest.                                                             *)
LEMMA SessionStarts ==
  ASSUME Few, NEW c, SectorsOK(c), NEW w, DOMAIN w = System,
         NEW k, NEW D, D = NewestOf(c, Dirs), NEW F, F = NewestOf(c, Fats),
         k = [dir |-> Other(D), fat |-> Other(F)],
         NEW x, x = c[D], NEW y, y = c[F],
         NEW n, FatOK(n), n.ok, Fits(x, n), Same(x, n, y), Fits(x, y), n.code = y.code,
         w[D] \in DirSector, w[D] = c[D], w[Other(D)] = x, w[F] = n \/ w[F] = y, w[Other(F)] = n
  PROVE  /\ Session(c, w, k) /\ SavedIn(c, w, k) /\ \A i \in Nat : GapIn(c, w, k, i)
         /\ k.dir = Other(D) /\ k.fat = Other(F)
<1>1. /\ D \in Dirs /\ F \in Fats /\ IsNewest(c, D) /\ IsNewest(c, F) /\ DirOK(x) /\ FatOK(y)
  BY SectorsAre
<1>2. /\ Other(D) \in Dirs /\ Other(F) \in Fats /\ Other(Other(D)) = D /\ Other(Other(F)) = F
      /\ Dirs = {D, Other(D)} /\ Fats = {F, Other(F)}
  BY <1>1, PairIs, Sectors
<1>3. k.dir = Other(D) /\ k.fat = Other(F) /\ Other(k.dir) = D /\ Other(k.fat) = F
  BY <1>2
<1>4. x.ok /\ y.ok /\ x.code \in Code /\ y.code \in Code /\ x \in DirSector /\ GoodEntries(x.files)
  BY <1>1 DEF IsNewest, DirOK, FatOK, DirSector, FatSector
<1>5. DirsIn(c, w, k) = {x} /\ FatsIn(c, w, k) = {n, y}
  BY <1>3 DEF DirsIn, FatsIn, DirIn, FatIn
<1>6. Together({x}, {n, y}, n)
  BY DEF Together, Same
<1>7. \A t \in Dirs : w[t] \in DirSector
  BY <1>2, <1>4
<1>8. \A t \in Fats : FatOK(w[t]) /\ w[t].ok
  BY <1>1, <1>2, <1>4
<1>9. Session(c, w, k)
  <2>1. k.dir \in Dirs /\ k.fat \in Fats /\ SectorsOK(c) /\ DOMAIN w = System
    BY <1>2, <1>3
  <2>2. GoodEntries(w[k.dir].files)
    BY <1>3, <1>4
  <2>3. c[Other(k.dir)].ok /\ c[Other(k.fat)].ok /\ c[Other(k.dir)] = w[Other(k.dir)]
    BY <1>3, <1>4
  <2>4. Together(DirsIn(c, w, k), FatsIn(c, w, k), w[k.fat])
    <3>1. w[k.fat] = n
      BY <1>3
    <3> QED
      BY ONLY <1>5, <1>6, <3>1
  <2> QED
    BY ONLY <1>7, <1>8, <2>1, <2>2, <2>3, <2>4 DEF Session
<1>10. SavedIn(c, w, k)
  BY <1>2, <1>3, <1>4 DEF SavedIn
<1>11. Ahead(x.code, x.code) = 0 /\ Ahead(y.code, y.code) = 0
  BY <1>4, AheadIs
<1>12. ASSUME NEW i \in Nat PROVE GapIn(c, w, k, i)
  <2>1. 0 \in 0..i
    OBVIOUS
  <2>2. /\ Ahead(w[k.dir].code, c[Other(k.dir)].code) = 0
        /\ Ahead(w[k.fat].code, c[Other(k.fat)].code) = 0
    BY <1>3, <1>11
  <2> QED
    BY <2>1, <2>2 DEF GapIn
<1> QED
  BY <1>3, <1>9, <1>10, <1>12

(* What the invariant says of a card without an operation.                 *)
LEMMA CardIdle ==
  ASSUME FilesInv, result # "busy"
  PROVE  /\ op = NoOp /\ SectorsOK(card) /\ Fits(DirIn(card), FatIn(card)) /\ faults \in 0..MaxFaults
         /\ (faults = 0 => AllGood(card)) /\ (attached /\ ~listening => faults > 0)
<1>1. op = NoOp
  BY DEF FilesInv
<1> QED
  BY <1>1 DEF FilesInv, CardInv, AllGood

(* CARDMount keeps the invariant.                                          *)
LEMMA FilesMounted ==
  ASSUME Few, FilesInv, TypeOK', CARDMountAsync
  PROVE  FilesInv'
<1> DEFINE D == NewestOf(card, Dirs)
           F == NewestOf(card, Fats)
           v == VerifyBoth(card, [dir |-> None, fat |-> None])
           x == card[D]
           y == card[F]
<1>1. /\ result # "busy" /\ ~Overflowed(Dirs) /\ ~Overflowed(Fats)
      /\ work' = v.work /\ cur' = v.cur /\ op' = NoOp
      /\ result' = (IF v.bad = {} THEN "ready" ELSE "broken")
      /\ attached' /\ listening' /\ UNCHANGED <<card, faults>>
  BY DEF CARDMountAsync, Put
<1>2. /\ op = NoOp /\ SectorsOK(card) /\ Fits(DirIn(card), FatIn(card)) /\ faults \in 0..MaxFaults
      /\ (faults = 0 => AllGood(card))
  BY <1>1, CardIdle
<1>3. InOrder(card, Dirs) /\ InOrder(card, Fats)
  BY <1>1 DEF Overflowed, InOrder
<1>4. /\ v.bad = {} <=> card[Other(D)].ok /\ card[Other(F)].ok
      /\ v.cur = [dir |-> IF card[Other(D)].ok THEN Other(D) ELSE None, fat |-> IF card[Other(F)].ok THEN Other(F) ELSE None]
      /\ DOMAIN v.work = System
      /\ v.work[D] = x /\ v.work[Other(D)] = IF card[Other(D)].ok THEN x ELSE card[Other(D)]
      /\ v.work[F] = y /\ v.work[Other(F)] = IF card[Other(F)].ok THEN y ELSE card[Other(F)]
  <2> HIDE DEF v, D, F
  <2>1. v = VerifyBoth(card, [dir |-> None, fat |-> None]) /\ D = NewestOf(card, Dirs) /\ F = NewestOf(card, Fats)
    BY DEF v, D, F
  <2> QED
    BY <1>2, <1>3, <2>1, VerifyBothCard
<1> HIDE DEF v
<1>5. /\ D \in Dirs /\ F \in Fats /\ IsNewest(card, D) /\ IsNewest(card, F) /\ DirOK(x) /\ FatOK(y)
  BY <1>2, SectorsAre
<1>6. x.ok /\ y.ok /\ x \in DirSector /\ Fits(x, y) /\ Same(x, y, y)
  BY <1>2, <1>5 DEF IsNewest, DirOK, DirIn, FatIn, Same
<1>7. /\ Other(D) \in Dirs /\ Other(F) \in Fats /\ Dirs = {D, Other(D)} /\ Fats = {F, Other(F)}
      /\ None \notin Dirs /\ None \notin Fats
  BY <1>5, PairIs, Sectors
<1>8. CardInv'
  BY <1>1, <1>2 DEF CardInv, FilesInv, AllGood
<1>9. CASE card[Other(D)].ok /\ card[Other(F)].ok
  <2>1. /\ cur' = [dir |-> Other(D), fat |-> Other(F)] /\ work'[D] = x /\ work'[Other(D)] = x
        /\ work'[F] = y /\ work'[Other(F)] = y /\ DOMAIN work' = System /\ result' = "ready"
    BY <1>1, <1>4, <1>9
  <2>2. D = NewestOf(card, Dirs) /\ F = NewestOf(card, Fats) /\ x = card[D] /\ y = card[F]
    OBVIOUS
  <2> HIDE DEF D, F, x, y
  <2>3. Session(card, work', cur') /\ SavedIn(card, work', cur') /\ \A i \in Nat : GapIn(card, work', cur', i)
    BY <1>2, <1>5, <1>6, <2>1, <2>2, SessionStarts
  <2>4. faults \in Nat
    BY <1>2
  <2>5. /\ attached' /\ Session(card', work', cur') /\ faults' \in 0..MaxFaults /\ op' = NoOp
        /\ result' \in {"ready", "saved", "error"} /\ SavedIn(card', work', cur')
        /\ GapIn(card', work', cur', faults') /\ listening' /\ (faults' = 0 => AllGood(card'))
    BY <1>1, <1>2, <2>1, <2>3, <2>4
  <2> QED
    BY <2>5, SessionEnds
<1>10. CASE ~(card[Other(D)].ok /\ card[Other(F)].ok)
  <2>1. ~Mounted'
    BY <1>1, <1>4, <1>10 DEF Mounted
  <2>2. result' = "broken" /\ DOMAIN work' = System
    BY <1>1, <1>4, <1>10
  <2>3. IF cur'.dir = None THEN (\A s \in Dirs : work'[s] = card'[s]) /\ \E s \in Dirs : ~card'[s].ok
        ELSE cur'.dir = Other(D) /\ card'[cur'.dir].ok /\ \A s \in Dirs : work'[s] = x
    <3>1. CASE card[Other(D)].ok
      BY <1>1, <1>4, <1>7, <3>1
    <3>2. CASE ~card[Other(D)].ok
      BY <1>1, <1>4, <1>7, <3>2
    <3> QED
      BY <3>1, <3>2
  <2>4. IF cur'.fat = None THEN (\A s \in Fats : work'[s] = card'[s]) /\ \E s \in Fats : ~card'[s].ok
        ELSE cur'.fat = Other(F) /\ card'[cur'.fat].ok /\ \A s \in Fats : work'[s] = y
    <3>1. CASE card[Other(F)].ok
      BY <1>1, <1>4, <1>7, <3>1
    <3>2. CASE ~card[Other(F)].ok
      BY <1>1, <1>4, <1>7, <3>2
    <3> QED
      BY <3>1, <3>2
  <2>5. HalfInv'
    BY <1>1, <2>2, <2>3, <2>4 DEF HalfInv, BadCopy, DirIn, FatIn
  <2> QED
    BY <1>1, <1>2, <1>8, <2>1, <2>2, <2>5 DEF FilesInv
<1> QED
  BY <1>9, <1>10

(* What CARDCheck does after it has looked at the sectors.                 *)
LEMMA UpdateIs ==
  ASSUME NEW c, UpdateChecked(c)
  PROVE  /\ cur' = c.cur
         /\ c.update = "dir" => StartUpdate(c.work, c.cur.dir, Save)
         /\ c.update = "fat" => StartUpdate(c.work, c.cur.fat, Save)
         /\ c.update = "none" => Put("ready") /\ work' = c.work
         /\ c.update = "broken" => Put("broken") /\ work' = c.work
<1>1. "dir" # "fat" /\ "dir" # "none" /\ "dir" # "broken" /\ "fat" # "none" /\ "fat" # "broken" /\ "none" # "broken"
  OBVIOUS
<1> QED
  BY <1>1, Zenon DEF UpdateChecked

(* CARDCheck of a mounted card keeps the invariant.                        *)
LEMMA CheckInSession ==
  ASSUME Few, FilesInv, TypeOK', CARDCheckAsync, Mounted
  PROVE  FilesInv' /\ cur' = cur /\ result' # "saved"
<1> DEFINE D == Other(cur.dir)
           F == Other(cur.fat)
           md == work[cur.dir]
           mf == work[cur.fat]
           fat == WithoutOrphans(mf, md.files)
           r == Checked(work, cur)
<1>1. /\ result \in {"ready", "saved"} /\ UpdateChecked(r) /\ UNCHANGED <<card, attached, listening, faults>>
  BY Zenon DEF CARDCheckAsync, Checkable, Mounted
<1>2. /\ op = NoOp /\ faults \in 0..MaxFaults /\ (faults = 0 => AllGood(card)) /\ (~listening => faults > 0) /\ attached
  BY <1>1, CardIdle DEF Mounted
<1>3. /\ MountedInv /\ Session(card, work, cur) /\ cur = [dir |-> cur.dir, fat |-> cur.fat]
      /\ listening => GapIn(card, work, cur, faults)
  BY <1>2, MountedIs
<1>4. SavedIn(card, work, cur)
  BY <1>1, <1>3 DEF MountedInv
<1>5. /\ cur.dir \in Dirs /\ cur.fat \in Fats /\ cur.dir \in System /\ cur.fat \in System
      /\ D \in Dirs /\ F \in Fats /\ D \in System /\ F \in System /\ Other(D) = cur.dir /\ Other(F) = cur.fat
      /\ cur.dir # D /\ cur.fat # F /\ cur.dir \notin Fats /\ cur.fat \notin Dirs /\ D \notin Fats /\ F \notin Dirs
      /\ DOMAIN work = System /\ DirOK(md) /\ FatOK(mf) /\ mf.ok
      /\ Together(DirsIn(card, work, cur), FatsIn(card, work, cur), mf)
      /\ None \notin Dirs /\ None \notin Fats
      /\ Dirs = {cur.dir, D} /\ Fats = {cur.fat, F}
  BY <1>3, SessionIs, Sectors, PairIs
<1>6. BothValid(work, Dirs) /\ BothValid(work, Fats)
  <2>1. work[D].ok /\ md.ok
    BY <1>3, <1>4 DEF Session, SavedIn
  <2>2. \A s \in Fats : FatOK(work[s]) /\ work[s].ok
    BY <1>3 DEF Session
  <2>3. \A s \in Dirs : work[s].ok
    BY <1>5, <2>1
  <2> QED
    BY <2>2, <2>3, SealedIsValid DEF BothValid
<1>7. Fits(md, mf)
  <2>1. md \in DirsIn(card, work, cur) /\ mf \in FatsIn(card, work, cur)
    BY DEF DirsIn, FatsIn
  <2> QED
    BY <1>5, <2>1 DEF Together
<1>8. /\ r.update = (IF fat # mf THEN "fat" ELSE "none")
      /\ r.cur = cur
      /\ DOMAIN r.work = System
      /\ r.work[D] = work[D] /\ r.work[cur.dir] = md /\ r.work[F] = fat /\ r.work[cur.fat] = fat
  <2> HIDE DEF r, fat, D, F, md, mf
  <2>1. PairFound(work, cur.dir, Dirs, D) /\ PairFound(work, cur.fat, Fats, F)
    BY <1>5, <1>6 DEF PairFound
  <2>2. md = Current(work, cur.dir, D) /\ mf = Current(work, cur.fat, F)
    BY <1>5 DEF Current, md, mf
  <2>3. r = Checked(work, cur) /\ fat = WithoutOrphans(mf, md.files) /\ GoodFiles(mf.next, md.files)
    BY <1>7 DEF r, fat, Fits
  <2>4. (cur.dir # None \/ cur.fat # None) /\ DOMAIN work = System /\ D \in Dirs /\ F \in Fats
    BY <1>5
  <2>5. /\ r.update = (IF cur.dir = None THEN "dir" ELSE IF cur.fat = None \/ fat # mf THEN "fat" ELSE "none")
        /\ r.cur = [dir |-> Other(D), fat |-> Other(F)]
        /\ DOMAIN r.work = System
        /\ r.work[D] = work[D] /\ r.work[Other(D)] = md /\ r.work[F] = fat /\ r.work[Other(F)] = fat
    BY <1>3, <2>1, <2>2, <2>3, <2>4, CheckedIs
  <2>6. [dir |-> Other(D), fat |-> Other(F)] = cur
    BY <1>3, <1>5
  <2> QED
    BY <1>5, <2>5, <2>6
<1> HIDE DEF r
<1>9. /\ FatOK(fat) /\ fat.ok /\ fat.code = mf.code
      /\ \A b \in AllBlocks(mf.next, md.files) : fat.next[b] = mf.next[b]
  <2> HIDE DEF fat
  <2>1. fat = WithoutOrphans(mf, md.files)
    BY DEF fat
  <2>2. md \in DirSector
    BY <1>5 DEF DirOK
  <2> QED
    BY <1>5, <1>7, <2>1, <2>2, OrphansFit
<1>10. \A x \in DirsIn(card, work, cur) : x.files = md.files
  BY <1>4 DEF SavedIn, DirsIn, DirIn
<1> HIDE DEF fat
<1>11. Session(card, r.work, cur)
  <2>1. \A x \in DirsIn(card, work, cur) : \A b \in AllBlocks(mf.next, x.files) : fat.next[b] = mf.next[b]
    BY <1>9, <1>10
  <2> QED
    BY <1>3, <1>8, <1>9, <2>1, SessionMarked
<1>12. SavedIn(card, r.work, cur)
  BY <1>4, <1>8 DEF SavedIn
<1>13. listening => GapIn(card, r.work, cur, faults)
  BY <1>3, <1>8, <1>9 DEF GapIn
<1>14. cur' = cur
  BY <1>1, <1>8, UpdateIs
<1>15. CASE r.update = "none"
  <2>1. Put("ready") /\ work' = r.work
    BY <1>1, <1>15, UpdateIs
  <2>2. op' = NoOp /\ result' = "ready"
    BY <2>1 DEF Put
  <2>3. /\ attached' /\ Session(card', work', cur') /\ faults' \in 0..MaxFaults /\ op' = NoOp
        /\ result' \in {"ready", "saved", "error"} /\ SavedIn(card', work', cur')
        /\ (listening' => GapIn(card', work', cur', faults')) /\ (~listening' => faults' > 0)
        /\ (faults' = 0 => AllGood(card'))
    BY <1>1, <1>2, <1>11, <1>12, <1>13, <1>14, <2>1, <2>2
  <2>4. FilesInv'
    BY <2>3, SessionEnds
  <2> QED
    BY <1>14, <2>2, <2>4
<1>16. CASE r.update = "fat"
  <2>1. StartUpdate(r.work, r.cur.fat, Save)
    BY <1>1, <1>16, UpdateIs
  <2>2. StartUpdate(r.work, cur.fat, Operation("nothing", None, Unused))
    BY <1>8, <2>1 DEF Save
  <2>3. Pending(Begun(cur.fat, "nothing", None, Unused), card, r.work, cur)
    BY <1>12 DEF Pending, Begun
  <2> DEFINE w == r.work
  <2> HIDE DEF w
  <2>4. /\ attached' /\ faults' \in 0..MaxFaults /\ Session(card', w, cur') /\ cur.fat \in {cur'.dir, cur'.fat}
        /\ Pending(Begun(cur.fat, "nothing", None, Unused), card', w, cur')
        /\ (listening' => GapIn(card', w, cur', faults')) /\ (~listening' => faults' > 0)
        /\ (faults' = 0 => AllGood(card'))
    BY <1>1, <1>2, <1>11, <1>13, <1>14, <2>3 DEF w
  <2>5. StartUpdate(w, cur.fat, Operation("nothing", None, Unused))
    BY <2>2 DEF w
  <2>6. FilesInv'
    BY <2>4, <2>5, SessionBegins
  <2>7. result' = "busy"
    BY <2>5 DEF StartUpdate
  <2> QED
    BY <1>14, <2>6, <2>7
<1> QED
  BY <1>8, <1>15, <1>16

(* CARDCheck of a card with a bad copy keeps it, and makes of it a mounted *)
(* one.                                                                    *)
LEMMA CheckAfterMount ==
  ASSUME Few, FilesInv, TypeOK', CARDCheckAsync, ~Mounted
  PROVE  FilesInv' /\ (Mounted' => Other(cur'.dir) = NewestOf(card, Dirs)) /\ result' # "saved"
<1> DEFINE D == NewestOf(card, Dirs)
           F == NewestOf(card, Fats)
           x == card[D]
           y == card[F]
           fat == WithoutOrphans(y, x.files)
           r == Checked(work, cur)
<1>1. /\ attached /\ result # "busy" /\ UpdateChecked(r) /\ UNCHANGED <<card, attached, listening, faults>>
  BY DEF CARDCheckAsync, Checkable
<1>2. /\ op = NoOp /\ SectorsOK(card) /\ Fits(x, y) /\ faults \in 0..MaxFaults
      /\ (faults = 0 => AllGood(card)) /\ (~listening => faults > 0)
  BY <1>1, CardIdle DEF DirIn, FatIn
<1>3. HalfInv /\ cur = [dir |-> cur.dir, fat |-> cur.fat] /\ (cur.dir = None \/ cur.fat = None) /\ DOMAIN work = System
  <2>1. cur \in [dir : Dirs \cup {None}, fat : Fats \cup {None}]
    BY DEF FilesInv, TypeOK
  <2> QED
    BY <1>1, <2>1 DEF FilesInv, HalfInv, Mounted
<1>4. /\ D \in Dirs /\ F \in Fats /\ IsNewest(card, D) /\ IsNewest(card, F) /\ DirOK(x) /\ FatOK(y)
      /\ \A s \in System : Valid(card[s], s) <=> card[s].ok
  BY <1>2, SectorsAre
<1>5. x.ok /\ y.ok /\ x \in DirSector
  BY <1>4 DEF IsNewest, DirOK
<1>6. /\ Other(D) \in Dirs /\ Other(F) \in Fats /\ Dirs = {D, Other(D)} /\ Fats = {F, Other(F)}
      /\ None \notin Dirs /\ None \notin Fats
      /\ D \in System /\ F \in System /\ Other(D) \in System /\ Other(F) \in System
  BY <1>4, PairIs, Sectors
<1>7. PairFound(work, cur.dir, Dirs, D) /\ x = Current(work, cur.dir, D) /\ work[D] = x
  <2>1. CASE cur.dir = None
    <3>1. (\A s \in Dirs : work[s] = card[s]) /\ \E s \in Dirs : ~card[s].ok
      BY <1>3, <2>1 DEF HalfInv, BadCopy
    <3>2. work[D] = x /\ work[Other(D)] = card[Other(D)] /\ ~card[Other(D)].ok
      BY <1>5, <1>6, <3>1
    <3>3. Valid(work[D], D) /\ ~Valid(work[Other(D)], Other(D))
      BY <1>4, <1>5, <1>6, <3>2
    <3> QED
      BY <2>1, <3>2, <3>3 DEF PairFound, Current
  <2>2. CASE cur.dir # None
    <3>1. cur.dir = Other(D) /\ \A s \in Dirs : work[s] = x
      BY <1>3, <2>2 DEF HalfInv, DirIn
    <3>2. BothValid(work, Dirs)
      BY <1>5, <3>1, SealedIsValid DEF BothValid
    <3> QED
      BY <1>4, <1>6, <2>2, <3>1, <3>2 DEF PairFound, Current
  <2> QED
    BY <2>1, <2>2
<1>8. PairFound(work, cur.fat, Fats, F) /\ y = Current(work, cur.fat, F) /\ work[F] = y
  <2>1. CASE cur.fat = None
    <3>1. (\A s \in Fats : work[s] = card[s]) /\ \E s \in Fats : ~card[s].ok
      BY <1>3, <2>1 DEF HalfInv, BadCopy
    <3>2. work[F] = y /\ work[Other(F)] = card[Other(F)] /\ ~card[Other(F)].ok
      BY <1>5, <1>6, <3>1
    <3>3. Valid(work[F], F) /\ ~Valid(work[Other(F)], Other(F))
      BY <1>4, <1>5, <1>6, <3>2
    <3> QED
      BY <2>1, <3>2, <3>3 DEF PairFound, Current
  <2>2. CASE cur.fat # None
    <3>1. cur.fat = Other(F) /\ \A s \in Fats : work[s] = y
      BY <1>3, <2>2 DEF HalfInv, FatIn
    <3>2. BothValid(work, Fats)
      BY <1>4, <1>5, <3>1, SealedIsValid DEF BothValid
    <3> QED
      BY <1>4, <1>6, <2>2, <3>1, <3>2 DEF PairFound, Current
  <2> QED
    BY <2>1, <2>2
<1>9. D = NewestOf(card, Dirs) /\ F = NewestOf(card, Fats) /\ x = card[D] /\ y = card[F]
      /\ fat = WithoutOrphans(y, x.files) /\ r = Checked(work, cur)
  OBVIOUS
<1>10. CASE cur.dir = None /\ cur.fat = None
  <2> HIDE DEF r, D, F, x, y, fat
  <2>1. cur = [dir |-> None, fat |-> None]
    BY <1>3, <1>10
  <2>2. r = [update |-> "broken", cur |-> cur, work |-> work]
    BY <1>4, <1>7, <1>8, <1>9, <1>10, <2>1, CheckedBroken
  <2>3. cur' = cur /\ Put("broken") /\ work' = work
    BY <1>1, <2>2, UpdateIs
  <2>4. op' = NoOp /\ result' = "broken"
    BY <2>3 DEF Put
  <2>5. HalfInv' /\ ~Mounted'
    <3>1. result = "broken"
      BY <1>3 DEF HalfInv
    <3> QED
      BY <1>1, <1>2, <1>3, <2>3, <2>4, <3>1, <1>10 DEF HalfInv, BadCopy, DirIn, FatIn, Mounted
  <2>6. CardInv'
    BY <1>1, <1>2, <2>4 DEF CardInv, FilesInv
  <2> QED
    BY <1>1, <1>2, <2>4, <2>5, <2>6 DEF FilesInv
<1>11. CASE cur.dir # None \/ cur.fat # None
  <2> HIDE DEF r, D, F, x, y, fat
  <2>1. /\ r.update = (IF cur.dir = None THEN "dir" ELSE IF cur.fat = None \/ fat # y THEN "fat" ELSE "none")
        /\ r.cur = [dir |-> Other(D), fat |-> Other(F)]
        /\ DOMAIN r.work = System
        /\ r.work[D] = work[D] /\ r.work[Other(D)] = x /\ r.work[F] = fat /\ r.work[Other(F)] = fat
    <3>1. GoodFiles(y.next, x.files)
      BY <1>2 DEF Fits
    <3> QED
      BY <1>3, <1>4, <1>7, <1>8, <1>9, <1>11, <3>1, CheckedIs
  <2>2. FatOK(fat) /\ fat.ok /\ fat.code = y.code /\ Fits(x, fat) /\ Same(x, fat, y)
    BY <1>2, <1>4, <1>5, <1>9, OrphansFit
  <2> DEFINE w == r.work
             k == r.cur
  <2>3. k = [dir |-> Other(D), fat |-> Other(F)] /\ DOMAIN w = System /\ w[D] = x /\ w[Other(D)] = x
        /\ w[F] = fat /\ w[Other(F)] = fat
    BY <1>7, <2>1
  <2> HIDE DEF w, k
  <2>4. /\ Session(card, w, k) /\ SavedIn(card, w, k) /\ \A i \in Nat : GapIn(card, w, k, i)
        /\ k.dir = Other(D) /\ k.fat = Other(F)
    <3>1. w[D] \in DirSector /\ w[D] = card[D] /\ (w[F] = fat \/ w[F] = y)
      BY <1>5, <1>9, <2>3
    <3> QED
      BY <1>2, <1>5, <1>9, <2>2, <2>3, <3>1, SessionStarts
  <2>5. \E s \in {k.dir, k.fat} : StartUpdate(w, s, Operation("nothing", None, Unused))
    <3>1. CASE cur.dir = None
      <4>1. StartUpdate(r.work, r.cur.dir, Save)
        BY <1>1, <2>1, <3>1, UpdateIs
      <4> QED
        BY <4>1 DEF Save, w, k
    <3>2. CASE cur.dir # None
      <4>1. StartUpdate(r.work, r.cur.fat, Save)
        BY <1>1, <1>3, <2>1, <3>2, UpdateIs
      <4> QED
        BY <4>1 DEF Save, w, k
    <3> QED
      BY <3>1, <3>2
  <2>6. PICK s \in {k.dir, k.fat} : StartUpdate(w, s, Operation("nothing", None, Unused))
    BY <2>5
  <2>7. Pending(Begun(s, "nothing", None, Unused), card, w, k)
    BY <2>4 DEF Pending, Begun
  <2>8. cur' = k
    BY <1>1, UpdateIs DEF k
  <2>9. faults \in Nat
    BY <1>2
  <2>10. /\ attached' /\ faults' \in 0..MaxFaults /\ Session(card', w, cur') /\ s \in {cur'.dir, cur'.fat}
         /\ Pending(Begun(s, "nothing", None, Unused), card', w, cur')
         /\ GapIn(card', w, cur', faults') /\ (~listening' => faults' > 0)
         /\ (faults' = 0 => AllGood(card'))
    BY <1>1, <1>2, <2>4, <2>7, <2>8, <2>9
  <2>11. FilesInv'
    BY <2>6, <2>10, SessionBegins
  <2>12. result' = "busy"
    BY <2>6 DEF StartUpdate
  <2>13. Other(cur'.dir) = NewestOf(card, Dirs)
    <3>1. Other(Other(D)) = D
      BY <1>4, PairIs, Sectors
    <3> QED
      BY <1>9, <2>4, <2>8, <3>1
  <2> QED
    BY <2>11, <2>12, <2>13
<1> QED
  BY <1>10, <1>11

(* So CARDCheck keeps it.                                                  *)
LEMMA FilesSurveyed ==
  ASSUME Few, FilesInv, TypeOK', CARDCheckAsync
  PROVE  FilesInv'
BY CheckInSession, CheckAfterMount

-----------------------------------------------------------------------------
(* The invariant, and what follows *)

(* The types of what is neither a sector nor a cursor.                     *)
Kinds ==
  /\ attached \in BOOLEAN /\ listening \in BOOLEAN
  /\ result \in {"nocard", "ready", "broken", "busy", "saved", "error"}
  /\ op # NoOp => op.stage \in {"erase", "write"}

(* An update begins with an erase.                                         *)
LEMMA UpdateKinds ==
  ASSUME NEW w, NEW s, NEW next, NEW file, NEW entry, StartUpdate(w, s, Operation(next, file, entry))
  PROVE  result' = "busy" /\ op'.stage = "erase"
<1>1. op' = [Operation(next, file, entry) EXCEPT !.stage = "erase", !.sector = s] /\ result' = "busy"
  BY DEF StartUpdate
<1>2. op'.stage = "erase"
  BY <1>1 DEF Operation
<1> QED
  BY <1>1, <1>2

(* A refusal keeps these types.                                            *)
LEMMA RefusedKinds == Kinds /\ Refuse => Kinds'
BY DEF Refuse, Put, Kinds

(* Every step keeps these types.                                           *)
LEMMA KindsStay ==
  ASSUME Kinds, Next
  PROVE  Kinds'
<1>1. CASE CARDMountAsync
  BY <1>1 DEF CARDMountAsync, Put, Kinds
<1>2. CASE CARDUnmount
  BY <1>2 DEF CARDUnmount, Unmounted, Put, Kinds
<1>3. CASE CARDCheckAsync
  <2> DEFINE c == Checked(work, cur)
  <2>1. UpdateChecked(c) /\ UNCHANGED <<attached, listening>>
    BY <1>3 DEF CARDCheckAsync
  <2> HIDE DEF c
  <2>2. c.update \in {"dir", "fat", "none", "broken"}
    BY DEF c, Checked, FilesChecked
  <2>3. (\E w, s : StartUpdate(w, s, Save)) \/ (\E r \in {"ready", "broken"} : Put(r))
    BY <2>1, <2>2, UpdateIs
  <2>4. (\E w, s : StartUpdate(w, s, Operation("nothing", None, Unused))) \/ (\E r \in {"ready", "broken"} : Put(r))
    BY <2>3 DEF Save
  <2>5. CASE \E r \in {"ready", "broken"} : Put(r)
    BY <2>1, <2>5 DEF Put, Kinds
  <2>6. CASE \E w, s : StartUpdate(w, s, Operation("nothing", None, Unused))
    <3>1. result' = "busy" /\ op'.stage = "erase"
      BY <2>6, UpdateKinds
    <3> QED
      BY <2>1, <3>1 DEF Kinds
  <2> QED
    BY <2>4, <2>5, <2>6
<1>4. ASSUME NEW n \in Name, NEW length \in Length, CARDCreateAsync(n, length) PROVE Kinds'
  <2>1. Refuse \/ (/\ \E w, s, file, entry : StartUpdate(w, s, Operation("create", file, entry))
                   /\ UNCHANGED <<attached, listening>>)
    BY <1>4 DEF CARDCreateAsync
  <2>2. ASSUME NEW w, NEW s, NEW file, NEW entry, StartUpdate(w, s, Operation("create", file, entry)),
               UNCHANGED <<attached, listening>>
        PROVE  Kinds'
    <3>1. result' = "busy" /\ op'.stage = "erase"
      BY <2>2, UpdateKinds
    <3> QED
      BY <2>2, <3>1 DEF Kinds
  <2> QED
    BY <2>1, <2>2, RefusedKinds
<1>5. ASSUME NEW n \in Name, CARDDeleteAsync(n) PROVE Kinds'
  <2>1. Refuse \/ (/\ \E w, s, entry : StartUpdate(w, s, Operation("delete", None, entry))
                   /\ UNCHANGED <<attached, listening>>)
    BY <1>5 DEF CARDDeleteAsync
  <2>2. ASSUME NEW w, NEW s, NEW entry, StartUpdate(w, s, Operation("delete", None, entry)),
               UNCHANGED <<attached, listening>>
        PROVE  Kinds'
    <3>1. result' = "busy" /\ op'.stage = "erase"
      BY <2>2, UpdateKinds
    <3> QED
      BY <2>2, <3>1 DEF Kinds
  <2> QED
    BY <2>1, <2>2, RefusedKinds
<1>6. ASSUME NEW old \in Name, NEW new \in Name, CARDRenameAsync(old, new) PROVE Kinds'
  <2>1. Refuse \/ (/\ \E w, s : StartUpdate(w, s, Operation("nothing", None, Unused))
                   /\ UNCHANGED <<attached, listening>>)
    BY <1>6 DEF CARDRenameAsync, Save
  <2>2. ASSUME NEW w, NEW s, StartUpdate(w, s, Operation("nothing", None, Unused)), UNCHANGED <<attached, listening>>
        PROVE  Kinds'
    <3>1. result' = "busy" /\ op'.stage = "erase"
      BY <2>2, UpdateKinds
    <3> QED
      BY <2>2, <3>1 DEF Kinds
  <2> QED
    BY <2>1, <2>2, RefusedKinds
<1>7. CASE SectorErased
  <2>1. op # NoOp /\ op.stage = "erase" /\ op' = [op EXCEPT !.stage = "write"] /\ UNCHANGED <<attached, listening, result>>
    BY <1>7 DEF SectorErased, InWork
  <2>2. op' = op \/ op'.stage = "write"
    BY <2>1
  <2> QED
    BY <2>1, <2>2 DEF Kinds
<1>8. CASE SectorWritten
  <2>1. /\ UNCHANGED <<attached, listening>>
        /\ Put("saved") \/ \E w, s : StartUpdate(w, s, Operation("nothing", None, Unused))
    BY <1>8 DEF SectorWritten, Save
  <2>2. CASE Put("saved")
    BY <2>1, <2>2 DEF Put, Kinds
  <2>3. ASSUME NEW w, NEW s, StartUpdate(w, s, Operation("nothing", None, Unused))
        PROVE  Kinds'
    <3>1. result' = "busy" /\ op'.stage = "erase"
      BY <2>3, UpdateKinds
    <3> QED
      BY <2>1, <3>1 DEF Kinds
  <2> QED
    BY <2>1, <2>2, <2>3
<1>9. CASE SectorFailed
  BY <1>9 DEF SectorFailed, Put, Kinds
<1>10. CASE CardLost
  BY <1>10 DEF CardLost, Unmounted, Put, Kinds
<1> QED
  BY <1>1, <1>2, <1>3, <1>4, <1>5, <1>6, <1>7, <1>8, <1>9, <1>10 DEF Next

(* Every step keeps the types: those of the sectors and cursors are part   *)
(* of DirInv.                                                              *)
LEMMA TypeStays ==
  ASSUME DirInv, DirInv', TypeOK, Next
  PROVE  TypeOK'
<1>1. Kinds'
  BY KindsStay DEF TypeOK, Kinds
<1>2. cur'.dir \in Dirs /\ cur'.fat \in Fats => cur'.dir \in System /\ cur'.fat \in System
  BY Sectors
<1>3. (op # NoOp => op.sector \in System)'
  BY <1>2 DEF DirInv, Working
<1> QED
  BY <1>1, <1>3 DEF DirInv, Memory, Cursors, Kinds, TypeOK

(* The invariant holds of a card that was just formatted.                  *)
LEMMA FilesInits ==
  ASSUME Few, Init
  PROVE  FilesInv
<1> DEFINE D(c) == [ok |-> TRUE, code |-> c, files |-> [f \in File |-> Unused]]
           F(c) == [ok |-> TRUE, code |-> c, next |-> [b \in Block |-> Avail], free |-> cBlock - 5, last |-> 4]
<1>1. card[1] = D(0) /\ card[2] = D(1) /\ card[3] = F(0) /\ card[4] = F(1) /\ DOMAIN card = System
  BY DEF Init, Formatted, System, Dirs
<1>2. 0 \in Code /\ 1 \in Code /\ Half > 1 /\ Half \in Nat
  BY CARDAssumption DEF Few, Code
<1>3. Unused \in Entry /\ ~Unused.used
  BY DEF Unused, Entry, None
<1>4. ASSUME NEW c \in {0, 1} PROVE DirOK(D(c)) /\ UsedIn(D(c).files) = {}
  <2>1. D(c) \in DirSector
    BY <1>2, <1>3 DEF DirSector
  <2>2. UsedIn(D(c).files) = {}
    BY <1>3 DEF UsedIn
  <2> QED
    BY <2>1, <2>2 DEF DirOK, GoodEntries
<1>5. ASSUME NEW c \in {0, 1} PROVE FatOK(F(c))
  <2>1. F(c) \in FatSector
    BY <1>2, CARDAssumption DEF FatSector
  <2>2. FreeBlocks(F(c).next) = Block
    BY DEF FreeBlocks
  <2>3. F(c).free = cBlock - 5
    OBVIOUS
  <2> HIDE DEF F
  <2> QED
    BY <2>1, <2>2, <2>3, BlocksFinite DEF FatOK, Counted
<1>6. card[1].ok /\ card[2].ok /\ card[3].ok /\ card[4].ok /\ card[2].code = 1 /\ card[1].code = 0
      /\ card[4].code = 1 /\ card[3].code = 0
  BY <1>1
<1>7. DirOK(card[1]) /\ DirOK(card[2]) /\ FatOK(card[3]) /\ FatOK(card[4]) /\ UsedIn(card[2].files) = {}
  BY <1>1, <1>4, <1>5
<1> HIDE DEF D, F
<1>8. Ahead(1, 0) = 1 /\ 1 \in Gaps
  BY CARDAssumption DEF Ahead, Gaps
<1>9. IsNewest(card, 2) /\ IsNewest(card, 4)
  BY <1>6, <1>8 DEF IsNewest, Other
<1>10. Coded(card, Dirs) /\ Coded(card, Fats)
  BY <1>2, <1>6 DEF Coded, Dirs, Fats
<1>11. 2 \in Dirs /\ 4 \in Fats
  BY DEF Dirs, Fats
<1>12. NewestOf(card, Dirs) = 2 /\ NewestOf(card, Fats) = 4
  BY <1>9, <1>10, <1>11, NewestUnique, Sectors
<1>13. PairOK(card, Dirs) /\ PairOK(card, Fats)
  BY <1>9, <1>11, PairFrom, Sectors
<1>14. SectorsOK(card)
  BY <1>1, <1>6, <1>7, <1>13 DEF SectorsOK, Dirs, Fats
<1>15. Fits(DirIn(card), FatIn(card))
  <2>1. GoodFiles(card[4].next, card[2].files)
    BY <1>7, GoodFilesIs
  <2> QED
    BY <1>12, <2>1 DEF Fits, DirIn, FatIn
<1>16. /\ op = NoOp /\ faults = 0 /\ ~attached /\ result = "nocard" /\ cur = [dir |-> None, fat |-> None] /\ attached = FALSE
       /\ listening = FALSE /\ DOMAIN work = System
  BY DEF Init
<1>17. \A s \in System : card[s].ok
  BY <1>6 DEF System
<1>18. CardInv
  BY <1>14, <1>15, <1>16, <1>17 DEF CardInv
<1>19. TypeOK
  BY <1>1, <1>16 DEF TypeOK
<1>20. ~Mounted /\ faults \in 0..MaxFaults
  BY <1>16, CARDAssumption DEF Mounted
<1> QED
  BY <1>16, <1>18, <1>19, <1>20 DEF FilesInv

(* Every step keeps the invariant.                                         *)
LEMMA FilesSteps ==
  ASSUME Few, DirInv, FilesInv, [Next]_vars
  PROVE  FilesInv'
<1>1. CASE UNCHANGED vars
  <2>1. /\ card' = card /\ work' = work /\ cur' = cur /\ attached' = attached /\ result' = result
        /\ op' = op /\ listening' = listening /\ faults' = faults
    BY <1>1 DEF vars
  <2> QED
    BY <2>1 DEF FilesInv, TypeOK, CardInv, MountedInv, HalfInv, GapOK, BadCopy, Mounted
<1>2. CASE Next
  <2>1. DirInv'
    BY Steps
  <2>2. TypeOK'
    BY <1>2, <2>1, TypeStays DEF FilesInv
  <2> QED
    BY <1>2, <2>2, FilesMounted, FilesUnmounted, FilesSurveyed, FilesCreated, FilesDeleted, FilesRenamed,
       FilesErased, FilesWritten, FilesFailed, FilesLost DEF Next
<1> QED
  BY <1>1, <1>2

(* The invariant says that the card can be recovered.                      *)
LEMMA FilesRecoverable ==
  ASSUME Few, FilesInv
  PROVE  Recoverable
<1>1. SectorsOK(card) /\ Fits(DirIn(card), FatIn(card))
  BY DEF FilesInv, CardInv
<1>2. Overflowed(Dirs) \/ Overflowed(Fats) \/ (BadCopy(Dirs) /\ BadCopy(Fats)) \/ FoundWhole(Recovered)
  BY <1>1, Recovers
<1>3. BadCopy(Dirs) /\ BadCopy(Fats) => faults > 0
  <2> SUFFICES ASSUME BadCopy(Dirs), BadCopy(Fats), faults = 0 PROVE FALSE
    BY DEF FilesInv
  <2>1. PICK s \in Dirs : ~card[s].ok
    BY DEF BadCopy
  <2>2. PICK t \in Fats : ~card[t].ok
    BY DEF BadCopy
  <2>3. s # t /\ s \in System /\ t \in System
    BY Sectors
  <2> QED
    BY <2>1, <2>2, <2>3 DEF FilesInv, CardInv
<1>4. Mounted => GoodFiles(work[cur.fat].next, work[cur.dir].files)
  <2> SUFFICES ASSUME Mounted PROVE GoodFiles(work[cur.fat].next, work[cur.dir].files)
    OBVIOUS
  <2>1. Session(card, work, cur)
    BY MountedIs
  <2>2. Together(DirsIn(card, work, cur), FatsIn(card, work, cur), work[cur.fat])
    BY <2>1 DEF Session
  <2> QED
    BY <2>2 DEF Together, DirsIn, FatsIn, Fits
<1> QED
  BY <1>2, <1>3, <1>4 DEF Recoverable, FilesInv

(* Whatever was interrupted, a mount and CARDCheck find exactly the files  *)
(* of the newest directory, each with its own blocks and all other blocks  *)
(* free, while fewer updates fail than a check code can count apart.       *)
THEOREM CardRecovers ==
  ASSUME Few
  PROVE  Spec => []Recoverable
<1>1. Init => DirInv /\ FilesInv
  BY Inits, FilesInits
<1>2. (DirInv /\ FilesInv) /\ [Next]_vars => (DirInv /\ FilesInv)'
  BY Steps, FilesSteps
<1>3. DirInv /\ FilesInv => Recoverable
  BY FilesRecoverable
<1> QED
  BY <1>1, <1>2, <1>3, PTL DEF Spec

-----------------------------------------------------------------------------
(* Refinement *)

(* The files that a restart would find on the card c.                      *)
FoundIn(c) == FilesOf(DirIn(c), FatIn(c))

(* The files of the copy that is not current.                              *)
KeptIn(c, k) == FilesOf(c[Other(k.dir)], FatIn(c))

(* The files of the memory, as the program sees them.                      *)
AskedIn(w, k) == FilesOf(w[k.dir], w[k.fat])

(* Each candidate directory shows one of these three, and when the memory  *)
(* has been saved they are one.                                            *)
LEMMA Views ==
  ASSUME Few, NEW c, NEW w, NEW k, Session(c, w, k)
  PROVE  /\ \A x \in DirsIn(c, w, k), y \in FatsIn(c, w, k) :
              FilesOf(x, y) = FilesOf(x, w[k.fat]) /\ FilesOf(x, y) \in {FoundIn(c), KeptIn(c, k), AskedIn(w, k)}
         /\ KeptIn(c, k) = FilesOf(c[Other(k.dir)], w[k.fat])
         /\ FoundIn(c) = FilesOf(DirIn(c), w[k.fat])
         /\ SavedIn(c, w, k) => FoundIn(c) = AskedIn(w, k) /\ KeptIn(c, k) = AskedIn(w, k)
<1>1. Together(DirsIn(c, w, k), FatsIn(c, w, k), w[k.fat])
  BY DEF Session
<1>2. \A x \in DirsIn(c, w, k), y \in FatsIn(c, w, k) : FilesOf(x, y) = FilesOf(x, w[k.fat])
  BY <1>1, FilesOfTogether
<1>3. FatIn(c) \in FatsIn(c, w, k) /\ c[Other(k.dir)] \in DirsIn(c, w, k) /\ DirIn(c) \in DirsIn(c, w, k)
  BY DEF FatsIn, DirsIn
<1>4. KeptIn(c, k) = FilesOf(c[Other(k.dir)], w[k.fat])
  BY <1>2, <1>3 DEF KeptIn
<1>5. FoundIn(c) = FilesOf(DirIn(c), w[k.fat])
  BY <1>2, <1>3 DEF FoundIn
<1>6. ASSUME NEW x \in DirsIn(c, w, k) PROVE FilesOf(x, w[k.fat]) \in {FoundIn(c), KeptIn(c, k), AskedIn(w, k)}
  <2>1. x = w[k.dir] \/ x = c[Other(k.dir)] \/ x = DirIn(c)
    BY DEF DirsIn
  <2> QED
    BY <1>4, <1>5, <2>1 DEF AskedIn
<1>7. SavedIn(c, w, k) => FoundIn(c) = AskedIn(w, k) /\ KeptIn(c, k) = AskedIn(w, k)
  <2> SUFFICES ASSUME SavedIn(c, w, k) PROVE FoundIn(c) = AskedIn(w, k) /\ KeptIn(c, k) = AskedIn(w, k)
    OBVIOUS
  <2>1. DirIn(c) = c[Other(k.dir)] /\ c[Other(k.dir)].files = w[k.dir].files
    BY DEF SavedIn, DirIn
  <2>2. FilesOf(c[Other(k.dir)], w[k.fat]) = FilesOf(w[k.dir], w[k.fat])
    BY <2>1, SameFiles
  <2> QED
    BY <1>4, <1>5, <2>1, <2>2 DEF AskedIn
<1>8. \A x \in DirsIn(c, w, k), y \in FatsIn(c, w, k) : FilesOf(x, y) \in {FoundIn(c), KeptIn(c, k), AskedIn(w, k)}
  <2> SUFFICES ASSUME NEW x \in DirsIn(c, w, k), NEW y \in FatsIn(c, w, k)
               PROVE  FilesOf(x, y) \in {FoundIn(c), KeptIn(c, k), AskedIn(w, k)}
    OBVIOUS
  <2>1. FilesOf(x, y) = FilesOf(x, w[k.fat])
    BY <1>2
  <2> QED
    BY <1>6, <2>1
<1> QED
  BY <1>2, <1>4, <1>5, <1>7, <1>8

(* What CARDFiles calls kept.                                              *)
KeptFiles == IF Mounted THEN KeptIn(card, cur) ELSE FoundIn(card)

(* What CARDFiles calls asked.                                             *)
AskedFiles == IF Mounted THEN AskedIn(work, cur) ELSE FoundIn(card)

(* The refinement mapping of CARD is these.                                *)
LEMMA Mapped ==
  /\ OnCard(Newest(Dirs)) = FoundIn(card)
  /\ OnCard(IF Mounted THEN Other(cur.dir) ELSE Newest(Dirs)) = KeptFiles
  /\ (IF Mounted THEN FilesOf(work[cur.dir], work[cur.fat]) ELSE OnCard(Newest(Dirs))) = AskedFiles
<1>1. Newest(Dirs) = NewestOf(card, Dirs) /\ Newest(Fats) = NewestOf(card, Fats)
  BY DEF Newest, NewestOf
<1>2. \A d : OnCard(d) = FilesOf(card[d], FatIn(card))
  BY <1>1 DEF OnCard, FatIn
<1>3. OnCard(Newest(Dirs)) = FoundIn(card)
  BY <1>1, <1>2 DEF FoundIn, DirIn
<1>4. CASE Mounted
  BY <1>2, <1>3, <1>4 DEF KeptFiles, AskedFiles, KeptIn, AskedIn
<1>5. CASE ~Mounted
  BY <1>2, <1>3, <1>5 DEF KeptFiles, AskedFiles
<1> QED
  BY <1>3, <1>4, <1>5

(* It is so after a step too.                                              *)
LEMMA MappedNext ==
  /\ OnCard(Newest(Dirs))' = FoundIn(card')
  /\ OnCard(IF Mounted THEN Other(cur.dir) ELSE Newest(Dirs))' = KeptFiles'
  /\ (IF Mounted THEN FilesOf(work[cur.dir], work[cur.fat]) ELSE OnCard(Newest(Dirs)))' = AskedFiles'
<1>1. Newest(Dirs)' = NewestOf(card', Dirs) /\ Newest(Fats)' = NewestOf(card', Fats)
  BY DEF Newest, NewestOf
<1>2. \A d : FilesOf(card[d], card[Newest(Fats)])' = FilesOf(card'[d], FatIn(card'))
  BY <1>1 DEF FatIn
<1>3. OnCard(Newest(Dirs))' = FoundIn(card')
  BY <1>1 DEF FoundIn, DirIn, FatIn, OnCard
<1>4. CASE Mounted'
  BY <1>1, <1>3, <1>4 DEF KeptFiles, AskedFiles, KeptIn, AskedIn, OnCard, FatIn
<1>5. CASE ~Mounted'
  BY <1>1, <1>3, <1>5 DEF KeptFiles, AskedFiles
<1> QED
  BY <1>3, <1>4, <1>5

(* A step of CARDFiles in which the program asks for something, or nothing *)
(* happens.                                                                *)
Asks == result' # "saved" /\ FoundIn(card') = FoundIn(card) /\ KeptFiles' = KeptFiles

(* A step of CARDFiles in which something reaches the card.                *)
Saves ==
  /\ FoundIn(card') \in {FoundIn(card), KeptFiles, AskedFiles}
  /\ KeptFiles' = KeptFiles \/ (KeptFiles' = FoundIn(card') /\ FoundIn(card') = AskedFiles)
  /\ result' = "saved" => KeptFiles' = AskedFiles /\ FoundIn(card') = AskedFiles
  /\ AskedFiles' = AskedFiles

(* A step of CARDFiles after which only what is on the card counts.        *)
Restarts ==
  /\ FoundIn(card') \in {FoundIn(card), KeptFiles, AskedFiles}
  /\ AskedFiles' = FoundIn(card') /\ KeptFiles' = FoundIn(card')
  /\ result' # "saved"

(* A mount is a restart.                                                   *)
LEMMA MountRestarts ==
  ASSUME Few, FilesInv, FilesInv', CARDMountAsync
  PROVE  Restarts
<1>1. card' = card /\ result' \in {"ready", "broken"}
  BY DEF CARDMountAsync, Put
<1>2. CASE ~Mounted'
  BY <1>1, <1>2 DEF Restarts, KeptFiles, AskedFiles
<1>3. CASE Mounted'
  <2>1. MountedInv'
    BY <1>3 DEF FilesInv
  <2>2. Session(card', work', cur') /\ SavedIn(card', work', cur')
    BY <1>1, <2>1 DEF MountedInv
  <2>3. FoundIn(card') = AskedIn(work', cur') /\ KeptIn(card', cur') = AskedIn(work', cur')
    BY <2>2, Views
  <2> QED
    BY <1>1, <1>3, <2>3 DEF Restarts, KeptFiles, AskedFiles
<1> QED
  BY <1>2, <1>3

(* So is an unmount: what was in memory only is forgotten.                 *)
LEMMA UnmountRestarts == CARDUnmount => Restarts
<1> SUFFICES ASSUME CARDUnmount PROVE Restarts
  OBVIOUS
<1>1. card' = card /\ ~Mounted' /\ result' = "nocard"
  BY DEF CARDUnmount, Unmounted, Put, Mounted
<1> QED
  BY <1>1 DEF Restarts, KeptFiles, AskedFiles

(* A call that touches neither card nor cursors only asks.                 *)
LEMMA CallAsks ==
  ASSUME UNCHANGED <<card, cur, attached>>, result' # "saved"
  PROVE  Asks
<1>1. Mounted' = Mounted
  BY DEF Mounted
<1> QED
  BY <1>1 DEF Asks, KeptFiles

(* A call that is refused asks for nothing.                                *)
LEMMA RefuseAsks == Refuse => Asks
BY CallAsks DEF Refuse, Put

(* CARDCreate touches only the memory.                                     *)
LEMMA CreateAsks ==
  ASSUME NEW n, NEW length, CARDCreateAsync(n, length)
  PROVE  Asks
<1>1. CASE Refuse
  BY <1>1, RefuseAsks
<1>2. CASE ~Refuse
  BY <1>2, CallAsks DEF CARDCreateAsync, StartUpdate
<1> QED
  BY <1>1, <1>2

(* CARDDelete touches only the memory.                                     *)
LEMMA DeleteAsks ==
  ASSUME NEW n, CARDDeleteAsync(n)
  PROVE  Asks
<1>1. CASE Refuse
  BY <1>1, RefuseAsks
<1>2. CASE ~Refuse
  BY <1>2, CallAsks DEF CARDDeleteAsync, StartUpdate
<1> QED
  BY <1>1, <1>2

(* CARDRename touches only the memory.                                     *)
LEMMA RenameAsks ==
  ASSUME NEW old, NEW new, CARDRenameAsync(old, new)
  PROVE  Asks
<1>1. CASE Refuse
  BY <1>1, RefuseAsks
<1>2. CASE ~Refuse
  BY <1>2, CallAsks DEF CARDRenameAsync, StartUpdate
<1> QED
  BY <1>1, <1>2

(* CARDCheck touches only the memory.                                      *)
LEMMA CheckAsks ==
  ASSUME Few, FilesInv, TypeOK', CARDCheckAsync
  PROVE  Asks
<1>1. UNCHANGED <<card, attached>>
  BY DEF CARDCheckAsync
<1>2. CASE Mounted
  BY <1>1, <1>2, CheckInSession, CallAsks
<1>3. CASE ~Mounted
  <2>1. (Mounted' => Other(cur'.dir) = NewestOf(card, Dirs)) /\ result' # "saved"
    BY <1>3, CheckAfterMount
  <2>2. KeptFiles' = FoundIn(card)
    <3>1. CASE Mounted'
      BY <1>1, <2>1, <3>1 DEF KeptFiles, KeptIn, FoundIn, DirIn
    <3>2. CASE ~Mounted'
      BY <1>1, <3>2 DEF KeptFiles
    <3> QED
      BY <3>1, <3>2
  <2> QED
    BY <1>1, <1>3, <2>1, <2>2 DEF Asks, KeptFiles
<1> QED
  BY <1>2, <1>3

(* What an update cut short leaves on the card is what was there, what is  *)
(* kept or what was asked for.                                             *)
LEMMA InterruptedFiles ==
  ASSUME Few, FilesInv, attached, op # NoOp, card' \in Interrupted
  PROVE  /\ Mounted /\ FoundIn(card') \in {FoundIn(card), KeptFiles, AskedFiles}
         /\ KeptIn(card', cur) = KeptIn(card, cur)
<1>1. /\ Mounted /\ Session(card, work, cur)
      /\ card'[Other(cur.dir)] = card[Other(cur.dir)]
      /\ DirIn(card') \in DirsIn(card, work, cur) /\ FatIn(card') \in FatsIn(card, work, cur)
  BY CardInterrupted
<1>2. FoundIn(card') \in {FoundIn(card), KeptIn(card, cur), AskedIn(work, cur)}
  <2>1. FilesOf(DirIn(card'), FatIn(card')) \in {FoundIn(card), KeptIn(card, cur), AskedIn(work, cur)}
    BY <1>1, Views
  <2> QED
    BY <2>1 DEF FoundIn
<1>3. KeptIn(card', cur) = KeptIn(card, cur)
  <2>1. card[Other(cur.dir)] \in DirsIn(card, work, cur)
    BY DEF DirsIn
  <2>2. /\ FilesOf(card[Other(cur.dir)], FatIn(card')) = FilesOf(card[Other(cur.dir)], work[cur.fat])
        /\ KeptIn(card, cur) = FilesOf(card[Other(cur.dir)], work[cur.fat])
    BY <1>1, <2>1, Views
  <2> QED
    BY <1>1, <2>2 DEF KeptIn
<1> QED
  BY <1>1, <1>2, <1>3 DEF KeptFiles, AskedFiles

(* So this is a step of Save.                                              *)
LEMMA InterruptSaves ==
  ASSUME Few, FilesInv, attached, op # NoOp, card' \in Interrupted,
         UNCHANGED <<work, cur, attached>>, result' # "saved"
  PROVE  Saves
<1>1. /\ Mounted /\ FoundIn(card') \in {FoundIn(card), KeptFiles, AskedFiles}
      /\ KeptIn(card', cur) = KeptIn(card, cur)
  BY InterruptedFiles
<1>2. Mounted'
  BY <1>1 DEF Mounted
<1>3. KeptFiles' = KeptFiles /\ AskedFiles' = AskedFiles
  BY <1>1, <1>2 DEF KeptFiles, AskedFiles
<1> QED
  BY <1>1, <1>3 DEF Saves

(* An erase may make the other copy the newest.                            *)
LEMMA EraseSaves ==
  ASSUME Few, FilesInv, SectorErased
  PROVE  Saves
<1>1. /\ attached /\ op # NoOp /\ card' = [card EXCEPT ![op.sector] = Garbage]
      /\ UNCHANGED <<work, cur, attached, result>> /\ result = "busy"
  BY DEF SectorErased, InWork, FilesInv
<1>2. card' \in Interrupted
  BY <1>1 DEF Interrupted
<1> QED
  BY <1>1, <1>2, InterruptSaves

(* A failed update may have been carried out.                              *)
LEMMA FailSaves ==
  ASSUME Few, FilesInv, SectorFailed
  PROVE  Saves
<1>1. attached /\ op # NoOp /\ card' \in Interrupted /\ UNCHANGED <<work, cur, attached>> /\ result' = "error"
  BY DEF SectorFailed, Put
<1> QED
  BY <1>1, InterruptSaves

(* Loss of power is a restart from one of the three.                       *)
LEMMA LossRestarts ==
  ASSUME Few, FilesInv, CardLost
  PROVE  Restarts
<1>1. attached /\ card' \in Interrupted /\ ~Mounted' /\ result' = "nocard"
  BY DEF CardLost, Unmounted, Put, Mounted
<1>2. FoundIn(card') \in {FoundIn(card), KeptFiles, AskedFiles}
  <2>1. CASE op = NoOp
    BY <1>1, <2>1 DEF Interrupted
  <2>2. CASE op # NoOp
    BY <1>1, <2>2, InterruptedFiles
  <2> QED
    BY <2>1, <2>2
<1> QED
  BY <1>1, <1>2 DEF Restarts, KeptFiles, AskedFiles

(* A write that succeeds saves what was asked for if it is of the          *)
(* directory, and changes no files if of the FAT.                          *)
LEMMA WriteImplements ==
  ASSUME Few, FilesInv, FilesInv', SectorWritten
  PROVE  Asks \/ Saves
<1> DEFINE s == op.sector
           v == With(work, Other(s), work[s])
           j == AsCurrent(cur, Other(s))
           md == work[cur.dir]
           mf == work[cur.fat]
<1>1. /\ s \in {cur.dir, cur.fat} /\ Pending(op, card, work, cur)
      /\ cur' = j /\ Session(card', v, j)
      /\ v[j.dir] = md /\ v[j.fat] = mf
      /\ s = cur.dir => SavedIn(card', v, j)
      /\ s = cur.fat => /\ SavedIn(card, work, cur) => SavedIn(card', v, j)
                        /\ FatsIn(card', v, j) = {mf}
                        /\ DirIn(card') = DirIn(card) /\ card'[Other(j.dir)] = card[Other(cur.dir)]
  <2> HIDE DEF s, v, j
  <2>1. s = op.sector /\ v = With(work, Other(s), work[s]) /\ j = AsCurrent(cur, Other(s))
    BY DEF s, v, j
  <2> QED
    BY <2>1, SectorDone
<1>2. \/ op.next = "nothing" /\ Put("saved") /\ work' = v
      \/ op.next = "create" /\ StartUpdate([v EXCEPT ![j.dir].files[op.file] = op.entry], j.dir, Save)
      \/ op.next = "delete" /\ StartUpdate([v EXCEPT ![j.fat] = Freed(@, op.entry)], j.fat, Save)
  BY DEF SectorWritten, With
<1>3. attached /\ attached' /\ op # NoOp
  BY DEF SectorWritten, InWork
<1> HIDE DEF s, v, j
<1>4. Mounted /\ Session(card, work, cur)
  <2>1. Mounted
    BY <1>3 DEF FilesInv, HalfInv
  <2> QED
    BY <2>1, MountedIs
<1>5. /\ j.dir \in Dirs /\ j.fat \in Fats /\ None \notin Dirs /\ None \notin Fats
      /\ DOMAIN v = System /\ j.dir \in System /\ j.fat \in System /\ j.dir # j.fat
  BY <1>1, Sectors DEF Session
<1>6. Mounted'
  BY <1>1, <1>3, <1>5 DEF Mounted
<1>7. /\ KeptFiles = KeptIn(card, cur) /\ AskedFiles = AskedIn(work, cur)
      /\ KeptFiles' = KeptIn(card', j) /\ AskedFiles' = AskedIn(work', j) /\ AskedIn(v, j) = AskedIn(work, cur)
  BY <1>1, <1>4, <1>6 DEF KeptFiles, AskedFiles, AskedIn
<1>8. SavedIn(card', v, j) => FoundIn(card') = AskedFiles /\ KeptFiles' = AskedFiles
  BY <1>1, <1>7, Views
<1>9. CASE op.next = "nothing" /\ Put("saved") /\ work' = v
  <2>1. SavedIn(card', v, j)
    BY <1>1, <1>9 DEF Pending, s
  <2> QED
    BY <1>7, <1>8, <1>9, <2>1 DEF Saves
<1>10. CASE op.next = "create" /\ StartUpdate([v EXCEPT ![j.dir].files[op.file] = op.entry], j.dir, Save)
  <2>1. s = cur.fat
    BY <1>1, <1>10 DEF Pending, s
  <2>2. FatIn(card') = mf
    BY <1>1, <2>1 DEF FatsIn
  <2>3. FoundIn(card') = FoundIn(card) /\ KeptIn(card', j) = KeptIn(card, cur)
    <3>1. FoundIn(card) = FilesOf(DirIn(card), mf) /\ KeptIn(card, cur) = FilesOf(card[Other(cur.dir)], mf)
      BY <1>4, Views
    <3> QED
      BY <1>1, <2>1, <2>2, <3>1 DEF FoundIn, KeptIn
  <2>4. result' # "saved"
    BY <1>10 DEF StartUpdate
  <2> QED
    BY <1>7, <2>3, <2>4 DEF Asks
<1>11. CASE op.next = "delete" /\ StartUpdate([v EXCEPT ![j.fat] = Freed(@, op.entry)], j.fat, Save)
  <2>1. s = cur.dir /\ SavedIn(card', v, j)
    BY <1>1, <1>11 DEF Pending, s
  <2>2. result' = "busy" /\ work'[j.dir] = md
    BY <1>1, <1>5, <1>11 DEF StartUpdate
  <2>3. Session(card', work', cur')
    BY <1>6 DEF FilesInv, MountedInv
  <2>4. AskedIn(work', j) = FilesOf(md, FatIn(card'))
    <3>1. md \in DirsIn(card', work', j) /\ FatIn(card') \in FatsIn(card', work', j)
      BY <2>2 DEF DirsIn, FatsIn
    <3>2. Session(card', work', j)
      BY <1>1, <2>3
    <3>3. FilesOf(md, FatIn(card')) = FilesOf(md, work'[j.fat])
      BY <3>1, <3>2, Views
    <3> QED
      BY <2>2, <3>3 DEF AskedIn
  <2>5. AskedIn(v, j) = FilesOf(md, FatIn(card'))
    <3>1. md \in DirsIn(card', v, j) /\ FatIn(card') \in FatsIn(card', v, j)
      BY <1>1 DEF DirsIn, FatsIn
    <3>2. FilesOf(md, FatIn(card')) = FilesOf(md, v[j.fat])
      BY <1>1, <3>1, Views
    <3> QED
      BY <1>1, <3>2 DEF AskedIn
  <2> QED
    BY <1>7, <1>8, <2>1, <2>2, <2>4, <2>5 DEF Saves
<1> QED
  BY <1>2, <1>9, <1>10, <1>11

(* Every step is one of these.                                             *)
LEMMA CardImplements ==
  ASSUME Few, DirInv, FilesInv, Next
  PROVE  Asks \/ Saves \/ Restarts
<1>1. FilesInv' /\ DirInv'
  BY FilesSteps, Steps
<1>2. TypeOK'
  BY <1>1 DEF FilesInv
<1> QED
  BY <1>1, <1>2, MountRestarts, UnmountRestarts, CreateAsks, DeleteAsks, RenameAsks, CheckAsks,
     EraseSaves, FailSaves, LossRestarts, WriteImplements DEF Next

(* A card that was just formatted has no files.                            *)
LEMMA FilesAtFirst ==
  ASSUME Few, Init
  PROVE  FoundIn(card) = {} /\ KeptFiles = {} /\ AskedFiles = {} /\ result # "saved"
<1>1. SectorsOK(card)
  BY FilesInits DEF FilesInv, CardInv
<1>2. NewestOf(card, Dirs) \in Dirs
  BY <1>1, SectorsAre
<1>3. \A s \in Dirs : card[s].files = [f \in File |-> Unused]
  BY Sectors DEF Init, Formatted
<1>4. ~Unused.used
  BY DEF Unused
<1>5. {f \in File : DirIn(card).files[f].used} = {}
  BY <1>2, <1>3, <1>4 DEF DirIn
<1>6. FoundIn(card) = {}
  BY <1>5 DEF FoundIn, FilesOf
<1>7. ~Mounted /\ result = "nocard"
  BY DEF Init, Mounted
<1> QED
  BY <1>6, <1>7 DEF KeptFiles, AskedFiles

(* The card implements CARDFiles: what a restart finds are the files of    *)
(* the last operation that succeeded, or all of those asked for since,     *)
(* while fewer updates fail than a check code can count apart.             *)
THEOREM CardKeepsFiles ==
  ASSUME Few
  PROVE  Spec => ImplementsFiles
<1>1. Init => DirInv /\ FilesInv
  BY Inits, FilesInits
<1>2. (DirInv /\ FilesInv) /\ [Next]_vars => (DirInv /\ FilesInv)'
  BY Steps, FilesSteps
<1>3. Init => Files!Init
  BY FilesAtFirst, Mapped DEF Files!Init
<1>4. ASSUME DirInv, FilesInv, [Next]_vars PROVE [Files!Next]_Files!vars
  <2>1. CASE UNCHANGED vars
    <3>1. card' = card /\ work' = work /\ cur' = cur /\ attached' = attached /\ result' = result
      BY <2>1 DEF vars
    <3>2. Mounted' = Mounted
      BY <3>1 DEF Mounted
    <3>3. FoundIn(card') = FoundIn(card) /\ KeptFiles' = KeptFiles /\ AskedFiles' = AskedFiles
      BY <3>1, <3>2 DEF KeptFiles, AskedFiles
    <3> QED
      BY <3>1, <3>3, Mapped, MappedNext DEF Files!vars
  <2>2. CASE Asks
    BY <2>2, Mapped, MappedNext DEF Asks, Files!Next, Files!Ask
  <2>3. CASE Saves
    BY <2>3, Mapped, MappedNext DEF Saves, Files!Next, Files!Save
  <2>4. CASE Restarts
    BY <2>4, Mapped, MappedNext DEF Restarts, Files!Next, Files!Restart
  <2> QED
    BY <1>4, <2>1, <2>2, <2>3, <2>4, CardImplements
<1> QED
  BY <1>1, <1>2, <1>3, <1>4, PTL DEF Spec, ImplementsFiles, Files!Spec
=============================================================================
