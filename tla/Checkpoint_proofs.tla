-------------------------- MODULE Checkpoint_proofs --------------------------
(***************************************************************************)
(* Proofs about module Checkpoint: for any set of updates, any number of   *)
(* inodes, crashes and power failures.                                     *)
(***************************************************************************)
EXTENDS Checkpoint, SequenceLemmas

(* The first n records of s, up to a fragment, as a set. *)
Read(s, n) == {s[k] : k \in {m \in 1..n : \A j \in 1..m : s[j] # Fragment}}

(* There is no fragment in s. *)
Clean(s) == \A k \in 1..Len(s) : s[k] # Fragment

(* What a replay keeps is the part before the first fragment. *)
LEMMA WholeIs ==
    ASSUME NEW s, IsSeq(s)
    PROVE  /\ IsSeq(Whole(s)) /\ Clean(Whole(s)) /\ Len(Whole(s)) \in 0..Len(s)
           /\ \A k \in 1..Len(Whole(s)) : Whole(s)[k] = s[k]
           /\ Len(Whole(s)) < Len(s) => s[Len(Whole(s)) + 1] = Fragment
<1> DEFINE I    == {i \in 1..Len(s) : s[i] = Fragment}
           torn == Min(I)
<1>1. Whole(s) = IF I = {} THEN s ELSE SubSeq(s, 1, torn - 1)
  BY DEF Whole
<1>2. Len(s) \in Nat
  BY SeqHas
<1>3. CASE I = {}
  BY <1>1, <1>2, <1>3 DEF Clean
<1>4. CASE I # {}
  <2>1. I \in SUBSET Nat
    OBVIOUS
  <2>2. Min(I) \in I /\ \A y \in I : Min(I) <= y
    <3> HIDE DEF I
    <3> QED
      BY <1>4, <2>1, MinIs
  <2>3. torn \in 1..Len(s) /\ s[torn] = Fragment /\ \A i \in 1..torn - 1 : s[i] # Fragment
    <3>1. torn = Min(I)
      BY <1>4
    <3>2. torn \in I /\ \A y \in I : torn <= y
      BY <2>2, <3>1
    <3> HIDE DEF torn
    <3> QED
      BY <1>2, <3>2
  <2> HIDE DEF torn, I
  <2> DEFINE n == torn - 1
  <2>4. n \in 0..Len(s) /\ n < Len(s) /\ n + 1 = torn /\ Whole(s) = SubSeq(s, 1, n)
    BY <1>1, <1>2, <1>4, <2>3
  <2>5. \A i \in 1..n : s[i] # Fragment
    BY <2>3
  <2> HIDE DEF n
  <2>6. /\ IsSeq(SubSeq(s, 1, n)) /\ Len(SubSeq(s, 1, n)) = n
        /\ \A i \in 1..n : SubSeq(s, 1, n)[i] = s[i]
    BY <2>4, SeqPrefix
  <2> QED
    BY <2>3, <2>4, <2>5, <2>6 DEF Clean
<1> QED
  BY <1>3, <1>4

(* Read depends on the first n records only. *)
LEMMA ReadSame ==
    ASSUME NEW s, NEW r, NEW n \in Nat, \A i \in 1..n : s[i] = r[i]
    PROVE  Read(s, n) = Read(r, n)
  BY DEF Read

LEMMA ReadMore ==
    ASSUME NEW s, NEW n \in Nat, NEW m \in Nat, m <= n
    PROVE  Read(s, m) \subseteq Read(s, n)
  BY DEF Read

(* A fragment ends what is read. *)
LEMMA ReadStops ==
    ASSUME NEW s, NEW n \in Nat, NEW m \in Nat, m < n, s[m + 1] = Fragment
    PROVE  Read(s, n) = Read(s, m)
<1>1. \A k \in 1..n : (\A j \in 1..k : s[j] # Fragment) => k \in 1..m
  OBVIOUS
<1>2. \A k \in 1..m : k \in 1..n
  OBVIOUS
<1> QED
  BY <1>1, <1>2 DEF Read

LEMMA ReadClean ==
    ASSUME NEW s, Clean(s), IsSeq(s)
    PROVE  Read(s, Len(s)) = Range(s)
<1>1. Len(s) \in Nat /\ DOMAIN s = 1..Len(s)
  BY SeqHas
<1> QED
  BY <1>1 DEF Read, Clean, Range

(* Replaying s, and replaying what it has left of s. *)
LEMMA WholeRead ==
    ASSUME NEW s, IsSeq(s), NEW n \in 0..Len(s)
    PROVE  /\ Read(Whole(s), Len(Whole(s))) = Read(s, Len(s))
           /\ Range(Whole(s)) = Read(s, Len(s))
           /\ n <= Len(Whole(s)) => Read(Whole(s), n) = Read(s, n)
           /\ n > Len(Whole(s)) => Read(Whole(s), Len(Whole(s))) = Read(s, n)
<1> DEFINE w == Whole(s)
<1>1. /\ IsSeq(w) /\ Clean(w) /\ Len(w) \in 0..Len(s) /\ Len(s) \in Nat
      /\ \A k \in 1..Len(w) : w[k] = s[k]
      /\ Len(w) < Len(s) => s[Len(w) + 1] = Fragment
  BY WholeIs, SeqHas
<1> HIDE DEF w
<1>2. ASSUME NEW m \in 0..Len(s), m <= Len(w) PROVE Read(w, m) = Read(s, m)
  <2>1. m \in Nat /\ \A i \in 1..m : w[i] = s[i]
    BY <1>1, <1>2
  <2> QED
    BY <2>1, ReadSame
<1>3. ASSUME NEW m \in 0..Len(s), m > Len(w) PROVE Read(w, Len(w)) = Read(s, m)
  <2>1. Len(w) \in Nat /\ m \in Nat /\ Len(w) < m /\ s[Len(w) + 1] = Fragment
    BY <1>1, <1>3
  <2>2. Read(s, m) = Read(s, Len(w))
    BY <2>1, ReadStops
  <2>3. Read(w, Len(w)) = Read(s, Len(w))
    BY <1>1, <1>2
  <2> QED
    BY <2>2, <2>3
<1>4. Read(w, Len(w)) = Read(s, Len(s))
  BY <1>1, <1>2, <1>3
<1>5. Range(w) = Read(w, Len(w))
  BY <1>1, ReadClean
<1> QED
  BY <1>2, <1>3, <1>4, <1>5 DEF w

(* What the model recovers from a file is what Read reads. *)
LEMMA RecoversRead ==
    ASSUME NEW s, IsSeq(s), NEW n \in 0..Len(s)
    PROVE  Range(Whole(SubSeq(s, 1, n))) = Read(s, n)
<1> DEFINE r == SubSeq(s, 1, n)
<1>1. IsSeq(r) /\ Len(r) = n /\ \A i \in 1..n : r[i] = s[i]
  BY SeqPrefix
<1>2. Len(s) \in Nat
  BY SeqHas
<1> HIDE DEF r
<1>3. Range(Whole(r)) = Read(r, Len(r))
  BY <1>1, <1>2, WholeRead
<1>4. Read(r, n) = Read(s, n)
  BY <1>1, <1>2, ReadSame
<1> QED
  BY <1>1, <1>3, <1>4 DEF r

(* One more record. *)
LEMMA ReadAppend ==
    ASSUME NEW s, IsSeq(s), NEW e
    PROVE  /\ \A n \in 0..Len(s) : Read(Append(s, e), n) = Read(s, n)
           /\ e = Fragment => Read(Append(s, e), Len(s) + 1) = Read(s, Len(s))
           /\ Clean(s) /\ e # Fragment =>
                /\ Clean(Append(s, e))
                /\ Read(Append(s, e), Len(s) + 1) = Read(s, Len(s)) \cup {e}
<1> DEFINE a == Append(s, e)
<1>1. /\ IsSeq(a) /\ Len(a) = Len(s) + 1 /\ Len(s) \in Nat
      /\ \A i \in 1..Len(s) : a[i] = s[i]
      /\ a[Len(s) + 1] = e
  BY SeqAppend, SeqHas
<1> HIDE DEF a
<1>2. ASSUME NEW n \in 0..Len(s) PROVE Read(a, n) = Read(s, n)
  <2>1. n \in Nat /\ \A i \in 1..n : a[i] = s[i]
    BY <1>1
  <2> QED
    BY <2>1, ReadSame
<1>3. ASSUME e = Fragment PROVE Read(a, Len(s) + 1) = Read(s, Len(s))
  <2>1. Read(a, Len(s) + 1) = Read(a, Len(s))
    BY <1>1, <1>3, ReadStops
  <2> QED
    BY <1>1, <1>2, <2>1
<1>4. ASSUME Clean(s), e # Fragment
      PROVE  Clean(a) /\ Read(a, Len(s) + 1) = Read(s, Len(s)) \cup {e}
  <2>1. Clean(a)
    BY <1>1, <1>4 DEF Clean
  <2>2. Read(a, Len(a)) = Range(a) /\ Read(s, Len(s)) = Range(s)
    BY <1>1, <1>4, <2>1, ReadClean
  <2>3. DOMAIN a = 1..Len(s) + 1 /\ DOMAIN s = 1..Len(s)
    BY <1>1, SeqHas
  <2>4. Range(a) = Range(s) \cup {e}
    BY <1>1, <2>3 DEF Range
  <2> QED
    BY <1>1, <2>1, <2>2, <2>4
<1> QED
  BY <1>2, <1>3, <1>4 DEF a

-----------------------------------------------------------------------------
Version == [log : Inodes \cup {NoFile}, tmp : Inodes \cup {NoFile}]

(* The versions of the directory that may be on the disk. *)
Versions == Range(dirs)

Types ==
    /\ step \in {"down", "created", "opened", "writing", "written", "synced", "renamed", "up"}
    /\ dirs \in Seq(Version) /\ dirs # <<>>
    /\ content \in [Inodes -> Seq(Updates \cup {Fragment})]
    /\ DOMAIN synced = Inodes /\ \A i \in Inodes : synced[i] \in 0..Len(content[i])
    /\ memory \subseteq Updates
    /\ exposed \in BOOLEAN

(* The file of the snapshot is never a log; once there is a log there      *)
(* always is one.                                                          *)
Names ==
    /\ \A v \in Versions : v.tmp # NoFile => v.tmp # v.log
    /\ \A v \in Versions : Dir.tmp # NoFile => Dir.tmp # v.log
    /\ Dir.log = NoFile => \A v \in Versions : v.log = NoFile

(* How far InMemoryStorage::open is: after replay the log has no fragment, *)
(* the snapshot grows to what is in memory, and is synced.                 *)
Progress ==
    /\ step = "down" => memory = {}
    /\ step # "down" => Dir.log # NoFile /\ Clean(content[Dir.log])
    /\ step \in {"writing", "written", "synced"} =>
         Dir.tmp # NoFile /\ Clean(content[Dir.tmp]) /\ Range(content[Dir.tmp]) \subseteq memory
    /\ step \in {"written", "synced"} => memory \subseteq Range(content[Dir.tmp])
    /\ step = "synced" => synced[Dir.tmp] = Len(content[Dir.tmp])

(* What a replay reads of a file. *)
All(s) == Read(s, Len(s))

(* Every log that may be found has the same records, those in memory. *)
Agree ==
    ~ exposed => \A v \in Versions : v.log # NoFile =>
        /\ \A w \in Versions : w.log # NoFile => All(content[w.log]) = All(content[v.log])
        /\ step # "down" => All(content[v.log]) = memory

(* And has what was acknowledged in its synced part. *)
AckedSynced ==
    ~ exposed /\ ~ unrooted => \A v \in Versions :
        acked \subseteq IF v.log = NoFile THEN {} ELSE Read(content[v.log], synced[v.log])

(* Nothing was acknowledged in a directory that may be lost as a whole. *)
Rooted == ~ unrooted /\ home # "durable" => acked = {}

DiskInv == Types /\ Names /\ Progress /\ Agree

LEMMA Files ==
    ASSUME Types, NEW i \in Inodes
    PROVE  /\ IsSeq(content[i]) /\ content[i] \in Seq(Updates \cup {Fragment})
           /\ Len(content[i]) \in Nat /\ synced[i] \in 0..Len(content[i])
           /\ i # NoFile
<1>1. content[i] \in Seq(Updates \cup {Fragment})
  BY DEF Types
<1>2. IsSeq(content[i])
  BY <1>1 DEF IsSeq
<1> QED
  BY <1>1, <1>2, SeqHas, CheckpointAssumption DEF Types, NoFile

(* The current version is one of the versions, and the others stay. *)
LEMMA DirIs ==
    ASSUME Types
    PROVE  /\ Dir \in Versions /\ \A v \in Versions : v \in Version
           /\ \A v \in Versions : v.log \in Inodes \cup {NoFile} /\ v.tmp \in Inodes \cup {NoFile}
<1>1. dirs \in Seq(Version) /\ dirs # <<>>
  BY DEF Types
<1>2. Len(dirs) \in Nat \ {0} /\ DOMAIN dirs = 1..Len(dirs)
  BY <1>1, LenProperties, EmptySeq
<1>3. \A k \in 1..Len(dirs) : dirs[k] \in Version
  BY <1>1, ElementOfSeq
<1>4. Dir \in Versions
  BY <1>2 DEF Dir, Versions, Range
<1>5. \A v \in Versions : v \in Version
  BY <1>2, <1>3 DEF Versions, Range
<1> QED
  BY <1>4, <1>5 DEF Version

LEMMA DirAppended ==
    ASSUME Types, NEW d \in Version, dirs' = Append(dirs, d)
    PROVE  /\ dirs' \in Seq(Version) /\ dirs' # <<>>
           /\ Dir' = d /\ Versions' = Versions \cup {d}
<1>1. /\ dirs \in Seq(Version) /\ dirs' \in Seq(Version) /\ Len(dirs') = Len(dirs) + 1
      /\ \A k \in 1..Len(dirs) : dirs'[k] = dirs[k]
      /\ dirs'[Len(dirs) + 1] = d
  BY AppendProperties DEF Types
<1>2. Len(dirs) \in Nat /\ DOMAIN dirs = 1..Len(dirs) /\ DOMAIN dirs' = 1..Len(dirs) + 1
  BY <1>1, LenProperties
<1>3. dirs' # <<>>
  BY <1>1, <1>2
<1>4. Dir' = d
  BY <1>1, <1>2 DEF Dir
<1>5. Versions' = Versions \cup {d}
  BY <1>1, <1>2 DEF Versions, Range
<1> QED
  BY <1>1, <1>3, <1>4, <1>5

LEMMA DirSynced ==
    ASSUME NEW d \in Version, dirs' = <<d>>
    PROVE  /\ dirs' \in Seq(Version) /\ dirs' # <<>>
           /\ Dir' = d /\ Versions' = {d}
<1>1. Len(dirs') = 1 /\ dirs'[1] = d /\ DOMAIN dirs' = {1}
  OBVIOUS
<1> QED
  BY <1>1 DEF Dir, Versions, Range

LEMMA DirKept ==
    ASSUME UNCHANGED dirs
    PROVE  Dir' = Dir /\ Versions' = Versions
  BY DEF Dir, Versions

LEMMA NewInodeIs ==
    ASSUME Unused # {}
    PROVE  NewInode \in Inodes /\ \A v \in Versions : v.log # NewInode /\ v.tmp # NewInode
  BY DEF NewInode, Unused, Versions

(* A write to inode i. *)
LEMMA Written ==
    ASSUME Types, NEW i \in Inodes, NEW s \in Seq(Updates \cup {Fragment}),
           content' = [content EXCEPT ![i] = s]
    PROVE  /\ content' \in [Inodes -> Seq(Updates \cup {Fragment})]
           /\ content'[i] = s
           /\ \A j \in Inodes : j # i => content'[j] = content[j]
  BY DEF Types

LEMMA EmptyFile ==
    /\ Clean(<<>>) /\ All(<<>>) = {} /\ Range(<<>>) = {} /\ Len(<<>>) = 0
    /\ <<>> \in Seq(Updates \cup {Fragment})
  BY DEF Clean, All, Read, Range

(* One more record at the end of a file without a fragment. *)
LEMMA AppendFile ==
    ASSUME NEW s \in Seq(Updates \cup {Fragment}), NEW u \in Updates \cup {Fragment}
    PROVE  /\ Append(s, u) \in Seq(Updates \cup {Fragment})
           /\ Len(s) \in Nat /\ Len(Append(s, u)) = Len(s) + 1
           /\ Range(Append(s, u)) = Range(s) \cup {u}
           /\ u = Fragment => All(Append(s, u)) = All(s)
           /\ u # Fragment /\ Clean(s) =>
                Clean(Append(s, u)) /\ All(Append(s, u)) = All(s) \cup {u}
           /\ \A n \in 0..Len(s) : Read(Append(s, u), n) = Read(s, n)
<1> DEFINE a == Append(s, u)
<1>1. /\ a \in Seq(Updates \cup {Fragment}) /\ Len(a) = Len(s) + 1 /\ Len(s) \in Nat
      /\ DOMAIN s = 1..Len(s) /\ DOMAIN a = 1..Len(s) + 1
      /\ \A k \in 1..Len(s) : a[k] = s[k]
      /\ a[Len(s) + 1] = u
  BY AppendProperties, LenProperties
<1>2. IsSeq(s)
  BY DEF IsSeq
<1>3. /\ \A n \in 0..Len(s) : Read(a, n) = Read(s, n)
      /\ u = Fragment => Read(a, Len(s) + 1) = Read(s, Len(s))
      /\ u # Fragment /\ Clean(s) =>
           Clean(a) /\ Read(a, Len(s) + 1) = Read(s, Len(s)) \cup {u}
  BY <1>2, ReadAppend
<1> HIDE DEF a
<1>4. Range(a) = Range(s) \cup {u}
  BY <1>1 DEF Range
<1> QED
  BY <1>1, <1>3, <1>4 DEF a, All

(* The invariant holds of the state InMemoryStorage::open starts from. *)
LEMMA DiskInitial ==
    ASSUME Init
    PROVE  DiskInv /\ AckedSynced /\ Rooted
<1> DEFINE d == EmptyDir
<1>1. dirs = <<d>> /\ d \in Version /\ d.log = NoFile /\ d.tmp = NoFile
  BY DEF Init, Version, EmptyDir
<1>2. dirs \in Seq(Version) /\ dirs # <<>> /\ Dir = d /\ Versions = {d}
  <2> HIDE DEF d
  <2>1. Len(dirs) = 1 /\ dirs[1] = d /\ DOMAIN dirs = {1}
    BY <1>1
  <2> QED
    BY <1>1, <2>1 DEF Dir, Versions, Range
<1> HIDE DEF d
<1>3. Types
  <2>1. \A i \in Inodes : content[i] = <<>> /\ synced[i] = 0
    BY DEF Init
  <2>2. \A i \in Inodes : synced[i] \in 0..Len(content[i])
    BY <2>1, EmptyFile
  <2>3. content \in [Inodes -> Seq(Updates \cup {Fragment})]
    BY EmptyFile DEF Init
  <2> QED
    BY <1>2, <2>2, <2>3, Zenon DEF Init, Types
<1>4. Names /\ Agree
  BY <1>1, <1>2 DEF Names, Agree
<1>5. Progress /\ AckedSynced /\ Rooted
  BY <1>1, <1>2 DEF Progress, AckedSynced, Rooted, Init
<1> QED
  BY <1>3, <1>4, <1>5 DEF DiskInv

(* Each step of InMemoryStorage::open and of the clients keeps it. *)
LEMMA DiskCreateLog ==
    ASSUME DiskInv, CreateLog
    PROVE  DiskInv'
<1> DEFINE i == NewInode
           d == [Dir EXCEPT !.log = i]
<1> USE DEF DiskInv
<1>1. i \in Inodes /\ i # NoFile /\ \A v \in Versions : v.log # i /\ v.tmp # i
  BY NewInodeIs, Files DEF CreateLog
<1>2. Dir \in Versions /\ Dir \in Version /\ Dir.log = NoFile /\ step = "down"
  BY DirIs DEF CreateLog
<1>3. d \in Version /\ d.log = i /\ d.tmp = Dir.tmp /\ Dir.tmp \in Inodes \cup {NoFile}
  BY <1>1, <1>2 DEF Version
<1>4. /\ dirs' = Append(dirs, d) /\ content' = [content EXCEPT ![i] = <<>>]
      /\ synced' = [synced EXCEPT ![i] = 0] /\ step' = "created"
      /\ UNCHANGED <<memory, exposed>>
  BY DEF CreateLog, ChangeDir, clients
<1> HIDE DEF d, i
<1>5. dirs' \in Seq(Version) /\ dirs' # <<>> /\ Dir' = d /\ Versions' = Versions \cup {d}
  BY <1>3, <1>4, DirAppended
<1>6. /\ content' \in [Inodes -> Seq(Updates \cup {Fragment})]
      /\ content'[i] = <<>>
      /\ \A j \in Inodes : j # i => content'[j] = content[j]
  BY <1>1, <1>4, EmptyFile, Written, Zenon
<1>7. /\ DOMAIN synced' = Inodes /\ synced'[i] = 0
      /\ \A j \in Inodes : j # i => synced'[j] = synced[j]
  BY <1>1, <1>4 DEF Types
<1>8. Types'
  BY <1>4, <1>5, <1>6, <1>7, EmptyFile DEF Types
<1>9. \A v \in Versions : v.log = NoFile
  BY <1>2 DEF Names
<1>10. memory = {}
  BY <1>2 DEF Progress
<1>11. Names'
  BY <1>1, <1>2, <1>3, <1>5, <1>9 DEF Names
<1>12. Progress'
  BY <1>1, <1>3, <1>4, <1>5, <1>6, EmptyFile DEF Progress
<1>13. Agree'
  BY <1>3, <1>4, <1>5, <1>6, <1>9, <1>10, EmptyFile DEF Agree
<1> QED
  BY <1>8, <1>11, <1>12, <1>13

LEMMA DiskSyncDir ==
    ASSUME DiskInv, SyncNewLog \/ SyncRename
    PROVE  DiskInv'
<1> USE DEF DiskInv
<1>1. /\ dirs' = <<Dir>> /\ step' \in {"opened", "up"} /\ step \in {"created", "renamed"}
      /\ UNCHANGED <<memory, content, synced, exposed>>
  BY DEF SyncNewLog, SyncRename, clients
<1>2. Dir \in Versions /\ Dir \in Version
  BY DirIs
<1>3. dirs' \in Seq(Version) /\ dirs' # <<>> /\ Dir' = Dir /\ Versions' = {Dir}
  BY <1>1, <1>2, DirSynced
<1>4. Types'
  BY <1>1, <1>3 DEF Types
<1>5. Names'
  BY <1>2, <1>3 DEF Names
<1>6. Progress'
  BY <1>1, <1>3 DEF Progress
<1>7. Agree'
  BY <1>1, <1>2, <1>3 DEF Agree
<1> QED
  BY <1>4, <1>5, <1>6, <1>7

LEMMA DiskReplay ==
    ASSUME DiskInv, Replay
    PROVE  DiskInv'
<1> DEFINE L == Dir.log
           w == Whole(content[L])
<1> USE DEF DiskInv
<1>1. Dir \in Versions /\ Dir \in Version /\ L \in Inodes /\ L # NoFile
  BY DirIs DEF Replay
<1>2. /\ IsSeq(content[L]) /\ content[L] \in Seq(Updates \cup {Fragment})
      /\ Len(content[L]) \in Nat /\ synced[L] \in 0..Len(content[L])
  BY <1>1, Files
<1>3. /\ IsSeq(w) /\ Clean(w) /\ Len(w) \in 0..Len(content[L])
      /\ \A k \in 1..Len(w) : w[k] = content[L][k]
  BY <1>2, WholeIs
<1>4. All(w) = All(content[L]) /\ Range(w) = All(content[L])
  BY <1>2, WholeRead DEF All
<1>5. /\ memory' = Range(w) /\ content' = [content EXCEPT ![L] = w]
      /\ synced' = [synced EXCEPT ![L] = IF @ > Len(w) THEN Len(w) ELSE @]
      /\ step = "down" /\ step' = "opened" /\ UNCHANGED <<dirs, exposed>>
  BY Zenon DEF Replay, clients
<1> HIDE DEF w
<1>6. w \in Seq(Updates \cup {Fragment}) /\ Range(w) \subseteq Updates
  <2>1. DOMAIN w = 1..Len(w)
    BY <1>3, SeqHas
  <2>2. \A k \in 1..Len(w) : w[k] \in Updates \cup {Fragment} /\ w[k] # Fragment
    BY <1>2, <1>3, ElementOfSeq DEF Clean
  <2>3. w \in Seq(Updates \cup {Fragment})
    BY <1>3, <2>2, SeqHas DEF IsSeq
  <2> QED
    BY <2>1, <2>2, <2>3 DEF Range
<1>7. /\ content' \in [Inodes -> Seq(Updates \cup {Fragment})]
      /\ content'[L] = w
      /\ \A j \in Inodes : j # L => content'[j] = content[j]
  BY <1>1, <1>5, <1>6, Written, Zenon
<1>8. /\ DOMAIN synced' = Inodes /\ synced'[L] \in 0..Len(w)
      /\ \A j \in Inodes : j # L => synced'[j] = synced[j]
  BY <1>1, <1>2, <1>3, <1>5 DEF Types
<1>9. Dir' = Dir /\ Versions' = Versions
  BY <1>5, DirKept
<1>10. Types'
  BY <1>5, <1>6, <1>7, <1>8 DEF Types
<1>11. Names'
  BY <1>9 DEF Names
<1>12. Progress'
  BY <1>1, <1>3, <1>5, <1>7, <1>9 DEF Progress
<1>13. \A j \in Inodes : All(content'[j]) = All(content[j])
  BY <1>4, <1>7
<1>14. \A v \in Versions : v.log \in Inodes \cup {NoFile}
  BY DirIs
<1> HIDE DEF L
<1>15. Agree'
  BY <1>1, <1>4, <1>5, <1>9, <1>13, <1>14 DEF Agree, L
<1> QED
  BY <1>10, <1>11, <1>12, <1>15

LEMMA DiskOpenSnapshot ==
    ASSUME DiskInv, OpenSnapshot
    PROVE  DiskInv'
<1> DEFINE i == IF Dir.tmp # NoFile THEN Dir.tmp ELSE NewInode
           d == [Dir EXCEPT !.tmp = i]
<1> USE DEF DiskInv
<1>1. Dir \in Versions /\ Dir \in Version /\ Dir.log # NoFile /\ Dir.tmp \in Inodes \cup {NoFile}
  BY DirIs DEF OpenSnapshot, Progress
<1>2. i \in Inodes /\ i # NoFile /\ \A v \in Versions : v.log # i
  <2>1. CASE Dir.tmp # NoFile
    BY <1>1, <2>1 DEF Names
  <2>2. CASE Dir.tmp = NoFile
    BY <2>2, NewInodeIs, Files DEF OpenSnapshot
  <2> QED
    BY <2>1, <2>2
<1>3. d \in Version /\ d.log = Dir.log /\ d.tmp = i
  BY <1>1, <1>2 DEF Version
<1>4. /\ IF Dir.tmp = i THEN UNCHANGED dirs ELSE dirs' = Append(dirs, d)
      /\ content' = [content EXCEPT ![i] = <<>>]
      /\ synced' = [synced EXCEPT ![i] = 0]
      /\ step = "opened" /\ step' = "writing" /\ UNCHANGED <<memory, exposed>>
  BY Zenon DEF OpenSnapshot, ChangeDir, clients
<1> HIDE DEF d, i
<1>5. /\ dirs' \in Seq(Version) /\ dirs' # <<>>
      /\ Dir'.log = Dir.log /\ Dir'.tmp = i /\ Dir' \in Versions'
      /\ \A v \in Versions' : v \in Versions \/ v = Dir'
  <2>1. CASE Dir.tmp = i
    BY <1>1, <1>4, <2>1, DirKept DEF Types
  <2>2. CASE Dir.tmp # i
    BY <1>3, <1>4, <2>2, DirAppended
  <2> QED
    BY <2>1, <2>2
<1>6. /\ content' \in [Inodes -> Seq(Updates \cup {Fragment})]
      /\ content'[i] = <<>>
      /\ \A j \in Inodes : j # i => content'[j] = content[j]
  BY <1>2, <1>4, EmptyFile, Written, Zenon
<1>7. /\ DOMAIN synced' = Inodes /\ synced'[i] = 0
      /\ \A j \in Inodes : j # i => synced'[j] = synced[j]
  BY <1>2, <1>4 DEF Types
<1>8. Types'
  BY <1>4, <1>5, <1>6, <1>7, EmptyFile DEF Types
<1>9. Names'
  BY <1>1, <1>2, <1>5 DEF Names
<1>10. \A v \in Versions : v.log \in Inodes \cup {NoFile}
  BY DirIs
<1>11. Progress'
  BY <1>1, <1>2, <1>4, <1>5, <1>6, <1>10, EmptyFile DEF Progress
<1>12. \A v \in Versions' : v.log # NoFile =>
          /\ content'[v.log] = content[v.log]
          /\ \E w \in Versions : w.log = v.log
  BY <1>1, <1>2, <1>5, <1>6, <1>10
<1>13. Agree'
  BY <1>4, <1>12 DEF Agree
<1> QED
  BY <1>8, <1>9, <1>11, <1>13

LEMMA DiskWriteSnapshot ==
    ASSUME DiskInv, WriteSnapshot
    PROVE  DiskInv'
<1> DEFINE i == Dir.tmp
           missing == memory \ Range(content[i])
<1> USE DEF DiskInv
<1>1. /\ Dir \in Versions /\ i \in Inodes /\ i # NoFile /\ Dir.log # NoFile
      /\ Clean(content[i]) /\ Range(content[i]) \subseteq memory
  BY DirIs DEF WriteSnapshot, Progress
<1>2. content[i] \in Seq(Updates \cup {Fragment}) /\ \A v \in Versions : v.log # i
  BY <1>1, Files DEF Names
<1>3. /\ step = "writing" /\ UNCHANGED <<memory, dirs, synced, exposed>>
      /\ IF missing # {}
           THEN (\E u \in missing : content' = [content EXCEPT ![i] = Append(@, u)]) /\ UNCHANGED step
           ELSE step' = "written" /\ UNCHANGED content
  BY DEF WriteSnapshot, clients
<1>4. Dir' = Dir /\ Versions' = Versions
  BY <1>3, DirKept
<1>5. Names'
  BY <1>4 DEF Names
<1>6. CASE missing = {}
  BY <1>1, <1>3, <1>4, <1>5, <1>6, Zenon DEF Types, Progress, Agree
<1>7. CASE missing # {}
  <2>1. PICK u \in missing : content' = [content EXCEPT ![i] = Append(content[i], u)]
    BY <1>3, <1>7
  <2>2. u \in Updates /\ u # Fragment /\ u \in memory /\ step' = "writing"
    BY <1>3, <1>7, CheckpointAssumption DEF Types
  <2> DEFINE a == Append(content[i], u)
  <2>3. /\ a \in Seq(Updates \cup {Fragment}) /\ Len(content[i]) \in Nat
        /\ Len(a) = Len(content[i]) + 1
        /\ Range(a) = Range(content[i]) \cup {u} /\ Clean(a)
    BY <1>1, <1>2, <2>2, AppendFile
  <2>4. content' = [content EXCEPT ![i] = a]
    BY <2>1
  <2> HIDE DEF a, missing, i
  <2>5. /\ content' \in [Inodes -> Seq(Updates \cup {Fragment})]
        /\ content'[i] = a
        /\ \A j \in Inodes : j # i => content'[j] = content[j]
    BY <1>1, <2>3, <2>4, Written, Zenon
  <2>6. Types'
    <3>1. \A j \in Inodes : synced[j] \in 0..Len(content'[j])
      BY <2>3, <2>5 DEF Types
    <3> QED
      BY <1>3, <2>2, <2>5, <3>1 DEF Types
  <2>7. \A v \in Versions : v.log \in Inodes \cup {NoFile}
    BY DirIs
  <2>8. Progress'
    BY <1>1, <1>2, <1>3, <1>4, <2>2, <2>3, <2>5, <2>7, Zenon DEF Progress, i
  <2>9. Agree'
    BY <1>2, <1>3, <1>4, <2>2, <2>5, <2>7 DEF Agree
  <2> QED
    BY <1>5, <2>6, <2>8, <2>9
<1> QED
  BY <1>6, <1>7

LEMMA DiskSyncSnapshot ==
    ASSUME DiskInv, SyncSnapshot
    PROVE  DiskInv'
<1> USE DEF DiskInv
<1>1. Dir \in Versions /\ Dir.tmp \in Inodes
  BY DirIs DEF SyncSnapshot, Progress
<1>2. /\ synced' = [synced EXCEPT ![Dir.tmp] = Len(content[Dir.tmp])]
      /\ step = "written" /\ step' = "synced" /\ UNCHANGED <<memory, dirs, content, exposed>>
  BY DEF SyncSnapshot, clients
<1>3. Dir' = Dir /\ Versions' = Versions
  BY <1>2, DirKept
<1>4. Len(content[Dir.tmp]) \in Nat
  BY <1>1, Files
<1>5. Types'
  BY <1>1, <1>2, <1>4 DEF Types
<1>6. Names' /\ Agree'
  BY <1>2, <1>3 DEF Names, Agree
<1>7. Progress'
  BY <1>1, <1>2, <1>3 DEF Progress, Types
<1> QED
  BY <1>5, <1>6, <1>7

LEMMA DiskRename ==
    ASSUME DiskInv, Rename
    PROVE  DiskInv' /\ All(content[Dir.tmp]) = memory
<1> DEFINE i == Dir.tmp
           d == [log |-> i, tmp |-> NoFile]
<1> USE DEF DiskInv
<1>1. /\ Dir \in Versions /\ Dir.log # NoFile /\ i \in Inodes /\ i # NoFile
      /\ Clean(content[i]) /\ Range(content[i]) = memory
  BY DirIs, Zenon DEF Rename, Progress
<1>2. d \in Version /\ d.log = i /\ d.tmp = NoFile
  BY <1>1 DEF Version
<1>3. /\ dirs' = Append(dirs, d) /\ step = "synced" /\ step' = "renamed"
      /\ UNCHANGED <<memory, content, synced, exposed>>
  BY DEF Rename, ChangeDir, clients
<1>4. All(content[i]) = memory
  BY <1>1, Files, ReadClean DEF All
<1> HIDE DEF d, i
<1>5. dirs' \in Seq(Version) /\ dirs' # <<>> /\ Dir' = d /\ Versions' = Versions \cup {d}
  BY <1>2, <1>3, DirAppended
<1>6. Types'
  BY <1>3, <1>5 DEF Types
<1>7. Names'
  BY <1>1, <1>2, <1>5 DEF Names
<1>8. Progress'
  BY <1>1, <1>2, <1>3, <1>5 DEF Progress
<1>9. Agree'
  BY <1>1, <1>2, <1>3, <1>4, <1>5 DEF Agree
<1> QED
  BY <1>4, <1>6, <1>7, <1>8, <1>9 DEF i

LEMMA DiskWrite ==
    ASSUME DiskInv, NEW u \in Updates, Write(u)
    PROVE  DiskInv'
<1> DEFINE L == Dir.log
           a == Append(content[L], u)
<1> USE DEF DiskInv
<1>1. Dir \in Versions /\ L \in Inodes /\ L # NoFile /\ Clean(content[L])
  BY DirIs DEF Write, Progress
<1>2. content[L] \in Seq(Updates \cup {Fragment}) /\ u # Fragment
  BY <1>1, Files, CheckpointAssumption, Zenon
<1>3. /\ content' = [content EXCEPT ![L] = a]
      /\ synced' = IF SyncPolicy = "Always"
                     THEN [synced EXCEPT ![L] = Len(content'[L])] ELSE synced
      /\ memory' = memory \cup {u}
      /\ exposed' = (exposed \/ \E v \in Versions : v.log # L)
      /\ step = "up" /\ UNCHANGED <<step, dirs>>
  BY DEF Write, Versions
<1>4. /\ a \in Seq(Updates \cup {Fragment}) /\ Len(content[L]) \in Nat
      /\ Len(a) = Len(content[L]) + 1
      /\ Clean(a) /\ All(a) = All(content[L]) \cup {u}
  BY <1>1, <1>2, AppendFile
<1> HIDE DEF a, L
<1>5. /\ content' \in [Inodes -> Seq(Updates \cup {Fragment})]
      /\ content'[L] = a
      /\ \A j \in Inodes : j # L => content'[j] = content[j]
  BY <1>1, <1>3, <1>4, Written, Zenon
<1>6. Dir' = Dir /\ Versions' = Versions
  BY <1>3, DirKept
<1>7. Types'
  <2>1. DOMAIN synced' = Inodes /\ \A j \in Inodes : synced'[j] \in 0..Len(content'[j])
    BY <1>1, <1>3, <1>4, <1>5 DEF Types
  <2>2. exposed' \in BOOLEAN
    BY <1>3
  <2> QED
    BY <1>3, <1>5, <2>1, <2>2 DEF Types
<1>8. Names'
  BY <1>6, SMTT(30) DEF Names
<1>9. Progress'
  BY <1>1, <1>3, <1>4, <1>5, <1>6, Zenon DEF Progress, L
<1>10. Agree'
  <2> SUFFICES ASSUME ~ exposed' PROVE Agree'
    BY DEF Agree
  <2>1. ~ exposed /\ \A v \in Versions : v.log = L
    BY <1>3, Zenon
  <2> QED
    BY <1>1, <1>3, <1>4, <1>5, <1>6, <2>1 DEF Agree
<1> QED
  BY <1>7, <1>8, <1>9, <1>10

LEMMA DiskDown ==
    ASSUME DiskInv, CreateDir \/ KeepLog \/ Stop \/ UNCHANGED vars
    PROVE  DiskInv'
<1>1. /\ UNCHANGED <<dirs, content, synced, exposed>>
      /\ \/ step = "opened" /\ step' = "up" /\ UNCHANGED memory
         \/ step' = "down" /\ memory' = {}
         \/ UNCHANGED <<step, memory>>
  BY DEF CreateDir, KeepLog, Stop, vars, fs, clients
<1>2. Dir' = Dir /\ Versions' = Versions
  BY <1>1, DirKept
<1>3. Types'
  BY <1>1 DEF DiskInv, Types
<1>4. Names' /\ Progress'
  BY <1>1, <1>2 DEF DiskInv, Names, Progress
<1>5. Agree'
  BY <1>1, <1>2 DEF DiskInv, Agree
<1> QED
  BY <1>3, <1>4, <1>5 DEF DiskInv

(* A fragment at the end of a file changes nothing that is read. *)
LEMMA Torn ==
    ASSUME Types, NEW i \in Inodes, content' = [content EXCEPT ![i] = Append(@, Fragment)]
    PROVE  /\ content' \in [Inodes -> Seq(Updates \cup {Fragment})]
           /\ \A j \in Inodes :
                /\ synced[j] \in 0..Len(content'[j])
                /\ All(content'[j]) = All(content[j])
                /\ \A n \in 0..Len(content[j]) : Read(content'[j], n) = Read(content[j], n)
<1> DEFINE a == Append(content[i], Fragment)
<1>1. content[i] \in Seq(Updates \cup {Fragment})
  BY Files
<1>2. /\ a \in Seq(Updates \cup {Fragment}) /\ Len(content[i]) \in Nat
      /\ Len(a) = Len(content[i]) + 1 /\ All(a) = All(content[i])
      /\ \A n \in 0..Len(content[i]) : Read(a, n) = Read(content[i], n)
  BY <1>1, AppendFile
<1>3. content' = [content EXCEPT ![i] = a]
  OBVIOUS
<1> HIDE DEF a
<1>4. /\ content' \in [Inodes -> Seq(Updates \cup {Fragment})]
      /\ content'[i] = a
      /\ \A j \in Inodes : j # i => content'[j] = content[j]
  BY <1>2, <1>3, Written, Zenon
<1>5. \A j \in Inodes : synced[j] \in 0..Len(content'[j])
  BY <1>2, <1>4 DEF Types
<1> QED
  BY <1>2, <1>4, <1>5, Zenon

LEMMA DiskCrash ==
    ASSUME DiskInv, Crash
    PROVE  /\ DiskInv'
           /\ \A j \in Inodes :
                /\ All(content'[j]) = All(content[j])
                /\ \A n \in 0..Len(content[j]) : Read(content'[j], n) = Read(content[j], n)
<1> USE DEF DiskInv
<1>1. /\ step' = "down" /\ memory' = {} /\ UNCHANGED <<dirs, synced, exposed>>
      /\ \/ UNCHANGED content
         \/ step = "writing" /\ content' = [content EXCEPT ![Dir.tmp] = Append(@, Fragment)]
         \/ step = "up" /\ content' = [content EXCEPT ![Dir.log] = Append(@, Fragment)]
  BY DEF Crash
<1>2. Dir' = Dir /\ Versions' = Versions
  BY <1>1, DirKept
<1>3. /\ content' \in [Inodes -> Seq(Updates \cup {Fragment})]
      /\ \A j \in Inodes :
           /\ synced[j] \in 0..Len(content'[j])
           /\ All(content'[j]) = All(content[j])
           /\ \A n \in 0..Len(content[j]) : Read(content'[j], n) = Read(content[j], n)
  <2>1. CASE UNCHANGED content
    BY <2>1 DEF Types
  <2>3. /\ Dir.tmp \in Inodes \cup {NoFile} /\ Dir.log \in Inodes \cup {NoFile}
        /\ step = "writing" => Dir.tmp # NoFile
        /\ step = "up" => Dir.log # NoFile
    BY DirIs DEF Progress
  <2> QED
    BY <1>1, <2>1, <2>3, Torn, Zenon
<1>4. Types'
  BY <1>1, <1>3, Zenon DEF Types
<1>5. Names' /\ Progress'
  BY <1>1, <1>2 DEF Names, Progress
<1>6. \A v \in Versions : v.log \in Inodes \cup {NoFile}
  BY DirIs
<1>7. Agree'
  BY <1>1, <1>2, <1>3, <1>6 DEF Agree
<1> QED
  BY <1>3, <1>4, <1>5, <1>7

(* What is left of a file after a power failure has all that was synced. *)
LEMMA RemainsIs ==
    ASSUME Types, NEW i \in Inodes \cup {NoFile}, NEW s \in Remains(i)
    PROVE  /\ s \in Seq(Updates \cup {Fragment})
           /\ i # NoFile => Read(content[i], synced[i]) \subseteq All(s)
<1>1. CASE i = NoFile
  BY <1>1, EmptyFile DEF Remains
<1>2. CASE i # NoFile
  <2> DEFINE c == content[i]
  <2>1. /\ IsSeq(c) /\ c \in Seq(Updates \cup {Fragment})
        /\ Len(c) \in Nat /\ synced[i] \in 0..Len(c)
    BY <1>2, Files
  <2>2. PICK n \in synced[i]..Len(c) : s = SubSeq(c, 1, n) \/ s = Append(SubSeq(c, 1, n), Fragment)
    BY <1>2, <2>1 DEF Remains
  <2> DEFINE p == SubSeq(c, 1, n)
  <2> HIDE DEF c
  <2>3. n \in 0..Len(c) /\ n \in Nat /\ synced[i] \in Nat /\ synced[i] <= n
    BY <2>1, <2>2
  <2>4. IsSeq(p) /\ Len(p) = n /\ \A k \in 1..n : p[k] = c[k]
    BY <2>1, <2>3, SeqPrefix
  <2>5. p \in Seq(Updates \cup {Fragment})
    <3>1. \A k \in 1..n : c[k] \in Updates \cup {Fragment}
      BY <2>1, <2>3, ElementOfSeq
    <3> HIDE DEF p
    <3> QED
      BY <2>3, <2>4, <3>1, SeqHas DEF IsSeq
  <2>6. s = p \/ s = Append(p, Fragment)
    BY <2>2
  <2> HIDE DEF p
  <2>7. All(p) = Read(c, n)
    BY <2>3, <2>4, ReadSame DEF All
  <2>8. Read(c, synced[i]) \subseteq Read(c, n)
    BY <2>3, ReadMore
  <2>9. Append(p, Fragment) \in Seq(Updates \cup {Fragment}) /\ All(Append(p, Fragment)) = All(p)
    BY <2>5, AppendFile
  <2> QED
    BY <2>5, <2>6, <2>7, <2>8, <2>9, Zenon DEF c
<1> QED
  BY <1>1, <1>2

(* The machine fails: the directory is there, or was new and is lost. *)
DirSurvives ==
    /\ \E v \in Range(dirs) :
         /\ dirs' = <<v>>
         /\ \E log \in Remains(v.log), tmp \in Remains(v.tmp) :
              content' = [i \in Inodes |-> CASE i = v.log -> log
                                             [] i = v.tmp -> tmp
                                             [] OTHER     -> <<>>]
    /\ home' = IF home = "new" THEN "durable" ELSE home

DirLost ==
    /\ dirs' = <<EmptyDir>>
    /\ content' = [i \in Inodes |-> <<>>]
    /\ home = "new"
    /\ home' = "absent"

LEMMA PowerFailureIs ==
    ASSUME PowerFailure
    PROVE  /\ DirSurvives \/ DirLost
           /\ synced' = [i \in Inodes |-> Len(content'[i])]
           /\ step' = "down" /\ memory' = {}
           /\ UNCHANGED <<acked, exposed, unrooted>>
  BY Zenon DEF PowerFailure, DirSurvives, DirLost

LEMMA DiskLost ==
    ASSUME DiskInv, PowerFailure, DirLost
    PROVE  DiskInv'
<1> DEFINE d == EmptyDir
<1>1. d \in Version /\ d.log = NoFile /\ d.tmp = NoFile
  BY DEF Version, EmptyDir
<1>2. /\ step' = "down" /\ memory' = {} /\ UNCHANGED exposed
      /\ dirs' = <<d>> /\ content' = [i \in Inodes |-> <<>>]
      /\ synced' = [i \in Inodes |-> Len(content'[i])]
  BY PowerFailureIs DEF DirLost
<1> HIDE DEF d
<1>3. dirs' \in Seq(Version) /\ dirs' # <<>> /\ Dir' = d /\ Versions' = {d}
  BY <1>1, <1>2, DirSynced
<1>4. Types'
  <2>1. \A i \in Inodes : content'[i] = <<>> /\ synced'[i] = 0
    BY <1>2, EmptyFile
  <2>2. \A i \in Inodes : synced'[i] \in 0..Len(content'[i])
    BY <2>1, EmptyFile
  <2>3. content' \in [Inodes -> Seq(Updates \cup {Fragment})] /\ DOMAIN synced' = Inodes
    BY <1>2, EmptyFile
  <2>4. exposed' \in BOOLEAN
    BY <1>2 DEF DiskInv, Types
  <2> QED
    BY <1>2, <1>3, <2>2, <2>3, <2>4, Zenon DEF Types
<1>5. Names' /\ Progress' /\ Agree'
  BY <1>1, <1>2, <1>3, Zenon DEF Names, Progress, Agree
<1> QED
  BY <1>4, <1>5 DEF DiskInv

LEMMA DiskSurvives ==
    ASSUME DiskInv, PowerFailure, DirSurvives
    PROVE  /\ DiskInv'
           /\ \E v \in Versions :
                /\ Versions' = {v}
                /\ v.log # NoFile =>
                     Read(content[v.log], synced[v.log]) \subseteq
                       Read(content'[v.log], synced'[v.log])
<1> USE DEF DiskInv
<1>1. PICK v \in Versions :
        /\ dirs' = <<v>>
        /\ \E log \in Remains(v.log), tmp \in Remains(v.tmp) :
             content' = [i \in Inodes |-> CASE i = v.log -> log
                                            [] i = v.tmp -> tmp
                                            [] OTHER     -> <<>>]
        /\ synced' = [i \in Inodes |-> Len(content'[i])]
  BY PowerFailureIs DEF DirSurvives, Versions
<1>2. PICK log \in Remains(v.log), tmp \in Remains(v.tmp) :
        content' = [i \in Inodes |-> CASE i = v.log -> log
                                       [] i = v.tmp -> tmp
                                       [] OTHER     -> <<>>]
  BY <1>1
<1>3. step' = "down" /\ memory' = {} /\ UNCHANGED exposed
  BY PowerFailureIs
<1>4. /\ v \in Version
      /\ v.log \in Inodes \cup {NoFile} /\ v.tmp \in Inodes \cup {NoFile}
      /\ v.tmp # NoFile => v.tmp # v.log
  BY DirIs DEF Names
<1>5. dirs' \in Seq(Version) /\ dirs' # <<>> /\ Dir' = v /\ Versions' = {v}
  BY <1>1, <1>4, DirSynced
<1>6. /\ log \in Seq(Updates \cup {Fragment}) /\ tmp \in Seq(Updates \cup {Fragment})
      /\ v.log # NoFile => Read(content[v.log], synced[v.log]) \subseteq All(log)
  BY <1>4, RemainsIs
<1>7. /\ DOMAIN content' = Inodes
      /\ \A i \in Inodes : /\ i = v.log => content'[i] = log
                           /\ content'[i] \in Seq(Updates \cup {Fragment})
  <2>1. ASSUME NEW i \in Inodes
        PROVE  content'[i] = CASE i = v.log -> log [] i = v.tmp -> tmp [] OTHER -> <<>>
    BY <1>2
  <2>2. ASSUME NEW i \in Inodes
        PROVE  (i = v.log => content'[i] = log) /\ content'[i] \in {log, tmp, <<>>}
    <3>1. CASE i = v.log
      BY <1>4, <2>1, <3>1, Files
    <3>2. CASE i # v.log /\ i = v.tmp
      BY <2>1, <3>2
    <3>3. CASE i # v.log /\ i # v.tmp
      BY <2>1, <3>3
    <3> QED
      BY <3>1, <3>2, <3>3
  <2> QED
    BY <1>2, <1>6, <2>2, EmptyFile
<1>8. content' \in [Inodes -> Seq(Updates \cup {Fragment})]
  <2>1. content' = [i \in Inodes |-> content'[i]]
    BY <1>2
  <2> QED
    BY <1>7, <2>1
<1>9. /\ DOMAIN synced' = Inodes
      /\ \A i \in Inodes : synced'[i] = Len(content'[i]) /\ synced'[i] \in 0..Len(content'[i])
  <2>1. \A i \in Inodes : Len(content'[i]) \in Nat
    BY <1>7, LenProperties
  <2> QED
    BY <1>1, <2>1
<1>10. Types'
  BY <1>3, <1>5, <1>8, <1>9, SMTT(30) DEF Types
<1>11. Names' /\ Progress' /\ Agree'
  BY <1>3, <1>4, <1>5, Zenon DEF Names, Progress, Agree
<1>12. v.log # NoFile =>
         Read(content[v.log], synced[v.log]) \subseteq Read(content'[v.log], synced'[v.log])
  BY <1>4, <1>6, <1>7, <1>9, Zenon DEF All
<1> QED
  BY <1>5, <1>10, <1>11, <1>12, Zenon

LEMMA DiskInductive ==
    ASSUME DiskInv, [Next]_vars
    PROVE  DiskInv'
  BY DiskCreateLog, DiskSyncDir, DiskReplay, DiskOpenSnapshot, DiskWriteSnapshot,
     DiskSyncSnapshot, DiskRename, DiskWrite, DiskDown, DiskCrash, PowerFailureIs, DiskLost,
     DiskSurvives DEF Next

-----------------------------------------------------------------------------
(* With SyncPolicy::Always every step keeps the acknowledged updates in    *)
(* the synced part of every log that may be found.                         *)
LEMMA AckedInductive ==
    ASSUME SyncPolicy = "Always", DiskInv, AckedSynced, Rooted, [Next]_vars
    PROVE  AckedSynced'
<1> USE DEF DiskInv
<1>0. /\ Dir \in Versions
      /\ \A v \in Versions : v.log \in Inodes \cup {NoFile} /\ v.tmp \in Inodes \cup {NoFile}
  BY DirIs
<1>1. CASE CreateLog
  <2>1. Dir.log = NoFile /\ UNCHANGED <<acked, exposed, unrooted>>
    BY <1>1 DEF CreateLog, clients
  <2> QED
    BY <1>0, <2>1 DEF AckedSynced
<1>2. CASE SyncNewLog \/ SyncRename
  <2>1. UNCHANGED <<content, synced, acked, exposed, unrooted>> /\ dirs' = <<Dir>>
    BY <1>2 DEF SyncNewLog, SyncRename, clients
  <2>2. Versions' = {Dir}
    BY <1>0, <2>1, DirIs, DirSynced
  <2> QED
    BY <1>0, <2>1, <2>2 DEF AckedSynced
<1>3. CASE Replay
  <2> DEFINE L == Dir.log
             w == Whole(content[L])
  <2>1. /\ content' = [content EXCEPT ![L] = w]
        /\ synced' = [synced EXCEPT ![L] = IF @ > Len(w) THEN Len(w) ELSE @]
        /\ L # NoFile /\ UNCHANGED <<dirs, acked, exposed, unrooted>>
    BY <1>3, Zenon DEF Replay, clients
  <2>2. L \in Inodes /\ IsSeq(content[L]) /\ synced[L] \in 0..Len(content[L])
    BY <1>0, <2>1, Files, Zenon
  <2>3. Read(content'[L], synced'[L]) = Read(content[L], synced[L])
    <3>1. /\ synced[L] <= Len(w) => Read(w, synced[L]) = Read(content[L], synced[L])
          /\ synced[L] > Len(w) => Read(w, Len(w)) = Read(content[L], synced[L])
      BY <2>2, WholeRead
    <3>2. Len(w) \in Nat /\ synced[L] \in Nat
      BY <2>2, WholeIs, SeqHas
    <3> HIDE DEF w
    <3>3. content'[L] = w /\ synced'[L] = IF synced[L] > Len(w) THEN Len(w) ELSE synced[L]
      BY <2>1, <2>2 DEF Types
    <3> QED
      BY <3>1, <3>2, <3>3
  <2> HIDE DEF w, L
  <2>4. \A j \in Inodes : j # L => content'[j] = content[j] /\ synced'[j] = synced[j]
    BY <2>1, <2>2 DEF Types
  <2>5. Versions' = Versions
    BY <2>1, DirKept
  <2> QED
    BY <1>0, <2>1, <2>3, <2>4, <2>5 DEF AckedSynced
<1>4. CASE CreateDir \/ KeepLog \/ Stop \/ UNCHANGED vars
  <2>1. UNCHANGED <<dirs, content, synced, acked, exposed, unrooted>>
    BY <1>4 DEF CreateDir, KeepLog, Stop, vars, fs, clients
  <2> QED
    BY <2>1, DirKept DEF AckedSynced
<1>5. CASE OpenSnapshot
  <2> DEFINE i == IF Dir.tmp # NoFile THEN Dir.tmp ELSE NewInode
             d == [Dir EXCEPT !.tmp = i]
  <2>1. /\ i \in Inodes /\ \A v \in Versions : v.log # i
        /\ d \in Version /\ d.log = Dir.log
    <3>1. i \in Inodes /\ \A v \in Versions : v.log # i
      <4>1. CASE Dir.tmp # NoFile
        BY <1>0, <4>1 DEF Names
      <4>2. CASE Dir.tmp = NoFile
        BY <1>5, <4>2, NewInodeIs DEF OpenSnapshot
      <4> QED
        BY <4>1, <4>2
    <3> QED
      BY <1>0, <3>1, DirIs DEF Version
  <2>2. /\ IF Dir.tmp = i THEN UNCHANGED dirs ELSE dirs' = Append(dirs, d)
        /\ content' = [content EXCEPT ![i] = <<>>]
        /\ synced' = [synced EXCEPT ![i] = 0]
        /\ UNCHANGED <<acked, exposed, unrooted>>
    BY <1>5, Zenon DEF OpenSnapshot, ChangeDir, clients
  <2> HIDE DEF d, i
  <2>3. \A v \in Versions' : v \in Versions \/ v = d
    BY <2>1, <2>2, DirKept, DirAppended
  <2>4. \A v \in Versions : v.log # NoFile =>
          content'[v.log] = content[v.log] /\ synced'[v.log] = synced[v.log]
    BY <1>0, <2>1, <2>2, Zenon DEF Types
  <2> QED
    BY <1>0, <2>1, <2>2, <2>3, <2>4 DEF AckedSynced
<1>6. CASE WriteSnapshot
  <2>1. /\ Dir.tmp \in Inodes /\ \A v \in Versions : v.log # Dir.tmp
        /\ content[Dir.tmp] \in Seq(Updates \cup {Fragment})
    BY <1>0, <1>6, Files, Zenon DEF WriteSnapshot, Progress, Names
  <2>2. UNCHANGED <<dirs, synced, acked, exposed, unrooted>>
    BY <1>6 DEF WriteSnapshot, clients
  <2>3. \A j \in Inodes : j # Dir.tmp => content'[j] = content[j]
    BY <1>6, <2>1, Zenon DEF WriteSnapshot, Types
  <2> QED
    BY <1>0, <2>1, <2>2, <2>3, DirKept, Zenon DEF AckedSynced
<1>7. CASE SyncSnapshot
  <2>1. Dir.tmp \in Inodes /\ \A v \in Versions : v.log # Dir.tmp
    BY <1>0, <1>7 DEF SyncSnapshot, Progress, Names
  <2>2. /\ UNCHANGED <<dirs, content, acked, exposed, unrooted>>
        /\ \A j \in Inodes : j # Dir.tmp => synced'[j] = synced[j]
    BY <1>7, <2>1, SMTT(30) DEF SyncSnapshot, clients, Types
  <2> QED
    BY <1>0, <2>1, <2>2, DirKept DEF AckedSynced
<1>8. CASE Rename
  <2> DEFINE i == Dir.tmp
             d == [log |-> i, tmp |-> NoFile]
  <2>1. /\ dirs' = Append(dirs, d) /\ UNCHANGED <<content, synced, acked, exposed, unrooted>>
        /\ Dir.log # NoFile /\ step = "synced" /\ step # "down"
        /\ i # NoFile /\ synced[i] = Len(content[i])
    BY <1>8 DEF Rename, ChangeDir, clients, Progress
  <2>2. i \in Inodes /\ d \in Version /\ d.log = i
    BY <1>0, <2>1 DEF Version
  <2>3. Read(content[i], synced[i]) = memory
    BY <1>8, <2>1, DiskRename, Zenon DEF All
  <2>4. ~ exposed => All(content[Dir.log]) = memory
    BY <1>0, <2>1, Zenon DEF Agree
  <2>5. Read(content[Dir.log], synced[Dir.log]) \subseteq All(content[Dir.log])
    <3>1. Len(content[Dir.log]) \in Nat /\ synced[Dir.log] \in 0..Len(content[Dir.log])
      BY <1>0, <2>1, Files, Zenon
    <3>2. synced[Dir.log] \in Nat /\ synced[Dir.log] <= Len(content[Dir.log])
      BY <3>1
    <3> QED
      BY <3>1, <3>2, ReadMore, Zenon DEF All
  <2>6. ~ exposed /\ ~ unrooted => acked \subseteq memory
    BY <1>0, <2>1, <2>4, <2>5, Zenon DEF AckedSynced
  <2> HIDE DEF d, i
  <2>7. Versions' = Versions \cup {d}
    BY <2>1, <2>2, DirAppended, Zenon
  <2> QED
    BY <2>1, <2>2, <2>3, <2>6, <2>7, Zenon DEF AckedSynced
<1>9. ASSUME NEW u \in Updates, Write(u) PROVE AckedSynced'
  <2> DEFINE L == Dir.log
             a == Append(content[L], u)
  <2>1. L \in Inodes /\ L # NoFile /\ Clean(content[L])
    BY <1>0, <1>9, Zenon DEF Write, Progress
  <2>2. content[L] \in Seq(Updates \cup {Fragment}) /\ u # Fragment
    BY <2>1, Files, CheckpointAssumption, Zenon
  <2>3. /\ content' = [content EXCEPT ![L] = a]
        /\ synced' = [synced EXCEPT ![L] = Len(content'[L])]
        /\ acked' = acked \cup {u}
        /\ exposed' = (exposed \/ \E v \in Versions : v.log # L)
        /\ unrooted' = (unrooted \/ home # "durable")
        /\ UNCHANGED dirs
    BY <1>9, Zenon DEF Write, Versions
  <2>4. All(a) = All(content[L]) \cup {u}
    BY <2>1, <2>2, AppendFile, Zenon
  <2>5. Read(content[L], synced[L]) \subseteq All(content[L])
    BY <2>1, Files, ReadMore DEF All
  <2> HIDE DEF a, L
  <2>6. content'[L] = a /\ synced'[L] = Len(a)
    BY <2>1, <2>3 DEF Types
  <2> SUFFICES ASSUME ~ exposed', ~ unrooted' PROVE AckedSynced'
    BY DEF AckedSynced
  <2>7. ~ exposed /\ ~ unrooted /\ \A v \in Versions : v.log = L
    BY <2>3, Zenon
  <2>8. acked \subseteq Read(content[L], synced[L])
    BY <1>0, <2>1, <2>7 DEF AckedSynced
  <2>9. acked' \subseteq Read(content'[L], synced'[L])
    BY <2>3, <2>4, <2>5, <2>6, <2>8 DEF All
  <2> QED
    BY <2>1, <2>3, <2>7, <2>9, DirKept, Zenon DEF AckedSynced
<1>10. CASE Crash
  <2>1. UNCHANGED <<dirs, synced, acked, exposed, unrooted>>
    BY <1>10 DEF Crash
  <2>2. \A j \in Inodes : Read(content'[j], synced[j]) = Read(content[j], synced[j])
    BY <1>10, DiskCrash, Files, Zenon
  <2> QED
    BY <1>0, <2>1, <2>2, DirKept DEF AckedSynced
<1>11. CASE PowerFailure
  <2>1. UNCHANGED <<acked, exposed, unrooted>> /\ (DirSurvives \/ DirLost)
    BY <1>11, PowerFailureIs
  <2>2. CASE DirSurvives
    <3>1. PICK v \in Versions :
            /\ Versions' = {v}
            /\ v.log # NoFile =>
                 Read(content[v.log], synced[v.log]) \subseteq Read(content'[v.log], synced'[v.log])
      BY <1>11, <2>2, DiskSurvives
    <3> QED
      BY <2>1, <3>1 DEF AckedSynced
  <2>3. CASE DirLost
    BY <2>1, <2>3, Zenon DEF DirLost, Rooted, AckedSynced
  <2> QED
    BY <2>1, <2>2, <2>3
<1> QED
  BY <1>1, <1>2, <1>3, <1>4, <1>5, <1>6, <1>7, <1>8, <1>9, <1>10, <1>11 DEF Next

(* And nothing is acknowledged in a new directory but what is counted. *)
LEMMA RootedInductive ==
    ASSUME Rooted, [Next]_vars
    PROVE  Rooted'
<1>1. CASE CreateLog \/ SyncNewLog \/ Replay \/ KeepLog \/ OpenSnapshot
  BY <1>1, Zenon DEF CreateLog, SyncNewLog, Replay, KeepLog, OpenSnapshot, fs, clients, Rooted
<1>2. CASE WriteSnapshot \/ SyncSnapshot \/ Rename \/ SyncRename \/ Stop \/ Crash \/ UNCHANGED vars
  BY <1>2, Zenon DEF WriteSnapshot, SyncSnapshot, Rename, SyncRename, Stop, Crash, vars, fs,
     clients, Rooted
<1>3. CASE CreateDir
  BY <1>3, Zenon DEF CreateDir, clients, Rooted
<1>4. ASSUME NEW u \in Updates, Write(u) PROVE Rooted'
  BY <1>4, Zenon DEF Write, Rooted
<1>5. CASE PowerFailure
  <2>1. UNCHANGED <<acked, unrooted>> /\ (home' = "durable" \/ UNCHANGED home \/ home = "new")
    BY <1>5, PowerFailureIs, Zenon DEF DirSurvives, DirLost
  <2> QED
    BY <2>1 DEF Rooted
<1> QED
  BY <1>1, <1>2, <1>3, <1>4, <1>5 DEF Next

(* What the properties call Recovers, in the terms of the invariant. *)
LEMMA RecoversIs ==
    ASSUME Types, NEW v \in Versions
    PROVE  /\ Recovers(v, synced) =
                IF v.log = NoFile THEN {} ELSE Read(content[v.log], synced[v.log])
           /\ v.log # NoFile => Recovers(v, Lengths) = All(content[v.log])
<1>1. CASE v.log = NoFile
  BY <1>1 DEF Recovers
<1>2. CASE v.log # NoFile
  <2> DEFINE i == v.log
  <2>1. i \in Inodes
    BY <1>2, DirIs
  <2>2. IsSeq(content[i]) /\ Len(content[i]) \in Nat /\ synced[i] \in 0..Len(content[i])
    BY <2>1, Files
  <2>3. Lengths[i] = Len(content[i])
    BY <2>1 DEF Lengths
  <2>4. Range(Whole(SubSeq(content[i], 1, synced[i]))) = Read(content[i], synced[i])
    BY <2>2, RecoversRead
  <2>5. Range(Whole(SubSeq(content[i], 1, Len(content[i])))) = Read(content[i], Len(content[i]))
    BY <2>2, RecoversRead
  <2> QED
    BY <1>2, <2>3, <2>4, <2>5, Zenon DEF Recovers, All
<1> QED
  BY <1>1, <1>2, Zenon

(* checkpoint_if_worthwhile changes the form of the log and nothing else,  *)
(* under either SyncPolicy: from the end of replay on, every log that a    *)
(* version of the directory names reads back as what is in memory.         *)
THEOREM CheckpointKeepsData == Spec => []CheckpointPreserves
<1>1. Init => DiskInv
  BY DiskInitial
<1>2. DiskInv /\ [Next]_vars => DiskInv'
  BY DiskInductive
<1>3. DiskInv => CheckpointPreserves
  BY RecoversIs DEF DiskInv, CheckpointPreserves, Agree, Versions
<1> QED
  BY <1>1, <1>2, <1>3, PTL DEF Spec

(* With SyncPolicy::Always whatever a power failure may leave of the       *)
(* directory names a log whose synced part has every acknowledged update,  *)
(* for any number of crashes, power failures, restarts and checkpoints, as *)
(* long as no update was acknowledged while the disk might name another    *)
(* log (a process died before sync_parent_dir) or might not have the data  *)
(* directory at all (create_dir_all made it, and nothing syncs its parent).*)
THEOREM AckedSurvivesCheckpoint ==
    ASSUME SyncPolicy = "Always"
    PROVE  Spec => []AckedSurvivesOutage
<1>1. Init => DiskInv /\ AckedSynced /\ Rooted
  BY DiskInitial
<1>2. DiskInv /\ AckedSynced /\ Rooted /\ [Next]_vars => (DiskInv /\ AckedSynced /\ Rooted)'
  BY DiskInductive, AckedInductive, RootedInductive
<1>3. DiskInv /\ AckedSynced /\ Rooted => AckedSurvivesOutage
  <2> SUFFICES ASSUME DiskInv, AckedSynced, Rooted, ~ exposed, ~ unrooted, NEW v \in OnDisk
               PROVE  acked \subseteq Recovers(v, synced)
    BY DEF AckedSurvivesOutage, Kept
  <2>1. CASE v \in Versions
    BY <2>1, RecoversIs DEF DiskInv, AckedSynced
  <2>2. CASE v \notin Versions
    BY <2>2, Zenon DEF OnDisk, Versions, Rooted
  <2> QED
    BY <2>1, <2>2
<1> QED
  BY <1>1, <1>2, <1>3, PTL DEF Spec
=============================================================================
