----------------------------- MODULE Checkpoint -----------------------------
(***************************************************************************)
(* Starting the server on a data directory: its creation, replay,          *)
(* truncation of a torn tail, and the checkpoint that rewrites a long log  *)
(* as a snapshot (InMemoryStorage::open_in_dir and open, Log::open,        *)
(* checkpoint_if_worthwhile), with a crash of the process or of the        *)
(* machine between any two steps.                                          *)
(*                                                                         *)
(* The file system keeps names and contents apart.  A name points to an    *)
(* inode; what is on the disk is, for the contents, at least the synced    *)
(* prefix and, for the directory, one of its versions since it was last    *)
(* synced, or nothing at all while its own entry, in its parent, is new:   *)
(* nothing ever syncs the parent.  The contents of a file are the updates its records make, in    *)
(* file order, with Fragment for an incomplete record; an update stands    *)
(* for the part of the database it adds, so a snapshot lists the updates   *)
(* of the database in any order.                                           *)
(***************************************************************************)
EXTENDS Sequences, FiniteSetsExt

CONSTANTS Updates,    \* what clients write
          Fragment,   \* an incomplete record
          Inodes,     \* bound: files that exist at the same time
          SyncPolicy, \* Config::sync_policy
          MaxCrashes, \* bound: process crashes, I/O errors included
          MaxOutages  \* bound: power failures

ASSUME CheckpointAssumption ==
    /\ Fragment \notin Updates
    /\ Inodes \subseteq Nat \ {0}
    /\ SyncPolicy \in {"Always", "Never"}
    /\ MaxCrashes \in Nat
    /\ MaxOutages \in Nat

VARIABLES
    step,     \* where InMemoryStorage::open is, "up" when it has returned
    memory,   \* the updates in memory
    home,     \* the data directory: "absent", "new" (created by the server,
              \* its entry not synced) or "durable"
    dirs,     \* the versions of the directory since it was last synced, the
              \* last one being the current one
    content,  \* content[i]: the records of inode i
    synced,   \* synced[i]: how many of them are on the disk
    acked,    \* the updates whose clients were told OK
    exposed,  \* history: an update was acknowledged while a version of the
              \* directory that may be on the disk named another log
    unrooted, \* history: an update was acknowledged in a new directory
    crashes,
    outages

vars == <<step, memory, home, dirs, content, synced,
          acked, exposed, unrooted, crashes, outages>>

fs == <<home, dirs, content, synced>>

(* What only clients and failures change. *)
clients == <<acked, exposed, unrooted, crashes, outages>>

NoFile == 0

EmptyDir == [log |-> NoFile, tmp |-> NoFile]

Dir == dirs[Len(dirs)]

(* The directories a failure of the machine may leave. *)
OnDisk == Range(dirs) \cup (IF home = "durable" THEN {} ELSE {EmptyDir})

(* An inode no version of the directory names. *)
Unused == {i \in Inodes : \A v \in Range(dirs) : i \notin {v.log, v.tmp}}

NewInode == CHOOSE i \in Unused : TRUE

(* The directory changes; the change is on the disk by the next sync. *)
ChangeDir(d) == dirs' = Append(dirs, d)

(* The records a replay of s reads: all before the first fragment. *)
Whole(s) == LET torn == {k \in 1..Len(s) : s[k] = Fragment}
            IN  IF torn = {} THEN s ELSE SubSeq(s, 1, Min(torn) - 1)

(* The database a replay of the log rebuilds from directory version v when *)
(* n[i] records of inode i are left.                                       *)
Recovers(v, n) ==
    IF v.log = NoFile THEN {} ELSE Range(Whole(SubSeq(content[v.log], 1, n[v.log])))

(* The number of records the operating system shows. *)
Lengths == [i \in Inodes |-> Len(content[i])]

-----------------------------------------------------------------------------
(* Before the first start; the directory may have been made beforehand. *)
Init ==
    /\ step = "down"
    /\ memory = {}
    /\ home \in {"absent", "durable"}
    /\ dirs = <<EmptyDir>>
    /\ content = [i \in Inodes |-> <<>>]
    /\ synced = [i \in Inodes |-> 0]
    /\ acked = {}
    /\ exposed = FALSE
    /\ unrooted = FALSE
    /\ crashes = 0
    /\ outages = 0

(* open_in_dir: create_dir_all, which does nothing to a directory that is  *)
(* there.                                                                  *)
CreateDir ==
    /\ step = "down"
    /\ home = "absent"
    /\ home' = "new"
    /\ UNCHANGED <<step, memory, dirs, content, synced, clients>>

(* Log::open: there is no file yet, one is created. *)
CreateLog ==
    /\ step = "down"
    /\ home # "absent"
    /\ Dir.log = NoFile
    /\ Unused # {}
    /\ ChangeDir([Dir EXCEPT !.log = NewInode])
    /\ content' = [content EXCEPT ![NewInode] = <<>>]
    /\ synced' = [synced EXCEPT ![NewInode] = 0]
    /\ step' = "created"
    /\ UNCHANGED <<memory, home, clients>>

(* Log::open: sync_parent_dir, only after the file was created. *)
SyncNewLog ==
    /\ step = "created"
    /\ dirs' = <<Dir>>
    /\ step' = "opened"
    /\ UNCHANGED <<memory, home, content, synced, clients>>

(* Log::open: there is a file.  Its records are applied, and what follows  *)
(* them is truncated away.                                                 *)
Replay ==
    /\ step = "down"
    /\ Dir.log # NoFile
    /\ LET whole == Whole(content[Dir.log])
       IN  /\ memory' = Range(whole)
           /\ content' = [content EXCEPT ![Dir.log] = whole]
           /\ synced' = [synced EXCEPT ![Dir.log] = IF @ > Len(whole) THEN Len(whole) ELSE @]
    /\ step' = "opened"
    /\ UNCHANGED <<home, dirs, clients>>

(* checkpoint_if_worthwhile: the log is shorter than the threshold.  Both  *)
(* are in bytes, and a record of either file can have any number of them,  *)
(* so any log may be short, and any log may be long.                       *)
KeepLog ==
    /\ step = "opened"
    /\ step' = "up"
    /\ UNCHANGED <<memory, fs, clients>>

(* Mutant: what an interrupted checkpoint left in the file stays in it. *)
OpenSnapshotForAppend ==
    /\ step = "opened"
    /\ IF Dir.tmp # NoFile
         THEN UNCHANGED fs
         ELSE /\ ChangeDir([Dir EXCEPT !.tmp = NewInode])
              /\ UNCHANGED home
              /\ content' = [content EXCEPT ![NewInode] = <<>>]
              /\ synced' = [synced EXCEPT ![NewInode] = 0]
    /\ step' = "writing"
    /\ UNCHANGED <<memory, clients>>

(* write_snapshot_file: data.log.new is created, or truncated if an        *)
(* earlier attempt left one.                                               *)
OpenSnapshot ==
    /\ step = "opened"
    /\ Dir.tmp = NoFile => Unused # {}
    /\ LET i == IF Dir.tmp # NoFile THEN Dir.tmp ELSE NewInode
       IN  /\ IF Dir.tmp = i THEN UNCHANGED dirs ELSE ChangeDir([Dir EXCEPT !.tmp = i])
           /\ content' = [content EXCEPT ![i] = <<>>]
           /\ synced' = [synced EXCEPT ![i] = 0]
    /\ step' = "writing"
    /\ UNCHANGED <<memory, home, clients>>

(* write_snapshot_file: write_all, one record after the other. *)
WriteSnapshot ==
    LET missing == memory \ Range(content[Dir.tmp])
    IN  /\ step = "writing"
        /\ IF missing # {}
             THEN /\ \E u \in missing :
                       content' = [content EXCEPT ![Dir.tmp] = Append(@, u)]
                  /\ UNCHANGED step
             ELSE step' = "written" /\ UNCHANGED content
        /\ UNCHANGED <<memory, home, dirs, synced, clients>>

(* Mutant: sync_all is skipped, as for an append with SyncPolicy::Never. *)
SkipSyncSnapshot ==
    /\ step = "written"
    /\ step' = "synced"
    /\ UNCHANGED <<memory, fs, clients>>

(* write_snapshot_file: sync_all, whatever the policy. *)
SyncSnapshot ==
    /\ step = "written"
    /\ synced' = [synced EXCEPT ![Dir.tmp] = Len(content[Dir.tmp])]
    /\ step' = "synced"
    /\ UNCHANGED <<memory, home, dirs, content, clients>>

(* checkpoint_if_worthwhile: rename, data.log.new becomes data.log. *)
Rename ==
    /\ step = "synced"
    /\ ChangeDir([log |-> Dir.tmp, tmp |-> NoFile])
    /\ step' = "renamed"
    /\ UNCHANGED <<memory, home, content, synced, clients>>

(* checkpoint_if_worthwhile: sync_parent_dir, open_for_append. *)
SyncRename ==
    /\ step = "renamed"
    /\ dirs' = <<Dir>>
    /\ step' = "up"
    /\ UNCHANGED <<memory, home, content, synced, clients>>

(* A client's update is written, synced as the policy says, acknowledged   *)
(* and applied (LogWriter and Storage have the steps in between).          *)
Write(u) ==
    /\ step = "up"
    /\ u \notin Range(content[Dir.log])
    /\ content' = [content EXCEPT ![Dir.log] = Append(@, u)]
    /\ synced' = IF SyncPolicy = "Always"
                   THEN [synced EXCEPT ![Dir.log] = Len(content'[Dir.log])] ELSE synced
    /\ memory' = memory \cup {u}
    /\ acked' = acked \cup {u}
    /\ exposed' = (exposed \/ \E v \in Range(dirs) : v.log # Dir.log)
    /\ unrooted' = (unrooted \/ home # "durable")
    /\ UNCHANGED <<step, home, dirs, crashes, outages>>

(* The server is shut down, and can be started again. *)
Stop ==
    /\ step = "up"
    /\ step' = "down"
    /\ memory' = {}
    /\ UNCHANGED <<fs, clients>>

-----------------------------------------------------------------------------
(* The process ends: killed, panicked, or by an I/O error in one of the    *)
(* steps above.  Directory and contents are as the kernel has them; a      *)
(* write under way may have left part of a record.                         *)
Crash ==
    /\ crashes < MaxCrashes
    /\ step # "down"
    /\ crashes' = crashes + 1
    /\ step' = "down"
    /\ memory' = {}
    /\ \/ UNCHANGED content
       \/ step = "writing" /\ content' = [content EXCEPT ![Dir.tmp] = Append(@, Fragment)]
       \/ step = "up" /\ content' = [content EXCEPT ![Dir.log] = Append(@, Fragment)]
    /\ UNCHANGED <<home, dirs, synced, acked, exposed, unrooted, outages>>

(* What may be left of a file when the machine fails. *)
Remains(i) ==
    IF i = NoFile
      THEN {<<>>}
      ELSE {SubSeq(content[i], 1, n) : n \in synced[i]..Len(content[i])} \cup
           {Append(SubSeq(content[i], 1, n), Fragment) : n \in synced[i]..Len(content[i]) - 1}

(* The machine fails: some version of the directory and, of every file, a  *)
(* prefix with all that was synced, cut at any byte, are on the disk; a    *)
(* new directory may be gone as a whole.                                   *)
PowerFailure ==
    /\ outages < MaxOutages
    /\ outages' = outages + 1
    /\ step' = "down"
    /\ memory' = {}
    /\ \/ /\ home = "new"
          /\ home' = "absent"
          /\ dirs' = <<EmptyDir>>
          /\ content' = [i \in Inodes |-> <<>>]
       \/ /\ home' = IF home = "new" THEN "durable" ELSE home
          /\ \E v \in Range(dirs) :
               /\ dirs' = <<v>>
               /\ \E log \in Remains(v.log), tmp \in Remains(v.tmp) :
                    content' = [i \in Inodes |-> CASE i = v.log -> log
                                                   [] i = v.tmp -> tmp
                                                   [] OTHER     -> <<>>]
    /\ synced' = [i \in Inodes |-> Len(content'[i])]
    /\ UNCHANGED <<acked, exposed, unrooted, crashes>>

-----------------------------------------------------------------------------
Next ==
    \/ CreateDir \/ CreateLog \/ SyncNewLog
    \/ Replay
    \/ KeepLog \/ OpenSnapshot \/ WriteSnapshot \/ SyncSnapshot \/ Rename \/ SyncRename
    \/ \E u \in Updates : Write(u)
    \/ Stop \/ Crash \/ PowerFailure

Spec == Init /\ [][Next]_vars

(* The acknowledged updates, in the synced part of every log that may be   *)
(* found after a failure of the machine.                                   *)
Kept == \A v \in OnDisk : acked \subseteq Recovers(v, synced)

(* With SyncPolicy::Always acknowledged updates survive the end of the     *)
(* process and a failure of the machine at any moment, in any mix, but for *)
(* two gaps the code leaves.  A process that died before sync_parent_dir   *)
(* has a successor that writes to a log the disk may not name (exposed).   *)
(* And a data directory the server itself created is never synced in its   *)
(* parent, so that until the disk has it by other means a failure of the   *)
(* machine can take the directory with all that is in it (unrooted).       *)
AckedSurvivesOutage == ~ exposed /\ ~ unrooted => Kept

(* The same without the first exception: a new directory entry is synced   *)
(* "when it was first created" (Log::open).                                *)
EntryAlwaysSynced == ~ unrooted => Kept

(* The same without the second exception: an acknowledged write "survives  *)
(* anything short of media failure" (SyncPolicy::Always).                  *)
DirectoryAlwaysSynced == ~ exposed => Kept

(* The checkpoint changes the form of the log and nothing else: from the   *)
(* end of replay on, another restart would find exactly what this one has  *)
(* in memory, whether it sees the old log or the new one.  The exception   *)
(* is again a log written to while the disk may name another one: after a  *)
(* process died between the rename and sync_parent_dir, the two differ by  *)
(* what its successor has written.                                         *)
CheckpointPreserves ==
    step # "down" /\ ~ exposed =>
        \A v \in Range(dirs) : v.log # NoFile =>
            Recovers(v, Lengths) = memory
=============================================================================
