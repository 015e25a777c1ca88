------------------------------ MODULE LogWriter ------------------------------
(***************************************************************************)
(* The write path of the on-disk log: the callers that append records      *)
(* (LogWriter::submit), the bounded channel between them and the writer    *)
(* thread, the thread's group-commit loop (LogWriter::run), the file it    *)
(* owns (Log::write_framed_batch), the crashes that interrupt it, and the  *)
(* replay that reopens it (Log::open).                                     *)
(*                                                                         *)
(* A record stands for one call of submit and the framed bytes it carries: *)
(* its kind and its contents play no part here.  The file is the sequence  *)
(* of the records whose bytes are completely in it, in file order, with    *)
(* Fragment for a proper prefix of a record's bytes.                       *)
(***************************************************************************)
EXTENDS Naturals, Sequences, FiniteSets

CONSTANTS Records,       \* the calls of submit, each with a record of its own
          Fragment,      \* an incomplete record in the file
          QueueCapacity, \* WRITER_QUEUE_CAPACITY
          SyncPolicy,    \* Config::sync_policy
          WriteFaults,   \* can write_all return an error?
          SyncFaults,    \* can sync_data return an error?
          PowerLoss,     \* can the machine, and not only the process, fail?
          MaxCrashes     \* bound: process crashes plus power failures

ASSUME LogWriterAssumption ==
    /\ Fragment \notin Records
    /\ QueueCapacity \in Nat \ {0}
    /\ SyncPolicy \in {"Always", "Never"}
    /\ WriteFaults \in BOOLEAN
    /\ SyncFaults \in BOOLEAN
    /\ PowerLoss \in BOOLEAN
    /\ MaxCrashes \in Nat

VARIABLES
    call,     \* where each call of submit stands, see CallState
    queue,    \* the mpsc channel
    sender,   \* LogWriter::sender: "open", "aborting" (tasks are being
              \* aborted, the sender is still there) or "closed"
    thread,   \* the step LogWriter::run is at, "exited" once it returned
    batch,    \* the requests run took off the channel and has not answered
    written,  \* how many records of batch write_all has put into the file
    outcome,  \* what write_framed_batch returned for batch
    file,     \* the file as the operating system shows it
    synced,   \* how many elements of file are on stable storage
    process,  \* "up", "down", or "refused": Log::open returned an error
    crashes   \* crashes so far, at most MaxCrashes

vars == <<call, queue, sender, thread, batch, written, outcome, file, synced,
          process, crashes>>

caller == <<call, queue, sender>>
writer == <<thread, batch, written, outcome>>
disk   == <<file, synced>>
env    == <<process, crashes>>

(* "sending": awaiting room in the channel.  "waiting": awaiting the ack.  *)
(* "ok", "err": answered.  "orphan": the caller's task was aborted while   *)
(* its request was in the channel or the batch.  "dropped": the call ended *)
(* with the process, or was aborted before its request was sent.           *)
CallState == {"new", "sending", "waiting", "ok", "err", "orphan", "dropped"}

Pending == {r \in Records : call[r] \in {"sending", "waiting"}}

(* Is r among the first n elements of the file f, with nothing before it   *)
(* that stops replay?                                                      *)
Readable(f, r, n) ==
    \E i \in 1..n : f[i] = r /\ \A j \in 1..i : f[j] # Fragment

-----------------------------------------------------------------------------
Init ==
    /\ call = [r \in Records |-> "new"]
    /\ queue = <<>>
    /\ sender = "open"
    /\ thread = "recv"
    /\ batch = <<>>
    /\ written = 0
    /\ outcome = "ok"
    /\ file = <<>>
    /\ synced = 0
    /\ process = "up"
    /\ crashes = 0

(* submit, up to sender.send(..).await *)
Submit(r) ==
    /\ process = "up"
    /\ sender # "closed"
    /\ call[r] = "new"
    /\ call' = [call EXCEPT ![r] = "sending"]
    /\ UNCHANGED <<queue, sender, writer, disk, env>>

(* The channel has room: the send completes and submit awaits its ack. *)
Send(r) ==
    /\ call[r] = "sending"
    /\ Len(queue) < QueueCapacity
    /\ queue' = Append(queue, r)
    /\ call' = [call EXCEPT ![r] = "waiting"]
    /\ UNCHANGED <<sender, writer, disk, env>>

(* run: blocking_recv returns the first request of a new batch. *)
BlockingRecv ==
    /\ thread = "recv"
    /\ queue # <<>>
    /\ batch' = <<Head(queue)>>
    /\ queue' = Tail(queue)
    /\ written' = 0
    /\ thread' = "drain"
    /\ UNCHANGED <<call, sender, outcome, disk, env>>

(* run: try_recv takes whatever has queued up meanwhile; once it finds the *)
(* channel empty the batch is complete and write_all starts.               *)
TryRecv ==
    /\ thread = "drain"
    /\ \/ /\ queue # <<>>
          /\ batch' = Append(batch, Head(queue))
          /\ queue' = Tail(queue)
          /\ UNCHANGED thread
       \/ /\ queue = <<>>
          /\ thread' = "write"
          /\ UNCHANGED <<queue, batch>>
    /\ UNCHANGED <<call, sender, written, outcome, disk, env>>

(* Mutant: the sync is forgotten. *)
AfterWriteAllNoSync == "ack"

(* write_framed_batch: what follows a completed write_all. *)
AfterWriteAll == IF SyncPolicy = "Always" THEN "sync" ELSE "ack"

(* write_framed_batch: write_all has got one more record into the file.    *)
(* With the last one it returns.                                           *)
WriteRecord ==
    /\ thread = "write"
    /\ file' = Append(file, batch[written + 1])
    /\ written' = written + 1
    /\ IF written' < Len(batch)
         THEN UNCHANGED <<thread, outcome>>
         ELSE thread' = AfterWriteAll /\ outcome' = "ok"
    /\ UNCHANGED <<caller, batch, synced, env>>

(* write_framed_batch: write_all fails with part of the batch, and perhaps *)
(* part of one record, in the file.  The `?` skips the sync.               *)
WriteFail ==
    /\ WriteFaults
    /\ thread = "write"
    /\ file' \in {file, Append(file, Fragment)}
    /\ thread' = "ack"
    /\ outcome' = "err"
    /\ UNCHANGED <<caller, batch, written, synced, env>>

(* write_framed_batch: sync_data succeeds. *)
SyncData ==
    /\ thread = "sync"
    /\ synced' = Len(file)
    /\ thread' = "ack"
    /\ UNCHANGED <<caller, batch, written, outcome, file, env>>

(* write_framed_batch: sync_data fails; what was written stays written. *)
SyncFail ==
    /\ SyncFaults
    /\ thread = "sync"
    /\ thread' = "ack"
    /\ outcome' = "err"
    /\ UNCHANGED <<caller, batch, written, disk, env>>

(* Mutant: only the request that woke the thread is answered. *)
AckFirstOnly ==
    /\ thread = "ack"
    /\ call' = [call EXCEPT ![Head(batch)] = IF @ = "waiting" THEN outcome ELSE @]
    /\ batch' = <<>>
    /\ thread' = "recv"
    /\ UNCHANGED <<queue, sender, written, outcome, disk, env>>

(* run: the requests of the batch are answered one by one, all with the    *)
(* outcome of the one write; a send to a caller that is gone is ignored.   *)
Ack ==
    /\ thread = "ack"
    /\ call' = [call EXCEPT ![Head(batch)] = IF @ = "waiting" THEN outcome ELSE @]
    /\ batch' = Tail(batch)
    /\ thread' = IF Len(batch) = 1 THEN "recv" ELSE "ack"
    /\ UNCHANGED <<queue, sender, written, outcome, disk, env>>

-----------------------------------------------------------------------------
(* Shutdown.  When serve returns, its JoinSet is dropped and the tasks     *)
(* still running are aborted, each at the await point it is at.            *)
BeginAbort ==
    /\ process = "up"
    /\ sender = "open"
    /\ sender' = "aborting"
    /\ UNCHANGED <<call, queue, writer, disk, env>>

Abort(r) ==
    /\ sender = "aborting"
    /\ r \in Pending
    /\ call' = [call EXCEPT ![r] = IF @ = "waiting" THEN "orphan" ELSE "dropped"]
    /\ UNCHANGED <<queue, sender, writer, disk, env>>

(* Mutant: drop joins the thread before it drops the sender. *)
DropJoiningFirst ==
    /\ sender = "aborting"
    /\ Pending = {}
    /\ thread = "exited"
    /\ sender' = "closed"
    /\ UNCHANGED <<call, queue, writer, disk, env>>

(* LogWriter::drop: no call can be running any more; the sender goes away  *)
(* and drop waits for the thread.                                          *)
Drop ==
    /\ sender = "aborting"
    /\ Pending = {}
    /\ sender' = "closed"
    /\ UNCHANGED <<call, queue, writer, disk, env>>

(* Mutant: the loop ends as soon as the sender is gone. *)
ExitAtOnce ==
    /\ thread = "recv"
    /\ sender = "closed"
    /\ thread' = "exited"
    /\ process' = "down"
    /\ queue' = <<>>
    /\ UNCHANGED <<call, sender, batch, written, outcome, disk, crashes>>

(* run: blocking_recv finds the channel closed and empty, run returns,     *)
(* drop's join returns and the process ends.                               *)
Exit ==
    /\ thread = "recv"
    /\ queue = <<>>
    /\ sender = "closed"
    /\ thread' = "exited"
    /\ process' = "down"
    /\ UNCHANGED <<caller, batch, written, outcome, disk, crashes>>

-----------------------------------------------------------------------------
(* What a crash does to the process: everything in memory is gone. *)
LoseMemory ==
    /\ call' = [r \in Records |->
                  IF call[r] \in {"sending", "waiting", "orphan"} THEN "dropped"
                                                                  ELSE call[r]]
    /\ queue' = <<>>
    /\ sender' = "closed"
    /\ thread' = "exited"
    /\ batch' = <<>>
    /\ written' = 0
    /\ UNCHANGED outcome
    /\ process' = "down"
    /\ crashes' = crashes + 1

(* The process dies.  The page cache survives; a write_all that was under  *)
(* way may leave part of the next record.                                  *)
Crash ==
    /\ process = "up"
    /\ crashes < MaxCrashes
    /\ LoseMemory
    /\ \/ UNCHANGED file
       \/ thread = "write" /\ file' = Append(file, Fragment)
    /\ UNCHANGED synced

(* The machine dies.  Bytes reach the disk in file order, so a prefix      *)
(* survives that holds everything synced, cut at any byte.                 *)
PowerFail ==
    /\ PowerLoss
    /\ process \in {"up", "down"}
    /\ crashes < MaxCrashes
    /\ LoseMemory
    /\ \E n \in synced..Len(file) :
         /\ \/ file' = SubSeq(file, 1, n)
            \/ /\ n < Len(file) \/ thread = "write"
               /\ file' = Append(SubSeq(file, 1, n), Fragment)
         /\ synced' = Len(file')

(* The replay loop of Log::open reads n records and then meets the end of  *)
(* the file or a fragment.                                                 *)
Replays(n) ==
    /\ \A i \in 1..n : file[i] # Fragment
    /\ n < Len(file) => file[n + 1] = Fragment

(* Mutant: the torn tail is discarded in memory but not truncated on disk. *)
OpenKeepingTail ==
    /\ process = "down"
    /\ \E n \in 0..Len(file) :
         /\ Replays(n)
         /\ \/ /\ process' = "up"
               /\ thread' = "recv"
               /\ sender' = "open"
            \/ /\ n + 1 < Len(file)
               /\ process' = "refused"
               /\ UNCHANGED <<thread, sender>>
    /\ UNCHANGED <<call, queue, batch, written, outcome, disk, crashes>>

(* Log::open.  A fragment at the end is a torn tail and is truncated away. *)
(* A fragment with data after it: the length in its header, or in the      *)
(* header it and the next bytes make up, reaches to the end of the file or *)
(* past it, which reads as a torn tail too, or ends before, which is       *)
(* reported as corruption.                                                 *)
Open ==
    /\ process = "down"
    /\ \E n \in 0..Len(file) :
         /\ Replays(n)
         /\ \/ /\ file' = SubSeq(file, 1, n)
               /\ synced' = IF synced > n THEN n ELSE synced
               /\ process' = "up"
               /\ thread' = "recv"
               /\ sender' = "open"
            \/ /\ n + 1 < Len(file)
               /\ process' = "refused"
               /\ UNCHANGED <<disk, thread, sender>>
    /\ UNCHANGED <<call, queue, batch, written, outcome, crashes>>

-----------------------------------------------------------------------------
Caller(r) == Submit(r) \/ Send(r) \/ Abort(r)

Thread ==
    \/ BlockingRecv \/ TryRecv
    \/ WriteRecord \/ WriteFail
    \/ SyncData \/ SyncFail
    \/ Ack \/ Exit

Next ==
    \/ \E r \in Records : Caller(r)
    \/ Thread
    \/ BeginAbort
    \/ Drop
    \/ Crash
    \/ PowerFail
    \/ Open

Spec == Init /\ [][Next]_vars

(* The operating system runs the writer thread, tokio's semaphore hands a  *)
(* freed slot to the senders in turn, aborted tasks are polled, and the    *)
(* drop that follows them runs.  Nobody has to call submit, shut the       *)
(* server down or start it again.                                          *)
Fairness ==
    /\ WF_vars(Thread)
    /\ \A r \in Records : WF_vars(Send(r)) /\ WF_vars(Abort(r))
    /\ WF_vars(Drop)

FairSpec == Spec /\ Fairness

-----------------------------------------------------------------------------
(* Every variable has its type and the channel respects its capacity. *)
TypeOK ==
    /\ call \in [Records -> CallState]
    /\ queue \in Seq(Records) /\ Len(queue) <= QueueCapacity
    /\ sender \in {"open", "aborting", "closed"}
    /\ thread \in {"recv", "drain", "write", "sync", "ack", "exited"}
    /\ batch \in Seq(Records)
    /\ written \in Nat
    /\ outcome \in {"ok", "err"}
    /\ file \in Seq(Records \cup {Fragment})
    /\ synced \in 0..Len(file)
    /\ process \in {"up", "down", "refused"}
    /\ crashes \in 0..MaxCrashes

(* The part of the file no failure of this configuration can take away. *)
Stable == IF PowerLoss THEN synced ELSE Len(file)

(* A record whose append returned Ok is read back by every later replay,   *)
(* whatever crashes and restarts come between (SyncPolicy's promise: with  *)
(* Always even across power loss, with Never across process crashes).      *)
AckedSurvives == \A r \in Records : call[r] = "ok" => Readable(file, r, Stable)

(* A graceful shutdown loses no request the channel had accepted, even if  *)
(* its caller was aborted: run only returns once the channel is closed and *)
(* empty.                                                                  *)
GracefulDrain ==
    \A r \in Records :
        thread = "exited" /\ call[r] = "orphan" => Readable(file, r, Len(file))

(* However often it crashes, the store can be opened again: a torn tail is *)
(* truncated away before anything is appended after it, so it never turns  *)
(* into corruption in the middle of the file.                              *)
AlwaysReopens == process # "refused"

(* What the engine is told when an append fails is that nothing happened:  *)
(* a record whose append returned an error is never read back.             *)
FailedNeverHappened ==
    \A r \in Records : call[r] = "err" => ~ Readable(file, r, Len(file))

(* The log implements DurableLog: records are appended at the end only,    *)
(* confirmed ones are never lost, and replay changes nothing.              *)
DL == INSTANCE DurableLog WITH
        log <- SubSeq(file, 1, CHOOSE n \in 0..Len(file) : Replays(n)),
        confirmed <- {r \in Records : call[r] = "ok"}

ImplementsDurableLog == DL!Spec

(* Every append is answered, unless the process ends first. *)
EveryAppendAnswered ==
    \A r \in Records :
        call[r] = "sending" ~> call[r] \in {"ok", "err", "orphan", "dropped"}

(* Once the server has begun to stop, the writer thread ends: dropping the *)
(* sender before joining keeps the two from waiting for each other.        *)
ShutdownEnds == sender = "aborting" ~> thread = "exited"
=============================================================================
