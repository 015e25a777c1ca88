--------------------------- MODULE LogWriter_proofs ---------------------------
(***************************************************************************)
(* Theorems about LogWriter, for any set of records, any channel capacity  *)
(* and any number of crashes.                                              *)
(***************************************************************************)
EXTENDS LogWriter, SequenceTheorems, TLAPS

(* run and write_framed_batch go through their steps with a batch that is  *)
(* not empty, and write_all stops at its end.                              *)
BatchOK ==
    /\ thread \in {"drain", "write", "sync", "ack"} => batch # <<>>
    /\ thread = "drain" => written = 0
    /\ thread = "write" => written < Len(batch)

(* Appending to a sequence changes none of its elements. *)
LEMMA AppendKeeps ==
    ASSUME NEW S, NEW s \in Seq(S), NEW e \in S
    PROVE  /\ Append(s, e) \in Seq(S)
           /\ Len(Append(s, e)) = Len(s) + 1
           /\ \A i \in 1..Len(s) : Append(s, e)[i] = s[i]
           /\ Append(s, e)[Len(s) + 1] = e
  BY AppendProperties

(* A prefix of a sequence has its elements. *)
LEMMA PrefixKeeps ==
    ASSUME NEW S, NEW s \in Seq(S), NEW n \in 0..Len(s)
    PROVE  /\ SubSeq(s, 1, n) \in Seq(S)
           /\ Len(SubSeq(s, 1, n)) = n
           /\ \A i \in 1..n : SubSeq(s, 1, n)[i] = s[i]
<1>1. Len(s) \in Nat
  BY LenProperties
<1>2. \A i \in 1..n : i \in 1..Len(s) /\ s[i] \in S
  BY <1>1, ElementOfSeq
<1> QED
  BY <1>1, <1>2, SubSeqProperties

(* Tail drops the first element and keeps the others in order. *)
LEMMA TailKeeps ==
    ASSUME NEW S, NEW s \in Seq(S), s # <<>>
    PROVE  /\ Head(s) \in S
           /\ Head(s) = s[1]
           /\ Tail(s) \in Seq(S)
           /\ Len(Tail(s)) = Len(s) - 1
           /\ \A i \in 1..Len(Tail(s)) : Tail(s)[i] = s[i + 1]
           /\ Len(s) \in Nat \ {0}
  BY HeadTailProperties, LenProperties, EmptySeq

(* A file with or without a fragment after it is a file. *)
LEMMA TornKeeps ==
    ASSUME NEW f \in Seq(Records \cup {Fragment}),
           NEW g \in {f, Append(f, Fragment)}
    PROVE  /\ g \in Seq(Records \cup {Fragment})
           /\ Len(f) \in Nat /\ Len(g) \in Nat
           /\ Len(f) <= Len(g)
           /\ \A i \in 1..Len(f) : g[i] = f[i]
<1>1. Len(f) \in Nat
  BY LenProperties
<1>2. CASE g = f
  BY <1>1, <1>2
<1>3. CASE g = Append(f, Fragment)
  <2> DEFINE S == Records \cup {Fragment}
  <2>1. f \in Seq(S) /\ Fragment \in S
    OBVIOUS
  <2>2. /\ Append(f, Fragment) \in Seq(S)
        /\ Len(Append(f, Fragment)) = Len(f) + 1
        /\ \A i \in 1..Len(f) : Append(f, Fragment)[i] = f[i]
    <3> HIDE DEF S
    <3> QED BY <2>1, AppendKeeps
  <2> QED
    BY <1>1, <1>3, <2>2
<1> QED
  BY <1>2, <1>3

(* The actions preserve the types and BatchOK. *)
LEMMA TypeInductive ==
    ASSUME TypeOK, BatchOK, [Next]_vars
    PROVE  TypeOK' /\ BatchOK'
<1> USE LogWriterAssumption DEF TypeOK, CallState, BatchOK
<1>0. Len(file) \in Nat /\ Len(queue) \in Nat /\ Len(batch) \in Nat
  BY LenProperties
<1>1. ASSUME NEW r \in Records, Submit(r) PROVE TypeOK' /\ BatchOK'
  BY <1>1 DEF Submit, writer, disk, env
<1>2. ASSUME NEW r \in Records, Send(r) PROVE TypeOK' /\ BatchOK'
  BY <1>0, <1>2, AppendKeeps DEF Send, writer, disk, env
<1>3. ASSUME NEW r \in Records, Abort(r) PROVE TypeOK' /\ BatchOK'
  BY <1>3 DEF Abort, writer, disk, env
<1>4. CASE BlockingRecv
  <2>1. /\ Head(queue) \in Records /\ Tail(queue) \in Seq(Records)
        /\ Len(Tail(queue)) <= QueueCapacity
    BY <1>0, <1>4, TailKeeps DEF BlockingRecv
  <2>2. <<Head(queue)>> \in Seq(Records) /\ <<Head(queue)>> # <<>>
    BY <2>1
  <2> QED
    BY <1>4, <2>1, <2>2 DEF BlockingRecv, disk, env
<1>5. CASE TryRecv
  <2>1. CASE queue # <<>>
    <3>1. /\ Head(queue) \in Records /\ Tail(queue) \in Seq(Records)
          /\ Len(Tail(queue)) <= QueueCapacity
      BY <1>0, <2>1, TailKeeps
    <3>2. Append(batch, Head(queue)) \in Seq(Records)
          /\ Append(batch, Head(queue)) # <<>>
      BY <1>0, <3>1, AppendProperties
    <3> QED
      BY <1>5, <2>1, <3>1, <3>2, Zenon DEF TryRecv, disk, env
  <2>2. CASE queue = <<>>
    <3>1. 0 < Len(batch)
      BY <1>0, <1>5, EmptySeq DEF TryRecv
    <3> QED
      BY <1>5, <2>2, <3>1 DEF TryRecv, disk, env
  <2> QED
    BY <2>1, <2>2
<1>6. CASE WriteRecord
  <2>1. batch[written + 1] \in Records
    BY <1>0, <1>6, ElementOfSeq DEF WriteRecord
  <2>2. file' \in Seq(Records \cup {Fragment}) /\ Len(file') = Len(file) + 1
    BY <1>6, <2>1, AppendKeeps DEF WriteRecord
  <2> QED
    BY <1>0, <1>6, <2>2 DEF WriteRecord, AfterWriteAll, caller, env
<1>7. CASE WriteFail
  <2>1. /\ file' \in Seq(Records \cup {Fragment})
        /\ Len(file') \in Nat /\ Len(file) <= Len(file')
    BY <1>7, TornKeeps, Zenon DEF WriteFail
  <2> QED
    BY <1>0, <1>7, <2>1 DEF WriteFail, caller, env
<1>8. CASE SyncData
  BY <1>0, <1>8 DEF SyncData, caller, env
<1>9. CASE SyncFail
  BY <1>9 DEF SyncFail, caller, disk, env
<1>10. CASE Ack
  <2>1. batch # <<>>
    BY <1>10 DEF Ack
  <2>2. /\ Head(batch) \in Records /\ Tail(batch) \in Seq(Records)
        /\ Len(Tail(batch)) = Len(batch) - 1
    BY <2>1, TailKeeps
  <2>3. Len(batch) # 1 => Tail(batch) # <<>>
    <3> DEFINE rest == Tail(batch)
    <3>1. rest \in Seq(Records) /\ Len(rest) = Len(batch) - 1
      BY <2>2
    <3> HIDE DEF rest
    <3>2. Len(batch) # 1 => rest # <<>>
      BY <1>0, <3>1
    <3> QED
      BY <3>2 DEF rest
  <2>4. call' \in [Records -> CallState]
    BY <1>10, <2>2 DEF Ack
  <2> QED
    BY <1>10, <2>2, <2>3, <2>4 DEF Ack, disk, env
<1>11. CASE Exit
  BY <1>11 DEF Exit, caller, disk
<1>12. CASE BeginAbort
  BY <1>12 DEF BeginAbort, writer, disk, env
<1>13. CASE Drop
  BY <1>13 DEF Drop, writer, disk, env
<1>14. ASSUME LoseMemory, crashes < MaxCrashes,
              file' \in Seq(Records \cup {Fragment}), synced' \in 0..Len(file')
       PROVE  TypeOK' /\ BatchOK'
  <2>1. call' \in [Records -> CallState]
    BY <1>14 DEF LoseMemory
  <2>2. queue' \in Seq(Records) /\ Len(queue') <= QueueCapacity
    BY <1>14 DEF LoseMemory
  <2> QED
    BY <1>14, <2>1, <2>2 DEF LoseMemory
<1>15. CASE Crash
  <2>1. file' \in {file, Append(file, Fragment)}
    BY <1>15 DEF Crash
  <2>2. /\ file' \in Seq(Records \cup {Fragment})
        /\ Len(file') \in Nat /\ Len(file) <= Len(file')
    BY <2>1, TornKeeps, Zenon
  <2>3. synced' \in 0..Len(file')
    BY <1>0, <1>15, <2>2 DEF Crash
  <2> QED
    BY <1>14, <1>15, <2>2, <2>3 DEF Crash
<1>16. CASE PowerFail
  <2>1. PICK n \in synced..Len(file) :
          /\ \/ file' = SubSeq(file, 1, n)
             \/ file' = Append(SubSeq(file, 1, n), Fragment)
          /\ synced' = Len(file')
    BY <1>16 DEF PowerFail
  <2>2. SubSeq(file, 1, n) \in Seq(Records \cup {Fragment})
    BY <1>0, PrefixKeeps
  <2>3. file' \in Seq(Records \cup {Fragment})
    <3>1. Append(SubSeq(file, 1, n), Fragment) \in Seq(Records \cup {Fragment})
      BY <2>2, AppendKeeps
    <3> QED
      BY <2>1, <2>2, <3>1, Zenon
  <2>4. synced' \in 0..Len(file')
    BY <2>1, <2>3, LenProperties
  <2> QED
    BY <1>14, <1>16, <2>3, <2>4 DEF PowerFail
<1>17. CASE Open
  <2>1. PICK n \in 0..Len(file) :
          \/ /\ file' = SubSeq(file, 1, n)
             /\ synced' = IF synced > n THEN n ELSE synced
             /\ process' = "up"
             /\ thread' = "recv"
             /\ sender' = "open"
          \/ /\ process' = "refused"
             /\ UNCHANGED <<disk, thread, sender>>
    BY <1>17 DEF Open
  <2>2. /\ SubSeq(file, 1, n) \in Seq(Records \cup {Fragment})
        /\ Len(SubSeq(file, 1, n)) = n
    BY PrefixKeeps
  <2>3. CASE process' = "up"
    <3>1. /\ file' = SubSeq(file, 1, n)
          /\ synced' = IF synced > n THEN n ELSE synced
          /\ thread' = "recv"
          /\ sender' = "open"
      BY <2>1, <2>3
    <3>2. file' \in Seq(Records \cup {Fragment}) /\ synced' \in 0..Len(file')
      BY <1>0, <2>2, <3>1
    <3> QED
      BY <1>17, <2>3, <3>1, <3>2 DEF Open
  <2>4. CASE process' = "refused" /\ UNCHANGED <<disk, thread, sender>>
    BY <1>17, <2>4 DEF Open, disk
  <2> QED
    BY <2>1, <2>3, <2>4
<1>18. CASE UNCHANGED vars
  BY <1>18 DEF vars
<1> QED
  BY <1>1, <1>2, <1>3, <1>4, <1>5, <1>6, <1>7, <1>8, <1>9, <1>10, <1>11,
     <1>12, <1>13, <1>15, <1>16, <1>17, <1>18, Zenon DEF Next, Caller, Thread

(* The initial state has the types. *)
LEMMA TypeInitial == Init => TypeOK /\ BatchOK
<1> SUFFICES ASSUME Init PROVE TypeOK /\ BatchOK
  OBVIOUS
<1>1. <<>> \in Seq(Records) /\ <<>> \in Seq(Records \cup {Fragment})
      /\ Len(<<>>) = 0
  OBVIOUS
<1> QED
  BY <1>1, LogWriterAssumption DEF Init, TypeOK, CallState, BatchOK

(* Type correctness: in particular the channel never holds more than       *)
(* WRITER_QUEUE_CAPACITY requests, however many callers append at once,    *)
(* and the synced part of the file never reaches past its end.             *)
THEOREM TypeCorrect == Spec => []TypeOK
<1>1. TypeOK /\ BatchOK /\ [Next]_vars => TypeOK' /\ BatchOK'
  BY TypeInductive
<1> QED
  BY <1>1, TypeInitial, PTL DEF Spec

-----------------------------------------------------------------------------
(* Only the last element of the file can be incomplete, and only while the *)
(* process is down: whoever appends does so behind complete records.       *)
TornTailOnly ==
    \A i \in 1..Len(file) : file[i] = Fragment => i = Len(file) /\ process = "down"

TailInv ==
    /\ TornTailOnly
    /\ process # "up" => thread = "exited"
    /\ AlwaysReopens

(* As long as no write_all fails, no step brings an incomplete record      *)
(* before a complete one.                                                  *)
LEMMA TailInductive ==
    ASSUME ~ WriteFaults, TypeOK, BatchOK, TailInv, [Next]_vars
    PROVE  TailInv'
<1> USE LogWriterAssumption DEF TailInv, TornTailOnly, AlwaysReopens
<1>0. /\ Len(file) \in Nat /\ Len(batch) \in Nat
      /\ file \in Seq(Records \cup {Fragment}) /\ synced \in 0..Len(file)
      /\ process \in {"up", "down", "refused"}
  BY LenProperties DEF TypeOK
<1>1. CASE UNCHANGED <<file, process, thread>>
  BY <1>1
<1>2. CASE /\ UNCHANGED <<file, process>>
           /\ process = "up"
  BY <1>2
<1>3. CASE WriteRecord
  <2>1. batch[written + 1] \in Records
    BY <1>0, <1>3, ElementOfSeq DEF WriteRecord, TypeOK, BatchOK
  <2>2. /\ Len(file') = Len(file) + 1
        /\ \A i \in 1..Len(file) : file'[i] = file[i]
        /\ file'[Len(file) + 1] = batch[written + 1]
    BY <1>0, <1>3, <2>1, AppendKeeps DEF WriteRecord
  <2>3. process = "up" /\ process' = process
    BY <1>0, <1>3 DEF WriteRecord, env
  <2> QED
    BY <1>0, <2>1, <2>2, <2>3
<1>4. CASE Exit
  <2>1. \A i \in 1..Len(file) : file[i] # Fragment
    BY <1>0, <1>4 DEF Exit
  <2> QED
    BY <1>4, <2>1 DEF Exit, disk
<1>5. CASE Crash
  <2>1. \A i \in 1..Len(file) : file[i] # Fragment
    BY <1>5 DEF Crash
  <2>2. /\ Len(Append(file, Fragment)) = Len(file) + 1
        /\ \A i \in 1..Len(file) : Append(file, Fragment)[i] = file[i]
    BY <1>0, AppendKeeps
  <2>3. file' = file \/ file' = Append(file, Fragment)
    BY <1>5 DEF Crash
  <2>4. process' = "down" /\ thread' = "exited"
    BY <1>5 DEF Crash, LoseMemory
  <2>5. CASE file' = file
    BY <2>1, <2>4, <2>5
  <2>6. CASE file' = Append(file, Fragment)
    BY <1>0, <2>1, <2>2, <2>4, <2>6
  <2> QED
    BY <2>3, <2>5, <2>6
<1>6. CASE PowerFail
  <2>1. PICK n \in synced..Len(file) :
          \/ file' = SubSeq(file, 1, n)
          \/ /\ n < Len(file) \/ thread = "write"
             /\ file' = Append(SubSeq(file, 1, n), Fragment)
    BY <1>6 DEF PowerFail
  <2> DEFINE pre == SubSeq(file, 1, n)
  <2>2. /\ pre \in Seq(Records \cup {Fragment})
        /\ Len(pre) = n
        /\ \A i \in 1..n : pre[i] = file[i]
    BY <1>0, PrefixKeeps
  <2>3. process' = "down" /\ thread' = "exited"
    BY <1>6 DEF PowerFail, LoseMemory
  <2>4. CASE file' = pre
    BY <1>0, <2>2, <2>3, <2>4
  <2>5. CASE (n < Len(file) \/ thread = "write") /\ file' = Append(pre, Fragment)
    <3>1. \A i \in 1..n : pre[i] # Fragment
      BY <1>0, <2>2, <2>5
    <3>2. /\ Len(Append(pre, Fragment)) = n + 1
          /\ \A i \in 1..n : Append(pre, Fragment)[i] = pre[i]
      <4> HIDE DEF pre
      <4> QED BY <2>2, AppendKeeps
    <3> HIDE DEF pre
    <3> QED
      BY <1>0, <2>3, <2>5, <3>1, <3>2
  <2> QED
    BY <2>1, <2>4, <2>5
<1>7. CASE Open
  <2>1. PICK n \in 0..Len(file) :
          /\ Replays(n)
          /\ \/ file' = SubSeq(file, 1, n) /\ process' = "up"
             \/ n + 1 < Len(file)
    BY <1>7 DEF Open
  <2>2. ~ (n + 1 < Len(file))
    BY <1>0, <2>1 DEF Replays
  <2>3. /\ Len(SubSeq(file, 1, n)) = n
        /\ \A i \in 1..n : SubSeq(file, 1, n)[i] = file[i]
    BY <1>0, PrefixKeeps
  <2> QED
    BY <1>0, <2>1, <2>2, <2>3 DEF Replays
<1>8. ASSUME NEW r \in Records, Caller(r) PROVE TailInv'
  BY <1>1, <1>8 DEF Caller, Submit, Send, Abort, writer, disk, env
<1>9. CASE BlockingRecv \/ TryRecv \/ SyncData \/ SyncFail \/ Ack
  BY <1>0, <1>2, <1>9 DEF BlockingRecv, TryRecv, SyncData, SyncFail, Ack, disk, env
<1>10. CASE BeginAbort \/ Drop \/ UNCHANGED vars
  BY <1>1, <1>10 DEF BeginAbort, Drop, vars, writer, disk, env
<1> QED
  BY <1>3, <1>4, <1>5, <1>6, <1>7, <1>8, <1>9, <1>10 DEF Next, Thread, WriteFail

(* However often the process and the machine crash, Log::open accepts the  *)
(* file: a torn tail is truncated before the next record is appended, so   *)
(* it never turns into corruption in the middle of the file.               *)
THEOREM Reopens ==
    ASSUME ~ WriteFaults
    PROVE  Spec => []AlwaysReopens
<1>1. Init => TypeOK /\ BatchOK /\ TailInv
  <2>1. Len(<<>>) = 0
    OBVIOUS
  <2> QED
    BY <2>1, TypeInitial DEF Init, TailInv, TornTailOnly, AlwaysReopens
<1>2. TypeOK /\ BatchOK /\ TailInv /\ [Next]_vars => TypeOK' /\ BatchOK' /\ TailInv'
  BY TypeInductive, TailInductive
<1>3. TailInv => AlwaysReopens
  BY DEF TailInv
<1> QED
  BY <1>1, <1>2, <1>3, PTL DEF Spec

-----------------------------------------------------------------------------
(* How an acknowledgement comes about: write_all puts the records of the   *)
(* batch into the file, the sync (or, without power failures, the write)   *)
(* makes them stable, and only then are they answered with Ok.             *)
AckChain ==
    /\ thread = "write" =>
         \A k \in 1..written : Readable(file, batch[k], Len(file))
    /\ thread = "sync" =>
         \A k \in 1..Len(batch) : Readable(file, batch[k], Len(file))
    /\ thread = "ack" /\ outcome = "ok" =>
         \A k \in 1..Len(batch) : Readable(file, batch[k], Stable)
    /\ AckedSurvives

(* A record stays readable when the file keeps the part it is in. *)
LEMMA ReadableKept ==
    ASSUME NEW f, NEW g, NEW r, NEW n \in Nat, NEW m \in Nat, n <= m,
           \A i \in 1..n : g[i] = f[i],
           Readable(f, r, n)
    PROVE  Readable(g, r, m)
<1>1. PICK i \in 1..n : f[i] = r /\ \A j \in 1..i : f[j] # Fragment
  BY DEF Readable
<1>2. i \in 1..m /\ g[i] = r /\ \A j \in 1..i : g[j] # Fragment
  BY <1>1
<1> QED
  BY <1>2 DEF Readable

(* A step that keeps the stable part of the file and answers nobody keeps  *)
(* every acknowledged record.                                              *)
LEMMA AckedKept ==
    ASSUME TypeOK, TypeOK', AckedSurvives,
           \A r \in Records : call'[r] = "ok" => call[r] = "ok",
           Stable <= Stable',
           \A i \in 1..Stable : file'[i] = file[i]
    PROVE  AckedSurvives'
<1> SUFFICES ASSUME NEW r \in Records, call'[r] = "ok"
             PROVE  Readable(file', r, Stable')
  BY DEF AckedSurvives
<1>1. Readable(file, r, Stable)
  BY DEF AckedSurvives
<1>2. Stable \in Nat /\ Stable' \in Nat
  BY LenProperties, LogWriterAssumption DEF TypeOK, Stable
<1> QED
  BY <1>1, <1>2, ReadableKept

(* The actions preserve the chain. *)
LEMMA AckInductive ==
    ASSUME ~ WriteFaults, SyncPolicy = "Always" \/ ~ PowerLoss,
           TypeOK, BatchOK, TailInv, AckChain, [Next]_vars,
           TypeOK', TailInv'
    PROVE  AckChain'
<1>0. /\ Len(file) \in Nat /\ Stable \in Nat /\ Stable <= Len(file)
      /\ Len(file') \in Nat /\ Stable' \in Nat /\ Stable' <= Len(file')
      /\ Len(batch) \in Nat
  BY LenProperties, LogWriterAssumption DEF TypeOK, Stable
<1>1. CASE UNCHANGED <<file, synced, thread, batch, written, outcome>>
           /\ \A r \in Records : call'[r] = "ok" => call[r] = "ok"
  BY <1>1 DEF AckChain, AckedSurvives, Stable
<1>2. CASE BlockingRecv \/ TryRecv
  <2>1. UNCHANGED <<file, synced, call>> /\ AckedSurvives'
    BY <1>2 DEF BlockingRecv, TryRecv, disk, AckChain, AckedSurvives, Stable
  <2>2. thread' = "drain" \/ (thread' = "write" /\ written' = 0)
    BY <1>2 DEF BlockingRecv, TryRecv, BatchOK
  <2> QED
    BY <2>1, <2>2 DEF AckChain
<1>3. CASE WriteRecord
  <2>1. /\ thread = "write" /\ written \in Nat /\ written < Len(batch)
        /\ batch' = batch /\ written' = written + 1 /\ call' = call
        /\ synced' = synced
    BY <1>3 DEF WriteRecord, TypeOK, BatchOK, caller
  <2>2. batch[written + 1] \in Records
    <3>1. batch \in Seq(Records) /\ written + 1 \in 1..Len(batch)
      BY <1>0, <2>1 DEF TypeOK
    <3> QED
      BY <3>1, ElementOfSeq, Zenon
  <2>3. /\ Len(file') = Len(file) + 1
        /\ \A i \in 1..Len(file) : file'[i] = file[i]
        /\ file'[Len(file) + 1] = batch[written + 1]
    BY <1>3, <2>2, AppendKeeps DEF WriteRecord, TypeOK
  <2>4. \A i \in 1..Len(file') : file'[i] # Fragment
    <3>1. process' = "up"
      BY <1>3 DEF WriteRecord, TailInv, env
    <3> QED
      BY <3>1 DEF TailInv, TornTailOnly
  <2>5. \A k \in 1..written' : Readable(file', batch[k], Len(file'))
    <3> SUFFICES ASSUME NEW k \in 1..written'
                 PROVE  Readable(file', batch[k], Len(file'))
      OBVIOUS
    <3>1. CASE k \in 1..written
      <4>1. Readable(file, batch[k], Len(file))
        BY <2>1, <3>1 DEF AckChain
      <4>2. PICK i \in 1..Len(file) :
               file[i] = batch[k] /\ \A j \in 1..i : file[j] # Fragment
        BY <4>1 DEF Readable
      <4>3. i \in 1..Len(file') /\ file'[i] = batch[k]
        BY <1>0, <2>3, <4>2
      <4>4. \A j \in 1..i : file'[j] # Fragment
        BY <1>0, <2>4, <4>3
      <4> QED
        BY <4>3, <4>4 DEF Readable
    <3>2. CASE k = written + 1
      BY <1>0, <2>3, <2>4, <3>2 DEF Readable
    <3> QED
      BY <2>1, <3>1, <3>2
  <2>6. AckedSurvives'
    <3>1. Stable <= Stable' /\ \A i \in 1..Stable : file'[i] = file[i]
      BY <1>0, <2>1, <2>3 DEF Stable
    <3> QED
      BY <2>1, <3>1, AckedKept DEF AckChain
  <2>7. CASE written' < Len(batch)
    BY <1>3, <2>1, <2>5, <2>6, <2>7 DEF WriteRecord, AckChain
  <2>8. CASE written' = Len(batch)
    <3>1. \/ thread' = "sync"
          \/ thread' = "ack" /\ SyncPolicy # "Always"
      BY <1>0, <1>3, <2>1, <2>8 DEF WriteRecord, AfterWriteAll
    <3>2. SyncPolicy # "Always" => Stable' = Len(file')
      BY DEF Stable
    <3> QED
      BY <2>1, <2>5, <2>6, <2>8, <3>1, <3>2 DEF AckChain
  <2> QED
    BY <1>0, <2>1, <2>7, <2>8
<1>4. CASE SyncData
  <2>1. /\ thread = "sync" /\ thread' = "ack"
        /\ UNCHANGED <<file, batch, call>>
        /\ Stable' = Len(file)
    BY <1>4 DEF SyncData, caller, Stable
  <2>2. AckedSurvives'
    BY <1>0, <2>1, AckedKept DEF AckChain
  <2> QED
    BY <2>1, <2>2 DEF AckChain
<1>5. CASE SyncFail
  BY <1>5 DEF SyncFail, disk, caller, AckChain, AckedSurvives, Stable
<1>6. CASE Ack
  <2>1. /\ Head(batch) = batch[1] /\ Len(batch) >= 1
        /\ Len(Tail(batch)) = Len(batch) - 1
        /\ \A k \in 1..Len(batch) - 1 : Tail(batch)[k] = batch[k + 1]
    BY <1>6, TailKeeps DEF Ack, TypeOK, BatchOK
  <2>2. UNCHANGED <<file, synced, outcome>> /\ Stable' = Stable
    BY <1>6 DEF Ack, disk, Stable
  <2>3. AckedSurvives'
    <3> SUFFICES ASSUME NEW r \in Records, call'[r] = "ok"
                 PROVE  Readable(file, r, Stable)
      BY <2>2 DEF AckedSurvives
    <3>1. CASE call[r] = "ok"
      BY <3>1 DEF AckChain, AckedSurvives
    <3>2. CASE call[r] # "ok"
      <4>1. r = Head(batch) /\ outcome = "ok"
        BY <1>6, <3>2 DEF Ack, TypeOK
      <4> QED
        BY <1>0, <1>6, <2>1, <4>1 DEF Ack, AckChain
    <3> QED
      BY <3>1, <3>2
  <2>4. thread' \in {"recv", "ack"} /\ thread = "ack" /\ batch' = Tail(batch)
    BY <1>6 DEF Ack
  <2>5. outcome = "ok" =>
          \A k \in 1..Len(Tail(batch)) : Readable(file, Tail(batch)[k], Stable)
    <3>1. outcome = "ok" => \A k \in 1..Len(batch) : Readable(file, batch[k], Stable)
      BY <2>4, Zenon DEF AckChain
    <3> QED
      BY <1>0, <2>1, <3>1
  <2> QED
    BY <2>2, <2>3, <2>4, <2>5 DEF AckChain
<1>7. CASE Exit
  BY <1>7 DEF Exit, caller, disk, AckChain, AckedSurvives, Stable
<1>8. ASSUME LoseMemory PROVE /\ thread' = "exited"
                             /\ \A r \in Records : call'[r] = "ok" => call[r] = "ok"
  BY <1>8 DEF LoseMemory
<1>9. CASE Crash
  <2>1. /\ synced' = synced /\ Len(file) <= Len(file')
        /\ \A i \in 1..Len(file) : file'[i] = file[i]
    <3>1. file' \in {file, Append(file, Fragment)} /\ synced' = synced
      BY <1>9 DEF Crash
    <3> QED
      BY <3>1, TornKeeps, Zenon DEF TypeOK
  <2>2. Stable <= Stable' /\ \A i \in 1..Stable : file'[i] = file[i]
    BY <1>0, <2>1 DEF Stable
  <2> QED
    BY <1>8, <1>9, <2>2, AckedKept DEF Crash, AckChain
<1>10. CASE PowerFail
  <2>1. PICK n \in synced..Len(file) :
          /\ \/ file' = SubSeq(file, 1, n)
             \/ file' = Append(SubSeq(file, 1, n), Fragment)
          /\ synced' = Len(file')
    BY <1>10 DEF PowerFail
  <2>2. /\ SubSeq(file, 1, n) \in Seq(Records \cup {Fragment})
        /\ Len(SubSeq(file, 1, n)) = n
        /\ \A i \in 1..n : SubSeq(file, 1, n)[i] = file[i]
    <3>1. n \in 0..Len(file)
      BY <1>0 DEF TypeOK
    <3> QED
      BY <3>1, PrefixKeeps, Zenon DEF TypeOK
  <2>3. n <= Len(file') /\ \A i \in 1..n : file'[i] = file[i]
    <3> DEFINE pre == SubSeq(file, 1, n)
    <3>1. file' \in {pre, Append(pre, Fragment)}
      BY <2>1
    <3>2. n = Len(pre) /\ pre \in Seq(Records \cup {Fragment})
          /\ \A i \in 1..n : pre[i] = file[i]
      BY <2>2
    <3> HIDE DEF pre
    <3>3. Len(pre) <= Len(file') /\ \A i \in 1..Len(pre) : file'[i] = pre[i]
      BY <3>1, <3>2, TornKeeps
    <3> QED
      BY <3>2, <3>3
  <2>4. Stable = synced /\ Stable' = synced' /\ synced \in Nat
    BY <1>0, <1>10 DEF PowerFail, Stable, TypeOK
  <2>5. Stable <= Stable' /\ \A i \in 1..Stable : file'[i] = file[i]
    BY <1>0, <2>1, <2>3, <2>4
  <2> QED
    BY <1>8, <1>10, <2>5, AckedKept DEF PowerFail, AckChain
<1>11. CASE Open
  <2>1. PICK n \in 0..Len(file) :
          /\ Replays(n)
          /\ file' = SubSeq(file, 1, n)
          /\ synced' = IF synced > n THEN n ELSE synced
          /\ thread' = "recv"
    BY <1>11 DEF Open, TailInv, AlwaysReopens
  <2>2. /\ Len(file') = n
        /\ \A i \in 1..n : file'[i] = file[i]
    BY <1>0, <2>1, PrefixKeeps DEF TypeOK
  <2>3. AckedSurvives'
    <3> SUFFICES ASSUME NEW r \in Records, call[r] = "ok"
                 PROVE  Readable(file', r, Stable')
      BY <1>11 DEF AckedSurvives, Open
    <3>1. PICK i \in 1..Stable : file[i] = r /\ \A j \in 1..i : file[j] # Fragment
      BY DEF AckChain, AckedSurvives, Readable
    <3>2. i <= n
      BY <1>0, <2>1, <3>1 DEF Replays
    <3>3. i \in 1..Stable'
      BY <1>0, <2>1, <2>2, <3>1, <3>2 DEF Stable, TypeOK
    <3> QED
      BY <1>0, <2>2, <3>1, <3>2, <3>3 DEF Readable
  <2> QED
    BY <2>1, <2>3 DEF AckChain
<1>12. ASSUME NEW r \in Records, Caller(r) PROVE AckChain'
  BY <1>1, <1>12, Zenon DEF Caller, Submit, Send, Abort, writer, disk, env, TypeOK
<1>13. CASE BeginAbort \/ Drop \/ UNCHANGED vars
  BY <1>1, <1>13 DEF BeginAbort, Drop, vars, writer, disk, env
<1> QED
  BY <1>2, <1>3, <1>4, <1>5, <1>6, <1>7, <1>9, <1>10, <1>11, <1>12, <1>13
     DEF Next, Thread, WriteFail

(* Durability: as long as no write_all fails, a record whose append        *)
(* returned Ok is read back by every later replay.  With SyncPolicy Always *)
(* that holds whatever mixture of process crashes, power failures, failing *)
(* syncs and restarts comes between; with Never, as long as only processes *)
(* crash.                                                                  *)
THEOREM AckedDurable ==
    ASSUME ~ WriteFaults, SyncPolicy = "Always" \/ ~ PowerLoss
    PROVE  Spec => []AckedSurvives
<1> DEFINE Inv == TypeOK /\ BatchOK /\ TailInv /\ AckChain
<1>1. Init => Inv
  <2>1. Len(<<>>) = 0
    OBVIOUS
  <2> QED
    BY <2>1, TypeInitial
       DEF Init, TailInv, TornTailOnly, AlwaysReopens, AckChain, AckedSurvives
<1>2. Inv /\ [Next]_vars => Inv'
  BY TypeInductive, TailInductive, AckInductive
<1>3. Inv => AckedSurvives
  BY DEF AckChain
<1> QED
  BY <1>1, <1>2, <1>3, PTL DEF Spec

-----------------------------------------------------------------------------
(* Is r an element of the sequence s? *)
Occurs(r, s) == \E i \in 1..Len(s) : s[i] = r

(* Appending adds one element and removes none. *)
LEMMA OccursAppend ==
    ASSUME NEW S, NEW s \in Seq(S), NEW e \in S
    PROVE  \A r : Occurs(r, Append(s, e)) <=> Occurs(r, s) \/ r = e
<1>1. Len(s) \in Nat
  BY LenProperties
<1> QED
  BY <1>1, AppendKeeps DEF Occurs

(* Taking the head off removes that one occurrence. *)
LEMMA OccursTail ==
    ASSUME NEW S, NEW s \in Seq(S), s # <<>>
    PROVE  \A r : Occurs(r, s) <=> r = Head(s) \/ Occurs(r, Tail(s))
<1> DEFINE t == Tail(s)
<1>1. /\ Head(s) = s[1]
      /\ Len(t) = Len(s) - 1 /\ Len(s) \in Nat \ {0}
      /\ \A i \in 1..Len(t) : t[i] = s[i + 1]
  BY TailKeeps
<1> HIDE DEF t
<1> SUFFICES ASSUME NEW r PROVE Occurs(r, s) <=> r = Head(s) \/ Occurs(r, t)
  BY DEF t
<1>2. ASSUME NEW i \in 1..Len(s), s[i] = r PROVE r = Head(s) \/ Occurs(r, t)
  <2>1. CASE i = 1
    BY <1>1, <1>2, <2>1
  <2>2. CASE i # 1
    <3>1. i - 1 \in 1..Len(t) /\ t[i - 1] = s[(i - 1) + 1] /\ (i - 1) + 1 = i
      BY <1>1, <2>2
    <3> QED
      BY <1>2, <3>1 DEF Occurs
  <2> QED
    BY <2>1, <2>2
<1>3. ASSUME NEW i \in 1..Len(t), t[i] = r PROVE Occurs(r, s)
  <2>1. i + 1 \in 1..Len(s) /\ s[i + 1] = r
    BY <1>1, <1>3
  <2> QED
    BY <2>1 DEF Occurs
<1>4. r = Head(s) => Occurs(r, s)
  <2>1. 1 \in 1..Len(s)
    BY <1>1
  <2> QED
    BY <1>1, <2>1 DEF Occurs
<1> QED
  BY <1>2, <1>3, <1>4 DEF Occurs

(* A request the channel has accepted is in the channel, in the batch, or  *)
(* readable in the file once its caller no longer waits for the answer.    *)
Accounted ==
    \A r \in Records : call[r] \in {"waiting", "orphan"} =>
        \/ Occurs(r, queue)
        \/ Occurs(r, batch)
        \/ call[r] = "orphan" /\ Readable(file, r, Len(file))

(* What write_all has got into the file of the batch under way. *)
BatchFiled ==
    /\ thread = "write" =>
         \A k \in 1..written : Readable(file, batch[k], Len(file))
    /\ thread \in {"sync", "ack"} =>
         \A k \in 1..Len(batch) : Readable(file, batch[k], Len(file))

(* The thread is between batches, or gone with the sender and the callers. *)
Settled ==
    /\ thread \in {"recv", "exited"} => batch = <<>>
    /\ thread = "exited" => queue = <<>> /\ sender = "closed"
    /\ sender = "closed" => Pending = {}

DrainInv == Accounted /\ BatchFiled /\ Settled

(* The actions preserve it, as long as no write_all fails. *)
LEMMA DrainInductive ==
    ASSUME ~ WriteFaults, TypeOK, BatchOK, TailInv, DrainInv, [Next]_vars, TypeOK', TailInv'
    PROVE  DrainInv'
<1>0. /\ Len(file) \in Nat /\ Len(file') \in Nat /\ Len(batch) \in Nat
      /\ queue \in Seq(Records) /\ batch \in Seq(Records)
      /\ call \in [Records -> CallState]
  BY LenProperties, Zenon DEF TypeOK
<1>k. ASSUME Len(file) <= Len(file'), \A i \in 1..Len(file) : file'[i] = file[i],
             NEW r, Readable(file, r, Len(file))
      PROVE  Readable(file', r, Len(file'))
  BY <1>0, <1>k, ReadableKept, Zenon
<1>1. ASSUME NEW r \in Records, Submit(r) PROVE DrainInv'
  <2>1. Accounted'
    BY <1>0, <1>1 DEF Submit, DrainInv, Accounted, writer, disk
  <2>2. BatchFiled' /\ Settled'
    BY <1>1 DEF Submit, DrainInv, BatchFiled, Settled, writer, disk
  <2> QED
    BY <2>1, <2>2 DEF DrainInv
<1>2. ASSUME NEW r \in Records, Send(r) PROVE DrainInv'
  <2>1. \A q : Occurs(q, queue') <=> Occurs(q, queue) \/ q = r
    BY <1>0, <1>2, OccursAppend DEF Send
  <2>2. Accounted'
    BY <1>0, <1>2, <2>1 DEF Send, DrainInv, Accounted, writer, disk
  <2>3. sender # "closed" /\ thread # "exited"
    BY <1>2 DEF Send, DrainInv, Settled, Pending
  <2>4. BatchFiled' /\ Settled'
    BY <1>2, <2>3 DEF Send, DrainInv, BatchFiled, Settled, writer, disk
  <2> QED
    BY <2>2, <2>4 DEF DrainInv
<1>3. ASSUME NEW r \in Records, Abort(r) PROVE DrainInv'
  <2>1. Accounted'
    BY <1>0, <1>3 DEF Abort, DrainInv, Accounted, Pending, writer, disk
  <2>2. BatchFiled' /\ Settled'
    BY <1>3 DEF Abort, DrainInv, BatchFiled, Settled, writer, disk
  <2> QED
    BY <2>1, <2>2 DEF DrainInv
<1>4. CASE BlockingRecv
  <2>1. \A q : Occurs(q, queue) <=> q = Head(queue) \/ Occurs(q, Tail(queue))
    BY <1>0, <1>4, OccursTail DEF BlockingRecv
  <2>2. batch = <<>> /\ Occurs(Head(queue), <<Head(queue)>>) /\ \A q : ~ Occurs(q, <<>>)
    BY <1>4 DEF BlockingRecv, DrainInv, Settled, Occurs
  <2>3. Accounted'
    BY <1>4, <2>1, <2>2 DEF BlockingRecv, DrainInv, Accounted, disk
  <2>4. BatchFiled' /\ Settled'
    BY <1>4 DEF BlockingRecv, DrainInv, BatchFiled, Settled, Pending
  <2> QED
    BY <2>3, <2>4 DEF DrainInv
<1>5. CASE TryRecv
  <2>1. CASE queue # <<>>
    <3>1. \A q : Occurs(q, queue) <=> q = Head(queue) \/ Occurs(q, Tail(queue))
      BY <1>0, <2>1, OccursTail
    <3>2. \A q : Occurs(q, Append(batch, Head(queue))) <=> Occurs(q, batch) \/ q = Head(queue)
      BY <1>0, <2>1, OccursAppend, TailKeeps
    <3>3. Accounted'
      BY <1>5, <2>1, <3>1, <3>2, Zenon DEF TryRecv, DrainInv, Accounted, disk
    <3>4. BatchFiled' /\ Settled'
      BY <1>5, <2>1 DEF TryRecv, DrainInv, BatchFiled, Settled, Pending
    <3> QED
      BY <3>3, <3>4 DEF DrainInv
  <2>2. CASE queue = <<>>
    <3>1. thread' = "write" /\ written' = 0 /\ UNCHANGED <<call, queue, batch, sender, file>>
      BY <1>5, <2>2 DEF TryRecv, BatchOK, disk
    <3>2. Accounted'
      BY <3>1 DEF DrainInv, Accounted
    <3>3. BatchFiled' /\ Settled'
      BY <3>1 DEF DrainInv, BatchFiled, Settled, Pending
    <3> QED
      BY <3>2, <3>3 DEF DrainInv
  <2> QED
    BY <2>1, <2>2
<1>6. CASE WriteRecord
  <2>1. /\ thread = "write" /\ written \in Nat /\ written < Len(batch)
        /\ UNCHANGED <<call, queue, sender, batch>> /\ written' = written + 1
    BY <1>6 DEF WriteRecord, TypeOK, BatchOK, caller
  <2>2. batch[written + 1] \in Records
    BY <1>0, <2>1, ElementOfSeq
  <2>3. /\ Len(file') = Len(file) + 1
        /\ \A i \in 1..Len(file) : file'[i] = file[i]
        /\ file'[Len(file) + 1] = batch[written + 1]
    BY <1>6, <2>2, AppendKeeps DEF WriteRecord, TypeOK
  <2>4. \A i \in 1..Len(file') : file'[i] # Fragment
    <3>1. process' = "up"
      BY <1>6 DEF WriteRecord, TailInv, env
    <3> QED
      BY <3>1 DEF TailInv, TornTailOnly
  <2>5. \A q : Readable(file, q, Len(file)) => Readable(file', q, Len(file'))
    BY <1>0, <1>k, <2>3
  <2>6. \A k \in 1..written' : Readable(file', batch[k], Len(file'))
    <3>1. Readable(file', batch[written + 1], Len(file'))
      BY <1>0, <2>3, <2>4 DEF Readable
    <3>2. \A k \in 1..written : Readable(file', batch[k], Len(file'))
      BY <2>1, <2>5 DEF DrainInv, BatchFiled
    <3> QED
      BY <2>1, <3>1, <3>2
  <2>7. Accounted'
    BY <2>1, <2>5 DEF DrainInv, Accounted
  <2>8. \/ written' < Len(batch) /\ thread' = "write"
        \/ written' = Len(batch) /\ thread' \in {"sync", "ack"}
    BY <1>0, <1>6, <2>1 DEF WriteRecord, AfterWriteAll
  <2>9. BatchFiled' /\ Settled'
    BY <2>1, <2>6, <2>8 DEF DrainInv, BatchFiled, Settled, Pending
  <2> QED
    BY <2>7, <2>9 DEF DrainInv
<1>7. CASE SyncData \/ SyncFail
  <2>1. /\ thread = "sync" /\ thread' = "ack"
        /\ UNCHANGED <<call, queue, sender, batch, file>>
    BY <1>7 DEF SyncData, SyncFail, caller, disk
  <2> QED
    BY <2>1 DEF DrainInv, Accounted, BatchFiled, Settled, Pending
<1>8. CASE Ack
  <2>1. /\ Head(batch) = batch[1] /\ Len(batch) >= 1
        /\ Len(Tail(batch)) = Len(batch) - 1
        /\ \A k \in 1..Len(batch) - 1 : Tail(batch)[k] = batch[k + 1]
        /\ Tail(batch) \in Seq(Records)
    BY <1>8, TailKeeps DEF Ack, TypeOK, BatchOK
  <2>2. /\ thread = "ack" /\ thread' = (IF Len(batch) = 1 THEN "recv" ELSE "ack")
        /\ batch' = Tail(batch) /\ UNCHANGED <<queue, sender, file>>
        /\ call' = [call EXCEPT ![Head(batch)] = IF @ = "waiting" THEN outcome ELSE @]
        /\ outcome \in {"ok", "err"}
    BY <1>8 DEF Ack, disk, TypeOK
  <2>3. \A k \in 1..Len(batch) : Readable(file, batch[k], Len(file))
    BY <2>2 DEF DrainInv, BatchFiled
  <2>4. \A q : Occurs(q, batch) <=> q = Head(batch) \/ Occurs(q, Tail(batch))
    BY <1>0, <1>8, OccursTail DEF Ack, BatchOK
  <2>5. Accounted'
    <3> SUFFICES ASSUME NEW q \in Records, call'[q] \in {"waiting", "orphan"}
                 PROVE  \/ Occurs(q, queue)
                        \/ Occurs(q, Tail(batch))
                        \/ call'[q] = "orphan" /\ Readable(file, q, Len(file))
      BY <2>2 DEF Accounted
    <3>1. CASE q = Head(batch)
      BY <1>0, <2>1, <2>2, <2>3, <3>1
    <3>2. CASE q # Head(batch)
      BY <1>0, <2>2, <2>4, <3>2, SMTT(30) DEF DrainInv, Accounted
    <3> QED
      BY <3>1, <3>2
  <2>6. BatchFiled'
    <3>1. \A k \in 1..Len(Tail(batch)) : Readable(file, Tail(batch)[k], Len(file))
      BY <1>0, <2>1, <2>3
    <3> QED
      BY <2>2, <3>1, Zenon DEF BatchFiled
  <2>7. Len(batch) = 1 => Tail(batch) = <<>>
    <3> DEFINE rest == Tail(batch)
    <3>1. rest \in Seq(Records) /\ Len(rest) = Len(batch) - 1
      BY <2>1
    <3> HIDE DEF rest
    <3>2. Len(batch) = 1 => rest = <<>>
      BY <1>0, <3>1, EmptySeq
    <3> QED
      BY <3>2 DEF rest
  <2>8. Pending' \subseteq Pending
    BY <1>0, <2>2 DEF Pending
  <2>9. Settled'
    BY <2>2, <2>7, <2>8 DEF DrainInv, Settled
  <2> QED
    BY <2>5, <2>6, <2>9 DEF DrainInv
<1>9. CASE Exit
  BY <1>9 DEF Exit, caller, disk, DrainInv, Accounted, BatchFiled, Settled, Pending
<1>10. CASE BeginAbort
  BY <1>10 DEF BeginAbort, writer, disk, DrainInv, Accounted, BatchFiled, Settled, Pending
<1>11. CASE Drop
  BY <1>11, SMTT(30) DEF Drop, writer, disk, DrainInv, Accounted, BatchFiled, Settled, Pending
<1>12. CASE LoseMemory
  <2>1. \A r \in Records : call'[r] \notin {"sending", "waiting", "orphan"}
    BY <1>12 DEF LoseMemory
  <2> QED
    BY <1>12, <2>1, Zenon DEF LoseMemory, DrainInv, Accounted, BatchFiled, Settled, Pending
<1>13. CASE Open
  <2>1. PICK n \in 0..Len(file) : Replays(n) /\ file' = SubSeq(file, 1, n)
    BY <1>13 DEF Open, TailInv, AlwaysReopens
  <2>2. Len(file') = n /\ \A i \in 1..n : file'[i] = file[i]
    BY <1>0, <2>1, PrefixKeeps, Zenon DEF TypeOK
  <2>3. ASSUME NEW r, Readable(file, r, Len(file)) PROVE Readable(file', r, Len(file'))
    <3>1. PICK i \in 1..Len(file) : file[i] = r /\ \A j \in 1..i : file[j] # Fragment
      BY <2>3 DEF Readable
    <3>2. i <= n
      BY <1>0, <2>1, <3>1 DEF Replays
    <3>3. i \in 1..Len(file') /\ \A j \in 1..i : j \in 1..n
      BY <1>0, <2>2, <3>2
    <3> QED
      BY <2>2, <3>1, <3>3, Zenon DEF Readable
  <2>4. thread = "exited" /\ thread' = "recv" /\ sender' = "open"
        /\ UNCHANGED <<call, queue, batch>>
    BY <1>13 DEF Open, TailInv, AlwaysReopens
  <2> QED
    BY <2>3, <2>4 DEF DrainInv, Accounted, BatchFiled, Settled
<1>14. CASE UNCHANGED vars
  BY <1>14 DEF vars, DrainInv, Accounted, BatchFiled, Settled, Pending
<1> QED
  BY <1>1, <1>2, <1>3, <1>4, <1>5, <1>6, <1>7, <1>8, <1>9, <1>10, <1>11, <1>12, <1>13, <1>14
     DEF Next, Caller, Thread, WriteFail, Crash, PowerFail

(* Graceful shutdown: once run has returned, every request the channel had *)
(* accepted is readable in the file, whatever became of its caller.  A     *)
(* failing sync does not break this; a failing write_all would.            *)
THEOREM Drains ==
    ASSUME ~ WriteFaults
    PROVE  Spec => []GracefulDrain
<1> DEFINE Inv == TypeOK /\ BatchOK /\ TailInv /\ DrainInv
<1>1. Init => Inv
  <2>1. Len(<<>>) = 0
    OBVIOUS
  <2> QED
    BY <2>1, TypeInitial DEF Init, TailInv, TornTailOnly, AlwaysReopens, DrainInv, Accounted,
         BatchFiled, Settled
<1>2. Inv /\ [Next]_vars => Inv'
  BY TypeInductive, TailInductive, DrainInductive
<1>3. Inv => GracefulDrain
  <2>1. \A r : ~ Occurs(r, <<>>)
    BY DEF Occurs
  <2> QED
    BY <2>1 DEF GracefulDrain, DrainInv, Accounted, Settled
<1> QED
  BY <1>1, <1>2, <1>3, PTL DEF Spec

-----------------------------------------------------------------------------
(* No element of s occurs twice. *)
NoDup(s) == \A i, j \in 1..Len(s) : s[i] = s[j] => i = j

(* A new element makes no duplicate. *)
LEMMA NoDupAppend ==
    ASSUME NEW S, NEW s \in Seq(S), NEW e \in S, NoDup(s), ~ Occurs(e, s)
    PROVE  NoDup(Append(s, e))
<1> DEFINE t == Append(s, e)
<1>1. Len(s) \in Nat
  BY LenProperties
<1>2. /\ Len(t) = Len(s) + 1 /\ t[Len(s) + 1] = e
      /\ \A i \in 1..Len(s) : t[i] = s[i] /\ t[i] # e
  BY AppendKeeps DEF Occurs
<1> HIDE DEF t
<1> SUFFICES ASSUME NEW i \in 1..Len(t), NEW j \in 1..Len(t), t[i] = t[j] PROVE i = j
  BY DEF NoDup, t
<1>3. i = Len(s) + 1 <=> j = Len(s) + 1
  BY <1>1, <1>2
<1>4. CASE i # Len(s) + 1
  BY <1>1, <1>2, <1>3, <1>4 DEF NoDup
<1> QED
  BY <1>3, <1>4

(* The head of a sequence without duplicates is not in its tail. *)
LEMMA NoDupTail ==
    ASSUME NEW S, NEW s \in Seq(S), s # <<>>, NoDup(s)
    PROVE  NoDup(Tail(s)) /\ ~ Occurs(Head(s), Tail(s))
<1> DEFINE t == Tail(s)
<1>1. /\ Head(s) = s[1]
      /\ Len(t) = Len(s) - 1 /\ Len(s) \in Nat \ {0}
      /\ \A i \in 1..Len(t) : t[i] = s[i + 1]
  BY TailKeeps
<1> HIDE DEF t
<1>2. ASSUME NEW i \in 1..Len(t), NEW j \in 1..Len(t), t[i] = t[j] PROVE i = j
  <2>1. i + 1 \in 1..Len(s) /\ j + 1 \in 1..Len(s) /\ s[i + 1] = s[j + 1]
    BY <1>1, <1>2
  <2>2. i + 1 = j + 1
    BY <2>1 DEF NoDup
  <2> QED
    BY <2>2
<1>3. ASSUME NEW i \in 1..Len(t), t[i] = Head(s) PROVE FALSE
  <2>1. i + 1 \in 1..Len(s) /\ 1 \in 1..Len(s) /\ s[i + 1] = s[1]
    BY <1>1, <1>3
  <2>2. i + 1 = 1
    BY <2>1 DEF NoDup
  <2> QED
    BY <2>2
<1> QED
  BY <1>2, <1>3 DEF NoDup, Occurs, t

(* A prefix has no duplicates and no other elements. *)
LEMMA NoDupPrefix ==
    ASSUME NEW S, NEW s \in Seq(S), NEW n \in 0..Len(s), NoDup(s)
    PROVE  /\ NoDup(SubSeq(s, 1, n))
           /\ \A r : Occurs(r, SubSeq(s, 1, n)) => Occurs(r, s)
<1>1. Len(s) \in Nat
  BY LenProperties
<1> QED
  BY <1>1, PrefixKeeps DEF NoDup, Occurs

(* A record goes through the channel, the batch and the file once: where   *)
(* it has not been yet it is not, and it is in no two places it has yet to *)
(* leave.                                                                  *)
OnceInv ==
    /\ \A r \in Records : call[r] \in {"new", "sending"} =>
         ~ Occurs(r, queue) /\ ~ Occurs(r, batch) /\ ~ Occurs(r, file)
    /\ NoDup(queue) /\ NoDup(batch) /\ NoDup(file)
    /\ \A r : Occurs(r, queue) => ~ Occurs(r, batch) /\ ~ Occurs(r, file)
    /\ thread \in {"drain", "write"} =>
         \A k \in written + 1..Len(batch) : ~ Occurs(batch[k], file)

(* The actions preserve it, as long as no write_all fails. *)
LEMMA OnceInductive ==
    ASSUME ~ WriteFaults, TypeOK, BatchOK, TailInv, OnceInv, [Next]_vars, TypeOK', TailInv'
    PROVE  OnceInv'
<1>0. /\ Len(file) \in Nat /\ Len(file') \in Nat /\ Len(batch) \in Nat
      /\ queue \in Seq(Records) /\ batch \in Seq(Records)
      /\ file \in Seq(Records \cup {Fragment})
      /\ call \in [Records -> CallState]
      /\ Fragment \notin Records
  BY LenProperties, LogWriterAssumption DEF TypeOK
<1>e. NoDup(<<>>) /\ \A r : ~ Occurs(r, <<>>)
  BY DEF NoDup, Occurs
<1>1. ASSUME UNCHANGED <<queue, batch, file>>,
             \A r \in Records : call'[r] \in {"new", "sending"} => call[r] \in {"new", "sending"},
             thread' \in {"drain", "write"} => thread = thread' /\ written' = written
      PROVE  OnceInv'
  BY <1>1, Zenon DEF OnceInv
<1>2. ASSUME NEW r \in Records, Send(r) PROVE OnceInv'
  <2>1. ~ Occurs(r, queue) /\ ~ Occurs(r, batch) /\ ~ Occurs(r, file)
    BY <1>2, ZenonT(30) DEF Send, OnceInv
  <2>2. /\ \A q : Occurs(q, queue') <=> Occurs(q, queue) \/ q = r
        /\ NoDup(queue')
    BY <1>0, <1>2, <2>1, OccursAppend, NoDupAppend DEF Send, OnceInv
  <2> QED
    BY <1>0, <1>2, <2>1, <2>2, Zenon DEF Send, OnceInv, writer, disk
<1>3. CASE BlockingRecv
  <2>1. /\ \A q : Occurs(q, queue) <=> q = Head(queue) \/ Occurs(q, Tail(queue))
        /\ NoDup(Tail(queue)) /\ ~ Occurs(Head(queue), Tail(queue))
    BY <1>0, <1>3, OccursTail, NoDupTail DEF BlockingRecv, OnceInv
  <2>2. NoDup(<<Head(queue)>>) /\ \A q : Occurs(q, <<Head(queue)>>) <=> q = Head(queue)
    BY DEF NoDup, Occurs
  <2>3. UNCHANGED <<call, file>> /\ queue' = Tail(queue) /\ batch' = <<Head(queue)>>
        /\ written' = 0
    BY <1>3 DEF BlockingRecv, disk
  <2>4. \A k \in 1..Len(batch') : ~ Occurs(batch'[k], file)
    BY <2>1, <2>3, SMTT(30) DEF OnceInv
  <2>5. \A k \in written' + 1..Len(batch') : ~ Occurs(batch'[k], file)
    BY <2>3, <2>4
  <2>6. NoDup(batch') /\ \A q : Occurs(q, batch') <=> q = Head(queue)
    BY <2>2, <2>3, Zenon
  <2>7. UNCHANGED <<call, file>> /\ queue' = Tail(queue)
    BY <2>3, Zenon
  <2>8. \A r \in Records : call'[r] \in {"new", "sending"} =>
          ~ Occurs(r, queue') /\ ~ Occurs(r, batch') /\ ~ Occurs(r, file')
    BY <2>1, <2>6, <2>7 DEF OnceInv
  <2>9. \A r : Occurs(r, queue') => ~ Occurs(r, batch') /\ ~ Occurs(r, file')
    BY <2>1, <2>6, <2>7 DEF OnceInv
  <2> QED
    BY <2>1, <2>5, <2>6, <2>7, <2>8, <2>9, Zenon DEF OnceInv
<1>4. CASE TryRecv
  <2>1. CASE queue # <<>>
    <3>1. /\ \A q : Occurs(q, queue) <=> q = Head(queue) \/ Occurs(q, Tail(queue))
          /\ NoDup(Tail(queue)) /\ ~ Occurs(Head(queue), Tail(queue))
          /\ Head(queue) \in Records
      BY <1>0, <2>1, OccursTail, NoDupTail, TailKeeps DEF OnceInv
    <3>2. ~ Occurs(Head(queue), batch) /\ ~ Occurs(Head(queue), file)
      BY <3>1 DEF OnceInv
    <3>3. /\ \A q : Occurs(q, Append(batch, Head(queue))) <=> Occurs(q, batch) \/ q = Head(queue)
          /\ NoDup(Append(batch, Head(queue)))
      BY <1>0, <3>1, <3>2, OccursAppend, NoDupAppend DEF OnceInv
    <3>4. /\ UNCHANGED <<call, file, written>> /\ queue' = Tail(queue) /\ written = 0
          /\ thread = "drain" /\ batch' = Append(batch, Head(queue))
      BY <1>4, <2>1 DEF TryRecv, disk, BatchOK
    <3>5. \A k \in written' + 1..Len(batch') : ~ Occurs(batch'[k], file)
      <4>1. /\ Len(batch') = Len(batch) + 1 /\ batch'[Len(batch) + 1] = Head(queue)
            /\ \A k \in 1..Len(batch) : batch'[k] = batch[k]
        BY <1>0, <3>1, <3>4, AppendKeeps
      <4>2. \A k \in 1..Len(batch) : ~ Occurs(batch[k], file)
        BY <3>4 DEF OnceInv
      <4>3. \A k \in written' + 1..Len(batch') : k \in 1..Len(batch) \/ k = Len(batch) + 1
        BY <1>0, <3>4, <4>1
      <4> QED
        BY <3>2, <4>1, <4>2, <4>3, Zenon
    <3> QED
      BY <3>1, <3>2, <3>3, <3>4, <3>5, Zenon DEF OnceInv
  <2>2. CASE queue = <<>>
    <3>1. UNCHANGED <<call, queue, batch, file, written>> /\ thread = "drain"
      BY <1>4, <2>2 DEF TryRecv, disk
    <3> QED
      BY <3>1, Zenon DEF OnceInv
  <2> QED
    BY <2>1, <2>2
<1>5. CASE WriteRecord
  <2> DEFINE e == batch[written + 1]
  <2>1. /\ thread = "write" /\ written \in Nat /\ written < Len(batch)
        /\ UNCHANGED <<call, queue, batch>> /\ written' = written + 1
        /\ file' = Append(file, e)
    BY <1>5 DEF WriteRecord, TypeOK, BatchOK, caller
  <2>2. e \in Records /\ Occurs(e, batch)
    BY <1>0, <2>1, ElementOfSeq DEF Occurs
  <2>3. ~ Occurs(e, file)
    <3>1. written + 1 \in written + 1..Len(batch)
      BY <1>0, <2>1
    <3> QED
      BY <2>1, <3>1, Zenon DEF OnceInv
  <2>4. \A k \in written' + 1..Len(batch) : batch[k] # e
    BY <1>0, <2>1 DEF OnceInv, NoDup
  <2> HIDE DEF e
  <2>5. NoDup(file') /\ \A q : Occurs(q, file') <=> Occurs(q, file) \/ q = e
    <3>1. e \in Records \cup {Fragment}
      BY <2>2
    <3> QED
      BY <1>0, <2>1, <2>3, <3>1, OccursAppend, NoDupAppend DEF OnceInv
  <2>6. \A k \in written' + 1..Len(batch) : ~ Occurs(batch[k], file')
    <3>1. \A k \in written' + 1..Len(batch) : k \in written + 1..Len(batch)
      BY <1>0, <2>1, SMTT(30)
    <3> QED
      BY <2>1, <2>4, <2>5, <3>1 DEF OnceInv
  <2> QED
    BY <2>1, <2>2, <2>5, <2>6, Zenon DEF OnceInv
<1>6. CASE Ack
  <2>1. /\ \A q : Occurs(q, batch) <=> q = Head(batch) \/ Occurs(q, Tail(batch))
        /\ NoDup(Tail(batch)) /\ Head(batch) \in Records
    BY <1>0, <1>6, OccursTail, NoDupTail, TailKeeps DEF Ack, BatchOK, OnceInv
  <2>2. UNCHANGED <<queue, file>> /\ batch' = Tail(batch) /\ thread' \in {"recv", "ack"}
    BY <1>6 DEF Ack, disk
  <2>3. \A r \in Records : call'[r] \in {"new", "sending"} => call[r] \in {"new", "sending"}
    BY <1>0, <1>6, <2>1, Zenon DEF Ack, TypeOK
  <2> QED
    BY <2>1, <2>2, <2>3, Zenon DEF OnceInv
<1>7. ASSUME LoseMemory, NoDup(file'), \A r \in Records : Occurs(r, file') => Occurs(r, file)
      PROVE  OnceInv'
  <2>1. \A r \in Records : call'[r] \in {"new", "sending"} => call[r] \in {"new", "sending"}
    BY <1>7 DEF LoseMemory
  <2> QED
    BY <1>7, <1>e, <2>1, Zenon DEF LoseMemory, OnceInv
<1>8. ASSUME NEW pre \in Seq(Records \cup {Fragment}), NoDup(pre),
             file' \in {pre, Append(pre, Fragment)},
             \A r \in Records : Occurs(r, pre) => Occurs(r, file)
      PROVE  NoDup(file') /\ \A r \in Records : Occurs(r, file') => Occurs(r, file)
  <2>1. CASE file' = pre
    BY <1>8, <2>1
  <2>2. CASE file' = Append(pre, Fragment)
    <3>1. \A q : Occurs(q, file') <=> Occurs(q, pre) \/ q = Fragment
      BY <2>2, OccursAppend
    <3>2. ~ Occurs(Fragment, pre)
      <4>1. Len(pre) \in Nat
        BY LenProperties
      <4>2. Len(file') = Len(pre) + 1 /\ \A i \in 1..Len(pre) : file'[i] = pre[i]
        BY <2>2, AppendKeeps, SMTT(30)
      <4> QED
        BY <4>1, <4>2 DEF TailInv, TornTailOnly, Occurs
    <3> QED
      BY <1>0, <1>8, <2>2, <3>1, <3>2, NoDupAppend
  <2> QED
    BY <1>8, <2>1, <2>2
<1>9. CASE Crash
  <2>1. file' \in {file, Append(file, Fragment)} /\ LoseMemory
    BY <1>9 DEF Crash
  <2> QED
    BY <1>0, <1>7, <1>8, <2>1, Zenon DEF OnceInv
<1>10. CASE PowerFail
  <2>1. PICK n \in synced..Len(file) :
          file' \in {SubSeq(file, 1, n), Append(SubSeq(file, 1, n), Fragment)}
    BY <1>10 DEF PowerFail
  <2> DEFINE pre == SubSeq(file, 1, n)
  <2>2. n \in 0..Len(file)
    BY <1>0 DEF TypeOK
  <2>3. /\ pre \in Seq(Records \cup {Fragment}) /\ NoDup(pre)
        /\ \A r : Occurs(r, pre) => Occurs(r, file)
    BY <1>0, <2>2, PrefixKeeps, NoDupPrefix, Zenon DEF OnceInv
  <2>4. file' \in {pre, Append(pre, Fragment)} /\ LoseMemory
    BY <1>10, <2>1, SMTT(30) DEF PowerFail
  <2> HIDE DEF pre
  <2> QED
    BY <1>7, <1>8, <2>3, <2>4
<1>11. CASE Open
  <2>1. PICK n \in 0..Len(file) : file' = SubSeq(file, 1, n)
    BY <1>11 DEF Open, TailInv, AlwaysReopens
  <2>2. NoDup(file') /\ \A r : Occurs(r, file') => Occurs(r, file)
    BY <1>0, <2>1, NoDupPrefix DEF OnceInv
  <2>3. UNCHANGED <<call, queue, batch>> /\ thread' = "recv"
    BY <1>11 DEF Open, TailInv, AlwaysReopens
  <2> QED
    BY <2>2, <2>3, Zenon DEF OnceInv
<1>12. ASSUME NEW r \in Records, Submit(r) \/ Abort(r) PROVE OnceInv'
  BY <1>0, <1>1, <1>12 DEF Submit, Abort, Pending, writer, disk
<1>13. CASE SyncData \/ SyncFail \/ Exit \/ BeginAbort \/ Drop \/ UNCHANGED vars
  BY <1>1, <1>13, Zenon DEF SyncData, SyncFail, Exit, BeginAbort, Drop, vars, caller, writer, disk
<1> QED
  BY <1>2, <1>3, <1>4, <1>5, <1>6, <1>9, <1>10, <1>11, <1>12, <1>13
     DEF Next, Caller, Thread, WriteFail

-----------------------------------------------------------------------------
(* What a replay of the file f reads: the records before its first         *)
(* fragment.                                                               *)
StopsAt(f, n) ==
    /\ \A i \in 1..n : f[i] # Fragment
    /\ n < Len(f) => f[n + 1] = Fragment
Read(f) == SubSeq(f, 1, CHOOSE n \in 0..Len(f) : StopsAt(f, n))

Log == SubSeq(file, 1, CHOOSE n \in 0..Len(file) : Replays(n))
Confirmed == {r \in Records : call[r] = "ok"}

LEMMA LogIsRead == Log = Read(file) /\ Log' = Read(file')
  BY DEF Log, Read, Replays, StopsAt

(* There is one place where the replay stops. *)
LEMMA ReadUnique ==
    ASSUME NEW f \in Seq(Records \cup {Fragment}), NEW n \in 0..Len(f), StopsAt(f, n)
    PROVE  Read(f) = SubSeq(f, 1, n)
<1>1. Len(f) \in Nat
  BY LenProperties
<1>2. \A m \in 0..Len(f) : StopsAt(f, m) => m = n
  BY <1>1 DEF StopsAt
<1>3. (CHOOSE m \in 0..Len(f) : StopsAt(f, m)) = n
  BY <1>2
<1> QED
  BY <1>3, Zenon DEF Read

(* While no fragment is in the file, a replay reads all of it. *)
LEMMA ReadAll ==
    ASSUME NEW f \in Seq(Records \cup {Fragment}), \A i \in 1..Len(f) : f[i] # Fragment
    PROVE  Read(f) = f
<1>1. Len(f) \in Nat
  BY LenProperties
<1>2. StopsAt(f, Len(f))
  BY <1>1 DEF StopsAt
<1>3. Read(f) = SubSeq(f, 1, Len(f))
  BY <1>1, <1>2, ReadUnique
<1>4. /\ SubSeq(f, 1, Len(f)) \in Seq(Records \cup {Fragment})
      /\ Len(SubSeq(f, 1, Len(f))) = Len(f)
      /\ \A i \in 1..Len(f) : SubSeq(f, 1, Len(f))[i] = f[i]
  BY <1>1, PrefixKeeps
<1> QED
  BY <1>3, <1>4, SeqEqual

(* With a fragment after them, the records of a file are all read. *)
LEMMA ReadTorn ==
    ASSUME NEW f \in Seq(Records \cup {Fragment}), \A i \in 1..Len(f) : f[i] # Fragment
    PROVE  Read(Append(f, Fragment)) = f
<1> DEFINE g == Append(f, Fragment)
<1>1. /\ Len(f) \in Nat /\ g \in Seq(Records \cup {Fragment})
      /\ Len(g) = Len(f) + 1 /\ g[Len(f) + 1] = Fragment
      /\ \A i \in 1..Len(f) : g[i] = f[i]
  BY AppendKeeps, AppendProperties, LenProperties
<1> HIDE DEF g
<1>2. StopsAt(g, Len(f)) /\ Len(f) \in 0..Len(g)
  BY <1>1 DEF StopsAt
<1>3. Read(g) = SubSeq(g, 1, Len(f))
  BY <1>1, <1>2, ReadUnique
<1>4. /\ SubSeq(g, 1, Len(f)) \in Seq(Records \cup {Fragment})
      /\ Len(SubSeq(g, 1, Len(f))) = Len(f)
      /\ \A i \in 1..Len(f) : SubSeq(g, 1, Len(f))[i] = f[i]
  BY <1>1, <1>2, PrefixKeeps
<1>5. SubSeq(g, 1, Len(f)) = f
  BY <1>1, <1>4, SeqEqual
<1> QED
  BY <1>3, <1>5 DEF g

(* A replay ends before the fragment or at the end of the file. *)
LEMMA ReadEnds ==
    ASSUME TypeOK, TailInv
    PROVE  \E n \in 0..Len(file) : StopsAt(file, n)
<1>1. Len(file) \in Nat
  BY LenProperties DEF TypeOK
<1>2. CASE \A i \in 1..Len(file) : file[i] # Fragment
  <2>1. StopsAt(file, Len(file))
    BY <1>1, <1>2 DEF StopsAt
  <2> QED
    BY <1>1, <2>1
<1>3. CASE \E i \in 1..Len(file) : file[i] = Fragment
  <2>1. /\ Len(file) - 1 \in 0..Len(file) /\ file[Len(file)] = Fragment
        /\ \A i \in 1..Len(file) - 1 : file[i] # Fragment
    BY <1>1, <1>3 DEF TailInv, TornTailOnly
  <2>2. StopsAt(file, Len(file) - 1)
    BY <1>1, <2>1 DEF StopsAt
  <2> QED
    BY <2>1, <2>2
<1> QED
  BY <1>2, <1>3

(* Prefixes of prefixes are prefixes. *)
LEMMA PrefixOfPrefix ==
    ASSUME NEW S, NEW s \in Seq(S), NEW n \in 0..Len(s), NEW m \in 0..n
    PROVE  SubSeq(SubSeq(s, 1, n), 1, m) = SubSeq(s, 1, m)
<1> DEFINE a == SubSeq(s, 1, n)
           b == SubSeq(a, 1, m)
           c == SubSeq(s, 1, m)
<1>1. Len(s) \in Nat /\ m \in 0..Len(s)
  BY LenProperties
<1>2. a \in Seq(S) /\ Len(a) = n /\ \A i \in 1..n : a[i] = s[i]
  BY PrefixKeeps
<1>3. c \in Seq(S) /\ Len(c) = m /\ \A i \in 1..m : c[i] = s[i]
  BY <1>1, PrefixKeeps
<1> HIDE DEF a
<1>4. b \in Seq(S) /\ Len(b) = m /\ \A i \in 1..m : b[i] = a[i]
  BY <1>2, PrefixKeeps
<1> HIDE DEF b, c
<1>5. b = c
  BY <1>1, <1>2, <1>3, <1>4, SeqEqual
<1> QED
  BY <1>5 DEF a, b, c

(* Of a file cut anywhere, with or without part of a record at the cut, a  *)
(* replay reads a prefix of what it read before.                           *)
LEMMA ReadCut ==
    ASSUME NEW f \in Seq(Records \cup {Fragment}), NEW N \in 0..Len(f), StopsAt(f, N),
           NEW n \in 0..Len(f),
           NEW g \in {SubSeq(f, 1, n), Append(SubSeq(f, 1, n), Fragment)}
    PROVE  Read(g) = SubSeq(Read(f), 1, IF n <= N THEN n ELSE N)
<1> DEFINE pre == SubSeq(f, 1, n)
<1>1. Len(f) \in Nat /\ Read(f) = SubSeq(f, 1, N)
  BY LenProperties, ReadUnique
<1>2. pre \in Seq(Records \cup {Fragment}) /\ Len(pre) = n /\ \A i \in 1..n : pre[i] = f[i]
  BY PrefixKeeps
<1>3. CASE n <= N
  <2>1. SubSeq(Read(f), 1, n) = pre
    BY <1>1, <1>3, PrefixOfPrefix
  <2> HIDE DEF pre
  <2>2. \A i \in 1..Len(pre) : pre[i] # Fragment
    BY <1>1, <1>2, <1>3 DEF StopsAt
  <2>3. Read(pre) = pre /\ Read(Append(pre, Fragment)) = pre
    BY <1>2, <2>2, ReadAll, ReadTorn
  <2> QED
    BY <1>3, <2>1, <2>3, Zenon DEF pre
<1>4. CASE n > N
  <2>1. SubSeq(pre, 1, N) = SubSeq(f, 1, N) /\ SubSeq(Read(f), 1, N) = SubSeq(f, 1, N)
    BY <1>1, <1>4, PrefixOfPrefix
  <2> HIDE DEF pre
  <2>2. StopsAt(pre, N) /\ N \in 0..Len(pre)
    BY <1>1, <1>2, <1>4 DEF StopsAt
  <2>3. Read(pre) = SubSeq(pre, 1, N)
    BY <1>2, <2>2, ReadUnique, Zenon
  <2> DEFINE torn == Append(pre, Fragment)
  <2>4. /\ torn \in Seq(Records \cup {Fragment}) /\ Len(torn) = n + 1
        /\ \A i \in 1..n : torn[i] = pre[i]
    BY <1>2, AppendKeeps
  <2>5. SubSeq(torn, 1, N) = SubSeq(pre, 1, N)
    <3>1. N \in 0..Len(torn)
      BY <1>4, <2>4
    <3> DEFINE a == SubSeq(torn, 1, N)
               b == SubSeq(pre, 1, N)
    <3>2. a \in Seq(Records \cup {Fragment}) /\ Len(a) = N /\ \A i \in 1..N : a[i] = torn[i]
      BY <2>4, <3>1, PrefixKeeps
    <3>3. b \in Seq(Records \cup {Fragment}) /\ Len(b) = N /\ \A i \in 1..N : b[i] = pre[i]
      BY <1>2, <2>2, PrefixKeeps
    <3> HIDE DEF a, b, torn
    <3>4. \A i \in 1..N : a[i] = b[i]
      <4>1. \A i \in 1..N : i \in 1..n
        BY <1>4
      <4> QED
        BY <2>4, <3>2, <3>3, <4>1, Zenon
    <3>5. a = b
      BY <3>2, <3>3, <3>4, SeqEqual
    <3> QED
      BY <3>5 DEF a, b
  <2> HIDE DEF torn
  <2>6. StopsAt(torn, N) /\ N \in 0..Len(torn)
    BY <1>2, <1>4, <2>2, <2>4 DEF StopsAt
  <2>7. Read(torn) = SubSeq(torn, 1, N)
    BY <2>4, <2>6, ReadUnique
  <2>8. Read(g) = SubSeq(f, 1, N)
    BY <2>1, <2>3, <2>5, <2>7, Zenon DEF pre, torn
  <2> QED
    BY <1>4, <2>1, <2>8
<1> QED
  BY <1>1, <1>3, <1>4

(* Everything the refinement rests on. *)
RefineInv == TypeOK /\ BatchOK /\ TailInv /\ AckChain /\ OnceInv

(* The initial state is an empty log. *)
LEMMA RefineInitial == Init => DL!Init
<1> SUFFICES ASSUME Init PROVE DL!Init
  OBVIOUS
<1>1. Len(<<>>) = 0 /\ file = <<>> /\ TypeOK
  BY TypeInitial DEF Init
<1>2. \A i \in 1..Len(file) : file[i] # Fragment
  BY <1>1
<1>4. Log = <<>>
  BY <1>1, <1>2, LogIsRead, ReadAll, Zenon DEF TypeOK
<1>3. Confirmed = {}
  BY DEF Init, Confirmed
<1> QED
  BY <1>3, <1>4 DEF DL!Init, Log, Confirmed

(* Every step of the writer, of its callers, of a crash and of a replay is *)
(* a step of DurableLog or changes nothing it shows.                       *)
LEMMA RefineStep ==
    ASSUME ~ WriteFaults, SyncPolicy = "Always" \/ ~ PowerLoss,
           RefineInv, RefineInv', [Next]_vars
    PROVE  [DL!Next]_(DL!vars)
<1>0. /\ Len(file) \in Nat /\ Len(file') \in Nat /\ Len(batch) \in Nat
      /\ TypeOK /\ TypeOK' /\ TailInv /\ TailInv' /\ AckChain /\ AckChain' /\ OnceInv /\ OnceInv'
      /\ file \in Seq(Records \cup {Fragment}) /\ file' \in Seq(Records \cup {Fragment})
      /\ call \in [Records -> CallState]
  BY LenProperties, Zenon DEF RefineInv, TypeOK
<1>i. Len(file) \in Nat /\ synced \in 0..Len(file) /\ (Stable = synced \/ Stable = Len(file))
  BY <1>0, Zenon DEF TypeOK, Stable
<1>b. batch \in Seq(Records) /\ Len(batch) \in Nat
  BY <1>0, Zenon DEF TypeOK
<1>s. ASSUME Log' = Log, Confirmed' = Confirmed PROVE [DL!Next]_(DL!vars)
  BY <1>s, Zenon DEF DL!vars, Log, Confirmed
<1>x. ASSUME NEW r \in Records, \A i \in 1..Len(Log) : Log[i] # r,
             Log' = Append(Log, r), Confirmed' = Confirmed
      PROVE  [DL!Next]_(DL!vars)
  BY <1>x, Zenon DEF DL!Next, DL!Extend, Log, Confirmed
<1>c. ASSUME NEW r \in Records, \E i \in 1..Len(Log) : Log[i] = r,
             Log' = Log, Confirmed' = Confirmed \cup {r}
      PROVE  [DL!Next]_(DL!vars)
  BY <1>c, Zenon DEF DL!Next, DL!Confirm, Log, Confirmed
<1>l. ASSUME NEW n \in 0..Len(Log), \A i \in n + 1..Len(Log) : Log[i] \notin Confirmed,
             Log' = SubSeq(Log, 1, n), Confirmed' = Confirmed
      PROVE  [DL!Next]_(DL!vars)
  BY <1>l, Zenon DEF DL!Next, DL!Lose, Log, Confirmed
<1>f. Log = Read(file) /\ Log' = Read(file')
  BY LogIsRead
<1>u. process = "up" => Log = file /\ \A i \in 1..Len(file) : file[i] # Fragment
  BY <1>0, <1>f, ReadAll DEF TailInv, TornTailOnly
<1>1. CASE UNCHANGED file /\ \A r \in Records : call'[r] = "ok" <=> call[r] = "ok"
  <2>1. Confirmed' = Confirmed
    BY <1>1 DEF Confirmed
  <2> QED
    BY <1>1, <1>f, <1>s, <2>1, Zenon
<1>2. CASE WriteRecord
  <2> DEFINE e == batch[written + 1]
  <2>1. /\ thread = "write" /\ written \in Nat /\ written < Len(batch)
        /\ UNCHANGED <<call, process>> /\ file' = Append(file, e)
    BY <1>2 DEF WriteRecord, RefineInv, TypeOK, BatchOK, caller, env
  <2>2. process = "up" /\ Log = file
    BY <1>0, <1>u, <2>1 DEF TailInv
  <2>3. Log' = file'
    <3>1. \A i \in 1..Len(file') : file'[i] # Fragment
      BY <1>0, <2>1, <2>2, Zenon DEF TailInv, TornTailOnly
    <3> QED
      BY <1>0, <1>f, <3>1, ReadAll, Zenon
  <2>w. written + 1 \in 1..Len(batch) /\ written + 1 \in written + 1..Len(batch)
    BY <1>b, <2>1
  <2>4. e \in Records
    BY <1>b, <2>w, ElementOfSeq, Zenon
  <2>5. ~ Occurs(e, file)
    BY <1>0, <2>1, <2>w, Zenon DEF OnceInv
  <2> HIDE DEF e
  <2> QED
    BY <1>x, <2>1, <2>2, <2>3, <2>4, <2>5, Zenon DEF Occurs, Confirmed
<1>3. CASE Ack
  <2> DEFINE r == Head(batch)
  <2>1. /\ thread = "ack" /\ file' = file /\ outcome \in {"ok", "err"}
        /\ call' = [call EXCEPT ![r] = IF @ = "waiting" THEN outcome ELSE @]
    BY <1>3, Zenon DEF Ack, RefineInv, TypeOK, disk
  <2>2. r \in Records /\ r = batch[1] /\ 1 \in 1..Len(batch)
    <3>1. batch # <<>>
      BY <1>3, Zenon DEF Ack, RefineInv, BatchOK
    <3> QED
      BY <1>b, <3>1, TailKeeps
  <2> HIDE DEF r
  <2>3. CASE call[r] = "waiting" /\ outcome = "ok"
    <3>1. PICK i \in 1..Stable : file[i] = r /\ \A j \in 1..i : file[j] # Fragment
      <4>1. Readable(file, r, Stable)
        BY <1>0, <2>1, <2>2, <2>3, Zenon DEF AckChain
      <4> QED
        BY <4>1, Zenon DEF Readable
    <3>2. PICK n \in 0..Len(file) : StopsAt(file, n)
      BY <1>0, ReadEnds
    <3>3. Log = SubSeq(file, 1, n)
      BY <1>0, <1>f, <3>2, ReadUnique, Zenon
    <3>4. i \in 1..n
      <4>0. i \in 1..Len(file)
        BY <1>i
      <4> SUFFICES ASSUME n < i PROVE FALSE
        BY <4>0
      <4>1. n + 1 \in 1..i /\ n < Len(file)
        BY <1>i, <4>0
      <4> QED
        BY <3>1, <3>2, <4>1, Zenon DEF StopsAt
    <3>5. i \in 1..Len(Log) /\ Log[i] = r
      <4>1. file \in Seq(Records \cup {Fragment})
        BY <1>0, Zenon
      <4>2. Len(Log) = n /\ \A j \in 1..n : Log[j] = file[j]
        BY <3>3, <4>1, PrefixKeeps, Zenon
      <4> QED
        BY <3>1, <3>4, <4>2, Zenon
    <3>6. Confirmed' = Confirmed \cup {r}
      BY <1>0, <2>1, <2>2, <2>3 DEF Confirmed
    <3> QED
      BY <1>c, <1>f, <2>1, <2>2, <3>5, <3>6, Zenon
  <2>4. CASE ~ (call[r] = "waiting" /\ outcome = "ok")
    BY <1>0, <1>1, <2>1, <2>2, <2>4
  <2> QED
    BY <2>3, <2>4
<1>4. ASSUME LoseMemory PROVE Confirmed' = Confirmed
  BY <1>4 DEF LoseMemory, Confirmed
<1>5. CASE Crash
  <2>1. process = "up" /\ LoseMemory /\ file' \in {file, Append(file, Fragment)}
    BY <1>5 DEF Crash
  <2>2. Log' = Log
    BY <1>0, <1>f, <1>u, <2>1, ReadTorn, Zenon
  <2> QED
    BY <1>4, <1>s, <2>1, <2>2
<1>6. CASE PowerFail
  <2>1. LoseMemory /\ PowerLoss
    BY <1>6 DEF PowerFail
  <2>2. PICK n \in 0..Len(file) :
          /\ synced <= n
          /\ file' \in {SubSeq(file, 1, n), Append(SubSeq(file, 1, n), Fragment)}
    <3>1. PICK n \in synced..Len(file) :
            \/ file' = SubSeq(file, 1, n)
            \/ file' = Append(SubSeq(file, 1, n), Fragment)
      BY <1>6, Zenon DEF PowerFail
    <3>2. n \in 0..Len(file) /\ synced <= n
      BY <1>i
    <3> QED
      BY <3>1, <3>2
  <2>3. PICK N \in 0..Len(file) : StopsAt(file, N)
    BY <1>0, ReadEnds
  <2> DEFINE m == IF n <= N THEN n ELSE N
  <2>4. Log' = SubSeq(Log, 1, m) /\ Log = SubSeq(file, 1, N)
    BY <1>0, <1>f, <2>2, <2>3, ReadCut, ReadUnique, ZenonT(30)
  <2>5. Log \in Seq(Records \cup {Fragment}) /\ Len(Log) = N /\ \A i \in 1..N : Log[i] = file[i]
    BY <1>0, <2>4, PrefixKeeps, Zenon
  <2>6. m \in 0..Len(Log)
    BY <1>0, <2>5, SMTT(30)
  <2>7. \A i \in m + 1..Len(Log) : Log[i] \notin Confirmed
    <3> SUFFICES ASSUME NEW i \in m + 1..Len(Log), Log[i] \in Confirmed PROVE FALSE
      OBVIOUS
    <3>1. Log[i] \in Records /\ call[Log[i]] = "ok"
      BY SMTT(30) DEF Confirmed
    <3>2. PICK k \in 1..synced : file[k] = Log[i] /\ \A j \in 1..k : file[j] # Fragment
      BY <1>0, <2>1, <3>1, Zenon DEF AckChain, AckedSurvives, Readable, Stable
    <3>3. synced \in Nat /\ k <= n /\ k \in 1..Len(file)
      BY <1>i, <2>2
    <3>4. k <= N
      <4> SUFFICES ASSUME N < k PROVE FALSE
        BY <3>3
      <4>1. N + 1 \in 1..k /\ N < Len(file)
        BY <1>0, <3>3
      <4> QED
        BY <2>3, <3>2, <4>1 DEF StopsAt
    <3>5. i \in 1..Len(file) /\ k < i /\ i \in 1..N
      BY <1>0, <2>5, <3>3, <3>4
    <3>6. file[i] = Log[i]
      BY <2>5, <3>5
    <3>7. k = i
      BY <1>0, <3>2, <3>3, <3>5, <3>6, Zenon DEF OnceInv, NoDup
    <3> QED
      BY <3>3, <3>5, <3>7
  <2> HIDE DEF m
  <2> QED
    BY <1>4, <1>l, <2>1, <2>4, <2>6, <2>7, Zenon
<1>7. CASE Open
  <2>1. PICK n \in 0..Len(file) : Replays(n) /\ file' = SubSeq(file, 1, n)
    BY <1>0, <1>7 DEF Open, TailInv, AlwaysReopens
  <2>2. StopsAt(file, n) /\ UNCHANGED call
    BY <1>7, <2>1, Zenon DEF Open, Replays, StopsAt
  <2>3. Log' = SubSeq(Log, 1, n) /\ Log = SubSeq(file, 1, n)
    BY <1>0, <1>f, <2>1, <2>2, ReadCut, ReadUnique, Zenon
  <2>4. SubSeq(SubSeq(file, 1, n), 1, n) = SubSeq(file, 1, n)
    BY <1>0, PrefixOfPrefix
  <2> QED
    BY <1>s, <2>2, <2>3, <2>4 DEF Confirmed
<1>8. CASE \E r \in Records : Caller(r)
  <2>1. PICK r \in Records : Caller(r)
    BY <1>8
  <2>2. UNCHANGED file /\ \A q \in Records : call'[q] = "ok" <=> call[q] = "ok"
    BY <1>0, <2>1, SMTT(30) DEF Caller, Submit, Send, Abort, Pending, disk
  <2> QED
    BY <1>1, <2>2
<1>9. CASE BlockingRecv \/ TryRecv \/ SyncData \/ SyncFail \/ Exit \/ BeginAbort \/ Drop
           \/ UNCHANGED vars
  BY <1>1, <1>9, Zenon DEF BlockingRecv, TryRecv, SyncData, SyncFail, Exit, BeginAbort, Drop,
                    vars, caller, disk
<1> QED
  BY <1>2, <1>3, <1>5, <1>6, <1>7, <1>8, <1>9 DEF Next, Thread, WriteFail

(* The log writer implements DurableLog: records are appended once, a      *)
(* caller hears Ok only about a record that a replay reads, and a crash    *)
(* loses at most unconfirmed records at the end.  It is proved for a       *)
(* write_all that does not fail half way, with SyncPolicy Always or        *)
(* without power failures.                                                 *)
THEOREM Refines ==
    ASSUME ~ WriteFaults, SyncPolicy = "Always" \/ ~ PowerLoss
    PROVE  Spec => ImplementsDurableLog
<1>1. Init => RefineInv /\ DL!Init
  <2>1. Len(<<>>) = 0
    OBVIOUS
  <2>2. Init => TailInv /\ AckChain
    BY <2>1, TypeInitial
       DEF Init, TailInv, TornTailOnly, AlwaysReopens, AckChain, AckedSurvives
  <2>3. Init => OnceInv
    BY <2>1 DEF Init, OnceInv, NoDup, Occurs
  <2> QED
    BY <2>2, <2>3, TypeInitial, RefineInitial DEF RefineInv
<1>2. RefineInv /\ [Next]_vars => RefineInv'
  BY TypeInductive, TailInductive, AckInductive, OnceInductive DEF RefineInv
<1>3. RefineInv /\ RefineInv' /\ [Next]_vars => [DL!Next]_(DL!vars)
  BY RefineStep
<1> QED
  BY <1>1, <1>2, <1>3, PTL DEF Spec, ImplementsDurableLog, DL!Spec
===============================================================================
