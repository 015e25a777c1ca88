---------------------------- MODULE TxStore_proofs ----------------------------
(***************************************************************************)
(* The engine of module Storage implements the store of module TxStore,    *)
(* for any number of connections, tables and INSERT statements.            *)
(***************************************************************************)
EXTENDS Storage_proofs

(* The rows a connection has buffered, as Buffered has them. *)
Uncommitted(o, x, t) ==
    LET rows == IF o.stmt.op \in {"begin", "commit"} /\ o.stage \in {"check", "log"}
                  THEN o.batch ELSE x.pending
    IN  IF t \in DOMAIN rows THEN rows[t] ELSE <<>>

LEMMA BufferIs ==
    /\ DOMAIN Buffer = Conns
    /\ \A c \in Conns : /\ DOMAIN Buffer[c] = DOMAIN InitialDb.tables
                        /\ \A t \in DOMAIN InitialDb.tables :
                             Buffer[c][t] = Uncommitted(op[c], tx[c], t)
    /\ Buffer = [c \in Conns |->
                   [t \in DOMAIN InitialDb.tables |-> Uncommitted(op[c], tx[c], t)]]
  BY DEF Buffer, Buffered, Uncommitted

LEMMA BufferIsNext ==
    Buffer' = [c \in Conns |->
                 [t \in DOMAIN InitialDb.tables |-> Uncommitted(op'[c], tx'[c], t)]]
  BY DEF Buffer, Buffered, Uncommitted

(* What makes a step one that TxStore does not see. *)
LEMMA Unseen ==
    ASSUME durable'.tables = durable.tables,
           \A c \in Conns : \A t \in DOMAIN InitialDb.tables :
             Uncommitted(op'[c], tx'[c], t) = Uncommitted(op[c], tx[c], t)
    PROVE  UNCHANGED TS!vars
<1>1. Committed' = Committed
  BY DEF Committed
<1>2. Buffer' = Buffer
  BY BufferIs, BufferIsNext
<1> QED
  BY <1>1, <1>2 DEF TS!vars

(* The transactions of S end. *)
LEMMA Discards ==
    ASSUME durable'.tables = durable.tables, NEW S \in SUBSET Conns,
           \A c \in Conns : \A t \in DOMAIN InitialDb.tables :
             Uncommitted(op'[c], tx'[c], t) =
               IF c \in S THEN <<>> ELSE Uncommitted(op[c], tx[c], t)
    PROVE  TS!Discard
<1>1. Committed' = Committed
  BY DEF Committed
<1>2. Buffer' = [c \in Conns |-> IF c \in S THEN [t \in DOMAIN InitialDb.tables |-> <<>>]
                                            ELSE Buffer[c]]
  BY BufferIs, BufferIsNext
<1>3. DOMAIN TableKeys = DOMAIN InitialDb.tables
  BY DEF TableKeys
<1> QED
  BY <1>1, <1>2, <1>3, Zenon DEF TS!Discard, TS!TableNames

(* A table that a connection has locked and does not push to is the same   *)
(* in memory and in the log.                                               *)
LEMMA LockedSame ==
    ASSUME LockInv, DataInv, NEW c \in Conns, NEW t \in DOMAIN tables, t \in held[c],
           op[c].stage # "apply"
    PROVE  Same(durable.tables[t], tables[t])
  BY DEF LockInv, DataInv, Ahead, Pushes, Owns

(* Nobody else has rows for it. *)
LEMMA LockedAlone ==
    ASSUME LockInv, DataInv, NEW c \in Conns, NEW t \in DOMAIN InitialDb.tables, t \in held[c]
    PROVE  TS!OnlyWriter(c, t)
<1>1. \A d \in Conns \ {c} : t \notin DOMAIN tx[d].pending /\ t \notin DOMAIN op[d].batch
  BY DEF LockInv, Owns
<1>2. \A d \in Conns \ {c} : Uncommitted(op[d], tx[d], t) = <<>>
  BY <1>1 DEF Uncommitted
<1> QED
  BY <1>2, BufferIs DEF TS!OnlyWriter

LEMMA PrefixConcat ==
    ASSUME NEW s, IsSeq(s), NEW r, IsSeq(r)
    PROVE  TS!Grown(s, s \o r)
<1>1. PICK S : s \in Seq(S) /\ r \in Seq(S)
  BY SeqsInOne
<1>2. s \o r \in Seq(S) /\ Len(s \o r) = Len(s) + Len(r) /\ Len(s) \in Nat /\ Len(r) \in Nat
  BY <1>1, ConcatProperties, LenProperties
<1>3. \A i \in 1..Len(s) : (s \o r)[i] = s[i]
  BY <1>1, ConcatProperties
<1>4. s = SubSeq(s \o r, 1, Len(s))
  <2> DEFINE b == SubSeq(s \o r, 1, Len(s))
  <2>1. /\ b \in Seq(S) /\ Len(b) = Len(s)
        /\ \A i \in 1..Len(s) : b[i] = (s \o r)[i]
    BY <1>1, <1>2, SubSeqProperties
  <2> QED
    BY <1>1, <1>3, <2>1, SeqEqual
<1> QED
  BY <1>2, <1>4 DEF TS!Grown

LEMMA PrefixAppend ==
    ASSUME NEW s, IsSeq(s), NEW e
    PROVE  TS!Grown(s, Append(s, e))
<1>1. Append(s, e) = s \o <<e>>
  OBVIOUS
<1>3. <<e>> \in Seq({e})
  OBVIOUS
<1>2. IsSeq(<<e>>)
  BY <1>3, Zenon DEF IsSeq
<1> QED
  BY <1>1, <1>2, PrefixConcat

LEMMA SoundFresh ==
    ASSUME NEW table, Sound(table), NEW t \in DOMAIN InitialDb.tables,
           table.columns = InitialDb.tables[t].columns,
           table.primary_key = InitialDb.tables[t].primary_key
    PROVE  TS!Fresh(table.rows, t)
<1>1. TableKeys[t] = KeyPos(table)
  BY DEF TableKeys, KeyPos
<1>2. DOMAIN table.rows = 1..Len(table.rows)
  BY SeqHas DEF Sound
<1> QED
  BY <1>1, <1>2 DEF Sound, TS!Fresh

(* Rows that can be inserted into a table are fresh in it. *)
LEMMA InsertableFresh ==
    ASSUME NEW table, Sound(table), NEW t \in DOMAIN InitialDb.tables,
           table.columns = InitialDb.tables[t].columns,
           table.primary_key = InitialDb.tables[t].primary_key,
           NEW rows, IsSeq(rows), CheckInsertable(table, rows)
    PROVE  TS!Fresh(table.rows \o rows, t)
<1> DEFINE p == PushTrusted(table, rows)
<1>1. Sound(p)
  BY PushSound
<1>2. p.columns = table.columns /\ p.primary_key = table.primary_key /\ p.rows = table.rows \o rows
  <2>1. DOMAIN table = {"columns", "primary_key", "rows", "index", "next"}
    BY Zenon DEF Sound
  <2> QED
    BY <2>1, PushFields, ZenonT(30)
<1> HIDE DEF p
<1>3. TS!Fresh(p.rows, t)
  BY <1>1, <1>2, SoundFresh, Zenon
<1> QED
  BY <1>2, <1>3

(* Every step of a connection, and a restart, is a step of TxStore or      *)
(* changes nothing it shows.                                               *)
LEMMA RefineStep ==
    ASSUME RowsOnly, LockInv, LockInv', DataInv, DataInv', [Next]_vars
    PROVE  [TS!Next]_(TS!vars)
<1>o. \A c \in Conns : Owns(op[c], tx[c], held[c]) /\ Runs(op[c], tx[c]) /\ Fits(op[c], tx[c], tables)
  BY DEF LockInv, DataInv
<1>e. NoTx.pending = EmptyMap /\ DOMAIN EmptyMap = {} /\ DOMAIN NoTx = {"open", "pending"}
  BY DEF NoTx, EmptyMap
<1>t. DOMAIN tables = DOMAIN InitialDb.tables /\ DOMAIN durable.tables = DOMAIN InitialDb.tables
      /\ DOMAIN TableKeys = DOMAIN InitialDb.tables
  BY Zenon DEF DataInv, TableKeys
<1>s. ASSUME NEW c \in Conns, NEW s, Does(c, s), durable'.tables = durable.tables,
             \A t \in DOMAIN InitialDb.tables :
               Uncommitted(op'[c], tx'[c], t) = Uncommitted(op[c], tx[c], t)
      PROVE  [TS!Next]_(TS!vars)
  <2>1. \A d \in Conns \ {c} : op'[d] = op[d] /\ tx'[d] = tx[d]
    BY <1>s, OnlyOne DEF Only
  <2> QED
    BY <1>s, <2>1, Unseen, Zenon
<1>d. ASSUME NEW c \in Conns, NEW s, Does(c, s), durable'.tables = durable.tables,
             \A t \in DOMAIN InitialDb.tables : Uncommitted(op'[c], tx'[c], t) = <<>>
      PROVE  [TS!Next]_(TS!vars)
  <2>1. \A d \in Conns \ {c} : op'[d] = op[d] /\ tx'[d] = tx[d]
    BY <1>d, OnlyOne DEF Only
  <2>2. \A d \in Conns : \A t \in DOMAIN InitialDb.tables :
          Uncommitted(op'[d], tx'[d], t) =
            IF d \in {c} THEN <<>> ELSE Uncommitted(op[d], tx[d], t)
    BY <1>d, <2>1
  <2>3. TS!Discard
    <3> DEFINE S == {c}
    <3>1. S \in SUBSET Conns
      OBVIOUS
    <3> HIDE DEF S
    <3>2. \A d \in Conns : \A t \in DOMAIN InitialDb.tables :
            Uncommitted(op'[d], tx'[d], t) =
              IF d \in S THEN <<>> ELSE Uncommitted(op[d], tx[d], t)
      BY <2>2 DEF S
    <3> QED
      BY <1>d, <3>1, <3>2, Discards
  <2> QED
    BY <2>3 DEF TS!Next
<1>1. ASSUME NEW c \in Conns, NEW s,
             \/ s \in Statements[c] /\ Insert(c, s)
             \/ s \in Statements[c] /\ Define(c, s)
             \/ LockTable(c) \/ LockWaitTimeout(c) \/ TableSchema(c) \/ BindRow(c)
             \/ BufferSchema(c) \/ (BufferRow(c) /\ UNCHANGED tx)
             \/ ApplyDatabase(c)
      PROVE  [TS!Next]_(TS!vars)
  <2>1. UNCHANGED <<durable, tx>>
    <3>1. CASE BindRow(c)
      BY <3>1, Zenon DEF BindRow
    <3>2. CASE Insert(c, s) \/ Define(c, s)
      BY <3>2 DEF Insert, Define
    <3>3. CASE LockTable(c) \/ LockWaitTimeout(c) \/ ApplyDatabase(c)
      BY <3>3, Zenon DEF LockTable, LockWaitTimeout, ApplyDatabase
    <3>4. CASE TableSchema(c) \/ BufferSchema(c)
      BY <3>4, Zenon DEF TableSchema, BufferSchema
    <3>5. CASE BufferRow(c) /\ UNCHANGED tx
      BY <3>5, ZenonT(30) DEF BufferRow
    <3> QED
      BY <1>1, <3>1, <3>2, <3>3, <3>4, <3>5
  <2>a. \/ op[c].stage \in {"lock", "schema", "bind", "buffer", "pending"}
        \/ op[c].stage = "apply" /\ op[c].stmt.op \in {"createDatabase", "dropDatabase"}
        \/ op[c].stage \in {"ok", "err"} /\ s \in Statements[c] /\ (Insert(c, s) \/ Define(c, s))
    <3>1. CASE BindRow(c)
      BY <3>1, Zenon DEF BindRow
    <3>2. CASE s \in Statements[c] /\ (Insert(c, s) \/ Define(c, s))
      BY <3>2, Zenon DEF Insert, Define, Ready
    <3>3. CASE LockTable(c) \/ LockWaitTimeout(c) \/ ApplyDatabase(c)
      BY <3>3, Zenon DEF LockTable, LockWaitTimeout, ApplyDatabase
    <3>4. CASE TableSchema(c) \/ BufferSchema(c)
      BY <3>4, Zenon DEF TableSchema, BufferSchema
    <3>5. CASE BufferRow(c)
      BY <3>5, Zenon DEF BufferRow
    <3> QED
      BY <1>1, <3>1, <3>2, <3>3, <3>4, <3>5, Zenon
  <2>2. ~ (op[c].stmt.op \in {"begin", "commit"} /\ op[c].stage \in {"check", "log"})
    BY <2>a
  <2>3. ~ (op'[c].stmt.op \in {"begin", "commit"} /\ op'[c].stage \in {"check", "log"})
    <3>1. CASE s \in Statements[c] /\ Insert(c, s)
      <4>1. op'[c].stage \in {"lock", "schema"}
        BY <3>1 DEF Insert, Idle, LockInv
      <4> QED
        BY <4>1
    <3>2. CASE s \in Statements[c] /\ Define(c, s)
      <4>1. s.op \in {"createDatabase", "dropDatabase"}
        BY <3>2 DEF Define, RowsOnly
      <4>2. Translated(s) = s
        BY <4>1 DEF Translated
      <4>3. op'[c].stmt = s
        BY <3>2, <4>2 DEF Define, Idle, LockInv
      <4> QED
        BY <4>1, <4>3
    <3>3. CASE ~ (s \in Statements[c] /\ (Insert(c, s) \/ Define(c, s)))
      <4>1. Step(c)
        BY <1>1, <3>3 DEF Step
      <4>2. op'[c].stmt = op[c].stmt
        BY <4>1, StmtKept
      <4>4. op[c].stmt.op \notin {"begin", "commit"}
        BY <1>o, <2>a, <3>3 DEF Runs
      <4> QED
        BY <4>2, <4>4
    <3> QED
      BY <3>1, <3>2, <3>3
  <2>4. Does(c, s)
    BY <1>1, Zenon DEF Does, Step
  <2> QED
    BY <1>s, <2>1, <2>2, <2>3, <2>4 DEF Uncommitted
<1>2. ASSUME NEW c \in Conns, NEW s \in Statements[c], EndByCommit(c, s)
      PROVE  [TS!Next]_(TS!vars)
  <2>1. op[c].stage \in {"ok", "err"} /\ UNCHANGED durable
    BY <1>2 DEF EndByCommit, Ready
  <2>2. CASE tx[c].pending # EmptyMap
    <3>1. /\ op'[c].stmt.op \in {"begin", "commit"} /\ op'[c].stage = "check"
          /\ op'[c].batch = tx[c].pending
      <4>1. /\ op'[c] = [Idle EXCEPT !.stmt = s, !.stage = "check", !.batch = tx[c].pending]
            /\ s.op \in {"begin", "commit"}
        BY <1>2, <2>2 DEF EndByCommit, LockInv
      <4> QED
        BY <4>1 DEF Idle
    <3> QED
      BY <1>2, <1>s, <2>1, <3>1, Zenon DEF Uncommitted, Does
  <2>3. CASE tx[c].pending = EmptyMap
    <3>1. op'[c].stage = "ok"
      BY <1>2, <2>3 DEF EndByCommit, Idle, LockInv
    <3>2. tx'[c].pending = EmptyMap
      BY <1>2, <1>e, <2>3 DEF EndByCommit, LockInv
    <3> QED
      BY <1>2, <1>s, <2>1, <2>3, <3>1, <3>2, Zenon DEF Uncommitted, Does
  <2> QED
    BY <2>2, <2>3
<1>3. ASSUME NEW c \in Conns, NEW s \in Statements[c], Rollback(c, s)
      PROVE  [TS!Next]_(TS!vars)
  <2>1. op'[c].stage = "ok" /\ tx'[c].pending = EmptyMap /\ UNCHANGED durable
    BY <1>3, <1>e DEF Rollback, LockInv, Idle
  <2> QED
    BY <1>3, <1>d, <1>e, <2>1, Zenon DEF Uncommitted, Does
<1>4. ASSUME NEW c \in Conns, Check(c) PROVE [TS!Next]_(TS!vars)
  <2>1. op[c].stage = "check" /\ UNCHANGED <<durable, tx>>
    BY <1>4, SMTT(30) DEF Check
  <2>2. CASE Checked(c)
    <3>1. op'[c].stage = "log" /\ op'[c].stmt = op[c].stmt /\ op'[c].batch = op[c].batch
      BY <1>4, <1>o, <2>2 DEF Check, Stage, Owns, LockInv
    <3> QED
      BY <1>4, <1>s, <2>1, <3>1, Zenon DEF Uncommitted, Does, Step
  <2>3. CASE ~ Checked(c)
    <3>1. op[c].stmt.op \notin {"begin", "commit"}
      <4>1. ASSUME op[c].stmt.op \in {"begin", "commit"} PROVE Insertable(c)
        BY <1>o, <2>1, <4>1, Zenon DEF Fits, Insertable
      <4>2. ASSUME op[c].stmt.op \in {"begin", "commit"} PROVE Insertable(c) => Checked(c)
        BY <4>2, Zenon DEF Checked, Insertable
      <4> QED
        BY <2>3, <4>1, <4>2, SMTT(30)
    <3>2. op'[c].stmt = op[c].stmt
      BY <1>4, StmtKept, Zenon DEF Step
    <3> QED
      BY <1>4, <1>s, <2>1, <3>1, <3>2, Zenon DEF Uncommitted, Does, Step
  <2> QED
    BY <2>2, <2>3
<1>5. ASSUME NEW c \in Conns, AppendFails(c) PROVE [TS!Next]_(TS!vars)
  <2>1. op[c].stage = "log" /\ UNCHANGED <<durable, tx>> /\ Answer(c, "err")
    BY <1>5 DEF AppendFails, RowsOnly
  <2>2. op'[c].stage = "err"
    BY <1>o, <2>1, SMTT(30) DEF Answer, Owns, LockInv
  <2>3. CASE op[c].stmt.op \in {"begin", "commit"}
    <3>1. tx[c].pending = EmptyMap
      BY <1>o, <2>1, <2>3, Zenon DEF Runs, Owns
    <3> QED
      BY <1>5, <1>d, <1>e, <2>1, <2>2, <3>1, Zenon DEF Uncommitted, Does, Step
  <2>4. CASE op[c].stmt.op \notin {"begin", "commit"}
    BY <1>5, <1>s, <2>1, <2>2, <2>4, ZenonT(30) DEF Uncommitted, Does, Step
  <2> QED
    BY <2>3, <2>4
<1>6. ASSUME NEW c \in Conns, AppendLog(c) PROVE [TS!Next]_(TS!vars)
  <2>1. op[c].stage = "log" /\ UNCHANGED tx /\ durable' = ApplyEntry(durable, Entry(c))
    BY <1>6 DEF AppendLog
  <2>2. op'[c].stage = "apply" /\ op'[c].stmt = op[c].stmt /\ op'[c].batch = op[c].batch
    BY <1>6, <1>o, SMTT(30) DEF AppendLog, Stage, Owns, LockInv
  <2>3. \A d \in Conns \ {c} : op'[d] = op[d] /\ tx'[d] = tx[d]
    BY <1>6, OnlyOne, Zenon DEF Only, Does, Step
  <2>4. \A t \in DOMAIN InitialDb.tables :
          durable'.tables[t] = IF t \in DOMAIN op[c].batch
                                 THEN PushTrusted(durable.tables[t], op[c].batch[t])
                                 ELSE durable.tables[t]
    BY <1>t, <2>1, EntryApplied
  <2>5. ASSUME NEW t \in DOMAIN InitialDb.tables
        PROVE  /\ Sound(durable.tables[t]) /\ IsSeq(durable.tables[t].rows)
               /\ durable.tables[t].columns = InitialDb.tables[t].columns
               /\ durable.tables[t].primary_key = InitialDb.tables[t].primary_key
    BY <1>t, DurableSound, Zenon DEF Sound
  <2>6. ASSUME NEW t \in DOMAIN InitialDb.tables
        PROVE  durable'.tables[t].rows = IF t \in DOMAIN op[c].batch
                                           THEN durable.tables[t].rows \o op[c].batch[t]
                                           ELSE durable.tables[t].rows
    <3>1. DOMAIN durable.tables[t] = {"columns", "primary_key", "rows", "index", "next"}
      BY <2>5, Zenon DEF Sound
    <3>2. PushTrusted(durable.tables[t], op[c].batch[t]).rows
            = durable.tables[t].rows \o op[c].batch[t]
      BY <3>1, PushFields, ZenonT(30)
    <3> QED
      BY <2>4, <3>2, ZenonT(30)
  <2>7. CASE op[c].stmt.op \in {"begin", "commit"}
    <3>1. tx[c].pending = EmptyMap
      BY <1>o, <2>1, <2>7, Zenon DEF Runs, Owns
    <3>2. \A t \in DOMAIN InitialDb.tables :
            /\ Buffer[c][t] = IF t \in DOMAIN op[c].batch THEN op[c].batch[t] ELSE <<>>
            /\ Uncommitted(op'[c], tx'[c], t) = <<>>
      BY <1>e, <2>1, <2>2, <2>7, <3>1, BufferIs, Zenon DEF Uncommitted
    <3>3. \A t \in DOMAIN InitialDb.tables :
            durable'.tables[t].rows = durable.tables[t].rows \o Buffer[c][t]
      <4>1. ASSUME NEW t \in DOMAIN InitialDb.tables
            PROVE  durable.tables[t].rows \o <<>> = durable.tables[t].rows
        BY <2>5, SeqConcatEmpty, Zenon
      <4> QED
        BY <2>6, <3>2, <4>1, Zenon
    <3>4. Committed' = [t \in DOMAIN InitialDb.tables |-> Committed[t] \o Buffer[c][t]]
      BY <3>3, Zenon DEF Committed
    <3>5. Buffer' = [Buffer EXCEPT ![c] = [t \in DOMAIN InitialDb.tables |-> <<>>]]
      <4>1. Buffer' = [d \in Conns |-> IF d = c THEN [t \in DOMAIN InitialDb.tables |-> <<>>]
                                              ELSE Buffer[d]]
        <5>1. \A d \in Conns \ {c} : \A t \in DOMAIN InitialDb.tables :
                Uncommitted(op'[d], tx'[d], t) = Buffer[d][t]
          BY <2>3, BufferIs
        <5>2. \A d \in Conns : DOMAIN Buffer[d] = DOMAIN InitialDb.tables
          BY BufferIs
        <5>3. \A d \in Conns \ {c} :
                [t \in DOMAIN InitialDb.tables |-> Uncommitted(op'[d], tx'[d], t)] = Buffer[d]
          <6>1. \A d \in Conns : Buffer[d] = [t \in DOMAIN InitialDb.tables |-> Buffer[d][t]]
            BY BufferIs
          <6> QED
            BY <5>1, <6>1
        <5>4. [t \in DOMAIN InitialDb.tables |-> Uncommitted(op'[c], tx'[c], t)]
                = [t \in DOMAIN InitialDb.tables |-> <<>>]
          BY <3>2
        <5> QED
          BY <5>3, <5>4, BufferIsNext, Zenon
      <4> QED
        BY <4>1, BufferIs, Zenon
    <3>6. TS!Commit(c)
      BY <1>t, <3>4, <3>5 DEF TS!Commit, TS!TableNames
    <3> QED
      BY <3>6 DEF TS!Next
  <2>8. CASE op[c].stmt.op = "insert"
    <3> DEFINE t == op[c].stmt.table
    <3>1. /\ DOMAIN op[c].batch = {t} /\ t \in DOMAIN InitialDb.tables /\ t \in held[c]
          /\ IsSeq(op[c].batch[t]) /\ CheckInsertable(tables[t], op[c].batch[t])
          /\ tx[c].pending = EmptyMap
      BY <1>o, <1>t, <2>1, <2>8, Zenon DEF Runs, Fits, Owns
    <3>2. TS!OnlyWriter(c, t) /\ Same(durable.tables[t], tables[t])
      BY <1>t, <2>1, <3>1, LockedAlone, LockedSame, Zenon
    <3>3. CheckInsertable(durable.tables[t], op[c].batch[t])
      BY <3>1, <3>2, SameInsertable, Zenon
    <3>4. /\ TS!Fresh(durable.tables[t].rows \o op[c].batch[t], t)
          /\ TS!Grown(durable.tables[t].rows, durable.tables[t].rows \o op[c].batch[t])
      BY <2>5, <3>1, <3>3, InsertableFresh, PrefixConcat, Zenon
    <3>5. /\ Committed'[t] = durable.tables[t].rows \o op[c].batch[t]
          /\ Committed[t] = durable.tables[t].rows
          /\ Committed' = [Committed EXCEPT ![t] = Committed'[t]]
      BY <2>6, <3>1, ZenonT(30) DEF Committed
    <3>6. \A d \in Conns : \A u \in DOMAIN InitialDb.tables :
            Uncommitted(op'[d], tx'[d], u) = Uncommitted(op[d], tx[d], u)
      BY <2>1, <2>2, <2>3, <2>8, ZenonT(30) DEF Uncommitted
    <3>7. Buffer' = Buffer
      BY <3>6, BufferIs, BufferIsNext
    <3>8. Buffer[c][t] = <<>>
      BY <1>e, <2>8, <3>1, BufferIs, ZenonT(30) DEF Uncommitted
    <3>9. TS!Autocommit(c)
      BY <1>t, <3>1, <3>2, <3>4, <3>5, <3>7, <3>8, Zenon DEF TS!Autocommit, TS!TableNames
    <3> QED
      BY <3>9 DEF TS!Next
  <2>9. CASE op[c].stmt.op \in {"createDatabase", "dropDatabase"}
    <3>1. op[c].batch = EmptyMap
      BY <1>o, <2>1, <2>9, Zenon DEF Runs
    <3>2. \A t \in DOMAIN InitialDb.tables : durable'.tables[t] = durable.tables[t]
      BY <1>e, <2>4, <3>1
    <3>3. Committed' = Committed
      BY <3>2, SMTT(30) DEF Committed
    <3>4. \A d \in Conns : \A u \in DOMAIN InitialDb.tables :
            Uncommitted(op'[d], tx'[d], u) = Uncommitted(op[d], tx[d], u)
      BY <2>1, <2>2, <2>3, <2>9, ZenonT(30) DEF Uncommitted
    <3>5. Buffer' = Buffer
      BY <3>4, BufferIs, BufferIsNext
    <3> QED
      BY <3>3, <3>5, SMTT(30) DEF TS!vars
  <2> QED
    BY <1>o, <2>1, <2>7, <2>8, <2>9, Zenon DEF Runs
<1>7. ASSUME NEW c \in Conns, ApplyRows(c) PROVE [TS!Next]_(TS!vars)
  <2>1. /\ op[c].stage = "apply" /\ op[c].stmt.op \in {"insert", "commit", "begin"}
        /\ UNCHANGED durable
    BY <1>7 DEF ApplyRows
  <2>2. tx[c].pending = EmptyMap
    BY <1>o, <2>1, Zenon DEF Runs, Owns
  <2>3. op'[c].stage = "ok"
    BY <1>7 DEF ApplyRows, Idle, LockInv
  <2>4. tx'[c].pending = EmptyMap
    BY <1>7, <1>e DEF ApplyRows, LockInv
  <2> QED
    BY <1>7, <1>s, <2>1, <2>2, <2>3, <2>4, Zenon DEF Uncommitted, Does, Step
<1>8. ASSUME NEW c \in Conns, BufferRow(c), ~ UNCHANGED tx PROVE [TS!Next]_(TS!vars)
  <2> DEFINE t    == op[c].stmt.table
             row  == op[c].batch[t][op[c].done + 1]
             rows == IF t \in DOMAIN tx[c].pending THEN tx[c].pending[t] ELSE <<>>
  <2>1. /\ op[c].stage = "pending" /\ UNCHANGED durable
        /\ tx' = [tx EXCEPT ![c].pending = Inserted(@, t, Append(rows, row))]
    BY <1>8, Zenon DEF BufferRow
  <2>2. op'[c].stage \in {"buffer", "ok"}
    <3>1. PICK stage \in {"buffer", "ok"} :
            op' = [op EXCEPT ![c].done = @ + 1, ![c].stage = stage]
      BY <1>8, Zenon DEF BufferRow
    <3> QED
      BY <1>o, <3>1 DEF Owns, LockInv
  <2>3. /\ DOMAIN tx'[c].pending = DOMAIN tx[c].pending \cup {t}
        /\ tx'[c].pending[t] = Append(rows, row)
        /\ \A u \in DOMAIN tx[c].pending : u # t => tx'[c].pending[u] = tx[c].pending[u]
    <3>1. tx'[c] = [tx[c] EXCEPT !.pending = Inserted(@, t, Append(rows, row))]
      BY <2>1, Zenon DEF LockInv
    <3>2. tx'[c].pending = Inserted(tx[c].pending, t, Append(rows, row))
      BY <1>o, <3>1, ZenonT(30) DEF Owns
    <3> HIDE DEF row, rows
    <3> QED
      BY <3>2, Zenon DEF Inserted
  <2> HIDE DEF row, rows
  <2>4. /\ t \in DOMAIN InitialDb.tables /\ t \in held[c]
    BY <1>o, <1>t, <2>1, Zenon DEF Owns, Fits
  <2>5. IsSeq(rows)
    BY <1>o, SeqEmpty, Zenon DEF Fits, rows
  <2>6. IsSeq(Append(rows, row)) /\ CheckInsertable(tables'[t], Append(rows, row))
    <3>1. Fits(op'[c], tx'[c], tables')
      BY Zenon DEF DataInv
    <3> QED
      BY <2>3, <3>1, Zenon DEF Fits
  <2>7. UNCHANGED tables
    BY <1>8, ZenonT(30) DEF BufferRow
  <2>8. /\ Sound(durable.tables[t])
        /\ durable.tables[t].columns = InitialDb.tables[t].columns
        /\ durable.tables[t].primary_key = InitialDb.tables[t].primary_key
        /\ Same(durable.tables[t], tables[t]) /\ TS!OnlyWriter(c, t)
    BY <1>t, <2>1, <2>4, DurableSound, LockedSame, LockedAlone, Zenon
  <2>9. CheckInsertable(durable.tables[t], Append(rows, row))
    BY <2>6, <2>7, <2>8, SameInsertable, Zenon
  <2>10. TS!Fresh(durable.tables[t].rows \o Append(rows, row), t)
    BY <2>4, <2>6, <2>8, <2>9, InsertableFresh, Zenon
  <2>11. TS!Grown(rows, Append(rows, row))
    BY <2>5, PrefixAppend
  <2>12. \A u \in DOMAIN InitialDb.tables :
           /\ Uncommitted(op[c], tx[c], u) =
                IF u \in DOMAIN tx[c].pending THEN tx[c].pending[u] ELSE <<>>
           /\ Uncommitted(op'[c], tx'[c], u) =
                IF u \in DOMAIN tx'[c].pending THEN tx'[c].pending[u] ELSE <<>>
    BY <2>1, <2>2 DEF Uncommitted
  <2>13. \A u \in DOMAIN InitialDb.tables :
           Uncommitted(op'[c], tx'[c], u) =
             IF u = t THEN Append(rows, row) ELSE Uncommitted(op[c], tx[c], u)
    BY <2>3, <2>12, ZenonT(30)
  <2>14. \A d \in Conns \ {c} : op'[d] = op[d] /\ tx'[d] = tx[d]
    BY <1>8, OnlyOne, Zenon DEF Only, Does, Step
  <2>15. Buffer' = [d \in Conns |-> [u \in DOMAIN InitialDb.tables |->
                      IF d = c /\ u = t THEN Append(rows, row) ELSE Buffer[d][u]]]
    BY <2>13, <2>14, BufferIs, BufferIsNext
  <2>16. /\ Buffer'[c][t] = Append(rows, row)
         /\ Buffer' = [Buffer EXCEPT ![c][t] = Append(rows, row)]
    BY <2>4, <2>15, BufferIs, ZenonT(30)
  <2>17. Buffer[c][t] = rows
    BY <2>4, <2>12, BufferIs, ZenonT(30) DEF rows
  <2>18. Committed[t] = durable.tables[t].rows /\ Committed' = Committed
    BY <2>1, <2>4, Zenon DEF Committed
  <2>19. TS!Put(c)
    BY <1>t, <2>4, <2>8, <2>10, <2>11, <2>16, <2>17, <2>18, Zenon DEF TS!Put, TS!TableNames
  <2> QED
    BY <2>19 DEF TS!Next
<1>9. CASE Restart
  <2>1. /\ UNCHANGED durable
        /\ \A c \in Conns : op'[c].stage = "ok" /\ tx'[c].pending = EmptyMap
    BY <1>9, <1>e DEF Restart, Idle
  <2>2. \A c \in Conns : \A t \in DOMAIN InitialDb.tables :
          Uncommitted(op'[c], tx'[c], t) = <<>>
    BY <1>e, <2>1 DEF Uncommitted
  <2>3. TS!Discard
    <3> DEFINE S == Conns
    <3>1. S \in SUBSET Conns
      OBVIOUS
    <3>2. \A c \in Conns : c \in S
      BY SMTT(30)
    <3> HIDE DEF S
    <3> QED
      BY <2>1, <2>2, <3>1, <3>2, Discards, Zenon
  <2> QED
    BY <2>3 DEF TS!Next
<1>10. ASSUME NEW c \in Conns PROVE ~ ApplyCreateTable(c) /\ ~ ApplyAlterTable(c)
  BY <1>o, Zenon DEF ApplyCreateTable, ApplyAlterTable, Runs
<1>11. CASE UNCHANGED vars
  <2>1. durable' = durable /\ op' = op /\ tx' = tx
    BY <1>11 DEF vars
  <2> QED
    BY <2>1, Unseen
<1>12. ASSUME NEW c \in Conns, Begin(c) PROVE [TS!Next]_(TS!vars)
  BY <1>1, <1>2, <1>3, <1>12, Zenon DEF Begin
<1>13. ASSUME NEW c \in Conns, Step(c) PROVE [TS!Next]_(TS!vars)
  BY <1>1, <1>4, <1>5, <1>6, <1>7, <1>8, <1>10, <1>13, Zenon DEF Step
<1> QED
  BY <1>9, <1>11, <1>12, <1>13 DEF Next

LEMMA RefineInitial ==
    ASSUME RowsOnly, Init
    PROVE  TS!Init
<1>1. /\ durable = InitialDb /\ \A c \in Conns : op[c].stage = "ok" /\ tx[c].pending = EmptyMap
  BY DEF Init, Idle, NoTx
<1>2. DOMAIN EmptyMap = {}
  BY DEF EmptyMap
<1>3. \A c \in Conns : \A t \in DOMAIN InitialDb.tables : Uncommitted(op[c], tx[c], t) = <<>>
  BY <1>1, <1>2 DEF Uncommitted
<1>4. Buffer = [c \in Conns |-> [t \in DOMAIN InitialDb.tables |-> <<>>]]
  BY <1>3, BufferIs
<1>5. \A t \in DOMAIN InitialDb.tables : TS!Fresh(InitialDb.tables[t].rows, t)
  BY SoundFresh DEF RowsOnly
<1>6. \A t \in DOMAIN InitialDb.tables : Committed[t] = InitialDb.tables[t].rows
  BY <1>1 DEF Committed
<1>7. DOMAIN TableKeys = DOMAIN InitialDb.tables
  BY DEF TableKeys
<1> QED
  BY <1>4, <1>5, <1>6, <1>7 DEF TS!Init, TS!TableNames

(* The engine implements TxStore: with locks, log, checks and applies as   *)
(* steps of their own, interleaved with those of other connections,        *)
(* failing appends and restarts, rows a transaction inserts still become   *)
(* committed all at once or not at all, with keys that are new, and what   *)
(* is committed is never lost.                                             *)
THEOREM EngineIsTxStore ==
    ASSUME RowsOnly
    PROVE  Spec => ImplementsTxStore
<1>1. Init => TS!Init
  BY RefineInitial
<1>2. /\ LockInv /\ DataInv /\ (LockInv /\ DataInv)' /\ [Next]_vars
      => [TS!Next]_(TS!vars)
  BY RefineStep
<1> QED
  BY <1>1, <1>2, LogAheadOfMemory, PTL DEF Spec, ImplementsTxStore, TS!Spec
===============================================================================
