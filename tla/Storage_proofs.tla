---------------------------- MODULE Storage_proofs ----------------------------
(***************************************************************************)
(* Proofs about module Storage.                                            *)
(***************************************************************************)
EXTENDS Storage, Tables_proofs

(* What is true of one connection, of which o is the statement, x the      *)
(* transaction and h the set of its locks: from lock_table on, the         *)
(* statement has the lock of its table; rows are only where their lock is; *)
(* rows are buffered in an open transaction only.                          *)
Owns(o, x, h) ==
    /\ DOMAIN o = {"stage", "stmt", "schema", "batch", "done"}
    /\ DOMAIN x = {"open", "pending"}
    /\ o.stage \in {"ok", "err"} /\ ~ x.open => h = {}
    /\ ~ x.open => x.pending = EmptyMap
    /\ DOMAIN x.pending \subseteq h
    /\ DOMAIN o.batch \subseteq h
    /\ o.stage \in {"schema", "bind", "buffer", "pending"} => o.stmt.table \in h
    /\ o.stage \in {"buffer", "pending"} => x.open

LockInv ==
    /\ DOMAIN op = Conns /\ DOMAIN tx = Conns /\ DOMAIN held = Conns
    /\ \A c \in Conns : Owns(op[c], tx[c], held[c])
    /\ \A c, d \in Conns : c # d => held[c] \cap held[d] = {}

(* A step of connection c leaves the others alone. *)
Only(c) ==
    /\ DOMAIN op' = Conns /\ DOMAIN tx' = Conns /\ DOMAIN held' = Conns
    /\ \A d \in Conns \ {c} : op'[d] = op[d] /\ tx'[d] = tx[d] /\ held'[d] = held[d]

-----------------------------------------------------------------------------
(* An answer releases the locks unless a transaction is open. *)
LEMMA AnswerOwns ==
    ASSUME LockInv, NEW c \in Conns, NEW result \in {"ok", "err"}, UNCHANGED tx, Answer(c, result)
    PROVE  Only(c) /\ Owns(op'[c], tx'[c], held'[c]) /\ held'[c] \subseteq held[c]
<1>1. DOMAIN EmptyMap = {}
  BY DEF EmptyMap
<1>2. /\ DOMAIN op' = Conns /\ DOMAIN held' = Conns /\ DOMAIN tx' = Conns
      /\ \A d \in Conns \ {c} : op'[d] = op[d] /\ held'[d] = held[d]
  BY DEF Answer, LockInv
<1>3. /\ DOMAIN op'[c] = {"stage", "stmt", "schema", "batch", "done"}
      /\ op'[c].stage = result /\ op'[c].batch = EmptyMap
  BY DEF Answer, LockInv, Owns
<1>4. held'[c] = IF tx[c].open THEN held[c] ELSE {}
  BY DEF Answer, LockInv
<1> QED
  BY <1>1, <1>2, <1>3, <1>4 DEF LockInv, Owns, Only

(* The steps of one connection leave the statements, transactions and      *)
(* locks of the others alone.                                              *)
Does(c, s) ==
    Insert(c, s) \/ Define(c, s) \/ EndByCommit(c, s) \/ Rollback(c, s) \/ Step(c)

LEMMA OnlyOne ==
    ASSUME LockInv, NEW c \in Conns, NEW s, Does(c, s)
    PROVE  Only(c)
<1>1. CASE Insert(c, s) \/ Define(c, s) \/ EndByCommit(c, s) \/ Rollback(c, s)
  BY <1>1 DEF Insert, Define, EndByCommit, Rollback, LockInv, Only
<1>2. CASE LockTable(c) \/ AppendLog(c) \/ ApplyRows(c)
  BY <1>2 DEF LockTable, AppendLog, ApplyRows, Stage, LockInv, Only
<1>3. CASE \E result \in {"ok", "err"} : UNCHANGED tx /\ Answer(c, result)
  BY <1>3, AnswerOwns, SMTT(30)
<1>4. CASE LockWaitTimeout(c) \/ AppendFails(c) \/ ApplyCreateTable(c) \/ ApplyAlterTable(c)
           \/ ApplyDatabase(c)
  BY <1>3, <1>4 DEF LockWaitTimeout, AppendFails, ApplyCreateTable, ApplyAlterTable, ApplyDatabase
<1>5. CASE TableSchema(c)
  BY <1>3, <1>5 DEF TableSchema, LockInv, Only
<1>6. CASE BindRow(c)
  <2>1. UNCHANGED tx /\ (Answer(c, "err") \/ \E o : op' = [op EXCEPT ![c] = o] /\ UNCHANGED held)
    BY <1>6, ZenonT(30) DEF BindRow
  <2> QED
    BY <1>3, <2>1 DEF LockInv, Only
<1>7. CASE BufferSchema(c)
  BY <1>3, <1>7, SMTT(30) DEF BufferSchema, LockInv, Only
<1>8. CASE BufferRow(c)
  BY <1>3, <1>8, Zenon DEF BufferRow, LockInv, Only
<1>9. CASE Check(c)
  BY <1>3, <1>9 DEF Check, Stage, LockInv, Only
<1> QED
  BY <1>1, <1>2, <1>4, <1>5, <1>6, <1>7, <1>8, <1>9 DEF Does, Step

(* The actions preserve the invariant. *)
LEMMA LockInductive ==
    ASSUME LockInv, [Next]_vars
    PROVE  LockInv'
<1>e. DOMAIN EmptyMap = {}
  BY DEF EmptyMap
<1>1. ASSUME NEW c \in Conns, NEW s, Does(c, s), Owns(op'[c], tx'[c], held'[c]),
             \A t \in held'[c] : t \in held[c] \/ \A d \in Conns : t \notin held[d]
      PROVE  LockInv'
  BY <1>1, OnlyOne DEF LockInv, Only
<1>a. ASSUME NEW c \in Conns, NEW s, Does(c, s),
             \E result \in {"ok", "err"} : UNCHANGED tx /\ Answer(c, result)
      PROVE  LockInv'
  BY <1>1, <1>a, AnswerOwns
<1>2. ASSUME NEW c \in Conns, NEW s, Insert(c, s) PROVE LockInv'
  <2>1. Owns(op'[c], tx'[c], held'[c]) /\ held'[c] = held[c]
    BY <1>2, <1>e DEF Insert, LockInv, Owns, Idle
  <2> QED
    BY <1>1, <1>2, <2>1 DEF Does
<1>3. ASSUME NEW c \in Conns, NEW s, Define(c, s) PROVE LockInv'
  <2>1. Owns(op'[c], tx'[c], held'[c]) /\ held'[c] = held[c]
    BY <1>3, <1>e DEF Define, LockInv, Owns, Idle, Ready
  <2> QED
    BY <1>1, <1>3, <2>1 DEF Does
<1>4. ASSUME NEW c \in Conns, NEW s, EndByCommit(c, s) PROVE LockInv'
  <2>1. CASE tx[c].pending # EmptyMap
    <3>1. /\ op'[c] = [Idle EXCEPT !.stmt = s, !.stage = "check", !.batch = tx[c].pending]
          /\ tx'[c] = NoTx /\ held'[c] = held[c]
      BY <1>4, <2>1 DEF EndByCommit, LockInv
    <3>2. Owns(op'[c], tx'[c], held'[c])
      BY <1>e, <3>1 DEF LockInv, Owns, Idle, NoTx
    <3> QED
      BY <1>1, <1>4, <3>1, <3>2 DEF Does
  <2>2. CASE tx[c].pending = EmptyMap
    <3>1. /\ op'[c] = [Idle EXCEPT !.stmt = s] /\ held'[c] = {}
          /\ tx'[c] = [NoTx EXCEPT !.open = s.op = "begin"]
      BY <1>4, <2>2 DEF EndByCommit, LockInv
    <3>2. Owns(op'[c], tx'[c], held'[c])
      BY <1>e, <3>1 DEF Owns, Idle, NoTx
    <3> QED
      BY <1>1, <1>4, <3>1, <3>2 DEF Does
  <2> QED
    BY <2>1, <2>2
<1>5. ASSUME NEW c \in Conns, NEW s, Rollback(c, s) PROVE LockInv'
  <2>1. Owns(op'[c], tx'[c], held'[c]) /\ held'[c] = {}
    BY <1>5, <1>e DEF Rollback, LockInv, Owns, Idle, NoTx
  <2> QED
    BY <1>1, <1>5, <2>1 DEF Does
<1>6. ASSUME NEW c \in Conns, LockTable(c) PROVE LockInv'
  <2>1. Owns(op'[c], tx'[c], held'[c]) /\ held'[c] = held[c] \cup {op[c].stmt.table}
    <3>1. /\ op'[c] = [op[c] EXCEPT !.stage = "schema"] /\ tx'[c] = tx[c]
          /\ held'[c] = held[c] \cup {op[c].stmt.table} /\ op[c].stage = "lock"
      BY <1>6 DEF LockTable, Stage, LockInv
    <3> QED
      BY <1>e, <3>1 DEF LockInv, Owns
  <2>2. \A t \in held'[c] : t \in held[c] \/ \A d \in Conns : t \notin held[d]
    BY <1>6, <2>1 DEF LockTable
  <2>3. Does(c, op[c].stmt)
    BY <1>6 DEF Does, Step
  <2> QED
    BY <1>1, <2>1, <2>2, <2>3
<1>7. ASSUME NEW c \in Conns, TableSchema(c) PROVE LockInv'
  <2>1. CASE ~ Answer(c, "err")
    <3>1. Owns(op'[c], tx'[c], held'[c]) /\ held'[c] = held[c]
      BY <1>7, <2>1 DEF TableSchema, LockInv, Owns
    <3> QED
      BY <1>1, <1>7, <3>1 DEF Does, Step
  <2> QED
    BY <1>a, <1>7, <2>1, Zenon DEF TableSchema, Does, Step
<1>8. ASSUME NEW c \in Conns, BindRow(c) PROVE LockInv'
  <2>1. CASE ~ Answer(c, "err")
    <3>1. PICK rows :
            /\ op' = [op EXCEPT ![c].batch[op[c].stmt.table] = rows,
                         ![c].stage = IF Len(rows) < Len(op[c].stmt.rows) THEN "bind"
                                      ELSE IF tx[c].open THEN "buffer" ELSE "check"]
            /\ UNCHANGED <<tx, held>>
      BY <1>8, <2>1, ZenonT(30) DEF BindRow
    <3>2. op[c].stage = "bind"
      BY <1>8, Zenon DEF BindRow
    <3>3. Owns(op'[c], tx'[c], held'[c]) /\ held'[c] = held[c]
      BY <3>1, <3>2 DEF LockInv, Owns
    <3> QED
      BY <1>1, <1>8, <3>3 DEF Does, Step
  <2> QED
    BY <1>a, <1>8, <2>1, Zenon DEF BindRow, Does, Step
<1>9. ASSUME NEW c \in Conns, BufferSchema(c) PROVE LockInv'
  <2>1. CASE ~ Answer(c, "err")
    <3>1. Owns(op'[c], tx'[c], held'[c]) /\ held'[c] = held[c]
      BY <1>9, <2>1 DEF BufferSchema, LockInv, Owns
    <3> QED
      BY <1>1, <1>9, <3>1, SMTT(30) DEF Does, Step
  <2> QED
    BY <1>a, <1>9, <2>1, Zenon DEF BufferSchema, Does, Step
<1>10. ASSUME NEW c \in Conns, BufferRow(c) PROVE LockInv'
  <2>1. CASE ~ (UNCHANGED tx /\ Answer(c, "err"))
    <3>1. PICK rows, stage :
            /\ tx' = [tx EXCEPT ![c].pending = Inserted(@, op[c].stmt.table, rows)]
            /\ op' = [op EXCEPT ![c].done = @ + 1, ![c].stage = stage]
            /\ stage \in {"buffer", "ok"}
            /\ UNCHANGED held
      BY <1>10, <2>1, Zenon DEF BufferRow
    <3>2. op[c].stage = "pending"
      BY <1>10, Zenon DEF BufferRow
    <3>3. Owns(op'[c], tx'[c], held'[c]) /\ held'[c] = held[c]
      BY <3>1, <3>2 DEF LockInv, Owns, Inserted
    <3> QED
      BY <1>1, <1>10, <3>3 DEF Does, Step
  <2> QED
    BY <1>a, <1>10, <2>1 DEF Does, Step
<1>11. ASSUME NEW c \in Conns, Check(c) PROVE LockInv'
  <2>1. CASE Checked(c)
    <3>1. Owns(op'[c], tx'[c], held'[c]) /\ held'[c] = held[c]
      BY <1>11, <2>1 DEF Check, Stage, LockInv, Owns
    <3> QED
      BY <1>1, <1>11, <3>1 DEF Does, Step
  <2> QED
    BY <1>a, <1>11, <2>1, Zenon DEF Check, Does, Step
<1>12. ASSUME NEW c \in Conns, AppendLog(c) PROVE LockInv'
  <2>1. Owns(op'[c], tx'[c], held'[c]) /\ held'[c] = held[c]
    BY <1>12 DEF AppendLog, Stage, LockInv, Owns
  <2> QED
    BY <1>1, <1>12, <2>1 DEF Does, Step
<1>13. ASSUME NEW c \in Conns, ApplyRows(c) PROVE LockInv'
  <2>1. Owns(op'[c], tx'[c], held'[c]) /\ held'[c] = {}
    BY <1>13, <1>e DEF ApplyRows, LockInv, Owns, Idle, NoTx
  <2> QED
    BY <1>1, <1>13, <2>1 DEF Does, Step
<1>14. ASSUME NEW c \in Conns,
              \/ LockWaitTimeout(c) \/ AppendFails(c)
              \/ ApplyCreateTable(c) \/ ApplyAlterTable(c) \/ ApplyDatabase(c)
       PROVE  LockInv'
  BY <1>14, <1>a, Zenon DEF LockWaitTimeout, AppendFails, ApplyCreateTable, ApplyAlterTable,
                     ApplyDatabase, Does, Step
<1>15. CASE Restart
  BY <1>15, <1>e, Zenon DEF Restart, LockInv, Owns, Idle, NoTx
<1>16. CASE UNCHANGED vars
  BY <1>16 DEF vars, LockInv
<1> QED
  BY <1>2, <1>3, <1>4, <1>5, <1>6, <1>7, <1>8, <1>9, <1>10, <1>11, <1>12, <1>13, <1>14, <1>15,
     <1>16 DEF Next, Begin, Step

(* Locks go with the transaction or the statement that took them, on every *)
(* way out (answers, timeouts, errors, commit, rollback, restart), rows    *)
(* that are not committed are in tables their connection has locked, and   *)
(* no table is locked twice: for any number of connections and whatever    *)
(* statements they send.                                                   *)
THEOREM LocksAlwaysMatchWork == Spec => []LocksMatchWork
<1>1. Init => LockInv
  BY DEF Init, LockInv, Owns, Idle, NoTx, EmptyMap
<1>2. LockInv /\ [Next]_vars => LockInv'
  BY LockInductive
<1>3. LockInv => LocksMatchWork
  BY SMTT(30) DEF LockInv, Owns, LocksMatchWork, Ready
<1> QED
  BY <1>1, <1>2, <1>3, PTL DEF Spec

-----------------------------------------------------------------------------
(* From here on no statement changes a table's schema, and an append that  *)
(* fails leaves nothing in the log.  The database found at startup is      *)
(* sound.                                                                  *)
RowsOnly ==
    /\ \A c \in Conns : \A s \in Statements[c] : s.op \notin {"createTable", "alterTable"}
    /\ "present" \notin LogErrors
    /\ DOMAIN InitialDb = {"tables", "databases"}
    /\ \A t \in DOMAIN InitialDb.tables : Sound(InitialDb.tables[t])

(* The statement of a connection and its transaction: inserts go through   *)
(* all stages, commits and the database statements through the last three, *)
(* and only the latter run inside a transaction.                           *)
Runs(o, x) ==
    /\ o.stage \in {"lock", "schema", "bind", "buffer", "pending"} => o.stmt.op = "insert"
    /\ o.stage \in {"bind", "buffer", "pending", "check", "log", "apply"} /\ o.stmt.op = "insert"
         => DOMAIN o.batch = {o.stmt.table}
    /\ o.stage \in {"check", "log", "apply"} =>
         \/ o.stmt.op \in {"insert", "begin", "commit"} /\ ~ x.open
         \/ o.stmt.op \in {"createDatabase", "dropDatabase"} /\ o.batch = EmptyMap

(* Its rows and the tables ts: what is pending could be inserted, and so   *)
(* could a batch that was pending or has been checked.                     *)
Fits(o, x, ts) ==
    /\ \A t \in DOMAIN o.batch : IsSeq(o.batch[t])
    /\ \A t \in DOMAIN x.pending :
         IsSeq(x.pending[t]) /\ t \in DOMAIN ts /\ CheckInsertable(ts[t], x.pending[t])
    /\ \/ o.stage \in {"log", "apply"}
       \/ o.stage = "check" /\ o.stmt.op \in {"begin", "commit"}
       => \A t \in DOMAIN o.batch : t \in DOMAIN ts /\ CheckInsertable(ts[t], o.batch[t])
    /\ o.stage = "pending" =>
         /\ o.stmt.table \in DOMAIN ts
         /\ o.schema.columns = ts[o.stmt.table].columns
         /\ o.schema.primary_key = ts[o.stmt.table].primary_key
         /\ Len(o.batch[o.stmt.table][o.done + 1]) = Len(ts[o.stmt.table].columns)

(* The rows for table t are in the log and not yet in memory. *)
Pushes(o, t) == o.stage = "apply" /\ t \in DOMAIN o.batch

(* The log is ahead of memory by the batch between append and apply, if    *)
(* there is one, and by nothing else.                                      *)
Ahead(t) ==
    \/ \E c \in Conns : /\ Pushes(op[c], t)
                        /\ Same(durable.tables[t], PushTrusted(tables[t], op[c].batch[t]))
    \/ /\ \A c \in Conns : ~ Pushes(op[c], t)
       /\ Same(durable.tables[t], tables[t])

DataInv ==
    /\ DOMAIN durable = {"tables", "databases"}
    /\ DOMAIN tables = DOMAIN InitialDb.tables /\ DOMAIN durable.tables = DOMAIN InitialDb.tables
    /\ \A t \in DOMAIN tables :
         /\ Sound(tables[t])
         /\ tables[t].columns = InitialDb.tables[t].columns
         /\ tables[t].primary_key = InitialDb.tables[t].primary_key
         /\ Ahead(t)
    /\ \A c \in Conns : Runs(op[c], tx[c]) /\ Fits(op[c], tx[c], tables)

(* Rows keep fitting the tables that keep their content. *)
LEMMA FitsKept ==
    ASSUME NEW o, NEW x, NEW h, NEW ts, NEW us, Owns(o, x, h), Runs(o, x), Fits(o, x, ts),
           DOMAIN us = DOMAIN ts, \A t \in DOMAIN ts : t \in h => Same(ts[t], us[t])
    PROVE  Fits(o, x, us)
<1>1. \A t \in DOMAIN ts : t \in h =>
        \A rows : CheckInsertable(ts[t], rows) <=> CheckInsertable(us[t], rows)
  BY SameInsertable
<1>2. \A t \in DOMAIN ts : t \in h =>
        ts[t].columns = us[t].columns /\ ts[t].primary_key = us[t].primary_key
  BY SMTT(30) DEF Same
<1> QED
  BY <1>1, <1>2, Zenon DEF Fits, Owns

(* An answered statement has no rows; what is pending stays. *)
LEMMA AnswerFits ==
    ASSUME LockInv, NEW c \in Conns, NEW result \in {"ok", "err"}, UNCHANGED tx, Answer(c, result),
           Fits(op[c], tx[c], tables)
    PROVE  /\ Runs(op'[c], tx'[c]) /\ Fits(op'[c], tx'[c], tables)
           /\ \A t : ~ Pushes(op'[c], t)
<1>1. DOMAIN EmptyMap = {}
  BY DEF EmptyMap
<1>2. op'[c].stage = result /\ op'[c].batch = EmptyMap
  BY DEF Answer, LockInv, Owns
<1> QED
  BY <1>1, <1>2, Zenon DEF Runs, Fits, Pushes

(* The steps of a connection that change neither the tables nor the log. *)
LEMMA QuietStep ==
    ASSUME RowsOnly, LockInv, DataInv, NEW c \in Conns, NEW s,
           \/ s \in Statements[c] /\ (\/ Insert(c, s) \/ Define(c, s)
                                      \/ EndByCommit(c, s) \/ Rollback(c, s))
           \/ LockTable(c) \/ LockWaitTimeout(c) \/ TableSchema(c)
           \/ BufferSchema(c) \/ BufferRow(c) \/ Check(c) \/ AppendFails(c) \/ ApplyDatabase(c)
    PROVE  /\ UNCHANGED <<tables, durable>>
           /\ Runs(op'[c], tx'[c]) /\ Fits(op'[c], tx'[c], tables)
           /\ \A t : ~ Pushes(op[c], t) /\ ~ Pushes(op'[c], t)
<1> DEFINE Goal == /\ UNCHANGED <<tables, durable>>
                   /\ Runs(op'[c], tx'[c]) /\ Fits(op'[c], tx'[c], tables)
                   /\ \A t : ~ Pushes(op[c], t) /\ ~ Pushes(op'[c], t)
<1>e. DOMAIN EmptyMap = {}
  BY SMTT(30) DEF EmptyMap
<1>o. /\ Owns(op[c], tx[c], held[c]) /\ Runs(op[c], tx[c]) /\ Fits(op[c], tx[c], tables)
      /\ DOMAIN op = Conns /\ DOMAIN tx = Conns
  BY Zenon DEF LockInv, DataInv
<1>a. ASSUME \E result \in {"ok", "err"} : UNCHANGED tx /\ Answer(c, result),
             UNCHANGED <<tables, durable>>, \A t : ~ Pushes(op[c], t)
      PROVE  Goal
  BY <1>a, <1>o, AnswerFits, Zenon
<1>1. CASE Insert(c, s)
  <2>1. op'[c].stage \in {"schema", "lock"} /\ op'[c].stmt = s /\ op'[c].batch = EmptyMap
    BY <1>1, <1>o, SMTT(30) DEF Insert, Idle
  <2> QED
    BY <1>1, <1>e, <1>o, <2>1, Zenon DEF Insert, Ready, Runs, Fits, Pushes
<1>2. CASE s \in Statements[c] /\ Define(c, s)
  <2>1. /\ op'[c].stage \in {"check", "err"} /\ op'[c].stmt = s /\ op'[c].batch = EmptyMap
        /\ s.op \in {"createDatabase", "dropDatabase"}
    BY <1>2, <1>o, SMTT(30) DEF Define, Idle, RowsOnly, Translated
  <2> QED
    BY <1>2, <1>e, <1>o, <2>1, Zenon DEF Define, Ready, Runs, Fits, Pushes
<1>3. CASE EndByCommit(c, s)
  <2>1. CASE tx[c].pending # EmptyMap
    <3>1. op'[c].stage = "check" /\ op'[c].stmt = s /\ op'[c].batch = tx[c].pending
      BY <1>3, <1>o, <2>1, Zenon DEF EndByCommit, Idle
    <3>2. tx'[c].pending = EmptyMap /\ ~ tx'[c].open /\ s.op \in {"begin", "commit"}
      BY <1>3, <1>o, <2>1, SMTT(30) DEF EndByCommit, NoTx
    <3> QED
      BY <1>3, <1>e, <1>o, <3>1, <3>2, Zenon DEF EndByCommit, Ready, Runs, Fits, Pushes
  <2>2. CASE tx[c].pending = EmptyMap
    <3>1. op'[c].stage = "ok" /\ op'[c].batch = EmptyMap /\ tx'[c].pending = EmptyMap
      BY <1>3, <1>o, <2>2, SMTT(30) DEF EndByCommit, Idle, NoTx
    <3> QED
      BY <1>3, <1>e, <1>o, <3>1, Zenon DEF EndByCommit, Ready, Runs, Fits, Pushes
  <2> QED
    BY <2>1, <2>2, Zenon
<1>4. CASE Rollback(c, s)
  <2>1. op'[c].stage = "ok" /\ op'[c].batch = EmptyMap /\ tx'[c].pending = EmptyMap
    BY <1>4, <1>o, SMTT(30) DEF Rollback, Idle, NoTx
  <2> QED
    BY <1>4, <1>e, <1>o, <2>1, Zenon DEF Rollback, Ready, Runs, Fits, Pushes
<1>5. CASE LockTable(c)
  BY <1>5, <1>o, Zenon DEF LockTable, Stage, Owns, Runs, Fits, Pushes
<1>6. CASE LockWaitTimeout(c)
  BY <1>6, <1>a, Zenon DEF LockWaitTimeout, Pushes
<1>7. CASE TableSchema(c)
  <2>1. CASE ~ Answer(c, "err")
    <3> DEFINE t == op[c].stmt.table
    <3>0. /\ op[c].stage = "schema" /\ UNCHANGED <<tables, durable, tx>>
          /\ \E schema : op' = [op EXCEPT ![c].stage = "bind", ![c].batch = [x \in {t} |-> <<>>],
                                          ![c].schema = schema]
      BY <1>7, <2>1, Zenon DEF TableSchema
    <3>1. /\ op'[c].stage = "bind" /\ op'[c].batch = [y \in {t} |-> <<>>]
          /\ op'[c].stmt = op[c].stmt /\ op[c].stage = "schema"
          /\ UNCHANGED <<tables, durable, tx>>
      BY <1>o, <3>0 DEF Owns
    <3>2. DOMAIN op'[c].batch = {t} /\ op'[c].batch[t] = <<>>
      BY <3>1, Zenon
    <3> QED
      BY <1>o, <3>1, <3>2, SeqEmpty, Zenon DEF Runs, Fits, Pushes
  <2> QED
    BY <1>7, <1>a, <2>1, Zenon DEF TableSchema, Pushes
<1>8. CASE BufferSchema(c)
  <2>1. CASE ~ Answer(c, "err")
    <3> DEFINE t == op[c].stmt.table
    <3>1. /\ op' = [op EXCEPT ![c].stage = "pending",
                       ![c].schema = [columns |-> tables[t].columns,
                                      primary_key |-> tables[t].primary_key]]
          /\ t \in DOMAIN tables /\ Len(op[c].batch[t][op[c].done + 1]) = Len(tables[t].columns)
          /\ op[c].stage = "buffer" /\ UNCHANGED <<tables, durable, tx>>
      BY <1>8, <2>1, ZenonT(30) DEF BufferSchema
    <3>2. /\ op'[c].stage = "pending" /\ op'[c].batch = op[c].batch /\ op'[c].done = op[c].done
          /\ op'[c].stmt = op[c].stmt
          /\ op'[c].schema.columns = tables[t].columns
          /\ op'[c].schema.primary_key = tables[t].primary_key
      BY <1>o, <3>1, Zenon DEF Owns
    <3> QED
      BY <1>o, <3>1, <3>2, ZenonT(30) DEF Runs, Fits, Pushes
  <2> QED
    BY <1>8, <1>a, <2>1, Zenon DEF BufferSchema, Pushes
<1>9. CASE BufferRow(c)
  <2>1. CASE ~ (UNCHANGED tx /\ Answer(c, "err"))
    <3> DEFINE t       == op[c].stmt.table
               row     == op[c].batch[t][op[c].done + 1]
               key     == KeyPos(op[c].schema)
               pending == IF t \in DOMAIN tx[c].pending THEN tx[c].pending[t] ELSE <<>>
    <3>1. /\ op[c].stage = "pending" /\ UNCHANGED <<tables, durable>>
          /\ key # 0 => /\ row[key] \notin DOMAIN tables[t].index
                        /\ \A i \in DOMAIN pending : Cell(pending[i], key) # row[key]
          /\ tx' = [tx EXCEPT ![c].pending = Inserted(@, t, Append(pending, row))]
      BY <1>9, <2>1, Zenon DEF BufferRow
    <3>2. op'[c].stage \in {"buffer", "ok"} /\ op'[c].batch = op[c].batch /\ op'[c].stmt = op[c].stmt
      <4>1. PICK stage \in {"buffer", "ok"} :
              op' = [op EXCEPT ![c].done = @ + 1, ![c].stage = stage]
        BY <1>9, <2>1, Zenon DEF BufferRow
      <4> QED
        BY <1>o, <4>1 DEF Owns
    <3>3. /\ tx'[c].open = tx[c].open /\ DOMAIN tx'[c].pending = DOMAIN tx[c].pending \cup {t}
          /\ tx'[c].pending[t] = Append(pending, row)
          /\ \A u \in DOMAIN tx[c].pending : u # t => tx'[c].pending[u] = tx[c].pending[u]
      BY <1>o, <3>1, Zenon DEF Owns, Inserted
    <3>4. t \in DOMAIN tables /\ key = KeyPos(tables[t]) /\ Len(row) = Len(tables[t].columns)
      BY <1>o, <3>1, Zenon DEF Fits, KeyPos
    <3>5. IsSeq(pending) /\ CheckInsertable(tables[t], pending) /\ Sound(tables[t])
      <4>1. CheckInsertable(tables[t], <<>>)
        BY SeqEmpty, SMTT(30) DEF CheckInsertable
      <4> QED
        BY <1>o, <3>4, <4>1, SeqEmpty, Zenon DEF Fits, DataInv
    <3> HIDE DEF pending, row, key
    <3>6. CheckInsertable(tables[t], Append(pending, row)) /\ IsSeq(Append(pending, row))
      BY <3>1, <3>4, <3>5, AppendInsertable, SeqAppend, Zenon
    <3>7. Runs(op'[c], tx'[c])
      BY <1>o, <3>1, <3>2 DEF Runs
    <3>8. Fits(op'[c], tx'[c], tables)
      BY <1>o, <3>2, <3>3, <3>4, <3>6, ZenonT(30) DEF Fits
    <3> QED
      BY <3>1, <3>2, <3>7, <3>8 DEF Pushes
  <2> QED
    BY <1>9, <1>a, <2>1, Zenon DEF BufferRow, Pushes
<1>10. CASE Check(c)
  <2>1. CASE Checked(c)
    <3>1. /\ op'[c].stage = "log" /\ op'[c].stmt = op[c].stmt /\ op'[c].batch = op[c].batch
          /\ op[c].stage = "check" /\ UNCHANGED <<tables, durable, tx>>
      BY <1>10, <1>o, <2>1 DEF Check, Stage, Owns
    <3>2. \A t \in DOMAIN op[c].batch : t \in DOMAIN tables /\ CheckInsertable(tables[t], op[c].batch[t])
      BY <1>e, <1>o, <2>1, <3>1, ZenonT(30) DEF Checked, Insertable, Runs
    <3> QED
      BY <1>o, <3>1, <3>2, Zenon DEF Runs, Fits, Pushes
  <2> QED
    BY <1>10, <1>a, <2>1, Zenon DEF Check, Pushes
<1>11. CASE AppendFails(c)
  BY <1>11, <1>a, Zenon DEF AppendFails, Pushes, RowsOnly
<1>12. CASE ApplyDatabase(c)
  <2>1. \A t : ~ Pushes(op[c], t)
    BY <1>12, <1>e, <1>o, Zenon DEF ApplyDatabase, Runs, Pushes
  <2> QED
    BY <1>12, <1>a, <2>1, Zenon DEF ApplyDatabase
<1> QED
  BY <1>1, <1>2, <1>3, <1>4, <1>5, <1>6, <1>7, <1>8, <1>9, <1>10, <1>11, <1>12, Zenon

(* What the log rebuilds once the record of the statement is in it. *)
LEMMA EntryApplied ==
    ASSUME LockInv, DataInv, NEW c \in Conns, op[c].stage = "log", NEW db,
           db = ApplyEntry(durable, Entry(c))
    PROVE  /\ DOMAIN db = {"tables", "databases"} /\ DOMAIN db.tables = DOMAIN durable.tables
           /\ \A t \in DOMAIN durable.tables :
                db.tables[t] = IF t \in DOMAIN op[c].batch
                                 THEN PushTrusted(durable.tables[t], op[c].batch[t])
                                 ELSE durable.tables[t]
<1>o. Runs(op[c], tx[c]) /\ DOMAIN durable = {"tables", "databases"}
  BY Zenon DEF DataInv
<1>1. CASE op[c].stmt.op \in {"insert", "begin", "commit"}
  <2>1. Entry(c) = [kind |-> "Transaction", rows |-> op[c].batch]
    BY <1>1 DEF Entry
  <2>2. db = [durable EXCEPT !.tables = PushInto(@, op[c].batch)]
    BY <2>1 DEF ApplyEntry
  <2> QED
    BY <1>o, <2>2 DEF PushInto
<1>2. CASE op[c].stmt.op \in {"createDatabase", "dropDatabase"} /\ op[c].batch = EmptyMap
  <2>1. DOMAIN op[c].batch = {}
    BY <1>2 DEF EmptyMap
  <2>2. \/ db = [durable EXCEPT !.databases = @ \cup {op[c].stmt.name}]
        \/ db = [durable EXCEPT !.databases = @ \ {op[c].stmt.name}]
    BY <1>2, ZenonT(30) DEF Entry, ApplyEntry
  <2> QED
    BY <1>o, <2>1, <2>2, SMTT(30)
<1> QED
  BY <1>1, <1>2, <1>o, Zenon DEF Runs

(* The table with the rows in flight, if there are any, is what the log    *)
(* has of it.                                                              *)
LEMMA DurableSound ==
    ASSUME LockInv, DataInv, NEW t \in DOMAIN tables
    PROVE  /\ Sound(durable.tables[t])
           /\ durable.tables[t].columns = InitialDb.tables[t].columns
           /\ durable.tables[t].primary_key = InitialDb.tables[t].primary_key
<1>1. /\ Sound(tables[t]) /\ Ahead(t)
      /\ tables[t].columns = InitialDb.tables[t].columns
      /\ tables[t].primary_key = InitialDb.tables[t].primary_key
  BY DEF DataInv
<1>2. CASE Same(durable.tables[t], tables[t])
  <2>1. Same(tables[t], durable.tables[t])
    BY <1>2, SMTT(30) DEF Same
  <2> QED
    BY <1>1, <1>2, <2>1, SameSound, Zenon DEF Same
<1>3. ASSUME NEW c \in Conns, Pushes(op[c], t),
             Same(durable.tables[t], PushTrusted(tables[t], op[c].batch[t]))
      PROVE  /\ Sound(durable.tables[t])
             /\ durable.tables[t].columns = tables[t].columns
             /\ durable.tables[t].primary_key = tables[t].primary_key
  <2> DEFINE rows == op[c].batch[t]
             p == PushTrusted(tables[t], rows)
  <2>1. IsSeq(rows) /\ CheckInsertable(tables[t], rows)
    BY <1>3, Zenon DEF DataInv, Fits, Pushes
  <2>2. Sound(p) /\ p.columns = tables[t].columns /\ p.primary_key = tables[t].primary_key
    <3> HIDE DEF rows
    <3>1. Sound(PushTrusted(tables[t], rows))
      BY <1>1, <2>1, PushSound, SMTT(30)
    <3> QED
      BY <1>1, <3>1, PushFields, ZenonT(30) DEF Sound
  <2> HIDE DEF p
  <2>3. Same(durable.tables[t], p) /\ Same(p, durable.tables[t])
    BY <1>3, Zenon DEF p, Same
  <2> QED
    BY <2>2, <2>3, SameSound, SMTT(30) DEF Same
<1> QED
  BY <1>1, <1>2, <1>3, Zenon DEF Ahead

(* The actions preserve the invariant. *)
LEMMA DataInductive ==
    ASSUME RowsOnly, LockInv, LockInv', DataInv, [Next]_vars
    PROVE  DataInv'
<1>o. \A c \in Conns : Owns(op[c], tx[c], held[c]) /\ Runs(op[c], tx[c]) /\ Fits(op[c], tx[c], tables)
  BY Zenon DEF LockInv, DataInv
<1>1. ASSUME NEW c \in Conns, NEW s,
             \/ s \in Statements[c] /\ (\/ Insert(c, s) \/ Define(c, s)
                                        \/ EndByCommit(c, s) \/ Rollback(c, s))
             \/ LockTable(c) \/ LockWaitTimeout(c) \/ TableSchema(c)
             \/ BufferSchema(c) \/ BufferRow(c) \/ Check(c) \/ AppendFails(c) \/ ApplyDatabase(c)
      PROVE  DataInv'
  <2>1. /\ UNCHANGED <<tables, durable>>
        /\ Runs(op'[c], tx'[c]) /\ Fits(op'[c], tx'[c], tables)
        /\ \A t : ~ Pushes(op[c], t) /\ ~ Pushes(op'[c], t)
    BY <1>1, QuietStep, Zenon
  <2>2. \A d \in Conns \ {c} : op'[d] = op[d] /\ tx'[d] = tx[d]
    BY <1>1, OnlyOne, Zenon DEF Does, Step, Only
  <2>3. \A t \in DOMAIN tables : Ahead(t)'
    BY <2>1, <2>2, Zenon DEF DataInv, Ahead
  <2>4. \A d \in Conns : Runs(op'[d], tx'[d]) /\ Fits(op'[d], tx'[d], tables')
    BY <1>o, <2>1, <2>2, Zenon
  <2> QED
    BY <2>1, <2>3, <2>4, Zenon DEF DataInv
<1>2. ASSUME NEW c \in Conns, AppendLog(c) PROVE DataInv'
  <2> DEFINE batch == op[c].batch
  <2>1. /\ op[c].stage = "log" /\ durable' = ApplyEntry(durable, Entry(c))
        /\ UNCHANGED <<tables, tx>>
    BY <1>2 DEF AppendLog
  <2>2. op'[c].stage = "apply" /\ op'[c].batch = batch /\ op'[c].stmt = op[c].stmt
    BY <1>2, <1>o, SMTT(30) DEF AppendLog, Stage, LockInv, Owns
  <2>3. \A d \in Conns \ {c} : op'[d] = op[d]
    BY <1>2, OnlyOne, Zenon DEF Does, Step, Only
  <2>4. /\ DOMAIN durable' = {"tables", "databases"} /\ DOMAIN durable'.tables = DOMAIN durable.tables
        /\ \A t \in DOMAIN durable.tables :
             durable'.tables[t] = IF t \in DOMAIN batch
                                    THEN PushTrusted(durable.tables[t], batch[t])
                                    ELSE durable.tables[t]
    BY <2>1, EntryApplied
  <2>5. ASSUME NEW t \in DOMAIN tables PROVE Ahead(t)'
    <3>1. t \in DOMAIN durable.tables /\ Ahead(t)
      BY SMTT(30) DEF DataInv
    <3>2. CASE t \in DOMAIN batch
      <4>1. \A d \in Conns : ~ Pushes(op[d], t)
        BY <1>o, <2>1, <3>2, Zenon DEF LockInv, Owns, Pushes
      <4>2. Same(durable.tables[t], tables[t])
        BY <3>1, <4>1, SMTT(30) DEF Ahead
      <4>3. Same(durable'.tables[t], PushTrusted(tables[t], batch[t]))
        BY <2>4, <3>1, <3>2, <4>2, PushSame, SMTT(30)
      <4> QED
        BY <2>1, <2>2, <3>2, <4>3, Zenon DEF Ahead, Pushes
    <3>3. CASE t \notin DOMAIN batch
      <4>1. durable'.tables[t] = durable.tables[t]
        BY <2>4, <3>1, <3>3
      <4>2. ~ Pushes(op[c], t) /\ ~ Pushes(op'[c], t)
        BY <2>1, <2>2, <3>3 DEF Pushes
      <4> QED
        BY <2>1, <2>3, <3>1, <4>1, <4>2, Zenon DEF Ahead
    <3> QED
      BY <3>2, <3>3
  <2>6. Runs(op'[c], tx'[c]) /\ Fits(op'[c], tx'[c], tables')
    BY <1>o, <2>1, <2>2, ZenonT(30) DEF Runs, Fits
  <2>7. \A d \in Conns : Runs(op'[d], tx'[d]) /\ Fits(op'[d], tx'[d], tables')
    BY <1>o, <2>1, <2>3, <2>6, Zenon
  <2> QED
    BY <2>1, <2>4, <2>5, <2>7, Zenon DEF DataInv
<1>3. ASSUME NEW c \in Conns, ApplyRows(c) PROVE DataInv'
  <2> DEFINE batch == op[c].batch
  <2>1. /\ op[c].stage = "apply" /\ tables' = PushInto(tables, batch) /\ UNCHANGED durable
        /\ op'[c].stage = "ok" /\ op'[c].batch = EmptyMap /\ tx'[c].pending = EmptyMap
    BY <1>3 DEF ApplyRows, LockInv, Idle, NoTx
  <2>2. DOMAIN EmptyMap = {}
    BY SMTT(30) DEF EmptyMap
  <2>3. \A d \in Conns \ {c} : op'[d] = op[d] /\ tx'[d] = tx[d]
    BY <1>3, OnlyOne, Zenon DEF Does, Step, Only
  <2>4. /\ DOMAIN tables' = DOMAIN tables
        /\ \A t \in DOMAIN tables :
             tables'[t] = IF t \in DOMAIN batch THEN PushTrusted(tables[t], batch[t]) ELSE tables[t]
    BY <2>1 DEF PushInto
  <2>5. ASSUME NEW t \in DOMAIN tables
        PROVE  /\ Sound(tables'[t]) /\ Ahead(t)'
               /\ tables'[t].columns = tables[t].columns
               /\ tables'[t].primary_key = tables[t].primary_key
    <3>1. Sound(tables[t]) /\ Ahead(t)
      BY SMTT(30) DEF DataInv
    <3>2. CASE t \in DOMAIN batch
      <4>1. \A d \in Conns : Pushes(op[d], t) <=> d = c
        BY <1>o, <2>1, <3>2, Zenon DEF LockInv, Owns, Pushes
      <4>2. IsSeq(batch[t]) /\ CheckInsertable(tables[t], batch[t])
        BY <1>o, <2>1, <3>2, ZenonT(30) DEF Fits
      <4>3. tables'[t] = PushTrusted(tables[t], batch[t])
        BY <2>4, <3>2, SMTT(30)
      <4>7. Sound(tables'[t])
        BY <3>1, <4>2, <4>3, PushSound, SMTT(30)
      <4>4. /\ tables'[t].columns = tables[t].columns
            /\ tables'[t].primary_key = tables[t].primary_key
        <5>1. DOMAIN tables[t] = {"columns", "primary_key", "rows", "index", "next"}
          BY <3>1, Zenon DEF Sound
        <5> QED
          BY <4>3, <5>1, PushFields, SMTT(30)
      <4>5. Same(durable'.tables[t], tables'[t])
        BY <2>1, <3>1, <4>1, <4>3, Zenon DEF Ahead
      <4>6. \A d \in Conns : ~ Pushes(op'[d], t)
        BY <2>1, <2>3, <4>1, SMTT(30) DEF Pushes
      <4> QED
        BY <4>4, <4>5, <4>6, <4>7, SMTT(30) DEF Ahead
    <3>3. CASE t \notin DOMAIN batch
      <4>1. tables'[t] = tables[t]
        BY <2>4, <3>3
      <4>2. ~ Pushes(op[c], t) /\ ~ Pushes(op'[c], t)
        BY <2>1, <3>3, SMTT(30) DEF Pushes
      <4> QED
        BY <2>1, <2>3, <3>1, <4>1, <4>2, Zenon DEF Ahead
    <3> QED
      BY <3>2, <3>3, SMTT(30)
  <2>6. ASSUME NEW d \in Conns \ {c} PROVE Fits(op[d], tx[d], tables')
    <3>1. \A t \in DOMAIN tables : t \in held[d] => t \notin DOMAIN batch
      BY <1>o, Zenon DEF LockInv, Owns
    <3>2. \A t \in DOMAIN tables : t \in held[d] => Same(tables[t], tables'[t])
      BY <2>4, <3>1, SameSelf, Zenon DEF DataInv
    <3> QED
      BY <1>o, <2>4, <3>2, FitsKept, Zenon
  <2>7. Runs(op'[c], tx'[c]) /\ Fits(op'[c], tx'[c], tables')
    BY <2>1, <2>2, Zenon DEF Runs, Fits
  <2>8. \A d \in Conns : Runs(op'[d], tx'[d]) /\ Fits(op'[d], tx'[d], tables')
    BY <1>o, <2>3, <2>6, <2>7, Zenon
  <2> QED
    BY <2>1, <2>4, <2>5, <2>8, ZenonT(30) DEF DataInv
<1>4. ASSUME NEW c \in Conns, BindRow(c) PROVE DataInv'
  <2>1. \A d \in Conns \ {c} : op'[d] = op[d] /\ tx'[d] = tx[d]
    BY <1>4, OnlyOne, ZenonT(30) DEF Does, Step, Only
  <2>2. op[c].stage = "bind" /\ UNCHANGED <<durable, tx>>
    BY <1>4, Zenon DEF BindRow
  <2>3. UNCHANGED tables \/ \E n : tables' = [tables EXCEPT ![op[c].stmt.table].next = n]
    BY <1>4, Zenon DEF BindRow
  <2>4. /\ DOMAIN tables' = DOMAIN tables
        /\ \A t \in DOMAIN tables : Same(tables[t], tables'[t])
    <3>1. \A t \in DOMAIN tables : DOMAIN tables[t] = {"columns", "primary_key", "rows", "index", "next"}
      BY ZenonT(30) DEF DataInv, Sound
    <3>2. CASE UNCHANGED tables
      BY <3>1, <3>2, SMTT(30) DEF Same
    <3>3. ASSUME NEW n, tables' = [tables EXCEPT ![op[c].stmt.table].next = n]
          PROVE  /\ DOMAIN tables' = DOMAIN tables
                 /\ \A t \in DOMAIN tables : Same(tables[t], tables'[t])
      <4>1. ASSUME NEW t \in DOMAIN tables, t = op[c].stmt.table PROVE Same(tables[t], tables'[t])
        <5>1. tables'[t] = [tables[t] EXCEPT !.next = n]
          BY <3>3, <4>1
        <5> QED
          BY <3>1, <5>1 DEF Same
      <4>2. ASSUME NEW t \in DOMAIN tables, t # op[c].stmt.table PROVE Same(tables[t], tables'[t])
        <5>1. tables'[t] = tables[t]
          BY <3>3, <4>2
        <5> QED
          BY <3>1, <5>1 DEF Same
      <4> QED
        BY <3>3, <4>1, <4>2, Zenon
    <3> QED
      BY <2>3, <3>2, <3>3, ZenonT(30)
  <2>5. /\ Runs(op'[c], tx'[c]) /\ Fits(op'[c], tx'[c], tables)
        /\ \A t : ~ Pushes(op[c], t) /\ ~ Pushes(op'[c], t)
    <3>1. CASE Answer(c, "err")
      BY <1>o, <2>2, <3>1, AnswerFits, Zenon DEF Pushes
    <3>2. CASE ~ Answer(c, "err")
      <4> DEFINE t == op[c].stmt.table
      <4>1. PICK row :
              op' = [op EXCEPT ![c].batch[t] = Append(op[c].batch[t], row),
                       ![c].stage = IF Len(Append(op[c].batch[t], row)) < Len(op[c].stmt.rows)
                                      THEN "bind" ELSE IF tx[c].open THEN "buffer" ELSE "check"]
        BY <1>4, <3>2, ZenonT(30) DEF BindRow
      <4>2. DOMAIN op[c].batch = {t} /\ IsSeq(op[c].batch[t]) /\ op[c].stmt.op = "insert"
        BY <1>o, <2>2, ZenonT(30) DEF Runs, Fits
      <4>3. /\ op'[c].stage \in {"bind", "buffer", "check"} /\ op'[c].stmt = op[c].stmt
            /\ op'[c].stage = "check" => ~ tx[c].open
            /\ DOMAIN op'[c].batch = {t} /\ op'[c].batch[t] = Append(op[c].batch[t], row)
        <5> DEFINE rows  == Append(op[c].batch[t], row)
                   stage == IF Len(rows) < Len(op[c].stmt.rows)
                              THEN "bind" ELSE IF tx[c].open THEN "buffer" ELSE "check"
        <5>1. op' = [op EXCEPT ![c].batch[t] = rows, ![c].stage = stage]
          BY <4>1, ZenonT(30)
        <5>2. stage \in {"bind", "buffer", "check"} /\ (stage = "check" => ~ tx[c].open)
          OBVIOUS
        <5> HIDE DEF rows, stage
        <5>3. op'[c] = [op[c] EXCEPT !.batch[t] = rows, !.stage = stage]
          BY <1>o, <5>1 DEF LockInv
        <5>4. /\ op'[c].stage = stage /\ op'[c].stmt = op[c].stmt
              /\ op'[c].batch = [op[c].batch EXCEPT ![t] = rows]
          BY <1>o, <5>3 DEF Owns
        <5> QED
          BY <4>2, <5>2, <5>4, Zenon DEF rows
      <4>4. IsSeq(op'[c].batch[t])
        <5>1. IsSeq(Append(op[c].batch[t], row))
          BY <4>2, SeqAppend, SMTT(30)
        <5> QED
          BY <4>3, <5>1, Zenon
      <4> QED
        BY <1>o, <2>2, <4>2, <4>3, <4>4, Zenon DEF Runs, Fits, Pushes
    <3> QED
      BY <3>1, <3>2, SMTT(30)
  <2>6. \A d \in Conns : Runs(op'[d], tx'[d]) /\ Fits(op'[d], tx'[d], tables)
    BY <1>o, <2>1, <2>5, Zenon
  <2>7. ASSUME NEW d \in Conns PROVE Fits(op'[d], tx'[d], tables')
    <3>1. Owns(op'[d], tx'[d], held'[d])
      BY Zenon DEF LockInv
    <3> QED
      BY <2>4, <2>6, <3>1, FitsKept, Zenon
  <2>8. ASSUME NEW t \in DOMAIN tables
        PROVE  /\ Sound(tables'[t]) /\ Ahead(t)'
               /\ tables'[t].columns = tables[t].columns
               /\ tables'[t].primary_key = tables[t].primary_key
    <3>1. Sound(tables[t]) /\ Ahead(t) /\ Same(tables[t], tables'[t])
      BY <2>4, Zenon DEF DataInv
    <3>2. ASSUME \A d \in Conns : ~ Pushes(op[d], t), Same(durable.tables[t], tables[t])
          PROVE  Ahead(t)'
      <4>1. Same(durable'.tables[t], tables'[t])
        BY <2>2, <3>1, <3>2, SameTrans, Zenon
      <4>2. \A d \in Conns : ~ Pushes(op'[d], t)
        BY <2>1, <2>5, <3>2, Zenon
      <4> QED
        BY <4>1, <4>2, ZenonT(30) DEF Ahead
    <3>3. ASSUME NEW d \in Conns, Pushes(op[d], t),
                 Same(durable.tables[t], PushTrusted(tables[t], op[d].batch[t]))
          PROVE  Ahead(t)'
      <4>1. op'[d] = op[d]
        BY <2>1, <2>5, <3>3, Zenon
      <4>2. Same(PushTrusted(tables[t], op[d].batch[t]), PushTrusted(tables'[t], op[d].batch[t]))
        BY <3>1, PushSame, SMTT(30)
      <4>3. Same(durable'.tables[t], PushTrusted(tables'[t], op'[d].batch[t]))
        BY <2>2, <3>3, <4>1, <4>2, SameTrans, SMTT(30)
      <4> QED
        BY <3>3, <4>1, <4>3, Zenon DEF Ahead
    <3>4. Ahead(t)'
      BY <3>1, <3>2, <3>3, Zenon DEF Ahead
    <3> QED
      BY <3>1, <3>4, SameSound, SMTT(30) DEF Same
  <2> QED
    BY <2>2, <2>4, <2>6, <2>7, <2>8, Zenon DEF DataInv
<1>5. CASE Restart
  <2>1. /\ tables' = durable.tables /\ UNCHANGED durable
        /\ \A c \in Conns : op'[c] = Idle /\ tx'[c] = NoTx
    BY <1>5, SMTT(30) DEF Restart
  <2>2. \A c \in Conns : Runs(op'[c], tx'[c]) /\ Fits(op'[c], tx'[c], tables')
    <3>1. /\ Idle.stage = "ok" /\ Idle.batch = EmptyMap /\ NoTx.pending = EmptyMap
          /\ DOMAIN EmptyMap = {}
      BY SMTT(30) DEF Idle, NoTx, EmptyMap
    <3> QED
      BY <2>1, <3>1, ZenonT(30) DEF Runs, Fits
  <2>3. \A c \in Conns : \A t : ~ Pushes(op'[c], t)
    BY <2>1, SMTT(30) DEF Pushes, Idle
  <2>4. DOMAIN tables = DOMAIN durable.tables
    BY Zenon DEF DataInv
  <2>5. \A t \in DOMAIN tables' : Sound(tables'[t]) /\ Ahead(t)'
    BY <2>1, <2>3, <2>4, DurableSound, SameSelf, Zenon DEF Ahead
  <2> QED
    BY <2>1, <2>2, <2>4, <2>5, DurableSound, ZenonT(30) DEF DataInv
<1>6. ASSUME NEW c \in Conns PROVE ~ ApplyCreateTable(c) /\ ~ ApplyAlterTable(c)
  BY <1>o, ZenonT(30) DEF ApplyCreateTable, ApplyAlterTable, Runs
<1>7. CASE UNCHANGED vars
  BY <1>7, Zenon DEF vars, DataInv, Ahead
<1> QED
  BY <1>1, <1>2, <1>3, <1>4, <1>5, <1>6, <1>7, Zenon DEF Next, Begin, Step

LEMMA DataInitial ==
    ASSUME RowsOnly, Init
    PROVE  DataInv
<1>1. /\ tables = InitialDb.tables /\ durable = InitialDb
      /\ \A c \in Conns : op[c] = Idle /\ tx[c] = NoTx
  BY SMTT(30) DEF Init
<1>2. /\ Idle.stage = "ok" /\ Idle.batch = EmptyMap /\ NoTx.pending = EmptyMap
      /\ DOMAIN EmptyMap = {}
  BY DEF Idle, NoTx, EmptyMap
<1>3. \A c \in Conns : Runs(op[c], tx[c]) /\ Fits(op[c], tx[c], tables)
  BY <1>1, <1>2, ZenonT(30) DEF Runs, Fits
<1>4. \A t \in DOMAIN tables : Sound(tables[t]) /\ Ahead(t)
  BY <1>1, <1>2, SameSelf, Zenon DEF RowsOnly, Ahead, Pushes
<1> QED
  BY <1>1, <1>3, <1>4, Zenon DEF RowsOnly, DataInv

(* insert_rows: the log is ahead of memory by what a connection has        *)
(* appended and not yet pushed, and by nothing else, in every state.       *)
THEOREM LogAheadOfMemory ==
    ASSUME RowsOnly
    PROVE  Spec => [](LockInv /\ DataInv)
<1>1. Init => LockInv
  BY DEF Init, LockInv, Owns, Idle, NoTx, EmptyMap
<1>2. LockInv /\ [Next]_vars => LockInv'
  BY LockInductive
<1>3. Init => DataInv
  BY DataInitial
<1>4. LockInv /\ LockInv' /\ DataInv /\ [Next]_vars => DataInv'
  BY DataInductive
<1> QED
  BY <1>1, <1>2, <1>3, <1>4, PTL DEF Spec

(* Transaction::commit: what has been buffered since a transaction took    *)
(* its locks passes the checks of insert_rows when it commits, whatever    *)
(* the other connections have done meanwhile.                              *)
THEOREM CommitsSucceed ==
    ASSUME RowsOnly
    PROVE  Spec => []CommitNeverConflicts
<1>1. LockInv /\ DataInv => CommitNeverConflicts
  BY ZenonT(30) DEF DataInv, Fits, CommitNeverConflicts, Insertable
<1> QED
  BY <1>1, LogAheadOfMemory, PTL

(* What KeysUnique says of one table. *)
LEMMA SoundKeys ==
    ASSUME NEW t, Sound(t), KeyPos(t) # 0
    PROVE  /\ Distinct(t.rows, KeyPos(t))
           /\ DOMAIN t.index = {r[KeyPos(t)] : r \in Range(t.rows)}
           /\ \A i \in DOMAIN t.rows : t.index[t.rows[i][KeyPos(t)]] = i
<1>1. DOMAIN t.rows = 1..Len(t.rows)
  BY SeqHas DEF Sound
<1>2. \A r : r \in Range(t.rows) <=> \E i \in 1..Len(t.rows) : r = t.rows[i]
  BY <1>1, SMTT(30) DEF Range
<1>3. DOMAIN t.index = {r[KeyPos(t)] : r \in Range(t.rows)}
  BY <1>2, SMTT(30) DEF Sound
<1> QED
  BY <1>1, <1>3, Zenon DEF Sound, Distinct

(* InMemoryStorage::insert_rows checks the keys of a batch in one critical *)
(* section and pushes the rows in a later one, with the append in between; *)
(* primary keys stay unique and the index finds every row by its key, in   *)
(* memory and in what a replay of the log rebuilds.                        *)
THEOREM KeysStayUnique ==
    ASSUME RowsOnly
    PROVE  Spec => []KeysUnique
<1>1. LockInv /\ DataInv => KeysUnique
  <2> SUFFICES ASSUME LockInv, DataInv
               PROVE  KeysUnique
    BY SMTT(30)
  <2>1. \A t \in DOMAIN tables : Sound(tables[t])
    BY Zenon DEF DataInv
  <2>2. \A t \in DOMAIN durable.tables : Sound(durable.tables[t])
    BY DurableSound, Zenon DEF DataInv
  <2>3. \A ts \in {tables, durable.tables} : \A t \in DOMAIN ts : Sound(ts[t])
    BY <2>1, <2>2, SMTT(30)
  <2> QED
    BY <2>3, SoundKeys, Zenon DEF KeysUnique
<1> QED
  BY <1>1, LogAheadOfMemory, PTL

(* A statement stays the same from its first step to its answer. *)
LEMMA StmtKept ==
    ASSUME LockInv, NEW c \in Conns, Step(c)
    PROVE  op'[c].stmt = op[c].stmt
<1>o. Owns(op[c], tx[c], held[c]) /\ DOMAIN op = Conns
  BY DEF LockInv
<1>1. ASSUME NEW result, Answer(c, result) PROVE op'[c].stmt = op[c].stmt
  <2>1. op'[c] = [op[c] EXCEPT !.stage = result, !.schema = NoSchema, !.batch = EmptyMap]
    BY <1>1, <1>o DEF Answer
  <2> QED
    BY <1>o, <2>1 DEF Owns
<1>2. ASSUME NEW stage, Stage(c, stage) PROVE op'[c].stmt = op[c].stmt
  BY <1>o, <1>2, SMTT(30) DEF Owns, Stage
<1>3. CASE LockTable(c) \/ Check(c) \/ AppendLog(c)
  BY <1>1, <1>2, <1>3, Zenon DEF LockTable, Check, AppendLog
<1>4. CASE \/ LockWaitTimeout(c) \/ AppendFails(c) \/ ApplyCreateTable(c) \/ ApplyAlterTable(c)
           \/ ApplyDatabase(c)
  BY <1>1, <1>4, Zenon DEF LockWaitTimeout, AppendFails, ApplyCreateTable, ApplyAlterTable, ApplyDatabase
<1>5. CASE TableSchema(c) \/ BufferSchema(c)
  <2>1. \/ Answer(c, "err")
        \/ \E batch, schema : op' = [op EXCEPT ![c].stage = "bind", ![c].batch = batch, ![c].schema = schema]
        \/ \E schema : op' = [op EXCEPT ![c].stage = "pending", ![c].schema = schema]
    BY <1>5, Zenon DEF TableSchema, BufferSchema
  <2>2. ASSUME NEW batch, NEW schema,
               op' = [op EXCEPT ![c].stage = "bind", ![c].batch = batch, ![c].schema = schema]
        PROVE  op'[c].stmt = op[c].stmt
    BY <1>o, <2>2 DEF Owns
  <2>3. ASSUME NEW schema, op' = [op EXCEPT ![c].stage = "pending", ![c].schema = schema]
        PROVE  op'[c].stmt = op[c].stmt
    BY <1>o, <2>3 DEF Owns
  <2> QED
    BY <1>1, <2>1, <2>2, <2>3, Zenon
<1>6. CASE BufferRow(c)
  <2>1. ASSUME NEW stage, op' = [op EXCEPT ![c].done = @ + 1, ![c].stage = stage]
        PROVE  op'[c].stmt = op[c].stmt
    BY <1>o, <2>1 DEF Owns
  <2> QED
    BY <1>1, <1>6, <2>1, Zenon DEF BufferRow
<1>7. CASE BindRow(c)
  <2>1. Answer(c, "err") \/ \E rows, stage :
          op' = [op EXCEPT ![c].batch[op[c].stmt.table] = rows, ![c].stage = stage]
    BY <1>7, ZenonT(30) DEF BindRow
  <2>2. ASSUME NEW rows, NEW stage,
               op' = [op EXCEPT ![c].batch[op[c].stmt.table] = rows, ![c].stage = stage]
        PROVE  op'[c].stmt = op[c].stmt
    BY <1>o, <2>2 DEF Owns
  <2> QED
    BY <1>1, <2>1, <2>2, Zenon
<1>8. CASE ApplyRows(c)
  BY <1>8, <1>o DEF ApplyRows, Idle
<1> QED
  BY <1>3, <1>4, <1>5, <1>6, <1>7, <1>8, Zenon DEF Step

(* A restart between statements changes nothing a client can see: replay   *)
(* rebuilds every table with its rows and index, and the databases if no   *)
(* statement creates or drops one.                                         *)
THEOREM RestartReproduces ==
    ASSUME RowsOnly,
           \A c \in Conns : \A s \in Statements[c] : s.op \notin {"createDatabase", "dropDatabase"}
    PROVE  Spec => []ReplayReproduces
<1> DEFINE Inv == LockInv /\ DataInv
           Dbs == /\ databases = durable.databases
                  /\ \A c \in Conns : op[c].stmt.op \notin {"createDatabase", "dropDatabase"}
<1>1. Init => Dbs
  <2>1. Init => databases = durable.databases
    BY DEF Init
  <2>2. Init => \A c \in Conns : op[c] = Idle
    BY ZenonT(30) DEF Init
  <2>3. Idle.stmt.op \notin {"createDatabase", "dropDatabase"}
    BY Zenon DEF Idle
  <2> QED
    BY <2>1, <2>2, <2>3, Zenon
<1>2. Inv /\ Dbs /\ [Next]_vars => Dbs'
  <2> SUFFICES ASSUME Inv, Dbs, [Next]_vars
               PROVE  Dbs'
    BY SMTT(30)
  <2>o. \A c \in Conns : Owns(op[c], tx[c], held[c]) /\ Runs(op[c], tx[c])
    BY Zenon DEF LockInv, DataInv
  <2>1. ASSUME NEW c \in Conns, Begin(c) PROVE Dbs'
    <3>1. PICK s \in Statements[c] : Insert(c, s) \/ EndByCommit(c, s) \/ Rollback(c, s)
      BY <2>1 DEF Begin, Define, RowsOnly
    <3>2. UNCHANGED <<databases, durable>>
      BY <3>1 DEF Insert, EndByCommit, Rollback
    <3>3. s.op \in {"insert", "begin", "commit", "rollback"}
      BY <3>1, SMTT(30) DEF Insert, EndByCommit, Rollback
    <3>4. op'[c].stmt = s
      <4>1. DOMAIN Idle = {"stage", "stmt", "schema", "batch", "done"} /\ DOMAIN op = Conns
        BY Zenon DEF Idle, LockInv
      <4>2. CASE Insert(c, s)
        BY <4>1, <4>2 DEF Insert
      <4>3. CASE EndByCommit(c, s)
        <5>1. \/ op'[c] = [Idle EXCEPT !.stmt = s, !.stage = "check", !.batch = tx[c].pending]
              \/ op'[c] = [Idle EXCEPT !.stmt = s]
          BY <4>1, <4>3 DEF EndByCommit
        <5> QED
          BY <4>1, <5>1, Zenon
      <4>4. CASE Rollback(c, s)
        BY <4>1, <4>4, SMTT(30) DEF Rollback
      <4> QED
        BY <3>1, <4>2, <4>3, <4>4, Zenon
    <3>5. \A d \in Conns \ {c} : op'[d] = op[d]
      BY <2>1, OnlyOne, Zenon DEF Does, Begin, Only
    <3> QED
      BY <3>2, <3>3, <3>4, <3>5
  <2>2. ASSUME NEW c \in Conns, Step(c) PROVE Dbs'
    <3>1. \A d \in Conns \ {c} : op'[d] = op[d]
      BY <2>2, OnlyOne, Zenon DEF Does, Only
    <3>2. op'[c].stmt = op[c].stmt
      BY <2>2, StmtKept, Zenon
    <3>3. databases' = durable'.databases
      <4>1. CASE AppendLog(c)
        <5>1. op[c].stmt.op \in {"insert", "begin", "commit"}
          BY <2>o, <4>1, Zenon DEF AppendLog, Runs
        <5>2. durable' = ApplyEntry(durable, [kind |-> "Transaction", rows |-> op[c].batch])
          BY <4>1, <5>1 DEF AppendLog, Entry
        <5>3. durable' = [durable EXCEPT !.tables = PushInto(@, op[c].batch)]
          BY <5>2, SMTT(30) DEF ApplyEntry
        <5> QED
          BY <4>1, <5>3, SMTT(30) DEF AppendLog, DataInv
      <4>2. CASE ~ AppendLog(c)
        BY <2>2, <4>2, ZenonT(30) DEF Step, LockTable, LockWaitTimeout, TableSchema, BindRow, BufferSchema,
             BufferRow, Check, AppendFails, ApplyRows, ApplyCreateTable, ApplyAlterTable,
             ApplyDatabase, RowsOnly
      <4> QED
        BY <4>1, <4>2
    <3> QED
      BY <3>1, <3>2, <3>3, SMTT(30)
  <2>3. CASE Restart
    BY <2>3, Zenon DEF Restart, Idle
  <2>4. CASE UNCHANGED vars
    BY <2>4 DEF vars
  <2> QED
    BY <2>1, <2>2, <2>3, <2>4, Zenon DEF Next
<1>3. Inv /\ Dbs => ReplayReproduces
  <2> SUFFICES ASSUME Inv, Dbs, \A c \in Conns : Ready(c)
               PROVE  Content(durable) = Content(Live)
    BY SMTT(30) DEF ReplayReproduces
  <2>1. DOMAIN durable.tables = DOMAIN tables
    BY Zenon DEF DataInv
  <2>2. \A t \in DOMAIN tables : Same(durable.tables[t], tables[t])
    BY Zenon DEF DataInv, Ahead, Pushes, Ready
  <2>3. \A t \in DOMAIN tables : [durable.tables[t] EXCEPT !.next = 0] = [tables[t] EXCEPT !.next = 0]
    BY <2>2 DEF Same
  <2> QED
    BY <2>1, <2>3, SMTT(30) DEF Content, Live
<1> QED
  BY <1>1, <1>2, <1>3, LogAheadOfMemory, PTL DEF Spec
===============================================================================
