# mysql-rust: TLA+ models, checks and proofs

A verification project for the MySQL-compatible server in `src/src`: TLA+
modules for its parser, executor, storage, transactions, log file, wire format,
connections and server loop, TLC configurations that check them on small
instances, and TLAPS proofs about the log writer, the checkpoint, the storage, its
transactions, the connection and the accept loop. `PROJECT.json` maps every definition to the lines it models.

## The system

| part | source (`src/src/`) | what it does |
|---|---|---|
| accept loop | `server/mod.rs`, `observability.rs` | accepts up to `max_connections` clients (a semaphore), rejects the others with error 1040, drains its tasks at shutdown within a time limit |
| connection | `server/connection.rs`, `server/tls.rs`, `auth/`, `protocol/` | one task per client: greeting, TLS upgrade, authentication, then one command after the other |
| executor | `query/executor.rs` | runs a parsed statement against the storage |
| storage | `storage/engine.rs`, `storage/mod.rs` | tables and databases in memory under `RwLock`s, one async write lock per table with a timeout of 5 s; every change is appended to the log before it is applied |
| transactions | `storage/transaction.rs` | read committed: rows of an open transaction are buffered and overlaid on what is committed; table locks are held to its end |
| log writer | `storage/log_writer.rs` | a thread that owns the log file; callers send it entries through a bounded channel, it writes and syncs them in batches and answers each |
| log file | `storage/log.rs` | length, checksum and payload per record; opening replays it and cuts off a torn tail |
| checkpoint | `storage/engine.rs`, `storage/log.rs` | at startup a large log is replaced by a snapshot: new file, sync, rename, sync of the directory |
| parser | `query/parser.rs` | text to tokens to statements; several statements in one text; placeholders and their binding |
| wire format | `protocol/` | packets, length-encoded values, result sets as text and binary rows, prepared-statement parameters |

A statement enters at the connection, is parsed and executed by the executor, which takes
table locks and checks the rows against memory, waits for the log writer, and
then applies the change. The awaits between check, append and apply are where
other connections interleave; crashes may fall anywhere.

## Modules

| module | models | state and actions |
|---|---|---|
| `LogWriter` | `log_writer.rs`, writing and opening in `log.rs` | `call[r]` is the caller's future in `submit`, `queue` the channel, `thread`, `batch`, `written`, `outcome` the locals of `run` and `write_framed_batch`, `file` and `synced` the file. `Send`, `Abort`, ... are the caller's awaits; `BlockingRecv`, `TryRecv`, `WriteRecord`, `SyncData`, `Ack`, `Exit` the steps of the thread, with `WriteFail` and `SyncFail`; `BeginAbort` and `Drop` the shutdown; `Crash`, `PowerFail` and `Open` the failures and the restart |
| `DurableLog` | what the log writer promises | a log that grows at its end, may lose records that were not confirmed, and never a confirmed one |
| `LogFormat` | the bytes of `log.rs` | `file` is the data file as bytes. `AppendEntry` encodes and frames an entry, `Open` and `Replay` are `Log::open`, a record at a time, with the truncation; `DieWriting` leaves any prefix of a record, `Damage` changes a byte. The CRC-32 is computed |
| `Checkpoint` | startup and checkpoint | `home` is the data directory (absent, created and unsynced, or durable), `dirs` the versions of its contents that may be on the disk, inodes have their synced length; one action per file-system call of `open_in_dir` (`CreateDir`), `Log::open`, `write_snapshot_file` and the rename |
| `Values` | `value.rs`, `coerce`, `value_ordering` | column types, coercion, rescaling, comparison. A text is what it can be read as |
| `Tables` | `Table`, `compute_altered_table`, `apply_entry` | pure operators on a table record (columns, key, rows, index, counter) |
| `Storage` | statements of several connections | `op[c]` is the statement of connection c and the await it is at. `LockTable`, `LockWaitTimeout`, `TableSchema`, `BindRow`, `BufferSchema`, `BufferRow`, `Check`, `AppendLog`, `AppendFails`, `ApplyRows`, `ApplyCreateTable`, `ApplyAlterTable`, `ApplyDatabase` are the critical sections; `Restart` is a crash followed by a replay |
| `TxStore` | what transactions promise | committed rows grow by whole transactions and unique keys; a buffer belongs to one connection |
| `Connection` | one connection and its client | `phase` is the await of `handle`; `Serve` has one action per handler; `ConnectTimeout` and `WaitTimeout` the timers. `Refuse` and `RefuseCommand` are the packets that end the connection: badly framed or out of sequence, and commands that are empty or a COM_QUERY that is not UTF-8. The client is external: it reads by the protocol, may pipeline, send such packets (`Shapes`, `Unserved`), split a long command over two frames, or vanish |
| `Wire` | the bytes of `protocol/`, `read_packet`, `send_result` | one command and its response. `wire` and `buf` are the bytes on their way and in the reader's buffer, cut anywhere by `Deliver`; `HandleCommand` decodes the command and encodes the response, `RefusePacket` is max_allowed_packet and the sequence id that is not 0; `ClientRead` is the external client, which reads by the protocol |
| `Server` | `serve`, `spawn_connection`, the drain, `connections_active` | `peer[p]` is where the attempt of a client is; the compare-exchange loop of `connection_closed` is one action per round |
| `Query` | the pure part of SELECT | columns and scopes, filter, hash join, aggregates, sort and page |
| `Introspection` | SHOW, system variables, SELECT without FROM | `LikeMatches` is the dynamic programming of `like_matches`; `KnownVariables`, `SystemVariable`, `EvaluateFunction` and the answers built from them |
| `Select` | a SELECT or SHOW against concurrent writers | one action for each acquisition of the tables lock; `Commit` and `Alter` of other connections in between |
| `Lexer` | `tokenize` and the `scan_` functions | what one iteration of the loop finds at a position |
| `Grammar` | the `parse_` functions | each function is the list of what it does next, given the tokens ahead of it |
| `Sql` | `parse`, `parse_many`, `parse_prepared`, `bind_parameters` | `frames` are the texts being tokenized, `parser` the call stack and the locals of the functions of `Grammar`; the steps are the iterations of `tokenize` and the steps of the functions |
| `LogWriter_proofs`, `Checkpoint_proofs`, `Storage_proofs`, `TxStore_proofs`, `Connection_proofs`, `Server_proofs` | | theorems about the module of the same name (`TxStore_proofs`: that `Storage` implements `TxStore`) |
| `Tables_proofs`, `SequenceLemmas` | | what the operators of `Tables` return and keep, and facts about sequences and minima, for the proofs above |
| `MC*` | | finite instances: sets of statements, clients, tables, texts, entries, exchanges |

`Storage` uses `Tables` and `Values`; `Select` uses `Introspection`, `Query`,
`Tables` and `Values`; `Sql` uses `Grammar`, `Lexer` and `Values`. Components
meet through their abstractions: what `Storage` calls `AppendLog` and `AppendFails` is the answer of `LogWriter` (`DurableLog`); what
`Connection` calls an outcome is the end of a statement of `Storage` or
`Select`; what `Server` calls an open connection is a behaviour of
`Connection`; the records of `LogWriter` and `Checkpoint` are framed entries of
`LogFormat`, the packets of `Connection` are frames of `Wire`, and the
statements of `Storage` and `Select` are values that `Sql` yields. In `Select` commits and
ALTER TABLE are single steps, because `Storage` has their inner steps and a reader sees only the apply.

## Data that is abstracted

* In `LogWriter` and `Checkpoint` a record of the log is a model value and a
  torn one is `Fragment`. That length and checksum tell the two apart is what
  `LogFormat` checks on the bytes.
* `LogFormat` has bytes of 8 bits and the real polynomial; `Texts` are the byte
  sequences that `String::from_utf8` accepts.
* `Wire` has bytes of 4 bits (`Bits`), which moves the limits of the encodings:
  251 becomes 11, a packet holds 4095 bytes, a sequence id wraps after 16. An
  `i64` has 8 such bytes. The digits of a number are its first code points.
* In `Lexer` and `Introspection` a word of the language or of the name of a
  variable is one letter, so that an identifier is a sequence of few letters;
  everything else is spelled in characters. The scale of a decimal is taken
  modulo `U8`.
* `InMemoryStorage::open` checkpoints when the log is larger than a threshold
  in bytes; `Checkpoint` has no bytes, so both branches are always possible.
* `i64` is the range up to `MaxInt`, with the wrap of a release build; sequence
  ids, statement ids and `u16` counts have their moduli as constants.
* In `Values` a text is what it can be read as: a number with a scale and a
  spelling, a date, or neither.
* A scramble is a number, a password response says which plugin and scramble
  it was made for and whether the password was right.
* In `Connection` packets are records with the fields a client's reading
  depends on; their bytes are in `Wire`.
* System variables whose values are literals in the code are a constant
  (`FixedVariables`), of which the run has a sample.

## Runs

Each run is `tlc -workers 2 -config <run>.cfg <module>`. The text of a property
is the comment above its definition.

| run | module | properties | what it shows |
|---|---|---|---|
| `LogWriter_power` | `MCLogWriter` | `AckedSurvives`, `GracefulDrain`, `AlwaysReopens`, `ImplementsDurableLog` | SyncPolicy::Always under process crashes, power failures and failing syncs: acknowledged records survive, a graceful stop drains the queue, the store always reopens, and the log implements DurableLog. |
| `LogWriter_faults` | `MCLogWriter` | `EveryAppendAnswered`, `ShutdownEnds` | With failing writes and syncs every caller is still answered, and the writer thread ends once shutdown has begun. |
| `Storage_dml` | `MCStorage` | `LiveMatchesReplay`, `KeysUnique`, `CommitNeverConflicts`, `LocksMatchWork`, `NeverReused`, `ImplementsTxStore`, `EveryStatementAnswered` | Two connections with transactions and autocommit inserts that lock two tables in any order, with given and generated keys, failing appends and a restart: memory and log agree at every step, keys stay unique, COMMIT never meets a conflict, locks go with the work, no reserved value is given out twice, the engine implements TxStore, and every statement is answered because the lock wait is bounded. |
| `Storage_ddl` | `MCStorage` | `LiveMatchesReplay`, `RowsMatchSchema`, `CheckpointEquivalent` | One connection takes a table through every kind of ALTER TABLE while the other creates and drops a database: rows match their schema, the log rebuilds what memory holds, and a checkpoint of it would too. |
| `Checkpoint_failures` | `MCCheckpoint` | `AckedSurvivesOutage`, `CheckpointPreserves` | The process is killed and the machine fails at any step of creating the directory, startup, checkpoint and writing, in any mix: but for a log entry that a dead process left unsynced and a data directory that is new, no acknowledged update is lost, and the checkpoint changes nothing but the form of the log. |
| `Connection_login` | `MCConnection` | `HonestAdmitted`, `ConnectingEnds`, `EveryCommandAnswered` | Every kind of client (TLS or not, either plugin, right or wrong password, malformed packets, commands that are empty, not UTF-8 or longer than a frame) logs in against accounts of both plugins and sends commands: a right password is never denied, the handshake ends but for a stalled TLS negotiation, and a command that arrived is answered or the connection closed, whatever the client does. |
| `Connection_commands` | `MCConnection` | `ClientInStep`, `AnswersInOrder`, `StatementsAgree` | An admitted client pipelines every kind of command, with every kind of result: answers come in order and whole, in packets the client expects at that point, both ends agree on which statements are prepared, also when a statement of a batch fails. |
| `Server_limit` | `MCServer` | `CountsMatch`, `ShutdownEnds` | Peers connect, finish, panic and come back around a limit of max_connections, with an accept error and a shutdown: permits are neither lost nor made, connections_active is right but for panics, and a shutdown ends even if connections do not. |
| `Select_reads` | `MCSelect` | `RowsFromOneState`, `JoinIsEquality`, `AnswersWellTyped`, `VariablesAsAsked`, `PageCorrect`, `AggregatesExact` | Every kind of SELECT (WHERE on and off the key, ORDER BY with ties, LIMIT and OFFSET, aggregates with NULLs and at the limit of an i64, inner and left joins with NULL and repeated keys), in and outside a transaction, while others commit rows or add a column, and every SHOW and SELECT without FROM: rows are those of one moment, joins find exactly the equal pairs, pages and aggregates are right, no statement panics, and each cell fits the type its column is announced with. |
| `Sql_statements` | `MCSql` | `ParsesAsMeant`, `BindIsSubstitution`, `EveryWordCounts` | Statements of every kind in many spellings (white space, comments, executable comments, optional words, quoted names), in batches, with a word left out, and prepared with parameters: each means what it says, none of its words is lost, and binding is substitution. |
| `LogFormat_bytes` | `MCLogFormat` | `ReplayExact`, `NeverMisread`, `DamageRefused` | Entries of every kind as bytes, a process that dies after any number of bytes of a record, and a byte of the file that changes: replay yields exactly what was appended, never anything else, and damage before the last record is refused. |
| `Wire_frames` | `MCWire` | `CommandHeard`, `AnswerRead` | Commands and responses of every kind as bytes, cut into pieces by the socket, at lengths around the limits of the encodings, of a frame and of max_allowed_packet: the server hears what the client said, unless it takes more than one frame, and the client reads what the server answered, unless a payload fills a frame exactly. |

All of them pass.

### Bounds, and why they are enough

* `LogWriter_*`: three records, so that one can be in the file, one in the
  batch and one in the channel or waiting for a slot; a channel of one or two
  slots, so that it is full; two crashes, so that a crash can hit a store that
  recovered from one.
* `Checkpoint_failures`: three updates (one in the snapshot, one after it, one
  torn), two process crashes and two power failures, which is one more of each
  than the gaps described below need; `Inodes` is large enough that every start
  can write a new file. The data directory is there beforehand, or the first
  start creates it.
* `Storage_*`: two connections, because every conflict is between two; two
  tables, because deadlocks need two; two rows per table (`MaxRows`) and a
  counter up to 4 (`MaxNext`), so that a batch can collide with itself, with a
  pending and with a committed row. The bounds only stop further statements
  from starting. `LogErrors` says how a failed append may leave the record:
  absent, or present after all.
* `Connection_*`: three commands, two in flight, batches of two; sequence ids
  modulo 4 instead of 256, so that they wrap within one response.
  `Connection_login` has every packet that ends a connection;
  `Connection_commands` has a malformed one and a command split over two
  frames, the rest of which is out of sequence: to the answers the others make
  no difference.
* `Server_limit`: three clients, two permits, two attempts each.
* `Select_reads`: two concurrent writes per behaviour, tables of up to four
  rows with NULLs, ties and repeated keys; `MaxInt` is small enough that sums
  and the scaling of an average overflow, and that a configured limit is cut
  to it. Patterns of LIKE have `%` and `_` at either end,
  in the middle, doubled and alone.
* `Sql_statements`: each clause of each statement in its forms, then one
  statement with all of them; the gaps between the words empty where they may be,
  or filled with white space or a comment of each kind; every word left out
  once; batches of two statements, one of which may be wrong; up to three
  placeholders, for which too few, enough or too many values are given, a
  question mark among them. `MaxInt` is 99 and `U8` is 4, so that literals
  reach both ends of their range.
* `LogFormat_bytes`: one entry of each kind and of each schema change, two
  records in the file, and one fault: a record cut after any of its bytes, or
  any byte of the file with its lowest or highest bit flipped. Two records are
  enough because `read_one_record` looks only at whether anything follows.
* `Wire_frames`: texts of 0, 10, 11, 12, 255 and 256 bytes (where the encoding
  of a length changes when a byte has 4 bits), seven columns (more than a byte
  of the bitmap of NULLs), more packets than sequence ids, rows of 4090, 4094,
  4095 and 4096 bytes around the limit of 4095, and commands of 4094, 4095 and
  4096 bytes and at the end of a second frame, under a max_allowed_packet of
  four frames, and of 4000 and 4001 bytes under one of 4000. The socket cuts at
  1, 3, 7, 50 and more bytes, in any mix, which includes cuts within a header.

Symmetry is used only in the configurations of `Checkpoint`, which check no
liveness. Among the runs deadlock checking is off only in `LogWriter_faults`,
where a damaged file can be refused and the store stays down.

### Fairness, and why the code justifies it

* `LogWriter`: the operating system schedules the thread (`WF(Thread)`); tokio's
  channel semaphore is a queue, so a freed slot reaches each sender
  (`WF(Send(r))`); an aborted task is polled once more (`WF(Abort(r))`), and
  `drop` runs after it. Nothing forces a client to append or the server to stop.
* `Storage`: a task that can go on is polled (`WF(Step(c))`), which includes the
  lock timeout. Clients need not send statements. The tokio mutex is fair, but
  strong fairness is not assumed: the timeout alone bounds the wait.
  `Storage_dml` checks `EveryStatementAnswered` under `FairSpec`.
* `Connection`: the task is polled and its timer fires (`WF(Serve)`,
  `WF(ConnectTimeout)`). Nothing is assumed of the client. A write that the
  client never reads is not modelled as blocking (see below).
* `Server`: the accept loop and the drain are polled and the drain's timer
  fires. Handlers need not end.
* `Checkpoint`, `Select`, `Sql`, `LogFormat` and `Wire` have safety properties
  only and no fairness. That the parser and the two readers do not stop short
  of an answer is checked as absence of deadlock and, in `AnswerRead`, as a
  state in which everything was delivered.

## What is proved

Checked by `tlapm`, for every value of the constants that the named
assumptions of the modules allow (`LogWriterAssumption`, `ServerAssumption`,
`StorageAssumption`, `CheckpointAssumption`, `ConnectionAssumption`: types, and
that markers such as a fragment are not data). What else a theorem assumes is
part of its statement.

| theorem | property of a run | what it says |
|---|---|---|
| `LogWriter_proofs!TypeCorrect` | | the variables keep their types |
| `Reopens` | `AlwaysReopens` | a fragment is only ever the last thing in the file, so the store reopens after any crashes and power failures |
| `AckedDurable` | `AckedSurvives` | an acknowledged record is read back after any crash, with `SyncPolicy::Always` also after any power failure |
| `Drains` | `GracefulDrain` | a writer that was shut down and joined has written every record the channel had accepted, those of aborted callers included |
| `Refines` | `ImplementsDurableLog` | the log writer implements `DurableLog` |
| `Checkpoint_proofs!CheckpointKeepsData` | `CheckpointPreserves` | under either sync policy every log that a version of the directory names reads back as what is in memory |
| `AckedSurvivesCheckpoint` | `AckedSurvivesOutage` | with `SyncPolicy::Always` an acknowledged update is in the synced part of every log a power failure may leave, unless it was acknowledged over the unsynced log entry of a dead process (`exposed`) or in a data directory that the server created (`unrooted`) |
| `Storage_proofs!LocksAlwaysMatchWork` | `LocksMatchWork` | for any statements: no lock is held between statements outside a transaction, tables with uncommitted rows are locked by their connection, no lock has two holders |
| `LogAheadOfMemory` | | memory, its indexes and the log agree but for what a statement has appended and not yet applied |
| `CommitsSucceed` | `CommitNeverConflicts` | what a transaction has buffered passes the checks of `insert_rows` at COMMIT |
| `KeysStayUnique` | `KeysUnique` | primary keys are unique and the index has exactly them, in memory and after a replay |
| `RestartReproduces` | | a restart between statements rebuilds every table with its rows and index |
| `TxStore_proofs!EngineIsTxStore` | `ImplementsTxStore` | the engine with its locks, log and awaits implements `TxStore`, where a transaction commits at once or not at all |
| `Connection_proofs!CommandsVerified` | | commands run only for a client that answered the scramble it was sent with the password of an existing account |
| `HonestNeverDenied` | `HonestAdmitted` | a client that knows its account's password is never denied, whichever plugin is the default, declared or configured, with and without TLS and auth-switch |
| `WellFormedKept` | | a client whose packets are well framed and in sequence, and whose commands are not empty, fit in one frame and, for COM_QUERY, are UTF-8 (`~faulty`), keeps its connection until it quits, hangs up, stays idle, is denied or fails the TLS handshake (`QueryErrorsKeepConnection`) |
| `Server_proofs!CountsAlwaysMatch` | `CountsMatch` | the permits taken are those of the connections being served, and `connections_active` counts the open ones and the panicked handlers |
| `LimitHolds`, `RejectsOnlyWhenFull` | | at most `max_connections` are served at once, and error 1040 is sent only when all permits are taken |

**Hypotheses.** Most of them exclude a deviation that TLC exhibits (next section):

* `~WriteFaults` in `Reopens`, `AckedDurable`, `Drains` and `Refines`: a
  `write_all` that fails part-way leaves a fragment in the middle of the file
  (`LogWriter_partial`). `SyncPolicy = "Always"` or `~PowerLoss` in
  `AckedDurable` and `Refines`, `SyncPolicy = "Always"` in
  `AckedSurvivesCheckpoint`: the other policies promise less.
* `RowsOnly` in the theorems about data of `Storage` and in `EngineIsTxStore`:
  no CREATE TABLE or ALTER TABLE among the statements (`Storage_create_race`,
  `Storage_insert_alter`, `Storage_merged_keys`), a failed append leaves nothing
  in the log (`LogWriter_phantom`), and the initial tables are sound: unique
  keys, an index of exactly those keys. INSERT, transactions, CREATE and DROP
  DATABASE, lock timeouts, failed appends and restarts are all in.
  `RestartReproduces` also excludes CREATE and DROP DATABASE (`DatabaseRace`).
  `LocksAlwaysMatchWork` has no hypothesis.
* `HonestNeverDenied`: clients compute their first answer with a plugin the
  server implements (`ForeignPlugin`). `CommandsVerified` has no hypothesis.
* `WellFormedKept`: no row is too large for a packet (`Connection_huge_row`), and
  sequence ids have more than two values (in the code they are a `u8`).

**Inductive invariants.** None of the properties is inductive as it stands.

* `LogWriter`. That the record being answered is on the disk follows from what
  the thread did three steps earlier. `BatchOK`: from `drain` to `ack` the thread
  has a batch, and `write_all` has not passed its end. `TailInv`: a fragment is
  the last element of the file, and only while the process is down, because
  `Log::open` truncates before the thread starts; otherwise a record could be
  appended behind a fragment, where replay does not find it. `AckChain`: what has
  been written of the batch is readable, after the last write all of it is, and
  an outcome of Ok means that it is in the part no failure can take away.
  `Drains` adds where each accepted record is: in the channel, the batch or the
  file (`DrainInv`); `Refines`, that it is in no two of those it has yet to leave
  (`OnceInv`).
* `Checkpoint`. `DiskInv` ranges over all versions of the directory that a power
  failure may leave: the file of the snapshot is the log of none of them
  (`Names`), the snapshot grows to what is in memory and is synced before the
  rename (`Progress`), and all logs that may be found read back the same
  (`Agree`). `AckedSynced` adds that what was acknowledged is in their synced
  parts. A new file takes an inode that no version names (`Unused`). `Rooted`:
  as long as nothing was acknowledged in a directory whose own entry is not
  synced, a power failure that takes the directory takes no acknowledged update.
* `Storage`. `LockInv` has, for each connection, what the await it is at implies
  about its locks (`Owns`). `DataInv` has the tables sound, `durable` ahead of
  them only by what some connection has appended and not yet applied (`Ahead`),
  and for each connection that the batch it has checked can still be inserted
  (`Fits`): the step that matters is another connection's `ApplyRows`, which
  cannot touch the table because of `LockInv`. `Tables_proofs` has what inserting
  a batch does to rows, keys and index.
* `TxStore`. Committed is what the log has, so a transaction commits at
  `AppendLog`. Every other step maps to a stutter or to a step of one buffer;
  that an appended batch only adds fresh keys is `Fits` again.
* `Connection`. `LoginInv`: every packet on its way carries what the client can
  have computed (`Given`) or the server has sent (`Told`), and the scramble
  belongs to the phase. `TurnInv`: until the client is authenticated the two ends
  speak in turns, so at most one message is under way and the sequence ids of both
  sides agree (`InTurn`); afterwards every command the server has still to read
  starts at 0.
* `Server`. `CountsMatch` with the types is inductive; the proof is about the
  cardinalities of the sets of peers that each step changes.

The proofs have one step per action, and one lemma for each action that takes
more than a few steps. `TypeCorrect`, `CommandsVerified`, `LimitHolds`,
`RejectsOnlyWhenFull` and `LogAheadOfMemory` are stated in the proof modules and
no run repeats them.

**Only model-checked.** Liveness under fairness and `ENABLED` are outside what
TLAPS can prove: `EveryAppendAnswered`, `ShutdownEnds`, `EveryStatementAnswered`,
`ConnectingEnds`, `EveryCommandAnswered`. So is induction over data, which the
folds in `Tables` and `Query` (`LiveMatchesReplay`, `CheckpointEquivalent`), the
codecs of `LogFormat` and `Wire`, `LikeMatches` and the parser would need; `Select`,
`Sql`, `LogFormat` and `Wire` stay with TLC altogether. `RowsMatchSchema` is about
ALTER TABLE, which `RowsOnly` excludes. `NeverReused`, and `ClientInStep`,
`AnswersInOrder` and `StatementsAgree`, which need the reader's place in every
response as an invariant, have no proof yet.

## Known deviations

What a comment, document or test of the repository says and the code does not
do. In each of these TLC finds a counterexample; they are run by hand with
`tlc -workers 2 -config <cfg> <module>`, where the module is the one of the runs
of the same name. Where the first column names changes, they are made in a copy
of the configuration. The properties of the runs are stated with an exception
where one is needed: `~exposed` and `~unrooted` in `Checkpoint`, the length of
a frame in `CommandHeard` and `AnswerRead`, `panics` in `Server`,
`crashes = 0` in `NeverReused`, the TLS wait in `ConnectingEnds`, the length of
a record in `DamageRefused`, SHOW VARIABLES in `AnswersWellTyped`. The other
deviations are kept out by the instances:

* `LogWriter_power`: `write_all` does not fail (`WriteFaults`).
* `Storage_dml`: a failed append leaves no record (`LogErrors`), no statement
  changes a schema, no value comes near `MaxInt`.
* `Storage_ddl`: only one connection changes the schema of a table, and no other
  uses that table; its key is neither retyped nor made nullable, and no added
  column is AUTO_INCREMENT.
* `Connection_*`: no row is too large for a packet, no statement has as many
  parameters as `ParamMod`, clients declare a plugin the server knows or none.
* `Select_reads`: no column is dropped, none is added to a table with pending
  rows, and DECIMAL columns of different scales are not joined.
  `RowsFromOneState` is about queries without a join.
* `Sql_statements`: no quoted name is a word of the grammar, and no fraction has
  `U8` digits or more.

| cfg | property | what happens |
|---|---|---|
| `LogWriter_partial.cfg` | `AckedSurvives` | write_framed_batch returns at the `?` after a write_all that wrote part of a batch (log.rs:716); the fragment stays in the file and later batches are appended after it and acknowledged. Replay stops at the fragment (or refuses the file), so those acknowledged writes are gone. src/src/config.rs:62-63 says of SyncPolicy::Always: "An acknowledged write survives anything short of media failure". |
| `LogWriter_phantom.cfg` | `FailedNeverHappened` | When sync_data fails (log.rs:723) write_framed_batch returns Err although write_all has already put the records into the file, and nothing removes them; the next restart replays them. src/src/storage/engine.rs:753-755 says "If the log append fails, nothing here has mutated any state a reader could observe, so the row simply never happened: no phantom row, no undo needed". |
| `Storage_create_race.cfg` | `ReplayReproduces` | Both CREATE TABLE pass the first check; the winner applies, a row is inserted and logged, and then the loser's CreateTable record is logged. apply_entry replaces the table by an empty one, so a restart loses the acknowledged row. engine.rs:674-678 says "On replay this is harmless (a `CreateTable` for an already-existing name simply re-creates the same empty table, exactly matching the winner's own record), so the outcome is a wasted log record on a genuinely rare race, never data loss or corruption". |
| `Storage_create_race.cfg` with `Statements <- DatabaseRace` | `ReplayReproduces` | Append and apply of CREATE DATABASE and DROP DATABASE are separate critical sections, so two connections can log in one order and apply in the other; after a restart the database is there although it was dropped, or the reverse. engine.rs:912-913 says "Harmless on replay (a repeated `CreateDatabase` for an already-registered name is a no-op `insert`)". |
| `Storage_create_race.cfg` with `Statements <- AlterRace`, `InitialDb <- KeyedTable` and `CHECK_DEADLOCK FALSE` | `ReplayReproduces` | Two ALTER TABLE append in one order and apply in the other, so replaying the log gives another column order, or lets the one succeed that failed. engine.rs:398-399 says of an AlterTable record that failed its re-check that replay skips it, "exactly reproducing what genuinely happened". |
| `Storage_insert_alter.cfg` | `RowsMatchSchema` | ALTER TABLE takes no table lock, so it can change the columns while an INSERT awaits its append; push_trusted then stores a row that does not fit. engine.rs:843 calls that apply "Trusted for the same reason `insert_row`'s apply is", of which 784-786 says "Infallible: everything that could make it fail was already checked above under the same guarantee that nothing could have changed in between". |
| `Storage_insert_alter.cfg` with the property | `CommitNeverConflicts` | ALTER TABLE ignores the locks of the transaction, so the buffered rows can have the wrong number of columns at COMMIT, which fails and discards the transaction. transaction.rs:77-80 says "Held locks guarantee nothing else could have changed these tables since they were buffered, so this cannot fail on a conflict it didn't already check for at insert time". |
| `Storage_partial_insert.cfg` | `StatementAllOrNothing` | Inside a transaction insert_rows is the default of the trait, which calls insert_row for one row after the other (mod.rs:116-122): a duplicate key at the second row leaves the first one pending, and COMMIT stores it. src/src/query/executor.rs:326-327 says "A single statement is now genuinely all-or-nothing". |
| `Storage_largest_int.cfg` with `Statements <- BurnedValue`, `MaxCrashes = 1`, `MaxInt = 99` and the property | `NeverReusedAtAll` | next_auto_increment only changes memory; replay puts the counter one past the largest stored value, so after a restart a value reserved by a failed or rolled-back insert is given out again. src/src/storage/mod.rs:151-152 says "a reserved value is never reused even if the insert that requested it is rolled back". |
| `Storage_largest_int.cfg` | `StaysAhead` | push_trusted computes n + 1 (engine.rs:79), which wraps for i64::MAX in a release build, so the counter stays below the stored value (a debug build panics there, after the record was logged). engine.rs:44-45 says of the counter that explicit values are tracked to "stay ahead of the largest value actually present". |
| `Storage_largest_int.cfg` with `Statements <- SecondAuto` and the property | `AutoIncrementIsKey` | execute_alter_table and the AddColumn arm of compute_altered_table (engine.rs:127-183) do not look at auto_increment, unlike execute_create_table and the ModifyColumn arm: a second or non-key AUTO_INCREMENT column is accepted. src/src/storage/value.rs:223-224 says "At most one per table, and it must be the primary key". |
| `Storage_merged_keys.cfg` with the property | `KeyNotNullable` | MODIFY COLUMN replaces the column definition, nullable included, also for the primary key (engine.rs:225). src/src/storage/value.rs:217-219 says "A primary-key column is always non-nullable, regardless of how it's declared". |
| `Storage_merged_keys.cfg` | `KeysUnique` | MODIFY COLUMN converts each key on its own and pushes the rows without a uniqueness check (engine.rs:227-238), so two texts that read as one number (1 and 01) become the same key: two rows, one index entry. engine.rs:114-115 says the rows are rebuilt "so the primary-key index and `AUTO_INCREMENT` counter come out right for free". |
| `Checkpoint_failures.cfg` with the property | `EntryAlwaysSynced` | If the process dies after creating data.log (or after the rename of a checkpoint) and before sync_parent_dir, the next start finds the file, does not sync the directory, and acknowledges writes to it; a power failure can still remove the directory entry, and with it the acknowledged writes. log.rs:660-663 says "Only needed once, for a freshly-created file: on every later restart the directory entry already exists (and was already synced when it was first created)". |
| `Checkpoint_failures.cfg` with the property | `DirectoryAlwaysSynced` | open_in_dir creates the data directory with create_dir_all (engine.rs:554) and nothing ever syncs its parent; sync_parent_dir syncs the directory itself, which does not keep its own entry. A power failure after the first start can remove the directory, and with it all acknowledged writes. src/src/config.rs:62-63 says of SyncPolicy::Always: "An acknowledged write survives anything short of media failure". |
| `LogFormat_bytes.cfg` with the property | `DamageAlwaysRefused` | read_one_record takes a length that runs past the end of the file for a torn tail, whatever follows the header (log.rs:551): a changed byte in the length of an early record makes Log::open cut off that record and all intact ones after it. log.rs:38-42 says that when more data follows, it is "treated as unrecoverable corruption and [`Log::open`] refuses outright rather than silently discarding a suffix of data that might still be intact" (of a failed checksum, which is not looked at here). |
| `Connection_tls_stall.cfg` | `HandshakeEnds` | acceptor.accept(..) is awaited without a timeout (connection.rs:233); only read_packet_before_connect_timeout is bounded, so a client that sends SSLRequest and nothing more holds its task and its connection permit for ever. src/src/config.rs:124-125 says of connect_timeout: "How long a not-yet-authenticated connection may take to complete its handshake and authentication before the server closes it". |
| `Connection_huge_row.cfg` | `QueryErrorsKeepConnection` | encode_text_into refuses a row larger than one packet with Err, and send_result passes it on with `?` (connection.rs:478), so handle() returns and the connection closes without an ERR packet. Rows that can be stored can be that large when selected, for example when a JOIN or SELECT a, a repeats a value. connection.rs:396 says "A query-level error never drops the connection." |
| `Connection_commands.cfg` with `ParamMod = 2` | `ClientInStep` | num_params is `param_count as u16` (connection.rs:597): 65536 placeholders are announced as 0 while 65536 definitions and an EOF follow, so the client reads them as answers to its next commands. The run scales the modulus of u16 down to 2. connection.rs:562-563 says the reply is "`COM_STMT_PREPARE_OK` plus one column definition per parameter". |
| `Connection_huge_row.cfg` with `Clients <- ForeignPlugin`, `DefaultPlugin = "native"` and the property | `HonestAdmitted` | A declared plugin that from_wire_name does not know is taken for the server default (connection.rs:253-257); if that is the plugin of the account no AuthSwitchRequest is sent and the response, computed with the other plugin, is rejected. connection.rs:243-246 says "The client computed its handshake auth-response with the plugin the server advertised (or one it declared). If that isn't the plugin the account is configured for, send an `AuthSwitchRequest`". |
| `Server_panic.cfg` | `ActiveIsOpen` | connection_closed() is called after handle() returns (mod.rs:255-256) and not on drop, unlike the permit: a task that panics in handle() leaves connections_active one too high for the rest of the server's life (module Select shows how a SELECT can panic). src/tests/observability.rs:111-116 says "After the client disconnects, active connections falls back to 0" and asserts that "active connections should return to 0 after the client disconnects". |
| `Select_pending_alter.cfg` | `NoPanic` | Transaction::scan appends the pending rows as they were inserted (transaction.rs:175); after an ALTER TABLE .. ADD COLUMN of another connection, which ignores the table lock, the schema has one column more than they have, and execute_projected indexes them past their end (executor.rs:875). src/PROGRESS.md:83 says "No panics on any client-reachable path; every error maps to a MySQL ERR". |
| `Select_pending_alter.cfg` with `Workloads <- DropRace` | `NoPanic` | resolve_from reads the schema (executor.rs:414) and the rows (executor.rs:417) under two acquisitions of the tables lock; a DROP COLUMN in between leaves rows without the column that the filter then indexes (executor.rs:663). executor.rs:1532 says "a client-reachable path must never panic regardless", and src/PROGRESS.md:83 "No panics on any client-reachable path". |
| `Select_pending_alter.cfg` with `Workloads <- JoinRace` and the property | `JoinFromOneState` | resolve_joins scans each table under its own acquisition of the tables lock (executor.rs:439 and 464), so a transaction that commits rows to both in between is seen in one table and not in the other: the answer belongs to no committed state. src/src/storage/transaction.rs:5-7 says "A transaction always sees its own writes layered on top of the latest committed state (never a stale snapshot)". |
| `Select_pending_alter.cfg` with `Workloads <- Scales`, `MaxWrites = 0` and the property | `JoinIsEquality` | hash_join looks keys up by the derived Eq of Value, for which Decimal(15, 1) and Decimal(150, 2) differ, while value_ordering, and so WHERE, takes 1.5 and 1.50 to be equal. executor.rs:770-771 says "Join `right_rows` onto `left_rows` by equality", and 1497-1499 of value_ordering that decimals are compared "normalizing to a common scale first (within one column `coerce` already guarantees a shared scale, but this stays correct even if that ever isn't true)". |
| `Sql_quoted.cfg` | `ParsesAsMeant` | A name in backticks becomes Token::Ident like a bare one, and the words that are no keywords are recognised by peek_is_ident_ci: a column named `index` starts a table constraint, and `true` is the number 1. parser.rs:784-787 says that these words "remain valid as ordinary column/table names elsewhere". |
| `Sql_quoted.cfg` with `Suites = {"longFractions"}` | `ParsesAsMeant` | scan_number computes the scale as `frac_text.len() as u8` (parser.rs:646), so a fraction of 256 digits has the scale 0. The run has a `U8` of 4. No comment says what should happen. |
| `Wire_frames.cfg` with the property | `AnswerReadWhole` | guard_payload_size refuses payloads larger than MAX_PAYLOAD (resultset.rs:313), so one of exactly 2^24 - 1 bytes is sent unsplit; in the protocol that length announces a continuation, so the client joins the next packet to it. packet.rs:11-12 says "Payloads at or above this size are split across multiple wire packets by the MySQL protocol". |
| `Wire_frames.cfg` with the property | `LongCommandHeard` | read_packet returns one frame and joins none (connection.rs:756-784), so of a command of 2^24 - 1 bytes or more the server takes the first frame for the whole command and closes the connection at the second, whose sequence id is not 0 (connection.rs:354), although max_allowed_packet may allow the length. packet.rs:11-14 says "that stream-level splitting/reassembly is layered on top of this single-frame type". |
| `Select_reads.cfg` with the property | `EveryCellMatches` | execute_show gives the Value column the type Varchar and fills it with the values of known_variables, some of which are Value::Int (executor.rs:210-225): prepared, SHOW VARIABLES sends 8-byte integers under a string column. resultset.rs:31-35 says that a cell "must match its column's [`ColumnType`] (an `Int` cell in a `LongLong` column, a `Text` cell in a `VarString` column) so text and binary rows stay self-consistent". |

`LogWriter_power.cfg` with `SyncPolicy = "Never"` and `PowerLoss = FALSE` passes
its invariants too: process crashes alone lose nothing that was acknowledged.

Modelled as the code has them, without a property that objects: ALTER TABLE
ignores everything after its first action (parser.rs:76-80 says that only one is
modelled); `?` in the part of SET that is skipped is not counted as a parameter;
`CONSTRAINT UNIQUE (a)` takes UNIQUE for the name of the constraint; `COUNT()` is
`COUNT(*)`.

## Not modelled

* Values (partly modelled): Column types, rescaling, retyping, coercion. Texts are what they can be read as; the digits are not spelled out.
* Connection (partly modelled): Handshake, TLS upgrade, authentication, every command, pipelining, batches, timeouts, failing reads and writes. What a statement does to the storage is its outcome here; module Storage has the effect.
* Wire protocol (partly modelled): Module Wire has the bytes of packets, length-encoded values, result sets in both formats, OK, ERR and EOF packets, prepared statements and their parameters, over a socket that cuts them anywhere; a byte has 4 bits there. Module Connection has which packets are sent in which order. The bytes of the handshake packets are not modelled: the fields they carry are, in Connection.
* Authentication plugins (partly modelled): Choice of plugin, switch, verdict; a response is good for one password and one scramble. The scramble computations are not modelled.
* Metrics (partly modelled): connections_active and its compare-exchange loop. The cumulative counters and the logger change nothing else.
* Hashes (not modelled): Pure functions on bytes, defined by test vectors of their standards.
* Configuration and entry point (not modelled): Reads environment variables once, before anything runs; what it yields (the sync policy, the limits, the timeouts) are constants of the modules. The mapping of an error to its MySQL code changes no state.
* `InMemoryStorage::insert_row` for a single row outside a transaction: no
  statement reaches it; INSERT uses `insert_rows`.
* Writes of a connection that block because the client does not read: the timers
  of `handle` bound reads only, so nothing in the code says when such a write
  ends, and a model would add a wait without an end.
* One composition of everything. Each pair of neighbours meets in an abstraction
  (see Modules); the product of two such modules is beyond what TLC explores
  with instances in which the interesting cases still happen.

## Plan

Done: `LogWriter` with `DurableLog`, `LogFormat`, `Checkpoint`, `Values`,
`Tables`, `Storage` with `TxStore`, `Connection`, `Wire`, `Server`, `Query`,
`Introspection`, `Select`, `Lexer`, `Grammar`, `Sql`, and the proofs above.

Next, in this order:

1. Proofs: `ClientInStep` and `AnswersInOrder` for `Connection`, which need an
   invariant that relates every packet on its way to the reader's place in the
   response it belongs to; `NeverReused` for `Storage`.
2. A composition of `Connection` and `Storage` in which a dropped connection
   leaves a statement half-way.
3. The bytes of the handshake packets, in `Wire`.
