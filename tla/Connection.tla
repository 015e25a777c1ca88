----------------------------- MODULE Connection -----------------------------
(***************************************************************************)
(* One client connection: server/connection.rs with the framing of         *)
(* protocol/{packet,handshake,response,resultset,prepared}.rs, the stream  *)
(* swap of server/tls.rs and the verdict of auth/mod.rs.                   *)
(*                                                                         *)
(* The server half is translated from the code.  The client half is        *)
(* external: it is the reader the MySQL protocol prescribes, which knows   *)
(* what the next packet may be only from the packets it has already read.  *)
(* Payloads are abstracted to what the two ends branch on; every packet    *)
(* to the client carries, as a ghost, the number of the command it         *)
(* answers (0 during the connection phase).                                *)
(***************************************************************************)
EXTENDS Integers, Sequences

CONSTANTS
    Tls,            \* config.tls is set
    DefaultPlugin,  \* config.default_auth_plugin
    Accounts,       \* user name -> the account's plugin
    Clients,        \* the clients that may connect (records, see ClientType)
    Commands,       \* the command kinds the client uses
    Outcomes,       \* what executing a statement may give (see OutcomeType)
    Shapes,         \* how a client packet may be framed
    Unserved,       \* how a command may be one the command loop does not serve
    MaxCommands,    \* bound: commands per connection
    MaxPipeline,    \* bound: commands sent ahead of their responses
    MaxBatch,       \* bound: statements in one COM_QUERY
    MaxParams,      \* bound: placeholders in one prepared statement
    SeqIds,         \* the sequence id is a u8: 2^8 in the code
    IdMod,          \* the statement id is a u32: 2^32 in the code
    ParamMod        \* num_params is a u16: 2^16 in the code

KnownPlugins == {"native", "sha2"}

ClientType ==
    [user : STRING, right : BOOLEAN, plugin : STRING, ssl : BOOLEAN,
     multi : BOOLEAN, deprecate : BOOLEAN]

OutcomeType == [ok : BOOLEAN, cols : Nat, rows : Nat, huge : BOOLEAN]

\* The commands run_command_loop tells apart; "unknown" stands for the others.
CommandKinds ==
    {"query", "ping", "quit", "unknown", "prepare", "execute", "close", "reset"}

ASSUME ConnectionAssumption ==
    /\ Tls \in BOOLEAN
    /\ DefaultPlugin \in KnownPlugins
    /\ \A u \in DOMAIN Accounts : Accounts[u] \in KnownPlugins
    /\ Clients \subseteq ClientType
    /\ Commands \subseteq CommandKinds
    /\ Unserved \subseteq {"empty", "notUtf8", "split"}
    /\ Outcomes \subseteq OutcomeType
    /\ SeqIds \in Nat \ {0, 1} /\ IdMod \in Nat \ {0, 1} /\ ParamMod \in Nat \ {0}

VARIABLES
    \* Connection (server/connection.rs)
    phase,      \* where handle() is: which await the task is at
    seq,        \* sequence_id
    scramble,   \* scramble: 0 none, 1 the greeting's, 2 the auth-switch's
    caps,       \* client_capabilities: <<multi statements, deprecate EOF>>
    login,      \* the parsed HandshakeResponse41 while authenticate() waits
    buf,        \* read_buf: packets read and not yet consumed
    prepared,   \* prepared: statement id -> param_count
    nextId,     \* next_statement_id
    left,       \* statements of the running command still to execute
    answering,  \* ghost: number of the command being answered
    why,        \* how handle() ended
    \* the socket
    wireIn,     \* sent by the client, not yet read
    wireOut,    \* sent by the server, not yet read
    \* the client (external)
    client,     \* who it is and which capabilities it declares
    stage,      \* what it is doing
    told,       \* the plugin and scramble it was last told to use
    cseq,       \* the sequence id it will use or expect next
    expect,     \* where it is inside a response: [what, left]
    pending,    \* commands it has sent whose response is not complete
    held,       \* statement id -> placeholders of the statement it prepared
    sent,       \* commands sent
    faulty      \* it has sent a packet the server ends the connection for

server == <<phase, seq, scramble, caps, login, buf, prepared, nextId, left,
            answering, why>>
user == <<client, stage, told, cseq, expect, pending, held, sent, faulty>>
vars == <<server, wireIn, wireOut, user>>

None == [kind |-> "none"]
Idle == [what |-> "first", left |-> 0]

-----------------------------------------------------------------------------
(* Packets the server sends.                                               *)

\* A packet before it gets its sequence id; `n` is the field of the payload
\* the client acts on, `more` is SERVER_MORE_RESULTS_EXISTS.
Body(kind, n, more) == [kind |-> kind, n |-> n, more |-> more]

Repeat(n, body) == [i \in 1..n |-> body]

(* Mutant: the EOF after the definitions is sent under both framings. *)
ResultSetAlwaysEof(cols, rows, more, deprecate) ==
    <<Body("count", cols, FALSE)>>
    \o Repeat(cols, Body("def", 0, FALSE))
    \o <<Body("eof", 0, more)>>
    \o Repeat(rows, Body("row", 0, FALSE))
    \o <<Body(IF deprecate THEN "okEof" ELSE "eof", 0, more)>>

\* ResultSet::encode_into: the column count, one definition per column, an
\* EOF under classic framing, the rows, and the terminator.
ResultSet(cols, rows, more, deprecate) ==
    <<Body("count", cols, FALSE)>>
    \o Repeat(cols, Body("def", 0, FALSE))
    \o (IF deprecate THEN <<>> ELSE <<Body("eof", 0, more)>>)
    \o Repeat(rows, Body("row", 0, FALSE))
    \o <<Body(IF deprecate THEN "okEof" ELSE "eof", 0, more)>>

\* The response of handle_stmt_prepare; num_params is `param_count as u16`.
PrepareOk(id, params, deprecate) ==
    <<Body("prepareOk", [id |-> id, params |-> params % ParamMod], FALSE)>>
    \o Repeat(params, Body("def", 0, FALSE))
    \o (IF params > 0 /\ ~deprecate THEN <<Body("eof", 0, FALSE)>> ELSE <<>>)

\* write_packet / flush_out_buf: number the packets from sequence id `at` on
\* and hand them to the socket.
Number(bodies, at, tag) ==
    [i \in DOMAIN bodies |->
        [seq |-> (at + i - 1) % SeqIds, for |-> tag, kind |-> bodies[i].kind,
         n |-> bodies[i].n, more |-> bodies[i].more]]

Send(bodies, at, tag) ==
    /\ wireOut' = wireOut \o Number(bodies, at, tag)
    /\ seq' = (at + Len(bodies)) % SeqIds

Close(reason) ==
    /\ phase' = "closed"
    /\ why' = reason

-----------------------------------------------------------------------------
Init ==
    /\ phase = "greet" /\ seq = 0 /\ scramble = 0 /\ caps = <<FALSE, FALSE>>
    /\ login = None /\ buf = <<>> /\ prepared = <<>> /\ nextId = 1
    /\ left = 0 /\ answering = 0 /\ why = "open"
    /\ wireIn = <<>> /\ wireOut = <<>>
    /\ client \in Clients
    /\ stage = "greeting" /\ told = None /\ cseq = 0 /\ expect = Idle /\ pending = <<>>
    /\ held = <<>> /\ sent = 0 /\ faulty = FALSE

-----------------------------------------------------------------------------
(* Connection phase.                                                       *)

\* perform_handshake, up to the first read.
Greet ==
    /\ phase = "greet"
    /\ scramble' = 1
    /\ Send(<<Body("greeting", [plugin |-> DefaultPlugin, scramble |-> 1], FALSE)>>, seq, 0)
    /\ phase' = "response"
    /\ UNCHANGED <<caps, login, buf, prepared, nextId, left, answering, why,
                   wireIn, user>>

\* read_packet: one read() of the socket moves some of what has arrived into
\* read_buf, whole packets at a time here.
Read ==
    /\ phase \in {"response", "tlsResponse", "switch", "command"}
    /\ buf = <<>>
    /\ \E n \in 1..Len(wireIn) :
          /\ buf' = SubSeq(wireIn, 1, n)
          /\ wireIn' = SubSeq(wireIn, n + 1, Len(wireIn))
    /\ UNCHANGED <<phase, seq, scramble, caps, login, prepared, nextId, left,
                   answering, why, wireOut, user>>

\* read_packet: read() returns 0, or fails: the peer is gone.
ReadEof ==
    /\ phase \in {"response", "tls", "tlsResponse", "switch", "command"}
    /\ buf = <<>> /\ wireIn = <<>> /\ stage = "gone"
    /\ Close("hangup")
    /\ UNCHANGED <<seq, scramble, caps, login, buf, prepared, nextId, left,
                   answering, wireIn, wireOut, user>>

\* A write to a peer that is gone fails while the next packet is answered.
WriteFails ==
    /\ stage = "gone"
    /\ phase \in {"greet", "query"} \/ (phase # "closed" /\ buf # <<>>)
    /\ Close("hangup")
    /\ UNCHANGED <<seq, scramble, caps, login, buf, prepared, nextId, left,
                   answering, wireIn, wireOut, user>>

\* Packet::parse, declared_payload_len and the sequence-id checks: the next
\* packet is refused, and the connection ends with a protocol error.  The
\* second frame of a command, which run_command_loop reads as a command of its
\* own, is refused here for its sequence id.
Refuse ==
    /\ phase \in {"response", "tlsResponse", "switch", "command"}
    /\ buf # <<>>
    /\ \/ Head(buf).shape = "malformed"
       \/ Head(buf).seq # IF phase = "command" THEN 0 ELSE seq
    /\ Close("protocol")
    /\ buf' = Tail(buf)
    /\ UNCHANGED <<seq, scramble, caps, login, prepared, nextId, left,
                   answering, wireIn, wireOut, user>>

(* Mutant: read_buf is cleared once a packet is parsed. *)
TakePacketDroppingRest ==
    /\ buf # <<>>
    /\ Head(buf).shape # "malformed"
    /\ Head(buf).seq = IF phase = "command" THEN 0 ELSE seq
    /\ buf' = <<>>

\* read_packet returns the next packet, and its sequence id is the one due.
TakePacket ==
    /\ buf # <<>>
    /\ Head(buf).shape # "malformed"
    /\ Head(buf).seq = IF phase = "command" THEN 0 ELSE seq
    /\ buf' = Tail(buf)

\* Authenticator::authenticate, on a response computed as `proof`.
Verified(u, plugin, proof) ==
    /\ u \in DOMAIN Accounts
    /\ Accounts[u] = plugin
    /\ proof = [plugin |-> plugin, scramble |-> scramble, right |-> TRUE]

\* The end of authenticate(): send the verdict; handle() goes on or returns.
\* `at` is the sequence id once the client's packet has been counted.
Verdict(l, plugin, proof, at) ==
    LET ok == Verified(l.user, plugin, proof)
        bodies == IF ok
                    THEN (IF plugin = "sha2" THEN <<Body("moreData", 0, FALSE)>>
                                             ELSE <<>>)
                         \o <<Body("ok", 0, FALSE)>>
                    ELSE <<Body("err", 0, FALSE)>>
    IN  /\ Send(bodies, at, 0)
        /\ IF ok THEN /\ phase' = "command"
                      /\ caps' = <<l.multi, l.deprecate>>
                      /\ UNCHANGED why
                 ELSE /\ Close("denied")
                      /\ UNCHANGED caps
        /\ login' = None

(* Mutant: the response to an auth-switch is checked against the scramble of
   the greeting. *)
AuthenticateOldScramble(l) ==
    LET client_plugin == IF l.plugin \in KnownPlugins THEN l.plugin
                                                     ELSE DefaultPlugin
        target_plugin == IF l.user \in DOMAIN Accounts THEN Accounts[l.user]
                                                      ELSE client_plugin
        at == (seq + 1) % SeqIds
    IN  /\ UNCHANGED scramble
        /\ \/ /\ client_plugin = target_plugin
              /\ Verdict(l, target_plugin, l.proof, at)
           \/ /\ client_plugin # target_plugin
              /\ Send(<<Body("switch", [plugin |-> target_plugin, scramble |-> 2], FALSE)>>,
                      at, 0)
              /\ login' = l
              /\ phase' = "switch"
              /\ UNCHANGED <<caps, why>>

\* authenticate(), once the response is parsed: compare the plugin the client
\* used with the account's, and verify or ask for a switch.
Authenticate(l) ==
    LET client_plugin == IF l.plugin \in KnownPlugins THEN l.plugin
                                                     ELSE DefaultPlugin
        target_plugin == IF l.user \in DOMAIN Accounts THEN Accounts[l.user]
                                                      ELSE client_plugin
        at == (seq + 1) % SeqIds
    IN  \/ /\ client_plugin = target_plugin
           /\ Verdict(l, target_plugin, l.proof, at)
           /\ UNCHANGED scramble
        \/ /\ client_plugin # target_plugin
           /\ scramble' = 2
           /\ Send(<<Body("switch", [plugin |-> target_plugin, scramble |-> 2], FALSE)>>,
                   at, 0)
           /\ login' = l
           /\ phase' = "switch"
           /\ UNCHANGED <<caps, why>>

\* perform_handshake, from the first read on: an SSLRequest starts the TLS
\* upgrade, anything else is the response itself.
ReadResponse ==
    /\ phase = "response"
    /\ TakePacket
    /\ \/ /\ Tls /\ Head(buf).kind = "sslRequest"
          /\ phase' = "tls"
          /\ seq' = (seq + 1) % SeqIds
          /\ UNCHANGED <<scramble, caps, login, why, wireOut>>
       \/ /\ Head(buf).kind = "response"
          /\ Authenticate(Head(buf))
    /\ UNCHANGED <<prepared, nextId, left, answering, wireIn, user>>

\* upgrade_to_tls: the handshake reads what read_buf already held, through
\* PrefixedStream, before it reads the socket.  It has no timeout.
TlsAccept ==
    /\ phase = "tls"
    /\ LET input == buf \o wireIn
       IN  /\ input # <<>>
           /\ Head(input).kind = "hello"
           /\ \/ /\ phase' = "tlsResponse"
                 /\ wireOut' = wireOut \o Number(<<Body("tls", 0, FALSE)>>, 0, 0)
                 /\ UNCHANGED why
              \/ /\ Close("tls")
                 /\ UNCHANGED wireOut
           /\ buf' = <<>>
           /\ wireIn' = Tail(input)
    /\ UNCHANGED <<seq, scramble, caps, login, prepared, nextId, left,
                   answering, user>>

\* perform_handshake after the upgrade: the real response, over TLS.
ReadTlsResponse ==
    /\ phase = "tlsResponse"
    /\ TakePacket
    /\ Head(buf).kind = "response"
    /\ Authenticate(Head(buf))
    /\ UNCHANGED <<prepared, nextId, left, answering, wireIn, user>>

\* authenticate() after an AuthSwitchRequest.
ReadSwitchResponse ==
    /\ phase = "switch"
    /\ TakePacket
    /\ Head(buf).kind = "switchResponse"
    /\ Verdict(login, Accounts[login.user], Head(buf).proof, (seq + 1) % SeqIds)
    /\ UNCHANGED <<scramble, prepared, nextId, left, answering, wireIn, user>>

(* Mutant: only the handshake response is read under the timeout. *)
ConnectTimeoutFirstRead ==
    /\ phase = "response"
    /\ buf = <<>>
    /\ Close("timeout")
    /\ UNCHANGED <<seq, scramble, caps, login, buf, prepared, nextId, left,
                   answering, wireIn, wireOut, user>>

\* read_packet_before_connect_timeout: the timer fires while the read blocks.
ConnectTimeout ==
    /\ phase \in {"response", "tlsResponse", "switch"}
    /\ buf = <<>>
    /\ Close("timeout")
    /\ UNCHANGED <<seq, scramble, caps, login, buf, prepared, nextId, left,
                   answering, wireIn, wireOut, user>>

-----------------------------------------------------------------------------
(* Command phase.                                                          *)

\* run_command_loop: the wait_timeout timer fires while the read blocks.
WaitTimeout ==
    /\ phase = "command"
    /\ buf = <<>>
    /\ Close("timeout")
    /\ UNCHANGED <<seq, scramble, caps, login, buf, prepared, nextId, left,
                   answering, wireIn, wireOut, user>>

\* A command packet without a command byte, and a COM_QUERY whose text is not
\* UTF-8: run_command_loop returns an error, and nothing is answered.
RefuseCommand ==
    /\ phase = "command"
    /\ TakePacket
    /\ Head(buf).shape \in {"empty", "notUtf8"}
    /\ seq' = 1
    /\ Close("protocol")
    /\ UNCHANGED <<scramble, caps, login, prepared, nextId, left, answering,
                   wireIn, wireOut, user>>

\* What every arm of run_command_loop's match shares.
Dispatch(kind) ==
    /\ phase = "command"
    /\ TakePacket
    /\ Head(buf).shape \notin {"empty", "notUtf8"}
    /\ Head(buf).kind = kind
    /\ answering' = Head(buf).tag
    /\ UNCHANGED <<scramble, caps, login, wireIn, user>>

\* An arm that answers with `bodies` and goes back to reading.
Reply(bodies) ==
    /\ Send(bodies, 1, Head(buf).tag)
    /\ UNCHANGED <<phase, why, left>>

Err == <<Body("err", 0, FALSE)>>
Ok(more) == <<Body("ok", 0, more)>>

ComQuit ==
    /\ Dispatch("quit")
    /\ Close("quit")
    /\ UNCHANGED <<seq, prepared, nextId, left, wireOut>>

ComPing ==
    /\ Dispatch("ping")
    /\ Reply(Ok(FALSE))
    /\ UNCHANGED <<prepared, nextId>>

(* Mutant: a command the server does not know is skipped. *)
ComUnknownSkipped ==
    /\ Dispatch("unknown")
    /\ seq' = 1
    /\ UNCHANGED <<phase, why, left, wireOut, prepared, nextId>>

ComUnknown ==
    /\ Dispatch("unknown")
    /\ Reply(Err)
    /\ UNCHANGED <<prepared, nextId>>

\* The statements of a command are about to be executed one by one.
Start(n) ==
    /\ phase' = "query"
    /\ left' = n
    /\ seq' = 1
    /\ UNCHANGED <<why, wireOut>>

\* handle_query up to the loop: `n` statements were parsed, 0 stands for a
\* text parse_many refuses.
ComQuery ==
    /\ Dispatch("query")
    /\ LET n == Head(buf).n
       IN  IF n = 0 \/ (n > 1 /\ ~caps[1]) THEN Reply(Err) ELSE Start(n)
    /\ UNCHANGED <<prepared, nextId>>

(* Mutant: next_statement_id is not advanced. *)
ComStmtPrepareSameId ==
    /\ Dispatch("prepare")
    /\ LET n == Head(buf).n
       IN  \/ /\ n < 0
              /\ Reply(Err)
              /\ UNCHANGED prepared
           \/ /\ n >= 0
              /\ Reply(PrepareOk(nextId, n, caps[2]))
              /\ prepared' = [id \in DOMAIN prepared \cup {nextId} |->
                                 IF id = nextId THEN n ELSE prepared[id]]
    /\ UNCHANGED nextId

\* handle_stmt_prepare: `n` placeholders, -1 for a text that is not UTF-8 or
\* does not parse.
ComStmtPrepare ==
    /\ Dispatch("prepare")
    /\ LET n == Head(buf).n
       IN  \/ /\ n < 0
              /\ Reply(Err)
              /\ UNCHANGED <<prepared, nextId>>
           \/ /\ n >= 0
              /\ Reply(PrepareOk(nextId, n, caps[2]))
              /\ prepared' = [id \in DOMAIN prepared \cup {nextId} |->
                                 IF id = nextId THEN n ELSE prepared[id]]
              /\ nextId' = (nextId + 1) % IdMod

\* handle_stmt_execute: decoding and binding the parameters may fail, which
\* is one of the outcomes of the statement.
ComStmtExecute ==
    /\ Dispatch("execute")
    /\ IF Head(buf).n \in DOMAIN prepared THEN Start(1) ELSE Reply(Err)
    /\ UNCHANGED <<prepared, nextId>>

\* handle_stmt_close: no response.
ComStmtClose ==
    /\ Dispatch("close")
    /\ prepared' = [id \in DOMAIN prepared \ {Head(buf).n} |-> prepared[id]]
    /\ seq' = 1
    /\ UNCHANGED <<phase, why, left, nextId, wireOut>>

ComStmtReset ==
    /\ Dispatch("reset")
    /\ Reply(IF Head(buf).n \in DOMAIN prepared THEN Ok(FALSE) ELSE Err)
    /\ UNCHANGED <<prepared, nextId>>

\* send_result: an OK, a result set or an ERR.  A row too large for one
\* packet makes encode_into fail before anything is flushed, and `?` ends the
\* connection.
SendResult(o, more) ==
    LET bodies == IF ~o.ok THEN Err
                  ELSE IF o.cols = 0 THEN Ok(more)
                  ELSE ResultSet(o.cols, o.rows, more, caps[2])
    IN  IF o.ok /\ o.huge
          THEN /\ Close("encode")
               /\ UNCHANGED <<seq, wireOut, left>>
          ELSE /\ Send(bodies, seq, answering)
               /\ left' = IF o.ok THEN left - 1 ELSE 0
               /\ phase' = IF left' = 0 THEN "command" ELSE "query"
               /\ UNCHANGED why

\* One round of handle_query's loop, or the body of handle_stmt_execute.
ExecuteStatement ==
    /\ phase = "query"
    /\ \E o \in Outcomes : SendResult(o, o.ok /\ left > 1)
    /\ UNCHANGED <<scramble, caps, login, buf, prepared, nextId, answering,
                   wireIn, user>>

Serve ==
    \/ Greet \/ Read \/ ReadEof \/ WriteFails \/ Refuse
    \/ ReadResponse \/ TlsAccept \/ ReadTlsResponse \/ ReadSwitchResponse
    \/ RefuseCommand \/ ComQuit \/ ComPing \/ ComUnknown \/ ComQuery \/ ComStmtPrepare
    \/ ComStmtExecute \/ ComStmtClose \/ ComStmtReset \/ ExecuteStatement

-----------------------------------------------------------------------------
(* The client (external).                                                  *)

Proof == [plugin |-> IF client.plugin = "none" THEN told.plugin ELSE client.plugin,
          scramble |-> told.scramble, right |-> client.right]

\* What the response to the greeting or an auth-switch carries.
Login(proof) ==
    [kind |-> "response", user |-> client.user, plugin |-> client.plugin,
     multi |-> client.multi, deprecate |-> client.deprecate, proof |-> proof]

\* A client packet on the wire: well formed and in sequence, or not.
Packet(body, at, shape) ==
    [f \in DOMAIN body \cup {"shape", "seq"} |->
        CASE f = "shape" -> shape
          [] f = "seq"   -> IF shape = "outOfSequence" THEN (at + 1) % SeqIds ELSE at
          [] OTHER       -> body[f]]

ClientSend(bodies, at) ==
    \E shape \in Shapes :
        /\ wireIn' = wireIn \o [i \in DOMAIN bodies |-> Packet(bodies[i], at, shape)]
        /\ faulty' = (faulty \/ shape # "good")

\* A command the server has no place for: an empty packet, a query in another
\* character set, or one too long for a frame, whose rest follows in a frame
\* with the next sequence id (the argument is then what its first frame says).
ClientSendUnserved(c) ==
    \E shape \in Unserved :
        /\ shape = "empty" => c.kind = "unknown"
        /\ shape = "notUtf8" => c.kind = "query"
        /\ shape = "split" => c.kind \in {"query", "prepare", "execute"}
        /\ wireIn' = wireIn \o <<Packet(c, 0, shape)>>
                     \o (IF shape = "split" THEN <<Packet(c, 1, shape)>> ELSE <<>>)
        /\ faulty' = TRUE

\* The client reads the next packet, which is of one of the kinds it knows
\* how to read here and carries the sequence id that is due.
Receives(kinds) ==
    /\ wireOut # <<>>
    /\ Head(wireOut).kind \in kinds
    /\ Head(wireOut).seq = cseq
    /\ wireOut' = Tail(wireOut)

\* The greeting arrives; the client upgrades to TLS if it wants to and the
\* server offers it, with the TLS hello right behind the request or later.
ClientGreeting ==
    /\ stage = "greeting"
    /\ Receives({"greeting"})
    /\ told' = Head(wireOut).n
    /\ IF Tls /\ client.ssl
         THEN \/ /\ ClientSend(<<[kind |-> "sslRequest"]>>, 1)
                 /\ stage' = "hello"
              \/ /\ ClientSend(<<[kind |-> "sslRequest"], [kind |-> "hello"]>>, 1)
                 /\ stage' = "tlsWait"
         ELSE /\ stage' = "respond"
              /\ UNCHANGED <<wireIn, faulty>>
    /\ cseq' = IF Tls /\ client.ssl THEN 2 ELSE 1
    /\ UNCHANGED <<server, client, expect, pending, held, sent>>

ClientHello ==
    /\ stage = "hello"
    /\ wireIn' = Append(wireIn, Packet([kind |-> "hello"], 0, "good"))
    /\ stage' = "tlsWait"
    /\ UNCHANGED <<server, wireOut, client, told, cseq, expect, pending, held,
                   sent, faulty>>

ClientTlsDone ==
    /\ stage = "tlsWait"
    /\ wireOut # <<>> /\ Head(wireOut).kind = "tls"
    /\ wireOut' = Tail(wireOut)
    /\ stage' = "respond"
    /\ UNCHANGED <<server, wireIn, client, told, cseq, expect, pending, held, sent, faulty>>

ClientRespond ==
    /\ stage = "respond"
    /\ ClientSend(<<Login(Proof)>>, cseq)
    /\ cseq' = (cseq + 1) % SeqIds
    /\ stage' = "verdict"
    /\ UNCHANGED <<server, wireOut, client, told, expect, pending, held, sent>>

ClientSwitch ==
    /\ stage = "verdict"
    /\ Receives({"switch"})
    /\ told' = Head(wireOut).n
    /\ ClientSend(<<[kind |-> "switchResponse",
                     proof |-> [plugin |-> Head(wireOut).n.plugin,
                                scramble |-> Head(wireOut).n.scramble,
                                right |-> client.right]]>>,
                  (cseq + 1) % SeqIds)
    /\ cseq' = (cseq + 2) % SeqIds
    /\ UNCHANGED <<server, client, stage, expect, pending, held, sent>>

ClientVerdict ==
    /\ stage = "verdict"
    /\ Receives({"moreData", "ok", "err"})
    /\ LET kind == Head(wireOut).kind
       IN  /\ stage' = CASE kind = "moreData" -> "verdict"
                         [] kind = "ok" -> "ready"
                         [] kind = "err" -> "gone"
           /\ cseq' = IF kind = "moreData" THEN (cseq + 1) % SeqIds ELSE 1
    /\ UNCHANGED <<server, wireIn, client, told, expect, pending, held, sent, faulty>>

\* The argument of a command: statements of a query, placeholders of a
\* prepare, the id of a statement (0 is one the server never gave out).
Argument(kind) ==
    CASE kind = "query" -> 0..MaxBatch
      [] kind = "prepare" -> -1..MaxParams
      [] kind \in {"execute", "close", "reset"} -> DOMAIN held \cup {0}
      [] OTHER -> {0}

\* A command is sent, possibly ahead of the responses to earlier ones.
ClientCommand ==
    /\ stage = "ready" /\ phase # "closed"
    /\ sent < MaxCommands /\ Len(pending) < MaxPipeline
    /\ \E kind \in Commands : \E n \in Argument(kind) :
          LET c == [kind |-> kind, n |-> n, tag |-> sent + 1]
          IN  /\ ClientSend(<<c>>, 0) \/ ClientSendUnserved(c)
              /\ stage' = IF kind = "quit" THEN "quit" ELSE "ready"
              /\ pending' = IF kind \in {"quit", "close"} THEN pending
                                                          ELSE Append(pending, c)
              /\ held' = [id \in DOMAIN held \ (IF kind = "close" THEN {n} ELSE {}) |->
                             held[id]]
    /\ sent' = sent + 1
    /\ UNCHANGED <<server, wireOut, client, told, cseq, expect>>

\* The kinds of packet a reader of the protocol can make sense of now: by its
\* stage while connecting, then by how far it is in the response to its
\* oldest pending command.
Legible ==
    LET kind == Head(pending).kind
    IN  CASE stage = "greeting" -> {"greeting"}
          [] stage = "tlsWait" -> {"tls"}
          [] stage = "verdict" -> {"switch", "moreData", "ok", "err"}
          [] stage \in {"hello", "respond"} \/ pending = <<>> -> {}
          [] expect.what = "first" /\ kind \in {"query", "execute"} -> {"ok", "err", "count"}
          [] expect.what = "first" /\ kind = "prepare" -> {"prepareOk", "err"}
          [] expect.what = "first" -> {"ok", "err"}
          [] expect.what \in {"defs", "params"} -> {"def"}
          [] expect.what \in {"defsEof", "paramsEof"} -> {"eof"}
          [] expect.what = "rows" -> {"row", IF client.deprecate THEN "okEof" ELSE "eof"}

\* Where the reader is after packet p; "done" when p ended the response.
After(p) ==
    LET defs(n, what, next) == [what |-> IF n > 0 THEN what ELSE next, left |-> n]
        afterDefs == IF client.deprecate THEN "rows" ELSE "defsEof"
        afterParams == IF client.deprecate THEN "done" ELSE "paramsEof"
        end == IF p.more THEN Idle ELSE [what |-> "done", left |-> 0]
    IN  CASE p.kind \in {"ok", "err", "okEof"} -> end
          [] p.kind = "count" -> defs(p.n, "defs", afterDefs)
          [] p.kind = "prepareOk" ->
                defs(p.n.params, "params", "done")
          [] p.kind = "def" ->
                defs(expect.left - 1, expect.what,
                     IF expect.what = "defs" THEN afterDefs ELSE afterParams)
          [] p.kind = "eof" /\ expect.what = "defsEof" -> [what |-> "rows", left |-> 0]
          [] p.kind = "eof" -> end
          [] p.kind = "row" -> expect

ClientReceive ==
    /\ stage \in {"ready", "quit"}
    /\ Receives(Legible)
    /\ LET p == Head(wireOut)
           next == After(p)
           done == next.what = "done"
       IN  /\ expect' = IF done THEN Idle ELSE next
           /\ pending' = IF done THEN Tail(pending) ELSE pending
           /\ cseq' = IF done THEN 1 ELSE (cseq + 1) % SeqIds
           /\ held' = IF p.kind = "prepareOk"
                        THEN [id \in DOMAIN held \cup {p.n.id} |->
                                 IF id = p.n.id THEN Head(pending).n ELSE held[id]]
                        ELSE held
    /\ UNCHANGED <<server, wireIn, client, stage, told, sent, faulty>>

\* The client closes the socket, at any moment.
ClientClose ==
    /\ stage # "gone" /\ phase # "closed"
    /\ stage' = "gone"
    /\ UNCHANGED <<server, wireIn, wireOut, client, told, cseq, expect, pending,
                   held, sent, faulty>>

ClientStep ==
    \/ ClientGreeting \/ ClientHello \/ ClientTlsDone \/ ClientRespond
    \/ ClientSwitch \/ ClientVerdict \/ ClientCommand \/ ClientReceive
    \/ ClientClose

-----------------------------------------------------------------------------
\* handle() has returned and the socket is closed.
Ended == phase = "closed" /\ UNCHANGED vars

Next == Serve \/ ConnectTimeout \/ WaitTimeout \/ ClientStep \/ Ended

\* The runtime keeps polling the connection's task, and its timers fire.
\* Nothing is assumed of the client.
Fairness == WF_vars(Serve) /\ WF_vars(ConnectTimeout)

Spec == Init /\ [][Next]_vars /\ Fairness

-----------------------------------------------------------------------------
(* Properties.                                                             *)

\* A client that reads by the protocol alone is never lost: whatever it finds
\* next on the socket is a packet it can read at this point of the response
\* (verdict, column count, definitions, EOF, rows and terminator, more
\* results or none) and carries the next sequence id, also when the id wraps, when
\* commands are pipelined and when a batch is cut short by an error.
ClientInStep ==
    wireOut # <<>> /\ stage # "gone" =>
        /\ Head(wireOut).kind \in Legible
        /\ Head(wireOut).seq = cseq \/ Head(wireOut).kind = "tls"

\* Responses come in the order of the commands and whole: what the client
\* reads as part of the response to its oldest pending command was sent by the
\* handler of that very command, and once the server waits for a command and
\* both directions are drained the client is owed nothing.
AnswersInOrder ==
    /\ wireOut # <<>> /\ stage \in {"ready", "quit"} =>
         pending # <<>> /\ Head(wireOut).for = Head(pending).tag
    /\ phase = "command" /\ buf = <<>> /\ wireIn = <<>> /\ wireOut = <<>>
         /\ stage \in {"ready", "quit"} /\ ~faulty
         => pending = <<>> /\ expect = Idle

\* A statement the client prepared and has not closed is still held by the
\* connection under the id it was given, with the placeholders it was
\* prepared with.
StatementsAgree ==
    phase # "closed" =>
        \A id \in DOMAIN held :
            id \in DOMAIN prepared /\ prepared[id] = held[id]

\* A client that knows its account's password is never denied, whichever
\* plugin the server advertises, the client declares and the account uses.
HonestAdmitted ==
    why = "denied" => ~(client.right /\ client.user \in DOMAIN Accounts)

\* An error in a query never drops the connection, as handle_query and
\* send_result say: a client whose packets are well framed and in sequence, and
\* whose commands are not empty, fit in one frame and, for COM_QUERY, are UTF-8,
\* keeps its connection until it quits, hangs up, stays idle, is denied or fails
\* the TLS handshake.
QueryErrorsKeepConnection ==
    phase = "closed" /\ ~faulty => why \in {"quit", "hangup", "timeout", "denied", "tls"}

\* A connection that is not authenticated yet does not stay so, whatever the
\* client does or does not send: it reaches the command phase or is closed.
\* The one wait without a bound is that for the client's part of the TLS
\* handshake.
ConnectingEnds ==
    phase \in {"greet", "response", "tlsResponse", "switch"}
        ~> phase \in {"tls", "command", "query", "closed"}

\* The same without the exception, as Config::connect_timeout has it.
HandshakeEnds ==
    phase \in {"greet", "response", "tls", "tlsResponse", "switch"}
        ~> phase \in {"command", "query", "closed"}

\* Every command the client sends is dispatched and answered in full, unless
\* the connection ends first.
EveryCommandAnswered ==
    \A t \in 1..MaxCommands :
        sent >= t ~> (phase = "closed" \/ (phase = "command" /\ answering >= t))
=============================================================================
