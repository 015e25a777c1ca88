-------------------------------- MODULE Wire --------------------------------
(***************************************************************************)
(* The bytes of one command and its response: protocol/packet.rs,          *)
(* lenenc.rs, resultset.rs, prepared.rs and response.rs, with read_packet  *)
(* and send_result of server/connection.rs.  The socket hands over what it *)
(* is given in pieces of any size.                                         *)
(*                                                                         *)
(* The server half is translated from the code.  The client half is        *)
(* external: the MySQL protocol's own reader and writer.  A byte has Byte  *)
(* values, so that the limits of the encodings (251, 2^16, 2^24, the wrap  *)
(* of the sequence id) come within reach; the digits and the sign of a     *)
(* number are the first characters of the code page.                       *)
(***************************************************************************)
EXTENDS Integers, Sequences, SequencesExt

CONSTANTS
    Bits,              \* bits of a byte: 8 in the code
    Exchanges          \* what is said: a command, what the server answers to
                       \* what it hears, whether CLIENT_DEPRECATE_EOF is on, the
                       \* sizes of the pieces, and config.max_allowed_packet

Byte == 2 ^ Bits
MaxPayload == Byte ^ 3 - 1
HeaderLen == 4

ASSUME WireAssumption == Bits \in Nat /\ Bits >= 4

VARIABLES
    exchange,  \* what is said, chosen at the start
    wire,      \* bytes on their way to the reader
    buf,       \* the reader's buffer
    pc,        \* "command": the server reads; "response": the client reads; "closed"
    heard,     \* the command, as the server read it
    reader     \* the client: where it is in the response, and what it has read

vars == <<exchange, wire, buf, pc, heard, reader>>

-----------------------------------------------------------------------------
(* Integers and strings.                                                   *)

\* to_le_bytes of an integer of `width` bytes, in two's complement.
ToLe(n, width) == [i \in 1 .. width |-> (n \div Byte ^ (i - 1)) % Byte]

FromLe(b) == FoldRight(LAMBDA d, n : Byte * n + d, b, 0)

\* from_le_bytes of a signed integer: the last byte carries the sign.
FromLeSigned(b) ==
    LET top == Last(b)
    IN  FromLe(Front(b)) + (IF top < Byte \div 2 THEN top ELSE top - Byte) * Byte ^ (Len(b) - 1)

\* The marks that stand where a length-encoded integer may start.
NullMarker == Byte - 5
TwoBytes == Byte - 4
ThreeBytes == Byte - 3
EightBytes == Byte - 2
ErrMarker == Byte - 1

WriteLenencInt(value) ==
    CASE value < NullMarker -> <<value>>
      [] value >= NullMarker /\ value < Byte ^ 2 -> <<TwoBytes>> \o ToLe(value, 2)
      [] value >= Byte ^ 2 /\ value < Byte ^ 3 -> <<ThreeBytes>> \o ToLe(value, 3)
      [] OTHER -> <<EightBytes>> \o ToLe(value, 8)

WriteLenencBytes(b) == WriteLenencInt(Len(b)) \o b

\* What a reader finds at an offset: the value and the offset after it;
\* `next` = 0 when there is none.
Got(v, next) == [v |-> v, next |-> next]
Truncated == Got(0, 0)

\* buf.get(at .. at + n)
Slice(b, at, n) ==
    IF at + n <= Len(b) + 1 THEN Got(SubSeq(b, at, at + n - 1), at + n) ELSE Truncated

ReadLenencInt(b, at) ==
    LET width == [m \in {TwoBytes, ThreeBytes, EightBytes} |->
                     CASE m = TwoBytes -> 2 [] m = ThreeBytes -> 3 [] OTHER -> 8]
    IN  IF at > Len(b) THEN Truncated
        ELSE IF b[at] < NullMarker THEN Got(b[at], at + 1)
        ELSE IF b[at] \in DOMAIN width
          THEN LET s == Slice(b, at + 1, width[b[at]])
               IN  IF s.next = 0 THEN Truncated ELSE Got(FromLe(s.v), s.next)
        ELSE Truncated

ReadLenencBytes(b, at) ==
    LET n == ReadLenencInt(b, at)
    IN  IF n.next = 0 THEN Truncated ELSE Slice(b, n.next, n.v)

-----------------------------------------------------------------------------
(* Packets.                                                                *)

\* Packet::encode_into
EncodePacket(seq, payload) == ToLe(Len(payload), 3) \o <<seq>> \o payload

\* declared_payload_len: -1 while the header is not there.
DeclaredPayloadLen(b) == IF Len(b) >= HeaderLen THEN FromLe(SubSeq(b, 1, 3)) ELSE -1

\* Packet::parse: the packet, and the bytes it took; 0 of them when it is
\* not complete yet.
ParsePacket(b) ==
    LET n == DeclaredPayloadLen(b)
    IN  IF n < 0 \/ Len(b) < HeaderLen + n THEN [seq |-> 0, payload |-> <<>>, consumed |-> 0]
        ELSE [seq |-> b[4], payload |-> SubSeq(b, 5, HeaderLen + n), consumed |-> HeaderLen + n]

\* The packets of a response, numbered from sequence id 1 on (the command
\* had 0) and put one after the other into out_buf.
EncodeAll(payloads) ==
    FoldLeft(LAMBDA out, i : out \o EncodePacket(i % Byte, payloads[i]), <<>>,
             [i \in DOMAIN payloads |-> i])

-----------------------------------------------------------------------------
(* Responses.  A cell is <<"Int", n>>, <<"Text", bytes>> or <<"Null">>.     *)

StatusAutocommit == 2
StatusMoreResults == 8
Minus == 10

\* i64::to_string
Decimal(n) ==
    LET digits[k \in Nat] == IF k < 10 THEN <<k>> ELSE Append(digits[k \div 10], k % 10)
    IN  IF n < 0 THEN <<Minus>> \o digits[-n] ELSE digits[n]

\* Cell::to_text and encode_text_row
EncodeTextCell(cell) ==
    CASE cell[1] = "Int"  -> WriteLenencBytes(Decimal(cell[2]))
      [] cell[1] = "Text" -> WriteLenencBytes(cell[2])
      [] cell[1] = "Null" -> <<NullMarker>>

EncodeTextRow(cells) == FlattenSeq([i \in DOMAIN cells |-> EncodeTextCell(cells[i])])

\* A bitmap of `bits` bits, `set` of them being 1, low bit first.
Bitmap(bits, set) ==
    [i \in 1 .. (bits + Bits - 1) \div Bits |->
        FoldLeft(LAMBDA n, k : 2 * n + (IF (i - 1) * Bits + Bits - k \in set THEN 1 ELSE 0), 0,
                 [k \in 1 .. Bits |-> k])]

EncodeBinaryCell(cell) ==
    CASE cell[1] = "Int"  -> ToLe(cell[2], 8)
      [] cell[1] = "Text" -> WriteLenencBytes(cell[2])
      [] cell[1] = "Null" -> <<>>

(* Mutant: the bitmap has room for the columns alone. *)
EncodeBinaryRowShort(cells) ==
    <<0>> \o Bitmap(Len(cells), {i + 1 : i \in {j \in DOMAIN cells : cells[j][1] = "Null"}})
    \o FlattenSeq([i \in DOMAIN cells |-> EncodeBinaryCell(cells[i])])

\* encode_binary_row: column i (from 0) has bit i + 2 of the bitmap.
EncodeBinaryRow(cells) ==
    <<0>> \o Bitmap(Len(cells) + 2, {i + 1 : i \in {j \in DOMAIN cells : cells[j][1] = "Null"}})
    \o FlattenSeq([i \in DOMAIN cells |-> EncodeBinaryCell(cells[i])])

TypeCode(type) == IF type = "Int" THEN 8 ELSE Byte - 3

\* ColumnDefinition::to_packet, of a column [name, type]; only the name and
\* the type vary.
ColumnDefinition(column) ==
    FlattenSeq([i \in 1 .. 6 |-> WriteLenencBytes(
        CASE i = 1 -> <<1, 2, 3>> [] i \in {5, 6} -> column.name [] OTHER -> <<>>)])
    \o <<12>> \o ToLe(45, 2) \o ToLe(255, 4) \o <<TypeCode(column.type)>>
    \o ToLe(0, 2) \o <<0>> \o <<0, 0>>

EofPacket(status) == <<EightBytes>> \o ToLe(0, 2) \o ToLe(status, 2)

\* deprecate_eof_terminator
OkTerminator(status) ==
    <<EightBytes>> \o WriteLenencInt(0) \o WriteLenencInt(0) \o ToLe(status, 2) \o ToLe(0, 2)

\* ResultSet::encode_into
ResultSetPackets(r, binary, deprecate) ==
    <<WriteLenencInt(Len(r.columns))>>
    \o [i \in DOMAIN r.columns |-> ColumnDefinition(r.columns[i])]
    \o (IF deprecate THEN <<>> ELSE <<EofPacket(r.status)>>)
    \o [i \in DOMAIN r.rows |-> IF binary THEN EncodeBinaryRow(r.rows[i])
                                          ELSE EncodeTextRow(r.rows[i])]
    \o <<IF deprecate THEN OkTerminator(r.status) ELSE EofPacket(r.status)>>

\* OkPacket::to_packet; last_insert_id and warnings are always 0, info empty.
OkPacket(r) ==
    <<0>> \o WriteLenencInt(r.affected) \o WriteLenencInt(0) \o ToLe(r.status, 2) \o ToLe(0, 2)

\* ErrPacket::to_packet: '#' and five characters of SQLSTATE come first.
ErrPacket(r) == <<ErrMarker>> \o ToLe(r.code, 2) \o <<3, 1, 2, 3, 4, 5>> \o r.message

\* StmtPrepareOk::to_packet, and the definitions handle_stmt_prepare adds.
PreparePackets(r, deprecate) ==
    <<<<0>> \o ToLe(r.id, 4) \o ToLe(0, 2) \o ToLe(r.params, 2) \o <<0>> \o ToLe(0, 2)>>
    \o [i \in 1 .. r.params |-> ColumnDefinition([name |-> <<1>>, type |-> "Text"])]
    \o (IF r.params > 0 /\ ~ deprecate THEN <<EofPacket(StatusAutocommit)>> ELSE <<>>)

\* send_result and handle_stmt_prepare
ResponsePackets(r, binary, deprecate) ==
    CASE r.kind = "prepared" -> PreparePackets(r, deprecate)
      [] r.kind = "result" -> ResultSetPackets(r, binary, deprecate)
      [] r.kind = "ok"     -> <<OkPacket(r)>>
      [] r.kind = "err"    -> <<ErrPacket(r)>>

\* guard_payload_size, and the same test in each to_packet.
Fits(payload) == Len(payload) <= MaxPayload

-----------------------------------------------------------------------------
(* Commands.                                                               *)

\* The command bytes, cut to a byte of Bits bits.
ComQuery == 3
ComStmtPrepare == 22 % Byte
ComStmtExecute == 23 % Byte

IntWidth == [t \in {1, 2, 3, 8} |-> CASE t = 1 -> 1 [] t = 2 -> 2 [] t = 3 -> 4 [] t = 8 -> 8]
StringTypes == {Byte - 2, Byte - 3, 15, Byte - 4}
NullType == 6

\* decode_binary_value at offset `at`
DecodeBinaryValue(b, at, type) ==
    IF type = NullType THEN Got(<<"Null">>, at)
    ELSE IF type \in DOMAIN IntWidth
      THEN LET s == Slice(b, at, IntWidth[type])
           IN  IF s.next = 0 THEN Truncated ELSE Got(<<"Int", FromLeSigned(s.v)>>, s.next)
    ELSE IF type \in StringTypes
      THEN LET s == ReadLenencBytes(b, at)
           IN  IF s.next = 0 THEN Truncated ELSE Got(<<"Text", s.v>>, s.next)
    ELSE Truncated

(* Mutant: the offset of a row's bitmap is used for the parameters' too. *)
IsNullRow(bitmap, i) ==
    /\ (i + 2) \div Bits < Len(bitmap)
    /\ (bitmap[(i + 2) \div Bits + 1] \div 2 ^ ((i + 2) % Bits)) % 2 = 1

\* is_null of parameter i, from 0
IsNull(bitmap, i) ==
    /\ i \div Bits < Len(bitmap)
    /\ (bitmap[i \div Bits + 1] \div 2 ^ (i % Bits)) % 2 = 1

\* The values, one after the other from offset `at` on.
DecodeValues(b, at, bitmap, types) ==
    FoldLeft(LAMBDA acc, i :
        IF acc.next = 0 THEN acc
        ELSE IF IsNull(bitmap, i - 1) THEN [acc EXCEPT !.v = Append(@, <<"Null">>)]
        ELSE LET d == DecodeBinaryValue(b, acc.next, types[i])
             IN  Got(Append(acc.v, d.v), d.next),
        Got(<<>>, at), [i \in DOMAIN types |-> i])

\* parse_execute_params: after the 10 bytes of the header, the bitmap of the
\* NULLs, the flag of new types, which must be 1, the types and the values.
ParseExecuteParams(b, n) ==
    LET bitmap == Slice(b, 11, (n + Bits - 1) \div Bits)
        flag   == Slice(b, bitmap.next, 1)
        pairs  == Slice(b, flag.next, 2 * n)
    IN  IF n = 0 THEN Got(<<>>, 1)
        ELSE IF bitmap.next = 0 \/ flag.next = 0 THEN Truncated
        ELSE IF flag.v # <<1>> \/ pairs.next = 0 THEN Truncated
        ELSE DecodeValues(b, pairs.next, bitmap.v, [i \in 1 .. n |-> pairs.v[2 * i - 1]])

\* run_command_loop's dispatch, up to what the statement is given.
\* `n` is the number of parameters of the prepared statement.  The client
\* executes a statement it has prepared and binds all its parameters; what
\* the code makes of others (an ERR packet) is left to module Connection.
Dispatch(b, n) ==
    CASE b[1] \in {ComQuery, ComStmtPrepare} -> <<b[1], Tail(b)>>
      [] b[1] = ComStmtExecute -> <<b[1], FromLe(SubSeq(b, 2, 5)), ParseExecuteParams(b, n).v>>

-----------------------------------------------------------------------------
(* The client (external).                                                  *)

\* COM_STMT_EXECUTE's parameters: each has a type code and a cell.
ParamBytes(p) ==
    CASE p.cell[1] = "Int"  -> ToLe(p.cell[2], IntWidth[p.type])
      [] p.cell[1] = "Text" -> WriteLenencBytes(p.cell[2])
      [] p.cell[1] = "Null" -> <<>>

CommandPayload(c) ==
    CASE c.kind = "query"   -> <<ComQuery>> \o c.text
      [] c.kind = "prepare" -> <<ComStmtPrepare>> \o c.text
      [] c.kind = "execute" ->
           <<ComStmtExecute>> \o ToLe(c.id, 4) \o <<0>> \o ToLe(1, 4)
           \o IF c.params = <<>> THEN <<>>
              ELSE Bitmap(Len(c.params), {i - 1 : i \in {j \in DOMAIN c.params : c.params[j].cell = <<"Null">>}})
                   \o <<1>>
                   \o FlattenSeq([i \in DOMAIN c.params |-> <<c.params[i].type, 0>>])
                   \o FlattenSeq([i \in DOMAIN c.params |-> ParamBytes(c.params[i])])

\* A payload of MaxPayload bytes or more goes out in several frames, the
\* last of which is shorter than that.
ClientFrames(payload) ==
    FlattenSeq([i \in 1 .. Len(payload) \div MaxPayload + 1 |->
        LET first == (i - 1) * MaxPayload + 1
            last  == i * MaxPayload
        IN  EncodePacket(i - 1, SubSeq(payload, first, IF last < Len(payload) THEN last ELSE Len(payload)))])

\* What Dispatch must make of a command.
Meant(c) ==
    CASE c.kind = "query"   -> <<ComQuery, c.text>>
      [] c.kind = "prepare" -> <<ComStmtPrepare, c.text>>
      [] c.kind = "execute" -> <<ComStmtExecute, c.id, [i \in DOMAIN c.params |-> c.params[i].cell]>>

\* Decoding.  A NULL of a text row is its own mark; an integer is written
\* in digits there and in eight bytes in a binary row.
ClientInt(text) ==
    LET digits == SelectSeq(text, LAMBDA d : d # Minus)
        n      == FoldLeft(LAMBDA m, d : 10 * m + d, 0, digits)
    IN  IF Head(text) = Minus THEN -n ELSE n

ClientTextCell(b, at, type) ==
    IF at <= Len(b) /\ b[at] = NullMarker THEN Got(<<"Null">>, at + 1)
    ELSE LET s == ReadLenencBytes(b, at)
         IN  IF s.next = 0 THEN Truncated
             ELSE Got(IF type = "Int" THEN <<"Int", ClientInt(s.v)>> ELSE <<"Text", s.v>>, s.next)

ClientRow(b, types, binary) ==
    LET width  == (Len(types) + 1 + Bits) \div Bits
        bitmap == SubSeq(b, 2, 1 + width)
        cell(at, i) ==
          IF ~ binary THEN ClientTextCell(b, at, types[i])
          ELSE IF IsNull(bitmap, i + 1) THEN Got(<<"Null">>, at)
          ELSE DecodeBinaryValue(b, at, IF types[i] = "Int" THEN 8 ELSE 15)
    IN  FoldLeft(LAMBDA acc, i :
            IF acc.next = 0 THEN acc
            ELSE LET c == cell(acc.next, i) IN Got(Append(acc.v, c.v), c.next),
            Got(<<>>, IF binary THEN 2 + width ELSE 1), [i \in DOMAIN types |-> i])

ClientColumn(b) ==
    LET skip(at) == ReadLenencBytes(b, at).next
        name     == ReadLenencBytes(b, skip(skip(skip(skip(1)))))
        fixed    == skip(name.next)
    IN  [name |-> name.v, type |-> IF b[fixed + 7] = 8 THEN "Int" ELSE "Text"]

IsTerminator(b) == b[1] = EightBytes /\ Len(b) < 9

\* The reader starts here; `left` counts the definitions still to come.
Waiting == [stage |-> "first", seq |-> 1, part |-> <<>>, left |-> 0, got |-> [kind |-> "none"]]

ClientFirst(r, b, c) ==
    CASE b[1] = 0 /\ c.kind = "prepare" ->
           LET n == FromLe(SubSeq(b, 8, 9))
           IN  [r EXCEPT !.stage = IF n = 0 THEN "done" ELSE "defs", !.left = n,
                         !.got = [kind |-> "prepared", id |-> FromLe(SubSeq(b, 2, 5)), params |-> n]]
      [] b[1] = 0 /\ c.kind # "prepare" ->
           LET affected == ReadLenencInt(b, 2)
               insertId == ReadLenencInt(b, affected.next)
           IN  [r EXCEPT !.stage = "done",
                         !.got = [kind |-> "ok", affected |-> affected.v,
                                  status |-> FromLe(SubSeq(b, insertId.next, insertId.next + 1))]]
      [] b[1] = ErrMarker ->
           [r EXCEPT !.stage = "done",
                     !.got = [kind |-> "err", code |-> FromLe(SubSeq(b, 2, 3)), message |-> SubSeq(b, 10, Len(b))]]
      [] OTHER ->
           [r EXCEPT !.stage = "defs", !.left = ReadLenencInt(b, 1).v,
                     !.got = [kind |-> "result", columns |-> <<>>, rows |-> <<>>, status |-> 0]]

\* Where the reader goes after the last definition.
AfterDefs(r, deprecate) ==
    CASE r.left > 0                -> r
      [] r.left = 0 /\ ~ deprecate -> [r EXCEPT !.stage = "eof"]
      [] r.left = 0 /\ deprecate   -> [r EXCEPT !.stage = IF r.got.kind = "result" THEN "rows" ELSE "done"]

ClientMessage(r, b, e) ==
    CASE r.stage = "first" -> ClientFirst(r, b, e.command)
      [] r.stage = "defs" ->
           LET read == IF r.got.kind = "result" THEN [r EXCEPT !.got.columns = Append(@, ClientColumn(b))] ELSE r
           IN  AfterDefs([read EXCEPT !.left = @ - 1], e.deprecate)
      [] r.stage = "eof" ->
           IF ~ IsTerminator(b) THEN [r EXCEPT !.stage = "broken"]
           ELSE [r EXCEPT !.stage = IF r.got.kind = "result" THEN "rows" ELSE "done"]
      [] r.stage = "rows" /\ IsTerminator(b) ->
           [r EXCEPT !.stage = "done",
                     !.got.status = FromLe(SubSeq(b, 4, 5))]
      [] r.stage = "rows" /\ ~ IsTerminator(b) ->
           LET row == ClientRow(b, [i \in DOMAIN r.got.columns |-> r.got.columns[i].type],
                                e.command.kind = "execute")
           IN  IF row.next # Len(b) + 1 THEN [r EXCEPT !.stage = "broken"]
               ELSE [r EXCEPT !.got.rows = Append(@, row.v)]

-----------------------------------------------------------------------------
Init ==
    /\ exchange \in Exchanges
    /\ wire = [server |-> ClientFrames(CommandPayload(exchange.command)), client |-> <<>>]
    /\ buf = [server |-> <<>>, client |-> <<>>]
    /\ pc = "command" /\ heard = <<>> /\ reader = Waiting

\* The socket passes on the next bytes, as many as it likes.
Deliver ==
    \E to \in {"server", "client"}, n \in exchange.chunks :
        LET take == IF n < Len(wire[to]) THEN n ELSE Len(wire[to])
        IN  /\ take > 0
            /\ wire' = [wire EXCEPT ![to] = SubSeq(@, take + 1, Len(@))]
            /\ buf' = [buf EXCEPT ![to] = @ \o SubSeq(wire[to], 1, take)]
            /\ UNCHANGED <<exchange, pc, heard, reader>>

TooLarge == DeclaredPayloadLen(buf.server) > exchange.allowed

\* The loop is back at read_packet after the response, too.  read_packet
\* refuses a packet from its header alone, and run_command_loop one that
\* does not start a command: it joins no frames, so the rest of a command
\* of several is such a packet.
RefusePacket ==
    LET packet == ParsePacket(buf.server)
    IN  /\ pc \in {"command", "response"}
        /\ TooLarge \/ (packet.consumed > 0 /\ packet.seq # 0)
        /\ pc' = "closed"
        /\ UNCHANGED <<exchange, wire, buf, heard, reader>>

Payloads(e) == ResponsePackets(e.response, e.command.kind = "execute", e.deprecate)

\* read_packet has a packet, the command is dispatched and its response is
\* written; a response that cannot be encoded ends the connection, and none
\* of it is written.
HandleCommand ==
    LET packet   == ParsePacket(buf.server)
        n        == IF exchange.command.kind = "execute" THEN Len(exchange.command.params) ELSE 0
        payloads == Payloads(exchange)
        fits     == \A i \in DOMAIN payloads : Fits(payloads[i])
    IN  /\ pc = "command" /\ ~ TooLarge /\ packet.consumed > 0 /\ packet.seq = 0
        /\ buf' = [buf EXCEPT !.server = SubSeq(@, packet.consumed + 1, Len(@))]
        /\ heard' = Dispatch(packet.payload, n)
        /\ pc' = IF fits THEN "response" ELSE "closed"
        /\ wire' = IF fits THEN [wire EXCEPT !.client = EncodeAll(payloads)] ELSE wire
        /\ UNCHANGED <<exchange, reader>>

\* The client reads a frame; one of MaxPayload bytes is continued by the next.
ClientRead ==
    LET packet == ParsePacket(buf.client)
        next   == [reader EXCEPT !.seq = (@ + 1) % Byte]
    IN  /\ reader.stage \notin {"done", "broken"} /\ packet.consumed > 0
        /\ buf' = [buf EXCEPT !.client = SubSeq(@, packet.consumed + 1, Len(@))]
        /\ reader' = IF packet.seq # reader.seq THEN [reader EXCEPT !.stage = "broken"]
                     ELSE IF Len(packet.payload) = MaxPayload
                       THEN [next EXCEPT !.part = @ \o packet.payload]
                     ELSE ClientMessage([next EXCEPT !.part = <<>>], reader.part \o packet.payload, exchange)
        /\ UNCHANGED <<exchange, wire, pc, heard>>

\* The client has nothing left to read.
Drained == wire.client = <<>> /\ ParsePacket(buf.client).consumed = 0

\* The exchange is over.
Finished ==
    /\ pc = "closed" \/ reader.stage \in {"done", "broken"} \/ (pc = "response" /\ Drained)
    /\ UNCHANGED vars

Next == Deliver \/ RefusePacket \/ HandleCommand \/ ClientRead \/ Finished

Spec == Init /\ [][Next]_vars

-----------------------------------------------------------------------------
CommandLen == Len(CommandPayload(exchange.command))

(* The server hears the command that was sent: parse_execute_params gives  *)
(* the very parameters the client bound, of every type and with NULLs      *)
(* among them, however the socket cuts the packet, and read_packet turns   *)
(* away only a packet above max_allowed_packet.  This is so for a command  *)
(* that goes out in one frame, that is, with less than MAX_PAYLOAD bytes:  *)
(* of a longer one read_packet hears the first frame, and then it closes   *)
(* the connection, although max_allowed_packet allows more.                *)
CommandHeard ==
    /\ heard \in {<<>>, Meant(exchange.command)} \/ CommandLen >= MaxPayload
    /\ pc = "closed" /\ heard = <<>> => CommandLen > exchange.allowed

(* The same without the exception: reassembly "is layered on top of this   *)
(* single-frame type" (protocol/packet.rs).                                *)
LongCommandHeard ==
    heard \in {<<>>, Meant(exchange.command)} \/ CommandLen > exchange.allowed

(* The client ends up with what send_result was given - the affected rows, *)
(* the error, or the columns and the cells of every row in order - in the  *)
(* text and the binary protocol and under both framings; it never loses    *)
(* its place, and is not left waiting once everything has been delivered.  *)
AnswerReadWhole ==
    /\ reader.stage # "broken"
    /\ reader.stage = "done" => reader.got = exchange.response /\ buf.client = <<>> /\ wire.client = <<>>
    /\ pc = "response" /\ Drained => reader.stage = "done"

(* And so it is, unless a packet has exactly MAX_PAYLOAD bytes: the code   *)
(* takes that for one that fits (guard_payload_size), and a client for one *)
(* that is continued.                                                      *)
AnswerRead ==
    AnswerReadWhole \/ \E i \in DOMAIN Payloads(exchange) : Len(Payloads(exchange)[i]) = MaxPayload
=============================================================================
