------------------------------ MODULE LogFormat ------------------------------
(***************************************************************************)
(* The data file byte by byte: how storage/log.rs encodes an entry, frames *)
(* it with its length and CRC-32, and reads the file back, after a write   *)
(* that a crash cut short and after a byte of the file has changed.        *)
(*                                                                         *)
(* Module Tables says what replaying the entries does, LogWriter when they *)
(* are written and synced; here they are the bytes.  A file is a sequence  *)
(* of numbers 0 .. 255, a text is the sequence of its bytes.               *)
(***************************************************************************)
EXTENDS Integers, Sequences, FiniteSets

CONSTANTS
    Texts,       \* the texts in use: what String::from_utf8 accepts
    Entries,     \* what may be appended
    MaxRecords,  \* bound: records in the file
    MaxFaults,   \* bound: writes cut short and bytes changed
    Masks        \* what may be xored onto a byte of the file, as sets of bits

ASSUME LogFormatAssumption ==
    /\ MaxRecords \in Nat
    /\ MaxFaults \in Nat
    /\ \A m \in Masks : m # {} /\ m \subseteq 0 .. 7

-------------------------------------------------------------------------------
(* Writing. *)

(* to_le_bytes of a number of k bytes, two's complement. *)
RECURSIVE ToLeBytes(_, _)
ToLeBytes(n, k) == IF k = 0 THEN <<>> ELSE <<n % 256>> \o ToLeBytes(n \div 256, k - 1)

WriteU32(n) == ToLeBytes(n, 4)
WriteString(s) == WriteU32(Len(s)) \o s
WriteFlag(b) == <<IF b THEN 1 ELSE 0>>

WriteValue(v) ==
    CASE v[1] = "Null"    -> <<0>>
      [] v[1] = "Int"     -> <<1>> \o ToLeBytes(v[2], 8)
      [] v[1] = "Varchar" -> <<2>> \o WriteString(v[2])
      [] v[1] = "Decimal" -> <<3>> \o ToLeBytes(v[2], 8) \o <<v[3]>>
      [] v[1] = "Date"    -> <<4>> \o WriteString(v[2])

WriteColumnSchema(c) ==
    WriteString(c.name)
    \o (CASE c.type[1] = "Int"     -> <<0>>
          [] c.type[1] = "Varchar" -> <<1>>
          [] c.type[1] = "Decimal" -> <<2, c.type[2]>>
          [] c.type[1] = "Date"    -> <<3>>)
    \o <<(IF c.nullable THEN 1 ELSE 0) + (IF c.auto_increment THEN 2 ELSE 0)>>

(* What is written for each element of a sequence, one after the other. *)
WriteColumns(cs) ==
    LET f[n \in 0 .. Len(cs)] == IF n = 0 THEN <<>> ELSE f[n - 1] \o WriteColumnSchema(cs[n])
    IN  WriteU32(Len(cs)) \o f[Len(cs)]
WriteRow(row) ==
    LET f[n \in 0 .. Len(row)] == IF n = 0 THEN <<>> ELSE f[n - 1] \o WriteValue(row[n])
    IN  WriteU32(Len(row)) \o f[Len(row)]
WriteRows(rows) ==
    LET f[n \in 0 .. Len(rows)] ==
          IF n = 0 THEN <<>> ELSE f[n - 1] \o WriteString(rows[n].table) \o WriteRow(rows[n].row)
    IN  WriteU32(Len(rows)) \o f[Len(rows)]

WriteChange(change) ==
    CASE change[1] = "AddColumn"      -> <<0>> \o WriteColumnSchema(change[2]) \o WriteFlag(change[3])
      [] change[1] = "DropColumn"     -> <<1>> \o WriteString(change[2])
      [] change[1] = "ModifyColumn"   -> <<2>> \o WriteColumnSchema(change[2])
      [] change[1] = "AddPrimaryKey"  -> <<3>> \o WriteString(change[2])
      [] change[1] = "DropPrimaryKey" -> <<4>>

(* encode_create_table, encode_insert_row and so on. *)
Encode(e) ==
    CASE e[1] = "CreateTable" ->
           <<1>> \o WriteString(e[2])
           \o (IF e[3] = <<"None">> THEN <<0>> ELSE <<1>> \o WriteString(e[3][2])) \o WriteColumns(e[4])
      [] e[1] = "InsertRow"      -> <<2>> \o WriteString(e[2]) \o WriteRow(e[3])
      [] e[1] = "Transaction"    -> <<3>> \o WriteRows(e[2])
      [] e[1] = "CreateDatabase" -> <<4>> \o WriteString(e[2])
      [] e[1] = "DropDatabase"   -> <<5>> \o WriteString(e[2])
      [] e[1] = "AlterTable"     -> <<6>> \o WriteString(e[2]) \o WriteChange(e[3])

-------------------------------------------------------------------------------
(* CRC-32.  A word is the set of the positions of its ones. *)

Bits == [b \in 0 .. 255 |-> {i \in 0 .. 7 : (b \div 2 ^ i) % 2 = 1}]
Byte(bits) ==
    LET bit(i) == IF i \in bits THEN 2 ^ i ELSE 0
    IN  bit(0) + bit(1) + bit(2) + bit(3) + bit(4) + bit(5) + bit(6) + bit(7)
Xor(x, y) == (x \ y) \cup (y \ x)
ShiftRight(x) == {i - 1 : i \in x \ {0}}

Poly == {31, 30, 29, 27, 26, 24, 23, 21, 20, 19, 15, 9, 8, 5}  \* 0xEDB88320

(* The element of a set with one: a value bound this way is computed once. *)
Only(S) == CHOOSE x \in S : TRUE

(* The loop over the bits of a byte: the eight low bits of the word decide *)
(* what is xored in, the others are shifted.                               *)
CrcBit(crc) == IF 0 \in crc THEN Xor(ShiftRight(crc), Poly) ELSE ShiftRight(crc)
CrcBits == [low \in SUBSET (0 .. 7) |->
    CrcBit(CrcBit(CrcBit(CrcBit(CrcBit(CrcBit(CrcBit(CrcBit(low))))))))]
CrcByte(x) == Xor(CrcBits[x \cap (0 .. 7)], {i - 8 : i \in x \ (0 .. 7)})

(* The loop over the bytes from first to last, taken in halves. *)
RECURSIVE CrcOver(_, _, _, _)
CrcOver(crc, data, first, last) ==
    LET mid == (first + last) \div 2
    IN  CASE first > last -> crc
          [] first = last -> CrcByte(Xor(crc, Bits[data[first]]))
          [] first < last -> Only({CrcOver(c, data, mid + 1, last) : c \in {CrcOver(crc, data, first, mid)}})

Crc32(data) == (0 .. 31) \ CrcOver(0 .. 31, data, 1, Len(data))

(* Mutant: only the length is covered. *)
RecordCrcLength(len, payload) == Crc32(len)

(* The length is covered as well as the payload. *)
RecordCrc(len, payload) == Crc32(len \o payload)

(* to_le_bytes of a set of bits, and back. *)
CrcBytes(crc) == [i \in 1 .. 4 |-> Byte({k \in 0 .. 7 : 8 * (i - 1) + k \in crc})]
CrcOf(s) == UNION {{8 * (i - 1) + k : k \in Bits[s[i]]} : i \in 1 .. 4}

FrameRecord(payload) ==
    LET len == WriteU32(Len(payload)) IN len \o CrcBytes(RecordCrc(len, payload)) \o payload

-------------------------------------------------------------------------------
(* Reading.  What a function has read so far is [v, at]: the values, and   *)
(* the position after them.  Each read_ function adds a value.  at = 0 is  *)
(* Err(corrupt(..)), also for what is read after it.                       *)

Begin(v, at) == [v |-> v, at |-> at]
Corrupt == Begin(<<>>, 0)
Push(r, v, at) == [v |-> Append(r.v, v), at |-> at]

(* The values of a nested function become one. *)
PushAll(r, nested) == IF nested.at = 0 THEN Corrupt ELSE Push(r, nested.v, nested.at)

(* bytes.get(at .. at + n) is Some *)
Has(b, at, n) == at # 0 /\ at + n - 1 <= Len(b)

(* from_le_bytes of a u32; no file here is as long as 2^30. *)
FromLe32(s) == IF s[4] >= 64 THEN 2 ^ 30 ELSE s[1] + 256 * s[2] + 65536 * s[3] + 16777216 * s[4]
(* from_le_bytes of an i64; all numbers that do not fit in 31 bits are one. *)
FromLe64(s) ==
    LET low == s[1] + 256 * s[2] + 65536 * s[3]
    IN  CASE s[4] < 128 /\ \A i \in 5 .. 8 : s[i] = 0    -> low + 16777216 * s[4]
          [] s[4] >= 128 /\ \A i \in 5 .. 8 : s[i] = 255 -> low + 16777216 * (s[4] - 256)
          [] OTHER -> 2 ^ 30

ReadByte(b, r) == IF Has(b, r.at, 1) THEN Push(r, b[r.at], r.at + 1) ELSE Corrupt
ReadFlag(b, r) == IF Has(b, r.at, 1) THEN Push(r, b[r.at] # 0, r.at + 1) ELSE Corrupt
ReadU32(b, at) == FromLe32(SubSeq(b, at, at + 3))
ReadI64(b, r) == IF Has(b, r.at, 8) THEN Push(r, FromLe64(SubSeq(b, r.at, r.at + 7)), r.at + 8) ELSE Corrupt
ReadString(b, r) ==
    LET end == r.at + 4 + ReadU32(b, r.at)
        s   == SubSeq(b, r.at + 4, end - 1)
    IN  IF Has(b, r.at, 4) /\ end - 1 <= Len(b) /\ s \in Texts THEN Push(r, s, end) ELSE Corrupt

ReadValue(b, r) ==
    LET tag  == b[r.at]
        next == r.at + 1
    IN  IF ~ Has(b, r.at, 1) THEN Corrupt
        ELSE PushAll(r,
          CASE tag = 0 -> Begin(<<"Null">>, next)
            [] tag = 1 -> ReadI64(b, Begin(<<"Int">>, next))
            [] tag = 2 -> ReadString(b, Begin(<<"Varchar">>, next))
            [] tag = 3 -> ReadByte(b, ReadI64(b, Begin(<<"Decimal">>, next)))
            [] tag = 4 -> ReadString(b, Begin(<<"Date">>, next))
            [] OTHER   -> Corrupt)

ReadType(b, r) ==
    LET tag  == b[r.at]
        next == r.at + 1
    IN  IF ~ Has(b, r.at, 1) THEN Corrupt
        ELSE PushAll(r,
          CASE tag = 0 -> Begin(<<"Int">>, next)
            [] tag = 1 -> Begin(<<"Varchar">>, next)
            [] tag = 2 -> ReadByte(b, Begin(<<"Decimal">>, next))
            [] tag = 3 -> Begin(<<"Date">>, next)
            [] OTHER   -> Corrupt)

ColumnOf(c) == [name |-> c[1], type |-> c[2], nullable |-> c[3] % 2 = 1, auto_increment |-> (c[3] \div 2) % 2 = 1]
PushColumn(r, c) == IF c.at = 0 THEN Corrupt ELSE Push(r, ColumnOf(c.v), c.at)
ReadColumnSchema(b, r) == PushColumn(r, ReadByte(b, ReadType(b, ReadString(b, Begin(<<>>, r.at)))))

(* The loops over the columns, the values of a row, and the rows. *)
RECURSIVE ReadColumns(_, _, _)
ReadColumns(b, r, n) == IF r.at = 0 \/ n = 0 THEN r ELSE ReadColumns(b, ReadColumnSchema(b, r), n - 1)
ReadSchema(b, r) ==
    IF Has(b, r.at, 4) THEN PushAll(r, ReadColumns(b, Begin(<<>>, r.at + 4), ReadU32(b, r.at))) ELSE Corrupt

RECURSIVE ReadValues(_, _, _)
ReadValues(b, r, n) == IF r.at = 0 \/ n = 0 THEN r ELSE ReadValues(b, ReadValue(b, r), n - 1)
ReadRow(b, r) ==
    IF Has(b, r.at, 4) THEN PushAll(r, ReadValues(b, Begin(<<>>, r.at + 4), ReadU32(b, r.at))) ELSE Corrupt

PushRow(r, c) == IF c.at = 0 THEN Corrupt ELSE Push(r, [table |-> c.v[1], row |-> c.v[2]], c.at)
RECURSIVE ReadRows(_, _, _)
ReadRows(b, r, n) ==
    IF r.at = 0 \/ n = 0 THEN r
    ELSE ReadRows(b, PushRow(r, ReadRow(b, ReadString(b, Begin(<<>>, r.at)))), n - 1)
ReadTransaction(b, r) ==
    IF Has(b, r.at, 4) THEN PushAll(r, ReadRows(b, Begin(<<>>, r.at + 4), ReadU32(b, r.at))) ELSE Corrupt

ReadChange(b, r) ==
    LET tag  == b[r.at]
        next == r.at + 1
    IN  IF ~ Has(b, r.at, 1) THEN Corrupt
        ELSE PushAll(r,
          CASE tag = 0 -> ReadFlag(b, ReadColumnSchema(b, Begin(<<"AddColumn">>, next)))
            [] tag = 1 -> ReadString(b, Begin(<<"DropColumn">>, next))
            [] tag = 2 -> ReadColumnSchema(b, Begin(<<"ModifyColumn">>, next))
            [] tag = 3 -> ReadString(b, Begin(<<"AddPrimaryKey">>, next))
            [] tag = 4 -> Begin(<<"DropPrimaryKey">>, next)
            [] OTHER   -> Corrupt)

ReadPrimaryKey(b, r) ==
    LET next == r.at + 1
    IN  IF ~ Has(b, r.at, 1) THEN Corrupt
        ELSE PushAll(r,
          CASE b[r.at] = 0 -> Begin(<<"None">>, next)
            [] b[r.at] = 1 -> ReadString(b, Begin(<<"Some">>, next))
            [] OTHER       -> Corrupt)

DecodeEntry(b) ==
    IF b = <<>> THEN Corrupt
    ELSE CASE b[1] = 1 -> ReadSchema(b, ReadPrimaryKey(b, ReadString(b, Begin(<<"CreateTable">>, 2))))
           [] b[1] = 2 -> ReadRow(b, ReadString(b, Begin(<<"InsertRow">>, 2)))
           [] b[1] = 3 -> ReadTransaction(b, Begin(<<"Transaction">>, 2))
           [] b[1] = 4 -> ReadString(b, Begin(<<"CreateDatabase">>, 2))
           [] b[1] = 5 -> ReadString(b, Begin(<<"DropDatabase">>, 2))
           [] b[1] = 6 -> ReadChange(b, ReadString(b, Begin(<<"AlterTable">>, 2)))
           [] OTHER    -> Corrupt

(* Mutant: every mismatch is taken for a torn tail. *)
MismatchTorn(end, file_len) == <<"TornTail">>

(* A checksum that does not match, in the last record and before it. *)
Mismatch(end, file_len) == IF end = file_len THEN <<"TornTail">> ELSE <<"Err">>

Decoded(entry, end) == IF entry.at = 0 THEN <<"Err">> ELSE <<"Ok", entry.v, end>>

(* read_one_record at offset pos of the file: <<"Ok", entry, next>>,       *)
(* <<"TornTail">>, or <<"Err">>, which refuses the file.                   *)
ReadOneRecord(b, pos) ==
    LET len     == SubSeq(b, pos + 1, pos + 4)
        end     == pos + 8 + FromLe32(len)
        payload == SubSeq(b, pos + 9, end)
    IN  IF pos + 8 > Len(b) THEN <<"TornTail">>
        ELSE IF end > Len(b) THEN <<"TornTail">>
        ELSE IF RecordCrc(len, payload) # CrcOf(SubSeq(b, pos + 5, pos + 8))
          THEN Mismatch(end, Len(b))
        ELSE Decoded(DecodeEntry(payload), end)

-------------------------------------------------------------------------------
(* The file and the process that has it open. *)

VARIABLES
    pc,        \* "down", "replay", "up" or "refused"
    file,      \* its bytes
    pos,       \* how far Log::open has read
    applied,   \* the entries in memory: fed to apply, or appended since
    written,   \* history: entries appended whole that no crash has cut
    damage,    \* history: the byte that has changed, 0 if none
    faults

vars == <<pc, file, pos, applied, written, damage, faults>>

Init ==
    /\ pc = "down" /\ file = <<>> /\ pos = 0
    /\ applied = <<>> /\ written = <<>>
    /\ damage = 0 /\ faults = 0

(* Log::open: the file is read from its start. *)
Open ==
    /\ pc = "down"
    /\ pc' = "replay" /\ pos' = 0 /\ applied' = <<>>
    /\ UNCHANGED <<file, written, damage, faults>>

(* Mutant: what the crash left stays in the file. *)
SetLenSkipped(b, n) == b

(* file.set_len *)
SetLen(b, n) == SubSeq(b, 1, n)

(* One record is applied, or there is no other, or the file is refused.    *)
(* A torn tail is cut off.                                                 *)
Replay ==
    /\ pc = "replay"
    /\ \E r \in {ReadOneRecord(file, pos)} :
         \/ /\ r[1] = "Ok"
            /\ applied' = Append(applied, r[2]) /\ pos' = r[3]
            /\ UNCHANGED <<pc, file>>
         \/ /\ r[1] = "TornTail"
            /\ pc' = "up" /\ file' = SetLen(file, pos)
            /\ UNCHANGED <<pos, applied>>
         \/ /\ r[1] = "Err"
            /\ pc' = "refused"
            /\ UNCHANGED <<file, pos, applied>>
    /\ UNCHANGED <<written, damage, faults>>

(* Log::append *)
AppendEntry(e) ==
    /\ pc = "up" /\ Len(written) < MaxRecords /\ damage = 0
    /\ file' = file \o FrameRecord(Encode(e))
    /\ written' = Append(written, e)
    /\ applied' = Append(applied, e)
    /\ UNCHANGED <<pc, pos, damage, faults>>

(* The process dies in the append: any part of the record is in the file. *)
DieWriting(e) ==
    LET framed == FrameRecord(Encode(e))
    IN  /\ pc = "up" /\ faults < MaxFaults /\ Len(written) < MaxRecords /\ damage = 0
        /\ \E n \in 0 .. Len(framed) - 1 : file' = file \o SubSeq(framed, 1, n)
        /\ pc' = "down" /\ faults' = faults + 1
        /\ UNCHANGED <<pos, applied, written, damage>>

(* The process ends, and a byte of the file may have changed before it is  *)
(* opened again.                                                           *)
Stop ==
    /\ pc = "up"
    /\ pc' = "down"
    /\ UNCHANGED <<file, pos, applied, written, damage, faults>>

Damage ==
    /\ pc = "down" /\ damage = 0 /\ faults < MaxFaults
    /\ faults' = faults + 1
    /\ \E i \in 1 .. Len(file), m \in Masks :
         /\ file' = [file EXCEPT ![i] = Byte(Xor(Bits[@], m))]
         /\ damage' = i
    /\ UNCHANGED <<pc, pos, applied, written>>

(* The server runs on, or has not started. *)
Idle == pc \in {"up", "refused"} /\ UNCHANGED vars

Next ==
    \/ Open \/ Replay \/ Stop \/ Damage \/ Idle
    \/ \E e \in Entries : AppendEntry(e) \/ DieWriting(e)

Spec == Init /\ [][Next]_vars

-------------------------------------------------------------------------------
(* Properties. *)

(* Replay gives back exactly the entries that were appended, of every kind *)
(* and in order, and nothing of a record that a crash cut at any byte      *)
(* (encode_*, decode_entry, read_one_record, the truncation in Log::open). *)
ReplayExact == damage = 0 => pc # "refused" /\ (pc = "up" => applied = written)

(* Whatever byte of the file changes, replay never yields an entry nobody  *)
(* wrote: it stops at the damaged record or refuses the file (record_crc). *)
NeverMisread ==
    /\ Len(applied) <= Len(written)
    /\ applied = SubSeq(written, 1, Len(applied))

(* Where the damaged byte lies: the offset at which record n ends, and the *)
(* record that byte i belongs to.                                          *)
RecordEnd == [n \in 0 .. Len(written) |->
    LET f[k \in 0 .. n] == IF k = 0 THEN 0 ELSE f[k - 1] + 8 + Len(Encode(written[k])) IN f[n]]
InRecord(i) == CHOOSE n \in 1 .. Len(written) + 1 :
    RecordEnd[n - 1] < i /\ (n = Len(written) + 1 \/ i <= RecordEnd[n])

(* A changed byte in a record that has a whole record after it makes       *)
(* Log::open refuse the file: no intact record is dropped without a word.  *)
(* The length is left out here, DamageAlwaysRefused is about it.           *)
DamageRefused ==
    pc = "up" /\ damage # 0 =>
        LET n == InRecord(damage) IN n >= Len(written) \/ damage <= RecordEnd[n - 1] + 4

(* The same for every byte of the record, as the module comment of log.rs  *)
(* has it.                                                                 *)
DamageAlwaysRefused == pc = "up" /\ damage # 0 => InRecord(damage) >= Len(written)
===============================================================================
