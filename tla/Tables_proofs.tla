---------------------------- MODULE Tables_proofs ----------------------------
(***************************************************************************)
(* What the operators of module Tables do to a table: facts about every    *)
(* table and every batch of rows, for the proofs about module Storage.     *)
(***************************************************************************)
EXTENDS Tables, SequenceLemmas

(* Position finds a column or nothing. *)
LEMMA PositionIn ==
    ASSUME NEW columns, IsSeq(columns), NEW name
    PROVE  Position(columns, name) \in 0..Len(columns)
<1> DEFINE I == {i \in 1..Len(columns) : columns[i].name = name}
<1>1. Position(columns, name) = IF I = {} THEN 0 ELSE Min(I)
  BY DEF Position, First
<1>2. Len(columns) \in Nat
  BY SeqHas
<1>3. I # {} => Min(I) \in I
  <2>1. I \in SUBSET Nat
    OBVIOUS
  <2> HIDE DEF I
  <2> QED
    BY <2>1, MinIs
<1> QED
  BY <1>1, <1>2, <1>3

-----------------------------------------------------------------------------
(* A table whose rows have one value for each column and whose keys are    *)
(* unique and indexed.                                                     *)
Sound(t) ==
    /\ DOMAIN t = {"columns", "primary_key", "rows", "index", "next"}
    /\ IsSeq(t.columns) /\ IsSeq(t.rows)
    /\ \A i \in 1..Len(t.rows) : Len(t.rows[i]) = Len(t.columns)
    /\ KeyPos(t) # 0 =>
         /\ \A i, j \in 1..Len(t.rows) : t.rows[i][KeyPos(t)] = t.rows[j][KeyPos(t)] => i = j
         /\ \A k : k \in DOMAIN t.index <=> \E i \in 1..Len(t.rows) : t.rows[i][KeyPos(t)] = k
         /\ \A i \in 1..Len(t.rows) : t.index[t.rows[i][KeyPos(t)]] = i

(* Two tables with the same content: all but the AUTO_INCREMENT counter. *)
Same(t, u) ==
    /\ DOMAIN t = {"columns", "primary_key", "rows", "index", "next"}
    /\ DOMAIN u = {"columns", "primary_key", "rows", "index", "next"}
    /\ t.columns = u.columns /\ t.primary_key = u.primary_key
    /\ t.rows = u.rows /\ t.index = u.index

LEMMA SameKey ==
    ASSUME NEW t, NEW u, Same(t, u)
    PROVE  KeyPos(t) = KeyPos(u)
  BY DEF Same, KeyPos

LEMMA SameSound ==
    ASSUME NEW t, NEW u, Same(t, u), Sound(t)
    PROVE  Sound(u)
  BY SameKey DEF Same, Sound

LEMMA SameInsertable ==
    ASSUME NEW t, NEW u, Same(t, u), NEW rows
    PROVE  CheckInsertable(t, rows) <=> CheckInsertable(u, rows)
  BY SameKey DEF Same, CheckInsertable

(* Same is an equivalence on tables. *)
LEMMA SameTrans ==
    ASSUME NEW t, NEW u, NEW w, Same(t, u), Same(u, w)
    PROVE  Same(t, w) /\ Same(u, t)
  BY DEF Same

LEMMA SameSelf ==
    ASSUME NEW t, Sound(t)
    PROVE  Same(t, t)
  BY DEF Sound, Same

(* What push_trusted changes. *)
LEMMA PushFields ==
    ASSUME NEW t, NEW rows, DOMAIN t = {"columns", "primary_key", "rows", "index", "next"}
    PROVE  LET p == PushTrusted(t, rows)
           IN  /\ DOMAIN p = {"columns", "primary_key", "rows", "index", "next"}
               /\ p.columns = t.columns /\ p.primary_key = t.primary_key
               /\ p.rows = t.rows \o rows /\ p.index = Indexed(t, rows)
               /\ p.next = Counted(t, rows)
               /\ KeyPos(p) = KeyPos(t)
  BY DEF PushTrusted, KeyPos

LEMMA PushSame ==
    ASSUME NEW t, NEW u, Same(t, u), NEW rows
    PROVE  Same(PushTrusted(t, rows), PushTrusted(u, rows))
<1>1. KeyPos(t) = KeyPos(u) /\ t.rows = u.rows /\ t.index = u.index
  BY SameKey DEF Same
<1>2. Indexed(t, rows) = Indexed(u, rows)
  BY <1>1, Zenon DEF Indexed
<1>3. /\ DOMAIN t = {"columns", "primary_key", "rows", "index", "next"}
      /\ DOMAIN u = {"columns", "primary_key", "rows", "index", "next"}
  BY DEF Same
<1> DEFINE p == PushTrusted(t, rows)
           q == PushTrusted(u, rows)
<1>4. /\ DOMAIN p = {"columns", "primary_key", "rows", "index", "next"}
      /\ p.columns = t.columns /\ p.primary_key = t.primary_key
      /\ p.rows = t.rows \o rows /\ p.index = Indexed(t, rows)
  BY <1>3, PushFields
<1>5. /\ DOMAIN q = {"columns", "primary_key", "rows", "index", "next"}
      /\ q.columns = u.columns /\ q.primary_key = u.primary_key
      /\ q.rows = u.rows \o rows /\ q.index = Indexed(u, rows)
  BY <1>3, PushFields
<1> HIDE DEF p, q
<1>6. Same(p, q)
  BY <1>1, <1>2, <1>4, <1>5 DEF Same
<1> QED
  BY <1>6 DEF p, q

(* In a batch that check_insertable accepts, every row has its own key,    *)
(* none of them in the table.                                              *)
LEMMA InsertableKeys ==
    ASSUME NEW t, Sound(t), NEW rows, IsSeq(rows), CheckInsertable(t, rows)
    PROVE  /\ \A i \in 1..Len(rows) : Len(rows[i]) = Len(t.columns)
           /\ KeyPos(t) # 0 =>
                /\ \A i \in 1..Len(rows) : Cell(rows[i], KeyPos(t)) = rows[i][KeyPos(t)]
                /\ \A i \in 1..Len(rows) : rows[i][KeyPos(t)] \notin DOMAIN t.index
                /\ \A i, j \in 1..Len(rows) :
                     rows[i][KeyPos(t)] = rows[j][KeyPos(t)] => i = j
<1>1. Len(rows) \in Nat /\ DOMAIN rows = 1..Len(rows)
  BY SeqHas
<1>2. \A i \in 1..Len(rows) : Len(rows[i]) = Len(t.columns)
  BY <1>1 DEF CheckInsertable
<1>3. KeyPos(t) \in 0..Len(t.columns) /\ Len(t.columns) \in Nat
  BY PositionIn, SeqHas DEF Sound, KeyPos
<1>4. \A i \in 1..Len(rows) : Cell(rows[i], KeyPos(t)) = rows[i][KeyPos(t)]
  BY <1>2, <1>3 DEF Cell
<1>5. ASSUME KeyPos(t) # 0 
      PROVE  \A i \in 1..Len(rows) :
               /\ rows[i][KeyPos(t)] \notin DOMAIN t.index
               /\ \A j \in 1..i - 1 : rows[j][KeyPos(t)] # rows[i][KeyPos(t)]
  BY <1>1, <1>5 DEF CheckInsertable
<1>6. ASSUME KeyPos(t) # 0, NEW i \in 1..Len(rows), NEW j \in 1..Len(rows),
             rows[i][KeyPos(t)] = rows[j][KeyPos(t)]
      PROVE  i = j
  BY <1>1, <1>5, <1>6
<1> QED
  BY <1>2, <1>4, <1>5, <1>6, Zenon

(* The index after such a batch: the new rows are where they were put.     *)
LEMMA IndexedIs ==
    ASSUME NEW t, Sound(t), NEW rows, IsSeq(rows), CheckInsertable(t, rows), KeyPos(t) # 0
    PROVE  LET index == Indexed(t, rows)
               key   == KeyPos(t)
           IN  /\ \A k : k \in DOMAIN index <=>
                           k \in DOMAIN t.index \/ \E n \in 1..Len(rows) : rows[n][key] = k
               /\ \A k \in DOMAIN t.index : index[k] = t.index[k]
               /\ \A n \in 1..Len(rows) : index[rows[n][key]] = Len(t.rows) + n
<1> DEFINE key     == KeyPos(t)
           keys    == {Cell(rows[n], key) : n \in DOMAIN rows}
           last(k) == Max({n \in DOMAIN rows : Cell(rows[n], key) = k})
           index   == Indexed(t, rows)
<1>1. Len(rows) \in Nat /\ DOMAIN rows = 1..Len(rows)
  BY SeqHas
<1>2. /\ \A i \in 1..Len(rows) : Cell(rows[i], key) = rows[i][key]
      /\ \A i \in 1..Len(rows) : rows[i][key] \notin DOMAIN t.index
      /\ \A i, j \in 1..Len(rows) : rows[i][key] = rows[j][key] => i = j
  BY InsertableKeys
<1>3. index = [k \in DOMAIN t.index \cup keys |->
                 IF k \in keys THEN Len(t.rows) + last(k) ELSE t.index[k]]
  BY Zenon DEF Indexed
<1> HIDE DEF index, key
<1>4. \A k : k \in keys <=> \E n \in 1..Len(rows) : rows[n][key] = k
  BY <1>1, <1>2
<1>5. ASSUME NEW n \in 1..Len(rows) PROVE last(rows[n][key]) = n
  <2>1. {m \in DOMAIN rows : Cell(rows[m], key) = rows[n][key]} = {n}
    BY <1>1, <1>2
  <2>2. Max({n}) = n
    BY <1>1 DEF Max
  <2> QED
    BY <2>1, <2>2
<1> HIDE DEF keys, last
<1>6. \A k : k \in DOMAIN index <=> k \in DOMAIN t.index \/ \E n \in 1..Len(rows) : rows[n][key] = k
  BY <1>3, <1>4
<1>7. \A k \in DOMAIN t.index : index[k] = t.index[k]
  BY <1>2, <1>3, <1>4
<1>8. \A n \in 1..Len(rows) : index[rows[n][key]] = Len(t.rows) + n
  BY <1>3, <1>4, <1>5
<1> QED
  BY <1>6, <1>7, <1>8 DEF index, key

(* push_trusted after check_insertable: the table stays sound. *)
LEMMA PushSound ==
    ASSUME NEW t, Sound(t), NEW rows, IsSeq(rows), CheckInsertable(t, rows)
    PROVE  Sound(PushTrusted(t, rows))
<1> DEFINE p == PushTrusted(t, rows)
           key == KeyPos(t)
<1>1. /\ DOMAIN p = {"columns", "primary_key", "rows", "index", "next"}
      /\ p.columns = t.columns /\ p.rows = t.rows \o rows /\ p.index = Indexed(t, rows)
      /\ KeyPos(p) = key
  BY PushFields DEF Sound
<1>2. /\ IsSeq(p.rows) /\ Len(p.rows) = Len(t.rows) + Len(rows)
      /\ \A i \in 1..Len(t.rows) : p.rows[i] = t.rows[i]
      /\ \A i \in 1..Len(rows) : p.rows[Len(t.rows) + i] = rows[i]
  BY <1>1, SeqConcat DEF Sound
<1>3. Len(t.rows) \in Nat /\ Len(rows) \in Nat
  BY SeqHas DEF Sound
<1> HIDE DEF p
<1>4. ASSUME NEW i \in 1..Len(p.rows)
      PROVE  \/ i \in 1..Len(t.rows) /\ p.rows[i] = t.rows[i]
             \/ /\ i - Len(t.rows) \in 1..Len(rows) /\ i \notin 1..Len(t.rows)
                /\ p.rows[i] = rows[i - Len(t.rows)]
  <2>1. CASE i > Len(t.rows)
    <3>1. i - Len(t.rows) \in 1..Len(rows) /\ i = Len(t.rows) + (i - Len(t.rows))
      BY <1>2, <1>3, <2>1
    <3> QED
      BY <1>2, <1>3, <2>1, <3>1, Zenon
  <2>2. CASE i <= Len(t.rows)
    BY <1>2, <1>3, <2>2
  <2> QED
    BY <1>3, <2>1, <2>2
<1>5. /\ \A i \in 1..Len(rows) : Len(rows[i]) = Len(t.columns)
      /\ key # 0 => /\ \A i \in 1..Len(rows) : rows[i][key] \notin DOMAIN t.index
                    /\ \A i, j \in 1..Len(rows) : rows[i][key] = rows[j][key] => i = j
  BY InsertableKeys
<1>6. \A i \in 1..Len(p.rows) : Len(p.rows[i]) = Len(p.columns)
  BY <1>1, <1>4, <1>5 DEF Sound
<1>7. ASSUME key # 0
      PROVE  /\ \A i, j \in 1..Len(p.rows) : p.rows[i][key] = p.rows[j][key] => i = j
             /\ \A k : k \in DOMAIN p.index <=> \E i \in 1..Len(p.rows) : p.rows[i][key] = k
             /\ \A i \in 1..Len(p.rows) : p.index[p.rows[i][key]] = i
  <2>1. /\ \A k : k \in DOMAIN p.index <=>
                    k \in DOMAIN t.index \/ \E n \in 1..Len(rows) : rows[n][key] = k
        /\ \A k \in DOMAIN t.index : p.index[k] = t.index[k]
        /\ \A n \in 1..Len(rows) : p.index[rows[n][key]] = Len(t.rows) + n
    BY <1>1, <1>7, IndexedIs
  <2>2. /\ \A k : k \in DOMAIN t.index <=> \E i \in 1..Len(t.rows) : t.rows[i][key] = k
        /\ \A i \in 1..Len(t.rows) : t.index[t.rows[i][key]] = i
    BY <1>7 DEF Sound
  <2>3. \A i \in 1..Len(p.rows) : p.index[p.rows[i][key]] = i
    <3> SUFFICES ASSUME NEW i \in 1..Len(p.rows) PROVE p.index[p.rows[i][key]] = i
      OBVIOUS
    <3>1. CASE i \in 1..Len(t.rows) /\ p.rows[i] = t.rows[i]
      BY <2>1, <2>2, <3>1
    <3>2. CASE i - Len(t.rows) \in 1..Len(rows) /\ p.rows[i] = rows[i - Len(t.rows)]
      <4>1. p.index[rows[i - Len(t.rows)][key]] = Len(t.rows) + (i - Len(t.rows))
        BY <2>1, <3>2
      <4> QED
        BY <1>2, <1>3, <3>2, <4>1
    <3> QED
      BY <1>4, <3>1, <3>2
  <2>4. \A k : k \in DOMAIN p.index <=> \E i \in 1..Len(p.rows) : p.rows[i][key] = k
    <3>1. ASSUME NEW k, k \in DOMAIN p.index PROVE \E i \in 1..Len(p.rows) : p.rows[i][key] = k
      <4>1. CASE k \in DOMAIN t.index
        <5>1. PICK i \in 1..Len(t.rows) : t.rows[i][key] = k
          BY <2>2, <4>1
        <5>2. i \in 1..Len(p.rows) /\ p.rows[i] = t.rows[i]
          BY <1>2, <1>3
        <5> QED
          BY <5>1, <5>2
      <4>2. CASE \E n \in 1..Len(rows) : rows[n][key] = k
        <5>1. PICK n \in 1..Len(rows) : rows[n][key] = k
          BY <4>2
        <5>2. Len(t.rows) + n \in 1..Len(p.rows) /\ p.rows[Len(t.rows) + n] = rows[n]
          BY <1>2, <1>3
        <5> QED
          BY <5>1, <5>2
      <4> QED
        BY <2>1, <3>1, <4>1, <4>2
    <3>2. ASSUME NEW i \in 1..Len(p.rows) PROVE p.rows[i][key] \in DOMAIN p.index
      <4>1. CASE i \in 1..Len(t.rows) /\ p.rows[i] = t.rows[i]
        BY <2>1, <2>2, <4>1
      <4>2. CASE i - Len(t.rows) \in 1..Len(rows) /\ p.rows[i] = rows[i - Len(t.rows)]
        BY <2>1, <4>2
      <4> QED
        BY <1>4, <4>1, <4>2
    <3> QED
      BY <3>1, <3>2
  <2>5. \A i, j \in 1..Len(p.rows) : p.rows[i][key] = p.rows[j][key] => i = j
    BY <2>3
  <2> QED
    BY <2>3, <2>4, <2>5
<1> QED
  <2>1. Sound(p)
    <3> HIDE DEF key
    <3> QED
      BY <1>1, <1>2, <1>6, <1>7, Zenon DEF Sound
  <2> QED
    BY <2>1 DEF p

(* A row for which insert_row finds no conflict can follow rows for which  *)
(* it found none.                                                          *)
LEMMA AppendInsertable ==
    ASSUME NEW t, Sound(t), NEW rows, IsSeq(rows), CheckInsertable(t, rows),
           NEW row, Len(row) = Len(t.columns),
           KeyPos(t) # 0 => /\ row[KeyPos(t)] \notin DOMAIN t.index
                            /\ \A i \in DOMAIN rows : Cell(rows[i], KeyPos(t)) # row[KeyPos(t)]
    PROVE  CheckInsertable(t, Append(rows, row))
<1> DEFINE all == Append(rows, row)
           key == KeyPos(t)
<1>1. Len(rows) \in Nat /\ DOMAIN rows = 1..Len(rows)
  BY SeqHas
<1>2. /\ IsSeq(all) /\ Len(all) = Len(rows) + 1
      /\ \A i \in 1..Len(rows) : all[i] = rows[i]
      /\ all[Len(rows) + 1] = row
  BY SeqAppend
<1>3. DOMAIN all = 1..Len(rows) + 1
  BY <1>2, SeqHas
<1>4. /\ \A i \in 1..Len(rows) : Len(rows[i]) = Len(t.columns)
      /\ key # 0 =>
           /\ \A i \in 1..Len(rows) : Cell(rows[i], key) = rows[i][key]
           /\ \A i \in 1..Len(rows) : rows[i][key] \notin DOMAIN t.index
           /\ \A i, j \in 1..Len(rows) : rows[i][key] = rows[j][key] => i = j
  BY InsertableKeys
<1> HIDE DEF all
<1>5. \A i \in DOMAIN all : Len(all[i]) = Len(t.columns)
  BY <1>1, <1>2, <1>3, <1>4
<1>6. ASSUME key # 0, NEW i \in DOMAIN all
      PROVE  all[i][key] \notin DOMAIN t.index /\ \A j \in 1..i - 1 : all[j][key] # all[i][key]
  <2>1. CASE i \in 1..Len(rows)
    <3>1. \A j \in 1..i - 1 : j \in 1..Len(rows) /\ j # i
      BY <1>1, <2>1
    <3> QED
      BY <1>2, <1>4, <1>6, <2>1, <3>1, Zenon
  <2>2. CASE i = Len(rows) + 1
    <3>1. \A j \in 1..i - 1 : j \in 1..Len(rows)
      BY <1>1, <2>2
    <3> QED
      BY <1>1, <1>2, <1>4, <1>6, <2>2, <3>1
  <2> QED
    BY <1>1, <1>3, <1>6, <2>1, <2>2
<1>7. CheckInsertable(t, all)
  BY <1>5, <1>6 DEF CheckInsertable
<1> QED
  BY <1>7 DEF all
=============================================================================
