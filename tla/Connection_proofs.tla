-------------------------- MODULE Connection_proofs --------------------------
(***************************************************************************)
(* Proofs about module Connection: who is let in, for any accounts, any    *)
(* clients and any number of commands.                                     *)
(***************************************************************************)
EXTENDS Connection, SequenceLemmas

-----------------------------------------------------------------------------
(* What a sequence of packets is made of.                                  *)

Elems(s) == {s[i] : i \in 1..Len(s)}

LEMMA ElemsEmpty == IsSeq(<<>>) /\ Elems(<<>>) = {}
  BY SeqEmpty DEF Elems

LEMMA ElemsOne ==
    ASSUME NEW e
    PROVE  IsSeq(<<e>>) /\ Elems(<<e>>) = {e}
<1>1. <<e>> \in Seq({e})
  OBVIOUS
<1>2. Len(<<e>>) = 1 /\ <<e>>[1] = e
  OBVIOUS
<1>3. \A i \in 1..1 : i = 1
  OBVIOUS
<1>4. Elems(<<e>>) = {e}
  BY <1>2, <1>3 DEF Elems
<1> QED
  BY <1>1, <1>4 DEF IsSeq

LEMMA ElemsConcat ==
    ASSUME NEW s, IsSeq(s), NEW r, IsSeq(r)
    PROVE  IsSeq(s \o r) /\ Elems(s \o r) = Elems(s) \cup Elems(r)
<1>1. /\ IsSeq(s \o r) /\ Len(s \o r) = Len(s) + Len(r)
      /\ \A i \in 1..Len(s) : (s \o r)[i] = s[i]
      /\ \A i \in 1..Len(r) : (s \o r)[Len(s) + i] = r[i]
  BY SeqConcat
<1>2. Len(s) \in Nat /\ Len(r) \in Nat
  BY SeqHas
<1>3. \A i \in 1..Len(s) + Len(r) : i \in 1..Len(s) \/ \E j \in 1..Len(r) : i = Len(s) + j
  <2>1. \A i \in 1..Len(s) + Len(r) : i \in 1..Len(s) \/ i - Len(s) \in 1..Len(r)
    BY <1>2
  <2>2. \A i \in 1..Len(s) + Len(r) : i = Len(s) + (i - Len(s))
    BY <1>2
  <2> QED
    BY <2>1, <2>2
<1>4. Elems(s \o r) \subseteq Elems(s) \cup Elems(r)
  BY <1>1, <1>2, <1>3 DEF Elems
<1>5. \A i \in 1..Len(s) : i \in 1..Len(s) + Len(r)
  BY <1>2
<1>6. \A j \in 1..Len(r) : Len(s) + j \in 1..Len(s) + Len(r)
  BY <1>2
<1>7. Elems(s) \cup Elems(r) \subseteq Elems(s \o r)
  BY <1>1, <1>5, <1>6, Zenon DEF Elems
<1> QED
  BY <1>1, <1>4, <1>7

LEMMA ElemsAppend ==
    ASSUME NEW s, IsSeq(s), NEW e
    PROVE  IsSeq(Append(s, e)) /\ Elems(Append(s, e)) = Elems(s) \cup {e}
<1>1. PICK S : s \in Seq(S)
  BY DEF IsSeq
<1>2. s \in Seq(S \cup {e})
  BY <1>1, SeqMonotonic
<1>3. Append(s, e) = s \o <<e>>
  BY <1>2
<1> QED
  BY <1>3, ElemsConcat, ElemsOne

LEMMA ElemsTail ==
    ASSUME NEW s, IsSeq(s), s # <<>>
    PROVE  IsSeq(Tail(s)) /\ Elems(Tail(s)) \subseteq Elems(s) /\ Head(s) \in Elems(s)
<1>1. PICK S : s \in Seq(S)
  BY DEF IsSeq
<1>2. /\ Tail(s) \in Seq(S) /\ Len(Tail(s)) = Len(s) - 1
      /\ \A i \in 1..Len(Tail(s)) : Tail(s)[i] = s[i + 1]
  BY <1>1, HeadTailProperties
<1>3. Len(s) \in Nat /\ Len(s) > 0 /\ Head(s) = s[1]
  BY <1>1, EmptySeq
<1>4. \A i \in 1..Len(s) - 1 : i + 1 \in 1..Len(s)
  BY <1>3
<1>5. 1 \in 1..Len(s)
  BY <1>3
<1> QED
  BY <1>2, <1>3, <1>4, <1>5 DEF IsSeq, Elems

(* One read of the socket splits what is on it. *)
LEMMA ElemsSplit ==
    ASSUME NEW s, IsSeq(s), NEW n \in 1..Len(s)
    PROVE  /\ IsSeq(SubSeq(s, 1, n)) /\ Elems(SubSeq(s, 1, n)) \subseteq Elems(s)
           /\ IsSeq(SubSeq(s, n + 1, Len(s)))
           /\ Elems(SubSeq(s, n + 1, Len(s))) \subseteq Elems(s)
<1>1. PICK S : s \in Seq(S)
  BY DEF IsSeq
<1>2. Len(s) \in Nat /\ n \in Nat /\ n <= Len(s) /\ \A i \in 1..Len(s) : s[i] \in S
  BY <1>1, ElementOfSeq
<1>3. n \in 0..Len(s) /\ \A i \in 1..n : i \in 1..Len(s)
  BY <1>2
<1>4. /\ IsSeq(SubSeq(s, 1, n)) /\ Len(SubSeq(s, 1, n)) = n
      /\ \A i \in 1..n : SubSeq(s, 1, n)[i] = s[i]
  BY <1>3, SeqPrefix
<1>5. Elems(SubSeq(s, 1, n)) \subseteq Elems(s)
  BY <1>3, <1>4 DEF Elems
<1> DEFINE r == SubSeq(s, n + 1, Len(s))
<1>6. \A i \in n + 1..Len(s) : s[i] \in S
  BY <1>2
<1>7. /\ r \in Seq(S) /\ Len(r) = IF n + 1 <= Len(s) THEN Len(s) - (n + 1) + 1 ELSE 0
      /\ \A i \in 1..Len(s) - (n + 1) + 1 : r[i] = s[(n + 1) + i - 1]
  BY <1>2, <1>6, SubSeqProperties
<1> HIDE DEF r
<1>8. \A i \in 1..Len(r) : i + n \in 1..Len(s) /\ r[i] = s[i + n]
  BY <1>2, <1>7
<1>9. Elems(r) \subseteq Elems(s)
  BY <1>8, Zenon DEF Elems
<1>10. IsSeq(r)
  BY <1>7 DEF IsSeq
<1> QED
  BY <1>4, <1>5, <1>9, <1>10 DEF r

-----------------------------------------------------------------------------
(* The inductive invariant: what is on the wire and in read_buf has to do  *)
(* with the one client of the connection.                                  *)

\* What a client that was told to use `plugin` and scramble n answers.
Answer(c, plugin, n) == [plugin |-> plugin, scramble |-> n, right |-> c.right]

\* The plugin a client uses for the greeting's scramble.
FirstPlugin(c) == IF c.plugin = "none" THEN DefaultPlugin ELSE c.plugin

\* What a packet of client c carries.
Given(c, p) ==
    /\ p.kind = "response" =>
         /\ p.user = c.user /\ p.plugin = c.plugin
         /\ p.proof = Answer(c, FirstPlugin(c), 1)
    /\ p.kind = "switchResponse" =>
         c.user \in DOMAIN Accounts /\ p.proof = Answer(c, Accounts[c.user], 2)
    /\ p.kind = "prepare" => p.n \in Int

\* What a packet to client c asks of it.
Told(c, p) ==
    /\ p.kind = "greeting" => p.n = [plugin |-> DefaultPlugin, scramble |-> 1]
    /\ p.kind = "switch" =>
         c.user \in DOMAIN Accounts /\ p.n = [plugin |-> Accounts[c.user], scramble |-> 2]

FromClient(c, s) == IsSeq(s) /\ \A p \in Elems(s) : Given(c, p)
FromServer(c, s) == IsSeq(s) /\ \A p \in Elems(s) : Told(c, p)

\* The password was right, and the account exists.
Honest(c) == c.right = TRUE /\ c.user \in DOMAIN Accounts

Wires ==
    /\ client \in Clients
    /\ FromClient(client, wireIn) /\ FromClient(client, buf)
    /\ FromServer(client, wireOut)

Scrambles ==
    /\ stage \in {"hello", "tlsWait", "respond"} =>
         told = [plugin |-> DefaultPlugin, scramble |-> 1]
    /\ phase \in {"response", "tls", "tlsResponse"} => scramble = 1
    /\ phase = "switch" =>
         scramble = 2 /\ login.user = client.user /\ client.user \in DOMAIN Accounts

\* Nobody issues commands who has not proved to know an account's password.
OnlyVerified == phase \in {"command", "query"} => Honest(client)

LoginInv == Wires /\ Scrambles /\ OnlyVerified

-----------------------------------------------------------------------------
(* Packets to the client.                                                  *)

LEMMA ToldOne ==
    ASSUME NEW c, NEW kind, NEW n, NEW more, kind \notin {"greeting", "switch"}
    PROVE  FromServer(c, <<Body(kind, n, more)>>)
<1>1. Told(c, Body(kind, n, more))
  BY DEF Told, Body
<1> HIDE DEF Body
<1> QED
  BY <1>1, ElemsOne DEF FromServer

LEMMA ToldConcat ==
    ASSUME NEW c, NEW s, FromServer(c, s), NEW r, FromServer(c, r)
    PROVE  FromServer(c, s \o r)
  BY ElemsConcat DEF FromServer

LEMMA ToldRepeat ==
    ASSUME NEW c, NEW n \in Nat, NEW kind, kind \notin {"greeting", "switch"}
    PROVE  FromServer(c, Repeat(n, Body(kind, 0, FALSE)))
<1> DEFINE b == Body(kind, 0, FALSE)
           s == Repeat(n, b)
<1>1. Told(c, b)
  BY DEF Told, Body
<1> HIDE DEF b
<1>2. s = [i \in 1..n |-> b]
  BY DEF Repeat
<1>3. s \in Seq({b}) /\ Len(s) = n
  BY <1>2
<1>4. \A i \in 1..Len(s) : s[i] = b
  BY <1>2, <1>3
<1>5. IsSeq(s)
  BY <1>3 DEF IsSeq
<1> HIDE DEF s
<1>6. FromServer(c, s)
  BY <1>1, <1>4, <1>5 DEF FromServer, Elems
<1> QED
  BY <1>6, Zenon DEF s, b

(* Numbering the packets of a response changes none of them. *)
LEMMA ToldNumber ==
    ASSUME NEW c, NEW s, FromServer(c, s), NEW at, NEW tag
    PROVE  FromServer(c, Number(s, at, tag))
<1> DEFINE r == Number(s, at, tag)
           p(i) == [seq |-> (at + i - 1) % SeqIds, for |-> tag, kind |-> s[i].kind,
                    n |-> s[i].n, more |-> s[i].more]
<1>1. Len(s) \in Nat /\ DOMAIN s = 1..Len(s)
  BY SeqHas DEF FromServer
<1>2. r = [i \in 1..Len(s) |-> p(i)]
  BY <1>1 DEF Number
<1>3. \A i \in 1..Len(s) : Told(c, p(i))
  BY DEF FromServer, Elems, Told
<1> HIDE DEF p, r
<1>4. r \in Seq({p(i) : i \in 1..Len(s)}) /\ Len(r) = Len(s)
  BY <1>1, <1>2
<1>5. \A i \in 1..Len(r) : Told(c, r[i])
  BY <1>2, <1>3, <1>4
<1>6. FromServer(c, r)
  BY <1>4, <1>5 DEF FromServer, IsSeq, Elems
<1> QED
  BY <1>6 DEF r

LEMMA ToldSend ==
    ASSUME NEW c, FromServer(c, wireOut), NEW s, FromServer(c, s), NEW at, NEW tag,
           Send(s, at, tag)
    PROVE  FromServer(c, wireOut')
<1>1. wireOut' = wireOut \o Number(s, at, tag)
  BY DEF Send
<1>2. FromServer(c, Number(s, at, tag))
  BY ToldNumber
<1> QED
  BY <1>1, <1>2, ToldConcat

LEMMA ToldResultSet ==
    ASSUME NEW c, NEW cols \in Nat, NEW rows \in Nat, NEW more, NEW deprecate
    PROVE  FromServer(c, ResultSet(cols, rows, more, deprecate))
<1> DEFINE a == <<Body("count", cols, FALSE)>>
           b == Repeat(cols, Body("def", 0, FALSE))
           d == IF deprecate THEN <<>> ELSE <<Body("eof", 0, more)>>
           e == Repeat(rows, Body("row", 0, FALSE))
           f == <<Body(IF deprecate THEN "okEof" ELSE "eof", 0, more)>>
<1>1. FromServer(c, a)
  BY ToldOne, Zenon
<1>2. FromServer(c, b)
  BY ToldRepeat, Zenon
<1>3. FromServer(c, d)
  <2>1. FromServer(c, <<>>)
    BY ElemsEmpty DEF FromServer
  <2>2. FromServer(c, <<Body("eof", 0, more)>>)
    BY ToldOne
  <2> QED
    BY <2>1, <2>2
<1>4. FromServer(c, e)
  BY ToldRepeat, Zenon
<1>5. FromServer(c, f)
  <2>1. (IF deprecate THEN "okEof" ELSE "eof") \notin {"greeting", "switch"}
    OBVIOUS
  <2> QED
    BY <2>1, ToldOne
<1>6. ResultSet(cols, rows, more, deprecate) = a \o b \o d \o e \o f
  BY DEF ResultSet
<1> HIDE DEF a, b, d, e, f
<1>7. FromServer(c, a \o b)
  BY <1>1, <1>2, ToldConcat
<1>8. FromServer(c, a \o b \o d)
  BY <1>3, <1>7, ToldConcat
<1>9. FromServer(c, a \o b \o d \o e)
  BY <1>4, <1>8, ToldConcat
<1> QED
  BY <1>5, <1>6, <1>9, ToldConcat

LEMMA ToldPrepareOk ==
    ASSUME NEW c, NEW id, NEW params \in Nat, NEW deprecate
    PROVE  FromServer(c, PrepareOk(id, params, deprecate))
<1> DEFINE a == <<Body("prepareOk", [id |-> id, params |-> params % ParamMod], FALSE)>>
           b == Repeat(params, Body("def", 0, FALSE))
           d == IF params > 0 /\ ~deprecate THEN <<Body("eof", 0, FALSE)>> ELSE <<>>
<1>1. FromServer(c, a)
  BY ToldOne, Zenon
<1>2. FromServer(c, b)
  BY ToldRepeat, Zenon
<1>3. FromServer(c, d)
  <2>1. FromServer(c, <<>>)
    BY ElemsEmpty DEF FromServer
  <2>2. FromServer(c, <<Body("eof", 0, FALSE)>>)
    BY ToldOne, Zenon
  <2> QED
    BY <2>1, <2>2
<1>4. PrepareOk(id, params, deprecate) = a \o b \o d
  BY DEF PrepareOk
<1> HIDE DEF a, b, d
<1>5. FromServer(c, a \o b)
  BY <1>1, <1>2, ToldConcat
<1> QED
  BY <1>3, <1>4, <1>5, ToldConcat

LEMMA ToldOthers ==
    ASSUME NEW c, NEW more
    PROVE  FromServer(c, Err) /\ FromServer(c, Ok(more))
<1>1. FromServer(c, <<Body("err", 0, FALSE)>>)
  BY ToldOne, Zenon
<1>2. FromServer(c, <<Body("ok", 0, more)>>)
  BY ToldOne
<1> QED
  BY <1>1, <1>2 DEF Err, Ok

-----------------------------------------------------------------------------
(* Packets from the client.                                                *)

LEMMA GivenConcat ==
    ASSUME NEW c, NEW s, FromClient(c, s), NEW r, FromClient(c, r)
    PROVE  FromClient(c, s \o r)
  BY ElemsConcat DEF FromClient

LEMMA GivenTail ==
    ASSUME NEW c, NEW s, FromClient(c, s), s # <<>>
    PROVE  FromClient(c, Tail(s)) /\ Given(c, Head(s))
  BY ElemsTail DEF FromClient

LEMMA ToldTail ==
    ASSUME NEW c, NEW s, FromServer(c, s), s # <<>>
    PROVE  FromServer(c, Tail(s)) /\ Told(c, Head(s))
  BY ElemsTail DEF FromServer

(* Framing a packet adds two fields and keeps the others. *)
LEMMA PacketKeeps ==
    ASSUME NEW b, NEW at, NEW shape, NEW f \in DOMAIN b, f \notin {"shape", "seq"}
    PROVE  Packet(b, at, shape)[f] = b[f]
  BY DEF Packet

LEMMA GivenSend ==
    ASSUME NEW c, FromClient(c, wireIn), NEW s, IsSeq(s), NEW at,
           \A b \in Elems(s) : \A shape \in Shapes : Given(c, Packet(b, at, shape)),
           ClientSend(s, at)
    PROVE  FromClient(c, wireIn')
<1>1. PICK shape \in Shapes :
         wireIn' = wireIn \o [i \in DOMAIN s |-> Packet(s[i], at, shape)]
  BY Zenon DEF ClientSend
<1> DEFINE p(i) == Packet(s[i], at, shape)
           r == [i \in 1..Len(s) |-> p(i)]
<1>2. Len(s) \in Nat /\ DOMAIN s = 1..Len(s)
  BY SeqHas
<1>3. \A i \in 1..Len(s) : Given(c, p(i))
  BY DEF Elems
<1>4. wireIn' = wireIn \o r
  BY <1>1, <1>2
<1> HIDE DEF p
<1>5. r \in Seq({p(i) : i \in 1..Len(s)}) /\ Len(r) = Len(s)
  BY <1>2
<1>6. \A i \in 1..Len(r) : Given(c, r[i])
  BY <1>3, <1>5
<1> HIDE DEF r
<1>7. FromClient(c, r)
  <2>1. IsSeq(r)
    BY <1>5 DEF IsSeq
  <2> QED
    BY <1>6, <2>1 DEF FromClient, Elems
<1> QED
  BY <1>4, <1>7, GivenConcat

LEMMA GivenKinds ==
    ASSUME NEW c, NEW b, "kind" \in DOMAIN b, NEW at, NEW shape,
           b.kind \notin {"response", "switchResponse", "prepare"}
    PROVE  Given(c, Packet(b, at, shape))
<1>1. Packet(b, at, shape)["kind"] = b["kind"]
  BY PacketKeeps
<1> QED
  BY <1>1 DEF Given

(* The response to the greeting. *)
LEMMA GivenLogin ==
    ASSUME NEW at, NEW shape, told = [plugin |-> DefaultPlugin, scramble |-> 1]
    PROVE  Given(client, Packet(Login(Proof), at, shape))
<1> DEFINE b == Login(Proof)
           p == Packet(b, at, shape)
<1>1. {"kind", "user", "plugin", "proof"} \subseteq DOMAIN b
  BY DEF Login
<1>2. /\ b["kind"] = "response" /\ b["user"] = client.user /\ b["plugin"] = client.plugin
      /\ b["proof"] = Proof
  BY DEF Login
<1>3. Proof = Answer(client, FirstPlugin(client), 1)
  BY DEF Proof, Answer, FirstPlugin
<1> HIDE DEF b
<1>4. p["kind"] = b["kind"]
  BY <1>1, PacketKeeps
<1>5. p["user"] = b["user"]
  BY <1>1, PacketKeeps
<1>6. p["plugin"] = b["plugin"]
  BY <1>1, PacketKeeps
<1>7. p["proof"] = b["proof"]
  BY <1>1, PacketKeeps
<1> HIDE DEF p
<1>8. Given(client, p)
  BY <1>2, <1>3, <1>4, <1>5, <1>6, <1>7 DEF Given
<1> QED
  BY <1>8 DEF p, b

(* The response to an auth-switch. *)
LEMMA GivenSwitch ==
    ASSUME NEW c, NEW n, NEW at, NEW shape, c.user \in DOMAIN Accounts,
           n = [plugin |-> Accounts[c.user], scramble |-> 2]
    PROVE  Given(c, Packet([kind |-> "switchResponse",
                            proof |-> [plugin |-> n.plugin, scramble |-> n.scramble,
                                       right |-> c.right]], at, shape))
<1> DEFINE b == [kind |-> "switchResponse",
                 proof |-> [plugin |-> n.plugin, scramble |-> n.scramble, right |-> c.right]]
           p == Packet(b, at, shape)
<1>1. {"kind", "proof"} \subseteq DOMAIN b
  OBVIOUS
<1>2. b["kind"] = "switchResponse" /\ b["proof"] = Answer(c, Accounts[c.user], 2)
  BY DEF Answer
<1> HIDE DEF b
<1>3. p["kind"] = b["kind"]
  BY <1>1, PacketKeeps
<1>4. p["proof"] = b["proof"]
  BY <1>1, PacketKeeps
<1> HIDE DEF p
<1>5. Given(c, p)
  BY <1>2, <1>3, <1>4 DEF Given
<1> QED
  BY <1>5 DEF p, b

(* What a client sends as a command: one packet, or the frames of one the
   server does not serve. *)
Sends(c) == ClientSend(<<c>>, 0) \/ ClientSendUnserved(c)

LEMMA GivenUnserved ==
    ASSUME NEW c, NEW body, \A at, shape : Given(c, Packet(body, at, shape)),
           FromClient(c, wireIn), ClientSendUnserved(body)
    PROVE  FromClient(c, wireIn')
<1>1. PICK shape \in Unserved :
         wireIn' = wireIn \o <<Packet(body, 0, shape)>>
                   \o (IF shape = "split" THEN <<Packet(body, 1, shape)>> ELSE <<>>)
  BY Zenon DEF ClientSendUnserved
<1> DEFINE p == Packet(body, 0, shape)
           q == Packet(body, 1, shape)
<1>2. Given(c, p) /\ Given(c, q)
  BY Zenon
<1> HIDE DEF p, q
<1>3. FromClient(c, <<p>>) /\ FromClient(c, <<q>>) /\ FromClient(c, <<>>)
  BY <1>2, ElemsOne, ElemsEmpty DEF FromClient
<1>4. ASSUME NEW s, NEW t, FromClient(c, s), FromClient(c, t)
      PROVE  FromClient(c, s \o t)
  <2>1. IsSeq(s \o t) /\ Elems(s \o t) = Elems(s) \cup Elems(t)
    BY <1>4, ElemsConcat, Zenon DEF FromClient
  <2> QED
    BY <1>4, <2>1, Zenon DEF FromClient
<1>5. FromClient(c, (wireIn \o <<p>>) \o <<q>>) /\ FromClient(c, (wireIn \o <<p>>) \o <<>>)
  BY <1>3, <1>4, Zenon
<1>6. CASE shape = "split"
  BY <1>1, <1>5, <1>6 DEF p, q
<1>7. CASE shape # "split"
  BY <1>1, <1>5, <1>7 DEF p
<1> QED
  BY <1>6, <1>7

LEMMA GivenCommand ==
    ASSUME NEW c, NEW kind \in CommandKinds, NEW n \in Argument(kind), NEW tag, NEW at, NEW shape
    PROVE  Given(c, Packet([kind |-> kind, n |-> n, tag |-> tag], at, shape))
<1> DEFINE b == [kind |-> kind, n |-> n, tag |-> tag]
           p == Packet(b, at, shape)
<1>1. {"kind", "n"} \subseteq DOMAIN b
  OBVIOUS
<1>2. b["kind"] = kind /\ b["n"] = n
  OBVIOUS
<1> HIDE DEF b
<1>3. p["kind"] = b["kind"]
  BY <1>1, PacketKeeps
<1>4. p["n"] = b["n"]
  BY <1>1, PacketKeeps
<1>5. kind = "prepare" => n \in Int
  BY DEF Argument
<1>6. kind \notin {"response", "switchResponse"}
  BY DEF CommandKinds
<1> HIDE DEF p
<1>7. Given(c, p)
  BY <1>2, <1>3, <1>4, <1>5, <1>6 DEF Given
<1> QED
  BY <1>7 DEF p, b

-----------------------------------------------------------------------------
(* Every step keeps the invariant.                                         *)

LEMMA LoginInitial ==
    ASSUME Init
    PROVE  LoginInv
<1>1. FromClient(client, wireIn) /\ FromClient(client, buf) /\ FromServer(client, wireOut)
  BY ElemsEmpty DEF Init, FromClient, FromServer
<1> QED
  BY <1>1 DEF Init, LoginInv, Wires, Scrambles, OnlyVerified

LEMMA LoginGreet ==
    ASSUME LoginInv, Greet
    PROVE  LoginInv'
<1> DEFINE b == Body("greeting", [plugin |-> DefaultPlugin, scramble |-> 1], FALSE)
<1>1. FromServer(client, <<b>>)
  <2>1. Told(client, b)
    BY DEF Told, Body
  <2> HIDE DEF b
  <2> QED
    BY <2>1, ElemsOne DEF FromServer
<1>2. FromServer(client, wireOut')
  <2>1. Send(<<b>>, seq, 0)
    BY DEF Greet
  <2> HIDE DEF b
  <2> QED
    BY <1>1, <2>1, ToldSend DEF LoginInv, Wires
<1> QED
  BY <1>2 DEF LoginInv, Wires, Scrambles, OnlyVerified, Greet, user

LEMMA LoginRead ==
    ASSUME LoginInv, Read
    PROVE  LoginInv'
<1>1. PICK n \in 1..Len(wireIn) :
         buf' = SubSeq(wireIn, 1, n) /\ wireIn' = SubSeq(wireIn, n + 1, Len(wireIn))
  BY DEF Read
<1>2. IsSeq(wireIn) /\ \A p \in Elems(wireIn) : Given(client, p)
  BY DEF LoginInv, Wires, FromClient
<1>3. /\ IsSeq(buf') /\ Elems(buf') \subseteq Elems(wireIn)
      /\ IsSeq(wireIn') /\ Elems(wireIn') \subseteq Elems(wireIn)
  BY <1>1, <1>2, ElemsSplit
<1>4. FromClient(client, buf') /\ FromClient(client, wireIn')
  BY <1>2, <1>3 DEF FromClient
<1> QED
  BY <1>4 DEF LoginInv, Wires, Scrambles, OnlyVerified, Read, user

(* A step that ends the connection, and reads at most one packet. *)
LEMMA LoginClose ==
    ASSUME LoginInv, phase' = "closed",
           UNCHANGED <<wireIn, wireOut, user>>,
           buf' = buf \/ (buf # <<>> /\ buf' = Tail(buf))
    PROVE  LoginInv'
<1>1. FromClient(client, buf')
  BY GivenTail, ZenonT(30) DEF LoginInv, Wires
<1> QED
  BY <1>1 DEF LoginInv, Wires, Scrambles, OnlyVerified, user

(* authenticate()'s verdict on the response of the client. *)
LEMMA VerdictIs ==
    ASSUME FromServer(client, wireOut),
           NEW l, l.user = client.user, NEW plugin, NEW proof, NEW at,
           NEW p, NEW n, proof = Answer(client, p, n),
           Verdict(l, plugin, proof, at)
    PROVE  /\ FromServer(client, wireOut')
           /\ \/ phase' = "command" /\ why' = why /\ Honest(client)
              \/ /\ phase' = "closed" /\ why' = "denied"
                 /\ ~Verified(l.user, plugin, proof)
<1> DEFINE ok == Verified(l.user, plugin, proof)
           more == IF plugin = "sha2" THEN <<Body("moreData", 0, FALSE)>> ELSE <<>>
           bodies == IF ok THEN more \o <<Body("ok", 0, FALSE)>>
                           ELSE <<Body("err", 0, FALSE)>>
<1>1. /\ Send(bodies, at, 0)
      /\ ok => phase' = "command" /\ UNCHANGED why
      /\ ~ok => phase' = "closed" /\ why' = "denied"
  BY Zenon DEF Verdict, Close
<1>2. FromServer(client, more)
  <2>1. FromServer(client, <<>>)
    BY ElemsEmpty DEF FromServer
  <2>2. FromServer(client, <<Body("moreData", 0, FALSE)>>)
    BY ToldOne, Zenon
  <2> QED
    BY <2>1, <2>2
<1>3. FromServer(client, <<Body("ok", 0, FALSE)>>) /\ FromServer(client, <<Body("err", 0, FALSE)>>)
  BY ToldOne, Zenon
<1> HIDE DEF more
<1>4. FromServer(client, more \o <<Body("ok", 0, FALSE)>>)
  BY <1>2, <1>3, ToldConcat
<1>5. FromServer(client, bodies)
  BY <1>3, <1>4
<1>6. ok => Honest(client)
  BY DEF Verified, Answer, Honest
<1> HIDE DEF ok, bodies
<1>7. FromServer(client, wireOut')
  BY <1>1, <1>5, ToldSend
<1> QED
  BY <1>1, <1>6, <1>7, Zenon DEF ok

(* authenticate() on the response to the greeting: a verdict, or a switch to
   the account's plugin.  Who is denied did not prove to know the password. *)
LEMMA AuthenticateIs ==
    ASSUME LoginInv, scramble = 1, NEW l, l.kind = "response", Given(client, l),
           Authenticate(l)
    PROVE  /\ FromServer(client, wireOut')
           /\ \/ phase' = "command" /\ why' = why /\ Honest(client)
              \/ /\ phase' = "closed" /\ why' = "denied"
                 /\ client.plugin \in KnownPlugins \cup {"none"} => ~Honest(client)
              \/ /\ phase' = "switch" /\ scramble' = 2 /\ login' = l /\ why' = why
                 /\ client.user \in DOMAIN Accounts
<1> DEFINE client_plugin == IF l.plugin \in KnownPlugins THEN l.plugin ELSE DefaultPlugin
           target_plugin == IF l.user \in DOMAIN Accounts THEN Accounts[l.user]
                                                         ELSE client_plugin
           at == (seq + 1) % SeqIds
           b == Body("switch", [plugin |-> target_plugin, scramble |-> 2], FALSE)
<1>1. /\ l.user = client.user /\ l.plugin = client.plugin
      /\ l.proof = Answer(client, FirstPlugin(client), 1)
  BY DEF Given
<1>2. FromServer(client, wireOut)
  BY DEF LoginInv, Wires
<1>3. \/ client_plugin = target_plugin /\ Verdict(l, target_plugin, l.proof, at)
      \/ /\ client_plugin # target_plugin /\ scramble' = 2 /\ Send(<<b>>, at, 0)
         /\ login' = l /\ phase' = "switch" /\ UNCHANGED why
  BY Zenon DEF Authenticate
<1>4. CASE client_plugin = target_plugin /\ Verdict(l, target_plugin, l.proof, at)
  <2>1. /\ FromServer(client, wireOut')
        /\ \/ phase' = "command" /\ why' = why /\ Honest(client)
           \/ /\ phase' = "closed" /\ why' = "denied"
              /\ ~Verified(l.user, target_plugin, l.proof)
    <3> HIDE DEF client_plugin, target_plugin, at
    <3> QED
      BY <1>1, <1>2, <1>4, VerdictIs, Zenon
  <2>2. ASSUME client.plugin \in KnownPlugins \cup {"none"}, Honest(client)
        PROVE  Verified(l.user, target_plugin, l.proof)
    <3>1. FirstPlugin(client) = client_plugin
      BY <1>1, <2>2 DEF FirstPlugin, KnownPlugins
    <3>2. target_plugin = Accounts[l.user] /\ l.user \in DOMAIN Accounts /\ client.right = TRUE
      BY <1>1, <2>2 DEF Honest
    <3>3. l.proof = [plugin |-> target_plugin, scramble |-> scramble, right |-> TRUE]
      BY <1>1, <1>4, <3>1, <3>2, Zenon DEF Answer
    <3> QED
      BY <3>2, <3>3 DEF Verified
  <2> QED
    BY <2>1, <2>2, Zenon
<1>5. CASE /\ client_plugin # target_plugin /\ scramble' = 2 /\ Send(<<b>>, at, 0)
           /\ login' = l /\ phase' = "switch" /\ UNCHANGED why
  <2>1. l.user \in DOMAIN Accounts /\ target_plugin = Accounts[client.user]
    BY <1>1, <1>5, SMTT(30)
  <2>2. Told(client, b)
    BY <1>1, <2>1, Zenon DEF Told, Body
  <2> HIDE DEF b, at
  <2>3. FromServer(client, <<b>>)
    BY <2>2, ElemsOne, SMTT(30) DEF FromServer
  <2>4. FromServer(client, wireOut')
    BY <1>2, <1>5, <2>3, ToldSend, Zenon
  <2> QED
    BY <1>1, <1>5, <2>1, <2>4
<1> QED
  BY <1>3, <1>4, <1>5, Zenon

LEMMA LoginTakes ==
    ASSUME LoginInv, TakePacket
    PROVE  FromClient(client, buf') /\ Given(client, Head(buf))
  BY GivenTail DEF LoginInv, Wires, TakePacket

LEMMA LoginReadResponse ==
    ASSUME LoginInv, ReadResponse \/ ReadTlsResponse
    PROVE  LoginInv'
<1>1. /\ TakePacket /\ UNCHANGED <<wireIn, user>>
      /\ \/ phase = "response" /\ phase' = "tls" /\ UNCHANGED <<scramble, wireOut>>
         \/ /\ phase \in {"response", "tlsResponse"}
            /\ Head(buf).kind = "response" /\ Authenticate(Head(buf))
  BY Zenon DEF ReadResponse, ReadTlsResponse
<1>2. FromClient(client, buf') /\ Given(client, Head(buf))
  BY <1>1, LoginTakes
<1>3. CASE phase = "response" /\ phase' = "tls" /\ UNCHANGED <<scramble, wireOut>>
  BY <1>1, <1>2, <1>3, Zenon DEF LoginInv, Wires, Scrambles, OnlyVerified, user
<1>4. CASE /\ phase \in {"response", "tlsResponse"}
           /\ Head(buf).kind = "response" /\ Authenticate(Head(buf))
  <2>1. scramble = 1
    BY <1>4, SMTT(30) DEF LoginInv, Scrambles
  <2>2. /\ FromServer(client, wireOut')
        /\ \/ phase' = "command" /\ why' = why /\ Honest(client)
           \/ phase' = "closed"
           \/ phase' = "switch" /\ scramble' = 2 /\ login' = Head(buf) /\ client.user \in DOMAIN Accounts
    BY <1>2, <1>4, <2>1, AuthenticateIs, Zenon
  <2>3. Head(buf).user = client.user
    BY <1>2, <1>4 DEF Given
  <2> QED
    BY <1>1, <1>2, <2>2, <2>3, Zenon DEF LoginInv, Wires, Scrambles, OnlyVerified, user
<1> QED
  BY <1>1, <1>3, <1>4

(* The verdict after an auth-switch. *)
LEMMA SwitchResponseIs ==
    ASSUME LoginInv, ReadSwitchResponse
    PROVE  /\ FromServer(client, wireOut')
           /\ \/ phase' = "command" /\ why' = why /\ Honest(client)
              \/ phase' = "closed" /\ why' = "denied" /\ ~Honest(client)
<1>1. /\ TakePacket /\ Head(buf).kind = "switchResponse" /\ phase = "switch"
      /\ Verdict(login, Accounts[login.user], Head(buf).proof, (seq + 1) % SeqIds)
  BY DEF ReadSwitchResponse
<1>2. Given(client, Head(buf))
  BY <1>1, LoginTakes
<1>3. Head(buf).proof = Answer(client, Accounts[client.user], 2)
  BY <1>1, <1>2 DEF Given
<1>4. /\ scramble = 2 /\ login.user = client.user /\ client.user \in DOMAIN Accounts
      /\ FromServer(client, wireOut)
  BY <1>1, SMTT(30) DEF LoginInv, Scrambles, Wires
<1>5. /\ FromServer(client, wireOut')
      /\ \/ phase' = "command" /\ why' = why /\ Honest(client)
         \/ /\ phase' = "closed" /\ why' = "denied"
            /\ ~Verified(login.user, Accounts[login.user], Head(buf).proof)
  BY <1>1, <1>3, <1>4, VerdictIs, Zenon
<1>6. Honest(client) => Verified(login.user, Accounts[login.user], Head(buf).proof)
  BY <1>3, <1>4, ZenonT(30) DEF Honest, Verified, Answer
<1> QED
  BY <1>5, <1>6

LEMMA LoginSwitchResponse ==
    ASSUME LoginInv, ReadSwitchResponse
    PROVE  LoginInv'
<1>1. FromServer(client, wireOut') /\ ((phase' = "command" /\ Honest(client)) \/ phase' = "closed")
  BY SwitchResponseIs
<1>2. TakePacket /\ UNCHANGED <<wireIn, user>>
  BY DEF ReadSwitchResponse
<1>3. FromClient(client, buf')
  BY <1>2, LoginTakes
<1> QED
  BY <1>1, <1>2, <1>3, Zenon DEF LoginInv, Wires, Scrambles, OnlyVerified, user

LEMMA LoginTlsAccept ==
    ASSUME LoginInv, TlsAccept
    PROVE  LoginInv'
<1> DEFINE input == buf \o wireIn
           b == Body("tls", 0, FALSE)
<1>1. /\ phase = "tls" /\ input # <<>> /\ buf' = <<>> /\ wireIn' = Tail(input)
      /\ \/ phase' = "tlsResponse" /\ wireOut' = wireOut \o Number(<<b>>, 0, 0)
         \/ phase' = "closed" /\ wireOut' = wireOut
      /\ UNCHANGED <<scramble, user>>
  BY Zenon DEF TlsAccept, Close
<1>2. FromClient(client, input)
  BY GivenConcat DEF LoginInv, Wires
<1>3. FromServer(client, <<b>>)
  BY ToldOne, Zenon
<1> HIDE DEF input, b
<1>4. FromServer(client, wireOut \o Number(<<b>>, 0, 0))
  BY <1>3, ToldNumber, ToldConcat DEF LoginInv, Wires
<1>5. FromClient(client, wireIn')
  BY <1>1, <1>2, GivenTail
<1>6. FromClient(client, buf')
  BY <1>1, ElemsEmpty DEF FromClient
<1> QED
  BY <1>1, <1>4, <1>5, <1>6, Zenon DEF LoginInv, Wires, Scrambles, OnlyVerified, user

(* What the arms of run_command_loop have in common. *)
LEMMA LoginDispatch ==
    ASSUME LoginInv, NEW kind, Dispatch(kind), phase' \in {"command", "query", "closed"},
           FromServer(client, wireOut')
    PROVE  LoginInv'
<1>1. TakePacket /\ phase = "command" /\ UNCHANGED <<wireIn, user>>
  BY DEF Dispatch
<1>2. FromClient(client, buf')
  BY <1>1, LoginTakes
<1> QED
  BY <1>1, <1>2, Zenon DEF LoginInv, Wires, Scrambles, OnlyVerified, user

LEMMA LoginReply ==
    ASSUME LoginInv, NEW kind, Dispatch(kind), NEW bodies, FromServer(client, bodies),
           Reply(bodies)
    PROVE  LoginInv'
<1>1. Send(bodies, 1, Head(buf).tag) /\ phase' = phase /\ phase = "command"
  BY DEF Reply, Dispatch
<1>2. FromServer(client, wireOut')
  BY <1>1, ToldSend DEF LoginInv, Wires
<1> QED
  BY <1>1, <1>2, LoginDispatch

LEMMA LoginStart ==
    ASSUME LoginInv, NEW kind, Dispatch(kind), NEW n, Start(n)
    PROVE  LoginInv'
<1>1. phase' = "query" /\ wireOut' = wireOut
  BY DEF Start
<1> QED
  BY <1>1, LoginDispatch DEF LoginInv, Wires

LEMMA LoginCommands ==
    ASSUME LoginInv,
           \/ ComQuit \/ ComPing \/ ComUnknown \/ ComQuery \/ ComStmtPrepare
           \/ ComStmtExecute \/ ComStmtClose \/ ComStmtReset
    PROVE  LoginInv'
<1>1. FromServer(client, wireOut)
  BY DEF LoginInv, Wires
<1>2. FromServer(client, Err) /\ FromServer(client, Ok(FALSE))
  BY ToldOthers, Zenon
<1>3. CASE ComQuit
  <2>1. Dispatch("quit") /\ phase' = "closed" /\ wireOut' = wireOut
    BY <1>3 DEF ComQuit, Close
  <2> QED
    BY <1>1, <2>1, LoginDispatch
<1>4. CASE ComPing
  BY <1>2, <1>4, LoginReply, Zenon DEF ComPing
<1>5. CASE ComUnknown
  BY <1>2, <1>5, LoginReply DEF ComUnknown
<1>6. CASE ComQuery
  <2>1. Dispatch("query") /\ (Reply(Err) \/ Start(Head(buf).n))
    BY <1>6, Zenon DEF ComQuery
  <2> QED
    BY <1>2, <2>1, LoginReply, LoginStart
<1>7. CASE ComStmtPrepare
  <2> DEFINE n == Head(buf).n
  <2>1. /\ Dispatch("prepare")
        /\ Reply(Err) \/ (n >= 0 /\ Reply(PrepareOk(nextId, n, caps[2])))
    BY <1>7, Zenon DEF ComStmtPrepare
  <2>2. n \in Int
    <3>1. TakePacket /\ Head(buf).kind = "prepare"
      BY <2>1 DEF Dispatch
    <3>2. Given(client, Head(buf))
      BY <3>1, LoginTakes
    <3> QED
      BY <3>1, <3>2, Zenon DEF Given
  <2> HIDE DEF n
  <2>3. n >= 0 => FromServer(client, PrepareOk(nextId, n, caps[2]))
    BY <2>2, ToldPrepareOk
  <2> QED
    BY <1>2, <2>1, <2>3, LoginReply
<1>8. CASE ComStmtExecute
  <2>1. Dispatch("execute") /\ (Reply(Err) \/ Start(1))
    BY <1>8, Zenon DEF ComStmtExecute
  <2> QED
    BY <1>2, <2>1, LoginReply, LoginStart
<1>9. CASE ComStmtClose
  <2>1. Dispatch("close") /\ phase' = phase /\ phase = "command" /\ wireOut' = wireOut
    BY <1>9 DEF ComStmtClose, Dispatch
  <2> QED
    BY <1>1, <2>1, LoginDispatch
<1>10. CASE ComStmtReset
  <2>1. Dispatch("reset") /\ (Reply(Err) \/ Reply(Ok(FALSE)))
    BY <1>10, ZenonT(30) DEF ComStmtReset
  <2> QED
    BY <1>2, <2>1, LoginReply, Zenon
<1> QED
  BY <1>3, <1>4, <1>5, <1>6, <1>7, <1>8, <1>9, <1>10

LEMMA LoginExecute ==
    ASSUME LoginInv, ExecuteStatement
    PROVE  LoginInv'
<1>1. PICK o \in Outcomes : SendResult(o, o.ok /\ left > 1)
  BY DEF ExecuteStatement
<1> DEFINE more == o.ok /\ left > 1
           rs == ResultSet(o.cols, o.rows, more, caps[2])
           bodies == IF ~o.ok THEN Err ELSE IF o.cols = 0 THEN Ok(more) ELSE rs
<1>2. o.cols \in Nat /\ o.rows \in Nat
  BY ConnectionAssumption DEF OutcomeType
<1>3. FromServer(client, bodies)
  <2>1. FromServer(client, rs)
    BY <1>2, ToldResultSet
  <2>2. FromServer(client, Err) /\ FromServer(client, Ok(more))
    BY ToldOthers
  <2> QED
    BY <2>1, <2>2
<1>4. \/ phase' = "closed" /\ wireOut' = wireOut
      \/ Send(bodies, seq, answering) /\ phase' \in {"command", "query"}
  BY <1>1 DEF SendResult, Close
<1> HIDE DEF bodies
<1>5. FromServer(client, wireOut') /\ phase' \in {"command", "query", "closed"}
  BY <1>3, <1>4, ToldSend DEF LoginInv, Wires
<1>6. phase = "query" /\ UNCHANGED <<buf, wireIn, user>>
  BY DEF ExecuteStatement
<1> QED
  BY <1>5, <1>6, Zenon DEF LoginInv, Wires, Scrambles, OnlyVerified, user

LEMMA LoginServe ==
    ASSUME LoginInv, Serve \/ ConnectTimeout \/ WaitTimeout
    PROVE  LoginInv'
<1>1. CASE ReadEof \/ WriteFails \/ Refuse \/ RefuseCommand \/ ConnectTimeout \/ WaitTimeout
  <2>1. /\ phase' = "closed" /\ UNCHANGED <<wireIn, wireOut, user>>
        /\ buf' = buf \/ (buf # <<>> /\ buf' = Tail(buf))
    BY <1>1, Zenon DEF ReadEof, WriteFails, Refuse, RefuseCommand, TakePacket,
       ConnectTimeout, WaitTimeout, Close
  <2> QED
    BY <2>1, LoginClose
<1>2. CASE \/ ComQuit \/ ComPing \/ ComUnknown \/ ComQuery \/ ComStmtPrepare
           \/ ComStmtExecute \/ ComStmtClose \/ ComStmtReset
  BY <1>2, LoginCommands
<1>3. CASE Greet \/ Read \/ ReadResponse \/ ReadTlsResponse \/ TlsAccept
           \/ ReadSwitchResponse \/ ExecuteStatement
  BY <1>3, LoginGreet, LoginRead, LoginReadResponse, LoginTlsAccept, LoginSwitchResponse,
     LoginExecute
<1> QED
  BY <1>1, <1>2, <1>3, Zenon DEF Serve

(* A step of the client: the server's own variables are left alone. *)
LEMMA LoginClientStep ==
    ASSUME LoginInv, UNCHANGED <<server, client>>,
           FromClient(client, wireIn'), FromServer(client, wireOut'),
           stage' \in {"hello", "tlsWait", "respond"} =>
               told' = [plugin |-> DefaultPlugin, scramble |-> 1]
    PROVE  LoginInv'
  BY Zenon DEF LoginInv, Wires, Scrambles, OnlyVerified, server

LEMMA LoginReceives ==
    ASSUME LoginInv, NEW kinds, Receives(kinds)
    PROVE  FromServer(client, wireOut') /\ Told(client, Head(wireOut)) /\ Head(wireOut).kind \in kinds
  BY ToldTail, Zenon DEF LoginInv, Wires, Receives

LEMMA LoginClient ==
    ASSUME LoginInv, ClientStep
    PROVE  LoginInv'
<1> DEFINE first == [plugin |-> DefaultPlugin, scramble |-> 1]
<1>1. FromClient(client, wireIn) /\ FromServer(client, wireOut)
  BY SMTT(30) DEF LoginInv, Wires
<1>2. stage \in {"hello", "tlsWait", "respond"} => told = first
  BY Zenon DEF LoginInv, Scrambles
<1>3. CASE ClientGreeting
  <2> DEFINE a == [kind |-> "sslRequest"]
             b == [kind |-> "hello"]
  <2>1. /\ Receives({"greeting"}) /\ told' = Head(wireOut).n /\ UNCHANGED <<server, client>>
        /\ \/ ClientSend(<<a>>, 1)
           \/ ClientSend(<<a, b>>, 1)
           \/ wireIn' = wireIn
    BY <1>3, ZenonT(30) DEF ClientGreeting
  <2>2. FromServer(client, wireOut') /\ told' = first
    <3>1. FromServer(client, wireOut') /\ Told(client, Head(wireOut)) /\ Head(wireOut).kind = "greeting"
      BY <2>1, LoginReceives
    <3> QED
      BY <2>1, <3>1, Zenon DEF Told
  <2>3. \A shape \in Shapes : Given(client, Packet(a, 1, shape)) /\ Given(client, Packet(b, 1, shape))
    BY GivenKinds
  <2> HIDE DEF a, b
  <2>4. IsSeq(<<a>>) /\ Elems(<<a>>) = {a} /\ IsSeq(<<a, b>>) /\ Elems(<<a, b>>) = {a, b}
    <3>1. <<a, b>> = Append(<<a>>, b)
      OBVIOUS
    <3>2. IsSeq(<<a>>) /\ Elems(<<a>>) = {a}
      BY ElemsOne
    <3>3. IsSeq(Append(<<a>>, b)) /\ Elems(Append(<<a>>, b)) = Elems(<<a>>) \cup {b}
      BY <3>2, ElemsAppend
    <3>4. {a} \cup {b} = {a, b}
      OBVIOUS
    <3> QED
      BY <3>1, <3>2, <3>3, <3>4, Zenon
  <2>5. FromClient(client, wireIn')
    BY <1>1, <2>1, <2>3, <2>4, GivenSend
  <2> QED
    BY <2>1, <2>2, <2>5, LoginClientStep, Zenon
<1>4. CASE ClientHello
  <2> DEFINE p == Packet([kind |-> "hello"], 0, "good")
  <2>1. /\ stage = "hello" /\ wireIn' = Append(wireIn, p)
        /\ UNCHANGED <<server, client, wireOut, told>>
    BY <1>4 DEF ClientHello
  <2>2. Given(client, p)
    BY GivenKinds
  <2> HIDE DEF p
  <2>3. FromClient(client, wireIn')
    BY <1>1, <2>1, <2>2, ElemsAppend DEF FromClient
  <2> QED
    BY <1>1, <1>2, <2>1, <2>3, LoginClientStep
<1>5. CASE ClientTlsDone
  <2>1. /\ stage = "tlsWait" /\ wireOut # <<>> /\ wireOut' = Tail(wireOut)
        /\ UNCHANGED <<server, client, wireIn, told>>
    BY <1>5 DEF ClientTlsDone
  <2>2. FromServer(client, wireOut')
    BY <1>1, <2>1, ToldTail
  <2> QED
    BY <1>1, <1>2, <2>1, <2>2, LoginClientStep
<1>6. CASE ClientRespond
  <2> DEFINE b == Login(Proof)
  <2>1. /\ stage = "respond" /\ ClientSend(<<b>>, cseq) /\ stage' = "verdict"
        /\ UNCHANGED <<server, client, wireOut>>
    BY <1>6 DEF ClientRespond
  <2>2. \A shape \in Shapes : Given(client, Packet(b, cseq, shape))
    BY <1>2, <2>1, GivenLogin
  <2> HIDE DEF b
  <2>3. FromClient(client, wireIn')
    BY <1>1, <2>1, <2>2, ElemsOne, GivenSend
  <2> QED
    BY <1>1, <2>1, <2>3, LoginClientStep
<1>7. CASE ClientSwitch
  <2> DEFINE n == Head(wireOut).n
             b == [kind |-> "switchResponse",
                   proof |-> [plugin |-> n.plugin, scramble |-> n.scramble,
                              right |-> client.right]]
             at == (cseq + 1) % SeqIds
  <2>1. /\ stage = "verdict" /\ stage' = stage /\ Receives({"switch"}) /\ ClientSend(<<b>>, at)
        /\ UNCHANGED <<server, client>>
    BY <1>7, Zenon DEF ClientSwitch
  <2>2. /\ FromServer(client, wireOut') /\ client.user \in DOMAIN Accounts
        /\ n = [plugin |-> Accounts[client.user], scramble |-> 2]
    <3>1. FromServer(client, wireOut') /\ Told(client, Head(wireOut)) /\ Head(wireOut).kind = "switch"
      BY <2>1, LoginReceives, SMTT(30)
    <3> QED
      BY <3>1, Zenon DEF Told
  <2> HIDE DEF n, at
  <2>3. \A shape \in Shapes : Given(client, Packet(b, at, shape))
    BY <2>2, GivenSwitch, Zenon
  <2> HIDE DEF b
  <2>4. FromClient(client, wireIn')
    BY <1>1, <2>1, <2>3, ElemsOne, GivenSend
  <2> QED
    BY <2>1, <2>2, <2>4, LoginClientStep, Zenon
<1>8. CASE ClientVerdict
  <2>1. /\ Receives({"moreData", "ok", "err"}) /\ UNCHANGED <<server, client, wireIn>>
        /\ stage' = CASE Head(wireOut).kind = "moreData" -> "verdict"
                      [] Head(wireOut).kind = "ok" -> "ready"
                      [] Head(wireOut).kind = "err" -> "gone"
    BY <1>8 DEF ClientVerdict
  <2>2. FromServer(client, wireOut') /\ Head(wireOut).kind \in {"moreData", "ok", "err"}
    BY <2>1, LoginReceives
  <2>3. stage' \notin {"hello", "tlsWait", "respond"}
    BY <2>1, <2>2
  <2> QED
    BY <1>1, <2>1, <2>2, <2>3, LoginClientStep
<1>9. CASE ClientCommand
  <2>1. PICK kind \in Commands : \E n \in Argument(kind) :
           /\ Sends([kind |-> kind, n |-> n, tag |-> sent + 1])
           /\ stage' = IF kind = "quit" THEN "quit" ELSE "ready"
    BY <1>9, Zenon DEF ClientCommand, Sends
  <2>2. PICK n \in Argument(kind) :
           /\ Sends([kind |-> kind, n |-> n, tag |-> sent + 1])
           /\ stage' = IF kind = "quit" THEN "quit" ELSE "ready"
    BY <2>1
  <2> DEFINE b == [kind |-> kind, n |-> n, tag |-> sent + 1]
  <2>3. UNCHANGED <<server, client, wireOut>>
    BY <1>9 DEF ClientCommand
  <2>4. kind \in CommandKinds
    BY ConnectionAssumption, SMTT(30)
  <2>5. \A at, shape : Given(client, Packet(b, at, shape))
    BY <2>4, GivenCommand, Zenon
  <2> HIDE DEF b
  <2>6. Sends(b)
    BY <2>2 DEF b
  <2>7. FromClient(client, wireIn')
    <3>1. CASE ClientSend(<<b>>, 0)
      BY <1>1, <2>5, <3>1, ElemsOne, GivenSend
    <3>2. CASE ClientSendUnserved(b)
      BY <1>1, <2>5, <3>2, GivenUnserved
    <3> QED
      BY <2>6, <3>1, <3>2 DEF Sends
  <2> QED
    BY <1>1, <2>2, <2>3, <2>7, LoginClientStep
<1>10. CASE ClientReceive
  <2>1. /\ Receives(Legible) /\ UNCHANGED <<server, client, wireIn>>
        /\ stage' = stage /\ stage \in {"ready", "quit"}
    BY <1>10 DEF ClientReceive
  <2>2. FromServer(client, wireOut')
    BY <2>1, LoginReceives
  <2> QED
    BY <1>1, <2>1, <2>2, LoginClientStep
<1>11. CASE ClientClose
  <2>1. stage' = "gone" /\ UNCHANGED <<server, client, wireIn, wireOut>>
    BY <1>11 DEF ClientClose
  <2> QED
    BY <1>1, <2>1, LoginClientStep
<1> QED
  BY <1>3, <1>4, <1>5, <1>6, <1>7, <1>8, <1>9, <1>10, <1>11 DEF ClientStep

LEMMA LoginInductive ==
    ASSUME LoginInv, [Next]_vars
    PROVE  LoginInv'
<1>1. CASE UNCHANGED vars
  BY <1>1, Zenon DEF LoginInv, Wires, Scrambles, OnlyVerified, vars, server, user
<1>2. CASE Serve \/ ConnectTimeout \/ WaitTimeout
  BY <1>2, LoginServe
<1>3. CASE ClientStep
  BY <1>3, LoginClient
<1> QED
  BY <1>1, <1>2, <1>3, ZenonT(30) DEF Next, Ended

-----------------------------------------------------------------------------
(* Who is denied.                                                          *)

LEMMA DeniedOnlyByVerdict ==
    ASSUME [Next]_vars, why' = "denied"
    PROVE  \/ why = "denied" /\ client' = client
           \/ (ReadResponse \/ ReadTlsResponse \/ ReadSwitchResponse) /\ client' = client
<1>1. CASE ClientStep \/ UNCHANGED vars
  BY <1>1, Zenon DEF ClientStep, ClientGreeting, ClientHello, ClientTlsDone, ClientRespond, ClientSwitch,
     ClientVerdict, ClientCommand, ClientReceive, ClientClose, vars, server, user
<1>2. CASE \/ ReadEof \/ WriteFails \/ Refuse \/ RefuseCommand \/ ConnectTimeout
           \/ WaitTimeout \/ TlsAccept
  BY <1>2, Zenon DEF ReadEof, WriteFails, Refuse, RefuseCommand, ConnectTimeout, WaitTimeout,
     TlsAccept, Close, user
<1>3. CASE Greet \/ Read
  BY <1>3, Zenon DEF Greet, Read, user
<1>4. CASE ReadResponse \/ ReadTlsResponse \/ ReadSwitchResponse
  BY <1>4, Zenon DEF ReadResponse, ReadTlsResponse, ReadSwitchResponse, user
<1>5. CASE \/ ComQuit \/ ComPing \/ ComUnknown \/ ComQuery \/ ComStmtPrepare
           \/ ComStmtExecute \/ ComStmtClose \/ ComStmtReset
  BY <1>5, Zenon DEF ComQuit, ComPing, ComUnknown, ComQuery, ComStmtPrepare, ComStmtExecute,
     ComStmtClose, ComStmtReset, Dispatch, Reply, Start, Close, user
<1>6. CASE ExecuteStatement
  BY <1>6 DEF ExecuteStatement, SendResult, Close, user
<1> QED
  BY <1>1, <1>2, <1>3, <1>4, <1>5, <1>6, ZenonT(30) DEF Next, Ended, Serve

LEMMA HonestInductive ==
    ASSUME \A c \in Clients : c.plugin \in KnownPlugins \cup {"none"},
           LoginInv, HonestAdmitted, [Next]_vars
    PROVE  HonestAdmitted'
<1> SUFFICES ASSUME why' = "denied"
             PROVE  ~Honest(client')
  BY Zenon DEF HonestAdmitted, Honest
<1>1. CASE why = "denied" /\ client' = client
  <2>1. client.right \in BOOLEAN
    BY ConnectionAssumption DEF LoginInv, Wires, ClientType
  <2> QED
    BY <1>1, <2>1 DEF HonestAdmitted, Honest
<1>2. CASE ReadSwitchResponse /\ client' = client
  BY <1>1, <1>2, SwitchResponseIs
<1>3. CASE (ReadResponse \/ ReadTlsResponse) /\ client' = client
  <2>1. CASE why = "denied"
    BY <1>1, <1>3, <2>1
  <2>2. CASE why # "denied"
    <3>1. /\ TakePacket
          /\ \/ why' = why
             \/ /\ phase \in {"response", "tlsResponse"}
                /\ Head(buf).kind = "response" /\ Authenticate(Head(buf))
      BY <1>3, Zenon DEF ReadResponse, ReadTlsResponse
    <3>2. Given(client, Head(buf))
      BY <3>1, LoginTakes
    <3>3. scramble = 1
      BY <2>2, <3>1 DEF LoginInv, Scrambles
    <3>4. client.plugin \in KnownPlugins \cup {"none"}
      BY DEF LoginInv, Wires
    <3>5. client.plugin \in KnownPlugins \cup {"none"} => ~Honest(client)
      BY <2>2, <3>1, <3>2, <3>3, AuthenticateIs, Zenon
    <3> QED
      BY <1>3, <3>4, <3>5
  <2> QED
    BY <2>1, <2>2
<1> QED
  BY <1>1, <1>2, <1>3, DeniedOnlyByVerdict

(* Commands are executed only for a client that proved, on the scramble it
   was sent for the account's plugin, to know the password of an account:
   handle() enters run_command_loop after authenticate() alone. *)
THEOREM CommandsVerified == Spec => []OnlyVerified
<1>1. Init => LoginInv
  BY LoginInitial
<1>2. LoginInv /\ [Next]_vars => LoginInv'
  BY LoginInductive
<1>3. LoginInv => OnlyVerified
  BY DEF LoginInv
<1> QED
  BY <1>1, <1>2, <1>3, PTL DEF Spec

(* authenticate() never denies a client that knows its account's password,
   for any accounts, any default plugin, any plugin the client declares, with
   and without TLS, through an auth-switch or not; provided the plugin the
   client computes its first answer with is one the server implements. *)
THEOREM HonestNeverDenied ==
    ASSUME \A c \in Clients : c.plugin \in KnownPlugins \cup {"none"}
    PROVE  Spec => []HonestAdmitted
<1>1. Init => LoginInv /\ HonestAdmitted
  BY LoginInitial, Zenon DEF Init, HonestAdmitted
<1>2. LoginInv /\ HonestAdmitted /\ [Next]_vars => LoginInv' /\ HonestAdmitted'
  BY LoginInductive, HonestInductive
<1> QED
  BY <1>1, <1>2, PTL DEF Spec

-----------------------------------------------------------------------------
(* Whose turn it is.  While they connect, client and server speak in turns *)
(* and count the packets alike; afterwards every command starts at 0.      *)

\* What the server will read next, from read_buf and the socket.
Pipe == buf \o wireIn

\* There is one packet in s, of this kind and with this sequence id.
Sole(s, kind) == Len(s) = 1 /\ s[1].kind = kind
SoleAt(s, kind, at) == Sole(s, kind) /\ s[1].seq = at

\* Unless it has gone, the client is at this stage and has read everything.
Quiet(st, out, at) == st # "gone" => st = at /\ out = <<>>

NoSwitch(s) == IsSeq(s) /\ \A p \in Elems(s) : p.kind # "switch"

\* Where the two ends can be, by the phase of the server: ph, sq are the
\* server's phase and sequence id, pipe what it has to read, st, cs the
\* client's stage and sequence id, out what the client has to read.
InTurn(ph, sq, pipe, st, cs, out) ==
    /\ ph \in {"greet", "response", "tls", "tlsResponse", "switch", "command", "query"}
    /\ ph = "greet" => pipe = <<>> /\ sq = 0 /\ Quiet(st, out, "greeting")
    /\ ph = "response" =>
         /\ sq = 1
         /\ \/ pipe = <<>> /\ (st # "gone" => st = "greeting" /\ Sole(out, "greeting"))
            \/ pipe = <<>> /\ Quiet(st, out, "respond") /\ (st # "gone" => cs = 1)
            \/ /\ SoleAt(pipe, "sslRequest", 1)
               /\ Quiet(st, out, "hello") /\ (st # "gone" => cs = 2)
            \/ /\ Len(pipe) = 2 /\ pipe[1].kind = "sslRequest" /\ pipe[1].seq = 1
               /\ pipe[2].kind = "hello"
               /\ Quiet(st, out, "tlsWait") /\ (st # "gone" => cs = 2)
            \/ /\ SoleAt(pipe, "response", 1)
               /\ Quiet(st, out, "verdict") /\ (st # "gone" => cs = (1 + 1) % SeqIds)
    /\ ph = "tls" =>
         /\ sq = 2 /\ (st # "gone" => cs = 2)
         /\ \/ pipe = <<>> /\ Quiet(st, out, "hello")
            \/ Sole(pipe, "hello") /\ Quiet(st, out, "tlsWait")
    /\ ph = "tlsResponse" =>
         /\ sq = 2
         /\ \/ pipe = <<>> /\ (st # "gone" => cs = 2 /\ st = "tlsWait" /\ Sole(out, "tls"))
            \/ pipe = <<>> /\ Quiet(st, out, "respond") /\ (st # "gone" => cs = 2)
            \/ /\ SoleAt(pipe, "response", 2)
               /\ Quiet(st, out, "verdict") /\ (st # "gone" => cs = (2 + 1) % SeqIds)
    /\ ph = "switch" =>
         \/ /\ pipe = <<>>
            /\ st # "gone" => st = "verdict" /\ Sole(out, "switch") /\ (cs + 1) % SeqIds = sq
         \/ SoleAt(pipe, "switchResponse", sq) /\ Quiet(st, out, "verdict")
    /\ ph \in {"command", "query"} =>
         /\ \A p \in Elems(pipe) : p.seq = 0
         /\ st \in {"verdict", "ready", "quit", "gone"}
         /\ st = "verdict" => ph = "command" /\ pipe = <<>> /\ NoSwitch(out)

\* As long as the client has sent nothing malformed and the server goes on.
TurnInv ==
    ~faulty /\ phase # "closed" =>
        /\ \A p \in Elems(Pipe) : p.shape = "good"
        /\ InTurn(phase, seq, Pipe, stage, cseq, wireOut)

LEMMA Mods ==
    ASSUME SeqIds > 2
    PROVE  (0 + 1) % SeqIds = 1 /\ (1 + 1) % SeqIds = 2
  BY ConnectionAssumption

LEMMA PipeIs ==
    ASSUME LoginInv
    PROVE  /\ IsSeq(buf) /\ IsSeq(wireIn) /\ IsSeq(wireOut) /\ IsSeq(Pipe)
           /\ Elems(Pipe) = Elems(buf) \cup Elems(wireIn)
           /\ Pipe = <<>> => buf = <<>> /\ wireIn = <<>>
<1>1. IsSeq(buf) /\ IsSeq(wireIn) /\ IsSeq(wireOut)
  BY DEF LoginInv, Wires, FromClient, FromServer
<1>2. IsSeq(Pipe) /\ Elems(Pipe) = Elems(buf) \cup Elems(wireIn)
  BY <1>1, ElemsConcat DEF Pipe
<1>3. ASSUME Pipe = <<>> PROVE buf = <<>> /\ wireIn = <<>>
  <2>1. Len(buf) + Len(wireIn) = 0
    BY <1>1, <1>3, SeqConcat, SeqEmpty DEF Pipe
  <2>2. Len(buf) \in Nat /\ Len(wireIn) \in Nat
    BY <1>1, SeqHas
  <2>3. Len(buf) = 0 /\ Len(wireIn) = 0
    BY <2>1, <2>2
  <2>4. PICK S : buf \in Seq(S) /\ wireIn \in Seq(S)
    BY <1>1, SeqsInOne
  <2> QED
    BY <2>3, <2>4, EmptySeq
<1> QED
  BY <1>1, <1>2, <1>3

(* A read moves packets from the socket to read_buf. *)
LEMMA PipeRead ==
    ASSUME LoginInv, Read
    PROVE  Pipe' = Pipe
<1>1. PICK n \in 1..Len(wireIn) :
         buf' = SubSeq(wireIn, 1, n) /\ wireIn' = SubSeq(wireIn, n + 1, Len(wireIn))
  BY DEF Read
<1>2. buf = <<>> /\ IsSeq(wireIn)
  BY PipeIs DEF Read
<1>3. PICK S : wireIn \in Seq(S)
  BY <1>2 DEF IsSeq
<1>4. Pipe = wireIn
  BY <1>2, <1>3 DEF Pipe
<1>5. Len(wireIn) \in Nat /\ \A i \in 1..Len(wireIn) : wireIn[i] \in S
  BY <1>3, ElementOfSeq
<1>6. buf' \in Seq(S) /\ Len(buf') = n /\ \A i \in 1..n : buf'[i] = wireIn[i]
  <2>1. 1 \in Int /\ n \in Int /\ 1 <= n /\ \A i \in 1..n : wireIn[i] \in S
    BY <1>5
  <2>2. /\ SubSeq(wireIn, 1, n) \in Seq(S)
        /\ Len(SubSeq(wireIn, 1, n)) = IF 1 <= n THEN n - 1 + 1 ELSE 0
        /\ \A i \in 1..n - 1 + 1 : SubSeq(wireIn, 1, n)[i] = wireIn[1 + i - 1]
    BY <2>1, SubSeqProperties
  <2> QED
    BY <1>1, <2>1, <2>2
<1>7. /\ wireIn' \in Seq(S) /\ Len(wireIn') = Len(wireIn) - n
      /\ \A i \in 1..Len(wireIn) - n : wireIn'[i] = wireIn[n + i]
  <2> DEFINE r == SubSeq(wireIn, n + 1, Len(wireIn))
  <2>1. /\ n + 1 \in Int /\ Len(wireIn) \in Int /\ n <= Len(wireIn)
        /\ \A i \in n + 1..Len(wireIn) : wireIn[i] \in S
    BY <1>5
  <2>2. /\ r \in Seq(S)
        /\ Len(r) = IF n + 1 <= Len(wireIn) THEN Len(wireIn) - (n + 1) + 1 ELSE 0
        /\ \A i \in 1..Len(wireIn) - (n + 1) + 1 : r[i] = wireIn[(n + 1) + i - 1]
    BY <2>1, SubSeqProperties
  <2>3. wireIn' = r
    BY <1>1
  <2> HIDE DEF r
  <2>4. Len(wireIn) - (n + 1) + 1 = Len(wireIn) - n /\ Len(r) = Len(wireIn) - n
    BY <1>5, <2>1, <2>2
  <2>5. \A i \in 1..Len(wireIn) - n : (n + 1) + i - 1 = n + i
    BY <1>5, <2>1
  <2>6. \A i \in 1..Len(wireIn) - n : r[i] = wireIn[n + i]
    BY <2>2, <2>4, <2>5, Zenon
  <2> QED
    BY <2>2, <2>3, <2>4, <2>6
<1>8. /\ Pipe' \in Seq(S) /\ Len(Pipe') = Len(wireIn)
      /\ \A i \in 1..Len(wireIn) : Pipe'[i] = wireIn[i]
  <2>1. Pipe' = buf' \o wireIn'
    BY DEF Pipe
  <2>2. /\ buf' \o wireIn' \in Seq(S) /\ Len(buf' \o wireIn') = Len(buf') + Len(wireIn')
        /\ \A i \in 1..Len(buf') + Len(wireIn') :
             (buf' \o wireIn')[i] = IF i <= Len(buf') THEN buf'[i] ELSE wireIn'[i - Len(buf')]
    BY <1>6, <1>7, ConcatProperties, Zenon
  <2>3. Len(buf') + Len(wireIn') = Len(wireIn)
    BY <1>5, <1>6, <1>7
  <2>4. ASSUME NEW i \in 1..Len(wireIn) PROVE Pipe'[i] = wireIn[i]
    <3>1. Pipe'[i] = IF i <= n THEN buf'[i] ELSE wireIn'[i - n]
      BY <1>6, <2>1, <2>2, <2>3, Zenon
    <3>2. CASE i <= n
      <4>1. i \in 1..n
        BY <3>2
      <4> QED
        BY <1>6, <3>1, <3>2, <4>1, Zenon
    <3>3. CASE ~ (i <= n)
      <4>1. i - n \in 1..Len(wireIn) - n /\ n + (i - n) = i
        BY <1>5, <3>3
      <4> QED
        BY <1>7, <3>1, <3>3, <4>1, Zenon
    <3> QED
      BY <3>2, <3>3
  <2> QED
    BY <2>1, <2>2, <2>3, <2>4, Zenon
<1> QED
  BY <1>3, <1>4, <1>8, SeqEqual

(* Taking the next packet. *)
LEMMA PipeTake ==
    ASSUME LoginInv, buf # <<>>, buf' = Tail(buf), wireIn' = wireIn
    PROVE  /\ IsSeq(Pipe') /\ Head(buf) = Pipe[1] /\ Len(Pipe) \in Nat \ {0}
           /\ Len(Pipe') = Len(Pipe) - 1 /\ (Len(Pipe) = 1 => Pipe' = <<>>)
           /\ \A i \in 1..Len(Pipe) - 1 : Pipe'[i] = Pipe[i + 1]
           /\ Elems(Pipe') \subseteq Elems(Pipe)
<1>1. PICK S : buf \in Seq(S) /\ wireIn \in Seq(S)
  BY PipeIs, SeqsInOne
<1>2. /\ Tail(buf) \in Seq(S) /\ Len(Tail(buf)) = Len(buf) - 1
      /\ \A i \in 1..Len(Tail(buf)) : Tail(buf)[i] = buf[i + 1]
  BY <1>1, HeadTailProperties
<1>3. Len(buf) \in Nat /\ Len(buf) > 0 /\ Head(buf) = buf[1] /\ Len(wireIn) \in Nat
  BY <1>1, EmptySeq
<1>4. Pipe = buf \o wireIn /\ Pipe' = Tail(buf) \o wireIn
  BY DEF Pipe
<1>5. /\ Pipe \in Seq(S) /\ Len(Pipe) = Len(buf) + Len(wireIn)
      /\ \A i \in 1..Len(buf) + Len(wireIn) :
           Pipe[i] = IF i <= Len(buf) THEN buf[i] ELSE wireIn[i - Len(buf)]
  BY <1>1, <1>4, ConcatProperties, Zenon
<1>6. /\ Pipe' \in Seq(S) /\ Len(Pipe') = Len(Tail(buf)) + Len(wireIn)
      /\ \A i \in 1..Len(Tail(buf)) + Len(wireIn) :
           Pipe'[i] = IF i <= Len(Tail(buf)) THEN Tail(buf)[i] ELSE wireIn[i - Len(Tail(buf))]
  BY <1>1, <1>2, <1>4, ConcatProperties, Zenon
<1>7. Len(Pipe') = Len(Pipe) - 1 /\ Head(buf) = Pipe[1] /\ Len(Pipe) \in Nat \ {0}
  BY <1>2, <1>3, <1>5, <1>6
<1>8. \A i \in 1..Len(Pipe) - 1 : Pipe'[i] = Pipe[i + 1]
  <2> SUFFICES ASSUME NEW i \in 1..Len(Pipe) - 1 PROVE Pipe'[i] = Pipe[i + 1]
    OBVIOUS
  <2>1. CASE i <= Len(buf) - 1
    BY <1>2, <1>3, <1>5, <1>6, <2>1
  <2>2. CASE ~ (i <= Len(buf) - 1)
    <3>1. i - (Len(buf) - 1) = (i + 1) - Len(buf)
      BY <1>3
    <3> QED
      BY <1>2, <1>3, <1>5, <1>6, <2>2, <3>1
  <2> QED
    BY <2>1, <2>2
<1>9. Len(Pipe) = 1 => Pipe' = <<>>
  BY <1>6, <1>7, EmptySeq
<1>10. Elems(Pipe') \subseteq Elems(Pipe)
  <2>1. \A i \in 1..Len(Pipe) - 1 : i + 1 \in 1..Len(Pipe)
    BY <1>7
  <2> QED
    BY <1>7, <1>8, <2>1 DEF Elems
<1> QED
  BY <1>6, <1>7, <1>8, <1>9, <1>10, Zenon DEF IsSeq

\* The bodies s as the client frames them when it does so well.
Frames(s, at) == [i \in DOMAIN s |-> Packet(s[i], at, "good")]

Framed(f, s, at) ==
    /\ IsSeq(f) /\ Len(f) = Len(s)
    /\ \A i \in 1..Len(s) : f[i].shape = "good" /\ f[i].seq = at /\ f[i].kind = s[i].kind

LEMMA FramesHave ==
    ASSUME NEW s, IsSeq(s), NEW at, \A i \in 1..Len(s) : "kind" \in DOMAIN s[i]
    PROVE  Framed(Frames(s, at), s, at)
<1> DEFINE r == Frames(s, at)
<1>1. Len(s) \in Nat /\ DOMAIN s = 1..Len(s)
  BY SeqHas
<1>2. r = [i \in 1..Len(s) |-> Packet(s[i], at, "good")]
  BY <1>1 DEF Frames
<1>3. \A i \in 1..Len(s) : r[i] = Packet(s[i], at, "good")
  BY <1>2, Zenon
<1>4. r \in Seq({Packet(s[i], at, "good") : i \in 1..Len(s)}) /\ Len(r) = Len(s)
  BY <1>1, <1>2
<1> HIDE DEF r
<1>5. ASSUME NEW i \in 1..Len(s)
      PROVE  r[i].shape = "good" /\ r[i].seq = at /\ r[i].kind = s[i].kind
  <2>1. r[i] = Packet(s[i], at, "good") /\ "kind" \in DOMAIN s[i]
    BY <1>3, Zenon
  <2>2. Packet(s[i], at, "good")["kind"] = s[i]["kind"]
    BY <2>1, PacketKeeps
  <2>3. Packet(s[i], at, "good")["shape"] = "good" /\ Packet(s[i], at, "good")["seq"] = at
    BY DEF Packet
  <2> QED
    BY <2>1, <2>2, <2>3, Zenon
<1> QED
  BY <1>4, <1>5, Zenon DEF r, IsSeq, Framed

(* A well-formed send puts its frames behind what the server has to read. *)
LEMMA PipeSend ==
    ASSUME LoginInv, NEW s, IsSeq(s), NEW at, \A i \in 1..Len(s) : "kind" \in DOMAIN s[i],
           ClientSend(s, at), ~faulty', buf' = buf
    PROVE  ~faulty /\ wireIn' = wireIn \o Frames(s, at)
<1>1. PICK shape \in Shapes :
         /\ wireIn' = wireIn \o [i \in DOMAIN s |-> Packet(s[i], at, shape)]
         /\ faulty' = (faulty \/ shape # "good")
  BY Zenon DEF ClientSend
<1>2. ~faulty /\ shape = "good"
  BY <1>1, Zenon
<1> QED
  BY <1>1, <1>2, Zenon DEF Frames

(* The same when the server had nothing to read. *)
LEMMA PipeSendFirst ==
    ASSUME LoginInv, NEW s, IsSeq(s), NEW at, \A i \in 1..Len(s) : "kind" \in DOMAIN s[i],
           ClientSend(s, at), ~faulty', buf' = buf, Pipe = <<>>
    PROVE  /\ ~faulty /\ Len(Pipe') = Len(s)
           /\ \A i \in 1..Len(s) : Pipe'[i].seq = at /\ Pipe'[i].kind = s[i].kind
           /\ \A p \in Elems(Pipe') : p.shape = "good"
<1>1. ~faulty /\ wireIn' = wireIn \o Frames(s, at)
  BY PipeSend, Zenon
<1>2. buf = <<>> /\ wireIn = <<>>
  BY PipeIs, Zenon
<1>3. /\ IsSeq(Frames(s, at)) /\ Len(Frames(s, at)) = Len(s)
      /\ \A i \in 1..Len(s) : /\ Frames(s, at)[i].shape = "good"
                              /\ Frames(s, at)[i].seq = at
                              /\ Frames(s, at)[i].kind = s[i].kind
  <2>1. Framed(Frames(s, at), s, at)
    BY FramesHave, Zenon
  <2> QED
    BY <2>1, Zenon DEF Framed
<1>4. PICK S : Frames(s, at) \in Seq(S)
  BY <1>3, Zenon DEF IsSeq
<1>5. <<>> \o (<<>> \o Frames(s, at)) = Frames(s, at)
  BY <1>4
<1>6. Pipe' = Frames(s, at)
  BY <1>1, <1>2, <1>5 DEF Pipe
<1> QED
  BY <1>1, <1>3, <1>6, Zenon DEF Elems

LEMMA PipeSendOne ==
    ASSUME LoginInv, NEW b, NEW at, "kind" \in DOMAIN b,
           ClientSend(<<b>>, at), ~faulty', buf' = buf, Pipe = <<>>
    PROVE  /\ ~faulty /\ SoleAt(Pipe', b.kind, at)
           /\ \A p \in Elems(Pipe') : p.shape = "good"
<1> DEFINE s == <<b>>
<1>1. IsSeq(s) /\ Len(s) = 1 /\ s[1] = b /\ \A i \in 1..1 : i = 1
  BY ElemsOne
<1>2. ClientSend(s, at)
  OBVIOUS
<1> HIDE DEF s
<1>3. \A i \in 1..Len(s) : "kind" \in DOMAIN s[i]
  BY <1>1
<1>4. /\ ~faulty /\ Len(Pipe') = Len(s)
      /\ \A i \in 1..Len(s) : Pipe'[i].seq = at /\ Pipe'[i].kind = s[i].kind
      /\ \A p \in Elems(Pipe') : p.shape = "good"
  BY <1>1, <1>2, <1>3, PipeSendFirst
<1>5. 1 \in 1..Len(s)
  BY <1>1
<1> QED
  BY <1>1, <1>4, <1>5, Zenon DEF SoleAt, Sole

(* A command goes behind the ones the server has still to read. *)
LEMMA PipeSendCommand ==
    ASSUME LoginInv, NEW b, NEW at, "kind" \in DOMAIN b,
           ClientSend(<<b>>, at), ~faulty', buf' = buf,
           \A p \in Elems(Pipe) : p.shape = "good" /\ p.seq = at
    PROVE  ~faulty /\ \A p \in Elems(Pipe') : p.shape = "good" /\ p.seq = at
<1> DEFINE s == <<b>>
<1>1. IsSeq(s) /\ Len(s) = 1 /\ s[1] = b /\ \A i \in 1..1 : i = 1
  BY ElemsOne
<1>2. ClientSend(s, at)
  OBVIOUS
<1> HIDE DEF s
<1>3. \A i \in 1..Len(s) : "kind" \in DOMAIN s[i]
  BY <1>1, Zenon
<1>4. ~faulty /\ wireIn' = wireIn \o Frames(s, at)
  BY <1>1, <1>2, <1>3, PipeSend, Zenon
<1>5. /\ IsSeq(Frames(s, at)) /\ Len(Frames(s, at)) = Len(s)
      /\ \A i \in 1..Len(s) : Frames(s, at)[i].shape = "good" /\ Frames(s, at)[i].seq = at
  <2>1. Framed(Frames(s, at), s, at)
    BY <1>1, <1>3, FramesHave, Zenon
  <2> QED
    BY <2>1, Zenon DEF Framed
<1>6. \A p \in Elems(Frames(s, at)) : p.shape = "good" /\ p.seq = at
  BY <1>5, Zenon DEF Elems
<1>7. /\ IsSeq(buf) /\ IsSeq(wireIn) /\ Elems(Pipe) = Elems(buf) \cup Elems(wireIn)
  BY PipeIs, Zenon
<1>8. IsSeq(wireIn') /\ Elems(wireIn') = Elems(wireIn) \cup Elems(Frames(s, at))
  BY <1>4, <1>5, <1>7, ElemsConcat, Zenon
<1>9. Elems(Pipe') = Elems(buf) \cup Elems(wireIn')
  BY <1>7, <1>8, ElemsConcat DEF Pipe
<1> QED
  BY <1>4, <1>6, <1>7, <1>8, <1>9, Zenon

(* One packet to a client that has read everything. *)
LEMMA SendsOne ==
    ASSUME wireOut = <<>>, NEW kind, NEW n, NEW more, NEW at, NEW tag,
           wireOut' = wireOut \o Number(<<Body(kind, n, more)>>, at, tag)
    PROVE  Sole(wireOut', kind)
<1> DEFINE s == <<Body(kind, n, more)>>
           r == Number(s, at, tag)
<1>1. IsSeq(s) /\ Len(s) = 1 /\ s[1].kind = kind /\ DOMAIN s = 1..1
  <2>1. Body(kind, n, more).kind = kind
    BY DEF Body
  <2> HIDE DEF Body
  <2> QED
    BY <2>1, ElemsOne
<1>2. wireOut' = <<>> \o r
  OBVIOUS
<1> HIDE DEF s
<1>3. r = [i \in 1..1 |->
             [seq |-> (at + i - 1) % SeqIds, for |-> tag, kind |-> s[i].kind,
              n |-> s[i].n, more |-> s[i].more]]
  BY <1>1, Zenon DEF Number
<1>4. Len(r) = 1 /\ r[1].kind = s[1].kind /\ IsSeq(r)
  <2> DEFINE q(i) == [seq |-> (at + i - 1) % SeqIds, for |-> tag, kind |-> s[i].kind,
                      n |-> s[i].n, more |-> s[i].more]
  <2>1. q(1).kind = s[1].kind
    BY Zenon
  <2>2. r = [i \in 1..1 |-> q(i)]
    BY <1>3, Zenon
  <2> HIDE DEF q, r
  <2>3. r \in Seq({q(1)}) /\ Len(r) = 1 /\ r[1] = q(1)
    BY <2>2
  <2> QED
    BY <2>1, <2>3, Zenon DEF IsSeq
<1> HIDE DEF r
<1>5. PICK S : r \in Seq(S)
  BY <1>4 DEF IsSeq
<1>6. <<>> \o r = r
  BY <1>5
<1> QED
  BY <1>1, <1>2, <1>4, <1>6 DEF Sole

LEMMA NoSwitchOne ==
    ASSUME NEW kind, kind # "switch"
    PROVE  NoSwitch(<<Body(kind, 0, FALSE)>>)
<1>1. Body(kind, 0, FALSE).kind # "switch"
  BY DEF Body
<1> DEFINE b == Body(kind, 0, FALSE)
<1>2. b.kind # "switch"
  BY <1>1, Zenon
<1> HIDE DEF b
<1>3. NoSwitch(<<b>>)
  BY <1>2, ElemsOne DEF NoSwitch
<1> QED
  BY <1>3 DEF b

(* The verdict is one or two packets, and none of them asks for a switch. *)
LEMMA VerdictNoSwitch ==
    ASSUME wireOut = <<>>, NEW l, NEW plugin, NEW proof, NEW at,
           Verdict(l, plugin, proof, at)
    PROVE  NoSwitch(wireOut')
<1> DEFINE ok == Verified(l.user, plugin, proof)
           a == IF plugin = "sha2" THEN <<Body("moreData", 0, FALSE)>> ELSE <<>>
           b == <<Body("ok", 0, FALSE)>>
           e == <<Body("err", 0, FALSE)>>
           bodies == IF ok THEN a \o b ELSE e
<1>1. wireOut' = wireOut \o Number(bodies, at, 0)
  BY Zenon DEF Verdict, Send
<1>3. NoSwitch(a) /\ NoSwitch(b) /\ NoSwitch(e)
  <2>1. "moreData" # "switch" /\ "ok" # "switch" /\ "err" # "switch"
    OBVIOUS
  <2>2. NoSwitch(<<>>)
    BY ElemsEmpty DEF NoSwitch
  <2> QED
    BY <2>1, <2>2, NoSwitchOne, Zenon
<1> HIDE DEF ok, a, b, e
<1>4. NoSwitch(bodies)
  <2>1. NoSwitch(a \o b)
    BY <1>3, ElemsConcat DEF NoSwitch
  <2> QED
    BY <1>3, <2>1
<1> HIDE DEF bodies
<1>5. NoSwitch(Number(bodies, at, 0))
  <2> DEFINE r == Number(bodies, at, 0)
             q(i) == [seq |-> (at + i - 1) % SeqIds, for |-> 0, kind |-> bodies[i].kind,
                      n |-> bodies[i].n, more |-> bodies[i].more]
  <2>1. Len(bodies) \in Nat /\ DOMAIN bodies = 1..Len(bodies)
    BY <1>4, SeqHas DEF NoSwitch
  <2>2. r = [i \in 1..Len(bodies) |-> q(i)]
    BY <2>1, Zenon DEF Number
  <2>3. \A i \in 1..Len(bodies) : q(i).kind # "switch"
    BY <1>4, Zenon DEF NoSwitch, Elems
  <2> HIDE DEF q, r
  <2>4. r \in Seq({q(i) : i \in 1..Len(bodies)}) /\ Len(r) = Len(bodies)
    BY <2>1, <2>2
  <2>5. \A i \in 1..Len(r) : r[i].kind # "switch"
    BY <2>2, <2>3, <2>4
  <2> QED
    BY <2>4, <2>5, Zenon DEF r, NoSwitch, IsSeq, Elems
<1> QED
  BY <1>1, <1>5, ElemsEmpty, ElemsConcat DEF NoSwitch

LEMMA TurnInitial ==
    ASSUME Init
    PROVE  TurnInv
<1>1. phase = "greet" /\ seq = 0 /\ stage = "greeting" /\ wireOut = <<>> /\ buf = <<>> /\ wireIn = <<>>
  BY DEF Init
<1>2. Pipe = <<>>
  BY <1>1 DEF Pipe
<1> QED
  BY <1>1, <1>2, ElemsEmpty, Zenon DEF TurnInv, InTurn, Quiet

LEMMA TurnGreet ==
    ASSUME SeqIds > 2, LoginInv, TurnInv, Greet
    PROVE  TurnInv'
<1> DEFINE n == [plugin |-> DefaultPlugin, scramble |-> 1]
<1>1. /\ phase = "greet" /\ phase' = "response"
      /\ wireOut' = wireOut \o Number(<<Body("greeting", n, FALSE)>>, seq, 0)
      /\ seq' = (seq + 1) % SeqIds
      /\ buf' = buf /\ wireIn' = wireIn /\ stage' = stage /\ cseq' = cseq /\ faulty' = faulty
  BY Zenon DEF Greet, Send, user
<1> HIDE DEF n
<1> SUFFICES ASSUME ~faulty
             PROVE  /\ \A p \in Elems(Pipe') : p.shape = "good"
                    /\ InTurn(phase', seq', Pipe', stage', cseq', wireOut')
  BY <1>1, Zenon DEF TurnInv
<1>2. Pipe = <<>> /\ seq = 0 /\ Quiet(stage, wireOut, "greeting") /\ \A p \in Elems(Pipe) : p.shape = "good"
  BY <1>1, Zenon DEF TurnInv, InTurn
<1>3. Pipe' = Pipe
  BY <1>1 DEF Pipe
<1>4. seq' = 1
  BY <1>1, <1>2, Mods
<1>5. stage # "gone" => stage = "greeting" /\ Sole(wireOut', "greeting")
  BY <1>1, <1>2, SendsOne, Zenon DEF Quiet
<1> QED
  BY <1>1, <1>2, <1>3, <1>4, <1>5, Zenon DEF InTurn

LEMMA TurnRead ==
    ASSUME LoginInv, TurnInv, Read
    PROVE  TurnInv'
<1>1. UNCHANGED <<phase, seq, stage, cseq, wireOut, faulty>>
  BY Zenon DEF Read, user
<1>2. Pipe' = Pipe
  BY PipeRead
<1> QED
  BY <1>1, <1>2 DEF TurnInv

(* The server takes a packet of a client that sends well-formed ones. *)
LEMMA TurnTakes ==
    ASSUME LoginInv, TurnInv, ~faulty, phase # "closed", TakePacket, wireIn' = wireIn
    PROVE  /\ Head(buf) = Pipe[1] /\ Pipe # <<>> /\ Len(Pipe) \in Nat \ {0}
           /\ Len(Pipe') = Len(Pipe) - 1 /\ (Len(Pipe) = 1 => Pipe' = <<>>)
           /\ Len(Pipe) = 2 => Pipe'[1] = Pipe[2]
           /\ Elems(Pipe') \subseteq Elems(Pipe)
           /\ \A p \in Elems(Pipe') : p.shape = "good"
           /\ InTurn(phase, seq, Pipe, stage, cseq, wireOut)
<1>1. buf # <<>> /\ buf' = Tail(buf)
  BY DEF TakePacket
<1>2. /\ Head(buf) = Pipe[1] /\ Len(Pipe) \in Nat \ {0}
      /\ Len(Pipe') = Len(Pipe) - 1 /\ (Len(Pipe) = 1 => Pipe' = <<>>)
      /\ \A i \in 1..Len(Pipe) - 1 : Pipe'[i] = Pipe[i + 1]
      /\ Elems(Pipe') \subseteq Elems(Pipe)
  BY <1>1, PipeTake
<1>3. Pipe # <<>>
  BY <1>1, PipeIs
<1>4. Len(Pipe) = 2 => Pipe'[1] = Pipe[2]
  BY <1>2
<1> QED
  BY <1>2, <1>3, <1>4, Zenon DEF TurnInv

LEMMA TurnAuthenticate ==
    ASSUME LoginInv, TurnInv, ~faulty, phase \in {"response", "tlsResponse"}, TakePacket,
           Head(buf).kind = "response", Authenticate(Head(buf)), UNCHANGED <<wireIn, user>>
    PROVE  TurnInv'
<1> DEFINE at == (seq + 1) % SeqIds
<1>1. stage' = stage /\ cseq' = cseq /\ faulty' = faulty
  BY DEF user
<1>2. /\ Head(buf) = Pipe[1] /\ Pipe # <<>> /\ (Len(Pipe) = 1 => Pipe' = <<>>)
      /\ \A p \in Elems(Pipe') : p.shape = "good"
      /\ InTurn(phase, seq, Pipe, stage, cseq, wireOut)
  BY TurnTakes
<1>3. Len(Pipe) = 1 /\ Quiet(stage, wireOut, "verdict") /\ (stage # "gone" => cseq = at)
  BY <1>2, Zenon DEF InTurn, Sole, SoleAt
<1>4. Pipe' = <<>>
  BY <1>2, <1>3
<1>5. \/ /\ phase' \in {"command", "closed"}
         /\ \E plugin : Verdict(Head(buf), plugin, Head(buf).proof, at)
      \/ /\ phase' = "switch"
         /\ \E n : Send(<<Body("switch", n, FALSE)>>, at, 0)
  BY Zenon DEF Authenticate, Verdict, Close
<1>6. CASE phase' \in {"command", "closed"} /\ \E plugin : Verdict(Head(buf), plugin, Head(buf).proof, at)
  <2>1. stage # "gone" => NoSwitch(wireOut')
    BY <1>3, <1>6, VerdictNoSwitch DEF Quiet
  <2>2. stage \in {"verdict", "gone"}
    BY <1>3 DEF Quiet
  <2>3. phase' # "closed" => InTurn(phase', seq', <<>>, stage, cseq, wireOut')
    BY <1>6, <2>1, <2>2, ElemsEmpty, Zenon DEF InTurn
  <2> QED
    BY <1>1, <1>2, <1>4, <2>3 DEF TurnInv
<1>7. CASE phase' = "switch" /\ \E n : Send(<<Body("switch", n, FALSE)>>, at, 0)
  <2>1. PICK n : Send(<<Body("switch", n, FALSE)>>, at, 0)
    BY <1>7, Zenon
  <2> HIDE DEF at
  <2>2. wireOut' = wireOut \o Number(<<Body("switch", n, FALSE)>>, at, 0) /\ seq' = (at + 1) % SeqIds
    BY <2>1 DEF Send
  <2>3. stage # "gone" => stage = "verdict" /\ Sole(wireOut', "switch") /\ (cseq + 1) % SeqIds = seq'
    BY <1>3, <2>2, SendsOne, Zenon DEF Quiet
  <2>4. InTurn(phase', seq', <<>>, stage, cseq, wireOut')
    BY <1>7, <2>3, Zenon DEF InTurn
  <2> QED
    BY <1>1, <1>2, <1>4, <2>4, Zenon DEF TurnInv
<1> QED
  BY <1>5, <1>6, <1>7, Zenon

LEMMA TurnReadResponse ==
    ASSUME SeqIds > 2, LoginInv, TurnInv, ReadResponse \/ ReadTlsResponse
    PROVE  TurnInv'
<1>1. /\ TakePacket /\ UNCHANGED <<wireIn, user>> /\ phase \in {"response", "tlsResponse"}
      /\ \/ /\ phase = "response" /\ Head(buf).kind = "sslRequest" /\ phase' = "tls"
            /\ seq' = (seq + 1) % SeqIds /\ wireOut' = wireOut
         \/ Head(buf).kind = "response" /\ Authenticate(Head(buf))
  BY Zenon DEF ReadResponse, ReadTlsResponse
<1>2. stage' = stage /\ cseq' = cseq /\ faulty' = faulty
  BY <1>1 DEF user
<1> SUFFICES ASSUME ~faulty PROVE TurnInv'
  BY <1>2 DEF TurnInv
<1>3. CASE Head(buf).kind = "response" /\ Authenticate(Head(buf))
  BY <1>1, <1>3, TurnAuthenticate
<1>4. CASE /\ phase = "response" /\ Head(buf).kind = "sslRequest" /\ phase' = "tls"
           /\ seq' = (seq + 1) % SeqIds /\ wireOut' = wireOut
  <2>1. /\ Head(buf) = Pipe[1] /\ Pipe # <<>> /\ Len(Pipe') = Len(Pipe) - 1
        /\ (Len(Pipe) = 1 => Pipe' = <<>>) /\ (Len(Pipe) = 2 => Pipe'[1] = Pipe[2])
        /\ \A p \in Elems(Pipe') : p.shape = "good"
        /\ InTurn(phase, seq, Pipe, stage, cseq, wireOut)
    BY <1>1, TurnTakes, Zenon
  <2>2. seq = 1 /\ seq' = 2
    BY <1>4, <2>1, Mods, Zenon DEF InTurn
  <2>3. /\ stage # "gone" => cseq = 2
        /\ \/ Len(Pipe) = 1 /\ Quiet(stage, wireOut, "hello")
           \/ Len(Pipe) = 2 /\ Pipe[2].kind = "hello" /\ Quiet(stage, wireOut, "tlsWait")
    BY <1>4, <2>1, Zenon DEF InTurn, Sole, SoleAt
  <2>4. InTurn("tls", 2, Pipe', stage, cseq, wireOut)
    <3>1. \/ Pipe' = <<>> /\ Quiet(stage, wireOut, "hello")
          \/ Sole(Pipe', "hello") /\ Quiet(stage, wireOut, "tlsWait")
      BY <2>1, <2>3 DEF Sole
    <3> QED
      BY <2>3, <3>1, Zenon DEF InTurn
  <2> QED
    BY <1>2, <1>4, <2>1, <2>2, <2>4, Zenon DEF TurnInv
<1> QED
  BY <1>1, <1>3, <1>4

LEMMA TurnSwitchResponse ==
    ASSUME LoginInv, TurnInv, ReadSwitchResponse
    PROVE  TurnInv'
<1>1. /\ TakePacket /\ UNCHANGED <<wireIn, user>> /\ phase = "switch"
      /\ Verdict(login, Accounts[login.user], Head(buf).proof, (seq + 1) % SeqIds)
  BY Zenon DEF ReadSwitchResponse
<1>2. stage' = stage /\ cseq' = cseq /\ faulty' = faulty /\ phase' \in {"command", "closed"}
  BY <1>1, Zenon DEF user, Verdict, Close
<1> SUFFICES ASSUME ~faulty PROVE TurnInv'
  BY <1>2 DEF TurnInv
<1>3. /\ Pipe # <<>> /\ (Len(Pipe) = 1 => Pipe' = <<>>)
      /\ \A p \in Elems(Pipe') : p.shape = "good"
      /\ InTurn(phase, seq, Pipe, stage, cseq, wireOut)
  BY <1>1, TurnTakes, Zenon
<1>4. Pipe' = <<>> /\ Quiet(stage, wireOut, "verdict")
  BY <1>1, <1>3, Zenon DEF InTurn, Sole, SoleAt
<1>5. stage \in {"verdict", "gone"} /\ (stage # "gone" => NoSwitch(wireOut'))
  BY <1>1, <1>4, VerdictNoSwitch, Zenon DEF Quiet
<1>6. phase' # "closed" => InTurn(phase', seq', <<>>, stage, cseq, wireOut')
  BY <1>2, <1>5, ElemsEmpty, Zenon DEF InTurn
<1> QED
  BY <1>2, <1>3, <1>4, <1>6, Zenon DEF TurnInv

LEMMA SoleTail ==
    ASSUME NEW s, IsSeq(s), Len(s) = 1
    PROVE  Tail(s) = <<>> /\ Head(s) = s[1] /\ s # <<>>
<1>1. PICK S : s \in Seq(S)
  BY DEF IsSeq
<1>2. s # <<>>
  BY SeqEmpty
<1>3. Tail(s) \in Seq(S) /\ Len(Tail(s)) = 0
  BY <1>1, <1>2, HeadTailProperties
<1>4. Tail(s) = <<>>
  BY <1>3, EmptySeq, Zenon
<1> QED
  BY <1>1, <1>2, <1>4

LEMMA TurnTlsAccept ==
    ASSUME LoginInv, TurnInv, TlsAccept
    PROVE  TurnInv'
<1>1. /\ phase = "tls" /\ Pipe # <<>> /\ buf' = <<>> /\ wireIn' = Tail(Pipe)
      /\ \/ /\ phase' = "tlsResponse"
            /\ wireOut' = wireOut \o Number(<<Body("tls", 0, FALSE)>>, 0, 0)
         \/ phase' = "closed"
      /\ UNCHANGED <<seq, user>>
  BY Zenon DEF TlsAccept, Pipe, Close
<1>2. stage' = stage /\ cseq' = cseq /\ faulty' = faulty
  BY <1>1 DEF user
<1> SUFFICES ASSUME ~faulty, phase' # "closed"
             PROVE  /\ \A p \in Elems(Pipe') : p.shape = "good"
                    /\ InTurn(phase', seq', Pipe', stage', cseq', wireOut')
  BY <1>2, Zenon DEF TurnInv
<1>3. /\ seq = 2 /\ (stage # "gone" => cseq = 2) /\ Len(Pipe) = 1
      /\ Quiet(stage, wireOut, "tlsWait")
  BY <1>1, Zenon DEF TurnInv, InTurn, Sole
<1>4. Pipe' = <<>>
  <2>1. Tail(Pipe) = <<>>
    BY <1>3, PipeIs, SoleTail
  <2> QED
    BY <1>1, <2>1 DEF Pipe
<1>5. stage # "gone" => stage = "tlsWait" /\ Sole(wireOut', "tls")
  BY <1>1, <1>3, SendsOne, Zenon DEF Quiet
<1> QED
  BY <1>1, <1>2, <1>3, <1>4, <1>5, ElemsEmpty, Zenon DEF InTurn

(* Commands, whatever they answer. *)
LEMMA TurnDispatch ==
    ASSUME LoginInv, TurnInv, NEW kind, Dispatch(kind), phase' \in {"command", "query", "closed"}
    PROVE  TurnInv'
<1>1. TakePacket /\ phase = "command" /\ UNCHANGED <<wireIn, user>>
  BY DEF Dispatch
<1>2. stage' = stage /\ cseq' = cseq /\ faulty' = faulty
  BY <1>1 DEF user
<1> SUFFICES ASSUME ~faulty, phase' # "closed"
             PROVE  /\ \A p \in Elems(Pipe') : p.shape = "good"
                    /\ InTurn(phase', seq', Pipe', stage', cseq', wireOut')
  BY <1>2 DEF TurnInv
<1>3. /\ Pipe # <<>> /\ Elems(Pipe') \subseteq Elems(Pipe)
      /\ \A p \in Elems(Pipe') : p.shape = "good"
      /\ InTurn(phase, seq, Pipe, stage, cseq, wireOut)
  BY <1>1, TurnTakes, Zenon
<1>4. stage \in {"ready", "quit", "gone"} /\ \A p \in Elems(Pipe') : p.seq = 0
  BY <1>1, <1>3, Zenon DEF InTurn
<1> QED
  BY <1>2, <1>3, <1>4, Zenon DEF InTurn

LEMMA TurnCommands ==
    ASSUME LoginInv, TurnInv,
           \/ ComQuit \/ ComPing \/ ComUnknown \/ ComQuery \/ ComStmtPrepare
           \/ ComStmtExecute \/ ComStmtClose \/ ComStmtReset
    PROVE  TurnInv'
<1>1. CASE ComQuit \/ ComPing \/ ComUnknown
  <2>1. \E kind : Dispatch(kind) /\ (phase' = phase \/ phase' = "closed")
    BY <1>1, Zenon DEF ComQuit, ComPing, ComUnknown, Reply, Close
  <2> QED
    BY <2>1, TurnDispatch, Zenon DEF Dispatch
<1>2. CASE ComQuery \/ ComStmtExecute
  <2>1. \E kind : Dispatch(kind) /\ (phase' = phase \/ phase' = "query")
    BY <1>2, Zenon DEF ComQuery, ComStmtExecute, Reply, Start
  <2> QED
    BY <2>1, TurnDispatch, Zenon DEF Dispatch
<1>3. CASE ComStmtPrepare \/ ComStmtClose \/ ComStmtReset
  <2>1. \E kind : Dispatch(kind) /\ phase' = phase
    BY <1>3, Zenon DEF ComStmtPrepare, ComStmtClose, ComStmtReset, Reply
  <2> QED
    BY <2>1, TurnDispatch, Zenon DEF Dispatch
<1> QED
  BY <1>1, <1>2, <1>3

LEMMA TurnExecute ==
    ASSUME LoginInv, TurnInv, ExecuteStatement
    PROVE  TurnInv'
<1>1. /\ phase = "query" /\ phase' \in {"command", "query", "closed"}
      /\ UNCHANGED <<buf, wireIn, user>>
  BY Zenon DEF ExecuteStatement, SendResult, Close
<1>2. stage' = stage /\ cseq' = cseq /\ faulty' = faulty /\ Pipe' = Pipe
  BY <1>1 DEF user, Pipe
<1> SUFFICES ASSUME ~faulty, phase' # "closed"
             PROVE  /\ \A p \in Elems(Pipe') : p.shape = "good"
                    /\ InTurn(phase', seq', Pipe', stage', cseq', wireOut')
  BY <1>2 DEF TurnInv
<1>3. /\ \A p \in Elems(Pipe) : p.shape = "good" /\ p.seq = 0
      /\ stage \in {"ready", "quit", "gone"}
  BY <1>1, Zenon DEF TurnInv, InTurn
<1> QED
  BY <1>1, <1>2, <1>3, Zenon DEF InTurn

LEMMA TurnServe ==
    ASSUME SeqIds > 2, LoginInv, TurnInv, Serve \/ ConnectTimeout \/ WaitTimeout
    PROVE  TurnInv'
<1>1. CASE ReadEof \/ WriteFails \/ Refuse \/ RefuseCommand \/ ConnectTimeout \/ WaitTimeout
  <2>1. phase' = "closed"
    BY <1>1, Zenon DEF ReadEof, WriteFails, Refuse, RefuseCommand, ConnectTimeout,
       WaitTimeout, Close
  <2> QED
    BY <2>1 DEF TurnInv
<1>2. CASE Greet
  BY <1>2, TurnGreet
<1>3. CASE Read
  BY <1>3, TurnRead
<1>4. CASE ReadResponse \/ ReadTlsResponse
  BY <1>4, TurnReadResponse
<1>5. CASE TlsAccept
  BY <1>5, TurnTlsAccept
<1>6. CASE ReadSwitchResponse
  BY <1>6, TurnSwitchResponse
<1>7. CASE \/ ComQuit \/ ComPing \/ ComUnknown \/ ComQuery \/ ComStmtPrepare
           \/ ComStmtExecute \/ ComStmtClose \/ ComStmtReset
  BY <1>7, TurnCommands
<1>8. CASE ExecuteStatement
  BY <1>8, TurnExecute
<1> QED
  BY <1>1, <1>2, <1>3, <1>4, <1>5, <1>6, <1>7, <1>8, ZenonT(30) DEF Serve

LEMMA TurnClientGreeting ==
    ASSUME LoginInv, TurnInv, ClientGreeting
    PROVE  TurnInv'
<1> DEFINE a == [kind |-> "sslRequest"]
           h == [kind |-> "hello"]
<1>1. /\ stage = "greeting" /\ wireOut # <<>> /\ wireOut' = Tail(wireOut) /\ buf' = buf
      /\ phase' = phase /\ seq' = seq
      /\ \/ ClientSend(<<a>>, 1) /\ stage' = "hello" /\ cseq' = 2
         \/ ClientSend(<<a, h>>, 1) /\ stage' = "tlsWait" /\ cseq' = 2
         \/ stage' = "respond" /\ cseq' = 1 /\ wireIn' = wireIn /\ faulty' = faulty
  BY Zenon DEF ClientGreeting, Receives, server
<1>2. "kind" \in DOMAIN a /\ "kind" \in DOMAIN h /\ a.kind = "sslRequest" /\ h.kind = "hello"
  OBVIOUS
<1> HIDE DEF a, h
<1> SUFFICES ASSUME ~faulty', phase # "closed"
             PROVE  /\ \A p \in Elems(Pipe') : p.shape = "good"
                    /\ InTurn(phase, seq, Pipe', stage', cseq', wireOut')
  BY <1>1, Zenon DEF TurnInv
<1>3. ~faulty
  BY <1>1, Zenon DEF ClientSend
<1>4. phase = "response" /\ seq = 1 /\ Pipe = <<>> /\ Len(wireOut) = 1
  BY <1>1, <1>3, Zenon DEF TurnInv, InTurn, Quiet, Sole
<1>5. wireOut' = <<>>
  BY <1>1, <1>4, PipeIs, SoleTail, Zenon
<1>6. CASE ClientSend(<<a>>, 1) /\ stage' = "hello" /\ cseq' = 2
  <2>1. SoleAt(Pipe', "sslRequest", 1) /\ \A p \in Elems(Pipe') : p.shape = "good"
    BY <1>1, <1>2, <1>4, <1>6, PipeSendOne, Zenon
  <2> QED
    BY <1>4, <1>5, <1>6, <2>1, Zenon DEF InTurn, Quiet
<1>7. CASE ClientSend(<<a, h>>, 1) /\ stage' = "tlsWait" /\ cseq' = 2
  <2> DEFINE s == <<a, h>>
  <2>1. s \in Seq({a, h}) /\ Len(s) = 2 /\ s[1] = a /\ s[2] = h /\ \A i \in 1..2 : i = 1 \/ i = 2
    OBVIOUS
  <2>2. ClientSend(s, 1)
    BY <1>7
  <2> HIDE DEF s
  <2>3. IsSeq(s) /\ \A i \in 1..Len(s) : "kind" \in DOMAIN s[i]
    BY <1>2, <2>1, Zenon DEF IsSeq
  <2>4. /\ Len(Pipe') = Len(s)
        /\ \A i \in 1..Len(s) : Pipe'[i].seq = 1 /\ Pipe'[i].kind = s[i].kind
        /\ \A p \in Elems(Pipe') : p.shape = "good"
    BY <1>1, <1>4, <2>2, <2>3, PipeSendFirst, Zenon
  <2>5. Len(Pipe') = 2 /\ Pipe'[1].kind = "sslRequest" /\ Pipe'[1].seq = 1 /\ Pipe'[2].kind = "hello"
    BY <1>2, <2>1, <2>4
  <2> QED
    BY <1>4, <1>5, <1>7, <2>4, <2>5, Zenon DEF InTurn, Quiet
<1>8. CASE stage' = "respond" /\ cseq' = 1 /\ wireIn' = wireIn
  <2>1. Pipe' = <<>>
    BY <1>1, <1>4, <1>8 DEF Pipe
  <2> QED
    BY <1>4, <1>5, <1>8, <2>1, ElemsEmpty, Zenon DEF InTurn, Quiet
<1> QED
  BY <1>1, <1>6, <1>7, <1>8, Zenon

LEMMA PipeAppend ==
    ASSUME LoginInv, NEW e, wireIn' = Append(wireIn, e), buf' = buf
    PROVE  /\ Len(Pipe') = Len(Pipe) + 1 /\ Len(Pipe) \in Nat
           /\ \A i \in 1..Len(Pipe) : Pipe'[i] = Pipe[i]
           /\ Pipe'[Len(Pipe) + 1] = e
           /\ Elems(Pipe') = Elems(Pipe) \cup {e}
<1>1. IsSeq(buf) /\ IsSeq(wireIn) /\ IsSeq(Pipe) /\ Elems(Pipe) = Elems(buf) \cup Elems(wireIn)
  BY PipeIs
<1>2. Len(buf) \in Nat /\ Len(wireIn) \in Nat /\ Len(Pipe) \in Nat
  BY <1>1, SeqHas
<1>3. /\ IsSeq(wireIn') /\ Len(wireIn') = Len(wireIn) + 1
      /\ \A i \in 1..Len(wireIn) : wireIn'[i] = wireIn[i]
      /\ wireIn'[Len(wireIn) + 1] = e
  BY <1>1, SeqAppend
<1>4. /\ Len(Pipe) = Len(buf) + Len(wireIn)
      /\ \A i \in 1..Len(buf) : Pipe[i] = buf[i]
      /\ \A i \in 1..Len(wireIn) : Pipe[Len(buf) + i] = wireIn[i]
  BY <1>1, SeqConcat DEF Pipe
<1>5. Pipe' = buf \o wireIn'
  BY DEF Pipe
<1>6. /\ Len(Pipe') = Len(buf) + Len(wireIn')
      /\ \A i \in 1..Len(buf) : Pipe'[i] = buf[i]
      /\ \A i \in 1..Len(wireIn') : Pipe'[Len(buf) + i] = wireIn'[i]
  BY <1>1, <1>3, <1>5, SeqConcat
<1>7. ASSUME NEW i \in 1..Len(Pipe) PROVE Pipe'[i] = Pipe[i]
  <2>1. CASE i <= Len(buf)
    <3>1. i \in 1..Len(buf)
      BY <1>2, <1>4, <2>1
    <3> QED
      BY <1>4, <1>6, <3>1, Zenon
  <2>2. CASE ~ (i <= Len(buf))
    <3> DEFINE j == i - Len(buf)
    <3>1. j \in 1..Len(wireIn) /\ j \in 1..Len(wireIn') /\ Len(buf) + j = i
      BY <1>2, <1>3, <1>4, <2>2
    <3> HIDE DEF j
    <3> QED
      BY <1>3, <1>4, <1>6, <3>1, Zenon
  <2> QED
    BY <2>1, <2>2, Zenon
<1>8. Pipe'[Len(Pipe) + 1] = e
  <2>1. Len(Pipe) + 1 = Len(buf) + (Len(wireIn) + 1) /\ Len(wireIn) + 1 \in 1..Len(wireIn')
    BY <1>2, <1>3, <1>4
  <2> QED
    BY <1>3, <1>6, <2>1, Zenon
<1>9. Elems(Pipe') = Elems(Pipe) \cup {e}
  <2>1. Elems(wireIn') = Elems(wireIn) \cup {e}
    BY <1>1, ElemsAppend
  <2> QED
    BY <1>1, <1>3, <1>5, <2>1, ElemsConcat
<1>10. Len(Pipe') = Len(Pipe) + 1
  BY <1>2, <1>3, <1>4, <1>6
<1> QED
  BY <1>2, <1>7, <1>8, <1>9, <1>10

LEMMA TurnClientHello ==
    ASSUME LoginInv, TurnInv, ClientHello
    PROVE  TurnInv'
<1> DEFINE e == Packet([kind |-> "hello"], 0, "good")
<1>1. /\ stage = "hello" /\ wireIn' = Append(wireIn, e) /\ stage' = "tlsWait"
      /\ UNCHANGED <<phase, seq, buf, wireOut, cseq, faulty>>
  BY Zenon DEF ClientHello, server
<1>2. e["kind"] = "hello" /\ e["shape"] = "good"
  BY DEF Packet
<1>3. e.kind = "hello" /\ e.shape = "good"
  BY <1>2
<1> HIDE DEF e
<1> SUFFICES ASSUME ~faulty, phase # "closed"
             PROVE  /\ \A p \in Elems(Pipe') : p.shape = "good"
                    /\ InTurn(phase, seq, Pipe', stage', cseq, wireOut)
  BY <1>1, Zenon DEF TurnInv
<1>4. /\ Len(Pipe') = Len(Pipe) + 1 /\ Len(Pipe) \in Nat
      /\ \A i \in 1..Len(Pipe) : Pipe'[i] = Pipe[i]
      /\ Pipe'[Len(Pipe) + 1] = e
      /\ Elems(Pipe') = Elems(Pipe) \cup {e}
  BY <1>1, PipeAppend, Zenon
<1>5. \A p \in Elems(Pipe') : p.shape = "good"
  BY <1>3, <1>4, Zenon DEF TurnInv
<1>6. /\ wireOut = <<>> /\ cseq = 2
      /\ \/ phase = "response" /\ seq = 1 /\ SoleAt(Pipe, "sslRequest", 1)
         \/ phase = "tls" /\ seq = 2 /\ Pipe = <<>>
  BY <1>1, Zenon DEF TurnInv, InTurn, Quiet
<1>7. CASE phase = "response" /\ seq = 1 /\ SoleAt(Pipe, "sslRequest", 1)
  <2>1. Len(Pipe') = 2 /\ Pipe'[1].kind = "sslRequest" /\ Pipe'[1].seq = 1 /\ Pipe'[2].kind = "hello"
    BY <1>3, <1>4, <1>7 DEF SoleAt, Sole
  <2> QED
    BY <1>1, <1>5, <1>6, <1>7, <2>1, Zenon DEF InTurn, Quiet
<1>8. CASE phase = "tls" /\ seq = 2 /\ Pipe = <<>>
  <2>1. Sole(Pipe', "hello")
    BY <1>3, <1>4, <1>8, SeqEmpty DEF Sole
  <2> QED
    BY <1>1, <1>5, <1>6, <1>8, <2>1, Zenon DEF InTurn, Quiet
<1> QED
  BY <1>6, <1>7, <1>8, Zenon

LEMMA TurnClientTlsDone ==
    ASSUME LoginInv, TurnInv, ClientTlsDone
    PROVE  TurnInv'
<1>1. /\ stage = "tlsWait" /\ stage' = "respond" /\ wireOut # <<>> /\ wireOut' = Tail(wireOut)
      /\ UNCHANGED <<phase, seq, buf, wireIn, cseq, faulty>>
  BY DEF ClientTlsDone, server
<1>2. Pipe' = Pipe
  BY <1>1 DEF Pipe
<1> SUFFICES ASSUME ~faulty, phase # "closed"
             PROVE  /\ \A p \in Elems(Pipe) : p.shape = "good"
                    /\ InTurn(phase, seq, Pipe, stage', cseq, wireOut')
  BY <1>1, <1>2 DEF TurnInv
<1>3. phase = "tlsResponse" /\ seq = 2 /\ Pipe = <<>> /\ cseq = 2 /\ Len(wireOut) = 1
  BY <1>1, Zenon DEF TurnInv, InTurn, Quiet, Sole
<1>4. wireOut' = <<>>
  BY <1>1, <1>3, PipeIs, SoleTail
<1> QED
  BY <1>1, <1>3, <1>4, ElemsEmpty, Zenon DEF InTurn, Quiet

LEMMA TurnClientRespond ==
    ASSUME LoginInv, TurnInv, ClientRespond
    PROVE  TurnInv'
<1> DEFINE b == Login(Proof)
<1>1. /\ stage = "respond" /\ stage' = "verdict" /\ ClientSend(<<b>>, cseq)
      /\ cseq' = (cseq + 1) % SeqIds /\ UNCHANGED <<phase, seq, buf, wireOut>>
  BY Zenon DEF ClientRespond, server
<1>2. "kind" \in DOMAIN b /\ b.kind = "response"
  BY Zenon DEF Login
<1> HIDE DEF b
<1> SUFFICES ASSUME ~faulty', phase # "closed"
             PROVE  /\ \A p \in Elems(Pipe') : p.shape = "good"
                    /\ InTurn(phase, seq, Pipe', stage', cseq', wireOut)
  BY <1>1, Zenon DEF TurnInv
<1>3. ~faulty
  BY <1>1, Zenon DEF ClientSend
<1>4. /\ Pipe = <<>> /\ wireOut = <<>>
      /\ \/ phase = "response" /\ seq = 1 /\ cseq = 1
         \/ phase = "tlsResponse" /\ seq = 2 /\ cseq = 2
  BY <1>1, <1>3, Zenon DEF TurnInv, InTurn, Quiet
<1>5. SoleAt(Pipe', "response", cseq) /\ \A p \in Elems(Pipe') : p.shape = "good"
  BY <1>1, <1>2, <1>4, PipeSendOne, Zenon
<1> QED
  BY <1>1, <1>4, <1>5, Zenon DEF InTurn, Quiet

LEMMA TurnClientSwitch ==
    ASSUME LoginInv, TurnInv, ClientSwitch
    PROVE  TurnInv'
<1> DEFINE b == [kind |-> "switchResponse",
                 proof |-> [plugin |-> Head(wireOut).n.plugin,
                            scramble |-> Head(wireOut).n.scramble, right |-> client.right]]
<1>1. /\ stage = "verdict" /\ stage' = stage /\ wireOut # <<>> /\ wireOut' = Tail(wireOut)
      /\ Head(wireOut).kind = "switch" /\ ClientSend(<<b>>, (cseq + 1) % SeqIds)
      /\ UNCHANGED <<phase, seq, buf>>
  BY Zenon DEF ClientSwitch, Receives, server
<1>2. "kind" \in DOMAIN b /\ b.kind = "switchResponse"
  BY Zenon
<1> HIDE DEF b
<1> SUFFICES ASSUME ~faulty', phase # "closed"
             PROVE  /\ \A p \in Elems(Pipe') : p.shape = "good"
                    /\ InTurn(phase, seq, Pipe', stage', cseq', wireOut')
  BY <1>1, Zenon DEF TurnInv
<1>3. ~faulty
  BY <1>1, Zenon DEF ClientSend
<1>4. ~ NoSwitch(wireOut)
  BY <1>1, ElemsTail DEF NoSwitch
<1>5. phase = "switch" /\ Pipe = <<>> /\ Len(wireOut) = 1 /\ (cseq + 1) % SeqIds = seq
  BY <1>1, <1>3, <1>4, Zenon DEF TurnInv, InTurn, Quiet, Sole
<1>6. wireOut' = <<>>
  BY <1>1, <1>5, PipeIs, SoleTail, Zenon
<1>7. SoleAt(Pipe', "switchResponse", seq) /\ \A p \in Elems(Pipe') : p.shape = "good"
  BY <1>1, <1>2, <1>5, PipeSendOne, Zenon
<1> QED
  BY <1>1, <1>5, <1>6, <1>7, Zenon DEF InTurn, Quiet

(* Until the verdict the client reads nothing but an auth-switch; after it,
   the server has gone on to commands. *)
LEMMA TurnClientVerdict ==
    ASSUME LoginInv, TurnInv, ClientVerdict
    PROVE  TurnInv'
<1>1. /\ stage = "verdict" /\ stage' \in {"verdict", "ready", "gone"}
      /\ wireOut # <<>> /\ wireOut' = Tail(wireOut)
      /\ Head(wireOut).kind \in {"moreData", "ok", "err"}
      /\ UNCHANGED <<phase, seq, buf, wireIn, faulty>>
  BY DEF ClientVerdict, Receives, server
<1>2. Pipe' = Pipe
  BY <1>1 DEF Pipe
<1> SUFFICES ASSUME ~faulty, phase # "closed"
             PROVE  /\ \A p \in Elems(Pipe) : p.shape = "good"
                    /\ InTurn(phase, seq, Pipe, stage', cseq', wireOut')
  BY <1>1, <1>2, ZenonT(30) DEF TurnInv
<1>3. Len(wireOut) = 1 => Head(wireOut) = wireOut[1]
  BY PipeIs, SoleTail
<1>4. phase = "command" /\ Pipe = <<>> /\ NoSwitch(wireOut)
  BY <1>1, <1>3, Zenon DEF TurnInv, InTurn, Quiet, Sole
<1>5. NoSwitch(wireOut')
  BY <1>1, <1>4, ElemsTail DEF NoSwitch
<1> QED
  BY <1>1, <1>4, <1>5, ElemsEmpty, Zenon DEF InTurn

LEMMA TurnClientCommand ==
    ASSUME LoginInv, TurnInv, ClientCommand
    PROVE  TurnInv'
<1>1. PICK kind \in Commands : \E n \in Argument(kind) :
         /\ Sends([kind |-> kind, n |-> n, tag |-> sent + 1])
         /\ stage' = IF kind = "quit" THEN "quit" ELSE "ready"
  BY Zenon DEF ClientCommand, Sends
<1>2. PICK n \in Argument(kind) :
         /\ Sends([kind |-> kind, n |-> n, tag |-> sent + 1])
         /\ stage' = IF kind = "quit" THEN "quit" ELSE "ready"
  BY <1>1, Zenon
<1> DEFINE b == [kind |-> kind, n |-> n, tag |-> sent + 1]
<1>9. Sends(b) /\ "kind" \in DOMAIN b
  BY <1>2, Zenon
<1> HIDE DEF b
<1>4. /\ stage = "ready" /\ UNCHANGED <<phase, seq, buf, wireOut, cseq>>
  BY Zenon DEF ClientCommand, server
<1> SUFFICES ASSUME ~faulty', phase # "closed"
             PROVE  /\ \A p \in Elems(Pipe') : p.shape = "good"
                    /\ InTurn(phase, seq, Pipe', stage', cseq, wireOut)
  BY <1>4, Zenon DEF TurnInv
<1>3. ClientSend(<<b>>, 0) /\ "kind" \in DOMAIN b
  BY <1>9, Zenon DEF Sends, ClientSendUnserved
<1>5. ~faulty
  BY <1>3, Zenon DEF ClientSend
<1>6. phase \in {"command", "query"} /\ \A p \in Elems(Pipe) : p.shape = "good" /\ p.seq = 0
  BY <1>4, <1>5, Zenon DEF TurnInv, InTurn, Quiet
<1>7. \A p \in Elems(Pipe') : p.shape = "good" /\ p.seq = 0
  BY <1>3, <1>4, <1>6, PipeSendCommand, Zenon
<1>8. stage' \in {"ready", "quit"}
  BY <1>2, Zenon
<1> QED
  BY <1>6, <1>7, <1>8, Zenon DEF InTurn

LEMMA TurnClient ==
    ASSUME LoginInv, TurnInv, ClientStep
    PROVE  TurnInv'
<1>1. CASE ClientReceive
  <2>1. /\ stage \in {"ready", "quit"} /\ UNCHANGED <<phase, seq, buf, wireIn, stage, faulty>>
    BY <1>1, Zenon DEF ClientReceive, server
  <2>2. Pipe' = Pipe
    BY <2>1 DEF Pipe
  <2>3. ASSUME ~faulty, phase # "closed"
        PROVE  /\ \A p \in Elems(Pipe) : p.shape = "good"
               /\ InTurn(phase, seq, Pipe, stage, cseq', wireOut')
    <3>1. phase \in {"command", "query"} /\ \A p \in Elems(Pipe) : p.shape = "good" /\ p.seq = 0
      BY <2>1, <2>3, Zenon DEF TurnInv, InTurn, Quiet
    <3> QED
      BY <2>1, <3>1, Zenon DEF InTurn
  <2> QED
    BY <2>1, <2>2, <2>3 DEF TurnInv
<1>2. CASE ClientClose
  <2>1. stage' = "gone" /\ UNCHANGED <<phase, seq, buf, wireIn, wireOut, cseq, faulty>>
    BY <1>2, Zenon DEF ClientClose, server
  <2>2. Pipe' = Pipe
    BY <2>1 DEF Pipe
  <2>3. ASSUME InTurn(phase, seq, Pipe, stage, cseq, wireOut)
        PROVE  InTurn(phase, seq, Pipe, "gone", cseq, wireOut)
    BY <2>3, Zenon DEF InTurn, Quiet
  <2> QED
    BY <2>1, <2>2, <2>3, Zenon DEF TurnInv
<1> QED
  BY <1>1, <1>2, TurnClientGreeting, TurnClientHello, TurnClientTlsDone, TurnClientRespond,
     TurnClientSwitch, TurnClientVerdict, TurnClientCommand, Zenon DEF ClientStep

LEMMA TurnInductive ==
    ASSUME SeqIds > 2, LoginInv, TurnInv, [Next]_vars
    PROVE  TurnInv'
<1>1. CASE UNCHANGED vars
  <2>1. UNCHANGED <<phase, seq, buf, wireIn, wireOut, stage, cseq, faulty>>
    BY <1>1, Zenon DEF vars, server, user
  <2>2. Pipe' = Pipe
    BY <2>1 DEF Pipe
  <2> QED
    BY <2>1, <2>2, Zenon DEF TurnInv
<1>2. CASE Serve \/ ConnectTimeout \/ WaitTimeout
  BY <1>2, TurnServe
<1>3. CASE ClientStep
  BY <1>3, TurnClient
<1> QED
  BY <1>1, <1>2, <1>3, ZenonT(30) DEF Next, Ended

(* What the server reads of such a client is never refused. *)
LEMMA NothingRefused ==
    ASSUME LoginInv, TurnInv, Refuse \/ RefuseCommand
    PROVE  faulty
<1>1. /\ phase \in {"response", "tlsResponse", "switch", "command"} /\ buf # <<>>
      /\ \/ Head(buf).shape \in {"malformed", "empty", "notUtf8"}
         \/ Head(buf).seq # IF phase = "command" THEN 0 ELSE seq
      /\ buf' = Tail(buf) /\ wireIn' = wireIn
  BY Zenon DEF Refuse, RefuseCommand, TakePacket
<1> SUFFICES ASSUME ~faulty PROVE FALSE
  OBVIOUS
<1>2. Head(buf) = Pipe[1] /\ Len(Pipe) \in Nat \ {0}
  BY <1>1, PipeTake
<1>3. Pipe # <<>>
  BY <1>1, PipeIs
<1>4. Pipe[1] \in Elems(Pipe)
  BY <1>2 DEF Elems
<1>5. Head(buf).shape = "good" /\ InTurn(phase, seq, Pipe, stage, cseq, wireOut)
  BY <1>1, <1>2, <1>4, Zenon DEF TurnInv
<1>6. Head(buf).seq = IF phase = "command" THEN 0 ELSE seq
  BY <1>1, <1>2, <1>3, <1>4, <1>5, Zenon DEF InTurn, Sole, SoleAt
<1> QED
  BY <1>1, <1>5, <1>6

LEMMA KeptInductive ==
    ASSUME \A o \in Outcomes : ~ (o.ok /\ o.huge),
           LoginInv, TurnInv, QueryErrorsKeepConnection, [Next]_vars
    PROVE  QueryErrorsKeepConnection'
<1> DEFINE K == {"quit", "hangup", "timeout", "denied", "tls"}
<1>1. CASE ClientStep \/ UNCHANGED vars
  <2>1. phase' = phase /\ why' = why
    <3>1. UNCHANGED server
      BY <1>1, Zenon DEF ClientStep, ClientGreeting, ClientHello, ClientTlsDone, ClientRespond,
         ClientSwitch, ClientVerdict, ClientCommand, ClientReceive, ClientClose, vars
    <3> QED
      BY <3>1 DEF server
  <2>2. \/ faulty' = faulty
        \/ \E s, at : ClientSend(s, at)
        \/ \E c : ClientSendUnserved(c)
    <3>1. CASE \/ ClientHello \/ ClientTlsDone \/ ClientVerdict \/ ClientReceive \/ ClientClose
               \/ UNCHANGED vars
      BY <3>1 DEF ClientHello, ClientTlsDone, ClientVerdict, ClientReceive, ClientClose, vars, user
    <3>2. CASE ClientGreeting \/ ClientRespond \/ ClientSwitch \/ ClientCommand
      BY <3>2, Zenon DEF ClientGreeting, ClientRespond, ClientSwitch, ClientCommand
    <3> QED
      BY <1>1, <3>1, <3>2, Zenon DEF ClientStep
  <2>3. faulty => faulty'
    BY <2>2, Zenon DEF ClientSend, ClientSendUnserved
  <2> QED
    BY <2>1, <2>3 DEF QueryErrorsKeepConnection
<1>2. CASE Refuse \/ RefuseCommand
  <2>1. faulty' = faulty
    BY <1>2, Zenon DEF Refuse, RefuseCommand, user
  <2> QED
    BY <1>2, <2>1, NothingRefused DEF QueryErrorsKeepConnection
<1>3. CASE ReadEof \/ WriteFails \/ ConnectTimeout \/ WaitTimeout \/ TlsAccept \/ Greet \/ Read
  <2>1. CASE ReadEof \/ WriteFails
    BY <2>1 DEF ReadEof, WriteFails, Close, QueryErrorsKeepConnection
  <2>2. CASE ConnectTimeout \/ WaitTimeout
    BY <2>2 DEF ConnectTimeout, WaitTimeout, Close, QueryErrorsKeepConnection
  <2>3. CASE TlsAccept
    BY <2>3 DEF TlsAccept, Close, QueryErrorsKeepConnection
  <2>4. CASE Greet \/ Read
    <3>1. phase' # "closed"
      BY <2>4, Zenon DEF Greet, Read
    <3> QED
      BY <3>1, Zenon DEF QueryErrorsKeepConnection
  <2> QED
    BY <1>3, <2>1, <2>2, <2>3, <2>4
<1>4. CASE ReadResponse \/ ReadTlsResponse \/ ReadSwitchResponse
  <2>1. phase' # "closed" \/ why' \in K
    BY <1>4, Zenon DEF ReadResponse, ReadTlsResponse, ReadSwitchResponse, Authenticate, Verdict, Close
  <2> QED
    BY <2>1 DEF QueryErrorsKeepConnection
<1>5. CASE \/ ComQuit \/ ComPing \/ ComUnknown \/ ComQuery \/ ComStmtPrepare
           \/ ComStmtExecute \/ ComStmtClose \/ ComStmtReset
  <2>1. phase' # "closed" \/ why' \in K
    BY <1>5, Zenon DEF ComQuit, ComPing, ComUnknown, ComQuery, ComStmtPrepare, ComStmtExecute,
       ComStmtClose, ComStmtReset, Dispatch, Reply, Start, Close
  <2> QED
    BY <2>1 DEF QueryErrorsKeepConnection
<1>6. CASE ExecuteStatement
  <2>1. phase' \in {"command", "query"}
    BY <1>6, Zenon DEF ExecuteStatement, SendResult
  <2> QED
    BY <2>1 DEF QueryErrorsKeepConnection
<1> QED
  BY <1>1, <1>2, <1>3, <1>4, <1>5, <1>6, ZenonT(30) DEF Next, Ended, Serve

(* handle(): an error in what a client asks for never drops its connection.
   Whatever its statements return, through every handshake, with pipelined
   commands, a malformed statement, an unknown command or statement id, the
   server closes only on quit, hangup, a timeout, a denied login or a failed
   TLS handshake; provided the client's packets are well framed and in
   sequence, each command is one non-empty packet, the text of a COM_QUERY is
   UTF-8 (all these are ~faulty: run_command_loop returns an error for the
   others), and no row outgrows one packet, which is the one result
   send_result cannot encode.  Sequence ids have more than two values (they
   are u8 in the code). *)
THEOREM WellFormedKept ==
    ASSUME SeqIds > 2, \A o \in Outcomes : ~ (o.ok /\ o.huge)
    PROVE  Spec => []QueryErrorsKeepConnection
<1> DEFINE I == LoginInv /\ TurnInv /\ QueryErrorsKeepConnection
<1>1. Init => I
  <2>1. Init => QueryErrorsKeepConnection
    BY Zenon DEF Init, QueryErrorsKeepConnection
  <2> QED
    BY <2>1, LoginInitial, TurnInitial
<1>2. I /\ [Next]_vars => I'
  BY LoginInductive, TurnInductive, KeptInductive
<1>3. I => QueryErrorsKeepConnection
  OBVIOUS
<1> QED
  BY <1>1, <1>2, <1>3, PTL DEF Spec
=============================================================================
