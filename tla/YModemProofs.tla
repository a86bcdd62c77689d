---------------------------- MODULE YModemProofs ----------------------------
(***************************************************************************)
(* Proofs about YMODEM of Links, for any number of packets, faults and     *)
(* retries.                                                                *)
(*                                                                         *)
(* Two arguments make the invariant.  While no drain has stalled there is  *)
(* one packet on the line and an answer is the answer to it, so that the   *)
(* receiver is where the sender takes it to be.  While nothing has been    *)
(* damaged or lost no packet is skipped: what is under way goes on from    *)
(* what the receiver has stored, however many packets there are twice.     *)
(***************************************************************************)
EXTENDS Links, Sequences, TLAPS

\* A sequence, whatever it is of.
ASeq(s) == \E S : s \in Seq(S)

\* The place in the file of the packet the sender is at, and of a packet: the
\* header, the data, EOT, the empty packet.
SenderAt ==
    IF spc \in {"start", "header", "prompt"} THEN 0
    ELSE IF spc = "data" THEN pkt
    ELSE IF spc \in {"eot", "eot2", "eotprompt"} THEN Packets + 1
    ELSE Packets + 2
Place(p) ==
    IF p.kind = "HEADER" THEN 0
    ELSE IF p.kind = "DATA" THEN p.content
    ELSE IF p.kind = "EOT" THEN Packets + 1
    ELSE Packets + 2

\* The packet at a place.
PacketAt(n) ==
    IF n = 0 THEN Y!Packet("HEADER", 0)
    ELSE IF n = Packets + 1 THEN Y!Eot
    ELSE IF n = Packets + 2 THEN Y!Packet("EMPTY", 0)
    ELSE Y!Packet("DATA", n)

Controls == {"C", "ACK", "NAK", "CAN"}

IsPacket(p) == p = Y!Bad \/ \E n \in 0..(Packets + 2) : p = PacketAt(n)

SenderOK ==
    /\ spc \in {"start", "header", "prompt", "data", "eot", "eot2", "eotprompt", "final",
                "done", "fail"}
    /\ waiting \in {"yes", "no"} /\ pkt \in Nat /\ (spc = "data" => pkt \in 1..Packets)
    /\ spc \in {"start", "prompt", "eotprompt", "done"} => waiting = "no"
ReceiverOK ==
    /\ rpc \in {"header", "data", "eot", "last", "done", "gone"} /\ ASeq(stored)
    /\ faults \in Nat /\ stalls \in Nat
LineOK ==
    /\ ASeq(s2r) /\ \A i \in 1..Len(s2r) : IsPacket(s2r[i])
    /\ ASeq(r2s) /\ \A i \in 1..Len(r2s) : r2s[i] \in Controls
SendTypeOK == SenderOK /\ ReceiverOK /\ LineOK

InPlace == \A i \in 1..Len(stored) : stored[i] = i

AllCan(s) == \A i \in 1..Len(s) : s[i] = "CAN"
NakLast(s) == \A i, k \in 1..Len(s) : s[i] = "NAK" /\ i < k => s[k] = "CAN"
HasAck(s) == \E i \in 1..Len(s) : s[i] = "ACK"

\* No drain has stalled: there is one packet under way at most, the current
\* one, and an answer is the answer to it.
OneAtATime ==
    /\ InPlace
    /\ Len(s2r) <= 1 /\ (waiting = "no" => s2r = <<>>)
    /\ \A i \in 1..Len(s2r) : s2r[i] \in {PacketAt(SenderAt), Y!Bad}
    /\ s2r # <<>> => AllCan(r2s)
    /\ NakLast(r2s)
    /\ spc \in {"start", "header", "prompt"} => stored = <<>>
    /\ spc = "data" =>
         Len(stored) \in {pkt - 1, pkt} /\ (waiting = "yes" /\ HasAck(r2s) => Len(stored) = pkt)
    /\ spc \in {"eot", "eot2", "eotprompt", "final", "done"} => Len(stored) = Packets

\* Where the receiver is, and the last packet on its way to it.
ReceiverAt == IF rpc = "header" THEN -1 ELSE Len(stored)
LastAt == IF s2r = <<>> THEN ReceiverAt ELSE Place(s2r[Len(s2r)])

\* The packets under way go on from what the receiver has, none is skipped,
\* and the last of them is the current one or the one before it.
Follows(m, n) == n = m \/ n = m + 1
Chain ==
    /\ s2r # <<>> => Follows(ReceiverAt, Place(s2r[1]))
    /\ \A i, k \in 1..Len(s2r) : k = i + 1 => Follows(Place(s2r[i]), Place(s2r[k]))
CaughtUp ==
    /\ Follows(LastAt, SenderAt)
    /\ waiting = "yes" \/ spc \in {"prompt", "eot2", "eotprompt", "done"} => LastAt = SenderAt

\* Nothing has been damaged or lost.
NoGap ==
    /\ InPlace /\ Len(stored) <= Packets
    /\ rpc # "gone" /\ \A i \in 1..Len(s2r) : s2r[i] # Y!Bad
    /\ rpc = "header" => stored = <<>>
    /\ rpc \in {"eot", "last", "done"} => Len(stored) = Packets
    /\ rpc \in {"header", "data"} => Chain /\ CaughtUp

SendInv ==
    /\ SendTypeOK
    /\ stalls = 0 /\ spc # "fail" => OneAtATime
    /\ faults = 0 /\ spc # "fail" => NoGap

(***************************************************************************)
(* Sequences.                                                              *)
(***************************************************************************)
\* t is s without its first element, element by element; u is s and then t.
Rest(t, s) ==
    /\ ASeq(t) /\ Len(t) = Len(s) - 1
    /\ \A i \in 1..Len(t) : i + 1 \in 1..Len(s) /\ t[i] = s[i + 1]
Joined(u, s, t) ==
    /\ ASeq(u) /\ Len(u) = Len(s) + Len(t)
    /\ \A i \in 1..Len(s) : u[i] = s[i]
    /\ \A i \in 1..Len(t) : u[Len(s) + i] = t[i]

\* t is s and then x.
Grown(t, s, x) ==
    /\ ASeq(t) /\ Len(t) = Len(s) + 1 /\ t[Len(s) + 1] = x
    /\ \A i \in 1..Len(s) : t[i] = s[i]

LEMMA EmptySeq == ASeq(<<>>) /\ Len(<<>>) = 0 /\ 1..0 = {}
<1>1. <<>> \in Seq({}) /\ Len(<<>>) = 0 /\ 1..0 = {}
  BY SMT
<1> QED
  BY <1>1, Zenon DEF ASeq

LEMMA SingleSeq ==
    ASSUME NEW x
    PROVE  ASeq(<<x>>) /\ Len(<<x>>) = 1 /\ <<x>>[1] = x /\ <<x>> # <<>>
<1>1. <<x>> \in Seq({x}) /\ Len(<<x>>) = 1 /\ <<x>>[1] = x /\ <<x>> # <<>>
  BY SMT
<1> QED
  BY <1>1, Zenon DEF ASeq

LEMMA LenNat ==
    ASSUME NEW s, ASeq(s)
    PROVE  Len(s) \in Nat /\ (s = <<>> <=> Len(s) = 0)
<1>1. PICK S : s \in Seq(S)
  BY Zenon DEF ASeq
<1> QED
  BY <1>1, SMT

LEMMA AppendSeq ==
    ASSUME NEW s, NEW x, ASeq(s)
    PROVE  Grown(Append(s, x), s, x) /\ Append(s, x) # <<>>
<1>1. PICK S : s \in Seq(S)
  BY Zenon DEF ASeq
<1>2. s \in Seq(S \cup {x})
  BY <1>1, SMT
<1>3. Append(s, x) \in Seq(S \cup {x}) /\ Len(Append(s, x)) = Len(s) + 1 /\ Append(s, x) # <<>>
  BY <1>2, SMT
<1>4. Append(s, x)[Len(s) + 1] = x /\ \A i \in 1..Len(s) : Append(s, x)[i] = s[i]
  BY <1>2, SMT
<1> QED
  BY <1>3, <1>4, Zenon DEF ASeq, Grown

LEMMA TailSeq ==
    ASSUME NEW s, ASeq(s), s # <<>>
    PROVE  /\ Rest(Tail(s), s)
           /\ Head(s) = s[1] /\ 1 \in 1..Len(s) /\ (Len(s) = 1 => Tail(s) = <<>>)
<1>1. PICK S : s \in Seq(S)
  BY Zenon DEF ASeq
<1>2. Tail(s) \in Seq(S) /\ Len(Tail(s)) = Len(s) - 1 /\ Head(s) = s[1] /\ Len(s) \in Nat /\ Len(s) > 0
  BY <1>1, SMT
<1>3. \A i \in 1..Len(Tail(s)) : i + 1 \in 1..Len(s) /\ Tail(s)[i] = s[i + 1]
  BY <1>1, <1>2, SMT
<1>4. 1 \in 1..Len(s) /\ (Len(s) = 1 => Tail(s) = <<>>)
  BY <1>1, <1>2, SMT
<1> QED
  BY <1>2, <1>3, <1>4, Zenon DEF ASeq, Rest

LEMMA ConcatSeq ==
    ASSUME NEW s, NEW t, ASeq(s), ASeq(t)
    PROVE  Joined(s \o t, s, t)
<1>1. PICK S : s \in Seq(S)
  BY Zenon DEF ASeq
<1>2. PICK T : t \in Seq(T)
  BY Zenon DEF ASeq
<1>3. s \in Seq(S \cup T) /\ t \in Seq(S \cup T)
  BY <1>1, <1>2, SMT
<1>4. s \o t \in Seq(S \cup T) /\ Len(s \o t) = Len(s) + Len(t) /\ Len(s) \in Nat /\ Len(t) \in Nat
  BY <1>3, SMT
<1>5. \A i \in 1..Len(s) : (s \o t)[i] = s[i]
  BY <1>3, <1>4, SMT
<1>6. \A i \in 1..Len(t) : (s \o t)[Len(s) + i] = t[i]
  BY <1>3, <1>4, SMT
<1> QED
  BY <1>4, <1>5, <1>6, Zenon DEF ASeq, Joined

LEMMA OneLong ==
    ASSUME NEW n \in Nat, 1 \in 1..n, n <= 1
    PROVE  n = 1
  BY SMT

(***************************************************************************)
(* YMODEM: sequence numbers, packets and control bytes.                    *)
(***************************************************************************)
LEMMA NotUnit ==
    ASSUME NEW m \in Int, m > 1, NEW k \in Int
    PROVE  m * k # 1
<1>1. CASE k <= 0
  <2>1. m * k <= 0
    BY <1>1, SMT
  <2> QED
    BY <2>1, SMT
<1>2. CASE k >= 1
  <2>1. m * k >= m
    BY <1>2, SMT
  <2> QED
    BY <2>1, SMT
<1> QED
  BY <1>1, <1>2, SMT

LEMMA NextDiffers ==
    ASSUME NEW n \in Nat, NEW m \in Nat \ {0, 1}
    PROVE  n % m # (n + 1) % m
<1>1. PICK q \in Int : n = m * q + (n % m)
  <2>1. n \div m \in Int /\ n = m * (n \div m) + (n % m)
    BY SMT
  <2> QED
    BY <2>1, Zenon
<1>2. PICK r \in Int : n + 1 = m * r + ((n + 1) % m)
  <2>1. (n + 1) \div m \in Int /\ n + 1 = m * ((n + 1) \div m) + ((n + 1) % m)
    BY SMT
  <2> QED
    BY <2>1, Zenon
<1>3. SUFFICES ASSUME n % m = (n + 1) % m PROVE FALSE
  BY Zenon
<1>4. PICK a \in Int : a = n % m
  BY SMT
<1>5. n = m * q + a /\ n + 1 = m * r + a
  BY <1>1, <1>2, <1>3, <1>4, Zenon
<1>6. m * (r - q) = 1
  BY <1>5, SMT
<1>7. r - q \in Int /\ m \in Int /\ m > 1
  BY SMT
<1> QED
  BY <1>6, <1>7, NotUnit, Zenon

\* What a packet at place n looks like.
IsAt(p, n) ==
    /\ p.kind \in {"HEADER", "DATA", "EOT", "EMPTY"} /\ Place(p) = n
    /\ (p.kind = "HEADER" <=> n = 0) /\ (p.kind = "DATA" <=> n \in 1..Packets)
    /\ (p.kind = "EOT" <=> n = Packets + 1) /\ (p.kind = "EMPTY" <=> n = Packets + 2)
    /\ p.kind = "DATA" => p.seq = n % Modulus /\ p.content = n

LEMMA PacketFacts ==
    ASSUME NEW n \in 0..(Packets + 2)
    PROVE  IsAt(PacketAt(n), n)
<1>0. Packets \in Nat
  BY LinksAssumption, Zenon
<1>1. CASE n = 0
  <2>1. 0 \notin 1..Packets /\ 0 # Packets + 1 /\ 0 # Packets + 2
    BY <1>0, SMT
  <2> QED
    BY <1>1, <2>1, Zenon DEF PacketAt, IsAt, Place, Y!Packet
<1>2. CASE n = Packets + 1
  <2>1. n # 0 /\ n \notin 1..Packets /\ n # Packets + 2
    BY <1>0, <1>2, SMT
  <2> QED
    BY <1>2, <2>1, Zenon DEF PacketAt, IsAt, Place, Y!Eot
<1>3. CASE n = Packets + 2
  <2>1. n # 0 /\ n \notin 1..Packets /\ n # Packets + 1
    BY <1>0, <1>3, SMT
  <2> QED
    BY <1>3, <2>1, Zenon DEF PacketAt, IsAt, Place, Y!Packet
<1>4. CASE n # 0 /\ n # Packets + 1 /\ n # Packets + 2
  <2>1. n \in 1..Packets
    BY <1>0, <1>4, SMT
  <2> QED
    BY <1>4, <2>1, Zenon DEF PacketAt, IsAt, Place, Y!Packet
<1> QED
  BY <1>1, <1>2, <1>3, <1>4, Zenon

\* The sender's place, and the packet it sends from there.
LEMMA SenderFacts ==
    ASSUME SendTypeOK
    PROVE  /\ SenderAt \in 0..(Packets + 2) /\ Packets \in Nat
           /\ spc \in {"header", "data", "final"} => Y!Current = PacketAt(SenderAt)
           /\ spc = "eot" => Y!Eot = PacketAt(SenderAt)
<1>0. Packets \in Nat
  BY LinksAssumption, Zenon
<1>1. /\ 1..Packets \subseteq 0..(Packets + 2) /\ 0 \in 0..(Packets + 2)
      /\ Packets + 1 \in 0..(Packets + 2) /\ Packets + 2 \in 0..(Packets + 2)
      /\ \A n \in 1..Packets : n # 0 /\ n # Packets + 1 /\ n # Packets + 2
      /\ Packets + 1 # 0 /\ Packets + 2 # 0 /\ Packets + 2 # Packets + 1
  BY <1>0, SMT
<1>2. SenderAt \in 0..(Packets + 2)
  BY <1>1, Zenon DEF SenderAt, SendTypeOK, SenderOK
<1>3. spc = "header" => Y!Current = PacketAt(SenderAt)
  BY Zenon DEF SenderAt, PacketAt, Y!Current
<1>4. spc = "final" => Y!Current = PacketAt(SenderAt)
  BY <1>1, Zenon DEF SenderAt, PacketAt, Y!Current
<1>5. spc = "data" => Y!Current = PacketAt(SenderAt)
  BY <1>1, Zenon DEF SenderAt, PacketAt, Y!Current, Y!Sequence, SendTypeOK, SenderOK
<1>6. spc = "eot" => Y!Eot = PacketAt(SenderAt)
  BY <1>1, Zenon DEF SenderAt, PacketAt
<1> QED
  BY <1>0, <1>2, <1>3, <1>4, <1>5, <1>6, Zenon

LEMMA BadIsNone ==
    ASSUME NEW n \in 0..(Packets + 2)
    PROVE  PacketAt(n) # Y!Bad
<1>1. Y!Bad.kind = "BAD"
  BY Zenon DEF Y!Bad
<1> QED
  BY <1>1, PacketFacts, Zenon DEF IsAt

\* The control bytes a receiver answers with.
Answers == {<<"ACK", "C">>, <<"ACK">>, <<"NAK">>, <<"C">>, <<"CAN">>}

LEMMA AnswerSeq ==
    ASSUME NEW b \in Answers
    PROVE  /\ ASeq(b) /\ Len(b) \in Nat /\ \A i \in 1..Len(b) : b[i] \in Controls
           /\ NakLast(b)
           /\ b = <<"NAK">> => ~HasAck(b)
           /\ b = <<"CAN">> => ~HasAck(b) /\ AllCan(b)
           /\ b = <<"C">> => ~HasAck(b)
<1>1. CASE b = <<"ACK", "C">>
  <2>1. b \in Seq({"ACK", "C"}) /\ Len(b) = 2 /\ b[1] = "ACK" /\ b[2] = "C"
    BY <1>1, SMT
  <2>2. \A i \in 1..2 : i = 1 \/ i = 2
    BY SMT
  <2>3. b[1] # "NAK" /\ b[1] # "CAN" /\ b[2] # "NAK" /\ 2 \in Nat /\ 1 \in 1..2
    BY <2>1, SMT
  <2>4. b # <<"NAK">> /\ b # <<"CAN">> /\ b # <<"C">>
    BY <2>1, SMT
  <2> QED
    BY <2>1, <2>2, <2>3, <2>4, Zenon DEF ASeq, NakLast, AllCan, Controls
<1>2. ASSUME NEW x \in Controls, b = <<x>>
      PROVE  /\ ASeq(b) /\ Len(b) = 1 /\ b[1] = x
             /\ NakLast(b) /\ (HasAck(b) => x = "ACK") /\ (x = "CAN" => AllCan(b))
  <2>1. ASeq(b) /\ Len(b) = 1 /\ b[1] = x
    BY <1>2, SingleSeq, Zenon
  <2>2. (\A i \in 1..1 : i = 1) /\ ~(1 < 1) /\ 1 \in 1..1
    BY SMT
  <2> QED
    BY <2>1, <2>2, Zenon DEF NakLast, HasAck, AllCan
<1>3. 1 \in Nat /\ (\A i \in 1..1 : i = 1)
  BY SMT
<1>4. ASSUME NEW x \in {"ACK", "NAK", "C", "CAN"}, b = <<x>>
      PROVE  /\ b = <<"NAK">> => ~HasAck(b)
             /\ b = <<"CAN">> => ~HasAck(b) /\ AllCan(b)
             /\ b = <<"C">> => ~HasAck(b)
  <2>1. b[1] = x /\ <<"NAK">>[1] = "NAK" /\ <<"CAN">>[1] = "CAN" /\ <<"C">>[1] = "C"
    BY <1>4, SingleSeq, Zenon
  <2>2. (b = <<"NAK">> => x = "NAK") /\ (b = <<"CAN">> => x = "CAN") /\ (b = <<"C">> => x = "C")
    BY <2>1, Zenon
  <2>3. "NAK" # "ACK" /\ "CAN" # "ACK" /\ "C" # "ACK" /\ x \in Controls
    BY Zenon DEF Controls
  <2> QED
    BY <1>2, <1>4, <2>2, <2>3, Zenon
<1>5. CASE b # <<"ACK", "C">>
  <2>1. PICK x \in {"ACK", "NAK", "C", "CAN"} : b = <<x>>
    BY <1>5, Zenon DEF Answers
  <2>2. x \in Controls
    BY Zenon DEF Controls
  <2>3. ASeq(b) /\ Len(b) = 1 /\ b[1] = x /\ NakLast(b)
    BY <1>2, <2>1, <2>2, Zenon
  <2> QED
    BY <1>3, <1>4, <2>1, <2>2, <2>3, Zenon
<1> QED
  BY <1>1, <1>5, Zenon

\* Control bytes behind others.
LEMMA AnswerJoins ==
    ASSUME ASeq(r2s), NEW b \in Answers, r2s' = r2s \o b
    PROVE  /\ ASeq(r2s')
           /\ (\A i \in 1..Len(r2s) : r2s[i] \in Controls) => \A i \in 1..Len(r2s') : r2s'[i] \in Controls
           /\ AllCan(r2s) => NakLast(r2s')
           /\ b = <<"CAN">> /\ NakLast(r2s) => NakLast(r2s')
           /\ b = <<"CAN">> /\ AllCan(r2s) => AllCan(r2s')
           /\ HasAck(r2s') => HasAck(r2s) \/ HasAck(b)
<1>1. Joined(r2s', r2s, b)
  BY AnswerSeq, ConcatSeq, Zenon
<1>2. Len(r2s) \in Nat /\ Len(b) \in Nat /\ Len(r2s') = Len(r2s) + Len(b) /\ ASeq(r2s')
  BY <1>1, AnswerSeq, LenNat, Zenon DEF Joined
<1>3. \A i \in 1..Len(r2s') : i \in 1..Len(r2s) \/ i - Len(r2s) \in 1..Len(b)
  BY <1>2, SMT
<1>4. \A i \in 1..Len(r2s') : i = Len(r2s) + (i - Len(r2s))
  BY <1>2, SMT
<1>5. ASSUME NEW i \in 1..Len(r2s')
      PROVE  (i \in 1..Len(r2s) /\ r2s'[i] = r2s[i])
             \/ (i - Len(r2s) \in 1..Len(b) /\ r2s'[i] = b[i - Len(r2s)])
  <2>1. CASE i \in 1..Len(r2s)
    BY <1>1, <2>1, Zenon DEF Joined
  <2>2. CASE i - Len(r2s) \in 1..Len(b)
    <3>1. r2s'[Len(r2s) + (i - Len(r2s))] = b[i - Len(r2s)]
      BY <1>1, <2>2, Zenon DEF Joined
    <3> QED
      BY <1>4, <2>2, <3>1, Zenon
  <2> QED
    BY <1>3, <2>1, <2>2, Zenon
<1>6. \A i, k \in 1..Len(r2s') : i < k =>
        /\ k \in 1..Len(r2s) => i \in 1..Len(r2s)
        /\ i - Len(r2s) \in 1..Len(b) /\ k - Len(r2s) \in 1..Len(b) => i - Len(r2s) < k - Len(r2s)
  BY <1>2, SMT
<1>7. (\A i \in 1..Len(r2s) : r2s[i] \in Controls) => \A i \in 1..Len(r2s') : r2s'[i] \in Controls
  BY <1>5, AnswerSeq, Zenon
<1>8. HasAck(r2s') => HasAck(r2s) \/ HasAck(b)
  BY <1>5, Zenon DEF HasAck
<1>9. b = <<"CAN">> => \A i \in 1..Len(r2s') : r2s'[i] = "CAN" \/ (i \in 1..Len(r2s) /\ r2s'[i] = r2s[i])
  BY <1>5, AnswerSeq, Zenon DEF AllCan
<1>10. b = <<"CAN">> /\ AllCan(r2s) => AllCan(r2s')
  BY <1>9, Zenon DEF AllCan
<1>11. ASSUME AllCan(r2s), NEW i \in 1..Len(r2s'), NEW k \in 1..Len(r2s'), r2s'[i] = "NAK", i < k
       PROVE  r2s'[k] = "CAN"
  <2>1. i \notin 1..Len(r2s) \/ r2s'[i] # r2s[i]
    BY <1>11, Zenon DEF AllCan
  <2>2. i - Len(r2s) \in 1..Len(b) /\ b[i - Len(r2s)] = "NAK"
    BY <1>5, <1>11, <2>1, Zenon
  <2>3. CASE k \in 1..Len(r2s) /\ r2s'[k] = r2s[k]
    BY <1>11, <2>3, Zenon DEF AllCan
  <2>4. CASE k - Len(r2s) \in 1..Len(b) /\ r2s'[k] = b[k - Len(r2s)]
    <3>1. i - Len(r2s) < k - Len(r2s)
      BY <1>6, <1>11, <2>2, <2>4, Zenon
    <3> QED
      BY <2>2, <2>4, <3>1, AnswerSeq, Zenon DEF NakLast
  <2> QED
    BY <1>5, <2>3, <2>4, Zenon
<1>12. ASSUME b = <<"CAN">>, NakLast(r2s),
              NEW i \in 1..Len(r2s'), NEW k \in 1..Len(r2s'), r2s'[i] = "NAK", i < k
       PROVE  r2s'[k] = "CAN"
  <2>1. i \in 1..Len(r2s) /\ r2s[i] = "NAK"
    BY <1>9, <1>12, Zenon
  <2> QED
    BY <1>9, <1>12, <2>1, Zenon DEF NakLast
<1>13. (AllCan(r2s) => NakLast(r2s')) /\ (b = <<"CAN">> /\ NakLast(r2s) => NakLast(r2s'))
  BY <1>11, <1>12, Zenon DEF NakLast
<1> QED
  BY <1>2, <1>7, <1>8, <1>10, <1>13, Zenon

\* Control bytes taken from the front.
LEMMA ControlTaken ==
    ASSUME ASeq(r2s), r2s # <<>>, r2s' = Tail(r2s)
    PROVE  /\ ASeq(r2s') /\ Head(r2s) = r2s[1] /\ 1 \in 1..Len(r2s)
           /\ (\A i \in 1..Len(r2s) : r2s[i] \in Controls) => \A i \in 1..Len(r2s') : r2s'[i] \in Controls
           /\ AllCan(r2s) => AllCan(r2s')
           /\ NakLast(r2s) => NakLast(r2s')
           /\ NakLast(r2s) /\ Head(r2s) = "NAK" => AllCan(r2s')
           /\ HasAck(r2s') => HasAck(r2s)
<1>1. Rest(r2s', r2s) /\ Head(r2s) = r2s[1] /\ 1 \in 1..Len(r2s)
  BY TailSeq, Zenon
<1>2. \A i \in 1..Len(r2s') : i + 1 \in 1..Len(r2s) /\ r2s'[i] = r2s[i + 1]
  BY <1>1, Zenon DEF Rest
<1>3. ASeq(r2s') /\ Len(r2s') \in Nat
  BY <1>1, LenNat, Zenon DEF Rest
<1>4. \A i, k \in 1..Len(r2s') : (i < k => i + 1 < k + 1) /\ 1 < k + 1
  BY <1>3, SMT
<1>5. NakLast(r2s) => NakLast(r2s')
  <2>1. ASSUME NakLast(r2s), NEW i \in 1..Len(r2s'), NEW k \in 1..Len(r2s'), r2s'[i] = "NAK", i < k
        PROVE  r2s'[k] = "CAN"
    <3>1. i + 1 \in 1..Len(r2s) /\ r2s[i + 1] = "NAK" /\ k + 1 \in 1..Len(r2s) /\ i + 1 < k + 1
      BY <1>2, <1>4, <2>1, Zenon
    <3>2. r2s[k + 1] = "CAN"
      BY <2>1, <3>1, Zenon DEF NakLast
    <3> QED
      BY <1>2, <3>2, Zenon
  <2> QED
    BY <2>1, Zenon DEF NakLast
<1>6. NakLast(r2s) /\ Head(r2s) = "NAK" => AllCan(r2s')
  BY <1>1, <1>2, <1>4, Zenon DEF NakLast, AllCan
<1>7. (HasAck(r2s') => HasAck(r2s)) /\ (AllCan(r2s) => AllCan(r2s'))
  BY <1>2, Zenon DEF HasAck, AllCan
<1> QED
  BY <1>1, <1>2, <1>3, <1>5, <1>6, <1>7, Zenon

LEMMA NoControls ==
    ASSUME r2s' = <<>>
    PROVE  ASeq(r2s') /\ (\A i \in 1..Len(r2s') : FALSE) /\ NakLast(r2s') /\ AllCan(r2s') /\ ~HasAck(r2s')
<1>1. ASeq(r2s') /\ \A i \in 1..Len(r2s') : FALSE
  BY EmptySeq, Zenon
<1> QED
  BY <1>1, Zenon DEF NakLast, AllCan, HasAck

(***************************************************************************)
(* YMODEM: types.                                                          *)
(***************************************************************************)
\* A packet goes out, is taken, or is damaged.
LEMMA PacketAdded ==
    ASSUME SendTypeOK, NEW p, IsPacket(p), s2r' = Append(s2r, p)
    PROVE  ASeq(s2r') /\ \A i \in 1..Len(s2r') : IsPacket(s2r'[i])
<1>1. ASeq(s2r) /\ \A i \in 1..Len(s2r) : IsPacket(s2r[i])
  BY Zenon DEF SendTypeOK, LineOK
<1>2. Grown(s2r', s2r, p)
  BY <1>1, AppendSeq, Zenon
<1>3. \A i \in 1..Len(s2r') : i \in 1..Len(s2r) \/ i = Len(s2r) + 1
  <2>1. Len(s2r) \in Nat /\ Len(s2r') = Len(s2r) + 1
    BY <1>1, <1>2, LenNat, Zenon DEF Grown
  <2> QED
    BY <2>1, SMT
<1> QED
  BY <1>1, <1>2, <1>3, Zenon DEF Grown

LEMMA PacketTaken ==
    ASSUME SendTypeOK, s2r # <<>>, s2r' = Tail(s2r)
    PROVE  /\ ASeq(s2r') /\ (\A i \in 1..Len(s2r') : IsPacket(s2r'[i]))
           /\ Rest(s2r', s2r) /\ Head(s2r) = s2r[1] /\ 1 \in 1..Len(s2r) /\ IsPacket(s2r[1])
           /\ (Len(s2r) = 1 => s2r' = <<>>)
<1>1. ASeq(s2r) /\ \A i \in 1..Len(s2r) : IsPacket(s2r[i])
  BY Zenon DEF SendTypeOK, LineOK
<1>2. Rest(s2r', s2r) /\ Head(s2r) = s2r[1] /\ 1 \in 1..Len(s2r) /\ (Len(s2r) = 1 => s2r' = <<>>)
  BY <1>1, TailSeq, Zenon
<1> QED
  BY <1>1, <1>2, Zenon DEF Rest

LEMMA PacketDamaged ==
    ASSUME SendTypeOK, s2r # <<>>, s2r' = [s2r EXCEPT ![1] = Y!Bad]
    PROVE  /\ ASeq(s2r') /\ Len(s2r') = Len(s2r)
           /\ \A i \in 1..Len(s2r') : IsPacket(s2r'[i]) /\ s2r'[i] \in {s2r[i], Y!Bad}
<1>1. ASeq(s2r) /\ \A i \in 1..Len(s2r) : IsPacket(s2r[i])
  BY Zenon DEF SendTypeOK, LineOK
<1>2. PICK S : s2r \in Seq(S)
  BY <1>1, Zenon DEF ASeq
<1>3. PICK bad : bad = Y!Bad
  BY Zenon
<1>4. s2r \in Seq(S \cup {bad}) /\ DOMAIN s2r = 1..Len(s2r)
  BY <1>2, SMT
<1>5. [s2r EXCEPT ![1] = bad] \in Seq(S \cup {bad}) /\ Len([s2r EXCEPT ![1] = bad]) = Len(s2r)
  BY <1>4, SMT
<1>6. \A i \in 1..Len(s2r) : [s2r EXCEPT ![1] = bad][i] \in {s2r[i], bad}
  BY <1>4, Zenon
<1>7. s2r' = [s2r EXCEPT ![1] = bad]
  BY <1>3, Zenon
<1>8. ASeq(s2r') /\ Len(s2r') = Len(s2r) /\ \A i \in 1..Len(s2r) : s2r'[i] \in {s2r[i], bad}
  BY <1>5, <1>6, <1>7, Zenon DEF ASeq
<1> QED
  BY <1>1, <1>3, <1>8, Zenon DEF IsPacket

\* The sender's packet at each step.
LEMMA CurrentIsPacket ==
    ASSUME SendTypeOK
    PROVE  /\ spc \in {"header", "data", "final"} => IsPacket(Y!Current)
           /\ IsPacket(Y!Eot)
<1>1. spc \in {"header", "data", "final"} => IsPacket(Y!Current)
  BY SenderFacts, Zenon DEF IsPacket
<1>2. Packets + 1 \in 0..(Packets + 2) /\ Packets + 1 # 0
  BY LinksAssumption, SMT
<1>3. Y!Eot = PacketAt(Packets + 1)
  BY <1>2, Zenon DEF PacketAt
<1> QED
  BY <1>1, <1>2, <1>3, Zenon DEF IsPacket

\* How the sender moves on.
LEMMA AdvanceFacts ==
    ASSUME SendTypeOK, spc \in {"header", "data", "final"}, Y!Advance
    PROVE  \/ spc = "header" /\ spc' = "prompt" /\ pkt' = pkt
           \/ spc = "final" /\ spc' = "done" /\ pkt' = pkt
           \/ spc = "data" /\ spc' = "data" /\ pkt' = pkt + 1 /\ pkt' \in 1..Packets
           \/ spc = "data" /\ spc' = "eot" /\ pkt' = pkt /\ pkt = Packets
<1>1. CASE spc = "header"
  BY <1>1, Zenon DEF Y!Advance
<1>2. CASE spc = "final"
  BY <1>2, Zenon DEF Y!Advance
<1>3. CASE spc = "data"
  <2>1. pkt \in 1..Packets
    BY <1>3, Zenon DEF SendTypeOK, SenderOK
  <2>2. (pkt < Packets => pkt + 1 \in 1..Packets) /\ (~(pkt < Packets) => pkt = Packets)
    BY <2>1, LinksAssumption, SMT
  <2>3. IF pkt < Packets THEN spc' = "data" /\ pkt' = pkt + 1 ELSE spc' = "eot" /\ pkt' = pkt
    BY <1>3, Zenon DEF Y!Advance
  <2> QED
    BY <1>3, <2>2, <2>3, Zenon
<1> QED
  BY <1>1, <1>2, <1>3, Zenon

LEMMA AgainFacts ==
    ASSUME Y!Again
    PROVE  pkt' = pkt /\ (spc' = spc \/ spc' = "fail")
  BY Zenon DEF Y!Again

LEMMA PromptFacts ==
    ASSUME Y!RecvPrompt
    PROVE  /\ spc \in {"start", "prompt", "eotprompt"} /\ r2s # <<>> /\ r2s' = Tail(r2s)
           /\ UNCHANGED <<waiting, attempt, eotnaks, rpc, stored, s2r, faults, stalls>>
           /\ \/ spc' = spc /\ pkt' = pkt
              \/ spc' = "fail" /\ pkt' = pkt
              \/ /\ Head(r2s) = "C"
                 /\ \/ spc = "start" /\ spc' = "header" /\ pkt' = pkt
                    \/ spc = "eotprompt" /\ spc' = "final" /\ pkt' = pkt
                    \/ spc = "prompt" /\ Packets = 0 /\ spc' = "eot" /\ pkt' = pkt
                    \/ spc = "prompt" /\ Packets # 0 /\ spc' = "data" /\ pkt' = 1
<1>1. /\ spc \in {"start", "prompt", "eotprompt"} /\ r2s # <<>> /\ r2s' = Tail(r2s)
      /\ UNCHANGED <<waiting, attempt, eotnaks, rpc, stored, s2r, faults, stalls>>
  BY Zenon DEF Y!RecvPrompt, Y!receiver
<1>2. CASE Head(r2s) = "C"
  <2>1. IF spc = "start" THEN spc' = "header" /\ pkt' = pkt
        ELSE IF spc = "eotprompt" THEN spc' = "final" /\ pkt' = pkt
        ELSE IF Packets = 0 THEN spc' = "eot" /\ pkt' = pkt
        ELSE spc' = "data" /\ pkt' = 1
    BY <1>2, Zenon DEF Y!RecvPrompt
  <2> QED
    BY <1>1, <1>2, <2>1, Zenon
<1>3. CASE Head(r2s) # "C"
  BY <1>1, <1>3, Zenon DEF Y!RecvPrompt
<1> QED
  BY <1>2, <1>3, Zenon

LEMMA EotFacts ==
    ASSUME SendTypeOK, Y!RecvEot
    PROVE  /\ spc = "eot" /\ waiting = "yes" /\ r2s # <<>> /\ r2s' = Tail(r2s)
           /\ UNCHANGED <<pkt, attempt, eotnaks, rpc, stored, faults, stalls>>
           /\ \/ Head(r2s) = "CAN" /\ spc' = "fail" /\ waiting' = "no" /\ s2r' = s2r
              \/ Head(r2s) = "NAK" /\ spc' = "eot2" /\ waiting' = "yes" /\ s2r' = Append(s2r, Y!Eot)
              \/ Head(r2s) = "ACK" /\ spc' = "eotprompt" /\ waiting' = "no" /\ s2r' = s2r
              \/ Head(r2s) = "C" /\ spc' = "final" /\ waiting' = "no" /\ s2r' = s2r
<1>1. /\ spc = "eot" /\ waiting = "yes" /\ r2s # <<>> /\ r2s' = Tail(r2s)
      /\ UNCHANGED <<pkt, attempt, eotnaks, rpc, stored, faults, stalls>>
  BY Zenon DEF Y!RecvEot, Y!receiver
<1>2. Head(r2s) \in {"C", "ACK", "NAK", "CAN"}
  BY <1>1, ControlTaken, Zenon DEF SendTypeOK, LineOK, Controls
<1>3. PICK h : h = Head(r2s)
  BY Zenon
<1>4. /\ waiting' = (IF h = "NAK" THEN "yes" ELSE "no")
      /\ s2r' = (IF h = "NAK" THEN Append(s2r, Y!Eot) ELSE s2r)
      /\ spc' = [CAN |-> "fail", NAK |-> "eot2", ACK |-> "eotprompt", C |-> "final"][h]
  BY <1>3, Zenon DEF Y!RecvEot
<1>5. /\ h = "CAN" => spc' = "fail"
      /\ h = "NAK" => spc' = "eot2"
      /\ h = "ACK" => spc' = "eotprompt"
      /\ h = "C" => spc' = "final"
  BY <1>4, SMT
<1>6. "CAN" # "NAK" /\ "ACK" # "NAK" /\ "C" # "NAK"
  BY Zenon
<1> QED
  BY <1>1, <1>2, <1>3, <1>4, <1>5, <1>6, Zenon

\* What the receiver does with a packet it answers.
Header(p) == p.kind = "HEADER" /\ rpc' = "data" /\ stored' = stored /\ rpc \in {"header", "data"}
             /\ (rpc = "data" => stored = <<>>)
Stores(p) ==
    /\ p.kind = "DATA" /\ rpc = "data" /\ rpc' = "data"
    /\ p.seq = (Len(stored) + 1) % Modulus /\ stored' = Append(stored, p.content)
Repeats(p) ==
    /\ p.kind = "DATA" /\ rpc = "data" /\ rpc' = "data"
    /\ p.seq = Len(stored) % Modulus /\ stored # <<>> /\ stored' = stored
Ends(p) == p.kind = "EOT" /\ rpc \in {"data", "eot"} /\ rpc' \in {"eot", "last"} /\ stored' = stored
Closes(p) == p.kind = "EMPTY" /\ rpc = "last" /\ rpc' = "done" /\ stored' = stored
Refuses(p) ==
    /\ rpc' = rpc /\ stored' = stored
    /\ \/ p.kind = "BAD"
       \/ /\ p.kind = "DATA" /\ rpc = "data" /\ p.seq # (Len(stored) + 1) % Modulus
          /\ p.seq # Len(stored) % Modulus \/ stored = <<>>

LEMMA ReceiveFacts ==
    ASSUME Y!Receive
    PROVE  /\ s2r # <<>> /\ s2r' = Tail(s2r) /\ rpc \notin {"done", "gone"}
           /\ UNCHANGED <<spc, waiting, pkt, attempt, faults, stalls>>
           /\ \E b \in Answers :
                /\ r2s' = r2s \o b
                /\ \/ Header(Head(s2r)) \/ Stores(Head(s2r)) \/ Repeats(Head(s2r))
                   \/ Ends(Head(s2r)) \/ Closes(Head(s2r))
                   \/ (Refuses(Head(s2r)) /\ b = <<"NAK">>)
<1>1. /\ s2r # <<>> /\ s2r' = Tail(s2r) /\ rpc \notin {"done", "gone"}
      /\ UNCHANGED <<spc, waiting, pkt, attempt, faults, stalls>>
  BY Zenon DEF Y!Receive, Y!sender
<1>2. PICK p : p = Head(s2r)
  BY Zenon
<1>3. PICK x \in Answers : x = <<"ACK", "C">>
  BY Zenon DEF Answers
<1>4. PICK y \in Answers : y = <<"ACK">>
  BY Zenon DEF Answers
<1>5. PICK z \in Answers : z = <<"NAK">>
  BY Zenon DEF Answers
<1>6. PICK e \in {"data", "eot"} : e = IF eotnaks = "yes" THEN "eot" ELSE "data"
  BY Zenon
<1>7. \/ /\ rpc = "header" /\ p.kind = "HEADER"
         /\ rpc' = "data" /\ stored' = stored /\ r2s' = r2s \o x
      \/ /\ rpc = "data" /\ p.kind = "HEADER" /\ stored = <<>>
         /\ rpc' = rpc /\ stored' = stored /\ r2s' = r2s \o x
      \/ /\ rpc = "data" /\ p.kind = "DATA" /\ p.seq = (Len(stored) + 1) % Modulus
         /\ rpc' = rpc /\ stored' = Append(stored, p.content) /\ r2s' = r2s \o y
      \/ /\ rpc = "data" /\ p.kind = "DATA" /\ p.seq = Len(stored) % Modulus /\ stored # <<>>
         /\ rpc' = rpc /\ stored' = stored /\ r2s' = r2s \o y
      \/ /\ rpc = "data" /\ p.kind = "EOT"
         /\ rpc' = "eot" /\ stored' = stored /\ r2s' = r2s \o z
      \/ /\ rpc = e /\ p.kind = "EOT"
         /\ rpc' = "last" /\ stored' = stored /\ r2s' = r2s \o x
      \/ /\ rpc = "last" /\ p.kind = "EMPTY"
         /\ rpc' = "done" /\ stored' = stored /\ r2s' = r2s \o y
      \/ /\ \/ p.kind = "BAD"
            \/ /\ rpc = "data" /\ p.kind = "DATA" /\ p.seq # (Len(stored) + 1) % Modulus
               /\ p.seq # Len(stored) % Modulus \/ stored = <<>>
         /\ rpc' = rpc /\ stored' = stored /\ r2s' = r2s \o z
  BY <1>2, <1>3, <1>4, <1>5, <1>6, ZenonT(40) DEF Y!Receive, Y!Answer, Y!receiver, Y!Expected, Y!Previous
<1>8. \E b \in Answers :
        /\ r2s' = r2s \o b
        /\ \/ Header(p) \/ Stores(p) \/ Repeats(p) \/ Ends(p) \/ Closes(p)
           \/ (Refuses(p) /\ b = <<"NAK">>)
  BY <1>5, <1>7, Zenon DEF Header, Stores, Repeats, Ends, Closes, Refuses
<1> QED
  BY <1>1, <1>2, <1>8, Zenon

\* The steps of both programs and of the line keep the types.
LEMMA SendStepTypes ==
    ASSUME SendTypeOK, Y!SenderStep \/ Y!SendStalls
    PROVE  SendTypeOK'
<1>1. LineOK /\ SenderOK /\ ReceiverOK
  BY Zenon DEF SendTypeOK
<1>2. ASeq(r2s) /\ \A i \in 1..Len(r2s) : r2s[i] \in Controls
  BY <1>1, Zenon DEF LineOK
<1>3. ASSUME r2s' = <<>> PROVE ASeq(r2s') /\ \A i \in 1..Len(r2s') : r2s'[i] \in Controls
  BY <1>3, NoControls, Zenon
<1>4. ASSUME r2s # <<>>, r2s' = Tail(r2s)
      PROVE  ASeq(r2s') /\ \A i \in 1..Len(r2s') : r2s'[i] \in Controls
  BY <1>2, <1>4, ControlTaken, Zenon
<1>5. CASE Y!SendPacket
  <2>1. /\ spc \in {"header", "data", "final"} /\ r2s' = <<>> /\ s2r' = Append(s2r, Y!Current)
        /\ waiting' = "yes" /\ UNCHANGED <<spc, pkt, rpc, stored, faults, stalls>>
    BY <1>5, Zenon DEF Y!SendPacket, Y!InSendPacket, Y!receiver
  <2>2. ASeq(s2r') /\ \A i \in 1..Len(s2r') : IsPacket(s2r'[i])
    BY <2>1, CurrentIsPacket, PacketAdded, Zenon
  <2> QED
    BY <1>1, <1>3, <2>1, <2>2, Zenon DEF SendTypeOK, LineOK, SenderOK, ReceiverOK
<1>6. CASE Y!SendStalls
  <2>1. PICK p : p = IF spc = "eot" THEN Y!Eot ELSE Y!Current
    BY Zenon
  <2>2. /\ spc \in {"header", "data", "final", "eot"} /\ r2s' = <<>> /\ s2r' = Append(s2r, p)
        /\ spc' \in {spc, "fail"} /\ stalls' = stalls + 1
        /\ UNCHANGED <<waiting, pkt, rpc, stored, faults>>
    BY <1>6, <2>1, Zenon DEF Y!SendStalls, Y!InSendPacket, Y!receiver, Y!Stall
  <2>3. IsPacket(p)
    BY <2>1, <2>2, CurrentIsPacket, Zenon
  <2>4. ASeq(s2r') /\ \A i \in 1..Len(s2r') : IsPacket(s2r'[i])
    BY <2>2, <2>3, PacketAdded, Zenon
  <2>5. stalls' \in Nat
    <3>1. \A n \in Nat : n + 1 \in Nat
      BY SMT
    <3> QED
      BY <1>1, <2>2, <3>1, Zenon DEF ReceiverOK
  <2> QED
    BY <1>1, <1>3, <2>2, <2>4, <2>5, Zenon DEF SendTypeOK, LineOK, SenderOK, ReceiverOK
<1>7. CASE Y!RecvAnswer
  <2>1. /\ spc \in {"header", "data", "final"} /\ r2s # <<>> /\ r2s' = Tail(r2s) /\ waiting' = "no"
        /\ Y!Advance \/ (spc' = "fail" /\ pkt' = pkt) \/ Y!Again
        /\ UNCHANGED <<s2r, rpc, stored, faults, stalls>>
    BY <1>7, Zenon DEF Y!RecvAnswer, Y!InSendPacket, Y!receiver
  <2>2. LineOK' /\ ReceiverOK'
    BY <1>1, <1>4, <2>1, Zenon DEF LineOK, ReceiverOK
  <2>3. \A n \in 1..Packets : n \in Nat
    BY LinksAssumption, SMT
  <2>4. SenderOK'
    BY <1>1, <2>1, <2>3, AdvanceFacts, AgainFacts, Zenon DEF SenderOK
  <2> QED
    BY <2>2, <2>4, Zenon DEF SendTypeOK
<1>8. CASE Y!RecvPrompt
  <2>1. LineOK' /\ ReceiverOK'
    BY <1>1, <1>4, <1>8, PromptFacts, Zenon DEF LineOK, ReceiverOK
  <2>2. Packets # 0 => 1 \in 1..Packets /\ 1 \in Nat
    BY LinksAssumption, SMT
  <2>3. SenderOK'
    BY <1>1, <1>8, <2>2, PromptFacts, Zenon DEF SenderOK
  <2> QED
    BY <2>1, <2>3, Zenon DEF SendTypeOK
<1>9. CASE Y!SendEot
  <2>1. /\ spc = "eot" /\ r2s' = <<>> /\ s2r' = Append(s2r, Y!Eot)
        /\ waiting' = "yes" /\ UNCHANGED <<spc, pkt, rpc, stored, faults, stalls>>
    BY <1>9, Zenon DEF Y!SendEot, Y!receiver
  <2>2. ASeq(s2r') /\ \A i \in 1..Len(s2r') : IsPacket(s2r'[i])
    BY <2>1, CurrentIsPacket, PacketAdded, Zenon
  <2> QED
    BY <1>1, <1>3, <2>1, <2>2, Zenon DEF SendTypeOK, LineOK, SenderOK, ReceiverOK
<1>10. CASE Y!RecvEot
  <2>1. s2r' = Append(s2r, Y!Eot) => ASeq(s2r') /\ \A i \in 1..Len(s2r') : IsPacket(s2r'[i])
    BY CurrentIsPacket, PacketAdded, Zenon
  <2>2. LineOK'
    BY <1>1, <1>4, <1>10, <2>1, EotFacts, Zenon DEF LineOK
  <2>3. SenderOK' /\ ReceiverOK'
    BY <1>1, <1>10, EotFacts, Zenon DEF SenderOK, ReceiverOK
  <2> QED
    BY <2>2, <2>3, Zenon DEF SendTypeOK
<1>11. CASE Y!RecvEot2
  <2>1. /\ r2s # <<>> /\ r2s' = Tail(r2s) /\ waiting' = "no" /\ spc' \in {"eotprompt", "fail"}
        /\ UNCHANGED <<s2r, pkt, rpc, stored, faults, stalls>>
    BY <1>11, Zenon DEF Y!RecvEot2, Y!receiver
  <2> QED
    BY <1>1, <1>4, <2>1, Zenon DEF SendTypeOK, LineOK, SenderOK, ReceiverOK
<1>12. CASE Y!SenderTimeout
  <2>1. /\ waiting' = "no" /\ (Y!Again \/ (spc' = "fail" /\ pkt' = pkt))
        /\ UNCHANGED <<s2r, r2s, rpc, stored, faults, stalls>>
    BY <1>12, Zenon DEF Y!SenderTimeout, Y!receiver
  <2>2. LineOK' /\ ReceiverOK'
    BY <1>1, <2>1, Zenon DEF LineOK, ReceiverOK
  <2>3. SenderOK'
    BY <1>1, <2>1, AgainFacts, Zenon DEF SenderOK
  <2> QED
    BY <2>2, <2>3, Zenon DEF SendTypeOK
<1> QED
  BY <1>5, <1>6, <1>7, <1>8, <1>9, <1>10, <1>11, <1>12, Zenon DEF Y!SenderStep

LEMMA ReceiveStepTypes ==
    ASSUME SendTypeOK,
           Y!ReceiverStep \/ Y!Prompt \/ Y!Cancel \/ Y!Damage \/ Y!LosePacket \/ Y!LoseControl
    PROVE  SendTypeOK'
<1>1. LineOK /\ SenderOK /\ ReceiverOK
  BY Zenon DEF SendTypeOK
<1>2. ASeq(r2s) /\ (\A i \in 1..Len(r2s) : r2s[i] \in Controls) /\ ASeq(stored)
  BY <1>1, Zenon DEF LineOK, ReceiverOK
<1>3. ASSUME NEW b \in Answers, r2s' = r2s \o b
      PROVE  ASeq(r2s') /\ \A i \in 1..Len(r2s') : r2s'[i] \in Controls
  BY <1>2, <1>3, AnswerJoins, Zenon
<1>4. ASSUME s2r # <<>>, s2r' = Tail(s2r)
      PROVE  ASeq(s2r') /\ \A i \in 1..Len(s2r') : IsPacket(s2r'[i])
  BY <1>4, PacketTaken, Zenon
<1>5. /\ faults \in Nat /\ stalls \in Nat /\ faults + 1 \in Nat /\ stalls + 1 \in Nat
  <2>1. \A n \in Nat : n + 1 \in Nat
    BY SMT
  <2> QED
    BY <1>1, <2>1, Zenon DEF ReceiverOK
<1>6. CASE Y!Receive
  <2>1. /\ s2r # <<>> /\ s2r' = Tail(s2r)
        /\ UNCHANGED <<spc, waiting, pkt, faults, stalls>>
    BY <1>6, ReceiveFacts, Zenon
  <2>2. PICK b \in Answers :
          /\ r2s' = r2s \o b
          /\ \/ Header(Head(s2r)) \/ Stores(Head(s2r)) \/ Repeats(Head(s2r))
             \/ Ends(Head(s2r)) \/ Closes(Head(s2r)) \/ Refuses(Head(s2r))
    BY <1>6, ReceiveFacts, Zenon
  <2>3. LineOK'
    BY <1>3, <1>4, <2>1, <2>2, Zenon DEF LineOK
  <2>4. \A x : ASeq(Append(stored, x))
    BY <1>2, AppendSeq, Zenon DEF Grown
  <2>5. ReceiverOK'
    BY <1>1, <2>1, <2>2, <2>4, Zenon DEF ReceiverOK, Header, Stores, Repeats, Ends, Closes, Refuses
  <2>6. SenderOK'
    BY <1>1, <2>1, Zenon DEF SenderOK
  <2> QED
    BY <2>3, <2>5, <2>6, Zenon DEF SendTypeOK
<1>7. CASE Y!Ignore \/ Y!LosePacket
  <2>1. /\ s2r # <<>> /\ s2r' = Tail(s2r) /\ faults' \in {faults, faults + 1}
        /\ UNCHANGED <<spc, waiting, pkt, rpc, stored, r2s, stalls>>
    BY <1>7, Zenon DEF Y!Ignore, Y!LosePacket, Y!Fault, Y!sender, Y!receiver
  <2> QED
    BY <1>1, <1>4, <1>5, <2>1, Zenon DEF SendTypeOK, LineOK, SenderOK, ReceiverOK
<1>8. CASE Y!Prompt \/ Y!Cancel
  <2>1. PICK b \in Answers : r2s' = r2s \o b
    BY <1>8, Zenon DEF Y!Prompt, Y!Cancel, Y!Answer, Answers
  <2>2. /\ faults' \in {faults, faults + 1} /\ stalls' \in {stalls, stalls + 1} /\ rpc' \in {rpc, "gone"}
        /\ UNCHANGED <<spc, waiting, pkt, stored, s2r>>
    BY <1>8, Zenon DEF Y!Prompt, Y!Cancel, Y!Fault, Y!Stall, Y!sender, Y!receiver
  <2>3. LineOK'
    BY <1>1, <1>3, <2>1, <2>2, Zenon DEF LineOK
  <2>4. SenderOK' /\ ReceiverOK'
    BY <1>1, <1>5, <2>2, Zenon DEF SenderOK, ReceiverOK
  <2> QED
    BY <2>3, <2>4, Zenon DEF SendTypeOK
<1>9. CASE Y!Damage
  <2>1. /\ s2r # <<>> /\ s2r' = [s2r EXCEPT ![1] = Y!Bad] /\ faults' = faults + 1
        /\ UNCHANGED <<spc, waiting, pkt, rpc, stored, r2s, stalls>>
    BY <1>9, Zenon DEF Y!Damage, Y!Fault, Y!sender, Y!receiver
  <2>2. ASeq(s2r') /\ \A i \in 1..Len(s2r') : IsPacket(s2r'[i])
    BY <2>1, PacketDamaged, Zenon
  <2> QED
    BY <1>1, <1>5, <2>1, <2>2, Zenon DEF SendTypeOK, LineOK, SenderOK, ReceiverOK
<1>10. CASE Y!LoseControl
  <2>1. /\ r2s # <<>> /\ r2s' = Tail(r2s) /\ faults' = faults + 1
        /\ UNCHANGED <<spc, waiting, pkt, rpc, stored, s2r, stalls>>
    BY <1>10, Zenon DEF Y!LoseControl, Y!Fault, Y!sender, Y!receiver
  <2>2. ASeq(r2s') /\ \A i \in 1..Len(r2s') : r2s'[i] \in Controls
    BY <1>2, <2>1, ControlTaken, Zenon
  <2> QED
    BY <1>1, <1>5, <2>1, <2>2, Zenon DEF SendTypeOK, LineOK, SenderOK, ReceiverOK
<1> QED
  BY <1>6, <1>7, <1>8, <1>9, <1>10, Zenon DEF Y!ReceiverStep

(***************************************************************************)
(* YMODEM: no drain stalls.                                                *)
(***************************************************************************)
LEMMA WhereData ==
    ASSUME SendTypeOK
    PROVE  /\ (spc = "data" => SenderAt = pkt /\ pkt \in 1..Packets)
           /\ (SenderAt \in 1..Packets => spc = "data")
           /\ (spc = "data" => SenderAt # 0 /\ SenderAt # Packets + 1 /\ SenderAt # Packets + 2)
<1>1. /\ 0 \notin 1..Packets /\ Packets + 1 \notin 1..Packets /\ Packets + 2 \notin 1..Packets
      /\ \A n \in 1..Packets : n # 0 /\ n # Packets + 1 /\ n # Packets + 2
  BY LinksAssumption, SMT
<1>2. spc = "data" => SenderAt = pkt /\ pkt \in 1..Packets
  BY Zenon DEF SenderAt, SendTypeOK, SenderOK
<1>3. spc # "data" => SenderAt \in {0, Packets + 1, Packets + 2}
  BY Zenon DEF SenderAt
<1> QED
  BY <1>1, <1>2, <1>3, Zenon

\* The receiver tells the packet it has from the one it wants.
LEMMA Tells ==
    ASSUME NEW n \in Nat, NEW k \in Nat
    PROVE  /\ (n = k - 1 \/ n = k) /\ k % Modulus = (n + 1) % Modulus => n = k - 1
           /\ (n = k - 1 \/ n = k) /\ k % Modulus = n % Modulus => n = k
<1>1. Modulus \in Nat \ {0, 1}
  BY LinksAssumption, Zenon
<1>2. n % Modulus # (n + 1) % Modulus
  BY <1>1, NextDiffers, Zenon
<1>3. n = k - 1 => k = n + 1
  BY SMT
<1>4. n = k - 1 => k % Modulus # n % Modulus
  BY <1>2, <1>3, Zenon
<1>5. n = k => k % Modulus # (n + 1) % Modulus
  BY <1>2, Zenon
<1> QED
  BY <1>4, <1>5, Zenon

\* The one packet under way is answered.
LEMMA OneReceived ==
    ASSUME SendTypeOK, OneAtATime, Y!Receive
    PROVE  OneAtATime'
<1>1. /\ s2r # <<>> /\ s2r' = Tail(s2r) /\ UNCHANGED <<spc, waiting, pkt>>
  BY ReceiveFacts, Zenon
<1>2. PICK b \in Answers :
        /\ r2s' = r2s \o b
        /\ \/ Header(Head(s2r)) \/ Stores(Head(s2r)) \/ Repeats(Head(s2r))
           \/ Ends(Head(s2r)) \/ Closes(Head(s2r)) \/ (Refuses(Head(s2r)) /\ b = <<"NAK">>)
  BY ReceiveFacts, Zenon
<1>3. PICK p : p = Head(s2r)
  BY Zenon
<1>4. 1 \in 1..Len(s2r) /\ p = s2r[1] /\ (Len(s2r) = 1 => s2r' = <<>>)
  BY <1>1, <1>3, PacketTaken, Zenon
<1>5. s2r' = <<>>
  <2>1. Len(s2r) \in Nat
    BY LenNat, Zenon DEF SendTypeOK, LineOK
  <2> QED
    BY <1>4, <2>1, OneLong, Zenon DEF OneAtATime
<1>6. p \in {PacketAt(SenderAt), Y!Bad} /\ AllCan(r2s)
  BY <1>1, <1>4, Zenon DEF OneAtATime
<1>7. ASeq(r2s) /\ ASeq(stored) /\ Len(stored) \in Nat
  BY LenNat, Zenon DEF SendTypeOK, LineOK, ReceiverOK
<1>8. NakLast(r2s') /\ (HasAck(r2s') => HasAck(b))
  <2>1. ~HasAck(r2s)
    BY <1>6, Zenon DEF AllCan, HasAck
  <2> QED
    BY <1>2, <1>6, <1>7, <2>1, AnswerJoins, Zenon
<1>9. \/ stored' = stored /\ ~(spc = "data" /\ HasAck(b))
      \/ stored' = stored /\ spc = "data" /\ Len(stored) = pkt
      \/ stored' = Append(stored, pkt) /\ spc = "data" /\ Len(stored) = pkt - 1
  <2>1. CASE p = Y!Bad
    <3>1. p.kind = "BAD"
      BY <2>1, Zenon DEF Y!Bad
    <3> QED
      BY <1>2, <1>3, <3>1, AnswerSeq, Zenon DEF Header, Stores, Repeats, Ends, Closes, Refuses
  <2>2. CASE p = PacketAt(SenderAt)
    <3>1. IsAt(p, SenderAt)
      BY <2>2, PacketFacts, SenderFacts, Zenon
    <3>2. p.kind = "DATA" => /\ spc = "data" /\ pkt \in Nat /\ p.content = pkt /\ p.seq = pkt % Modulus
                             /\ Len(stored) = pkt - 1 \/ Len(stored) = pkt
      BY <3>1, WhereData, Zenon DEF IsAt, OneAtATime, SendTypeOK, SenderOK
    <3>3. CASE Stores(p)
      BY <1>7, <3>2, <3>3, Tells, Zenon DEF Stores
    <3>4. CASE Repeats(p)
      BY <1>7, <3>2, <3>4, Tells, Zenon DEF Repeats
    <3>5. CASE Header(p) \/ Ends(p) \/ Closes(p)
      BY <3>1, <3>5, WhereData, Zenon DEF IsAt, Header, Ends, Closes
    <3>6. CASE Refuses(p) /\ b = <<"NAK">>
      BY <3>6, AnswerSeq, Zenon DEF Refuses
    <3> QED
      BY <1>2, <1>3, <3>3, <3>4, <3>5, <3>6, Zenon
  <2> QED
    BY <1>6, <2>1, <2>2, Zenon
<1>10. CASE stored' = stored
  <2>1. Len(s2r') <= 1 /\ \A i \in 1..Len(s2r') : FALSE
    <3>1. Len(s2r') = 0 /\ 1..0 = {} /\ 0 <= 1
      BY <1>5, EmptySeq, SMT
    <3> QED
      BY <3>1, Zenon
  <2>2. spc = "data" => (waiting = "yes" /\ HasAck(r2s') => Len(stored') = pkt)
    <3>1. pkt \in Nat
      BY Zenon DEF SendTypeOK, SenderOK
    <3>2. ASSUME stored' = Append(stored, pkt), Len(stored) = pkt - 1
          PROVE  Len(stored') = pkt
      <4>1. Len(stored') = Len(stored) + 1
        BY <1>7, <3>2, AppendSeq, Zenon DEF Grown
      <4>2. \A n \in Nat : (n - 1) + 1 = n
        BY SMT
      <4> QED
        BY <3>1, <3>2, <4>1, <4>2, Zenon
    <3> QED
      BY <1>8, <1>9, <1>10, <3>2, Zenon
  <2> QED
    BY <1>1, <1>5, <1>8, <1>10, <2>1, <2>2, Zenon DEF OneAtATime, InPlace
<1>11. CASE stored' = Append(stored, pkt) /\ spc = "data" /\ Len(stored) = pkt - 1
  <2>1. Grown(stored', stored, pkt)
    BY <1>7, <1>11, AppendSeq, Zenon
  <2>2. pkt \in Nat /\ (pkt - 1) + 1 = pkt
    <3>1. \A n \in Nat : (n - 1) + 1 = n
      BY SMT
    <3> QED
      BY <3>1, Zenon DEF SendTypeOK, SenderOK
  <2>3. Len(stored') = pkt /\ stored'[pkt] = pkt /\ \A i \in 1..Len(stored) : stored'[i] = stored[i]
    BY <1>11, <2>1, <2>2, Zenon DEF Grown
  <2>4. \A i \in 1..pkt : i \in 1..(pkt - 1) \/ i = pkt
    BY <2>2, SMT
  <2>5. InPlace'
    BY <1>11, <2>3, <2>4, Zenon DEF OneAtATime, InPlace
  <2>6. Len(s2r') <= 1 /\ \A i \in 1..Len(s2r') : FALSE
    <3>1. Len(s2r') = 0 /\ 1..0 = {} /\ 0 <= 1
      BY <1>5, EmptySeq, SMT
    <3> QED
      BY <3>1, Zenon
  <2> QED
    BY <1>1, <1>5, <1>8, <1>11, <2>3, <2>5, <2>6, Zenon DEF OneAtATime
<1> QED
  BY <1>9, <1>10, <1>11, Zenon

\* The line and the receiver otherwise.
LEMMA OneDisturbed ==
    ASSUME SendTypeOK, OneAtATime, stalls = 0, stalls' = 0,
           Y!Ignore \/ Y!Prompt \/ Y!Cancel \/ Y!Damage \/ Y!LosePacket \/ Y!LoseControl
    PROVE  OneAtATime'
<1>1. ASeq(s2r) /\ Len(s2r) \in Nat /\ ASeq(r2s)
  BY LenNat, Zenon DEF SendTypeOK, LineOK
<1>2. UNCHANGED <<spc, waiting, pkt, stored>>
  BY Zenon DEF Y!Ignore, Y!Prompt, Y!Cancel, Y!Damage, Y!LosePacket, Y!LoseControl, Y!sender,
     Y!receiver
<1>3. ASSUME /\ Len(s2r') <= 1 /\ (s2r = <<>> => s2r' = <<>>)
             /\ \A i \in 1..Len(s2r') : s2r'[i] \in {PacketAt(SenderAt), Y!Bad},
             /\ s2r' # <<>> => AllCan(r2s')
             /\ NakLast(r2s') /\ (HasAck(r2s') => HasAck(r2s))
      PROVE  OneAtATime'
  <2>1. SenderAt' = SenderAt
    BY <1>2, Zenon DEF SenderAt
  <2>2. \A i \in 1..Len(s2r') : s2r'[i] \in {PacketAt(SenderAt'), Y!Bad}
    BY <1>3, <2>1, Zenon
  <2>3. \A i \in 1..Len(s2r') : s2r'[i] \in {PacketAt(SenderAt)', Y!Bad}
    BY <2>2, Zenon DEF PacketAt
  <2> QED
    BY <1>2, <1>3, <2>3, Zenon DEF OneAtATime, InPlace
<1>4. CASE Y!Ignore \/ Y!LosePacket
  <2>1. s2r # <<>> /\ s2r' = Tail(s2r) /\ r2s' = r2s
    BY <1>4, Zenon DEF Y!Ignore, Y!LosePacket
  <2>2. s2r' = <<>>
    BY <1>1, <2>1, PacketTaken, OneLong, Zenon DEF OneAtATime
  <2>3. Len(s2r') = 0 /\ 1..0 = {} /\ 0 <= 1
    BY <2>2, EmptySeq, SMT
  <2> QED
    BY <1>3, <2>1, <2>2, <2>3, Zenon DEF OneAtATime
<1>5. CASE Y!Prompt
  <2>1. r2s = <<>> /\ (s2r = <<>> \/ stalls' = stalls + 1) /\ r2s' = r2s \o <<"C">> /\ s2r' = s2r
    BY <1>5, Zenon DEF Y!Prompt, Y!Answer, Y!Stall
  <2>2. s2r = <<>>
    <3>1. 0 # 0 + 1
      BY SMT
    <3> QED
      BY <2>1, <3>1, Zenon
  <2>3. PICK b \in Answers : b = <<"C">>
    BY Zenon DEF Answers
  <2>4. AllCan(r2s)
    BY <2>1, EmptySeq, Zenon DEF AllCan
  <2>5. NakLast(r2s') /\ (HasAck(r2s') => HasAck(r2s))
    BY <1>1, <2>1, <2>3, <2>4, AnswerJoins, AnswerSeq, Zenon
  <2> QED
    BY <1>3, <2>1, <2>2, <2>5, Zenon DEF OneAtATime
<1>6. CASE Y!Cancel
  <2>1. r2s' = r2s \o <<"CAN">> /\ s2r' = s2r
    BY <1>6, Zenon DEF Y!Cancel, Y!Answer
  <2>2. PICK b \in Answers : b = <<"CAN">>
    BY Zenon DEF Answers
  <2>3. /\ NakLast(r2s') /\ (AllCan(r2s) => AllCan(r2s')) /\ (HasAck(r2s') => HasAck(r2s))
    BY <1>1, <2>1, <2>2, AnswerJoins, AnswerSeq, Zenon DEF OneAtATime
  <2> QED
    BY <1>3, <2>1, <2>3, Zenon DEF OneAtATime
<1>7. CASE Y!Damage
  <2>1. s2r # <<>> /\ s2r' = [s2r EXCEPT ![1] = Y!Bad] /\ r2s' = r2s
    BY <1>7, Zenon DEF Y!Damage
  <2>2. Len(s2r') = Len(s2r) /\ \A i \in 1..Len(s2r') : s2r'[i] \in {s2r[i], Y!Bad}
    BY <2>1, PacketDamaged, Zenon
  <2> QED
    BY <1>3, <2>1, <2>2, Zenon DEF OneAtATime
<1>8. CASE Y!LoseControl
  <2>1. r2s # <<>> /\ r2s' = Tail(r2s) /\ s2r' = s2r
    BY <1>8, Zenon DEF Y!LoseControl
  <2>2. /\ NakLast(r2s') /\ (AllCan(r2s) => AllCan(r2s')) /\ (HasAck(r2s') => HasAck(r2s))
    BY <1>1, <2>1, ControlTaken, Zenon DEF OneAtATime
  <2> QED
    BY <1>3, <2>1, <2>2, Zenon DEF OneAtATime
<1> QED
  BY <1>4, <1>5, <1>6, <1>7, <1>8, Zenon

\* A packet goes out with nothing else under way.
LEMMA OneSent ==
    ASSUME SendTypeOK, OneAtATime, Y!SendPacket \/ Y!SendEot
    PROVE  OneAtATime'
<1>1. /\ waiting = "no" /\ waiting' = "yes" /\ r2s' = <<>> /\ s2r' = Append(s2r, PacketAt(SenderAt))
      /\ UNCHANGED <<spc, pkt, stored>>
  <2>1. CASE Y!SendPacket
    BY <2>1, SenderFacts, Zenon DEF Y!SendPacket, Y!InSendPacket, Y!receiver
  <2>2. CASE Y!SendEot
    BY <2>2, SenderFacts, Zenon DEF Y!SendEot, Y!receiver
  <2> QED
    BY <2>1, <2>2, Zenon
<1>2. s2r = <<>>
  BY <1>1, Zenon DEF OneAtATime
<1>3. PICK p : p = PacketAt(SenderAt)
  BY Zenon
<1>4. s2r' = <<p>>
  <2>1. Append(<<>>, p) = <<p>>
    BY SMT
  <2> QED
    BY <1>1, <1>2, <1>3, <2>1, Zenon
<1>5. Len(s2r') = 1 /\ s2r'[1] = p /\ 1 <= 1 /\ \A i \in 1..1 : i = 1
  <2>1. 1 <= 1 /\ \A i \in 1..1 : i = 1
    BY SMT
  <2> QED
    BY <1>4, <2>1, SingleSeq, Zenon
<1>6. p = PacketAt(SenderAt)'
  BY <1>1, <1>3, Zenon DEF PacketAt, SenderAt
<1>7. \A i \in 1..Len(s2r') : s2r'[i] \in {PacketAt(SenderAt)', Y!Bad}
  BY <1>5, <1>6, Zenon
<1> QED
  BY <1>1, <1>5, <1>7, NoControls, Zenon DEF OneAtATime, InPlace

\* The sender takes an answer, or times out, and moves on.
LEMMA OneMoves ==
    ASSUME SendTypeOK, OneAtATime, spc' # "fail",
           Y!RecvAnswer \/ Y!RecvPrompt \/ Y!RecvEot \/ Y!RecvEot2 \/ Y!SenderTimeout
    PROVE  OneAtATime'
<1>1. ASeq(r2s) /\ ASeq(s2r) /\ ASeq(stored) /\ pkt \in Nat /\ Packets \in Nat
  BY SenderFacts, Zenon DEF SendTypeOK, LineOK, ReceiverOK, SenderOK
<1>2. ASSUME r2s # <<>>, r2s' = Tail(r2s)
      PROVE  /\ NakLast(r2s') /\ (HasAck(r2s') => HasAck(r2s)) /\ (Head(r2s) = "NAK" => AllCan(r2s'))
             /\ (Head(r2s) # "CAN" => s2r = <<>>) /\ (Head(r2s) = "ACK" => HasAck(r2s))
             /\ (AllCan(r2s) => AllCan(r2s'))
  <2>1. /\ NakLast(r2s') /\ (HasAck(r2s') => HasAck(r2s)) /\ (Head(r2s) = "NAK" => AllCan(r2s'))
        /\ Head(r2s) = r2s[1] /\ 1 \in 1..Len(r2s) /\ (AllCan(r2s) => AllCan(r2s'))
    BY <1>1, <1>2, ControlTaken, Zenon DEF OneAtATime
  <2>2. AllCan(r2s) => Head(r2s) = "CAN"
    BY <2>1, Zenon DEF AllCan
  <2>3. Head(r2s) = "ACK" => HasAck(r2s)
    BY <2>1, Zenon DEF HasAck
  <2> QED
    BY <2>1, <2>2, <2>3, Zenon DEF OneAtATime
<1>3. Len(<<>>) <= 1 /\ (\A i \in 1..Len(<<>>) : FALSE) /\ Len(<<>>) = 0
  <2>1. Len(<<>>) = 0 /\ 1..0 = {} /\ 0 <= 1
    BY EmptySeq, SMT
  <2> QED
    BY <2>1, Zenon
<1>4. ASSUME s2r' = <<>>, stored' = stored, NakLast(r2s'),
             spc' \in {"start", "header", "prompt"} => stored = <<>>,
             spc' = "data" =>
               Len(stored) \in {pkt' - 1, pkt'} /\ (waiting' = "yes" /\ HasAck(r2s') => Len(stored) = pkt'),
             spc' \in {"eot", "eot2", "eotprompt", "final", "done"} => Len(stored) = Packets
      PROVE  OneAtATime'
  BY <1>3, <1>4, Zenon DEF OneAtATime, InPlace
<1>5. CASE Y!RecvAnswer
  <2>1. /\ spc \in {"header", "data", "final"} /\ r2s # <<>> /\ r2s' = Tail(r2s)
        /\ waiting = "yes" /\ waiting' = "no" /\ s2r' = s2r /\ stored' = stored
        /\ (Head(r2s) = "ACK" /\ Y!Advance) \/ (Head(r2s) \notin {"ACK", "CAN"} /\ Y!Again)
    BY <1>5, Zenon DEF Y!RecvAnswer, Y!InSendPacket, Y!receiver, Y!AckEnds
  <2>2. s2r' = <<>> /\ NakLast(r2s')
    BY <1>2, <2>1, Zenon
  <2>3. CASE Head(r2s) \notin {"ACK", "CAN"} /\ Y!Again
    BY <1>4, <2>1, <2>2, <2>3, AgainFacts, Zenon DEF OneAtATime
  <2>4. CASE Head(r2s) = "ACK" /\ Y!Advance
    <3>1. spc = "data" => Len(stored) = pkt
      BY <1>2, <2>1, <2>4, Zenon DEF OneAtATime
    <3>2. pkt = (pkt + 1) - 1
      BY <1>1, SMT
    <3>3. \/ spc = "header" /\ spc' = "prompt" /\ pkt' = pkt
          \/ spc = "final" /\ spc' = "done" /\ pkt' = pkt
          \/ spc = "data" /\ spc' = "data" /\ pkt' = pkt + 1
          \/ spc = "data" /\ spc' = "eot" /\ pkt = Packets
      BY <2>1, <2>4, AdvanceFacts, Zenon
    <3> QED
      BY <1>4, <2>1, <2>2, <3>1, <3>2, <3>3, Zenon DEF OneAtATime
  <2> QED
    BY <2>1, <2>3, <2>4, Zenon
<1>6. CASE Y!RecvPrompt
  <2>1. /\ spc \in {"start", "prompt", "eotprompt"} /\ r2s # <<>> /\ r2s' = Tail(r2s)
        /\ UNCHANGED <<waiting, stored, s2r>>
        /\ \/ spc' = spc /\ pkt' = pkt
           \/ /\ Head(r2s) = "C"
              /\ \/ spc = "start" /\ spc' = "header" /\ pkt' = pkt
                 \/ spc = "eotprompt" /\ spc' = "final" /\ pkt' = pkt
                 \/ spc = "prompt" /\ Packets = 0 /\ spc' = "eot" /\ pkt' = pkt
                 \/ spc = "prompt" /\ Packets # 0 /\ spc' = "data" /\ pkt' = 1
    BY <1>6, PromptFacts, Zenon
  <2>2. waiting = "no" /\ s2r = <<>>
    BY <2>1, Zenon DEF SendTypeOK, SenderOK, OneAtATime
  <2>3. 1 - 1 = 0
    BY SMT
  <2>4. spc = "prompt" => Len(stored) = 0
    BY <1>3, Zenon DEF OneAtATime
  <2> QED
    BY <1>2, <1>4, <2>1, <2>2, <2>3, <2>4, Zenon DEF OneAtATime
<1>7. CASE Y!RecvEot
  <2>1. /\ spc = "eot" /\ waiting = "yes" /\ r2s # <<>> /\ r2s' = Tail(r2s)
        /\ UNCHANGED <<pkt, stored>>
        /\ \/ Head(r2s) = "NAK" /\ spc' = "eot2" /\ waiting' = "yes" /\ s2r' = Append(s2r, Y!Eot)
           \/ Head(r2s) = "ACK" /\ spc' = "eotprompt" /\ waiting' = "no" /\ s2r' = s2r
           \/ Head(r2s) = "C" /\ spc' = "final" /\ waiting' = "no" /\ s2r' = s2r
    BY <1>7, EotFacts, Zenon
  <2>2. s2r = <<>> /\ NakLast(r2s') /\ Len(stored) = Packets
    BY <1>2, <2>1, Zenon DEF OneAtATime
  <2>3. CASE Head(r2s) # "NAK"
    BY <1>4, <2>1, <2>2, <2>3, Zenon
  <2>4. CASE Head(r2s) = "NAK"
    <3>1. AllCan(r2s') /\ spc' = "eot2" /\ waiting' = "yes" /\ s2r' = Append(s2r, Y!Eot)
      BY <1>2, <2>1, <2>4, Zenon
    <3>2. PICK p : p = Y!Eot
      BY Zenon
    <3>3. s2r' = <<p>>
      <4>1. Append(<<>>, p) = <<p>>
        BY SMT
      <4> QED
        BY <2>2, <3>1, <3>2, <4>1, Zenon
    <3>4. Len(s2r') = 1 /\ s2r'[1] = p /\ 1 <= 1 /\ \A i \in 1..1 : i = 1
      <4>1. 1 <= 1 /\ \A i \in 1..1 : i = 1
        BY SMT
      <4> QED
        BY <3>3, <4>1, SingleSeq, Zenon
    <3>5. p = PacketAt(SenderAt)'
      <4>1. p = PacketAt(SenderAt) /\ SenderAt = Packets + 1
        BY <2>1, <3>2, SenderFacts, Zenon DEF SenderAt
      <4>2. SenderAt' = Packets + 1
        BY <3>1, Zenon DEF SenderAt
      <4> QED
        BY <4>1, <4>2, Zenon DEF PacketAt
    <3>6. \A i \in 1..Len(s2r') : s2r'[i] \in {PacketAt(SenderAt)', Y!Bad}
      BY <3>4, <3>5, Zenon
    <3> QED
      BY <2>1, <2>2, <3>1, <3>4, <3>6, Zenon DEF OneAtATime, InPlace
  <2> QED
    BY <2>3, <2>4, Zenon
<1>8. CASE Y!RecvEot2
  <2>1. /\ spc = "eot2" /\ r2s # <<>> /\ r2s' = Tail(r2s) /\ waiting' = "no"
        /\ spc' = "eotprompt" /\ Head(r2s) = "ACK" /\ UNCHANGED <<s2r, stored>>
    BY <1>8, Zenon DEF Y!RecvEot2, Y!receiver
  <2> QED
    BY <1>2, <1>4, <2>1, Zenon DEF OneAtATime
<1>9. CASE Y!SenderTimeout
  <2>1. /\ s2r = <<>> /\ s2r' = s2r /\ r2s' = r2s /\ waiting' = "no" /\ stored' = stored
        /\ Y!Again
    BY <1>9, Zenon DEF Y!SenderTimeout, Y!receiver
  <2> QED
    BY <1>4, <2>1, AgainFacts, Zenon DEF OneAtATime
<1> QED
  BY <1>5, <1>6, <1>7, <1>8, <1>9, Zenon

(***************************************************************************)
(* YMODEM: nothing is damaged or lost.                                     *)
(***************************************************************************)
\* A packet goes out behind the others, or is read from the front.
LEMMA ChainGrows ==
    ASSUME ASeq(s2r), Chain, NEW p, s2r' = Append(s2r, p), Follows(LastAt, Place(p)),
           UNCHANGED <<rpc, stored>>
    PROVE  Chain' /\ LastAt' = Place(p)
<1>1. Grown(s2r', s2r, p) /\ s2r' # <<>>
  BY AppendSeq, Zenon
<1>2. Len(s2r) \in Nat /\ Len(s2r') = Len(s2r) + 1 /\ s2r'[Len(s2r) + 1] = p
      /\ \A i \in 1..Len(s2r) : s2r'[i] = s2r[i]
  BY <1>1, LenNat, Zenon DEF Grown
<1>3. s2r'[Len(s2r')] = p /\ ReceiverAt' = ReceiverAt
  BY <1>2, Zenon DEF ReceiverAt
<1>4. LastAt' = Place(p)
  BY <1>1, <1>3, Zenon DEF LastAt, Place
<1>5. Follows(ReceiverAt, Place(s2r'[1]))
  <2>1. CASE s2r = <<>>
    <3>1. s2r'[1] = p
      <4>1. Len(s2r) + 1 = 1
        BY <2>1, EmptySeq, SMT
      <4> QED
        BY <1>2, <4>1, Zenon
    <3> QED
      BY <2>1, <3>1, Zenon DEF LastAt
  <2>2. CASE s2r # <<>>
    <3>1. s2r'[1] = s2r[1]
      <4>1. 1 \in 1..Len(s2r)
        BY <2>2, TailSeq, Zenon
      <4> QED
        BY <1>2, <4>1, Zenon
    <3> QED
      BY <2>2, <3>1, Zenon DEF Chain
  <2> QED
    BY <2>1, <2>2, Zenon
<1>6. ASSUME NEW i \in 1..Len(s2r'), NEW k \in 1..Len(s2r'), k = i + 1
      PROVE  Follows(Place(s2r'[i]), Place(s2r'[k]))
  <2>1. i \in 1..Len(s2r) /\ (k \in 1..Len(s2r) \/ (k = Len(s2r) + 1 /\ i = Len(s2r)))
    BY <1>2, <1>6, SMT
  <2>2. CASE k \in 1..Len(s2r)
    BY <1>2, <1>6, <2>1, <2>2, Zenon DEF Chain
  <2>3. CASE k = Len(s2r) + 1 /\ i = Len(s2r)
    <3>1. s2r # <<>>
      <4>1. Len(s2r) # 0
        BY <1>2, <2>1, SMT
      <4> QED
        BY <4>1, EmptySeq, Zenon
    <3>2. LastAt = Place(s2r[i])
      BY <2>3, <3>1, Zenon DEF LastAt
    <3> QED
      BY <1>2, <2>1, <2>3, <3>2, Zenon
  <2> QED
    BY <2>1, <2>2, <2>3, Zenon
<1>7. Chain'
  BY <1>3, <1>5, <1>6, Zenon DEF Chain, Follows, Place
<1> QED
  BY <1>4, <1>7, Zenon

LEMMA ChainRead ==
    ASSUME ASeq(s2r), Chain, s2r # <<>>, s2r' = Tail(s2r), ReceiverAt' = Place(s2r[1])
    PROVE  Chain' /\ LastAt' = LastAt
<1>1. Rest(s2r', s2r) /\ 1 \in 1..Len(s2r)
  BY TailSeq, Zenon
<1>2. /\ Len(s2r) \in Nat /\ Len(s2r') \in Nat /\ Len(s2r') = Len(s2r) - 1 /\ ASeq(s2r')
      /\ \A i \in 1..Len(s2r') : i + 1 \in 1..Len(s2r) /\ s2r'[i] = s2r[i + 1]
  BY <1>1, LenNat, Zenon DEF Rest
<1>3. ASSUME s2r' # <<>>
      PROVE  /\ Follows(ReceiverAt', Place(s2r'[1]))
             /\ s2r'[Len(s2r')] = s2r[Len(s2r)]
  <2>1. 1 \in 1..Len(s2r') /\ Len(s2r') \in 1..Len(s2r') /\ Len(s2r') + 1 = Len(s2r)
    <3>1. Len(s2r') # 0
      BY <1>2, <1>3, LenNat, Zenon
    <3> QED
      BY <1>2, <3>1, SMT
  <2>2. 1 + 1 \in 1..Len(s2r) /\ s2r'[1] = s2r[1 + 1]
    BY <1>2, <2>1, Zenon
  <2>3. Follows(Place(s2r[1]), Place(s2r[1 + 1]))
    BY <1>1, <2>2, Zenon DEF Chain
  <2>4. s2r'[Len(s2r')] = s2r[Len(s2r') + 1]
    BY <1>2, <2>1, Zenon
  <2> QED
    BY <2>1, <2>2, <2>3, <2>4, Zenon
<1>4. ASSUME NEW i \in 1..Len(s2r'), NEW k \in 1..Len(s2r'), k = i + 1
      PROVE  Follows(Place(s2r'[i]), Place(s2r'[k]))
  <2>1. /\ i + 1 \in 1..Len(s2r) /\ s2r'[i] = s2r[i + 1]
        /\ k + 1 \in 1..Len(s2r) /\ s2r'[k] = s2r[k + 1]
    BY <1>2, Zenon
  <2>2. k + 1 = (i + 1) + 1
    BY <1>4, Zenon
  <2> QED
    BY <2>1, <2>2, Zenon DEF Chain
<1>5. Chain'
  BY <1>3, <1>4, Zenon DEF Chain, Follows, Place
<1>6. LastAt' = LastAt
  <2>1. CASE s2r' # <<>>
    BY <1>3, <2>1, Zenon DEF LastAt, Place
  <2>2. CASE s2r' = <<>>
    <3>1. Len(s2r) = 1
      <4>1. Len(s2r') = 0
        BY <2>2, EmptySeq, Zenon
      <4>2. \A n \in Nat : 0 = n - 1 => n = 1
        BY SMT
      <4> QED
        BY <1>2, <4>1, <4>2, Zenon
    <3>2. LastAt' = ReceiverAt'
      BY <2>2, Zenon DEF LastAt
    <3>3. LastAt = Place(s2r[1])
      BY <3>1, Zenon DEF LastAt
    <3> QED
      BY <3>2, <3>3, Zenon
  <2> QED
    BY <2>1, <2>2, Zenon
<1> QED
  BY <1>5, <1>6, Zenon

\* The receiver reads a packet that goes on from what it has.
LEMMA GapReceived ==
    ASSUME SendTypeOK, NoGap, Y!Receive
    PROVE  NoGap'
<1>1. /\ s2r # <<>> /\ s2r' = Tail(s2r) /\ rpc \notin {"done", "gone"}
      /\ UNCHANGED <<spc, waiting, pkt>>
  BY ReceiveFacts, Zenon
<1>2. PICK p : p = Head(s2r)
  BY Zenon
<1>3. \/ Header(p) \/ Stores(p) \/ Repeats(p) \/ Ends(p) \/ Closes(p) \/ Refuses(p)
  BY <1>2, ReceiveFacts, Zenon
<1>4. 1 \in 1..Len(s2r) /\ p = s2r[1] /\ IsPacket(p) /\ Rest(s2r', s2r)
  BY <1>1, <1>2, PacketTaken, Zenon
<1>5. p # Y!Bad /\ \A i \in 1..Len(s2r') : s2r'[i] # Y!Bad
  BY <1>4, Zenon DEF NoGap, Rest
<1>6. PICK n \in 0..(Packets + 2) : p = PacketAt(n)
  BY <1>4, <1>5, Zenon DEF IsPacket
<1>7. IsAt(p, n)
  BY <1>6, PacketFacts, Zenon
<1>8. ASeq(s2r) /\ ASeq(stored) /\ Len(stored) \in Nat /\ Packets \in Nat /\ Len(stored) <= Packets
  BY SenderFacts, LenNat, Zenon DEF SendTypeOK, LineOK, ReceiverOK, NoGap
<1>9. PICK l \in Nat : l = Len(stored)
  BY <1>8, Zenon
<1>10. rpc = "data" => n = l \/ n = l + 1
  BY <1>1, <1>4, <1>7, <1>9, Zenon DEF NoGap, Chain, Follows, ReceiverAt, IsAt
<1>11. CASE rpc' = "data"
  <2>1. /\ Len(stored') = n /\ InPlace' /\ n <= Packets
        /\ rpc \in {"header", "data"}
    <3>1. CASE Header(p)
      <4>1. stored = <<>> /\ n = 0
        BY <1>7, <3>1, Zenon DEF Header, IsAt, NoGap
      <4>2. 0 <= Packets
        BY <1>8, SMT
      <4> QED
        BY <3>1, <4>1, <4>2, EmptySeq, Zenon DEF Header, NoGap, InPlace
    <3>2. CASE Stores(p)
      <4>1. n \in Nat /\ n \in 1..Packets /\ n <= Packets /\ p.content = n
        <5>1. n \in 1..Packets /\ p.content = n
          BY <1>7, <3>2, Zenon DEF Stores, IsAt
        <5>2. n \in Nat /\ n <= Packets
          BY <1>8, <5>1, SMT
        <5> QED
          BY <5>1, <5>2, Zenon
      <4>2. (l = n - 1 \/ l = n) /\ n % Modulus = (l + 1) % Modulus
        <5>1. (n = l \/ n = l + 1) => (l = n - 1 \/ l = n)
          BY SMT
        <5>2. n % Modulus = (l + 1) % Modulus
          BY <1>7, <1>9, <3>2, Zenon DEF Stores, IsAt
        <5> QED
          BY <1>10, <3>2, <5>1, <5>2, Zenon DEF Stores
      <4>3. l = n - 1
        BY <4>1, <4>2, Tells, Zenon
      <4>4. Grown(stored', stored, n)
        BY <1>8, <3>2, <4>1, AppendSeq, Zenon DEF Stores
      <4>5. l + 1 = n /\ \A i \in 1..n : i \in 1..l \/ i = n
        BY <4>1, <4>3, SMT
      <4>6. Len(stored') = n /\ stored'[n] = n /\ \A i \in 1..l : stored'[i] = stored[i]
        BY <1>9, <4>4, <4>5, Zenon DEF Grown
      <4>7. InPlace'
        BY <1>9, <4>5, <4>6, Zenon DEF NoGap, InPlace
      <4> QED
        BY <3>2, <4>1, <4>6, <4>7, Zenon DEF Stores
    <3>3. CASE Repeats(p)
      <4>1. n \in Nat
        BY <1>8, SMT
      <4>2. (l = n - 1 \/ l = n) /\ n % Modulus = l % Modulus
        <5>1. (n = l \/ n = l + 1) => (l = n - 1 \/ l = n)
          BY SMT
        <5>2. n % Modulus = l % Modulus
          BY <1>7, <1>9, <3>3, Zenon DEF Repeats, IsAt
        <5> QED
          BY <1>10, <3>3, <5>1, <5>2, Zenon DEF Repeats
      <4>3. l = n
        BY <4>1, <4>2, Tells, Zenon
      <4> QED
        BY <1>8, <1>9, <3>3, <4>3, Zenon DEF Repeats, NoGap, InPlace
    <3>4. CASE Refuses(p)
      <4>1. p.kind = "DATA" /\ p.seq = n % Modulus /\ rpc = "data" /\ n \in 1..Packets
            /\ p.seq # (l + 1) % Modulus /\ (p.seq # l % Modulus \/ stored = <<>>)
        BY <1>7, <1>9, <3>4, Zenon DEF Refuses, IsAt
      <4>2. n # l + 1
        BY <4>1, Zenon
      <4>3. stored = <<>> => l = 0
        BY <1>9, EmptySeq, Zenon
      <4>4. n # 0
        BY <1>8, <4>1, SMT
      <4> QED
        BY <1>10, <4>1, <4>2, <4>3, <4>4, Zenon
    <3>5. CASE Ends(p) \/ Closes(p)
      BY <1>11, <3>5, Zenon DEF Ends, Closes
    <3> QED
      BY <1>3, <3>1, <3>2, <3>3, <3>4, <3>5, Zenon
  <2>2. ReceiverAt' = Place(s2r[1])
    BY <1>4, <1>7, <1>11, <2>1, Zenon DEF ReceiverAt, IsAt
  <2>3. Chain' /\ LastAt' = LastAt
    BY <1>1, <1>8, <2>1, <2>2, ChainRead, Zenon DEF NoGap
  <2>4. CaughtUp'
    <3>1. SenderAt' = SenderAt
      BY <1>1, Zenon DEF SenderAt
    <3> QED
      BY <1>1, <2>1, <2>3, <3>1, Zenon DEF NoGap, CaughtUp, Follows
  <2> QED
    BY <1>5, <1>11, <2>1, <2>3, <2>4, Zenon DEF NoGap
<1>12. CASE rpc' # "data"
  <2>1. stored' = stored /\ rpc' # "gone"
    BY <1>1, <1>3, <1>12, Zenon DEF Header, Stores, Repeats, Ends, Closes, Refuses
  <2>2. rpc' # "header" /\ Len(stored) = Packets
    <3>1. CASE Ends(p)
      <4>1. n = Packets + 1 /\ rpc \in {"data", "eot"} /\ rpc' # "header"
        BY <1>7, <3>1, Zenon DEF Ends, IsAt
      <4>2. n = l \/ n = l + 1 => l = Packets
        BY <1>8, <1>9, <4>1, SMT
      <4> QED
        BY <1>9, <1>10, <4>1, <4>2, Zenon DEF NoGap
    <3>2. CASE Closes(p)
      BY <3>2, Zenon DEF Closes, NoGap
    <3>3. CASE Refuses(p)
      BY <1>7, <1>12, <3>3, Zenon DEF Refuses, IsAt
    <3> QED
      BY <1>3, <1>12, <3>1, <3>2, <3>3, Zenon DEF Header, Stores, Repeats
  <2> QED
    BY <1>5, <1>8, <1>12, <2>1, <2>2, Zenon DEF NoGap, InPlace
<1> QED
  BY <1>11, <1>12, Zenon

LEMMA NoGapKept ==
    ASSUME NoGap, UNCHANGED <<spc, waiting, pkt, rpc, stored, s2r>>
    PROVE  NoGap'
<1>1. ReceiverAt' = ReceiverAt /\ LastAt' = LastAt /\ SenderAt' = SenderAt
  BY Zenon DEF LastAt, ReceiverAt, SenderAt, Place
<1>2. (Chain => Chain') /\ (CaughtUp => CaughtUp') /\ (InPlace => InPlace')
  BY <1>1, ZenonT(40) DEF Chain, CaughtUp, InPlace, Place, Follows
<1> QED
  BY <1>2, Zenon DEF NoGap

\* It ignores none of them.
LEMMA GapIgnored ==
    ASSUME SendTypeOK, NoGap, Y!Ignore \/ Y!Prompt
    PROVE  NoGap'
<1>1. CASE Y!Prompt
  <2>1. UNCHANGED <<spc, waiting, pkt, rpc, stored, s2r>>
    BY <1>1, Zenon DEF Y!Prompt, Y!sender, Y!receiver
  <2> QED
    BY <2>1, NoGapKept, Zenon
<1>2. CASE Y!Ignore
  <2>1. s2r # <<>> /\ s2r' = Tail(s2r) /\ UNCHANGED <<spc, waiting, pkt, rpc, stored>>
    BY <1>2, Zenon DEF Y!Ignore, Y!sender, Y!receiver
  <2>2. PICK p : p = Head(s2r)
    BY Zenon
  <2>3. 1 \in 1..Len(s2r) /\ p = s2r[1] /\ IsPacket(p) /\ Rest(s2r', s2r)
    BY <2>1, <2>2, PacketTaken, Zenon
  <2>4. p # Y!Bad /\ \A i \in 1..Len(s2r') : s2r'[i] # Y!Bad
    BY <2>3, Zenon DEF NoGap, Rest
  <2>5. PICK n \in 0..(Packets + 2) : p = PacketAt(n)
    BY <2>3, <2>4, Zenon DEF IsPacket
  <2>6. IsAt(p, n)
    BY <2>5, PacketFacts, Zenon
  <2>7. PICK l \in Nat : l = Len(stored)
    BY LenNat, Zenon DEF SendTypeOK, ReceiverOK
  <2>8. Packets \in Nat /\ l <= Packets
    BY <2>7, SenderFacts, Zenon DEF NoGap
  <2>9. rpc # "header"
    <3>1. SUFFICES ASSUME rpc = "header" PROVE FALSE
      BY Zenon
    <3>2. n = -1 \/ n = -1 + 1
      BY <2>1, <2>3, <2>6, <3>1, Zenon DEF NoGap, Chain, Follows, ReceiverAt, IsAt
    <3>3. n = 0
      BY <2>8, <3>2, SMT
    <3> QED
      BY <1>2, <2>2, <2>6, <3>1, <3>3, Zenon DEF Y!Ignore, IsAt
  <2>10. rpc # "data"
    <3>1. SUFFICES ASSUME rpc = "data" PROVE FALSE
      BY Zenon
    <3>2. n = l \/ n = l + 1
      BY <2>1, <2>3, <2>6, <2>7, <3>1, Zenon DEF NoGap, Chain, Follows, ReceiverAt, IsAt
    <3>3. n # Packets + 2 /\ (n = 0 => l = 0)
      BY <2>8, <3>2, SMT
    <3>4. l = 0 => stored = <<>>
      BY <2>7, LenNat, Zenon DEF SendTypeOK, ReceiverOK
    <3> QED
      BY <1>2, <2>2, <2>6, <3>1, <3>3, <3>4, Zenon DEF Y!Ignore, IsAt
  <2> QED
    BY <2>1, <2>4, <2>9, <2>10, Zenon DEF NoGap, InPlace
<1> QED
  BY <1>1, <1>2, Zenon

\* The sender's packet goes on from the last one.
LEMMA GapSent ==
    ASSUME SendTypeOK, NoGap, spc' # "fail", Y!SendPacket \/ Y!SendEot \/ Y!SendStalls
    PROVE  NoGap'
<1>1. /\ s2r' = Append(s2r, PacketAt(SenderAt)) /\ UNCHANGED <<spc, pkt, rpc, stored>>
      /\ spc \in {"header", "data", "final", "eot"}
  <2>1. CASE Y!SendPacket
    BY <2>1, SenderFacts, Zenon DEF Y!SendPacket, Y!InSendPacket, Y!receiver
  <2>2. CASE Y!SendEot
    BY <2>2, SenderFacts, Zenon DEF Y!SendEot, Y!receiver
  <2>3. CASE Y!SendStalls
    <3>1. /\ s2r' = Append(s2r, IF spc = "eot" THEN Y!Eot ELSE Y!Current)
          /\ spc \in {"header", "data", "final", "eot"} /\ spc' = spc
          /\ UNCHANGED <<pkt, rpc, stored>>
      BY <2>3, Zenon DEF Y!SendStalls, Y!InSendPacket, Y!receiver
    <3> QED
      BY <3>1, SenderFacts, Zenon
  <2> QED
    BY <2>1, <2>2, <2>3, Zenon
<1>2. PICK p : p = PacketAt(SenderAt)
  BY Zenon
<1>3. Place(p) = SenderAt /\ p # Y!Bad
  BY <1>2, SenderFacts, PacketFacts, BadIsNone, Zenon DEF IsAt
<1>4. ASeq(s2r) /\ Len(s2r) \in Nat
  BY LenNat, Zenon DEF SendTypeOK, LineOK
<1>5. \A i \in 1..Len(s2r') : s2r'[i] # Y!Bad
  <2>1. Grown(s2r', s2r, p)
    BY <1>1, <1>2, <1>4, AppendSeq, Zenon
  <2>2. \A i \in 1..(Len(s2r) + 1) : i \in 1..Len(s2r) \/ i = Len(s2r) + 1
    BY <1>4, SMT
  <2> QED
    BY <1>3, <2>1, <2>2, Zenon DEF Grown, NoGap
<1>6. SenderAt' = SenderAt
  BY <1>1, Zenon DEF SenderAt
<1>7. rpc \in {"header", "data"} => Chain' /\ LastAt' = SenderAt
  BY <1>1, <1>2, <1>3, <1>4, ChainGrows, Zenon DEF NoGap, CaughtUp
<1>8. rpc \in {"header", "data"} => Chain' /\ CaughtUp'
  BY <1>6, <1>7, Zenon DEF CaughtUp, Follows
<1> QED
  BY <1>1, <1>5, <1>8, Zenon DEF NoGap, InPlace

\* It moves on when the last one is its current one.
LEMMA GapMoves ==
    ASSUME SendTypeOK, NoGap, spc' # "fail",
           Y!RecvAnswer \/ Y!RecvPrompt \/ Y!RecvEot \/ Y!RecvEot2 \/ Y!SenderTimeout
    PROVE  NoGap'
<1>1. Packets \in Nat /\ pkt \in Nat /\ ASeq(s2r) /\ Len(s2r) \in Nat
  BY SenderFacts, LenNat, Zenon DEF SendTypeOK, SenderOK, LineOK
<1>2. ASSUME UNCHANGED <<rpc, stored, s2r>>,
             CaughtUp => /\ Follows(LastAt, SenderAt')
                         /\ waiting' = "yes" \/ spc' \in {"prompt", "eot2", "eotprompt", "done"} =>
                              LastAt = SenderAt'
      PROVE  NoGap'
  <2>1. LastAt' = LastAt /\ (Chain => Chain')
    BY <1>2, ZenonT(40) DEF LastAt, ReceiverAt, Chain, Follows, Place
  <2>2. CaughtUp => CaughtUp'
    BY <1>2, <2>1, Zenon DEF CaughtUp, Follows
  <2> QED
    BY <1>2, <2>1, <2>2, Zenon DEF NoGap, InPlace
<1>3. CASE Y!RecvAnswer
  <2>1. /\ spc \in {"header", "data", "final"} /\ waiting = "yes" /\ waiting' = "no"
        /\ UNCHANGED <<rpc, stored, s2r>> /\ (Y!Advance \/ Y!Again)
    BY <1>3, Zenon DEF Y!RecvAnswer, Y!InSendPacket, Y!receiver, Y!AckEnds
  <2>2. CaughtUp => LastAt = SenderAt
    BY <2>1, Zenon DEF CaughtUp
  <2>3. CASE Y!Again
    <3>1. SenderAt' = SenderAt /\ spc' = spc
      BY <2>3, AgainFacts, Zenon DEF SenderAt
    <3> QED
      BY <1>2, <2>1, <2>2, <3>1, Zenon DEF Follows
  <2>4. CASE Y!Advance
    <3>1. \/ spc = "header" /\ spc' = "prompt" /\ pkt' = pkt
          \/ spc = "final" /\ spc' = "done" /\ pkt' = pkt
          \/ spc = "data" /\ spc' = "data" /\ pkt' = pkt + 1
          \/ spc = "data" /\ spc' = "eot" /\ pkt = Packets
      BY <2>1, <2>4, AdvanceFacts, Zenon
    <3>2. \/ SenderAt' = SenderAt
          \/ SenderAt' = SenderAt + 1 /\ spc' \in {"data", "eot"}
      BY <3>1, Zenon DEF SenderAt
    <3> QED
      BY <1>2, <2>1, <2>2, <3>2, Zenon DEF Follows
  <2> QED
    BY <2>1, <2>3, <2>4, Zenon
<1>4. CASE Y!RecvPrompt
  <2>1. /\ spc \in {"start", "prompt", "eotprompt"} /\ UNCHANGED <<waiting, rpc, stored, s2r>>
        /\ \/ spc' = spc /\ pkt' = pkt
           \/ spc = "start" /\ spc' = "header" /\ pkt' = pkt
           \/ spc = "eotprompt" /\ spc' = "final" /\ pkt' = pkt
           \/ spc = "prompt" /\ Packets = 0 /\ spc' = "eot" /\ pkt' = pkt
           \/ spc = "prompt" /\ Packets # 0 /\ spc' = "data" /\ pkt' = 1
    BY <1>4, PromptFacts, Zenon
  <2>2. waiting = "no"
    BY <2>1, Zenon DEF SendTypeOK, SenderOK
  <2>3. 0 + 1 = 1 /\ (Packets + 1) + 1 = Packets + 2 /\ (Packets = 0 => Packets + 1 = 1)
    BY <1>1, SMT
  <2>4. \/ SenderAt' = SenderAt /\ (spc' = spc \/ spc' = "header")
        \/ SenderAt' = SenderAt + 1 /\ spc \in {"prompt", "eotprompt"} /\ spc' \in {"final", "eot", "data"}
    BY <2>1, <2>3, Zenon DEF SenderAt
  <2> QED
    BY <1>2, <2>1, <2>2, <2>4, Zenon DEF CaughtUp, Follows
<1>5. CASE Y!RecvEot
  <2>1. /\ spc = "eot" /\ waiting = "yes" /\ UNCHANGED <<pkt, rpc, stored>>
        /\ \/ spc' = "eot2" /\ waiting' = "yes" /\ s2r' = Append(s2r, Y!Eot)
           \/ spc' = "eotprompt" /\ waiting' = "no" /\ s2r' = s2r
           \/ spc' = "final" /\ waiting' = "no" /\ s2r' = s2r
    BY <1>5, EotFacts, Zenon
  <2>2. /\ SenderAt = Packets + 1 /\ (CaughtUp => LastAt = SenderAt)
        /\ spc' \in {"eot2", "eotprompt"} => SenderAt' = Packets + 1
        /\ spc' = "final" => SenderAt' = Packets + 2
    BY <2>1, Zenon DEF SenderAt, CaughtUp
  <2>3. (Packets + 1) + 1 = Packets + 2
    BY <1>1, SMT
  <2>4. CASE s2r' = s2r /\ waiting' = "no"
    BY <1>2, <2>1, <2>2, <2>3, <2>4, Zenon DEF Follows
  <2>5. CASE spc' = "eot2" /\ waiting' = "yes" /\ s2r' = Append(s2r, Y!Eot)
    <3>1. PICK p : p = Y!Eot
      BY Zenon
    <3>2. p = PacketAt(SenderAt)
      BY <2>1, <3>1, SenderFacts, Zenon
    <3>3. Place(p) = SenderAt /\ p # Y!Bad
      BY <3>2, SenderFacts, PacketFacts, BadIsNone, Zenon DEF IsAt
    <3>4. \A i \in 1..Len(s2r') : s2r'[i] # Y!Bad
      <4>1. Grown(s2r', s2r, p)
        BY <1>1, <2>5, <3>1, AppendSeq, Zenon
      <4>2. \A i \in 1..(Len(s2r) + 1) : i \in 1..Len(s2r) \/ i = Len(s2r) + 1
        BY <1>1, SMT
      <4> QED
        BY <3>3, <4>1, <4>2, Zenon DEF Grown, NoGap
    <3>5. rpc \in {"header", "data"} => Chain' /\ LastAt' = SenderAt
      BY <1>1, <2>1, <2>5, <3>1, <3>3, ChainGrows, Zenon DEF NoGap, CaughtUp
    <3>6. rpc \in {"header", "data"} => Chain' /\ CaughtUp'
      BY <2>2, <2>5, <3>5, Zenon DEF CaughtUp, Follows
    <3> QED
      BY <2>1, <3>4, <3>6, Zenon DEF NoGap, InPlace
  <2> QED
    BY <2>1, <2>4, <2>5, Zenon
<1>6. CASE Y!RecvEot2
  <2>1. spc = "eot2" /\ spc' = "eotprompt" /\ UNCHANGED <<rpc, stored, s2r>>
    BY <1>6, Zenon DEF Y!RecvEot2, Y!receiver
  <2>2. SenderAt' = SenderAt
    BY <2>1, Zenon DEF SenderAt
  <2> QED
    BY <1>2, <2>1, <2>2, Zenon DEF CaughtUp
<1>7. CASE Y!SenderTimeout
  <2>1. /\ waiting' = "no" /\ UNCHANGED <<rpc, stored, s2r>> /\ Y!Again
    BY <1>7, Zenon DEF Y!SenderTimeout, Y!receiver
  <2>2. SenderAt' = SenderAt /\ spc' = spc
    BY <2>1, AgainFacts, Zenon DEF SenderAt
  <2> QED
    BY <1>2, <2>1, <2>2, Zenon DEF CaughtUp
<1> QED
  BY <1>3, <1>4, <1>5, <1>6, <1>7, Zenon

\* A transfer that has failed stays failed, and the counters of trouble do
\* not go down.
LEMMA TroubleStays ==
    ASSUME SendTypeOK, Y!Next
    PROVE  /\ spc' # "fail" => spc # "fail"
           /\ stalls' = 0 => stalls = 0 /\ ~Y!SendStalls
           /\ faults' = 0 => faults = 0 /\ ~(Y!Cancel \/ Y!Damage \/ Y!LosePacket \/ Y!LoseControl)
<1>1. faults \in Nat /\ stalls \in Nat /\ \A n \in Nat : n + 1 # 0
  <2>1. \A n \in Nat : n + 1 # 0
    BY SMT
  <2> QED
    BY <2>1, Zenon DEF SendTypeOK, ReceiverOK
<1>2. CASE Y!SendStalls
  BY <1>1, <1>2, Zenon DEF Y!SendStalls, Y!Stall, Y!InSendPacket, Y!Cancel, Y!Damage, Y!LosePacket,
     Y!LoseControl, Y!Fault
<1>3. CASE Y!Cancel \/ Y!Damage \/ Y!LosePacket \/ Y!LoseControl
  BY <1>1, <1>3, Zenon DEF Y!SendStalls, Y!Stall, Y!Cancel, Y!Damage, Y!LosePacket,
     Y!LoseControl, Y!Fault, Y!sender
<1>4. CASE /\ ~Y!SendStalls /\ ~(Y!Cancel \/ Y!Damage \/ Y!LosePacket \/ Y!LoseControl)
           /\ Y!SenderStep \/ Y!ReceiverStep \/ Y!Prompt
  <2>1. (stalls' = stalls \/ stalls' = stalls + 1) /\ faults' = faults /\ (spc' # "fail" => spc # "fail")
    <3>1. CASE Y!SendPacket \/ Y!RecvAnswer \/ Y!SendEot \/ Y!RecvEot \/ Y!RecvEot2
      BY <3>1, Zenon DEF Y!SendPacket, Y!RecvAnswer, Y!SendEot, Y!RecvEot, Y!RecvEot2, Y!InSendPacket
    <3>2. CASE Y!RecvPrompt \/ Y!SenderTimeout
      BY <3>2, Zenon DEF Y!RecvPrompt, Y!SenderTimeout
    <3>3. CASE Y!ReceiverStep
      BY <3>3, ReceiveFacts, Zenon DEF Y!ReceiverStep, Y!Ignore, Y!sender
    <3>4. CASE Y!Prompt
      BY <3>4, Zenon DEF Y!Prompt, Y!Stall, Y!sender
    <3> QED
      BY <1>4, <3>1, <3>2, <3>3, <3>4, Zenon DEF Y!SenderStep
  <2> QED
    BY <1>1, <1>4, <2>1, Zenon
<1> QED
  BY <1>2, <1>3, <1>4, Zenon DEF Y!Next

LEMMA SendInit ==
    ASSUME Y!Init
    PROVE  SendInv
<1>1. /\ spc = "start" /\ waiting = "no" /\ pkt = 0 /\ rpc = "header" /\ stored = <<>>
      /\ s2r = <<>> /\ r2s = <<>> /\ faults = 0 /\ stalls = 0
  BY Zenon DEF Y!Init
<1>2. /\ ASeq(<<>>) /\ Len(<<>>) = 0 /\ 0 \in Nat /\ 0 <= 1 /\ (\A i \in 1..0 : FALSE)
      /\ 0 <= Packets /\ -1 + 1 = 0
  <2>1. 0 \in Nat /\ 0 <= 1 /\ (\A i \in 1..0 : FALSE) /\ 0 <= Packets /\ -1 + 1 = 0
    BY LinksAssumption, SMT
  <2> QED
    BY <2>1, EmptySeq, Zenon
<1>3. SendTypeOK
  BY <1>1, <1>2, Zenon DEF SendTypeOK, SenderOK, ReceiverOK, LineOK
<1>4. OneAtATime
  BY <1>1, <1>2, Zenon DEF OneAtATime, InPlace, AllCan, NakLast
<1>5. SenderAt = 0 /\ LastAt = -1
  BY <1>1, Zenon DEF SenderAt, LastAt, ReceiverAt
<1>6. Chain /\ CaughtUp
  BY <1>1, <1>2, <1>5, Zenon DEF Chain, CaughtUp, Follows
<1>7. NoGap
  BY <1>1, <1>2, <1>6, Zenon DEF NoGap, InPlace
<1> QED
  BY <1>3, <1>4, <1>7, Zenon DEF SendInv

LEMMA SendKeeps ==
    ASSUME SendInv, Y!Next
    PROVE  SendInv'
<1>1. SendTypeOK
  BY Zenon DEF SendInv
<1>2. SendTypeOK'
  BY <1>1, SendStepTypes, ReceiveStepTypes, Zenon DEF Y!Next
<1>3. ASSUME stalls' = 0, spc' # "fail" PROVE OneAtATime'
  <2>1. stalls = 0 /\ ~Y!SendStalls /\ OneAtATime
    BY <1>1, <1>3, TroubleStays, Zenon DEF SendInv
  <2> QED
    BY <1>1, <1>3, <2>1, OneReceived, OneDisturbed, OneSent, OneMoves, Zenon
    DEF Y!Next, Y!SenderStep, Y!ReceiverStep
<1>4. ASSUME faults' = 0, spc' # "fail" PROVE NoGap'
  <2>1. NoGap /\ ~(Y!Cancel \/ Y!Damage \/ Y!LosePacket \/ Y!LoseControl)
    BY <1>1, <1>4, TroubleStays, Zenon DEF SendInv
  <2> QED
    BY <1>1, <1>4, <2>1, GapReceived, GapIgnored, GapSent, GapMoves, Zenon
    DEF Y!Next, Y!SenderStep, Y!ReceiverStep
<1> QED
  BY <1>2, <1>3, <1>4, Zenon DEF SendInv

\* Either way, a transfer that is done has stored the file.
LEMMA DoneIsReceived ==
    ASSUME SendInv, spc = "done", stalls = 0 \/ (faults = 0 /\ s2r = <<>>)
    PROVE  Y!Received
<1>1. SendTypeOK
  BY Zenon DEF SendInv
<1>2. InPlace /\ Len(stored) = Packets
  <2>1. CASE stalls = 0
    BY <2>1, Zenon DEF SendInv, OneAtATime
  <2>2. CASE faults = 0 /\ s2r = <<>>
    <3>1. NoGap
      BY <2>2, Zenon DEF SendInv
    <3>2. rpc \notin {"header", "data"}
      <4>1. SUFFICES ASSUME rpc \in {"header", "data"} PROVE FALSE
        BY Zenon
      <4>2. LastAt = ReceiverAt /\ LastAt = SenderAt /\ SenderAt = Packets + 2
        BY <2>2, <3>1, <4>1, Zenon DEF NoGap, CaughtUp, LastAt, SenderAt
      <4>3. ReceiverAt = -1 \/ ReceiverAt = Len(stored)
        BY Zenon DEF ReceiverAt
      <4>4. Len(stored) \in Nat /\ Len(stored) <= Packets /\ Packets \in Nat
        BY <1>1, <3>1, SenderFacts, LenNat, Zenon DEF NoGap, SendTypeOK, ReceiverOK
      <4>5. \A n \in Nat : n <= Packets => n # Packets + 2
        BY <4>4, SMT
      <4>6. -1 # Packets + 2
        BY <4>4, SMT
      <4> QED
        BY <4>2, <4>3, <4>4, <4>5, <4>6, Zenon
    <3> QED
      BY <1>1, <3>1, <3>2, Zenon DEF NoGap, SendTypeOK, ReceiverOK
  <2> QED
    BY <2>1, <2>2, Zenon
<1>3. PICK S : stored \in Seq(S)
  BY <1>1, Zenon DEF SendTypeOK, ReceiverOK, ASeq
<1>4. stored = [n \in 1..Len(stored) |-> stored[n]]
  BY <1>3, SMT
<1>5. stored = [n \in 1..Packets |-> n]
  BY <1>2, <1>4, Zenon DEF InPlace
<1> QED
  BY <1>5, Zenon DEF Y!Received

\* send() returns normally only when the receiver has stored the whole file,
\* each packet once and in order: for files of any length, any number of
\* retries and any two or more sequence numbers, under the trouble that
\* SuccessMeansReceived allows.
THEOREM SentIsReceived == Spec => []SuccessMeansReceived
<1> DEFINE Inv == link = "ymodem" => SendInv
<1>1. Init => Inv
  BY SendInit, Zenon DEF Init
<1>2. Inv /\ [Next]_allVars => Inv'
  <2> SUFFICES ASSUME Inv, [Next]_allVars, link' = "ymodem" PROVE SendInv'
    BY Zenon
  <2>1. CASE Sending /\ Y!Next
    BY <2>1, SendKeeps, Zenon DEF Sending
  <2>2. CASE (Switching /\ B!Next) \/ (Writing /\ W!Next)
    BY <2>2, Zenon DEF Switching, Writing
  <2>3. CASE UNCHANGED allVars
    <3>1. /\ link = "ymodem"
          /\ UNCHANGED <<spc, waiting, pkt, rpc, stored, s2r, r2s, stalls, faults>>
      BY <2>3, Zenon DEF allVars, sender
    <3>2. SendTypeOK'
      BY <3>1, Zenon DEF SendInv, SendTypeOK, SenderOK, ReceiverOK, LineOK
    <3>3. OneAtATime => OneAtATime'
      BY <3>1, Zenon DEF OneAtATime, InPlace, AllCan, NakLast, HasAck, SenderAt, PacketAt
    <3>4. NoGap => NoGap'
      BY <3>1, NoGapKept, Zenon
    <3> QED
      BY <3>1, <3>2, <3>3, <3>4, Zenon DEF SendInv
  <2> QED
    BY <2>1, <2>2, <2>3, Zenon DEF Next
<1>3. Inv => SuccessMeansReceived
  BY DoneIsReceived, Zenon DEF SuccessMeansReceived, Y!SuccessMeansReceived
<1> QED
  BY <1>1, <1>2, <1>3, PTL DEF Spec
=============================================================================
