---------------------------- MODULE LinksProofs ----------------------------
(***************************************************************************)
(* Proofs about the windowed write and the rate switch of Links, for any   *)
(* number of blocks, chunks, faults and retries.                           *)
(*                                                                         *)
(* The write's invariant numbers the answers: ACK_READY of block b is      *)
(* answer 2b - 1 and its ACK_CRC answer 2b.  The ACKs on the line are in   *)
(* order and the first of them is at most the next one the host counts, or *)
(* the one after it once it has lost one; a block is counted as written    *)
(* with its own ACK_CRC only.  A retry deals with one block on a line that *)
(* the drain has left empty.                                               *)
(***************************************************************************)
EXTENDS Links, Sequences, TLAPS

(***************************************************************************)
(* The windowed write.                                                     *)
(***************************************************************************)
\* A sequence, whatever it is of.
ASeq(s) == \E S : s \in Seq(S)

\* The ACKs of a block, two each, in the order they are sent; where the ACK a
\* stands among them; and how many of them the host has counted.
Pos(a) == IF a.what = "crc" THEN 2 * a.blk ELSE 2 * a.blk - 1
Counted == IF hpc = "crc" THEN 2 * (base + acked) + 1 ELSE 2 * (base + acked)

IsOk(a) == a.st = "OK"
IsWrite(p) == p.op = "WRITE"

WriteTypeOK ==
    /\ hpc \in {"top", "send", "ready", "crc", "drain", "retry", "retryready", "retrycrc",
                "true", "false"}
    /\ off \in 0..Blocks /\ base \in Nat /\ sent \in Nat /\ acked \in Nat
    /\ ablk \in 0..Blocks /\ arecv \in Nat /\ (ablk # 0 => arecv < Chunks)
    /\ DOMAIN ram = 1..Blocks
    /\ ASeq(h2d) /\ ASeq(d2h)
    /\ \A j \in 1..Len(h2d) : IsWrite(h2d[j]) => h2d[j].blk \in 1..Blocks
    /\ \A i \in 1..Len(d2h) :
         IsOk(d2h[i]) => d2h[i].blk \in 1..Blocks /\ d2h[i].what \in {"ready", "crc"}

\* The ACKs that are under way or still to be sent come in order.
InOrder ==
    /\ \A i, j \in 1..Len(d2h) :
         i < j /\ IsOk(d2h[i]) /\ IsOk(d2h[j]) => Pos(d2h[i]) < Pos(d2h[j])
    /\ \A i \in 1..Len(d2h) : IsOk(d2h[i]) =>
         /\ ablk # 0 => Pos(d2h[i]) < 2 * ablk
         /\ \A j \in 1..Len(h2d) : IsWrite(h2d[j]) => Pos(d2h[i]) < 2 * h2d[j].blk - 1
    /\ ablk # 0 => \A j \in 1..Len(h2d) : IsWrite(h2d[j]) => ablk < h2d[j].blk
    /\ \A i, j \in 1..Len(h2d) :
         i < j /\ IsWrite(h2d[i]) /\ IsWrite(h2d[j]) => h2d[i].blk < h2d[j].blk

\* All of them are ACKs n.. of blocks up to m.
Between(n, m) ==
    /\ \A i \in 1..Len(d2h) : IsOk(d2h[i]) => Pos(d2h[i]) >= n /\ d2h[i].blk <= m
    /\ ablk # 0 => 2 * ablk >= n /\ ablk <= m
    /\ \A j \in 1..Len(h2d) : IsWrite(h2d[j]) => 2 * h2d[j].blk - 1 >= n /\ h2d[j].blk <= m

\* A good CRC was said of a block that is in RAM.
CrcTrue ==
    \A i \in 1..Len(d2h) :
        IsOk(d2h[i]) /\ d2h[i].what = "crc" => W!Written(d2h[i].blk)

WrittenUpTo(n) == \A b \in 1..Blocks : b <= n => W!Written(b)

\* Nothing has been lost, and what the host has counted is written; or more
\* has been lost than will ever come, and the window cannot end well.
Exact == Between(Counted + 1, off) /\ WrittenUpTo(base + acked)
Behind == Between(Counted + 2, off)

WindowInv ==
    /\ hpc \in {"top", "send", "ready", "crc"} => InOrder /\ CrcTrue
    /\ hpc = "top" => off = base + acked /\ Exact
    /\ hpc = "send" => off = base + sent /\ acked = 0 /\ Exact
    /\ hpc \in {"ready", "crc"} => off = base + sent /\ (Exact \/ Behind)
    /\ hpc = "drain" => base <= off /\ Between(2 * base + 1, Blocks)

\* A block written alone: the ACKs are about it; before DATA goes out only its
\* CMD_WRITE does; and a good ACK after that is the last of all.
OneBlock ==
    /\ off < Blocks /\ ablk \in {0, off + 1}
    /\ \A i \in 1..Len(d2h) : d2h[i].blk = off + 1
Asked ==
    /\ \A j \in 1..Len(h2d) : h2d[j] \in {W!WriteCmd(off + 1), W!Bad}
    /\ Len(h2d) <= 1 /\ (h2d # <<>> => ablk = 0 /\ d2h = <<>>)
    /\ \A i \in 1..Len(d2h) : IsOk(d2h[i]) => i = 1
    /\ ablk # 0 => Len(d2h) <= 1 /\ arecv = 0
Filled ==
    /\ \A j \in 1..Len(h2d) : h2d[j].op = "BAD" \/ (h2d[j].op = "DATA" /\ h2d[j].blk = off + 1)
    /\ ablk # 0 => d2h = <<>> /\ Len(h2d) + arecv <= Chunks
    /\ ablk = 0 /\ (\E i \in 1..Len(d2h) : IsOk(d2h[i])) =>
         h2d = <<>> /\ Len(d2h) = 1 /\ W!Written(off + 1)

RetryInv ==
    /\ hpc \in {"retry", "retryready", "retrycrc"} => off = base + acked /\ WrittenUpTo(off)
    /\ hpc = "retry" => h2d = <<>> /\ d2h = <<>> /\ ablk = 0
    /\ hpc \in {"retryready", "retrycrc"} => OneBlock
    /\ hpc = "retryready" => Asked
    /\ hpc = "retrycrc" => Filled

EndInv ==
    /\ hpc \in {"top", "send", "ready", "crc", "drain"} => WrittenUpTo(base)
    /\ hpc = "true" =>
         WrittenUpTo(Blocks) /\ ablk = 0 /\ \A j \in 1..Len(h2d) : ~IsWrite(h2d[j])

WriteInv == WriteTypeOK /\ WindowInv /\ RetryInv /\ EndInv

(***************************************************************************)
(* Sequences.                                                              *)
(***************************************************************************)
\* t is s without its first element, element by element; u is s and then t.
Rest(t, s) ==
    /\ ASeq(t) /\ Len(t) = Len(s) - 1
    /\ \A i \in 1..Len(t) : i + 1 \in 1..Len(s) /\ t[i] = s[i + 1]
Joined(u, s, t) ==
    /\ ASeq(u) /\ Len(u) = Len(s) + Len(t)
    /\ \A i \in 1..Len(s) : u[i] = s[i]
    /\ \A i \in 1..Len(t) : u[Len(s) + i] = t[i]

\* t is s and then x.
Grown(t, s, x) ==
    /\ ASeq(t) /\ Len(t) = Len(s) + 1 /\ t[Len(s) + 1] = x
    /\ \A i \in 1..Len(s) : t[i] = s[i]

LEMMA EmptySeq == ASeq(<<>>) /\ Len(<<>>) = 0 /\ 1..0 = {}
<1>1. <<>> \in Seq({}) /\ Len(<<>>) = 0 /\ 1..0 = {}
  BY SMT
<1> QED
  BY <1>1, Zenon DEF ASeq

LEMMA SingleSeq ==
    ASSUME NEW x
    PROVE  ASeq(<<x>>) /\ Len(<<x>>) = 1 /\ <<x>>[1] = x /\ <<x>> # <<>>
<1>1. <<x>> \in Seq({x}) /\ Len(<<x>>) = 1 /\ <<x>>[1] = x /\ <<x>> # <<>>
  BY SMT
<1> QED
  BY <1>1, Zenon DEF ASeq

LEMMA LenNat ==
    ASSUME NEW s, ASeq(s)
    PROVE  Len(s) \in Nat /\ (s = <<>> <=> Len(s) = 0)
<1>1. PICK S : s \in Seq(S)
  BY Zenon DEF ASeq
<1> QED
  BY <1>1, SMT

LEMMA AppendSeq ==
    ASSUME NEW s, NEW x, ASeq(s)
    PROVE  Grown(Append(s, x), s, x) /\ Append(s, x) # <<>>
<1>1. PICK S : s \in Seq(S)
  BY Zenon DEF ASeq
<1>2. s \in Seq(S \cup {x})
  BY <1>1, SMT
<1>3. Append(s, x) \in Seq(S \cup {x}) /\ Len(Append(s, x)) = Len(s) + 1 /\ Append(s, x) # <<>>
  BY <1>2, SMTT(30)
<1>4. Append(s, x)[Len(s) + 1] = x /\ \A i \in 1..Len(s) : Append(s, x)[i] = s[i]
  BY <1>2, SMT
<1> QED
  BY <1>3, <1>4, Zenon DEF ASeq, Grown

LEMMA TailSeq ==
    ASSUME NEW s, ASeq(s), s # <<>>
    PROVE  /\ Rest(Tail(s), s)
           /\ Head(s) = s[1] /\ 1 \in 1..Len(s) /\ (Len(s) = 1 => Tail(s) = <<>>)
<1>1. PICK S : s \in Seq(S)
  BY Zenon DEF ASeq
<1>2. Tail(s) \in Seq(S) /\ Len(Tail(s)) = Len(s) - 1 /\ Head(s) = s[1] /\ Len(s) \in Nat /\ Len(s) > 0
  BY <1>1, SMT
<1>3. \A i \in 1..Len(Tail(s)) : i + 1 \in 1..Len(s) /\ Tail(s)[i] = s[i + 1]
  BY <1>1, <1>2, SMT
<1>4. 1 \in 1..Len(s) /\ (Len(s) = 1 => Tail(s) = <<>>)
  BY <1>1, <1>2, SMT
<1> QED
  BY <1>2, <1>3, <1>4, Zenon DEF ASeq, Rest

LEMMA FunctionSeq ==
    ASSUME NEW f, NEW n \in Nat, f = [i \in 1..n |-> f[i]]
    PROVE  ASeq(f) /\ Len(f) = n
<1>1. PICK S : S = {f[i] : i \in 1..n}
  BY Zenon
<1>2. \A i \in 1..n : f[i] \in S
  BY <1>1, Zenon
<1>3. f \in [1..n -> S]
  BY <1>2, Zenon
<1>4. f \in Seq(S) /\ Len(f) = n
  BY <1>3, SMT
<1> QED
  BY <1>4, Zenon DEF ASeq

LEMMA ConcatSeq ==
    ASSUME NEW s, NEW t, ASeq(s), ASeq(t)
    PROVE  Joined(s \o t, s, t)
<1>1. PICK S : s \in Seq(S)
  BY Zenon DEF ASeq
<1>2. PICK T : t \in Seq(T)
  BY Zenon DEF ASeq
<1>3. s \in Seq(S \cup T) /\ t \in Seq(S \cup T)
  BY <1>1, <1>2, SMT
<1>4. s \o t \in Seq(S \cup T) /\ Len(s \o t) = Len(s) + Len(t) /\ Len(s) \in Nat /\ Len(t) \in Nat
  BY <1>3, SMT
<1>5. \A i \in 1..Len(s) : (s \o t)[i] = s[i]
  BY <1>3, <1>4, SMT
<1>6. \A i \in 1..Len(t) : (s \o t)[Len(s) + i] = t[i]
  BY <1>3, <1>4, SMT
<1> QED
  BY <1>4, <1>5, <1>6, Zenon DEF ASeq, Joined

\* A packet less: what is left has its order.
Thinned(t, s) ==
    /\ ASeq(t) /\ Len(t) = Len(s) - 1
    /\ \A i \in 1..Len(t) : \E k \in 1..Len(s) : t[i] = s[k]
    /\ \A i, j \in 1..Len(t) : i < j => \E k, l \in 1..Len(s) : k < l /\ t[i] = s[k] /\ t[j] = s[l]

LEMMA WithoutSeq ==
    ASSUME NEW s, ASeq(s), NEW j \in 1..Len(s)
    PROVE  Thinned(W!Without(s, j), s)
<1>1. Len(s) \in Nat /\ Len(s) - 1 \in Nat /\ j \in Nat
  BY LenNat, SMT
<1> DEFINE t == [i \in 1..(Len(s) - 1) |-> IF i < j THEN s[i] ELSE s[i + 1]]
<1>2. t = [i \in 1..(Len(s) - 1) |-> t[i]] /\ t = W!Without(s, j)
  BY Zenon DEF W!Without
<1>3. \A i \in 1..(Len(s) - 1) : t[i] = IF i < j THEN s[i] ELSE s[i + 1]
  BY Zenon
<1> HIDE DEF t
<1>4. ASeq(t) /\ Len(t) = Len(s) - 1
  BY <1>1, <1>2, FunctionSeq, Zenon
<1>5. \A i \in 1..Len(t) : i \in 1..Len(s) /\ i + 1 \in 1..Len(s)
  BY <1>1, <1>4, SMT
<1>6. \A i \in 1..Len(t) : \E k \in 1..Len(s) : t[i] = s[k]
  BY <1>3, <1>4, <1>5, Zenon
<1>7. ASSUME NEW i \in 1..Len(t), NEW m \in 1..Len(t), i < m
      PROVE  \E k, l \in 1..Len(s) : k < l /\ t[i] = s[k] /\ t[m] = s[l]
  <2>1. CASE i < j /\ m < j
    BY <1>3, <1>4, <1>5, <1>7, <2>1, Zenon
  <2>2. CASE i < j /\ ~(m < j)
    <3>1. i < m + 1
      BY <1>1, <1>4, <1>7, SMT
    <3> QED
      BY <1>3, <1>4, <1>5, <2>2, <3>1, Zenon
  <2>3. CASE ~(i < j)
    <3>1. i + 1 < m + 1 /\ ~(m < j)
      BY <1>1, <1>4, <1>7, <2>3, SMT
    <3> QED
      BY <1>3, <1>4, <1>5, <2>3, <3>1, Zenon
  <2> QED
    BY <2>1, <2>2, <2>3, Zenon
<1>8. Thinned(t, s)
  BY <1>4, <1>6, <1>7, Zenon DEF Thinned
<1> QED
  BY <1>2, <1>8, Zenon

(***************************************************************************)
(* The rate switch.                                                        *)
(***************************************************************************)
\* Outside set_baud's own switch the client knows the rate of the transport;
\* within it, the transport is at the rate that is tried.
BaudInv ==
    /\ hpc \in {"connect", "ready", "work", "ack", "switch"} => current = hbaud
    /\ hpc = "verify" => hbaud = target

LEMMA BaudKeeps ==
    ASSUME BaudInv, B!Next
    PROVE  BaudInv'
<1>1. CASE B!Open
  BY <1>1, Zenon DEF BaudInv, B!Open
<1>2. ASSUME NEW b \in B!Bauds, B!SetBaud(b) PROVE BaudInv'
  BY <1>2, Zenon DEF BaudInv, B!SetBaud
<1>3. CASE B!Work \/ B!RecvWork \/ B!Close \/ B!Connect
  BY <1>3, Zenon DEF BaudInv, B!Work, B!RecvWork, B!Close, B!Connect
<1>4. CASE B!RecvAck \/ B!HostSwitch \/ B!HostCannot
  BY <1>4, Zenon DEF BaudInv, B!RecvAck, B!HostSwitch, B!HostCannot
<1>5. CASE B!Verify \/ B!HostTimeout
  BY <1>5, Zenon DEF BaudInv, B!Verify, B!HostTimeout
<1>6. CASE B!AgentStep \/ B!LoseToAgent \/ B!LoseToHost
  BY <1>6, Zenon DEF BaudInv, B!AgentStep, B!AgentAck, B!AgentSwitch, B!AgentAnswer, B!AgentIdle,
     B!LoseToAgent, B!LoseToHost, B!host
<1> QED
  BY <1>1, <1>2, <1>3, <1>4, <1>5, <1>6, Zenon DEF B!Next, B!HostReacts

\* Between calls the client's idea of the rate is the transport's rate,
\* through any number of sessions, switches that are refused, time out or fail
\* to verify, and packets lost (set_baud, _switch_baud, _restore_baud).
THEOREM ClientKnowsItsRate == Spec => []CurrentIsReal
<1> DEFINE Inv == link = "baud" => BaudInv
<1>1. Init => Inv
  BY Zenon DEF Init, B!Init, BaudInv
<1>2. Inv /\ [Next]_allVars => Inv'
  <2> SUFFICES ASSUME Inv, [Next]_allVars, link' = "baud" PROVE BaudInv'
    BY Zenon
  <2>1. CASE Switching /\ B!Next
    BY <2>1, BaudKeeps, Zenon DEF Switching
  <2>2. CASE (Writing /\ W!Next) \/ (Sending /\ Y!Next)
    BY <2>2, Zenon DEF Writing, Sending
  <2>3. CASE UNCHANGED allVars
    BY <2>3, Zenon DEF allVars, line, switch, BaudInv
  <2> QED
    BY <2>1, <2>2, <2>3, Zenon DEF Next
<1>3. Inv => CurrentIsReal
  BY Zenon DEF BaudInv, CurrentIsReal, B!CurrentIsReal
<1> QED
  BY <1>1, <1>2, <1>3, PTL DEF Spec

(***************************************************************************)
(* The windowed write: steps that only lose ACKs or commands.              *)
(***************************************************************************)
\* The good ACKs of t, and the CMD_WRITEs of t, are ones of s, in that order.
FewerOks(t, s) ==
    /\ ASeq(t)
    /\ \A i \in 1..Len(t) : IsOk(t[i]) => \E k \in 1..Len(s) : t[i] = s[k]
    /\ \A i, j \in 1..Len(t) : i < j /\ IsOk(t[i]) /\ IsOk(t[j]) =>
         \E k, l \in 1..Len(s) : k < l /\ t[i] = s[k] /\ t[j] = s[l]
FewerWrites(t, s) ==
    /\ ASeq(t)
    /\ \A i \in 1..Len(t) : IsWrite(t[i]) => \E k \in 1..Len(s) : t[i] = s[k]
    /\ \A i, j \in 1..Len(t) : i < j /\ IsWrite(t[i]) /\ IsWrite(t[j]) =>
         \E k, l \in 1..Len(s) : k < l /\ t[i] = s[k] /\ t[j] = s[l]

LEMMA SameIsFewer ==
    ASSUME NEW s, ASeq(s)
    PROVE  FewerOks(s, s) /\ FewerWrites(s, s)
  BY Zenon DEF FewerOks, FewerWrites

LEMMA ThinnedIsFewer ==
    ASSUME NEW s, NEW t, Thinned(t, s)
    PROVE  FewerOks(t, s) /\ FewerWrites(t, s)
  BY Zenon DEF Thinned, FewerOks, FewerWrites

LEMMA RestIsThinned ==
    ASSUME NEW s, NEW t, Rest(t, s)
    PROVE  Thinned(t, s)
<1>1. \A i, j \in 1..Len(t) : i < j => i + 1 < j + 1
  <2>1. Len(t) \in Nat
    BY LenNat, Zenon DEF Rest
  <2> QED
    BY <2>1, SMT
<1> QED
  BY <1>1, Zenon DEF Thinned, Rest

LEMMA NoiseIsFewer ==
    ASSUME NEW s, NEW t, NEW x, ASeq(s), Grown(t, s, x), ~IsOk(x)
    PROVE  FewerOks(t, s)
<1>1. \A i \in 1..Len(t) : i \in 1..Len(s) \/ i = Len(s) + 1
  BY LenNat, SMT DEF Grown
<1>2. \A i \in 1..Len(t) : IsOk(t[i]) => i \in 1..Len(s) /\ t[i] = s[i]
  BY <1>1, Zenon DEF Grown
<1> QED
  BY <1>2, Zenon DEF FewerOks, Grown

LEMMA DamageIsFewer ==
    ASSUME NEW s, ASeq(s), NEW k \in 1..Len(s)
    PROVE  FewerWrites([s EXCEPT ![k] = W!Bad], s) /\ Len([s EXCEPT ![k] = W!Bad]) = Len(s)
           /\ \A i \in 1..Len(s) : [s EXCEPT ![k] = W!Bad][i] \in {s[i], W!Bad}
<1> DEFINE t == [s EXCEPT ![k] = W!Bad]
<1>1. PICK S : s \in Seq(S)
  BY Zenon DEF ASeq
<1>2. DOMAIN s = 1..Len(s) /\ Len(s) \in Nat
  BY <1>1, SMT
<1>3. t = [i \in 1..Len(s) |-> t[i]]
  BY <1>2, Zenon
<1>4. \A i \in 1..Len(s) : t[i] = IF i = k THEN W!Bad ELSE s[i]
  BY <1>2, Zenon
<1> HIDE DEF t
<1>5. ASeq(t) /\ Len(t) = Len(s)
  BY <1>2, <1>3, FunctionSeq, Zenon
<1>6. ~IsWrite(W!Bad)
  BY Zenon DEF IsWrite, W!Bad
<1>7. \A i \in 1..Len(s) : IsWrite(t[i]) => t[i] = s[i]
  BY <1>4, <1>6, Zenon
<1>8. FewerWrites(t, s) /\ Len(t) = Len(s) /\ \A i \in 1..Len(s) : t[i] \in {s[i], W!Bad}
  BY <1>4, <1>5, <1>7, Zenon DEF FewerWrites
<1> QED
  BY <1>8, Zenon DEF t

\* A step that loses ACKs or commands, or adds a bad ACK.
Quiet ==
    /\ UNCHANGED <<hpc, off, base, sent, acked, ram, arecv>>
    /\ FewerOks(d2h', d2h) /\ FewerWrites(h2d', h2d) /\ ablk' \in {0, ablk}

LEMMA FewerInOrder ==
    ASSUME InOrder, FewerOks(d2h', d2h), FewerWrites(h2d', h2d), ablk' \in {0, ablk}
    PROVE  InOrder'
<1>1. ASSUME NEW i \in 1..Len(d2h'), NEW j \in 1..Len(d2h'), i < j, IsOk(d2h'[i]), IsOk(d2h'[j])
      PROVE  Pos(d2h'[i]) < Pos(d2h'[j])
  BY <1>1, Zenon DEF InOrder, FewerOks
<1>2. ASSUME NEW i \in 1..Len(d2h'), IsOk(d2h'[i])
      PROVE  /\ ablk' # 0 => Pos(d2h'[i]) < 2 * ablk'
             /\ \A j \in 1..Len(h2d') : IsWrite(h2d'[j]) => Pos(d2h'[i]) < 2 * h2d'[j].blk - 1
  <2>1. PICK k \in 1..Len(d2h) : d2h'[i] = d2h[k]
    BY <1>2, Zenon DEF FewerOks
  <2>2. \A j \in 1..Len(h2d) : IsWrite(h2d[j]) => Pos(d2h'[i]) < 2 * h2d[j].blk - 1
    BY <1>2, <2>1, Zenon DEF InOrder
  <2>3. ablk # 0 => Pos(d2h'[i]) < 2 * ablk
    BY <1>2, <2>1, Zenon DEF InOrder
  <2> QED
    BY <2>2, <2>3, Zenon DEF FewerWrites
<1>3. ASSUME ablk' # 0, NEW j \in 1..Len(h2d'), IsWrite(h2d'[j])
      PROVE  ablk' < h2d'[j].blk
  BY <1>3, Zenon DEF InOrder, FewerWrites
<1>4. ASSUME NEW i \in 1..Len(h2d'), NEW j \in 1..Len(h2d'), i < j, IsWrite(h2d'[i]), IsWrite(h2d'[j])
      PROVE  h2d'[i].blk < h2d'[j].blk
  BY <1>4, Zenon DEF InOrder, FewerWrites
<1> QED
  BY <1>1, <1>2, <1>3, <1>4, Zenon DEF InOrder

LEMMA FewerBetween ==
    ASSUME NEW n, NEW m, Between(n, m),
           FewerOks(d2h', d2h), FewerWrites(h2d', h2d), ablk' \in {0, ablk}
    PROVE  Between(n, m)'
<1>1. ASSUME NEW i \in 1..Len(d2h'), IsOk(d2h'[i])
      PROVE  Pos(d2h'[i]) >= n /\ d2h'[i].blk <= m
  BY <1>1, Zenon DEF Between, FewerOks
<1>2. ASSUME NEW j \in 1..Len(h2d'), IsWrite(h2d'[j])
      PROVE  2 * h2d'[j].blk - 1 >= n /\ h2d'[j].blk <= m
  BY <1>2, Zenon DEF Between, FewerWrites
<1>3. ablk' # 0 => 2 * ablk' >= n /\ ablk' <= m
  BY Zenon DEF Between
<1> QED
  BY <1>1, <1>2, <1>3, Zenon DEF Between

LEMMA FewerTrue ==
    ASSUME CrcTrue, FewerOks(d2h', d2h), ram' = ram
    PROVE  CrcTrue'
<1>1. ASSUME NEW i \in 1..Len(d2h'), IsOk(d2h'[i]), d2h'[i].what = "crc"
      PROVE  W!CrcMatches(ram', d2h'[i].blk)
  <2>1. PICK k \in 1..Len(d2h) : d2h'[i] = d2h[k]
    BY <1>1, Zenon DEF FewerOks
  <2>2. W!CrcMatches(ram, d2h[k].blk)
    BY <1>1, <2>1, Zenon DEF CrcTrue, W!Written
  <2> QED
    BY <2>1, <2>2, Zenon
<1> QED
  BY <1>1, Zenon DEF CrcTrue, W!Written

LEMMA WrittenKept ==
    ASSUME ram' = ram, NEW n
    PROVE  WrittenUpTo(n) => WrittenUpTo(n)'
  BY Zenon DEF WrittenUpTo, W!Written

LEMMA QuietKeeps ==
    ASSUME WriteTypeOK, WindowInv, EndInv, Quiet
    PROVE  WriteTypeOK' /\ WindowInv' /\ EndInv'
<1>1. WriteTypeOK'
  <2>1. ASSUME NEW i \in 1..Len(d2h'), IsOk(d2h'[i])
        PROVE  d2h'[i].blk \in 1..Blocks /\ d2h'[i].what \in {"ready", "crc"}
    BY <2>1, Zenon DEF WriteTypeOK, Quiet, FewerOks
  <2>2. ASSUME NEW j \in 1..Len(h2d'), IsWrite(h2d'[j])
        PROVE  h2d'[j].blk \in 1..Blocks
    BY <2>2, Zenon DEF WriteTypeOK, Quiet, FewerWrites
  <2>3. ablk' \in 0..Blocks /\ (ablk' # 0 => arecv' < Chunks)
    <3>1. 0 \in 0..Blocks
      BY LinksAssumption, SMT
    <3> QED
      BY <3>1, Zenon DEF WriteTypeOK, Quiet
  <2> QED
    BY <2>1, <2>2, <2>3, Zenon DEF WriteTypeOK, Quiet, FewerOks, FewerWrites
<1>2. Counted' = Counted
  BY Zenon DEF Counted, Quiet
<1>3. ASSUME NEW n, NEW m, Between(n, m) PROVE Between(n, m)'
  BY <1>3, FewerBetween, Zenon DEF Quiet
<1>4. ASSUME NEW n, WrittenUpTo(n) PROVE WrittenUpTo(n)'
  BY <1>4, WrittenKept, Zenon DEF Quiet
<1>5. Exact => Exact'
  <2> SUFFICES ASSUME Exact PROVE Exact'
    BY Zenon
  <2>1. PICK n : n = Counted + 1
    BY Zenon
  <2>2. PICK m : m = off
    BY Zenon
  <2>3. PICK k : k = base + acked
    BY Zenon
  <2>4. Between(n, m)' /\ WrittenUpTo(k)'
    BY <1>3, <1>4, <2>1, <2>2, <2>3, Zenon DEF Exact
  <2> QED
    BY <1>2, <2>1, <2>2, <2>3, <2>4, Zenon DEF Exact, Quiet
<1>6. Behind => Behind'
  <2> SUFFICES ASSUME Behind PROVE Behind'
    BY Zenon
  <2>1. PICK n : n = Counted + 2
    BY Zenon
  <2>2. PICK m : m = off
    BY Zenon
  <2>4. Between(n, m)'
    BY <1>3, <2>1, <2>2, Zenon DEF Behind
  <2> QED
    BY <1>2, <2>1, <2>2, <2>4, Zenon DEF Behind, Quiet
<1>7. hpc = "drain" => Between(2 * base + 1, Blocks)'
  <2> SUFFICES ASSUME hpc = "drain" PROVE Between(2 * base + 1, Blocks)'
    BY Zenon
  <2>1. PICK n : n = 2 * base + 1
    BY Zenon
  <2>4. Between(n, Blocks)'
    BY <1>3, <2>1, Zenon DEF WindowInv
  <2> QED
    BY <2>1, <2>4, Zenon DEF Quiet
<1>8. WindowInv'
  <2>1. hpc \in {"top", "send", "ready", "crc"} => InOrder' /\ CrcTrue'
    BY FewerInOrder, FewerTrue, Zenon DEF WindowInv, Quiet
  <2> QED
    BY <1>5, <1>6, <1>7, <2>1, Zenon DEF WindowInv, Quiet
<1>9. EndInv'
  <2>1. PICK n : n = base
    BY Zenon
  <2>2. hpc \in {"top", "send", "ready", "crc", "drain"} => WrittenUpTo(base)'
    BY <1>4, <2>1, Zenon DEF EndInv, Quiet
  <2>3. hpc = "true" => WrittenUpTo(Blocks)'
    BY <1>4, Zenon DEF EndInv
  <2> QED
    BY <2>2, <2>3, Zenon DEF EndInv, Quiet, FewerWrites
<1> QED
  BY <1>1, <1>8, <1>9, Zenon

\* A step that leaves the host where it is and RAM as it is, when a block is
\* written alone.
LEMMA RetryKept ==
    ASSUME RetryInv, UNCHANGED <<hpc, off, base, acked, ram>>, hpc # "retry",
           OneBlock => OneBlock',
           hpc = "retryready" /\ OneBlock /\ Asked => Asked',
           hpc = "retrycrc" /\ OneBlock /\ Filled => Filled'
    PROVE  RetryInv'
<1>1. WrittenUpTo(off) => WrittenUpTo(off)'
  <2>1. PICK n : n = off
    BY Zenon
  <2> QED
    BY <2>1, WrittenKept, Zenon
<1> QED
  BY <1>1, Zenon DEF RetryInv

LEMMA LosePacketKeeps ==
    ASSUME WriteInv, W!LosePacket
    PROVE  WriteInv'
<1>1. PICK j \in 1..Len(h2d) : h2d' = W!Without(h2d, j)
  BY Zenon DEF W!LosePacket
<1>2. ASeq(h2d) /\ ASeq(d2h) /\ arecv \in Nat
  BY Zenon DEF WriteInv, WriteTypeOK
<1>3. UNCHANGED <<hpc, off, base, sent, acked, ram, arecv>> /\ ablk' = ablk /\ d2h' = d2h
  BY Zenon DEF W!LosePacket, W!host, W!agent
<1>4. Thinned(h2d', h2d)
  BY <1>1, <1>2, WithoutSeq, Zenon
<1>5. FewerOks(d2h', d2h) /\ FewerWrites(h2d', h2d)
  BY <1>2, <1>3, <1>4, SameIsFewer, ThinnedIsFewer, Zenon
<1>6. WriteTypeOK' /\ WindowInv' /\ EndInv'
  BY <1>3, <1>5, QuietKeeps, Zenon DEF WriteInv, Quiet
<1>7. Len(h2d) \in Nat /\ Len(h2d') \in Nat /\ (h2d' = <<>> <=> Len(h2d') = 0) /\ Len(h2d') = Len(h2d) - 1
      /\ (h2d = <<>> <=> Len(h2d) = 0)
  BY <1>2, <1>4, LenNat, Zenon DEF Thinned
<1>8. (Len(h2d) <= 1 => Len(h2d') <= 1 /\ h2d' = <<>>) /\ h2d # <<>>
  BY <1>1, <1>7, SMT
<1>9. Len(h2d) + arecv <= Chunks => Len(h2d') + arecv' <= Chunks
  <2>1. Chunks \in Nat
    BY LinksAssumption, Zenon
  <2> QED
    BY <1>2, <1>3, <1>7, <2>1, SMT
<1>10. \A i \in 1..Len(h2d') : \E k \in 1..Len(h2d) : h2d'[i] = h2d[k]
  BY <1>4, Zenon DEF Thinned
<1>11. OneBlock => OneBlock'
  BY <1>3, Zenon DEF OneBlock
<1>12. Asked => Asked'
  BY <1>3, <1>8, <1>10, Zenon DEF Asked
<1>13. Filled => Filled'
  BY <1>3, <1>8, <1>9, <1>10, Zenon DEF Filled
<1>14. RetryInv' 
  BY <1>3, <1>8, <1>11, <1>12, <1>13, RetryKept, Zenon DEF WriteInv, RetryInv
<1> QED
  BY <1>6, <1>14, Zenon DEF WriteInv

LEMMA LoseAckKeeps ==
    ASSUME WriteInv, W!LoseAck
    PROVE  WriteInv'
<1>1. PICK j \in 1..Len(d2h) : d2h' = W!Without(d2h, j)
  BY Zenon DEF W!LoseAck
<1>2. ASeq(h2d) /\ ASeq(d2h)
  BY Zenon DEF WriteInv, WriteTypeOK
<1>3. UNCHANGED <<hpc, off, base, sent, acked, ram, arecv>> /\ ablk' = ablk /\ h2d' = h2d
  BY Zenon DEF W!LoseAck, W!host, W!agent
<1>4. Thinned(d2h', d2h)
  BY <1>1, <1>2, WithoutSeq, Zenon
<1>5. FewerOks(d2h', d2h) /\ FewerWrites(h2d', h2d)
  BY <1>2, <1>3, <1>4, SameIsFewer, ThinnedIsFewer, Zenon
<1>6. WriteTypeOK' /\ WindowInv' /\ EndInv'
  BY <1>3, <1>5, QuietKeeps, Zenon DEF WriteInv, Quiet
<1>7. Len(d2h) \in Nat /\ Len(d2h') \in Nat /\ Len(d2h') = Len(d2h) - 1 /\ (d2h = <<>> <=> Len(d2h) = 0)
  BY <1>2, <1>4, LenNat, Zenon DEF Thinned
<1>8. /\ Len(d2h) <= 1 => Len(d2h') <= 1
      /\ d2h # <<>>
      /\ Len(d2h) = 1 => 1..Len(d2h') = {}
      /\ \A i \in 1..Len(d2h') : 1 \in 1..Len(d2h') /\ (i # 1 => 1 < i)
      /\ \A k, l \in 1..Len(d2h) : k < l => l # 1
  BY <1>1, <1>7, SMT
<1>10. \A i \in 1..Len(d2h') : \E k \in 1..Len(d2h) : d2h'[i] = d2h[k]
  BY <1>4, Zenon DEF Thinned
<1>11. OneBlock => OneBlock'
  BY <1>3, <1>10, Zenon DEF OneBlock
<1>12. Asked => Asked'
  <2> SUFFICES ASSUME Asked PROVE Asked'
    BY Zenon
  <2>1. ASSUME NEW i \in 1..Len(d2h'), IsOk(d2h'[i]) PROVE i = 1
    <3>1. SUFFICES ASSUME i # 1 PROVE FALSE
      BY Zenon
    <3>2. PICK k \in 1..Len(d2h), l \in 1..Len(d2h) : k < l /\ d2h'[1] = d2h[k] /\ d2h'[i] = d2h[l]
      BY <1>4, <1>8, <3>1, Zenon DEF Thinned
    <3> QED
      BY <1>8, <2>1, <3>2, Zenon DEF Asked
  <2> QED
    BY <1>3, <1>8, <2>1, Zenon DEF Asked
<1>13. Filled => Filled'
  BY <1>3, <1>8, <1>10, Zenon DEF Filled
<1>14. RetryInv'
  BY <1>3, <1>8, <1>11, <1>12, <1>13, RetryKept, Zenon DEF WriteInv, RetryInv
<1> QED
  BY <1>6, <1>14, Zenon DEF WriteInv

LEMMA DamageKeeps ==
    ASSUME WriteInv, W!Damage
    PROVE  WriteInv'
<1>1. PICK j \in 1..Len(h2d) : h2d' = [h2d EXCEPT ![j] = W!Bad]
  BY Zenon DEF W!Damage
<1>2. ASeq(h2d) /\ ASeq(d2h)
  BY Zenon DEF WriteInv, WriteTypeOK
<1>3. UNCHANGED <<hpc, off, base, sent, acked, ram, arecv>> /\ ablk' = ablk /\ d2h' = d2h
  BY Zenon DEF W!Damage, W!host, W!agent
<1>4. /\ FewerWrites(h2d', h2d) /\ Len(h2d') = Len(h2d)
      /\ \A i \in 1..Len(h2d) : h2d'[i] \in {h2d[i], W!Bad}
  BY <1>1, <1>2, DamageIsFewer, Zenon
<1>5. FewerOks(d2h', d2h)
  BY <1>2, <1>3, SameIsFewer, Zenon
<1>6. WriteTypeOK' /\ WindowInv' /\ EndInv'
  BY <1>3, <1>4, <1>5, QuietKeeps, Zenon DEF WriteInv, Quiet
<1>7. h2d # <<>>
  <2>1. Len(h2d) \in Nat /\ (h2d = <<>> <=> Len(h2d) = 0)
    BY <1>2, LenNat, Zenon
  <2> QED
    BY <1>1, <2>1, SMT
<1>8. W!Bad.op = "BAD"
  BY Zenon DEF W!Bad
<1>11. OneBlock => OneBlock'
  BY <1>3, Zenon DEF OneBlock
<1>12. Asked => Asked'
  BY <1>3, <1>4, <1>7, Zenon DEF Asked
<1>13. Filled => Filled'
  BY <1>3, <1>4, <1>7, <1>8, Zenon DEF Filled
<1>14. RetryInv'
  BY <1>3, <1>7, <1>11, <1>12, <1>13, RetryKept, Zenon DEF WriteInv, RetryInv
<1> QED
  BY <1>6, <1>14, Zenon DEF WriteInv

LEMMA OneLong ==
    ASSUME NEW n \in Nat, 1 \in 1..n, n <= 1
    PROVE  n = 1
  BY SMT

\* The head of the queue to the agent, and what is behind it.
LEMMA TakeHead ==
    ASSUME WriteTypeOK, h2d # <<>>, h2d' = Tail(h2d)
    PROVE  /\ Thinned(h2d', h2d) /\ Rest(h2d', h2d) /\ Head(h2d) = h2d[1] /\ 1 \in 1..Len(h2d)
           /\ Len(h2d) <= 1 => h2d' = <<>>
<1>1. ASeq(h2d)
  BY Zenon DEF WriteTypeOK
<1>2. Rest(h2d', h2d) /\ Head(h2d) = h2d[1] /\ 1 \in 1..Len(h2d) /\ (Len(h2d) = 1 => h2d' = <<>>)
  BY <1>1, TailSeq, Zenon
<1>3. Len(h2d) <= 1 => Len(h2d) = 1
  <2>1. Len(h2d) \in Nat
    BY <1>1, LenNat, Zenon
  <2> QED
    BY <1>2, <2>1, OneLong, Zenon
<1> QED
  BY <1>2, <1>3, RestIsThinned, Zenon

LEMMA AgentIgnoreKeeps ==
    ASSUME WriteInv, W!AgentIgnore
    PROVE  WriteInv'
<1>2. ASeq(d2h) /\ WriteTypeOK
  BY Zenon DEF WriteInv, WriteTypeOK
<1>3. /\ UNCHANGED <<hpc, off, base, sent, acked, ram, arecv>> /\ ablk' = ablk /\ d2h' = d2h
      /\ ablk # 0 /\ h2d # <<>> /\ h2d' = Tail(h2d) /\ Head(h2d).op = "WRITE"
  BY Zenon DEF W!AgentIgnore, W!host, W!agent
<1>4. Thinned(h2d', h2d) /\ Head(h2d) = h2d[1] /\ 1 \in 1..Len(h2d)
  BY <1>2, <1>3, TakeHead, Zenon
<1>5. FewerOks(d2h', d2h) /\ FewerWrites(h2d', h2d)
  BY <1>2, <1>3, <1>4, SameIsFewer, ThinnedIsFewer, Zenon
<1>6. WriteTypeOK' /\ WindowInv' /\ EndInv'
  BY <1>3, <1>5, QuietKeeps, Zenon DEF WriteInv, Quiet
<1>7. hpc \notin {"retry", "retryready", "retrycrc"}
  BY <1>3, <1>4, Zenon DEF WriteInv, RetryInv, Asked, Filled
<1>8. RetryInv'
  BY <1>3, <1>7, Zenon DEF RetryInv
<1> QED
  BY <1>6, <1>8, Zenon DEF WriteInv

LEMMA AgentStrayKeeps ==
    ASSUME WriteInv, W!AgentStray
    PROVE  WriteInv'
<1>1. PICK x : x = W!Ack("ERR", "stray", Head(h2d).blk)
  BY Zenon
<1>2. ASeq(d2h) /\ WriteTypeOK
  BY Zenon DEF WriteInv, WriteTypeOK
<1>3. /\ UNCHANGED <<hpc, off, base, sent, acked, ram, arecv>> /\ ablk' = ablk
      /\ ablk = 0 /\ h2d # <<>> /\ h2d' = Tail(h2d) /\ Head(h2d).op # "WRITE"
      /\ d2h' = IF Head(h2d).op = "DATA" THEN Append(d2h, x) ELSE d2h
  BY <1>1, Zenon DEF W!AgentStray, W!host, W!agent
<1>4. /\ Thinned(h2d', h2d) /\ Head(h2d) = h2d[1] /\ 1 \in 1..Len(h2d)
      /\ Len(h2d) <= 1 => h2d' = <<>>
  BY <1>2, <1>3, TakeHead, Zenon
<1>5. ~IsOk(x) /\ x.blk = h2d[1].blk
  BY <1>1, <1>4, Zenon DEF W!Ack, IsOk
<1>6. FewerOks(d2h', d2h)
  BY <1>2, <1>3, <1>5, SameIsFewer, NoiseIsFewer, AppendSeq, Zenon
<1>7. FewerWrites(h2d', h2d)
  BY <1>4, ThinnedIsFewer, Zenon
<1>8. WriteTypeOK' /\ WindowInv' /\ EndInv'
  BY <1>3, <1>6, <1>7, QuietKeeps, Zenon DEF WriteInv, Quiet
<1>9. hpc # "retry"
  BY <1>3, Zenon DEF WriteInv, RetryInv
<1>10. \A i \in 1..Len(h2d') : \E k \in 1..Len(h2d) : h2d'[i] = h2d[k]
  BY <1>4, Zenon DEF Thinned
<1>11. CASE hpc = "retryready"
  <2>1. OneBlock /\ Asked
    BY <1>11, Zenon DEF WriteInv, RetryInv
  <2>2. d2h' = d2h
    <3>1. W!WriteCmd(off + 1).op = "WRITE" /\ W!Bad.op # "DATA"
      BY Zenon DEF W!WriteCmd, W!Bad
    <3>2. h2d[1].op # "WRITE" /\ h2d[1] \in {W!WriteCmd(off + 1), W!Bad}
      BY <1>3, <1>4, <2>1, Zenon DEF Asked
    <3>3. Head(h2d).op # "DATA"
      BY <1>4, <3>1, <3>2, Zenon
    <3> QED
      BY <1>3, <3>3, Zenon
  <2>3. h2d' = <<>> /\ Len(h2d') <= 1
    <3>1. Len(<<>>) <= 1
      BY EmptySeq, SMT
    <3> QED
      BY <1>4, <2>1, <3>1, Zenon DEF Asked
  <2>4. OneBlock' /\ Asked'
    BY <1>3, <1>10, <2>1, <2>2, <2>3, Zenon DEF OneBlock, Asked
  <2> QED
    BY <1>3, <1>8, <1>11, <2>4, RetryKept, Zenon DEF WriteInv
<1>12. CASE hpc = "retrycrc"
  <2>1. OneBlock /\ Filled
    BY <1>12, Zenon DEF WriteInv, RetryInv
  <2>2. \A i \in 1..Len(d2h') : d2h'[i].blk = off + 1
    <3>1. CASE d2h' = d2h
      BY <2>1, <3>1, Zenon DEF OneBlock
    <3>2. CASE Head(h2d).op = "DATA"
      <4>1. x.blk = off + 1
        BY <1>4, <1>5, <2>1, <3>2, Zenon DEF Filled
      <4>2. Grown(d2h', d2h, x)
        BY <1>2, <1>3, <3>2, AppendSeq, Zenon
      <4>3. \A i \in 1..Len(d2h') : i \in 1..Len(d2h) \/ i = Len(d2h) + 1
        BY <1>2, <4>2, LenNat, SMT DEF Grown
      <4> QED
        BY <2>1, <4>1, <4>2, <4>3, Zenon DEF OneBlock, Grown
    <3> QED
      BY <1>3, <3>1, <3>2, Zenon
  <2>3. ~\E i \in 1..Len(d2h') : IsOk(d2h'[i])
    <3>1. ~\E k \in 1..Len(d2h) : IsOk(d2h[k])
      BY <1>3, <2>1, Zenon DEF Filled
    <3> QED
      BY <1>6, <3>1, Zenon DEF FewerOks
  <2>4. OneBlock'
    BY <1>3, <2>1, <2>2, Zenon DEF OneBlock
  <2>5. Filled'
    <3>1. ablk' = 0 /\ off' = off
      BY <1>3, Zenon
    <3> QED
      BY <3>1, <1>10, <2>1, <2>3, Zenon DEF Filled
  <2> QED
    BY <1>3, <1>8, <1>12, <2>4, <2>5, RetryKept, Zenon DEF WriteInv
<1>13. CASE hpc \notin {"retry", "retryready", "retrycrc"}
  BY <1>3, <1>8, <1>13, Zenon DEF WriteInv, RetryInv
<1> QED
  BY <1>9, <1>11, <1>12, <1>13, Zenon

LEMMA AgentGivesUpKeeps ==
    ASSUME WriteInv, W!AgentGivesUp
    PROVE  WriteInv'
<1>1. PICK x : x = W!Ack("ERR", "crc", ablk)
  BY Zenon
<1>2. ASeq(d2h) /\ ASeq(h2d) /\ WriteTypeOK
  BY Zenon DEF WriteInv, WriteTypeOK
<1>3. /\ UNCHANGED <<hpc, off, base, sent, acked, ram, arecv>> /\ ablk' = 0 /\ ablk # 0
      /\ (h2d # <<>> /\ h2d' = Tail(h2d)) \/ h2d' = h2d
      /\ d2h' = Append(d2h, x)
  BY <1>1, Zenon DEF W!AgentGivesUp, W!host
<1>4. /\ \A i \in 1..Len(h2d') : \E k \in 1..Len(h2d) : h2d'[i] = h2d[k]
      /\ FewerWrites(h2d', h2d)
  BY <1>2, <1>3, TakeHead, SameIsFewer, ThinnedIsFewer, Zenon DEF Thinned
<1>5. ~IsOk(x) /\ x.blk = ablk
  BY <1>1, Zenon DEF W!Ack, IsOk
<1>6. FewerOks(d2h', d2h) /\ Grown(d2h', d2h, x)
  BY <1>2, <1>3, <1>5, NoiseIsFewer, AppendSeq, Zenon
<1>8. WriteTypeOK' /\ WindowInv' /\ EndInv'
  BY <1>3, <1>4, <1>6, QuietKeeps, Zenon DEF WriteInv, Quiet
<1>9. hpc # "retry"
  BY <1>3, Zenon DEF WriteInv, RetryInv
<1>10. \A i \in 1..Len(d2h') : (i \in 1..Len(d2h) /\ d2h'[i] = d2h[i]) \/ d2h'[i] = x
  <2>1. \A i \in 1..Len(d2h') : i \in 1..Len(d2h) \/ i = Len(d2h) + 1
    BY <1>2, <1>6, LenNat, SMT DEF Grown
  <2> QED
    BY <1>6, <2>1, Zenon DEF Grown
<1>11. OneBlock => OneBlock'
  BY <1>3, <1>5, <1>10, Zenon DEF OneBlock
<1>12. Asked => Asked'
  <2> SUFFICES ASSUME Asked PROVE Asked'
    BY Zenon
  <2>1. h2d = <<>>
    BY <1>3, Zenon DEF Asked
  <2>2. h2d' = <<>>
    BY <1>3, <2>1, Zenon
  <2> QED
    BY <1>3, <1>5, <1>10, <2>1, <2>2, Zenon DEF Asked
<1>13. Filled => Filled'
  <2> SUFFICES ASSUME Filled PROVE Filled'
    BY Zenon
  <2>1. 1..Len(d2h) = {}
    BY <1>3, EmptySeq, Zenon DEF Filled
  <2>2. ~\E i \in 1..Len(d2h') : IsOk(d2h'[i])
    BY <1>5, <1>10, <2>1, Zenon
  <2> QED
    BY <1>3, <1>4, <2>2, Zenon DEF Filled
<1> QED
  BY <1>3, <1>8, <1>9, <1>11, <1>12, <1>13, RetryKept, Zenon DEF WriteInv

\* The places of a block's ACKs.
LEMMA PosFacts ==
    ASSUME NEW a, a.blk \in Nat, a.what \in {"ready", "crc"}
    PROVE  /\ Pos(a) \in Int /\ Pos(a) <= 2 * a.blk /\ Pos(a) >= 2 * a.blk - 1
           /\ (a.what = "crc" <=> Pos(a) = 2 * a.blk) /\ (a.what = "ready" <=> Pos(a) = 2 * a.blk - 1)
<1>1. CASE a.what = "crc"
  <2>1. Pos(a) = 2 * a.blk /\ a.what # "ready"
    BY <1>1, Zenon DEF Pos
  <2>2. PICK n \in Nat : n = a.blk
    BY Zenon
  <2>3. 2 * n \in Int /\ 2 * n <= 2 * n /\ 2 * n >= 2 * n - 1 /\ 2 * n # 2 * n - 1
    BY SMT
  <2> QED
    BY <1>1, <2>1, <2>2, <2>3, Zenon
<1>2. CASE a.what = "ready"
  <2>1. Pos(a) = 2 * a.blk - 1 /\ a.what # "crc"
    BY <1>2, Zenon DEF Pos
  <2>2. PICK n \in Nat : n = a.blk
    BY Zenon
  <2>3. 2 * n - 1 \in Int /\ 2 * n - 1 <= 2 * n /\ 2 * n - 1 >= 2 * n - 1 /\ 2 * n # 2 * n - 1
    BY SMT
  <2> QED
    BY <1>2, <2>1, <2>2, <2>3, Zenon
<1> QED
  BY <1>1, <1>2, Zenon

\* The agent takes a CMD_WRITE, or ends a block well: the ACK x it sends is
\* behind those sent before and ahead of those to come.
LEMMA AckInOrder ==
    ASSUME WriteTypeOK, InOrder, NEW x, x.blk \in 1..Blocks, x.what \in {"ready", "crc"},
           Grown(d2h', d2h, x), FewerWrites(h2d', h2d),
           ablk' \in {0, x.blk}, ablk' # 0 => x.what = "ready",
           \A i \in 1..Len(d2h) : IsOk(d2h[i]) => Pos(d2h[i]) < Pos(x),
           \A j \in 1..Len(h2d') : IsWrite(h2d'[j]) => x.blk < h2d'[j].blk
    PROVE  InOrder'
<1>1. \A i \in 1..Len(d2h') : \/ i \in 1..Len(d2h) /\ d2h'[i] = d2h[i]
                              \/ i = Len(d2h) + 1 /\ d2h'[i] = x
  <2>1. Len(d2h) \in Nat /\ Len(d2h') = Len(d2h) + 1
    BY LenNat, Zenon DEF Grown, WriteTypeOK
  <2>2. \A i \in 1..Len(d2h') : i \in 1..Len(d2h) \/ i = Len(d2h) + 1
    BY <2>1, SMT
  <2> QED
    BY <2>2, Zenon DEF Grown
<1>2. \A i, j \in 1..Len(d2h') : i < j => i \in 1..Len(d2h)
  <2>1. Len(d2h) \in Nat /\ Len(d2h') = Len(d2h) + 1
    BY LenNat, Zenon DEF Grown, WriteTypeOK
  <2> QED
    BY <2>1, SMT
<1>3. Pos(x) \in Int /\ Pos(x) <= 2 * x.blk /\ x.blk \in Nat /\ (x.what = "ready" => Pos(x) = 2 * x.blk - 1)
  <2>1. x.blk \in Nat
    BY LinksAssumption, SMT
  <2> QED
    BY <2>1, PosFacts, Zenon
<1>4. \A j \in 1..Len(h2d') : IsWrite(h2d'[j]) => h2d'[j].blk \in 1..Blocks
  BY Zenon DEF FewerWrites, WriteTypeOK
<1>5. \A j \in 1..Len(h2d') : IsWrite(h2d'[j]) => Pos(x) < 2 * h2d'[j].blk - 1
  <2> SUFFICES ASSUME NEW j \in 1..Len(h2d'), IsWrite(h2d'[j]) PROVE Pos(x) < 2 * h2d'[j].blk - 1
    BY Zenon
  <2>1. PICK b \in 1..Blocks : b = h2d'[j].blk
    BY <1>4, Zenon
  <2>2. PICK c \in Nat : c = x.blk
    BY <1>3, Zenon
  <2>3. PICK p \in Int : p = Pos(x)
    BY <1>3, Zenon
  <2>4. c < b /\ p <= 2 * c
    BY <1>3, <2>1, <2>2, <2>3, Zenon
  <2>5. p < 2 * b - 1
    BY <2>4, LinksAssumption, SMT
  <2> QED
    BY <2>1, <2>3, <2>5, Zenon
<1>6. ablk' # 0 => Pos(x) < 2 * ablk' /\ ablk' = x.blk
  <2> SUFFICES ASSUME ablk' # 0 PROVE Pos(x) < 2 * ablk' /\ ablk' = x.blk
    BY Zenon
  <2>1. Pos(x) = 2 * x.blk - 1 /\ ablk' = x.blk
    BY <1>3, Zenon
  <2>2. PICK c \in Nat : c = x.blk
    BY <1>3, Zenon
  <2>3. 2 * c - 1 < 2 * c
    BY SMT
  <2> QED
    BY <2>1, <2>2, <2>3, Zenon
<1>7. \A i \in 1..Len(d2h) : IsOk(d2h[i]) => Pos(d2h[i]) \in Int
  <2>1. \A i \in 1..Len(d2h) : IsOk(d2h[i]) => d2h[i].blk \in Nat
    <3>1. 1..Blocks \subseteq Nat
      BY LinksAssumption, SMT
    <3> QED
      BY <3>1, Zenon DEF WriteTypeOK
  <2> QED
    BY <2>1, PosFacts, Zenon DEF WriteTypeOK
<1>8. ASSUME NEW i \in 1..Len(d2h), IsOk(d2h[i])
      PROVE  ablk' # 0 => Pos(d2h[i]) < 2 * ablk'
  <2> SUFFICES ASSUME ablk' # 0 PROVE Pos(d2h[i]) < 2 * ablk'
    BY Zenon
  <2>1. PICK p \in Int : p = Pos(d2h[i])
    BY <1>7, <1>8, Zenon
  <2>2. PICK q \in Int : q = Pos(x)
    BY <1>3, Zenon
  <2>3. PICK c \in Nat : c = ablk'
    BY <1>3, <1>6, Zenon
  <2>4. p < q /\ q < 2 * c
    BY <1>6, <1>8, <2>1, <2>2, <2>3, Zenon
  <2>5. p < 2 * c
    BY <2>4, SMT
  <2> QED
    BY <2>1, <2>3, <2>5, Zenon
<1>9. ASSUME NEW i \in 1..Len(d2h), IsOk(d2h[i])
      PROVE  \A j \in 1..Len(h2d') : IsWrite(h2d'[j]) => Pos(d2h[i]) < 2 * h2d'[j].blk - 1
  BY <1>9, Zenon DEF InOrder, FewerWrites
<1>10. ASSUME NEW i \in 1..Len(d2h'), NEW j \in 1..Len(d2h'), i < j, IsOk(d2h'[i]), IsOk(d2h'[j])
       PROVE  Pos(d2h'[i]) < Pos(d2h'[j])
  <2>1. i \in 1..Len(d2h) /\ d2h'[i] = d2h[i]
    BY <1>2, <1>10, Zenon DEF Grown
  <2>2. CASE j \in 1..Len(d2h) /\ d2h'[j] = d2h[j]
    BY <1>10, <2>1, <2>2, Zenon DEF InOrder
  <2>3. CASE d2h'[j] = x
    BY <1>10, <2>1, <2>3, Zenon
  <2> QED
    BY <1>1, <2>2, <2>3, Zenon
<1>11. ASSUME NEW i \in 1..Len(d2h'), IsOk(d2h'[i])
       PROVE  /\ ablk' # 0 => Pos(d2h'[i]) < 2 * ablk'
              /\ \A j \in 1..Len(h2d') : IsWrite(h2d'[j]) => Pos(d2h'[i]) < 2 * h2d'[j].blk - 1
  BY <1>1, <1>5, <1>6, <1>8, <1>9, <1>11, Zenon
<1>12. ASSUME ablk' # 0, NEW j \in 1..Len(h2d'), IsWrite(h2d'[j])
       PROVE  ablk' < h2d'[j].blk
  BY <1>6, <1>12, Zenon
<1>13. ASSUME NEW i \in 1..Len(h2d'), NEW j \in 1..Len(h2d'), i < j, IsWrite(h2d'[i]), IsWrite(h2d'[j])
       PROVE  h2d'[i].blk < h2d'[j].blk
  BY <1>13, Zenon DEF InOrder, FewerWrites
<1> QED
  BY <1>10, <1>11, <1>12, <1>13, Zenon DEF InOrder

LEMMA AckBetween ==
    ASSUME WriteTypeOK, NEW n, NEW m, Between(n, m), NEW x,
           Grown(d2h', d2h, x), FewerWrites(h2d', h2d), ablk' \in {0, x.blk},
           Pos(x) >= n, 2 * x.blk >= n, x.blk <= m
    PROVE  Between(n, m)'
<1>1. \A i \in 1..Len(d2h') : d2h'[i] = x \/ (i \in 1..Len(d2h) /\ d2h'[i] = d2h[i])
  <2>1. Len(d2h) \in Nat /\ Len(d2h') = Len(d2h) + 1
    BY LenNat, Zenon DEF Grown, WriteTypeOK
  <2>2. \A i \in 1..Len(d2h') : i \in 1..Len(d2h) \/ i = Len(d2h) + 1
    BY <2>1, SMT
  <2> QED
    BY <2>2, Zenon DEF Grown
<1>2. ASSUME NEW i \in 1..Len(d2h'), IsOk(d2h'[i])
      PROVE  Pos(d2h'[i]) >= n /\ d2h'[i].blk <= m
  BY <1>1, <1>2, Zenon DEF Between
<1>3. ASSUME NEW j \in 1..Len(h2d'), IsWrite(h2d'[j])
      PROVE  2 * h2d'[j].blk - 1 >= n /\ h2d'[j].blk <= m
  BY <1>3, Zenon DEF Between, FewerWrites
<1>4. ablk' # 0 => 2 * ablk' >= n /\ ablk' <= m
  BY Zenon
<1> QED
  BY <1>2, <1>3, <1>4, Zenon DEF Between

\* Blocks but for the one handle_write receives stay as they are.
RamKept == \A b \in 1..Blocks : b # ablk /\ W!CrcMatches(ram, b) => W!CrcMatches(ram', b)

\* The block handle_write receives is one the host has not counted.
LEMMA NotCounted ==
    ASSUME WriteTypeOK, NEW k \in Nat, NEW n \in Int, n >= 2 * k + 1, NEW m, Between(n, m),
           RamKept, WrittenUpTo(k)
    PROVE  WrittenUpTo(k)'
<1>1. ASSUME NEW b \in 1..Blocks, b <= k PROVE b # ablk
  <2>1. CASE ablk = 0
    BY <2>1, SMT
  <2>2. CASE ablk # 0
    <3>1. 2 * ablk >= n
      BY <2>2, Zenon DEF Between
    <3>2. ablk \in Nat
      BY LinksAssumption, SMT DEF WriteTypeOK
    <3> QED
      BY <1>1, <3>1, <3>2, SMT
  <2> QED
    BY <2>1, <2>2, Zenon
<1> QED
  BY <1>1, Zenon DEF WrittenUpTo, RamKept, W!Written

\* What a step of the agent has to keep, for the windows of the host.
LEMMA AgentKeeps ==
    ASSUME WriteTypeOK, WindowInv, EndInv, RamKept,
           UNCHANGED <<hpc, off, base, sent, acked>>, hpc # "true",
           InOrder /\ CrcTrue => InOrder' /\ CrcTrue',
           \A n \in Int : \A m \in Nat : Between(n, m) => Between(n, m)'
    PROVE  WindowInv' /\ EndInv'
<1>1. base \in Nat /\ acked \in Nat /\ off \in Nat /\ Blocks \in Nat
  <2>1. 0..Blocks \subseteq Nat /\ Blocks \in Nat
    BY LinksAssumption, SMT
  <2> QED
    BY <2>1, Zenon DEF WriteTypeOK
<1>2. /\ Counted' = Counted /\ Counted \in Nat /\ Counted + 1 \in Int /\ Counted + 2 \in Int
      /\ Counted + 1 >= 2 * (base + acked) + 1 /\ Counted + 1 >= 2 * base + 1
      /\ Counted + 2 >= 2 * base + 1 /\ base + acked \in Nat /\ 2 * base + 1 \in Int
      /\ 2 * base + 1 >= 2 * base + 1
  <2>1. Counted' = Counted
    BY Zenon DEF Counted
  <2>2. Counted = 2 * (base + acked) + 1 \/ Counted = 2 * (base + acked)
    BY Zenon DEF Counted
  <2> HIDE DEF Counted
  <2> QED
    BY <1>1, <2>1, <2>2, SMT
<1>3. Exact => Exact' /\ WrittenUpTo(base + acked)'
  <2> SUFFICES ASSUME Exact PROVE Exact' /\ WrittenUpTo(base + acked)'
    BY Zenon
  <2>1. PICK n \in Int : n = Counted + 1
    BY <1>2, Zenon
  <2>2. PICK m \in Nat : m = off
    BY <1>1, Zenon
  <2>3. PICK k \in Nat : k = base + acked
    BY <1>2, Zenon
  <2>4. Between(n, m) /\ Between(n, m)' /\ WrittenUpTo(k) /\ n >= 2 * k + 1
    BY <1>2, <2>1, <2>2, <2>3, Zenon DEF Exact
  <2>5. WrittenUpTo(k)'
    BY <2>4, NotCounted, Zenon
  <2> QED
    BY <1>2, <2>1, <2>2, <2>3, <2>4, <2>5, Zenon DEF Exact
<1>4. Behind => Behind'
  <2> SUFFICES ASSUME Behind PROVE Behind'
    BY Zenon
  <2>1. PICK n \in Int : n = Counted + 2
    BY <1>2, Zenon
  <2>2. PICK m \in Nat : m = off
    BY <1>1, Zenon
  <2>3. Between(n, m)'
    BY <2>1, <2>2, Zenon DEF Behind
  <2> QED
    BY <1>2, <2>1, <2>2, <2>3, Zenon DEF Behind
<1>5. hpc = "drain" => Between(2 * base + 1, Blocks)'
  <2> SUFFICES ASSUME hpc = "drain" PROVE Between(2 * base + 1, Blocks)'
    BY Zenon
  <2>1. PICK n \in Int : n = 2 * base + 1
    BY <1>2, Zenon
  <2>2. Between(n, Blocks)'
    BY <1>1, <2>1, Zenon DEF WindowInv
  <2> QED
    BY <2>1, <2>2, Zenon
<1>6. WindowInv'
  BY <1>3, <1>4, <1>5, Zenon DEF WindowInv
<1>7. hpc \in {"top", "send", "ready", "crc", "drain"} => WrittenUpTo(base)'
  <2> SUFFICES ASSUME hpc \in {"top", "send", "ready", "crc", "drain"} PROVE WrittenUpTo(base)'
    BY Zenon
  <2>1. PICK k \in Nat : k = base
    BY <1>1, Zenon
  <2>2. WrittenUpTo(k)
    BY <2>1, Zenon DEF EndInv
  <2>3. \E n \in Int : \E m : n >= 2 * k + 1 /\ Between(n, m)
    BY <1>2, <2>1, Zenon DEF WindowInv, Exact, Behind
  <2>4. WrittenUpTo(k)'
    BY <2>2, <2>3, NotCounted, Zenon
  <2> QED
    BY <2>1, <2>4, Zenon
<1> QED
  BY <1>6, <1>7, Zenon DEF EndInv

LEMMA AgentWriteKeeps ==
    ASSUME WriteInv, W!AgentWrite
    PROVE  WriteInv'
<1>1. PICK b : b = Head(h2d).blk
  BY Zenon
<1>2. PICK x : x = W!Ack("OK", "ready", b)
  BY Zenon
<1>3. /\ UNCHANGED <<hpc, off, base, sent, acked, ram>> /\ ablk' = b /\ ablk = 0
      /\ h2d # <<>> /\ h2d' = Tail(h2d) /\ Head(h2d).op = "WRITE"
      /\ arecv' = 0 /\ d2h' = Append(d2h, x)
  BY <1>1, <1>2, Zenon DEF W!AgentWrite, W!host
<1>4. WriteTypeOK /\ ASeq(d2h) /\ ASeq(h2d) /\ WindowInv /\ RetryInv /\ EndInv
  BY Zenon DEF WriteInv, WriteTypeOK
<1>5. /\ Thinned(h2d', h2d) /\ Rest(h2d', h2d) /\ Head(h2d) = h2d[1] /\ 1 \in 1..Len(h2d)
      /\ Len(h2d) <= 1 => h2d' = <<>>
  BY <1>3, <1>4, TakeHead, Zenon
<1>6. IsWrite(h2d[1]) /\ h2d[1].blk = b /\ b \in 1..Blocks
  BY <1>1, <1>3, <1>4, <1>5, Zenon DEF IsWrite, WriteTypeOK
<1>7. IsOk(x) /\ x.blk = b /\ x.what = "ready" /\ Pos(x) = 2 * b - 1
  BY <1>2, Zenon DEF W!Ack, IsOk, Pos
<1>8. Grown(d2h', d2h, x)
  BY <1>3, <1>4, AppendSeq, Zenon
<1>9. FewerWrites(h2d', h2d)
  BY <1>5, ThinnedIsFewer, Zenon
<1>10. \A i \in 1..Len(d2h') : (i \in 1..Len(d2h) /\ d2h'[i] = d2h[i]) \/ (i = Len(d2h) + 1 /\ d2h'[i] = x)
  <2>1. Len(d2h) \in Nat /\ Len(d2h') = Len(d2h) + 1
    BY <1>4, <1>8, LenNat, Zenon DEF Grown
  <2>2. \A i \in 1..Len(d2h') : i \in 1..Len(d2h) \/ i = Len(d2h) + 1
    BY <2>1, SMT
  <2> QED
    BY <1>8, <2>2, Zenon DEF Grown
<1>11. WriteTypeOK'
  <2>1. 0 \in Nat /\ 0 < Chunks /\ b \in 0..Blocks
    BY <1>6, LinksAssumption, SMT
  <2>2. \A i \in 1..Len(d2h') : IsOk(d2h'[i]) => d2h'[i].blk \in 1..Blocks /\ d2h'[i].what \in {"ready", "crc"}
    BY <1>4, <1>6, <1>7, <1>10, Zenon DEF WriteTypeOK
  <2>3. \A j \in 1..Len(h2d') : IsWrite(h2d'[j]) => h2d'[j].blk \in 1..Blocks
    BY <1>4, <1>9, Zenon DEF WriteTypeOK, FewerWrites
  <2> QED
    BY <1>3, <1>4, <1>8, <1>9, <2>1, <2>2, <2>3, Zenon DEF WriteTypeOK, Grown, FewerWrites
<1>12. RamKept
  BY <1>3, Zenon DEF RamKept
<1>13. InOrder /\ CrcTrue => InOrder' /\ CrcTrue'
  <2> SUFFICES ASSUME InOrder, CrcTrue PROVE InOrder' /\ CrcTrue'
    BY Zenon
  <2>1. \A i \in 1..Len(d2h) : IsOk(d2h[i]) => Pos(d2h[i]) < Pos(x)
    BY <1>5, <1>6, <1>7, Zenon DEF InOrder
  <2>2. \A j \in 1..Len(h2d') : j + 1 \in 1..Len(h2d) /\ 1 < j + 1 /\ h2d'[j] = h2d[j + 1]
    <3>1. \A j \in 1..Len(h2d') : 1 < j + 1
      BY SMT
    <3> QED
      BY <1>5, <3>1, Zenon DEF Rest
  <2>3. \A j \in 1..Len(h2d') : IsWrite(h2d'[j]) => x.blk < h2d'[j].blk
    BY <1>5, <1>6, <1>7, <2>2, Zenon DEF InOrder
  <2>4. InOrder'
    BY <1>3, <1>4, <1>6, <1>7, <1>8, <1>9, <2>1, <2>3, AckInOrder, Zenon
  <2>5. CrcTrue'
    BY <1>3, <1>7, <1>10, Zenon DEF CrcTrue, W!Written
  <2> QED
    BY <2>4, <2>5, Zenon
<1>14. ASSUME NEW n \in Int, NEW m \in Nat, Between(n, m) PROVE Between(n, m)'
  <2>1. 2 * b - 1 >= n /\ b <= m
    BY <1>5, <1>6, <1>14, Zenon DEF Between
  <2>2. 2 * b >= n
    BY <1>6, <2>1, LinksAssumption, SMT
  <2> QED
    BY <1>3, <1>4, <1>7, <1>8, <1>9, <1>14, <2>1, <2>2, AckBetween, Zenon
<1>15. hpc # "true"
  BY <1>4, <1>5, <1>6, Zenon DEF EndInv
<1>16. WindowInv' /\ EndInv'
  BY <1>3, <1>4, <1>12, <1>13, <1>14, <1>15, AgentKeeps, Zenon
<1>17. hpc \notin {"retry", "retrycrc"}
  BY <1>3, <1>4, <1>5, Zenon DEF RetryInv, Filled
<1>18. CASE hpc = "retryready"
  <2>1. OneBlock /\ Asked
    BY <1>4, <1>18, Zenon DEF RetryInv
  <2>2. b = off + 1
    <3>1. h2d[1] \in {W!WriteCmd(off + 1), W!Bad}
      BY <1>5, <2>1, Zenon DEF Asked
    <3>2. W!WriteCmd(off + 1).blk = off + 1 /\ ~IsWrite(W!Bad)
      BY Zenon DEF W!WriteCmd, W!Bad, IsWrite
    <3> QED
      BY <1>6, <3>1, <3>2, Zenon
  <2>3. d2h = <<>> /\ h2d' = <<>> /\ 1..Len(h2d') = {} /\ Len(h2d') <= 1
    <3>1. Len(<<>>) <= 1 /\ 1..Len(<<>>) = {}
      BY EmptySeq, SMT
    <3> QED
      BY <1>3, <1>5, <2>1, <3>1, Zenon DEF Asked
  <2>4. Len(d2h') <= 1 /\ \A i \in 1..Len(d2h') : i = 1 /\ d2h'[i] = x
    <3>1. Len(d2h) = 0 /\ Len(d2h') = Len(d2h) + 1
      BY <1>8, <2>3, EmptySeq, Zenon DEF Grown
    <3>2. Len(d2h') <= 1 /\ Len(d2h) + 1 = 1 /\ 1..Len(d2h) = {}
      BY <3>1, SMT
    <3> QED
      BY <1>10, <3>2, Zenon
  <2>5. OneBlock' /\ Asked'
    BY <1>3, <1>7, <2>1, <2>2, <2>3, <2>4, Zenon DEF OneBlock, Asked
  <2> QED
    BY <1>3, <1>4, <1>11, <1>16, <1>18, <2>5, RetryKept, Zenon DEF WriteInv
<1>19. CASE hpc # "retryready"
  BY <1>3, <1>11, <1>16, <1>17, <1>19, Zenon DEF WriteInv, RetryInv
<1> QED
  BY <1>18, <1>19, Zenon

LEMMA OldCrcs ==
    ASSUME WriteTypeOK, InOrder, CrcTrue, RamKept, ablk # 0
    PROVE  \A i \in 1..Len(d2h) :
             IsOk(d2h[i]) /\ d2h[i].what = "crc" => W!CrcMatches(ram', d2h[i].blk)
<1> SUFFICES ASSUME NEW i \in 1..Len(d2h), IsOk(d2h[i]), d2h[i].what = "crc"
             PROVE  W!CrcMatches(ram', d2h[i].blk)
  BY Zenon
<1>1. PICK b \in 1..Blocks : b = d2h[i].blk
  BY Zenon DEF WriteTypeOK
<1>2. 2 * b < 2 * ablk
  BY <1>1, Zenon DEF InOrder, Pos
<1>3. b # ablk
  <2>1. ablk \in Nat /\ b \in Nat
    BY LinksAssumption, SMT DEF WriteTypeOK
  <2> QED
    BY <1>2, <2>1, SMT
<1> QED
  BY <1>1, <1>3, Zenon DEF RamKept, CrcTrue, W!Written

\* A chunk more in RAM.
LEMMA ChunkKeeps ==
    ASSUME WriteTypeOK, W!AgentData
    PROVE  RamKept /\ DOMAIN ram' = 1..Blocks
<1>1. PICK c : ram' = [ram EXCEPT ![ablk][arecv + 1] = c]
  BY Zenon DEF W!AgentData
<1>2. \A b \in 1..Blocks : b # ablk => ram'[b] = ram[b]
  BY <1>1, Zenon DEF WriteTypeOK
<1>3. DOMAIN ram' = 1..Blocks
  BY <1>1, Zenon DEF WriteTypeOK
<1> QED
  BY <1>2, <1>3, Zenon DEF RamKept, W!CrcMatches

LEMMA AgentDataKeeps ==
    ASSUME WriteInv, W!AgentData
    PROVE  WriteInv'
<1>1. PICK x : x = W!Ack(IF W!CrcMatches(ram', ablk) THEN "OK" ELSE "ERR", "crc", ablk)
  BY Zenon
<1>2. /\ UNCHANGED <<hpc, off, base, sent, acked>> /\ ablk # 0 /\ arecv' = arecv + 1
      /\ h2d # <<>> /\ h2d' = Tail(h2d)
      /\ \/ arecv + 1 < Chunks /\ ablk' = ablk /\ d2h' = d2h
         \/ ~(arecv + 1 < Chunks) /\ ablk' = 0 /\ d2h' = Append(d2h, x)
  BY <1>1, Zenon DEF W!AgentData, W!host
<1>3. WriteTypeOK /\ ASeq(d2h) /\ ASeq(h2d) /\ WindowInv /\ RetryInv /\ EndInv
  BY Zenon DEF WriteInv, WriteTypeOK
<1>4. /\ Thinned(h2d', h2d) /\ Rest(h2d', h2d)
      /\ Len(h2d) <= 1 => h2d' = <<>>
  BY <1>2, <1>3, TakeHead, Zenon
<1>5. FewerWrites(h2d', h2d)
  BY <1>4, ThinnedIsFewer, Zenon
<1>6. RamKept /\ DOMAIN ram' = 1..Blocks
  BY <1>3, ChunkKeeps, Zenon
<1>7. x.blk = ablk /\ x.what = "crc" /\ Pos(x) = 2 * ablk /\ (IsOk(x) => W!CrcMatches(ram', ablk))
  BY <1>1, Zenon DEF W!Ack, IsOk, Pos
<1>8. ablk \in 1..Blocks /\ ablk \in Nat /\ arecv \in Nat /\ arecv + 1 \in Nat /\ Chunks \in Nat /\ off \in Nat
  BY <1>2, <1>3, LinksAssumption, SMT DEF WriteTypeOK
<1>9. d2h' = Append(d2h, x) =>
        /\ Grown(d2h', d2h, x)
        /\ \A i \in 1..Len(d2h') : (i \in 1..Len(d2h) /\ d2h'[i] = d2h[i]) \/ d2h'[i] = x
  <2> SUFFICES ASSUME d2h' = Append(d2h, x)
               PROVE  /\ Grown(d2h', d2h, x)
                      /\ \A i \in 1..Len(d2h') : (i \in 1..Len(d2h) /\ d2h'[i] = d2h[i]) \/ d2h'[i] = x
    BY Zenon
  <2>1. Grown(d2h', d2h, x)
    BY <1>3, AppendSeq, Zenon
  <2>2. Len(d2h) \in Nat /\ Len(d2h') = Len(d2h) + 1
    BY <1>3, <2>1, LenNat, Zenon DEF Grown
  <2>3. \A i \in 1..Len(d2h') : i \in 1..Len(d2h) \/ i = Len(d2h) + 1
    BY <2>2, SMT
  <2> QED
    BY <2>1, <2>3, Zenon DEF Grown
<1>10. \A i \in 1..Len(d2h') : (i \in 1..Len(d2h) /\ d2h'[i] = d2h[i]) \/ (d2h'[i] = x /\ ablk' = 0)
  BY <1>2, <1>9, Zenon
<1>11. WriteTypeOK'
  <2>1. ablk' \in 0..Blocks /\ (ablk' # 0 => arecv' < Chunks)
    BY <1>2, <1>8, LinksAssumption, SMT
  <2>2. \A i \in 1..Len(d2h') : IsOk(d2h'[i]) => d2h'[i].blk \in 1..Blocks /\ d2h'[i].what \in {"ready", "crc"}
    BY <1>3, <1>7, <1>8, <1>10, Zenon DEF WriteTypeOK
  <2>3. \A j \in 1..Len(h2d') : IsWrite(h2d'[j]) => h2d'[j].blk \in 1..Blocks
    BY <1>3, <1>5, Zenon DEF WriteTypeOK, FewerWrites
  <2>4. ASeq(h2d') /\ ASeq(d2h')
    BY <1>2, <1>3, <1>5, <1>9, Zenon DEF FewerWrites, Grown
  <2>5. arecv' \in Nat
    BY <1>2, <1>8, Zenon
  <2> QED
    BY <1>2, <1>3, <1>6, <2>1, <2>2, <2>3, <2>4, <2>5, Zenon DEF WriteTypeOK
<1>12. InOrder /\ CrcTrue => InOrder' /\ CrcTrue'
  <2> SUFFICES ASSUME InOrder, CrcTrue PROVE InOrder' /\ CrcTrue'
    BY Zenon
  <2>1. InOrder'
    <3>1. CASE ablk' = ablk /\ d2h' = d2h
      BY <1>3, <1>5, <3>1, SameIsFewer, FewerInOrder, Zenon
    <3>2. CASE ablk' = 0 /\ d2h' = Append(d2h, x) /\ IsOk(x)
      <4>1. \A i \in 1..Len(d2h) : IsOk(d2h[i]) => Pos(d2h[i]) < Pos(x)
        BY <1>2, <1>7, Zenon DEF InOrder
      <4>2. \A j \in 1..Len(h2d') : IsWrite(h2d'[j]) => x.blk < h2d'[j].blk
        BY <1>2, <1>5, <1>7, Zenon DEF InOrder, FewerWrites
      <4> QED
        BY <1>3, <1>5, <1>7, <1>8, <1>9, <3>2, <4>1, <4>2, AckInOrder, Zenon
    <3>3. CASE ablk' = 0 /\ d2h' = Append(d2h, x) /\ ~IsOk(x)
      BY <1>3, <1>5, <1>9, <3>3, NoiseIsFewer, FewerInOrder, Zenon
    <3> QED
      BY <1>2, <3>1, <3>2, <3>3, Zenon
  <2>2. CrcTrue'
    BY <1>2, <1>3, <1>6, <1>7, <1>10, OldCrcs, Zenon DEF CrcTrue, W!Written
  <2> QED
    BY <2>1, <2>2, Zenon
<1>13. ASSUME NEW n \in Int, NEW m \in Nat, Between(n, m) PROVE Between(n, m)'
  <2>1. CASE ablk' = ablk /\ d2h' = d2h
    BY <1>3, <1>5, <1>13, <2>1, SameIsFewer, FewerBetween, Zenon
  <2>2. CASE ablk' = 0 /\ d2h' = Append(d2h, x)
    <3>1. 2 * ablk >= n /\ ablk <= m
      BY <1>2, <1>13, Zenon DEF Between
    <3> QED
      BY <1>3, <1>5, <1>7, <1>9, <1>13, <2>2, <3>1, AckBetween, Zenon
  <2> QED
    BY <1>2, <2>1, <2>2, Zenon
<1>14. hpc # "true"
  BY <1>2, <1>3, Zenon DEF EndInv
<1>15. WindowInv' /\ EndInv'
  BY <1>2, <1>3, <1>6, <1>12, <1>13, <1>14, AgentKeeps, Zenon
<1>16. hpc \notin {"retry", "retryready"}
  BY <1>2, <1>3, Zenon DEF RetryInv, Asked
<1>17. CASE hpc = "retrycrc"
  <2>1. OneBlock /\ Filled /\ off = base + acked /\ WrittenUpTo(off)
    BY <1>3, <1>17, Zenon DEF RetryInv
  <2>2. ablk = off + 1 /\ d2h = <<>> /\ 1..Len(d2h) = {}
    BY <1>2, <2>1, EmptySeq, Zenon DEF OneBlock, Filled
  <2>3. WrittenUpTo(off)'
    <3>1. PICK k \in Nat : k = off
      BY <1>8, Zenon
    <3>2. \A b \in 1..Blocks : b <= k => b # k + 1
      BY LinksAssumption, SMT
    <3>3. WrittenUpTo(k)'
      BY <1>6, <2>1, <2>2, <3>1, <3>2, Zenon DEF WrittenUpTo, RamKept, W!Written
    <3> QED
      BY <1>2, <3>1, <3>3, Zenon
  <2>4. OneBlock'
    BY <1>2, <1>7, <1>10, <2>1, <2>2, Zenon DEF OneBlock
  <2>5. /\ Len(h2d') + arecv' <= Chunks
        /\ ~(arecv + 1 < Chunks) => h2d' = <<>>
    <3>1. Len(h2d) \in Nat /\ Len(h2d') = Len(h2d) - 1 /\ Len(h2d) + arecv <= Chunks
      BY <1>2, <1>3, <1>4, <2>1, LenNat, Zenon DEF Filled, Thinned
    <3>2. Len(h2d') + arecv' <= Chunks /\ (~(arecv + 1 < Chunks) => Len(h2d) <= 1)
      BY <1>2, <1>8, <3>1, SMT
    <3> QED
      BY <1>4, <3>2, Zenon
  <2>6. d2h' = Append(d2h, x) => Len(d2h') = 1
    <3>1. Len(d2h) = 0
      BY <2>2, EmptySeq, Zenon
    <3> QED
      BY <1>9, <3>1, SMT DEF Grown
  <2>7. \A j \in 1..Len(h2d') : h2d'[j].op = "BAD" \/ (h2d'[j].op = "DATA" /\ h2d'[j].blk = off + 1)
    <3>1. \A i \in 1..Len(h2d') : \E k \in 1..Len(h2d) : h2d'[i] = h2d[k]
      BY <1>4, Zenon DEF Thinned
    <3>2. \A k \in 1..Len(h2d) : h2d[k].op = "BAD" \/ (h2d[k].op = "DATA" /\ h2d[k].blk = off + 1)
      BY <2>1, Zenon DEF Filled
    <3> QED
      BY <3>1, <3>2, Zenon
  <2>8. ablk' = 0 /\ (\E i \in 1..Len(d2h') : IsOk(d2h'[i])) =>
          h2d' = <<>> /\ Len(d2h') = 1 /\ W!CrcMatches(ram', off + 1)
    BY <1>2, <1>7, <1>10, <2>2, <2>5, <2>6, Zenon
  <2>9. Filled'
    BY <1>2, <2>2, <2>5, <2>7, <2>8, Zenon DEF Filled, W!Written
  <2> QED
    BY <1>2, <1>11, <1>15, <1>17, <2>1, <2>3, <2>4, <2>9, Zenon DEF WriteInv, RetryInv
<1>18. CASE hpc # "retrycrc"
  BY <1>2, <1>11, <1>15, <1>16, <1>18, Zenon DEF WriteInv, RetryInv
<1> QED
  BY <1>17, <1>18, Zenon

(***************************************************************************)
(* The windowed write: the host's steps.                                   *)
(***************************************************************************)
LEMMA Numbers ==
    ASSUME WriteTypeOK
    PROVE  /\ off \in Nat /\ off <= Blocks /\ base \in Nat /\ acked \in Nat /\ sent \in Nat
           /\ ablk \in Nat /\ Blocks \in Nat /\ Chunks \in Nat /\ Chunks > 0
<1>1. 0..Blocks \subseteq Nat /\ Blocks \in Nat /\ Chunks \in Nat /\ Chunks > 0
      /\ \A n \in 0..Blocks : n <= Blocks
  BY LinksAssumption, SMT
<1> QED
  BY <1>1, Zenon DEF WriteTypeOK

LEMMA CountedIs ==
    ASSUME WriteTypeOK
    PROVE  /\ hpc # "crc" => Counted = 2 * (base + acked)
           /\ hpc = "crc" => Counted = 2 * (base + acked) + 1
           /\ Counted \in Nat
<1>1. base \in Nat /\ acked \in Nat
  BY Zenon DEF WriteTypeOK
<1>2. 2 * (base + acked) \in Nat /\ 2 * (base + acked) + 1 \in Nat
  BY <1>1, SMT
<1> QED
  BY <1>2, Zenon DEF Counted

\* The blocks and ACKs that InOrder and Between speak of are numbers.
LEMMA OkNumbers ==
    ASSUME WriteTypeOK
    PROVE  /\ \A i \in 1..Len(d2h) : IsOk(d2h[i]) =>
                d2h[i].blk \in Nat /\ Pos(d2h[i]) \in Int /\ Pos(d2h[i]) <= 2 * d2h[i].blk
           /\ \A j \in 1..Len(h2d) : IsWrite(h2d[j]) => h2d[j].blk \in Nat
<1>1. 1..Blocks \subseteq Nat
  BY LinksAssumption, SMT
<1>2. \A i \in 1..Len(d2h) : IsOk(d2h[i]) => d2h[i].blk \in Nat /\ d2h[i].what \in {"ready", "crc"}
  BY <1>1, Zenon DEF WriteTypeOK
<1> QED
  BY <1>1, <1>2, PosFacts, Zenon DEF WriteTypeOK

LEMMA Weaken ==
    ASSUME WriteTypeOK, NEW n \in Int, NEW k \in Int, k <= n, NEW m \in Nat, NEW l \in Nat, m <= l, Between(n, m)
    PROVE  Between(k, l)
<1>1. \A p \in Int : p >= n => p >= k
  BY SMT
<1>2. \A p \in Nat : p <= m => p <= l
  BY SMT
<1>3. \A p \in Nat : 2 * p \in Int /\ 2 * p - 1 \in Int
  BY SMT
<1>4. ablk \in Nat
  BY Numbers, Zenon
<1>5. \A i \in 1..Len(d2h) : IsOk(d2h[i]) => Pos(d2h[i]) >= k /\ d2h[i].blk <= l
  BY <1>1, <1>2, OkNumbers, Zenon DEF Between
<1>6. \A j \in 1..Len(h2d) : IsWrite(h2d[j]) => 2 * h2d[j].blk - 1 >= k /\ h2d[j].blk <= l
  BY <1>1, <1>2, <1>3, OkNumbers, Zenon DEF Between
<1>7. ablk # 0 => 2 * ablk >= k /\ ablk <= l
  BY <1>1, <1>2, <1>3, <1>4, Zenon DEF Between
<1> QED
  BY <1>5, <1>6, <1>7, Zenon DEF Between

\* Nothing is to come for the blocks up to m when it would have to be for
\* later ones.
LEMMA NothingToCome ==
    ASSUME WriteTypeOK, NEW m \in Nat, Between(2 * m + 1, m)
    PROVE  ablk = 0 /\ \A j \in 1..Len(h2d) : ~IsWrite(h2d[j])
<1>1. \A p \in Nat : p <= m => ~(2 * p >= 2 * m + 1) /\ ~(2 * p - 1 >= 2 * m + 1)
  BY SMT
<1> QED
  BY <1>1, Numbers, OkNumbers, Zenon DEF Between

LEMMA StartWindowKeeps ==
    ASSUME WriteInv, W!StartWindow
    PROVE  WriteInv'
<1>1. /\ hpc = "top" /\ hpc' = "send" /\ base' = off /\ sent' = 0 /\ acked' = 0
      /\ UNCHANGED <<off, ablk, arecv, ram, h2d, d2h>>
  BY Zenon DEF W!StartWindow, W!agent
<1>2. WriteTypeOK /\ InOrder /\ CrcTrue /\ Exact /\ off = base + acked
  BY <1>1, Zenon DEF WriteInv, WindowInv
<1>3. off \in Nat /\ 0 \in Nat /\ off + 0 = off /\ off = base' + sent'
  BY <1>1, <1>2, Numbers, SMT
<1>4. WriteTypeOK'
  BY <1>1, <1>2, <1>3, Zenon DEF WriteTypeOK
<1>5. Counted' = Counted
  <2>1. Counted = 2 * (base + acked)
    BY <1>1, <1>2, CountedIs, Zenon
  <2>2. Counted' = 2 * (base' + acked')
    BY <1>1, Zenon DEF Counted
  <2> QED
    BY <1>1, <1>2, <1>3, <2>1, <2>2, Zenon
<1>6. InOrder' /\ CrcTrue'
  BY <1>1, <1>2, Zenon DEF InOrder, CrcTrue, W!Written
<1>7. Exact'
  BY <1>1, <1>2, <1>3, <1>5, Zenon DEF Exact, Between, WrittenUpTo, W!Written
<1>8. WrittenUpTo(base)'
  BY <1>1, <1>2, Zenon DEF Exact, WrittenUpTo, W!Written
<1> QED
  BY <1>1, <1>3, <1>4, <1>6, <1>7, <1>8, Zenon DEF WriteInv, WindowInv, RetryInv, EndInv

LEMMA WindowSentKeeps ==
    ASSUME WriteInv, W!WindowSent
    PROVE  WriteInv'
<1>1. /\ hpc = "send" /\ hpc' = "ready"
      /\ UNCHANGED <<off, base, sent, acked, ablk, arecv, ram, h2d, d2h>>
  BY Zenon DEF W!WindowSent, W!agent
<1>2. WriteTypeOK /\ InOrder /\ CrcTrue /\ Exact /\ off = base + sent /\ WrittenUpTo(base)
  BY <1>1, Zenon DEF WriteInv, WindowInv, EndInv
<1>3. WriteTypeOK'
  BY <1>1, <1>2, Zenon DEF WriteTypeOK
<1>4. Counted' = Counted
  BY <1>1, Zenon DEF Counted
<1>5. InOrder' /\ CrcTrue' /\ Exact' /\ WrittenUpTo(base)'
  BY <1>1, <1>2, <1>4, Zenon DEF InOrder, CrcTrue, Exact, Between, WrittenUpTo, W!Written
<1> QED
  BY <1>1, <1>2, <1>3, <1>5, Zenon DEF WriteInv, WindowInv, RetryInv, EndInv

LEMMA ReturnKeeps ==
    ASSUME WriteInv, W!Return
    PROVE  WriteInv'
<1>1. /\ hpc = "top" /\ hpc' = "true" /\ off >= Blocks
      /\ UNCHANGED <<off, base, sent, acked, ablk, arecv, ram, h2d, d2h>>
  BY Zenon DEF W!Return, W!agent
<1>2. WriteTypeOK /\ Exact /\ off = base + acked
  BY <1>1, Zenon DEF WriteInv, WindowInv
<1>3. WriteTypeOK'
  BY <1>1, <1>2, Zenon DEF WriteTypeOK
<1>4. off = Blocks /\ off \in Nat
  BY <1>1, <1>2, Numbers, SMT
<1>5. Counted = 2 * off
  BY <1>1, <1>2, CountedIs, Zenon
<1>6. Between(2 * off + 1, off) /\ WrittenUpTo(Blocks)
  BY <1>2, <1>4, <1>5, Zenon DEF Exact
<1>7. ablk = 0 /\ \A j \in 1..Len(h2d) : ~IsWrite(h2d[j])
  BY <1>2, <1>4, <1>6, NothingToCome, Zenon
<1>8. WrittenUpTo(Blocks)'
  BY <1>1, <1>6, Zenon DEF WrittenUpTo, W!Written
<1> QED
  BY <1>1, <1>3, <1>7, <1>8, Zenon DEF WriteInv, WindowInv, RetryInv, EndInv

LEMMA DataSeq ==
    ASSUME NEW b
    PROVE  /\ ASeq(W!DataOf(b)) /\ Len(W!DataOf(b)) = Chunks
           /\ \A k \in 1..Chunks : W!DataOf(b)[k].op = "DATA" /\ W!DataOf(b)[k].blk = b
<1> DEFINE f == [k \in 1..Chunks |-> W!DataPkt(b, k)]
<1>1. f = W!DataOf(b) /\ f = [k \in 1..Chunks |-> f[k]]
  BY Zenon DEF W!DataOf
<1>2. \A k \in 1..Chunks : f[k].op = "DATA" /\ f[k].blk = b
  BY Zenon DEF W!DataPkt
<1> HIDE DEF f
<1>3. Chunks \in Nat
  BY LinksAssumption, Zenon
<1>4. ASeq(f) /\ Len(f) = Chunks
  BY <1>1, <1>3, FunctionSeq, Zenon
<1> QED
  BY <1>1, <1>2, <1>4, Zenon

\* The packets of a block behind the others.
LEMMA BlockSeq ==
    ASSUME NEW s, ASeq(s), NEW b
    PROVE  LET t == s \o <<W!WriteCmd(b)>> \o W!DataOf(b) IN
           /\ ASeq(t)
           /\ \A j \in 1..Len(t) : IsWrite(t[j]) =>
                \/ j \in 1..Len(s) /\ t[j] = s[j]
                \/ j = Len(s) + 1 /\ t[j] = W!WriteCmd(b)
<1> DEFINE w == <<W!WriteCmd(b)>>
           d == W!DataOf(b)
           u == s \o w
           t == u \o d
<1>1. ASeq(w) /\ Len(w) = 1 /\ w[1] = W!WriteCmd(b)
  BY SingleSeq, Zenon
<1>2. ASeq(d) /\ Len(d) = Chunks /\ \A k \in 1..Chunks : ~IsWrite(d[k])
  BY DataSeq, Zenon DEF IsWrite
<1> HIDE DEF w, d
<1>3. Joined(u, s, w)
  BY <1>1, ConcatSeq, Zenon
<1> HIDE DEF u
<1>4. Joined(t, u, d)
  <2>1. ASeq(u)
    BY <1>3, Zenon DEF Joined
  <2> QED
    BY <1>2, <2>1, ConcatSeq, Zenon
<1> HIDE DEF t
<1>5. Len(s) \in Nat /\ Chunks \in Nat /\ Len(u) = Len(s) + 1 /\ Len(t) = Len(u) + Chunks
  BY <1>1, <1>2, <1>3, <1>4, LinksAssumption, LenNat, Zenon DEF Joined
<1>6. ASSUME NEW j \in 1..Len(t), IsWrite(t[j])
      PROVE  \/ j \in 1..Len(s) /\ t[j] = s[j]
             \/ j = Len(s) + 1 /\ t[j] = W!WriteCmd(b)
  <2>1. CASE j \in 1..Len(s)
    <3>1. j \in 1..Len(u)
      BY <1>5, <2>1, SMT
    <3> QED
      BY <1>3, <1>4, <2>1, <3>1, Zenon DEF Joined
  <2>2. CASE j = Len(s) + 1
    <3>1. j \in 1..Len(u) /\ 1 \in 1..1
      BY <1>5, <2>2, SMT
    <3> QED
      BY <1>1, <1>3, <1>4, <2>2, <3>1, Zenon DEF Joined
  <2>3. CASE j \notin 1..Len(s) /\ j # Len(s) + 1
    <3>1. PICK k \in 1..Chunks : j = Len(u) + k
      <4>1. j - Len(u) \in 1..Chunks /\ j = Len(u) + (j - Len(u))
        BY <1>5, <2>3, SMT
      <4> QED
        BY <4>1, Zenon
    <3>2. t[j] = d[k]
      BY <1>2, <1>4, <3>1, Zenon DEF Joined
    <3> QED
      BY <1>2, <1>6, <3>2, Zenon
  <2> QED
    BY <2>1, <2>2, <2>3, Zenon
<1>7. ASeq(t)
  BY <1>4, Zenon DEF Joined
<1> QED
  BY <1>6, <1>7, Zenon DEF t, u, w, d

LEMMA SendBlockKeeps ==
    ASSUME WriteInv, W!SendBlock
    PROVE  WriteInv'
<1>1. PICK b : b = off + 1
  BY Zenon
<1>2. /\ hpc = "send" /\ hpc' = "send" /\ off < Blocks /\ off' = b /\ sent' = sent + 1
      /\ UNCHANGED <<base, acked, ablk, arecv, ram, d2h>>
      /\ h2d' = h2d \o <<W!WriteCmd(b)>> \o W!DataOf(b)
  BY <1>1, Zenon DEF W!SendBlock, W!agent
<1>3. WriteTypeOK /\ InOrder /\ CrcTrue /\ Exact /\ off = base + sent /\ WrittenUpTo(base) /\ acked = 0
  BY <1>2, Zenon DEF WriteInv, WindowInv, EndInv
<1>4. /\ off \in Nat /\ base \in Nat /\ b \in 1..Blocks /\ b \in 0..Blocks /\ sent + 1 \in Nat
      /\ b = base + (sent + 1) /\ base <= off /\ off <= b /\ b \in Nat
  BY <1>1, <1>2, <1>3, Numbers, SMTT(30)
<1>5. /\ ASeq(h2d')
      /\ \A j \in 1..Len(h2d') : IsWrite(h2d'[j]) =>
           \/ j \in 1..Len(h2d) /\ h2d'[j] = h2d[j]
           \/ j = Len(h2d) + 1 /\ h2d'[j] = W!WriteCmd(b)
  BY <1>2, <1>3, BlockSeq, Zenon DEF WriteTypeOK
<1>6. W!WriteCmd(b).blk = b
  BY Zenon DEF W!WriteCmd
<1>7. \A i, j \in 1..Len(h2d') : i < j /\ IsWrite(h2d'[i]) /\ IsWrite(h2d'[j]) => i \in 1..Len(h2d)
  <2>1. Len(h2d) \in Nat
    BY <1>3, LenNat, Zenon DEF WriteTypeOK
  <2>2. \A j \in 1..Len(h2d') : IsWrite(h2d'[j]) => j \in 1..Len(h2d) \/ j = Len(h2d) + 1
    BY <1>5, Zenon
  <2>3. \A i, j \in 1..Len(h2d') : i < j /\ (j \in 1..Len(h2d) \/ j = Len(h2d) + 1) => i \in 1..Len(h2d)
    BY <2>1, SMT
  <2> QED
    BY <2>2, <2>3, Zenon
<1>8. WriteTypeOK'
  <2>1. \A j \in 1..Len(h2d') : IsWrite(h2d'[j]) => h2d'[j].blk \in 1..Blocks
    BY <1>3, <1>4, <1>5, <1>6, Zenon DEF WriteTypeOK
  <2> QED
    BY <1>2, <1>3, <1>4, <1>5, <2>1, Zenon DEF WriteTypeOK
<1>9. PICK n \in Int : n = 2 * base + 1
  BY <1>4, SMT
<1>10. base + acked = base
  BY <1>3, <1>4, SMT
<1>11. Counted = 2 * base /\ Counted' = 2 * base
  BY <1>2, <1>10, Zenon DEF Counted
<1>12. Between(n, off) /\ 2 * b - 1 >= n
  <2>1. Between(n, off)
    BY <1>3, <1>9, <1>11, Zenon DEF Exact
  <2>2. 2 * b - 1 >= n
    BY <1>1, <1>4, <1>9, SMT
  <2> QED
    BY <2>1, <2>2, Zenon
<1>13. Between(n, b)
  <2>1. n <= n
    BY SMT
  <2> QED
    BY <1>3, <1>4, <1>12, <2>1, Weaken, Zenon
<1>14. Exact'
  <2>1. \A j \in 1..Len(h2d') : IsWrite(h2d'[j]) => 2 * h2d'[j].blk - 1 >= n /\ h2d'[j].blk <= b
    <3>1. b <= b
      BY <1>4, SMT
    <3> QED
      BY <1>5, <1>6, <1>12, <1>13, <3>1, Zenon DEF Between
  <2>2. Between(n, b)'
    BY <1>2, <1>13, <2>1, Zenon DEF Between
  <2>3. WrittenUpTo(base + acked)'
    BY <1>2, <1>3, Zenon DEF Exact, WrittenUpTo, W!Written
  <2> QED
    BY <1>2, <1>9, <1>11, <2>2, <2>3, Zenon DEF Exact
<1>15. InOrder'
  <2>1. \A i \in 1..Len(d2h) : IsOk(d2h[i]) => Pos(d2h[i]) < 2 * b - 1
    <3>1. \A p \in Int : \A c \in Nat : p <= 2 * c /\ c <= off => p < 2 * b - 1
      BY <1>1, <1>4, SMT
    <3> QED
      BY <1>3, <1>12, <3>1, OkNumbers, Zenon DEF Between
  <2>2. ablk # 0 => ablk < b
    <3>1. \A c \in Nat : c <= off => c < b
      BY <1>1, <1>4, SMT
    <3> QED
      BY <1>3, <1>12, <3>1, Numbers, Zenon DEF Between
  <2>3. \A j \in 1..Len(h2d) : IsWrite(h2d[j]) => h2d[j].blk < b
    <3>1. \A c \in Nat : c <= off => c < b
      BY <1>1, <1>4, SMT
    <3> QED
      BY <1>3, <1>12, <3>1, OkNumbers, Zenon DEF Between
  <2>4. ASSUME NEW i \in 1..Len(h2d'), NEW j \in 1..Len(h2d'), i < j, IsWrite(h2d'[i]), IsWrite(h2d'[j])
        PROVE  h2d'[i].blk < h2d'[j].blk
    <3>1. i \in 1..Len(h2d)
      BY <1>7, <2>4, Zenon
    <3>2. h2d'[i] = h2d[i]
      <4>1. i # Len(h2d) + 1
        <5>1. Len(h2d) \in Nat
          BY <1>3, LenNat, Zenon DEF WriteTypeOK
        <5> QED
          BY <3>1, <5>1, SMT
      <4> QED
        BY <1>5, <2>4, <4>1, Zenon
    <3> QED
      BY <1>3, <1>5, <1>6, <2>3, <2>4, <3>1, <3>2, Zenon DEF InOrder
  <2>5. ASSUME NEW i \in 1..Len(d2h'), IsOk(d2h'[i])
        PROVE  /\ ablk' # 0 => Pos(d2h'[i]) < 2 * ablk'
               /\ \A j \in 1..Len(h2d') : IsWrite(h2d'[j]) => Pos(d2h'[i]) < 2 * h2d'[j].blk - 1
    BY <1>2, <1>3, <1>5, <1>6, <2>1, <2>5, Zenon DEF InOrder
  <2>6. ASSUME ablk' # 0, NEW j \in 1..Len(h2d'), IsWrite(h2d'[j])
        PROVE  ablk' < h2d'[j].blk
    BY <1>2, <1>3, <1>5, <1>6, <2>2, <2>6, Zenon DEF InOrder
  <2>7. \A i, j \in 1..Len(d2h') :
          i < j /\ IsOk(d2h'[i]) /\ IsOk(d2h'[j]) => Pos(d2h'[i]) < Pos(d2h'[j])
    BY <1>2, <1>3, Zenon DEF InOrder
  <2> QED
    BY <2>4, <2>5, <2>6, <2>7, Zenon DEF InOrder
<1>16. CrcTrue' /\ WrittenUpTo(base)'
  BY <1>2, <1>3, Zenon DEF CrcTrue, WrittenUpTo, W!Written
<1>17. off' = base' + sent' /\ acked' = 0
  BY <1>2, <1>3, <1>4, Zenon
<1> QED
  BY <1>2, <1>8, <1>14, <1>15, <1>16, <1>17, Zenon DEF WriteInv, WindowInv, RetryInv, EndInv

\* The head of the queue to the host, and what is behind it.
LEMMA TakeAck ==
    ASSUME WriteTypeOK, d2h # <<>>, d2h' = Tail(d2h), h2d' = h2d
    PROVE  /\ Rest(d2h', d2h) /\ Head(d2h) = d2h[1] /\ 1 \in 1..Len(d2h)
           /\ (Len(d2h) = 1 => d2h' = <<>>)
           /\ FewerOks(d2h', d2h) /\ FewerWrites(h2d', h2d)
<1>1. ASeq(d2h) /\ ASeq(h2d)
  BY Zenon DEF WriteTypeOK
<1>2. Rest(d2h', d2h) /\ Head(d2h) = d2h[1] /\ 1 \in 1..Len(d2h) /\ (Len(d2h) = 1 => d2h' = <<>>)
  BY <1>1, TailSeq, Zenon
<1>3. Thinned(d2h', d2h)
  BY <1>2, RestIsThinned, Zenon
<1> QED
  BY <1>1, <1>2, <1>3, ThinnedIsFewer, SameIsFewer, Zenon

AckRead ==
    /\ hpc \in {"ready", "crc"} /\ d2h # <<>> /\ d2h' = Tail(d2h)
    /\ UNCHANGED <<off, base, sent, ablk, arecv, ram, h2d>>

\* Reading a good ACK, everything left comes behind it.
LEMMA AfterHead ==
    ASSUME WriteTypeOK, InOrder, AckRead, IsOk(Head(d2h)), NEW m \in Nat, NEW n \in Int, Between(n, m)
    PROVE  \E p \in Int : /\ p = Pos(Head(d2h)) /\ p >= n /\ p <= 2 * m
                          /\ \A k \in Int : k <= p + 1 => Between(k, m)'
<1>1. Rest(d2h', d2h) /\ Head(d2h) = d2h[1] /\ 1 \in 1..Len(d2h) /\ ablk' = ablk /\ h2d' = h2d
  BY TakeAck, Zenon DEF AckRead
<1>2. PICK p : p = Pos(d2h[1])
  BY Zenon
<1>3. d2h[1].blk \in Nat /\ p \in Int /\ p <= 2 * d2h[1].blk /\ p >= n /\ d2h[1].blk <= m
  BY <1>1, <1>2, OkNumbers, Zenon DEF Between
<1>4. p <= 2 * m
  <2>1. PICK b \in Nat : b = d2h[1].blk
    BY <1>3, Zenon
  <2>2. p <= 2 * b /\ b <= m
    BY <1>3, <2>1, Zenon
  <2> QED
    BY <1>3, <2>2, SMT
<1>5. ASSUME NEW k \in Int, k <= p + 1
      PROVE  Between(k, m)'
  <2>1. \A q \in Int : p < q => q >= k
    BY <1>3, <1>5, SMT
  <2>2. \A q \in Nat : 2 * q \in Int /\ 2 * q - 1 \in Int
    BY SMT
  <2>3. \A i \in 1..Len(d2h') : 1 < i + 1
    <3>1. Len(d2h') \in Nat
      BY <1>1, LenNat, Zenon DEF Rest
    <3> QED
      BY <3>1, SMT
  <2>4. ASSUME NEW i \in 1..Len(d2h'), IsOk(d2h'[i])
        PROVE  Pos(d2h'[i]) >= k /\ d2h'[i].blk <= m
    <3>1. i + 1 \in 1..Len(d2h) /\ d2h'[i] = d2h[i + 1]
      BY <1>1, Zenon DEF Rest
    <3>2. Pos(d2h[1]) < Pos(d2h[i + 1])
      BY <1>1, <2>3, <2>4, <3>1, Zenon DEF InOrder
    <3>3. Pos(d2h[i + 1]) \in Int /\ d2h[i + 1].blk <= m
      BY <2>4, <3>1, OkNumbers, Zenon DEF Between
    <3> QED
      BY <1>2, <2>1, <3>1, <3>2, <3>3, Zenon
  <2>5. ablk # 0 => 2 * ablk >= k /\ ablk <= m
    <3>1. ablk # 0 => p < 2 * ablk /\ ablk <= m
      BY <1>1, <1>2, Zenon DEF InOrder, Between
    <3>2. ablk \in Nat
      BY Numbers, Zenon
    <3> QED
      BY <2>1, <2>2, <3>1, <3>2, Zenon
  <2>6. ASSUME NEW j \in 1..Len(h2d), IsWrite(h2d[j])
        PROVE  2 * h2d[j].blk - 1 >= k /\ h2d[j].blk <= m
    <3>1. p < 2 * h2d[j].blk - 1 /\ h2d[j].blk <= m
      BY <1>1, <1>2, <2>6, Zenon DEF InOrder, Between
    <3>2. h2d[j].blk \in Nat
      BY <2>6, OkNumbers, Zenon
    <3> QED
      BY <2>1, <2>2, <3>1, <3>2, Zenon
  <2> QED
    BY <1>1, <2>4, <2>5, <2>6, Zenon DEF Between
<1> QED
  BY <1>1, <1>2, <1>3, <1>4, <1>5, Zenon

\* It is the next one the host counts, or one too late.
LEMMA CountStep ==
    ASSUME WriteInv, AckRead, IsOk(Head(d2h)), NEW c \in Nat, c = Counted, NEW m \in Nat, m = off
    PROVE  \/ Pos(Head(d2h)) = c + 1 /\ Between(c + 2, m)' /\ Exact
           \/ c + 2 <= 2 * m /\ Between(c + 3, m)'
<1>1. WriteTypeOK /\ InOrder /\ (Exact \/ Behind)
  BY Zenon DEF WriteInv, WindowInv, AckRead
<1>2. c + 1 \in Int /\ c + 2 \in Int /\ c + 3 \in Int /\ c + 2 = (c + 1) + 1
  BY SMT
<1>3. CASE Behind
  <2>1. Between(c + 2, m)
    BY <1>3, Zenon DEF Behind
  <2>2. PICK p \in Int : /\ p >= c + 2 /\ p <= 2 * m
                         /\ \A k \in Int : k <= p + 1 => Between(k, m)'
    BY <1>1, <1>2, <2>1, AfterHead, Zenon
  <2>3. c + 2 <= 2 * m /\ c + 3 <= p + 1
    <3>1. p >= c + 2 /\ p <= 2 * m
      BY <2>2, Zenon
    <3> QED
      BY <3>1, SMT
  <2> QED
    BY <1>2, <2>2, <2>3, Zenon
<1>4. CASE Exact
  <2>1. Between(c + 1, m)
    BY <1>4, Zenon DEF Exact
  <2>2. PICK p \in Int : /\ p = Pos(Head(d2h)) /\ p >= c + 1 /\ p <= 2 * m
                         /\ \A k \in Int : k <= p + 1 => Between(k, m)'
    BY <1>1, <1>2, <2>1, AfterHead, Zenon
  <2>3. (p = c + 1 /\ c + 2 <= p + 1) \/ (c + 2 <= 2 * m /\ c + 3 <= p + 1)
    <3>1. p >= c + 1 /\ p <= 2 * m
      BY <2>2, Zenon
    <3> QED
      BY <3>1, SMT
  <2> QED
    BY <1>2, <1>4, <2>2, <2>3, Zenon
<1> QED
  BY <1>1, <1>3, <1>4, Zenon

\* What reading an ACK leaves as it is.
LEMMA ReadKeeps ==
    ASSUME WriteInv, AckRead
    PROVE  /\ InOrder' /\ CrcTrue' /\ WrittenUpTo(base)' /\ off = base + sent
           /\ hpc' \in {"top", "ready", "crc", "drain"} /\ acked' \in Nat => WriteTypeOK'
<1>1. WriteTypeOK /\ InOrder /\ CrcTrue /\ WrittenUpTo(base) /\ off = base + sent
  BY Zenon DEF WriteInv, WindowInv, EndInv, AckRead
<1>2. /\ FewerOks(d2h', d2h) /\ FewerWrites(h2d', h2d) /\ ablk' \in {0, ablk} /\ ram' = ram
      /\ ASeq(d2h') /\ UNCHANGED <<off, base, sent, ablk, arecv, h2d>>
  BY <1>1, TakeAck, Zenon DEF AckRead, Rest
<1>3. InOrder' /\ CrcTrue'
  BY <1>1, <1>2, FewerInOrder, FewerTrue, Zenon
<1>4. WrittenUpTo(base)'
  BY <1>1, <1>2, Zenon DEF WrittenUpTo, W!Written
<1>5. ASSUME NEW i \in 1..Len(d2h'), IsOk(d2h'[i])
      PROVE  d2h'[i].blk \in 1..Blocks /\ d2h'[i].what \in {"ready", "crc"}
  BY <1>1, <1>2, <1>5, Zenon DEF FewerOks, WriteTypeOK
<1>6. hpc' \in {"top", "ready", "crc", "drain"} /\ acked' \in Nat => WriteTypeOK'
  BY <1>1, <1>2, <1>5, Zenon DEF WriteTypeOK
<1> QED
  BY <1>1, <1>3, <1>4, <1>6, Zenon

\* When it is a bad one, or none comes, all that is left is of this window.
LEMMA WindowFails ==
    ASSUME WriteInv, hpc \in {"ready", "crc"}
    PROVE  base <= off /\ Between(2 * base + 1, Blocks)
<1>1. WriteTypeOK /\ off = base + sent /\ (Exact \/ Behind)
  BY Zenon DEF WriteInv, WindowInv
<1>2. base <= off
  BY <1>1, Numbers, SMT
<1>3. PICK n \in Int : n = Counted + 1
  BY <1>1, CountedIs, SMT
<1>4. PICK l \in Int : l = Counted + 2
  BY <1>1, CountedIs, SMT
<1>5. 2 * base + 1 \in Int /\ 2 * base + 1 <= n /\ 2 * base + 1 <= l
  <2>1. Counted \in Nat /\ (Counted = 2 * (base + acked) \/ Counted = 2 * (base + acked) + 1)
    BY <1>1, CountedIs, Zenon
  <2>2. base \in Nat /\ acked \in Nat
    BY <1>1, Numbers, Zenon
  <2> QED
    BY <1>3, <1>4, <2>1, <2>2, SMT
<1>6. Between(n, off) \/ Between(l, off)
  BY <1>1, <1>3, <1>4, Zenon DEF Exact, Behind
<1>7. off \in Nat /\ Blocks \in Nat /\ off <= Blocks
  BY <1>1, Numbers, Zenon
<1> QED
  BY <1>1, <1>2, <1>5, <1>6, <1>7, Weaken, Zenon

LEMMA BadAckKeeps ==
    ASSUME WriteInv, AckRead, hpc' = "drain", acked' = acked
    PROVE  WriteInv'
<1>1. WriteTypeOK
  BY Zenon DEF WriteInv
<1>2. /\ FewerOks(d2h', d2h) /\ FewerWrites(h2d', h2d) /\ ablk' \in {0, ablk}
      /\ off' = off /\ base' = base
  BY <1>1, TakeAck, Zenon DEF AckRead
<1>3. PICK n : n = 2 * base + 1
  BY Zenon
<1>4. base <= off /\ Between(n, Blocks)
  BY <1>3, WindowFails, Zenon DEF AckRead
<1>5. Between(n, Blocks)'
  BY <1>2, <1>4, FewerBetween, Zenon
<1>6. WriteTypeOK' /\ WrittenUpTo(base)'
  BY <1>1, ReadKeeps, Zenon DEF WriteTypeOK
<1>7. WindowInv'
  BY <1>2, <1>3, <1>4, <1>5, Zenon DEF WindowInv
<1> QED
  BY <1>6, <1>7, Zenon DEF WriteInv, RetryInv, EndInv

LEMMA RecvReadyKeeps ==
    ASSUME WriteInv, W!RecvReady
    PROVE  WriteInv'
<1>1. AckRead /\ hpc = "ready" /\ acked' = acked
  BY Zenon DEF W!RecvReady, W!agent, AckRead
<1>2. CASE ~IsOk(Head(d2h))
  <2>1. hpc' = "drain"
    BY <1>2, Zenon DEF W!RecvReady, IsOk
  <2> QED
    BY <1>1, <2>1, BadAckKeeps, Zenon
<1>3. CASE IsOk(Head(d2h))
  <2>1. hpc' = "crc" /\ off' = off /\ base' = base /\ sent' = sent /\ ram' = ram
    BY <1>1, <1>3, Zenon DEF W!RecvReady, IsOk, AckRead
  <2>2. WriteTypeOK /\ base \in Nat /\ acked \in Nat /\ off \in Nat
    BY Numbers, Zenon DEF WriteInv
  <2>3. PICK c \in Nat : c = Counted
    BY <2>2, CountedIs, Zenon
  <2>4. c = 2 * (base + acked) /\ Counted' = c + 1
    BY <1>1, <2>1, <2>2, <2>3, CountedIs, Zenon DEF Counted
  <2>5. c + 2 = Counted' + 1 /\ c + 3 = Counted' + 2
    BY <2>4, SMT
  <2>6. PICK m \in Nat : m = off
    BY <2>2, Zenon
  <2>7. (Between(c + 2, m)' /\ Exact) \/ Between(c + 3, m)'
    BY <1>1, <1>3, <2>3, <2>6, CountStep, Zenon
  <2>8. Exact => WrittenUpTo(base + acked)'
    BY <1>1, <2>1, Zenon DEF Exact, WrittenUpTo, W!Written
  <2>9. Exact' \/ Behind'
    BY <2>1, <2>5, <2>6, <2>7, <2>8, Zenon DEF Exact, Behind
  <2>10. WriteTypeOK' /\ InOrder' /\ CrcTrue' /\ WrittenUpTo(base)' /\ off = base + sent
    BY <1>1, <2>1, <2>2, ReadKeeps, Zenon
  <2> QED
    BY <2>1, <2>9, <2>10, Zenon DEF WriteInv, WindowInv, RetryInv, EndInv
<1> QED
  BY <1>2, <1>3, Zenon

\* The ACK a block's CRC is due, and the block it is of.
LEMMA EvenPos ==
    ASSUME NEW a, a.blk \in Nat, a.what \in {"ready", "crc"}, NEW n \in Nat, Pos(a) = 2 * n + 2
    PROVE  a.what = "crc" /\ a.blk = n + 1
<1>1. PICK b \in Nat : b = a.blk
  BY Zenon
<1>2. /\ a.what = "crc" => 2 * n + 2 = 2 * b
      /\ a.what = "ready" => 2 * n + 2 = 2 * b - 1
  BY <1>1, PosFacts, Zenon
<1>3. 2 * n + 2 # 2 * b - 1 /\ (2 * n + 2 = 2 * b => b = n + 1)
  BY SMT
<1> QED
  BY <1>1, <1>2, <1>3, Zenon

LEMMA RecvCrcKeeps ==
    ASSUME WriteInv, W!RecvCrc
    PROVE  WriteInv'
<1>1. AckRead /\ hpc = "crc"
  BY Zenon DEF W!RecvCrc, W!agent, AckRead
<1>2. CASE ~IsOk(Head(d2h))
  <2>1. hpc' = "drain" /\ acked' = acked
    BY <1>2, Zenon DEF W!RecvCrc, IsOk
  <2> QED
    BY <1>1, <2>1, BadAckKeeps, Zenon
<1>3. CASE IsOk(Head(d2h))
  <2>1. /\ hpc' = (IF acked + 1 = sent THEN "top" ELSE "ready") /\ acked' = acked + 1
        /\ off' = off /\ base' = base /\ sent' = sent /\ ram' = ram
    BY <1>1, <1>3, Zenon DEF W!RecvCrc, IsOk, AckRead
  <2>2. WriteTypeOK /\ base \in Nat /\ acked \in Nat /\ off \in Nat /\ sent \in Nat
    BY Numbers, Zenon DEF WriteInv
  <2>3. PICK c \in Nat : c = Counted
    BY <2>2, CountedIs, Zenon
  <2>4. PICK d \in Nat : d = base + acked
    BY <2>2, SMT
  <2>5. c = 2 * d + 1
    BY <1>1, <2>2, <2>3, <2>4, CountedIs, Zenon
  <2>6. base' + acked' = d + 1
    <3>1. base + (acked + 1) = d + 1
      BY <2>2, <2>4, SMT
    <3> QED
      BY <2>1, <3>1, Zenon
  <2>7. hpc' # "crc" /\ Counted' = 2 * (d + 1)
    BY <2>1, <2>6, Zenon DEF Counted
  <2>8. c + 1 = 2 * d + 2 /\ c + 2 = Counted' + 1 /\ c + 3 = Counted' + 2
    BY <2>5, <2>7, SMT
  <2>9. PICK m \in Nat : m = off
    BY <2>2, Zenon
  <2>10. \/ Pos(Head(d2h)) = c + 1 /\ Between(c + 2, m)' /\ Exact
         \/ c + 2 <= 2 * m /\ Between(c + 3, m)'
    BY <1>1, <1>3, <2>3, <2>9, CountStep, Zenon
  <2>11. WriteTypeOK' /\ InOrder' /\ CrcTrue' /\ WrittenUpTo(base)' /\ off = base + sent
    <3>1. acked' \in Nat /\ hpc' \in {"top", "ready", "crc", "drain"}
      BY <2>1, <2>2, SMT
    <3> QED
      BY <1>1, <3>1, ReadKeeps, Zenon
  <2>12. CASE Pos(Head(d2h)) = c + 1 /\ Between(c + 2, m)' /\ Exact
    <3>1. Head(d2h) = d2h[1] /\ 1 \in 1..Len(d2h)
      BY <1>1, <2>2, TakeAck, Zenon DEF AckRead
    <3>2. d2h[1].blk \in Nat /\ d2h[1].what \in {"ready", "crc"} /\ Pos(d2h[1]) = 2 * d + 2
      BY <1>3, <2>2, <2>8, <2>12, <3>1, OkNumbers, Zenon DEF WriteTypeOK
    <3>3. d2h[1].what = "crc" /\ d2h[1].blk = d + 1
      BY <3>2, EvenPos, Zenon
    <3>4. W!Written(d + 1) /\ WrittenUpTo(d)
      BY <1>1, <1>3, <2>4, <2>12, <3>1, <3>3, Zenon DEF WriteInv, WindowInv, CrcTrue, Exact
    <3>5. \A b \in 1..Blocks : b <= d + 1 => b <= d \/ b = d + 1
      BY LinksAssumption, SMT
    <3>6. WrittenUpTo(base + acked)'
      BY <2>1, <2>6, <3>4, <3>5, Zenon DEF WrittenUpTo, W!Written
    <3>7. Exact'
      BY <2>1, <2>8, <2>9, <2>12, <3>6, Zenon DEF Exact
    <3>8. hpc' = "top" => off' = base' + acked'
      BY <2>1, <2>11, Zenon
    <3>9. hpc' \in {"top", "ready"}
      BY <2>1, Zenon
    <3> QED
      BY <2>1, <2>11, <3>7, <3>8, <3>9, Zenon DEF WriteInv, WindowInv, RetryInv, EndInv
  <2>13. CASE c + 2 <= 2 * m /\ Between(c + 3, m)'
    <3>1. acked + 1 # sent
      <4>1. c + 2 <= 2 * (base + sent)
        BY <2>9, <2>11, <2>13, Zenon
      <4> QED
        BY <2>2, <2>4, <2>5, <4>1, SMT
    <3>2. hpc' = "ready"
      BY <2>1, <3>1, Zenon
    <3>3. Behind'
      BY <2>1, <2>8, <2>9, <2>13, Zenon DEF Behind
    <3> QED
      BY <2>1, <2>11, <3>2, <3>3, Zenon DEF WriteInv, WindowInv, RetryInv, EndInv
  <2> QED
    BY <2>10, <2>12, <2>13, Zenon
<1> QED
  BY <1>2, <1>3, Zenon

LEMMA HostTimeoutKeeps ==
    ASSUME WriteInv, W!HostTimeout
    PROVE  WriteInv'
<1>1. /\ UNCHANGED <<off, base, sent, acked, ablk, arecv, ram, h2d, d2h>>
      /\ hpc \in {"ready", "crc", "retryready", "retrycrc"}
      /\ hpc' = IF hpc \in {"ready", "crc"} THEN "drain" ELSE "false"
  BY Zenon DEF W!HostTimeout, W!agent
<1>2. WriteTypeOK'
  BY <1>1, Zenon DEF WriteInv, WriteTypeOK
<1>3. CASE hpc \in {"ready", "crc"}
  <2>1. base <= off /\ Between(2 * base + 1, Blocks) /\ WrittenUpTo(base)
    BY <1>3, WindowFails, Zenon DEF WriteInv, EndInv
  <2>2. hpc' = "drain" /\ base' <= off' /\ Between(2 * base + 1, Blocks)' /\ WrittenUpTo(base)'
    BY <1>1, <1>3, <2>1, Zenon DEF Between, WrittenUpTo, W!Written
  <2> QED
    BY <1>2, <2>2, Zenon DEF WriteInv, WindowInv, RetryInv, EndInv
<1>4. CASE hpc \notin {"ready", "crc"}
  <2>1. hpc' = "false"
    BY <1>1, <1>4, Zenon
  <2> QED
    BY <1>2, <2>1, Zenon DEF WriteInv, WindowInv, RetryInv, EndInv
<1> QED
  BY <1>3, <1>4, Zenon

LEMMA DrainKeeps ==
    ASSUME WriteInv, W!Drain, HasPort = TRUE, Settles = TRUE
    PROVE  WriteInv'
<1>1. /\ hpc = "drain" /\ hpc' = "retry" /\ off' = base /\ acked' = 0 /\ d2h' = <<>>
      /\ h2d = <<>> /\ ablk = 0
      /\ UNCHANGED <<base, sent, ablk, arecv, ram, h2d>>
  BY Zenon DEF W!Drain, W!Settled, W!agent
<1>2. WriteTypeOK /\ base <= off /\ WrittenUpTo(base)
  BY <1>1, Zenon DEF WriteInv, WindowInv, EndInv
<1>3. base \in 0..Blocks /\ 0 \in Nat /\ base + 0 = base /\ \A i : i \notin 1..0
  BY <1>2, Numbers, SMT
<1>4. ASeq(d2h') /\ Len(d2h') = 0
  BY <1>1, EmptySeq, Zenon
<1>5. WriteTypeOK'
  BY <1>1, <1>2, <1>3, <1>4, Zenon DEF WriteTypeOK
<1>6. WrittenUpTo(off)' /\ off' = base' + acked'
  BY <1>1, <1>2, <1>3, Zenon DEF WrittenUpTo, W!Written
<1> QED
  BY <1>1, <1>5, <1>6, Zenon DEF WriteInv, WindowInv, RetryInv, EndInv

LEMMA RetrySendKeeps ==
    ASSUME WriteInv, W!RetrySend
    PROVE  WriteInv'
<1>1. PICK w : w = W!WriteCmd(off + 1)
  BY Zenon
<1>2. /\ hpc = "retry" /\ hpc' = "retryready" /\ off < Blocks /\ h2d' = Append(h2d, w)
      /\ \E n : d2h' = SubSeq(d2h, n + 1, Len(d2h)) /\ (n \in 0..Len(d2h) \/ n = 0)
      /\ UNCHANGED <<off, base, sent, acked, ablk, arecv, ram>>
  BY <1>1, Zenon DEF W!RetrySend, W!agent
<1>3. WriteTypeOK /\ off = base + acked /\ WrittenUpTo(off) /\ h2d = <<>> /\ d2h = <<>> /\ ablk = 0
  BY <1>2, Zenon DEF WriteInv, RetryInv
<1>4. d2h' = <<>>
  <2>1. PICK n : d2h' = SubSeq(<<>>, n + 1, Len(<<>>)) /\ (n \in 0..Len(<<>>) \/ n = 0)
    BY <1>2, <1>3, Zenon
  <2>2. n = 0
    BY <2>1, SMT
  <2>3. SubSeq(<<>>, 0 + 1, Len(<<>>)) = <<>>
    BY SMT
  <2> QED
    BY <2>1, <2>2, <2>3, Zenon
<1>5. h2d' = <<w>>
  <2>1. Append(<<>>, w) = <<w>>
    BY SMT
  <2> QED
    BY <1>2, <1>3, <2>1, Zenon
<1>6. ASeq(h2d') /\ Len(h2d') = 1 /\ h2d'[1] = w /\ ASeq(d2h') /\ Len(d2h') = 0
  BY <1>4, <1>5, SingleSeq, EmptySeq, Zenon
<1>7. (\A i : i \notin 1..0) /\ (\A j \in 1..1 : j = 1) /\ 1 <= 1 /\ off + 1 \in 1..Blocks
  BY <1>2, <1>3, Numbers, SMT
<1>8. w.blk = off + 1
  BY <1>1, Zenon DEF W!WriteCmd
<1>9. WriteTypeOK'
  <2>1. \A j \in 1..Len(h2d') : h2d'[j].blk \in 1..Blocks
    BY <1>6, <1>7, <1>8, Zenon
  <2>2. \A i \in 1..Len(d2h') : FALSE
    BY <1>6, <1>7, Zenon
  <2> QED
    BY <1>2, <1>3, <1>6, <2>1, <2>2, Zenon DEF WriteTypeOK
<1>10. OneBlock' /\ Asked'
  BY <1>1, <1>2, <1>3, <1>4, <1>6, <1>7, Zenon DEF OneBlock, Asked
<1>11. WrittenUpTo(off)'
  BY <1>2, <1>3, Zenon DEF WrittenUpTo, W!Written
<1> QED
  BY <1>2, <1>3, <1>9, <1>10, <1>11, Zenon DEF WriteInv, WindowInv, RetryInv, EndInv

LEMMA RetryDoneKeeps ==
    ASSUME WriteInv, W!RetryDone
    PROVE  WriteInv'
<1>1. /\ hpc = "retry" /\ hpc' = "top"
      /\ UNCHANGED <<off, base, sent, acked, ablk, arecv, ram, h2d, d2h>>
  BY Zenon DEF W!RetryDone, W!agent
<1>2. WriteTypeOK /\ off = base + acked /\ WrittenUpTo(off) /\ h2d = <<>> /\ d2h = <<>> /\ ablk = 0
  BY <1>1, Zenon DEF WriteInv, RetryInv
<1>3. (\A i : i \notin 1..0) /\ \A b \in 1..Blocks : b <= base => b <= off
  BY <1>2, Numbers, SMT
<1>4. Len(d2h') = 0 /\ Len(h2d') = 0
  BY <1>1, <1>2, EmptySeq, Zenon
<1>5. WriteTypeOK'
  BY <1>1, <1>2, Zenon DEF WriteTypeOK
<1>6. InOrder' /\ CrcTrue' /\ Between(Counted + 1, off)'
  BY <1>1, <1>2, <1>3, <1>4, Zenon DEF InOrder, CrcTrue, Between
<1>7. WrittenUpTo(base)' /\ WrittenUpTo(base + acked)'
  BY <1>1, <1>2, <1>3, Zenon DEF WrittenUpTo, W!Written
<1> QED
  BY <1>1, <1>2, <1>5, <1>6, <1>7, Zenon DEF WriteInv, WindowInv, RetryInv, EndInv, Exact

LEMMA RetryReadyKeeps ==
    ASSUME WriteInv, W!RetryReady
    PROVE  WriteInv'
<1>1. /\ hpc = "retryready" /\ d2h # <<>> /\ d2h' = Tail(d2h)
      /\ UNCHANGED <<off, base, sent, acked, ablk, arecv, ram>>
  BY Zenon DEF W!RetryReady, W!agent
<1>2. WriteTypeOK /\ off = base + acked /\ WrittenUpTo(off) /\ OneBlock /\ Asked
  BY <1>1, Zenon DEF WriteInv, RetryInv
<1>3. h2d = <<>>
  BY <1>1, <1>2, Zenon DEF Asked
<1>4. ASeq(d2h)
  BY <1>2, Zenon DEF WriteTypeOK
<1>5. /\ Rest(d2h', d2h) /\ Head(d2h) = d2h[1] /\ 1 \in 1..Len(d2h)
      /\ Len(d2h) = 1 => d2h' = <<>>
  BY <1>1, <1>4, TailSeq, Zenon
<1>6. ASSUME NEW i \in 1..Len(d2h')
      PROVE  d2h'[i].blk = off + 1 /\ ~IsOk(d2h'[i])
  <2>1. i + 1 \in 1..Len(d2h) /\ d2h'[i] = d2h[i + 1]
    BY <1>5, Zenon DEF Rest
  <2>2. i + 1 # 1
    <3>1. Len(d2h') \in Nat
      BY <1>5, LenNat, Zenon DEF Rest
    <3> QED
      BY <3>1, SMT
  <2> QED
    BY <1>2, <2>1, <2>2, Zenon DEF Asked, OneBlock
<1>7. CASE ~IsOk(Head(d2h))
  <2>1. hpc' = "false" /\ h2d' = h2d
    BY <1>7, Zenon DEF W!RetryReady, IsOk
  <2>2. WriteTypeOK'
    BY <1>1, <1>2, <1>5, <1>6, <2>1, Zenon DEF WriteTypeOK, Rest
  <2> QED
    BY <2>1, <2>2, Zenon DEF WriteInv, WindowInv, RetryInv, EndInv
<1>8. CASE IsOk(Head(d2h))
  <2>1. PICK d : d = W!DataOf(off + 1)
    BY Zenon
  <2>2. hpc' = "retrycrc" /\ h2d' = h2d \o d
    BY <1>8, <2>1, Zenon DEF W!RetryReady, IsOk
  <2>3. ASeq(d) /\ Len(d) = Chunks /\ \A k \in 1..Chunks : d[k].op = "DATA" /\ d[k].blk = off + 1
    BY <2>1, DataSeq, Zenon
  <2>4. h2d' = d
    <3>1. PICK S : d \in Seq(S)
      BY <2>3, Zenon DEF ASeq
    <3>2. <<>> \o d = d
      BY <3>1, SMT
    <3> QED
      BY <1>3, <2>2, <3>2, Zenon
  <2>5. \A j \in 1..Len(h2d') : h2d'[j].op = "DATA" /\ h2d'[j].blk = off + 1 /\ ~IsWrite(h2d'[j])
    BY <2>3, <2>4, Zenon DEF IsWrite
  <2>6. ablk # 0 => d2h' = <<>> /\ Len(h2d') + arecv <= Chunks
    <3>1. ablk # 0 => Len(d2h) = 1 /\ arecv = 0
      <4>1. Len(d2h) \in Nat
        BY <1>4, LenNat, Zenon
      <4> QED
        BY <1>2, <1>5, <4>1, OneLong, Zenon DEF Asked
    <3>2. Chunks + 0 <= Chunks
      BY LinksAssumption, SMT
    <3> QED
      BY <1>5, <2>3, <2>4, <3>1, <3>2, Zenon
  <2>7. WriteTypeOK'
    BY <1>1, <1>2, <1>5, <1>6, <2>2, <2>3, <2>4, <2>5, Zenon DEF WriteTypeOK, Rest
  <2>8. OneBlock'
    BY <1>1, <1>2, <1>6, Zenon DEF OneBlock
  <2>9. Filled'
    BY <1>1, <1>6, <2>5, <2>6, Zenon DEF Filled
  <2>10. WrittenUpTo(off)'
    BY <1>1, <1>2, Zenon DEF WrittenUpTo, W!Written
  <2> QED
    BY <1>1, <1>2, <2>2, <2>7, <2>8, <2>9, <2>10, Zenon DEF WriteInv, WindowInv, RetryInv, EndInv
<1> QED
  BY <1>7, <1>8, Zenon

LEMMA RetryCrcKeeps ==
    ASSUME WriteInv, W!RetryCrc
    PROVE  WriteInv'
<1>1. /\ hpc = "retrycrc" /\ d2h # <<>> /\ d2h' = Tail(d2h)
      /\ UNCHANGED <<base, sent, ablk, arecv, ram, h2d>>
  BY Zenon DEF W!RetryCrc, W!agent
<1>2. WriteTypeOK /\ off = base + acked /\ WrittenUpTo(off) /\ OneBlock /\ Filled
  BY <1>1, Zenon DEF WriteInv, RetryInv
<1>3. /\ Rest(d2h', d2h) /\ Head(d2h) = d2h[1] /\ 1 \in 1..Len(d2h)
      /\ (Len(d2h) = 1 => d2h' = <<>>) /\ FewerOks(d2h', d2h)
  BY <1>1, <1>2, TakeAck, Zenon
<1>4. ASSUME hpc' \in {"false", "retry"}, off' \in 0..Blocks, acked' \in Nat
      PROVE  WriteTypeOK'
  <2>1. ASSUME NEW i \in 1..Len(d2h'), IsOk(d2h'[i])
        PROVE  d2h'[i].blk \in 1..Blocks /\ d2h'[i].what \in {"ready", "crc"}
    BY <1>2, <1>3, <2>1, Zenon DEF FewerOks, WriteTypeOK
  <2> QED
    BY <1>1, <1>2, <1>3, <1>4, <2>1, Zenon DEF WriteTypeOK, Rest
<1>5. CASE ~IsOk(Head(d2h))
  <2>1. hpc' = "false" /\ off' = off /\ acked' = acked
    BY <1>5, Zenon DEF W!RetryCrc, IsOk
  <2>2. WriteTypeOK'
    BY <1>2, <1>4, <2>1, Zenon DEF WriteTypeOK
  <2> QED
    BY <2>1, <2>2, Zenon DEF WriteInv, WindowInv, RetryInv, EndInv
<1>6. CASE IsOk(Head(d2h))
  <2>1. hpc' = "retry" /\ off' = off + 1 /\ acked' = acked + 1
    BY <1>6, Zenon DEF W!RetryCrc, IsOk
  <2>2. ablk = 0 /\ h2d = <<>> /\ Len(d2h) = 1 /\ W!Written(off + 1)
    BY <1>1, <1>2, <1>3, <1>6, Zenon DEF Filled
  <2>3. off + 1 \in 0..Blocks /\ acked + 1 \in Nat /\ off + 1 = base + (acked + 1)
        /\ \A b \in 1..Blocks : b <= off + 1 => b <= off \/ b = off + 1
    <3>1. off < Blocks
      BY <1>2, Zenon DEF OneBlock
    <3> QED
      BY <1>2, <3>1, Numbers, SMT
  <2>4. WriteTypeOK'
    BY <1>4, <2>1, <2>3, Zenon
  <2>5. WrittenUpTo(off)'
    BY <1>1, <1>2, <2>1, <2>2, <2>3, Zenon DEF WrittenUpTo, W!Written
  <2> QED
    BY <1>1, <1>3, <2>1, <2>2, <2>3, <2>4, <2>5, Zenon DEF WriteInv, WindowInv, RetryInv, EndInv
<1> QED
  BY <1>5, <1>6, Zenon

LEMMA WriteInit ==
    ASSUME W!Init
    PROVE  WriteInv
<1>1. /\ hpc = "top" /\ off = 0 /\ base = 0 /\ sent = 0 /\ acked = 0 /\ ablk = 0 /\ arecv = 0
      /\ DOMAIN ram = 1..Blocks /\ h2d = <<>> /\ d2h = <<>>
  BY Zenon DEF W!Init
<1>2. ASeq(h2d) /\ ASeq(d2h) /\ Len(h2d) = 0 /\ Len(d2h) = 0
  BY <1>1, EmptySeq, Zenon
<1>3. /\ 0 \in 0..Blocks /\ 0 \in Nat /\ 0 + 0 = 0 /\ (\A i : i \notin 1..0)
      /\ \A b \in 1..Blocks : ~(b <= 0)
  BY LinksAssumption, SMT
<1>4. WriteTypeOK
  BY <1>1, <1>2, <1>3, Zenon DEF WriteTypeOK
<1>5. InOrder /\ CrcTrue /\ Between(Counted + 1, off)
  BY <1>1, <1>2, <1>3, Zenon DEF InOrder, CrcTrue, Between
<1>6. WrittenUpTo(base) /\ WrittenUpTo(base + acked) /\ off = base + acked
  BY <1>1, <1>3, Zenon DEF WrittenUpTo
<1> QED
  BY <1>1, <1>4, <1>5, <1>6, Zenon DEF WriteInv, WindowInv, RetryInv, EndInv, Exact

LEMMA WriteKeeps ==
    ASSUME WriteInv, W!Next, HasPort = TRUE, Settles = TRUE
    PROVE  WriteInv'
<1>1. CASE W!HostStep
  BY <1>1, StartWindowKeeps, SendBlockKeeps, WindowSentKeeps, ReturnKeeps, RecvReadyKeeps,
     RecvCrcKeeps, HostTimeoutKeeps, DrainKeeps, RetrySendKeeps, RetryReadyKeeps, RetryCrcKeeps,
     RetryDoneKeeps, Zenon DEF W!HostStep
<1>2. CASE W!AgentStep
  BY <1>2, AgentWriteKeeps, AgentStrayKeeps, AgentDataKeeps, AgentIgnoreKeeps, AgentGivesUpKeeps,
     Zenon DEF W!AgentStep
<1>3. CASE W!Damage
  BY <1>3, DamageKeeps, Zenon
<1>4. CASE W!LosePacket
  BY <1>4, LosePacketKeeps, Zenon
<1>5. CASE W!LoseAck
  BY <1>5, LoseAckKeeps, Zenon
<1> QED
  BY <1>1, <1>2, <1>3, <1>4, <1>5, Zenon DEF W!Next

\* The invariant along a behaviour of the link, for a transport that is a
\* serial port (write_memory can drain it) and an agent that ends the failed
\* window while write_memory sleeps.  Without either, a stale ACK is counted.
LEMMA WriteInvariant ==
    ASSUME HasPort = TRUE, Settles = TRUE
    PROVE  Spec => [](link = "write" => WriteInv)
<1> DEFINE Inv == link = "write" => WriteInv
<1>1. Init => Inv
  BY WriteInit, Zenon DEF Init
<1>2. Inv /\ [Next]_allVars => Inv'
  <2> SUFFICES ASSUME Inv, [Next]_allVars, link' = "write" PROVE WriteInv'
    BY Zenon
  <2>1. CASE Writing /\ W!Next
    BY <2>1, WriteKeeps, Zenon DEF Writing
  <2>2. CASE (Switching /\ B!Next) \/ (Sending /\ Y!Next)
    BY <2>2, Zenon DEF Switching, Sending
  <2>3. CASE UNCHANGED allVars
    <3>1. link = "write" /\ UNCHANGED <<hpc, off, base, sent, acked, ablk, arecv, ram, h2d, d2h>>
      BY <2>3, Zenon DEF allVars, line, writer
    <3>2. WriteTypeOK /\ WindowInv /\ RetryInv /\ EndInv
      BY <3>1, Zenon DEF WriteInv
    <3>3. WriteTypeOK'
      BY <3>1, <3>2, Zenon DEF WriteTypeOK
    <3>4. WindowInv'
      BY <3>1, <3>2, Zenon DEF WindowInv, InOrder, CrcTrue, Exact, Behind, Between, Counted,
         WrittenUpTo, W!Written
    <3>5. RetryInv'
      BY <3>1, <3>2, Zenon DEF RetryInv, WrittenUpTo, W!Written, OneBlock, Asked, Filled
    <3>6. EndInv'
      BY <3>1, <3>2, Zenon DEF EndInv, WrittenUpTo, W!Written
    <3> QED
      BY <3>3, <3>4, <3>5, <3>6, Zenon DEF WriteInv
  <2> QED
    BY <2>1, <2>2, <2>3, Zenon DEF Next
<1> QED
  BY <1>1, <1>2, PTL DEF Spec

\* write_memory returns True only when RAM holds the data, whatever the line
\* damages, loses or delays, in windows of any size and data of any length:
\* the ACKs it counts are those of its own blocks, in order.
THEOREM WriteIsReal ==
    ASSUME HasPort = TRUE, Settles = TRUE
    PROVE  Spec => []TrueMeansWritten
<1>1. (link = "write" => WriteInv) => TrueMeansWritten
  <2>1. \A b \in 1..Blocks : b <= Blocks
    BY LinksAssumption, SMT
  <2> QED
    BY <2>1, Zenon DEF TrueMeansWritten, W!TrueMeansWritten, WriteInv, EndInv, WrittenUpTo
<1> QED
  BY <1>1, WriteInvariant, PTL

\* After the drain of a failed window an ACK that comes in is about the block
\* _write_block is writing.
THEOREM RetryHearsItsOwn ==
    ASSUME HasPort = TRUE, Settles = TRUE
    PROVE  Spec => []NoStaleAck
<1>1. (link = "write" => WriteInv) => NoStaleAck
  BY Zenon DEF NoStaleAck, W!NoStaleAck, WriteInv, RetryInv, OneBlock
<1> QED
  BY <1>1, WriteInvariant, PTL
=============================================================================
