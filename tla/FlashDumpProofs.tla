-------------------------- MODULE FlashDumpProofs --------------------------
(***************************************************************************)
(* Proofs about module FlashDump, for every size of the flash, the chunks  *)
(* and the blocks, and any number of retries and faults.                   *)
(***************************************************************************)
EXTENDS FlashDump, SequenceTheorems, TLAPS

-----------------------------------------------------------------------------
(* Arithmetic, least and greatest elements. *)

LEMMA MinIs ==
    ASSUME NEW S \in SUBSET Int, NEW m \in S, \A y \in S : m <= y
    PROVE  Min(S) = m
<1>1. Min(S) \in S /\ \A y \in S : Min(S) =< y
  BY Zenon DEF Min
<1>2. Min(S) <= m /\ m <= Min(S) /\ Min(S) \in Int /\ m \in Int
  BY <1>1, Zenon
<1> QED
  BY <1>2

LEMMA MaxIs ==
    ASSUME NEW S \in SUBSET Int, NEW m \in S, \A y \in S : m >= y
    PROVE  Max(S) = m
<1>1. Max(S) \in S /\ \A y \in S : Max(S) >= y
  BY Zenon DEF Max
<1>2. Max(S) >= m /\ m >= Max(S) /\ Max(S) \in Int /\ m \in Int
  BY <1>1, Zenon
<1> QED
  BY <1>2

LEMMA MinOfTwo ==
    ASSUME NEW a \in Int, NEW b \in Int
    PROVE  Min({a, b}) \in {a, b} /\ Min({a, b}) <= a /\ Min({a, b}) <= b
<1>1. CASE a <= b
  BY <1>1, MinIs
<1>2. CASE b < a
  BY <1>2, MinIs
<1> QED
  BY <1>1, <1>2

LEMMA MaxOfTwo ==
    ASSUME NEW a \in Int, NEW b \in Int
    PROVE  Max({a, b}) \in {a, b} /\ Max({a, b}) >= a /\ Max({a, b}) >= b
<1>1. CASE a >= b
  BY <1>1, MaxIs
<1>2. CASE b > a
  BY <1>2, MaxIs
<1> QED
  BY <1>1, <1>2

\* Rounding down to a multiple, and up to the next one.
LEMMA Rounding ==
    ASSUME NEW a \in Nat, NEW b \in Nat \ {0}
    PROVE  /\ a \div b \in Nat
           /\ (a \div b) * b \in Nat /\ (a \div b) * b <= a
           /\ (a \div b + 1) * b \in Nat
<1>1. a \div b \in Nat
  BY SMT
<1>2. (a \div b) * b <= a
  BY SMT
<1>3. \A q \in Nat : q * b \in Nat
  BY SMT
<1> QED
  BY <1>1, <1>2, <1>3

-----------------------------------------------------------------------------
(* Answers. *)

Lines == [addr : Nat, val : Nat]

\* What parse_md_output makes of lines with addresses from lo to hi.
LEMMA Parse ==
    ASSUME NEW L \in SUBSET Lines, NEW lo \in Starts(L), NEW hi \in Starts(L),
           \A l \in L : lo <= l.addr /\ l.addr <= hi,
           \A l1 \in L, l2 \in L : l1.addr = l2.addr => l1 = l2
    PROVE  LET d == parse_md_output([kind |-> "md", lines |-> L]) IN
           /\ d \in Seq(Nat) /\ Len(d) = hi - lo + 1
           /\ \A l \in L : l.addr - lo + 1 \in 1..Len(d) /\ d[l.addr - lo + 1] = l.val
<1> DEFINE ans == [kind |-> "md", lines |-> L]
           d == parse_md_output(ans)
           Val(k) == IF \E l \in L : l.addr = lo + k - 1
                     THEN (CHOOSE l \in L : l.addr = lo + k - 1).val ELSE 0
<1>1. Starts(L) \subseteq Nat /\ L # {} /\ lo \in Nat /\ hi \in Nat /\ lo <= hi
  BY Zenon DEF Starts, Lines
<1>2. Min(Starts(L)) = lo /\ Max(Starts(L)) = hi
  <2>1. Starts(L) \in SUBSET Int
    BY <1>1
  <2>2. \A y \in Starts(L) : lo <= y /\ y <= hi /\ hi >= y
    BY <1>1, Zenon DEF Starts
  <2> QED
    BY <2>1, <2>2, MinIs, MaxIs, Zenon
<1>3. ans.kind = "md" /\ ans.lines = L
  BY Zenon
<1>4. d = [k \in 1..(hi - lo + 1) |-> Val(k)]
  BY <1>1, <1>2, <1>3, Zenon DEF parse_md_output
<1> HIDE DEF d, ans
<1>5. ASSUME NEW l \in L, NEW k \in Nat, l.addr = lo + k - 1 PROVE Val(k) = l.val
  <2>1. (CHOOSE x \in L : x.addr = lo + k - 1) = l
    BY <1>5, Zenon
  <2> QED
    BY <1>5, <2>1, Zenon
<1>6. ASSUME NEW k \in 1..(hi - lo + 1) PROVE Val(k) \in Nat
  <2>1. CASE \E l \in L : l.addr = lo + k - 1
    <3>1. PICK l \in L : l.addr = lo + k - 1
      BY <2>1, Zenon
    <3>2. Val(k) = l.val /\ l.val \in Nat
      <4>1. k \in Nat
        BY <1>1
      <4> HIDE DEF Val
      <4> QED
        BY <1>5, <3>1, <4>1, Zenon DEF Lines
    <3> QED
      BY <3>2, Zenon
  <2>2. CASE ~\E l \in L : l.addr = lo + k - 1
    BY <2>2, Zenon
  <2> QED
    BY <2>1, <2>2, Zenon
<1> HIDE DEF Val
<1>7. d \in Seq(Nat) /\ Len(d) = hi - lo + 1
  BY <1>1, <1>4, <1>6
<1>8. ASSUME NEW l \in L PROVE l.addr - lo + 1 \in 1..Len(d) /\ d[l.addr - lo + 1] = l.val
  <2>1. l.addr \in Nat /\ lo <= l.addr /\ l.addr <= hi
    BY Zenon DEF Lines
  <2> DEFINE k == l.addr - lo + 1
  <2>2. k \in 1..(hi - lo + 1) /\ k \in Nat /\ l.addr = lo + k - 1
    BY <1>1, <2>1
  <2>3. Val(k) = l.val
    BY <1>5, <2>2, Zenon
  <2> QED
    BY <1>4, <1>7, <2>2, <2>3, Zenon
<1> QED
  BY <1>7, <1>8, Zenon DEF d, ans

\* Consecutive units of the flash: what a crc32 is computed over.
Run(c) ==
    \E f \in Nat \ {0}, n \in Int : f + n - 1 <= Size /\ c = [k \in 1..n |-> f + k - 1]

\* The lines that an undamaged md.b prints.
LEMMA MdLines ==
    ASSUME NEW f \in Nat \ {0}, NEW n \in Int
    PROVE  LET L == MdAnswer(f, n).lines IN
           /\ MdAnswer(f, n) = [kind |-> "md", lines |-> L]
           /\ L \in SUBSET Lines
           /\ \A l \in L : l.val = l.addr /\ l.addr \in f..(f + n - 1)
           /\ \A u \in f..(f + n - 1) : Line(u, u) \in L /\ u \in Starts(L)
           /\ \A l1 \in L, l2 \in L : l1.addr = l2.addr => l1 = l2
<1> DEFINE L == {Line(u, u) : u \in f..(f + n - 1)}
<1>1. MdAnswer(f, n) = [kind |-> "md", lines |-> L] /\ MdAnswer(f, n).lines = L
  BY Zenon DEF MdAnswer
<1>2. \A u : Line(u, u).addr = u /\ Line(u, u).val = u
  BY Zenon DEF Line
<1>3. \A u \in f..(f + n - 1) : Line(u, u) \in Lines
  BY DEF Line, Lines
<1>4. \A l \in L : l = Line(l.addr, l.addr) /\ l.val = l.addr /\ l.addr \in f..(f + n - 1)
  BY <1>2, Zenon
<1>5. \A u \in f..(f + n - 1) : Line(u, u) \in L /\ u \in Starts(L)
  BY <1>2, Zenon DEF Starts
<1> QED
  BY <1>1, <1>3, <1>4, <1>5

LEMMA ParseWhole ==
    ASSUME NEW f \in Nat \ {0}, NEW n \in Int
    PROVE  LET d == parse_md_output(MdAnswer(f, n)) IN
           /\ d \in Seq(Nat)
           /\ Len(d) = n => \A k \in 1..n : d[k] = f + k - 1
<1> DEFINE L == MdAnswer(f, n).lines
<1>1. CASE n < 1
  <2>1. L = {} /\ MdAnswer(f, n).lines = {}
    <3>1. f..(f + n - 1) = {}
      BY <1>1
    <3> QED
      BY <3>1, MdLines, Zenon
  <2>2. parse_md_output(MdAnswer(f, n)) = <<>>
    BY <2>1, Zenon DEF parse_md_output
  <2> QED
    BY <1>1, <2>2
<1>2. CASE n >= 1
  <2>1. /\ MdAnswer(f, n) = [kind |-> "md", lines |-> L] /\ L \in SUBSET Lines
        /\ \A l \in L : l.val = l.addr /\ l.addr \in f..(f + n - 1)
        /\ \A u \in f..(f + n - 1) : Line(u, u) \in L /\ u \in Starts(L)
        /\ \A l1 \in L, l2 \in L : l1.addr = l2.addr => l1 = l2
    BY MdLines, Zenon
  <2> DEFINE d == parse_md_output([kind |-> "md", lines |-> L])
  <2> HIDE DEF L
  <2>2. f \in Starts(L) /\ f + n - 1 \in Starts(L)
    BY <1>2, <2>1
  <2>3. \A l \in L : f <= l.addr /\ l.addr <= f + n - 1
    BY <2>1
  <2>4. /\ d \in Seq(Nat) /\ Len(d) = (f + n - 1) - f + 1
        /\ \A l \in L : l.addr - f + 1 \in 1..Len(d) /\ d[l.addr - f + 1] = l.val
    BY <2>1, <2>2, <2>3, Parse, Zenon
  <2> HIDE DEF d
  <2>5. ASSUME NEW k \in 1..n PROVE d[k] = f + k - 1
    <3>1. f + k - 1 \in f..(f + n - 1) /\ (f + k - 1) - f + 1 = k
      OBVIOUS
    <3>2. Line(f + k - 1, f + k - 1) \in L
      BY <2>1, <3>1, Zenon
    <3>3. Line(f + k - 1, f + k - 1).addr = f + k - 1 /\ Line(f + k - 1, f + k - 1).val = f + k - 1
      BY Zenon DEF Line
    <3> QED
      BY <2>4, <3>1, <3>2, <3>3, Zenon
  <2> QED
    BY <2>1, <2>4, <2>5, Zenon DEF d
<1> QED
  BY <1>1, <1>2

\* One damaged character never makes a chunk of other units out of a chunk:
\* what is parsed has a hole, a zero or another length, or is right.
LEMMA ParseDamaged ==
    ASSUME NEW f \in Nat \ {0}, NEW n \in Int, f + n - 1 <= Size,
           NEW r \in Damaged(MdAnswer(f, n))
    PROVE  LET d == parse_md_output(r) IN
           /\ d \in Seq(Nat)
           /\ \A g \in Nat \ {0} :
                 Len(d) = n /\ (\A k \in 1..n : d[k] = g + k - 1)
                   => \A k \in 1..n : d[k] = f + k - 1
<1> DEFINE ans == MdAnswer(f, n)
           L == ans.lines
           Hit(M) == r = [kind |-> "md", lines |-> M]
<1>0. Size \in Nat \ {0}
  BY FlashDumpAssumption, Zenon
<1>1. /\ ans = [kind |-> "md", lines |-> L] /\ L \in SUBSET Lines
      /\ \A l \in L : l.val = l.addr /\ l.addr \in f..(f + n - 1)
      /\ \A u \in f..(f + n - 1) : Line(u, u) \in L
      /\ \A l1 \in L, l2 \in L : l1.addr = l2.addr => l1 = l2
  BY MdLines, Zenon
<1>2. PICK l \in L : \/ r = [ans EXCEPT !.lines = @ \ {l}]
                     \/ r = [ans EXCEPT !.lines = (@ \ {l}) \cup {Line(l.addr, 0)}]
                     \/ r = [ans EXCEPT !.lines = (@ \ {l}) \cup {Line(l.addr + Size, l.val)}]
  <2>1. ans.kind = "md"
    BY Zenon DEF MdAnswer
  <2> QED
    BY <2>1, Zenon DEF Damaged
<1> HIDE DEF L
<1>3. \/ Hit(L \ {l})
      \/ Hit((L \ {l}) \cup {Line(l.addr, 0)})
      \/ Hit((L \ {l}) \cup {Line(l.addr + Size, l.val)})
  BY <1>1, <1>2
<1> HIDE DEF ans
<1> DEFINE u == l.addr
           low == IF u = f THEN f + 1 ELSE f
           high == IF u = f + n - 1 THEN f + n - 2 ELSE f + n - 1
<1>4. u \in f..(f + n - 1) /\ l.val = u /\ u \in Nat /\ n >= 1 /\ n \in Nat
  BY <1>1
<1>5. \A v \in f..(f + n - 1) : v # u => Line(v, v) \in L \ {l}
  BY <1>1, Zenon DEF Line
<1>6. \A x \in L \ {l} : x.addr # u /\ x.val = x.addr /\ x.addr \in f..(f + n - 1)
  BY <1>1, Zenon
<1>7. \A x, y : Line(x, y).addr = x /\ Line(x, y).val = y
  BY Zenon DEF Line
<1>8. \A x \in Nat, y \in Nat : Line(x, y) \in Lines
  BY Zenon DEF Line, Lines
<1>9. n >= 2 => /\ low \in f..(f + n - 1) /\ high \in f..(f + n - 1) /\ low # u /\ high # u
                /\ \A x \in L \ {l} : low <= x.addr /\ x.addr <= high
  BY <1>4, <1>6
<1> HIDE DEF u
<1>10. CASE Hit(L \ {l})
  <2> DEFINE M == L \ {l}
             d == parse_md_output([kind |-> "md", lines |-> M])
  <2>1. CASE n = 1
    <3>1. M = {}
      BY <1>4, <1>6, <2>1
    <3>2. d = <<>>
      BY <3>1, Zenon DEF parse_md_output
    <3>3. parse_md_output(r) = <<>>
      BY <1>10, <3>2, Zenon
    <3>4. parse_md_output(r) \in Seq(Nat) /\ Len(parse_md_output(r)) # n
      BY <2>1, <3>3
    <3> QED
      BY <3>4, Zenon
  <2>2. CASE n >= 2
    <3>1. low \in Starts(M) /\ high \in Starts(M)
      BY <1>5, <1>7, <1>9, <2>2 DEF Starts
    <3>2. M \in SUBSET Lines /\ \A l1 \in M, l2 \in M : l1.addr = l2.addr => l1 = l2
      BY <1>1, Zenon
    <3>3. \A x \in M : low <= x.addr /\ x.addr <= high
      BY <1>9, <2>2, Zenon
    <3> HIDE DEF low, high, M
    <3>4. /\ d \in Seq(Nat) /\ Len(d) = high - low + 1
          /\ \A x \in M : x.addr - low + 1 \in 1..Len(d) /\ d[x.addr - low + 1] = x.val
      BY <3>1, <3>2, <3>3, Parse, Zenon
    <3> HIDE DEF d
    <3>5. ASSUME Len(d) = n, NEW g \in Nat \ {0}, \A k \in 1..n : d[k] = g + k - 1
          PROVE  \A k \in 1..n : d[k] = f + k - 1
      <4>1. low = f /\ f # u
        BY <1>4, <3>4, <3>5 DEF low, high
      <4>2. Line(f, f) \in M /\ Line(f, f).addr = f /\ Line(f, f).val = f
        BY <1>4, <1>5, <1>7, <4>1 DEF M
      <4>3. d[f - f + 1] = f /\ f - f + 1 = 1
        BY <3>4, <4>1, <4>2
      <4>4. g = f
        BY <1>4, <3>5, <4>3
      <4> QED
        BY <3>5, <4>4, Zenon
    <3> QED
      BY <1>10, <3>4, <3>5, Zenon DEF d, M
  <2> QED
    BY <1>4, <2>1, <2>2
<1>11. CASE Hit((L \ {l}) \cup {Line(l.addr, 0)})
  <2> DEFINE M == (L \ {l}) \cup {Line(u, 0)}
             d == parse_md_output([kind |-> "md", lines |-> M])
  <2>1. f \in Starts(M) /\ f + n - 1 \in Starts(M)
    <3>1. \A v \in f..(f + n - 1) : v \in Starts(M)
      <4>1. ASSUME NEW v \in f..(f + n - 1) PROVE \E x \in M : x.addr = v
        <5>1. CASE v = u
          BY <1>7, <5>1, Zenon
        <5>2. CASE v # u
          BY <1>5, <1>7, <5>2, Zenon
        <5> QED
          BY <5>1, <5>2, Zenon
      <4> QED
        BY <4>1, Zenon DEF Starts
    <3> QED
      BY <1>4, <3>1
  <2>2. M \in SUBSET Lines /\ \A l1 \in M, l2 \in M : l1.addr = l2.addr => l1 = l2
    BY <1>1, <1>4, <1>6, <1>7, <1>8
  <2>3. \A x \in M : f <= x.addr /\ x.addr <= f + n - 1
    BY <1>4, <1>6, <1>7
  <2>4. Line(u, 0) \in M /\ Line(u, 0).addr = u /\ Line(u, 0).val = 0
    BY <1>7, Zenon
  <2> HIDE DEF M
  <2>5. /\ d \in Seq(Nat) /\ Len(d) = (f + n - 1) - f + 1
        /\ \A x \in M : x.addr - f + 1 \in 1..Len(d) /\ d[x.addr - f + 1] = x.val
    BY <2>1, <2>2, <2>3, Parse, Zenon
  <2> HIDE DEF d
  <2>6. ASSUME NEW g \in Nat \ {0}, \A k \in 1..n : d[k] = g + k - 1 PROVE FALSE
    <3>1. u - f + 1 \in 1..n /\ d[u - f + 1] = 0
      BY <1>4, <2>4, <2>5
    <3> QED
      BY <2>6, <3>1
  <2> QED
    BY <1>11, <2>5, <2>6, Zenon DEF d, M, u
<1>12. CASE Hit((L \ {l}) \cup {Line(l.addr + Size, l.val)})
  <2> DEFINE M == (L \ {l}) \cup {Line(u + Size, u)}
             d == parse_md_output([kind |-> "md", lines |-> M])
             lo == IF n = 1 THEN u + Size ELSE low
  <2>1. lo \in Starts(M) /\ u + Size \in Starts(M)
    <3>1. u + Size \in Starts(M)
      BY <1>7, Zenon DEF Starts
    <3>2. n >= 2 => low \in Starts(M)
      BY <1>5, <1>7, <1>9, Zenon DEF Starts
    <3> QED
      BY <1>4, <3>1, <3>2
  <2>2. M \in SUBSET Lines /\ \A l1 \in M, l2 \in M : l1.addr = l2.addr => l1 = l2
    <3>1. \A x \in L \ {l} : x.addr # u + Size
      BY <1>0, <1>4, <1>6
    <3>2. u + Size \in Nat
      BY <1>0, <1>4
    <3> QED
      BY <1>1, <1>4, <1>7, <1>8, <3>1, <3>2
  <2>3. \A x \in M : lo <= x.addr /\ x.addr <= u + Size
    <3>1. ASSUME NEW x \in L \ {l} PROVE lo <= x.addr /\ x.addr <= u + Size
      <4>1. n >= 2
        BY <1>4, <1>6
      <4> QED
        BY <1>0, <1>4, <1>6, <1>9, <4>1
    <3>2. lo <= u + Size
      BY <1>0, <1>4
    <3> QED
      BY <1>0, <1>4, <1>7, <3>1, <3>2
  <2>4. Line(u + Size, u) \in M /\ Line(u + Size, u).addr = u + Size /\ Line(u + Size, u).val = u
    BY <1>7, Zenon
  <2>5. n >= 2 => Line(low, low) \in M /\ Line(low, low).addr = low /\ Line(low, low).val = low
    BY <1>5, <1>7, <1>9, Zenon
  <2> HIDE DEF M, lo, low
  <2>6. /\ d \in Seq(Nat) /\ Len(d) = (u + Size) - lo + 1
        /\ \A x \in M : x.addr - lo + 1 \in 1..Len(d) /\ d[x.addr - lo + 1] = x.val
    BY <2>1, <2>2, <2>3, Parse, Zenon
  <2> HIDE DEF d
  <2>7. ASSUME Len(d) = n, NEW g \in Nat \ {0}, \A k \in 1..n : d[k] = g + k - 1
        PROVE  \A k \in 1..n : d[k] = f + k - 1
    <3>1. CASE n = 1
      <4>1. lo = u + Size /\ u = f
        BY <1>4, <3>1 DEF lo
      <4>2. d[(u + Size) - (u + Size) + 1] = u
        BY <2>4, <2>6, <4>1, Zenon
      <4> QED
        BY <1>0, <1>4, <3>1, <4>1, <4>2
    <3>2. CASE n >= 2
      <4>1. lo = low
        BY <3>2 DEF lo
      <4>2. u = f /\ low = f + 1 /\ n = Size
        BY <1>0, <1>4, <2>6, <2>7, <3>2, <4>1 DEF low
      <4>3. d[low - low + 1] = low /\ d[u + Size - low + 1] = u
        <5>1. d[Line(low, low).addr - lo + 1] = Line(low, low).val
          BY <2>5, <2>6, <3>2, Zenon
        <5>2. d[Line(u + Size, u).addr - lo + 1] = Line(u + Size, u).val
          BY <2>4, <2>6, Zenon
        <5>3. Line(low, low).addr = low /\ Line(low, low).val = low
          BY <1>7, Zenon
        <5>4. d[low - lo + 1] = low
          BY <5>1, <5>3, Zenon
        <5>5. d[u + Size - lo + 1] = u
          <6>1. lo \in Int
            BY <1>4, <4>1 DEF low
          <6> QED
            BY <1>0, <1>4, <2>4, <5>2, <6>1
        <5> QED
          BY <4>1, <5>4, <5>5, Zenon
      <4>4. d[1] = f + 1 /\ d[n] = f
        BY <1>0, <4>2, <4>3
      <4> QED
        BY <1>4, <2>7, <3>2, <4>4
    <3> QED
      BY <1>4, <3>1, <3>2
  <2> QED
    BY <1>4, <1>12, <2>6, <2>7, Zenon DEF d, M, u
<1> QED
  BY <1>3, <1>10, <1>11, <1>12, Zenon

-----------------------------------------------------------------------------
(* The inductive invariant. *)

\* An answer that U-Boot gives: to a command about units of the flash.
Genuine(a) ==
    \/ a \in {Fine, Nothing}
    \/ \E f \in Nat \ {0}, n \in Int :
          f + n - 1 <= Size /\ (a = MdAnswer(f, n) \/ a = CrcAnswer(f, n))

OwedInv == owed = <<>> \/ \E a : owed = <<a>> /\ Genuine(a)

\* Types, and how much of the file there is.
FileInv ==
    /\ file \in Seq(Nat) /\ chunk \in Seq(Nat)
    /\ offset \in Nat /\ at \in Nat /\ hasCrc \in BOOLEAN
    /\ phase \in {"md", "crc"} => offset < Size /\ offset <= Len(file)
    /\ Verifying => Len(file) >= Size
    /\ phase \in {"block", "part", "again"} => at < Size

\* A chunk to be read again has a crc32 of units of the flash, if perhaps
\* of others, and no md.b answer is owed but its own.
AgainInv ==
    phase = "again" =>
        /\ Run(want)
        /\ \A a : owed = <<a>> /\ a.kind = "md" => a = MdAnswer(at + 1, PartLen)

\* The console reader is off while a dump runs, and the button that starts
\* it again does not work before the worker has ended.
ReaderInv ==
    /\ caller \in {"cli", "tui"}
    /\ Dumping => reader = "off"
    /\ caller = "cli" => screen = "none" /\ reader = "off"
    /\ screen = "overlay" /\ clash = "no" /\ ~running /\ pressed = "no" => ~Dumping

DumpInv == OwedInv /\ FileInv /\ AgainInv /\ DumpFaithful

-----------------------------------------------------------------------------
(* What a command may be answered. *)

LEMMA Kinds ==
    /\ Fine.kind = "fine" /\ Nothing.kind = "nothing"
    /\ \A f, n : MdAnswer(f, n).kind = "md" /\ CrcAnswer(f, n).kind = "crc"
    /\ \A f, n : CrcAnswer(f, n).crc = [k \in 1..n |-> f + k - 1]
BY Zenon DEF Fine, Nothing, MdAnswer, CrcAnswer

LEMMA Asked ==
    ASSUME OwedInv, NEW ans, Genuine(ans), NEW resp, Ask(ans, resp)
    PROVE  /\ OwedInv'
           /\ \/ resp = ans /\ owed' = <<>>
              \/ resp \in Damaged(ans) /\ owed' = <<>>
              \/ resp = Nothing /\ owed' = <<ans>>
              \/ owed = <<resp>> /\ Genuine(resp) /\ owed' = <<ans>>
<1>1. \/ resp = ans /\ owed' = <<>>
      \/ resp \in Damaged(ans) /\ owed' = <<>>
      \/ resp = Nothing /\ owed' = <<ans>>
      \/ owed = <<resp>> /\ Genuine(resp) /\ owed' = <<ans>>
  <2>1. CASE owed = <<>>
    BY <2>1, Zenon DEF Ask
  <2>2. CASE \E a : owed = <<a>> /\ Genuine(a)
    <3>1. PICK a : owed = <<a>> /\ Genuine(a)
      BY <2>2, Zenon
    <3>2. owed # <<>> /\ owed[1] = a
      BY <3>1, Zenon
    <3> QED
      BY <3>1, <3>2, Zenon DEF Ask
  <2> QED
    BY <2>1, <2>2, Zenon DEF OwedInv
<1> QED
  BY <1>1, Zenon DEF OwedInv, Genuine

\* parse_md_output always returns bytes.
LEMMA GenuineData ==
    ASSUME NEW ans, Genuine(ans), NEW resp, resp = ans \/ resp \in Damaged(ans)
    PROVE  parse_md_output(resp) \in Seq(Nat)
<1>1. CASE ans.kind = "md"
  <2>1. PICK f \in Nat \ {0}, n \in Int : f + n - 1 <= Size /\ ans = MdAnswer(f, n)
    BY <1>1, Kinds, Zenon DEF Genuine
  <2> QED
    BY <2>1, ParseWhole, ParseDamaged, Zenon
<1>2. CASE ans.kind # "md"
  <2>1. resp.kind # "md"
    BY <1>2, Kinds, Zenon DEF Damaged
  <2>2. parse_md_output(resp) = <<>>
    BY <2>1, Zenon DEF parse_md_output
  <2> QED
    BY <2>2
<1> QED
  BY <1>1, <1>2, Zenon

LEMMA AskedData ==
    ASSUME OwedInv, NEW ans, Genuine(ans), NEW resp, Ask(ans, resp)
    PROVE  parse_md_output(resp) \in Seq(Nat)
<1>1. Genuine(Nothing)
  BY Zenon DEF Genuine
<1> QED
  BY <1>1, Asked, GenuineData, Zenon

\* A crc32 that is printed is one of units of the flash.
LEMMA AskedCrc ==
    ASSUME OwedInv, NEW ans, Genuine(ans), NEW resp, Ask(ans, resp), resp.kind = "crc"
    PROVE  Run(resp.crc) /\ (owed' = <<>> \/ owed' = <<ans>>)
<1>1. \A a : Genuine(a) /\ a.kind = "crc" => Run(a.crc)
  <2> SUFFICES ASSUME NEW a, Genuine(a), a.kind = "crc" PROVE Run(a.crc)
    BY Zenon
  <2>1. PICK f \in Nat \ {0}, n \in Int : f + n - 1 <= Size /\ a = CrcAnswer(f, n)
    BY Kinds, Zenon DEF Genuine
  <2>2. a.crc = [k \in 1..n |-> f + k - 1]
    BY <2>1, Kinds, ZenonT(40)
  <2> QED
    BY <2>1, <2>2 DEF Run
<1>2. resp \notin Damaged(ans)
  <2>1. CASE ans.kind # "md"
    BY <2>1, Kinds, Zenon DEF Damaged
  <2>2. CASE ans.kind = "md"
    <3>1. PICK f \in Nat \ {0}, n \in Int : ans = MdAnswer(f, n)
      BY <2>2, Kinds, Zenon DEF Genuine
    <3>2. ans = [kind |-> "md", lines |-> ans.lines]
      BY <3>1, Zenon DEF MdAnswer
    <3>3. \A r \in Damaged(ans) : \E M : r = [ans EXCEPT !.lines = M]
      BY <2>2, Zenon DEF Damaged
    <3>4. \A M : [ans EXCEPT !.lines = M].kind = "md"
      BY <3>2
    <3> QED
      BY <3>3, <3>4, Zenon
  <2> QED
    BY <2>1, <2>2, Zenon
<1> QED
  BY <1>1, <1>2, Asked, Kinds, Zenon

-----------------------------------------------------------------------------
(* The file. *)

LEMMA OverwriteFacts ==
    ASSUME NEW f \in Seq(Nat), NEW pos \in Nat, pos <= Len(f), NEW data \in Seq(Nat)
    PROVE  /\ Overwrite(f, pos, data) \in Seq(Nat)
           /\ Len(Overwrite(f, pos, data)) >= Len(f)
           /\ Len(Overwrite(f, pos, data)) >= pos + Len(data)
           /\ \A k \in 1..Len(f) :
                 Overwrite(f, pos, data)[k] =
                     IF k \in (pos + 1)..(pos + Len(data)) THEN data[k - pos] ELSE f[k]
<1> DEFINE m == Max({Len(f), pos + Len(data)})
           Val(k) == IF k \in (pos + 1)..(pos + Len(data)) THEN data[k - pos] ELSE f[k]
<1>1. Len(f) \in Nat /\ Len(data) \in Nat
  OBVIOUS
<1>2. m \in Nat /\ m >= Len(f) /\ m >= pos + Len(data) /\ m \in {Len(f), pos + Len(data)}
  <2>1. Len(f) \in Int /\ pos + Len(data) \in Int
    BY <1>1
  <2>2. m \in {Len(f), pos + Len(data)} /\ m >= Len(f) /\ m >= pos + Len(data)
    BY <2>1, MaxOfTwo, Zenon
  <2> HIDE DEF m
  <2> QED
    BY <1>1, <2>2
<1>3. Overwrite(f, pos, data) = [k \in 1..m |-> Val(k)]
  BY Zenon DEF Overwrite
<1> HIDE DEF m
<1>4. \A k \in 1..m : Val(k) \in Nat
  <2> SUFFICES ASSUME NEW k \in 1..m PROVE Val(k) \in Nat
    BY Zenon
  <2>1. CASE k \in (pos + 1)..(pos + Len(data))
    <3>1. k - pos \in 1..Len(data)
      BY <1>1, <2>1
    <3> QED
      BY <2>1, <3>1
  <2>2. CASE k \notin (pos + 1)..(pos + Len(data))
    <3>1. k \in 1..Len(f)
      BY <1>1, <1>2, <2>2
    <3> QED
      BY <2>2, <3>1
  <2> QED
    BY <2>1, <2>2, Zenon
<1> DEFINE w == [k \in 1..m |-> Val(k)]
<1>5. \A k \in 1..m : w[k] = Val(k)
  BY Zenon
<1> HIDE DEF Val
<1>6. w \in Seq(Nat) /\ Len(w) = m
  BY <1>2, <1>4
<1> HIDE DEF w
<1>7. \A k \in 1..Len(f) : w[k] = Val(k)
  BY <1>1, <1>2, <1>5
<1> QED
  BY <1>2, <1>3, <1>6, <1>7, Zenon DEF Val, w

\* A chunk goes to the file.
LEMMA StoreFile ==
    ASSUME FileInv, phase \in {"md", "crc"}, NEW data \in Seq(Nat), Store(data)
    PROVE  /\ FileInv' /\ phase' \in {"md", "whole", "done"}
           /\ phase' = "done" => ~(hasCrc' /\ offset' = Size)
<1> DEFINE end == offset + Len(data)
<1>1. /\ file \in Seq(Nat) /\ offset \in Nat /\ offset < Size /\ offset <= Len(file)
      /\ Len(data) \in Nat /\ Len(file) \in Nat /\ Size \in Nat
  BY FlashDumpAssumption DEF FileInv
<1>2. file' \in Seq(Nat) /\ Len(file') >= end
  BY <1>1, OverwriteFacts, Zenon DEF Store
<1>3. /\ offset' = end /\ end \in Nat /\ chunk' = <<>> /\ hasCrc' = hasCrc /\ at' = at
      /\ phase' = "md" => end < Size
      /\ phase' = "whole" => end = Size
      /\ phase' = "done" => ~(hasCrc /\ end = Size)
      /\ phase' \in {"md", "whole", "done"}
  BY <1>1 DEF Store
<1>4. chunk' \in Seq(Nat)
  BY <1>3
<1> HIDE DEF end
<1> QED
  BY <1>1, <1>2, <1>3, <1>4, Zenon DEF FileInv, Verifying

LEMMA RetryFile ==
    ASSUME FileInv, phase \in {"md", "crc"}, NEW data \in Seq(Nat), Retry(data)
    PROVE  /\ FileInv' /\ phase' \in {"md", "whole", "done"}
           /\ phase' = "done" => ~(hasCrc' /\ offset' = Size)
<1>1. CASE attempt < MaxRetries
  <2>1. chunk' = <<>> /\ phase' = "md" /\ UNCHANGED <<hasCrc, offset, file, at>>
    BY <1>1, Zenon DEF Retry
  <2>2. chunk' \in Seq(Nat)
    BY <2>1
  <2> QED
    BY <2>1, <2>2, Zenon DEF FileInv, Verifying
<1>2. CASE ~(attempt < MaxRetries)
  BY <1>2, StoreFile, Zenon DEF Retry
<1> QED
  BY <1>1, <1>2, Zenon

\* How long the pieces are that the commands ask for.
LEMMA Lengths ==
    ASSUME FileInv
    PROVE  /\ phase \in {"md", "crc"} =>
                 Remaining \in Nat /\ (offset + 1) + Remaining - 1 <= Size /\ Zeros \in Seq(Nat)
           /\ phase = "block" => BlockLen \in Int /\ (at + 1) + BlockLen - 1 <= Size
           /\ BlockEnd \in Int /\ BlockEnd <= Size
           /\ PartLen \in Int /\ (at + 1) + PartLen - 1 <= Size
<1>1. /\ Size \in Nat /\ Chunk \in Nat /\ Block \in Nat \ {0} /\ offset \in Nat /\ at \in Nat
  BY FlashDumpAssumption DEF FileInv
<1>2. phase \in {"md", "crc"} => Remaining \in Nat /\ (offset + 1) + Remaining - 1 <= Size
  <2> HAVE phase \in {"md", "crc"}
  <2>1. Size - offset \in Nat
    BY <1>1 DEF FileInv
  <2>2. Remaining \in {Chunk, Size - offset} /\ Remaining <= Size - offset
    BY <1>1, <2>1, MinOfTwo DEF Remaining
  <2> QED
    BY <1>1, <2>1, <2>2
<1>3. Remaining \in Nat => Zeros \in Seq(Nat)
  BY DEF Zeros
<1>4. BlockLen \in Int /\ BlockLen <= Size - at
  BY <1>1, MinOfTwo DEF BlockLen
<1>5. BlockEnd \in Int /\ BlockEnd <= Size
  <2>1. (at \div Block + 1) * Block \in Int
    BY <1>1, Rounding
  <2>2. Size \in Int
    BY <1>1
  <2>3. BlockEnd \in {Size, (at \div Block + 1) * Block} /\ BlockEnd <= Size
    BY <2>1, <2>2, MinOfTwo, Zenon DEF BlockEnd
  <2> QED
    BY <2>1, <2>2, <2>3, Zenon
<1>6. PartLen \in Int /\ PartLen <= BlockEnd - at
  <2>1. Chunk \in Int /\ BlockEnd - at \in Int
    BY <1>1, <1>5
  <2>2. PartLen \in {Chunk, BlockEnd - at} /\ PartLen <= BlockEnd - at
    BY <2>1, MinOfTwo, Zenon DEF PartLen
  <2> QED
    BY <2>1, <2>2, Zenon
<1> QED
  BY <1>1, <1>2, <1>3, <1>4, <1>5, <1>6

-----------------------------------------------------------------------------
(* The steps of dump_flash. *)

LEMMA Constants ==
    /\ Size \in Nat \ {0} /\ Chunk \in Nat \ {0} /\ Block \in Nat \ {0}
    /\ Genuine(Fine) /\ Genuine(Nothing) /\ Genuine(CrcAnswer(1, Size))
    /\ Genuine(CrcAnswer(0, 0))
<1>1. Size \in Nat \ {0} /\ Chunk \in Nat \ {0} /\ Block \in Nat \ {0}
  BY FlashDumpAssumption
<1>2. Genuine(CrcAnswer(1, Size))
  BY <1>1 DEF Genuine
<1>3. CrcAnswer(0, 0) = CrcAnswer(1, 0)
  <2>1. [k \in 1..0 |-> 0 + k - 1] = [k \in 1..0 |-> 1 + k - 1]
    OBVIOUS
  <2> QED
    BY <2>1, Zenon DEF CrcAnswer
<1>4. Genuine(CrcAnswer(1, 0))
  BY <1>1 DEF Genuine
<1> QED
  BY <1>1, <1>2, <1>3, <1>4, Zenon DEF Genuine

\* The commands before the copying, and Open.
LEMMA PreparationStep ==
    ASSUME DumpInv,
           FindRam \/ FindSize \/ ProbeFlash \/ ReadFlash \/ SanityCheck \/ Detect \/ Open
    PROVE  DumpInv'
<1> USE DEF DumpInv
<1>1. CASE FindRam \/ FindSize \/ ProbeFlash \/ ReadFlash \/ SanityCheck
  <2>1. OwedInv'
    <3>1. (\E resp : Ask(Fine, resp)) \/ UNCHANGED owed
      BY <1>1, Zenon DEF FindRam, FindSize, ProbeFlash, ReadFlash, SanityCheck, Command, Raises
    <3> QED
      BY <3>1, Asked, Constants, Zenon DEF OwedInv, Genuine
  <2>2. /\ phase' \in {"size", "probe", "read", "look", "detect", "failed"}
        /\ UNCHANGED <<hasCrc, offset, chunk, file, at>>
    BY <1>1, Zenon DEF FindRam, FindSize, ProbeFlash, ReadFlash, SanityCheck, Command, Goto
  <2> QED
    BY <2>1, <2>2, Zenon DEF FileInv, AgainInv, DumpFaithful, Verifying
<1>2. CASE Detect
  <2> DEFINE ans == IF crc32 THEN CrcAnswer(0, 0) ELSE Nothing
  <2>1. Genuine(ans)
    BY Constants, Zenon
  <2>2. (\E resp : Ask(ans, resp)) \/ UNCHANGED owed
    BY <1>2, Zenon DEF Detect, Raises
  <2> HIDE DEF ans
  <2>3. OwedInv'
    BY <2>1, <2>2, Asked, Zenon DEF OwedInv, Genuine
  <2>4. /\ phase' \in {"open", "failed"} /\ hasCrc' \in BOOLEAN
        /\ UNCHANGED <<offset, chunk, file, at>>
    <3>1. \A r : (r.kind = "crc") \in BOOLEAN
      BY Zenon
    <3> QED
      BY <1>2, <3>1, Zenon DEF Detect, FileInv
  <2> QED
    BY <2>3, <2>4, Zenon DEF FileInv, AgainInv, DumpFaithful, Verifying
<1>3. CASE Open
  <2> DEFINE down == (Len(file) \div Chunk) * Chunk
  <2>1. /\ file \in Seq(Nat) /\ Len(file) \in Nat /\ Size \in Nat \ {0} /\ Chunk \in Nat \ {0}
    BY Constants DEF FileInv
  <2>2. down \in Nat /\ down <= Len(file)
    BY <2>1, Rounding, Zenon
  <2>3. ResumeAt = IF 0 < down /\ down < Size THEN down
                   ELSE IF Len(file) = Size /\ hasCrc THEN Size ELSE 0
    BY Zenon DEF ResumeAt
  <2> HIDE DEF down
  <2>4. ResumeAt \in Nat /\ ResumeAt <= Len(file) /\ ResumeAt <= Size
    BY <2>1, <2>2, <2>3
  <2>5. /\ offset' = ResumeAt /\ file' = (IF ResumeAt = 0 THEN <<>> ELSE file)
        /\ phase' = (IF ResumeAt = Size THEN "whole" ELSE "md")
        /\ UNCHANGED <<hasCrc, chunk, at, owed>>
    BY <1>3, Zenon DEF Open
  <2>6. file' \in Seq(Nat) /\ offset' <= Len(file')
    <3>1. CASE ResumeAt = 0
      BY <2>5, <3>1
    <3>2. CASE ResumeAt # 0
      BY <2>1, <2>4, <2>5, <3>2, Zenon
    <3> QED
      BY <3>1, <3>2, Zenon
  <2>7. FileInv'
    BY <2>1, <2>4, <2>5, <2>6 DEF FileInv, Verifying
  <2> QED
    BY <2>5, <2>7, Zenon DEF OwedInv, Genuine, AgainInv, DumpFaithful
<1> QED
  BY <1>1, <1>2, <1>3, Zenon

LEMMA ReadChunkStep ==
    ASSUME DumpInv, ReadChunk
    PROVE  DumpInv'
<1> USE DEF DumpInv
<1> DEFINE ans == MdAnswer(offset + 1, Remaining)
<1>1. phase = "md" /\ offset \in Nat
  BY Zenon DEF ReadChunk, FileInv
<1>2. Genuine(ans) /\ Zeros \in Seq(Nat)
  <2>1. offset + 1 \in Nat \ {0} /\ Remaining \in Int
    BY <1>1, Lengths
  <2>2. (offset + 1) + Remaining - 1 <= Size /\ Zeros \in Seq(Nat)
    BY <1>1, Lengths, Zenon
  <2> QED
    BY <2>1, <2>2, Zenon DEF Genuine
<1>3. \/ \E resp : /\ Ask(ans, resp)
                   /\ \/ Retry(Zeros) \/ Store(parse_md_output(resp))
                      \/ /\ phase' = "crc" /\ chunk' = parse_md_output(resp)
                         /\ UNCHANGED <<hasCrc, offset, attempt, file, at, want>>
      \/ UNCHANGED owed /\ Retry(Zeros)
  BY Zenon DEF ReadChunk, Raises
<1> HIDE DEF ans
<1>4. OwedInv'
  BY <1>2, <1>3, Asked, Zenon DEF OwedInv, Genuine
<1>5. /\ FileInv' /\ phase' \in {"md", "crc", "whole", "done"}
      /\ phase' = "done" => ~(hasCrc' /\ offset' = Size)
  <2>1. CASE Retry(Zeros)
    BY <1>1, <1>2, <2>1, RetryFile, Zenon
  <2>2. ASSUME NEW resp, Ask(ans, resp),
               \/ Store(parse_md_output(resp))
               \/ /\ phase' = "crc" /\ chunk' = parse_md_output(resp)
                  /\ UNCHANGED <<hasCrc, offset, attempt, file, at, want>>
        PROVE  /\ FileInv' /\ phase' \in {"md", "crc", "whole", "done"}
               /\ phase' = "done" => ~(hasCrc' /\ offset' = Size)
    <3>1. parse_md_output(resp) \in Seq(Nat)
      BY <1>2, <2>2, AskedData, Zenon
    <3>2. CASE Store(parse_md_output(resp))
      BY <1>1, <3>1, <3>2, StoreFile, Zenon
    <3>3. CASE /\ phase' = "crc" /\ chunk' = parse_md_output(resp)
               /\ UNCHANGED <<hasCrc, offset, attempt, file, at, want>>
      BY <1>1, <3>1, <3>3, Zenon DEF FileInv, Verifying
    <3> QED
      BY <2>2, <3>2, <3>3, Zenon
  <2> QED
    BY <1>3, <2>1, <2>2, Zenon
<1> QED
  BY <1>4, <1>5, Zenon DEF AgainInv, DumpFaithful

LEMMA CheckChunkStep ==
    ASSUME DumpInv, CheckChunk
    PROVE  DumpInv'
<1> USE DEF DumpInv
<1> DEFINE ans == CrcAnswer(offset + 1, Remaining)
<1>1. phase = "crc" /\ offset \in Nat /\ chunk \in Seq(Nat)
  BY Zenon DEF CheckChunk, FileInv
<1>2. Genuine(ans)
  <2>1. offset + 1 \in Nat \ {0} /\ Remaining \in Int /\ (offset + 1) + Remaining - 1 <= Size
    BY <1>1, Lengths
  <2> QED
    BY <2>1, Zenon DEF Genuine
<1>3. ((\E resp : Ask(ans, resp)) \/ UNCHANGED owed) /\ (Store(chunk) \/ Retry(chunk))
  BY Zenon DEF CheckChunk, Raises
<1> HIDE DEF ans
<1>4. OwedInv'
  BY <1>2, <1>3, Asked, Zenon DEF OwedInv, Genuine
<1>5. /\ FileInv' /\ phase' \in {"md", "whole", "done"}
      /\ phase' = "done" => ~(hasCrc' /\ offset' = Size)
  BY <1>1, <1>3, StoreFile, RetryFile, Zenon
<1> QED
  BY <1>4, <1>5, Zenon DEF AgainInv, DumpFaithful

-----------------------------------------------------------------------------
(* The steps of verify_and_repair. *)

\* A crc32 that the whole file has, whichever command it answers, is the
\* flash's: no other units are as many.
LEMMA RunIsWhole ==
    ASSUME file \in Seq(Nat), Len(file) >= Size, Run(Part(0, Size))
    PROVE  SubSeq(file, 1, Size) = Whole
<1>0. Size \in Nat \ {0}
  BY Constants, Zenon
<1>1. Part(0, Size) = SubSeq(file, 1, Size)
  BY <1>0 DEF Part
<1>2. SubSeq(file, 1, Size) \in Seq(Nat) /\ Len(SubSeq(file, 1, Size)) = Size
  BY <1>0
<1>3. PICK f \in Nat \ {0}, n \in Int :
         f + n - 1 <= Size /\ SubSeq(file, 1, Size) = [k \in 1..n |-> f + k - 1]
  BY <1>1, Zenon DEF Run
<1>4. DOMAIN SubSeq(file, 1, Size) = 1..Size
  BY <1>2
<1>5. 1..n = 1..Size
  BY <1>3, <1>4, Zenon
<1>6. n = Size
  BY <1>0, <1>5
<1>7. f = 1
  BY <1>0, <1>3, <1>6
<1>8. [k \in 1..Size |-> 1 + k - 1] = [k \in 1..Size |-> k]
  OBVIOUS
<1> QED
  BY <1>3, <1>6, <1>7, <1>8, Zenon DEF Whole

LEMMA VerifyWholeStep ==
    ASSUME DumpInv, VerifyWhole \/ VerifyFinal
    PROVE  DumpInv' /\ UNCHANGED file
<1> USE DEF DumpInv
<1> DEFINE ans == CrcAnswer(1, Size)
<1>1. /\ phase \in {"whole", "final"} /\ UNCHANGED <<hasCrc, offset, chunk, file>>
      /\ \/ \E resp : /\ Ask(ans, resp) /\ resp.kind = "crc"
                      /\ at' = 0 /\ phase' \in {"done", "block", "failed"}
                      /\ phase' = "done" => resp.crc = Part(0, Size)
         \/ /\ (\E resp : Ask(ans, resp)) \/ UNCHANGED owed
            /\ phase' \in {phase, "failed"} /\ at' = at
  BY Zenon DEF VerifyWhole, VerifyFinal, DeviceCrc, Go, Raises
<1> HIDE DEF ans
<1>2. Genuine(ans)
  BY Constants, Zenon DEF ans
<1>3. OwedInv'
  BY <1>1, <1>2, Asked, Zenon DEF OwedInv, Genuine
<1>4. file \in Seq(Nat) /\ Len(file) >= Size /\ Size \in Nat \ {0} /\ at \in Nat
  BY <1>1, Constants, Zenon DEF FileInv, Verifying
<1>5. FileInv'
  BY <1>1, <1>4 DEF FileInv, Verifying
<1>6. phase' = "done" => SubSeq(file, 1, Size) = Whole
  <2>1. SUFFICES ASSUME phase' = "done" PROVE Run(Part(0, Size))
    BY <1>4, RunIsWhole, Zenon
  <2>2. PICK resp : Ask(ans, resp) /\ resp.kind = "crc" /\ resp.crc = Part(0, Size)
    BY <1>1, <2>1, Zenon
  <2>3. Run(resp.crc)
    BY <1>2, <2>2, AskedCrc, Zenon
  <2> QED
    BY <2>2, <2>3, Zenon
<1> QED
  BY <1>1, <1>3, <1>5, <1>6, Zenon DEF AgainInv, DumpFaithful

\* NextBlock and NextPart go on inside the flash, or to the final check.
LEMMA NextPlace ==
    ASSUME FileInv
    PROVE  /\ NextBlock(at) => /\ at' \in Nat /\ phase' \in {"block", "final"}
                               /\ phase' = "block" => at' < Size
           /\ NextPart => /\ at' \in Nat /\ phase' \in {"part", "block", "final"}
                          /\ phase' \in {"part", "block"} => at' < Size
<1> DEFINE next == (at \div Block + 1) * Block
<1>1. Size \in Nat /\ Chunk \in Nat /\ Block \in Nat \ {0} /\ at \in Nat
  BY Constants, Zenon DEF FileInv
<1>2. next \in Nat
  BY <1>1, Rounding, Zenon
<1> HIDE DEF next
<1>3. NextBlock(at) => IF next < Size THEN phase' = "block" /\ at' = next
                       ELSE phase' = "final" /\ at' = 0
  BY Zenon DEF NextBlock, Go, next
<1>4. NextBlock(at) => /\ at' \in Nat /\ phase' \in {"block", "final"}
                       /\ phase' = "block" => at' < Size
  BY <1>1, <1>2, <1>3
<1>5. BlockEnd \in Int /\ BlockEnd <= Size
  BY Lengths, Zenon
<1>6. NextPart => NextBlock(at) \/ (phase' = "part" /\ at' = at + Chunk /\ at + Chunk < BlockEnd)
  BY Zenon DEF NextPart, Go
<1> QED
  BY <1>1, <1>4, <1>5, <1>6

LEMMA VerifyBlockStep ==
    ASSUME DumpInv, VerifyBlock
    PROVE  DumpInv' /\ UNCHANGED file
<1> USE DEF DumpInv
<1> DEFINE ans == CrcAnswer(at + 1, BlockLen)
<1>1. /\ phase = "block" /\ UNCHANGED <<hasCrc, offset, chunk, file>>
      /\ (\E resp : Ask(ans, resp)) \/ UNCHANGED owed
      /\ \/ NextBlock(at)
         \/ phase' = "part" /\ at' = at
         \/ phase' \in {phase, "failed"} /\ at' = at
  BY Zenon DEF VerifyBlock, DeviceCrc, Go, Raises
<1> HIDE DEF ans
<1>2. Genuine(ans)
  <2>1. at + 1 \in Nat \ {0} /\ BlockLen \in Int /\ (at + 1) + BlockLen - 1 <= Size
    BY <1>1, Lengths DEF FileInv
  <2> QED
    BY <2>1, Zenon DEF Genuine, ans
<1>3. OwedInv'
  BY <1>1, <1>2, Asked, Zenon DEF OwedInv, Genuine
<1>4. /\ phase' \in {"block", "part", "final", "failed"} /\ at' \in Nat
      /\ phase' \in {"block", "part"} => at' < Size
  BY <1>1, NextPlace, Zenon DEF FileInv
<1>5. FileInv'
  BY <1>1, <1>4, Zenon DEF FileInv, Verifying
<1> QED
  BY <1>1, <1>3, <1>4, <1>5, Zenon DEF AgainInv, DumpFaithful

LEMMA VerifyPartStep ==
    ASSUME DumpInv, VerifyPart
    PROVE  DumpInv' /\ UNCHANGED file
<1> USE DEF DumpInv
<1> DEFINE ans == CrcAnswer(at + 1, PartLen)
<1>1. /\ phase = "part" /\ UNCHANGED <<hasCrc, offset, chunk, file>>
      /\ \/ \E resp : /\ Ask(ans, resp) /\ resp.kind = "crc"
                      /\ NextPart \/ (phase' = "again" /\ at' = at /\ want' = resp.crc)
         \/ /\ (\E resp : Ask(ans, resp)) \/ UNCHANGED owed
            /\ phase' \in {phase, "failed"} /\ at' = at
  BY Zenon DEF VerifyPart, DeviceCrc, Raises
<1> HIDE DEF ans
<1>2. Genuine(ans)
  <2>1. at + 1 \in Nat \ {0} /\ PartLen \in Int /\ (at + 1) + PartLen - 1 <= Size
    BY <1>1, Lengths DEF FileInv
  <2> QED
    BY <2>1, Zenon DEF Genuine, ans
<1>3. OwedInv'
  BY <1>1, <1>2, Asked, Zenon DEF OwedInv, Genuine
<1>4. /\ phase' \in {"block", "part", "again", "final", "failed"} /\ at' \in Nat
      /\ phase' \in {"block", "part", "again"} => at' < Size
  BY <1>1, NextPlace, Zenon DEF FileInv
<1>5. FileInv'
  BY <1>1, <1>4, Zenon DEF FileInv, Verifying
<1>6. AgainInv'
  <2> SUFFICES ASSUME phase' = "again" PROVE AgainInv'
    BY Zenon DEF AgainInv
  <2>1. PICK resp : Ask(ans, resp) /\ resp.kind = "crc" /\ want' = resp.crc
    BY <1>1, NextPlace, Zenon
  <2>2. Run(want') /\ (owed' = <<>> \/ owed' = <<ans>>)
    BY <1>2, <2>1, AskedCrc, Zenon
  <2>3. ans.kind # "md"
    BY Kinds, Zenon DEF ans
  <2>4. ASSUME NEW a, owed' = <<a>> PROVE a.kind # "md"
    BY <2>2, <2>3, <2>4, Zenon
  <2> QED
    BY <2>2, <2>4, Zenon DEF AgainInv, Run
<1> QED
  BY <1>1, <1>3, <1>4, <1>5, <1>6, Zenon DEF DumpFaithful

\* What is taken for a chunk read again is that chunk: a crc32 of other
\* units, left from another command, matches nothing that md.b prints for it.
LEMMA AgainData ==
    ASSUME DumpInv, phase = "again", NEW resp, Ask(MdAnswer(at + 1, PartLen), resp),
           Matches(parse_md_output(resp))
    PROVE  /\ parse_md_output(resp) \in Seq(Nat)
           /\ \A k \in 1..Len(parse_md_output(resp)) : parse_md_output(resp)[k] = at + k
<1> USE DEF DumpInv
<1> DEFINE ans == MdAnswer(at + 1, PartLen)
           data == parse_md_output(resp)
<1>1. /\ at \in Nat /\ at + 1 \in Nat \ {0} /\ PartLen \in Int
      /\ (at + 1) + PartLen - 1 <= Size
  BY Lengths DEF FileInv
<1>2. Genuine(ans)
  BY <1>1, Zenon DEF Genuine
<1>3. data \in Seq(Nat) /\ Len(data) = PartLen /\ data = want
  BY <1>2, AskedData, Zenon DEF Matches
<1> HIDE DEF data
<1>4. PICK g \in Nat \ {0} : \A k \in 1..PartLen : data[k] = g + k - 1
  <2>1. PICK g \in Nat \ {0}, n \in Int : want = [k \in 1..n |-> g + k - 1]
    BY Zenon DEF AgainInv, Run
  <2>2. DOMAIN data = 1..PartLen
    BY <1>3
  <2>3. DOMAIN want = 1..n
    BY <2>1, Zenon
  <2> QED
    BY <1>3, <2>1, <2>2, <2>3, Zenon
<1>5. \/ resp = ans \/ resp \in Damaged(ans) \/ resp = Nothing
      \/ owed = <<resp>> /\ Genuine(resp)
  BY <1>2, Asked, Zenon
<1>6. resp.kind = "md" => resp = ans \/ resp \in Damaged(ans)
  BY <1>5, Kinds, Zenon DEF AgainInv
<1> HIDE DEF ans
<1>7. CASE resp = ans
  <2>1. \A k \in 1..PartLen : data[k] = (at + 1) + k - 1
    BY <1>1, <1>3, <1>7, ParseWhole, Zenon DEF ans, data
  <2> QED
    BY <1>1, <1>3, <2>1 DEF data
<1>8. CASE resp \in Damaged(ans)
  <2>1. \A k \in 1..PartLen : data[k] = (at + 1) + k - 1
    BY <1>1, <1>3, <1>4, <1>8, ParseDamaged, Zenon DEF ans, data
  <2> QED
    BY <1>1, <1>3, <2>1 DEF data
<1>9. CASE resp.kind # "md"
  <2>1. data = <<>>
    BY <1>9, Zenon DEF parse_md_output, data
  <2> QED
    BY <1>3, <2>1 DEF data
<1> QED
  BY <1>6, <1>7, <1>8, <1>9, Zenon

LEMMA ReadAgainStep ==
    ASSUME DumpInv, ReadAgain
    PROVE  DumpInv' /\ \A k \in 1..Size : (file[k] = k => file'[k] = k)
<1> USE DEF DumpInv
<1> DEFINE ans == MdAnswer(at + 1, PartLen)
<1>1. /\ phase = "again" /\ UNCHANGED <<hasCrc, offset, chunk>>
      /\ \/ \E resp : /\ Ask(ans, resp) /\ Matches(parse_md_output(resp))
                      /\ file' = Overwrite(file, at, parse_md_output(resp)) /\ NextPart
         \/ /\ \E resp : Ask(ans, resp)
            /\ UNCHANGED <<phase, at, want, file>>
         \/ /\ (\E resp : Ask(ans, resp)) \/ UNCHANGED owed
            /\ phase' = "failed" /\ UNCHANGED <<at, file>>
  BY Zenon DEF ReadAgain, Raises
<1> HIDE DEF ans
<1>2. /\ at \in Nat /\ at < Size /\ file \in Seq(Nat) /\ Len(file) >= Size /\ Len(file) \in Nat
      /\ Size \in Nat \ {0}
  BY <1>1, Constants DEF FileInv, Verifying
<1>3. Genuine(ans)
  <2>1. at + 1 \in Nat \ {0} /\ PartLen \in Int /\ (at + 1) + PartLen - 1 <= Size
    BY Lengths DEF FileInv
  <2> QED
    BY <2>1, Zenon DEF Genuine, ans
<1>4. OwedInv'
  BY <1>1, <1>3, Asked, Zenon DEF OwedInv, Genuine
<1>5. CASE \E resp : /\ Ask(ans, resp) /\ Matches(parse_md_output(resp))
                     /\ file' = Overwrite(file, at, parse_md_output(resp)) /\ NextPart
  <2>1. PICK resp : /\ Ask(ans, resp) /\ Matches(parse_md_output(resp))
                    /\ file' = Overwrite(file, at, parse_md_output(resp)) /\ NextPart
    BY <1>5, Zenon
  <2> DEFINE data == parse_md_output(resp)
  <2>2. data \in Seq(Nat) /\ \A k \in 1..Len(data) : data[k] = at + k
    BY <1>1, <2>1, AgainData, Zenon DEF ans
  <2> HIDE DEF data
  <2>3. /\ file' \in Seq(Nat) /\ Len(file') >= Len(file)
        /\ \A k \in 1..Len(file) :
              file'[k] = IF k \in (at + 1)..(at + Len(data)) THEN data[k - at] ELSE file[k]
    <3>1. at <= Len(file)
      BY <1>2
    <3>2. file' = Overwrite(file, at, data)
      BY <2>1, Zenon DEF data
    <3> DEFINE w == Overwrite(file, at, data)
    <3>3. /\ w \in Seq(Nat) /\ Len(w) >= Len(file)
          /\ \A k \in 1..Len(file) :
                w[k] = IF k \in (at + 1)..(at + Len(data)) THEN data[k - at] ELSE file[k]
      BY <1>2, <2>2, <3>1, OverwriteFacts, Zenon
    <3> QED
      BY <3>2, <3>3, Zenon
  <2>4. ASSUME NEW k \in 1..Size, file[k] = k PROVE file'[k] = k
    <3>1. Len(data) \in Nat /\ k \in 1..Len(file)
      BY <1>2, <2>2
    <3>2. CASE k \in (at + 1)..(at + Len(data))
      <4>1. k - at \in 1..Len(data)
        BY <1>2, <3>1, <3>2
      <4>2. data[k - at] = at + (k - at)
        BY <2>2, <4>1, Zenon
      <4>3. at + (k - at) = k
        BY <1>2
      <4> QED
        BY <2>3, <3>1, <3>2, <4>2, <4>3, Zenon
    <3> QED
      BY <2>3, <2>4, <3>1, <3>2, Zenon
  <2>5. /\ phase' \in {"part", "block", "final"} /\ at' \in Nat
        /\ phase' \in {"part", "block"} => at' < Size
    BY <2>1, NextPlace, Zenon
  <2>6. Len(file') >= Size
    BY <1>2, <2>3
  <2>7. FileInv'
    BY <1>1, <2>3, <2>5, <2>6, Zenon DEF FileInv, Verifying
  <2> QED
    BY <1>4, <2>4, <2>5, <2>7, Zenon DEF AgainInv, DumpFaithful
<1>6. CASE /\ \E resp : Ask(ans, resp)
           /\ UNCHANGED <<phase, at, want, file>>
  <2>1. FileInv'
    BY <1>1, <1>6, Zenon DEF FileInv, Verifying
  <2>2. owed' = <<>> \/ owed' = <<ans>>
    BY <1>3, <1>6, Asked, Zenon
  <2>3. ans = MdAnswer(at' + 1, PartLen')
    BY <1>6, Zenon DEF ans, PartLen, BlockEnd
  <2>4. \A a : owed' = <<a>> => a = ans
    BY <2>2
  <2>5. AgainInv'
    BY <1>1, <1>6, <2>3, <2>4, Zenon DEF AgainInv, Run
  <2> QED
    BY <1>1, <1>4, <1>6, <2>1, <2>5, Zenon DEF DumpFaithful
<1>7. CASE phase' = "failed" /\ UNCHANGED <<at, file>>
  BY <1>1, <1>4, <1>7, Zenon DEF FileInv, Verifying, AgainInv, DumpFaithful
<1> QED
  BY <1>1, <1>5, <1>6, <1>7, Zenon

-----------------------------------------------------------------------------
(* The terminal screen, and the results. *)

LEMMA ScreenStep ==
    ASSUME DumpInv, StartDump \/ PressButton \/ WorkerEnds \/ Back \/ UNCHANGED dumpVars
    PROVE  DumpInv'
<1> USE DEF DumpInv
<1>1. /\ UNCHANGED <<hasCrc, offset, chunk, file, at, want>>
      /\ owed' = owed \/ owed' = <<>>
      /\ phase' = phase \/ phase' = "ram"
  BY Zenon DEF StartDump, PressButton, WorkerEnds, Back, dump, dumpVars
<1>2. OwedInv'
  BY <1>1, Zenon DEF OwedInv, Genuine
<1>3. FileInv'
  BY <1>1, Zenon DEF FileInv, Verifying
<1>4. AgainInv'
  <2> SUFFICES ASSUME phase' = "again" PROVE AgainInv'
    BY Zenon DEF AgainInv
  <2>1. phase = "again" /\ PartLen' = PartLen
    BY <1>1, Zenon DEF PartLen, BlockEnd
  <2>2. \A a : owed' = <<a>> => owed = <<a>>
    BY <1>1
  <2> QED
    BY <1>1, <2>1, <2>2, Zenon DEF AgainInv, Run
<1> QED
  BY <1>1, <1>2, <1>3, <1>4, Zenon DEF DumpFaithful

\* Every step keeps the invariant, and a step of the repair what is right.
LEMMA DumpInvStep ==
    ASSUME DumpInv, [DumpNext]_dumpVars
    PROVE  /\ DumpInv'
           /\ Verifying => \A k \in 1..Size : (file[k] = k => file'[k] = k)
<1>1. CASE FindRam \/ FindSize \/ ProbeFlash \/ ReadFlash \/ SanityCheck \/ Detect \/ Open
  <2>1. ~Verifying
    BY <1>1, Zenon DEF FindRam, FindSize, ProbeFlash, ReadFlash, SanityCheck, Command, Detect, Open,
                Verifying
  <2> QED
    BY <1>1, <2>1, PreparationStep, Zenon
<1>2. CASE ReadChunk
  BY <1>2, ReadChunkStep, Zenon DEF ReadChunk, Verifying
<1>3. CASE CheckChunk
  BY <1>3, CheckChunkStep, Zenon DEF CheckChunk, Verifying
<1>4. CASE VerifyWhole \/ VerifyFinal
  BY <1>4, VerifyWholeStep, Zenon
<1>5. CASE VerifyBlock
  BY <1>5, VerifyBlockStep, Zenon
<1>6. CASE VerifyPart
  BY <1>6, VerifyPartStep, Zenon
<1>7. CASE ReadAgain
  BY <1>7, ReadAgainStep, Zenon
<1>8. CASE StartDump \/ PressButton \/ WorkerEnds \/ Back \/ UNCHANGED dumpVars
  <2>1. file' = file
    BY <1>8, Zenon DEF StartDump, PressButton, WorkerEnds, Back, dump, dumpVars
  <2> QED
    BY <1>8, <2>1, ScreenStep, Zenon
<1> QED
  BY <1>1, <1>2, <1>3, <1>4, <1>5, <1>6, <1>7, <1>8, Zenon DEF DumpNext, DumpStep

LEMMA DumpInvInit == DumpInit => DumpInv
<1> SUFFICES ASSUME DumpInit PROVE DumpInv
  BY Zenon
<1>1. EarlierFiles \subseteq Seq(Nat)
  <2>1. Chunk \in Nat /\ Chunk + 1 \in Nat /\ Size \in Nat
    BY Constants
  <2> DEFINE Earlier(n, bad) == [k \in 1..n |-> IF k = 1 /\ bad THEN 0 ELSE k]
  <2>2. \A n \in Nat, bad \in BOOLEAN : Earlier(n, bad) \in Seq(Nat)
    OBVIOUS
  <2>3. EarlierFiles = {<<>>} \cup
           {Earlier(n, bad) : n \in {Chunk, Chunk + 1, Size}, bad \in BOOLEAN}
    BY DEF EarlierFiles
  <2> HIDE DEF Earlier
  <2>4. <<>> \in Seq(Nat)
    OBVIOUS
  <2>5. ASSUME NEW f \in EarlierFiles PROVE f \in Seq(Nat)
    <3>1. \/ f = <<>>
          \/ \E n \in {Chunk, Chunk + 1, Size}, bad \in BOOLEAN : f = Earlier(n, bad)
      BY <2>3
    <3> QED
      BY <2>1, <2>2, <2>4, <3>1, Zenon
  <2> QED
    BY <2>5, Zenon
<1>2. chunk = <<>> /\ chunk \in Seq(Nat) /\ file \in Seq(Nat)
  <2>1. <<>> \in Seq(Nat)
    OBVIOUS
  <2> QED
    BY <1>1, <2>1, Zenon DEF DumpInit
<1>3. phase \in {"ram", "idle"} /\ hasCrc = FALSE /\ offset = 0 /\ at = 0 /\ owed = <<>>
  BY Zenon DEF DumpInit
<1> QED
  BY <1>2, <1>3, Zenon DEF DumpInv, OwedInv, FileInv, AgainInv, DumpFaithful, Verifying

\* DumpInv always holds: for every size of flash, chunk and block, every
\* number of retries, and any number of answers damaged, lost or late.
THEOREM DumpInvariance == DumpSpec => []DumpInv
<1>1. DumpInv /\ [DumpNext]_dumpVars => DumpInv'
  BY DumpInvStep, Zenon
<1> QED
  BY <1>1, DumpInvInit, PTL DEF DumpSpec

\* dump_flash that verified a file of exactly the flash's size and ended well
\* has left the flash's content in it, whatever an earlier run had left
\* there and whichever answers were damaged, lost or taken for others.
THEOREM VerifiedDumpIsFaithful == DumpSpec => []DumpFaithful
<1>1. DumpInv => DumpFaithful
  BY Zenon DEF DumpInv
<1> QED
  BY <1>1, DumpInvariance, PTL

\* verify_and_repair never replaces a unit that is right by one that is not.
THEOREM RepairIsSafe == DumpSpec => RepairKeeps
<1>1. DumpInv /\ [DumpNext]_dumpVars
        => [Verifying => \A k \in 1..Size : (file[k] = k => file'[k] = k)]_dumpVars
  BY DumpInvStep, Zenon
<1> QED
  BY <1>1, DumpInvariance, PTL DEF DumpSpec, RepairKeeps

LEMMA ReaderStep ==
    ASSUME ReaderInv, [DumpNext]_dumpVars
    PROVE  ReaderInv'
<1>1. CASE DumpStep
  <2>1. phase \notin {"idle", "done", "failed"} /\ UNCHANGED <<caller, tui>>
    BY <1>1, Zenon DEF DumpStep, FindRam, FindSize, ProbeFlash, ReadFlash, SanityCheck, Command,
                Detect, Open, ReadChunk, CheckChunk, VerifyWhole, VerifyBlock, VerifyPart,
                ReadAgain, VerifyFinal, DeviceCrc
  <2> QED
    BY <2>1, Zenon DEF ReaderInv, Dumping, tui
<1>2. CASE StartDump
  BY <1>2, Zenon DEF StartDump, StopReader, ReaderInv, Dumping
<1>3. CASE PressButton
  BY <1>3, Zenon DEF PressButton, ReaderInv, Dumping, dump
<1>4. CASE WorkerEnds
  BY <1>4, Zenon DEF WorkerEnds, ReaderInv, Dumping, dump
<1>5. CASE Back
  BY <1>5, Zenon DEF Back, ReaderInv, Dumping, dump
<1>6. CASE UNCHANGED dumpVars
  BY <1>6, Zenon DEF ReaderInv, Dumping, dumpVars, dump, tui
<1> QED
  BY <1>1, <1>2, <1>3, <1>4, <1>5, <1>6, Zenon DEF DumpNext

\* On the TUI's terminal screen the console reader and the dump worker never
\* read the serial line at the same time, however Ctrl-D, the button and
\* Back interleave with the worker's steps.
THEOREM ReaderIsOff == DumpSpec => []SerialExclusive
<1>1. DumpInit => ReaderInv
  BY Zenon DEF DumpInit, ReaderInv, Dumping
<1>2. ReaderInv /\ [DumpNext]_dumpVars => ReaderInv'
  BY ReaderStep, Zenon
<1>3. ReaderInv => SerialExclusive
  BY Zenon DEF ReaderInv, SerialExclusive
<1> QED
  BY <1>1, <1>2, <1>3, PTL DEF DumpSpec
=============================================================================
