-------------------------- MODULE DebugWindows_proofs --------------------------
(***************************************************************************)
(* Proofs about the windows of the debugger, for any program, memory, number  *)
(* of registers and size of windows: what a window shows is what the program  *)
(* has, and where the program stops is shown in the disassembler.            *)
(***************************************************************************)
EXTENDS DebugWindows, SequenceTheorems, WellFoundedInduction, TLAPS

(* Numbers and sequences *)

LEMMA LeastExists ==
  ASSUME NEW T \in SUBSET Nat, T # {}
  PROVE  \E x \in T : \A y \in T : x <= y
<1> DEFINE R == {ss \in Nat \X Nat : ss[1] < ss[2]}
<1>1. IsWellFoundedOn(R, Nat)
  BY NatLessThanWellFounded DEF OpToRel
<1>2. \A x, y \in T : ~(<<y, x>> \in R) => x <= y
  OBVIOUS
<1> HIDE DEF R
<1>3. \E x \in T : \A y \in T : ~(<<y, x>> \in R)
  BY <1>1, WFMin
<1> QED BY <1>2, <1>3

\* So Min is that element,
LEMMA MinIs ==
  ASSUME NEW T \in SUBSET Nat, T # {}
  PROVE  Min(T) \in T /\ \A y \in T : Min(T) <= y
<1>1. \E x \in T : \A y \in T : x <= y
  BY LeastExists
<1>2. \A x \in T : \A y \in T : (x <= y) <=> (x =< y)
  OBVIOUS
<1> QED BY <1>1, <1>2 DEF Min

\* and Max the greatest one of a bounded set.
LEMMA MaxIs ==
  ASSUME NEW T \in SUBSET Nat, T # {}, NEW n \in Nat, \A y \in T : y <= n
  PROVE  Max(T) \in T /\ \A y \in T : y <= Max(T)
<1> DEFINE U == {n - y : y \in T}
<1>1. U \in SUBSET Nat /\ U # {}
  <2>1. \A y \in T : n - y \in Nat
    OBVIOUS
  <2> QED BY <2>1
<1>2. PICK u \in U : \A v \in U : u <= v
  <2> HIDE DEF U
  <2> QED BY <1>1, LeastExists
<1>3. PICK x \in T : u = n - x
  BY <1>2
<1>4. \A y \in T : n - y \in U
  OBVIOUS
<1>5. \A y \in T : n - x <= n - y /\ x \in Nat /\ y \in Nat /\ n \in Nat
  BY <1>2, <1>3, <1>4
<1>6. \A y \in T : x >= y
  BY <1>5
<1>7. Max(T) \in T /\ \A y \in T : Max(T) >= y
  BY <1>3, <1>6 DEF Max
<1> QED BY <1>7

\* What holds of 0 and of the next of each holds of all up to n.
LEMMA CountUp ==
  ASSUME NEW n \in Nat, NEW Good \in SUBSET Nat, 0 \in Good,
         \A i \in 0..(n - 1) : i \in Good => i + 1 \in Good
  PROVE  0..n \subseteq Good
<1> SUFFICES ASSUME ~(0..n \subseteq Good) PROVE FALSE
  OBVIOUS
<1> DEFINE Bad == (0..n) \ Good
<1>1. Bad \in SUBSET Nat /\ Bad # {}
  OBVIOUS
<1>2. PICK b \in Bad : \A y \in Bad : b <= y
  <2> HIDE DEF Bad
  <2> QED BY <1>1, LeastExists
<1>3. b \in 1..n /\ b - 1 \in 0..(n - 1) /\ b - 1 \notin Bad
  BY <1>2
<1>4. b - 1 \in Good
  BY <1>3
<1>5. (b - 1) + 1 \in Good
  BY <1>3, <1>4
<1> QED BY <1>2, <1>3, <1>5

\* A function on 1..n has the length n.
LEMMA LengthOf ==
  ASSUME NEW n \in Nat, NEW f, f = [i \in 1..n |-> f[i]]
  PROVE  Len(f) = n /\ DOMAIN f = 1..n
<1> DEFINE S == {f[i] : i \in 1..n}
<1>1. f \in [1..n -> S]
  OBVIOUS
<1> HIDE DEF S
<1>2. f \in Seq(S)
  BY <1>1, SeqDef
<1> QED BY <1>1, <1>2, LenProperties

(* What is disassembled *)

Read(f, a, n) ==
  f = [i \in 0..n |-> IF i = 0 THEN [lines |-> <<>>, next |-> a]
                     ELSE [lines |-> f[i - 1].lines \o TextLine(f[i - 1].next),
                           next |-> f[i - 1].next + LenAt(f[i - 1].next)]]
Next1(r) == [lines |-> r.lines \o TextLine(r.next), next |-> r.next + LenAt(r.next)]
First(a) == [lines |-> <<>>, next |-> a]

\* The function that disassemble defines by recursion is there, for any count.
LEMMA ReadExists ==
  ASSUME NEW a, NEW n \in Nat
  PROVE  \E f : Read(f, a, n)
<1> DEFINE Good == {m \in Nat : \E f : Read(f, a, m)}
<1>1. 0 \in Good
  <2> DEFINE f == [i \in 0..0 |-> First(a)]
  <2>1. f = [i \in 0..0 |-> IF i = 0 THEN First(a) ELSE Next1(f[i - 1])]
    OBVIOUS
  <2> HIDE DEF f
  <2>2. Read(f, a, 0)
    BY <2>1 DEF Read, First, Next1
  <2> QED BY <2>2
<1>2. ASSUME NEW m \in 0..(n - 1), m \in Good PROVE m + 1 \in Good
  <2>1. PICK f : Read(f, a, m)
    BY <1>2
  <2> DEFINE g == [i \in 0..(m + 1) |-> IF i = m + 1 THEN Next1(f[m]) ELSE f[i]]
  <2>2. m \in Nat /\ m + 1 \in Nat /\ \A i \in 0..(m + 1) : i = m + 1 \/ i \in 0..m
    OBVIOUS
  <2>3. \A i \in 0..m : f[i] = IF i = 0 THEN First(a) ELSE Next1(f[i - 1])
    BY <2>1 DEF Read, First, Next1
  <2>4. ASSUME NEW i \in 0..(m + 1)
        PROVE  g[i] = IF i = 0 THEN First(a) ELSE Next1(g[i - 1])
    <3>1. CASE i = m + 1
      <4>1. i # 0 /\ i - 1 = m /\ m \in 0..(m + 1) /\ m # m + 1
        BY <2>2, <3>1
      <4>2. g[i - 1] = f[m] /\ g[i] = Next1(f[m])
        BY <3>1, <4>1
      <4> HIDE DEF g
      <4> QED BY <4>1, <4>2
    <3>2. CASE i \in 0..m
      <4>1. i # m + 1 /\ g[i] = f[i]
        BY <2>2, <3>2
      <4>2. CASE i = 0
        BY <2>3, <3>2, <4>1, <4>2
      <4>3. CASE i # 0
        <5>1. i - 1 \in 0..(m + 1) /\ i - 1 # m + 1
          BY <2>2, <3>2, <4>3
        <5>2. g[i - 1] = f[i - 1]
          BY <5>1
        <5> HIDE DEF g
        <5> QED BY <2>3, <3>2, <4>1, <4>3, <5>2
      <4> QED BY <4>2, <4>3
    <3> QED BY <2>2, <3>1, <3>2
  <2>5. g = [i \in 0..(m + 1) |-> IF i = 0 THEN First(a) ELSE Next1(g[i - 1])]
    <3>1. g = [i \in 0..(m + 1) |-> g[i]]
      OBVIOUS
    <3> HIDE DEF g
    <3> QED BY <2>4, <3>1
  <2> HIDE DEF g
  <2>6. Read(g, a, m + 1)
    BY <2>5 DEF Read, First, Next1
  <2> QED BY <2>2, <2>6
<1>3. Good \in SUBSET Nat
  OBVIOUS
<1>4. 0..n \subseteq Good
  <2> HIDE DEF Good
  <2> QED BY <1>1, <1>2, <1>3, CountUp
<1> QED BY <1>4

\* Its value at m does not depend on how far it is defined.
LEMMA ReadAgrees ==
  ASSUME NEW a, NEW n \in Nat, NEW f, Read(f, a, n), NEW m \in 0..n
  PROVE  disassemble(a, m) = f[m]
<1> DEFINE g == CHOOSE h : Read(h, a, m)
<1>1. m \in Nat
  OBVIOUS
<1>2. Read(g, a, m)
  BY <1>1, ReadExists
<1>3. disassemble(a, m) = g[m]
  BY DEF disassemble, Read
<1> HIDE DEF g
<1> DEFINE Good == {i \in 0..m : f[i] = g[i]}
<1>4. \A i \in 0..m : /\ f[i] = IF i = 0 THEN First(a) ELSE Next1(f[i - 1])
                     /\ g[i] = IF i = 0 THEN First(a) ELSE Next1(g[i - 1])
  <2>1. \A i \in 0..n : f[i] = IF i = 0 THEN First(a) ELSE Next1(f[i - 1])
    BY DEF Read, First, Next1
  <2>2. \A i \in 0..m : g[i] = IF i = 0 THEN First(a) ELSE Next1(g[i - 1])
    BY <1>2 DEF Read, First, Next1
  <2> QED BY <2>1, <2>2
<1>5. 0 \in Good
  BY <1>1, <1>4
<1>6. ASSUME NEW i \in 0..(m - 1), i \in Good PROVE i + 1 \in Good
  <2>1. i + 1 \in 0..m /\ i + 1 # 0 /\ (i + 1) - 1 = i /\ f[i] = g[i]
    BY <1>1, <1>6
  <2> QED BY <1>4, <2>1
<1>7. Good \in SUBSET Nat
  OBVIOUS
<1>8. 0..m \subseteq Good
  <2> HIDE DEF Good
  <2> QED BY <1>1, <1>5, <1>6, <1>7, CountUp
<1> QED BY <1>1, <1>3, <1>8

\* disassemble reads one instruction more.
LEMMA ReadOneMore ==
  ASSUME NEW a, NEW n \in Nat
  PROVE  /\ disassemble(a, 0) = First(a)
         /\ disassemble(a, n + 1) = Next1(disassemble(a, n))
<1>1. PICK f : Read(f, a, n + 1)
  BY ReadExists
<1>2. 0 \in 0..(n + 1) /\ n \in 0..(n + 1) /\ n + 1 \in 0..(n + 1) /\ n + 1 \in Nat
  OBVIOUS
<1>3. /\ disassemble(a, 0) = f[0] /\ disassemble(a, n) = f[n]
      /\ disassemble(a, n + 1) = f[n + 1]
  BY <1>1, <1>2, ReadAgrees
<1>4. f[0] = First(a) /\ f[n + 1] = Next1(f[n])
  <2>1. \A i \in 0..(n + 1) : f[i] = IF i = 0 THEN First(a) ELSE Next1(f[i - 1])
    BY <1>1 DEF Read, First, Next1
  <2>2. n + 1 # 0 /\ (n + 1) - 1 = n
    OBVIOUS
  <2> QED BY <1>2, <2>1, <2>2
<1> QED BY <1>3, <1>4

(* Addresses and lines *)

\* Every instruction has a length.
LEMMA Lengths ==
  ASSUME NEW a \in Nat
  PROVE  LenAt(a) \in Nat /\ LenAt(a) >= 1
<1>1. CASE a \in Code
  <2>1. a \in 1..Len(InsnLen) /\ InsnLen \in Seq(Nat \ {0})
    BY <1>1, WindowsAssumption, LenProperties DEF Code
  <2>2. InsnLen[a] \in Nat \ {0}
    BY <2>1, ElementOfSeq
  <2> QED BY <1>1, <2>2 DEF LenAt
<1>2. CASE a \notin Code
  BY <1>2 DEF LenAt
<1> QED BY <1>1, <1>2

\* The lines l go up from address s to address e, and n is behind them.
Spans(l, s, e, n) ==
  /\ l \in Seq(Nat) /\ s \in Nat \ {0} /\ e \in Nat /\ n \in Nat /\ e < n
  /\ \E i \in 1..Len(l) : l[i] = s
  /\ \E i \in 1..Len(l) : l[i] = e
  /\ \A i \in 1..Len(l) : l[i] # 0 => s <= l[i] /\ l[i] <= e
  /\ \A i, j \in 1..Len(l) : l[i] # 0 /\ l[j] # 0 /\ i < j => l[i] < l[j]

\* Such lines are what LinesAscend asks for.
LEMMA SpansAscend ==
  ASSUME NEW l, NEW s, NEW e, NEW n, Spans(l, s, e, n)
  PROVE  /\ l # <<>> /\ Len(l) \in Nat /\ Len(l) >= 1 /\ DOMAIN l = 1..Len(l)
         /\ Ascends(l) /\ FirstAddress(l) = s
         /\ \A x : LastAddress(l, x) = e
<1> DEFINE is == Instructions(l)
<1>1. l \in Seq(Nat) /\ Len(l) \in Nat /\ DOMAIN l = 1..Len(l)
  BY LenProperties DEF Spans
<1>2. \A i \in 1..Len(l) : l[i] \in Nat
  BY <1>1, ElementOfSeq
<1>3. is \in SUBSET Nat /\ \A i : i \in is <=> i \in 1..Len(l) /\ l[i] # 0
  BY <1>1 DEF Instructions
<1>4. PICK i \in 1..Len(l) : l[i] = s
  BY DEF Spans
<1>5. PICK j \in 1..Len(l) : l[j] = e
  BY DEF Spans
<1>6. s # 0 /\ e # 0 /\ s \in Nat /\ e \in Nat
  <2>1. s \in Nat \ {0} /\ e \in Nat /\ s <= l[i] /\ l[i] <= e
    BY <1>4 DEF Spans
  <2> QED BY <2>1, <1>4
<1>7. i \in is /\ j \in is /\ is # {}
  BY <1>3, <1>4, <1>5, <1>6
<1>8. \A k, m \in is : k < m => l[k] < l[m]
  BY <1>3 DEF Spans
<1>9. \A k \in is : s <= l[k] /\ l[k] <= e /\ k <= Len(l)
  <2>1. \A k \in 1..Len(l) : l[k] # 0 => s <= l[k] /\ l[k] <= e
    BY DEF Spans
  <2>2. \A k \in 1..Len(l) : k <= Len(l)
    BY <1>1
  <2> HIDE DEF is
  <2> QED BY <1>3, <2>1, <2>2
<1> HIDE DEF is
<1>10. /\ Min(is) \in is /\ (\A y \in is : Min(is) <= y)
       /\ Max(is) \in is /\ (\A y \in is : y <= Max(is))
  <2>1. Min(is) \in is /\ \A y \in is : Min(is) <= y
    BY <1>3, <1>7, MinIs
  <2>2. Max(is) \in is /\ \A y \in is : y <= Max(is)
    BY <1>1, <1>3, <1>7, <1>9, MaxIs
  <2> QED BY <2>1, <2>2
<1>11. l[Min(is)] = s
  <2>1. PICK k \in is : k = Min(is)
    BY <1>10
  <2>2. k \in Nat /\ i \in Nat /\ k <= i /\ l[k] \in Nat /\ s <= l[k]
    BY <1>2, <1>3, <1>7, <1>9, <1>10, <2>1
  <2>3. k = i \/ l[k] < s
    BY <1>4, <1>7, <1>8, <2>2
  <2> QED BY <1>4, <1>6, <2>1, <2>2, <2>3
<1>12. l[Max(is)] = e
  <2>1. PICK k \in is : k = Max(is)
    BY <1>10
  <2>2. k \in Nat /\ j \in Nat /\ j <= k /\ l[k] \in Nat /\ l[k] <= e
    BY <1>2, <1>3, <1>7, <1>9, <1>10, <2>1
  <2>3. k = j \/ e < l[k]
    BY <1>5, <1>7, <1>8, <2>2
  <2> QED BY <1>5, <1>6, <2>1, <2>2, <2>3
<1>13. Ascends(l)
  BY <1>8 DEF Ascends, is
<1>14. FirstAddress(l) = s /\ \A x : LastAddress(l, x) = e
  BY <1>7, <1>11, <1>12 DEF FirstAddress, LastAddress, is
<1>15. l # <<>> /\ Len(l) >= 1
  BY <1>1, <1>4
<1> QED BY <1>1, <1>13, <1>14, <1>15

\* The elements of two sequences put together.
LEMMA Joined ==
  ASSUME NEW q \in Seq(Nat), NEW r \in Seq(Nat)
  PROVE  /\ q \o r \in Seq(Nat) /\ Len(q \o r) = Len(q) + Len(r)
         /\ Len(q) \in Nat /\ Len(r) \in Nat
         /\ \A i \in 1..Len(q) : (q \o r)[i] = q[i]
         /\ \A i \in 1..Len(r) : (q \o r)[Len(q) + i] = r[i]
         /\ \A i \in 1..(Len(q) + Len(r)) : i \in 1..Len(q) \/ \E j \in 1..Len(r) : i = Len(q) + j
<1>1. /\ q \o r \in Seq(Nat) /\ Len(q \o r) = Len(q) + Len(r)
      /\ Len(q) \in Nat /\ Len(r) \in Nat
  BY ConcatProperties, LenProperties
<1>2. \A i \in 1..Len(q) + Len(r) :
        (q \o r)[i] = IF i <= Len(q) THEN q[i] ELSE r[i - Len(q)]
  BY ConcatProperties
<1>3. \A i \in 1..Len(q) : i \in 1..Len(q) + Len(r) /\ i <= Len(q)
  BY <1>1
<1>4. \A i \in 1..Len(r) : /\ Len(q) + i \in 1..Len(q) + Len(r)
                           /\ ~(Len(q) + i <= Len(q)) /\ (Len(q) + i) - Len(q) = i
  BY <1>1
<1>5. ASSUME NEW i \in 1..(Len(q) + Len(r))
      PROVE  i \in 1..Len(q) \/ \E j \in 1..Len(r) : i = Len(q) + j
  <2>1. CASE i <= Len(q)
    BY <1>1, <2>1
  <2>2. CASE ~(i <= Len(q))
    <3>1. i - Len(q) \in 1..Len(r) /\ i = Len(q) + (i - Len(q))
      BY <1>1, <2>2
    <3> QED BY <3>1
  <2> QED BY <2>1, <2>2
<1> QED BY <1>1, <1>2, <1>3, <1>4, <1>5

\* Lines that begin behind others can be put there.
LEMMA SpansJoin ==
  ASSUME NEW l, NEW s, NEW e, NEW n, Spans(l, s, e, n),
         NEW k, NEW t, NEW f, NEW m, Spans(k, t, f, m), n <= t
  PROVE  Spans(l \o k, s, f, m)
<1>1. /\ l \in Seq(Nat) /\ k \in Seq(Nat) /\ s \in Nat \ {0} /\ e \in Nat /\ n \in Nat /\ e < n
      /\ t \in Nat \ {0} /\ f \in Nat /\ m \in Nat /\ f < m
  BY DEF Spans
<1> DEFINE q == l \o k
           a == Len(l)
           b == Len(k)
<1>2. /\ q \in Seq(Nat) /\ Len(q) = a + b /\ a \in Nat /\ b \in Nat
      /\ \A i \in 1..a : q[i] = l[i]
      /\ \A i \in 1..b : q[a + i] = k[i]
      /\ \A i \in 1..(a + b) : i \in 1..a \/ \E j \in 1..b : i = a + j
  BY <1>1, Joined
<1>3. /\ \A i \in 1..a : l[i] \in Nat /\ (l[i] # 0 => s <= l[i] /\ l[i] <= e)
      /\ \A i \in 1..b : k[i] \in Nat /\ (k[i] # 0 => t <= k[i] /\ k[i] <= f)
  BY <1>1, ElementOfSeq DEF Spans
<1>4. /\ \A i, j \in 1..a : l[i] # 0 /\ l[j] # 0 /\ i < j => l[i] < l[j]
      /\ \A i, j \in 1..b : k[i] # 0 /\ k[j] # 0 /\ i < j => k[i] < k[j]
  BY DEF Spans
<1>5. PICK i1 \in 1..a : l[i1] = s
  BY DEF Spans
<1>6. PICK i2 \in 1..b : k[i2] = f
  BY DEF Spans
<1>7. PICK i3 \in 1..b : k[i3] = t
  BY DEF Spans
<1> HIDE DEF q, a, b
<1>8. s <= e /\ t <= f /\ e < t /\ s <= t /\ e <= f
  <2>1. s <= l[i1] /\ l[i1] <= e /\ t <= k[i3] /\ k[i3] <= f
    BY <1>1, <1>3, <1>5, <1>7
  <2>2. n <= t
    OBVIOUS
  <2> QED BY <1>1, <1>5, <1>7, <2>1, <2>2
<1>9. \E i \in 1..(a + b) : q[i] = s
  <2>1. i1 \in 1..(a + b) /\ q[i1] = s
    BY <1>2, <1>5
  <2> QED BY <2>1
<1>10. \E i \in 1..(a + b) : q[i] = f
  <2>1. a + i2 \in 1..(a + b) /\ q[a + i2] = f
    BY <1>2, <1>6
  <2> QED BY <2>1
<1>11. \A i \in 1..(a + b) : q[i] # 0 => s <= q[i] /\ q[i] <= f
  <2> SUFFICES ASSUME NEW i \in 1..(a + b), q[i] # 0 PROVE s <= q[i] /\ q[i] <= f
    OBVIOUS
  <2>1. CASE i \in 1..a
    <3>1. q[i] = l[i] /\ l[i] \in Nat /\ (l[i] # 0 => s <= l[i] /\ l[i] <= e)
      BY <1>2, <1>3, <2>1
    <3> QED BY <1>1, <1>8, <3>1
  <2>2. CASE \E j \in 1..b : i = a + j
    <3>1. PICK j \in 1..b : i = a + j
      BY <2>2
    <3>2. q[i] = k[j] /\ k[j] \in Nat /\ (k[j] # 0 => t <= k[j] /\ k[j] <= f)
      BY <1>2, <1>3, <3>1
    <3> QED BY <1>1, <1>8, <3>2
  <2> QED BY <1>2, <2>1, <2>2
<1>12. \A i, j \in 1..(a + b) : q[i] # 0 /\ q[j] # 0 /\ i < j => q[i] < q[j]
  <2> SUFFICES ASSUME NEW i \in 1..(a + b), NEW j \in 1..(a + b), q[i] # 0, q[j] # 0, i < j
               PROVE  q[i] < q[j]
    OBVIOUS
  <2>1. CASE i \in 1..a /\ j \in 1..a
    BY <1>2, <1>4, <2>1
  <2>2. CASE i \in 1..a /\ j \notin 1..a
    <3>1. PICK y \in 1..b : j = a + y
      BY <1>2, <2>2
    <3>2. q[i] = l[i] /\ q[j] = k[y]
      BY <1>2, <2>2, <3>1
    <3>3. l[i] \in Nat /\ l[i] <= e /\ k[y] \in Nat /\ t <= k[y]
      BY <1>3, <2>2, <3>2
    <3>4. PICK u \in Nat, v \in Nat : u = l[i] /\ v = k[y]
      BY <3>3
    <3>5. u <= e /\ t <= v
      BY <3>3, <3>4
    <3>6. u < v
      BY <1>1, <1>8, <3>5
    <3> QED BY <3>2, <3>4, <3>6
  <2>3. CASE i \notin 1..a
    <3>1. PICK x \in 1..b : i = a + x
      BY <1>2, <2>3
    <3>2. j \notin 1..a
      BY <1>2, <3>1
    <3>3. PICK y \in 1..b : j = a + y
      BY <1>2, <3>2
    <3>4. x < y /\ q[i] = k[x] /\ q[j] = k[y]
      BY <1>2, <3>1, <3>3
    <3> QED BY <1>4, <3>4
  <2> QED BY <2>1, <2>2, <2>3
<1> QED BY <1>1, <1>2, <1>9, <1>10, <1>11, <1>12 DEF Spans, q

\* The line of one instruction, with a line of text before it or not.
LEMMA SpansText ==
  ASSUME NEW a \in Nat \ {0}
  PROVE  Spans(TextLine(a), a, a, a + LenAt(a)) /\ TextLine(a) \in Seq(Nat)
<1>1. LenAt(a) \in Nat /\ LenAt(a) >= 1
  BY Lengths
<1>2. CASE a \in Marked
  <2>1. TextLine(a) = <<0, a>>
    BY <1>2 DEF TextLine
  <2> QED BY <1>1, <2>1 DEF Spans
<1>3. CASE a \notin Marked
  <2>1. TextLine(a) = <<a>>
    BY <1>3 DEF TextLine
  <2> QED BY <1>1, <2>1 DEF Spans
<1> QED BY <1>2, <1>3

\* What disassemble returns: lines that go up from the address it is given.
ReadOK(r, a, n) ==
  /\ r = [lines |-> r.lines, next |-> r.next]
  /\ r.lines \in Seq(Nat) /\ r.next \in Nat /\ r.next >= a + n
  /\ n = 0 => r = First(a)
  /\ n > 0 => \E e \in Nat : Spans(r.lines, a, e, r.next)
LEMMA Disassembled ==
  ASSUME NEW a \in Nat \ {0}, NEW n \in Nat
  PROVE  ReadOK(disassemble(a, n), a, n)
<1> DEFINE OK(m) == ReadOK(disassemble(a, m), a, m)
           Good == {m \in Nat : OK(m)}
<1>1. 0 \in Good
  <2>1. disassemble(a, 0) = First(a)
    BY ReadOneMore
  <2>2. ReadOK(First(a), a, 0)
    <3>1. <<>> \in Seq(Nat) /\ a \in Nat /\ a >= a + 0 /\ ~(0 > 0)
      OBVIOUS
    <3> QED BY <3>1 DEF ReadOK, First
  <2>3. OK(0)
    BY <2>1, <2>2
  <2> QED BY <2>3
<1>2. ASSUME NEW m \in 0..(n - 1), m \in Good PROVE m + 1 \in Good
  <2> DEFINE r == disassemble(a, m)
             q == disassemble(a, m + 1)
             x == r.next
  <2>1. m \in Nat /\ m + 1 \in Nat /\ m + 1 > 0
    OBVIOUS
  <2>2. q = Next1(r)
    BY <2>1, ReadOneMore
  <2>3. OK(m)
    BY <1>2
  <2> HIDE DEF r, q
  <2>4. /\ r = [lines |-> r.lines, next |-> r.next]
        /\ r.lines \in Seq(Nat) /\ x \in Nat /\ x >= a + m
        /\ m = 0 => r = First(a)
        /\ m > 0 => \E e \in Nat : Spans(r.lines, a, e, x)
    BY <2>3 DEF r, ReadOK
  <2>5. q.lines = r.lines \o TextLine(x) /\ q.next = x + LenAt(x) /\ q = [lines |-> q.lines, next |-> q.next]
    BY <2>2 DEF Next1
  <2>6. x \in Nat \ {0} /\ LenAt(x) \in Nat /\ LenAt(x) >= 1
    BY <2>1, <2>4, Lengths
  <2> HIDE DEF x
  <2>7. Spans(TextLine(x), x, x, x + LenAt(x)) /\ TextLine(x) \in Seq(Nat)
    BY <2>6, SpansText
  <2>8. Spans(q.lines, a, x, q.next)
    <3>1. CASE m = 0
      <4>1. r.lines = <<>> /\ x = a
        BY <2>4, <3>1 DEF First, x
      <4>2. q.lines = TextLine(x)
        BY <2>5, <2>7, <4>1, ConcatEmptySeq
      <4> QED BY <2>5, <2>7, <4>1, <4>2
    <3>2. CASE m # 0
      <4>1. PICK e \in Nat : Spans(r.lines, a, e, x)
        BY <2>1, <2>4, <3>2
      <4>2. x <= x
        BY <2>6
      <4> QED BY <2>5, <2>7, <4>1, <4>2, SpansJoin
    <3> QED BY <3>1, <3>2
  <2>9. q.lines \in Seq(Nat) /\ q.next \in Nat /\ q.next >= a + (m + 1)
    <3>1. q.lines \in Seq(Nat) /\ q.next \in Nat /\ x < q.next
      BY <2>8 DEF Spans
    <3>2. x + 1 <= q.next
      BY <2>6, <3>1
    <3>3. x >= a + m
      BY <2>4
    <3> QED BY <2>1, <2>6, <3>1, <3>2, <3>3
  <2>10. OK(m + 1)
    BY <2>1, <2>5, <2>6, <2>8, <2>9 DEF q, ReadOK
  <2> QED BY <2>1, <2>10
<1>3. Good \in SUBSET Nat
  OBVIOUS
<1>4. 0..n \subseteq Good
  <2> HIDE DEF Good
  <2> QED BY <1>1, <1>2, <1>3, CountUp
<1>5. n \in Good
  <2> HIDE DEF Good
  <2> QED BY <1>4
<1>6. OK(n)
  BY <1>5
<1> QED BY <1>6

\* Reading goes on where it stopped.
LEMMA ChainAdd ==
  ASSUME NEW a \in Nat \ {0}, NEW k \in Nat, NEW n \in Nat
  PROVE  /\ disassemble(a, k + n).lines =
              disassemble(a, k).lines \o disassemble(disassemble(a, k).next, n).lines
         /\ disassemble(a, k + n).next = disassemble(disassemble(a, k).next, n).next
<1> DEFINE b == disassemble(a, k).next
           l == disassemble(a, k).lines
           OK(m) == /\ disassemble(a, k + m).lines = l \o disassemble(b, m).lines
                    /\ disassemble(a, k + m).next = disassemble(b, m).next
           Good == {m \in Nat : OK(m)}
<1>1. l \in Seq(Nat) /\ b \in Nat \ {0}
  <2>1. /\ disassemble(a, k).lines \in Seq(Nat) /\ disassemble(a, k).next \in Nat
        /\ disassemble(a, k).next >= a + k
    BY Disassembled DEF ReadOK
  <2> QED BY <2>1
<1>2. 0 \in Good
  <2>1. disassemble(b, 0).lines = <<>> /\ disassemble(b, 0).next = b
    BY ReadOneMore DEF First
  <2>2. k + 0 = k
    OBVIOUS
  <2> HIDE DEF l, b
  <2>3. l \o <<>> = l
    BY <1>1, ConcatEmptySeq
  <2>4. OK(0)
    BY <2>1, <2>2, <2>3 DEF l, b
  <2> QED BY <2>4
<1>3. ASSUME NEW m \in 0..(n - 1), m \in Good PROVE m + 1 \in Good
  <2>1. m \in Nat /\ k + m \in Nat /\ k + (m + 1) = (k + m) + 1
    OBVIOUS
  <2>0. OK(m)
    BY <1>3
  <2> DEFINE r == disassemble(a, k + m)
             q == disassemble(b, m)
  <2>2. disassemble(a, k + (m + 1)) = Next1(r)
    BY <2>1, ReadOneMore
  <2>3. disassemble(b, m + 1) = Next1(q)
    BY <2>1, ReadOneMore
  <2>4. q.lines \in Seq(Nat) /\ q.next \in Nat \ {0}
    <3>1. q.lines \in Seq(Nat) /\ q.next \in Nat /\ q.next >= b + m
      BY <1>1, <2>1, Disassembled DEF ReadOK
    <3> HIDE DEF q, b
    <3> QED BY <1>1, <2>1, <3>1
  <2>5. r.lines = l \o q.lines /\ r.next = q.next
    BY <2>0
  <2> HIDE DEF r, q, l
  <2>6. TextLine(q.next) \in Seq(Nat)
    BY <2>4, SpansText
  <2>7. (l \o q.lines) \o TextLine(q.next) = l \o (q.lines \o TextLine(q.next))
    <3>1. \A u, v, z \in Seq(Nat) : (u \o v) \o z = u \o (v \o z)
      BY ConcatAssociative
    <3> QED BY <1>1, <2>4, <2>6, <3>1
  <2>8. /\ Next1(r).lines = (l \o q.lines) \o TextLine(q.next)
        /\ Next1(r).next = q.next + LenAt(q.next)
        /\ Next1(q).lines = q.lines \o TextLine(q.next) /\ Next1(q).next = q.next + LenAt(q.next)
    BY <2>5 DEF Next1
  <2>9. OK(m + 1)
    BY <2>2, <2>3, <2>7, <2>8
  <2> QED BY <2>1, <2>9
<1>4. Good \in SUBSET Nat
  OBVIOUS
<1>5. 0..n \subseteq Good
  <2> HIDE DEF Good
  <2> QED BY <1>2, <1>3, <1>4, CountUp
<1>6. n \in Good
  <2> HIDE DEF Good
  <2> QED BY <1>5
<1> QED BY <1>6

\* An address that reading gets to, and is before the end, has a line.
LEMMA ChainMember ==
  ASSUME NEW a \in Nat \ {0}, NEW k \in Nat, NEW m \in Nat,
         disassemble(a, m).next < disassemble(a, k).next
  PROVE  \E i \in 1..Len(disassemble(a, k).lines) :
           disassemble(a, k).lines[i] = disassemble(a, m).next
<1> DEFINE b == disassemble(a, m).next
           l == disassemble(a, m).lines
           c == disassemble(a, k).next
<1>1. l \in Seq(Nat) /\ b \in Nat \ {0} /\ c \in Nat \ {0}
  <2>1. /\ disassemble(a, m).lines \in Seq(Nat) /\ disassemble(a, m).next \in Nat
        /\ disassemble(a, m).next >= a + m
    BY Disassembled DEF ReadOK
  <2>2. disassemble(a, k).next \in Nat /\ disassemble(a, k).next >= a + k
    BY Disassembled DEF ReadOK
  <2> QED BY <2>1, <2>2
<1>2. m < k
  <2> SUFFICES ASSUME ~(m < k) PROVE FALSE
    OBVIOUS
  <2>1. PICK d \in Nat : d = m - k /\ k + d = m
    <3>1. m - k \in Nat /\ k + (m - k) = m
      OBVIOUS
    <3> QED BY <3>1
  <2>2. b = disassemble(c, d).next
    <3>1. disassemble(a, k + d).next = disassemble(c, d).next
      BY ChainAdd
    <3> QED BY <2>1, <3>1
  <2>3. disassemble(c, d).next >= c + d
    <3> HIDE DEF c
    <3> QED BY <1>1, <2>1, Disassembled DEF ReadOK
  <2>4. b >= c + d /\ b < c
    BY <2>2, <2>3
  <2> HIDE DEF b, c
  <2> QED BY <1>1, <2>1, <2>4
<1>3. PICK d \in Nat : d > 0 /\ m + d = k
  <2>1. k - m \in Nat /\ k - m > 0 /\ m + (k - m) = k
    BY <1>2
  <2> QED BY <2>1
<1> DEFINE r == disassemble(b, d)
<1>4. disassemble(a, k).lines = l \o r.lines
  <2>1. disassemble(a, m + d).lines = l \o r.lines
    BY ChainAdd
  <2> QED BY <1>3, <2>1
<1>5. PICK e \in Nat : Spans(r.lines, b, e, r.next)
  <2> HIDE DEF b
  <2> QED BY <1>1, <1>3, Disassembled DEF ReadOK
<1> HIDE DEF r, b, l
<1>6. PICK j \in 1..Len(r.lines) : r.lines[j] = b
  BY <1>5 DEF Spans
<1>7. r.lines \in Seq(Nat)
  BY <1>5 DEF Spans
<1>8. /\ Len(l) + j \in 1..Len(l \o r.lines) /\ (l \o r.lines)[Len(l) + j] = b
  <2>1. /\ Len(l \o r.lines) = Len(l) + Len(r.lines)
        /\ Len(l) \in Nat /\ Len(r.lines) \in Nat
        /\ (l \o r.lines)[Len(l) + j] = r.lines[j]
    BY <1>1, <1>6, <1>7, Joined
  <2> QED BY <1>6, <2>1
<1> QED BY <1>4, <1>8 DEF b

(* The program, and which steps are about which window *)

DebuggeeInv ==
  debuggee \in [started : BOOLEAN, pc : Nat, depth : Nat, mem : {debuggee.mem}]
PartNames == {"watches", "stack", "registers", "disassembler", "data"}

\* What each window is at first.
LEMMA FirstParts ==
  ASSUME Init
  PROVE  /\ part \in PartNames /\ DebuggeeInv
         /\ part = "watches" => w = NoBox
         /\ part = "stack" => w = NoStack
         /\ part = "registers" => w = NoRegisters
         /\ part = "disassembler" => w = NoLines
         /\ part = "data" => w = NoData
<1>1. DOMAIN Parts = PartNames
  BY DEF Parts, PartNames
<1>2. /\ Parts["watches"] = NoBox /\ Parts["stack"] = NoStack
      /\ Parts["registers"] = NoRegisters /\ Parts["disassembler"] = NoLines
      /\ Parts["data"] = NoData
  BY DEF Parts
<1>3. DebuggeeInv
  BY DEF Init, DebuggeeInv
<1> QED BY <1>1, <1>2, <1>3 DEF Init

WatchesNext ==
  \/ \E v \in Vars : (\E show \in BOOLEAN : AddWatch(v, show)) \/ cmEditWatch(v)
  \/ cmRemoveWatch \/ CloseWatches \/ cmWatchWindow \/ DeleteAllWatches
  \/ \E i \in 0..MaxWatches : FocusWatch(i)
AnyStop ==
  \E pc \in Entry, depth \in 1..MaxDepth, a \in Memory, v \in Values : Stop(pc, depth, a, v)
StackNext ==
  \/ ShowCallStackWindow \/ CloseStack
  \/ \E i \in 0..(MaxDepth - 1) : SelectFrame(i)
RegistersNext ==
  \/ \E i \in 1..RegCount : ResizeRegisters(i)
  \/ kbUpRegister \/ kbDownRegister
  \/ \E i \in 0..(RegCount - 1) : MouseRegister(i)
  \/ \E v \in Entry : editRegister(v)
LinesNext ==
  \/ \E i \in -1..Len(w.lines) : focusItemNum(i)
  \/ \E rows \in 1..MaxRows : ResizeLines(rows + 1)
DataNext ==
  \/ \E rows \in 1..MaxRows : ResizeData(rows)
  \/ createNew \/ stackWindow \/ CloseData \/ kbUp \/ kbDown \/ kbGrayMinus \/ kbGrayPlus
  \/ kbCtrlD \/ kbEnter
  \/ \E by \in {-1, 1} : kbLeftRight(by) \/ Scroll(by + MemSize)
  \/ \E a \in Memory : CheckAddress(a) \/ \E v \in Values : target_fill_mem(a, 2, v)
  \/ kbCtrlHomeEnd(0) \/ kbCtrlHomeEnd(w.rows - 1)
  \/ \E v \in Values : Type(v)

\* A step is one of the window that is looked at.
LEMMA PartSteps ==
  ASSUME Next, part \in PartNames
  PROVE  /\ part = "watches" => WatchesNext
         /\ part = "stack" => StackNext \/ AnyStop
         /\ part = "registers" => RegistersNext \/ AnyStop
         /\ part = "disassembler" => LinesNext \/ AnyStop
         /\ part = "data" => DataNext \/ AnyStop
         /\ part' = part
<1> DEFINE S == \E pc \in Entry, depth \in 1..MaxDepth, a \in Memory, v \in Values :
                  part # "watches" /\ Stop(pc, depth, a, v)
<1> DEFINE T == \E pc \in Entry, depth \in 1..MaxDepth, a \in Memory, v \in Values :
                  /\ (part # "stack") => depth = 1
                  /\ (part # "data") => a = 0 /\ v = 0
                  /\ (part \notin {"registers", "disassembler"}) => pc = Min(Entry)
                  /\ part # "watches" /\ Stop(pc, depth, a, v)
<1>0. T => S
  OBVIOUS
<1> HIDE DEF S
<1>a. \/ \E v \in Vars : (\E show \in BOOLEAN : AddWatch(v, show)) \/ cmEditWatch(v)
      \/ cmRemoveWatch \/ CloseWatches \/ cmWatchWindow \/ DeleteAllWatches
      \/ \E i \in 0..MaxWatches : FocusWatch(i)
      \/ ShowCallStackWindow \/ CloseStack \/ \E i \in 0..(MaxDepth - 1) : SelectFrame(i)
      \/ \E i \in 1..RegCount : ResizeRegisters(i)
      \/ kbUpRegister \/ kbDownRegister \/ \E i \in 0..(RegCount - 1) : MouseRegister(i)
      \/ \E v \in Entry : editRegister(v)
      \/ part = "disassembler" /\ \E i \in -1..Len(w.lines) : focusItemNum(i)
      \/ \E rows \in 1..MaxRows : ResizeLines(rows + 1) \/ ResizeData(rows)
      \/ createNew \/ stackWindow \/ CloseData \/ kbUp \/ kbDown \/ kbGrayMinus \/ kbGrayPlus \/ kbCtrlD \/ kbEnter
      \/ \E by \in {-1, 1} : kbLeftRight(by) \/ Scroll(by + MemSize)
      \/ \E a \in Memory : CheckAddress(a) \/ \E v \in Values : target_fill_mem(a, 2, v)
      \/ kbCtrlHomeEnd(0) \/ kbCtrlHomeEnd(w.rows - 1)
      \/ \E v \in Values : Type(v)
      \/ T
  BY DEF Next
<1> HIDE DEF T
<1>1. WatchesNext \/ StackNext \/ RegistersNext \/ (part = "disassembler" /\ LinesNext) \/ DataNext \/ S
  <2>1. (\E rows \in 1..MaxRows : ResizeLines(rows + 1)) => part = "disassembler"
    BY DEF ResizeLines
  <2> QED BY <1>0, <1>a, <2>1 DEF WatchesNext, StackNext, RegistersNext, LinesNext, DataNext
<1>2. S => AnyStop /\ part # "watches" /\ part' = part
  BY DEF S, AnyStop, Stop
<1>3. WatchesNext => part = "watches" /\ part' = part
  BY DEF WatchesNext, AddWatch, cmEditWatch, cmRemoveWatch, CloseWatches, cmWatchWindow,
         DeleteAllWatches, FocusWatch, Going
<1>4. StackNext => part = "stack" /\ part' = part
  BY DEF StackNext, ShowCallStackWindow, CloseStack, SelectFrame, Going
<1>5. RegistersNext => part = "registers" /\ part' = part
  BY DEF RegistersNext, ResizeRegisters, kbUpRegister, kbDownRegister, MouseRegister, editRegister, Going
<1>6. LinesNext => part = "disassembler" /\ part' = part
  BY DEF LinesNext, focusItemNum, ResizeLines, Going
<1>7. DataNext => part = "data" /\ part' = part
  BY DEF DataNext, ResizeData, createNew, stackWindow, CloseData, kbUp, kbDown, kbGrayMinus,
         kbGrayPlus, kbCtrlD, kbEnter, kbLeftRight, Scroll, CheckAddress, target_fill_mem,
         kbCtrlHomeEnd, Type, Bytes, data, Going
<1> QED BY <1>1, <1>2, <1>3, <1>4, <1>5, <1>6, <1>7

\* What a stop does.
LEMMA StopDoes ==
  ASSUME AnyStop
  PROVE  \E pc \in Entry, depth \in Nat, m \in {debuggee'.mem} :
           /\ debuggee' = [started |-> TRUE, pc |-> pc, depth |-> depth, mem |-> m]
           /\ w' \in Refreshed(pc, depth, m) /\ part' = part
<1>1. PICK pc \in Entry, depth \in 1..MaxDepth, a \in Memory, v \in Values : Stop(pc, depth, a, v)
  BY DEF AnyStop
<1>2. depth \in Nat
  OBVIOUS
<1> QED BY <1>1, <1>2 DEF Stop

(* Watches *)

WatchBox == [open : BOOLEAN, list : Seq(Vars), saved : Seq(Vars), focused : Nat]
WatchInv(b) ==
  /\ b \in WatchBox
  /\ b.open => Len(b.list) = Len(b.saved) /\ b.focused <= Len(b.list)

LEMMA InsertedIs ==
  ASSUME NEW s \in Seq(Vars), NEW i \in 1..(Len(s) + 1), NEW v \in Vars
  PROVE  InsertAt(s, i, v) \in Seq(Vars) /\ Len(InsertAt(s, i, v)) = Len(s) + 1
<1>1. Len(s) \in Nat /\ \A k \in 1..Len(s) : s[k] \in Vars
  BY LenProperties, ElementOfSeq
<1> DEFINE a == SubSeq(s, 1, i - 1)
           b == SubSeq(s, i, Len(s))
<1>2. a \in Seq(Vars) /\ Len(a) = i - 1
  <2>1. i - 1 \in Nat /\ \A k \in 1..(i - 1) : s[k] \in Vars
    BY <1>1
  <2> QED BY <2>1, SubSeqProperties
<1>3. b \in Seq(Vars) /\ Len(b) = Len(s) - i + 1
  <2>1. \A k \in i..Len(s) : s[k] \in Vars
    BY <1>1
  <2>2. i \in Int /\ Len(s) \in Int /\ i <= Len(s) + 1
    BY <1>1
  <2> QED BY <2>1, <2>2, SubSeqProperties
<1> HIDE DEF a, b
<1>4. <<v>> \in Seq(Vars) /\ Len(<<v>>) = 1
  OBVIOUS
<1>5. (a \o <<v>>) \in Seq(Vars) /\ Len(a \o <<v>>) = i
  BY <1>2, <1>4, ConcatProperties
<1>6. (a \o <<v>>) \o b \in Seq(Vars) /\ Len((a \o <<v>>) \o b) = Len(s) + 1
  <2>1. \A q, r \in Seq(Vars) : q \o r \in Seq(Vars) /\ Len(q \o r) = Len(q) + Len(r)
    BY ConcatProperties
  <2>2. i \in Nat
    BY <1>1
  <2> QED BY <1>1, <1>3, <1>5, <2>1, <2>2
<1> QED BY <1>6 DEF InsertAt, a, b

LEMMA RemovedIs ==
  ASSUME NEW s \in Seq(Vars), NEW i \in 1..Len(s)
  PROVE  RemoveAt1(s, i) \in Seq(Vars) /\ Len(RemoveAt1(s, i)) = Len(s) - 1
<1>1. Len(s) \in Nat /\ \A k \in 1..Len(s) : s[k] \in Vars
  BY LenProperties, ElementOfSeq
<1> DEFINE a == SubSeq(s, 1, i - 1)
           b == SubSeq(s, i + 1, Len(s))
<1>2. a \in Seq(Vars) /\ Len(a) = i - 1
  <2>1. i - 1 \in Nat /\ \A k \in 1..(i - 1) : s[k] \in Vars
    BY <1>1
  <2> QED BY <2>1, SubSeqProperties
<1>3. b \in Seq(Vars) /\ Len(b) = Len(s) - i
  <2>1. \A k \in (i + 1)..Len(s) : s[k] \in Vars
    BY <1>1
  <2>2. i + 1 \in Int /\ Len(s) \in Int /\ i + 1 <= Len(s) + 1
    BY <1>1
  <2> QED BY <1>1, <2>1, <2>2, SubSeqProperties
<1> HIDE DEF a, b
<1>4. a \o b \in Seq(Vars) /\ Len(a \o b) = Len(s) - 1
  <2>1. \A q, r \in Seq(Vars) : q \o r \in Seq(Vars) /\ Len(q \o r) = Len(q) + Len(r)
    BY ConcatProperties
  <2>2. i \in Nat
    BY <1>1
  <2>3. a \o b \in Seq(Vars) /\ Len(a \o b) = (i - 1) + (Len(s) - i)
    BY <1>2, <1>3, <2>1
  <2> QED BY <1>1, <2>2, <2>3
<1> QED BY <1>4 DEF RemoveAt1, a, b

\* AddVariable puts one row into the box.
LEMMA Added ==
  ASSUME NEW b \in WatchBox, b.focused <= Len(b.list), NEW v \in Vars
  PROVE  /\ AddVariable(b, v) \in WatchBox
         /\ Len(AddVariable(b, v).list) = Len(b.list) + 1
         /\ AddVariable(b, v).saved = b.saved /\ AddVariable(b, v).open = b.open
         /\ AddVariable(b, v).focused = b.focused
<1>1. b.list \in Seq(Vars) /\ b.focused + 1 \in 1..(Len(b.list) + 1)
  <2>1. b.list \in Seq(Vars) /\ b.focused \in Nat
    BY DEF WatchBox
  <2>2. Len(b.list) \in Nat
    BY <2>1, LenProperties
  <2> QED BY <2>1, <2>2
<1>2. /\ InsertAt(b.list, b.focused + 1, v) \in Seq(Vars)
      /\ Len(InsertAt(b.list, b.focused + 1, v)) = Len(b.list) + 1
  BY <1>1, InsertedIs
<1> QED BY <1>2 DEF AddVariable, WatchBox

\* A function that is defined by recursion on 0..n is there.
Recursive(f, base, F, n) == f = [i \in 0..n |-> IF i = 0 THEN base ELSE F[<<f[i - 1], i>>]]
LEMMA RecursionExists ==
  ASSUME NEW n \in Nat, NEW S, NEW base \in S, NEW F \in [S \X (1..n) -> S]
  PROVE  \E f \in [0..n -> S] : Recursive(f, base, F, n)
<1> DEFINE Good == {m \in Nat : m <= n => \E f \in [0..m -> S] : Recursive(f, base, F, m)}
<1>1. 0 \in Good
  <2> DEFINE f == [i \in 0..0 |-> base]
  <2>1. f \in [0..0 -> S] /\ f = [i \in 0..0 |-> IF i = 0 THEN base ELSE F[<<f[i - 1], i>>]]
    OBVIOUS
  <2> HIDE DEF f
  <2>2. Recursive(f, base, F, 0)
    BY <2>1 DEF Recursive
  <2> QED BY <2>1, <2>2
<1>2. ASSUME NEW m \in 0..(n - 1), m \in Good PROVE m + 1 \in Good
  <2>0. m \in Nat /\ m <= n /\ m + 1 \in Nat /\ m + 1 \in 1..n
    OBVIOUS
  <2>1. PICK f \in [0..m -> S] : Recursive(f, base, F, m)
    BY <1>2, <2>0
  <2> DEFINE g == [i \in 0..(m + 1) |-> IF i = m + 1 THEN F[<<f[m], m + 1>>] ELSE f[i]]
  <2>2. \A i \in 0..(m + 1) : i = m + 1 \/ i \in 0..m
    BY <2>0
  <2>3. \A i \in 0..m : f[i] = IF i = 0 THEN base ELSE F[<<f[i - 1], i>>]
    BY <2>1 DEF Recursive
  <2>a. g \in [0..(m + 1) -> S]
    <3>1. f[m] \in S
      BY <2>0, <2>1
    <3>2. F[<<f[m], m + 1>>] \in S
      BY <2>0, <3>1
    <3>3. \A i \in 0..m : f[i] \in S
      BY <2>1
    <3> QED BY <2>2, <3>2, <3>3
  <2>4. ASSUME NEW i \in 0..(m + 1)
        PROVE  g[i] = IF i = 0 THEN base ELSE F[<<g[i - 1], i>>]
    <3>1. CASE i = m + 1
      <4>1. i # 0 /\ i - 1 = m /\ m \in 0..(m + 1) /\ m # m + 1
        BY <2>0, <3>1
      <4>2. g[i - 1] = f[m] /\ g[i] = F[<<f[m], i>>]
        BY <3>1, <4>1
      <4> HIDE DEF g
      <4> QED BY <4>1, <4>2
    <3>2. CASE i \in 0..m
      <4>1. i # m + 1 /\ g[i] = f[i]
        BY <2>0, <3>2
      <4>2. CASE i = 0
        BY <2>3, <3>2, <4>1, <4>2
      <4>3. CASE i # 0
        <5>1. i - 1 \in 0..(m + 1) /\ i - 1 # m + 1
          BY <2>0, <3>2, <4>3
        <5>2. g[i - 1] = f[i - 1]
          BY <5>1
        <5> HIDE DEF g
        <5> QED BY <2>3, <3>2, <4>1, <4>3, <5>2
      <4> QED BY <4>2, <4>3
    <3> QED BY <2>2, <3>1, <3>2
  <2>5. g = [i \in 0..(m + 1) |-> IF i = 0 THEN base ELSE F[<<g[i - 1], i>>]]
    <3>1. g = [i \in 0..(m + 1) |-> g[i]]
      OBVIOUS
    <3> HIDE DEF g
    <3> QED BY <2>4, <3>1
  <2> HIDE DEF g
  <2>6. Recursive(g, base, F, m + 1)
    BY <2>5 DEF Recursive
  <2> QED BY <2>0, <2>a, <2>6
<1>3. Good \in SUBSET Nat
  OBVIOUS
<1>4. 0..n \subseteq Good
  <2> HIDE DEF Good
  <2> QED BY <1>1, <1>2, <1>3, CountUp
<1>5. n \in 0..n /\ n <= n
  OBVIOUS
<1> QED BY <1>4, <1>5

\* The window is opened with every expression of the list in it.
LEMMA Opened ==
  ASSUME NEW b \in WatchBox
  PROVE  WatchInv(OpenWatchWindow(b)) /\ OpenWatchWindow(b).saved = b.saved
<1> DEFINE base == [b EXCEPT !.open = TRUE, !.list = <<>>, !.focused = 0]
           n == Len(b.saved)
           S == {c \in WatchBox : c.focused = 0 /\ c.saved = b.saved /\ c.open = TRUE}
           F == [p \in S \X (1..n) |-> AddVariable(p[1], b.saved[p[2]])]
           Shows(f) == f = [i \in 0..n |-> IF i = 0 THEN base ELSE AddVariable(f[i - 1], b.saved[i])]
           shown == CHOOSE f : Shows(f)
<1>1. b.saved \in Seq(Vars) /\ n \in Nat /\ \A i \in 1..n : b.saved[i] \in Vars
  <2>1. b.saved \in Seq(Vars)
    BY DEF WatchBox
  <2> QED BY <2>1, LenProperties, ElementOfSeq
<1>2. base \in S /\ base.list = <<>>
  <2>1. <<>> \in Seq(Vars) /\ 0 \in Nat /\ TRUE \in BOOLEAN
    OBVIOUS
  <2>2. base.list = <<>>
    BY DEF WatchBox
  <2>4. base.open = TRUE /\ base.focused = 0 /\ base.saved = b.saved
    BY DEF WatchBox
  <2>5. base \in WatchBox
    BY <2>1 DEF WatchBox
  <2> QED BY <2>2, <2>4, <2>5
<1>3. \A c \in S : Len(c.list) \in Nat /\ c.focused <= Len(c.list)
  <2> SUFFICES ASSUME NEW c \in S PROVE Len(c.list) \in Nat /\ c.focused <= Len(c.list)
    OBVIOUS
  <2>1. c.list \in Seq(Vars) /\ c.focused = 0
    BY DEF WatchBox
  <2>2. Len(c.list) \in Nat
    BY <2>1, LenProperties
  <2> QED BY <2>1, <2>2
<1>4. \A c \in S, v \in Vars : /\ AddVariable(c, v) \in S
                              /\ Len(AddVariable(c, v).list) = Len(c.list) + 1
  <2> SUFFICES ASSUME NEW c \in S, NEW v \in Vars
               PROVE  AddVariable(c, v) \in S /\ Len(AddVariable(c, v).list) = Len(c.list) + 1
    OBVIOUS
  <2>1. c \in WatchBox /\ c.focused <= Len(c.list)
    BY <1>3
  <2>2. /\ AddVariable(c, v) \in WatchBox
        /\ Len(AddVariable(c, v).list) = Len(c.list) + 1
        /\ AddVariable(c, v).saved = c.saved /\ AddVariable(c, v).open = c.open
        /\ AddVariable(c, v).focused = c.focused
    BY <2>1, Added
  <2> QED BY <2>2
<1> HIDE DEF S, base, n
<1>5. F \in [S \X (1..n) -> S]
  BY <1>1, <1>4
<1>6. PICK f \in [0..n -> S] : Recursive(f, base, F, n)
  <2> HIDE DEF F
  <2> QED BY <1>1, <1>2, <1>5, RecursionExists
<1>7. \A i \in 0..n : f[i] = IF i = 0 THEN base ELSE AddVariable(f[i - 1], b.saved[i])
  <2>1. \A i \in 0..n : f[i] = IF i = 0 THEN base ELSE F[<<f[i - 1], i>>]
    BY <1>6 DEF Recursive
  <2>2. \A i \in 0..n : i # 0 => i \in 1..n /\ i - 1 \in 0..n
    BY <1>1
  <2>3. \A i \in 1..n : f[i - 1] \in S => F[<<f[i - 1], i>>] = AddVariable(f[i - 1], b.saved[i])
    OBVIOUS
  <2>4. \A i \in 0..n : f[i] \in S
    BY <1>6
  <2> HIDE DEF F
  <2> QED BY <2>1, <2>2, <2>3, <2>4
<1>8. Shows(f)
  <2>1. f = [i \in 0..n |-> f[i]]
    BY <1>6
  <2> QED BY <1>7, <2>1
<1>9. Shows(shown)
  <2> HIDE DEF Shows
  <2> QED BY <1>8
<1>10. OpenWatchWindow(b) = shown[n]
  BY DEF OpenWatchWindow, base, n
<1> HIDE DEF shown, F
<1>11. \A i \in 0..n : shown[i] = IF i = 0 THEN base ELSE AddVariable(shown[i - 1], b.saved[i])
  BY <1>9
<1> DEFINE Good == {i \in 0..n : shown[i] \in S /\ Len(shown[i].list) = i}
<1>12. 0 \in Good
  <2>1. 0 \in 0..n /\ Len(<<>>) = 0
    BY <1>1
  <2>2. shown[0] = base
    BY <1>11, <2>1
  <2> QED BY <1>2, <2>1, <2>2
<1>13. ASSUME NEW i \in 0..(n - 1), i \in Good PROVE i + 1 \in Good
  <2>1. i \in Nat /\ i + 1 \in 0..n /\ i + 1 \in 1..n /\ i + 1 # 0 /\ (i + 1) - 1 = i
    BY <1>1
  <2>2. shown[i + 1] = AddVariable(shown[i], b.saved[i + 1]) /\ b.saved[i + 1] \in Vars
    BY <1>1, <1>11, <2>1
  <2>3. shown[i] \in S /\ Len(shown[i].list) = i
    BY <1>13
  <2>4. shown[i + 1] \in S /\ Len(shown[i + 1].list) = i + 1
    BY <1>4, <2>2, <2>3
  <2> QED BY <2>1, <2>4
<1>14. Good \in SUBSET Nat
  BY <1>1
<1>15. n \in Good
  <2>1. 0..n \subseteq Good
    <3> HIDE DEF Good
    <3> QED BY <1>1, <1>12, <1>13, <1>14, CountUp
  <2> QED BY <1>1, <2>1
<1>16. OpenWatchWindow(b) \in S /\ Len(OpenWatchWindow(b).list) = n
  BY <1>10, <1>15
<1> QED BY <1>1, <1>16 DEF WatchInv, S, n

\* The box and the list of watches stay in step.
LEMMA WatchesStep ==
  ASSUME WatchesNext, WatchInv(w)
  PROVE  WatchInv(w')
<1>1. w \in WatchBox /\ (w.open => Len(w.list) = Len(w.saved) /\ w.focused <= Len(w.list))
  BY DEF WatchInv
<1>2. w.list \in Seq(Vars) /\ w.saved \in Seq(Vars) /\ w.focused \in Nat
  BY <1>1 DEF WatchBox
<1>3. Len(w.list) \in Nat /\ Len(w.saved) \in Nat
  BY <1>2, LenProperties
<1>4. ASSUME NEW v \in Vars, NEW show \in BOOLEAN, AddWatch(v, show) PROVE WatchInv(w')
  <2> DEFINE b == IF show /\ ~w.open THEN OpenWatchWindow(w) ELSE w
             c == [b EXCEPT !.saved = Append(@, v)]
  <2>1. w' = IF c.open THEN AddVariable(c, v) ELSE c
    BY <1>4 DEF AddWatch, Going
  <2>2. b \in WatchBox /\ (b.open => Len(b.list) = Len(b.saved) /\ b.focused <= Len(b.list))
    BY <1>1, Opened DEF WatchInv
  <2> HIDE DEF b
  <2>3. b.saved \in Seq(Vars) /\ Append(b.saved, v) \in Seq(Vars)
        /\ Len(Append(b.saved, v)) = Len(b.saved) + 1
    <3>1. b.saved \in Seq(Vars)
      BY <2>2 DEF WatchBox
    <3> QED BY <3>1, AppendProperties
  <2>4. /\ c \in WatchBox /\ c.open = b.open /\ c.list = b.list /\ c.focused = b.focused
        /\ c.saved = Append(b.saved, v)
    BY <2>2, <2>3 DEF WatchBox
  <2> HIDE DEF c
  <2>5. CASE c.open
    <3>1. c.focused <= Len(c.list)
      BY <2>2, <2>4, <2>5
    <3>2. /\ AddVariable(c, v) \in WatchBox
          /\ Len(AddVariable(c, v).list) = Len(c.list) + 1
          /\ AddVariable(c, v).saved = c.saved /\ AddVariable(c, v).open = c.open
          /\ AddVariable(c, v).focused = c.focused
      BY <2>4, <3>1, Added
    <3>3. Len(c.list) \in Nat /\ c.focused \in Nat
      <4>1. c.list \in Seq(Vars) /\ c.focused \in Nat
        BY <2>4 DEF WatchBox
      <4> QED BY <4>1, LenProperties
    <3> QED BY <2>1, <2>2, <2>3, <2>4, <2>5, <3>1, <3>2, <3>3 DEF WatchInv
  <2>6. CASE ~c.open
    BY <2>1, <2>4, <2>6 DEF WatchInv
  <2> QED BY <2>5, <2>6
<1>5. ASSUME NEW v \in Vars, cmEditWatch(v) PROVE WatchInv(w')
  <2> DEFINE i == w.focused + 1
             l == [w.list EXCEPT ![i] = v]
             s == [w.saved EXCEPT ![i] = v]
  <2>1. w' = [w EXCEPT !.list = l, !.saved = s] /\ w.open /\ w.focused < Len(w.list)
    BY <1>1, <1>5 DEF cmEditWatch, Going, WatchBox
  <2>2. l \in Seq(Vars) /\ Len(l) = Len(w.list) /\ s \in Seq(Vars) /\ Len(s) = Len(w.saved)
    BY <1>1, <1>2, <2>1, ExceptSeq
  <2> HIDE DEF l, s
  <2> QED BY <1>1, <2>1, <2>2 DEF WatchInv, WatchBox
<1>6. ASSUME cmRemoveWatch PROVE WatchInv(w')
  <2> DEFINE i == w.focused + 1
  <2>1. /\ w.open /\ i \in 1..Len(w.list) /\ i \in 1..Len(w.saved)
        /\ w' = [w EXCEPT !.list = RemoveAt1(w.list, i), !.saved = RemoveAt1(w.saved, i),
                          !.focused = FocusIn(w.focused, Len(w.list))]
    BY <1>1, <1>2, <1>3, <1>6 DEF cmRemoveWatch, RemoveVariable, Going, WatchBox
  <2>2. /\ RemoveAt1(w.list, i) \in Seq(Vars) /\ Len(RemoveAt1(w.list, i)) = Len(w.list) - 1
        /\ RemoveAt1(w.saved, i) \in Seq(Vars) /\ Len(RemoveAt1(w.saved, i)) = Len(w.saved) - 1
    BY <1>2, <2>1, RemovedIs
  <2>3. FocusIn(w.focused, Len(w.list)) = w.focused /\ w.focused <= Len(w.list) - 1
    BY <1>2, <1>3, <2>1 DEF FocusIn
  <2> QED BY <1>1, <2>1, <2>2, <2>3 DEF WatchInv, WatchBox
<1>7. ASSUME NEW i \in 0..MaxWatches, FocusWatch(i) PROVE WatchInv(w')
  <2>1. i \in Nat
    BY WindowsAssumption
  <2> QED BY <1>1, <1>7, <2>1 DEF WatchInv, WatchBox, FocusWatch, Going
<1>8. CloseWatches => WatchInv(w')
  BY <1>1 DEF WatchInv, WatchBox, CloseWatches, Going
<1>9. cmWatchWindow => WatchInv(w')
  BY <1>1, Opened DEF cmWatchWindow, Going
<1>10. DeleteAllWatches => WatchInv(w')
  BY DEF WatchInv, WatchBox, DeleteAllWatches, NoBox, Going
<1> QED BY <1>4, <1>5, <1>6, <1>7, <1>8, <1>9, <1>10 DEF WatchesNext

(* The call stack *)

Stacks == [open : BOOLEAN, frame_count : Nat, range : Nat, focused : Nat, frame : Nat]
StackInv(s, depth) ==
  /\ s \in Stacks
  /\ s.open => s.range = s.frame_count /\ s.frame_count = depth
  /\ s.frame = 0 \/ s.frame < depth

\* A backtrace makes the window show the stack the program has.
LEMMA StackUpdated ==
  ASSUME NEW depth \in Nat, NEW s \in Stacks, s.frame = 0 \/ s.frame < depth
  PROVE  StackInv(UpdateStack(s, depth), depth)
<1>1. CASE ~s.open
  BY <1>1 DEF UpdateStack, StackInv
<1>2. CASE s.open
  <2> DEFINE t == BackTrace(s, depth)
             u == [t EXCEPT !.range = t.frame_count, !.focused = FocusIn(@, t.frame_count)]
  <2>1. t \in Stacks /\ t.frame_count = depth /\ t.frame = s.frame
    BY DEF Stacks, BackTrace
  <2> HIDE DEF t
  <2>2. FocusIn(t.focused, depth) \in Nat
    BY <2>1 DEF FocusIn, Stacks
  <2>3. u \in Stacks /\ u.frame_count = depth /\ u.range = depth /\ u.frame = s.frame
    BY <2>1, <2>2 DEF Stacks
  <2>4. UpdateStack(s, depth) = u
    BY <1>2 DEF UpdateStack, t
  <2> HIDE DEF u
  <2> QED BY <2>3, <2>4 DEF StackInv
<1> QED BY <1>1, <1>2

\* The stack shown is the one the program has.
LEMMA StackStep ==
  ASSUME DebuggeeInv, StackInv(w, debuggee.depth),
         StackNext \/ (part = "stack" /\ AnyStop)
  PROVE  StackInv(w', debuggee'.depth)
<1>1. /\ w \in Stacks /\ debuggee.depth \in Nat
      /\ w.open => w.range = w.frame_count /\ w.frame_count = debuggee.depth
      /\ w.frame = 0 \/ w.frame < debuggee.depth
  BY DEF StackInv, DebuggeeInv
<1>2. ASSUME ShowCallStackWindow PROVE StackInv(w', debuggee'.depth)
  <2> DEFINE s == [w EXCEPT !.open = TRUE]
  <2>1. s \in Stacks /\ s.frame = w.frame
    BY <1>1 DEF Stacks
  <2>2. w' = UpdateStack(s, debuggee.depth) /\ debuggee' = debuggee
    BY <1>2 DEF ShowCallStackWindow, Going
  <2> HIDE DEF s
  <2>3. StackInv(UpdateStack(s, debuggee.depth), debuggee.depth)
    BY <1>1, <2>1, StackUpdated
  <2> QED BY <2>2, <2>3
<1>3. ASSUME CloseStack PROVE StackInv(w', debuggee'.depth)
  <2>1. w' = [w EXCEPT !.open = FALSE, !.range = 0, !.focused = 0] /\ debuggee' = debuggee
    BY <1>3 DEF CloseStack, Going
  <2>2. w' \in Stacks /\ ~w'.open /\ w'.frame = w.frame
    BY <1>1, <2>1 DEF Stacks
  <2> QED BY <1>1, <2>1, <2>2 DEF StackInv
<1>4. ASSUME NEW i \in 0..(MaxDepth - 1), SelectFrame(i) PROVE StackInv(w', debuggee'.depth)
  <2>1. /\ w' = [w EXCEPT !.focused = i, !.frame = i] /\ debuggee' = debuggee
        /\ w.open /\ i < w.frame_count
    BY <1>4 DEF SelectFrame, Going
  <2>2. i \in Nat
    BY WindowsAssumption
  <2>3. /\ w' \in Stacks /\ w'.open = w.open /\ w'.range = w.range
        /\ w'.frame_count = w.frame_count /\ w'.frame = i
    BY <1>1, <2>1, <2>2 DEF Stacks
  <2> QED BY <1>1, <2>1, <2>3 DEF StackInv
<1>5. ASSUME part = "stack", AnyStop PROVE StackInv(w', debuggee'.depth)
  <2>1. PICK pc \in Entry, depth \in Nat, m \in {debuggee'.mem} :
          /\ debuggee' = [started |-> TRUE, pc |-> pc, depth |-> depth, mem |-> m]
          /\ w' \in Refreshed(pc, depth, m) /\ part' = part
    BY <1>5, StopDoes
  <2> DEFINE s == [w EXCEPT !.frame = 0]
  <2>2. w' = UpdateStack(s, depth)
    BY <1>5, <2>1 DEF Refreshed
  <2>3. s \in Stacks /\ s.frame = 0
    BY <1>1 DEF Stacks
  <2> HIDE DEF s
  <2>4. StackInv(UpdateStack(s, depth), depth)
    BY <2>3, StackUpdated
  <2> QED BY <2>1, <2>2, <2>4
<1> QED BY <1>2, <1>3, <1>4, <1>5 DEF StackNext

(* The registers *)

\* The least and the greatest of two numbers.
LEMMA OfTwo ==
  ASSUME NEW a \in Int, NEW b \in Int
  PROVE  /\ Min({a, b}) = IF a <= b THEN a ELSE b
         /\ Max({a, b}) = IF a >= b THEN a ELSE b
<1>1. Min({a, b}) \in {a, b} /\ \A y \in {a, b} : Min({a, b}) <= y
  <2>1. \E x \in {a, b} : \A y \in {a, b} : x <= y
    OBVIOUS
  <2> QED BY <2>1 DEF Min
<1>2. Max({a, b}) \in {a, b} /\ \A y \in {a, b} : Max({a, b}) >= y
  <2>1. \E x \in {a, b} : \A y \in {a, b} : x >= y
    OBVIOUS
  <2> QED BY <2>1 DEF Max
<1> QED BY <1>1, <1>2

RegisterBoxes ==
  [selected : Nat, start_offset : Nat, size : Nat, value : Nat, has_changed : BOOLEAN]
RegistersInv(r) ==
  /\ r \in RegisterBoxes
  /\ r.selected < RegCount /\ r.size \in 1..RegCount /\ r.start_offset + r.size <= RegCount

\* Drawing puts the first row so that nothing below the last one is shown.
LEMMA ShownIs ==
  ASSUME NEW r \in RegisterBoxes, r.selected < RegCount, NEW height \in 1..RegCount
  PROVE  RegistersInv(Shown(r, height))
<1>1. RegCount \in Nat /\ height \in Nat /\ height <= RegCount /\ r.start_offset \in Nat
  BY WindowsAssumption DEF RegisterBoxes
<1>2. Min({height, RegCount}) = height
  BY <1>1, OfTwo
<1> DEFINE o == Min({r.start_offset, RegCount - height})
<1>3. o \in Nat /\ o <= RegCount - height
  <2>1. RegCount - height \in Nat
    BY <1>1
  <2>2. o = IF r.start_offset <= RegCount - height THEN r.start_offset ELSE RegCount - height
    BY <1>1, <2>1, OfTwo
  <2> HIDE DEF o
  <2> QED BY <1>1, <2>1, <2>2
<1>4. Shown(r, height) = [r EXCEPT !.size = height, !.start_offset = o]
  BY <1>2 DEF Shown, RegisterBoxes
<1> HIDE DEF o
<1>5. /\ Shown(r, height) \in RegisterBoxes /\ Shown(r, height).size = height
      /\ Shown(r, height).start_offset = o /\ Shown(r, height).selected = r.selected
  BY <1>1, <1>3, <1>4 DEF RegisterBoxes
<1> QED BY <1>1, <1>3, <1>5 DEF RegistersInv

\* The register selected exists, and so does every one that is drawn.
LEMMA RegistersStep ==
  ASSUME DebuggeeInv, RegistersInv(w), RegistersNext \/ (part = "registers" /\ AnyStop)
  PROVE  RegistersInv(w')
<1>1. /\ w \in RegisterBoxes /\ w.selected < RegCount /\ w.size \in 1..RegCount
      /\ w.start_offset + w.size <= RegCount
      /\ w.selected \in Nat /\ w.start_offset \in Nat /\ w.value \in Nat /\ RegCount \in Nat
  BY WindowsAssumption DEF RegistersInv, RegisterBoxes
<1>2. ASSUME NEW i \in 1..RegCount, ResizeRegisters(i) PROVE RegistersInv(w')
  BY <1>1, <1>2, ShownIs DEF ResizeRegisters, Going
<1>3. ASSUME kbUpRegister PROVE RegistersInv(w')
  <2> DEFINE o == Min({w.start_offset, w.selected - 1})
             s == [w EXCEPT !.selected = @ - 1, !.start_offset = o]
  <2>1. w.selected > 0 /\ w' = Shown(s, w.size)
    BY <1>1, <1>3 DEF kbUpRegister, Going, RegisterBoxes
  <2>2. w.selected - 1 \in Nat
    BY <1>1, <2>1
  <2>3. o \in Nat
    <3>1. o = IF w.start_offset <= w.selected - 1 THEN w.start_offset ELSE w.selected - 1
      BY <1>1, <2>2, OfTwo
    <3> QED BY <1>1, <2>2, <3>1
  <2> HIDE DEF o
  <2>4. s \in RegisterBoxes /\ s.selected = w.selected - 1
    BY <1>1, <2>2, <2>3 DEF RegisterBoxes
  <2> HIDE DEF s
  <2>5. s.selected < RegCount
    BY <1>1, <2>4
  <2> QED BY <1>1, <2>1, <2>4, <2>5, ShownIs
<1>4. ASSUME kbDownRegister PROVE RegistersInv(w')
  <2> DEFINE s == [w EXCEPT !.selected = @ + 1]
             t == IF s.selected >= w.size THEN [s EXCEPT !.start_offset = @ + 1] ELSE s
  <2>1. w.selected + 1 < RegCount /\ w' = Shown(t, w.size)
    BY <1>4 DEF kbDownRegister, Going
  <2>2. s \in RegisterBoxes /\ s.selected = w.selected + 1
    BY <1>1 DEF RegisterBoxes
  <2> HIDE DEF s
  <2>3. t \in RegisterBoxes /\ t.selected = s.selected
    BY <2>2 DEF RegisterBoxes
  <2> HIDE DEF t
  <2>4. t.selected < RegCount
    BY <2>1, <2>2, <2>3
  <2> QED BY <1>1, <2>1, <2>3, <2>4, ShownIs
<1>5. ASSUME NEW i \in 0..(RegCount - 1), MouseRegister(i) PROVE RegistersInv(w')
  <2>1. i \in Nat /\ i < RegCount /\ w' = [w EXCEPT !.selected = i]
    BY <1>1, <1>5 DEF MouseRegister, Going
  <2>2. /\ w' \in RegisterBoxes /\ w'.selected = i /\ w'.size = w.size
        /\ w'.start_offset = w.start_offset
    BY <1>1, <2>1 DEF RegisterBoxes
  <2> QED BY <1>1, <2>1, <2>2 DEF RegistersInv
<1>6. ASSUME NEW v \in Nat, NEW c \in BOOLEAN,
             w' = [w EXCEPT !.value = v, !.has_changed = c]
      PROVE  RegistersInv(w')
  <2>1. /\ w' \in RegisterBoxes /\ w'.selected = w.selected /\ w'.size = w.size
        /\ w'.start_offset = w.start_offset
    BY <1>1, <1>6 DEF RegisterBoxes
  <2> QED BY <1>1, <2>1 DEF RegistersInv
<1>7. ASSUME NEW v \in Entry, editRegister(v) PROVE RegistersInv(w')
  <2>1. v \in Nat
    BY WindowsAssumption
  <2>2. w' = w \/ w' = [w EXCEPT !.value = v, !.has_changed = TRUE]
    BY <1>7 DEF editRegister
  <2> QED BY <1>6, <2>1, <2>2
<1>8. ASSUME part = "registers", AnyStop PROVE RegistersInv(w')
  <2>1. PICK pc \in Entry, depth \in Nat, m \in {debuggee'.mem} : w' \in Refreshed(pc, depth, m)
    BY <1>8, StopDoes
  <2>2. w' = UpdateRegisters(w, pc)
    BY <1>8, <2>1 DEF Refreshed
  <2>3. pc \in Nat
    BY WindowsAssumption
  <2> QED BY <1>6, <2>2, <2>3 DEF UpdateRegisters
<1> QED BY <1>2, <1>3, <1>4, <1>5, <1>7, <1>8 DEF RegistersNext

(* The disassembler *)

LineBoxes ==
  [lines : Seq(Nat), start_address : Nat, end_address : Nat, next_address : Nat,
   focused : Nat, size : Nat \ {0}, from : Nat]
\* no lines yet, or lines that go up
Read1(d) ==
  \/ d.lines = <<>> /\ d.start_address = 0 /\ d.end_address = 0
  \/ Spans(d.lines, d.start_address, d.end_address, d.next_address)
\* with nothing put above, they are those from the stop they were read for on
FromStop(d) ==
  d.lines # <<>> =>
    /\ d.start_address <= d.from
    /\ d.start_address = d.from =>
         /\ d.from \in Entry
         /\ \E k \in Nat : /\ d.lines = disassemble(d.from, k).lines
                           /\ d.next_address = disassemble(d.from, k).next
LinesInv(d) == d \in LineBoxes /\ Read1(d) /\ FromStop(d)

\* Only the focus is moved, and to the line of the address if there is one.
LEMMA Selected ==
  ASSUME NEW d \in LineBoxes, LinesInv(d), NEW a, NEW c \in select_address(d, a)
  PROVE  /\ LinesInv(c) /\ c.start_address = d.start_address /\ c.from = d.from
         /\ (\E i \in DOMAIN d.lines : d.lines[i] = a) =>
              \E i \in DOMAIN c.lines :
                /\ c.lines[i] = a
                /\ c.focused + 1 = i \/ (c.focused + 1 < i /\ c.lines[c.focused + 1] = 0)
<1> DEFINE is == {i \in DOMAIN d.lines : d.lines[i] = a}
           texts == {i \in DOMAIN d.lines \ Instructions(d.lines) : \A j \in is : i < j}
           first == IF is = {} THEN {} ELSE {Min(is)}
<1>1. d.lines \in Seq(Nat) /\ DOMAIN d.lines \subseteq Nat \ {0}
  <2>1. d.lines \in Seq(Nat)
    BY DEF LineBoxes
  <2> QED BY <2>1, LenProperties
<1>2. c = d \/ \E i \in texts \cup first : c = [d EXCEPT !.focused = i - 1]
  BY DEF select_address
<1>3. is \in SUBSET Nat /\ \A i \in is : i \in DOMAIN d.lines /\ d.lines[i] = a
  BY <1>1
<1>4. \A i \in texts : /\ i \in DOMAIN d.lines /\ d.lines[i] = 0
                       /\ \A j \in is : i < j
  BY DEF Instructions
<1>5. is # {} => Min(is) \in is
  <2> HIDE DEF is
  <2> QED BY <1>3, MinIs
<1>6. \A i \in texts \cup first : i \in Nat \ {0} /\ i - 1 \in Nat
  <2>1. \A i \in texts \cup first : i \in DOMAIN d.lines
    BY <1>3, <1>4, <1>5
  <2>2. \A i \in Nat \ {0} : i - 1 \in Nat
    OBVIOUS
  <2> QED BY <1>1, <2>1, <2>2
<1> HIDE DEF texts
<1>7. ASSUME NEW i \in texts \cup first, c = [d EXCEPT !.focused = i - 1]
      PROVE  /\ c \in LineBoxes /\ c.lines = d.lines /\ c.start_address = d.start_address
             /\ c.end_address = d.end_address /\ c.next_address = d.next_address
             /\ c.from = d.from /\ c.focused = i - 1
  <2>1. i - 1 \in Nat
    BY <1>6
  <2> QED BY <1>7, <2>1 DEF LineBoxes
<1>8. /\ c \in LineBoxes /\ c.lines = d.lines /\ c.start_address = d.start_address
      /\ c.end_address = d.end_address /\ c.next_address = d.next_address /\ c.from = d.from
  BY <1>2, <1>7
<1>9. LinesInv(c)
  BY <1>8 DEF LinesInv, Read1, FromStop
<1>10. ASSUME is # {}
       PROVE  \E i \in DOMAIN c.lines :
                /\ c.lines[i] = a
                /\ c.focused + 1 = i \/ (c.focused + 1 < i /\ c.lines[c.focused + 1] = 0)
  <2>1. PICK i \in texts \cup first : c = [d EXCEPT !.focused = i - 1]
    BY <1>10 DEF select_address, texts
  <2>2. c.focused + 1 = i
    <3>1. c.focused = i - 1 /\ i \in Nat
      BY <1>6, <1>7, <2>1
    <3> QED BY <3>1
  <2>3. i \in texts \/ i = Min(is)
    BY <1>10
  <2>4. CASE i = Min(is)
    <3>1. i \in is
      BY <1>5, <1>10, <2>4
    <3> QED BY <1>3, <1>8, <2>2, <3>1
  <2>5. CASE i \in texts
    <3>1. Min(is) \in is
      BY <1>5, <1>10
    <3>2. /\ Min(is) \in DOMAIN c.lines /\ c.lines[Min(is)] = a
          /\ i < Min(is) /\ c.lines[i] = 0
      BY <1>3, <1>4, <1>8, <2>5, <3>1
    <3> QED BY <2>2, <3>2
  <2> QED BY <2>3, <2>4, <2>5
<1> QED BY <1>8, <1>9, <1>10

\* The lines from an address on.
LEMMA Loaded ==
  ASSUME NEW d \in LineBoxes, NEW a \in Nat \ {0}
  PROVE  /\ Load(d, a) \in LineBoxes
         /\ Spans(Load(d, a).lines, a, Load(d, a).end_address, Load(d, a).next_address)
         /\ Load(d, a).lines = disassemble(a, d.size).lines
         /\ Load(d, a).next_address = disassemble(a, d.size).next
         /\ Load(d, a).start_address = a /\ Load(d, a).from = a
<1> DEFINE r == disassemble(a, d.size)
<1>1. d.size \in Nat /\ d.size > 0
  BY DEF LineBoxes
<1>2. PICK e \in Nat : Spans(r.lines, a, e, r.next)
  BY <1>1, Disassembled DEF ReadOK
<1> HIDE DEF r
<1>3. FirstAddress(r.lines) = a /\ LastAddress(r.lines, d.end_address) = e
  BY <1>2, SpansAscend
<1>4. r.lines \in Seq(Nat) /\ r.next \in Nat
  BY <1>2 DEF Spans
<1>5. Load(d, a) = [d EXCEPT !.lines = r.lines, !.next_address = r.next, !.start_address = a,
                             !.end_address = e, !.from = a]
  BY <1>3 DEF Load, r, LineBoxes
<1>6. /\ Load(d, a) \in LineBoxes
      /\ Load(d, a).lines = r.lines /\ Load(d, a).next_address = r.next
      /\ Load(d, a).start_address = a /\ Load(d, a).end_address = e /\ Load(d, a).from = a
  BY <1>4, <1>5 DEF LineBoxes
<1> QED BY <1>2, <1>6 DEF r

\* A stop reads the lines or keeps them; either way its own is among them.
LEMMA Updated ==
  ASSUME LinesInv(w), NEW a \in Entry
  PROVE  LET d == IF Within(w, a) THEN w ELSE Load(w, a)
         IN  /\ LinesInv(d)
             /\ StopsDecode /\ d.start_address = d.from => \E i \in DOMAIN d.lines : d.lines[i] = a
<1> DEFINE d == IF Within(w, a) THEN w ELSE Load(w, a)
<1>1. w \in LineBoxes /\ Read1(w) /\ FromStop(w) /\ a \in Nat \ {0}
  BY WindowsAssumption DEF LinesInv
<1>2. ASSUME ~Within(w, a)
      PROVE  LinesInv(d) /\ \E i \in DOMAIN d.lines : d.lines[i] = a
  <2>1. d = Load(w, a)
    BY <1>2
  <2> HIDE DEF d
  <2>2. /\ d \in LineBoxes /\ Spans(d.lines, a, d.end_address, d.next_address)
        /\ d.lines = disassemble(a, w.size).lines /\ d.next_address = disassemble(a, w.size).next
        /\ d.start_address = a /\ d.from = a
    BY <1>1, <2>1, Loaded
  <2>3. Read1(d)
    BY <2>2 DEF Read1
  <2>4. FromStop(d)
    <3>1. w.size \in Nat /\ a <= a
      BY <1>1 DEF LineBoxes
    <3> QED BY <2>2, <3>1 DEF FromStop
  <2>5. \E i \in DOMAIN d.lines : d.lines[i] = a
    <3>1. DOMAIN d.lines = 1..Len(d.lines)
      BY <2>2, LenProperties DEF Spans
    <3>2. \E i \in 1..Len(d.lines) : d.lines[i] = a
      BY <2>2 DEF Spans
    <3> QED BY <3>1, <3>2
  <2> QED BY <2>2, <2>3, <2>4, <2>5 DEF LinesInv
<1>3. ASSUME Within(w, a), StopsDecode, w.start_address = w.from
      PROVE  \E i \in DOMAIN w.lines : w.lines[i] = a
  <2>1. w.start_address <= a /\ a <= w.end_address
    <3>1. w.start_address \in Nat
      BY <1>1 DEF LineBoxes
    <3> QED BY <1>1, <1>3, <3>1 DEF Within
  <2>2. Spans(w.lines, w.start_address, w.end_address, w.next_address)
    <3>1. ~(w.end_address = 0)
      BY <1>1, <2>1
    <3> QED BY <1>1, <3>1 DEF Read1
  <2>3. w.lines # <<>> /\ DOMAIN w.lines = 1..Len(w.lines)
    BY <2>2, SpansAscend
  <2>4. PICK k \in Nat : /\ w.from \in Entry /\ w.lines = disassemble(w.from, k).lines
                         /\ w.next_address = disassemble(w.from, k).next
    BY <1>1, <1>3, <2>3 DEF FromStop
  <2>5. CASE a = w.from
    <3>1. \E i \in 1..Len(w.lines) : w.lines[i] = w.start_address
      BY <2>2 DEF Spans
    <3> QED BY <1>3, <2>3, <2>5, <3>1
  <2>6. CASE a # w.from
    <3>1. w.from < a /\ w.from \in Nat \ {0}
      <4>1. w.from \in Nat \ {0}
        BY <2>4, WindowsAssumption
      <4> QED BY <1>1, <1>3, <2>1, <2>6, <4>1
    <3>2. PICK m \in 1..(a - w.from) : disassemble(w.from, m).next = a
      BY <1>3, <2>4, <3>1 DEF StopsDecode
    <3>3. m \in Nat
      BY <1>1, <3>1
    <3>4. a < disassemble(w.from, k).next
      <4>1. w.end_address \in Nat /\ w.next_address \in Nat /\ w.end_address < w.next_address
        BY <2>2 DEF Spans
      <4>2. a < w.next_address
        BY <1>1, <2>1, <4>1
      <4> QED BY <2>4, <4>2
    <3>5. \E i \in 1..Len(disassemble(w.from, k).lines) :
            disassemble(w.from, k).lines[i] = disassemble(w.from, m).next
      BY <3>1, <3>2, <3>3, <3>4, ChainMember
    <3> QED BY <2>3, <2>4, <3>2, <3>5
  <2> QED BY <2>5, <2>6
<1>4. LinesInv(d) /\ (StopsDecode /\ d.start_address = d.from => \E i \in DOMAIN d.lines : d.lines[i] = a)
  <2>1. CASE Within(w, a)
    <3>1. d = w
      BY <2>1
    <3> HIDE DEF d
    <3> QED BY <1>3, <2>1, <3>1
  <2>2. CASE ~Within(w, a)
    <3> HIDE DEF d
    <3> QED BY <1>2, <2>2
  <2> QED BY <2>1, <2>2
<1> QED BY <1>4

\* Lines before the first one end where it begins.
LEMMA PutAbove ==
  ASSUME LinesInv(w), w.start_address # 0, NEW n \in Nat \ {0}
  PROVE  LinesInv(Above(w, n))
<1> DEFINE as == {a \in Code : a <= w.start_address - n /\ disassemble(a, n).next <= w.start_address}
           m == Max(as)
           r == disassemble(m, n)
           u == [w EXCEPT !.lines = r.lines \o @, !.start_address = m, !.focused = 0]
<1>1. w \in LineBoxes /\ Read1(w) /\ FromStop(w)
  BY DEF LinesInv
<1>2. Above(w, n) = IF as = {} THEN w ELSE u
  BY DEF Above
<1>3. CASE as = {}
  BY <1>2, <1>3
<1>4. CASE as # {}
  <2>1. /\ w.start_address \in Nat
        /\ Spans(w.lines, w.start_address, w.end_address, w.next_address)
    BY <1>1 DEF LineBoxes, Read1
  <2>2. Code \subseteq Nat \ {0} /\ Len(InsnLen) \in Nat /\ \A a \in Code : a <= Len(InsnLen)
    BY WindowsAssumption, LenProperties DEF Code
  <2>3. as \in SUBSET Nat /\ \A a \in as : a <= Len(InsnLen)
    BY <2>2
  <2>4. m \in as
    <3> HIDE DEF as
    <3> QED BY <1>4, <2>2, <2>3, MaxIs
  <2>5. m \in Nat \ {0} /\ m <= w.start_address - n /\ r.next <= w.start_address
    BY <2>2, <2>4
  <2>6. u = [w EXCEPT !.lines = r.lines \o w.lines, !.start_address = m, !.focused = 0]
    BY <1>1 DEF LineBoxes
  <2> HIDE DEF as, m
  <2>7. PICK e \in Nat : Spans(r.lines, m, e, r.next)
    <3>1. n \in Nat /\ n > 0
      OBVIOUS
    <3> QED BY <2>5, <3>1, Disassembled DEF ReadOK
  <2> HIDE DEF r
  <2>8. Spans(r.lines \o w.lines, m, w.end_address, w.next_address)
    BY <2>1, <2>5, <2>7, SpansJoin
  <2>9. r.lines \o w.lines \in Seq(Nat)
    BY <2>8 DEF Spans
  <2> DEFINE l == r.lines \o w.lines
  <2> HIDE DEF l
  <2>10. u = [w EXCEPT !.lines = l, !.start_address = m, !.focused = 0]
    BY <2>6 DEF l
  <2> HIDE DEF u
  <2>11. l \in Seq(Nat) /\ m \in Nat /\ 0 \in Nat
    BY <2>5, <2>9 DEF l
  <2>12. /\ u \in LineBoxes /\ u.lines = l /\ u.start_address = m /\ u.end_address = w.end_address
         /\ u.next_address = w.next_address /\ u.from = w.from
    BY <1>1, <2>10, <2>11 DEF LineBoxes
  <2>13. Read1(u)
    BY <2>8, <2>12 DEF Read1, l
  <2>14. FromStop(u)
    <3>1. w.lines # <<>>
      BY <2>1, SpansAscend
    <3>2. w.start_address <= w.from /\ w.from \in Nat
      BY <1>1, <3>1 DEF FromStop, LineBoxes
    <3>3. m < w.from
      BY <2>1, <2>5, <3>2
    <3>4. m <= w.from /\ m # w.from
      BY <2>5, <3>2, <3>3
    <3> QED BY <2>12, <3>4 DEF FromStop
  <2> QED BY <1>2, <1>4, <2>12, <2>13, <2>14 DEF LinesInv
<1> QED BY <1>3, <1>4

\* Lines behind the last one go on from it.
LEMMA PutBelow ==
  ASSUME LinesInv(w), w.start_address # 0, NEW n \in Nat \ {0}
  PROVE  LinesInv(Below(w, n))
<1> DEFINE b == w.next_address
           r == disassemble(b, n)
           l == w.lines \o r.lines
           u == Below(w, n)
<1>1. w \in LineBoxes /\ Read1(w) /\ FromStop(w)
  BY DEF LinesInv
<1>2. Spans(w.lines, w.start_address, w.end_address, b)
  BY <1>1 DEF Read1
<1>3. /\ w.lines \in Seq(Nat) /\ b \in Nat \ {0} /\ w.lines # <<>>
      /\ Len(w.lines) \in Nat
  <2>1. b \in Nat /\ w.end_address \in Nat /\ w.end_address < b /\ w.lines \in Seq(Nat)
    BY <1>2 DEF Spans
  <2>2. w.lines # <<>> /\ Len(w.lines) \in Nat
    BY <1>2, SpansAscend
  <2> QED BY <2>1, <2>2
<1> HIDE DEF b
<1>4. PICK e \in Nat : Spans(r.lines, b, e, r.next)
  <2>1. n \in Nat /\ n > 0
    OBVIOUS
  <2> QED BY <1>3, <2>1, Disassembled DEF ReadOK
<1>5. Spans(l, w.start_address, e, r.next)
  <2>1. b <= b
    BY <1>3
  <2> QED BY <1>2, <1>4, <2>1, SpansJoin
<1>6. LastAddress(r.lines, w.end_address) = e
  BY <1>4, SpansAscend
<1>7. u = [w EXCEPT !.lines = l, !.next_address = r.next, !.end_address = e,
                    !.focused = Len(w.lines) + n - 1]
  BY <1>1, <1>6 DEF Below, b, LineBoxes
<1> DEFINE x == r.next
           f == Len(w.lines) + n - 1
<1>8. l \in Seq(Nat) /\ x \in Nat /\ e \in Nat /\ f \in Nat
  <2>1. f \in Nat
    BY <1>3
  <2> QED BY <1>4, <1>5, <2>1 DEF Spans
<1>9. u = [w EXCEPT !.lines = l, !.next_address = x, !.end_address = e, !.focused = f]
  BY <1>7
<1> HIDE DEF u, l, x, f
<1>10. /\ u \in LineBoxes /\ u.lines = l /\ u.start_address = w.start_address
       /\ u.end_address = e /\ u.next_address = x /\ u.from = w.from
  BY <1>1, <1>8, <1>9 DEF LineBoxes
<1>11. Read1(u)
  BY <1>5, <1>10 DEF Read1, x
<1>12. FromStop(u)
  <2>1. w.start_address <= w.from
    BY <1>1, <1>3 DEF FromStop
  <2>2. ASSUME w.start_address = w.from
        PROVE  /\ w.from \in Entry
               /\ \E k \in Nat : /\ l = disassemble(w.from, k).lines
                                 /\ x = disassemble(w.from, k).next
    <3>1. PICK k \in Nat : /\ w.from \in Entry /\ w.lines = disassemble(w.from, k).lines
                           /\ b = disassemble(w.from, k).next
      BY <1>1, <1>3, <2>2 DEF FromStop, b
    <3>2. w.from \in Nat \ {0} /\ n \in Nat
      BY <3>1, WindowsAssumption
    <3>3. /\ disassemble(w.from, k + n).lines =
               disassemble(w.from, k).lines \o disassemble(disassemble(w.from, k).next, n).lines
          /\ disassemble(w.from, k + n).next = disassemble(disassemble(w.from, k).next, n).next
      BY <3>2, ChainAdd
    <3>4. l = disassemble(w.from, k + n).lines /\ x = disassemble(w.from, k + n).next
      BY <3>1, <3>3 DEF l, x
    <3>5. k + n \in Nat
      BY <3>2
    <3> QED BY <3>1, <3>4, <3>5
  <2> QED BY <1>10, <2>1, <2>2 DEF FromStop
<1> QED BY <1>10, <1>11, <1>12 DEF LinesInv, u

\* The lines go up, after any scrolling, change of size or stop.
LEMMA LinesStep ==
  ASSUME LinesInv(w), LinesNext \/ (part = "disassembler" /\ AnyStop)
  PROVE  LinesInv(w')
<1>1. w \in LineBoxes /\ Read1(w) /\ FromStop(w)
  BY DEF LinesInv
<1>2. ASSUME NEW i \in -1..Len(w.lines), focusItemNum(i) PROVE LinesInv(w')
  <2>1. w.start_address # 0 /\ Len(w.lines) \in Nat /\ i \in Int
    <3>1. w.lines \in Seq(Nat)
      BY <1>1 DEF LineBoxes
    <3>2. Len(w.lines) \in Nat
      BY <3>1, LenProperties
    <3> QED BY <1>2, <3>2 DEF focusItemNum
  <2>2. CASE i < 0
    <3>1. -i \in Nat \ {0} /\ w' = Above(w, -i)
      BY <1>2, <2>1, <2>2 DEF focusItemNum, Going
    <3> QED BY <2>1, <3>1, PutAbove
  <2>3. CASE i >= Len(w.lines)
    <3>1. PICK n \in Nat \ {0} : n = i - Len(w.lines) + 1
      <4>1. i - Len(w.lines) + 1 \in Nat \ {0}
        BY <2>1, <2>3
      <4> QED BY <4>1
    <3>2. w' = Below(w, n)
      BY <1>2, <2>1, <2>3, <3>1 DEF focusItemNum, Going
    <3> QED BY <2>1, <3>2, PutBelow
  <2>4. CASE ~(i < 0) /\ ~(i >= Len(w.lines))
    <3>1. w' = [w EXCEPT !.focused = i] /\ i \in Nat
      BY <1>2, <2>1, <2>4 DEF focusItemNum, Going
    <3>2. /\ w' \in LineBoxes /\ w'.lines = w.lines /\ w'.start_address = w.start_address
          /\ w'.end_address = w.end_address /\ w'.next_address = w.next_address
          /\ w'.from = w.from
      BY <1>1, <3>1 DEF LineBoxes
    <3> QED BY <1>1, <3>2 DEF LinesInv, Read1, FromStop
  <2> QED BY <2>2, <2>3, <2>4
<1>3. ASSUME NEW rows \in 1..MaxRows, ResizeLines(rows + 1) PROVE LinesInv(w')
  <2> DEFINE d == [w EXCEPT !.size = rows + 1]
             c == [d EXCEPT !.end_address = 0]
             a == d.start_address
             q == [Load(c, a) EXCEPT !.from = d.from]
  <2>1. rows + 1 \in Nat \ {0}
    BY WindowsAssumption
  <2>2. /\ d \in LineBoxes /\ d.lines = w.lines /\ d.start_address = w.start_address
        /\ d.end_address = w.end_address /\ d.next_address = w.next_address
        /\ d.from = w.from
    BY <1>1, <2>1 DEF LineBoxes
  <2>3. w' = IF Len(d.lines) >= rows + 1 \/ a = 0 THEN d ELSE q
    BY <1>3 DEF ResizeLines, Going
  <2> HIDE DEF d
  <2>4. CASE w' = d
    BY <1>1, <2>2, <2>4 DEF LinesInv, Read1, FromStop
  <2>5. CASE a # 0 /\ w' = q
    <3>1. c \in LineBoxes /\ a \in Nat \ {0}
      BY <2>2, <2>5 DEF LineBoxes
    <3> DEFINE z == Load(c, a)
    <3>2. /\ z \in LineBoxes /\ Spans(z.lines, a, z.end_address, z.next_address)
          /\ z.lines = disassemble(a, c.size).lines /\ z.next_address = disassemble(a, c.size).next
          /\ z.start_address = a
      BY <3>1, Loaded
    <3> HIDE DEF c, z
    <3>3. d.from \in Nat
      BY <2>2 DEF LineBoxes
    <3>4. w' = [z EXCEPT !.from = d.from]
      BY <2>5 DEF z
    <3>5. /\ w' \in LineBoxes /\ w'.lines = z.lines /\ w'.start_address = a
          /\ w'.end_address = z.end_address /\ w'.next_address = z.next_address
          /\ w'.from = d.from
      BY <3>2, <3>3, <3>4 DEF LineBoxes
    <3>6. Read1(w')
      BY <3>2, <3>5 DEF Read1
    <3>7. FromStop(w')
      <4>1. w.lines # <<>>
        <5>1. Spans(w.lines, w.start_address, w.end_address, w.next_address)
          BY <1>1, <2>2, <2>5 DEF Read1
        <5> QED BY <5>1, SpansAscend
      <4>2. a <= d.from /\ (a = d.from => d.from \in Entry)
        BY <1>1, <2>2, <4>1 DEF FromStop
      <4>3. c.size \in Nat
        BY <3>1 DEF LineBoxes
      <4> QED BY <3>2, <3>5, <4>2, <4>3 DEF FromStop
    <3> QED BY <3>5, <3>6, <3>7 DEF LinesInv
  <2> QED BY <2>3, <2>4, <2>5
<1>4. ASSUME part = "disassembler", AnyStop PROVE LinesInv(w')
  <2>1. PICK pc \in Entry, depth \in Nat, m \in {debuggee'.mem} : w' \in Refreshed(pc, depth, m)
    BY <1>4, StopDoes
  <2> DEFINE d == IF Within(w, pc) THEN w ELSE Load(w, pc)
  <2>2. w' \in select_address(d, pc)
    BY <1>4, <2>1 DEF Refreshed, UpdateLines
  <2>3. LinesInv(d)
    BY Updated
  <2> HIDE DEF d
  <2>4. d \in LineBoxes
    BY <2>3 DEF LinesInv
  <2> QED BY <2>2, <2>3, <2>4, Selected
<1> QED BY <1>2, <1>3, <1>4 DEF LinesNext

\* What LinesAscend says follows.
LEMMA LinesInvAscend ==
  ASSUME LinesInv(w)
  PROVE  w.lines # <<>> =>
           /\ Ascends(w.lines) /\ w.start_address = FirstAddress(w.lines)
           /\ w.end_address = LastAddress(w.lines, 0) /\ w.next_address > w.end_address
<1> SUFFICES ASSUME w.lines # <<>>
             PROVE  /\ Ascends(w.lines) /\ w.start_address = FirstAddress(w.lines)
                    /\ w.end_address = LastAddress(w.lines, 0) /\ w.next_address > w.end_address
  OBVIOUS
<1>1. Spans(w.lines, w.start_address, w.end_address, w.next_address)
  BY DEF LinesInv, Read1
<1>2. w.end_address \in Nat /\ w.next_address \in Nat /\ w.end_address < w.next_address
  BY <1>1 DEF Spans
<1>3. w.next_address > w.end_address
  BY <1>2
<1> QED BY <1>1, <1>3, SpansAscend

(* The data windows *)

DataBox(d) ==
  d \in [open : BOOLEAN, mem_start : {d.mem_start}, mem_len : Nat, memo : {d.memo},
         bytesperline : Nat, rows : Nat \ {0}, dispmode : 1..4, row : Nat, field : Nat,
         odd : SUBSET {"empty", "below"}]
\* full fields, and the cursor on one
Sized(d) ==
  /\ d.bytesperline % fieldbytes[d.dispmode] = 0
  /\ d.odd = {} =>
       /\ d.row < d.rows
       /\ d.field * fieldbytes[d.dispmode] + fieldbytes[d.dispmode] <= d.bytesperline
\* the buffer is as long as it says, and no shorter than what is shown
Held(d) == d.memo = [i \in 1..d.mem_len |-> d.memo[i]] /\ BytesShown(d) <= d.mem_len
\* what is not edited is what the program has
Known(d, mem) ==
  \A i \in 1..BytesShown(d) : d.memo[i].f = "READ" => d.memo[i].v = mem[Addr(d.mem_start + i - 1)]
DataInv(d, mem) == DataBox(d) /\ (d.open => Sized(d) /\ Held(d) /\ Known(d, mem))
\* the same window, with other bytes in it
Alike(c, d) ==
  /\ c.open = d.open /\ c.bytesperline = d.bytesperline /\ c.rows = d.rows
  /\ c.dispmode = d.dispmode /\ c.row = d.row /\ c.field = d.field /\ c.odd = d.odd

LEMMA FieldBytes ==
  ASSUME NEW m \in 1..4
  PROVE  fieldbytes[m] = 1 \/ fieldbytes[m] = 2 \/ fieldbytes[m] = 4
BY DEF fieldbytes

\* Bytes that are full fields: how many they are, and one more or less.
LEMMA FullFields ==
  ASSUME NEW b \in Nat, NEW f \in Nat, f = 1 \/ f = 2 \/ f = 4
  PROVE  /\ b % f = 0 => /\ (b > 0 => b >= f) /\ (b > f => b >= f + f)
                         /\ b \div f \in Nat /\ (b \div f) * f = b
                         /\ (b + f) % f = 0 /\ (b >= f => (b - f) % f = 0)
         /\ b \div f \in Nat /\ (b \div f) * f \in Nat
         /\ (b \div f) * f <= b /\ ((b \div f) * f) % f = 0
<1>1. CASE f = 1
  BY <1>1
<1>2. CASE f = 2
  BY <1>2
<1>3. CASE f = 4
  BY <1>3
<1> QED BY <1>1, <1>2, <1>3

\* Lines of b bytes.
LEMMA Products ==
  ASSUME NEW a \in Nat, NEW b \in Nat, NEW c \in Nat, a <= b
  PROVE  a * c \in Nat /\ b * c \in Nat /\ a * c <= b * c /\ c * a <= c * b
         /\ (a < b => c * a + c <= c * b)
<1>1. PICK d \in Nat : b = a + d
  <2>1. b - a \in Nat /\ b = a + (b - a)
    OBVIOUS
  <2> QED BY <2>1
<1>2. b * c = a * c + d * c /\ c * b = c * a + c * d
  BY <1>1
<1>3. d * c \in Nat /\ c * d \in Nat /\ a * c \in Nat /\ c * a \in Nat
  OBVIOUS
<1>4. a < b => c * d >= c
  <2> SUFFICES ASSUME a < b PROVE c * d >= c
    OBVIOUS
  <2>1. PICK e \in Nat : d = e + 1
    <3>1. d - 1 \in Nat /\ d = (d - 1) + 1
      BY <1>1
    <3> QED BY <3>1
  <2>2. c * d = c * e + c /\ c * e \in Nat
    BY <2>1
  <2> QED BY <2>2
<1> QED BY <1>2, <1>3, <1>4

LEMMA ShownIsNat ==
  ASSUME NEW d, DataBox(d)
  PROVE  BytesShown(d) \in Nat
<1>1. d.bytesperline \in Nat /\ d.rows \in Nat
  BY DEF DataBox
<1> DEFINE a == d.bytesperline
           b == d.rows
<1>2. BytesShown(d) = a * b
  BY DEF BytesShown
<1> HIDE DEF a, b
<1>3. a \in Nat /\ b \in Nat
  BY <1>1 DEF a, b
<1> QED BY <1>2, <1>3

\* Reading fills the buffer with what is there.
LEMMA ReadIs ==
  ASSUME NEW d, DataBox(d), Held(d), NEW mem
  PROVE  /\ DataBox(ReadFrom(d, mem)) /\ Held(ReadFrom(d, mem)) /\ Known(ReadFrom(d, mem), mem)
         /\ Alike(ReadFrom(d, mem), d) /\ ReadFrom(d, mem).mem_len = d.mem_len
<1> DEFINE c == ReadFrom(d, mem)
           n == d.mem_len
           Now(i) == IF i > BytesShown(d) THEN Cell(0, "READ")
                     ELSE IF Addr(d.mem_start + i - 1) \in Hole THEN Cell(0, "NONACCESS")
                     ELSE Cell(mem[Addr(d.mem_start + i - 1)], "READ")
           m == [i \in 1..n |-> Now(i)]
<1>1. n \in Nat /\ d.memo = [i \in 1..n |-> d.memo[i]] /\ BytesShown(d) <= n
  BY DEF DataBox, Held
<1>2. DOMAIN d.memo = 1..n
  BY <1>1
<1>3. c = [d EXCEPT !.memo = m]
  BY <1>2 DEF ReadFrom
<1>4. m = [i \in 1..n |-> m[i]] /\ \A i \in 1..n : m[i] = Now(i)
  OBVIOUS
<1> HIDE DEF c, m
<1>5. /\ c.memo = m /\ c.mem_len = n /\ c.mem_start = d.mem_start /\ Alike(c, d) /\ DataBox(c)
  BY <1>3 DEF DataBox, Alike
<1>6. BytesShown(c) = BytesShown(d)
  BY <1>5 DEF BytesShown, Alike
<1>7. Held(c)
  BY <1>1, <1>4, <1>5, <1>6 DEF Held
<1>8. Known(c, mem)
  <2> SUFFICES ASSUME NEW i \in 1..BytesShown(d), m[i].f = "READ"
               PROVE  m[i].v = mem[Addr(d.mem_start + i - 1)]
    BY <1>5, <1>6 DEF Known
  <2>1. PICK u \in Nat : u = BytesShown(d)
    BY ShownIsNat
  <2>2. i \in 1..n /\ ~(i > BytesShown(d))
    <3>1. n \in Nat /\ u <= n /\ i \in 1..u
      BY <1>1, <2>1
    <3>2. i \in 1..n /\ ~(i > u)
      BY <2>1, <3>1
    <3> QED BY <2>1, <3>2
  <2>3. m[i] = Now(i)
    BY <1>4, <2>2
  <2>4. Cell(0, "NONACCESS").f # "READ"
    BY DEF Cell
  <2>5. m[i] = Cell(mem[Addr(d.mem_start + i - 1)], "READ")
    BY <2>2, <2>3, <2>4
  <2> DEFINE x == mem[Addr(d.mem_start + i - 1)]
  <2>6. m[i] = [v |-> x, f |-> "READ"]
    BY <2>5 DEF Cell
  <2> HIDE DEF x
  <2>7. m[i].v = x
    BY <2>6
  <2> QED BY <2>7 DEF x
<1> QED BY <1>5, <1>7, <1>8 DEF c

\* So does going to an address, with a new buffer if there is none.
LEMMA UpdateIs ==
  ASSUME NEW d, DataBox(d), d.mem_len # 0 => Held(d), NEW addr
  PROVE  /\ DataBox(UpdateData(d, addr)) /\ Held(UpdateData(d, addr))
         /\ Known(UpdateData(d, addr), debuggee.mem) /\ Alike(UpdateData(d, addr), d)
         /\ d.mem_len = 0 => UpdateData(d, addr).mem_len = BytesShown(d)
<1> DEFINE b == [d EXCEPT !.mem_start = Addr(addr)]
           c == Allocated(b)
<1>1. /\ DataBox(b) /\ Alike(b, d) /\ b.mem_len = d.mem_len /\ b.memo = d.memo
      /\ BytesShown(b) = BytesShown(d)
  BY DEF DataBox, Alike, BytesShown
<1>0. UpdateData(d, addr) = ReadFrom(c, debuggee.mem)
  BY DEF UpdateData, readbytes
<1> HIDE DEF b
<1>2. /\ DataBox(c) /\ Held(c) /\ Alike(c, d)
      /\ d.mem_len = 0 => c.mem_len = BytesShown(d)
  <2>1. CASE b.mem_len # 0
    <3>1. c = b
      BY <2>1 DEF Allocated
    <3> HIDE DEF c
    <3>2. Held(d)
      BY <1>1, <2>1
    <3> QED BY <1>1, <2>1, <3>1, <3>2 DEF Held
  <2>2. CASE b.mem_len = 0
    <3> DEFINE n == BytesShown(b)
               m == [i \in 1..n |-> Cell(0, "READ")]
    <3>1. c = [b EXCEPT !.mem_len = n, !.memo = m]
      BY <2>2 DEF Allocated
    <3>2. n \in Nat
      BY <1>1, ShownIsNat
    <3>3. m = [i \in 1..n |-> m[i]]
      OBVIOUS
    <3> HIDE DEF c, n, m
    <3>4. /\ DataBox(c) /\ Alike(c, b) /\ c.mem_len = n /\ c.memo = m
      BY <1>1, <3>1, <3>2 DEF DataBox, Alike
    <3>5. BytesShown(c) = n
      BY <3>4 DEF Alike, BytesShown, n
    <3>6. Held(c)
      BY <3>2, <3>3, <3>4, <3>5 DEF Held
    <3>7. Alike(c, d)
      BY <1>1, <3>4 DEF Alike
    <3> QED BY <1>1, <3>4, <3>6, <3>7 DEF n
  <2> QED BY <2>1, <2>2
<1> HIDE DEF c
<1> DEFINE u == ReadFrom(c, debuggee.mem)
<1>3. /\ DataBox(u) /\ Held(u) /\ Known(u, debuggee.mem) /\ Alike(u, c) /\ u.mem_len = c.mem_len
  BY <1>2, ReadIs
<1>4. u = UpdateData(d, addr)
  BY <1>0
<1> HIDE DEF u
<1>5. Alike(u, d)
  BY <1>2, <1>3 DEF Alike
<1> QED BY <1>2, <1>3, <1>4, <1>5

\* With the cursor on a field before, it is on it after.
LEMMA SizedAlike ==
  ASSUME NEW c, NEW d, Alike(c, d), Sized(d)
  PROVE  Sized(c)
BY DEF Alike, Sized

\* So a window that was sized well holds and knows what it shows.
LEMMA UpdateKeeps ==
  ASSUME NEW d, DataBox(d), d.mem_len # 0 => Held(d), Sized(d), NEW addr
  PROVE  DataInv(UpdateData(d, addr), debuggee.mem)
<1>1. /\ DataBox(UpdateData(d, addr)) /\ Held(UpdateData(d, addr))
      /\ Known(UpdateData(d, addr), debuggee.mem) /\ Alike(UpdateData(d, addr), d)
  BY UpdateIs
<1>2. Sized(UpdateData(d, addr))
  BY <1>1, SizedAlike
<1> QED BY <1>1, <1>2 DEF DataInv

\* With fewer bytes shown, or as many, the buffer still holds what is shown.
LEMMA Fewer ==
  ASSUME NEW c, NEW d, NEW mem, DataBox(c), Held(c), DataBox(d), d.memo = c.memo,
         d.mem_len = c.mem_len, BytesShown(d) <= BytesShown(c)
  PROVE  Held(d) /\ (d.mem_start = c.mem_start /\ Known(c, mem) => Known(d, mem))
<1>1. PICK x \in Nat : x = BytesShown(c)
  BY ShownIsNat
<1>2. PICK y \in Nat : y = BytesShown(d)
  BY ShownIsNat
<1>3. d.mem_len \in Nat
  BY DEF DataBox
<1>4. y <= x /\ x <= d.mem_len
  BY <1>1, <1>2 DEF Held
<1>5. BytesShown(d) <= d.mem_len
  <2>1. y <= d.mem_len
    BY <1>3, <1>4
  <2> QED BY <1>2, <2>1
<1>6. Held(d)
  BY <1>5 DEF Held
<1>7. 1..BytesShown(d) \subseteq 1..BytesShown(c)
  <2>1. 1..y \subseteq 1..x
    BY <1>4
  <2> QED BY <1>1, <1>2, <2>1
<1>8. ASSUME d.mem_start = c.mem_start, Known(c, mem) PROVE Known(d, mem)
  BY <1>7, <1>8 DEF Known
<1> QED BY <1>6, <1>8

\* A new window, and the stack, that is opened as one and then made narrower.
LEMMA OpenData ==
  ASSUME createNew \/ stackWindow
  PROVE  DataInv(w', debuggee'.mem)
<1> DEFINE d == [NoData EXCEPT !.open = TRUE]
           c == UpdateData(d, 0)
<1>1. Line \in Nat /\ Line >= 4
  BY WindowsAssumption
<1>2. /\ d.open = TRUE /\ d.mem_len = 0 /\ d.bytesperline = Line /\ d.rows = 1
      /\ d.dispmode = 1 /\ d.row = 0 /\ d.field = 0 /\ d.odd = {} /\ DataBox(d)
  <2> DEFINE S == [open : BOOLEAN, mem_start : {0}, mem_len : Nat, memo : {<<>>},
                   bytesperline : Nat, rows : Nat \ {0}, dispmode : 1..4, row : Nat,
                   field : Nat, odd : SUBSET {"empty", "below"}]
  <2>1. {} \in SUBSET {"empty", "below"} /\ 1 \in Nat \ {0} /\ 1 \in 1..4 /\ 0 \in Nat
    OBVIOUS
  <2>2. /\ NoData \in S /\ NoData.mem_len = 0 /\ NoData.bytesperline = Line /\ NoData.rows = 1
        /\ NoData.dispmode = 1 /\ NoData.row = 0 /\ NoData.field = 0 /\ NoData.odd = {}
    BY <1>1, <2>1 DEF NoData
  <2>3. /\ d.open = TRUE /\ d.mem_len = 0 /\ d.bytesperline = Line /\ d.rows = 1
        /\ d.dispmode = 1 /\ d.row = 0 /\ d.field = 0 /\ d.odd = {} /\ d \in S
    BY <2>2
  <2>4. DataBox(d)
    <3>1. d.mem_start = 0 /\ d.memo = <<>>
      BY <2>3
    <3> HIDE DEF d
    <3> QED BY <2>3, <3>1 DEF DataBox
  <2> QED BY <2>3, <2>4
<1> HIDE DEF d
<1>3. Sized(d)
  <2>1. fieldbytes[1] = 1
    BY DEF fieldbytes
  <2>2. Line % 1 = 0 /\ 0 < 1 /\ 0 * 1 + 1 <= Line
    BY <1>1
  <2> QED BY <1>2, <2>1, <2>2 DEF Sized
<1>4. DataInv(c, debuggee.mem)
  BY <1>2, <1>3, UpdateKeeps
<1>5. BytesShown(d) = Line
  <2>1. Line * 1 = Line
    BY <1>1
  <2> QED BY <1>2, <2>1 DEF BytesShown
<1>6. /\ DataBox(c) /\ Held(c) /\ Known(c, debuggee.mem) /\ Alike(c, d)
      /\ c.mem_len = Line
  BY <1>2, <1>5, UpdateIs
<1> HIDE DEF c
<1>7. CASE createNew
  <2>1. w' = c /\ debuggee' = debuggee
    BY <1>7 DEF createNew, Going, c, d
  <2> QED BY <1>4, <2>1
<1>8. CASE stackWindow
  <2> DEFINE s == [c EXCEPT !.bytesperline = 4, !.dispmode = 3]
  <2>1. w' = s /\ debuggee' = debuggee
    BY <1>8 DEF stackWindow, Going, c, d
  <2>2. /\ DataBox(s) /\ s.memo = c.memo /\ s.mem_len = c.mem_len /\ s.mem_start = c.mem_start
        /\ s.bytesperline = 4 /\ s.dispmode = 3 /\ s.rows = 1 /\ s.row = 0 /\ s.field = 0
        /\ s.open = TRUE
    <3>1. c.open = TRUE /\ c.rows = 1 /\ c.row = 0 /\ c.field = 0
      BY <1>2, <1>6 DEF Alike
    <3>2. /\ s.memo = c.memo /\ s.mem_len = c.mem_len /\ s.mem_start = c.mem_start
          /\ s.bytesperline = 4 /\ s.dispmode = 3 /\ s.rows = c.rows /\ s.row = c.row
          /\ s.field = c.field /\ s.open = c.open
      BY <1>6 DEF DataBox
    <3> DEFINE S == [open : BOOLEAN, mem_start : {c.mem_start}, mem_len : Nat, memo : {c.memo},
                     bytesperline : Nat, rows : Nat \ {0}, dispmode : 1..4, row : Nat,
                     field : Nat, odd : SUBSET {"empty", "below"}]
    <3>4. c \in S /\ 3 \in 1..4 /\ 4 \in Nat
      BY <1>6 DEF DataBox
    <3>5. s \in S
      BY <3>4
    <3>3. DataBox(s)
      <4> HIDE DEF s
      <4> QED BY <3>2, <3>5 DEF DataBox
    <3> QED BY <3>1, <3>2, <3>3
  <2> HIDE DEF s
  <2>3. BytesShown(s) = 4 /\ BytesShown(c) = Line
    <3>1. 4 * 1 = 4 /\ Line * 1 = Line
      BY <1>1
    <3>2. c.bytesperline = Line /\ c.rows = 1
      BY <1>2, <1>6 DEF Alike
    <3> QED BY <2>2, <3>1, <3>2 DEF BytesShown
  <2>4. BytesShown(s) <= BytesShown(c)
    BY <1>1, <2>3
  <2>5. Held(s) /\ Known(s, debuggee.mem)
    BY <1>6, <2>2, <2>4, Fewer
  <2>6. Sized(s)
    <3>1. fieldbytes[3] = 4
      BY DEF fieldbytes
    <3>2. 4 % 4 = 0 /\ 0 < 1 /\ 0 * 4 + 4 <= 4
      OBVIOUS
    <3> QED BY <2>2, <3>1, <3>2 DEF Sized
  <2> QED BY <2>1, <2>2, <2>5, <2>6 DEF DataInv
<1> QED BY <1>7, <1>8

OpenInv == w.open /\ DataBox(w) /\ Sized(w) /\ Held(w) /\ Known(w, debuggee.mem)

\* The fields of an open window.
LEMMA OpenFields ==
  ASSUME OpenInv
  PROVE  /\ w.bytesperline \in Nat /\ w.rows \in Nat \ {0} /\ w.row \in Nat /\ w.field \in Nat
         /\ w.dispmode \in 1..4 /\ w.odd \in SUBSET {"empty", "below"} /\ w.mem_len \in Nat
         /\ FieldSize \in Nat /\ (FieldSize = 1 \/ FieldSize = 2 \/ FieldSize = 4)
         /\ FieldSize = fieldbytes[w.dispmode]
         /\ w.bytesperline % FieldSize = 0
         /\ w.odd = {} => w.row < w.rows /\ w.field * FieldSize + FieldSize <= w.bytesperline
<1>1. /\ w.bytesperline \in Nat /\ w.rows \in Nat \ {0} /\ w.row \in Nat /\ w.field \in Nat
      /\ w.dispmode \in 1..4 /\ w.odd \in SUBSET {"empty", "below"} /\ w.mem_len \in Nat
  BY DEF OpenInv, DataBox
<1>2. FieldSize = 1 \/ FieldSize = 2 \/ FieldSize = 4
  BY <1>1, FieldBytes DEF FieldSize
<1>3. /\ w.bytesperline % FieldSize = 0
      /\ w.odd = {} => w.row < w.rows /\ w.field * FieldSize + FieldSize <= w.bytesperline
  BY DEF OpenInv, Sized, FieldSize
<1>4. FieldSize \in Nat
  BY <1>2
<1> QED BY <1>1, <1>2, <1>3, <1>4 DEF FieldSize

\* Only the cursor moves.
LEMMA CursorMoves ==
  ASSUME OpenInv, NEW row \in Nat, NEW field \in Nat,
         w.odd = {} => row < w.rows /\ field * FieldSize + FieldSize <= w.bytesperline
  PROVE  /\ DataInv([w EXCEPT !.row = row, !.field = field], debuggee.mem)
         /\ DataBox([w EXCEPT !.row = row, !.field = field])
         /\ Sized([w EXCEPT !.row = row, !.field = field])
         /\ Held([w EXCEPT !.row = row, !.field = field])
<1> DEFINE d == [w EXCEPT !.row = row, !.field = field]
<1>1. /\ DataBox(d) /\ d.open = w.open /\ d.memo = w.memo /\ d.mem_len = w.mem_len
      /\ d.mem_start = w.mem_start /\ d.bytesperline = w.bytesperline /\ d.rows = w.rows
      /\ d.dispmode = w.dispmode /\ d.odd = w.odd /\ d.row = row /\ d.field = field
  <2> DEFINE S == [open : BOOLEAN, mem_start : {w.mem_start}, mem_len : Nat, memo : {w.memo},
                   bytesperline : Nat, rows : Nat \ {0}, dispmode : 1..4, row : Nat,
                   field : Nat, odd : SUBSET {"empty", "below"}]
  <2>1. w \in S
    BY DEF OpenInv, DataBox
  <2>2. d \in S /\ d.row = row /\ d.field = field
    BY <2>1
  <2>3. /\ d.open = w.open /\ d.memo = w.memo /\ d.mem_len = w.mem_len
        /\ d.mem_start = w.mem_start /\ d.bytesperline = w.bytesperline /\ d.rows = w.rows
        /\ d.dispmode = w.dispmode /\ d.odd = w.odd
    BY <2>1
  <2> HIDE DEF d
  <2>4. DataBox(d)
    BY <2>2, <2>3 DEF DataBox
  <2> QED BY <2>2, <2>3, <2>4
<1> HIDE DEF d
<1>2. BytesShown(d) = BytesShown(w)
  BY <1>1 DEF BytesShown
<1>3. Held(d) /\ Known(d, debuggee.mem)
  <2>1. Held(w) /\ Known(w, debuggee.mem)
    BY DEF OpenInv
  <2>2. Held(d)
    BY <1>1, <1>2, <2>1 DEF Held
  <2>3. Known(d, debuggee.mem)
    BY <1>1, <1>2, <2>1 DEF Known
  <2> QED BY <2>2, <2>3
<1>4. Sized(d)
  BY <1>1 DEF OpenInv, Sized, FieldSize
<1>5. DataInv(d, debuggee.mem)
  BY <1>1, <1>3, <1>4 DEF DataInv
<1> QED BY <1>1, <1>3, <1>4, <1>5 DEF d

\* It moves on to a field of its line.
FieldAfter(x, by, b, f) == IF by > 0 THEN Min({x + by, b \div f - 1}) ELSE Max({x + by, 0})
LEMMA FieldMoves ==
  ASSUME NEW b \in Nat, NEW f \in Nat, f = 1 \/ f = 2 \/ f = 4, b % f = 0, b > 0,
         NEW x \in Nat, NEW by \in {-1, 1}
  PROVE  /\ FieldAfter(x, by, b, f) \in Nat
         /\ x * f + f <= b => FieldAfter(x, by, b, f) * f + f <= b
<1> DEFINE q == b \div f
           last == q - 1
           y == FieldAfter(x, by, b, f)
<1>1. q \in Nat /\ q * f = b /\ b >= f
  BY FullFields
<1>0. y = IF by > 0 THEN Min({x + by, last}) ELSE Max({x + by, 0})
  BY DEF FieldAfter
<1> HIDE DEF q, y
<1>2. q >= 1
  <2>1. CASE q = 0
    BY <1>1, <2>1
  <2> QED BY <1>1, <2>1
<1>3. CASE by = 1
  <2>0. last \in Nat
    BY <1>1, <1>2
  <2>1. y = Min({x + 1, last}) /\ x + 1 \in Int /\ last \in Int
    <3> HIDE DEF last
    <3> QED BY <1>0, <1>3, <2>0
  <2> HIDE DEF last
  <2>2. y = IF x + 1 <= last THEN x + 1 ELSE last
    BY <2>1, OfTwo
  <2>3. y \in Nat /\ y <= last
    BY <2>0, <2>2
  <2>4. y * f + f <= b
    <3>1. y * f <= last * f
      BY <2>0, <2>3, Products
    <3>2. last * f + f = b
      <4>1. (q - 1) * f + f = q * f
        BY <1>1
      <4> QED BY <1>1, <4>1 DEF last
    <3>3. y * f \in Nat /\ last * f \in Nat
      BY <2>0, <2>3
    <3> QED BY <3>1, <3>2, <3>3
  <2> QED BY <2>3, <2>4 DEF y
<1>4. CASE by = -1
  <2>1. y = Max({x - 1, 0}) /\ x - 1 \in Int /\ 0 \in Int
    <3>1. x + (-1) = x - 1
      OBVIOUS
    <3> QED BY <1>0, <1>4, <3>1
  <2>2. y = IF x - 1 >= 0 THEN x - 1 ELSE 0
    BY <2>1, OfTwo
  <2>3. y \in Nat /\ y <= x
    BY <2>2
  <2>4. y * f <= x * f /\ y * f \in Nat /\ x * f \in Nat
    BY <2>3, Products
  <2>5. x * f + f <= b => y * f + f <= b
    BY <2>4
  <2> QED BY <2>3, <2>5 DEF y
<1> QED BY <1>3, <1>4

\* A window goes to an address, as it is or with its format changed.
LEMMA GoesTo ==
  ASSUME NEW d, DataBox(d), d.mem_len # 0 => Held(d), Sized(d), NEW addr,
         w' = UpdateData(d, addr), debuggee' = debuggee
  PROVE  DataInv(w', debuggee'.mem)
BY UpdateKeeps

\* Keys that move the cursor or the address.
LEMMA MovesStep ==
  ASSUME OpenInv,
         \/ CloseData \/ kbUp \/ kbDown
         \/ \E by \in {-1, 1} : kbLeftRight(by) \/ Scroll(by + MemSize)
         \/ \E a \in Memory : CheckAddress(a)
         \/ kbCtrlHomeEnd(0) \/ kbCtrlHomeEnd(w.rows - 1)
  PROVE  DataInv(w', debuggee'.mem)
<1>1. /\ w.bytesperline \in Nat /\ w.rows \in Nat \ {0} /\ w.row \in Nat /\ w.field \in Nat
      /\ FieldSize \in Nat /\ (FieldSize = 1 \/ FieldSize = 2 \/ FieldSize = 4)
      /\ w.bytesperline % FieldSize = 0
      /\ w.odd = {} => w.row < w.rows /\ w.field * FieldSize + FieldSize <= w.bytesperline
  BY OpenFields
<1>2. w.open /\ DataBox(w) /\ Sized(w) /\ Held(w) /\ Known(w, debuggee.mem)
  BY DEF OpenInv
<1>3. ASSUME CloseData PROVE DataInv(w', debuggee'.mem)
  <2>1. w' = NoData
    BY <1>3 DEF CloseData, Going
  <2>2. {} \in SUBSET {"empty", "below"} /\ 1 \in Nat \ {0} /\ 1 \in 1..4 /\ 0 \in Nat
        /\ Line \in Nat
    BY WindowsAssumption
  <2>3. DataBox(NoData) /\ NoData.open = FALSE
    BY <2>2 DEF NoData, DataBox
  <2> QED BY <2>1, <2>3 DEF DataInv
<1>4. ASSUME NEW r \in Nat, w.odd = {} => r < w.rows,
             w' = [w EXCEPT !.row = r], debuggee' = debuggee
      PROVE  DataInv(w', debuggee'.mem)
  <2>1. [w EXCEPT !.row = r] = [w EXCEPT !.row = r, !.field = w.field]
    BY <1>2 DEF DataBox
  <2>2. DataInv([w EXCEPT !.row = r, !.field = w.field], debuggee.mem)
    BY <1>1, <1>4, CursorMoves
  <2> QED BY <1>4, <2>1, <2>2
<1>5. ASSUME kbUp PROVE DataInv(w', debuggee'.mem)
  <2>1. CASE w.row = 0
    <3>1. /\ w' = UpdateData(w, w.mem_start + MemSize - Addr(w.bytesperline))
          /\ debuggee' = debuggee
      BY <1>5, <2>1 DEF kbUp, Going
    <3> QED BY <1>2, <3>1, GoesTo
  <2>2. CASE w.row # 0
    <3>1. w' = [w EXCEPT !.row = w.row - 1] /\ debuggee' = debuggee
      BY <1>2, <1>5, <2>2 DEF kbUp, Going, DataBox
    <3>2. w.row - 1 \in Nat /\ (w.odd = {} => w.row - 1 < w.rows)
      BY <1>1, <2>2
    <3> QED BY <1>4, <3>1, <3>2
  <2> QED BY <2>1, <2>2
<1>6. ASSUME kbDown PROVE DataInv(w', debuggee'.mem)
  <2>1. CASE w.row = w.rows - 1
    <3>1. w' = UpdateData(w, w.mem_start + w.bytesperline) /\ debuggee' = debuggee
      BY <1>6, <2>1 DEF kbDown, Going
    <3> QED BY <1>2, <3>1, GoesTo
  <2>2. CASE w.row # w.rows - 1
    <3>1. w' = [w EXCEPT !.row = w.row + 1] /\ debuggee' = debuggee
      BY <1>2, <1>6, <2>2 DEF kbDown, Going, DataBox
    <3>2. w.row + 1 \in Nat /\ (w.odd = {} => w.row + 1 < w.rows)
      BY <1>1, <2>2
    <3> QED BY <1>4, <3>1, <3>2
  <2> QED BY <2>1, <2>2
<1>7. ASSUME NEW by \in {-1, 1}, kbLeftRight(by) PROVE DataInv(w', debuggee'.mem)
  <2> DEFINE last == w.bytesperline \div FieldSize - 1
             y == IF by > 0 THEN Min({w.field + by, last}) ELSE Max({w.field + by, 0})
  <2>1. /\ w.bytesperline > 0 /\ debuggee' = debuggee
        /\ w' = [w EXCEPT !.field = y]
    <3>1. w.bytesperline > 0 /\ debuggee' = debuggee /\ w' = cursorHoriz(w, by)
      BY <1>7 DEF kbLeftRight, Bytes, Going
    <3>2. cursorHoriz(w, by) = [w EXCEPT !.field = y]
      BY <1>2 DEF cursorHoriz, FieldSize, DataBox
    <3> QED BY <3>1, <3>2
  <2>2. /\ y \in Nat
        /\ w.field * FieldSize + FieldSize <= w.bytesperline =>
             y * FieldSize + FieldSize <= w.bytesperline
    <3>1. y = FieldAfter(w.field, by, w.bytesperline, FieldSize)
      BY DEF FieldAfter
    <3> HIDE DEF y
    <3>2. w.bytesperline > 0 /\ by \in {-1, 1}
      BY <2>1
    <3> QED BY <1>1, <3>1, <3>2, FieldMoves
  <2> HIDE DEF y
  <2>3. [w EXCEPT !.field = y] = [w EXCEPT !.row = w.row, !.field = y]
    BY <1>2 DEF DataBox
  <2>4. DataInv([w EXCEPT !.row = w.row, !.field = y], debuggee.mem)
    BY <1>1, <2>2, CursorMoves
  <2> QED BY <2>1, <2>3, <2>4
<1>8. ASSUME NEW by \in {-1, 1}, Scroll(by + MemSize) PROVE DataInv(w', debuggee'.mem)
  <2>1. w' = UpdateData(w, w.mem_start + (by + MemSize)) /\ debuggee' = debuggee
    BY <1>8 DEF Scroll, Going
  <2> QED BY <1>2, <2>1, GoesTo
<1>9. ASSUME NEW a \in Memory, CheckAddress(a) PROVE DataInv(w', debuggee'.mem)
  <2> DEFINE d == [w EXCEPT !.row = 0, !.field = 0]
  <2>1. /\ w.bytesperline > 0 /\ debuggee' = debuggee
        /\ w' = d \/ w' = UpdateData(d, a)
    BY <1>9 DEF CheckAddress, Bytes, Going
  <2>2. 0 < w.rows /\ 0 * FieldSize + FieldSize <= w.bytesperline /\ 0 \in Nat
    <3>1. w.bytesperline >= FieldSize
      BY <1>1, <2>1, FullFields
    <3> QED BY <1>1, <3>1
  <2>3. DataInv(d, debuggee.mem) /\ DataBox(d) /\ Sized(d) /\ Held(d)
    BY <2>2, CursorMoves
  <2> HIDE DEF d
  <2>4. CASE w' = d
    BY <2>1, <2>3, <2>4
  <2>5. CASE w' = UpdateData(d, a)
    BY <2>1, <2>3, <2>5, GoesTo
  <2> QED BY <2>1, <2>4, <2>5
<1>10. ASSUME NEW r \in {0, w.rows - 1}, kbCtrlHomeEnd(r) PROVE DataInv(w', debuggee'.mem)
  <2>1. w' = [w EXCEPT !.row = r] /\ debuggee' = debuggee
    BY <1>10 DEF kbCtrlHomeEnd, Going
  <2>2. r \in Nat /\ r < w.rows
    BY <1>1
  <2> QED BY <1>4, <2>1, <2>2
<1> QED BY <1>3, <1>5, <1>6, <1>7, <1>8, <1>9, <1>10

\* A window with another line: fewer bytes of it, or a new buffer.
LEMMA Narrower ==
  ASSUME OpenInv, NEW b \in Nat, b <= w.bytesperline, NEW d, DataBox(d),
         d.memo = w.memo, d.mem_len = w.mem_len, d.bytesperline = b, d.rows = w.rows
  PROVE  Held(d)
<1>1. /\ DataBox(w) /\ Held(w) /\ w.bytesperline \in Nat /\ w.rows \in Nat
  BY OpenFields DEF OpenInv
<1>2. BytesShown(d) <= BytesShown(w)
  <2> DEFINE x == w.bytesperline
             r == w.rows
  <2>1. BytesShown(w) = x * r /\ BytesShown(d) = b * r
    BY DEF BytesShown
  <2> HIDE DEF x, r
  <2>2. x \in Nat /\ r \in Nat /\ b <= x
    BY <1>1 DEF x, r
  <2> QED BY <2>1, <2>2, Products
<1> QED BY <1>1, <1>2, Fewer

\* Keys that change the format, and a new size.
LEMMA FormatStep ==
  ASSUME OpenInv,
         \/ kbGrayMinus \/ kbGrayPlus \/ kbCtrlD
         \/ \E rows \in 1..MaxRows : ResizeData(rows)
  PROVE  DataInv(w', debuggee'.mem)
<1>1. /\ w.bytesperline \in Nat /\ w.rows \in Nat \ {0} /\ w.row \in Nat /\ w.field \in Nat
      /\ w.dispmode \in 1..4 /\ w.odd \in SUBSET {"empty", "below"} /\ w.mem_len \in Nat
      /\ FieldSize \in Nat /\ (FieldSize = 1 \/ FieldSize = 2 \/ FieldSize = 4)
      /\ FieldSize = fieldbytes[w.dispmode]
      /\ w.bytesperline % FieldSize = 0
      /\ w.odd = {} => w.row < w.rows /\ w.field * FieldSize + FieldSize <= w.bytesperline
  BY OpenFields
<1>2. w.open /\ DataBox(w) /\ Sized(w) /\ Held(w)
  BY DEF OpenInv
<1> DEFINE S == [open : BOOLEAN, mem_start : {w.mem_start}, mem_len : Nat, memo : {w.memo, <<>>},
                 bytesperline : Nat, rows : Nat \ {0}, dispmode : 1..4, row : Nat,
                 field : Nat, odd : SUBSET {"empty", "below"}]
<1>3. w \in S
  BY <1>2 DEF DataBox
<1>4. \A d \in S : DataBox(d)
  BY DEF DataBox
\* with the cursor put on the first field of the line
<1>5. ASSUME NEW d, DataBox(d), Held(d), d.open, NEW addr,
             w' = Home(UpdateData(d, addr)), debuggee' = debuggee,
             d.bytesperline % fieldbytes[d.dispmode] = 0,
             d.odd = {} => d.row < d.rows /\ fieldbytes[d.dispmode] <= d.bytesperline
      PROVE  DataInv(w', debuggee'.mem)
  <2> DEFINE u == UpdateData(d, addr)
             h == [u EXCEPT !.field = 0]
  <2>1. /\ DataBox(u) /\ Held(u) /\ Known(u, debuggee.mem) /\ Alike(u, d)
    BY <1>5, UpdateIs
  <2>2. w' = h
    BY <1>5 DEF Home
  <2> HIDE DEF u
  <2>3. /\ DataBox(h) /\ h.field = 0 /\ h.open = u.open /\ h.bytesperline = u.bytesperline
        /\ h.rows = u.rows /\ h.dispmode = u.dispmode /\ h.row = u.row /\ h.odd = u.odd
        /\ h.memo = u.memo /\ h.mem_len = u.mem_len /\ h.mem_start = u.mem_start
    BY <2>1 DEF DataBox
  <2> HIDE DEF h
  <2>4. Held(h) /\ Known(h, debuggee.mem)
    BY <2>1, <2>3 DEF Held, Known, BytesShown
  <2>5. Sized(h)
    <3>1. /\ h.bytesperline = d.bytesperline /\ h.dispmode = d.dispmode /\ h.odd = d.odd
          /\ h.row = d.row /\ h.rows = d.rows
      BY <2>1, <2>3 DEF Alike
    <3>2. PICK f \in Nat : f = fieldbytes[d.dispmode]
      <4>1. d.dispmode \in 1..4
        BY <1>5 DEF DataBox
      <4>2. fieldbytes[d.dispmode] \in Nat
        BY <4>1, FieldBytes
      <4> QED BY <4>2
    <3>3. 0 * f + f = f
      OBVIOUS
    <3> QED BY <1>5, <2>3, <3>1, <3>2, <3>3 DEF Sized
  <2> QED BY <1>5, <2>2, <2>3, <2>4, <2>5 DEF DataInv
<1>6. ASSUME kbGrayMinus PROVE DataInv(w', debuggee'.mem)
  <2> DEFINE b == w.bytesperline - FieldSize
             d == [w EXCEPT !.bytesperline = b]
  <2>1. /\ w.bytesperline > FieldSize /\ debuggee' = debuggee
        /\ w' = Home(UpdateData(d, w.mem_start))
    BY <1>2, <1>6 DEF kbGrayMinus, Going, DataBox
  <2>2. b \in Nat /\ b <= w.bytesperline /\ b % FieldSize = 0 /\ FieldSize <= b
    <3>1. w.bytesperline >= FieldSize + FieldSize
      BY <1>1, <2>1, FullFields
    <3>2. w.bytesperline >= FieldSize => (w.bytesperline - FieldSize) % FieldSize = 0
      BY <1>1, FullFields
    <3> QED BY <1>1, <3>1, <3>2
  <2> HIDE DEF b
  <2>3. /\ d \in S /\ d.memo = w.memo /\ d.mem_len = w.mem_len /\ d.bytesperline = b
        /\ d.rows = w.rows /\ d.dispmode = w.dispmode /\ d.row = w.row /\ d.odd = w.odd
        /\ d.open = w.open
    BY <1>3, <2>2
  <2> HIDE DEF d
  <2>4. DataBox(d)
    BY <1>4, <2>3
  <2> HIDE DEF S
  <2>5. Held(d)
    BY <2>2, <2>3, <2>4, Narrower
  <2> QED BY <1>1, <1>2, <1>5, <2>1, <2>2, <2>3, <2>4, <2>5
<1>7. ASSUME kbGrayPlus PROVE DataInv(w', debuggee'.mem)
  <2> DEFINE b == w.bytesperline + FieldSize
             c == [w EXCEPT !.bytesperline = b]
             d == [c EXCEPT !.mem_len = 0, !.memo = <<>>]
  <2>1. debuggee' = debuggee /\ w' = UpdateData(d, w.mem_start)
    BY <1>2, <1>7 DEF kbGrayPlus, Grown, Freed, Going, DataBox, FieldSize
  <2>2. b \in Nat /\ w.bytesperline <= b /\ b % FieldSize = 0
    <3>1. b % FieldSize = 0
      BY <1>1, FullFields
    <3>2. PICK x \in Nat : x = w.bytesperline
      BY <1>1
    <3>3. PICK y \in Nat : y = FieldSize
      BY <1>1
    <3>4. x + y \in Nat /\ x <= x + y
      OBVIOUS
    <3> QED BY <3>1, <3>2, <3>3, <3>4
  <2> HIDE DEF b
  <2>3. /\ c \in S /\ c.bytesperline = b /\ c.rows = w.rows /\ c.dispmode = w.dispmode
        /\ c.row = w.row /\ c.odd = w.odd /\ c.open = w.open /\ c.field = w.field
    BY <1>3, <2>2
  <2> HIDE DEF c
  <2>4. /\ d \in S /\ d.mem_len = 0 /\ d.bytesperline = b /\ d.rows = w.rows
        /\ d.dispmode = w.dispmode /\ d.row = w.row /\ d.odd = w.odd /\ d.open = w.open
        /\ d.field = w.field
    BY <2>3
  <2> HIDE DEF d
  <2>5. DataBox(d)
    BY <1>4, <2>4
  <2> HIDE DEF S
  <2>6. Sized(d)
    <3>1. PICK x \in Nat : x = w.field * FieldSize
      BY <1>1
    <3>2. w.odd = {} => x + FieldSize <= b
      BY <1>1, <2>2, <3>1
    <3> QED BY <1>1, <2>2, <2>4, <3>1, <3>2 DEF Sized
  <2> QED BY <2>1, <2>4, <2>5, <2>6, GoesTo
<1>8. ASSUME kbCtrlD PROVE DataInv(w', debuggee'.mem)
  <2> DEFINE mode == (w.dispmode % 4) + 1
             f == fieldbytes[mode]
             b == (w.bytesperline \div f) * f
             odd == IF b = 0 THEN w.odd \cup {"empty"} ELSE w.odd
             d == [w EXCEPT !.dispmode = mode, !.bytesperline = b, !.odd = odd]
  <2>1. debuggee' = debuggee /\ w' = Home(UpdateData(d, w.mem_start))
    BY <1>2, <1>8 DEF kbCtrlD, Going, DataBox
  <2>2. mode \in 1..4
    BY <1>1
  <2>3. f \in Nat /\ (f = 1 \/ f = 2 \/ f = 4)
    <3> HIDE DEF mode
    <3>1. f = 1 \/ f = 2 \/ f = 4
      BY <2>2, FieldBytes
    <3> QED BY <3>1
  <2>4. b \in Nat /\ b <= w.bytesperline /\ b % f = 0
    <3> HIDE DEF f
    <3> QED BY <1>1, <2>3, FullFields
  <2>5. odd \in SUBSET {"empty", "below"} /\ (odd = {} => b # 0 /\ w.odd = {})
    <3> HIDE DEF b
    <3> QED BY <1>1
  <2> HIDE DEF odd, b, mode
  <2>6. /\ d \in S /\ d.memo = w.memo /\ d.mem_len = w.mem_len /\ d.bytesperline = b
        /\ d.rows = w.rows /\ d.dispmode = mode /\ d.row = w.row /\ d.odd = odd
        /\ d.open = w.open
    BY <1>3, <2>2, <2>4, <2>5
  <2> HIDE DEF d
  <2>7. DataBox(d)
    BY <1>4, <2>6
  <2> HIDE DEF S
  <2>8. Held(d)
    BY <2>4, <2>6, <2>7, Narrower
  <2> HIDE DEF f
  <2>9. odd = {} => f <= b
    BY <2>3, <2>4, <2>5, FullFields
  <2> QED BY <1>1, <1>2, <1>5, <2>1, <2>4, <2>5, <2>6, <2>7, <2>8, <2>9 DEF f
<1>9. ASSUME NEW rows \in 1..MaxRows, ResizeData(rows) PROVE DataInv(w', debuggee'.mem)
  <2> DEFINE odd == IF w.row >= rows THEN w.odd \cup {"below"} ELSE w.odd
             c == IF w.rows < rows THEN [w EXCEPT !.mem_len = 0, !.memo = <<>>] ELSE w
             d == [c EXCEPT !.rows = rows, !.odd = odd]
  <2>0. rows \in Nat \ {0}
    BY WindowsAssumption
  <2>2. /\ c \in S /\ c.bytesperline = w.bytesperline /\ c.dispmode = w.dispmode
        /\ c.row = w.row /\ c.odd = w.odd /\ c.open = w.open /\ c.field = w.field
        /\ IF w.rows < rows THEN c.mem_len = 0 ELSE c.memo = w.memo /\ c.mem_len = w.mem_len
    BY <1>3
  <2>1. debuggee' = debuggee /\ w' = UpdateData(d, w.mem_start)
    <3>1. c = IF w.rows < rows THEN Freed(w) ELSE w
      BY DEF Freed
    <3>2. d = [c EXCEPT !.rows = rows, !.odd = IF w.row >= rows THEN @ \cup {"below"} ELSE @]
      <4> HIDE DEF c
      <4> QED BY <2>2
    <3> HIDE DEF c, d
    <3> QED BY <1>9, <3>1, <3>2 DEF ResizeData, Going
  <2>3. odd \in SUBSET {"empty", "below"} /\ (odd = {} => w.row < rows /\ w.odd = {})
    BY <1>1, <2>0
  <2> HIDE DEF c, odd
  <2>4. /\ d \in S /\ d.rows = rows /\ d.odd = odd /\ d.bytesperline = w.bytesperline
        /\ d.dispmode = w.dispmode /\ d.row = w.row /\ d.open = w.open /\ d.field = w.field
        /\ d.mem_len = c.mem_len /\ d.memo = c.memo
    BY <2>0, <2>2, <2>3
  <2> HIDE DEF d
  <2>5. DataBox(d)
    BY <1>4, <2>4
  <2> HIDE DEF S
  <2>6. d.mem_len # 0 => Held(d)
    <3> SUFFICES ASSUME d.mem_len # 0 PROVE Held(d)
      OBVIOUS
    <3>1. rows <= w.rows /\ d.memo = w.memo /\ d.mem_len = w.mem_len
      BY <1>1, <2>0, <2>2, <2>4
    <3>2. BytesShown(d) <= BytesShown(w)
      <4> DEFINE x == w.bytesperline
                 r == w.rows
      <4>1. BytesShown(w) = x * r /\ BytesShown(d) = x * rows
        BY <2>4 DEF BytesShown
      <4> HIDE DEF x, r
      <4>2. x \in Nat /\ r \in Nat /\ rows <= r /\ rows \in Nat
        BY <1>1, <2>0, <3>1 DEF x, r
      <4> QED BY <4>1, <4>2, Products
    <3> QED BY <1>2, <2>5, <3>1, <3>2, Fewer
  <2>7. Sized(d)
    BY <1>1, <2>3, <2>4 DEF Sized
  <2> QED BY <2>1, <2>5, <2>6, <2>7, GoesTo
<1> QED BY <1>6, <1>7, <1>8, <1>9

\* What is typed is in the buffer only; what is written, by the keys or by the
\* program, is read again.
LEMMA MemoryStep ==
  ASSUME DebuggeeInv, OpenInv,
         \/ kbEnter \/ \E v \in Values : Type(v)
         \/ \E a \in Memory : \E v \in Values : target_fill_mem(a, 2, v)
  PROVE  DataInv(w', debuggee'.mem)
<1>1. /\ w.bytesperline \in Nat /\ w.rows \in Nat \ {0} /\ w.row \in Nat /\ w.field \in Nat
      /\ FieldSize \in Nat /\ (FieldSize = 1 \/ FieldSize = 2 \/ FieldSize = 4)
      /\ w.bytesperline % FieldSize = 0 /\ w.mem_len \in Nat
      /\ w.odd = {} => w.row < w.rows /\ w.field * FieldSize + FieldSize <= w.bytesperline
  BY OpenFields
<1>2. w.open /\ DataBox(w) /\ Sized(w) /\ Held(w) /\ Known(w, debuggee.mem)
  BY DEF OpenInv
<1>3. ASSUME NEW m, w' = ReadFrom(w, m), debuggee' = [debuggee EXCEPT !.mem = m]
      PROVE  DataInv(w', debuggee'.mem)
  <2>1. debuggee'.mem = m
    BY <1>3 DEF DebuggeeInv
  <2>2. DataBox(w') /\ Held(w') /\ Known(w', m) /\ Alike(w', w)
    BY <1>2, <1>3, ReadIs
  <2> QED BY <1>2, <2>1, <2>2, SizedAlike DEF DataInv
<1>4. kbEnter => DataInv(w', debuggee'.mem)
  BY <1>3 DEF kbEnter
<1>5. ASSUME NEW a \in Memory, NEW v \in Values, target_fill_mem(a, 2, v)
      PROVE  DataInv(w', debuggee'.mem)
  <2>1. PICK m : w' = ReadFrom(w, m) /\ debuggee' = [debuggee EXCEPT !.mem = m]
    BY <1>5 DEF target_fill_mem
  <2> QED BY <1>3, <2>1
<1>6. ASSUME NEW v \in Values, Type(v) PROVE DataInv(w', debuggee'.mem)
  <2> DEFINE E == curs2memo..(curs2memo + FieldSize - 1)
             n == w.mem_len
             m == [i \in 1..n |-> IF i \in E THEN Edited(w.memo[i], v) ELSE w.memo[i]]
             d == [w EXCEPT !.memo = m]
             last == w.bytesperline \div FieldSize - 1
             y == IF 1 > 0 THEN Min({w.field + 1, last}) ELSE Max({w.field + 1, 0})
  <2>1. DOMAIN w.memo = 1..n
    BY <1>1, <1>2, LengthOf DEF Held
  <2>2. d = [w EXCEPT !.memo = [i \in DOMAIN w.memo |->
              IF i \in curs2memo..(curs2memo + FieldSize - 1) THEN Edited(w.memo[i], v) ELSE w.memo[i]]]
    BY <2>1
  <2>3. /\ w.bytesperline > 0 /\ debuggee' = debuggee /\ w' = cursorHoriz(d, 1)
    <3> HIDE DEF d
    <3> QED BY <1>6, <2>2 DEF Type, Bytes, Going
  <2>4. m = [i \in 1..n |-> m[i]] /\ \A i \in 1..n :
          m[i] = Edited(w.memo[i], v) \/ m[i] = w.memo[i]
    OBVIOUS
  <2> HIDE DEF m
  <2>5. /\ DataBox(d) /\ d.memo = m /\ d.mem_len = n /\ d.mem_start = w.mem_start
        /\ d.bytesperline = w.bytesperline /\ d.rows = w.rows /\ d.dispmode = w.dispmode
        /\ d.row = w.row /\ d.field = w.field /\ d.odd = w.odd /\ d.open = w.open
    BY <1>2 DEF DataBox
  <2> HIDE DEF d
  <2>6. w' = [d EXCEPT !.field = y]
    BY <2>3, <2>5 DEF cursorHoriz, FieldSize, DataBox
  <2>7. /\ y \in Nat
        /\ w.field * FieldSize + FieldSize <= w.bytesperline =>
             y * FieldSize + FieldSize <= w.bytesperline
    <3>1. y = FieldAfter(w.field, 1, w.bytesperline, FieldSize)
      BY DEF FieldAfter
    <3> HIDE DEF y
    <3>2. w.bytesperline > 0 /\ 1 \in {-1, 1}
      BY <2>3
    <3> QED BY <1>1, <3>1, <3>2, FieldMoves
  <2> HIDE DEF y
  <2>8. /\ DataBox(w') /\ w'.memo = m /\ w'.mem_len = n /\ w'.mem_start = w.mem_start
        /\ w'.bytesperline = w.bytesperline /\ w'.rows = w.rows /\ w'.dispmode = w.dispmode
        /\ w'.row = w.row /\ w'.field = y /\ w'.odd = w.odd /\ w'.open = w.open
    BY <2>5, <2>6, <2>7 DEF DataBox
  <2>9. BytesShown(w') = BytesShown(w)
    BY <2>8 DEF BytesShown
  <2>10. Held(w')
    BY <1>2, <2>4, <2>8, <2>9 DEF Held
  <2>11. Sized(w')
    BY <1>1, <2>7, <2>8 DEF Sized, FieldSize
  <2>12. Known(w', debuggee.mem)
    <3> SUFFICES ASSUME NEW i \in 1..BytesShown(w), m[i].f = "READ"
                 PROVE  m[i].v = debuggee.mem[Addr(w.mem_start + i - 1)]
      BY <2>8, <2>9 DEF Known
    <3>1. i \in 1..n
      <4>1. PICK x \in Nat : x = BytesShown(w)
        BY <1>2, ShownIsNat
      <4>2. x <= n /\ i \in 1..x
        BY <1>2, <4>1 DEF Held
      <4> QED BY <1>1, <4>2
    <3>2. m[i] = Edited(w.memo[i], v) \/ m[i] = w.memo[i]
      BY <2>4, <3>1
    <3>3. Edited(w.memo[i], v).f # "READ"
      BY DEF Edited, Cell
    <3>4. m[i] = w.memo[i]
      BY <3>2, <3>3
    <3> QED BY <1>2, <3>4 DEF Known
  <2> QED BY <2>3, <2>8, <2>10, <2>11, <2>12 DEF DataInv
<1> QED BY <1>4, <1>5, <1>6

\* What a data window shows is what the program has, after any key and stop.
LEMMA DataStep ==
  ASSUME DebuggeeInv, DataInv(w, debuggee.mem), DataNext \/ (part = "data" /\ AnyStop)
  PROVE  DataInv(w', debuggee'.mem)
<1>1. w.open => OpenInv
  BY DEF DataInv, OpenInv
<1>2. ASSUME part = "data", AnyStop PROVE DataInv(w', debuggee'.mem)
  <2>1. PICK pc \in Entry, depth \in Nat, m \in {debuggee'.mem} :
          /\ debuggee' = [started |-> TRUE, pc |-> pc, depth |-> depth, mem |-> m]
          /\ w' \in Refreshed(pc, depth, m) /\ part' = part
    BY <1>2, StopDoes
  <2>2. w' = IF w.open THEN ReadFrom(w, m) ELSE w
    BY <1>2, <2>1 DEF Refreshed
  <2>3. debuggee'.mem = m
    BY <2>1
  <2>4. CASE w.open
    <3>1. DataBox(w) /\ Sized(w) /\ Held(w)
      BY <2>4 DEF DataInv
    <3>2. DataBox(w') /\ Held(w') /\ Known(w', m) /\ Alike(w', w)
      BY <2>2, <2>4, <3>1, ReadIs
    <3> QED BY <2>3, <3>1, <3>2, SizedAlike DEF DataInv
  <2>5. CASE ~w.open
    BY <2>2, <2>5 DEF DataInv
  <2> QED BY <2>4, <2>5
<1>3. ASSUME DataNext PROVE DataInv(w', debuggee'.mem)
  <2>1. createNew \/ stackWindow => DataInv(w', debuggee'.mem)
    BY OpenData
  <2>2. ASSUME \/ CloseData \/ kbUp \/ kbDown
               \/ \E by \in {-1, 1} : kbLeftRight(by) \/ Scroll(by + MemSize)
               \/ \E a \in Memory : CheckAddress(a)
               \/ kbCtrlHomeEnd(0) \/ kbCtrlHomeEnd(w.rows - 1)
        PROVE  DataInv(w', debuggee'.mem)
    <3>1. w.open
      BY <2>2 DEF CloseData, kbUp, kbDown, kbLeftRight, Scroll, CheckAddress, kbCtrlHomeEnd,
                  Bytes, data
    <3> QED BY <1>1, <2>2, <3>1, MovesStep
  <2>3. ASSUME \/ kbGrayMinus \/ kbGrayPlus \/ kbCtrlD
               \/ \E rows \in 1..MaxRows : ResizeData(rows)
        PROVE  DataInv(w', debuggee'.mem)
    <3>1. w.open
      BY <2>3 DEF kbGrayMinus, kbGrayPlus, kbCtrlD, ResizeData, Bytes, data
    <3> QED BY <1>1, <2>3, <3>1, FormatStep
  <2>4. ASSUME \/ kbEnter \/ \E v \in Values : Type(v)
               \/ \E a \in Memory : \E v \in Values : target_fill_mem(a, 2, v)
        PROVE  DataInv(w', debuggee'.mem)
    <3>1. w.open
      BY <2>4 DEF kbEnter, Type, target_fill_mem, Bytes, data
    <3> QED BY <1>1, <2>4, <3>1, MemoryStep
  <2> QED BY <1>3, <2>1, <2>2, <2>3, <2>4 DEF DataNext
<1> QED BY <1>2, <1>3

(* The windows and the program *)

WindowsInv ==
  /\ part \in PartNames /\ DebuggeeInv
  /\ part = "watches" => WatchInv(w)
  /\ part = "stack" => StackInv(w, debuggee.depth)
  /\ part = "registers" => RegistersInv(w)
  /\ part = "disassembler" => LinesInv(w)
  /\ part = "data" => DataInv(w, debuggee.mem)

\* Steps that only change the window, the registers, or the memory.
LEMMA DebuggeeSteps ==
  ASSUME WatchesNext \/ StackNext \/ RegistersNext \/ LinesNext \/ DataNext
  PROVE  \/ debuggee' = debuggee
         \/ RegistersNext /\ \E v \in Entry : debuggee' = [debuggee EXCEPT !.pc = v]
         \/ DataNext /\ \E m : debuggee' = [debuggee EXCEPT !.mem = m]
<1>1. WatchesNext => debuggee' = debuggee
  BY DEF WatchesNext, AddWatch, cmEditWatch, cmRemoveWatch, CloseWatches, cmWatchWindow,
         DeleteAllWatches, FocusWatch, Going
<1>2. StackNext => debuggee' = debuggee
  BY DEF StackNext, ShowCallStackWindow, CloseStack, SelectFrame, Going
<1>3. RegistersNext => \/ debuggee' = debuggee
                       \/ \E v \in Entry : debuggee' = [debuggee EXCEPT !.pc = v]
  BY DEF RegistersNext, ResizeRegisters, kbUpRegister, kbDownRegister, MouseRegister, editRegister,
         set_register_value, Going
<1>4. LinesNext => debuggee' = debuggee
  BY DEF LinesNext, focusItemNum, ResizeLines, Going
<1>5. DataNext => debuggee' = debuggee \/ \E m : debuggee' = [debuggee EXCEPT !.mem = m]
  BY DEF DataNext, ResizeData, createNew, stackWindow, CloseData, kbUp, kbDown, kbGrayMinus,
         kbGrayPlus, kbCtrlD, kbEnter, kbLeftRight, Scroll, CheckAddress, target_fill_mem,
         kbCtrlHomeEnd, Type, Bytes, data, Going
<1> QED BY <1>1, <1>2, <1>3, <1>4, <1>5

LEMMA DebuggeeStep ==
  ASSUME DebuggeeInv, Next, part \in PartNames
  PROVE  DebuggeeInv'
<1>1. \/ WatchesNext \/ StackNext \/ RegistersNext \/ LinesNext \/ DataNext
      \/ AnyStop
  BY PartSteps DEF PartNames
<1>2. CASE AnyStop
  <2>1. PICK pc \in Entry, depth \in Nat, m \in {debuggee'.mem} :
          debuggee' = [started |-> TRUE, pc |-> pc, depth |-> depth, mem |-> m]
    BY <1>2, StopDoes
  <2>2. pc \in Nat
    BY WindowsAssumption
  <2> QED BY <2>1, <2>2 DEF DebuggeeInv
<1>3. CASE debuggee' = debuggee
  BY <1>3 DEF DebuggeeInv
<1>4. ASSUME NEW v \in Entry, debuggee' = [debuggee EXCEPT !.pc = v] PROVE DebuggeeInv'
  <2>1. v \in Nat
    BY WindowsAssumption
  <2>2. debuggee' \in [started : BOOLEAN, pc : Nat, depth : Nat, mem : {debuggee.mem}]
        /\ debuggee'.mem = debuggee.mem
    BY <1>4, <2>1 DEF DebuggeeInv
  <2> QED BY <2>2 DEF DebuggeeInv
<1>5. ASSUME NEW m, debuggee' = [debuggee EXCEPT !.mem = m] PROVE DebuggeeInv'
  <2>1. debuggee' \in [started : BOOLEAN, pc : Nat, depth : Nat, mem : {m}] /\ debuggee'.mem = m
    BY <1>5 DEF DebuggeeInv
  <2> QED BY <2>1 DEF DebuggeeInv
<1> QED BY <1>1, <1>2, <1>3, <1>4, <1>5, DebuggeeSteps

LEMMA WindowsInit ==
  ASSUME Init
  PROVE  WindowsInv
<1>0. RegCount \in Nat \ {0} /\ Line \in Nat
  BY WindowsAssumption
<1>1. /\ part \in PartNames /\ DebuggeeInv
      /\ part = "watches" => w = NoBox
      /\ part = "stack" => w = NoStack
      /\ part = "registers" => w = NoRegisters
      /\ part = "disassembler" => w = NoLines
      /\ part = "data" => w = NoData
  BY FirstParts
<1>2. w = NoBox => WatchInv(w)
  BY DEF NoBox, WatchInv, WatchBox
<1>3. w = NoStack => StackInv(w, debuggee.depth)
  BY DEF NoStack, StackInv, Stacks
<1>4. w = NoRegisters => RegistersInv(w)
  BY <1>0 DEF NoRegisters, RegistersInv, RegisterBoxes
<1>5. w = NoLines => LinesInv(w)
  BY DEF NoLines, LinesInv, LineBoxes, Read1, FromStop
<1>6. w = NoData => DataInv(w, debuggee.mem)
  <2>1. {} \in SUBSET {"empty", "below"} /\ 1 \in Nat \ {0} /\ 1 \in 1..4 /\ 0 \in Nat
    OBVIOUS
  <2>2. DataBox(NoData) /\ NoData.open = FALSE
    BY <1>0, <2>1 DEF NoData, DataBox
  <2> QED BY <2>2 DEF DataInv
<1> QED BY <1>1, <1>2, <1>3, <1>4, <1>5, <1>6 DEF WindowsInv

LEMMA WindowsStep ==
  ASSUME WindowsInv, [Next]_vars
  PROVE  WindowsInv'
<1>1. CASE UNCHANGED vars
  <2>1. part' = part /\ debuggee' = debuggee /\ w' = w
    BY <1>1 DEF vars
  <2> QED BY <2>1 DEF WindowsInv, DebuggeeInv
<1>2. CASE Next
  <2>1. part \in PartNames /\ DebuggeeInv
    BY DEF WindowsInv
  <2>2. /\ part = "watches" => WatchesNext
        /\ part = "stack" => StackNext \/ AnyStop
        /\ part = "registers" => RegistersNext \/ AnyStop
        /\ part = "disassembler" => LinesNext \/ AnyStop
        /\ part = "data" => DataNext \/ AnyStop
        /\ part' = part
    BY <1>2, <2>1, PartSteps
  <2>3. DebuggeeInv'
    BY <1>2, <2>1, DebuggeeStep
  <2>4. part = "watches" => WatchInv(w')
    BY <2>2, WatchesStep DEF WindowsInv
  <2>5. part = "stack" => StackInv(w', debuggee'.depth)
    BY <2>1, <2>2, StackStep DEF WindowsInv
  <2>6. part = "registers" => RegistersInv(w')
    BY <2>1, <2>2, RegistersStep DEF WindowsInv
  <2>7. part = "disassembler" => LinesInv(w')
    BY <2>2, LinesStep DEF WindowsInv
  <2>8. part = "data" => DataInv(w', debuggee'.mem)
    BY <2>1, <2>2, DataStep DEF WindowsInv
  <2>9. part' \in PartNames
    BY <2>1, <2>2
  <2> QED BY <2>2, <2>3, <2>4, <2>5, <2>6, <2>7, <2>8, <2>9 DEF WindowsInv
<1> QED BY <1>1, <1>2

\* The buffer and the cursor, from what is kept about them.
LEMMA DataHolds ==
  ASSUME part = "data", w.open, DataInv(w, debuggee.mem)
  PROVE  BufferHolds /\ MemoryIsShown
<1>1. /\ w.bytesperline \in Nat /\ w.rows \in Nat \ {0} /\ w.row \in Nat /\ w.field \in Nat
      /\ w.mem_len \in Nat
      /\ FieldSize \in Nat /\ (FieldSize = 1 \/ FieldSize = 2 \/ FieldSize = 4)
      /\ w.bytesperline % FieldSize = 0
      /\ w.odd = {} => w.row < w.rows /\ w.field * FieldSize + FieldSize <= w.bytesperline
  BY OpenFields DEF DataInv, OpenInv
<1>2. DataBox(w) /\ Held(w) /\ Known(w, debuggee.mem)
  BY DEF DataInv
<1>3. Len(w.memo) = w.mem_len /\ BytesShown(w) <= Len(w.memo)
  <2>1. Len(w.memo) = w.mem_len
    BY <1>1, <1>2, LengthOf DEF Held
  <2> QED BY <1>2, <2>1 DEF Held
<1>4. ASSUME w.odd = {} PROVE w.row < w.rows /\ curs2memo + FieldSize - 1 <= BytesShown(w)
  <2> DEFINE b == w.bytesperline
             r == w.row
             n == w.rows
             x == w.field * FieldSize
             f == FieldSize
  <2>1. /\ r < n /\ x + f <= b /\ b \in Nat /\ r \in Nat /\ n \in Nat /\ x \in Nat /\ f \in Nat
    BY <1>1, <1>4
  <2>2. curs2memo = b * r + x + 1 /\ BytesShown(w) = b * n
    BY DEF curs2memo, BytesShown
  <2> HIDE DEF b, r, n, x, f
  <2>3. r <= n
    BY <2>1
  <2>4. b * r + b <= b * n /\ b * r \in Nat /\ b * n \in Nat
    BY <2>1, <2>3, Products
  <2>5. b * r + x + 1 + f - 1 <= b * n
    BY <2>1, <2>4
  <2> QED BY <2>1, <2>2, <2>5 DEF r, n, f
<1>5. BufferHolds
  BY <1>1, <1>3, <1>4 DEF BufferHolds
<1>6. MemoryIsShown
  BY <1>2 DEF MemoryIsShown, Known
<1> QED BY <1>5, <1>6

LEMMA WindowsInvRight ==
  ASSUME WindowsInv
  PROVE  WindowsRight
<1>1. WatchesInStep
  BY DEF WindowsInv, WatchInv, WatchesInStep
<1>2. StackIsThePrograms
  BY DEF WindowsInv, StackInv, StackIsThePrograms
<1>3. RegistersExist
  BY DEF WindowsInv, RegistersInv, RegistersExist
<1>4. LinesAscend
  BY LinesInvAscend DEF WindowsInv, LinesAscend
<1>5. BufferHolds /\ MemoryIsShown
  <2>1. CASE part = "data" /\ w.open
    BY <2>1, DataHolds DEF WindowsInv
  <2>2. CASE ~(part = "data" /\ w.open)
    BY <2>2 DEF BufferHolds, MemoryIsShown
  <2> QED BY <2>1, <2>2
<1> QED BY <1>1, <1>2, <1>3, <1>4, <1>5 DEF WindowsRight

LEMMA WindowsAlways == Spec => []WindowsInv
<1> QED BY WindowsInit, WindowsStep, PTL DEF Spec

\* Rows of the watches window are the list that is saved, rows of the call
\* stack frames the program has, registers drawn exist, disassembled lines go
\* up without a repeat, and a data window holds, and shows, what the memory of
\* the program has (watches.cc, callstac.cc, tdiswin.cc, tdatawin.cc): for any
\* program, memory and size of the windows.
THEOREM WindowsAreRight == Spec => []WindowsRight
<1> QED BY WindowsAlways, WindowsInvRight, PTL

\* If decoding from any place the program stops at gets to the later ones, a
\* stop has a line in the disassembler, and it is focused, or a line of text
\* before it (TDisassWindow::update and select_address, tdiswin.cc:736-792).
THEOREM StopsAreFocused ==
  ASSUME StopsDecode
  PROVE  Spec => StopIsFocused
<1>1. ASSUME WindowsInv, [Next]_vars
      PROVE  [part = "disassembler" /\ debuggee' # debuggee /\ w'.start_address = w'.from =>
                \E i \in DOMAIN w'.lines :
                  /\ w'.lines[i] = debuggee'.pc
                  /\ w'.focused + 1 = i
                     \/ (w'.focused + 1 < i /\ w'.lines[w'.focused + 1] = 0)]_vars
  <2> SUFFICES ASSUME Next, part = "disassembler", debuggee' # debuggee,
                      w'.start_address = w'.from
               PROVE  \E i \in DOMAIN w'.lines :
                        /\ w'.lines[i] = debuggee'.pc
                        /\ w'.focused + 1 = i
                           \/ (w'.focused + 1 < i /\ w'.lines[w'.focused + 1] = 0)
    BY <1>1
  <2>1. part \in PartNames /\ LinesInv(w)
    BY <1>1 DEF WindowsInv
  <2>2. LinesNext \/ AnyStop
    BY <2>1, PartSteps
  <2>3. LinesNext => debuggee' = debuggee
    BY DEF LinesNext, focusItemNum, ResizeLines, Going
  <2>4. AnyStop
    BY <2>2, <2>3
  <2>5. PICK pc \in Entry, depth \in Nat, m \in {debuggee'.mem} :
          /\ debuggee' = [started |-> TRUE, pc |-> pc, depth |-> depth, mem |-> m]
          /\ w' \in Refreshed(pc, depth, m)
    BY <2>4, StopDoes
  <2> DEFINE d == IF Within(w, pc) THEN w ELSE Load(w, pc)
  <2>6. w' \in select_address(d, pc) /\ debuggee'.pc = pc
    BY <2>5 DEF Refreshed, UpdateLines
  <2>7. LinesInv(d) /\ (d.start_address = d.from => \E i \in DOMAIN d.lines : d.lines[i] = pc)
    BY <2>1, Updated
  <2> HIDE DEF d
  <2>8. d \in LineBoxes
    BY <2>7 DEF LinesInv
  <2>9. /\ w'.start_address = d.start_address /\ w'.from = d.from
        /\ (\E i \in DOMAIN d.lines : d.lines[i] = pc) =>
             \E i \in DOMAIN w'.lines :
               /\ w'.lines[i] = pc
               /\ w'.focused + 1 = i \/ (w'.focused + 1 < i /\ w'.lines[w'.focused + 1] = 0)
    BY <2>6, <2>7, <2>8, Selected
  <2> QED BY <2>6, <2>7, <2>9
<1> QED BY <1>1, WindowsAlways, PTL DEF Spec, StopIsFocused
====
