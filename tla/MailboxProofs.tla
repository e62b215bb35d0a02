----------------------------- MODULE MailboxProofs -----------------------------
(***************************************************************************)
(* Proofs about Mailbox, for any size, bytes, requests and length of the    *)
(* queue: the mailbox keeps its size, signals its data, and implements      *)
(* MailboxStore.                                                            *)
(***************************************************************************)
EXTENDS Mailbox, SequenceTheorems, WellFoundedInduction, TLAPS

\* A set of numbers that holds 0 and the successor of each member is all of Nat.
LEMMA Induction ==
    ASSUME NEW S, 0 \in S, \A n \in Nat : n \in S => n + 1 \in S
    PROVE  Nat \subseteq S
  <1> DEFINE T == Nat \ S
  <1>1. SUFFICES ASSUME T # {} PROVE FALSE
    OBVIOUS
  <1>2. PICK n \in T : \A m \in T : ~ (<<m, n>> \in OpToRel(<, Nat))
    <2>1. T \subseteq Nat
      OBVIOUS
    <2>2. QED
      BY <1>1, <2>1, NatLessThanWellFounded, WFMin
  <1>3. n \in Nat \ {0} /\ n - 1 \in Nat
    OBVIOUS
  <1>4. n - 1 \notin T
    <2>1. n - 1 \in T => ~ (n - 1 < n)
      <3>1. \A m \in T : ~ (m < n)
        BY <1>2, Zenon DEF OpToRel
      <3>2. QED
        BY <3>1
    <2>2. QED
      BY <1>3, <2>1
  <1>5. QED
    BY <1>3, <1>4

-----------------------------------------------------------------------------
(* Slice assignments.                                                       *)

\* A command that stays within a mailbox of some length, of bytes in S.
Fitting(S, n) == {c \in [offset : Nat, bytes : Seq(S)] : c.offset + Len(c.bytes) <= n}

\* Within the boundaries an assignment keeps the length, and changes exactly the
\* cells it covers.
LEMMA Assigned ==
    ASSUME NEW S, NEW d \in Seq(S), NEW c \in Fitting(S, Len(d))
    PROVE  /\ AssignSlice(d, c) \in Seq(S)
           /\ Len(AssignSlice(d, c)) = Len(d)
           /\ \A i \in 1 .. Len(d) : AssignSlice(d, c)[i] =
                 IF i > c.offset /\ i <= c.offset + Len(c.bytes) THEN c.bytes[i - c.offset] ELSE d[i]
  <1> DEFINE n == Len(d)
             o == c.offset
             b == c.bytes
             l == Len(b)
             m == o + l
             before == SubSeq(d, 1, o)
             behind == SubSeq(d, m + 1, n)
             front  == before \o b
  <1>1. /\ o \in Nat /\ b \in Seq(S) /\ l \in Nat /\ n \in Nat /\ m \in Nat /\ m <= n /\ m = o + l
        /\ \A i \in 1 .. n : d[i] \in S
    BY LenProperties, ElementOfSeq DEF Fitting
  <1>2. AssignSlice(d, c) = front \o behind
    BY DEF AssignSlice
  <1> HIDE DEF n, o, b, l, m
  <1>3. /\ before \in Seq(S) /\ Len(before) = o
        /\ \A i \in 1 .. o : before[i] = d[i]
    <2>1. \A i \in 1 .. o : d[i] \in S
      BY <1>1
    <2>2. /\ before \in Seq(S) /\ Len(before) = IF 1 <= o THEN o - 1 + 1 ELSE 0
          /\ \A i \in 1 .. o - 1 + 1 : before[i] = d[1 + i - 1]
      BY <1>1, <2>1, SubSeqProperties
    <2> HIDE DEF before
    <2>3. QED
      BY <1>1, <2>2
  <1>4. /\ behind \in Seq(S) /\ Len(behind) = n - m
        /\ \A i \in 1 .. n - m : behind[i] = d[m + i]
    <2>1. \A i \in m + 1 .. n : d[i] \in S
      BY <1>1
    <2>2. /\ behind \in Seq(S) /\ Len(behind) = IF m + 1 <= n THEN n - (m + 1) + 1 ELSE 0
          /\ \A i \in 1 .. n - (m + 1) + 1 : behind[i] = d[m + 1 + i - 1]
      BY <1>1, <2>1, SubSeqProperties
    <2> HIDE DEF behind
    <2>3. QED
      BY <1>1, <2>2
  <1> HIDE DEF before, behind
  <1>5. /\ front \in Seq(S) /\ Len(front) = m
        /\ \A i \in 1 .. m : front[i] = IF i <= o THEN before[i] ELSE b[i - o]
    <2>1. /\ front \in Seq(S) /\ Len(front) = Len(before) + Len(b)
          /\ \A i \in 1 .. Len(before) + Len(b) :
                front[i] = IF i <= Len(before) THEN before[i] ELSE b[i - Len(before)]
      BY <1>1, <1>3, ConcatProperties
    <2> HIDE DEF front
    <2>2. QED
      BY <1>1, <1>3, <2>1 DEF l
  <1> HIDE DEF front
  <1> DEFINE all == front \o behind
  <1>6. /\ all \in Seq(S) /\ Len(all) = n
        /\ \A i \in 1 .. n : all[i] = IF i <= m THEN front[i] ELSE behind[i - m]
    <2>1. /\ all \in Seq(S) /\ Len(all) = Len(front) + Len(behind)
          /\ \A i \in 1 .. Len(front) + Len(behind) :
                all[i] = IF i <= Len(front) THEN front[i] ELSE behind[i - Len(front)]
      BY <1>4, <1>5, ConcatProperties
    <2> HIDE DEF all
    <2>2. QED
      BY <1>1, <1>4, <1>5, <2>1
  <1> HIDE DEF all
  <1>7. \A i \in 1 .. n : all[i] = IF i > o /\ i <= m THEN b[i - o] ELSE d[i]
    <2> TAKE i \in 1 .. n
    <2>1. CASE i <= m
      BY <1>1, <1>3, <1>5, <1>6, <2>1
    <2>2. CASE i > m
      <3> DEFINE j == i - m
      <3>1. j \in 1 .. n - m /\ m + j = i
        BY <1>1, <2>2
      <3>2. all[i] = behind[j]
        BY <1>1, <1>6, <2>2
      <3> HIDE DEF j
      <3>3. behind[j] = d[i]
        BY <1>4, <3>1
      <3>4. QED
        BY <1>1, <2>2, <3>2, <3>3
    <2>3. QED
      BY <1>1, <2>1, <2>2
  <1>8. QED
    BY <1>2, <1>6, <1>7 DEF all, n, o, b, l, m

\* What data is after the first 0, 1, ... n of the commands.
Run(f, d, cs, n) ==
    f = [k \in 0 .. n |-> IF k = 0 THEN d ELSE AssignSlice(f[k - 1], cs[k])]

\* The recursive function of execute_commands exists.
LEMMA RunExists ==
    ASSUME NEW d, NEW cs
    PROVE  \A n \in Nat : \E f : Run(f, d, cs, n)
  <1> DEFINE S == {n \in Nat : \E f : Run(f, d, cs, n)}
  <1>1. 0 \in S
    <2>1. Run([k \in 0 .. 0 |-> d], d, cs, 0)
      BY DEF Run
    <2>2. QED
      BY <2>1
  <1>2. ASSUME NEW n \in Nat, n \in S PROVE n + 1 \in S
    <2>1. PICK f : Run(f, d, cs, n)
      BY <1>2
    <2> DEFINE g == [k \in 0 .. n + 1 |-> IF k = n + 1 THEN AssignSlice(f[n], cs[n + 1]) ELSE f[k]]
    <2>2. \A k \in 0 .. n : f[k] = IF k = 0 THEN d ELSE AssignSlice(f[k - 1], cs[k])
      BY <2>1 DEF Run
    <2>3. \A k \in 0 .. n + 1 : g[k] = IF k = 0 THEN d ELSE AssignSlice(g[k - 1], cs[k])
      <3> TAKE k \in 0 .. n + 1
      <3>1. CASE k = n + 1
        BY <3>1
      <3>2. CASE k # n + 1
        BY <2>2, <3>2
      <3>3. QED
        BY <3>1, <3>2
    <2>4. Run(g, d, cs, n + 1)
      BY <2>3, Zenon DEF Run
    <2>5. QED
      BY <2>4
  <1> HIDE DEF S
  <1>3. Nat \subseteq S
    BY <1>1, <1>2, Induction
  <1>4. QED
    BY <1>3 DEF S

\* execute_commands is a run over its queue.
LEMMA ExecutedIsRun ==
    ASSUME NEW d, NEW cs, Len(cs) \in Nat
    PROVE  \E f : Run(f, d, cs, Len(cs)) /\ Executed(d, cs) = f[Len(cs)]
  <1> DEFINE f == CHOOSE g : Run(g, d, cs, Len(cs))
  <1>1. Run(f, d, cs, Len(cs))
    BY RunExists
  <1>2. Executed(d, cs) = f[Len(cs)]
    BY Zenon DEF Executed, Run
  <1>3. QED
    BY <1>1, <1>2

\* Nothing is done without commands.
LEMMA ExecutedNothing ==
    ASSUME NEW d
    PROVE  Executed(d, <<>>) = d
  <1>1. Len(<<>>) = 0
    BY EmptySeq
  <1>2. PICK f : Run(f, d, <<>>, 0) /\ Executed(d, <<>>) = f[0]
    BY <1>1, ExecutedIsRun
  <1>3. f[0] = d
    BY <1>2 DEF Run
  <1>4. QED
    BY <1>2, <1>3

\* Commands that fit keep the length, however many there are.
LEMMA RunKeeps ==
    ASSUME NEW S, NEW d \in Seq(S), NEW cs \in Seq(Fitting(S, Len(d))), NEW f,
           Run(f, d, cs, Len(cs))
    PROVE  \A k \in 0 .. Len(cs) : f[k] \in Seq(S) /\ Len(f[k]) = Len(d)
  <1> DEFINE K == {k \in Nat : k <= Len(cs) => f[k] \in Seq(S) /\ Len(f[k]) = Len(d)}
  <1>1. Len(cs) \in Nat /\ \A k \in 1 .. Len(cs) : cs[k] \in Fitting(S, Len(d))
    BY LenProperties, ElementOfSeq
  <1>2. \A k \in 0 .. Len(cs) : f[k] = IF k = 0 THEN d ELSE AssignSlice(f[k - 1], cs[k])
    BY Zenon DEF Run
  <1>3. 0 \in K
    BY <1>1, <1>2
  <1>4. ASSUME NEW k \in Nat, k \in K PROVE k + 1 \in K
    <2> SUFFICES ASSUME k + 1 <= Len(cs)
                 PROVE  f[k + 1] \in Seq(S) /\ Len(f[k + 1]) = Len(d)
      OBVIOUS
    <2>1. /\ f[k + 1] = AssignSlice(f[k], cs[k + 1])
          /\ f[k] \in Seq(S) /\ Len(f[k]) = Len(d) /\ cs[k + 1] \in Fitting(S, Len(f[k]))
      BY <1>1, <1>2, <1>4
    <2>2. QED
      BY <2>1, Assigned
  <1> HIDE DEF K
  <1>5. Nat \subseteq K
    BY <1>3, <1>4, Induction
  <1>6. QED
    BY <1>1, <1>5 DEF K

\* execute_commands keeps the length and leaves bytes.
LEMMA ExecutedKeeps ==
    ASSUME NEW S, NEW d \in Seq(S), NEW cs \in Seq(Fitting(S, Len(d)))
    PROVE  Executed(d, cs) \in Seq(S) /\ Len(Executed(d, cs)) = Len(d)
  <1>1. Len(cs) \in Nat
    BY LenProperties
  <1>2. PICK f : Run(f, d, cs, Len(cs)) /\ Executed(d, cs) = f[Len(cs)]
    BY <1>1, ExecutedIsRun
  <1>3. QED
    BY <1>1, <1>2, RunKeeps

\* Two queues one after the other do what the queue of both does.
LEMMA ExecutedInParts ==
    ASSUME NEW d, NEW C, NEW cs \in Seq(C), NEW more \in Seq(C)
    PROVE  Executed(d, cs \o more) = Executed(Executed(d, cs), more)
  <1> DEFINE n == Len(cs)
             m == Len(more)
             both == cs \o more
             e == Executed(d, cs)
  <1>1. /\ n \in Nat /\ m \in Nat /\ Len(both) = n + m
        /\ \A k \in 1 .. n : both[k] = cs[k]
        /\ \A k \in 1 .. m : both[n + k] = more[k]
    <2>1. n \in Nat /\ m \in Nat
      BY LenProperties
    <2>2. /\ Len(both) = n + m
          /\ \A k \in 1 .. n + m : both[k] = IF k <= n THEN cs[k] ELSE more[k - n]
      BY ConcatProperties
    <2> HIDE DEF n, m, both
    <2>3. QED
      BY <2>1, <2>2
  <1>2. PICK f : Run(f, d, cs, n) /\ e = f[n]
    BY <1>1, ExecutedIsRun
  <1>3. PICK g : Run(g, e, more, m) /\ Executed(e, more) = g[m]
    BY <1>1, ExecutedIsRun
  <1>4. PICK h : Run(h, d, both, Len(both)) /\ Executed(d, both) = h[Len(both)]
    <2>1. Len(both) \in Nat
      BY <1>1
    <2> HIDE DEF both
    <2>2. QED
      BY <2>1, ExecutedIsRun
  <1> HIDE DEF n, m, both, e
  <1>5. /\ \A k \in 0 .. n : f[k] = IF k = 0 THEN d ELSE AssignSlice(f[k - 1], cs[k])
        /\ \A k \in 0 .. m : g[k] = IF k = 0 THEN e ELSE AssignSlice(g[k - 1], more[k])
        /\ \A k \in 0 .. n + m : h[k] = IF k = 0 THEN d ELSE AssignSlice(h[k - 1], both[k])
    BY <1>1, <1>2, <1>3, <1>4 DEF Run
  <1> DEFINE F == {k \in Nat : k <= n => h[k] = f[k]}
             G == {k \in Nat : k <= m => h[n + k] = g[k]}
  <1>6. h[n] = f[n]
    <2>1. 0 \in F
      BY <1>1, <1>5
    <2>2. ASSUME NEW k \in Nat, k \in F PROVE k + 1 \in F
      <3> SUFFICES ASSUME k + 1 <= n PROVE h[k + 1] = f[k + 1]
        OBVIOUS
      <3>1. k + 1 \in 0 .. n /\ k + 1 \in 0 .. n + m /\ k + 1 \in 1 .. n /\ (k + 1) - 1 = k
            /\ k + 1 # 0
        BY <1>1
      <3>2. h[k + 1] = AssignSlice(h[k], cs[k + 1]) /\ f[k + 1] = AssignSlice(f[k], cs[k + 1])
        BY <1>1, <1>5, <3>1
      <3>3. QED
        BY <1>1, <2>2, <3>1, <3>2
    <2> HIDE DEF F
    <2>3. n \in F
      BY <1>1, <2>1, <2>2, Induction
    <2>4. QED
      BY <1>1, <2>3 DEF F
  <1>7. h[n + m] = g[m]
    <2>1. 0 \in G
      BY <1>1, <1>2, <1>5, <1>6
    <2>2. ASSUME NEW k \in Nat, k \in G PROVE k + 1 \in G
      <3> SUFFICES ASSUME k + 1 <= m PROVE h[n + (k + 1)] = g[k + 1]
        OBVIOUS
      <3>1. k + 1 \in 0 .. m /\ n + (k + 1) \in 0 .. n + m /\ k + 1 \in 1 .. m
            /\ (k + 1) - 1 = k /\ k + 1 # 0 /\ (n + (k + 1)) - 1 = n + k /\ n + (k + 1) # 0
        BY <1>1
      <3>2. h[n + (k + 1)] = AssignSlice(h[n + k], more[k + 1])
            /\ g[k + 1] = AssignSlice(g[k], more[k + 1])
        BY <1>1, <1>5, <3>1
      <3>3. QED
        BY <1>1, <2>2, <3>1, <3>2
    <2> HIDE DEF G
    <2>3. m \in G
      BY <1>1, <2>1, <2>2, Induction
    <2>4. QED
      BY <1>1, <2>3 DEF G
  <1>8. QED
    BY <1>1, <1>3, <1>4, <1>7 DEF both, e

-----------------------------------------------------------------------------
(* Which command a cell is of.                                              *)

\* A non-empty set of numbers up to n has a greatest one.
LEMMA Greatest ==
    \A n \in Nat : \A T \in SUBSET (1 .. n) : T # {} => \E x \in T : \A y \in T : x >= y
  <1> DEFINE S == {n \in Nat : \A T \in SUBSET (1 .. n) :
                                T # {} => \E x \in T : \A y \in T : x >= y}
  <1>1. 0 \in S
    <2>1. 1 .. 0 = {}
      OBVIOUS
    <2>2. QED
      BY <2>1
  <1>2. ASSUME NEW n \in Nat, n \in S PROVE n + 1 \in S
    <2> SUFFICES ASSUME NEW T \in SUBSET (1 .. n + 1), T # {}
                 PROVE  \E x \in T : \A y \in T : x >= y
      OBVIOUS
    <2>1. CASE n + 1 \in T
      BY <2>1
    <2>2. CASE n + 1 \notin T
      <3>1. T \in SUBSET (1 .. n)
        BY <2>2
      <3>2. QED
        BY <1>2, <3>1
    <2>3. QED
      BY <2>1, <2>2
  <1> HIDE DEF S
  <1>3. Nat \subseteq S
    BY <1>1, <1>2, Induction
  <1>4. QED
    BY <1>3 DEF S

Covers(c, i) == i > c.offset /\ i <= c.offset + Len(c.bytes)

\* A cell has the byte of the last command that covers it, if there is one.
LEMMA LastCommandWins ==
    ASSUME NEW S, NEW d \in Seq(S), NEW cs \in Seq(Fitting(S, Len(d))), NEW i \in 1 .. Len(d)
    PROVE  /\ (\A k \in 1 .. Len(cs) : ~ Covers(cs[k], i)) => Executed(d, cs)[i] = d[i]
           /\ \A k \in 1 .. Len(cs) :
                 Covers(cs[k], i) /\ (\A j \in k + 1 .. Len(cs) : ~ Covers(cs[j], i))
                    => Executed(d, cs)[i] = cs[k].bytes[i - cs[k].offset]
  <1>1. Len(cs) \in Nat /\ \A k \in 1 .. Len(cs) : cs[k] \in Fitting(S, Len(d))
    BY LenProperties, ElementOfSeq
  <1>2. PICK f : Run(f, d, cs, Len(cs)) /\ Executed(d, cs) = f[Len(cs)]
    BY <1>1, ExecutedIsRun
  <1>3. /\ \A k \in 0 .. Len(cs) : f[k] = IF k = 0 THEN d ELSE AssignSlice(f[k - 1], cs[k])
        /\ \A k \in 0 .. Len(cs) : f[k] \in Seq(S) /\ Len(f[k]) = Len(d)
    <2>1. \A k \in 0 .. Len(cs) : f[k] = IF k = 0 THEN d ELSE AssignSlice(f[k - 1], cs[k])
      BY <1>2, Zenon DEF Run
    <2>2. \A k \in 0 .. Len(cs) : f[k] \in Seq(S) /\ Len(f[k]) = Len(d)
      BY <1>2, RunKeeps
    <2>3. QED
      BY <2>1, <2>2
  <1> DEFINE P(n) == /\ (\A k \in 1 .. n : ~ Covers(cs[k], i)) => f[n][i] = d[i]
                     /\ \A k \in 1 .. n :
                           Covers(cs[k], i) /\ (\A j \in k + 1 .. n : ~ Covers(cs[j], i))
                              => f[n][i] = cs[k].bytes[i - cs[k].offset]
             K == {n \in Nat : n <= Len(cs) => P(n)}
  <1>4. 0 \in K
    BY <1>1, <1>3
  <1>5. ASSUME NEW n \in Nat, n \in K PROVE n + 1 \in K
    <2> HIDE DEF P
    <2> SUFFICES ASSUME n + 1 <= Len(cs) PROVE P(n + 1)
      OBVIOUS
    <2>1. P(n)
      BY <1>1, <1>5
    <2> USE DEF P
    <2>2. /\ f[n + 1] = AssignSlice(f[n], cs[n + 1])
          /\ f[n] \in Seq(S) /\ cs[n + 1] \in Fitting(S, Len(f[n])) /\ i \in 1 .. Len(f[n])
      BY <1>1, <1>3
    <2>3. f[n + 1][i] = IF Covers(cs[n + 1], i) THEN cs[n + 1].bytes[i - cs[n + 1].offset]
                        ELSE f[n][i]
      <3>1. PICK g \in Seq(S) : g = f[n] /\ f[n + 1] = AssignSlice(g, cs[n + 1]) /\ i \in 1 .. Len(g)
        BY <2>2
      <3>2. PICK c \in Fitting(S, Len(g)) : c = cs[n + 1]
        BY <2>2, <3>1
      <3>3. AssignSlice(g, c)[i] = IF i > c.offset /\ i <= c.offset + Len(c.bytes)
                                   THEN c.bytes[i - c.offset] ELSE g[i]
        BY <3>1, Assigned
      <3>4. QED
        BY <3>1, <3>2, <3>3 DEF Covers
    <2>4. CASE Covers(cs[n + 1], i)
      <3>1. \A k \in 1 .. n + 1 : (\A j \in k + 1 .. n + 1 : ~ Covers(cs[j], i)) => k = n + 1
        BY <2>4
      <3>2. QED
        BY <2>3, <2>4, <3>1
    <2>5. CASE ~ Covers(cs[n + 1], i)
      <3>1. f[n + 1][i] = f[n][i]
        BY <2>3, <2>5
      <3>2. \A k \in 1 .. n + 1 : Covers(cs[k], i) => k \in 1 .. n
        BY <2>5
      <3>3. \A k \in 1 .. n : \A j \in k + 1 .. n : j \in k + 1 .. n + 1
        OBVIOUS
      <3>4. QED
        BY <2>1, <3>1, <3>2, <3>3
    <2>6. QED
      BY <2>4, <2>5
  <1> HIDE DEF K
  <1>6. Len(cs) \in K
    BY <1>1, <1>4, <1>5, Induction
  <1>7. P(Len(cs))
    BY <1>1, <1>6 DEF K
  <1>8. QED
    BY <1>2, <1>7

-----------------------------------------------------------------------------
(* The invariant.                                                           *)

\* What was within the boundaries when it was queued stays within them, since
\* the mailbox keeps its size; and data that was never marked is all zeros.
MailboxInv ==
    /\ data \in Seq(Byte) /\ Len(data) = Size /\ data_set \in BOOLEAN
    /\ started \in BOOLEAN /\ commands \in Seq(Fitting(Byte, Size))
    /\ started \/ commands = <<>>
    /\ phase \in Phases /\ request \in Requests \cup {None}
    /\ data_set \/ \A i \in 1 .. Size : data[i] = 0

\* What a request has of a kind is a sequence, no longer than the bound.
LEMMA UpToIsSeq ==
    ASSUME NEW n \in Nat, NEW S, NEW s \in UpTo(n, S)
    PROVE  s \in Seq(S) /\ Len(s) \in 0 .. n
  <1>1. PICK k \in 0 .. n : s \in [1 .. k -> S]
    BY DEF UpTo
  <1>2. QED
    BY <1>1

\* A mailbox that has just been created satisfies the invariant.
LEMMA InitInv == Init => MailboxInv
  <1> SUFFICES ASSUME Init PROVE MailboxInv
    OBVIOUS
  <1>1. data \in Seq(Byte) /\ Len(data) = Size
    BY MailboxAssumption DEF Init
  <1>2. commands \in Seq(Fitting(Byte, Size))
    BY EmptySeq DEF Init
  <1>3. data_set \in BOOLEAN
    BY DEF Init
  <1>4. QED
    BY <1>1, <1>2, <1>3 DEF Init, MailboxInv, Phases

\* What the sets and writes of a request within the boundaries are queued as.
LEMMA QueuedFits ==
    ASSUME Len(data) = Size, NEW r \in Requests, Bounded(r)
    PROVE  Queued(r) \in Seq(Fitting(Byte, Size))
  <1> DEFINE sets == [k \in 1 .. Len(r.sets) |-> Filling(r.sets[k])]
  <1>1. /\ r.sets \in Seq(Sets) /\ Len(r.sets) \in Nat
        /\ r.writes \in Seq(Writes) /\ Len(r.writes) \in Nat
    <2>1. r.sets \in UpTo(MaxRequests, Sets) /\ r.writes \in UpTo(MaxRequests, Writes)
      BY DEF Requests
    <2>2. QED
      BY <2>1, UpToIsSeq, MailboxAssumption, LenProperties
  <1>2. ASSUME NEW k \in 1 .. Len(r.sets) PROVE Filling(r.sets[k]) \in Fitting(Byte, Size)
    <2>1. r.sets[k] \in Sets
      BY <1>1, ElementOfSeq
    <2>2. /\ r.sets[k].offset \in Nat /\ r.sets[k].length \in Nat /\ r.sets[k].value \in Byte
          /\ Size >= r.sets[k].offset + r.sets[k].length
      BY <2>1, MailboxAssumption DEF Bounded, InBoundaries
    <2> DEFINE bytes == [i \in 1 .. r.sets[k].length |-> r.sets[k].value]
    <2>3. bytes \in Seq(Byte) /\ Len(bytes) = r.sets[k].length
      BY <2>2
    <2>4. QED
      BY <2>2, <2>3 DEF Filling, Fitting
  <1>3. sets \in Seq(Fitting(Byte, Size))
    BY <1>1, <1>2
  <1>4. r.writes \in Seq(Fitting(Byte, Size))
    <2>1. ASSUME NEW k \in 1 .. Len(r.writes) PROVE r.writes[k] \in Fitting(Byte, Size)
      <3>1. r.writes[k] \in Writes
        BY <1>1, ElementOfSeq
      <3> DEFINE w == r.writes[k]
      <3>2. /\ w = [offset |-> w.offset, bytes |-> w.bytes]
            /\ w.offset \in Nat /\ w.bytes \in Seq(Byte)
        BY <3>1, MailboxAssumption
      <3>3. w.offset + Len(w.bytes) <= Size
        BY <3>2, LenProperties, MailboxAssumption DEF Bounded, InBoundaries
      <3> HIDE DEF w
      <3>4. w \in Fitting(Byte, Size)
        BY <3>2, <3>3 DEF Fitting
      <3>5. QED
        BY <3>4 DEF w
    <2>2. r.writes \in [1 .. Len(r.writes) -> Fitting(Byte, Size)]
      BY <1>1, <2>1, LenProperties
    <2>3. QED
      BY <1>1, <2>2
  <1>5. QED
    BY <1>3, <1>4, ConcatProperties DEF Queued

\* Both ways an EXCHANGE updates the mailbox or the queue.
LEMMA UpdateKeeps ==
    ASSUME MailboxInv, NEW r \in Requests, Bounded(r), Update(r)
    PROVE  /\ data' \in Seq(Byte) /\ Len(data') = Size /\ data_set' \in BOOLEAN
           /\ started' \in BOOLEAN /\ commands' \in Seq(Fitting(Byte, Size))
           /\ started' \/ commands' = <<>>
           /\ data_set' \/ \A i \in 1 .. Size : data'[i] = 0
  <1>1. Queued(r) \in Seq(Fitting(Byte, Size))
    BY QueuedFits DEF MailboxInv
  <1>2. commands \o Queued(r) \in Seq(Fitting(Byte, Size))
    BY <1>1, ConcatProperties DEF MailboxInv
  <1>3. CASE r.atomic
    BY <1>2, <1>3 DEF MailboxInv, Update, mailbox
  <1>4. CASE ~ r.atomic
    <2> DEFINE cs == IF started THEN commands \o Queued(r) ELSE Queued(r)
    <2>1. cs \in Seq(Fitting(Byte, Len(data)))
      BY <1>1, <1>2 DEF MailboxInv
    <2>2. data' = Executed(data, cs) /\ data_set' = Marked(cs)
      BY <1>4 DEF Update
    <2>3. data' \in Seq(Byte) /\ Len(data') = Size
      BY <2>1, <2>2, ExecutedKeeps DEF MailboxInv
    <2>4. data_set' \/ \A i \in 1 .. Size : data'[i] = 0
      <3>1. CASE cs = <<>>
        BY <2>2, <3>1, ExecutedNothing DEF Marked, MailboxInv
      <3>2. CASE cs # <<>>
        BY <2>2, <3>2 DEF Marked
      <3>3. QED
        BY <3>1, <3>2
    <2>5. data_set' \in BOOLEAN
      BY <2>2 DEF Marked, MailboxInv
    <2>6. /\ started' \in BOOLEAN /\ commands' \in Seq(Fitting(Byte, Size))
          /\ started' \/ commands' = <<>>
      BY <1>4, EmptySeq DEF Update, Stop, queue, MailboxInv
    <2>7. QED
      BY <2>3, <2>4, <2>5, <2>6
  <1>5. QED
    BY <1>3, <1>4

\* An EXCHANGE with mailbox commands preserves the invariant.
LEMMA ExchangeKeeps ==
    ASSUME MailboxInv, NEW r \in Requests, Exchange(r)
    PROVE  MailboxInv'
  <1>1. /\ data' \in Seq(Byte) /\ Len(data') = Size /\ data_set' \in BOOLEAN
        /\ started' \in BOOLEAN /\ commands' \in Seq(Fitting(Byte, Size))
        /\ started' \/ commands' = <<>>
        /\ data_set' \/ \A i \in 1 .. Size : data'[i] = 0
    BY UpdateKeeps DEF Exchange
  <1>2. phase' \in Phases /\ request' = r
    BY DEF Exchange, Phases, MailboxInv
  <1>3. QED
    BY <1>1, <1>2 DEF MailboxInv

\* The other steps leave the mailbox and the queue alone.
LEMMA OthersKeep ==
    ASSUME MailboxInv,
           Authenticated \/ Envelope \/ EndSession \/ ExchangeRefused \/ ExchangeWithout
    PROVE  MailboxInv' /\ Nothing /\ UNCHANGED <<mailbox, queue>>
  <1>1. /\ Nothing /\ UNCHANGED <<mailbox, queue>> /\ phase' \in Phases
    BY DEF Authenticated, Envelope, EndSession, ExchangeRefused, ExchangeWithout, Phases, MailboxInv
  <1>2. QED
    BY <1>1 DEF Nothing, mailbox, queue, MailboxInv

\* The invariant holds in every reachable state of the mailbox.
THEOREM MailboxInvariant == Spec => []MailboxInv
  <1>1. MailboxInv /\ [Next]_vars => MailboxInv'
    <2> SUFFICES ASSUME MailboxInv, [Next]_vars PROVE MailboxInv'
      OBVIOUS
    <2>1. CASE Next
      BY <2>1, ExchangeKeeps, OthersKeep DEF Next
    <2>2. CASE UNCHANGED vars
      BY <2>2 DEF vars, mailbox, queue, MailboxInv
    <2>3. QED
      BY <2>1, <2>2
  <1>2. QED
    BY InitInv, <1>1, PTL DEF Spec

\* The mailbox never grows or shrinks, although a commit checks no boundaries.
THEOREM KeepsSize == Spec => []SizeKept
  <1>1. MailboxInv => SizeKept
    BY DEF MailboxInv, SizeKept
  <1>2. QED
    BY <1>1, MailboxInvariant, PTL

\* The signaling bitmap tells of data exactly when there is some.
THEOREM DataSignaled == Spec => []SignalsData
  <1>1. MailboxInv => SignalsData
    BY DEF MailboxInv, SignalsData, DataIsSet
  <1>2. QED
    BY <1>1, MailboxInvariant, PTL

\* Data are bytes, and the queue of a session holds commands within the mailbox.
THEOREM TypeCorrect == Spec => []TypeOK
  <1>1. MailboxInv => TypeOK
    <2> SUFFICES ASSUME MailboxInv PROVE TypeOK
      OBVIOUS
    <2>1. data \in UpTo(2 * Size, Byte)
      <3>1. data \in [1 .. Size -> Byte] /\ Size \in 0 .. 2 * Size
        BY MailboxAssumption, LenProperties DEF MailboxInv
      <3>2. QED
        BY <3>1 DEF UpTo
    <2>2. commands \in Seq(Commands)
      <3>1. ASSUME NEW c \in Fitting(Byte, Size) PROVE c \in Commands
        <4>1. /\ c \in [offset : Nat, bytes : Seq(Byte)]
              /\ c.offset \in Nat /\ c.bytes \in Seq(Byte) /\ Len(c.bytes) \in Nat
              /\ c.offset + Len(c.bytes) <= Size
          BY LenProperties DEF Fitting
        <4>2. c.offset \in 0 .. Size /\ Len(c.bytes) \in 0 .. Size
          BY <4>1, MailboxAssumption
        <4>3. c.bytes \in UpTo(Size, Byte)
          BY <4>1, <4>2, LenProperties DEF UpTo
        <4>4. QED
          BY <4>1, <4>2, <4>3 DEF Commands
      <3>2. QED
        BY <3>1, SeqMonotonic DEF MailboxInv
    <2>3. QED
      BY <2>1, <2>2 DEF MailboxInv, TypeOK
  <1>2. QED
    BY <1>1, MailboxInvariant, PTL

-----------------------------------------------------------------------------
(* The refinement.                                                          *)

\* A queue followed by the commands of a request makes of the mailbox what the
\* request has as its effect on the shadow copy.
LEMMA EffectOfRequest ==
    ASSUME MailboxInv, NEW r \in Requests, Bounded(r)
    PROVE  Store!Effect(r) = Executed(data, commands \o Queued(r))
  <1> DEFINE shadow == Executed(data, commands)
             q      == Queued(r)
             all    == Executed(data, commands \o q)
  <1>1. q \in Seq(Fitting(Byte, Size)) /\ Len(q) \in Nat
    BY QueuedFits, LenProperties DEF MailboxInv
  <1>2. shadow \in Seq(Byte) /\ Len(shadow) = Size
    BY ExecutedKeeps DEF MailboxInv
  <1>3. all = Executed(shadow, q)
    BY <1>1, ExecutedInParts DEF MailboxInv
  <1>4. all \in Seq(Byte) /\ Len(all) = Size
    BY <1>1, <1>2, <1>3, ExecutedKeeps
  <1>5. Store!Updates(r) = q
    BY DEF Store!Updates, Queued, Filling
  <1> HIDE DEF q
  <1> DEFINE covering(i) == {k \in 1 .. Len(q) : Covers(q[k], i)}
             effect == [i \in 1 .. Size |->
                           IF covering(i) = {} THEN shadow[i]
                           ELSE q[Store!Max(covering(i))].bytes[i - q[Store!Max(covering(i))].offset]]
  <1>6. Store!Effect(r) = effect
    BY <1>5 DEF Store!Effect, Covers
  <1>7. ASSUME NEW i \in 1 .. Size PROVE all[i] = effect[i]
    <2> HIDE DEF shadow, all
    <2> DEFINE k == Store!Max(covering(i))
    <2>1. /\ q \in Seq(Fitting(Byte, Len(shadow))) /\ i \in 1 .. Len(shadow)
          /\ shadow \in Seq(Byte)
      BY <1>1, <1>2
    <2>2. CASE covering(i) = {}
      <3>1. Executed(shadow, q)[i] = shadow[i]
        BY <2>1, <2>2, LastCommandWins
      <3>2. QED
        BY <1>3, <2>2, <3>1
    <2>3. CASE covering(i) # {}
      <3>1. \E x \in covering(i) : \A y \in covering(i) : x >= y
        BY <1>1, <2>3, Greatest
      <3>2. k \in covering(i) /\ \A y \in covering(i) : k >= y
        BY <3>1, Zenon DEF Store!Max
      <3>3. effect[i] = q[k].bytes[i - q[k].offset]
        BY <2>3
      <3> HIDE DEF k
      <3>4. k \in 1 .. Len(q) /\ Covers(q[k], i) /\ \A j \in k + 1 .. Len(q) : ~ Covers(q[j], i)
        BY <1>1, <3>2
      <3>5. Executed(shadow, q)[i] = q[k].bytes[i - q[k].offset]
        BY <2>1, <3>4, LastCommandWins
      <3>6. QED
        BY <1>3, <3>3, <3>5
    <2>4. QED
      BY <2>2, <2>3
  <1>8. all \in [1 .. Size -> Byte]
    BY <1>4, LenProperties
  <1> HIDE DEF all, shadow
  <1>9. all = effect
    BY <1>7, <1>8
  <1>10. QED
    BY <1>6, <1>9 DEF all, q

\* What is read is what is committed.
LEMMA ReadIsSlice ==
    ASSUME MailboxInv, NEW r \in Requests, Bounded(r), NEW k \in 1 .. Len(r.reads)
    PROVE  ReadSlice(r.reads[k]) = Store!Slice(r.reads[k])
  <1>1. r.reads[k] \in Reads
    <2>1. r.reads \in Seq(Reads)
      BY UpToIsSeq, MailboxAssumption DEF Requests
    <2>2. QED
      BY <2>1, ElementOfSeq
  <1> DEFINE o == r.reads[k].offset
             l == r.reads[k].length
             s == SubSeq(data, o + 1, o + l)
  <1>2. o \in Nat /\ l \in Nat /\ o + l <= Size
    BY <1>1, MailboxAssumption DEF Bounded, InBoundaries, MailboxInv
  <1>3. ReadSlice(r.reads[k]) = s /\ Store!Slice(r.reads[k]) = [i \in 1 .. l |-> data[o + i]]
    BY DEF ReadSlice, Store!Slice
  <1> HIDE DEF o, l
  <1>4. \A i \in o + 1 .. o + l : data[i] \in Byte
    BY <1>2, ElementOfSeq DEF MailboxInv
  <1>5. /\ s \in Seq(Byte)
        /\ Len(s) = IF o + 1 <= o + l THEN (o + l) - (o + 1) + 1 ELSE 0
        /\ \A i \in 1 .. (o + l) - (o + 1) + 1 : s[i] = data[(o + 1) + i - 1]
    BY <1>2, <1>4, SubSeqProperties
  <1> HIDE DEF s
  <1>6. Len(s) = l /\ \A i \in 1 .. l : s[i] = data[o + i]
    BY <1>2, <1>5
  <1>7. s \in [1 .. l -> Byte]
    BY <1>5, <1>6, LenProperties
  <1>8. QED
    BY <1>3, <1>6, <1>7

\* An EXCHANGE with mailbox commands is one step of MailboxStore.
LEMMA ExchangeServes ==
    ASSUME MailboxInv, NEW r \in Requests, Exchange(r)
    PROVE  Store!Serve(r)
  <1>1. Bounded(r) /\ Update(r) /\ request' = r
    BY DEF Exchange
  <1>2. answer' \in {[k \in 1 .. Len(r.reads) |-> Store!Slice(r.reads[k])], None}
    <2>1. [k \in 1 .. Len(r.reads) |-> Store!Slice(r.reads[k])]
            = [k \in 1 .. Len(r.reads) |-> ReadSlice(r.reads[k])]
      BY <1>1, ReadIsSlice
    <2>2. QED
      BY <2>1, Zenon DEF Exchange
  <1>3. Store!Effect(r) = Executed(data, commands \o Queued(r))
    BY <1>1, EffectOfRequest
  <1>4. CASE r.atomic
    <2>1. data' = data /\ commands' = commands \o Queued(r)
      BY <1>1, <1>4 DEF Update, mailbox
    <2>2. QED
      BY <1>1, <1>2, <1>3, <1>4, <2>1 DEF Store!Serve
  <1>5. CASE ~ r.atomic
    <2>1. data' = Executed(data, commands \o Queued(r))
      <3>1. CASE started
        BY <1>1, <1>5, <3>1 DEF Update
      <3>2. CASE ~ started
        <4>1. commands \o Queued(r) = Queued(r)
          BY <1>1, <3>2, QueuedFits, ConcatEmptySeq DEF MailboxInv
        <4>2. QED
          BY <1>1, <1>5, <3>2, <4>1 DEF Update
      <3>3. QED
        BY <3>1, <3>2
    <2>2. commands' = <<>>
      BY <1>1, <1>5 DEF Update, Stop, queue, MailboxInv
    <2>3. Executed(data', commands') = data'
      BY <2>2, ExecutedNothing
    <2>4. QED
      BY <1>1, <1>2, <1>3, <1>5, <2>1, <2>3 DEF Store!Serve
  <1>6. QED
    BY <1>4, <1>5

\* The queue of slice assignments, carried out in one transaction or in several,
\* implements the cells and the shadow copy of MailboxStore.
THEOREM MailboxImplementsStore == Spec => ImplementsStore
  <1>1. Init => Store!Init
    <2> SUFFICES ASSUME Init PROVE Store!Init
      OBVIOUS
    <2>1. Executed(data, commands) = data
      BY ExecutedNothing DEF Init
    <2>2. QED
      BY <2>1 DEF Init, Store!Init
  <1>2. MailboxInv /\ [Next]_vars => [Store!Next]_(Store!vars)
    <2> SUFFICES ASSUME MailboxInv, [Next]_vars PROVE [Store!Next]_(Store!vars)
      OBVIOUS
    <2>1. CASE \E r \in Requests : Exchange(r)
      BY <2>1, ExchangeServes DEF Store!Next
    <2>2. CASE Authenticated \/ Envelope \/ EndSession \/ ExchangeRefused \/ ExchangeWithout
      BY <2>2, OthersKeep DEF Nothing, mailbox, queue, Store!Next, Store!Other
    <2>3. CASE UNCHANGED vars
      BY <2>3 DEF vars, mailbox, queue, Store!vars
    <2>4. QED
      BY <2>1, <2>2, <2>3 DEF Next
  <1>3. QED
    BY <1>1, <1>2, MailboxInvariant, PTL DEF Spec, ImplementsStore, Store!Spec
=============================================================================
