--------------------------- MODULE SpyCursorProofs ---------------------------
(***************************************************************************)
(* What a client that follows the traffic with ?since=<seq> is given, for  *)
(* every capacity, every set of messages, clients and filters: proofs of   *)
(* the properties of SpyCursor, and that it implements CaptureLog.         *)
(***************************************************************************)
EXTENDS SpyCursor, FiniteSetTheorems, SequenceTheorems, WellFoundedInduction, TLAPS

-----------------------------------------------------------------------------
(* Pick, by induction over the length, in the form of least elements.      *)

(* A set of natural numbers has a least element. *)
LEMMA LeastNat ==
  ASSUME NEW T, T \subseteq Nat, T # {}
  PROVE  \E m \in T : \A k \in T : m <= k
<1> DEFINE R == OpToRel(<, Nat)
<1>1. IsWellFoundedOn(R, Nat)
  BY NatLessThanWellFounded
<1>2. \A a, b \in Nat : a < b => <<a, b>> \in R
  BY DEF OpToRel
<1> HIDE DEF R
<1>3. PICK m \in T : \A k \in T : ~ (<<k, m>> \in R)
  BY <1>1, WFMin
<1>4. \A k \in T : m <= k
  <2> SUFFICES ASSUME NEW k \in T, ~ (m <= k)
               PROVE  FALSE
    OBVIOUS
  <2>1. m \in Nat /\ k \in Nat /\ k < m
    OBVIOUS
  <2> QED BY <2>1, <1>2, <1>3
<1> QED BY <1>3, <1>4

(* The recursion of Pick, as an equation for the table of its prefixes. *)
PickStep(f, s, I, n) ==
  IF n = 0 THEN <<>>
  ELSE IF n \in I THEN Append(f[n - 1], s[n]) ELSE f[n - 1]

PickTable(f, s, I, m) == f = [n \in 0..m |-> PickStep(f, s, I, n)]

LEMMA PickIsTable ==
  ASSUME NEW s, NEW I
  PROVE  Pick(s, I) = (CHOOSE f : PickTable(f, s, I, Len(s)))[Len(s)]
BY DEF Pick, PickTable, PickStep

LEMMA PickTableEntry ==
  ASSUME NEW s, NEW I, NEW m \in Nat, NEW f, PickTable(f, s, I, m), NEW a \in 0..m
  PROVE  f[a] = PickStep(f, s, I, a)
<1> DEFINE P(n) == PickStep(f, s, I, n)
<1>1. f = [n \in 0..m |-> P(n)]
  BY DEF PickTable
<1> HIDE DEF P
<1>2. f[a] = P(a)
  BY <1>1
<1> QED BY <1>2 DEF P

(* The equation has a solution, which a longer prefix extends. *)
LEMMA PickTableExists ==
  ASSUME NEW s, NEW I, NEW m \in Nat
  PROVE  \E f : PickTable(f, s, I, m)
<1> DEFINE Bad == {n \in Nat : ~ \E f : PickTable(f, s, I, n)}
<1> SUFFICES Bad = {}
  OBVIOUS
<1> SUFFICES ASSUME Bad # {} PROVE FALSE
  OBVIOUS
<1>1. PICK n \in Bad : \A k \in Bad : n <= k
  <2>1. Bad \subseteq Nat
    OBVIOUS
  <2> HIDE DEF Bad
  <2> QED BY <2>1, LeastNat
<1>2. n \in Nat /\ ~ \E f : PickTable(f, s, I, n)
  OBVIOUS
<1>3. n = 0 \/ \E f : PickTable(f, s, I, n - 1)
  BY <1>1, <1>2
<1>4. PICK g : n = 0 \/ PickTable(g, s, I, n - 1)
  BY <1>3
<1> DEFINE f == [a \in 0..n |-> IF a = n THEN PickStep(g, s, I, n) ELSE g[a]]
<1>5. ASSUME NEW a \in 0..n
      PROVE  f[a] = PickStep(f, s, I, a)
  <2>1. CASE a = 0
    <3>1. PickStep(f, s, I, a) = <<>> /\ PickStep(g, s, I, a) = <<>>
      BY <2>1 DEF PickStep
    <3>2. a # n => g[a] = PickStep(g, s, I, a)
      BY <1>2, <1>4, PickTableEntry
    <3> QED BY <3>1, <3>2
  <2>2. CASE a # 0
    <3>1. a - 1 \in 0..n /\ a - 1 # n /\ n # 0
      BY <1>2, <2>2
    <3>2. f[a - 1] = g[a - 1]
      BY <3>1
    <3>3. PickStep(f, s, I, a) = PickStep(g, s, I, a)
      BY <2>2, <3>2 DEF PickStep
    <3>4. a # n => g[a] = PickStep(g, s, I, a)
      BY <1>2, <1>4, <3>1, PickTableEntry
    <3> QED BY <3>3, <3>4
  <2> QED BY <2>1, <2>2
<1>6. PickTable(f, s, I, n)
  <2> DEFINE P(a) == PickStep(f, s, I, a)
  <2>1. DOMAIN f = 0..n /\ f = [a \in 0..n |-> f[a]]
    OBVIOUS
  <2>2. \A a \in 0..n : f[a] = P(a)
    BY <1>5
  <2> HIDE DEF f, P
  <2>3. f = [a \in 0..n |-> P(a)]
    BY <2>1, <2>2
  <2> QED BY <2>3 DEF PickTable, P
<1> QED BY <1>2, <1>6

(* What is picked: the elements at the positions idx, which are all those  *)
(* asked for, each once and in ascending order.                            *)
Picks(t, s, I, idx) ==
  /\ idx \in [1..Len(t) -> I]
  /\ \A i, j \in 1..Len(t) : i < j => idx[i] < idx[j]
  /\ \A x \in I : \E i \in 1..Len(t) : idx[i] = x
  /\ \A i \in 1..Len(t) : t[i] = s[idx[i]]

LEMMA PicksAppended ==
  ASSUME NEW S, NEW s, NEW t \in Seq(S), NEW I \in SUBSET Nat, NEW n \in Nat,
         \A i \in I : i < n, NEW idx, Picks(t, s, I, idx)
  PROVE  \E ext : Picks(Append(t, s[n]), s, I \cup {n}, ext)
<1> DEFINE k == Len(t)
           u == Append(t, s[n])
           ext == [h \in 1..(k + 1) |-> IF h = k + 1 THEN n ELSE idx[h]]
<1>1. k \in Nat /\ Len(u) = k + 1
  OBVIOUS
<1>2. \A h \in 1..k : u[h] = t[h]
  OBVIOUS
<1>3. u[k + 1] = s[n]
  OBVIOUS
<1>4. /\ idx \in [1..k -> I] /\ \A i, j \in 1..k : i < j => idx[i] < idx[j]
      /\ \A x \in I : \E i \in 1..k : idx[i] = x
      /\ \A i \in 1..k : t[i] = s[idx[i]]
  BY DEF Picks
<1> HIDE DEF k, u
<1>5. /\ \A h \in 1..k : h \in 1..(k + 1) /\ ext[h] = idx[h]
      /\ k + 1 \in 1..(k + 1) /\ ext[k + 1] = n
  BY <1>1
<1>6. ext \in [1..(k + 1) -> I \cup {n}]
  BY <1>1, <1>4
<1> HIDE DEF ext
<1>7. ASSUME NEW i \in 1..(k + 1), NEW j \in 1..(k + 1), i < j
      PROVE  ext[i] < ext[j]
  <2>1. i \in 1..k /\ ext[i] = idx[i] /\ idx[i] \in I
    BY <1>1, <1>4, <1>5, <1>7
  <2>2. CASE j = k + 1
    BY <2>1, <2>2, <1>5
  <2>3. CASE j # k + 1
    <3>1. j \in 1..k /\ ext[j] = idx[j]
      BY <1>1, <1>5, <2>3
    <3> QED BY <3>1, <2>1, <1>4, <1>7
  <2> QED BY <2>2, <2>3
<1>8. ASSUME NEW x \in I \cup {n}
      PROVE  \E i \in 1..(k + 1) : ext[i] = x
  BY <1>4, <1>5
<1>9. ASSUME NEW i \in 1..(k + 1)
      PROVE  u[i] = s[ext[i]]
  BY <1>1, <1>2, <1>3, <1>4, <1>5
<1>10. Picks(u, s, I \cup {n}, ext)
  BY <1>1, <1>6, <1>7, <1>8, <1>9 DEF Picks
<1> QED BY <1>10 DEF u

LEMMA CapExtended ==
  ASSUME NEW I, NEW n \in Nat \ {0}
  PROVE  I \cap (1..n) = (I \cap (1..(n - 1))) \cup (I \cap {n})
<1>1. \A x : x \in 1..n <=> x \in 1..(n - 1) \/ x = n
  OBVIOUS
<1> QED BY <1>1

(* Pick returns the elements at the given positions, in order. *)
LEMMA PickPicks ==
  ASSUME NEW S, NEW s \in Seq(S), NEW I \in SUBSET (1..Len(s))
  PROVE  Pick(s, I) \in Seq(S) /\ \E idx : Picks(Pick(s, I), s, I, idx)
<1> DEFINE f == CHOOSE g : PickTable(g, s, I, Len(s))
           Upto(n) == I \cap (1..n)
           Good(n) == f[n] \in Seq(S) /\ \E idx : Picks(f[n], s, Upto(n), idx)
<1>1. PickTable(f, s, I, Len(s))
  <2>1. \E g : PickTable(g, s, I, Len(s))
    BY PickTableExists
  <2> QED BY Zenon, <2>1
<1>2. Pick(s, I) = f[Len(s)]
  BY PickIsTable
<1> HIDE DEF f
<1>3. \A n \in 0..Len(s) : f[n] = PickStep(f, s, I, n)
  BY <1>1, PickTableEntry
<1>4. Good(0)
  <2>1. f[0] = <<>>
    BY <1>3 DEF PickStep
  <2>2. Picks(<<>>, s, Upto(0), <<>>)
    BY DEF Picks
  <2> QED BY <2>1, <2>2
<1>5. ASSUME NEW n \in 1..Len(s), Good(n - 1) PROVE Good(n)
  <2>1. PICK idx : Picks(f[n - 1], s, Upto(n - 1), idx)
    BY <1>5
  <2>0. n \in Nat /\ n # 0 /\ f[n] = PickStep(f, s, I, n)
    BY <1>3
  <2>2. CASE n \in I
    <3>1. f[n] = Append(f[n - 1], s[n])
      BY <2>0, <2>2 DEF PickStep
    <3>2. Upto(n) = Upto(n - 1) \cup {n}
      BY <2>2, CapExtended DEF Upto
    <3>3. s[n] \in S /\ f[n] \in Seq(S)
      BY <1>5, <3>1
    <3>4. Upto(n - 1) \in SUBSET Nat /\ \A i \in Upto(n - 1) : i < n
      OBVIOUS
    <3> HIDE DEF Upto
    <3>5. \E ext : Picks(Append(f[n - 1], s[n]), s, Upto(n - 1) \cup {n}, ext)
      <4> DEFINE t == f[n - 1]
                 J == Upto(n - 1)
      <4>1. t \in Seq(S) /\ Picks(t, s, J, idx) /\ J \in SUBSET Nat /\ \A i \in J : i < n
        BY <1>5, <2>1, <3>4
      <4> HIDE DEF t, J
      <4>2. \E ext : Picks(Append(t, s[n]), s, J \cup {n}, ext)
        BY <2>0, <4>1, PicksAppended
      <4> QED BY <4>2 DEF t, J
    <3> QED BY <3>1, <3>2, <3>3, <3>5
  <2>3. CASE n \notin I
    <3>1. f[n] = f[n - 1]
      BY <2>0, <2>3 DEF PickStep
    <3>2. Upto(n) = Upto(n - 1)
      BY <2>3, CapExtended DEF Upto
    <3> QED BY <3>1, <3>2, <1>5, <2>1
  <2> QED BY <2>2, <2>3
<1>6. Good(Len(s))
  <2> DEFINE Bad == {n \in 0..Len(s) : ~Good(n)}
  <2> HIDE DEF Good
  <2> SUFFICES ASSUME Bad # {} PROVE FALSE
    OBVIOUS
  <2>1. PICK n \in Bad : \A k \in Bad : n <= k
    <3>1. Bad \subseteq Nat
      OBVIOUS
    <3> HIDE DEF Bad
    <3> QED BY <3>1, LeastNat
  <2>2. n # 0
    BY <1>4
  <2>3. n - 1 \in 0..Len(s) /\ n - 1 \notin Bad
    BY <2>1, <2>2
  <2> QED BY <2>2, <2>3, <1>5
<1>7. Upto(Len(s)) = I
  OBVIOUS
<1> QED BY <1>2, <1>6, <1>7

-----------------------------------------------------------------------------
(* The buffer as a window of the log.                                      *)

LEMMA LastNElements ==
  ASSUME NEW S, NEW s \in Seq(S), NEW n \in Nat \ {0}
  PROVE  /\ LastN(s, n) \in Seq(S)
         /\ Len(LastN(s, n)) = IF Len(s) > n THEN n ELSE Len(s)
         /\ \A i \in 1..Len(LastN(s, n)) : LastN(s, n)[i] = s[Len(s) - Len(LastN(s, n)) + i]
<1>1. CASE Len(s) > n
  <2>1. LastN(s, n) = SubSeq(s, Len(s) - n + 1, Len(s))
    BY <1>1 DEF LastN
  <2> DEFINE from == Len(s) - n + 1
             to == Len(s)
  <2>2. from \in 1..(to + 1) /\ to \in Nat /\ to - from + 1 = n
    BY <1>1
  <2>3. /\ SubSeq(s, from, to) \in Seq(S) /\ Len(SubSeq(s, from, to)) = n
        /\ \A i \in 1..n : SubSeq(s, from, to)[i] = s[from + i - 1]
    BY <1>1, <2>2
  <2> QED BY <1>1, <2>1, <2>3
<1>2. CASE ~(Len(s) > n)
  BY <1>2 DEF LastN
<1> QED BY <1>1, <1>2

LEMMA MaxSizePositive == maxSize \in Nat \ {0}
BY RingBufferAssumption DEF maxSize

LEMMA CapturedSeq ==
  ASSUME NEW m, NEW n
  PROVE  Captured(m, n).seq = n
BY Zenon DEF Captured

(* What can be in the buffer. *)
Entries == {Captured(m, n) : m \in Messages, n \in Nat}

(* How many messages were evicted or cleared. *)
Gone == Len(log) - Len(messages)

LogInv ==
  /\ log \in Seq(Messages)
  /\ nextSeq = Len(log) + 1

(* The buffer holds the end of the log, each message under its position. *)
WindowInv ==
  /\ messages \in Seq(Entries)
  /\ Len(messages) <= Len(log) /\ Len(messages) <= maxSize
  /\ \A i \in 1..Len(messages) : messages[i] = Captured(log[Gone + i], Gone + i)

GotInv ==
  /\ got \in [Pollers -> Seq(Entries)]
  /\ GivenAsRecorded

Inv == LogInv /\ WindowInv /\ GotInv

LEMMA InitInv == Init => Inv
BY MaxSizePositive DEF Init, NewRingBuffer, Inv, LogInv, WindowInv, GotInv, GivenAsRecorded

LEMMA RecordsWindow ==
  ASSUME LogInv, WindowInv, NEW msg \in Messages, EngineRecords(msg)
  PROVE  /\ LogInv' /\ WindowInv'
         /\ Len(log') = Len(log) + 1
         /\ \A i \in 1..Len(log) : log'[i] = log[i]
         /\ log'[Len(log) + 1] = msg
         /\ Len(messages') = IF Len(messages) + 1 > maxSize THEN maxSize ELSE Len(messages) + 1
<1> DEFINE L == Len(log)
           k == Len(messages)
           e == Captured(msg, nextSeq)
           u == Append(messages, e)
           v == LastN(u, maxSize)
           r == Len(v)
<1>1. log \in Seq(Messages) /\ nextSeq = L + 1 /\ L \in Nat
  BY DEF LogInv
<1>2. messages \in Seq(Entries) /\ k <= L /\ k <= maxSize /\ k \in Nat
  BY DEF WindowInv
<1>3. messages' = v /\ nextSeq' = nextSeq + 1 /\ log' = Append(log, msg)
  BY DEF EngineRecords, Record
<1>4. log' \in Seq(Messages) /\ Len(log') = L + 1 /\ log'[L + 1] = msg
  BY <1>1, <1>3
<1>5. \A i \in 1..L : log'[i] = log[i]
  BY <1>1, <1>3
<1>6. e \in Entries
  BY <1>1 DEF Entries
<1> HIDE DEF e
<1>7. u \in Seq(Entries) /\ Len(u) = k + 1 /\ u[k + 1] = e
  BY <1>2, <1>6
<1>8. \A i \in 1..k : u[i] = messages[i]
  BY <1>2
<1> HIDE DEF u
<1>9. /\ v \in Seq(Entries) /\ r = IF k + 1 > maxSize THEN maxSize ELSE k + 1
      /\ \A i \in 1..r : v[i] = u[k + 1 - r + i]
  BY <1>7, LastNElements, MaxSizePositive
<1> HIDE DEF v
<1>10. r \in Nat /\ r <= k + 1 /\ r <= maxSize /\ r <= L + 1
  BY <1>1, <1>2, <1>9, MaxSizePositive
<1>11. \A i \in 1..k : messages[i] = Captured(log[L - k + i], L - k + i)
  BY DEF WindowInv, Gone
<1>12. ASSUME NEW i \in 1..r
       PROVE  v[i] = Captured(log'[L + 1 - r + i], L + 1 - r + i)
  <2> DEFINE j == k + 1 - r + i
  <2>1. j \in 1..(k + 1) /\ L - k + j = L + 1 - r + i /\ v[i] = u[j]
    BY <1>1, <1>2, <1>9, <1>10
  <2> HIDE DEF j
  <2>2. CASE j = k + 1
    <3>1. v[i] = Captured(msg, L + 1)
      BY <2>1, <2>2, <1>1, <1>7 DEF e
    <3>2. L + 1 - r + i = L + 1
      BY <2>1, <2>2, <1>1, <1>2
    <3> QED BY <3>1, <3>2, <1>4
  <2>3. CASE j # k + 1
    <3>1. j \in 1..k /\ L - k + j \in 1..L
      BY <2>1, <2>3, <1>1, <1>2
    <3>2. v[i] = Captured(log[L - k + j], L - k + j)
      BY <2>1, <3>1, <1>8, <1>11
    <3>3. log'[L - k + j] = log[L - k + j]
      BY <3>1, <1>5
    <3> QED BY <2>1, <3>2, <3>3
  <2> QED BY <2>2, <2>3
<1>13. LogInv'
  BY <1>1, <1>3, <1>4 DEF LogInv
<1>14. WindowInv'
  <2> HIDE DEF L, r, k
  <2>0. Gone' = Len(log') - Len(messages')
    BY DEF Gone
  <2>1. Len(messages') = r /\ Len(log') = L + 1 /\ Gone' = L + 1 - r
    <3>1. Len(messages') = r
      BY Zenon, <1>3 DEF r
    <3>2. Len(log') = L + 1
      BY Zenon, <1>4
    <3> QED BY <1>1, <1>10, <2>0, <3>1, <3>2
  <2>2. maxSize' = maxSize
    BY DEF maxSize
  <2>3. messages' \in Seq(Entries)'
    BY <1>3, <1>9 DEF Entries
  <2>4. \A i \in 1..r : messages'[i] = Captured(log'[Gone' + i], Gone' + i)
    BY <1>3, <1>12, <2>1
  <2> QED BY <1>10, <2>1, <2>2, <2>3, <2>4 DEF WindowInv
<1> QED BY <1>3, <1>4, <1>5, <1>9, <1>13, <1>14

-----------------------------------------------------------------------------
(* A poll.                                                                 *)

(* The positions of the buffer that a poll of client c selects. *)
Hits(c) == {i \in DOMAIN messages : matches(pollFilter(c), messages[i])}

(* The filter of a poll is that of the client's own parameters, from the   *)
(* cursor on and without a limit.                                          *)
LEMMA PollFilter ==
  ASSUME NEW c \in Pollers
  PROVE  LET f == parseFilter(PollQuery[c])
         IN  /\ pollFilter(c).queue = f.queue
             /\ pollFilter(c).exchange = f.exchange
             /\ pollFilter(c).routing_key = f.routing_key
             /\ pollFilter(c).direction = f.direction
             /\ pollFilter(c).rule = f.rule
             /\ pollFilter(c).headers = f.headers
             /\ pollFilter(c).body = f.body
             /\ pollFilter(c).since = cursor(c) /\ f.since = 0
             /\ pollFilter(c).limit = 0
<1> DEFINE q == PollQuery[c]
           n == IF got[c] = <<>> THEN NoParam ELSE Num(cursor(c))
           p == [q EXCEPT !.since = n]
<1>1. q \in QueryString /\ q.limit.n = 0 /\ q.since.n = 0
  BY PollQueryAssumption DEF NoParam
<1>2. n.n = cursor(c)
  BY DEF cursor, NoParam, Num
<1>3. pollFilter(c) = parseFilter(p)
  BY DEF pollFilter
<1> HIDE DEF q, n
<1>4. /\ p.queue = q.queue /\ p.exchange = q.exchange /\ p.routing_key = q.routing_key
      /\ p.direction = q.direction /\ p.rule = q.rule /\ p.limit = q.limit
      /\ p.header = q.header /\ p.body = q.body /\ p.since = n
  BY <1>1 DEF QueryString
<1> HIDE DEF p
<1>5. ASSUME NEW r
      PROVE  /\ parseFilter(r).queue = r.queue /\ parseFilter(r).exchange = r.exchange
             /\ parseFilter(r).routing_key = r.routing_key
             /\ parseFilter(r).direction = r.direction /\ parseFilter(r).rule = r.rule
             /\ parseFilter(r).headers = headerFilters(r.header)
             /\ parseFilter(r).body = {r.body[i] : i \in DOMAIN r.body}
             /\ parseFilter(r).since = r.since.n /\ parseFilter(r).limit = r.limit.n
  BY DEF parseFilter
<1>6. parseFilter(p).body = parseFilter(q).body
  <2> DEFINE B(b) == {b[i] : i \in DOMAIN b}
  <2>1. parseFilter(p).body = B(p.body) /\ parseFilter(q).body = B(q.body)
    BY <1>5
  <2> HIDE DEF B
  <2> QED BY <1>4, <2>1
<1>7. /\ parseFilter(p).queue = parseFilter(q).queue
      /\ parseFilter(p).exchange = parseFilter(q).exchange
      /\ parseFilter(p).routing_key = parseFilter(q).routing_key
      /\ parseFilter(p).direction = parseFilter(q).direction
      /\ parseFilter(p).rule = parseFilter(q).rule
      /\ parseFilter(p).headers = parseFilter(q).headers
  BY <1>4, <1>5
<1>8. parseFilter(p).since = cursor(c) /\ parseFilter(q).since = 0 /\ parseFilter(p).limit = 0
  BY <1>1, <1>2, <1>4, <1>5
<1> QED BY <1>3, <1>6, <1>7, <1>8 DEF q

(* A poll is given the messages at these positions, oldest first. *)
LEMMA QueryPicks ==
  ASSUME WindowInv, NEW c \in Pollers
  PROVE  /\ Query(pollFilter(c)) \in Seq(Entries)
         /\ Hits(c) \in SUBSET (1..Len(messages))
         /\ \E idx : Picks(Query(pollFilter(c)), messages, Hits(c), idx)
<1>1. messages \in Seq(Entries)
  BY DEF WindowInv
<1>2. Hits(c) \in SUBSET (1..Len(messages))
  BY <1>1 DEF Hits
<1>3. Query(pollFilter(c)) = Pick(messages, Hits(c))
  <2>1. \A s : LastN(s, 0) = s
    BY DEF LastN
  <2> QED BY <2>1, PollFilter DEF Query, QueryOf, Hits
<1> HIDE DEF Hits
<1> QED BY <1>1, <1>2, <1>3, PickPicks

LEMMA PollGiven ==
  ASSUME Inv, NEW c \in Pollers, Poll(c)
  PROVE  GotInv'
<1> DEFINE new == Query(pollFilter(c))
           all == got[c] \o new
<1>1. /\ log \in Seq(Messages) /\ messages \in Seq(Entries)
      /\ Len(messages) <= Len(log)
      /\ \A i \in 1..Len(messages) : messages[i] = Captured(log[Gone + i], Gone + i)
  BY DEF Inv, LogInv, WindowInv
<1>2. got \in [Pollers -> Seq(Entries)] /\ GivenAsRecorded
  BY DEF Inv, GotInv
<1>3. got' = [got EXCEPT ![c] = all] /\ log' = log
  BY DEF Poll
<1>4. new \in Seq(Entries) /\ Hits(c) \in SUBSET (1..Len(messages))
      /\ \E idx : Picks(new, messages, Hits(c), idx)
  BY QueryPicks DEF Inv
<1> HIDE DEF new
<1>5. \A i \in 1..Len(new) : \E j \in 1..Len(messages) : new[i] = messages[j]
  BY <1>4 DEF Picks
<1>6. all \in Seq(Entries) /\ Len(all) = Len(got[c]) + Len(new)
  BY <1>2, <1>4
<1>7. \A i \in 1..Len(all) : all[i] = IF i <= Len(got[c]) THEN got[c][i]
                                      ELSE new[i - Len(got[c])]
  BY <1>2, <1>4
<1> HIDE DEF all
<1>8. ASSUME NEW i \in 1..Len(all)
      PROVE  all[i].seq \in 1..Len(log) /\ all[i] = Captured(log[all[i].seq], all[i].seq)
  <2>1. CASE i <= Len(got[c])
    <3>1. i \in 1..Len(got[c]) /\ all[i] = got[c][i]
      BY <2>1, <1>2, <1>7
    <3> QED BY <3>1, <1>2 DEF GivenAsRecorded
  <2>2. CASE ~(i <= Len(got[c]))
    <3> DEFINE h == i - Len(got[c])
    <3>1. h \in 1..Len(new) /\ all[i] = new[h]
      BY <2>2, <1>2, <1>4, <1>6, <1>7
    <3> HIDE DEF h
    <3>2. PICK j \in 1..Len(messages) : all[i] = messages[j]
      BY <3>1, <1>5
    <3>3. Gone + j \in 1..Len(log)
      BY <1>1 DEF Gone
    <3>4. all[i] = Captured(log[Gone + j], Gone + j)
      BY <3>2, <1>1
    <3>5. all[i].seq = Gone + j
      BY <3>4, CapturedSeq
    <3> QED BY <3>3, <3>4, <3>5
  <2> QED BY <2>1, <2>2
<1>9. got' \in [Pollers -> Seq(Entries)]
  BY <1>2, <1>3, <1>6
<1>10. GivenAsRecorded'
  <2> SUFFICES ASSUME NEW d \in Pollers, NEW i \in 1..Len(got'[d])
               PROVE  got'[d][i].seq \in 1..Len(log)
                      /\ got'[d][i] = Captured(log[got'[d][i].seq], got'[d][i].seq)
    BY <1>3 DEF GivenAsRecorded, Pollers
  <2>1. CASE d = c
    <3>1. got'[d] = all
      BY <1>2, <1>3, <2>1
    <3> QED BY <3>1, <1>8
  <2>2. CASE d # c
    <3>1. got'[d] = got[d]
      BY <1>2, <1>3, <2>2
    <3> QED BY <3>1, <1>2 DEF GivenAsRecorded
  <2> QED BY <2>1, <2>2
<1>11. GotInv'
  <2>1. Pollers' = Pollers /\ Entries' = Entries
    BY DEF Pollers, Entries
  <2> QED BY <1>9, <1>10, <2>1 DEF GotInv
<1> QED BY <1>11

LEMMA NextInv == Inv /\ [Next]_vars => Inv'
<1> SUFFICES ASSUME Inv, [Next]_vars PROVE Inv'
  OBVIOUS
<1>0. Pollers' = Pollers /\ Entries' = Entries
  BY DEF Pollers, Entries
<1>1. ASSUME NEW msg \in Messages, EngineRecords(msg) PROVE Inv'
  <2>1. /\ LogInv' /\ WindowInv' /\ Len(log') = Len(log) + 1
        /\ \A i \in 1..Len(log) : log'[i] = log[i]
    BY <1>1, RecordsWindow DEF Inv
  <2>2. got' = got /\ Len(log) \in Nat
    BY <1>1 DEF EngineRecords, Inv, LogInv
  <2>3. got \in [Pollers -> Seq(Entries)] /\ GivenAsRecorded
    BY DEF Inv, GotInv
  <2>4. ASSUME NEW c \in Pollers, NEW i \in 1..Len(got[c])
        PROVE  got[c][i].seq \in 1..Len(log')
               /\ got[c][i] = Captured(log'[got[c][i].seq], got[c][i].seq)
    BY <2>1, <2>2, <2>3 DEF GivenAsRecorded
  <2>5. GivenAsRecorded'
    BY <2>2, <2>4, <1>0 DEF GivenAsRecorded
  <2> QED BY <2>1, <2>2, <2>3, <2>5, <1>0 DEF Inv, GotInv
<1>2. CASE ClientClears
  <2>1. /\ messages' = <<>> /\ nextSeq' = nextSeq /\ got' = got /\ log' = log
    BY <1>2 DEF ClientClears, Clear
  <2>2. LogInv' /\ GotInv'
    BY <2>1, <1>0 DEF Inv, LogInv, GotInv, GivenAsRecorded
  <2>3. WindowInv'
    BY <2>1, <1>0, MaxSizePositive DEF Inv, LogInv, WindowInv, maxSize
  <2> QED BY <2>2, <2>3 DEF Inv
<1>3. ASSUME NEW c \in Pollers, Poll(c) PROVE Inv'
  <2>1. UNCHANGED <<messages, nextSeq, log>>
    BY <1>3 DEF Poll, bufferVars
  <2>2. GotInv'
    BY <1>3, PollGiven
  <2>3. LogInv' /\ WindowInv'
    BY <2>1, <1>0 DEF Inv, LogInv, WindowInv, Gone, maxSize
  <2> QED BY <2>2, <2>3 DEF Inv
<1>4. CASE UNCHANGED vars
  <2>1. UNCHANGED <<messages, nextSeq, log, got>>
    BY <1>4 DEF vars, bufferVars
  <2> QED BY <2>1, <1>0 DEF Inv, LogInv, WindowInv, Gone, maxSize, GotInv, GivenAsRecorded
<1> QED BY <1>1, <1>2, <1>3, <1>4 DEF Next

LEMMA SpecInv == Spec => []Inv
BY InitInv, NextInv, PTL DEF Spec

(* A client is never given a message under another's number, nor a message *)
(* that was altered on the way, whatever is evicted and cleared meanwhile. *)
THEOREM ClientsGivenRecorded == Spec => []GivenAsRecorded
<1>1. Inv => GivenAsRecorded
  BY DEF Inv, GotInv
<1> QED BY <1>1, SpecInv, PTL

-----------------------------------------------------------------------------
(* The spy implements the abstract capture log, step by step.              *)

(* All that a filter asks for but the cursor. *)
MatchesRest(f, m) ==
  /\ f.queue \in {"", m.queue}
  /\ f.exchange \in {"", m.exchange}
  /\ f.routing_key \in {"", m.routing_key}
  /\ f.direction \in {"", m.direction}
  /\ f.rule \in {"", m.rule}
  /\ \A h \in DOMAIN f.headers :
        /\ h \in DOMAIN m.headers
        /\ \A want \in f.headers[h] : Sprint(m.headers[h]) = want
  /\ \A bf \in f.body :
        /\ bf.path \in DOMAIN m.body
        /\ \A want \in bf.want : m.body[bf.path] = want

LEMMA MatchesSplit ==
  ASSUME NEW f, NEW m
  PROVE  matches(f, m) <=> MatchesRest(f, m) /\ (f.since > 0 => m.seq > f.since)
BY Zenon DEF matches, MatchesRest

LEMMA SameFilter ==
  ASSUME NEW f, NEW g, NEW m,
         f.queue = g.queue, f.exchange = g.exchange, f.routing_key = g.routing_key,
         f.direction = g.direction, f.rule = g.rule, f.headers = g.headers, f.body = g.body
  PROVE  MatchesRest(f, m) <=> MatchesRest(g, m)
BY Zenon DEF MatchesRest

LEMMA SameMessage ==
  ASSUME NEW f, NEW m, NEW k, NEW n
  PROVE  MatchesRest(f, Captured(m, k)) <=> MatchesRest(f, Captured(m, n))
BY Zenon DEF MatchesRest, Captured

(* A client's cursor is the number of the last message it was given. *)
LEMMA CursorInLog ==
  ASSUME Inv, NEW c \in Pollers
  PROVE  cursor(c) \in 0..Len(log)
<1>1. got[c] \in Seq(Entries) /\ GivenAsRecorded /\ log \in Seq(Messages)
  BY DEF Inv, GotInv, LogInv
<1>2. CASE got[c] = <<>>
  BY <1>1, <1>2 DEF cursor
<1>3. CASE got[c] # <<>>
  <2>1. Len(got[c]) \in 1..Len(got[c])
    BY <1>1, <1>3
  <2>2. got[c][Len(got[c])].seq \in 1..Len(log)
    BY <1>1, <2>1 DEF GivenAsRecorded
  <2> QED BY <1>1, <1>3, <2>2 DEF cursor
<1> QED BY <1>2, <1>3

(* A poll selects what is behind the cursor and interests the client. *)
LEMMA PollSelects ==
  ASSUME Inv, NEW c \in Pollers, NEW m \in Messages, NEW n \in Nat \ {0}
  PROVE  matches(pollFilter(c), Captured(m, n)) <=> m \in Wanted(c) /\ n > cursor(c)
<1> DEFINE f == parseFilter(PollQuery[c])
           p == pollFilter(c)
<1>1. /\ p.queue = f.queue /\ p.exchange = f.exchange /\ p.routing_key = f.routing_key
      /\ p.direction = f.direction /\ p.rule = f.rule
      /\ p.headers = f.headers /\ p.body = f.body
      /\ p.since = cursor(c) /\ f.since = 0
  BY PollFilter
<1> HIDE DEF f, p
<1>2. cursor(c) \in Nat
  <2>1. cursor(c) \in 0..Len(log) /\ Len(log) \in Nat
    BY CursorInLog DEF Inv, LogInv
  <2> QED BY <2>1
<1>3. matches(p, Captured(m, n)) <=> MatchesRest(p, Captured(m, n)) /\ n > cursor(c)
  <2>1. Captured(m, n).seq = n
    BY CapturedSeq
  <2>2. (p.since > 0 => Captured(m, n).seq > p.since) <=> n > cursor(c)
    BY <1>1, <1>2, <2>1
  <2> QED BY <2>2, MatchesSplit
<1>4. matches(f, Captured(m, 1)) <=> MatchesRest(f, Captured(m, 1))
  <2>1. f.since > 0 => Captured(m, 1).seq > f.since
    BY <1>1
  <2> QED BY <2>1, MatchesSplit
<1>5. MatchesRest(p, Captured(m, n)) <=> MatchesRest(f, Captured(m, 1))
  <2>1. MatchesRest(p, Captured(m, n)) <=> MatchesRest(f, Captured(m, n))
    BY <1>1, SameFilter
  <2>2. MatchesRest(f, Captured(m, n)) <=> MatchesRest(f, Captured(m, 1))
    BY SameMessage
  <2> QED BY <2>1, <2>2
<1>6. m \in Wanted(c) <=> matches(f, Captured(m, 1))
  BY DEF Wanted, f
<1> QED BY <1>3, <1>4, <1>5, <1>6 DEF p

(* The refinement mapping. *)
Base == nextSeq - 1 - Len(messages)
Seqs(s) == [i \in DOMAIN s |-> s[i].seq]
GotSeqs == [c \in Pollers |-> [i \in DOMAIN got[c] |-> got[c][i].seq]]
Interests == [c \in Pollers |-> Wanted(c)]

LEMMA BaseGone == Inv => Base = Gone /\ Gone \in Nat
BY DEF Inv, LogInv, WindowInv, Base, Gone

LEMMA SeqsAt ==
  ASSUME NEW S, NEW s \in Seq(S)
  PROVE  /\ Seqs(s) \in Seq({x.seq : x \in S}) /\ Len(Seqs(s)) = Len(s)
         /\ \A i \in 1..Len(s) : Seqs(s)[i] = s[i].seq
<1>1. DOMAIN s = 1..Len(s) /\ Len(s) \in Nat
  OBVIOUS
<1>2. Seqs(s) = [i \in 1..Len(s) |-> s[i].seq]
  BY <1>1 DEF Seqs
<1>3. \A i \in 1..Len(s) : s[i].seq \in {x.seq : x \in S}
  OBVIOUS
<1>4. [i \in 1..Len(s) |-> s[i].seq] \in [1..Len(s) -> {x.seq : x \in S}]
  BY <1>3
<1> QED BY <1>1, <1>2, <1>4

LEMMA SeqsLast ==
  ASSUME NEW S, NEW s \in Seq(S)
  PROVE  /\ Seqs(s) = <<>> <=> s = <<>>
         /\ s # <<>> => Seqs(s)[Len(Seqs(s))] = s[Len(s)].seq
<1>1. /\ Seqs(s) \in Seq({x.seq : x \in S}) /\ Len(Seqs(s)) = Len(s)
      /\ \A i \in 1..Len(s) : Seqs(s)[i] = s[i].seq
  BY SeqsAt
<1> HIDE DEF Seqs
<1>2. Seqs(s) = <<>> <=> Len(Seqs(s)) = 0
  BY <1>1
<1>3. s = <<>> <=> Len(s) = 0
  OBVIOUS
<1>4. s # <<>> => Len(s) \in 1..Len(s)
  BY <1>3
<1> QED BY <1>1, <1>2, <1>3, <1>4

(* The abstract cursor is the client's. *)
LEMMA AbsCursor ==
  ASSUME Inv, NEW c \in Pollers
  PROVE  GotSeqs[c] = Seqs(got[c])
         /\ Promise!Cursor(c) = cursor(c)
<1>1. got[c] \in Seq(Entries)
  BY DEF Inv, GotInv
<1>2. GotSeqs[c] = Seqs(got[c])
  BY DEF GotSeqs, Seqs
<1>3. Promise!Cursor(c) = IF GotSeqs[c] = <<>> THEN 0 ELSE GotSeqs[c][Len(GotSeqs[c])]
  BY DEF Promise!Cursor, GotSeqs
<1>4. /\ Seqs(got[c]) = <<>> <=> got[c] = <<>>
      /\ got[c] # <<>> => Seqs(got[c])[Len(Seqs(got[c]))] = got[c][Len(got[c])].seq
  BY <1>1, SeqsLast
<1> HIDE DEF Seqs, GotSeqs
<1> QED BY <1>2, <1>3, <1>4 DEF cursor

(* What is due to a client are the positions its poll selects. *)
LEMMA AbsDue ==
  ASSUME Inv, NEW c \in Pollers
  PROVE  Promise!Due(c) = {Gone + i : i \in Hits(c)}
<1>1. Promise!Due(c) =
        {i \in 1..Len(log) : i > Base /\ i > Promise!Cursor(c) /\ log[i] \in Interests[c]}
  BY DEF Promise!Due, Base, Interests
<1>2. Interests[c] = Wanted(c)
  BY DEF Interests
<1>3. Base = Gone /\ Gone \in Nat /\ Promise!Cursor(c) = cursor(c)
  BY BaseGone, AbsCursor
<1>4. /\ log \in Seq(Messages) /\ messages \in Seq(Entries)
      /\ Len(log) = Gone + Len(messages)
      /\ \A i \in 1..Len(messages) : messages[i] = Captured(log[Gone + i], Gone + i)
  BY DEF Inv, LogInv, WindowInv, Gone
<1>5. ASSUME NEW i \in 1..Len(messages)
      PROVE  i \in Hits(c) <=> log[Gone + i] \in Wanted(c) /\ Gone + i > cursor(c)
  <2>1. Gone + i \in 1..Len(log) /\ Gone + i \in Nat \ {0}
    BY <1>3, <1>4
  <2>2. log[Gone + i] \in Messages
    BY <1>4, <2>1
  <2>3. i \in Hits(c) <=> matches(pollFilter(c), Captured(log[Gone + i], Gone + i))
    BY <1>4 DEF Hits
  <2> QED BY <2>1, <2>2, <2>3, PollSelects
<1>6. Hits(c) \subseteq 1..Len(messages)
  BY <1>4 DEF Hits
<1> HIDE DEF Gone, Base, Hits
<1>7. ASSUME NEW x \in Promise!Due(c) PROVE \E i \in Hits(c) : x = Gone + i
  <2>1. x \in 1..Len(log) /\ x > Gone /\ x > cursor(c) /\ log[x] \in Wanted(c)
    BY <1>1, <1>2, <1>3
  <2>2. x - Gone \in 1..Len(messages) /\ Gone + (x - Gone) = x
    BY <2>1, <1>3, <1>4
  <2>3. x - Gone \in Hits(c)
    BY <2>1, <2>2, <1>5
  <2> QED BY <2>2, <2>3
<1>8. ASSUME NEW i \in Hits(c) PROVE Gone + i \in Promise!Due(c)
  <2>1. i \in 1..Len(messages) /\ Gone + i \in 1..Len(log) /\ Gone + i > Gone
    BY <1>3, <1>4, <1>6
  <2>2. log[Gone + i] \in Wanted(c) /\ Gone + i > cursor(c)
    BY <2>1, <1>5
  <2> QED BY <2>1, <2>2, <1>1, <1>2, <1>3
<1> QED BY <1>7, <1>8

LEMMA GotUnchanged == got' = got => GotSeqs' = GotSeqs
BY DEF GotSeqs, Pollers

LEMMA MappedInit == Init => Promise!Init
<1> SUFFICES ASSUME Init PROVE Promise!Init
  OBVIOUS
<1>1. log = <<>> /\ messages = <<>> /\ nextSeq = 1 /\ got = [c \in Pollers |-> <<>>]
  BY DEF Init, NewRingBuffer
<1>2. Base = 0
  <2>1. nextSeq = 1 /\ Len(messages) = 0
    BY <1>1
  <2> QED BY <2>1 DEF Base
<1>3. Seqs(<<>>) = <<>>
  <2>1. <<>> \in Seq(Entries)
    OBVIOUS
  <2> QED BY <2>1, SeqsLast
<1>4. GotSeqs = [c \in Pollers |-> <<>>]
  <2>1. GotSeqs = [c \in Pollers |-> Seqs(got[c])]
    BY DEF GotSeqs, Seqs
  <2> QED BY <1>1, <1>3, <2>1
<1> QED BY <1>1, <1>2, <1>4 DEF Promise!Init, Base, GotSeqs

(* Record is a capture: what falls out of the window moves the base. *)
LEMMA MappedRecords ==
  ASSUME Inv, NEW msg \in Messages, EngineRecords(msg)
  PROVE  Promise!Capture(msg)
<1>1. log' = Append(log, msg) /\ GotSeqs' = GotSeqs /\ nextSeq' = nextSeq + 1
  BY GotUnchanged DEF EngineRecords, Record
<1>2. /\ log \in Seq(Messages) /\ messages \in Seq(Entries)
      /\ Len(messages) <= maxSize /\ Len(messages) <= Len(log) /\ nextSeq = Len(log) + 1
  BY DEF Inv, LogInv, WindowInv
<1>3. /\ Len(log') = Len(log) + 1
      /\ Len(messages') = IF Len(messages) + 1 > maxSize THEN maxSize ELSE Len(messages) + 1
  BY RecordsWindow DEF Inv
<1>4. Base' = IF Len(log') - Base > maxSize THEN Base + 1 ELSE Base
  <2>1. Len(messages) \in Nat /\ Len(log) \in Nat /\ maxSize \in Nat
    BY <1>2, MaxSizePositive
  <2>2. /\ Base = Len(log) - Len(messages)
        /\ Base' = Len(log) + 1 - Len(messages')
    BY <1>1, <1>2, <1>3, <2>1 DEF Base
  <2>3. Base \in Int /\ Len(log') - Base = Len(messages) + 1
    BY <1>3, <2>1, <2>2
  <2>4. CASE Len(messages) + 1 > maxSize
    <3>1. Len(messages) = maxSize /\ Len(messages') = maxSize
      BY <1>2, <1>3, <2>1, <2>4
    <3>2. Base' = Base + 1
      BY <2>1, <2>2, <3>1
    <3> QED BY <2>4, <2>3, <3>2
  <2>5. CASE ~(Len(messages) + 1 > maxSize)
    <3>1. Len(messages') = Len(messages) + 1
      BY <1>3, <2>5
    <3>2. Base' = Base
      BY <2>1, <2>2, <3>1
    <3> QED BY <2>5, <2>3, <3>2
  <2> QED BY <2>4, <2>5
<1> QED BY <1>1, <1>4 DEF Promise!Capture, Base, GotSeqs

LEMMA MappedClears ==
  ASSUME Inv, ClientClears
  PROVE  Promise!Flush
<1>1. messages' = <<>> /\ nextSeq' = nextSeq /\ log' = log /\ GotSeqs' = GotSeqs
  BY GotUnchanged DEF ClientClears, Clear
<1>2. log \in Seq(Messages) /\ nextSeq = Len(log) + 1
  BY DEF Inv, LogInv
<1>3. Base' = Len(log)
  <2>1. Len(log) \in Nat
    BY <1>2
  <2> QED BY <1>1, <1>2, <2>1 DEF Base
<1> QED BY <1>1, <1>3 DEF Promise!Flush, Base, GotSeqs

(* Appending messages appends their numbers. *)
LEMMA SeqsAppended ==
  ASSUME NEW S, NEW s \in Seq(S), NEW t \in Seq(S)
  PROVE  Seqs(s \o t) = Seqs(s) \o Seqs(t)
<1> DEFINE N == {x.seq : x \in S}
<1>1. s \o t \in Seq(S) /\ Len(s \o t) = Len(s) + Len(t)
  OBVIOUS
<1>2. /\ Seqs(s) \in Seq(N) /\ Len(Seqs(s)) = Len(s)
      /\ \A i \in 1..Len(s) : Seqs(s)[i] = s[i].seq
  BY SeqsAt
<1>3. /\ Seqs(t) \in Seq(N) /\ Len(Seqs(t)) = Len(t)
      /\ \A i \in 1..Len(t) : Seqs(t)[i] = t[i].seq
  BY SeqsAt
<1>4. /\ Seqs(s \o t) \in Seq(N) /\ Len(Seqs(s \o t)) = Len(s \o t)
      /\ \A i \in 1..Len(s \o t) : Seqs(s \o t)[i] = (s \o t)[i].seq
  BY <1>1, SeqsAt
<1> HIDE DEF N
<1>5. Seqs(s) \o Seqs(t) \in Seq(N) /\ Len(Seqs(s) \o Seqs(t)) = Len(s) + Len(t)
  <2>1. \A u, v \in Seq(N) : u \o v \in Seq(N) /\ Len(u \o v) = Len(u) + Len(v)
    OBVIOUS
  <2> QED BY <2>1, <1>2, <1>3
<1>6. ASSUME NEW i \in 1..(Len(s) + Len(t))
      PROVE  Seqs(s \o t)[i] = (Seqs(s) \o Seqs(t))[i]
  <2>1. CASE i <= Len(s)
    <3>1. (s \o t)[i] = s[i] /\ (Seqs(s) \o Seqs(t))[i] = Seqs(s)[i] /\ i \in 1..Len(s)
      BY <2>1, <1>2, <1>3
    <3> QED BY <3>1, <1>1, <1>2, <1>4
  <2>2. CASE ~(i <= Len(s))
    <3>1. i - Len(s) \in 1..Len(t)
      BY <2>2
    <3>2. (s \o t)[i] = t[i - Len(s)] /\ (Seqs(s) \o Seqs(t))[i] = Seqs(t)[i - Len(s)]
      BY <2>2, <1>2, <1>3
    <3> QED BY <3>1, <3>2, <1>1, <1>3, <1>4
  <2> QED BY <2>1, <2>2
<1> QED BY <1>1, <1>4, <1>5, <1>6

(* No more numbers up to m than m can be listed in ascending order. *)
LEMMA AscendingFits ==
  ASSUME NEW n \in Nat, NEW m \in Nat, NEW f \in [1..n -> 1..m],
         \A i, j \in 1..n : i < j => f[i] < f[j]
  PROVE  n <= m
<1>1. IsFiniteSet(1..n) /\ Cardinality(1..n) = n /\ IsFiniteSet(1..m) /\ Cardinality(1..m) = m
  BY FS_Interval
<1>2. \A i, j \in 1..n : f[i] = f[j] => i = j
  OBVIOUS
<1>3. f \in Injection(1..n, 1..m)
  BY <1>2 DEF Injection, IsInjective
<1> QED BY <1>1, <1>3, FS_Injection

(* A poll is a fetch: it gives, in order, exactly what is due. *)
LEMMA MappedPoll ==
  ASSUME Inv, NEW c \in Pollers, Poll(c)
  PROVE  Promise!Fetch(c)
<1> DEFINE q == Query(pollFilter(c))
<1>1. /\ got \in [Pollers -> Seq(Entries)] /\ messages \in Seq(Entries) /\ log \in Seq(Messages)
      /\ Len(messages) <= Len(log)
      /\ \A i \in 1..Len(messages) : messages[i] = Captured(log[Gone + i], Gone + i)
  BY DEF Inv, GotInv, WindowInv, LogInv
<1>2. got' = [got EXCEPT ![c] = got[c] \o q] /\ log' = log /\ Base' = Base
  BY DEF Poll, bufferVars, Base
<1>3. /\ q \in Seq(Entries) /\ Hits(c) \in SUBSET (1..Len(messages))
      /\ \E idx : Picks(q, messages, Hits(c), idx)
  BY QueryPicks DEF Inv
<1> HIDE DEF q
<1>4. PICK idx : Picks(q, messages, Hits(c), idx)
  BY <1>3
<1>5. Gone \in Nat /\ Promise!Due(c) = {Gone + i : i \in Hits(c)}
  BY BaseGone, AbsDue
<1> DEFINE new == Seqs(q)
           n == Len(q)
<1>6. n \in Nat /\ new \in Seq({x.seq : x \in Entries}) /\ Len(new) = n
  BY <1>3, SeqsAt
<1>7. /\ idx \in [1..n -> Hits(c)]
      /\ \A i, j \in 1..n : i < j => idx[i] < idx[j]
      /\ \A x \in Hits(c) : \E i \in 1..n : idx[i] = x
      /\ \A i \in 1..n : q[i] = messages[idx[i]]
  BY <1>4 DEF Picks
<1>8. \A i \in 1..n : new[i] = Gone + idx[i]
  <2> SUFFICES ASSUME NEW i \in 1..n PROVE new[i] = Gone + idx[i]
    OBVIOUS
  <2>1. idx[i] \in 1..Len(messages)
    BY <1>3, <1>7
  <2>2. q[i] = Captured(log[Gone + idx[i]], Gone + idx[i])
    BY <2>1, <1>1, <1>7
  <2>3. q[i].seq = Gone + idx[i]
    BY <2>2, CapturedSeq
  <2> QED BY <2>3, <1>3, SeqsAt
<1>9. DOMAIN new = 1..n
  BY <1>6
<1> HIDE DEF new, n
<1>10. new \in [1..n -> Promise!Due(c)]
  <2>1. \A i \in 1..n : new[i] \in Promise!Due(c)
    BY <1>5, <1>7, <1>8
  <2>2. new = [i \in 1..n |-> new[i]]
    BY <1>6, <1>9
  <2> QED BY <2>1, <2>2
<1>11. Promise!Lists(new, Promise!Due(c))
  <2>1. ASSUME NEW i \in 1..n, NEW j \in 1..n, i < j PROVE new[i] < new[j]
    <3>1. idx[i] \in Hits(c) /\ idx[j] \in Hits(c) /\ idx[i] < idx[j]
      BY <1>7, <2>1
    <3>2. idx[i] \in Nat /\ idx[j] \in Nat
      BY <1>1, <1>3, <3>1
    <3> QED BY <3>1, <3>2, <1>5, <1>8
  <2>2. ASSUME NEW x \in Promise!Due(c) PROVE \E i \in 1..n : new[i] = x
    BY <1>5, <1>7, <1>8
  <2> QED BY <2>1, <2>2, <1>9 DEF Promise!Lists
<1>12. n \in 0..Len(log)
  <2>1. Len(messages) \in Nat /\ Len(log) \in Nat
    BY <1>1
  <2>2. n <= Len(messages)
    <3>1. idx \in [1..n -> 1..Len(messages)]
      BY <1>3, <1>7
    <3> QED BY <1>6, <1>7, <2>1, <3>1, AscendingFits
  <2> QED BY <1>1, <1>6, <2>1, <2>2
<1>13. GotSeqs' = [GotSeqs EXCEPT ![c] = GotSeqs[c] \o new]
  <2>1. got[c] \in Seq(Entries) /\ GotSeqs[c] = Seqs(got[c])
    BY <1>1, AbsCursor
  <2>2. Seqs(got[c] \o q) = Seqs(got[c]) \o new
    BY <2>1, <1>3, SeqsAppended DEF new
  <2>3. GotSeqs = [d \in Pollers |-> Seqs(got[d])] /\ GotSeqs' = [d \in Pollers |-> Seqs(got'[d])]
    BY DEF GotSeqs, Seqs, Pollers
  <2>4. \A d \in Pollers : got'[d] = IF d = c THEN got[c] \o q ELSE got[d]
    BY <1>1, <1>2
  <2> QED BY <2>1, <2>2, <2>3, <2>4
<1>14. /\ \E m \in 0..Len(log) : \E fresh \in [1..m -> Promise!Due(c)] :
            /\ Promise!Lists(fresh, Promise!Due(c))
            /\ GotSeqs' = [GotSeqs EXCEPT ![c] = GotSeqs[c] \o fresh]
       /\ log' = log /\ Base' = Base
  BY <1>2, <1>10, <1>11, <1>12, <1>13
<1> QED BY <1>14 DEF Promise!Fetch, GotSeqs, Base

LEMMA MappedNext == Inv /\ [Next]_vars => [Promise!Next]_(Promise!logVars)
<1> SUFFICES ASSUME Inv, [Next]_vars PROVE [Promise!Next]_(Promise!logVars)
  OBVIOUS
<1>1. ASSUME NEW msg \in Messages, EngineRecords(msg) PROVE Promise!Next
  BY <1>1, MappedRecords DEF Promise!Next
<1>2. CASE ClientClears
  BY <1>2, MappedClears DEF Promise!Next
<1>3. ASSUME NEW c \in Pollers, Poll(c) PROVE Promise!Next
  BY <1>3, MappedPoll DEF Promise!Next
<1>4. CASE UNCHANGED vars
  <2>1. log' = log /\ Base' = Base /\ GotSeqs' = GotSeqs
    BY <1>4, GotUnchanged DEF vars, bufferVars, Base
  <2> QED BY <2>1 DEF Promise!logVars, Base, GotSeqs
<1> QED BY <1>1, <1>2, <1>3, <1>4 DEF Next

(* Polling with ?since gives each client every message it asks for that is *)
(* still in the buffer when it polls, once and in the order of capture,    *)
(* across evictions and clears: the spy implements the capture log.        *)
THEOREM CaptureLogKept == Spec => CaptureLogSpec
BY MappedInit, MappedNext, SpecInv, PTL DEF Spec, CaptureLogSpec, Promise!Spec
=============================================================================
