---------------------------- MODULE IpcListProofs ----------------------------
(***************************************************************************)
(* What the list operations of IpcList do to the set of linked threads, to *)
(* the absence of duplicates and to the priority order, for lists of any   *)
(* length.                                                                 *)
(***************************************************************************)
EXTENDS IpcList, WellFoundedInduction, TLAPS

(* A nonempty set of natural numbers has a least element, so Min picks it. *)
LEMMA MinIsLeast ==
  ASSUME NEW S, S \subseteq Nat, S # {}
  PROVE  Min(S) \in S /\ \A y \in S : Min(S) <= y
<1>1. \E x \in S : \A y \in S : ~ (<<y, x>> \in OpToRel(<, Nat))
  BY NatLessThanWellFounded, WFMin, Zenon
<1>2. \A x, y \in S : x < y <=> <<x, y>> \in OpToRel(<, Nat)
  BY DEF OpToRel
<1>3. PICK x \in S : \A y \in S : ~ (y < x)
  BY <1>1, <1>2, Zenon
<1>4. \A y \in S : x <= y
  BY <1>3
<1>. QED BY <1>4, Zenon DEF Min

(* The facts about sequences that the proofs rest on: their length and     *)
(* entries, Append, \o, SubSeq, Head and Tail.                             *)
LEMMA SeqEntries ==
  ASSUME NEW S, NEW s \in Seq(S)
  PROVE  /\ Len(s) \in Nat /\ DOMAIN s = 1..Len(s)
         /\ \A i \in 1..Len(s) : s[i] \in S
         /\ s # <<>> => Len(s) > 0
OBVIOUS

(* Sequences of the same length with the same entries are the same. *)
LEMMA SeqSame ==
  ASSUME NEW S, NEW s \in Seq(S), NEW z \in Seq(S),
         Len(s) = Len(z), \A i \in 1..Len(s) : s[i] = z[i]
  PROVE  s = z
OBVIOUS

(* An entry at the end. *)
LEMMA SeqAppend ==
  ASSUME NEW S, NEW s \in Seq(S), NEW e \in S
  PROVE  /\ Append(s, e) \in Seq(S) /\ Len(Append(s, e)) = Len(s) + 1
         /\ \A i \in 1..Len(s) : Append(s, e)[i] = s[i]
         /\ Append(s, e)[Len(s) + 1] = e
OBVIOUS

(* One sequence after another. *)
LEMMA SeqJoin ==
  ASSUME NEW S, NEW s \in Seq(S), NEW z \in Seq(S)
  PROVE  /\ s \o z \in Seq(S) /\ Len(s \o z) = Len(s) + Len(z)
         /\ \A i \in 1..Len(s) + Len(z) :
              (s \o z)[i] = IF i <= Len(s) THEN s[i] ELSE z[i - Len(s)]
OBVIOUS

(* A piece of a sequence. *)
LEMMA SeqPiece ==
  ASSUME NEW S, NEW s, NEW m \in Int, NEW n \in Int, \A i \in m..n : s[i] \in S
  PROVE  /\ SubSeq(s, m, n) \in Seq(S)
         /\ Len(SubSeq(s, m, n)) = IF m <= n THEN n - m + 1 ELSE 0
         /\ \A i \in 1..n-m+1 : SubSeq(s, m, n)[i] = s[m + i - 1]
OBVIOUS

(* The first entry and the rest. *)
LEMMA SeqRest ==
  ASSUME NEW S, NEW s \in Seq(S), s # <<>>
  PROVE  /\ Head(s) = s[1] /\ s[1] \in S /\ Len(s) > 0
         /\ Tail(s) \in Seq(S) /\ Len(Tail(s)) = Len(s) - 1
         /\ \A i \in 1..Len(s)-1 : Tail(s)[i] = s[i + 1]
OBVIOUS

(* The elements of a sequence and Range. *)
LEMMA ToSetElement ==
  ASSUME NEW S, NEW s \in Seq(S)
  PROVE  Range(s) = {s[i] : i \in 1..Len(s)}
BY DEF Range

(* Linking a thread at the end of a list. *)
LEMMA AppendLinks ==
  ASSUME NEW S, NEW list \in Seq(S), NEW t \in S
  PROVE  /\ Append(list, t) \in Seq(S)
         /\ Range(Append(list, t)) = Range(list) \cup {t}
         /\ Distinct(list) /\ t \notin Range(list) => Distinct(Append(list, t))
<1> DEFINE a == Append(list, t)
<1>1. /\ a \in Seq(S) /\ Len(a) = Len(list) + 1
      /\ \A i \in 1..Len(list) : a[i] = list[i]
      /\ a[Len(list) + 1] = t
  BY SeqAppend
<1>2. Len(list) \in Nat
  BY SeqEntries
<1> HIDE DEF a
<1>3. Range(a) = {a[i] : i \in 1..Len(a)} /\ Range(list) = {list[i] : i \in 1..Len(list)}
  BY <1>1, ToSetElement
<1>4. Range(a) = Range(list) \cup {t}
  BY <1>1, <1>2, <1>3
<1>5. ASSUME Distinct(list), t \notin Range(list) PROVE Distinct(a)
  BY <1>1, <1>2, <1>3, <1>5 DEF Distinct
<1>. QED BY <1>1, <1>4, <1>5 DEF a

(* The entries of a list after an insertion at position k. *)
LEMMA InsertAtEntries ==
  ASSUME NEW S, NEW list \in Seq(S), NEW t \in S, NEW k \in 1..Len(list)
  PROVE  /\ InsertBefore(list, k, t) \in Seq(S)
         /\ Len(InsertBefore(list, k, t)) = Len(list) + 1
         /\ \A i \in 1..Len(list) + 1 : InsertBefore(list, k, t)[i] =
              IF i < k THEN list[i] ELSE IF i = k THEN t ELSE list[i - 1]
<1> DEFINE p == SubSeq(list, 1, k - 1)
           q == SubSeq(list, k, Len(list))
<1>0. Len(list) \in Nat /\ \A i \in 1..Len(list) : list[i] \in S
  BY SeqEntries
<1>1. p \in Seq(S) /\ Len(p) = k - 1 /\ \A i \in 1..k-1 : p[i] = list[i]
  <2>1. \A i \in 1..k-1 : list[i] \in S
    BY <1>0
  <2>2. 1 \in Int /\ k - 1 \in Int
    BY <1>0
  <2>. QED BY <1>0, <2>1, <2>2, SeqPiece
<1>2. /\ q \in Seq(S) /\ Len(q) = Len(list) - k + 1
      /\ \A i \in 1..Len(list) - k + 1 : q[i] = list[k + i - 1]
  <2>1. \A i \in k..Len(list) : list[i] \in S
    BY <1>0
  <2>2. k \in Int /\ Len(list) \in Int /\ k <= Len(list)
    BY <1>0
  <2>. QED BY <2>1, <2>2, SeqPiece
<1> HIDE DEF p, q
<1>3. <<t>> \in Seq(S) /\ Len(<<t>>) = 1 /\ <<t>>[1] = t
  OBVIOUS
<1> DEFINE pt == p \o <<t>>
<1>4. /\ pt \in Seq(S) /\ Len(pt) = k
      /\ \A i \in 1..k : pt[i] = IF i <= k - 1 THEN p[i] ELSE <<t>>[i - (k - 1)]
  BY <1>0, <1>1, <1>3, SeqJoin
<1> HIDE DEF pt
<1> DEFINE r == pt \o q
<1>5. /\ r \in Seq(S) /\ Len(r) = Len(list) + 1
      /\ \A i \in 1..Len(list) + 1 : r[i] = IF i <= k THEN pt[i] ELSE q[i - k]
  BY <1>0, <1>2, <1>4, SeqJoin
<1>6. InsertBefore(list, k, t) = r
  BY DEF InsertBefore, pt, p, q
<1> HIDE DEF r
<1>7. ASSUME NEW i \in 1..Len(list) + 1
      PROVE r[i] = IF i < k THEN list[i] ELSE IF i = k THEN t ELSE list[i - 1]
  <2>1. CASE i < k
    BY <2>1, <1>0, <1>1, <1>4, <1>5
  <2>2. CASE i = k
    BY <2>2, <1>0, <1>3, <1>4, <1>5
  <2>3. CASE i > k
    <3>1. i - k \in 1..Len(list) - k + 1 /\ k + (i - k) - 1 = i - 1
      BY <2>3, <1>0
    <3>2. r[i] = q[i - k]
      BY <2>3, <1>0, <1>5
    <3>3. q[i - k] = list[k + (i - k) - 1]
      BY <3>1, <1>2
    <3>. QED BY <2>3, <1>0, <3>1, <3>2, <3>3
  <2>. QED BY <1>0, <2>1, <2>2, <2>3
<1>. QED BY <1>5, <1>6, <1>7

(* Linking a thread in the middle of a list. *)
LEMMA InsertAtLinks ==
  ASSUME NEW S, NEW list \in Seq(S), NEW t \in S, NEW k \in 1..Len(list)
  PROVE  /\ InsertBefore(list, k, t) \in Seq(S)
         /\ Range(InsertBefore(list, k, t)) = Range(list) \cup {t}
         /\ Distinct(list) /\ t \notin Range(list) => Distinct(InsertBefore(list, k, t))
<1> DEFINE a == InsertBefore(list, k, t)
<1>1. /\ a \in Seq(S) /\ Len(a) = Len(list) + 1
      /\ \A i \in 1..Len(list) + 1 :
           a[i] = IF i < k THEN list[i] ELSE IF i = k THEN t ELSE list[i - 1]
  BY InsertAtEntries
<1>2. Len(list) \in Nat
  BY SeqEntries
<1> HIDE DEF a
<1>3. Range(a) = {a[i] : i \in 1..Len(a)} /\ Range(list) = {list[i] : i \in 1..Len(list)}
  BY <1>1, ToSetElement
<1>4. Range(a) = Range(list) \cup {t}
  <2>1. ASSUME NEW i \in 1..Len(a) PROVE a[i] \in Range(list) \cup {t}
    <3>1. CASE i < k
      <4>1. i \in 1..Len(list) /\ a[i] = list[i]
        BY <3>1, <1>1, <1>2
      <4>. QED BY <4>1, <1>3
    <3>2. CASE i = k
      BY <3>2, <1>1, <1>2
    <3>3. CASE i > k
      <4>1. i - 1 \in 1..Len(list) /\ a[i] = list[i - 1]
        BY <3>3, <1>1, <1>2
      <4>. QED BY <4>1, <1>3
    <3>. QED BY <1>1, <1>2, <3>1, <3>2, <3>3
  <2>2. ASSUME NEW i \in 1..Len(list) PROVE list[i] \in Range(a)
    <3>1. CASE i < k
      BY <3>1, <1>1, <1>2, <1>3
    <3>2. CASE i >= k
      <4>1. i + 1 \in 1..Len(a) /\ a[i + 1] = list[i]
        BY <3>2, <1>1, <1>2
      <4>. QED BY <4>1, <1>3
    <3>. QED BY <1>2, <3>1, <3>2
  <2>3. t \in Range(a)
    <3>1. k \in 1..Len(a) /\ a[k] = t
      BY <1>1, <1>2
    <3>. QED BY <3>1, <1>3
  <2>. QED BY <2>1, <2>2, <2>3, <1>3, Zenon
<1>5. ASSUME Distinct(list), t \notin Range(list) PROVE Distinct(a)
  <2>1. \A i \in 1..Len(list) : list[i] # t
    BY <1>3, <1>5
  <2>2. \A i, j \in 1..Len(list) : list[i] = list[j] => i = j
    BY <1>5 DEF Distinct
  <2>3. ASSUME NEW i \in 1..Len(list) + 1, NEW j \in 1..Len(list) + 1,
               a[i] = a[j], i < j
        PROVE  FALSE
    <3>1. CASE j < k
      <4>1. /\ i \in 1..Len(list) /\ j \in 1..Len(list) /\ i # j
            /\ a[i] = list[i] /\ a[j] = list[j]
        BY <3>1, <2>3, <1>1, <1>2
      <4>. QED BY <4>1, <2>2, <2>3, Zenon
    <3>2. CASE j = k
      BY <3>2, <2>1, <2>3, <1>1, <1>2
    <3>3. CASE i = k
      BY <3>3, <2>1, <2>3, <1>1, <1>2
    <3>4. CASE i < k /\ j > k
      <4>1. /\ i \in 1..Len(list) /\ j - 1 \in 1..Len(list) /\ i # j - 1
            /\ a[i] = list[i] /\ a[j] = list[j - 1]
        BY <3>4, <2>3, <1>1, <1>2
      <4>. QED BY <4>1, <2>2, <2>3, Zenon
    <3>5. CASE i > k
      <4>1. /\ i - 1 \in 1..Len(list) /\ j - 1 \in 1..Len(list) /\ i - 1 # j - 1
            /\ a[i] = list[i - 1] /\ a[j] = list[j - 1]
        BY <3>5, <2>3, <1>1, <1>2
      <4>. QED BY <4>1, <2>2, <2>3, Zenon
    <3>. QED BY <1>2, <2>3, <3>1, <3>2, <3>3, <3>4, <3>5
  <2>4. \A i, j \in 1..Len(list) + 1 : a[i] = a[j] => i = j
    <3>1. SUFFICES ASSUME NEW i \in 1..Len(list) + 1, NEW j \in 1..Len(list) + 1,
                          a[i] = a[j], i # j
                   PROVE  FALSE
      OBVIOUS
    <3>2. i < j \/ j < i
      BY <3>1, <1>2
    <3>. QED BY <3>1, <3>2, <2>3
  <2>. QED BY <2>4, <1>1 DEF Distinct
<1>. QED BY <1>1, <1>4, <1>5 DEF a

(* rt_ipc_list_suspend links exactly the thread it is given. *)
LEMMA ListSuspendLinks ==
  ASSUME NEW S, NEW list \in Seq(S), NEW t \in S, NEW flag, NEW priority
  PROVE  LET a == ListSuspend(list, t, flag, priority)
         IN  /\ a \in Seq(S)
             /\ Range(a) = Range(list) \cup {t}
             /\ Distinct(list) /\ t \notin Range(list) => Distinct(a)
<1> DEFINE I == {i \in 1..Len(list) : priority[t] < priority[list[i]]}
           k == IF I # {} THEN Min(I) ELSE 0
<1>1. ListSuspend(list, t, flag, priority) =
        IF flag = "FIFO" \/ k = 0 THEN Append(list, t) ELSE InsertBefore(list, k, t)
  BY DEF ListSuspend, FirstPlace
<1>2. k # 0 => k \in 1..Len(list)
  <2>1. I \subseteq Nat
    BY SeqEntries
  <2>. QED BY <2>1, MinIsLeast, Zenon
<1> HIDE DEF k
<1>. QED BY <1>1, <1>2, AppendLinks, InsertAtLinks

(* Inserting a number before the first larger one keeps numbers sorted. *)
LEMMA SortedInsert ==
  ASSUME NEW n \in Nat, NEW f, NEW g, NEW k \in 1..n, NEW v \in Nat,
         \A i \in 1..n : f[i] \in Nat,
         \A i, j \in 1..n : i < j => f[i] <= f[j],
         v < f[k], \A i \in 1..k-1 : f[i] <= v,
         \A i \in 1..n+1 : g[i] = IF i < k THEN f[i] ELSE IF i = k THEN v ELSE f[i - 1],
         NEW i \in 1..n+1, NEW j \in 1..n+1, i < j
  PROVE  g[i] <= g[j]
<1>1. CASE j < k
  <2>1. i \in 1..n /\ j \in 1..n /\ g[i] = f[i] /\ g[j] = f[j]
    BY <1>1
  <2>. QED BY <2>1
<1>2. CASE j = k
  <2>1. i \in 1..k-1 /\ g[i] = f[i] /\ g[j] = v
    BY <1>2
  <2>. QED BY <2>1
<1>3. CASE i = k
  <2>1. j - 1 \in 1..n /\ k <= j - 1 /\ g[i] = v /\ g[j] = f[j - 1]
    BY <1>3
  <2>2. f[k] <= f[j - 1] /\ f[k] \in Nat /\ f[j - 1] \in Nat
    BY <2>1
  <2>. QED BY <2>1, <2>2
<1>4. CASE i < k /\ j > k
  <2>1. i \in 1..n /\ j - 1 \in 1..n /\ i < j - 1 /\ g[i] = f[i] /\ g[j] = f[j - 1]
    BY <1>4
  <2>. QED BY <2>1
<1>5. CASE i > k
  <2>1. i - 1 \in 1..n /\ j - 1 \in 1..n /\ g[i] = f[i - 1] /\ g[j] = f[j - 1]
    BY <1>5
  <2>. QED BY <2>1
<1>. QED BY <1>1, <1>2, <1>3, <1>4, <1>5

(* With RT_IPC_FLAG_PRIO rt_ipc_list_suspend keeps the list sorted. *)
LEMMA ListSuspendSorts ==
  ASSUME NEW S, NEW list \in Seq(S), NEW t \in S, NEW priority \in [S -> Nat],
         Sorted(list, priority)
  PROVE  Sorted(ListSuspend(list, t, "PRIO", priority), priority)
<1> DEFINE n == Len(list)
           f == [i \in 1..n |-> priority[list[i]]]
           I == {i \in 1..n : priority[t] < f[i]}
           k == IF I # {} THEN Min(I) ELSE 0
           a == ListSuspend(list, t, "PRIO", priority)
           g == [i \in 1..n+1 |-> priority[a[i]]]
<1>0. /\ n \in Nat /\ priority[t] \in Nat
      /\ \A i \in 1..n : f[i] = priority[list[i]] /\ f[i] \in Nat
  BY SeqEntries
<1>1. a = IF k = 0 THEN Append(list, t) ELSE InsertBefore(list, k, t)
  <2>1. I = {i \in 1..n : priority[t] < priority[list[i]]}
    OBVIOUS
  <2>. QED BY <2>1, Zenon DEF ListSuspend, FirstPlace
<1>2. \A i, j \in 1..n : i < j => f[i] <= f[j]
  BY DEF Sorted
<1> HIDE DEF f
<1>3. Len(a) = n + 1 /\ \A i, j \in 1..n+1 : i < j => g[i] <= g[j]
  <2>1. CASE I = {}
    <3>0. k = 0
      BY <2>1
    <3> HIDE DEF k, a
    <3>1. ASSUME NEW i \in 1..n PROVE f[i] <= priority[t]
      <4>1. f[i] \in Nat /\ ~(priority[t] < f[i])
        BY <1>0, <2>1
      <4>. QED BY <4>1, <1>0
    <3>2. /\ Len(a) = n + 1 /\ a[n + 1] = t
          /\ \A i \in 1..n : a[i] = list[i]
      BY <1>1, <3>0, SeqAppend
    <3>3. g[n + 1] = priority[t] /\ \A i \in 1..n : g[i] = f[i]
      <4>1. \A i \in 1..n+1 : g[i] = priority[a[i]]
        OBVIOUS
      <4> HIDE DEF g, n, I
      <4>2. n + 1 \in 1..n+1 /\ \A i \in 1..n : i \in 1..n+1
        BY <1>0
      <4>3. g[n + 1] = priority[t]
        BY <3>2, <4>1, <4>2
      <4>4. \A i \in 1..n : g[i] = f[i]
        BY <1>0, <3>2, <4>1, <4>2
      <4>. QED BY <4>3, <4>4
    <3> HIDE DEF g, n
    <3>4. ASSUME NEW i \in 1..n+1, NEW j \in 1..n+1, i < j PROVE g[i] <= g[j]
      <4>1. i \in 1..n /\ g[i] = f[i]
        BY <1>0, <3>3, <3>4
      <4>2. CASE j = n + 1
        BY <4>1, <4>2, <3>1, <3>3
      <4>3. CASE j \in 1..n
        BY <4>1, <4>3, <1>2, <3>3, <3>4
      <4>. QED BY <1>0, <4>2, <4>3
    <3>. QED BY <3>2, <3>4
  <2>2. CASE I # {}
    <3>1. I \subseteq Nat
      BY <1>0
    <3>2. k \in I /\ \A i \in I : k <= i
      BY <2>2, <3>1, MinIsLeast, Zenon
    <3> HIDE DEF k
    <3>3. /\ k \in 1..n /\ priority[t] < f[k]
          /\ \A i \in 1..k-1 : f[i] <= priority[t]
      BY <3>2, <1>0
    <3>4. a = InsertBefore(list, k, t)
      BY <1>0, <1>1, <3>3
    <3>5. /\ Len(a) = n + 1
          /\ \A i \in 1..n+1 :
               a[i] = IF i < k THEN list[i] ELSE IF i = k THEN t ELSE list[i - 1]
      BY <3>3, <3>4, InsertAtEntries
    <3> HIDE DEF a, I
    <3>6. \A i \in 1..n+1 :
            g[i] = IF i < k THEN f[i] ELSE IF i = k THEN priority[t] ELSE f[i - 1]
      <4>1. ASSUME NEW i \in 1..n+1
            PROVE g[i] = IF i < k THEN f[i] ELSE IF i = k THEN priority[t] ELSE f[i - 1]
        <5>1. g[i] = priority[a[i]]
          OBVIOUS
        <5> HIDE DEF g, n
        <5>2. CASE i < k
          <6>1. i \in 1..n /\ a[i] = list[i]
            BY <1>0, <3>3, <3>5, <5>2
          <6>. QED BY <1>0, <5>1, <5>2, <6>1
        <5>3. CASE i = k
          BY <1>0, <3>3, <3>5, <5>1, <5>3
        <5>4. CASE i > k
          <6>1. i - 1 \in 1..n /\ a[i] = list[i - 1] /\ ~(i < k) /\ i # k
            BY <1>0, <3>3, <3>5, <5>4
          <6>. QED BY <1>0, <5>1, <6>1
        <5>. QED BY <1>0, <3>3, <5>2, <5>3, <5>4
      <4>. QED BY <4>1
    <3> HIDE DEF g, n
    <3>7. \A i, j \in 1..n+1 : i < j => g[i] <= g[j]
      BY <1>0, <1>2, <3>3, <3>6, SortedInsert, Zenon
    <3>. QED BY <3>5, <3>7
  <2>. QED BY <2>1, <2>2
<1> HIDE DEF a, n
<1>. QED BY <1>3 DEF Sorted, a

(* A list a that is list without its entry k. *)
WithoutEntry(a, list, k) ==
  /\ Len(a) = Len(list) - 1
  /\ \A i \in 1..Len(list) - 1 : a[i] = IF i < k THEN list[i] ELSE list[i + 1]

(* The order of a list depends on the priorities of its threads only. *)
LEMMA SortedSame ==
  ASSUME NEW S, NEW l \in Seq(S), NEW f, NEW g, \A u \in Range(l) : f[u] = g[u], Sorted(l, f)
  PROVE  Sorted(l, g)
<1>1. \A i \in 1..Len(l) : l[i] \in Range(l)
  BY ToSetElement
<1>. QED BY <1>1 DEF Sorted

(* Taking one entry out removes exactly that thread and keeps the order.   *)
LEMMA WithoutEntryLinks ==
  ASSUME NEW S, NEW list \in Seq(S), NEW a \in Seq(S), NEW k \in 1..Len(list),
         WithoutEntry(a, list, k), Distinct(list)
  PROVE  Range(a) = Range(list) \ {list[k]} /\ Distinct(a)
<1> DEFINE n == Len(list)
<1>0. n \in Nat /\ k \in 1..n
  BY SeqEntries
<1>1. Len(a) = n - 1 /\ \A i \in 1..n-1 : a[i] = IF i < k THEN list[i] ELSE list[i + 1]
  BY DEF WithoutEntry
<1>2. \A i, j \in 1..n : list[i] = list[j] => i = j
  BY DEF Distinct
<1>3. Range(a) = {a[i] : i \in 1..n-1} /\ Range(list) = {list[i] : i \in 1..n}
  BY <1>1, ToSetElement
<1> HIDE DEF n
<1>4. ASSUME NEW i \in 1..n-1
      PROVE \E m \in 1..n : m # k /\ a[i] = list[m] /\ m = IF i < k THEN i ELSE i + 1
  <2>1. CASE i < k
    BY <1>0, <1>1, <2>1
  <2>2. CASE i >= k
    <3>1. i + 1 \in 1..n /\ i + 1 # k /\ a[i] = list[i + 1]
      BY <1>0, <1>1, <2>2
    <3>. QED BY <3>1, <1>0, <2>2
  <2>. QED BY <1>0, <2>1, <2>2
<1>5. ASSUME NEW m \in 1..n, m # k PROVE \E i \in 1..n-1 : a[i] = list[m]
  <2>1. CASE m < k
    <3>1. m \in 1..n-1 /\ a[m] = list[m]
      BY <1>0, <1>1, <2>1
    <3>. QED BY <3>1
  <2>2. CASE m > k
    <3>1. m - 1 \in 1..n-1 /\ a[m - 1] = list[m]
      BY <1>0, <1>1, <2>2
    <3>. QED BY <3>1
  <2>. QED BY <1>0, <1>5, <2>1, <2>2
<1>6. Range(a) = Range(list) \ {list[k]}
  <2>1. ASSUME NEW x \in Range(a) PROVE x \in Range(list) \ {list[k]}
    <3>1. PICK i \in 1..n-1 : x = a[i]
      BY <1>3
    <3>2. PICK m \in 1..n : m # k /\ a[i] = list[m]
      BY <1>4
    <3>. QED BY <1>0, <1>2, <1>3, <3>1, <3>2
  <2>2. ASSUME NEW x \in Range(list) \ {list[k]} PROVE x \in Range(a)
    <3>1. PICK m \in 1..n : x = list[m]
      BY <1>3
    <3>2. m # k
      BY <3>1
    <3>. QED BY <1>3, <1>5, <3>1, <3>2
  <2>. QED BY <2>1, <2>2
<1>7. ASSUME NEW i \in 1..n-1, NEW j \in 1..n-1, a[i] = a[j] PROVE i = j
  <2>1. PICK u \in 1..n : u # k /\ a[i] = list[u] /\ u = IF i < k THEN i ELSE i + 1
    BY <1>4
  <2>2. PICK w \in 1..n : w # k /\ a[j] = list[w] /\ w = IF j < k THEN j ELSE j + 1
    BY <1>4
  <2>3. u = w
    BY <1>2, <1>7, <2>1, <2>2, Zenon
  <2>. QED BY <1>0, <2>1, <2>2, <2>3
<1>. QED BY <1>1, <1>6, <1>7 DEF Distinct

(* Taking an entry out of a sorted list leaves it sorted. *)
LEMMA WithoutEntrySorted ==
  ASSUME NEW S, NEW list \in Seq(S), NEW a \in Seq(S), NEW k \in 1..Len(list),
         WithoutEntry(a, list, k), NEW priority, Sorted(list, priority)
  PROVE  Sorted(a, priority)
<1>0. Len(list) \in Nat
  BY SeqEntries
<1>1. ASSUME NEW i \in 1..Len(list)-1, NEW j \in 1..Len(list)-1, i < j
      PROVE  priority[a[i]] <= priority[a[j]]
  <2>1. \E u, w \in 1..Len(list) : u < w /\ a[i] = list[u] /\ a[j] = list[w]
    <3>1. CASE j < k
      <4>1. /\ i \in 1..Len(list) /\ j \in 1..Len(list)
            /\ a[i] = list[i] /\ a[j] = list[j]
        BY <1>0, <1>1, <3>1 DEF WithoutEntry
      <4>. QED BY <1>1, <4>1
    <3>2. CASE i < k /\ j >= k
      <4>1. /\ i \in 1..Len(list) /\ j + 1 \in 1..Len(list) /\ i < j + 1
            /\ a[i] = list[i] /\ a[j] = list[j + 1]
        BY <1>0, <1>1, <3>2 DEF WithoutEntry
      <4>. QED BY <4>1
    <3>3. CASE i >= k
      <4>1. /\ i + 1 \in 1..Len(list) /\ j + 1 \in 1..Len(list) /\ i + 1 < j + 1
            /\ a[i] = list[i + 1] /\ a[j] = list[j + 1]
        BY <1>0, <1>1, <3>3 DEF WithoutEntry
      <4>. QED BY <4>1
    <3>. QED BY <1>0, <3>1, <3>2, <3>3
  <2>. QED BY <2>1 DEF Sorted
<1>. QED BY <1>1 DEF Sorted, WithoutEntry

(* rt_list_remove takes out one entry and keeps the others in order. *)
LEMMA RemoveAtEntry ==
  ASSUME NEW S, NEW list \in Seq(S), NEW k \in 1..Len(list)
  PROVE  RemoveNth(list, k) \in Seq(S) /\ WithoutEntry(RemoveNth(list, k), list, k)
<1> DEFINE p == SubSeq(list, 1, k - 1)
           q == SubSeq(list, k + 1, Len(list))
           r == p \o q
<1>0. Len(list) \in Nat /\ \A i \in 1..Len(list) : list[i] \in S
  BY SeqEntries
<1>1. p \in Seq(S) /\ Len(p) = k - 1 /\ \A i \in 1..k-1 : p[i] = list[i]
  <2>1. \A i \in 1..k-1 : list[i] \in S
    BY <1>0
  <2>2. 1 \in Int /\ k - 1 \in Int
    BY <1>0
  <2>. QED BY <1>0, <2>1, <2>2, SeqPiece
<1>2. /\ q \in Seq(S) /\ Len(q) = Len(list) - k
      /\ \A i \in 1..Len(list) - k : q[i] = list[k + i]
  <2>1. \A i \in k+1..Len(list) : list[i] \in S
    BY <1>0
  <2>2. k + 1 \in Int /\ Len(list) \in Int /\ k <= Len(list)
    BY <1>0
  <2>3. /\ q \in Seq(S)
        /\ Len(q) = IF k + 1 <= Len(list) THEN Len(list) - (k + 1) + 1 ELSE 0
        /\ \A i \in 1..Len(list) - (k + 1) + 1 : q[i] = list[(k + 1) + i - 1]
    BY <2>1, <2>2, SeqPiece
  <2> HIDE DEF q
  <2>. QED BY <1>0, <2>3
<1> HIDE DEF p, q
<1>3. /\ r \in Seq(S) /\ Len(r) = Len(list) - 1
      /\ \A i \in 1..Len(list) - 1 : r[i] = IF i <= k - 1 THEN p[i] ELSE q[i - (k - 1)]
  <2>1. /\ r \in Seq(S) /\ Len(r) = Len(p) + Len(q)
        /\ \A i \in 1..Len(p) + Len(q) :
             r[i] = IF i <= Len(p) THEN p[i] ELSE q[i - Len(p)]
    BY <1>1, <1>2, SeqJoin, Zenon
  <2>2. Len(p) + Len(q) = Len(list) - 1
    BY <1>0, <1>1, <1>2
  <2> HIDE DEF r
  <2>. QED BY <1>1, <2>1, <2>2
<1>4. RemoveNth(list, k) = r
  BY DEF RemoveNth, p, q
<1> HIDE DEF r
<1>5. ASSUME NEW i \in 1..Len(list) - 1
      PROVE  r[i] = IF i < k THEN list[i] ELSE list[i + 1]
  <2>1. CASE i < k
    BY <1>0, <1>1, <1>3, <2>1
  <2>2. CASE i >= k
    <3>0. i - (k - 1) \in 1..Len(list) - k /\ ~(i <= k - 1)
      BY <1>0, <2>2
    <3>1. i - (k - 1) \in 1..Len(list) - k /\ r[i] = q[i - (k - 1)]
      BY <1>3, <3>0
    <3>2. k + (i - (k - 1)) = i + 1
      BY <1>0
    <3>. QED BY <1>0, <1>2, <2>2, <3>1, <3>2
  <2>. QED BY <1>0, <2>1, <2>2
<1>. QED BY <1>3, <1>4, <1>5, Zenon DEF WithoutEntry

(* rt_list_remove unlinks exactly the thread it is given.                  *)
LEMMA UnlinkLinks ==
  ASSUME NEW S, NEW list \in Seq(S), NEW t, Distinct(list)
  PROVE  /\ Unlink(list, t) \in Seq(S)
         /\ Range(Unlink(list, t)) = Range(list) \ {t}
         /\ Distinct(Unlink(list, t))
         /\ \A priority : Sorted(list, priority) => Sorted(Unlink(list, t), priority)
<1> DEFINE I == {i \in 1..Len(list) : list[i] = t}
           k == IF I # {} THEN Min(I) ELSE 0
<1>0. I \subseteq Nat
  BY SeqEntries
<1>1. Unlink(list, t) = IF k = 0 THEN list ELSE RemoveNth(list, k)
  BY DEF Unlink, FirstPlace
<1>2. CASE I = {}
  <2>1. k = 0
    BY <1>2
  <2>2. t \notin Range(list)
    BY <1>2, ToSetElement
  <2>. QED BY <1>1, <2>1, <2>2
<1>3. CASE I # {}
  <2>1. k \in I
    BY <1>0, <1>3, MinIsLeast, Zenon
  <2> HIDE DEF k
  <2>2. k \in 1..Len(list) /\ list[k] = t /\ k # 0
    BY <2>1, <1>0, SeqEntries
  <2>3. Unlink(list, t) \in Seq(S) /\ WithoutEntry(Unlink(list, t), list, k)
    BY <1>1, <2>2, RemoveAtEntry
  <2>. QED BY <2>2, <2>3, WithoutEntryLinks, WithoutEntrySorted
<1>. QED BY <1>2, <1>3

(* rt_ipc_list_resume takes out the first thread.                          *)
LEMMA ResumedLinks ==
  ASSUME NEW S, NEW list \in Seq(S), Distinct(list)
  PROVE  /\ Resumed(list) \in Seq(S)
         /\ Distinct(Resumed(list))
         /\ \A priority : Sorted(list, priority) => Sorted(Resumed(list), priority)
         /\ list # <<>> => /\ Head(list) \in Range(list)
                           /\ Range(Resumed(list)) = Range(list) \ {Head(list)}
<1>1. CASE list = <<>>
  BY <1>1 DEF Resumed
<1>2. CASE list # <<>>
  <2>1. /\ Tail(list) \in Seq(S) /\ Len(Tail(list)) = Len(list) - 1
        /\ \A i \in 1..Len(Tail(list)) : Tail(list)[i] = list[i + 1]
    BY <1>2, SeqRest
  <2>2. Len(list) \in Nat \ {0}
    BY <1>2, SeqEntries
  <2>3. 1 \in 1..Len(list) /\ Head(list) = list[1]
    BY <1>2, <2>2
  <2>4. WithoutEntry(Tail(list), list, 1)
    BY <2>1, <2>2 DEF WithoutEntry
  <2>5. Resumed(list) = Tail(list)
    BY <1>2 DEF Resumed
  <2>6. Head(list) \in Range(list)
    BY <2>3, ToSetElement
  <2>7. Range(Tail(list)) = Range(list) \ {list[1]} /\ Distinct(Tail(list))
    BY <2>1, <2>3, <2>4, WithoutEntryLinks, Zenon
  <2>8. \A priority : Sorted(list, priority) => Sorted(Tail(list), priority)
    BY <2>1, <2>3, <2>4, WithoutEntrySorted, Zenon
  <2>. QED BY <2>1, <2>3, <2>5, <2>6, <2>7, <2>8
<1>. QED BY <1>1, <1>2

(* A list is empty exactly when no thread is linked.                       *)
LEMMA EmptyList ==
  ASSUME NEW S, NEW list \in Seq(S)
  PROVE  list = <<>> <=> Range(list) = {}
<1>1. list # <<>> => 1 \in 1..Len(list)
  BY SeqEntries
<1>. QED BY <1>1, ToSetElement
=============================================================================
