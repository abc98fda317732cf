--------------------------- MODULE SchedulerProofs ---------------------------
(***************************************************************************)
(* The functions of Scheduler meet SchedulerContract, for any threads,     *)
(* priorities and objects: what each of them does to the lists of the      *)
(* kernel and to the timers.                                               *)
(***************************************************************************)
EXTENDS SchedulerContract, IpcListProofs

(* All lists of c are right as far as threads other than t are concerned;  *)
(* t may be in the list of its priority.                                   *)
Others(c, t) ==
  /\ \A p \in Prios :
       /\ Distinct(c.table[p])
       /\ \A u \in Threads \ {t} : u \in Range(c.table[p]) <=> c.stat[u] = "ready" /\ c.prio[u] = p
       /\ t \in Range(c.table[p]) => c.prio[t] = p
       /\ p \in c.group <=> c.table[p] # <<>>
  /\ \A o \in Objects :
       /\ Distinct(c.waiting[o])
       /\ \A u \in Range(c.waiting[o]) \ {t} :
            c.stat[u] = "suspend" /\ \A q \in Objects \ {o} : u \notin Range(c.waiting[q])

(* Thread t is in no list. *)
Nowhere(c, t) ==
  /\ \A p \in Prios : t \notin Range(c.table[p])
  /\ \A o \in Objects : t \notin Range(c.waiting[o])

(* c without thread t in the lists: what rt_list_remove leaves. *)
Unlinked(c, r, t) ==
  /\ \A o \in Objects :
       /\ Range(r.waiting[o]) = Range(c.waiting[o]) \ {t}
       /\ \A priority : Sorted(c.waiting[o], priority) => Sorted(r.waiting[o], priority)
  /\ r.stat = c.stat /\ r.prio = c.prio
  /\ SameRest(c, r) /\ SameTimers(c, r)

(* The lists of a kernel state hold threads. *)
LEMMA ListTypes ==
  ASSUME NEW c \in KState
  PROVE  /\ \A p \in Prios : c.table[p] \in Seq(Threads) /\ Range(c.table[p]) \subseteq Threads
         /\ \A o \in Objects : c.waiting[o] \in Seq(Threads) /\ Range(c.waiting[o]) \subseteq Threads
         /\ c.timers \in Seq(Threads) /\ Range(c.timers) \subseteq Threads
<1>1. ASSUME NEW s \in Seq(Threads) PROVE Range(s) \subseteq Threads
  BY ToSetElement, SeqEntries
<1>. QED BY <1>1 DEF KState

-----------------------------------------------------------------------------
(* rt_list_remove: thread t leaves the list it is in. *)
LEMMA ListRemove ==
  ASSUME NEW c \in KState, NEW t \in Threads,
         \A p \in Prios : Distinct(c.table[p]), \A o \in Objects : Distinct(c.waiting[o]),
         NEW r, r = rt_list_remove(c, t)
  PROVE  /\ r \in KState
         /\ \A p \in Prios : Distinct(r.table[p]) /\ Range(r.table[p]) = Range(c.table[p]) \ {t}
         /\ \A o \in Objects : Distinct(r.waiting[o]) /\ Range(r.waiting[o]) = Range(c.waiting[o]) \ {t}
         /\ \A o \in Objects : \A priority :
              Sorted(c.waiting[o], priority) => Sorted(r.waiting[o], priority)
         /\ r.stat = c.stat /\ r.prio = c.prio /\ r.group = c.group
         /\ SameRest(c, r) /\ SameTimers(c, r)
<1>1. /\ \A p \in Prios : c.table[p] \in Seq(Threads)
      /\ \A o \in Objects : c.waiting[o] \in Seq(Threads)
  BY ListTypes
<1>2. /\ r.table = [p \in Prios |-> Unlink(c.table[p], t)]
      /\ r.waiting = [o \in Objects |-> Unlink(c.waiting[o], t)]
      /\ r = [c EXCEPT !.table = r.table, !.waiting = r.waiting]
  BY DEF rt_list_remove, KState
<1>3. \A p \in Prios : /\ r.table[p] \in Seq(Threads) /\ Distinct(r.table[p])
                       /\ Range(r.table[p]) = Range(c.table[p]) \ {t}
  BY <1>1, <1>2, UnlinkLinks
<1>4. \A o \in Objects : /\ r.waiting[o] \in Seq(Threads) /\ Distinct(r.waiting[o])
                         /\ Range(r.waiting[o]) = Range(c.waiting[o]) \ {t}
  BY <1>1, <1>2, UnlinkLinks
<1>6. \A o \in Objects : \A priority : Sorted(c.waiting[o], priority) => Sorted(r.waiting[o], priority)
  BY <1>1, <1>2, UnlinkLinks
<1>5. r \in KState
  <2>1. r.table \in [Prios -> Seq(Threads)] /\ r.waiting \in [Objects -> Seq(Threads)]
    BY <1>2, <1>3, <1>4
  <2>. QED BY <1>2, <2>1, Zenon DEF KState
<1>7. /\ r.stat = c.stat /\ r.prio = c.prio /\ r.group = c.group
      /\ SameRest(c, r) /\ SameTimers(c, r)
  BY DEF rt_list_remove, KState, SameRest, SameTimers
<1>. QED BY <1>3, <1>4, <1>5, <1>6, <1>7, Zenon

(* Correct lists are correct with any thread left out of account. *)
LEMMA LinkedAsOthers ==
  ASSUME NEW c \in KState, NEW t \in Threads, Linked(c)
  PROVE  Others(c, t)
<1>1. \A p \in Prios : Range(c.table[p]) \subseteq Threads
  BY ListTypes
<1>2. \A o \in Objects : Range(c.waiting[o]) \subseteq Threads
  BY ListTypes
<1>3. ASSUME NEW p \in Prios
      PROVE  /\ Distinct(c.table[p])
             /\ \A u \in Threads \ {t} : u \in Range(c.table[p]) <=> c.stat[u] = "ready" /\ c.prio[u] = p
             /\ t \in Range(c.table[p]) => c.prio[t] = p
             /\ p \in c.group <=> c.table[p] # <<>>
  BY <1>1 DEF Linked
<1>4. ASSUME NEW o \in Objects
      PROVE  /\ Distinct(c.waiting[o])
             /\ \A u \in Range(c.waiting[o]) \ {t} :
                  c.stat[u] = "suspend" /\ \A q \in Objects \ {o} : u \notin Range(c.waiting[q])
  BY <1>2, Zenon DEF Linked
<1>. QED BY <1>3, <1>4, Zenon DEF Others

(* A thread whose state changes is still in the list of its priority. *)
LEMMA LinkedOthers ==
  ASSUME NEW c \in KState, NEW t \in Threads, Linked(c), NEW x \in {"ready", "suspend"}
  PROVE  LET d == [c EXCEPT !.stat[t] = x]
         IN  /\ d \in KState /\ Others(d, t)
             /\ x = "suspend" /\ c.stat[t] = "ready" => \A o \in Objects : t \notin Range(d.waiting[o])
<1> DEFINE d == [c EXCEPT !.stat[t] = x]
<1>1. /\ d.table = c.table /\ d.waiting = c.waiting /\ d.group = c.group /\ d.prio = c.prio
      /\ d.stat = [c.stat EXCEPT ![t] = x] /\ d \in KState
  BY Zenon DEF KState
<1>2. c.stat \in [Threads -> {"ready", "suspend"}]
  BY DEF KState
<1> HIDE DEF d
<1>5. \A u \in Threads \ {t} : d.stat[u] = c.stat[u]
  BY <1>1, <1>2
<1>3. Others(d, t)
  <2>1. Others(c, t)
    BY LinkedAsOthers
  <2>2. \A o \in Objects : Range(c.waiting[o]) \subseteq Threads
    BY ListTypes
  <2>. QED BY <2>1, <2>2, <1>1, <1>5 DEF Others
<1>4. c.stat[t] = "ready" => \A o \in Objects : t \notin Range(d.waiting[o])
  BY <1>1 DEF Linked
<1>. QED BY <1>1, <1>3, <1>4 DEF d

(* rt_schedule_remove_thread: thread t is in no list any more, and the bit *)
(* of its priority is still right.                                         *)
LEMMA RemoveThread ==
  ASSUME NEW c \in KState, NEW t \in Threads, Others(c, t),
         NEW r, r = rt_schedule_remove_thread(c, t)
  PROVE  r \in KState /\ Others(r, t) /\ Nowhere(r, t) /\ Unlinked(c, r, t)
<1> DEFINE l == rt_list_remove(c, t)
           p0 == c.prio[t]
<1>1. /\ \A p \in Prios : Distinct(c.table[p])
      /\ \A o \in Objects : Distinct(c.waiting[o])
  BY DEF Others
<1>2. /\ l \in KState
      /\ \A p \in Prios : Distinct(l.table[p]) /\ Range(l.table[p]) = Range(c.table[p]) \ {t}
      /\ \A o \in Objects : Distinct(l.waiting[o]) /\ Range(l.waiting[o]) = Range(c.waiting[o]) \ {t}
      /\ \A o \in Objects : \A priority : Sorted(c.waiting[o], priority) => Sorted(l.waiting[o], priority)
      /\ l.stat = c.stat /\ l.prio = c.prio /\ l.group = c.group
      /\ SameRest(c, l) /\ SameTimers(c, l)
  BY <1>1, ListRemove, Zenon
<1>3. r = [l EXCEPT !.group = IF l.table[p0] = <<>> THEN l.group \ {p0} ELSE l.group]
  BY DEF rt_schedule_remove_thread
<1> HIDE DEF l
<1>4. /\ r.table = l.table /\ r.waiting = l.waiting /\ r.stat = c.stat /\ r.prio = c.prio
      /\ r.group = IF l.table[p0] = <<>> THEN c.group \ {p0} ELSE c.group
      /\ SameRest(c, r) /\ SameTimers(c, r)
  BY <1>2, <1>3 DEF KState, SameRest, SameTimers
<1>0. r \in KState
  <2> DEFINE g == IF l.table[p0] = <<>> THEN l.group \ {p0} ELSE l.group
  <2>1. g \in SUBSET Prios
    BY <1>2, Zenon DEF KState
  <2>2. r = [l EXCEPT !.group = g]
    BY <1>3
  <2> HIDE DEF g
  <2>. QED BY <1>2, <2>1, <2>2, ZenonT(30) DEF KState
<1>5. Nowhere(r, t)
  BY <1>2, <1>4, Zenon DEF Nowhere
<1>6. \A p \in Prios : l.table[p] = <<>> <=> Range(l.table[p]) = {}
  BY <1>2, ListTypes, EmptyList
<1>7. \A p \in Prios : c.table[p] = <<>> <=> Range(c.table[p]) = {}
  BY ListTypes, EmptyList
<1>8. ASSUME NEW p \in Prios PROVE p \in r.group <=> r.table[p] # <<>>
  <2>0. /\ p \in c.group <=> c.table[p] # <<>>
        /\ t \in Range(c.table[p]) => p0 = p
    BY DEF Others
  <2>3. Range(l.table[p]) = Range(c.table[p]) \ {t}
    BY <1>2
  <2>1. CASE p = p0
    BY <2>0, <2>1, <2>3, <1>4, <1>6, <1>7
  <2>2. CASE p # p0
    BY <2>0, <2>2, <2>3, <1>4, <1>6, <1>7, Zenon
  <2>. QED BY <2>1, <2>2
<1>9. Others(r, t)
  <2>1. ASSUME NEW p \in Prios
        PROVE  /\ Distinct(r.table[p])
               /\ \A u \in Threads \ {t} : u \in Range(r.table[p]) <=> r.stat[u] = "ready" /\ r.prio[u] = p
               /\ t \in Range(r.table[p]) => r.prio[t] = p
    <3>1. \A u \in Threads \ {t} : u \in Range(c.table[p]) <=> c.stat[u] = "ready" /\ c.prio[u] = p
      BY DEF Others
    <3>2. Distinct(r.table[p]) /\ Range(r.table[p]) = Range(c.table[p]) \ {t}
      BY <1>2, <1>4
    <3>3. r.stat = c.stat /\ r.prio = c.prio
      BY <1>4
    <3>. QED BY <3>1, <3>2, <3>3
  <2>2. ASSUME NEW o \in Objects
        PROVE  /\ Distinct(r.waiting[o])
               /\ \A u \in Range(r.waiting[o]) \ {t} :
                    r.stat[u] = "suspend" /\ \A q \in Objects \ {o} : u \notin Range(r.waiting[q])
    <3>1. \A u \in Range(c.waiting[o]) \ {t} :
            c.stat[u] = "suspend" /\ \A q \in Objects \ {o} : u \notin Range(c.waiting[q])
      BY Zenon DEF Others
    <3>2. \A q \in Objects : Distinct(r.waiting[q]) /\ Range(r.waiting[q]) = Range(c.waiting[q]) \ {t}
      BY <1>2, <1>4
    <3>3. r.stat = c.stat
      BY <1>4
    <3>. QED BY <3>1, <3>2, <3>3
  <2>. QED BY <2>1, <2>2, <1>8 DEF Others
<1>10. Unlinked(c, r, t)
  BY <1>2, <1>4 DEF Unlinked
<1>. QED BY <1>0, <1>5, <1>9, <1>10

(* rt_list_remove of a thread that is suspended. *)
LEMMA UnlinkSuspended ==
  ASSUME NEW c \in KState, NEW t \in Threads, Linked(c), c.stat[t] = "suspend",
         NEW r, r = rt_list_remove(c, t)
  PROVE  r \in KState /\ Others(r, t) /\ Nowhere(r, t) /\ Unlinked(c, r, t)
<1> DEFINE l == rt_list_remove(c, t)
<1>1. /\ \A p \in Prios : Distinct(c.table[p])
      /\ \A o \in Objects : Distinct(c.waiting[o])
  BY DEF Linked
<1>2. /\ l \in KState
      /\ \A p \in Prios : Distinct(l.table[p]) /\ Range(l.table[p]) = Range(c.table[p]) \ {t}
      /\ \A o \in Objects : Distinct(l.waiting[o]) /\ Range(l.waiting[o]) = Range(c.waiting[o]) \ {t}
      /\ \A o \in Objects : \A priority : Sorted(c.waiting[o], priority) => Sorted(l.waiting[o], priority)
      /\ l.stat = c.stat /\ l.prio = c.prio /\ l.group = c.group
      /\ SameRest(c, l) /\ SameTimers(c, l)
  BY <1>1, ListRemove, Zenon
<1> HIDE DEF l
<1>3. Nowhere(l, t)
  <2>1. \A p \in Prios : t \notin Range(l.table[p])
    BY <1>2
  <2>2. \A o \in Objects : t \notin Range(l.waiting[o])
    BY <1>2
  <2>. QED BY <2>1, <2>2 DEF Nowhere
<1>4. ASSUME NEW p \in Prios
      PROVE  /\ \A u \in Threads \ {t} : u \in Range(l.table[p]) <=> l.stat[u] = "ready" /\ l.prio[u] = p
             /\ p \in l.group <=> l.table[p] # <<>>
  <2>1. /\ Range(c.table[p]) = {u \in Threads : c.stat[u] = "ready" /\ c.prio[u] = p}
        /\ p \in c.group <=> c.table[p] # <<>>
    BY DEF Linked
  <2>2. Range(l.table[p]) = Range(c.table[p])
    BY <2>1, <1>2
  <2>3. /\ c.table[p] = <<>> <=> Range(c.table[p]) = {}
        /\ l.table[p] = <<>> <=> Range(l.table[p]) = {}
    BY <1>2, ListTypes, EmptyList, Zenon
  <2>4. l.stat = c.stat /\ l.prio = c.prio /\ l.group = c.group
    BY <1>2
  <2>. QED BY <2>1, <2>2, <2>3, <2>4
<1>5. ASSUME NEW o \in Objects
      PROVE  \A u \in Range(l.waiting[o]) \ {t} :
               l.stat[u] = "suspend" /\ \A q \in Objects \ {o} : u \notin Range(l.waiting[q])
  <2>1. \A u \in Range(c.waiting[o]) :
          c.stat[u] = "suspend" /\ \A q \in Objects \ {o} : u \notin Range(c.waiting[q])
    BY DEF Linked
  <2>2. l.stat = c.stat /\ \A q \in Objects : Range(l.waiting[q]) = Range(c.waiting[q]) \ {t}
    BY <1>2
  <2>. QED BY <2>1, <2>2
<1>6. Others(l, t)
  BY <1>2, <1>3, <1>4, <1>5 DEF Others, Nowhere
<1>7. Unlinked(c, l, t)
  BY <1>2 DEF Unlinked
<1>. QED BY <1>2, <1>3, <1>6, <1>7 DEF l

(* A thread that is in no list is right there if it is suspended. *)
LEMMA OutSuspended ==
  ASSUME NEW c \in KState, NEW t \in Threads, Others(c, t), Nowhere(c, t), c.stat[t] = "suspend"
  PROVE  Linked(c)
<1>1. ASSUME NEW p \in Prios
      PROVE  Range(c.table[p]) = {u \in Threads : c.stat[u] = "ready" /\ c.prio[u] = p}
  <2>1. \A u \in Threads \ {t} : u \in Range(c.table[p]) <=> c.stat[u] = "ready" /\ c.prio[u] = p
    BY DEF Others
  <2>2. t \notin Range(c.table[p])
    BY DEF Nowhere
  <2>3. Range(c.table[p]) \subseteq Threads
    BY ListTypes
  <2>. QED BY <2>1, <2>2, <2>3
<1>. QED BY <1>1 DEF Linked, Others, Nowhere

(* rt_schedule_insert_thread of a thread that is in no list. *)
LEMMA InsertThread ==
  ASSUME NEW c \in KState, NEW t \in Threads, Others(c, t), Nowhere(c, t),
         NEW r, r = rt_schedule_insert_thread(c, t)
  PROVE  /\ r \in KState /\ Linked(r)
         /\ r.stat = [c.stat EXCEPT ![t] = "ready"] /\ r.waiting = c.waiting /\ r.prio = c.prio
         /\ SameRest(c, r) /\ SameTimers(c, r)
<1> DEFINE p0 == c.prio[t]
<1>1. /\ c.stat \in [Threads -> {"ready", "suspend"}] /\ p0 \in Prios
      /\ c.table \in [Prios -> Seq(Threads)] /\ c.group \subseteq Prios
  BY DEF KState
<1>2. r = [c EXCEPT !.stat[t] = "ready", !.table[p0] = Append(@, t), !.group = @ \cup {p0}]
  BY DEF rt_schedule_insert_thread
<1>3. /\ r.stat = [c.stat EXCEPT ![t] = "ready"] /\ r.waiting = c.waiting /\ r.prio = c.prio
      /\ r.table = [c.table EXCEPT ![p0] = Append(c.table[p0], t)] /\ r.group = c.group \cup {p0}
      /\ SameRest(c, r) /\ SameTimers(c, r)
  BY <1>2 DEF KState, SameRest, SameTimers
<1>4. /\ Append(c.table[p0], t) \in Seq(Threads)
      /\ Range(Append(c.table[p0], t)) = Range(c.table[p0]) \cup {t}
      /\ Distinct(Append(c.table[p0], t)) /\ Append(c.table[p0], t) # <<>>
  <2>1. c.table[p0] \in Seq(Threads)
    BY <1>1
  <2>2. Distinct(c.table[p0]) /\ t \notin Range(c.table[p0])
    BY <1>1 DEF Others, Nowhere
  <2>. QED BY <2>1, <2>2, AppendLinks, SeqAppend
<1>5. r \in KState
  <2>1. r.stat \in [Threads -> {"ready", "suspend"}] /\ r.table \in [Prios -> Seq(Threads)]
        /\ r.group \subseteq Prios
    BY <1>1, <1>3, <1>4, SMTT(20)
  <2>2. r = [c EXCEPT !.stat = r.stat, !.table = r.table, !.group = r.group]
    BY <1>2, <1>3 DEF KState
  <2>. QED BY <2>1, <2>2, Zenon DEF KState
<1>6. ASSUME NEW p \in Prios
      PROVE  /\ Distinct(r.table[p])
             /\ Range(r.table[p]) = {u \in Threads : r.stat[u] = "ready" /\ r.prio[u] = p}
             /\ p \in r.group <=> r.table[p] # <<>>
  <2>1. /\ \A u \in Threads \ {t} : u \in Range(c.table[p]) <=> c.stat[u] = "ready" /\ c.prio[u] = p
        /\ Distinct(c.table[p]) /\ t \notin Range(c.table[p])
        /\ p \in c.group <=> c.table[p] # <<>>
    BY DEF Others, Nowhere
  <2>2. \A u \in Threads : r.stat[u] = IF u = t THEN "ready" ELSE c.stat[u]
    BY <1>1, <1>3
  <2>3. Range(c.table[p]) \subseteq Threads
    BY ListTypes, Zenon
  <2>4. CASE p = p0
    <3>1. r.table[p] = Append(c.table[p0], t) /\ p \in r.group
      BY <2>4, <1>1, <1>3, Zenon
    <3>2. Range(r.table[p]) = Range(c.table[p]) \cup {t} /\ Distinct(r.table[p]) /\ r.table[p] # <<>>
      BY <3>1, <2>4, <1>4, Zenon
    <3>3. r.prio = c.prio
      BY <1>3
    <3>4. Range(r.table[p]) = {u \in Threads : r.stat[u] = "ready" /\ r.prio[u] = p}
      BY <3>2, <3>3, <2>1, <2>2, <2>3, <2>4
    <3>. QED BY <3>1, <3>2, <3>4, Zenon
  <2>5. CASE p # p0
    <3>1. r.table[p] = c.table[p] /\ (p \in r.group <=> p \in c.group)
      BY <2>5, <1>1, <1>3
    <3>. QED BY <3>1, <2>1, <2>2, <2>3, <2>5, <1>3
  <2>. QED BY <2>4, <2>5
<1>7. ASSUME NEW o \in Objects
      PROVE  /\ Distinct(r.waiting[o])
             /\ \A u \in Range(r.waiting[o]) :
                  r.stat[u] = "suspend" /\ \A q \in Objects \ {o} : u \notin Range(r.waiting[q])
  <2>1. /\ Distinct(c.waiting[o]) /\ t \notin Range(c.waiting[o])
        /\ \A u \in Range(c.waiting[o]) \ {t} :
             c.stat[u] = "suspend" /\ \A q \in Objects \ {o} : u \notin Range(c.waiting[q])
    BY DEF Others, Nowhere
  <2>2. \A u \in Threads : r.stat[u] = IF u = t THEN "ready" ELSE c.stat[u]
    BY <1>1, <1>3
  <2>3. Range(c.waiting[o]) \subseteq Threads
    BY ListTypes
  <2>. QED BY <2>1, <2>2, <2>3, <1>3
<1>8. Linked(r)
  BY <1>6, <1>7 DEF Linked
<1>. QED BY <1>3, <1>5, <1>8

-----------------------------------------------------------------------------

(* Changes that do not concern the lists. *)
LEMMA SameListsGood ==
  ASSUME NEW c, Good(c), NEW r \in KState, SameLists(c, r), SameTimers(c, r)
  PROVE  Good(r)
<1>1. Linked(r)
  BY DEF Good, Linked, SameLists
<1>2. TimersLinked(r)
  BY DEF Good, TimersLinked, SameLists, SameTimers
<1>. QED BY <1>1, <1>2 DEF Good, SameLists

(* rt_schedule finds a ready thread, as urgent as any other. *)
LEMMA ScheduleReady ==
  ASSUME NEW c \in KState, Linked(c), c.stat[Idle] = "ready", NEW r, r = rt_schedule(c)
  PROVE  /\ r \in KState /\ Linked(r) /\ SameLists(c, r) /\ SameTimers(c, r)
         /\ r.lock = c.lock /\ r.error = c.error /\ r.remaining = c.remaining /\ r.tick = c.tick
         /\ c.lock # 0 => r = c
         /\ c.lock = 0 => r.stat[r.current] = "ready" /\ Urgent(r)
<1> DEFINE h == Highest(c)
           n == Head(c.table[h])
<1>0. /\ c.group \subseteq Nat /\ c.group \subseteq Prios
      /\ c.prio \in [Threads -> Prios]
  BY PriosAssumption, Zenon DEF KState
<1>1. ASSUME NEW t \in Threads, c.stat[t] = "ready" PROVE c.prio[t] \in c.group
  <2>1. t \in Range(c.table[c.prio[t]]) /\ c.prio[t] \in Prios
    BY <1>0, <1>1 DEF Linked
  <2>2. c.table[c.prio[t]] # <<>>
    BY <1>0, <2>1, ListTypes, EmptyList
  <2>. QED BY <2>1, <2>2 DEF Linked
<1>2. h \in c.group /\ \A q \in c.group : h <= q
  <2>1. c.group # {}
    BY <1>1, ThreadsAssumption
  <2>2. \E p \in c.group : \A q \in c.group : p <= q
    BY <1>0, <2>1, MinIsLeast
  <2>. QED BY <2>2 DEF Highest
<1>3. n \in Threads /\ c.stat[n] = "ready" /\ c.prio[n] = h
  <2>1. h \in Prios /\ c.table[h] # <<>> /\ c.table[h] \in Seq(Threads) /\ Distinct(c.table[h])
    BY <1>0, <1>2, ListTypes DEF Linked
  <2>2. n \in Range(c.table[h])
    BY <2>1, ResumedLinks, Zenon
  <2>. QED BY <2>1, <2>2 DEF Linked
<1> HIDE DEF h, n
<1>4. r = IF c.lock # 0 THEN c ELSE [c EXCEPT !.current = n]
  BY DEF rt_schedule, h, n
<1>5. /\ r \in KState /\ SameLists(c, r) /\ SameTimers(c, r)
      /\ r.lock = c.lock /\ r.error = c.error /\ r.remaining = c.remaining /\ r.tick = c.tick
      /\ c.lock = 0 => r.current = n
  <2>1. CASE c.lock # 0
    BY <2>1, <1>0, <1>4 DEF SameLists, SameTimers
  <2>2. CASE c.lock = 0
    <3>1. r = [c EXCEPT !.current = n]
      BY <2>2, <1>4
    <3>. QED BY <3>1, <1>0, <1>3, Zenon DEF KState, SameLists, SameTimers
  <2>. QED BY <2>1, <2>2
<1>6. c.lock # 0 => r = c
  BY <1>4
<1>7. c.lock = 0 => r.stat[r.current] = "ready" /\ Urgent(r)
  BY <1>1, <1>2, <1>3, <1>5 DEF SameLists, Urgent
<1>8. Linked(r)
  BY <1>5 DEF Linked, SameLists
<1>. QED BY <1>5, <1>6, <1>7, <1>8

-----------------------------------------------------------------------------

(* A step that leaves the timers alone leaves them in time. *)
LEMMA InTimeSame ==
  ASSUME NEW c, NEW r, SameTimers(c, r)
  PROVE  \A b : InTime(c, b) <=> InTime(r, b)
BY DEF InTime, Ahead, SameTimers

(* The timers stay in time when one is taken out of the list. *)
LEMMA InTimeWithout ==
  ASSUME NEW c \in KState, NEW r \in KState, NEW t \in Threads, Distinct(c.timers),
         r.timers = Unlink(c.timers, t), \A u \in Threads \ {t} : r.timeout[u] = c.timeout[u],
         NEW b, InTime(c, b)
  PROVE  InTime(r, b)
<1>1. /\ r.timers \in Seq(Threads) /\ Range(r.timers) = Range(c.timers) \ {t}
      /\ Range(r.timers) \subseteq Threads
      /\ Sorted(r.timers, Ahead(c, b))
  BY ListTypes, UnlinkLinks DEF InTime
<1>2. \A u \in Range(r.timers) : Ahead(r, b)[u] = Ahead(c, b)[u]
  BY <1>1 DEF Ahead
<1>3. Sorted(r.timers, Ahead(r, b))
  BY <1>1, <1>2, SortedSame
<1>. QED BY <1>1, <1>2, <1>3 DEF InTime

(* With both less than half the range ahead of tick b, timeout x is Later  *)
(* than timeout y exactly if it is farther ahead, on whichever side of the *)
(* wrap of the counter they are.                                           *)
LEMMA LaterIsFarther ==
  ASSUME NEW x \in 0..Ticks-1, NEW y \in 0..Ticks-1, NEW b \in 0..Ticks-1,
         Half(Minus(x, b)), Half(Minus(y, b))
  PROVE  Later(x, y) <=> Minus(y, b) < Minus(x, b)
<1> DEFINE h == (Ticks - 1) \div 2
<1>1. Ticks \in Nat /\ h \in Int /\ 2 * h <= Ticks - 1
  BY TicksAssumption
<1>2. Minus(x, b) < h /\ Minus(y, b) < h
  BY DEF Half
<1>3. Later(x, y) <=> Minus(x, y) # 0 /\ Minus(x, y) < h
  BY DEF Later, Half
<1> HIDE DEF h
<1>. QED BY <1>1, <1>2, <1>3 DEF Minus

(* A time that a call may ask for is shorter than the counter's range. *)
LEMMA HalfBelow ==
  ASSUME NEW time \in Int, Half(time)
  PROVE  time < Ticks
<1> DEFINE h == (Ticks - 1) \div 2
<1>1. Ticks \in Nat /\ h \in Int /\ h < Ticks
  BY TicksAssumption
<1>2. time < h
  BY DEF Half
<1> HIDE DEF h
<1>. QED BY <1>1, <1>2

(* A timeout is as far ahead as the time that was asked for. *)
LEMMA PlusMinus ==
  ASSUME NEW b \in 0..Ticks-1, NEW time \in Nat, time < Ticks
  PROVE  Plus(b, time) \in 0..Ticks-1 /\ Minus(Plus(b, time), b) = time
BY TicksAssumption DEF Plus, Minus

LEMMA MinusInt ==
  ASSUME NEW x \in 0..Ticks-1, NEW b \in 0..Ticks-1
  PROVE  Minus(x, b) \in Int
BY TicksAssumption DEF Minus

(* The tick before the next one. *)
LEMMA TickBack ==
  ASSUME NEW b \in 0..Ticks-1
  PROVE  Minus(b, 1) \in 0..Ticks-1 /\ Minus(Plus(b, 1), 1) = b
BY TicksAssumption DEF Plus, Minus

(* A timeout that was ahead of the last tick and is not reached by this    *)
(* one is two ticks or more ahead of the last, and one less of this.       *)
LEMMA NotReached ==
  ASSUME NEW x \in 0..Ticks-1, NEW n \in 0..Ticks-1, Half(Minus(x, Minus(n, 1))), ~Half(Minus(n, x))
  PROVE  Minus(x, Minus(n, 1)) >= 2
<1> DEFINE h == (Ticks - 1) \div 2
<1>1. Ticks \in Nat /\ Ticks > 4 /\ h \in Int /\ 2 * h <= Ticks - 1 /\ h >= 2
  BY TicksAssumption
<1>2. Minus(x, Minus(n, 1)) < h /\ ~(Minus(n, x) < h)
  BY DEF Half
<1> HIDE DEF h
<1>. QED BY <1>1, <1>2 DEF Minus

LEMMA OneLess ==
  ASSUME NEW x \in 0..Ticks-1, NEW n \in 0..Ticks-1, Half(Minus(x, Minus(n, 1))),
         Minus(x, Minus(n, 1)) >= 2
  PROVE  Minus(x, n) = Minus(x, Minus(n, 1)) - 1 /\ Half(Minus(x, n)) /\ Minus(x, n) \in Int
<1> DEFINE h == (Ticks - 1) \div 2
<1>1. Ticks \in Nat /\ Ticks > 4 /\ h \in Int /\ 2 * h <= Ticks - 1
  BY TicksAssumption
<1>2. Minus(x, Minus(n, 1)) < h
  BY DEF Half
<1>3. Minus(x, n) = Minus(x, Minus(n, 1)) - 1 /\ Minus(x, n) \in Int
  BY <1>1, <1>2 DEF Minus
<1>4. Minus(x, n) < h
  <2>1. Minus(x, Minus(n, 1)) \in Int
    BY <1>1 DEF Minus
  <2> HIDE DEF h
  <2>. QED BY <1>1, <1>2, <1>3, <2>1
<1>. QED BY <1>3, <1>4 DEF Half

(* When no timer is due, those that were in time at the last tick are in   *)
(* time at this one.                                                       *)
LEMMA CaughtUp ==
  ASSUME NEW c \in KState, InTime(c, Minus(c.tick, 1)), ~Due(c)
  PROVE  InTime(c, c.tick)
<1> DEFINE l == c.timers
           old == Ahead(c, Minus(c.tick, 1))
           new == Ahead(c, c.tick)
<1>1. /\ l \in Seq(Threads) /\ Range(l) \subseteq Threads /\ c.tick \in 0..Ticks-1
      /\ c.timeout \in [Threads -> 0..Ticks-1]
  BY ListTypes, Zenon DEF KState
<1>2. \A t \in Threads : /\ old[t] = Minus(c.timeout[t], Minus(c.tick, 1)) /\ new[t] = Minus(c.timeout[t], c.tick)
                         /\ c.timeout[t] \in 0..Ticks-1
  BY <1>1 DEF Ahead
<1>3. /\ \A t \in Range(l) : Half(old[t])
      /\ \A i, j \in 1..Len(l) : i < j => old[l[i]] <= old[l[j]]
  BY DEF InTime, Sorted
<1>4. Len(l) \in Nat /\ (\A i \in 1..Len(l) : l[i] \in Range(l) /\ l[i] \in Threads) /\ Range(l) = {l[i] : i \in 1..Len(l)}
  <2>1. Len(l) \in Nat /\ \A i \in 1..Len(l) : l[i] \in Threads
    BY <1>1, SeqEntries
  <2>2. Range(l) = {l[i] : i \in 1..Len(l)}
    BY <1>1, ToSetElement, Zenon
  <2>. QED BY <2>1, <2>2
<1>5. l # <<>> => ~Half(Minus(c.tick, c.timeout[Head(l)]))
  BY DEF Due
<1>6. l # <<>> => Head(l) = l[1] /\ Len(l) > 0
  BY <1>1, SeqRest
<1>7. l # <<>> <=> Range(l) # {}
  BY <1>1, EmptyList
<1> HIDE DEF l, old, new
<1>8. ASSUME NEW t \in Threads PROVE old[t] \in Int
  <2>1. Minus(c.tick, 1) \in 0..Ticks-1
    BY <1>1, TickBack
  <2>. QED BY <1>2, <2>1, MinusInt
<1>9. ASSUME NEW i \in 1..Len(l) PROVE old[l[i]] >= 2
  <2>1. 1 \in 1..Len(l) /\ l[i] \in Range(l)
    BY <1>4
  <2>2. l # <<>> /\ Head(l) = l[1]
    BY <1>6, <1>7, <2>1, Zenon
  <2>3. old[l[1]] >= 2
    <3>1. l[1] \in Threads /\ l[1] \in Range(l)
      BY <1>4, <2>1
    <3>2. Half(Minus(c.timeout[l[1]], Minus(c.tick, 1))) /\ ~Half(Minus(c.tick, c.timeout[l[1]]))
      BY <1>2, <1>3, <1>5, <2>2, <3>1, Zenon
    <3>. QED BY <1>1, <1>2, <3>1, <3>2, NotReached
  <2>4. old[l[1]] \in Int /\ old[l[i]] \in Int
    BY <1>4, <1>8, <2>1
  <2>5. CASE i = 1
    BY <2>3, <2>5
  <2>6. CASE i # 1
    <3>1. old[l[1]] <= old[l[i]]
      BY <1>3, <1>4, <2>1, <2>6
    <3>. QED BY <2>3, <2>4, <3>1
  <2>. QED BY <2>5, <2>6
<1>10. ASSUME NEW i \in 1..Len(l)
      PROVE  new[l[i]] = old[l[i]] - 1 /\ Half(new[l[i]]) /\ new[l[i]] \in Int /\ old[l[i]] \in Int
  <2>1. l[i] \in Threads /\ l[i] \in Range(l) /\ old[l[i]] >= 2
    BY <1>4, <1>9
  <2>2. Half(Minus(c.timeout[l[i]], Minus(c.tick, 1))) /\ Minus(c.timeout[l[i]], Minus(c.tick, 1)) >= 2
    BY <1>2, <1>3, <2>1
  <2>3. old[l[i]] \in Int
    BY <1>8, <2>1
  <2>. QED BY <1>1, <1>2, <2>1, <2>2, <2>3, OneLess
<1>11. \A t \in Range(l) : Half(new[t])
  BY <1>4, <1>10
<1>12. Sorted(l, new)
  <2>1. ASSUME NEW i \in 1..Len(l), NEW j \in 1..Len(l), i < j PROVE new[l[i]] <= new[l[j]]
    <3>1. old[l[i]] <= old[l[j]]
      BY <1>3, <2>1
    <3>. QED BY <1>10, <3>1
  <2>. QED BY <2>1 DEF Sorted
<1>. QED BY <1>11, <1>12 DEF InTime, l, new

(* A state in which the timer of thread t has been started. *)
Started(c, r, t) ==
  /\ r \in KState /\ SameLists(c, r) /\ SameRest(c, r)
  /\ Distinct(r.timers) /\ Range(r.timers) = {u \in Threads : r.activated[u]}
  /\ Range(r.timers) = Range(c.timers) \cup {t}
  /\ InTime(c, c.tick) => InTime(r, c.tick)

(* rt_timer_start: the timer of thread t, which is not running, runs. *)
LEMMA TimerStart ==
  ASSUME NEW c \in KState, NEW t \in Threads, NEW time \in Nat, Half(time),
         ~c.activated[t], Distinct(c.timers), Range(c.timers) = {u \in Threads : c.activated[u]},
         NEW r, r = rt_timer_start(c, t, time)
  PROVE  Started(c, r, t)
<1> DEFINE at == Plus(c.tick, time)
           I == {i \in 1..Len(c.timers) : Later(c.timeout[c.timers[i]], at)}
           i == IF I # {} THEN Min(I) ELSE 0
           l == IF i = 0 THEN Append(c.timers, t) ELSE InsertBefore(c.timers, i, t)
<1>1. /\ c.timers \in Seq(Threads) /\ c.tick \in 0..Ticks-1 /\ c.timeout \in [Threads -> 0..Ticks-1]
      /\ c.activated \in [Threads -> BOOLEAN]
  BY DEF KState
<1>2. at \in 0..Ticks-1 /\ Minus(at, c.tick) = time
  BY <1>1, HalfBelow, PlusMinus
<1>3. r = [c EXCEPT !.timeout[t] = at, !.timers = l, !.activated[t] = TRUE]
  BY Zenon DEF rt_timer_start, FirstPlace
<1>4. i # 0 => i \in 1..Len(c.timers)
  <2>1. I \subseteq Nat
    BY <1>1, SeqEntries
  <2>. QED BY <2>1, MinIsLeast, Zenon
<1>5. t \notin Range(c.timers)
  OBVIOUS
<1> HIDE DEF i
<1>6. l \in Seq(Threads) /\ Range(l) = Range(c.timers) \cup {t} /\ Distinct(l)
  <2>1. CASE i = 0
    BY <2>1, <1>1, <1>5, AppendLinks
  <2>2. CASE i # 0
    <3>1. i \in 1..Len(c.timers) /\ l = InsertBefore(c.timers, i, t)
      BY <1>4, <2>2
    <3> HIDE DEF l
    <3>. QED BY <1>1, <1>5, <3>1, InsertAtLinks
  <2>. QED BY <2>1, <2>2
<1> HIDE DEF l, at
<1>7. /\ r.timers = l /\ r.timeout = [c.timeout EXCEPT ![t] = at]
      /\ r.activated = [c.activated EXCEPT ![t] = TRUE]
      /\ SameLists(c, r) /\ SameRest(c, r)
  BY <1>3 DEF KState, SameLists, SameRest
<1>8. r \in KState
  <2>1. r.timers \in Seq(Threads) /\ r.timeout \in [Threads -> 0..Ticks-1]
    BY <1>1, <1>2, <1>6, <1>7
  <2>2. r.activated \in [Threads -> BOOLEAN]
    BY <1>1, <1>7
  <2>3. r = [c EXCEPT !.timeout = r.timeout, !.timers = r.timers, !.activated = r.activated]
    BY <1>3, <1>7 DEF KState
  <2>. QED BY <2>1, <2>2, <2>3, Zenon DEF KState
<1>9. Range(r.timers) = {u \in Threads : r.activated[u]}
  <2>1. \A u \in Threads : r.activated[u] <=> u = t \/ c.activated[u]
    BY <1>1, <1>7, Zenon
  <2>2. Range(r.timers) = Range(c.timers) \cup {t}
    BY <1>6, <1>7
  <2>. QED BY <2>1, <2>2, Zenon
<1>10. ASSUME InTime(c, c.tick) PROVE InTime(r, c.tick)
  <2> DEFINE g == Ahead(r, c.tick)
  <2>1. g[t] = time /\ \A u \in Threads \ {t} : g[u] = Ahead(c, c.tick)[u]
    BY <1>1, <1>2, <1>7 DEF Ahead
  <2>2. g \in [Threads -> Nat]
    <3>1. r.timeout \in [Threads -> 0..Ticks-1]
      BY <1>8 DEF KState
    <3>2. ASSUME NEW u \in Threads PROVE Minus(r.timeout[u], c.tick) \in Nat
      <4>1. r.timeout[u] \in 0..Ticks-1
        BY <3>1
      <4>. QED BY <1>1, <4>1, TicksAssumption DEF Minus
    <3>. QED BY <3>2 DEF Ahead
  <2>3. ASSUME NEW u \in Range(c.timers)
        PROVE  /\ u \in Threads \ {t} /\ g[u] = Ahead(c, c.tick)[u]
               /\ Half(g[u])
               /\ Later(c.timeout[u], at) <=> g[t] < g[u]
    <3>1. u \in Threads \ {t}
      BY <1>5, ListTypes
    <3>2. g[u] = Ahead(c, c.tick)[u] /\ g[u] = Minus(c.timeout[u], c.tick)
      BY <2>1, <3>1 DEF Ahead
    <3>3. Half(g[u])
      BY <1>10, <3>2 DEF InTime
    <3>4. c.timeout[u] \in 0..Ticks-1
      BY <1>1, <3>1
    <3>5. Later(c.timeout[u], at) <=> Minus(at, c.tick) < Minus(c.timeout[u], c.tick)
      BY <1>1, <1>2, <1>10, <3>2, <3>3, <3>4, LaterIsFarther
    <3>. QED BY <1>2, <2>1, <3>1, <3>2, <3>3, <3>5
  <2> HIDE DEF g
  <2>4. I = {j \in 1..Len(c.timers) : g[t] < g[c.timers[j]]}
    <3>1. \A j \in 1..Len(c.timers) : c.timers[j] \in Range(c.timers)
      BY <1>1, ToSetElement
    <3>2. \A j \in 1..Len(c.timers) : Later(c.timeout[c.timers[j]], at) <=> g[t] < g[c.timers[j]]
      BY <2>3, <3>1
    <3>. QED BY <3>2, Zenon
  <2>5. l = ListSuspend(c.timers, t, "PRIO", g)
    BY <2>4 DEF ListSuspend, FirstPlace, l, i
  <2>6. Sorted(c.timers, g)
    <3>1. Sorted(c.timers, Ahead(c, c.tick))
      BY <1>10 DEF InTime
    <3>. QED BY <1>1, <2>3, <3>1, SortedSame
  <2>7. Sorted(r.timers, g)
    <3>1. Sorted(ListSuspend(c.timers, t, "PRIO", g), g)
      BY <1>1, <2>2, <2>6, ListSuspendSorts
    <3>. QED BY <1>7, <2>5, <3>1
  <2>8. \A u \in Range(r.timers) : Half(g[u])
    <3>1. Range(r.timers) = Range(c.timers) \cup {t} /\ Half(g[t])
      BY <1>6, <1>7, <1>10, <2>1
    <3>. QED BY <2>3, <3>1, Zenon
  <2>. QED BY <2>7, <2>8 DEF InTime, g
<1>. QED BY <1>6, <1>7, <1>8, <1>9, <1>10 DEF Started

(* rt_timer_stop, and rt_thread_timeout as far as the timer is concerned. *)
LEMMA TimerStop ==
  ASSUME NEW c \in KState, NEW t \in Threads,
         Distinct(c.timers), Range(c.timers) = {u \in Threads : c.activated[u]},
         NEW r, r = rt_timer_stop(c, t)
  PROVE  /\ r \in KState /\ SameLists(c, r) /\ SameRest(c, r)
         /\ Distinct(r.timers) /\ Range(r.timers) = {u \in Threads : r.activated[u]}
         /\ Range(r.timers) = Range(c.timers) \ {t}
         /\ \A b : InTime(c, b) => InTime(r, b)
<1>1. /\ c.timers \in Seq(Threads) /\ c.timeout \in [Threads -> 0..Ticks-1]
      /\ c.activated \in [Threads -> BOOLEAN]
  BY DEF KState
<1>2. CASE ~c.activated[t]
  <2>1. r = c
    BY <1>2 DEF rt_timer_stop
  <2>2. Range(c.timers) \ {t} = Range(c.timers)
    BY <1>2
  <2>. QED BY <2>1, <2>2 DEF SameLists, SameRest
<1>3. CASE c.activated[t]
  <2> DEFINE l == Unlink(c.timers, t)
  <2>1. l \in Seq(Threads) /\ Range(l) = Range(c.timers) \ {t} /\ Distinct(l)
    BY <1>1, UnlinkLinks
  <2>2. r = [c EXCEPT !.timers = l, !.activated[t] = FALSE, !.timeout[t] = 0]
    BY <1>3 DEF rt_timer_stop
  <2> HIDE DEF l
  <2>3. /\ r.timers = l /\ r.timeout = [c.timeout EXCEPT ![t] = 0]
        /\ r.activated = [c.activated EXCEPT ![t] = FALSE]
        /\ SameLists(c, r) /\ SameRest(c, r)
    BY <2>2 DEF KState, SameLists, SameRest
  <2>4. r \in KState
    <3>1. r.timers \in Seq(Threads) /\ r.timeout \in [Threads -> 0..Ticks-1]
      BY <1>1, <2>1, <2>3, TicksAssumption
    <3>2. r.activated \in [Threads -> BOOLEAN]
      BY <1>1, <2>3
    <3>3. r = [c EXCEPT !.timeout = r.timeout, !.timers = r.timers, !.activated = r.activated]
      BY <2>2, <2>3, Zenon DEF KState
    <3>. QED BY <3>1, <3>2, <3>3, Zenon DEF KState
  <2>5. Range(r.timers) = {u \in Threads : r.activated[u]}
    <3>1. \A u \in Threads : r.activated[u] <=> u # t /\ c.activated[u]
      BY <1>1, <2>3, Zenon
    <3>2. Range(r.timers) = Range(c.timers) \ {t}
      BY <2>1, <2>3
    <3>. QED BY <3>1, <3>2, Zenon
  <2>6. ASSUME NEW b, InTime(c, b) PROVE InTime(r, b)
    <3>1. \A u \in Threads \ {t} : r.timeout[u] = c.timeout[u]
      BY <1>1, <2>3
    <3>. QED BY <2>3, <2>4, <2>6, <3>1, InTimeWithout DEF l
  <2>. QED BY <2>1, <2>3, <2>4, <2>5, <2>6
<1>. QED BY <1>2, <1>3

-----------------------------------------------------------------------------

(* A step that leaves the lists alone leaves t out of them. *)
LEMMA OutSame ==
  ASSUME NEW c, NEW r, NEW t, Others(c, t), Nowhere(c, t), SameLists(c, r)
  PROVE  Others(r, t) /\ Nowhere(r, t)
BY DEF Others, Nowhere, SameLists

(* rt_thread_resume, also of a thread that is ready already. *)
LEMMA ResumeThread ==
  ASSUME NEW c, Good(c), NEW t \in Threads, NEW r, r = rt_thread_resume(c, t)
  PROVE  Good(r) /\ Woken(c, r, t) /\ r.current = c.current /\ r.error = c.error
<1>0. c \in KState /\ Linked(c) /\ TimersLinked(c) /\ c.stat \in [Threads -> {"ready", "suspend"}]
  BY Zenon DEF Good, KState
<1>1. CASE c.stat[t] = "ready"
  <2>1. r = c
    BY <1>1 DEF rt_thread_resume
  <2>2. /\ \A o \in Objects : t \notin Range(c.waiting[o])
        /\ t \notin Range(c.timers)
    BY <1>0, <1>1 DEF Linked, TimersLinked
  <2>3. c.stat = [c.stat EXCEPT ![t] = "ready"]
    BY <1>0, <1>1
  <2>4. Woken(c, c, t)
    BY <2>2, <2>3 DEF Woken
  <2>. QED BY <2>1, <2>4
<1>2. CASE c.stat[t] = "suspend"
  <2> DEFINE l == rt_list_remove(c, t)
             s == rt_timer_stop(l, t)
             n == rt_schedule_insert_thread(s, t)
  <2>1. l \in KState /\ Others(l, t) /\ Nowhere(l, t) /\ Unlinked(c, l, t)
    BY <1>0, <1>2, UnlinkSuspended
  <2>2. Distinct(l.timers) /\ Range(l.timers) = {u \in Threads : l.activated[u]}
    BY <1>0, <2>1 DEF TimersLinked, Unlinked, SameTimers
  <2>3. /\ s \in KState /\ SameLists(l, s) /\ SameRest(l, s)
        /\ Distinct(s.timers) /\ Range(s.timers) = {u \in Threads : s.activated[u]}
        /\ Range(s.timers) = Range(l.timers) \ {t}
        /\ \A b : InTime(l, b) => InTime(s, b)
    <3> HIDE DEF l
    <3>. QED BY <2>1, <2>2, TimerStop, Zenon
  <2>4. Others(s, t) /\ Nowhere(s, t)
    BY <2>1, <2>3, OutSame
  <2>5. /\ n \in KState /\ Linked(n)
        /\ n.stat = [s.stat EXCEPT ![t] = "ready"] /\ n.waiting = s.waiting /\ n.prio = s.prio
        /\ SameRest(s, n) /\ SameTimers(s, n)
    <3> HIDE DEF s
    <3>. QED BY <2>3, <2>4, InsertThread
  <2>6. r = n
    BY <1>2 DEF rt_thread_resume
  <2> HIDE DEF l, s, n
  <2>7. n.current = c.current /\ n.error = c.error /\ n.lock = c.lock /\ n.tick = c.tick
        /\ n.remaining = c.remaining
    BY <2>1, <2>3, <2>5 DEF Unlinked, SameRest
  <2>8. n.stat = [c.stat EXCEPT ![t] = "ready"] /\ n.prio = c.prio /\ n.waiting = l.waiting
    BY <2>1, <2>3, <2>5 DEF Unlinked, SameLists
  <2>9. Range(n.timers) = Range(c.timers) \ {t}
    BY <2>1, <2>3, <2>5 DEF Unlinked, SameTimers
  <2>13. \A b : InTime(c, b) => InTime(n, b)
    <3>1. SameTimers(c, l) /\ SameTimers(s, n)
      BY <2>1, <2>5 DEF Unlinked
    <3>. QED BY <2>3, <3>1, InTimeSame
  <2>10. Woken(c, n, t)
    BY <2>1, <2>7, <2>8, <2>9, <2>13 DEF Woken, Unlinked
  <2>11. TimersLinked(n)
    <3>1. Distinct(n.timers) /\ Range(n.timers) = {u \in Threads : n.activated[u]}
      BY <2>3, <2>5 DEF SameTimers
    <3>2. \A u \in Range(c.timers) : c.stat[u] = "suspend" /\ u \in Threads
      BY <1>0, ListTypes DEF TimersLinked
    <3>3. \A u \in Range(n.timers) : n.stat[u] = "suspend"
      BY <1>0, <3>2, <2>8, <2>9
    <3>. QED BY <3>1, <3>3 DEF TimersLinked
  <2>12. n.stat[Idle] = "ready"
    BY <1>0, <2>8, ThreadsAssumption DEF Good
  <2>. QED BY <2>5, <2>6, <2>7, <2>10, <2>11, <2>12, Zenon DEF Good
<1>. QED BY <1>0, <1>1, <1>2

(* rt_thread_timeout and the stop of the timer, for a thread whose timer   *)
(* is in the list.                                                         *)
LEMMA TimeoutThread ==
  ASSUME NEW c, Good(c), NEW t \in Threads, t \in Range(c.timers), NEW r, r = rt_thread_timeout(c, t)
  PROVE  /\ Good(r) /\ Woken(c, r, t) /\ r.error = [c.error EXCEPT ![t] = "ETIMEOUT"]
         /\ IF c.lock # 0 THEN r.current = c.current ELSE r.stat[r.current] = "ready" /\ Urgent(r)
<1> DEFINE d == [c EXCEPT !.timers = Unlink(@, t), !.error[t] = "ETIMEOUT"]
           l == rt_list_remove(d, t)
           n == rt_schedule_insert_thread(l, t)
           s == rt_schedule(n)
<1>0. /\ c \in KState /\ Linked(c) /\ TimersLinked(c)
      /\ c.stat \in [Threads -> {"ready", "suspend"}] /\ c.stat[t] = "suspend"
      /\ c.timers \in Seq(Threads) /\ Distinct(c.timers)
      /\ c.activated \in [Threads -> BOOLEAN] /\ c.timeout \in [Threads -> 0..Ticks-1]
  BY Zenon DEF Good, KState, TimersLinked
<1>1. /\ Unlink(c.timers, t) \in Seq(Threads) /\ Distinct(Unlink(c.timers, t))
      /\ Range(Unlink(c.timers, t)) = Range(c.timers) \ {t}
  BY <1>0, UnlinkLinks
<1>2. /\ d.timers = Unlink(c.timers, t) /\ d.error = [c.error EXCEPT ![t] = "ETIMEOUT"]
      /\ d.timeout = c.timeout /\ d.activated = c.activated
      /\ d.current = c.current /\ d.lock = c.lock /\ d.tick = c.tick /\ d.remaining = c.remaining
      /\ SameLists(c, d) /\ d \in KState
  BY <1>0, <1>1, Zenon DEF KState, SameLists
<1>3. Linked(d) /\ d.stat[t] = "suspend"
  BY <1>0, <1>2 DEF Linked, SameLists
<1>4. l \in KState /\ Others(l, t) /\ Nowhere(l, t) /\ Unlinked(d, l, t)
  <2> HIDE DEF d
  <2>. QED BY <1>2, <1>3, UnlinkSuspended
<1>5. /\ n \in KState /\ Linked(n)
      /\ n.stat = [l.stat EXCEPT ![t] = "ready"] /\ n.waiting = l.waiting /\ n.prio = l.prio
      /\ SameRest(l, n) /\ SameTimers(l, n)
  <2> HIDE DEF l
  <2>. QED BY <1>4, InsertThread
<1>6. n.stat = [c.stat EXCEPT ![t] = "ready"] /\ n.prio = c.prio /\ n.waiting = l.waiting
  <2> HIDE DEF d, l, n
  <2>. QED BY <1>2, <1>4, <1>5 DEF Unlinked, SameLists
<1>7. n.stat[Idle] = "ready"
  <2> HIDE DEF n
  <2>. QED BY <1>0, <1>6, ThreadsAssumption DEF Good
<1>8. /\ s \in KState /\ Linked(s) /\ SameLists(n, s) /\ SameTimers(n, s)
      /\ s.lock = n.lock /\ s.error = n.error /\ s.remaining = n.remaining /\ s.tick = n.tick
      /\ n.lock # 0 => s = n
      /\ n.lock = 0 => s.stat[s.current] = "ready" /\ Urgent(s)
  <2> HIDE DEF n
  <2>. QED BY <1>5, <1>7, ScheduleReady, Zenon
<1>9. r = [s EXCEPT !.activated[t] = FALSE, !.timeout[t] = 0]
  BY DEF rt_thread_timeout
<1> HIDE DEF d, l, n, s
<1>10. /\ s.activated = c.activated /\ s.timeout = c.timeout /\ s.timers = Unlink(c.timers, t)
       /\ s.error = [c.error EXCEPT ![t] = "ETIMEOUT"]
       /\ s.lock = c.lock /\ s.tick = c.tick /\ s.remaining = c.remaining
       /\ s.stat = [c.stat EXCEPT ![t] = "ready"] /\ s.prio = c.prio /\ s.waiting = l.waiting
  BY <1>2, <1>4, <1>5, <1>6, <1>8, Zenon DEF SameTimers, Unlinked, SameRest, SameLists
<1>11. IF c.lock # 0 THEN s.current = c.current ELSE s.stat[s.current] = "ready" /\ Urgent(s)
  BY <1>2, <1>4, <1>5, <1>8, SMTT(20) DEF Unlinked, SameRest
<1>12. /\ [s.activated EXCEPT ![t] = FALSE] \in [Threads -> BOOLEAN]
       /\ [s.timeout EXCEPT ![t] = 0] \in [Threads -> 0..Ticks-1]
  BY <1>0, <1>10, TicksAssumption
<1>13. /\ r \in KState /\ SameLists(s, r) /\ SameRest(s, r) /\ r.timers = s.timers
       /\ r.activated = [s.activated EXCEPT ![t] = FALSE] /\ r.timeout = [s.timeout EXCEPT ![t] = 0]
  BY <1>8, <1>9, <1>12, Zenon DEF KState, SameLists, SameRest
<1>14. Range(r.timers) = Range(c.timers) \ {t} /\ Distinct(r.timers)
  BY <1>1, <1>10, <1>13
<1>15. Range(r.timers) = {u \in Threads : r.activated[u]}
  <2>1. Range(c.timers) = {u \in Threads : c.activated[u]}
    BY <1>0 DEF TimersLinked
  <2>2. \A u \in Threads : r.activated[u] <=> c.activated[u] /\ u # t
    <3>1. r.activated = [c.activated EXCEPT ![t] = FALSE] /\ c.activated \in [Threads -> BOOLEAN]
      BY <1>0, <1>10, <1>13
    <3>2. r.activated[t] = FALSE /\ \A u \in Threads \ {t} : r.activated[u] = c.activated[u]
      BY <3>1
    <3>. QED BY <3>2, Zenon
  <2>. QED BY <1>14, <2>1, <2>2
<1>16. r.stat = [c.stat EXCEPT ![t] = "ready"] /\ r.prio = c.prio /\ r.waiting = l.waiting
  BY <1>10, <1>13 DEF SameLists
<1>17. \A u \in Range(r.timers) : r.stat[u] = "suspend"
  <2>1. \A u \in Range(c.timers) : c.stat[u] = "suspend" /\ u \in Threads
    BY <1>0, ListTypes DEF TimersLinked
  <2>. QED BY <1>0, <1>14, <1>16, <2>1
<1>18. TimersLinked(r)
  BY <1>14, <1>15, <1>17 DEF TimersLinked
<1>19. Linked(r)
  BY <1>8, <1>13 DEF Linked, SameLists
<1>20. r.stat[Idle] = "ready"
  BY <1>0, <1>16, ThreadsAssumption DEF Good
<1>21. /\ r.lock = c.lock /\ r.tick = c.tick /\ r.remaining = c.remaining /\ r.current = s.current
       /\ r.error = [c.error EXCEPT ![t] = "ETIMEOUT"] /\ r.stat = s.stat
  BY <1>10, <1>13 DEF SameRest, SameLists
<1>22. \A o \in Objects : /\ Range(r.waiting[o]) = Range(c.waiting[o]) \ {t}
                         /\ \A priority : Sorted(c.waiting[o], priority) => Sorted(r.waiting[o], priority)
  BY <1>2, <1>4, <1>16 DEF Unlinked, SameLists
<1>24. ASSUME NEW b, InTime(c, b) PROVE InTime(r, b)
  <2>1. r.timers = Unlink(c.timers, t) /\ r.timeout = [c.timeout EXCEPT ![t] = 0]
    BY <1>10, <1>13
  <2>2. \A u \in Threads \ {t} : r.timeout[u] = c.timeout[u]
    BY <1>0, <2>1
  <2>. QED BY <1>0, <1>13, <1>24, <2>1, <2>2, InTimeWithout
<1>23. Woken(c, r, t)
  BY <1>14, <1>16, <1>21, <1>22, <1>24, Zenon DEF Woken
<1>25. Urgent(s) => Urgent(r)
  BY <1>13 DEF Urgent, SameLists, SameRest
<1>. QED BY <1>11, <1>13, <1>18, <1>19, <1>20, <1>21, <1>23, <1>25 DEF Good

-----------------------------------------------------------------------------

(* A ready thread is in no suspend list and has no timer. *)
LEMMA ReadyFree ==
  ASSUME NEW c, Good(c), NEW t \in Threads, c.stat[t] = "ready"
  PROVE  /\ \A o \in Objects : t \notin Range(c.waiting[o])
         /\ t \notin Range(c.timers) /\ ~c.activated[t]
<1>1. /\ \A o \in Objects : t \notin Range(c.waiting[o])
      /\ t \notin Range(c.timers)
  BY DEF Good, Linked, TimersLinked
<1>2. Range(c.timers) = {u \in Threads : c.activated[u]}
  BY DEF Good, TimersLinked
<1>. QED BY <1>1, <1>2

(* rt_thread_suspend of a ready thread. *)
LEMMA SuspendThread ==
  ASSUME NEW c, Good(c), NEW t \in Threads \ {Idle}, c.stat[t] = "ready", NEW r, r = rt_thread_suspend(c, t)
  PROVE  /\ Good(r) /\ r.stat = [c.stat EXCEPT ![t] = "suspend"] /\ r.prio = c.prio
         /\ SameWaiting(c, r) /\ SameRest(c, r) /\ SameTimers(c, r)
<1> DEFINE d == [c EXCEPT !.stat[t] = "suspend"]
           n == rt_schedule_remove_thread(d, t)
<1>0. c \in KState /\ Linked(c) /\ TimersLinked(c) /\ c.stat \in [Threads -> {"ready", "suspend"}]
  BY Zenon DEF Good, KState
<1>1. d \in KState /\ Others(d, t)
  BY <1>0, LinkedOthers, Zenon
<1>2. /\ d.stat = [c.stat EXCEPT ![t] = "suspend"] /\ d.prio = c.prio /\ d.waiting = c.waiting
      /\ SameRest(c, d) /\ SameTimers(c, d)
  BY <1>0 DEF KState, SameRest, SameTimers
<1>3. n \in KState /\ Others(n, t) /\ Nowhere(n, t) /\ Unlinked(d, n, t)
  <2> HIDE DEF d
  <2>. QED BY <1>1, RemoveThread
<1>4. r = n
  BY DEF rt_thread_suspend
<1> HIDE DEF d, n
<1>5. /\ n.stat = [c.stat EXCEPT ![t] = "suspend"] /\ n.prio = c.prio
      /\ SameRest(c, n) /\ SameTimers(c, n)
  BY <1>2, <1>3 DEF Unlinked, SameRest, SameTimers
<1>6. n.stat[t] = "suspend" /\ n.stat[Idle] = "ready"
  BY <1>0, <1>5, ThreadsAssumption DEF Good
<1>7. Linked(n)
  BY <1>3, <1>6, OutSuspended
<1>8. \A u \in Threads : c.stat[u] = "suspend" => n.stat[u] = "suspend"
  BY <1>0, <1>5
<1>9. Range(c.timers) \subseteq Threads
  BY <1>0, ListTypes
<1>10. TimersLinked(n)
  BY <1>0, <1>5, <1>8, <1>9 DEF TimersLinked, SameTimers
<1>11. SameWaiting(c, n)
  <2>1. d.waiting = c.waiting
    BY <1>2
  <2>2. \A o \in Objects : t \notin Range(c.waiting[o])
    BY ReadyFree
  <2>3. ASSUME NEW o \in Objects PROVE Range(n.waiting[o]) = Range(c.waiting[o])
    <3>1. Range(n.waiting[o]) = Range(d.waiting[o]) \ {t}
      BY <1>3 DEF Unlinked
    <3>. QED BY <2>1, <2>2, <3>1
  <2>4. ASSUME NEW o \in Objects, NEW priority, Sorted(c.waiting[o], priority)
        PROVE  Sorted(n.waiting[o], priority)
    BY <1>3, <2>1, <2>4 DEF Unlinked
  <2>. QED BY <2>3, <2>4 DEF SameWaiting
<1>. QED BY <1>3, <1>4, <1>5, <1>6, <1>7, <1>10, <1>11 DEF Good

(* The start of the timer of a suspended thread that has none. *)
LEMMA StartTimer ==
  ASSUME NEW c, Good(c), NEW t \in Threads, c.stat[t] = "suspend", ~c.activated[t],
         NEW time \in Nat, Half(time), NEW r, r = rt_timer_start(c, t, time)
  PROVE  /\ Good(r) /\ SameLists(c, r) /\ SameRest(c, r) /\ Range(r.timers) = Range(c.timers) \cup {t}
         /\ InTime(c, c.tick) => InTime(r, c.tick)
<1>0. Distinct(c.timers) /\ Range(c.timers) = {u \in Threads : c.activated[u]}
  BY Zenon DEF Good, TimersLinked
<1>1. c \in KState /\ TimersLinked(c)
  BY Zenon DEF Good
<1>6. Started(c, r, t)
  BY <1>0, <1>1, TimerStart, Zenon
<1>2. /\ r \in KState /\ SameLists(c, r) /\ SameRest(c, r)
      /\ Distinct(r.timers) /\ Range(r.timers) = {u \in Threads : r.activated[u]}
      /\ Range(r.timers) = Range(c.timers) \cup {t}
      /\ InTime(c, c.tick) => InTime(r, c.tick)
  BY <1>6 DEF Started
<1>3. \A u \in Range(r.timers) : r.stat[u] = "suspend"
  BY <1>1, <1>2 DEF TimersLinked, SameLists
<1>4. Linked(r)
  BY <1>2 DEF Good, Linked, SameLists
<1>5. TimersLinked(r) /\ r.stat[Idle] = "ready"
  BY <1>2, <1>3 DEF Good, TimersLinked, SameLists
<1>. QED BY <1>2, <1>4, <1>5 DEF Good

(* The part of rt_thread_sleep before rt_schedule. *)
LEMMA SleepThread ==
  ASSUME NEW c, Good(c), NEW t \in Threads \ {Idle}, c.stat[t] = "ready",
         NEW time \in Nat, Half(time), NEW r, r = Sleep(c, t, time)
  PROVE  /\ Good(r) /\ r.stat = [c.stat EXCEPT ![t] = "suspend"] /\ r.prio = c.prio
         /\ SameWaiting(c, r) /\ SameRest(c, r) /\ Range(r.timers) = Range(c.timers) \cup {t}
         /\ InTime(c, c.tick) => InTime(r, c.tick)
<1> DEFINE s == rt_thread_suspend(c, t)
<1>1. /\ Good(s) /\ s.stat = [c.stat EXCEPT ![t] = "suspend"] /\ s.prio = c.prio
      /\ SameWaiting(c, s) /\ SameRest(c, s) /\ SameTimers(c, s)
  BY SuspendThread
<1>2. r = rt_timer_start(s, t, time)
  BY DEF Sleep
<1> HIDE DEF s
<1>3. s.stat[t] = "suspend"
  BY <1>1 DEF Good, KState
<1>4. ~s.activated[t]
  BY <1>1, ReadyFree DEF SameTimers
<1>5. /\ Good(r) /\ SameLists(s, r) /\ SameRest(s, r) /\ Range(r.timers) = Range(s.timers) \cup {t}
      /\ InTime(s, s.tick) => InTime(r, s.tick)
  BY <1>1, <1>2, <1>3, <1>4, StartTimer
<1>6. InTime(c, c.tick) => InTime(r, c.tick)
  BY <1>1, <1>5, InTimeSame DEF SameRest
<1>. QED BY <1>1, <1>5, <1>6 DEF SameLists, SameRest, SameTimers, SameWaiting

(* rt_ipc_list_suspend after rt_thread_suspend: the thread, in no list, is *)
(* linked into a suspend list.                                             *)
LEMMA LinkWaiting ==
  ASSUME NEW c, Good(c), NEW t \in Threads, c.stat[t] = "suspend",
         \A o \in Objects : t \notin Range(c.waiting[o]),
         NEW o \in Objects, NEW l \in Seq(Threads), Distinct(l), Range(l) = Range(c.waiting[o]) \cup {t},
         NEW r \in KState, r.waiting[o] = l, \A q \in Objects \ {o} : r.waiting[q] = c.waiting[q],
         r.table = c.table, r.group = c.group, r.stat = c.stat, r.prio = c.prio, SameTimers(c, r)
  PROVE  Good(r)
<1>0. Linked(c) /\ TimersLinked(c) /\ c.stat[Idle] = "ready"
  BY DEF Good
<1>1. ASSUME NEW q \in Objects
      PROVE  /\ Distinct(r.waiting[q])
             /\ \A u \in Range(r.waiting[q]) :
                  r.stat[u] = "suspend" /\ \A x \in Objects \ {q} : u \notin Range(r.waiting[x])
  <2>1. CASE q = o
    BY <1>0, <2>1 DEF Linked
  <2>2. CASE q # o
    <3>1. r.waiting[q] = c.waiting[q]
      BY <2>2
    <3>2. ASSUME NEW u \in Range(c.waiting[q]), NEW x \in Objects \ {q} PROVE u \notin Range(r.waiting[x])
      <4>1. u \notin Range(c.waiting[x])
        BY <1>0, Zenon DEF Linked
      <4>2. u # t
        OBVIOUS
      <4>3. CASE x = o
        BY <4>1, <4>2, <4>3
      <4>4. CASE x # o
        BY <4>1, <4>4
      <4>. QED BY <4>3, <4>4
    <3>3. \A u \in Range(c.waiting[q]) : r.stat[u] = "suspend"
      BY <1>0 DEF Linked
    <3>4. Distinct(c.waiting[q])
      BY <1>0 DEF Linked
    <3>. QED BY <3>1, <3>2, <3>3, <3>4
  <2>. QED BY <2>1, <2>2
<1>2. ASSUME NEW p \in Prios
      PROVE  /\ Distinct(r.table[p])
             /\ Range(r.table[p]) = {u \in Threads : r.stat[u] = "ready" /\ r.prio[u] = p}
             /\ p \in r.group <=> r.table[p] # <<>>
  BY <1>0 DEF Linked
<1>3. Linked(r)
  BY <1>1, <1>2 DEF Linked
<1>4. TimersLinked(r) /\ r.stat[Idle] = "ready"
  BY <1>0 DEF TimersLinked, SameTimers
<1>. QED BY <1>3, <1>4 DEF Good

(* The common part of the calls that wait. *)
LEMMA WaitThread ==
  ASSUME NEW c, Good(c), NEW t \in Threads \ {Idle}, c.stat[t] = "ready", NEW o \in Objects,
         NEW flag, NEW time \in Int, Half(time), NEW r, r = Wait(c, t, o, flag, time)
  PROVE  /\ Good(r) /\ Waits(c, r, t, o)
         /\ flag = "PRIO" /\ Sorted(c.waiting[o], c.prio) => Sorted(r.waiting[o], c.prio)
<1> DEFINE e == [c EXCEPT !.error[t] = "EOK"]
           s == rt_thread_suspend(e, t)
           l == ListSuspend(s.waiting[o], t, flag, c.prio)
           w == [s EXCEPT !.waiting[o] = l]
<1>0. c \in KState /\ c.prio \in [Threads -> Nat] /\ c.stat \in [Threads -> {"ready", "suspend"}]
  BY PriosAssumption, Zenon DEF Good, KState
<1>1. /\ e \in KState /\ SameLists(c, e) /\ SameTimers(c, e) /\ e.error = [c.error EXCEPT ![t] = "EOK"]
      /\ e.current = c.current /\ e.lock = c.lock /\ e.tick = c.tick /\ e.remaining = c.remaining
  BY <1>0, Zenon DEF KState, SameLists, SameTimers
<1>2. Good(e) /\ e.stat[t] = "ready"
  <2> HIDE DEF e
  <2>. QED BY <1>1, SameListsGood DEF SameLists
<1>3. /\ Good(s) /\ s.stat = [e.stat EXCEPT ![t] = "suspend"] /\ s.prio = e.prio
      /\ SameWaiting(e, s) /\ SameRest(e, s) /\ SameTimers(e, s)
  <2> HIDE DEF e
  <2>. QED BY <1>2, SuspendThread
<1>4. w = [s EXCEPT !.waiting[o] = l] /\ r = IF time > 0 THEN rt_timer_start(w, t, time) ELSE w
  BY DEF Wait
<1>5. /\ \A q \in Objects : t \notin Range(e.waiting[q])
      /\ ~e.activated[t]
  <2> HIDE DEF e
  <2>. QED BY <1>2, ReadyFree
<1> HIDE DEF e, s
<1>6. /\ \A q \in Objects : t \notin Range(s.waiting[q])
      /\ ~s.activated[t]
  BY <1>3, <1>5 DEF SameWaiting, SameTimers
<1>7. s.waiting[o] \in Seq(Threads) /\ Distinct(s.waiting[o])
  BY <1>3, ListTypes, Zenon DEF Good, Linked
<1>8. /\ l \in Seq(Threads) /\ Distinct(l) /\ Range(l) = Range(s.waiting[o]) \cup {t}
  BY <1>6, <1>7, ListSuspendLinks
<1>9. flag = "PRIO" /\ Sorted(s.waiting[o], c.prio) => Sorted(l, c.prio)
  BY <1>0, <1>7, ListSuspendSorts
<1>10. s.stat = [c.stat EXCEPT ![t] = "suspend"] /\ s.prio = c.prio /\ SameWaiting(c, s)
  BY <1>1, <1>3 DEF SameLists, SameWaiting
<1>11. s.stat[t] = "suspend"
  BY <1>0, <1>10
<1> HIDE DEF l
<1>12. /\ w \in KState /\ w.waiting = [s.waiting EXCEPT ![o] = l] /\ w.table = s.table
       /\ w.group = s.group /\ w.stat = s.stat /\ w.prio = s.prio
       /\ SameRest(s, w) /\ SameTimers(s, w)
  BY <1>3, <1>8, Zenon DEF Good, KState, SameRest, SameTimers
<1> HIDE DEF w
<1>18. w.waiting[o] = l /\ \A q \in Objects \ {o} : w.waiting[q] = s.waiting[q]
  <2>1. s.waiting \in [Objects -> Seq(Threads)]
    BY <1>3 DEF Good, KState
  <2>. QED BY <1>12, <2>1
<1>19. Good(w)
  BY <1>3, <1>6, <1>8, <1>11, <1>12, <1>18, LinkWaiting, Zenon
<1>13. /\ Good(r) /\ SameLists(w, r) /\ SameRest(w, r) /\ Range(w.timers) \subseteq Range(r.timers)
       /\ InTime(w, w.tick) => InTime(r, w.tick)
  <2>1. CASE time > 0
    <3>1. w.stat[t] = "suspend" /\ ~w.activated[t]
      BY <1>6, <1>11, <1>12 DEF SameTimers
    <3>2. r = rt_timer_start(w, t, time) /\ time \in Nat
      BY <1>4, <2>1
    <3>. QED BY <1>19, <3>1, <3>2, StartTimer
  <2>2. CASE ~(time > 0)
    <3>1. r = w
      BY <1>4, <2>2
    <3>. QED BY <1>19, <3>1 DEF SameLists, SameRest
  <2>. QED BY <2>1, <2>2
<1>14. /\ r.waiting[o] = l
       /\ \A q \in Objects \ {o} : r.waiting[q] = s.waiting[q]
  BY <1>13, <1>18 DEF SameLists
<1>15. r.stat = [c.stat EXCEPT ![t] = "suspend"] /\ r.prio = c.prio
  BY <1>10, <1>12, <1>13 DEF SameLists
<1>16. /\ r.error = [c.error EXCEPT ![t] = "EOK"]
       /\ r.current = c.current /\ r.lock = c.lock /\ r.tick = c.tick /\ r.remaining = c.remaining
       /\ Range(c.timers) \subseteq Range(r.timers)
  BY <1>1, <1>3, <1>12, <1>13 DEF SameRest, SameTimers
<1>17. /\ Range(r.waiting[o]) = Range(c.waiting[o]) \cup {t}
       /\ \A q \in Objects \ {o} :
            /\ Range(r.waiting[q]) = Range(c.waiting[q])
            /\ \A priority : Sorted(c.waiting[q], priority) => Sorted(r.waiting[q], priority)
       /\ flag = "PRIO" /\ Sorted(c.waiting[o], c.prio) => Sorted(r.waiting[o], c.prio)
  <2>1. SameWaiting(c, s)
    BY <1>10
  <2>. QED BY <1>8, <1>9, <1>14, <2>1, Zenon DEF SameWaiting
<1>20. InTime(c, c.tick) => InTime(r, c.tick)
  <2>1. SameTimers(c, e) /\ SameTimers(e, s) /\ SameTimers(s, w) /\ w.tick = c.tick
    BY <1>1, <1>3, <1>12 DEF SameRest
  <2>2. SameTimers(c, w)
    BY <2>1 DEF SameTimers
  <2>. QED BY <1>13, <2>1, <2>2, InTimeSame
<1>. QED BY <1>13, <1>15, <1>16, <1>17, <1>20, Zenon DEF Waits

-----------------------------------------------------------------------------
(* rt_thread_control: thread t has priority p, in the lists too. *)
LEMMA ControlThread ==
  ASSUME NEW c, Good(c), NEW t \in Threads, NEW p \in Prios, NEW r, r = rt_thread_control(c, t, p)
  PROVE  /\ Good(r) /\ r.prio = [c.prio EXCEPT ![t] = p] /\ r.stat = c.stat
         /\ SameWaiting(c, r) /\ SameRest(c, r) /\ SameTimers(c, r)
<1>0. /\ c \in KState /\ Linked(c) /\ TimersLinked(c) /\ c.prio \in [Threads -> Prios]
      /\ c.stat \in [Threads -> {"ready", "suspend"}] /\ c.stat[Idle] = "ready"
  BY Zenon DEF Good, KState
<1>1. CASE c.stat[t] = "ready"
  <2> DEFINE l == rt_schedule_remove_thread(c, t)
             d == [l EXCEPT !.prio[t] = p]
             n == rt_schedule_insert_thread(d, t)
  <2>1. l \in KState /\ Others(l, t) /\ Nowhere(l, t) /\ Unlinked(c, l, t)
    BY <1>0, LinkedAsOthers, RemoveThread
  <2>2. r = n
    BY <1>1 DEF rt_thread_control
  <2>3. /\ d \in KState /\ d.table = l.table /\ d.group = l.group /\ d.waiting = l.waiting
        /\ d.stat = l.stat /\ d.prio = [l.prio EXCEPT ![t] = p] /\ SameRest(l, d) /\ SameTimers(l, d)
    <3> HIDE DEF l
    <3>. QED BY <2>1, Zenon DEF KState, SameRest, SameTimers
  <2>4. \A u \in Threads \ {t} : d.prio[u] = l.prio[u]
    <3>1. l.prio \in [Threads -> Prios]
      BY <1>0, <2>1, Zenon DEF Unlinked
    <3> HIDE DEF d, l
    <3>. QED BY <2>3, <3>1
  <2>5. d.table = l.table /\ d.group = l.group /\ d.waiting = l.waiting /\ d.stat = l.stat
    BY <2>3
  <2>6. Others(d, t) /\ Nowhere(d, t)
    <3> HIDE DEF d, l
    <3>1. Nowhere(d, t)
      BY <2>1, <2>5 DEF Nowhere
    <3>2. ASSUME NEW q \in Prios
          PROVE  /\ Distinct(d.table[q])
                 /\ \A u \in Threads \ {t} : u \in Range(d.table[q]) <=> d.stat[u] = "ready" /\ d.prio[u] = q
                 /\ t \in Range(d.table[q]) => d.prio[t] = q
                 /\ q \in d.group <=> d.table[q] # <<>>
      BY <2>1, <2>4, <2>5 DEF Others, Nowhere
    <3>3. ASSUME NEW o \in Objects
          PROVE  /\ Distinct(d.waiting[o])
                 /\ \A u \in Range(d.waiting[o]) \ {t} :
                      d.stat[u] = "suspend" /\ \A q \in Objects \ {o} : u \notin Range(d.waiting[q])
      BY <2>1, <2>5, Zenon DEF Others
    <3>. QED BY <3>1, <3>2, <3>3 DEF Others
  <2>7. /\ n \in KState /\ Linked(n)
        /\ n.stat = [d.stat EXCEPT ![t] = "ready"] /\ n.waiting = d.waiting /\ n.prio = d.prio
        /\ SameRest(d, n) /\ SameTimers(d, n)
    <3>1. d \in KState
      BY <2>3
    <3> HIDE DEF d
    <3>. QED BY <2>6, <3>1, InsertThread
  <2> HIDE DEF d, l, n
  <2>8. n.stat = c.stat
    <3>1. d.stat = c.stat
      BY <2>1, <2>5 DEF Unlinked
    <3>. QED BY <1>0, <1>1, <2>7, <3>1
  <2>9. n.prio = [c.prio EXCEPT ![t] = p]
    BY <2>1, <2>3, <2>7 DEF Unlinked
  <2>10. SameRest(c, n) /\ SameTimers(c, n)
    BY <2>1, <2>3, <2>7, Zenon DEF Unlinked, SameRest, SameTimers
  <2>11. SameWaiting(c, n)
    <3>1. n.waiting = l.waiting
      BY <2>5, <2>7, Zenon
    <3>2. ASSUME NEW o \in Objects PROVE Range(l.waiting[o]) = Range(c.waiting[o])
      <4>1. t \notin Range(c.waiting[o])
        BY <1>1, ReadyFree
      <4>. QED BY <2>1, <4>1 DEF Unlinked
    <3>3. ASSUME NEW o \in Objects, NEW priority, Sorted(c.waiting[o], priority)
          PROVE  Sorted(l.waiting[o], priority)
      BY <2>1, <3>3 DEF Unlinked
    <3>. QED BY <3>1, <3>2, <3>3 DEF SameWaiting
  <2>12. TimersLinked(n) /\ n.stat[Idle] = "ready"
    BY <1>0, <2>8, <2>10 DEF TimersLinked, SameTimers
  <2>13. Good(n)
    BY <2>7, <2>12 DEF Good
  <2>. QED BY <2>2, <2>8, <2>9, <2>10, <2>11, <2>13
<1>2. CASE c.stat[t] = "suspend"
  <2>1. r = [c EXCEPT !.prio[t] = p]
    BY <1>2 DEF rt_thread_control
  <2>2. /\ r \in KState /\ r.table = c.table /\ r.group = c.group /\ r.waiting = c.waiting
        /\ r.stat = c.stat /\ r.prio = [c.prio EXCEPT ![t] = p] /\ SameRest(c, r) /\ SameTimers(c, r)
    <3>1. c \in KState
      BY <1>0
    <3>2. r.table = c.table /\ r.group = c.group /\ r.waiting = c.waiting /\ r.stat = c.stat
      BY <2>1, <3>1 DEF KState
    <3>3. r.prio = [c.prio EXCEPT ![t] = p]
      BY <2>1, <3>1 DEF KState
    <3>4. SameRest(c, r) /\ SameTimers(c, r)
      BY <2>1, <3>1 DEF KState, SameRest, SameTimers
    <3>5. r \in KState
      <4> DEFINE x == [c.prio EXCEPT ![t] = p]
      <4>1. x \in [Threads -> Prios] /\ r = [c EXCEPT !.prio = x]
        BY <1>0, <2>1
      <4> HIDE DEF x
      <4>. QED BY <3>1, <4>1, Zenon DEF KState
    <3>. QED BY <3>2, <3>3, <3>4, <3>5
  <2>3. \A u \in Threads \ {t} : r.prio[u] = c.prio[u]
    BY <1>0, <2>2
  <2>4. /\ r \in KState /\ r.table = c.table /\ r.group = c.group /\ r.waiting = c.waiting
        /\ r.stat = c.stat /\ SameTimers(c, r)
    BY <2>2
  <2>5. ASSUME NEW q \in Prios
        PROVE  /\ Distinct(r.table[q])
               /\ Range(r.table[q]) = {u \in Threads : r.stat[u] = "ready" /\ r.prio[u] = q}
               /\ q \in r.group <=> r.table[q] # <<>>
    <3>1. {u \in Threads : r.stat[u] = "ready" /\ r.prio[u] = q}
            = {u \in Threads : c.stat[u] = "ready" /\ c.prio[u] = q}
      BY <1>2, <2>3, <2>4
    <3>. QED BY <1>0, <2>4, <3>1 DEF Linked
  <2>6. Linked(r)
    BY <1>0, <2>4, <2>5 DEF Linked
  <2>7. TimersLinked(r) /\ r.stat[Idle] = "ready"
    BY <1>0, <2>4 DEF TimersLinked, SameTimers
  <2>8. SameWaiting(c, r)
    BY <2>4 DEF SameWaiting
  <2>9. Good(r)
    BY <2>4, <2>6, <2>7 DEF Good
  <2>. QED BY <2>2, <2>8, <2>9
<1>. QED BY <1>0, <1>1, <1>2

(* A ready thread goes to the end of the list of its priority. *)
LEMMA MoveToEnd ==
  ASSUME NEW c, Good(c), NEW t \in Threads, c.stat[t] = "ready"
  PROVE  LET r == [rt_list_remove(c, t) EXCEPT !.table[c.prio[t]] = Append(@, t)]
         IN  /\ Good(r) /\ r.stat = c.stat /\ r.prio = c.prio
             /\ SameWaiting(c, r) /\ SameRest(c, r) /\ SameTimers(c, r)
<1> DEFINE l == rt_list_remove(c, t)
           p == c.prio[t]
           x == Append(l.table[p], t)
           r == [l EXCEPT !.table[p] = x]
<1>0. /\ c \in KState /\ Linked(c) /\ TimersLinked(c) /\ c.prio \in [Threads -> Prios]
      /\ c.stat[Idle] = "ready" /\ p \in Prios
  BY Zenon DEF Good, KState
<1>1. /\ l \in KState
      /\ \A q \in Prios : Distinct(l.table[q]) /\ Range(l.table[q]) = Range(c.table[q]) \ {t}
      /\ \A o \in Objects : Distinct(l.waiting[o]) /\ Range(l.waiting[o]) = Range(c.waiting[o]) \ {t}
      /\ \A o \in Objects : \A priority : Sorted(c.waiting[o], priority) => Sorted(l.waiting[o], priority)
      /\ l.stat = c.stat /\ l.prio = c.prio /\ l.group = c.group
      /\ SameRest(c, l) /\ SameTimers(c, l)
  BY <1>0, ListRemove, Zenon DEF Linked
<1> HIDE DEF l, p
<1>3. l.table[p] \in Seq(Threads) /\ l.table \in [Prios -> Seq(Threads)]
  BY <1>0, <1>1 DEF KState
<1>4. /\ x \in Seq(Threads) /\ Range(x) = Range(l.table[p]) \cup {t} /\ Distinct(x) /\ x # <<>>
  <2>1. Distinct(l.table[p]) /\ t \notin Range(l.table[p])
    BY <1>0, <1>1, Zenon
  <2>2. x \in Seq(Threads) /\ Range(x) = Range(l.table[p]) \cup {t} /\ Distinct(x)
    BY <1>3, <2>1, AppendLinks
  <2> HIDE DEF x
  <2>. QED BY <2>2, EmptyList, Zenon
<1> HIDE DEF x
<1>5. /\ r.table = [l.table EXCEPT ![p] = x] /\ r.group = l.group /\ r.waiting = l.waiting
      /\ r.stat = l.stat /\ r.prio = l.prio /\ SameRest(l, r) /\ SameTimers(l, r)
  <2>1. l \in KState
    BY <1>1
  <2>. QED BY <2>1 DEF KState, SameRest, SameTimers
<1>6. r \in KState
  <2> DEFINE y == [l.table EXCEPT ![p] = x]
  <2>1. y \in [Prios -> Seq(Threads)] /\ r = [l EXCEPT !.table = y]
    BY <1>0, <1>3, <1>4
  <2>2. l \in KState
    BY <1>1
  <2> HIDE DEF y
  <2>. QED BY <2>1, <2>2, Zenon DEF KState
<1> HIDE DEF r
<1>7. r.table[p] = x /\ \A q \in Prios \ {p} : r.table[q] = l.table[q]
  BY <1>0, <1>3, <1>5
<1>8. r.stat = c.stat /\ r.prio = c.prio /\ SameRest(c, r) /\ SameTimers(c, r) /\ r.group = c.group
  BY <1>1, <1>5, Zenon DEF SameRest, SameTimers
<1>9. ASSUME NEW q \in Prios
      PROVE  /\ Distinct(r.table[q])
             /\ Range(r.table[q]) = Range(c.table[q])
             /\ q \in r.group <=> r.table[q] # <<>>
  <2>1. /\ Range(c.table[q]) = {u \in Threads : c.stat[u] = "ready" /\ c.prio[u] = q}
        /\ q \in c.group <=> c.table[q] # <<>>
    BY <1>0 DEF Linked
  <2>2. c.table[q] \in Seq(Threads) /\ l.table[q] \in Seq(Threads)
    BY <1>0, <1>1, ListTypes, Zenon
  <2>3. CASE q = p
    <3>1. t \in Range(c.table[q])
      BY <2>1, <2>3 DEF p
    <3>2. Range(r.table[q]) = Range(c.table[q]) /\ Distinct(r.table[q]) /\ r.table[q] # <<>>
      BY <1>1, <1>4, <1>7, <2>3, <3>1, Zenon
    <3>3. c.table[q] # <<>>
      BY <2>2, <3>1, EmptyList
    <3>. QED BY <1>8, <2>1, <3>2, <3>3
  <2>4. CASE q # p
    <3>1. t \notin Range(c.table[q])
      BY <2>1, <2>4 DEF p
    <3>2. Range(r.table[q]) = Range(c.table[q]) /\ Distinct(r.table[q]) /\ r.table[q] = l.table[q]
      BY <1>1, <1>7, <2>4, <3>1
    <3>3. c.table[q] = <<>> <=> r.table[q] = <<>>
      BY <2>2, <3>2, EmptyList
    <3>. QED BY <1>8, <2>1, <3>2, <3>3
  <2>. QED BY <2>3, <2>4
<1>10. ASSUME NEW o \in Objects
       PROVE  Range(r.waiting[o]) = Range(c.waiting[o]) /\ Distinct(r.waiting[o])
  <2>1. t \notin Range(c.waiting[o])
    BY ReadyFree
  <2>2. Range(l.waiting[o]) = Range(c.waiting[o]) \ {t} /\ Distinct(l.waiting[o])
    BY <1>1
  <2>3. r.waiting = l.waiting
    BY <1>5
  <2>. QED BY <2>1, <2>2, <2>3
<1>11. SameWaiting(c, r)
  <2>1. ASSUME NEW o \in Objects, NEW priority, Sorted(c.waiting[o], priority)
        PROVE  Sorted(r.waiting[o], priority)
    BY <1>1, <1>5, <2>1
  <2>. QED BY <1>10, <2>1 DEF SameWaiting
<1>12. Linked(r)
  BY <1>0, <1>8, <1>9, <1>10, SMTT(20) DEF Linked
<1>13. TimersLinked(r) /\ r.stat[Idle] = "ready"
  BY <1>0, <1>8 DEF TimersLinked, SameTimers
<1>14. Good(r)
  BY <1>6, <1>12, <1>13 DEF Good
<1>. QED BY <1>8, <1>11, <1>14 DEF r, x, p, l

(* The running thread moves behind those of its priority. *)
LEMMA RotateThread ==
  ASSUME NEW c, Good(c), Rotates(c), NEW r, r = Rotate(c)
  PROVE  /\ Good(r) /\ r.stat = c.stat /\ r.prio = c.prio
         /\ SameWaiting(c, r) /\ SameRest(c, r) /\ SameTimers(c, r)
<1> DEFINE t == c.current
<1>1. t \in Threads /\ c.stat[t] = "ready"
  BY Zenon DEF Good, KState, Rotates
<1>2. r = [rt_list_remove(c, t) EXCEPT !.table[c.prio[t]] = Append(@, t)]
  BY DEF Rotate
<1> HIDE DEF t
<1>. QED BY <1>1, <1>2, MoveToEnd

LEMMA RotateTurns ==
  ASSUME NEW c, Good(c), Rotates(c), NEW r, r = Rotate(c)
  PROVE  Good(r) /\ Turns(c, r) /\ r.current = c.current /\ r.tick = c.tick
BY RotateThread, Zenon DEF Turns, SameRest

(* rt_thread_yield moves the running thread behind those of its priority   *)
(* and schedules.                                                          *)
LEMMA YieldThread ==
  ASSUME NEW c, Good(c), NEW r, r = rt_thread_yield(c)
  PROVE  Good(r) /\ Turns(c, r) /\ r.tick = c.tick
<1> DEFINE e == Rotate(c)
           n == rt_schedule(e)
<1>1. CASE Rotates(c)
  <2>1. /\ Good(e) /\ e.stat = c.stat /\ e.prio = c.prio
        /\ SameWaiting(c, e) /\ SameRest(c, e) /\ SameTimers(c, e)
    BY <1>1, RotateThread
  <2>2. r = n
    BY <1>1, Zenon DEF rt_thread_yield
  <2> HIDE DEF e
  <2>3. /\ n \in KState /\ SameLists(e, n) /\ SameTimers(e, n)
        /\ n.lock = e.lock /\ n.error = e.error /\ n.tick = e.tick
        /\ e.lock # 0 => n = e
        /\ e.lock = 0 => n.stat[n.current] = "ready" /\ Urgent(n)
    BY <2>1, ScheduleReady, Zenon DEF Good
  <2> HIDE DEF n
  <2>4. Good(n)
    BY <2>1, <2>3, SameListsGood
  <2>5. e.lock \in Nat
    BY <2>1, Zenon DEF Good, KState
  <2>6. n.current = c.current \/ (n.lock = 0 /\ n.stat[n.current] = "ready" /\ Urgent(n))
    BY <2>1, <2>3, <2>5 DEF SameRest
  <2>7. Turns(c, n)
    BY <2>1, <2>3, <2>6 DEF Turns, SameLists, SameRest, SameTimers, SameWaiting
  <2>8. n.tick = c.tick
    BY <2>1, <2>3 DEF SameRest
  <2>. QED BY <2>2, <2>4, <2>7, <2>8
<1>2. CASE ~Rotates(c)
  <2>1. r = c
    BY <1>2, Zenon DEF rt_thread_yield
  <2>. QED BY <2>1, Zenon DEF Turns, SameWaiting, SameTimers
<1>. QED BY <1>1, <1>2

(* The clock interrupt up to rt_timer_check. *)
LEMMA TickThread ==
  ASSUME NEW c, Good(c), NEW r, r = rt_tick_increase(c)
  PROVE  Good(r) /\ Turns(c, r) /\ r.tick = Plus(c.tick, 1)
<1> DEFINE t == c.current
           x == c.remaining[t] - 1
           y == IF x = 0 THEN Slice ELSE x
           m == [c.remaining EXCEPT ![t] = y]
           h == Plus(c.tick, 1)
           d == [c EXCEPT !.tick = h, !.remaining = m]
<1>0. /\ c \in KState /\ t \in Threads /\ c.tick \in 0..Ticks-1 /\ c.remaining \in [Threads -> 1..Slice]
  BY Zenon DEF Good, KState
<1>1. h \in 0..Ticks-1
  BY <1>0, TicksAssumption DEF Plus
<1>2. y \in 1..Slice
  BY <1>0, SliceAssumption
<1>3. m \in [Threads -> 1..Slice]
  BY <1>0, <1>2
<1>4. IF x = 0 THEN r = rt_thread_yield(d) ELSE r = d
  <2> DEFINE n == [c EXCEPT !.tick = h, !.remaining[t] = @ - 1]
  <2>1. IF n.remaining[t] = 0 THEN r = rt_thread_yield([n EXCEPT !.remaining[t] = Slice]) ELSE r = n
    BY DEF rt_tick_increase
  <2>2. n.remaining[t] = x
    BY <1>0 DEF KState
  <2>3. [n EXCEPT !.remaining[t] = Slice] = [c EXCEPT !.tick = h, !.remaining = [c.remaining EXCEPT ![t] = Slice]]
    BY <1>0, Zenon DEF KState
  <2>4. n = [c EXCEPT !.tick = h, !.remaining = [c.remaining EXCEPT ![t] = x]]
    BY <1>0 DEF KState
  <2> HIDE DEF n
  <2>5. CASE x = 0
    <3>1. d = [c EXCEPT !.tick = h, !.remaining = [c.remaining EXCEPT ![t] = Slice]]
      BY <2>5
    <3>. QED BY <2>1, <2>2, <2>3, <2>5, <3>1, Zenon
  <2>6. CASE x # 0
    <3>1. d = [c EXCEPT !.tick = h, !.remaining = [c.remaining EXCEPT ![t] = x]]
      BY <2>6
    <3>. QED BY <2>1, <2>2, <2>4, <2>6, <3>1, Zenon
  <2>. QED BY <2>5, <2>6
<1> HIDE DEF h, m, y
<1>5. /\ d \in KState /\ SameLists(c, d) /\ SameTimers(c, d)
      /\ d.current = c.current /\ d.lock = c.lock /\ d.error = c.error /\ d.tick = h
  BY <1>0, <1>1, <1>3, Zenon DEF KState, SameLists, SameTimers
<1> HIDE DEF d, t, x
<1>6. Good(d)
  BY <1>5, SameListsGood
<1>7. CASE x = 0
  <2>1. Good(r) /\ Turns(d, r) /\ r.tick = d.tick
    BY <1>4, <1>6, <1>7, YieldThread
  <2>2. Turns(c, r)
    BY <1>5, <2>1 DEF Turns, SameLists, SameTimers, SameWaiting
  <2>. QED BY <1>5, <2>1, <2>2 DEF h
<1>8. CASE x # 0
  <2>1. r = d
    BY <1>4, <1>8
  <2>2. Turns(c, d)
    BY <1>5 DEF Turns, SameLists, SameTimers, SameWaiting
  <2>. QED BY <1>5, <1>6, <2>1, <2>2 DEF h
<1>. QED BY <1>7, <1>8, Zenon

(* A turn of rt_ipc_list_resume_all. *)
LEMMA ResumeFailedThread ==
  ASSUME NEW c, Good(c), NEW o \in Objects, Waited(c, o), NEW r, r = ResumeFailed(c, o)
  PROVE  LET t == Head(c.waiting[o])
         IN  /\ t \in Range(c.waiting[o]) /\ t \in Threads
             /\ Good(r) /\ Woken(c, r, t) /\ r.current = c.current
             /\ r.error = [c.error EXCEPT ![t] = "ERROR"]
<1> DEFINE t == Head(c.waiting[o])
           d == [c EXCEPT !.error[t] = "ERROR"]
<1>0. c \in KState /\ c.waiting[o] \in Seq(Threads) /\ Range(c.waiting[o]) \subseteq Threads
  BY ListTypes DEF Good
<1>1. t \in Range(c.waiting[o]) /\ t \in Threads
  BY <1>0, ResumedLinks, Zenon DEF Waited, Good, Linked
<1>2. r = rt_thread_resume(d, t)
  BY DEF ResumeFailed
<1> HIDE DEF t
<1>3. /\ d \in KState /\ SameLists(c, d) /\ SameTimers(c, d) /\ d.error = [c.error EXCEPT ![t] = "ERROR"]
      /\ d.current = c.current /\ d.lock = c.lock /\ d.tick = c.tick /\ d.remaining = c.remaining
  BY <1>0, <1>1, Zenon DEF KState, SameLists, SameTimers
<1> HIDE DEF d
<1>4. Good(d)
  BY <1>3, SameListsGood
<1>5. Good(r) /\ Woken(d, r, t) /\ r.current = d.current /\ r.error = d.error
  BY <1>1, <1>2, <1>4, ResumeThread
<1>7. \A b : InTime(c, b) => InTime(r, b)
  BY <1>3, <1>5, InTimeSame DEF Woken
<1>6. Woken(c, r, t)
  BY <1>3, <1>5, <1>7 DEF Woken, SameLists, SameTimers
<1>. QED BY <1>1, <1>3, <1>5, <1>6 DEF t

-----------------------------------------------------------------------------
(* The functions of Scheduler keep their contract, for any threads, any    *)
(* priorities, any objects and any range of the tick counter.              *)
THEOREM SchedulerMeetsContract == SchedulerContract
<1>1. HeadTaken
  BY ResumedLinks DEF HeadTaken, Resumed
<1>2. SortKept
  BY SortedSame DEF SortKept
<1>3. EmptyRange
  BY EmptyList DEF EmptyRange
<1>4. ListsTyped
  BY ListTypes DEF ListsTyped
<1>5. ReadyUnlisted
  BY ReadyFree DEF ReadyUnlisted
<1>6. GoodKept
  BY SameListsGood DEF GoodKept
<1>7. InTimeKept
  BY InTimeSame DEF InTimeKept
<1>8. TickBefore
  BY TickBack DEF TickBefore
<1>9. NoneDue
  BY CaughtUp DEF NoneDue
<1>10. Schedules
  BY ScheduleReady DEF Schedules
<1>11. Resumes
  BY ResumeThread DEF Resumes
<1>12. TimesOut
  BY TimeoutThread DEF TimesOut
<1>13. ResumesFailed
  BY ResumeFailedThread DEF ResumesFailed
<1>14. Sleeps
  BY SleepThread DEF Sleeps
<1>15. WaitsFor
  BY WaitThread DEF WaitsFor
<1>16. ChangesPrio
  BY ControlThread DEF ChangesPrio
<1>17. Yields
  BY RotateTurns DEF Yields
<1>18. TicksOn
  BY TickThread DEF TicksOn
<1>. QED BY <1>1, <1>2, <1>3, <1>4, <1>5, <1>6, <1>7, <1>8, <1>9, <1>10, <1>11, <1>12, <1>13, <1>14, <1>15, <1>16, <1>17, <1>18 DEF SchedulerContract
=============================================================================
