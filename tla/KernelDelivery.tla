---------------------------- MODULE KernelDelivery ----------------------------
(***************************************************************************)
(* Every step of Kernel keeps the invariant JInv: no release of the        *)
(* semaphore and no event is lost, for any number of threads and any       *)
(* events.  The invariant IInv, which KernelProofs shows to be kept, and   *)
(* the contract of the functions of Scheduler are assumed.                 *)
(***************************************************************************)
EXTENDS KernelInvariant, FiniteSetTheorems, TLAPS

(* The leaves are for Zenon, unless they name SMT. *)
USE Zenon

(* Nothing happens to thread u: in the kernel's lists, in its call. *)
KSame(u) ==
  /\ k'.stat[u] = k.stat[u] /\ k'.error[u] = k.error[u]
  /\ \A o \in {Sem, Event} : u \in Range(k'.waiting[o]) <=> u \in Range(k.waiting[o])
CSame(u) ==
  /\ call'[u] = call[u] /\ info'[u] = info[u]
  /\ pc'[u] = "run" <=> pc[u] = "run"

(* The step keeps the place of thread u and what it has been given. *)
Kept(u) == Place(u)' /\ (Grant(u, Sem)' <=> Grant(u, Sem))

(* Fewer bits satisfy fewer threads. *)
LEMMA FewerBits ==
  ASSUME NEW i \in Infos, NEW s, NEW z, z \subseteq s, ~Satisfied(i, s)
  PROVE  ~Satisfied(i, z)
BY DEF Satisfied, Infos

(* A thread that nothing happens to keeps its place, if the bits it waits  *)
(* for do not arrive, or the loop of rt_event_send comes to it.            *)
LEMMA SameKept ==
  ASSUME NEW u \in Threads, Place(u), info[u] \in Infos, KSame(u), CSame(u),
         Resets(u)' <=> Resets(u),
         u \in Range(k.waiting[Event]) => InRest(u)' \/ (~InRest(u) /\ set' \subseteq set)
  PROVE  Kept(u)
<1>1. \A o : Grant(u, o)' <=> Grant(u, o)
  BY DEF Grant, KSame, CSame
<1>2. u \in Range(k'.waiting[Event]) => InRest(u)' \/ ~Satisfied(info[u], set')
  BY FewerBits DEF Place, KSame
<1>. QED BY <1>1, <1>2 DEF Kept, Place, KSame, CSame

(* The same while no loop of rt_event_send or rt_ipc_list_resume_all runs. *)
LEMMA CalmKept ==
  ASSUME JInv, NEW u \in Threads, KSame(u), CSame(u), set' \subseteq set,
         busy.loop \notin {"send", "reset"}, busy'.loop \notin {"send", "reset"}
  PROVE  Kept(u)
<1>1. Place(u) /\ info[u] \in Infos
  BY DEF JInv, Sound
<1>2. ~Resets(u) /\ ~Resets(u)' /\ ~InRest(u)
  BY DEF Resets, InRest
<1>. QED BY <1>1, <1>2, SameKept

(* A thread that is in no list and has been given nothing. *)
LEMMA OutKept ==
  ASSUME NEW u \in Threads, \A o \in {Sem, Event} : u \notin Range(k'.waiting[o]),
         ~Grant(u, Sem), ~Grant(u, Sem)', ~Grant(u, Event)',
         pc'[u] = "run" => call'[u] = "other"
  PROVE  Kept(u)
BY DEF Kept, Place

(* What most steps do not change. *)
LEMMA SoundSame ==
  ASSUME JInv, UNCHANGED <<info, set, value, tokens>>, k'.lock = k.lock, mutex'.hold <= MaxHold,
         busy'.loop # "send", Range(k'.waiting[Sem]) \subseteq Range(k.waiting[Sem])
  PROVE  Sound'
BY DEF JInv, Sound

LEMMA GrantsFinite == IsFiniteSet(Grants) /\ Cardinality(Grants) \in Nat
<1>1. Grants \subseteq Threads /\ IsFiniteSet(Threads)
  BY ThreadsAssumption DEF Grants
<1>. QED BY <1>1, FS_Subset, FS_CardinalityType

(* A step that gives the semaphore to nobody. *)
LEMMA AllKept ==
  ASSUME JInv, \A u \in Threads : Kept(u), Sound', tokens' - value' = tokens - value
  PROVE  JInv'
<1>1. Grants' = Grants
  BY DEF Grants, Kept
<1>2. tokens' = value' + Cardinality(Grants)
  BY GrantsFinite, SMT DEF JInv, Sound
<1>. QED BY <1>1, <1>2 DEF JInv, Kept

(* A release that gives it to thread t. *)
LEMMA OneGranted ==
  ASSUME JInv, NEW t \in Threads, \A u \in Threads \ {t} : Kept(u), Place(t)', Sound',
         ~Grant(t, Sem), Grant(t, Sem)', value' = value, tokens' = tokens + 1
  PROVE  JInv'
<1>1. Grants' = Grants \cup {t} /\ t \notin Grants
  BY DEF Grants, Kept
<1>2. Cardinality(Grants \cup {t}) = Cardinality(Grants) + 1
  BY <1>1, GrantsFinite, FS_AddElement
<1>3. tokens' = value' + Cardinality(Grants \cup {t})
  BY <1>2, GrantsFinite, SMT DEF JInv, Sound
<1>. QED BY <1>1, <1>3 DEF JInv, Kept

(* The return of the take to which it was given. *)
LEMMA OneTaken ==
  ASSUME JInv, NEW t \in Threads, \A u \in Threads \ {t} : Kept(u), Place(t)', Sound',
         Grant(t, Sem), ~Grant(t, Sem)', value' = value, tokens' = tokens - 1
  PROVE  JInv'
<1>1. Grants' = Grants \ {t} /\ t \in Grants
  BY DEF Grants, Kept
<1>2. Cardinality(Grants \ {t}) = Cardinality(Grants) - 1
  BY <1>1, GrantsFinite, FS_RemoveElement
<1>3. tokens' = value' + Cardinality(Grants \ {t})
  BY <1>2, GrantsFinite, SMT DEF JInv, Sound
<1>. QED BY <1>1, <1>3 DEF JInv, Kept

-----------------------------------------------------------------------------
(* The empty list. *)
LEMMA NothingListed == Distinct(<<>>) /\ Range(<<>>) = {}
BY SMT DEF Distinct, Range

(* The kernel's lists, as the functions of Scheduler leave them. *)
LEMMA ListsSame ==
  ASSUME k'.stat = k.stat, k'.error = k.error, SameWaiting(k, k')
  PROVE  \A u \in Threads : KSame(u)
<1>1. \A o \in {Sem, Event} : Range(k'.waiting[o]) = Range(k.waiting[o])
  BY ObjectsAssumption DEF SameWaiting
<1>. QED BY <1>1 DEF KSame

LEMMA WokenSame ==
  ASSUME IInv, NEW t \in Threads, NEW c, NEW r, Woken(c, r, t),
         c = k \/ (c.stat = k.stat /\ c.lock = k.lock /\ SameWaiting(k, c)),
         k' = r \/ (SameLists(r, k') /\ k'.lock = r.lock),
         \A u \in Threads \ {t} : k'.error[u] = k.error[u]
  PROVE  /\ \A u \in Threads \ {t} : KSame(u)
         /\ k'.stat[t] = "ready" /\ k'.lock = k.lock
         /\ \A o \in {Sem, Event} : Range(k'.waiting[o]) = Range(k.waiting[o]) \ {t}
<1>1. c.stat = k.stat /\ c.lock = k.lock /\ \A o \in Objects : Range(c.waiting[o]) = Range(k.waiting[o])
  BY DEF SameWaiting
<1>2. k'.stat = r.stat /\ k'.lock = r.lock /\ k'.waiting = r.waiting
  BY DEF SameLists
<1>3. \A o \in {Sem, Event} : Range(k'.waiting[o]) = Range(k.waiting[o]) \ {t}
  BY <1>1, <1>2, ObjectsAssumption DEF Woken
<1>4. k.stat \in [Threads -> {"ready", "suspend"}]
  BY DEF IInv, Good, KState
<1>5. /\ k'.stat[t] = "ready" /\ k'.lock = k.lock
      /\ \A u \in Threads \ {t} : k'.stat[u] = k.stat[u]
  BY <1>1, <1>2, <1>4 DEF Woken
<1>. QED BY <1>3, <1>5 DEF KSame

LEMMA WaitsSame ==
  ASSUME SchedulerContract, IInv, NEW t \in Threads, k.stat[t] = "ready", NEW x \in Objects, NEW c,
         Waits(c, k', t, x),
         c.stat = k.stat, c.error = k.error, c.lock = k.lock, SameWaiting(k, c)
  PROVE  /\ \A u \in Threads \ {t} : KSame(u)
         /\ k'.stat[t] = "suspend" /\ k'.error[t] = "EOK" /\ k'.lock = k.lock
         /\ \A o \in {Sem, Event} :
              Range(k'.waiting[o]) = IF o = x THEN Range(k.waiting[o]) \cup {t} ELSE Range(k.waiting[o])
         /\ \A o \in {Sem, Event} : t \notin Range(k.waiting[o])
<1>1. /\ k.stat \in [Threads -> {"ready", "suspend"}]
      /\ k.error \in [Threads -> {"EOK", "ETIMEOUT", "ERROR"}] /\ Good(k)
  BY DEF IInv, Good, KState
<1>2. /\ k'.stat[t] = "suspend" /\ \A u \in Threads \ {t} : k'.stat[u] = k.stat[u]
      /\ k'.error[t] = "EOK" /\ \A u \in Threads \ {t} : k'.error[u] = k.error[u]
  <2>1. k'.stat = [k.stat EXCEPT ![t] = "suspend"] /\ k'.error = [k.error EXCEPT ![t] = "EOK"]
    BY DEF Waits
  <2>. QED BY <1>1, <2>1
<1>3. \A o \in {Sem, Event} : t \notin Range(k.waiting[o])
  BY <1>1, ObjectsAssumption DEF SchedulerContract, ReadyUnlisted
<1>4. \A o \in {Sem, Event} :
        Range(k'.waiting[o]) = IF o = x THEN Range(k.waiting[o]) \cup {t} ELSE Range(k.waiting[o])
  <2>1. \A o \in {Sem, Event} : o \in Objects /\ Range(c.waiting[o]) = Range(k.waiting[o])
    BY ObjectsAssumption DEF SameWaiting
  <2>2. /\ Range(k'.waiting[x]) = Range(c.waiting[x]) \cup {t}
        /\ \A q \in Objects \ {x} : Range(k'.waiting[q]) = Range(c.waiting[q])
    BY DEF Waits
  <2>. QED BY <2>1, <2>2
<1>5. k'.lock = k.lock
  BY DEF Waits
<1>6. \A u \in Threads \ {t} : KSame(u)
  BY <1>2, <1>4 DEF KSame
<1>. QED BY <1>2, <1>3, <1>4, <1>5, <1>6

(* A thread that runs its own code. *)
LEMMA RunsFree ==
  ASSUME SchedulerContract, IInv, JInv, NEW t \in Threads, Runs(t)
  PROVE  /\ k.stat[t] = "ready" /\ call[t] = "other" /\ pc[t] = "run" /\ busy = NoLoop
         /\ busy.loop = "none" /\ ~Grant(t, Sem) /\ k.current = t /\ t # Idle
         /\ \A o \in {Sem, Event} : t \notin Range(k.waiting[o])
<1>0. pc[t] = "run" /\ busy = NoLoop /\ k.current = t /\ t # Idle
  BY DEF Runs
<1>1. k.stat[t] = "ready"
  BY <1>0 DEF IInv, Good, KState, Reasons
<1>2. busy.loop = "none"
  BY <1>0 DEF NoLoop
<1>3. call[t] = "other"
  BY <1>0, <1>2 DEF JInv, Place, Resets
<1>4. \A o \in {Sem, Event} : t \notin Range(k.waiting[o])
  BY <1>1, ObjectsAssumption DEF IInv, SchedulerContract, ReadyUnlisted
<1>. QED BY <1>0, <1>1, <1>2, <1>3, <1>4 DEF Grant

(* Steps that leave the lists and the calls alone. *)
LEMMA CalmStep ==
  ASSUME JInv, \A u \in Threads : KSame(u), \A u \in Threads : CSame(u), set' \subseteq set,
         busy.loop \notin {"send", "reset"}, busy'.loop \notin {"send", "reset"},
         Sound', tokens' - value' = tokens - value
  PROVE  JInv'
BY CalmKept, AllKept

(* The effect of the end of a call on the threads' calls. *)
LEMMA CallerSame ==
  ASSUME IInv, NEW t \in Threads, NEW x, Reschedules(t, x), \A u \in Threads \ {t} : info'[u] = info[u]
  PROVE  /\ \A u \in Threads \ {t} : CSame(u)
         /\ pc'[t] = "sched" /\ call'[t] = x /\ busy' = busy
<1>1. /\ pc \in [Threads -> {"run", "sched", "back"}] /\ call \in [Threads -> Objects \cup {"other"}]
  BY DEF IInv, Control
<1>. QED BY <1>1 DEF Reschedules, CSame

(* The caller itself, if it does not wait for the semaphore or for events. *)
LEMMA CallerKept ==
  ASSUME SchedulerContract, IInv, JInv, NEW t \in Threads, Runs(t), NEW x \in {"other", Mutex},
         Reschedules(t, x), UNCHANGED info,
         \A o \in {Sem, Event} : Range(k'.waiting[o]) \subseteq Range(k.waiting[o])
  PROVE  Kept(t)
<1>1. pc'[t] = "sched" /\ call'[t] = x
  BY CallerSame
<1>2. x # Sem /\ x # Event
  BY ObjectsAssumption
<1>3. ~Grant(t, Sem) /\ \A o \in {Sem, Event} : t \notin Range(k.waiting[o])
  BY RunsFree
<1>4. ~Grant(t, Sem)' /\ ~Grant(t, Event)'
  BY <1>1, <1>2 DEF Grant
<1>. QED BY <1>1, <1>3, <1>4, OutKept

(* Calls that end so. *)
LEMMA CallerStep ==
  ASSUME SchedulerContract, IInv, JInv, NEW t \in Threads, Runs(t), NEW x \in {"other", Mutex},
         Reschedules(t, x), UNCHANGED <<info, set>>,
         \A u \in Threads \ {t} : KSame(u),
         \A o \in {Sem, Event} : Range(k'.waiting[o]) \subseteq Range(k.waiting[o]),
         Sound', tokens' - value' = tokens - value
  PROVE  JInv'
<1>1. Kept(t)
  BY CallerKept
<1>2. busy.loop = "none" /\ busy' = busy /\ \A u \in Threads \ {t} : CSame(u)
  BY RunsFree, CallerSame
<1>3. \A u \in Threads \ {t} : Kept(u)
  BY <1>2, CalmKept
<1>. QED BY <1>1, <1>3, AllKept

-----------------------------------------------------------------------------
(* rt_schedule at the end of a call. *)
LEMMA ScheduleKeeps ==
  ASSUME SchedulerContract, IInv, JInv, NEW t \in Threads, Schedule(t)
  PROVE  JInv'
<1>1. /\ k' = rt_schedule(k) /\ pc' = [pc EXCEPT ![t] = "back"] /\ pc[t] = "sched" /\ busy = NoLoop
      /\ UNCHANGED <<busy, call, value, mutex, set, info, tokens>>
  BY DEF Schedule, ipc
<1>2. pc \in [Threads -> {"run", "sched", "back"}] /\ Good(k)
  BY DEF IInv, Control
<1>3. SameLists(k, k') /\ k'.error = k.error /\ k'.lock = k.lock
  BY <1>1, <1>2 DEF Good, SchedulerContract, Schedules
<1>4. \A u \in Threads : CSame(u)
  BY <1>1, <1>2 DEF CSame
<1>5. \A u \in Threads : KSame(u)
  BY <1>3, ListsSame DEF SameLists, SameWaiting
<1>6. busy.loop = "none" /\ busy'.loop = "none"
  BY <1>1 DEF NoLoop
<1>7. Sound'
  BY <1>1, <1>3, <1>6, SoundSame DEF JInv, Sound, SameLists
<1>. QED BY <1>1, <1>4, <1>5, <1>6, <1>7, CalmStep

(* The end of a call. *)
LEMMA ReturnKeeps ==
  ASSUME SchedulerContract, IInv, JInv, NEW t \in Threads, Return(t)
  PROVE  JInv'
<1>0. /\ k \in KState /\ Good(k) /\ Running(k, pc) /\ JInv /\ info \in [Threads -> Infos]
      /\ pc \in [Threads -> {"run", "sched", "back"}] /\ call \in [Threads -> Objects \cup {"other"}]
      /\ k.stat \in [Threads -> {"ready", "suspend"}] /\ k.error \in [Threads -> {"EOK", "ETIMEOUT", "ERROR"}]
  BY DEF IInv, Good, Control, JInv, Sound, KState
<1>1. /\ k' = [k EXCEPT !.error[t] = "EOK"] /\ info' = [info EXCEPT ![t] = NoInfo]
      /\ pc' = [pc EXCEPT ![t] = "run"] /\ call' = [call EXCEPT ![t] = "other"]
      /\ UNCHANGED <<busy, value, mutex, set>> /\ busy = NoLoop /\ k.current = t /\ pc[t] = "back"
      /\ tokens' = IF call[t] = Sem /\ k.error[t] = "EOK" THEN tokens - 1 ELSE tokens
  BY DEF Return
<1>2. /\ k'.stat = k.stat /\ k'.waiting = k.waiting /\ k'.lock = k.lock
      /\ k'.error = [k.error EXCEPT ![t] = "EOK"]
  BY <1>0, <1>1 DEF KState
<1>3. k.stat[t] = "ready"
  BY <1>0, <1>1 DEF Running
<1>4. \A o \in {Sem, Event} : t \notin Range(k.waiting[o])
  BY <1>0, <1>3, ObjectsAssumption DEF SchedulerContract, ReadyUnlisted
<1>5. \A u \in Threads \ {t} : KSame(u) /\ CSame(u)
  BY <1>0, <1>1, <1>2, SMT DEF KSame, CSame
<1>6. busy.loop = "none" /\ busy'.loop = "none"
  BY <1>1 DEF NoLoop
<1>7. \A u \in Threads \ {t} : Kept(u)
  BY <1>0, <1>1, <1>5, <1>6, CalmKept
<1>8. pc'[t] = "run" /\ call'[t] = "other" /\ ~Grant(t, Sem)' /\ ~Grant(t, Event)'
  BY <1>0, <1>1 DEF Grant
<1>9. Place(t)'
  BY <1>2, <1>4, <1>8 DEF Place
<1>10. Sound'
  <2>1. info' \in [Threads -> Infos]
    <3>1. NoInfo \in Infos
      BY DEF NoInfo, Infos
    <3>. QED BY <1>0, <1>1, <3>1
  <2>2. tokens' \in Int
    BY <1>1, SMT DEF JInv, Sound
  <2>. QED BY <1>1, <1>2, <1>6, <2>1, <2>2 DEF JInv, Sound
<1>11. CASE call[t] = Sem /\ k.error[t] = "EOK"
  <2>1. Grant(t, Sem)
    BY <1>1, <1>3, <1>11 DEF Grant
  <2>. QED BY <1>1, <1>7, <1>8, <1>9, <1>10, <1>11, <2>1, OneTaken
<1>12. CASE ~(call[t] = Sem /\ k.error[t] = "EOK")
  <2>1. ~Grant(t, Sem)
    BY <1>12 DEF Grant
  <2>2. Kept(t)
    BY <1>8, <1>9, <2>1 DEF Kept
  <2>. QED BY <1>1, <1>7, <1>10, <1>12, <2>2, AllKept
<1>. QED BY <1>11, <1>12

(* Steps of the clock and of threads that change no list. *)
LEMMA TurnsKeeps ==
  ASSUME IInv, JInv, Turns(k, k'), UNCHANGED <<pc, call, value, mutex, set, info, tokens>>,
         busy.loop \notin {"send", "reset"}, busy'.loop \notin {"send", "reset"}
  PROVE  JInv'
<1>1. k'.stat = k.stat /\ k'.error = k.error /\ SameWaiting(k, k') /\ k'.lock = k.lock
  BY DEF Turns
<1>2. \A u \in Threads : KSame(u)
  BY <1>1, ListsSame
<1>3. \A u \in Threads : CSame(u)
  BY DEF CSame
<1>4. Range(k'.waiting[Sem]) = Range(k.waiting[Sem])
  BY <1>1, ObjectsAssumption DEF SameWaiting
<1>5. Sound'
  BY <1>1, <1>4, SoundSame DEF JInv, Sound
<1>. QED BY <1>2, <1>3, <1>5, CalmStep

(* Calls that change nothing but the fields of an object. *)
LEMMA FieldsKeep ==
  ASSUME IInv, JInv, UNCHANGED <<k, busy, pc, call, info>>, busy.loop \notin {"send", "reset"},
         set' \subseteq set, Sound', tokens' - value' = tokens - value
  PROVE  JInv'
<1>1. \A u \in Threads : KSame(u) /\ CSame(u)
  BY DEF KSame, CSame
<1>. QED BY <1>1, CalmStep

(* rt_thread_sleep. *)
LEMMA SleepKeeps ==
  ASSUME SchedulerContract, IInv, JInv, NEW t \in Threads, NEW time \in Times, time >= 0,
         rt_thread_sleep(t, time)
  PROVE  JInv'
<1>1. /\ Runs(t) /\ k' = Sleep(k, t, time) /\ Reschedules(t, "other")
      /\ UNCHANGED <<value, mutex, set, info, tokens>>
  BY DEF rt_thread_sleep, MayWait, Calls, ipc
<1>2. k.stat[t] = "ready" /\ t \in Threads \ {Idle} /\ Good(k) /\ busy.loop = "none"
  BY <1>1, RunsFree DEF IInv
<1>3. time \in Nat /\ Half(time)
  BY TimesAssumption, SMT
<1>4. k'.stat = [k.stat EXCEPT ![t] = "suspend"] /\ SameWaiting(k, k') /\ SameRest(k, k')
  BY <1>1, <1>2, <1>3, SMT DEF SchedulerContract, Sleeps
<1>5. \A o \in {Sem, Event} : Range(k'.waiting[o]) = Range(k.waiting[o])
  BY <1>4, ObjectsAssumption DEF SameWaiting
<1>6. k.stat \in [Threads -> {"ready", "suspend"}]
  BY DEF IInv, Good, KState
<1>7. \A u \in Threads \ {t} : KSame(u)
  BY <1>4, <1>5, <1>6 DEF KSame, SameRest
<1>8. Sound'
  BY <1>1, <1>2, <1>4, <1>5, SoundSame DEF JInv, Sound, SameRest, Reschedules
<1>. QED BY <1>1, <1>5, <1>7, <1>8, CallerStep

(* rt_enter_critical and rt_exit_critical. *)
LEMMA CriticalKeeps ==
  ASSUME SchedulerContract, IInv, JInv, NEW t \in Threads, rt_enter_critical(t) \/ rt_exit_critical(t)
  PROVE  JInv'
<1>0. k \in KState /\ k.lock \in Nat /\ k.lock <= MaxLock
  BY DEF IInv, Good, KState, JInv, Sound
<1>1. /\ Runs(t) /\ UNCHANGED <<busy, value, mutex, set, info, tokens>>
      /\ \E n \in Nat : n <= MaxLock /\ k' = [k EXCEPT !.lock = n]
      /\ Ends \/ Reschedules(t, "other")
  <2>1. CASE rt_enter_critical(t)
    <3>1. /\ Runs(t) /\ Ends /\ UNCHANGED <<busy, value, mutex, set, info, tokens>>
          /\ k' = [k EXCEPT !.lock = k.lock + 1] /\ k.lock < MaxLock
      BY <2>1 DEF rt_enter_critical, Calls, ipc, Ends
    <3>2. k.lock + 1 \in Nat /\ k.lock + 1 <= MaxLock
      BY <1>0, <3>1, BoundsAssumption, SMT
    <3>. QED BY <3>1, <3>2
  <2>2. CASE rt_exit_critical(t)
    <3>1. Runs(t) /\ (Ends \/ Reschedules(t, "other"))
      BY <2>2 DEF rt_exit_critical, Calls
    <3>2. /\ UNCHANGED <<busy, value, mutex, set, info, tokens>>
          /\ k' = [k EXCEPT !.lock = k.lock - 1] /\ k.lock > 0
      BY <2>2 DEF rt_exit_critical, ipc, Ends, Reschedules
    <3>3. k.lock - 1 \in Nat /\ k.lock - 1 <= MaxLock
      BY <1>0, <3>2, BoundsAssumption, SMT
    <3>. QED BY <3>1, <3>2, <3>3
  <2>. QED BY <2>1, <2>2
<1>2. PICK n \in Nat : n <= MaxLock /\ k' = [k EXCEPT !.lock = n]
  BY <1>1
<1>3. k'.stat = k.stat /\ k'.error = k.error /\ k'.waiting = k.waiting /\ k'.lock <= MaxLock
  BY <1>0, <1>2 DEF KState
<1>4. \A u \in Threads : KSame(u)
  BY <1>3 DEF KSame
<1>5. busy.loop = "none" /\ busy'.loop = "none"
  BY <1>1, RunsFree
<1>6. Sound'
  BY <1>1, <1>3, <1>5 DEF JInv, Sound
<1>7. CASE Ends
  <2>1. \A u \in Threads : CSame(u)
    BY <1>1, <1>7 DEF CSame, Ends
  <2>. QED BY <1>1, <1>4, <1>5, <1>6, <2>1, CalmStep
<1>8. CASE Reschedules(t, "other")
  BY <1>1, <1>3, <1>4, <1>6, <1>8, CallerStep
<1>. QED BY <1>1, <1>7, <1>8

-----------------------------------------------------------------------------
(* rt_sem_take. *)
LEMMA SemTakeKeeps ==
  ASSUME SchedulerContract, IInv, JInv, NEW t \in Threads, NEW time \in Times, rt_sem_take(t, time)
  PROVE  JInv'
<1>0. Runs(t) /\ busy.loop = "none" /\ value \in 0..MaxValue /\ tokens \in Int /\ MaxValue \in Nat
  BY RunsFree, BoundsAssumption DEF rt_sem_take, MayWait, Calls, JInv, Sound
<1>1. CASE /\ value > 0 /\ value' = value - 1 /\ tokens' = tokens - 1
           /\ Ends /\ UNCHANGED <<k, mutex, set, info, held>>
  <2>1. value' \in 0..MaxValue /\ tokens' \in Int /\ tokens' - value' = tokens - value
    BY <1>0, <1>1, SMT
  <2>2. Sound'
    BY <1>0, <1>1, <2>1 DEF JInv, Sound, Ends
  <2>. QED BY <1>0, <1>1, <2>1, <2>2, FieldsKeep DEF Ends
<1>2. CASE Ends /\ UNCHANGED <<k, ipc>>
  <2>1. Sound'
    BY <1>0, <1>2 DEF JInv, Sound, Ends, ipc
  <2>. QED BY <1>0, <1>2, <2>1, FieldsKeep DEF Ends, ipc
<1>3. CASE value = 0 /\ k' = Wait(k, t, Sem, Flag, time) /\ Reschedules(t, Sem) /\ UNCHANGED ipc
  <2>1. k.stat[t] = "ready" /\ t \in Threads \ {Idle} /\ Good(k) /\ pc[t] = "run"
    BY <1>0, RunsFree DEF IInv
  <2>2. time \in Int /\ Half(time) /\ Sem \in Objects /\ Sem # Event
    BY TimesAssumption, ObjectsAssumption
  <2>3. Waits(k, k', t, Sem)
    BY <1>3, <2>1, <2>2 DEF SchedulerContract, WaitsFor
  <2>4. SameWaiting(k, k)
    BY DEF SameWaiting
  <2>5. /\ \A u \in Threads \ {t} : KSame(u)
        /\ k'.stat[t] = "suspend" /\ k'.error[t] = "EOK" /\ k'.lock = k.lock
        /\ Range(k'.waiting[Event]) = Range(k.waiting[Event]) /\ t \notin Range(k.waiting[Event])
    BY <2>1, <2>2, <2>3, <2>4, WaitsSame
  <2>6. UNCHANGED <<value, mutex, set, info, tokens>>
    BY <1>3 DEF ipc
  <2>7. /\ \A u \in Threads \ {t} : CSame(u)
        /\ pc'[t] = "sched" /\ call'[t] = Sem /\ busy' = busy
    BY <1>3, <2>6, CallerSame
  <2>8. \A u \in Threads \ {t} : Kept(u)
    BY <1>0, <2>5, <2>6, <2>7, CalmKept
  <2>9. ~Grant(t, Sem) /\ ~Grant(t, Sem)' /\ ~Grant(t, Event)'
    BY <2>1, <2>2, <2>5, <2>7 DEF Grant
  <2>10. Kept(t)
    BY <2>2, <2>5, <2>7, <2>9 DEF Kept, Place
  <2>11. Sound'
    BY <1>0, <1>3, <2>5, <2>6, <2>7, SMT DEF JInv, Sound
  <2>. QED BY <2>6, <2>8, <2>10, <2>11, AllKept
<1>. QED BY <1>1, <1>2, <1>3 DEF rt_sem_take

(* A thread wakes, and is not given the semaphore or events. *)
LEMMA WakeKept ==
  ASSUME NEW w \in Threads, k.stat[w] = "suspend", \A o \in {Sem, Event} : w \notin Range(k'.waiting[o]),
         pc'[w] # "run", k'.error[w] # "EOK" \/ call'[w] \notin {Sem, Event}
  PROVE  Kept(w)
<1>1. ~Grant(w, Sem) /\ ~Grant(w, Sem)' /\ ~Grant(w, Event)'
  BY DEF Grant
<1>. QED BY <1>1, OutKept

(* A suspended thread is inside a call. *)
LEMMA SuspendedInCall ==
  ASSUME IInv, NEW w \in Threads, k.stat[w] = "suspend"
  PROVE  pc[w] # "run"
BY DEF IInv, Reasons

(* A timer runs out. *)
LEMMA TimerKeeps ==
  ASSUME SchedulerContract, IInv, JInv, rt_timer_check
  PROVE  JInv'
<1> DEFINE t == Head(k.timers)
<1>0. /\ Good(k) /\ k.timers \in Seq(Threads) /\ Range(k.timers) \subseteq Threads
      /\ k.error \in [Threads -> {"EOK", "ETIMEOUT", "ERROR"}] /\ TimersLinked(k)
  BY DEF IInv, Good, KState, SchedulerContract, ListsTyped
<1>1. /\ k' = rt_thread_timeout(k, t) /\ Timers(k') /\ UNCHANGED <<pc, call, value, mutex, set, info, tokens>>
      /\ k.timers # <<>> /\ busy.loop = "timers"
  BY DEF rt_timer_check, ipc, IInv, Control, Loops
<1>2. t \in Range(k.timers) /\ t \in Threads /\ k.stat[t] = "suspend"
  BY <1>0, <1>1 DEF TimersLinked, SchedulerContract, HeadTaken
<1> HIDE DEF t
<1>3. Woken(k, k', t) /\ k'.error = [k.error EXCEPT ![t] = "ETIMEOUT"]
  BY <1>0, <1>1, <1>2, SMTT(20) DEF SchedulerContract, TimesOut
<1>4. k'.error[t] # "EOK" /\ \A u \in Threads \ {t} : k'.error[u] = k.error[u]
  BY <1>0, <1>2, <1>3
<1>5. /\ \A u \in Threads \ {t} : KSame(u)
      /\ k'.lock = k.lock /\ \A o \in {Sem, Event} : Range(k'.waiting[o]) = Range(k.waiting[o]) \ {t}
  BY <1>2, <1>3, <1>4, WokenSame
<1>6. busy'.loop \in {"none", "timers"}
  BY <1>1, SMT DEF Timers, Looping, NoLoop
<1>7. \A u \in Threads \ {t} : CSame(u)
  BY <1>1 DEF CSame
<1>8. \A u \in Threads \ {t} : Kept(u)
  BY <1>1, <1>5, <1>6, <1>7, CalmKept
<1>9. Kept(t)
  BY <1>1, <1>2, <1>4, <1>5, SuspendedInCall, WakeKept
<1>10. Sound'
  BY <1>1, <1>5, <1>6, SoundSame DEF JInv, Sound
<1>. QED BY <1>1, <1>8, <1>9, <1>10, AllKept

(* The first of a suspend list. *)
LEMMA FirstWaits ==
  ASSUME SchedulerContract, IInv, NEW o \in Objects, k.waiting[o] # <<>>
  PROVE  /\ Head(k.waiting[o]) \in Range(k.waiting[o]) /\ Head(k.waiting[o]) \in Threads
         /\ k.stat[Head(k.waiting[o])] = "suspend"
         /\ \A q \in Objects \ {o} : Head(k.waiting[o]) \notin Range(k.waiting[q])
<1>1. k.waiting[o] \in Seq(Threads) /\ Range(k.waiting[o]) \subseteq Threads /\ Linked(k)
  BY DEF IInv, Good, SchedulerContract, ListsTyped
<1>2. Head(k.waiting[o]) \in Range(k.waiting[o])
  BY <1>1 DEF Linked, SchedulerContract, HeadTaken
<1>. QED BY <1>1, <1>2 DEF Linked

(* rt_sem_release gives the semaphore to the first waiting thread. *)
LEMMA HandSemStep ==
  ASSUME SchedulerContract, IInv, JInv, NEW t \in Threads \cup {Isr}, busy = NoLoop,
         t = Isr \/ (t \in Threads /\ Runs(t)),
         k.waiting[Sem] # <<>>, NEW r, r = rt_thread_resume(k, Head(k.waiting[Sem])),
         IF t = Isr THEN k' = rt_schedule(r) /\ Ends ELSE k' = r /\ Reschedules(t, "other"),
         UNCHANGED <<value, mutex, set, info>>, tokens' = tokens + 1
  PROVE  JInv'
<1>0. Sem \in Objects /\ Event \in Objects /\ Sem # Event /\ Good(k)
  BY ObjectsAssumption DEF IInv
<1>1. PICK w \in Threads : /\ w = Head(k.waiting[Sem]) /\ w \in Range(k.waiting[Sem])
                           /\ k.stat[w] = "suspend" /\ w \notin Range(k.waiting[Event])
  BY <1>0, FirstWaits
<1>2. r = rt_thread_resume(k, w)
  BY <1>1
<1>3. Good(r) /\ Woken(k, r, w) /\ r.error = k.error
  BY <1>0, <1>1, <1>2, SMT DEF SchedulerContract, Resumes
<1>4. (k' = r \/ (SameLists(r, k') /\ k'.lock = r.lock)) /\ k'.error = k.error
  BY <1>3 DEF Good, SchedulerContract, Schedules
<1>5. /\ \A u \in Threads \ {w} : KSame(u)
      /\ k'.stat[w] = "ready" /\ k'.lock = k.lock
      /\ \A o \in {Sem, Event} : Range(k'.waiting[o]) = Range(k.waiting[o]) \ {w}
  BY <1>3, <1>4, WokenSame
<1>6. call[w] = Sem /\ k.error[w] = "EOK" /\ pc[w] # "run"
  BY <1>1, SuspendedInCall DEF JInv, Place
<1>7. /\ \A u \in Threads \ {w} : Kept(u)
      /\ pc'[w] = pc[w] /\ call'[w] = call[w] /\ busy' = NoLoop
  <2>1. CASE t = Isr
    <3>1. UNCHANGED <<pc, call, busy>>
      BY <2>1 DEF Ends
    <3>2. \A u \in Threads \ {w} : CSame(u)
      BY <3>1 DEF CSame
    <3>. QED BY <1>5, <3>1, <3>2, CalmKept DEF NoLoop
  <2>2. CASE t \in Threads /\ Runs(t) /\ t # Isr
    <3>1. Reschedules(t, "other") /\ busy.loop = "none" /\ t # w
      BY <1>1, <2>2, RunsFree
    <3>2. Kept(t)
      BY <1>5, <2>2, <3>1, CallerKept
    <3>3. (\A u \in Threads \ {t} : CSame(u)) /\ busy' = busy
      BY <2>2, <3>1, CallerSame
    <3>4. \A u \in Threads \ {t, w} : Kept(u)
      BY <1>5, <3>1, <3>3, CalmKept
    <3>5. pc'[w] = pc[w] /\ call'[w] = call[w]
      BY <1>1, <3>1 DEF Reschedules, IInv, Control
    <3>. QED BY <3>2, <3>3, <3>4, <3>5
  <2>. QED BY <2>1, <2>2, NobodyAssumption
<1>8. Grant(w, Sem)' /\ ~Grant(w, Sem) /\ ~Grant(w, Event)'
  BY <1>0, <1>1, <1>4, <1>5, <1>6, <1>7 DEF Grant
<1>9. Place(w)'
  <2>1. w \notin Range(k'.waiting[Sem]) /\ w \notin Range(k'.waiting[Event]) /\ pc'[w] # "run"
    BY <1>5, <1>6, <1>7
  <2>. QED BY <1>8, <2>1 DEF Place
<1>10. Sound'
  <2>1. busy'.loop # "send" /\ tokens' \in Int
    BY <1>7, SMT DEF NoLoop, JInv, Sound
  <2>. QED BY <1>5, <2>1 DEF JInv, Sound
<1>. QED BY <1>1, <1>7, <1>8, <1>9, <1>10, OneGranted

(* rt_sem_release. *)
LEMMA SemReleaseKeeps ==
  ASSUME SchedulerContract, IInv, JInv, NEW t \in Threads \cup {Isr}, rt_sem_release(t)
  PROVE  JInv'
<1>0. /\ busy = NoLoop /\ (t = Isr \/ (t \in Threads /\ Runs(t))) /\ UNCHANGED <<mutex, set, info>>
      /\ tokens' = tokens + 1
  BY NobodyAssumption DEF rt_sem_release, Calls, Runs
<1>1. CASE k.waiting[Sem] = <<>> /\ value < MaxValue /\ value' = value + 1 /\ Ends /\ UNCHANGED k
  <2>1. value \in 0..MaxValue /\ tokens \in Int /\ MaxValue \in Nat
    BY BoundsAssumption DEF JInv, Sound
  <2>2. value' \in 0..MaxValue /\ tokens' \in Int /\ tokens' - value' = tokens - value
    BY <1>0, <1>1, <2>1, SMT
  <2>3. Range(k.waiting[Sem]) = {} /\ busy.loop = "none" /\ busy' = busy
    BY <1>0, <1>1, NothingListed DEF NoLoop, Ends
  <2>4. Sound'
    BY <1>0, <1>1, <2>2, <2>3 DEF JInv, Sound
  <2>. QED BY <1>0, <1>1, <2>2, <2>3, <2>4, FieldsKeep DEF Ends
<1>2. CASE /\ k.waiting[Sem] # <<>> /\ UNCHANGED value
           /\ LET r == rt_thread_resume(k, Head(k.waiting[Sem]))
              IN  IF t = Isr THEN k' = rt_schedule(r) /\ Ends ELSE k' = r /\ Reschedules(t, "other")
  BY <1>0, <1>2, HandSemStep
<1>. QED BY <1>1, <1>2 DEF rt_sem_release

(* The reset of an object begins. *)
LEMMA IpcControlKeeps ==
  ASSUME SchedulerContract, IInv, JInv, NEW t \in Threads, NEW o \in Objects, rt_ipc_control(t, o)
  PROVE  JInv'
<1>1. /\ Runs(t) /\ call' = [call EXCEPT ![t] = o] /\ UNCHANGED <<k, pc, value, mutex, set, info, tokens>>
      /\ busy' = [loop |-> "reset", by |-> t, rest |-> <<>>, need |-> FALSE] /\ busy.loop = "none"
  BY DEF NoLoop, Runs, rt_ipc_control, Calls, Looping, ipc
<1>2. call \in [Threads -> Objects \cup {"other"}]
  BY DEF IInv, Control
<1>3. ~Grant(t, Sem) /\ pc[t] = "run" /\ \A x \in {Sem, Event} : t \notin Range(k.waiting[x])
  BY <1>1, RunsFree
<1>4. \A u \in Threads \ {t} : KSame(u) /\ CSame(u)
  BY <1>1, <1>2 DEF KSame, CSame
<1>5. busy'.loop = "reset" /\ busy'.by = t
  BY <1>1
<1>6. ASSUME NEW u \in Threads \ {t} PROVE Kept(u)
  <2>1. ~Resets(u) /\ ~Resets(u)' /\ ~InRest(u)
    BY <1>1, <1>5 DEF Resets, InRest
  <2>2. Place(u) /\ info[u] \in Infos
    BY DEF JInv, Sound
  <2>. QED BY <1>1, <1>4, <2>1, <2>2, SameKept
<1>7. Kept(t)
  <2>1. Resets(t)' /\ ~Grant(t, Sem)' /\ ~Grant(t, Event)'
    BY <1>1, <1>3, <1>5 DEF Resets, Grant
  <2>. QED BY <1>1, <1>3, <2>1 DEF Kept, Place
<1>8. Sound'
  BY <1>1, <1>5 DEF JInv, Sound
<1>. QED BY <1>1, <1>6, <1>7, <1>8, AllKept

(* A turn of rt_ipc_list_resume_all, and its end. *)
LEMMA ResumeAllKeeps ==
  ASSUME SchedulerContract, IInv, JInv, rt_ipc_list_resume_all
  PROVE  JInv'
<1>0. /\ Good(k) /\ Loops /\ busy.loop = "reset" /\ k.error \in [Threads -> {"EOK", "ETIMEOUT", "ERROR"}]
      /\ pc \in [Threads -> {"run", "sched", "back"}] /\ call \in [Threads -> Objects \cup {"other"}]
  BY DEF IInv, Control, Good, KState, rt_ipc_list_resume_all
<1>1. PICK t \in Threads : t = busy.by /\ pc[t] = "run" /\ k.current = t
  BY <1>0 DEF Loops
<1>2. PICK o \in {Sem, Event} : o = call[t] /\ o \in Objects
  BY <1>0, <1>1, ObjectsAssumption DEF Loops
<1>3. CASE Waited(k, o) /\ k' = ResumeFailed(k, o) /\ UNCHANGED <<busy, pc, call, ipc, use>>
  <2>0. UNCHANGED <<busy, pc, call, value, mutex, set, info, tokens>>
    BY <1>3 DEF ipc
  <2>1. PICK u \in Threads : /\ u = Head(k.waiting[o]) /\ k.stat[u] = "suspend"
    BY <1>2, <1>3, FirstWaits DEF Waited
  <2>2. Woken(k, k', u) /\ k'.error = [k.error EXCEPT ![u] = "ERROR"]
    BY <1>0, <1>2, <1>3, <2>1, SMT DEF SchedulerContract, ResumesFailed
  <2>3. k'.error[u] # "EOK" /\ \A v \in Threads \ {u} : k'.error[v] = k.error[v]
    BY <1>0, <2>2
  <2>4. /\ \A v \in Threads \ {u} : KSame(v)
        /\ k'.lock = k.lock /\ \A x \in {Sem, Event} : Range(k'.waiting[x]) = Range(k.waiting[x]) \ {u}
    BY <2>2, <2>3, WokenSame
  <2>5. ASSUME NEW v \in Threads \ {u} PROVE Kept(v)
    <3>1. CSame(v) /\ ~InRest(v) /\ (Resets(v)' <=> Resets(v)) /\ set' = set
      BY <1>0, <2>0 DEF CSame, InRest, Resets
    <3>2. Place(v) /\ info[v] \in Infos
      BY DEF JInv, Sound
    <3>. QED BY <2>4, <3>1, <3>2, SameKept
  <2>6. Kept(u)
    BY <2>0, <2>1, <2>3, <2>4, SuspendedInCall, WakeKept
  <2>7. Sound'
    BY <1>0, <2>0, <2>4, SoundSame DEF JInv, Sound
  <2>. QED BY <2>0, <2>5, <2>6, <2>7, AllKept
<1>4. CASE /\ k.waiting[o] = <<>>
           /\ \/ o = Sem /\ value' \in 0..MaxValue /\ tokens' = tokens - value + value' /\ set' = set
              \/ o = Event /\ set' = {} /\ UNCHANGED <<value, tokens>>
           /\ busy' = NoLoop
           /\ pc' = [pc EXCEPT ![t] = "sched"] /\ call' = [call EXCEPT ![t] = "other"]
           /\ UNCHANGED <<k, mutex, info>>
  <2>1. k.stat[t] = "ready" /\ busy'.loop = "none"
    BY <1>1, <1>4 DEF IInv, Good, KState, Reasons, NoLoop
  <2>2. \A x \in {Sem, Event} : t \notin Range(k.waiting[x])
    BY <1>0, <2>1, ObjectsAssumption DEF SchedulerContract, ReadyUnlisted
  <2>3. Kept(t)
    <3>1. call'[t] = "other" /\ "other" \notin {Sem, Event}
      BY <1>0, <1>4, ObjectsAssumption
    <3>2. ~Grant(t, Sem) /\ ~Grant(t, Sem)' /\ ~Grant(t, Event)'
      BY <1>1, <3>1 DEF Grant
    <3>. QED BY <1>4, <2>2, <3>1, <3>2, OutKept
  <2>4. ASSUME NEW u \in Threads \ {t} PROVE Kept(u)
    <3>1. KSame(u) /\ CSame(u)
      BY <1>0, <1>4 DEF KSame, CSame
    <3>2. ~InRest(u) /\ ~Resets(u) /\ ~Resets(u)' /\ set' \subseteq set
      BY <1>0, <1>1, <1>4, <2>1 DEF InRest, Resets
    <3>3. Place(u) /\ info[u] \in Infos
      BY DEF JInv, Sound
    <3>. QED BY <3>1, <3>2, <3>3, SameKept
  <2>5. /\ value \in 0..MaxValue /\ tokens \in Int /\ MaxValue \in Nat /\ set \subseteq Bits
        /\ o = Sem => Range(k.waiting[Sem]) = {}
    BY <1>4, BoundsAssumption, NothingListed DEF JInv, Sound
  <2>6. value' \in 0..MaxValue /\ tokens' \in Int /\ tokens' - value' = tokens - value
    BY <1>4, <2>5, SMT
  <2>7. Sound'
    BY <1>4, <2>1, <2>5, <2>6 DEF JInv, Sound
  <2>. QED BY <2>3, <2>4, <2>6, <2>7, AllKept
<1>. QED BY <1>1, <1>2, <1>3, <1>4 DEF rt_ipc_list_resume_all, Waited

(* rt_thread_yield before rt_schedule. *)
LEMMA YieldKeeps ==
  ASSUME SchedulerContract, IInv, JInv, NEW t \in Threads, Yield(t)
  PROVE  JInv'
<1>0. Runs(t) /\ busy.loop = "none" /\ UNCHANGED <<value, mutex, set, info, tokens>>
  BY DEF Yield, MayWait, Calls, Runs, NoLoop, ipc
<1>1. CASE k' = k /\ Ends
  <2>1. Turns(k, k')
    BY <1>1 DEF Turns, SameWaiting, SameTimers
  <2>. QED BY <1>0, <1>1, <2>1, TurnsKeeps DEF Ends
<1>2. CASE Rotates(k) /\ k' = Rotate(k) /\ Reschedules(t, "other")
  <2>1. Turns(k, k')
    BY <1>2 DEF IInv, SchedulerContract, Yields
  <2>2. k'.stat = k.stat /\ k'.error = k.error /\ SameWaiting(k, k') /\ k'.lock = k.lock
    BY <2>1 DEF Turns
  <2>3. \A u \in Threads \ {t} : KSame(u)
    BY <2>2, ListsSame
  <2>4. \A o \in {Sem, Event} : Range(k'.waiting[o]) = Range(k.waiting[o])
    BY <2>2, ObjectsAssumption DEF SameWaiting
  <2>5. Sound'
    BY <1>0, <1>2, <2>2, <2>4, SoundSame DEF JInv, Sound, Reschedules
  <2>. QED BY <1>0, <1>2, <2>3, <2>4, <2>5, CallerStep
<1>. QED BY <1>1, <1>2 DEF Yield

(* The clock. *)
LEMMA TickKeeps ==
  ASSUME SchedulerContract, IInv, JInv, Tick
  PROVE  JInv'
<1>1. /\ k' = rt_tick_increase(k) /\ Timers(k') /\ busy = NoLoop
      /\ UNCHANGED <<pc, call, value, mutex, set, info, tokens>>
  BY DEF Tick, ipc
<1>2. Turns(k, k')
  BY <1>1 DEF IInv, SchedulerContract, TicksOn
<1>3. busy.loop = "none" /\ busy'.loop \in {"none", "timers"}
  BY <1>1, SMT DEF NoLoop, Timers, Looping
<1>. QED BY <1>1, <1>2, <1>3, TurnsKeeps

-----------------------------------------------------------------------------
(* A priority changes, or nothing does. *)
LEMMA PrioOnly ==
  ASSUME SchedulerContract, IInv, NEW c, NEW u \in Threads, NEW p \in Prios,
         c = k \/ c = rt_thread_control(k, u, p)
  PROVE  /\ Good(c) /\ c.stat = k.stat /\ c.error = k.error /\ c.lock = k.lock
         /\ SameWaiting(k, c)
<1>1. Good(k) /\ SameWaiting(k, k)
  BY DEF IInv, SameWaiting
<1>2. CASE c = rt_thread_control(k, u, p)
  BY <1>1, <1>2 DEF SchedulerContract, ChangesPrio, SameRest
<1>. QED BY <1>1, <1>2

(* rt_mutex_take. *)
LEMMA MutexTakeKeeps ==
  ASSUME SchedulerContract, IInv, JInv, NEW t \in Threads, NEW time \in Times, rt_mutex_take(t, time)
  PROVE  JInv'
<1>0. Runs(t) /\ busy.loop = "none" /\ UNCHANGED <<value, set, info, tokens>>
  BY RunsFree DEF rt_mutex_take, MayWait, Calls
<1>1. MutexType(mutex, held) /\ Exclusive(k, pc, call, mutex, held) /\ MaxHold \in Nat \ {0}
  BY BoundsAssumption DEF IInv
<1>2. CASE mutex'.hold <= MaxHold /\ Ends /\ UNCHANGED k
  <2>1. Sound'
    BY <1>0, <1>2, SoundSame DEF Ends
  <2>. QED BY <1>0, <1>2, <2>1, FieldsKeep DEF Ends
<1>3. CASE mutex.hold < MaxHold /\ mutex' = [mutex EXCEPT !.hold = @ + 1] /\ Ends /\ UNCHANGED k
  <2>1. mutex'.hold <= MaxHold
    BY <1>1, <1>3, SMT DEF MutexType
  <2>. QED BY <1>2, <1>3, <2>1
<1>4. CASE /\ mutex.value > 0 /\ Ends /\ UNCHANGED k
           /\ mutex' = [value |-> mutex.value - 1, owner |-> t,
                        original |-> k.prio[t], hold |-> mutex.hold + 1]
  <2>1. mutex.hold = 0
    BY <1>1, <1>4, SMT DEF MutexType, Exclusive
  <2>2. mutex'.hold <= MaxHold
    BY <1>1, <1>4, <2>1, SMT
  <2>. QED BY <1>2, <1>4, <2>2
<1>5. CASE Ends /\ UNCHANGED <<k, mutex>>
  BY <1>2, <1>5 DEF JInv, Sound
<1>6. CASE /\ mutex.value = 0 /\ k' = Wait(Inherit(k, t), t, Mutex, Flag, time)
           /\ Reschedules(t, Mutex) /\ UNCHANGED mutex
  <2>1. PICK c : c = Inherit(k, t)
    OBVIOUS
  <2>2. mutex.owner \in Threads /\ k.prio[t] \in Prios
    <3>1. k.prio \in [Threads -> Prios]
      BY DEF IInv, Good, KState
    <3>. QED BY <1>1, <1>6, <3>1, SMT DEF MutexType, Exclusive
  <2>3. Good(c) /\ c.stat = k.stat /\ c.error = k.error /\ c.lock = k.lock /\ SameWaiting(k, c)
    BY <2>1, <2>2, PrioOnly DEF Inherit
  <2>4. k.stat[t] = "ready" /\ t \in Threads \ {Idle}
    BY <1>0, RunsFree
  <2>5. time \in Int /\ Half(time) /\ Mutex \in Objects /\ Mutex \notin {Sem, Event}
    BY TimesAssumption, ObjectsAssumption
  <2>6. Waits(c, k', t, Mutex)
    BY <1>6, <2>1, <2>3, <2>4, <2>5 DEF SchedulerContract, WaitsFor
  <2>7. /\ \A u \in Threads \ {t} : KSame(u)
        /\ k'.lock = k.lock /\ \A o \in {Sem, Event} : Range(k'.waiting[o]) = Range(k.waiting[o])
    BY <2>3, <2>4, <2>5, <2>6, WaitsSame
  <2>8. Sound'
    BY <1>0, <1>6, <2>7, SoundSame DEF JInv, Sound, Reschedules
  <2>. QED BY <1>0, <1>6, <2>7, <2>8, CallerStep
<1>. QED BY <1>3, <1>4, <1>5, <1>6 DEF rt_mutex_take

(* rt_mutex_release hands the mutex to the first waiting thread. *)
LEMMA HandMutexStep ==
  ASSUME SchedulerContract, IInv, JInv, NEW t \in Threads, Runs(t), k.waiting[Mutex] # <<>>,
         NEW c, Good(c), c.stat = k.stat, c.error = k.error, c.lock = k.lock, SameWaiting(k, c),
         k' = rt_thread_resume(c, Head(k.waiting[Mutex])), mutex'.hold <= MaxHold,
         Reschedules(t, "other"), UNCHANGED <<value, set, info, tokens>>
  PROVE  JInv'
<1>0. Mutex \in Objects /\ Mutex \notin {Sem, Event} /\ busy.loop = "none" /\ k.stat[t] = "ready"
  BY RunsFree, ObjectsAssumption
<1>1. PICK n \in Threads : /\ n = Head(k.waiting[Mutex]) /\ n \in Range(k.waiting[Mutex])
                           /\ k.stat[n] = "suspend"
  BY <1>0, FirstWaits
<1>2. Woken(c, k', n) /\ k'.error = k.error
  BY <1>1, SMT DEF SchedulerContract, Resumes
<1>3. /\ \A u \in Threads \ {n} : KSame(u)
      /\ k'.lock = k.lock /\ \A o \in {Sem, Event} : Range(k'.waiting[o]) = Range(k.waiting[o]) \ {n}
  BY <1>2, WokenSame
<1>4. /\ \A u \in Threads \ {t} : CSame(u)
      /\ busy' = busy /\ call'[n] = call[n] /\ (pc'[n] = "run" <=> pc[n] = "run")
  BY <1>0, <1>1, CallerSame DEF CSame
<1>5. call[n] = Mutex /\ pc[n] # "run"
  BY <1>1, SuspendedInCall DEF IInv, Exclusive
<1>6. Kept(n)
  BY <1>0, <1>1, <1>3, <1>4, <1>5, WakeKept
<1>7. Kept(t)
  BY <1>3, CallerKept
<1>8. \A u \in Threads \ {t, n} : Kept(u)
  BY <1>0, <1>3, <1>4, CalmKept
<1>9. Sound'
  BY <1>0, <1>3, <1>4, SoundSame
<1>. QED BY <1>6, <1>7, <1>8, <1>9, AllKept

(* rt_mutex_release. *)
LEMMA MutexReleaseKeeps ==
  ASSUME SchedulerContract, IInv, JInv, NEW t \in Threads, rt_mutex_release(t)
  PROVE  JInv'
<1>0. Runs(t) /\ busy.loop = "none" /\ UNCHANGED <<value, set, info, tokens>>
  BY RunsFree DEF rt_mutex_release, Calls
<1>1. /\ MutexType(mutex, held) /\ MaxHold \in Nat \ {0}
      /\ mutex.hold \in Nat /\ mutex.hold <= MaxHold
  BY BoundsAssumption DEF IInv, MutexType, JInv, Sound
<1>2. CASE mutex'.hold <= MaxHold /\ Ends /\ UNCHANGED k
  <2>1. Sound'
    BY <1>0, <1>2, SoundSame DEF Ends
  <2>. QED BY <1>0, <1>2, <2>1, FieldsKeep DEF Ends
<1>3. CASE Ends /\ UNCHANGED <<k, mutex>>
  BY <1>1, <1>2, <1>3
<1>4. CASE mutex' = [mutex EXCEPT !.hold = @ - 1] /\ Ends /\ UNCHANGED k
  <2>1. mutex'.hold <= MaxHold
    BY <1>1, <1>4, SMT DEF MutexType
  <2>. QED BY <1>2, <1>4, <2>1
<1>5. ASSUME mutex.owner = t
      PROVE  LET c == Restored(t)
             IN  Good(c) /\ c.stat = k.stat /\ c.error = k.error /\ c.lock = k.lock /\ SameWaiting(k, c)
  <2>1. mutex.original \in Prios
    BY <1>1, <1>5, NobodyAssumption DEF MutexType
  <2>. QED BY <2>1, PrioOnly DEF Restored
<1>6. CASE /\ mutex.owner = t /\ k.waiting[Mutex] # <<>> /\ Reschedules(t, "other")
           /\ LET n == Head(k.waiting[Mutex])
                  r == Restored(t)
              IN  mutex' = Owned(n, r.prio[n]) /\ k' = rt_thread_resume(r, n)
  <2>1. mutex'.hold <= MaxHold
    BY <1>1, <1>6, SMT DEF Owned, MutexType
  <2>. QED BY <1>0, <1>5, <1>6, <2>1, HandMutexStep
<1>7. CASE /\ mutex.owner = t /\ k' = Restored(t) /\ Ends
           /\ mutex' = [value |-> mutex.value + 1, owner |-> Null, original |-> 255, hold |-> 0]
  <2>1. k'.stat = k.stat /\ k'.error = k.error /\ k'.lock = k.lock /\ SameWaiting(k, k')
    BY <1>5, <1>7
  <2>2. \A u \in Threads : KSame(u)
    BY <2>1, ListsSame
  <2>3. (\A u \in Threads : CSame(u)) /\ busy' = busy
    BY <1>0, <1>7 DEF CSame, Ends
  <2>4. mutex'.hold <= MaxHold /\ Range(k'.waiting[Sem]) = Range(k.waiting[Sem])
    BY <1>1, <1>7, <2>1, ObjectsAssumption, SMT DEF SameWaiting
  <2>5. Sound'
    BY <1>0, <2>1, <2>3, <2>4, SoundSame
  <2>. QED BY <1>0, <2>2, <2>3, <2>5, CalmStep
<1>. QED BY <1>3, <1>4, <1>6, <1>7 DEF rt_mutex_release

-----------------------------------------------------------------------------
(* rt_event_recv. *)
LEMMA EventRecvKeeps ==
  ASSUME SchedulerContract, IInv, JInv, NEW t \in Threads, NEW i \in Asks, NEW time \in Times,
         rt_event_recv(t, i, time)
  PROVE  JInv'
<1>0. Runs(t) /\ busy.loop = "none" /\ UNCHANGED <<value, mutex, tokens>>
  BY RunsFree DEF rt_event_recv, MayWait, Calls
<1>1. CASE set' \subseteq set /\ Ends /\ UNCHANGED <<k, info>>
  <2>1. Sound'
    BY <1>0, <1>1 DEF JInv, Sound, Ends
  <2>. QED BY <1>0, <1>1, <2>1, FieldsKeep DEF Ends
<1>2. CASE /\ ~Satisfied(i, set) /\ info' = [info EXCEPT ![t] = i]
           /\ k' = Wait(k, t, Event, Flag, time) /\ Reschedules(t, Event) /\ UNCHANGED set
  <2>1. k.stat[t] = "ready" /\ t \in Threads \ {Idle} /\ Good(k) /\ pc[t] = "run"
    BY <1>0, RunsFree DEF IInv
  <2>2. time \in Int /\ Half(time) /\ Event \in Objects /\ Sem # Event
    BY TimesAssumption, ObjectsAssumption
  <2>3. Waits(k, k', t, Event)
    BY <1>2, <2>1, <2>2 DEF SchedulerContract, WaitsFor
  <2>4. SameWaiting(k, k)
    BY DEF SameWaiting
  <2>5. /\ \A u \in Threads \ {t} : KSame(u)
        /\ k'.stat[t] = "suspend" /\ k'.error[t] = "EOK" /\ k'.lock = k.lock
        /\ Range(k'.waiting[Sem]) = Range(k.waiting[Sem]) /\ t \notin Range(k.waiting[Sem])
    BY <2>1, <2>2, <2>3, <2>4, WaitsSame
  <2>6. /\ info' \in [Threads -> Infos] /\ info'[t] = i /\ \A u \in Threads \ {t} : info'[u] = info[u]
        /\ i.want # {} /\ i.asked = i.want
    BY <1>2, AsksAssumption DEF JInv, Sound
  <2>7. /\ \A u \in Threads \ {t} : CSame(u)
        /\ pc'[t] = "sched" /\ call'[t] = Event /\ busy' = busy
    BY <1>2, <2>6, CallerSame
  <2>8. \A u \in Threads \ {t} : Kept(u)
    BY <1>0, <1>2, <2>5, <2>7, CalmKept
  <2>9. ~Grant(t, Sem) /\ ~Grant(t, Sem)' /\ ~Grant(t, Event)'
    BY <2>1, <2>2, <2>5, <2>7 DEF Grant
  <2>10. Kept(t)
    BY <1>2, <2>2, <2>5, <2>6, <2>7, <2>9 DEF Kept, Place
  <2>11. Sound'
    BY <1>0, <1>2, <2>5, <2>6, <2>7 DEF JInv, Sound
  <2>. QED BY <1>0, <2>8, <2>10, <2>11, AllKept
<1>. QED BY <1>1, <1>2 DEF rt_event_recv

(* rt_event_send: every waiting thread will be looked at. *)
LEMMA EventSendKeeps ==
  ASSUME SchedulerContract, IInv, JInv, NEW t \in Threads \cup {Isr}, NEW bits \in SUBSET Bits,
         rt_event_send(t, bits)
  PROVE  JInv'
<1>1. /\ busy.loop = "none" /\ set' = set \cup bits
      /\ busy' = [loop |-> "send", by |-> t, rest |-> k.waiting[Event], need |-> FALSE]
      /\ UNCHANGED <<k, pc, call, value, mutex, info, tokens>>
  BY SMT DEF rt_event_send, Calls, Runs, NoLoop, Looping
<1>2. busy'.loop = "send" /\ busy'.rest = k.waiting[Event] /\ Distinct(k.waiting[Event])
  BY <1>1, ObjectsAssumption DEF IInv, Good, Linked
<1>3. ASSUME NEW u \in Threads PROVE Kept(u)
  <2>1. KSame(u) /\ CSame(u) /\ ~Resets(u) /\ ~Resets(u)'
    BY <1>1, <1>2 DEF KSame, CSame, Resets
  <2>2. u \in Range(k.waiting[Event]) => InRest(u)'
    BY <1>2 DEF InRest
  <2>3. Place(u) /\ info[u] \in Infos
    BY DEF JInv, Sound
  <2>. QED BY <2>1, <2>2, <2>3, SameKept
<1>4. Sound'
  BY <1>1, <1>2 DEF JInv, Sound
<1>. QED BY <1>1, <1>3, <1>4, AllKept

(* The bits a thread receives. *)
LEMMA BitsReceived ==
  ASSUME NEW i \in Infos, NEW s, NEW got, Satisfied(i, s), i.want # {}, i.asked = i.want,
         got = IF i.and THEN i.want ELSE i.want \cap s
  PROVE  got # {} /\ got \subseteq i.want /\ (i.and => got = i.want)
BY DEF Satisfied, Infos

(* A turn of the loop of rt_event_send: a thread that waits for other      *)
(* bits stays, one whose bits have arrived receives them.                  *)
LEMMA OfferKeeps ==
  ASSUME SchedulerContract, IInv, JInv, Offer
  PROVE  JInv'
<1>0. /\ busy.loop = "send" /\ busy.rest # <<>> /\ busy.rest \in Seq(Threads) /\ Distinct(busy.rest)
      /\ Range(busy.rest) \subseteq Range(k.waiting[Event]) /\ Good(k)
      /\ UNCHANGED <<pc, call, value, mutex, tokens>>
  BY DEF Offer, IInv, Control, Loops, JInv, Sound
<1>1. /\ k.waiting[Event] \in Seq(Threads) /\ Range(k.waiting[Event]) \subseteq Threads /\ Sem # Event
      /\ Sem \in Objects /\ Event \in Objects
  BY <1>0, ObjectsAssumption DEF Good, SchedulerContract, ListsTyped
<1>2. PICK u \in Threads :
        /\ u = Head(busy.rest) /\ u \in Range(busy.rest) /\ u \in Range(k.waiting[Event])
        /\ Distinct(Tail(busy.rest)) /\ Range(Tail(busy.rest)) = Range(busy.rest) \ {u}
  BY <1>0, <1>1 DEF SchedulerContract, HeadTaken
<1>3. /\ busy'.loop = "send" /\ busy'.by = busy.by /\ busy'.rest = Tail(busy.rest)
  <2>1. busy \in [loop : {"none", "timers", "reset", "send"}, by : Threads \cup {Isr},
                  rest : Seq(Threads), need : BOOLEAN]
    BY DEF IInv, Control, Loops
  <2>2. \/ busy' = [busy EXCEPT !.rest = Tail(@), !.need = TRUE]
        \/ busy' = [busy EXCEPT !.rest = Tail(@)]
    BY DEF Offer
  <2>. QED BY <1>0, <2>1, <2>2
<1>4. \A v \in Threads \ {u} : (Resets(v)' <=> Resets(v)) /\ (InRest(v)' <=> InRest(v))
  BY <1>0, <1>2, <1>3 DEF Resets, InRest
<1>5. /\ info \in [Threads -> Infos] /\ set \subseteq Bits /\ Place(u)
      /\ k.stat[u] = "suspend" /\ u \notin Range(k.waiting[Sem])
  BY <1>0, <1>1, <1>2 DEF JInv, Sound, Good, Linked
<1>6. /\ info[u].want # {} /\ info[u].asked = info[u].want /\ call[u] = Event /\ k.error[u] = "EOK"
      /\ pc[u] # "run" /\ info[u] \in Infos
  BY <1>2, <1>5, SuspendedInCall DEF Place
<1>7. CASE ~Satisfied(info[u], set) /\ UNCHANGED <<k, set, info>>
  <2>1. \A v \in Threads : KSame(v) /\ CSame(v)
    BY <1>0, <1>7 DEF KSame, CSame
  <2>2. \A v \in Threads \ {u} : Kept(v)
    <3>1. \A v \in Threads : Place(v) /\ info[v] \in Infos
      BY DEF JInv, Sound
    <3>2. ASSUME NEW v \in Threads \ {u} PROVE InRest(v)' \/ (~InRest(v) /\ set' \subseteq set)
      BY <1>4, <1>7
    <3>. QED BY <1>4, <2>1, <3>1, <3>2, SameKept
  <2>3. Kept(u)
    <3>1. ~Grant(u, Sem) /\ ~Grant(u, Sem)' /\ ~Grant(u, Event)'
      BY <1>5, <1>7 DEF Grant
    <3>. QED BY <1>0, <1>1, <1>5, <1>6, <1>7, <3>1 DEF Kept, Place
  <2>4. Sound'
    BY <1>0, <1>2, <1>3, <1>7 DEF JInv, Sound
  <2>. QED BY <1>0, <2>2, <2>3, <2>4, AllKept
<1>8. CASE /\ Satisfied(info[u], set) /\ k' = rt_thread_resume(k, u)
           /\ LET i == info[u]
                  got == IF i.and THEN i.want ELSE i.want \cap set
              IN  info' = [info EXCEPT ![u].want = got] /\ set' = IF i.clear THEN set \ got ELSE set
  <2>1. PICK got : /\ got = IF info[u].and THEN info[u].want ELSE info[u].want \cap set
                   /\ info' = [info EXCEPT ![u].want = got]
                   /\ set' = IF info[u].clear THEN set \ got ELSE set
    BY <1>8
  <2>2. got # {} /\ got \subseteq info[u].want /\ (info[u].and => got = info[u].want)
    BY <1>6, <1>8, <2>1, BitsReceived
  <2>3. /\ info' \in [Threads -> Infos] /\ \A v \in Threads \ {u} : info'[v] = info[v]
        /\ info'[u].want = got /\ info'[u].asked = info[u].asked /\ info'[u].and = info[u].and
        /\ set' \subseteq set
    BY <1>5, <1>6, <2>1, <2>2 DEF Infos
  <2>4. Woken(k, k', u) /\ k'.error = k.error
    BY <1>0, <1>8 DEF SchedulerContract, Resumes
  <2>5. /\ \A v \in Threads \ {u} : KSame(v)
        /\ k'.stat[u] = "ready" /\ k'.lock = k.lock
        /\ \A o \in {Sem, Event} : Range(k'.waiting[o]) = Range(k.waiting[o]) \ {u}
    BY <2>4, WokenSame
  <2>6. \A v \in Threads \ {u} : Kept(v)
    <3>1. \A v \in Threads \ {u} : CSame(v)
      BY <1>0, <2>3 DEF CSame
    <3>2. \A v \in Threads : Place(v) /\ info[v] \in Infos
      BY DEF JInv, Sound
    <3>3. ASSUME NEW v \in Threads \ {u} PROVE InRest(v)' \/ (~InRest(v) /\ set' \subseteq set)
      BY <1>4, <2>3
    <3>. QED BY <1>4, <2>5, <3>1, <3>2, <3>3, SameKept
  <2>7. Kept(u)
    <3>1. ~Grant(u, Sem) /\ ~Grant(u, Sem)' /\ pc'[u] # "run"
      BY <1>0, <1>1, <1>5, <1>6 DEF Grant
    <3>2. \A o \in {Sem, Event} : u \notin Range(k'.waiting[o])
      BY <2>5
    <3>. QED BY <1>6, <2>2, <2>3, <3>1, <3>2 DEF Kept, Place
  <2>8. Sound'
    <3>1. Distinct(busy'.rest) /\ Range(busy'.rest) \subseteq Range(k'.waiting[Event])
      BY <1>0, <1>2, <1>3, <2>5
    <3>2. Range(k'.waiting[Sem]) \subseteq Range(k.waiting[Sem])
      BY <2>5
    <3>. QED BY <1>0, <2>3, <2>5, <3>1, <3>2 DEF JInv, Sound
  <2>. QED BY <1>0, <2>6, <2>7, <2>8, AllKept
<1>. QED BY <1>2, <1>7, <1>8 DEF Offer

(* The end of rt_event_send. *)
LEMMA SentKeeps ==
  ASSUME SchedulerContract, IInv, JInv, Sent
  PROVE  JInv'
<1>0. /\ busy.loop = "send" /\ busy.rest = <<>> /\ busy' = NoLoop /\ Good(k) /\ Loops
      /\ UNCHANGED <<call, value, mutex, set, info, tokens>>
      /\ pc \in [Threads -> {"run", "sched", "back"}]
  BY DEF Sent, ipc, IInv, Control
<1>1. busy'.loop = "none"
  BY <1>0 DEF NoLoop
<1>2. (\A u \in Threads : KSame(u)) /\ k'.lock = k.lock /\ Range(k'.waiting[Sem]) = Range(k.waiting[Sem])
  <2>1. CASE k' = rt_schedule(k)
    <3>1. SameLists(k, k') /\ k'.error = k.error /\ k'.lock = k.lock
      BY <1>0, <2>1 DEF Good, SchedulerContract, Schedules
    <3>2. \A u \in Threads : KSame(u)
      BY <3>1, ListsSame DEF SameLists, SameWaiting
    <3>. QED BY <3>1, <3>2 DEF SameLists
  <2>2. CASE k' = k
    BY <2>2 DEF KSame
  <2>. QED BY <2>1, <2>2 DEF Sent
<1>3. ASSUME NEW u \in Threads, pc'[u] = pc[u] PROVE Kept(u)
  <2>1. CSame(u) /\ ~Resets(u) /\ ~Resets(u)' /\ ~InRest(u) /\ set' \subseteq set
    BY <1>0, <1>1, <1>3, NothingListed DEF CSame, Resets, InRest
  <2>2. Place(u) /\ info[u] \in Infos
    BY DEF JInv, Sound
  <2>. QED BY <1>2, <2>1, <2>2, SameKept
<1>4. ASSUME NEW u \in Threads, pc'[u] # pc[u] PROVE Kept(u)
  <2>1. u = busy.by /\ pc[u] = "run" /\ pc'[u] = "sched"
    BY <1>0, <1>4, NobodyAssumption DEF Sent, Loops
  <2>2. call[u] = "other" /\ "other" \notin {Sem, Event}
    BY <1>0, <2>1, ObjectsAssumption DEF JInv, Place, Resets
  <2>3. \A o \in {Sem, Event} : u \notin Range(k.waiting[o])
    BY <2>2 DEF JInv, Place
  <2>4. ~Grant(u, Sem) /\ ~Grant(u, Sem)' /\ ~Grant(u, Event)'
    BY <1>0, <2>2 DEF Grant
  <2>. QED BY <1>2, <2>1, <2>3, <2>4, OutKept DEF KSame
<1>5. Sound'
  BY <1>0, <1>1, <1>2, SoundSame DEF JInv, Sound
<1>. QED BY <1>0, <1>3, <1>4, <1>5, AllKept

-----------------------------------------------------------------------------
(* The invariant holds when the scheduler starts. *)
LEMMA InitDelivery ==
  ASSUME SchedulerContract, Good(Booted), Init
  PROVE  JInv
<1>1. /\ k = rt_schedule(Booted) /\ busy = NoLoop /\ pc = [t \in Threads |-> "run"]
      /\ call = [t \in Threads |-> "other"] /\ value = 0 /\ tokens = 0 /\ set = {}
      /\ info = [t \in Threads |-> NoInfo] /\ mutex.hold = 0
  BY DEF Init
<1>2. SameLists(Booted, k) /\ k.lock = Booted.lock
  BY <1>1 DEF Good, SchedulerContract, Schedules
<1>3. k.waiting = [o \in Objects |-> <<>>] /\ k.lock = 0 /\ busy.loop = "none"
  BY <1>1, <1>2 DEF SameLists, Booted, NoLoop
<1>4. \A o \in {Sem, Event} : Range(k.waiting[o]) = {}
  BY <1>3, NothingListed, ObjectsAssumption
<1>5. \A u \in Threads : pc[u] = "run" /\ call[u] = "other" /\ \A o : ~Grant(u, o)
  BY <1>1 DEF Grant
<1>6. \A u \in Threads : Place(u)
  BY <1>4, <1>5 DEF Place
<1>7. NoInfo \in Infos
  BY DEF NoInfo, Infos
<1>8. Sound
  BY <1>1, <1>3, <1>4, <1>7, BoundsAssumption, SMT DEF Sound
<1>9. Cardinality(Grants) = 0
  <2>1. Grants = {}
    BY <1>5 DEF Grants
  <2>. QED BY <2>1, FS_EmptySet
<1>. QED BY <1>1, <1>6, <1>8, <1>9, SMT DEF JInv

(* Every step of the kernel keeps it. *)
LEMMA NextDelivery ==
  ASSUME SchedulerContract, IInv, JInv, [Next]_vars
  PROVE  JInv'
<1>1. CASE UNCHANGED vars
  <2>1. UNCHANGED <<k, busy, pc, call, value, mutex, set, info, tokens>>
    BY <1>1 DEF vars
  <2>2. ASSUME NEW u \in Threads PROVE Kept(u)
    <3>1. KSame(u) /\ CSame(u) /\ (Resets(u)' <=> Resets(u)) /\ (InRest(u)' <=> InRest(u)) /\ set' = set
      BY <2>1 DEF KSame, CSame, Resets, InRest
    <3>2. Place(u) /\ info[u] \in Infos
      BY DEF JInv, Sound
    <3>. QED BY <3>1, <3>2, SameKept
  <2>3. Sound'
    BY <2>1 DEF JInv, Sound
  <2>. QED BY <2>1, <2>2, <2>3, AllKept
<1>2. ASSUME NEW t \in Threads, ThreadStep(t) PROVE JInv'
  <2>1. CASE Schedule(t)
    BY <2>1, ScheduleKeeps
  <2>2. CASE Return(t)
    BY <2>2, ReturnKeeps
  <2>3. CASE \E time \in Times : time >= 0 /\ rt_thread_sleep(t, time)
    BY <2>3, SleepKeeps
  <2>4. CASE Yield(t)
    BY <2>4, YieldKeeps
  <2>5. CASE rt_enter_critical(t) \/ rt_exit_critical(t)
    BY <2>5, CriticalKeeps
  <2>6. CASE \E time \in Times : rt_sem_take(t, time)
    BY <2>6, SemTakeKeeps
  <2>7. CASE \E time \in Times : rt_mutex_take(t, time)
    BY <2>7, MutexTakeKeeps
  <2>8. CASE rt_sem_release(t)
    BY <2>8, SemReleaseKeeps
  <2>9. CASE rt_mutex_release(t)
    BY <2>9, MutexReleaseKeeps
  <2>10. CASE \E o \in Objects : rt_ipc_control(t, o)
    BY <2>10, IpcControlKeeps
  <2>11. CASE \E i \in Asks, time \in Times : rt_event_recv(t, i, time)
    BY <2>11, EventRecvKeeps
  <2>12. CASE \E bits \in SUBSET Bits \ {{}} : rt_event_send(t, bits)
    BY <2>12, EventSendKeeps
  <2>. QED BY <1>2, <2>1, <2>2, <2>3, <2>4, <2>5, <2>6, <2>7, <2>8, <2>9, <2>10, <2>11, <2>12 DEF
              ThreadStep
<1>3. CASE Interrupt
  BY <1>3, TickKeeps, SemReleaseKeeps, EventSendKeeps DEF Interrupt
<1>4. CASE Loop
  BY <1>4, TimerKeeps, ResumeAllKeeps, OfferKeeps, SentKeeps DEF Loop
<1>. QED BY <1>1, <1>2, <1>3, <1>4 DEF Next

(* Granted, in the words of the invariant: a thread that is inside a call  *)
(* is not the one that runs a loop.                                        *)
LEMMA GrantedIsGrant ==
  ASSUME IInv, NEW o
  PROVE  Granted(o) = {u \in Threads : Grant(u, o)}
<1>1. \A u \in Threads : pc[u] # "run" => busy.by # u
  BY DEF IInv, Control, Loops
<1>. QED BY <1>1 DEF Granted, Grant

(* What the invariant says of the semaphore, of events, and of the range   *)
(* of the variables.                                                       *)
LEMMA TokensFromInvariant ==
  ASSUME SchedulerContract, IInv, JInv
  PROVE  TokensConserved
<1>1. Granted(Sem) = Grants
  BY GrantedIsGrant DEF Grants
<1>2. k.waiting[Sem] \in Seq(Threads)
  BY ObjectsAssumption DEF IInv, Good, SchedulerContract, ListsTyped
<1>3. value > 0 => k.waiting[Sem] = <<>>
  BY <1>2 DEF JInv, Sound, SchedulerContract, EmptyRange
<1>. QED BY <1>1, <1>3 DEF TokensConserved, JInv

LEMMA EventsFromInvariant ==
  ASSUME SchedulerContract, IInv, JInv
  PROVE  EventsDelivered
<1>1. Range(k.waiting[Event]) \subseteq Threads
  BY ObjectsAssumption DEF IInv, Good, SchedulerContract, ListsTyped
<1>2. busy.loop # "send" => \A t \in Range(k.waiting[Event]) : ~Satisfied(info[t], set)
  BY <1>1 DEF JInv, Place, InRest
<1>3. \A t \in Granted(Event) : t \in Threads /\ Grant(t, Event)
  BY GrantedIsGrant
<1>. QED BY <1>2, <1>3 DEF EventsDelivered, JInv, Place

LEMMA TypesFromInvariant ==
  ASSUME IInv, JInv
  PROVE  TypeOK
<1>1. /\ k \in KState /\ pc \in [Threads -> {"run", "sched", "back"}] /\ MutexType(mutex, held)
      /\ busy \in [loop : {"none", "timers", "reset", "send"}, by : Threads \cup {Isr},
                   rest : Seq(Threads), need : BOOLEAN]
      /\ Exclusive(k, pc, call, mutex, held)
  BY DEF IInv, Good, Control, Loops
<1>2. /\ mutex.value \in {0, 1} /\ mutex.hold \in Nat /\ mutex.owner \in Threads \cup {Null}
      /\ held \in [Threads -> Nat] /\ mutex.hold <= MaxHold /\ MaxHold \in Nat
  BY <1>1, BoundsAssumption DEF MutexType, JInv, Sound
<1>3. ASSUME NEW t \in Threads PROVE held[t] \in 0..MaxHold
  <2>1. held[t] > 0 => mutex.owner = t /\ mutex.owner # Null
    BY <1>1, NobodyAssumption, SMT DEF Exclusive
  <2>2. held[t] > 0 => mutex.hold = held[t] \/ mutex.hold = held[t] + 1
    <3>1. mutex.owner # Null =>
            mutex.hold = held[mutex.owner] + (IF Given(k, call, mutex.owner) THEN 1 ELSE 0)
      BY <1>1 DEF Exclusive
    <3>. QED BY <1>2, <2>1, <3>1, SMT
  <2>. QED BY <1>2, <2>2, SMT
<1>4. tokens \in Nat
  BY GrantsFinite, SMT DEF JInv, Sound
<1>5. held \in [Threads -> 0..MaxHold]
  BY <1>2, <1>3
<1>. QED BY <1>1, <1>2, <1>4, <1>5, SMT DEF TypeOK, JInv, Sound
=============================================================================
