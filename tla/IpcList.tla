------------------------------- MODULE IpcList -------------------------------
(***************************************************************************)
(* The suspend lists of RT-Thread IPC objects: doubly linked lists of      *)
(* threads (the rt_ipc_list functions of src/src/ipc.c), here sequences.   *)
(***************************************************************************)
EXTENDS Integers, Sequences, FiniteSetsExt, Functions

(* The place where the walk of a list stops, at the first of the nodes     *)
(* that meet its condition; 0 where none does.                             *)
FirstPlace(hits) == IF hits = {} THEN 0 ELSE Min(hits)

(* rt_list_insert_before and rt_list_remove at place i of the list *)
InsertBefore(seq, i, e) == SubSeq(seq, 1, i - 1) \o <<e>> \o SubSeq(seq, i, Len(seq))
RemoveNth(seq, i) == SubSeq(seq, 1, i - 1) \o SubSeq(seq, i + 1, Len(seq))

(* Mutant of ListSuspend: RT_IPC_FLAG_PRIO is ignored. *)
ListSuspendUnsorted(list, t, flag, priority) == Append(list, t)

(* rt_ipc_list_suspend: with RT_IPC_FLAG_PRIO thread t is linked before    *)
(* the first thread that is less urgent (a larger number), else at the end.*)
ListSuspend(list, t, flag, priority) ==
  LET i == FirstPlace({j \in 1..Len(list) : priority[t] < priority[list[j]]})
  IN  IF flag = "FIFO" \/ i = 0 THEN Append(list, t) ELSE InsertBefore(list, i, t)

(* rt_list_remove(&thread->tlist): no effect on a thread that is not linked *)
Unlink(list, t) ==
  LET i == FirstPlace({j \in 1..Len(list) : list[j] = t})
  IN  IF i = 0 THEN list ELSE RemoveNth(list, i)

(* rt_ipc_list_resume, where the caller has tested rt_list_isempty: the    *)
(* list without its first thread, and the thread states with it ready.     *)
Resumed(list) == IF list = <<>> THEN <<>> ELSE Tail(list)
Ready(list, stat) ==
  IF list = <<>> THEN stat ELSE [stat EXCEPT ![Head(list)] = "ready"]

Distinct(list) == \A i, j \in 1..Len(list) : list[i] = list[j] => i = j
Sorted(list, priority) ==
  \A i, j \in 1..Len(list) : i < j => priority[list[i]] <= priority[list[j]]
=============================================================================
