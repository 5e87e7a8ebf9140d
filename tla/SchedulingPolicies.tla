------------------------- MODULE SchedulingPolicies -------------------------
(***************************************************************************)
(* The task containers of boost/threadpool/scheduling_policies.hpp.  The   *)
(* pool calls them only while it holds its monitor, so each member         *)
(* function is an operator on the value of m_container, a sequence whose   *)
(* first element is the front of the deque.                                *)
(*                                                                         *)
(* prio_scheduler keeps a std::priority_queue; the order in which that     *)
(* heap gives out tasks of one priority is unspecified, so any pending     *)
(* task of the highest priority may be its top.                            *)
(***************************************************************************)
EXTENDS Naturals, Sequences, SequencesExt

CONSTANTS
  SchedulingPolicy,   \* the pool's template argument: one of the class names
  Priority            \* prio_task_func::m_priority of each task

ASSUME SchedulingPolicyAssumption ==
  SchedulingPolicy \in {"fifo_scheduler", "lifo_scheduler", "prio_scheduler"}

-----------------------------------------------------------------------------
(* A name with an underscore is a variant of the definition after it, with *)
(* a mistake that a property must exclude.                                 *)

push_Front(container, t) == <<t>> \o container

push(container, t) ==
  IF SchedulingPolicy = "lifo_scheduler" THEN <<t>> \o container
                                         ELSE Append(container, t)

Less_Reversed(t, u) == Priority[t] > Priority[u]

(* prio_task_func::operator<                                               *)
Less(t, u) == Priority[t] < Priority[u]

(* The positions that top() may return and pop() then removes.             *)
TopPositions(container) ==
  IF SchedulingPolicy = "prio_scheduler"
  THEN { i \in DOMAIN container :
           \A j \in DOMAIN container : ~Less(container[i], container[j]) }
  ELSE { i \in DOMAIN container : i = 1 }

top(container, i) == container[i]

pop_Back(container, i) == RemoveAt(container, Len(container))

pop(container, i) == RemoveAt(container, i)

=============================================================================
