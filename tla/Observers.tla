----------------------------- MODULE Observers -------------------------------
(***************************************************************************)
(* pattern/observer.h and .cc: a subject with a list of its observers.     *)
(* Notify is a step per observer.  The objects are in the callers' hands   *)
(* throughout: observers and subject hold each other by shared_ptr, and    *)
(* what is attached is never destroyed.                                    *)
(***************************************************************************)
EXTENDS Integers, Sequences

CONSTANTS Observers, States

ASSUME ObserversAssumption == 0 \in States

VARIABLES m_pObserver_list, m_nState,
          next,      \* Notify's iterator, as an index, or 0 when no call is in progress
          shown,     \* per observer: the states it printed in the last Notify
          attached   \* history: the observers attached and not detached since

obsVars == <<m_pObserver_list, m_nState, next, shown, attached>>

ObsInit == /\ m_pObserver_list = <<>>
           /\ m_nState = 0
           /\ next = 0
           /\ shown = [o \in Observers |-> <<>>]
           /\ attached = {}

AttachedAgain(list, o) == Append(list, o)   \* mutant of Emplaced: does not look whether it is in the list already
Emplaced(list, o) == IF \E i \in 1..Len(list) : list[i] = o THEN list ELSE Append(list, o)

Attach(o) == /\ next = 0
             /\ m_pObserver_list' = Emplaced(m_pObserver_list, o)
             /\ attached' = attached \cup {o}
             /\ UNCHANGED <<m_nState, next, shown>>

(* list::remove takes out every element that equals o. *)
Removed(list, o) ==
  LET Kept[n \in 0..Len(list)] ==
        IF n = 0 THEN <<>>
        ELSE IF list[n] = o THEN Kept[n - 1] ELSE Append(Kept[n - 1], list[n])
  IN  Kept[Len(list)]

Detach(o) == /\ next = 0
             /\ m_pObserver_list' = Removed(m_pObserver_list, o)
             /\ attached' = attached \ {o}
             /\ UNCHANGED <<m_nState, next, shown>>

SetState(state) == /\ next = 0
                   /\ m_nState' = state
                   /\ UNCHANGED <<m_pObserver_list, next, shown, attached>>

Notify == /\ next = 0
          /\ next' = 1
          /\ shown' = [o \in Observers |-> <<>>]
          /\ UNCHANGED <<m_pObserver_list, m_nState, attached>>

Update == /\ next \in 1..Len(m_pObserver_list)
          /\ shown' = [shown EXCEPT ![m_pObserver_list[next]] = Append(@, m_nState)]
          /\ next' = next + 1
          /\ UNCHANGED <<m_pObserver_list, m_nState, attached>>

NotifyReturns == /\ next > Len(m_pObserver_list)
                 /\ next' = 0
                 /\ UNCHANGED <<m_pObserver_list, m_nState, shown, attached>>

ObsNext == \/ \E o \in Observers : Attach(o) \/ Detach(o)
           \/ \E state \in States : SetState(state)
           \/ Notify \/ Update \/ NotifyReturns

ObsSpec == ObsInit /\ [][ObsNext]_obsVars

------------------------------------------------------------------------------

(* When Notify comes to the end of the list, every observer that is        *)
(* attached has shown the subject's state, once although it may have been  *)
(* attached several times, and no other observer has shown anything.       *)
NotifyShowsAttachedOnce ==
  next > Len(m_pObserver_list) =>
    shown = [o \in Observers |-> IF o \in attached THEN <<m_nState>> ELSE <<>>]
==============================================================================
