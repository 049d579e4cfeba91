--------------------------- MODULE WorkerThreads ----------------------------
(***************************************************************************)
(* testMutex of main.cpp with mutex/: main creates threads that each       *)
(* increment mu_num under a MutexLock, joins them and prints mu_num.       *)
(* pthread_create may fail; main only prints that and later joins the      *)
(* thread id it never got, which is undefined: here the join comes back,   *)
(* waits for ever, or the program crashes.                                 *)
(***************************************************************************)
EXTENDS Integers, FiniteSets

CONSTANTS NUM_THREADS,
          NoThread   \* the mutex is free

ASSUME WorkerAssumption == /\ NUM_THREADS \in Nat \ {0}
                           /\ NoThread \notin 1..NUM_THREADS

Workers == 1..NUM_THREADS

VARIABLES mu, mu_num,   \* the globals; mu is the thread that holds it
          place,        \* per thread: "none", "lock", "read", "write", "unlock", "exited"
          seen,         \* per thread: mu_num as it read it
          main,         \* main: "create", "join", "printed", "stuck" or "crashed"
          index,        \* main's loop variable i, counted from 1
          printed       \* what main printed

workVars == <<mu, mu_num, place, seen, main, index, printed>>

WorkInit == /\ mu = NoThread
            /\ mu_num = 0
            /\ place = [t \in Workers |-> "none"]
            /\ seen = [t \in Workers |-> 0]
            /\ main = "create"
            /\ index = 1
            /\ printed = 0

Move(t, to) == place' = [place EXCEPT ![t] = to]

NextLoop == IF index < NUM_THREADS THEN main' = main /\ index' = index + 1
            ELSE main' = "join" /\ index' = 1

Create == /\ main = "create" /\ index <= NUM_THREADS
          /\ Move(index, "lock")
          /\ NextLoop
          /\ UNCHANGED <<mu, mu_num, seen, printed>>

CreateFails == /\ main = "create" /\ index <= NUM_THREADS
               /\ NextLoop
               /\ UNCHANGED <<mu, mu_num, place, seen, printed>>

LockIgnored(t) == mu' = t   \* mutant of Acquired: the lock is not waited for
Acquired(t) == mu = NoThread /\ mu' = t

Lock(t) == /\ place[t] = "lock"
           /\ Acquired(t)
           /\ Move(t, "read")
           /\ UNCHANGED <<mu_num, seen, main, index, printed>>

Read(t) == /\ place[t] = "read"
           /\ seen' = [seen EXCEPT ![t] = mu_num]
           /\ Move(t, "write")
           /\ UNCHANGED <<mu, mu_num, main, index, printed>>

Write(t) == /\ place[t] = "write"
            /\ mu_num' = seen[t] + 1
            /\ Move(t, "unlock")
            /\ UNCHANGED <<mu, seen, main, index, printed>>

StillLocked == UNCHANGED mu   \* mutant of Released: the destructor does not unlock
Released == mu' = NoThread

UnLock(t) == /\ place[t] = "unlock"
             /\ Released
             /\ Move(t, "exited")
             /\ UNCHANGED <<mu_num, seen, main, index, printed>>

Join == /\ main = "join" /\ index <= NUM_THREADS
        /\ place[index] = "exited"
        /\ index' = index + 1
        /\ UNCHANGED <<mu, mu_num, place, seen, main, printed>>

JoinUnknown == /\ main = "join" /\ index <= NUM_THREADS
               /\ place[index] = "none"
               /\ \/ index' = index + 1 /\ UNCHANGED main
                  \/ main' \in {"stuck", "crashed"} /\ UNCHANGED index
               /\ UNCHANGED <<mu, mu_num, place, seen, printed>>

PrintTotal == /\ main = "join" /\ index > NUM_THREADS
              /\ printed' = mu_num
              /\ main' = "printed"
              /\ UNCHANGED <<mu, mu_num, place, seen, index>>

Running == main # "crashed"

MainStep == Create \/ CreateFails \/ Join \/ JoinUnknown \/ PrintTotal

Worker(t) == Running /\ (Lock(t) \/ Read(t) \/ Write(t) \/ UnLock(t))

WorkNext == MainStep \/ \E t \in Workers : Worker(t)

WorkSpec == WorkInit /\ [][WorkNext]_workVars

Created == {t \in Workers : place[t] # "none"}

------------------------------------------------------------------------------

(* What main prints is the number of threads that were created: no         *)
(* increment is lost, and none is still to come.                           *)
PrintedAll == main = "printed" => printed = Cardinality(Created)

(* Once main waits for the threads, and all were created, it prints.       *)
MainPrints == (main = "join" /\ Created = Workers) ~> main = "printed"
==============================================================================
