----------------------------- MODULE JobService -----------------------------
(***************************************************************************)
(* What the thread pool and the reactor promise about the jobs they are    *)
(* given, without threads, queues and wakeups: a job that was accepted is  *)
(* done, its result is then delivered, and its user is answered once.  A   *)
(* lookup may time out before; its result is then thrown away.  Jobs are   *)
(* accepted, also after a stop was asked for, until the pool is being      *)
(* stopped; from then on nobody is answered, and the end waits until every *)
(* accepted job is done.                                                   *)
(***************************************************************************)
EXTENDS Naturals

CONSTANTS Job, Lookup

VARIABLES accepted,  \* the jobs given to the service
          waiting,   \* the ones that are not done yet
          done,      \* the ones whose result was not delivered yet
          open,      \* the lookups whose timeout may still come
          fired,     \* how often the user of each job was answered
          phase      \* of the service's life

vars == <<accepted, waiting, done, open, fired, phase>>

Init == /\ accepted = {} /\ waiting = {} /\ done = {} /\ open = {}
        /\ fired = [j \in Job |-> 0]
        /\ phase = "running"

Serving == phase \in {"running", "stopping"}

Accept(j) == /\ Serving /\ j \notin accepted
             /\ accepted' = accepted \cup {j}
             /\ waiting' = waiting \cup {j}
             /\ open' = open \cup ({j} \cap Lookup)
             /\ UNCHANGED <<done, fired, phase>>

Do(j) == /\ phase # "ended" /\ j \in waiting
         /\ waiting' = waiting \ {j}
         /\ done' = done \cup {j}
         /\ UNCHANGED <<accepted, open, fired, phase>>

Answer(j) == /\ fired[j] = 0 /\ (j \in Lookup => j \in open)
             /\ fired' = [fired EXCEPT ![j] = 1]
             /\ open' = open \ {j}

Deliver(j) == /\ Serving /\ j \in done /\ Answer(j)
              /\ done' = done \ {j}
              /\ UNCHANGED <<accepted, waiting, phase>>

\* The lookup has timed out, and its user was told so.
Discard(j) == /\ Serving /\ j \in done /\ j \in Lookup \ open /\ fired[j] = 1
              /\ done' = done \ {j}
              /\ UNCHANGED <<accepted, waiting, open, fired, phase>>

TimeOut(j) == /\ Serving /\ j \in Lookup /\ Answer(j)
              /\ UNCHANGED <<accepted, waiting, done, phase>>

AskToStop == phase = "running" /\ phase' = "stopping"
Stop == phase = "stopping" /\ phase' = "finishing"
End == phase = "finishing" /\ waiting = {} /\ phase' = "ended"

Next == \/ \E j \in Job : Accept(j) \/ Do(j) \/ Deliver(j) \/ Discard(j) \/ TimeOut(j)
        \/ (AskToStop \/ Stop \/ End) /\ UNCHANGED <<accepted, waiting, done, open, fired>>

Spec == Init /\ [][Next]_vars

=============================================================================
