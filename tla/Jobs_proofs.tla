----------------------------- MODULE Jobs_proofs -----------------------------
(***************************************************************************)
(* The job counter of the crawler, for every web, every MAX_JOBS and every *)
(* number of threads.                                                      *)
(*                                                                         *)
(* The strengthening: while startJob holds m_mutex past its test there is  *)
(* a free job, and between sendRequest and ++m_curJobs the new socket has  *)
(* no stopJob, because stopJob waits for m_mutex.  That the socket is new  *)
(* is AtMostOnce.                                                          *)
(***************************************************************************)
EXTENDS AtMostOnce_proofs

Done == {u \in Url : stage[u] = "done"}

Room == 0 <= MaxJobs =>
          /\ curJobs + Uncounted <= MaxJobs
          /\ send.at \in {"pop", "connect"} => curJobs < MaxJobs

Tally == /\ IsFiniteSet(Unstopped) /\ IsFiniteSet(Done)
         /\ JobsCounted
         /\ send.at = "count" => send.url.url \in Unstopped
         /\ Room

JobsInv == /\ OnceInv
           /\ Tally
           /\ main.at = "seed" => send.at = "off"

\* A step that neither opens a socket nor ends a job.
SameJobs == UNCHANGED <<curJobs, success, failure, Unstopped, Done>>

LEMMA SameJobsKept ==
  ASSUME JobsInv, SameJobs, UNCHANGED send
  PROVE  Tally'
BY DEF JobsInv, Tally, SameJobs, JobsCounted, Done, Uncounted, Room

\* The socket of one URL, seen from the two sets.
LEMMA StageSets ==
  ASSUME NEW u \in Url, \A x \in Url \ {u} : stage'[x] = stage[x]
  PROVE  /\ stage[u] \notin {"none", "done"} /\ stage'[u] \notin {"none", "done"}
              => UNCHANGED <<Unstopped, Done>>
         /\ stage[u] = "none" /\ stage'[u] = "open"
              => /\ Unstopped' = Unstopped \cup {u} /\ u \notin Unstopped
                 /\ Done' = Done
         /\ stage[u] \notin {"none", "done"} /\ stage'[u] = "done"
              => /\ Unstopped' = Unstopped \ {u} /\ u \in Unstopped
                 /\ Done' = Done \cup {u} /\ u \notin Done
BY DEF Unstopped, Done

Counted == /\ curJobs = Cardinality(Unstopped) - Uncounted
           /\ success + failure = Cardinality(Done)

LEMMA CountedJobs == (JobsCounted <=> Counted) /\ (JobsCounted <=> Counted)'
BY DEF JobsCounted, Counted, Done

LEMMA JobsInit == Init => JobsInv
<1> SUFFICES ASSUME Init PROVE JobsInv
  OBVIOUS
<1>1. Unstopped = {} /\ Done = {}
  BY CrawlerAssumption DEF Init, Unstopped, Done, Producer
<1>2. IsFiniteSet({}) /\ Cardinality({}) = 0
  BY FS_EmptySet
<1>3. curJobs = 0 /\ Uncounted = 0 /\ success = 0 /\ failure = 0 /\ send.at = "off"
  BY DEF Init, Uncounted
<1>4. JobsCounted /\ Room
  <2>1. Counted
    BY <1>1, <1>2, <1>3 DEF Counted
  <2>2. Room
    BY <1>3, CrawlerAssumption DEF Room
  <2>3. QED
    BY <2>1, <2>2, CountedJobs
<1>5. QED
  BY <1>1, <1>2, <1>3, <1>4, OnceInit DEF JobsInv, Tally

\* What the proofs below use of the invariant.
LEMMA JobFacts ==
  ASSUME JobsInv
  PROVE  /\ stage \in [Producer -> Stage]
         /\ send \in Hand({"off", "lock", "asleep", "pop", "connect", "count"})
         /\ curJobs \in Int /\ success \in Nat /\ failure \in Nat /\ MaxJobs \in Int
         /\ Cardinality(Unstopped) \in Nat /\ Cardinality(Done) \in Nat
         /\ Uncounted \in {0, 1} /\ (Uncounted = 1 <=> send.at = "count")
         /\ curJobs = Cardinality(Unstopped) - Uncounted
         /\ success + failure = Cardinality(Done)
<1>1. TypeOK /\ Counted
  BY CountedJobs DEF JobsInv, OnceInv, TypeInv, Tally
<1>2. Cardinality(Unstopped) \in Nat /\ Cardinality(Done) \in Nat
  BY FS_CardinalityType DEF JobsInv, Tally
<1>3. QED
  BY <1>1, <1>2, CrawlerAssumption DEF TypeOK, Counted, Uncounted

LEMMA OpenJobs ==
  ASSUME JobsInv, SendRequest
  PROVE  Tally'
<1> DEFINE u == send.url.url
<1>1. u \in Url /\ u \in Producer /\ send.at = "connect" /\ stage[u] = "none"
  BY SendRequestOnce
     DEF SendRequest, JobsInv, OnceInv, TypeInv, HandsFull, RawUrl, Producer
<1>2. UNCHANGED <<curJobs, success, failure>> /\ Uncounted = 0
  BY <1>1 DEF SendRequest, stats, Uncounted
<1>3. CASE UNCHANGED stage /\ send' = [at |-> "lock", url |-> NoUrl]
  <2>1. UNCHANGED <<Unstopped, Done>> /\ Uncounted' = 0 /\ send'.at = "lock"
    BY <1>3 DEF Unstopped, Done, Uncounted
  <2>2. JobsCounted' /\ Room'
    BY <1>2, <2>1 DEF JobsInv, Tally, JobsCounted, Room, Done
  <2>3. QED
    BY <2>1, <2>2 DEF JobsInv, Tally
<1>4. CASE stage' = [stage EXCEPT ![u] = "open"] /\ send' = [send EXCEPT !.at = "count"]
  <2>1. /\ stage'[u] = "open" /\ \A x \in Url \ {u} : stage'[x] = stage[x]
        /\ send'.at = "count" /\ send'.url = send.url
    BY <1>1, <1>4, JobFacts DEF Producer, Hand
  <2>2. /\ Unstopped' = Unstopped \cup {u} /\ u \notin Unstopped /\ Done' = Done
    BY <1>1, <2>1, StageSets
  <2>3. IsFiniteSet(Unstopped') /\ Cardinality(Unstopped') = Cardinality(Unstopped) + 1
    BY <2>2, FS_AddElement DEF JobsInv, Tally
  <2>4. Uncounted' = 1
    BY <2>1 DEF Uncounted
  <2>5. curJobs' = Cardinality(Unstopped') - Uncounted'
    BY <1>2, <2>3, <2>4, JobFacts
  <2>6. JobsCounted'
    BY <1>2, <2>2, <2>5, JobFacts, CountedJobs DEF Counted
  <2>7. Room'
    BY <1>1, <1>2, <2>1, <2>4, JobFacts DEF JobsInv, Tally, Room
  <2>8. QED
    BY <2>1, <2>2, <2>3, <2>6, <2>7 DEF JobsInv, Tally
<1>5. QED
  BY <1>3, <1>4 DEF SendRequest

LEMMA CountJobs ==
  ASSUME JobsInv, startJob \/ SpuriousJobWakeup \/ SendPop \/ CountJob
  PROVE  Tally'
<1>1. UNCHANGED <<Unstopped, Done, success, failure>>
  BY DEF startJob, SpuriousJobWakeup, SendPop, CountJob, jobs, stats, Unstopped, Done
<1>2. send'.at # "count" /\ Uncounted' = 0
  BY JobFacts
     DEF startJob, SpuriousJobWakeup, SendPop, CountJob, Hand, Uncounted
<1>3. curJobs' = curJobs + Uncounted
  BY JobFacts DEF startJob, SpuriousJobWakeup, SendPop, CountJob, stats, Uncounted
<1>4. JobsCounted'
  BY <1>1, <1>2, <1>3, JobFacts, CountedJobs DEF Counted
<1>5. 0 <= MaxJobs => curJobs' + Uncounted' <= MaxJobs
  BY <1>2, <1>3, JobFacts DEF JobsInv, Tally, Room
<1>6. 0 <= MaxJobs /\ send'.at \in {"pop", "connect"} => curJobs' < MaxJobs
  BY <1>3, JobFacts
     DEF JobsInv, Tally, Room, startJob, SpuriousJobWakeup, SendPop, CountJob, stats, Hand,
         Uncounted
<1>7. QED
  BY <1>1, <1>2, <1>4, <1>5, <1>6 DEF Room, JobsInv, Tally

LEMMA StopJobs ==
  ASSUME JobsInv, NEW u \in Url, stopJob(u)
  PROVE  Tally'
<1>1. /\ stage[u] \notin {"none", "done"} /\ stage'[u] = "done"
      /\ \A x \in Url \ {u} : stage'[x] = stage[x]
  BY JobFacts DEF stopJob, Producer
<1>2. /\ Unstopped' = Unstopped \ {u} /\ u \in Unstopped
      /\ Done' = Done \cup {u} /\ u \notin Done
  BY <1>1, StageSets
<1>3. IsFiniteSet(Unstopped') /\ Cardinality(Unstopped') = Cardinality(Unstopped) - 1
  BY <1>2, FS_RemoveElement DEF JobsInv, Tally
<1>4. IsFiniteSet(Done') /\ Cardinality(Done') = Cardinality(Done) + 1
  BY <1>2, FS_AddElement DEF JobsInv, Tally
<1>5. /\ send.at \notin {"pop", "connect", "count"}
      /\ send'.at \notin {"pop", "connect", "count"}
      /\ Uncounted = 0 /\ Uncounted' = 0
  BY JobFacts DEF stopJob, MutexHeld, Uncounted, Hand
<1>6. curJobs' = curJobs - 1 /\ success' + failure' = success + failure + 1
  BY JobFacts DEF stopJob
<1>7. JobsCounted'
  BY <1>3, <1>4, <1>5, <1>6, JobFacts, CountedJobs DEF Counted
<1>8. Room'
  BY <1>5, <1>6, JobFacts DEF JobsInv, Tally, Room
<1>9. QED
  BY <1>3, <1>4, <1>5, <1>7, <1>8 DEF Tally

\* The send thread is not started before the seeds are pushed.
LEMMA SeedsFirst ==
  ASSUME JobsInv, [Next]_vars
  PROVE  main'.at = "seed" => send'.at = "off"
<1> SUFFICES ASSUME main'.at = "seed" PROVE send'.at = "off"
  OBVIOUS
<1>1. main \in Place({"seed", "epoll", "end", "jam", "clear", "exit"})
  BY DEF JobsInv, OnceInv, TypeInv, TypeOK
<1>2. ~StartThreads /\ ~NoEvents /\ ~ClearJam
  BY DEF StartThreads, NoEvents, ClearJam, At
<1>3. ~Check
  <2>1. SUFFICES ASSUME Check PROVE FALSE
    OBVIOUS
  <2>2. main.at # "seed" /\ main'.at \in {main.at, "exit", "clear", "jam", "epoll"}
    BY <1>1, <2>1 DEF Check, At, Place
  <2>3. QED
    BY <2>2
<1>4. UNCHANGED main
  BY <1>2, <1>3
     DEF Next, MainThread, Push, PushUrl, ResumePush, AfterPush, DnsThread, DnsPop,
         Resolve, DnsPush, SendThread, startJob, SendPop, SendRequest, CountJob,
         RecvThread, Receive, EndPage, stopJob, Readable, SocketError, Wakeup,
         SpuriousJobWakeup, Exited, vars
<1>5. send.at = "off"
  BY <1>4 DEF JobsInv, Tally
<1>6. UNCHANGED send
  BY <1>2, <1>3, <1>5
     DEF Next, MainThread, Push, PushUrl, ResumePush, AfterPush, DnsThread, DnsPop,
         Resolve, DnsPush, SendThread, startJob, SendPop, SendRequest, CountJob,
         RecvThread, Receive, EndPage, stopJob, Readable, SocketError, Wakeup,
         SpuriousJobWakeup, Exited, vars
<1>7. QED
  BY <1>5, <1>6

LEMMA JobsStep == JobsInv /\ [Next]_vars => JobsInv'
<1> SUFFICES ASSUME JobsInv, [Next]_vars PROVE JobsInv'
  OBVIOUS
<1>1. OnceInv'
  BY OnceStep DEF JobsInv, Tally
<1>2. SUFFICES Tally'
  BY <1>1, SeedsFirst DEF JobsInv, Tally
<1>3. ASSUME UNCHANGED <<send, stage, stats>>
      PROVE  SameJobs
  BY <1>3 DEF stats, SameJobs, Unstopped, Done
<1>4. ASSUME NEW p \in Producer, Push(p)
      PROVE  SameJobs /\ UNCHANGED send
  <2>1. /\ UNCHANGED <<send, stats>> /\ stage[p] \in {"push", "wait"}
        /\ stage'[p] \in {"push", "wait"}
        /\ \A x \in Producer \ {p} : stage'[x] = stage[x]
    BY <1>4, JobFacts DEF Push, PushUrl, ResumePush, AfterPush
  <2>2. UNCHANGED <<Unstopped, Done>>
    BY <2>1 DEF Unstopped, Done, Producer
  <2>3. QED
    BY <2>1, <2>2 DEF SameJobs, stats
<1>5. CASE StartThreads
  <2>1. \A x \in Url : stage'[x] = stage[x]
    BY <1>5, JobFacts, CrawlerAssumption DEF StartThreads, Producer
  <2>2. UNCHANGED <<Unstopped, Done, curJobs, success, failure>>
    BY <1>5, <2>1 DEF StartThreads, stats, Unstopped, Done
  <2>3. send'.at = "lock" /\ Uncounted' = 0 /\ Uncounted \in {0, 1}
    BY <1>5, JobFacts DEF StartThreads, Hand, Uncounted
  <2>4. Uncounted = 0
    BY <1>5 DEF StartThreads, JobsInv, Uncounted
  <2>5. JobsCounted' /\ Room'
    BY <2>2, <2>3, <2>4, JobFacts, CountedJobs DEF JobsInv, Tally, Counted, Room
  <2>6. QED
    BY <2>2, <2>3, <2>5 DEF JobsInv, Tally
<1>6. CASE MainThread
  BY <1>3, <1>4, <1>5, <1>6, SameJobsKept
     DEF MainThread, NoEvents, Check, ClearJam, jobs, Producer
<1>7. CASE DnsThread \/ Wakeup \/ Exited \/ UNCHANGED vars
  BY <1>3, <1>7, SameJobsKept
     DEF DnsThread, DnsPop, Resolve, DnsPush, Wakeup, Exited, jobs, stats, vars
<1>8. ASSUME NEW u \in Url, RecvThread(u) \/ Readable(u) \/ SocketError(u)
      PROVE  Tally'
  <2>1. CASE Receive(u) \/ EndPage(u) \/ Readable(u) \/ SocketError(u)
    <3>1. /\ UNCHANGED <<send, stats>> /\ \A x \in Url \ {u} : stage'[x] = stage[x]
          /\ stage[u] \notin {"none", "done"} /\ stage'[u] \notin {"none", "done"}
      BY <2>1, JobFacts DEF Receive, EndPage, Readable, SocketError, Producer
    <3>2. SameJobs
      BY <3>1, StageSets DEF SameJobs, stats
    <3>3. QED
      BY <3>1, <3>2, SameJobsKept
  <2>2. QED
    BY <1>4, <1>8, <2>1, StopJobs, SameJobsKept DEF RecvThread, Producer
<1>9. QED
  BY <1>6, <1>7, <1>8, OpenJobs, CountJobs DEF Next, SendThread

-----------------------------------------------------------------------------

\* m_curJobs is the number of sockets without a stopJob, and each stopJob was
\* counted as a success or a failure, also when a receive thread is done before
\* its job is counted.
THEOREM JobsAreCounted == Spec => []JobsCounted
<1>1. Spec => []JobsInv
  BY JobsInit, JobsStep, PTL DEF Spec
<1>2. JobsInv => JobsCounted
  BY DEF JobsInv, Tally
<1>3. QED
  BY <1>1, <1>2, PTL

\* The jobs never pass MAX_JOBS, the one being opened included, and never go
\* below zero.
THEOREM JobsLimited == Spec => []JobLimit
<1>1. Spec => []JobsInv
  BY JobsInit, JobsStep, PTL DEF Spec
<1>2. ASSUME JobsInv PROVE JobLimit
  <2>1. 0 <= curJobs
    <3>1. CASE send.at = "count"
      <4>1. Unstopped # {} /\ IsFiniteSet(Unstopped)
        BY <1>2, <3>1 DEF JobsInv, Tally
      <4>2. Cardinality(Unstopped) # 0
        BY <4>1, FS_EmptySet
      <4>3. QED
        BY <1>2, <4>2, JobFacts
    <3>2. CASE send.at # "count"
      BY <1>2, <3>2, JobFacts
    <3>3. QED
      BY <3>1, <3>2
  <2>2. QED
    BY <1>2, <2>1 DEF JobsInv, Tally, Room, JobLimit
<1>3. QED
  BY <1>1, <1>2, PTL

=============================================================================
