-------------------------- MODULE WebCrawler_proofs --------------------------
(***************************************************************************)
(* Theorems about WebCrawler, for every web, every bound and every number  *)
(* of threads.                                                             *)
(***************************************************************************)
EXTENDS WebCrawler, FiniteSetTheorems, SequenceTheorems, TLAPS

-----------------------------------------------------------------------------
(* Type correctness *)

\* Whoever is at work on a URL has one.
HandsFull ==
  /\ dns.at \in {"resolve", "push"} => dns.url \in RawUrl
  /\ send.at \in {"connect", "count"} => send.url \in RawUrl
  /\ \A p \in Producer : stage[p] = "wait" => todo[p] # <<>>

TypeInv == TypeOK /\ HandsFull

\* The queue operations keep the types of the queues.
LEMMA PutType ==
  ASSUME NEW T, QueuesTypeOK(T), NEW q \in Queue, NEW t \in T, NEW r \in RawUrl,
         Put(q, t, r), bloom' \subseteq Bit
  PROVE  QueuesTypeOK(T)'
<1>1. CASE Enqueue(q, r)
  <2>1. queue' \in [Queue -> Seq(RawUrl)]
    BY <1>1 DEF Enqueue, QueuesTypeOK
  <2>2. noEmpty' \in [Queue -> SUBSET T]
    BY ZenonT(30), <1>1 DEF Enqueue, QueuesTypeOK, Signalled
  <2>3. QED
    BY <1>1, <2>1, <2>2 DEF Enqueue, QueuesTypeOK
<1>2. CASE SleepUntilNotFull(q, t)
  BY <1>2 DEF SleepUntilNotFull, QueuesTypeOK
<1>3. QED
  BY <1>1, <1>2 DEF Put

LEMMA DequeueType ==
  ASSUME NEW T, QueuesTypeOK(T), NEW q \in Queue, Dequeue(q), UNCHANGED bloom
  PROVE  QueuesTypeOK(T)' /\ Head(queue[q]) \in RawUrl
<1>1. queue[q] \in Seq(RawUrl) /\ queue[q] # <<>>
  BY DEF Dequeue, Empty, QueuesTypeOK
<1>2. queue' \in [Queue -> Seq(RawUrl)]
  BY <1>1 DEF Dequeue, QueuesTypeOK
<1>3. noFull' \in [Queue -> SUBSET T]
  BY ZenonT(30) DEF Dequeue, QueuesTypeOK, Signalled
<1>4. QED
  BY <1>1, <1>2, <1>3 DEF Dequeue, QueuesTypeOK

LEMMA SleepType ==
  ASSUME NEW T, QueuesTypeOK(T), NEW q \in Queue, NEW t \in T,
         SleepUntilNotEmpty(q, t), UNCHANGED bloom
  PROVE  QueuesTypeOK(T)'
BY DEF SleepUntilNotEmpty, QueuesTypeOK

\* What a page leads to is a sequence of URLs to push.
LEMMA FoundType ==
  ASSUME TypeOK, NEW u \in Url
  PROVE  Found(u) \in Seq(RawUrl)
<1> USE CrawlerAssumption DEF TypeOK, RawUrl
<1>1. LinkedPages(u) \in Seq(RawUrl)
  <2>1. Links[u] \in Seq(Url) /\ Len(Links[u]) \in Nat
    OBVIOUS
  <2>2. \A i \in 1..Len(Links[u]) :
          [url |-> Links[u][i], type |-> "html", depth |-> depth[u] + 1] \in RawUrl
    BY <2>1
  <2>3. QED
    BY <2>1, <2>2 DEF LinkedPages
<1>2. LinkedImages(u) \in Seq(RawUrl)
  <2>1. Images[u] \in Seq(Url) /\ Len(Images[u]) \in Nat
    OBVIOUS
  <2>2. \A i \in 1..Len(Images[u]) :
          [url |-> Images[u][i], type |-> "image", depth |-> depth[u]] \in RawUrl
    BY <2>1
  <2>3. QED
    BY <2>1, <2>2 DEF LinkedImages
<1>3. QED
  BY <1>1, <1>2, ConcatProperties DEF Found

LEMMA TypeInit == Init => TypeInv
<1> SUFFICES ASSUME Init PROVE TypeInv
  OBVIOUS
<1> USE CrawlerAssumption DEF Init
<1>1. QueuesTypeOK(Thread)
  BY DEF QueuesInit, QueuesTypeOK, Queue
<1>2. [i \in 1..Len(Seeds) |-> [url |-> Seeds[i], type |-> "html", depth |-> 0]]
        \in Seq(RawUrl)
  <2>1. \A i \in 1..Len(Seeds) :
          [url |-> Seeds[i], type |-> "html", depth |-> 0] \in RawUrl
    BY DEF RawUrl
  <2>2. QED
    BY <2>1
<1>3. todo \in [Producer -> Seq(RawUrl)]
  BY <1>2
<1>4. stage \in [Producer -> Stage] /\ HandsFull
  BY DEF Stage, HandsFull
<1>5. main \in Place({"seed", "epoll", "end", "jam", "clear", "exit"})
  BY DEF Place, At
<1>6. /\ dns \in Hand({"off", "pop", "resolve", "push"})
      /\ send \in Hand({"off", "lock", "asleep", "pop", "connect", "count"})
  BY DEF Hand, NoUrl
<1>7. QED
  BY <1>1, <1>3, <1>4, <1>5, <1>6 DEF TypeInv, TypeOK

\* A producer goes on, or sleeps with its URL at the head of its list.
LEMMA PushType ==
  ASSUME TypeInv, NEW p \in Producer, Push(p)
  PROVE  TypeInv'
<1> DEFINE r == Head(todo[p])
<1>1. todo[p] # <<>> /\ r \in RawUrl /\ todo[p] \in Seq(RawUrl)
  BY DEF Push, PushUrl, ResumePush, TypeInv, TypeOK, HandsFull
<1>2. p \in Thread
  BY DEF Thread
<1>3. QueuesTypeOK(Thread)'
  <2>0. r.url \in Url /\ QueuesTypeOK(Thread) /\ Hash[r.url] \subseteq Bit
    BY <1>1, QueueAssumption DEF RawUrl, TypeInv, TypeOK
  <2>1. CASE UNCHANGED monitors /\ bloom' = bloom \cup Hash[r.url]
    BY <2>0, <2>1 DEF monitors, QueuesTypeOK
  <2>2. CASE Put("raw", p, r) /\ bloom' \subseteq Bit
    BY <2>0, <2>2, <1>1, <1>2, PutType DEF Queue
  <2>3. CASE PushUrl(p)
    BY <2>0, <2>1, <2>2, <2>3 DEF PushUrl, pushRawUrl, QueuesTypeOK
  <2>4. CASE ResumePush(p)
    BY <2>0, <2>2, <2>4 DEF ResumePush, resumePushRawUrl, QueuesTypeOK
  <2>5. QED
    BY <2>3, <2>4 DEF Push
<1>4. AfterPush(p)
  BY DEF Push, PushUrl, ResumePush
<1>5. stage' \in [Producer -> Stage] /\ todo' \in [Producer -> Seq(RawUrl)]
  <2>1. {"wait", "push"} \subseteq Stage
    BY DEF Stage
  <2>2. Tail(todo[p]) \in Seq(RawUrl)
    BY <1>1
  <2>3. stage' \in [Producer -> Stage]
    BY <1>4, <2>1 DEF AfterPush, TypeInv, TypeOK
  <2>4. todo' \in [Producer -> Seq(RawUrl)]
    BY <1>4, <2>2 DEF AfterPush, TypeInv, TypeOK
  <2>5. QED
    BY <2>3, <2>4
<1>6. \A x \in Producer : stage'[x] = "wait" => todo'[x] # <<>>
  BY <1>1, <1>4 DEF AfterPush, TypeInv, TypeOK, HandsFull
<1>7. QED
  BY <1>3, <1>4, <1>5, <1>6 DEF AfterPush, stats, TypeInv, TypeOK, HandsFull

\* No other step breaks the types.
LEMMA StartType == TypeInv /\ StartThreads => TypeInv'
<1> SUFFICES ASSUME TypeInv, StartThreads PROVE TypeInv'
  OBVIOUS
<1>1. QueuesTypeOK(Thread)'
  BY DEF StartThreads, queues, TypeInv, TypeOK, QueuesTypeOK
<1>2. main' \in Place({"seed", "epoll", "end", "jam", "clear", "exit"})
  BY DEF StartThreads, At, Place
<1>3. /\ dns' \in Hand({"off", "pop", "resolve", "push"})
      /\ send' \in Hand({"off", "lock", "asleep", "pop", "connect", "count"})
  BY DEF StartThreads, Hand, TypeInv, TypeOK
<1>4. stage' \in [Producer -> Stage]
  BY DEF StartThreads, Stage, TypeInv, TypeOK
<1>5. HandsFull'
  BY <1>3 DEF StartThreads, HandsFull, Hand, TypeInv, TypeOK
<1>6. QED
  BY <1>1, <1>2, <1>3, <1>4, <1>5 DEF StartThreads, stats, TypeInv, TypeOK

LEMMA DnsType == TypeInv /\ DnsThread => TypeInv'
<1> SUFFICES ASSUME TypeInv, DnsThread PROVE TypeInv'
  OBVIOUS
<1> USE DEF jobs, stats
<1>1. CASE DnsPop
  <2>1. QueuesTypeOK(Thread)' /\ (Dequeue("raw") => Head(queue["raw"]) \in RawUrl)
    BY <1>1, DequeueType, SleepType
       DEF DnsPop, popRawUrl, TypeInv, TypeOK, Queue, Thread
  <2>2. /\ dns' \in Hand({"off", "pop", "resolve", "push"})
        /\ dns'.at \in {"resolve", "push"} => dns'.url \in RawUrl
    BY <1>1, <2>1
       DEF DnsPop, popRawUrl, SleepUntilNotEmpty, TypeInv, TypeOK, Hand, HandsFull,
           QueuesTypeOK, Queue
  <2>3. QED
    BY <1>1, <2>1, <2>2 DEF DnsPop, TypeInv, TypeOK, HandsFull
<1>2. CASE Resolve
  <2>1. dns.url.url \in Url /\ Host[dns.url.url] \in Domain
    BY <1>2 DEF Resolve, TypeInv, TypeOK, HandsFull, RawUrl, Domain
  <2>2. QueuesTypeOK(Thread)'
    BY <1>2 DEF Resolve, queues, TypeInv, TypeOK, QueuesTypeOK
  <2>3. QED
    BY <1>2, <2>1, <2>2 DEF Resolve, TypeInv, TypeOK, HandsFull, Hand, NoUrl
<1>3. CASE DnsPush
  <2>1. QueuesTypeOK(Thread)'
    BY <1>3, PutType
       DEF DnsPush, pushDnsUrl, TypeInv, TypeOK, HandsFull, Queue, Thread, QueuesTypeOK
  <2>2. QED
    BY <1>3, <2>1 DEF DnsPush, TypeInv, TypeOK, HandsFull, Hand, NoUrl
<1>4. QED
  BY <1>1, <1>2, <1>3 DEF DnsThread

LEMMA SendType == TypeInv /\ (SendThread \/ SpuriousJobWakeup) => TypeInv'
<1> SUFFICES ASSUME TypeInv, SendThread \/ SpuriousJobWakeup PROVE TypeInv'
  OBVIOUS
<1> USE DEF jobs, stats
<1>1. CASE startJob \/ SpuriousJobWakeup \/ CountJob
  <2>1. QueuesTypeOK(Thread)'
    BY <1>1 DEF startJob, SpuriousJobWakeup, CountJob, queues, TypeInv, TypeOK,
       QueuesTypeOK
  <2>2. QED
    BY <1>1, <2>1 DEF startJob, SpuriousJobWakeup, CountJob, TypeInv, TypeOK,
       HandsFull, Hand, NoUrl
<1>2. CASE SendPop
  <2>1. QueuesTypeOK(Thread)' /\ (Dequeue("dns") => Head(queue["dns"]) \in RawUrl)
    BY <1>2, DequeueType, SleepType
       DEF SendPop, popDnsUrl, TypeInv, TypeOK, Queue, Thread
  <2>2. /\ send' \in Hand({"off", "lock", "asleep", "pop", "connect", "count"})
        /\ send'.at \in {"connect", "count"} => send'.url \in RawUrl
    BY <1>2, <2>1
       DEF SendPop, popDnsUrl, SleepUntilNotEmpty, TypeInv, TypeOK, Hand, HandsFull,
           QueuesTypeOK, Queue
  <2>3. QED
    BY <1>2, <2>1, <2>2 DEF SendPop, TypeInv, TypeOK, HandsFull
<1>3. CASE SendRequest
  <2>1. send.url.url \in Url /\ send.url.depth \in Nat
    BY <1>3 DEF SendRequest, TypeInv, TypeOK, HandsFull, RawUrl
  <2>2. QueuesTypeOK(Thread)'
    BY <1>3 DEF SendRequest, queues, TypeInv, TypeOK, QueuesTypeOK
  <2>3. /\ stage' \in [Producer -> Stage]
        /\ \A p \in Producer : stage'[p] = "wait" => todo'[p] # <<>>
    BY <1>3, <2>1 DEF SendRequest, TypeInv, TypeOK, HandsFull, Stage, Producer
  <2>4. send' \in Hand({"off", "lock", "asleep", "pop", "connect", "count"})
    BY <1>3 DEF SendRequest, TypeInv, TypeOK, Hand, NoUrl
  <2>5. depth' \in [Url -> Nat] /\ (send'.at \in {"connect", "count"} => send'.url \in RawUrl)
    BY <1>3, <2>1 DEF SendRequest, TypeInv, TypeOK, HandsFull, Hand
  <2>6. QED
    BY <1>3, <2>2, <2>3, <2>4, <2>5 DEF SendRequest, TypeInv, TypeOK, HandsFull
<1>4. QED
  BY <1>1, <1>2, <1>3 DEF SendThread

LEMMA SocketType ==
  ASSUME TypeInv, NEW u \in Url,
         \/ Receive(u) \/ EndPage(u) \/ stopJob(u) \/ Readable(u) \/ SocketError(u)
  PROVE  TypeInv'
<1> USE DEF jobs, stats
<1>1. QueuesTypeOK(Thread)'
  BY DEF Receive, EndPage, stopJob, Readable, SocketError, queues, TypeInv, TypeOK,
     QueuesTypeOK
<1>2. u \in Producer /\ {"recv", "push", "succeeded", "failed", "done", "lost"} \subseteq Stage
  BY DEF Producer, Stage
<1>3. Found(u) \in Seq(RawUrl)
  BY FoundType DEF TypeInv
<1>4. CASE Receive(u)
  <2>1. todo' \in [Producer -> Seq(RawUrl)] /\ stage' \in [Producer -> Stage]
    BY <1>2, <1>3, <1>4 DEF Receive, TypeInv, TypeOK
  <2>2. QED
    BY <1>1, <1>2, <1>4, <2>1 DEF Receive, TypeInv, TypeOK, HandsFull
<1>5. CASE stopJob(u)
  <2>1. stage' \in [Producer -> Stage] /\ HandsFull'
    BY <1>2, <1>5 DEF stopJob, TypeInv, TypeOK, HandsFull, Hand
  <2>2. send' \in Hand({"off", "lock", "asleep", "pop", "connect", "count"})
    BY <1>5 DEF stopJob, TypeInv, TypeOK, Hand
  <2>3. QED
    BY <1>1, <1>5, <2>1, <2>2 DEF stopJob, TypeInv, TypeOK
<1>6. CASE EndPage(u) \/ Readable(u) \/ SocketError(u)
  <2>1. stage' \in [Producer -> Stage] /\ HandsFull'
    BY <1>2, <1>6 DEF EndPage, Readable, SocketError, TypeInv, TypeOK, HandsFull
  <2>2. QED
    BY <1>1, <1>6, <2>1 DEF EndPage, Readable, SocketError, TypeInv, TypeOK
<1>7. QED
  BY <1>4, <1>5, <1>6

LEMMA LoopType == TypeInv /\ (NoEvents \/ Check \/ ClearJam \/ Wakeup) => TypeInv'
<1> SUFFICES ASSUME TypeInv, NoEvents \/ Check \/ ClearJam \/ Wakeup PROVE TypeInv'
  OBVIOUS
<1> USE DEF jobs, stats
<1>1. QueuesTypeOK(Thread)'
  <2>1. CASE NoEvents \/ Check
    BY <2>1 DEF NoEvents, Check, queues, TypeInv, TypeOK, QueuesTypeOK
  <2>2. CASE ClearJam
    BY <2>2 DEF ClearJam, clearRawUrl, Signalled, TypeInv, TypeOK, QueuesTypeOK, Queue
  <2>3. CASE Wakeup
    BY <2>3 DEF Wakeup, SpuriousWakeup, TypeInv, TypeOK, QueuesTypeOK
  <2>4. QED
    BY <2>1, <2>2, <2>3
<1>2. main' \in Place({"seed", "epoll", "end", "jam", "clear", "exit"})
  <2>1. CASE Check
    <3>1. main \in Place({"end", "jam"}) /\ main.conjunct \in 1..3
      BY <2>1 DEF Check, Place, TypeInv, TypeOK
    <3>2. \/ main' = [main EXCEPT !.conjunct = @ + 1] /\ main.conjunct < 3
          \/ main' = [main EXCEPT !.round = 2, !.conjunct = 1]
          \/ \E a \in {"exit", "clear", "jam", "epoll"} : main' = At(a)
      BY <2>1, Zenon DEF Check
    <3>3. CASE main' = [main EXCEPT !.conjunct = @ + 1] /\ main.conjunct < 3
      <4>1. main.conjunct + 1 \in 1..3
        BY <3>1, <3>3
      <4>2. main' = [at |-> main.at, round |-> main.round, conjunct |-> main.conjunct + 1]
        BY <3>1, <3>3 DEF Place
      <4>3. /\ main.at \in {"seed", "epoll", "end", "jam", "clear", "exit"}
            /\ main.round \in {1, 2}
        BY <3>1 DEF Place
      <4>4. QED
        BY <4>1, <4>2, <4>3 DEF Place
    <3>4. CASE main' = [main EXCEPT !.round = 2, !.conjunct = 1]
      <4>1. main' = [at |-> main.at, round |-> 2, conjunct |-> 1]
        BY <3>1, <3>4 DEF Place
      <4>2. main.at \in {"seed", "epoll", "end", "jam", "clear", "exit"}
        BY <3>1 DEF Place
      <4>3. QED
        BY <4>1, <4>2 DEF Place
    <3>5. CASE \E a \in {"exit", "clear", "jam", "epoll"} : main' = At(a)
      BY <3>5 DEF At, Place
    <3>6. QED
      BY <3>2, <3>3, <3>4, <3>5
  <2>2. CASE NoEvents \/ ClearJam \/ Wakeup
    BY <2>2 DEF NoEvents, ClearJam, Wakeup, At, Place, TypeInv, TypeOK
  <2>3. QED
    BY <2>1, <2>2
<1>3. QED
  BY <1>1, <1>2 DEF NoEvents, Check, ClearJam, Wakeup, TypeInv, TypeOK, HandsFull

LEMMA TypeStep == TypeInv /\ [Next]_vars => TypeInv'
<1> SUFFICES ASSUME TypeInv, [Next]_vars PROVE TypeInv'
  OBVIOUS
<1>1. CASE UNCHANGED vars
  BY <1>1 DEF vars, TypeInv, TypeOK, HandsFull, QueuesTypeOK
<1>2. CASE MainThread
  BY <1>2, PushType, StartType, LoopType DEF MainThread, Producer
<1>3. ASSUME NEW u \in Url, RecvThread(u) \/ Readable(u) \/ SocketError(u)
      PROVE  TypeInv'
  BY <1>3, PushType, SocketType DEF RecvThread, Producer
<1>4. QED
  BY <1>1, <1>2, <1>3, DnsType, SendType, LoopType DEF Next, Exited

\* Every variable keeps its type, and a thread that is at work on a URL has one.
THEOREM TypeCorrect == Spec => []TypeOK
<1>1. Spec => []TypeInv
  BY TypeInit, TypeStep, PTL DEF Spec
<1>2. TypeInv => TypeOK
  BY DEF TypeInv
<1>3. QED
  BY <1>1, <1>2, PTL

-----------------------------------------------------------------------------
(***************************************************************************)
(* No lost wakeup where a condition variable of the crawler has a single   *)
(* waiter, for every web and every bound.                                  *)
(*                                                                         *)
(* The strengthening: each such condition has no other waiter, a queue is  *)
(* never longer than its capacity (so that it falls from full through      *)
(* exactly one size), and a queue with a waiter for "not empty" is empty.  *)
(***************************************************************************)

Bounded(q) == 0 <= Capacity[q] => Len(queue[q]) <= Capacity[q]

SingleWaiters == /\ noEmpty["raw"] \subseteq {"dns"}
                 /\ noEmpty["dns"] \subseteq {"send"}
                 /\ noFull["dns"] \subseteq {"dns"}

QueuesAwake == /\ SingleWaiters
               /\ \A q \in Queue : Bounded(q)
               /\ \A q \in Queue : noEmpty[q] # {} => Empty(q)
               /\ noFull["dns"] # {} => Full("dns")

WakeupInv == /\ TypeInv
             /\ QueuesAwake
             /\ send.at = "asleep" => curJobs = MaxJobs

-----------------------------------------------------------------------------
(* What a signal and the queue operations do to the sleepers. *)

\* A signal wakes a single sleeper.
LEMMA SignalWakes ==
  ASSUME NEW t, NEW S, S \subseteq {t}, NEW rest \in Signalled(S)
  PROVE  rest = {}
BY DEF Signalled

LEMMA CapacityType == Capacity \in [Queue -> Int]
BY QueueAssumption DEF Capacity, Queue

LEMMA PutAwake ==
  ASSUME QueuesTypeOK(Thread), QueuesAwake, NEW q \in Queue, NEW t,
         NEW r \in RawUrl, Put(q, t, r), q = "dns" => t = "dns"
  PROVE  QueuesAwake'
<1> USE CapacityType DEF Queue
<1>1. CASE Enqueue(q, r)
  <2>1. queue[q] \in Seq(RawUrl) /\ queue'[q] = Append(queue[q], r) /\ ~Full(q)
    BY <1>1 DEF Enqueue, QueuesTypeOK
  <2>2. \A x \in Queue \ {q} : queue'[x] = queue[x] /\ noEmpty'[x] = noEmpty[x]
    BY <1>1 DEF Enqueue, QueuesTypeOK
  <2>3. noFull' = noFull
    BY <1>1 DEF Enqueue
  <2>4. noEmpty'[q] = {}
    <3>1. CASE Empty(q)
      <4>1. PICK rest \in Signalled(noEmpty[q]) :
              noEmpty' = [noEmpty EXCEPT ![q] = rest]
        BY <1>1, <3>1 DEF Enqueue
      <4>2. noEmpty'[q] = rest
        BY <4>1 DEF QueuesTypeOK
      <4>3. rest = {}
        BY <4>1, SignalWakes DEF QueuesAwake, SingleWaiters
      <4>4. QED
        BY <4>2, <4>3
    <3>2. CASE ~Empty(q)
      BY <1>1, <3>2 DEF Enqueue, QueuesAwake
    <3>3. QED
      BY <3>1, <3>2
  <2>5. Bounded(q)'
    BY <2>1 DEF Bounded, Full
  <2>6. \A x \in Queue \ {q} : Bounded(x)'
    BY <2>2 DEF Bounded, QueuesAwake
  <2>7. \A x \in Queue : noEmpty'[x] # {} => Empty(x)'
    BY <2>2, <2>4 DEF Empty, QueuesAwake
  <2>8. noFull'["dns"] # {} => Full("dns")'
    BY <2>1, <2>2, <2>3 DEF Full, QueuesAwake
  <2>9. SingleWaiters'
    BY <2>2, <2>3, <2>4 DEF SingleWaiters, QueuesAwake
  <2>10. QED
    BY <2>5, <2>6, <2>7, <2>8, <2>9 DEF QueuesAwake
<1>2. CASE SleepUntilNotFull(q, t)
  <2>1. queue' = queue /\ noEmpty' = noEmpty
    BY <1>2 DEF SleepUntilNotFull
  <2>2. q # "dns" => noFull'["dns"] = noFull["dns"]
    BY <1>2 DEF SleepUntilNotFull, QueuesTypeOK
  <2>3. q = "dns" => noFull'["dns"] = noFull["dns"] \cup {"dns"} /\ Full("dns")
    BY <1>2 DEF SleepUntilNotFull, QueuesTypeOK
  <2>4. QED
    BY <2>1, <2>2, <2>3 DEF QueuesAwake, SingleWaiters, Bounded, Empty, Full
<1>3. QED
  BY <1>1, <1>2 DEF Put

LEMMA DequeueAwake ==
  ASSUME QueuesTypeOK(Thread), QueuesAwake, NEW q \in Queue, Dequeue(q)
  PROVE  QueuesAwake'
<1> USE CapacityType DEF Queue
<1>1. queue[q] \in Seq(RawUrl) /\ queue[q] # <<>> /\ queue'[q] = Tail(queue[q])
  BY DEF Dequeue, Empty, QueuesTypeOK
<1>2. Len(queue'[q]) = Len(queue[q]) - 1 /\ Len(queue[q]) \in Nat
  BY <1>1
<1>3. \A x \in Queue \ {q} : queue'[x] = queue[x] /\ noFull'[x] = noFull[x]
  BY DEF Dequeue, QueuesTypeOK
<1>4. noEmpty' = noEmpty /\ noEmpty[q] = {}
  BY DEF Dequeue, QueuesAwake
<1>5. \A x \in Queue : Bounded(x)'
  BY <1>2, <1>3 DEF Bounded, QueuesAwake
<1>6. \A x \in Queue : noEmpty'[x] # {} => Empty(x)'
  BY <1>3, <1>4 DEF Empty, QueuesAwake
<1>7. q = "dns" => noFull'["dns"] = {}
  <2> HAVE q = "dns"
  <2>1. CASE Len(queue'["dns"]) = Capacity["dns"] - 1
    <3>1. PICK rest \in Signalled(noFull["dns"]) :
            noFull' = [noFull EXCEPT !["dns"] = rest]
      BY <2>1 DEF Dequeue
    <3>2. noFull'["dns"] = rest
      BY <3>1 DEF QueuesTypeOK
    <3>3. rest = {}
      BY <3>1, SignalWakes DEF QueuesAwake, SingleWaiters
    <3>4. QED
      BY <3>2, <3>3
  <2>2. CASE Len(queue'["dns"]) # Capacity["dns"] - 1
    <3>1. ~Full("dns")
      BY <1>2, <2>2 DEF Full, Bounded, QueuesAwake
    <3>2. QED
      BY <2>2, <3>1 DEF Dequeue, QueuesAwake
  <2>3. QED
    BY <2>1, <2>2
<1>8. q # "dns" => noFull'["dns"] = noFull["dns"] /\ queue'["dns"] = queue["dns"]
  BY <1>3
<1>9. SingleWaiters' /\ (noFull'["dns"] # {} => Full("dns")')
  BY <1>4, <1>7, <1>8 DEF SingleWaiters, Full, QueuesAwake
<1>10. QED
  BY <1>5, <1>6, <1>9 DEF QueuesAwake

LEMMA SleepAwake ==
  ASSUME QueuesTypeOK(Thread), QueuesAwake, NEW q \in Queue, NEW t,
         SleepUntilNotEmpty(q, t), q = "raw" => t = "dns", q = "dns" => t = "send"
  PROVE  QueuesAwake'
<1>1. queue' = queue /\ noFull' = noFull
  BY DEF SleepUntilNotEmpty
<1>2. noEmpty'[q] = noEmpty[q] \cup {t} /\ Empty(q)
  BY DEF SleepUntilNotEmpty, QueuesTypeOK
<1>3. \A x \in Queue \ {q} : noEmpty'[x] = noEmpty[x]
  BY DEF SleepUntilNotEmpty, QueuesTypeOK
<1>4. SingleWaiters'
  BY <1>1, <1>2, <1>3 DEF SingleWaiters, QueuesAwake, Queue
<1>5. \A x \in Queue : noEmpty'[x] # {} => Empty(x)'
  BY <1>1, <1>2, <1>3 DEF Empty, QueuesAwake
<1>6. QED
  BY <1>1, <1>4, <1>5 DEF QueuesAwake, Bounded, Full

LEMMA ClearAwake ==
  ASSUME QueuesTypeOK(Thread), QueuesAwake, clearRawUrl
  PROVE  QueuesAwake'
<1> USE CapacityType DEF Queue
<1>1. queue'["raw"] = <<>> /\ queue'["dns"] = queue["dns"] /\ noEmpty' = noEmpty
  BY DEF clearRawUrl, QueuesTypeOK
<1>2. noFull'["dns"] = noFull["dns"]
  BY DEF clearRawUrl, QueuesTypeOK
<1>3. Bounded("raw")'
  BY <1>1 DEF Bounded
<1>4. QED
  BY <1>1, <1>2, <1>3 DEF QueuesAwake, SingleWaiters, Bounded, Empty, Full

LEMMA SpuriousAwake ==
  ASSUME QueuesTypeOK(Thread), QueuesAwake, SpuriousWakeup
  PROVE  QueuesAwake'
<1>1. queue' = queue
  BY DEF SpuriousWakeup
<1>2. \A q \in Queue : noFull'[q] \subseteq noFull[q] /\ noEmpty'[q] \subseteq noEmpty[q]
  BY DEF SpuriousWakeup, QueuesTypeOK
<1>3. SingleWaiters'
  BY <1>2 DEF SingleWaiters, QueuesAwake, Queue
<1>4. QED
  BY <1>1, <1>2, <1>3 DEF QueuesAwake, Bounded, Empty, Full, Queue

LEMMA StillAwake == QueuesAwake /\ UNCHANGED queues => QueuesAwake'
BY DEF queues, QueuesAwake, SingleWaiters, Bounded, Empty, Full

-----------------------------------------------------------------------------
(* Every step of the crawler. *)

LEMMA WakeupInit == Init => WakeupInv
<1> SUFFICES ASSUME Init PROVE WakeupInv
  OBVIOUS
<1>1. QueuesAwake
  BY CapacityType
     DEF Init, QueuesInit, QueuesAwake, SingleWaiters, Bounded, Empty, Queue
<1>2. QED
  BY <1>1, TypeInit DEF Init, WakeupInv

LEMMA QueueSteps ==
  ASSUME TypeInv, QueuesAwake, [Next]_vars
  PROVE  QueuesAwake'
<1> USE DEF Queue
<1>0. QueuesTypeOK(Thread)
  BY DEF TypeInv, TypeOK
<1>1. ASSUME NEW p \in Producer, Push(p) PROVE QueuesAwake'
  <2>1. todo[p] \in Seq(RawUrl) /\ todo[p] # <<>>
    BY <1>1 DEF Push, PushUrl, ResumePush, TypeInv, TypeOK, HandsFull
  <2>2. Head(todo[p]) \in RawUrl
    BY <2>1
  <2>3. CASE UNCHANGED monitors
    BY <2>3 DEF monitors, QueuesAwake, SingleWaiters, Bounded, Empty, Full
  <2>4. CASE Put("raw", p, Head(todo[p]))
    BY <1>0, <2>2, <2>4, PutAwake
  <2>5. QED
    BY <1>1, <2>3, <2>4 DEF Push, PushUrl, ResumePush, pushRawUrl, resumePushRawUrl
<1>2. CASE DnsPop
  BY <1>0, <1>2, DequeueAwake, SleepAwake DEF DnsPop, popRawUrl
<1>3. CASE DnsPush
  BY <1>0, <1>3, PutAwake DEF DnsPush, pushDnsUrl, TypeInv, HandsFull
<1>4. CASE SendPop
  BY <1>0, <1>4, DequeueAwake, SleepAwake DEF SendPop, popDnsUrl
<1>5. CASE ClearJam
  BY <1>0, <1>5, ClearAwake DEF ClearJam
<1>6. CASE Wakeup
  BY <1>0, <1>6, SpuriousAwake DEF Wakeup
<1>7. CASE UNCHANGED queues
  BY <1>7, StillAwake
<1>8. CASE MainThread
  BY <1>1, <1>5, <1>7, <1>8 DEF MainThread, StartThreads, NoEvents, Check, Producer
<1>9. CASE DnsThread \/ SendThread
  BY <1>2, <1>3, <1>4, <1>7, <1>9
     DEF DnsThread, SendThread, Resolve, startJob, SendRequest, CountJob
<1>10. ASSUME NEW u \in Url, RecvThread(u) \/ Readable(u) \/ SocketError(u)
       PROVE  QueuesAwake'
  BY <1>1, <1>7, <1>10
     DEF RecvThread, Receive, EndPage, stopJob, Readable, SocketError, Producer
<1>11. CASE SpuriousJobWakeup \/ Exited \/ UNCHANGED vars
  BY <1>7, <1>11 DEF SpuriousJobWakeup, Exited, vars, queues
<1>12. QED
  BY <1>6, <1>8, <1>9, <1>10, <1>11 DEF Next

LEMMA WakeupStep == WakeupInv /\ [Next]_vars => WakeupInv'
<1> SUFFICES ASSUME WakeupInv, [Next]_vars PROVE WakeupInv'
  OBVIOUS
<1>1. TypeInv' /\ QueuesAwake'
  BY TypeStep, QueueSteps DEF WakeupInv
<1>2. send'.at = "asleep" => curJobs' = MaxJobs
  <2>1. CASE SendThread \/ SpuriousJobWakeup
    <3>1. send \in Hand({"off", "lock", "asleep", "pop", "connect", "count"})
      BY DEF WakeupInv, TypeInv, TypeOK
    <3>2. QED
      BY <2>1, <3>1
         DEF SendThread, SpuriousJobWakeup, startJob, SendPop, SendRequest, CountJob,
             Hand, jobs, stats
  <2>2. ASSUME NEW u \in Url, stopJob(u) PROVE send'.at = "asleep" => curJobs' = MaxJobs
    <3>1. /\ send \in Hand({"off", "lock", "asleep", "pop", "connect", "count"})
          /\ curJobs \in Int /\ MaxJobs \in Int
      BY CrawlerAssumption DEF WakeupInv, TypeInv, TypeOK
    <3>2. QED
      BY <2>2, <3>1 DEF stopJob, WakeupInv, Hand
  <2>3. CASE StartThreads
    BY <2>3 DEF StartThreads, WakeupInv, TypeInv, TypeOK, Hand
  <2>4. CASE UNCHANGED <<send, curJobs>>
    BY <2>4 DEF WakeupInv
  <2>5. CASE MainThread \/ DnsThread \/ Wakeup \/ Exited \/ UNCHANGED vars
    BY <2>3, <2>4, <2>5
       DEF MainThread, Push, PushUrl, ResumePush, AfterPush, NoEvents, Check, ClearJam,
           DnsThread, DnsPop, Resolve, DnsPush, Wakeup, Exited, vars, stats
  <2>6. ASSUME NEW u \in Url, RecvThread(u) \/ Readable(u) \/ SocketError(u)
        PROVE  send'.at = "asleep" => curJobs' = MaxJobs
    BY <2>2, <2>4, <2>6
       DEF RecvThread, Receive, Push, PushUrl, ResumePush, AfterPush, EndPage,
           Readable, SocketError, stats
  <2>7. QED
    BY <2>1, <2>5, <2>6 DEF Next
<1>3. QED
  BY <1>1, <1>2 DEF WakeupInv

\* The DNS thread and the send thread never sleep on a condition that holds:
\* the signals of the queues and of stopJob, each sent on one exact value, are
\* enough where a condition has one waiter.
THEOREM NoLostWakeup == Spec => []SleepersJustified
<1>1. Spec => []WakeupInv
  BY WakeupInit, WakeupStep, PTL DEF Spec
<1>2. WakeupInv => SleepersJustified
  BY DEF WakeupInv, QueuesAwake, SleepersJustified, Queue
<1>3. QED
  BY <1>1, <1>2, PTL

=============================================================================
