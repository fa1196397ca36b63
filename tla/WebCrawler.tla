----------------------------- MODULE WebCrawler -----------------------------
(***************************************************************************)
(* The crawler (webcrawler_eg/src): the main thread with its epoll loop,   *)
(* the DNS thread, the send thread and one receive thread per connected    *)
(* socket, around the two queues of UrlQueues.                             *)
(*                                                                         *)
(* A URL passes the filter once, so the socket and the receive thread that *)
(* fetch u are named by u itself.  The main thread pushes the seeds before *)
(* any other thread exists; "main" is then one more producer.              *)
(*                                                                         *)
(* m_mutex has no variable: only the send thread keeps it over several     *)
(* steps, from leaving its wait in startJob to the end of startJob.        *)
(***************************************************************************)
EXTENDS UrlQueues, FiniteSets, Functions

CONSTANTS MaxJobs,      \* MAX_JOBS, a negative value means no limit
          Seeds,        \* SEEDS, in order
          Links,        \* Links[u]: the pages page u links to, in order
          Images,       \* Images[u]: the images page u shows, in order
          Host,         \* Host[u]: the domain in u
          SocketErrors  \* whether epoll may report an error on a socket

ASSUME CrawlerAssumption == /\ MaxJobs \in Int
                            /\ Seeds \in Seq(Url)
                            /\ Links \in [Url -> Seq(Url)]
                            /\ Images \in [Url -> Seq(Url)]
                            /\ SocketErrors \in BOOLEAN
                            /\ Url \cap {"main", "dns", "send", "raw", "resolver",
                                          "sender", "socket"} = {}

Producer == Url \cup {"main"}
Thread == Producer \cup {"dns", "send"}
Domain == {Host[u] : u \in Url}
NoUrl == <<>>

VARIABLES
  main,      \* where the main thread is: .at, and in exec's checks the
             \* .round (before or after sleep(1)) and the .conjunct to read next
  dns,       \* where the DNS thread is and the URL it has in hand
  hosts,     \* the domains in DnsThread::s_hosts
  send,      \* where the send thread is and the URL it has in hand
  stage,     \* stage[p]: how far the socket, then the receive thread of p is
  todo,      \* todo[p]: the URLs p has still to push
  depth,     \* depth[u]: the depth of the page u was fetched for
  curJobs,   \* m_curJobs
  success,   \* m_success
  failure    \* m_failure

jobs == <<stage, todo, depth>>
stats == <<curJobs, success, failure>>
vars == <<queue, bloom, noFull, noEmpty, main, dns, hosts, send,
          stage, todo, depth, curJobs, success, failure>>

\* What recvResponse pushes for the page u: extractUrl first, one level
\* deeper, then the image plugin at the page's own level.
LinkedImagesAbove(u) ==
  [i \in 1..Len(Images[u]) |->
     [url |-> Images[u][i], type |-> "image", depth |-> depth[u] - 1]]
LinkedImages(u) ==
  [i \in 1..Len(Images[u]) |->
     [url |-> Images[u][i], type |-> "image", depth |-> depth[u]]]
LinkedPages(u) ==
  [i \in 1..Len(Links[u]) |->
     [url |-> Links[u][i], type |-> "html", depth |-> depth[u] + 1]]
Found(u) == LinkedPages(u) \o LinkedImages(u)

At(place) == [at |-> place, round |-> 1, conjunct |-> 1]

\* The return of exec ends the process and all its threads.
Running == main.at # "exit"


Init ==
  /\ QueuesInit
  /\ main = At("seed")
  /\ dns = [at |-> "off", url |-> NoUrl]
  /\ hosts = {}
  /\ send = [at |-> "off", url |-> NoUrl]
  /\ stage = [p \in Producer |-> IF p = "main" THEN "push" ELSE "none"]
  /\ todo = [p \in Producer |->
               IF p = "main"
               THEN [i \in 1..Len(Seeds) |->
                       [url |-> Seeds[i], type |-> "html", depth |-> 0]]
               ELSE <<>>]
  /\ depth = [u \in Url |-> 0]
  /\ curJobs = 0
  /\ success = 0
  /\ failure = 0

-----------------------------------------------------------------------------
(* Pushing: the main thread its seeds, a receive thread what it found. *)

\* The push returned, or it fell asleep and the URL stays at the head of todo.
AfterPush(p) ==
  /\ IF p \in noFull'["raw"]
     THEN stage' = [stage EXCEPT ![p] = "wait"] /\ UNCHANGED todo
     ELSE /\ stage' = [stage EXCEPT ![p] = "push"]
          /\ todo' = [todo EXCEPT ![p] = Tail(@)]
  /\ UNCHANGED <<main, dns, hosts, send, depth, stats>>

PushUrl(p) ==
  /\ Running
  /\ stage[p] = "push"
  /\ todo[p] # <<>>
  /\ pushRawUrl(p, Head(todo[p]))
  /\ AfterPush(p)

ResumePush(p) ==
  /\ Running
  /\ stage[p] = "wait"
  /\ resumePushRawUrl(p, Head(todo[p]))
  /\ AfterPush(p)

\* The end of initSeeds, then initDns, initTicker and initSend.
StartThreads ==
  /\ main.at = "seed"
  /\ stage["main"] = "push"
  /\ todo["main"] = <<>>
  /\ stage' = [stage EXCEPT !["main"] = "done"]
  /\ main' = At("epoll")
  /\ dns' = [dns EXCEPT !.at = "pop"]
  /\ send' = [send EXCEPT !.at = "lock"]
  /\ UNCHANGED <<queues, hosts, todo, depth, stats>>

-----------------------------------------------------------------------------
(* DnsThread::run *)

Uncached(r) == Host[r.url] \notin hosts

DnsPop ==
  /\ Running
  /\ dns.at = "pop"
  /\ popRawUrl("dns")
  /\ IF "dns" \in noEmpty'["raw"]
     THEN UNCHANGED dns
     ELSE LET r == Head(queue["raw"])
          IN dns' = [at |-> IF Uncached(r) THEN "resolve" ELSE "push", url |-> r]
  /\ UNCHANGED <<main, hosts, send, jobs, stats>>

\* gethostbyname answers with an address, or the URL is dropped.
Resolve ==
  /\ Running
  /\ dns.at = "resolve"
  /\ \/ /\ hosts' = hosts \cup {Host[dns.url.url]}
        /\ dns' = [dns EXCEPT !.at = "push"]
     \/ /\ dns' = [at |-> "pop", url |-> NoUrl]
        /\ UNCHANGED hosts
  /\ UNCHANGED <<queues, main, send, jobs, stats>>

DnsPush ==
  /\ Running
  /\ dns.at = "push"
  /\ pushDnsUrl("dns", dns.url)
  /\ IF "dns" \in noFull'["dns"]
     THEN UNCHANGED dns
     ELSE dns' = [at |-> "pop", url |-> NoUrl]
  /\ UNCHANGED <<main, hosts, send, jobs, stats>>

-----------------------------------------------------------------------------
(* SendThread::run: WebCrawler::startJob for ever *)

MutexReleasedBeforeCount == send.at \in {"pop", "connect"}
MutexHeld == send.at \in {"pop", "connect", "count"}

\* Take m_mutex and test the job limit, on entry and after each wait on m_cond.
startJob ==
  /\ Running
  /\ send.at = "lock"
  /\ send' = [send EXCEPT !.at = IF curJobs = MaxJobs THEN "asleep" ELSE "pop"]
  /\ UNCHANGED <<queues, main, dns, hosts, jobs, stats>>

SpuriousJobWakeup ==
  /\ Running
  /\ send.at = "asleep"
  /\ send' = [send EXCEPT !.at = "lock"]
  /\ UNCHANGED <<queues, main, dns, hosts, jobs, stats>>

\* popDnsUrl, with m_mutex held also while it waits.
SendPop ==
  /\ Running
  /\ send.at = "pop"
  /\ popDnsUrl("send")
  /\ IF "send" \in noEmpty'["dns"]
     THEN UNCHANGED send
     ELSE send' = [at |-> "connect", url |-> Head(queue["dns"])]
  /\ UNCHANGED <<main, dns, hosts, jobs, stats>>

\* sendRequest: the socket is connected, the request sent and the socket
\* registered with epoll, or the socket is destroyed.
SendRequest ==
  /\ Running
  /\ send.at = "connect"
  /\ LET u == send.url.url
     IN \/ /\ stage' = [stage EXCEPT ![u] = "open"]
           /\ depth' = [depth EXCEPT ![u] = send.url.depth]
           /\ send' = [send EXCEPT !.at = "count"]
        \/ /\ send' = [at |-> "lock", url |-> NoUrl]
           /\ UNCHANGED <<stage, depth>>
  /\ UNCHANGED <<queues, main, dns, hosts, todo, stats>>

JobNotCounted ==
  /\ send.at = "count"
  /\ send' = [at |-> "lock", url |-> NoUrl]
  /\ UNCHANGED <<queues, main, dns, hosts, jobs, stats>>

\* ++m_curJobs and the release of m_mutex: the socket is live already.
CountJob ==
  /\ Running
  /\ send.at = "count"
  /\ curJobs' = curJobs + 1
  /\ send' = [at |-> "lock", url |-> NoUrl]
  /\ UNCHANGED <<queues, main, dns, hosts, jobs, success, failure>>

-----------------------------------------------------------------------------
(* RecvThread::run *)

\* recvResponse: an HTML page to look for links in, another accepted type,
\* or a failure (recv, or a header a plugin refuses).
Receive(u) ==
  /\ Running
  /\ stage[u] = "recv"
  /\ \/ /\ stage' = [stage EXCEPT ![u] = "push"]
        /\ todo' = [todo EXCEPT ![u] = Found(u)]
     \/ /\ stage' = [stage EXCEPT ![u] = "succeeded"]
        /\ UNCHANGED todo
     \/ /\ stage' = [stage EXCEPT ![u] = "failed"]
        /\ UNCHANGED todo
  /\ UNCHANGED <<queues, main, dns, hosts, send, depth, stats>>

EndPage(u) ==
  /\ Running
  /\ stage[u] = "push"
  /\ todo[u] = <<>>
  /\ stage' = [stage EXCEPT ![u] = "succeeded"]
  /\ UNCHANGED <<queues, main, dns, hosts, send, todo, depth, stats>>

\* stopJob is one critical section of m_mutex.
stopJob(u) ==
  /\ Running
  /\ stage[u] \in {"succeeded", "failed"}
  /\ ~MutexHeld
  /\ stage' = [stage EXCEPT ![u] = "done"]
  /\ curJobs' = curJobs - 1
  /\ IF curJobs' = MaxJobs - 1 /\ send.at = "asleep"
     THEN send' = [send EXCEPT !.at = "lock"]
     ELSE UNCHANGED send
  /\ IF stage[u] = "succeeded"
     THEN success' = success + 1 /\ UNCHANGED failure
     ELSE failure' = failure + 1 /\ UNCHANGED success
  /\ UNCHANGED <<queues, main, dns, hosts, todo, depth>>

-----------------------------------------------------------------------------
(* WebCrawler::exec, the main thread *)

ReadableAgain(u) ==
  /\ main.at = "epoll"
  /\ stage[u] \in {"open", "done"}
  /\ stage' = [stage EXCEPT ![u] = "recv"]
  /\ UNCHANGED <<queues, main, dns, hosts, send, todo, depth, stats>>

\* EPOLLIN on the socket of u: unregister it and start its receive thread.
Readable(u) ==
  /\ main.at = "epoll"
  /\ stage[u] = "open"
  /\ stage' = [stage EXCEPT ![u] = "recv"]
  /\ UNCHANGED <<queues, main, dns, hosts, send, todo, depth, stats>>

\* EPOLLERR, EPOLLHUP or no EPOLLIN: the socket is destroyed, m_curJobs stays.
SocketError(u) ==
  /\ SocketErrors
  /\ main.at = "epoll"
  /\ stage[u] = "open"
  /\ stage' = [stage EXCEPT ![u] = "lost"]
  /\ UNCHANGED <<queues, main, dns, hosts, send, todo, depth, stats>>

\* epoll_wait timed out or was interrupted.
NoEvents ==
  /\ main.at = "epoll"
  /\ main' = At("end")
  /\ UNCHANGED <<queues, dns, hosts, send, jobs, stats>>

\* The two tests of exec.  Each conjunct is read on its own, curJobs without
\* m_mutex.
EndTest == <<curJobs = 0, Empty("raw"), Empty("dns")>>
JamTestNeverHolds == <<curJobs > MaxJobs, Full("raw"), Full("dns")>>
JamTest == <<curJobs = MaxJobs, Full("raw"), Full("dns")>>
ConjunctHolds == (IF main.at = "end" THEN EndTest ELSE JamTest)[main.conjunct]

\* A test that holds is repeated after sleep(1); "end" ends the loop, "jam"
\* clears the raw queue.  When "end" fails before the sleep, "jam" is next.
Check ==
  /\ main.at \in {"end", "jam"}
  /\ main' =
       IF ConjunctHolds
       THEN IF main.conjunct < 3
            THEN [main EXCEPT !.conjunct = @ + 1]
            ELSE IF main.round = 1
                 THEN [main EXCEPT !.round = 2, !.conjunct = 1]
                 ELSE At(IF main.at = "end" THEN "exit" ELSE "clear")
       ELSE At(IF main.at = "end" /\ main.round = 1 THEN "jam" ELSE "epoll")
  /\ UNCHANGED <<queues, dns, hosts, send, jobs, stats>>

ClearJam ==
  /\ main.at = "clear"
  /\ clearRawUrl
  /\ main' = At("epoll")
  /\ UNCHANGED <<dns, hosts, send, jobs, stats>>

Wakeup == /\ Running
          /\ SpuriousWakeup
          /\ UNCHANGED <<main, dns, hosts, send, jobs, stats>>

-----------------------------------------------------------------------------

DnsThread == DnsPop \/ Resolve \/ DnsPush
SendThread == startJob \/ SendPop \/ SendRequest \/ CountJob
Push(p) == PushUrl(p) \/ ResumePush(p)
RecvThread(u) == Receive(u) \/ Push(u) \/ EndPage(u) \/ stopJob(u)
MainThread == Push("main") \/ StartThreads \/ NoEvents \/ Check \/ ClearJam

Exited == ~Running /\ UNCHANGED vars

Next == \/ MainThread
        \/ DnsThread
        \/ SendThread
        \/ \E u \in Url : RecvThread(u) \/ Readable(u) \/ SocketError(u)
        \/ Wakeup
        \/ SpuriousJobWakeup
        \/ Exited

\* Every thread that can run does run; every server answers in the end, and
\* epoll_wait returns a ready socket although the main thread also times out.
Fairness == /\ WF_vars(MainThread)
            /\ WF_vars(DnsThread)
            /\ WF_vars(SendThread)
            /\ \A u \in Url : /\ WF_vars(RecvThread(u))
                              /\ SF_vars(Readable(u) \/ SocketError(u))

Spec == Init /\ [][Next]_vars
FairSpec == Spec /\ Fairness

-----------------------------------------------------------------------------
(* Properties *)

Place(names) == [at : names, round : {1, 2}, conjunct : 1..3]
Hand(names) == [at : names, url : RawUrl \cup {NoUrl}]
Stage == {"none", "open", "recv", "push", "wait", "succeeded", "failed",
          "done", "lost"}

\* The type invariant.
TypeOK ==
  /\ QueuesTypeOK(Thread)
  /\ main \in Place({"seed", "epoll", "end", "jam", "clear", "exit"})
  /\ dns \in Hand({"off", "pop", "resolve", "push"})
  /\ hosts \subseteq Domain
  /\ send \in Hand({"off", "lock", "asleep", "pop", "connect", "count"})
  /\ stage \in [Producer -> Stage]
  /\ todo \in [Producer -> Seq(RawUrl)]
  /\ depth \in [Url -> Nat]
  /\ curJobs \in Int
  /\ success \in Nat
  /\ failure \in Nat

\* The sockets that startJob opened and stopJob was not called for.
Unstopped == {u \in Url : stage[u] \notin {"none", "done"}}
Uncounted == IF send.at = "count" THEN 1 ELSE 0

\* m_curJobs is the number of sockets without a stopJob, except in the one
\* moment where the socket is open and ++m_curJobs is still to come; and every
\* stopJob was counted as a success or as a failure.  (startJob, stopJob)
JobsCounted ==
  /\ curJobs = Cardinality(Unstopped) - Uncounted
  /\ success + failure = Cardinality({u \in Url : stage[u] = "done"})

\* The jobs never pass MAX_JOBS and never go below zero, although a receive
\* thread can be done with its page before its job is counted: m_mutex makes
\* its stopJob wait for the ++m_curJobs of startJob.
JobLimit == /\ 0 <= curJobs
            /\ 0 <= MaxJobs => curJobs + Uncounted <= MaxJobs

\* No lost wakeup where a condition has a single waiter: the DNS thread sleeps
\* on "raw not empty" only while the raw queue is empty, the send thread on
\* "dns not empty" only while the dns queue is empty and on m_cond only while
\* the jobs are at their limit, and the DNS thread on "dns not full" only while
\* the dns queue is full, although every signal is sent on one exact value
\* (size == 1, size == max - 1, jobs == max - 1).
SleepersJustified ==
  /\ "dns" \in noEmpty["raw"] => Empty("raw")
  /\ "send" \in noEmpty["dns"] => Empty("dns")
  /\ "dns" \in noFull["dns"] => Full("dns")
  /\ send.at = "asleep" => curJobs = MaxJobs

\* Where a URL that passed the filter can be: in a queue, in the hands of the
\* DNS thread or of the send thread, at its socket, or in the push of a
\* producer that waits for room.
Whereabouts == Queue \cup {"resolver", "sender", "socket"} \cup Producer

IsAt(u, place) ==
  \/ place \in Queue /\ \E i \in 1..Len(queue[place]) : queue[place][i].url = u
  \/ place = "resolver" /\ dns.at \in {"resolve", "push"} /\ dns.url.url = u
  \/ place = "sender" /\ send.at = "connect" /\ send.url.url = u
  \/ place = "socket" /\ stage[u] # "none"
  \/ place \in Producer /\ stage[place] = "wait" /\ Head(todo[place]).url = u

\* A URL between the filter and its socket.
OnItsWay(u) == \E place \in Whereabouts \ {"socket"} : IsAt(u, place)

\* No page is fetched twice: a URL is in one place at a time and once there, no
\* socket was opened for it while it is still on its way, and the filter knows
\* it.  Receive threads race for the filter, a push keeps its URL over a wait,
\* and four threads hand the URL on.
AtMostOnce ==
  /\ \A q \in Queue : \A i, j \in 1..Len(queue[q]) :
       queue[q][i].url = queue[q][j].url => i = j
  /\ \A u \in Url : \A p1, p2 \in Whereabouts : IsAt(u, p1) /\ IsAt(u, p2) => p1 = p2
  /\ \A u \in Url : \A place \in Whereabouts : IsAt(u, place) => Hash[u] \subseteq bloom

\* Whatever is queued was let through for what it is: a seed at depth 0, or a
\* link or an image of a page whose socket was opened, at the depth that page
\* gives it, within MAX_DEPTH and within the domain limits.
FoundOn(u, r) ==
  \/ r.type = "html" /\ r.url \in Range(Links[u]) /\ r.depth = depth[u] + 1
  \/ r.type = "image" /\ r.url \in Range(Images[u]) /\ r.depth = depth[u]
Wanted(r) ==
  /\ 0 <= MaxDepth => r.depth <= MaxDepth
  /\ r.url \in OffLimits => r.depth = 0 \/ r.type = "image"
  /\ \/ r.depth = 0 /\ r.url \in Range(Seeds)
     \/ \E u \in Url : stage[u] # "none" /\ FoundOn(u, r)
OnlyWantedQueued ==
  \A q \in Queue : \A r \in Range(queue[q]) : Wanted(r)

\* The crawler implements CrawlFrontier: whatever the threads do, each URL goes
\* its way from unknown to fetched once, and a URL is only dropped between the
\* raw queue and its socket.
Frontier == INSTANCE CrawlFrontier WITH
  known <- {u \in Url : Hash[u] \subseteq bloom},
  pending <- {u \in Url : OnItsWay(u)},
  open <- Unstopped,
  closed <- {u \in Url : stage[u] = "done"},
  over <- ~Running
ImplementsFrontier == Frontier!Spec

\* exec leaves its loop when the crawl is complete: no URL is on its way and no
\* socket waits for its answer.
ExitMeansComplete == ~Running => Unstopped = {} /\ \A u \in Url : ~OnItsWay(u)

\* The crawl ends: exec leaves its loop.
Terminates == <>~Running

\* While exec loops, a push that waits for room in the raw queue goes on: the
\* jam of three full places is noticed and cleared.
PushesGoOn == \A u \in Url : stage[u] = "wait" ~> (~Running \/ stage[u] # "wait")

=============================================================================
