----------------------------- MODULE UrlQueues -----------------------------
(***************************************************************************)
(* The two URL queues of the crawler (webcrawler_eg/src/UrlQueues.cpp).    *)
(*                                                                         *)
(* "raw" holds the URLs that were found and not yet resolved, "dns" the    *)
(* resolved ones that no request was sent for yet.  Each is a monitor: a   *)
(* mutex, a not-full and a not-empty condition variable.  A critical       *)
(* section that does not wait is one step, because everything it touches   *)
(* is protected by the queue's mutex; a call that waits is split where     *)
(* pthread_cond_wait gives the mutex up.  The Bloom filter and the URL     *)
(* plugins run inside the raw queue's critical section.                    *)
(*                                                                         *)
(* The actions are parameterised by the calling thread.  The threads       *)
(* themselves are in WebCrawler.                                           *)
(***************************************************************************)
EXTENDS Integers, Sequences

CONSTANTS Url,         \* the URLs the crawl can meet (normalised strings)
          Bit,         \* the positions of the Bloom table
          Hash,        \* Hash[u]: the positions the eight hash functions give u
          MaxRawUrls,  \* MAX_RAW_URLS, a negative value means no limit
          MaxDnsUrls,  \* MAX_DNS_URLS, a negative value means no limit
          MaxDepth,    \* MAX_DEPTH, a negative value means no limit
          OffLimits    \* the URLs the include and exclude prefixes refuse

ASSUME QueueAssumption == /\ Hash \in [Url -> (SUBSET Bit) \ {{}}]
                          /\ MaxRawUrls \in Int
                          /\ MaxDnsUrls \in Int
                          /\ MaxDepth \in Int
                          /\ OffLimits \subseteq Url

Queue == {"raw", "dns"}
Capacity == [raw |-> MaxRawUrls, dns |-> MaxDnsUrls]
RawUrl == [url : Url, type : {"html", "image"}, depth : Nat]

VARIABLES queue,    \* queue[q]: the URLs in q, first in first out
          bloom,    \* the positions of the Bloom table that are set
          noFull,   \* noFull[q]: the threads asleep on q's not-full condition
          noEmpty   \* noEmpty[q]: the threads asleep on q's not-empty condition

monitors == <<queue, noFull, noEmpty>>
queues == <<queue, bloom, noFull, noEmpty>>

QueuesInit == /\ queue = [q \in Queue |-> <<>>]
              /\ bloom = {}
              /\ noFull = [q \in Queue |-> {}]
              /\ noEmpty = [q \in Queue |-> {}]

-----------------------------------------------------------------------------
(* The conditions the monitors test. *)

Empty(q) == queue[q] = <<>>
Full(q) == 0 <= Capacity[q] /\ Capacity[q] <= Len(queue[q])

NeverExists(u) == FALSE

\* All eight positions are set already.  A false positive is two URLs whose
\* positions overlap.
Exist(u) == Hash[u] \subseteq bloom

\* What the URL plugins let through: MaxDepth refuses what is too deep,
\* DomainLimit refuses off-limits pages unless they are seeds or images.
OneDeeper(r) == ~(0 <= MaxDepth /\ MaxDepth + 1 < r.depth)
WithinDepth(r) == ~(0 <= MaxDepth /\ MaxDepth < r.depth)
InDomain(r) == r.depth = 0 \/ r.type # "html" \/ r.url \notin OffLimits
Accepted(r) == WithinDepth(r) /\ InDomain(r)

\* pthread_cond_signal on a condition with the sleepers S: the sets of
\* sleepers it can leave.
Signalled(S) == IF S = {} THEN {{}} ELSE {S \ {t} : t \in S}

-----------------------------------------------------------------------------
(* The pieces the queue operations are made of. *)

EnqueueSilently(q, r) ==
  /\ ~Full(q)
  /\ queue' = [queue EXCEPT ![q] = Append(@, r)]
  /\ UNCHANGED <<noFull, noEmpty>>

\* Append and, when the queue was empty, signal not-empty.
Enqueue(q, r) ==
  /\ ~Full(q)
  /\ queue' = [queue EXCEPT ![q] = Append(@, r)]
  /\ IF Empty(q)
     THEN \E rest \in Signalled(noEmpty[q]) :
            noEmpty' = [noEmpty EXCEPT ![q] = rest]
     ELSE UNCHANGED noEmpty
  /\ UNCHANGED noFull

SleepUntilNotFull(q, t) ==
  /\ Full(q)
  /\ noFull' = [noFull EXCEPT ![q] = @ \cup {t}]
  /\ UNCHANGED <<queue, noEmpty>>

\* One turn of the loop of pushRawUrl and pushDnsUrl by a thread that is awake.
Put(q, t, r) == Enqueue(q, r) \/ SleepUntilNotFull(q, t)

\* Remove the head and, when the queue was exactly full, signal not-full.
Dequeue(q) ==
  /\ ~Empty(q)
  /\ queue' = [queue EXCEPT ![q] = Tail(@)]
  /\ IF Len(queue'[q]) = Capacity[q] - 1
     THEN \E rest \in Signalled(noFull[q]) :
            noFull' = [noFull EXCEPT ![q] = rest]
     ELSE UNCHANGED noFull
  /\ UNCHANGED noEmpty

SleepUntilNotEmpty(q, t) ==
  /\ Empty(q)
  /\ noEmpty' = [noEmpty EXCEPT ![q] = @ \cup {t}]
  /\ UNCHANGED <<queue, noFull>>

-----------------------------------------------------------------------------
(* The operations.  A thread t has returned from a push or a pop when it   *)
(* is not among the sleepers of the next state.                            *)

\* pushRawUrl up to its return or its first wait.  The filter marks r before
\* the plugins are asked and before the queue has room.
pushRawUrl(t, r) ==
  /\ bloom' = bloom \cup Hash[r.url]
  /\ IF Exist(r.url) \/ ~Accepted(r)
     THEN UNCHANGED monitors
     ELSE Put("raw", t, r)

\* pushRawUrl from the return of its wait.
resumePushRawUrl(t, r) == /\ t \notin noFull["raw"]
                          /\ Put("raw", t, r)
                          /\ UNCHANGED bloom

popRawUrl(t) == /\ t \notin noEmpty["raw"]
                /\ Dequeue("raw") \/ SleepUntilNotEmpty("raw", t)
                /\ UNCHANGED bloom

clearUnsignalled == /\ queue' = [queue EXCEPT !["raw"] = <<>>]
                    /\ UNCHANGED <<bloom, noFull, noEmpty>>

clearRawUrl == /\ queue' = [queue EXCEPT !["raw"] = <<>>]
               /\ \E rest \in Signalled(noFull["raw"]) :
                    noFull' = [noFull EXCEPT !["raw"] = rest]
               /\ UNCHANGED <<bloom, noEmpty>>

pushDnsUrl(t, r) == /\ t \notin noFull["dns"]
                    /\ Put("dns", t, r)
                    /\ UNCHANGED bloom

popDnsUrl(t) == /\ t \notin noEmpty["dns"]
                /\ Dequeue("dns") \/ SleepUntilNotEmpty("dns", t)
                /\ UNCHANGED bloom

\* pthread_cond_wait may return without a signal.
SpuriousWakeup ==
  /\ \E q \in Queue :
       \/ \E t \in noFull[q] :
            noFull' = [noFull EXCEPT ![q] = @ \ {t}] /\ UNCHANGED noEmpty
       \/ \E t \in noEmpty[q] :
            noEmpty' = [noEmpty EXCEPT ![q] = @ \ {t}] /\ UNCHANGED noFull
  /\ UNCHANGED <<queue, bloom>>

QueuesTypeOK(Thread) == /\ queue \in [Queue -> Seq(RawUrl)]
                        /\ bloom \subseteq Bit
                        /\ noFull \in [Queue -> SUBSET Thread]
                        /\ noEmpty \in [Queue -> SUBSET Thread]

=============================================================================
