-------------------------- MODULE AtMostOnce_proofs --------------------------
(***************************************************************************)
(* No page is fetched twice, for every web, every bound and every number   *)
(* of threads.                                                             *)
(*                                                                         *)
(* A URL has one whereabout.  A step either moves the URL that heads a     *)
(* queue or that a thread has in hand to the next whereabout, or drops it, *)
(* or admits a URL the filter did not know, which therefore is nowhere.    *)
(* From this follow, below, that the crawler implements CrawlFrontier, and *)
(* that what waits in a queue is a URL the limits let through.             *)
(***************************************************************************)
EXTENDS WebCrawler_proofs

\* The three parts of AtMostOnce.
NoTwins == \A q \in Queue : \A i, j \in 1..Len(queue[q]) :
             queue[q][i].url = queue[q][j].url => i = j
OnePlace == \A u \in Url : \A p1, p2 \in Whereabouts :
              IsAt(u, p1) /\ IsAt(u, p2) => p1 = p2
Known == \A u \in Url : \A place \in Whereabouts :
           IsAt(u, place) => Hash[u] \subseteq bloom

\* A producer that sleeps in a push has its URL at the head of its list.
SleepersWait == \A p \in Producer : p \in noFull["raw"] => stage[p] = "wait"

OnceInv == TypeInv /\ AtMostOnce /\ SleepersWait

\* Every URL is where it was, or it is m and has come to place "to".
MovesOnly(m, to) ==
  \A u \in Url : \A place \in Whereabouts :
    IsAt(u, place)' => IsAt(u, place) \/ (u = m /\ place = to)

LEMMA AtMostOnceParts == AtMostOnce <=> NoTwins /\ OnePlace /\ Known
BY DEF AtMostOnce, NoTwins, OnePlace, Known

LEMMA PlacesApart ==
  /\ Queue \cap Producer = {}
  /\ {"resolver", "sender", "socket"} \cap (Queue \cup Producer) = {}
BY CrawlerAssumption DEF Queue, Producer

\* Nothing is anywhere it was not.
LEMMA StaysPut ==
  ASSUME OnePlace, Known, bloom \subseteq bloom',
         \A u \in Url : \A place \in Whereabouts : IsAt(u, place)' => IsAt(u, place)
  PROVE  OnePlace' /\ Known'
BY DEF OnePlace, Known, Whereabouts, Queue, Producer

\* m leaves place "from" for place "to".
LEMMA Moves ==
  ASSUME OnePlace, Known, bloom \subseteq bloom', NEW m \in Url,
         NEW from \in Whereabouts, NEW to \in Whereabouts,
         IsAt(m, from), ~IsAt(m, from)' \/ from = to, MovesOnly(m, to)
  PROVE  OnePlace' /\ Known'
<1> USE DEF Whereabouts, Queue, Producer
<1>1. \A place \in Whereabouts : IsAt(m, place)' => place = to
  BY DEF OnePlace, MovesOnly
<1>2. OnePlace'
  BY <1>1 DEF OnePlace, MovesOnly
<1>3. Known'
  BY DEF Known, MovesOnly
<1>4. QED
  BY <1>2, <1>3

\* m was nowhere and comes to place "to".
LEMMA Appears ==
  ASSUME OnePlace, Known, bloom \subseteq bloom', NEW m \in Url,
         NEW to \in Whereabouts, ~(Hash[m] \subseteq bloom), Hash[m] \subseteq bloom',
         MovesOnly(m, to)
  PROVE  OnePlace' /\ Known'
<1> USE DEF Whereabouts, Queue, Producer
<1>1. \A place \in Whereabouts : ~IsAt(m, place)
  BY DEF Known
<1>2. OnePlace'
  BY ZenonT(30), <1>1 DEF OnePlace, MovesOnly
<1>3. Known'
  BY DEF Known, MovesOnly
<1>4. QED
  BY <1>2, <1>3

-----------------------------------------------------------------------------
(* The whereabouts, place by place. *)

InQueue(u, q) == \E i \in 1..Len(queue[q]) : queue[q][i].url = u

Where(u) ==
  /\ \A q \in Queue : IsAt(u, q) <=> InQueue(u, q)
  /\ IsAt(u, "resolver") <=> dns.at \in {"resolve", "push"} /\ dns.url.url = u
  /\ IsAt(u, "sender") <=> send.at = "connect" /\ send.url.url = u
  /\ IsAt(u, "socket") <=> stage[u] # "none"
  /\ \A p \in Producer : IsAt(u, p) <=> stage[p] = "wait" /\ Head(todo[p]).url = u

LEMMA WhereNow == ASSUME NEW u PROVE Where(u) /\ Where(u)'
BY PlacesApart DEF Where, IsAt, InQueue, Queue

LEMMA AppendPlaces ==
  ASSUME QueuesTypeOK(Thread), NoTwins, NEW q \in Queue, NEW r \in RawUrl,
         ~InQueue(r.url, q), queue' = [queue EXCEPT ![q] = Append(@, r)]
  PROVE  /\ NoTwins'
         /\ \A x \in Queue : \A u :
              InQueue(u, x)' => InQueue(u, x) \/ (u = r.url /\ x = q)
<1>1. queue[q] \in Seq(RawUrl) /\ queue'[q] = Append(queue[q], r)
  BY DEF QueuesTypeOK
<1>2. \A x \in Queue \ {q} : queue'[x] = queue[x]
  BY DEF QueuesTypeOK
<1>3. /\ Len(queue'[q]) = Len(queue[q]) + 1 /\ Len(queue[q]) \in Nat
      /\ \A i \in 1..Len(queue[q]) : queue'[q][i] = queue[q][i]
      /\ queue'[q][Len(queue[q]) + 1] = r
  BY <1>1
<1>4. \A i \in 1..Len(queue'[q]) : i \in 1..Len(queue[q]) \/ i = Len(queue[q]) + 1
  BY <1>3
<1>5. NoTwins'
  <2>1. \A i, j \in 1..Len(queue'[q]) : queue'[q][i].url = queue'[q][j].url => i = j
    BY <1>3, <1>4 DEF InQueue, NoTwins
  <2>2. QED
    BY <1>2, <2>1 DEF NoTwins
<1>6. QED
  BY <1>2, <1>3, <1>4, <1>5 DEF InQueue

LEMMA DequeuePlaces ==
  ASSUME QueuesTypeOK(Thread), NoTwins, NEW q \in Queue, Dequeue(q),
         NEW m, m = Head(queue[q]).url
  PROVE  /\ NoTwins'
         /\ \A x \in Queue : \A u : InQueue(u, x)' => InQueue(u, x)
         /\ InQueue(m, q)
         /\ ~InQueue(m, q)'
<1>1. queue[q] \in Seq(RawUrl) /\ queue[q] # <<>> /\ queue'[q] = Tail(queue[q])
  BY DEF Dequeue, Empty, QueuesTypeOK
<1>2. \A x \in Queue \ {q} : queue'[x] = queue[x]
  BY DEF Dequeue, QueuesTypeOK
<1>3. /\ Len(queue[q]) \in Nat \ {0} /\ Len(queue'[q]) = Len(queue[q]) - 1
      /\ \A i \in 1..Len(queue'[q]) : queue'[q][i] = queue[q][i + 1]
      /\ Head(queue[q]) = queue[q][1]
  BY <1>1
<1>4. \A i \in 1..Len(queue'[q]) : i + 1 \in 1..Len(queue[q]) /\ i + 1 # 1
  BY <1>3
<1>5. NoTwins'
  <2>1. \A i, j \in 1..Len(queue'[q]) : queue'[q][i].url = queue'[q][j].url => i = j
    <3>1. SUFFICES ASSUME NEW i \in 1..Len(queue'[q]), NEW j \in 1..Len(queue'[q]),
                          queue[q][i + 1].url = queue[q][j + 1].url
                   PROVE  i = j
      BY <1>3
    <3>2. i + 1 = j + 1
      BY <1>4, <3>1 DEF NoTwins
    <3>3. QED
      BY <3>2
  <2>2. QED
    BY <1>2, <2>1 DEF NoTwins
<1>6. \A u : InQueue(u, q)' => InQueue(u, q)
  BY <1>3, <1>4 DEF InQueue
<1>7. 1 \in 1..Len(queue[q])
  BY <1>3
<1>8. ~InQueue(m, q)'
  <2>1. SUFFICES ASSUME NEW i \in 1..Len(queue'[q]),
                        queue'[q][i].url = m
                 PROVE  FALSE
    BY <1>3 DEF InQueue
  <2>2. queue[q][i + 1].url = queue[q][1].url
    BY <1>3, <2>1
  <2>3. i + 1 = 1
    BY <1>4, <1>7, <2>2 DEF NoTwins
  <2>4. QED
    BY <1>4, <2>3
<1>9. QED
  BY ZenonT(30), <1>2, <1>3, <1>5, <1>6, <1>7, <1>8 DEF InQueue

LEMMA NoTwinsStays == NoTwins /\ UNCHANGED queue => NoTwins'
BY DEF NoTwins

-----------------------------------------------------------------------------
(* The steps that hand a URL on.  Each lemma gives the three parts.        *)

Once == NoTwins /\ OnePlace /\ Known

\* All whereabouts, for a quantifier over them.
LEMMA AllPlaces ==
  ASSUME NEW place \in Whereabouts
  PROVE  \/ place \in Queue
         \/ place \in {"resolver", "sender", "socket"}
         \/ place \in Producer
BY DEF Whereabouts

\* What OnceInv says of a producer that has a URL to push.
LEMMA PushFacts ==
  ASSUME TypeInv, NEW p \in Producer, Push(p)
  PROVE  /\ p \in Whereabouts /\ "raw" \in Whereabouts
         /\ Head(todo[p]) \in RawUrl /\ Head(todo[p]).url \in Url
         /\ AfterPush(p)
         /\ stage \in [Producer -> Stage] /\ todo \in [Producer -> Seq(RawUrl)]
<1>1. todo[p] \in Seq(RawUrl) /\ todo[p] # <<>>
  BY DEF Push, PushUrl, ResumePush, TypeInv, TypeOK, HandsFull
<1>2. Head(todo[p]) \in RawUrl
  BY <1>1
<1>3. QED
  BY <1>2 DEF Push, PushUrl, ResumePush, Whereabouts, Queue, RawUrl, TypeInv, TypeOK

\* What a producer's stage and list say after its step.
LEMMA AfterPushPlaces ==
  ASSUME TypeInv, NEW p \in Producer, Push(p)
  PROVE  /\ \A x \in Producer \ {p} : stage'[x] = stage[x] /\ todo'[x] = todo[x]
         /\ p \in noFull'["raw"] => stage'[p] = "wait" /\ todo'[p] = todo[p]
         /\ p \notin noFull'["raw"] => stage'[p] = "push"
         /\ stage[p] \in {"push", "wait"}
         /\ UNCHANGED <<dns, send>>
BY PushFacts DEF AfterPush, Push, PushUrl, ResumePush

LEMMA PushOnce ==
  ASSUME OnceInv, NEW p \in Producer, Push(p)
  PROVE  Once' /\ SleepersWait'
<1> DEFINE r == Head(todo[p])
<1>1. PICK m : m = r.url
  OBVIOUS
<1>2. /\ QueuesTypeOK(Thread) /\ TypeInv /\ NoTwins /\ OnePlace /\ Known
      /\ SleepersWait
  BY AtMostOnceParts DEF OnceInv, TypeInv, TypeOK
<1>3. /\ p \in Whereabouts /\ "raw" \in Whereabouts
      /\ r \in RawUrl /\ m \in Url
  BY <1>1, <1>2, PushFacts
<1>0. /\ \A x \in Producer \ {p} : stage'[x] = stage[x] /\ todo'[x] = todo[x]
      /\ p \in noFull'["raw"] => stage'[p] = "wait" /\ todo'[p] = todo[p]
      /\ p \notin noFull'["raw"] => stage'[p] = "push"
      /\ stage[p] \in {"push", "wait"}
      /\ UNCHANGED <<dns, send>>
  BY <1>2, AfterPushPlaces
<1>4. bloom \subseteq bloom'
  BY DEF Push, PushUrl, ResumePush, pushRawUrl, resumePushRawUrl
<1>5. ASSUME UNCHANGED queue, p \notin noFull'["raw"]
      PROVE  Once'
  <2>1. \A u \in Url : \A place \in Whereabouts : IsAt(u, place)' => IsAt(u, place)
    <3>1. SUFFICES ASSUME NEW u \in Url, NEW place \in Whereabouts, IsAt(u, place)'
                   PROVE  IsAt(u, place)
      OBVIOUS
    <3>0. Where(u) /\ Where(u)'
      BY WhereNow
    <3>2. CASE place \in Queue
      BY <3>0, <1>5, <3>1, <3>2 DEF Where, InQueue
    <3>3. CASE place \in Producer
      BY <1>0, <1>5, <3>0, <3>1, <3>3 DEF Where
    <3>4. CASE place \in {"resolver", "sender", "socket"}
      BY <1>0, <3>0, <3>1, <3>4 DEF Where, Producer
    <3>5. QED
      BY <3>2, <3>3, <3>4, AllPlaces
  <2>2. QED
    BY <1>2, <1>4, <1>5, <2>1, StaysPut, NoTwinsStays DEF Once
<1>6. ASSUME Put("raw", p, r), p \notin noFull["raw"]
      PROVE  \/ /\ queue' = [queue EXCEPT !["raw"] = Append(@, r)]
                /\ p \notin noFull'["raw"]
             \/ UNCHANGED queue /\ p \in noFull'["raw"]
  BY <1>2, <1>6 DEF Put, Enqueue, SleepUntilNotFull, QueuesTypeOK, Queue
<1>7. ASSUME UNCHANGED queue, p \in noFull'["raw"]
      PROVE  NoTwins' /\ MovesOnly(m, p)
  <2>1. SUFFICES ASSUME NEW u \in Url, NEW place \in Whereabouts, IsAt(u, place)'
                 PROVE  IsAt(u, place) \/ (u = m /\ place = p)
    BY <1>2, <1>7, NoTwinsStays DEF MovesOnly
  <2>0. Where(u) /\ Where(u)'
    BY WhereNow
  <2>2. CASE place \in Queue
    BY <1>7, <2>0, <2>1, <2>2 DEF Where, InQueue
  <2>3. CASE place \in Producer
    BY <1>0, <1>1, <1>7, <2>0, <2>1, <2>3 DEF Where
  <2>4. CASE place \in {"resolver", "sender", "socket"}
    BY <1>0, <2>0, <2>1, <2>4 DEF Where, Producer
  <2>5. QED
    BY <2>2, <2>3, <2>4, AllPlaces
<1>8. ASSUME queue' = [queue EXCEPT !["raw"] = Append(@, r)],
             p \notin noFull'["raw"], ~InQueue(m, "raw")
      PROVE  NoTwins' /\ MovesOnly(m, "raw")
  <2>1. /\ NoTwins'
        /\ \A x \in Queue : \A u :
             InQueue(u, x)' => InQueue(u, x) \/ (u = m /\ x = "raw")
    BY <1>1, <1>2, <1>3, <1>8, AppendPlaces DEF Queue
  <2>2. SUFFICES ASSUME NEW u \in Url, NEW place \in Whereabouts, IsAt(u, place)'
                 PROVE  IsAt(u, place) \/ (u = m /\ place = "raw")
    BY <2>1 DEF MovesOnly
  <2>0. Where(u) /\ Where(u)'
    BY WhereNow
  <2>3. CASE place \in Queue
    BY <2>0, <2>1, <2>2, <2>3 DEF Where
  <2>4. CASE place \in Producer
    BY <1>0, <1>8, <2>0, <2>2, <2>4 DEF Where
  <2>5. CASE place \in {"resolver", "sender", "socket"}
    BY <1>0, <2>0, <2>2, <2>5 DEF Where, Producer
  <2>6. QED
    BY <2>3, <2>4, <2>5, AllPlaces
<1>9. ASSUME PushUrl(p) PROVE Once'
  <2>1. p \notin noFull["raw"]
    BY <1>2, <1>9 DEF PushUrl, SleepersWait
  <2>2. CASE Exist(r.url) \/ ~Accepted(r)
    BY <1>2, <1>5, <1>9, <2>1, <2>2 DEF PushUrl, pushRawUrl, monitors
  <2>3. CASE ~Exist(r.url) /\ Accepted(r)
    <3>1. Put("raw", p, r) /\ ~(Hash[m] \subseteq bloom) /\ Hash[m] \subseteq bloom'
      BY <1>1, <1>9, <2>3 DEF PushUrl, pushRawUrl, Exist
    <3>2. ~InQueue(m, "raw")
      BY <1>2, <1>3, <3>1, WhereNow DEF Where, Known, Queue
    <3>3. \E to \in {p, "raw"} : NoTwins' /\ MovesOnly(m, to)
      BY <1>6, <1>7, <1>8, <2>1, <3>1, <3>2
    <3>4. QED
      BY <1>2, <1>3, <1>4, <3>1, <3>3, Appears DEF Once
  <2>4. QED
    BY <2>2, <2>3
<1>10. ASSUME ResumePush(p) PROVE Once'
  <2>1. p \notin noFull["raw"] /\ Put("raw", p, r) /\ IsAt(m, p)
    BY <1>1, <1>3, <1>10, WhereNow DEF ResumePush, resumePushRawUrl, Where
  <2>2. p # "raw"
    BY PlacesApart DEF Queue
  <2>3. ~InQueue(m, "raw")
    BY <1>2, <1>3, <2>1, <2>2, WhereNow DEF Where, OnePlace, Queue
  <2>4. CASE p \in noFull'["raw"] /\ UNCHANGED queue
    BY <1>2, <1>3, <1>4, <1>7, <2>1, <2>4, Moves DEF Once
  <2>5. CASE /\ queue' = [queue EXCEPT !["raw"] = Append(@, r)]
             /\ p \notin noFull'["raw"]
    <3>1. ~IsAt(m, p)'
      BY <1>2, <2>5, <1>0, WhereNow DEF Where
    <3>2. QED
      BY <1>2, <1>3, <1>4, <1>8, <2>1, <2>3, <2>5, <3>1, Moves DEF Once
  <2>6. QED
    BY <1>6, <2>1, <2>4, <2>5
<1>11. SleepersWait'
  <2>1. \A x \in Producer \ {p} : x \in noFull'["raw"] => x \in noFull["raw"]
    BY <1>2
       DEF Push, PushUrl, ResumePush, pushRawUrl, resumePushRawUrl, Put, Enqueue,
           SleepUntilNotFull, monitors, QueuesTypeOK, Queue
  <2>2. QED
    BY <1>2, <2>1, <1>0 DEF SleepersWait
<1>12. QED
  BY <1>9, <1>10, <1>11 DEF Push

LEMMA DnsPopOnce ==
  ASSUME OnceInv, DnsPop
  PROVE  Once'
<1>1. QueuesTypeOK(Thread) /\ NoTwins /\ OnePlace /\ Known
  BY AtMostOnceParts DEF OnceInv, TypeInv, TypeOK
<1>2. UNCHANGED <<bloom, send, stage, todo>> /\ dns.at = "pop"
  BY DEF DnsPop, popRawUrl, jobs
<1>3. CASE SleepUntilNotEmpty("raw", "dns")
  <2>1. UNCHANGED <<queue, dns>>
    BY <1>1, <1>3 DEF SleepUntilNotEmpty, DnsPop, QueuesTypeOK, Queue
  <2>2. \A u \in Url : \A place \in Whereabouts : IsAt(u, place)' => IsAt(u, place)
    BY <1>2, <2>1, Zenon DEF IsAt
  <2>3. QED
    BY <1>1, <1>2, <2>1, <2>2, StaysPut, NoTwinsStays DEF Once
<1>4. CASE Dequeue("raw")
  <2>1. PICK m : m = Head(queue["raw"]).url
    OBVIOUS
  <2>2. Head(queue["raw"]) \in RawUrl /\ m \in Url
    BY <1>1, <1>2, <1>4, <2>1, DequeueType DEF Queue, RawUrl
  <2>3. /\ NoTwins' /\ InQueue(m, "raw") /\ ~InQueue(m, "raw")'
        /\ \A x \in Queue : \A u : InQueue(u, x)' => InQueue(u, x)
    BY <1>1, <1>4, <2>1, DequeuePlaces DEF Queue
  <2>4. noEmpty' = noEmpty /\ "dns" \notin noEmpty["raw"]
    BY <1>4 DEF Dequeue, DnsPop, popRawUrl
  <2>5. dns'.at \in {"resolve", "push"} /\ dns'.url = Head(queue["raw"])
    BY <2>4 DEF DnsPop
  <2>6. IsAt(m, "raw") /\ ~IsAt(m, "raw")'
    BY <2>3, WhereNow DEF Where, Queue
  <2>7. MovesOnly(m, "resolver")
    <3>1. SUFFICES ASSUME NEW u \in Url, NEW place \in Whereabouts, IsAt(u, place)'
                   PROVE  IsAt(u, place) \/ (u = m /\ place = "resolver")
      BY DEF MovesOnly
    <3>2. Where(u) /\ Where(u)'
      BY WhereNow
    <3>3. QED
      BY <1>2, <2>1, <2>3, <2>5, <3>1, <3>2, AllPlaces DEF Where
  <2>8. QED
    BY <1>1, <1>2, <2>2, <2>3, <2>6, <2>7, Moves DEF Once, Whereabouts, Queue
<1>5. QED
  BY <1>3, <1>4 DEF DnsPop, popRawUrl

LEMMA DnsPushOnce ==
  ASSUME OnceInv, DnsPush
  PROVE  Once'
<1>1. QueuesTypeOK(Thread) /\ TypeInv /\ NoTwins /\ OnePlace /\ Known
  BY AtMostOnceParts DEF OnceInv, TypeInv, TypeOK
<1>2. UNCHANGED <<bloom, send, stage, todo>> /\ dns.at = "push"
  BY DEF DnsPush, pushDnsUrl, jobs
<1>3. CASE SleepUntilNotFull("dns", "dns")
  <2>1. UNCHANGED <<queue, dns>>
    BY <1>1, <1>3 DEF SleepUntilNotFull, DnsPush, QueuesTypeOK, Queue
  <2>2. \A u \in Url : \A place \in Whereabouts : IsAt(u, place)' => IsAt(u, place)
    BY <1>2, <2>1, Zenon DEF IsAt
  <2>3. QED
    BY <1>1, <1>2, <2>1, <2>2, StaysPut, NoTwinsStays DEF Once
<1>4. CASE Enqueue("dns", dns.url)
  <2>1. PICK m : m = dns.url.url
    OBVIOUS
  <2>2. dns.url \in RawUrl /\ m \in Url
    BY <1>1, <1>2, <2>1 DEF TypeInv, HandsFull, RawUrl
  <2>3. IsAt(m, "resolver")
    BY <1>2, <2>1, WhereNow DEF Where
  <2>4. ~InQueue(m, "dns")
    BY <1>1, <2>2, <2>3, WhereNow, PlacesApart DEF Where, OnePlace, Whereabouts, Queue
  <2>5. /\ NoTwins'
        /\ \A x \in Queue : \A u :
             InQueue(u, x)' => InQueue(u, x) \/ (u = m /\ x = "dns")
    BY <1>1, <1>4, <2>1, <2>2, <2>4, AppendPlaces DEF Enqueue, Queue
  <2>6. dns'.at = "pop"
    BY <1>1, <1>4 DEF Enqueue, DnsPush, pushDnsUrl
  <2>7. ~IsAt(m, "resolver")'
    BY <2>6, WhereNow DEF Where
  <2>8. MovesOnly(m, "dns")
    <3>1. SUFFICES ASSUME NEW u \in Url, NEW place \in Whereabouts, IsAt(u, place)'
                   PROVE  IsAt(u, place) \/ (u = m /\ place = "dns")
      BY DEF MovesOnly
    <3>2. Where(u) /\ Where(u)'
      BY WhereNow
    <3>3. QED
      BY <1>2, <2>5, <2>6, <3>1, <3>2, AllPlaces DEF Where
  <2>9. QED
    BY <1>1, <1>2, <2>2, <2>3, <2>5, <2>7, <2>8, Moves DEF Once, Whereabouts, Queue
<1>5. QED
  BY <1>3, <1>4 DEF DnsPush, pushDnsUrl, Put

LEMMA SendPopOnce ==
  ASSUME OnceInv, SendPop
  PROVE  Once'
<1>1. QueuesTypeOK(Thread) /\ NoTwins /\ OnePlace /\ Known
  BY AtMostOnceParts DEF OnceInv, TypeInv, TypeOK
<1>2. UNCHANGED <<bloom, dns, stage, todo>> /\ send.at = "pop"
  BY DEF SendPop, popDnsUrl, jobs
<1>3. CASE SleepUntilNotEmpty("dns", "send")
  <2>1. UNCHANGED <<queue, send>>
    BY <1>1, <1>3 DEF SleepUntilNotEmpty, SendPop, QueuesTypeOK, Queue
  <2>2. \A u \in Url : \A place \in Whereabouts : IsAt(u, place)' => IsAt(u, place)
    BY <1>2, <2>1, Zenon DEF IsAt
  <2>3. QED
    BY <1>1, <1>2, <2>1, <2>2, StaysPut, NoTwinsStays DEF Once
<1>4. CASE Dequeue("dns")
  <2>1. PICK m : m = Head(queue["dns"]).url
    OBVIOUS
  <2>2. Head(queue["dns"]) \in RawUrl /\ m \in Url
    BY <1>1, <1>2, <1>4, <2>1, DequeueType DEF Queue, RawUrl
  <2>3. /\ NoTwins' /\ InQueue(m, "dns") /\ ~InQueue(m, "dns")'
        /\ \A x \in Queue : \A u : InQueue(u, x)' => InQueue(u, x)
    BY <1>1, <1>4, <2>1, DequeuePlaces DEF Queue
  <2>4. noEmpty' = noEmpty /\ "send" \notin noEmpty["dns"]
    BY <1>4 DEF Dequeue, SendPop, popDnsUrl
  <2>5. send'.at = "connect" /\ send'.url = Head(queue["dns"])
    BY <2>4 DEF SendPop
  <2>6. IsAt(m, "dns") /\ ~IsAt(m, "dns")'
    BY <2>3, WhereNow DEF Where, Queue
  <2>7. MovesOnly(m, "sender")
    <3>1. SUFFICES ASSUME NEW u \in Url, NEW place \in Whereabouts, IsAt(u, place)'
                   PROVE  IsAt(u, place) \/ (u = m /\ place = "sender")
      BY DEF MovesOnly
    <3>2. Where(u) /\ Where(u)'
      BY WhereNow
    <3>3. QED
      BY <1>2, <2>1, <2>3, <2>5, <3>1, <3>2, AllPlaces DEF Where
  <2>8. QED
    BY <1>1, <1>2, <2>2, <2>3, <2>6, <2>7, Moves DEF Once, Whereabouts, Queue
<1>5. QED
  BY <1>3, <1>4 DEF SendPop, popDnsUrl

LEMMA SendRequestOnce ==
  ASSUME OnceInv, SendRequest
  PROVE  Once' /\ SleepersWait' /\ stage[send.url.url] = "none"
<1>1. TypeInv /\ NoTwins /\ OnePlace /\ Known /\ SleepersWait
  BY AtMostOnceParts DEF OnceInv
<1>2. UNCHANGED <<queue, bloom, noFull, dns, todo>> /\ send.at = "connect"
  BY DEF SendRequest, queues
<1>3. PICK m : m = send.url.url
  OBVIOUS
<1>4. m \in Url /\ m \in Producer
  BY <1>1, <1>2, <1>3 DEF TypeInv, HandsFull, RawUrl, Producer
<1>5. IsAt(m, "sender") /\ stage[m] = "none"
  <2>1. Where(m)
    BY WhereNow
  <2>2. IsAt(m, "sender")
    BY <1>2, <1>3, <2>1 DEF Where
  <2>3. QED
    BY <1>1, <1>4, <2>1, <2>2 DEF Where, OnePlace, Whereabouts
<1>6. CASE UNCHANGED stage
  <2>1. send'.at = "lock"
    BY <1>1, <1>3, <1>4, <1>5, <1>6 DEF SendRequest, TypeInv, TypeOK
  <2>2. \A u \in Url : \A place \in Whereabouts : IsAt(u, place)' => IsAt(u, place)
    BY <1>2, <1>6, <2>1 DEF IsAt
  <2>3. QED
    BY <1>1, <1>2, <1>3, <1>5, <1>6, <2>2, StaysPut, NoTwinsStays
       DEF Once, SleepersWait
<1>7. CASE stage' = [stage EXCEPT ![m] = "open"] /\ send' = [send EXCEPT !.at = "count"]
  <2>1. /\ \A x \in Producer \ {m} : stage'[x] = stage[x]
        /\ stage'[m] = "open" /\ send'.at = "count"
    BY <1>1, <1>4, <1>7 DEF TypeInv, TypeOK, Hand
  <2>2. MovesOnly(m, "socket")
    <3>1. SUFFICES ASSUME NEW u \in Url, NEW place \in Whereabouts, IsAt(u, place)'
                   PROVE  IsAt(u, place) \/ (u = m /\ place = "socket")
      BY DEF MovesOnly
    <3>2. Where(u) /\ Where(u)'
      BY WhereNow
    <3>3. CASE place \in Queue
      BY <1>2, <3>1, <3>2, <3>3 DEF Where, InQueue
    <3>4. CASE place \in Producer
      BY <1>2, <2>1, <3>1, <3>2, <3>4 DEF Where
    <3>5. CASE place \in {"resolver", "sender", "socket"}
      BY <1>2, <2>1, <3>1, <3>2, <3>5 DEF Where, Producer
    <3>6. QED
      BY <3>3, <3>4, <3>5, AllPlaces
  <2>3. ~IsAt(m, "sender")'
    BY <2>1, WhereNow DEF Where
  <2>4. OnePlace' /\ Known'
    BY <1>1, <1>2, <1>4, <1>5, <2>2, <2>3, Moves DEF Whereabouts
  <2>5. SleepersWait'
    BY <1>1, <1>2, <1>4, <1>5, <2>1 DEF SleepersWait
  <2>6. QED
    BY <1>1, <1>2, <1>3, <1>5, <2>4, <2>5, NoTwinsStays DEF Once
<1>8. QED
  BY <1>3, <1>6, <1>7 DEF SendRequest

\* The steps that leave every URL where it is, or drop one.
LEMMA ClearOnce ==
  ASSUME OnceInv, ClearJam
  PROVE  Once'
<1>1. QueuesTypeOK(Thread) /\ NoTwins /\ OnePlace /\ Known
  BY AtMostOnceParts DEF OnceInv, TypeInv, TypeOK
<1>2. UNCHANGED <<bloom, dns, send, stage, todo>>
  BY DEF ClearJam, clearRawUrl, jobs
<1>3. queue'["raw"] = <<>> /\ queue'["dns"] = queue["dns"]
  BY <1>1 DEF ClearJam, clearRawUrl, QueuesTypeOK, Queue
<1>4. NoTwins'
  BY <1>1, <1>3 DEF NoTwins, Queue
<1>5. \A u : \A q \in Queue : InQueue(u, q)' => InQueue(u, q)
  BY <1>3 DEF InQueue, Queue
<1>6. \A u \in Url : \A place \in Whereabouts : IsAt(u, place)' => IsAt(u, place)
  <2>1. SUFFICES ASSUME NEW u \in Url, NEW place \in Whereabouts, IsAt(u, place)'
                 PROVE  IsAt(u, place)
    OBVIOUS
  <2>2. Where(u) /\ Where(u)'
    BY WhereNow
  <2>3. QED
    BY <1>2, <1>5, <2>1, <2>2, AllPlaces DEF Where
<1>7. QED
  BY <1>1, <1>2, <1>4, <1>6, StaysPut DEF Once

LEMMA ThreadOnce ==
  ASSUME OnceInv, UNCHANGED <<queue, bloom, stage, todo>>,
         dns'.at \in {"resolve", "push"} =>
           dns.at \in {"resolve", "push"} /\ dns'.url = dns.url,
         send'.at = "connect" => send.at = "connect" /\ send'.url = send.url
  PROVE  Once'
<1>1. NoTwins /\ OnePlace /\ Known
  BY AtMostOnceParts DEF OnceInv
<1>2. \A u \in Url : \A place \in Whereabouts : IsAt(u, place)' => IsAt(u, place)
  <2>1. SUFFICES ASSUME NEW u \in Url, NEW place \in Whereabouts, IsAt(u, place)'
                 PROVE  IsAt(u, place)
    OBVIOUS
  <2>2. Where(u) /\ Where(u)'
    BY WhereNow
  <2>3. \A q \in Queue : InQueue(u, q)' => InQueue(u, q)
    BY DEF InQueue
  <2>4. QED
    BY <2>1, <2>2, <2>3, AllPlaces DEF Where
<1>3. QED
  BY <1>1, <1>2, StaysPut, NoTwinsStays DEF Once

\* Steps of a socket that was opened and of a receive thread that does not wait.
LEMMA StageOnce ==
  ASSUME OnceInv, NEW p \in Producer, UNCHANGED <<queue, bloom, noFull, dns>>,
         send'.at = "connect" => UNCHANGED send,
         stage[p] \notin {"none", "wait"}, stage'[p] \notin {"none", "wait"},
         \A x \in Producer \ {p} : stage'[x] = stage[x] /\ todo'[x] = todo[x]
  PROVE  Once' /\ SleepersWait'
<1>1. NoTwins /\ OnePlace /\ Known /\ SleepersWait
  BY AtMostOnceParts DEF OnceInv
<1>2. \A u \in Url : \A place \in Whereabouts : IsAt(u, place)' => IsAt(u, place)
  <2>1. SUFFICES ASSUME NEW u \in Url, NEW place \in Whereabouts, IsAt(u, place)'
                 PROVE  IsAt(u, place)
    OBVIOUS
  <2>2. Where(u) /\ Where(u)'
    BY WhereNow
  <2>3. CASE place \in Queue
    BY <2>1, <2>2, <2>3 DEF Where, InQueue
  <2>4. CASE place \in Producer
    BY <2>1, <2>2, <2>4 DEF Where
  <2>5. CASE place \in {"resolver", "sender", "socket"}
    BY <2>1, <2>2, <2>5 DEF Where, Producer
  <2>6. QED
    BY <2>3, <2>4, <2>5, AllPlaces
<1>3. SleepersWait'
  BY <1>1 DEF SleepersWait
<1>4. QED
  BY <1>1, <1>2, <1>3, StaysPut, NoTwinsStays DEF Once

LEMMA SocketOnce ==
  ASSUME OnceInv, NEW u \in Url,
         \/ Receive(u) \/ EndPage(u) \/ stopJob(u) \/ Readable(u) \/ SocketError(u)
  PROVE  Once' /\ SleepersWait'
<1>1. u \in Producer
  BY DEF Producer
<1>2. /\ stage \in [Producer -> Stage] /\ todo \in [Producer -> Seq(RawUrl)]
      /\ send \in Hand({"off", "lock", "asleep", "pop", "connect", "count"})
  BY DEF OnceInv, TypeInv, TypeOK
<1>3. UNCHANGED <<queue, bloom, noFull, dns>>
  BY DEF Receive, EndPage, stopJob, Readable, SocketError, queues
<1>4. send'.at = "connect" => UNCHANGED send
  BY <1>2 DEF Receive, EndPage, stopJob, Readable, SocketError, Hand
<1>5. stage[u] \notin {"none", "wait"} /\ stage'[u] \notin {"none", "wait"}
  BY <1>1, <1>2 DEF Receive, EndPage, stopJob, Readable, SocketError
<1>6. \A x \in Producer \ {u} : stage'[x] = stage[x] /\ todo'[x] = todo[x]
  BY <1>1, <1>2 DEF Receive, EndPage, stopJob, Readable, SocketError
<1>7. QED
  BY <1>1, <1>3, <1>4, <1>5, <1>6, StageOnce

LEMMA StartOnce ==
  ASSUME OnceInv, StartThreads
  PROVE  Once' /\ SleepersWait'
<1>1. /\ stage \in [Producer -> Stage] /\ "main" \in Producer
      /\ dns \in Hand({"off", "pop", "resolve", "push"})
      /\ send \in Hand({"off", "lock", "asleep", "pop", "connect", "count"})
  BY DEF OnceInv, TypeInv, TypeOK, Producer
<1>2. dns'.at = "pop" /\ send'.at = "lock"
  BY <1>1 DEF StartThreads, Hand
<1>3. NoTwins /\ OnePlace /\ Known /\ SleepersWait
  BY AtMostOnceParts DEF OnceInv
<1>4. /\ UNCHANGED <<queue, bloom, noFull, todo>>
      /\ stage["main"] = "push" /\ stage'["main"] = "done"
      /\ \A x \in Producer \ {"main"} : stage'[x] = stage[x]
  BY <1>1 DEF StartThreads, queues
<1>5. \A u \in Url : \A place \in Whereabouts : IsAt(u, place)' => IsAt(u, place)
  <2>1. SUFFICES ASSUME NEW u \in Url, NEW place \in Whereabouts, IsAt(u, place)'
                 PROVE  IsAt(u, place)
    OBVIOUS
  <2>2. Where(u) /\ Where(u)' /\ u \in Producer \ {"main"}
    BY WhereNow, CrawlerAssumption DEF Producer
  <2>3. CASE place \in Queue
    BY <1>4, <2>1, <2>2, <2>3 DEF Where, InQueue
  <2>4. CASE place \in Producer
    BY <1>4, <2>1, <2>2, <2>4 DEF Where
  <2>5. CASE place \in {"resolver", "sender", "socket"}
    BY <1>2, <1>4, <2>1, <2>2, <2>5 DEF Where
  <2>6. QED
    BY <2>3, <2>4, <2>5, AllPlaces
<1>6. SleepersWait'
  BY <1>3, <1>4 DEF SleepersWait
<1>7. QED
  BY <1>3, <1>4, <1>5, <1>6, StaysPut, NoTwinsStays DEF Once

-----------------------------------------------------------------------------
(* All steps. *)

LEMMA OnceInit == Init => OnceInv
<1> SUFFICES ASSUME Init PROVE OnceInv
  OBVIOUS
<1>1. NoTwins
  BY DEF Init, QueuesInit, NoTwins, Queue
<1>2. \A u \in Url : \A place \in Whereabouts : ~IsAt(u, place)
  <2>1. SUFFICES ASSUME NEW u \in Url, NEW place \in Whereabouts PROVE ~IsAt(u, place)
    OBVIOUS
  <2>2. Where(u)
    BY WhereNow
  <2>3. CASE place \in Queue
    BY <2>2, <2>3 DEF Where, InQueue, Init, QueuesInit
  <2>4. CASE place \in Producer
    BY <2>2, <2>4 DEF Where, Init
  <2>5. CASE place \in {"resolver", "sender", "socket"}
    <3>1. u # "main" /\ u \in Producer
      BY CrawlerAssumption DEF Producer
    <3>2. QED
      BY <2>2, <2>5, <3>1 DEF Where, Init
  <2>6. QED
    BY <2>3, <2>4, <2>5, AllPlaces
<1>3. OnePlace /\ Known
  BY <1>2 DEF OnePlace, Known
<1>4. SleepersWait
  BY DEF Init, QueuesInit, SleepersWait, Queue
<1>5. QED
  BY <1>1, <1>3, <1>4, TypeInit, AtMostOnceParts DEF OnceInv

\* No step but a push lets a producer fall asleep on "raw not full".
LEMMA StillWaiting ==
  ASSUME OnceInv, UNCHANGED stage, noFull'["raw"] \cap Producer \subseteq noFull["raw"]
  PROVE  SleepersWait'
BY DEF OnceInv, SleepersWait

LEMMA DnsOnce ==
  ASSUME OnceInv, DnsThread
  PROVE  Once' /\ SleepersWait'
<1>1. QueuesTypeOK(Thread) /\ "dns" \notin Producer
  BY CrawlerAssumption DEF OnceInv, TypeInv, TypeOK, Producer
<1>2. UNCHANGED stage
  BY DEF DnsThread, DnsPop, Resolve, DnsPush, jobs
<1>3. noFull'["raw"] \cap Producer \subseteq noFull["raw"]
  BY <1>1
     DEF DnsThread, DnsPop, Resolve, DnsPush, popRawUrl, pushDnsUrl, Put, Enqueue,
         Dequeue, SleepUntilNotFull, SleepUntilNotEmpty, Signalled, queues,
         QueuesTypeOK, Queue
<1>4. CASE Resolve
  <2>1. /\ dns'.at \in {"resolve", "push"} =>
             dns.at \in {"resolve", "push"} /\ dns'.url = dns.url
        /\ UNCHANGED <<queue, bloom, stage, todo, send>>
    BY <1>4 DEF Resolve, queues, jobs, OnceInv, TypeInv, TypeOK, Hand
  <2>2. Once'
    BY <2>1, ThreadOnce
  <2>3. QED
    BY <1>2, <1>3, <2>2, StillWaiting
<1>5. QED
  BY <1>2, <1>3, <1>4, DnsPopOnce, DnsPushOnce, StillWaiting DEF DnsThread

LEMMA SendOnce ==
  ASSUME OnceInv, SendThread \/ SpuriousJobWakeup
  PROVE  Once' /\ SleepersWait'
<1>1. QueuesTypeOK(Thread)
  BY DEF OnceInv, TypeInv, TypeOK
<1>2. CASE SendPop
  <2>1. UNCHANGED stage
    BY <1>2 DEF SendPop, jobs
  <2>2. noFull'["raw"] \cap Producer \subseteq noFull["raw"]
    BY <1>1, <1>2
       DEF SendPop, popDnsUrl, Dequeue, SleepUntilNotEmpty, Signalled, QueuesTypeOK,
           Queue
  <2>3. QED
    BY <1>2, <2>1, <2>2, SendPopOnce, StillWaiting
<1>3. CASE startJob \/ CountJob \/ SpuriousJobWakeup
  <2>1. send'.at # "connect" /\ UNCHANGED <<queue, bloom, noFull, stage, todo, dns>>
    BY <1>3
       DEF startJob, CountJob, SpuriousJobWakeup, queues, jobs, OnceInv, TypeInv, TypeOK,
           Hand
  <2>2. QED
    BY <2>1, ThreadOnce, StillWaiting
<1>4. QED
  BY <1>2, <1>3, SendRequestOnce DEF SendThread

LEMMA LoopOnce ==
  ASSUME OnceInv, NoEvents \/ Check \/ ClearJam \/ Wakeup
  PROVE  Once' /\ SleepersWait'
<1>1. QueuesTypeOK(Thread)
  BY DEF OnceInv, TypeInv, TypeOK
<1>2. UNCHANGED stage
  BY DEF NoEvents, Check, ClearJam, Wakeup, jobs
<1>3. noFull'["raw"] \subseteq noFull["raw"]
  BY <1>1
     DEF NoEvents, Check, ClearJam, Wakeup, clearRawUrl, SpuriousWakeup, Signalled,
         queues, QueuesTypeOK, Queue
<1>4. ASSUME NoEvents \/ Check \/ Wakeup PROVE Once'
  BY <1>4, ThreadOnce
     DEF NoEvents, Check, Wakeup, SpuriousWakeup, queues, jobs
<1>5. QED
  BY <1>2, <1>3, <1>4, ClearOnce, StillWaiting

LEMMA OnceStep == OnceInv /\ [Next]_vars => OnceInv'
<1> SUFFICES ASSUME OnceInv, [Next]_vars PROVE OnceInv'
  OBVIOUS
<1>1. TypeInv'
  BY TypeStep DEF OnceInv
<1>2. SUFFICES Once' /\ SleepersWait'
  BY <1>1, AtMostOnceParts DEF Once, AtMostOnce, NoTwins, OnePlace, Known, OnceInv
<1>3. CASE UNCHANGED vars
  BY <1>3, ThreadOnce, StillWaiting DEF vars
<1>4. CASE MainThread
  BY <1>4, PushOnce, StartOnce, LoopOnce DEF MainThread, Producer
<1>5. ASSUME NEW u \in Url, RecvThread(u) \/ Readable(u) \/ SocketError(u)
      PROVE  Once' /\ SleepersWait'
  BY <1>5, PushOnce, SocketOnce DEF RecvThread, Producer
<1>6. QED
  BY <1>3, <1>4, <1>5, DnsOnce, SendOnce, LoopOnce DEF Next, Exited

\* Every URL is in one place at a time and known to the filter once it is
\* anywhere: however the receive threads race in pushRawUrl, no page is fetched
\* twice.
THEOREM FetchedAtMostOnce == Spec => []AtMostOnce
<1>1. Spec => []OnceInv
  BY OnceInit, OnceStep, PTL DEF Spec
<1>2. OnceInv => AtMostOnce
  BY DEF OnceInv
<1>3. QED
  BY <1>1, <1>2, PTL

-----------------------------------------------------------------------------
(* The crawler implements CrawlFrontier: what each variable of CrawlFrontier *)
(* is mapped to, and what a step does to it.                                 *)

Filtered == {u \in Url : Hash[u] \subseteq bloom}
Underway == {u \in Url : OnItsWay(u)}
Fetched == {u \in Url : stage[u] = "done"}

Waits(u) == \E p \in Producer : stage[p] = "wait" /\ Head(todo[p]).url = u
InHand(u) == \/ dns.at \in {"resolve", "push"} /\ dns.url.url = u
             \/ send.at = "connect" /\ send.url.url = u
OnTheWay(u) == InQueue(u, "raw") \/ InQueue(u, "dns") \/ InHand(u) \/ Waits(u)

LEMMA WayIs ==
  ASSUME NEW u
  PROVE  (OnItsWay(u) <=> OnTheWay(u)) /\ (OnItsWay(u)' <=> OnTheWay(u)')
<1>1. /\ Whereabouts \ {"socket"} = Queue \cup {"resolver", "sender"} \cup Producer
      /\ Queue = {"raw", "dns"}
  BY PlacesApart DEF Whereabouts, Queue
<1>2. Where(u) /\ Where(u)'
  BY WhereNow
<1>3. QED
  BY <1>1, <1>2 DEF OnItsWay, OnTheWay, InHand, Waits, Where

FrontierStep == [Frontier!Next]_(Frontier!vars)

\* The phases of the sockets are what they were.
PhasesStay == \A u \in Url : /\ stage'[u] = "none" <=> stage[u] = "none"
                             /\ stage'[u] = "done" <=> stage[u] = "done"

LEMMA Phases == PhasesStay => UNCHANGED <<Unstopped, Fetched>>
BY DEF PhasesStay, Unstopped, Fetched

LEMMA Stutters ==
  ASSUME UNCHANGED <<Filtered, Underway, Unstopped, Fetched, Running>>
  PROVE  FrontierStep
BY DEF FrontierStep, Frontier!vars, Filtered, Underway, Fetched

LEMMA Abandons ==
  ASSUME Running, UNCHANGED <<Filtered, Unstopped, Fetched, Running>>,
         Underway' \subseteq Underway
  PROVE  FrontierStep
<1>1. PICK urls \in SUBSET Underway : Underway' = Underway \ urls
  <2>1. Underway' = Underway \ (Underway \ Underway')
    OBVIOUS
  <2>2. QED
    BY ONLY <2>1
<1>2. Frontier!Abandon(urls)
  BY <1>1 DEF Frontier!Abandon, Filtered, Underway, Fetched
<1>3. QED
  BY <1>1, <1>2 DEF FrontierStep, Frontier!Next, Underway

LEMMA Discovers ==
  ASSUME Running, UNCHANGED <<Unstopped, Fetched, Running>>, NEW u \in Url,
         u \notin Filtered, u \in Filtered', Filtered \subseteq Filtered',
         Underway' \in {Underway, Underway \cup {u}}
  PROVE  FrontierStep
<1>1. Filtered' \in SUBSET Url /\ Filtered' = Filtered \cup {u} \cup Filtered'
  BY DEF Filtered
<1>2. Frontier!Discover(u)
  BY <1>1 DEF Frontier!Discover, Filtered, Underway, Fetched
<1>3. QED
  BY <1>2 DEF FrontierStep, Frontier!Next

LEMMA Opens ==
  ASSUME Running, UNCHANGED <<Filtered, Fetched, Running>>, NEW u \in Underway,
         Underway' = Underway \ {u}, Unstopped' = Unstopped \cup {u}
  PROVE  FrontierStep
<1>1. Frontier!Open(u)
  BY DEF Frontier!Open, Filtered, Underway, Fetched
<1>2. u \in Url
  BY DEF Underway
<1>3. QED
  BY <1>1, <1>2 DEF FrontierStep, Frontier!Next

LEMMA Closes ==
  ASSUME Running, UNCHANGED <<Filtered, Underway, Running>>, NEW u \in Unstopped,
         Unstopped' = Unstopped \ {u}, Fetched' = Fetched \cup {u}
  PROVE  FrontierStep
<1>1. Frontier!Close(u)
  BY DEF Frontier!Close, Filtered, Underway, Fetched
<1>2. u \in Url
  BY DEF Unstopped
<1>3. QED
  BY <1>1, <1>2 DEF FrontierStep, Frontier!Next

LEMMA Stops ==
  ASSUME Running, ~Running', UNCHANGED <<Filtered, Underway, Unstopped, Fetched>>
  PROVE  FrontierStep
<1>1. Frontier!Stop
  BY DEF Frontier!Stop, Filtered, Underway, Fetched
<1>2. QED
  BY <1>1 DEF FrontierStep, Frontier!Next

LEMMA StartsAsFrontier == Init => Frontier!Init
<1> SUFFICES ASSUME Init PROVE Frontier!Init
  OBVIOUS
<1>1. Filtered = {}
  BY QueueAssumption DEF Init, QueuesInit, Filtered
<1>2. \A u \in Url : u \in Producer /\ u # "main" /\ stage[u] = "none"
  BY CrawlerAssumption DEF Init, Producer
<1>3. Unstopped = {} /\ Fetched = {}
  BY <1>2 DEF Unstopped, Fetched
<1>4. Underway = {}
  BY WayIs DEF Underway, OnTheWay, InHand, Waits, InQueue, Init, QueuesInit, Queue
<1>5. Running
  BY DEF Init, At, Running
<1>6. QED
  BY <1>1, <1>3, <1>4, <1>5 DEF Frontier!Init, Filtered, Underway, Fetched

\* What a queue holds after an append and after a pop.
LEMMA AppendHolds ==
  ASSUME QueuesTypeOK(Thread), NEW q \in Queue, NEW r \in RawUrl,
         queue' = [queue EXCEPT ![q] = Append(@, r)]
  PROVE  \A x \in Queue : \A u :
           InQueue(u, x)' <=> InQueue(u, x) \/ (u = r.url /\ x = q)
<1>1. queue[q] \in Seq(RawUrl) /\ queue'[q] = Append(queue[q], r)
  BY DEF QueuesTypeOK
<1>2. \A x \in Queue \ {q} : queue'[x] = queue[x]
  BY DEF QueuesTypeOK
<1>3. /\ Len(queue'[q]) = Len(queue[q]) + 1 /\ Len(queue[q]) \in Nat
      /\ \A i \in 1..Len(queue[q]) : queue'[q][i] = queue[q][i]
      /\ queue'[q][Len(queue[q]) + 1] = r
  BY <1>1
<1>4. \A i : i \in 1..Len(queue'[q]) <=> i \in 1..Len(queue[q]) \/ i = Len(queue[q]) + 1
  BY <1>3
<1>5. QED
  BY <1>2, <1>3, <1>4 DEF InQueue

LEMMA PopHolds ==
  ASSUME QueuesTypeOK(Thread), NEW q \in Queue, Dequeue(q)
  PROVE  \A x \in Queue : \A u :
           InQueue(u, x) => InQueue(u, x)' \/ (x = q /\ u = Head(queue[q]).url)
<1>1. queue[q] \in Seq(RawUrl) /\ queue[q] # <<>> /\ queue'[q] = Tail(queue[q])
  BY DEF Dequeue, Empty, QueuesTypeOK
<1>2. \A x \in Queue \ {q} : queue'[x] = queue[x]
  BY DEF Dequeue, QueuesTypeOK
<1>3. /\ Len(queue[q]) \in Nat \ {0} /\ Len(queue'[q]) = Len(queue[q]) - 1
      /\ \A i \in 1..Len(queue'[q]) : queue'[q][i] = queue[q][i + 1]
      /\ Head(queue[q]) = queue[q][1]
  BY <1>1
<1>4. \A i \in 1..Len(queue[q]) :
        i = 1 \/ (i - 1 \in 1..Len(queue'[q]) /\ queue'[q][i - 1] = queue[q][i])
  <2>1. \A i \in 1..Len(queue[q]) :
          i = 1 \/ (i - 1 \in 1..Len(queue'[q]) /\ (i - 1) + 1 = i)
    BY ONLY <1>3
  <2>2. QED
    BY <1>3, <2>1
<1>5. QED
  BY <1>2, <1>3, <1>4 DEF InQueue

LEMMA UnderwayIs == Underway = {u \in Url : OnTheWay(u)}
                    /\ Underway' = {u \in Url : OnTheWay(u)'}
BY WayIs DEF Underway

LEMMA PushFrontier ==
  ASSUME OnceInv, NEW p \in Producer, Push(p)
  PROVE  FrontierStep
<1> DEFINE r == Head(todo[p])
<1>1. PICK m \in Url : m = r.url
  BY PushFacts DEF OnceInv
<1>2. /\ QueuesTypeOK(Thread) /\ TypeInv /\ SleepersWait /\ r \in RawUrl
      /\ bloom \subseteq bloom' /\ bloom \subseteq Bit
  BY PushFacts
     DEF OnceInv, TypeInv, TypeOK, QueuesTypeOK, Push, PushUrl, ResumePush, pushRawUrl,
         resumePushRawUrl
<1>3. /\ \A x \in Producer \ {p} : stage'[x] = stage[x] /\ todo'[x] = todo[x]
      /\ p \in noFull'["raw"] => stage'[p] = "wait" /\ todo'[p] = todo[p]
      /\ p \notin noFull'["raw"] => stage'[p] = "push"
      /\ stage[p] \in {"push", "wait"}
      /\ UNCHANGED <<dns, send>>
  BY <1>2, AfterPushPlaces
<1>4. Running /\ UNCHANGED Running
  BY DEF Push, PushUrl, ResumePush, AfterPush, Running
<1>5. UNCHANGED <<Unstopped, Fetched>>
  BY <1>3, Phases DEF PhasesStay, Producer
<1>6. \A u : InHand(u)' <=> InHand(u)
  BY <1>3 DEF InHand
<1>7. Filtered \subseteq Filtered'
  BY <1>2 DEF Filtered
<1>8. ASSUME UNCHANGED queue
      PROVE  \A u : \A x \in Queue : InQueue(u, x)' <=> InQueue(u, x)
  BY <1>8 DEF InQueue
<1>9. ASSUME queue' = [queue EXCEPT !["raw"] = Append(@, r)]
      PROVE  \A u : /\ InQueue(u, "raw")' <=> InQueue(u, "raw") \/ u = m
                    /\ InQueue(u, "dns")' <=> InQueue(u, "dns")
  BY <1>1, <1>2, <1>9, AppendHolds DEF Queue
<1>10. ASSUME Put("raw", p, r), p \notin noFull["raw"]
       PROVE  \/ /\ queue' = [queue EXCEPT !["raw"] = Append(@, r)]
                 /\ p \notin noFull'["raw"]
              \/ UNCHANGED queue /\ p \in noFull'["raw"]
  BY <1>2, <1>10 DEF Put, Enqueue, SleepUntilNotFull, QueuesTypeOK, Queue
<1>11. ASSUME PushUrl(p)
       PROVE  FrontierStep
  <2>1. /\ stage[p] = "push" /\ p \notin noFull["raw"]
        /\ bloom' = bloom \cup Hash[m]
    BY <1>1, <1>2, <1>11 DEF PushUrl, pushRawUrl, SleepersWait
  <2>2. CASE Exist(m) \/ ~Accepted(r)
    <3>1. UNCHANGED queue /\ p \notin noFull'["raw"]
      BY <1>1, <1>11, <2>1, <2>2 DEF PushUrl, pushRawUrl, monitors
    <3>2. \A u : Waits(u)' <=> Waits(u)
      BY <1>3, <2>1, <3>1 DEF Waits
    <3>3. UNCHANGED Underway
      BY <1>6, <1>8, <3>1, <3>2, UnderwayIs DEF OnTheWay, Queue
    <3>4. CASE Exist(m)
      <4>1. UNCHANGED Filtered
        BY <2>1, <3>4 DEF Exist, Filtered
      <4>2. QED
        BY <1>4, <1>5, <3>3, <4>1, Stutters
    <3>5. CASE ~Exist(m)
      <4>1. m \notin Filtered /\ m \in Filtered'
        BY <2>1, <3>5 DEF Exist, Filtered
      <4>2. QED
        BY <1>4, <1>5, <1>7, <3>3, <4>1, Discovers
    <3>6. QED
      BY <3>4, <3>5
  <2>3. CASE ~Exist(m) /\ Accepted(r)
    <3>1. Put("raw", p, r)
      BY <1>1, <1>11, <2>3 DEF PushUrl, pushRawUrl
    <3>2. \A u : OnTheWay(u)' <=> OnTheWay(u) \/ u = m
      <4>1. CASE /\ queue' = [queue EXCEPT !["raw"] = Append(@, r)]
                 /\ p \notin noFull'["raw"]
        <5>1. \A u : Waits(u)' <=> Waits(u)
          BY <1>3, <2>1, <4>1 DEF Waits
        <5>2. QED
          BY <1>6, <1>9, <4>1, <5>1 DEF OnTheWay
      <4>2. CASE UNCHANGED queue /\ p \in noFull'["raw"]
        <5>1. \A u : Waits(u)' <=> Waits(u) \/ u = m
          BY <1>1, <1>3, <2>1, <4>2 DEF Waits
        <5>2. QED
          BY <1>6, <1>8, <4>2, <5>1 DEF OnTheWay, Queue
      <4>3. QED
        BY <1>10, <2>1, <3>1, <4>1, <4>2
    <3>3. Underway' = Underway \cup {m}
      BY <3>2, UnderwayIs
    <3>4. m \notin Filtered /\ m \in Filtered'
      BY <2>1, <2>3 DEF Exist, Filtered
    <3>5. QED
      BY <1>4, <1>5, <1>7, <3>3, <3>4, Discovers
  <2>4. QED
    BY <2>2, <2>3
<1>12. ASSUME ResumePush(p)
       PROVE  FrontierStep
  <2>1. /\ stage[p] = "wait" /\ p \notin noFull["raw"] /\ Put("raw", p, r)
        /\ UNCHANGED bloom
    BY <1>12 DEF ResumePush, resumePushRawUrl
  <2>2. Waits(m)
    BY <1>1, <2>1 DEF Waits
  <2>3. \A u : OnTheWay(u)' <=> OnTheWay(u)
    <3>1. CASE /\ queue' = [queue EXCEPT !["raw"] = Append(@, r)]
               /\ p \notin noFull'["raw"]
      <4>1. \A u : /\ Waits(u)' => Waits(u)
                   /\ Waits(u) => Waits(u)' \/ u = m
        BY <1>1, <1>3, <2>1, <3>1 DEF Waits
      <4>2. QED
        BY <1>6, <1>9, <2>2, <3>1, <4>1 DEF OnTheWay
    <3>2. CASE UNCHANGED queue /\ p \in noFull'["raw"]
      <4>1. \A u : Waits(u)' <=> Waits(u)
        BY <1>3, <2>1, <3>2 DEF Waits
      <4>2. QED
        BY <1>6, <1>8, <3>2, <4>1 DEF OnTheWay, Queue
    <3>3. QED
      BY <1>10, <2>1, <3>1, <3>2
  <2>4. UNCHANGED <<Filtered, Underway>>
    BY <2>1, <2>3, UnderwayIs DEF Filtered
  <2>5. QED
    BY <1>4, <1>5, <2>4, Stutters
<1>13. QED
  BY <1>11, <1>12 DEF Push

\* A step that moves no URL, or drops some, and touches no socket's phase.
LEMMA QuietFrontier ==
  ASSUME Running, UNCHANGED <<bloom, Running>>, PhasesStay,
         \A u \in Url : OnTheWay(u)' => OnTheWay(u)
  PROVE  FrontierStep
<1>1. Underway' \subseteq Underway
  BY UnderwayIs
<1>2. UNCHANGED <<Filtered, Unstopped, Fetched>>
  BY Phases DEF Filtered
<1>3. QED
  BY <1>1, <1>2, Abandons

LEMMA DnsFrontier ==
  ASSUME OnceInv, DnsThread
  PROVE  FrontierStep
<1>1. QueuesTypeOK(Thread) /\ TypeInv /\ dns \in Hand({"off", "pop", "resolve", "push"})
  BY DEF OnceInv, TypeInv, TypeOK
<1>2. Running /\ UNCHANGED <<bloom, send, stage, todo, Running>>
  BY DEF DnsThread, DnsPop, Resolve, DnsPush, popRawUrl, pushDnsUrl, queues, jobs, Running
<1>3. PhasesStay /\ \A u : Waits(u)' <=> Waits(u)
  BY <1>2 DEF PhasesStay, Waits
<1>4. CASE Resolve
  <2>1. UNCHANGED queue /\ (dns'.at = "pop" \/ (dns'.at = "push" /\ dns'.url = dns.url))
        /\ dns.at = "resolve"
    BY <1>1, <1>4 DEF Resolve, queues, Hand
  <2>2. \A u : OnTheWay(u)' => OnTheWay(u)
    BY <1>2, <1>3, <2>1 DEF OnTheWay, InHand, InQueue
  <2>3. QED
    BY <1>2, <1>3, <2>2, QuietFrontier
<1>5. CASE DnsPop
  <2>1. CASE SleepUntilNotEmpty("raw", "dns")
    <3>1. UNCHANGED <<queue, dns>>
      BY <1>1, <1>5, <2>1 DEF SleepUntilNotEmpty, DnsPop, QueuesTypeOK, Queue
    <3>2. \A u : OnTheWay(u)' => OnTheWay(u)
      BY <1>2, <1>3, <3>1 DEF OnTheWay, InHand, InQueue
    <3>3. QED
      BY <1>2, <1>3, <3>2, QuietFrontier
  <2>2. CASE Dequeue("raw")
    <3>1. dns'.url = Head(queue["raw"])
      <4>1. noEmpty' = noEmpty /\ "dns" \notin noEmpty["raw"]
        BY <1>5, <2>2 DEF Dequeue, DnsPop, popRawUrl
      <4>2. QED
        BY <1>5, <4>1 DEF DnsPop
    <3>2. PICK m : m = Head(queue["raw"]).url
      OBVIOUS
    <3>3. /\ \A x \in Queue : \A u : InQueue(u, x)' => InQueue(u, x)
          /\ InQueue(m, "raw")
      BY <1>1, <2>2, <3>2, DequeuePlaces, AtMostOnceParts DEF Queue, OnceInv
    <3>4. \A u : OnTheWay(u)' => OnTheWay(u)
      BY <1>2, <1>3, <3>1, <3>2, <3>3 DEF OnTheWay, InHand, Queue
    <3>5. QED
      BY <1>2, <1>3, <3>4, QuietFrontier
  <2>3. QED
    BY <1>5, <2>1, <2>2 DEF DnsPop, popRawUrl
<1>6. CASE DnsPush
  <2>1. dns.at = "push" /\ dns.url \in RawUrl
    BY <1>1, <1>6 DEF DnsPush, TypeInv, HandsFull
  <2>2. CASE SleepUntilNotFull("dns", "dns")
    <3>1. UNCHANGED <<queue, dns>>
      BY <1>1, <1>6, <2>2 DEF SleepUntilNotFull, DnsPush, QueuesTypeOK, Queue
    <3>2. \A u : OnTheWay(u)' => OnTheWay(u)
      BY <1>2, <1>3, <3>1 DEF OnTheWay, InHand, InQueue
    <3>3. QED
      BY <1>2, <1>3, <3>2, QuietFrontier
  <2>3. CASE Enqueue("dns", dns.url)
    <3>1. dns'.at = "pop"
      BY <1>1, <1>6, <2>3 DEF Enqueue, DnsPush, pushDnsUrl
    <3>2. queue' = [queue EXCEPT !["dns"] = Append(@, dns.url)]
      BY <2>3 DEF Enqueue
    <3>3. \A u : /\ InQueue(u, "dns")' => InQueue(u, "dns") \/ u = dns.url.url
                 /\ InQueue(u, "raw")' => InQueue(u, "raw")
      BY <1>1, <2>1, <3>2, AppendHolds DEF Queue
    <3>4. \A u : OnTheWay(u)' => OnTheWay(u)
      BY <1>2, <1>3, <2>1, <3>1, <3>3 DEF OnTheWay, InHand
    <3>5. QED
      BY <1>2, <1>3, <3>4, QuietFrontier
  <2>4. QED
    BY <1>6, <2>2, <2>3 DEF DnsPush, pushDnsUrl, Put
<1>7. QED
  BY <1>4, <1>5, <1>6 DEF DnsThread

LEMMA SendPopFrontier ==
  ASSUME OnceInv, SendPop
  PROVE  FrontierStep
<1>1. QueuesTypeOK(Thread)
  BY DEF OnceInv, TypeInv, TypeOK
<1>2. Running /\ UNCHANGED <<bloom, dns, stage, todo, Running>>
  BY DEF SendPop, popDnsUrl, jobs, Running
<1>3. PhasesStay /\ \A u : Waits(u)' <=> Waits(u)
  BY <1>2 DEF PhasesStay, Waits
<1>4. CASE SleepUntilNotEmpty("dns", "send")
  <2>1. UNCHANGED <<queue, send>>
    BY <1>1, <1>4 DEF SleepUntilNotEmpty, SendPop, QueuesTypeOK, Queue
  <2>2. \A u : OnTheWay(u)' => OnTheWay(u)
    BY <1>2, <1>3, <2>1 DEF OnTheWay, InHand, InQueue
  <2>3. QED
    BY <1>2, <1>3, <2>2, QuietFrontier
<1>5. CASE Dequeue("dns")
  <2>1. send'.url = Head(queue["dns"])
    <3>1. noEmpty' = noEmpty /\ "send" \notin noEmpty["dns"]
      BY <1>5 DEF Dequeue, SendPop, popDnsUrl
    <3>2. QED
      BY <3>1 DEF SendPop
  <2>2. PICK m : m = Head(queue["dns"]).url
    OBVIOUS
  <2>3. /\ \A x \in Queue : \A u : InQueue(u, x)' => InQueue(u, x)
        /\ InQueue(m, "dns")
    BY <1>1, <1>5, <2>2, DequeuePlaces, AtMostOnceParts DEF Queue, OnceInv
  <2>4. \A u : OnTheWay(u)' => OnTheWay(u)
    BY <1>2, <1>3, <2>1, <2>2, <2>3 DEF OnTheWay, InHand, Queue
  <2>5. QED
    BY <1>2, <1>3, <2>4, QuietFrontier
<1>6. QED
  BY <1>4, <1>5 DEF SendPop, popDnsUrl

\* The socket of a URL that was on its way is opened, or the URL is dropped.
LEMMA SendRequestFrontier ==
  ASSUME OnceInv, SendRequest
  PROVE  FrontierStep
<1>1. PICK m \in Url : m = send.url.url
  BY DEF OnceInv, TypeInv, HandsFull, RawUrl, SendRequest
<1>2. /\ TypeInv /\ OnePlace /\ stage \in [Producer -> Stage] /\ m \in Producer
      /\ send \in Hand({"off", "lock", "asleep", "pop", "connect", "count"})
  BY AtMostOnceParts DEF OnceInv, TypeInv, TypeOK, Producer
<1>3. /\ Running /\ UNCHANGED <<queue, bloom, dns, todo, Running>>
      /\ send.at = "connect" /\ send'.at # "connect"
  BY <1>2 DEF SendRequest, queues, Running, Hand
<1>4. IsAt(m, "sender") /\ m \in Underway
  BY <1>1, <1>3, WhereNow, WayIs DEF Where, OnTheWay, InHand, Underway
<1>5. \A place \in Whereabouts : IsAt(m, place) => place = "sender"
  BY <1>2, <1>4 DEF OnePlace, Whereabouts
<1>6. stage[m] = "none" /\ ~InQueue(m, "raw") /\ ~InQueue(m, "dns") /\ ~Waits(m)
      /\ ~(dns.at \in {"resolve", "push"} /\ dns.url.url = m)
  <2>1. Where(m)
    BY WhereNow
  <2>2. \A p \in Producer : p \in Whereabouts /\ p # "sender"
    BY PlacesApart DEF Whereabouts
  <2>3. {"raw", "dns", "resolver", "socket"} \subseteq Whereabouts
    BY DEF Whereabouts, Queue
  <2>4. QED
    BY <1>5, <2>1, <2>2, <2>3 DEF Where, Queue, Waits
<1>7. CASE UNCHANGED stage
  <2>1. PhasesStay /\ \A u : OnTheWay(u)' => OnTheWay(u)
    BY <1>3, <1>7 DEF PhasesStay, OnTheWay, InHand, InQueue, Waits
  <2>2. QED
    BY <1>3, <2>1, QuietFrontier
<1>8. CASE stage' = [stage EXCEPT ![m] = "open"]
  <2>1. stage'[m] = "open" /\ \A x \in Producer \ {m} : stage'[x] = stage[x]
    BY <1>2, <1>8
  <2>2. \A u : Waits(u)' <=> Waits(u)
    BY <1>3, <1>6, <2>1 DEF Waits
  <2>3. \A u : OnTheWay(u)' <=> OnTheWay(u) /\ u # m
    BY <1>1, <1>3, <1>6, <2>2 DEF OnTheWay, InHand, InQueue
  <2>4. Underway' = Underway \ {m}
    BY <2>3, UnderwayIs
  <2>5. Unstopped' = Unstopped \cup {m} /\ Fetched' = Fetched
    BY <1>6, <2>1 DEF Unstopped, Fetched, Producer
  <2>6. UNCHANGED Filtered
    BY <1>3 DEF Filtered
  <2>7. QED
    BY <1>3, <1>4, <2>4, <2>5, <2>6, Opens
<1>9. QED
  BY <1>1, <1>7, <1>8 DEF SendRequest

\* What a receive thread and epoll do with a socket after it was opened.
LEMMA SocketFrontier ==
  ASSUME OnceInv, NEW u \in Url,
         \/ Receive(u) \/ EndPage(u) \/ stopJob(u) \/ Readable(u) \/ SocketError(u)
  PROVE  FrontierStep
<1>1. /\ stage \in [Producer -> Stage] /\ todo \in [Producer -> Seq(RawUrl)]
      /\ send \in Hand({"off", "lock", "asleep", "pop", "connect", "count"})
      /\ u \in Producer
  BY DEF OnceInv, TypeInv, TypeOK, Producer
<1>2. Running /\ UNCHANGED <<queue, bloom, dns, Running>>
  BY DEF Receive, EndPage, stopJob, Readable, SocketError, queues, Running
<1>3. send'.at = "connect" <=> send.at = "connect"
  BY <1>1 DEF Receive, EndPage, stopJob, Readable, SocketError, Hand
<1>4. send'.url = send.url
  BY <1>1 DEF Receive, EndPage, stopJob, Readable, SocketError, Hand
<1>5. /\ stage[u] \notin {"none", "wait", "done"} /\ stage'[u] \notin {"none", "wait"}
      /\ \A x \in Producer \ {u} : stage'[x] = stage[x] /\ todo'[x] = todo[x]
  BY <1>1 DEF Receive, EndPage, stopJob, Readable, SocketError
<1>6. \A v : Waits(v)' <=> Waits(v)
  BY <1>5 DEF Waits
<1>7. \A v : OnTheWay(v)' <=> OnTheWay(v)
  BY <1>2, <1>3, <1>4, <1>6 DEF OnTheWay, InHand, InQueue
<1>8. UNCHANGED <<Filtered, Underway>>
  BY <1>2, <1>7, UnderwayIs DEF Filtered
<1>9. CASE stage'[u] = "done"
  <2>1. u \in Unstopped /\ Unstopped' = Unstopped \ {u} /\ Fetched' = Fetched \cup {u}
    BY <1>5, <1>9 DEF Unstopped, Fetched, Producer
  <2>2. QED
    BY <1>2, <1>8, <2>1, Closes
<1>10. CASE stage'[u] # "done"
  <2>1. PhasesStay
    BY <1>5, <1>10 DEF PhasesStay, Producer
  <2>2. QED
    BY <1>2, <1>8, <2>1, Phases, Stutters
<1>11. QED
  BY <1>9, <1>10

LEMMA StartFrontier ==
  ASSUME OnceInv, StartThreads
  PROVE  FrontierStep
<1>1. /\ stage \in [Producer -> Stage] /\ "main" \in Producer /\ "main" \notin Url
      /\ dns \in Hand({"off", "pop", "resolve", "push"})
      /\ send \in Hand({"off", "lock", "asleep", "pop", "connect", "count"})
  BY CrawlerAssumption DEF OnceInv, TypeInv, TypeOK, Producer
<1>2. /\ dns'.at = "pop" /\ send'.at = "lock"
      /\ Running /\ UNCHANGED <<queue, bloom, todo, Running>>
  BY <1>1 DEF StartThreads, Hand, queues, Running, At
<1>3. /\ stage["main"] = "push" /\ stage'["main"] = "done"
      /\ \A x \in Producer \ {"main"} : stage'[x] = stage[x]
  BY <1>1 DEF StartThreads
<1>4. PhasesStay /\ \A u : Waits(u)' => Waits(u)
  BY <1>1, <1>2, <1>3 DEF PhasesStay, Waits, Producer
<1>5. \A u : OnTheWay(u)' => OnTheWay(u)
  BY <1>2, <1>4 DEF OnTheWay, InHand, InQueue
<1>6. QED
  BY <1>2, <1>4, <1>5, QuietFrontier

\* The steps of the loop, of which one ends the crawl.
LEMMA LoopFrontier ==
  ASSUME OnceInv,
         \/ NoEvents \/ Check \/ ClearJam \/ Wakeup
         \/ startJob \/ CountJob \/ SpuriousJobWakeup
  PROVE  FrontierStep
<1>1. /\ QueuesTypeOK(Thread)
      /\ send \in Hand({"off", "lock", "asleep", "pop", "connect", "count"})
  BY DEF OnceInv, TypeInv, TypeOK
<1>2. Running /\ UNCHANGED <<bloom, dns, stage, todo>>
  BY DEF NoEvents, Check, ClearJam, Wakeup, startJob, CountJob, SpuriousJobWakeup,
         clearRawUrl, SpuriousWakeup, queues, jobs, Running
<1>3. send'.at = "connect" => send.at = "connect" /\ send' = send
  BY <1>1 DEF NoEvents, Check, ClearJam, Wakeup, startJob, CountJob, SpuriousJobWakeup,
              Hand
<1>4. send.at = "connect" => send' = send
  BY <1>1 DEF NoEvents, Check, ClearJam, Wakeup, startJob, CountJob, SpuriousJobWakeup,
              Hand
<1>5. \A u : (Waits(u)' <=> Waits(u)) /\ (InHand(u)' <=> InHand(u))
  BY <1>2, <1>3, <1>4 DEF Waits, InHand
<1>6. CASE UNCHANGED queue
  <2>1. UNCHANGED <<Underway, Filtered, Unstopped, Fetched>>
    <3>1. \A u : OnTheWay(u)' <=> OnTheWay(u)
      BY <1>5, <1>6 DEF OnTheWay, InQueue
    <3>2. QED
      BY <1>2, <3>1, UnderwayIs, Phases DEF Filtered, PhasesStay
  <2>2. CASE Running'
    BY <1>2, <2>1, <2>2, Stutters DEF Running
  <2>3. CASE ~Running'
    BY <1>2, <2>1, <2>3, Stops
  <2>4. QED
    BY <2>2, <2>3
<1>7. CASE ClearJam
  <2>1. queue'["raw"] = <<>> /\ queue'["dns"] = queue["dns"] /\ UNCHANGED Running
    BY <1>1, <1>7 DEF ClearJam, clearRawUrl, QueuesTypeOK, Queue, Running, At
  <2>2. \A u : OnTheWay(u)' => OnTheWay(u)
    BY <1>5, <2>1 DEF OnTheWay, InQueue
  <2>3. QED
    BY <1>2, <2>1, <2>2, QuietFrontier DEF PhasesStay
<1>8. QED
  BY <1>6, <1>7
     DEF NoEvents, Check, Wakeup, startJob, CountJob, SpuriousJobWakeup, SpuriousWakeup,
         queues

LEMMA FrontierNext ==
  ASSUME OnceInv, [Next]_vars
  PROVE  FrontierStep
<1>1. CASE UNCHANGED vars
  <2>1. UNCHANGED <<Underway, Filtered, Unstopped, Fetched, Running>>
    <3>1. UNCHANGED <<queue, bloom, dns, send, stage, todo, main>>
      BY <1>1 DEF vars
    <3>2. \A u : OnTheWay(u)' <=> OnTheWay(u)
      BY <3>1 DEF OnTheWay, InQueue, InHand, Waits
    <3>3. QED
      BY <3>1, <3>2, UnderwayIs, Phases DEF Filtered, PhasesStay, Running
  <2>2. QED
    BY <2>1, Stutters
<1>2. CASE MainThread
  BY <1>2, PushFrontier, StartFrontier, LoopFrontier DEF MainThread, Producer
<1>3. CASE SendThread
  BY <1>3, SendPopFrontier, SendRequestFrontier, LoopFrontier DEF SendThread
<1>4. ASSUME NEW u \in Url, RecvThread(u) \/ Readable(u) \/ SocketError(u)
      PROVE  FrontierStep
  BY <1>4, PushFrontier, SocketFrontier DEF RecvThread, Producer
<1>5. QED
  BY <1>1, <1>2, <1>3, <1>4, DnsFrontier, LoopFrontier DEF Next, Exited

\* Whatever the threads do, each URL goes its way from unknown to fetched once:
\* pushRawUrl takes it up or turns it away, startJob opens its socket, stopJob
\* ends it, and the DNS thread, sendRequest and clearRawUrl may drop it before.
THEOREM CrawlsTheFrontier == Spec => ImplementsFrontier
<1>1. Spec => []OnceInv
  BY OnceInit, OnceStep, PTL DEF Spec
<1>2. OnceInv /\ [Next]_vars => [Frontier!Next]_(Frontier!vars)
  BY FrontierNext DEF FrontierStep
<1>3. QED
  BY <1>1, <1>2, StartsAsFrontier, PTL DEF Spec, ImplementsFrontier, Frontier!Spec
-----------------------------------------------------------------------------
(* What is queued was found on a page whose socket was opened, or is a seed, *)
(* and was let through.                                                      *)

Offered(r) == \/ r.depth = 0 /\ r.url \in Range(Seeds)
              \/ \E u \in Url : stage[u] # "none" /\ FoundOn(u, r)

WantedInv ==
  /\ OnlyWantedQueued
  /\ dns.at \in {"resolve", "push"} => Wanted(dns.url)
  /\ \A p \in Producer : \A r \in Range(todo[p]) : Offered(r)
  /\ \A p \in Producer : stage[p] = "wait" => Accepted(Head(todo[p]))

\* A page keeps its depth once its socket is opened.
DepthsStay ==
  \A u \in Url : stage[u] # "none" => stage'[u] # "none" /\ depth'[u] = depth[u]

LEMMA AcceptedIsWanted ==
  ASSUME NEW r \in RawUrl, Accepted(r), Offered(r)
  PROVE  Wanted(r)
BY QueueAssumption DEF Accepted, WithinDepth, InDomain, Offered, Wanted, RawUrl

LEMMA OffersStay ==
  ASSUME DepthsStay
  PROVE  \A r : (Offered(r) => Offered(r)') /\ (Wanted(r) => Wanted(r)')
BY DEF DepthsStay, Offered, Wanted, FoundOn

LEMMA Ranges ==
  ASSUME NEW S, NEW s \in Seq(S)
  PROVE  /\ \A e \in S : Range(Append(s, e)) = Range(s) \cup {e}
         /\ s # <<>> => Head(s) \in Range(s) /\ Range(Tail(s)) \subseteq Range(s)
<1>1. ASSUME NEW e \in S PROVE Range(Append(s, e)) = Range(s) \cup {e}
  <2> DEFINE new == Append(s, e)
  <2>1. /\ DOMAIN s = 1..Len(s) /\ Len(s) \in Nat /\ DOMAIN new = 1..(Len(s) + 1)
        /\ new[Len(s) + 1] = e /\ \A i \in 1..Len(s) : new[i] = s[i]
    OBVIOUS
  <2> HIDE DEF new
  <2>2. \A i : i \in DOMAIN new <=> i \in DOMAIN s \/ i = Len(s) + 1
    BY ONLY <2>1
  <2>3. Range(new) = Range(s) \cup {e}
    BY <2>1, <2>2 DEF Range
  <2>4. QED
    BY <2>3 DEF new
<1>2. ASSUME s # <<>> PROVE Head(s) \in Range(s) /\ Range(Tail(s)) \subseteq Range(s)
  <2> DEFINE new == Tail(s)
  <2>1. /\ DOMAIN s = 1..Len(s) /\ Len(s) \in Nat \ {0} /\ DOMAIN new = 1..(Len(s) - 1)
        /\ Head(s) = s[1] /\ \A i \in 1..(Len(s) - 1) : new[i] = s[i + 1]
    BY <1>2
  <2> HIDE DEF new
  <2>2. 1 \in DOMAIN s /\ \A i \in DOMAIN new : i + 1 \in DOMAIN s
    BY ONLY <2>1
  <2>3. Head(s) \in Range(s) /\ Range(new) \subseteq Range(s)
    BY <2>1, <2>2 DEF Range
  <2>4. QED
    BY <2>3 DEF new
<1>3. QED
  BY <1>1, <1>2

LEMMA WantedInit == Init => WantedInv
<1> SUFFICES ASSUME Init PROVE WantedInv
  OBVIOUS
<1>1. /\ \A q \in Queue : Range(queue[q]) = {}
      /\ dns.at = "off" /\ \A p \in Producer : stage[p] # "wait"
  BY DEF Init, QueuesInit, Range
<1>2. ASSUME NEW p \in Producer, NEW r \in Range(todo[p]) PROVE Offered(r)
  <2>1. CASE p = "main"
    <3>1. todo[p] = [i \in 1..Len(Seeds) |->
                       [url |-> Seeds[i], type |-> "html", depth |-> 0]]
      BY <2>1 DEF Init
    <3>2. PICK i \in 1..Len(Seeds) : r.url = Seeds[i] /\ r.depth = 0
      BY <1>2, <3>1 DEF Range
    <3>3. Seeds[i] \in Range(Seeds)
      BY CrawlerAssumption DEF Range
    <3>4. QED
      BY <3>2, <3>3 DEF Offered
  <2>2. CASE p # "main"
    BY <1>2, <2>2 DEF Init, Range
  <2>3. QED
    BY <2>1, <2>2
<1>3. QED
  BY <1>1, <1>2 DEF WantedInv, OnlyWantedQueued

LEMMA DepthsKept == OnceInv /\ [Next]_vars => DepthsStay
<1> SUFFICES ASSUME OnceInv, [Next]_vars PROVE DepthsStay
  OBVIOUS
<1>1. stage \in [Producer -> Stage] /\ Url \subseteq Producer /\ depth \in [Url -> Nat]
      /\ "main" \notin Url
  BY CrawlerAssumption DEF OnceInv, TypeInv, TypeOK, Producer
<1>2. CASE SendRequest
  <2>1. stage[send.url.url] = "none"
    BY <1>2, SendRequestOnce
  <2>2. QED
    BY <1>1, <1>2, <2>1 DEF SendRequest, DepthsStay
<1>3. ASSUME NEW p \in Producer, Push(p) PROVE DepthsStay
  <2>1. UNCHANGED depth /\ stage'[p] # "none"
        /\ \A x \in Producer \ {p} : stage'[x] = stage[x]
    BY <1>1, <1>3 DEF Push, PushUrl, ResumePush, AfterPush
  <2>2. QED
    BY <1>1, <2>1 DEF DepthsStay
<1>4. ASSUME NEW u \in Url,
             Receive(u) \/ EndPage(u) \/ stopJob(u) \/ Readable(u) \/ SocketError(u)
      PROVE  DepthsStay
  BY <1>1, <1>4 DEF Receive, EndPage, stopJob, Readable, SocketError, DepthsStay
<1>5. CASE StartThreads
  BY <1>1, <1>5 DEF StartThreads, DepthsStay
<1>6. CASE UNCHANGED <<stage, depth>>
  BY <1>6 DEF DepthsStay
<1>7. ASSUME DnsThread \/ startJob \/ SendPop \/ CountJob \/ NoEvents \/ Check \/ ClearJam
             \/ Wakeup \/ SpuriousJobWakeup \/ Exited \/ UNCHANGED vars
      PROVE  UNCHANGED <<stage, depth>>
  BY <1>7 DEF DnsThread, DnsPop, Resolve, DnsPush, startJob, SendPop, CountJob, NoEvents,
              Check, ClearJam, Wakeup, SpuriousJobWakeup, Exited, vars, jobs
<1>8. QED
  BY <1>2, <1>3, <1>4, <1>5, <1>6, <1>7
     DEF Next, MainThread, SendThread, RecvThread, Producer

\* A step that queues nothing and takes nothing into the DNS thread's hand.
LEMMA WantedStays ==
  ASSUME WantedInv, DepthsStay, UNCHANGED todo,
         \A q \in Queue : Range(queue'[q]) \subseteq Range(queue[q]),
         dns'.at \in {"resolve", "push"} =>
           dns.at \in {"resolve", "push"} /\ dns'.url = dns.url,
         \A p \in Producer : stage'[p] = "wait" => stage[p] = "wait"
  PROVE  WantedInv'
<1>1. \A r : (Offered(r) => Offered(r)') /\ (Wanted(r) => Wanted(r)')
  BY OffersStay
<1>2. OnlyWantedQueued'
  BY <1>1 DEF WantedInv, OnlyWantedQueued
<1>3. ASSUME dns'.at \in {"resolve", "push"} PROVE Wanted(dns.url)'
  <2>1. PICK r : r = dns.url
    OBVIOUS
  <2>2. Wanted(r) /\ dns'.url = r
    BY <1>3, <2>1 DEF WantedInv
  <2>3. QED
    BY <1>1, <2>2
<1>4. \A p \in Producer : \A r \in Range(todo'[p]) : Offered(r)'
  BY <1>1 DEF WantedInv
<1>5. \A p \in Producer : stage'[p] = "wait" => Accepted(Head(todo'[p]))
  BY DEF WantedInv
<1>6. QED
  BY <1>2, <1>3, <1>4, <1>5 DEF WantedInv, Accepted, WithinDepth, InDomain

LEMMA PushWanted ==
  ASSUME OnceInv, WantedInv, DepthsStay, NEW p \in Producer, Push(p)
  PROVE  WantedInv'
<1>1. PICK r \in RawUrl : r = Head(todo[p])
  BY PushFacts DEF OnceInv
<1>2. /\ QueuesTypeOK(Thread) /\ SleepersWait /\ stage \in [Producer -> Stage]
      /\ todo \in [Producer -> Seq(RawUrl)] /\ todo[p] \in Seq(RawUrl) /\ todo[p] # <<>>
  BY DEF OnceInv, TypeInv, TypeOK, HandsFull, Push, PushUrl, ResumePush
<1>3. \A x : (Offered(x) => Offered(x)') /\ (Wanted(x) => Wanted(x)')
  BY OffersStay
<1>4. /\ \A x \in Producer \ {p} : stage'[x] = stage[x] /\ todo'[x] = todo[x]
      /\ p \in noFull'["raw"] => stage'[p] = "wait" /\ todo'[p] = todo[p]
      /\ p \notin noFull'["raw"] => stage'[p] = "push" /\ todo'[p] = Tail(todo[p])
      /\ UNCHANGED dns
  BY <1>2, PushFacts DEF AfterPush, OnceInv
<1>5. Offered(r) /\ Range(todo'[p]) \subseteq Range(todo[p])
  BY <1>1, <1>2, <1>4, Ranges DEF WantedInv
<1>6. \A x \in Producer : \A e \in Range(todo'[x]) : Offered(e)'
  BY <1>3, <1>4, <1>5 DEF WantedInv
<1>7. ASSUME Put("raw", p, r), p \notin noFull["raw"]
      PROVE  \/ queue' = [queue EXCEPT !["raw"] = Append(@, r)] /\ p \notin noFull'["raw"]
             \/ UNCHANGED queue
  BY <1>2, <1>7 DEF Put, Enqueue, SleepUntilNotFull, QueuesTypeOK, Queue
<1>8. \/ UNCHANGED queue /\ p \notin noFull'["raw"]
      \/ /\ Accepted(r)
         /\ \/ queue' = [queue EXCEPT !["raw"] = Append(@, r)] /\ p \notin noFull'["raw"]
            \/ UNCHANGED queue
  <2>1. CASE PushUrl(p)
    <3>1. p \notin noFull["raw"] /\ pushRawUrl(p, r)
      BY <1>1, <1>2, <2>1 DEF PushUrl, SleepersWait
    <3>2. QED
      BY <1>7, <3>1 DEF pushRawUrl, monitors
  <2>2. CASE ResumePush(p)
    <3>1. stage[p] = "wait" /\ resumePushRawUrl(p, r)
      BY <1>1, <2>2 DEF ResumePush
    <3>2. Accepted(r)
      BY <1>1, <3>1 DEF WantedInv
    <3>3. QED
      BY <1>7, <3>1, <3>2 DEF resumePushRawUrl
  <2>3. QED
    BY <2>1, <2>2 DEF Push
<1>9. OnlyWantedQueued'
  <2>1. CASE UNCHANGED queue
    BY <1>3, <2>1 DEF WantedInv, OnlyWantedQueued
  <2>2. CASE Accepted(r) /\ queue' = [queue EXCEPT !["raw"] = Append(@, r)]
    <3>1. Wanted(r)
      BY <1>5, <2>2, AcceptedIsWanted
    <3>2. queue["raw"] \in Seq(RawUrl) /\ queue \in [Queue -> Seq(RawUrl)]
      BY <1>2 DEF QueuesTypeOK, Queue
    <3>3. /\ Range(queue'["raw"]) = Range(queue["raw"]) \cup {r}
          /\ queue'["dns"] = queue["dns"]
      BY <2>2, <3>2, Ranges DEF Queue
    <3>4. QED
      BY <1>3, <3>1, <3>3 DEF WantedInv, OnlyWantedQueued, Queue
  <2>3. QED
    BY <1>8, <2>1, <2>2
<1>10. dns.at \in {"resolve", "push"} => Wanted(dns.url)'
  <2>1. PICK x : x = dns.url /\ dns'.url = x
    BY <1>4
  <2>2. QED
    BY <1>3, <1>4, <2>1 DEF WantedInv
<1>11. \A x \in Producer : stage'[x] = "wait" => Accepted(Head(todo'[x]))
  BY <1>1, <1>4, <1>8 DEF WantedInv
<1>12. QED
  BY <1>4, <1>6, <1>9, <1>10, <1>11 DEF WantedInv, Accepted, WithinDepth, InDomain

LEMMA DnsWanted ==
  ASSUME OnceInv, WantedInv, DepthsStay, DnsThread
  PROVE  WantedInv'
<1>1. /\ QueuesTypeOK(Thread) /\ TypeInv /\ queue \in [Queue -> Seq(RawUrl)]
      /\ dns \in Hand({"off", "pop", "resolve", "push"})
  BY DEF OnceInv, TypeInv, TypeOK, QueuesTypeOK
<1>2. UNCHANGED <<stage, todo>>
  BY DEF DnsThread, DnsPop, Resolve, DnsPush, jobs
<1>3. \A x : (Offered(x) => Offered(x)') /\ (Wanted(x) => Wanted(x)')
  BY OffersStay
<1>4. CASE Resolve
  <2>1. UNCHANGED queue /\ (dns'.at \in {"resolve", "push"} =>
          dns.at \in {"resolve", "push"} /\ dns'.url = dns.url)
    BY <1>1, <1>4 DEF Resolve, queues, Hand
  <2>2. QED
    BY <1>2, <2>1, WantedStays
<1>5. CASE DnsPop
  <2>1. CASE SleepUntilNotEmpty("raw", "dns")
    <3>1. UNCHANGED <<queue, dns>>
      BY <1>1, <1>5, <2>1 DEF SleepUntilNotEmpty, DnsPop, QueuesTypeOK, Queue
    <3>2. QED
      BY <1>2, <3>1, WantedStays
  <2>2. CASE Dequeue("raw")
    <3>1. noEmpty' = noEmpty /\ "dns" \notin noEmpty["raw"]
      BY <1>5, <2>2 DEF Dequeue, DnsPop, popRawUrl
    <3>2. PICK r : r = Head(queue["raw"])
      OBVIOUS
    <3>3. dns'.url = r
      BY <1>5, <3>1, <3>2 DEF DnsPop
    <3>4. queue["raw"] \in Seq(RawUrl) /\ queue["raw"] # <<>>
      BY <1>1, <2>2 DEF Dequeue, Empty, Queue
    <3>5. queue'["raw"] = Tail(queue["raw"]) /\ queue'["dns"] = queue["dns"]
      BY <1>1, <2>2 DEF Dequeue, Queue
    <3>6. r \in Range(queue["raw"]) /\ \A q \in Queue : Range(queue'[q]) \subseteq Range(queue[q])
      BY <3>2, <3>4, <3>5, Ranges DEF Queue
    <3>7. Wanted(r)
      BY <3>6 DEF WantedInv, OnlyWantedQueued, Queue
    <3>8. OnlyWantedQueued' /\ Wanted(dns.url)'
      BY <1>3, <3>3, <3>6, <3>7 DEF WantedInv, OnlyWantedQueued
    <3>9. QED
      BY <1>2, <1>3, <3>8 DEF WantedInv, Accepted, WithinDepth, InDomain
  <2>3. QED
    BY <1>5, <2>1, <2>2 DEF DnsPop, popRawUrl
<1>6. CASE DnsPush
  <2>1. CASE SleepUntilNotFull("dns", "dns")
    <3>1. UNCHANGED <<queue, dns>>
      BY <1>1, <1>6, <2>1 DEF SleepUntilNotFull, DnsPush, QueuesTypeOK, Queue
    <3>2. QED
      BY <1>2, <3>1, WantedStays
  <2>2. CASE Enqueue("dns", dns.url)
    <3>1. dns.at = "push" /\ dns.url \in RawUrl /\ dns'.at = "pop"
      BY <1>1, <1>6, <2>2 DEF Enqueue, DnsPush, pushDnsUrl, TypeInv, HandsFull
    <3>2. PICK r \in RawUrl : r = dns.url /\ Wanted(r)
      BY <3>1 DEF WantedInv
    <3>3. queue["dns"] \in Seq(RawUrl) /\ queue'["dns"] = Append(queue["dns"], r)
          /\ queue'["raw"] = queue["raw"]
      BY <1>1, <2>2, <3>2 DEF Enqueue, Queue
    <3>4. Range(queue'["dns"]) = Range(queue["dns"]) \cup {r}
      BY <3>3, Ranges
    <3>5. OnlyWantedQueued'
      BY <1>3, <3>2, <3>3, <3>4 DEF WantedInv, OnlyWantedQueued, Queue
    <3>6. QED
      BY <1>2, <1>3, <3>1, <3>5 DEF WantedInv, Accepted, WithinDepth, InDomain
  <2>3. QED
    BY <1>6, <2>1, <2>2 DEF DnsPush, pushDnsUrl, Put
<1>7. QED
  BY <1>4, <1>5, <1>6 DEF DnsThread

\* What a page leads to is offered for it.
LEMMA ReceiveWanted ==
  ASSUME OnceInv, WantedInv, DepthsStay, NEW u \in Url, Receive(u)
  PROVE  WantedInv'
<1>1. /\ stage \in [Producer -> Stage] /\ todo \in [Producer -> Seq(RawUrl)]
      /\ u \in Producer
  BY DEF OnceInv, TypeInv, TypeOK, Producer
<1>2. /\ stage[u] = "recv" /\ UNCHANGED <<queue, dns, depth>>
      /\ stage'[u] \in {"push", "succeeded", "failed"}
      /\ \A p \in Producer \ {u} : stage'[p] = stage[p] /\ todo'[p] = todo[p]
      /\ todo'[u] \in {todo[u], Found(u)}
  BY <1>1 DEF Receive, queues
<1>3. \A x : (Offered(x) => Offered(x)') /\ (Wanted(x) => Wanted(x)')
  BY OffersStay
<1>4. \A r \in Range(Found(u)) : Offered(r)
  <2>1. /\ Links[u] \in Seq(Url) /\ Images[u] \in Seq(Url)
        /\ Len(Links[u]) \in Nat /\ Len(Images[u]) \in Nat
    BY CrawlerAssumption
  <2>2. \A i \in 1..Len(Links[u]) : FoundOn(u, LinkedPages(u)[i])
    BY <2>1 DEF LinkedPages, FoundOn, Range
  <2>3. \A i \in 1..Len(Images[u]) : FoundOn(u, LinkedImages(u)[i])
    BY <2>1 DEF LinkedImages, FoundOn, Range
  <2>4. \A r \in Range(Found(u)) : FoundOn(u, r)
    <3>0. TypeOK
      BY DEF OnceInv, TypeInv
    <3>1. LinkedPages(u) \in Seq(RawUrl) /\ Len(LinkedPages(u)) = Len(Links[u])
      <4>1. \A i \in 1..Len(Links[u]) :
              [url |-> Links[u][i], type |-> "html", depth |-> depth[u] + 1] \in RawUrl
        BY <2>1, <3>0 DEF TypeOK, RawUrl
      <4>2. QED
        BY <2>1, <4>1 DEF LinkedPages
    <3>2. LinkedImages(u) \in Seq(RawUrl) /\ Len(LinkedImages(u)) = Len(Images[u])
      <4>1. \A i \in 1..Len(Images[u]) :
              [url |-> Images[u][i], type |-> "image", depth |-> depth[u]] \in RawUrl
        BY <2>1, <3>0 DEF TypeOK, RawUrl
      <4>2. QED
        BY <2>1, <4>1 DEF LinkedImages
    <3>3. PICK pages \in Seq(RawUrl) :
            pages = LinkedPages(u) /\ \A i \in 1..Len(pages) : FoundOn(u, pages[i])
      BY <2>2, <3>1
    <3>4. PICK images \in Seq(RawUrl) :
            images = LinkedImages(u) /\ \A i \in 1..Len(images) : FoundOn(u, images[i])
      BY <2>3, <3>2
    <3>5. DOMAIN (pages \o images) = 1..(Len(pages) + Len(images))
          /\ \A i \in 1..(Len(pages) + Len(images)) :
               (pages \o images)[i] = IF i <= Len(pages) THEN pages[i]
                                      ELSE images[i - Len(pages)]
      OBVIOUS
    <3>6. Len(pages) \in Nat /\ Len(images) \in Nat
      OBVIOUS
    <3>7. \A i \in DOMAIN (pages \o images) : FoundOn(u, (pages \o images)[i])
      BY <3>3, <3>4, <3>5, <3>6
    <3>8. QED
      BY <3>3, <3>4, <3>7 DEF Found, Range
  <2>5. QED
    BY <1>2, <2>4 DEF Offered
<1>5. \A p \in Producer : \A r \in Range(todo'[p]) : Offered(r)'
  BY <1>2, <1>3, <1>4 DEF WantedInv
<1>6. OnlyWantedQueued' /\ (dns.at \in {"resolve", "push"} => Wanted(dns.url)')
  <2>1. PICK x : x = dns.url /\ dns'.url = x
    BY <1>2
  <2>2. QED
    BY <1>2, <1>3, <2>1 DEF WantedInv, OnlyWantedQueued
<1>7. \A p \in Producer : stage'[p] = "wait" => Accepted(Head(todo'[p]))
  BY <1>2 DEF WantedInv
<1>8. QED
  BY <1>2, <1>5, <1>6, <1>7 DEF WantedInv, Accepted, WithinDepth, InDomain

LEMMA OtherWanted ==
  ASSUME OnceInv, WantedInv, DepthsStay,
         \/ \E u \in Url : EndPage(u) \/ stopJob(u) \/ Readable(u) \/ SocketError(u)
         \/ SendThread \/ SpuriousJobWakeup \/ StartThreads
         \/ NoEvents \/ Check \/ ClearJam \/ Wakeup \/ UNCHANGED vars
  PROVE  WantedInv'
<1>1. /\ queue \in [Queue -> Seq(RawUrl)] /\ stage \in [Producer -> Stage]
      /\ dns \in Hand({"off", "pop", "resolve", "push"}) /\ Url \subseteq Producer
  BY DEF OnceInv, TypeInv, TypeOK, QueuesTypeOK, Producer
<1>2. /\ UNCHANGED todo
      /\ dns'.at \in {"resolve", "push"} =>
           dns.at \in {"resolve", "push"} /\ dns'.url = dns.url
  BY <1>1
     DEF EndPage, stopJob, Readable, SocketError, SendThread, startJob, SendPop, SendRequest,
         CountJob, SpuriousJobWakeup, StartThreads, NoEvents, Check, ClearJam, Wakeup,
         jobs, vars, Hand
<1>3. \A p \in Producer : stage'[p] = "wait" => stage[p] = "wait"
  BY <1>1
     DEF EndPage, stopJob, Readable, SocketError, SendThread, startJob, SendPop, SendRequest,
         CountJob, SpuriousJobWakeup, StartThreads, NoEvents, Check, ClearJam, Wakeup,
         jobs, vars
<1>4. \A q \in Queue : Range(queue'[q]) \subseteq Range(queue[q])
  <2>1. CASE SendPop /\ Dequeue("dns")
    <3>1. queue["dns"] \in Seq(RawUrl) /\ queue["dns"] # <<>>
          /\ queue'["dns"] = Tail(queue["dns"]) /\ queue'["raw"] = queue["raw"]
      BY <1>1, <2>1 DEF Dequeue, Empty, Queue
    <3>2. QED
      BY <3>1, Ranges DEF Queue
  <2>2. CASE ClearJam
    BY <1>1, <2>2 DEF ClearJam, clearRawUrl, Range, Queue
  <2>3. CASE UNCHANGED queue
    BY <2>3
  <2>4. QED
    BY <2>1, <2>2, <2>3
       DEF EndPage, stopJob, Readable, SocketError, SendThread, startJob, SendPop,
           SendRequest, CountJob, SpuriousJobWakeup, StartThreads, NoEvents, Check, Wakeup,
           SpuriousWakeup, popDnsUrl, SleepUntilNotEmpty, queues, vars
<1>5. QED
  BY <1>2, <1>3, <1>4, WantedStays

LEMMA WantedNext ==
  ASSUME OnceInv, WantedInv, [Next]_vars
  PROVE  WantedInv'
<1>1. DepthsStay
  BY DepthsKept
<1>2. QED
  BY <1>1, PushWanted, DnsWanted, ReceiveWanted, OtherWanted
     DEF Next, MainThread, RecvThread, Producer, Exited

\* Whatever waits in a queue was let through for what it is: a seed, or a link
\* or an image of a page whose socket was opened, within MAX_DEPTH and the
\* domain limits (UrlQueues.cpp: pushRawUrl and its plugins).
THEOREM QueuedWasWanted == Spec => []OnlyWantedQueued
<1>1. Spec => []OnceInv
  BY OnceInit, OnceStep, PTL DEF Spec
<1>2. OnceInv /\ WantedInv /\ [Next]_vars => WantedInv'
  BY WantedNext
<1>3. WantedInv => OnlyWantedQueued
  BY DEF WantedInv
<1>4. QED
  BY <1>1, <1>2, <1>3, WantedInit, PTL DEF Spec
=============================================================================
