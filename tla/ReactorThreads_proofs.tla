------------------------ MODULE ReactorThreads_proofs ------------------------
(***************************************************************************)
(* Proofs about ReactorThreads, for any number of jobs and threads: the    *)
(* reactor does not sleep over calls of other threads, the user of a       *)
(* lookup is answered once, no job and no result is lost or doubled        *)
(* between the pool's queue, the threads and threadCallQueue, and the pool *)
(* has as many threads as it counts and, but for the race in               *)
(* _startSomeWorkers, as many as its jobs need; and that reactor and pool  *)
(* implement JobService.                                                   *)
(***************************************************************************)
EXTENDS ReactorThreads, FiniteSetTheorems, TLAPS

\* Where the reactor thread is in its main loop, though the user's code that was
\* called there may be in the pool's.
Where == IF at \in {"measure", "grow"} THEN back ELSE at

\* From the timed calls on, when the queue has been looked at, a call in it has
\* its byte in the pipe or a thread about to write one.
Woken ==
  /\ threads \in [Worker -> Place]
  /\ back \in {"run", "call", "drop", "timed"}
  /\ Where \in {"timed", "poll"} /\ calls # <<>>
       => waker \/ Is({"wake", "wakeask"}) # {}

LEMMA WokenInit == Init => Woken
BY DEF Init, Woken, Where, Place

LEMMA WokenNext == Woken /\ [Next]_vars => Woken'
<1> SUFFICES ASSUME Woken, [Next]_vars
             PROVE  Woken'
    OBVIOUS
<1> USE DEF Woken, Where, Is, Place, loop, pool, resolver, history
<1>1. CASE BeginCalls \/ MakeCall
      BY <1>1 DEF BeginCalls, MakeCall
<1>2. CASE DropCalls
      BY <1>2 DEF DropCalls
<1>3. CASE TimedDone \/ (\E j \in Lookup : Timeout(j))
      BY <1>3 DEF TimedDone, Timeout
<1>4. CASE StopPool \/ Joined \/ PollReturns \/ SocketEvent \/ Measure
      BY <1>4 DEF StopPool, Joined, PollReturns, SocketEvent, Measure
<1>9. CASE Grow
  <2>1. PICK new \in SUBSET {w \in Worker : threads[w] = "none"} :
               threads' = [w \in Worker |-> IF w \in new THEN "get" ELSE threads[w]]
        BY <1>9 DEF Grow, Fresh
  <2>2. Is({"wake", "wakeask"})' = Is({"wake", "wakeask"})
        BY <2>1
  <2>3. threads' \in [Worker -> Place]
        BY <2>1
  <2>4. /\ at = "grow" /\ at' = back /\ back' = "run" /\ back \notin {"measure", "grow"}
        /\ UNCHANGED <<calls, waker>>
        BY <1>9 DEF Grow
  <2> QED BY <2>2, <2>3, <2>4
<1>5. CASE (\E j \in Job : Submit(j)) \/ (\E n \in Sizes : Resize(n)) \/ Stop
      BY <1>5 DEF Submit, Resize, Stop, UserCode
<1>6. CASE SigInt
      BY <1>6 DEF SigInt
<1>7. ASSUME NEW w \in Worker, Pool(w)
      PROVE  Woken'
  <2>1. CASE Take(w)
        BY <2>1 DEF Take, Goes
  <2>2. CASE Begin(w) \/ GetAnswer(w) \/ Finish(w) \/ Quit(w)
        BY <2>2 DEF Begin, GetAnswer, Finish, Quit, Goes
  <2>3. CASE AskReactor(w) \/ Report(w)
    <3>1. PICK from \in Place, to \in {"wake", "wakeask"} : Goes(w, from, to)
          BY <2>3 DEF AskReactor, Report
    <3>2. threads' \in [Worker -> Place] /\ threads'[w] = to /\ UNCHANGED back
          BY <2>3, <3>1 DEF AskReactor, Report, Queues, Goes
    <3>3. w \in Is({"wake", "wakeask"})'
          BY <3>1, <3>2
    <3> QED BY <3>2, <3>3
  <2>4. CASE AwaitAnswer(w) \/ GoOn(w)
    <3>1. PICK from \in Place, to \in {"asked", "get"} : Wakes(w, from, to)
          BY <2>4 DEF AwaitAnswer, GoOn
    <3>2. threads' \in [Worker -> Place] /\ UNCHANGED back
          BY <3>1 DEF Wakes, Goes
    <3>3. waker' = TRUE
          BY <3>1 DEF Wakes, WakesReactor
    <3> QED BY <3>2, <3>3
  <2> QED BY <1>7, <2>1, <2>2, <2>3, <2>4 DEF Pool
<1>8. CASE UNCHANGED vars
      BY <1>8 DEF vars
<1> QED
    BY <1>1, <1>2, <1>3, <1>4, <1>5, <1>6, <1>7, <1>8, <1>9
    DEF Next, Reactor, MainLoop, StartWorkers, User

\* The reactor never waits in poll with calls in threadCallQueue and nobody to
\* wake it up (base.py:787-806, :941-950, posixbase.py:143-183).
THEOREM ReactorWokenCorrect == Spec => []ReactorWoken
<1>1. Woken => ReactorWoken
      BY DEF Woken, Where, ReactorWoken
<1> QED BY <1>1, WokenInit, WokenNext, PTL DEF Spec

-----------------------------------------------------------------------------

\* A query runs, with its timeout, from the lookup's start until its Deferred is
\* fired for the first time.
Answered ==
  /\ fired \in [Job -> Nat]
  /\ timers = queries /\ queries \subseteq Lookup \cap accepted
  /\ \A j \in Lookup : /\ fired[j] <= 1
                       /\ j \in accepted => (j \in queries <=> fired[j] = 0)
                       /\ j \notin accepted => fired[j] = 0

LEMMA AnsweredInit == Init => Answered
BY ThreadsAssumption DEF Init, Answered

\* A call of _checkTimeout for any job keeps to that.
LEMMA AnsweredFire ==
  ASSUME Answered, NEW j, Fire(j), UNCHANGED accepted
  PROVE  Answered'
<1>1. CASE j \in Lookup /\ j \notin queries
      BY <1>1 DEF Answered, Fire
<1>2. CASE j \in queries
      BY <1>2, ThreadsAssumption DEF Answered, Fire
<1>3. CASE j \notin Lookup
  <2>1. timers' = queries' /\ queries' = queries
        BY <1>3 DEF Answered, Fire
  <2>2. fired' \in [Job -> Nat] /\ \A k \in Lookup : fired'[k] = fired[k]
        BY <1>3, ThreadsAssumption DEF Answered, Fire
  <2> QED BY <2>1, <2>2 DEF Answered
<1> QED BY <1>1, <1>2, <1>3

LEMMA AnsweredNext == Answered /\ [Next]_vars => Answered'
<1> SUFFICES ASSUME Answered, [Next]_vars
             PROVE  Answered'
    OBVIOUS
<1>1. CASE UNCHANGED <<fired, timers, queries, accepted>>
      BY <1>1 DEF Answered
<1>2. CASE MakeCall
  <2>1. UNCHANGED accepted
        BY <1>2 DEF MakeCall, history
  <2>2. CASE Fire(calls[count + 1].job)
        BY <2>1, <2>2, AnsweredFire
  <2>3. CASE UNCHANGED <<queries, timers, fired>>
        BY <1>1, <2>1, <2>3
  <2> QED BY <1>2, <2>2, <2>3 DEF MakeCall, resolver
<1>3. ASSUME NEW j \in Lookup, Timeout(j)
      PROVE  Answered'
      BY <1>3, ThreadsAssumption DEF Answered, Timeout, ForgetQuery, history
<1>4. ASSUME NEW j \in Job, Submit(j)
      PROVE  Answered'
      BY <1>4 DEF Answered, Submit
<1>5. ASSUME NEW w \in Worker, Pool(w)
      PROVE  UNCHANGED <<fired, timers, queries, accepted>>
      BY <1>5 DEF Pool, Take, Begin, AskReactor, AwaitAnswer, GetAnswer, Finish, Report,
         GoOn, Quit, Queues, Wakes, resolver, history
<1> QED
    BY <1>1, <1>2, <1>3, <1>4, <1>5
    DEF Next, Reactor, MainLoop, StartWorkers, User, BeginCalls, DropCalls, TimedDone,
        StopPool, Joined, PollReturns, SocketEvent, Measure, Grow, Resize, Stop, SigInt,
        resolver, history, vars

\* The Deferred of a lookup is fired once, by the answer or by the timeout,
\* whichever the reactor comes to first (base.py:236-254).
THEOREM AnsweredOnceCorrect == Spec => []AnsweredOnce
<1>1. Answered => AnsweredOnce
      BY DEF Answered, AnsweredOnce
<1> QED BY <1>1, AnsweredInit, AnsweredNext, PTL DEF Spec

-----------------------------------------------------------------------------
\* Types, but for how often a Deferred is fired.

Typed ==
  /\ at \in {"run", "call", "drop", "timed", "poll", "measure", "grow", "join",
             "ended"}
  /\ back \in {"run", "call", "drop", "timed"}
  /\ total \in Nat /\ count \in 0..total /\ size \in Nat
  /\ stopped \in {"no", "just", "yes"}
  /\ calls \in Seq(Call) /\ waker \in BOOLEAN
  /\ q \in Seq(Job \cup {"stop"})
  /\ workers \in Nat /\ max \in Sizes \cup {MaxSize} /\ joined \in BOOLEAN
  /\ threads \in [Worker -> Place]
  /\ work \in [Worker -> Job \cup {"nobody"}]
  /\ answers \subseteq Asks /\ accepted \subseteq Job /\ unseen \in BOOLEAN

\* The loop over the calls stays within them, a thread at work has a job, and
\* only the jobs of Asks ask.
Cursor ==
  /\ Where = "call" => count < total /\ total <= Len(calls)
  /\ Where = "drop" => count = total /\ total <= Len(calls)
  /\ Where \notin {"call", "drop"} => count = 0
HasJob ==
  \A w \in Worker :
    /\ threads[w] \in {"got", "working", "ask", "wakeask", "asked", "report"}
         => work[w] \in Job
    /\ threads[w] = "ask" => work[w] \in Asks
OnlyAsksAsk == \A i \in DOMAIN calls : calls[i].what = "ask" => calls[i].job \in Asks

Sound == Typed /\ Cursor /\ HasJob /\ OnlyAsksAsk

LEMMA CallTypes ==
  /\ \A j \in Job : Result(j) \in Call /\ Ask(j) \in Call /\ Result(j).what = "result"
                    /\ Ask(j).what = "ask" /\ Ask(j).job = j /\ Result(j) # Ask(j)
  /\ StopCall \in Call /\ StopCall.what = "stop"
  /\ \A c \in Call : /\ c.what = "result" => c.job \in Job /\ c = Result(c.job)
                     /\ c.what \in {"result", "ask", "stop"}
BY DEF Call, Result, Ask, StopCall

LEMMA SeqAppend ==
  ASSUME NEW S, NEW s \in Seq(S), NEW e \in S
  PROVE  /\ Append(s, e) \in Seq(S) /\ Len(s) \in Nat /\ DOMAIN s = 1..Len(s)
         /\ Len(Append(s, e)) = Len(s) + 1
         /\ DOMAIN Append(s, e) = 1..(Len(s) + 1)
         /\ \A i \in 1..Len(s) : Append(s, e)[i] = s[i]
         /\ Append(s, e)[Len(s) + 1] = e
OBVIOUS

LEMMA SeqRest ==
  ASSUME NEW S, NEW s \in Seq(S), NEW n \in 0..Len(s)
  PROVE  /\ SubSeq(s, n + 1, Len(s)) \in Seq(S) /\ DOMAIN s = 1..Len(s)
         /\ DOMAIN SubSeq(s, n + 1, Len(s)) = 1..(Len(s) - n)
         /\ \A i \in 1..(Len(s) - n) : SubSeq(s, n + 1, Len(s))[i] = s[i + n]
OBVIOUS

LEMMA SeqTail ==
  ASSUME NEW S, NEW s \in Seq(S), s # <<>>
  PROVE  /\ Tail(s) \in Seq(S) /\ Head(s) = s[1] /\ s[1] \in S /\ Len(s) \in Nat \ {0}
         /\ DOMAIN s = 1..Len(s) /\ DOMAIN Tail(s) = 1..(Len(s) - 1)
         /\ \A i \in 1..(Len(s) - 1) : Tail(s)[i] = s[i + 1]
OBVIOUS

\* WorkerStops are put behind what is in the queue.
LEMMA SeqStops ==
  ASSUME NEW S, "stop" \in S, NEW s \in Seq(S), NEW n \in Nat
  PROVE  /\ s \o [i \in 1..n |-> "stop"] \in Seq(S)
         /\ DOMAIN s = 1..Len(s) /\ Len(s) \in Nat
         /\ DOMAIN (s \o [i \in 1..n |-> "stop"]) = 1..(Len(s) + n)
         /\ \A k \in 1..(Len(s) + n) :
              (s \o [i \in 1..n |-> "stop"])[k] = IF k <= Len(s) THEN s[k] ELSE "stop"
<1>1. PICK t \in Seq(S) : t = [i \in 1..n |-> "stop"]
  <2>1. PICK e \in S : e = "stop"
        OBVIOUS
  <2>2. [i \in 1..n |-> e] \in Seq(S)
        BY ONLY <2>1, n \in Nat
  <2> QED BY <2>1, <2>2
<1>2. Len(t) = n /\ \A i \in 1..n : t[i] = "stop"
      BY <1>1
<1>3. /\ s \o t \in Seq(S) /\ DOMAIN s = 1..Len(s) /\ Len(s) \in Nat
      /\ DOMAIN (s \o t) = 1..(Len(s) + Len(t))
      /\ \A k \in 1..(Len(s) + Len(t)) :
           (s \o t)[k] = IF k <= Len(s) THEN s[k] ELSE t[k - Len(s)]
      OBVIOUS
<1>4. \A k \in 1..(Len(s) + n) : ~(k <= Len(s)) => k - Len(s) \in 1..n
      BY <1>3
<1> QED BY <1>1, <1>2, <1>3, <1>4

\* A call that is queued comes after all others.
LEMMA Queued ==
  ASSUME Sound, NEW c \in Call, c.what = "ask" => c.job \in Asks, calls' = Append(calls, c)
  PROVE  /\ calls' \in Seq(Call) /\ OnlyAsksAsk' /\ Len(calls') = Len(calls) + 1
         /\ Len(calls) \in Nat /\ DOMAIN calls = 1..Len(calls)
         /\ DOMAIN calls' = 1..(Len(calls) + 1) /\ calls'[Len(calls) + 1] = c
         /\ \A i \in 1..Len(calls) : calls'[i] = calls[i]
<1>1. calls \in Seq(Call)
      BY DEF Sound, Typed
<1>2. /\ calls' \in Seq(Call) /\ Len(calls') = Len(calls) + 1
      /\ Len(calls) \in Nat /\ DOMAIN calls = 1..Len(calls)
      /\ DOMAIN calls' = 1..(Len(calls) + 1) /\ calls'[Len(calls) + 1] = c
      /\ \A i \in 1..Len(calls) : calls'[i] = calls[i]
      BY <1>1, SeqAppend
<1>3. OnlyAsksAsk'
      BY <1>2 DEF OnlyAsksAsk, Sound
<1> QED BY <1>2, <1>3

LEMMA SoundInit == Init => Sound
<1> SUFFICES ASSUME Init
             PROVE  Sound
    OBVIOUS
<1>1. MaxSize \in Nat
      BY ThreadsAssumption
<1>2. Typed
  <2>1. threads \in [Worker -> Place] /\ work \in [Worker -> Job \cup {"nobody"}]
        BY DEF Init, Place
  <2>2. calls \in Seq(Call) /\ q \in Seq(Job \cup {"stop"})
        BY DEF Init
  <2>3. /\ at = "run" /\ back = "run" /\ total = 0 /\ count = 0 /\ size = 0 /\ stopped = "no"
        /\ waker = FALSE /\ workers = 0 /\ max = MaxSize /\ joined = FALSE
        /\ answers = {} /\ accepted = {} /\ unseen = FALSE
        BY DEF Init
  <2>4. total \in Nat /\ count \in 0..total /\ size \in Nat /\ workers \in Nat
        BY <2>3
  <2>5. /\ waker \in BOOLEAN /\ joined \in BOOLEAN /\ unseen \in BOOLEAN
        /\ answers \subseteq Asks /\ accepted \subseteq Job
        /\ max \in Sizes \cup {MaxSize}
        /\ at \in {"run", "call", "drop", "timed", "poll", "measure", "grow", "join", "ended"}
        /\ back \in {"run", "call", "drop", "timed"}
        /\ stopped \in {"no", "just", "yes"}
        BY <2>3
  <2> QED BY <2>1, <2>2, <2>4, <2>5 DEF Typed
<1>3. Cursor /\ HasJob /\ OnlyAsksAsk
      BY DEF Init, Cursor, Where, HasJob, OnlyAsksAsk
<1> QED BY <1>2, <1>3 DEF Sound

LEMMA SoundPool ==
  ASSUME Sound, NEW w \in Worker, Pool(w)
  PROVE  Sound'
<1> USE DEF Sound, Typed, Cursor, Where, HasJob, loop, pool, resolver, history
<1>1. CASE Take(w)
  <2>1. q' \in Seq(Job \cup {"stop"}) /\ Head(q) \in Job \cup {"stop"}
        BY <1>1, SeqTail DEF Take
  <2>2. UNCHANGED <<at, back, total, count, calls, OnlyAsksAsk>>
        BY <1>1 DEF Take, OnlyAsksAsk
  <2> QED BY <1>1, <2>1, <2>2 DEF Take, Goes, Place
<1>2. CASE Begin(w) \/ Finish(w) \/ Quit(w)
      BY <1>2 DEF Begin, Finish, Quit, Goes, Place, OnlyAsksAsk
<1>3. CASE AskReactor(w)
  <2>1. work[w] \in Asks /\ Ask(work[w]) \in Call /\ Ask(work[w]).job = work[w]
        BY <1>3, CallTypes DEF AskReactor, Goes
  <2>2. calls' \in Seq(Call) /\ OnlyAsksAsk' /\ Len(calls') = Len(calls) + 1 /\ Len(calls) \in Nat
        BY <1>3, <2>1, Queued DEF AskReactor, Queues
  <2> QED BY <1>3, <2>2 DEF AskReactor, Queues, Goes, Place
<1>4. CASE Report(w)
  <2>1. work[w] \in Job /\ Result(work[w]) \in Call /\ Result(work[w]).what = "result"
        BY <1>4, CallTypes DEF Report, Goes
  <2>2. calls' \in Seq(Call) /\ OnlyAsksAsk' /\ Len(calls') = Len(calls) + 1 /\ Len(calls) \in Nat
        BY <1>4, <2>1, Queued DEF Report, Queues
  <2> QED BY <1>4, <2>2 DEF Report, Queues, Goes, Place
<1>5. CASE AwaitAnswer(w)
      BY <1>5 DEF AwaitAnswer, Wakes, WakesReactor, Goes, Place, OnlyAsksAsk
<1>6. CASE GoOn(w)
      BY <1>6 DEF GoOn, Wakes, WakesReactor, Goes, Place, OnlyAsksAsk
<1>7. CASE GetAnswer(w)
      BY <1>7 DEF GetAnswer, Goes, Place, OnlyAsksAsk
<1> QED BY <1>1, <1>2, <1>3, <1>4, <1>5, <1>6, <1>7 DEF Pool

LEMMA SoundReactor ==
  ASSUME Sound, Reactor
  PROVE  Sound'
<1> USE DEF Sound, Typed, Cursor, Where, HasJob, loop, pool, resolver, history
<1>1. CASE BeginCalls
  <2>1. Len(calls) \in Nat /\ (calls # <<>> => 0 < Len(calls))
        OBVIOUS
  <2> QED BY <1>1, <2>1 DEF BeginCalls, OnlyAsksAsk
<1>2. CASE MakeCall
  <2>1. count + 1 \in DOMAIN calls /\ calls[count + 1] \in Call
        BY <1>2 DEF MakeCall
  <2>2. answers' \subseteq Asks /\ stopped' \in {"no", "just", "yes"}
        BY <1>2, <2>1 DEF MakeCall, OnlyAsksAsk
  <2>3. /\ UNCHANGED <<back, total, size, calls, waker, q, workers, max, joined, threads, work,
                       accepted, unseen>>
        /\ count' = count + 1 /\ at' = IF count' = total THEN "drop" ELSE "call"
        /\ at = "call"
        BY <1>2 DEF MakeCall
  <2> QED BY <2>2, <2>3 DEF OnlyAsksAsk
<1>3. CASE DropCalls
  <2>1. count \in 0..Len(calls) /\ calls \in Seq(Call)
        BY <1>3 DEF DropCalls
  <2>2. /\ calls' \in Seq(Call)
        /\ \A i \in DOMAIN calls' : i + count \in DOMAIN calls /\ calls'[i] = calls[i + count]
    <3>1. calls' = SubSeq(calls, count + 1, Len(calls))
          BY <1>3 DEF DropCalls, DropMade
    <3>2. /\ calls' \in Seq(Call) /\ DOMAIN calls = 1..Len(calls)
          /\ DOMAIN calls' = 1..(Len(calls) - count)
          /\ \A i \in 1..(Len(calls) - count) : calls'[i] = calls[i + count]
          BY ONLY <2>1, <3>1, SeqRest
    <3> QED BY <2>1, <3>2
  <2>3. OnlyAsksAsk'
        BY <2>2 DEF OnlyAsksAsk
  <2> QED BY <1>3, <2>2, <2>3 DEF DropCalls
<1>4. CASE TimedDone \/ Joined \/ PollReturns \/ SocketEvent
      BY <1>4 DEF TimedDone, Joined, PollReturns, SocketEvent, OnlyAsksAsk
<1>7. CASE Measure
  <2>1. Len(q) \in Nat
        OBVIOUS
  <2> QED BY <1>7, <2>1 DEF Measure, OnlyAsksAsk
<1>5. CASE StopPool
  <2>1. q' \in Seq(Job \cup {"stop"})
        BY <1>5, SeqStops DEF StopPool, OneSentinelEach
  <2> QED BY <1>5, <2>1 DEF StopPool, OnlyAsksAsk
<1>6. CASE Grow
  <2>1. Needed \in Nat /\ max \in Nat
    <3>1. IsFiniteSet(Is({"working", "ask", "wakeask", "asked"}))
          BY ThreadsAssumption, FS_Subset DEF Is
    <3> QED BY <3>1, FS_CardinalityType, ThreadsAssumption DEF Needed
  <2>2. workers' \in Nat /\ unseen' \in BOOLEAN
        BY <1>6, <2>1 DEF Grow
  <2>3. /\ threads' \in [Worker -> Place]
        /\ \A w \in Worker : threads'[w] \in {threads[w], "get"}
        BY <1>6 DEF Grow, Place
  <2> QED BY <1>6, <2>2, <2>3 DEF Grow, OnlyAsksAsk
<1> QED
    BY <1>1, <1>2, <1>3, <1>4, <1>5, <1>6, <1>7 DEF Reactor, MainLoop, StartWorkers

LEMMA SoundNext == Sound /\ [Next]_vars => Sound'
<1> SUFFICES ASSUME Sound, [Next]_vars
             PROVE  Sound'
    OBVIOUS
<1> USE DEF Sound, Typed, Cursor, Where, UserCode, HasJob, loop, pool, resolver, history
<1>1. ASSUME NEW j \in Job, Submit(j)
      PROVE  Sound'
  <2>1. q' \in Seq(Job \cup {"stop"})
        BY <1>1, SeqAppend DEF Submit
  <2> QED BY <1>1, <2>1 DEF Submit, OnlyAsksAsk
<1>2. ASSUME NEW n \in Sizes, Resize(n)
      PROVE  Sound'
  <2>1. n \in Nat
        BY ThreadsAssumption
  <2>2. PICK surplus : /\ surplus = IF workers > n THEN workers - n ELSE 0
                       /\ q' = q \o [i \in 1..surplus |-> "stop"]
                       /\ workers' = workers - surplus
        BY <1>2, Zenon DEF Resize
  <2>3. surplus \in Nat /\ workers' \in Nat
        BY <2>1, <2>2
  <2>4. q' \in Seq(Job \cup {"stop"})
        BY <2>2, <2>3, SeqStops
  <2> QED BY <1>2, <2>3, <2>4 DEF Resize, OnlyAsksAsk
<1>3. CASE Stop
      BY <1>3 DEF Stop, OnlyAsksAsk
<1>4. CASE SigInt
  <2>1. calls' \in Seq(Call) /\ OnlyAsksAsk' /\ Len(calls') = Len(calls) + 1 /\ Len(calls) \in Nat
        BY <1>4, CallTypes, Queued DEF SigInt
  <2> QED BY <1>4, <2>1 DEF SigInt
<1>5. ASSUME NEW j \in Lookup, Timeout(j)
      PROVE  Sound'
      BY <1>5 DEF Timeout, OnlyAsksAsk
<1>6. CASE UNCHANGED vars
      BY <1>6 DEF vars, OnlyAsksAsk
<1> QED
    BY <1>1, <1>2, <1>3, <1>4, <1>5, <1>6, SoundReactor, SoundPool DEF Next, User

-----------------------------------------------------------------------------
\* A job that was accepted is in one place: the pool's queue, a thread, or
\* threadCallQueue, until its Deferred is fired; then it is in none.

InQueue(j) == {i \in DOMAIN q : q[i] = j}
InThreads(j) == {w \in Busy \cup Is({"report"}) : work[w] = j}
One(S) == \E x : S = {x}
Nowhere(j) == InQueue(j) = {} /\ InThreads(j) = {} /\ Undelivered(j) = {}
OnePlace(j) ==
  \/ One(InQueue(j)) /\ InThreads(j) = {} /\ Undelivered(j) = {}
  \/ InQueue(j) = {} /\ One(InThreads(j)) /\ Undelivered(j) = {}
  \/ InQueue(j) = {} /\ InThreads(j) = {} /\ One(Undelivered(j))
FiredNot(j) == j \notin Lookup => fired[j] = 0
FiredOnce(j) == IF j \in Lookup THEN j \notin queries ELSE fired[j] = 1

Placed(j) ==
  \/ j \notin accepted /\ Nowhere(j) /\ FiredNot(j)
  \/ j \in accepted /\ OnePlace(j) /\ FiredNot(j)
  \/ j \in accepted /\ Nowhere(j) /\ FiredOnce(j)

AllPlaced == Sound /\ Answered /\ \A j \in Job : Placed(j)

AtWork == {"got", "working", "ask", "wakeask", "asked", "report"}

\* A set of indices that moves stays as large as it is.
LEMMA Shifted ==
  ASSUME NEW S \in SUBSET Int, NEW T \in SUBSET Int, NEW n \in Int,
         \A i \in T : i + n \in S, \A i \in S : i - n \in T
  PROVE  (S = {} => T = {}) /\ (One(S) => One(T))
<1>1. ASSUME NEW x, S = {x}
      PROVE  T = {x - n}
  <2>1. x \in Int
        BY <1>1
  <2>2. \A i \in T : i = x - n
        BY <1>1, <2>1
  <2> QED BY <1>1, <2>2
<1> QED BY <1>1 DEF One

\* Each of the three places holds the job after the step as often as before.
LEMMA PlaceKept ==
  ASSUME NEW j \in Job, Placed(j), UNCHANGED accepted, queries' \subseteq queries,
         j \notin Lookup => fired'[j] = fired[j],
         InQueue(j) = {} => InQueue(j)' = {}, One(InQueue(j)) => One(InQueue(j)'),
         InThreads(j)' = InThreads(j),
         Undelivered(j) = {} => Undelivered(j)' = {},
         One(Undelivered(j)) => One(Undelivered(j)')
  PROVE  Placed(j)'
<1>1. /\ Nowhere(j) => Nowhere(j)'
      /\ OnePlace(j) => OnePlace(j)'
      BY DEF Nowhere, OnePlace
<1>2. /\ FiredNot(j) => FiredNot(j)'
      /\ FiredOnce(j) => FiredOnce(j)'
      BY DEF FiredNot, FiredOnce
<1> QED BY <1>1, <1>2 DEF Placed

LEMMA ThreadsKept ==
  ASSUME NEW j,
         \A w \in Worker : /\ threads'[w] \in AtWork <=> threads[w] \in AtWork
                           /\ threads[w] \in AtWork => work'[w] = work[w]
  PROVE  InThreads(j)' = InThreads(j)
<1>1. /\ InThreads(j) = {w \in Worker : threads[w] \in AtWork /\ work[w] = j}
      /\ InThreads(j)' = {w \in Worker : threads'[w] \in AtWork /\ work'[w] = j}
      BY DEF InThreads, Busy, Is, AtWork
<1> QED BY <1>1

LEMMA CallsKept ==
  ASSUME NEW j, UNCHANGED <<calls, count>>
  PROVE  Undelivered(j)' = Undelivered(j)
BY DEF Undelivered

\* A call that is queued is delivered after the ones before it.
LEMMA CallAdded ==
  ASSUME Sound, NEW c \in Call, c.what = "ask" => c.job \in Asks,
         calls' = Append(calls, c), UNCHANGED count, NEW j
  PROVE  Undelivered(j)' = Undelivered(j) \cup (IF c = Result(j) THEN {Len(calls) + 1} ELSE {})
<1>1. /\ DOMAIN calls = 1..Len(calls) /\ Len(calls) \in Nat
      /\ DOMAIN calls' = 1..(Len(calls) + 1) /\ calls'[Len(calls) + 1] = c
      /\ \A i \in 1..Len(calls) : calls'[i] = calls[i]
      BY Queued
<1>2. Len(calls) + 1 > count
      BY <1>1 DEF Sound, Typed, Cursor
<1>3. \A i \in DOMAIN calls' : i \in DOMAIN calls \/ i = Len(calls) + 1
      BY <1>1
<1>4. Len(calls) + 1 \notin DOMAIN calls /\ Len(calls) + 1 \in DOMAIN calls'
      BY <1>1
<1>5. \A i : i \in Undelivered(j)' <=> i \in Undelivered(j) \/ (i = Len(calls) + 1 /\ c = Result(j))
  <2>1. ASSUME NEW i \in DOMAIN calls
        PROVE  i \in Undelivered(j)' <=> i \in Undelivered(j)
        BY <1>1, <2>1, Result(j)' = Result(j) DEF Undelivered
  <2>2. Len(calls) + 1 \in Undelivered(j)' <=> c = Result(j)
        BY <1>1, <1>2, <1>4 DEF Undelivered, Result
  <2>3. \A i : i \in Undelivered(j) => i \in DOMAIN calls
        BY DEF Undelivered
  <2>4. \A i : i \in Undelivered(j)' => i \in DOMAIN calls'
        BY DEF Undelivered
  <2> QED BY <1>3, <1>4, <2>1, <2>2, <2>3, <2>4
<1> QED BY <1>5

\* WorkerStops are no jobs.
LEMMA StopsAdded ==
  ASSUME Sound, NEW n \in Nat, q' = q \o [i \in 1..n |-> "stop"], NEW j \in Job
  PROVE  InQueue(j)' = InQueue(j)
<1>1. /\ DOMAIN q = 1..Len(q) /\ Len(q) \in Nat /\ DOMAIN q' = 1..(Len(q) + n)
      /\ \A k \in 1..(Len(q) + n) : q'[k] = IF k <= Len(q) THEN q[k] ELSE "stop"
      BY SeqStops DEF Sound, Typed
<1>2. j # "stop"
      BY ThreadsAssumption
<1> QED BY <1>1, <1>2 DEF InQueue

\* A thread takes the job at the head of the queue, or a WorkerStop.
LEMMA PlacedTake ==
  ASSUME AllPlaced, NEW w \in Worker, Take(w), NEW j \in Job
  PROVE  Placed(j)'
<1>1. /\ q \in Seq(Job \cup {"stop"}) /\ q # <<>> /\ q' = Tail(q)
      /\ threads \in [Worker -> Place] /\ work \in [Worker -> Job \cup {"nobody"}]
      /\ threads[w] = "get" /\ j # "stop"
      /\ UNCHANGED <<at, total, count, calls, queries, fired, accepted>>
      BY ThreadsAssumption DEF AllPlaced, Sound, Typed, Take, Goes, loop, resolver, history
<1>2. /\ Head(q) = q[1] /\ Len(q) \in Nat \ {0} /\ DOMAIN q = 1..Len(q)
      /\ DOMAIN q' = 1..(Len(q) - 1) /\ \A i \in 1..(Len(q) - 1) : q'[i] = q[i + 1]
      BY <1>1, SeqTail
<1>3. Undelivered(j)' = Undelivered(j)
      BY <1>1, CallsKept
<1>4. \A v \in Worker \ {w} : threads'[v] = threads[v] /\ work'[v] = work[v]
      BY <1>1 DEF Take, Goes
<1>5. \A i : i \in InQueue(j)' <=> i \in 1..(Len(q) - 1) /\ q[i + 1] = j
      BY <1>2 DEF InQueue
<1>6. \A i : i \in InQueue(j) <=> i \in 1..Len(q) /\ q[i] = j
      BY <1>2 DEF InQueue
<1>7. CASE q[1] = j
  <2>1. 1 \in InQueue(j)
        BY <1>2, <1>6, <1>7
  <2>2. j \in accepted /\ InQueue(j) = {1} /\ InThreads(j) = {} /\ Undelivered(j) = {} /\ FiredNot(j)
        BY <2>1 DEF AllPlaced, Placed, OnePlace, Nowhere, One
  <2>3. InQueue(j)' = {}
        BY <1>2, <1>5, <1>6, <2>2
  <2>4. threads'[w] = "got" /\ work'[w] = j
        BY <1>1, <1>2, <1>7 DEF Take, Goes
  <2>5. InThreads(j)' = {w}
        BY <1>4, <2>2, <2>4 DEF InThreads, Busy, Is
  <2>6. OnePlace(j)'
        BY <1>3, <2>2, <2>3, <2>5 DEF OnePlace, One
  <2> QED BY <1>1, <2>2, <2>6 DEF Placed, FiredNot
<1>8. CASE q[1] # j
  <2>1. \A i \in InQueue(j)' : i + 1 \in InQueue(j)
        BY <1>2, <1>5, <1>6
  <2>2. \A i \in InQueue(j) : i - 1 \in InQueue(j)'
    <3>1. ASSUME NEW i \in InQueue(j)
          PROVE  i - 1 \in 1..(Len(q) - 1) /\ (i - 1) + 1 = i
          BY <1>2, <1>6, <1>8
    <3> QED BY <1>5, <1>6, <3>1
  <2>3. InQueue(j) \in SUBSET Int /\ InQueue(j)' \in SUBSET Int
        BY <1>5, <1>6
  <2>4. /\ InQueue(j) = {} => InQueue(j)' = {}
        /\ One(InQueue(j)) => One(InQueue(j)')
    <3>1. PICK S \in SUBSET Int, T \in SUBSET Int : S = InQueue(j) /\ T = InQueue(j)'
          BY <2>3
    <3>2. (\A i \in T : i + 1 \in S) /\ (\A i \in S : i - 1 \in T)
          BY <2>1, <2>2, <3>1
    <3>3. (S = {} => T = {}) /\ (One(S) => One(T))
          BY ONLY <3>2, Shifted, 1 \in Int
    <3> QED BY <3>1, <3>3
  <2>5. threads'[w] = "quit" \/ (threads'[w] = "got" /\ work'[w] # j)
        BY <1>1, <1>2, <1>8 DEF Take, Goes
  <2>6. InThreads(j)' = InThreads(j)
        BY <1>1, <1>4, <2>5 DEF InThreads, Busy, Is
  <2> QED BY <1>1, <1>3, <2>4, <2>6, PlaceKept DEF AllPlaced
<1> QED BY <1>7, <1>8

LEMMA PlacedReport ==
  ASSUME AllPlaced, NEW w \in Worker, Report(w), NEW j \in Job
  PROVE  Placed(j)'
<1>1. /\ threads \in [Worker -> Place] /\ work \in [Worker -> Job \cup {"nobody"}]
      /\ threads[w] = "report" /\ threads'[w] = "wake" /\ work[w] \in Job
      /\ calls' = Append(calls, Result(work[w]))
      /\ UNCHANGED <<at, count, q, queries, fired, accepted>>
      /\ \A v \in Worker \ {w} : threads'[v] = threads[v] /\ work'[v] = work[v]
      BY DEF AllPlaced, Sound, Typed, HasJob, Report, Goes, Queues, loop, pool, resolver,
             history
<1>2. /\ Result(work[w]) \in Call /\ Result(work[w]).what = "result"
      /\ Result(work[w]) = Result(j) <=> work[w] = j
      BY <1>1, CallTypes DEF Result
<1>3. Undelivered(j)' = Undelivered(j) \cup (IF work[w] = j THEN {Len(calls) + 1} ELSE {})
  <2>1. PICK c \in Call : c = Result(work[w])
        BY <1>2
  <2>2. Undelivered(j)' = Undelivered(j) \cup (IF c = Result(j) THEN {Len(calls) + 1} ELSE {})
        BY <1>1, <1>2, <2>1, CallAdded DEF AllPlaced
  <2> QED BY <1>2, <2>1, <2>2
<1>4. InQueue(j)' = InQueue(j)
      BY <1>1 DEF InQueue
<1>5. CASE work[w] = j
  <2>1. w \in InThreads(j)
        BY <1>1, <1>5 DEF InThreads, Is
  <2>2. j \in accepted /\ InQueue(j) = {} /\ InThreads(j) = {w} /\ Undelivered(j) = {} /\ FiredNot(j)
        BY <2>1 DEF AllPlaced, Placed, OnePlace, Nowhere, One
  <2>3. InThreads(j)' = {}
        BY <1>1, <2>2 DEF InThreads, Busy, Is
  <2>4. OnePlace(j)'
        BY <1>3, <1>4, <1>5, <2>2, <2>3 DEF OnePlace, One
  <2> QED BY <1>1, <2>2, <2>4 DEF Placed, FiredNot
<1>6. CASE work[w] # j
  <2>1. InThreads(j)' = InThreads(j)
        BY <1>1, <1>6 DEF InThreads, Busy, Is
  <2> QED BY <1>1, <1>3, <1>4, <1>6, <2>1, PlaceKept DEF AllPlaced
<1> QED BY <1>5, <1>6

\* The call that is made is delivered: if it is the result of j, j is nowhere
\* any more and its Deferred was fired.
LEMMA PlacedMakeCall ==
  ASSUME AllPlaced, MakeCall, NEW j \in Job
  PROVE  Placed(j)'
<1>1. /\ at = "call" /\ at' \in {"call", "drop"} /\ count' = count + 1 /\ count \in Nat
      /\ UNCHANGED <<calls, q, threads, work, accepted>>
      BY DEF AllPlaced, Sound, Typed, MakeCall, pool, history
<1>2. count + 1 \in DOMAIN calls
      BY DEF AllPlaced, Sound, Typed, Cursor, Where, MakeCall
<1>3. PICK c \in Call : c = calls[count + 1]
      BY <1>2 DEF AllPlaced, Sound, Typed
<1>4. InQueue(j)' = InQueue(j) /\ InThreads(j)' = InThreads(j)
      BY <1>1 DEF InQueue, InThreads, Busy, Is
<1>5. Undelivered(j)' = Undelivered(j) \ {count + 1}
  <2>1. /\ Undelivered(j) = {i \in DOMAIN calls : calls[i] = Result(j) /\ i > count}
        /\ Undelivered(j)' = {i \in DOMAIN calls : calls[i] = Result(j) /\ i > count + 1}
        BY <1>1 DEF Undelivered, Result
  <2>2. DOMAIN calls \subseteq Nat
        BY DEF AllPlaced, Sound, Typed
  <2>3. \A i \in DOMAIN calls : i > count + 1 <=> i > count /\ i # count + 1
        BY <1>1, <2>2
  <2> QED BY <2>1, <2>3
<1>6. \/ c.what = "result" /\ Fire(c.job)
      \/ c.what # "result" /\ UNCHANGED <<queries, fired>>
      BY <1>3 DEF MakeCall, resolver
<1>7. fired \in [Job -> Nat] /\ queries \subseteq Lookup
      BY DEF AllPlaced, Answered
<1>8. CASE c = Result(j)
  <2>1. c.what = "result" /\ c.job = j
        BY <1>8 DEF Result
  <2>2. count + 1 \in Undelivered(j)
    <3>1. count + 1 > count /\ calls[count + 1] = Result(j)
          BY <1>1, <1>3, <1>8
    <3> QED BY <1>2, <3>1, Zenon DEF Undelivered
  <2>3. /\ j \in accepted /\ InQueue(j) = {} /\ InThreads(j) = {}
        /\ Undelivered(j) = {count + 1} /\ FiredNot(j)
        BY <2>2 DEF AllPlaced, Placed, OnePlace, Nowhere, One
  <2>4. Fire(j)
        BY <1>6, <2>1
  <2>5. FiredOnce(j)'
        BY <1>7, <2>3, <2>4 DEF FiredOnce, FiredNot, Fire
  <2>6. Nowhere(j)'
        BY <1>4, <1>5, <2>3 DEF Nowhere
  <2> QED BY <1>1, <2>3, <2>5, <2>6 DEF Placed
<1>9. CASE c # Result(j)
  <2>1. Undelivered(j)' = Undelivered(j)
        BY <1>3, <1>5, <1>9 DEF Undelivered
  <2>2. c.what = "result" => c.job \in Job /\ c.job # j
        BY <1>9, CallTypes
  <2>3. queries' \subseteq queries /\ fired'[j] = fired[j]
        BY <1>6, <1>7, <2>2 DEF Fire
  <2> QED BY <1>1, <1>4, <2>1, <2>3, PlaceKept DEF AllPlaced
<1> QED BY <1>8, <1>9

\* The calls that were made are cut off; the ones behind them move up.
LEMMA DropKeeps ==
  ASSUME Sound, DropCalls, NEW j \in Job
  PROVE  /\ Undelivered(j) = {} <=> Undelivered(j)' = {}
         /\ One(Undelivered(j)) => One(Undelivered(j)')
<1>1. /\ at = "drop" /\ count' = 0 /\ calls \in Seq(Call) /\ count \in 0..Len(calls)
      /\ calls' = SubSeq(calls, count + 1, Len(calls))
      BY DEF Sound, Typed, Cursor, Where, DropCalls, DropMade
<1>2. /\ DOMAIN calls = 1..Len(calls) /\ Len(calls) \in Nat /\ count \in Nat
      /\ DOMAIN calls' = 1..(Len(calls) - count)
      /\ \A i \in 1..(Len(calls) - count) : calls'[i] = calls[i + count]
      BY <1>1, SeqRest
<1>3. \A i : i \in Undelivered(j) <=> i \in 1..Len(calls) /\ calls[i] = Result(j) /\ i > count
      BY <1>1, <1>2 DEF Undelivered
<1>4. \A i : i \in Undelivered(j)'
               <=> i \in 1..(Len(calls) - count) /\ calls[i + count] = Result(j)
      BY <1>1, <1>2 DEF Undelivered, Result
<1>5. \A i \in Undelivered(j)' : i + count \in Undelivered(j)
      BY <1>2, <1>3, <1>4
<1>6. \A i \in Undelivered(j) : i - count \in Undelivered(j)'
  <2>1. ASSUME NEW i \in Undelivered(j)
        PROVE  i - count \in 1..(Len(calls) - count) /\ (i - count) + count = i
        BY <1>2, <1>3
  <2> QED BY <1>3, <1>4, <2>1
<1>7. /\ Undelivered(j) = {} => Undelivered(j)' = {}
      /\ One(Undelivered(j)) => One(Undelivered(j)')
  <2>1. PICK S \in SUBSET Int, T \in SUBSET Int : S = Undelivered(j) /\ T = Undelivered(j)'
        BY <1>3, <1>4
  <2>2. PICK n \in Int : n = count
        BY <1>2
  <2>3. (\A i \in T : i + n \in S) /\ (\A i \in S : i - n \in T)
        BY <1>5, <1>6, <2>1, <2>2
  <2>4. (S = {} => T = {}) /\ (One(S) => One(T))
        BY ONLY <2>3, Shifted
  <2> QED BY <2>1, <2>4
<1>8. Undelivered(j)' = {} => Undelivered(j) = {}
      BY <1>6
<1> QED BY <1>7, <1>8

LEMMA PlacedDropCalls ==
  ASSUME AllPlaced, DropCalls, NEW j \in Job
  PROVE  Placed(j)'
<1>1. UNCHANGED <<q, threads, work, accepted, queries, fired>>
      BY DEF DropCalls, pool, history, resolver
<1>2. InQueue(j)' = InQueue(j) /\ InThreads(j)' = InThreads(j)
      BY <1>1 DEF InQueue, InThreads, Busy, Is
<1> QED BY <1>1, <1>2, DropKeeps, PlaceKept DEF AllPlaced

LEMMA PlacedSubmit ==
  ASSUME AllPlaced, NEW k \in Job, Submit(k), NEW j \in Job
  PROVE  Placed(j)'
<1>1. /\ q \in Seq(Job \cup {"stop"}) /\ q' = Append(q, k)
      /\ k \notin accepted /\ accepted' = accepted \cup {k}
      /\ queries' = queries \cup ({k} \cap Lookup)
      /\ UNCHANGED <<count, calls, threads, work, fired>>
      BY DEF AllPlaced, Sound, Typed, Submit
<1>2. /\ DOMAIN q = 1..Len(q) /\ Len(q) \in Nat /\ DOMAIN q' = 1..(Len(q) + 1)
      /\ \A i \in 1..Len(q) : q'[i] = q[i]
      /\ q'[Len(q) + 1] = k
  <2>1. PICK e \in Job \cup {"stop"} : e = k
        OBVIOUS
  <2> QED BY <1>1, <2>1, SeqAppend
<1>3. Undelivered(j)' = Undelivered(j) /\ InThreads(j)' = InThreads(j)
      BY <1>1 DEF Undelivered, InThreads, Busy, Is
<1>4. InQueue(j)' = InQueue(j) \cup (IF j = k THEN {Len(q) + 1} ELSE {})
      BY <1>2 DEF InQueue
<1>5. CASE j = k
  <2>1. Nowhere(j) /\ FiredNot(j)
        BY <1>1, <1>5 DEF AllPlaced, Placed
  <2>2. OnePlace(j)'
        BY <1>3, <1>4, <1>5, <2>1 DEF OnePlace, Nowhere, One
  <2> QED BY <1>1, <1>5, <2>1, <2>2 DEF Placed, FiredNot
<1>6. CASE j # k
  <2>1. /\ Nowhere(j) => Nowhere(j)'
        /\ OnePlace(j) => OnePlace(j)'
        BY <1>3, <1>4, <1>6 DEF Nowhere, OnePlace
  <2> QED BY <1>1, <1>6, <2>1 DEF AllPlaced, Placed, FiredNot, FiredOnce
<1> QED BY <1>5, <1>6

\* The steps that move no job.
LEMMA PlacesKept ==
  ASSUME Sound, NEW j \in Job,
         \/ BeginCalls \/ TimedDone \/ StopPool \/ Joined \/ PollReturns \/ SocketEvent
         \/ Measure \/ Grow
         \/ \E n \in Sizes : Resize(n)
         \/ Stop \/ SigInt \/ UNCHANGED vars
         \/ \E k \in Lookup : Timeout(k)
         \/ \E w \in Worker : \/ Begin(w) \/ AskReactor(w) \/ AwaitAnswer(w)
                              \/ GetAnswer(w) \/ Finish(w) \/ GoOn(w) \/ Quit(w)
  PROVE  /\ InThreads(j)' = InThreads(j) /\ InQueue(j)' = InQueue(j)
         /\ Undelivered(j)' = Undelivered(j)
<1> USE DEF loop, pool, resolver, history
<1>1. Sound
      OBVIOUS
<1>2. InThreads(j)' = InThreads(j)
  <2>1. CASE UNCHANGED <<threads, work>>
        BY <2>1 DEF InThreads, Busy, Is
  <2>2. CASE Grow
    <3>1. /\ UNCHANGED work
          /\ \A w \in Worker : \/ threads'[w] = threads[w]
                               \/ threads[w] = "none" /\ threads'[w] = "get"
      <4>1. PICK new \in SUBSET Is({"none"}) :
                   threads' = [w \in Worker |-> IF w \in new THEN "get" ELSE threads[w]]
            BY <2>2 DEF Grow, Fresh
      <4> QED BY <2>2, <4>1 DEF Grow, Is
    <3> QED BY <3>1, ThreadsKept DEF AtWork
  <2>3. ASSUME NEW w \in Worker,
               \/ Begin(w) \/ AskReactor(w) \/ AwaitAnswer(w) \/ Finish(w) \/ GoOn(w)
               \/ GetAnswer(w) \/ Quit(w)
        PROVE  InThreads(j)' = InThreads(j)
    <3>1. PICK from, to : /\ Goes(w, from, to) /\ UNCHANGED work
                          /\ from \in AtWork <=> to \in AtWork
          BY <2>3
          DEF Begin, AskReactor, AwaitAnswer, GetAnswer, Finish, GoOn, Quit, Wakes, AtWork
    <3>2. threads \in [Worker -> Place]
          BY <1>1 DEF Sound, Typed
    <3> QED BY <3>1, <3>2, ThreadsKept DEF Goes
  <2> QED
      BY <2>1, <2>2, <2>3
      DEF BeginCalls, TimedDone, StopPool, Joined, PollReturns, SocketEvent, Measure,
          Resize, Stop, SigInt, vars, Timeout
<1>3. InQueue(j)' = InQueue(j)
  <2>1. CASE UNCHANGED q
        BY <2>1 DEF InQueue
  <2>2. CASE StopPool
        BY <1>1, <2>2, StopsAdded DEF StopPool, OneSentinelEach, Sound, Typed
  <2>3. ASSUME NEW n \in Sizes, Resize(n)
        PROVE  InQueue(j)' = InQueue(j)
    <3>1. PICK surplus : /\ surplus = IF workers > n THEN workers - n ELSE 0
                         /\ q' = q \o [i \in 1..surplus |-> "stop"]
          BY <2>3, Zenon DEF Resize
    <3>2. surplus \in Nat
          BY <1>1, <3>1, ThreadsAssumption DEF Sound, Typed
    <3> QED BY <1>1, <3>1, <3>2, StopsAdded
  <2> QED
      BY <2>1, <2>2, <2>3
      DEF BeginCalls, TimedDone, Joined, PollReturns, SocketEvent, Measure, Grow, Stop,
          SigInt, vars, Timeout, Begin, AskReactor, AwaitAnswer, GetAnswer, Finish, GoOn, Quit, Queues,
          Wakes
<1>4. Undelivered(j)' = Undelivered(j)
  <2>1. CASE BeginCalls
    <3>1. count = 0 /\ UNCHANGED <<calls, count>>
          BY <1>1, <2>1 DEF Sound, Cursor, Where, BeginCalls
    <3> QED BY <3>1, CallsKept
  <2>2. CASE SigInt
    <3>1. StopCall # Result(j)
          BY CallTypes, StopCall.what # Result(j).what DEF StopCall, Result
    <3>2. PICK c \in Call : c = StopCall /\ c.what # "ask"
          BY CallTypes
    <3> QED BY <1>1, <2>2, <3>1, <3>2, CallAdded DEF SigInt
  <2>3. ASSUME NEW w \in Worker, AskReactor(w)
        PROVE  Undelivered(j)' = Undelivered(j)
    <3>1. work[w] \in Asks
          BY <1>1, <2>3 DEF Sound, HasJob, AskReactor, Goes
    <3>2. PICK c \in Call : c = Ask(work[w]) /\ c.job \in Asks /\ c.what = "ask"
          BY <3>1, CallTypes, ThreadsAssumption
    <3>3. c # Result(j)
          BY <3>2, CallTypes
    <3> QED BY <1>1, <2>3, <3>2, <3>3, CallAdded DEF AskReactor, Queues
  <2>4. CASE UNCHANGED <<calls, count>>
        BY <2>4, CallsKept
  <2> QED
      BY <2>1, <2>2, <2>3, <2>4
      DEF TimedDone, StopPool, Joined, PollReturns, SocketEvent, Measure, Grow, Resize, Stop, vars,
          Timeout, Begin, AwaitAnswer, GetAnswer, Finish, GoOn, Quit, Wakes
<1> QED BY <1>2, <1>3, <1>4

LEMMA PlacedOthers ==
  ASSUME AllPlaced, NEW j \in Job,
         \/ BeginCalls \/ TimedDone \/ StopPool \/ Joined \/ PollReturns \/ SocketEvent
         \/ Measure \/ Grow
         \/ \E n \in Sizes : Resize(n)
         \/ Stop \/ SigInt \/ UNCHANGED vars
         \/ \E k \in Lookup : Timeout(k)
         \/ \E w \in Worker : \/ Begin(w) \/ AskReactor(w) \/ AwaitAnswer(w)
                              \/ GetAnswer(w) \/ Finish(w) \/ GoOn(w) \/ Quit(w)
  PROVE  Placed(j)'
<1> USE DEF loop, pool, resolver, history
<1>1. Placed(j) /\ Sound /\ fired \in [Job -> Nat]
      BY DEF AllPlaced, Answered
<1>2. UNCHANGED accepted /\ queries' \subseteq queries
      /\ (j \notin Lookup => fired'[j] = fired[j])
      BY <1>1
      DEF BeginCalls, TimedDone, StopPool, Joined, PollReturns, SocketEvent, Measure,
          Grow, Resize, Stop, SigInt, vars, Timeout, ForgetQuery, Begin, AskReactor, AwaitAnswer,
          GetAnswer, Finish, GoOn, Quit, Queues, Wakes
<1> QED BY <1>1, <1>2, PlacesKept, PlaceKept

LEMMA PlacedInit == Init => AllPlaced
<1>1. ASSUME Init, NEW j \in Job
      PROVE  Placed(j)
      BY <1>1 DEF Init, Placed, Nowhere, FiredNot, InQueue, InThreads, Undelivered, Busy, Is
<1> QED BY <1>1, SoundInit, AnsweredInit DEF AllPlaced

LEMMA PlacedNext == AllPlaced /\ [Next]_vars => AllPlaced'
<1> SUFFICES ASSUME AllPlaced, [Next]_vars, NEW j \in Job
             PROVE  Placed(j)'
    BY SoundNext, AnsweredNext DEF AllPlaced
<1> QED
    BY PlacedTake, PlacedReport, PlacedMakeCall, PlacedDropCalls, PlacedSubmit, PlacedOthers
    DEF Next, Reactor, MainLoop, StartWorkers, User, Pool

LEMMA PlacedHolds == Spec => []AllPlaced
BY PlacedInit, PlacedNext, PTL DEF Spec

\* No result is lost or doubled between the pool's queue, its threads, the calls
\* for the reactor and the Deferred (threadpool.py:179-197, base.py:787-806),
\* although none of them is locked.
THEOREM OneResultCorrect == Spec => []OneResult
<1>1. AllPlaced => OneResult
  <2> SUFFICES ASSUME AllPlaced, NEW j \in accepted
               PROVE  IF j \in Lookup THEN j \in queries => Places(j) = 1
                      ELSE Places(j) + fired[j] = 1
      BY DEF OneResult
  <2>1. j \in Job /\ Placed(j)
        BY DEF AllPlaced, Sound, Typed
  <2>2. Places(j) = Cardinality(InQueue(j)) + Cardinality(InThreads(j))
                    + Cardinality(Undelivered(j))
        BY DEF Places, InQueue, InThreads
  <2>3. Cardinality({}) = 0 /\ \A x : Cardinality({x}) = 1
        BY FS_EmptySet, FS_Singleton
  <2>4. Nowhere(j) => Places(j) = 0
        BY <2>2, <2>3 DEF Nowhere
  <2>5. OnePlace(j) => Places(j) = 1
    <3>1. ASSUME NEW x, InQueue(j) = {x}, InThreads(j) = {}, Undelivered(j) = {}
          PROVE  Places(j) = 1
      <4>1. Cardinality(InQueue(j)) = 1
            BY <2>3, <3>1
      <4>2. Cardinality({}) = 0
            BY <2>3
      <4> QED BY ONLY <2>2, <3>1, <4>1, <4>2
    <3>2. ASSUME NEW x, InQueue(j) = {}, InThreads(j) = {x}, Undelivered(j) = {}
          PROVE  Places(j) = 1
      <4>1. Cardinality(InThreads(j)) = 1
            BY <2>3, <3>2
      <4>2. Cardinality({}) = 0
            BY <2>3
      <4> QED BY ONLY <2>2, <3>2, <4>1, <4>2
    <3>3. ASSUME NEW x, InQueue(j) = {}, InThreads(j) = {}, Undelivered(j) = {x}
          PROVE  Places(j) = 1
      <4>1. Cardinality(Undelivered(j)) = 1
            BY <2>3, <3>3
      <4>2. Cardinality({}) = 0
            BY <2>3
      <4> QED BY ONLY <2>2, <3>3, <4>1, <4>2
    <3> QED BY <3>1, <3>2, <3>3 DEF OnePlace, One
  <2> QED BY <2>1, <2>4, <2>5 DEF Placed, FiredNot, FiredOnce
<1> QED BY <1>1, PlacedHolds, PTL

\* Every variable keeps its type; no Deferred is fired twice (base.py:787-806,
\* threadpool.py:100-236).
THEOREM TypeCorrect == Spec => []TypeOK
<1>1. AllPlaced => TypeOK
  <2> SUFFICES ASSUME AllPlaced
               PROVE  TypeOK
      OBVIOUS
  <2>1. \A j \in Job : fired[j] \in 0..1
    <3> SUFFICES ASSUME NEW j \in Job
                 PROVE  fired[j] \in 0..1
        OBVIOUS
    <3>1. CASE j \in Lookup
          BY <3>1 DEF AllPlaced, Answered
    <3>2. CASE j \notin Lookup
          BY <3>2 DEF AllPlaced, Placed, FiredNot, FiredOnce
    <3> QED BY <3>1, <3>2
  <2>2. fired \in [Job -> 0..1] /\ queries \subseteq Lookup /\ timers \subseteq Lookup
        BY <2>1 DEF AllPlaced, Answered
  <2> QED BY <2>2 DEF AllPlaced, Sound, Typed, TypeOK
<1> QED BY <1>1, PlacedHolds, PTL

-----------------------------------------------------------------------------
\* How many threads there are, and how many jobs.

Live == Worker \ Is({"none", "quit"})

LEMMA SetsFinite ==
  /\ \A place : IsFiniteSet(Is(place)) /\ IsFiniteSet(Live)
  /\ IsFiniteSet(Busy)
  /\ \A n \in Nat : \A S \in SUBSET (1..n) : IsFiniteSet(S)
<1>1. \A S \in SUBSET Worker : IsFiniteSet(S)
      BY ThreadsAssumption, FS_Subset
<1>2. \A n \in Nat : \A S \in SUBSET (1..n) : IsFiniteSet(S)
  <2> TAKE n \in Nat
  <2> TAKE S \in SUBSET (1..n)
  <2>1. IsFiniteSet(1..n)
        BY FS_Interval
  <2> QED BY <2>1, FS_Subset
<1> QED BY <1>1, <1>2 DEF Is, Live, Busy

\* A set of indices keeps its size when all of them move by one.
LEMMA ShiftedSize ==
  ASSUME NEW S \in SUBSET Int, IsFiniteSet(S),
         NEW T \in SUBSET Int, \A i \in T : i + 1 \in S, \A i \in S : i - 1 \in T
  PROVE  Cardinality(T) = Cardinality(S)
<1> DEFINE f == [i \in S |-> i - 1]
<1>1. f \in [S -> T]
      OBVIOUS
<1>2. \A i, k \in S : f[i] = f[k] => i = k
      OBVIOUS
<1>3. \A i \in T : i + 1 \in S /\ f[i + 1] = i
      OBVIOUS
<1>4. f \in Bijection(S, T)
  <2> HIDE DEF f
  <2> QED BY <1>1, <1>2, <1>3 DEF Bijection, Injection, Surjection, IsInjective
<1>5. ExistsBijection(S, T)
      BY <1>4 DEF ExistsBijection
<1> QED BY <1>5, FS_Bijection

\* n WorkerStops behind the queue are n more.
LEMMA StopsCounted ==
  ASSUME Sound, NEW n \in Nat, q' = q \o [i \in 1..n |-> "stop"]
  PROVE  Cardinality(Sentinels') = Cardinality(Sentinels) + n
<1>1. /\ DOMAIN q = 1..Len(q) /\ Len(q) \in Nat /\ DOMAIN q' = 1..(Len(q) + n)
      /\ \A k \in 1..(Len(q) + n) : q'[k] = IF k <= Len(q) THEN q[k] ELSE "stop"
      BY SeqStops DEF Sound, Typed
<1> DEFINE new == (Len(q) + 1)..(Len(q) + n)
<1>2. Sentinels' = Sentinels \cup new /\ Sentinels \cap new = {}
      BY <1>1 DEF Sentinels
<1>3. IsFiniteSet(Sentinels) /\ Cardinality(Sentinels) \in Nat
      BY <1>1, SetsFinite, FS_CardinalityType DEF Sentinels
<1>4. IsFiniteSet(new) /\ Cardinality(new) = n
  <2>1. Len(q) + 1 \in Int /\ Len(q) + n \in Int
        BY <1>1
  <2>2. IsFiniteSet(new) /\ Cardinality(new)
          = IF Len(q) + 1 > Len(q) + n THEN 0 ELSE (Len(q) + n) - (Len(q) + 1) + 1
        BY <2>1, FS_Interval
  <2> QED BY <1>1, <2>2
<1>5. Cardinality(Sentinels \cup new)
        = Cardinality(Sentinels) + Cardinality(new) - Cardinality(Sentinels \cap new)
      BY <1>3, <1>4, FS_Union
<1>6. Cardinality({}) = 0
      BY FS_EmptySet
<1> HIDE DEF new
<1>7. Cardinality(Sentinels') = Cardinality(Sentinels) + Cardinality(new) - 0
      BY ONLY <1>2, <1>5, <1>6
<1> QED BY <1>3, <1>4, <1>7

Counted == Sound /\ Cardinality(Live) = workers + Cardinality(Sentinels)

LEMMA CountedEquation ==
  /\ WorkersCounted <=> Cardinality(Live) = workers + Cardinality(Sentinels)
  /\ WorkersCounted' <=> Cardinality(Live)' = workers' + Cardinality(Sentinels)'
BY DEF WorkersCounted, Live

LEMMA CountedTake ==
  ASSUME Counted, NEW w \in Worker, Take(w)
  PROVE  WorkersCounted'
<1>1. /\ q \in Seq(Job \cup {"stop"}) /\ q # <<>> /\ q' = Tail(q)
      /\ threads \in [Worker -> Place] /\ threads[w] = "get" /\ UNCHANGED workers
      BY DEF Counted, Sound, Typed, Take, Goes
<1>2. /\ Head(q) = q[1] /\ Len(q) \in Nat \ {0} /\ DOMAIN q = 1..Len(q)
      /\ DOMAIN q' = 1..(Len(q) - 1) /\ \A i \in 1..(Len(q) - 1) : q'[i] = q[i + 1]
      BY <1>1, SeqTail
<1>3. IsFiniteSet(Sentinels) /\ IsFiniteSet(Live)
      BY <1>2, SetsFinite DEF Sentinels
<1>4. \A i : i \in Sentinels' <=> i \in 1..(Len(q) - 1) /\ q[i + 1] = "stop"
      BY <1>2 DEF Sentinels
<1>5. \A i : i \in Sentinels <=> i \in 1..Len(q) /\ q[i] = "stop"
      BY <1>2 DEF Sentinels
<1>6. Cardinality(Sentinels') = Cardinality(Sentinels \ {1})
  <2>0. Sentinels \ {1} \in SUBSET Int /\ Sentinels' \in SUBSET Int
        BY <1>4, <1>5
  <2>1. PICK S \in SUBSET Int, T \in SUBSET Int : S = Sentinels \ {1} /\ T = Sentinels'
        BY <2>0
  <2>2. \A i \in T : i + 1 \in S
        BY <1>2, <1>4, <1>5, <2>1
  <2>3. \A i \in S : i - 1 \in T
        BY <1>2, <1>4, <1>5, <2>1
  <2>4. IsFiniteSet(S)
        BY <1>3, <2>1, FS_Subset
  <2> QED BY <2>1, <2>2, <2>3, <2>4, ShiftedSize
<1>7. CASE q[1] = "stop"
  <2>1. Live' = Live \ {w} /\ w \in Live
        BY <1>1, <1>2, <1>7 DEF Take, Goes, Live, Is
  <2>2. 1 \in Sentinels
        BY <1>2, <1>5, <1>7
  <2>3. /\ Cardinality(Live') = Cardinality(Live) - 1
        /\ Cardinality(Sentinels') = Cardinality(Sentinels) - 1
        BY <1>3, <1>6, <2>1, <2>2, FS_RemoveElement
  <2>4. Cardinality(Sentinels) \in Nat /\ workers \in Nat
        BY <1>3, FS_CardinalityType DEF Counted, Sound, Typed
  <2> QED BY <1>1, <2>3, <2>4, CountedEquation DEF Counted
<1>8. CASE q[1] # "stop"
  <2>1. Live' = Live
        BY <1>1, <1>2, <1>8 DEF Take, Goes, Live, Is
  <2>2. Sentinels \ {1} = Sentinels
        BY <1>5, <1>8
  <2> QED BY <1>1, <1>6, <2>1, <2>2, CountedEquation DEF Counted
<1> QED BY <1>7, <1>8

LEMMA CountedGrow ==
  ASSUME Counted, Grow
  PROVE  WorkersCounted'
<1>1. PICK new \in Fresh(workers' - workers) :
             threads' = [w \in Worker |-> IF w \in new THEN "get" ELSE threads[w]]
      BY DEF Grow
<1>2. /\ new \subseteq Is({"none"}) /\ Cardinality(new) = workers' - workers
      /\ UNCHANGED q /\ threads \in [Worker -> Place]
      BY DEF Fresh, Grow, Counted, Sound, Typed
<1>3. workers \in Nat /\ workers' \in Int
  <2>1. Sound'
        BY SoundReactor DEF Reactor, StartWorkers, Counted
  <2> QED BY <2>1 DEF Counted, Sound, Typed
<1>4. Live' = Live \cup new /\ Live \cap new = {}
      BY <1>1, <1>2 DEF Live, Is
<1>5. IsFiniteSet(Live) /\ IsFiniteSet(new)
      BY <1>2, SetsFinite, FS_Subset
<1>6. /\ Cardinality(Live \cup new)
           = Cardinality(Live) + Cardinality(new) - Cardinality(Live \cap new)
      /\ Cardinality({}) = 0
      BY <1>5, FS_Union, FS_EmptySet
<1>7. Cardinality(Live) \in Nat
      BY <1>5, FS_CardinalityType
<1>8. Sentinels' = Sentinels /\ Cardinality(Sentinels) \in Nat
  <2>1. DOMAIN q = 1..Len(q) /\ Len(q) \in Nat
        BY DEF Counted, Sound, Typed
  <2> QED BY <1>2, <2>1, SetsFinite, FS_CardinalityType DEF Sentinels
<1>9. Cardinality(Live)' = Cardinality(Live) + (workers' - workers)
  <2>1. Cardinality(Live \cup new) = Cardinality(Live) + (workers' - workers) - 0
        BY <1>2, <1>4, <1>6
  <2>2. Cardinality(Live)' = Cardinality(Live \cup new)
        BY <1>4
  <2>3. Cardinality(Live) + (workers' - workers) - 0 = Cardinality(Live) + (workers' - workers)
        BY ONLY <1>3, <1>7
  <2> QED BY ONLY <2>1, <2>2, <2>3
<1> QED BY <1>2, <1>3, <1>8, <1>9, CountedEquation DEF Counted

LEMMA CountedNext == Counted /\ [Next]_vars => Counted'
<1> SUFFICES ASSUME Counted, [Next]_vars
             PROVE  WorkersCounted'
    BY SoundNext DEF Counted, WorkersCounted, Live
<1> USE DEF loop, pool, resolver, history
<1>1. CASE UNCHANGED <<q, workers, Live>>
      BY <1>1 DEF Counted, WorkersCounted, Live, Sentinels
<1>2. q \in Seq(Job \cup {"stop"}) /\ workers \in Nat /\ threads \in [Worker -> Place]
      BY DEF Counted, Sound, Typed
<1>3. Cardinality(Sentinels) \in Nat
  <2>1. DOMAIN q = 1..Len(q) /\ Len(q) \in Nat
        BY <1>2
  <2> QED BY <2>1, SetsFinite, FS_CardinalityType DEF Sentinels
<1>4. ASSUME NEW j \in Job, Submit(j)
      PROVE  WorkersCounted'
  <2>1. /\ DOMAIN q = 1..Len(q) /\ DOMAIN q' = 1..(Len(q) + 1) /\ Len(q) \in Nat
        /\ \A i \in 1..Len(q) : q'[i] = q[i]
        /\ q'[Len(q) + 1] = j
        BY <1>2, <1>4, SeqAppend DEF Submit
  <2>2. j # "stop"
        BY ThreadsAssumption
  <2>3. Sentinels' = Sentinels
        BY <2>1, <2>2 DEF Sentinels
  <2> QED BY <1>4, <2>3 DEF Submit, Counted, WorkersCounted, Live, Is
<1>5. ASSUME NEW n \in Sizes, Resize(n)
      PROVE  WorkersCounted'
  <2>1. PICK surplus : /\ surplus = IF workers > n THEN workers - n ELSE 0
                       /\ q' = q \o [i \in 1..surplus |-> "stop"]
                       /\ workers' = workers - surplus
        BY <1>5, Zenon DEF Resize
  <2>2. surplus \in Nat
        BY <1>2, <2>1, ThreadsAssumption
  <2>3. Cardinality(Sentinels') = Cardinality(Sentinels) + surplus
        BY <2>1, <2>2, StopsCounted DEF Counted
  <2>4. Live' = Live
        BY <1>5 DEF Resize, Live, Is
  <2> QED BY <1>2, <1>3, <2>1, <2>2, <2>3, <2>4, CountedEquation DEF Counted
<1>6. CASE StopPool
  <2>1. Cardinality(Sentinels') = Cardinality(Sentinels) + workers
        BY <1>2, <1>6, StopsCounted DEF StopPool, OneSentinelEach, Counted
  <2>2. Live' = Live /\ workers' = 0
        BY <1>6 DEF StopPool, Live, Is
  <2> QED BY <1>2, <1>3, <2>1, <2>2, CountedEquation DEF Counted
<1>7. ASSUME NEW w \in Worker, Pool(w), ~Take(w)
      PROVE  UNCHANGED <<q, workers, Live>>
  <2>1. PICK from \in Place, to \in Place :
               /\ Goes(w, from, to)
               /\ from \in {"none", "quit"} <=> to \in {"none", "quit"}
        BY <1>7
        DEF Pool, Begin, AskReactor, AwaitAnswer, GetAnswer, Finish, Report, GoOn, Quit,
            Wakes, Place
  <2>2. UNCHANGED Live
        BY <1>2, <2>1 DEF Goes, Live, Is
  <2> QED
      BY <1>7, <2>2
      DEF Pool, Begin, AskReactor, AwaitAnswer, GetAnswer, Finish, Report, GoOn, Quit,
          Wakes, Queues
<1>8. CASE \/ BeginCalls \/ MakeCall \/ DropCalls \/ TimedDone \/ Joined \/ PollReturns
           \/ SocketEvent \/ Measure \/ Stop \/ SigInt \/ UNCHANGED vars \/ \E j \in Lookup : Timeout(j)
  <2>1. UNCHANGED <<q, workers, threads>>
        BY <1>8
        DEF BeginCalls, MakeCall, DropCalls, TimedDone, Joined, PollReturns, SocketEvent,
            Measure, Stop, SigInt, vars, Timeout
  <2> QED BY <1>1, <2>1 DEF Live, Is
<1> QED
    BY <1>1, <1>4, <1>5, <1>6, <1>7, <1>8, CountedTake, CountedGrow
    DEF Next, Reactor, MainLoop, StartWorkers, User

LEMMA CountedInit == Init => Counted
<1> SUFFICES ASSUME Init
             PROVE  Cardinality(Live) = workers + Cardinality(Sentinels)
    BY SoundInit DEF Counted
<1>1. Live = {} /\ Sentinels = {} /\ workers = 0
      BY DEF Init, Live, Is, Sentinels
<1> QED BY <1>1, FS_EmptySet

\* `workers' counts the threads that no WorkerStop is meant for, through every
\* start, shrinking and stop of the pool (threadpool.py:104, :120, :228-230).
THEOREM WorkersCountedCorrect == Spec => []WorkersCounted
<1>1. Counted => WorkersCounted
      BY DEF Counted, WorkersCounted, Live
<1> QED BY <1>1, CountedInit, CountedNext, PTL DEF Spec

\* Every job waiting has its thread; the size that _startSomeWorkers has read
\* covers the jobs that still wait.
Enough ==
  /\ EnoughThreads
  /\ at = "grow" => Cardinality(Jobs(q)) <= size

LEMMA JobsWaiting ==
  ASSUME Sound
  PROVE  /\ IsFiniteSet(Jobs(q)) /\ Cardinality(Jobs(q)) \in Nat
         /\ Cardinality(Jobs(q)) <= Len(q) /\ Len(q) \in Nat
         /\ Cardinality(Busy) \in Nat
<1>1. q \in Seq(Job \cup {"stop"}) /\ Len(q) \in Nat /\ DOMAIN q = 1..Len(q)
      BY DEF Sound, Typed
<1>2. PICK R : R = {q[i] : i \in DOMAIN q}
      OBVIOUS
<1>3. q \in Surjection(1..Len(q), R)
  <2>1. q \in [1..Len(q) -> R]
        BY <1>1, <1>2
  <2>2. \A r \in R : \E i \in 1..Len(q) : q[i] = r
        BY <1>1, <1>2
  <2> QED BY ONLY <2>1, <2>2 DEF Surjection
<1>4. IsFiniteSet(1..Len(q)) /\ Cardinality(1..Len(q)) = Len(q)
  <2>1. /\ IsFiniteSet(1..Len(q))
        /\ Cardinality(1..Len(q)) = IF 1 > Len(q) THEN 0 ELSE Len(q) - 1 + 1
        BY <1>1, FS_Interval
  <2> QED BY <1>1, <2>1
<1>5. IsFiniteSet(R) /\ Cardinality(R) <= Len(q)
      BY <1>3, <1>4, FS_Surjection
<1>6. Jobs(q) \in SUBSET R
      BY <1>2 DEF Jobs
<1>7. /\ IsFiniteSet(Jobs(q)) /\ Cardinality(Jobs(q)) <= Cardinality(R)
      /\ Cardinality(Jobs(q)) \in Nat /\ Cardinality(R) \in Nat
      BY <1>5, <1>6, FS_Subset, FS_CardinalityType
<1>8. Cardinality(Busy) \in Nat
      BY SetsFinite, FS_CardinalityType
<1>9. Cardinality(Jobs(q)) <= Len(q)
      BY ONLY <1>1, <1>5, <1>7
<1> QED BY <1>1, <1>7, <1>8, <1>9

\* The job at the head of the queue is nowhere else in it.
LEMMA EnoughTake ==
  ASSUME AllPlaced, Enough, NEW w \in Worker, Take(w)
  PROVE  Enough'
<1>1. /\ q \in Seq(Job \cup {"stop"}) /\ q # <<>> /\ q' = Tail(q)
      /\ threads \in [Worker -> Place] /\ threads[w] = "get"
      /\ UNCHANGED <<at, size, joined, unseen, workers, max>>
      BY DEF AllPlaced, Sound, Typed, Take, Goes, loop, history
<1>2. /\ Head(q) = q[1] /\ q[1] \in Job \cup {"stop"} /\ Len(q) \in Nat \ {0}
      /\ DOMAIN q = 1..Len(q)
      /\ DOMAIN q' = 1..(Len(q) - 1) /\ \A i \in 1..(Len(q) - 1) : q'[i] = q[i + 1]
      BY <1>1, SeqTail
<1>3. Sound /\ IsFiniteSet(Busy) /\ "stop" \notin Job
      BY SetsFinite, ThreadsAssumption DEF AllPlaced
<1>4. /\ Jobs(q) = {q[i] : i \in 1..Len(q)} \cap Job
      /\ Jobs(q)' = {q[i + 1] : i \in 1..(Len(q) - 1)} \cap Job
  <2>1. {q'[i] : i \in 1..(Len(q) - 1)} = {q[i + 1] : i \in 1..(Len(q) - 1)}
        BY <1>2
  <2> QED BY <1>2, <2>1 DEF Jobs
<1>5. \A x : x # q[1] => (x \in Jobs(q) <=> x \in Jobs(q)')
  <2>1. ASSUME NEW i \in 1..Len(q), i # 1
        PROVE  i - 1 \in 1..(Len(q) - 1) /\ (i - 1) + 1 = i
        BY <1>2, <2>1
  <2>2. \A i \in 1..(Len(q) - 1) : i + 1 \in 1..Len(q)
        BY <1>2
  <2> QED BY <1>4, <2>1, <2>2
<1>6. /\ IsFiniteSet(Jobs(q)) /\ Cardinality(Jobs(q)) \in Nat /\ Cardinality(Busy) \in Nat
      BY <1>3, JobsWaiting
<1>7. CASE q[1] = "stop"
  <2>1. Jobs(q)' = Jobs(q)
        BY <1>3, <1>4, <1>5, <1>7
  <2>2. Busy' = Busy
        BY <1>1, <1>2, <1>7 DEF Take, Goes, Busy, Is
  <2> QED BY <1>1, <2>1, <2>2 DEF Enough, EnoughThreads
<1>8. CASE q[1] # "stop"
  <2>1. PICK j \in Job : j = q[1]
        BY <1>2, <1>8
  <2>2. 1 \in InQueue(j)
        BY <1>2, <2>1 DEF InQueue
  <2>3. InQueue(j) = {1}
        BY <2>2 DEF AllPlaced, Placed, OnePlace, Nowhere, One
  <2>4. \A i \in 1..(Len(q) - 1) : q[i + 1] # j
        BY <1>2, <2>3 DEF InQueue
  <2>5. Jobs(q)' = Jobs(q) \ {j} /\ j \in Jobs(q)
        BY <1>2, <1>4, <1>5, <2>1, <2>4
  <2>6. Busy' = Busy \cup {w} /\ w \notin Busy
        BY <1>1, <1>2, <1>8 DEF Take, Goes, Busy, Is
  <2>7. /\ Cardinality(Jobs(q))' = Cardinality(Jobs(q)) - 1
        /\ Cardinality(Busy)' = Cardinality(Busy) + 1
        BY ZenonT(30), <1>3, <1>6, <2>5, <2>6, FS_AddElement, FS_RemoveElement
  <2>8. size \in Nat /\ workers \in Nat
        BY <1>3 DEF Sound, Typed
  <2>9. Cardinality(Busy)' + Cardinality(Jobs(q))' = Cardinality(Busy) + Cardinality(Jobs(q))
        BY ONLY <1>6, <2>7
  <2>10. (at = "grow" => Cardinality(Jobs(q)) <= size)'
        BY <1>1, <1>6, <2>7, <2>8 DEF Enough
  <2> QED BY <1>1, <2>9, <2>10 DEF Enough, EnoughThreads
<1> QED BY <1>7, <1>8

\* With no thread between taking its job and `working', size and working threads
\* are all there is to run.
LEMMA EnoughGrow ==
  ASSUME Sound, Enough, Grow
  PROVE  Enough'
<1>1. /\ at = "grow" /\ at' \in {"run", "call", "drop", "timed"}
      /\ UNCHANGED <<q, max, joined>>
      /\ workers' = IF (IF Needed < max THEN Needed ELSE max) > workers
                    THEN IF Needed < max THEN Needed ELSE max ELSE workers
      /\ unseen' = (unseen \/ Is({"got"}) # {})
      BY DEF Grow, Sound, Typed
<1>2. PICK new \in SUBSET Is({"none"}) :
             threads' = [w \in Worker |-> IF w \in new THEN "get" ELSE threads[w]]
      BY DEF Grow, Fresh
<1>3. threads \in [Worker -> Place]
      BY DEF Sound, Typed
<1>4. Busy' = Busy
      BY <1>2, <1>3 DEF Busy, Is
<1>5. SUFFICES ASSUME ~unseen'
               PROVE  workers' >= max \/ workers' >= Cardinality(Busy) + Cardinality(Jobs(q))
      BY <1>1, <1>4 DEF Enough, EnoughThreads
<1>6. Needed = size + Cardinality(Busy)
  <2>1. Is({"got"}) = {}
        BY <1>1, <1>5
  <2>2. Busy = Is({"working", "ask", "wakeask", "asked"})
        BY <2>1 DEF Busy, Is
  <2> QED BY <2>2 DEF Needed
<1>7. /\ Cardinality(Jobs(q)) \in Nat /\ Cardinality(Busy) \in Nat /\ size \in Nat
      /\ workers \in Nat /\ max \in Nat /\ Cardinality(Jobs(q)) <= size
      BY <1>1, JobsWaiting, ThreadsAssumption DEF Enough, Sound, Typed
<1> QED BY ONLY <1>1, <1>6, <1>7

LEMMA EnoughNext == AllPlaced /\ Enough /\ [Next]_vars => Enough'
<1> SUFFICES ASSUME AllPlaced, Enough, [Next]_vars
             PROVE  Enough'
    OBVIOUS
<1> USE DEF loop, pool, resolver, history
<1>1. Sound /\ threads \in [Worker -> Place]
      BY DEF AllPlaced, Sound, Typed
<1>2. CASE /\ UNCHANGED <<workers, max, joined, unseen, q>> /\ Busy' \subseteq Busy
           /\ at' # "grow" \/ UNCHANGED <<at, size>>
           /\ at \in {"measure", "grow"} => at' \in {"measure", "grow"}
  <2>1. /\ Cardinality(Busy)' <= Cardinality(Busy) /\ Cardinality(Busy)' \in Nat
        /\ Cardinality(Busy) \in Nat
    <3>1. IsFiniteSet(Busy)
          BY SetsFinite
    <3> QED BY <1>2, <3>1, FS_Subset, FS_CardinalityType
  <2>2. Cardinality(Jobs(q)) \in Nat /\ Cardinality(Jobs(q))' = Cardinality(Jobs(q))
        BY <1>1, <1>2, JobsWaiting
  <2>3. workers \in Nat /\ max \in Nat
        BY <1>1, ThreadsAssumption DEF Sound, Typed
  <2>4. EnoughThreads'
        BY <1>2, <2>1, <2>2, <2>3 DEF Enough, EnoughThreads
  <2>5. (at = "grow" => Cardinality(Jobs(q)) <= size)'
        BY <1>2, <2>2 DEF Enough
  <2> QED BY <2>4, <2>5 DEF Enough
<1>3. CASE Measure
  <2>1. at' = "grow" /\ size' = Len(q) /\ UNCHANGED q
        BY <1>3 DEF Measure
  <2> QED BY <1>1, <2>1, JobsWaiting DEF Enough, EnoughThreads
<1>4. CASE StopPool \/ (\E j \in Job : Submit(j)) \/ (\E n \in Sizes : Resize(n))
  <2>1. at' \in {"measure", "join"} /\ (at' = "join" => joined')
        BY <1>4 DEF StopPool, Submit, Resize
  <2> QED BY <2>1 DEF Enough, EnoughThreads
<1>5. CASE \/ BeginCalls \/ MakeCall \/ DropCalls \/ TimedDone \/ Joined \/ PollReturns
           \/ SocketEvent \/ Stop \/ SigInt \/ UNCHANGED vars \/ \E j \in Lookup : Timeout(j)
  <2>1. UNCHANGED <<workers, max, joined, unseen, q, Busy>>
        BY <1>5
        DEF BeginCalls, MakeCall, DropCalls, TimedDone, Joined, PollReturns, SocketEvent,
            Stop, SigInt, vars, Timeout, Busy, Is
  <2>2. /\ at' # "grow" \/ UNCHANGED <<at, size>>
        /\ at \in {"measure", "grow"} => at' \in {"measure", "grow"}
        BY <1>5
        DEF BeginCalls, MakeCall, DropCalls, TimedDone, Joined, PollReturns, SocketEvent,
            Stop, SigInt, vars, Timeout
  <2> QED BY <1>2, <2>1, <2>2
<1>6. ASSUME NEW w \in Worker, Pool(w), ~Take(w)
      PROVE  Enough'
  <2>1. PICK from \in Place, to \in Place :
               Goes(w, from, to) /\ (to \in {"got", "working", "ask", "wakeask", "asked"}
                                     => from \in {"got", "working", "ask", "wakeask", "asked"})
        BY <1>6
        DEF Pool, Begin, AskReactor, AwaitAnswer, GetAnswer, Finish, Report, GoOn, Quit,
            Wakes, Place
  <2>2. Busy' \subseteq Busy
        BY <1>1, <2>1 DEF Goes, Busy, Is
  <2>3. UNCHANGED <<workers, max, joined, unseen, q, at, size>>
        BY <1>6
        DEF Pool, Begin, AskReactor, AwaitAnswer, GetAnswer, Finish, Report, GoOn, Quit,
            Wakes, Queues
  <2> QED BY <1>2, <2>2, <2>3
<1> QED
    BY <1>1, <1>3, <1>4, <1>5, <1>6, EnoughTake, EnoughGrow
    DEF Next, Reactor, MainLoop, StartWorkers, User

\* Unless _startSomeWorkers overlooks a job on its way into a thread, every job
\* that waits or runs has a thread, up to the maximum (threadpool.py:104-109).
THEOREM EnoughThreadsCorrect == Spec => []EnoughThreads
<1>1. Init => Enough
  <2> SUFFICES ASSUME Init
               PROVE  workers >= Cardinality(Busy) + Cardinality(Jobs(q))
      BY DEF Init, Enough, EnoughThreads
  <2>1. Busy = {} /\ Jobs(q) = {} /\ workers = 0
        BY DEF Init, Busy, Is, Jobs
  <2> QED BY <2>1, FS_EmptySet
<1>2. Enough => EnoughThreads
      BY DEF Enough
<1> QED BY <1>1, <1>2, EnoughNext, PlacedHolds, PTL DEF Spec

-----------------------------------------------------------------------------
\* The refinement of JobService: the invariant that it needs, and each step.

\* How far the stop has come, and that the end comes after the last thread.
InPhase ==
  /\ stopped = "yes" <=> at \in {"join", "ended"}
  /\ joined <=> at \in {"join", "ended"}
  /\ at = "ended" => AllGone
  /\ joined => workers = 0

\* While jobs wait there is a thread that no WorkerStop is meant for, or about to
\* be started; from the stop on a WorkerStop comes behind every job.
SomebodyWorks ==
  /\ at = "grow" => Len(q) <= size
  /\ ~joined /\ at \notin {"measure", "grow"}
       => workers > 0 \/ \A i \in DOMAIN q : q[i] = "stop"
  /\ joined => \A i \in DOMAIN q :
                 q[i] = "stop" \/ \E k \in DOMAIN q : k > i /\ q[k] = "stop"

LEMMA InPhaseNext ==
  ASSUME Sound, InPhase, [Next]_vars
  PROVE  InPhase'
<1> USE DEF InPhase, AllGone, Is, loop, pool, resolver, history
<1>1. /\ stopped \in {"no", "just", "yes"} /\ threads \in [Worker -> Place]
      /\ back \in {"run", "call", "drop", "timed"}
      BY DEF Sound, Typed
<1>2. CASE BeginCalls \/ DropCalls \/ TimedDone \/ StopPool \/ Joined \/ PollReturns
           \/ SocketEvent \/ Measure \/ Stop \/ SigInt
      BY <1>1, <1>2 DEF BeginCalls, DropCalls, TimedDone, StopPool, Joined, PollReturns,
         SocketEvent, Measure, Stop, SigInt, UserCode
<1>3. CASE MakeCall
      BY <1>1, <1>3 DEF MakeCall
<1>4. CASE Grow
      BY <1>1, <1>4 DEF Grow
<1>5. CASE \/ \E j \in Job : Submit(j)
           \/ \E n \in Sizes : Resize(n)
           \/ \E j \in Lookup : Timeout(j)
  <2>1. /\ UNCHANGED <<stopped, joined, threads>>
        /\ at \notin {"join", "ended"} /\ at' \notin {"join", "ended"}
        BY <1>5 DEF Submit, Resize, Timeout, UserCode
  <2> QED BY <1>1, <2>1
<1>6. ASSUME NEW w \in Worker, Pool(w)
      PROVE  InPhase'
  <2>1. UNCHANGED <<at, stopped, joined, workers>>
        BY <1>6 DEF Pool, Take, Begin, AskReactor, AwaitAnswer, GetAnswer, Finish, Report,
           GoOn, Quit, Queues, Wakes
  <2>2. threads[w] # "none"
        BY <1>6 DEF Pool, Take, Begin, AskReactor, AwaitAnswer, GetAnswer, Finish, Report,
           GoOn, Quit, Wakes, Goes
  <2>3. at # "ended"
        BY <2>2
  <2> QED BY <2>1, <2>3
<1>7. CASE UNCHANGED vars
      BY <1>7 DEF vars
<1> QED
    BY <1>2, <1>3, <1>4, <1>5, <1>6, <1>7
    DEF Next, Reactor, MainLoop, StartWorkers, User

LEMMA SomebodyWorksNext ==
  ASSUME Sound, InPhase, SomebodyWorks, [Next]_vars
  PROVE  SomebodyWorks'
<1> USE DEF SomebodyWorks, loop, pool, resolver, history
<1>1. /\ q \in Seq(Job \cup {"stop"}) /\ workers \in Nat /\ size \in Nat
      /\ DOMAIN q = 1..Len(q) /\ Len(q) \in Nat
      BY DEF Sound, Typed
<1>2. CASE UNCHANGED <<at, q, workers, joined, size>>
      BY <1>2
<1>3. CASE BeginCalls \/ MakeCall \/ DropCalls \/ TimedDone \/ Joined \/ PollReturns
           \/ SocketEvent \/ Stop
  <2>1. UNCHANGED <<q, workers, joined>> /\ at \notin {"measure", "grow"} /\ at' # "grow"
        BY <1>3 DEF BeginCalls, MakeCall, DropCalls, TimedDone, Joined, PollReturns,
           SocketEvent, Stop, UserCode
  <2> QED BY <2>1
<1>4. CASE Measure
  <2>1. UNCHANGED <<q, joined>> /\ size' = Len(q) /\ at' = "grow" /\ ~joined
        BY <1>4 DEF Measure, InPhase
  <2> QED BY <1>1, <2>1
<1>5. CASE Grow
  <2>1. UNCHANGED <<q, joined>> /\ at = "grow" /\ at' # "grow" /\ ~joined
        BY <1>5 DEF Grow, InPhase, Sound, Typed
  <2>2. ASSUME NEW i \in DOMAIN q
        PROVE  workers' > 0
    <3>1. size > 0 /\ Cardinality(Is({"working", "ask", "wakeask", "asked"})) \in Nat
          BY <1>1, <2>1, SetsFinite, FS_CardinalityType
    <3>2. Needed > 0 /\ max > 0 /\ Needed \in Nat /\ max \in Nat
          BY <1>1, <3>1, ThreadsAssumption DEF Needed, Sound, Typed
    <3> QED BY <1>1, <1>5, <3>2 DEF Grow
  <2> QED BY <2>1, <2>2
<1>6. CASE \/ \E j \in Job : Submit(j)
           \/ \E n \in Sizes : Resize(n)
  <2>1. UNCHANGED joined /\ at' = "measure" /\ ~joined
        BY <1>6 DEF Submit, Resize, InPhase
  <2> QED BY <2>1
<1>7. CASE StopPool
  <2>1. /\ at = "timed" /\ at' = "join" /\ joined' /\ ~joined
        /\ q' = q \o [i \in 1..workers |-> "stop"]
        BY <1>7 DEF StopPool, OneSentinelEach, InPhase
  <2>2. /\ DOMAIN q' = 1..(Len(q) + workers)
        /\ \A k \in 1..(Len(q) + workers) : q'[k] = IF k <= Len(q) THEN q[k] ELSE "stop"
        BY <1>1, <2>1, SeqStops
  <2>3. ASSUME NEW i \in DOMAIN q'
        PROVE  q'[i] = "stop" \/ \E k \in DOMAIN q' : k > i /\ q'[k] = "stop"
    <3>1. CASE workers = 0
          BY <1>1, <2>1, <2>2, <3>1
    <3>2. CASE workers > 0 /\ i <= Len(q)
      <4>1. /\ Len(q) + 1 \in DOMAIN q' /\ Len(q) + 1 > i
            /\ q'[Len(q) + 1] = "stop"
            BY <1>1, <2>2, <3>2
      <4> QED BY <4>1
    <3>3. CASE i > Len(q)
          BY <1>1, <2>2, <3>3
    <3> QED BY <1>1, <2>2, <3>1, <3>2, <3>3
  <2> QED BY <2>1, <2>3
<1>8. ASSUME NEW w \in Worker, Take(w)
      PROVE  SomebodyWorks'
  <2>1. /\ q # <<>> /\ q' = Tail(q)
        /\ UNCHANGED <<at, size, workers, joined>>
        BY <1>8 DEF Take
  <2>2. /\ DOMAIN q' = 1..(Len(q) - 1) /\ \A i \in 1..(Len(q) - 1) : q'[i] = q[i + 1]
        /\ Len(q) \in Nat \ {0} /\ q' \in Seq(Job \cup {"stop"})
        BY <1>1, <2>1, SeqTail
  <2>3. Len(q') = Len(q) - 1
        BY <2>2
  <2>4. ASSUME NEW i \in DOMAIN q', joined
        PROVE  q'[i] = "stop" \/ \E k \in DOMAIN q' : k > i /\ q'[k] = "stop"
    <3>1. i + 1 \in DOMAIN q /\ q'[i] = q[i + 1]
          BY <1>1, <2>2
    <3>2. CASE q[i + 1] # "stop"
      <4>1. PICK k \in DOMAIN q : k > i + 1 /\ q[k] = "stop"
            BY <2>4, <3>1, <3>2
      <4>2. k - 1 \in DOMAIN q' /\ k - 1 > i /\ q'[k - 1] = q[k]
            BY <1>1, <2>2, <4>1
      <4> QED BY <4>1, <4>2
    <3> QED BY <3>1, <3>2
  <2>5. \A i \in DOMAIN q' : i + 1 \in DOMAIN q /\ q'[i] = q[i + 1]
        BY <1>1, <2>2
  <2> QED BY <1>1, <2>1, <2>3, <2>4, <2>5
<1>9. ASSUME NEW w \in Worker, Pool(w), ~Take(w)
      PROVE  UNCHANGED <<at, q, workers, joined, size>>
      BY <1>9 DEF Pool, Begin, AskReactor, AwaitAnswer, GetAnswer, Finish, Report,
         GoOn, Quit, Queues, Wakes
<1>10. CASE SigInt \/ (\E j \in Lookup : Timeout(j)) \/ UNCHANGED vars
  <2>1. UNCHANGED <<at, q, workers, joined, size>>
        BY <1>10 DEF SigInt, Timeout, vars
  <2> QED BY <1>2, <2>1
<1> QED
    BY <1>2, <1>3, <1>4, <1>5, <1>6, <1>7, <1>8, <1>9, <1>10
    DEF Next, Reactor, MainLoop, StartWorkers, User

ServiceInv == AllPlaced /\ Counted /\ InPhase /\ SomebodyWorks
ServiceStep == [Service!Next]_(Service!vars)

\* What a step does to the sets of jobs it moves.
JobsStay ==
  \A j \in Job : (ToBeDone(j)' <=> ToBeDone(j)) /\ (HasResult(j)' <=> HasResult(j))

LEMMA ServiceStutters ==
  ASSUME JobsStay, UNCHANGED <<accepted, timers, fired, Phase>>
  PROVE  ServiceStep
BY DEF JobsStay, ServiceStep, Service!vars

LEMMA StopGoesOn ==
  ASSUME JobsStay, UNCHANGED <<accepted, timers, fired>>,
         \/ Phase = "running" /\ Phase' = "stopping"
         \/ Phase = "stopping" /\ Phase' = "finishing"
         \/ Phase = "finishing" /\ Phase' = "ended" /\ \A j \in Job : ~ToBeDone(j)
  PROVE  ServiceStep
<1>1. /\ {j \in Job : ToBeDone(j)}' = {j \in Job : ToBeDone(j)}
      /\ {j \in Job : HasResult(j)}' = {j \in Job : HasResult(j)}
      BY DEF JobsStay
<1> QED
    BY <1>1 DEF ServiceStep, Service!Next, Service!AskToStop, Service!Stop, Service!End

\* Without a new place for a job, and without a result made or delivered.
LEMMA JobsStayPut ==
  ASSUME \A j \in Job : InQueue(j)' = InQueue(j) /\ Undelivered(j)' = Undelivered(j),
         UNCHANGED work,
         \A w \in Worker :
           /\ threads'[w] = "report" <=> threads[w] = "report"
           /\ threads'[w] \in AtWork <=> threads[w] \in AtWork
  PROVE  JobsStay
<1>1. \A j \in Job : (\E i \in DOMAIN q : q[i] = j)' <=> (\E i \in DOMAIN q : q[i] = j)
      BY DEF InQueue
<1>2. Busy' = Busy /\ Is({"report"})' = Is({"report"})
      BY DEF Busy, Is, AtWork
<1>3. ASSUME NEW j \in Job
      PROVE  /\ (\E w \in Busy : work[w] = j)' <=> (\E w \in Busy : work[w] = j)
             /\ (\E w \in Is({"report"}) : work[w] = j)' <=> (\E w \in Is({"report"}) : work[w] = j)
      BY <1>2 
<1> QED BY <1>1, <1>3 DEF JobsStay, ToBeDone, HasResult

\* The steps that move no job, but for the end of its function.
LEMMA OthersStay ==
  ASSUME AllPlaced,
         \/ BeginCalls \/ TimedDone \/ StopPool \/ Joined \/ PollReturns \/ SocketEvent
         \/ Measure \/ Grow
         \/ \E n \in Sizes : Resize(n)
         \/ Stop \/ SigInt \/ UNCHANGED vars
         \/ \E k \in Lookup : Timeout(k)
         \/ \E w \in Worker : \/ Begin(w) \/ AskReactor(w) \/ AwaitAnswer(w)
                              \/ GetAnswer(w) \/ GoOn(w) \/ Quit(w)
  PROVE  JobsStay
<1>1. Sound /\ threads \in [Worker -> Place]
      BY DEF AllPlaced, Sound, Typed
<1>2. \A j \in Job : InQueue(j)' = InQueue(j) /\ Undelivered(j)' = Undelivered(j)
      BY <1>1, PlacesKept
<1>3. UNCHANGED work
      BY DEF BeginCalls, TimedDone, StopPool, Joined, PollReturns, SocketEvent, Measure,
             Grow, Resize, Stop, SigInt, vars, Timeout, Begin, AskReactor, AwaitAnswer,
             GetAnswer, GoOn, Quit, Wakes
<1>4. ASSUME NEW v \in Worker
      PROVE  /\ threads'[v] = "report" <=> threads[v] = "report"
             /\ threads'[v] \in AtWork <=> threads[v] \in AtWork
  <2>1. CASE UNCHANGED threads
        BY <2>1
  <2>2. CASE Grow
    <3>1. PICK new \in SUBSET Is({"none"}) :
                 threads' = [w \in Worker |-> IF w \in new THEN "get" ELSE threads[w]]
          BY <2>2 DEF Grow, Fresh
    <3> QED BY <3>1 DEF Is, AtWork
  <2>3. ASSUME NEW w \in Worker,
               \/ Begin(w) \/ AskReactor(w) \/ AwaitAnswer(w) \/ GetAnswer(w) \/ GoOn(w)
               \/ Quit(w)
        PROVE  /\ threads'[v] = "report" <=> threads[v] = "report"
               /\ threads'[v] \in AtWork <=> threads[v] \in AtWork
    <3>1. PICK from, to : /\ Goes(w, from, to) /\ from # "report" /\ to # "report"
                          /\ from \in AtWork <=> to \in AtWork
          BY <2>3
          DEF Begin, AskReactor, AwaitAnswer, GetAnswer, GoOn, Quit, Wakes, AtWork
    <3> QED BY <1>1, <3>1 DEF Goes
  <2> QED
      BY <2>1, <2>2, <2>3
      DEF BeginCalls, TimedDone, StopPool, Joined, PollReturns, SocketEvent, Measure,
          Resize, Stop, SigInt, vars, Timeout
<1> QED BY <1>2, <1>3, <1>4, JobsStayPut

\* A job goes from the queue into a thread.
LEMMA TakeStays ==
  ASSUME AllPlaced, NEW w \in Worker, Take(w)
  PROVE  JobsStay
<1>1. /\ q \in Seq(Job \cup {"stop"}) /\ q # <<>> /\ q' = Tail(q)
      /\ threads \in [Worker -> Place] /\ work \in [Worker -> Job \cup {"nobody"}]
      /\ threads[w] = "get" /\ UNCHANGED <<at, count, calls>>
      BY DEF AllPlaced, Sound, Typed, Take, Goes, loop
<1>2. /\ Head(q) = q[1] /\ Len(q) \in Nat \ {0} /\ DOMAIN q = 1..Len(q)
      /\ DOMAIN q' = 1..(Len(q) - 1) /\ \A i \in 1..(Len(q) - 1) : q'[i] = q[i + 1]
      BY <1>1, SeqTail
<1>3. \A v \in Worker \ {w} : threads'[v] = threads[v] /\ work'[v] = work[v]
      BY <1>1 DEF Take, Goes
<1> SUFFICES ASSUME NEW j \in Job
             PROVE  /\ ToBeDone(j)' <=> ToBeDone(j)
                    /\ HasResult(j)' <=> HasResult(j)
    BY DEF JobsStay
<1>4. /\ j # "stop"
      /\ threads'[w] = IF q[1] = "stop" THEN "quit" ELSE "got"
      /\ q[1] # "stop" => work'[w] = q[1]
      BY <1>1, <1>2, ThreadsAssumption DEF Take, Goes
<1>5. \A v \in Worker \ {w} : v \in Busy' <=> v \in Busy
      BY <1>3 DEF Busy, Is
<1>6. (\E i \in DOMAIN q : q[i] = j) <=> q[1] = j \/ \E i \in DOMAIN q' : q'[i] = j
  <2>1. ASSUME NEW i \in DOMAIN q, q[i] = j, i # 1
        PROVE  i - 1 \in DOMAIN q' /\ q'[i - 1] = j
        BY <1>2, <2>1
  <2>2. \A i \in DOMAIN q' : i + 1 \in DOMAIN q /\ q'[i] = q[i + 1]
        BY <1>2
  <2> QED BY <1>2, <2>1, <2>2
<1>7. (\E v \in Busy : work[v] = j)' <=> q[1] = j \/ \E v \in Busy : work[v] = j
  <2>1. w \notin Busy /\ (w \in Busy' <=> q[1] # "stop")
        BY <1>1, <1>4 DEF Busy, Is
  <2>2. \A v : v \in Busy => v \in Worker
        BY DEF Busy, Is
  <2>3. \A v : v \in Busy' => v \in Worker
        BY DEF Busy, Is
  <2> QED BY <1>3, <1>4, <1>5, <2>1, <2>2, <2>3
<1>8. (\E v \in Is({"report"}) : work[v] = j)' <=> \E v \in Is({"report"}) : work[v] = j
      BY <1>1, <1>3, <1>4 DEF Is
<1>9. Undelivered(j)' = Undelivered(j)
      BY <1>1, CallsKept
<1> QED BY <1>6, <1>7, <1>8, <1>9 DEF ToBeDone, HasResult

\* A result goes from its thread into threadCallQueue.
LEMMA ReportStays ==
  ASSUME AllPlaced, NEW w \in Worker, Report(w)
  PROVE  JobsStay
<1>1. /\ threads \in [Worker -> Place] /\ work \in [Worker -> Job \cup {"nobody"}]
      /\ threads[w] = "report" /\ threads'[w] = "wake" /\ work[w] \in Job
      /\ calls' = Append(calls, Result(work[w]))
      /\ UNCHANGED <<at, count, q>>
      /\ \A v \in Worker \ {w} : threads'[v] = threads[v] /\ work'[v] = work[v]
      BY DEF AllPlaced, Sound, Typed, HasJob, Report, Goes, Queues, loop, pool
<1> SUFFICES ASSUME NEW j \in Job
             PROVE  /\ ToBeDone(j)' <=> ToBeDone(j)
                    /\ HasResult(j)' <=> HasResult(j)
    BY DEF JobsStay
<1>2. Undelivered(j)' = Undelivered(j) \cup (IF work[w] = j THEN {Len(calls) + 1} ELSE {})
  <2>1. PICK c \in Call : /\ c = Result(work[w]) /\ c.what = "result"
                          /\ c = Result(j) <=> work[w] = j
        BY <1>1, CallTypes DEF Result
  <2>2. Undelivered(j)' = Undelivered(j) \cup (IF c = Result(j) THEN {Len(calls) + 1} ELSE {})
        BY <1>1, <2>1, CallAdded DEF AllPlaced
  <2> QED BY <2>1, <2>2
<1>3. Undelivered(j)' # {} <=> work[w] = j \/ Undelivered(j) # {}
      BY <1>2
<1>4. (\E v \in Busy : work[v] = j)' <=> \E v \in Busy : work[v] = j
      BY <1>1 DEF Busy, Is
<1>5. (\E v \in Is({"report"}) : work[v] = j)
        <=> work[w] = j \/ (\E v \in Is({"report"}) : work[v] = j)'
      BY <1>1 DEF Is
<1> QED BY <1>1, <1>3, <1>4, <1>5 DEF ToBeDone, HasResult

LEMMA FiringIs ==
  ASSUME AllPlaced
  PROVE  /\ fired \in [Job -> Nat] /\ timers = queries /\ queries \subseteq Lookup
         /\ timers \subseteq accepted
         /\ \A j \in Lookup \cap accepted : IF j \in timers THEN fired[j] = 0 ELSE fired[j] = 1
<1>1. \A j \in Lookup \cap accepted : IF j \in timers THEN fired[j] = 0 ELSE fired[j] = 1
      BY ThreadsAssumption DEF AllPlaced, Answered
<1> QED BY <1>1 DEF AllPlaced, Answered

\* A call of the reactor: it delivers a result, or throws one away that is too
\* late, and moves no other job.
LEMMA MakeCallServes ==
  ASSUME ServiceInv, MakeCall
  PROVE  ServiceStep
<1>1. /\ at = "call" /\ at' \in {"call", "drop"} /\ count' = count + 1 /\ count \in Nat
      /\ UNCHANGED <<calls, q, threads, work, accepted>>
      /\ AllPlaced
      BY DEF ServiceInv, AllPlaced, Sound, Typed, MakeCall, pool, history
<1>2. count + 1 \in DOMAIN calls
      BY DEF ServiceInv, AllPlaced, Sound, Typed, Cursor, Where, MakeCall
<1>3. PICK c \in Call : c = calls[count + 1]
      BY <1>2 DEF ServiceInv, AllPlaced, Sound, Typed
<1>4. \A j \in Job : Undelivered(j)' = Undelivered(j) \ {count + 1}
  <2> SUFFICES ASSUME NEW j \in Job PROVE Undelivered(j)' = Undelivered(j) \ {count + 1}
      OBVIOUS
  <2>1. /\ Undelivered(j) = {i \in DOMAIN calls : calls[i] = Result(j) /\ i > count}
        /\ Undelivered(j)' = {i \in DOMAIN calls : calls[i] = Result(j) /\ i > count + 1}
        BY <1>1 DEF Undelivered, Result
  <2>2. DOMAIN calls \subseteq Nat
        BY <1>1 DEF AllPlaced, Sound, Typed
  <2>3. \A i \in DOMAIN calls : i > count + 1 <=> i > count /\ i # count + 1
        BY <1>1, <2>2
  <2> QED BY <2>1, <2>3
<1>5. \A j \in Job : count + 1 \in Undelivered(j) <=> c = Result(j)
  <2>1. count + 1 > count
        BY <1>1
  <2> QED BY <1>2, <1>3, <2>1, Zenon DEF Undelivered
<1>6. \A j \in Job : ToBeDone(j)' <=> ToBeDone(j)
      BY <1>1 DEF ToBeDone, Busy, Is
<1>7. \A j \in Job : c # Result(j) => (HasResult(j)' <=> HasResult(j))
      BY <1>1, <1>4, <1>5 DEF HasResult, Is
<1>8. Phase \in {"running", "stopping"} /\ (UNCHANGED stopped => UNCHANGED Phase)
      BY <1>1 DEF Phase
<1>9. CASE c.what = "result"
  <2>1. PICK j \in Job : c = Result(j) /\ c.job = j
        BY <1>9, CallTypes
  <2>2. Fire(j) /\ UNCHANGED stopped
        BY <1>3, <1>9, <2>1, CallTypes DEF MakeCall
  <2>3. /\ j \in accepted /\ InThreads(j) = {}
        /\ Undelivered(j) = {count + 1} /\ FiredNot(j)
        BY <1>1, <1>5, <2>1 DEF AllPlaced, Placed, OnePlace, Nowhere, One
  <2>4. HasResult(j) /\ ~HasResult(j)'
    <3>1. \A w \in Is({"report"}) : work[w] # j
          BY <2>3 DEF InThreads
    <3> QED BY <1>1, <1>4, <2>3, <3>1 DEF HasResult, Is
  <2>5. \A k \in Job \ {j} : HasResult(k)' <=> HasResult(k)
    <3>1. \A k \in Job \ {j} : Result(k).job # c.job
          BY <2>1 DEF Result
    <3> QED BY <1>7, <3>1
  <2>6. /\ {k \in Job : ToBeDone(k)}' = {k \in Job : ToBeDone(k)}
        /\ {k \in Job : HasResult(k)}' = {k \in Job : HasResult(k)} \ {j}
        BY <1>6, <2>4, <2>5
  <2>7. CASE j \in Lookup /\ j \notin queries
    <3>1. Service!Discard(j)
          BY <1>1, <1>8, <2>2, <2>3, <2>4, <2>6, <2>7, FiringIs
          DEF Fire, Service!Discard, Service!Serving
    <3> QED BY <3>1 DEF ServiceStep, Service!Next
  <2>8. CASE j \in Lookup => j \in queries
    <3>1. fired[j] = 0 /\ (j \in Lookup => j \in timers)
          BY <1>1, <2>3, <2>8, FiringIs DEF FiredNot
    <3>2. fired' = [fired EXCEPT ![j] = 1] /\ timers' = timers \ {j}
          BY <1>1, <2>2, <2>8, <3>1, FiringIs DEF Fire
    <3>3. Service!Deliver(j)
          BY <1>1, <1>8, <2>2, <2>4, <2>6, <3>1, <3>2
          DEF Service!Deliver, Service!Answer, Service!Serving
    <3> QED BY <3>3 DEF ServiceStep, Service!Next
  <2> QED BY <2>7, <2>8
<1>10. CASE c.what # "result"
  <2>1. JobsStay
        BY <1>6, <1>7, <1>10 DEF JobsStay, Result
  <2>2. /\ UNCHANGED <<timers, fired>>
        /\ UNCHANGED stopped \/ (stopped = "no" /\ stopped' = "just")
    <3>1. CASE c.what = "ask"
          BY <1>3, <3>1 DEF MakeCall, resolver
    <3>2. CASE c.what = "stop"
          BY <1>3, <3>2 DEF MakeCall, resolver
    <3> QED BY <1>10, <3>1, <3>2, CallTypes
  <2>3. CASE UNCHANGED stopped
        BY <1>1, <1>8, <2>1, <2>2, <2>3, ServiceStutters
  <2>4. CASE stopped = "no" /\ stopped' = "just"
    <3>1. Phase = "running" /\ Phase' = "stopping"
          BY <1>1, <2>4 DEF Phase
    <3> QED BY <1>1, <2>1, <2>2, <3>1, StopGoesOn
  <2> QED BY <2>2, <2>3, <2>4
<1> QED BY <1>9, <1>10

\* The end waits for every job: no thread is left, so that no WorkerStop is, and
\* so no job before one.
LEMMA AllDone ==
  ASSUME ServiceInv, AllGone, joined, NEW j \in Job
  PROVE  ~ToBeDone(j)
<1>1. Cardinality(Live) = 0
  <2>1. Live = {}
        BY DEF AllGone, Live, Is
  <2> QED BY <2>1, FS_EmptySet
<1>2. Cardinality(Sentinels) = 0 /\ IsFiniteSet(Sentinels)
  <2>1. DOMAIN q = 1..Len(q) /\ Len(q) \in Nat
        BY DEF ServiceInv, AllPlaced, Sound, Typed
  <2>2. IsFiniteSet(Sentinels) /\ Cardinality(Sentinels) \in Nat
        BY <2>1, SetsFinite, FS_CardinalityType DEF Sentinels
  <2>3. workers = 0
        BY DEF ServiceInv, InPhase
  <2> QED BY <1>1, <2>2, <2>3 DEF ServiceInv, Counted
<1>3. \A i \in DOMAIN q : q[i] # "stop"
      BY <1>2, FS_EmptySet DEF Sentinels
<1>4. DOMAIN q = {}
      BY <1>3 DEF ServiceInv, SomebodyWorks
<1>5. Busy = {}
      BY DEF AllGone, Busy, Is
<1> QED BY <1>4, <1>5 DEF ToBeDone

LEMMA FinishServes ==
  ASSUME ServiceInv, NEW w \in Worker, Finish(w)
  PROVE  ServiceStep
<1>1. /\ threads \in [Worker -> Place] /\ work[w] \in Job
      /\ threads[w] = "working" /\ threads'[w] = "report"
      /\ UNCHANGED <<at, stopped, count, calls, q, work, accepted, timers, fired>>
      /\ \A v \in Worker \ {w} : threads'[v] = threads[v]
      /\ AllPlaced
      BY DEF ServiceInv, AllPlaced, Sound, Typed, HasJob, Finish, Goes, loop, pool, resolver,
             history
<1>2. PICK j \in Job : j = work[w]
      BY <1>1
<1>3. w \in InThreads(j) /\ w \in Busy
      BY <1>1, <1>2 DEF InThreads, Busy, Is
<1>4. InQueue(j) = {} /\ InThreads(j) = {w}
      BY <1>1, <1>3 DEF AllPlaced, Placed, OnePlace, Nowhere, One
<1>5. ToBeDone(j) /\ ~ToBeDone(j)' /\ HasResult(j)'
  <2>1. \A i \in DOMAIN q : q[i] # j
        BY <1>4 DEF InQueue
  <2>2. \A v \in Busy' : v \in Busy /\ v # w
        BY <1>1 DEF Busy, Is
  <2>3. \A v \in Busy' : work[v] # j
        BY <1>4, <2>2 DEF InThreads
  <2>4. w \in Is({"report"})'
        BY <1>1 DEF Is
  <2> QED BY <1>1, <1>2, <1>3, <2>1, <2>3, <2>4 DEF ToBeDone, HasResult
<1>6. ASSUME NEW k \in Job, k # j
      PROVE  (ToBeDone(k)' <=> ToBeDone(k)) /\ (HasResult(k)' <=> HasResult(k))
  <2>1. \A v \in Worker \ {w} : /\ v \in Busy' <=> v \in Busy
                               /\ v \in Is({"report"})' <=> v \in Is({"report"})
        BY <1>1 DEF Busy, Is
  <2>2. /\ (\E v \in Busy : work[v] = k)' <=> \E v \in Busy : work[v] = k
        /\ (\E v \in Is({"report"}) : work[v] = k)' <=> \E v \in Is({"report"}) : work[v] = k
        BY <1>1, <1>2, <1>6 DEF Busy, Is
  <2>3. Undelivered(k)' = Undelivered(k)
        BY <1>1, CallsKept
  <2> QED BY <1>1, <2>2, <2>3 DEF ToBeDone, HasResult
<1>7. /\ {k \in Job : ToBeDone(k)}' = {k \in Job : ToBeDone(k)} \ {j}
      /\ {k \in Job : HasResult(k)}' = {k \in Job : HasResult(k)} \cup {j}
      BY <1>5, <1>6
<1>8. UNCHANGED Phase /\ Phase # "ended"
  <2>1. ~AllGone
        BY <1>1 DEF AllGone, Is
  <2> QED BY <1>1, <2>1 DEF Phase, ServiceInv, InPhase
<1>9. Service!Do(j)
      BY <1>1, <1>5, <1>7, <1>8 DEF Service!Do
<1> QED BY <1>9 DEF ServiceStep, Service!Next

LEMMA SubmitServes ==
  ASSUME ServiceInv, NEW k \in Job, Submit(k)
  PROVE  ServiceStep
<1>1. /\ q \in Seq(Job \cup {"stop"}) /\ q' = Append(q, k)
      /\ k \notin accepted /\ accepted' = accepted \cup {k}
      /\ at \notin {"join", "ended"} /\ at' = "measure"
      /\ stopped \in {"no", "just", "yes"} /\ timers' = timers \cup ({k} \cap Lookup)
      /\ UNCHANGED <<stopped, count, calls, threads, work, fired>>
      BY DEF ServiceInv, AllPlaced, Sound, Typed, Submit, UserCode
<1>2. /\ DOMAIN q = 1..Len(q) /\ Len(q) \in Nat /\ DOMAIN q' = 1..(Len(q) + 1)
      /\ \A i \in 1..Len(q) : q'[i] = q[i]
      /\ q'[Len(q) + 1] = k
  <2>1. PICK e \in Job \cup {"stop"} : e = k
        OBVIOUS
  <2> QED BY <1>1, <2>1, SeqAppend
<1>3. \A j \in Job : (\E i \in DOMAIN q : q[i] = j)' <=> j = k \/ \E i \in DOMAIN q : q[i] = j
      BY <1>2
<1>4. \A j \in Job : (\E v \in Busy : work[v] = j)' <=> \E v \in Busy : work[v] = j
      BY <1>1 DEF Busy, Is
<1>5. \A j \in Job : HasResult(j)' <=> HasResult(j)
      BY <1>1 DEF HasResult, Undelivered, Result, Is
<1>6. /\ {j \in Job : ToBeDone(j)}' = {j \in Job : ToBeDone(j)} \cup {k}
      /\ {j \in Job : HasResult(j)}' = {j \in Job : HasResult(j)}
      BY <1>3, <1>4, <1>5 DEF ToBeDone
<1>7. UNCHANGED Phase /\ Phase \in {"running", "stopping"}
      BY <1>1 DEF Phase
<1>8. Service!Accept(k)
      BY <1>1, <1>6, <1>7 DEF Service!Accept, Service!Serving
<1> QED BY <1>8 DEF ServiceStep, Service!Next

LEMMA TimeoutServes ==
  ASSUME ServiceInv, NEW j \in Lookup, Timeout(j)
  PROVE  ServiceStep
<1>1. /\ at = "timed" /\ j \in timers /\ timers' = timers \ {j} /\ j \in Job
      /\ fired' = [fired EXCEPT ![j] = @ + 1] /\ UNCHANGED <<at, stopped, accepted>>
      /\ AllPlaced
      BY ThreadsAssumption DEF ServiceInv, Timeout, loop, history
<1>2. fired[j] = 0 /\ fired' = [fired EXCEPT ![j] = 1]
  <2>1. fired[j] = 0
        BY <1>1, FiringIs
  <2> QED BY <1>1, <2>1
<1>3. JobsStay
      BY <1>1, OthersStay
<1>4. /\ {k \in Job : ToBeDone(k)}' = {k \in Job : ToBeDone(k)}
      /\ {k \in Job : HasResult(k)}' = {k \in Job : HasResult(k)}
      BY <1>3 DEF JobsStay
<1>5. UNCHANGED Phase /\ Phase \in {"running", "stopping"}
      BY <1>1 DEF Phase
<1>6. Service!TimeOut(j)
      BY <1>1, <1>2, <1>4, <1>5 DEF Service!TimeOut, Service!Answer, Service!Serving
<1> QED BY <1>1, <1>6 DEF ServiceStep, Service!Next

LEMMA ServiceStarts == Init => ServiceInv /\ Service!Init
<1> SUFFICES ASSUME Init
             PROVE  ServiceInv /\ Service!Init
    OBVIOUS
<1>1. AllPlaced
      BY PlacedInit
<1>2. Counted
      BY CountedInit
<1>3. InPhase /\ SomebodyWorks
      BY DEF Init, InPhase, SomebodyWorks
<1>4. \A j \in Job : ~ToBeDone(j) /\ ~HasResult(j)
      BY DEF Init, ToBeDone, HasResult, Busy, Is, Undelivered
<1>5. /\ {j \in Job : ToBeDone(j)} = {} /\ {j \in Job : HasResult(j)} = {}
      /\ Phase = "running"
      BY <1>4 DEF Init, Phase
<1> QED BY <1>1, <1>2, <1>3, <1>5 DEF ServiceInv, Service!Init, Init

LEMMA ServiceInvNext == ServiceInv /\ [Next]_vars => ServiceInv'
<1> SUFFICES ASSUME ServiceInv, [Next]_vars
             PROVE  ServiceInv'
    OBVIOUS
<1>1. Sound
      BY DEF ServiceInv, AllPlaced
<1> QED BY <1>1, PlacedNext, CountedNext, InPhaseNext, SomebodyWorksNext DEF ServiceInv

LEMMA ServiceNext == ServiceInv /\ [Next]_vars => ServiceStep
<1> SUFFICES ASSUME ServiceInv, [Next]_vars
             PROVE  ServiceStep
    OBVIOUS
<1> USE DEF loop, pool, resolver, history
<1>1. AllPlaced
      BY DEF ServiceInv
<1>2. CASE \/ BeginCalls \/ TimedDone \/ PollReturns \/ SocketEvent \/ Measure \/ Grow
           \/ SigInt \/ UNCHANGED vars \/ \E n \in Sizes : Resize(n)
  <2>1. UNCHANGED <<stopped, accepted, timers, fired>>
        BY <1>2 DEF BeginCalls, TimedDone, PollReturns, SocketEvent, Measure, Grow, SigInt,
           vars, Resize
  <2>2. \/ at' = at
        \/ at \notin {"join", "ended"} /\ at' \notin {"join", "ended"}
    <3>1. back \notin {"join", "ended"}
          BY <1>1 DEF AllPlaced, Sound, Typed
    <3> QED BY <1>2, <3>1 DEF BeginCalls, TimedDone, PollReturns, SocketEvent, Measure,
            Grow, SigInt, vars, Resize, UserCode
  <2>3. UNCHANGED Phase
        BY <2>1, <2>2 DEF Phase
  <2> QED BY <1>1, <1>2, <2>1, <2>3, OthersStay, ServiceStutters
<1>3. CASE Stop
  <2>1. UNCHANGED <<accepted, timers, fired>> /\ Phase = "running" /\ Phase' = "stopping"
        BY <1>3 DEF Stop, UserCode, Phase
  <2> QED BY <1>1, <1>3, <2>1, OthersStay, StopGoesOn
<1>4. CASE StopPool
  <2>1. UNCHANGED <<accepted, timers, fired>> /\ Phase = "stopping" /\ Phase' = "finishing"
        BY <1>4 DEF StopPool, Phase
  <2> QED BY <1>1, <1>4, <2>1, OthersStay, StopGoesOn
<1>5. CASE Joined
  <2>1. /\ UNCHANGED <<accepted, timers, fired>> /\ AllGone /\ at = "join"
        /\ Phase = "finishing" /\ Phase' = "ended"
        BY <1>5 DEF Joined, Phase
  <2>2. \A j \in Job : ~ToBeDone(j)
        BY <2>1, AllDone DEF ServiceInv, InPhase
  <2> QED BY <1>1, <1>5, <2>1, <2>2, OthersStay, StopGoesOn
<1>6. CASE DropCalls
  <2>1. UNCHANGED <<accepted, timers, fired, Phase, q, work, threads>>
        BY <1>6 DEF DropCalls, Phase
  <2>2. \A j \in Job : Undelivered(j) = {} <=> Undelivered(j)' = {}
        BY <1>1, <1>6, DropKeeps DEF AllPlaced
  <2>3. Busy' = Busy /\ Is({"report"})' = Is({"report"})
        BY <2>1 DEF Busy, Is
  <2>4. JobsStay
        BY <2>1, <2>2, <2>3 DEF JobsStay, ToBeDone, HasResult
  <2> QED BY <2>1, <2>4, ServiceStutters
<1>7. ASSUME NEW w \in Worker, Pool(w), ~Finish(w)
      PROVE  ServiceStep
  <2>1. UNCHANGED <<at, stopped, accepted, timers, fired>>
        BY <1>7 DEF Pool, Take, Begin, AskReactor, AwaitAnswer, GetAnswer, Report,
           GoOn, Quit, Queues, Wakes
  <2>2. UNCHANGED Phase
        BY <2>1 DEF Phase
  <2>3. JobsStay
        BY <1>1, <1>7, TakeStays, ReportStays, OthersStay DEF Pool
  <2> QED BY <2>1, <2>2, <2>3, ServiceStutters
<1> QED
    BY <1>2, <1>3, <1>4, <1>5, <1>6, <1>7, MakeCallServes, FinishServes, SubmitServes,
       TimeoutServes
    DEF Next, Reactor, MainLoop, StartWorkers, User

\* The pool and the reactor implement JobService: every accepted job is run, its
\* Deferred fired once, and the stop joins the threads when all jobs are done, those
\* included that were given after stop()
\* (threadpool.py:100-236, base.py:236-254, :787-806).
THEOREM ServesJobs == Spec => ImplementsService
<1>1. Spec => []ServiceInv
      BY ServiceStarts, ServiceInvNext, PTL DEF Spec
<1>2. ServiceInv /\ [Next]_vars => [Service!Next]_(Service!vars)
      BY ServiceNext DEF ServiceStep
<1> QED BY <1>1, <1>2, ServiceStarts, PTL DEF Spec, ImplementsService, Service!Spec
=============================================================================
