--------------------------- MODULE ReactorThreads ---------------------------
(***************************************************************************)
(* Threads around Twisted's reactor, on which the client and the server in *)
(* src/python/python3/socket run: the thread pool, the queue of calls that *)
(* other threads leave for the reactor with the pipe that wakes it up, the *)
(* resolver that looks names up in the pool with a timeout, and the stop.  *)
(*                                                                         *)
(* The reactor thread never shares a lock with the workers: it relies on   *)
(* the atomicity of single list and queue operations, so these are the     *)
(* steps of the model.  A job is one call of deferToThreadPool: f, its     *)
(* Deferred, and for a lookup the user's Deferred and the timeout.  The    *)
(* jobs of Asks call blockingCallFromThread while they run.                *)
(***************************************************************************)
EXTENDS Integers, Sequences, FiniteSets, SequencesExt

CONSTANTS
  Job, Lookup, Asks,
  Worker,   \* bound: threads that are there at the same time
  Sizes,    \* the sizes given to suggestThreadPoolSize
  MaxSize   \* the size the pool begins with

ASSUME ThreadsAssumption ==
  /\ Lookup \subseteq Job /\ Asks \subseteq Job
  /\ IsFiniteSet(Worker) /\ Sizes \subseteq Nat \ {0} /\ MaxSize \in Nat \ {0}
  /\ Job \cap {"stop", "nobody"} = {} /\ Job \cap Worker = {}

\* The calls in threadCallQueue: a job's result for its Deferred, the function
\* a worker waits for, reactor.stop from a signal handler.
Call == [what : {"result", "ask"}, job : Job] \cup [what : {"stop"}]
Result(j) == [what |-> "result", job |-> j]
Ask(j) == [what |-> "ask", job |-> j]
StopCall == [what |-> "stop"]

VARIABLES
  at,        \* where the reactor thread is in its main loop
  back,      \* where the user's code goes on when the pool has started threads
  total, count,  \* of runUntilCurrent
  size,      \* the queue's size, as _startSomeWorkers has read it
  stopped,   \* _stopped and _justStopped
  calls,     \* threadCallQueue
  waker,     \* there is a byte in the waker's pipe
  q, workers, max, joined,  \* of the ThreadPool
  threads,   \* where each thread of the pool is
  work,      \* the job it has
  answers,   \* the jobs with an answer in the Queue of blockingCallFromThread
  queries,   \* _runningQueries
  timers,    \* the timeouts in the reactor's heap
  fired,     \* how often each user's Deferred was fired (history)
  accepted,  \* the jobs that were given to the pool (history)
  unseen     \* _startSomeWorkers overlooked a job (history)

loop == <<at, back, total, count, size, stopped>>
pool == <<q, workers, max, joined>>
resolver == <<answers, queries, timers>>
history == <<accepted, unseen>>
vars == <<at, back, total, count, size, stopped, calls, waker, q, workers, max, joined,
          threads, work, answers, queries, timers, fired, accepted, unseen>>

Place == {"none", "get", "got", "working", "ask", "wakeask", "asked", "report",
          "wake", "quit"}
Is(place) == {w \in Worker : threads[w] \in place}
Busy == Is({"got", "working", "ask", "wakeask", "asked"})
Jobs(s) == {s[i] : i \in DOMAIN s} \cap Job
Sentinels == {i \in DOMAIN q : q[i] = "stop"}

TypeOK ==
  /\ at \in {"run", "call", "drop", "timed", "poll", "measure", "grow", "join",
             "ended"}
  /\ back \in {"run", "call", "drop", "timed"}
  /\ total \in Nat /\ count \in 0..total /\ size \in Nat
  /\ stopped \in {"no", "just", "yes"}
  /\ calls \in Seq(Call) /\ waker \in BOOLEAN
  /\ q \in Seq(Job \cup {"stop"})
  /\ workers \in Nat /\ max \in Sizes \cup {MaxSize} /\ joined \in BOOLEAN
  /\ threads \in [Worker -> Place]
  /\ work \in [Worker -> Job \cup {"nobody"}]
  /\ answers \subseteq Asks /\ queries \subseteq Lookup /\ timers \subseteq Lookup
  /\ fired \in [Job -> 0..1]
  /\ accepted \subseteq Job /\ unseen \in BOOLEAN

\* The reactor runs and its pool has started, with no thread (min is 0).
Init ==
  /\ at = "run" /\ back = "run" /\ total = 0 /\ count = 0 /\ size = 0 /\ stopped = "no"
  /\ calls = <<>> /\ waker = FALSE
  /\ q = <<>> /\ workers = 0 /\ max = MaxSize /\ joined = FALSE
  /\ threads = [w \in Worker |-> "none"] /\ work = [w \in Worker |-> "nobody"]
  /\ answers = {} /\ queries = {} /\ timers = {}
  /\ fired = [j \in Job |-> 0]
  /\ accepted = {} /\ unseen = FALSE

-----------------------------------------------------------------------------
\* The reactor thread: runUntilCurrent.

\* The calls that are in the queue now are made, and only these.
BeginCalls ==
  /\ at = "run"
  /\ at' = IF calls = <<>> THEN "timed" ELSE "call"
  /\ total' = Len(calls) /\ count' = 0
  /\ UNCHANGED <<back, size, stopped, calls, waker, pool, threads, work, resolver,
                 fired, history>>

\* ThreadedResolver._checkTimeout, or the Deferred of a job of the user's own.
FireTimerLeft(j) ==
  IF j \in Lookup /\ j \notin queries
  THEN UNCHANGED <<queries, timers, fired>>
  ELSE /\ queries' = queries \ {j} /\ UNCHANGED timers
       /\ fired' = [fired EXCEPT ![j] = @ + 1]
Fire(j) ==
  IF j \in Lookup /\ j \notin queries
  THEN UNCHANGED <<queries, timers, fired>>
  ELSE /\ queries' = queries \ {j} /\ timers' = timers \ {j}
       /\ fired' = [fired EXCEPT ![j] = @ + 1]

\* One call of the queue; what it raises is logged and the loop goes on.
MakeCall ==
  /\ at = "call"
  /\ LET c == calls[count + 1] IN
     \/ /\ c.what = "result" /\ Fire(c.job)
        /\ UNCHANGED <<stopped, answers>>
     \/ /\ c.what = "ask"
        /\ answers' = answers \cup {c.job}
        /\ UNCHANGED <<stopped, queries, timers, fired>>
     \/ /\ c.what = "stop"
        /\ stopped' = IF stopped = "no" THEN "just" ELSE stopped
        /\ UNCHANGED <<resolver, fired>>
  /\ count' = count + 1
  /\ at' = IF count' = total THEN "drop" ELSE "call"
  /\ UNCHANGED <<back, total, size, calls, waker, pool, threads, work, history>>

DropAll == <<>>
DropMade == SubSeq(calls, count + 1, Len(calls))

DropCalls ==
  /\ at = "drop"
  /\ calls' = DropMade
  /\ waker' = (waker \/ calls' # <<>>)
  /\ at' = "timed" /\ total' = 0 /\ count' = 0
  /\ UNCHANGED <<back, size, stopped, pool, threads, work, resolver, fired, history>>

ForgetQuery(j) == queries \ {j}

\* ThreadedResolver._cleanup, when the timeout is due before the answer, which may
\* be at once.
Timeout(j) ==
  /\ at = "timed" /\ j \in timers
  /\ timers' = timers \ {j} /\ queries' = ForgetQuery(j)
  /\ fired' = [fired EXCEPT ![j] = @ + 1]
  /\ UNCHANGED <<answers, loop, calls, waker, pool, threads, work, history>>

TimedDone ==
  /\ at = "timed" /\ stopped # "just"
  /\ at' = "poll"
  /\ UNCHANGED <<back, total, count, size, stopped, calls, waker, pool, threads, work,
                 resolver, fired, history>>

NoSentinels == q
SentinelsFirst == [i \in 1..workers |-> "stop"] \o q
OneSentinelEach == q \o [i \in 1..workers |-> "stop"]

\* The shutdown event: crash ends the loop, then the pool is stopped, with a
\* WorkerStop for each worker behind the jobs that wait.
StopPool ==
  /\ at = "timed" /\ stopped = "just"
  /\ stopped' = "yes"
  /\ joined' = TRUE
  /\ q' = OneSentinelEach /\ workers' = 0
  /\ at' = "join"
  /\ UNCHANGED <<back, total, count, size, calls, waker, max, threads, work, resolver,
                 fired, history>>

AllGone == Is({"none"}) = Worker

\* The reactor thread joins every thread of the pool and leaves its main loop.
Joined ==
  /\ at = "join" /\ AllGone
  /\ at' = "ended"
  /\ UNCHANGED <<back, total, count, size, stopped, calls, waker, pool, threads, work,
                 resolver, fired, history>>

-----------------------------------------------------------------------------
\* The reactor thread: doIteration.

\* The byte in the pipe, or a timeout that is due, ends the wait.
PollReturns ==
  /\ at = "poll" /\ (waker \/ timers # {})
  /\ at' = "run" /\ waker' = FALSE
  /\ UNCHANGED <<back, total, count, size, stopped, calls, pool, threads, work,
                 resolver, fired, history>>

\* A socket, or a timed call of the user's.
SocketEvent ==
  /\ at = "poll" /\ at' = "run"
  /\ UNCHANGED <<back, total, count, size, stopped, calls, waker, pool, threads,
                 work, resolver, fired, history>>

-----------------------------------------------------------------------------
\* The user's code in the reactor thread: an event of a socket before
\* runUntilCurrent, the callbacks of a call that was just made, a timed call, and
\* connectionLost when the shutdown begins.

UserCode == at \in {"run", "drop", "timed"} \/ (at = "call" /\ count > 0)

\* deferToThreadPool, for a lookup within getHostByName; also after a stop.
Submit(j) ==
  /\ UserCode /\ ~joined /\ j \notin accepted
  /\ accepted' = accepted \cup {j}
  /\ q' = Append(q, j)
  /\ queries' = queries \cup ({j} \cap Lookup)
  /\ timers' = timers \cup ({j} \cap Lookup)
  /\ at' = "measure" /\ back' = at
  /\ UNCHANGED <<total, count, size, stopped, calls, waker, workers, max, joined,
                 threads, work, answers, fired, unseen>>

\* adjustPoolsize: too many workers are stopped first.
Resize(n) ==
  LET surplus == IF workers > n THEN workers - n ELSE 0 IN
  /\ UserCode /\ ~joined /\ n # max /\ Cardinality(Is({"none"})) >= n
  /\ max' = n
  /\ q' = q \o [i \in 1..surplus |-> "stop"]
  /\ workers' = workers - surplus
  /\ at' = "measure" /\ back' = at
  /\ UNCHANGED <<total, count, size, stopped, calls, waker, joined, threads, work,
                 resolver, fired, history>>

\* reactor.stop, as tcptscli.py does when the connection is lost: the flags are
\* set and the user's code goes on.
Stop ==
  /\ UserCode /\ stopped = "no"
  /\ stopped' = "just"
  /\ UNCHANGED <<at, back, total, count, size, calls, waker, pool, threads, work, resolver,
                 fired, history>>

\* _startSomeWorkers reads the size of the queue and then the length of the
\* list of working threads, while the workers go on.
Measure ==
  /\ at = "measure" /\ size' = Len(q) /\ at' = "grow"
  /\ UNCHANGED <<back, total, count, stopped, calls, waker, pool, threads, work,
                 resolver, fired, history>>

QueuedOnly == size
WorkingOnly == Cardinality(Is({"working", "ask", "wakeask", "asked"}))
Needed == size + Cardinality(Is({"working", "ask", "wakeask", "asked"}))

\* n threads that are not there yet: which ones makes no difference.
Fresh(n) == {new \in SUBSET Is({"none"}) : Cardinality(new) = n}

Grow ==
  LET wanted == IF Needed < max THEN Needed ELSE max IN
  /\ at = "grow" /\ at' = back /\ back' = "run" /\ size' = 0
  /\ workers' = IF wanted > workers THEN wanted ELSE workers
  /\ LET fresh == Fresh(workers' - workers)
         new == CHOOSE threadsStarted \in fresh : TRUE
     IN /\ fresh # {}
        /\ threads' = [w \in Worker |-> IF w \in new THEN "get" ELSE threads[w]]
  /\ unseen' = (unseen \/ Is({"got"}) # {})
  /\ UNCHANGED <<total, count, stopped, calls, waker, q, max, joined, work,
                 resolver, fired, accepted>>

-----------------------------------------------------------------------------
\* A thread of the pool (ThreadPool._worker).

Goes(w, from, to) == threads[w] = from /\ threads' = [threads EXCEPT ![w] = to]

Take(w) ==
  /\ q # <<>> /\ q' = Tail(q)
  /\ Goes(w, "get", IF Head(q) = "stop" THEN "quit" ELSE "got")
  /\ work' = [work EXCEPT ![w] = IF Head(q) = "stop" THEN "nobody" ELSE Head(q)]
  /\ UNCHANGED <<loop, calls, waker, workers, max, joined, resolver, fired,
                 history>>

Begin(w) ==
  /\ Goes(w, "got", IF work[w] \in Asks THEN "ask" ELSE "working")
  /\ UNCHANGED <<loop, calls, waker, pool, work, resolver, fired, history>>

\* callFromThread: the call is queued, and then the reactor is woken up.
Queues(call) ==
  /\ calls' = Append(calls, call)
  /\ UNCHANGED <<loop, waker, pool, resolver, fired, history>>

WakesIfFirst == Len(calls) = 1
WakesReactor == TRUE

Wakes(w, from, to) ==
  /\ Goes(w, from, to)
  /\ waker' = (waker \/ WakesReactor)
  /\ UNCHANGED <<loop, calls, pool, work, resolver, fired, history>>

\* blockingCallFromThread within the job, which then waits for its answer.
AskReactor(w) ==
  Goes(w, "ask", "wakeask") /\ Queues(Ask(work[w])) /\ UNCHANGED work
AwaitAnswer(w) == Wakes(w, "wakeask", "asked")
GetAnswer(w) ==
  /\ work[w] \in answers /\ answers' = answers \ {work[w]}
  /\ Goes(w, "asked", "working")
  /\ UNCHANGED <<loop, calls, waker, pool, work, queries, timers, fired, history>>

\* The job returns or raises; either way it has a result.
Finish(w) ==
  /\ Goes(w, "working", "report")
  /\ UNCHANGED <<loop, calls, waker, pool, work, resolver, fired, history>>

\* onResult, in the thread of the pool.
Report(w) ==
  /\ Goes(w, "report", "wake") /\ Queues(Result(work[w]))
  /\ work' = [work EXCEPT ![w] = "nobody"]
GoOn(w) == Wakes(w, "wake", "get")

Quit(w) ==
  /\ Goes(w, "quit", "none")
  /\ UNCHANGED <<loop, calls, waker, pool, work, resolver, fired, history>>

\* SIGINT: the handler runs in the reactor thread and uses callFromThread.
SigInt ==
  /\ at # "ended" /\ StopCall \notin {calls[i] : i \in DOMAIN calls}
  /\ stopped = "no"
  /\ calls' = Append(calls, StopCall) /\ waker' = TRUE
  /\ UNCHANGED <<loop, pool, threads, work, resolver, fired, history>>

MainLoop == \/ BeginCalls \/ MakeCall \/ DropCalls \/ TimedDone \/ StopPool
            \/ Joined \/ PollReturns
StartWorkers == Measure \/ Grow
Reactor == MainLoop \/ SocketEvent \/ StartWorkers
User == \/ \E j \in Job : Submit(j)
        \/ \E n \in Sizes : Resize(n)
        \/ Stop \/ SigInt
Pool(w) == \/ Take(w) \/ Begin(w) \/ AskReactor(w) \/ AwaitAnswer(w) \/ GetAnswer(w)
           \/ Finish(w) \/ Report(w) \/ GoOn(w) \/ Quit(w)

Next == \/ Reactor \/ User
        \/ \E j \in Lookup : Timeout(j)
        \/ \E w \in Worker : Pool(w)

Spec == Init /\ [][Next]_vars

\* The threads are scheduled and the functions given to them return; and so does
\* the user's code to the reactor, though it may call the pool first.
FairSpec == /\ Spec
            /\ SF_vars(MainLoop) /\ WF_vars(StartWorkers)
            /\ \A w \in Worker : WF_vars(Pool(w))

-----------------------------------------------------------------------------
\* Properties.

\* The results in threadCallQueue that runUntilCurrent has still to deliver.
Undelivered(j) == {i \in DOMAIN calls : calls[i] = Result(j) /\ i > count}

Places(j) == Cardinality({i \in DOMAIN q : q[i] = j})
             + Cardinality({w \in Busy \cup Is({"report"}) : work[w] = j})
             + Cardinality(Undelivered(j))

\* A job's result is neither lost nor doubled on its way from the pool's queue
\* through a thread and threadCallQueue to the reactor (base.py:790-806 removes
\* the calls it made while other threads append), the reactor's end included.
OneResult ==
  \A j \in accepted : IF j \in Lookup THEN j \in queries => Places(j) = 1
                      ELSE Places(j) + fired[j] = 1

\* The user of a lookup is answered once, by the answer or by the timeout,
\* whatever comes first or comes late (base.py:236-252), and a timeout is
\* pending just as long as its query is.
AnsweredOnce ==
  /\ timers = queries
  /\ \A j \in Lookup \cap accepted :
       fired[j] <= 1 /\ (j \in queries <=> fired[j] = 0)

\* `workers' counts the threads that no WorkerStop is meant for, so that stop
\* puts one for each (threadpool.py:104, :120, :228-230).
WorkersCounted ==
  Cardinality(Worker \ Is({"none", "quit"})) = workers + Cardinality(Sentinels)

\* A reactor that waits in poll with calls in its queue is woken up: there is a
\* byte in the pipe, or the thread that queued the call is about to write it.
ReactorWoken ==
  at = "poll" /\ calls # <<>> => waker \/ Is({"wake", "wakeask"}) # {}

\* "Create enough, but not too many" (threadpool.py:106): every job waiting or
\* at work has a thread, up to the maximum, unless _startSomeWorkers looked
\* while a thread had taken a job and was not yet in `working'.
EnoughThreads ==
  ~unseen /\ ~joined /\ at \notin {"measure", "grow"}
    => workers >= max \/ workers >= Cardinality(Busy) + Cardinality(Jobs(q))

\* For JobService: where an accepted job is, and how far the stop has come.
ToBeDone(j) == (\E i \in DOMAIN q : q[i] = j) \/ \E w \in Busy : work[w] = j
HasResult(j) == (\E w \in Is({"report"}) : work[w] = j) \/ Undelivered(j) # {}
Phase == IF at = "ended" THEN "ended" ELSE IF at = "join" THEN "finishing"
         ELSE IF stopped = "no" THEN "running" ELSE "stopping"

\* The reactor and its pool implement JobService: a job that was accepted is run
\* and its Deferred fired once, whether a lookup times out or not; and the stop
\* joins the threads only after they have run every job that was accepted, those
\* included that the user gave after stop()
\* (threadpool.py:100-236, base.py:236-254, :787-806).
Service == INSTANCE JobService WITH
  waiting <- {j \in Job : ToBeDone(j)},
  done <- {j \in Job : HasResult(j)},
  open <- timers,
  phase <- Phase
ImplementsService == Service!Spec

\* As long as nobody stops the reactor every Deferred of a job is fired.
AllAnswered ==
  \A j \in Job : (j \in accepted) ~> (fired[j] = 1 \/ stopped # "no")

\* The stop of the reactor comes to its end, or a thread waits in
\* blockingCallFromThread for the reactor, which waits for that thread.
StopReturns == (stopped = "yes") ~> (at = "ended" \/ Is({"asked"}) # {})
=============================================================================
