# A TLA+ verification project for myGitCode

The repository ("Embedded Develop Base") collects the programs and notes of an
embedded developer. Most of it is vendored code, manuals and one-page exercises. Three
bodies of logic are worth a specification:

- a multi-threaded **web crawler** (`src/webcrawler_eg`, about 4,100 lines of C++),
- the **voice module** of a telephone gateway (`src/module/voice`, about 4,300 lines of C),
- the part of the vendored **Twisted 15.2.1** that the repository's own TCP client and
  server (`src/python/python3/socket/tcptscli.py`, `tcptsser.py`) run on: the reactor with
  its threads, and the Deferred.

This directory models them, checks the models with TLC, and proves with TLAPS every safety
property that a passing run checks.

Contents: [inventory](#1-inventory), [modules](#2-the-modules),
[runs](#3-the-runs), [findings](#4-what-the-runs-found),
[proofs](#5-what-is-proved), [limits](#6-what-is-only-checked-and-what-is-left-out),
[plan](#7-plan). `PROJECT.json` lists components, runs, hazards, theorems, and for
every definition the lines it models.

## 1. Inventory

### The web crawler

Main thread: `WebCrawler::exec`, a loop around `epoll_wait`. Other threads: one DNS
thread, one send thread, one receive thread for each socket that epoll reports.
SIGALRM prints statistics.

| part | state | operations |
|---|---|---|
| `UrlQueues` | raw queue, dns queue, each with a mutex and two condition variables; limits `MAX_RAW_URLS`, `MAX_DNS_URLS` | `pushRawUrl`, `popRawUrl`, `clearRawUrl`, `pushDnsUrl`, `popDnsUrl`, and the `empty`/`full`/`size` tests |
| `BloomFilter` | bit table | `exist`, which also marks; it runs in the raw queue's critical section |
| plugins | configuration | `MaxDepth`, `DomainLimit` accept or refuse a URL; `SaveImageToFile` pushes image URLs; `HeaderFilter` refuses pages |
| `DnsThread` | host cache, URL in hand | pops raw, resolves, pushes dns |
| `SendThread`, `startJob` | `m_curJobs`, `m_mutex`, `m_cond` | waits for a free job, pops dns, connects and sends, counts the job |
| `RecvThread`, `stopJob` | socket, page, success and failure counts | receives, extracts links and pushes them, counts the job down |
| `exec` | epoll set | seeds, dispatch of ready sockets, end test, jam test |

How they interact: raw queue -> DNS thread -> dns queue -> send thread -> socket ->
receive thread -> raw queue. It is a loop of bounded buffers, so it can fill up and
stop, and `exec` has a jam test (`WebCrawler.cpp:101`) that throws the raw queue away
to get it going again. Hard: signals sent on one exact size, `m_mutex` held over a
wait, counters read without their lock, a job counted after its socket is live.
Correct means: no URL fetched twice, no thread asleep on a condition that holds, the
job count right and within its limit, the crawl ending exactly when it is complete.

### The voice module

One voice thread takes indications and requests from `jan_voice_q`, one after the
other. The modem's callback (`jan_voice_al_msg_cb`) runs in the modem's thread, the
5 s alarm of the last key is a signal handler, the 15 s wait timer has a thread, and
so has the sending of DTMF tones.

| part | state | operations |
|---|---|---|
| call state machine (`voice_core.c`) | `curr_status`, `late_status`, number, `is_incoming`, `is_online`, `tone_flag`, `dev_state` | device events (on-hook, off-hook, digit), network events, `status_handle`, alarm, wait timer |
| application layer (`voice_al.c`) | `g_call_info`, `g_third_call_info` | modem callback, dial, answer, end |
| tones (`voice_core.c`, `voice_al.c`) | `jan_dtmf_queue` (`head`, `tail`, digits), mutex and `jan_key_signal` | a key in a conversation adds a tone, on-hook clears the queue, the DTMF thread sends tone after tone |
| call records (`voice_core.c`, `list.c`) | four lists, id mask | add, limit, delete, list, count, initialise |
| table (`voice_datastore.c`) | rows of `CallRecord` | insert, limit, delete, read back |
| `voice.c` | `jan_voice_q` | dispatch of commands and indications |

Hard: two status variables written by three threads of control without a lock;
copies of the modem's state that go stale; an alarm that outlives the call it belongs
to; a queue that one thread fills and clears without the mutex under which the other
reads it; lists that share nodes and are trimmed separately; the process dying between
lists and table. Correct means: after a call nothing of it is left, the phone rings for
calls only, a number is what the user dialled, a tone goes once and to the call it was
pressed in, a record says what happened, an id names one record.

### Twisted: the reactor, its threads, and the Deferred

One thread runs the main loop (`runUntilCurrent`, `doIteration`). Other threads are those
of the thread pool; signal handlers run in the reactor thread, between any two steps of it.

| part | state | operations |
|---|---|---|
| main loop (`internet/base.py`) | `threadCallQueue`, the heap of timed calls, `_stopped`, `_justStopped` | `runUntilCurrent`, `callFromThread`, `stop`, `sigInt`, `suggestThreadPoolSize` |
| waker (`internet/posixbase.py`) | a pipe that is readable or not | `wakeUp`, `doRead` |
| `ThreadPool` (`python/threadpool.py`) | `q`, `workers`, `threads`, `working`, `max`, `joined` | `callInThreadWithCallback`, `_startSomeWorkers`, `startAWorker`, `stopAWorker`, `adjustPoolsize`, `stop`, `_worker` |
| calls between threads (`internet/threads.py`) | the `Queue` a thread waits at | `deferToThreadPool`, `blockingCallFromThread` |
| `ThreadedResolver` (`internet/base.py`) | `_runningQueries` with their timeouts | `getHostByName`, `_checkTimeout`, `_cleanup` |
| `Deferred` (`internet/defer.py`) | `called`, `result`, `paused`, `callbacks`, `_runningCallbacks`, `_suppressAlreadyCalled`, `_debugInfo` | `addCallbacks`, `callback`, `errback`, `pause`, `unpause`, `cancel`, `_runCallbacks` |

How they interact: a job goes into the pool's queue, a thread runs it and leaves the result
in `threadCallQueue`, wakes the reactor, and the reactor fires the Deferred. Hard: there is
no lock at all, everything rests on single list and queue operations being atomic; the size
of the pool is computed from two readings taken one after the other; a timeout races the
answer; stopping joins threads that may be waiting for the reactor; a Deferred's callbacks
are the user's code and may enter `_runCallbacks` again. Correct means: no result lost or
doubled, the reactor woken whenever there is work for it, a lookup answered once, enough
threads, a stop that ends; no callback inside another one of the same Deferred, none without
a result, no wait forgotten, no error reported twice or lost.

### The rest

Listed in `PROJECT.json` as not modelled, with the reason: `utils` (also at
`module/utils`, mostly the code of an embedded web server; `list.c` is modelled where the
records use it), the SQLite API, Python and shell tools, logging, small C programs,
face detection clients, and vendored material (the rest of Twisted, pip, pyserial, curl,
json-c, the sources of a textbook).

## 2. The modules

| module | what it is |
|---|---|
| `UrlQueues` | the two queues as monitors, the filter, the verdict of the URL plugins; actions parameterised by the calling thread |
| `WebCrawler` | all threads of the crawler on top of `UrlQueues`; properties |
| `CrawlFrontier` | abstract specification: a URL is taken up at most once, fetched at most once and only after it was taken up; nothing happens after the end |
| `MCWebCrawler` | small webs for TLC |
| `WebCrawler_proofs`, `AtMostOnce_proofs`, `Jobs_proofs` | theorems about `WebCrawler`, among them that it implements `CrawlFrontier` |
| `VoiceCall`, `MCVoiceCall`, `VoiceCall_proofs` | the call state machine with the phone, the modem and both timers |
| `VoiceTones`, `MCVoiceTones`, `VoiceTones_proofs` | the tone queue between voice thread and DTMF thread |
| `CallRecords`, `MCCallRecords`, `CallRecords_proofs` | lists, id mask and table of the call records, with restarts |
| `ReactorThreads`, `MCReactorThreads`, `ReactorThreads_proofs` | main loop, call queue and waker, thread pool, resolver, stop |
| `JobService` | abstract specification of pool and reactor: an accepted job is done and its user answered once; jobs are accepted, also after a stop was asked for, until the pool is being stopped; from then on nobody is answered, and the stop ends when every accepted job is done |
| `Deferreds`, `MCDeferreds`, `Deferreds_proofs` | the class `Deferred` |

**Crawler.** A critical section that does not wait is one step; a call that waits is
split where `pthread_cond_wait` gives up the mutex (`noFull`, `noEmpty` hold the
sleepers; spurious wakeups happen). `main.at`, `dns.at`, `send.at` and `stage[u]` say
where each thread is; a receive thread is named by the URL of its page. `startJob` is
`startJob` (lock and wait on `m_cond`), `SendPop` (pop with `m_mutex` held),
`SendRequest` (the socket is live from here) and `CountJob` (`++m_curJobs`). The three
conjuncts of the end and jam tests are three reads (`Check`), so that values of
different moments are combined as in the code. The web is a constant (`Links`,
`Images`, `Host`), the hash functions are a constant (`Hash`: positions per URL, so
false positives can be chosen). Failures: a name that does not resolve, a connection
that fails, a page that is refused, an error event from epoll.

**VoiceCall.** A handler of the voice thread is three steps, because timers write the
states between them: it takes an indication and decides `late_status`; it compares
both and runs `status_handle`; it commits `curr_status`. `g_call`, `g_third` are the
module's copies, `radio` the modem's own calls. Phone and modem are external and
modelled from the indications the code handles: a call can be offered, progress, end or
be indicated again at any time. A second call waits behind a conversation, or rings beside a
call that is being disconnected; a call that is over (`Over`) is listed as disconnecting in any
number of indications before the one of its end, or ends at once. Numbers are
lengths. `slips` is a history variable: it names the weak spots of the code that a
behaviour has run into (a timer that ended a call in use, the assignment in place of a
comparison at `voice_core.c:1639`, a digit that could not be read, the third-call
branch of on-hook, a stale `dev_state`, a lift that answers a newer call than the one it was
meant for). Properties of the form `Without({..}) /\ ..` hold whatever else happens, and name
exactly the spots that break them: leaving one out of the set makes TLC find a
counterexample, for each of the properties. `AnsweredNotMissed` has one exception more, of two
calls and not of a spot (`RingsBeside`): a call rings beside the answered one that is still
being disconnected.

**VoiceTones.** The two threads share `head`, `tail` and the digits, and only one of them
takes the mutex; so a step is a single read or write of them. `dtmf` is the place of the
DTMF thread in its loop (`voice_al.c:643-675`): it tests, goes to sleep, waits, checks, and
takes, starts and stops a tone; `head++` is a read and a write. `voice` is the place of the
voice thread: after a key it has still to signal, after `head = 0` it has still to write
`tail`. A tone is the number of its key press, so that one sent twice, or into another call,
is seen; `g_call_info`, which says where a tone goes, is the set of the keys pressed in the call it
names (`call`), and `CallChanges` is the modem's thread (`voice_al.c:332`, `:343`) or a dialling that
puts another call there, at any time and without a hang-up. `handed` (a history) holds the keys whose
tones stood in the queue then. `slips` holds what has happened at the three weak spots: `window` (the queue was
cleared under a thread that was about to take a tone), `cut` (the handset went down while a
tone was on its way), `lost` (a signal found nobody waiting, or no digit at `head`).

**CallRecords.** A record is its call, id and type. `AddRecord` and the deletes change
lists and mask, `DatastoreInsert` and `DatastoreDelete` are the statements on the
table that the same handler runs next, and `Restart` may come between them. The searches
of the code (`FreeId`, the first free bit; `First`, the first record with an id) are the
sets of what they find, and what a restart reads back is the set of rows in order
(`Ordered`). The schema of the table is not in the repository, so `keyed` (is ID a key?) is
chosen once and both are explored. Every statement may be refused by the database, or the
SELECT broken off (`ReadBack`), for no caller looks at its answer; two histories name what
this does: `astray`, the ids with a row that the lists do not know of, and `unwritten`, the
records whose INSERT was refused. The fault in `ordered_list_pop_item` sets `alive` to FALSE.

**ReactorThreads.** `at` is the place of the reactor thread in its loop, `threads[w]` that of
a thread of the pool. A step is one list, queue or pipe operation: `BeginCalls` reads the
length of `threadCallQueue`, `MakeCall` makes one call, `DropCalls` cuts the calls that were
made off the front; `Measure` reads the size of the pool's queue and `Grow` the number of
working threads; a thread appends its result (`Report`) and wakes the reactor after it
(`GoOn`). A thread that has taken a job and is not in `working` yet is at `got`. The timeout
of a lookup is a timed call that may be due at any turn. User code submits jobs, resizes the
pool and stops the reactor wherever the reactor runs it (`UserCode`): after an event of a
socket, after a call of `threadCallQueue` was made, at the timed calls, and in `connectionLost`
when the shutdown begins; `back` is where it goes on when the pool has looked for threads to
start. `reactor.stop` only sets flags: the same callback, and what else runs until the pool is
`joined`, may still submit jobs. SIGINT stops the reactor through `callFromThread`. `fired` and `accepted` are histories, `unseen` records that
`_startSomeWorkers` looked while a thread was at `got`. In `JobService` a job waits while it is in
the pool's queue or in a thread, and its result is there from the end of its function until the
reactor calls it (`ToBeDone`, `HasResult`); the phase of the service is how far the stop has come
(`Phase`).

**Deferreds.** `stack` holds the activations of `_runCallbacks` and of cancellers, the last
one acting: a frame is looking at the last Deferred of its chain, at that one's callbacks, or
inside a callback. While the top frame is in a callback or canceller (or there is none), the
user's code acts, on any Deferred. A Deferred as an element of `callbacks` is its
`_continuation`. `held` (pauses of the user), `refused` (`AlreadyCalledError` was raised) and
`left` (a supplier that `_runCallbacks` left with callbacks) are histories. What a callback is
given is a value or a Failure, and the two callables of a pair are one: both are the user's.

## 3. The runs

| run | question | instance | result |
|---|---|---|---|
| `crawl_safety` | safety and refinement of `CrawlFrontier` under all interleavings, errors and spurious wakeups | 6 URLs (one off limits, one a false positive), raw 2, dns 1, 3 jobs, depth 1 | holds, 31,472 states |
| `crawl_jam` | a jam is noticed and cleared, pushes go on, the crawl ends | 5 URLs, all limits 1 | holds, 28,524 states |
| `crawl_hang` | does the crawl end? | 4 URLs, 2 jobs | violated |
| `crawl_early_exit` | does the end mean complete? | 4 URLs, 2 jobs | violated |
| `voice_call` | what the call state machine keeps | 2 calls, 2 lifts, 2 keys, queue 3, numbers of 1 digit, 1 tone | holds, 6,705,805 states |
| `voice_third` | is the third call woken up one that was not answered? | 2 calls, 2 lifts | violated |
| `voice_tones` | which tones are sent, when, to whom | 4 keys, 1 hang-up, any number of calls, room for 3 tones | holds, 236,741 states |
| `call_records` | ids, rows, lists over deletes and restarts | limit 3, 5 records, 3 types (symmetric), any statement refused | holds, 3,529,913 states |
| `records_pop` | does a delete pop a node of the list? | the same | violated |
| `reactor_threads` | results, wakeups, threads and stop, refinement of `JobService`, with liveness | a lookup and a job that asks the reactor, 3 threads, sizes 1 and 2 | holds, 317,015 states |
| `deferreds` | callbacks, waits, failures, cancelling | 3 Deferreds, one with a canceller and 2 callbacks, the others (symmetric) with 1; 1 pause and 1 result of the user each | holds, 2,872,705 states |
| `deferreds_left` | does a called Deferred run all its callbacks? | the same | violated |

**Bounds.** In the crawler the limits are as small as they can be while queues still
fill, empty and wrap (with 1 and 2 the exact sizes of the signals coincide and differ),
and the webs are chosen so that two receive threads race for one URL, a page links back,
an image and a link share a URL, a URL is too deep, one is off limits and one is a
false positive. Every action fires.

In `VoiceCall` two lifts (`MaxLifts`) give a call after a call, two calls (`MaxCalls`) give
a second one that comes after the first, waits behind it (the code's third call) or rings beside
it while it is being disconnected, two keys (`MaxKeys`) fill a number and find it full, and a
queue of three (`MaxQueue`) holds a lift, the end of the call it was meant for and the next
call. A queue of two is too short: with it, `RingsForACall` holds without an exception (`digit`)
that it needs with three. The same properties were also checked once with three calls, under
a VIEW that hides the records, which no step reads (21.6 million states). In `VoiceTones` four keys over three places fill the buffer, empty it,
and leave keys for the call after the hang-up, which is what a clearing at the wrong moment
spoils; with a second hang-up they were also checked once (2.3 million states). In
`CallRecords` the limit must be passed by popped records, by the shared id and again after
deletes: 5 records (`MaxCalls`) over a limit of 3; ids 1 and 2 are the ones below the limit,
so uniqueness is about two different ids. Without refused statements 7 records were also
checked once (272,450 states).

In `ReactorThreads` the set `Worker` bounds the threads that are there at a time: three for
sizes up to two, so that a thread that is quitting and the ones that replace it overlap. One
lookup and one asking job meet every race between answer, timeout, pool and stop. In `Deferreds` three of them make a chain with a middle;
`MaxAdds`, `MaxHeld` and `MaxFires` bound the user's calls. An instance of two Deferreds with
three callbacks and two results each was also checked once (1.5 million states).

The theorems of section 5 hold for every value of these bounds.

**Fairness.** Crawler (`FairSpec`, used by `crawl_jam` and `crawl_hang`): weak fairness of the
main, DNS, send and each receive thread: the operating system runs every thread that can
run. Strong fairness of `Readable(u) \/ SocketError(u)`: a server answers or the connection
fails in the end, and epoll reports it although the loop also times out; the code relies on
it as it sets no timeout on sockets. No fairness for spurious wakeups, failures or the choice
among sleepers. `VoiceTones`: weak fairness of the second halves of the voice thread's
handlers and of the DTMF thread; the user need not press or hang up, and a refusal of the
modem is possible at every tone. `ReactorThreads`: weak fairness of `StartWorkers` and of each
thread of the pool, which includes that the functions given to the pool return, as nothing in
the code deals with one that does not; strong fairness of `MainLoop`, as user code may call
the pool, which disables the loop for a while, but returns to it in the end; no fairness for
sockets, timeouts, submissions or stops. `VoiceCall`, `CallRecords` and `Deferreds` state safety only: in the first the user
and the network decide what comes next, in the last the user's code does.

**Deadlock** is checked in all crawler and record runs (the process that has ended stutters
explicitly). It is switched off where the system may really stop: `VoiceCall` and
`VoiceTones` when the user has no event left within the bounds (or the DTMF thread has
ended), `ReactorThreads` when the reactor has ended,
and where its stop waits for a thread that waits for it (section 4), and `Deferreds` when
the user makes no more calls.

Each property of a passing run has a mutant in `PROJECT.json`: a plausible mistake in the
code (a signal forgotten, a test one off, a timer not stopped, a list not updated, a call
queue cut too far) for which TLC finds it violated.

## 4. What the runs found

1. **The crawl hangs** (`crawl_hang`, `WebCrawler.cpp:166`). `startJob` waits in
   `popDnsUrl` with `m_mutex` held. When the dns queue has run dry, the receive threads
   block in `stopJob` on that mutex, `m_curJobs` never reaches 0 and the end test never
   holds. The log shipped with the program ends in this state (6 jobs, empty queues, no
   success or failure for minutes). With one job (`crawl_jam`) the send thread waits on
   `m_cond` instead and the crawl does end.
2. **An early end** (`crawl_early_exit`, `WebCrawler.cpp:91`). A URL in the hands of the
   DNS thread or of `startJob` is in no queue and in no count.
3. **The third call** (`voice_third`, `voice_core.c:1593`). The copy of a third call that
   became the only call keeps INCOMING; hanging up rings for the call that is being
   ended, does not end it, and it is later recorded as missed.
4. **A fault on deleting an old record** (`records_pop`, `voice_core.c:634`). Only the list
   of all records is trimmed; a trimmed record is still offered in the list of its type,
   and deleting it there dereferences NULL.
5. **Callbacks left behind** (`deferreds_left`, `defer.py:557`). A Deferred hands its result
   to one that the user has paused: `_runCallbacks` returns from the whole chain, and the
   callbacks that the first one still has are not run, neither now nor when the second one
   is unpaused. `test_defer.py:564-566` says that earlier Deferreds go on; the test adds its
   callback after the result and so misses the case.

Seen in the models and not claimed by a run, because no comment, test or assertion of the
code says otherwise.

Crawler:
- One signal on one exact size (`UrlQueues.cpp:105`) wakes one of several waiting receive
  threads; the next one waits for the next signal although there is room.
- An error event (`WebCrawler.cpp:133`) destroys the socket and nobody calls `stopJob`: its job
  is counted for ever (`JobsCounted` says exactly this).

Voice:
- The alarm sets both states to IDLE before the change was handled (`voice_core.c:976`), so the
  next number may begin with the digits of the last one.
- A hang-up that meets the alarm leaves a dialled call that goes on with the handset down
  (DIALING to IDLE ends no call at the modem, `:1152`); a stale `dev_state` takes a hang-up for
  a lift and answers; a record can be attributed to a newer call while an indication waits
  in the queue.
- A lift that waits in the queue behind the end of the ringing call answers the call that the
  modem has offered since (`voice_core.c:1604`); its INCOMING, handled next, rings for a call
  in conversation, and its end is recorded as a missed call.
- While an answered call is still listed as disconnecting, a new one rings beside it, and
  `g_call_info` is the old one (`voice_al.c:571`). If the caller of the new one gives up before
  the old one is gone, the record of the missed call is made from the old one's id and number
  (`voice_core.c:389-395`). `AnsweredNotMissed` allows exactly this (`RingsBeside`).
- `jan_voice_al_call_end` asks whether the third call waits by comparing with the modem's
  `CALL_STATE_WAITING_V02` (`voice_al.c:735`), whose value, 0x07, is the module's DISCONNECTING.
  So a hang-up while a third call is being disconnected goes to that one and the conversation
  stays on; and as nobody resets the copy, it diverts the hang-up of a later call too.
- A key pressed while the phone is down and read when it rings makes a conversation of the
  ringing (`:1639`); with an indication in between, the phone goes on ringing after the call.
- A DELETE that the database refuses leaves its row, while the bit of its id is cleared
  (`voice_core.c:644-645`): the id is given again, and then, by the schema, two rows have it or
  the new record has none. A refused INSERT (`:473`) leaves a record that is shown until the next
  restart, and a SELECT that breaks off (`:1994`) leaves rows whose ids are given again. The
  properties say that the damage keeps to these ids and records (`astray`, `unwritten`).
- Rows of trimmed records are never deleted, because the trimming of the table
  (`voice_datastore.c:83-88`) tests an id that cannot pass the limit; they come back after a
  restart and share the id of the limit.
- On-hook sets `head` to 0 before `tail` (`voice_core.c:1589-1590`): in between, all tones of the
  call stand in the queue again and are sent a second time. A hang-up during a tone
  leaves `head` one beyond `tail` when `head++` follows: the first tone of the next call is
  swallowed, and until then the DTMF thread spins.
- When a waiting call becomes the only one, `g_call_info` names it from the next indication on
  (`voice_al.c:343`), and the tones still in the queue, pressed in the other call, are sent to it
  (`handed` in `ToneInItsCall`); nothing clears the queue but a hang-up.
- A key that meets the DTMF thread between its test and its wait is not sent until the next
  key; a tone that the modem refuses ends the thread for good, with its mutex locked.

Twisted:
- `_startSomeWorkers` (`threadpool.py:106`) overlooks a job that a thread has taken from the
  queue and not entered in `working` yet; the pool then has fewer threads than jobs though
  the maximum allows more, until the next job is submitted (`unseen` in `EnoughThreads`).
- `ThreadPool.stop` joins, from the reactor thread, a thread that waits in
  `blockingCallFromThread` for the reactor: neither goes on. `StopReturns` names it as the only
  way for a stop not to end.
- A job given to the pool after `reactor.stop()`, in the same callback or the same turn, is
  accepted (`threadpool.py:155` tests only `joined`) and run, but its Deferred is fired only if
  its result is called before the shutdown: `JobService` promises no answer after a stop, and
  `AllAnswered` none either.
- A callback that pauses its own Deferred does not stop the loop it is called from; and a
  Deferred in the middle of its callbacks, when it is returned from a callback of another,
  gives up the result it has at that moment.

## 5. What is proved

Every theorem is about a module's `Spec`, for every value of the constants that satisfy the
module's assumption:

- `QueueAssumption`, `CrawlerAssumption`: every URL has at least one position in the filter's
  table; limits are integers; seeds, links and images are URLs of the web; a URL, which also
  names the receive thread of its socket, is none of the names of the other threads and places.
- `RecordsAssumption`: a limit of at least 2, any bound on the calls.
- `VoiceAssumption`: at least one digit, one place in the queue, any other bound a natural number.
- `TonesAssumption`: a buffer of at least one place, any number of keys and hang-ups.
- `ThreadsAssumption`: finitely many threads, sizes of at least 1, the names apart.
- `DeferredAssumption`: bounds are natural numbers, the names apart.

| theorem | property | argument |
|---|---|---|
| `WebCrawler_proofs!TypeCorrect` | `TypeOK` | strengthened by what a thread has in hand at each of its places (a URL while it resolves, pushes or connects, a non-empty list while it pushes), which a step needs in order to keep the types |
| `WebCrawler_proofs!NoLostWakeup` | `SleepersJustified` | a signal is sent on size 1 or limit - 1 exactly, so one needs that the single waiter was woken when the size first left 0 (or the limit), that only the DNS thread sleeps on "raw not empty" and "dns not full" and only the send thread on "dns not empty", and that `m_cond` is signalled on the first job below the limit |
| `AtMostOnce_proofs!FetchedAtMostOnce` | `AtMostOnce` | a URL is in at most one place (queue, hand of a thread, socket, waiting push) and known to the filter in each; check and mark are one step under the raw lock, so a URL in any place cannot enter again |
| `AtMostOnce_proofs!CrawlsTheFrontier` | `ImplementsFrontier` | each step of the crawler is a step `Discover`, `Abandon`, `Open`, `Close` or `Stop` of `CrawlFrontier`, or a stutter; that a popped or dropped URL is then nowhere else, so that it really leaves `pending`, is the invariant of `AtMostOnce` |
| `AtMostOnce_proofs!QueuedWasWanted` | `OnlyWantedQueued` | the links a receive thread has still to push were found on its page, whose depth is fixed when its socket is opened; a push that sleeps holds a URL that has passed the plugins, and so has the URL in the DNS thread's hand |
| `Jobs_proofs!JobsAreCounted` | `JobsCounted` | `m_curJobs` counts unstopped sockets less the one between `SendRequest` and `CountJob`; a `stopJob` that overtakes `CountJob` is held up by `m_mutex` |
| `Jobs_proofs!JobsLimited` | `JobLimit` | while the send thread is past its wait it holds `m_mutex` and there is room for one more job; nothing else counts up |
| `VoiceCall_proofs!DialsANumberCorrect` | `DialsANumber` | the number is cleared only on the way to idle, when `late_status` is not dialing, and dialing is entered only by a key |
| `VoiceCall_proofs!ClearedAtRestCorrect` | `ClearedAtRest` | until a timer slips, the two states differ between two indications only after a digit that was not read or in a conversation (`InStep`), and the call is clear while they are idle or wait, at each of the three steps of a handler |
| `VoiceCall_proofs!TimerOnlyWaitsCorrect` | `TimerOnlyWaits` | while the timer runs the state is wait, or about to become wait, or leaving it on a path that stops the timer |
| `VoiceCall_proofs!AtRestWhenHungUpCorrect` | `AtRestWhenHungUp` | with the handset down, either the last thing the queue says of the phone is the hang-up, or it says nothing and the module is at rest or one step away from it; what the network says then leads to ringing only |
| `VoiceCall_proofs!TypeCorrect` | `TypeOK` | the modem has at most two calls and numbers them upwards, so that the copies and the records name calls there have been |
| `VoiceCall_proofs!RingsForACallCorrect` | `RingsForACall` | see below |
| `VoiceCall_proofs!AnsweredNotMissedCorrect` | `AnsweredNotMissed` | a record becomes a missed one only at the end of a call that rings or waits; the id it takes is that of a copy whose call has not been answered, because an answered one was indicated, or will be, as a conversation first; or the two calls are those of `RingsBeside` |
| `VoiceTones_proofs!TypeCorrect` | `TypeOK` | the indices stay in the buffer because the DTMF thread is past its check only with `head` below the end, whichever of the two writes to `head` comes last |
| `VoiceTones_proofs!SleepsCorrect` | `SleepsOverNothing` | a key between the test and the wait is recorded in `slips`; in any other case the signal comes after the tone |
| `VoiceTones_proofs!ToneInItsCallCorrect` | `ToneInItsCall` | up to `tail` the buffer holds keys since the last hang-up only, from `head` on those of the call in `g_call_info` or `handed`; a tone on its way is the one at `head`, and no clearing has met it |
| `VoiceTones_proofs!NothingSkippedCorrect` | `NothingSkipped` | up to `tail` it holds all of them, and up to `head` they have been sent |
| `VoiceTones_proofs!TonesOnceCorrect` | `TonesOnce` | the keys in the buffer are in the order they were pressed, and what lies from `head` on, or from where `head` is about to go, was pressed after all that was sent |
| `CallRecords_proofs!TypeCorrect` | `TypeOK` | the first free bit is within the limit, and a record past it takes the limit itself |
| `CallRecords_proofs!UniqueCorrect` | `UniqueBelowLimit` | over the lists, the table and the row being written together: one record for each call and for each id below the limit that is not `astray`, its bit set as long as it is anywhere, and a record whose row is to be deleted in no list any more; a restart ends `astray` only for a row that was read back alone |
| `CallRecords_proofs!ShownIsStoredCorrect` | `ShownIsStored` | a listed record below the limit whose id is not `astray` is in the table, is the row being written or is `unwritten`, in either kind of table (`keyed` or not) |
| `ReactorThreads_proofs!ReactorWokenCorrect` | `ReactorWoken` | once the loop has passed its calls, whatever is in `threadCallQueue` came later (or was left by `DropCalls`, which wakes), and its byte follows |
| `ReactorThreads_proofs!ServesJobs` | `ImplementsService` | see below |
| `ReactorThreads_proofs!AnsweredOnceCorrect` | `AnsweredOnce` (of no run: `JobService` says the same of a lookup's user) | a query runs, with its timer, from the lookup until its Deferred is fired for the first time; answer and timeout both take it out |
| `ReactorThreads_proofs!TypeCorrect` | `TypeOK` | no Deferred is fired twice, which is what `OneResult` and `AnsweredOnce` keep: the type follows from their invariants |
| `ReactorThreads_proofs!OneResultCorrect` | `OneResult` | a job is in one place (queue, thread, undelivered call) from its acceptance until it is fired; to cut off the calls that ran only shifts the indices of the others |
| `ReactorThreads_proofs!WorkersCountedCorrect` | `WorkersCounted` | the cardinalities of the live threads and of the places of `WorkerStop` in the queue, action by action; a growing pool starts exactly as many threads as `workers` rises by |
| `ReactorThreads_proofs!EnoughThreadsCorrect` | `EnoughThreads` | the size that was read covers the jobs that still wait when the pool grows; a job is in the queue once (`OneResult`), so that to take it moves one job from waiting to busy |
| `Deferreds_proofs!OneAtATimeCorrect` | `OneAtATime` | see below |
| `Deferreds_proofs!GetsAResultCorrect` | `GetsAResult` | see below |
| `Deferreds_proofs!WaitsWhereListedCorrect` | `WaitsWhereListed` | see below |
| `Deferreds_proofs!TypeCorrect` | `TypeOK` | `paused` is the pauses of the user and one for a wait, so that it is positive when a wait ends |
| `Deferreds_proofs!LateResultSwallowedCorrect` | `LateResultSwallowed` | cancellers run for Deferreds that have one only; a Deferred without one that was called and not fired by the user was cancelled, and swallows the next result |
| `Deferreds_proofs!FailuresReportedCorrect` | `FailuresReported` | a Deferred whose mark and result disagree is the one that a call on the stack works on, and each way out of `_runCallbacks` sets the mark |
| `Deferreds_proofs!NothingLeftCorrect` | `NothingLeft` | a Deferred that could go on and has callbacks left is in the chain of a call on the stack, or was left on the way |

`OneAtATime`, `GetsAResult` and `WaitsWhereListed` hold only together. `_runCallbacks` tests the
first Deferred of its chain for running and none of those that join later. That this is
enough follows because one that joins was waiting; that what waits is in no callback follows
from `WaitsWhereListed`; and this needs that a callback was called with a result
(`GetsAResult`), since a Deferred in its place would be a second wait. The inductive invariant
is `TypeOK`, the shape of the stack (`Frames`: only the top frame is not in user code, a
Deferred is running exactly if a frame is in a callback of it, no frame above has it in its
chain, everything in a chain was called), `ResultOnceCalled` and `WaitsWhereListed`.

`RingsForACall` and `AnsweredNotMissed` relate the voice thread and the modem, with any number of
indications between them. What makes the phone ring is a place (`Expects`): an "incoming" in
the queue, or the ringing itself. `OldCause` says that every step carries each such place back
to an older one, and that an "end" behind that one stays behind it, unless the step took it and
stopped the ringing. So it is enough to show, for each
place, that the modem has a call that rings, or has still to send the end of it, or that the end
is behind it in the queue (`RingsInv`); and that as long as there is such a place a call the user
answered, be it the modem's or in a copy, is over and has the newer one beside it as the third
call (`MissedInv`), so that only the end of `RingsBeside` gives it the record. Both rest on what
the modem's calls, those in the queue and the copies can be (`CallsInv`: numbered upwards, at
most two, the newer one waiting behind a conversation, or beside a call that is over)
and on the types. That an answer finds no "incoming" in the queue is the spot `early`.

`ServesJobs` maps each step of reactor and threads to a step of `JobService` or a stutter. Its
invariant joins those of `OneResult` and `AnsweredOnce` (a job that ends or is delivered is in no
other place; a lookup whose timeout is pending was not answered) with `WorkersCounted` and
two of its own: `InPhase` ties the reactor's place to the stop, and `SomebodyWorks` says that a
thread stays, or is about to be started, while jobs wait, so that from the stop on a `WorkerStop`
lies behind every job. When the last thread is gone, the count leaves no `WorkerStop` in the
queue, and so no job before one: the end of the stop finds every accepted job done, those
included that came after `stop()`, for they too were put in the queue before the `WorkerStop`s.

The proofs of an invariant follow the shape of `Next`: one lemma or step per action, one
below it for each conjunct the action disturbs; what is common (sequences, cardinalities,
sets of sleepers after a signal, frames of a stack) is a lemma of its own.

## 6. What is only checked, and what is left out

**Only model-checked:** the liveness properties (`Terminates`, `PushesGoOn`, `TonesGetOut`,
`AllAnswered`, `StopReturns`), which are out of the prover's reach: they need fairness and
ENABLED. Every invariant and every action property of a passing run is proved.

**Left out of the crawler:** bytes of HTTP and HTML (constants `Links`, `Images`), hash
arithmetic (constant `Hash`), daemon and limits set-up, the log, the SIGALRM statistics
handler, the lifetime of the socket object, the shared state of `strtok`. **Of the voice
module:** LEDs, PCM, caller names, time zones, the emergency number table, the read-only
requests, the states HOLD and SETUP of a call, which no handler reacts to, calls beyond two at
a time, and the answers of the modem to dial, answer and end (external: it is assumed to carry
them out, but to refuse a dial while it lists a call); and in `VoiceTones` the states of the call (a key is a tone in any of them) and which call a
call that comes back was (it counts as another one).
**Of Twisted:** pools of the user's own with a minimum size, system event triggers of the user's
own, jobs given once the pool is stopped (they are dropped, `threadpool.py:155-156`), a stop
asked for a second time (it raises), child processes, `DeferredList`, the locks and queues made of Deferreds, `inlineCallbacks`, and all
protocols. Hazards in these parts that belong to modelled components are in `PROJECT.json`
with the reason no property covers them.

**Share of the code.** Counted in lines, most of the repository's implementation is vendored
Python: Twisted's protocols (mail, IRC, FTP, DNS, SSH), pip with its bundled libraries, and
their tables and parsers. They are third-party code that nothing in the repository calls
(it calls `reactor`, `protocol`, and what these use), mostly parsing and formatting of text. A
model of them would say nothing about this repository, so the share of lines that is mapped
stays small however much of the repository's own logic is modelled.

## 7. Plan

Done, in this order: `UrlQueues`, `WebCrawler`, `CrawlFrontier`; their three proof modules;
`VoiceCall`; `CallRecords`; `VoiceTones`; `ReactorThreads`; `Deferreds`; the proofs about the last
four and about `VoiceCall`; the refinements of `CrawlFrontier` and `JobService`.

Next, most important first:

1. *Model.* The TCP connection under `tcptscli.py` and `tcptsser.py` (write buffer, half-closing,
   `loseConnection` while writing; the reconnecting factory); `DeferredList` and
   `DeferredLock`/`DeferredQueue` on top of `Deferreds`; Twisted's `Cooperator`. `StatTicker`: the
   SIGALRM handler of the crawler taking the queue mutexes inside a thread that may hold
   them.
2. *Compose.* `VoiceCall` with `VoiceTones` (the clearing belongs to the on-hook handler), and
   `ReactorThreads` with `Deferreds` (a job's result enters `_runCallbacks`).
3. *Prove.* Abstract specifications for `VoiceTones` (a tone is sent once, in its call, or lost at
   a named spot) and `CallRecords` (a bounded log that survives restarts), with their
   refinements; for `Deferreds`, that the chain of waits has no cycle.
