------------------------------ MODULE Deferreds ------------------------------
(***************************************************************************)
(* Twisted's Deferreds, as its programs use them: results that are not     *)
(* there yet, with callbacks that wait for them.  Everything runs in one   *)
(* thread, but callbacks are the user's code: from inside of one it may    *)
(* add, fire, pause, unpause and cancel any Deferred, its own included,    *)
(* and return another Deferred to wait for.  So _runCallbacks is entered   *)
(* again from below itself; "stack" holds the calls in progress.           *)
(*                                                                         *)
(* chainDeferred(d) adds d.callback as a callback, which is a callback     *)
(* that fires d.  What is fired is a value or a Failure; the two callables *)
(* of a pair are the user's code both, and are one here.                   *)
(***************************************************************************)
EXTENDS Integers, Sequences, FiniteSets, SequencesExt

CONSTANTS
  Deferred,
  Cancellable,  \* the Deferreds that were given a canceller
  Own,          \* a callback of the user, as an entry of callbacks
  MaxAdds,      \* bound: callbacks added to each Deferred
  MaxHeld,      \* bound: pauses of the user on one Deferred at a time
  MaxFires      \* bound: calls of callback and errback on each Deferred

Outcome == {"value", "failure"}
NoResult == "none"

ASSUME DeferredAssumption ==
  /\ Cancellable \subseteq Deferred
  /\ Own \notin Deferred
  /\ Deferred \cap (Outcome \cup {NoResult}) = {}
  /\ MaxAdds \in [Deferred -> Nat] /\ MaxHeld \in Nat /\ MaxFires \in Nat

VARIABLES
  called,      \* Deferred.called
  result,      \* Deferred.result; a Deferred while it waits for that one
  paused,      \* Deferred.paused
  callbacks,   \* Deferred.callbacks; a Deferred in it is its _continuation
  running,     \* Deferred._runningCallbacks
  suppress,    \* Deferred._suppressAlreadyCalled
  failResult,  \* the Failure that _debugInfo will report if nobody takes it
  stack,       \* _runCallbacks and cancellers in progress, the last one acting
  held,        \* pauses of the user not taken back yet (history)
  added,       \* callbacks added so far (history)
  fired,       \* calls of callback and errback by the user (history)
  refused,     \* the Deferreds that raised AlreadyCalledError (history)
  left         \* suppliers that _runCallbacks has left with callbacks (history)

vars == <<called, result, paused, callbacks, running, suppress, failResult,
          stack, held, added, fired, refused, left>>
history == <<held, added, fired, refused, left>>

\* In _runCallbacks: at "chain" it looks at the last of its chain, at "items" at
\* that one's callbacks, at "callback" it is inside of one.
Frame == [at : {"chain", "items", "callback", "canceller"}, chain : Seq(Deferred)]

\* Nothing here could be any other value, in any state.
TypeOK ==
  /\ called \in [Deferred -> BOOLEAN]
  /\ result \in [Deferred -> Outcome \cup {NoResult} \cup Deferred]
  /\ paused \in [Deferred -> Nat]
  /\ callbacks \in [Deferred -> Seq(Deferred \cup {Own})]
  /\ running \in [Deferred -> BOOLEAN]
  /\ suppress \in [Deferred -> BOOLEAN]
  /\ failResult \in [Deferred -> BOOLEAN]
  /\ stack \in Seq(Frame) /\ \A i \in DOMAIN stack : stack[i].chain # <<>>
  /\ held \in [Deferred -> 0..MaxHeld]
  /\ added \in [Deferred -> Nat] /\ \A d \in Deferred : added[d] <= MaxAdds[d]
  /\ fired \in [Deferred -> 0..MaxFires]
  /\ refused \subseteq Deferred /\ left \subseteq Deferred

Init ==
  /\ called = [d \in Deferred |-> FALSE]
  /\ result = [d \in Deferred |-> NoResult]
  /\ paused = [d \in Deferred |-> 0]
  /\ callbacks = [d \in Deferred |-> <<>>]
  /\ running = [d \in Deferred |-> FALSE]
  /\ suppress = [d \in Deferred |-> FALSE]
  /\ failResult = [d \in Deferred |-> FALSE]
  /\ stack = <<>>
  /\ held = [d \in Deferred |-> 0]
  /\ added = [d \in Deferred |-> 0]
  /\ fired = [d \in Deferred |-> 0]
  /\ refused = {} /\ left = {}

-----------------------------------------------------------------------------
\* The user's code: the main program, a callback, or a canceller.

UserActs == stack # <<>> => Last(stack).at \in {"callback", "canceller"}

RunCallbacksAgain(calls, d) == Append(calls, [at |-> "chain", chain |-> <<d>>])

\* A call of d._runCallbacks() from the calls in "calls".
RunCallbacks(calls, d) ==
  IF running[d] THEN calls ELSE Append(calls, [at |-> "chain", chain |-> <<d>>])

AddCallbacks(d) ==
  /\ UserActs /\ added[d] < MaxAdds[d]
  /\ added' = [added EXCEPT ![d] = @ + 1]
  /\ callbacks' = [callbacks EXCEPT ![d] = Append(@, Own)]
  /\ stack' = IF called[d] THEN RunCallbacks(stack, d) ELSE stack
  /\ UNCHANGED <<called, result, paused, running, suppress, failResult, held,
                 fired, refused, left>>

\* _startRunCallbacks on a Deferred that has no result yet.
Settle(d, outcome, calls) ==
  /\ called' = [called EXCEPT ![d] = TRUE]
  /\ result' = [result EXCEPT ![d] = outcome]
  /\ stack' = RunCallbacks(calls, d)

\* callback and errback.  A result that comes after a cancel without canceller
\* is swallowed, once; any other second one raises AlreadyCalledError.
Fire(d, outcome) ==
  /\ UserActs /\ fired[d] < MaxFires
  /\ fired' = [fired EXCEPT ![d] = @ + 1]
  /\ \/ /\ ~called[d]
        /\ Settle(d, outcome, stack)
        /\ UNCHANGED <<suppress, refused>>
     \/ /\ called[d]
        /\ suppress' = [suppress EXCEPT ![d] = FALSE]
        /\ refused' = IF suppress[d] THEN refused ELSE refused \cup {d}
        /\ UNCHANGED <<called, result, stack>>
  /\ UNCHANGED <<paused, callbacks, running, failResult, held, added, left>>

Pause(d) ==
  /\ UserActs /\ held[d] < MaxHeld
  /\ paused' = [paused EXCEPT ![d] = @ + 1]
  /\ held' = [held EXCEPT ![d] = @ + 1]
  /\ UNCHANGED <<called, result, callbacks, running, suppress, failResult,
                 stack, added, fired, refused, left>>

\* The user takes back only pauses of its own.
Unpause(d) ==
  /\ UserActs /\ held[d] > 0
  /\ paused' = [paused EXCEPT ![d] = @ - 1]
  /\ held' = [held EXCEPT ![d] = @ - 1]
  /\ stack' = IF paused[d] = 1 /\ called[d] THEN RunCallbacks(stack, d)
              ELSE stack
  /\ UNCHANGED <<called, result, callbacks, running, suppress, failResult,
                 added, fired, refused, left>>

\* The Deferreds that d waits for, the ones these wait for, ..., and d itself.
WaitClosed(S) == \A x \in S : result[x] \in Deferred => result[x] \in S
Suppliers(d) ==
  {e \in Deferred : \A S \in SUBSET Deferred : d \in S /\ WaitClosed(S) => e \in S}

InCanceller(d) ==
  \E i \in DOMAIN stack : stack[i] = [at |-> "canceller", chain |-> <<d>>]

SwallowsNone(d) == suppress
SwallowsNext(d) == [suppress EXCEPT ![d] = TRUE]

\* cancel is forwarded to the Deferred at the end of the waiting, and does
\* nothing when that one has been called; a canceller does not cancel again, and
\* returns.
Cancel(d) ==
  \E e \in Suppliers(d) :
    /\ UserActs /\ ~called[e] /\ ~InCanceller(e)
    /\ \/ /\ e \in Cancellable
          /\ stack' = Append(stack, [at |-> "canceller", chain |-> <<e>>])
          /\ UNCHANGED <<called, result, suppress>>
       \/ /\ e \notin Cancellable
          /\ suppress' = SwallowsNext(e)
          /\ Settle(e, "failure", stack)
    /\ UNCHANGED <<paused, callbacks, running, failResult, history>>

CancellerReturns ==
  /\ stack # <<>> /\ Last(stack).at = "canceller"
  /\ LET d == Last(stack).chain[1] IN
       \/ /\ called[d]
          /\ stack' = Front(stack)
          /\ UNCHANGED <<called, result>>
       \/ ~called[d] /\ Settle(d, "failure", Front(stack))
  /\ UNCHANGED <<paused, callbacks, running, suppress, failResult, history>>

-----------------------------------------------------------------------------
\* _runCallbacks, the call on top of the stack.

At(where) == stack # <<>> /\ Last(stack).at = where
Current == Last(Last(stack).chain)
GoTo(where) == [stack EXCEPT ![Len(stack)] = [at |-> where, chain |-> @.chain]]

IsPaused(d) == paused[d] > 0

\* The Failure of d is somebody else's now.
StillReports(d) == failResult
ReportsNoMore(d) == [failResult EXCEPT ![d] = FALSE]

\* A Deferred that is paused ends the whole call: the suppliers before it in the
\* chain are not looked at again.
StopsAtPaused ==
  /\ At("chain") /\ IsPaused(Current)
  /\ stack' = Front(stack)
  /\ left' = left \cup {d \in Range(Front(Last(stack).chain)) : callbacks[d] # <<>>}
  /\ UNCHANGED <<called, result, paused, callbacks, running, suppress,
                 failResult, held, added, fired, refused>>

EntersItems ==
  /\ At("chain") /\ ~IsPaused(Current)
  /\ stack' = GoTo("items")
  /\ UNCHANGED <<called, result, paused, callbacks, running, suppress,
                 failResult, history>>

ReleasesNot(d) == paused
Releases(d) == [paused EXCEPT ![d] = @ - 1]

\* _CONTINUE: the waiting Deferred gets the result and goes on the chain.
HandsOver ==
  /\ At("items") /\ callbacks[Current] # <<>> /\ Head(callbacks[Current]) # Own
  /\ LET chainee == Head(callbacks[Current]) IN
       /\ callbacks' = [callbacks EXCEPT ![Current] = Tail(@)]
       /\ result' = [result EXCEPT ![chainee] = result[Current],
                                   ![Current] = "value"]
       /\ failResult' = ReportsNoMore(Current)
       /\ paused' = Releases(chainee)
       /\ stack' = [stack EXCEPT ![Len(stack)] =
                      [at |-> "chain", chain |-> Append(@.chain, chainee)]]
  /\ UNCHANGED <<called, running, suppress, history>>

StartsCallback ==
  /\ At("items") /\ callbacks[Current] # <<>> /\ Head(callbacks[Current]) = Own
  /\ callbacks' = [callbacks EXCEPT ![Current] = Tail(@)]
  /\ running' = [running EXCEPT ![Current] = TRUE]
  /\ stack' = GoTo("callback")
  /\ UNCHANGED <<called, result, paused, suppress, failResult, history>>

\* The callback returns a value, or raises or returns a Failure.
Returns(outcome) ==
  /\ At("callback")
  /\ running' = [running EXCEPT ![Current] = FALSE]
  /\ result' = [result EXCEPT ![Current] = outcome]
  /\ stack' = GoTo("items")
  /\ UNCHANGED <<called, paused, callbacks, suppress, failResult, history>>

WaitsIfItWaits(d) == result[d] \in Deferred \/ IsPaused(d)
MustWait(d) == result[d] \in Deferred \cup {NoResult} \/ IsPaused(d)

PausesNot(d) == paused
PausesToWait(d) == [paused EXCEPT ![d] = @ + 1]

FinishesAll == Front(stack)

\* The calls once Current is done with: back to its supplier, or to the caller.
Finished ==
  LET chain == Front(Last(stack).chain) IN
  IF chain = <<>> THEN Front(stack)
  ELSE [stack EXCEPT ![Len(stack)] = [at |-> "chain", chain |-> chain]]

\* The callback returns the Deferred d, which does not wait for this one itself:
\* Current waits for it ...
WaitsFor(d) ==
  /\ At("callback") /\ Current \notin Suppliers(d) /\ MustWait(d)
  /\ running' = [running EXCEPT ![Current] = FALSE]
  /\ result' = [result EXCEPT ![Current] = d]
  /\ paused' = PausesToWait(Current)
  /\ callbacks' = [callbacks EXCEPT ![d] = Append(@, Current)]
  /\ failResult' = ReportsNoMore(Current)
  /\ stack' = Finished
  /\ UNCHANGED <<called, suppress, history>>

\* ... or takes the result that it has.
Steals(d) ==
  /\ At("callback") /\ Current \notin Suppliers(d) /\ ~MustWait(d)
  /\ running' = [running EXCEPT ![Current] = FALSE]
  /\ result' = [result EXCEPT ![Current] = result[d], ![d] = "value"]
  /\ failResult' = ReportsNoMore(d)
  /\ stack' = GoTo("items")
  /\ UNCHANGED <<called, paused, callbacks, suppress, history>>

\* No more callbacks: a Failure that is left is kept for reporting.
NoMoreItems ==
  /\ At("items") /\ callbacks[Current] = <<>>
  /\ failResult' = [failResult EXCEPT ![Current] = result[Current] = "failure"]
  /\ stack' = Finished
  /\ UNCHANGED <<called, result, paused, callbacks, running, suppress, history>>

User(d) ==
  \/ AddCallbacks(d) \/ Pause(d) \/ Unpause(d) \/ Cancel(d)
  \/ \E outcome \in Outcome : Fire(d, outcome)

Run ==
  \/ StopsAtPaused \/ EntersItems \/ HandsOver \/ StartsCallback \/ NoMoreItems

Return ==
  \/ CancellerReturns
  \/ \E outcome \in Outcome : Returns(outcome)
  \/ \E d \in Deferred : WaitsFor(d) \/ Steals(d)

Next == Run \/ Return \/ \E d \in Deferred : User(d)

Spec == Init /\ [][Next]_vars

-----------------------------------------------------------------------------
\* Properties.

\* A Deferred's callbacks run one at a time and none inside another, however
\* deep the user's code calls itself through others (the test of
\* _runningCallbacks at defer.py:539, made for the first of a chain only).
OneAtATime ==
  \A i, j \in DOMAIN stack :
    /\ stack[i].at = "callback" => running[Last(stack[i].chain)]
    /\ stack[i].at = "callback" /\ stack[j].at = "callback" /\ i # j
         => Last(stack[i].chain) # Last(stack[j].chain)

\* A Deferred waits for another one exactly while its _continuation is in that
\* one's callbacks, once, and its pauses are the user's and that one: no wait is
\* forgotten and none is released twice (:569-579, :607-615).
IsListed(a, d, i) == i \in DOMAIN callbacks[d] /\ callbacks[d][i] = a
WaitsWhereListed ==
  \A a \in Deferred :
    /\ \A d \in Deferred : \A i, j \in DOMAIN callbacks[d] :
         IsListed(a, d, i) => result[a] = d /\ (IsListed(a, d, j) => i = j)
    /\ result[a] \in Deferred
         => \E i \in DOMAIN callbacks[result[a]] : IsListed(a, result[a], i)
    /\ paused[a] = held[a] + (IF result[a] \in Deferred THEN 1 ELSE 0)

\* A callback is never given a Deferred, nor called without a result, whatever
\* was returned on the way there (:392 asserts it for the first result only).
GetsAResult ==
  \A i \in DOMAIN stack :
    stack[i].at \in {"items", "callback"}
      => result[Last(stack[i].chain)] \in Outcome /\ called[Last(stack[i].chain)]

\* Outside of all calls, a Deferred that is free to go has an unhandled error to
\* report exactly when it still has the Failure: one that another Deferred has
\* taken is not reported twice, and none gets lost (:577, :622, :630-641).
FailuresReported ==
  stack = <<>>
    => \A d \in Deferred :
         paused[d] = 0 => failResult[d] = (result[d] = "failure")

\* Whoever fires a Deferred without a canceller once, is never told that it was
\* called before: a cancel that came first swallows it (:474, :486).
LateResultSwallowed ==
  \A d \in Deferred \ Cancellable : fired[d] <= 1 => d \notin refused

CallbacksLeft(d) == called[d] /\ paused[d] = 0 /\ callbacks[d] # <<>>

\* Outside of all calls, a Deferred that was called and is not paused has run
\* its callbacks and released who waits for it, unless _runCallbacks has left it
\* on the way (:557).
NothingLeft ==
  stack = <<>> => \A d \in Deferred \ left : ~CallbacksLeft(d)

\* The same of all Deferreds, as addCallbacks says: "These will be executed when
\* the 'master' callback is run."
CalledRunsAll == stack = <<>> => \A d \in Deferred : ~CallbacksLeft(d)
=============================================================================
