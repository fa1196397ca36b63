-------------------------- MODULE Deferreds_proofs --------------------------
(***************************************************************************)
(* Proofs about Deferreds, for any number of Deferreds, callbacks, pauses  *)
(* and results: no callback runs inside another one of its Deferred, each  *)
(* is given a result, and no wait of one Deferred for another is lost or   *)
(* released twice.  All three hold only together: that the first of a      *)
(* chain is tested for running is enough because the ones that join the    *)
(* chain later were waiting, and what waits is not in a callback.          *)
(* From these follows what is left when all calls have returned: failures  *)
(* that nobody took, and no callbacks.                                     *)
(***************************************************************************)
EXTENDS Deferreds, TLAPS

\* Frame i is inside a callback of d.
InCallback(i, d) == stack[i].at = "callback" /\ Last(stack[i].chain) = d

Stacked ==
  /\ stack \in Seq(Frame)
  /\ \A i \in DOMAIN stack : stack[i].chain # <<>>

\* Below the top there is only the user's code.
OnlyTopRuns ==
  \A i \in DOMAIN stack : i < Len(stack) => stack[i].at \in {"callback", "canceller"}

RunningInCallback ==
  \A d \in Deferred : running[d] <=> \E i \in DOMAIN stack : InCallback(i, d)

\* A Deferred that is in a callback is in no chain above it.
Apart ==
  \A i, j \in DOMAIN stack : \A k \in DOMAIN stack[j].chain :
    i < j => ~InCallback(i, stack[j].chain[k])

ChainCalled ==
  \A i \in DOMAIN stack : \A k \in DOMAIN stack[i].chain :
    stack[i].at # "canceller" => called[stack[i].chain[k]]

ResultOnceCalled == \A d \in Deferred : result[d] = NoResult <=> ~called[d]

Frames == /\ Stacked /\ OnlyTopRuns /\ RunningInCallback /\ Apart /\ ChainCalled
          /\ GetsAResult

Inv == TypeOK /\ Frames /\ ResultOnceCalled /\ WaitsWhereListed

-----------------------------------------------------------------------------
\* Sequences.

LEMMA Appended ==
  ASSUME NEW S, NEW s \in Seq(S), NEW e \in S
  PROVE  /\ Append(s, e) \in Seq(S) /\ Len(s) \in Nat
         /\ Len(Append(s, e)) = Len(s) + 1 /\ DOMAIN s = 1..Len(s)
         /\ \A i \in 1..Len(s) : Append(s, e)[i] = s[i]
         /\ Append(s, e)[Len(s) + 1] = e
OBVIOUS

LEMMA TailIs ==
  ASSUME NEW S, NEW s \in Seq(S), s # <<>>
  PROVE  /\ Tail(s) \in Seq(S) /\ Len(s) \in Nat \ {0}
         /\ Len(Tail(s)) = Len(s) - 1 /\ DOMAIN s = 1..Len(s)
         /\ DOMAIN Tail(s) = 1..(Len(s) - 1)
         /\ \A i \in 1..(Len(s) - 1) : Tail(s)[i] = s[i + 1]
         /\ Head(s) = s[1] /\ s[1] \in S
OBVIOUS

LEMMA FrontIs ==
  ASSUME NEW S, NEW s \in Seq(S), s # <<>>
  PROVE  /\ Front(s) \in Seq(S) /\ Len(s) \in Nat \ {0}
         /\ Len(Front(s)) = Len(s) - 1 /\ DOMAIN s = 1..Len(s)
         /\ DOMAIN Front(s) = 1..(Len(s) - 1)
         /\ \A i \in 1..(Len(s) - 1) : Front(s)[i] = s[i]
         /\ Last(s) = s[Len(s)] /\ s[Len(s)] \in S
<1>1. Len(s) \in Nat \ {0} /\ DOMAIN s = 1..Len(s)
      OBVIOUS
<1>2. Len(s) \in DOMAIN s /\ Len(s) - 1 \in Int /\ Len(s) - 1 <= Len(s)
      BY <1>1
<1>3. \A i \in 1..(Len(s) - 1) : s[i] \in S
      BY <1>1
<1>4. Front(s) = [i \in 1..(Len(s) - 1) |-> s[i]]
      BY <1>1 DEF Front
<1>5. Front(s) \in Seq(S) /\ Len(Front(s)) = Len(s) - 1
      BY <1>1, <1>3, <1>4
<1> QED BY <1>1, <1>2, <1>4, <1>5 DEF Last

LEMMA TopReplaced ==
  ASSUME NEW S, NEW s \in Seq(S), s # <<>>, NEW e \in S
  PROVE  /\ [s EXCEPT ![Len(s)] = e] \in Seq(S)
         /\ Len([s EXCEPT ![Len(s)] = e]) = Len(s)
         /\ \A i \in 1..(Len(s) - 1) : [s EXCEPT ![Len(s)] = e][i] = s[i]
         /\ [s EXCEPT ![Len(s)] = e][Len(s)] = e
OBVIOUS

-----------------------------------------------------------------------------
\* What a step does to the stack.  It keeps the frames up to m, which are in the
\* user's code, and leaves at most one frame above them.

LowerRunning(m, d) == \E i \in 1..m : InCallback(i, d)

Keeps(m) ==
  /\ m \in Nat /\ m <= Len(stack) /\ m <= Len(stack') /\ stack' \in Seq(Frame)
  /\ \A i \in 1..m : stack'[i] = stack[i] /\ stack[i].at \in {"callback", "canceller"}

\* What was called stays so, and callbacks in progress keep what they were given.
Undisturbed(m) ==
  /\ \A d \in Deferred : called[d] => called'[d]
  /\ \A d \in Deferred : LowerRunning(m, d) => result'[d] \in Outcome

LeavesNone(m) ==
  Len(stack') = m /\ \A d \in Deferred : running'[d] <=> LowerRunning(m, d)

LeavesOne(m, frame) ==
  /\ Len(stack') = m + 1 /\ stack'[m + 1] = frame /\ frame.chain # <<>>
  /\ \A k \in DOMAIN frame.chain :
       /\ ~LowerRunning(m, frame.chain[k])
       /\ frame.at # "canceller" => called'[frame.chain[k]]
  /\ frame.at \in {"items", "callback"} => result'[Last(frame.chain)] \in Outcome
  /\ \A d \in Deferred :
       running'[d] <=> \/ LowerRunning(m, d)
                       \/ frame.at = "callback" /\ Last(frame.chain) = d

LEMMA FramesKept ==
  ASSUME Frames, NEW m, Keeps(m), Undisturbed(m), NEW frame \in Frame,
         LeavesNone(m) \/ LeavesOne(m, frame)
  PROVE  Frames'
<1>1. /\ m \in Nat /\ m <= Len(stack) /\ m <= Len(stack')
      /\ Len(stack) \in Nat /\ DOMAIN stack = 1..Len(stack)
      /\ Len(stack') \in Nat /\ DOMAIN stack' = 1..Len(stack')
      BY DEF Frames, Stacked, Keeps
<1>2. \A i \in 1..m : i \in DOMAIN stack /\ i \in DOMAIN stack'
      BY ONLY <1>1
<1>3. Len(stack') = m \/ (Len(stack') = m + 1 /\ LeavesOne(m, frame))
      BY DEF LeavesNone, LeavesOne
<1>4. \A i \in DOMAIN stack' : i \in 1..m \/ (i = m + 1 /\ LeavesOne(m, frame))
  <2>1. CASE Len(stack') = m
        BY <1>1, <2>1
  <2>2. CASE Len(stack') = m + 1 /\ LeavesOne(m, frame)
    <3>1. DOMAIN stack' = 1..(m + 1)
          BY <1>1, <2>2
    <3>2. \A i \in 1..(m + 1) : i \in 1..m \/ i = m + 1
          BY <1>1
    <3> QED BY <2>2, <3>1, <3>2
  <2> QED BY <1>3, <2>1, <2>2
<1>5. \A i \in 1..m : stack'[i] = stack[i] /\ stack[i].at \in {"callback", "canceller"}
      BY DEF Keeps
<1>6. \A i \in DOMAIN stack' : stack'[i] \in Frame
      BY DEF Keeps
<1>7. LeavesOne(m, frame) => m + 1 \in DOMAIN stack' /\ stack'[m + 1] = frame
      BY <1>1 DEF LeavesOne
<1>8. Stacked'
  <2>1. \A i \in DOMAIN stack' : stack'[i].chain # <<>>
        BY <1>2, <1>4, <1>5, <1>7 DEF Frames, Stacked, LeavesOne
  <2> QED BY <2>1 DEF Stacked, Keeps
<1>9. OnlyTopRuns'
  <2> SUFFICES ASSUME NEW i \in DOMAIN stack', i < Len(stack')
               PROVE  stack'[i].at \in {"callback", "canceller"}
      BY DEF OnlyTopRuns
  <2>1. Len(stack') = m \/ Len(stack') = m + 1
        BY <1>3
  <2>3. CASE Len(stack') = m
    <3>1. i \in 1..m
          BY <1>1, <2>3
    <3> QED BY <1>5, <3>1
  <2>4. CASE Len(stack') = m + 1
    <3>1. i \in 1..(m + 1) /\ i < m + 1
          BY <1>1, <2>4
    <3>2. i \in 1..m
          BY ONLY <1>1, <3>1
    <3> QED BY <1>5, <3>2
  <2> QED BY <2>1, <2>3, <2>4
<1>10. \A i \in 1..m : \A d \in Deferred : InCallback(i, d)' <=> InCallback(i, d)
       BY <1>5 DEF InCallback
<1>11. RunningInCallback'
  <2> SUFFICES ASSUME NEW d \in Deferred
               PROVE  running'[d] <=> \E i \in DOMAIN stack' : InCallback(i, d)'
      BY DEF RunningInCallback
  <2>1. CASE LeavesNone(m)
    <3>1. DOMAIN stack' = 1..m
          BY <1>1, <2>1 DEF LeavesNone
    <3> QED BY <1>10, <2>1, <3>1 DEF LeavesNone, LowerRunning
  <2>2. CASE LeavesOne(m, frame)
    <3>1. InCallback(m + 1, d)' <=> frame.at = "callback" /\ Last(frame.chain) = d
          BY <1>7, <2>2 DEF InCallback
    <3> QED BY <1>2, <1>4, <1>7, <1>10, <2>2, <3>1 DEF LeavesOne, LowerRunning
  <2> QED BY <2>1, <2>2
<1>12. \A i \in DOMAIN stack' : \A k \in DOMAIN stack'[i].chain :
         stack'[i].chain[k] \in Deferred
       BY <1>6 DEF Frame
<1>13. Apart'
  <2> SUFFICES ASSUME NEW i \in DOMAIN stack', NEW j \in DOMAIN stack',
                      NEW k \in DOMAIN stack'[j].chain, i < j
               PROVE  ~(stack'[i].at = "callback"
                        /\ Last(stack'[i].chain) = stack'[j].chain[k])
      BY DEF Apart, InCallback
  <2>1. i \in 1..m
        BY <1>1, <1>4
  <2>2. CASE j \in 1..m
    <3>1. ~InCallback(i, stack[j].chain[k])
          BY <1>2, <1>5, <2>1, <2>2 DEF Frames, Apart
    <3> QED BY <1>5, <2>1, <2>2, <3>1 DEF InCallback
  <2>3. CASE j = m + 1 /\ LeavesOne(m, frame)
    <3>1. ~LowerRunning(m, stack'[j].chain[k])
          BY <2>3 DEF LeavesOne
    <3> QED BY <1>5, <2>1, <3>1 DEF LowerRunning, InCallback
  <2> QED BY <1>4, <2>2, <2>3
<1>14. ChainCalled'
  <2> SUFFICES ASSUME NEW i \in DOMAIN stack', NEW k \in DOMAIN stack'[i].chain,
                      stack'[i].at # "canceller"
               PROVE  called'[stack'[i].chain[k]]
      BY DEF ChainCalled
  <2>1. CASE i \in 1..m
        BY <1>2, <1>5, <1>12, <2>1 DEF Frames, ChainCalled, Undisturbed
  <2>2. CASE i = m + 1 /\ LeavesOne(m, frame)
        BY <2>2 DEF LeavesOne
  <2> QED BY <1>4, <2>1, <2>2
<1>15. \A i \in DOMAIN stack' : /\ Last(stack'[i].chain) \in Deferred
                               /\ \E k \in DOMAIN stack'[i].chain :
                                    Last(stack'[i].chain) = stack'[i].chain[k]
  <2> SUFFICES ASSUME NEW i \in DOMAIN stack'
               PROVE  /\ Last(stack'[i].chain) \in Deferred
                      /\ \E k \in DOMAIN stack'[i].chain :
                           Last(stack'[i].chain) = stack'[i].chain[k]
      OBVIOUS
  <2>1. stack'[i].chain \in Seq(Deferred) /\ stack'[i].chain # <<>>
        BY <1>6, <1>8 DEF Frame, Stacked
  <2> QED BY ONLY <2>1, FrontIs
<1>16. GetsAResult'
  <2> SUFFICES ASSUME NEW i \in DOMAIN stack', stack'[i].at \in {"items", "callback"}
               PROVE  /\ result'[Last(stack'[i].chain)] \in Outcome
                      /\ called'[Last(stack'[i].chain)]
      BY DEF GetsAResult
  <2>1. called'[Last(stack'[i].chain)]
        BY <1>14, <1>15 DEF ChainCalled
  <2>2. CASE i \in 1..m
    <3>1. stack[i].at = "callback" /\ LowerRunning(m, Last(stack'[i].chain))
          BY <1>5, <2>2 DEF InCallback, LowerRunning
    <3> QED BY <1>15, <2>1, <3>1 DEF Undisturbed
  <2>3. CASE i = m + 1 /\ LeavesOne(m, frame)
        BY <2>1, <2>3 DEF LeavesOne
  <2> QED BY <1>4, <2>2, <2>3
<1> QED BY <1>8, <1>9, <1>11, <1>13, <1>14, <1>16 DEF Frames

-----------------------------------------------------------------------------
\* What a step of the user's code finds: m is the height of the stack.

LEMMA UserFinds ==
  ASSUME Frames, UserActs, NEW m, m = Len(stack)
  PROVE  /\ m \in Nat /\ stack \in Seq(Frame) /\ DOMAIN stack = 1..m
         /\ \A i \in 1..m : stack[i].at \in {"callback", "canceller"}
         /\ \A d \in Deferred : running[d] <=> LowerRunning(m, d)
         /\ \A d \in Deferred : LowerRunning(m, d)
                                 => result[d] \in Outcome /\ called[d]
<1>1. m \in Nat /\ stack \in Seq(Frame) /\ DOMAIN stack = 1..m
      BY DEF Frames, Stacked
<1>2. \A i \in 1..m : stack[i].at \in {"callback", "canceller"}
  <2> SUFFICES ASSUME NEW i \in 1..m
               PROVE  stack[i].at \in {"callback", "canceller"}
      OBVIOUS
  <2>1. CASE i < m
        BY <1>1, <2>1 DEF Frames, OnlyTopRuns
  <2>2. CASE i = m
        BY <1>1, <2>2 DEF UserActs, Last
  <2> QED BY <1>1, <2>1, <2>2
<1>3. \A d \in Deferred : running[d] <=> LowerRunning(m, d)
      BY <1>1 DEF Frames, RunningInCallback, LowerRunning
<1>4. \A d \in Deferred : LowerRunning(m, d) => result[d] \in Outcome /\ called[d]
      BY <1>1 DEF Frames, GetsAResult, LowerRunning, InCallback
<1> QED BY <1>1, <1>2, <1>3, <1>4

\* What _runCallbacks finds: m is the height below it, and it acts on Current.
LEMMA TopFinds ==
  ASSUME Frames, stack # <<>>, NEW m, m = Len(stack) - 1
  PROVE  /\ m \in Nat /\ stack \in Seq(Frame) /\ Len(stack) = m + 1
         /\ Last(stack) = stack[m + 1] /\ Last(stack) \in Frame
         /\ Last(stack).chain \in Seq(Deferred) /\ Last(stack).chain # <<>>
         /\ \A i \in 1..m : stack[i].at \in {"callback", "canceller"}
         /\ \A k \in DOMAIN Last(stack).chain :
              /\ ~LowerRunning(m, Last(stack).chain[k])
              /\ Last(stack).at # "canceller" => called[Last(stack).chain[k]]
         /\ Current \in Deferred /\ ~LowerRunning(m, Current)
         /\ Last(stack).at # "canceller" => called[Current]
         /\ Last(stack).at \in {"items", "callback"} => result[Current] \in Outcome
         /\ \A d \in Deferred :
              running[d] <=> \/ LowerRunning(m, d)
                             \/ Last(stack).at = "callback" /\ Current = d
         /\ \A d \in Deferred : LowerRunning(m, d)
                                 => result[d] \in Outcome /\ called[d]
<1>1. /\ m \in Nat /\ stack \in Seq(Frame) /\ Len(stack) = m + 1
      /\ Last(stack) = stack[m + 1] /\ m + 1 \in DOMAIN stack
      /\ DOMAIN stack = 1..(m + 1)
  <2>1. stack \in Seq(Frame) /\ Len(stack) \in Nat \ {0} /\ DOMAIN stack = 1..Len(stack)
        BY DEF Frames, Stacked
  <2> QED BY <2>1 DEF Last
<1>2. /\ Last(stack) \in Frame /\ Last(stack).chain \in Seq(Deferred)
      /\ Last(stack).chain # <<>>
  <2>1. stack[m + 1] \in Frame
        BY ONLY <1>1
  <2>2. stack[m + 1].chain # <<>>
        BY <1>1 DEF Frames, Stacked
  <2> QED BY <1>1, <2>1, <2>2 DEF Frame
<1>3. \A i \in 1..m : i \in DOMAIN stack /\ i < m + 1
      BY ONLY <1>1
<1>4. \A i \in 1..m : stack[i].at \in {"callback", "canceller"}
      BY <1>1, <1>3 DEF Frames, OnlyTopRuns
<1>5. \A k \in DOMAIN Last(stack).chain :
        /\ ~LowerRunning(m, Last(stack).chain[k])
        /\ Last(stack).at # "canceller" => called[Last(stack).chain[k]]
      BY <1>1, <1>3 DEF Frames, Apart, ChainCalled, LowerRunning
<1>6. Current \in Deferred /\ \E k \in DOMAIN Last(stack).chain :
                                Current = Last(stack).chain[k]
      BY ONLY <1>2, FrontIs DEF Current
<1>7. Last(stack).at \in {"items", "callback"} => result[Current] \in Outcome
      BY <1>1 DEF Frames, GetsAResult, Current
<1>8. \A i \in DOMAIN stack : i \in 1..m \/ i = m + 1
      BY ONLY <1>1
<1>9. \A d \in Deferred :
        running[d] <=> \/ LowerRunning(m, d)
                       \/ Last(stack).at = "callback" /\ Current = d
      BY <1>1, <1>3, <1>8
         DEF Frames, RunningInCallback, LowerRunning, InCallback, Current
<1>10. \A d \in Deferred : LowerRunning(m, d) => result[d] \in Outcome /\ called[d]
       BY <1>3 DEF Frames, GetsAResult, LowerRunning, InCallback
<1> QED BY <1>1, <1>2, <1>4, <1>5, <1>6, <1>7, <1>9, <1>10

LEMMA PoppedKeeps ==
  ASSUME Frames, stack # <<>>, NEW m, m = Len(stack) - 1, stack' = Front(stack)
  PROVE  Keeps(m) /\ Len(stack') = m
<1>1. /\ m \in Nat /\ stack \in Seq(Frame) /\ Len(stack) = m + 1
      /\ \A i \in 1..m : stack[i].at \in {"callback", "canceller"}
      BY TopFinds
<1>2. /\ stack' \in Seq(Frame) /\ Len(stack') = Len(stack) - 1
      /\ \A i \in 1..(Len(stack) - 1) : stack'[i] = stack[i]
      BY ONLY <1>1, FrontIs, stack # <<>>, stack' = Front(stack)
<1> QED BY <1>1, <1>2 DEF Keeps

LEMMA ReplacedKeeps ==
  ASSUME Frames, stack # <<>>, NEW m, m = Len(stack) - 1, NEW frame \in Frame,
         stack' = [stack EXCEPT ![Len(stack)] = frame]
  PROVE  Keeps(m) /\ Len(stack') = m + 1 /\ stack'[m + 1] = frame
<1>1. /\ m \in Nat /\ stack \in Seq(Frame) /\ Len(stack) = m + 1
      /\ \A i \in 1..m : stack[i].at \in {"callback", "canceller"}
      BY TopFinds
<1>2. /\ stack' \in Seq(Frame) /\ Len(stack') = Len(stack)
      /\ \A i \in 1..(Len(stack) - 1) : stack'[i] = stack[i]
      /\ stack'[Len(stack)] = frame
      BY ONLY <1>1, TopReplaced, stack # <<>>, frame \in Frame,
              stack' = [stack EXCEPT ![Len(stack)] = frame]
<1> QED BY <1>1, <1>2 DEF Keeps

LEMMA PushedKeeps ==
  ASSUME Frames, UserActs, NEW m, m = Len(stack), NEW frame \in Frame,
         stack' = stack \/ stack' = Append(stack, frame)
  PROVE  /\ Keeps(m)
         /\ \/ Len(stack') = m
            \/ Len(stack') = m + 1 /\ stack'[m + 1] = frame
<1>1. /\ m \in Nat /\ stack \in Seq(Frame)
      /\ \A i \in 1..m : stack[i].at \in {"callback", "canceller"}
      BY UserFinds
<1>2. CASE stack' = stack
      BY <1>1, <1>2 DEF Keeps
<1>3. CASE stack' = Append(stack, frame)
      BY <1>1, <1>3, Appended DEF Keeps
<1> QED BY <1>2, <1>3

-----------------------------------------------------------------------------
\* The frames, action by action.

\* A call of _runCallbacks on a Deferred that is called, or no call at all.
LEMMA RunCallbacksFrames ==
  ASSUME Frames, UserActs, NEW d \in Deferred, called'[d],
         stack' = stack \/ stack' = RunCallbacks(stack, d),
         Undisturbed(Len(stack)), running' = running
  PROVE  Frames'
<1> DEFINE m == Len(stack)
           frame == [at |-> "chain", chain |-> <<d>>]
<1>1. m \in Nat /\ \A e \in Deferred : running[e] <=> LowerRunning(m, e)
      BY UserFinds
<1> HIDE DEF m
<1>2. /\ frame \in Frame /\ frame.chain # <<>> /\ frame.chain \in Seq(Deferred)
      /\ DOMAIN frame.chain = {1} /\ frame.chain[1] = d /\ frame.at = "chain"
      BY DEF Frame
<1> HIDE DEF frame
<1>3. stack' = stack \/ (stack' = Append(stack, frame) /\ ~running[d])
      BY DEF RunCallbacks, frame
<1>4. Keeps(m)
      BY <1>2, <1>3, PushedKeeps DEF m
<1>5. CASE stack' = stack
  <2>1. LeavesNone(m)
        BY <1>1, <1>5 DEF LeavesNone, m
  <2> QED BY <1>2, <1>4, <2>1, FramesKept DEF m
<1>6. CASE stack' = Append(stack, frame) /\ ~running[d]
  <2>1. Len(stack') = m + 1 /\ stack'[m + 1] = frame
        BY <1>6, Appended, <1>2 DEF m, Frames, Stacked
  <2>2. LeavesOne(m, frame)
        BY <1>1, <1>2, <1>6, <2>1 DEF LeavesOne
  <2> QED BY <1>2, <1>4, <2>2, FramesKept DEF m
<1> QED BY <1>3, <1>5, <1>6

\* A callback in progress has a result already: a first one does not disturb it.
LEMMA SettleUndisturbed ==
  ASSUME TypeOK, Frames, NEW m \in Nat, m <= Len(stack),
         NEW d \in Deferred, ~called[d], NEW outcome \in Outcome,
         called' = [called EXCEPT ![d] = TRUE],
         result' = [result EXCEPT ![d] = outcome]
  PROVE  Undisturbed(m) /\ called'[d]
<1>1. \A i \in 1..m : i \in DOMAIN stack
      BY DEF Frames, Stacked
<1>2. \A e \in Deferred : LowerRunning(m, e) => result[e] \in Outcome
      BY <1>1 DEF Frames, GetsAResult, LowerRunning, InCallback
<1> QED BY <1>2 DEF Undisturbed, TypeOK

LEMMA SameUndisturbed ==
  ASSUME Frames, NEW m \in Nat, m <= Len(stack), called' = called, result' = result
  PROVE  Undisturbed(m)
<1>1. \A i \in 1..m : i \in DOMAIN stack
      BY DEF Frames, Stacked
<1>2. \A e \in Deferred : LowerRunning(m, e) => result[e] \in Outcome
      BY <1>1 DEF Frames, GetsAResult, LowerRunning, InCallback
<1> QED BY <1>2 DEF Undisturbed

LEMMA QuietFrames ==
  ASSUME Frames, UserActs, stack' = stack, running' = running,
         Undisturbed(Len(stack))
  PROVE  Frames'
<1> DEFINE m == Len(stack)
<1>1. m \in Nat /\ \A e \in Deferred : running[e] <=> LowerRunning(m, e)
      BY UserFinds
<1>2. [at |-> "chain", chain |-> <<>>] \in Frame
      BY DEF Frame
<1>3. Keeps(m) /\ LeavesNone(m)
      BY <1>1, <1>2, PushedKeeps DEF LeavesNone
<1> QED BY <1>2, <1>3, FramesKept

LEMMA CancellerFrames ==
  ASSUME Inv, UserActs, NEW d \in Deferred, ~called[d],
         stack' = Append(stack, [at |-> "canceller", chain |-> <<d>>]),
         UNCHANGED <<called, result, running>>
  PROVE  Frames'
<1> DEFINE m == Len(stack)
           frame == [at |-> "canceller", chain |-> <<d>>]
<1>1. /\ m \in Nat /\ m <= m
      /\ \A e \in Deferred : running[e] <=> LowerRunning(m, e)
      /\ \A e \in Deferred : LowerRunning(m, e) => called[e]
      BY UserFinds DEF Inv
<1>2. Undisturbed(m)
      BY <1>1, SameUndisturbed DEF Inv
<1> HIDE DEF m
<1>3. /\ frame \in Frame /\ frame.chain # <<>> /\ frame.chain \in Seq(Deferred)
      /\ DOMAIN frame.chain = {1} /\ frame.chain[1] = d /\ frame.at = "canceller"
      BY DEF Frame
<1>4. stack' = Append(stack, frame)
      OBVIOUS
<1> HIDE DEF frame
<1>5. Keeps(m) /\ Len(stack') = m + 1 /\ stack'[m + 1] = frame
      BY <1>3, <1>4, PushedKeeps, Appended DEF m, Inv, Frames, Stacked
<1>6. LeavesOne(m, frame)
      BY <1>1, <1>3, <1>5 DEF LeavesOne
<1> QED BY <1>2, <1>3, <1>5, <1>6, FramesKept DEF Inv

LEMMA UserFrames ==
  ASSUME Inv, NEW d \in Deferred, User(d)
  PROVE  Frames'
<1> USE DEF Inv
<1>1. Len(stack) \in Nat /\ Len(stack) <= Len(stack)
      BY DEF Frames, Stacked
<1>2. CASE AddCallbacks(d)
  <2>1. Undisturbed(Len(stack))
        BY <1>1, <1>2, SameUndisturbed DEF AddCallbacks
  <2>2. CASE called[d]
        BY <1>2, <2>1, <2>2, RunCallbacksFrames DEF AddCallbacks
  <2>3. CASE ~called[d]
        BY <1>2, <2>1, <2>3, QuietFrames DEF AddCallbacks
  <2> QED BY <2>2, <2>3
<1>3. CASE Pause(d)
  <2>1. Undisturbed(Len(stack))
        BY <1>1, <1>3, SameUndisturbed DEF Pause
  <2> QED BY <1>3, <2>1, QuietFrames DEF Pause
<1>4. CASE Unpause(d)
  <2>1. Undisturbed(Len(stack))
        BY <1>1, <1>4, SameUndisturbed DEF Unpause
  <2>2. CASE called[d]
        BY <1>4, <2>1, <2>2, RunCallbacksFrames DEF Unpause
  <2>3. CASE ~called[d]
        BY <1>4, <2>1, <2>3, QuietFrames DEF Unpause
  <2> QED BY <2>2, <2>3
<1>5. CASE Cancel(d)
  <2>1. PICK e \in Suppliers(d) :
          /\ UserActs /\ ~called[e] /\ ~InCanceller(e)
          /\ \/ /\ e \in Cancellable
                /\ stack' = Append(stack, [at |-> "canceller", chain |-> <<e>>])
                /\ UNCHANGED <<called, result, suppress>>
             \/ /\ e \notin Cancellable
                /\ suppress' = SwallowsNext(e)
                /\ Settle(e, "failure", stack)
        BY <1>5 DEF Cancel
  <2>2. e \in Deferred /\ running' = running /\ UserActs /\ ~called[e]
        BY <1>5, <2>1 DEF Cancel, Suppliers
  <2>3. CASE Settle(e, "failure", stack)
    <3>1. Undisturbed(Len(stack)) /\ called'[e]
          BY <1>1, <2>2, <2>3, SettleUndisturbed DEF Settle, Outcome
    <3> QED BY <2>2, <2>3, <3>1, RunCallbacksFrames DEF Settle
  <2>4. CASE /\ stack' = Append(stack, [at |-> "canceller", chain |-> <<e>>])
             /\ UNCHANGED <<called, result>>
        BY <2>2, <2>4, CancellerFrames
  <2> QED BY <2>1, <2>3, <2>4
<1>6. ASSUME NEW outcome \in Outcome, Fire(d, outcome)
      PROVE  Frames'
  <2>1. UserActs /\ running' = running
        BY <1>6 DEF Fire
  <2>2. CASE ~called[d] /\ Settle(d, outcome, stack)
    <3>1. Undisturbed(Len(stack)) /\ called'[d]
          BY <1>1, <2>2, SettleUndisturbed DEF Settle
    <3> QED BY <2>1, <2>2, <3>1, RunCallbacksFrames DEF Settle
  <2>3. CASE UNCHANGED <<called, result, stack>>
    <3>1. Undisturbed(Len(stack))
          BY <1>1, <2>3, SameUndisturbed
    <3> QED BY <2>1, <2>3, <3>1, QuietFrames
  <2> QED BY <1>6, <2>2, <2>3 DEF Fire
<1> QED BY <1>2, <1>3, <1>4, <1>5, <1>6 DEF User

\* The call goes back down the chain, or returns.
LEMMA FinishedFrames ==
  ASSUME Frames, stack # <<>>, Last(stack).at # "canceller", NEW m,
         m = Len(stack) - 1, stack' = Finished, called' = called, Undisturbed(m),
         \A d \in Deferred : running'[d] <=> LowerRunning(m, d)
  PROVE  Frames'
<1>1. /\ Last(stack) \in Frame /\ Last(stack).chain \in Seq(Deferred)
      /\ Last(stack).chain # <<>>
      /\ \A k \in DOMAIN Last(stack).chain :
           ~LowerRunning(m, Last(stack).chain[k]) /\ called[Last(stack).chain[k]]
      BY TopFinds
<1> DEFINE chain == Front(Last(stack).chain)
           frame == [at |-> "chain", chain |-> chain]
<1>2. /\ chain \in Seq(Deferred)
      /\ \A k \in DOMAIN chain : /\ ~LowerRunning(m, chain[k])
                                 /\ called[chain[k]]
  <2>1. /\ chain \in Seq(Deferred)
        /\ Len(Last(stack).chain) \in Nat \ {0}
        /\ DOMAIN Last(stack).chain = 1..Len(Last(stack).chain)
        /\ DOMAIN chain = 1..(Len(Last(stack).chain) - 1)
        /\ \A k \in 1..(Len(Last(stack).chain) - 1) : chain[k] = Last(stack).chain[k]
        BY ONLY <1>1, FrontIs
  <2>2. \A k \in DOMAIN chain : k \in DOMAIN Last(stack).chain
                                /\ chain[k] = Last(stack).chain[k]
        BY ONLY <2>1
  <2> QED BY <1>1, <2>1, <2>2
<1>3. \/ chain = <<>> /\ stack' = Front(stack)
      \/ chain # <<>> /\ stack' = [stack EXCEPT ![Len(stack)] = frame]
      BY DEF Finished
<1> HIDE DEF chain
<1>4. frame \in Frame /\ frame.chain = chain /\ frame.at = "chain"
      BY <1>2 DEF Frame
<1> HIDE DEF frame
<1>5. CASE chain = <<>> /\ stack' = Front(stack)
  <2>1. Keeps(m) /\ LeavesNone(m)
        BY <1>5, PoppedKeeps DEF LeavesNone
  <2> QED BY <1>4, <2>1, FramesKept
<1>6. CASE chain # <<>> /\ stack' = [stack EXCEPT ![Len(stack)] = frame]
  <2>1. Keeps(m) /\ Len(stack') = m + 1 /\ stack'[m + 1] = frame
        BY <1>4, <1>6, ReplacedKeeps
  <2>2. LeavesOne(m, frame)
        BY <1>2, <1>4, <1>6, <2>1 DEF LeavesOne
  <2> QED BY <1>4, <2>1, <2>2, FramesKept
<1> QED BY <1>3, <1>5, <1>6

\* The call goes on where it is, inside of a callback or not.
LEMMA GoToFrames ==
  ASSUME Frames, stack # <<>>, Last(stack).at # "canceller", NEW m,
         m = Len(stack) - 1, NEW where \in {"items", "callback"},
         stack' = GoTo(where), called' = called, Undisturbed(m),
         result'[Current] \in Outcome,
         \A d \in Deferred : running'[d] <=> \/ LowerRunning(m, d)
                                             \/ where = "callback" /\ Current = d
  PROVE  Frames'
<1> DEFINE frame == [at |-> where, chain |-> Last(stack).chain]
<1>1. /\ Last(stack).chain \in Seq(Deferred) /\ Last(stack).chain # <<>>
      /\ \A k \in DOMAIN Last(stack).chain :
           ~LowerRunning(m, Last(stack).chain[k]) /\ called[Last(stack).chain[k]]
      BY TopFinds
<1>2. stack' = [stack EXCEPT ![Len(stack)] = frame]
      BY TopFinds DEF GoTo
<1>3. frame \in Frame /\ frame.chain = Last(stack).chain /\ frame.at = where
      BY <1>1 DEF Frame
<1> HIDE DEF frame
<1>4. Keeps(m) /\ Len(stack') = m + 1 /\ stack'[m + 1] = frame
      BY <1>2, <1>3, ReplacedKeeps
<1>5. LeavesOne(m, frame)
      BY <1>1, <1>3, <1>4 DEF LeavesOne, Current
<1> QED BY <1>3, <1>4, <1>5, FramesKept

\* The chainee waited: it is in no callback.
LEMMA HandsOverFrames ==
  ASSUME Inv, HandsOver
  PROVE  Frames'
<1> USE DEF Inv, At
<1> DEFINE m == Len(stack) - 1
           chainee == Head(callbacks[Current])
           frame == [at |-> "chain", chain |-> Append(Last(stack).chain, chainee)]
<1>1. stack # <<>> /\ Last(stack).at = "items" /\ callbacks[Current] # <<>>
      BY DEF HandsOver
<1>2. /\ m \in Nat /\ Len(stack) = m + 1 /\ Current \in Deferred
      /\ ~LowerRunning(m, Current) /\ result[Current] \in Outcome
      /\ Last(stack).chain \in Seq(Deferred) /\ Last(stack).chain # <<>>
      /\ \A k \in DOMAIN Last(stack).chain :
           ~LowerRunning(m, Last(stack).chain[k]) /\ called[Last(stack).chain[k]]
      /\ \A d \in Deferred : running[d] <=> LowerRunning(m, d)
      /\ \A d \in Deferred : LowerRunning(m, d) => result[d] \in Outcome
      BY <1>1, TopFinds
<1>3. chainee \in Deferred /\ result[chainee] = Current
  <2>0. callbacks[Current] \in Seq(Deferred \cup {Own}) /\ callbacks[Current] # <<>>
    <3>1. callbacks \in [Deferred -> Seq(Deferred \cup {Own})]
          BY DEF TypeOK
    <3> QED BY ONLY <1>1, <1>2, <3>1
  <2>1. /\ 1 \in DOMAIN callbacks[Current] /\ chainee = callbacks[Current][1]
        /\ chainee \in Deferred \cup {Own}
        BY ONLY <2>0
  <2>2. chainee \in Deferred
        BY <2>1 DEF HandsOver
  <2> QED BY <1>2, <2>0, <2>1, <2>2 DEF WaitsWhereListed, IsListed
<1>4. called[chainee] /\ ~LowerRunning(m, chainee)
      BY <1>2, <1>3, DeferredAssumption DEF ResultOnceCalled
<1>5. /\ called' = called /\ running' = running
      /\ result' = [result EXCEPT ![chainee] = result[Current], ![Current] = "value"]
      /\ stack' = [stack EXCEPT ![Len(stack)] = frame]
      BY <1>1, TopFinds DEF HandsOver
<1> HIDE DEF m, chainee
<1>6. frame \in Frame /\ frame.at = "chain"
      /\ frame.chain = Append(Last(stack).chain, chainee)
      BY <1>2, <1>3 DEF Frame
<1> HIDE DEF frame
<1>7. Undisturbed(m)
      BY <1>2, <1>4, <1>5 DEF Undisturbed, TypeOK
<1>8. Keeps(m) /\ Len(stack') = m + 1 /\ stack'[m + 1] = frame
      BY <1>1, <1>5, <1>6, ReplacedKeeps DEF m
<1>9. /\ frame.chain # <<>>
      /\ \A k \in DOMAIN frame.chain : ~LowerRunning(m, frame.chain[k])
                                       /\ called[frame.chain[k]]
  <2>1. /\ DOMAIN frame.chain = 1..(Len(Last(stack).chain) + 1)
        /\ Len(Last(stack).chain) \in Nat
        /\ DOMAIN Last(stack).chain = 1..Len(Last(stack).chain)
        /\ \A k \in 1..Len(Last(stack).chain) : frame.chain[k] = Last(stack).chain[k]
        /\ frame.chain[Len(Last(stack).chain) + 1] = chainee /\ frame.chain # <<>>
        BY ONLY <1>2, <1>3, <1>6
  <2>2. \A k \in DOMAIN frame.chain :
          \/ k \in DOMAIN Last(stack).chain /\ frame.chain[k] = Last(stack).chain[k]
          \/ frame.chain[k] = chainee
        BY ONLY <2>1
  <2> QED BY <1>2, <1>4, <2>1, <2>2
<1>10. LeavesOne(m, frame)
       BY <1>2, <1>5, <1>6, <1>8, <1>9 DEF LeavesOne
<1> QED BY <1>6, <1>7, <1>8, <1>10, FramesKept

LEMMA CancellerReturnsFrames ==
  ASSUME Inv, CancellerReturns
  PROVE  Frames'
<1> USE DEF Inv
<1> DEFINE m == Len(stack) - 1
           d == Last(stack).chain[1]
           frame == [at |-> "chain", chain |-> <<d>>]
<1>1. stack # <<>> /\ Last(stack).at = "canceller" /\ running' = running
      BY DEF CancellerReturns
<1>2. /\ m \in Nat /\ m <= Len(stack) /\ Len(stack) = m + 1
      /\ Last(stack).chain \in Seq(Deferred) /\ Last(stack).chain # <<>>
      /\ \A k \in DOMAIN Last(stack).chain : ~LowerRunning(m, Last(stack).chain[k])
      /\ \A e \in Deferred : running[e] <=> LowerRunning(m, e)
      /\ \A e \in Deferred : LowerRunning(m, e) => result[e] \in Outcome
      /\ stack \in Seq(Frame)
      BY <1>1, TopFinds
<1>3. d \in Deferred /\ ~LowerRunning(m, d)
      BY <1>2
<1>4. /\ Front(stack) \in Seq(Frame) /\ Len(Front(stack)) = Len(stack) - 1
      BY ONLY <1>1, <1>2, FrontIs
<1>5. frame \in Frame /\ frame.at = "chain" /\ frame.chain # <<>>
      /\ DOMAIN frame.chain = {1} /\ frame.chain[1] = d
      BY <1>3 DEF Frame
<1>6. \/ stack' = Front(stack) /\ UNCHANGED <<called, result>>
      \/ /\ ~called[d] /\ called' = [called EXCEPT ![d] = TRUE]
         /\ result' = [result EXCEPT ![d] = "failure"]
         /\ \/ stack' = Front(stack)
            \/ stack' = Append(Front(stack), frame)
      BY DEF CancellerReturns, Settle, RunCallbacks
<1> HIDE DEF m, d, frame
<1>7. Undisturbed(m)
  <2>1. CASE UNCHANGED <<called, result>>
        BY <1>2, <2>1, SameUndisturbed
  <2>2. CASE /\ ~called[d] /\ called' = [called EXCEPT ![d] = TRUE]
             /\ result' = [result EXCEPT ![d] = "failure"]
        BY <1>2, <1>3, <2>2, SettleUndisturbed DEF Outcome
  <2> QED BY <1>6, <2>1, <2>2
<1>8. CASE stack' = Front(stack)
  <2>1. Keeps(m) /\ LeavesNone(m)
        BY <1>1, <1>2, <1>8, PoppedKeeps DEF m, LeavesNone
  <2> QED BY <1>5, <1>7, <2>1, FramesKept
<1>9. CASE stack' = Append(Front(stack), frame) /\ called'[d]
  <2>1. /\ stack' \in Seq(Frame) /\ Len(stack') = m + 1 /\ stack'[m + 1] = frame
        /\ \A i \in 1..m : stack'[i] = Front(stack)[i]
    <3>1. Len(Front(stack)) = m
          BY <1>4 DEF m
    <3> QED BY ONLY <1>2, <1>4, <1>5, <1>9, <3>1, Appended
  <2>2. \A i \in 1..m : stack'[i] = stack[i] /\ stack[i].at \in {"callback", "canceller"}
        BY <1>1, <1>2, <2>1, FrontIs, TopFinds DEF m
  <2>3. Keeps(m)
        BY <1>2, <2>1, <2>2 DEF Keeps
  <2>4. LeavesOne(m, frame)
        BY <1>1, <1>2, <1>3, <1>5, <1>9, <2>1 DEF LeavesOne
  <2> QED BY <1>5, <1>7, <2>3, <2>4, FramesKept
<1> QED BY <1>3, <1>6, <1>8, <1>9 DEF TypeOK

LEMMA RunFrames ==
  ASSUME Inv, Run
  PROVE  Frames'
<1> USE DEF Inv, At
<1> DEFINE m == Len(stack) - 1
<1>1. stack # <<>> /\ Last(stack).at \in {"chain", "items"}
      BY DEF Run, StopsAtPaused, EntersItems, HandsOver, StartsCallback, NoMoreItems
<1>2. /\ m \in Nat /\ m <= Len(stack) /\ Current \in Deferred /\ called[Current]
      /\ ~LowerRunning(m, Current)
      /\ Last(stack).at = "items" => result[Current] \in Outcome
      /\ \A d \in Deferred : running[d] <=> LowerRunning(m, d)
      /\ \A d \in Deferred : LowerRunning(m, d) => result[d] \in Outcome
      BY <1>1, TopFinds
<1> HIDE DEF m
<1>3. CASE StopsAtPaused
  <2>1. Undisturbed(m)
        BY <1>2, <1>3, SameUndisturbed DEF StopsAtPaused
  <2>2. Keeps(m) /\ LeavesNone(m)
        BY <1>1, <1>2, <1>3, PoppedKeeps DEF StopsAtPaused, LeavesNone, m
  <2>3. [at |-> "chain", chain |-> <<>>] \in Frame
        BY DEF Frame
  <2> QED BY <2>1, <2>2, <2>3, FramesKept
<1>4. CASE EntersItems
  <2>1. Undisturbed(m) /\ result' = result /\ running' = running /\ called' = called
        BY <1>2, <1>4, SameUndisturbed DEF EntersItems
  <2>2. result[Current] \in Outcome
        BY <1>2, <1>4 DEF EntersItems, IsPaused, WaitsWhereListed, ResultOnceCalled,
                          TypeOK
  <2> QED BY <1>1, <1>2, <1>4, <2>1, <2>2, GoToFrames DEF EntersItems, m
<1>5. CASE HandsOver
      BY <1>5, HandsOverFrames
<1>6. CASE StartsCallback
  <2>1. Undisturbed(m) /\ result' = result /\ called' = called
        BY <1>2, <1>6, SameUndisturbed DEF StartsCallback
  <2>2. \A d \in Deferred : running'[d] <=> LowerRunning(m, d) \/ Current = d
        BY <1>2, <1>6 DEF StartsCallback, TypeOK
  <2> QED BY <1>1, <1>2, <1>6, <2>1, <2>2, GoToFrames DEF StartsCallback, m
<1>7. CASE NoMoreItems
  <2>1. Undisturbed(m) /\ running' = running
        BY <1>2, <1>7, SameUndisturbed DEF NoMoreItems
  <2> QED BY <1>1, <1>2, <1>7, <2>1, FinishedFrames DEF NoMoreItems, m
<1> QED BY <1>3, <1>4, <1>5, <1>6, <1>7 DEF Run

LEMMA ReturnFrames ==
  ASSUME Inv, Return
  PROVE  Frames'
<1> USE DEF Inv, At
<1>1. CASE CancellerReturns
      BY <1>1, CancellerReturnsFrames
<1>2. CASE ~CancellerReturns
  <2> DEFINE m == Len(stack) - 1
  <2>1. stack # <<>> /\ Last(stack).at = "callback"
        BY <1>2 DEF Return, Returns, WaitsFor, Steals
  <2>2. /\ m \in Nat /\ m <= Len(stack) /\ Current \in Deferred /\ called[Current]
        /\ ~LowerRunning(m, Current)
        /\ \A d \in Deferred : running[d] <=> LowerRunning(m, d) \/ Current = d
        /\ \A d \in Deferred : LowerRunning(m, d) => result[d] \in Outcome
        BY <2>1, TopFinds
  <2> HIDE DEF m
  <2>3. ASSUME NEW outcome \in Outcome, Returns(outcome)
        PROVE  Frames'
    <3>1. Undisturbed(m) /\ called' = called /\ result'[Current] \in Outcome
          BY <2>2, <2>3 DEF Returns, Undisturbed, TypeOK
    <3>2. \A d \in Deferred : running'[d] <=> LowerRunning(m, d)
          BY <2>2, <2>3 DEF Returns, TypeOK
    <3> QED BY <2>1, <2>3, <3>1, <3>2, GoToFrames DEF Returns, m
  <2>4. ASSUME NEW d \in Deferred, WaitsFor(d)
        PROVE  Frames'
    <3>1. Undisturbed(m) /\ called' = called
          BY <2>2, <2>4 DEF WaitsFor, Undisturbed, TypeOK
    <3>2. \A e \in Deferred : running'[e] <=> LowerRunning(m, e)
          BY <2>2, <2>4 DEF WaitsFor, TypeOK
    <3> QED BY <2>1, <2>4, <3>1, <3>2, FinishedFrames DEF WaitsFor, m
  <2>5. ASSUME NEW d \in Deferred, Steals(d)
        PROVE  Frames'
    <3>1. result[d] \in Outcome /\ d # Current /\ "value" \in Outcome
          BY <2>5 DEF Steals, MustWait, TypeOK, Suppliers, Outcome
    <3>2. Undisturbed(m) /\ called' = called /\ result'[Current] \in Outcome
          BY <2>2, <2>5, <3>1 DEF Steals, Undisturbed, TypeOK
    <3>3. \A e \in Deferred : running'[e] <=> LowerRunning(m, e)
          BY <2>2, <2>5 DEF Steals, TypeOK
    <3> QED BY <2>1, <2>5, <3>2, <3>3, GoToFrames DEF Steals, m
  <2> QED BY <1>2, <2>3, <2>4, <2>5 DEF Return
<1> QED BY <1>1, <1>2

-----------------------------------------------------------------------------
\* Who waits where: what a step does to the entries of callbacks.

\* The parts of WaitsWhereListed, for one Deferred.
ListedOnce(a) ==
  \A d \in Deferred : \A i, j \in DOMAIN callbacks[d] :
    IsListed(a, d, i) => result[a] = d /\ (IsListed(a, d, j) => i = j)
ListedIfWaiting(a) ==
  result[a] \in Deferred
    => \E i \in DOMAIN callbacks[result[a]] : IsListed(a, result[a], i)
PausesCounted(a) ==
  paused[a] = held[a] + (IF result[a] \in Deferred THEN 1 ELSE 0)

LEMMA WaitsByParts ==
  WaitsWhereListed
    <=> \A a \in Deferred : ListedOnce(a) /\ ListedIfWaiting(a) /\ PausesCounted(a)
BY DEF WaitsWhereListed, ListedOnce, ListedIfWaiting, PausesCounted

\* Nobody begins or ends to wait.
LEMMA SameWaits ==
  ASSUME WaitsWhereListed,
         \A a, d \in Deferred : \A i : IsListed(a, d, i)' <=> IsListed(a, d, i),
         \A a \in Deferred : \/ result'[a] = result[a]
                             \/ result[a] \notin Deferred /\ result'[a] \notin Deferred,
         \A a \in Deferred : \/ paused'[a] = paused[a] /\ held'[a] = held[a]
                             \/ paused'[a] = held'[a] + (IF result[a] \in Deferred
                                                        THEN 1 ELSE 0)
  PROVE  WaitsWhereListed'
<1> SUFFICES ASSUME NEW a \in Deferred
             PROVE  ListedOnce(a)' /\ ListedIfWaiting(a)' /\ PausesCounted(a)'
    BY DEF WaitsWhereListed, ListedOnce, ListedIfWaiting, PausesCounted
<1>1. ListedOnce(a) /\ ListedIfWaiting(a) /\ PausesCounted(a)
      BY WaitsByParts
<1>2. ListedOnce(a)'
      BY <1>1 DEF ListedOnce, IsListed
<1>3. ListedIfWaiting(a)'
      BY <1>1 DEF ListedIfWaiting, IsListed
<1>4. PausesCounted(a)'
      BY <1>1 DEF PausesCounted
<1> QED BY <1>2, <1>3, <1>4

\* A callback of the user is added.
LEMMA OwnAdded ==
  ASSUME TypeOK, NEW c \in Deferred,
         callbacks' = [callbacks EXCEPT ![c] = Append(@, Own)]
  PROVE  \A a, d \in Deferred : \A i : IsListed(a, d, i)' <=> IsListed(a, d, i)
<1> SUFFICES ASSUME NEW a \in Deferred, NEW d \in Deferred, NEW i
             PROVE  IsListed(a, d, i)' <=> IsListed(a, d, i)
    OBVIOUS
<1>1. CASE d # c
      BY <1>1 DEF TypeOK, IsListed
<1>2. CASE d = c
  <2> DEFINE old == callbacks[c]
             new == Append(old, Own)
  <2>1. old \in Seq(Deferred \cup {Own}) /\ callbacks'[c] = new
        BY DEF TypeOK
  <2> HIDE DEF old
  <2>2. /\ Len(old) \in Nat /\ DOMAIN old = 1..Len(old)
        /\ DOMAIN new = 1..(Len(old) + 1) /\ new[Len(old) + 1] = Own
        /\ \A j \in 1..Len(old) : new[j] = old[j]
        BY ONLY <2>1
  <2>3. a # Own
        BY DeferredAssumption
  <2>4. (i \in DOMAIN new /\ new[i] = a) <=> (i \in DOMAIN old /\ old[i] = a)
        BY ONLY <2>2, <2>3
  <2> QED BY <1>2, <2>1, <2>4 DEF IsListed, old
<1> QED BY <1>1, <1>2

\* The first entry of c is taken.
LEMMA FirstTaken ==
  ASSUME TypeOK, NEW c \in Deferred, callbacks[c] # <<>>,
         callbacks' = [callbacks EXCEPT ![c] = Tail(@)]
  PROVE  \A a, d \in Deferred : \A i :
           /\ d # c => (IsListed(a, d, i)' <=> IsListed(a, d, i))
           /\ IsListed(a, c, i)' => i \in Nat \ {0} /\ IsListed(a, c, i + 1)
           /\ IsListed(a, c, i) =>
                \/ i = 1 /\ a = Head(callbacks[c])
                \/ i - 1 \in DOMAIN callbacks'[c] /\ IsListed(a, c, i - 1)'
<1> SUFFICES ASSUME NEW a \in Deferred, NEW d \in Deferred, NEW i
             PROVE  /\ d # c => (IsListed(a, d, i)' <=> IsListed(a, d, i))
                    /\ IsListed(a, c, i)' => i \in Nat \ {0} /\ IsListed(a, c, i + 1)
                    /\ IsListed(a, c, i) =>
                         \/ i = 1 /\ a = Head(callbacks[c])
                         \/ i - 1 \in DOMAIN callbacks'[c] /\ IsListed(a, c, i - 1)'
    OBVIOUS
<1> DEFINE old == callbacks[c]
           new == Tail(old)
<1>1. old \in Seq(Deferred \cup {Own}) /\ callbacks'[c] = new /\ old # <<>>
      BY DEF TypeOK
<1>2. d # c => callbacks'[d] = callbacks[d]
      BY DEF TypeOK
<1> HIDE DEF old
<1>3. /\ Len(old) \in Nat \ {0} /\ DOMAIN old = 1..Len(old)
      /\ DOMAIN new = 1..(Len(old) - 1) /\ Head(old) = old[1]
      /\ \A j \in 1..(Len(old) - 1) : new[j] = old[j + 1]
      BY ONLY <1>1, TailIs
<1> HIDE DEF new
<1>4. i \in DOMAIN new /\ new[i] = a
        => i \in Nat \ {0} /\ i + 1 \in DOMAIN old /\ old[i + 1] = a
      BY ONLY <1>3
<1>5. i \in DOMAIN old /\ old[i] = a
        => \/ i = 1 /\ a = Head(old)
           \/ i - 1 \in DOMAIN new /\ new[i - 1] = a
      BY ONLY <1>3
<1> QED BY <1>1, <1>2, <1>4, <1>5 DEF IsListed, old

\* The Deferred e goes to wait for c.
LEMMA WaiterAdded ==
  ASSUME TypeOK, NEW c \in Deferred, NEW e \in Deferred,
         callbacks' = [callbacks EXCEPT ![c] = Append(@, e)]
  PROVE  /\ \A a, d \in Deferred : \A i :
              d # c \/ a # e => (IsListed(a, d, i)' <=> IsListed(a, d, i))
         /\ \E n \in DOMAIN callbacks'[c] :
              /\ IsListed(e, c, n)'
              /\ \A i : IsListed(e, c, i)' => IsListed(e, c, i) \/ i = n
<1> PICK n : n = Len(callbacks[c]) + 1
    OBVIOUS
<1> DEFINE old == callbacks[c]
           new == Append(old, e)
<1>1. /\ old \in Seq(Deferred \cup {Own}) /\ callbacks'[c] = new
      /\ e \in Deferred \cup {Own} /\ n = Len(old) + 1
      BY DEF TypeOK
<1>2. \A d \in Deferred : d # c => callbacks'[d] = callbacks[d]
      BY DEF TypeOK
<1> HIDE DEF old
<1>3. /\ Len(old) \in Nat /\ DOMAIN old = 1..Len(old)
      /\ DOMAIN new = 1..(Len(old) + 1) /\ new[Len(old) + 1] = e
      /\ \A j \in 1..Len(old) : new[j] = old[j]
      BY ONLY <1>1
<1> HIDE DEF new
<1>4. \A a, i : a # e => (i \in DOMAIN new /\ new[i] = a
                           <=> i \in DOMAIN old /\ old[i] = a)
      BY ONLY <1>3
<1>5. \A i : i \in DOMAIN new /\ new[i] = e
               => (i \in DOMAIN old /\ old[i] = e) \/ i = n
      BY ONLY <1>1, <1>3
<1>6. n \in DOMAIN new /\ new[n] = e
      BY ONLY <1>1, <1>3
<1>7. \A a, d \in Deferred : \A i :
        d # c => (IsListed(a, d, i)' <=> IsListed(a, d, i))
      BY ONLY <1>2 DEF IsListed
<1>8. \A a, i : /\ IsListed(a, c, i)' <=> i \in DOMAIN new /\ new[i] = a
                /\ IsListed(a, c, i) <=> i \in DOMAIN old /\ old[i] = a
      BY ONLY <1>1 DEF IsListed, old
<1>9. \A i : IsListed(e, c, i)' => IsListed(e, c, i) \/ i = n
      BY ONLY <1>5, <1>8
<1>10. \A a, d \in Deferred : \A i :
         d = c /\ a # e => (IsListed(a, d, i)' <=> IsListed(a, d, i))
       BY ONLY <1>4, <1>8
<1>11. n \in DOMAIN callbacks'[c] /\ IsListed(e, c, n)'
       BY ONLY <1>1, <1>6, <1>8
<1> QED BY ONLY <1>7, <1>9, <1>10, <1>11

LEMMA PausedIsNat ==
  ASSUME TypeOK, WaitsWhereListed, NEW a \in Deferred
  PROVE  /\ paused[a] \in Nat /\ held[a] \in Nat
         /\ result[a] \in Deferred => paused[a] = held[a] + 1
         /\ result[a] \notin Deferred => paused[a] = held[a]
         /\ (result[a] \in Outcome \/ result[a] = NoResult) => result[a] \notin Deferred
BY DeferredAssumption DEF TypeOK, WaitsWhereListed

\* The waiter w of c gets its result.
LEMMA HandsOverWaits ==
  ASSUME Inv, HandsOver, NEW c, c = Current, NEW w, w = Head(callbacks[c])
  PROVE  WaitsWhereListed'
<1> USE DEF Inv
<1>1. c \in Deferred /\ result[c] \in Outcome /\ callbacks[c] # <<>>
      BY TopFinds DEF HandsOver, At
<1>2. /\ w # Own /\ callbacks' = [callbacks EXCEPT ![c] = Tail(@)]
      /\ result' = [result EXCEPT ![w] = result[c], ![c] = "value"]
      /\ paused' = [paused EXCEPT ![w] = @ - 1] /\ held' = held
      BY DEF HandsOver, Releases, history
<1>3. w \in Deferred /\ IsListed(w, c, 1)
  <2>1. callbacks[c] \in Seq(Deferred \cup {Own})
        BY <1>1 DEF TypeOK
  <2>2. w \in Deferred \cup {Own} /\ 1 \in DOMAIN callbacks[c] /\ w = callbacks[c][1]
        BY <1>1, <2>1, TailIs
  <2> QED BY <1>2, <2>2 DEF IsListed
<1>4. result[w] = c /\ result[c] \notin Deferred /\ w # c
      BY <1>1, <1>3, PausedIsNat DEF WaitsWhereListed, IsListed
<1>5. \A a, d \in Deferred : \A i :
        /\ d # c => (IsListed(a, d, i)' <=> IsListed(a, d, i))
        /\ IsListed(a, c, i)' => i \in Nat \ {0} /\ IsListed(a, c, i + 1)
        /\ IsListed(a, c, i) =>
             \/ i = 1 /\ a = w
             \/ i - 1 \in DOMAIN callbacks'[c] /\ IsListed(a, c, i - 1)'
      BY <1>1, <1>2, FirstTaken
<1>6. \A a \in Deferred :
        /\ a # w => result'[a] = result[a] \/ (result[a] \notin Deferred
                                               /\ result'[a] \notin Deferred)
        /\ a # w => paused'[a] = paused[a]
        /\ held'[a] = held[a]
  <2>1. "value" \notin Deferred
        BY DeferredAssumption DEF Outcome
  <2> QED BY <1>1, <1>2, <1>3, <1>4, <2>1 DEF TypeOK
<1>7. result'[w] \notin Deferred /\ paused'[w] = held[w]
  <2>1. result'[w] = result[c] /\ paused'[w] = paused[w] - 1
        BY <1>1, <1>2, <1>3, <1>4 DEF TypeOK
  <2> QED BY <1>1, <1>3, <1>4, <2>1, PausedIsNat
<1>8. \A d \in Deferred : \A i : ~IsListed(w, d, i)'
  <2> SUFFICES ASSUME NEW d \in Deferred, NEW i, IsListed(w, d, i)'
               PROVE  FALSE
      OBVIOUS
  <2>1. CASE d # c
    <3>1. IsListed(w, d, i)
          BY <1>3, <1>5, <2>1
    <3>2. i \in DOMAIN callbacks[d]
          BY <3>1 DEF IsListed
    <3> QED BY <1>3, <1>4, <2>1, <3>1, <3>2 DEF WaitsWhereListed
  <2>2. CASE d = c
    <3>1. i \in Nat \ {0} /\ IsListed(w, c, i + 1)
          BY <1>1, <1>3, <1>5, <2>2
    <3>2. i + 1 \in DOMAIN callbacks[c] /\ 1 \in DOMAIN callbacks[c]
          BY <1>3, <3>1 DEF IsListed
    <3>3. i + 1 = 1
          BY <1>1, <1>3, <3>1, <3>2 DEF WaitsWhereListed
    <3> QED BY <3>1, <3>3
  <2> QED BY <2>1, <2>2
<1> SUFFICES ASSUME NEW a \in Deferred
             PROVE  ListedOnce(a)' /\ ListedIfWaiting(a)' /\ PausesCounted(a)'
    BY DEF WaitsWhereListed, ListedOnce, ListedIfWaiting, PausesCounted
<1>9. ListedOnce(a) /\ ListedIfWaiting(a) /\ PausesCounted(a)
      BY WaitsByParts
<1>10. CASE a = w
  <2>1. ListedOnce(a)'
        BY <1>8, <1>10 DEF ListedOnce
  <2>2. held[a] \in Nat /\ held'[a] = held[a] /\ paused'[a] = held[a]
        /\ result'[a] \notin Deferred
        BY <1>2, <1>7, <1>10, PausedIsNat
  <2>3. ListedIfWaiting(a)'
        BY <2>2 DEF ListedIfWaiting
  <2>4. PausesCounted(a)'
        BY ONLY <2>2 DEF PausesCounted
  <2> QED BY <2>1, <2>3, <2>4
<1>11. CASE a # w
  <2>1. \A d \in Deferred : \A i : IsListed(a, d, i)' =>
          /\ d # c => IsListed(a, d, i)
          /\ d = c => i \in Nat \ {0} /\ IsListed(a, c, i + 1)
        BY <1>5
  <2>2. \A d \in Deferred : \A i : IsListed(a, d, i) => result[a] = d
        BY <1>9 DEF ListedOnce, IsListed
  <2>3. \A d \in Deferred : \A i : IsListed(a, d, i)' => result'[a] = d
    <3> SUFFICES ASSUME NEW d \in Deferred, NEW i, IsListed(a, d, i)'
                 PROVE  result'[a] = d
        OBVIOUS
    <3>1. result[a] = d
          BY <1>1, <2>1, <2>2
    <3> QED BY <1>6, <1>11, <3>1
  <2>4. \A d \in Deferred : \A i, k :
          IsListed(a, d, i)' /\ IsListed(a, d, k)' => i = k
    <3> SUFFICES ASSUME NEW d \in Deferred, NEW i, NEW k,
                        IsListed(a, d, i)', IsListed(a, d, k)'
                 PROVE  i = k
        OBVIOUS
    <3>1. \A n, o : IsListed(a, d, n) /\ IsListed(a, d, o) => n = o
          BY <1>9 DEF ListedOnce, IsListed
    <3>2. CASE d # c
          BY <2>1, <3>1, <3>2
    <3>3. CASE d = c
      <4>1. i \in Nat /\ k \in Nat /\ i + 1 = k + 1
            BY <2>1, <3>1, <3>3
      <4> QED BY ONLY <4>1
    <3> QED BY <3>2, <3>3
  <2>5. ListedOnce(a)'
        BY <2>3, <2>4 DEF ListedOnce
  <2>6. ListedIfWaiting(a)'
    <3> SUFFICES ASSUME NEW r \in Deferred, result'[a] = r
                 PROVE  \E i \in DOMAIN callbacks'[r] : IsListed(a, r, i)'
        BY DEF ListedIfWaiting, IsListed
    <3>1. result[a] = r
          BY <1>6, <1>11
    <3>2. PICK i \in DOMAIN callbacks[r] : IsListed(a, r, i)
          BY <1>9, <3>1 DEF ListedIfWaiting
    <3>3. CASE r # c
          BY <1>5, <3>2, <3>3 DEF IsListed
    <3>4. CASE r = c
          BY <1>5, <1>11, <3>2, <3>4
    <3> QED BY <3>3, <3>4
  <2>7. PausesCounted(a)'
        BY <1>6, <1>9, <1>11 DEF PausesCounted
  <2> QED BY <2>5, <2>6, <2>7
<1> QED BY <1>10, <1>11

\* c waits for d.
LEMMA WaitsForWaits ==
  ASSUME Inv, NEW d \in Deferred, WaitsFor(d), NEW c, c = Current
  PROVE  WaitsWhereListed'
<1> USE DEF Inv
<1>1. c \in Deferred /\ result[c] \in Outcome
      BY TopFinds DEF WaitsFor, At
<1>2. /\ callbacks' = [callbacks EXCEPT ![d] = Append(@, c)]
      /\ result' = [result EXCEPT ![c] = d]
      /\ paused' = [paused EXCEPT ![c] = @ + 1] /\ held' = held
      BY DEF WaitsFor, PausesToWait, history
<1>3. result[c] \notin Deferred /\ result'[c] = d
      BY <1>1, <1>2, PausedIsNat DEF TypeOK
<1>4. \A a \in Deferred : \A i : \A e \in Deferred : IsListed(a, e, i) => result[a] = e
      BY DEF WaitsWhereListed, IsListed
<1>5. \A e \in Deferred : \A i : ~IsListed(c, e, i)
      BY <1>1, <1>3, <1>4
<1>6. \A a, e \in Deferred : \A i :
        e # d \/ a # c => (IsListed(a, e, i)' <=> IsListed(a, e, i))
      BY <1>1, <1>2, WaiterAdded
<1> PICK n \in DOMAIN callbacks'[d] :
      /\ IsListed(c, d, n)'
      /\ \A i : IsListed(c, d, i)' => IsListed(c, d, i) \/ i = n
    BY <1>1, <1>2, WaiterAdded
<1> SUFFICES ASSUME NEW a \in Deferred
             PROVE  ListedOnce(a)' /\ ListedIfWaiting(a)' /\ PausesCounted(a)'
    BY DEF WaitsWhereListed, ListedOnce, ListedIfWaiting, PausesCounted
<1>7. ListedOnce(a) /\ ListedIfWaiting(a) /\ PausesCounted(a)
      BY WaitsByParts
<1>8. CASE a = c
  <2>1. ListedOnce(a)'
        BY <1>1, <1>3, <1>5, <1>6, <1>8 DEF ListedOnce
  <2>2. ListedIfWaiting(a)'
        BY <1>3, <1>6, <1>8 DEF ListedIfWaiting
  <2>3. /\ paused[a] \in Nat /\ held[a] \in Nat /\ paused[a] = held[a]
        /\ paused'[a] = paused[a] + 1 /\ held'[a] = held[a]
        /\ result'[a] \in Deferred
        BY <1>1, <1>2, <1>3, <1>8, PausedIsNat DEF TypeOK
  <2>4. PausesCounted(a)'
        BY ONLY <2>3 DEF PausesCounted
  <2> QED BY <2>1, <2>2, <2>4
<1>9. CASE a # c
  <2>1. result'[a] = result[a] /\ paused'[a] = paused[a] /\ held'[a] = held[a]
        BY <1>1, <1>2, <1>9 DEF TypeOK
  <2>2. ListedOnce(a)'
        BY <1>6, <1>7, <1>9, <2>1 DEF ListedOnce, IsListed
  <2>3. ListedIfWaiting(a)'
        BY <1>6, <1>7, <1>9, <2>1 DEF ListedIfWaiting, IsListed
  <2>4. PausesCounted(a)'
        BY <1>7, <2>1 DEF PausesCounted
  <2> QED BY <2>2, <2>3, <2>4
<1> QED BY <1>8, <1>9

LEMMA StartsCallbackWaits ==
  ASSUME Inv, StartsCallback, NEW c, c = Current
  PROVE  WaitsWhereListed'
<1> USE DEF Inv
<1>1. c \in Deferred /\ callbacks[c] # <<>> /\ Head(callbacks[c]) = Own
      BY TopFinds DEF StartsCallback, At
<1>2. /\ callbacks' = [callbacks EXCEPT ![c] = Tail(@)]
      /\ UNCHANGED <<result, paused, held>>
      BY DEF StartsCallback, history
<1>3. \A a \in Deferred : a # Own
      BY DeferredAssumption
<1>4. \A a, d \in Deferred : \A i :
        /\ d # c => (IsListed(a, d, i)' <=> IsListed(a, d, i))
        /\ IsListed(a, c, i)' => i \in Nat \ {0} /\ IsListed(a, c, i + 1)
        /\ IsListed(a, c, i)
             => i - 1 \in DOMAIN callbacks'[c] /\ IsListed(a, c, i - 1)'
      BY <1>1, <1>2, <1>3, FirstTaken
<1> SUFFICES ASSUME NEW a \in Deferred
             PROVE  ListedOnce(a)' /\ ListedIfWaiting(a)' /\ PausesCounted(a)'
    BY DEF WaitsWhereListed, ListedOnce, ListedIfWaiting, PausesCounted
<1>5. ListedOnce(a) /\ ListedIfWaiting(a) /\ PausesCounted(a)
      BY WaitsByParts
<1>6. \A d \in Deferred : \A i : IsListed(a, d, i)' => result'[a] = d
  <2> SUFFICES ASSUME NEW d \in Deferred, NEW i, IsListed(a, d, i)'
               PROVE  result[a] = d
      BY <1>2
  <2>1. \E k : IsListed(a, d, k)
        BY <1>4
  <2> QED BY <1>5, <2>1 DEF ListedOnce, IsListed
<1>7. \A d \in Deferred : \A i, k : IsListed(a, d, i)' /\ IsListed(a, d, k)' => i = k
  <2> SUFFICES ASSUME NEW d \in Deferred, NEW i, NEW k,
                      IsListed(a, d, i)', IsListed(a, d, k)'
               PROVE  i = k
      OBVIOUS
  <2>1. \A n, o : IsListed(a, d, n) /\ IsListed(a, d, o) => n = o
        BY <1>5 DEF ListedOnce, IsListed
  <2>2. CASE d # c
        BY <1>4, <2>1, <2>2
  <2>3. CASE d = c
    <3>1. i \in Nat /\ k \in Nat /\ i + 1 = k + 1
          BY <1>4, <2>1, <2>3
    <3> QED BY ONLY <3>1
  <2> QED BY <2>2, <2>3
<1>8. ListedOnce(a)'
      BY <1>6, <1>7 DEF ListedOnce
<1>9. ListedIfWaiting(a)'
  <2> SUFFICES ASSUME NEW r \in Deferred, result[a] = r
               PROVE  \E i \in DOMAIN callbacks'[r] : IsListed(a, r, i)'
      BY <1>2 DEF ListedIfWaiting, IsListed
  <2>1. PICK i \in DOMAIN callbacks[r] : IsListed(a, r, i)
        BY <1>5 DEF ListedIfWaiting
  <2>2. CASE r # c
        BY <1>4, <2>1, <2>2 DEF IsListed
  <2>3. CASE r = c
        BY <1>4, <2>1, <2>3
  <2> QED BY <2>2, <2>3
<1>10. PausesCounted(a)'
       BY <1>2, <1>5 DEF PausesCounted
<1> QED BY <1>8, <1>9, <1>10

\* What changes a result of a Deferred that does not wait, at most.
LEMMA NewResultWaits ==
  ASSUME Inv, callbacks' = callbacks, paused' = paused, held' = held,
         \A a \in Deferred : \/ result'[a] = result[a]
                             \/ result[a] \notin Deferred /\ result'[a] \notin Deferred
  PROVE  WaitsWhereListed'
<1>1. \A a, d \in Deferred : \A i : IsListed(a, d, i)' <=> IsListed(a, d, i)
      BY DEF IsListed
<1> QED BY <1>1, SameWaits DEF Inv

LEMMA UserWaits ==
  ASSUME Inv, NEW d \in Deferred, User(d)
  PROVE  WaitsWhereListed'
<1> USE DEF Inv, history
<1>1. \A a \in Outcome \cup {NoResult} : a \notin Deferred
      BY DeferredAssumption
<1>2. CASE AddCallbacks(d)
  <2>1. \A a, e \in Deferred : \A i : IsListed(a, e, i)' <=> IsListed(a, e, i)
        BY <1>2, OwnAdded DEF AddCallbacks
  <2> QED BY <1>2, <2>1, SameWaits DEF AddCallbacks
<1>3. ASSUME Pause(d) \/ Unpause(d)
      PROVE  WaitsWhereListed'
  <2>1. \A a, e \in Deferred : \A i : IsListed(a, e, i)' <=> IsListed(a, e, i)
        BY <1>3 DEF Pause, Unpause, IsListed
  <2>2. result' = result
        BY <1>3 DEF Pause, Unpause
  <2>3. \A a \in Deferred : a # d => paused'[a] = paused[a] /\ held'[a] = held[a]
        BY <1>3 DEF Pause, Unpause, TypeOK
  <2>4. \/ paused'[d] = paused[d] + 1 /\ held'[d] = held[d] + 1
        \/ paused'[d] = paused[d] - 1 /\ held'[d] = held[d] - 1
        BY <1>3 DEF Pause, Unpause, TypeOK
  <2>5. paused'[d] = held'[d] + (IF result[d] \in Deferred THEN 1 ELSE 0)
        BY <2>4, PausedIsNat
  <2> QED BY <2>1, <2>2, <2>3, <2>5, SameWaits
<1>4. ASSUME NEW e \in Deferred, ~called[e], result' = [result EXCEPT ![e] = "failure"],
             callbacks' = callbacks, paused' = paused, held' = held
      PROVE  WaitsWhereListed'
  <2>1. result[e] = NoResult /\ "failure" \in Outcome
        BY <1>4 DEF ResultOnceCalled, Outcome
  <2> QED BY <1>1, <1>4, <2>1, NewResultWaits DEF TypeOK
<1>5. CASE Cancel(d)
  <2>1. /\ callbacks' = callbacks /\ paused' = paused /\ held' = held
        /\ \/ result' = result
           \/ \E e \in Deferred : ~called[e] /\ result' = [result EXCEPT ![e] = "failure"]
        BY <1>5 DEF Cancel, Settle, Suppliers
  <2> QED BY <1>4, <2>1, NewResultWaits
<1>6. ASSUME NEW outcome \in Outcome, Fire(d, outcome)
      PROVE  WaitsWhereListed'
  <2>1. /\ callbacks' = callbacks /\ paused' = paused /\ held' = held
        /\ \/ result' = result
           \/ ~called[d] /\ result' = [result EXCEPT ![d] = outcome]
        BY <1>6 DEF Fire, Settle
  <2>2. ~called[d] => result[d] = NoResult
        BY DEF ResultOnceCalled
  <2> QED BY <1>1, <2>1, <2>2, NewResultWaits DEF TypeOK
<1> QED BY <1>2, <1>3, <1>5, <1>6 DEF User

LEMMA RunWaits ==
  ASSUME Inv, Run
  PROVE  WaitsWhereListed'
<1>1. CASE StopsAtPaused \/ EntersItems \/ NoMoreItems
      BY <1>1, NewResultWaits DEF StopsAtPaused, EntersItems, NoMoreItems, history
<1>2. CASE HandsOver
      BY <1>2, HandsOverWaits
<1>3. CASE StartsCallback
      BY <1>3, StartsCallbackWaits
<1> QED BY <1>1, <1>2, <1>3 DEF Run

LEMMA ReturnWaits ==
  ASSUME Inv, Return
  PROVE  WaitsWhereListed'
<1> USE DEF Inv, history
<1>1. /\ \A a \in Outcome \cup {NoResult} : a \notin Deferred
      /\ "value" \in Outcome /\ "failure" \in Outcome
      BY DeferredAssumption DEF Outcome
<1>2. CASE CancellerReturns
  <2> DEFINE d == Last(stack).chain[1]
  <2>1. d \in Deferred
    <3>1. Last(stack).chain \in Seq(Deferred) /\ Last(stack).chain # <<>>
          BY <1>2, TopFinds DEF CancellerReturns
    <3> QED BY ONLY <3>1
  <2>2. /\ callbacks' = callbacks /\ paused' = paused /\ held' = held
        /\ \/ result' = result
           \/ ~called[d] /\ result' = [result EXCEPT ![d] = "failure"]
        BY <1>2 DEF CancellerReturns, Settle
  <2> HIDE DEF d
  <2>3. ~called[d] => result[d] = NoResult
        BY <2>1 DEF ResultOnceCalled
  <2> QED BY <1>1, <2>1, <2>2, <2>3, NewResultWaits DEF TypeOK
<1>3. ASSUME NEW outcome \in Outcome, Returns(outcome)
      PROVE  WaitsWhereListed'
  <2>1. Current \in Deferred /\ result[Current] \in Outcome
        BY <1>3, TopFinds DEF Returns, At
  <2>2. /\ callbacks' = callbacks /\ paused' = paused /\ held' = held
        /\ result' = [result EXCEPT ![Current] = outcome]
        BY <1>3 DEF Returns
  <2> QED BY <1>1, <2>1, <2>2, NewResultWaits DEF TypeOK
<1>4. ASSUME NEW d \in Deferred, WaitsFor(d)
      PROVE  WaitsWhereListed'
      BY <1>4, WaitsForWaits
<1>5. ASSUME NEW d \in Deferred, Steals(d)
      PROVE  WaitsWhereListed'
  <2>1. Current \in Deferred /\ result[Current] \in Outcome
        BY <1>5, TopFinds DEF Steals, At
  <2>2. /\ callbacks' = callbacks /\ paused' = paused /\ held' = held
        /\ result' = [result EXCEPT ![Current] = result[d], ![d] = "value"]
        /\ result[d] \in Outcome
        BY <1>5 DEF Steals, MustWait, TypeOK
  <2> QED BY <1>1, <2>1, <2>2, NewResultWaits DEF TypeOK
<1> QED BY <1>2, <1>3, <1>4, <1>5 DEF Return

-----------------------------------------------------------------------------
\* The rest of the invariant.

LEMMA UserKeeps ==
  ASSUME Inv, NEW d \in Deferred, User(d), Frames'
  PROVE  TypeOK' /\ ResultOnceCalled'
<1> USE DEF Inv, history
<1>1. /\ \A a \in Outcome : a # NoResult
      /\ "value" \in Outcome /\ "failure" \in Outcome
      BY DEF Outcome, NoResult
<1>2. stack' \in Seq(Frame) /\ \A i \in DOMAIN stack' : stack'[i].chain # <<>>
      BY DEF Frames, Stacked
<1>3. paused[d] \in Nat /\ held[d] \in 0..MaxHeld /\ paused[d] >= held[d]
      /\ MaxHeld \in Nat /\ MaxFires \in Nat /\ MaxAdds[d] \in Nat
  <2>1. MaxHeld \in Nat /\ MaxFires \in Nat /\ MaxAdds[d] \in Nat
        BY DeferredAssumption
  <2>2. paused[d] \in Nat /\ held[d] \in 0..MaxHeld /\ held[d] \in Nat
        BY PausedIsNat DEF TypeOK
  <2>3. paused[d] = held[d] + 1 \/ paused[d] = held[d]
        BY PausedIsNat
  <2> QED BY <2>1, <2>2, <2>3
<1>4. CASE AddCallbacks(d)
  <2>1. callbacks' \in [Deferred -> Seq(Deferred \cup {Own})]
        BY <1>4 DEF AddCallbacks, TypeOK
  <2>2. added' \in [Deferred -> Nat] /\ \A e \in Deferred : added'[e] <= MaxAdds[e]
        BY <1>3, <1>4 DEF AddCallbacks, TypeOK
  <2> QED BY <1>2, <1>4, <2>1, <2>2 DEF AddCallbacks, TypeOK, ResultOnceCalled
<1>5. CASE Pause(d)
  <2>1. paused' \in [Deferred -> Nat] /\ held' \in [Deferred -> 0..MaxHeld]
        BY <1>3, <1>5 DEF Pause, TypeOK
  <2> QED BY <1>2, <1>5, <2>1 DEF Pause, TypeOK, ResultOnceCalled
<1>6. CASE Unpause(d)
  <2>1. paused' \in [Deferred -> Nat] /\ held' \in [Deferred -> 0..MaxHeld]
        BY <1>3, <1>6 DEF Unpause, TypeOK
  <2> QED BY <1>2, <1>6, <2>1 DEF Unpause, TypeOK, ResultOnceCalled
<1>7. ASSUME NEW e \in Deferred, NEW outcome \in Outcome,
             called' = [called EXCEPT ![e] = TRUE],
             result' = [result EXCEPT ![e] = outcome]
      PROVE  /\ called' \in [Deferred -> BOOLEAN]
             /\ result' \in [Deferred -> Outcome \cup {NoResult} \cup Deferred]
             /\ ResultOnceCalled'
      BY <1>1, <1>7 DEF TypeOK, ResultOnceCalled
<1>8. CASE Cancel(d)
  <2>1. PICK e \in Deferred :
          \/ UNCHANGED <<called, result, suppress>>
          \/ /\ suppress' = [suppress EXCEPT ![e] = TRUE]
             /\ called' = [called EXCEPT ![e] = TRUE]
             /\ result' = [result EXCEPT ![e] = "failure"]
        BY <1>8 DEF Cancel, Suppliers, Settle, SwallowsNext
  <2>2. /\ called' \in [Deferred -> BOOLEAN]
        /\ result' \in [Deferred -> Outcome \cup {NoResult} \cup Deferred]
        /\ suppress' \in [Deferred -> BOOLEAN]
        /\ ResultOnceCalled'
        BY <1>1, <1>7, <2>1 DEF TypeOK, ResultOnceCalled
  <2> QED BY <1>2, <1>8, <2>2 DEF Cancel, TypeOK
<1>9. ASSUME NEW outcome \in Outcome, Fire(d, outcome)
      PROVE  TypeOK' /\ ResultOnceCalled'
  <2>1. /\ called' \in [Deferred -> BOOLEAN]
        /\ result' \in [Deferred -> Outcome \cup {NoResult} \cup Deferred]
        /\ suppress' \in [Deferred -> BOOLEAN]
        /\ refused' \subseteq Deferred
        /\ ResultOnceCalled'
        BY <1>7, <1>9 DEF Fire, Settle, TypeOK, ResultOnceCalled
  <2>2. fired' \in [Deferred -> 0..MaxFires]
        BY <1>3, <1>9 DEF Fire, TypeOK
  <2> QED BY <1>2, <1>9, <2>1, <2>2 DEF Fire, TypeOK
<1> QED BY <1>4, <1>5, <1>6, <1>8, <1>9 DEF User

LEMMA RunKeeps ==
  ASSUME Inv, Run, Frames'
  PROVE  TypeOK' /\ ResultOnceCalled'
<1> USE DEF Inv, history
<1>1. stack' \in Seq(Frame) /\ \A i \in DOMAIN stack' : stack'[i].chain # <<>>
      BY DEF Frames, Stacked
<1>2. CASE StopsAtPaused \/ EntersItems \/ NoMoreItems
  <2>1. UNCHANGED <<called, result, paused, callbacks, running, suppress, held,
                    added, fired, refused>>
        BY <1>2 DEF StopsAtPaused, EntersItems, NoMoreItems
  <2>2. failResult' \in [Deferred -> BOOLEAN]
        BY <1>2 DEF StopsAtPaused, EntersItems, NoMoreItems, TypeOK
  <2>3. left' \subseteq Deferred
    <3>1. CASE StopsAtPaused
      <4>1. Last(stack).chain \in Seq(Deferred) /\ Last(stack).chain # <<>>
            BY <3>1, TopFinds DEF StopsAtPaused, At
      <4>2. Front(Last(stack).chain) \in Seq(Deferred)
            BY ONLY <4>1, FrontIs
      <4>3. \A d \in Range(Front(Last(stack).chain)) : d \in Deferred
            BY <4>2 DEF Range
      <4> QED BY <3>1, <4>3 DEF StopsAtPaused, TypeOK
    <3>2. CASE EntersItems \/ NoMoreItems
          BY <3>2 DEF EntersItems, NoMoreItems, TypeOK
    <3> QED BY <1>2, <3>1, <3>2
  <2> QED BY <1>1, <2>1, <2>2, <2>3 DEF TypeOK, ResultOnceCalled
<1>3. ASSUME Current \in Deferred, callbacks[Current] # <<>>
      PROVE  [callbacks EXCEPT ![Current] = Tail(@)]
                \in [Deferred -> Seq(Deferred \cup {Own})]
  <2>1. callbacks[Current] \in Seq(Deferred \cup {Own})
        BY <1>3 DEF TypeOK
  <2>2. Tail(callbacks[Current]) \in Seq(Deferred \cup {Own})
        BY <1>3, <2>1, TailIs
  <2> QED BY <2>2 DEF TypeOK
<1>4. CASE HandsOver
  <2> DEFINE c == Current
             w == Head(callbacks[c])
  <2>1. c \in Deferred /\ result[c] \in Outcome /\ callbacks[c] # <<>> /\ called[c]
        BY <1>4, TopFinds DEF HandsOver, At
  <2>2. /\ w # Own /\ callbacks' = [callbacks EXCEPT ![c] = Tail(@)]
        /\ result' = [result EXCEPT ![w] = result[c], ![c] = "value"]
        /\ paused' = [paused EXCEPT ![w] = @ - 1]
        /\ failResult' = [failResult EXCEPT ![c] = FALSE]
        /\ UNCHANGED <<called, running, suppress, held, added, fired, refused, left>>
        BY <1>4 DEF HandsOver, Releases, ReportsNoMore
  <2>3. callbacks' \in [Deferred -> Seq(Deferred \cup {Own})]
        BY <1>3, <2>1, <2>2
  <2>4. w \in Deferred /\ result[w] = c
    <3>1. callbacks[c] \in Seq(Deferred \cup {Own})
          BY <2>1 DEF TypeOK
    <3>2. w \in Deferred \cup {Own} /\ 1 \in DOMAIN callbacks[c] /\ w = callbacks[c][1]
          BY <2>1, <3>1, TailIs
    <3> QED BY <2>1, <2>2, <3>2 DEF WaitsWhereListed, IsListed
  <2> HIDE DEF c, w
  <2>5. /\ \A a \in Outcome : a # NoResult
        /\ "value" \in Outcome /\ c # NoResult
        BY <2>1, DeferredAssumption DEF Outcome, NoResult
  <2>6. called[w]
        BY <2>4, <2>5 DEF ResultOnceCalled
  <2>7. /\ result' \in [Deferred -> Outcome \cup {NoResult} \cup Deferred]
        /\ ResultOnceCalled'
        BY <2>1, <2>2, <2>4, <2>5, <2>6 DEF TypeOK, ResultOnceCalled
  <2>8. paused' \in [Deferred -> Nat]
    <3>1. paused[w] - 1 \in Nat
          BY <2>1, <2>4, PausedIsNat
    <3> QED BY <2>2, <3>1 DEF TypeOK
  <2> QED BY <1>1, <2>2, <2>3, <2>7, <2>8 DEF TypeOK
<1>5. CASE StartsCallback
  <2>1. Current \in Deferred /\ callbacks[Current] # <<>>
        BY <1>5, TopFinds DEF StartsCallback, At
  <2>2. callbacks' \in [Deferred -> Seq(Deferred \cup {Own})]
        BY <1>3, <1>5, <2>1 DEF StartsCallback
  <2>3. running' \in [Deferred -> BOOLEAN]
        BY <1>5 DEF StartsCallback, TypeOK
  <2> QED BY <1>1, <1>5, <2>2, <2>3 DEF StartsCallback, TypeOK, ResultOnceCalled
<1> QED BY <1>2, <1>4, <1>5 DEF Run

LEMMA ReturnKeeps ==
  ASSUME Inv, Return, Frames'
  PROVE  TypeOK' /\ ResultOnceCalled'
<1> USE DEF Inv, history
<1>1. stack' \in Seq(Frame) /\ \A i \in DOMAIN stack' : stack'[i].chain # <<>>
      BY DEF Frames, Stacked
<1>2. /\ \A a \in Outcome \cup Deferred : a # NoResult
      /\ "value" \in Outcome /\ "failure" \in Outcome
      BY DeferredAssumption DEF Outcome, NoResult
<1>3. CASE CancellerReturns
  <2> DEFINE d == Last(stack).chain[1]
  <2>1. /\ UNCHANGED <<paused, callbacks, running, suppress, failResult, held,
                       added, fired, refused, left>>
        /\ \/ UNCHANGED <<called, result>>
           \/ /\ called' = [called EXCEPT ![d] = TRUE]
              /\ result' = [result EXCEPT ![d] = "failure"]
        BY <1>3 DEF CancellerReturns, Settle
  <2> HIDE DEF d
  <2>2. CASE UNCHANGED <<called, result>>
        BY <1>1, <2>1, <2>2 DEF TypeOK, ResultOnceCalled
  <2>3. CASE /\ called' = [called EXCEPT ![d] = TRUE]
             /\ result' = [result EXCEPT ![d] = "failure"]
    <3>1. /\ called' \in [Deferred -> BOOLEAN]
          /\ result' \in [Deferred -> Outcome \cup {NoResult} \cup Deferred]
          BY <1>2, <2>3 DEF TypeOK
    <3>2. ResultOnceCalled'
          BY <1>2, <2>3 DEF TypeOK, ResultOnceCalled
    <3> QED BY <1>1, <2>1, <3>1, <3>2 DEF TypeOK
  <2> QED BY <2>1, <2>2, <2>3
<1>4. ASSUME NEW outcome \in Outcome, Returns(outcome)
      PROVE  TypeOK' /\ ResultOnceCalled'
  <2>1. called[Current]
        BY <1>4, TopFinds DEF Returns, At
  <2>2. /\ result' \in [Deferred -> Outcome \cup {NoResult} \cup Deferred]
        /\ running' \in [Deferred -> BOOLEAN]
        /\ ResultOnceCalled'
        BY <1>2, <1>4, <2>1 DEF Returns, TypeOK, ResultOnceCalled
  <2> QED BY <1>1, <1>4, <2>2 DEF Returns, TypeOK
<1>5. ASSUME NEW d \in Deferred, WaitsFor(d)
      PROVE  TypeOK' /\ ResultOnceCalled'
  <2>1. called[Current] /\ Current \in Deferred
        BY <1>5, TopFinds DEF WaitsFor, At
  <2>2. /\ result' \in [Deferred -> Outcome \cup {NoResult} \cup Deferred]
        /\ running' \in [Deferred -> BOOLEAN]
        /\ ResultOnceCalled'
        BY <1>2, <1>5, <2>1 DEF WaitsFor, TypeOK, ResultOnceCalled
  <2>3. callbacks' \in [Deferred -> Seq(Deferred \cup {Own})]
    <3>1. callbacks[d] \in Seq(Deferred \cup {Own}) /\ Current \in Deferred \cup {Own}
          BY <2>1 DEF TypeOK
    <3>2. Append(callbacks[d], Current) \in Seq(Deferred \cup {Own})
          BY ONLY <3>1
    <3> QED BY <1>5, <3>2 DEF WaitsFor, TypeOK
  <2>4. /\ paused' \in [Deferred -> Nat] /\ failResult' \in [Deferred -> BOOLEAN]
    <3>1. paused[Current] + 1 \in Nat
          BY <2>1 DEF TypeOK
    <3>2. paused' = [paused EXCEPT ![Current] = @ + 1]
          BY <1>5 DEF WaitsFor, PausesToWait
    <3>3. failResult' = [failResult EXCEPT ![Current] = FALSE]
          BY <1>5 DEF WaitsFor, ReportsNoMore
    <3>4. paused \in [Deferred -> Nat] /\ failResult \in [Deferred -> BOOLEAN]
          BY DEF TypeOK
    <3> QED BY ONLY <3>1, <3>2, <3>3, <3>4
  <2> QED BY <1>1, <1>5, <2>2, <2>3, <2>4 DEF WaitsFor, TypeOK
<1>6. ASSUME NEW d \in Deferred, Steals(d)
      PROVE  TypeOK' /\ ResultOnceCalled'
  <2>1. called[Current] /\ result[d] \in Outcome
        BY <1>6, TopFinds DEF Steals, At, MustWait, TypeOK
  <2>2. called[d]
        BY <1>2, <2>1 DEF ResultOnceCalled
  <2>3. /\ result' \in [Deferred -> Outcome \cup {NoResult} \cup Deferred]
        /\ running' \in [Deferred -> BOOLEAN]
        /\ ResultOnceCalled'
        BY <1>2, <1>6, <2>1, <2>2 DEF Steals, TypeOK, ResultOnceCalled
  <2>4. failResult' \in [Deferred -> BOOLEAN]
        BY <1>6 DEF Steals, ReportsNoMore, TypeOK
  <2> QED BY <1>1, <1>6, <2>3, <2>4 DEF Steals, TypeOK
<1> QED BY <1>3, <1>4, <1>5, <1>6 DEF Return

LEMMA InitInv == Init => Inv
<1> SUFFICES ASSUME Init PROVE Inv
    OBVIOUS
<1>1. TypeOK
      BY DeferredAssumption DEF Init, TypeOK
<1>2. Frames
      BY DEF Init, Frames, Stacked, OnlyTopRuns, RunningInCallback, Apart,
             ChainCalled, GetsAResult
<1>3. ResultOnceCalled
      BY DEF Init, ResultOnceCalled
<1>4. WaitsWhereListed
      BY DeferredAssumption DEF Init, WaitsWhereListed, IsListed
<1> QED BY <1>1, <1>2, <1>3, <1>4 DEF Inv

LEMMA StepInv == Inv /\ [Next]_vars => Inv'
<1> SUFFICES ASSUME Inv, [Next]_vars PROVE Inv'
    OBVIOUS
<1>1. CASE Run
      BY <1>1, RunFrames, RunWaits, RunKeeps DEF Inv
<1>2. CASE Return
      BY <1>2, ReturnFrames, ReturnWaits, ReturnKeeps DEF Inv
<1>3. ASSUME NEW d \in Deferred, User(d)
      PROVE  Inv'
      BY <1>3, UserFrames, UserWaits, UserKeeps DEF Inv
<1>4. CASE UNCHANGED vars
      BY <1>4 DEF vars, Inv, TypeOK, Frames, Stacked, OnlyTopRuns, RunningInCallback,
                  InCallback, Apart, ChainCalled, GetsAResult, ResultOnceCalled,
                  WaitsWhereListed, IsListed
<1> QED BY <1>1, <1>2, <1>3, <1>4 DEF Next

THEOREM InvCorrect == Spec => []Inv
BY InitInv, StepInv, PTL DEF Spec

-----------------------------------------------------------------------------
\* Every variable keeps to its values: no count of pauses goes below zero, and
\* no entry of callbacks is anything but a callback or a Deferred that waits.
THEOREM TypeCorrect == Spec => []TypeOK
<1>1. Inv => TypeOK
      BY DEF Inv
<1> QED BY <1>1, InvCorrect, PTL

\* No callback of a Deferred runs inside of another one of the same Deferred,
\* although _runCallbacks tests only the first of a chain for running.
THEOREM OneAtATimeCorrect == Spec => []OneAtATime
<1>1. Inv => OneAtATime
  <2> SUFFICES ASSUME Inv, NEW i \in DOMAIN stack, NEW j \in DOMAIN stack,
                      stack[i].at = "callback"
               PROVE  /\ running[Last(stack[i].chain)]
                      /\ stack[j].at = "callback" /\ i # j
                           => Last(stack[i].chain) # Last(stack[j].chain)
      BY DEF OneAtATime
  <2>1. \A k \in DOMAIN stack :
          \E n \in DOMAIN stack[k].chain : /\ Last(stack[k].chain) = stack[k].chain[n]
                                           /\ Last(stack[k].chain) \in Deferred
    <3> SUFFICES ASSUME NEW k \in DOMAIN stack
                 PROVE  \E n \in DOMAIN stack[k].chain :
                          /\ Last(stack[k].chain) = stack[k].chain[n]
                          /\ Last(stack[k].chain) \in Deferred
        OBVIOUS
    <3>1. stack[k] \in Frame /\ stack[k].chain # <<>>
          BY DEF Inv, Frames, Stacked
    <3>2. stack[k].chain \in Seq(Deferred)
          BY <3>1 DEF Frame
    <3> QED BY ONLY <3>1, <3>2, FrontIs
  <2>2. running[Last(stack[i].chain)]
        BY <2>1 DEF Inv, Frames, RunningInCallback, InCallback
  <2>3. ASSUME stack[j].at = "callback", i # j,
               Last(stack[i].chain) = Last(stack[j].chain)
        PROVE  FALSE
    <3>1. i \in Nat /\ j \in Nat
          BY DEF Inv, Frames, Stacked
    <3>2. i < j \/ j < i
          BY ONLY <2>3, <3>1
    <3> QED BY <2>1, <2>3, <3>2 DEF Inv, Frames, Apart, InCallback
  <2> QED BY <2>2, <2>3
<1> QED BY <1>1, InvCorrect, PTL

\* A callback is called with a result of a Deferred that was called, and with
\* no Deferred, through all chaining.
THEOREM GetsAResultCorrect == Spec => []GetsAResult
<1>1. Inv => GetsAResult
      BY DEF Inv, Frames
<1> QED BY <1>1, InvCorrect, PTL

\* Who waits is listed once, where it waits, and its pauses are accounted for.
THEOREM WaitsWhereListedCorrect == Spec => []WaitsWhereListed
<1>1. Inv => WaitsWhereListed
      BY DEF Inv
<1> QED BY <1>1, InvCorrect, PTL

-----------------------------------------------------------------------------
\* Late results.  A Deferred without a canceller that nobody has fired was
\* called by a cancel, which swallows the next result.

CancellersOwn ==
  \A i \in DOMAIN stack : stack[i].at = "canceller" => stack[i].chain[1] \in Cancellable

Swallows ==
  \A d \in Deferred \ Cancellable :
    /\ d \in refused => fired[d] >= 2
    /\ called[d] /\ ~suppress[d] => fired[d] >= 1

LEMMA PoppedOwn ==
  ASSUME Frames, CancellersOwn, stack # <<>>, NEW frame \in Frame,
         frame.at = "canceller" => frame.chain[1] \in Cancellable,
         \/ stack' = Front(stack) \/ stack' = Append(Front(stack), frame)
         \/ stack' = [stack EXCEPT ![Len(stack)] = frame]
  PROVE  CancellersOwn'
<1>1. stack \in Seq(Frame)
      BY DEF Frames, Stacked
<1>2. /\ Front(stack) \in Seq(Frame) /\ Len(stack) \in Nat \ {0}
      /\ Len(Front(stack)) = Len(stack) - 1 /\ DOMAIN stack = 1..Len(stack)
      /\ DOMAIN Front(stack) = 1..(Len(stack) - 1)
      /\ \A i \in 1..(Len(stack) - 1) : Front(stack)[i] = stack[i]
      BY ONLY <1>1, FrontIs, stack # <<>>
<1>3. \A i \in DOMAIN stack' :
        \/ i \in DOMAIN stack /\ stack'[i] = stack[i]
        \/ stack'[i] = frame
  <2>1. CASE stack' = Front(stack)
        BY ONLY <1>2, <2>1
  <2>2. CASE stack' = Append(Front(stack), frame)
    <3> DEFINE front == Front(stack)
    <3>1. /\ front \in Seq(Frame) /\ Len(front) = Len(stack) - 1
          /\ \A i \in 1..(Len(stack) - 1) : front[i] = stack[i]
          /\ Len(stack) \in Nat \ {0} /\ DOMAIN stack = 1..Len(stack)
          /\ stack' = Append(front, frame)
          BY <1>2, <2>2
    <3> HIDE DEF front
    <3>2. /\ DOMAIN stack' = 1..Len(stack) /\ stack'[Len(stack)] = frame
          /\ \A i \in 1..(Len(stack) - 1) : stack'[i] = front[i]
          BY <3>1, Appended
    <3> QED BY ONLY <3>1, <3>2
  <2>3. CASE stack' = [stack EXCEPT ![Len(stack)] = frame]
        BY <1>1, <2>3
  <2> QED BY <2>1, <2>2, <2>3
<1> QED BY <1>3 DEF CancellersOwn

LEMMA PushedOwn ==
  ASSUME Frames, CancellersOwn, NEW frame \in Frame,
         frame.at = "canceller" => frame.chain[1] \in Cancellable,
         stack' = stack \/ stack' = Append(stack, frame)
  PROVE  CancellersOwn'
<1>1. stack \in Seq(Frame)
      BY DEF Frames, Stacked
<1>2. \A i \in DOMAIN stack' :
        \/ i \in DOMAIN stack /\ stack'[i] = stack[i]
        \/ stack'[i] = frame
      BY <1>1
<1> QED BY <1>2 DEF CancellersOwn

LEMMA StepOwn ==
  ASSUME Inv, CancellersOwn, [Next]_vars
  PROVE  CancellersOwn'
<1> USE DEF Inv
<1>1. ASSUME NEW d \in Deferred, User(d)
      PROVE  CancellersOwn'
  <2>1. \E e \in Deferred :
          \/ stack' = stack
          \/ stack' = Append(stack, [at |-> "chain", chain |-> <<e>>])
          \/ /\ e \in Cancellable
             /\ stack' = Append(stack, [at |-> "canceller", chain |-> <<e>>])
        BY <1>1 DEF User, AddCallbacks, Pause, Unpause, Cancel, Fire, Settle,
                    RunCallbacks, Suppliers
  <2>2. \A e \in Deferred : /\ [at |-> "chain", chain |-> <<e>>] \in Frame
                            /\ [at |-> "canceller", chain |-> <<e>>] \in Frame
        BY DEF Frame
  <2> QED BY <2>1, <2>2, PushedOwn
<1>2. CASE Run \/ Return
  <2>1. /\ stack # <<>>
        /\ \E frame \in Frame :
             /\ frame.at # "canceller"
             /\ \/ stack' = Front(stack) \/ stack' = Append(Front(stack), frame)
                \/ stack' = [stack EXCEPT ![Len(stack)] = frame]
    <3>1. stack # <<>>
          BY <1>2 DEF Run, Return, StopsAtPaused, EntersItems, HandsOver, StartsCallback,
                      NoMoreItems, CancellerReturns, Returns, WaitsFor, Steals, At
    <3>2. Last(stack).chain \in Seq(Deferred) /\ Last(stack).chain # <<>>
          /\ Current \in Deferred /\ stack \in Seq(Frame) /\ Len(stack) \in DOMAIN stack
          /\ Last(stack) = stack[Len(stack)]
          BY <3>1, TopFinds DEF Last
    <3>3. \A where \in {"items", "callback"} :
            /\ [at |-> where, chain |-> Last(stack).chain] \in Frame
            /\ GoTo(where) = [stack EXCEPT ![Len(stack)] =
                                [at |-> where, chain |-> Last(stack).chain]]
          BY <3>2 DEF Frame, GoTo
    <3>4. /\ [at |-> "chain", chain |-> Front(Last(stack).chain)] \in Frame
          /\ [at |-> "chain", chain |-> <<Last(stack).chain[1]>>] \in Frame
      <4>1. Front(Last(stack).chain) \in Seq(Deferred)
            BY ONLY <3>2, FrontIs
      <4>2. Last(stack).chain[1] \in Deferred
            BY ONLY <3>2
      <4> QED BY <4>1, <4>2 DEF Frame
    <3>5. CASE HandsOver
      <4>1. Head(callbacks[Current]) \in Deferred
        <5>1. callbacks[Current] \in Seq(Deferred \cup {Own}) /\ callbacks[Current] # <<>>
              BY <3>2, <3>5 DEF TypeOK, HandsOver
        <5>2. Head(callbacks[Current]) \in Deferred \cup {Own}
              BY ONLY <5>1, TailIs
        <5> QED BY <3>5, <5>2 DEF HandsOver
      <4>2. Append(Last(stack).chain, Head(callbacks[Current])) \in Seq(Deferred)
            BY ONLY <3>2, <4>1
      <4>3. stack' = [stack EXCEPT ![Len(stack)] =
                        [at |-> "chain",
                         chain |-> Append(Last(stack).chain, Head(callbacks[Current]))]]
            BY <3>2, <3>5 DEF HandsOver
      <4> QED BY <3>1, <4>2, <4>3 DEF Frame
    <3>6. CASE CancellerReturns
          BY <3>1, <3>4, <3>6 DEF CancellerReturns, Settle, RunCallbacks
    <3>7. CASE stack' = Front(stack) \/ stack' = Finished
          BY <3>1, <3>4, <3>7 DEF Finished
    <3>8. CASE stack' = GoTo("items") \/ stack' = GoTo("callback")
          BY <3>1, <3>3, <3>8
    <3> QED BY <1>2, <3>5, <3>6, <3>7, <3>8
            DEF Run, Return, StopsAtPaused, EntersItems, StartsCallback, NoMoreItems,
                Returns, WaitsFor, Steals
  <2> QED BY <2>1, PoppedOwn
<1>3. CASE UNCHANGED vars
      BY <1>3 DEF vars, CancellersOwn
<1> QED BY <1>1, <1>2, <1>3 DEF Next

LEMMA StepSwallows ==
  ASSUME Inv, CancellersOwn, Swallows, [Next]_vars
  PROVE  Swallows'
<1> USE DEF Inv, history
<1> SUFFICES ASSUME NEW d \in Deferred \ Cancellable
             PROVE  /\ d \in refused' => fired'[d] >= 2
                    /\ called'[d] /\ ~suppress'[d] => fired'[d] >= 1
    BY DEF Swallows
<1>1. /\ d \in refused => fired[d] >= 2
      /\ called[d] /\ ~suppress[d] => fired[d] >= 1
      /\ fired[d] \in 0..MaxFires /\ MaxFires \in Nat
      BY DeferredAssumption DEF Swallows, TypeOK
<1>2. CASE UNCHANGED <<called, suppress, fired, refused>>
      BY <1>1, <1>2
<1>3. ASSUME NEW e \in Deferred, NEW outcome \in Outcome, Fire(e, outcome)
      PROVE  /\ d \in refused' => fired'[d] >= 2
             /\ called'[d] /\ ~suppress'[d] => fired'[d] >= 1
  <2>1. CASE e # d
        BY <1>1, <1>3, <2>1 DEF Fire, Settle, TypeOK
  <2>2. CASE e = d
    <3>1. fired'[d] = fired[d] + 1
          BY <1>3, <2>2 DEF Fire, TypeOK
    <3>2. d \in refused' => d \in refused \/ (called[d] /\ ~suppress[d])
          BY <1>3, <2>2 DEF Fire
    <3> QED BY <1>1, <3>1, <3>2
  <2> QED BY <2>1, <2>2
<1>4. ASSUME NEW e \in Deferred, Cancel(e)
      PROVE  /\ d \in refused' => fired'[d] >= 2
             /\ called'[d] /\ ~suppress'[d] => fired'[d] >= 1
  <2>1. PICK f \in Deferred :
          \/ UNCHANGED <<called, suppress>>
          \/ /\ suppress' = [suppress EXCEPT ![f] = TRUE]
             /\ called' = [called EXCEPT ![f] = TRUE]
        BY <1>4 DEF Cancel, Suppliers, Settle, SwallowsNext
  <2>2. fired' = fired /\ refused' = refused
        BY <1>4 DEF Cancel
  <2>3. called'[d] /\ ~suppress'[d] => called[d] /\ ~suppress[d]
        BY <2>1 DEF TypeOK
  <2> QED BY <1>1, <2>2, <2>3
<1>5. CASE CancellerReturns
  <2>1. stack # <<>> /\ Last(stack).at = "canceller"
        BY <1>5 DEF CancellerReturns
  <2>2. Last(stack).chain[1] \in Cancellable
    <3>1. Len(stack) \in DOMAIN stack /\ Last(stack) = stack[Len(stack)]
          BY <2>1 DEF TypeOK, Last
    <3> QED BY <2>1, <3>1 DEF CancellersOwn
  <2>3. \/ called' = called
        \/ called' = [called EXCEPT ![Last(stack).chain[1]] = TRUE]
        BY <1>5 DEF CancellerReturns, Settle
  <2>4. called'[d] = called[d]
        BY <2>2, <2>3 DEF TypeOK
  <2> QED BY <1>1, <1>5, <2>4 DEF CancellerReturns
<1>6. \/ UNCHANGED <<called, suppress, fired, refused>>
      \/ \E e \in Deferred : \E outcome \in Outcome : Fire(e, outcome)
      \/ \E e \in Deferred : Cancel(e)
      \/ CancellerReturns
      BY DEF Next, Run, Return, User, StopsAtPaused, EntersItems, HandsOver,
             StartsCallback, NoMoreItems, Returns, WaitsFor, Steals, AddCallbacks,
             Pause, Unpause, vars
<1> QED BY <1>2, <1>3, <1>4, <1>5, <1>6

\* Whoever fires a Deferred without a canceller once, never meets
\* AlreadyCalledError: a cancel that came first takes the blame.
THEOREM LateResultSwallowedCorrect == Spec => []LateResultSwallowed
<1>1. Init => CancellersOwn /\ Swallows
      BY DEF Init, CancellersOwn, Swallows
<1>2. Inv /\ CancellersOwn /\ Swallows /\ [Next]_vars => CancellersOwn' /\ Swallows'
      BY StepOwn, StepSwallows
<1>3. Inv /\ Swallows => LateResultSwallowed
  <2> SUFFICES ASSUME Inv, Swallows, NEW d \in Deferred \ Cancellable,
                      fired[d] <= 1, d \in refused
               PROVE  FALSE
      BY DEF LateResultSwallowed
  <2>1. fired[d] >= 2 /\ fired[d] \in 0..MaxFires /\ MaxFires \in Nat
        BY DeferredAssumption DEF Inv, TypeOK, Swallows
  <2> QED BY <2>1
<1> QED BY <1>1, <1>2, <1>3, InvCorrect, PTL DEF Spec

-----------------------------------------------------------------------------
\* Who is still looked at: a call of _runCallbacks has d in its chain, and d is
\* the one it works on.

InChain(d) ==
  \E i \in DOMAIN stack : /\ stack[i].at # "canceller"
                          /\ \E k \in DOMAIN stack[i].chain : stack[i].chain[k] = d
AtTurn(d) == \E i \in DOMAIN stack : stack[i].at # "canceller" /\ Last(stack[i].chain) = d

Stays(d) == (AtTurn(d) => AtTurn(d)') /\ (InChain(d) => InChain(d)')

LEMMA LastInChain ==
  ASSUME NEW chain \in Seq(Deferred), chain # <<>>
  PROVE  Last(chain) \in Deferred /\ \E k \in DOMAIN chain : chain[k] = Last(chain)
BY FrontIs

LEMMA TurnInChain ==
  ASSUME Frames, NEW d, AtTurn(d)
  PROVE  InChain(d)
<1>1. PICK i \in DOMAIN stack : stack[i].at # "canceller" /\ Last(stack[i].chain) = d
      BY DEF AtTurn
<1>2. stack[i].chain \in Seq(Deferred) /\ stack[i].chain # <<>>
  <2>1. stack[i] \in Frame /\ stack[i].chain # <<>>
        BY DEF Frames, Stacked
  <2> QED BY <2>1 DEF Frame
<1> QED BY <1>1, <1>2, LastInChain DEF InChain

\* The frames up to m stay; the one above them may be another one.
LEMMA LowerStay ==
  ASSUME NEW m, Keeps(m), stack \in Seq(Frame), NEW d, m = Len(stack) \/ m = Len(stack) - 1,
         m = Len(stack) - 1 /\ Last(stack).at # "canceller"
           => /\ Last(Last(stack).chain) = d => AtTurn(d)'
              /\ (\E k \in DOMAIN Last(stack).chain : Last(stack).chain[k] = d) => InChain(d)'
  PROVE  Stays(d)
<1>1. /\ m \in Nat /\ Len(stack) \in Nat /\ DOMAIN stack = 1..Len(stack)
      /\ DOMAIN stack' = 1..Len(stack') /\ m <= Len(stack')
      /\ Len(stack') \in Nat /\ \A i \in 1..m : stack'[i] = stack[i]
      BY DEF Keeps
<1>2. \A i \in DOMAIN stack :
        \/ i \in 1..m
        \/ m = Len(stack) - 1 /\ stack[i] = Last(stack)
  <2> SUFFICES ASSUME NEW i \in DOMAIN stack, i \notin 1..m
               PROVE  m = Len(stack) - 1 /\ stack[i] = Last(stack)
      OBVIOUS
  <2>1. m = Len(stack) - 1 /\ i = Len(stack)
        BY <1>1
  <2> QED BY <2>1 DEF Last
<1>3. \A i \in 1..m : i \in DOMAIN stack'
      BY <1>1
<1>4. AtTurn(d) => AtTurn(d)'
  <2>1. ASSUME NEW i \in DOMAIN stack, stack[i].at # "canceller", Last(stack[i].chain) = d
        PROVE  AtTurn(d)'
    <3>1. CASE i \in 1..m
          BY <1>1, <1>3, <2>1, <3>1 DEF AtTurn
    <3> QED BY <1>2, <2>1, <3>1
  <2> QED BY <2>1 DEF AtTurn
<1>5. InChain(d) => InChain(d)'
  <2>1. ASSUME NEW i \in DOMAIN stack, stack[i].at # "canceller",
               \E k \in DOMAIN stack[i].chain : stack[i].chain[k] = d
        PROVE  InChain(d)'
    <3>1. CASE i \in 1..m
          BY <1>1, <1>3, <2>1, <3>1 DEF InChain
    <3> QED BY <1>2, <2>1, <3>1
  <2> QED BY <2>1 DEF InChain
<1> QED BY <1>4, <1>5 DEF Stays

\* The frame that a step leaves on top.
LEMMA TopIsThere ==
  ASSUME NEW m \in Nat, stack' \in Seq(Frame), Len(stack') = m + 1,
         stack'[m + 1].at # "canceller", NEW d
  PROVE  /\ Last(stack'[m + 1].chain) = d => AtTurn(d)'
         /\ (\E k \in DOMAIN stack'[m + 1].chain : stack'[m + 1].chain[k] = d) => InChain(d)'
<1>1. m + 1 \in DOMAIN stack'
      OBVIOUS
<1> QED BY <1>1 DEF AtTurn, InChain

LEMMA CallsStay ==
  ASSUME Frames, UserActs, NEW frame \in Frame, NEW d,
         stack' = stack \/ stack' = Append(stack, frame)
  PROVE  Stays(d)
<1>1. Keeps(Len(stack)) /\ stack \in Seq(Frame) /\ Len(stack) # Len(stack) - 1
      BY PushedKeeps, UserFinds
<1> QED BY <1>1, LowerStay

\* d is in a callback already, or a call of its own begins.
LEMMA CallBegins ==
  ASSUME Frames, UserActs, NEW d \in Deferred, stack' = RunCallbacks(stack, d)
  PROVE  AtTurn(d)' /\ InChain(d)' /\ \A e \in Deferred : Stays(e)
<1> DEFINE frame == [at |-> "chain", chain |-> <<d>>]
<1>1. frame \in Frame /\ frame.at = "chain" /\ DOMAIN frame.chain = {1} /\ frame.chain[1] = d
      /\ Last(frame.chain) = d
      BY DEF Frame, Last
<1>2. stack' = stack \/ stack' = Append(stack, frame)
      BY DEF RunCallbacks
<1> HIDE DEF frame
<1>3. \A e \in Deferred : Stays(e)
      BY <1>1, <1>2, CallsStay
<1>4. CASE running[d]
  <2>1. PICK i \in DOMAIN stack : InCallback(i, d)
        BY <1>4 DEF Frames, RunningInCallback
  <2>2. AtTurn(d)
        BY <2>1 DEF AtTurn, InCallback
  <2>3. InChain(d)
        BY <2>2, TurnInChain
  <2> QED BY <1>3, <2>2, <2>3 DEF Stays
<1>5. CASE ~running[d]
  <2>1. stack' = Append(stack, frame) /\ Len(stack) \in Nat /\ stack \in Seq(Frame)
        BY <1>5, UserFinds DEF RunCallbacks, frame
  <2>2. stack' \in Seq(Frame) /\ Len(stack') = Len(stack) + 1 /\ stack'[Len(stack) + 1] = frame
        BY <1>1, <2>1, Appended
  <2> QED BY <1>1, <1>3, <2>1, <2>2, TopIsThere
<1> QED BY <1>4, <1>5

LEMMA CallGoesOn ==
  ASSUME Frames, stack # <<>>, Last(stack).at # "canceller",
         NEW where \in {"items", "callback"}, stack' = GoTo(where)
  PROVE  \A e \in Deferred : Stays(e) /\ (e = Current => AtTurn(e)')
<1> DEFINE m == Len(stack) - 1
           frame == [at |-> where, chain |-> Last(stack).chain]
<1>1. /\ m \in Nat /\ stack \in Seq(Frame) /\ Last(stack).chain \in Seq(Deferred)
      /\ m = Len(stack) - 1
      BY TopFinds
<1>2. stack' = [stack EXCEPT ![Len(stack)] = frame]
      BY TopFinds DEF GoTo
<1>3. frame \in Frame /\ frame.chain = Last(stack).chain /\ frame.at # "canceller"
      BY <1>1 DEF Frame
<1> HIDE DEF frame, m
<1>4. Keeps(m) /\ Len(stack') = m + 1 /\ stack'[m + 1] = frame
      BY <1>1, <1>2, <1>3, ReplacedKeeps
<1> SUFFICES ASSUME NEW e \in Deferred
             PROVE  Stays(e) /\ (e = Current => AtTurn(e)')
    OBVIOUS
<1>5. /\ Last(Last(stack).chain) = e => AtTurn(e)'
      /\ (\E k \in DOMAIN Last(stack).chain : Last(stack).chain[k] = e) => InChain(e)'
      BY <1>1, <1>3, <1>4, TopIsThere DEF Keeps
<1>6. Stays(e)
      BY <1>1, <1>4, <1>5, LowerStay
<1> QED BY <1>5, <1>6 DEF Current

\* Only the Deferred that is done with is not looked at any more.
LEMMA CallFinishes ==
  ASSUME Frames, stack # <<>>, Last(stack).at # "canceller", stack' = Finished,
         NEW e \in Deferred, e # Current
  PROVE  Stays(e)
<1> DEFINE m == Len(stack) - 1
           chain == Front(Last(stack).chain)
           frame == [at |-> "chain", chain |-> chain]
<1>1. /\ m \in Nat /\ stack \in Seq(Frame) /\ Last(stack).chain \in Seq(Deferred)
      /\ m = Len(stack) - 1 /\ Last(stack).chain # <<>>
      BY TopFinds
<1>2. /\ chain \in Seq(Deferred)
      /\ \A k \in DOMAIN Last(stack).chain :
           \/ Last(stack).chain[k] = Current
           \/ k \in DOMAIN chain /\ chain[k] = Last(stack).chain[k]
  <2>1. /\ chain \in Seq(Deferred) /\ Len(Last(stack).chain) \in Nat \ {0}
        /\ DOMAIN Last(stack).chain = 1..Len(Last(stack).chain)
        /\ DOMAIN chain = 1..(Len(Last(stack).chain) - 1)
        /\ \A k \in 1..(Len(Last(stack).chain) - 1) : chain[k] = Last(stack).chain[k]
        /\ Last(Last(stack).chain) = Last(stack).chain[Len(Last(stack).chain)]
        BY ONLY <1>1, FrontIs
  <2> QED BY ONLY <2>1 DEF Current
<1>3. \/ chain = <<>> /\ stack' = Front(stack)
      \/ stack' = [stack EXCEPT ![Len(stack)] = frame]
      BY DEF Finished
<1>4. frame \in Frame /\ frame.chain = chain /\ frame.at # "canceller"
      BY <1>2 DEF Frame
<1> HIDE DEF frame, m, chain
<1>5. CASE chain = <<>> /\ stack' = Front(stack)
  <2>1. Keeps(m)
        BY <1>1, <1>5, PoppedKeeps
  <2>2. \A k \in DOMAIN Last(stack).chain : Last(stack).chain[k] = Current
        BY <1>2, <1>5
  <2> QED BY <1>1, <2>1, <2>2, LowerStay DEF Current
<1>6. CASE stack' = [stack EXCEPT ![Len(stack)] = frame]
  <2>1. Keeps(m) /\ Len(stack') = m + 1 /\ stack'[m + 1] = frame
        BY <1>1, <1>4, <1>6, ReplacedKeeps
  <2>2. (\E k \in DOMAIN chain : chain[k] = e) => InChain(e)'
        BY <1>1, <1>4, <2>1, TopIsThere DEF Keeps
  <2>3. (\E k \in DOMAIN Last(stack).chain : Last(stack).chain[k] = e) => InChain(e)'
        BY <1>2, <2>2
  <2>4. Last(Last(stack).chain) # e
        BY DEF Current
  <2> QED BY <1>1, <2>1, <2>3, <2>4, LowerStay
<1> QED BY <1>3, <1>5, <1>6

LEMMA CallReturns ==
  ASSUME Frames, stack # <<>>, stack' = Front(stack), NEW e \in Deferred,
         Last(stack).at # "canceller"
           => \A k \in DOMAIN Last(stack).chain : Last(stack).chain[k] # e
  PROVE  Stays(e)
<1>1. /\ stack \in Seq(Frame) /\ Last(stack).chain \in Seq(Deferred)
      /\ Last(stack).chain # <<>>
      BY TopFinds
<1>2. Keeps(Len(stack) - 1)
      BY PoppedKeeps
<1>3. Last(stack).at # "canceller" => Last(Last(stack).chain) # e
      BY <1>1, LastInChain
<1> QED BY <1>1, <1>2, <1>3, LowerStay

\* The Deferred that waited joins the chain.
LEMMA ChainGrows ==
  ASSUME Frames, stack # <<>>, Last(stack).at # "canceller", NEW w \in Deferred,
         stack' = [stack EXCEPT ![Len(stack)] =
                     [at |-> "chain", chain |-> Append(@.chain, w)]]
  PROVE  /\ AtTurn(w)' /\ InChain(w)'
         /\ \A e \in Deferred : /\ e # Current => Stays(e)
                                /\ InChain(e) => InChain(e)'
<1> DEFINE m == Len(stack) - 1
           chain == Append(Last(stack).chain, w)
           frame == [at |-> "chain", chain |-> chain]
<1>1. /\ m \in Nat /\ stack \in Seq(Frame) /\ Last(stack).chain \in Seq(Deferred)
      /\ m = Len(stack) - 1 /\ Last(stack).chain # <<>>
      BY TopFinds
<1>2. stack' = [stack EXCEPT ![Len(stack)] = frame]
      BY TopFinds
<1>3. /\ chain \in Seq(Deferred) /\ Last(chain) = w
      /\ \A k \in DOMAIN Last(stack).chain :
           k \in DOMAIN chain /\ chain[k] = Last(stack).chain[k]
      /\ \E k \in DOMAIN chain : chain[k] = w
  <2>1. /\ chain \in Seq(Deferred) /\ Len(chain) = Len(Last(stack).chain) + 1
        /\ Len(Last(stack).chain) \in Nat
        /\ DOMAIN Last(stack).chain = 1..Len(Last(stack).chain)
        /\ \A i \in 1..Len(Last(stack).chain) : chain[i] = Last(stack).chain[i]
        /\ chain[Len(Last(stack).chain) + 1] = w
        BY ONLY <1>1, Appended, w \in Deferred
  <2> HIDE DEF chain
  <2>2. DOMAIN chain = 1..(Len(Last(stack).chain) + 1)
        BY ONLY <2>1
  <2> QED BY ONLY <2>1, <2>2 DEF Last
<1>4. frame \in Frame /\ frame.chain = chain /\ frame.at # "canceller"
      BY <1>3 DEF Frame
<1> HIDE DEF frame, m, chain
<1>5. Keeps(m) /\ Len(stack') = m + 1 /\ stack'[m + 1] = frame
      BY <1>1, <1>2, <1>4, ReplacedKeeps
<1>6. /\ AtTurn(w)'
      /\ \A e \in Deferred : (\E k \in DOMAIN chain : chain[k] = e) => InChain(e)'
      BY ZenonT(30), <1>1, <1>3, <1>4, <1>5, TopIsThere DEF Keeps
<1>7. \A e \in Deferred : (\E k \in DOMAIN Last(stack).chain : Last(stack).chain[k] = e)
                           => InChain(e)'
      BY <1>3, <1>6
<1>8. \A e \in Deferred : e # Current => Stays(e)
      BY <1>1, <1>5, <1>7, LowerStay DEF Current
<1>9. \A e \in Deferred : e = Current => InChain(e)'
      BY <1>1, <1>7, LastInChain DEF Current
<1> QED BY <1>3, <1>6, <1>8, <1>9 DEF Stays

-----------------------------------------------------------------------------
\* A Deferred that is free to go reports what it should, or a call will see to
\* it; and it has run its callbacks, or a call has it in its chain.

Reports(d) ==
  /\ ~called[d] => ~failResult[d]
  /\ paused[d] = 0 => (failResult[d] <=> result[d] = "failure") \/ AtTurn(d)
Runs(d) == d \notin left /\ CallbacksLeft(d) => InChain(d)
Tended(d) == Reports(d) /\ Runs(d)
AllTended == \A d \in Deferred : Tended(d)

LEMMA TendedSame ==
  ASSUME NEW d, Tended(d), Stays(d), UNCHANGED left,
         UNCHANGED <<called[d], result[d], paused[d], callbacks[d], failResult[d]>>
  PROVE  Tended(d)'
BY DEF Tended, Reports, Runs, CallbacksLeft, Stays

\* A call of _runCallbacks has just begun for d.
LEMMA TendedByCall ==
  ASSUME NEW d, AtTurn(d)', InChain(d)', called'[d]
  PROVE  Tended(d)'
BY DEF Tended, Reports, Runs

LEMMA UserTends ==
  ASSUME Inv, AllTended, NEW e \in Deferred, User(e), NEW d \in Deferred
  PROVE  Tended(d)'
<1> USE DEF Inv, history
<1>1. /\ Tended(d) /\ UserActs /\ UNCHANGED <<failResult, left>>
      BY DEF AllTended, User, AddCallbacks, Pause, Unpause, Cancel, Fire
<1>2. CASE AddCallbacks(e)
  <2>1. /\ UNCHANGED <<called, result, paused>>
        /\ callbacks' = [callbacks EXCEPT ![e] = Append(@, Own)]
        /\ stack' = IF called[e] THEN RunCallbacks(stack, e) ELSE stack
        BY <1>2 DEF AddCallbacks
  <2>2. CASE called[e]
    <3>1. AtTurn(e)' /\ InChain(e)' /\ Stays(d)
          BY <1>1, <2>1, <2>2, CallBegins
    <3>2. CASE d = e
          BY <2>1, <2>2, <3>1, <3>2, TendedByCall
    <3>3. CASE d # e
          BY <1>1, <2>1, <3>1, <3>3, TendedSame
    <3> QED BY <3>2, <3>3
  <2>3. CASE ~called[e]
    <3>1. Stays(d)
          BY <2>1, <2>3 DEF Stays, AtTurn, InChain
    <3>2. CASE d = e
          BY <1>1, <2>1, <2>3, <3>1, <3>2
          DEF Tended, Reports, Runs, CallbacksLeft, Stays
    <3>3. CASE d # e
          BY <1>1, <2>1, <3>1, <3>3, TendedSame
    <3> QED BY <3>2, <3>3
  <2> QED BY <2>2, <2>3
<1>3. CASE Pause(e)
  <2>1. /\ UNCHANGED <<called, result, callbacks, stack>>
        /\ paused' = [paused EXCEPT ![e] = @ + 1] /\ paused \in [Deferred -> Nat]
        BY <1>3 DEF Pause, TypeOK
  <2>2. Stays(d)
        BY <2>1 DEF Stays, AtTurn, InChain
  <2>3. CASE d = e
    <3>1. paused'[d] # 0
          BY <2>1, <2>3
    <3> QED BY <1>1, <2>1, <3>1 DEF Tended, Reports, Runs, CallbacksLeft
  <2>4. CASE d # e
        BY <1>1, <2>1, <2>2, <2>4, TendedSame
  <2> QED BY <2>3, <2>4
<1>4. CASE Unpause(e)
  <2>1. /\ UNCHANGED <<called, result, callbacks>>
        /\ paused' = [paused EXCEPT ![e] = @ - 1] /\ paused \in [Deferred -> Nat]
        /\ stack' = IF paused[e] = 1 /\ called[e] THEN RunCallbacks(stack, e) ELSE stack
        BY <1>4 DEF Unpause, TypeOK
  <2>2. CASE paused[e] = 1 /\ called[e]
    <3>1. AtTurn(e)' /\ InChain(e)' /\ Stays(d)
          BY <1>1, <2>1, <2>2, CallBegins
    <3>2. CASE d = e
          BY <2>1, <2>2, <3>1, <3>2, TendedByCall
    <3>3. CASE d # e
          BY <1>1, <2>1, <3>1, <3>3, TendedSame
    <3> QED BY <3>2, <3>3
  <2>3. CASE ~(paused[e] = 1 /\ called[e])
    <3>1. stack' = stack /\ Stays(d)
          BY <2>1, <2>3 DEF Stays, AtTurn, InChain
    <3>2. CASE d = e /\ paused[e] # 1
      <4>1. paused'[d] # 0
            BY <2>1, <3>2
      <4> QED BY <1>1, <2>1, <4>1 DEF Tended, Reports, Runs, CallbacksLeft
    <3>3. CASE d = e /\ ~called[e]
      <4>1. ~failResult[d] /\ result[d] # "failure"
            BY <1>1, <3>3 DEF Tended, Reports, ResultOnceCalled, NoResult
      <4> QED BY <1>1, <2>1, <3>3, <4>1 DEF Tended, Reports, Runs, CallbacksLeft
    <3>4. CASE d # e
          BY <1>1, <2>1, <3>1, <3>4, TendedSame
    <3> QED BY <2>3, <3>2, <3>3, <3>4
  <2> QED BY <2>2, <2>3
<1>5. ASSUME NEW f \in Deferred, NEW outcome, Settle(f, outcome, stack),
             UNCHANGED <<paused, callbacks>>
      PROVE  Tended(d)'
  <2>1. /\ called' = [called EXCEPT ![f] = TRUE] /\ result' = [result EXCEPT ![f] = outcome]
        /\ stack' = RunCallbacks(stack, f)
        BY <1>5 DEF Settle
  <2>2. AtTurn(f)' /\ InChain(f)' /\ Stays(d)
        BY <1>1, <2>1, CallBegins
  <2>3. CASE d = f
    <3>1. called'[d]
          BY <2>1, <2>3 DEF TypeOK
    <3> QED BY <2>2, <2>3, <3>1, TendedByCall
  <2>4. CASE d # f
    <3>1. UNCHANGED <<called[d], result[d], paused[d], callbacks[d], failResult[d]>>
          BY <1>1, <1>5, <2>1, <2>4 DEF TypeOK
    <3> QED BY <1>1, <2>2, <3>1, TendedSame
  <2> QED BY <2>3, <2>4
<1>6. ASSUME NEW outcome \in Outcome, Fire(e, outcome)
      PROVE  Tended(d)'
  <2>1. CASE Settle(e, outcome, stack)
        BY <1>5, <1>6, <2>1 DEF Fire
  <2>2. CASE UNCHANGED <<called, result, stack>>
    <3>1. Stays(d)
          BY <2>2 DEF Stays, AtTurn, InChain
    <3> QED BY <1>1, <1>6, <2>2, <3>1, TendedSame DEF Fire
  <2> QED BY <1>6, <2>1, <2>2 DEF Fire
<1>7. CASE Cancel(e)
  <2>1. PICK f \in Suppliers(e) :
          \/ /\ stack' = Append(stack, [at |-> "canceller", chain |-> <<f>>])
             /\ UNCHANGED <<called, result, suppress>>
          \/ Settle(f, "failure", stack)
        BY <1>7 DEF Cancel
  <2>2. f \in Deferred /\ UNCHANGED <<paused, callbacks>>
        BY <1>7 DEF Cancel, Suppliers
  <2>3. CASE Settle(f, "failure", stack)
        BY <1>5, <2>2, <2>3
  <2>4. CASE /\ stack' = Append(stack, [at |-> "canceller", chain |-> <<f>>])
             /\ UNCHANGED <<called, result>>
    <3>1. [at |-> "canceller", chain |-> <<f>>] \in Frame
          BY <2>2 DEF Frame
    <3>2. Stays(d)
          BY <1>1, <2>4, <3>1, CallsStay
    <3> QED BY <1>1, <2>2, <2>4, <3>2, TendedSame
  <2> QED BY <2>1, <2>3, <2>4
<1> QED BY <1>2, <1>3, <1>4, <1>6, <1>7 DEF User

LEMMA CancellerTends ==
  ASSUME Inv, AllTended, CancellerReturns, NEW d \in Deferred
  PROVE  Tended(d)'
<1> USE DEF Inv, history
<1> DEFINE m == Len(stack) - 1
           f == Last(stack).chain[1]
           frame == [at |-> "chain", chain |-> <<f>>]
<1>1. /\ stack # <<>> /\ Last(stack).at = "canceller" /\ m = Len(stack) - 1
      /\ UNCHANGED <<paused, callbacks, failResult, left>> /\ Tended(d)
      BY DEF CancellerReturns, AllTended
<1>2. /\ m \in Nat /\ Len(stack) = m + 1 /\ stack \in Seq(Frame)
      /\ Last(stack).chain \in Seq(Deferred) /\ Last(stack).chain # <<>>
      /\ \A k \in DOMAIN Last(stack).chain : ~LowerRunning(m, Last(stack).chain[k])
      /\ \A i \in 1..m : stack[i].at \in {"callback", "canceller"}
      /\ \A e \in Deferred : running[e] <=> LowerRunning(m, e)
      BY <1>1, TopFinds
<1>3. f \in Deferred /\ ~running[f]
      BY <1>2
<1>4. CASE stack' = Front(stack) /\ UNCHANGED <<called, result>>
  <2>1. Stays(d)
        BY <1>1, <1>4, CallReturns
  <2> QED BY <1>1, <1>4, <2>1, TendedSame
<1>5. CASE Settle(f, "failure", Front(stack))
  <2>1. /\ frame \in Frame /\ frame.at # "canceller" /\ Last(frame.chain) = f
        /\ DOMAIN frame.chain = {1} /\ frame.chain[1] = f
        BY <1>3 DEF Frame, Last
  <2>2. stack' = Append(Front(stack), frame) /\ called' = [called EXCEPT ![f] = TRUE]
        /\ result' = [result EXCEPT ![f] = "failure"]
        BY <1>3, <1>5 DEF Settle, RunCallbacks
  <2>3. PICK g \in Deferred : g = f
        BY <1>3
  <2> HIDE DEF frame, f, m
  <2>4. /\ Front(stack) \in Seq(Frame) /\ Len(Front(stack)) = m
        /\ \A i \in 1..m : Front(stack)[i] = stack[i]
    <3>1. Len(stack) - 1 = m
          BY <1>2
    <3> QED BY ONLY <1>1, <1>2, <3>1, FrontIs
  <2>5. /\ stack' \in Seq(Frame) /\ Len(stack') = m + 1 /\ stack'[m + 1] = frame
        /\ \A i \in 1..m : stack'[i] = Front(stack)[i]
        BY ONLY <1>2, <2>1, <2>2, <2>4, Appended
  <2>6. Keeps(m)
        BY <1>2, <2>4, <2>5 DEF Keeps
  <2>7. Stays(d)
        BY <1>1, <1>2, <2>6, LowerStay
  <2>8. AtTurn(g)' /\ InChain(g)'
        BY <1>2, <2>1, <2>3, <2>5, TopIsThere
  <2>9. CASE d = g
    <3>1. called'[d]
          BY <2>2, <2>3, <2>9 DEF TypeOK
    <3> QED BY <2>8, <2>9, <3>1, TendedByCall
  <2>10. CASE d # g
    <3>1. UNCHANGED <<called[d], result[d], paused[d], callbacks[d], failResult[d]>>
          BY <1>1, <2>2, <2>3, <2>10 DEF TypeOK
    <3> QED BY <1>1, <2>7, <3>1, TendedSame
  <2> QED BY <2>9, <2>10
<1> QED BY <1>4, <1>5 DEF CancellerReturns

LEMMA RunTends ==
  ASSUME Inv, AllTended, Run, NEW d \in Deferred
  PROVE  Tended(d)'
<1> USE DEF Inv, history
<1>1. /\ stack # <<>> /\ Last(stack).at \in {"chain", "items"} /\ Tended(d)
      BY DEF Run, StopsAtPaused, EntersItems, HandsOver, StartsCallback, NoMoreItems, At,
             AllTended
<1>2. /\ Current \in Deferred /\ called[Current] /\ stack \in Seq(Frame)
      /\ Last(stack).chain \in Seq(Deferred) /\ Last(stack).chain # <<>>
      BY <1>1, TopFinds
<1>3. CASE StopsAtPaused
  <2>1. /\ paused[Current] > 0 /\ stack' = Front(stack)
        /\ left' = left \cup {e \in Range(Front(Last(stack).chain)) : callbacks[e] # <<>>}
        /\ UNCHANGED <<called, result, paused, callbacks, failResult>>
        BY <1>3 DEF StopsAtPaused, IsPaused
  <2>2. CASE d = Current
    <3>1. paused'[d] # 0
          BY <2>1, <2>2
    <3> QED BY <1>1, <2>1, <3>1 DEF Tended, Reports, Runs, CallbacksLeft
  <2>3. CASE d # Current
    <3>1. AtTurn(d) => AtTurn(d)'
      <4>1. Keeps(Len(stack) - 1) /\ Len(stack') = Len(stack) - 1
            BY <1>1, <2>1, PoppedKeeps
      <4>2. \A i \in DOMAIN stack : \/ i \in DOMAIN stack' /\ stack'[i] = stack[i]
                                    \/ stack[i] = Last(stack)
            BY <1>2, <4>1 DEF Keeps, Last
      <4> QED BY <2>3, <4>2 DEF AtTurn, Current
    <3>2. CASE \E k \in DOMAIN Last(stack).chain : Last(stack).chain[k] = d
      <4>1. d \in Range(Front(Last(stack).chain))
        <5>1. /\ DOMAIN Last(stack).chain = 1..Len(Last(stack).chain)
              /\ Len(Last(stack).chain) \in Nat \ {0}
              /\ DOMAIN Front(Last(stack).chain) = 1..(Len(Last(stack).chain) - 1)
              /\ \A k \in 1..(Len(Last(stack).chain) - 1) :
                   Front(Last(stack).chain)[k] = Last(stack).chain[k]
              /\ Last(Last(stack).chain) = Last(stack).chain[Len(Last(stack).chain)]
              BY ONLY <1>2, FrontIs
        <5>2. PICK k \in DOMAIN Last(stack).chain : Last(stack).chain[k] = d
              BY <3>2
        <5>3. k \in DOMAIN Front(Last(stack).chain) /\ Front(Last(stack).chain)[k] = d
              BY ONLY <2>3, <5>1, <5>2 DEF Current
        <5> QED BY <5>3 DEF Range
      <4>2. d \notin left' => callbacks[d] = <<>>
            BY <2>1, <4>1
      <4> QED BY <1>1, <2>1, <3>1, <4>2 DEF Tended, Reports, Runs, CallbacksLeft
    <3>3. CASE \A k \in DOMAIN Last(stack).chain : Last(stack).chain[k] # d
      <4>1. Stays(d)
            BY <1>1, <2>1, <3>3, CallReturns
      <4> QED BY <1>1, <2>1, <4>1 DEF Tended, Reports, Runs, CallbacksLeft, Stays
    <3> QED BY <3>2, <3>3
  <2> QED BY <2>2, <2>3
<1>4. CASE EntersItems
  <2>1. Stays(d)
        BY <1>1, <1>4, CallGoesOn DEF EntersItems
  <2> QED BY <1>1, <1>4, <2>1, TendedSame DEF EntersItems
<1>5. CASE HandsOver
  <2>1. PICK w \in Deferred : w = Head(callbacks[Current])
    <3>1. callbacks[Current] \in Seq(Deferred \cup {Own}) /\ callbacks[Current] # <<>>
          BY <1>2, <1>5 DEF HandsOver, TypeOK
    <3>2. Head(callbacks[Current]) \in Deferred \cup {Own}
          BY ONLY <3>1, TailIs
    <3> QED BY <1>5, <3>2 DEF HandsOver
  <2>2. /\ callbacks' = [callbacks EXCEPT ![Current] = Tail(@)]
        /\ result' = [result EXCEPT ![w] = result[Current], ![Current] = "value"]
        /\ failResult' = [failResult EXCEPT ![Current] = FALSE]
        /\ paused' = [paused EXCEPT ![w] = @ - 1]
        /\ stack' = [stack EXCEPT ![Len(stack)] =
                       [at |-> "chain", chain |-> Append(@.chain, w)]]
        /\ UNCHANGED <<called, left>>
        BY <1>5, <2>1 DEF HandsOver, ReportsNoMore, Releases
  <2>3. /\ AtTurn(w)' /\ InChain(w)' /\ (d # Current => Stays(d))
        /\ InChain(d) => InChain(d)'
        BY <1>1, <2>2, ChainGrows
  <2>4. called'[w]
    <3>1. callbacks[Current] \in Seq(Deferred \cup {Own}) /\ callbacks[Current] # <<>>
          BY <1>2, <1>5 DEF HandsOver, TypeOK
    <3>2. 1 \in DOMAIN callbacks[Current] /\ w = callbacks[Current][1]
          BY ONLY <2>1, <3>1, TailIs
    <3>3. result[w] = Current
          BY <1>2, <3>2 DEF WaitsWhereListed, IsListed
    <3>4. result[w] # NoResult
          BY <1>2, <3>3, DeferredAssumption
    <3> QED BY <2>2, <3>4 DEF ResultOnceCalled
  <2>5. CASE d = w
        BY <2>3, <2>4, <2>5, TendedByCall
  <2>6. CASE d # w /\ d = Current
    <3>1. InChain(d)
      <4>1. AtTurn(d)
            BY <1>1, <1>2, <2>6 DEF AtTurn, Current, Last
      <4> QED BY <4>1, TurnInChain
    <3>2. result'[d] = "value" /\ failResult'[d] = FALSE
          BY <2>2, <2>6 DEF TypeOK
    <3> QED BY <2>3, <3>1, <3>2 DEF Tended, Reports, Runs
  <2>7. CASE d # w /\ d # Current
    <3>1. UNCHANGED <<called[d], result[d], paused[d], callbacks[d], failResult[d]>>
          BY <2>2, <2>7 DEF TypeOK
    <3> QED BY <1>1, <2>2, <2>3, <2>7, <3>1, TendedSame
  <2> QED BY <2>5, <2>6, <2>7
<1>6. CASE StartsCallback
  <2>1. /\ callbacks' = [callbacks EXCEPT ![Current] = Tail(@)] /\ stack' = GoTo("callback")
        /\ UNCHANGED <<called, result, paused, failResult, left>>
        BY <1>6 DEF StartsCallback
  <2>2. Stays(d) /\ (d = Current => AtTurn(d)')
        BY <1>1, <2>1, CallGoesOn
  <2>3. CASE d = Current
    <3>1. InChain(d)
      <4>1. AtTurn(d)
            BY <1>1, <1>2, <2>3 DEF AtTurn, Current, Last
      <4> QED BY <4>1, TurnInChain
    <3> QED BY <1>2, <2>1, <2>2, <2>3, <3>1, TendedByCall DEF Stays
  <2>4. CASE d # Current
        BY <1>1, <2>1, <2>2, <2>4, TendedSame
  <2> QED BY <2>3, <2>4
<1>7. CASE NoMoreItems
  <2>1. /\ callbacks[Current] = <<>> /\ stack' = Finished
        /\ failResult' = [failResult EXCEPT ![Current] = result[Current] = "failure"]
        /\ UNCHANGED <<called, result, paused, callbacks, left>>
        BY <1>7 DEF NoMoreItems
  <2>2. CASE d = Current
    <3>1. failResult'[d] <=> result'[d] = "failure"
          BY <2>1, <2>2 DEF TypeOK
    <3> QED BY <1>2, <2>1, <2>2, <3>1 DEF Tended, Reports, Runs, CallbacksLeft
  <2>3. CASE d # Current
    <3>1. Stays(d)
          BY <1>1, <2>1, <2>3, CallFinishes
    <3> QED BY <1>1, <2>1, <2>3, <3>1, TendedSame
  <2> QED BY <2>2, <2>3
<1> QED BY <1>3, <1>4, <1>5, <1>6, <1>7 DEF Run

LEMMA ReturnTends ==
  ASSUME Inv, AllTended, Return, NEW d \in Deferred
  PROVE  Tended(d)'
<1> USE DEF Inv, history
<1>1. CASE CancellerReturns
      BY <1>1, CancellerTends
<1>2. CASE ~CancellerReturns
  <2>1. stack # <<>> /\ Last(stack).at = "callback" /\ Tended(d)
        BY <1>2 DEF Return, Returns, WaitsFor, Steals, At, AllTended
  <2>2. Current \in Deferred /\ called[Current] /\ stack \in Seq(Frame)
        BY <2>1, TopFinds
  <2>3. \A e \in Deferred : e = Current => AtTurn(e) /\ InChain(e)
    <3>1. \A e \in Deferred : e = Current => AtTurn(e)
          BY <2>1, <2>2 DEF AtTurn, Current, Last
    <3> QED BY <3>1, TurnInChain
  <2>4. ASSUME NEW outcome \in Outcome, Returns(outcome)
        PROVE  Tended(d)'
    <3>1. /\ result' = [result EXCEPT ![Current] = outcome] /\ stack' = GoTo("items")
          /\ UNCHANGED <<called, paused, callbacks, failResult, left>>
          BY <2>4 DEF Returns
    <3>2. Stays(d)
          BY <2>1, <3>1, CallGoesOn
    <3>3. CASE d = Current
          BY <2>2, <2>3, <3>1, <3>2, <3>3, TendedByCall DEF Stays
    <3>4. CASE d # Current
          BY <2>1, <3>1, <3>2, <3>4, TendedSame
    <3> QED BY <3>3, <3>4
  <2>5. ASSUME NEW e \in Deferred, Steals(e)
        PROVE  Tended(d)'
    <3>1. /\ result' = [result EXCEPT ![Current] = result[e], ![e] = "value"]
          /\ failResult' = [failResult EXCEPT ![e] = FALSE]
          /\ stack' = GoTo("items")
          /\ UNCHANGED <<called, paused, callbacks, left>>
          BY <2>5 DEF Steals, ReportsNoMore
    <3>2. Stays(d)
          BY <2>1, <3>1, CallGoesOn
    <3>3. CASE d = Current
          BY <2>2, <2>3, <3>1, <3>2, <3>3, TendedByCall DEF Stays
    <3>4. CASE d # Current /\ d = e
      <4>1. result'[d] = "value" /\ failResult'[d] = FALSE
            BY <3>1, <3>4 DEF TypeOK
      <4> QED BY <2>1, <3>1, <3>2, <4>1 DEF Tended, Reports, Runs, CallbacksLeft, Stays
    <3>5. CASE d # Current /\ d # e
      <4>1. UNCHANGED <<called[d], result[d], paused[d], callbacks[d], failResult[d]>>
            BY <3>1, <3>5 DEF TypeOK
      <4> QED BY <2>1, <3>1, <3>2, <4>1, TendedSame
    <3> QED BY <3>3, <3>4, <3>5
  <2>6. ASSUME NEW e \in Deferred, WaitsFor(e)
        PROVE  Tended(d)'
    <3>1. /\ result' = [result EXCEPT ![Current] = e]
          /\ paused' = [paused EXCEPT ![Current] = @ + 1]
          /\ callbacks' = [callbacks EXCEPT ![e] = Append(@, Current)]
          /\ failResult' = [failResult EXCEPT ![Current] = FALSE]
          /\ stack' = Finished /\ UNCHANGED <<called, left>>
          BY <2>6 DEF WaitsFor, PausesToWait, ReportsNoMore
    <3>2. paused \in [Deferred -> Nat] /\ e # Current
          BY <2>6 DEF WaitsFor, Suppliers, TypeOK
    <3>3. CASE d = Current
      <4>1. paused'[d] # 0 /\ called'[d]
            BY <2>2, <3>1, <3>2, <3>3
      <4> QED BY <4>1 DEF Tended, Reports, Runs, CallbacksLeft
    <3>4. CASE d # Current
      <4>1. Stays(d)
            BY <2>1, <3>1, <3>4, CallFinishes
      <4>2. CASE d = e
        <5>1. ~(called[d] /\ paused[d] = 0)
          <6>1. \/ result[d] = NoResult \/ paused[d] > 0
                \/ result[d] \in Deferred
                BY <2>6, <4>2 DEF WaitsFor, MustWait, IsPaused
          <6>2. result[d] \in Deferred => paused[d] > 0
                BY <3>2 DEF WaitsWhereListed, TypeOK
          <6> QED BY <3>2, <6>1, <6>2 DEF ResultOnceCalled
        <5>2. UNCHANGED <<called[d], result[d], paused[d], failResult[d]>>
              BY <3>1, <3>4
        <5> QED BY <2>1, <4>1, <5>1, <5>2 DEF Tended, Reports, Runs, CallbacksLeft, Stays
      <4>3. CASE d # e
        <5>1. UNCHANGED <<called[d], result[d], paused[d], callbacks[d], failResult[d]>>
              BY <3>1, <3>4, <4>3 DEF TypeOK
        <5> QED BY <2>1, <3>1, <4>1, <5>1, TendedSame
      <4> QED BY <4>2, <4>3
    <3> QED BY <3>3, <3>4
  <2> QED BY <1>2, <2>4, <2>5, <2>6 DEF Return
<1> QED BY <1>1, <1>2

LEMMA TendedHolds == Spec => [](Inv /\ AllTended)
<1>1. Init => AllTended
      BY DEF Init, AllTended, Tended, Reports, Runs, CallbacksLeft, NoResult
<1>2. Inv /\ AllTended /\ [Next]_vars => AllTended'
  <2> SUFFICES ASSUME Inv, AllTended, [Next]_vars, NEW d \in Deferred
               PROVE  Tended(d)'
      BY DEF AllTended
  <2>1. CASE UNCHANGED vars
        BY <2>1 DEF vars, AllTended, Tended, Reports, Runs, CallbacksLeft, AtTurn, InChain
  <2> QED BY <2>1, UserTends, RunTends, ReturnTends DEF Next
<1> QED BY <1>1, <1>2, InvCorrect, PTL DEF Spec

\* Outside of all calls a Deferred that is free to go reports an unhandled error
\* exactly if it has a Failure (defer.py:577, :622, :630-641).
THEOREM FailuresReportedCorrect == Spec => []FailuresReported
<1>1. Inv /\ AllTended => FailuresReported
  <2> SUFFICES ASSUME Inv, AllTended, stack = <<>>, NEW d \in Deferred, paused[d] = 0
               PROVE  failResult[d] = (result[d] = "failure")
      BY DEF FailuresReported
  <2>1. failResult[d] <=> result[d] = "failure"
        BY DEF AllTended, Tended, Reports, AtTurn
  <2>2. failResult[d] \in BOOLEAN
        BY DEF Inv, TypeOK
  <2> QED BY <2>1, <2>2
<1> QED BY <1>1, TendedHolds, PTL

\* Outside of all calls a Deferred that was called and is not paused has run all
\* its callbacks, unless _runCallbacks has left it on the way (defer.py:557).
THEOREM NothingLeftCorrect == Spec => []NothingLeft
<1>1. AllTended => NothingLeft
      BY DEF NothingLeft, AllTended, Tended, Runs, InChain
<1> QED BY <1>1, TendedHolds, PTL
=============================================================================
