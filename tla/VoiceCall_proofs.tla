-------------------------- MODULE VoiceCall_proofs --------------------------
(***************************************************************************)
(* Proofs about VoiceCall, for any bounds: what the two states and the     *)
(* step of the voice thread say about the number, the call and the timer,  *)
(* although the two timers write the states at any moment; and what the    *)
(* queue, the modem's calls and the module's copies of them say about the  *)
(* ringing and the missed calls.                                           *)
(***************************************************************************)
EXTENDS VoiceCall, SequenceTheorems, TLAPS

\* slips only grow.
LEMMA SlipsStay ==
  ASSUME [Next]_vars
  PROVE  slips \subseteq slips'
<1>1. CASE ToConversation
      BY <1>1 DEF ToConversation, AlAnswer, Slips
<1>2. CASE ~ToConversation
      BY <1>2
      DEF Next, vars, VoiceThread, Modem, Phone, OnHook, OffHook, Digit, DialDigit,
          DtmfDigit, IncomingCall, CallProgress, CallConnected, CallEnded, NoChange,
          ToIdle, ToRing, ToWait, ToDialing, ToAlerting, Commit, AlarmFires, WaitTimeout,
          ModemOffers, ModemGoesOn, ModemEnds, ModemRepeats, Indicates, LiftHook, HangUp,
          PressKey, FromPhone, Slips, Idles, history
<1> QED BY <1>1, <1>2

LEMMA Kept ==
  ASSUME [Next]_vars, NEW what, Without(what)'
  PROVE  Without(what)
BY SlipsStay DEF Without

-----------------------------------------------------------------------------
\* The number to dial.

CallTyped == call \in [len : Nat, tone_flag : Nat, is_incoming : Nat, is_online : Nat]

Numbers == CallTyped /\ DialsANumber

LEMMA NumbersNext ==
  ASSUME Numbers, [Next]_vars
  PROVE  Numbers'
<1> USE DEF Numbers, CallTyped, DialsANumber, core, modem, al, timers, history
<1>1. Without({"unread"})' => Without({"unread"})
      BY Kept
<1>2. CASE OnHook \/ OffHook
      BY <1>1, <1>2 DEF OnHook, OffHook
<1>3. CASE Digit
  <2>1. CASE DialDigit
    <3>1. MaxNumber \in Nat \ {0}
          BY VoiceAssumption
    <3>2. CASE NumberHasRoom /\ call' = [call EXCEPT !.len = @ + 1]
          BY <1>1, <2>1, <3>2
    <3>3. CASE NumberHasRoom /\ Slips({"unread"}) /\ UNCHANGED call
          BY <1>1, <3>3 DEF Slips, Without
    <3>4. CASE ~NumberHasRoom /\ UNCHANGED call
          BY <1>1, <3>1, <3>4 DEF NumberHasRoom
    <3> QED BY <2>1, <3>2, <3>3, <3>4 DEF DialDigit
  <2>2. CASE DtmfDigit
        BY <1>1, <2>2 DEF DtmfDigit
  <2> QED BY <1>3, <2>1, <2>2 DEF Digit
<1>4. CASE IncomingCall \/ CallConnected \/ CallEnded
      BY <1>1, <1>4 DEF IncomingCall, CallConnected, CallEnded, AfterEnd
<1>5. CASE CallProgress
      BY <1>1, <1>5 DEF CallProgress
<1>6. CASE ToIdle
      BY <1>1, <1>6 DEF ToIdle, Changes, Clears, Cleared
<1>7. CASE NoChange \/ Commit \/ ToRing \/ ToWait \/ ToDialing \/ ToAlerting
      BY <1>1, <1>7 DEF NoChange, Commit, ToRing, ToWait, ToDialing, ToAlerting, Changes
<1>8. CASE ToConversation
      BY <1>1, <1>8 DEF ToConversation, Changes
<1>9. CASE AlarmFires \/ WaitTimeout
      BY <1>1, <1>9 DEF AlarmFires, WaitTimeout, ForcesIdle
<1>10. CASE Modem \/ Phone \/ UNCHANGED vars
       BY <1>1, <1>10
       DEF Modem, ModemOffers, ModemGoesOn, ModemEnds, ModemRepeats, Indicates, Phone,
           LiftHook, HangUp, PressKey, FromPhone, vars
<1> QED
    BY <1>2, <1>3, <1>4, <1>5, <1>6, <1>7, <1>8, <1>9, <1>10 DEF Next, VoiceThread

\* Whenever the alarm may send the number, a digit has been read, unless one
\* could not be read (voice_core.c:953-979).
THEOREM DialsANumberCorrect == Spec => []DialsANumber
<1>1. Init => Numbers
      BY DEF Init, Numbers, CallTyped, DialsANumber, Cleared
<1>2. Numbers => DialsANumber
      BY DEF Numbers
<1> QED BY <1>1, <1>2, NumbersNext, PTL DEF Spec

-----------------------------------------------------------------------------
\* The clearing, as long as no timer slipped.

InStep ==
  /\ thread \in {"loop", "compare", "commit"}
  /\ thread = "loop" =>
       \/ curr_status = late_status
       \/ curr_status \in {"wait", "dialing"} /\ late_status = "dialing"
       \/ curr_status = "conversation" /\ late_status # "wait"
  /\ thread = "compare" /\ late_status = "wait" => curr_status \in {"idle", "wait"}

ClearWhileWaiting ==
  /\ thread = "loop" /\ curr_status \in {"idle", "wait"} => call = Cleared
  /\ thread = "compare" /\ {curr_status, late_status} \subseteq {"idle", "wait"}
       => call = Cleared
  /\ thread = "commit" /\ late_status \in {"idle", "wait"} => call = Cleared

Clearing == Without({"timer"}) => InStep /\ ClearWhileWaiting

LEMMA ClearingNext ==
  ASSUME Clearing, [Next]_vars
  PROVE  Clearing'
<1> SUFFICES ASSUME InStep, ClearWhileWaiting, Without({"timer"})'
             PROVE  (InStep /\ ClearWhileWaiting)'
    BY Kept DEF Clearing
<1> USE DEF InStep, ClearWhileWaiting, core, modem, al, timers, history
<1>1. CASE OnHook \/ OffHook
      BY <1>1 DEF OnHook, OffHook, Takes, Ignored
<1>2. CASE Digit
      BY <1>2 DEF Digit, DialDigit, DtmfDigit, Takes
<1>3. CASE IncomingCall \/ CallConnected \/ CallEnded
      BY <1>3 DEF IncomingCall, CallConnected, CallEnded, AfterEnd, Takes
<1>4. CASE CallProgress
      BY <1>4 DEF CallProgress, Takes
<1>5. CASE ToIdle
      BY <1>5 DEF ToIdle, Changes, Clears
<1>6. CASE NoChange \/ Commit \/ ToRing \/ ToWait \/ ToDialing \/ ToAlerting
      BY <1>6 DEF NoChange, Commit, ToRing, ToWait, ToDialing, ToAlerting, Changes
<1>7. CASE ToConversation
      BY <1>7 DEF ToConversation, Changes
<1>8. CASE AlarmFires \/ WaitTimeout
      BY <1>8 DEF AlarmFires, WaitTimeout, ForcesIdle, Idles, Slips, Without
<1>9. CASE Modem \/ Phone \/ UNCHANGED vars
      BY <1>9
      DEF Modem, ModemOffers, ModemGoesOn, ModemEnds, ModemRepeats, Indicates, Phone,
          LiftHook, HangUp, PressKey, FromPhone, vars
<1> QED
    BY <1>1, <1>2, <1>3, <1>4, <1>5, <1>6, <1>7, <1>8, <1>9 DEF Next, VoiceThread

\* Between two calls nothing of the last one is left, unless a timer ended a call
\* that was in use (voice_core.c:1165-1171).
THEOREM ClearedAtRestCorrect == Spec => []ClearedAtRest
<1>1. Init => Clearing
      BY DEF Init, Clearing, InStep, ClearWhileWaiting
<1>2. Clearing => ClearedAtRest
      BY DEF Clearing, ClearWhileWaiting, ClearedAtRest
<1> QED BY <1>1, <1>2, ClearingNext, PTL DEF Spec

-----------------------------------------------------------------------------
\* The 15 s timer.

TimerWaits ==
  /\ thread \in {"loop", "compare", "commit"}
  /\ call_timer =>
       /\ thread = "loop" => curr_status = "wait" /\ late_status \in {"wait", "dialing"}
       /\ thread = "compare" => /\ curr_status = "wait"
                                /\ late_status \in {"wait", "idle", "dialing"}
       /\ thread = "commit" => late_status = "wait"

Timing == Without({"timer", "third"}) => TimerWaits

LEMMA TimingNext ==
  ASSUME Timing, [Next]_vars
  PROVE  Timing'
<1> SUFFICES ASSUME TimerWaits, Without({"timer", "third"})'
             PROVE  TimerWaits'
    BY Kept DEF Timing
<1> USE DEF TimerWaits, core, modem, al, timers, history
<1>1. CASE OnHook
  <2>1. ~Slips({"third"})
        BY DEF Slips, Without
  <2> QED BY <1>1, <2>1 DEF OnHook, Takes, Ignored
<1>10. CASE OffHook
  <2>1. thread' = "compare" /\ UNCHANGED <<curr_status, call_timer>>
        BY <1>10 DEF OffHook
  <2>2. curr_status = "wait" => late_status' = "idle"
        BY <1>10 DEF OffHook
  <2>3. call_timer => curr_status = "wait"
        BY <1>10 DEF OffHook, Takes
  <2> QED BY <2>1, <2>2, <2>3
<1>2. CASE Digit
      BY <1>2 DEF Digit, DialDigit, DtmfDigit, Takes
<1>3. CASE IncomingCall \/ CallConnected \/ CallEnded
      BY <1>3 DEF IncomingCall, CallConnected, CallEnded, AfterEnd, Takes
<1>4. CASE CallProgress
      BY <1>4 DEF CallProgress, Takes
<1>5. CASE ToIdle
      BY <1>5 DEF ToIdle, Changes
<1>6. CASE NoChange \/ Commit \/ ToRing \/ ToWait \/ ToDialing \/ ToAlerting
  <2>1. CASE NoChange
        BY <2>1 DEF NoChange
  <2>2. CASE Commit
        BY <2>2 DEF Commit
  <2>3. CASE ToRing
        BY <2>3 DEF ToRing, Changes
  <2>4. CASE ToWait
        BY <2>4 DEF ToWait, Changes
  <2>5. CASE ToDialing
        BY <2>5 DEF ToDialing, Changes
  <2>6. CASE ToAlerting
        BY <2>6 DEF ToAlerting, Changes
  <2> QED BY <1>6, <2>1, <2>2, <2>3, <2>4, <2>5, <2>6
<1>7. CASE ToConversation
      BY <1>7 DEF ToConversation, Changes
<1>8. CASE AlarmFires \/ WaitTimeout
      BY <1>8 DEF AlarmFires, WaitTimeout, ForcesIdle, Idles, Slips, Without
<1>9. CASE Modem \/ Phone \/ UNCHANGED vars
      BY <1>9
      DEF Modem, ModemOffers, ModemGoesOn, ModemEnds, ModemRepeats, Indicates, Phone,
          LiftHook, HangUp, PressKey, FromPhone, vars
<1> QED
    BY <1>1, <1>2, <1>3, <1>4, <1>5, <1>6, <1>7, <1>8, <1>9, <1>10 DEF Next, VoiceThread

\* The 15 s timer runs only while the user is being waited for, unless a timer
\* slipped or the phone rang for a 3rd call (voice_core.c:1152, :1157, :1265).
THEOREM TimerOnlyWaitsCorrect == Spec => []TimerOnlyWaits
<1>1. Init => Timing
      BY DEF Init, Timing, TimerWaits
<1>2. Timing => TimerOnlyWaits
      BY DEF Timing, TimerWaits, TimerOnlyWaits
<1> QED BY <1>1, <1>2, TimingNext, PTL DEF Spec

-----------------------------------------------------------------------------
\* The phone hung up.

\* The last thing the queue says of the phone is the hang-up.
HangUpLast(q) ==
  \E k \in 1..Len(q) :
    /\ q[k].from = "device" /\ q[k].state = "onhook"
    /\ \A j \in 1..Len(q) : j > k => q[j].from # "device"

PhoneSilent(q) == \A j \in 1..Len(q) : q[j].from # "device"

\* The module is at rest, or its next step takes it there.
AtRest ==
  /\ late_status \in {"idle", "ring"}
  /\ thread = "loop" => curr_status \in {"idle", "ring"}

RingsInStep ==
  /\ thread \in {"loop", "compare", "commit"}
  /\ thread = "loop" /\ curr_status = "ring" => late_status = "ring"

QueueTyped == \E S : queue \in Seq(S)

HungUp == hook = "on" => HangUpLast(queue) \/ (PhoneSilent(queue) /\ AtRest)

Resting == /\ QueueTyped
           /\ RingsInStep
           /\ Without({"hook"}) => HungUp

\* What is appended and what is taken leaves the last word of the phone alone,
\* unless it is that word.
LEMMA NetworkAppended ==
  ASSUME NEW S, NEW q \in Seq(S), NEW x, x.from = "network"
  PROVE  /\ HangUpLast(q) => HangUpLast(Append(q, x))
         /\ PhoneSilent(q) => PhoneSilent(Append(q, x))
<1> DEFINE T == S \cup {x}
<1>1. q \in Seq(T) /\ x \in T
      OBVIOUS
<1>2. /\ Len(Append(q, x)) = Len(q) + 1 /\ Len(q) \in Nat
      /\ \A i \in 1..Len(q) : Append(q, x)[i] = q[i]
      /\ Append(q, x)[Len(q) + 1] = x
      BY <1>1
<1> HIDE DEF T
<1>3. HangUpLast(q) => HangUpLast(Append(q, x))
  <2> SUFFICES ASSUME NEW k \in 1..Len(q),
                      q[k].from = "device", q[k].state = "onhook",
                      \A j \in 1..Len(q) : j > k => q[j].from # "device"
               PROVE  HangUpLast(Append(q, x))
      BY DEF HangUpLast
  <2>1. k \in 1..Len(Append(q, x)) /\ Append(q, x)[k] = q[k]
        BY <1>2
  <2>2. ASSUME NEW j \in 1..Len(Append(q, x)), j > k
        PROVE  Append(q, x)[j].from # "device"
    <3>1. CASE j = Len(q) + 1
          BY <1>2, <3>1
    <3>2. CASE j \in 1..Len(q)
          BY <1>2, <2>2, <3>2
    <3> QED BY <1>2, <3>1, <3>2
  <2> QED BY <2>1, <2>2 DEF HangUpLast
<1>4. PhoneSilent(q) => PhoneSilent(Append(q, x))
  <2> SUFFICES ASSUME PhoneSilent(q), NEW j \in 1..Len(Append(q, x))
               PROVE  Append(q, x)[j].from # "device"
      BY DEF PhoneSilent
  <2>1. CASE j = Len(q) + 1
        BY <1>2, <2>1
  <2>2. CASE j \in 1..Len(q)
        BY <1>2, <2>2 DEF PhoneSilent
  <2> QED BY <1>2, <2>1, <2>2
<1> QED BY <1>3, <1>4

LEMMA HangUpAppended ==
  ASSUME NEW S, NEW q \in Seq(S), NEW x, x.from = "device", x.state = "onhook"
  PROVE  HangUpLast(Append(q, x))
<1> DEFINE T == S \cup {x}
<1>1. q \in Seq(T) /\ x \in T
      OBVIOUS
<1>2. /\ Len(Append(q, x)) = Len(q) + 1 /\ Len(q) \in Nat
      /\ Append(q, x)[Len(q) + 1] = x
      BY <1>1
<1> HIDE DEF T
<1> QED BY <1>2 DEF HangUpLast

LEMMA HeadTaken ==
  ASSUME NEW S, NEW q \in Seq(S), q # <<>>
  PROVE  /\ PhoneSilent(q) => PhoneSilent(Tail(q)) /\ Head(q).from # "device"
         /\ HangUpLast(q) =>
              \/ HangUpLast(Tail(q))
              \/ PhoneSilent(Tail(q)) /\ Head(q).from = "device"
                   /\ Head(q).state = "onhook"
<1>1. /\ Len(q) \in Nat /\ Len(q) > 0 /\ Len(Tail(q)) = Len(q) - 1
      /\ Head(q) = q[1]
      /\ \A i \in 1..Len(Tail(q)) : Tail(q)[i] = q[i + 1]
      OBVIOUS
<1>2. PhoneSilent(q) => PhoneSilent(Tail(q)) /\ Head(q).from # "device"
      BY <1>1 DEF PhoneSilent
<1>3. ASSUME NEW k \in 1..Len(q), q[k].from = "device", q[k].state = "onhook",
             \A j \in 1..Len(q) : j > k => q[j].from # "device"
      PROVE  \/ HangUpLast(Tail(q))
             \/ PhoneSilent(Tail(q)) /\ Head(q).from = "device"
                  /\ Head(q).state = "onhook"
  <2>1. CASE k = 1
        BY <1>1, <1>3, <2>1 DEF PhoneSilent
  <2>2. CASE k > 1
    <3>1. /\ k - 1 \in 1..Len(Tail(q)) /\ Tail(q)[k - 1] = q[k]
          BY <1>1, <2>2
    <3>2. ASSUME NEW j \in 1..Len(Tail(q)), j > k - 1
          PROVE  Tail(q)[j].from # "device"
          BY <1>1, <1>3, <3>2
    <3> QED BY <1>3, <3>1, <3>2 DEF HangUpLast
  <2> QED BY <2>1, <2>2
<1> QED BY <1>2, <1>3 DEF HangUpLast

LEMMA RingsInStepNext ==
  ASSUME RingsInStep, [Next]_vars
  PROVE  RingsInStep'
<1> USE DEF RingsInStep, core, modem, al, timers, history
<1>1. CASE OnHook \/ OffHook
      BY <1>1 DEF OnHook, OffHook
<1>2. CASE Digit
      BY <1>2 DEF Digit, DialDigit, DtmfDigit, Takes
<1>3. CASE IncomingCall \/ CallConnected \/ CallEnded \/ CallProgress
      BY <1>3 DEF IncomingCall, CallConnected, CallEnded, CallProgress
<1>4. CASE NoChange \/ Commit
      BY <1>4 DEF NoChange, Commit
<1>5. CASE ToIdle \/ ToRing \/ ToWait \/ ToDialing \/ ToAlerting \/ ToConversation
      BY <1>5 DEF ToIdle, ToRing, ToWait, ToDialing, ToAlerting, ToConversation, Changes
<1>6. CASE AlarmFires \/ WaitTimeout
      BY <1>6 DEF AlarmFires, WaitTimeout, ForcesIdle
<1>7. CASE Modem \/ Phone \/ UNCHANGED vars
      BY <1>7
      DEF Modem, ModemOffers, ModemGoesOn, ModemEnds, ModemRepeats, Indicates, Phone,
          LiftHook, HangUp, PressKey, FromPhone, vars
<1> QED
    BY <1>1, <1>2, <1>3, <1>4, <1>5, <1>6, <1>7 DEF Next, VoiceThread

LEMMA QueueTypedNext ==
  ASSUME QueueTyped, [Next]_vars
  PROVE  QueueTyped'
<1> PICK S : queue \in Seq(S)
    BY DEF QueueTyped
<1>1. ASSUME NEW x, queue' = Append(queue, x)
      PROVE  QueueTyped'
  <2>1. queue' \in Seq(S \cup {x})
        BY <1>1
  <2> QED BY <2>1 DEF QueueTyped
<1>2. CASE queue # <<>> /\ queue' = Tail(queue)
  <2>1. queue' \in Seq(S)
        BY <1>2
  <2> QED BY <2>1 DEF QueueTyped
<1>3. CASE queue' = queue
      BY <1>3 DEF QueueTyped
<1>4. CASE VoiceThread
      BY <1>2, <1>3, <1>4
      DEF VoiceThread, OnHook, OffHook, Digit, IncomingCall, CallProgress, CallConnected,
          CallEnded, Takes, NoChange, Commit, ToIdle, ToRing, ToWait, ToDialing,
          ToAlerting, ToConversation, Changes
<1>5. CASE Modem \/ Phone
      BY <1>1, <1>3, <1>5
      DEF Modem, ModemOffers, ModemGoesOn, ModemEnds, ModemRepeats, Indicates, Phone,
          LiftHook, HangUp, PressKey, FromPhone
<1>6. CASE AlarmFires \/ WaitTimeout \/ UNCHANGED vars
      BY <1>3, <1>6 DEF AlarmFires, WaitTimeout, vars
<1> QED BY <1>4, <1>5, <1>6 DEF Next

LEMMA HungUpNext ==
  ASSUME Resting, HungUp, Without({"hook"})', [Next]_vars
  PROVE  HungUp'
<1> PICK S : queue \in Seq(S)
    BY DEF Resting, QueueTyped
<1> SUFFICES ASSUME hook' = "on"
             PROVE  HangUpLast(queue') \/ (PhoneSilent(queue') /\ AtRest')
    BY DEF HungUp
<1> USE DEF core, modem, al, timers, history
<1>1. CASE HangUp
  <2> DEFINE x == [from |-> "device", state |-> "onhook"]
  <2>1. queue' = Append(queue, x) /\ x.from = "device" /\ x.state = "onhook"
        BY <1>1 DEF HangUp, FromPhone
  <2> QED BY <2>1, HangUpAppended
<1>2. CASE hook = "on" /\ Indicates
  <2> DEFINE x == [from |-> "network", state |-> radio[1].state]
  <2>1. queue' = Append(queue, x) /\ x.from = "network"
        BY <1>2 DEF Indicates
  <2>2. AtRest' <=> AtRest
        BY <1>2 DEF Indicates, AtRest
  <2> HIDE DEF x
  <2> QED BY <1>2, <2>1, <2>2, NetworkAppended DEF HungUp
<1>3. ASSUME hook = "on", UNCHANGED queue, AtRest => AtRest'
      PROVE  HangUpLast(queue') \/ (PhoneSilent(queue') /\ AtRest')
      BY <1>3 DEF HungUp
<1>4. ASSUME hook = "on", queue # <<>>, queue' = Tail(queue),
             AtRest /\ Head(queue).from # "device" => AtRest',
             Head(queue).from = "device" /\ Head(queue).state = "onhook" => AtRest'
      PROVE  HangUpLast(queue') \/ (PhoneSilent(queue') /\ AtRest')
      BY <1>4, HeadTaken DEF HungUp
<1>5. CASE OnHook
  <2>1. hook = "on" /\ queue # <<>> /\ queue' = Tail(queue)
        BY <1>5 DEF OnHook, Takes
  <2>2. AtRest'
        BY <1>5 DEF OnHook, AtRest, Ignored, Takes, Resting, RingsInStep
  <2> QED BY <1>4, <2>1, <2>2
<1>6. CASE OffHook
  <2>1. hook = "on" /\ queue # <<>> /\ queue' = Tail(queue)
          /\ Head(queue).from = "device"
        BY <1>6 DEF OffHook, Takes
  <2>2. Head(queue).state = "offhook"
        BY <1>6 DEF OffHook, Slips, Without
  <2> QED BY <1>4, <2>1, <2>2
<1>7. CASE Digit
  <2>1. hook = "on" /\ queue # <<>> /\ queue' = Tail(queue)
          /\ Head(queue).from = "device"
        BY <1>7 DEF Digit, Takes
  <2>2. Head(queue).state # "onhook"
        BY <1>7 DEF Digit, Seen
  <2> QED BY <1>4, <2>1, <2>2
<1>8. CASE IncomingCall \/ CallConnected \/ CallEnded \/ CallProgress
  <2>1. hook = "on" /\ queue # <<>> /\ queue' = Tail(queue)
          /\ Head(queue).from = "network"
        BY <1>8 DEF IncomingCall, CallConnected, CallEnded, CallProgress, Takes
  <2>2. AtRest => AtRest'
    <3>1. CASE IncomingCall
          BY <3>1 DEF IncomingCall, Takes, AtRest
    <3>2. CASE CallConnected
          BY <3>2 DEF CallConnected, Takes, AtRest
    <3>3. CASE CallEnded
          BY <3>3 DEF CallEnded, AfterEnd, Takes, AtRest
    <3>4. CASE CallProgress
          BY <3>4 DEF CallProgress, Takes, AtRest
    <3> QED BY <1>8, <3>1, <3>2, <3>3, <3>4
  <2> QED BY <1>4, <2>1, <2>2
<1>9. CASE NoChange \/ Commit
  <2>1. hook = "on" /\ UNCHANGED queue
        BY <1>9 DEF NoChange, Commit
  <2>2. AtRest => AtRest'
        BY <1>9 DEF NoChange, Commit, AtRest
  <2> QED BY <1>3, <2>1, <2>2
<1>10. CASE ToIdle \/ ToRing \/ ToWait \/ ToDialing \/ ToAlerting \/ ToConversation
  <2>1. hook = "on" /\ UNCHANGED <<queue, late_status>> /\ thread' = "commit"
        BY <1>10
        DEF ToIdle, ToRing, ToWait, ToDialing, ToAlerting, ToConversation, Changes
  <2> QED BY <1>3, <2>1 DEF AtRest
<1>11. CASE AlarmFires \/ WaitTimeout
  <2>1. hook = "on" /\ UNCHANGED <<queue, thread>>
        BY <1>11 DEF AlarmFires, WaitTimeout
  <2>2. UNCHANGED <<curr_status, late_status>> \/ ForcesIdle
        BY <1>11 DEF AlarmFires, WaitTimeout
  <2> QED BY <1>3, <2>1, <2>2 DEF AtRest, ForcesIdle
<1>12. CASE ModemOffers \/ ModemGoesOn \/ ModemEnds \/ ModemRepeats \/ UNCHANGED vars
       BY <1>3, <1>12
       DEF ModemOffers, ModemGoesOn, ModemEnds, ModemRepeats, vars, AtRest
<1>13. ~LiftHook /\ ~PressKey
       BY DEF LiftHook, PressKey
<1> QED
    BY <1>1, <1>2, <1>5, <1>6, <1>7, <1>8, <1>9, <1>10, <1>11, <1>12, <1>13
    DEF Next, VoiceThread, Modem, Phone, Indicates

\* When all is handled and the handset is down, the module is idle or rings, unless
\* an old off-hook was taken for the hang-up (voice_core.c:1586-1603).
THEOREM AtRestWhenHungUpCorrect == Spec => []AtRestWhenHungUp
<1>1. Init => Resting
  <2> SUFFICES ASSUME Init PROVE Resting
      OBVIOUS
  <2>1. queue \in Seq({}) /\ PhoneSilent(queue)
        BY DEF Init, PhoneSilent
  <2>2. AtRest /\ RingsInStep
        BY DEF Init, AtRest, RingsInStep
  <2> QED BY <2>1, <2>2 DEF Resting, QueueTyped, HungUp
<1>2. Resting => AtRestWhenHungUp
  <2> SUFFICES ASSUME Resting, Without({"hook"}), Quiet, hook = "on"
               PROVE  curr_status \in {"idle", "ring"}
      BY DEF AtRestWhenHungUp
  <2>1. ~HangUpLast(queue)
        BY DEF Quiet, HangUpLast
  <2> QED BY <2>1 DEF Resting, HungUp, AtRest, Quiet
<1>3. Resting /\ [Next]_vars => Resting'
  <2> SUFFICES ASSUME Resting, [Next]_vars PROVE Resting'
      OBVIOUS
  <2>1. QueueTyped' /\ RingsInStep'
        BY QueueTypedNext, RingsInStepNext DEF Resting
  <2>2. Without({"hook"})' => HungUp'
        BY HungUpNext, Kept DEF Resting
  <2> QED BY <2>1, <2>2 DEF Resting
<1> QED BY <1>1, <1>2, <1>3, PTL DEF Spec

-----------------------------------------------------------------------------
\* The modem's calls and the types.

RadioTyped == radio \in Seq(CallInfo) /\ Len(radio) <= 2

\* One step of the modem's calls: their number and their ids stay.
SameCalls(calls) ==
  /\ calls \in Seq(CallInfo) /\ Len(calls) = Len(radio)
  /\ \A i \in DOMAIN radio : calls[i].id = radio[i].id

LEMMA RadioIs ==
  ASSUME RadioTyped
  PROVE  /\ Len(radio) = 0 \/ Len(radio) = 1 \/ Len(radio) = 2
         /\ DOMAIN radio = 1..Len(radio)
         /\ radio = <<>> <=> Len(radio) = 0
         /\ \A i \in 1..Len(radio) : /\ radio[i] \in CallInfo /\ radio[i].id \in Id
                                     /\ radio[i].state \in CallState
<1>1. radio \in Seq(CallInfo) /\ Len(radio) <= 2 /\ Len(radio) \in Nat
      BY DEF RadioTyped
<1>2. Len(radio) = 0 \/ Len(radio) = 1 \/ Len(radio) = 2
  <2>1. ASSUME NEW n \in Nat, n <= 2
        PROVE  n = 0 \/ n = 1 \/ n = 2
        BY <2>1
  <2> QED BY <1>1, <2>1
<1>4. DOMAIN radio = 1..Len(radio)
      BY ONLY <1>1
<1>5. radio = <<>> <=> Len(radio) = 0
      BY ONLY <1>1
<1>3. \A i \in 1..Len(radio) : radio[i] \in CallInfo
      BY <1>1
<1> QED BY <1>2, <1>3, <1>4, <1>5 DEF CallInfo

LEMMA WithIs ==
  ASSUME RadioTyped, NEW id, NEW state \in CallState
  PROVE  /\ SameCalls(With(id, state)) /\ DOMAIN With(id, state) = DOMAIN radio
         /\ \A i \in DOMAIN radio :
              With(id, state)[i].state = IF radio[i].id = id THEN state ELSE radio[i].state
<1> DEFINE calls == With(id, state)
<1>1. /\ DOMAIN calls = 1..Len(radio) /\ Len(radio) \in Nat
      /\ \A i \in 1..Len(radio) :
           /\ calls[i] \in CallInfo /\ calls[i].id = radio[i].id
           /\ calls[i].state = IF radio[i].id = id THEN state ELSE radio[i].state
      BY RadioIs DEF With, CallInfo
<1>2. calls = [i \in 1..Len(radio) |-> calls[i]]
      BY RadioIs DEF With
<1> HIDE DEF calls
<1>3. calls \in Seq(CallInfo) /\ Len(calls) = Len(radio)
      BY <1>1, <1>2
<1> QED BY <1>1, <1>3, RadioIs DEF SameCalls, calls

LEMMA EndedIs ==
  ASSUME RadioTyped, NEW id, NEW state \in CallState
  PROVE  /\ SameCalls(Ended(id, state)) /\ DOMAIN Ended(id, state) = DOMAIN radio
         /\ \A i \in DOMAIN radio :
              Ended(id, state)[i].state =
                IF radio[i].id = id THEN state
                ELSE IF radio[i].state = "waiting" THEN "incoming" ELSE radio[i].state
<1> DEFINE calls == Ended(id, state)
<1>1. /\ DOMAIN calls = 1..Len(radio) /\ Len(radio) \in Nat
      /\ \A i \in 1..Len(radio) :
           /\ calls[i] \in CallInfo /\ calls[i].id = radio[i].id
           /\ calls[i].state = IF radio[i].id = id THEN state
                               ELSE IF radio[i].state = "waiting" THEN "incoming"
                               ELSE radio[i].state
  <2> SUFFICES ASSUME NEW i \in 1..Len(radio)
               PROVE  /\ calls[i] \in CallInfo /\ calls[i].id = radio[i].id
                      /\ calls[i].state = IF radio[i].id = id THEN state
                                          ELSE IF radio[i].state = "waiting" THEN "incoming"
                                          ELSE radio[i].state
      BY RadioIs DEF Ended
  <2>1. radio[i] \in CallInfo /\ i \in DOMAIN radio
        BY RadioIs
  <2>2. CASE radio[i].id = id
    <3>1. calls[i] = [radio[i] EXCEPT !.state = state]
          BY <2>1, <2>2 DEF Ended
    <3> QED BY <2>1, <2>2, <3>1 DEF CallInfo, CallState
  <2>3. CASE radio[i].id # id /\ radio[i].state = "waiting"
    <3>1. calls[i] = [radio[i] EXCEPT !.state = "incoming"]
          BY <2>1, <2>3 DEF Ended
    <3> QED BY <2>1, <2>3, <3>1 DEF CallInfo, CallState
  <2>4. CASE radio[i].id # id /\ radio[i].state # "waiting"
    <3>1. calls[i] = radio[i]
          BY <2>1, <2>4 DEF Ended
    <3> QED BY <2>1, <2>4, <3>1 DEF CallInfo
  <2> QED BY <2>2, <2>3, <2>4
<1>2. calls = [i \in 1..Len(radio) |-> calls[i]]
      BY RadioIs DEF Ended
<1> HIDE DEF calls
<1>3. calls \in Seq(CallInfo) /\ Len(calls) = Len(radio)
      BY <1>1, <1>2
<1> QED BY <1>1, <1>3, RadioIs DEF SameCalls, calls

LEMMA OneOrTwo ==
  /\ \A a \in CallInfo : /\ <<a>> \in Seq(CallInfo) /\ Len(<<a>>) = 1 /\ <<a>>[1] = a
                         /\ <<a>> \o <<>> = <<a>> /\ <<>> \o <<a>> = <<a>>
  /\ <<>> \o <<>> = <<>> /\ <<>> \in Seq(CallInfo) /\ Len(<<>>) = 0
<1> SUFFICES ASSUME NEW a \in CallInfo
             PROVE  /\ <<a>> \in Seq(CallInfo) /\ Len(<<a>>) = 1 /\ <<a>>[1] = a
                    /\ <<a>> \o <<>> = <<a>> /\ <<>> \o <<a>> = <<a>>
                    /\ <<>> \o <<>> = <<>> /\ <<>> \in Seq(CallInfo) /\ Len(<<>>) = 0
    BY DEF CallInfo
<1> QED OBVIOUS

LEMMA TwoIs ==
  ASSUME NEW calls \in Seq(CallInfo), Len(calls) = 2,
         NEW a, NEW b, a = <<calls[1]>>, b = <<calls[2]>>
  PROVE  a \o b = calls
OBVIOUS

\* What is left when the ended calls are dropped.
LEMMA StillOnIs ==
  ASSUME RadioTyped, radio # <<>>, NEW calls, calls = StillOn(1) \o StillOn(2)
  PROVE  /\ calls \in Seq(CallInfo) /\ Len(calls) <= 2
         /\ \/ /\ calls = <<>>
               /\ \A i \in DOMAIN radio : radio[i].state = "end"
            \/ \E i \in DOMAIN radio :
                 /\ Len(calls) = 1 /\ calls[1] = radio[i] /\ radio[i].state # "end"
                 /\ \A j \in DOMAIN radio : j # i => radio[j].state = "end"
            \/ /\ Len(radio) = 2 /\ calls = radio
               /\ \A i \in DOMAIN radio : radio[i].state # "end"
<1>1. \A i : i \in DOMAIN radio <=> i = 1 \/ (i = 2 /\ Len(radio) = 2)
      BY RadioIs
<1>2. \A i \in DOMAIN radio : radio[i] \in CallInfo
      BY RadioIs
<1>5. CASE radio[1].state = "end"
  <2>1. StillOn(1) = <<>>
        BY <1>5 DEF StillOn
  <2>2. CASE 2 \in DOMAIN radio /\ radio[2].state # "end"
    <3>1. StillOn(2) = <<radio[2]>> /\ radio[2] \in CallInfo
          BY <1>2, <2>2 DEF StillOn
    <3>2. calls = <<radio[2]>>
          BY OneOrTwo, <2>1, <3>1
    <3>3. /\ calls \in Seq(CallInfo) /\ Len(calls) = 1 /\ calls[1] = radio[2]
          BY OneOrTwo, <3>1, <3>2
    <3>4. \A j \in DOMAIN radio : j # 2 => radio[j].state = "end"
          BY <1>1, <1>5
    <3> QED BY <2>2, <3>3, <3>4
  <2>3. CASE ~(2 \in DOMAIN radio /\ radio[2].state # "end")
    <3>1. StillOn(2) = <<>>
          BY <2>3 DEF StillOn
    <3>2. calls = <<>>
          BY OneOrTwo, <2>1, <3>1
    <3>3. calls \in Seq(CallInfo) /\ Len(calls) = 0
          BY OneOrTwo, <3>2
    <3>4. \A j \in DOMAIN radio : radio[j].state = "end"
          BY <1>1, <1>5, <2>3
    <3> QED BY <3>2, <3>3, <3>4
  <2> QED BY <2>2, <2>3
<1>6. CASE radio[1].state # "end"
  <2>1. StillOn(1) = <<radio[1]>> /\ radio[1] \in CallInfo
        BY <1>1, <1>2, <1>6 DEF StillOn
  <2>2. CASE 2 \in DOMAIN radio /\ radio[2].state # "end"
    <3>1. StillOn(2) = <<radio[2]>>
          BY <2>2 DEF StillOn
    <3>2. Len(radio) = 2 /\ radio \in Seq(CallInfo)
          BY <1>1, <2>2 DEF RadioTyped
    <3>3. StillOn(1) \o StillOn(2) = radio
          BY <2>1, <3>1, <3>2, TwoIs
    <3>4. calls = radio
          BY <3>3
    <3>5. \A i \in DOMAIN radio : radio[i].state # "end"
          BY <1>1, <1>6, <2>2
    <3>6. calls \in Seq(CallInfo) /\ Len(calls) = 2
          BY <3>2, <3>4
    <3> QED BY <3>2, <3>4, <3>5, <3>6
  <2>3. CASE ~(2 \in DOMAIN radio /\ radio[2].state # "end")
    <3>1. StillOn(2) = <<>>
          BY <2>3 DEF StillOn
    <3>2. calls = <<radio[1]>>
          BY OneOrTwo, <2>1, <3>1
    <3>3. /\ calls \in Seq(CallInfo) /\ Len(calls) = 1 /\ calls[1] = radio[1]
          BY OneOrTwo, <2>1, <3>2
    <3>4. \A j \in DOMAIN radio : j # 1 => radio[j].state = "end"
          BY <1>1, <2>3
    <3> QED BY <1>1, <1>6, <3>3, <3>4
  <2> QED BY <2>2, <2>3
<1> QED BY <1>5, <1>6

TypeInv == TypeOK /\ (news => radio # <<>>)

LEMMA RadioFacts == ASSUME TypeOK PROVE RadioTyped
BY DEF TypeOK, RadioTyped

\* What the modem's calls keep when they change but for the newest and the ended.
LEMMA SameCallsTyped ==
  ASSUME TypeInv, SameCalls(radio')
  PROVE  /\ radio' \in Seq(CallInfo) /\ Len(radio') <= 2
         /\ (radio = <<>>) <=> (radio' = <<>>)
<1>1. RadioTyped /\ radio' \in Seq(CallInfo) /\ Len(radio') = Len(radio) /\ Len(radio) <= 2
      BY RadioFacts DEF TypeInv, SameCalls, TypeOK
<1>2. radio' = <<>> <=> Len(radio') = 0
      BY <1>1
<1> QED BY <1>1, <1>2, RadioIs

LEMMA AlDialTyped ==
  ASSUME TypeInv, AlDial
  PROVE  /\ radio' \in Seq(CallInfo) /\ Len(radio') <= 2 /\ (radio # <<>> => radio' # <<>>)
         /\ used' \in [calls : 0..MaxCalls, lifts : 0..MaxLifts, keys : 0..MaxKeys]
         /\ g_call' \in CallInfo
<1>1. CASE UNCHANGED <<radio, used, g_call>>
      BY <1>1 DEF TypeInv, TypeOK
<1>2. CASE radio = <<>> /\ used.calls < MaxCalls
  <2> DEFINE a == [id |-> used.calls + 1, state |-> "dialled"]
  <2>1. used.calls + 1 \in 0..MaxCalls /\ MaxCalls \in Nat
        BY <1>2, VoiceAssumption DEF TypeInv, TypeOK
  <2>2. a \in CallInfo
        BY <2>1 DEF CallInfo, CallState, Id
  <2>3. radio' = <<a>> /\ used' = [used EXCEPT !.calls = @ + 1]
          /\ g_call' = [g_call EXCEPT !.id = used.calls + 1]
        BY <1>2 DEF AlDial
  <2> HIDE DEF a
  <2>4. radio' \in Seq(CallInfo) /\ Len(radio') <= 2
        BY <2>2, <2>3
  <2>5. used' \in [calls : 0..MaxCalls, lifts : 0..MaxLifts, keys : 0..MaxKeys]
        BY <2>1, <2>3 DEF TypeInv, TypeOK
  <2>6. g_call' \in CallInfo
        BY <2>1, <2>3 DEF TypeInv, TypeOK, CallInfo, Id
  <2> QED BY <1>2, <2>4, <2>5, <2>6
<1> QED BY <1>1, <1>2 DEF AlDial

LEMMA OfferTyped ==
  ASSUME TypeInv, ModemOffers
  PROVE  /\ used.calls + 1 \in 0..MaxCalls /\ radio \in Seq(CallInfo)
         /\ \A state \in {"incoming", "waiting"} :
              [id |-> used.calls + 1, state |-> state] \in CallInfo
         /\ \/ radio = <<>> /\ radio' = <<[id |-> used.calls + 1, state |-> "incoming"]>>
            \/ \E new \in {"incoming", "waiting"} :
                 /\ Len(radio) = 1
                 /\ radio[1].state = IF new = "waiting" THEN "conversation"
                                                        ELSE "disconnecting"
                 /\ radio' = <<[id |-> used.calls + 1, state |-> new]>> \o radio
<1>1. /\ used.calls \in 0..MaxCalls /\ used.calls < MaxCalls /\ MaxCalls \in Nat
      /\ radio \in Seq(CallInfo)
      BY VoiceAssumption DEF ModemOffers, TypeInv, TypeOK
<1>2. used.calls + 1 \in 0..MaxCalls
      BY <1>1
<1>3. \/ radio = <<>> /\ radio' = <<[id |-> used.calls + 1, state |-> "incoming"]>>
      \/ \E new \in {"incoming", "waiting"} :
           /\ Len(radio) = 1
           /\ radio[1].state = IF new = "waiting" THEN "conversation" ELSE "disconnecting"
           /\ radio' = <<[id |-> used.calls + 1, state |-> new]>> \o radio
      BY DEF ModemOffers
<1> QED BY <1>1, <1>2, <1>3 DEF CallInfo, CallState, Id

LEMMA AlAnswerTyped ==
  ASSUME TypeInv, AlAnswer
  PROVE  /\ radio' \in Seq(CallInfo) /\ Len(radio') <= 2
         /\ news' \in BOOLEAN /\ (news' => radio' # <<>>)
         /\ answered' \in SUBSET Id /\ slips' \subseteq Slip
<1>1. CASE UNCHANGED <<radio, news, answered, slips>>
      BY <1>1 DEF TypeInv, TypeOK
<1>2. ASSUME NEW id, Has(id, {"incoming", "waiting"}), radio' = With(id, "conversation"),
             news' = TRUE, answered' = answered \cup {id},
             Slips(IF IncomingWaits THEN {"early"} ELSE {})
      PROVE  /\ radio' \in Seq(CallInfo) /\ Len(radio') <= 2
             /\ news' \in BOOLEAN /\ (news' => radio' # <<>>)
             /\ answered' \in SUBSET Id /\ slips' \subseteq Slip
  <2>1. SameCalls(radio')
        BY <1>2, WithIs, RadioFacts DEF TypeInv, CallState
  <2>2. radio # <<>> /\ id \in Id
        BY <1>2, RadioFacts, RadioIs DEF TypeInv, Has
  <2>3. slips' \subseteq Slip
        BY <1>2 DEF TypeInv, TypeOK, Slips, Slip
  <2> QED BY <1>2, <2>1, <2>2, <2>3, SameCallsTyped DEF TypeInv, TypeOK
<1> QED BY <1>1, <1>2 DEF AlAnswer

LEMMA AlEndTyped ==
  ASSUME TypeInv, AlEnd
  PROVE  /\ radio' \in Seq(CallInfo) /\ Len(radio') <= 2
         /\ news' \in BOOLEAN /\ (news' => radio' # <<>>)
<1>1. CASE UNCHANGED <<radio, news>>
      BY <1>1 DEF TypeInv, TypeOK
<1>2. ASSUME NEW id, Has(id, CallState \ Over), NEW state \in Over,
             radio' = Ended(id, state), news' = TRUE
      PROVE  /\ radio' \in Seq(CallInfo) /\ Len(radio') <= 2
             /\ news' \in BOOLEAN /\ (news' => radio' # <<>>)
  <2>1. SameCalls(radio') /\ radio # <<>>
        BY <1>2, EndedIs, RadioFacts, RadioIs DEF TypeInv, Has, Over, CallState
  <2> QED BY <1>2, <2>1, SameCallsTyped
<1> QED BY <1>1, <1>2 DEF AlEnd

LEMMA RecordTyped ==
  ASSUME TypeOK, NEW type \in RecordType, AddRecord(type)
  PROVE  records' \in Seq([type : RecordType, id : Id])
<1> DEFINE r == RecordOf(type)
<1>1. g_third.id \in Id /\ g_call.id \in Id /\ 0 \in Id
      BY VoiceAssumption DEF TypeOK, CallInfo, Id
<1>2. r \in [type : RecordType, id : Id]
      BY <1>1 DEF RecordOf
<1> HIDE DEF r
<1>3. records' = Append(records, r)
      BY DEF AddRecord, r
<1> QED BY <1>2, <1>3 DEF TypeOK

\* The voice thread takes an indication.
LEMMA TakesTyped ==
  ASSUME TypeOK, queue # <<>>, queue' = Tail(queue)
  PROVE  queue' \in Seq(Indication) /\ Head(queue) \in Indication
BY DEF TypeOK

LEMMA AppendTyped ==
  ASSUME TypeOK, NEW x \in Indication, queue' = Append(queue, x)
  PROVE  queue' \in Seq(Indication)
BY DEF TypeOK

LEMMA TypeNext ==
  ASSUME TypeInv, [Next]_vars
  PROVE  TypeInv'
<1> USE DEF TypeInv, core, modem, al, timers, history
<1>1. CASE OnHook
  <2>1. queue' \in Seq(Indication)
        BY <1>1, TakesTyped DEF OnHook, Takes
  <2>2. g_third' \in CallInfo
        BY <1>1 DEF OnHook, TypeOK, CallInfo, CallState
  <2>3. slips' \subseteq Slip
        BY <1>1 DEF OnHook, TypeOK, Slips, Slip
  <2>4. curr_status' \in Status /\ late_status' \in Status /\ dtmf_tail' \in 0..MaxDtmf
        BY <1>1, VoiceAssumption DEF OnHook, TypeOK, Status
  <2> QED BY <1>1, <2>1, <2>2, <2>3, <2>4 DEF OnHook, TypeOK
<1>2. CASE OffHook
  <2>1. queue' \in Seq(Indication)
        BY <1>2, TakesTyped DEF OffHook, Takes
  <2>2. late_status' \in Status
        BY <1>2 DEF OffHook, Status
  <2>3. slips' \subseteq Slip
        BY <1>2 DEF OffHook, TypeOK, Slips, Slip
  <2> QED BY <1>2, <2>1, <2>2, <2>3 DEF OffHook, TypeOK
<1>3. CASE Digit
  <2>1. queue' \in Seq(Indication)
        BY <1>3, TakesTyped DEF Digit, Takes
  <2>2. CASE DialDigit
    <3>1. call' \in [len : 0..MaxNumber, tone_flag : 0..1, is_incoming : 0..1,
                     is_online : 0..1]
      <4>1. call \in [len : 0..MaxNumber, tone_flag : 0..1, is_incoming : 0..1,
                      is_online : 0..1]
            BY DEF TypeOK
      <4>2. call' = call \/ (call.len < MaxNumber /\ call' = [call EXCEPT !.len = @ + 1])
            BY <2>2 DEF DialDigit, NumberHasRoom
      <4> QED BY <4>1, <4>2, VoiceAssumption
    <3>2. slips' \subseteq Slip
          BY <2>2 DEF DialDigit, TypeOK, Slips, Slip
    <3>3. late_status' \in Status /\ alarm' \in BOOLEAN
            /\ thread' \in {"loop", "compare", "commit"}
          BY <2>2 DEF DialDigit, Status, TypeOK
    <3> QED BY <1>3, <2>1, <2>2, <3>1, <3>2, <3>3 DEF Digit, DialDigit, TypeOK
  <2>3. CASE DtmfDigit
    <3>1. dtmf_tail' \in 0..MaxDtmf
          BY <2>3, VoiceAssumption DEF DtmfDigit, TypeOK
    <3>2. slips' \subseteq Slip
          BY <2>3 DEF DtmfDigit, TypeOK, Slips, Slip
    <3>3. curr_status' \in Status /\ late_status' \in Status
            /\ thread' \in {"loop", "compare", "commit"}
          BY <2>3 DEF DtmfDigit, Status, TypeOK
    <3> QED BY <1>3, <2>1, <2>3, <3>1, <3>2, <3>3 DEF Digit, DtmfDigit, TypeOK
  <2> QED BY <1>3, <2>2, <2>3 DEF Digit
<1>4. CASE IncomingCall
  <2>1. queue' \in Seq(Indication)
        BY <1>4, TakesTyped DEF IncomingCall, Takes
  <2> QED BY <1>4, <2>1 DEF IncomingCall, TypeOK, Status
<1>5. CASE CallProgress
  <2>1. queue' \in Seq(Indication)
        BY <1>5, TakesTyped DEF CallProgress, Takes
  <2>2. call' \in [len : 0..MaxNumber, tone_flag : 0..1, is_incoming : 0..1,
                   is_online : 0..1]
        BY <1>5 DEF CallProgress, TypeOK
  <2>3. records' \in Seq([type : RecordType, id : Id])
        BY <1>5, RecordTyped DEF CallProgress, TypeOK, RecordType
  <2>4. late_status' \in Status
        BY <1>5 DEF CallProgress, TypeOK, Status
  <2> QED BY <1>5, <2>1, <2>2, <2>3, <2>4 DEF CallProgress, TypeOK
<1>6. CASE CallConnected
  <2>1. queue' \in Seq(Indication)
        BY <1>6, TakesTyped DEF CallConnected, Takes
  <2> QED BY <1>6, <2>1 DEF CallConnected, TypeOK, Status
<1>7. CASE CallEnded
  <2>1. queue' \in Seq(Indication)
        BY <1>7, TakesTyped DEF CallEnded, Takes
  <2>2. g_third' \in CallInfo
        BY <1>7 DEF CallEnded, TypeOK, CallInfo, CallState
  <2> QED BY <1>7, <2>1, <2>2 DEF CallEnded, AfterEnd, TypeOK, Status
<1>8. CASE NoChange \/ Commit
      BY <1>8 DEF NoChange, Commit, TypeOK
<1>9. CASE ToIdle
  <2>1. records' \in Seq([type : RecordType, id : Id])
        BY <1>9, RecordTyped DEF ToIdle, TypeOK, RecordType
  <2>2. /\ radio' \in Seq(CallInfo) /\ Len(radio') <= 2
        /\ news' \in BOOLEAN /\ (news' => radio' # <<>>)
        BY <1>9, AlEndTyped DEF ToIdle, TypeOK
  <2>3. call' \in [len : 0..MaxNumber, tone_flag : 0..1, is_incoming : 0..1,
                   is_online : 0..1]
        BY <1>9, VoiceAssumption DEF ToIdle, Clears, Cleared
  <2>4. dev_state' \in {"unknown", "offhook"} /\ call_timer' \in BOOLEAN
        BY <1>9 DEF ToIdle, TypeOK
  <2> QED BY <1>9, <2>1, <2>2, <2>3, <2>4 DEF ToIdle, Changes, TypeOK
<1>10. CASE ToConversation
  <2>1. call' \in [len : 0..MaxNumber, tone_flag : 0..1, is_incoming : 0..1,
                   is_online : 0..1]
    <3> DEFINE answer == IF curr_status = "ring" THEN 1 ELSE call.is_incoming
    <3>1. /\ call \in [len : 0..MaxNumber, tone_flag : 0..1, is_incoming : 0..1,
                        is_online : 0..1]
          /\ answer \in 0..1
          BY DEF TypeOK
    <3>2. call' = [call EXCEPT !.is_online = 1, !.is_incoming = answer]
          BY <1>10 DEF ToConversation
    <3> HIDE DEF answer
    <3>3. call' = [len |-> call.len, tone_flag |-> call.tone_flag,
                   is_incoming |-> answer, is_online |-> 1]
          BY <3>1, <3>2
    <3> QED BY <3>1, <3>3
  <2>2. /\ radio' \in Seq(CallInfo) /\ Len(radio') <= 2
        /\ news' \in BOOLEAN /\ (news' => radio' # <<>>)
        /\ answered' \in SUBSET Id /\ slips' \subseteq Slip
    <3>1. CASE curr_status = "ring"
          BY <1>10, <3>1, AlAnswerTyped DEF ToConversation
    <3>2. CASE curr_status # "ring"
          BY <1>10, <3>2 DEF ToConversation, TypeOK
    <3> QED BY <3>1, <3>2
  <2> QED BY <1>10, <2>1, <2>2 DEF ToConversation, Changes, TypeOK
<1>11. CASE ToRing \/ ToWait \/ ToDialing \/ ToAlerting
  <2>1. CASE ToRing
        BY <2>1 DEF ToRing, Changes, TypeOK
  <2>2. CASE ToWait
        BY <2>2 DEF ToWait, Changes, TypeOK
  <2>3. CASE ToDialing
        BY <2>3 DEF ToDialing, Changes, TypeOK
  <2>4. CASE ToAlerting
        BY <2>4 DEF ToAlerting, Changes, TypeOK
  <2> QED BY <1>11, <2>1, <2>2, <2>3, <2>4
<1>12. CASE AlarmFires
  <2>1. /\ radio' \in Seq(CallInfo) /\ Len(radio') <= 2 /\ (radio # <<>> => radio' # <<>>)
        /\ used' \in [calls : 0..MaxCalls, lifts : 0..MaxLifts, keys : 0..MaxKeys]
        /\ g_call' \in CallInfo
        BY <1>12, AlDialTyped DEF AlarmFires, TypeOK
  <2>2. /\ curr_status' \in Status /\ late_status' \in Status /\ slips' \subseteq Slip
        BY <1>12 DEF AlarmFires, ForcesIdle, Idles, Slips, Slip, Status, TypeOK
  <2> QED BY <1>12, <2>1, <2>2 DEF AlarmFires, TypeOK
<1>13. CASE WaitTimeout
  <2>1. /\ curr_status' \in Status /\ late_status' \in Status /\ slips' \subseteq Slip
        BY <1>13 DEF WaitTimeout, ForcesIdle, Idles, Slips, Slip, Status, TypeOK
  <2> QED BY <1>13, <2>1 DEF WaitTimeout, TypeOK
<1>14. CASE ModemOffers
  <2> DEFINE a(state) == [id |-> used.calls + 1, state |-> state]
  <2>1. used.calls + 1 \in 0..MaxCalls
        BY <1>14, OfferTyped
  <2>2. a("incoming") \in CallInfo /\ a("waiting") \in CallInfo
        BY <1>14, OfferTyped
  <2>3. \/ radio' = <<a("incoming")>>
        \/ Len(radio) = 1 /\ \E new \in {"incoming", "waiting"} : radio' = <<a(new)>> \o radio
        BY <1>14, OfferTyped
  <2> HIDE DEF a
  <2>4. radio' \in Seq(CallInfo) /\ Len(radio') <= 2 /\ radio' # <<>>
    <3>1. radio \in Seq(CallInfo)
          BY DEF TypeOK
    <3>2. CASE radio' = <<a("incoming")>>
          BY <2>2, <3>2
    <3>3. ASSUME NEW new \in {"incoming", "waiting"}, Len(radio) = 1,
                 radio' = <<a(new)>> \o radio
          PROVE  radio' \in Seq(CallInfo) /\ Len(radio') <= 2 /\ radio' # <<>>
      <4> DEFINE first == <<a(new)>>
      <4>1. first \in Seq(CallInfo) /\ Len(first) = 1
            BY <2>2
      <4> HIDE DEF first
      <4>2. first \o radio \in Seq(CallInfo) /\ Len(first \o radio) = 2
            BY <3>1, <3>3, <4>1, ConcatProperties
      <4> USE DEF first
      <4>3. radio' \in Seq(CallInfo) /\ Len(radio') = 2
            BY <3>3, <4>2
      <4> QED BY <4>3
    <3> QED BY <2>3, <3>2, <3>3
  <2>5. used' \in [calls : 0..MaxCalls, lifts : 0..MaxLifts, keys : 0..MaxKeys]
        BY <1>14, <2>1 DEF ModemOffers, TypeOK
  <2> QED BY <1>14, <2>4, <2>5 DEF ModemOffers, TypeOK
<1>15. CASE ModemGoesOn \/ ModemEnds \/ ModemRepeats
  <2>1. SameCalls(radio') /\ radio # <<>>
    <3>1. CASE ModemGoesOn
          BY <3>1, WithIs, RadioFacts, RadioIs DEF ModemGoesOn, CallState
    <3>2. CASE ModemEnds
          BY <3>2, EndedIs, RadioFacts, RadioIs DEF ModemEnds, Over, CallState
    <3>3. CASE ModemRepeats
          BY <3>3, RadioFacts, RadioIs DEF ModemRepeats, SameCalls, TypeOK
    <3> QED BY <1>15, <3>1, <3>2, <3>3
  <2>2. radio' \in Seq(CallInfo) /\ Len(radio') <= 2 /\ radio' # <<>>
        BY <2>1, SameCallsTyped
  <2> QED BY <1>15, <2>2 DEF ModemGoesOn, ModemEnds, ModemRepeats, TypeOK
<1>16. CASE Indicates
  <2>1. radio # <<>> /\ RadioTyped /\ 1 \in DOMAIN radio
        BY <1>16, RadioFacts, RadioIs DEF Indicates
  <2>2. g_third' \in CallInfo /\ g_call' \in CallInfo
        BY <1>16, <2>1, RadioIs DEF Indicates, TypeOK
  <2>3. radio' \in Seq(CallInfo) /\ Len(radio') <= 2
        BY <1>16, <2>1, StillOnIs DEF Indicates
  <2>4. [from |-> "network", state |-> radio[1].state] \in Indication
        BY <2>1, RadioIs DEF Indication
  <2>5. queue' \in Seq(Indication)
        BY <1>16, <2>4, AppendTyped DEF Indicates
  <2> QED BY <1>16, <2>2, <2>3, <2>5 DEF Indicates, TypeOK
<1>17. CASE Phone
  <2>1. \A state \in DeviceState : [from |-> "device", state |-> state] \in Indication
        BY DEF Indication
  <2>2. queue' \in Seq(Indication)
        BY <1>17, <2>1, AppendTyped
        DEF Phone, LiftHook, HangUp, PressKey, FromPhone, DeviceState
  <2>3. /\ used' \in [calls : 0..MaxCalls, lifts : 0..MaxLifts, keys : 0..MaxKeys]
        /\ hook' \in {"on", "off"}
    <3>1. used \in [calls : 0..MaxCalls, lifts : 0..MaxLifts, keys : 0..MaxKeys]
          BY DEF TypeOK
    <3>2. CASE LiftHook
          BY <3>1, <3>2, VoiceAssumption DEF LiftHook
    <3>3. CASE HangUp
          BY <3>1, <3>3 DEF HangUp
    <3>4. CASE PressKey
      <4>1. /\ used.keys \in 0..MaxKeys /\ used.keys < MaxKeys /\ MaxKeys \in Nat
            /\ used' = [used EXCEPT !.keys = @ + 1]
            BY <3>1, <3>4, VoiceAssumption DEF PressKey
      <4>2. used.keys + 1 \in 0..MaxKeys
            BY <4>1
      <4>3. hook' \in {"on", "off"}
            BY <3>4 DEF PressKey, TypeOK
      <4> QED BY <3>1, <4>1, <4>2, <4>3
    <3> QED BY <1>17, <3>2, <3>3, <3>4 DEF Phone
  <2>4. UNCHANGED <<core, timers, al, modem, history>>
        BY <1>17 DEF Phone, LiftHook, HangUp, PressKey, FromPhone
  <2> QED BY <2>2, <2>3, <2>4 DEF TypeOK
<1>18. CASE UNCHANGED vars
       BY <1>18 DEF vars, TypeOK
<1> QED
    BY <1>1, <1>2, <1>3, <1>4, <1>5, <1>6, <1>7, <1>8, <1>9, <1>10, <1>11, <1>12, <1>13,
       <1>14, <1>15, <1>16, <1>17, <1>18
    DEF Next, VoiceThread, Modem

LEMMA TypeInit == Init => TypeInv
<1> SUFFICES ASSUME Init PROVE TypeInv
    OBVIOUS
<1>1. 0 \in Id /\ NoInfo \in CallInfo
      BY VoiceAssumption DEF NoInfo, CallInfo, CallState, Id
<1>2. queue \in Seq(Indication) /\ radio \in Seq(CallInfo) /\ Len(radio) <= 2
        /\ records \in Seq([type : RecordType, id : Id])
      BY DEF Init
<1>3. Cleared \in [len : 0..MaxNumber, tone_flag : 0..1, is_incoming : 0..1, is_online : 0..1]
      BY VoiceAssumption DEF Cleared
<1>4. used \in [calls : 0..MaxCalls, lifts : 0..MaxLifts, keys : 0..MaxKeys]
        /\ dtmf_tail \in 0..MaxDtmf
      BY VoiceAssumption DEF Init
<1> QED BY <1>1, <1>2, <1>3, <1>4 DEF Init, TypeInv, TypeOK, Status

LEMMA TypeHolds == Spec => []TypeInv
BY TypeInit, TypeNext, PTL DEF Spec

\* Every variable keeps its type: the number and the tones stay within their
\* buffers whatever the timers and the phone do (voice_core.c:1623, :1642).
THEOREM TypeCorrect == Spec => []TypeOK
<1>1. TypeInv => TypeOK
      BY DEF TypeInv
<1> QED BY <1>1, TypeHolds, PTL

-----------------------------------------------------------------------------
\* What the modem's calls are, and what the module's copies say of them.

Numbered ==
  /\ \A i \in DOMAIN radio : radio[i].id \in 1..used.calls
  /\ answered \subseteq 1..used.calls
  /\ g_call.id <= used.calls /\ g_third.id <= used.calls

Unanswered ==
  \A i \in DOMAIN radio :
    radio[i].state \in {"incoming", "waiting"} => radio[i].id \notin answered

OneCall == Len(radio) = 1 => radio[1].state # "waiting"

\* The newer call waits for the older one, or one of the two is over.
TwoCalls ==
  Len(radio) = 2 =>
    /\ radio[1].id > radio[2].id
    /\ \/ radio[1].state \in {"waiting"} \cup Over /\ radio[2].state = "conversation"
       \/ radio[1].state \in {"incoming", "conversation"} \cup Over /\ radio[2].state \in Over

\* A lift never answers a call that waits.
Apart ==
  Len(radio) = 2 /\ radio[1].state = "waiting" =>
    g_call.id # radio[1].id /\ (g_call.state \in Over => g_third.id # radio[1].id)

ThirdWaits ==
  g_third.state = "waiting" =>
    /\ Len(radio) = 2 /\ g_third.id = radio[1].id /\ g_third.id \notin answered
    /\ g_call.id = radio[2].id /\ g_call.state = "conversation"

CallsInv == Numbered /\ Unanswered /\ OneCall /\ TwoCalls /\ Apart /\ ThirdWaits

LEMMA RadioDomain ==
  ASSUME TypeOK
  PROVE  /\ \A i : i \in DOMAIN radio <=> (i = 1 /\ radio # <<>>) \/ (i = 2 /\ Len(radio) = 2)
         /\ radio = <<>> <=> Len(radio) = 0
         /\ Len(radio) = 0 \/ Len(radio) = 1 \/ Len(radio) = 2
         /\ \A i \in DOMAIN radio : radio[i].id \in Id /\ radio[i].state \in CallState
BY RadioFacts, RadioIs

\* Most steps leave the modem alone.
LEMMA CallsStay ==
  ASSUME CallsInv, UNCHANGED <<radio, answered, g_call>>, used'.calls = used.calls,
         g_third' = g_third \/ (g_third'.state = "invalid" /\ g_third'.id = g_third.id)
  PROVE  CallsInv'
BY DEF CallsInv, Numbered, Unanswered, OneCall, TwoCalls, Apart, ThirdWaits

\* A call ends.
LEMMA CallsEnded ==
  ASSUME TypeInv, CallsInv, NEW id, Has(id, CallState \ {"end"}),
         NEW state \in Over, radio' = Ended(id, state), UNCHANGED <<answered, used, al>>
  PROVE  CallsInv'
<1>1. /\ DOMAIN radio' = DOMAIN radio /\ Len(radio') = Len(radio)
      /\ \A i \in DOMAIN radio :
           /\ radio'[i].id = radio[i].id
           /\ radio'[i].state = IF radio[i].id = id THEN state
                                ELSE IF radio[i].state = "waiting" THEN "incoming"
                                ELSE radio[i].state
      BY EndedIs, RadioFacts DEF TypeInv, SameCalls, Over, CallState
<1>2. Numbered' /\ Unanswered' /\ OneCall'
      BY <1>1, RadioDomain DEF CallsInv, Numbered, Unanswered, OneCall, Over, TypeInv, al
<1>3. CASE Len(radio) = 2
  <2>1. 1 \in DOMAIN radio /\ 2 \in DOMAIN radio /\ TwoCalls
        BY <1>3, RadioDomain DEF TypeInv, CallsInv
  <2>2. radio[1].id # radio[2].id
        BY <1>3, <2>1 DEF CallsInv, TwoCalls, Numbered, TypeInv, TypeOK
  <2>3. radio[1].id = id \/ radio[2].id = id
        BY RadioDomain DEF Has, TypeInv
  <2>4. radio'[1].state # "waiting"
        BY <1>1, <2>1, <2>2, <2>3 DEF Over
  <2>5. TwoCalls'
        BY <1>1, <1>3, <2>1, <2>2, <2>3 DEF TwoCalls, Over
  <2>6. Apart' /\ ThirdWaits'
        BY <1>1, <1>3, <2>1, <2>4 DEF CallsInv, Apart, ThirdWaits, al
  <2> QED BY <1>2, <2>5, <2>6 DEF CallsInv
<1>4. CASE Len(radio) # 2
      BY <1>1, <1>2, <1>4 DEF CallsInv, TwoCalls, Apart, ThirdWaits, al
<1> QED BY <1>3, <1>4

\* The modem takes the number of the user.
LEMMA CallsDialled ==
  ASSUME TypeInv, CallsInv, AlDial, UNCHANGED <<answered, g_third>>
  PROVE  CallsInv'
<1>1. CASE UNCHANGED <<radio, used, g_call>>
      BY <1>1, CallsStay
<1>2. CASE radio = <<>> /\ used.calls < MaxCalls
  <2> DEFINE a == [id |-> used.calls + 1, state |-> "dialled"]
  <2>1. used.calls \in Nat /\ used'.calls = used.calls + 1 /\ g_call'.id = used.calls + 1
        BY <1>2 DEF AlDial, TypeInv, TypeOK, CallInfo
  <2>2. radio' = <<a>> /\ Len(radio) = 0
        BY <1>2 DEF AlDial
  <2>3. Len(radio') = 1 /\ radio'[1] = a /\ \A i \in DOMAIN radio' : i = 1
        BY <2>2
  <2>4. g_third.id \in Nat
        BY VoiceAssumption DEF TypeInv, TypeOK, CallInfo, Id
  <2>5. Numbered'
        BY <2>1, <2>3, <2>4 DEF CallsInv, Numbered
  <2> QED BY <2>2, <2>3, <2>5
          DEF CallsInv, Unanswered, OneCall, TwoCalls, Apart, ThirdWaits
<1> QED BY <1>1, <1>2 DEF AlDial

\* The user answers the single call, or the newer one beside a call that is over.
LEMMA CallsAnswered ==
  ASSUME TypeInv, CallsInv, NEW id, Has(id, {"incoming", "waiting"}),
         id = IF g_call.state \in Over THEN g_third.id ELSE g_call.id,
         radio' = With(id, "conversation"), answered' = answered \cup {id},
         UNCHANGED <<used, al>>
  PROVE  CallsInv'
<1>1. /\ DOMAIN radio' = DOMAIN radio /\ Len(radio') = Len(radio)
      /\ \A i \in DOMAIN radio :
           /\ radio'[i].id = radio[i].id
           /\ radio'[i].state = IF radio[i].id = id THEN "conversation" ELSE radio[i].state
      BY WithIs, RadioFacts DEF TypeInv, SameCalls, CallState
<1>2. Numbered' /\ Unanswered'
  <2>1. id \in 1..used.calls
        BY DEF Has, CallsInv, Numbered
  <2> QED BY <1>1, <2>1 DEF CallsInv, Numbered, Unanswered, al
<1>3. OneCall'
      BY <1>1, RadioDomain DEF CallsInv, OneCall, TypeInv
<1>4. CASE Len(radio) = 2
  <2>1. 1 \in DOMAIN radio /\ 2 \in DOMAIN radio /\ TwoCalls
        BY <1>4, RadioDomain DEF TypeInv, CallsInv
  <2>2. radio[1].id = id /\ radio[1].state \in {"incoming", "waiting"}
        BY <1>4, <2>1, RadioDomain DEF Has, TwoCalls, Over, TypeInv
  <2>3. radio[1].state # "waiting"
        BY <1>4, <2>2 DEF CallsInv, Apart
  <2>4. radio[2].id # id /\ radio[1].id > radio[2].id
        BY <1>4, <2>1, <2>2 DEF CallsInv, TwoCalls, Numbered, TypeInv, TypeOK
  <2>5. TwoCalls' /\ Apart'
        BY <1>1, <1>4, <2>1, <2>2, <2>3, <2>4 DEF TwoCalls, Apart, Over
  <2>6. g_third.state # "waiting"
        BY <2>2, <2>4 DEF CallsInv, ThirdWaits, Over
  <2> QED BY <1>2, <1>3, <2>5, <2>6 DEF CallsInv, ThirdWaits, al
<1>5. CASE Len(radio) # 2
      BY <1>1, <1>2, <1>3, <1>5 DEF CallsInv, TwoCalls, Apart, ThirdWaits, al
<1> QED BY <1>4, <1>5

LEMMA JoinedIs ==
  ASSUME NEW first \in Seq(CallInfo), NEW second \in Seq(CallInfo),
         Len(first) = 1, Len(second) = 1
  PROVE  /\ Len(first \o second) = 2 /\ DOMAIN (first \o second) = 1..2
         /\ (first \o second)[1] = first[1] /\ (first \o second)[2] = second[1]
<1> DEFINE both == first \o second
<1>1. /\ both \in Seq(CallInfo) /\ Len(both) = 2
      /\ \A i \in 1..2 : both[i] = IF i <= 1 THEN first[i] ELSE second[i - 1]
      BY ConcatProperties
<1> HIDE DEF both
<1>2. DOMAIN both = 1..2 /\ both[1] = first[1] /\ both[2] = second[1]
      BY <1>1
<1> QED BY <1>1, <1>2 DEF both

\* A new call comes alone, or beside the one call there is.
LEMMA OfferIs ==
  ASSUME TypeInv, ModemOffers
  PROVE  LET a(state) == [id |-> used.calls + 1, state |-> state]
         IN  \/ radio = <<>> /\ Len(radio') = 1 /\ DOMAIN radio' = {1}
                  /\ radio'[1] = a("incoming")
             \/ /\ Len(radio) = 1 /\ Len(radio') = 2 /\ DOMAIN radio' = {1, 2}
                /\ radio'[2] = radio[1]
                /\ \/ radio[1].state = "conversation" /\ radio'[1] = a("waiting")
                   \/ radio[1].state = "disconnecting" /\ radio'[1] = a("incoming")
<1> DEFINE a(state) == [id |-> used.calls + 1, state |-> state]
<1>1. CASE radio = <<>> /\ radio' = <<a("incoming")>>
  <2>1. Len(radio') = 1 /\ DOMAIN radio' = {1} /\ radio'[1] = a("incoming")
        BY <1>1
  <2> QED BY <1>1, <2>1
<1>2. ASSUME NEW new \in {"incoming", "waiting"}, Len(radio) = 1,
             radio[1].state = IF new = "waiting" THEN "conversation" ELSE "disconnecting",
             radio' = <<a(new)>> \o radio
      PROVE  /\ Len(radio) = 1 /\ Len(radio') = 2 /\ DOMAIN radio' = {1, 2}
             /\ radio'[2] = radio[1]
             /\ \/ radio[1].state = "conversation" /\ radio'[1] = a("waiting")
                \/ radio[1].state = "disconnecting" /\ radio'[1] = a("incoming")
  <2> DEFINE first == <<a(new)>>
  <2>1. radio \in Seq(CallInfo) /\ a(new) \in CallInfo
        BY OfferTyped
  <2>2. first \in Seq(CallInfo) /\ Len(first) = 1 /\ first[1] = a(new)
        BY <2>1
  <2>3. radio' = first \o radio
        BY <1>2
  <2> HIDE DEF first, a
  <2>4. /\ Len(radio') = 2 /\ DOMAIN radio' = 1..2
        /\ radio'[1] = a(new) /\ radio'[2] = radio[1]
        BY <1>2, <2>1, <2>2, <2>3, JoinedIs
  <2>5. 1..2 = {1, 2}
        OBVIOUS
  <2> QED BY <1>2, <2>4, <2>5
<1> QED BY <1>1, <1>2, OfferTyped

LEMMA CallsOffered ==
  ASSUME TypeInv, CallsInv, ModemOffers
  PROVE  CallsInv'
<1> DEFINE a(state) == [id |-> used.calls + 1, state |-> state]
<1>1. /\ used.calls \in Nat /\ used'.calls = used.calls + 1
      /\ UNCHANGED <<g_call, g_third, answered>>
      BY DEF ModemOffers, TypeInv, TypeOK, al, history
<1>2. /\ used.calls + 1 \notin answered
      /\ g_call.id \in Nat /\ g_call.id < used.calls + 1
      /\ g_third.id \in Nat /\ g_third.id < used.calls + 1
      BY <1>1, VoiceAssumption DEF CallsInv, Numbered, TypeInv, TypeOK, CallInfo, Id
<1>3. CASE radio = <<>> /\ Len(radio') = 1 /\ DOMAIN radio' = {1} /\ radio'[1] = a("incoming")
  <2>1. Numbered'
        BY <1>1, <1>2, <1>3 DEF CallsInv, Numbered, TypeInv, TypeOK, CallInfo, Id
  <2>2. Unanswered'
        BY <1>1, <1>2, <1>3 DEF Unanswered
  <2>3. Len(radio) = 0
        BY <1>3
  <2>4. OneCall' /\ TwoCalls' /\ Apart' /\ ThirdWaits'
        BY <1>1, <1>3, <2>3 DEF CallsInv, OneCall, TwoCalls, Apart, ThirdWaits
  <2> QED BY <2>1, <2>2, <2>4 DEF CallsInv
<1>4. CASE /\ Len(radio) = 1 /\ Len(radio') = 2 /\ DOMAIN radio' = {1, 2}
           /\ radio'[2] = radio[1]
           /\ \/ radio[1].state = "conversation" /\ radio'[1] = a("waiting")
              \/ radio[1].state = "disconnecting" /\ radio'[1] = a("incoming")
  <2>1. radio[1].id \in 1..used.calls
        BY <1>4, RadioDomain DEF TypeInv, CallsInv, Numbered
  <2>2. Numbered'
        BY <1>1, <1>2, <1>4, <2>1 DEF CallsInv, Numbered
  <2>3. Unanswered'
        BY <1>1, <1>2, <1>4 DEF Unanswered
  <2>4. OneCall' /\ TwoCalls' /\ Apart'
        BY <1>1, <1>2, <1>4, <2>1 DEF OneCall, TwoCalls, Apart, Over
  <2>5. ThirdWaits'
        BY <1>1, <1>4 DEF CallsInv, ThirdWaits
  <2> QED BY <2>2, <2>3, <2>4, <2>5 DEF CallsInv
<1> QED BY <1>3, <1>4, OfferIs

\* An outgoing call gets on.
LEMMA CallsGoOn ==
  ASSUME TypeInv, CallsInv, ModemGoesOn
  PROVE  CallsInv' /\ Len(radio) = 1
<1> PICK i \in DOMAIN radio, from \in CallState, to \in CallState :
      /\ from \in {"dialled", "originating", "alerting"} /\ radio[i].state = from
      /\ to \in {"originating", "alerting", "conversation"} /\ radio' = With(radio[i].id, to)
    BY DEF ModemGoesOn, CallState
<1>1. /\ DOMAIN radio' = DOMAIN radio /\ Len(radio') = Len(radio)
      /\ \A j \in DOMAIN radio :
           /\ radio'[j].id = radio[j].id
           /\ radio'[j].state = IF radio[j].id = radio[i].id THEN to ELSE radio[j].state
      BY WithIs, RadioFacts DEF TypeInv, SameCalls
<1>2. UNCHANGED <<g_call, g_third, answered, used>>
      BY DEF ModemGoesOn, al, history
<1>3. Len(radio) = 1
  <2>1. ASSUME Len(radio) = 2 PROVE FALSE
        BY <2>1, RadioDomain DEF CallsInv, TwoCalls, Over, TypeInv
  <2> QED BY <2>1, RadioDomain DEF TypeInv
<1>4. Numbered' /\ Unanswered' /\ OneCall'
  <2>1. 1 \in DOMAIN radio
        BY <1>3, RadioDomain DEF TypeInv
  <2> QED BY <1>1, <1>2, <2>1 DEF CallsInv, Numbered, Unanswered, OneCall
<1> QED BY <1>1, <1>2, <1>3, <1>4 DEF CallsInv, TwoCalls, Apart, ThirdWaits

LEMMA CallsIndicated ==
  ASSUME TypeInv, CallsInv, Indicates
  PROVE  CallsInv'
<1>1. /\ UNCHANGED <<answered, used>> /\ radio # <<>> /\ TypeOK
      /\ radio' = StillOn(1) \o StillOn(2) /\ 1 \in DOMAIN radio
      BY RadioDomain DEF Indicates, TypeInv, history
<1>2. g_call'.id <= used.calls /\ g_third'.id <= used.calls
      BY <1>1, RadioDomain DEF Indicates, CallsInv, Numbered, TypeInv, TypeOK
<1>3. CASE radio' = <<>>
  <2>1. Len(radio') = 0 /\ DOMAIN radio' = {}
        BY <1>3
  <2>2. g_third'.state # "waiting"
    <3>1. CASE Len(radio) = 2
      <4>1. \/ \A i \in DOMAIN radio : radio[i].state = "end"
            \/ Len(radio') = 1
            \/ radio' = radio
            BY <1>1, StillOnIs, RadioFacts
      <4>2. radio[1].state = "end"
            BY <1>1, <1>3, <2>1, <4>1
      <4> QED BY <3>1, <4>2 DEF Indicates
    <3>2. CASE Len(radio) # 2
          BY <3>2 DEF Indicates, CallsInv, ThirdWaits
    <3> QED BY <3>1, <3>2
  <2> QED BY <1>1, <1>2, <2>1, <2>2
          DEF CallsInv, Numbered, Unanswered, OneCall, TwoCalls, Apart, ThirdWaits
<1>4. ASSUME NEW i \in DOMAIN radio, Len(radio') = 1, radio'[1] = radio[i],
             radio[i].state # "end", \A j \in DOMAIN radio : j # i => radio[j].state = "end"
      PROVE  CallsInv'
  <2>1. \A j \in DOMAIN radio' : j = 1
        BY <1>1, <1>4, StillOnIs, RadioFacts
  <2>2. Numbered' /\ Unanswered'
        BY <1>1, <1>2, <1>4, <2>1 DEF CallsInv, Numbered, Unanswered
  <2>3. radio[i].state # "waiting" /\ g_third'.state # "waiting"
    <3>1. CASE Len(radio) = 2
      <4>1. 2 \in DOMAIN radio
            BY <3>1, RadioDomain DEF TypeInv
      <4> QED BY <1>1, <1>4, <3>1, <4>1, RadioDomain
              DEF CallsInv, TwoCalls, Over, Indicates, TypeInv
    <3>2. CASE Len(radio) # 2
          BY <1>1, <1>4, <3>2, RadioDomain DEF CallsInv, OneCall, ThirdWaits, Indicates
    <3> QED BY <3>1, <3>2
  <2> QED BY <1>4, <2>2, <2>3 DEF CallsInv, OneCall, TwoCalls, Apart, ThirdWaits
<1>5. CASE Len(radio) = 2 /\ radio' = radio
  <2>1. /\ g_call' = radio[2] /\ g_third' = radio[1]
        /\ 1 \in DOMAIN radio /\ 2 \in DOMAIN radio
        BY <1>1, <1>5, RadioDomain DEF Indicates, TypeInv
  <2>2. radio[1].id # radio[2].id
        BY <1>5, <2>1 DEF CallsInv, TwoCalls, Numbered, TypeInv, TypeOK
  <2>3. Numbered' /\ Unanswered' /\ OneCall' /\ TwoCalls'
        BY <1>1, <1>2, <1>5 DEF CallsInv, Numbered, Unanswered, OneCall, TwoCalls
  <2>4. Apart' /\ ThirdWaits'
        BY <1>1, <1>5, <2>1, <2>2
        DEF CallsInv, TwoCalls, Unanswered, Apart, ThirdWaits, Over
  <2> QED BY <2>3, <2>4 DEF CallsInv
<1> QED BY <1>1, <1>3, <1>4, <1>5, StillOnIs, RadioFacts

LEMMA CallsNext ==
  ASSUME TypeInv, CallsInv, [Next]_vars
  PROVE  CallsInv'
<1> USE DEF modem, al, history
<1>1. CASE OnHook \/ OffHook \/ Digit \/ IncomingCall \/ CallProgress \/ CallConnected
             \/ CallEnded \/ NoChange \/ Commit \/ ToRing \/ ToWait \/ ToDialing
             \/ ToAlerting \/ WaitTimeout
  <2>1. /\ UNCHANGED <<radio, answered, g_call, used, news>>
        /\ g_third' = g_third \/ (g_third'.state = "invalid" /\ g_third'.id = g_third.id)
        BY <1>1
        DEF OnHook, OffHook, Digit, IncomingCall, CallProgress, CallConnected, CallEnded,
            NoChange, Commit, ToRing, ToWait, ToDialing, ToAlerting, Changes, WaitTimeout,
            TypeInv, TypeOK, CallInfo
  <2> QED BY <2>1, CallsStay
<1>2. CASE ToIdle
  <2>1. UNCHANGED <<answered, used, g_call, g_third>>
        BY <1>2 DEF ToIdle, Changes
  <2>2. CASE UNCHANGED <<radio, news>>
        BY <2>1, <2>2, CallsStay
  <2>3. CASE AlEnd
    <3>1. ASSUME NEW id, Has(id, CallState \ Over), NEW state \in Over,
                 radio' = Ended(id, state)
          PROVE  CallsInv'
      <4>1. Has(id, CallState \ {"end"})
            BY <3>1 DEF Has, Over
      <4> QED BY <2>1, <3>1, <4>1, CallsEnded DEF al
    <3> QED BY <2>2, <2>3, <3>1 DEF AlEnd
  <2> QED BY <1>2, <2>2, <2>3 DEF ToIdle
<1>3. CASE ToConversation
  <2>1. UNCHANGED <<used, g_call, g_third>>
        BY <1>3 DEF ToConversation, Changes
  <2>2. CASE UNCHANGED <<radio, news, answered>>
        BY <2>1, <2>2, CallsStay
  <2>3. CASE AlAnswer
        BY <2>1, <2>2, <2>3, CallsAnswered DEF AlAnswer
  <2> QED BY <1>3, <2>2, <2>3 DEF ToConversation
<1>4. CASE AlarmFires
      BY <1>4, CallsDialled, CallsStay DEF AlarmFires
<1>5. CASE ModemOffers \/ ModemGoesOn \/ Indicates
      BY <1>5, CallsOffered, CallsGoOn, CallsIndicated
<1>6. CASE ModemEnds
  <2>1. \E i \in DOMAIN radio, state \in Over :
          Has(radio[i].id, CallState \ {"end"}) /\ radio' = Ended(radio[i].id, state)
        BY <1>6, RadioDomain DEF ModemEnds, Has, TypeInv
  <2> QED BY <1>6, <2>1, CallsEnded DEF ModemEnds
<1>7. CASE ModemRepeats
      BY <1>7, CallsStay DEF ModemRepeats
<1>8. CASE Phone
  <2>1. used'.calls = used.calls
        BY <1>8 DEF Phone, LiftHook, HangUp, PressKey, TypeInv, TypeOK
  <2> QED BY <1>8, <2>1, CallsStay DEF Phone, LiftHook, HangUp, PressKey, FromPhone
<1>9. CASE UNCHANGED vars
      BY <1>9, CallsStay DEF vars
<1> QED
    BY <1>1, <1>2, <1>3, <1>4, <1>5, <1>6, <1>7, <1>8, <1>9
    DEF Next, VoiceThread, Modem

-----------------------------------------------------------------------------
\* What the ringing goes back to: an indication of an incoming call.

OnNetwork(q, k, states) == q[k].from = "network" /\ q[k].state \in states

\* An end of a call comes later in the queue.
EndAfter(q, k) == \E j \in 1..Len(q) : j > k /\ OnNetwork(q, j, Over)

\* The k-th indication makes the phone ring; it does already with k = 0.
Expects(q, late, k) == IF k = 0 THEN late = "ring" ELSE OnNetwork(q, k, {"incoming"})

NothingExpected == \A k \in 0..Len(queue) : ~Expects(queue, late_status, k)

\* The voice thread hears of an end while it rings, and stops it.
RingsTogether == thread = "loop" /\ late_status = "ring" => curr_status = "ring"

\* What is expected after a step was expected before it; an end in the queue is
\* still to come, unless the step took it and stopped the ringing.
OldCause ==
  \A k \in 0..Len(queue') :
    Expects(queue', late_status', k) =>
      \E m \in 0..Len(queue) :
        /\ Expects(queue, late_status, m)
        /\ RingsTogether /\ EndAfter(queue, m) => EndAfter(queue', k)

LEMMA AppendedIs ==
  ASSUME NEW S, NEW q \in Seq(S), NEW x
  PROVE  /\ Len(q) \in Nat /\ Len(Append(q, x)) = Len(q) + 1
         /\ \A k \in 1..Len(q) : Append(q, x)[k] = q[k]
         /\ Append(q, x)[Len(q) + 1] = x
OBVIOUS

LEMMA TailIs ==
  ASSUME NEW S, NEW q \in Seq(S), q # <<>>
  PROVE  /\ Len(q) \in Nat \ {0} /\ Len(Tail(q)) = Len(q) - 1 /\ Head(q) = q[1]
         /\ \A k \in 1..Len(q) - 1 : Tail(q)[k] = q[k + 1]
OBVIOUS

LEMMA CauseTaken ==
  ASSUME TypeOK, queue # <<>>, queue' = Tail(queue),
         late_status' = "ring" =>
           \/ late_status = "ring" /\ (RingsTogether => ~OnNetwork(queue, 1, Over))
           \/ OnNetwork(queue, 1, {"incoming"})
  PROVE  OldCause
<1>1. /\ Len(queue) \in Nat \ {0} /\ Len(queue') = Len(queue) - 1
      /\ \A k \in 1..Len(queue) - 1 : queue'[k] = queue[k + 1]
      BY TailIs DEF TypeOK
<1> SUFFICES ASSUME NEW k \in 0..Len(queue'), Expects(queue', late_status', k)
             PROVE  \E m \in 0..Len(queue) :
                      /\ Expects(queue, late_status, m)
                      /\ RingsTogether /\ EndAfter(queue, m) => EndAfter(queue', k)
    BY DEF OldCause
<1>2. EndAfter(queue, k + 1) => EndAfter(queue', k)
  <2> SUFFICES ASSUME NEW j \in 1..Len(queue), j > k + 1, OnNetwork(queue, j, Over)
               PROVE  EndAfter(queue', k)
      BY DEF EndAfter
  <2>1. j - 1 \in 1..Len(queue') /\ j - 1 > k /\ OnNetwork(queue', j - 1, Over)
        BY <1>1 DEF OnNetwork
  <2> QED BY <2>1 DEF EndAfter
<1>3. CASE k # 0 \/ OnNetwork(queue, 1, {"incoming"})
  <2>1. k + 1 \in 0..Len(queue) /\ Expects(queue, late_status, k + 1)
        BY <1>1, <1>3 DEF Expects, OnNetwork
  <2> QED BY <1>2, <2>1
<1>4. CASE k = 0 /\ late_status = "ring" /\ (RingsTogether => ~OnNetwork(queue, 1, Over))
  <2>1. 0 \in 0..Len(queue) /\ Expects(queue, late_status, 0)
        BY <1>1, <1>4 DEF Expects
  <2>2. RingsTogether /\ EndAfter(queue, 0) => EndAfter(queue, 1)
    <3> SUFFICES ASSUME RingsTogether, NEW j \in 1..Len(queue), OnNetwork(queue, j, Over)
                 PROVE  j > 1
        BY DEF EndAfter
    <3>1. j # 1
          BY <1>4
    <3> QED BY <1>1, <3>1
  <2> QED BY <1>2, <1>4, <2>1, <2>2
<1> QED BY <1>3, <1>4 DEF Expects

LEMMA CauseAppended ==
  ASSUME TypeOK, NEW x, x.from = "device", queue' = Append(queue, x), UNCHANGED late_status
  PROVE  OldCause
<1>1. /\ Len(queue) \in Nat /\ Len(queue') = Len(queue) + 1
      /\ \A k \in 1..Len(queue) : queue'[k] = queue[k]
      /\ queue'[Len(queue) + 1] = x
      BY AppendedIs DEF TypeOK
<1>2. \A states : \A j \in 1..Len(queue') :
        OnNetwork(queue', j, states) => j \in 1..Len(queue) /\ OnNetwork(queue, j, states)
  <2> SUFFICES ASSUME NEW states, NEW j \in 1..Len(queue'), OnNetwork(queue', j, states)
               PROVE  j \in 1..Len(queue) /\ OnNetwork(queue, j, states)
      OBVIOUS
  <2>1. j # Len(queue) + 1
        BY <1>1 DEF OnNetwork
  <2> QED BY <1>1, <2>1 DEF OnNetwork
<1>3. \A k : EndAfter(queue, k) => EndAfter(queue', k)
      BY <1>1 DEF EndAfter, OnNetwork
<1>4. \A k \in 0..Len(queue') : Expects(queue', late_status', k)
        => k \in 0..Len(queue) /\ Expects(queue, late_status, k)
  <2> SUFFICES ASSUME NEW k \in 0..Len(queue'), Expects(queue', late_status', k)
               PROVE  k \in 0..Len(queue) /\ Expects(queue, late_status, k)
      OBVIOUS
  <2>1. CASE k = 0
        BY <1>1, <2>1 DEF Expects
  <2>2. CASE k # 0
    <3>1. k \in 1..Len(queue') /\ OnNetwork(queue', k, {"incoming"})
          BY <1>1, <2>2 DEF Expects
    <3>2. k \in 1..Len(queue) /\ OnNetwork(queue, k, {"incoming"})
          BY <1>2, <3>1
    <3> QED BY <1>1, <2>2, <3>2 DEF Expects
  <2> QED BY <2>1, <2>2
<1> QED BY <1>3, <1>4 DEF OldCause

LEMMA CauseKept ==
  ASSUME queue' = queue, late_status' = "ring" => late_status = "ring"
  PROVE  OldCause
<1>1. \A k \in 0..Len(queue') :
        Expects(queue', late_status', k) => Expects(queue, late_status, k)
      BY DEF Expects
<1> QED BY <1>1 DEF OldCause

\* But for an indication of the modem and a wake-up of the 3rd call.
LEMMA Causes ==
  ASSUME TypeOK, [Next]_vars, Without({"third"})', ~Indicates
  PROVE  OldCause
<1>1. CASE OnHook \/ OffHook \/ Digit \/ IncomingCall \/ CallProgress \/ CallConnected
             \/ CallEnded
  <2>1. queue # <<>> /\ queue' = Tail(queue) /\ Head(queue) = queue[1]
        BY <1>1, TailIs
        DEF OnHook, OffHook, Digit, IncomingCall, CallProgress, CallConnected, CallEnded,
            Takes, TypeOK
  <2>2. CASE OnHook \/ OffHook \/ Digit
    <3>1. ~OnNetwork(queue, 1, Over)
          BY <2>1, <2>2 DEF OnHook, OffHook, Digit, Takes, OnNetwork
    <3>2. late_status' = "ring" => late_status = "ring"
          BY <2>2 DEF OnHook, OffHook, Digit, DialDigit, DtmfDigit, Slips, Without
    <3> QED BY <2>1, <3>1, <3>2, CauseTaken
  <2>3. CASE IncomingCall
        BY <2>1, <2>3, CauseTaken DEF IncomingCall, Takes, OnNetwork
  <2>4. CASE CallProgress \/ CallConnected
    <3>1. ~OnNetwork(queue, 1, Over)
          BY <2>1, <2>4 DEF CallProgress, CallConnected, Takes, OnNetwork, Over
    <3>2. late_status' = "ring" => late_status = "ring"
          BY <2>4 DEF CallProgress, CallConnected
    <3> QED BY <2>1, <3>1, <3>2, CauseTaken
  <2>5. CASE CallEnded
    <3>1. thread = "loop" /\ late_status' = AfterEnd
          BY <2>5 DEF CallEnded, Takes
    <3>2. late_status' = "ring" => late_status = "ring" /\ ~RingsTogether
          BY <3>1 DEF AfterEnd, RingsTogether
    <3> QED BY <2>1, <3>2, CauseTaken
  <2> QED BY <1>1, <2>2, <2>3, <2>4, <2>5
<1>2. CASE Phone
      BY <1>2, CauseAppended DEF Phone, LiftHook, HangUp, PressKey, FromPhone, core
<1>3. CASE NoChange \/ Commit \/ ToIdle \/ ToRing \/ ToWait \/ ToDialing \/ ToAlerting
             \/ ToConversation
      BY <1>3, CauseKept
      DEF NoChange, Commit, ToIdle, ToRing, ToWait, ToDialing, ToAlerting, ToConversation,
          Changes
<1>4. CASE AlarmFires \/ WaitTimeout
      BY <1>4, CauseKept DEF AlarmFires, WaitTimeout, ForcesIdle
<1>5. CASE ModemOffers \/ ModemGoesOn \/ ModemEnds \/ ModemRepeats \/ UNCHANGED vars
      BY <1>5, CauseKept DEF ModemOffers, ModemGoesOn, ModemEnds, ModemRepeats, core, vars
<1> QED BY <1>1, <1>2, <1>3, <1>4, <1>5 DEF Next, VoiceThread, Modem

\* How a step that is no indication changes the modem's calls.
Answers == answered' # answered
RadioStays == UNCHANGED <<radio, g_call>> /\ (news => news')
RadioEnds ==
  /\ \E id : \E state \in Over : Has(id, CallState \ {"end"}) /\ radio' = Ended(id, state)
  /\ news' /\ UNCHANGED g_call

LEMMA RadioMoves ==
  ASSUME TypeInv, CallsInv, [Next]_vars, ~Indicates, ~Answers
  PROVE  \/ RadioStays \/ RadioEnds
         \/ AlDial /\ UNCHANGED news
         \/ ModemOffers \/ ModemGoesOn
<1> USE DEF modem, al, history, RadioStays, RadioEnds
<1>1. CASE OnHook \/ OffHook \/ Digit \/ IncomingCall \/ CallProgress \/ CallConnected
             \/ CallEnded \/ NoChange \/ Commit \/ ToRing \/ ToWait \/ ToDialing
             \/ ToAlerting \/ WaitTimeout
      BY <1>1
      DEF OnHook, OffHook, Digit, IncomingCall, CallProgress, CallConnected, CallEnded,
          NoChange, Commit, ToRing, ToWait, ToDialing, ToAlerting, Changes, WaitTimeout
<1>2. CASE ToIdle
  <2>1. UNCHANGED g_call /\ (UNCHANGED <<radio, news>> \/ AlEnd)
        BY <1>2 DEF ToIdle, Changes
  <2>2. ASSUME NEW id, Has(id, CallState \ Over), NEW state \in Over,
               radio' = Ended(id, state), news' = TRUE
        PROVE  RadioEnds
    <3>1. Has(id, CallState \ {"end"})
          BY <2>2 DEF Has, Over
    <3> QED BY <2>1, <2>2, <3>1
  <2> QED BY <2>1, <2>2 DEF AlEnd
<1>3. CASE ToConversation
  <2>1. UNCHANGED g_call /\ (UNCHANGED <<radio, news>> \/ AlAnswer)
        BY <1>3 DEF ToConversation, Changes
  <2>2. ASSUME NEW id, Has(id, {"incoming", "waiting"}), answered' = answered \cup {id}
        PROVE  FALSE
    <3>1. id \notin answered
          BY <2>2 DEF Has, CallsInv, Unanswered
    <3> QED BY <2>2, <3>1 DEF Answers
  <2> QED BY <2>1, <2>2 DEF AlAnswer
<1>4. CASE AlarmFires
      BY <1>4 DEF AlarmFires
<1>5. CASE ModemEnds
  <2>1. \E i \in DOMAIN radio, state \in Over :
          Has(radio[i].id, CallState \ {"end"}) /\ radio' = Ended(radio[i].id, state)
        BY <1>5, RadioDomain DEF ModemEnds, Has, TypeInv
  <2>2. news' /\ UNCHANGED g_call
        BY <1>5 DEF ModemEnds
  <2>3. RadioEnds
        BY <2>1, <2>2
  <2> QED BY <2>3
<1>6. CASE ModemOffers \/ ModemGoesOn
      BY <1>6
<1>7. CASE ModemRepeats \/ Phone \/ UNCHANGED vars
      BY <1>7 DEF ModemRepeats, Phone, LiftHook, HangUp, PressKey, FromPhone, vars
<1> QED
    BY <1>1, <1>2, <1>3, <1>4, <1>5, <1>6, <1>7 DEF Next, VoiceThread, Modem

\* Nothing rings any more when a call is answered, unless the lift came early.
LEMMA AnswerHushes ==
  ASSUME TypeOK, [Next]_vars, Answers, Without({"early"})'
  PROVE  NothingExpected'
<1>1. ToConversation /\ curr_status = "ring" /\ AlAnswer
      BY DEF Answers, Next, vars, VoiceThread, Modem, Phone, OnHook, OffHook, Digit,
          IncomingCall, CallProgress, CallConnected, CallEnded, NoChange, ToIdle, ToRing,
          ToWait, ToDialing, ToAlerting, ToConversation, Commit, AlarmFires, WaitTimeout,
          ModemOffers, ModemGoesOn, ModemEnds, ModemRepeats, Indicates, LiftHook, HangUp,
          PressKey, FromPhone, history
<1>2. ~IncomingWaits
      BY <1>1 DEF AlAnswer, Answers, Slips, Without
<1>3. queue' = queue /\ late_status' = "conversation"
      BY <1>1 DEF ToConversation, Changes
<1>4. DOMAIN queue = 1..Len(queue) /\ Len(queue) \in Nat
      BY DEF TypeOK
<1> QED BY <1>2, <1>3, <1>4 DEF NothingExpected, Expects, OnNetwork, IncomingWaits

-----------------------------------------------------------------------------
\* The phone rings for a call.

There == \E i \in DOMAIN radio : radio[i].state \in {"incoming", "waiting"}

\* The modem has still to say that the call has ended.
EndPending == news /\ radio # <<>> /\ radio[1].state \in Over

\* Whatever makes the phone ring, there is the call or word of its end.
RingsInv ==
  Without({"third", "digit", "early"}) =>
    /\ RingsTogether
    /\ \A k \in 0..Len(queue) :
         Expects(queue, late_status, k) => There \/ EndPending \/ EndAfter(queue, k)

LEMMA RingsTogetherNext ==
  ASSUME RingsTogether, RingsInStep, [Next]_vars, Without({"third", "digit"})'
  PROVE  RingsTogether'
<1> USE DEF RingsTogether, RingsInStep, core, modem, al, timers, history
<1>1. CASE OnHook \/ OffHook \/ IncomingCall \/ CallConnected \/ CallEnded \/ CallProgress
      BY <1>1 DEF OnHook, OffHook, IncomingCall, CallConnected, CallEnded, CallProgress
<1>2. CASE Digit
  <2>1. CASE DialDigit
        BY <2>1 DEF DialDigit
  <2>2. CASE DtmfDigit
        BY <1>2, <2>2 DEF Digit, Takes, DtmfDigit, Slips, Without
  <2> QED BY <1>2, <2>1, <2>2 DEF Digit
<1>3. CASE NoChange \/ Commit
      BY <1>3 DEF NoChange, Commit
<1>4. CASE ToIdle \/ ToRing \/ ToWait \/ ToDialing \/ ToAlerting \/ ToConversation
      BY <1>4 DEF ToIdle, ToRing, ToWait, ToDialing, ToAlerting, ToConversation, Changes
<1>5. CASE AlarmFires \/ WaitTimeout
      BY <1>5 DEF AlarmFires, WaitTimeout, ForcesIdle
<1>6. CASE Modem \/ Phone \/ UNCHANGED vars
      BY <1>6
      DEF Modem, ModemOffers, ModemGoesOn, ModemEnds, ModemRepeats, Indicates, Phone,
          LiftHook, HangUp, PressKey, FromPhone, vars
<1> QED
    BY <1>1, <1>2, <1>3, <1>4, <1>5, <1>6 DEF Next, VoiceThread

\* A call that is there goes away with word of its end, or is answered.
LEMMA ThereGoesOn ==
  ASSUME TypeInv, CallsInv, [Next]_vars, ~Indicates, ~Answers, There \/ EndPending
  PROVE  (There \/ EndPending)'
<1>1. CASE RadioStays
      BY <1>1 DEF RadioStays, There, EndPending
<1>2. CASE RadioEnds
  <2>1. PICK id, state : state \in Over /\ radio' = Ended(id, state)
        BY <1>2 DEF RadioEnds
  <2>2. /\ DOMAIN radio' = DOMAIN radio /\ Len(radio') = Len(radio)
        /\ \A i \in DOMAIN radio :
             /\ radio'[i].id = radio[i].id
             /\ radio'[i].state = IF radio[i].id = id THEN state
                                  ELSE IF radio[i].state = "waiting" THEN "incoming"
                                  ELSE radio[i].state
        BY <2>1, EndedIs, RadioFacts DEF TypeInv, SameCalls, Over, CallState
  <2>3. 1 \in DOMAIN radio /\ radio # <<>> /\ radio' # <<>>
        BY <2>2, RadioDomain DEF There, EndPending, TypeInv
  <2>4. CASE radio[1].state \in {"incoming", "waiting"} \cup Over
        BY <1>2, <2>1, <2>2, <2>3, <2>4 DEF RadioEnds, There, EndPending, Over
  <2>5. CASE radio[1].state \notin {"incoming", "waiting"} \cup Over
    <3>1. There
          BY <2>5 DEF EndPending
    <3>2. Len(radio) = 2 => radio[2].state \notin {"incoming", "waiting"}
          BY DEF CallsInv, TwoCalls, Over
    <3> QED BY <2>5, <3>1, <3>2, RadioDomain DEF There, TypeInv
  <2> QED BY <2>4, <2>5
<1>3. CASE AlDial /\ UNCHANGED news
  <2>1. radio # <<>>
        BY RadioDomain DEF There, EndPending, TypeInv
  <2> QED BY <1>3, <2>1 DEF AlDial, There, EndPending
<1>4. CASE ModemOffers
  <2>1. 1 \in DOMAIN radio' /\ radio'[1].state \in {"incoming", "waiting"}
        BY <1>4, OfferIs
  <2> QED BY <2>1 DEF There
<1>5. CASE ModemGoesOn
  <2>1. PICK i \in DOMAIN radio, from \in CallState, to \in CallState :
          /\ from \in {"dialled", "originating", "alerting"} /\ radio[i].state = from
          /\ radio' = With(radio[i].id, to)
        BY <1>5 DEF ModemGoesOn, CallState
  <2>2. There
        BY <1>5 DEF ModemGoesOn, EndPending
  <2>3. Len(radio) = 1
        BY <1>5, CallsGoOn
  <2> QED BY <2>1, <2>2, <2>3, RadioDomain DEF There, TypeInv
<1> QED BY <1>1, <1>2, <1>3, <1>4, <1>5, RadioMoves

LEMMA RingsIndicated ==
  ASSUME TypeInv, CallsInv, Indicates,
         NEW k \in 0..Len(queue'), Expects(queue', late_status', k),
         k \in 0..Len(queue) /\ Expects(queue, late_status, k)
           => There \/ EndPending \/ EndAfter(queue, k)
  PROVE  There' \/ EndAfter(queue', k)
<1> DEFINE x == [from |-> "network", state |-> radio[1].state]
<1>1. /\ Len(queue) \in Nat /\ Len(queue') = Len(queue) + 1
      /\ \A j \in 1..Len(queue) : queue'[j] = queue[j]
      /\ queue'[Len(queue) + 1] = x
      /\ late_status' = late_status
      BY AppendedIs DEF Indicates, TypeInv, TypeOK, core
<1>2. radio # <<>> /\ 1 \in DOMAIN radio /\ RadioTyped /\ radio' = StillOn(1) \o StillOn(2)
      BY RadioDomain, RadioFacts DEF Indicates, TypeInv
<1>3. There => There'
  <2> SUFFICES ASSUME NEW i \in DOMAIN radio, radio[i].state \in {"incoming", "waiting"}
               PROVE  There'
      BY DEF There
  <2>1. CASE radio' = radio
        BY <2>1 DEF There
  <2>2. CASE Len(radio') = 1 /\ radio'[1] = radio[i]
    <3>1. radio' \in Seq(CallInfo)
          BY <1>2, StillOnIs
    <3>2. 1 \in DOMAIN radio'
          BY <2>2, <3>1
    <3> QED BY <2>2, <3>2 DEF There
  <2>3. \/ \A j \in DOMAIN radio : radio[j].state = "end"
        \/ \E n \in DOMAIN radio :
             /\ Len(radio') = 1 /\ radio'[1] = radio[n]
             /\ \A j \in DOMAIN radio : j # n => radio[j].state = "end"
        \/ radio' = radio
        BY <1>2, StillOnIs
  <2> QED BY <2>1, <2>2, <2>3
<1>4. CASE k = Len(queue) + 1
  <2>1. radio[1].state = "incoming"
        BY <1>1, <1>4 DEF Expects, OnNetwork
  <2> QED BY <1>2, <1>3, <2>1 DEF There
<1>5. CASE k \in 0..Len(queue)
  <2>1. Expects(queue, late_status, k)
        BY <1>1, <1>5 DEF Expects, OnNetwork
  <2>2. CASE EndAfter(queue, k)
        BY <1>1, <2>2 DEF EndAfter, OnNetwork
  <2>3. CASE EndPending
    <3>1. Len(queue) + 1 \in 1..Len(queue') /\ Len(queue) + 1 > k
          BY <1>1, <1>5
    <3>2. OnNetwork(queue', Len(queue) + 1, Over)
          BY <1>1, <2>3 DEF OnNetwork, EndPending
    <3> QED BY <3>1, <3>2 DEF EndAfter
  <2> QED BY <1>3, <1>5, <2>1, <2>2, <2>3
<1> QED BY <1>1, <1>4, <1>5

LEMMA RingsNext ==
  ASSUME TypeInv, CallsInv, RingsInStep, RingsInv, [Next]_vars
  PROVE  RingsInv'
<1> SUFFICES ASSUME Without({"third", "digit", "early"})'
             PROVE  /\ RingsTogether'
                    /\ \A k \in 0..Len(queue') :
                         Expects(queue', late_status', k)
                           => (There \/ EndPending)' \/ EndAfter(queue', k)
    BY DEF RingsInv
<1>1. /\ RingsTogether
      /\ \A k \in 0..Len(queue) :
           Expects(queue, late_status, k) => There \/ EndPending \/ EndAfter(queue, k)
      BY Kept DEF RingsInv
<1>2. /\ Without({"third", "digit"})' /\ Without({"third"})' /\ Without({"early"})'
      BY DEF Without
<1>3. RingsTogether'
      BY <1>1, <1>2, RingsTogetherNext
<1> SUFFICES ASSUME NEW k \in 0..Len(queue'), Expects(queue', late_status', k)
             PROVE  (There \/ EndPending)' \/ EndAfter(queue', k)
    BY <1>3
<1>4. CASE Indicates
      BY <1>1, <1>4, RingsIndicated
<1>5. CASE Answers
      BY <1>2, <1>5, AnswerHushes DEF NothingExpected, TypeInv
<1>6. CASE ~Indicates /\ ~Answers
  <2>1. PICK m \in 0..Len(queue) :
          /\ Expects(queue, late_status, m)
          /\ EndAfter(queue, m) => EndAfter(queue', k)
        BY <1>1, <1>2, <1>6, Causes DEF OldCause, TypeInv
  <2> QED BY <1>1, <1>6, <2>1, ThereGoesOn
<1> QED BY <1>4, <1>5, <1>6

LEMMA CallsInit == Init => CallsInv
BY VoiceAssumption
DEF Init, CallsInv, Numbered, Unanswered, OneCall, TwoCalls, Apart, ThirdWaits, NoInfo

LEMMA CallsHold == Spec => [](TypeInv /\ CallsInv)
<1>1. TypeInv /\ CallsInv /\ [Next]_vars => (TypeInv /\ CallsInv)'
      BY TypeNext, CallsNext
<1> QED BY <1>1, TypeInit, CallsInit, PTL DEF Spec

\* The phone rings only for a call (voice_core.c:1174, :1852), unless a key or a lift
\* came at the wrong moment or a hang-up rings for the 3rd call.
THEOREM RingsForACallCorrect == Spec => []RingsForACall
<1> DEFINE Inv == TypeInv /\ CallsInv /\ RingsInStep /\ RingsInv
<1>1. Init => Inv
  <2> SUFFICES ASSUME Init PROVE Inv
      OBVIOUS
  <2>1. RingsInStep /\ RingsInv
        BY DEF Init, RingsInStep, RingsInv, RingsTogether, Expects
  <2> QED BY <2>1, TypeInit, CallsInit
<1>2. Inv /\ [Next]_vars => Inv'
      BY TypeNext, CallsNext, RingsInStepNext, RingsNext
<1>3. Inv => RingsForACall
  <2> SUFFICES ASSUME Inv, Without({"third", "digit", "early"}), Quiet, curr_status = "ring"
               PROVE  There
      BY DEF RingsForACall, There
  <2>1. queue = <<>> /\ Len(queue) = 0 /\ late_status = "ring" /\ ~news
        BY DEF Quiet, RingsInStep
  <2>2. Expects(queue, late_status, 0) /\ 0 \in 0..Len(queue)
        BY <2>1 DEF Expects
  <2>3. ~EndPending /\ ~EndAfter(queue, 0)
        BY <2>1 DEF EndPending, EndAfter
  <2> QED BY <2>2, <2>3 DEF RingsInv
<1> HIDE DEF Inv
<1> QED BY <1>1, <1>2, <1>3, PTL DEF Spec

-----------------------------------------------------------------------------
\* An answered call is not missed.

\* A call that was answered is over, and a newer one is the 3rd call.
Spared(info) == info.id \in answered => info.state \in Over /\ g_third.id > info.id

NoneMissed ==
  /\ Spared(g_call) /\ \A i \in DOMAIN radio : Spared(radio[i])
  /\ Len(radio) = 2 => radio[1].id \notin answered

\* So it is while the phone rings, or will, and when the ringing stops.
MissedInv ==
  Without({"third", "early"}) =>
    /\ \A k \in 0..Len(queue) : Expects(queue, late_status, k) => NoneMissed
    /\ thread = "compare" /\ curr_status = "ring" /\ late_status = "idle" => NoneMissed

LEMMA ThirdKept ==
  ASSUME TypeOK, [Next]_vars, ~Indicates
  PROVE  g_third'.id = g_third.id
BY DEF Next, vars, VoiceThread, Modem, Phone, OnHook, OffHook, Digit, IncomingCall,
       CallProgress, CallConnected, CallEnded, NoChange, ToIdle, ToRing, ToWait, ToDialing,
       ToAlerting, ToConversation, Changes, Commit, AlarmFires, WaitTimeout, ModemOffers,
       ModemGoesOn, ModemEnds, ModemRepeats, LiftHook, HangUp, PressKey, FromPhone, al,
       TypeOK, CallInfo

\* The modem gets no call that was answered before, and what is over stays so.
LEMMA NoneMissedStays ==
  ASSUME TypeInv, CallsInv, [Next]_vars, ~Indicates, ~Answers, NoneMissed
  PROVE  NoneMissed'
<1> USE DEF Answers
<1>1. g_third'.id = g_third.id
      BY ThirdKept DEF TypeInv
<1>2. CASE RadioStays
      BY <1>1, <1>2 DEF RadioStays, NoneMissed, Spared
<1>3. CASE RadioEnds
  <2>1. PICK id, state : state \in Over /\ radio' = Ended(id, state)
        BY <1>3 DEF RadioEnds
  <2>2. /\ DOMAIN radio' = DOMAIN radio /\ Len(radio') = Len(radio)
        /\ \A i \in DOMAIN radio :
             /\ radio'[i].id = radio[i].id
             /\ radio'[i].state = IF radio[i].id = id THEN state
                                  ELSE IF radio[i].state = "waiting" THEN "incoming"
                                  ELSE radio[i].state
        BY <2>1, EndedIs, RadioFacts DEF TypeInv, SameCalls, Over, CallState
  <2>3. Len(radio) = 2 => 1 \in DOMAIN radio
        BY RadioDomain DEF TypeInv
  <2>4. \A i \in DOMAIN radio : radio[i].state \in Over => radio'[i].state \in Over
        BY <2>1, <2>2 DEF Over
  <2> QED BY <1>1, <1>3, <2>2, <2>3, <2>4 DEF RadioEnds, NoneMissed, Spared
<1>4. used.calls \in Nat /\ used.calls + 1 \notin answered
      BY DEF CallsInv, Numbered, TypeInv, TypeOK
<1>5. CASE AlDial
  <2>1. CASE UNCHANGED <<radio, g_call>>
        BY <1>1, <2>1 DEF NoneMissed, Spared
  <2>2. CASE radio' = <<[id |-> used.calls + 1, state |-> "dialled"]>>
               /\ g_call' = [g_call EXCEPT !.id = used.calls + 1]
    <3>1. Len(radio') = 1 /\ \A i \in DOMAIN radio' : radio'[i].id = used.calls + 1
          BY <2>2
    <3>2. g_call'.id = used.calls + 1
          BY <2>2 DEF TypeInv, TypeOK, CallInfo
    <3> QED BY <1>4, <3>1, <3>2 DEF NoneMissed, Spared
  <2> QED BY <1>5, <2>1, <2>2 DEF AlDial
<1>6. CASE ModemOffers
  <2>1. UNCHANGED g_call /\ 1 \in DOMAIN radio' /\ radio'[1].id = used.calls + 1
        BY <1>6, OfferIs DEF ModemOffers, al
  <2>2. \A i \in DOMAIN radio' :
          i = 1 \/ (Len(radio) = 1 /\ radio'[i] = radio[1])
        BY <1>6, OfferIs
  <2>3. Len(radio) = 1 => 1 \in DOMAIN radio
        BY RadioDomain DEF TypeInv
  <2> QED BY <1>1, <1>4, <2>1, <2>2, <2>3 DEF NoneMissed, Spared
<1>7. CASE ModemGoesOn
  <2>1. PICK i \in DOMAIN radio, to \in CallState :
          /\ radio' = With(radio[i].id, to)
          /\ radio[i].state \in {"dialled", "originating", "alerting"}
        BY <1>7 DEF ModemGoesOn, CallState
  <2>2. Len(radio) = 1 /\ \A j \in DOMAIN radio : j = 1
        BY <1>7, CallsGoOn, RadioDomain DEF TypeInv
  <2>3. /\ DOMAIN radio' = DOMAIN radio /\ Len(radio') = Len(radio)
        /\ \A j \in DOMAIN radio : radio'[j].id = radio[j].id
        BY <2>1, WithIs, RadioFacts DEF TypeInv, SameCalls
  <2>4. \A j \in DOMAIN radio' : radio'[j].id \notin answered
        BY <2>1, <2>2, <2>3 DEF NoneMissed, Spared, Over
  <2> QED BY <1>1, <1>7, <2>2, <2>3, <2>4 DEF ModemGoesOn, al, NoneMissed, Spared
<1> QED BY <1>2, <1>3, <1>5, <1>6, <1>7, RadioMoves

\* An indication copies the modem's calls; a newer one becomes the 3rd call.
LEMMA IndicationSpares ==
  ASSUME TypeInv, CallsInv, Indicates,
         \A i \in DOMAIN radio : radio[i].id \in answered =>
           radio[i].state \in Over /\ (Len(radio) # 2 => g_third.id > radio[i].id),
         Len(radio) = 2 => radio[1].id \notin answered
  PROVE  NoneMissed'
<1>1. /\ radio # <<>> /\ RadioTyped /\ UNCHANGED answered /\ 1 \in DOMAIN radio
      /\ radio' = StillOn(1) \o StillOn(2)
      BY RadioFacts, RadioDomain DEF Indicates, TypeInv, history
<1>2. \A i \in DOMAIN radio :
        radio[i].id \in answered => radio[i].state \in Over /\ g_third'.id > radio[i].id
  <2>1. CASE Len(radio) = 2
    <3>1. g_third' = radio[1] /\ radio[1].id > radio[2].id
          BY <2>1 DEF Indicates, CallsInv, TwoCalls
    <3>2. \A i \in DOMAIN radio : i = 1 \/ i = 2
          BY <2>1, RadioDomain DEF TypeInv
    <3> QED BY <2>1, <3>1, <3>2
  <2>2. CASE Len(radio) # 2
        BY <2>2 DEF Indicates
  <2> QED BY <2>1, <2>2
<1>3. \E i \in DOMAIN radio : g_call' = radio[i]
      BY <1>1, RadioDomain DEF Indicates, TypeInv
<1>4. /\ \A i \in DOMAIN radio' : \E j \in DOMAIN radio : radio'[i] = radio[j]
      /\ Len(radio') = 2 => radio' = radio
  <2>1. CASE radio' = radio
        BY <2>1
  <2>2. CASE radio' = <<>>
        BY <2>2
  <2>3. ASSUME NEW i \in DOMAIN radio, Len(radio') = 1, radio'[1] = radio[i]
        PROVE  /\ \A j \in DOMAIN radio' : \E n \in DOMAIN radio : radio'[j] = radio[n]
               /\ Len(radio') = 2 => radio' = radio
    <3>1. radio' \in Seq(CallInfo)
          BY <1>1, StillOnIs
    <3>2. \A j \in DOMAIN radio' : j = 1
          BY <2>3, <3>1
    <3> QED BY <2>3, <3>2
  <2> QED BY <1>1, <2>1, <2>2, <2>3, StillOnIs
<1> QED BY <1>1, <1>2, <1>3, <1>4 DEF NoneMissed, Spared

LEMMA ExpectsIndicated ==
  ASSUME TypeInv, CallsInv, Indicates,
         NEW k \in 0..Len(queue'), Expects(queue', late_status', k),
         k \in 0..Len(queue) /\ Expects(queue, late_status, k) => NoneMissed
  PROVE  NoneMissed'
<1>1. /\ Len(queue) \in Nat /\ Len(queue') = Len(queue) + 1
      /\ \A j \in 1..Len(queue) : queue'[j] = queue[j]
      /\ queue'[Len(queue) + 1] = [from |-> "network", state |-> radio[1].state]
      /\ late_status' = late_status
      BY AppendedIs DEF Indicates, TypeInv, TypeOK, core
<1>2. CASE k \in 0..Len(queue)
  <2>1. Expects(queue, late_status, k)
        BY <1>1, <1>2 DEF Expects, OnNetwork
  <2>2. NoneMissed
        BY <1>2, <2>1
  <2> QED BY <2>2, IndicationSpares DEF NoneMissed, Spared
<1>3. CASE k = Len(queue) + 1
  <2>1. radio[1].state = "incoming" /\ 1 \in DOMAIN radio /\ radio[1].id \notin answered
        BY <1>1, <1>3, RadioDomain
        DEF Expects, OnNetwork, Indicates, TypeInv, CallsInv, Unanswered
  <2>2. CASE Len(radio) # 2
    <3>1. \A i \in DOMAIN radio : i = 1
          BY <2>2, RadioDomain DEF TypeInv
    <3> QED BY <2>1, <2>2, <3>1, IndicationSpares
  <2>3. CASE Len(radio) = 2
    <3>1. radio[2].state \in Over
          BY <2>1, <2>3 DEF CallsInv, TwoCalls, Over
    <3>2. \A i \in DOMAIN radio : i = 1 \/ i = 2
          BY <2>3, RadioDomain DEF TypeInv
    <3> QED BY <2>1, <2>3, <3>1, <3>2, IndicationSpares
  <2> QED BY <2>2, <2>3
<1> QED BY <1>1, <1>2, <1>3

\* The ringing stops for the end of the call it rang for.
LEMMA StopsRinging ==
  ASSUME TypeInv, RingsInStep, [Next]_vars, Without({"third"})',
         (thread = "compare" /\ curr_status = "ring" /\ late_status = "idle")',
         ~(thread = "compare" /\ curr_status = "ring" /\ late_status = "idle")
  PROVE  Expects(queue, late_status, 0) /\ ~Indicates /\ ~Answers
<1> USE DEF core, modem, al, timers, history
<1>1. CallEnded
  <2>1. ~OnHook /\ ~OffHook
        BY DEF OnHook, OffHook, Ignored, RingsInStep, Takes, Slips, Without
  <2>2. ~Digit
        BY DEF Digit, DialDigit, DtmfDigit, Takes
  <2>3. ~IncomingCall /\ ~CallProgress /\ ~CallConnected
        BY DEF IncomingCall, CallProgress, CallConnected, Takes, RingsInStep
  <2>4. ~(NoChange \/ Commit \/ ToIdle \/ ToRing \/ ToWait \/ ToDialing \/ ToAlerting
            \/ ToConversation)
        BY DEF NoChange, Commit, ToIdle, ToRing, ToWait, ToDialing, ToAlerting,
               ToConversation, Changes
  <2>5. ~AlarmFires /\ ~WaitTimeout
        BY DEF AlarmFires, WaitTimeout, ForcesIdle
  <2>6. ~Modem /\ ~Phone /\ ~UNCHANGED vars
        BY DEF Modem, ModemOffers, ModemGoesOn, ModemEnds, ModemRepeats, Indicates, Phone,
               LiftHook, HangUp, PressKey, FromPhone, vars
  <2> QED BY <2>1, <2>2, <2>3, <2>4, <2>5, <2>6 DEF Next, VoiceThread
<1>2. thread = "loop" /\ curr_status = "ring" /\ late_status = "ring"
      BY <1>1 DEF CallEnded, Takes, RingsInStep
<1>3. ~Indicates /\ ~Answers
      BY <1>1 DEF CallEnded, Indicates, Answers
<1> QED BY <1>2, <1>3 DEF Expects

LEMMA MissedNext ==
  ASSUME TypeInv, CallsInv, RingsInStep, MissedInv, [Next]_vars
  PROVE  MissedInv'
<1> DEFINE Stops == thread = "compare" /\ curr_status = "ring" /\ late_status = "idle"
<1> SUFFICES ASSUME Without({"third", "early"})'
             PROVE  /\ \A k \in 0..Len(queue') :
                         Expects(queue', late_status', k) => NoneMissed'
                    /\ Stops' => NoneMissed'
    BY DEF MissedInv
<1>1. /\ \A k \in 0..Len(queue) : Expects(queue, late_status, k) => NoneMissed
      /\ Stops => NoneMissed
      BY Kept DEF MissedInv
<1>2. Without({"third"})' /\ Without({"early"})' /\ TypeOK
      BY DEF Without, TypeInv
<1>3. ASSUME NEW k \in 0..Len(queue'), Expects(queue', late_status', k)
      PROVE  NoneMissed'
  <2>1. CASE Indicates
        BY <1>1, <1>3, <2>1, ExpectsIndicated
  <2>2. CASE Answers
        BY <1>2, <1>3, <2>2, AnswerHushes DEF NothingExpected
  <2>3. CASE ~Indicates /\ ~Answers
    <3>1. NoneMissed
          BY <1>1, <1>2, <1>3, <2>3, Causes DEF OldCause
    <3> QED BY <2>3, <3>1, NoneMissedStays
  <2> QED BY <2>1, <2>2, <2>3
<1>4. ASSUME Stops'
      PROVE  NoneMissed'
  <2>1. CASE Stops
    <3>1. CASE Indicates
          BY <1>1, <2>1, <3>1, IndicationSpares DEF NoneMissed, Spared
    <3>2. ~Answers
      <4>1. ~ToConversation
            BY <1>4 DEF ToConversation, Changes
      <4> QED BY <4>1
          DEF Answers, Next, vars, VoiceThread, Modem, Phone, OnHook, OffHook, Digit,
              IncomingCall, CallProgress, CallConnected, CallEnded, NoChange, ToIdle, ToRing,
              ToWait, ToDialing, ToAlerting, Commit, AlarmFires, WaitTimeout,
              ModemOffers, ModemGoesOn, ModemEnds, ModemRepeats, Indicates, LiftHook, HangUp,
              PressKey, FromPhone, history
    <3> QED BY <1>1, <2>1, <3>1, <3>2, NoneMissedStays
  <2>2. CASE ~Stops
    <3>1. Expects(queue, late_status, 0) /\ ~Indicates /\ ~Answers
          BY <1>2, <1>4, <2>2, StopsRinging
    <3>2. 0 \in 0..Len(queue)
          BY <1>2 DEF TypeOK
    <3> QED BY <1>1, <3>1, <3>2, NoneMissedStays
  <2> QED BY <2>1, <2>2
<1> QED BY <1>3, <1>4

\* A call the user answered is never recorded as missed (voice_core.c:1114, :1803),
\* unless a hang-up rings for the 3rd call, a lift came too early, or the phone rings
\* for a 3rd call beside one that is over.
THEOREM AnsweredNotMissedCorrect == Spec => AnsweredNotMissed
<1> DEFINE Inv == TypeInv /\ CallsInv /\ RingsInStep /\ MissedInv
           Step == Without({"third", "early"})' /\ ~RingsBeside
                     /\ records' # records /\ MissedRecord(records')
                     => Last(records').id \notin answered
<1>1. Init => Inv
  <2> SUFFICES ASSUME Init PROVE Inv
      OBVIOUS
  <2>1. RingsInStep /\ MissedInv
        BY DEF Init, RingsInStep, MissedInv, Expects
  <2> QED BY <2>1, TypeInit, CallsInit
<1>2. Inv /\ [Next]_vars => Inv'
      BY TypeNext, CallsNext, RingsInStepNext, MissedNext
<1>3. Inv /\ [Next]_vars => Step
  <2> SUFFICES ASSUME Inv, [Next]_vars, Without({"third", "early"})', ~RingsBeside,
                      records' # records, MissedRecord(records')
               PROVE  Last(records').id \notin answered
      OBVIOUS
  <2>1. Without({"third", "early"})
        BY Kept
  <2>2. ASSUME NEW type \in RecordType, AddRecord(type)
        PROVE  type = "missed" /\ Last(records') = RecordOf("missed")
    <3>1. Last(records') = RecordOf(type)
      <4> DEFINE r == RecordOf(type)
      <4>1. records' = Append(records, r) /\ records \in Seq([type : RecordType, id : Id])
            BY <2>2 DEF AddRecord, TypeInv, TypeOK
      <4> HIDE DEF r
      <4>2. Len(records') = Len(records) + 1 /\ records'[Len(records) + 1] = r
            BY <4>1, AppendedIs
      <4> QED BY <4>2 DEF Last, r
    <3>2. RecordOf(type).type = type
          BY DEF RecordOf
    <3> QED BY <3>1, <3>2 DEF MissedRecord
  <2>3. g_third.state = "waiting" => g_call.state = "conversation" /\ g_third.id \notin answered
        BY DEF CallsInv, ThirdWaits
  <2>4. CASE CallProgress
    <3>1. AddRecord("missed") /\ g_third.state = "waiting"
          BY <2>4 DEF CallProgress
    <3> QED BY <2>2, <2>3, <3>1 DEF RecordType, RecordOf
  <2>5. CASE ToIdle
    <3>1. thread = "compare" /\ late_status = "idle"
          BY <2>5 DEF ToIdle, Changes
    <3>2. \E type \in RecordType : AddRecord(type) /\ (type = "missed" => curr_status = "ring")
          BY <2>5 DEF ToIdle, RecordType
    <3>3. curr_status = "ring" /\ Last(records') = RecordOf("missed")
          BY <2>2, <3>2
    <3>4. g_call.id \notin answered
          BY <2>1, <3>1, <3>3 DEF MissedInv, NoneMissed, Spared, RingsBeside
    <3> QED BY <2>3, <3>3, <3>4 DEF RecordOf
  <2> QED BY <2>4, <2>5
      DEF Next, vars, VoiceThread, Modem, Phone, OnHook, OffHook, Digit, IncomingCall,
          CallConnected, CallEnded, NoChange, ToRing, ToWait, ToDialing, ToAlerting,
          ToConversation, Commit, AlarmFires, WaitTimeout, ModemOffers, ModemGoesOn,
          ModemEnds, ModemRepeats, Indicates, LiftHook, HangUp, PressKey, FromPhone, history
<1> HIDE DEF Inv, Step
<1>4. Spec => [][Step]_vars
      BY <1>1, <1>2, <1>3, PTL DEF Spec
<1> QED BY <1>4, PTL DEF AnsweredNotMissed, Step
=============================================================================
