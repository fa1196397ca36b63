-------------------------- MODULE VoiceTones_proofs --------------------------
(***************************************************************************)
(* Proofs about VoiceTones, for every size of the buffer and every number  *)
(* of keys and hang-ups, and any number of calls that take the place of    *)
(* others: its types, that the DTMF thread waits only for an empty queue,  *)
(* that tones go once and in order to their call and that none is skipped, *)
(* each as long as the weak spot it names is not hit.                      *)
(***************************************************************************)
EXTENDS VoiceTones, TLAPS

\* head stays in the buffer while it is incremented, whoever clears it.
Indices ==
  /\ dtmf \in Sending => head < MaxDtmf
  /\ dtmf = "write" => old < MaxDtmf

Typed == TypeOK /\ Indices

\* Asleep or on its way there, the DTMF thread has nothing to do, unless the
\* voice thread is between a key and its signal, or clears the queue.
Asleep ==
  Without({"lost"}) /\ dtmf \in {"sleep", "waiting"} /\ voice = "loop"
    => head >= tail

\* Up to tail the buffer holds the keys since the last hang-up, all of them, and
\* up to head they have been sent; from head on they are keys of the call, or
\* were when another one took its place.
HoldsTheseKeys ==
  \A i \in 0..(tail - 1) : /\ dtmf_num[i] \in DOMAIN pressed
                           /\ pressed[dtmf_num[i]] = hangups
InTheCall == \A i \in 0..(tail - 1) : head <= i => dtmf_num[i] \in call \cup handed
HoldsEveryKey ==
  \A k \in DOMAIN pressed : pressed[k] = hangups => \E i \in 0..(tail - 1) : dtmf_num[i] = k
SentUpToHead ==
  \A i \in 0..(tail - 1) : i < head => dtmf_num[i] \in SentKeys

\* head is never beyond tail, and 0 while the queue is being cleared.
HeadBehind == head <= tail /\ (voice = "tail" => head = 0)

\* A tone being sent is the one at head, and is in it until head goes on.
SendsTheHead ==
  /\ dtmf \in Sending => voice # "tail" /\ head < tail
  /\ dtmf = "start" => digit = dtmf_num[head]
  /\ dtmf \in {"stop", "inc", "write"} => dtmf_num[head] \in SentKeys
  /\ dtmf = "write" => old = head

SentInTheirCall ==
  \A i \in DOMAIN sent : sent[i].key \notin {0} \cup handed => sent[i].own

Uncut ==
  Without({"cut"}) =>
    /\ voice # "tail" => HoldsTheseKeys /\ InTheCall /\ HoldsEveryKey /\ SentUpToHead
    /\ HeadBehind /\ SendsTheHead /\ SentInTheirCall

\* No key comes after more hang-ups than there were, and a hang-up after the keys.
PressedSoFar ==
  \A k \in DOMAIN pressed : /\ pressed[k] <= hangups
                            /\ voice = "tail" => pressed[k] < hangups

Inv == Typed /\ Asleep /\ PressedSoFar /\ Uncut

-----------------------------------------------------------------------------

\* A tone that is sent goes to the end of those sent before it.
Tone == [key : 0..MaxKeys, own : BOOLEAN]

LEMMA SentAppend ==
  ASSUME NEW S, NEW s \in Seq(S), NEW e \in S
  PROVE  /\ Append(s, e) \in Seq(S)
         /\ DOMAIN Append(s, e) = DOMAIN s \cup {Len(s) + 1}
         /\ \A i \in DOMAIN s : Append(s, e)[i] = s[i]
         /\ Append(s, e)[Len(s) + 1] = e
OBVIOUS

LEMMA TypedInit == Init => Typed
BY TonesAssumption DEF Init, Typed, TypeOK, Indices, Sending, Key

LEMMA TypedNext == Typed /\ [Next]_vars => Typed'
<1> SUFFICES ASSUME Typed, [Next]_vars
             PROVE  Typed'
    OBVIOUS
<1> USE TonesAssumption DEF Typed, TypeOK, Indices, Sending, Slip, queue, dtmfThread, phone
<1>1. CASE AddTone
  <2>1. pressed' = Append(pressed, hangups) /\ call' = call \cup {Len(pressed')}
        BY <1>1 DEF AddTone
  <2>2. pressed' \in Seq(0..MaxHangups) /\ Len(pressed') = Len(pressed) + 1
        BY <2>1
  <2>2a. call' \subseteq Key
    <3>1. Len(pressed) + 1 \in Key
          BY <1>1 DEF AddTone, Key
    <3>2. Len(pressed') = Len(pressed) + 1
          BY <2>2
    <3> QED BY ONLY <2>1, <3>1, <3>2, call \subseteq Key
  <2>3. dtmf_num' \in [0..MaxDtmf -> 0..MaxKeys] /\ tail' \in 0..MaxDtmf
        BY <1>1, <2>2 DEF AddTone, HasRoom
  <2> QED BY <1>1, <2>2, <2>2a, <2>3 DEF AddTone
<1>2. CASE SignalTone
      BY <1>2 DEF SignalTone, DigitAtHead
<1>3. CASE ClearHead
      BY <1>3 DEF ClearHead, ClearedHead
<1>4. CASE ClearTail
      BY <1>4 DEF ClearTail, ClearedTail
<1>5. CASE TestEmpty
      BY <1>5 DEF TestEmpty
<1>6. CASE Sleeps
      BY <1>6 DEF Sleeps
<1>7. CASE WakesSpuriously
      BY <1>7 DEF WakesSpuriously
<1>8. CASE SeesTone
      BY <1>8 DEF SeesTone
<1>9. CASE NoTone
      BY <1>9 DEF NoTone
<1>10. CASE TakesTone
      BY <1>10 DEF TakesTone
<1>11. CASE StartTone
  <2>1. [key |-> digit, own |-> digit \in call] \in Tone /\ sent \in Seq(Tone)
        BY DEF Tone
  <2>2. Append(sent, [key |-> digit, own |-> digit \in call]) \in Seq(Tone)
        BY ONLY <2>1, SentAppend
  <2>3. sent' \in Seq(Tone)
        BY <1>11, <2>1, <2>2 DEF StartTone
  <2> QED BY <1>11, <2>3 DEF StartTone, Tone
<1>12. CASE StopTone
      BY <1>12 DEF StopTone
<1>13. CASE ReadHead
      BY <1>13 DEF ReadHead
<1>14. CASE WriteHead
      BY <1>14 DEF WriteHead, NextHead
<1>15. CASE CallChanges
      BY <1>15 DEF CallChanges
<1>16. CASE UNCHANGED vars
      BY <1>16 DEF vars
<1> QED
    BY <1>1, <1>2, <1>3, <1>4, <1>5, <1>6, <1>7, <1>8, <1>9, <1>10, <1>11, <1>12,
       <1>13, <1>14, <1>15, <1>16 DEF Next, VoiceThread, DtmfThread

-----------------------------------------------------------------------------

LEMMA AsleepNext == Typed /\ Asleep /\ [Next]_vars => Asleep'
<1> SUFFICES ASSUME Typed, Asleep, [Next]_vars
             PROVE  Asleep'
    OBVIOUS
<1> USE TonesAssumption DEF Typed, TypeOK, Asleep, Without, Sending, queue, dtmfThread, phone
<1>1. CASE AddTone
      BY <1>1 DEF AddTone
<1>2. CASE SignalTone
      BY <1>2 DEF SignalTone, DigitAtHead
<1>3. CASE ClearHead
      BY <1>3 DEF ClearHead, ClearedHead
<1>4. CASE ClearTail
      BY <1>4 DEF ClearTail, ClearedTail
<1>5. CASE TestEmpty
      BY <1>5 DEF TestEmpty
<1>6. CASE Sleeps
      BY <1>6 DEF Sleeps
<1>7. CASE WakesSpuriously \/ SeesTone \/ NoTone \/ TakesTone \/ ReadHead \/ WriteHead
      BY <1>7 DEF WakesSpuriously, SeesTone, NoTone, TakesTone, ReadHead, WriteHead
<1>8. CASE StartTone \/ StopTone
      BY <1>8 DEF StartTone, StopTone
<1>9. CASE CallChanges
      BY <1>9 DEF CallChanges
<1>10. CASE UNCHANGED vars
      BY <1>10 DEF vars
<1> QED
    BY <1>1, <1>2, <1>3, <1>4, <1>5, <1>6, <1>7, <1>8, <1>9, <1>10
    DEF Next, VoiceThread, DtmfThread

-----------------------------------------------------------------------------
\* The tones that were sent stay sent.

LEMMA StartedTone ==
  ASSUME Typed, StartTone
  PROVE  \/ /\ dtmf' = "stop"
            /\ SentKeys' = SentKeys \cup {digit}
            /\ \A i \in DOMAIN sent' :
                 \/ i \in DOMAIN sent /\ sent'[i] = sent[i]
                 \/ sent'[i] = [key |-> digit, own |-> digit \in call]
         \/ dtmf' = "dead" /\ sent' = sent
<1>1. CASE dtmf' = "dead" /\ sent' = sent
      BY <1>1
<1>2. CASE dtmf' = "stop" /\ sent' = Append(sent, [key |-> digit, own |-> digit \in call])
  <2> DEFINE tone == [key |-> digit, own |-> digit \in call]
  <2>1. tone \in Tone /\ sent \in Seq(Tone)
        BY DEF Tone, Typed, TypeOK
  <2>2. tone.key = digit
        OBVIOUS
  <2>3. sent' = Append(sent, tone)
        BY <1>2
  <2> HIDE DEF tone
  <2>4. /\ DOMAIN sent' = DOMAIN sent \cup {Len(sent) + 1}
        /\ \A i \in DOMAIN sent : sent'[i] = sent[i]
        /\ sent'[Len(sent) + 1] = tone
        BY ONLY <2>1, <2>3, SentAppend
  <2>5. SentKeys' = SentKeys \cup {digit}
    <3>1. SentKeys' = {sent'[i].key : i \in DOMAIN sent'}
          BY DEF SentKeys
    <3>2. SentKeys = {sent[i].key : i \in DOMAIN sent}
          BY DEF SentKeys
    <3> QED BY ONLY <2>2, <2>4, <3>1, <3>2
  <2>6. \A i \in DOMAIN sent' : \/ i \in DOMAIN sent /\ sent'[i] = sent[i]
                               \/ sent'[i] = tone
        BY ONLY <2>4
  <2> QED BY <1>2, <2>5, <2>6 DEF tone
<1> QED BY <1>1, <1>2 DEF StartTone

\* A key that is pressed comes after all others, at tail in the buffer.
LEMMA PressedKey ==
  ASSUME Typed, AddTone
  PROVE  /\ Len(pressed) \in Nat /\ Len(pressed) + 1 \notin DOMAIN pressed
         /\ DOMAIN pressed' = DOMAIN pressed \cup {Len(pressed) + 1}
         /\ \A k \in DOMAIN pressed : pressed'[k] = pressed[k]
         /\ pressed'[Len(pressed) + 1] = hangups
         /\ call' = call \cup {Len(pressed) + 1}
         /\ dtmf_num'[tail] = Len(pressed) + 1
         /\ \A i \in 0..(tail - 1) : dtmf_num'[i] = dtmf_num[i]
         /\ tail' = tail + 1 /\ tail \in Nat
<1>1. hangups \in 0..MaxHangups /\ pressed \in Seq(0..MaxHangups)
      BY TonesAssumption DEF Typed, TypeOK
<1>2. pressed' = Append(pressed, hangups) /\ call' = call \cup {Len(pressed')}
      BY DEF AddTone
<1>3. /\ Len(pressed') = Len(pressed) + 1
      /\ DOMAIN pressed' = DOMAIN pressed \cup {Len(pressed) + 1}
      /\ \A k \in DOMAIN pressed : pressed'[k] = pressed[k]
      /\ pressed'[Len(pressed) + 1] = hangups
      /\ Len(pressed) \in Nat /\ DOMAIN pressed = 1..Len(pressed)
      BY ONLY <1>1, <1>2, SentAppend
<1>4. /\ dtmf_num' = [dtmf_num EXCEPT ![tail] = Len(pressed) + 1]
      /\ tail \in 0..MaxDtmf /\ DOMAIN dtmf_num = 0..MaxDtmf
      BY <1>3 DEF AddTone, Typed, TypeOK
<1>5. \A i \in 0..(tail - 1) : i \in DOMAIN dtmf_num /\ i # tail
      BY <1>4, TonesAssumption
<1> QED
    BY <1>2, <1>3, <1>4, <1>5, TonesAssumption DEF AddTone

LEMMA PressedNext == Typed /\ PressedSoFar /\ [Next]_vars => PressedSoFar'
<1> SUFFICES ASSUME Typed, PressedSoFar, [Next]_vars
             PROVE  PressedSoFar'
    OBVIOUS
<1> USE TonesAssumption DEF Typed, TypeOK, PressedSoFar
<1>1. CASE AddTone
      BY <1>1, PressedKey DEF AddTone
<1>2. CASE ClearHead
      BY <1>2 DEF ClearHead
<1>3. CASE ClearTail
      BY <1>3 DEF ClearTail, phone
<1>4. CASE UNCHANGED <<pressed, hangups>> /\ (voice' = "tail" => voice = "tail")
      BY <1>4
<1> QED
    BY <1>1, <1>2, <1>3, <1>4
    DEF Next, vars, queue, dtmfThread, phone, VoiceThread, DtmfThread, SignalTone,
        WakesSpuriously, TestEmpty, Sleeps, SeesTone, NoTone, TakesTone, StartTone,
        StopTone, ReadHead, WriteHead, CallChanges

-----------------------------------------------------------------------------
\* While no hang-up has met a tone on its way, the buffer is this hang-up's.

LEMMA UncutAddTone == Typed /\ PressedSoFar /\ Uncut /\ AddTone => Uncut'
<1> SUFFICES ASSUME Typed, PressedSoFar, Uncut, AddTone, Without({"cut"})'
             PROVE  /\ HoldsTheseKeys' /\ InTheCall' /\ HoldsEveryKey' /\ SentUpToHead'
                    /\ HeadBehind' /\ SendsTheHead' /\ SentInTheirCall'
    BY DEF Uncut
<1>1. /\ HoldsTheseKeys /\ InTheCall /\ HoldsEveryKey /\ SentUpToHead
      /\ HeadBehind /\ SendsTheHead /\ SentInTheirCall
      BY DEF Uncut, Without, AddTone
<1>2. /\ UNCHANGED <<head, hangups, handed, dtmf, digit, old, sent>> /\ voice' = "signal"
      /\ head \in Nat
      BY DEF AddTone, dtmfThread, Typed, TypeOK
<1>3. \A i \in 0..(tail' - 1) : i \in 0..(tail - 1) \/ i = tail
      BY PressedKey
<1>4. HoldsTheseKeys'
      BY <1>1, <1>2, <1>3, PressedKey DEF HoldsTheseKeys
<1>4a. InTheCall'
      BY <1>1, <1>2, <1>3, PressedKey DEF InTheCall
<1>5. HoldsEveryKey'
  <2> SUFFICES ASSUME NEW k \in DOMAIN pressed', pressed'[k] = hangups
               PROVE  \E i \in 0..(tail' - 1) : dtmf_num'[i] = k
      BY <1>2 DEF HoldsEveryKey
  <2>1. CASE k = Len(pressed) + 1
        BY <2>1, PressedKey
  <2>2. CASE k \in DOMAIN pressed
    <3>1. PICK i \in 0..(tail - 1) : dtmf_num[i] = k
          BY <1>1, <2>2, PressedKey DEF HoldsEveryKey
    <3> QED BY <3>1, PressedKey
  <2> QED BY <2>1, <2>2, PressedKey
<1>6. SentKeys' = SentKeys
      BY <1>2 DEF SentKeys
<1>7. HeadBehind'
      BY <1>1, <1>2, PressedKey DEF HeadBehind
<1>8. SentUpToHead'
  <2> SUFFICES ASSUME NEW i \in 0..(tail' - 1), i < head
               PROVE  dtmf_num'[i] \in SentKeys
      BY <1>2, <1>6 DEF SentUpToHead
  <2> QED BY <1>1, <1>2, <1>3, PressedKey DEF SentUpToHead, HeadBehind
<1>9. SendsTheHead'
  <2>1. dtmf \in Sending => head \in 0..(tail - 1) /\ dtmf_num'[head] = dtmf_num[head]
        BY <1>1, <1>2, PressedKey DEF SendsTheHead
  <2> QED BY <1>1, <1>2, <1>6, <2>1, PressedKey DEF SendsTheHead, Sending
<1>10. SentInTheirCall'
       BY <1>1, <1>2, PressedKey DEF SentInTheirCall
<1> QED BY <1>4, <1>4a, <1>5, <1>7, <1>8, <1>9, <1>10

LEMMA UncutClearTail == Typed /\ PressedSoFar /\ Uncut /\ ClearTail => Uncut'
<1> SUFFICES ASSUME Typed, PressedSoFar, Uncut, ClearTail, Without({"cut"})'
             PROVE  /\ HoldsTheseKeys' /\ InTheCall' /\ HoldsEveryKey' /\ SentUpToHead'
                    /\ HeadBehind' /\ SendsTheHead' /\ SentInTheirCall'
    BY DEF Uncut
<1>1. /\ voice = "tail" /\ voice' = "loop" /\ tail' = 0
      /\ UNCHANGED <<head, dtmf_num, dtmf, digit, old, sent, call, hangups, pressed, handed>>
      BY DEF ClearTail, ClearedTail, dtmfThread, phone
<1>2. HeadBehind /\ SendsTheHead /\ SentInTheirCall
      BY DEF Uncut, Without, ClearTail
<1>3. HoldsTheseKeys' /\ InTheCall' /\ SentUpToHead'
      BY <1>1 DEF HoldsTheseKeys, InTheCall, SentUpToHead
<1>4. HoldsEveryKey'
  <2>1. \A k \in DOMAIN pressed : pressed[k] \in Nat /\ pressed[k] < hangups /\ hangups \in Nat
        BY <1>1, TonesAssumption DEF Typed, TypeOK, PressedSoFar
  <2>2. \A k \in DOMAIN pressed : pressed[k] # hangups
        BY <2>1
  <2> QED BY <1>1, <2>2 DEF HoldsEveryKey
<1>5. HeadBehind' /\ SendsTheHead'
      BY <1>1, <1>2 DEF HeadBehind, SendsTheHead, Sending
<1>6. SentInTheirCall'
      BY <1>1, <1>2 DEF SentInTheirCall
<1> QED BY <1>3, <1>4, <1>5, <1>6

LEMMA UncutStartTone == Typed /\ Uncut /\ StartTone => Uncut'
<1> SUFFICES ASSUME Typed, Uncut, StartTone, Without({"cut"})'
             PROVE  /\ HoldsTheseKeys' /\ InTheCall' /\ HoldsEveryKey' /\ SentUpToHead'
                    /\ HeadBehind' /\ SendsTheHead' /\ SentInTheirCall'
    BY DEF Uncut, Without, StartTone, Sending
<1>1. /\ dtmf = "start"
      /\ UNCHANGED <<head, tail, dtmf_num, voice, digit, old, call, hangups, pressed, handed>>
      BY DEF StartTone, queue, phone
<1>2. HeadBehind /\ SendsTheHead /\ SentInTheirCall
      BY DEF Uncut, Without, StartTone
<1>3. voice # "tail" /\ head < tail /\ digit = dtmf_num[head] /\ head \in 0..(tail - 1)
      BY <1>1, <1>2 DEF SendsTheHead, Sending, Typed, TypeOK
<1>4. HoldsTheseKeys /\ InTheCall /\ HoldsEveryKey /\ SentUpToHead
      BY <1>3 DEF Uncut, Without, StartTone
<1>5. HoldsTheseKeys' /\ InTheCall' /\ HoldsEveryKey' /\ HeadBehind'
      BY <1>1, <1>2, <1>4 DEF HoldsTheseKeys, InTheCall, HoldsEveryKey, HeadBehind
<1>6. CASE dtmf' = "dead" /\ sent' = sent
      BY <1>1, <1>2, <1>3, <1>4, <1>5, <1>6
      DEF SentUpToHead, SentKeys, SendsTheHead, Sending, SentInTheirCall
<1>7. ASSUME dtmf' = "stop", SentKeys' = SentKeys \cup {digit},
             \A i \in DOMAIN sent' : \/ i \in DOMAIN sent /\ sent'[i] = sent[i]
                                    \/ sent'[i] = [key |-> digit, own |-> digit \in call]
      PROVE  SentUpToHead' /\ SendsTheHead' /\ SentInTheirCall'
  <2>1. SentUpToHead' /\ SendsTheHead'
        BY <1>1, <1>3, <1>4, <1>7 DEF SentUpToHead, SendsTheHead, Sending
  <2>2. digit \in call \cup handed
        BY <1>3, <1>4 DEF InTheCall
  <2>3. SentInTheirCall'
    <3> SUFFICES ASSUME NEW i \in DOMAIN sent', sent'[i].key \notin {0} \cup handed
                 PROVE  sent'[i].own
        BY <1>1 DEF SentInTheirCall
    <3>1. CASE i \in DOMAIN sent /\ sent'[i] = sent[i]
          BY <1>2, <3>1 DEF SentInTheirCall
    <3>2. CASE sent'[i] = [key |-> digit, own |-> digit \in call]
      <4>1. sent'[i].key = digit /\ sent'[i].own = (digit \in call)
            BY <3>2
      <4> QED BY ONLY <2>2, <4>1, sent'[i].key \notin {0} \cup handed
    <3> QED BY <1>7, <3>1, <3>2
  <2> QED BY <2>1, <2>3
<1> QED BY <1>5, <1>6, <1>7, StartedTone

LEMMA UncutNext == Typed /\ PressedSoFar /\ Uncut /\ [Next]_vars => Uncut'
<1> SUFFICES ASSUME Typed, PressedSoFar, Uncut, [Next]_vars
             PROVE  Uncut'
    OBVIOUS
<1> USE DEF Uncut, Without, Sending, HoldsTheseKeys, InTheCall, HoldsEveryKey, SentUpToHead,
            HeadBehind, SendsTheHead, SentInTheirCall, SentKeys, queue, dtmfThread, phone
<1>1. head \in Nat /\ tail \in Nat
      BY DEF Typed, TypeOK
<1>2. CASE SignalTone
      BY <1>1, <1>2 DEF SignalTone
<1>3. CASE ClearHead
      BY <1>1, <1>3 DEF ClearHead, ClearedHead
<1>4. CASE TestEmpty \/ Sleeps \/ WakesSpuriously \/ NoTone
      BY <1>1, <1>4 DEF TestEmpty, Sleeps, WakesSpuriously, NoTone
<1>5. CASE SeesTone
      BY <1>1, <1>5 DEF SeesTone
<1>6. CASE TakesTone
      BY <1>1, <1>6 DEF TakesTone
<1>7. CASE StopTone
      BY <1>1, <1>7 DEF StopTone
<1>8. CASE ReadHead
      BY <1>1, <1>8 DEF ReadHead
<1>9. CASE WriteHead
      BY <1>1, <1>9 DEF WriteHead, NextHead
<1>10. CASE CallChanges
       BY <1>1, <1>10 DEF CallChanges, InQueue
<1>11. CASE UNCHANGED vars
       BY <1>1, <1>11 DEF vars
<1> QED
    BY <1>2, <1>3, <1>4, <1>5, <1>6, <1>7, <1>8, <1>9, <1>10, <1>11, UncutAddTone,
       UncutClearTail, UncutStartTone
    DEF Next, VoiceThread, DtmfThread

-----------------------------------------------------------------------------

LEMMA InvHolds == Spec => []Inv
<1>1. Init => Inv
  <2>1. ASSUME Init
        PROVE  Asleep /\ PressedSoFar /\ Uncut
        BY <2>1 DEF Init, Asleep, PressedSoFar, Uncut, HoldsTheseKeys, InTheCall,
           HoldsEveryKey, SentUpToHead, HeadBehind, SendsTheHead, Sending, SentInTheirCall
  <2> QED BY <2>1, TypedInit DEF Inv
<1>2. Inv /\ [Next]_vars => Inv'
      BY TypedNext, AsleepNext, PressedNext, UncutNext DEF Inv
<1> QED BY <1>1, <1>2, PTL DEF Spec

\* Every index stays in the buffer and every tone is a key of a call
\* (voice_core.c:1641-1653, :1589-1590, voice_al.c:638-675), in every order of
\* the two threads.
THEOREM TypeCorrect == Spec => []TypeOK
<1>1. Inv => TypeOK
      BY DEF Inv, Typed
<1> QED BY <1>1, InvHolds, PTL

\* The DTMF thread waits only for an empty queue (voice_al.c:643-645), unless a
\* key met it between its test and its wait.
THEOREM SleepsCorrect == Spec => []SleepsOverNothing
<1>1. Inv => SleepsOverNothing
      BY DEF Inv, Asleep, SleepsOverNothing, Without
<1> QED BY <1>1, InvHolds, PTL

\* A tone goes to the call in which its key was pressed (voice_al.c:654), unless
\* a hang-up met one on its way; excepted are only the tones that stood in the
\* queue when g_call_info changed with no hang-up before (voice_al.c:332, 343).
THEOREM ToneInItsCallCorrect == Spec => []ToneInItsCall
<1>1. Inv => ToneInItsCall
      BY DEF Inv, Uncut, SentInTheirCall, ToneInItsCall
<1> QED BY <1>1, InvHolds, PTL

\* An empty queue means that every tone since the last
\* hang-up was sent (voice_al.c:648-675,
\* voice_core.c:1589-1590), unless a hang-up met one on its way.
THEOREM NothingSkippedCorrect == Spec => []NothingSkipped
<1>1. Inv => NothingSkipped
  <2> SUFFICES ASSUME Inv, Without({"cut"}), head >= tail, voice # "tail",
                      NEW k \in DOMAIN pressed, pressed[k] = hangups
               PROVE  k \in SentKeys
      BY DEF NothingSkipped
  <2>1. HoldsEveryKey /\ SentUpToHead
        BY DEF Inv, Uncut
  <2>2. PICK i \in 0..(tail - 1) : dtmf_num[i] = k
        BY <2>1 DEF HoldsEveryKey
  <2>3. i < head
        BY DEF Inv, Typed, TypeOK
  <2> QED BY <2>1, <2>2, <2>3 DEF SentUpToHead
<1> QED BY <1>1, InvHolds, PTL

-----------------------------------------------------------------------------
\* The order of the tones.  Up to tail the keys are in the order they were
\* pressed in, even when a hang-up met a tone: what comes after head, or after
\* the place head is about to go to, was pressed after all that was sent.

InBuffer == 0..(tail - 1)
KeysInOrder ==
  \A i \in InBuffer : /\ dtmf_num[i] \in 1..Len(pressed)
                      /\ \A j \in InBuffer : i < j => dtmf_num[i] < dtmf_num[j]
NewFrom(n) == \A i \in InBuffer : n <= i => \A k \in SentKeys : k < dtmf_num[i]
NewerThanDigit == \A i \in InBuffer : head < i => digit < dtmf_num[i]

SentInOrder ==
  /\ \A i \in DOMAIN sent : sent[i].key \in 1..Len(pressed)
  /\ \A i, j \in DOMAIN sent : i < j => sent[i].key < sent[j].key

OrderKept ==
  Without({"window"}) =>
    /\ SentInOrder
    /\ dtmf = "take" => voice # "tail" /\ head < tail
    /\ dtmf = "start" => digit \in 1..Len(pressed) /\ \A k \in SentKeys : k < digit
    /\ voice # "tail" =>
         /\ KeysInOrder
         /\ dtmf \in {"test", "sleep", "waiting", "check", "take"} => NewFrom(head)
         /\ dtmf = "start" => NewerThanDigit
         /\ dtmf \in {"stop", "inc"} => NewFrom(head + 1)
         /\ dtmf = "write" => NewFrom(old + 1)

LEMMA OrderAddTone == Typed /\ OrderKept /\ AddTone => OrderKept'
<1> SUFFICES ASSUME Typed, OrderKept, AddTone, Without({"window"})
             PROVE  OrderKept'
    BY DEF OrderKept, Without, AddTone
<1>1. /\ UNCHANGED <<head, dtmf, digit, old, sent>>
      /\ voice = "loop" /\ voice' = "signal" /\ head \in Nat /\ old \in Nat /\ digit \in Nat
      BY DEF AddTone, dtmfThread, Typed, TypeOK
<1>2. Len(pressed') = Len(pressed) + 1 /\ Len(pressed) \in Nat
      BY DEF AddTone, Typed, TypeOK
<1>3. /\ \A i \in InBuffer' : i \in InBuffer \/ i = tail
      /\ \A i \in InBuffer : i < tail /\ dtmf_num'[i] = dtmf_num[i]
      /\ dtmf_num'[tail] = Len(pressed) + 1
      BY PressedKey DEF InBuffer
<1>4. KeysInOrder /\ SentInOrder
      BY <1>1 DEF OrderKept
<1>5. SentKeys' = SentKeys /\ \A k \in SentKeys : k \in 1..Len(pressed)
      BY <1>1, <1>4 DEF SentKeys, SentInOrder
<1>6. KeysInOrder'
  <2>1. tail \in Nat /\ \A i \in InBuffer : i \in Nat
        BY DEF InBuffer, Typed, TypeOK
  <2> QED BY <1>2, <1>3, <1>4, <2>1 DEF KeysInOrder
<1>7. SentInOrder'
      BY <1>1, <1>2, <1>4 DEF SentInOrder
<1>8. ASSUME NEW n \in Nat, NewFrom(n)
      PROVE  \A i \in InBuffer' : n <= i => \A k \in SentKeys : k < dtmf_num'[i]
      BY <1>2, <1>3, <1>5, <1>8 DEF NewFrom
<1>9. dtmf = "start" => NewerThanDigit'
      BY <1>1, <1>2, <1>3 DEF NewerThanDigit, OrderKept
<1>10. /\ dtmf \in {"test", "sleep", "waiting", "check", "take"} => NewFrom(head)'
       /\ dtmf \in {"stop", "inc"} => NewFrom(head + 1)'
       /\ dtmf = "write" => NewFrom(old + 1)'
       BY <1>1, <1>5, <1>8 DEF NewFrom, OrderKept
<1>11. /\ dtmf = "take" => head < tail'
       /\ dtmf = "start" => digit \in 1..Len(pressed') /\ \A k \in SentKeys : k < digit
       BY <1>1, <1>2, PressedKey DEF OrderKept
<1> QED BY <1>1, <1>5, <1>6, <1>7, <1>9, <1>10, <1>11 DEF OrderKept

LEMMA OrderStartTone == Typed /\ OrderKept /\ StartTone => OrderKept'
<1> SUFFICES ASSUME Typed, OrderKept, StartTone, Without({"window"})
             PROVE  OrderKept'
    BY DEF OrderKept, Without, StartTone
<1>1. /\ dtmf = "start" /\ UNCHANGED <<head, tail, dtmf_num, voice, digit, old, pressed>>
      /\ head \in Nat
      BY DEF StartTone, queue, phone, Typed, TypeOK
<1>2. /\ SentInOrder /\ digit \in 1..Len(pressed) /\ \A k \in SentKeys : k < digit
      /\ voice # "tail" => KeysInOrder /\ NewerThanDigit
      BY <1>1 DEF OrderKept
<1>3. CASE dtmf' = "dead" /\ sent' = sent
      BY <1>1, <1>2, <1>3 DEF OrderKept, SentInOrder, KeysInOrder, InBuffer
<1>4. CASE dtmf' = "stop" /\ sent' = Append(sent, [key |-> digit, own |-> digit \in call])
  <2> DEFINE tone == [key |-> digit, own |-> digit \in call]
  <2>1. tone \in Tone /\ sent \in Seq(Tone) /\ tone.key = digit
        BY DEF Tone, Typed, TypeOK
  <2>2. sent' = Append(sent, tone)
        BY <1>4
  <2> HIDE DEF tone
  <2>3. /\ DOMAIN sent' = DOMAIN sent \cup {Len(sent) + 1}
        /\ \A i \in DOMAIN sent : sent'[i] = sent[i]
        /\ sent'[Len(sent) + 1] = tone
        BY ONLY <2>1, <2>2, SentAppend
  <2>4. \A i \in DOMAIN sent : i \in Nat /\ i <= Len(sent) /\ Len(sent) \in Nat
        BY ONLY <2>1
  <2>5. \A i \in DOMAIN sent : sent[i].key < digit
        BY <1>2 DEF SentKeys
  <2>6. SentInOrder'
        BY <1>1, <1>2, <2>1, <2>3, <2>4, <2>5 DEF SentInOrder
  <2>7. SentKeys' = SentKeys \cup {digit}
        BY <1>4, StartedTone
  <2>8. voice # "tail" => KeysInOrder' /\ NewFrom(head + 1)'
    <3>1. voice # "tail" => KeysInOrder'
          BY <1>1, <1>2 DEF KeysInOrder, InBuffer
    <3>2. ASSUME voice # "tail", NEW i \in InBuffer, head + 1 <= i, NEW k \in SentKeys'
          PROVE  k < dtmf_num[i]
      <4>1. digit < dtmf_num[i] /\ dtmf_num[i] \in Nat /\ digit \in Nat
            BY <1>1, <1>2, <3>2 DEF NewerThanDigit, KeysInOrder, InBuffer, Typed, TypeOK
      <4>2. k = digit \/ (k \in Nat /\ k < digit)
            BY <1>2, <2>7 DEF SentKeys, SentInOrder
      <4> QED BY <4>1, <4>2
    <3> QED BY <1>1, <3>1, <3>2 DEF NewFrom, InBuffer
  <2> QED BY <1>1, <1>4, <2>6, <2>8 DEF OrderKept
<1> QED BY <1>3, <1>4 DEF StartTone

LEMMA OrderNext == Typed /\ OrderKept /\ [Next]_vars => OrderKept'
<1> SUFFICES ASSUME Typed, OrderKept, [Next]_vars
             PROVE  OrderKept'
    OBVIOUS
<1> USE DEF OrderKept, Without, Sending, SentInOrder, KeysInOrder, NewFrom, InBuffer,
            NewerThanDigit, SentKeys, queue, dtmfThread, phone
<1>1. head \in Nat /\ tail \in Nat /\ old \in Nat /\ Len(pressed) \in Nat
      BY DEF Typed, TypeOK
<1>2. CASE SignalTone
      BY <1>1, <1>2 DEF SignalTone
<1>3. CASE ClearHead
      BY <1>1, <1>3 DEF ClearHead
<1>4. CASE ClearTail
      BY <1>1, <1>4 DEF ClearTail, ClearedTail
<1>5. CASE TestEmpty \/ Sleeps \/ WakesSpuriously \/ NoTone
      BY <1>1, <1>5 DEF TestEmpty, Sleeps, WakesSpuriously, NoTone
<1>6. CASE SeesTone
      BY <1>1, <1>6 DEF SeesTone
<1>7. CASE TakesTone
      BY <1>1, <1>7 DEF TakesTone
<1>8. CASE StopTone
      BY <1>1, <1>8 DEF StopTone
<1>9. CASE ReadHead
      BY <1>1, <1>9 DEF ReadHead
<1>10. CASE WriteHead
       BY <1>1, <1>10 DEF WriteHead, NextHead
<1>11. CASE CallChanges
       BY <1>1, <1>11 DEF CallChanges
<1>12. CASE UNCHANGED vars
       BY <1>1, <1>12 DEF vars
<1> QED
    BY <1>2, <1>3, <1>4, <1>5, <1>6, <1>7, <1>8, <1>9, <1>10, <1>11, <1>12, OrderAddTone,
       OrderStartTone
    DEF Next, VoiceThread, DtmfThread

\* Each tone is sent once, and they are sent in the order of the keys
\* (voice_al.c:648-675), even across a hang-up that meets one of them, unless
\* the clearing moved head under the DTMF thread before tail
\* (voice_core.c:1589-1590).
THEOREM TonesOnceCorrect == Spec => []TonesOnce
<1>1. Init => OrderKept
      BY DEF Init, OrderKept, SentInOrder, KeysInOrder, NewFrom, InBuffer
<1>2. Spec => []OrderKept
  <2>1. Spec => []Typed
        BY InvHolds, PTL DEF Inv
  <2> QED BY <1>1, <2>1, OrderNext, PTL DEF Spec
<1>3. OrderKept => TonesOnce
      BY DEF OrderKept, SentInOrder, TonesOnce
<1> QED BY <1>2, <1>3, PTL
=============================================================================
