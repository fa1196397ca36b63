----------------------------- MODULE VoiceTones -----------------------------
(***************************************************************************)
(* The tones of the voice module: the keys pressed during a call go into   *)
(* jan_dtmf_queue, and the DTMF thread sends them to the modem one after   *)
(* the other.  The voice thread writes the queue, clears it when the       *)
(* handset goes down, and signals jan_key_signal, all without the mutex    *)
(* under which the DTMF thread tests the queue and waits; so the steps     *)
(* below are single reads and writes of head and tail.                     *)
(*                                                                         *)
(* A tone goes to the call in g_call_info at that moment, which the        *)
(* modem's thread writes at any time: when a waiting call is the only one  *)
(* left, it takes the place of the other without any hang-up.              *)
(*                                                                         *)
(* A tone is the number of its key press, so that a tone sent twice or     *)
(* into another call is seen, and the call in g_call_info is the set of    *)
(* the keys that were pressed in it.  The modem is outside the repository. *)
(***************************************************************************)
EXTENDS Integers, Sequences, FiniteSets, SequencesExt

CONSTANTS
  MaxDtmf,     \* JRD_VOICE_DTMF_NUMBER_LEN - 1, the places for tones
  MaxKeys,     \* bound: keys pressed
  MaxHangups   \* bound: hang-ups

ASSUME TonesAssumption ==
  MaxDtmf \in Nat \ {0} /\ MaxKeys \in Nat /\ MaxHangups \in Nat

Key == 1..MaxKeys

\* "window": the clearing moves head under the DTMF thread before tail, so that
\*           the tones that were sent stand in the queue again;
\* "cut":    the handset goes down while a tone is being sent;
\* "lost":   a key finds the thread on its way to the wait, or no digit at head.
Slip == {"window", "cut", "lost"}

\* The DTMF thread has seen a tone and has not counted it as sent yet.
Sending == {"take", "start", "stop", "inc", "write"}

VARIABLES
  head, tail,  \* of jan_dtmf_queue
  dtmf_num,    \* its digits, 0 where none has been written yet
  voice,       \* where the voice thread is in its handler
  dtmf,        \* where the DTMF thread is
  digit,       \* digit_dtmf_num
  old,         \* the head that head++ has read
  call,        \* the keys pressed in the call of g_call_info
  hangups,     \* how often the handset went down (history)
  pressed,     \* of each key so far, the hang-ups before it (history)
  sent,        \* the tones started, and whether in their own call (history)
  handed,      \* the keys in the queue when another call took the place of
               \* theirs (history)
  slips        \* the weak spots hit so far (history)

vars == <<head, tail, dtmf_num, voice, dtmf, digit, old, call, hangups, pressed,
          sent, handed, slips>>
queue == <<head, tail, dtmf_num>>
dtmfThread == <<dtmf, digit, old, sent>>
phone == <<call, hangups, pressed, handed>>

\* The indices stay in the buffer, whatever the order of the clearings.
TypeOK ==
  /\ head \in 0..MaxDtmf /\ tail \in 0..MaxDtmf
  /\ dtmf_num \in [0..MaxDtmf -> 0..MaxKeys]
  /\ voice \in {"loop", "signal", "tail"}
  /\ dtmf \in {"test", "sleep", "waiting", "check", "dead"} \cup Sending
  /\ digit \in 0..MaxKeys /\ old \in 0..MaxDtmf
  /\ call \subseteq Key /\ hangups \in 0..MaxHangups
  /\ pressed \in Seq(0..MaxHangups) /\ Len(pressed) <= MaxKeys
  /\ sent \in Seq([key : 0..MaxKeys, own : BOOLEAN])
  /\ handed \subseteq Key /\ slips \subseteq Slip

Init ==
  /\ head = 0 /\ tail = 0 /\ dtmf_num = [i \in 0..MaxDtmf |-> 0]
  /\ voice = "loop" /\ dtmf = "test" /\ digit = 0 /\ old = 0
  /\ call = {} /\ hangups = 0 /\ pressed = <<>> /\ sent = <<>>
  /\ handed = {} /\ slips = {}

-----------------------------------------------------------------------------
\* The voice thread.

HasRoomForOneMore == tail <= MaxDtmf
HasRoom == tail < MaxDtmf

\* A key during a call: its digit is read into the buffer and tail goes on.
AddTone ==
  /\ voice = "loop" /\ Len(pressed) < MaxKeys
  /\ HasRoom
  /\ pressed' = Append(pressed, hangups) /\ call' = call \cup {Len(pressed')}
  /\ dtmf_num' = [dtmf_num EXCEPT ![tail] = Len(pressed')]
  /\ tail' = tail + 1
  /\ voice' = "signal"
  /\ UNCHANGED <<head, dtmfThread, hangups, handed, slips>>

DigitAtTail == dtmf_num[tail] # 0
DigitAtHead == dtmf_num[head] # 0

\* ... and the DTMF thread is signalled if there is a digit at head.
SignalTone ==
  /\ voice = "signal" /\ voice' = "loop"
  /\ dtmf' = IF DigitAtHead /\ dtmf = "waiting" THEN "check" ELSE dtmf
  /\ slips' = IF dtmf = "sleep" \/ (dtmf = "waiting" /\ dtmf_num[head] = 0)
              THEN slips \cup {"lost"} ELSE slips
  /\ UNCHANGED <<queue, digit, old, sent, phone>>

KeptHead == head
KeptTail == tail
ClearedHead == 0
ClearedTail == 0

\* The handset goes down: head = 0, and then tail = 0.
ClearHead ==
  /\ voice = "loop" /\ hangups < MaxHangups
  /\ head' = ClearedHead /\ voice' = "tail" /\ hangups' = hangups + 1
  /\ slips' = slips \cup (IF dtmf \in Sending THEN {"cut"} ELSE {})
                    \cup (IF dtmf = "take" THEN {"window"} ELSE {})
  /\ UNCHANGED <<tail, dtmf_num, dtmfThread, call, pressed, handed>>

ClearTail ==
  /\ voice = "tail"
  /\ tail' = ClearedTail /\ voice' = "loop"
  /\ UNCHANGED <<head, dtmf_num, dtmfThread, phone, slips>>

-----------------------------------------------------------------------------
\* jan_voice_al_msg_cb, in the modem's thread, and jan_voice_al_call_dial:
\* g_call_info becomes another call, whatever stands in the queue.  A call that
\* comes back counts as another.

InQueue(k) == \E i \in head..(tail - 1) : dtmf_num[i] = k

CallChanges ==
  /\ call' = {}
  /\ handed' = handed \cup {k \in call : pressed[k] = hangups /\ InQueue(k)}
  /\ UNCHANGED <<queue, voice, dtmfThread, hangups, pressed, slips>>

-----------------------------------------------------------------------------
\* The DTMF thread, jan_voice_al_digit_dtmf_thread.  Nobody else takes its mutex.

TestEmpty ==
  /\ dtmf = "test"
  /\ dtmf' = IF head = tail THEN "sleep" ELSE "check"
  /\ UNCHANGED <<queue, voice, digit, old, sent, phone, slips>>

Sleeps ==
  /\ dtmf = "sleep" /\ dtmf' = "waiting"
  /\ UNCHANGED <<queue, voice, digit, old, sent, phone, slips>>

\* pthread_cond_wait may also return by itself.
WakesSpuriously ==
  /\ dtmf = "waiting" /\ dtmf' = "check"
  /\ UNCHANGED <<queue, voice, digit, old, sent, phone, slips>>

SeesTone ==
  /\ dtmf = "check" /\ head < tail
  /\ dtmf' = "take"
  /\ slips' = IF voice = "tail" THEN slips \cup {"window", "cut"} ELSE slips
  /\ UNCHANGED <<queue, voice, digit, old, sent, phone>>

NoTone ==
  /\ dtmf = "check" /\ head >= tail
  /\ dtmf' = "test"
  /\ UNCHANGED <<queue, voice, digit, old, sent, phone, slips>>

TakesTone ==
  /\ dtmf = "take" /\ dtmf' = "start" /\ digit' = dtmf_num[head]
  /\ UNCHANGED <<queue, voice, old, sent, phone, slips>>

\* jan_qmi_voice_start_dtmf to the call in g_call_info; when the modem refuses,
\* the thread returns, and nothing sends tones any more.
StartTone ==
  /\ dtmf = "start"
  /\ \/ /\ dtmf' = "stop"
        /\ sent' = Append(sent, [key |-> digit, own |-> digit \in call])
     \/ dtmf' = "dead" /\ UNCHANGED sent
  /\ UNCHANGED <<queue, voice, digit, old, phone, slips>>

StopTone ==
  /\ dtmf = "stop" /\ dtmf' \in {"inc", "dead"}
  /\ UNCHANGED <<queue, voice, digit, old, sent, phone, slips>>

OldHead == old
NextHead == old + 1

\* head++ is a read and a write.
ReadHead ==
  /\ dtmf = "inc" /\ dtmf' = "write" /\ old' = head
  /\ UNCHANGED <<queue, voice, digit, sent, phone, slips>>

WriteHead ==
  /\ dtmf = "write" /\ dtmf' = "check" /\ head' = NextHead
  /\ UNCHANGED <<tail, dtmf_num, voice, digit, old, sent, phone, slips>>

VoiceThread == AddTone \/ SignalTone \/ ClearHead \/ ClearTail
DtmfThread == \/ TestEmpty \/ Sleeps \/ SeesTone \/ TakesTone \/ NoTone 
              \/ StartTone \/ StopTone \/ ReadHead \/ WriteHead

Next == VoiceThread \/ DtmfThread \/ WakesSpuriously \/ CallChanges

Spec == Init /\ [][Next]_vars

\* Both threads go on; keys and hang-ups are the user's choice, calls the network's.
FairSpec == /\ Spec
            /\ WF_vars(SignalTone) /\ WF_vars(ClearTail) /\ WF_vars(DtmfThread)

-----------------------------------------------------------------------------
\* Properties.  Each says which of the weak spots it needs out of the way.

Without(what) == slips \cap what = {}

SentKeys == {sent[i].key : i \in DOMAIN sent}

\* No tone is sent twice, none that was never pressed, and they are sent in the
\* order of the keys (voice_al.c:648-675), although the buffer keeps the digits
\* of earlier calls; only a clearing that moves head under the DTMF thread
\* (voice_core.c:1589 before :1590) brings old tones back.
TonesOnce ==
  Without({"window"})
    => \A i, j \in DOMAIN sent : /\ sent[i].key # 0
                                 /\ i < j => sent[i].key < sent[j].key

\* A tone goes to the call it was pressed in and never to one after a hang-up
\* (g_call_info.call_id at :654), unless the hang-up met a tone on its way; only
\* those that stand in the queue while g_call_info changes with no hang-up before
\* (:332, :343) go to the call that has taken the place of theirs.
ToneInItsCall ==
  Without({"cut"})
    => \A i \in DOMAIN sent :
         sent[i].key \notin {0} \cup handed => sent[i].own

\* When the queue is empty every tone since the last hang-up has been sent: none
\* is skipped, now or after later hang-ups, as long as no hang-up met a tone on
\* its way: head++ then leaves head beyond tail.
NothingSkipped ==
  Without({"cut"}) /\ head >= tail /\ voice # "tail"
    => \A k \in DOMAIN pressed : pressed[k] = hangups => k \in SentKeys

\* The thread waits only for an empty queue, though keys are signalled without
\* its mutex, unless a key met it between the test (:643) and the wait (:645).
SleepsOverNothing ==
  Without({"lost"}) /\ dtmf = "waiting" /\ voice = "loop" => head >= tail

\* Every tone is sent, unless the user hangs up first, the modem refuses one
\* (:658, :669), a signal was lost or a hang-up cut in.
TonesGetOut ==
  \A k \in Key :
    (Len(pressed) >= k)
      ~> (\/ k \in SentKeys \/ dtmf = "dead" \/ ~Without({"lost", "cut"})
          \/ (k \in DOMAIN pressed /\ hangups > pressed[k]))

=============================================================================
