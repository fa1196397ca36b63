----------------------------- MODULE VoiceCall -----------------------------
(***************************************************************************)
(* The call state machine of the voice module (src/module/voice): an       *)
(* analogue phone on one side, the modem on the other, and a voice thread  *)
(* that takes their indications from its queue one after the other.  The   *)
(* 5 s alarm of the last key (a signal handler) and the 15 s wait timer (a *)
(* timer thread) write curr_status and late_status with no lock, at any    *)
(* moment between two steps of the voice thread.                           *)
(*                                                                         *)
(* A handler of the voice thread is three steps: it takes the indication   *)
(* and decides late_status, it compares the two states and runs            *)
(* status_handle on them, and it sets curr_status to late_status.          *)
(* Tones, LEDs, the PCM path and caller names are left out; a number is    *)
(* its length.  The phone and the modem are outside the repository: they   *)
(* are modelled from the indications that the code handles.                *)
(***************************************************************************)
EXTENDS Integers, Sequences, FiniteSets, SequencesExt

CONSTANTS
  MaxNumber,  \* JRD_VOICE_CALL_OUT_NUMBER - 1, the most digits of a number
  MaxDtmf,    \* JRD_VOICE_DTMF_NUMBER_LEN - 1, the tones between two hang-ups
  MaxCalls,   \* bound: calls that the modem sees
  MaxLifts,   \* bound: times the handset is picked up
  MaxKeys,    \* bound: keys pressed
  MaxQueue    \* bound: indications waiting in jan_voice_q

ASSUME VoiceAssumption ==
  /\ MaxNumber \in Nat \ {0} /\ MaxDtmf \in Nat
  /\ MaxQueue \in Nat \ {0} /\ MaxCalls \in Nat
  /\ MaxLifts \in Nat /\ MaxKeys \in Nat

Status == {"idle", "ring", "dialing", "wait", "alerting", "conversation"}
CallState == {"invalid", "dialled", "originating", "alerting", "incoming",
              "waiting", "conversation", "disconnecting", "end"}
Over == {"disconnecting", "end"}          \* of a call that is over
RecordType == {"missed", "incoming", "outgoing"}
DeviceState == {"onhook", "offhook", "digit"}

Id == 0..MaxCalls                         \* 0: no call
CallInfo == [id : Id, state : CallState]
NoInfo == [id |-> 0, state |-> "invalid"]

Indication == [from : {"device"}, state : DeviceState]
         \cup [from : {"network"}, state : CallState]

\* "timer": the alarm or the wait timer sets both states to IDLE when the voice
\*          thread is not just waiting for a number;
\* "digit": a key makes a conversation of a state that is none;
\* "unread": a digit could not be read and the handler returned half way;
\* "third": going on-hook rings for the 3rd call instead of ending this one;
\* "hook":  an earlier off-hook stands for another event of the phone;
\* "early": a lift answers a call while the voice thread has still to hear of an
\*          incoming one: the lift was meant for a call that has ended since.
Slip == {"timer", "digit", "unread", "third", "hook", "early"}

VARIABLES
  curr_status, late_status,
  call,        \* what status_handle clears on its way to IDLE
  dtmf_tail,   \* jan_dtmf_queue.tail
  dev_state,   \* set by jan_slic_opt_send_CID if the phone is off the hook
  thread,      \* where the voice thread is in its handler
  queue,       \* jan_voice_q
  alarm,       \* a SIGALRM is pending
  call_timer,  \* the 15 s timer runs
  g_call,      \* g_call_info and
  g_third,     \* g_third_call_info, the modem's calls as the module knows them
  radio,       \* the modem's calls, the newest first (outside the repository)
  news,        \* the modem has an indication to send
  hook,        \* the handset (outside the repository)
  used,        \* how many calls, lifts and keys there were
  records,     \* the call records, oldest first
  answered,    \* the calls the user answered (history)
  slips        \* which of the weak spots below were hit so far (history)

core == <<curr_status, late_status, call, dtmf_tail, dev_state, thread>>
modem == <<radio, news>>
al == <<g_call, g_third>>
timers == <<alarm, call_timer>>
history == <<records, answered, slips>>
vars == <<curr_status, late_status, call, dtmf_tail, dev_state, thread, queue,
          alarm, call_timer, g_call, g_third, radio, news, hook, used, records,
          answered, slips>>

Cleared == [len |-> 0, tone_flag |-> 0, is_incoming |-> 0, is_online |-> 0]

\* Every variable has its type; in particular the number and the tones stay
\* within their buffers (the tests of voice_core.c:1623 and :1642).
TypeOK ==
  /\ curr_status \in Status /\ late_status \in Status
  /\ call \in [len : 0..MaxNumber, tone_flag : 0..1, is_incoming : 0..1,
              is_online : 0..1]
  /\ dtmf_tail \in 0..MaxDtmf /\ dev_state \in {"unknown", "offhook"}
  /\ thread \in {"loop", "compare", "commit"}
  /\ queue \in Seq(Indication)
  /\ alarm \in BOOLEAN /\ call_timer \in BOOLEAN
  /\ g_call \in CallInfo /\ g_third \in CallInfo
  /\ radio \in Seq(CallInfo) /\ Len(radio) <= 2
  /\ news \in BOOLEAN
  /\ hook \in {"on", "off"}
  /\ used \in [calls : 0..MaxCalls, lifts : 0..MaxLifts, keys : 0..MaxKeys]
  /\ records \in Seq([type : RecordType, id : Id])
  /\ answered \in SUBSET Id /\ slips \subseteq Slip

Init ==
  /\ curr_status = "idle" /\ late_status = "idle"
  /\ call = Cleared /\ dtmf_tail = 0 /\ dev_state = "unknown"
  /\ thread = "loop" /\ queue = <<>>
  /\ alarm = FALSE /\ call_timer = FALSE
  /\ g_call = NoInfo /\ g_third = NoInfo
  /\ radio = <<>> /\ news = FALSE
  /\ hook = "on" /\ used = [calls |-> 0, lifts |-> 0, keys |-> 0]
  /\ records = <<>> /\ answered = {} /\ slips = {}

-----------------------------------------------------------------------------
\* The modem, as far as the voice module sees it.

Room == Len(queue) < MaxQueue

With(id, state) ==
  [i \in DOMAIN radio |-> IF radio[i].id = id
                          THEN [radio[i] EXCEPT !.state = state]
                          ELSE radio[i]]

\* A call is being disconnected or ends; one that was waiting behind it becomes
\* an incoming call.
Ended(id, state) ==
  [i \in DOMAIN radio |->
     CASE radio[i].id = id -> [radio[i] EXCEPT !.state = state]
       [] radio[i].id # id /\ radio[i].state = "waiting" ->
            [radio[i] EXCEPT !.state = "incoming"]
       [] OTHER -> radio[i]]

Has(id, states) ==
  \E i \in DOMAIN radio : radio[i].id = id /\ radio[i].state \in states

ModemOffers ==
  /\ ~news /\ used.calls < MaxCalls
  /\ \/ radio = <<>> /\ radio' = <<[id |-> used.calls + 1, state |-> "incoming"]>>
     \/ /\ Len(radio) = 1
        /\ \E new \in {<<"conversation", "waiting">>, <<"disconnecting", "incoming">>} :
             /\ radio[1].state = new[1]
             /\ radio' = <<[id |-> used.calls + 1, state |-> new[2]]>> \o radio
  /\ news' = TRUE
  /\ used' = [used EXCEPT !.calls = @ + 1]
  /\ UNCHANGED <<core, queue, timers, al, hook, history>>

ModemGoesOn ==
  /\ ~news
  /\ \E i \in DOMAIN radio :
       \E move \in {<<"dialled", "originating">>, <<"originating", "alerting">>,
                    <<"alerting", "conversation">>} :
         radio[i].state = move[1] /\ radio' = With(radio[i].id, move[2])
  /\ news' = TRUE
  /\ UNCHANGED <<core, queue, timers, al, hook, used, history>>

\* The far side hangs up, or gives up; or what was being disconnected ends.
ModemEnds ==
  /\ ~news
  /\ \E i \in DOMAIN radio, state \in Over :
       radio[i].state \notin {"end", state} /\ radio' = Ended(radio[i].id, state)
  /\ news' = TRUE
  /\ UNCHANGED <<core, queue, timers, al, hook, used, history>>

\* "WAITING state occur twice": the modem indicates a waiting call again.
ModemRepeats ==
  /\ ~news /\ \E i \in DOMAIN radio : radio[i].state = "waiting"
  /\ news' = TRUE
  /\ UNCHANGED <<core, queue, timers, al, radio, hook, used, history>>

\* The modem forgets a call once its end was indicated; one that is being
\* disconnected stays listed.
StillOn(i) ==
  IF i \in DOMAIN radio /\ radio[i].state # "end" THEN <<radio[i]>> ELSE <<>>

\* jan_voice_al_msg_cb, in the modem's thread: with two calls the newer one is
\* the 3rd call and the indication is about it; g_third_call_info keeps its
\* value when there is one call.
Indicates ==
  /\ news /\ Room
  /\ news' = FALSE
  /\ IF Len(radio) = 2 THEN g_third' = radio[1] /\ g_call' = radio[2]
                       ELSE g_third' = g_third /\ g_call' = radio[1]
  /\ queue' = Append(queue, [from |-> "network", state |-> radio[1].state])
  /\ radio' = StillOn(1) \o StillOn(2)
  /\ UNCHANGED <<core, timers, hook, used, history>>

\* jan_voice_al_call_dial: the modem takes the number if it has no call.
AlDial ==
  IF radio = <<>> /\ used.calls < MaxCalls
  THEN /\ radio' = <<[id |-> used.calls + 1, state |-> "dialled"]>>
       /\ used' = [used EXCEPT !.calls = @ + 1]
       /\ g_call' = [g_call EXCEPT !.id = used.calls + 1]
  ELSE UNCHANGED <<radio, used, g_call>>

Slips(what) == slips' = slips \cup what

\* An "incoming" is on its way to the voice thread.
IncomingWaits ==
  \E i \in DOMAIN queue : queue[i].from = "network" /\ queue[i].state = "incoming"

\* jan_voice_al_call_answer: of the 3rd call when the other one is over.
AlAnswer ==
  LET id == IF g_call.state \in Over THEN g_third.id ELSE g_call.id IN
  IF Has(id, {"incoming", "waiting"})
  THEN /\ radio' = With(id, "conversation") /\ news' = TRUE
       /\ answered' = answered \cup {id}
       /\ Slips(IF IncomingWaits THEN {"early"} ELSE {})
  ELSE UNCHANGED <<radio, news, answered, slips>>

\* jan_voice_al_call_end.  Its test for a waiting 3rd call compares the module's
\* own enumeration with the modem's CALL_STATE_WAITING_V02, which is the module's
\* DISCONNECTING: it ends a 3rd call that is being disconnected anyway, and never
\* one that waits.
AlEnd ==
  LET id == IF g_third.state = "disconnecting" THEN g_third.id ELSE g_call.id IN
  IF Has(id, CallState \ Over)
  THEN /\ \E state \in Over : radio' = Ended(id, state)
       /\ news' = TRUE
  ELSE UNCHANGED <<radio, news>>

-----------------------------------------------------------------------------
\* The phone (outside the repository); its input event wakes the voice thread.

FromPhone(state) == /\ Room
                    /\ queue' = Append(queue, [from |-> "device", state |-> state])
                    /\ UNCHANGED <<core, timers, al, modem, history>>

LiftHook == /\ hook = "on" /\ used.lifts < MaxLifts
            /\ hook' = "off" /\ used' = [used EXCEPT !.lifts = @ + 1]
            /\ FromPhone("offhook")

HangUp == /\ hook = "off"
          /\ hook' = "on" /\ UNCHANGED used
          /\ FromPhone("onhook")

PressKey == /\ hook = "off" /\ used.keys < MaxKeys
            /\ used' = [used EXCEPT !.keys = @ + 1] /\ UNCHANGED hook
            /\ FromPhone("digit")

-----------------------------------------------------------------------------
\* The voice thread.

\* The record of a 3rd call given to the call in use.
RecordOfCurrent(type) ==
  [type |-> type, id |-> IF type = "outgoing" THEN 0 ELSE g_call.id]

\* jan_voice_core_add_record_to_list: whose number the record gets.  An
\* outgoing record has the dialled number and no call of the modem.
RecordOf(type) ==
  [type |-> type,
   id |-> CASE type = "outgoing" -> 0
            [] type = "missed" /\ g_third.state = "waiting"
                 /\ g_call.state = "conversation" -> g_third.id
            [] OTHER -> g_call.id]

AddRecord(type) == records' = Append(records, RecordOf(type))

Takes(from, states) ==
  /\ thread = "loop" /\ queue # <<>>
  /\ Head(queue).from = from /\ Head(queue).state \in states
  /\ queue' = Tail(queue)

\* The state that jan_voice_core_device_event_handle works on: an off-hook seen
\* while the caller id was sent overrides the device as long as it rings.
Seen(state) == IF curr_status = "ring" /\ dev_state = "offhook"
               THEN "offhook" ELSE state

\* A hook change is ignored while it rings ...
IgnoredInUse == curr_status \in {"ring", "conversation"}
Ignored == curr_status = "ring"

\* ... and else ends what is going on, unless there is a 3rd call to ring for.
OnHook ==
  /\ Takes("device", DeviceState) /\ Seen(Head(queue).state) = "onhook"
  /\ \/ /\ g_third.state = "incoming"
        /\ curr_status' = "idle" /\ late_status' = "ring"
        /\ g_third' = [g_third EXCEPT !.state = "invalid"]
        /\ Slips({"third"})
     \/ /\ g_third.state # "incoming" /\ Ignored
        /\ UNCHANGED <<curr_status, late_status, g_third, slips>>
     \/ /\ g_third.state # "incoming" /\ ~Ignored
        /\ late_status' = "idle"
        /\ UNCHANGED <<curr_status, g_third, slips>>
  /\ dtmf_tail' = 0
  /\ thread' = "compare"
  /\ UNCHANGED <<call, dev_state, timers, g_call, modem, hook, used, records,
                 answered>>

OffHook ==
  /\ Takes("device", DeviceState) /\ Seen(Head(queue).state) = "offhook"
  /\ late_status' = CASE curr_status = "idle" -> "wait"
                      [] curr_status = "ring" -> "conversation"
                      [] OTHER -> "idle"
  /\ Slips(IF Head(queue).state = "offhook" THEN {} ELSE {"hook"})
  /\ thread' = "compare"
  /\ UNCHANGED <<curr_status, call, dtmf_tail, dev_state, timers, al, modem,
                 hook, used, records, answered>>

NumberHasRoomForOneMore == call.len <= MaxNumber
NumberHasRoom == call.len < MaxNumber

\* A key: a digit of the number, with its 5 s alarm, or else a tone for the
\* far side; the else-if assigns CONVERSATION to curr_status.  The digit may
\* not be read from the device, and then the handler returns as it is.
DialDigit ==
  /\ curr_status \in {"wait", "dialing"}
  /\ late_status' = "dialing"
  /\ \/ /\ NumberHasRoom
        /\ call' = [call EXCEPT !.len = @ + 1] /\ alarm' = TRUE
        /\ thread' = "compare" /\ UNCHANGED slips
     \/ /\ NumberHasRoom
        /\ Slips({"unread"}) /\ UNCHANGED <<call, alarm, thread>>
     \/ /\ ~NumberHasRoom
        /\ thread' = "compare" /\ UNCHANGED <<call, alarm, slips>>
  /\ UNCHANGED <<curr_status, dtmf_tail>>

DtmfDigit ==
  /\ curr_status \notin {"wait", "dialing"}
  /\ curr_status' = "conversation"
  /\ \/ /\ dtmf_tail < MaxDtmf
        /\ dtmf_tail' = dtmf_tail + 1 /\ late_status' = "conversation"
        /\ thread' = "compare"
     \/ /\ dtmf_tail < MaxDtmf
        /\ UNCHANGED <<dtmf_tail, late_status, thread>>
     \/ /\ dtmf_tail >= MaxDtmf
        /\ thread' = "compare" /\ UNCHANGED <<dtmf_tail, late_status>>
  /\ Slips(IF curr_status = "conversation" THEN {} ELSE {"digit"})
  /\ UNCHANGED <<call, alarm>>

Digit ==
  /\ Takes("device", DeviceState) /\ Seen(Head(queue).state) = "digit"
  /\ DialDigit \/ DtmfDigit
  /\ UNCHANGED <<dev_state, call_timer, al, modem, hook, used, records, answered>>

IncomingCall ==
  /\ Takes("network", {"incoming"})
  /\ late_status' = IF curr_status = "idle" THEN "ring" ELSE late_status
  /\ thread' = "compare"
  /\ UNCHANGED <<curr_status, call, dtmf_tail, dev_state, timers, al, modem,
                 hook, used, history>>

\* CC_IN_PROGRESS, ORIGINATING, ALERTING and WAITING: the number is on its way,
\* and a 3rd call gets its tone and its missed record once.
CallProgress ==
  /\ Takes("network", {"originating", "alerting", "waiting"})
  /\ IF /\ Head(queue).state # "alerting" /\ call.tone_flag < 1
        /\ curr_status = "conversation" /\ g_third.state = "waiting"
     THEN call' = [call EXCEPT !.tone_flag = @ + 1] /\ AddRecord("missed")
     ELSE UNCHANGED <<call, records>>
  /\ late_status' = IF curr_status = "dialing" THEN "alerting" ELSE late_status
  /\ thread' = "compare"
  /\ UNCHANGED <<curr_status, dtmf_tail, dev_state, timers, al, modem, hook,
                 used, answered, slips>>

CallConnected ==
  /\ Takes("network", {"conversation"})
  /\ late_status' = IF curr_status = "alerting" THEN "conversation"
                                               ELSE late_status
  /\ thread' = "compare"
  /\ UNCHANGED <<curr_status, call, dtmf_tail, dev_state, timers, al, modem,
                 hook, used, history>>

\* A call that ends while it rings stops the ringing.
AfterEndStill == late_status
AfterEnd == IF curr_status = "ring" THEN "idle" ELSE late_status

CallEnded ==
  /\ Takes("network", Over)
  /\ g_third' = IF curr_status = "conversation" /\ g_third.state \in Over
                THEN [g_third EXCEPT !.state = "invalid"] ELSE g_third
  /\ late_status' = AfterEnd
  /\ thread' = "compare"
  /\ UNCHANGED <<curr_status, call, dtmf_tail, dev_state, timers, g_call, modem,
                 hook, used, history>>

-----------------------------------------------------------------------------
\* jan_voice_core_status_handle(curr_status, late_status), when they differ.

NoChange == thread = "compare" /\ curr_status = late_status
            /\ thread' = "loop"
            /\ UNCHANGED <<curr_status, late_status, call, dtmf_tail, dev_state,
                           queue, timers, al, modem, hook, used, history>>

Changes(to) == /\ thread = "compare" /\ late_status = to
               /\ curr_status # late_status
               /\ thread' = "commit"
               /\ UNCHANGED <<curr_status, late_status, dtmf_tail, queue, alarm,
                              al, hook, used>>

ClearsButTone == call' = [Cleared EXCEPT !.tone_flag = call.tone_flag]
Clears == call' = Cleared

\* ... >>> IDLE: a record, the call ended, and everything about it cleared.
ToIdle ==
  /\ Changes("idle")
  /\ CASE curr_status = "ring" -> AddRecord("missed") /\ AlEnd
       [] curr_status = "conversation" ->
            /\ AddRecord(IF call.is_incoming = 1 THEN "incoming" ELSE "outgoing")
            /\ AlEnd
       [] curr_status = "alerting" -> AddRecord("outgoing") /\ AlEnd
       [] OTHER -> UNCHANGED <<records, modem>>
  /\ dev_state' = IF curr_status = "ring" THEN "unknown" ELSE dev_state
  /\ call_timer' = (curr_status \notin {"dialing", "wait"} /\ call_timer)
  /\ Clears
  /\ UNCHANGED <<answered, slips>>

\* IDLE >>> RING: the caller id is sent, which may find the phone off the hook.
ToRing ==
  /\ Changes("ring")
  /\ dev_state' = IF curr_status = "idle" /\ hook = "off" THEN "offhook"
                                                          ELSE dev_state
  /\ UNCHANGED <<call, call_timer, modem, history>>

ToConversation ==
  /\ Changes("conversation")
  /\ call' = [call EXCEPT !.is_online = 1,
                          !.is_incoming = IF curr_status = "ring" THEN 1
                                             ELSE call.is_incoming]
  /\ IF curr_status = "ring" THEN AlAnswer
                             ELSE UNCHANGED <<modem, answered, slips>>
  /\ UNCHANGED <<dev_state, call_timer, records>>

ToWait ==
  /\ Changes("wait")
  /\ call_timer' = (curr_status = "idle" \/ call_timer)
  /\ UNCHANGED <<call, dev_state, modem, history>>

\* WAIT >>> DIALING with the timer left running, and with the number cleared.
ToDialingTimed ==
  /\ Changes("dialing")
  /\ UNCHANGED <<call, dev_state, call_timer, modem, history>>

ToDialingAfresh ==
  /\ Changes("dialing")
  /\ call' = Cleared
  /\ call_timer' = (curr_status # "wait" /\ call_timer)
  /\ UNCHANGED <<dev_state, modem, history>>

ToDialing ==
  /\ Changes("dialing")
  /\ call_timer' = (curr_status # "wait" /\ call_timer)
  /\ UNCHANGED <<call, dev_state, modem, history>>

ToAlerting ==
  /\ Changes("alerting")
  /\ UNCHANGED <<call, dev_state, call_timer, modem, history>>

Commit ==
  /\ thread = "commit"
  /\ curr_status' = late_status /\ thread' = "loop"
  /\ UNCHANGED <<late_status, call, dtmf_tail, dev_state, queue, timers, al,
                 modem, hook, used, history>>

-----------------------------------------------------------------------------
\* A timer that ends a call in use: both states become IDLE, with no record,
\* no end of the call at the modem and nothing cleared.
ForcesIdle == curr_status' = "idle" /\ late_status' = "idle"

Idles(harmless) ==
  Slips(IF thread = "loop" /\ {curr_status, late_status} \subseteq harmless
        THEN {} ELSE {"timer"})

\* jan_voice_core_dialing_out, the SIGALRM handler: 5 s after the last key.
AlarmFires ==
  /\ alarm /\ alarm' = FALSE
  /\ \/ /\ late_status = "dialing" /\ AlDial
        /\ UNCHANGED <<curr_status, late_status, slips>>
     \/ /\ late_status # "dialing" /\ ForcesIdle /\ Idles({"idle"})
        /\ UNCHANGED <<radio, used, g_call>>
  /\ UNCHANGED <<call, dtmf_tail, dev_state, thread, queue, call_timer, g_third,
                 news, hook, records, answered>>

\* jan_voice_core_wait_timeout, in the timer's thread: 15 s after the lift.
WaitTimeout ==
  /\ call_timer /\ call_timer' = FALSE
  /\ \/ late_status = "dialing" /\ UNCHANGED <<curr_status, late_status, slips>>
     \/ late_status # "dialing" /\ ForcesIdle /\ Idles({"idle", "wait"})
  /\ UNCHANGED <<call, dtmf_tail, dev_state, thread, queue, alarm, al, modem,
                 hook, used, records, answered>>

VoiceThread ==
  \/ OnHook \/ OffHook \/ Digit
  \/ IncomingCall \/ CallProgress \/ CallConnected \/ CallEnded
  \/ NoChange \/ ToIdle \/ ToRing \/ ToConversation \/ ToWait \/ ToDialing
  \/ ToAlerting
  \/ Commit

Modem == ModemOffers \/ ModemGoesOn \/ ModemEnds \/ ModemRepeats \/ Indicates
Phone == LiftHook \/ HangUp \/ PressKey

Next == VoiceThread \/ Modem \/ Phone \/ AlarmFires \/ WaitTimeout

Spec == Init /\ [][Next]_vars

-----------------------------------------------------------------------------
\* Properties.  Nearly nothing that a reader expects of the two states holds of
\* every behaviour; a guarded property says which of the weak spots its promise
\* needs to be out of the way, and holds whatever the other ones do.

Without(what) == slips \cap what = {}

\* Every indication is handled and the modem has nothing more to say.
Quiet == thread = "loop" /\ queue = <<>> /\ ~news

\* Between two calls nothing of the last one is left (the clearing that
\* status_handle does on its way to IDLE, :1165-1171), as long as neither timer
\* ended a call that was in use.
ClearedAtRest ==
  Without({"timer"}) /\ thread = "loop" /\ {curr_status, late_status} = {"idle"}
    => call = Cleared

\* Whenever the alarm may send the number, at any step of the voice thread, at
\* least one digit has been read (:953-979 tests late_status and no length):
\* hang-ups and timers included, but for a digit that could not be read.
DialsANumber == Without({"unread"}) /\ late_status = "dialing" => call.len > 0

\* The 15 s timer runs only while the user is being waited for: no way out of
\* WAIT forgets to stop it (:1152, :1157, :1265), so that it cannot end a call.
TimerOnlyWaits ==
  Without({"timer", "third"}) /\ call_timer
    => curr_status = "wait" \/ late_status = "wait"

\* The phone rings only for a call: when all is handled and it rings, the modem
\* has a call to answer (IDLE >>> RING at :1174, its end at :1852), whatever the
\* timers do in between.
RingsForACall ==
  Without({"third", "digit", "early"}) /\ Quiet /\ curr_status = "ring"
    => \E i \in DOMAIN radio : radio[i].state \in {"incoming", "waiting"}

\* When all is handled and the handset is down, the module is idle or rings; no
\* order of keys, timers, calls and hang-ups leaves it in a call (:1586-1603),
\* unless an old off-hook is taken for the hang-up.
AtRestWhenHungUp ==
  Without({"hook"}) /\ Quiet /\ hook = "on" => curr_status \in {"idle", "ring"}

MissedRecord(rs) == rs # <<>> /\ Last(rs).type = "missed"

\* A 3rd call rings beside one that is over and may still be listed: the record
\* of the ring has that one's number (:389-396 looks for a waiting 3rd call).
RingsBeside == g_call.state \in Over /\ g_third.id > g_call.id

\* A call the user answered is never recorded as missed (:1114-1119, :1803),
\* though the record goes by the module's copies of the modem's calls, apart
\* from the ring of a 3rd call beside it.
AnsweredNotMissed ==
  [][Without({"third", "early"})' /\ ~RingsBeside
       /\ records' # records /\ MissedRecord(records')
     => Last(records').id \notin answered]_vars

\* "For 3rd call wake up after current calling end" (:1592): the call for which
\* a hang-up rings the phone is not one that the user has answered before.
WakesUpThirdCall ==
  [][g_third.state = "incoming" /\ g_third'.state = "invalid"
       => g_third.id \notin answered]_vars

=============================================================================
