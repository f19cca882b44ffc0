------------------------------ MODULE DtmfTones ------------------------------
(***************************************************************************)
(* The digits MicroSIP dials within calls: the queue of commands of a      *)
(* number ("123,,45" dials 45 after a pause) that a timer of the slot      *)
(* sends, the tone generators of in-band digits, which mute the microphone *)
(* until a timer finds them all silent, and the generator of local tones   *)
(* that the windows' thread and pjsua's worker thread share.               *)
(*                                                                         *)
(* Windows handles posted messages before input and timers.  A timer can   *)
(* be killed only by the thread that has set it, and fires only in a       *)
(* thread with a message loop.                                             *)
(*                                                                         *)
(* Levels are only told apart as muted for tones or not.  The setting      *)
(* localDTMF is on.                                                        *)
(***************************************************************************)
EXTENDS Integers, Sequences, FiniteSets

CONSTANTS Calls, Slots,
          Ports,       \* bound: tone generators made for calls
          None,
          MaxEvents    \* bound: digits pressed or heard, changes of media

ASSUME NoneAssumption == None \notin Ports \union Slots \union Calls
ASSUME MaxEventsAssumption == MaxEvents \in Nat

\* A command is a string of digits, or empty between two commas: a pause.
Commands == {"digits", "pause"}
Queues == {<<>>, <<"digits">>, <<"digits", "pause", "digits">>}

VARIABLES
  phase,      \* of a call: new, early, confirmed, over
  slot,       \* the slot a call has or had
  media,      \* the call's audio is active
  queue,      \* call_user_data::commands
  told,       \* calls whose connection is still to be handled
  armed,      \* slots with a timer of DTMFQueueTimerHandler
  gen,        \* call_user_data::tonegen_data
  port,       \* of a tone generator: unused, idle, busy, dead
  heard,      \* generators connected to the stream of their call
  tonegens,   \* DTMFTonegens
  busyTimer,  \* tonegenBusyTimer runs
  muted,      \* the microphone is muted for tones
  levels,     \* who has posted that the levels be set: the timer, the media
  opened,     \* history: the levels were set for other reasons than the timer's
  hand,       \* the generator call_play_digit is about to play on
  locked,     \* the call whose user data the queue's timer has locked for it
  local,      \* tone_gen: none, idle, busy
  timer,      \* the thread that has set destroyDTMFPlayerTimer, or none
  orphan,     \* another destroy timer of the windows' thread runs
  events      \* bound: see MaxEvents

callVars == <<phase, slot, media, queue, told, armed>>
toneVars == <<gen, port, heard, tonegens, busyTimer, muted, levels, opened, hand, locked>>
localVars == <<local, timer, orphan>>
vars == <<callVars, toneVars, localVars, events>>

Ongoing == {c \in Calls : phase[c] \in {"early", "confirmed"}}
Spent == events' = events + 1 /\ events < MaxEvents

\* The windows' thread is between two messages, and has none waiting.
Free == hand = None
Quiet == Free /\ levels = {} /\ told = {}

-----------------------------------------------------------------------------
\* Digits

\* call_init_tonegen: the call's generator, or a new one.
Generators(c) == IF gen[c] # None THEN {gen[c]} ELSE {g \in Ports : port[g] = "unused"}

\* call_play_digit for a call, up to the point where it has a generator.
PlayInBand(c, lock) ==
  \E g \in Generators(c) :
    /\ gen' = [gen EXCEPT ![c] = g]
    /\ port' = [port EXCEPT ![g] = IF @ = "unused" THEN "idle" ELSE @]
    /\ heard' = IF gen[c] = None THEN heard \union {g} ELSE heard
    /\ hand' = g /\ locked' = lock
    /\ UNCHANGED <<tonegens, busyTimer, muted, levels, opened, localVars>>

\* call_play_digit without a call, in the given thread.
PlayLocal(thread) ==
  /\ local' = "busy"
  /\ timer' = thread
  /\ orphan' = (orphan \/ (thread = "worker" /\ timer = "ui"))
  /\ UNCHANGED toneVars

\* msip_call_dial_dtmf: in-band tones, or another way, or none without media;
\* if not in-band, the digits may be simulated.
Dial(c, lock) ==
  \/ c \in Ongoing /\ media[c] /\ PlayInBand(c, lock)
  \/ PlayLocal("ui")
  \/ UNCHANGED <<toneVars, localVars>>

\* Mutant: the hand is empty before the generator is in the list.
PlayEmpty ==
  /\ ~Free
  /\ hand' = None /\ locked' = None
  /\ muted' = TRUE
  /\ opened' = FALSE
  /\ tonegens' = tonegens \union {hand'}
  /\ busyTimer' = TRUE
  /\ port' = [port EXCEPT ![hand] = IF @ = "dead" THEN @ ELSE "busy"]
  /\ UNCHANGED <<callVars, gen, heard, levels, localVars, events>>

\* The rest of call_play_digit.  The worker thread may have destroyed the
\* generator in between.
Play ==
  /\ ~Free
  /\ muted' = TRUE
  /\ opened' = FALSE
  /\ tonegens' = tonegens \union {hand}
  /\ busyTimer' = TRUE
  /\ port' = [port EXCEPT ![hand] = IF @ = "dead" THEN @ ELSE "busy"]
  /\ hand' = None /\ locked' = None
  /\ UNCHANGED <<callVars, gen, heard, levels, localVars, events>>

\* Dialer::DTMF: the user presses a digit in the call of the selected tab.
Press(c) ==
  /\ Quiet /\ Spent
  /\ Dial(c, None)
  /\ UNCHANGED callVars

\* Mutant: after an empty command the timer is not set again.
QueueTimerStops(s) ==
  /\ Quiet /\ s \in armed
  /\ LET here == {c \in Ongoing : slot[c] = s /\ queue[c] # <<>>}
     IN  /\ queue' = [c \in Calls |-> IF c \in here THEN Tail(queue[c]) ELSE queue[c]]
         /\ armed' = IF \E c \in here : Len(queue[c]) > 1 /\ Head(queue[c]) = "digits"
                     THEN armed ELSE armed \ {s}
         /\ IF \E c \in here : Head(queue[c]) = "digits"
            THEN \E c \in here : Dial(c, c)
            ELSE UNCHANGED <<toneVars, localVars>>
  /\ UNCHANGED <<phase, slot, media, told, events>>

\* DTMFQueueTimerHandler: the next command of the call that has the slot now.
QueueTimer(s) ==
  /\ Quiet /\ s \in armed
  /\ LET here == {c \in Ongoing : slot[c] = s /\ queue[c] # <<>>}
     IN  /\ queue' = [c \in Calls |-> IF c \in here THEN Tail(queue[c]) ELSE queue[c]]
         /\ armed' = IF \E c \in here : Len(queue[c]) > 1 THEN armed ELSE armed \ {s}
         /\ IF \E c \in here : Head(queue[c]) = "digits"
            THEN \E c \in here : Dial(c, c)
            ELSE UNCHANGED <<toneVars, localVars>>
  /\ UNCHANGED <<phase, slot, media, told, events>>

-----------------------------------------------------------------------------
\* Calls

Start(c, s, q) ==
  /\ Quiet /\ phase[c] = "new"
  /\ s \notin {slot[d] : d \in Ongoing}
  /\ phase' = [phase EXCEPT ![c] = "early"]
  /\ slot' = [slot EXCEPT ![c] = s]
  /\ queue' = [queue EXCEPT ![c] = q]
  /\ UNCHANGED <<media, told, armed, toneVars, localVars, events>>

Confirm(c) ==
  /\ phase[c] = "early"
  /\ phase' = [phase EXCEPT ![c] = "confirmed"]
  /\ told' = told \union {c}
  /\ UNCHANGED <<slot, media, queue, armed, toneVars, localVars, events>>

\* onCallState of a connected call sets the queue's timer, for its slot.
HandleConfirmed(c) ==
  /\ Free /\ c \in told
  /\ told' = told \ {c}
  /\ armed' = IF queue[c] # <<>> THEN armed \union {slot[c]} ELSE armed
  /\ UNCHANGED <<phase, slot, media, queue, toneVars, localVars, events>>

\* on_call_media_state, active; onCallMediaState will set the levels.  If pjsua
\* has made a new stream for the call nothing listens to its generator any more.
MediaActive(c) ==
  /\ c \in Ongoing /\ Spent
  /\ heard' \in {heard, heard \ {gen[c]}}
  /\ media' = [media EXCEPT ![c] = TRUE]
  /\ levels' = levels \union {"media"}
  /\ UNCHANGED <<phase, slot, queue, told, armed, gen, port, tonegens, busyTimer, muted,
                 opened, hand, locked, localVars>>

\* on_call_media_state, held: call_deinit_tonegen, which waits for the lock.
MediaHeld(c) ==
  /\ c \in Ongoing /\ c # locked /\ Spent
  /\ media' = [media EXCEPT ![c] = FALSE]
  /\ gen' = [gen EXCEPT ![c] = None]
  /\ tonegens' = tonegens \ {gen[c]}
  /\ port' = [g \in Ports |-> IF g = gen[c] THEN "dead" ELSE port[g]]
  /\ heard' = heard \ {gen[c]}
  /\ UNCHANGED <<phase, slot, queue, told, armed, busyTimer, muted, levels, opened, hand,
                 locked, localVars>>

\* on_call_state, disconnected.  The slot gives up the user data before
\* OnEndCall asks for their generator: it is in the bridge for good, without
\* the stream that has listened to it.
End(c) ==
  /\ c \in Ongoing
  /\ heard' = heard \ {gen[c]}
  /\ phase' = [phase EXCEPT ![c] = "over"]
  /\ media' = [media EXCEPT ![c] = FALSE]
  /\ UNCHANGED <<slot, queue, told, armed, gen, port, tonegens, busyTimer, muted, levels, opened,
                 hand, locked, localVars, events>>

-----------------------------------------------------------------------------
\* Tones and timers

\* The bridge reads a port that has listeners, and no other: the digits of a
\* generator nothing listens to are never over.
ToneEnds(g) ==
  /\ port[g] = "busy" /\ g \in heard
  /\ port' = [port EXCEPT ![g] = "idle"]
  /\ UNCHANGED <<callVars, gen, heard, tonegens, busyTimer, muted, levels, opened, hand, locked,
                 localVars, events>>

\* Mutant: the first silent generator ends the wait.
BusyTimerFirst ==
  /\ Quiet /\ busyTimer
  /\ tonegens' = {g \in tonegens : port[g] = "busy"}
  /\ IF tonegens' = {} \/ tonegens' # tonegens
     THEN busyTimer' = FALSE /\ levels' = levels \union {"timer"}
     ELSE UNCHANGED <<busyTimer, levels>>
  /\ UNCHANGED <<callVars, gen, port, heard, muted, opened, hand, locked, localVars, events>>

\* Mutant: the timer is killed, the levels are not set.
BusyTimerMute ==
  /\ Quiet /\ busyTimer
  /\ tonegens' = {g \in tonegens : port[g] = "busy"}
  /\ busyTimer' = (tonegens' # {})
  /\ UNCHANGED <<callVars, gen, port, heard, muted, opened, hand, locked, levels, localVars,
                 events>>

\* tonegenBusyHandler.  What a destroyed generator says of itself is undefined.
BusyTimer ==
  /\ Quiet /\ busyTimer
  /\ \E wild \in SUBSET {g \in tonegens : port[g] = "dead"} :
       tonegens' = {g \in tonegens : port[g] = "busy"} \union wild
  /\ IF tonegens' = {}
     THEN busyTimer' = FALSE /\ levels' = levels \union {"timer"}
     ELSE UNCHANGED <<busyTimer, levels>>
  /\ UNCHANGED <<callVars, gen, port, heard, muted, opened, hand, locked, localVars, events>>

\* onRefreshLevels, for the timer or for a call whose media came back.
SetLevels(why) ==
  /\ Free /\ why \in levels
  /\ levels' = levels \ {why}
  /\ muted' = FALSE
  /\ opened' = (opened \/ why # "timer")
  /\ UNCHANGED <<callVars, gen, port, heard, tonegens, busyTimer, hand, locked, localVars,
                 events>>

\* on_dtmf_digit, in the worker thread: the far end's digits are played.
Hear ==
  /\ Spent /\ PlayLocal("worker")
  /\ UNCHANGED callVars

\* The sound device has listened to the local tones since call_init_tonegen.
LocalEnds ==
  /\ local = "busy"
  /\ local' = "idle"
  /\ UNCHANGED <<callVars, toneVars, timer, orphan, events>>

\* Mutant: the timer is killed though the tones go on.
DestroyTimerOnce ==
  /\ Quiet
  /\ timer = "ui" \/ orphan
  /\ timer' = "none"
  /\ local' = IF local = "busy" THEN local ELSE "none"
  /\ orphan' = FALSE
  /\ UNCHANGED <<callVars, toneVars, events>>

\* destroyDTMFPlayerTimerHandler.  A timer of the worker thread never fires,
\* and is not killed here; an orphaned one goes on.
DestroyTimer ==
  /\ Quiet
  /\ timer = "ui" \/ orphan
  /\ local # "busy"
  /\ timer' = "none"
  /\ local' = "none"
  /\ UNCHANGED <<callVars, toneVars, orphan, events>>

Init ==
  /\ phase = [c \in Calls |-> "new"]
  /\ slot = [c \in Calls |-> None]
  /\ media = [c \in Calls |-> FALSE]
  /\ queue = [c \in Calls |-> <<>>]
  /\ told = {} /\ armed = {}
  /\ gen = [c \in Calls |-> None]
  /\ port = [g \in Ports |-> "unused"]
  /\ heard = {} /\ tonegens = {} /\ busyTimer = FALSE
  /\ muted = FALSE /\ levels = {} /\ opened = FALSE
  /\ hand = None /\ locked = None
  /\ local = "none" /\ timer = "none" /\ orphan = FALSE
  /\ events = 0

\* What the message loop and the clock do whether or not anything happens.
Loop ==
  \/ Play
  \/ \E c \in Calls : HandleConfirmed(c)
  \/ \E s \in Slots : QueueTimer(s)
  \/ \E g \in Ports : ToneEnds(g)
  \/ BusyTimer
  \/ \E why \in {"timer", "media"} : SetLevels(why)
  \/ LocalEnds
  \/ DestroyTimer

Next ==
  \/ Loop
  \/ \E c \in Calls : Press(c) \/ Confirm(c) \/ MediaActive(c) \/ MediaHeld(c) \/ End(c)
  \/ \E c \in Calls, s \in Slots, q \in Queues : Start(c, s, q)
  \/ Hear

Fairness ==
  /\ WF_vars(Play)
  /\ \A c \in Calls : WF_vars(HandleConfirmed(c))
  /\ \A s \in Slots : WF_vars(QueueTimer(s))
  /\ \A g \in Ports : WF_vars(ToneEnds(g))
  /\ WF_vars(BusyTimer)
  /\ \A why \in {"timer", "media"} : WF_vars(SetLevels(why))
  /\ WF_vars(LocalEnds)
  /\ WF_vars(DestroyTimer)

Spec == Init /\ [][Next]_vars /\ Fairness

-----------------------------------------------------------------------------
\* PROPERTIES

\* The state has the shape the actions rely on.
TypeOK ==
  /\ phase \in [Calls -> {"new", "early", "confirmed", "over"}]
  /\ slot \in [Calls -> Slots \union {None}]
  /\ media \in [Calls -> BOOLEAN]
  /\ queue \in [Calls -> UNION {[1 .. n -> Commands] : n \in 0 .. 3}]
  /\ told \subseteq Calls /\ armed \subseteq Slots
  /\ gen \in [Calls -> Ports \union {None}]
  /\ port \in [Ports -> {"unused", "idle", "busy", "dead"}]
  /\ heard \subseteq Ports /\ tonegens \subseteq Ports /\ levels \subseteq {"timer", "media"}
  /\ {busyTimer, muted, opened, orphan} \subseteq BOOLEAN
  /\ hand \in Ports \union {None} /\ locked \in Calls \union {None}
  /\ local \in {"none", "idle", "busy"} /\ timer \in {"none", "ui", "worker"}
  /\ events \in 0 .. MaxEvents

\* While a call's tones are played the microphone is muted ("mute microphone
\* before play in-band tones", global.cpp:618) until the levels are set for a
\* call whose media came back: the timer never opens it too early.
PlayMuted == (\E g \in Ports : port[g] = "busy") /\ ~opened => muted

\* The timer waits in vain: for a generator that lost its listeners with tones
\* left to play, or one that was destroyed while it was about to be played.
Stuck ==
  \E g \in tonegens : port[g] = "dead" \/ (port[g] = "busy" /\ g \notin heard)

\* The microphone is opened again after the tones, whatever calls are held, come
\* back or end meanwhile: it stays muted for good only if the timer waits in
\* vain for good.
MicBack == <>[]muted => <>[]Stuck

\* A connected call's commands are all dialled, or the call ends: no pause, no
\* hold and no end of another call in the slot stops the queue.
QueueDrains ==
  \A c \in Calls : (phase[c] = "confirmed") ~> (queue[c] = <<>> \/ phase[c] = "over")

\* Local tones the windows' thread has played are given up when they are over,
\* though the worker thread may take over their timer's name.
LocalReleased == (timer = "ui" \/ orphan) ~> (local = "none")

=============================================================================
