--------------------------- MODULE DtmfTonesProofs ---------------------------
(***************************************************************************)
(* The timer of tonegenBusyHandler never opens the microphone while tones  *)
(* of a call are played, for any calls, slots and tone generators.         *)
(*                                                                         *)
(* Two facts carry it: a generator that plays is in DTMFTonegens, and when *)
(* the message that opens the microphone is posted nothing plays, nor can  *)
(* anything begin to before it is handled, because posted messages go      *)
(* before the input and the timers that dial.                              *)
(***************************************************************************)
EXTENDS DtmfTones, SequenceTheorems, TLAPS

Busy == {g \in Ports : port[g] = "busy"}

ShapeOK ==
  /\ port \in [Ports -> {"unused", "idle", "busy", "dead"}]
  /\ hand \in Ports \union {None}

\* Every generator that plays is one the timer asks.
Listed == Busy \subseteq tonegens

\* The timer's message finds no tones, and the windows' thread is not about to
\* play any.
TimerIsRight == "timer" \in levels => hand = None /\ Busy = {}

MutedInv == ShapeOK /\ Listed /\ TimerIsRight /\ PlayMuted

-----------------------------------------------------------------------------
\* What concerns only calls, queues and local tones keeps the invariant.
LEMMA CallsKeep == ASSUME MutedInv, UNCHANGED toneVars PROVE MutedInv'
<1> QED
  BY DEF MutedInv, ShapeOK, Listed, TimerIsRight, PlayMuted, Busy, toneVars

\* ... and so does the end of a call: the stream goes, the generator stays.
LEMMA EndKeeps == ASSUME NEW c \in Calls, MutedInv, End(c) PROVE MutedInv'
<1>1. UNCHANGED <<port, tonegens, hand, muted, levels, opened>>
  BY DEF End
<1> QED BY <1>1 DEF MutedInv, ShapeOK, Listed, TimerIsRight, PlayMuted, Busy

\* Before the playing begins: there is a generator, new or old, and no message
\* of the timer waits (call_play_digit up to global.cpp:600).
LEMMA InBandKeeps ==
  ASSUME NEW c \in Calls, NEW lock, MutedInv, Quiet, gen[c] \in Ports \union {None}, PlayInBand(c, lock)
  PROVE  MutedInv'
<1>1. PICK g \in Generators(c) :
        /\ port' = [port EXCEPT ![g] = IF @ = "unused" THEN "idle" ELSE @]
        /\ hand' = g
        /\ UNCHANGED <<tonegens, muted, levels, opened>>
  BY DEF PlayInBand
<1>2. g \in Ports
  BY DEF Generators
<1>3. ShapeOK'
  BY <1>1, <1>2 DEF MutedInv, ShapeOK
<1>4. Busy' = Busy
  BY <1>1, <1>2 DEF Busy, MutedInv, ShapeOK
<1>5. Listed'
  BY <1>1, <1>4 DEF MutedInv, Listed
<1>6. TimerIsRight'
  BY <1>1 DEF Quiet, TimerIsRight
<1>7. PlayMuted'
  BY <1>1, <1>4 DEF MutedInv, PlayMuted, Busy
<1> QED BY <1>3, <1>5, <1>6, <1>7 DEF MutedInv

\* The other two ways to dial leave the generators of calls alone.
LEMMA DialKeeps ==
  ASSUME NEW c \in Calls, NEW lock, MutedInv, Quiet, gen[c] \in Ports \union {None}, Dial(c, lock)
  PROVE  MutedInv'
<1>1. CASE PlayInBand(c, lock)
  BY <1>1, InBandKeeps
<1>2. CASE PlayLocal("ui")
  BY <1>2, CallsKeep DEF PlayLocal
<1>3. CASE UNCHANGED <<toneVars, localVars>>
  BY <1>3, CallsKeep
<1> QED BY <1>1, <1>2, <1>3 DEF Dial

\* The playing mutes the microphone and lists the generator.
LEMMA PlayKeeps == ASSUME MutedInv, Play PROVE MutedInv'
<1>1. /\ hand # None
      /\ muted' = TRUE
      /\ tonegens' = tonegens \union {hand}
      /\ port' = [port EXCEPT ![hand] = IF @ = "dead" THEN @ ELSE "busy"]
      /\ hand' = None /\ UNCHANGED levels
  BY DEF Play, Free
<1>2. hand \in Ports /\ port \in [Ports -> {"unused", "idle", "busy", "dead"}]
  BY <1>1 DEF MutedInv, ShapeOK
<1>3. ShapeOK'
  BY <1>1, <1>2 DEF ShapeOK
<1>4. Listed'
  BY <1>1, <1>2 DEF MutedInv, Listed, Busy
<1>5. TimerIsRight'
  BY <1>1 DEF MutedInv, TimerIsRight
<1>6. PlayMuted'
  BY <1>1 DEF PlayMuted
<1> QED BY <1>3, <1>4, <1>5, <1>6 DEF MutedInv

\* A step after which no more ports play and no message is new.
LEMMA FewerBusy ==
  ASSUME MutedInv, ShapeOK', Busy' \subseteq Busy, Listed',
         "timer" \in levels' => "timer" \in levels,
         UNCHANGED <<hand, muted, opened>>
  PROVE  MutedInv'
<1>1. TimerIsRight'
  BY DEF MutedInv, TimerIsRight
<1>2. PlayMuted'
  BY DEF MutedInv, PlayMuted, Busy
<1> QED BY <1>1, <1>2 DEF MutedInv

LEMMA MediaActiveKeeps ==
  ASSUME NEW c \in Calls, MutedInv, MediaActive(c) PROVE MutedInv'
<1>1. /\ UNCHANGED <<port, tonegens, hand, muted, opened>>
      /\ levels' = levels \union {"media"}
  BY DEF MediaActive
<1>2. ShapeOK' /\ Busy' = Busy /\ Listed'
  BY <1>1 DEF MutedInv, ShapeOK, Listed, Busy
<1> QED BY <1>1, <1>2, FewerBusy

\* A hold takes the call's generator out of the list and out of the bridge.
LEMMA MediaHeldKeeps ==
  ASSUME NEW c \in Calls, MutedInv, MediaHeld(c) PROVE MutedInv'
<1>1. /\ UNCHANGED <<hand, muted, opened, levels>>
      /\ tonegens' = tonegens \ {gen[c]}
      /\ port' = [g \in Ports |-> IF g = gen[c] THEN "dead" ELSE port[g]]
  BY DEF MediaHeld
<1>2. ShapeOK'
  BY <1>1 DEF MutedInv, ShapeOK
<1>3. Busy' \subseteq Busy
  BY <1>1 DEF Busy
<1>4. Listed'
  BY <1>1 DEF MutedInv, Listed, Busy
<1> QED BY <1>1, <1>2, <1>3, <1>4, FewerBusy

LEMMA ToneEndsKeeps ==
  ASSUME NEW g \in Ports, MutedInv, ToneEnds(g) PROVE MutedInv'
<1>1. /\ UNCHANGED <<hand, muted, opened, levels, tonegens>>
      /\ port' = [port EXCEPT ![g] = "idle"]
  BY DEF ToneEnds
<1>2. ShapeOK' /\ Busy' \subseteq Busy
  BY <1>1 DEF MutedInv, ShapeOK, Busy
<1>3. Listed'
  BY <1>1, <1>2 DEF MutedInv, Listed
<1> QED BY <1>1, <1>2, <1>3, FewerBusy

\* The timer posts its message only when nothing it has listed plays.
LEMMA BusyTimerKeeps == ASSUME MutedInv, BusyTimer PROVE MutedInv'
<1>1. /\ UNCHANGED <<port, hand, muted, opened>>
      /\ hand = None
      /\ tonegens' = {} \/ UNCHANGED levels
  BY DEF BusyTimer, Quiet, Free
<1>2. PICK wild \in SUBSET {g \in tonegens : port[g] = "dead"} :
        tonegens' = {g \in tonegens : port[g] = "busy"} \union wild
  BY DEF BusyTimer
<1>3. Busy' = Busy
  BY <1>1 DEF Busy
<1>4. Listed'
  BY <1>2, <1>3 DEF MutedInv, Listed, Busy
<1>5. TimerIsRight'
  BY <1>1, <1>3, <1>4 DEF MutedInv, TimerIsRight, Listed
<1>6. ShapeOK' /\ PlayMuted'
  BY <1>1 DEF MutedInv, ShapeOK, PlayMuted
<1> QED BY <1>4, <1>5, <1>6 DEF MutedInv

\* The microphone is opened: for the timer, when nothing plays.
LEMMA SetLevelsKeeps ==
  ASSUME NEW why \in {"timer", "media"}, MutedInv, SetLevels(why) PROVE MutedInv'
<1>1. /\ UNCHANGED <<port, tonegens, hand>>
      /\ why \in levels
      /\ levels' = levels \ {why}
      /\ opened' = (opened \/ why # "timer")
  BY DEF SetLevels
<1>2. ShapeOK' /\ Listed' /\ Busy' = Busy
  BY <1>1 DEF MutedInv, ShapeOK, Listed, Busy
<1>3. TimerIsRight'
  BY <1>1, <1>2 DEF MutedInv, TimerIsRight
<1>4. PlayMuted'
  <2>1. CASE why = "timer"
    <3>1. Busy' = {}
      BY <1>1, <1>2, <2>1 DEF MutedInv, TimerIsRight
    <3> QED BY <3>1 DEF PlayMuted, Busy
  <2>2. CASE why # "timer"
    BY <1>1, <2>2 DEF PlayMuted
  <2> QED BY <2>1, <2>2
<1> QED BY <1>2, <1>3, <1>4 DEF MutedInv

-----------------------------------------------------------------------------
\* The generator of a call is one of the program's, for every call and step.
GenOK == gen \in [Calls -> Ports \union {None}]

LEMMA GenStep == ASSUME GenOK, [Next]_vars PROVE GenOK'
<1>1. ASSUME NEW c \in Calls, NEW lock, Dial(c, lock) PROVE GenOK'
  <2>1. CASE PlayInBand(c, lock)
    <3>1. PICK g \in Generators(c) : gen' = [gen EXCEPT ![c] = g]
      BY <2>1 DEF PlayInBand
    <3>2. g \in Ports \union {None}
      BY <3>1 DEF Generators, GenOK
    <3> QED BY <3>1, <3>2 DEF GenOK
  <2>2. CASE UNCHANGED toneVars
    BY <2>2 DEF toneVars, GenOK
  <2> QED BY <1>1, <2>1, <2>2 DEF Dial, PlayLocal
<1>2. ASSUME UNCHANGED gen PROVE GenOK'
  BY <1>2 DEF GenOK
<1>3. ASSUME NEW c \in Calls, Press(c) PROVE GenOK'
  BY <1>1, <1>3 DEF Press
<1>4. ASSUME NEW s \in Slots, QueueTimer(s) PROVE GenOK'
  <2>1. (\E c \in Calls : Dial(c, c)) \/ UNCHANGED toneVars
    BY <1>4 DEF QueueTimer, Ongoing
  <2> QED BY <1>1, <1>2, <2>1 DEF toneVars
<1>5. ASSUME NEW c \in Calls, MediaHeld(c) PROVE GenOK'
  BY <1>5 DEF MediaHeld, GenOK
<1>6. ASSUME NEW c \in Calls, Confirm(c) \/ MediaActive(c) \/ End(c) \/ HandleConfirmed(c)
      PROVE GenOK'
  <2>1. UNCHANGED gen
    BY <1>6 DEF Confirm, MediaActive, End, HandleConfirmed, toneVars
  <2> QED BY <1>2, <2>1
<1>7. ASSUME NEW c \in Calls, NEW s \in Slots, NEW q \in Queues, Start(c, s, q) PROVE GenOK'
  BY <1>2, <1>7 DEF Start, toneVars
<1>8. CASE Play \/ BusyTimer \/ LocalEnds \/ DestroyTimer \/ Hear \/ UNCHANGED vars
  BY <1>2, <1>8 DEF Play, BusyTimer, LocalEnds, DestroyTimer, Hear, PlayLocal, vars, toneVars
<1>9. ASSUME NEW g \in Ports, ToneEnds(g) PROVE GenOK'
  BY <1>2, <1>9 DEF ToneEnds
<1>10. ASSUME NEW why \in {"timer", "media"}, SetLevels(why) PROVE GenOK'
  BY <1>2, <1>10 DEF SetLevels
<1> QED BY <1>3, <1>4, <1>5, <1>6, <1>7, <1>8, <1>9, <1>10 DEF Next, Loop

LEMMA MutedStep == ASSUME MutedInv, GenOK, [Next]_vars PROVE MutedInv'
<1>1. \A c \in Calls : gen[c] \in Ports \union {None}
  BY DEF GenOK
<1>2. ASSUME NEW c \in Calls, Press(c) PROVE MutedInv'
  BY <1>1, <1>2, DialKeeps DEF Press
<1>3. ASSUME NEW s \in Slots, QueueTimer(s) PROVE MutedInv'
  <2>1. Quiet /\ ((\E c \in Calls : Dial(c, c)) \/ UNCHANGED toneVars)
    BY <1>3 DEF QueueTimer, Ongoing
  <2> QED BY <1>1, <2>1, DialKeeps, CallsKeep
<1>4. ASSUME NEW c \in Calls, Confirm(c) \/ End(c) \/ HandleConfirmed(c) PROVE MutedInv'
  BY <1>4, CallsKeep, EndKeeps DEF Confirm, HandleConfirmed
<1>5. ASSUME NEW c \in Calls, NEW s \in Slots, NEW q \in Queues, Start(c, s, q) PROVE MutedInv'
  BY <1>5, CallsKeep DEF Start
<1>6. CASE LocalEnds \/ DestroyTimer \/ Hear \/ UNCHANGED vars
  BY <1>6, CallsKeep DEF LocalEnds, DestroyTimer, Hear, PlayLocal, vars
<1> QED
  BY <1>2, <1>3, <1>4, <1>5, <1>6, PlayKeeps, MediaActiveKeeps, MediaHeldKeeps,
     ToneEndsKeeps, BusyTimerKeeps, SetLevelsKeeps DEF Next, Loop

\* While a call's tones are played the microphone is muted, until the levels
\* are set for a call whose media came back: the timer does not open it.
THEOREM MutedWhilePlaying == Spec => []PlayMuted
<1>1. Init => MutedInv /\ GenOK
  <2> SUFFICES ASSUME Init PROVE MutedInv /\ GenOK
    OBVIOUS
  <2>1. Busy = {}
    BY DEF Init, Busy
  <2>2. MutedInv
    BY <2>1 DEF Init, MutedInv, ShapeOK, Listed, TimerIsRight, PlayMuted
  <2>3. GenOK
    BY DEF Init, GenOK
  <2> QED BY <2>2, <2>3
<1>2. MutedInv /\ GenOK /\ [Next]_vars => MutedInv' /\ GenOK'
  BY MutedStep, GenStep
<1>3. MutedInv => PlayMuted
  BY DEF MutedInv
<1> QED BY <1>1, <1>2, <1>3, PTL DEF Spec

-----------------------------------------------------------------------------
(* The types.  Of the commands one has to know that a number has three at  *)
(* most, and that the timer takes them from the front.                     *)

Lines == UNION {[1 .. n -> Commands] : n \in 0 .. 3}

CallTypes ==
  /\ phase \in [Calls -> {"new", "early", "confirmed", "over"}]
  /\ slot \in [Calls -> Slots \union {None}]
  /\ media \in [Calls -> BOOLEAN]
  /\ queue \in [Calls -> Lines]
  /\ told \subseteq Calls /\ armed \subseteq Slots
  /\ \A c \in Calls : slot[c] = None => phase[c] = "new"
  /\ \A c \in told : phase[c] # "new"

ToneTypes ==
  /\ gen \in [Calls -> Ports \union {None}]
  /\ port \in [Ports -> {"unused", "idle", "busy", "dead"}]
  /\ heard \subseteq Ports /\ tonegens \subseteq Ports /\ levels \subseteq {"timer", "media"}
  /\ busyTimer \in BOOLEAN /\ muted \in BOOLEAN /\ opened \in BOOLEAN
  /\ hand \in Ports \union {None} /\ locked \in Calls \union {None}

LocalTypes ==
  /\ orphan \in BOOLEAN
  /\ local \in {"none", "idle", "busy"} /\ timer \in {"none", "ui", "worker"}

EventTypes == events \in 0 .. MaxEvents

Types == CallTypes /\ ToneTypes /\ LocalTypes /\ EventTypes

\* What remains of a number's commands when one has been dialled.
LEMMA RestIsLine == ASSUME NEW q \in Lines, q # <<>> PROVE Tail(q) \in Lines
<1>1. PICK n \in 0 .. 3 : q \in [1 .. n -> Commands]
  BY DEF Lines
<1>2. q \in Seq(Commands) /\ Len(q) = n
  BY <1>1
<1>3. n # 0
  BY <1>2
<1>4. Tail(q) \in [1 .. n - 1 -> Commands]
  <2>1. Tail(q) \in Seq(Commands) /\ Len(Tail(q)) = n - 1
    BY <1>2, <1>3, HeadTailProperties
  <2> QED BY <2>1, LenProperties
<1>5. n - 1 \in 0 .. 3
  BY <1>3
<1> QED BY <1>4, <1>5 DEF Lines

LEMMA QueuesAreLines == Queues \subseteq Lines
<1>1. <<>> \in [1 .. 0 -> Commands]
  OBVIOUS
<1>2. <<"digits">> \in [1 .. 1 -> Commands]
  BY DEF Commands
<1>3. <<"digits", "pause", "digits">> \in [1 .. 3 -> Commands]
  BY DEF Commands
<1>4. 0 \in 0 .. 3 /\ 1 \in 0 .. 3 /\ 3 \in 0 .. 3
  OBVIOUS
<1> QED BY <1>1, <1>2, <1>3, <1>4 DEF Queues, Lines

\* Dialling, by the user or by the timer (msip_call_dial_dtmf).
LEMMA DialTypes ==
  ASSUME NEW c \in Calls, NEW lock \in Calls \union {None}, ToneTypes, LocalTypes, Dial(c, lock)
  PROVE  ToneTypes' /\ LocalTypes'
<1>1. CASE PlayInBand(c, lock)
  <2>1. PICK g \in Generators(c) :
          /\ gen' = [gen EXCEPT ![c] = g]
          /\ port' = [port EXCEPT ![g] = IF @ = "unused" THEN "idle" ELSE @]
          /\ heard' \in {heard, heard \union {g}}
          /\ hand' = g /\ locked' = lock
          /\ UNCHANGED <<tonegens, busyTimer, muted, levels, opened, localVars>>
    BY <1>1 DEF PlayInBand
  <2>2. g \in Ports
    BY <2>1 DEF Generators, ToneTypes
  <2>3. ToneTypes'
    BY <2>1, <2>2 DEF ToneTypes
  <2> QED BY <2>1, <2>3 DEF LocalTypes, localVars
<1>2. CASE PlayLocal("ui")
  BY <1>2 DEF PlayLocal, ToneTypes, LocalTypes, toneVars
<1>3. CASE UNCHANGED <<toneVars, localVars>>
  BY <1>3 DEF ToneTypes, LocalTypes, toneVars, localVars
<1> QED BY <1>1, <1>2, <1>3 DEF Dial

\* The bound of the user's and the far ends' events is kept.
LEMMA EventSpent == ASSUME EventTypes, Spent \/ UNCHANGED events PROVE EventTypes'
BY MaxEventsAssumption DEF EventTypes, Spent

LEMMA TypesStep == ASSUME Types, [Next]_vars PROVE Types'
<1> USE DEF Types
<1>1. ASSUME NEW c \in Calls, Press(c) PROVE Types'
  <2>1. CallTypes' /\ EventTypes'
    BY <1>1, EventSpent DEF Press, CallTypes, callVars
  <2> QED BY <1>1, <2>1, DialTypes DEF Press
<1>2. ASSUME NEW s \in Slots, QueueTimer(s) PROVE Types'
  <2> DEFINE here == {c \in Ongoing : slot[c] = s /\ queue[c] # <<>>}
  <2>1. /\ queue' = [c \in Calls |-> IF c \in here THEN Tail(queue[c]) ELSE queue[c]]
        /\ armed' = armed \/ armed' = armed \ {s}
        /\ (\E c \in here : Dial(c, c)) \/ UNCHANGED <<toneVars, localVars>>
        /\ UNCHANGED <<phase, slot, media, told, events>>
    BY <1>2 DEF QueueTimer
  <2>2. queue' \in [Calls -> Lines]
    BY <2>1, RestIsLine DEF CallTypes
  <2>3. CallTypes' /\ EventTypes'
    BY <2>1, <2>2, EventSpent DEF CallTypes
  <2>4. CASE \E c \in here : Dial(c, c)
    BY <2>3, <2>4, DialTypes DEF Ongoing
  <2>5. CASE UNCHANGED <<toneVars, localVars>>
    BY <2>3, <2>5 DEF ToneTypes, LocalTypes, toneVars, localVars
  <2> QED BY <2>1, <2>4, <2>5
<1>3. ASSUME NEW c \in Calls, NEW s \in Slots, NEW q \in Queues, Start(c, s, q) PROVE Types'
  <2>1. /\ phase' = [phase EXCEPT ![c] = "early"]
        /\ slot' = [slot EXCEPT ![c] = s]
        /\ queue' = [queue EXCEPT ![c] = q]
        /\ UNCHANGED <<media, told, armed, toneVars, localVars, events>>
    BY <1>3 DEF Start
  <2>2. q \in Lines
    BY QueuesAreLines
  <2>3. s # None
    BY NoneAssumption
  <2>4. CallTypes'
    BY <2>1, <2>2, <2>3 DEF CallTypes
  <2> QED BY <2>1, <2>4, EventSpent DEF ToneTypes, LocalTypes, toneVars, localVars
<1>4. ASSUME NEW c \in Calls, Confirm(c) \/ HandleConfirmed(c) \/ End(c) PROVE Types'
  <2>1. /\ heard' \subseteq heard
        /\ UNCHANGED <<gen, port, tonegens, busyTimer, muted, levels, opened, hand, locked,
                      localVars, events>>
    BY <1>4 DEF Confirm, HandleConfirmed, End, toneVars
  <2>2. CASE Confirm(c)
    <3>1. /\ phase[c] = "early" /\ phase' = [phase EXCEPT ![c] = "confirmed"]
          /\ told' = told \union {c}
          /\ UNCHANGED <<slot, media, queue, armed>>
      BY <2>2 DEF Confirm
    <3> QED BY <2>1, <3>1, EventSpent DEF CallTypes, ToneTypes, LocalTypes, localVars
  <2>3. CASE HandleConfirmed(c)
    <3>1. /\ c \in told /\ told' = told \ {c}
          /\ armed' = armed \/ armed' = armed \union {slot[c]}
          /\ UNCHANGED <<phase, slot, media, queue>>
      BY <2>3 DEF HandleConfirmed
    <3>2. slot[c] \in Slots
      BY <3>1 DEF CallTypes
    <3> QED BY <2>1, <3>1, <3>2, EventSpent DEF CallTypes, ToneTypes, LocalTypes, localVars
  <2>4. CASE End(c)
    <3>1. /\ phase[c] \in {"early", "confirmed"}
          /\ phase' = [phase EXCEPT ![c] = "over"]
          /\ media' = [media EXCEPT ![c] = FALSE]
          /\ UNCHANGED <<slot, queue, told, armed>>
      BY <2>4 DEF End, Ongoing
    <3> QED BY <2>1, <3>1, EventSpent DEF CallTypes, ToneTypes, LocalTypes, localVars
  <2> QED BY <1>4, <2>2, <2>3, <2>4
<1>5. ASSUME NEW c \in Calls, MediaActive(c) \/ MediaHeld(c) PROVE Types'
  <2>1. /\ \E m \in BOOLEAN : media' = [media EXCEPT ![c] = m]
        /\ UNCHANGED <<phase, slot, queue, told, armed, localVars>>
        /\ Spent
    BY <1>5 DEF MediaActive, MediaHeld
  <2>2. CallTypes' /\ LocalTypes' /\ EventTypes'
    BY <2>1, EventSpent DEF CallTypes, LocalTypes, localVars
  <2>3. ToneTypes'
    BY <1>5 DEF MediaActive, MediaHeld, ToneTypes
  <2> QED BY <2>2, <2>3
<1>6. ASSUME NEW g \in Ports, ToneEnds(g) PROVE Types'
  BY <1>6, EventSpent DEF ToneEnds, CallTypes, ToneTypes, LocalTypes, callVars, localVars
<1>7. CASE Play
  BY <1>7, EventSpent DEF Play, Free, CallTypes, ToneTypes, LocalTypes, callVars, localVars
<1>8. CASE BusyTimer
  <2>1. /\ tonegens' \subseteq tonegens
        /\ busyTimer' = busyTimer \/ busyTimer' = FALSE
        /\ levels' = levels \/ levels' = levels \union {"timer"}
        /\ UNCHANGED <<callVars, gen, port, heard, muted, opened, hand, locked, localVars, events>>
    BY <1>8 DEF BusyTimer
  <2> QED BY <2>1, EventSpent DEF CallTypes, ToneTypes, LocalTypes, callVars, localVars
<1>9. ASSUME NEW why \in {"timer", "media"}, SetLevels(why) PROVE Types'
  BY <1>9, EventSpent DEF SetLevels, CallTypes, ToneTypes, LocalTypes, callVars, localVars
<1>10. CASE LocalEnds \/ DestroyTimer \/ Hear \/ UNCHANGED vars
  <2>1. CallTypes' /\ ToneTypes'
    BY <1>10 DEF LocalEnds, DestroyTimer, Hear, PlayLocal, CallTypes, ToneTypes, vars,
                 callVars, toneVars
  <2>2. LocalTypes'
    BY <1>10 DEF LocalEnds, DestroyTimer, Hear, PlayLocal, LocalTypes, vars, localVars
  <2>3. EventTypes'
    BY <1>10, EventSpent DEF LocalEnds, DestroyTimer, Hear, vars
  <2> QED BY <2>1, <2>2, <2>3
<1> QED
  BY <1>1, <1>2, <1>3, <1>4, <1>5, <1>6, <1>7, <1>8, <1>9, <1>10 DEF Next, Loop

\* The state keeps its types: a timer that is set names a slot a call has had,
\* and a generator that is played is one the program has made for a call.
THEOREM ToneStateTypes == Spec => []TypeOK
<1>1. Init => Types
  <2> SUFFICES ASSUME Init PROVE Types
    OBVIOUS
  <2>1. <<>> \in Lines
    BY QueuesAreLines DEF Queues
  <2>2. CallTypes
    BY <2>1 DEF Init, CallTypes
  <2>3. ToneTypes /\ LocalTypes
    BY DEF Init, ToneTypes, LocalTypes
  <2>4. EventTypes
    BY MaxEventsAssumption DEF Init, EventTypes
  <2> QED BY <2>2, <2>3, <2>4 DEF Types
<1>2. Types => TypeOK
  BY DEF Types, CallTypes, ToneTypes, LocalTypes, EventTypes, Lines, TypeOK
<1> QED BY <1>1, <1>2, TypesStep, PTL DEF Spec
=============================================================================
