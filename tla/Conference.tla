------------------------------ MODULE Conference ------------------------------
(***************************************************************************)
(* The conference and the call recording of MicroSIP.                      *)
(*                                                                         *)
(* Every call of pjsua has a slot, and the slot a pointer to MicroSIP's    *)
(* call_user_data.  The conference is no object of its own: it is the set  *)
(* of calls whose user data says inConference, their pairwise connections  *)
(* in pjmedia's bridge, and the recorder some of them share by id.  The    *)
(* three are kept together by msip_conference_join, msip_conference_leave, *)
(* msip_call_recording_start and msip_call_recording_stop, called from the *)
(* media callback of pjsua's worker thread and from the handlers of the UI *)
(* thread.  A handler is one step here, but the UI thread's loops over the *)
(* calls (end, merge all, separate all) take one step per call, so that    *)
(* the worker thread runs in between.                                      *)
(*                                                                         *)
(* A member of Calls is one call from its creation to its end; its number  *)
(* is its place in pjsua's slot order.  Reuse of slots is CallControl's.   *)
(***************************************************************************)
EXTENDS Naturals

CONSTANTS Calls,          \* the calls of a run
          Recorders,      \* pjsua's recorder ids
          NoCall, NoRec, NoData,
          AutoRecording,  \* accountSettings.autoRecording
          InviteMayFail   \* whether CallStart may fail for an invited number

ASSUME CallsAssumption == Calls \subseteq Nat
ASSUME NoCallAssumption == NoCall \notin Calls
ASSUME NoRecAssumption == NoRec \notin Recorders

Phases == {"idle", "setup", "confirmed", "hanging", "over", "lost"}

\* call_user_data, as far as the conference goes
Data == [conf : BOOLEAN, rec : Recorders \union {NoRec}]
NewData == [conf |-> FALSE, rec |-> NoRec]

ASSUME NoDataAssumption == NoData \notin Data

VARIABLES
  phase,   \* the invite session of a call, as pjsua keeps it
  tab,     \* whether a tab of the messages window has the call's id
  data,    \* the user data attached to the call's slot, or NoData
  ending,  \* the user data handed to the UI with the call's last message
  media,   \* none (no conference port), active, or held by this side
  bridge,  \* pairs of calls connected to each other in the bridge
  taps,    \* <<call, recorder>>: the call's port is connected to the file's
  live,    \* recorders that are open
  quiet,   \* of these, those whose port has level 0: silence goes into the file
  ui       \* the loop the UI thread is in

vars == <<phase, tab, data, ending, media, bridge, taps, live, quiet, ui>>

Idle == [op |-> "idle", call |-> NoCall, rest |-> {}]

Init ==
  /\ phase = [c \in Calls |-> "idle"]
  /\ tab = [c \in Calls |-> FALSE]
  /\ data = [c \in Calls |-> NoData]
  /\ ending = [c \in Calls |-> NoData]
  /\ media = [c \in Calls |-> "none"]
  /\ bridge = {}
  /\ taps = {}
  /\ live = {}
  /\ quiet = {}
  /\ ui = Idle

-----------------------------------------------------------------------------
(* What the handlers look at. *)

\* pjsua_enum_calls: the slots that have an invite session, a call that this
\* side has hung up among them until its BYE is answered.
Enum == {c \in Calls : phase[c] \in {"setup", "confirmed", "hanging"}}

\* pjsua_call_is_active
Active == {c \in Calls : phase[c] \in {"setup", "confirmed"}}

InConf(d, c) == d[c] # NoData /\ d[c].conf
Recording(d, c) == d[c] # NoData /\ d[c].rec # NoRec

\* call_info.conf_slot # PJSUA_INVALID_ID and pjsua_call_has_media, where the
\* media of the calls are md.
Slotted(md, c) == md[c] # "none"

First(S) == CHOOSE x \in S : \A y \in S : x <= y

Members(d, c) == {x \in Enum \ {c} : InConf(d, x)}
Holders(d, c) == {x \in Members(d, c) : Recording(d, x)}

\* While the UI thread ends a conference it holds the lock of the call it was
\* started from.  A handler of this call waits, and so does a handler that looks
\* through the members of the conference.
Unlocked(c) == ui.op = "ending" => c # ui.call
AllUnlocked(c) == ui.op = "ending" => c # ui.call /\ ~InConf(data, c)
UiIdle == ui.op = "idle"

PairsOf(c) == {p \in bridge : c \in p}
TapsOf(c) == {t \in taps : t[1] = c}
TapsInto(r) == {t \in taps : t[2] = r}

-----------------------------------------------------------------------------
(* msip_call_recording_start and msip_call_recording_stop *)

\* The calls that get a recorder when c joins: c itself when a member with
\* media records, and every member with media that has none when c records,
\* or has got one before the loop comes to it.
Newcomers(d, md, c) ==
  LET peers == {x \in Members(d, c) : Slotted(md, x)}
      source == {x \in peers : Recording(d, x)}
  IN  {x \in peers \ source :
         \/ Recording(d, c)
         \/ Slotted(md, c) /\ \E y \in source : y < x}
      \union {x \in {c} : Slotted(md, c) /\ ~Recording(d, c) /\ source # {}}

\* Mutant: the first member, whether it records or not
SharedRecOfFirst(d) == d[First({x \in Enum : InConf(d, x)})].rec

\* The recorder a member of the conference takes over: that of the first
\* member that records.
SharedRec(d) == d[First({x \in Enum : InConf(d, x) /\ Recording(d, x)})].rec

Assign(d, S, r) == [x \in Calls |-> IF x \in S THEN [d[x] EXCEPT !.rec = r] ELSE d[x]]

\* msip_call_recording_start(c) of a call that has a port and no recorder
RecordingStart(c) ==
  IF InConf(data, c) /\ Holders(data, c) # {}
  THEN LET r == data[First(Holders(data, c))].rec
       IN  /\ data' = Assign(data, {c}, r)
           /\ taps' = taps \union {<<c, r>>}
           /\ UNCHANGED <<live, quiet>>
  ELSE \/ \E r \in Recorders \ live :
            LET S == {c} \union (IF InConf(data, c)
                                 THEN {x \in Members(data, c) : Slotted(media, x)} ELSE {})
            IN  /\ data' = Assign(data, S, r)
                /\ taps' = taps \union (S \X {r})
                /\ live' = live \union {r}
                /\ UNCHANGED quiet
       \/ UNCHANGED <<data, taps, live, quiet>>   \* pjsua_recorder_create fails

\* Mutant: the file is completed though another call records into it.
CompletedAlways(c, r) == {r} \ {NoRec}

\* msip_call_recording_stop of call c's user data that have recorder r (or
\* none) completes the file unless another call's user data have the recorder.
Completed(c, r) ==
  IF r = NoRec \/ \E x \in Enum \ {c} : data[x] # NoData /\ data[x].rec = r THEN {} ELSE {r}

\* Mutant: who stops recording silences the file, as who is held does.
RecordingStopQuiet(c, r) ==
  /\ live' = live \ Completed(c, r)
  /\ quiet' = (quiet \union {r}) \intersect live'
  /\ taps' = {t \in taps : t # <<c, r>> /\ t[2] \notin Completed(c, r)}

\* Mutant: the port stays connected to a file that goes on.
RecordingStopConnected(c, r) ==
  /\ live' = live \ Completed(c, r)
  /\ quiet' = quiet \ Completed(c, r)
  /\ taps' = {t \in taps : t[2] \notin Completed(c, r)}

RecordingStop(c, r) ==
  /\ live' = live \ Completed(c, r)
  /\ quiet' = quiet \ Completed(c, r)
  /\ taps' = {t \in taps : t # <<c, r>> /\ t[2] \notin Completed(c, r)}

\* The same with force: the button stops the file for all calls that share it.
RecordingStopAll(r) ==
  /\ data' = [x \in Calls |-> IF x \in Enum /\ data[x] # NoData /\ data[x].rec = r
                              THEN [data[x] EXCEPT !.rec = NoRec] ELSE data[x]]
  /\ live' = live \ {r}
  /\ quiet' = quiet \ {r}
  /\ taps' = taps \ TapsInto(r)

-----------------------------------------------------------------------------
(* msip_conference_join and msip_conference_leave *)

\* msip_conference_join(c), called when the user data are d, the media md, the
\* connections b and t.
ConferenceJoin(d, md, c, b, t) ==
  IF InConf(d, c)
  THEN LET peers == {x \in Members(d, c) : Slotted(md, x)}
           new == Newcomers(d, md, c)
       IN  /\ data' = IF new = {} THEN d ELSE Assign(d, new, SharedRec(d))
           /\ bridge' = b \union {{c, x} : x \in {y \in peers : Slotted(md, c)}}
           /\ taps' = IF new = {} THEN t ELSE t \union (new \X {SharedRec(d)})
  ELSE data' = d /\ bridge' = b /\ taps' = t

\* The last member left in a conference is not in a conference.
Dissolve(d, c) ==
  [x \in Calls |-> IF Members(d, c) = {x} THEN [d[x] EXCEPT !.conf = FALSE] ELSE d[x]]

\* Mutant: the user data are reset before the recording is stopped.
ConferenceLeaveReset(c) ==
  IF InConf(data, c)
  THEN /\ RecordingStop(c, NoRec)
       /\ bridge' = bridge \ {{c, x} : x \in Members(data, c)}
       /\ data' = [Dissolve(data, c) EXCEPT ![c] = NewData]
  ELSE UNCHANGED <<data, bridge, taps, live, quiet>>

\* Mutant: the members are disconnected from each other too.
ConferenceLeaveCuts(c) ==
  IF InConf(data, c)
  THEN /\ RecordingStop(c, data[c].rec)
       /\ bridge' = {p \in bridge : p \intersect Members(data, c) = {}}
       /\ data' = [Dissolve(data, c) EXCEPT ![c] = NewData]
  ELSE UNCHANGED <<data, bridge, taps, live, quiet>>

\* Mutant: the call stays connected to the members.
ConferenceLeaveConnected(c) ==
  IF InConf(data, c)
  THEN /\ RecordingStop(c, data[c].rec)
       /\ bridge' = bridge
       /\ data' = [Dissolve(data, c) EXCEPT ![c] = NewData]
  ELSE UNCHANGED <<data, bridge, taps, live, quiet>>

\* msip_conference_leave(c) with hold false, from Separate and OnSeparateAll
ConferenceLeave(c) ==
  IF InConf(data, c)
  THEN /\ RecordingStop(c, data[c].rec)
       /\ bridge' = bridge \ {{c, x} : x \in Members(data, c)}
       /\ data' = [Dissolve(data, c) EXCEPT ![c] = NewData]
  ELSE UNCHANGED <<data, bridge, taps, live, quiet>>

-----------------------------------------------------------------------------
(* pjsua's worker thread *)

\* on_incoming_call or CallMake: the slot gets its user data with the call.
NewCall(c) ==
  /\ phase[c] = "idle"
  /\ \A x \in Calls : x < c => phase[x] # "idle"
  /\ phase' = [phase EXCEPT ![c] = "setup"]
  /\ data' = [data EXCEPT ![c] = NewData]
  /\ UNCHANGED <<tab, ending, media, bridge, taps, live, quiet, ui>>

\* on_call_state, CONFIRMED
Confirm(c) ==
  /\ phase[c] = "setup"
  /\ AllUnlocked(c)
  /\ phase' = [phase EXCEPT ![c] = "confirmed"]
  /\ IF AutoRecording /\ Slotted(media, c) /\ ~Recording(data, c)
     THEN RecordingStart(c)
     ELSE UNCHANGED <<data, taps, live, quiet>>
  /\ UNCHANGED <<tab, ending, media, bridge, ui>>

\* The level that on_call_media_state gives the port of the call's file
Audible(d, c) == quiet' = quiet \ {d[c].rec}
Silenced(d, c) == quiet' = (quiet \union ({d[c].rec} \ {NoRec})) \intersect live'

\* Mutant: a re-INVITE does not connect the call to the conference again.
MediaActiveAlone(c) ==
  /\ c \in Active
  /\ AllUnlocked(c)
  /\ media' = [media EXCEPT ![c] = "active"]
  /\ bridge' = bridge \ PairsOf(c)
  /\ taps' = (taps \ TapsOf(c)) \union ({c} \X ({data[c].rec} \ {NoRec}))
  /\ Audible(data, c)
  /\ UNCHANGED <<phase, tab, data, ending, live, ui>>

\* Mutant: the level is set before the call has got the members' recorder.
MediaActiveEarly(c) ==
  /\ c \in Active
  /\ AllUnlocked(c)
  /\ media' = [media EXCEPT ![c] = "active"]
  /\ ConferenceJoin(data, media', c, bridge \ PairsOf(c), taps \ TapsOf(c))
  /\ Audible(data, c)
  /\ UNCHANGED <<phase, tab, ending, live, ui>>

\* on_call_media_state after an answer, a hold or a re-INVITE.  pjsua restarts
\* the stream, and its connections are gone, when the media has changed.  The
\* recorder that the call then has, its own or the members', is given level 1.
MediaActive(c) ==
  /\ c \in Active
  /\ AllUnlocked(c)
  /\ media' = [media EXCEPT ![c] = "active"]
  /\ \E restart \in {media[c] # "active", TRUE} :
       ConferenceJoin(data, media', c,
         IF restart THEN bridge \ PairsOf(c) ELSE bridge,
         (IF restart THEN taps \ TapsOf(c) ELSE taps)
           \union ({c} \X ({data[c].rec} \ {NoRec})))
  /\ Audible(data', c)
  /\ UNCHANGED <<phase, tab, ending, live, ui>>

\* The same when the call is put on hold ("held") or its stream is stopped: the
\* recorder's port gets level 0, for all calls that share it, and
\* msip_conference_leave with hold true stops the call's recording and keeps
\* its membership.
MediaHeld(c) ==
  /\ c \in Active
  /\ AllUnlocked(c)
  /\ \E m \in {"held", "none"} \ {media[c]} : media' = [media EXCEPT ![c] = m]
  /\ bridge' = bridge \ PairsOf(c)
  /\ LET stopped == IF InConf(data, c) THEN Completed(c, data[c].rec) ELSE {}
     IN  /\ live' = live \ stopped
         /\ taps' = {t \in taps \ TapsOf(c) : t[2] \notin stopped}
  /\ Silenced(data, c)
  /\ data' = IF InConf(data, c) THEN [data EXCEPT ![c].rec = NoRec] ELSE data
  /\ UNCHANGED <<phase, tab, ending, ui>>

\* pjsua takes the media of a call away with its port and all connections.
MediaGone(c) ==
  /\ media' = [media EXCEPT ![c] = "none"]
  /\ bridge' = bridge \ PairsOf(c)
  /\ taps' = taps \ TapsOf(c)

\* The far end ends the call: on_call_state, DISCONNECTED, detaches the user
\* data and hands them to the UI; then pjsua frees the slot.
RemoteEnd(c) ==
  /\ c \in Active
  /\ Unlocked(c)
  /\ phase' = [phase EXCEPT ![c] = "over"]
  /\ ending' = [ending EXCEPT ![c] = data[c]]
  /\ data' = [data EXCEPT ![c] = NoData]
  /\ MediaGone(c)
  /\ UNCHANGED <<tab, live, quiet, ui>>

\* The same with status 481: on_call_state returns before it looks at the user
\* data, and pjsua's reset_call drops the pointer.
Vanish(c) ==
  /\ c \in Active
  /\ phase' = [phase EXCEPT ![c] = "lost"]
  /\ data' = [data EXCEPT ![c] = NoData]
  /\ MediaGone(c)
  /\ UNCHANGED <<tab, ending, live, quiet, ui>>

\* call_timeout_callback: pjsua_call_hangup calls on_call_state at once, and the
\* slot stays in use until the BYE is answered.
AutoHangup(c) ==
  /\ phase[c] = "confirmed"
  /\ Unlocked(c)
  /\ phase' = [phase EXCEPT ![c] = "hanging"]
  /\ ending' = [ending EXCEPT ![c] = data[c]]
  /\ data' = [data EXCEPT ![c] = NoData]
  /\ MediaGone(c)
  /\ UNCHANGED <<tab, live, quiet, ui>>

\* The BYE or the INVITE transaction of a hung up call is done: reset_call.
ByeDone(c) ==
  /\ phase[c] = "hanging"
  /\ phase' = [phase EXCEPT ![c] = "over"]
  /\ data' = [data EXCEPT ![c] = NoData]
  /\ UNCHANGED <<tab, ending, media, bridge, taps, live, quiet, ui>>

-----------------------------------------------------------------------------
(* The UI thread *)

\* A message of the call that came before its last one reaches AddTab, which
\* gives the call a tab unless another call has the tab of its number.
ShowTab(c) ==
  /\ UiIdle
  /\ phase[c] \in {"setup", "confirmed", "lost"} \/ ending[c] # NoData
  /\ ~tab[c]
  /\ tab' = [tab EXCEPT ![c] = TRUE]
  /\ UNCHANGED <<phase, data, ending, media, bridge, taps, live, quiet, ui>>

\* onCallState, DISCONNECTED.  OnEndCall returns before it leaves the
\* conference and stops the recording when no tab has the call's id.
HandleEnd(c) ==
  /\ UiIdle
  /\ ending[c] # NoData
  /\ IF tab[c]
     THEN /\ RecordingStop(c, ending[c].rec)
          /\ data' = IF ending[c].conf THEN Dissolve(data, c) ELSE data
     ELSE UNCHANGED <<data, taps, live, quiet>>
  /\ tab' = [tab EXCEPT ![c] = FALSE]
  /\ ending' = [ending EXCEPT ![c] = NoData]
  /\ UNCHANGED <<phase, media, bridge, ui>>

\* msip_call_hangup_fast.  OnEndCall runs right after pjsua_call_hangup, whose
\* callback has detached the user data: it only gives the tab back.
HangupActive(c) ==
  /\ c \in Active
  /\ phase' = [phase EXCEPT ![c] = "hanging"]
  /\ ending' = [ending EXCEPT ![c] = data[c]]
  /\ data' = [data EXCEPT ![c] = NoData]
  /\ MediaGone(c)
  /\ tab' = [tab EXCEPT ![c] = FALSE]
  /\ UNCHANGED <<live, quiet>>

\* For a call that is already being hung up, pjsua_call_hangup does nothing and
\* succeeds.  The slot may have user data again, from Merge or an invitation.
HangupAgain(c) ==
  /\ phase[c] = "hanging"
  /\ tab' = [tab EXCEPT ![c] = FALSE]
  /\ data' = IF tab[c] /\ InConf(data, c)
             THEN [Dissolve(data, c) EXCEPT ![c].conf = FALSE] ELSE data
  /\ UNCHANGED <<phase, ending, media, bridge, taps, live, quiet>>

HangupFast(c) == HangupActive(c) \/ HangupAgain(c)

\* OnDisconnect, CloseTab, the call_hangup_all functions; on_call_transfer_status
Hangup(c) ==
  /\ Unlocked(c)
  /\ HangupFast(c)
  /\ UNCHANGED ui

\* msip_call_end of a confirmed member of the conference: it hangs up the other
\* members one by one, and then the call itself.
EndConference(c) ==
  /\ UiIdle
  /\ tab[c]
  /\ phase[c] = "confirmed"
  /\ InConf(data, c)
  /\ ui' = [op |-> "ending", call |-> c, rest |-> Enum \ {c}]
  /\ UNCHANGED <<phase, tab, data, ending, media, bridge, taps, live, quiet>>

\* The iterations of a loop take the slots in order, each looking at the calls
\* anew; the loop that ends a conference has a step of its own after the last.
Advance ==
  /\ ui.rest # {}
  /\ LET rest == ui.rest \ {First(ui.rest)}
     IN  ui' = IF rest = {} /\ ui.op # "ending" THEN Idle ELSE [ui EXCEPT !.rest = rest]

EndStep ==
  /\ ui.op = "ending"
  /\ Advance
  /\ LET x == First(ui.rest)
     IN  IF x \in Enum /\ InConf(data, x)
         THEN HangupFast(x)
         ELSE UNCHANGED <<phase, tab, data, ending, media, bridge, taps, live, quiet>>

EndLast ==
  /\ ui.op = "ending"
  /\ ui.rest = {}
  /\ ui' = Idle
  /\ IF ui.call \in Enum
     THEN HangupFast(ui.call)
     ELSE UNCHANGED <<phase, tab, data, ending, media, bridge, taps, live, quiet>>

\* Flags set by Merge for the call s of the selected tab and the call x merged
\* with it.  A call that is being hung up, or is gone, has no user data: Merge
\* allocates new ones, for the slot of s in both cases.
Flagged(s, x) ==
  LET fresh == data[s] = NoData \/ data[x] = NoData
  IN  [c \in Calls |-> IF c = s /\ fresh THEN [NewData EXCEPT !.conf = TRUE]
                       ELSE IF c \in {s, x} /\ data[c] # NoData THEN [data[c] EXCEPT !.conf = TRUE]
                       ELSE data[c]]

\* Merge(x).  The holds and re-INVITEs of msip_call_unhold come back as MediaHeld
\* and MediaActive.
MergeWith(s, x) ==
  /\ ConferenceJoin(Flagged(s, x), media, x, bridge, taps)
  /\ UNCHANGED <<phase, tab, ending, media, live, quiet>>

\* OnMerge: the menu offered x when both calls were confirmed, and stays open
\* while s goes on.
Merge(s, x) ==
  /\ UiIdle
  /\ tab[s]
  /\ x # s
  /\ phase[s] # "setup"
  /\ phase[x] = "confirmed"
  /\ MergeWith(s, x)
  /\ UNCHANGED ui

\* OnMergeAll, from the menu or, with auto conference, from onCallState
MergeAll(s) ==
  /\ UiIdle
  /\ tab[s]
  /\ Enum \ {s} # {}
  /\ ui' = [op |-> "merging", call |-> s, rest |-> Enum \ {s}]
  /\ UNCHANGED <<phase, tab, data, ending, media, bridge, taps, live, quiet>>

MergeStep ==
  /\ ui.op = "merging"
  /\ Advance
  /\ LET x == First(ui.rest)
     IN  IF tab[ui.call] /\ x \in Active
         THEN MergeWith(ui.call, x)
         ELSE UNCHANGED <<phase, tab, data, ending, media, bridge, taps, live, quiet>>

\* OnSeparate
Separate(s) ==
  /\ UiIdle
  /\ tab[s]
  /\ s \in Enum
  /\ InConf(data, s)
  /\ ConferenceLeave(s)
  /\ UNCHANGED <<phase, tab, ending, media, ui>>

\* OnSeparateAll takes every call but the selected one out.
SeparateAll(s) ==
  /\ UiIdle
  /\ tab[s]
  /\ Enum \ {s} # {}
  /\ ui' = [op |-> "separating", call |-> s, rest |-> Enum \ {s}]
  /\ UNCHANGED <<phase, tab, data, ending, media, bridge, taps, live, quiet>>

SeparateStep ==
  /\ ui.op = "separating"
  /\ Advance
  /\ LET x == First(ui.rest)
     IN  IF x \in Enum THEN ConferenceLeave(x) ELSE UNCHANGED <<data, bridge, taps, live, quiet>>
  /\ UNCHANGED <<phase, tab, ending, media>>

\* CallAction, MSIP_ACTION_INVITE: the selected call s becomes a member and a new
\* call c is made as a member.  When CallStart fails, s is no member any more.
\* The menu offered it when s was confirmed.
Invite(s, c) ==
  /\ UiIdle
  /\ tab[s]
  /\ phase[s] # "setup"
  /\ phase[c] = "idle"
  /\ \A x \in Calls : x < c => phase[x] # "idle"
  /\ \/ /\ data' = [Flagged(s, s) EXCEPT ![c] = [NewData EXCEPT !.conf = TRUE]]
        /\ phase' = [phase EXCEPT ![c] = "setup"]
        /\ tab' = [tab EXCEPT ![c] = TRUE]
     \/ /\ InviteMayFail
        /\ data' = [Flagged(s, s) EXCEPT ![s].conf = FALSE]
        /\ UNCHANGED <<phase, tab>>
  /\ UNCHANGED <<ending, media, bridge, taps, live, quiet, ui>>

\* Dialer::OnBnClickedRec
ToggleRec(s) ==
  /\ UiIdle
  /\ tab[s]
  /\ s \in Enum
  /\ data[s] # NoData
  /\ IF Recording(data, s)
     THEN RecordingStopAll(data[s].rec)
     ELSE Slotted(media, s) /\ RecordingStart(s)
  /\ UNCHANGED <<phase, tab, ending, media, bridge, ui>>

-----------------------------------------------------------------------------
Worker ==
  \E c \in Calls : \/ NewCall(c) \/ Confirm(c) \/ MediaActive(c) \/ MediaHeld(c)
                   \/ RemoteEnd(c) \/ Vanish(c) \/ AutoHangup(c) \/ ByeDone(c)

UserInterface ==
  \/ \E c \in Calls : \/ ShowTab(c) \/ HandleEnd(c) \/ Hangup(c) \/ EndConference(c)
                      \/ MergeAll(c) \/ Separate(c) \/ SeparateAll(c) \/ ToggleRec(c)
  \/ \E s, c \in Calls : Merge(s, c) \/ Invite(s, c)
  \/ EndStep \/ EndLast \/ MergeStep \/ SeparateStep

Next == Worker \/ UserInterface

Spec == Init /\ [][Next]_vars

-----------------------------------------------------------------------------
(* Properties *)

Loops == [op : {"ending", "merging", "separating"}, call : Calls, rest : SUBSET Calls]

\* Type correctness of the state kept by pjsua, the user data and the UI's loop.
TypeOK ==
  /\ phase \in [Calls -> Phases]
  /\ tab \in [Calls -> BOOLEAN]
  /\ data \in [Calls -> Data \union {NoData}]
  /\ ending \in [Calls -> Data \union {NoData}]
  /\ media \in [Calls -> {"none", "active", "held"}]
  /\ bridge \subseteq SUBSET Calls
  /\ taps \subseteq Calls \X Recorders
  /\ live \subseteq Recorders
  /\ quiet \subseteq live
  /\ ui \in Loops \union {Idle}

\* A call that shows itself as recorded has an open file: whatever call of a
\* conference ends, leaves, is held or has its recording stopped, the recorder
\* that msip_call_recording_stop completes is no other call's.
RecorderInUse ==
  \A c \in Enum : Recording(data, c) => data[c].rec \in live

\* Only members of the one conference hear each other, and only they share a
\* recorder (msip_conference_join and _leave, msip_call_recording_start).
OneConference ==
  \A a, b \in Calls : a # b =>
    /\ {a, b} \in bridge => InConf(data, a) /\ InConf(data, b)
    /\ a \in Enum /\ b \in Enum /\ Recording(data, a) /\ Recording(data, b)
         /\ data[a].rec = data[b].rec => InConf(data, a) /\ InConf(data, b)

\* The port of a call is connected to the file its user data name and to no
\* other, and it is so whenever its media is active: the record button shows
\* where the voice goes, though not at which level (HeardUntilHeld).
ConnectedToFile ==
  /\ \A c \in Calls, r \in Recorders :
       <<c, r>> \in taps => c \in Enum /\ data[c] # NoData /\ data[c].rec = r
  /\ \A c \in Active :
       Recording(data, c) /\ media[c] = "active" => <<c, data[c].rec>> \in taps

\* The file has the voice of the call.
Heard(c) ==
  Recording(data, c) /\ <<c, data[c].rec>> \in taps /\ data[c].rec \notin quiet

\* Another call with the same recorder is put on hold or loses its stream.
SharerHeld(c) ==
  \E x \in Active \ {c} : /\ data[x].rec = data[c].rec
                          /\ x \in Active' /\ media'[x] \notin {"active", media[x]}

\* A call whose media becomes active is in its file, though a member that is on
\* hold has silenced it; and it stays in there until its own media changes, it
\* leaves the conference, the file is completed, or a call that shares the
\* recorder is held.  No end, join or stop of another call silences a file
\* (mainDlg.cpp, on_call_media_state; msip_call_recording_stop).
HeardUntilHeld ==
  [][\A c \in Calls :
       /\ media[c] # "active" /\ media'[c] = "active" /\ Recording(data', c) => Heard(c)'
       /\ Heard(c) /\ ~Heard(c)' =>
            \/ media'[c] # media[c]
            \/ ~Recording(data', c) /\ (~InConf(data', c) \/ data[c].rec \notin live')
            \/ SharerHeld(c)]_vars

\* The calls, ended or not, whose user data MicroSIP still has and that name r
Owned(r) == \E c \in Calls : \/ c \in Enum /\ data[c] # NoData /\ data[c].rec = r
                             \/ ending[c] # NoData /\ ending[c].rec = r

\* An open file gets out of reach, never to be completed, only when its last
\* owner is a call that ended without a tab (OnEndCall returns early) or with
\* status 481 (on_call_state returns early): no conference or hold loses one.
FilesCompleted ==
  [][\A r \in live : Owned(r) /\ r \in live' /\ ~Owned(r)' =>
       \E c \in Calls : \/ phase[c] # "lost" /\ phase'[c] = "lost"
                        \/ ending[c] # NoData /\ ending'[c] = NoData /\ ~tab[c]]_vars

\* Two calls that hear each other go on doing so until the media of one of them
\* changes or ends or one is taken out of the conference: the end of a third
\* call, and the dissolution it may cause, cut no other connection.
ConnectedUntilLeft ==
  [][\A a, b \in Calls : a # b /\ {a, b} \in bridge /\ {a, b} \notin bridge' =>
       \/ \E c \in {a, b} : "active" # media'[c] \/ "active" # media[c]
       \/ ~(InConf(data', a) /\ InConf(data', b))]_vars
=============================================================================
