# MicroSIP in TLA+

A model of the parts of MicroSIP 3.22.3 (`pjproject-2.15.1/MicroSIP-3.22.3-src`)
that keep state over time: what the program's own code does between pjsua's
threads, the window, the ini file and the servers, checked with TLC and, where it
matters most, proved with TLAPS. pjproject, opus and the widgets are not modelled
for themselves; what `pjsua_call.c`, `pjsua_aud.c`, `pjsua_media.c`, `pjsua_acc.c`
and `pjsua_pres.c` do is modelled as far as MicroSIP's handlers depend on it.

Files are named without the prefix `src/pjproject-2.15.1/MicroSIP-3.22.3-src/`.

## 1. The system

MicroSIP has a UI thread (MFC message loop) and uses pjsua, whose worker thread
receives SIP messages and runs timers. They share

- pjsua's **call slots** (4 by default), each with an invite session and a
  `user_data` pointer;
- the **`call_user_data`** (`global.h`) such a pointer leads to: `inConference`,
  `recorder_id`, `hidden`, `commands`, `tonegen_data`, the `auto_hangup_timer`, a
  critical section;
- pjmedia's **conference bridge**, the **recorders** and the **tone generators**;
- pjsua's **account** and its **buddies**;
- the window's **message queue**: callbacks take a snapshot (`pjsua_call_info`, a
  registration result, a buddy's number) and post it.

The UI thread alone has the **tabs** of the messages window (one for a number;
`callId` names its call), the **ringing dialogs**, the ringtone, the window timers,
the list of **contacts**, the **call history** and the settings. Threads of their own
wait for the answers of the users directory.

| component | state | operations | status |
|---|---|---|---|
| Call control (`mainDlg.cpp`, `MessagesDlg.cpp`, `RinginDlg.cpp`) | queue, tabs, dialogs, timers, ringtone | callbacks, handlers, the user's actions | `CallControl`, `CallControlProofs`, `CallControlWindowsProofs` |
| `call_user_data` (`global.h`) | owner, references in messages | attach, detach, delete | `CallOwnership`, implemented by `CallControl` |
| Conference and recording (`global.cpp`) | `inConference`, `recorder_id`, bridge, open files | join, leave, start, stop, merge, separate, invite, hold, end | `Conference`, `ConferenceProofs`, `ConferenceFilesProofs` |
| Locks of the user data (`global.cpp`, `mainDlg.cpp`) | `PJSUA_LOCK`, critical sections | every handler that takes both | `CallLocks` |
| DTMF queue, tone generators (`global.cpp`) | `commands`, `tonegen_data`, `DTMFTonegens`, timers | dial, play, hold, timers | `DtmfTones`, `DtmfTonesProofs` |
| Call history (`Calls.cpp`) | list, `[Calls]` and `callsLastKey` in the ini file | add, note the end, delete, filter, load | `CallHistory`, `CallHistoryProofs` |
| Users directory (`mainDlg.cpp`, `Contacts.cpp`) | interval, failures, timer, requests, contacts | load, answers, merge | `UsersDirectory`, `UsersDirectoryProofs` |
| Registration, pjsua's start and end, presence (`mainDlg.cpp`, `Contacts.cpp`, `ShortcutsDlg.cpp`) | account, `isSubscribed`, buddies, icons, `dialNumberDelayed` | `PJCreate`, `PJDestroy`, answers of the registrar, edits, commands | `Registration`, `RegistrationProofs` |
| pjsua's slots, bridge, recorders, buddies (vendored) | | | third-party: as far as the handlers depend on them |
| Settings, dialogs, jump list, command line, widgets, opus | | | not modelled (section 7) |

All modelled components are *partly* modelled: section 7 lists what is left out.

How components interact. `on_incoming_call`, `on_call_state`,
`on_call_media_state`, `on_dtmf_digit` and `call_timeout_callback` run in pjsua's
threads, change user data, bridge, recorders and generators, and post messages.
`onIncomingCall`, `onCreateRingingDlg`, `onCallState`, `onCallAnswer`,
`onRegState2`, `onBuddyState` handle them and call pjsua back, by slot or buddy
number. A hang up or an answer by the UI runs `on_call_state` before it returns,
so the UI posts messages to itself. `OnEndCall` is called twice for such a call,
once from `msip_call_hangup_fast` and once for the message; the history hears of
it both times.

What is hard about it: the queue is behind pjsua (a message may be about a call
that is over, a slot that has another call, an account the user has left); the
two threads change the same conference and lock the same data in different
orders; every end of a call (answered or not, by either side, rejected, timed out,
with status 481) takes another path through the code; files, timers, generators
and the microphone must be released on all of them; the program may end between
two writes; answers of servers overtake each other.

What makes the components correct: windows and ringtone agree with the calls once
the queue is empty; no pointer outlives the user data; a file that a call records
into is open, has its voice, and is completed in the end; only members of the conference hear
each other, as long as they are members; the microphone is muted while tones are
played and open again afterwards; the history shows what its file keeps, and an
old record gives way only when its turn has come; the directory's polling goes on
and the list recovers; buddies and icons are those of the present account.

## 2. The modules

A callback or a handler is one step, unless said otherwise. A name like
`...Once` or `...Always`, with the comment "Mutant", is a faulty variant of the
operator below it; nothing in the specifications uses it.

### `Conference`

A call is a value of `Calls`, ordered like pjsua's slots; it is never reused
(reuse is in `CallControl`). `phase` is the invite session: `idle`, `setup`,
`confirmed`, `hanging` (this side hung up; the slot is in use until the BYE is
answered), `over`, and `lost` (ended with status 481, for which `on_call_state`
returns early). `data` is the user data attached to the slot, `ending` the user
data that the last message carries; `media`, `bridge` and `taps` are the ports,
the connections between calls and those to recorders, `live` the open recorders,
`quiet` those of them whose port has level 0. `tab` says whether a tab has the call.

| code | action or operator |
|---|---|
| `msip_conference_join`, `_leave` | `ConferenceJoin`, `ConferenceLeave`, `Dissolve` |
| `msip_call_recording_start`, `_stop` | `RecordingStart`, `RecordingStop`, `RecordingStopAll`, `Completed` |
| `on_call_media_state` | `MediaActive`, `MediaHeld`, with the level of the recorder: `Audible`, `Silenced` |
| `on_call_state` | `Confirm`, `RemoteEnd`, `Vanish` |
| `call_timeout_callback` | `AutoHangup` |
| `OnEndCall` | `HandleEnd`, and inside `HangupActive`, `HangupAgain` |
| `msip_call_end`, `OnMergeAll`, `OnSeparateAll` | loops: `EndConference` `EndStep` `EndLast`, `MergeAll` `MergeStep`, `SeparateAll` `SeparateStep` |
| `Merge`, `OnSeparate`, `CallAction` (invite), `OnBnClickedRec` | `Merge`, `Separate`, `Invite`, `ToggleRec` |

`Merge` gives new user data to the slot of the selected call in both of its branches
(`MessagesDlg.cpp:1472`), and so does `Flagged`. The second needs the worker thread
between two lines of `Merge`, which is one step here.

A loop of the UI over the calls takes a step per call, and the worker thread may
run in between (except where `msip_call_end` holds the lock of the call:
`Unlocked`, `AllUnlocked`). `InviteMayFail` says whether `CallStart` may fail for
an invited number: if so, `OneConference` does not hold (section 4).

### `CallControl` and `CallOwnership`

A call is a number in the order of creation; `slot` is its slot, allocated as
`alloc_call_id` does, with its start that moves on by one. `data` says whether
the user data are attached to the slot, detached (the UI has them), deleted, or
leaked. A message is `[type, slot, call]`: what the snapshot and the pointer say.
`CONNECTING` and `CONFIRMED` are one type, `answered`; `ended` and `unanswered`
tell whether a call was connected when it ended, which the handlers look at. An
`INCOMING` session posts nothing: the 180 of the UI makes the first message. A
`media` message carries the user data as well, and gives its call the tab of the
number, but makes none.

A call that ends with status 481 (`Lost`) is no more for pjsua, while `on_call_state`
returns before it detaches the user data or posts anything (`mainDlg.cpp:190`): `inv`
is `lost`, the data leak with their timer, and the tab keeps the slot.

| code | action or operator |
|---|---|
| `on_incoming_call` | `Incoming` (announced, or rejected with 486, or 487 while media are set up) |
| `on_call_state` | `Told`, `Parted`, with `Confirm`, `RemoteEnd`, `End`; `Lost` |
| `on_call_media_state` | `MediaState` |
| `call_timeout_callback` | `TimeOut` |
| `onIncomingCall`, `onCreateRingingDlg` | `HandleIncoming`, `HandleCreate` |
| `onCallState`, `onCallMediaState`, `AddTab`, `OnEndCall` | `HandleState`, `Taken`, `HandleEnded`, `FirstTab`, `KillTimers`, `DropDialog` |
| `onCallAnswer`, `AutoAnswer`, `OnTimer`, `onPlayerStop` | `OnCallAnswer`, `AutoAnswer`, `AutoAnswerTimer`, `ForwardTimer`, `SoundDone` |
| `msip_call_hangup_fast` and its callers | `HangupFast`, `Hangup`, `HangupAll`, `Decline` |
| `CallMake`, `CallStart`; `CloseTab`; `RinginDlg` | `Dial`; `CloseTab`; `Close`, `CloseDialog` |

Left out because behaviour is undefined there: the rejection loop reads other
calls' user data, which are NULL for a call being hung up (`mainDlg.cpp:838`):
`Incoming` has a guard; a timer whose user data are deleted: `TimeOut` has one.

`CallOwnership` says what is promised of user data in small actions: while
the call goes on pjsua's slot owns them, then the UI until the last message is
handled, then nobody; they are deleted once and never while a message refers to
them. Those of a call that was lost are nobody's, and stay (`Lose`, `Fade`).
`CallControl` implements it (`Ownership`): `OwnershipKept` is the abstract
specification, `DataReleased` its liveness.

### `CallLocks`

A thread has a list `todo` of what its handler has still to do: lock, unlock, or
a function of the code, which is replaced by its own steps (`Body`) when it is
reached, since it branches on shared state (who is a member, who records). The
handlers are those that take both kinds of locks: `OnIncomingCall`,
`OnCallMediaState`, `OnCallState` and the hang up in the worker's part,
`ShowCallState`, `Merge`, `Separate`, `MsipCallEnd`, `OnBnClickedRec` in the UI's.
The locks are recursive. The second unlock in `msip_conference_join`
(`global.cpp:1339`) is modelled with its outcomes: it takes a lock away from who
holds it, or breaks one that is free (`Drop`).

### `DtmfTones`

| code | action or operator |
|---|---|
| `DTMFQueueTimerHandler` | `QueueTimer` |
| `msip_call_dial_dtmf`, `Dialer::DTMF` | `Dial`, `Press` |
| `call_init_tonegen`, `call_play_digit` | `PlayInBand`, `PlayLocal`, then `Play` (it unlocks in between, `global.cpp:590`) |
| `tonegenBusyHandler`, `CmainDlg::onRefreshLevels` | `BusyTimer`, `SetLevels` |
| `destroyDTMFPlayerTimerHandler`, `on_dtmf_digit` | `DestroyTimer`, `Hear` |
| `MessagesDlg::CallStart`, `onCallState` | `Start`, `HandleConfirmed` |
| `on_call_media_state`, `call_deinit_tonegen`, `on_call_state` | `MediaActive`, `MediaHeld`, `Confirm`, `End` |

Windows delivers posted messages before input and timers (`Quiet`), and a timer
only in a thread with a message loop. A slot may be reused. `heard` has the
generators that the stream of their call listens to: the bridge reads no others
(`conference.c:2481`), so the tones of the others never end. `opened` remembers
that the levels were set for another reason than the timer's.

### `CallHistory`

`file` and `fileKey` are the ini file, `list`, `lastKey` and `filter` the page.
`writes` is what a handler has still to write, one key at a time; `Restart` may
happen between two writes, and loads as the code does (`Read`, `Loaded`). An entry is known
by the turn in which it was made, which is also its time. `Begin`, `Tell`, `HangUp`,
`LastMessage` are the moments at which `Calls::Add` and `SetDuration`, `SetInfo` are
called for a call (`Add`, `Note`), in the order of `onCallState`: the entry of a call
refused with 486 comes first, then `OnEndCall`. A call that ends with 481 has no
`LastMessage`. `TypeFilter` and `Delete` are the user's.
`cut`, `relisted` and `shared` are history variables: entries saved without their
key, calls whose entry lost its Call-ID, keys two entries had at once.

### `UsersDirectory`

`requests[d]` counts the threads that wait for the answer of directory `d`; any of
them may answer next, as error, refusal, partial list (an exception stops the
parsing) or full list. `Load` is `UsersDirectoryLoad`, called from `OnTimer`,
`OnRegState` and `PJCreate`; `LoadFails`, `LoadRefused`, `LoadDone` are the
outcomes in `onUsersDirectoryLoaded`, with `ContactsAdd` for the merge. `MCUsersDirectory` gives the
directories: two accounts with nothing in common, and one for all.

### `Registration`

`queue` has what the worker thread posted: answers of the registrar and changes of
a buddy. Commands of another instance (`WM_COPYDATA`) and power events are sent,
not posted, and overtake the queue; the user's input waits for it. Leaving an
account and ending pjsua take two steps (`Unsubscribe`, then the rest): the worker
may post the old account's answer in between. Buddies are slots with a number;
`presence` is the flag by which a contact or a shortcut shares a buddy. The lists are
sets here: `BuddiesAdded` gives new buddies the first free slots, as the code does, in an
order that is left open, and adds none when pjsua has no slot left (MicroSIP looks at no
error of `pjsua_buddy_add`).

| code | action or operator |
|---|---|
| `onRegState2`, `Subscribe`, `Unsubscribe` | `OnRegState2`, `Subscribe`, `Unsubscribe` |
| `SubsribeNumber`, `UnsubscribeNumber`, `pjsua_buddy_add` | `Subscribed`, `Unwatched`, `BuddiesAdded` |
| `onBuddyState`, `Contacts::PresenceReset` | `OnBuddyState`, `Blank` |
| `PJCreate`, `PJDestroy` | `Start`, `Create`, `PJCreate`, `BeginDestroy`, `PJDestroy` |
| `PJAccountDelete`, `OnMenuAccountChange`, `AccountDlg`, `CommandLine` | `Leave`, `OnMenuAccountChange`, `AccountDialog`, `CommandLine`, `Change` |
| `UpdateWindowText`, `dialNumberDelayed` | `UpdateWindowText`, `Texted`, `DialOrDelay`, `CallsChange` |
| contacts and shortcuts edited | `ContactUpdate`, `EditContact`, `EditShortcuts` |

## 3. Runs

| run | instance | shows |
|---|---|---|
| `conference` | 2 calls, 2 recorders, automatic recording, no bound | all properties of `Conference` but `FilesCompleted` |
| `conference_three` | 3 calls, constraint `ThreeCalls`, symmetric recorders | `HeardUntilHeld`, `FilesCompleted`, `ConnectedUntilLeft` with a member that goes on when another ends or is held |
| `conference_invite` | 3 calls, failing invitations | `OneConference` is violated |
| `calls` | 2 calls, 2 slots, 2 numbers, forwarding | the windows agree with the calls |
| `calls_reuse` | 3 calls, 1 slot, maximal duration, redial | pointers and ownership with reused slots |
| `calls_live` | 2 calls of one number, single mode, automatic answer and forwarding, fairness | every end but 481 is shown, its user data deleted; `PointersLive` with the messages of one call's media |
| `call_timer` | 1 call, maximal duration | `TimerCancelled` is violated |
| `locks` | 2 calls that talk and one that comes in | `NoDeadlock` is violated |
| `dtmf` | 2 calls in one slot, 2 generators, 3 digits or media changes, fairness | the microphone, the queue, the local tones |
| `history` | 2 calls, 2 keys, 5 entries, files of earlier runs | list and file agree over crashes and the turn of the ring |
| `directory` | 2 accounts, 2 requests for each of 3 directories in flight, 3 changes, fairness | the polling never dies, the list recovers |
| `registration` | 2 accounts, 1 contact, 1 shortcut, 3 buddies, 2 messages, fairness | buddies, icons and the waiting number are those of the present account |

Bounds.

- *Calls.* Two are enough for a conflict over a tab, a dialog, a timer, a ringtone or
  a recorder; in `Conference` a third is needed for a member that stays connected to
  another, and for a loop that is overtaken. `ThreeCalls` leaves out states that two
  calls show already. `OneConference` and `RecorderInUse` are proved for any number,
  and are not repeated with three. In `CallControl` `NCalls` bounds a behaviour, and
  one answer is posted by a command at a time (`AnswerCommand`). `Redial = FALSE`
  leaves out that the user dials a number that is calling in at that moment: the
  call is then answered or made without a tab, as `AddTab` says. `Media` is the set
  of calls whose `UM_ON_CALL_MEDIA_STATE` is posted, one at a time for a call: the first
  call in `calls_live`, none elsewhere, where the message would only multiply the
  states. The proofs are for any such set.
- *Slots.* The runs about tabs and ends have as many slots as calls: with fewer, the
  last message of a call gives back the tab of the next call in its slot, a hidden
  call may keep a dialog, and `TabsCurrent`, `TabKept`, `CallsReachable` and
  `EndIsShown` do not hold (see the hazards). `calls_reuse` has one slot.
- *Keys.* Two make the ring come round within `MaxTurn = 5` entries, more than twice.
- *Directory.* Two requests in flight for each directory, six in all: an answer can be
  overtaken by one of the same directory and by those of the others. The count of
  failures saturates at `MaxReconnect`, since only zero or not matters.
- *Registration.* Three buddies are one more than the entries need; two messages
  are an old one and one that overtakes it. About 620,000 states.
- *Tones.* Three events are a digit, a hold and another digit; `dtmf` and the fair runs
  stay small, liveness being costly.

Deadlock is not checked where a behaviour ends when its calls or bounds are used
up; `locks` states it as `NoDeadlock`.

Properties. Each is stated in words where it is defined, and each is broken by a
mutated operator of the module, so that it is about something the code could get
wrong. Where a property excuses a case it names it: `FilesCompleted` the ways a
file is lost, `HeardUntilHeld` the hold of a call that shares the recorder, `MicBack` a
generator destroyed in use or without listeners, `TabsCurrent`, `CallsReachable`,
`EndIsShown`, `PointersLive` and `OwnershipKept` a call that was lost, `KeysApart` and
`OldestGivesWay` an end of the program between two writes, `OneEntry` a filter
typed during a call, `WatchedAsShown` and `ComesToWatch` a late answer handled
without an account (`stray`).

Fairness.

- `CallControl`: `WF(HandleMessage)`, as the message loop goes on; `WF(ByeDone(k))`,
  as pjsua ends the transaction of a call that was hung up, if only by a timeout.
- `DtmfTones`: the message loop (posted messages and the windows' timers), a handler
  that has begun, and tones that come to their end. The last is what the bridge does
  with ports that have listeners: `ToneEnds` is possible for those only, and the local
  tones always have the sound device (`call_init_tonegen` connects them to it and
  nothing disconnects them). Nothing of the user, of holds or of the ends of calls.
- `UsersDirectory`: the timer fires (`OnTimer`), and each request is answered or fails,
  as the connection times out (`OnUsersDirectoryLoaded(d)`).
- `Registration`: `WF(HandleMessage)` and `WF(Finish)`, the second step of a handler.
  Nothing of the registrar or the user.

## 4. What does not hold

- **A failed invitation** (`conference_invite`). `CallAction` sets `inConference`
  of the selected call, and resets it when `CallStart` makes no call
  (`MessagesDlg.cpp:1608`), also when it was a member before. It stays connected
  to the other members while it is shown outside the conference, against the
  comment at line 1759.
- **A timer that is not cancelled** (`call_timer`). After a local hang up the
  first `OnEndCall` has no user data and the second finds no tab and returns at
  line 955, before "Cancel duration timer, if any"; the user data are deleted
  with `auto_hangup_timer` in pjsua's heap. For the same reason such a call's
  recording is not stopped, and its file completed only if another call has it;
  `FilesCompleted` names this as a way to lose a file.
- **A deadlock** (`locks`). `on_incoming_call` is called with `PJSUA_LOCK` held and
  locks the user data of the other calls (`mainDlg.cpp:829`); the UI thread holds a
  call's user data and asks pjsua, for instance in `msip_call_end` or from the record
  button. A call that comes in at that moment stops both threads. A second
  inversion needs no new call: two threads join two members of a conference, each
  holding its own call's lock (`global.cpp:1300-1316`).

Less than a contradiction, but worth knowing; the model has these behaviours and
its properties are stated around them:

- With a full ring, the list goes on showing the entry whose key a new call took;
  deleting it deletes the newer record (`Calls.cpp:522`).
- A 200 handled when there is no account sets `isSubscribed`; the next account's 200
  then returns early and no contact is watched until the account changes or pjsua is
  restarted, which resets it. A number on the command line for an account without a
  server is not dialled; a second command replaces a number that waits.
- An error (300 or above) to the directory's first request ends the polling until a
  registration or a restart; every renewal of the registration loads again. The
  late answer of the account before replaces the contacts until the next answer. An
  element that is no object stops the parsing, and the contacts behind it are
  deleted. A directory contact the user has edited is removed by the next load.
- A call that ends with 481 stays on screen: its tab keeps a slot that is free or
  another call's, its user data are never deleted, the timer in them may hang up the
  next call in the slot, its file is not completed, and the next call of the number is
  refused the tab and cannot be reached from the window.
- The button shows a call as recorded while a hold of another member has silenced the
  file they share (`mainDlg.cpp:661`); if that member then ends, the file stays silent
  until the media of another become active again.
- The generator of a call that ended stays in the bridge. Nothing listens to it any
  more: if it had tones left to play it is busy for good, and the microphone stays muted
  until the levels are set for another reason. The same goes for one whose call gets a
  new stream. A hold and a return reconnect the port, not the generator; the return opens the microphone during
  tones (`mainDlg.cpp:713`). The worker thread's timer for local tones never fires.

## 5. Proofs

Eight modules, without bounds on calls, slots, recorders, keys, generators or
requests.
`TLC` checks the same properties on the instances above.

**`ConferenceProofs`**: `TypeCorrect` (`Spec => []TypeOK`), `RecorderStaysOpen`
(`Spec => []RecorderInUse`), for any settings, failing invitations included.
`RecorderInUse` is not inductive: a hung up call stays in its slot and may get new
user data from `Merge`; a join hands a recorder from one member to others. `Inv`
adds `HasData` (a call that goes on has user data), `Ended` (only ended calls have
user data in the UI's hands), `Ports` (only calls that go on have media) and
strengthens `RecorderInUse` to `Open` (what the slots' user data name are recorders
that are open, of calls that go on). The lemmas say what each of the four
operators of the conference keeps (`JoinKeeps`, `RecordingStartKeeps`, `LeaveKeeps`,
`HangupKeeps`); the steps of worker, loops and UI follow one by one. `FirstIsMember`
shows that the least call of a set exists, from the well-foundedness of `<`.

Its second half has `OneConferenceHolds` (`Spec => []OneConference` when no
invitation fails), on top of `Inv`. The strengthening is `Unity`: calls that hear
each other have media and are members (`Linked`), and calls that share a recorder
are members (`Shared`). The delicate step is `Dissolve`, where the last member of a
conference ceases to be one without being disconnected: `LastIsAlone` shows that
nobody is connected to it or shares its file.

**`ConferenceFilesProofs`**: `CallsReachTheirFile` (`[]ConnectedToFile`),
`VoicesStayInTheFile` (`HeardUntilHeld`), `FilesAreCompleted` (`FilesCompleted`) and
`OthersStayConnected` (`ConnectedUntilLeft`), failing invitations included.
`ConnectedToFile` is inductive
with `Inv` (`Seen`, proved as `SeenHolds`): to know that a stream that is restarted is
joined to the right file one has to know that the file is still open, and that a call
that is being hung up has lost its port. The other three are about steps, and follow
from `Seen` before the step: for each operator of the conference one lemma says whose
recorder changes, which recorders lose an owner and which connections go (`Honest`,
`PairsKept`).

**`CallHistoryProofs`**: all the properties of `CallHistory`, for any number of keys, calls
and texts typed: `HistoryTypes`, `RecordsAreListed`, `ListIsSaved`, `KeysGoRound`,
`OneEntryEach`, `EndsAreNoted` and `OldestGoesFirst`. The difficulty is that a handler's
writes reach the file one by one while the program may end between any two. Two views
of the state take care of it. `After(f, d, k, r)` says that the key `k` will hold `r` when the
writes `d` are done: it does not change when one of them is done, so the relation of
list and file has to be shown for handlers only. `Marks` are the key, time and call of
every entry in the list, in the file or on its way: most steps take marks away, and one
step adds one. On the marks the ring of keys is a matter of distances: two entries are
as far apart in time as their keys are in the ring (`Apart`), and as many entries
have been made since one as keys were handed out (`Behind`, and `BehindFile` for
`callsLastKey` as it was saved). A load after a restart sees a prefix of the keys
(`Prefix`), since a record is written before its key. `Inv` was checked with `TLC`
before it was proved, with two and with three keys.

**`CallControlProofs`**: `CallTypes` (`[]TypeOK`), `PointersStayLive`
(`[]PointersLive`) and `OwnershipHolds` (`Spec => Ownership!Spec`), for any number of
calls, slots and far ends and all settings. The invariant has two halves. `Mirror`
and `SlotsApart` are about pjsua: the user data are attached exactly while the session goes
on, and no two calls share a slot; `AllocIs` shows that the round robin finds a free
one. `QueueInv` is about the queue: what a message points to is there (`Carried`), the
last message of a call has its data, alone, behind all others (`FinalIsLast`), data
that left their slot have a last message on its way (`FinalComes`), and of a hidden call
nothing was told (`HiddenUntold`), which is why `on_call_state` may delete its data
at once. One lemma says what each way of changing the queue keeps: calls that end
(`EndsKeep`) or are told something (`TellsKeep`), a message posted (`PostKeeps`) or handled
(`HandledKeeps`, `ReleaseKeeps`), a call that starts (`StartKeeps`) or is rejected
(`RejectKeeps`). What is told is a sequence in slot order; `OrderOfSlots` shows that it
has every call once. The refinement is a step simulation: `Moves` is what a step may
do to the data of a call, and with the invariant before and after it that gives one of the
actions of `CallOwnership` (`StepRefines`). A call that is lost says nothing and moves
no message: only its own data and session change.

**`CallControlWindowsProofs`**: the properties about windows, for any number of calls,
slots and far ends and all settings but `Redial`: `TabsStayCurrent`, `DialogsStayCurrent`,
`RingtoneStopsInTime`, `CallsStayReachable` and `TabsAreKept`. They are about the behaviours
`Spec /\ [][NoEarlyReuse]_vars`, in which no call takes a slot that a message in the queue
or a tab names (a tab names the slot of a call that is gone only if the call was lost, or
while its last message is on its way). The condition cannot be
left out: tabs, dialogs and messages name a call by its slot only, and what happens otherwise is among the hazards (`MessagesDlg.cpp:893`). Slots
that nothing names are taken again and again. `SlotsForAll` shows that the
condition holds of itself when there is a slot for every call, as in the run
`calls`, and `WindowsFollow` states the five properties for that case without it.
`~Redial` is needed for the same reason as in that run.

The invariant `WInv` is `IInv` of `CallControlProofs` with `Windows`, ten parts. A slot says
which call a message, a tab or a dialog means (`OneHere`, `Labelled`). What is on the screen
belongs to a call that goes on or has a message behind it that takes it away
(`TabsShow`, `DialogsShow`); what is on its way to the screen is the only one of its kind
(`DialogsCome`, `Announced`); the ringtone has something that ends it (`RingEnds`); a far
end's calls come one after the other, and so do their messages (`OnePerNumber`, `InTurn`);
and a call that is on has its tab, or will be given it, or belongs to a number that lost a
call before (`Reaches`, `LostNumber`). Most parts are about
places in a queue that is shortened in front and lengthened behind by every handler.
So the proof goes by a relation, `Steps(d)`: the first `d` messages were handled (none or
one), the rest has moved up, and what is new behind, in the tabs, among the dialogs and the
calls is accounted for. One lemma for each action shows that it is such a step,
and `WindowsKept` that such a step keeps `Windows`, whichever action it was. `TLC` checked
`WInv` and `Steps` on instances with two calls and with three before they were proved.

**`DtmfTonesProofs`**: `MutedWhilePlaying` (`Spec => []PlayMuted`) and `ToneStateTypes`
(`[]TypeOK`). Two facts carry the first: a generator that plays is one the timer asks
(`Listed`), and while the timer's message waits nothing plays or is about to
(`TimerIsRight`), since posted messages go before the input and the timers that dial.

**`UsersDirectoryProofs`**: `PollingNeverDies` (`Spec => []Polling`), inductive with the types
of the requests (`RequestsOK`), and `DirectoryTypes` (`[]TypeOK`): no thread is counted
twice, whatever answer overtakes whatever other.

**`RegistrationProofs`**: `RegistrationTypes` (`[]TypeOK`), `PresenceStaysCurrent`
(`[]PresenceCurrent`) and `WatchedStaysAsShown` (`[]WatchedAsShown`), for any accounts,
entries, numbers and buddies and any number of messages in flight. The invariant `IInv` adds
three things. `Session` says what a handler's second step and a late message may find: a
subscription has an account unless it is excused (`stray`), and while an account is left or
pjsua ended there is no subscription. `Apart`: a number has one buddy, so the first that
is found is the one. `Watch`: every buddy's number is wanted by an entry, and every icon is
right or has a message behind it (`Right`). The same operators add and drop buddies in every
handler, with other entries, accounts and icons; their lemmas are therefore about any of
these (`AddedIs`, `UnwatchedIs`, `SubscribingRight`, `SubscribingAdds`), and `Rewatched`
joins them for an entry that changes its number or flag while others share the old or the
new one. `WatchedStaysAsShown` has the hypothesis that there are no more entries than
slots (`PJSUA_MAX_BUDDIES` is 256): with more, somebody is not watched, and nothing tells. It
is used once, where all slots are full: then each has another wanted number, and none is
missing by the pigeonhole principle (`FullIsEnough`). The first two theorems need no such
hypothesis. `TLC` checked `IInv`, with one slot and with three, before it was proved.

Assumptions are the named `ASSUME`s of the modules, about constants only: calls are
natural numbers (their slot order), there is a slot and a number, model values
differ from what they stand beside, settings are Boolean.

Every invariant and action property that a passing run checks is proved. Model-checked
only is liveness (`EndIsShown`, `DataReleased`, `MicBack`, `QueueDrains`, `LocalReleased`,
`Heals`, `ComesToWatch`, `DelayedIsDialled`), which is out of the prover's reach.
`OneConference`, the window properties and `EndIsShown` do not hold without the
conditions named with them.

## 6. What could come next

1. An abstract recorder (a file is open, shared, completed once), implemented by
   `Conference`.
2. Tabs with fewer slots than calls, once it is said what should happen to a tab whose
   slot is taken.
3. The composition of `CallControl` and `CallHistory`, which hears of calls from the
   handlers that `CallControl` has.
4. The delayed save of the settings, text messages and transfers.

## 7. Not modelled

- *pjproject, opus*: third-party, and by far most of the lines of the repository. What
  MicroSIP's handlers depend on is in the modules.
- *Settings* (`settings.cpp`): saved by a timer after the last change; a save that is
  lost loses that change, and the code promises no more.
- *Dialogs, jump list, command line parsing, widgets*: layout, validation, I/O.
- *Conference*: the levels of anything but recorders (the sliders, the microphone).
- *Call control*: text messages, transfers, video, sounds other than the ringtone,
  what a media message does to the hold button and the levels, user data that
  `on_call_media_state` makes for a slot without any (`mainDlg.cpp:635`), the second
  use of a slot number in `UM_CALL_ANSWER`.
- *Locks*: dialog locks (`acquire_call` tries and gives up), group locks of pjmedia,
  handlers of presence and messaging.
- *Tones*: pjsua ended with generators in use, volumes (the slider and the mute button
  set the microphone's level too), SIP INFO and RFC 2833.
- *History*: texts and their encoding (a semicolon, more than 255 characters), export,
  sorting; `SetName` and `DeleteAll` are never called.
- *Directory*: the balloon and the sequence number it depends on, the length of delays
  (`1000*refresh` overflows at 2147484 seconds, and nothing clamps it), the formats.
- *Registration and presence*: shortcuts that are disabled as a whole (`Dialer.cpp:82`
  and 112: with `enableShortcuts` off none is watched), what follows `DialNumber` for a
  waiting number (`DelayedIsDialled` says that it is dialled; the field is cleared after,
  `mainDlg.cpp:3827`), presence from the directory, the user's own status, error
  texts, `lock_buddy` giving up, a restart by the shortcuts dialog, the removal of an
  account that is not in use, edits of the local account, a change of the network.
