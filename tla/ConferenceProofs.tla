--------------------------- MODULE ConferenceProofs ---------------------------
(***************************************************************************)
(* Proofs about the conference: its type invariant, that no file is        *)
(* completed while a call is recorded into it, and that it is one.         *)
(*                                                                         *)
(* They hold for any calls and recorders, with or without automatic        *)
(* recording and whatever invitations fail.                                *)
(***************************************************************************)
EXTENDS Conference, TLAPS, WellFoundedInduction

\* The call a loop takes next, and the member whose recorder is shared, are
\* calls of the set they are taken from.
LEMMA FirstIsMember ==
  ASSUME NEW S \in SUBSET Calls, S # {}
  PROVE  First(S) \in S
<1> DEFINE R == OpToRel(<, Nat)
<1>0. \A x, y \in Nat : y < x => <<y, x>> \in R
  <2> SUFFICES ASSUME NEW x \in Nat, NEW y \in Nat, y < x PROVE <<y, x>> \in {ss \in Nat \X Nat : ss[1] < ss[2]}
    BY Zenon DEF OpToRel
  <2> QED BY SMT
<1>1. IsWellFoundedOn(R, Nat)
  BY NatLessThanWellFounded
<1> HIDE DEF R
<1>2. PICK x \in S : \A y \in S : ~(<<y, x>> \in R)
  BY <1>1, WFMin, CallsAssumption
<1>3. ASSUME NEW y \in S PROVE x <= y
  <2>1. x \in Nat /\ y \in Nat
    BY CallsAssumption
  <2>2. ~(y < x)
    BY <1>0, <1>2, <2>1, Zenon
  <2> QED BY <2>1, <2>2, SMT
<1> QED BY <1>3 DEF First

-----------------------------------------------------------------------------
DataFn == [Calls -> Data \union {NoData}]

\* Of the calls in the slots only those that go on record, into open files.
Open(d, l) == \A x \in Enum : Recording(d, x) => x \in Active /\ d[x].rec \in l

\* Fresh user data are user data of no member and without a recorder.
LEMMA NewDataIsData ==
  /\ NewData \in Data /\ NewData # NoData /\ NewData.rec = NoRec
  /\ [NewData EXCEPT !.conf = TRUE] \in Data
  /\ [NewData EXCEPT !.conf = TRUE] # NoData
  /\ [NewData EXCEPT !.conf = TRUE].rec = NoRec
<1>1. NewData \in Data /\ [NewData EXCEPT !.conf = TRUE] \in Data
  BY DEF NewData, Data
<1> QED BY <1>1, NoDataAssumption DEF NewData

\* Giving calls a recorder changes nothing else in the user data.
LEMMA AssignIsData ==
  ASSUME NEW d \in DataFn, NEW S, \A x \in S : d[x] # NoData,
         NEW r \in Recorders \union {NoRec}
  PROVE  Assign(d, S, r) \in DataFn
BY DEF Assign, DataFn, Data

\* Dissolving a conference takes no user data and no recorder away.
LEMMA DissolveIsData ==
  ASSUME NEW d \in DataFn, NEW c \in Calls
  PROVE  /\ Dissolve(d, c) \in DataFn
         /\ \A x \in Calls : /\ Dissolve(d, c)[x] = NoData <=> d[x] = NoData
                             /\ d[x] # NoData => Dissolve(d, c)[x].rec = d[x].rec
<1>1. ASSUME NEW x \in Calls, Members(d, c) = {x}
      PROVE  d[x] \in Data /\ d[x] # NoData
  BY <1>1 DEF Members, InConf, DataFn
<1>2. ASSUME NEW x \in Calls, d[x] \in Data
      PROVE  /\ [d[x] EXCEPT !.conf = FALSE] \in Data
             /\ [d[x] EXCEPT !.conf = FALSE].rec = d[x].rec
  BY <1>2 DEF Data
<1> QED BY <1>1, <1>2, NoDataAssumption DEF Dissolve, DataFn

\* What a joining call and the members take over is a member's open recorder.
LEMMA SharedRecIsOpen ==
  ASSUME NEW d \in DataFn, NEW md, NEW c \in Enum, InConf(d, c), NEW l, Open(d, l),
         Newcomers(d, md, c) # {}
  PROVE  SharedRec(d) \in Recorders /\ SharedRec(d) \in l
<1> DEFINE S == {x \in Enum : InConf(d, x) /\ Recording(d, x)}
<1>1. S # {} /\ S \in SUBSET Calls
  BY DEF Newcomers, Members, Enum
<1>2. First(S) \in S
  BY <1>1, FirstIsMember
<1> QED BY <1>2 DEF SharedRec, Open, Recording, DataFn, Data, Enum

\* Calls have a port in the bridge as long as they go on.
Ports(md) == \A x \in Calls : md[x] # "none" => x \in Active

\* The calls that take over a recorder in a conference are calls with media,
\* which are calls that go on, and have user data.
LEMMA NewcomersGoOn ==
  ASSUME NEW d, NEW md, Ports(md), NEW c \in Enum, InConf(d, c)
  PROVE  \A x \in Newcomers(d, md, c) : x \in Active /\ d[x] # NoData
BY DEF Newcomers, Members, InConf, Ports, Slotted, Enum

\* The same of the user data after a step.
Opened(l) ==
  \A x \in Enum : data'[x] # NoData /\ data'[x].rec # NoRec => x \in Active /\ data'[x].rec \in l

\* msip_conference_join opens no file and has the members take over open ones.
LEMMA JoinKeeps ==
  ASSUME NEW d \in DataFn, NEW md, Ports(md), NEW c \in Enum,
         NEW b \in SUBSET (SUBSET Calls), NEW t \in SUBSET (Calls \X Recorders),
         Open(d, live), ConferenceJoin(d, md, c, b, t)
  PROVE  /\ data' \in DataFn
         /\ bridge' \subseteq SUBSET Calls
         /\ taps' \subseteq Calls \X Recorders
         /\ \A x \in Calls : data'[x] = NoData <=> d[x] = NoData
         /\ Opened(live)
<1>1. CASE ~InConf(d, c)
  BY <1>1 DEF ConferenceJoin, Open, Opened, Recording
<1>2. CASE InConf(d, c) /\ Newcomers(d, md, c) = {}
  BY <1>2 DEF ConferenceJoin, Open, Opened, Recording, Members, Enum
<1>3. CASE InConf(d, c) /\ Newcomers(d, md, c) # {}
  <2> DEFINE new == Newcomers(d, md, c)
             r == SharedRec(d)
  <2>1. r \in Recorders /\ r \in live
    BY <1>3, SharedRecIsOpen
  <2>2. \A x \in new : x \in Active /\ d[x] # NoData
    BY <1>3, NewcomersGoOn
  <2>3. /\ data' = Assign(d, new, r)
        /\ bridge' \subseteq SUBSET Calls
        /\ taps' = t \union (new \X {r})
    BY <1>3 DEF ConferenceJoin, Members, Enum
  <2> HIDE DEF new, r
  <2>4. data' \in DataFn
    BY <2>1, <2>2, <2>3, AssignIsData
  <2>5. taps' \subseteq Calls \X Recorders
    BY <2>1, <2>2, <2>3 DEF Active
  <2>6. ASSUME NEW x \in Calls
        PROVE  /\ x \notin new => data'[x] = d[x]
               /\ x \in new => data'[x] # NoData /\ data'[x].rec = r
    <3>1. data'[x] = IF x \in new THEN [d[x] EXCEPT !.rec = r] ELSE d[x]
      BY <2>3 DEF Assign
    <3>2. x \in new => d[x] \in Data
      BY <2>2 DEF DataFn
    <3>3. x \in new => [d[x] EXCEPT !.rec = r] \in Data /\ [d[x] EXCEPT !.rec = r].rec = r
      BY <3>2, <2>1 DEF Data
    <3> QED BY <3>1, <3>3, NoDataAssumption
  <2> QED BY <2>1, <2>2, <2>3, <2>4, <2>5, <2>6 DEF Open, Opened, Recording, Enum, Active
<1> QED BY <1>1, <1>2, <1>3

-----------------------------------------------------------------------------
(* The invariant: a call that goes on has user data; only such a call has  *)
(* a port in the bridge; the user data of a slot name a recorder only for  *)
(* such a call, and then one that is open; and the user data that wait for *)
(* the UI belong to a call that has ended.  Without the last two the user  *)
(* data that Merge attaches to a call being hung up could name the file    *)
(* that the call's own end completes.                                      *)

HasData == \A c \in Active : data[c] # NoData

Ended == \A c \in Calls : ending[c] # NoData => phase[c] \in {"hanging", "over"}

Inv == TypeOK /\ HasData /\ Ended /\ Ports(media) /\ Open(data, live)

\* What a step of the recording or of the conference keeps, whatever it does
\* with the rest of the state.
Kept ==
  /\ data' \in DataFn
  /\ taps' \subseteq Calls \X Recorders
  /\ live' \subseteq Recorders
  /\ quiet' \subseteq live'
  /\ \A x \in Active : data'[x] # NoData
  /\ Opened(live')

\* msip_call_recording_start gives a call, and the conference it is in, a file
\* that is open or is opened with it.
LEMMA RecordingStartKeeps ==
  ASSUME Inv, NEW c \in Active, data[c] # NoData, RecordingStart(c)
  PROVE  Kept
<1> USE DEF Inv, TypeOK
<1>0. data \in DataFn /\ Open(data, live)
  BY DEF DataFn
<1>1. CASE UNCHANGED <<data, taps, live, quiet>>
  BY <1>1, <1>0 DEF Kept, HasData, Open, Opened, Recording
<1>2. CASE \E r \in Recorders, S \in SUBSET {x \in Active : data[x] # NoData} :
             /\ data' = Assign(data, S, r)
             /\ taps' = taps \union (S \X {r})
             /\ r \in live'
             /\ live \subseteq live' /\ live' \subseteq Recorders /\ quiet' = quiet
  <2> PICK r \in Recorders, S \in SUBSET {x \in Active : data[x] # NoData} :
             /\ data' = Assign(data, S, r)
             /\ taps' = taps \union (S \X {r})
             /\ r \in live'
             /\ live \subseteq live' /\ live' \subseteq Recorders /\ quiet' = quiet
    BY <1>2
  <2>1. data' \in DataFn
    BY <1>0, AssignIsData
  <2>2. taps' \subseteq Calls \X Recorders
    BY DEF Active
  <2>3. ASSUME NEW x \in Calls
        PROVE  /\ x \notin S => data'[x] = data[x]
               /\ x \in S => data'[x] # NoData /\ data'[x].rec = r
    <3>1. data'[x] = IF x \in S THEN [data[x] EXCEPT !.rec = r] ELSE data[x]
      BY DEF Assign
    <3>2. x \in S => [data[x] EXCEPT !.rec = r] \in Data /\ [data[x] EXCEPT !.rec = r].rec = r
      BY DEF Data
    <3> QED BY <3>1, <3>2, NoDataAssumption
  <2> QED BY <1>0, <2>1, <2>2, <2>3 DEF Kept, HasData, Open, Opened, Recording, Enum, Active
<1>3. CASE InConf(data, c) /\ Holders(data, c) # {}
  <2> DEFINE r == data[First(Holders(data, c))].rec
  <2>1. First(Holders(data, c)) \in Holders(data, c)
    BY <1>3, FirstIsMember DEF Holders, Members, Enum
  <2>2. r \in Recorders /\ r \in live
    BY <1>0, <2>1 DEF Holders, Members, Recording, Open, Enum, Data
  <2>3. /\ data' = Assign(data, {c}, r)
        /\ taps' = taps \union ({c} \X {r})
        /\ live' = live /\ quiet' = quiet
    BY <1>3 DEF RecordingStart
  <2> QED BY <1>2, <2>2, <2>3
<1>4. CASE ~(InConf(data, c) /\ Holders(data, c) # {}) /\ ~UNCHANGED <<data, taps, live, quiet>>
  <2> DEFINE S == {c} \union (IF InConf(data, c)
                             THEN {x \in Members(data, c) : Slotted(media, x)} ELSE {})
  <2>1. PICK r \in Recorders \ live : /\ data' = Assign(data, S, r)
                                      /\ taps' = taps \union (S \X {r})
                                     /\ live' = live \union {r} /\ quiet' = quiet
    BY <1>4 DEF RecordingStart
  <2>2. S \in SUBSET {x \in Active : data[x] # NoData}
    BY DEF Members, InConf, Ports, Slotted, Enum
  <2> HIDE DEF S
  <2> QED BY <1>2, <2>1, <2>2
<1> QED BY <1>1, <1>3, <1>4

\* msip_call_recording_stop completes no file that another call has.
LEMMA CompletedIsUnused ==
  ASSUME NEW c, NEW r
  PROVE  \A x \in Enum \ {c} : data[x] # NoData => data[x].rec \notin Completed(c, r)
BY DEF Completed

\* msip_conference_leave completes a file only when no call left in the slots
\* names it.
LEMMA LeaveKeeps ==
  ASSUME Inv, NEW c \in Enum, ConferenceLeave(c)
  PROVE  Kept /\ bridge' \subseteq SUBSET Calls
<1>0. /\ data \in DataFn /\ Open(data, live) /\ c \in Calls /\ HasData /\ quiet \subseteq live
      /\ taps \subseteq Calls \X Recorders /\ live \subseteq Recorders
      /\ bridge \subseteq SUBSET Calls
  BY DEF Inv, TypeOK, DataFn, Enum
<1>1. CASE ~InConf(data, c)
  BY <1>0, <1>1 DEF ConferenceLeave, Kept, HasData, Open, Opened, Recording
<1>2. CASE InConf(data, c)
  <2>1. /\ live' = live \ Completed(c, data[c].rec)
        /\ quiet' = quiet \ Completed(c, data[c].rec)
        /\ taps' \subseteq taps
        /\ bridge' \subseteq bridge
        /\ data' = [Dissolve(data, c) EXCEPT ![c] = NewData]
    BY <1>2 DEF ConferenceLeave, RecordingStop
  <2>2. /\ Dissolve(data, c) \in DataFn
        /\ \A x \in Calls : /\ Dissolve(data, c)[x] = NoData <=> data[x] = NoData
                            /\ data[x] # NoData => Dissolve(data, c)[x].rec = data[x].rec
    BY <1>0, DissolveIsData
  <2>3. NewData \in Data /\ NewData # NoData /\ NewData.rec = NoRec
    BY NewDataIsData
  <2>4. data' \in DataFn
    BY <2>1, <2>2, <2>3 DEF DataFn
  <2>5. ASSUME NEW x \in Calls
        PROVE  /\ data'[x] = NoData => data[x] = NoData
               /\ data'[x] # NoData /\ data'[x].rec # NoRec
                    => x # c /\ data[x] # NoData /\ data'[x].rec = data[x].rec
    <3>1. data'[x] = IF x = c THEN NewData ELSE Dissolve(data, c)[x]
      BY <2>1, <2>2 DEF DataFn
    <3>2. CASE x = c
      BY <2>3, <3>1, <3>2
    <3>3. CASE x # c
      <4>1. data'[x] = Dissolve(data, c)[x]
        BY <3>1, <3>3
      <4>2. /\ Dissolve(data, c)[x] = NoData <=> data[x] = NoData
            /\ data[x] # NoData => Dissolve(data, c)[x].rec = data[x].rec
        BY <2>2
      <4> QED BY <3>3, <4>1, <4>2
    <3> QED BY <3>2, <3>3
  <2>6. \A x \in Enum \ {c} : data[x] # NoData => data[x].rec \notin Completed(c, data[c].rec)
    BY CompletedIsUnused
  <2>7. ASSUME NEW x \in Enum, data'[x] # NoData, data'[x].rec # NoRec
        PROVE  x \in Active /\ data'[x].rec \in live'
    BY <1>0, <2>1, <2>5, <2>6, <2>7 DEF Open, Recording, Enum
  <2>8. \A x \in Active : data'[x] # NoData
    BY <1>0, <2>5 DEF HasData, Active
  <2> QED BY <1>0, <2>1, <2>4, <2>7, <2>8 DEF Kept, Opened
<1> QED BY <1>1, <1>2

-----------------------------------------------------------------------------
(* Hanging up, and the end of a call *)

\* A call that ends gives up its user data; nothing else is attached or opened.
LEMMA EndKeeps ==
  ASSUME Inv, NEW c \in Calls, NEW p \in {"hanging", "over", "lost"},
         phase' = [phase EXCEPT ![c] = p],
         data' = [data EXCEPT ![c] = NoData],
         MediaGone(c), UNCHANGED <<live, quiet>>
  PROVE  /\ data' \in [Calls -> Data \union {NoData}]
         /\ phase' \in [Calls -> Phases]
         /\ media' \in [Calls -> {"none", "active", "held"}]
         /\ bridge' \subseteq SUBSET Calls
         /\ taps' \subseteq Calls \X Recorders
         /\ live' \subseteq Recorders /\ quiet' \subseteq live'
         /\ HasData' /\ Ports(media)' /\ Open(data, live)'
<1>1. /\ data' \in [Calls -> Data \union {NoData}]
      /\ phase' \in [Calls -> Phases]
      /\ media' \in [Calls -> {"none", "active", "held"}]
      /\ bridge' \subseteq SUBSET Calls
      /\ taps' \subseteq Calls \X Recorders
      /\ live' \subseteq Recorders /\ quiet' \subseteq live'
  BY DEF Inv, TypeOK, MediaGone, Phases, PairsOf, TapsOf
<1>2. ASSUME NEW x \in Calls, data'[x] # NoData
      PROVE  x # c /\ data'[x] = data[x] /\ phase'[x] = phase[x]
  BY <1>2 DEF Inv, TypeOK
<1>3. ASSUME NEW x \in Active' PROVE data'[x] # NoData
  <2>1. x \in Calls /\ x # c /\ phase'[x] = phase[x] /\ data'[x] = data[x]
    BY DEF Inv, TypeOK, Active
  <2> QED BY <2>1 DEF Inv, HasData, Active
<1>4. Open(data, live)'
  BY <1>2 DEF Inv, Open, Recording, Enum, Active
<1>5. Ports(media)'
  BY DEF Inv, TypeOK, MediaGone, Ports, Active
<1> QED BY <1>1, <1>3, <1>4, <1>5 DEF HasData

\* The last message of an ending call is that of a call that went on.
LEMMA EndedKeeps ==
  ASSUME Inv, NEW c \in Calls, NEW p \in {"hanging", "over"},
         phase' = [phase EXCEPT ![c] = p],
         ending' = [ending EXCEPT ![c] = data[c]]
  PROVE  Ended' /\ ending' \in [Calls -> Data \union {NoData}]
<1>1. \A x \in Calls \ {c} : phase'[x] = phase[x] /\ ending'[x] = ending[x]
  BY DEF Inv, TypeOK
<1>2. phase'[c] \in {"hanging", "over"}
  BY DEF Inv, TypeOK
<1>3. Ended'
  BY <1>1, <1>2 DEF Inv, Ended
<1> QED BY <1>3 DEF Inv, TypeOK

\* msip_call_hangup_fast, of a call that goes on or is hanging up already, leaves
\* the other calls' recorders open.
LEMMA HangupKeeps ==
  ASSUME Inv, NEW c \in Calls, HangupFast(c), ui' \in Loops \union {Idle}
  PROVE  Inv'
<1>1. CASE HangupActive(c)
  <2>1. /\ phase' = [phase EXCEPT ![c] = "hanging"]
        /\ data' = [data EXCEPT ![c] = NoData]
        /\ MediaGone(c)
        /\ UNCHANGED <<live, quiet>>
        /\ tab' = [tab EXCEPT ![c] = FALSE]
        /\ ending' = [ending EXCEPT ![c] = data[c]]
    BY <1>1 DEF HangupActive
  <2>2. tab' \in [Calls -> BOOLEAN]
    BY <2>1 DEF Inv, TypeOK
  <2>3. Ended' /\ ending' \in [Calls -> Data \union {NoData}]
    BY <2>1, EndedKeeps
  <2> QED BY <2>1, <2>2, <2>3, EndKeeps DEF Inv, TypeOK
<1>2. CASE HangupAgain(c)
  <2>0. /\ data \in DataFn /\ TypeOK /\ HasData /\ Open(data, live)
        /\ UNCHANGED <<phase, ending, media, bridge, taps, live, quiet>>
        /\ tab' = [tab EXCEPT ![c] = FALSE]
    BY <1>2 DEF Inv, TypeOK, DataFn, HangupAgain
  <2>1. Ended' /\ Ports(media)' /\ Active' = Active /\ Enum' = Enum
    BY <2>0 DEF Inv, Ended, Ports, Active, Enum
  <2>2. CASE data' = data
    BY <2>0, <2>1, <2>2 DEF Inv, TypeOK, HasData, Open, Recording
  <2>3. CASE InConf(data, c) /\ data' = [Dissolve(data, c) EXCEPT ![c].conf = FALSE]
    <3>1. /\ Dissolve(data, c) \in DataFn
          /\ \A x \in Calls : Dissolve(data, c)[x] = NoData <=> data[x] = NoData
          /\ \A x \in Calls : data[x] # NoData => Dissolve(data, c)[x].rec = data[x].rec
      BY <2>0, DissolveIsData
    <3>2. Dissolve(data, c)[c] \in Data
      BY <2>3, <3>1 DEF InConf, DataFn
    <3>3. /\ [Dissolve(data, c)[c] EXCEPT !.conf = FALSE] \in Data
          /\ [Dissolve(data, c)[c] EXCEPT !.conf = FALSE].rec = Dissolve(data, c)[c].rec
      BY <3>2 DEF Data
    <3>4. /\ data' \in DataFn
          /\ \A x \in Calls \ {c} : data'[x] = Dissolve(data, c)[x]
          /\ data'[c] = [Dissolve(data, c)[c] EXCEPT !.conf = FALSE]
      BY <2>3, <3>1, <3>3 DEF DataFn
    <3>5. ASSUME NEW x \in Calls
          PROVE  /\ data'[x] = NoData <=> data[x] = NoData
                 /\ data[x] # NoData => data'[x].rec = data[x].rec
      <4>1. CASE x = c
        BY <2>3, <3>1, <3>3, <3>4, <4>1, NoDataAssumption DEF InConf
      <4>2. CASE x # c
        BY <3>1, <3>4, <4>2
      <4> QED BY <4>1, <4>2
    <3>6. TypeOK'
      BY <2>0, <3>4 DEF TypeOK, DataFn
    <3>7. HasData' /\ Open(data, live)'
      BY <2>0, <2>1, <3>5 DEF HasData, Open, Recording, Active, Enum
    <3> QED BY <2>1, <3>6, <3>7 DEF Inv
  <2> QED BY <1>2, <2>2, <2>3 DEF HangupAgain
<1> QED BY <1>1, <1>2 DEF HangupFast

-----------------------------------------------------------------------------
(* The steps that change nothing but connections, flags, recorders and the *)
(* loop of the UI thread                                                   *)

\* What is Kept by the operators is the invariant when the calls and the loop
\* stay as they are.
LEMMA KeptIsInv ==
  ASSUME Inv, Kept, UNCHANGED <<phase, tab, ending>>,
         bridge' \subseteq SUBSET Calls,
         media' \in [Calls -> {"none", "active", "held"}],
         Ports(media'),
         ui' \in Loops \union {Idle}
  PROVE  Inv'
<1>1. Active' = Active /\ Enum' = Enum
  BY DEF Active, Enum
<1>2. TypeOK'
  BY DEF Inv, TypeOK, Kept, DataFn
<1>3. HasData' /\ Open(data, live)'
  BY <1>1 DEF Kept, Opened, HasData, Open, Recording
<1>4. Ended' /\ Ports(media)'
  BY <1>1 DEF Inv, Ended, Ports
<1> QED BY <1>2, <1>3, <1>4 DEF Inv

\* So msip_conference_join in the media callback keeps the invariant.
LEMMA JoinIsInv ==
  ASSUME Inv, NEW c \in Enum, NEW d \in DataFn,
         NEW md \in [Calls -> {"none", "active", "held"}], Ports(md),
         NEW b \in SUBSET (SUBSET Calls), NEW t \in SUBSET (Calls \X Recorders),
         Open(d, live), \A x \in Active : d[x] # NoData,
         ConferenceJoin(d, md, c, b, t),
         UNCHANGED <<phase, tab, ending, live>>, quiet' \subseteq live',
         media' = md,
         ui' \in Loops \union {Idle}
  PROVE  Inv'
<1>1. /\ data' \in DataFn
      /\ bridge' \subseteq SUBSET Calls
      /\ taps' \subseteq Calls \X Recorders
      /\ \A x \in Calls : data'[x] = NoData <=> d[x] = NoData
      /\ Opened(live)
  BY JoinKeeps
<1>2. Kept
  BY <1>1 DEF Kept, Opened, Inv, TypeOK, Active
<1> QED BY <1>1, <1>2, KeptIsInv

\* Merge and an invitation set flags, and attach fresh user data at most.
LEMMA FlaggedIsData ==
  ASSUME Inv, NEW s \in Calls, NEW x \in Calls
  PROVE  /\ Flagged(s, x) \in DataFn
         /\ Flagged(s, x)[s] \in Data
         /\ \A c \in Calls : data[c] # NoData => Flagged(s, x)[c] # NoData
         /\ \A c \in Calls : Flagged(s, x)[c] # NoData /\ Flagged(s, x)[c].rec # NoRec
                           => data[c] # NoData /\ Flagged(s, x)[c].rec = data[c].rec
<1>0. data \in DataFn
  BY DEF Inv, TypeOK, DataFn
<1>1. ASSUME NEW c \in Calls, data[c] # NoData
      PROVE  /\ [data[c] EXCEPT !.conf = TRUE] \in Data
             /\ [data[c] EXCEPT !.conf = TRUE] # NoData
             /\ [data[c] EXCEPT !.conf = TRUE].rec = data[c].rec
  <2>1. data[c] \in Data
    BY <1>0, <1>1 DEF DataFn
  <2>2. /\ [data[c] EXCEPT !.conf = TRUE] \in Data
        /\ [data[c] EXCEPT !.conf = TRUE].rec = data[c].rec
    BY <2>1 DEF Data
  <2> QED BY <2>2, NoDataAssumption
<1>2. ASSUME NEW c \in Calls
      PROVE  /\ Flagged(s, x)[c] \in Data \union {NoData}
             /\ data[c] # NoData => Flagged(s, x)[c] # NoData
             /\ Flagged(s, x)[c] # NoData /\ Flagged(s, x)[c].rec # NoRec
                  => data[c] # NoData /\ Flagged(s, x)[c].rec = data[c].rec
  <2>1. \/ Flagged(s, x)[c] = data[c]
        \/ Flagged(s, x)[c] = [NewData EXCEPT !.conf = TRUE]
        \/ data[c] # NoData /\ Flagged(s, x)[c] = [data[c] EXCEPT !.conf = TRUE]
    BY DEF Flagged
  <2>2. CASE Flagged(s, x)[c] = data[c]
    BY <1>0, <2>2 DEF DataFn
  <2>3. CASE Flagged(s, x)[c] = [NewData EXCEPT !.conf = TRUE]
    BY <2>3, NewDataIsData
  <2>4. CASE data[c] # NoData /\ Flagged(s, x)[c] = [data[c] EXCEPT !.conf = TRUE]
    BY <1>1, <2>4
  <2> QED BY <2>1, <2>2, <2>3, <2>4
<1>3. Flagged(s, x) \in DataFn
  BY <1>2 DEF Flagged, DataFn
<1>4. Flagged(s, x)[s] \in Data
  <2>1. \/ Flagged(s, x)[s] = [NewData EXCEPT !.conf = TRUE]
        \/ data[s] # NoData /\ Flagged(s, x)[s] = [data[s] EXCEPT !.conf = TRUE]
    BY DEF Flagged
  <2> QED BY <1>1, <2>1, NewDataIsData
<1> QED BY <1>2, <1>3, <1>4

\* Merge of an active call keeps the invariant, new user data included.
LEMMA MergeIsInv ==
  ASSUME Inv, NEW s \in Calls, NEW x \in Active, MergeWith(s, x), ui' \in Loops \union {Idle}
  PROVE  Inv'
<1>0. x \in Enum /\ x \in Calls
  BY DEF Active, Enum
<1>1. /\ Flagged(s, x) \in DataFn
      /\ \A c \in Active : Flagged(s, x)[c] # NoData
      /\ Open(Flagged(s, x), live)
  BY <1>0, FlaggedIsData DEF Inv, HasData, Open, Recording, Enum, Active
<1>2. /\ bridge \in SUBSET (SUBSET Calls) /\ taps \in SUBSET (Calls \X Recorders)
      /\ media \in [Calls -> {"none", "active", "held"}] /\ Ports(media)
  BY DEF Inv, TypeOK
<1>3. /\ ConferenceJoin(Flagged(s, x), media, x, bridge, taps)
      /\ UNCHANGED <<phase, tab, ending, media, live>> /\ quiet' \subseteq live'
  BY DEF MergeWith, Inv, TypeOK
<1> QED BY <1>0, <1>1, <1>2, <1>3, JoinIsInv

\* The invariant holds before the first call.
LEMMA InitInv == Init => Inv
BY DEF Init, Inv, TypeOK, HasData, Ended, Ports, Open, Recording, Idle, Loops, Phases, Active, Enum

\* The callbacks of pjsua's worker thread keep the invariant.
LEMMA WorkerKeepsInv ==
  ASSUME Inv, NEW c \in Calls,
         \/ NewCall(c) \/ Confirm(c) \/ MediaActive(c) \/ MediaHeld(c)
         \/ RemoteEnd(c) \/ Vanish(c) \/ AutoHangup(c) \/ ByeDone(c)
  PROVE  Inv'
<1>0. /\ TypeOK /\ HasData /\ Ended /\ Ports(media) /\ Open(data, live)
      /\ data \in DataFn /\ ui \in Loops \union {Idle}
  BY DEF Inv, TypeOK, DataFn
<1>1. CASE NewCall(c)
  <2>1. TypeOK'
    BY <1>0, <1>1, NewDataIsData DEF TypeOK, NewCall, Phases
  <2>2. \A x \in Calls : /\ data'[x] = IF x = c THEN NewData ELSE data[x]
                      /\ phase'[x] = IF x = c THEN "setup" ELSE phase[x]
    BY <1>0, <1>1 DEF TypeOK, NewCall
  <2>3. HasData' /\ Open(data, live)'
    BY <1>0, <1>1, <2>2, NewDataIsData
    DEF NewCall, HasData, Open, Recording, Active, Enum
  <2>4. Ended' /\ Ports(media)'
    BY <1>0, <1>1, <2>2 DEF NewCall, Ended, Ports, Active
  <2> QED BY <2>1, <2>3, <2>4 DEF Inv
<1>2. CASE Confirm(c)
  <2>1. c \in Active /\ c \in Enum /\ data[c] # NoData
    BY <1>0, <1>2 DEF Confirm, Active, Enum, HasData
  <2>2. Kept
    <3>1. CASE RecordingStart(c)
      BY <2>1, <3>1, RecordingStartKeeps
    <3>2. CASE UNCHANGED <<data, taps, live, quiet>>
      BY <1>0, <3>2 DEF Kept, Opened, TypeOK, HasData, Open, Recording
    <3> QED BY <1>2, <3>1, <3>2 DEF Confirm
  <2>3. /\ phase' = [phase EXCEPT ![c] = "confirmed"]
        /\ UNCHANGED <<tab, ending, media, bridge, ui>>
    BY <1>2 DEF Confirm
  <2>4. Active' = Active /\ Enum' = Enum
    BY <1>0, <1>2, <2>3 DEF Confirm, TypeOK, Active, Enum
  <2>5. TypeOK'
    BY <1>0, <2>2, <2>3 DEF TypeOK, Kept, DataFn, Phases
  <2>6. HasData' /\ Open(data, live)'
    BY <2>2, <2>4 DEF Kept, Opened, HasData, Open, Recording
  <2>7. Ended' /\ Ports(media)'
    BY <1>0, <1>2, <2>3, <2>4 DEF Confirm, TypeOK, Ended, Ports
  <2> QED BY <2>5, <2>6, <2>7 DEF Inv
<1>3. CASE MediaActive(c)
  <2>1. c \in Active /\ c \in Enum /\ data[c] \in Data
    BY <1>0, <1>3 DEF MediaActive, Active, Enum, HasData, DataFn
  <2>2. PICK restart \in {media[c] # "active", TRUE} :
          ConferenceJoin(data, media', c,
            IF restart THEN bridge \ PairsOf(c) ELSE bridge,
            (IF restart THEN taps \ TapsOf(c) ELSE taps)
              \union ({c} \X ({data[c].rec} \ {NoRec})))
    BY <1>3 DEF MediaActive
  <2> DEFINE b == IF restart THEN bridge \ PairsOf(c) ELSE bridge
             t == (IF restart THEN taps \ TapsOf(c) ELSE taps)
                     \union ({c} \X ({data[c].rec} \ {NoRec}))
  <2>3. b \in SUBSET (SUBSET Calls)
    BY <1>0 DEF TypeOK
  <2>4. t \in SUBSET (Calls \X Recorders)
    BY <1>0, <2>1 DEF TypeOK, Data
  <2>5. media' \in [Calls -> {"none", "active", "held"}] /\ Ports(media')
    BY <1>0, <1>3, <2>1 DEF TypeOK, MediaActive, Ports
  <2>6. ConferenceJoin(data, media', c, b, t)
    BY <2>2
  <2>7. UNCHANGED <<phase, tab, ending, live, ui>> /\ quiet' \subseteq live'
    BY <1>0, <1>3 DEF MediaActive, Audible, TypeOK
  <2> HIDE DEF b, t
  <2>8. \A x \in Active : data[x] # NoData
    BY <1>0 DEF HasData
  <2> QED BY <1>0, <2>1, <2>3, <2>4, <2>5, <2>6, <2>7, <2>8, JoinIsInv
<1>4. CASE MediaHeld(c)
  <2> DEFINE stopped == IF InConf(data, c) THEN Completed(c, data[c].rec) ELSE {}
  <2>1. /\ live' = live \ stopped
        /\ taps' \subseteq taps
        /\ bridge' \subseteq bridge
        /\ data' = IF InConf(data, c) THEN [data EXCEPT ![c].rec = NoRec] ELSE data
        /\ UNCHANGED <<phase, tab, ending, ui>>
        /\ c \in Active /\ quiet' \subseteq live'
    BY <1>4 DEF MediaHeld, Silenced
  <2>2. media' \in [Calls -> {"none", "active", "held"}] /\ Ports(media')
    BY <1>0, <1>4 DEF TypeOK, MediaHeld, Ports
  <2>3. ASSUME InConf(data, c)
        PROVE  [data[c] EXCEPT !.rec = NoRec] \in Data /\ [data[c] EXCEPT !.rec = NoRec].rec = NoRec
    <3>1. data[c] \in Data
      BY <1>0, <2>1 DEF HasData, DataFn, Active
    <3> QED BY <3>1 DEF Data
  <2>4. ASSUME NEW x \in Calls
        PROVE  data'[x] = IF x = c /\ InConf(data, c) THEN [data[c] EXCEPT !.rec = NoRec] ELSE data[x]
    BY <1>0, <2>1 DEF DataFn
  <2>5. data' \in DataFn
    BY <1>0, <2>1, <2>3 DEF DataFn
  <2>6. \A x \in Enum \ {c} : data[x] # NoData => data[x].rec \notin stopped
    BY CompletedIsUnused
  <2>7. ~InConf(data, c) => stopped = {}
    OBVIOUS
  <2> HIDE DEF stopped
  <2>8. \A x \in Active : data'[x] # NoData
    <3> SUFFICES ASSUME NEW x \in Active PROVE data'[x] # NoData
      OBVIOUS
    <3>1. x \in Calls /\ data[x] # NoData
      BY <1>0 DEF HasData, Active
    <3> QED BY <2>3, <2>4, <3>1, NoDataAssumption
  <2>9. ASSUME NEW x \in Enum, data'[x] # NoData, data'[x].rec # NoRec
        PROVE  x \in Active /\ data'[x].rec \in live'
    <3>1. x \in Calls
      BY DEF Enum
    <3>2. CASE x = c /\ InConf(data, c)
      BY <2>3, <2>4, <2>9, <3>1, <3>2
    <3>3. CASE ~(x = c /\ InConf(data, c))
      BY <1>0, <2>1, <2>4, <2>6, <2>7, <2>9, <3>1, <3>3 DEF Open, Recording
    <3> QED BY <3>2, <3>3
  <2>10. Kept
    BY <1>0, <2>1, <2>5, <2>8, <2>9 DEF Kept, Opened, TypeOK
  <2> QED BY <1>0, <2>1, <2>2, <2>10, KeptIsInv DEF TypeOK
<1>5. CASE RemoteEnd(c) \/ AutoHangup(c)
  <2>1. PICK p \in {"hanging", "over"} : phase' = [phase EXCEPT ![c] = p]
    BY <1>5 DEF RemoteEnd, AutoHangup
  <2>2. /\ data' = [data EXCEPT ![c] = NoData]
        /\ ending' = [ending EXCEPT ![c] = data[c]]
        /\ MediaGone(c)
        /\ UNCHANGED <<tab, live, quiet, ui>>
    BY <1>5 DEF RemoteEnd, AutoHangup
  <2>3. Ended' /\ ending' \in [Calls -> Data \union {NoData}]
    BY <2>1, <2>2, EndedKeeps
  <2> QED BY <1>0, <2>1, <2>2, <2>3, EndKeeps DEF Inv, TypeOK
<1>7. CASE Vanish(c)
  <2>1. /\ phase' = [phase EXCEPT ![c] = "lost"]
        /\ data' = [data EXCEPT ![c] = NoData]
        /\ MediaGone(c)
        /\ UNCHANGED <<tab, ending, live, quiet, ui>>
        /\ c \in Active
    BY <1>7 DEF Vanish
  <2>2. ending[c] = NoData
    BY <1>0, <2>1 DEF Ended, Active
  <2>3. Ended'
    BY <1>0, <2>1, <2>2 DEF Ended, TypeOK
  <2> QED BY <1>0, <2>1, <2>3, EndKeeps DEF Inv, TypeOK
<1>6. CASE ByeDone(c)
  <2>1. /\ phase' = [phase EXCEPT ![c] = "over"]
        /\ data' = [data EXCEPT ![c] = NoData]
        /\ UNCHANGED <<tab, ending, media, bridge, taps, live, quiet, ui>>
    BY <1>6 DEF ByeDone
  <2>2. TypeOK'
    BY <1>0, <2>1 DEF TypeOK, Phases
  <2>3. \A x \in Calls : x = c \/ (data'[x] = data[x] /\ phase'[x] = phase[x])
    BY <1>0, <2>1 DEF TypeOK
  <2>4. data'[c] = NoData /\ phase'[c] = "over"
    BY <1>0, <2>1 DEF TypeOK
  <2>5. HasData' /\ Open(data, live)' /\ Ended'
    BY <1>0, <2>1, <2>3, <2>4 DEF HasData, Open, Recording, Ended, Active, Enum
  <2>6. Ports(media)'
    BY <1>0, <1>6, <2>1, <2>3 DEF ByeDone, Ports, Active
  <2> QED BY <2>2, <2>5, <2>6 DEF Inv
<1> QED BY <1>1, <1>2, <1>3, <1>4, <1>5, <1>6, <1>7

\* The loops of the UI thread look at calls only, and stay well typed.
LEMMA AdvanceInLoop ==
  ASSUME Inv, Advance
  PROVE  First(ui.rest) \in Calls /\ ui' \in Loops \union {Idle}
<1>1. ui \in Loops \union {Idle} /\ ui.rest \in SUBSET Calls /\ ui.rest # {}
  BY DEF Inv, TypeOK, Loops, Idle, Advance
<1>2. First(ui.rest) \in Calls
  BY <1>1, FirstIsMember
<1>3. Idle \in Loops \union {Idle}
  BY DEF Idle, Loops
<1>4. [ui EXCEPT !.rest = ui.rest \ {First(ui.rest)}] \in Loops \union {Idle}
  BY <1>1 DEF Loops, Idle
<1> QED BY <1>2, <1>3, <1>4 DEF Advance

\* The iterations of the loops that end, merge and separate keep the invariant.
LEMMA LoopKeepsInv ==
  ASSUME Inv, EndStep \/ EndLast \/ MergeStep \/ SeparateStep
  PROVE  Inv'
<1> DEFINE x == First(ui.rest)
<1>0. ASSUME ui' \in Loops \union {Idle},
             UNCHANGED <<phase, tab, data, ending, media, bridge, taps, live, quiet>>
      PROVE  Inv'
  BY <1>0 DEF Inv, TypeOK, HasData, Ended, Ports, Open, Recording, Active, Enum
<1>1. CASE EndStep
  <2>1. x \in Calls /\ ui' \in Loops \union {Idle}
    BY <1>1, AdvanceInLoop DEF EndStep
  <2>2. HangupFast(x) \/ UNCHANGED <<phase, tab, data, ending, media, bridge, taps, live, quiet>>
    BY <1>1 DEF EndStep
  <2> HIDE DEF x
  <2> QED BY <1>0, <2>1, <2>2, HangupKeeps
<1>2. CASE EndLast
  <2>1. ui' \in Loops \union {Idle}
    BY <1>2 DEF EndLast, Idle, Loops
  <2>2. \/ ui.call \in Calls /\ HangupFast(ui.call)
        \/ UNCHANGED <<phase, tab, data, ending, media, bridge, taps, live, quiet>>
    BY <1>2 DEF EndLast, Enum
  <2> QED BY <1>0, <2>1, <2>2, HangupKeeps
<1>3. CASE MergeStep
  <2>1. x \in Calls /\ ui' \in Loops \union {Idle}
    BY <1>3, AdvanceInLoop DEF MergeStep
  <2>2. \/ x \in Active /\ MergeWith(ui.call, x)
        \/ UNCHANGED <<phase, tab, data, ending, media, bridge, taps, live, quiet>>
    BY <1>3 DEF MergeStep
  <2>3. ui.call \in Calls
    BY <1>3 DEF MergeStep, Inv, TypeOK, Loops, Idle
  <2> HIDE DEF x
  <2> QED BY <1>0, <2>1, <2>2, <2>3, MergeIsInv
<1>4. CASE SeparateStep
  <2>1. x \in Calls /\ ui' \in Loops \union {Idle}
    BY <1>4, AdvanceInLoop DEF SeparateStep
  <2>2. \/ x \in Enum /\ ConferenceLeave(x)
        \/ UNCHANGED <<data, bridge, taps, live, quiet>>
    BY <1>4 DEF SeparateStep
  <2>3. UNCHANGED <<phase, tab, ending, media>>
    BY <1>4 DEF SeparateStep
  <2>4. media' \in [Calls -> {"none", "active", "held"}] /\ Ports(media')
    BY <2>3 DEF Inv, TypeOK
  <2> HIDE DEF x
  <2>5. CASE x \in Enum /\ ConferenceLeave(x)
    BY <2>1, <2>3, <2>4, <2>5, LeaveKeeps, KeptIsInv
  <2> QED BY <1>0, <2>1, <2>2, <2>3, <2>5
<1> QED BY <1>1, <1>2, <1>3, <1>4

\* The handlers of the UI thread that are about one call keep the invariant.
LEMMA UserKeepsInv ==
  ASSUME Inv, NEW s \in Calls,
         \/ ShowTab(s) \/ HandleEnd(s) \/ Hangup(s) \/ EndConference(s)
         \/ MergeAll(s) \/ Separate(s) \/ SeparateAll(s) \/ ToggleRec(s)
  PROVE  Inv'
<1>0. /\ TypeOK /\ HasData /\ Ended /\ Ports(media) /\ Open(data, live)
      /\ data \in DataFn /\ ui \in Loops \union {Idle}
  BY DEF Inv, TypeOK, DataFn
<1>1. CASE ShowTab(s)
  BY <1>0, <1>1 DEF ShowTab, Inv, TypeOK, HasData, Ended, Ports, Open, Recording, Active, Enum
<1>2. CASE HandleEnd(s)
  <2>1. /\ tab' = [tab EXCEPT ![s] = FALSE]
        /\ ending' = [ending EXCEPT ![s] = NoData]
        /\ UNCHANGED <<phase, media, bridge, ui>>
        /\ ending[s] # NoData
    BY <1>2 DEF HandleEnd
  <2>2. /\ tab' \in [Calls -> BOOLEAN] /\ ending' \in [Calls -> Data \union {NoData}]
        /\ Ended' /\ Ports(media)' /\ Active' = Active /\ Enum' = Enum
    BY <1>0, <2>1 DEF TypeOK, Ended, Ports, Active, Enum
  <2>3. CASE ~tab[s]
    <3>1. UNCHANGED <<data, taps, live, quiet>>
      BY <1>2, <2>3 DEF HandleEnd
    <3> QED BY <1>0, <2>1, <2>2, <3>1 DEF Inv, TypeOK, HasData, Open, Recording
  <2>4. CASE tab[s]
    <3>1. /\ live' = live \ Completed(s, ending[s].rec)
          /\ quiet' = quiet \ Completed(s, ending[s].rec)
          /\ taps' \subseteq taps
          /\ data' = IF ending[s].conf THEN Dissolve(data, s) ELSE data
      BY <1>2, <2>4 DEF HandleEnd, RecordingStop
    <3>2. /\ Dissolve(data, s) \in DataFn
          /\ \A x \in Calls : Dissolve(data, s)[x] = NoData <=> data[x] = NoData
          /\ \A x \in Calls : data[x] # NoData => Dissolve(data, s)[x].rec = data[x].rec
      BY <1>0, DissolveIsData
    <3>3. /\ data' \in DataFn
          /\ \A x \in Calls : data'[x] = NoData <=> data[x] = NoData
          /\ \A x \in Calls : data[x] # NoData => data'[x].rec = data[x].rec
      BY <1>0, <3>1, <3>2
    <3>4. \A x \in Enum \ {s} : data[x] # NoData => data[x].rec \notin Completed(s, ending[s].rec)
      BY CompletedIsUnused
    <3>5. s \notin Active
      BY <1>0, <2>1 DEF Ended, Active
    <3>6. ASSUME NEW x \in Enum, data'[x] # NoData, data'[x].rec # NoRec
          PROVE  x \in Active /\ data'[x].rec \in live'
      <4>1. x \in Calls /\ data[x] # NoData /\ data'[x].rec = data[x].rec
        BY <3>3, <3>6 DEF Enum
      <4>2. x \in Active /\ data[x].rec \in live
        BY <1>0, <3>6, <4>1 DEF Open, Recording
      <4> QED BY <3>1, <3>4, <3>5, <4>1, <4>2
    <3>7. HasData' /\ Open(data, live)'
      BY <1>0, <2>2, <3>3, <3>6 DEF HasData, Open, Recording, Active
    <3>8. TypeOK'
      BY <1>0, <2>1, <2>2, <3>1, <3>3 DEF TypeOK, DataFn
    <3> QED BY <2>2, <3>7, <3>8 DEF Inv
  <2> QED BY <2>3, <2>4
<1>3. CASE Hangup(s)
  BY <1>0, <1>3, HangupKeeps DEF Hangup
<1>4. CASE EndConference(s) \/ MergeAll(s) \/ SeparateAll(s)
  <2>1. ui' \in Loops
    BY <1>4 DEF EndConference, MergeAll, SeparateAll, Loops, Enum
  <2>2. UNCHANGED <<phase, tab, data, ending, media, bridge, taps, live, quiet>>
    BY <1>4 DEF EndConference, MergeAll, SeparateAll
  <2> QED BY <1>0, <2>1, <2>2 DEF Inv, TypeOK, HasData, Ended, Ports, Open, Recording, Active, Enum
<1>5. CASE Separate(s)
  <2>1. /\ s \in Enum /\ ConferenceLeave(s)
        /\ UNCHANGED <<phase, tab, ending, media, ui>>
    BY <1>5 DEF Separate
  <2>2. media' \in [Calls -> {"none", "active", "held"}] /\ Ports(media')
    BY <1>0, <2>1 DEF TypeOK
  <2> QED BY <1>0, <2>1, <2>2, LeaveKeeps, KeptIsInv
<1>6. CASE ToggleRec(s)
  <2>1. /\ s \in Enum /\ data[s] # NoData
        /\ UNCHANGED <<phase, tab, ending, media, bridge, ui>>
    BY <1>6 DEF ToggleRec
  <2>2. /\ media' \in [Calls -> {"none", "active", "held"}] /\ Ports(media')
        /\ bridge' \subseteq SUBSET Calls /\ ui' \in Loops \union {Idle}
    BY <1>0, <2>1 DEF TypeOK
  <2>3. CASE Recording(data, s)
    <3> DEFINE r == data[s].rec
               others == {x \in Enum : data[x] # NoData /\ data[x].rec = r}
    <3>1. /\ live' = live \ {r} /\ quiet' = quiet \ {r}
          /\ taps' \subseteq taps
          /\ \A x \in Calls : data'[x] = IF x \in others THEN [data[x] EXCEPT !.rec = NoRec]
                                                      ELSE data[x]
          /\ data' = [x \in Calls |-> IF x \in others THEN [data[x] EXCEPT !.rec = NoRec]
                                                      ELSE data[x]]
      BY <1>6, <2>3 DEF ToggleRec, RecordingStopAll
    <3>2. ASSUME NEW x \in others
          PROVE  [data[x] EXCEPT !.rec = NoRec] \in Data /\ [data[x] EXCEPT !.rec = NoRec].rec = NoRec
      <4>1. data[x] \in Data
        BY <1>0 DEF DataFn, Enum
      <4> QED BY <4>1 DEF Data
    <3>3. data' \in DataFn
      BY <1>0, <3>1, <3>2 DEF DataFn
    <3>4. \A x \in Enum : x \notin others /\ data[x] # NoData => data[x].rec # r
      OBVIOUS
    <3>5. \A x \in Calls : data[x] # NoData => data'[x] # NoData
      BY <3>1, <3>2, NoDataAssumption
    <3> HIDE DEF r, others
    <3>6. ASSUME NEW x \in Enum, data'[x] # NoData, data'[x].rec # NoRec
          PROVE  x \in Active /\ data'[x].rec \in live'
      <4>1. x \in Calls
        BY DEF Enum
      <4>2. x \notin others /\ data'[x] = data[x]
        BY <3>1, <3>2, <3>6, <4>1
      <4> QED BY <1>0, <3>1, <3>4, <3>6, <4>2 DEF Open, Recording
    <3>7. Kept
      BY <1>0, <3>1, <3>3, <3>5, <3>6 DEF Kept, Opened, TypeOK, HasData, Active
    <3> QED BY <2>1, <2>2, <3>7, KeptIsInv
  <2>4. CASE ~Recording(data, s)
    <3>1. s \in Active /\ RecordingStart(s)
      BY <1>0, <1>6, <2>4 DEF ToggleRec, Ports, Slotted
    <3>2. Kept
      BY <2>1, <3>1, RecordingStartKeeps
    <3> QED BY <2>1, <2>2, <3>2, KeptIsInv
  <2> QED BY <2>3, <2>4
<1> QED BY <1>1, <1>2, <1>3, <1>4, <1>5, <1>6

\* So do those about two, Merge and the invitation.
LEMMA PairKeepsInv ==
  ASSUME Inv, NEW s \in Calls, NEW c \in Calls, Merge(s, c) \/ Invite(s, c)
  PROVE  Inv'
<1>0. /\ TypeOK /\ HasData /\ Ended /\ Ports(media) /\ Open(data, live)
      /\ data \in DataFn /\ ui \in Loops \union {Idle}
  BY DEF Inv, TypeOK, DataFn
<1>1. CASE Merge(s, c)
  <2>1. c \in Active /\ MergeWith(s, c) /\ ui' = ui
    BY <1>1 DEF Merge, Active
  <2> QED BY <1>0, <2>1, MergeIsInv
<1>2. CASE Invite(s, c)
  <2> DEFINE d == Flagged(s, s)
  <2>1. /\ d \in DataFn
        /\ \A x \in Calls : data[x] # NoData => d[x] # NoData
        /\ \A x \in Calls : d[x] # NoData /\ d[x].rec # NoRec
                           => data[x] # NoData /\ d[x].rec = data[x].rec
    BY FlaggedIsData
  <2>2. d[s] \in Data
    BY FlaggedIsData
  <2>3. UNCHANGED <<ending, media, bridge, taps, live, quiet, ui>> /\ phase[c] = "idle"
    BY <1>2 DEF Invite
  <2>4. CASE /\ data' = [d EXCEPT ![c] = [NewData EXCEPT !.conf = TRUE]]
             /\ phase' = [phase EXCEPT ![c] = "setup"]
             /\ tab' = [tab EXCEPT ![c] = TRUE]
    <3> HIDE DEF d
    <3>1. data' \in DataFn /\ \A x \in Calls :
            data'[x] = IF x = c THEN [NewData EXCEPT !.conf = TRUE] ELSE d[x]
      BY <2>1, <2>4, NewDataIsData DEF DataFn
    <3>2. \A x \in Calls : phase'[x] = IF x = c THEN "setup" ELSE phase[x]
      BY <1>0, <2>4 DEF TypeOK
    <3>3. TypeOK'
      BY <1>0, <2>3, <2>4, <3>1 DEF TypeOK, DataFn, Phases
    <3>4. Ended' /\ Ports(media)'
      BY <1>0, <2>3, <3>2 DEF Ended, Ports, Active
    <3>5. HasData'
      BY <1>0, <2>1, <3>1, <3>2, NewDataIsData DEF HasData, Active
    <3>6. ASSUME NEW x \in Enum', data'[x] # NoData, data'[x].rec # NoRec
          PROVE  x \in Active' /\ data'[x].rec \in live'
      <4>1. x \in Calls
        BY DEF Enum
      <4>2. x # c
        BY <3>1, <3>6, <4>1, NewDataIsData
      <4>3. data[x] # NoData /\ data'[x].rec = data[x].rec /\ data[x].rec # NoRec
        BY <2>1, <3>1, <3>6, <4>1, <4>2
      <4>4. x \in Enum /\ phase'[x] = phase[x]
        BY <3>2, <4>1, <4>2 DEF Enum
      <4> QED BY <1>0, <2>3, <4>1, <4>3, <4>4 DEF Open, Recording, Active
    <3> QED BY <3>3, <3>4, <3>5, <3>6 DEF Inv, Open, Recording
  <2>5. CASE /\ data' = [d EXCEPT ![s].conf = FALSE]
             /\ UNCHANGED <<phase, tab>>
    <3> HIDE DEF d
    <3>1. [d[s] EXCEPT !.conf = FALSE] \in Data /\ [d[s] EXCEPT !.conf = FALSE].rec = d[s].rec
      BY <2>2 DEF Data
    <3>2. data' \in DataFn /\ \A x \in Calls :
            data'[x] = IF x = s THEN [d[s] EXCEPT !.conf = FALSE] ELSE d[x]
      BY <2>1, <2>5, <3>1 DEF DataFn
    <3>3. \A x \in Calls : /\ data[x] # NoData => data'[x] # NoData
                           /\ data'[x] # NoData /\ data'[x].rec # NoRec
                              => data[x] # NoData /\ data'[x].rec = data[x].rec
      <4> SUFFICES ASSUME NEW x \in Calls
                   PROVE  /\ data[x] # NoData => data'[x] # NoData
                          /\ data'[x] # NoData /\ data'[x].rec # NoRec
                               => data[x] # NoData /\ data'[x].rec = data[x].rec
        OBVIOUS
      <4>1. CASE x = s
        BY <2>1, <2>2, <3>1, <3>2, <4>1, NoDataAssumption
      <4>2. CASE x # s
        BY <2>1, <3>2, <4>2
      <4> QED BY <4>1, <4>2
    <3>4. TypeOK' /\ Ended' /\ Ports(media)'
      BY <1>0, <2>3, <2>5, <3>2 DEF TypeOK, DataFn, Ended, Ports, Active
    <3>5. HasData' /\ Open(data, live)'
      BY <1>0, <2>3, <2>5, <3>3 DEF HasData, Open, Recording, Active, Enum
    <3> QED BY <3>4, <3>5 DEF Inv
  <2> QED BY <1>2, <2>4, <2>5 DEF Invite
<1> QED BY <1>1, <1>2

\* Every step of every thread keeps the inductive invariant.
THEOREM InvIsInductive == Inv /\ [Next]_vars => Inv'
<1> SUFFICES ASSUME Inv, [Next]_vars PROVE Inv'
  OBVIOUS
<1>1. CASE Worker
  BY <1>1, WorkerKeepsInv DEF Worker
<1>2. CASE UserInterface
  BY <1>2, UserKeepsInv, PairKeepsInv, LoopKeepsInv DEF UserInterface
<1>3. CASE UNCHANGED vars
  BY <1>3 DEF vars, Inv, TypeOK, HasData, Ended, Ports, Open, Recording, Active, Enum
<1> QED BY <1>1, <1>2, <1>3 DEF Next

\* In every behaviour: what the slots' user data name is an open recorder, of a
\* call that goes on, and a call that goes on has its user data; only a call that
\* goes on has media; user data wait in the UI only for calls that have ended.
THEOREM InvHolds == Spec => []Inv
BY InitInv, InvIsInductive, PTL DEF Spec

-----------------------------------------------------------------------------
\* The state of pjsua, the user data and the loop of the UI keep their types.
THEOREM TypeCorrect == Spec => []TypeOK
<1>1. Inv => TypeOK
  BY DEF Inv
<1> QED BY <1>1, InvHolds, PTL

\* For any number of calls and recorders, and whatever invitations fail: no file
\* is completed while the user data of another call in the slots name it.
THEOREM RecorderStaysOpen == Spec => []RecorderInUse
<1>1. Inv => RecorderInUse
  BY DEF Inv, Open, RecorderInUse
<1> QED BY <1>1, InvHolds, PTL

-----------------------------------------------------------------------------
(***************************************************************************)
(* Only members of the one conference hear each other and share a file, as *)
(* long as no invitation fails (one that does breaks it).                  *)
(*                                                                         *)
(* The part of the invariant that is new says in addition that the calls   *)
(* that hear each other have media.  It is needed where the last member of *)
(* a conference ceases to be one: whoever is connected to it goes on, and  *)
(* so is one of the members that the code has just looked for.             *)
(***************************************************************************)

Linked(d, md, b) ==
  \A x, y \in Calls : x # y /\ {x, y} \in b =>
    md[x] # "none" /\ md[y] # "none" /\ InConf(d, x) /\ InConf(d, y)

Same(d, x, y) == Recording(d, x) /\ Recording(d, y) /\ d[x].rec = d[y].rec

Shared(d) ==
  \A x, y \in Enum : x # y /\ Same(d, x, y) => InConf(d, x) /\ InConf(d, y)

Unity == Linked(data, media, bridge) /\ Shared(data)

\* The steps below keep the first invariant anyway.
Kin == Inv /\ Unity

-----------------------------------------------------------------------------
\* Taking over a recorder makes nobody a member.
LEMMA AssignedOnly ==
  ASSUME NEW d \in DataFn, NEW S, \A x \in S : d[x] # NoData, NEW r \in Recorders,
         NEW x \in Calls
  PROVE  /\ InConf(Assign(d, S, r), x) <=> InConf(d, x)
         /\ x \in S => Recording(Assign(d, S, r), x) /\ Assign(d, S, r)[x].rec = r
         /\ x \notin S => Assign(d, S, r)[x] = d[x]
<1>1. Assign(d, S, r)[x] = IF x \in S THEN [d[x] EXCEPT !.rec = r] ELSE d[x]
  BY DEF Assign
<1>2. CASE x \in S
  <2>1. d[x] \in Data /\ d[x] # NoData
    BY <1>2 DEF DataFn
  <2>2. /\ [d[x] EXCEPT !.rec = r] \in Data
        /\ [d[x] EXCEPT !.rec = r].rec = r
        /\ [d[x] EXCEPT !.rec = r].conf = d[x].conf
    BY <2>1 DEF Data
  <2> QED BY <1>1, <1>2, <2>1, <2>2, NoDataAssumption, NoRecAssumption DEF InConf, Recording
<1>3. CASE x \notin S
  BY <1>1, <1>3 DEF InConf
<1> QED BY <1>2, <1>3

\* The same of a group of members that get the recorder of one of them, or a new
\* one, or of a single call that gets a new one.
LEMMA AssignShares ==
  ASSUME NEW d \in DataFn, Shared(d), NEW S, \A x \in S : d[x] # NoData, NEW r \in Recorders,
         \/ /\ \A x \in S : InConf(d, x)
            /\ \A x \in Enum : Recording(d, x) /\ d[x].rec = r => InConf(d, x)
         \/ /\ \A x \in Enum : Recording(d, x) => d[x].rec # r
            /\ (\A x \in S : InConf(d, x)) \/ (\E c : S = {c})
  PROVE  Shared(Assign(d, S, r))
<1> DEFINE e == Assign(d, S, r)
<1>0. \A x \in Calls : /\ InConf(e, x) <=> InConf(d, x)
                       /\ x \in S => Recording(e, x) /\ e[x].rec = r
                       /\ x \notin S => e[x] = d[x]
  BY AssignedOnly
<1> HIDE DEF e
<1> SUFFICES ASSUME NEW x \in Enum, NEW y \in Enum, x # y, Same(e, x, y)
             PROVE  InConf(d, x) /\ InConf(d, y)
  BY <1>0 DEF Shared, e, Enum
<1>1. x \in Calls /\ y \in Calls
  BY DEF Enum
<1>2. CASE x \in S /\ y \in S
  BY <1>2
<1>3. CASE x \notin S /\ y \notin S
  BY <1>0, <1>1, <1>3 DEF Same, Shared, Recording
<1>4. CASE x \in S /\ y \notin S
  BY <1>0, <1>1, <1>4 DEF Same, Recording
<1>5. CASE x \notin S /\ y \in S
  BY <1>0, <1>1, <1>5 DEF Same, Recording
<1> QED BY <1>2, <1>3, <1>4, <1>5

\* msip_conference_join connects members with media, and only members take over
\* a member's recorder.
LEMMA JoinUnites ==
  ASSUME NEW d \in DataFn, NEW md, Ports(md), NEW c \in Enum, NEW b, NEW t, Open(d, live),
         Linked(d, md, b), Shared(d), ConferenceJoin(d, md, c, b, t)
  PROVE  Linked(data', md, bridge') /\ Shared(data')
<1>1. CASE ~InConf(d, c)
  BY <1>1 DEF ConferenceJoin
<1>2. CASE InConf(d, c)
  <2> DEFINE peers == {x \in Members(d, c) : Slotted(md, x)}
             new == Newcomers(d, md, c)
             r == SharedRec(d)
  <2>1. bridge' = b \union {{c, x} : x \in {y \in peers : Slotted(md, c)}}
    BY <1>2 DEF ConferenceJoin
  <2>2. \A x \in peers : x \in Calls /\ InConf(d, x) /\ md[x] # "none"
    BY DEF Members, Slotted, Enum
  <2>3. Linked(d, md, bridge')
    <3> SUFFICES ASSUME NEW x \in Calls, NEW y \in Calls, x # y, {x, y} \in bridge'
                 PROVE md[x] # "none" /\ md[y] # "none" /\ InConf(d, x) /\ InConf(d, y)
      BY DEF Linked
    <3>1. CASE {x, y} \in b
      BY <3>1 DEF Linked
    <3>2. CASE {x, y} \notin b
      <4>1. PICK z \in peers : {x, y} = {c, z} /\ Slotted(md, c)
        BY <2>1, <3>2
      <4>2. (x = c /\ y = z) \/ (x = z /\ y = c)
        BY <4>1
      <4> QED BY <1>2, <2>2, <4>1, <4>2 DEF Slotted
    <3> QED BY <3>1, <3>2
  <2>4. CASE new = {}
    <3>1. data' = d
      BY <1>2, <2>4 DEF ConferenceJoin
    <3> QED BY <2>3, <3>1
  <2>5. CASE new # {}
    <3>1. data' = Assign(d, new, r)
      BY <1>2, <2>5 DEF ConferenceJoin
    <3>2. \A x \in new : InConf(d, x) /\ d[x] # NoData
      BY <1>2 DEF Newcomers, Members, InConf
    <3>3. r \in Recorders
      BY <1>2, <2>5, SharedRecIsOpen
    <3>4. \A x \in Enum : Recording(d, x) /\ d[x].rec = r => InConf(d, x)
      <4> DEFINE T == {x \in Enum : InConf(d, x) /\ Recording(d, x)}
      <4>1. T # {} /\ T \in SUBSET Calls
        BY <1>2, <2>5 DEF Newcomers, Members, Enum
      <4>2. First(T) \in T /\ r = d[First(T)].rec
        BY <4>1, FirstIsMember DEF SharedRec
      <4> QED BY <4>2 DEF Shared, Same
    <3> HIDE DEF new, r
    <3>5. Shared(data')
      BY <3>1, <3>2, <3>3, <3>4, AssignShares
    <3>6. \A x \in Calls : InConf(data', x) <=> InConf(d, x)
      BY <3>1, <3>2, <3>3, AssignedOnly
    <3>7. Linked(data', md, bridge')
      BY <2>3, <3>6 DEF Linked
    <3> QED BY <3>5, <3>7
  <2> QED BY <2>4, <2>5
<1> QED BY <1>1, <1>2

\* msip_call_recording_start takes a member's recorder, or a new one for the
\* call and the members with media.
LEMMA RecordingStartUnites ==
  ASSUME Kin, NEW c \in Enum, data[c] # NoData, RecordingStart(c),
         Enum' = Enum, UNCHANGED <<media, bridge>>
  PROVE  Unity'
<1>0. data \in DataFn /\ Open(data, live) /\ Shared(data) /\ Linked(data, media, bridge) /\ c \in Calls
  BY DEF Kin, Inv, TypeOK, DataFn, Unity, Enum
<1>1. ASSUME NEW S, \A x \in S : data[x] # NoData, NEW r \in Recorders, data' = Assign(data, S, r),
             Shared(Assign(data, S, r))
      PROVE  Unity'
  <2>1. \A x \in Calls : InConf(data', x) <=> InConf(data, x)
    BY <1>0, <1>1, AssignedOnly
  <2>2. Linked(data', media', bridge')
    BY <1>0, <2>1 DEF Linked
  <2>3. Shared(data)'
    BY <1>1 DEF Shared, Same, InConf, Recording
  <2> QED BY <2>2, <2>3 DEF Unity
<1>2. CASE InConf(data, c) /\ Holders(data, c) # {}
  <2> DEFINE h == First(Holders(data, c))
             r == data[h].rec
  <2>1. h \in Holders(data, c)
    BY <1>2, FirstIsMember DEF Holders, Members, Enum
  <2>2. /\ h \in Enum /\ InConf(data, h) /\ Recording(data, h) /\ r \in Recorders
        /\ data' = Assign(data, {c}, r)
    BY <1>0, <1>2, <2>1 DEF Holders, Members, RecordingStart, Recording, DataFn, Data, Enum
  <2>3. \A x \in Enum : Recording(data, x) /\ data[x].rec = r => InConf(data, x)
    BY <1>0, <2>2 DEF Shared, Same
  <2> HIDE DEF h, r
  <2>4. Shared(Assign(data, {c}, r))
    BY <1>0, <1>2, <2>2, <2>3, AssignShares
  <2> QED BY <1>1, <2>2, <2>4
<1>3. CASE ~(InConf(data, c) /\ Holders(data, c) # {}) /\ ~UNCHANGED <<data, taps, live, quiet>>
  <2> DEFINE S == {c} \union (IF InConf(data, c)
                             THEN {x \in Members(data, c) : Slotted(media, x)} ELSE {})
  <2>1. PICK r \in Recorders \ live : data' = Assign(data, S, r)
    BY <1>3 DEF RecordingStart
  <2>2. (\A x \in S : InConf(data, x)) \/ S = {c}
    BY DEF Members
  <2>3. \A x \in S : data[x] # NoData
    BY DEF Members, InConf
  <2>4. \A x \in Enum : Recording(data, x) => data[x].rec # r
    BY <1>0, <2>1 DEF Open
  <2> HIDE DEF S
  <2>5. Shared(Assign(data, S, r))
    BY <1>0, <2>1, <2>2, <2>3, <2>4, AssignShares
  <2> QED BY <1>1, <2>1, <2>3, <2>5
<1>4. CASE UNCHANGED <<data, taps, live, quiet>>
  BY <1>0, <1>4 DEF Unity, Linked, Shared, Same, InConf, Recording
<1> QED BY <1>2, <1>3, <1>4 DEF RecordingStart

-----------------------------------------------------------------------------
\* The call that is alone in the conference once c has left is connected to
\* nobody but c and shares its recorder with nobody but c.
LEMMA LastIsAlone ==
  ASSUME Kin, NEW c \in Calls, NEW x \in Calls, Members(data, c) = {x},
         NEW y \in Calls, y # x
  PROVE  /\ {x, y} \in bridge => y = c
         /\ y \in Enum /\ Same(data, x, y) => y = c
<1>1. x \in Enum /\ x # c
  BY DEF Members
<1>2. ASSUME y \in Enum, InConf(data, y) PROVE y = c
  BY <1>2 DEF Members
<1>3. {x, y} \in bridge => y \in Enum /\ InConf(data, y)
  <2>1. {x, y} \in bridge => media[y] # "none" /\ InConf(data, y)
    BY DEF Kin, Unity, Linked
  <2>2. media[y] # "none" => y \in Active
    BY DEF Kin, Inv, Ports
  <2> QED BY <2>1, <2>2 DEF Active, Enum
<1>4. y \in Enum /\ Same(data, x, y) => InConf(data, y)
  BY <1>1 DEF Kin, Unity, Shared
<1> QED BY <1>2, <1>3, <1>4

\* A call c leaves the conference, or has left it, and the last member left is no
\* member any more (msip_conference_leave, OnEndCall, msip_call_hangup_fast).
LEMMA LeavingUnites ==
  ASSUME Kin, NEW c \in Calls,
         \A x \in Calls \ {c} : data'[x] = Dissolve(data, c)[x],
         c \in Enum => ~Recording(data', c),
         bridge' \subseteq bridge,
         \A x \in Calls \ {c} : {c, x} \notin bridge',
         UNCHANGED <<phase, media>>
  PROVE  Unity'
<1>0. data \in DataFn /\ Shared(data) /\ Linked(data, media, bridge)
  BY DEF Kin, Inv, TypeOK, DataFn, Unity
<1>1. ASSUME NEW x \in Calls \ {c}
      PROVE  /\ Recording(data', x) => Recording(data, x) /\ data'[x].rec = data[x].rec
             /\ Members(data, c) # {x} => data'[x] = data[x]
  <2>1. data'[x] = Dissolve(data, c)[x]
    OBVIOUS
  <2>2. /\ Dissolve(data, c)[x] = NoData <=> data[x] = NoData
        /\ data[x] # NoData => Dissolve(data, c)[x].rec = data[x].rec
    BY <1>0, DissolveIsData
  <2>3. Members(data, c) # {x} => data'[x] = data[x]
    BY <2>1 DEF Dissolve
  <2> QED BY <2>1, <2>2, <2>3 DEF Recording
<1>2. Linked(data', media', bridge')
  <2> SUFFICES ASSUME NEW x \in Calls, NEW y \in Calls, x # y, {x, y} \in bridge'
               PROVE media[x] # "none" /\ media[y] # "none" /\ InConf(data', x) /\ InConf(data', y)
    BY DEF Linked
  <2>1. {x, y} \in bridge /\ {y, x} = {x, y} /\ x # c /\ y # c
    OBVIOUS
  <2>2. Members(data, c) # {x} /\ Members(data, c) # {y}
    BY <2>1, LastIsAlone
  <2>3. data'[x] = data[x] /\ data'[y] = data[y]
    BY <1>1, <2>1, <2>2
  <2> QED BY <1>0, <2>1, <2>3 DEF Linked, InConf
<1>3. Shared(data)'
  <2> SUFFICES ASSUME NEW x \in Enum, NEW y \in Enum, x # y, Same(data', x, y)
               PROVE  InConf(data', x) /\ InConf(data', y)
    BY DEF Shared, Same, InConf, Recording, Enum
  <2>1. x \in Calls /\ y \in Calls /\ x # c /\ y # c
    BY DEF Enum, Same
  <2>2. Same(data, x, y) /\ Same(data, y, x)
    BY <1>1, <2>1 DEF Same
  <2>3. Members(data, c) # {x} /\ Members(data, c) # {y}
    BY <2>1, <2>2, LastIsAlone
  <2>4. data'[x] = data[x] /\ data'[y] = data[y]
    BY <1>1, <2>1, <2>3
  <2> QED BY <1>0, <2>2, <2>4 DEF Shared, InConf
<1> QED BY <1>2, <1>3 DEF Unity

\* A call ends in pjsua: its connections and its user data are gone.
LEMMA EndingUnites ==
  ASSUME Kin, NEW c \in Calls, NEW p \in {"hanging", "over", "lost"},
         phase' = [phase EXCEPT ![c] = p],
         data' = [data EXCEPT ![c] = NoData], c \in Enum,
         MediaGone(c)
  PROVE  Unity'
<1>0. data \in DataFn /\ Shared(data) /\ Linked(data, media, bridge)
      /\ media \in [Calls -> {"none", "active", "held"}] /\ phase \in [Calls -> Phases]
  BY DEF Kin, Inv, TypeOK, DataFn, Unity
<1>1. \A x \in Calls \ {c} : data'[x] = data[x] /\ media'[x] = media[x] /\ phase'[x] = phase[x]
  BY <1>0 DEF MediaGone, DataFn
<1>2. data'[c] = NoData
  BY <1>0 DEF DataFn
<1>3. Linked(data', media', bridge')
  <2>1. \A x, y \in Calls : {x, y} \in bridge' => {x, y} \in bridge /\ x # c /\ y # c
    BY DEF MediaGone, PairsOf
  <2> QED BY <1>0, <1>1, <2>1 DEF Linked, InConf
<1>4. Shared(data)'
  <2> SUFFICES ASSUME NEW x \in Enum', NEW y \in Enum', x # y, Same(data', x, y)
               PROVE  InConf(data', x) /\ InConf(data', y)
    BY DEF Shared, Same, InConf, Recording
  <2>1. x \in Calls \ {c} /\ y \in Calls \ {c}
    BY <1>2 DEF Enum, Same, Recording
  <2>2. x \in Enum /\ y \in Enum
    BY <1>1, <2>1 DEF Enum
  <2> QED BY <1>0, <1>1, <2>1, <2>2 DEF Shared, Same, Recording, InConf
<1> QED BY <1>3, <1>4 DEF Unity

-----------------------------------------------------------------------------
\* What the lemmas say of the primed variables, when the slots stay as they are.
LEMMA SlotsStay ==
  ASSUME Linked(data', media', bridge'), Shared(data'), Enum' = Enum
  PROVE  Unity'
BY DEF Unity, Shared, Same, InConf, Recording

\* Nothing is connected or recorded anew.
LEMMA NothingNew ==
  ASSUME Kin, UNCHANGED <<data, media, bridge>>, Enum' = Enum
  PROVE  Unity'
BY DEF Kin, Unity, Linked, Shared, Same, InConf, Recording

\* A slot that is no member's and does not record is taken, or given back.
LEMMA SlotChanges ==
  ASSUME NEW d, Linked(d, media, bridge), Shared(d), NEW c \in Calls, media[c] = "none",
         c \notin Enum' \/ ~Recording(data', c),
         \A x \in Calls \ {c} : data'[x] = d[x] /\ (x \in Enum' => x \in Enum),
         UNCHANGED <<media, bridge>>
  PROVE  Unity'
<1>1. Linked(data', media', bridge')
  BY DEF Linked, InConf
<1>2. Shared(data)'
  <2> SUFFICES ASSUME NEW x \in Enum', NEW y \in Enum', x # y, Same(data', x, y)
               PROVE  InConf(data', x) /\ InConf(data', y)
    BY DEF Shared, Same, InConf, Recording
  <2>1. x \in Calls \ {c} /\ y \in Calls \ {c}
    BY DEF Enum, Same
  <2> QED BY <2>1 DEF Shared, Same, Recording, InConf
<1> QED BY <1>1, <1>2 DEF Unity

\* The callbacks of pjsua's worker thread.
LEMMA WorkerUnites ==
  ASSUME Kin, NEW c \in Calls,
         \/ NewCall(c) \/ Confirm(c) \/ MediaActive(c) \/ MediaHeld(c)
         \/ RemoteEnd(c) \/ Vanish(c) \/ AutoHangup(c) \/ ByeDone(c)
  PROVE  Unity'
<1>0. /\ TypeOK /\ HasData /\ Ports(media) /\ Open(data, live) /\ data \in DataFn
      /\ Linked(data, media, bridge) /\ Shared(data)
  BY DEF Kin, Inv, TypeOK, DataFn, Unity
<1>1. CASE NewCall(c)
  <2>1. \A x \in Calls : /\ data'[x] = IF x = c THEN NewData ELSE data[x]
                         /\ phase'[x] = IF x = c THEN "setup" ELSE phase[x]
    BY <1>0, <1>1 DEF TypeOK, NewCall
  <2>2. media[c] = "none" /\ ~Recording(data', c)
    BY <1>0, <1>1, <2>1, NewDataIsData DEF NewCall, Ports, Active, Recording
  <2>3. \A x \in Calls \ {c} : data'[x] = data[x] /\ (x \in Enum' => x \in Enum)
    BY <2>1 DEF Enum
  <2>4. UNCHANGED <<media, bridge>>
    BY <1>1 DEF NewCall
  <2> QED BY <1>0, <2>2, <2>3, <2>4, SlotChanges
<1>2. CASE Confirm(c)
  <2>1. c \in Enum /\ data[c] # NoData /\ Enum' = Enum /\ UNCHANGED <<media, bridge>>
    BY <1>0, <1>2 DEF TypeOK, Confirm, HasData, Active, Enum
  <2>2. CASE RecordingStart(c)
    BY <2>1, <2>2, RecordingStartUnites
  <2>3. CASE UNCHANGED data
    BY <2>1, <2>3, NothingNew
  <2> QED BY <1>2, <2>2, <2>3 DEF Confirm
<1>3. CASE MediaActive(c)
  <2>1. PICK b, t : ConferenceJoin(data, media', c, b, t) /\ b \subseteq bridge
    BY <1>3 DEF MediaActive
  <2>2. c \in Enum /\ Ports(media') /\ Enum' = Enum
    BY <1>0, <1>3 DEF MediaActive, TypeOK, Ports, Active, Enum
  <2>3. \A x \in Calls : media[x] # "none" => media'[x] # "none"
    BY <1>0, <1>3 DEF MediaActive, TypeOK
  <2>4. Linked(data, media', b)
    BY <1>0, <2>1, <2>3 DEF Linked
  <2>5. Linked(data', media', bridge') /\ Shared(data')
    BY <1>0, <2>1, <2>2, <2>4, JoinUnites
  <2> QED BY <2>2, <2>5, SlotsStay
<1>4. CASE MediaHeld(c)
  <2>1. /\ \A x \in Calls \ {c} : media'[x] = media[x]
        /\ bridge' = bridge \ PairsOf(c)
        /\ c \in Active /\ Enum' = Enum
        /\ data' = IF InConf(data, c) THEN [data EXCEPT ![c].rec = NoRec] ELSE data
    BY <1>0, <1>4 DEF MediaHeld, TypeOK, Enum
  <2>2. \A x \in Calls \ {c} : data'[x] = data[x]
    BY <1>0, <2>1 DEF DataFn
  <2>3. data'[c] = data[c] \/ ~Recording(data', c)
    <3>1. data[c] \in Data
      BY <1>0, <2>1 DEF HasData, DataFn, Active
    <3>2. [data[c] EXCEPT !.rec = NoRec].rec = NoRec
      BY <3>1 DEF Data
    <3>3. data'[c] = data[c] \/ data'[c] = [data[c] EXCEPT !.rec = NoRec]
      BY <1>0, <2>1 DEF DataFn
    <3> QED BY <3>2, <3>3 DEF Recording
  <2>4. Linked(data', media', bridge')
    <3>1. \A x, y \in Calls : {x, y} \in bridge' => {x, y} \in bridge /\ x # c /\ y # c
      BY <2>1 DEF PairsOf
    <3> QED BY <1>0, <2>1, <2>2, <3>1 DEF Linked, InConf
  <2>5. Shared(data')
    <3> SUFFICES ASSUME NEW x \in Enum, NEW y \in Enum, x # y, Same(data', x, y)
                 PROVE  InConf(data', x) /\ InConf(data', y)
      BY DEF Shared
    <3>1. x \in Calls /\ y \in Calls
      BY DEF Enum
    <3>2. data'[x] = data[x] /\ data'[y] = data[y]
      BY <2>2, <2>3, <3>1 DEF Same
    <3> QED BY <1>0, <3>2 DEF Shared, Same, Recording, InConf
  <2> QED BY <2>1, <2>4, <2>5, SlotsStay
<1>5. CASE RemoteEnd(c) \/ Vanish(c) \/ AutoHangup(c)
  <2>1. PICK p \in {"hanging", "over", "lost"} : phase' = [phase EXCEPT ![c] = p]
    BY <1>5 DEF RemoteEnd, Vanish, AutoHangup
  <2>2. data' = [data EXCEPT ![c] = NoData] /\ MediaGone(c) /\ c \in Enum
    BY <1>5 DEF RemoteEnd, Vanish, AutoHangup, Active, Enum
  <2> QED BY <2>1, <2>2, EndingUnites
<1>6. CASE ByeDone(c)
  <2>1. \A x \in Calls : /\ x # c => data'[x] = data[x] /\ phase'[x] = phase[x]
                         /\ x = c => phase'[x] = "over"
    BY <1>0, <1>6 DEF TypeOK, ByeDone
  <2>2. media[c] = "none" /\ c \notin Enum'
    BY <1>0, <1>6, <2>1 DEF ByeDone, Ports, Active, Enum
  <2>3. \A x \in Calls \ {c} : data'[x] = data[x] /\ (x \in Enum' => x \in Enum)
    BY <2>1 DEF Enum
  <2>4. UNCHANGED <<media, bridge>>
    BY <1>6 DEF ByeDone
  <2> QED BY <1>0, <2>2, <2>3, <2>4, SlotChanges
<1> QED BY <1>1, <1>2, <1>3, <1>4, <1>5, <1>6

\* msip_call_hangup_fast, of a call that goes on or is hanging up already.
LEMMA HangupUnites ==
  ASSUME Kin, NEW c \in Calls, HangupFast(c)
  PROVE  Unity'
<1>0. data \in DataFn /\ Ports(media) /\ Open(data, live) /\ Linked(data, media, bridge)
  BY DEF Kin, Inv, TypeOK, DataFn, Unity
<1>1. CASE HangupActive(c)
  <2>1. /\ phase' = [phase EXCEPT ![c] = "hanging"]
        /\ data' = [data EXCEPT ![c] = NoData]
        /\ MediaGone(c) /\ c \in Enum
    BY <1>1 DEF HangupActive, Active, Enum
  <2> QED BY <2>1, EndingUnites
<1>2. CASE HangupAgain(c)
  <2>1. UNCHANGED <<phase, media, bridge>> /\ Enum' = Enum /\ phase[c] = "hanging"
    BY <1>2 DEF HangupAgain, Enum
  <2>2. CASE data' = data
    BY <2>1, <2>2, NothingNew
  <2>3. CASE InConf(data, c) /\ data' = [Dissolve(data, c) EXCEPT ![c].conf = FALSE]
    <3>1. /\ Dissolve(data, c) \in DataFn
          /\ data[c] # NoData => Dissolve(data, c)[c].rec = data[c].rec
          /\ Dissolve(data, c)[c] = NoData <=> data[c] = NoData
      BY <1>0, DissolveIsData
    <3>2. /\ \A x \in Calls \ {c} : data'[x] = Dissolve(data, c)[x]
          /\ data'[c] = [Dissolve(data, c)[c] EXCEPT !.conf = FALSE]
      BY <2>3, <3>1 DEF DataFn
    <3>3. data'[c].rec = Dissolve(data, c)[c].rec
      <4>1. Dissolve(data, c)[c] \in Data
        BY <2>3, <3>1 DEF InConf, DataFn
      <4> QED BY <3>2, <4>1 DEF Data
    <3>4. c \notin Active
      BY <2>1 DEF Active
    <3>5. c \in Enum => ~Recording(data', c)
      BY <1>0, <2>3, <3>1, <3>3, <3>4 DEF Open, Recording, InConf
    <3>6. \A x \in Calls \ {c} : {c, x} \notin bridge'
      BY <1>0, <2>1, <3>4 DEF Linked, Ports
    <3> QED BY <2>1, <3>2, <3>5, <3>6, LeavingUnites
  <2> QED BY <1>2, <2>2, <2>3 DEF HangupAgain
<1> QED BY <1>1, <1>2 DEF HangupFast

\* msip_conference_leave: every call that c hears is one that the loop over the
\* members comes to.
LEMMA LeaveUnites ==
  ASSUME Kin, NEW c \in Calls, ConferenceLeave(c), UNCHANGED <<phase, media>>
  PROVE  Unity'
<1>0. data \in DataFn /\ Ports(media) /\ Linked(data, media, bridge) /\ Enum' = Enum
  BY DEF Kin, Inv, TypeOK, DataFn, Unity, Enum
<1>1. CASE ~InConf(data, c)
  BY <1>0, <1>1, NothingNew DEF ConferenceLeave
<1>2. CASE InConf(data, c)
  <2>1. /\ bridge' = bridge \ {{c, x} : x \in Members(data, c)}
        /\ data' = [Dissolve(data, c) EXCEPT ![c] = NewData]
    BY <1>2 DEF ConferenceLeave
  <2>2. Dissolve(data, c) \in DataFn
    BY <1>0, DissolveIsData
  <2>3. /\ \A x \in Calls \ {c} : data'[x] = Dissolve(data, c)[x]
        /\ data'[c] = NewData
    BY <2>1, <2>2 DEF DataFn
  <2>4. ~Recording(data', c)
    BY <2>3, NewDataIsData DEF Recording
  <2>5. ASSUME NEW x \in Calls \ {c}, {c, x} \in bridge PROVE x \in Members(data, c)
    BY <1>0, <2>5 DEF Linked, Ports, Members, Active, Enum
  <2>6. \A x \in Calls \ {c} : {c, x} \notin bridge'
    BY <2>1, <2>5
  <2> QED BY <2>1, <2>3, <2>4, <2>6, LeavingUnites
<1> QED BY <1>1, <1>2

\* Merge and the invitation make members and no more.
LEMMA FlaggedUnites ==
  ASSUME Kin, NEW s \in Calls, NEW x \in Calls
  PROVE  /\ Flagged(s, x) \in DataFn
         /\ Linked(Flagged(s, x), media, bridge)
         /\ Shared(Flagged(s, x))
         /\ Open(Flagged(s, x), live)
<1> DEFINE d == Flagged(s, x)
<1>0. data \in DataFn /\ Inv /\ Open(data, live) /\ Linked(data, media, bridge) /\ Shared(data)
  BY DEF Kin, Inv, TypeOK, DataFn, Unity
<1>1. /\ d \in DataFn
      /\ \A c \in Calls : d[c] # NoData /\ d[c].rec # NoRec
                           => data[c] # NoData /\ d[c].rec = data[c].rec
  BY <1>0, FlaggedIsData
<1>2. ASSUME NEW c \in Calls, InConf(data, c) PROVE InConf(d, c)
  <2>1. CASE d[c] = data[c]
    BY <1>2, <2>1 DEF InConf
  <2>2. CASE d[c] # data[c]
    <3>1. data[c] \in Data
          /\ d[c] \in {[data[c] EXCEPT !.conf = TRUE], [NewData EXCEPT !.conf = TRUE]}
      BY <1>0, <1>2, <2>2 DEF Flagged, InConf, DataFn
    <3>2. d[c] \in Data /\ d[c].conf
      BY <3>1 DEF Data, NewData
    <3> QED BY <3>2, NoDataAssumption DEF InConf
  <2> QED BY <2>1, <2>2
<1> HIDE DEF d
<1>3. Linked(d, media, bridge)
  BY <1>0, <1>2 DEF Linked
<1>4. Shared(d)
  <2> SUFFICES ASSUME NEW a \in Enum, NEW b \in Enum, a # b, Same(d, a, b)
               PROVE  InConf(d, a) /\ InConf(d, b)
    BY DEF Shared
  <2>1. a \in Calls /\ b \in Calls
    BY DEF Enum
  <2>2. Same(data, a, b)
    BY <1>1, <2>1 DEF Same, Recording
  <2> QED BY <1>0, <1>2, <2>1, <2>2 DEF Shared
<1>5. Open(d, live)
  BY <1>0, <1>1 DEF Open, Recording, Enum
<1> QED BY <1>1, <1>3, <1>4, <1>5 DEF d

\* Merge joins a call that is a member by then.
LEMMA MergeUnites ==
  ASSUME Kin, NEW s \in Calls, NEW x \in Active, MergeWith(s, x)
  PROVE  Unity'
<1>1. x \in Calls /\ x \in Enum /\ Ports(media)
  BY DEF Active, Enum, Kin, Inv
<1>2. ConferenceJoin(Flagged(s, x), media, x, bridge, taps) /\ media' = media /\ Enum' = Enum
  BY DEF MergeWith, Enum
<1>3. /\ Flagged(s, x) \in DataFn
      /\ Linked(Flagged(s, x), media, bridge)
      /\ Shared(Flagged(s, x))
      /\ Open(Flagged(s, x), live)
  BY <1>1, FlaggedUnites
<1>4. Linked(data', media, bridge') /\ Shared(data')
  BY <1>1, <1>2, <1>3, JoinUnites
<1> QED BY <1>2, <1>4, SlotsStay

\* The button stops a file for all that share it, or starts one.
LEMMA ToggleUnites ==
  ASSUME Kin, NEW s \in Calls, ToggleRec(s)
  PROVE  Unity'
<1>0. /\ data \in DataFn /\ Linked(data, media, bridge) /\ Shared(data)
      /\ UNCHANGED <<phase, media, bridge>> /\ Enum' = Enum /\ s \in Enum /\ data[s] # NoData
  BY DEF Kin, Inv, TypeOK, DataFn, Unity, ToggleRec, Enum
<1>1. CASE ~Recording(data, s)
  BY <1>0, <1>1, RecordingStartUnites DEF ToggleRec
<1>2. CASE Recording(data, s)
  <2> DEFINE r == data[s].rec
  <2>1. data' = [x \in Calls |-> IF x \in Enum /\ data[x] # NoData /\ data[x].rec = r
                                THEN [data[x] EXCEPT !.rec = NoRec] ELSE data[x]]
    BY <1>2 DEF ToggleRec, RecordingStopAll
  <2> HIDE DEF r
  <2>2. ASSUME NEW x \in Calls
        PROVE  /\ InConf(data, x) => InConf(data', x)
               /\ Recording(data', x) => data'[x] = data[x]
    <3>1. CASE data'[x] = data[x]
      BY <3>1 DEF InConf
    <3>2. CASE data'[x] # data[x]
      <4>1. data[x] \in Data /\ data'[x] = [data[x] EXCEPT !.rec = NoRec]
        BY <1>0, <2>1, <3>2 DEF DataFn
      <4>2. data'[x] \in Data /\ data'[x].conf = data[x].conf /\ data'[x].rec = NoRec
        BY <4>1 DEF Data
      <4> QED BY <4>2, NoDataAssumption DEF InConf, Recording
    <3> QED BY <3>1, <3>2
  <2>3. Linked(data', media', bridge')
    BY <1>0, <2>2 DEF Linked
  <2>4. Shared(data')
    <3> SUFFICES ASSUME NEW a \in Enum, NEW b \in Enum, a # b, Same(data', a, b)
                 PROVE  InConf(data', a) /\ InConf(data', b)
      BY DEF Shared
    <3>1. a \in Calls /\ b \in Calls
      BY DEF Enum
    <3>2. Same(data, a, b)
      BY <2>2, <3>1 DEF Same, Recording
    <3> QED BY <1>0, <2>2, <3>1, <3>2 DEF Shared
  <2> QED BY <1>0, <2>3, <2>4, SlotsStay
<1> QED BY <1>1, <1>2

\* OnEndCall of a call that has ended in pjsua: it hears nobody and its slot, if
\* it has user data again, records nothing.
LEMMA HandleEndUnites ==
  ASSUME Kin, NEW c \in Calls, HandleEnd(c)
  PROVE  Unity'
<1>0. /\ data \in DataFn /\ Linked(data, media, bridge) /\ Open(data, live) /\ Ports(media)
      /\ UNCHANGED <<phase, media, bridge>> /\ Enum' = Enum
  BY DEF Kin, Inv, TypeOK, DataFn, Unity, HandleEnd, Enum
<1>1. CASE data' = data
  BY <1>0, <1>1, NothingNew
<1>2. CASE data' = Dissolve(data, c)
  <2>1. c \notin Active
    BY DEF Kin, Inv, Ended, HandleEnd, Active
  <2>2. c \in Enum => ~Recording(data', c)
    BY <1>0, <1>2, <2>1, DissolveIsData DEF Open, Recording
  <2>3. \A x \in Calls \ {c} : {c, x} \notin bridge'
    BY <1>0, <2>1 DEF Linked, Ports
  <2> QED BY <1>0, <1>2, <2>2, <2>3, LeavingUnites
<1> QED BY <1>1, <1>2 DEF HandleEnd

\* The invited call is a member from the start, as is the call that invites.
LEMMA InviteUnites ==
  ASSUME ~InviteMayFail, Kin, NEW s \in Calls, NEW c \in Calls, Invite(s, c)
  PROVE  Unity'
<1> DEFINE d == Flagged(s, s)
<1>1. d \in DataFn /\ Linked(d, media, bridge) /\ Shared(d)
  BY FlaggedUnites
<1>2. /\ data' = [d EXCEPT ![c] = [NewData EXCEPT !.conf = TRUE]]
      /\ phase' = [phase EXCEPT ![c] = "setup"]
      /\ phase[c] = "idle" /\ UNCHANGED <<media, bridge>>
  BY DEF Invite
<1> HIDE DEF d
<1>3. \A x \in Calls : /\ data'[x] = IF x = c THEN [NewData EXCEPT !.conf = TRUE] ELSE d[x]
                       /\ phase'[x] = IF x = c THEN "setup" ELSE phase[x]
  BY <1>1, <1>2 DEF Kin, Inv, TypeOK, DataFn
<1>4. media[c] = "none" /\ ~Recording(data', c)
  BY <1>2, <1>3, NewDataIsData DEF Kin, Inv, Ports, Active, Recording
<1>5. \A x \in Calls \ {c} : data'[x] = d[x] /\ (x \in Enum' => x \in Enum)
  BY <1>3 DEF Enum
<1> QED BY <1>1, <1>2, <1>4, <1>5, SlotChanges

\* The iterations of the loops that end, merge and separate.
LEMMA LoopUnites ==
  ASSUME Kin, EndStep \/ EndLast \/ MergeStep \/ SeparateStep
  PROVE  Unity'
<1> DEFINE x == First(ui.rest)
<1>0. Inv
  BY DEF Kin
<1>1. ASSUME UNCHANGED <<phase, data, media, bridge>> PROVE Unity'
  BY <1>1, NothingNew DEF Enum
<1>2. CASE EndStep
  <2>1. x \in Calls
    BY <1>0, <1>2, AdvanceInLoop DEF EndStep
  <2>2. HangupFast(x) \/ UNCHANGED <<phase, data, media, bridge>>
    BY <1>2 DEF EndStep
  <2> HIDE DEF x
  <2> QED BY <1>1, <2>1, <2>2, HangupUnites
<1>3. CASE EndLast
  <2>1. \/ ui.call \in Calls /\ HangupFast(ui.call)
        \/ UNCHANGED <<phase, data, media, bridge>>
    BY <1>3 DEF EndLast, Enum
  <2> QED BY <1>1, <2>1, HangupUnites
<1>4. CASE MergeStep
  <2>1. \/ x \in Active /\ MergeWith(ui.call, x)
        \/ UNCHANGED <<phase, data, media, bridge>>
    BY <1>4 DEF MergeStep
  <2>2. ui.call \in Calls
    BY <1>0, <1>4 DEF MergeStep, Inv, TypeOK, Loops, Idle
  <2> HIDE DEF x
  <2> QED BY <1>1, <2>1, <2>2, MergeUnites
<1>5. CASE SeparateStep
  <2>1. x \in Calls
    BY <1>0, <1>5, AdvanceInLoop DEF SeparateStep
  <2>2. /\ UNCHANGED <<phase, media>>
        /\ ConferenceLeave(x) \/ UNCHANGED <<data, bridge>>
    BY <1>5 DEF SeparateStep
  <2> HIDE DEF x
  <2> QED BY <1>1, <2>1, <2>2, LeaveUnites
<1> QED BY <1>2, <1>3, <1>4, <1>5

\* Every step of every thread, unless an invitation fails.
LEMMA UnityIsInductive ==
  ASSUME ~InviteMayFail, Kin, [Next]_vars
  PROVE  Unity'
<1>2. CASE Worker
  BY <1>2, WorkerUnites DEF Worker
<1>3. ASSUME NEW s \in Calls,
             \/ ShowTab(s) \/ HandleEnd(s) \/ Hangup(s) \/ EndConference(s)
             \/ MergeAll(s) \/ Separate(s) \/ SeparateAll(s) \/ ToggleRec(s)
      PROVE  Unity'
  <2>1. CASE ShowTab(s) \/ EndConference(s) \/ MergeAll(s) \/ SeparateAll(s)
    BY <2>1, NothingNew DEF ShowTab, EndConference, MergeAll, SeparateAll, Enum
  <2>2. CASE HandleEnd(s)
    BY <2>2, HandleEndUnites
  <2>3. CASE Hangup(s)
    BY <2>3, HangupUnites DEF Hangup
  <2>4. CASE Separate(s)
    BY <2>4, LeaveUnites DEF Separate
  <2>5. CASE ToggleRec(s)
    BY <2>5, ToggleUnites
  <2> QED BY <1>3, <2>1, <2>2, <2>3, <2>4, <2>5
<1>4. ASSUME NEW s \in Calls, NEW c \in Calls, Merge(s, c) \/ Invite(s, c)
      PROVE  Unity'
  <2>1. CASE Merge(s, c)
    BY <2>1, MergeUnites DEF Merge, Active
  <2>2. CASE Invite(s, c)
    BY <2>2, InviteUnites
  <2> QED BY <1>4, <2>1, <2>2
<1>5. CASE UserInterface
  BY <1>3, <1>4, <1>5, LoopUnites DEF UserInterface
<1>6. CASE UNCHANGED vars
  BY <1>6, NothingNew DEF vars, Enum
<1> QED BY <1>2, <1>5, <1>6 DEF Next

\* In every behaviour without a failed invitation, for any calls and recorders:
\* whoever hears a call, or shares its file, is a member of the conference as the
\* call is, whatever calls end, are held, merged, separated or recorded meanwhile.
THEOREM OneConferenceHolds ==
  ASSUME ~InviteMayFail
  PROVE  Spec => []OneConference
<1>1. Init => Kin
  <2>1. Init => Unity
    BY DEF Init, Unity, Linked, Shared, Same, Recording, Enum
  <2> QED BY <2>1, InitInv DEF Kin
<1>2. Kin /\ [Next]_vars => Kin'
  BY InvIsInductive, UnityIsInductive DEF Kin
<1>3. Kin => OneConference
  BY DEF Kin, Unity, Linked, Shared, Same, OneConference
<1> QED BY <1>1, <1>2, <1>3, PTL DEF Spec
=============================================================================
