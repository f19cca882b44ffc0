--------------------------- MODULE UsersDirectory ---------------------------
(***************************************************************************)
(* The directory of users that CmainDlg downloads into the contact list:   *)
(* UsersDirectoryLoad asks, a thread per request (URLGetAsyncThread) waits *)
(* for the server, and onUsersDirectoryLoaded merges the answer and sets   *)
(* the timer of the next request.  Requests are not numbered on the client *)
(* side, so the answers of two of them arrive in any order.                *)
(*                                                                         *)
(* A posted answer and the thread's wait for it are one step: nothing      *)
(* looks at the queue in between.  Delays are left out (a timer is set or  *)
(* not), and so are the balloon and what only it reads (sequence, silent), *)
(* presence, and the parsing of the formats.                               *)
(***************************************************************************)
EXTENDS Integers

CONSTANTS
  Accounts,      \* SIP accounts of the program
  Shared,        \* the directory a URL without %s and { names
  Entries,       \* contacts, told apart by name and number
  Content,       \* Content[d]: the entries of directory d
  MaxRequests,   \* bound: requests of one directory in flight
  MaxReconnect,  \* bound: the count of failures saturates here
  MaxChanges     \* bound: what the user does

Directories == Accounts \union {Shared}

ASSUME ContentAssumption == Content \in [Directories -> SUBSET Entries]
ASSUME BoundAssumption ==
  MaxRequests \in Nat \ {0} /\ MaxReconnect \in Nat \ {0} /\ MaxChanges \in Nat

VARIABLES
  url,        \* accountSettings.usersDirectory: none, plain, or with the account in it
  account,    \* accountSettings.account
  refresh,    \* usersDirectoryRefresh: -1 not said yet, 0 never, 1 some seconds
  reconnect,  \* usersDirectoryReconnect
  timer,      \* IDT_TIMER_DIRECTORY is set
  requests,   \* requests[d]: threads that wait for the answer of directory d
  contacts,   \* contacts[e]: not in the list, in it, or in it with the flag directory
  up,         \* the server answers every request in full
  asked,      \* the URL when UsersDirectoryLoad last ran (history)
  changes     \* what the user has done so far

vars == <<url, account, refresh, reconnect, timer, requests, contacts, up, asked, changes>>

Urls == {"none", "plain", "masked"}

-----------------------------------------------------------------------------
Directory == IF url = "plain" THEN Shared ELSE account

Pending == timer \/ \E d \in Directories : requests[d] > 0

Sends(u, d) == [requests EXCEPT ![d] = @ + IF u = "none" THEN 0 ELSE 1]

\* UsersDirectoryLoad with URL u: the timer is killed first, an update keeps
\* what the server said about the next one.
Load(update, u) ==
  /\ timer' = FALSE
  /\ asked' = u
  /\ refresh' = IF update THEN refresh ELSE -1
  /\ reconnect' = IF update THEN reconnect ELSE 0
  /\ LET d == IF u = "plain" THEN Shared ELSE account
     IN  requests[d] < MaxRequests /\ requests' = Sends(u, d)

OnTimer ==
  /\ timer
  /\ Load(TRUE, url)
  /\ UNCHANGED <<url, account, contacts, up, changes>>

\* onRegState2, code 200: after every registration and every renewal of it.
OnRegState ==
  /\ url = "masked"
  /\ Load(FALSE, url)
  /\ UNCHANGED <<url, account, contacts, up, changes>>

\* PJCreate, at the start, after the power came back and at the end of the
\* settings dialog, which may have another URL: PJCreateRaw returns early when
\* pjsua does not start, and loads only the directories that need no account.
PJCreate ==
  \E u \in Urls, started \in BOOLEAN :
    /\ u # url => changes < MaxChanges
    /\ url' = u
    /\ changes' = changes + IF u = url THEN 0 ELSE 1
    /\ IF started /\ u # "masked"
       THEN Load(FALSE, u)
       ELSE UNCHANGED <<timer, asked, refresh, reconnect, requests>>
    /\ UNCHANGED <<account, contacts, up>>

-----------------------------------------------------------------------------
\* Mutant: contacts that left the directory stay, ContactsAdd(answer, false).
ContactsAddOnly(answer, flag) ==
  [e \in Entries |->
     IF e \in answer /\ contacts[e] = "absent" THEN flag ELSE contacts[e]]

\* Contacts::ContactsAdd(answer, true).
ContactsAdd(answer, flag) ==
  [e \in Entries |->
     IF e \in answer
     THEN IF contacts[e] = "absent" THEN flag ELSE contacts[e]
     ELSE IF contacts[e] = "directory" THEN "absent" ELSE contacts[e]]

\* Mutant: the thread posts its data twice, and both are handled as answers.
AnsweredTwice(d) == [requests EXCEPT ![d] = @ - 2]

Answered(d) == [requests EXCEPT ![d] = @ - 1]

\* Mutant: the retry after a failure is left to the interval of the server.
SetsTimerRefresh(failures, seconds) == timer \/ seconds > 0

\* The end of onUsersDirectoryLoaded: nobody else sets the timer.
SetsTimer(failures, seconds) == timer \/ failures > 0 \/ seconds > 0

\* statusCode 0: no connection, a broken one, or one that timed out.
LoadFails ==
  /\ ~up
  /\ reconnect' = IF reconnect < MaxReconnect THEN reconnect + 1 ELSE reconnect
  /\ timer' = SetsTimer(reconnect', refresh)
  /\ UNCHANGED <<refresh, contacts>>

\* An error of the server, or an answer without a body.
LoadRefused ==
  /\ ~up
  /\ reconnect' = 0
  /\ timer' = SetsTimer(0, refresh)
  /\ UNCHANGED <<refresh, contacts>>

\* The body states the seconds, else the first answer's max-age does.
NextRefresh(said, seconds) ==
  IF said \/ refresh = -1 THEN seconds ELSE refresh

\* 200 with a body.  A CSV file makes contacts without the flag; a JSON list is
\* merged up to the first element that is not an object; an answer that cannot
\* be recognised merges nothing, but its seconds count.
LoadDone(d) ==
  \E said \in BOOLEAN, seconds \in -1..1, merged \in BOOLEAN :
    /\ up => said /\ seconds = 1 /\ merged
    /\ reconnect' = 0
    /\ refresh' = NextRefresh(said, seconds)
    /\ timer' = SetsTimer(0, refresh')
    /\ IF merged
       THEN \E answer \in SUBSET Content[d], flag \in {"listed", "directory"} :
              /\ up => answer = Content[d]
              /\ contacts' = ContactsAdd(answer, flag)
       ELSE UNCHANGED contacts

OnUsersDirectoryLoaded(d) ==
  /\ requests[d] > 0
  /\ requests' = Answered(d)
  /\ LoadFails \/ LoadRefused \/ LoadDone(d)
  /\ UNCHANGED <<url, account, up, asked, changes>>

-----------------------------------------------------------------------------
\* Another account: its registration loads its directory, not this handler.
OnMenuAccountChange ==
  /\ changes < MaxChanges
  /\ \E a \in Accounts \ {account} : account' = a
  /\ changes' = changes + 1
  /\ UNCHANGED <<url, refresh, reconnect, timer, requests, contacts, up, asked>>

\* The user adds a contact, deletes one, or gives one another name or number;
\* an edited contact keeps its flag.
UserContacts ==
  /\ changes < MaxChanges
  /\ \/ \E e \in Entries : contacts[e] = "absent" /\ contacts' = [contacts EXCEPT ![e] = "listed"]
     \/ \E e \in Entries : contacts[e] # "absent" /\ contacts' = [contacts EXCEPT ![e] = "absent"]
     \/ \E e, f \in Entries :
          /\ contacts[e] # "absent" /\ contacts[f] = "absent"
          /\ contacts' = [contacts EXCEPT ![e] = "absent", ![f] = contacts[e]]
  /\ changes' = changes + 1
  /\ UNCHANGED <<url, account, refresh, reconnect, timer, requests, up, asked>>

ServerChanges ==
  /\ up' = ~up
  /\ UNCHANGED <<url, account, refresh, reconnect, timer, requests, contacts, asked, changes>>

Init ==
  /\ url \in Urls
  /\ account \in Accounts
  /\ refresh = 0 /\ reconnect = 0
  /\ timer = FALSE
  /\ requests = [d \in Directories |-> 0]
  /\ contacts \in [Entries -> {"absent", "listed"}]
  /\ up \in BOOLEAN
  /\ asked = "none"
  /\ changes = 0

Next ==
  \/ OnTimer \/ OnRegState \/ PJCreate
  \/ \E d \in Directories : OnUsersDirectoryLoaded(d)
  \/ OnMenuAccountChange \/ UserContacts \/ ServerChanges

\* Every request is answered or times out, and a timer that is set fires.
Spec ==
  /\ Init /\ [][Next]_vars
  /\ WF_vars(OnTimer)
  /\ \A d \in Directories : WF_vars(OnUsersDirectoryLoaded(d))

-----------------------------------------------------------------------------
\* The variables have their types: no thread answers a request twice, and
\* no more requests of one directory are in flight than the bound.
TypeOK ==
  /\ url \in Urls /\ asked \in Urls
  /\ account \in Accounts
  /\ refresh \in -1..1
  /\ reconnect \in 0..MaxReconnect
  /\ timer \in BOOLEAN
  /\ requests \in [Directories -> 0..MaxRequests]
  /\ contacts \in [Entries -> {"absent", "listed", "directory"}]
  /\ up \in BOOLEAN
  /\ changes \in 0..MaxChanges

\* The polling never dies: as long as the server named an interval or the last
\* connection failed, a timer is set or a request is on its way, whatever
\* answers of overtaken requests, reloads, restarts of pjsua and renewals of
\* the registration come in between.  Only a load that found no URL ends it.
Polling == (refresh = 1 \/ reconnect > 0) /\ asked # "none" => Pending

Current ==
  \A e \in Entries :
    IF e \in Content[Directory] THEN contacts[e] # "absent" ELSE contacts[e] # "directory"

\* A late answer does no lasting harm: when the server recovers for good, the
\* program has a URL it has loaded, and the polling is on again and again, then
\* in the end the list shows the whole directory of the present URL and account
\* and, of contacts with the flag, nothing else: neither the directory of the
\* account before, nor a contact of it the user edited.
Heals ==
  (<>[](up /\ url # "none" /\ url = asked) /\ []<>(refresh = 1)) => <>[]Current
=============================================================================
