----------------------------- MODULE DeviceSignIn -----------------------------
(***************************************************************************)
(* briefcase login and briefcase login status.  A login checks that the     *)
(* deployment trusts the Silicon Accounts it would sign in at, spends one    *)
(* device code or one short-lived token, and saves the sign-in in the place  *)
(* of the one the profile had.  The code is asked about at an interval until *)
(* it is settled or too old.  A status that runs beside it shows the saved   *)
(* sign-in to Briefcase, refreshes it and keeps the account's id current.    *)
(*                                                                          *)
(* A read-modify-write of the file is one step here: CommandLine models the  *)
(* lock that makes it one.                                                   *)
(***************************************************************************)
EXTENDS Integers, Sequences, FiniteSets

CONSTANTS People, NoPerson,
          Ways,             \* "code" and "token": what a login signs in with
          Deployments,      \* what GET /api/v1/accounts would answer
          CodeLives,        \* how long a device code can be approved
          OfferedIntervals, \* the polling intervals Silicon Accounts may ask for
          SlowDownStep,
          MaxSignInClock,   \* bound: the clock
          MaxSignInFaults   \* bound: lost answers, failed writes and killed processes

ASSUME DeviceSignInAssumption ==
    /\ People # {} /\ NoPerson \notin People
    /\ CodeLives \in Nat \ {0} /\ OfferedIntervals \subseteq Nat /\ SlowDownStep \in Nat \ {0}
    /\ MaxSignInClock \in Nat /\ MaxSignInFaults \in Nat

VARIABLES
    setting, \* what the login meets: [way, deployment, email]
    time,     \* the clock of both sides
    device,  \* Silicon Accounts: the device code, [at, state, who, interval]
    slt,     \* Silicon Accounts: the short-lived token handed to the login
    login,   \* the login: [pc, since, interval, wake, email, replaced, told]
    polls,   \* history: when the code was asked about, and whether that was too soon
    living,  \* Silicon Accounts: the sign-ins that have not ended
    idOf,    \* Silicon Accounts: the id of each account, which may change
    old,     \* access tokens too old for Briefcase, and those too old by the clock here
    kept,    \* credentials.json: the sign-in of the profile
    aside,   \* files that could not be read and were set aside
    status,  \* the status: [pc, forced, token, me, unsure, told]
    lostOf, \* history: sign-ins of which an answer, a write or a process was lost
    mishaps

signInVars == <<setting, time, device, slt, login, polls, living, idOf, old, kept, aside,
                status, lostOf, mishaps>>

Owner == CHOOSE p \in People : TRUE
(* Sign-in 1 is the one the profile had, sign-in 2 the one this login makes. *)
Before == 1
ThisOne == 2
IdsOfPeople == People \X (0 .. 1)
NotKept == [of |-> 0, who |-> NoPerson, id |-> <<NoPerson, 0>>, turn |-> 0]
Unreadable == [NotKept EXCEPT !.turn = 1]
KeptFor(s, p) == [of |-> s, who |-> p, id |-> idOf[p], turn |-> 0]
AccessToken(session) == <<session.of, session.turn>>

SignInInit ==
    /\ setting \in [way : Ways, deployment : Deployments, email : BOOLEAN]
    /\ setting.way = "code" \/ setting.email
    /\ time = 0
    /\ device = [at |-> 0, state |-> "none", who |-> NoPerson, interval |-> 0]
    /\ slt \in IF setting.way = "token" THEN {"fresh", "taken", "other"} ELSE {"none"}
    /\ login = [pc |-> "begin", since |-> 0, interval |-> 0, wake |-> 0, email |-> TRUE,
                replaced |-> 0, told |-> "nothing"]
    /\ polls = <<>>
    /\ idOf = [p \in People |-> <<p, 0>>]
    /\ old = [service |-> {}, here |-> {}]
    /\ kept \in {NotKept, Unreadable, KeptFor(Before, Owner)}
    /\ living = IF kept = NotKept THEN {} ELSE {Before}
    /\ aside = {}
    \* A status is run beside a login that is neither refused nor waits.
    /\ status = [pc |-> IF slt = "fresh" /\ setting.deployment = "ours" THEN "begin" ELSE "over",
                 forced |-> FALSE, token |-> NotKept, me |-> <<NoPerson, 0>>, unsure |-> FALSE, told |-> "nothing"]
    /\ lostOf = {}
    /\ mishaps = 0

Amiss == mishaps < MaxSignInFaults /\ mishaps' = mishaps + 1
World == <<setting, living, idOf, old, kept, aside, status, lostOf>>
Tell(what) == login' = [login EXCEPT !.pc = "over", !.told = what]

-----------------------------------------------------------------------------
(* Before anything is spent. *)

\* check_deployment: a deployment that answers for another app, another
\* Silicon Accounts, or is older than them ends the login; one that cannot be
\* reached only warns.
Agrees == setting.deployment = "ours"
Proceed == login' = [login EXCEPT !.pc = IF setting.way = "code" THEN "ask" ELSE "exchange"]
CheckDeployment ==
    /\ login.pc = "begin"
    /\ \/ /\ IF Agrees THEN Proceed ELSE Tell("mismatch")
          /\ UNCHANGED mishaps
       \/ Amiss /\ Proceed
    /\ UNCHANGED <<time, device, slt, polls, World>>

-----------------------------------------------------------------------------
(* The device code. *)

\* start_device_sign_in notes the time before it asks for the code.
AskForCode ==
    /\ login.pc = "ask"
    /\ login' = [login EXCEPT !.pc = "asking", !.since = time]
    /\ UNCHANGED <<time, device, slt, polls, mishaps, World>>

AtLeastOne(n) == IF n = 0 THEN 1 ELSE n
Deadline == login.since + CodeLives
\* The sleep of finish_device_sign_in: never past the deadline, where it ends.
Sleep(interval) ==
    IF time >= Deadline THEN Tell("expired")
    ELSE login' = [login EXCEPT !.pc = "asleep", !.interval = interval,
                                !.wake = IF time + interval < Deadline THEN time + interval ELSE Deadline]

\* A code is issued.  Without the e-mail in the app's setup, the first request
\* is refused and a second one leaves it out.
CodeIssued ==
    /\ login.pc = "asking"
    /\ IF login.email /\ ~setting.email
       THEN /\ login' = [login EXCEPT !.pc = "ask", !.email = FALSE]
            /\ UNCHANGED device
       ELSE \E i \in OfferedIntervals :
               /\ device' = [device EXCEPT !.at = time, !.state = "pending", !.interval = AtLeastOne(i)]
               /\ Sleep(AtLeastOne(i))
    /\ UNCHANGED <<time, slt, polls, mishaps, World>>
CodeRefused ==
    /\ login.pc = "asking"
    /\ \/ Tell("refused") /\ UNCHANGED mishaps
       \/ Amiss /\ Tell("unreachable")
    /\ UNCHANGED <<time, device, slt, polls, World>>

CodeExpired == time >= device.at + CodeLives
Settle(state, p) ==
    /\ device.state = "pending" /\ ~CodeExpired
    /\ device' = [device EXCEPT !.state = state, !.who = p]
    /\ UNCHANGED <<time, slt, login, polls, mishaps, World>>
Approve(p) == Settle("approved", p)
Deny == Settle("denied", NoPerson)

\* The sleep is over, at its end or later; the clock is read again.
WokenInTime == login.pc = "asleep" /\ time >= login.wake /\ time < Deadline
StopWaiting ==
    /\ login.pc = "asleep" /\ time >= login.wake /\ ~WokenInTime
    /\ Tell("expired")
    /\ UNCHANGED <<time, device, slt, polls, mishaps, World>>
Asks(slow) == polls' = Append(polls, [at |-> time, slow |-> slow])
Slower == login.interval + SlowDownStep

\* One poll: pending and slow_down go on, tokens are issued once.
PollPending ==
    /\ WokenInTime /\ device.state \in {"pending", "approved"} /\ ~CodeExpired
    /\ \/ device.state = "pending" /\ Asks(FALSE) /\ Sleep(login.interval)
       \/ Asks(TRUE) /\ Sleep(Slower)
    /\ UNCHANGED <<time, device, slt, mishaps, World>>
PollSettled ==
    /\ WokenInTime
    /\ device.state \in {"denied", "used"} \/ CodeExpired
    /\ Asks(FALSE)
    /\ Tell(IF device.state = "denied" THEN "denied" ELSE IF device.state = "used" THEN "refused" ELSE "expired")
    /\ UNCHANGED <<time, device, slt, mishaps, World>>
PollSignsIn ==
    /\ WokenInTime /\ device.state = "approved" /\ ~CodeExpired
    /\ Asks(FALSE)
    /\ device' = [device EXCEPT !.state = "used"]
    /\ living' = living \union {ThisOne}
    /\ login' = [login EXCEPT !.pc = "save"]
    /\ UNCHANGED <<setting, time, slt, idOf, old, kept, aside, status, lostOf, mishaps>>
\* A poll without an answer, or answered 5xx or 429, is tried again.
PollUnanswered ==
    /\ WokenInTime /\ Amiss
    /\ Asks(FALSE) /\ Sleep(login.interval)
    /\ \/ UNCHANGED <<device, living, lostOf>>
       \/ /\ device.state = "approved"
          /\ device' = [device EXCEPT !.state = "used"]
          /\ living' = living \union {ThisOne} /\ lostOf' = lostOf \union {ThisOne}
    /\ UNCHANGED <<setting, time, slt, idOf, old, kept, aside, status>>

-----------------------------------------------------------------------------
(* The short-lived token. *)

\* exchange_short_lived_token: anything else is not even sent; a token that is
\* sent is spent, whatever the answer, and is not sent again.
Exchange ==
    /\ login.pc = "exchange"
    /\ IF slt = "other" THEN Tell("refused") /\ UNCHANGED <<slt, living, lostOf, mishaps>>
       ELSE /\ slt' = "spent"
            /\ living' = IF slt = "fresh" THEN living \union {ThisOne} ELSE living
            /\ \/ /\ IF slt = "fresh" THEN login' = [login EXCEPT !.pc = "save"] ELSE Tell("refused")
                  /\ UNCHANGED <<lostOf, mishaps>>
               \/ /\ Amiss /\ Tell("unreachable")
                  /\ lostOf' = lostOf \union {ThisOne}
    /\ IF slt = "fresh" THEN \E p \in People : device' = [device EXCEPT !.who = p] ELSE UNCHANGED device
    /\ UNCHANGED <<setting, time, polls, idOf, old, kept, aside, status>>

-----------------------------------------------------------------------------
(* Saving. *)

\* save: a file that cannot be read is kept aside; the sign-in takes the place
\* of the one the profile had, which is revoked afterwards.
SetAside == IF kept = Unreadable THEN aside \union {"credentials"} ELSE aside
Save ==
    /\ login.pc = "save"
    /\ aside' = SetAside
    /\ kept' = KeptFor(ThisOne, device.who)
    /\ \/ /\ IF kept.of = 0 THEN Tell("signed_in")
             ELSE login' = [login EXCEPT !.pc = "revoke", !.replaced = kept.of]
          /\ UNCHANGED <<lostOf, mishaps>>
       \/ \* the configuration cannot be written afterwards
          Amiss /\ Tell("not_saved") /\ lostOf' = lostOf \union {kept.of}
    /\ UNCHANGED <<setting, time, device, slt, polls, living, idOf, old, status>>
SaveFails ==
    /\ login.pc = "save" /\ Amiss
    /\ Tell("not_saved")
    /\ lostOf' = lostOf \union {ThisOne}
    /\ UNCHANGED <<setting, time, device, slt, polls, living, idOf, old, kept, aside, status>>
RevokeTheOther ==
    /\ login.pc = "revoke"
    /\ \/ living' = living \ {login.replaced} /\ UNCHANGED <<lostOf, mishaps>>
       \/ Amiss /\ UNCHANGED living /\ lostOf' = lostOf \union {login.replaced}
    /\ Tell("signed_in")
    /\ UNCHANGED <<setting, time, device, slt, polls, idOf, old, kept, aside, status>>

\* The login is killed.
KillLogin ==
    /\ login.pc # "over" /\ Amiss
    /\ login' = [login EXCEPT !.pc = "over", !.told = "killed"]
    /\ lostOf' = CASE login.pc = "save" -> lostOf \union {ThisOne}
                    [] login.pc = "revoke" -> lostOf \union {login.replaced}
                    [] OTHER -> lostOf
    /\ UNCHANGED <<setting, time, device, slt, polls, living, idOf, old, kept, aside, status>>

-----------------------------------------------------------------------------
(* login status. *)

Report(what) == status' = [status EXCEPT !.pc = "over", !.told = what]
NeedsRefresh(session) == AccessToken(session) \in old.here
StatusReads ==
    /\ status.pc = "begin"
    /\ IF kept.of = 0 THEN Report(IF kept = Unreadable THEN "unreadable" ELSE "not_signed_in")
       ELSE status' = [status EXCEPT !.pc = IF NeedsRefresh(kept) THEN "refresh" ELSE "show", !.token = kept]
    /\ UNCHANGED <<setting, time, device, slt, login, polls, living, idOf, old, kept, aside, lostOf, mishaps>>

\* session::refresh reads the file again, under the lock it keeps until the
\* refresh is answered.
RotatedHere == [KeptFor(kept.of, kept.who) EXCEPT !.turn = kept.turn + 1]
RefreshForStatus ==
    /\ status.pc = "refresh"
    /\ \/ /\ kept.of = 0
          /\ Report("unverified") /\ UNCHANGED <<kept, lostOf, mishaps>>
       \/ /\ kept.of # 0 /\ ~status.forced /\ ~NeedsRefresh(kept)
          /\ status' = [status EXCEPT !.pc = "show", !.token = kept] /\ UNCHANGED <<kept, lostOf, mishaps>>
       \/ /\ kept.of \in living /\ (status.forced \/ NeedsRefresh(kept))
          /\ kept' = RotatedHere
          /\ status' = [status EXCEPT !.pc = "show", !.token = kept'] /\ UNCHANGED <<lostOf, mishaps>>
       \/ /\ kept.of # 0 /\ kept.of \notin living /\ (status.forced \/ NeedsRefresh(kept))
          /\ kept' = NotKept
          /\ status' = [status EXCEPT !.pc = "over", !.told = "signed_out", !.token = kept]
          /\ UNCHANGED <<lostOf, mishaps>>
       \/ \* no answer: the access token is used while it lasts
          /\ kept.of # 0 /\ Amiss
          /\ lostOf' = lostOf \union {kept.of}
          /\ \/ status' = [status EXCEPT !.pc = "show", !.token = kept, !.unsure = TRUE]
             \/ Report("unverified")
          /\ UNCHANGED kept
    /\ UNCHANGED <<setting, time, device, slt, login, polls, living, idOf, old, aside>>

\* GET /api/v1/me: a sign-in that has ended may be refused at once or work
\* until its access token is too old.
GivesUpOnRefusal == status.forced
ShowToBriefcase ==
    /\ status.pc = "show"
    /\ \/ /\ AccessToken(status.token) \notin old.service
          /\ status' = [status EXCEPT !.pc = "remember", !.me = idOf[status.token.who]]
          /\ UNCHANGED mishaps
       \/ /\ AccessToken(status.token) \in old.service \/ status.token.of \notin living
          /\ IF GivesUpOnRefusal THEN Report("signed_out")
             ELSE status' = [status EXCEPT !.pc = "refresh", !.forced = TRUE]
          /\ UNCHANGED mishaps
       \/ Amiss /\ Report("unverified")
    /\ UNCHANGED <<setting, time, device, slt, login, polls, living, idOf, old, kept, aside, lostOf>>

\* remember_identity reads the file once more: the id belongs to the account
\* that Briefcase named, and the profile may be another's by now.
AnyAccount == TRUE \* a mutant: the id is kept whoever is signed in by now
SameAccount == kept.who = status.me[1]
RememberIdentity ==
    /\ status.pc = "remember"
    /\ kept' = IF kept.of # 0 /\ SameAccount THEN [kept EXCEPT !.id = status.me] ELSE kept
    /\ Report("verified")
    /\ UNCHANGED <<setting, time, device, slt, login, polls, living, idOf, old, aside, lostOf, mishaps>>

-----------------------------------------------------------------------------
(* The world. *)

Elsewhere == <<setting, device, slt, login, polls, kept, aside, status, lostOf, mishaps>>
\* Time matters while a login waits for a code.
Pass ==
    /\ login.pc \in {"ask", "asking", "asleep"} /\ time < MaxSignInClock
    /\ time' = time + 1
    /\ UNCHANGED <<living, idOf, old, Elsewhere>>
EndSignIn(s) == living' = living \ {s} /\ s \in living /\ UNCHANGED <<time, idOf, old, Elsewhere>>
ChangeIdOf(p) ==
    /\ status.pc # "over" /\ idOf[p] = <<p, 0>>
    /\ idOf' = [idOf EXCEPT ![p] = <<p, 1>>]
    /\ UNCHANGED <<time, living, old, Elsewhere>>
\* logout in another process.
LogOut ==
    /\ status.pc # "over" /\ kept.of # 0
    /\ kept' = NotKept
    /\ living' = living \ {kept.of}
    /\ UNCHANGED <<setting, time, device, slt, login, polls, idOf, old, aside, status, lostOf, mishaps>>
\* A token grows too old for Briefcase, which the clock here may not know yet,
\* or is close to its end by the clock here.  A renewed one outlives the status.
Expire ==
    /\ status.pc # "over" /\ kept.of # 0 /\ kept.turn = 0
    /\ \E there, here \in BOOLEAN :
          old' = [service |-> old.service \union (IF there THEN {AccessToken(kept)} ELSE {}),
                  here |-> old.here \union (IF here THEN {AccessToken(kept)} ELSE {})]
    /\ old' # old
    /\ UNCHANGED <<time, living, idOf, Elsewhere>>

LoginStep ==
    \/ CheckDeployment \/ AskForCode \/ CodeIssued \/ CodeRefused \/ StopWaiting
    \/ PollPending \/ PollSettled \/ PollSignsIn \/ PollUnanswered \/ Exchange
    \/ Save \/ SaveFails \/ RevokeTheOther \/ KillLogin
StatusStep == StatusReads \/ RefreshForStatus \/ ShowToBriefcase \/ RememberIdentity
SignInNext ==
    \/ LoginStep \/ StatusStep \/ Deny \/ Pass \/ LogOut \/ Expire
    \/ \E p \in People : Approve(p)
    \/ ChangeIdOf(Owner)
    \/ \E s \in {Before, ThisOne} : EndSignIn(s)
SignInSpec == SignInInit /\ [][SignInNext]_signInVars

-----------------------------------------------------------------------------
SignInTypeOK ==
    /\ time \in 0 .. MaxSignInClock /\ living \subseteq {Before, ThisOne} /\ mishaps \in 0 .. MaxSignInFaults
    /\ login.since <= time /\ device.at <= time
    /\ kept.of \in {0, Before, ThisOne} /\ status.token.of \in {0, Before, ThisOne}

\* "A single-use code or token is never spent on a deployment that would refuse
\* it", as far as the deployment could be asked.
NothingSpentInVain ==
    login.told = "mismatch" \/ (~Agrees /\ mishaps = 0) => device.state = "none" /\ slt # "spent"

\* Polls keep the interval, and five seconds more after every slow_down, and
\* none is sent once Silicon Accounts has let the code expire, however late the
\* process wakes up and however long the code took to arrive.
PolledInTime ==
    \A i \in DOMAIN polls :
        /\ polls[i].at < device.at + CodeLives
        /\ polls[i].at - (IF i = 1 THEN device.at ELSE polls[i - 1].at)
             >= device.interval + SlowDownStep * Cardinality({j \in 1 .. (i - 1) : polls[j].slow})

\* A sign-in that lives is in the file, or about to be, or in the file that was
\* set aside: none is left behind that nobody could end, unless an answer was
\* lost, a write failed or the process was killed.
NoneForgotten ==
    living \ lostOf \subseteq
        {kept.of} \union (IF login.pc = "save" THEN {ThisOne} ELSE {})
                  \union (IF login.pc = "revoke" THEN {login.replaced} ELSE {})
                  \union (IF kept = Unreadable \/ aside # {} THEN {Before} ELSE {})

\* What the two commands say: a login that reports success has left its
\* sign-in in the file, a denial was given, and a status says "signed_out" of
\* a sign-in that lives only if its refresh was not answered.
CommandsTellTheTruth ==
    /\ login.told = "signed_in" => kept.of = ThisOne \/ ThisOne \notin living
    /\ login.told = "denied" => device.state = "denied"
    /\ status.told = "signed_out" => status.token.of \notin living \/ status.unsure

\* The id in the file is one of the account in the file, whichever account
\* Briefcase named while another one signed in.
IdsBelong == kept.of # 0 => kept.id \in IdsOfPeople /\ kept.id[1] = kept.who

\* A login spends nothing that would be refused, asks no faster than it was
\* told, leaves no sign-in behind and mixes no two accounts, whatever a status,
\* a logout, an approval elsewhere or a lost answer does beside it.
SignInsHold ==
    SignInTypeOK /\ NothingSpentInVain /\ PolledInTime /\ NoneForgotten /\ CommandsTellTheTruth /\ IdsBelong
===============================================================================
