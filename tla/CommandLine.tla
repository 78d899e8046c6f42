------------------------------ MODULE CommandLine ------------------------------
(***************************************************************************)
(* The briefcase command: several processes of one home share a file with   *)
(* the sign-in of a profile and the retry identity of a mutation.  Each     *)
(* read-modify-write of the file runs under an exclusive file lock, which a *)
(* refresh keeps for its network request because a refresh token works      *)
(* once.  A process may be killed anywhere, and any answer may be lost.     *)
(*                                                                          *)
(* The mutations here share one scope of pending_mutations and differ in    *)
(* their fingerprint; each names its entry by a path, which may lead to     *)
(* another entry at every resolution.                                       *)
(***************************************************************************)
EXTENDS Integers, FiniteSets

CONSTANTS Commands,   \* processes that run at once
          Intents,    \* fingerprints of mutations in one scope
          Targets,    \* entries the path of an intent may resolve to
          NoEntry,
          MaxKeys,    \* bound: idempotency keys
          MaxSignIns, \* bound: sign-ins (refresh token families)
          MaxTurn,    \* bound: refreshes of one sign-in
          MaxRuns,    \* bound: commands started
          MaxLosses   \* bound: lost answers and killed processes

NobodyHolds == "free"

ASSUME CommandLineAssumption ==
    /\ NoEntry \notin Targets /\ NobodyHolds \notin Commands /\ Intents # {}
    /\ MaxKeys \in Nat /\ MaxSignIns \in Nat \ {0} /\ MaxTurn \in Nat
    /\ MaxRuns \in Nat /\ MaxLosses \in Nat

VARIABLES
    session, \* credentials.json: the sign-in of the profile, [of, turn, due]; of = 0 for none
    pending, \* credentials.json: the retry identity, [intent, key, target]; key = 0 for none
    lock,    \* the holder of credentials.lock, or "free"
    cmd,     \* processes: what they do, for which request, and what they hold in memory
    family,  \* Silicon Accounts: the turn of the token each sign-in expects, and whether it lives
    server,  \* Briefcase: the request first seen with each key
    seen,    \* history: keys whose result a process has finished with
    replaced,\* history: keys whose place in pending another intent has taken
    hurt,    \* history: sign-ins whose answer, or whose holder, was lost on the way
    runs,
    losses

clVars == <<session, pending, lock, cmd, family, server, seen, replaced, hurt, runs, losses>>

SignedOut == [of |-> 0, turn |-> 0, due |-> FALSE]
NoRetry(i) == [intent |-> i, key |-> 0, target |-> NoEntry]
Blank == NoRetry(CHOOSE i \in Intents : TRUE)
Process(pc, token, request, read) == [pc |-> pc, token |-> token, request |-> request, read |-> read]
Quiet == Process("idle", SignedOut, Blank, Blank)
LockHeld == {"present", "save", "revoke", "forget"}

CommandLineInit ==
    /\ session = [of |-> 1, turn |-> 0, due |-> FALSE]
    /\ pending = Blank
    /\ lock = NobodyHolds
    /\ cmd = [p \in Commands |-> Quiet]
    /\ family = [f \in 1 .. MaxSignIns |-> [turn |-> 0, alive |-> f = session.of]]
    /\ server = [k \in 1 .. MaxKeys |-> Blank]
    /\ seen = {}
    /\ replaced = {}
    /\ hurt = {}
    /\ runs = 0
    /\ losses = 0

\* The process goes on with the token and the request it has.
Go(p, pc) == cmd' = [cmd EXCEPT ![p] = Process(pc, @.token, @.request, @.read)]
End(p) == cmd' = [cmd EXCEPT ![p] = Quiet]
Free == lock = NobodyHolds
Remote == <<family, server, hurt, losses>>
Results == <<seen, replaced>>
Local == <<runs, Remote>>
\* A command is started: each is a process of its own.
Start(p) == cmd[p].pc = "idle" /\ runs < MaxRuns /\ runs' = runs + 1

-----------------------------------------------------------------------------
(* The sign-in. *)

\* usable_session: the file is read without the lock.
Connect(p, i) ==
    /\ Start(p) /\ session.of # 0
    /\ cmd' = [cmd EXCEPT ![p] = Process(IF session.due THEN "refresh" ELSE "signed",
                                         session, NoRetry(i), Blank)]
    /\ UNCHANGED <<session, pending, lock, Results, Remote>>

\* refresh takes the lock and reads the file again: another process may have
\* refreshed, or signed out.
RefreshAsRead(p) ==
    /\ cmd[p].pc = "refresh" /\ Free
    /\ lock' = p
    /\ cmd' = [cmd EXCEPT ![p] = Process("present", @.token, @.request, pending)]
    /\ UNCHANGED <<session, pending, Results, Local>>
Refresh(p) ==
    /\ cmd[p].pc = "refresh" /\ Free
    /\ IF session.of = 0 THEN End(p) /\ UNCHANGED lock
       ELSE IF ~session.due
       THEN cmd' = [cmd EXCEPT ![p] = Process("signed", session, @.request, Blank)] /\ UNCHANGED lock
       ELSE /\ cmd' = [cmd EXCEPT ![p] = Process("present", session, @.request, pending)]
            /\ lock' = p
    /\ UNCHANGED <<session, pending, Results, Local>>

\* Silicon Accounts takes a refresh token once; one it has taken before ends
\* the sign-in.
TakesToken(token) == family[token.of].alive /\ family[token.of].turn = token.turn
Rotated(token) == [of |-> token.of, turn |-> token.turn + 1, due |-> FALSE]
AfterToken(token) ==
    [family EXCEPT ![token.of] = IF TakesToken(token) THEN [turn |-> @.turn + 1, alive |-> TRUE]
                                 ELSE [turn |-> @.turn, alive |-> FALSE]]

\* The refresh is answered: a new pair to be saved, or the end of the sign-in.
\* Either is written with everything else the file held when it was read.
ToBeSaved(p) ==
    /\ UNCHANGED <<session, lock>>
    /\ cmd' = [cmd EXCEPT ![p] = Process("save", Rotated(@.token), @.request, @.read)]
Present(p) ==
    /\ cmd[p].pc = "present" /\ cmd[p].token.turn < MaxTurn
    /\ family' = AfterToken(cmd[p].token)
    /\ IF TakesToken(cmd[p].token) THEN ToBeSaved(p)
       ELSE /\ session' = SignedOut
            /\ lock' = NobodyHolds
            /\ End(p)
    /\ pending' = IF TakesToken(cmd[p].token) THEN pending ELSE cmd[p].read
    /\ UNCHANGED <<server, Results, hurt, losses, runs>>

\* Silicon Accounts cannot be reached, or its answer is lost: the pair stays,
\* and its access token is used while it lasts.
Unanswered(p) ==
    /\ cmd[p].pc = "present" /\ losses < MaxLosses
    /\ losses' = losses + 1
    /\ \/ UNCHANGED <<family, hurt>>
       \/ family' = AfterToken(cmd[p].token) /\ hurt' = hurt \union {cmd[p].token.of}
    /\ lock' = NobodyHolds
    /\ \/ cmd' = [cmd EXCEPT ![p] = Process("signed", @.token, @.request, Blank)]
       \/ End(p)
    /\ UNCHANGED <<session, pending, server, Results, runs>>

SaveRefreshed(p) ==
    /\ cmd[p].pc = "save"
    /\ session' = cmd[p].token
    /\ pending' = cmd[p].read
    /\ lock' = NobodyHolds
    /\ cmd' = [cmd EXCEPT ![p] = Process("signed", @.token, @.request, Blank)]
    /\ UNCHANGED <<Results, Local>>

\* login: the account signs in at Silicon Accounts, then the sign-in replaces
\* the saved one under the lock; the one it replaced is revoked afterwards.
NewSignIn(f) == ~family[f].alive /\ family[f].turn = 0
SignIn(p, f) ==
    /\ Start(p) /\ NewSignIn(f) /\ \A g \in 1 .. (f - 1) : ~NewSignIn(g)
    /\ family' = [family EXCEPT ![f] = [turn |-> 0, alive |-> TRUE]]
    /\ cmd' = [cmd EXCEPT ![p] = Process("keep", [of |-> f, turn |-> 0, due |-> FALSE], Blank, Blank)]
    /\ UNCHANGED <<session, pending, lock, server, Results, hurt, losses>>
KeepSignIn(p) ==
    /\ cmd[p].pc = "keep" /\ Free
    /\ session' = cmd[p].token
    /\ IF session.of = 0 THEN End(p)
       ELSE cmd' = [cmd EXCEPT ![p] = Process("replaced", session, Blank, Blank)]
    /\ UNCHANGED <<pending, lock, Results, Local>>

\* A revocation ends the sign-in behind any token of it; it is best effort.
Ended(f) == family' = [family EXCEPT ![f] = [turn |-> @.turn + 1, alive |-> FALSE]]
RevokeReplaced(p) ==
    /\ cmd[p].pc = "replaced"
    /\ Ended(cmd[p].token.of) \/ UNCHANGED family
    /\ End(p)
    /\ UNCHANGED <<session, pending, lock, server, Results, hurt, losses, runs>>

\* logout: the token is revoked and the sign-in forgotten while the lock is held.
Logout(p) ==
    /\ Start(p) /\ Free /\ session.of # 0
    /\ lock' = p
    /\ cmd' = [cmd EXCEPT ![p] = Process("revoke", session, Blank, pending)]
    /\ UNCHANGED <<session, pending, Results, Remote>>
Revoke(p) ==
    /\ cmd[p].pc = "revoke"
    /\ Ended(cmd[p].token.of) \/ UNCHANGED family
    /\ Go(p, "forget")
    /\ UNCHANGED <<session, pending, lock, server, Results, hurt, losses, runs>>
Forget(p) ==
    /\ cmd[p].pc = "forget"
    /\ session' = SignedOut
    /\ pending' = cmd[p].read
    /\ lock' = NobodyHolds
    /\ End(p)
    /\ UNCHANGED <<Results, Local>>

\* An access token comes within a minute of its end.
Age ==
    /\ session.of # 0 /\ ~session.due /\ session.turn < MaxTurn
    /\ session' = [of |-> session.of, turn |-> session.turn, due |-> TRUE]
    /\ UNCHANGED <<pending, lock, cmd, Results, Local>>

-----------------------------------------------------------------------------
(* A mutation that survives a rerun. *)

\* durable_pending, or the path as it resolves now.
RetryOf(i) == pending.key # 0 /\ pending.intent = i
Resolve(p) ==
    /\ cmd[p].pc = "signed" /\ Free
    /\ LET i == cmd[p].request.intent
           known == IF RetryOf(i) THEN {pending.target} \ {NoEntry} ELSE {}
       IN  \E e \in IF known = {} THEN Targets ELSE known :
              cmd' = [cmd EXCEPT ![p] = Process("prepare", @.token,
                                               [intent |-> i, key |-> 0, target |-> e], Blank)]
    /\ UNCHANGED <<session, pending, lock, Results, Local>>

\* The requests the file, Briefcase and the processes know of.
Requests == {pending} \union {server[k] : k \in 1 .. MaxKeys} \union {cmd[p].request : p \in Commands}

\* prepare_mutation: the pending identity of this intent, or a new one with a
\* random key, that is, one nothing has used before.
FreshKeys == {k \in 1 .. MaxKeys : \A r \in Requests : r.key < k}
TargetAsResolved(p) == cmd[p].request.target
TargetToUse(p) ==
    IF RetryOf(cmd[p].request.intent) THEN pending.target ELSE cmd[p].request.target
Identity(p) ==
    IF RetryOf(cmd[p].request.intent) THEN pending
    ELSE [intent |-> cmd[p].request.intent, key |-> CHOOSE k \in FreshKeys : TRUE,
          target |-> cmd[p].request.target]
Prepare(p) ==
    /\ cmd[p].pc = "prepare" /\ Free
    /\ RetryOf(cmd[p].request.intent) \/ FreshKeys # {}
    /\ pending' = Identity(p)
    /\ cmd' = [cmd EXCEPT ![p] = Process("send", @.token, [intent |-> @.request.intent,
                                            key |-> Identity(p).key, target |-> TargetToUse(p)], Blank)]
    /\ replaced' = IF RetryOf(cmd[p].request.intent) THEN replaced ELSE replaced \union ({pending.key} \ {0})
    /\ UNCHANGED <<session, lock, seen, Local>>

\* Briefcase applies the first request with a key and replays its result.
Apply(p) ==
    LET r == cmd[p].request
    IN server' = IF server[r.key].key # 0 THEN server ELSE [server EXCEPT ![r.key] = r]
Send(p) ==
    /\ cmd[p].pc = "send"
    /\ Apply(p)
    /\ Go(p, "finish")
    /\ UNCHANGED <<session, pending, lock, family, Results, hurt, losses, runs>>
SendUnanswered(p) ==
    /\ cmd[p].pc = "send" /\ losses < MaxLosses
    /\ losses' = losses + 1
    /\ Apply(p) \/ UNCHANGED server
    /\ End(p)
    /\ UNCHANGED <<session, pending, lock, family, Results, hurt, runs>>

\* clear_pending_mutation: only the identity whose result was observed.
Clears(p) == pending.key = cmd[p].request.key
Finish(p) ==
    /\ cmd[p].pc = "finish" /\ Free
    /\ pending' = IF Clears(p) THEN NoRetry(pending.intent) ELSE pending
    /\ seen' = seen \union {cmd[p].request.key}
    /\ End(p)
    /\ UNCHANGED <<session, lock, replaced, Local>>

\* A process is killed; the system releases its lock.
Kill(p) ==
    /\ cmd[p].pc # "idle" /\ losses < MaxLosses
    /\ losses' = losses + 1
    /\ lock' = IF lock = p THEN NobodyHolds ELSE lock
    /\ hurt' = IF cmd[p].pc \in {"save", "forget"} THEN hurt \union {cmd[p].token.of} ELSE hurt
    /\ End(p)
    /\ UNCHANGED <<session, pending, family, server, Results, runs>>

SessionStep(p) ==
    \/ \E i \in Intents : Connect(p, i)
    \/ Refresh(p) \/ Present(p) \/ Unanswered(p) \/ SaveRefreshed(p)
    \/ \E f \in 1 .. MaxSignIns : SignIn(p, f)
    \/ KeepSignIn(p) \/ RevokeReplaced(p) \/ Logout(p) \/ Revoke(p) \/ Forget(p)
MutationStep(p) ==
    Resolve(p) \/ Prepare(p) \/ Send(p) \/ SendUnanswered(p) \/ Finish(p)
CommandLineNext ==
    \/ \E p \in Commands : SessionStep(p) \/ MutationStep(p) \/ Kill(p)
    \/ Age
CommandLineSpec == CommandLineInit /\ [][CommandLineNext]_clVars

-----------------------------------------------------------------------------
\* Types; the lock is held exactly while a process is between two of its steps
\* that must not be interleaved.
CommandLineTypeOK ==
    /\ session \in [of : 0 .. MaxSignIns, turn : 0 .. MaxTurn, due : BOOLEAN]
    /\ pending \in [intent : Intents, key : 0 .. MaxKeys, target : Targets \union {NoEntry}]
    /\ seen \subseteq 1 .. MaxKeys /\ losses \in 0 .. MaxLosses
    /\ \A p \in Commands : lock = p <=> cmd[p].pc \in LockHeld

\* A sign-in that nobody has lost an answer of, and that is still the saved
\* one, is refreshed for as long as the profile is used: no two processes
\* present the same single-use token (state.rs, lock_credentials).  What ends
\* it is a revocation, and that is part of a logout.
SignInOutlivesRefreshes ==
    session.of # 0 /\ session.of \notin hurt =>
        \/ family[session.of].alive
        \/ \E p \in Commands : cmd[p].pc = "forget" /\ cmd[p].token.of = session.of

\* "The new pair is saved before it is used": the file is never behind the
\* token a process works with, unless another sign-in has taken its place.
SavedBeforeUse ==
    \A p \in Commands : cmd[p].pc \in {"signed", "prepare", "send", "finish"} =>
        session.of # cmd[p].token.of \/ session.turn >= cmd[p].token.turn

\* Only a login signs a profile in: neither a refresh in flight nor any other
\* command that read the file earlier brings back a sign-in that has ended,
\* or replaces a newer one.
OnlyLoginSignsIn ==
    [][session'.of # session.of /\ session'.of # 0
         => \E p \in Commands : cmd[p].pc = "keep" /\ session' = cmd[p].token]_clVars

\* All attempts of one retry identity name the same entry, whatever the path
\* resolves to by then and however many processes run the command at once.
KeyNamesOneRequest ==
    \A p \in Commands : LET r == cmd[p].request IN
        cmd[p].pc \in {"send", "finish"} /\ server[r.key].key # 0 => server[r.key] = r

\* Rerunning a command recovers its uncertain result: as long as the result of
\* an applied mutation has reached no process, its identity is the pending one,
\* unless that of another intent has taken its place.
RerunRecovers ==
    \A k \in 1 .. MaxKeys :
        server[k].key # 0 /\ k \notin seen \union replaced => pending.key = k

\* Processes that share a profile lose neither its sign-in nor the result of a
\* command, whichever of them is killed and whatever answer is lost.
CommandsRecover ==
    SignInOutlivesRefreshes /\ SavedBeforeUse /\ KeyNamesOneRequest /\ RerunRecovers
=============================================================================
