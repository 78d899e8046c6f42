------------------------------- MODULE MCWorkers -------------------------------
(***************************************************************************)
(* Jobs of the worker that share no state, side by side with the requests   *)
(* that give them work: one of them, chosen at the start, takes steps, and  *)
(* the others stay as they are.  Each is checked on an instance of its own. *)
(***************************************************************************)
EXTENDS Outbox, Shares, SearchIndex

CONSTANTS Jobs, \* the components of a run
          f1, f2, w1

VARIABLE job

workersVars == <<outboxVars, sharesVars, searchVars, job>>

WorkersInit ==
    /\ job \in Jobs
    /\ OutboxInit /\ SharesInit /\ SearchInit
    /\ job # "shares" => \A g \in TagGrants : Permanent(g)

WorkersNext ==
    /\ UNCHANGED job
    /\ \/ job = "outbox" /\ OutboxNext /\ UNCHANGED <<sharesVars, searchVars>>
       \/ job = "shares" /\ SharesNext /\ UNCHANGED <<outboxVars, searchVars>>
       \/ job = "search" /\ SearchNext /\ UNCHANGED <<outboxVars, sharesVars>>

\* The fairness of each component, when it is the one.
WorkersFairness ==
    /\ \A h \in Hosts : WF_outboxVars(job = "outbox" /\ Claim(h))
    /\ \A h \in Hosts, e \in Events : WF_outboxVars(job = "outbox" /\ Dispatch(h, e))
    /\ \A e \in Events :
        /\ WF_outboxVars(job = "outbox" /\ RetryDue(e))
        /\ WF_outboxVars(job = "outbox" /\ LeaseEnds(e))
    /\ WF_sharesVars(job = "shares" /\ Sweep)
    /\ WF_sharesVars(job = "shares" /\ ChangeStep)
    /\ WF_searchVars(job = "search" /\ ReadNames)
    /\ SF_searchVars(job = "search" /\ CommitMaintenance)
    /\ \A p \in Passes :
        /\ WF_searchVars(job = "search" /\ ListPending(p))
        /\ SF_searchVars(job = "search" /\ (Extract(p) \/ Defer(p)))
        /\ \A f \in SearchFiles :
            SF_searchVars(job = "search" /\ Extract(p) /\ Head(listed[p]).file = f)

WorkersSpec == WorkersInit /\ [][WorkersNext]_workersVars /\ WorkersFairness

-----------------------------------------------------------------------------
\* Every job ends what it is given, whatever fails on the way: mails are sent or
\* given up, expiries are written off, documents get the text of their file.
JobsGetDone == EventsSettle /\ ExpiriesRecorded /\ DocumentsConverge
===============================================================================
