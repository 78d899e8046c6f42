------------------------ MODULE MultipartUpload_proofs -------------------------
(***************************************************************************)
(* Safety of multipart uploads for any number of tries and parts, some of   *)
(* which run past the lease of their record, stop, are dropped, or miss the *)
(* answer to a COMMIT.  One row is ever inserted, because a record that is  *)
(* completed stays so, and its parts stay as they are once a completion has *)
(* read them: so the parts are accounted for, and a key publishes once.     *)
(* Whether the published object stays depends on who may still clean up     *)
(* under its key: as long as no try with that key is mistaken, the lease of *)
(* each record excludes, and nobody does.                                   *)
(***************************************************************************)
EXTENDS MultipartUpload, UploadPlan, TLAPS

USE TriesAssumption

Values == {Tag[t] : t \in Tries} \cup {NoTry}
Closing == {"completing", "completed"}
Past == {"inserted", "authorize", "send", "save", "reabort", "prepare"}
Finishing == {"assemble", "reconcile", "commit", "reply", "withdraw"}

\* The types of the parts, which TypeOK leaves out.
PartTypes ==
    /\ etag \in [Tries -> [Part -> Values]]
    /\ chunk \in [Tries -> [Part -> Values]]
    /\ assembled \in [Tries -> [Part -> Values]]

\* The record of the completion says whether a version was published.
Recorded ==
    /\ published # {} <=> record["complete"] = "completed"
    /\ \A t \in Tries : pc[t] = "reply" => t \in published
    /\ \A t \in Tries : pc[t] = "answered" => published # {}

\* One row is ever inserted, under the identifier its record reserved.
Receipt ==
    /\ reserved = NoTry <=> record["initiate"] = "none"
    /\ record["initiate"] = "completed" => upload[reserved] # "none"
    /\ \A u \in Tries : upload[u] # "none" => record["initiate"] = "completed" /\ u = reserved
    /\ \A t \in Tries : pc[t] = "new" => t # reserved
    /\ \A t \in Tries :
         pc[t] \in Past \cup Finishing \/ call[t] # "none" \/ t \in published =>
             record["initiate"] = "completed" /\ id[t] = reserved

\* Uploads are named by tries that have begun.
Named ==
    /\ \A t \in Tries : pc[t] \in Holding("initiate") => id[t] \in Tries
    /\ \A t \in Tries : id[t] \in Tries => pc[id[t]] # "new"

\* From its completion on an upload keeps the parts that were recorded.
Frozen ==
    /\ \A t \in Tries :
         pc[t] \in Finishing \/ call[t] = "complete" \/ t \in published =>
             etag[id[t]] = Tagged(t) /\ upload[id[t]] \in Closing
    /\ \A u \in object : assembled[u] = etag[u] /\ upload[u] \in Closing
    /\ \A t \in Tries :
         pc[t] \in {"commit", "reply"} \/ t \in published => assembled[id[t]] = etag[id[t]]
    /\ \A s \in Tries : session[s] = "done" =>
         /\ record["initiate"] = "completed"
         /\ s = opened[reserved]
         /\ upload[reserved] \in Closing

\* Parts left by an upload that was given up have a try that will take them
\* away, or one that could not know of them.
Working == {"send", "save", "reabort"}
Stray ==
    /\ \A t \in Tries : call[t] = "part" => pc[t] = "send" \/ t \in careless
    /\ \A t \in careless : pc[t] # "new"
    /\ \A u \in Tries :
         upload[u] = "expired" /\ u \notin job /\ chunk[opened[u]] # NoParts =>
             \E t \in Tries : id[t] = u /\ (t \in careless \/ pc[t] \in Working)

Inductive == TypeOK /\ PartTypes /\ Recorded /\ Receipt /\ Named /\ Frozen /\ Stray

\* No try that works on u is mistaken.
Undisturbed(u) == \A s \in mistaken : id[s] # u

\* Then the lease of the initiation excludes, and the try that holds it has not
\* inserted the row yet.
Held ==
    /\ \A t \in mistaken : t \in Tries /\ pc[t] # "new"
    /\ \A t \in Tries : pc[t] \in Holding("initiate") /\ Undisturbed(id[t]) =>
         /\ upload[id[t]] = "none"
         /\ record["initiate"] = "in_progress" /\ reserved = id[t] => "initiate" \in leased
         /\ \A s \in Tries : pc[s] \in Holding("initiate") /\ id[s] = id[t] => s = t

\* The lease of the completion excludes too, and whoever withdraws an object
\* has not published it.
Concluding == Finishing \ {"reply"}
Kept ==
    /\ \A t \in Tries : pc[t] \in Concluding /\ Undisturbed(id[t]) =>
         /\ record["complete"] = "in_progress"
         /\ "complete" \in leased
         /\ \A s \in Tries : pc[s] \in Concluding /\ id[s] = id[t] => s = t
         /\ pc[t] = "commit" => id[t] \in object
    /\ LostOnlyByMistake

-----------------------------------------------------------------------------
(* What each part of the invariant rests on. *)

USE DEF Part

\* A tuple of one tag is a value of the parts.
LEMMA TaggedType == ASSUME NEW t \in Tries PROVE Tagged(t) \in [Part -> Values] /\ Tagged(t) # NoParts
<1>1. Tag[t] \in Values /\ 1 \in Part
  BY DEF Values
<1>2. Tagged(t)[1] = Tag[t] /\ NoParts[1] = NoTry
  BY <1>1 DEF Tagged, NoParts
<1> QED BY <1>1, <1>2 DEF Tagged

\* Initiations hold their record exactly in these phases.
LEMMA Holders ==
    /\ Holding("initiate") = {"open", "insert", "abort", "delete", "release"}
    /\ Holding("complete") = {"assemble", "reconcile", "commit", "reply", "withdraw"}
  BY DEF Holding

\* A step that leaves no part behind and takes no witness away.
LEMMA StrayKept ==
    ASSUME Stray, careless \subseteq careless', careless' \subseteq Tries,
           \A t \in Tries : call'[t] = "part" => call[t] = "part" \/ pc'[t] = "send",
           \A t \in Tries : call'[t] = "part" /\ pc[t] = "send" => pc'[t] = "send" \/ t \in careless',
           \A t \in Tries : pc[t] \in Working => pc'[t] \in Working \/ t \in careless',
           \A t \in Tries : id'[t] = id[t] \/ pc[t] = "new",
           \A t \in Tries : pc'[t] = "new" => pc[t] = "new" /\ (t \in careless' => t \in careless),
           \A u \in Tries :
             upload'[u] = "expired" /\ u \notin job' /\ chunk'[opened'[u]] # NoParts =>
               upload[u] = "expired" /\ u \notin job /\ chunk[opened[u]] # NoParts
    PROVE  Stray'
<1>1. \A t \in Tries : call'[t] = "part" => pc'[t] = "send" \/ t \in careless'
  BY DEF Stray
<1>2. \A t \in careless' : pc'[t] # "new"
  BY DEF Stray
<1>3. ASSUME NEW u \in Tries,
             upload'[u] = "expired", u \notin job', chunk'[opened'[u]] # NoParts
      PROVE  \E t \in Tries : id'[t] = u /\ (t \in careless' \/ pc'[t] \in Working)
  <2>1. PICK t \in Tries : id[t] = u /\ (t \in careless \/ pc[t] \in Working)
    BY <1>3 DEF Stray
  <2>2. pc[t] # "new"
    BY <2>1 DEF Stray, Working
  <2>3. id'[t] = u /\ (t \in careless' \/ pc'[t] \in Working)
    BY <2>1, <2>2
  <2> QED BY <2>3
<1> QED BY <1>1, <1>2, <1>3 DEF Stray

\* A step in which one try moves on and touches nothing that others see.
LEMMA Quiet ==
    ASSUME Inductive, NEW t \in Tries, NEW to \in Running \cup Ended, Goto(t, to),
           UNCHANGED <<records, row, provider, published, id, at>>,
           careless' \in {careless, careless \cup {t}}, detached' \subseteq Tries,
           to \in Past \cup Finishing => pc[t] \in Past \cup Finishing,
           to \in Finishing => pc[t] \in Finishing,
           to \in Holding("initiate") => id[t] \in Tries,
           to # "reply",
           to = "answered" => published # {},
           to = "commit" => id[t] \in object,
           pc[t] \in Working => to \in Working \/ t \in careless',
           pc[t] = "send" /\ call[t] = "part" => to = "send" \/ t \in careless'
    PROVE  Inductive'
<1> USE DEF Inductive
<1>1. /\ pc'[t] = to
      /\ \A s \in Tries \ {t} : pc'[s] = pc[s]
      /\ pc' \in [Tries -> {"new"} \cup Running \cup Ended]
  BY DEF TypeOK, Goto
<1>2. /\ UNCHANGED <<record, leased, reserved, upload, opened, etag, overdue, job>>
      /\ UNCHANGED <<session, chunk, object, assembled, call, published, id, at>>
      /\ t \in careless' => to # "new"
  BY DEF records, row, provider, Running, Ended
<1>3. TypeOK'
  BY <1>1, <1>2 DEF TypeOK
<1>4. PartTypes'
  BY <1>2 DEF PartTypes
<1>5. Recorded'
  BY <1>1, <1>2 DEF Recorded
<1>6. Receipt'
  BY <1>1, <1>2 DEF Receipt, Running, Ended
<1>7. Named'
  BY <1>1, <1>2 DEF Named, Running, Ended
<1>8. Frozen'
  <2>1. \A s \in Tries :
          pc'[s] \in {"commit", "reply"} \/ s \in published =>
            assembled[id[s]] = etag[id[s]]
    BY <1>1 DEF Frozen
  <2>2. \A s \in Tries : Tagged(s)' = Tagged(s)
    BY DEF Tagged
  <2>3. \A s \in Tries :
          pc'[s] \in Finishing \/ call[s] = "complete" \/ s \in published =>
            etag[id[s]] = Tagged(s) /\ upload[id[s]] \in Closing
    BY <1>1 DEF Frozen
  <2> QED BY <1>2, <2>1, <2>2, <2>3 DEF Frozen
<1>9. Stray'
  <2>1. careless' \subseteq Tries
    BY DEF TypeOK
  <2>2. \A s \in Tries : pc'[s] = "new" => pc[s] = "new" /\ (s \in careless' => s \in careless)
    BY <1>1 DEF Running, Ended
  <2> QED BY <1>1, <1>2, <2>1, <2>2, StrayKept
<1> QED BY <1>3, <1>4, <1>5, <1>6, <1>7, <1>8, <1>9

QuietStep(t) ==
    \/ RefuseInitiation(t) \/ InitiationAnswered(t) \/ LoseInitiation(t) \/ InsertFails(t)
    \/ PartSent(t) \/ PartFails(t) \/ RecordFails(t) \/ AbortAgainFails(t)
    \/ ReplayCompletion(t) \/ CompletionRefused(t)
    \/ Assembled(t) \/ AssembleFails(t) \/ Reconcile(t) \/ Reply(t) \/ CommitFails(t)
    \/ ReleaseFails(t) \/ Cancel(t) \/ Crash(t)

\* The quiet steps: a try learns something, gives up, is dropped or dies.
LEMMA QuietStepHolds ==
    ASSUME Inductive, NEW t \in Tries, QuietStep(t)
    PROVE  Inductive'
<1> DEFINE to == pc'[t]
<1>0. /\ pc \in [Tries -> {"new"} \cup Running \cup Ended]
      /\ call[t] = "part" => pc[t] = "send" \/ t \in careless
      /\ pc[t] = "reply" => t \in published
      /\ record["complete"] = "completed" => published # {}
      /\ pc[t] \in Holding("initiate") \cup Past => id[t] \in Tries
  BY DEF Inductive, TypeOK, Stray, Recorded, Named, Receipt
<1>1. CASE RefuseInitiation(t)
  <2>1. Goto(t, "busy") /\ pc[t] = "new"
    BY <1>1 DEF RefuseInitiation, Prepare
  <2>2. UNCHANGED <<records, row, provider, published, id, at, careless, detached>>
    BY <1>1 DEF RefuseInitiation, Prepare
  <2> QED BY <2>1, <2>2, Quiet DEF Inductive, TypeOK, Running, Ended, Past, Finishing, Working, Holding
<1>10. CASE InitiationAnswered(t) \/ LoseInitiation(t)
  <2>1. /\ pc[t] \in {"insert", "inserted"}
        /\ InitiationAnswered(t) => pc[t] = "inserted" /\ Goto(t, "authorize") /\ UNCHANGED careless
        /\ LoseInitiation(t) => Goto(t, "unknown") /\ careless' = careless \cup {t}
    BY <1>10 DEF InitiationAnswered, LoseInitiation, Forget
  <2>2. UNCHANGED <<records, row, provider, published, id, at, detached>>
    BY <1>10 DEF InitiationAnswered, LoseInitiation
  <2> QED BY <1>10, <2>1, <2>2, Quiet DEF Inductive, TypeOK, Running, Ended, Past, Finishing, Working, Holding
<1>2. CASE InsertFails(t) \/ ReleaseFails(t)
  <2>1. PICK label \in {"abort", "failed"} :
          Goto(t, label) /\ pc[t] \in {"insert", "release"}
    BY <1>2 DEF InsertFails, ReleaseFails
  <2>2. UNCHANGED <<records, row, provider, published, id, at, careless, detached>>
    BY <1>2 DEF InsertFails, ReleaseFails
  <2> QED BY <1>0, <2>1, <2>2, Quiet DEF Inductive, TypeOK, Running, Ended, Past, Finishing, Working, Holding
<1>3. CASE PartSent(t) \/ RecordFails(t)
  <2>1. /\ PartSent(t) => Goto(t, "save") /\ pc[t] = "send" /\ call[t] = "none"
        /\ RecordFails(t) => Goto(t, "reabort") /\ pc[t] = "save"
    BY DEF PartSent, RecordFails
  <2>2. UNCHANGED <<records, row, provider, published, id, at, careless, detached>>
    BY <1>3 DEF PartSent, RecordFails
  <2> QED BY <1>3, <2>1, <2>2, Quiet DEF Inductive, TypeOK, Running, Ended, Past, Finishing, Working, Holding
<1>4. CASE PartFails(t) \/ AbortAgainFails(t)
  <2>1. Goto(t, "failed") /\ careless' = careless \cup {t}
    BY <1>4 DEF PartFails, AbortAgainFails, Forget
  <2>2. UNCHANGED <<records, row, provider, published, id, at, detached>>
    BY <1>4 DEF PartFails, AbortAgainFails
  <2> QED BY <2>1, <2>2, Quiet DEF Inductive, TypeOK, Running, Ended, Past, Finishing, Working, Holding
<1>5. CASE ReplayCompletion(t) \/ CompletionRefused(t)
  <2>1. /\ pc[t] = "prepare"
        /\ ReplayCompletion(t) => Goto(t, "answered") /\ record["complete"] = "completed"
        /\ CompletionRefused(t) => Goto(t, "failed")
    BY <1>5 DEF ReplayCompletion, CompletionRefused
  <2>2. UNCHANGED <<records, row, provider, published, id, at, careless, detached>>
    BY <1>5 DEF ReplayCompletion, CompletionRefused
  <2> QED BY <1>0, <1>5, <2>1, <2>2, Quiet DEF Inductive, TypeOK, Running, Ended, Past, Finishing, Working, Holding
<1>6. CASE Assembled(t) \/ AssembleFails(t)
  <2>1. /\ pc[t] = "assemble"
        /\ Assembled(t) => Goto(t, "commit") /\ id[t] \in object
        /\ AssembleFails(t) => Goto(t, "reconcile")
    BY <1>6 DEF Assembled, AssembleFails
  <2>2. UNCHANGED <<records, row, provider, published, id, at, careless, detached>>
    BY <1>6 DEF Assembled, AssembleFails
  <2> QED BY <1>6, <2>1, <2>2, Quiet DEF Inductive, TypeOK, Running, Ended, Past, Finishing, Working, Holding
<1>7. CASE Reconcile(t)
  <2>1. /\ pc[t] = "reconcile"
        /\ \/ Goto(t, "commit") /\ id[t] \in object /\ UNCHANGED careless
           \/ Goto(t, "failed") /\ careless' = careless \cup {t}
    BY <1>7 DEF Reconcile, Forget
  <2>2. UNCHANGED <<records, row, provider, published, id, at, detached>>
    BY <1>7 DEF Reconcile
  <2> QED BY <2>1, <2>2, Quiet DEF Inductive, TypeOK, Running, Ended, Past, Finishing, Working, Holding
<1>8. CASE Reply(t) \/ CommitFails(t)
  <2>1. /\ pc[t] \in {"commit", "reply"}
        /\ Reply(t) => Goto(t, "answered") /\ pc[t] = "reply"
        /\ CommitFails(t) => Goto(t, "withdraw")
    BY <1>8 DEF Reply, CommitFails
  <2>2. UNCHANGED <<records, row, provider, published, id, at, careless, detached>>
    BY <1>8 DEF Reply, CommitFails
  <2> QED BY <1>0, <1>8, <2>1, <2>2, Quiet DEF Inductive, TypeOK, Running, Ended, Past, Finishing, Working, Holding
<1>9. CASE Cancel(t) \/ Crash(t)
  <2>1. /\ pc[t] \in Running /\ careless' = careless \cup {t}
        /\ Cancel(t) => Goto(t, Dropped(pc[t])) /\ detached' = detached \cup {t}
        /\ Crash(t) => Goto(t, "crashed") /\ UNCHANGED detached
    BY <1>9 DEF Cancel, Crash, Forget
  <2>2. UNCHANGED <<records, row, provider, published, id, at>>
    BY <1>9 DEF Cancel, Crash
  <2>3. /\ Dropped(pc[t]) \in {"abort", "withdraw", "failed"}
        /\ Dropped(pc[t]) = "abort" => pc[t] \in {"insert", "inserted", "abort", "delete"}
        /\ Dropped(pc[t]) = "withdraw" => pc[t] \in {"commit", "reply", "withdraw"}
    BY DEF Dropped
  <2> HIDE DEF Dropped
  <2> QED BY <1>0, <1>9, <2>1, <2>2, <2>3, Quiet DEF Inductive, TypeOK, Running, Ended, Past, Finishing, Working, Holding
<1> QED BY <1>1, <1>2, <1>3, <1>4, <1>5, <1>6, <1>7, <1>8, <1>9, <1>10 DEF QuietStep

-----------------------------------------------------------------------------
(* The initiation. *)

\* A record that no try holds is taken, with its identifier or a new one.
LEMMA PrepareInitiationHolds ==
    ASSUME Inductive, NEW t \in Tries, PrepareInitiation(t)
    PROVE  Inductive'
<1> USE DEF Inductive
<1>1. /\ pc[t] = "new" /\ record["initiate"] # "completed"
      /\ record' = [record EXCEPT !["initiate"] = "in_progress"]
      /\ \/ record["initiate"] = "none" /\ reserved' = t
         \/ /\ record["initiate"] = "in_progress" /\ "initiate" \notin leased
            /\ reserved' = reserved
      /\ leased' = leased \cup {"initiate"}
      /\ id' = [id EXCEPT ![t] = reserved'] /\ pc' = [pc EXCEPT ![t] = "open"]
      /\ UNCHANGED <<upload, opened, etag, overdue, job>>
      /\ UNCHANGED <<session, chunk, object, assembled, call, published, at, detached, careless>>
  BY DEF PrepareInitiation, Prepare, Goto, row, provider, TypeOK, Operations
<1>2. /\ record'["initiate"] = "in_progress" /\ record'["complete"] = record["complete"]
      /\ pc'[t] = "open" /\ id'[t] = reserved'
      /\ \A s \in Tries \ {t} : pc'[s] = pc[s] /\ id'[s] = id[s]
  BY <1>1 DEF TypeOK, Operations
<1>3. reserved' \in Tries /\ (reserved' = t \/ pc[reserved'] # "new")
  BY <1>1 DEF TypeOK, Receipt
<1>4. TypeOK'
  BY <1>1, <1>2, <1>3 DEF TypeOK, Operations, Running
<1>5. PartTypes'
  BY <1>1 DEF PartTypes
<1>6. Recorded'
  BY <1>1, <1>2 DEF Recorded
<1>7. Receipt'
  BY <1>1, <1>2, <1>3 DEF Receipt, Past, Finishing, TypeOK
<1>8. Named'
  BY <1>1, <1>2, <1>3 DEF Named
<1>9. \A s \in Tries : pc[s] \notin Past \cup Finishing /\ call[s] = "none" /\ s \notin published
  BY <1>1 DEF Receipt, TypeOK
<1>10. Frozen'
  <2>1. object = {} /\ \A s \in Tries : session[s] # "done"
    BY <1>1 DEF Frozen, Receipt, TypeOK, Closing
  <2>2. \A s \in Tries : pc'[s] \notin Finishing
    BY <1>2, <1>9 DEF Finishing
  <2> QED BY <1>1, <1>9, <2>1, <2>2 DEF Frozen, Finishing
<1>11. Stray'
  <2>1. careless' \subseteq Tries
    BY <1>1 DEF TypeOK
  <2> QED BY <1>1, <1>2, <1>9, <2>1, StrayKept DEF Working
<1> QED BY <1>4, <1>5, <1>6, <1>7, <1>8, <1>10, <1>11

\* The receipt of the one upload is replayed.
LEMMA ReplayInitiationHolds ==
    ASSUME Inductive, NEW t \in Tries, ReplayInitiation(t)
    PROVE  Inductive'
<1> USE DEF Inductive
<1>1. /\ pc[t] = "new" /\ record["initiate"] = "completed"
      /\ id' = [id EXCEPT ![t] = reserved] /\ pc' = [pc EXCEPT ![t] = "authorize"]
      /\ UNCHANGED <<record, leased, reserved, upload, opened, etag, overdue, job>>
      /\ UNCHANGED <<session, chunk, object, assembled, call, published, at, detached, careless>>
  BY DEF ReplayInitiation, Prepare, Goto, row, provider, records
<1>2. /\ pc'[t] = "authorize" /\ id'[t] = reserved
      /\ \A s \in Tries \ {t} : pc'[s] = pc[s] /\ id'[s] = id[s]
      /\ reserved \in Tries
  BY <1>1 DEF TypeOK, Receipt
<1>3. TypeOK'
  BY <1>1, <1>2 DEF TypeOK, Running
<1>4. PartTypes'
  BY <1>1 DEF PartTypes
<1>5. Recorded'
  BY <1>1, <1>2 DEF Recorded
<1>6. Receipt'
  BY <1>1, <1>2 DEF Receipt
<1>7. Named'
  BY <1>1, <1>2, Holders DEF Named, Receipt
<1>8. Frozen'
  <2>1. call[t] # "none" \/ t \in published => id[t] = reserved
    BY DEF Receipt
  <2>2. \A s \in Tries :
          /\ pc'[s] \in Finishing => pc[s] \in Finishing
          /\ pc'[s] \in {"commit", "reply"} => pc[s] \in {"commit", "reply"}
          /\ pc'[s] \in Finishing \/ call[s] = "complete" \/ s \in published => id'[s] = id[s]
    BY <1>1, <1>2, <2>1 DEF Finishing
  <2>3. \A s \in Tries : Tagged(s)' = Tagged(s)
    BY DEF Tagged
  <2>4. \A s \in Tries :
          pc'[s] \in Finishing \/ call[s] = "complete" \/ s \in published =>
            etag[id'[s]] = Tagged(s) /\ upload[id'[s]] \in Closing
    BY <2>2 DEF Frozen
  <2>5. \A s \in Tries :
          pc'[s] \in {"commit", "reply"} \/ s \in published => assembled[id'[s]] = etag[id'[s]]
    BY <2>2 DEF Frozen, Finishing
  <2> QED BY <1>1, <2>3, <2>4, <2>5 DEF Frozen
<1>9. Stray'
  <2>1. careless' \subseteq Tries
    BY <1>1 DEF TypeOK
  <2> QED BY <1>1, <1>2, <2>1, StrayKept DEF Working
<1> QED BY <1>3, <1>4, <1>5, <1>6, <1>7, <1>8, <1>9

\* A session is opened, or may have been.
LEMMA OpenHolds ==
    ASSUME Inductive, NEW t \in Tries, OpenSession(t) \/ OpenFails(t)
    PROVE  Inductive'
<1> USE DEF Inductive
<1>1. /\ pc[t] = "open"
      /\ \E to \in {"insert", "release"} : pc' = [pc EXCEPT ![t] = to]
      /\ session' \in {session, [session EXCEPT ![t] = "open"]}
      /\ careless' \in {careless, careless \cup {t}}
      /\ UNCHANGED <<record, leased, reserved, upload, opened, etag, overdue, job>>
      /\ UNCHANGED <<chunk, object, assembled, call, published, id, at, detached>>
  BY DEF OpenSession, OpenFails, Goto, Forget, row, records
<1>2. /\ pc'[t] \in {"insert", "release"}
      /\ \A s \in Tries \ {t} : pc'[s] = pc[s]
      /\ pc' \in [Tries -> {"new"} \cup Running \cup Ended]
  BY <1>1 DEF TypeOK, Running
<1>3. /\ session' \in [Tries -> {"none", "open", "aborted", "done"}]
      /\ \A s \in Tries : session'[s] = "done" => session[s] = "done"
  BY <1>1 DEF TypeOK
<1>4. TypeOK'
  BY <1>1, <1>2, <1>3 DEF TypeOK
<1>5. PartTypes'
  BY <1>1 DEF PartTypes
<1>6. Recorded'
  BY <1>1, <1>2 DEF Recorded
<1>7. Receipt'
  BY <1>1, <1>2 DEF Receipt, Past, Finishing
<1>8. Named'
  BY <1>1, <1>2, Holders DEF Named
<1>9. Frozen'
  <2>1. \A s \in Tries :
          /\ pc'[s] \in Finishing => pc[s] \in Finishing
          /\ pc'[s] \in {"commit", "reply"} => pc[s] \in {"commit", "reply"}
    BY <1>2 DEF Finishing
  <2>2. \A s \in Tries : Tagged(s)' = Tagged(s)
    BY DEF Tagged
  <2> QED BY <1>1, <1>3, <2>1, <2>2 DEF Frozen
<1>10. Stray'
  <2>1. careless' \subseteq Tries
    BY <1>1 DEF TypeOK
  <2> QED BY <1>1, <1>2, <2>1, StrayKept DEF Working
<1> QED BY <1>4, <1>5, <1>6, <1>7, <1>8, <1>9, <1>10

\* The first row is inserted under the identifier of the try that inserts it.
LEMMA InsertHolds ==
    ASSUME Inductive, NEW t \in Tries, CommitInitiation(t)
    PROVE  Inductive'
<1> USE DEF Inductive
<1>1. /\ pc[t] = "insert" /\ record["initiate"] = "in_progress" /\ upload[id[t]] = "none"
      /\ upload' = [upload EXCEPT ![id[t]] = "initiated"]
      /\ opened' = [opened EXCEPT ![id[t]] = t]
      /\ record' = [record EXCEPT !["initiate"] = "completed"]
      /\ leased' = leased \ {"initiate"} /\ pc' = [pc EXCEPT ![t] = "inserted"]
      /\ reserved' = id[t]
      /\ UNCHANGED <<etag, overdue, job>>
      /\ UNCHANGED <<session, chunk, object, assembled, call, published, id, at, detached, careless>>
  BY DEF CommitInitiation, Insert, Goto, provider
<1>2. /\ id[t] = reserved' /\ reserved' \in Tries /\ pc[reserved'] # "new"
      /\ \A u \in Tries : upload[u] = "none"
  BY <1>1, Holders DEF Named, Receipt
<1>3. /\ record'["initiate"] = "completed" /\ record'["complete"] = record["complete"]
      /\ pc'[t] = "inserted" /\ \A s \in Tries \ {t} : pc'[s] = pc[s]
      /\ upload'[reserved'] = "initiated" /\ \A u \in Tries \ {reserved'} : upload'[u] = upload[u]
      /\ opened'[reserved'] = t /\ \A u \in Tries \ {reserved'} : opened'[u] = opened[u]
  BY <1>1, <1>2 DEF TypeOK, Operations
<1>4. TypeOK'
  <2>1. /\ record' \in [Operations -> {"none", "in_progress", "completed"}]
        /\ leased' \subseteq {op \in Operations : record'[op] = "in_progress"}
    BY <1>1 DEF TypeOK, Operations
  <2>2. /\ upload' \in [Tries -> Uploadable \cup {"none", "completing", "completed", "expired"}]
        /\ opened' \in [Tries -> Tries \cup {NoTry}]
        /\ pc' \in [Tries -> {"new"} \cup Running \cup Ended]
    BY <1>1 DEF TypeOK, Uploadable, Running, Ended
  <2>3. job' \subseteq {u \in Tries : upload'[u] = "expired"}
    BY <1>1, <1>2, <1>3 DEF TypeOK
  <2>4. \A u \in Tries : opened'[u] = NoTry <=> upload'[u] = "none"
    BY <1>3 DEF TypeOK
  <2>5. careless' \subseteq Tries
    BY <1>1 DEF TypeOK
  <2> QED BY <1>1, <2>1, <2>2, <2>3, <2>4, <2>5 DEF TypeOK
<1>5. PartTypes'
  BY <1>1 DEF PartTypes
<1>6. Recorded'
  BY <1>1, <1>3 DEF Recorded
<1>7. \A s \in Tries : pc[s] \notin Past \cup Finishing /\ call[s] = "none" /\ s \notin published
  BY <1>1 DEF Receipt, TypeOK
<1>8. Receipt'
  <2>1. reserved' # NoTry
    BY <1>2
  <2>2. \A s \in Tries : pc'[s] = "new" => s # reserved'
    BY <1>2, <1>3
  <2>3. \A s \in Tries : pc'[s] \in Past \cup Finishing \/ call[s] # "none" \/ s \in published =>
          id[s] = reserved'
    BY <1>2, <1>3, <1>7
  <2>4. \A u \in Tries : upload'[u] # "none" => u = reserved'
    BY <1>1, <1>3 DEF Receipt
  <2> QED BY <1>1, <1>3, <2>1, <2>2, <2>3, <2>4 DEF Receipt
<1>9. Named'
  BY <1>1, <1>2, <1>3, Holders DEF Named
<1>10. Frozen'
  <2>1. object = {} /\ \A s \in Tries : session[s] # "done"
    BY <1>1 DEF Frozen, Receipt, TypeOK, Closing
  <2>2. \A s \in Tries : pc'[s] \notin Finishing
    BY <1>3, <1>7 DEF Finishing
  <2> QED BY <1>1, <1>7, <2>1, <2>2 DEF Frozen, Finishing
<1>11. Stray'
  <2>1. careless' \subseteq Tries
    BY <1>1 DEF TypeOK
  <2>2. \A u \in Tries :
          upload'[u] = "expired" /\ u \notin job' /\ chunk'[opened'[u]] # NoParts =>
            upload[u] = "expired" /\ u \notin job /\ chunk[opened[u]] # NoParts
    BY <1>1, <1>3
  <2> QED BY <1>1, <1>3, <1>7, <2>1, <2>2, StrayKept DEF Working
<1> QED BY <1>4, <1>5, <1>6, <1>8, <1>9, <1>10, <1>11

-----------------------------------------------------------------------------
(* The parts. *)

\* A part may be sent, or the upload takes no more.
LEMMA AuthorizeHolds ==
    ASSUME Inductive, NEW t \in Tries, Authorize(t)
    PROVE  Inductive'
<1> USE DEF Inductive
<1>1. /\ pc[t] = "authorize"
      /\ \/ pc' = [pc EXCEPT ![t] = "send"] /\ call' = [call EXCEPT ![t] = "part"]
         \/ pc' = [pc EXCEPT ![t] = "not_uploadable"] /\ UNCHANGED call
      /\ UNCHANGED <<record, leased, reserved, upload, opened, etag, overdue, job>>
      /\ UNCHANGED <<session, chunk, object, assembled, published, id, at, detached, careless>>
  BY DEF Authorize, Goto, row, records
<1>2. /\ pc'[t] \in {"send", "not_uploadable"}
      /\ \A s \in Tries \ {t} : pc'[s] = pc[s] /\ call'[s] = call[s]
      /\ call'[t] = call[t] \/ (call'[t] = "part" /\ pc'[t] = "send")
      /\ pc' \in [Tries -> {"new"} \cup Running \cup Ended]
      /\ call' \in [Tries -> {"none", "part", "complete"}]
  BY <1>1 DEF TypeOK, Running, Ended
<1>3. TypeOK'
  BY <1>1, <1>2 DEF TypeOK
<1>4. PartTypes'
  BY <1>1 DEF PartTypes
<1>5. Recorded'
  BY <1>1, <1>2 DEF Recorded
<1>6. Receipt'
  BY <1>1, <1>2 DEF Receipt, Past, Finishing
<1>7. Named'
  BY <1>1, <1>2, Holders DEF Named
<1>8. Frozen'
  <2>1. \A s \in Tries :
          /\ pc'[s] \in Finishing => pc[s] \in Finishing
          /\ pc'[s] \in {"commit", "reply"} => pc[s] \in {"commit", "reply"}
          /\ call'[s] = "complete" => call[s] = "complete"
    BY <1>2 DEF Finishing
  <2>2. \A s \in Tries : Tagged(s)' = Tagged(s)
    BY DEF Tagged
  <2> QED BY <1>1, <2>1, <2>2 DEF Frozen
<1>9. Stray'
  <2>1. careless' \subseteq Tries /\ (call'[t] = "part" => pc'[t] = "send" \/ t \in careless)
    BY <1>1, <1>2 DEF TypeOK, Stray
  <2> QED BY <1>1, <1>2, <2>1, StrayKept DEF Working
<1> QED BY <1>3, <1>4, <1>5, <1>6, <1>7, <1>8, <1>9

\* A part arrives, perhaps long after its try has ended.
LEMMA StorePartHolds ==
    ASSUME Inductive, NEW t \in Tries, StorePart(t)
    PROVE  Inductive'
<1> USE DEF Inductive
<1> DEFINE u == id[t]
           s == opened[u]
           held == [chunk[s] EXCEPT ![at[t]] = IF session[s] = "done" THEN @ ELSE Tag[t]]
<1>1. /\ call[t] = "part" /\ call' = [call EXCEPT ![t] = "none"]
      /\ UNCHANGED <<record, leased, reserved, upload, opened, etag, overdue, job>>
      /\ UNCHANGED <<session, object, assembled, published, pc, id, at, detached, careless>>
  BY DEF StorePart, row, records, try
<1>2. u = reserved /\ u \in Tries /\ s \in Tries /\ at[t] \in Part
  BY <1>1 DEF Receipt, TypeOK
<1>3. chunk' = [chunk EXCEPT ![s] = held]
  BY DEF StorePart, PartTypes
<1>4. held \in [Part -> Values]
  BY <1>2 DEF PartTypes, Values
<1>5. /\ chunk' \in [Tries -> [Part -> Values]]
      /\ \A r \in Tries \ {s} : chunk'[r] = chunk[r]
      /\ call'[t] = "none" /\ \A r \in Tries \ {t} : call'[r] = call[r]
      /\ call' \in [Tries -> {"none", "part", "complete"}]
  <2> HIDE DEF held
  <2> QED BY <1>1, <1>2, <1>3, <1>4 DEF TypeOK, PartTypes
<1>6. TypeOK'
  BY <1>1, <1>5 DEF TypeOK
<1>7. PartTypes'
  BY <1>1, <1>5 DEF PartTypes
<1>8. Recorded'
  BY <1>1 DEF Recorded
<1>9. Receipt'
  BY <1>1, <1>5 DEF Receipt
<1>10. Named'
  BY <1>1 DEF Named
<1>11. Frozen'
  <2>1. \A r \in Tries : call'[r] = "complete" => call[r] = "complete"
    BY <1>5
  <2>2. \A r \in Tries : Tagged(r)' = Tagged(r)
    BY DEF Tagged
  <2> QED BY <1>1, <2>1, <2>2 DEF Frozen
<1>12. Stray'
  <2>1. \A r \in Tries : call'[r] = "part" => pc'[r] = "send" \/ r \in careless'
    BY <1>1, <1>5 DEF Stray
  <2>2. ASSUME NEW v \in Tries,
               upload'[v] = "expired", v \notin job', chunk'[opened'[v]] # NoParts
        PROVE  \E r \in Tries : id'[r] = v /\ (r \in careless' \/ pc'[r] \in Working)
    <3>1. v = u
      BY <1>1, <1>2, <2>2 DEF Receipt
    <3>2. t \in careless \/ pc[t] = "send"
      BY <1>1 DEF Stray
    <3> QED BY <1>1, <3>1, <3>2 DEF Working
  <2>3. \A r \in careless' : pc'[r] # "new"
    BY <1>1 DEF Stray
  <2> QED BY <2>1, <2>2, <2>3 DEF Stray
<1> QED BY <1>6, <1>7, <1>8, <1>9, <1>10, <1>11, <1>12

\* A part is recorded while the upload takes parts.
LEMMA RecordPartHolds ==
    ASSUME Inductive, NEW t \in Tries, RecordPart(t)
    PROVE  Inductive'
<1> USE DEF Inductive
<1> DEFINE u == reserved
           tags == [etag[u] EXCEPT ![at[t]] = Tag[t]]
<1>1. /\ pc[t] = "save" /\ upload[id[t]] \in Uploadable
      /\ upload' = [upload EXCEPT ![id[t]] = "uploading"]
      /\ \/ at[t] = Parts /\ pc' = [pc EXCEPT ![t] = "prepare"] /\ UNCHANGED at
         \/ /\ at[t] # Parts /\ pc' = [pc EXCEPT ![t] = "authorize"]
            /\ at' = [at EXCEPT ![t] = @ + 1]
      /\ UNCHANGED <<record, leased, reserved, opened, overdue, job>>
      /\ UNCHANGED <<session, chunk, object, assembled, call, published, id, detached, careless>>
  BY DEF RecordPart, MayUpload, Goto, records, provider
<1>2. id[t] = u /\ u \in Tries /\ record["initiate"] = "completed" /\ at[t] \in Part
  BY <1>1 DEF Receipt, TypeOK, Past
<1>3. etag' = [etag EXCEPT ![u] = tags] /\ tags \in [Part -> Values]
  BY <1>2 DEF RecordPart, PartTypes, Values
<1> HIDE DEF tags
<1>4. /\ pc'[t] \in {"prepare", "authorize"} /\ \A s \in Tries \ {t} : pc'[s] = pc[s]
      /\ pc' \in [Tries -> {"new"} \cup Running \cup Ended]
      /\ upload'[u] = "uploading" /\ \A v \in Tries \ {u} : upload'[v] = upload[v]
      /\ upload' \in [Tries -> Uploadable \cup {"none", "completing", "completed", "expired"}]
  BY <1>1, <1>2 DEF TypeOK, Running, Uploadable
<1>5. at' \in [Tries -> Part]
  <2>1. CASE at[t] = Parts
    BY <1>1, <2>1 DEF TypeOK
  <2>2. CASE at[t] # Parts
    <3>1. at[t] + 1 \in Part
      BY <1>2, <2>2
    <3> QED BY <1>1, <2>2, <3>1 DEF TypeOK
  <2> QED BY <2>1, <2>2
<1>6. TypeOK'
  <2>1. job \subseteq {v \in Tries : upload'[v] = "expired"}
    BY <1>1, <1>2, <1>4 DEF TypeOK, Uploadable
  <2>2. \A v \in Tries : opened[v] = NoTry <=> upload'[v] = "none"
    BY <1>1, <1>2, <1>4 DEF TypeOK, Uploadable
  <2> QED BY <1>1, <1>4, <1>5, <2>1, <2>2 DEF TypeOK
<1>7. PartTypes'
  BY <1>1, <1>2, <1>3 DEF PartTypes
<1>8. Recorded'
  BY <1>1, <1>4 DEF Recorded
<1>9. Receipt'
  BY <1>1, <1>2, <1>4 DEF Receipt, Past
<1>10. Named'
  BY <1>1, <1>4, Holders DEF Named
<1>11. upload[u] \notin Closing
  BY <1>1, <1>2 DEF Uploadable, Closing
<1>12. \A s \in Tries : pc[s] \notin Finishing /\ call[s] # "complete" /\ s \notin published
  BY <1>2, <1>11 DEF Receipt, Frozen
<1>13. Frozen'
  <2>1. object = {} /\ \A s \in Tries : session[s] # "done"
    <3>1. \A v \in object : v \in Tries /\ upload[v] # "none"
      BY DEF Frozen, TypeOK, Closing
    <3> QED BY <1>11, <3>1 DEF Receipt, Frozen
  <2>2. \A s \in Tries : pc'[s] \notin Finishing
    BY <1>4, <1>12 DEF Finishing
  <2> QED BY <1>1, <1>12, <2>1, <2>2 DEF Frozen, Finishing
<1>14. Stray'
  <2>1. \A s \in Tries : call'[s] = "part" => pc'[s] = "send" \/ s \in careless'
    BY <1>1, <1>4 DEF Stray
  <2>2. \A v \in Tries : upload'[v] # "expired"
    BY <1>4 DEF Receipt
  <2>3. \A s \in careless' : pc'[s] # "new"
    BY <1>1, <1>4 DEF Stray, TypeOK
  <2> QED BY <2>1, <2>2, <2>3 DEF Stray
<1> QED BY <1>6, <1>7, <1>8, <1>9, <1>10, <1>13, <1>14

\* What closing a session does to the sessions and their parts.
LEMMA Closes ==
    ASSUME TypeOK, PartTypes, NEW s, CloseSession(s)
    PROVE  /\ session' \in [Tries -> {"none", "open", "aborted", "done"}]
           /\ chunk' \in [Tries -> [Part -> Values]]
           /\ \A r \in Tries : session'[r] = "done" => session[r] = "done"
           /\ \A r \in Tries : chunk'[r] = chunk[r] \/ chunk'[r] = NoParts
           /\ s \in Tries /\ session[s] # "done" => chunk'[s] = NoParts
           /\ UNCHANGED <<object, assembled, call>>
<1>1. NoParts \in [Part -> Values]
  BY DEF NoParts, Values
<1>2. /\ session \in [Tries -> {"none", "open", "aborted", "done"}]
      /\ chunk \in [Tries -> [Part -> Values]]
  BY DEF TypeOK, PartTypes
<1> QED BY <1>1, <1>2 DEF CloseSession

\* A try aborts its session again because its part came too late, or because
\* its initiation failed.
LEMMA CloseHolds ==
    ASSUME Inductive, NEW t \in Tries, NEW s, CloseSession(s),
           NEW to \in {"failed", "delete"}, Goto(t, to),
           \/ pc[t] = "reabort" /\ to = "failed" /\ s = opened[id[t]]
           \/ pc[t] = "abort" /\ to = "delete",
           UNCHANGED <<records, row, published, id, at, detached, careless>>
    PROVE  Inductive'
<1> USE DEF Inductive
<1>1. /\ UNCHANGED <<record, leased, reserved, upload, opened, etag, overdue, job>>
      /\ UNCHANGED <<object, assembled, call, published, id, at, detached, careless>>
  BY DEF CloseSession, row, records
<1>2. /\ pc'[t] = to /\ \A r \in Tries \ {t} : pc'[r] = pc[r]
      /\ pc' \in [Tries -> {"new"} \cup Running \cup Ended]
  BY DEF TypeOK, Goto, Running, Ended
<1>3. /\ session' \in [Tries -> {"none", "open", "aborted", "done"}]
      /\ chunk' \in [Tries -> [Part -> Values]]
      /\ \A r \in Tries : session'[r] = "done" => session[r] = "done"
      /\ \A r \in Tries : chunk'[r] = chunk[r] \/ chunk'[r] = NoParts
      /\ s \in Tries /\ session[s] # "done" => chunk'[s] = NoParts
  BY Closes
<1>4. TypeOK'
  BY <1>1, <1>2, <1>3 DEF TypeOK
<1>5. PartTypes'
  BY <1>1, <1>3 DEF PartTypes
<1>6. Recorded'
  BY <1>1, <1>2 DEF Recorded
<1>7. Receipt'
  BY <1>1, <1>2 DEF Receipt, Past, Finishing
<1>8. Named'
  BY <1>1, <1>2, Holders DEF Named
<1>9. Frozen'
  <2>1. \A r \in Tries :
          /\ pc'[r] \in Finishing => pc[r] \in Finishing
          /\ pc'[r] \in {"commit", "reply"} => pc[r] \in {"commit", "reply"}
    BY <1>2 DEF Finishing
  <2>2. \A r \in Tries : Tagged(r)' = Tagged(r)
    BY DEF Tagged
  <2> QED BY <1>1, <1>3, <2>1, <2>2 DEF Frozen
<1>10. Stray'
  <2>1. \A r \in Tries : call'[r] = "part" => pc'[r] = "send" \/ r \in careless'
    BY <1>1, <1>2 DEF Stray
  <2>2. ASSUME NEW v \in Tries,
               upload'[v] = "expired", v \notin job', chunk'[opened'[v]] # NoParts
        PROVE  \E r \in Tries : id'[r] = v /\ (r \in careless' \/ pc'[r] \in Working)
    <3>1. /\ upload[v] = "expired" /\ v \notin job /\ opened[v] \in Tries
          /\ v = reserved
      BY <1>1, <2>2 DEF TypeOK, Receipt
    <3>2. session[opened[v]] # "done"
      BY <3>1 DEF Frozen, Closing
    <3>3. opened[v] # s /\ chunk[opened[v]] # NoParts
      BY <1>1, <1>3, <2>2, <3>1, <3>2
    <3>4. pc[t] # "reabort"
      BY <3>1, <3>3 DEF Receipt, Past
    <3>5. PICK r \in Tries : id[r] = v /\ (r \in careless \/ pc[r] \in Working)
      BY <3>1, <3>3 DEF Stray
    <3> QED BY <1>1, <1>2, <3>4, <3>5 DEF Working
  <2>3. \A r \in careless' : pc'[r] # "new"
    BY <1>1, <1>2 DEF Stray, TypeOK
  <2> QED BY <2>1, <2>2, <2>3 DEF Stray
<1> QED BY <1>4, <1>5, <1>6, <1>7, <1>8, <1>9, <1>10

\* The session of an initiation that failed is aborted, or the call fails.
LEMMA AbortOwnHolds ==
    ASSUME Inductive, NEW t \in Tries, AbortOwn(t)
    PROVE  Inductive'
<1>1. /\ pc[t] = "abort" /\ Goto(t, "delete")
      /\ UNCHANGED <<records, row, published, id, at, detached>>
  BY DEF AbortOwn
<1>2. CASE CloseSession(t) /\ UNCHANGED careless
  BY <1>1, <1>2, CloseHolds
<1>4. id[t] \in Tries
  BY <1>1, Holders DEF Inductive, Named
<1>3. CASE UNCHANGED provider /\ Forget(t)
  BY <1>1, <1>3, <1>4, Quiet
     DEF Forget, Inductive, TypeOK, Running, Ended, Past, Finishing, Working, Holding
<1> QED BY <1>2, <1>3 DEF AbortOwn

-----------------------------------------------------------------------------
(* The completion. *)

\* An upload that still takes parts has none of them put together.
LEMMA OpenUpload ==
    ASSUME Inductive, upload[reserved] \notin Closing
    PROVE  /\ \A s \in Tries :
                pc[s] \notin Finishing /\ call[s] # "complete" /\ s \notin published
           /\ object = {}
           /\ \A s \in Tries : session[s] # "done"
<1>1. \A s \in Tries : pc[s] \notin Finishing /\ call[s] # "complete" /\ s \notin published
  BY DEF Inductive, Receipt, Frozen
<1>2. \A v \in object : v \in Tries /\ upload[v] # "none" /\ upload[v] \in Closing
  BY DEF Inductive, Frozen, TypeOK, Closing
<1> QED BY <1>1, <1>2 DEF Inductive, Receipt, Frozen

\* One transaction takes the record of the completion and the row.
LEMMA PrepareCompletionHolds ==
    ASSUME Inductive, NEW t \in Tries, PrepareCompletion(t)
    PROVE  Inductive'
<1> USE DEF Inductive
<1>1. /\ pc[t] = "prepare" /\ record["complete"] \in {"none", "in_progress"}
      /\ upload[id[t]] \in Uploadable \cup {"completing"} /\ etag[id[t]] = Tagged(t)
      /\ record' = [record EXCEPT !["complete"] = "in_progress"]
      /\ leased' = leased \cup {"complete"}
      /\ upload' = [upload EXCEPT ![id[t]] = "completing"]
      /\ call' = [call EXCEPT ![t] = "complete"] /\ pc' = [pc EXCEPT ![t] = "assemble"]
      /\ UNCHANGED <<reserved, opened, etag, overdue, job, session, chunk, object, assembled>>
      /\ UNCHANGED <<published, id, at, detached, careless>>
  BY DEF PrepareCompletion, Goto
<1>2. id[t] = reserved /\ reserved \in Tries /\ record["initiate"] = "completed"
  BY <1>1 DEF Receipt, TypeOK, Past
<1>3. /\ record'["complete"] = "in_progress" /\ record'["initiate"] = record["initiate"]
      /\ pc'[t] = "assemble" /\ \A s \in Tries \ {t} : pc'[s] = pc[s]
      /\ call'[t] = "complete" /\ \A s \in Tries \ {t} : call'[s] = call[s]
      /\ upload'[reserved] = "completing" /\ \A v \in Tries \ {reserved} : upload'[v] = upload[v]
  BY <1>1, <1>2 DEF TypeOK, Operations
<1>4. published = {}
  BY <1>1 DEF Recorded
<1>5. TypeOK'
  <2>1. /\ record' \in [Operations -> {"none", "in_progress", "completed"}]
        /\ leased' \subseteq {op \in Operations : record'[op] = "in_progress"}
    BY <1>1 DEF TypeOK, Operations
  <2>2. /\ upload' \in [Tries -> Uploadable \cup {"none", "completing", "completed", "expired"}]
        /\ call' \in [Tries -> {"none", "part", "complete"}]
        /\ pc' \in [Tries -> {"new"} \cup Running \cup Ended]
    BY <1>1 DEF TypeOK, Running
  <2>3. job' \subseteq {v \in Tries : upload'[v] = "expired"}
    BY <1>1, <1>2, <1>3 DEF TypeOK, Uploadable
  <2>4. \A v \in Tries : opened'[v] = NoTry <=> upload'[v] = "none"
    BY <1>1, <1>2, <1>3 DEF TypeOK, Uploadable
  <2> QED BY <1>1, <2>1, <2>2, <2>3, <2>4 DEF TypeOK
<1>6. PartTypes'
  BY <1>1 DEF PartTypes
<1>7. Recorded'
  BY <1>1, <1>3, <1>4 DEF Recorded
<1>8. Receipt'
  BY <1>1, <1>2, <1>3 DEF Receipt
<1>9. Named'
  BY <1>1, <1>2, <1>3, Holders DEF Named
<1>10. Frozen'
  <2>1. \A s \in Tries : Tagged(s)' = Tagged(s)
    BY DEF Tagged
  <2>2. \A s \in Tries : pc'[s] \in Finishing \/ call'[s] = "complete" =>
          s = t \/ pc[s] \in Finishing \/ call[s] = "complete"
    BY <1>3
  <2>3. \A s \in Tries : pc'[s] \in Finishing \/ call'[s] = "complete" \/ s \in published =>
          etag[id[s]] = Tagged(s) /\ upload'[id[s]] \in Closing
    <3>1. ASSUME NEW s \in Tries, s # t, pc[s] \in Finishing \/ call[s] = "complete"
          PROVE  etag[id[s]] = Tagged(s) /\ upload'[id[s]] \in Closing
      BY <1>3, <3>1 DEF Receipt, Frozen, Closing
    <3> QED BY <1>1, <1>2, <1>3, <1>4, <2>2, <3>1 DEF Closing
  <2>4. \A s \in Tries : pc'[s] \in {"commit", "reply"} => assembled[id[s]] = etag[id[s]]
    BY <1>3 DEF Frozen
  <2>5. \A u \in object : assembled[u] = etag[u] /\ upload'[u] \in Closing
    BY <1>2, <1>3 DEF Frozen, TypeOK, Closing
  <2>6. \A s \in Tries : session[s] = "done" =>
          record'["initiate"] = "completed" /\ s = opened[reserved] /\ upload'[reserved] \in Closing
    BY <1>3 DEF Frozen, Closing
  <2> QED BY <1>1, <1>4, <2>1, <2>3, <2>4, <2>5, <2>6 DEF Frozen
<1>11. Stray'
  <2>1. \A u \in Tries : upload'[u] = "expired" => upload[u] = "expired"
    BY <1>3
  <2>2. careless' \subseteq Tries
    BY <1>1 DEF TypeOK
  <2> QED BY <1>1, <1>3, <2>1, <2>2, StrayKept DEF Working
<1> QED BY <1>5, <1>6, <1>7, <1>8, <1>9, <1>10, <1>11

\* The provider puts the parts together, or has nothing to put together.
LEMMA AssembleHolds ==
    ASSUME Inductive, NEW t \in Tries, Assemble(t)
    PROVE  Inductive'
<1> USE DEF Inductive
<1> DEFINE s == opened[reserved]
<1>1. /\ call[t] = "complete" /\ call' = [call EXCEPT ![t] = "none"]
      /\ UNCHANGED <<record, leased, reserved, upload, opened, etag, overdue, job>>
      /\ UNCHANGED <<chunk, published, pc, id, at, detached, careless>>
  BY DEF Assemble, records, row, try
<1>2. /\ id[t] = reserved /\ reserved \in Tries /\ record["initiate"] = "completed"
      /\ etag[reserved] = Tagged(t) /\ upload[reserved] \in Closing /\ s \in Tries
  BY <1>1 DEF Receipt, TypeOK, Frozen, Closing
<1>3. \/ /\ session[s] = "open" /\ chunk[s] = Tagged(t)
         /\ session' = [session EXCEPT ![s] = "done"]
         /\ object' = object \cup {reserved}
         /\ assembled' = [assembled EXCEPT ![reserved] = chunk[s]]
      \/ UNCHANGED <<session, object, assembled>>
  BY <1>2 DEF Assemble
<1>4. /\ call' \in [Tries -> {"none", "part", "complete"}]
      /\ call'[t] = "none" /\ \A r \in Tries \ {t} : call'[r] = call[r]
  BY <1>1 DEF TypeOK
<1>5. /\ session' \in [Tries -> {"none", "open", "aborted", "done"}]
      /\ object' \subseteq Tries
      /\ assembled' \in [Tries -> [Part -> Values]]
  <2> DEFINE held == chunk[s]
  <2>1. held \in [Part -> Values] /\ assembled \in [Tries -> [Part -> Values]]
    BY <1>2 DEF PartTypes
  <2>2. assembled' = [assembled EXCEPT ![reserved] = held] \/ assembled' = assembled
    BY <1>3
  <2> HIDE DEF held
  <2>3. assembled' \in [Tries -> [Part -> Values]]
    BY <2>1, <2>2
  <2>4. session' \in [Tries -> {"none", "open", "aborted", "done"}]
    BY <1>3 DEF TypeOK
  <2>5. object' \subseteq Tries
    BY <1>2, <1>3 DEF TypeOK
  <2> QED BY <2>3, <2>4, <2>5
<1>6. /\ \A r \in Tries : session'[r] = "done" => r = s \/ session[r] = "done"
      /\ object' \subseteq object \cup {reserved}
      /\ \A u \in Tries : assembled'[u] = assembled[u] \/ (u = reserved /\ assembled'[u] = etag[u])
      /\ reserved \in object' => reserved \in object \/ assembled'[reserved] = etag[reserved]
  BY <1>2, <1>3 DEF TypeOK, PartTypes
<1>7. TypeOK'
  BY <1>1, <1>4, <1>5 DEF TypeOK
<1>8. PartTypes'
  BY <1>1, <1>5 DEF PartTypes
<1>9. Recorded'
  BY <1>1 DEF Recorded
<1>10. Receipt'
  BY <1>1, <1>4 DEF Receipt
<1>11. Named'
  BY <1>1 DEF Named
<1>12. Frozen'
  <2>1. \A r \in Tries : Tagged(r)' = Tagged(r)
    BY DEF Tagged
  <2>2. \A r \in Tries : pc[r] \in Finishing \/ call'[r] = "complete" \/ r \in published =>
          etag[id[r]] = Tagged(r) /\ upload[id[r]] \in Closing
    BY <1>4 DEF Frozen
  <2>3. \A u \in object' : assembled'[u] = etag[u] /\ upload[u] \in Closing
    <3>1. ASSUME NEW u \in object'
          PROVE  assembled'[u] = etag[u] /\ upload[u] \in Closing
      <4>1. u \in Tries /\ (assembled'[u] = assembled[u] \/ assembled'[u] = etag[u])
        BY <1>5, <1>6
      <4>2. CASE u \in object
        BY <4>1, <4>2 DEF Frozen
      <4>3. CASE u \notin object
        BY <1>2, <1>6, <4>3
      <4> QED BY <4>2, <4>3
    <3> QED BY <3>1
  <2>4. \A r \in Tries : pc[r] \in {"commit", "reply"} \/ r \in published => assembled'[id[r]] = etag[id[r]]
    <3>1. ASSUME NEW r \in Tries, pc[r] \in {"commit", "reply"} \/ r \in published
          PROVE  assembled'[id[r]] = etag[id[r]]
      <4>1. id[r] = reserved
        BY <3>1 DEF Receipt, Finishing
      <4>2. assembled[id[r]] = etag[id[r]]
        BY <3>1 DEF Frozen
      <4> QED BY <1>2, <1>6, <4>1, <4>2
    <3> QED BY <3>1
  <2>5. \A r \in Tries : session'[r] = "done" =>
          record["initiate"] = "completed" /\ r = s /\ upload[reserved] \in Closing
    BY <1>2, <1>6 DEF Frozen
  <2> QED BY <1>1, <2>1, <2>2, <2>3, <2>4, <2>5 DEF Frozen
<1>13. Stray'
  <2>1. careless' \subseteq Tries
    BY <1>1 DEF TypeOK
  <2> QED BY <1>1, <1>4, <2>1, StrayKept
<1> QED BY <1>7, <1>8, <1>9, <1>10, <1>11, <1>12, <1>13

\* A version is published.
LEMMA CommitCompletionHolds ==
    ASSUME Inductive, NEW t \in Tries, CommitCompletion(t)
    PROVE  Inductive'
<1> USE DEF Inductive
<1>1. /\ pc[t] = "commit" /\ upload[id[t]] = "completing" /\ record["complete"] = "in_progress"
      /\ published' = published \cup {t}
      /\ upload' = [upload EXCEPT ![id[t]] = "completed"]
      /\ record' = [record EXCEPT !["complete"] = "completed"]
      /\ leased' = leased \ {"complete"} /\ pc' = [pc EXCEPT ![t] = "reply"]
      /\ UNCHANGED <<reserved, opened, etag, overdue, job>>
      /\ UNCHANGED <<session, chunk, object, assembled, call, id, at, detached, careless>>
  BY DEF CommitCompletion, Goto, provider
<1>2. id[t] = reserved /\ reserved \in Tries /\ record["initiate"] = "completed"
  BY <1>1 DEF Receipt, TypeOK, Finishing
<1>3. /\ record'["complete"] = "completed" /\ record'["initiate"] = record["initiate"]
      /\ pc'[t] = "reply" /\ \A s \in Tries \ {t} : pc'[s] = pc[s]
      /\ upload'[reserved] = "completed" /\ \A v \in Tries \ {reserved} : upload'[v] = upload[v]
  BY <1>1, <1>2 DEF TypeOK, Operations
<1>4. TypeOK'
  <2>1. /\ record' \in [Operations -> {"none", "in_progress", "completed"}]
        /\ leased' \subseteq {op \in Operations : record'[op] = "in_progress"}
    BY <1>1 DEF TypeOK, Operations
  <2>2. /\ upload' \in [Tries -> Uploadable \cup {"none", "completing", "completed", "expired"}]
        /\ pc' \in [Tries -> {"new"} \cup Running \cup Ended]
    BY <1>1 DEF TypeOK, Running
  <2>3. job' \subseteq {v \in Tries : upload'[v] = "expired"}
    BY <1>1, <1>2, <1>3 DEF TypeOK
  <2>4. \A v \in Tries : opened'[v] = NoTry <=> upload'[v] = "none"
    BY <1>1, <1>2, <1>3 DEF TypeOK
  <2> QED BY <1>1, <2>1, <2>2, <2>3, <2>4 DEF TypeOK
<1>5. PartTypes'
  BY <1>1 DEF PartTypes
<1>6. Recorded'
  BY <1>1, <1>3 DEF Recorded
<1>7. Receipt'
  BY <1>1, <1>2, <1>3 DEF Receipt
<1>8. Named'
  BY <1>1, <1>2, <1>3, Holders DEF Named
<1>9. Frozen'
  <2>1. \A r \in Tries : Tagged(r)' = Tagged(r)
    BY DEF Tagged
  <2>2. \A r \in Tries : pc'[r] \in Finishing \/ call[r] = "complete" \/ r \in published' =>
          pc[r] \in Finishing \/ call[r] = "complete" \/ r \in published
    BY <1>1, <1>3 DEF Finishing
  <2>3. \A r \in Tries : pc'[r] \in Finishing \/ call[r] = "complete" \/ r \in published' =>
          etag[id[r]] = Tagged(r) /\ upload'[id[r]] \in Closing
    <3>1. ASSUME NEW r \in Tries, pc[r] \in Finishing \/ call[r] = "complete" \/ r \in published
          PROVE  etag[id[r]] = Tagged(r) /\ upload'[id[r]] \in Closing
      <4>1. id[r] = reserved
        BY <3>1 DEF Receipt
      <4> QED BY <1>3, <3>1, <4>1 DEF Frozen, Closing
    <3> QED BY <2>2, <3>1
  <2>4. \A u \in object : assembled[u] = etag[u] /\ upload'[u] \in Closing
    BY <1>3 DEF Frozen, TypeOK, Closing
  <2>5. \A r \in Tries : pc'[r] \in {"commit", "reply"} \/ r \in published' =>
          assembled[id[r]] = etag[id[r]]
    BY <1>1, <1>3 DEF Frozen
  <2>6. \A r \in Tries : session[r] = "done" =>
          record'["initiate"] = "completed" /\ r = opened[reserved] /\ upload'[reserved] \in Closing
    BY <1>3 DEF Frozen, Closing
  <2> QED BY <1>1, <2>1, <2>3, <2>4, <2>5, <2>6 DEF Frozen
<1>10. Stray'
  <2>1. careless' \subseteq Tries
    BY <1>1 DEF TypeOK
  <2>2. \A u \in Tries : upload'[u] = "expired" => upload[u] = "expired"
    BY <1>3
  <2> QED BY <1>1, <1>3, <2>1, <2>2, StrayKept DEF Working
<1> QED BY <1>4, <1>5, <1>6, <1>7, <1>8, <1>9, <1>10

-----------------------------------------------------------------------------
(* Compensation. *)

\* An object is deleted, or the call fails.
LEMMA DeleteObjectHolds ==
    ASSUME Inductive, NEW t \in Tries, DeleteObject(t)
    PROVE  Inductive'
<1> USE DEF Inductive
<1>1. PICK to \in {"release", "failed"} :
        /\ pc[t] \in {"delete", "withdraw"} /\ pc' = [pc EXCEPT ![t] = to]
        /\ to = "release" => pc[t] = "delete"
  BY DEF DeleteObject, Goto
<1>2. /\ object' \subseteq object /\ careless' \in {careless, careless \cup {t}}
      /\ UNCHANGED <<record, leased, reserved, upload, opened, etag, overdue, job>>
      /\ UNCHANGED <<session, chunk, assembled, call, published, id, at, detached>>
  BY DEF DeleteObject, Forget, records, row
<1>3. /\ pc'[t] = to /\ \A r \in Tries \ {t} : pc'[r] = pc[r]
      /\ pc' \in [Tries -> {"new"} \cup Running \cup Ended]
  BY <1>1 DEF TypeOK, Running, Ended
<1>4. TypeOK'
  BY <1>2, <1>3 DEF TypeOK
<1>5. PartTypes'
  BY <1>2 DEF PartTypes
<1>6. Recorded'
  BY <1>2, <1>3 DEF Recorded
<1>7. Receipt'
  BY <1>2, <1>3 DEF Receipt, Past, Finishing
<1>8. Named'
  BY <1>1, <1>2, <1>3, Holders DEF Named
<1>9. Frozen'
  <2>1. \A r \in Tries :
          /\ pc'[r] \in Finishing => pc[r] \in Finishing
          /\ pc'[r] \in {"commit", "reply"} => pc[r] \in {"commit", "reply"}
    BY <1>3 DEF Finishing
  <2>2. \A r \in Tries : Tagged(r)' = Tagged(r)
    BY DEF Tagged
  <2> QED BY <1>2, <2>1, <2>2 DEF Frozen
<1>10. Stray'
  <2>1. careless' \subseteq Tries
    BY <1>2 DEF TypeOK
  <2>2. \A r \in Tries : pc'[r] = "new" => pc[r] = "new" /\ (r \in careless' => r \in careless)
    BY <1>2, <1>3
  <2> QED BY <1>1, <1>2, <1>3, <2>1, <2>2, StrayKept DEF Working
<1> QED BY <1>4, <1>5, <1>6, <1>7, <1>8, <1>9, <1>10

\* The record of an initiation that failed goes, by a try that gives up or
\* because its time has passed.
LEMMA ForgottenHolds ==
    ASSUME Inductive, record["initiate"] = "in_progress",
           record' = [record EXCEPT !["initiate"] = "none"], reserved' = NoTry,
           leased' = leased \ {"initiate"},
           \A s \in Tries : pc'[s] = pc[s] \/ (pc[s] = "release" /\ pc'[s] = "failed"),
           pc' \in [Tries -> {"new"} \cup Running \cup Ended],
           UNCHANGED <<row, provider, published, id, at, detached, careless>>
    PROVE  Inductive'
<1> USE DEF Inductive
<1>1. /\ UNCHANGED <<upload, opened, etag, overdue, job>>
      /\ UNCHANGED <<session, chunk, object, assembled, call, published, id, at, detached, careless>>
  BY DEF row, provider
<1>2. record'["initiate"] = "none" /\ record'["complete"] = record["complete"]
  BY DEF TypeOK, Operations
<1>3. /\ \A s \in Tries :
           pc[s] \notin Past \cup Finishing /\ call[s] = "none" /\ s \notin published
      /\ \A u \in Tries : upload[u] = "none"
      /\ \A s \in Tries : session[s] # "done"
  BY DEF Receipt, Frozen
<1>4. TypeOK'
  <2>1. /\ record' \in [Operations -> {"none", "in_progress", "completed"}]
        /\ leased' \subseteq {op \in Operations : record'[op] = "in_progress"}
    BY DEF TypeOK, Operations
  <2> QED BY <1>1, <2>1 DEF TypeOK
<1>5. PartTypes'
  BY <1>1 DEF PartTypes
<1>6. Recorded'
  BY <1>1, <1>2 DEF Recorded
<1>7. \A s \in Tries : pc'[s] \notin Past \cup Finishing
  BY <1>3 DEF Past, Finishing
<1>8. Receipt'
  BY <1>1, <1>2, <1>3, <1>7 DEF Receipt
<1>9. Named'
  BY <1>1, Holders DEF Named
<1>10. Frozen'
  <2>1. object = {}
    <3>1. \A u \in object : u \in Tries /\ upload[u] \in Closing
      BY DEF TypeOK, Frozen
    <3> QED BY <1>3, <3>1 DEF Closing
  <2> QED BY <1>1, <1>3, <1>7, <2>1 DEF Frozen, Finishing
<1>11. Stray'
  <2>1. \A s \in careless : pc'[s] # "new"
    BY DEF Stray, TypeOK
  <2> QED BY <1>1, <1>3, <2>1 DEF Stray
<1> QED BY <1>4, <1>5, <1>6, <1>8, <1>9, <1>10, <1>11

\* A try releases the record it finds in progress, or finds none.
LEMMA ReleaseHolds ==
    ASSUME Inductive, NEW t \in Tries, Release(t)
    PROVE  Inductive'
<1>1. /\ pc[t] = "release" /\ pc' = [pc EXCEPT ![t] = "failed"]
      /\ UNCHANGED <<row, provider, published, id, at, detached, careless>>
  BY DEF Release, Goto
<1>2. /\ pc' \in [Tries -> {"new"} \cup Running \cup Ended]
      /\ pc'[t] = "failed" /\ \A s \in Tries \ {t} : pc'[s] = pc[s]
  BY <1>1 DEF Inductive, TypeOK, Ended
<1>3. CASE record["initiate"] = "in_progress"
  <2>1. /\ record' = [record EXCEPT !["initiate"] = "none"] /\ reserved' = NoTry
        /\ leased' = leased \ {"initiate"}
    BY <1>3 DEF Release
  <2> QED BY <1>1, <1>2, <1>3, <2>1, ForgottenHolds
<1>4. CASE record["initiate"] # "in_progress"
  <2>1. UNCHANGED records /\ Goto(t, "failed")
    BY <1>4 DEF Release
  <2>2. detached \subseteq Tries /\ (call[t] = "part" => t \in careless)
    BY <1>1 DEF Inductive, TypeOK, Stray
  <2> QED BY <1>1, <2>1, <2>2, Quiet
          DEF Inductive, Running, Ended, Past, Finishing, Working, Holding
<1> QED BY <1>3, <1>4

\* Maintenance drops a record whose lease ran out.
LEMMA ExpireRecordHolds ==
    ASSUME Inductive, ExpireRecord
    PROVE  Inductive'
<1>1. leased' = leased \ {"initiate"} /\ UNCHANGED <<pc, id, at, detached, careless>>
  BY DEF ExpireRecord, try
<1>2. pc' \in [Tries -> {"new"} \cup Running \cup Ended]
  BY <1>1 DEF Inductive, TypeOK
<1> QED BY <1>1, <1>2, ForgottenHolds DEF ExpireRecord

-----------------------------------------------------------------------------
(* Time and the worker. *)

\* A lease may end while tries hold its record.
LEMMA LeaseExpiresHolds ==
    ASSUME Inductive, NEW op \in Operations, LeaseExpires(op)
    PROVE  Inductive'
<1> USE DEF Inductive
<1>1. /\ leased' = leased \ {op}
      /\ UNCHANGED <<record, reserved, upload, opened, etag, overdue, job>>
      /\ UNCHANGED <<session, chunk, object, assembled, call, published>>
      /\ UNCHANGED <<pc, id, at, detached, careless>>
  BY DEF LeaseExpires, row, provider, try
<1>2. TypeOK'
  BY <1>1 DEF TypeOK
<1>3. PartTypes'
  BY <1>1 DEF PartTypes
<1>4. Recorded'
  BY <1>1 DEF Recorded
<1>5. Receipt'
  BY <1>1 DEF Receipt
<1>6. Named'
  BY <1>1 DEF Named
<1>7. Frozen'
  BY <1>1 DEF Frozen, Tagged
<1>8. Stray'
  BY <1>1 DEF Stray
<1> QED BY <1>2, <1>3, <1>4, <1>5, <1>6, <1>7, <1>8

\* Maintenance gives up an upload that is overdue and still takes parts.
LEMMA ScheduleAbortHolds ==
    ASSUME Inductive, NEW u \in Tries, ScheduleAbort(u)
    PROVE  Inductive'
<1> USE DEF Inductive
<1>1. /\ upload[u] \in Uploadable /\ upload' = [upload EXCEPT ![u] = "expired"]
      /\ job' = job \cup {u}
      /\ UNCHANGED <<record, leased, reserved, opened, etag, overdue>>
      /\ UNCHANGED <<session, chunk, object, assembled, call, published>>
      /\ UNCHANGED <<pc, id, at, detached, careless>>
  BY DEF ScheduleAbort, records, provider, try
<1>2. /\ upload'[u] = "expired" /\ \A v \in Tries \ {u} : upload'[v] = upload[v]
      /\ upload' \in [Tries -> Uploadable \cup {"none", "completing", "completed", "expired"}]
  BY <1>1 DEF TypeOK
<1>3. u = reserved /\ record["initiate"] = "completed" /\ upload[reserved] \notin Closing
  BY <1>1 DEF Receipt, Uploadable, Closing
<1>4. TypeOK'
  <2>1. job' \subseteq {v \in Tries : upload'[v] = "expired"}
    BY <1>1, <1>2 DEF TypeOK
  <2>2. \A v \in Tries : opened[v] = NoTry <=> upload'[v] = "none"
    BY <1>1, <1>2 DEF TypeOK, Uploadable
  <2> QED BY <1>1, <1>2, <2>1, <2>2 DEF TypeOK
<1>5. PartTypes'
  BY <1>1 DEF PartTypes
<1>6. Recorded'
  BY <1>1 DEF Recorded
<1>7. Receipt'
  BY <1>1, <1>2, <1>3 DEF Receipt
<1>8. Named'
  BY <1>1 DEF Named
<1>9. Frozen'
  <2>1. /\ \A s \in Tries :
             pc[s] \notin Finishing /\ call[s] # "complete" /\ s \notin published
        /\ object = {} /\ \A s \in Tries : session[s] # "done"
    BY <1>3, OpenUpload
  <2> QED BY <1>1, <2>1 DEF Frozen, Finishing
<1>10. Stray'
  <2>1. \A v \in Tries : upload'[v] = "expired" => v \in job'
    BY <1>1, <1>2, <1>3 DEF Receipt
  <2> QED BY <1>1, <2>1 DEF Stray
<1> QED BY <1>4, <1>5, <1>6, <1>7, <1>8, <1>9, <1>10

\* The worker aborts the session of an upload that was given up.
LEMMA RunAbortHolds ==
    ASSUME Inductive, NEW u \in Tries, RunAbort(u)
    PROVE  Inductive'
<1> USE DEF Inductive
<1> DEFINE s == opened[u]
<1>1. /\ u \in job /\ job' = job \ {u} /\ CloseSession(s)
      /\ UNCHANGED <<record, leased, reserved, upload, opened, etag, overdue>>
      /\ UNCHANGED <<published, pc, id, at, detached, careless>>
  BY DEF RunAbort, records, try
<1>2. u = reserved /\ upload[u] = "expired" /\ s \in Tries
  BY <1>1 DEF TypeOK, Receipt
<1>3. session[s] # "done"
  BY <1>2 DEF Frozen, Closing
<1>4. /\ session' \in [Tries -> {"none", "open", "aborted", "done"}]
      /\ chunk' \in [Tries -> [Part -> Values]]
      /\ \A r \in Tries : session'[r] = "done" => session[r] = "done"
      /\ chunk'[s] = NoParts
      /\ UNCHANGED <<object, assembled, call>>
  BY <1>1, <1>2, <1>3, Closes
<1>5. TypeOK'
  BY <1>1, <1>4 DEF TypeOK
<1>6. PartTypes'
  BY <1>1, <1>4 DEF PartTypes
<1>7. Recorded'
  BY <1>1 DEF Recorded
<1>8. Receipt'
  BY <1>1, <1>4 DEF Receipt
<1>9. Named'
  BY <1>1 DEF Named
<1>10. Frozen'
  <2>1. \A r \in Tries : Tagged(r)' = Tagged(r)
    BY DEF Tagged
  <2> QED BY <1>1, <1>4, <2>1 DEF Frozen
<1>11. Stray'
  <2>1. \A v \in Tries : upload'[v] = "expired" => v = u
    BY <1>1, <1>2 DEF Receipt
  <2> QED BY <1>1, <1>4, <2>1 DEF Stray
<1> QED BY <1>5, <1>6, <1>7, <1>8, <1>9, <1>10, <1>11

\* Time passes for an upload.
LEMMA OverdueHolds ==
    ASSUME Inductive, NEW u \in Tries, Overdue(u)
    PROVE  Inductive'
<1> USE DEF Inductive
<1>1. /\ overdue' = overdue \cup {u}
      /\ UNCHANGED <<record, leased, reserved, upload, opened, etag, job>>
      /\ UNCHANGED <<session, chunk, object, assembled, call, published>>
      /\ UNCHANGED <<pc, id, at, detached, careless>>
  BY DEF Overdue, records, provider, try
<1>2. TypeOK'
  BY <1>1 DEF TypeOK
<1>3. PartTypes' /\ Recorded' /\ Receipt' /\ Named'
  BY <1>1 DEF PartTypes, Recorded, Receipt, Named
<1>4. Frozen' /\ Stray'
  BY <1>1 DEF Frozen, Tagged, Stray
<1> QED BY <1>2, <1>3, <1>4

-----------------------------------------------------------------------------
(* The invariant. *)

\* The initial states satisfy the invariant.
LEMMA InitInductive == Init => Inductive
<1> SUFFICES ASSUME Init PROVE Inductive
  OBVIOUS
<1>1. 1 \in Part /\ NoParts \in [Part -> Values]
  BY DEF NoParts, Values
<1>2. TypeOK
  BY <1>1 DEF Init, TypeOK, Operations
<1>3. PartTypes
  BY <1>1 DEF Init, PartTypes
<1>4. Recorded /\ Receipt
  BY DEF Init, Recorded, Receipt, Operations, Past, Finishing
<1>5. Named /\ Frozen /\ Stray
  BY DEF Init, Named, Frozen, Stray, Holding, Finishing, Operations
<1> QED BY <1>2, <1>3, <1>4, <1>5 DEF Inductive

\* Every step of the tries, of the clocks and of the worker keeps it.
LEMMA NextInductive ==
    ASSUME Inductive, [Next]_vars
    PROVE  Inductive'
<1>1. ASSUME NEW t \in Tries, Initiation(t) PROVE Inductive'
  <2>1. CASE PrepareInitiation(t)
    BY <2>1, PrepareInitiationHolds
  <2>2. CASE ReplayInitiation(t)
    BY <2>2, ReplayInitiationHolds
  <2>3. CASE OpenSession(t) \/ OpenFails(t)
    BY <2>3, OpenHolds
  <2>4. CASE CommitInitiation(t)
    BY <2>4, InsertHolds
  <2>5. CASE \/ RefuseInitiation(t) \/ InitiationAnswered(t) \/ LoseInitiation(t)
             \/ InsertFails(t)
    BY <2>5, QuietStepHolds DEF QuietStep
  <2> QED BY <1>1, <2>1, <2>2, <2>3, <2>4, <2>5 DEF Initiation
<1>2. ASSUME NEW t \in Tries, Transfer(t) PROVE Inductive'
  <2>1. CASE Authorize(t)
    BY <2>1, AuthorizeHolds
  <2>2. CASE StorePart(t)
    BY <2>2, StorePartHolds
  <2>3. CASE RecordPart(t)
    BY <2>3, RecordPartHolds
  <2>4. CASE AbortAgain(t)
    BY <2>4, CloseHolds DEF AbortAgain
  <2>5. CASE PartSent(t) \/ PartFails(t) \/ RecordFails(t) \/ AbortAgainFails(t)
    BY <2>5, QuietStepHolds DEF QuietStep
  <2> QED BY <1>2, <2>1, <2>2, <2>3, <2>4, <2>5 DEF Transfer
<1>3. ASSUME NEW t \in Tries, Completion(t) PROVE Inductive'
  <2>1. CASE PrepareCompletion(t)
    BY <2>1, PrepareCompletionHolds
  <2>2. CASE Assemble(t)
    BY <2>2, AssembleHolds
  <2>3. CASE CommitCompletion(t)
    BY <2>3, CommitCompletionHolds
  <2>4. CASE \/ ReplayCompletion(t) \/ CompletionRefused(t) \/ Assembled(t) \/ AssembleFails(t)
             \/ Reconcile(t) \/ Reply(t) \/ CommitFails(t)
    BY <2>4, QuietStepHolds DEF QuietStep
  <2> QED BY <1>3, <2>1, <2>2, <2>3, <2>4 DEF Completion
<1>4. ASSUME NEW t \in Tries, Compensation(t) PROVE Inductive'
  <2>1. CASE AbortOwn(t)
    BY <2>1, AbortOwnHolds
  <2>2. CASE DeleteObject(t)
    BY <2>2, DeleteObjectHolds
  <2>3. CASE Release(t)
    BY <2>3, ReleaseHolds
  <2>4. CASE ReleaseFails(t) \/ Cancel(t) \/ Crash(t)
    BY <2>4, QuietStepHolds DEF QuietStep
  <2> QED BY <1>4, <2>1, <2>2, <2>3, <2>4 DEF Compensation
<1>5. ASSUME NEW op \in Operations, LeaseExpires(op) PROVE Inductive'
  BY <1>5, LeaseExpiresHolds
<1>6. CASE ExpireRecord
  BY <1>6, ExpireRecordHolds
<1>7. ASSUME NEW u \in Tries, Overdue(u) \/ ScheduleAbort(u) \/ RunAbort(u) PROVE Inductive'
  BY <1>7, OverdueHolds, ScheduleAbortHolds, RunAbortHolds
<1>8. CASE UNCHANGED vars
  <2>1. /\ UNCHANGED <<record, leased, reserved, upload, opened, etag, overdue, job>>
        /\ UNCHANGED <<session, chunk, object, assembled, call, published>>
        /\ UNCHANGED <<pc, id, at, detached, careless>>
    BY <1>8 DEF vars, records, row, provider, try
  <2>2. TypeOK' /\ PartTypes' /\ Recorded'
    BY <2>1 DEF Inductive, TypeOK, PartTypes, Recorded
  <2>3. Receipt' /\ Named' /\ Frozen' /\ Stray'
    BY <2>1 DEF Inductive, Receipt, Named, Frozen, Tagged, Stray
  <2> QED BY <2>2, <2>3 DEF Inductive
<1> QED BY <1>1, <1>2, <1>3, <1>4, <1>5, <1>6, <1>7, <1>8 DEF Next

\* Every reachable state satisfies the invariant.
THEOREM InductiveHolds == Spec => []Inductive
<1>1. Inductive /\ [Next]_vars => Inductive'
  BY NextInductive
<1> QED BY <1>1, InitInductive, PTL DEF Spec

\* Records, rows, sessions and tries keep their types, and leases belong to
\* records in progress.
THEOREM TypeCorrect == Spec => []TypeOK
<1>1. Inductive => TypeOK
  BY DEF Inductive
<1> QED BY <1>1, InductiveHolds, PTL

\* A published file is made of the parts that were recorded, and once an upload
\* that was given up has been aborted and its tries have ended, none of its
\* parts are left, not even one that arrived late.
THEOREM PartsAlwaysAccountedFor == Spec => []PartsAccountedFor
<1>1. Inductive => AssembledAsRecorded
  BY DEF Inductive, TypeOK, Frozen, AssembledAsRecorded
<1>2. Inductive => StrayPartsAborted
  <2> SUFFICES ASSUME Inductive, NEW u \in Tries,
                      upload[u] = "expired", u \notin job,
                      \A t \in Tries : id[t] = u => pc[t] \in Ended /\ t \notin careless,
                      chunk[opened[u]] # NoParts
               PROVE  FALSE
    BY DEF StrayPartsAborted
  <2>1. PICK t \in Tries : id[t] = u /\ (t \in careless \/ pc[t] \in Working)
    BY DEF Inductive, Stray
  <2> QED BY <2>1 DEF Working, Ended
<1>3. Inductive => PartsAccountedFor
  BY <1>1, <1>2 DEF PartsAccountedFor
<1> QED BY <1>3, InductiveHolds, PTL

-----------------------------------------------------------------------------
(* What the key of the completion promises. *)

Answers == {op \in {"complete"} : \E t \in Tries : pc[t] = "answered"}

\* What the promise rests on.
Ledger ==
    /\ record \in [Operations -> {"none", "in_progress", "completed"}]
    /\ pc \in [Tries -> {"new"} \cup Running \cup Ended]
    /\ published \subseteq Tries
    /\ Recorded

\* The steps of the initiation and of the parts leave the promise alone.
LEMMA EarlySteps ==
    ASSUME Ledger, NEW t \in Tries, Initiation(t) \/ Transfer(t)
    PROVE  Ledger' /\ UNCHANGED <<published, Answers>>
<1>1. published' = published
  BY DEF Initiation, Transfer, PrepareInitiation, ReplayInitiation, RefuseInitiation, Prepare,
     OpenSession, OpenFails, CommitInitiation, InitiationAnswered, LoseInitiation, Insert, InsertFails, Authorize,
     StorePart, PartSent, PartFails, RecordPart, RecordFails, AbortAgain, AbortAgainFails
<1>2. \E status \in {"none", "in_progress", "completed"} :
        record' = record \/ record' = [record EXCEPT !["initiate"] = status]
  BY DEF Initiation, Transfer, PrepareInitiation, ReplayInitiation, RefuseInitiation,
     OpenSession, OpenFails, CommitInitiation, InitiationAnswered, LoseInitiation, Insert, InsertFails, Authorize,
     StorePart, PartSent, PartFails, RecordPart, RecordFails, AbortAgain, AbortAgainFails, records
<1>3. \E to \in (Running \cup Ended) \ {"reply", "answered"} :
        pc' = pc \/ (pc' = [pc EXCEPT ![t] = to] /\ pc[t] \notin {"reply", "answered"})
  BY SMTT(20) DEF Initiation, Transfer, PrepareInitiation, ReplayInitiation, RefuseInitiation, Prepare,
     OpenSession, OpenFails, CommitInitiation, InitiationAnswered, LoseInitiation, Insert, InsertFails, Authorize,
     StorePart, PartSent, PartFails, RecordPart, RecordFails, AbortAgain, AbortAgainFails,
     Goto, Running, Ended, try
<1>4. /\ record' \in [Operations -> {"none", "in_progress", "completed"}]
      /\ record'["complete"] = record["complete"]
  BY <1>2 DEF Ledger, Operations
<1>5. /\ pc' \in [Tries -> {"new"} \cup Running \cup Ended]
      /\ \A s \in Tries : pc'[s] \in {"reply", "answered"} \/ pc[s] \in {"reply", "answered"} =>
           pc'[s] = pc[s]
  BY <1>3 DEF Ledger
<1>6. Ledger'
  BY <1>1, <1>4, <1>5 DEF Ledger, Recorded
<1>7. Answers' = Answers
  BY <1>5 DEF Answers
<1> QED BY <1>1, <1>6, <1>7

\* A try that ends without success leaves the promise alone, too.
LEMMA LateSteps ==
    ASSUME Ledger, NEW t \in Tries, Completion(t) \/ Compensation(t),
           ~CommitCompletion(t), ~Reply(t), ~ReplayCompletion(t)
    PROVE  Ledger' /\ UNCHANGED <<published, Answers>>
<1>1. published' = published
  BY DEF Completion, Compensation, PrepareCompletion, CompletionRefused, Assemble, Assembled,
     AssembleFails, Reconcile, CommitFails, AbortOwn, DeleteObject, Release, ReleaseFails,
     Cancel, Crash
<1>2. \/ record' = record
      \/ record' = [record EXCEPT !["initiate"] = "none"]
      \/ record["complete"] # "completed" /\ record' = [record EXCEPT !["complete"] = "in_progress"]
  BY DEF Completion, Compensation, PrepareCompletion, CompletionRefused, Assemble, Assembled,
     AssembleFails, Reconcile, CommitFails, AbortOwn, DeleteObject, Release, ReleaseFails,
     Cancel, Crash, records
<1>3. \E to \in (Running \cup Ended) \ {"reply", "answered"} :
        pc' = pc \/ (pc' = [pc EXCEPT ![t] = to] /\ pc[t] # "answered")
  <2>1. Dropped(pc[t]) \in {"abort", "withdraw", "failed"}
    BY DEF Dropped
  <2>2. CASE Cancel(t)
    BY <2>1, <2>2 DEF Cancel, Goto, Running, Ended
  <2>3. CASE ~Cancel(t)
    BY <2>3 DEF Completion, Compensation, PrepareCompletion, CompletionRefused, Assemble,
       Assembled, AssembleFails, Reconcile, CommitFails, AbortOwn, DeleteObject, Release,
       ReleaseFails, Crash, Goto, Running, Ended, try
  <2> QED BY <2>2, <2>3
<1>4. /\ record' \in [Operations -> {"none", "in_progress", "completed"}]
      /\ record'["complete"] = "completed" <=> record["complete"] = "completed"
  BY <1>2 DEF Ledger, Operations
<1>5. /\ pc' \in [Tries -> {"new"} \cup Running \cup Ended]
      /\ \A s \in Tries : pc'[s] = "reply" => pc[s] = "reply"
      /\ \A s \in Tries : pc'[s] = "answered" <=> pc[s] = "answered"
  BY <1>3 DEF Ledger
<1>6. Ledger'
  BY <1>1, <1>4, <1>5 DEF Ledger, Recorded
<1>7. Answers' = Answers
  BY <1>5 DEF Answers
<1> QED BY <1>1, <1>6, <1>7

\* Publishing happens once, and an answer of success follows it.
LEMMA PromiseKept ==
    ASSUME Ledger, [Next]_vars
    PROVE  Ledger' /\ [Once!Next]_<<published, Answers>>
<1>1. ASSUME NEW t \in Tries, CommitCompletion(t) PROVE Ledger' /\ Once!Publish(t)
  <2>1. /\ record["complete"] = "in_progress" /\ published' = published \cup {t}
        /\ record' = [record EXCEPT !["complete"] = "completed"]
        /\ pc' = [pc EXCEPT ![t] = "reply"] /\ pc[t] = "commit"
    BY <1>1 DEF CommitCompletion, Goto
  <2>2. published = {}
    BY <2>1 DEF Ledger, Recorded
  <2>3. Ledger'
    BY <2>1 DEF Ledger, Recorded, Operations, Running
  <2>4. \A s \in Tries : pc'[s] = "answered" <=> pc[s] = "answered"
    BY <2>1 DEF Ledger
  <2>5. Answers' = Answers
    BY <2>4 DEF Answers
  <2> QED BY <2>1, <2>2, <2>3, <2>5 DEF Once!Publish, Answers
<1>2. ASSUME NEW t \in Tries, Reply(t) \/ ReplayCompletion(t)
      PROVE  Ledger' /\ Once!Answer("complete")
  <2>1. /\ pc' = [pc EXCEPT ![t] = "answered"]
        /\ UNCHANGED <<record, published>>
        /\ pc[t] = "reply" \/ record["complete"] = "completed"
    BY <1>2 DEF Reply, ReplayCompletion, Goto, records
  <2>2. published # {} /\ published \subseteq Tries
    BY <2>1 DEF Ledger, Recorded
  <2>3. Ledger'
    BY <2>1, <2>2 DEF Ledger, Recorded, Ended
  <2>4. pc'[t] = "answered"
    BY <2>1 DEF Ledger
  <2>5. Answers' = {"complete"} /\ Answers \subseteq {"complete"}
    BY <2>4 DEF Answers
  <2>6. \E s \in published : [r \in Tries |-> "complete"][s] = "complete"
    BY <2>2
  <2>7. Answers' = Answers \cup {"complete"}
    BY <2>5
  <2> HIDE DEF Answers
  <2> QED BY <2>1, <2>3, <2>6, <2>7 DEF Once!Answer, Answers
<1>3. ASSUME \/ \E op \in Operations : LeaseExpires(op)
             \/ ExpireRecord
             \/ \E u \in Tries : Overdue(u) \/ ScheduleAbort(u) \/ RunAbort(u)
             \/ UNCHANGED vars
      PROVE  Ledger' /\ UNCHANGED <<published, Answers>>
  <2>1. UNCHANGED <<pc, published>>
    BY <1>3 DEF LeaseExpires, ExpireRecord, Overdue, ScheduleAbort, RunAbort, vars, try
  <2>2. record' = record \/ record' = [record EXCEPT !["initiate"] = "none"]
    BY <1>3 DEF LeaseExpires, ExpireRecord, Overdue, ScheduleAbort, RunAbort, vars, records
  <2>3. /\ record' \in [Operations -> {"none", "in_progress", "completed"}]
        /\ record'["complete"] = record["complete"]
    BY <2>2 DEF Ledger, Operations
  <2> QED BY <2>1, <2>3 DEF Ledger, Recorded, Answers
<1>4. ASSUME NEW t \in Tries,
             Initiation(t) \/ Transfer(t) \/ Completion(t) \/ Compensation(t)
      PROVE  Ledger' /\ [Once!Next]_<<published, Answers>>
  <2>1. CASE CommitCompletion(t)
    BY <1>1, <2>1 DEF Once!Next, Answers
  <2>2. CASE Reply(t) \/ ReplayCompletion(t)
    BY <1>2, <2>2 DEF Once!Next, Answers
  <2>3. CASE ~CommitCompletion(t) /\ ~Reply(t) /\ ~ReplayCompletion(t)
    BY <1>4, <2>3, EarlySteps, LateSteps
  <2> QED BY <2>1, <2>2, <2>3
<1> QED BY <1>3, <1>4 DEF Next

\* However long tries run and whatever interrupts them: a key publishes at most
\* once and for good, and success is only reported after it has.
THEOREM OnceImplemented == Spec => OnceSpec
<1>1. Init => Ledger
  BY DEF Init, Ledger, Recorded, Operations
<1>2. Init => Once!Init
  BY DEF Init, Once!Init
<1>3. Ledger /\ [Next]_vars => Ledger' /\ [Once!Next]_<<published, Answers>>
  BY PromiseKept
<1> QED BY <1>1, <1>2, <1>3, PTL DEF Spec, OnceSpec, Once!Spec, Answers

-----------------------------------------------------------------------------
(* Published content stays until a try is mistaken. *)

\* The tries that are mistaken only become more, and keep the upload they work on.
LEMMA StaysDisturbed ==
    ASSUME mistaken \subseteq mistaken', \A s \in mistaken : id'[s] = id[s], NEW u
    PROVE  Undisturbed(u)' => Undisturbed(u)
  BY DEF Undisturbed

\* A step that lets no try begin an initiation, inserts no row and ends no lease.
LEMMA HeldQuiet ==
    ASSUME Held, mistaken \subseteq mistaken', mistaken' \subseteq Tries, id' = id,
           \A t \in mistaken' : pc'[t] # "new",
           \A t \in Tries : pc'[t] \in Holding("initiate") /\ t \notin mistaken' =>
                              pc[t] \in Holding("initiate"),
           \A t \in Tries : upload[t] = "none" => upload'[t] = "none",
           \A t \in Tries : id[t] \in Tries \/ pc[t] \notin Holding("initiate"),
           record'["initiate"] = "in_progress" =>
             record["initiate"] = "in_progress" /\ reserved' = reserved,
           "initiate" \in leased => "initiate" \in leased' \/ record'["initiate"] # "in_progress"
    PROVE  Held'
<1>1. \A t \in Tries : pc'[t] \in Holding("initiate") /\ Undisturbed(id[t])' =>
        pc[t] \in Holding("initiate") /\ Undisturbed(id[t])
  BY DEF Undisturbed
<1>2. ASSUME NEW t \in Tries, pc'[t] \in Holding("initiate"), Undisturbed(id[t])'
      PROVE  /\ upload'[id[t]] = "none"
             /\ record'["initiate"] = "in_progress" /\ reserved' = id[t] => "initiate" \in leased'
             /\ \A s \in Tries : pc'[s] \in Holding("initiate") /\ id[s] = id[t] => s = t
  <2>1. pc[t] \in Holding("initiate") /\ Undisturbed(id[t]) /\ id[t] \in Tries
    BY <1>1, <1>2
  <2>2. \A s \in Tries : pc'[s] \in Holding("initiate") /\ id[s] = id[t] =>
          pc[s] \in Holding("initiate")
    BY <1>1, <1>2
  <2> QED BY <2>1, <2>2 DEF Held
<1>3. \A u : Undisturbed(u)' <=> \A s \in mistaken' : id[s] # u
  BY DEF Undisturbed
<1> QED BY <1>2, <1>3, Holders DEF Held, Undisturbed

\* A step that brings no try to a completion, and takes no object or lease.
LEMMA KeptQuiet ==
    ASSUME Kept, published' = published, published \subseteq Tries, object \subseteq object',
           mistaken \subseteq mistaken', \A s \in mistaken : id'[s] = id[s],
           record'["complete"] = record["complete"], "complete" \in leased => "complete" \in leased',
           \A t \in Tries : pc'[t] \in Concluding => id'[t] = id[t],
           \A t \in Tries : pc'[t] \in Concluding /\ t \notin mistaken' => pc[t] \in Concluding,
           \A t \in Tries : pc'[t] = "commit" => pc[t] = "commit" \/ id[t] \in object,
           \A t \in published : id'[t] = id[t]
    PROVE  Kept'
<1>1. ASSUME NEW t \in Tries, pc'[t] \in Concluding, Undisturbed(id[t])'
      PROVE  /\ record'["complete"] = "in_progress"
             /\ "complete" \in leased'
             /\ \A s \in Tries : pc'[s] \in Concluding /\ id'[s] = id'[t] => s = t
             /\ pc'[t] = "commit" => id'[t] \in object'
  <2>1. \A s \in mistaken' : id'[s] # id[t]
    BY <1>1 DEF Undisturbed
  <2>2. pc[t] \in Concluding /\ Undisturbed(id[t])
    BY <1>1, <2>1 DEF Undisturbed
  <2>3. \A s \in Tries : pc'[s] \in Concluding /\ id'[s] = id'[t] =>
          pc[s] \in Concluding /\ id[s] = id[t]
    BY <1>1, <2>1
  <2>4. pc'[t] = "commit" => id'[t] \in object'
    BY <1>1, <2>2 DEF Kept
  <2> QED BY <2>2, <2>3, <2>4 DEF Kept
<1>2. LostOnlyByMistake'
  BY DEF Kept, LostOnlyByMistake
<1> QED BY <1>1, <1>2 DEF Kept, Concluding, Finishing

\* What all steps of an initiation and of a transfer have in common but three.
LEMMA EarlyShape ==
    ASSUME Inductive, NEW t \in Tries, Initiation(t) \/ Transfer(t),
           ~PrepareInitiation(t), ~ReplayInitiation(t), ~CommitInitiation(t)
    PROVE  /\ UNCHANGED <<record, leased, reserved, published, object, id, mistaken>>
           /\ \A u \in Tries : upload[u] = "none" => upload'[u] = "none"
           /\ \A s \in Tries : pc'[s] \in {"new"} \cup Finishing => pc'[s] = pc[s]
           /\ \A s \in Tries : pc'[s] \in Holding("initiate") => pc[s] \in Holding("initiate")
<1>1. UNCHANGED <<record, leased, reserved, published, object, id, mistaken>>
  BY DEF Initiation, Transfer, RefuseInitiation, Prepare, OpenSession, OpenFails,
     InitiationAnswered, LoseInitiation, InsertFails, Authorize, StorePart, PartSent, PartFails,
     RecordPart, RecordFails, AbortAgain, AbortAgainFails, CloseSession, records, provider, try
<1>2. upload' = upload \/ (RecordPart(t) /\ upload' = [upload EXCEPT ![id[t]] = "uploading"])
  BY DEF Initiation, Transfer, RefuseInitiation, Prepare, OpenSession, OpenFails,
     InitiationAnswered, LoseInitiation, InsertFails, Authorize, StorePart, PartSent, PartFails,
     RecordPart, RecordFails, AbortAgain, AbortAgainFails, row
<1>3. \A u \in Tries : upload[u] = "none" => upload'[u] = "none"
  BY <1>2 DEF RecordPart, MayUpload, Uploadable, Inductive, TypeOK
<1>4. \E to \in (Running \cup Ended) \ Finishing :
        pc' = pc \/ (/\ pc' = [pc EXCEPT ![t] = to]
                     /\ to \in Holding("initiate") => pc[t] \in Holding("initiate"))
  BY ZenonT(40), Holders DEF Initiation, Transfer, RefuseInitiation, Prepare, OpenSession,
     OpenFails, InitiationAnswered, LoseInitiation, InsertFails, Authorize, StorePart, PartSent,
     PartFails, RecordPart, RecordFails, AbortAgain, AbortAgainFails, Goto, Running, Ended,
     Finishing, try
<1>5. \A s \in Tries : pc'[s] \in {"new"} \cup Finishing => pc'[s] = pc[s]
  BY <1>4 DEF Inductive, TypeOK, Running, Ended
<1>6. \A s \in Tries : pc'[s] \in Holding("initiate") => pc[s] \in Holding("initiate")
  BY <1>4 DEF Inductive, TypeOK
<1> QED BY <1>1, <1>3, <1>5, <1>6

\* What all steps of a completion and of a compensation have in common but four.
LEMMA LateShape ==
    ASSUME Inductive, NEW t \in Tries, Completion(t) \/ Compensation(t),
           ~PrepareCompletion(t), ~CommitCompletion(t), ~DeleteObject(t), ~Release(t)
    PROVE  /\ UNCHANGED <<record, leased, reserved, upload, published, id>>
           /\ object \subseteq object'
           /\ mistaken' \in {mistaken, mistaken \cup {t}}
           /\ t \in mistaken' => t \in mistaken \/ pc[t] \in Running
           /\ \A s \in Tries : pc'[s] = "new" => (pc[s] = "new" /\ s # t) \/ pc' = pc
           /\ \A s \in Tries : pc'[s] \in Holding("initiate") /\ s \notin mistaken' =>
                                 pc[s] \in Holding("initiate")
           /\ \A s \in Tries : pc'[s] \in Concluding /\ s \notin mistaken' => pc[s] \in Concluding
           /\ \A s \in Tries : pc'[s] = "commit" => pc[s] = "commit" \/ id[s] \in object
<1>0. pc \in [Tries -> {"new"} \cup Running \cup Ended]
  BY DEF Inductive, TypeOK
<1>1. CASE Assemble(t)
  BY <1>1 DEF Assemble, records, row, try
<1>2. CASE Cancel(t)
  <2>1. /\ UNCHANGED <<record, leased, reserved, upload, published, object, id>>
        /\ pc[t] \in Running /\ pc' = [pc EXCEPT ![t] = Dropped(pc[t])]
        /\ mistaken' = IF pc[t] \in {"inserted", "reply"} THEN mistaken \cup {t} ELSE mistaken
    BY <1>2 DEF Cancel, Goto, records, row, provider
  <2>2. /\ Dropped(pc[t]) \in {"abort", "withdraw", "failed"}
        /\ Dropped(pc[t]) = "abort" => pc[t] \in {"insert", "inserted", "abort", "delete"}
        /\ Dropped(pc[t]) = "withdraw" => pc[t] \in {"commit", "reply", "withdraw"}
    BY DEF Dropped
  <2> HIDE DEF Dropped
  <2>3. pc'[t] = Dropped(pc[t]) /\ \A s \in Tries \ {t} : pc'[s] = pc[s]
    BY <1>0, <2>1
  <2> QED BY <2>1, <2>2, <2>3, Holders DEF Concluding, Finishing
<1>3. CASE CommitFails(t)
  <2>1. /\ UNCHANGED <<record, leased, reserved, upload, published, object, id>>
        /\ pc[t] \in {"commit", "reply"} /\ pc' = [pc EXCEPT ![t] = "withdraw"]
        /\ mistaken' = IF pc[t] = "reply" THEN mistaken \cup {t} ELSE mistaken
    BY <1>3 DEF CommitFails, Goto, records, row, provider
  <2>2. pc'[t] = "withdraw" /\ \A s \in Tries \ {t} : pc'[s] = pc[s]
    BY <1>0, <2>1
  <2> QED BY <2>1, <2>2, Holders DEF Concluding, Finishing, Running
<1>4. CASE \/ ReplayCompletion(t) \/ CompletionRefused(t) \/ Assembled(t) \/ AssembleFails(t)
           \/ Reconcile(t) \/ Reply(t) \/ AbortOwn(t) \/ ReleaseFails(t) \/ Crash(t)
  <2>1. UNCHANGED <<record, leased, reserved, upload, published, object, id, mistaken>>
    BY <1>4 DEF ReplayCompletion, CompletionRefused, Assembled, AssembleFails, Reconcile, Reply,
       AbortOwn, CloseSession, ReleaseFails, Crash, records, row, provider
  <2>2. \E to \in Running \cup Ended :
          /\ pc' = [pc EXCEPT ![t] = to]
          /\ to \in Concluding => pc[t] \in Concluding
          /\ to \in Holding("initiate") => pc[t] \in Holding("initiate")
          /\ to = "commit" => id[t] \in object
    <3>1. CASE \/ ReplayCompletion(t) \/ CompletionRefused(t) \/ Assembled(t)
               \/ AssembleFails(t) \/ Reconcile(t)
      BY <3>1, Holders DEF ReplayCompletion, CompletionRefused, Assembled, AssembleFails,
         Reconcile, Goto, Running, Ended, Concluding, Finishing
    <3>2. CASE Reply(t) \/ AbortOwn(t) \/ ReleaseFails(t) \/ Crash(t)
      BY <3>2, Holders DEF Reply, AbortOwn, ReleaseFails, Crash, Goto, Running, Ended,
         Concluding, Finishing
    <3> QED BY <1>4, <3>1, <3>2
  <2>3. PICK to \in Running \cup Ended :
          /\ pc'[t] = to /\ \A s \in Tries \ {t} : pc'[s] = pc[s]
          /\ to \in Concluding => pc[t] \in Concluding
          /\ to \in Holding("initiate") => pc[t] \in Holding("initiate")
          /\ to = "commit" => id[t] \in object
    BY <1>0, <2>2
  <2> QED BY <2>1, <2>3 DEF Running, Ended
<1> QED BY <1>1, <1>2, <1>3, <1>4 DEF Completion, Compensation

\* The initiation begins, with a record no undisturbed try holds.
LEMMA PrepareInitiationKeeps ==
    ASSUME Inductive, Held, Kept, NEW t \in Tries, PrepareInitiation(t) \/ ReplayInitiation(t)
    PROVE  Held' /\ Kept'
<1>1. /\ pc[t] = "new" /\ mistaken' = mistaken
      /\ UNCHANGED <<upload, object, published>>
      /\ id' = [id EXCEPT ![t] = reserved']
      /\ \/ /\ PrepareInitiation(t) /\ pc' = [pc EXCEPT ![t] = "open"]
            /\ record["initiate"] # "completed"
            /\ leased' = leased \cup {"initiate"}
            /\ \/ /\ record' = [record EXCEPT !["initiate"] = "in_progress"]
                  /\ reserved' = t
               \/ /\ record["initiate"] = "in_progress" /\ "initiate" \notin leased
                  /\ UNCHANGED <<record, reserved>>
         \/ /\ record["initiate"] = "completed" /\ pc' = [pc EXCEPT ![t] = "authorize"]
            /\ UNCHANGED <<record, leased, reserved>>
  BY DEF PrepareInitiation, ReplayInitiation, Prepare, Goto, records, row, provider
<1>2. /\ pc'[t] \in {"open", "authorize"} /\ id'[t] = reserved'
      /\ pc'[t] = "open" => record["initiate"] # "completed"
      /\ \A s \in Tries \ {t} : pc'[s] = pc[s] /\ id'[s] = id[s]
  BY <1>1 DEF Inductive, TypeOK
<1>3. \A s \in mistaken : s \in Tries /\ s # t /\ pc'[s] # "new" /\ id'[s] = id[s]
  BY <1>1, <1>2 DEF Held
<1>4. \A u : Undisturbed(u)' <=> Undisturbed(u)
  BY <1>1, <1>3 DEF Undisturbed
<1>5. Held'
  <2>1. CASE pc'[t] = "authorize"
    <3>1. UNCHANGED <<record, leased, reserved, upload>>
      BY <1>1, <1>2, <2>1 DEF Inductive, TypeOK
    <3> QED BY <1>1, <1>2, <1>3, <1>4, <2>1, <3>1, Holders DEF Held
  <2>2. CASE pc'[t] = "open"
    <3>1. "initiate" \in leased' /\ \A u \in Tries : upload'[u] = "none"
      BY <1>1, <1>2, <2>2 DEF Inductive, TypeOK, Receipt
    <3>2. reserved' \in Tries
      BY <1>1, <1>2, <2>2 DEF Inductive, TypeOK, Receipt
    <3>3. ASSUME NEW s \in Tries, s # t, pc[s] \in Holding("initiate"), id[s] = reserved',
                 Undisturbed(reserved')
          PROVE  FALSE
      <4>1. CASE reserved' = t
        BY <1>1, <3>3, <4>1 DEF Inductive, Named
      <4>2. CASE reserved' # t
        <5>1. reserved' = reserved /\ record["initiate"] = "in_progress" /\ "initiate" \notin leased
          BY <1>1, <1>2, <2>2, <4>2 DEF Inductive, TypeOK
        <5> QED BY <3>3, <5>1 DEF Held
      <4> QED BY <4>1, <4>2
    <3>4. ASSUME NEW s \in Tries, pc'[s] \in Holding("initiate")
          PROVE  id'[s] \in Tries
      BY <1>2, <3>2, <3>4 DEF Inductive, Named
    <3>5. ASSUME NEW s \in Tries, NEW r \in Tries, pc'[s] \in Holding("initiate"),
                 pc'[r] \in Holding("initiate"), id'[s] = id'[r], Undisturbed(id'[r])
          PROVE  s = r
      BY <1>2, <3>3, <3>5 DEF Held
    <3>6. \A r \in Tries : Undisturbed(id[r])' <=> Undisturbed(id'[r])
      BY <1>1, <1>3 DEF Undisturbed
    <3> QED BY <1>1, <1>3, <3>1, <3>4, <3>5, <3>6 DEF Held
  <2> QED BY <1>2, <2>1, <2>2
<1>6. Kept'
  <2>1. record'["complete"] = record["complete"] /\ leased \subseteq leased'
    BY <1>1 DEF Inductive, TypeOK, Operations
  <2>2. \A s \in published : id'[s] = id[s]
    <3>1. \A s \in published : record["initiate"] = "completed" /\ id[s] = reserved /\ s \in Tries
      BY DEF Inductive, TypeOK, Receipt
    <3>2. published # {} => reserved' = reserved
      BY <1>1, <3>1
    <3> QED BY <1>2, <3>1, <3>2
  <2>3. \A s \in Tries : pc'[s] \in Concluding => pc'[s] = pc[s] /\ s # t
    BY <1>2 DEF Concluding, Finishing
  <2>4. published \subseteq Tries
    BY DEF Inductive, TypeOK
  <2> QED BY <1>1, <1>2, <1>3, <2>1, <2>2, <2>3, <2>4, KeptQuiet DEF Concluding, Finishing
<1> QED BY <1>5, <1>6

\* The row is inserted by the only undisturbed try with its identifier.
LEMMA InsertKeeps ==
    ASSUME Inductive, Held, Kept, NEW t \in Tries, CommitInitiation(t)
    PROVE  Held' /\ Kept'
<1>1. /\ pc[t] = "insert" /\ pc' = [pc EXCEPT ![t] = "inserted"]
      /\ record' = [record EXCEPT !["initiate"] = "completed"]
      /\ leased' = leased \ {"initiate"}
      /\ upload' = [upload EXCEPT ![id[t]] = "initiated"]
      /\ UNCHANGED <<object, published, id, mistaken>>
  BY DEF CommitInitiation, Insert, Goto, provider
<1>2. /\ pc'[t] = "inserted" /\ \A s \in Tries \ {t} : pc'[s] = pc[s]
      /\ record'["initiate"] = "completed" /\ record'["complete"] = record["complete"]
      /\ \A u \in Tries : u # id[t] => upload'[u] = upload[u]
  BY <1>1 DEF Inductive, TypeOK, Operations
<1>3. \A u : Undisturbed(u)' <=> Undisturbed(u)
  BY <1>1 DEF Undisturbed
<1>4. \A s \in Tries : pc[s] \in Holding("initiate") => id[s] \in Tries
  BY DEF Inductive, Named
<1>5. Held'
  <2>1. ASSUME NEW s \in Tries, pc'[s] \in Holding("initiate"), Undisturbed(id[s])
        PROVE  pc[s] \in Holding("initiate") /\ id[s] # id[t] /\ upload'[id[s]] = "none"
    <3>1. s # t /\ pc[s] \in Holding("initiate")
      BY <1>2, <2>1, Holders
    <3>2. id[s] # id[t]
      BY <1>1, <2>1, <3>1, Holders DEF Held
    <3> QED BY <1>2, <1>4, <2>1, <3>1, <3>2 DEF Held
  <2>2. \A s \in mistaken : pc'[s] # "new"
    BY <1>2 DEF Held
  <2>3. \A s \in Tries : pc'[s] \in Holding("initiate") => pc[s] \in Holding("initiate")
    BY <1>2, Holders
  <2>4. \A s \in Tries : Undisturbed(id[s])' <=> Undisturbed(id[s])
    BY <1>1 DEF Undisturbed
  <2> QED BY <1>1, <1>2, <2>1, <2>2, <2>3, <2>4 DEF Held
<1>6. Kept'
  BY <1>1, <1>2, KeptQuiet DEF Concluding, Finishing, Inductive, TypeOK
<1> QED BY <1>5, <1>6

\* The other steps of an initiation, and those of a transfer.
LEMMA EarlyKeeps ==
    ASSUME Inductive, Held, Kept, NEW t \in Tries, Initiation(t) \/ Transfer(t)
    PROVE  Held' /\ Kept'
<1>1. CASE PrepareInitiation(t) \/ ReplayInitiation(t)
  BY <1>1, PrepareInitiationKeeps
<1>2. CASE CommitInitiation(t)
  BY <1>2, InsertKeeps
<1>3. CASE ~PrepareInitiation(t) /\ ~ReplayInitiation(t) /\ ~CommitInitiation(t)
  <2>1. /\ UNCHANGED <<record, leased, reserved, published, object, id, mistaken>>
        /\ \A u \in Tries : upload[u] = "none" => upload'[u] = "none"
        /\ \A s \in Tries : pc'[s] \in {"new"} \cup Finishing => pc'[s] = pc[s]
        /\ \A s \in Tries : pc'[s] \in Holding("initiate") => pc[s] \in Holding("initiate")
    BY <1>3, EarlyShape
  <2>2. \A s \in mistaken : s \in Tries /\ pc[s] # "new"
    BY DEF Held
  <2>3. \A s \in Tries : id[s] \in Tries \/ pc[s] \notin Holding("initiate")
    BY DEF Inductive, Named
  <2>4. Held'
    BY <2>1, <2>2, <2>3, HeldQuiet
  <2>5. published \subseteq Tries
    BY DEF Inductive, TypeOK
  <2>6. \A s \in Tries : pc'[s] \in Concluding \cup {"commit"} => pc'[s] = pc[s]
    BY <2>1 DEF Concluding, Finishing
  <2>7. Kept'
    BY <2>1, <2>5, <2>6, KeptQuiet
  <2> QED BY <2>4, <2>7
<1> QED BY <1>1, <1>2, <1>3

\* A completion begins, when no undisturbed one is under way.
LEMMA PrepareCompletionKeeps ==
    ASSUME Inductive, Held, Kept, NEW t \in Tries, PrepareCompletion(t)
    PROVE  Held' /\ Kept'
<1>1. /\ pc[t] = "prepare" /\ pc' = [pc EXCEPT ![t] = "assemble"]
      /\ record["complete"] = "none"
         \/ (record["complete"] = "in_progress" /\ "complete" \notin leased)
      /\ upload[id[t]] # "none"
      /\ record' = [record EXCEPT !["complete"] = "in_progress"]
      /\ leased' = leased \cup {"complete"}
      /\ upload' = [upload EXCEPT ![id[t]] = "completing"]
      /\ UNCHANGED <<reserved, published, object, id, mistaken>>
  BY DEF PrepareCompletion, Goto, Uploadable
<1>2. /\ pc'[t] = "assemble" /\ \A s \in Tries \ {t} : pc'[s] = pc[s]
      /\ record'["complete"] = "in_progress" /\ record'["initiate"] = record["initiate"]
      /\ \A u \in Tries : upload[u] = "none" => upload'[u] = "none"
  BY <1>1 DEF Inductive, TypeOK, Operations
<1>3. Held'
  <2>1. \A s \in mistaken : s \in Tries /\ pc'[s] # "new"
    BY <1>2 DEF Held
  <2>2. \A s \in Tries : id[s] \in Tries \/ pc[s] \notin Holding("initiate")
    BY DEF Inductive, Named
  <2>3. \A s \in Tries : pc'[s] \in Holding("initiate") => pc[s] \in Holding("initiate")
    BY <1>2, Holders
  <2> QED BY <1>1, <1>2, <2>1, <2>2, <2>3, HeldQuiet
<1>4. \A s \in Tries : pc[s] \in Concluding => ~Undisturbed(id[s])
  BY <1>1 DEF Kept
<1>5. ASSUME NEW s \in Tries, pc'[s] \in Concluding, Undisturbed(id[s])
      PROVE  s = t
  BY <1>2, <1>4, <1>5
<1>6. \A u : Undisturbed(u)' <=> Undisturbed(u)
  BY <1>1 DEF Undisturbed
<1>7. LostOnlyByMistake'
  BY <1>1 DEF Kept, LostOnlyByMistake
<1>8. ASSUME NEW s \in Tries, pc'[s] \in Concluding, Undisturbed(id[s])
      PROVE  /\ pc'[s] # "commit"
             /\ \A r \in Tries : pc'[r] \in Concluding /\ id[r] = id[s] => r = s
  BY <1>2, <1>5, <1>8
<1> QED BY <1>1, <1>2, <1>3, <1>6, <1>7, <1>8 DEF Kept

\* The file is published, its object stored unless a mistaken try took it.
LEMMA CommitCompletionKeeps ==
    ASSUME Inductive, Held, Kept, NEW t \in Tries, CommitCompletion(t)
    PROVE  Held' /\ Kept'
<1>1. /\ pc[t] = "commit" /\ pc' = [pc EXCEPT ![t] = "reply"]
      /\ upload[id[t]] = "completing"
      /\ published' = published \cup {t}
      /\ upload' = [upload EXCEPT ![id[t]] = "completed"]
      /\ record' = [record EXCEPT !["complete"] = "completed"]
      /\ leased' = leased \ {"complete"}
      /\ UNCHANGED <<reserved, object, id, mistaken>>
  BY DEF CommitCompletion, Goto, provider
<1>2. /\ pc'[t] = "reply" /\ \A s \in Tries \ {t} : pc'[s] = pc[s]
      /\ record'["initiate"] = record["initiate"]
      /\ \A u \in Tries : upload[u] = "none" => upload'[u] = "none"
  BY <1>1 DEF Inductive, TypeOK, Operations
<1>3. Held'
  <2>1. \A s \in mistaken : s \in Tries /\ pc'[s] # "new"
    BY <1>2 DEF Held
  <2>2. \A s \in Tries : id[s] \in Tries \/ pc[s] \notin Holding("initiate")
    BY DEF Inductive, Named
  <2>3. \A s \in Tries : pc'[s] \in Holding("initiate") => pc[s] \in Holding("initiate")
    BY <1>2, Holders
  <2> QED BY <1>1, <1>2, <2>1, <2>2, <2>3, HeldQuiet
<1>4. \A u : Undisturbed(u)' <=> Undisturbed(u)
  BY <1>1 DEF Undisturbed
<1>5. ASSUME NEW s \in Tries, pc'[s] \in Concluding, Undisturbed(id[s])
      PROVE  FALSE
  <2>1. s # t /\ pc[s] \in Concluding
    BY <1>2, <1>5 DEF Concluding
  <2>2. pc[t] \in Concluding
    BY <1>1 DEF Concluding, Finishing
  <2>3. id[s] = id[t]
    BY <2>1, <2>2 DEF Inductive, Receipt, Concluding
  <2> QED BY <1>5, <2>1, <2>2, <2>3 DEF Kept
<1>6. LostOnlyByMistake'
  <2>1. pc[t] \in Concluding
    BY <1>1 DEF Concluding, Finishing
  <2>2. id[t] \in object \/ \E s \in mistaken : id[s] = id[t]
    BY <1>1, <2>1 DEF Kept, Undisturbed
  <2> QED BY <1>1, <2>2 DEF Kept, LostOnlyByMistake
<1> QED BY <1>1, <1>3, <1>4, <1>5, <1>6 DEF Kept

\* An object is taken by a try whose upload was not published, or by one whose
\* key has a mistaken try.
LEMMA DeleteObjectKeeps ==
    ASSUME Inductive, Held, Kept, NEW t \in Tries, DeleteObject(t)
    PROVE  Held' /\ Kept'
<1>1. /\ pc[t] \in {"delete", "withdraw"}
      /\ \E to \in {"release", "failed"} :
           /\ pc' = [pc EXCEPT ![t] = to]
           /\ to = "release" => pc[t] = "delete"
      /\ object' = object \ {id[t]} \/ object' = object
      /\ UNCHANGED <<record, leased, reserved, upload, published, id, mistaken>>
  BY DEF DeleteObject, Goto, records, row
<1>2. /\ pc'[t] \in {"release", "failed"}
      /\ pc'[t] = "release" => pc[t] = "delete"
      /\ \A s \in Tries \ {t} : pc'[s] = pc[s]
  BY <1>1 DEF Inductive, TypeOK
<1>3. Held'
  <2>1. \A s \in mistaken : s \in Tries /\ pc'[s] # "new"
    BY <1>2 DEF Held
  <2>2. \A s \in Tries : id[s] \in Tries \/ pc[s] \notin Holding("initiate")
    BY DEF Inductive, Named
  <2>3. \A s \in Tries : pc'[s] \in Holding("initiate") => pc[s] \in Holding("initiate")
    BY <1>2, Holders
  <2> QED BY <1>1, <2>1, <2>2, <2>3, HeldQuiet
<1>4. \A u : Undisturbed(u)' <=> Undisturbed(u)
  BY <1>1 DEF Undisturbed
<1>5. \A s \in Tries : pc'[s] \in Concluding => s # t /\ pc'[s] = pc[s]
  BY <1>2 DEF Concluding, Finishing
<1>6. ASSUME NEW s \in Tries, pc[s] \in Finishing \/ s \in published, pc[t] = "delete",
             id[s] = id[t], Undisturbed(id[t])
      PROVE  FALSE
  <2>1. upload[id[t]] = "none"
    BY <1>6, Holders DEF Held
  <2>2. upload[id[t]] \in Closing
    BY <1>6 DEF Inductive, Frozen
  <2> QED BY <2>1, <2>2 DEF Closing
<1>7. ASSUME NEW s \in Tries, pc[s] = "commit", Undisturbed(id[s])
      PROVE  id[s] # id[t] /\ id[s] \in object'
  <2>1. pc[s] \in Concluding /\ s # t
    BY <1>1, <1>7 DEF Concluding, Finishing
  <2>2. id[s] \in object
    BY <1>7, <2>1 DEF Kept
  <2>3. CASE pc[t] = "delete"
    BY <1>1, <1>6, <1>7, <2>2, <2>3 DEF Finishing
  <2>4. CASE pc[t] = "withdraw"
    <3>1. pc[t] \in Concluding
      BY <2>4 DEF Concluding, Finishing
    <3>2. id[s] # id[t]
      BY <1>7, <2>1, <3>1 DEF Kept
    <3> QED BY <1>1, <2>2, <3>2
  <2> QED BY <1>1, <2>3, <2>4
<1>8. LostOnlyByMistake'
  <2>1. ASSUME NEW s \in published, id[s] = id[t], Undisturbed(id[t])
        PROVE  FALSE
    <3>1. s \in Tries
      BY DEF Inductive, TypeOK
    <3>2. CASE pc[t] = "delete"
      BY <1>6, <2>1, <3>1, <3>2
    <3>3. CASE pc[t] = "withdraw"
      <4>1. pc[t] \in Concluding
        BY <3>3 DEF Concluding, Finishing
      <4>2. record["complete"] = "in_progress"
        BY <2>1, <4>1 DEF Kept
      <4> QED BY <4>2 DEF Inductive, Recorded
    <3> QED BY <1>1, <3>2, <3>3
  <2>2. ASSUME NEW s \in published
        PROVE  id[s] \in object' \/ \E r \in mistaken : id[r] = id[s]
    <3>1. id[s] # id[t] \/ \E r \in mistaken : id[r] = id[s]
      BY <2>1 DEF Undisturbed
    <3> QED BY <1>1, <3>1 DEF Kept, LostOnlyByMistake
  <2> QED BY <1>1, <2>2 DEF LostOnlyByMistake
<1>9. ASSUME NEW s \in Tries, pc'[s] \in Concluding, Undisturbed(id[s])
      PROVE  /\ record["complete"] = "in_progress"
             /\ "complete" \in leased
             /\ \A r \in Tries : pc'[r] \in Concluding /\ id[r] = id[s] => r = s
             /\ pc'[s] = "commit" => id[s] \in object'
  <2>1. pc[s] \in Concluding
    BY <1>5, <1>9
  <2>2. pc'[s] = "commit" => id[s] \in object'
    BY <1>5, <1>7, <1>9
  <2> QED BY <1>5, <1>9, <2>1, <2>2 DEF Kept
<1> QED BY <1>1, <1>3, <1>4, <1>8, <1>9 DEF Kept

\* The other steps of a completion, and those of a compensation.
LEMMA LateKeeps ==
    ASSUME Inductive, Held, Kept, NEW t \in Tries, Completion(t) \/ Compensation(t)
    PROVE  Held' /\ Kept'
<1>1. CASE PrepareCompletion(t)
  BY <1>1, PrepareCompletionKeeps
<1>2. CASE CommitCompletion(t)
  BY <1>2, CommitCompletionKeeps
<1>3. CASE DeleteObject(t)
  BY <1>3, DeleteObjectKeeps
<1>4. CASE Release(t)
  <2>1. /\ pc[t] = "release" /\ pc' = [pc EXCEPT ![t] = "failed"]
        /\ UNCHANGED <<upload, published, object, id, mistaken>>
    BY <1>4 DEF Release, Goto, row, provider
  <2>2. pc'[t] = "failed" /\ \A s \in Tries \ {t} : pc'[s] = pc[s]
    BY <2>1 DEF Inductive, TypeOK
  <2>3. /\ record'["complete"] = record["complete"]
        /\ "complete" \in leased => "complete" \in leased'
        /\ \/ record'["initiate"] = "none"
           \/ UNCHANGED <<record, leased, reserved>>
    BY <1>4 DEF Release, records, Inductive, TypeOK, Operations
  <2>4. /\ \A s \in mistaken : s \in Tries /\ pc'[s] # "new"
        /\ \A s \in Tries : pc'[s] \in Holding("initiate") => pc[s] \in Holding("initiate")
        /\ \A s \in Tries : pc'[s] \in Concluding => pc'[s] = pc[s]
    BY <2>2, Holders DEF Held, Concluding, Finishing
  <2>5. \A s \in Tries : id[s] \in Tries \/ pc[s] \notin Holding("initiate")
    BY DEF Inductive, Named
  <2>6. Held'
    BY <2>1, <2>3, <2>4, <2>5, HeldQuiet
  <2>7. published \subseteq Tries /\ \A s \in Tries : pc'[s] = "commit" => pc[s] = "commit"
    BY <2>2 DEF Inductive, TypeOK
  <2>8. Kept'
    BY <2>1, <2>3, <2>4, <2>7, KeptQuiet
  <2> QED BY <2>6, <2>8
<1>5. CASE ~PrepareCompletion(t) /\ ~CommitCompletion(t) /\ ~DeleteObject(t) /\ ~Release(t)
  <2>1. /\ UNCHANGED <<record, leased, reserved, upload, published, id>>
        /\ object \subseteq object'
        /\ mistaken' \in {mistaken, mistaken \cup {t}}
        /\ t \in mistaken' => t \in mistaken \/ pc[t] \in Running
        /\ \A s \in Tries : pc'[s] = "new" => (pc[s] = "new" /\ s # t) \/ pc' = pc
        /\ \A s \in Tries : pc'[s] \in Holding("initiate") /\ s \notin mistaken' =>
                              pc[s] \in Holding("initiate")
        /\ \A s \in Tries : pc'[s] \in Concluding /\ s \notin mistaken' => pc[s] \in Concluding
        /\ \A s \in Tries : pc'[s] = "commit" => pc[s] = "commit" \/ id[s] \in object
    BY <1>5, LateShape
  <2>2. \A s \in mistaken' : s \in Tries /\ pc'[s] # "new"
    <3>1. \A s \in mistaken' : s \in Tries /\ pc[s] # "new"
      BY <2>1 DEF Held, Running
    <3> QED BY <2>1, <3>1
  <2>3. \A s \in Tries : id[s] \in Tries \/ pc[s] \notin Holding("initiate")
    BY DEF Inductive, Named
  <2>4. mistaken \subseteq mistaken'
    BY <2>1
  <2>5. Held'
    BY <2>1, <2>2, <2>3, <2>4, HeldQuiet
  <2>6. published \subseteq Tries
    BY DEF Inductive, TypeOK
  <2>7. Kept'
    BY <2>1, <2>4, <2>6, KeptQuiet
  <2> QED BY <2>5, <2>7
<1> QED BY <1>1, <1>2, <1>3, <1>4, <1>5

\* A lease that runs out under a try makes it mistaken.
LEMMA LeaseExpiresKeeps ==
    ASSUME Inductive, Held, Kept, NEW op \in Operations, LeaseExpires(op)
    PROVE  Held' /\ Kept'
<1>1. /\ leased' = leased \ {op}
      /\ mistaken' = mistaken \cup {t \in Tries : pc[t] \in Holding(op)}
      /\ UNCHANGED <<record, reserved, upload, published, object, pc, id>>
  BY DEF LeaseExpires, row, provider
<1>2. \A s \in mistaken' : s \in Tries /\ pc'[s] # "new"
  BY <1>1, Holders DEF Held, Operations
<1>3. \A s \in Tries : id[s] \in Tries \/ pc[s] \notin Holding("initiate")
  BY DEF Inductive, Named
<1>4. published \subseteq Tries /\ mistaken \subseteq mistaken'
  BY <1>1 DEF Inductive, TypeOK
<1>5. CASE op = "initiate"
  <2>1. "complete" \in leased => "complete" \in leased'
    BY <1>1, <1>5
  <2>2. Kept'
    BY <1>1, <1>4, <2>1, KeptQuiet
  <2>3. \A t \in Tries : pc[t] \in Holding("initiate") => t \in mistaken'
    BY <1>1, <1>5
  <2>4. \A t \in Tries : pc'[t] \in Holding("initiate") => ~Undisturbed(id[t])'
    BY <1>1, <2>3 DEF Undisturbed
  <2>5. Held'
    BY <1>2, <2>4 DEF Held
  <2> QED BY <2>2, <2>5
<1>6. CASE op = "complete"
  <2>1. "initiate" \in leased => "initiate" \in leased'
    BY <1>1, <1>6
  <2>2. Held'
    BY <1>1, <1>2, <1>3, <1>4, <2>1, HeldQuiet
  <2>3. \A t \in Tries : pc[t] \in Concluding => t \in mistaken'
    BY <1>1, <1>6, Holders DEF Concluding, Finishing
  <2>4. \A t \in Tries : pc'[t] \in Concluding => ~Undisturbed(id[t])'
    BY <1>1, <2>3 DEF Undisturbed
  <2>5. LostOnlyByMistake'
    BY <1>1, <1>4 DEF Kept, LostOnlyByMistake
  <2> QED BY <2>2, <2>4, <2>5 DEF Kept
<1> QED BY <1>5, <1>6 DEF Operations

\* Maintenance, time and the worker let nobody begin and take no object.
LEMMA TimeKeeps ==
    ASSUME Inductive, Held, Kept,
           \/ ExpireRecord
           \/ \E u \in Tries : Overdue(u) \/ ScheduleAbort(u) \/ RunAbort(u)
           \/ UNCHANGED vars
    PROVE  Held' /\ Kept'
<1>1. /\ UNCHANGED <<leased, published, object, pc, id, mistaken>>
      /\ record'["complete"] = record["complete"]
      /\ record'["initiate"] = "none" \/ UNCHANGED <<record, reserved>>
  <2>1. CASE ExpireRecord
    BY <2>1 DEF ExpireRecord, provider, try, Inductive, TypeOK, Operations
  <2>2. CASE \E u \in Tries : Overdue(u) \/ ScheduleAbort(u) \/ RunAbort(u)
    BY <2>2 DEF Overdue, ScheduleAbort, RunAbort, CloseSession, records, provider, try
  <2>3. CASE UNCHANGED vars
    BY <2>3 DEF vars, records, provider, try
  <2> QED BY <2>1, <2>2, <2>3
<1>2. upload' = upload \/ \E u \in Tries : upload[u] \in Uploadable
                                         /\ upload' = [upload EXCEPT ![u] = "expired"]
  BY DEF ExpireRecord, Overdue, ScheduleAbort, RunAbort, vars, row
<1>3. \A u \in Tries : upload[u] = "none" => upload'[u] = "none"
  BY <1>2 DEF Uploadable, Inductive, TypeOK
<1>4. \A s \in mistaken : s \in Tries /\ pc[s] # "new"
  BY DEF Held
<1>5. \A s \in Tries : id[s] \in Tries \/ pc[s] \notin Holding("initiate")
  BY DEF Inductive, Named
<1>6. published \subseteq Tries
  BY DEF Inductive, TypeOK
<1>7. Held'
  BY <1>1, <1>3, <1>4, <1>5, HeldQuiet
<1>8. Kept'
  BY <1>1, <1>6, KeptQuiet
<1> QED BY <1>7, <1>8

\* The object of a published file stays in the store, whatever is retried,
\* expires or crashes, until a try with its key runs past its lease or mistakes
\* a COMMIT that took effect for one that did not.
THEOREM PublishedStays == Spec => []LostOnlyByMistake
<1>1. Init => Held /\ Kept
  BY DEF Init, Held, Kept, LostOnlyByMistake, Concluding, Finishing, Holding
<1>2. Inductive /\ Held /\ Kept /\ [Next]_vars => Held' /\ Kept'
  BY EarlyKeeps, LateKeeps, LeaseExpiresKeeps, TimeKeeps DEF Next
<1>3. Held /\ Kept => LostOnlyByMistake
  BY DEF Kept
<1> QED BY <1>1, <1>2, <1>3, InductiveHolds, PTL DEF Spec

-----------------------------------------------------------------------------
(* The plan of a multipart upload is right for every size and for every      *)
(* choice of the limits that LimitsAssumption allows.                        *)


\* The division the plan rounds with is the least multiple that is enough.
LEMMA CeilDivBounds ==
    ASSUME NEW a \in Nat, NEW b \in Positive
    PROVE  /\ CeilDiv(a, b) \in Nat
           /\ b * CeilDiv(a, b) >= a
           /\ a > 0 => CeilDiv(a, b) > 0 /\ b * (CeilDiv(a, b) - 1) < a
BY DEF CeilDiv, Positive

\* A product grows with its factor.
LEMMA ProductsOrdered ==
    ASSUME NEW a \in Nat, NEW b \in Nat, NEW c \in Positive, a * c < b * c
    PROVE  a < b
<1>1. SUFFICES ASSUME a >= b PROVE FALSE
  OBVIOUS
<1>2. PICK d \in Nat : a = b + d
  <2>1. a - b \in Nat /\ a = b + (a - b)
    BY <1>1
  <2>. QED BY <2>1
<1>3. a * c = b * c + d * c
  BY <1>2 DEF Positive
<1>4. d * c \in Nat /\ b * c \in Nat
  BY DEF Positive
<1>. QED BY <1>3, <1>4

\* PartSize is within the limits of the store, and there are at most as many
\* parts as it allows.
LEMMA PartSizeBounds ==
    ASSUME NEW n \in Positive
    PROVE  /\ Rounded(n) \in Positive
           /\ MULTIPART_TARGET_PART_COUNT * Rounded(n) >= n
           /\ PartSize(n) \in Positive
           /\ PartSize(n) >= MULTIPART_MIN_PART_BYTES
           /\ PartSize(n) <= MULTIPART_MAX_PART_BYTES
           /\ PartSize(n) >= Rounded(n) \/ PartSize(n) = MULTIPART_MAX_PART_BYTES
<1>. DEFINE T == MULTIPART_TARGET_PART_COUNT
            each == CeilDiv(n, T)
            units == CeilDiv(each, MIB)
<1>1. each \in Positive /\ T * each >= n
  BY CeilDivBounds, LimitsAssumption DEF Positive
<1>. HIDE DEF each
<1>2. units \in Positive /\ MIB * units >= each
  BY <1>1, CeilDivBounds, LimitsAssumption DEF Positive
<1>3. Rounded(n) = units * MIB
  BY DEF Rounded, each
<1>. HIDE DEF units
<1>4. Rounded(n) \in Positive /\ Rounded(n) >= each
  BY <1>1, <1>2, <1>3, LimitsAssumption DEF Positive
<1>5. T * Rounded(n) >= T * each
  BY <1>1, <1>4, LimitsAssumption DEF Positive
<1>6. T * Rounded(n) >= n
  BY <1>1, <1>4, <1>5, LimitsAssumption DEF Positive
<1>. QED BY <1>4, <1>6, LimitsAssumption DEF PartSize, Clamp, Positive

\* The plan of a size the service accepts: the store takes that many parts, all
\* but the last are full, and the last is neither empty nor larger.
LEMMA PlanBounds ==
    ASSUME NEW n \in Positive, n <= MAX_UPLOAD_BYTES
    PROVE  /\ PartCount(n) \in Positive
           /\ PartCount(n) <= MULTIPART_MAX_PART_COUNT
           /\ (PartCount(n) - 1) * PartSize(n) < n
           /\ n <= PartCount(n) * PartSize(n)
<1>. DEFINE c == PartCount(n)
            p == PartSize(n)
            T == MULTIPART_TARGET_PART_COUNT
            C == MULTIPART_MAX_PART_COUNT
            P == MULTIPART_MAX_PART_BYTES
<1>1. p \in Positive /\ (p >= Rounded(n) \/ p = P)
  BY PartSizeBounds
<1>2. c \in Positive /\ p * c >= n /\ p * (c - 1) < n
  BY <1>1, CeilDivBounds DEF PartCount, Positive
<1>. HIDE DEF c, p
<1>3. (c - 1) * p < n /\ n <= c * p /\ c - 1 \in Nat
  BY <1>1, <1>2 DEF Positive
<1>4. c <= C
  <2>1. CASE p >= Rounded(n)
    <3>1. T * p >= T * Rounded(n) /\ T * Rounded(n) >= n
      BY <1>1, <2>1, PartSizeBounds, LimitsAssumption DEF Positive
    <3>2. (c - 1) * p < T * p
      BY SMTT(20), <1>1, <1>3, <3>1, PartSizeBounds, LimitsAssumption DEF Positive
    <3>3. c - 1 < T
      BY <1>1, <1>3, <3>2, ProductsOrdered, LimitsAssumption DEF Positive
    <3>. QED BY <1>2, <3>3, LimitsAssumption DEF Positive
  <2>2. CASE p = P
    <3>1. (c - 1) * p < C * p
      BY <1>1, <1>3, <2>2, LimitsAssumption DEF Positive
    <3>2. c - 1 < C
      BY <1>1, <1>3, <3>1, ProductsOrdered, LimitsAssumption DEF Positive
    <3>. QED BY <1>2, <3>2, LimitsAssumption DEF Positive
  <2>. QED BY <1>1, <2>1, <2>2
<1>. QED BY <1>2, <1>3, <1>4 DEF c, p

-----------------------------------------------------------------------------
\* What a transfer keeps: the bytes stored are those of the parts sent, and
\* nothing has been sent of a file that has no plan.
PlanInv ==
    /\ size \in Nat /\ sent \in Nat /\ stored \in Nat
    /\ route \in {"asked", "single", "refused", "parts", "complete"}
    /\ route = "asked" => sent = 0 /\ stored = 0
    /\ route = "refused" => size > MAX_UPLOAD_BYTES
    /\ route = "parts" =>
          /\ size \in Positive /\ size <= MAX_UPLOAD_BYTES
          /\ sent <= PartCount(size)
          /\ sent < PartCount(size) => stored = sent * PartSize(size)
          /\ sent = PartCount(size) => stored = size

\* No upload has begun.
LEMMA PlanInvInitially == PlanInit => PlanInv
BY LimitsAssumption DEF PlanInit, PlanInv

\* Choosing a plan, sending a part and completing keep the invariant.
LEMMA PlanInvKept == PlanInv /\ [PlanNext]_planVars => PlanInv'
<1>. SUFFICES ASSUME PlanInv, [PlanNext]_planVars PROVE PlanInv'
  OBVIOUS
<1>1. CASE Choose
  <2>1. size' = size /\ sent' = 0 /\ stored' = 0 /\ size \in Nat
    BY <1>1 DEF Choose, PlanInv
  <2>2. CASE size <= SINGLE_UPLOAD_MAX_BYTES
    BY <1>1, <2>1, <2>2 DEF Choose, PlanInv
  <2>3. CASE size > SINGLE_UPLOAD_MAX_BYTES /\ size > MAX_UPLOAD_BYTES
    <3>1. ~Planned(size) /\ ~(size <= SINGLE_UPLOAD_MAX_BYTES)
      BY <2>1, <2>3, LimitsAssumption DEF Planned
    <3>2. route' = "refused"
      BY <1>1, <3>1 DEF Choose
    <3>. QED BY <2>1, <2>3, <3>2 DEF PlanInv
  <2>4. CASE size > SINGLE_UPLOAD_MAX_BYTES /\ size <= MAX_UPLOAD_BYTES
    <3>1. size \in Positive
      BY <2>1, <2>4, LimitsAssumption DEF Positive
    <3>2. PartCount(size) \in Positive /\ PartCount(size) <= MULTIPART_MAX_PART_COUNT
      BY <2>4, <3>1, PlanBounds
    <3>3. Planned(size) /\ ~(size <= SINGLE_UPLOAD_MAX_BYTES)
      BY <2>1, <2>4, <3>2, LimitsAssumption DEF Planned
    <3>4. route' = "parts"
      BY <1>1, <3>3 DEF Choose
    <3>5. PartSize(size) \in Positive /\ 0 * PartSize(size) = 0
      BY <3>1, PartSizeBounds DEF Positive
    <3>. QED BY <2>1, <2>4, <3>1, <3>2, <3>4, <3>5 DEF PlanInv, Positive
  <2>. QED BY <2>1, <2>2, <2>3, <2>4, LimitsAssumption
<1>2. CASE SendPart
  <2>. DEFINE c == PartCount(size)
              p == PartSize(size)
  <2>1. /\ size \in Positive /\ size <= MAX_UPLOAD_BYTES /\ sent \in Nat /\ sent < c
        /\ stored = sent * p /\ route' = "parts" /\ size' = size /\ sent' = sent + 1
        /\ stored' = stored + ExpectedPartSize(size, sent + 1)
    BY <1>2 DEF SendPart, PlanInv
  <2>2. c \in Positive /\ p \in Positive /\ (c - 1) * p < size
    BY <2>1, PlanBounds, PartSizeBounds
  <2>. HIDE DEF c, p
  <2>3. CASE sent + 1 < c
    <3>1. stored' = sent * p + p
      BY <2>1, <2>3 DEF ExpectedPartSize, c, p
    <3>2. sent * p + p = (sent + 1) * p /\ sent * p + p \in Nat
      BY <2>1, <2>2 DEF Positive
    <3>. QED BY <2>1, <2>2, <2>3, <3>1, <3>2 DEF PlanInv, Positive, c, p
  <2>4. CASE sent + 1 = c
    <3>1. stored' = sent * p + (size - (c - 1) * p)
      BY <2>1, <2>2, <2>4 DEF ExpectedPartSize, c, p
    <3>2. c - 1 = sent
      BY <2>1, <2>2, <2>4 DEF Positive
    <3>3. stored' = size
      BY <2>1, <2>2, <3>1, <3>2 DEF Positive
    <3>. QED BY <2>1, <2>2, <2>4, <3>3 DEF PlanInv, Positive, c, p
  <2>. QED BY <2>1, <2>2, <2>3, <2>4 DEF Positive
<1>3. CASE Complete
  BY <1>3 DEF Complete, PlanInv
<1>4. CASE UNCHANGED planVars
  BY <1>4 DEF PlanInv, planVars
<1>. QED BY <1>1, <1>2, <1>3, <1>4 DEF PlanNext

\* The invariant of every upload.
LEMMA PlanInvariant == PlanSpec => []PlanInv
BY PlanInvInitially, PlanInvKept, PTL DEF PlanSpec

\* Every file up to the limit of the service has a plan that the store accepts
\* (MultipartPlan::for_file_size never returns TooManyParts).
THEOREM EverySizePlanned == PlanSpec => []OnlyTooLargeRefused
<1>1. PlanInv => OnlyTooLargeRefused
  BY DEF PlanInv, OnlyTooLargeRefused
<1>. QED BY <1>1, PlanInvariant, PTL

\* The parts of a plan lie one after the other, none is empty or larger than
\* the store takes, and the last one ends with the file.
THEOREM PartsTileTheFile == PlanSpec => []PartsTile
<1>1. PlanInv => PartsTile
  <2>. SUFFICES ASSUME PlanInv, route = "parts", sent < PartCount(size)
                PROVE  LET next == ExpectedPartSize(size, sent + 1)
                       IN  /\ stored = sent * PartSize(size)
                           /\ next \in 1 .. MULTIPART_MAX_PART_BYTES
                           /\ sent + 1 < PartCount(size) => next >= MULTIPART_MIN_PART_BYTES
                           /\ stored + next <= size
    BY DEF PartsTile
  <2>. DEFINE c == PartCount(size)
              p == PartSize(size)
              next == ExpectedPartSize(size, sent + 1)
  <2>1. size \in Positive /\ size <= MAX_UPLOAD_BYTES /\ sent \in Nat /\ stored = sent * p
    BY DEF PlanInv
  <2>2. /\ c \in Positive /\ p \in Positive /\ (c - 1) * p < size /\ size <= c * p
        /\ p >= MULTIPART_MIN_PART_BYTES /\ p <= MULTIPART_MAX_PART_BYTES
    BY <2>1, PlanBounds, PartSizeBounds
  <2>3. next = IF sent + 1 < c THEN p ELSE size - (c - 1) * p
    BY DEF ExpectedPartSize
  <2>4. sent < c
    OBVIOUS
  <2>. HIDE DEF c, p, next
  <2>5. CASE sent + 1 < c
    <3>1. next = p /\ (sent + 1) * p = sent * p + p
      BY <2>1, <2>2, <2>3, <2>5 DEF Positive
    <3>2. sent + 1 <= c - 1
      BY <2>1, <2>2, <2>5 DEF Positive
    <3>3. (sent + 1) * p <= (c - 1) * p
      BY <2>1, <2>2, <3>2 DEF Positive
    <3>4. stored + next <= size
      BY <2>1, <2>2, <3>1, <3>3 DEF Positive
    <3>. QED BY <2>1, <2>2, <3>1, <3>4, LimitsAssumption DEF Positive, c, p, next
  <2>6. CASE sent + 1 = c
    <3>1. next = size - (c - 1) * p /\ sent = c - 1
      BY <2>1, <2>2, <2>3, <2>6 DEF Positive
    <3>2. c * p = (c - 1) * p + p
      BY <2>2 DEF Positive
    <3>3. next >= 1 /\ next <= p /\ stored + next = size
      BY <2>1, <2>2, <3>1, <3>2 DEF Positive
    <3>4. next \in 1 .. MULTIPART_MAX_PART_BYTES
      BY <2>1, <2>2, <3>1, <3>3, LimitsAssumption DEF Positive
    <3>. QED BY <2>1, <2>2, <2>6, <3>3, <3>4 DEF Positive, c, p, next
  <2>. QED BY <2>1, <2>2, <2>4, <2>5, <2>6 DEF Positive
<1>. QED BY <1>1, PlanInvariant, PTL

\* A transfer that has sent every part has sent the whole file.
THEOREM SentPartsAreTheFile == PlanSpec => []SentIsWhole
<1>1. PlanInv => SentIsWhole
  BY DEF PlanInv, SentIsWhole
<1>. QED BY <1>1, PlanInvariant, PTL

\* The three together: what PlansHold promises, for every size.
THEOREM PlanIsSound == PlanSpec => []PlansHold
<1>1. OnlyTooLargeRefused /\ PartsTile /\ SentIsWhole => PlansHold
  BY DEF PlansHold
<1>. QED BY <1>1, EverySizePlanned, PartsTileTheFile, SentPartsAreTheFile, PTL
===============================================================================
