------------------------ MODULE DelegatedUpload_proofs -------------------------
(***************************************************************************)
(* Safety of delegated uploads for any number of uploads, sizes and cleanup *)
(* workers.  The invariant is Inductive: a row that was never written has   *)
(* left nothing at the provider, a call that may still make an object is    *)
(* recorded as completing before it leaves, and a cleanup that has given an *)
(* upload up has seen that no such call is on its way.                      *)
(***************************************************************************)
EXTENDS DelegatedUpload, FiniteSetTheorems, TLAPS

USE UploadsAssumption, LimitsAssumption

Open == {"none", "reserved", "receiving"}

\* An upload that has sent nothing has nothing at the provider.
Untouched(u) ==
    /\ row[u].status = "none" => ~row[u].written
    /\ row[u].status \in {"none", "reserved"} => writer[u] = "none"
    /\ row[u].status \in Open /\ ~row[u].written =>
         call[u] = "none" /\ session[u] = "none" /\ learnt[u] = {}

\* A row left to cleanup is due only after the last call was given up.
Due(u) ==
    row[u].status = "cleanup_pending" =>
        row[u].written /\ row[u].after >= row[u].deadline + Grace

\* What the phase of the writer says of its calls and of the provider.
Writing(u) ==
    /\ Waiting(u) => /\ row[u].written
                     /\ row[u].status \in {"receiving", "cleanup_pending"}
                     /\ now <= row[u].deadline
                     /\ call[u] \in {writer[u], "none"}
    /\ writer[u] \in {"leased", "created", "ready", "sent", "stored"} => call[u] = "none"
    /\ writer[u] = "leased" => ~row[u].written
    /\ writer[u] \in {"leased", "created", "ready", "sent", "part", "create"} => u \notin object
    /\ writer[u] \in {"leased", "created", "ready", "sent"} \cup Calls => "object" \notin learnt[u]
    /\ writer[u] \in {"created", "ready", "sent", "part", "complete"} => session[u] # "none"
    /\ writer[u] = "stored" =>
         "object" \in learnt[u] /\ (row[u].status = "receiving" => u \in object)

\* What may still happen at the provider, and what the row says of it.
Provider(u) ==
    /\ call[u] \in {"put", "complete"} \/ u \in object => row[u].completing
    /\ call[u] = "create" \/ session[u] = "open" => row[u].written
    /\ call[u] \in {"put", "create"} => session[u] = "none"
    /\ row[u].named \/ "session" \in learnt[u] => session[u] # "none"
    /\ row[u].evidence \/ "object" \in learnt[u] \/ u \in object =>
         call[u] = "none" /\ session[u] # "open"
    /\ row[u].evidence => row[u].status \notin Open
    /\ row[u].status \in {"staged", "committed"} => u \in object
    /\ u \in version <=> row[u].status = "committed"

\* What a cleanup worker has established, whether or not it still has its claim.
Cleaning(w) ==
    LET u == job[w].upload IN
    job[w].step # "idle" =>
        /\ row[u].status \in Ended \cup {"cleanup_pending"}
        /\ ~Waiting(u)
        /\ job[w].named => session[u] # "none"
        /\ job[w].named /\ job[w].step \notin {"list", "abort"} => session[u] = "closed"
        /\ job[w].evidence => call[u] = "none" /\ session[u] # "open"
        /\ ~job[w].completing => call[u] \notin {"put", "complete"}
        /\ job[w].step \in {"delete", "confirm"} => call[u] = "none" /\ session[u] # "open"
        /\ job[w].step = "settle" =>
             u \notin object /\ session[u] # "open" /\ call[u] \notin {"put", "create", "complete"}

\* Reservations and charges together stay within both limits.
Counted ==
    /\ daily + Bytes(Pending) <= DailyLimit
    /\ stored + Bytes(Pending) <= StorageLimit

UploadHolds(u) == Untouched(u) /\ Due(u) /\ Writing(u) /\ Provider(u)

UploadsHold ==
    /\ \A u \in Uploads : UploadHolds(u)
    /\ \A w \in Workers : Cleaning(w)

Inductive == TypeOK /\ UploadsHold /\ Counted

-----------------------------------------------------------------------------
(* Rows: what each way of changing one keeps of its types and constraints. *)

Rows == [status : Statuses, written : BOOLEAN, completing : BOOLEAN,
         named : BOOLEAN, evidence : BOOLEAN, expires : Nat, lease : Nat,
         deadline : Nat, after : Nat, claim : Workers \cup {NoWorker},
         held : BOOLEAN]

Sound(r) == r \in Rows /\ RowConstraints(r)

\* A row that ends early.
LEMMA AbandonSound ==
    ASSUME NEW r, Sound(r), r.status \in Live,
           NEW end \in Ended, NEW after \in Nat, after > 0
    PROVE  /\ Sound(Abandon(r, end, after))
           /\ Abandon(r, end, after).written = r.written
           /\ Abandon(r, end, after).completing = r.completing
           /\ Abandon(r, end, after).named = r.named
           /\ Abandon(r, end, after).evidence = r.evidence
           /\ Abandon(r, end, after).deadline = r.deadline
           /\ IF r.written
              THEN /\ Abandon(r, end, after).status = "cleanup_pending"
                   /\ Abandon(r, end, after).after = after
              ELSE Abandon(r, end, after).status = end
<1> DEFINE left == [r EXCEPT !.status = "cleanup_pending", !.lease = 0, !.after = after]
           ended == [r EXCEPT !.status = end, !.lease = 0]
<1>1. r \in Rows /\ RowConstraints(r)
  BY DEF Sound
<1>2. CASE r.written
  <2>1. Abandon(r, end, after) = left
    BY <1>2 DEF Abandon
  <2>2. left \in Rows
    BY <1>1 DEF Rows, Statuses
  <2>3. /\ left.status = "cleanup_pending" /\ left.after = after /\ left.lease = 0
        /\ left.written = r.written /\ left.completing = r.completing
        /\ left.named = r.named /\ left.evidence = r.evidence
        /\ left.deadline = r.deadline /\ left.claim = r.claim
    BY <1>1 DEF Rows
  <2> HIDE DEF left
  <2>4. RowConstraints(left)
    BY <1>1, <1>2, <2>3 DEF RowConstraints, Ended
  <2> QED BY <1>2, <2>1, <2>2, <2>3, <2>4 DEF Sound
<1>3. CASE ~r.written
  <2>1. Abandon(r, end, after) = ended
    BY <1>3 DEF Abandon
  <2>2. ended \in Rows
    BY <1>1 DEF Rows, Statuses
  <2>3. /\ ended.status = end /\ ended.lease = 0
        /\ ended.written = r.written /\ ended.completing = r.completing
        /\ ended.named = r.named /\ ended.evidence = r.evidence
        /\ ended.deadline = r.deadline /\ ended.claim = r.claim
    BY <1>1 DEF Rows
  <2> HIDE DEF ended
  <2>4. RowConstraints(ended)
    BY <1>1, <1>3, <2>3 DEF RowConstraints, Ended, Live
  <2> QED BY <1>3, <2>1, <2>2, <2>3, <2>4 DEF Sound
<1> QED BY <1>2, <1>3

\* The row of a transfer whose writer is gone.
LEMMA FailSound ==
    ASSUME NEW r, Sound(r), r.status = "receiving", now \in Nat,
           NEW known \in SUBSET {"session", "object"}
    PROVE  LET new == Fail(r, known) IN
           /\ Sound(new)
           /\ IF r.written \/ known # {}
              THEN /\ new.status = "cleanup_pending" /\ new.written
                   /\ new.after >= new.deadline + Grace
                   /\ new.named = (r.named \/ "session" \in known)
                   /\ new.evidence = (r.evidence \/ "object" \in known)
                   /\ new.completing = (r.completing \/ "object" \in known)
              ELSE /\ new.status \in {"reserved", "expired"}
                   /\ new.written = r.written /\ new.completing = r.completing
                   /\ new.named = r.named /\ new.evidence = r.evidence
<1> DEFINE deadline == IF r.deadline = 0 THEN now + Timeout ELSE r.deadline
           after == CleanupDeadline(r, Larger(now, deadline))
           left == [r EXCEPT !.status = "cleanup_pending", !.written = TRUE, !.lease = 0,
                             !.deadline = deadline, !.after = after,
                             !.named = @ \/ "session" \in known,
                             !.evidence = @ \/ "object" \in known,
                             !.completing = @ \/ "object" \in known]
           again == [r EXCEPT !.status = IF r.expires > now THEN "reserved" ELSE "expired",
                              !.lease = 0]
<1>1. r \in Rows /\ RowConstraints(r)
  BY DEF Sound
<1>2. deadline \in Nat /\ deadline > 0 /\ after \in Nat /\ after >= deadline + Grace
  BY <1>1 DEF Rows, CleanupDeadline, Larger
<1> HIDE DEF deadline, after
<1>3. CASE r.written \/ known # {}
  <2>1. Fail(r, known) = left
    BY <1>3 DEF Fail, deadline, after
  <2>2. left \in Rows
    BY ZenonT(40), <1>1, <1>2 DEF Rows, Statuses
  <2>3. /\ left.status = "cleanup_pending" /\ left.after = after /\ left.lease = 0
        /\ left.written = TRUE /\ left.deadline = deadline /\ left.claim = r.claim
        /\ left.named = (r.named \/ "session" \in known)
        /\ left.evidence = (r.evidence \/ "object" \in known)
        /\ left.completing = (r.completing \/ "object" \in known)
    BY <1>1 DEF Rows
  <2> HIDE DEF left
  <2>4. RowConstraints(left)
    BY <1>1, <1>2, <2>3 DEF RowConstraints, Ended
  <2> QED BY <1>2, <1>3, <2>1, <2>2, <2>3, <2>4 DEF Sound
<1>4. CASE ~(r.written \/ known # {})
  <2>1. Fail(r, known) = again
    BY <1>4 DEF Fail
  <2>2. again \in Rows
    BY <1>1 DEF Rows, Statuses, Live, Ended
  <2>3. /\ again.status \in {"reserved", "expired"} /\ again.lease = 0
        /\ again.written = r.written /\ again.completing = r.completing
        /\ again.named = r.named /\ again.evidence = r.evidence
        /\ again.deadline = r.deadline /\ again.claim = r.claim
    BY <1>1 DEF Rows
  <2> HIDE DEF again
  <2>4. RowConstraints(again)
    BY <1>1, <1>4, <2>3 DEF RowConstraints, Ended
  <2> QED BY <1>4, <2>1, <2>2, <2>3, <2>4 DEF Sound
<1> QED BY <1>3, <1>4

\* A settled row.
LEMMA SettledSound ==
    ASSUME NEW r, Sound(r), r.status = "cleanup_pending", now \in Nat
    PROVE  /\ Sound(Settled(r))
           /\ Settled(r).status \in Ended
           /\ ~Settled(r).written /\ ~Settled(r).completing
           /\ Settled(r).named = r.named /\ Settled(r).evidence = r.evidence
<1> DEFINE new == Settled(r)
<1>1. r \in Rows /\ RowConstraints(r)
  BY DEF Sound
<1>2. new \in Rows
  BY <1>1 DEF Rows, Settled, Statuses, Ended
<1>3. /\ new.status \in {"expired", "cancelled"} /\ new.lease = 0 /\ new.claim = NoWorker
      /\ new.written = FALSE /\ new.completing = FALSE
      /\ new.named = r.named /\ new.evidence = r.evidence
  BY <1>1 DEF Rows, Settled
<1> HIDE DEF new
<1>4. RowConstraints(new)
  BY <1>3 DEF RowConstraints, Ended
<1> QED BY <1>2, <1>3, <1>4 DEF Sound, Ended, new

\* Every row is sound.
LEMMA RowSound ==
    ASSUME TypeOK, NEW u \in Uploads
    PROVE  Sound(row[u])
<1>1. row \in [Uploads -> Rows]
  BY DEF TypeOK, Rows
<1> QED BY <1>1 DEF TypeOK, Sound

\* One row changes, to a sound one.
LEMMA RowChanges ==
    ASSUME TypeOK, NEW u \in Uploads, NEW new, Sound(new), row' = [row EXCEPT ![u] = new]
    PROVE  /\ row' \in [Uploads -> Rows]
           /\ \A v \in Uploads : RowConstraints(row'[v])
           /\ row'[u] = new
           /\ \A v \in Uploads \ {u} : row'[v] = row[v]
<1>1. row \in [Uploads -> Rows] /\ \A v \in Uploads : RowConstraints(row[v])
  BY DEF TypeOK, Rows
<1>2. row'[u] = new /\ \A v \in Uploads \ {u} : row'[v] = row[v]
  BY <1>1
<1>3. row' \in [Uploads -> Rows]
  BY <1>1 DEF Sound
<1> QED BY <1>1, <1>2, <1>3 DEF Sound

-----------------------------------------------------------------------------
(* What a step leaves alone. *)

Same(u) ==
    /\ row'[u] = row[u] /\ writer'[u] = writer[u] /\ learnt'[u] = learnt[u]
    /\ call'[u] = call[u] /\ session'[u] = session[u]
    /\ u \in object' <=> u \in object
    /\ u \in version' <=> u \in version

\* Nothing is called again for an upload that cleanup has been given.
NoRevival(u) ==
    /\ row[u].status \in Ended \cup {"cleanup_pending"} /\ ~Waiting(u) =>
         /\ row'[u].status \in Ended \cup {"cleanup_pending"}
         /\ ~Waiting(u)'
         /\ call'[u] \in {call[u], "none"}
    /\ \/ session'[u] = session[u]
       \/ session[u] # "none" /\ session'[u] = "closed"
       \/ call[u] = "create"
    /\ u \in object' => u \in object \/ call[u] \in {"put", "complete"}

\* What is said of an upload depends on that upload alone.
LEMMA Elsewhere ==
    ASSUME NEW u \in Uploads, UploadHolds(u), Same(u), now' = now
    PROVE  UploadHolds(u)'
  BY DEF UploadHolds, Same, Untouched, Due, Writing, Provider, Waiting

\* What a worker has established stays established.
LEMMA JobKept ==
    ASSUME TypeOK, NEW w \in Workers, Cleaning(w), UNCHANGED job[w],
           job[w].step # "idle" => Provider(job[w].upload) /\ NoRevival(job[w].upload)
    PROVE  Cleaning(w)'
<1> SUFFICES ASSUME job[w].step # "idle" PROVE Cleaning(w)'
  BY DEF Cleaning
<1> DEFINE u == job[w].upload
<1>1. u \in Uploads /\ session[u] \in {"none", "open", "closed"}
  BY DEF TypeOK, Idle
<1> QED BY <1>1 DEF Cleaning, Provider, NoRevival, Waiting

\* A step that concerns one upload and no worker.
LEMMA OneUpload ==
    ASSUME TypeOK, UploadsHold, NEW u \in Uploads,
           \A v \in Uploads \ {u} : Same(v), UNCHANGED <<now, job>>,
           UploadHolds(u)', NoRevival(u)
    PROVE  UploadsHold'
<1>1. ASSUME NEW v \in Uploads PROVE UploadHolds(v)'
  BY Elsewhere DEF UploadsHold
<1>2. ASSUME NEW v \in Uploads PROVE NoRevival(v)
  BY DEF Same, NoRevival, Waiting
<1>3. ASSUME NEW w \in Workers PROVE Cleaning(w)'
  <2>1. job[w].step # "idle" => job[w].upload \in Uploads
    BY DEF TypeOK, Idle
  <2> QED BY <2>1, <1>2, JobKept DEF UploadsHold, UploadHolds
<1> QED BY <1>1, <1>3 DEF UploadsHold

-----------------------------------------------------------------------------
(* Requests of the client, and the sweep. *)

\* A row that ends before it is settled or published.
LEMMA AbandonHolds ==
    ASSUME TypeOK, UploadsHold, NEW u \in Uploads, row[u].status \in Live,
           NEW end \in Ended, NEW after \in Nat, after >= row[u].deadline + Grace,
           row' = [row EXCEPT ![u] = Abandon(@, end, after)],
           UNCHANGED <<usage, now, writer, learnt, commit, provider, version, job>>
    PROVE  TypeOK' /\ UploadsHold' /\ Pending' \subseteq Pending
<1> DEFINE new == Abandon(row[u], end, after)
<1>1. Sound(row[u]) /\ row[u].deadline \in Nat /\ after > 0
  BY RowSound DEF Sound, Rows
<1>2. /\ Sound(new)
      /\ new.written = row[u].written /\ new.completing = row[u].completing
      /\ new.named = row[u].named /\ new.evidence = row[u].evidence
      /\ new.deadline = row[u].deadline
      /\ IF row[u].written
         THEN new.status = "cleanup_pending" /\ new.after = after
         ELSE new.status = end
  BY <1>1, AbandonSound
<1> HIDE DEF new
<1>3. /\ row' \in [Uploads -> Rows]
      /\ \A v \in Uploads : RowConstraints(row'[v])
      /\ row'[u] = new
      /\ \A v \in Uploads \ {u} : row'[v] = row[v]
  BY <1>2, RowChanges DEF new
<1>4. TypeOK'
  BY <1>3 DEF TypeOK, Rows, usage, provider
<1>5. UploadHolds(u)'
  <2> USE <1>2, <1>3 DEF provider
  <2>1. Untouched(u) /\ Due(u) /\ Writing(u) /\ Provider(u) /\ RowConstraints(row[u])
    BY DEF UploadsHold, UploadHolds, TypeOK
  <2>2. Untouched(u)' /\ Due(u)'
    BY <2>1 DEF Untouched, Due, Open, Live, Ended
  <2>3. Writing(u)'
    BY <2>1 DEF Writing, Waiting, Live, Ended
  <2>4. Provider(u)'
    BY <2>1, <1>1 DEF Provider, Live, Ended, Open, RowConstraints
  <2> QED BY <2>2, <2>3, <2>4 DEF UploadHolds
<1>6. NoRevival(u)
  BY <1>2, <1>3 DEF NoRevival, Live, Ended, provider, Waiting
<1>7. \A v \in Uploads \ {u} : Same(v)
  BY <1>3 DEF Same, provider
<1>8. UploadsHold'
  BY <1>5, <1>6, <1>7, OneUpload
<1>9. Pending' \subseteq Pending
  BY <1>3 DEF Pending, Live
<1> QED BY <1>4, <1>8, <1>9

\* A sweep ends reservations and leases that have passed their time.
LEMMA ExpireHolds ==
    ASSUME TypeOK, UploadsHold, NEW u \in Uploads, Expire(u) \/ Cancel(u) \/ Sweep(u)
    PROVE  TypeOK' /\ UploadsHold' /\ Pending' \subseteq Pending
<1>1. now \in Nat /\ row[u].lease \in Nat /\ row[u].deadline \in Nat
  BY DEF TypeOK
<1>2. CASE Expire(u) \/ Cancel(u)
  <2> DEFINE after == CleanupDeadline(row[u], now)
  <2>1. after \in Nat /\ after >= row[u].deadline + Grace
    BY <1>1 DEF CleanupDeadline, Larger
  <2>2. row[u].status \in Live
    BY <1>2 DEF Expire, Cancel
  <2>3. PICK end \in Ended : row' = [row EXCEPT ![u] = Abandon(@, end, after)]
    BY <1>2 DEF Expire, Cancel, Ended
  <2> HIDE DEF after
  <2> QED BY <1>2, <2>1, <2>2, <2>3, AbandonHolds DEF Expire, Cancel
<1>3. CASE Sweep(u)
  <2> DEFINE after == Larger(now, Larger(IF row[u].lease = 0 THEN 0 ELSE row[u].lease + Grace,
                                         row[u].deadline + Grace))
  <2>1. after \in Nat /\ after >= row[u].deadline + Grace
    BY <1>1 DEF Larger
  <2>2. row[u].status \in Live
    BY <1>3 DEF Sweep, Live
  <2>3. "expired" \in Ended /\ row' = [row EXCEPT ![u] = Abandon(@, "expired", after)]
    BY <1>3 DEF Sweep, Ended
  <2> HIDE DEF after
  <2> QED BY <1>3, <2>1, <2>2, <2>3, AbandonHolds DEF Sweep
<1> QED BY <1>2, <1>3

\* A reservation charges pending bytes that fit under the limits.
LEMMA ReserveHolds ==
    ASSUME TypeOK, UploadsHold, NEW u \in Uploads, Reserve(u)
    PROVE  TypeOK' /\ UploadsHold' /\ Pending' = Pending \cup {u}
<1> DEFINE new == [NoRow EXCEPT !.status = "reserved", !.expires = now + TTL]
<1>1. Sound(new) /\ new.status = "reserved" /\ ~new.written /\ ~new.completing
      /\ ~new.named /\ ~new.evidence
  <2> now + TTL \in Nat
    BY DEF TypeOK
  <2>1. new \in Rows
    BY DEF Rows, NoRow, Statuses, Live
  <2>2. /\ new.status = "reserved" /\ new.lease = 0 /\ new.claim = NoWorker
        /\ new.written = FALSE /\ new.completing = FALSE
        /\ new.named = FALSE /\ new.evidence = FALSE
    BY DEF NoRow
  <2> HIDE DEF new
  <2>3. RowConstraints(new)
    BY <2>2 DEF RowConstraints, Ended
  <2> QED BY <2>1, <2>2, <2>3 DEF Sound
<1>2. row' = [row EXCEPT ![u] = new] /\ row[u].status = "none"
  BY DEF Reserve
<1> HIDE DEF new
<1>3. /\ row' \in [Uploads -> Rows]
      /\ \A v \in Uploads : RowConstraints(row'[v])
      /\ row'[u] = new
      /\ \A v \in Uploads \ {u} : row'[v] = row[v]
  BY <1>1, <1>2, RowChanges
<1>4. TypeOK'
  BY <1>3 DEF TypeOK, Rows, usage, provider, Reserve, ReserveCapacity
<1>5. Untouched(u) /\ Due(u) /\ Writing(u) /\ Provider(u) /\ RowConstraints(row[u])
  BY DEF UploadsHold, UploadHolds, TypeOK
<1>6. UploadHolds(u)'
  <2> USE <1>1, <1>2, <1>3, <1>5 DEF Reserve, provider
  <2>1. Untouched(u)' /\ Due(u)'
    BY DEF Untouched, Due, Open
  <2>2. Writing(u)'
    BY DEF Writing, Waiting, Untouched, Calls, Open
  <2>3. Provider(u)'
    BY DEF Provider, Open, Untouched, RowConstraints
  <2> QED BY <2>1, <2>2, <2>3 DEF UploadHolds
<1>7. NoRevival(u) /\ \A v \in Uploads \ {u} : Same(v)
  BY <1>2, <1>3 DEF NoRevival, Same, Reserve, provider, Ended
<1>8. UploadsHold'
  BY <1>6, <1>7, OneUpload DEF Reserve
<1>9. Pending' = Pending \cup {u}
  BY <1>1, <1>3 DEF Pending
<1> QED BY <1>4, <1>8, <1>9

\* A capability is claimed only while nothing was sent under it.
LEMMA ClaimTransferHolds ==
    ASSUME TypeOK, UploadsHold, NEW u \in Uploads, ClaimTransfer(u)
    PROVE  TypeOK' /\ UploadsHold' /\ Pending' \subseteq Pending
<1> DEFINE new == [row[u] EXCEPT !.status = "receiving", !.lease = now + Lease]
<1>1. Sound(row[u]) /\ now \in Nat /\ row[u].status = "reserved"
  BY RowSound DEF TypeOK, ClaimTransfer
<1>2. /\ Sound(new) /\ new.status = "receiving"
      /\ new.written = row[u].written /\ new.completing = row[u].completing
      /\ new.named = row[u].named /\ new.evidence = row[u].evidence
  <2>1. row[u] \in Rows /\ RowConstraints(row[u])
    BY <1>1 DEF Sound
  <2> now + Lease \in Nat /\ now + Lease > 0
    BY <1>1
  <2>2. new \in Rows
    BY <1>1, <2>1 DEF Rows, Statuses, Live
  <2>3. /\ new.status = "receiving" /\ new.lease = now + Lease /\ new.claim = row[u].claim
        /\ new.written = row[u].written /\ new.completing = row[u].completing
        /\ new.named = row[u].named /\ new.evidence = row[u].evidence
        /\ new.deadline = row[u].deadline
    BY <2>1 DEF Rows
  <2> HIDE DEF new
  <2>4. RowConstraints(new)
    BY <1>1, <2>1, <2>3 DEF RowConstraints, Ended
  <2> QED BY <1>1, <2>2, <2>3, <2>4 DEF Sound
<1>3. row' = [row EXCEPT ![u] = new]
  BY DEF ClaimTransfer, TypeOK
<1> HIDE DEF new
<1>4. /\ row' \in [Uploads -> Rows]
      /\ \A v \in Uploads : RowConstraints(row'[v])
      /\ row'[u] = new
      /\ \A v \in Uploads \ {u} : row'[v] = row[v]
  BY <1>2, <1>3, RowChanges
<1>5. /\ writer' = [writer EXCEPT ![u] = "leased"] /\ learnt' = [learnt EXCEPT ![u] = {}]
      /\ UNCHANGED <<usage, now, commit, call, session, object, version, job>>
  BY DEF ClaimTransfer, WriterGoes, provider
<1>6. /\ writer'[u] = "leased" /\ learnt'[u] = {}
      /\ \A v \in Uploads \ {u} : writer'[v] = writer[v] /\ learnt'[v] = learnt[v]
  BY <1>5 DEF TypeOK
<1>7. TypeOK'
  <2>1. /\ writer' \in [Uploads -> Calls \cup {"none", "leased", "created", "ready", "sent",
                                               "unsure", "stored", "dropped"}]
        /\ learnt' \in [Uploads -> SUBSET {"session", "object"}]
    BY <1>5 DEF TypeOK
  <2> QED BY <1>4, <1>5, <2>1 DEF TypeOK, Rows, usage
<1>8. Untouched(u) /\ Due(u) /\ Writing(u) /\ Provider(u) /\ RowConstraints(row[u])
  BY DEF UploadsHold, UploadHolds, TypeOK
<1>9. UploadHolds(u)'
  <2> USE <1>1, <1>2, <1>4, <1>5, <1>6, <1>8
  <2>1. ~row[u].written /\ call[u] = "none" /\ session[u] = "none" /\ u \notin object
    BY DEF Untouched, Open, RowConstraints, Provider
  <2>2. Untouched(u)' /\ Due(u)'
    BY <2>1 DEF Untouched, Due, Open
  <2>3. Writing(u)'
    BY <2>1 DEF Writing, Waiting, Calls
  <2>4. Provider(u)'
    BY <2>1 DEF Provider, Open
  <2> QED BY <2>2, <2>3, <2>4 DEF UploadHolds
<1>10. NoRevival(u) /\ \A v \in Uploads \ {u} : Same(v)
  BY <1>1, <1>4, <1>5, <1>6 DEF NoRevival, Same, Ended
<1>11. UploadsHold'
  BY <1>5, <1>9, <1>10, OneUpload
<1>12. Pending' \subseteq Pending
  BY <1>1, <1>2, <1>4 DEF Pending
<1> QED BY <1>7, <1>11, <1>12

-----------------------------------------------------------------------------
(* The writer. *)

\* A call leaves under a lease, marked in the row before.
LEMMA StartCallHolds ==
    ASSUME TypeOK, UploadsHold, NEW u \in Uploads,
           NEW from, NEW kind, NEW completing \in BOOLEAN,
           StartCall(u, from, kind, completing),
           \/ from = {"leased"} /\ kind = "put" /\ completing
           \/ from = {"leased"} /\ kind = "create"
           \/ from = {"ready"} /\ kind = "part"
           \/ from = {"sent"} /\ kind = "complete" /\ completing
    PROVE  TypeOK' /\ UploadsHold' /\ Pending' \subseteq Pending
<1> DEFINE new == [row[u] EXCEPT !.written = TRUE, !.completing = @ \/ completing,
                                 !.deadline = now + Timeout]
<1>1. Sound(row[u]) /\ now \in Nat /\ row[u].status = "receiving" /\ kind \in Calls
  BY RowSound DEF TypeOK, StartCall, RequireWriter, Calls
<1>2. /\ Sound(new) /\ new.status = "receiving" /\ new.written
      /\ new.completing = (row[u].completing \/ completing)
      /\ new.named = row[u].named /\ new.evidence = row[u].evidence
      /\ new.deadline = now + Timeout
  <2>1. row[u] \in Rows /\ RowConstraints(row[u])
    BY <1>1 DEF Sound
  <2> now + Timeout \in Nat /\ now + Timeout > 0
    BY <1>1
  <2> (row[u].completing \/ completing) \in BOOLEAN
    OBVIOUS
  <2>2. new \in Rows
    BY <1>1, <2>1 DEF Rows, Statuses, Live
  <2>3. /\ new.status = row[u].status /\ new.lease = row[u].lease /\ new.claim = row[u].claim
        /\ new.written = TRUE /\ new.completing = (row[u].completing \/ completing)
        /\ new.named = row[u].named /\ new.evidence = row[u].evidence
        /\ new.deadline = now + Timeout
    BY <2>1 DEF Rows
  <2> HIDE DEF new
  <2>4. RowConstraints(new)
    BY <1>1, <2>1, <2>3 DEF RowConstraints, Ended
  <2> QED BY <1>1, <2>2, <2>3, <2>4 DEF Sound
<1>3. row' = [row EXCEPT ![u] = new]
  BY DEF StartCall, TypeOK
<1> HIDE DEF new
<1>4. /\ row' \in [Uploads -> Rows]
      /\ \A v \in Uploads : RowConstraints(row'[v])
      /\ row'[u] = new
      /\ \A v \in Uploads \ {u} : row'[v] = row[v]
  BY <1>2, <1>3, RowChanges
<1>5. /\ writer' = [writer EXCEPT ![u] = kind] /\ call' = [call EXCEPT ![u] = kind]
      /\ UNCHANGED <<usage, now, learnt, commit, session, object, version, job>>
      /\ writer[u] \in from
  BY DEF StartCall, WriterGoes
<1>6. /\ writer'[u] = kind /\ call'[u] = kind
      /\ \A v \in Uploads \ {u} : writer'[v] = writer[v] /\ call'[v] = call[v]
  BY <1>5 DEF TypeOK
<1>7. TypeOK'
  <2>1. /\ writer' \in [Uploads -> Calls \cup {"none", "leased", "created", "ready", "sent",
                                               "unsure", "stored", "dropped"}]
        /\ call' \in [Uploads -> Calls \cup {"none"}]
    BY <1>1, <1>5 DEF TypeOK
  <2> QED BY <1>4, <1>5, <2>1 DEF TypeOK, Rows, usage
<1>8. Untouched(u) /\ Due(u) /\ Writing(u) /\ Provider(u) /\ RowConstraints(row[u])
  BY DEF UploadsHold, UploadHolds, TypeOK
<1>9. UploadHolds(u)'
  <2> USE <1>1, <1>2, <1>4, <1>5, <1>6, <1>8
  <2>1. /\ call[u] = "none" /\ u \notin object /\ "object" \notin learnt[u] /\ ~row[u].evidence
        /\ writer[u] = "leased" => session[u] = "none"
        /\ writer[u] # "leased" => session[u] # "none"
    BY DEF Writing, Provider, Untouched, Open
  <2>2. Untouched(u)' /\ Due(u)'
    BY DEF Untouched, Due, Open
  <2>3. Writing(u)'
    BY <2>1 DEF Writing, Waiting, Calls
  <2>4. Provider(u)'
    BY <2>1 DEF Provider, Open, Calls
  <2> QED BY <2>2, <2>3, <2>4 DEF UploadHolds
<1>10. NoRevival(u) /\ \A v \in Uploads \ {u} : Same(v)
  BY <1>1, <1>4, <1>5, <1>6 DEF NoRevival, Same, Ended
<1>11. UploadsHold'
  BY <1>5, <1>9, <1>10, OneUpload
<1>12. Pending' \subseteq Pending
  BY <1>1, <1>2, <1>4 DEF Pending
<1> QED BY <1>7, <1>11, <1>12

\* The session's name is recorded.
LEMMA RecordMultipartHolds ==
    ASSUME TypeOK, UploadsHold, NEW u \in Uploads, RecordMultipart(u)
    PROVE  TypeOK' /\ UploadsHold' /\ Pending' \subseteq Pending
<1> DEFINE new == [row[u] EXCEPT !.named = TRUE]
<1>1. Sound(row[u]) /\ row[u].status = "receiving" /\ row[u].written
  BY RowSound DEF TypeOK, RecordMultipart, RequireWriter
<1>2. /\ Sound(new) /\ new.status = "receiving" /\ new.written
      /\ new.completing = row[u].completing /\ new.named
      /\ new.evidence = row[u].evidence /\ new.deadline = row[u].deadline
  BY <1>1 DEF Sound, Rows, Statuses, Live, RowConstraints, Ended
<1>3. row' = [row EXCEPT ![u] = new]
  BY DEF RecordMultipart, TypeOK
<1> HIDE DEF new
<1>4. /\ row' \in [Uploads -> Rows]
      /\ \A v \in Uploads : RowConstraints(row'[v])
      /\ row'[u] = new
      /\ \A v \in Uploads \ {u} : row'[v] = row[v]
  BY <1>2, <1>3, RowChanges
<1>5. /\ writer[u] = "created" /\ writer' = [writer EXCEPT ![u] = "ready"]
      /\ UNCHANGED <<usage, now, learnt, commit, call, session, object, version, job>>
  BY DEF RecordMultipart, WriterGoes, provider
<1>6. writer'[u] = "ready" /\ \A v \in Uploads \ {u} : writer'[v] = writer[v]
  BY <1>5 DEF TypeOK
<1>7. TypeOK'
  <2>1. writer' \in [Uploads -> Calls \cup {"none", "leased", "created", "ready", "sent",
                                            "unsure", "stored", "dropped"}]
    BY <1>5 DEF TypeOK
  <2> QED BY <1>4, <1>5, <2>1 DEF TypeOK, Rows, usage
<1>8. Untouched(u) /\ Due(u) /\ Writing(u) /\ Provider(u)
  BY DEF UploadsHold, UploadHolds
<1>9. UploadHolds(u)'
  <2> USE <1>1, <1>2, <1>4, <1>5, <1>6, <1>8
  <2>1. Untouched(u)' /\ Due(u)'
    BY DEF Untouched, Due, Open
  <2>2. Writing(u)'
    BY DEF Writing, Waiting, Calls
  <2>3. Provider(u)'
    BY DEF Provider, Open, Writing
  <2> QED BY <2>1, <2>2, <2>3 DEF UploadHolds
<1>10. NoRevival(u) /\ \A v \in Uploads \ {u} : Same(v)
  BY <1>1, <1>4, <1>5, <1>6 DEF NoRevival, Same, Ended
<1>11. UploadsHold'
  BY <1>5, <1>9, <1>10, OneUpload
<1>12. Pending' \subseteq Pending
  BY <1>1, <1>2, <1>4 DEF Pending
<1> QED BY <1>7, <1>11, <1>12

\* The transfer is staged with the evidence of its object.
LEMMA CompleteTransferHolds ==
    ASSUME TypeOK, UploadsHold, NEW u \in Uploads, CompleteTransfer(u)
    PROVE  TypeOK' /\ UploadsHold' /\ Pending' \subseteq Pending
<1> DEFINE new == [row[u] EXCEPT !.status = "staged", !.lease = 0, !.evidence = TRUE]
<1>1. /\ Sound(row[u]) /\ row[u].status = "receiving"
      /\ row[u].written /\ row[u].completing
  BY RowSound DEF TypeOK, CompleteTransfer, RequireWriter
<1>2. /\ Sound(new) /\ new.status = "staged" /\ new.written /\ new.completing
      /\ new.named = row[u].named /\ new.evidence
  <2>1. row[u] \in Rows /\ RowConstraints(row[u])
    BY <1>1 DEF Sound
  <2>2. new \in Rows
    BY <1>1, <2>1 DEF Rows, Statuses, Live
  <2>3. /\ new.status = "staged" /\ new.lease = 0 /\ new.claim = row[u].claim
        /\ new.written = row[u].written /\ new.completing = row[u].completing
        /\ new.named = row[u].named /\ new.evidence = TRUE
        /\ new.deadline = row[u].deadline
    BY <2>1 DEF Rows
  <2> HIDE DEF new
  <2>4. RowConstraints(new)
    BY <1>1, <2>1, <2>3 DEF RowConstraints, Ended
  <2> QED BY <1>1, <2>2, <2>3, <2>4 DEF Sound
<1>3. row' = [row EXCEPT ![u] = new]
  BY DEF CompleteTransfer, TypeOK
<1> HIDE DEF new
<1>4. /\ row' \in [Uploads -> Rows]
      /\ \A v \in Uploads : RowConstraints(row'[v])
      /\ row'[u] = new
      /\ \A v \in Uploads \ {u} : row'[v] = row[v]
  BY <1>2, <1>3, RowChanges
<1>5. PICK phase \in {"none", "dropped"} : writer' = [writer EXCEPT ![u] = phase]
  BY DEF CompleteTransfer, WriterGoes
<1>6. /\ writer[u] = "stored"
      /\ UNCHANGED <<usage, now, learnt, commit, call, session, object, version, job>>
  BY DEF CompleteTransfer, provider
<1>7. writer'[u] = phase /\ \A v \in Uploads \ {u} : writer'[v] = writer[v]
  BY <1>5 DEF TypeOK
<1>8. TypeOK'
  <2>1. writer' \in [Uploads -> Calls \cup {"none", "leased", "created", "ready", "sent",
                                            "unsure", "stored", "dropped"}]
    BY <1>5 DEF TypeOK
  <2> QED BY <1>4, <1>6, <2>1 DEF TypeOK, Rows, usage
<1>9. Untouched(u) /\ Due(u) /\ Writing(u) /\ Provider(u)
  BY DEF UploadsHold, UploadHolds
<1>10. UploadHolds(u)'
  <2> USE <1>1, <1>2, <1>4, <1>6, <1>7, <1>9
  <2>1. Untouched(u)' /\ Due(u)'
    BY DEF Untouched, Due, Open
  <2>2. Writing(u)'
    BY DEF Writing, Waiting, Calls
  <2>3. Provider(u)'
    BY DEF Provider, Open, Writing
  <2> QED BY <2>1, <2>2, <2>3 DEF UploadHolds
<1>11. NoRevival(u) /\ \A v \in Uploads \ {u} : Same(v)
  BY <1>1, <1>4, <1>6, <1>7 DEF NoRevival, Same, Ended
<1>12. UploadsHold'
  BY <1>6, <1>10, <1>11, OneUpload
<1>13. Pending' \subseteq Pending
  BY <1>1, <1>2, <1>4 DEF Pending
<1> QED BY <1>8, <1>12, <1>13

\* The task that a dropped lease leaves behind.
LEMMA FailTransferHolds ==
    ASSUME TypeOK, UploadsHold, NEW u \in Uploads, FailTransfer(u)
    PROVE  TypeOK' /\ UploadsHold' /\ Pending' \subseteq Pending
<1> DEFINE new == IF row[u].status = "receiving" THEN Fail(row[u], learnt[u]) ELSE row[u]
<1>1. /\ Sound(row[u]) /\ now \in Nat /\ learnt[u] \in SUBSET {"session", "object"}
  BY RowSound DEF TypeOK
<1>2. /\ Sound(new)
      /\ IF row[u].status # "receiving" THEN new = row[u]
         ELSE IF row[u].written \/ learnt[u] # {}
         THEN /\ new.status = "cleanup_pending" /\ new.written
              /\ new.after >= new.deadline + Grace
              /\ new.named = (row[u].named \/ "session" \in learnt[u])
              /\ new.evidence = (row[u].evidence \/ "object" \in learnt[u])
              /\ new.completing = (row[u].completing \/ "object" \in learnt[u])
         ELSE /\ new.status \in {"reserved", "expired"}
              /\ new.written = row[u].written /\ new.completing = row[u].completing
              /\ new.named = row[u].named /\ new.evidence = row[u].evidence
  <2>1. CASE row[u].status = "receiving"
    <3>1. new = Fail(row[u], learnt[u])
      BY <2>1
    <3> HIDE DEF new
    <3> QED BY <1>1, <2>1, <3>1, FailSound
  <2>2. CASE row[u].status # "receiving"
    BY <1>1, <2>2
  <2> QED BY <2>1, <2>2
<1>3. row' = [row EXCEPT ![u] = new]
  BY DEF FailTransfer, TypeOK
<1> HIDE DEF new
<1>4. /\ row' \in [Uploads -> Rows]
      /\ \A v \in Uploads : RowConstraints(row'[v])
      /\ row'[u] = new
      /\ \A v \in Uploads \ {u} : row'[v] = row[v]
  BY <1>2, <1>3, RowChanges
<1>5. /\ writer[u] = "dropped" /\ writer' = [writer EXCEPT ![u] = "none"]
      /\ UNCHANGED <<usage, now, learnt, commit, call, session, object, version, job>>
  BY DEF FailTransfer, WriterGoes, provider
<1>6. writer'[u] = "none" /\ \A v \in Uploads \ {u} : writer'[v] = writer[v]
  BY <1>5 DEF TypeOK
<1>7. TypeOK'
  <2>1. writer' \in [Uploads -> Calls \cup {"none", "leased", "created", "ready", "sent",
                                            "unsure", "stored", "dropped"}]
    BY <1>5 DEF TypeOK
  <2> QED BY <1>4, <1>5, <2>1 DEF TypeOK, Rows, usage
<1>8. Untouched(u) /\ Due(u) /\ Writing(u) /\ Provider(u)
  BY DEF UploadsHold, UploadHolds
<1>9. UploadHolds(u)'
  <2> USE <1>2, <1>4, <1>5, <1>6, <1>8
  <2>1. Untouched(u)'
    BY DEF Untouched, Open
  <2>2. Due(u)'
    BY DEF Due
  <2>3. Writing(u)'
    BY DEF Writing, Waiting, Calls
  <2>4. Provider(u)'
    BY <1>1 DEF Provider, Open
  <2> QED BY <2>1, <2>2, <2>3, <2>4 DEF UploadHolds
<1>10. NoRevival(u) /\ \A v \in Uploads \ {u} : Same(v)
  BY <1>2, <1>4, <1>5, <1>6 DEF NoRevival, Same, Ended, Waiting, Calls
<1>11. UploadsHold'
  BY <1>5, <1>9, <1>10, OneUpload
<1>12. Pending' \subseteq Pending
  BY <1>2, <1>4 DEF Pending
<1> QED BY <1>7, <1>11, <1>12

\* Steps in which only the writer moves: it finds its object, or gives up.
LEMMA WriterMoves ==
    ASSUME TypeOK, UploadsHold, NEW u \in Uploads,
           Reconcile(u) \/ Drop(u) \/ WriterCrash(u) \/ ErrorOrTimeout(u)
    PROVE  TypeOK' /\ UploadsHold' /\ Pending' \subseteq Pending
<1>1. /\ UNCHANGED <<usage, now, row, commit, call, session, object, version, job>>
      /\ \/ /\ writer[u] = "unsure" /\ u \in object
            /\ writer' = [writer EXCEPT ![u] = "stored"]
            /\ learnt' = [learnt EXCEPT ![u] = @ \cup {"object"}]
         \/ /\ writer[u] # "none" /\ UNCHANGED learnt
            /\ \E phase \in {"none", "dropped", "unsure"} :
                 /\ writer' = [writer EXCEPT ![u] = phase]
                 /\ phase = "unsure" => Waiting(u)
  BY DEF Reconcile, Drop, WriterCrash, ErrorOrTimeout, WriterGoes, Learn, provider,
         Waiting, Calls
<1>2. /\ \A v \in Uploads \ {u} : writer'[v] = writer[v] /\ learnt'[v] = learnt[v]
      /\ writer' \in [Uploads -> Calls \cup {"none", "leased", "created", "ready", "sent",
                                             "unsure", "stored", "dropped"}]
      /\ learnt' \in [Uploads -> SUBSET {"session", "object"}]
  <2>1. learnt \in [Uploads -> SUBSET {"session", "object"}]
        /\ writer \in [Uploads -> Calls \cup {"none", "leased", "created", "ready", "sent",
                                              "unsure", "stored", "dropped"}]
    BY DEF TypeOK
  <2>2. learnt[u] \cup {"object"} \in SUBSET {"session", "object"}
    BY <2>1
  <2>3. CASE writer' = [writer EXCEPT ![u] = "stored"]
             /\ learnt' = [learnt EXCEPT ![u] = @ \cup {"object"}]
    BY <2>1, <2>2, <2>3
  <2>4. CASE UNCHANGED learnt
             /\ \E phase \in {"none", "dropped", "unsure"} : writer' = [writer EXCEPT ![u] = phase]
    BY <2>1, <2>4
  <2> QED BY <1>1, <2>3, <2>4
<1>3. TypeOK'
  BY <1>1, <1>2 DEF TypeOK, usage
<1>4. \/ /\ writer[u] = "unsure" /\ u \in object /\ writer'[u] = "stored"
         /\ learnt'[u] = learnt[u] \cup {"object"}
      \/ /\ writer[u] # "none" /\ learnt'[u] = learnt[u]
         /\ writer'[u] \in {"none", "dropped", "unsure"}
  BY <1>1 DEF TypeOK
<1>5. Untouched(u) /\ Due(u) /\ Writing(u) /\ Provider(u) /\ RowConstraints(row[u])
  BY DEF UploadsHold, UploadHolds, TypeOK
<1>6. UploadHolds(u)'
  <2> USE <1>1, <1>4, <1>5
  <2>1. Untouched(u)' /\ Due(u)'
    BY DEF Untouched, Due, Provider, RowConstraints
  <2>2. Writing(u)'
    BY DEF Writing, Waiting, Calls, Provider
  <2>3. Provider(u)'
    BY DEF Provider
  <2> QED BY <2>1, <2>2, <2>3 DEF UploadHolds
<1>7. NoRevival(u) /\ \A v \in Uploads \ {u} : Same(v)
  BY <1>1, <1>2, <1>4 DEF NoRevival, Same, Waiting, Calls
<1>8. UploadsHold'
  BY <1>1, <1>6, <1>7, OneUpload
<1> QED BY <1>1, <1>3, <1>8 DEF Pending

-----------------------------------------------------------------------------
(* The object store. *)

\* A call is refused or lost.
LEMMA NoEffectHolds ==
    ASSUME TypeOK, UploadsHold, NEW u \in Uploads, NoEffect(u)
    PROVE  TypeOK' /\ UploadsHold' /\ Pending' \subseteq Pending
<1>1. /\ call' = [call EXCEPT ![u] = "none"]
      /\ UNCHANGED <<usage, now, row, writer, learnt, commit, session, object, version, job>>
  BY DEF NoEffect
<1>2. /\ call'[u] = "none" /\ \A v \in Uploads \ {u} : call'[v] = call[v]
      /\ call' \in [Uploads -> Calls \cup {"none"}]
  BY <1>1 DEF TypeOK
<1>3. TypeOK'
  BY <1>1, <1>2 DEF TypeOK, usage
<1>4. Untouched(u) /\ Due(u) /\ Writing(u) /\ Provider(u)
  BY DEF UploadsHold, UploadHolds
<1>5. UploadHolds(u)'
  BY <1>1, <1>2, <1>4 DEF UploadHolds, Untouched, Due, Writing, Provider, Waiting
<1>6. NoRevival(u) /\ \A v \in Uploads \ {u} : Same(v)
  BY <1>1, <1>2 DEF NoRevival, Same, Waiting
<1>7. UploadsHold'
  BY <1>1, <1>5, <1>6, OneUpload
<1> QED BY <1>1, <1>3, <1>7 DEF Pending

\* A call takes effect, now or long after its client has gone.
LEMMA TakeEffectHolds ==
    ASSUME TypeOK, UploadsHold, NEW u \in Uploads, TakeEffect(u)
    PROVE  TypeOK' /\ UploadsHold' /\ Pending' \subseteq Pending
<1>1. call[u] \in Calls
  BY DEF TakeEffect, TypeOK
<1>2. /\ call' = [call EXCEPT ![u] = "none"]
      /\ object' = IF call[u] \in {"put", "complete"} THEN object \cup {u} ELSE object
      /\ UNCHANGED <<usage, now, row, commit, version, job>>
      /\ call[u] \in {"part", "complete"} => session[u] = "open"
  BY DEF TakeEffect
<1>3. PICK left : /\ session' = [session EXCEPT ![u] = left]
                  /\ left = CASE call[u] = "create" -> "open"
                              [] call[u] = "complete" -> "closed"
                              [] OTHER -> session[u]
  BY DEF TakeEffect
<1>4. /\ call[u] = "create" => left = "open"
      /\ call[u] = "complete" => left = "closed"
      /\ call[u] \in {"put", "part"} => left = session[u]
  BY <1>3
<1>5. left \in {"none", "open", "closed"}
  BY <1>1, <1>4 DEF TypeOK, Calls
<1>6. PICK phase, known :
         /\ writer' = [writer EXCEPT ![u] = phase] /\ learnt' = [learnt EXCEPT ![u] = known]
         /\ \/ phase = writer[u] /\ known = learnt[u]
            \/ /\ Waiting(u)
               /\ \/ call[u] \in {"put", "complete"} /\ phase = "stored"
                     /\ known = learnt[u] \cup {"object"}
                  \/ call[u] = "create" /\ phase = "created"
                     /\ known = learnt[u] \cup {"session"}
                  \/ call[u] = "part" /\ phase = "sent" /\ known = learnt[u]
  <2>1. CASE UNCHANGED <<writer, learnt>>
    <3>1. writer' = [writer EXCEPT ![u] = writer[u]] /\ learnt' = [learnt EXCEPT ![u] = learnt[u]]
      BY <2>1 DEF TypeOK
    <3> QED BY <3>1
  <2>2. CASE /\ Waiting(u)
             /\ WriterGoes(u, Answered[call[u]])
             /\ CASE call[u] \in {"put", "complete"} -> Learn(u, "object")
                  [] call[u] = "create" -> Learn(u, "session")
                  [] call[u] = "part" -> UNCHANGED learnt
    <3>1. CASE call[u] \in {"put", "complete"}
      <4>1. writer' = [writer EXCEPT ![u] = "stored"]
        <5>1. Answered[call[u]] = "stored"
          BY <3>1 DEF Answered
        <5> QED BY <2>2, <5>1 DEF WriterGoes
      <4>2. learnt' = [learnt EXCEPT ![u] = learnt[u] \cup {"object"}]
        BY <2>2, <3>1 DEF Learn
      <4> QED BY <2>2, <3>1, <4>1, <4>2
    <3>2. CASE call[u] = "create"
      <4>1. writer' = [writer EXCEPT ![u] = "created"]
        BY <2>2, <3>2 DEF WriterGoes, Answered
      <4>2. learnt' = [learnt EXCEPT ![u] = learnt[u] \cup {"session"}]
        BY <2>2, <3>2 DEF Learn
      <4> QED BY <2>2, <3>2, <4>1, <4>2
    <3>3. CASE call[u] = "part"
      <4>1. writer' = [writer EXCEPT ![u] = "sent"]
        BY <2>2, <3>3 DEF WriterGoes, Answered
      <4>2. UNCHANGED learnt
        BY <2>2, <3>3
      <4>3. learnt' = [learnt EXCEPT ![u] = learnt[u]]
        BY <4>2 DEF TypeOK
      <4> QED BY <2>2, <3>3, <4>1, <4>3
    <3> QED BY <1>1, <3>1, <3>2, <3>3 DEF Calls
  <2> QED BY <2>1, <2>2 DEF TakeEffect, Answer
<1>7. /\ phase \in Calls \cup {"none", "leased", "created", "ready", "sent",
                               "unsure", "stored", "dropped"}
      /\ known \in SUBSET {"session", "object"}
  BY <1>6 DEF TypeOK
<1>8. /\ writer'[u] = phase /\ learnt'[u] = known /\ session'[u] = left /\ call'[u] = "none"
      /\ \A v \in Uploads \ {u} : /\ writer'[v] = writer[v] /\ learnt'[v] = learnt[v]
                                  /\ session'[v] = session[v] /\ call'[v] = call[v]
                                  /\ v \in object' <=> v \in object
  BY <1>2, <1>3, <1>6 DEF TypeOK
<1>9. u \in object' <=> u \in object \/ call[u] \in {"put", "complete"}
  BY <1>2
<1>10. TypeOK'
  <2>1. /\ writer' \in [Uploads -> Calls \cup {"none", "leased", "created", "ready", "sent",
                                               "unsure", "stored", "dropped"}]
        /\ learnt' \in [Uploads -> SUBSET {"session", "object"}]
        /\ session' \in [Uploads -> {"none", "open", "closed"}]
        /\ call' \in [Uploads -> Calls \cup {"none"}]
        /\ object' \subseteq Uploads
    BY <1>2, <1>3, <1>5, <1>6, <1>7 DEF TypeOK
  <2> QED BY <1>2, <2>1 DEF TypeOK, usage
<1>11. Untouched(u) /\ Due(u) /\ Writing(u) /\ Provider(u) /\ RowConstraints(row[u])
  BY DEF UploadsHold, UploadHolds, TypeOK
<1>12. UploadHolds(u)'
  <2> USE <1>1, <1>2, <1>4, <1>6, <1>8, <1>9, <1>11
  <2>1. row[u].written \/ row[u].status \notin Open
    BY DEF Untouched, Calls
  <2>2. Untouched(u)' /\ Due(u)'
    BY <2>1 DEF Untouched, Due, Open, Waiting, Calls
  <2>3. Writing(u)'
    BY DEF Writing, Waiting, Calls, Provider
  <2>4. Provider(u)'
    BY <1>5 DEF Provider, Calls, Waiting
  <2> QED BY <2>2, <2>3, <2>4 DEF UploadHolds
<1>13. NoRevival(u)
  BY <1>1, <1>2, <1>4, <1>6, <1>8, <1>9 DEF NoRevival, Waiting, Calls
<1>14. \A v \in Uploads \ {u} : Same(v)
  BY <1>2, <1>8 DEF Same
<1>15. UploadsHold'
  BY <1>2, <1>12, <1>13, <1>14, OneUpload
<1> QED BY <1>2, <1>10, <1>15 DEF Pending

-----------------------------------------------------------------------------
(* Publication, the clock and the claims. *)

\* The row is published with the object that its evidence names.
LEMMA CommitHolds ==
    ASSUME TypeOK, UploadsHold, NEW u \in Uploads, Commit(u),
           daily' \in 0..DailyLimit /\ stored' \in 0..StorageLimit
    PROVE  TypeOK' /\ UploadsHold' /\ Pending' = Pending \ {u}
<1> DEFINE new == [row[u] EXCEPT !.status = "committed"]
<1>1. Sound(row[u]) /\ row[u].status = "staged"
  BY RowSound DEF TypeOK, Commit
<1>2. /\ Sound(new) /\ new.status = "committed"
      /\ new.written = row[u].written /\ new.completing = row[u].completing
      /\ new.named = row[u].named /\ new.evidence = row[u].evidence
  BY <1>1 DEF Sound, Rows, Statuses, Live, RowConstraints, Ended
<1>3. row' = [row EXCEPT ![u] = new]
  BY DEF Commit, TypeOK
<1> HIDE DEF new
<1>4. /\ row' \in [Uploads -> Rows]
      /\ \A v \in Uploads : RowConstraints(row'[v])
      /\ row'[u] = new
      /\ \A v \in Uploads \ {u} : row'[v] = row[v]
  BY <1>2, <1>3, RowChanges
<1>5. /\ version' = version \cup {u} /\ commit' = [commit EXCEPT ![u] = "none"]
      /\ UNCHANGED <<now, writer, learnt, call, session, object, job>>
  BY DEF Commit, provider
<1>6. TypeOK'
  BY <1>4, <1>5 DEF TypeOK, Rows
<1>7. Untouched(u) /\ Due(u) /\ Writing(u) /\ Provider(u)
  BY DEF UploadsHold, UploadHolds
<1>8. UploadHolds(u)'
  <2> USE <1>1, <1>2, <1>4, <1>5, <1>7
  <2>1. Untouched(u)' /\ Due(u)' /\ Writing(u)'
    BY DEF Untouched, Due, Writing, Waiting, Open
  <2>2. Provider(u)'
    BY DEF Provider, Open
  <2> QED BY <2>1, <2>2 DEF UploadHolds
<1>9. NoRevival(u) /\ \A v \in Uploads \ {u} : Same(v)
  BY <1>1, <1>4, <1>5 DEF NoRevival, Same, Ended
<1>10. UploadsHold'
  BY <1>5, <1>8, <1>9, OneUpload
<1>11. Pending' = Pending \ {u}
  BY <1>1, <1>2, <1>4 DEF Pending
<1> QED BY <1>6, <1>10, <1>11

\* Steps that change neither an upload nor a worker.
LEMMA UploadsUntouched ==
    ASSUME TypeOK, UploadsHold, UNCHANGED <<now, row, writer, learnt, provider, version, job>>
    PROVE  UploadsHold' /\ Pending' = Pending
<1>1. ASSUME NEW u \in Uploads PROVE UploadHolds(u)'
  BY Elsewhere DEF UploadsHold, Same, provider
<1>2. ASSUME NEW w \in Workers PROVE Cleaning(w)'
  BY DEF UploadsHold, Cleaning, Waiting, provider
<1> QED BY <1>1, <1>2 DEF UploadsHold, Pending

\* Preparing, verifying and giving up a commit.
LEMMA CommitRequestHolds ==
    ASSUME TypeOK, UploadsHold, NEW u \in Uploads,
           PrepareCommit(u) \/ VerifyObject(u) \/ CommitRefused(u)
    PROVE  TypeOK' /\ UploadsHold' /\ Pending' = Pending
<1>1. /\ UNCHANGED <<usage, now, row, writer, learnt, provider, version, job>>
      /\ commit' \in [Uploads -> {"none", "prepared", "verified"}]
  BY SMTT(20) DEF PrepareCommit, VerifyObject, CommitRefused, TypeOK
<1>2. TypeOK'
  BY <1>1 DEF TypeOK, usage, provider
<1> QED BY <1>1, <1>2, UploadsUntouched

\* No time passes while a client that should have given up still waits.
LEMMA TickHolds ==
    ASSUME TypeOK, UploadsHold, Tick
    PROVE  TypeOK' /\ UploadsHold' /\ Pending' = Pending
<1>1. /\ now' = now + 1 /\ now \in Nat
      /\ UNCHANGED <<usage, row, writer, learnt, commit, call, session, object, version, job>>
      /\ \A u \in Uploads : Waiting(u) => now < row[u].deadline
      /\ \A u \in Uploads : row[u].deadline \in Nat
  BY DEF Tick, TypeOK, provider
<1>2. TypeOK'
  BY <1>1 DEF TypeOK, usage
<1>3. ASSUME NEW u \in Uploads PROVE UploadHolds(u)'
  <2>1. Untouched(u)' /\ Due(u)' /\ Provider(u)'
    BY <1>1 DEF UploadsHold, UploadHolds, Untouched, Due, Provider
  <2>2. Writing(u)'
    BY <1>1 DEF UploadsHold, UploadHolds, Writing, Waiting
  <2> QED BY <2>1, <2>2 DEF UploadHolds
<1>4. ASSUME NEW w \in Workers PROVE Cleaning(w)'
  BY <1>1 DEF UploadsHold, Cleaning, Waiting
<1> QED BY <1>1, <1>2, <1>3, <1>4 DEF UploadsHold, Pending

\* The columns of the claim are of no consequence to the upload.
LEMMA ClaimColumns ==
    ASSUME TypeOK, UploadsHold, NEW u \in Uploads,
           NEW w \in Workers \cup {NoWorker}, NEW held \in BOOLEAN,
           row' = [row EXCEPT ![u] = [@ EXCEPT !.claim = w, !.held = held]],
           w # NoWorker => row[u].status = "cleanup_pending",
           UNCHANGED <<now, writer, learnt, provider, version>>
    PROVE  /\ row' \in [Uploads -> Rows]
           /\ \A v \in Uploads : RowConstraints(row'[v]) /\ UploadHolds(v)' /\ NoRevival(v)
           /\ Pending' = Pending
<1> DEFINE new == [row[u] EXCEPT !.claim = w, !.held = held]
<1>1. Sound(row[u])
  BY RowSound DEF TypeOK
<1>2. /\ Sound(new) /\ new.status = row[u].status
      /\ new.written = row[u].written /\ new.completing = row[u].completing
      /\ new.named = row[u].named /\ new.evidence = row[u].evidence
      /\ new.deadline = row[u].deadline /\ new.after = row[u].after
  BY <1>1 DEF Sound, Rows, RowConstraints
<1> HIDE DEF new
<1>3. /\ row' \in [Uploads -> Rows]
      /\ \A v \in Uploads : RowConstraints(row'[v])
      /\ row'[u] = new
      /\ \A v \in Uploads \ {u} : row'[v] = row[v]
  BY <1>2, RowChanges DEF new
<1>4. ASSUME NEW v \in Uploads PROVE UploadHolds(v)'
  BY <1>2, <1>3 DEF UploadsHold, UploadHolds, Untouched, Due, Writing, Provider, Waiting, provider
<1>5. ASSUME NEW v \in Uploads PROVE NoRevival(v)
  BY <1>2, <1>3 DEF NoRevival, Waiting, provider
<1>6. Pending' = Pending
  BY <1>2, <1>3 DEF Pending
<1> QED BY <1>3, <1>4, <1>5, <1>6

-----------------------------------------------------------------------------
(* The cleanup worker. *)

\* A step of one worker that revives no upload.
LEMMA OneWorker ==
    ASSUME TypeOK, UploadsHold, NEW w \in Workers,
           \A v \in Uploads : UploadHolds(v)' /\ NoRevival(v),
           \A x \in Workers \ {w} : job'[x] = job[x],
           Cleaning(w)'
    PROVE  UploadsHold'
<1>1. ASSUME NEW x \in Workers \ {w} PROVE Cleaning(x)'
  <2>1. job[x].step # "idle" => job[x].upload \in Uploads
    BY DEF TypeOK, Idle
  <2> QED BY <2>1, JobKept DEF UploadsHold, UploadHolds
<1> QED BY <1>1 DEF UploadsHold

Jobs == [step : Steps, upload : Uploads, checked : BOOLEAN, named : BOOLEAN,
         completing : BOOLEAN, evidence : BOOLEAN]

\* A worker that is not idle has a job.
LEMMA JobType ==
    ASSUME TypeOK, NEW w \in Workers, job[w].step # "idle"
    PROVE  job[w] \in Jobs
<1>1. job \in [Workers -> {Idle} \cup Jobs]
  BY DEF TypeOK, Jobs
<1> QED BY <1>1 DEF Idle

\* The job of one worker is replaced.
LEMMA JobChanges ==
    ASSUME TypeOK, NEW w \in Workers, NEW new \in {Idle} \cup Jobs,
           job' = [job EXCEPT ![w] = new]
    PROVE  /\ job' \in [Workers -> {Idle} \cup Jobs]
           /\ job'[w] = new
           /\ \A x \in Workers \ {w} : job'[x] = job[x]
<1>1. job \in [Workers -> {Idle} \cup Jobs]
  BY DEF TypeOK, Jobs
<1> QED BY <1>1

\* Nothing is said of a worker that has given up.
LEMMA IdleClean ==
    ASSUME NEW w \in Workers, job'[w] = Idle
    PROVE  Cleaning(w)'
  BY DEF Cleaning, Idle

\* A pending row is claimed when every client has stopped waiting.
LEMMA ClaimHolds ==
    ASSUME TypeOK, UploadsHold, NEW w \in Workers, NEW u \in Uploads, Claim(w, u)
    PROVE  TypeOK' /\ UploadsHold' /\ Pending' = Pending
<1> DEFINE new == [step |-> IF u \in Large \/ row[u].named THEN "list" ELSE "head",
                   upload |-> u, checked |-> FALSE, named |-> row[u].named,
                   completing |-> row[u].completing, evidence |-> row[u].evidence]
<1>1. /\ row[u].status = "cleanup_pending" /\ row[u].after <= now
      /\ row' = [row EXCEPT ![u].claim = w, ![u].held = TRUE]
      /\ job' = [job EXCEPT ![w] = new]
      /\ UNCHANGED <<usage, now, writer, learnt, commit, provider, version>>
  BY DEF Claim
<1>2. row' = [row EXCEPT ![u] = [@ EXCEPT !.claim = w, !.held = TRUE]]
  BY <1>1 DEF TypeOK
<1>3. /\ row' \in [Uploads -> Rows]
      /\ \A v \in Uploads : RowConstraints(row'[v]) /\ UploadHolds(v)' /\ NoRevival(v)
      /\ Pending' = Pending
  BY <1>1, <1>2, ClaimColumns
<1>4. new \in Jobs
  <2>1. row[u] \in Rows
    BY RowSound DEF Sound
  <2> QED BY <2>1 DEF Jobs, Rows, Steps
<1>5. /\ new.step \in {"list", "head"} /\ new.upload = u /\ new.named = row[u].named
      /\ new.completing = row[u].completing /\ new.evidence = row[u].evidence
      /\ new.step = "head" => ~new.named
  OBVIOUS
<1> HIDE DEF new
<1>6. /\ job' \in [Workers -> {Idle} \cup Jobs]
      /\ job'[w] = new
      /\ \A x \in Workers \ {w} : job'[x] = job[x]
  BY <1>1, <1>4, JobChanges
<1>7. TypeOK'
  BY <1>1, <1>3, <1>6 DEF TypeOK, Rows, Jobs, usage, provider
<1>8. row'[u].status = row[u].status
  BY <1>2, RowSound DEF TypeOK, Sound, Rows
<1>9. ~Waiting(u)
  <2>1. Due(u) /\ Writing(u) /\ row[u].deadline \in Nat /\ row[u].after \in Nat /\ now \in Nat
    BY DEF UploadsHold, UploadHolds, TypeOK
  <2> QED BY <1>1, <2>1 DEF Due, Writing
<1>10. Cleaning(w)'
  <2>1. Provider(u)
    BY DEF UploadsHold, UploadHolds
  <2> QED BY <1>1, <1>5, <1>6, <1>8, <1>9, <2>1 DEF Cleaning, Provider, Waiting, provider
<1>11. UploadsHold'
  BY <1>3, <1>6, <1>10, OneWorker
<1> QED BY <1>3, <1>7, <1>11

\* Steps that only advance a job: a claim is checked, a key is found empty, a
\* deletion confirmed; or the worker dies.
LEMMA JobStepHolds ==
    ASSUME TypeOK, UploadsHold, NEW w \in Workers,
           CheckClaim(w) \/ HeadMissing(w) \/ ConfirmDeleted(w) \/ WorkerCrash(w)
    PROVE  TypeOK' /\ UploadsHold' /\ Pending' = Pending
<1>1. /\ UNCHANGED <<usage, now, row, writer, learnt, commit, provider, version>>
      /\ job[w].step # "idle"
  BY DEF CheckClaim, HeadMissing, ConfirmDeleted, WorkerCrash
<1>2. job[w] \in Jobs /\ job[w].upload \in Uploads
  BY <1>1, JobType DEF Jobs
<1>3. \A v \in Uploads : UploadHolds(v)' /\ NoRevival(v)
  BY <1>1, Elsewhere DEF UploadsHold, Same, NoRevival, Waiting, provider
<1>4. PICK new \in {Idle} \cup Jobs :
         /\ job' = [job EXCEPT ![w] = new]
         /\ \/ new = Idle
            \/ /\ \/ new.step = job[w].step
                  \/ /\ new.step = "settle" /\ job[w].upload \notin object
                     /\ \/ job[w].step = "confirm"
                        \/ /\ job[w].step = "head"
                           /\ job[w].evidence \/ (~job[w].completing /\ job[w].named)
               /\ new.upload = job[w].upload /\ new.named = job[w].named
               /\ new.completing = job[w].completing /\ new.evidence = job[w].evidence
  <2>1. CASE CheckClaim(w)
    <3> DEFINE new == [job[w] EXCEPT !.checked = TRUE]
    <3>1. job' = [job EXCEPT ![w] = new]
      BY <2>1 DEF CheckClaim, TypeOK
    <3>2. /\ new \in Jobs /\ new.step = job[w].step
          /\ new.upload = job[w].upload /\ new.named = job[w].named
          /\ new.completing = job[w].completing /\ new.evidence = job[w].evidence
      BY <1>2 DEF Jobs
    <3> QED BY <3>1, <3>2
  <2>2. CASE HeadMissing(w)
    <3> DEFINE new == [job[w] EXCEPT !.step = "settle", !.checked = FALSE]
    <3>1. job' = [job EXCEPT ![w] = new]
      BY <2>2 DEF HeadMissing, TypeOK
    <3>2. /\ new \in Jobs /\ new.step = "settle"
          /\ new.upload = job[w].upload /\ new.named = job[w].named
          /\ new.completing = job[w].completing /\ new.evidence = job[w].evidence
      BY <1>2 DEF Jobs, Steps
    <3> QED BY <2>2, <3>1, <3>2 DEF HeadMissing
  <2>3. CASE ConfirmDeleted(w)
    <3> DEFINE new == [job[w] EXCEPT !.step = "settle"]
    <3>1. job' = [job EXCEPT ![w] = new]
      BY <2>3 DEF ConfirmDeleted, TypeOK
    <3>2. /\ new \in Jobs /\ new.step = "settle"
          /\ new.upload = job[w].upload /\ new.named = job[w].named
          /\ new.completing = job[w].completing /\ new.evidence = job[w].evidence
      BY <1>2 DEF Jobs, Steps
    <3> QED BY <2>3, <3>1, <3>2 DEF ConfirmDeleted
  <2>4. CASE WorkerCrash(w)
    BY <2>4 DEF WorkerCrash
  <2> QED BY <2>1, <2>2, <2>3, <2>4
<1>5. /\ job' \in [Workers -> {Idle} \cup Jobs]
      /\ job'[w] = new
      /\ \A x \in Workers \ {w} : job'[x] = job[x]
  BY <1>4, JobChanges
<1>6. TypeOK'
  BY <1>1, <1>5 DEF TypeOK, Jobs, usage, provider
<1>7. Cleaning(w)'
  <2>1. CASE new = Idle
    BY <2>1, <1>5, IdleClean
  <2>2. CASE new # Idle
    <3>1. Cleaning(w) /\ Provider(job[w].upload)
      BY <1>2 DEF UploadsHold, UploadHolds
    <3> QED BY <1>1, <1>4, <1>5, <2>2, <3>1 DEF Cleaning, Provider, Waiting, provider
  <2> QED BY <2>1, <2>2
<1>8. UploadsHold'
  BY <1>3, <1>5, <1>7, OneWorker
<1> QED BY <1>1, <1>6, <1>8 DEF Pending

\* The store is asked for sessions, and the name of one found is recorded.
LEMMA ListSessionsHolds ==
    ASSUME TypeOK, UploadsHold, NEW w \in Workers, ListSessions(w),
           NEW u \in Uploads, u = job[w].upload
    PROVE  TypeOK' /\ UploadsHold' /\ Pending' = Pending
<1> DEFINE open == session[u] = "open"
           new == [row[u] EXCEPT !.named = @ \/ (open /\ Holds(w, u))]
           next == [job[w] EXCEPT !.step = IF job[w].named \/ open THEN "abort" ELSE "head",
                                  !.named = @ \/ open, !.checked = FALSE]
<1>1. /\ job[w].step = "list"
      /\ row' = [row EXCEPT ![u].named = @ \/ (open /\ Holds(w, u))]
      /\ UNCHANGED <<usage, now, writer, learnt, commit, call, session, object, version>>
  BY DEF ListSessions, provider
<1>2. job[w] \in Jobs
  BY <1>1, JobType
<1>3. row' = [row EXCEPT ![u] = new]
  BY <1>1, <1>2 DEF TypeOK
<1>4. job' = [job EXCEPT ![w] = next]
  BY DEF ListSessions, TypeOK
<1>5. /\ Sound(new) /\ new.status = row[u].status
      /\ new.written = row[u].written /\ new.completing = row[u].completing
      /\ new.named => row[u].named \/ open
      /\ new.evidence = row[u].evidence
      /\ new.deadline = row[u].deadline /\ new.after = row[u].after
  <2>1. row[u] \in Rows /\ RowConstraints(row[u])
    BY <1>2, RowSound DEF Sound
  <2>2. (row[u].named \/ (open /\ Holds(w, u))) \in BOOLEAN
    OBVIOUS
  <2>3. /\ new \in Rows /\ new.status = row[u].status
        /\ new.written = row[u].written /\ new.completing = row[u].completing
        /\ new.named = (row[u].named \/ (open /\ Holds(w, u)))
        /\ new.evidence = row[u].evidence /\ new.lease = row[u].lease
        /\ new.deadline = row[u].deadline /\ new.after = row[u].after
        /\ new.claim = row[u].claim
    BY <2>1, <2>2 DEF Rows
  <2> HIDE DEF new
  <2>4. RowConstraints(new)
    BY <2>1, <2>3 DEF RowConstraints
  <2> QED BY <2>3, <2>4 DEF Sound
<1>6. /\ next \in Jobs /\ next.upload = u
      /\ next.completing = job[w].completing /\ next.evidence = job[w].evidence
      /\ next.named => job[w].named \/ open
      /\ next.step \in {"abort", "head"}
      /\ next.step = "head" => ~next.named
  <2>1. (job[w].named \/ open) \in BOOLEAN
    OBVIOUS
  <2>2. next \in Jobs
    BY <1>2, <2>1 DEF Jobs, Steps
  <2>3. next.named = (job[w].named \/ open)
    BY <1>2 DEF Jobs
  <2>4. next.step = IF job[w].named \/ open THEN "abort" ELSE "head"
    BY <1>2 DEF Jobs
  <2>5. /\ next.upload = u
        /\ next.completing = job[w].completing /\ next.evidence = job[w].evidence
    BY <1>2 DEF Jobs
  <2> HIDE DEF next
  <2> QED BY <2>2, <2>3, <2>4, <2>5
<1> HIDE DEF new, next
<1>7. /\ row' \in [Uploads -> Rows]
      /\ \A v \in Uploads : RowConstraints(row'[v])
      /\ row'[u] = new
      /\ \A v \in Uploads \ {u} : row'[v] = row[v]
  BY <1>2, <1>3, <1>5, RowChanges
<1>8. /\ job' \in [Workers -> {Idle} \cup Jobs]
      /\ job'[w] = next
      /\ \A x \in Workers \ {w} : job'[x] = job[x]
  BY <1>4, <1>6, JobChanges
<1>9. TypeOK'
  BY <1>1, <1>7, <1>8 DEF TypeOK, Rows, Jobs, usage
<1>10. UploadHolds(u)'
  <2>1. Untouched(u) /\ Due(u) /\ Writing(u) /\ Provider(u)
    BY <1>2 DEF UploadsHold, UploadHolds
  <2>2. Untouched(u)' /\ Due(u)'
    BY <1>1, <1>5, <1>7, <2>1 DEF Untouched, Due
  <2>3. Writing(u)'
    BY <1>1, <1>5, <1>7, <2>1 DEF Writing, Waiting
  <2>4. Provider(u)'
    BY <1>1, <1>5, <1>7, <2>1 DEF Provider
  <2> QED BY <2>2, <2>3, <2>4 DEF UploadHolds
<1>11. \A v \in Uploads : UploadHolds(v)'
  <2>1. ASSUME NEW v \in Uploads \ {u} PROVE UploadHolds(v)'
    <3>1. Same(v) /\ now' = now
      BY <1>1, <1>7 DEF Same
    <3> QED BY <3>1, Elsewhere DEF UploadsHold
  <2> QED BY <1>10, <2>1
<1>12. \A v \in Uploads : NoRevival(v)
  BY <1>1, <1>5, <1>7 DEF NoRevival, Waiting
<1>13. Cleaning(w)'
  <2>1. Cleaning(w)
    BY DEF UploadsHold
  <2> QED BY <1>1, <1>5, <1>6, <1>7, <1>8, <2>1 DEF Cleaning, Waiting
<1>14. UploadsHold'
  BY <1>8, <1>11, <1>12, <1>13, OneWorker
<1>15. Pending' = Pending
  BY <1>5, <1>7 DEF Pending
<1> QED BY <1>9, <1>14, <1>15

\* The session that was found is closed; one that is unknown stays.
LEMMA AbortSessionHolds ==
    ASSUME TypeOK, UploadsHold, NEW w \in Workers, AbortSession(w),
           NEW u \in Uploads, u = job[w].upload
    PROVE  TypeOK' /\ UploadsHold' /\ Pending' = Pending
<1> DEFINE new == [job[w] EXCEPT !.step = "head", !.checked = FALSE]
           left == IF session[u] = "open" THEN "closed" ELSE session[u]
<1>1. /\ job[w].step = "abort"
      /\ session' = [session EXCEPT ![u] = left]
      /\ UNCHANGED <<usage, now, row, writer, learnt, commit, call, object, version>>
  BY DEF AbortSession
<1>2. job[w] \in Jobs
  BY <1>1, JobType
<1>3. job' = [job EXCEPT ![w] = new]
  BY DEF AbortSession, TypeOK
<1>4. /\ new \in Jobs /\ new.step = "head" /\ new.upload = u /\ new.named = job[w].named
      /\ new.completing = job[w].completing /\ new.evidence = job[w].evidence
  BY <1>2 DEF Jobs, Steps
<1>5. /\ left \in {"none", "open", "closed"}
      /\ \/ left = session[u] /\ session[u] # "open"
         \/ session[u] = "open" /\ left = "closed"
  BY DEF TypeOK
<1> HIDE DEF new, left
<1>6. /\ job' \in [Workers -> {Idle} \cup Jobs]
      /\ job'[w] = new
      /\ \A x \in Workers \ {w} : job'[x] = job[x]
  BY <1>3, <1>4, JobChanges
<1>7. /\ session' \in [Uploads -> {"none", "open", "closed"}]
      /\ session'[u] = left
      /\ \A v \in Uploads \ {u} : session'[v] = session[v]
  BY <1>1, <1>5 DEF TypeOK
<1>8. TypeOK'
  BY <1>1, <1>6, <1>7 DEF TypeOK, Jobs, usage
<1>9. Untouched(u) /\ Due(u) /\ Writing(u) /\ Provider(u) /\ Cleaning(w)
  BY DEF UploadsHold, UploadHolds
<1>10. UploadHolds(u)'
  <2>1. Untouched(u)' /\ Due(u)'
    BY <1>1, <1>5, <1>7, <1>9 DEF Untouched, Due
  <2>2. Writing(u)'
    BY <1>1, <1>5, <1>7, <1>9 DEF Writing, Waiting
  <2>3. Provider(u)'
    BY <1>1, <1>5, <1>7, <1>9 DEF Provider
  <2> QED BY <2>1, <2>2, <2>3 DEF UploadHolds
<1>11. \A v \in Uploads : UploadHolds(v)'
  <2>1. ASSUME NEW v \in Uploads \ {u} PROVE UploadHolds(v)'
    <3>1. Same(v) /\ now' = now
      BY <1>1, <1>7 DEF Same
    <3> QED BY <3>1, Elsewhere DEF UploadsHold
  <2> QED BY <1>10, <2>1
<1>12. \A v \in Uploads : NoRevival(v)
  BY <1>1, <1>5, <1>7 DEF NoRevival, Waiting
<1>13. Cleaning(w)'
  BY <1>1, <1>4, <1>5, <1>6, <1>7, <1>9 DEF Cleaning, Waiting
<1>14. UploadsHold'
  BY <1>6, <1>11, <1>12, <1>13, OneWorker
<1> QED BY <1>1, <1>8, <1>14 DEF Pending

\* The evidence of an object is recorded before the object is deleted.
LEMMA HeadFoundHolds ==
    ASSUME TypeOK, UploadsHold, NEW w \in Workers, HeadFound(w),
           NEW u \in Uploads, u = job[w].upload
    PROVE  TypeOK' /\ UploadsHold' /\ Pending' = Pending
<1> DEFINE new == [row[u] EXCEPT !.evidence = TRUE]
           next == [job[w] EXCEPT !.step = "delete", !.checked = FALSE]
<1>1. /\ job[w].step = "head" /\ u \in object /\ row[u].status = "cleanup_pending"
      /\ UNCHANGED <<usage, now, writer, learnt, commit, call, session, object, version>>
  BY DEF HeadFound, Holds, provider
<1>2. job[w] \in Jobs
  BY <1>1, JobType
<1>3. row' = [row EXCEPT ![u] = new] /\ job' = [job EXCEPT ![w] = next]
  BY DEF HeadFound, TypeOK
<1>4. /\ Sound(new) /\ new.status = row[u].status
      /\ new.written = row[u].written /\ new.completing = row[u].completing
      /\ new.named = row[u].named /\ new.evidence = TRUE
      /\ new.deadline = row[u].deadline /\ new.after = row[u].after
  <2>1. row[u] \in Rows /\ RowConstraints(row[u])
    BY RowSound DEF Sound
  <2>2. /\ new \in Rows /\ new.status = row[u].status
        /\ new.written = row[u].written /\ new.completing = row[u].completing
        /\ new.named = row[u].named /\ new.evidence = TRUE /\ new.lease = row[u].lease
        /\ new.deadline = row[u].deadline /\ new.after = row[u].after
        /\ new.claim = row[u].claim
    BY <2>1 DEF Rows
  <2> HIDE DEF new
  <2>3. RowConstraints(new)
    BY <1>1, <2>1, <2>2 DEF RowConstraints
  <2> QED BY <2>2, <2>3 DEF Sound
<1>5. /\ next \in Jobs /\ next.step = "delete" /\ next.upload = u /\ next.named = job[w].named
      /\ next.completing = job[w].completing /\ next.evidence = job[w].evidence
  BY <1>2 DEF Jobs, Steps
<1> HIDE DEF new, next
<1>6. /\ row' \in [Uploads -> Rows]
      /\ \A v \in Uploads : RowConstraints(row'[v])
      /\ row'[u] = new
      /\ \A v \in Uploads \ {u} : row'[v] = row[v]
  BY <1>3, <1>4, RowChanges
<1>7. /\ job' \in [Workers -> {Idle} \cup Jobs]
      /\ job'[w] = next
      /\ \A x \in Workers \ {w} : job'[x] = job[x]
  BY <1>3, <1>5, JobChanges
<1>8. TypeOK'
  BY <1>1, <1>6, <1>7 DEF TypeOK, Rows, Jobs, usage
<1>9. Untouched(u) /\ Due(u) /\ Writing(u) /\ Provider(u) /\ Cleaning(w)
  BY DEF UploadsHold, UploadHolds
<1>10. UploadHolds(u)'
  <2>1. Untouched(u)' /\ Due(u)'
    BY <1>1, <1>4, <1>6, <1>9 DEF Untouched, Due
  <2>2. Writing(u)'
    BY <1>1, <1>4, <1>6, <1>9 DEF Writing, Waiting
  <2>3. Provider(u)'
    BY <1>1, <1>4, <1>6, <1>9 DEF Provider, Open
  <2> QED BY <2>1, <2>2, <2>3 DEF UploadHolds
<1>11. \A v \in Uploads : UploadHolds(v)'
  <2>1. ASSUME NEW v \in Uploads \ {u} PROVE UploadHolds(v)'
    <3>1. Same(v) /\ now' = now
      BY <1>1, <1>6 DEF Same
    <3> QED BY <3>1, Elsewhere DEF UploadsHold
  <2> QED BY <1>10, <2>1
<1>12. \A v \in Uploads : NoRevival(v)
  BY <1>1, <1>4, <1>6 DEF NoRevival, Waiting
<1>13. Cleaning(w)'
  BY <1>1, <1>4, <1>5, <1>6, <1>7, <1>9 DEF Cleaning, Waiting, Provider
<1>14. UploadsHold'
  BY <1>7, <1>11, <1>12, <1>13, OneWorker
<1>15. Pending' = Pending
  BY <1>4, <1>6 DEF Pending
<1> QED BY <1>8, <1>14, <1>15

\* Only an object that no published version names is deleted.
LEMMA DeleteObjectHolds ==
    ASSUME TypeOK, UploadsHold, NEW w \in Workers, DeleteObject(w),
           NEW u \in Uploads, u = job[w].upload
    PROVE  TypeOK' /\ UploadsHold' /\ Pending' = Pending
<1> DEFINE new == [job[w] EXCEPT !.step = "confirm"]
<1>1. /\ job[w].step = "delete" /\ object' = object \ {u}
      /\ UNCHANGED <<usage, now, row, writer, learnt, commit, call, session, version>>
  BY DEF DeleteObject
<1>2. job[w] \in Jobs
  BY <1>1, JobType
<1>3. job' = [job EXCEPT ![w] = new]
  BY DEF DeleteObject, TypeOK
<1>4. /\ new \in Jobs /\ new.step = "confirm" /\ new.upload = u /\ new.named = job[w].named
      /\ new.completing = job[w].completing /\ new.evidence = job[w].evidence
  BY <1>2 DEF Jobs, Steps
<1> HIDE DEF new
<1>5. /\ job' \in [Workers -> {Idle} \cup Jobs]
      /\ job'[w] = new
      /\ \A x \in Workers \ {w} : job'[x] = job[x]
  BY <1>3, <1>4, JobChanges
<1>6. TypeOK'
  BY <1>1, <1>5 DEF TypeOK, Jobs, usage
<1>7. Untouched(u) /\ Due(u) /\ Writing(u) /\ Provider(u) /\ Cleaning(w)
  BY DEF UploadsHold, UploadHolds
<1>8. row[u].status \in Ended \cup {"cleanup_pending"}
  BY <1>1, <1>7 DEF Cleaning
<1>9. UploadHolds(u)'
  <2>1. Untouched(u)' /\ Due(u)'
    BY <1>1, <1>7 DEF Untouched, Due
  <2>2. Writing(u)'
    BY <1>1, <1>7, <1>8 DEF Writing, Waiting, Ended
  <2>3. Provider(u)'
    BY <1>1, <1>7, <1>8 DEF Provider, Ended
  <2> QED BY <2>1, <2>2, <2>3 DEF UploadHolds
<1>10. \A v \in Uploads : UploadHolds(v)'
  <2>1. ASSUME NEW v \in Uploads \ {u} PROVE UploadHolds(v)'
    <3>1. Same(v) /\ now' = now
      BY <1>1 DEF Same
    <3> QED BY <3>1, Elsewhere DEF UploadsHold
  <2> QED BY <1>9, <2>1
<1>11. \A v \in Uploads : NoRevival(v)
  BY <1>1 DEF NoRevival, Waiting
<1>12. Cleaning(w)'
  BY <1>1, <1>4, <1>5, <1>7 DEF Cleaning, Waiting
<1>13. UploadsHold'
  BY <1>5, <1>10, <1>11, <1>12, OneWorker
<1> QED BY <1>1, <1>6, <1>13 DEF Pending

\* The holder of the claim ends the upload.
LEMMA SettleHolds ==
    ASSUME TypeOK, UploadsHold, NEW w \in Workers, Settle(w),
           NEW u \in Uploads, u = job[w].upload
    PROVE  TypeOK' /\ UploadsHold' /\ Pending' \subseteq Pending
<1> DEFINE new == Settled(row[u])
<1>1. /\ job[w].step = "settle" /\ row[u].status = "cleanup_pending"
      /\ row' = [row EXCEPT ![u] = new] /\ job' = [job EXCEPT ![w] = Idle]
      /\ UNCHANGED <<usage, now, writer, learnt, commit, call, session, object, version>>
  BY DEF Settle, Holds, provider
<1>2. Sound(row[u]) /\ now \in Nat
  BY RowSound DEF TypeOK
<1>3. /\ Sound(new) /\ new.status \in Ended /\ ~new.written /\ ~new.completing
      /\ new.named = row[u].named /\ new.evidence = row[u].evidence
  BY <1>1, <1>2, SettledSound
<1> HIDE DEF new
<1>4. /\ row' \in [Uploads -> Rows]
      /\ \A v \in Uploads : RowConstraints(row'[v])
      /\ row'[u] = new
      /\ \A v \in Uploads \ {u} : row'[v] = row[v]
  BY <1>1, <1>3, RowChanges
<1>5. /\ job' \in [Workers -> {Idle} \cup Jobs]
      /\ job'[w] = Idle
      /\ \A x \in Workers \ {w} : job'[x] = job[x]
  BY <1>1, JobChanges
<1>6. TypeOK'
  BY <1>1, <1>4, <1>5 DEF TypeOK, Rows, Jobs, usage
<1>7. Untouched(u) /\ Due(u) /\ Writing(u) /\ Provider(u) /\ Cleaning(w)
  BY DEF UploadsHold, UploadHolds
<1>8. /\ ~Waiting(u) /\ u \notin object /\ session[u] # "open"
      /\ call[u] \notin {"put", "create", "complete"}
  BY <1>1, <1>7 DEF Cleaning
<1>9. UploadHolds(u)'
  <2>1. Untouched(u)' /\ Due(u)'
    BY <1>1, <1>3, <1>4, <1>7 DEF Untouched, Due, Open, Ended
  <2>2. Writing(u)'
    BY <1>1, <1>3, <1>4, <1>7, <1>8 DEF Writing, Waiting, Ended
  <2>3. Provider(u)'
    BY <1>1, <1>3, <1>4, <1>7, <1>8 DEF Provider, Open, Ended
  <2> QED BY <2>1, <2>2, <2>3 DEF UploadHolds
<1>10. \A v \in Uploads : UploadHolds(v)'
  <2>1. ASSUME NEW v \in Uploads \ {u} PROVE UploadHolds(v)'
    <3>1. Same(v) /\ now' = now
      BY <1>1, <1>4 DEF Same
    <3> QED BY <3>1, Elsewhere DEF UploadsHold
  <2> QED BY <1>9, <2>1
<1>11. \A v \in Uploads : NoRevival(v)
  BY <1>1, <1>3, <1>4, <1>8 DEF NoRevival, Waiting
<1>12. Cleaning(w)'
  BY <1>5, IdleClean
<1>13. UploadsHold'
  BY <1>5, <1>10, <1>11, <1>12, OneWorker
<1>14. Pending' \subseteq Pending
  BY <1>1, <1>3, <1>4 DEF Pending
<1> QED BY <1>6, <1>13, <1>14

\* An attempt is put off; its claim is released if it is still its own.
LEMMA DeferHolds ==
    ASSUME TypeOK, UploadsHold, NEW w \in Workers, Defer(w),
           NEW u \in Uploads, u = job[w].upload
    PROVE  TypeOK' /\ UploadsHold' /\ Pending' = Pending
<1>1. /\ job' = [job EXCEPT ![w] = Idle]
      /\ UNCHANGED <<usage, now, writer, learnt, commit, provider, version>>
  BY DEF Defer
<1>2. /\ job' \in [Workers -> {Idle} \cup Jobs]
      /\ job'[w] = Idle
      /\ \A x \in Workers \ {w} : job'[x] = job[x]
  BY <1>1, JobChanges
<1>3. /\ row' \in [Uploads -> Rows]
      /\ \A v \in Uploads : RowConstraints(row'[v]) /\ UploadHolds(v)' /\ NoRevival(v)
      /\ Pending' = Pending
  <2>1. CASE row[u].status = "cleanup_pending" /\ row[u].claim = w
    <3>1. row' = [row EXCEPT ![u] = [@ EXCEPT !.claim = NoWorker, !.held = FALSE]]
      BY <2>1 DEF Defer
    <3> QED BY <1>1, <3>1, ClaimColumns
  <2>2. CASE ~(row[u].status = "cleanup_pending" /\ row[u].claim = w)
    <3>1. row' = [row EXCEPT ![u] = row[u]]
      BY <2>2 DEF Defer
    <3>2. row' = row /\ row \in [Uploads -> Rows] /\ \A v \in Uploads : RowConstraints(row[v])
      BY <3>1 DEF TypeOK, Rows
    <3>3. \A v \in Uploads : UploadHolds(v)'
      BY <1>1, <3>2, Elsewhere DEF Same, provider, UploadsHold
    <3>4. \A v \in Uploads : NoRevival(v)
      BY <1>1, <3>2 DEF NoRevival, provider, Waiting
    <3> QED BY <3>2, <3>3, <3>4 DEF Pending
  <2> QED BY <2>1, <2>2
<1>4. TypeOK'
  BY <1>1, <1>2, <1>3 DEF TypeOK, Rows, Jobs, usage, provider
<1>5. Cleaning(w)'
  BY <1>2, IdleClean
<1>6. UploadsHold'
  BY <1>2, <1>3, <1>5, OneWorker
<1> QED BY <1>3, <1>4, <1>6

\* A claim runs out under its worker.
LEMMA ClaimLapsesHolds ==
    ASSUME TypeOK, UploadsHold, NEW u \in Uploads, ClaimLapses(u)
    PROVE  TypeOK' /\ UploadsHold' /\ Pending' = Pending
<1>1. /\ row' = [row EXCEPT ![u].held = FALSE]
      /\ UNCHANGED <<usage, now, writer, learnt, commit, provider, version, job>>
  BY DEF ClaimLapses
<1>2. /\ row[u].claim \in Workers \cup {NoWorker}
      /\ row[u].claim # NoWorker => row[u].status = "cleanup_pending"
  BY DEF TypeOK, RowConstraints
<1>3. row' = [row EXCEPT ![u] = [@ EXCEPT !.claim = row[u].claim, !.held = FALSE]]
  <2>1. row \in [Uploads -> Rows] /\ row[u] \in Rows
    BY DEF TypeOK, Rows
  <2>2. [row[u] EXCEPT !.held = FALSE] = [row[u] EXCEPT !.claim = row[u].claim, !.held = FALSE]
    BY <2>1 DEF Rows
  <2>3. row' = [row EXCEPT ![u] = [row[u] EXCEPT !.held = FALSE]]
    BY <1>1, <2>1
  <2> QED BY <2>2, <2>3
<1>4. /\ row' \in [Uploads -> Rows]
      /\ \A v \in Uploads : RowConstraints(row'[v]) /\ UploadHolds(v)' /\ NoRevival(v)
      /\ Pending' = Pending
  BY <1>1, <1>2, <1>3, ClaimColumns
<1>5. TypeOK'
  BY <1>1, <1>4 DEF TypeOK, Rows, usage, provider
<1>6. ASSUME NEW w \in Workers PROVE Cleaning(w)'
  <2>1. job[w].step # "idle" => job[w].upload \in Uploads
    BY DEF TypeOK, Idle
  <2> QED BY <1>1, <1>4, <2>1, JobKept DEF UploadsHold, UploadHolds
<1> QED BY <1>4, <1>5, <1>6 DEF UploadsHold

-----------------------------------------------------------------------------
(* Bytes, counted as units. *)

Units(S) == {p \in S \X (1..MaxSize) : p[2] <= Size[p[1]]}

\* Finite sets of uploads have finitely many units and a number of bytes.
LEMMA BytesType ==
    ASSUME NEW S \in SUBSET Uploads
    PROVE  IsFiniteSet(Units(S)) /\ Bytes(S) \in Nat /\ Bytes(S) = Cardinality(Units(S))
<1>1. IsFiniteSet(S) /\ IsFiniteSet(1..MaxSize)
  <2>1. IsFiniteSet(S)
    BY FS_Subset
  <2>2. 1 \in Int /\ MaxSize \in Int
    OBVIOUS
  <2>3. IsFiniteSet(1..MaxSize)
    BY <2>2, FS_Interval
  <2> QED BY <2>1, <2>3
<1>2. IsFiniteSet(S \X (1..MaxSize))
  BY <1>1, FS_Product
<1>3. IsFiniteSet(Units(S))
  BY <1>2, FS_Subset DEF Units
<1> QED BY <1>3, FS_CardinalityType DEF Bytes, Units

\* Fewer uploads hold no more bytes.
LEMMA BytesMonotone ==
    ASSUME NEW T \in SUBSET Uploads, NEW S \in SUBSET T
    PROVE  Bytes(S) <= Bytes(T)
<1>1. Units(S) \subseteq Units(T)
  BY DEF Units
<1> QED BY <1>1, BytesType, FS_Subset

\* Bytes of two sets of uploads are counted at most twice.
LEMMA BytesUnion ==
    ASSUME NEW S \in SUBSET Uploads, NEW T \in SUBSET Uploads
    PROVE  Bytes(S \cup T) <= Bytes(S) + Bytes(T)
<1>1. Units(S \cup T) = Units(S) \cup Units(T)
  BY DEF Units
<1>2. Cardinality(Units(S) \cap Units(T)) \in Nat
  BY BytesType, FS_Intersection, FS_CardinalityType
<1>3. Cardinality(Units(S) \cup Units(T))
        = Cardinality(Units(S)) + Cardinality(Units(T)) - Cardinality(Units(S) \cap Units(T))
  BY BytesType, FS_Union
<1>4. /\ Bytes(S \cup T) = Cardinality(Units(S \cup T))
      /\ Bytes(S) = Cardinality(Units(S)) /\ Bytes(T) = Cardinality(Units(T))
      /\ Bytes(S) \in Nat /\ Bytes(T) \in Nat
  <2> S \cup T \in SUBSET Uploads
    OBVIOUS
  <2> QED BY BytesType
<1>5. Bytes(S \cup T) = Bytes(S) + Bytes(T) - Cardinality(Units(S) \cap Units(T))
  BY <1>1, <1>3, <1>4
<1>6. \A a, b, c \in Nat : a + b - c <= a + b
  OBVIOUS
<1> QED BY <1>2, <1>4, <1>5, <1>6

\* One upload has no more bytes than its declared size.
LEMMA BytesOne ==
    ASSUME NEW u \in Uploads
    PROVE  Bytes({u}) <= Size[u]
<1> DEFINE f == [n \in 1..Size[u] |-> <<u, n>>]
<1>1. Size[u] \in 0..MaxSize
  OBVIOUS
<1>2. f \in Surjection(1..Size[u], Units({u}))
  <2>1. \A n \in 1..Size[u] : f[n] = <<u, n>> /\ f[n] \in Units({u})
    BY <1>1 DEF Units
  <2>2. ASSUME NEW p \in Units({u}) PROVE \E n \in 1..Size[u] : f[n] = p
    <3>1. p \in {u} \X (1..MaxSize) /\ p[2] <= Size[p[1]]
      BY DEF Units
    <3>2. p = <<u, p[2]>> /\ p[2] \in 1..Size[u]
      BY <1>1, <3>1
    <3> QED BY <2>1, <3>2
  <2>3. f \in [1..Size[u] -> Units({u})]
    BY <2>1
  <2> QED BY <2>2, <2>3 DEF Surjection
<1>3. IsFiniteSet(1..Size[u]) /\ Cardinality(1..Size[u]) = Size[u]
  BY SMTT(20), <1>1, FS_Interval
<1>4. Cardinality(Units({u})) <= Cardinality(1..Size[u])
  BY <1>2, <1>3, FS_Surjection
<1> QED BY <1>3, <1>4, BytesType

\* The limits hold when the use stays and no reservation is added.
LEMMA CountedKept ==
    ASSUME TypeOK, Counted, Pending' \subseteq Pending,
           daily' \in Nat, daily' <= daily, UNCHANGED stored
    PROVE  Counted'
<1>1. Pending \in SUBSET Uploads /\ Pending' \in SUBSET Pending
  BY DEF Pending
<1> DEFINE before == Pending
           after == Pending'
<1>2. Bytes(after) <= Bytes(before) /\ Bytes(after) \in Nat /\ Bytes(before) \in Nat
  <2> HIDE DEF before, after
  <2> before \in SUBSET Uploads /\ after \in SUBSET before
    BY <1>1 DEF before, after
  <2> QED BY BytesMonotone, BytesType
<1>3. Bytes(Pending)' = Bytes(after)
  BY DEF Bytes
<1>4. daily \in Nat /\ stored \in Nat
  BY DEF TypeOK
<1> QED BY <1>2, <1>3, <1>4 DEF Counted

\* A reservation is admitted with all that is pending.
LEMMA ReserveCounted ==
    ASSUME TypeOK, NEW u \in Uploads, Reserve(u), Pending' = Pending \cup {u}
    PROVE  Counted'
<1> DEFINE before == Pending
<1>1. /\ daily + (Size[u] + Bytes(before)) <= DailyLimit
      /\ stored + (Size[u] + Bytes(before)) <= StorageLimit
      /\ UNCHANGED <<daily, stored>>
  BY DEF Reserve, ReserveCapacity, AdmitsUpload, AdmitsStorage, usage
<1>2. before \in SUBSET Uploads /\ {u} \in SUBSET Uploads
  BY DEF Pending
<1>3. Bytes(Pending)' = Bytes(before \cup {u})
  BY DEF Bytes
<1> HIDE DEF before
<1>4. /\ Bytes(before \cup {u}) <= Bytes(before) + Bytes({u})
      /\ Bytes({u}) <= Size[u]
      /\ Bytes(before) \in Nat /\ Bytes({u}) \in Nat /\ Size[u] \in Nat
  BY SMTT(20), <1>2, BytesType, BytesUnion, BytesOne
<1>5. Bytes(before \cup {u}) \in Nat
  <2> before \cup {u} \in SUBSET Uploads
    BY <1>2
  <2> QED BY BytesType
<1>6. daily \in Nat /\ stored \in Nat
  BY DEF TypeOK
<1> QED BY <1>1, <1>3, <1>4, <1>5, <1>6 DEF Counted

\* A publication moves its bytes from pending to stored.
LEMMA CommitCounted ==
    ASSUME TypeOK, NEW u \in Uploads, Commit(u)
    PROVE  /\ daily' \in 0..DailyLimit /\ stored' \in 0..StorageLimit
           /\ Pending' = Pending \ {u} => Counted'
<1> DEFINE after == Pending \ {u}
<1>1. /\ daily + Size[u] + Bytes(after) <= DailyLimit
      /\ stored + (Size[u] + Bytes(after)) <= StorageLimit
      /\ daily' = daily + Size[u] /\ stored' = stored + Size[u]
  BY DEF Commit, ChargeUpload, AdmitsStorage
<1>2. after \in SUBSET Uploads /\ Size[u] \in Nat
  BY DEF Pending
<1>3. Pending' = Pending \ {u} => Bytes(Pending)' = Bytes(after)
  BY DEF Bytes
<1> HIDE DEF after
<1>4. Bytes(after) \in Nat
  BY <1>2, BytesType
<1>5. daily \in Nat /\ stored \in Nat
  BY DEF TypeOK
<1> QED BY <1>1, <1>2, <1>3, <1>4, <1>5 DEF Counted

\* The use of others, and the turn of the day.
LEMMA OtherUseHolds ==
    ASSUME Inductive, Midnight \/ \E bytes \in 1..MaxSize : OtherUse(bytes)
    PROVE  Inductive'
<1> USE DEF Inductive
<1>1. UNCHANGED <<now, row, writer, learnt, commit, provider, version, job>>
  BY DEF Midnight, OtherUse
<1>2. UploadsHold' /\ Pending' = Pending
  BY <1>1, UploadsUntouched
<1>3. Bytes(Pending)' = Bytes(Pending) /\ Bytes(Pending) \in Nat /\ Bytes(version) \in Nat
  <2>1. Bytes(Pending)' = Bytes(Pending)
    BY <1>2 DEF Bytes
  <2>2. Pending \in SUBSET Uploads /\ version \in SUBSET Uploads
    BY DEF Pending, TypeOK
  <2>3. ASSUME NEW S \in SUBSET Uploads PROVE Bytes(S) \in Nat
    BY BytesType
  <2> QED BY <2>1, <2>2, <2>3
<1>4. daily \in Nat /\ stored \in Nat /\ daily <= DailyLimit /\ stored <= StorageLimit
  BY DEF TypeOK
<1>5. daily' \in 0..DailyLimit /\ stored' \in 0..StorageLimit /\ Counted'
  <2>1. CASE Midnight
    BY <1>3, <1>4, <2>1 DEF Midnight, NewDay, Counted
  <2>2. ASSUME NEW bytes \in 1..MaxSize, OtherUse(bytes)
        PROVE  daily' \in 0..DailyLimit /\ stored' \in 0..StorageLimit /\ Counted'
    <3>1. CASE ChargeUpload(bytes, Bytes(Pending))
      BY <1>3, <1>4, <3>1 DEF ChargeUpload, AdmitsStorage, Counted
    <3>2. CASE ChargeStorage(bytes, Bytes(Pending))
      BY <1>3, <1>4, <3>2 DEF ChargeStorage, AdmitsStorage, Counted
    <3>3. CASE bytes <= stored - Bytes(version) /\ ReleaseStorage(bytes)
      BY <1>3, <1>4, <3>3 DEF ReleaseStorage, Counted
    <3> QED BY <2>2, <3>1, <3>2, <3>3 DEF OtherUse
  <2> QED BY <2>1, <2>2
<1>6. TypeOK'
  BY <1>1, <1>5 DEF TypeOK, provider
<1> QED BY <1>2, <1>5, <1>6

-----------------------------------------------------------------------------
(* The inductive invariant. *)

\* Nothing is reserved, sent or cleaned at first.
LEMMA InitInductive == Init => Inductive
<1> SUFFICES ASSUME Init PROVE Inductive
  OBVIOUS
<1> USE DEF Init
<1>1. TypeOK
  BY DEF TypeOK, NoRow, RowConstraints, Statuses, Live, Ended, Idle, QuotaInit
<1>2. UploadsHold
  BY DEF UploadsHold, UploadHolds, Untouched, Due, Writing, Provider, Cleaning, Waiting,
         Calls, NoRow, Idle
<1>3. Pending = {}
  BY DEF Pending, NoRow
<1>4. Bytes(Pending) = 0
  <2>1. Units(Pending) = {}
    BY <1>3 DEF Units
  <2> QED BY <1>3, <2>1, BytesType, FS_EmptySet
<1> QED BY <1>1, <1>2, <1>4 DEF Inductive, Counted, QuotaInit

\* Every step of a client, the writer and the store.
LEMMA UploadStepInductive ==
    ASSUME Inductive, NEW u \in Uploads,
           ClientStep(u) \/ WriterStep(u) \/ StoreStep(u) \/ Sweep(u) \/ ClaimLapses(u)
    PROVE  Inductive'
<1> USE DEF Inductive
<1>1. CASE Reserve(u)
  BY <1>1, ReserveHolds, ReserveCounted
<1>2. CASE Commit(u)
  BY <1>2, CommitHolds, CommitCounted
<1>3. ASSUME TypeOK' /\ UploadsHold' /\ Pending' \subseteq Pending, UNCHANGED usage
      PROVE  Inductive'
  BY <1>3, CountedKept DEF TypeOK, usage
<1>4. CASE Expire(u) \/ Cancel(u) \/ Sweep(u)
  <2>1. UNCHANGED usage
    BY <1>4 DEF Expire, Cancel, Sweep
  <2> QED BY <1>3, <1>4, <2>1, ExpireHolds
<1>5. CASE ClaimTransfer(u)
  BY <1>3, <1>5, ClaimTransferHolds DEF ClaimTransfer
<1>6. CASE PrepareCommit(u) \/ VerifyObject(u) \/ CommitRefused(u)
  <2>1. UNCHANGED usage
    BY <1>6 DEF PrepareCommit, VerifyObject, CommitRefused
  <2> QED BY <1>3, <1>6, <2>1, CommitRequestHolds
<1>7. CASE StoreSingle(u) \/ CreateMultipart(u) \/ UploadPart(u) \/ CompleteMultipart(u)
  <2>1. CASE StoreSingle(u)
    <3>1. StartCall(u, {"leased"}, "put", TRUE) /\ UNCHANGED usage
      BY <2>1 DEF StoreSingle, StartCall
    <3>2. TypeOK' /\ UploadsHold' /\ Pending' \subseteq Pending
      BY <3>1, StartCallHolds, Zenon
    <3> QED BY <1>3, <3>1, <3>2
  <2>2. CASE CreateMultipart(u)
    <3>1. StartCall(u, {"leased"}, "create", FALSE) /\ UNCHANGED usage
      BY <2>2 DEF CreateMultipart, StartCall
    <3>2. TypeOK' /\ UploadsHold' /\ Pending' \subseteq Pending
      BY <3>1, StartCallHolds, Zenon
    <3> QED BY <1>3, <3>1, <3>2
  <2>3. CASE UploadPart(u)
    <3>1. StartCall(u, {"ready"}, "part", FALSE) /\ UNCHANGED usage
      BY <2>3 DEF UploadPart, StartCall
    <3>2. TypeOK' /\ UploadsHold' /\ Pending' \subseteq Pending
      BY <3>1, StartCallHolds, Zenon
    <3> QED BY <1>3, <3>1, <3>2
  <2>4. CASE CompleteMultipart(u)
    <3>1. StartCall(u, {"sent"}, "complete", TRUE) /\ UNCHANGED usage
      BY <2>4 DEF CompleteMultipart, StartCall
    <3>2. TypeOK' /\ UploadsHold' /\ Pending' \subseteq Pending
      BY <3>1, StartCallHolds, Zenon
    <3> QED BY <1>3, <3>1, <3>2
  <2> QED BY <1>7, <2>1, <2>2, <2>3, <2>4
<1>8. CASE RecordMultipart(u)
  BY <1>3, <1>8, RecordMultipartHolds DEF RecordMultipart
<1>9. CASE Reconcile(u) \/ Drop(u) \/ WriterCrash(u) \/ ErrorOrTimeout(u)
  <2>1. UNCHANGED usage
    BY <1>9 DEF Reconcile, Drop, WriterCrash, ErrorOrTimeout
  <2> QED BY <1>3, <1>9, <2>1, WriterMoves
<1>10. CASE CompleteTransfer(u)
  BY <1>3, <1>10, CompleteTransferHolds DEF CompleteTransfer
<1>11. CASE FailTransfer(u)
  BY <1>3, <1>11, FailTransferHolds DEF FailTransfer
<1>12. CASE TakeEffect(u)
  BY <1>3, <1>12, TakeEffectHolds DEF TakeEffect
<1>13. CASE NoEffect(u)
  BY <1>3, <1>13, NoEffectHolds DEF NoEffect
<1>14. CASE ClaimLapses(u)
  BY <1>3, <1>14, ClaimLapsesHolds DEF ClaimLapses
<1> QED BY <1>1, <1>2, <1>4, <1>5, <1>6, <1>7, <1>8, <1>9, <1>10, <1>11, <1>12, <1>13, <1>14
        DEF ClientStep, WriterStep, StoreStep

\* Every step of a cleanup worker.
LEMMA WorkerStepInductive ==
    ASSUME Inductive, NEW w \in Workers, WorkerStep(w)
    PROVE  Inductive'
<1> USE DEF Inductive
<1>1. UNCHANGED usage
  BY DEF WorkerStep, Claim, CheckClaim, ListSessions, AbortSession, HeadFound, HeadMissing,
         DeleteObject, ConfirmDeleted, Settle, Defer, WorkerCrash
<1>2. ASSUME TypeOK' /\ UploadsHold' /\ Pending' \subseteq Pending
      PROVE  Inductive'
  BY <1>1, <1>2, CountedKept DEF TypeOK, usage
<1>3. CASE \E u \in Uploads : Claim(w, u)
  BY <1>2, <1>3, ClaimHolds
<1>4. CASE CheckClaim(w) \/ HeadMissing(w) \/ ConfirmDeleted(w) \/ WorkerCrash(w)
  BY <1>2, <1>4, JobStepHolds
<1>5. CASE ListSessions(w) \/ AbortSession(w) \/ HeadFound(w) \/ DeleteObject(w)
           \/ Settle(w) \/ Defer(w)
  <2>1. job[w].step # "idle"
    BY <1>5 DEF ListSessions, AbortSession, HeadFound, DeleteObject, Settle, Defer
  <2>2. PICK u \in Uploads : u = job[w].upload
    BY <2>1, JobType DEF Jobs
  <2>3. TypeOK' /\ UploadsHold' /\ Pending' \subseteq Pending
    BY <1>5, <2>2, ListSessionsHolds, AbortSessionHolds, HeadFoundHolds, DeleteObjectHolds,
       SettleHolds, DeferHolds
  <2> QED BY <1>2, <2>3
<1> QED BY <1>3, <1>4, <1>5 DEF WorkerStep

\* Every step keeps the invariant.
LEMMA NextInductive == Inductive /\ [Next]_vars => Inductive'
<1> SUFFICES ASSUME Inductive, [Next]_vars PROVE Inductive'
  OBVIOUS
<1>1. CASE \E u \in Uploads : \/ ClientStep(u) \/ WriterStep(u) \/ StoreStep(u)
                              \/ Sweep(u) \/ ClaimLapses(u)
  BY <1>1, UploadStepInductive
<1>2. CASE \E w \in Workers : WorkerStep(w)
  BY <1>2, WorkerStepInductive
<1>3. CASE Midnight \/ \E bytes \in 1..MaxSize : OtherUse(bytes)
  BY <1>3, OtherUseHolds
<1>4. CASE Tick
  <2>1. TypeOK' /\ UploadsHold' /\ Pending' = Pending
    BY <1>4, TickHolds DEF Inductive
  <2>2. Counted'
    BY <1>4, <2>1, CountedKept DEF Inductive, TypeOK, Tick, usage
  <2> QED BY <2>1, <2>2 DEF Inductive
<1>5. CASE UNCHANGED vars
  <2>1. UploadsHold' /\ Pending' = Pending
    BY <1>5, UploadsUntouched DEF vars, provider, Inductive
  <2>2. TypeOK'
    BY <1>5 DEF TypeOK, Inductive, vars, usage, provider
  <2>3. Counted'
    BY <1>5, <2>1, CountedKept DEF Inductive, TypeOK, vars, usage
  <2> QED BY <2>1, <2>2, <2>3 DEF Inductive
<1> QED BY <1>1, <1>2, <1>3, <1>4, <1>5 DEF Next

\* The invariant holds in every reachable state.
THEOREM InductiveInvariant == Spec => []Inductive
<1>1. Init => Inductive
  BY InitInductive
<1>2. Inductive /\ [Next]_vars => Inductive'
  BY NextInductive
<1> QED BY <1>1, <1>2, PTL DEF Spec

-----------------------------------------------------------------------------
(* What follows from it. *)

\* Types and the CHECK constraints of delegated_uploads: no statement of the
\* service or of its workers fails on one.
THEOREM TypeCorrect == Spec => []TypeOK
<1>1. Inductive => TypeOK
  BY DEF Inductive
<1> QED BY <1>1, InductiveInvariant, PTL

\* The object of a published upload is never removed, whatever store calls are
\* answered late and whichever workers hold stale claims.
THEOREM PublishedStoredAlways == Spec => []PublishedStored
<1>1. Inductive => PublishedStored
  BY DEF Inductive, TypeOK, UploadsHold, UploadHolds, Provider, PublishedStored
<1> QED BY <1>1, InductiveInvariant, PTL

\* An upload that has ended has left nothing at the provider, and no call that
\* could still bring something there.
THEOREM NothingLeftAlways == Spec => []NothingLeft
<1>1. ASSUME Inductive, NEW u \in Uploads, row[u].status \in Ended
      PROVE  u \notin object /\ session[u] # "open" /\ call[u] \notin {"put", "create"}
  <2>1. RowConstraints(row[u]) /\ Provider(u)
    BY <1>1 DEF Inductive, TypeOK, UploadsHold, UploadHolds
  <2> QED BY <1>1, <2>1 DEF RowConstraints, Provider
<1>2. Inductive => NothingLeft
  BY <1>1 DEF NothingLeft
<1> QED BY <1>2, InductiveInvariant, PTL

\* No bytes at the provider escape the limits: each object is of a version or
\* of an upload that still counts.
THEOREM WithinLimitsAlways == Spec => []WithinLimits
<1>1. ASSUME Inductive PROVE stored - Bytes(version) + Bytes(object) <= StorageLimit
  <2>1. object \in SUBSET (version \cup Pending)
    <3>1. ASSUME NEW u \in object PROVE u \in version \cup Pending
      <4>1. u \in Uploads /\ row[u].status \in Statuses
        BY <1>1 DEF Inductive, TypeOK
      <4>2. RowConstraints(row[u]) /\ Provider(u) /\ Untouched(u)
        BY <1>1, <4>1 DEF Inductive, TypeOK, UploadsHold, UploadHolds
      <4>3. row[u].completing /\ row[u].written
        BY <4>2 DEF Provider, RowConstraints
      <4> QED BY <4>1, <4>2, <4>3
              DEF Provider, RowConstraints, Untouched, Pending, Statuses, Live
    <3> QED BY <3>1
  <2>2. version \in SUBSET Uploads /\ Pending \in SUBSET Uploads
    BY <1>1 DEF Inductive, TypeOK, Pending
  <2>3. Bytes(object) <= Bytes(version \cup Pending)
    <3> version \cup Pending \in SUBSET Uploads
      BY <2>2
    <3> QED BY <2>1, BytesMonotone
  <2>4. Bytes(version \cup Pending) <= Bytes(version) + Bytes(Pending)
    BY <2>2, BytesUnion
  <2>5. /\ Bytes(version) \in Nat /\ Bytes(Pending) \in Nat
        /\ Bytes(version \cup Pending) \in Nat /\ Bytes(object) \in Nat
    <3>1. version \cup Pending \in SUBSET Uploads /\ object \in SUBSET Uploads
      BY <2>1, <2>2
    <3> QED BY <2>2, <3>1, BytesType
  <2>6. stored + Bytes(Pending) <= StorageLimit /\ stored \in Nat
    BY <1>1 DEF Inductive, Counted, TypeOK
  <2> QED BY <2>3, <2>4, <2>5, <2>6
<1>2. Inductive => WithinLimits
  BY <1>1 DEF Inductive, Counted, WithinLimits
<1> QED BY <1>2, InductiveInvariant, PTL

\* No cleanup works on an upload whose client still waits for a call.
THEOREM QuiescentCleanupAlways == Spec => []QuiescentCleanup
<1>1. Inductive => QuiescentCleanup
  BY DEF Inductive, UploadsHold, Cleaning, QuiescentCleanup
<1> QED BY <1>1, InductiveInvariant, PTL

\* Cleanup is safe for the published, complete for the rest, and in nobody's way.
THEOREM CleanupIsSafeAlways == Spec => []CleanupIsSafe
<1>1. PublishedStored /\ NothingLeft /\ QuiescentCleanup => CleanupIsSafe
  BY DEF CleanupIsSafe
<1> QED BY <1>1, PublishedStoredAlways, NothingLeftAlways, QuiescentCleanupAlways, PTL

===============================================================================
