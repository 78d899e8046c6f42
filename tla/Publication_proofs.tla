------------------------- MODULE Publication_proofs ---------------------------
(***************************************************************************)
(* Safety of publication for any number of requests and attempts, some of  *)
(* which outlast their lease, stop, or are cancelled while they await       *)
(* COMMIT.  The invariant is Inductive: the lock on the file makes the      *)
(* number a transaction has computed the next one; records and versions     *)
(* agree on which requests are done; a cleanup only concerns objects of its *)
(* own request; and as long as a request has not outlived its lease, one    *)
(* attempt at a time runs with its key.  So a cleanup finds the object of a *)
(* published version only in the two ways that ContentLostTwoWays names.    *)
(***************************************************************************)
EXTENDS Publication, FiniteSetTheorems, WellFoundedInduction, TLAPS

USE AttemptsAssumption

\* MAX(version_number) + 1 follows on from versions that are numbered without a gap.
LEMMA NextNumberFollows ==
    ASSUME TypeOK, Numbered
    PROVE  /\ Cardinality(Versions) \in Nat
           /\ NextNumber \in Nat
           /\ NextNumber = Existing + Cardinality(Versions) + 1
<1> DEFINE count == Cardinality(Versions)
           numbers == {number[b] : b \in Attempts} \cup {Existing}
           last == Existing + count
<1>1. count \in Nat
  BY FS_CardinalityType DEF Numbered
<1>2. Existing \in {0, 1}
  BY DEF Existing
<1>3. last \in numbers /\ \A m \in numbers : m <= last
  <2>1. {number[b] : b \in Versions} = (Existing + 1)..last
    BY DEF Numbered
  <2>2. \A b \in Attempts : number[b] <= last
    <3> SUFFICES ASSUME NEW b \in Attempts PROVE number[b] <= last
      OBVIOUS
    <3>1. number[b] \in Nat
      BY DEF TypeOK
    <3>2. CASE b \in Versions
      BY <2>1, <3>2, <1>1, <1>2
    <3>3. CASE b \notin Versions
      BY <3>1, <3>3, <1>1, <1>2 DEF Versions, Published
    <3> QED BY <3>2, <3>3
  <2>3. last \in numbers
    <3>1. CASE count = 0
      BY <3>1, <1>2
    <3>2. CASE count # 0
      <4>1. last \in (Existing + 1)..last
        BY <3>2, <1>1, <1>2
      <4>2. PICK b \in Versions : last = number[b]
        BY <4>1, <2>1
      <4> QED BY <4>2 DEF Versions
    <3> QED BY <3>1, <3>2
  <2> QED BY <2>2, <2>3, <1>1, <1>2
<1>4. \A m \in numbers : m \in Nat
  BY <1>2 DEF TypeOK
<1>5. (CHOOSE n \in numbers : \A m \in numbers : m <= n) = last
  <2>1. \A n \in numbers : (\A m \in numbers : m <= n) => n = last
    <3> HIDE DEF numbers, last
    <3> QED BY <1>3, <1>4
  <2> HIDE DEF numbers, last
  <2> QED BY <1>3, <2>1
<1>6. NextNumber = 1 + last
  BY <1>5 DEF NextNumber
<1> HIDE DEF count
<1> QED BY <1>1, <1>2, <1>6 DEF count

\* A step that publishes nothing leaves the numbering as it is.
LEMMA NumbersKept ==
    ASSUME Numbered, UNCHANGED number
    PROVE  Numbered'
  BY DEF Numbered, Versions, Published

\* Looking up an attempt's key finds the object written last under it, if any.
LEMMA LatestFound ==
    ASSUME TypeOK, NEW a \in Attempts, Latest(a) # NoAttempt
    PROVE  Latest(a) \in Attempts /\ Stored(Latest(a)) /\ key[Latest(a)] = key[a]
<1> DEFINE found == {b \in Attempts : Stored(b) /\ key[b] = key[a]}
           ages == {writes - landed[b] : b \in found}
           R == OpToRel(<, Nat)
<1>1. found # {}
  BY DEF Latest
<1>2. \A b \in found : landed[b] \in Nat /\ writes - landed[b] \in Nat
  BY DEF TypeOK
<1>3. ages \subseteq Nat /\ ages # {}
  BY <1>1, <1>2
<1>4. PICK least \in ages : \A age \in ages : ~ (<<age, least>> \in R)
  <2> HIDE DEF ages, R
  <2>1. IsWellFoundedOn(R, Nat)
    BY NatLessThanWellFounded DEF R
  <2> QED BY <2>1, <1>3, WFMin
<1>5. PICK b \in found : least = writes - landed[b]
  BY <1>4
<1>6. \A c \in found : landed[c] <= landed[b]
  <2> SUFFICES ASSUME NEW c \in found PROVE landed[c] <= landed[b]
    OBVIOUS
  <2>1. writes - landed[c] \in ages
    OBVIOUS
  <2>2. ~ (writes - landed[c] < writes - landed[b])
    BY <2>1, <1>2, <1>3, <1>4, <1>5 DEF OpToRel
  <2>3. writes \in Nat
    BY DEF TypeOK
  <2> QED BY <2>2, <2>3, <1>2
<1>7. Latest(a) \in found
  <2>1. Latest(a) = CHOOSE d \in found : \A c \in found : landed[c] <= landed[d]
    BY <1>1 DEF Latest
  <2> QED BY <2>1, <1>6
<1> QED BY <1>7

\* A publication is the first for its request, and takes the number that is next.
LEMMA PublishAdds ==
    ASSUME Inductive, NEW a \in Attempts, Publish(a)
    PROVE  /\ a \notin Versions
           /\ Versions' = Versions \cup {a}
           /\ locker = a /\ status[RequestOf[a]] = "in_progress"
           /\ draft[a] = Existing + Cardinality(Versions) + 1
           /\ Cardinality(Versions) \in Nat
           /\ \A b \in Versions : number'[b] = number[b]
           /\ number'[a] = draft[a]
<1>1. /\ pc[a] = "publish"
      /\ number' = [number EXCEPT ![a] = draft[a]]
      /\ number \in [Attempts -> Nat]
  BY DEF Publish, Inductive, TypeOK
<1>2. /\ locker = a /\ status[RequestOf[a]] = "in_progress"
      /\ draft[a] = Existing + Cardinality(Versions) + 1
  BY <1>1 DEF Inductive, Locking
<1>3. Cardinality(Versions) \in Nat
  BY FS_CardinalityType DEF Inductive, Numbered
<1>4. draft[a] \in Nat /\ draft[a] > 0
  BY <1>2, <1>3 DEF Existing
<1>5. a \notin Versions
  BY <1>2 DEF Inductive, Recorded
<1>6. Versions' = Versions \cup {a}
  BY <1>1, <1>4 DEF Versions, Published
<1>7. \A b \in Versions : b \in Attempts /\ b # a
  BY <1>5 DEF Versions
<1> QED BY <1>1, <1>2, <1>3, <1>5, <1>6, <1>7

\* Every initial state satisfies the invariant.
LEMMA InitInductive == Init => Inductive
<1> SUFFICES ASSUME Init PROVE Inductive
  OBVIOUS
<1>1. Versions = {}
  BY DEF Init, Versions, Published
<1>2. Cardinality(Versions) = 0 /\ IsFiniteSet(Versions)
  BY <1>1, FS_EmptySet
<1>3. Numbered
  BY <1>1, <1>2 DEF Numbered, Existing
<1>4. TypeOK
  BY DEF Init, TypeOK
<1>5. Locking /\ Recorded /\ Cleaned /\ Keyed
  BY <1>1 DEF Init, Locking, Recorded, Cleaned, Keyed, Stored, Active, Writing, Ending
<1>6. Settled /\ Exclusive /\ Kept
  BY DEF Init, Settled, Exclusive, Kept, Active, Writing, Ending, Published
<1> QED BY <1>3, <1>4, <1>5, <1>6 DEF Inductive

\* A reservation finds no record, so no attempt is running with the key.
LEMMA ReserveKeeps ==
    ASSUME Inductive, NEW a \in Attempts, Reserve(a)
    PROVE  Inductive'
<1>1. TypeOK'
  BY DEF Reserve, StartWrite, Goto, Inductive, TypeOK, Writing, record, store,
        file, guard
<1>2. Locking'
  BY DEF Reserve, CanPrepare, StartWrite, Goto, Inductive, Locking, file
<1>3. Recorded'
  BY DEF Reserve, StartWrite, Goto, Inductive, Recorded, Versions, Published,
        file
<1>4. Cleaned'
  BY DEF Reserve, CanPrepare, StartWrite, Goto, Inductive, Cleaned, Stored,
        guard
<1>5. Numbered'
  BY NumbersKept DEF Reserve, StartWrite, file, Inductive
<1>6. Keyed'
  BY DEF Reserve, CanPrepare, StartWrite, Goto, Inductive, TypeOK, Keyed, Stored,
     Locking, Active, Writing, Ending, record, store, file, guard
<1>7. Settled'
  BY DEF Reserve, CanPrepare, StartWrite, Goto, Inductive, TypeOK, Keyed, Settled,
     Recorded, Versions, Published, Writing, Ending, record, store, file, guard
<1>8. Exclusive'
  BY DEF Reserve, CanPrepare, StartWrite, Goto, Inductive, TypeOK, Exclusive, Locking,
     Recorded, Settled, Versions, Published, Active, Writing, Ending, record, store,
     file, guard
<1>9. Kept'
  BY DEF Reserve, CanPrepare, StartWrite, Goto, Inductive, TypeOK, Keyed, Settled,
     Kept, LostToItself, LostToAnother, Published, Stored, record, store, file, guard
<1> QED BY <1>1, <1>2, <1>3, <1>4, <1>5, <1>6, <1>7, <1>8, <1>9 DEF Inductive

\* A takeover finds the lease over, so the attempts before it have ended.
LEMMA TakeOverKeeps ==
    ASSUME Inductive, NEW a \in Attempts, TakeOver(a)
    PROVE  Inductive'
<1>1. TypeOK'
  BY DEF TakeOver, LeaseOver, StartWrite, Goto, Inductive, TypeOK, Writing,
        record, store, file, guard
<1>2. Locking'
  BY DEF TakeOver, CanPrepare, StartWrite, Goto, Inductive, Locking, file
<1>3. Recorded'
  BY DEF TakeOver, StartWrite, Goto, Inductive, Recorded, Versions, Published,
        file
<1>4. Cleaned'
  BY DEF TakeOver, CanPrepare, StartWrite, Goto, Inductive, Cleaned, Stored,
        guard
<1>5. Numbered'
  BY NumbersKept DEF TakeOver, StartWrite, file, Inductive
<1>6. Keyed'
  BY DEF TakeOver, CanPrepare, LeaseOver, StartWrite, Goto, Inductive, TypeOK, Keyed,
     Stored, Locking, Active, Writing, Ending, record, store, file, guard
<1>7. Settled'
  BY DEF TakeOver, CanPrepare, LeaseOver, StartWrite, Goto, Inductive, TypeOK, Keyed,
     Settled, Recorded, Versions, Published, Writing, Ending, record, store, file,
     guard
<1>8. Exclusive'
  BY DEF TakeOver, CanPrepare, LeaseOver, StartWrite, Goto, Inductive, TypeOK,
     Exclusive, Locking, Recorded, Settled, Versions, Published, Active, Writing,
     Ending, record, store, file, guard
<1>9. Kept'
  BY DEF TakeOver, CanPrepare, LeaseOver, StartWrite, Goto, Inductive, TypeOK, Keyed,
     Settled, Kept, LostToItself, LostToAnother, Published, Stored, record, store,
     file, guard
<1> QED BY <1>1, <1>2, <1>3, <1>4, <1>5, <1>6, <1>7, <1>8, <1>9 DEF Inductive

\* A replay finds the record completed.
LEMMA ReplayKeeps ==
    ASSUME Inductive, NEW a \in Attempts, Replay(a)
    PROVE  Inductive'
<1>1. TypeOK'
  BY DEF Replay, Goto, Inductive, TypeOK, Ended, record, store, file, guard
<1>2. Locking'
  BY DEF Replay, CanPrepare, Goto, Inductive, Locking, file
<1>3. Recorded'
  BY DEF Replay, Goto, Inductive, Recorded, Versions, Published, record, file
<1>4. Cleaned'
  BY DEF Replay, Goto, Inductive, Cleaned, Stored, store, guard
<1>5. Numbered'
  BY NumbersKept DEF Replay, file, Inductive
<1>6. Keyed'
  BY DEF Replay, CanPrepare, Goto, Inductive, TypeOK, Keyed, Stored, Locking, Active,
     Writing, Ending, record, store, file, guard
<1>7. Settled'
  BY DEF Replay, CanPrepare, Goto, Inductive, TypeOK, Keyed, Settled, Recorded,
     Versions, Published, Writing, Ending, record, store, file, guard
<1>8. Exclusive'
  BY DEF Replay, CanPrepare, Goto, Inductive, TypeOK, Exclusive, Locking, Recorded,
     Settled, Versions, Published, Active, Writing, Ending, record, store, file, guard
<1>9. Kept'
  BY DEF Replay, CanPrepare, Goto, Inductive, TypeOK, Keyed, Settled, Kept,
     LostToItself, LostToAnother, Published, Stored, record, store, file, guard
<1> QED BY <1>1, <1>2, <1>3, <1>4, <1>5, <1>6, <1>7, <1>8, <1>9 DEF Inductive

\* A refusal changes the attempt alone.
LEMMA RefuseBusyKeeps ==
    ASSUME Inductive, NEW a \in Attempts, RefuseBusy(a)
    PROVE  Inductive'
<1>1. TypeOK'
  BY DEF RefuseBusy, Goto, Inductive, TypeOK, Ended, record, store, file,
        guard
<1>2. Locking'
  BY DEF RefuseBusy, CanPrepare, Goto, Inductive, Locking, file
<1>3. Recorded'
  BY DEF RefuseBusy, Goto, Inductive, Recorded, Versions, Published, record,
        file
<1>4. Cleaned'
  BY DEF RefuseBusy, Goto, Inductive, Cleaned, Stored, store, guard
<1>5. Numbered'
  BY NumbersKept DEF RefuseBusy, file, Inductive
<1>6. Keyed'
  BY DEF RefuseBusy, CanPrepare, Goto, Inductive, TypeOK, Keyed, Stored, Locking,
     Active, Writing, Ending, record, store, file, guard
<1>7. Settled'
  BY DEF RefuseBusy, CanPrepare, Goto, Inductive, TypeOK, Keyed, Settled, Recorded,
     Versions, Published, Writing, Ending, record, store, file, guard
<1>8. Exclusive'
  BY DEF RefuseBusy, CanPrepare, Goto, Inductive, TypeOK, Exclusive, Locking,
     Recorded, Settled, Versions, Published, Active, Writing, Ending, record, store,
     file, guard
<1>9. Kept'
  BY DEF RefuseBusy, CanPrepare, Goto, Inductive, TypeOK, Keyed, Settled, Kept,
     LostToItself, LostToAnother, Published, Stored, record, store, file, guard
<1> QED BY <1>1, <1>2, <1>3, <1>4, <1>5, <1>6, <1>7, <1>8, <1>9 DEF Inductive

\* An object that lands is not one that is known yet, nor one deleted before.
LEMMA LandKeeps ==
    ASSUME Inductive, NEW a \in Attempts, Land(a)
    PROVE  Inductive'
<1>1. TypeOK'
  BY DEF Land, Inductive, TypeOK, record, store, file, guard
<1>2. Cleaned'
  BY DEF Land, Inductive, Cleaned, Stored, guard
<1>3. /\ Locking'
      /\ Recorded'
  BY DEF Land, Inductive, Locking, Recorded, Versions, Published,
        record, file
<1>4. Numbered'
  BY NumbersKept DEF Land, file, Inductive
<1>5. Keyed'
  BY DEF Land, Inductive, TypeOK, Keyed, Stored, Locking, Active, Writing, Ending,
     record, store, file, guard
<1>6. Settled'
  BY DEF Land, Inductive, TypeOK, Keyed, Settled, Recorded, Versions, Published,
     Writing, Ending, record, store, file, guard
<1>7. Exclusive'
  BY DEF Land, Inductive, TypeOK, Exclusive, Locking, Recorded, Settled, Versions,
     Published, Active, Writing, Ending, record, store, file, guard
<1>8. Kept'
  BY DEF Land, Inductive, TypeOK, Keyed, Settled, Kept, LostToItself, LostToAnother,
     Published, Stored, record, store, file, guard
<1> QED BY <1>1, <1>2, <1>3, <1>4, <1>5, <1>6, <1>7, <1>8 DEF Inductive

\* An attempt learns its object after it has landed.
LEMMA PutSucceedsKeeps ==
    ASSUME Inductive, NEW a \in Attempts, PutSucceeds(a)
    PROVE  Inductive'
<1>1. TypeOK'
  BY DEF PutSucceeds, Goto, Inductive, TypeOK, Writing, record, store, file,
        guard
<1>2. Locking'
  BY DEF PutSucceeds, Goto, Inductive, Locking, Versions, Published, record,
        file, guard
<1>3. Recorded'
  BY DEF PutSucceeds, Goto, Inductive, Recorded, Versions, Published, record,
        file, guard
<1>4. Cleaned'
  BY DEF PutSucceeds, Goto, Inductive, TypeOK, Cleaned, Stored, store, guard
<1>5. Numbered'
  BY NumbersKept DEF PutSucceeds, file, Inductive
<1>6. Keyed'
  BY DEF PutSucceeds, Goto, Inductive, TypeOK, Keyed, Stored, Locking, Active,
     Writing, Ending, record, store, file, guard
<1>7. Settled'
  BY DEF PutSucceeds, Goto, Inductive, TypeOK, Keyed, Settled, Recorded, Versions,
     Published, Writing, Ending, record, store, file, guard
<1>8. Exclusive'
  BY DEF PutSucceeds, Goto, Inductive, TypeOK, Exclusive, Locking, Recorded, Settled,
     Versions, Published, Active, Writing, Ending, record, store, file, guard
<1>9. Kept'
  BY DEF PutSucceeds, Goto, Inductive, TypeOK, Keyed, Settled, Kept, LostToItself,
     LostToAnother, Published, Stored, record, store, file, guard
<1> QED BY <1>1, <1>2, <1>3, <1>4, <1>5, <1>6, <1>7, <1>8, <1>9 DEF Inductive

\* A failed write is cleaned up under the record that is still reserved.
LEMMA PutFailsKeeps ==
    ASSUME Inductive, NEW a \in Attempts, PutFails(a)
    PROVE  Inductive'
<1>1. TypeOK'
  BY DEF PutFails, Goto, Inductive, TypeOK, Ending, record, store, file, guard
<1>2. Locking'
  BY DEF PutFails, Goto, Inductive, Locking, Versions, Published, record, file
<1>3. Recorded'
  BY DEF PutFails, Goto, Inductive, Recorded, Versions, Published, record,
        file
<1>4. Cleaned'
  BY DEF PutFails, Goto, Inductive, Cleaned, Stored, store, guard
<1>5. Numbered'
  BY NumbersKept DEF PutFails, file, Inductive
<1>6. Keyed'
  BY DEF PutFails, Goto, Inductive, TypeOK, Keyed, Stored, Locking, Active, Writing,
     Ending, record, store, file, guard
<1>7. Settled'
  BY DEF PutFails, Goto, Inductive, TypeOK, Keyed, Settled, Recorded, Versions,
     Published, Writing, Ending, record, store, file, guard
<1>8. Exclusive'
  BY DEF PutFails, Goto, Inductive, TypeOK, Exclusive, Locking, Recorded, Settled,
     Versions, Published, Active, Writing, Ending, record, store, file, guard
<1>9. Kept'
  BY DEF PutFails, Goto, Inductive, TypeOK, Keyed, Settled, Kept, LostToItself,
     LostToAnother, Published, Stored, record, store, file, guard
<1> QED BY <1>1, <1>2, <1>3, <1>4, <1>5, <1>6, <1>7, <1>8, <1>9 DEF Inductive

\* Renewing a lease keeps the record in progress.
LEMMA RenewKeeps ==
    ASSUME Inductive, NEW a \in Attempts, Renew(a)
    PROVE  Inductive'
<1>1. TypeOK'
  BY DEF Renew, Inductive, TypeOK, record, store, file, guard
<1>2. /\ Locking'
      /\ Recorded'
      /\ Cleaned'
  BY DEF Renew, Inductive, Locking, Recorded, Cleaned, Versions,
        Published, Stored, record, store, file, guard
<1>3. Numbered'
  BY NumbersKept DEF Renew, file, Inductive
<1>4. Keyed'
  BY DEF Renew, Inductive, TypeOK, Keyed, Stored, Locking, Active, Writing, Ending,
     record, store, file, guard
<1>5. Settled'
  BY DEF Renew, Inductive, TypeOK, Keyed, Settled, Recorded, Versions, Published,
     Writing, Ending, record, store, file, guard
<1>6. Exclusive'
  BY DEF Renew, Inductive, TypeOK, Exclusive, Locking, Recorded, Settled, Versions,
     Published, Active, Writing, Ending, record, store, file, guard
<1>7. Kept'
  BY DEF Renew, Inductive, TypeOK, Keyed, Settled, Kept, LostToItself, LostToAnother,
     Published, Stored, record, store, file, guard
<1> QED BY <1>1, <1>2, <1>3, <1>4, <1>5, <1>6, <1>7 DEF Inductive

\* The transaction finds its record in progress, and computes the next number.
LEMMA BeginCommitKeeps ==
    ASSUME Inductive, NEW a \in Attempts, BeginCommit(a)
    PROVE  Inductive'
<1>1. TypeOK'
  BY NextNumberFollows DEF BeginCommit, Goto, Inductive, TypeOK, Writing,
        record, store, file, guard
<1>2. Locking'
  BY NextNumberFollows DEF BeginCommit, Reserved, Goto, Inductive, TypeOK,
        Locking, Versions, Published, record
<1>3. Recorded'
  BY DEF BeginCommit, Goto, Inductive, Recorded, Versions, Published, record
<1>4. Cleaned'
  BY DEF BeginCommit, Goto, Inductive, Cleaned, Stored, store, file, guard
<1>5. Numbered'
  BY NumbersKept DEF BeginCommit, file, Inductive
<1>6. Keyed'
  BY DEF BeginCommit, Goto, Reserved, Inductive, TypeOK, Keyed, Stored, Locking,
     Active, Writing, Ending, record, store, file, guard
<1>7. Settled'
  BY DEF BeginCommit, Goto, Reserved, Inductive, TypeOK, Keyed, Settled, Recorded,
     Versions, Published, Writing, Ending, record, store, file, guard
<1>8. Exclusive'
  BY DEF BeginCommit, Goto, Reserved, Inductive, TypeOK, Exclusive, Locking, Recorded,
     Settled, Versions, Published, Active, Writing, Ending, record, store, file, guard
<1>9. Kept'
  BY DEF BeginCommit, Goto, Reserved, Inductive, TypeOK, Keyed, Settled, Kept,
     LostToItself, LostToAnother, Published, Stored, record, store, file, guard
<1> QED BY <1>1, <1>2, <1>3, <1>4, <1>5, <1>6, <1>7, <1>8, <1>9 DEF Inductive

\* A failed transaction gives up the lock and its number.
LEMMA CommitFailsKeeps ==
    ASSUME Inductive, NEW a \in Attempts, CommitFails(a)
    PROVE  Inductive'
<1>1. TypeOK'
  BY DEF CommitFails, Goto, Unlock, Inductive, TypeOK, Ending, record, store,
        file, guard
<1>2. Locking'
  BY DEF CommitFails, Goto, Unlock, Inductive, TypeOK, Locking, Versions,
        Published, record
<1>3. Recorded'
  BY DEF CommitFails, Goto, Inductive, Recorded, Versions, Published, record
<1>4. Cleaned'
  BY DEF CommitFails, Goto, Inductive, Cleaned, Stored, store, file, guard
<1>5. Numbered'
  BY NumbersKept DEF CommitFails, file, Inductive
<1>6. Keyed'
  BY DEF CommitFails, Goto, Unlock, Inductive, TypeOK, Keyed, Stored, Locking, Active,
     Writing, Ending, record, store, file, guard
<1>7. Settled'
  BY DEF CommitFails, Goto, Unlock, Inductive, TypeOK, Keyed, Settled, Recorded,
     Versions, Published, Writing, Ending, record, store, file, guard
<1>8. Exclusive'
  BY DEF CommitFails, Goto, Unlock, Inductive, TypeOK, Exclusive, Locking, Recorded,
     Settled, Versions, Published, Active, Writing, Ending, record, store, file, guard
<1>9. Kept'
  BY DEF CommitFails, Goto, Unlock, Inductive, TypeOK, Keyed, Settled, Kept,
     LostToItself, LostToAnother, Published, Stored, record, store, file, guard
<1> QED BY <1>1, <1>2, <1>3, <1>4, <1>5, <1>6, <1>7, <1>8, <1>9 DEF Inductive

\* Publication adds one version, under the number that comes next, to a record
\* no attempt had published.
LEMMA PublishKeeps ==
    ASSUME Inductive, NEW a \in Attempts, Publish(a)
    PROVE  Inductive'
<1>1. TypeOK'
  BY DEF Publish, Unlock, Goto, Inductive, TypeOK, Ending, record, store,
        file, guard
<1>2. Locking'
  BY DEF Publish, Unlock, Goto, Inductive, TypeOK, Locking
<1>3. Recorded'
  <2>1. status' = [status EXCEPT ![RequestOf[a]] = "completed"]
    BY DEF Publish
  <2>2. pc' = [pc EXCEPT ![a] = "reply"]
    BY DEF Publish, Goto
  <2>3. Recorded /\ TypeOK /\ Versions \subseteq Attempts
    BY DEF Inductive, Versions
  <2> QED BY <2>1, <2>2, <2>3, PublishAdds DEF Recorded, TypeOK
<1>4. Numbered'
  <2>1. IsFiniteSet(Versions') /\ Cardinality(Versions') = Cardinality(Versions) + 1
    BY PublishAdds, FS_AddElement DEF Inductive, Numbered
  <2>2. {number'[b] : b \in Versions'} = {number[b] : b \in Versions} \cup {draft[a]}
    BY PublishAdds
  <2>3. {number[b] : b \in Versions} = (Existing + 1)..(Existing + Cardinality(Versions))
    BY DEF Inductive, Numbered
  <2>4. (Existing + 1)..(Existing + Cardinality(Versions)) \cup {draft[a]}
            = (Existing + 1)..(Existing + Cardinality(Versions) + 1)
    BY PublishAdds DEF Existing
  <2>5. Existing + Cardinality(Versions') = Existing + Cardinality(Versions) + 1
    BY <2>1, PublishAdds DEF Existing
  <2>6. {number'[b] : b \in Versions'} = (Existing + 1)..(Existing + Cardinality(Versions'))
    BY <2>2, <2>3, <2>4, <2>5
  <2> QED BY <2>1, <2>6 DEF Numbered, Existing
<1>5. Cleaned'
  BY DEF Publish, Goto, Inductive, Cleaned, Stored, record, store, file, guard
<1>6. Keyed'
  BY DEF Publish, Goto, Unlock, Inductive, TypeOK, Keyed, Stored, Locking, Active,
     Writing, Ending, record, store, file, guard
<1>7. /\ \A b \in Attempts : Published(b)' <=> b = a \/ Published(b)
      /\ \A b \in Attempts : b # a => pc'[b] = pc[b]
      /\ pc[a] = "publish" /\ pc'[a] = "reply"
      /\ UNCHANGED <<known, detached, wire, landed, key, outlived>>
  <2>1. \A b \in Attempts : Published(b)' <=> b \in Versions'
    BY DEF Versions
  <2>2. \A b \in Attempts : Published(b) <=> b \in Versions
    BY DEF Versions
  <2>3. \A b \in Attempts : Published(b)' <=> b = a \/ Published(b)
    BY <2>1, <2>2, PublishAdds
  <2> QED BY <2>3 DEF Publish, Goto, Inductive, TypeOK, guard, store
<1>8. Settled'
  BY <1>7 DEF Inductive, Settled
<1>9. Exclusive'
  <2>1. \A q \in Requests : q # RequestOf[a] =>
            status'[q] = status[q] /\ (q \in leased' <=> q \in leased)
    BY DEF Publish, Inductive, TypeOK
  <2> QED BY <1>7, <2>1 DEF Inductive, Exclusive, Active, Writing, Ending
<1>10. Kept'
  BY <1>7 DEF Inductive, Kept, LostToItself, LostToAnother, Stored
<1> QED BY <1>1, <1>2, <1>3, <1>4, <1>5, <1>6, <1>8, <1>9, <1>10 DEF Inductive

\* The answer follows the publication.
LEMMA ReplyKeeps ==
    ASSUME Inductive, NEW a \in Attempts, Reply(a)
    PROVE  Inductive'
<1>1. TypeOK'
  BY DEF Reply, Goto, Inductive, TypeOK, Ended, record, store, file, guard
<1>2. Locking'
  BY DEF Reply, Goto, Inductive, Locking, Versions, Published, record, file
<1>3. Recorded'
  BY DEF Reply, Goto, Inductive, Recorded, Versions, Published, record, file
<1>4. Cleaned'
  BY DEF Reply, Goto, Inductive, Cleaned, Stored, store, guard
<1>5. Numbered'
  BY NumbersKept DEF Reply, file, Inductive
<1>6. Keyed'
  BY DEF Reply, Goto, Inductive, TypeOK, Keyed, Stored, Locking, Active, Writing,
     Ending, record, store, file, guard
<1>7. Settled'
  BY DEF Reply, Goto, Inductive, TypeOK, Keyed, Settled, Recorded, Versions,
     Published, Writing, Ending, record, store, file, guard
<1>8. Exclusive'
  BY DEF Reply, Goto, Inductive, TypeOK, Exclusive, Locking, Recorded, Settled,
     Versions, Published, Active, Writing, Ending, record, store, file, guard
<1>9. Kept'
  BY DEF Reply, Goto, Inductive, TypeOK, Keyed, Settled, Kept, LostToItself,
     LostToAnother, Published, Stored, record, store, file, guard
<1> QED BY <1>1, <1>2, <1>3, <1>4, <1>5, <1>6, <1>7, <1>8, <1>9 DEF Inductive

\* A lost COMMIT leaves record and object as they are.
LEMMA LoseCommitKeeps ==
    ASSUME Inductive, NEW a \in Attempts, LoseCommit(a)
    PROVE  Inductive'
<1>1. TypeOK'
  BY DEF LoseCommit, Goto, Unlock, Inductive, TypeOK, Ended, record, store,
        file, guard
<1>2. Locking'
  BY DEF LoseCommit, Goto, Unlock, Inductive, TypeOK, Locking, Versions,
        Published, record
<1>3. Recorded'
  BY DEF LoseCommit, Goto, Inductive, Recorded, Versions, Published, record
<1>4. Cleaned'
  BY DEF LoseCommit, Goto, Inductive, Cleaned, Stored, store, file, guard
<1>5. Numbered'
  BY NumbersKept DEF LoseCommit, file, Inductive
<1>6. Keyed'
  BY DEF LoseCommit, Goto, Unlock, Inductive, TypeOK, Keyed, Stored, Locking, Active,
     Writing, Ending, record, store, file, guard
<1>7. Settled'
  BY DEF LoseCommit, Goto, Unlock, Inductive, TypeOK, Keyed, Settled, Recorded,
     Versions, Published, Writing, Ending, record, store, file, guard
<1>8. Exclusive'
  BY DEF LoseCommit, Goto, Unlock, Inductive, TypeOK, Exclusive, Locking, Recorded,
     Settled, Versions, Published, Active, Writing, Ending, record, store, file, guard
<1>9. Kept'
  BY DEF LoseCommit, Goto, Unlock, Inductive, TypeOK, Keyed, Settled, Kept,
     LostToItself, LostToAnother, Published, Stored, record, store, file, guard
<1> QED BY <1>1, <1>2, <1>3, <1>4, <1>5, <1>6, <1>7, <1>8, <1>9 DEF Inductive

\* The guard of a cancelled attempt starts its cleanup over.
LEMMA CancelKeeps ==
    ASSUME Inductive, NEW a \in Attempts, Cancel(a)
    PROVE  Inductive'
<1>1. TypeOK'
  BY DEF Cancel, Goto, Unlock, Inductive, TypeOK, Ending, record, store, file,
        guard
<1>2. Locking'
  BY DEF Cancel, Goto, Unlock, Inductive, TypeOK, Locking, Versions,
        Published, record, file, guard
<1>3. Recorded'
  BY DEF Cancel, Goto, Inductive, Recorded, Versions, Published, record, file,
        guard
<1>4. Cleaned'
  BY DEF Cancel, Goto, Inductive, TypeOK, Cleaned, Stored, store, file, guard
<1>5. Numbered'
  BY NumbersKept DEF Cancel, file, Inductive
<1>6. Keyed'
  BY DEF Cancel, Goto, Unlock, Inductive, TypeOK, Keyed, Stored, Locking, Active,
     Writing, Ending, record, store, file, guard
<1>7. Settled'
  BY DEF Cancel, Goto, Unlock, Inductive, TypeOK, Keyed, Settled, Recorded, Versions,
     Published, Writing, Ending, record, store, file, guard
<1>8. Exclusive'
  BY DEF Cancel, Goto, Unlock, Inductive, TypeOK, Exclusive, Locking, Recorded,
     Settled, Versions, Published, Active, Writing, Ending, record, store, file, guard
<1>9. Kept'
  BY DEF Cancel, Goto, Unlock, Inductive, TypeOK, Keyed, Settled, Kept, LostToItself,
     LostToAnother, Published, Stored, record, store, file, guard
<1> QED BY <1>1, <1>2, <1>3, <1>4, <1>5, <1>6, <1>7, <1>8, <1>9 DEF Inductive

\* The object found under the attempt's key belongs to its request.
LEMMA DiscoverKeeps ==
    ASSUME Inductive, NEW a \in Attempts, Discover(a)
    PROVE  Inductive'
<1>1. TypeOK'
  BY LatestFound DEF Discover, FinishCleanup, Goto, Inductive, TypeOK, Ending,
        Ended, record, store, file, guard
<1>2. Locking'
  BY DEF Discover, FinishCleanup, Goto, Inductive, TypeOK, Locking, Versions,
        Published, record, file, guard
<1>3. Recorded'
  BY DEF Discover, FinishCleanup, Goto, Inductive, TypeOK, Recorded, Versions,
        Published, record, file, guard
<1>4. Cleaned'
  BY DEF Discover, FinishCleanup, Goto, Inductive, TypeOK, Cleaned, Stored,
        store, guard
<1>5. Numbered'
  BY NumbersKept DEF Discover, file, Inductive
<1>6. Keyed'
  BY LatestFound DEF Discover, Goto, FinishCleanup, Inductive, TypeOK, Keyed, Stored,
     Locking, Active, Writing, Ending, record, store, file, guard
<1>7. Settled'
  BY DEF Discover, Goto, FinishCleanup, Inductive, TypeOK, Keyed, Settled, Recorded,
     Versions, Published, Writing, Ending, record, store, file, guard
<1>8. Exclusive'
  BY DEF Discover, Goto, FinishCleanup, Inductive, TypeOK, Exclusive, Locking,
     Recorded, Settled, Versions, Published, Active, Writing, Ending, record, store,
     file, guard
<1>9. Kept'
  BY DEF Discover, Goto, FinishCleanup, Inductive, TypeOK, Keyed, Settled, Kept,
     LostToItself, LostToAnother, Published, Stored, record, store, file, guard
<1> QED BY <1>1, <1>2, <1>3, <1>4, <1>5, <1>6, <1>7, <1>8, <1>9 DEF Inductive

\* The object deleted is the attempt's own, or that of an attempt whose request has
\* outlived its lease: otherwise the record would still be in progress.
LEMMA DeleteKeeps ==
    ASSUME Inductive, NEW a \in Attempts, Delete(a)
    PROVE  Inductive'
<1>1. TypeOK'
  <2>1. landed' \in [Attempts -> 0..writes]
    <3>1. 0 \in 0..writes /\ landed \in [Attempts -> 0..writes]
      BY DEF Inductive, TypeOK
    <3>2. landed' = [landed EXCEPT ![victim[a]] = 0]
      BY DEF Delete
    <3> QED BY <3>1, <3>2
  <2>2. pc' \in [Attempts -> {"new"} \cup Writing \cup Ending \cup Ended]
    BY DEF Delete, FinishCleanup, Goto, Inductive, TypeOK, Ending, Ended
  <2> QED BY <2>1, <2>2 DEF Delete, Inductive, TypeOK, record, file
<1>2. Locking'
  BY DEF Delete, FinishCleanup, Goto, Inductive, Locking, Versions, Published,
        record, store, file, guard
<1>3. Recorded'
  BY DEF Delete, FinishCleanup, Goto, Inductive, Recorded, Versions,
        Published, record, store, file, guard
<1>4. Cleaned'
  BY DEF Delete, FinishCleanup, Goto, Inductive, TypeOK, Cleaned, Stored,
        guard
<1>5. Numbered'
  BY NumbersKept DEF Delete, file, Inductive
<1>6. Keyed'
  BY DEF Delete, Goto, FinishCleanup, Inductive, TypeOK, Keyed, Stored, Locking,
     Active, Writing, Ending, record, store, file, guard
<1>7. Settled'
  BY DEF Delete, Goto, FinishCleanup, Inductive, TypeOK, Keyed, Settled, Recorded,
     Versions, Published, Writing, Ending, record, store, file, guard
<1>8. Exclusive'
  BY DEF Delete, Goto, FinishCleanup, Inductive, TypeOK, Exclusive, Locking, Recorded,
     Settled, Versions, Published, Active, Writing, Ending, record, store, file, guard
<1>9. /\ \A b \in Attempts : b # a => pc'[b] = pc[b]
      /\ \A b \in Attempts : b # victim[a] => landed'[b] = landed[b]
      /\ pc[a] = "delete" /\ pc'[a] \in {"swept", "release"}
      /\ UNCHANGED <<known, detached, wire, number, key, outlived>>
  BY DEF Delete, FinishCleanup, Goto, Inductive, TypeOK, record, file
<1>10. \A b \in Attempts : LostToItself(b) \/ LostToAnother(b)
                               => (LostToItself(b) \/ LostToAnother(b))'
  BY <1>9 DEF LostToItself, LostToAnother
<1>11. Kept'
  <2>1. \A b \in Attempts : b # victim[a] /\ ((pc'[b] = "put" /\ b \notin wire') \/
            pc'[b] \in {"commit", "publish"} \/ Published(b)') =>
            (Stored(b) \/ LostToItself(b) \/ LostToAnother(b))'
    BY <1>9, <1>10 DEF Inductive, Kept, Stored, Published
  <2>2. ASSUME NEW v \in Attempts, v = victim[a],
               (pc'[v] = "put" /\ v \notin wire') \/
               pc'[v] \in {"commit", "publish"} \/ Published(v)'
        PROVE  (LostToItself(v) \/ LostToAnother(v))'
    <3>1. key[v] = key[a] /\ (a \in known => v = a)
      BY <1>9, <2>2 DEF Inductive, Keyed
    <3>2. CASE v = a
      BY <1>9, <2>2, <3>2 DEF Inductive, Settled, Published, LostToItself
    <3>3. CASE v # a
      <4>1. RequestOf[v] = RequestOf[a]
        BY <1>9, <3>1 DEF Inductive, Keyed, TypeOK, Active, Ending
      <4>2. ~Published(a) /\ (Published(v) => status[RequestOf[a]] = "completed")
        BY <1>9, <3>1, <3>3, <4>1 DEF Inductive, Settled, Recorded, Versions
      <4>3. RequestOf[v] \in outlived
        BY <1>9, <2>2, <3>3, <4>1, <4>2 DEF Inductive, Exclusive, Active, Writing,
           Ending, Published
      <4> QED BY <1>9, <3>1, <3>3, <4>3 DEF LostToAnother
    <3> QED BY <3>2, <3>3
  <2>3. victim[a] \in Attempts
    BY <1>9 DEF Inductive, TypeOK, Keyed
  <2> QED BY <2>1, <2>2, <2>3 DEF Kept
<1> QED BY <1>1, <1>2, <1>3, <1>4, <1>5, <1>6, <1>7, <1>8, <1>11 DEF Inductive

\* A cleanup that fails leaves a leak on record.
LEMMA CleanupFailsKeeps ==
    ASSUME Inductive, NEW a \in Attempts, CleanupFails(a)
    PROVE  Inductive'
<1>1. TypeOK'
  BY DEF CleanupFails, FinishCleanup, Goto, Inductive, TypeOK, Ending, Ended,
        record, store, file, guard
<1>2. Locking'
  BY DEF CleanupFails, FinishCleanup, Goto, Inductive, Locking, Versions,
        Published, record, file, guard
<1>3. Recorded'
  BY DEF CleanupFails, FinishCleanup, Goto, Inductive, Recorded, Versions,
        Published, record, file, guard
<1>4. Cleaned'
  BY DEF CleanupFails, FinishCleanup, Goto, Inductive, TypeOK, Cleaned,
        Stored, store, guard
<1>5. Numbered'
  BY NumbersKept DEF CleanupFails, file, Inductive
<1>6. Keyed'
  BY DEF CleanupFails, Goto, FinishCleanup, Inductive, TypeOK, Keyed, Stored, Locking,
     Active, Writing, Ending, record, store, file, guard
<1>7. Settled'
  BY DEF CleanupFails, Goto, FinishCleanup, Inductive, TypeOK, Keyed, Settled,
     Recorded, Versions, Published, Writing, Ending, record, store, file, guard
<1>8. Exclusive'
  BY DEF CleanupFails, Goto, FinishCleanup, Inductive, TypeOK, Exclusive, Locking,
     Recorded, Settled, Versions, Published, Active, Writing, Ending, record, store,
     file, guard
<1>9. Kept'
  BY DEF CleanupFails, Goto, FinishCleanup, Inductive, TypeOK, Keyed, Settled, Kept,
     LostToItself, LostToAnother, Published, Stored, record, store, file, guard
<1> QED BY <1>1, <1>2, <1>3, <1>4, <1>5, <1>6, <1>7, <1>8, <1>9 DEF Inductive

\* A record that nobody has completed goes.
LEMMA ReleaseKeeps ==
    ASSUME Inductive, NEW a \in Attempts, Release(a)
    PROVE  Inductive'
<1>1. TypeOK'
  BY DEF Release, Goto, Inductive, TypeOK, Ended, record, store, file, guard
<1>2. Locking'
  BY DEF Release, RecordLocked, Goto, Inductive, TypeOK, Locking, Versions,
        Published, record, file
<1>3. Recorded'
  BY DEF Release, Goto, Inductive, TypeOK, Recorded, Versions, Published,
        record, file
<1>4. Cleaned'
  BY DEF Release, Goto, Inductive, Cleaned, Stored, store, guard
<1>5. Numbered'
  BY NumbersKept DEF Release, file, Inductive
<1>6. Keyed'
  BY DEF Release, Goto, RecordLocked, Inductive, TypeOK, Keyed, Stored, Locking,
     Active, Writing, Ending, record, store, file, guard
<1>7. Settled'
  BY DEF Release, Goto, RecordLocked, Inductive, TypeOK, Keyed, Settled, Recorded,
     Versions, Published, Writing, Ending, record, store, file, guard
<1>8. Exclusive'
  BY DEF Release, Goto, RecordLocked, Inductive, TypeOK, Exclusive, Locking, Recorded,
     Settled, Versions, Published, Active, Writing, Ending, record, store, file, guard
<1>9. Kept'
  BY DEF Release, Goto, RecordLocked, Inductive, TypeOK, Keyed, Settled, Kept,
     LostToItself, LostToAnother, Published, Stored, record, store, file, guard
<1> QED BY <1>1, <1>2, <1>3, <1>4, <1>5, <1>6, <1>7, <1>8, <1>9 DEF Inductive

\* A record that could not be released stays in progress.
LEMMA ReleaseFailsKeeps ==
    ASSUME Inductive, NEW a \in Attempts, ReleaseFails(a)
    PROVE  Inductive'
<1>1. TypeOK'
  BY DEF ReleaseFails, Goto, Inductive, TypeOK, Ended, record, store, file,
        guard
<1>2. Locking'
  BY DEF ReleaseFails, Goto, Inductive, Locking, Versions, Published, record,
        file
<1>3. Recorded'
  BY DEF ReleaseFails, Goto, Inductive, Recorded, Versions, Published, record,
        file
<1>4. Cleaned'
  BY DEF ReleaseFails, Goto, Inductive, Cleaned, Stored, store, guard
<1>5. Numbered'
  BY NumbersKept DEF ReleaseFails, file, Inductive
<1>6. Keyed'
  BY DEF ReleaseFails, Goto, Inductive, TypeOK, Keyed, Stored, Locking, Active,
     Writing, Ending, record, store, file, guard
<1>7. Settled'
  BY DEF ReleaseFails, Goto, Inductive, TypeOK, Keyed, Settled, Recorded, Versions,
     Published, Writing, Ending, record, store, file, guard
<1>8. Exclusive'
  BY DEF ReleaseFails, Goto, Inductive, TypeOK, Exclusive, Locking, Recorded, Settled,
     Versions, Published, Active, Writing, Ending, record, store, file, guard
<1>9. Kept'
  BY DEF ReleaseFails, Goto, Inductive, TypeOK, Keyed, Settled, Kept, LostToItself,
     LostToAnother, Published, Stored, record, store, file, guard
<1> QED BY <1>1, <1>2, <1>3, <1>4, <1>5, <1>6, <1>7, <1>8, <1>9 DEF Inductive

\* A crash rolls the attempt's transaction back.
LEMMA CrashKeeps ==
    ASSUME Inductive, NEW a \in Attempts, Crash(a)
    PROVE  Inductive'
<1>1. TypeOK'
  BY DEF Crash, Goto, Unlock, Inductive, TypeOK, Ended, record, store, file,
        guard
<1>2. Locking'
  BY DEF Crash, Goto, Unlock, Inductive, TypeOK, Locking, Versions, Published,
        record
<1>3. Recorded'
  BY DEF Crash, Goto, Inductive, Recorded, Versions, Published, record
<1>4. Cleaned'
  BY DEF Crash, Goto, Inductive, Cleaned, Stored, store, file, guard
<1>5. Numbered'
  BY NumbersKept DEF Crash, file, Inductive
<1>6. Keyed'
  BY DEF Crash, Goto, Unlock, Inductive, TypeOK, Keyed, Stored, Locking, Active,
     Writing, Ending, record, store, file, guard
<1>7. Settled'
  BY DEF Crash, Goto, Unlock, Inductive, TypeOK, Keyed, Settled, Recorded, Versions,
     Published, Writing, Ending, record, store, file, guard
<1>8. Exclusive'
  BY DEF Crash, Goto, Unlock, Inductive, TypeOK, Exclusive, Locking, Recorded,
     Settled, Versions, Published, Active, Writing, Ending, record, store, file, guard
<1>9. Kept'
  BY DEF Crash, Goto, Unlock, Inductive, TypeOK, Keyed, Settled, Kept, LostToItself,
     LostToAnother, Published, Stored, record, store, file, guard
<1> QED BY <1>1, <1>2, <1>3, <1>4, <1>5, <1>6, <1>7, <1>8, <1>9 DEF Inductive

\* A lease that ends while an attempt runs is remembered as outlived.
LEMMA LeaseExpiresKeeps ==
    ASSUME Inductive, NEW r \in Requests, LeaseExpires(r)
    PROVE  Inductive'
<1>1. TypeOK'
  BY DEF LeaseExpires, Inductive, TypeOK, record, store, file, guard
<1>2. /\ Locking'
      /\ Recorded'
      /\ Cleaned'
  BY DEF LeaseExpires, Inductive, Locking, Recorded, Cleaned,
        Versions, Published, Stored, record, store, file, guard
<1>3. Numbered'
  BY NumbersKept DEF LeaseExpires, file, Inductive
<1>4. Keyed'
  BY DEF LeaseExpires, Busy, Inductive, TypeOK, Keyed, Stored, Locking, Active,
     Writing, Ending, record, store, file, guard
<1>5. Settled'
  BY DEF LeaseExpires, Busy, Inductive, TypeOK, Keyed, Settled, Recorded, Versions,
     Published, Writing, Ending, record, store, file, guard
<1>6. Exclusive'
  BY DEF LeaseExpires, Busy, Inductive, TypeOK, Exclusive, Locking, Recorded, Settled,
     Versions, Published, Active, Writing, Ending, record, store, file, guard
<1>7. Kept'
  BY DEF LeaseExpires, Busy, Inductive, TypeOK, Keyed, Settled, Kept, LostToItself,
     LostToAnother, Published, Stored, record, store, file, guard
<1> QED BY <1>1, <1>2, <1>3, <1>4, <1>5, <1>6, <1>7 DEF Inductive

\* Maintenance takes a record no attempt is running for.
LEMMA ExpireRecordKeeps ==
    ASSUME Inductive, NEW r \in Requests, ExpireRecord(r)
    PROVE  Inductive'
<1>1. TypeOK'
  BY DEF ExpireRecord, LeaseOver, Inductive, TypeOK, record, store, file,
        guard
<1>2. Locking'
  BY DEF ExpireRecord, Busy, Inductive, TypeOK, Locking, Writing, Versions,
        Published, file
<1>3. Recorded'
  BY DEF ExpireRecord, LeaseOver, Inductive, Recorded, Versions, Published,
        file
<1>4. /\ Cleaned'
  BY DEF ExpireRecord, Inductive, Cleaned, Published, Stored, record,
        store, file, guard
<1>5. Numbered'
  BY NumbersKept DEF ExpireRecord, file, Inductive
<1>6. Keyed'
  BY DEF ExpireRecord, LeaseOver, Busy, Inductive, TypeOK, Keyed, Stored, Locking,
     Active, Writing, Ending, record, store, file, guard
<1>7. Settled'
  BY DEF ExpireRecord, LeaseOver, Busy, Inductive, TypeOK, Keyed, Settled, Recorded,
     Versions, Published, Writing, Ending, record, store, file, guard
<1>8. Exclusive'
  BY DEF ExpireRecord, LeaseOver, Busy, Inductive, TypeOK, Exclusive, Locking,
     Recorded, Settled, Versions, Published, Active, Writing, Ending, record, store,
     file, guard
<1>9. Kept'
  BY DEF ExpireRecord, LeaseOver, Busy, Inductive, TypeOK, Keyed, Settled, Kept,
     LostToItself, LostToAnother, Published, Stored, record, store, file, guard
<1> QED BY <1>1, <1>2, <1>3, <1>4, <1>5, <1>6, <1>7, <1>8, <1>9 DEF Inductive

\* Every step of the attempts and of the clocks keeps the invariant.
LEMMA StepInductive == Inductive /\ [Next]_vars => Inductive'
<1> SUFFICES ASSUME Inductive, [Next]_vars PROVE Inductive'
  OBVIOUS
<1>1. ASSUME NEW a \in Attempts, Step(a) PROVE Inductive'
  BY <1>1, ReserveKeeps, TakeOverKeeps, ReplayKeeps, RefuseBusyKeeps, LandKeeps,
     PutSucceedsKeeps, PutFailsKeeps, RenewKeeps, BeginCommitKeeps, CommitFailsKeeps,
     PublishKeeps, ReplyKeeps, LoseCommitKeeps, CancelKeeps, DiscoverKeeps,
     DeleteKeeps, CleanupFailsKeeps, ReleaseKeeps, ReleaseFailsKeeps, CrashKeeps
     DEF Step
<1>2. ASSUME NEW r \in Requests, LeaseExpires(r) \/ ExpireRecord(r) PROVE Inductive'
  BY <1>2, LeaseExpiresKeeps, ExpireRecordKeeps
<1>3. CASE UNCHANGED vars
  BY <1>3 DEF Inductive, vars, record, store, file, guard, TypeOK, Locking, Recorded,
     Numbered, Cleaned, Keyed, Settled, Exclusive, Kept, LostToItself, LostToAnother, Versions,
     Published, Stored
<1> QED BY <1>1, <1>2, <1>3 DEF Next

\* Every reachable state satisfies the invariant.
THEOREM InductiveHolds == Spec => []Inductive
<1>1. Inductive /\ [Next]_vars => Inductive'
  BY StepInductive
<1> QED BY InitInductive, <1>1, PTL DEF Spec

\* The rows, the attempts and the store keep their types.
THEOREM TypeCorrect == Spec => []TypeOK
<1>1. Inductive => TypeOK
  BY DEF Inductive
<1> QED BY <1>1, InductiveHolds, PTL

\* Uploads and restores of one file number its versions consecutively, and none of
\* them fails because another has taken the number it computed.
THEOREM NumbersConsecutive == Spec => []VersionsNumbered
<1>1. Inductive => VersionsNumbered
  <2> SUFFICES ASSUME Inductive, NEW a \in Attempts, pc[a] = "publish"
               PROVE  draft[a] \notin {number[b] : b \in Versions}
    BY DEF Inductive, Numbered, VersionsNumbered
  <2>1. draft[a] = Existing + Cardinality(Versions) + 1
    BY DEF Inductive, Locking
  <2>2. {number[b] : b \in Versions} = (Existing + 1)..(Existing + Cardinality(Versions))
    BY DEF Inductive, Numbered
  <2>3. Cardinality(Versions) \in Nat
    BY FS_CardinalityType DEF Inductive, Numbered
  <2>4. draft[a] \notin (Existing + 1)..(Existing + Cardinality(Versions))
    BY <2>1, <2>3 DEF Existing
  <2> QED BY <2>2, <2>4
<1> QED BY <1>1, InductiveHolds, PTL

\* An attempt that failed or was swept after its write had succeeded leaves no
\* object behind, unless the provider refused the cleanup.
THEOREM FailuresClean == Spec => []FailureLeavesNoObject
<1>1. Inductive => FailureLeavesNoObject
  BY DEF Inductive, TypeOK, Cleaned, FailureLeavesNoObject
<1> QED BY <1>1, InductiveHolds, PTL

\* Whatever its attempts go through, the object of a version is lost only if its
\* own attempt was cancelled in COMMIT, or if the request outlived its lease and was
\* retried: no other failure, retry or cleanup takes it away.
THEOREM ContentStored == Spec => []ContentLostTwoWays
<1>1. Inductive => ContentLostTwoWays
  BY DEF Inductive, Kept, ContentLostTwoWays, Versions
<1> QED BY <1>1, InductiveHolds, PTL

\* Whatever its attempts go through, a request takes effect at most once
\* and for good, and success is only reported after it has.
THEOREM OnceImplemented == Spec => OnceSpec
<1> DEFINE answers == {RequestOf[a] : a \in {b \in Attempts : pc[b] = "answered"}}
<1>1. Init => Once!Init
  BY DEF Init, Once!Init, Versions, Published
<1>2. Inductive /\ [Next]_vars => [Once!Next]_<<Versions, answers>>
  <2> SUFFICES ASSUME Inductive, [Next]_vars PROVE [Once!Next]_<<Versions, answers>>
    OBVIOUS
  <2>1. ASSUME NEW a \in Attempts, Publish(a) PROVE Once!Publish(a)
    <3>1. \A b \in Versions : RequestOf[b] # RequestOf[a]
      BY <2>1, PublishAdds DEF Inductive, Recorded
    <3>2. Versions' = Versions \cup {a}
      BY <2>1, PublishAdds
    <3>3. \A b \in Attempts : pc'[b] = "answered" <=> pc[b] = "answered"
      BY <2>1 DEF Publish, Goto, Inductive, TypeOK
    <3>4. answers' = answers
      BY <3>3
    <3> QED BY <3>1, <3>2, <3>4 DEF Once!Publish
  <2>2. ASSUME NEW a \in Attempts, Reply(a) \/ Replay(a) PROVE Once!Answer(RequestOf[a])
    <3>1. status[RequestOf[a]] = "completed"
      BY <2>2 DEF Reply, Replay, Inductive, Recorded
    <3>2. \E b \in Versions : RequestOf[b] = RequestOf[a]
      BY <3>1 DEF Inductive, Recorded
    <3>3. pc' = [pc EXCEPT ![a] = "answered"] /\ number' = number
      BY <2>2 DEF Reply, Replay, Goto, file
    <3>4. \A b \in Attempts : pc'[b] = "answered" <=> b = a \/ pc[b] = "answered"
      BY <3>3 DEF Inductive, TypeOK
    <3>5. answers' = answers \cup {RequestOf[a]}
      BY <3>4
    <3>6. Versions' = Versions
      BY <3>3 DEF Versions, Published
    <3> QED BY <3>2, <3>5, <3>6 DEF Once!Answer
  <2>3. ASSUME NEW a \in Attempts, Step(a), ~Publish(a), ~Reply(a), ~Replay(a)
        PROVE  UNCHANGED <<Versions, answers>>
    <3>1. number' = number
      BY <2>3 DEF Step, Reserve, TakeOver, StartWrite, RefuseBusy, Land, PutSucceeds,
         PutFails,
         Renew, BeginCommit, CommitFails, LoseCommit, Cancel, Discover, Delete,
         CleanupFails, Release, ReleaseFails, Crash, file
    <3>2. \A b \in Attempts : pc'[b] = "answered" <=> pc[b] = "answered"
      BY <2>3 DEF Step, Reserve, TakeOver, StartWrite, CanPrepare, RefuseBusy, Land,
         PutSucceeds, PutFails, Renew, BeginCommit, CommitFails, LoseCommit, Cancel,
         Discover, Delete, CleanupFails, FinishCleanup, Release, ReleaseFails, Crash,
         Goto, Writing, Ending, Inductive, TypeOK
    <3> QED BY <3>1, <3>2 DEF Versions, Published
  <2>4. ASSUME NEW r \in Requests, LeaseExpires(r) \/ ExpireRecord(r)
        PROVE  UNCHANGED <<Versions, answers>>
    BY <2>4 DEF LeaseExpires, ExpireRecord, file, Versions, Published
  <2>5. CASE UNCHANGED vars
    BY <2>5 DEF vars, file, Versions, Published
  <2> QED
    <3>1. RequestOf \in [Attempts -> Requests]
      OBVIOUS
    <3> HIDE DEF answers
    <3> QED BY <2>1, <2>2, <2>3, <2>4, <2>5, <3>1 DEF Next, Once!Next
<1> QED BY <1>1, <1>2, InductiveHolds, PTL DEF Spec, OnceSpec, Once!Spec
=============================================================================
