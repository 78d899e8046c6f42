-------------------------------- MODULE Quota ---------------------------------
(***************************************************************************)
(* The usage row of an organization: bytes uploaded today and bytes stored, *)
(* and the two limits every upload answers to.  A charge locks the row, so  *)
(* a charge and the reading of the bytes that pending reservations hold     *)
(* are one step; the caller says how many bytes are pending.                *)
(***************************************************************************)
EXTENDS Integers

CONSTANTS DailyLimit, StorageLimit

ASSUME LimitsAssumption == DailyLimit \in Nat /\ StorageLimit \in Nat

VARIABLES
    daily,  \* organization_usage.daily_upload_bytes of the current window
    stored  \* organization_usage.stored_bytes

usage == <<daily, stored>>

QuotaInit == daily = 0 /\ stored = 0

AdmitsStorage(bytes) == stored + bytes <= StorageLimit
AdmitsUpload(bytes) == daily + bytes <= DailyLimit /\ AdmitsStorage(bytes)

ChargeIgnoringPending(bytes, pending) ==
    /\ AdmitsUpload(bytes)
    /\ daily' = daily + bytes
    /\ stored' = stored + bytes

\* A publication charges the day, and the version row it inserts moves the
\* stored bytes.  The counter that is compared with the daily limit already
\* includes the upload.
ChargeUpload(bytes, pending) ==
    /\ daily + bytes + pending <= DailyLimit
    /\ AdmitsStorage(bytes + pending)
    /\ daily' = daily + bytes
    /\ stored' = stored + bytes

\* A restore copies bytes: it answers to the storage limit alone.
ChargeStorage(bytes, pending) ==
    /\ AdmitsStorage(bytes + pending)
    /\ stored' = stored + bytes
    /\ UNCHANGED daily

ReserveCapacity(bytes, pending) ==
    /\ AdmitsUpload(bytes + pending)
    /\ UNCHANGED usage

\* The trigger of a version row that is deleted.
ReleaseStorage(bytes) ==
    /\ stored' = stored - bytes
    /\ UNCHANGED daily

\* The first charge of a UTC day overwrites the window.
NewDay == daily' = 0 /\ UNCHANGED stored
===============================================================================
