------------------------------ MODULE UploadPlan ------------------------------
(***************************************************************************)
(* How a file is cut into parts: domain/multipart.rs decides from the       *)
(* declared size whether an upload travels in one request or in parts, how  *)
(* large the parts are and how many.  An upload reads part n at             *)
(* (n - 1) * part_size, a copy inside the store reads it where the part     *)
(* before it ended, and the completion accepts exactly the planned set.     *)
(* The limits are parameters; the ones of the code are 8 MiB and 5 GiB for  *)
(* a part, 10 000 parts, 5 TiB for a file and 100 MiB for a single request. *)
(***************************************************************************)
EXTENDS Integers

CONSTANTS MIB,                         \* parts are whole multiples of it
          MULTIPART_TARGET_PART_COUNT, \* parts wanted before the limits apply
          MULTIPART_MIN_PART_BYTES,
          MULTIPART_MAX_PART_BYTES,
          MULTIPART_MAX_PART_COUNT,
          SINGLE_UPLOAD_MAX_BYTES,
          MAX_UPLOAD_BYTES,
          Declared                     \* bound: declared sizes are at most this

Positive == Nat \ {0}

\* What the constants of the code satisfy: a file of the largest size fits in
\* the parts the store allows, both at the size the target count asks for and
\* at the largest size of a part, and the smallest part is a whole multiple.
ASSUME LimitsAssumption ==
    /\ MIB \in Positive /\ MULTIPART_TARGET_PART_COUNT \in Positive
    /\ MULTIPART_MIN_PART_BYTES \in Positive /\ MULTIPART_MAX_PART_BYTES \in Nat
    /\ MULTIPART_MAX_PART_COUNT \in Nat /\ SINGLE_UPLOAD_MAX_BYTES \in Nat
    /\ MAX_UPLOAD_BYTES \in Nat /\ Declared \in Nat
    /\ MULTIPART_MIN_PART_BYTES <= MULTIPART_MAX_PART_BYTES
    /\ MULTIPART_TARGET_PART_COUNT <= MULTIPART_MAX_PART_COUNT
    /\ MAX_UPLOAD_BYTES <= MULTIPART_MAX_PART_BYTES * MULTIPART_MAX_PART_COUNT

VARIABLES size,   \* declared size of the file
          route,  \* "asked", "single", "refused", "parts", "complete"
          sent,   \* parts stored so far
          stored  \* bytes of the file that are in a part

planVars == <<size, route, sent, stored>>

-----------------------------------------------------------------------------
CeilDiv(dividend, divisor) ==
    dividend \div divisor + (IF dividend % divisor = 0 THEN 0 ELSE 1)

Clamp(n) == IF n < MULTIPART_MIN_PART_BYTES THEN MULTIPART_MIN_PART_BYTES
            ELSE IF n > MULTIPART_MAX_PART_BYTES THEN MULTIPART_MAX_PART_BYTES
            ELSE n
Rounded(n) == CeilDiv(CeilDiv(n, MULTIPART_TARGET_PART_COUNT), MIB) * MIB
PartSizeUnclamped(n) == IF Rounded(n) < MULTIPART_MIN_PART_BYTES
                        THEN MULTIPART_MIN_PART_BYTES ELSE Rounded(n)
PartSize(n) == Clamp(Rounded(n))
PartCount(n) == CeilDiv(n, PartSize(n))

\* expected_part_size: the last part takes what is left.
ExpectedPartSize(n, part) ==
    IF part < PartCount(n) THEN PartSize(n) ELSE n - (PartCount(n) - 1) * PartSize(n)

Planned(n) == /\ n > SINGLE_UPLOAD_MAX_BYTES
              /\ n <= MAX_UPLOAD_BYTES
              /\ PartCount(n) <= MULTIPART_MAX_PART_COUNT

-----------------------------------------------------------------------------
PlanInit ==
    /\ size \in 0 .. Declared
    /\ route = "asked"
    /\ sent = 0
    /\ stored = 0

\* UploadStrategy::for_file_size
Choose ==
    /\ route = "asked"
    /\ route' = IF size <= SINGLE_UPLOAD_MAX_BYTES THEN "single"
                ELSE IF Planned(size) THEN "parts" ELSE "refused"
    /\ UNCHANGED <<size, sent, stored>>

\* One part of the loop of upload_multipart and of copy_multipart_parts.
SendPart ==
    /\ route = "parts"
    /\ sent < PartCount(size)
    /\ sent' = sent + 1
    /\ stored' = stored + ExpectedPartSize(size, sent + 1)
    /\ UNCHANGED <<size, route>>

\* validate_completion
Complete ==
    /\ route = "parts"
    /\ sent = PartCount(size)
    /\ stored = size
    /\ route' = "complete"
    /\ UNCHANGED <<size, sent, stored>>

PlanNext == Choose \/ SendPart \/ Complete
PlanSpec == PlanInit /\ [][PlanNext]_planVars

-----------------------------------------------------------------------------
\* A file is refused for its size alone: every file up to the limit has a plan
\* that the store accepts, the sizes at which the part size is clamped or the
\* last part is a single byte included.
OnlyTooLargeRefused == route = "refused" => size > MAX_UPLOAD_BYTES

\* The two ways to find a part agree, no part is empty or beyond the limits,
\* and only the last one is smaller than the store's minimum.
PartsTile ==
    route = "parts" /\ sent < PartCount(size) =>
        LET next == ExpectedPartSize(size, sent + 1)
        IN  /\ stored = sent * PartSize(size)
            /\ next \in 1 .. MULTIPART_MAX_PART_BYTES
            /\ sent + 1 < PartCount(size) => next >= MULTIPART_MIN_PART_BYTES
            /\ stored + next <= size

\* When all parts are sent they are the whole file: completion never fails on
\* the byte total of a set that matches the plan.
SentIsWhole == route = "parts" /\ sent = PartCount(size) => stored = size

\* Every file up to the limit has a plan the store accepts, and its parts are
\* the file.
PlansHold == OnlyTooLargeRefused /\ PartsTile /\ SentIsWhole
=============================================================================
