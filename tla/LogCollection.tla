--------------------------- MODULE LogCollection ---------------------------
(***************************************************************************)
(* A collect_vm_logs job: the worker reads the log libvirt keeps of a      *)
(* virtual machine, cuts it to a number of lines and to a number of bytes  *)
(* (JobExecutor._execute_collect_vm_logs), and has it stored as the one    *)
(* row of the machine in vm_log_snapshots.  The log grows meanwhile.       *)
(*                                                                         *)
(* Of a log only the lengths of its lines matter.  It is the sequence of   *)
(* the offsets at which its lines end, so that the size of any part of it  *)
(* is a difference; offset 0 is the end of line 0.                         *)
(***************************************************************************)
EXTENDS Integers, Sequences

CONSTANTS
    MaxBytes,      \* max_size_bytes, MAX_LOG_SIZE: 1 MB
    LineSizes,     \* the sizes of lines
    Counts,        \* the values of the payload's `lines`
    MaxAttempts,   \* max_attempts of the job
    Missing,       \* no log file
    NoRow,         \* no row
    MaxLines,      \* bound: lines of a log
    MaxJobs,       \* bound: jobs
    MaxFaults      \* bound: calls and reads that fail

ASSUME LogCollectionAssumption ==
    /\ MaxBytes \in Nat
    /\ LineSizes \subseteq Nat \ {0}
    /\ Counts \subseteq Int
    /\ MaxAttempts \in Nat \ {0}
    /\ Missing \notin Seq(Nat)
    /\ NoRow \notin [lines : Seq(Nat), cut : Nat, line_count : Nat]
    /\ MaxLines \in Nat /\ MaxJobs \in Nat /\ MaxFaults \in Nat

VARIABLES
    log,       \* the file
    pc,        \* the job: its status, or where its execution is
    lines,     \* its payload
    attempts,  \* as in the jobs table
    all_lines, \* what it has read
    cut,       \* lines before this one are left out of what it offers
    size,      \* current_size of the truncation
    row,       \* the machine's row
    late,      \* requests to store whose caller has given up
    started, faults

jobVars == <<pc, lines, attempts, all_lines, cut, size>>
vars == <<log, jobVars, row, late, started, faults>>

-----------------------------------------------------------------------------
End(l, i) == IF i = 0 THEN 0 ELSE l[i]

LineSize(l, i) == End(l, i) - End(l, i - 1)

(* The bytes of l after its first i lines. *)
Bytes(l, i) == End(l, Len(l)) - End(l, i)

(* all_lines[-lines:] if there are more.  The slice from -0 is all of it,  *)
(* and a negative number leaves out so many lines at the beginning.        *)
FirstWanted(l, n) ==
    IF n < 0
    THEN IF -n < Len(l) THEN -n ELSE Len(l)
    ELSE IF Len(l) > n /\ n # 0 THEN Len(l) - n ELSE 0

(* What is stored: the lines after the first c, and their number. *)
Content(l, c) == [lines |-> l, cut |-> c, line_count |-> Len(l) - c]

Contents == [lines : Seq(Nat), cut : Nat, line_count : Nat]

Size(c) == Bytes(c.lines, c.cut)

Init ==
    /\ log = Missing
    /\ pc = "none"
    /\ lines = 0
    /\ attempts = 0
    /\ all_lines = <<>> /\ cut = 0 /\ size = 0
    /\ row = NoRow
    /\ late = {}
    /\ started = 0
    /\ faults = 0

-----------------------------------------------------------------------------
(* libvirt and logrotate. *)

Write(n) ==
    /\ \/ log = Missing /\ log' = <<n>>
       \/ log # Missing /\ Len(log) < MaxLines /\ log' = Append(log, End(log, Len(log)) + n)
    /\ UNCHANGED <<jobVars, row, late, started, faults>>

Rotate ==
    /\ log # Missing
    /\ log' \in {Missing, <<>>}
    /\ UNCHANGED <<jobVars, row, late, started, faults>>

-----------------------------------------------------------------------------
(* The job table. *)

Over == pc \in {"none", "succeeded", "failed"}

Enqueue(n) ==
    /\ Over
    /\ started < MaxJobs
    /\ started' = started + 1
    /\ pc' = "queued"
    /\ lines' = n
    /\ attempts' = 0
    /\ UNCHANGED <<log, all_lines, cut, size, row, late, faults>>

(* Mutation: the attempt is not counted. *)
StartMutant ==
    /\ pc = "queued"
    /\ pc' = "read"
    /\ UNCHANGED <<log, lines, attempts, all_lines, cut, size, row, late, started, faults>>

Start ==
    /\ pc = "queued"
    /\ pc' = "read"
    /\ attempts' = attempts + 1
    /\ UNCHANGED <<log, lines, all_lines, cut, size, row, late, started, faults>>

(* Mutation: one attempt more. *)
FailMutant == pc' = IF attempts <= MaxAttempts THEN "queued" ELSE "failed"

(* Every error but a missing name is retriable. *)
Fail == pc' = IF attempts < MaxAttempts THEN "queued" ELSE "failed"

-----------------------------------------------------------------------------
(* _execute_collect_vm_logs *)

(* Mutation: the truncation starts from the size of the whole content. *)
ReadMutant ==
    /\ pc = "read"
    /\ log # Missing
    /\ all_lines' = log
    /\ LET first == FirstWanted(log, lines)
       IN  \/ /\ Bytes(log, first) <= MaxBytes
              /\ cut' = first
              /\ pc' = "store"
              /\ UNCHANGED size
           \/ /\ Bytes(log, first) > MaxBytes
              /\ cut' = Len(log)
              /\ size' = Bytes(log, first)
              /\ pc' = "truncate"
    /\ UNCHANGED <<log, lines, attempts, row, late, started, faults>>

(* A log that is too large is gone through again from its end. *)
Read ==
    /\ pc = "read"
    /\ log # Missing
    /\ all_lines' = log
    /\ LET first == FirstWanted(log, lines)
       IN  \/ /\ Bytes(log, first) <= MaxBytes
              /\ cut' = first
              /\ pc' = "store"
              /\ UNCHANGED size
           \/ /\ Bytes(log, first) > MaxBytes
              /\ cut' = Len(log)
              /\ size' = 0
              /\ pc' = "truncate"
    /\ UNCHANGED <<log, lines, attempts, row, late, started, faults>>

(* Nothing is stored; a row from before the log went stays. *)
ReadMissing ==
    /\ pc = "read"
    /\ log = Missing
    /\ pc' = "succeeded"
    /\ UNCHANGED <<log, lines, attempts, all_lines, cut, size, row, late, started, faults>>

ReadFails ==
    /\ pc = "read"
    /\ log # Missing
    /\ faults < MaxFaults
    /\ faults' = faults + 1
    /\ Fail
    /\ UNCHANGED <<log, lines, attempts, all_lines, cut, size, row, late, started>>

(* Mutation: a line that just fits is left out. *)
NextFitsMutant ==
    cut > FirstWanted(all_lines, lines) /\ size + LineSize(all_lines, cut) < MaxBytes

NextFits ==
    cut > FirstWanted(all_lines, lines) /\ size + LineSize(all_lines, cut) <= MaxBytes

Truncate ==
    /\ pc = "truncate"
    /\ \/ /\ NextFits
          /\ size' = size + LineSize(all_lines, cut)
          /\ cut' = cut - 1
          /\ UNCHANGED pc
       \/ /\ ~NextFits
          /\ pc' = "store"
          /\ UNCHANGED <<size, cut>>
    /\ UNCHANGED <<log, lines, attempts, all_lines, row, late, started, faults>>

-----------------------------------------------------------------------------
(* POST /vm-logs/:vmName and storeVmLogSnapshot *)

Accepted(c) == c.cut < Len(c.lines) /\ Size(c) <= MaxBytes

(* Mutation: the number of lines asked for is stored as their number. *)
OfferMutant == [Content(all_lines, cut) EXCEPT !.line_count = lines]

Offer == Content(all_lines, cut)

Store ==
    /\ pc = "store"
    /\ Accepted(Offer)
    /\ row' = Offer
    /\ pc' = "succeeded"
    /\ UNCHANGED <<log, lines, attempts, all_lines, cut, size, late, started, faults>>

(* Empty content is a bad request, too much of it an error. *)
StoreRefused ==
    /\ pc = "store"
    /\ ~Accepted(Offer)
    /\ Fail
    /\ UNCHANGED <<log, lines, attempts, all_lines, cut, size, row, late, started, faults>>

(* The call fails under the worker; the request is lost or late. *)
StoreFails ==
    /\ pc = "store"
    /\ faults < MaxFaults
    /\ faults' = faults + 1
    /\ Fail
    /\ late' \in {late, late \cup {Offer}}
    /\ UNCHANGED <<log, lines, attempts, all_lines, cut, size, row, started>>

Land(c) ==
    /\ c \in late
    /\ late' = late \ {c}
    /\ \/ Accepted(c) /\ row' = c
       \/ ~Accepted(c) /\ UNCHANGED row
    /\ UNCHANGED <<log, jobVars, started, faults>>

(* DELETE /vm-logs/:vmName *)
DeleteRow ==
    /\ row # NoRow
    /\ row' = NoRow
    /\ UNCHANGED <<log, jobVars, late, started, faults>>

-----------------------------------------------------------------------------
Collect == Start \/ Read \/ ReadMissing \/ Truncate \/ Store \/ StoreRefused

Next ==
    \/ \E n \in LineSizes : Write(n)
    \/ Rotate
    \/ \E n \in Counts : Enqueue(n)
    \/ Collect
    \/ ReadFails \/ StoreFails
    \/ \E c \in late : Land(c)
    \/ DeleteRow

Spec == Init /\ [][Next]_vars

(* The worker claims and executes the job, and its calls are answered. *)
FairSpec == Spec /\ WF_vars(Collect)

-----------------------------------------------------------------------------
(* A log: the ends of its lines, which are not empty. *)
IsLog(l) ==
    /\ l \in Seq(Nat)
    /\ \A i, j \in 0..Len(l) : i < j => End(l, i) < End(l, j)

PC == {"none", "queued", "read", "truncate", "store", "succeeded", "failed"}

TypeOK ==
    /\ log = Missing \/ IsLog(log)
    /\ pc \in PC
    /\ lines \in Int
    /\ attempts \in 0..MaxAttempts
    /\ pc = "queued" => attempts < MaxAttempts
    /\ IsLog(all_lines)
    /\ cut \in Nat
    /\ size \in Nat
    /\ row \in Contents \cup {NoRow}
    /\ late \subseteq Contents
    /\ started \in Nat
    /\ faults \in Nat

(* What the truncation has kept so far fits, and its size is right. *)
TruncationInv ==
    pc = "truncate" =>
        /\ cut \in FirstWanted(all_lines, lines)..Len(all_lines)
        /\ size = Bytes(all_lines, cut)
        /\ size <= MaxBytes
        /\ Bytes(all_lines, FirstWanted(all_lines, lines)) > MaxBytes

(* What the worker offers is the longest end of the lines asked for that   *)
(* fits ("Truncate to fit within 1MB, removing lines from the beginning"): *)
(* the service never has to refuse it for its size, and no line is left    *)
(* out that would fit.                                                     *)
LongestEnd ==
    pc = "store" =>
        LET first == FirstWanted(all_lines, lines)
        IN  /\ cut \in first..Len(all_lines)
            /\ Bytes(all_lines, cut) <= MaxBytes
            /\ \A c \in first..(cut - 1) : Bytes(all_lines, c) > MaxBytes

(* The row is within the limit, has content, and counts its lines right    *)
(* ("Number of lines in this snapshot"), late requests included.           *)
RowSound ==
    row # NoRow =>
        /\ Size(row) \in 1..MaxBytes
        /\ row.line_count = Len(row.lines) - row.cut

(* What RowSound rests on: a request on its way counts its lines right. *)
LateSound ==
    \A c \in late : IsLog(c.lines) /\ c.line_count = Len(c.lines) - c.cut

(* A collection is refused only when no line is wanted, of a log without   *)
(* lines or because a negative number leaves out all of them, or when the  *)
(* last line alone is over the limit; as long as the log is like that the  *)
(* job fails in every attempt.                                             *)
RefusedOnlyForNothing ==
    [][StoreRefused =>
          \/ all_lines = <<>>
          \/ lines < 0 /\ -lines >= Len(all_lines)
          \/ LineSize(all_lines, Len(all_lines)) > MaxBytes]_vars

(* Every collection ends, whatever the log does meanwhile: a refused one   *)
(* fails for good after max_attempts.                                      *)
CollectionEnds == pc = "queued" ~> pc \in {"succeeded", "failed"}
=============================================================================
