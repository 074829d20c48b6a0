---------------------------- MODULE StorageGuard ----------------------------
(***************************************************************************)
(* The disk budget of the inbox: projectedAcceptanceGrowth and             *)
(* fileStorageGuard of internal/inbox/store.go.  Accept and replay project *)
(* how far a transaction can grow the database file and compare that with  *)
(* the ceiling of the file and the reserve of its file system, in signed   *)
(* integers of limited width.  The inbox is opened by the gateway with     *)
(* both limits, or by the replay command with neither.                     *)
(*                                                                         *)
(* The file never shrinks.  Every other transaction may grow it unchecked, *)
(* and other programs use the same file system.                            *)
(***************************************************************************)
EXTENDS Integers, FiniteSetsExt

CONSTANTS
    MaxInt,       \* the largest int64
    PageSizes,    \* what os.Getpagesize may return
    AllocSizes,   \* db.AllocSize
    Records,      \* bytes of an encoded batch, its receipt, keys and elements
    Ceilings,     \* Options.MaxDBBytes of the gateway
    Reserves,     \* Options.MinFreeBytes of the gateway
    Sizes,        \* sizes of the file when the inbox is opened
    Frees         \* free bytes that the other programs may leave

\* A page is far from the width of an integer, and no record or file is empty.
ASSUME GuardAssumption ==
    /\ MaxInt \in Nat /\ PageSizes \subseteq 1..(MaxInt \div 2)
    /\ AllocSizes \subseteq 0..MaxInt /\ Records \subseteq 1..MaxInt
    /\ Sizes \subseteq 1..MaxInt /\ Frees \subseteq 0..MaxInt
    /\ Ceilings \subseteq 1..MaxInt /\ Reserves \subseteq 1..MaxInt

VARIABLES
    limits,    \* what the inbox was opened with
    size,      \* bytes of the database file
    free,      \* free bytes of its file system
    checked    \* the last check: its answer and what it was about

guardVars == <<limits, size, free, checked>>

Unchecked == [answer |-> "none", record |-> 0, size |-> 0, free |-> 0]

Pages(bytes, pageSize) == (bytes + pageSize - 1) \div pageSize

\* What bbolt may add to the file for a record: its pages, copied on write,
\* and one allocation chunk.
Room(record, pageSize, allocSize) ==
    (2 * Pages(record, pageSize) + Pages(allocSize, pageSize)) * pageSize

\* Mutant: the room that COW and AllocSize need is added without a limit.
GrowthWrapping(record, pageSize, allocSize) ==
    ((Room(record, pageSize, allocSize) + MaxInt + 1) % (2 * MaxInt + 2)) - MaxInt - 1

\* projectedAcceptanceGrowth.  No step of it exceeds MaxInt.
Growth(record, pageSize, allocSize) ==
    LET dataPages == Pages(record, pageSize)
        allocPages == Pages(allocSize, pageSize)
        maxPages == MaxInt \div pageSize
    IN  IF \/ record > MaxInt - pageSize + 1
           \/ allocSize > MaxInt - pageSize + 1
           \/ allocPages > maxPages
           \/ dataPages > (maxPages - allocPages) \div 2
        THEN MaxInt
        ELSE (2 * dataPages + allocPages) * pageSize

\* Mutant: the growth is left out of the comparison with the ceiling.
CheckSizeOnly(growth, lim, bytes, available) ==
    /\ growth >= 0
    /\ lim.maxDB > 0 => bytes <= lim.maxDB
    /\ lim.minFree > 0 => /\ available >= lim.minFree
                          /\ growth <= available - lim.minFree

\* fileStorageGuard.Check, with what Stat and Statfs return.  A limit of zero
\* is no limit.
Check(growth, lim, bytes, available) ==
    /\ growth >= 0
    /\ lim.maxDB > 0 => bytes <= lim.maxDB - growth
    /\ lim.minFree > 0 => /\ available >= lim.minFree
                          /\ growth <= available - lim.minFree

GuardStart ==
    /\ \E p \in PageSizes, a \in AllocSizes, m \in Ceilings, f \in Reserves :
           limits = [pageSize |-> p, allocSize |-> a, maxDB |-> m, minFree |-> f]
    /\ size \in Sizes
    /\ free \in Frees
    /\ checked = Unchecked

\* The transaction of Accept or replay reaches its check.  "stat_failed": the
\* file or its file system cannot be inspected.
CheckRecord(record) ==
    /\ checked.answer # "pass"
    /\ LET growth == Growth(record, limits.pageSize, limits.allocSize)
           Answer(a) == checked' = [answer |-> a, record |-> record, size |-> size, free |-> free]
       IN  \/ Answer(IF Check(growth, limits, size, free) THEN "pass" ELSE "refuse")
           \/ /\ limits.maxDB > 0 \/ limits.minFree > 0
              /\ Answer("stat_failed")
    /\ UNCHANGED <<limits, size, free>>

\* The transaction commits; the file grows by what it needs, within free.
CommitRecord ==
    /\ checked.answer = "pass"
    /\ \E growth \in {0, limits.pageSize,
                       Room(checked.record, limits.pageSize, limits.allocSize)} :
           /\ growth <= free /\ size + growth <= MaxInt
           /\ size' = size + growth
           /\ free' = free - growth
    /\ checked' = [checked EXCEPT !.answer = "committed"]
    /\ UNCHANGED limits

\* Another transaction of the inbox grows the file by a page.
GrowUnchecked ==
    /\ checked.answer # "pass"
    /\ limits.pageSize <= free /\ size + limits.pageSize <= MaxInt
    /\ size' = size + limits.pageSize
    /\ free' = free - limits.pageSize
    /\ checked' = Unchecked
    /\ UNCHANGED limits

OthersUse ==
    /\ free' \in Frees
    /\ UNCHANGED <<limits, size, checked>>

\* The file system is full: the transaction is rolled back.
CommitFails ==
    /\ checked.answer = "pass"
    /\ checked' = Unchecked
    /\ UNCHANGED <<limits, size, free>>

\* The inbox is opened again: by the replay command, or by the gateway.
Reopen ==
    /\ checked.answer # "pass"
    /\ \/ limits' = [limits EXCEPT !.maxDB = 0, !.minFree = 0]
       \/ \E m \in Ceilings, f \in Reserves :
              limits' = [limits EXCEPT !.maxDB = m, !.minFree = f]
    /\ checked' = Unchecked
    /\ UNCHANGED <<size, free>>

GuardStep ==
    \/ \E record \in Records : CheckRecord(record)
    \/ CommitRecord \/ CommitFails \/ GrowUnchecked \/ OthersUse \/ Reopen

GuardSpec == GuardStart /\ [][GuardStep]_guardVars

-----------------------------------------------------------------------------
(* Properties *)

\* Whether a record fits both limits, in integers of any size.
Fits(record, bytes, available) ==
    LET room == Room(record, limits.pageSize, limits.allocSize)
    IN  /\ limits.maxDB > 0 => bytes + room <= limits.maxDB
        /\ limits.minFree > 0 => room <= available - limits.minFree

\* The guard is exact.  No record is let in whose pages, copies and allocation
\* chunk would take the file past its ceiling or its file system below the
\* reserve, at any width of the integers; none that fits is refused; and what
\* is committed is within the ceiling, whatever other programs and other
\* transactions do around it.
GuardExact ==
    /\ checked.answer \in {"pass", "committed"} =>
           Fits(checked.record, checked.size, checked.free)
    /\ checked.answer = "refuse" => ~Fits(checked.record, checked.size, checked.free)
    /\ checked.answer = "committed" /\ limits.maxDB > 0 => size <= limits.maxDB
=============================================================================
