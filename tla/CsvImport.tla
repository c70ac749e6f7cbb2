------------------------------ MODULE CsvImport ------------------------------
(***************************************************************************)
(* One job of csv-imports.service.ts: upload, mapping of columns, and the  *)
(* confirmation, which stores the lines one by one without a transaction,  *)
(* each after looking for its duplicate.  Nothing keeps a confirmation     *)
(* from being made again, at the same time, after a failure or after the   *)
(* mapping was changed: the look for duplicates is what makes it harmless. *)
(*                                                                         *)
(* What a line means under a mapping is a constant.  CsvText models how    *)
(* the text becomes lines.                                                 *)
(***************************************************************************)
EXTENDS Naturals, FiniteSets

CONSTANTS
    CsvLines,       \* number of lines
    Mappings,       \* mappings of columns to fields that validateMapping accepts
    Reading,        \* the values of the lines under each mapping, or "invalid"
    Finds,          \* the pairs of values <<v, w>> such that the look made before v is
                    \* inserted finds a row stored from w
    CsvCalls,       \* confirmations at a time
    MaxCsvMishaps   \* bound on failed inserts and aborted confirmations

CsvValues == {Reading[m][i] : m \in Mappings, i \in 1..CsvLines} \ {"invalid"}
NoMapping == "none"

ASSUME CsvImportAssumption ==
    /\ CsvLines \in Nat \ {0} /\ MaxCsvMishaps \in Nat
    /\ NoMapping \notin Mappings

VARIABLES
    job,        \* CsvImportJob
    rowErrors,  \* CsvImportRowError rows of the job
    stored,     \* rows stored per value
    confirm,    \* confirmations in progress
    csvMishaps, \* failed inserts and aborted confirmations so far
    ended,      \* history: mappings under which a confirmation ran to its end with
                \* every insert succeeding
    together    \* history: two confirmations were in progress at once

csvVars == <<job, rowErrors, stored, confirm, csvMishaps, ended, together>>

-----------------------------------------------------------------------------

CsvStatuses == {"none", "uploaded", "mapped", "processing", "completed", "failed"}
\* Sales, costs, investments in ads, customers and products; and orders, which are kept
\* as raw rows only.
CsvKinds == {"record", "order"}
ConfirmPcs == {"idle", "mark", "clear", "look", "insert", "errors", "finish"}
NoConfirm == [pc |-> "idle", mapping |-> NoMapping, line |-> 1, seen |-> {},
              imported |-> 0, failed |-> 0, dropped |-> FALSE]

CsvInit ==
    /\ \E kind \in CsvKinds :
         job = [status |-> "none", mapping |-> NoMapping, imported |-> 0, failed |-> 0,
                kind |-> kind]
    /\ rowErrors = 0 /\ csvMishaps = 0
    /\ stored = [v \in CsvValues |-> 0]
    /\ confirm = [c \in CsvCalls |-> NoConfirm]
    /\ ended = {} /\ together = FALSE

UploadCsv ==
    /\ job.status = "none"
    /\ job' = [job EXCEPT !.status = "uploaded"]
    /\ UNCHANGED <<rowErrors, stored, confirm, csvMishaps, ended, together>>

\* saveMapping: at any time.
SaveMapping(m) ==
    /\ job.status # "none"
    /\ job' = [job EXCEPT !.status = "mapped", !.mapping = m]
    /\ UNCHANGED <<rowErrors, stored, confirm, csvMishaps, ended, together>>

\* confirmImport: whatever the status is.
BeginCsv(c) ==
    /\ confirm[c].pc = "idle" /\ job.mapping # NoMapping
    /\ confirm' = [confirm EXCEPT ![c] =
         [NoConfirm EXCEPT !.pc = "mark", !.mapping = job.mapping]]
    /\ together' = (together \/ \E d \in CsvCalls \ {c} : confirm[d].pc # "idle")
    /\ UNCHANGED <<job, rowErrors, stored, csvMishaps, ended>>

MarkProcessing(c) ==
    /\ confirm[c].pc = "mark"
    /\ job' = [job EXCEPT !.status = "processing", !.imported = 0, !.failed = 0]
    /\ confirm' = [confirm EXCEPT ![c].pc = "clear"]
    /\ UNCHANGED <<rowErrors, stored, csvMishaps, ended, together>>

\* Mutant: the errors of the confirmation before are kept.
ClearErrorsNot(c) ==
    /\ confirm[c].pc = "clear"
    /\ confirm' = [confirm EXCEPT ![c].pc = "look"]
    /\ UNCHANGED <<job, rowErrors, stored, csvMishaps, ended, together>>

ClearErrors(c) ==
    /\ confirm[c].pc = "clear"
    /\ rowErrors' = 0
    /\ confirm' = [confirm EXCEPT ![c].pc = "look"]
    /\ UNCHANGED <<job, stored, csvMishaps, ended, together>>

NextLine(r) ==
    [r EXCEPT !.line = IF @ < CsvLines THEN @ + 1 ELSE 1,
              !.pc = IF r.line < CsvLines THEN "look" ELSE "errors"]
RowFails(r) == NextLine([r EXCEPT !.failed = @ + 1])
RowPasses(r) == NextLine([r EXCEPT !.imported = @ + 1])

\* The find before each insert.  It need not go both ways: a customer is looked for by
\* name only without an e-mail and a phone, so that "Ana" alone finds an Ana with an
\* e-mail, and is not found by her; and a value need not find itself: an amount of more
\* decimals than the column keeps is stored rounded, and looked for as it is.
Duplicates(v) == {w \in CsvValues : <<v, w>> \in Finds}
IsStored(v) == \E w \in Duplicates(v) : stored[w] > 0

\* Mutant: the first line that fails ends the loop.
LookAtLineStops(c) ==
    /\ confirm[c].pc = "look"
    /\ LET r == confirm[c]
           v == Reading[r.mapping][r.line]
           seen == [r EXCEPT !.seen = @ \cup {v}]
       IN  confirm' = [confirm EXCEPT ![c] =
             IF v = "invalid" \/ v \in r.seen \/ IsStored(v)
             THEN [r EXCEPT !.failed = @ + 1, !.pc = "errors"]
             ELSE IF job.kind = "order" THEN RowPasses(seen)
             ELSE [seen EXCEPT !.pc = "insert"]]
    /\ UNCHANGED <<job, rowErrors, stored, csvMishaps, ended, together>>

\* normalizeRow, buildFingerprint, and the look for a row that is stored already.
LookAtLine(c) ==
    /\ confirm[c].pc = "look"
    /\ LET r == confirm[c]
           v == Reading[r.mapping][r.line]
           seen == [r EXCEPT !.seen = @ \cup {v}]
       IN  confirm' = [confirm EXCEPT ![c] =
             IF v = "invalid" \/ v \in r.seen THEN RowFails(r)
             ELSE IF job.kind = "order" THEN RowPasses(seen)
             ELSE IF IsStored(v) THEN RowFails(seen)
             ELSE [seen EXCEPT !.pc = "insert"]]
    /\ UNCHANGED <<job, rowErrors, stored, csvMishaps, ended, together>>

\* persistSale, persistProduct, persistCustomer, persistCost, persistAdSpend.
InsertRow(c) ==
    /\ confirm[c].pc = "insert"
    /\ \/ /\ stored' = [stored EXCEPT ![Reading[confirm[c].mapping][confirm[c].line]] = @ + 1]
          /\ confirm' = [confirm EXCEPT ![c] = RowPasses(confirm[c])]
          /\ UNCHANGED csvMishaps
       \/ /\ csvMishaps < MaxCsvMishaps /\ csvMishaps' = csvMishaps + 1
          /\ confirm' = [confirm EXCEPT ![c] = RowFails([confirm[c] EXCEPT !.dropped = TRUE])]
          /\ UNCHANGED stored
    /\ UNCHANGED <<job, rowErrors, ended, together>>

SaveErrors(c) ==
    /\ confirm[c].pc = "errors"
    /\ rowErrors' = rowErrors + confirm[c].failed
    /\ confirm' = [confirm EXCEPT ![c].pc = "finish"]
    /\ UNCHANGED <<job, stored, csvMishaps, ended, together>>

FinishCsv(c) ==
    /\ confirm[c].pc = "finish"
    /\ LET r == confirm[c]
       IN  /\ job' = [job EXCEPT !.imported = r.imported, !.failed = r.failed,
                        !.status = IF r.imported > 0 THEN "completed" ELSE "failed"]
           /\ ended' = IF r.dropped THEN ended ELSE ended \cup {r.mapping}
    /\ confirm' = [confirm EXCEPT ![c] = NoConfirm]
    /\ UNCHANGED <<rowErrors, stored, csvMishaps, together>>

\* Another write fails or the process restarts.
CsvEnds(c) ==
    /\ confirm[c].pc # "idle" /\ csvMishaps < MaxCsvMishaps
    /\ csvMishaps' = csvMishaps + 1
    /\ confirm' = [confirm EXCEPT ![c] = NoConfirm]
    /\ UNCHANGED <<job, rowErrors, stored, ended, together>>

CsvNext ==
    \/ UploadCsv
    \/ \E m \in Mappings : SaveMapping(m)
    \/ \E c \in CsvCalls :
         \/ BeginCsv(c) \/ MarkProcessing(c) \/ ClearErrors(c) \/ LookAtLine(c)
         \/ InsertRow(c) \/ SaveErrors(c) \/ FinishCsv(c) \/ CsvEnds(c)

CsvSpec == CsvInit /\ [][CsvNext]_csvVars
-----------------------------------------------------------------------------
(* Properties *)

\* Types of the job and its confirmations.
CsvTypeOK ==
    /\ job.status \in CsvStatuses /\ job.mapping \in Mappings \cup {NoMapping}
    /\ stored \in [CsvValues -> Nat] /\ rowErrors \in Nat
    /\ \A c \in CsvCalls :
         confirm[c].pc \in ConfirmPcs /\ confirm[c].line \in 1..CsvLines

\* A confirmation that has run to its end has every valid line of the file stored,
\* by itself or by an earlier one, or what the look for it finds, whatever other lines
\* fail, however many confirmations overlap or were cut short before.
CsvEndedMeansStored ==
    job.kind # "order" => \A m \in ended, i \in 1..CsvLines :
        LET v == Reading[m][i] IN v # "invalid" => stored[v] > 0 \/ IsStored(v)

\* As long as no two confirmations overlap, confirming again, after a failure, a
\* restart or a change of the mapping, stores no value twice whose look finds it, nor two
\* values whose looks find each other, in whatever order they come; and a job that has
\* ended reports each line of the file once, with as many errors kept as counted.  Two
\* values of which only one finds the other are both stored if that one comes first.
CsvOnceAlone ==
    ~together =>
        /\ \A v, w \in CsvValues :
             stored[v] > 0 /\ stored[w] > 0 /\ w \in Duplicates(v) /\ v \in Duplicates(w)
               => v = w /\ stored[v] = 1
        /\ job.status \in {"completed", "failed"}
             /\ (\A c \in CsvCalls : confirm[c].pc = "idle")
           => job.imported + job.failed = CsvLines /\ rowErrors = job.failed

\* Every valid line of a file is stored, and once: not less whatever fails or overlaps,
\* not more as long as nothing overlaps.
CsvLinesStored == CsvEndedMeansStored /\ CsvOnceAlone
=============================================================================
