---------------------------- MODULE ImportReview -----------------------------
(***************************************************************************)
(* One intelligent import (intelligent-imports.service.ts): a text or file *)
(* is analysed by heuristics and a model (intelligent-import-ai.service),  *)
(* the person reviews what was extracted, and confirms or rejects it.  A   *)
(* confirmation books the entities in one transaction: orders as sales and *)
(* revenue, costs and their expenses, customers and products.  Every       *)
(* operation reads the import, checks its status and writes it awaits      *)
(* later, whatever became of it meanwhile.                                 *)
(*                                                                         *)
(* Summaries, periods, confidences and warnings are left out; an           *)
(* extraction is the set of its entities.  AiUsage models the metering.    *)
(***************************************************************************)
EXTENDS Naturals, FiniteSets

CONSTANTS
    Entities,           \* what a source may be found to contain
    EntityKind,         \* "order", "cost", "contact" (customer or product), "other":
                        \* without a name of a product, or an amount above zero
    EntityKey,          \* the external id of an order, of which several are one order,
                        \* and the name and amount of a cost
    Marks,              \* what a contact is looked for by: e-mail, phone, code, name
    FieldOf,            \* the column a mark is kept in
    Extractions,        \* extractions heuristics, model and person come up with
    ImportCalls,        \* calls in progress at a time
    MaxOvertaken        \* bound on writes over what the call had not read

ASSUME ImportReviewAssumption ==
    /\ EntityKind \in [Entities -> {"order", "cost", "contact", "other"}]
    /\ \A e \in Entities : EntityKind[e] = "contact" => Marks[e] # {}
    /\ Extractions \subseteq SUBSET Entities /\ {} \in Extractions
    /\ MaxOvertaken \in Nat

VARIABLES
    imp,        \* IntelligentImport
    metrics,    \* confirmed ImportedMetric and ImportedEntity rows, per confirmation
    revenue,    \* Sale and its FinancialTransaction, per external id: the entity
                \* whose amount they carry
    costs,      \* OperationalCost rows per entity
    expensed,   \* keys of the costs that have a FinancialTransaction
    contacts,   \* Customer and Product rows: the confirmation and the entity each was
                \* created by, and its marks
    task,       \* calls in progress
    confirms,   \* confirmations so far
    overtaken   \* history: writes over what the call had not read

importVars == <<imp, metrics, revenue, costs, expensed, contacts, task, confirms, overtaken>>
books == <<metrics, revenue, costs, expensed, contacts, confirms>>

-----------------------------------------------------------------------------

ImportStatuses == {"none", "uploaded", "analyzing", "needs_review", "confirmed",
                   "rejected", "failed"}
InputTypes == {"text", "csv", "image", "pdf"}
Closed == {"confirmed", "rejected"}
EntityKeys == {EntityKey[e] : e \in Entities}
NoEntity == "none"

TaskPcs == {"idle", "mark", "analysis", "review", "confirm", "transaction", "reject"}
NoTask == [pc |-> "idle", draft |-> {}, stale |-> FALSE, seen |-> {}, left |-> {}, rows |-> {}]

OfKind(draft, kind) == {e \in draft : EntityKind[e] = kind}

ImportInit ==
    /\ imp = [status |-> "none", input |-> "text", draft |-> {}]
    /\ metrics = {}
    /\ revenue = [k \in EntityKeys |-> NoEntity]
    /\ costs = [e \in Entities |-> 0] /\ expensed = {} /\ contacts = {}
    /\ task = [c \in ImportCalls |-> NoTask]
    /\ confirms = 0 /\ overtaken = 0

\* The import as a call has found it; what others write afterwards makes it stale.
Open(c, pc) ==
    /\ task[c].pc = "idle" /\ imp.status # "none"
    /\ task' = [task EXCEPT ![c] = [NoTask EXCEPT !.pc = pc, !.draft = imp.draft]]
    /\ UNCHANGED <<imp, books, overtaken>>

WriteImport(c, row, next) ==
    /\ imp' = row
    /\ task' = [d \in ImportCalls |->
         IF d = c THEN next
         ELSE [task[d] EXCEPT !.stale = @ \/ task[d].pc # "idle"]]
    /\ task[c].stale => overtaken < MaxOvertaken
    /\ overtaken' = overtaken + IF task[c].stale THEN 1 ELSE 0

-----------------------------------------------------------------------------
(* createTextImport, uploadFile *)

Upload(input) ==
    /\ imp.status = "none"
    /\ imp' = [status |-> "uploaded", input |-> input, draft |-> {}]
    /\ UNCHANGED <<books, task, overtaken>>

-----------------------------------------------------------------------------
(* analyzeImport *)

BeginAnalysis(c) == imp.status \notin Closed /\ Open(c, "mark")

MarkAnalyzing(c) ==
    /\ task[c].pc = "mark"
    /\ WriteImport(c, [imp EXCEPT !.status = "analyzing"],
                   [task[c] EXCEPT !.pc = "analysis"])
    /\ UNCHANGED books

\* mergeAnalysisResults: what the model extracts replaces what the heuristics do.
\* A model that fails extracts nothing.
MergeAnalysis(heuristic, answer) ==
    IF answer = {} THEN heuristic ELSE answer

\* buildHeuristicAnalysis finds entities only in the rows of a CSV file.
CsvEntities == Extractions

\* normalizeExtractionResult of what the model answers; nothing if it fails, or if
\* its answer is no JSON.
ModelAnswers == Extractions
AnswerToBinary == Extractions

\* runAnalysis: the model alone reads images and PDFs.
AnalysisResults(input) ==
    CASE input \in {"image", "pdf"} -> AnswerToBinary
      [] input = "csv" -> {MergeAnalysis(h, a) : h \in CsvEntities, a \in ModelAnswers}
      [] OTHER -> {MergeAnalysis({}, a) : a \in ModelAnswers}

\* resolveAnalysisStatus: only an image or PDF of which nothing was made fails.
AnalysisStatuses(input, draft) ==
    {"needs_review"} \cup
        (IF input \in {"image", "pdf"} /\ draft = {} THEN {"failed"} ELSE {})

StoreAnalysis(c) ==
    /\ task[c].pc = "analysis"
    /\ \E draft \in AnalysisResults(imp.input) :
         \E status \in AnalysisStatuses(imp.input, draft) :
           WriteImport(c, [imp EXCEPT !.status = status, !.draft = draft], NoTask)
    /\ UNCHANGED books

-----------------------------------------------------------------------------
(* reviewImport, rejectImport *)

BeginReview(c) == imp.status \notin Closed /\ Open(c, "review")

\* Entities the person has not touched are those that were read.
StoreReview(c) ==
    /\ task[c].pc = "review"
    /\ \E draft \in Extractions \cup {task[c].draft} :
         WriteImport(c, [imp EXCEPT !.status = "needs_review", !.draft = draft], NoTask)
    /\ UNCHANGED books

BeginReject(c) == imp.status # "confirmed" /\ Open(c, "reject")

StoreReject(c) ==
    /\ task[c].pc = "reject"
    /\ WriteImport(c, [imp EXCEPT !.status = "rejected"], NoTask)
    /\ UNCHANGED books

-----------------------------------------------------------------------------
(* confirmImport *)

\* Mutant: what may be edited may be confirmed.
BeginConfirmOpen(c) ==
    /\ imp.status \notin Closed \/ imp.status = "confirmed"
    /\ Open(c, "confirm")

BeginConfirm(c) == imp.status = "needs_review" /\ Open(c, "confirm")

\* The transaction deletes the rows of earlier confirmations that it sees.
OpenTransaction(c) ==
    /\ task[c].pc = "confirm"
    /\ task' = [task EXCEPT ![c].pc = "transaction", ![c].seen = metrics,
                            ![c].left = OfKind(task[c].draft, "contact")]
    /\ UNCHANGED <<imp, books, overtaken>>

\* Rows as the transaction sees them: what is committed, with what it wrote itself.
SameRow(r, q) == r.by = q.by /\ r.of = q.of
View(k) == {r \in contacts : \A q \in k.rows : ~SameRow(r, q)} \cup k.rows
NewContact(e) == [by |-> 0, of |-> e, marks |-> Marks[e]]
Updated(r, e) ==
    [r EXCEPT !.marks = Marks[e] \cup
        {m \in @ : \A n \in Marks[e] : FieldOf[n] # FieldOf[m]}]

\* persistNormalizedEntity for a customer or product: a row that has one of its marks is
\* written over, and one is created if there is none.  A customer without a name is
\* called "Cliente importado", by which the next one without a name finds her.
BookContact(c, e) ==
    /\ task[c].pc = "transaction" /\ e \in task[c].left
    /\ LET k == task[c]
           found == {r \in View(k) : r.marks \cap Marks[e] # {}}
       IN  \E rows \in
             IF found = {} THEN {k.rows \cup {NewContact(e)}}
             ELSE {{q \in k.rows : ~SameRow(q, r)} \cup {Updated(r, e)} : r \in found} :
               task' = [task EXCEPT ![c].left = @ \ {e}, ![c].rows = rows]
    /\ UNCHANGED <<imp, books, overtaken>>

\* For an order: sale and transaction are upserted by the external id, so that the last
\* of several entities of one order counts.
BookOrders(draft) ==
    LET orders == OfKind(draft, "order")
        keys == {EntityKey[e] : e \in orders}
    IN  \E last \in [keys -> orders] :
          /\ \A k \in keys : EntityKey[last[k]] = k
          /\ revenue' = [k \in EntityKeys |-> IF k \in keys THEN last[k] ELSE revenue[k]]

\* For a cost a row is created each time, and its expense upserted by import, name and
\* amount.
BookCosts(draft) ==
    /\ costs' = [e \in Entities |-> costs[e] + IF e \in OfKind(draft, "cost") THEN 1 ELSE 0]
    /\ expensed' = expensed \cup {EntityKey[e] : e \in OfKind(draft, "cost")}

\* The rows the transaction created get their place, those it changed keep it.
BookContacts(k) ==
    contacts' = {r \in contacts : \A q \in k.rows : ~SameRow(r, q)}
                  \cup {[q EXCEPT !.by = IF @ = 0 THEN confirms + 1 ELSE @] : q \in k.rows}

CommitConfirm(c) ==
    /\ task[c].pc = "transaction" /\ task[c].left = {}
    /\ LET draft == task[c].draft
       IN  /\ confirms' = confirms + 1
           /\ metrics' = (metrics \ task[c].seen)
                           \cup {[by |-> confirms + 1, draft |-> draft]}
           /\ BookOrders(draft) /\ BookCosts(draft) /\ BookContacts(task[c])
    /\ WriteImport(c, [imp EXCEPT !.status = "confirmed"], NoTask)

\* A call, the model's limit or the process fails; a transaction is rolled back.
TaskEnds(c) ==
    /\ task[c].pc # "idle"
    /\ task' = [task EXCEPT ![c] = NoTask]
    /\ UNCHANGED <<imp, books, overtaken>>

-----------------------------------------------------------------------------

ImportNext ==
    \/ \E input \in InputTypes : Upload(input)
    \/ \E c \in ImportCalls :
         \/ BeginAnalysis(c) \/ MarkAnalyzing(c) \/ StoreAnalysis(c)
         \/ BeginReview(c) \/ StoreReview(c) \/ BeginReject(c) \/ StoreReject(c)
         \/ BeginConfirm(c) \/ OpenTransaction(c) \/ CommitConfirm(c) \/ TaskEnds(c)
         \/ \E e \in Entities : BookContact(c, e)

ImportSpec == ImportInit /\ [][ImportNext]_importVars
-----------------------------------------------------------------------------
(* Properties *)

\* Types of the import and of what it books.
ImportTypeOK ==
    /\ imp \in [status : ImportStatuses, input : InputTypes, draft : SUBSET Entities]
    /\ \A m \in metrics : m.by \in 1..confirms /\ m.draft \subseteq Entities
    /\ revenue \in [EntityKeys -> Entities \cup {NoEntity}]
    /\ costs \in [Entities -> 0..confirms] /\ expensed \subseteq EntityKeys
    /\ \A r \in contacts : r.by \in 1..confirms /\ r.of \in Entities
    /\ \A c \in ImportCalls :
         task[c].pc \in TaskPcs /\ task[c].draft \subseteq Entities

\* No other contact of the draft has a mark of e.
OnItsOwn(draft, e) ==
    \A x \in OfKind(draft, "contact") \ {e} : Marks[x] \cap Marks[e] = {}

\* What the books show of a confirmed extraction.
BooksOf(draft) ==
    /\ metrics = {[by |-> 1, draft |-> draft]}
    /\ \A k \in EntityKeys :
         IF \E e \in OfKind(draft, "order") : EntityKey[e] = k
         THEN revenue[k] \in draft /\ EntityKey[revenue[k]] = k ELSE revenue[k] = NoEntity
    /\ \A e \in Entities : costs[e] = IF e \in OfKind(draft, "cost") THEN 1 ELSE 0
    /\ \A r \in contacts : r.of \in OfKind(draft, "contact")
    /\ \A e \in OfKind(draft, "contact") :
         OnItsOwn(draft, e) => \E r \in contacts : r.of = e /\ r.marks = Marks[e]

BooksEmpty ==
    /\ metrics = {} /\ expensed = {} /\ contacts = {}
    /\ \A k \in EntityKeys : revenue[k] = NoEntity
    /\ \A e \in Entities : costs[e] = 0

\* However analyses, reviews, rejections and confirmations overlap and fail, an import is
\* booked again only for a call that wrote over what it had not read, a second
\* confirmation, or an analysis, review or rejection that undid the first; each time
\* books a cost and a contact once more at most, and no revenue or expense again, so that
\* a cost on the books has its expense and an expense its cost.
BookedOnceEach ==
    /\ confirms <= overtaken + 1
    /\ \A e \in Entities : costs[e] <= confirms
    /\ expensed = {EntityKey[e] : e \in {x \in Entities : costs[x] > 0}}
    /\ \A r, q \in contacts : SameRow(r, q) => r = q

\* As long as no call has done so, the books hold exactly the extraction of a confirmed
\* import, once, and nothing of one that is not.  Contacts that share a name, as all
\* without one do, an e-mail or a phone may become one row, the later one's; one that
\* shares none has a row with all its marks.
BookedAsConfirmed ==
    /\ BookedOnceEach
    /\ overtaken = 0 => IF imp.status = "confirmed" THEN BooksOf(imp.draft) ELSE BooksEmpty
=============================================================================
