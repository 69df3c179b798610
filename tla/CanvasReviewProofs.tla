------------------------- MODULE CanvasReviewProofs -------------------------
(***************************************************************************)
(* Proofs about CanvasReview, for any identifiers, texts, limit, starting  *)
(* documents and proposals of the model.  The two ways in which a document *)
(* is rewritten, Merge and Replanned, are taken apart first.               *)
(***************************************************************************)
EXTENDS CanvasReview, TLAPS

\* What OutputIsOfItsText says of the document d, whose nodes in K were kept.
Faithful(d, K) ==
  \A n \in Ids : d.status[n] = "completed" => d.ran[n] = d.text[n] \/ n \in K

\* What PreservedIsClosed says of the document d.
Closed(d) ==
  \A n \in d.ids : d.status[n] = "completed" =>
    \A m \in Parents(d.edges, n) \cap d.ids : d.status[m] = "completed"

Inv == TypeOK /\ OutputIsOfItsText /\ PreservedIsClosed

-----------------------------------------------------------------------------
(* Graphs *)

\* What is below S contains every consumer of S and of itself.
LEMMA BelowIsClosed ==
  ASSUME NEW edges \in SUBSET (Ids \X Ids), NEW S,
         NEW m \in Ids, NEW p \in S \cup Below(edges, S), p \in Parents(edges, m)
  PROVE  m \in Below(edges, S)
<1> SUFFICES ASSUME NEW T \in SUBSET Ids,
                    \A e \in edges : e[1] \in S \cup T => e[2] \in T
             PROVE  m \in T
  BY DEF Below
<1>1. p \in S \cup T
  BY DEF Below
<1>2. <<p, m>> \in edges
  BY DEF Parents
<1> QED BY <1>1, <1>2

\* The closed part of C is a part of C, and closed.
LEMMA ClosedPartIsClosed ==
  ASSUME NEW edges, NEW C, NEW n \in ClosedPart(edges, C)
  PROVE  n \in C /\ Parents(edges, n) \subseteq ClosedPart(edges, C)
<1>1. PICK P \in SUBSET C : n \in P /\ \A m \in P : Parents(edges, m) \subseteq P
  BY DEF ClosedPart
<1>2. \A m \in P : m \in ClosedPart(edges, C)
  BY <1>1 DEF ClosedPart
<1> QED BY <1>1, <1>2

-----------------------------------------------------------------------------
(* The two rewritings of a document *)

LEMMA PreservedNodes ==
  ASSUME NEW d, NEW s, NEW m \in Preserved(d, s)
  PROVE  /\ m \in s.ids /\ m \in d.ids
         /\ d.status[m] = "completed" /\ s.text[m] = d.text[m]
         /\ Parents(s.edges, m) \subseteq Preserved(d, s)
<1> DEFINE C == {k \in s.ids \cap d.ids : d.status[k] = "completed" /\ s.text[k] = d.text[k]}
<1>1. Preserved(d, s) = ClosedPart(s.edges, C)
  BY DEF Preserved
<1>2. m \in C /\ Parents(s.edges, m) \subseteq ClosedPart(s.edges, C)
  BY <1>1, ClosedPartIsClosed
<1> QED BY <1>1, <1>2

\* A node that is retained has its text, unless it is the target that is kept.
LEMMA RetainedNodes ==
  ASSUME NEW d, NEW s, NEW n, NEW keeps \in BOOLEAN, NEW m \in Retained(d, s, n, keeps)
  PROVE  /\ m \in s.ids /\ m \in d.ids
         /\ \/ keeps /\ m = n
            \/ /\ s.text[m] = d.text[m]
               /\ m \notin Altered(d, s) \cup Below(s.edges, Altered(d, s))
<1>1. m \in s.ids /\ m \in d.ids /\ m \notin Reset(d, s, n, keeps)
  BY DEF Retained
<1>2. CASE keeps /\ m = n
  BY <1>1, <1>2
<1>3. CASE ~(keeps /\ m = n)
  <2>1. m \notin Altered(d, s) \cup Below(s.edges, Altered(d, s))
    BY <1>1, <1>3 DEF Reset
  <2>2. s.text[m] = d.text[m]
    BY <1>1, <2>1 DEF Altered
  <2> QED BY <1>1, <2>1, <2>2
<1> QED BY <1>2, <1>3

LEMMA MarkFailedTyped ==
  ASSUME NEW d \in Document, NEW n \in Ids
  PROVE  MarkFailed(d, n) \in Document
BY DEF MarkFailed, Document

LEMMA ApproveTyped ==
  ASSUME NEW d \in Document, NEW n \in Ids
  PROVE  Approve(d, n) \in Document
BY DEF Approve, Document

LEMMA RerunTyped ==
  ASSUME NEW d \in Document, NEW n \in Ids, ~AtLimit(d, n)
  PROVE  Rerun(d, n) \in Document
<1>1. d.count[n] + 1 \in 0 .. Limit
  BY CanvasAssumption DEF AtLimit, Document
<1> QED BY <1>1 DEF Rerun, Document

LEMMA MergeTyped ==
  ASSUME NEW d \in Document, NEW s \in Suggestions, NEW n \in Ids, NEW keeps \in BOOLEAN,
         ~AtLimit(d, n)
  PROVE  Merge(d, s, n, keeps) \in Document
<1>1. s \in Suggestion
  BY CanvasAssumption
<1>2. d.count[n] + 1 \in 0 .. Limit /\ 0 \in 0 .. Limit
  BY CanvasAssumption DEF AtLimit, Document
<1>3. \A m \in Ids : RetainedQc(d, m) \in {"uncontrolled", "controlled"}
  BY DEF RetainedQc, Document
<1> DEFINE e == Merge(d, s, n, keeps)
<1>4. e.status \in [Ids -> {"idle", "completed", "error"}]
  BY DEF Merge, Document
<1>5. e.qc \in [Ids -> {"absent", "uncontrolled", "controlled"}]
  BY <1>3 DEF Merge
<1>6. e.count \in [Ids -> 0 .. Limit]
  BY <1>2 DEF Merge, Document
<1>7. e.ran \in [Ids -> Texts \cup {NoRun}]
  BY DEF Merge, Document
<1>8. e = [ids |-> e.ids, edges |-> e.edges, status |-> e.status, qc |-> e.qc,
           count |-> e.count, text |-> e.text, ran |-> e.ran]
  BY DEF Merge
<1>9. e.ids \in SUBSET Ids /\ e.edges \in SUBSET (Ids \X Ids) /\ e.text \in [Ids -> Texts]
  BY <1>1 DEF Merge, Suggestion
<1> HIDE DEF e
<1>10. e \in Document
  BY <1>4, <1>5, <1>6, <1>7, <1>8, <1>9 DEF Document
<1> QED BY <1>10 DEF e

LEMMA ReplannedTyped ==
  ASSUME NEW d \in Document, NEW s \in Suggestions
  PROVE  Replanned(d, s) \in Document
<1>1. s \in Suggestion
  BY CanvasAssumption
<1>2. 0 \in 0 .. Limit
  BY CanvasAssumption
<1> QED BY <1>1, <1>2 DEF Replanned, Document, Suggestion

-----------------------------------------------------------------------------
(* The output of a node *)

LEMMA MarkFailedFaithful ==
  ASSUME NEW d \in Document, NEW K, Faithful(d, K), NEW n \in Ids
  PROVE  Faithful(MarkFailed(d, n), K)
<1> DEFINE e == MarkFailed(d, n)
<1>1. /\ e.status = [d.status EXCEPT ![n] = "error"]
      /\ e.ran = d.ran /\ e.text = d.text
  BY DEF MarkFailed, Document
<1> HIDE DEF e
<1>2. Faithful(e, K)
  BY <1>1 DEF Faithful, Document
<1> QED BY <1>2 DEF e

LEMMA RerunFaithful ==
  ASSUME NEW d \in Document, NEW K, Faithful(d, K), NEW n \in Ids
  PROVE  Faithful(Rerun(d, n), K \ {n})
<1> DEFINE e == Rerun(d, n)
<1>1. /\ e.status = [d.status EXCEPT ![n] = "idle"]
      /\ e.ran = [d.ran EXCEPT ![n] = NoRun] /\ e.text = d.text
  BY DEF Rerun, Document
<1> HIDE DEF e
<1>2. Faithful(e, K \ {n})
  BY <1>1 DEF Faithful, Document
<1> QED BY <1>2 DEF e

LEMMA MergeFaithful ==
  ASSUME NEW d \in Document, Faithful(d, kept), NEW s \in Suggestions,
         NEW n \in Ids, NEW keeps \in BOOLEAN
  PROVE  Faithful(Merge(d, s, n, keeps),
                  (kept \cap Retained(d, s, n, keeps)) \cup (IF keeps THEN {n} \cap s.ids ELSE {}))
<1> DEFINE same == Retained(d, s, n, keeps)
           e == Merge(d, s, n, keeps)
<1> SUFFICES ASSUME NEW m \in Ids, e.status[m] = "completed"
             PROVE  \/ e.ran[m] = e.text[m]
                    \/ m \in kept \cap same
                    \/ keeps /\ m = n /\ m \in s.ids
  BY DEF Faithful
<1>1. m \in same /\ d.status[m] = "completed" /\ e.ran[m] = d.ran[m] /\ e.text = s.text
  BY DEF Merge
<1>2. m \in s.ids /\ ((keeps /\ m = n) \/ s.text[m] = d.text[m])
  BY <1>1, RetainedNodes
<1>3. d.ran[m] = d.text[m] \/ m \in kept
  BY <1>1 DEF Faithful
<1> QED BY <1>1, <1>2, <1>3

LEMMA ReplannedFaithful ==
  ASSUME NEW d \in Document, NEW K, Faithful(d, K), NEW s \in Suggestions
  PROVE  Faithful(Replanned(d, s), K \cap Preserved(d, s))
<1> DEFINE e == Replanned(d, s)
<1> SUFFICES ASSUME NEW m \in Ids, e.status[m] = "completed"
             PROVE  e.ran[m] = e.text[m] \/ m \in K \cap Preserved(d, s)
  BY DEF Faithful
<1>1. m \in Preserved(d, s) /\ e.ran[m] = d.ran[m] /\ e.text = s.text
  BY DEF Replanned
<1>2. d.status[m] = "completed" /\ s.text[m] = d.text[m]
  BY <1>1, PreservedNodes
<1> QED BY <1>1, <1>2 DEF Faithful

LEMMA ReplannedClosed ==
  ASSUME NEW d \in Document, NEW s \in Suggestions
  PROVE  Closed(Replanned(d, s))
<1> DEFINE e == Replanned(d, s)
<1> SUFFICES ASSUME NEW n \in e.ids, e.status[n] = "completed",
                    NEW m \in Parents(e.edges, n) \cap e.ids
             PROVE  e.status[m] = "completed"
  BY DEF Closed
<1>1. s \in Suggestion
  BY CanvasAssumption
<1>2. e.ids = s.ids /\ e.edges = s.edges /\ n \in Ids /\ m \in Ids
  BY <1>1 DEF Replanned, Suggestion
<1>3. n \in Preserved(d, s)
  BY <1>2 DEF Replanned
<1>4. m \in Preserved(d, s)
  BY <1>2, <1>3, PreservedNodes
<1> QED BY <1>2, <1>4 DEF Replanned

-----------------------------------------------------------------------------
(* Every call keeps the invariant *)

LEMMA ReplanKeeps ==
  ASSUME Inv, NEW d \in Document, NEW K \in SUBSET Ids, Faithful(d, K), ReplanFrom(d, K)
  PROVE  Inv'
<1>1. CASE reply' = "failed" /\ UNCHANGED <<doc, approved, kept>>
  <2>1. TypeOK' /\ OutputIsOfItsText'
    BY <1>1 DEF Inv, TypeOK, OutputIsOfItsText
  <2> QED BY <1>1, <2>1 DEF Inv, PreservedIsClosed
<1>2. CASE \E s \in Suggestions :
             /\ doc' = Replanned(d, s)
             /\ approved' = approved \cap Preserved(d, s)
             /\ kept' = K \cap Preserved(d, s)
             /\ reply' = "replanned"
  <2>1. PICK s \in Suggestions : /\ doc' = Replanned(d, s)
                                 /\ approved' = approved \cap Preserved(d, s)
                                 /\ kept' = K \cap Preserved(d, s)
                                 /\ reply' = "replanned"
    BY <1>2
  <2>2. TypeOK'
    BY <2>1, ReplannedTyped DEF Inv, TypeOK
  <2>3. OutputIsOfItsText'
    BY <2>1, ReplannedFaithful DEF Faithful, OutputIsOfItsText
  <2>4. PreservedIsClosed'
    BY <2>1, ReplannedClosed DEF Closed, PreservedIsClosed
  <2> QED BY <2>2, <2>3, <2>4 DEF Inv
<1> QED BY <1>1, <1>2 DEF ReplanFrom

LEMMA DecidedTyped ==
  ASSUME Inv, NEW s \in Suggestions, NEW n \in Ids, NEW keeps \in BOOLEAN
  PROVE  Decided(s, n, keeps) \in SUBSET Ids
BY DEF Decided, Inv, TypeOK

LEMMA NowFaithful ==
  ASSUME Inv
  PROVE  doc \in Document /\ kept \in SUBSET Ids /\ Faithful(doc, kept)
BY DEF Inv, TypeOK, OutputIsOfItsText, Faithful

LEMMA CanvasKeeps ==
  ASSUME Inv, NEW n \in Ids, CanvasRuns(n)
  PROVE  Inv'
<1>1. doc \in Document /\ n \in doc.ids /\ doc.status[n] = "idle"
  BY DEF Inv, TypeOK, CanvasRuns
<1>2. /\ doc' \in Document
      /\ doc'.ids = doc.ids /\ doc'.edges = doc.edges /\ doc'.text = doc.text
      /\ \A m \in Ids \ {n} : doc'.status[m] = doc.status[m] /\ doc'.ran[m] = doc.ran[m]
      /\ doc'.status[n] = "completed" => doc'.ran[n] = doc.text[n]
  <2>1. CASE doc' = [doc EXCEPT !.status[n] = "completed", !.ran[n] = doc.text[n]]
    BY <1>1, <2>1 DEF Document
  <2>2. CASE doc' = [doc EXCEPT !.status[n] = "error"]
    BY <1>1, <2>2 DEF Document
  <2> QED BY <2>1, <2>2 DEF CanvasRuns
<1>3. TypeOK'
  BY <1>2 DEF Inv, TypeOK, CanvasRuns
<1>4. OutputIsOfItsText'
  BY <1>2 DEF Inv, OutputIsOfItsText, CanvasRuns
<1>5. PreservedIsClosed'
  <2> SUFFICES ASSUME reply = "replanned", NEW k \in doc.ids, doc'.status[k] = "completed",
                      NEW m \in Parents(doc.edges, k) \cap doc.ids
               PROVE  doc'.status[m] = "completed"
    BY <1>2 DEF PreservedIsClosed, CanvasRuns
  <2>1. k \in Ids /\ m \in Ids /\ \A i \in doc.ids : i \in Ids
    BY <1>1 DEF Document
  <2>2. doc.status[m] = "completed"
    <3>1. CASE k = n
      BY <3>1 DEF CanvasRuns
    <3>2. CASE k # n
      BY <1>2, <2>1, <3>2 DEF Inv, PreservedIsClosed
    <3> QED BY <3>1, <3>2
  <2>3. m # n
    BY <1>1, <2>2
  <2> QED BY <1>2, <2>1, <2>2, <2>3
<1> QED BY <1>3, <1>4, <1>5 DEF Inv

LEMMA ReviewKeeps ==
  ASSUME Inv, NEW n \in Ids, Reviews(n)
  PROVE  Inv'
<1>0. doc \in Document /\ kept \in SUBSET Ids /\ Faithful(doc, kept)
  BY NowFaithful
<1>1. CASE QcLimit(n)
  <2>1. MarkFailed(doc, n) \in Document /\ Faithful(MarkFailed(doc, n), kept)
    BY <1>0, MarkFailedTyped, MarkFailedFaithful
  <2>2. CASE /\ doc' = MarkFailed(doc, n)
             /\ reply' = "limit"
             /\ UNCHANGED <<approved, kept>>
    <3>1. TypeOK'
      BY <2>1, <2>2 DEF Inv, TypeOK
    <3>2. OutputIsOfItsText'
      BY <2>1, <2>2 DEF OutputIsOfItsText, Faithful
    <3> QED BY <2>2, <3>1, <3>2 DEF Inv, PreservedIsClosed
  <2>3. CASE \E file \in {doc, MarkFailed(doc, n)} : ReplanFrom(file, kept)
    BY <1>0, <2>1, <2>3, ReplanKeeps
  <2> QED BY <1>1, <2>2, <2>3 DEF QcLimit
<1>2. CASE QcFails(n)
  <2>1. TypeOK' /\ OutputIsOfItsText'
    BY <1>2 DEF QcFails, Inv, TypeOK, OutputIsOfItsText
  <2> QED BY <1>2, <2>1 DEF QcFails, Inv, PreservedIsClosed
<1>3. CASE QcApproves(n)
  <2>1. TypeOK'
    BY <1>0, <1>3, ApproveTyped DEF QcApproves, Inv, TypeOK
  <2>2. doc'.status = doc.status /\ doc'.ran = doc.ran /\ doc'.text = doc.text
    BY <1>0, <1>3 DEF QcApproves, Approve, Document
  <2>3. OutputIsOfItsText'
    BY <1>3, <2>2 DEF QcApproves, Inv, OutputIsOfItsText
  <2> QED BY <1>3, <2>1, <2>3 DEF QcApproves, Inv, PreservedIsClosed
<1>4. CASE QcReruns(n)
  <2>1. TypeOK'
    BY <1>0, <1>4, RerunTyped DEF QcReruns, Inv, TypeOK
  <2>2. Faithful(Rerun(doc, n), kept \ {n})
    BY <1>0, RerunFaithful
  <2>3. OutputIsOfItsText'
    BY <1>4, <2>2 DEF QcReruns, OutputIsOfItsText, Faithful
  <2> QED BY <1>4, <2>1, <2>3 DEF QcReruns, Inv, PreservedIsClosed
<1>5. CASE QcMerges(n)
  <2>1. PICK s \in Suggestions, keeps \in BOOLEAN :
          /\ doc' = Merge(doc, s, n, keeps)
          /\ approved' = (approved \cap Retained(doc, s, n, keeps)) \ {n}
          /\ kept' = Decided(s, n, keeps)
    BY <1>5 DEF QcMerges
  <2>2. ~AtLimit(doc, n) /\ reply' = "updated"
    BY <1>5 DEF QcMerges
  <2>3. TypeOK'
    BY <1>0, <2>1, <2>2, MergeTyped, DecidedTyped DEF Inv, TypeOK
  <2>4. Faithful(Merge(doc, s, n, keeps), Decided(s, n, keeps))
    BY <1>0, MergeFaithful DEF Decided
  <2>5. OutputIsOfItsText'
    BY <2>1, <2>4 DEF OutputIsOfItsText, Faithful
  <2> QED BY <2>2, <2>3, <2>5 DEF Inv, PreservedIsClosed
<1>6. CASE QcReplans(n)
  <2>0. ~AtLimit(doc, n)
    BY <1>6 DEF QcReplans
  <2>1. CASE ReplanFrom(doc, kept)
    BY <1>0, <2>1, ReplanKeeps
  <2>2. CASE ReplanFrom(MarkFailed(Rerun(doc, n), n), kept \ {n})
    <3>1. Rerun(doc, n) \in Document /\ Faithful(Rerun(doc, n), kept \ {n})
      BY <1>0, <2>0, RerunTyped, RerunFaithful
    <3>2. /\ MarkFailed(Rerun(doc, n), n) \in Document
          /\ Faithful(MarkFailed(Rerun(doc, n), n), kept \ {n})
      BY <3>1, MarkFailedTyped, MarkFailedFaithful
    <3> QED BY <1>0, <2>2, <3>2, ReplanKeeps
  <2>3. CASE \E s \in Suggestions, keeps \in BOOLEAN :
               ReplanFrom(Merge(doc, s, n, keeps), Decided(s, n, keeps))
    <3>1. PICK s \in Suggestions, keeps \in BOOLEAN :
            ReplanFrom(Merge(doc, s, n, keeps), Decided(s, n, keeps))
      BY <2>3
    <3>2. Merge(doc, s, n, keeps) \in Document /\ Decided(s, n, keeps) \in SUBSET Ids
      BY <1>0, <2>0, MergeTyped, DecidedTyped
    <3>3. Faithful(Merge(doc, s, n, keeps), Decided(s, n, keeps))
      BY <1>0, MergeFaithful DEF Decided
    <3> QED BY <3>1, <3>2, <3>3, ReplanKeeps
  <2> QED BY <1>6, <2>1, <2>2, <2>3 DEF QcReplans
<1> QED BY <1>1, <1>2, <1>3, <1>4, <1>5, <1>6 DEF Reviews

LEMMA InvHolds == Spec => []Inv
<1>1. Init => Inv
  <2> SUFFICES ASSUME Init PROVE Inv
    OBVIOUS
  <2>1. doc \in Document /\ \A n \in Ids : doc.status[n] = "idle"
    BY CanvasAssumption DEF Init
  <2>2. TypeOK
    BY <2>1 DEF Init, TypeOK
  <2> QED BY <2>1, <2>2 DEF Init, Inv, OutputIsOfItsText, PreservedIsClosed
<1>2. Inv /\ [Next]_vars => Inv'
  <2> SUFFICES ASSUME Inv, [Next]_vars PROVE Inv'
    OBVIOUS
  <2>1. CASE UNCHANGED vars
    BY <2>1 DEF Inv, TypeOK, OutputIsOfItsText, PreservedIsClosed, vars
  <2>2. CASE QcSkips
    <3>1. TypeOK' /\ OutputIsOfItsText'
      BY <2>2 DEF QcSkips, Inv, TypeOK, OutputIsOfItsText
    <3> QED BY <2>2, <3>1 DEF QcSkips, Inv, PreservedIsClosed
  <2>3. CASE Replan
    BY <2>3, NowFaithful, ReplanKeeps DEF Replan
  <2>4. CASE \E n \in Ids : CanvasRuns(n) \/ Reviews(n)
    BY <2>4, CanvasKeeps, ReviewKeeps
  <2> QED BY <2>1, <2>2, <2>3, <2>4 DEF Next
<1> QED BY <1>1, <1>2, PTL DEF Spec

\* The type invariant: no review counts past the limit, and neither a repair nor
\* a replanning leaves the documents of the canvas.
THEOREM TypeCorrect == Spec => []TypeOK
<1>1. Inv => TypeOK
  BY DEF Inv
<1> QED BY <1>1, InvHolds, PTL

\* The output of a completed node is one of the agent and instructions it has,
\* unless the node was rejected and kept: neither repair nor replanning carries
\* an output over to other instructions.
THEOREM OutputsAreFaithful == Spec => []OutputIsOfItsText
<1>1. Inv => OutputIsOfItsText
  BY DEF Inv
<1> QED BY <1>1, InvHolds, PTL

\* What a replanning preserves, and what then runs, consumes nothing that is
\* still to be produced.
THEOREM PreservationIsClosed == Spec => []PreservedIsClosed
<1>1. Inv => PreservedIsClosed
  BY DEF Inv
<1> QED BY <1>1, InvHolds, PTL

-----------------------------------------------------------------------------
(* What no step does *)

\* A repair puts back what consumes a changed node, or one that is put back.
LEMMA MergeResets ==
  ASSUME doc \in Document, NEW s \in Suggestions, NEW n \in Ids, NEW keeps \in BOOLEAN,
         doc' = Merge(doc, s, n, keeps), kept' = Decided(s, n, keeps),
         NEW m \in Ids, NEW p \in Parents(doc'.edges, m), p \in Changed \cup PutBack
  PROVE  doc'.status[m] = "idle" \/ m \in kept'
<1> DEFINE A == Altered(doc, s)
<1>0. s \in Suggestion
  BY CanvasAssumption
<1>1. doc'.ids = s.ids /\ doc'.edges = s.edges /\ doc'.text = s.text
  BY DEF Merge
<1>2. p \in s.ids /\ p \in Ids
  BY <1>0, <1>1 DEF Changed, PutBack, Suggestion
<1>3. p \in A \cup Below(s.edges, A)
  <2>1. CASE p \in Changed
    BY <1>1, <1>2, <2>1 DEF Changed, Altered
  <2>2. CASE p \in PutBack
    <3>1. p \notin Retained(doc, s, n, keeps)
      BY <1>2, <2>2 DEF PutBack, Merge
    <3>2. CASE p \notin doc.ids
      BY <1>2, <3>2 DEF Altered
    <3>3. CASE p \in Reset(doc, s, n, keeps)
      BY <3>3 DEF Reset
    <3> QED BY <1>2, <3>1, <3>2, <3>3 DEF Retained
  <2> QED BY <2>1, <2>2
<1>4. m \in Below(s.edges, A)
  BY <1>0, <1>1, <1>3, BelowIsClosed DEF Suggestion
<1>5. CASE m \in Retained(doc, s, n, keeps)
  <2>1. keeps /\ m = n /\ m \in s.ids
    BY <1>4, <1>5, RetainedNodes
  <2> QED BY <2>1 DEF Decided
<1>6. CASE m \notin Retained(doc, s, n, keeps)
  BY <1>6 DEF Merge
<1> QED BY <1>5, <1>6

\* A replanning does so, too, if a node that it could preserve has the state and
\* the text that the canvas has sent, or was kept.
LEMMA ReplanResets ==
  ASSUME NEW d, NEW K, NEW s \in Suggestions,
         doc' = Replanned(d, s), kept' = K \cap Preserved(d, s),
         \A k \in d.ids : d.status[k] = "completed" =>
           k \in doc.ids /\ (d.text[k] = doc.text[k] \/ k \in K),
         NEW m \in Ids, NEW p \in Parents(doc'.edges, m), p \in Changed \cup PutBack
  PROVE  doc'.status[m] = "idle" \/ m \in kept'
<1>0. s \in Suggestion
  BY CanvasAssumption
<1>1. doc'.ids = s.ids /\ doc'.edges = s.edges /\ doc'.text = s.text
  BY DEF Replanned
<1>2. p \in Ids
  BY <1>0, <1>1 DEF Changed, PutBack, Suggestion
<1>3. p \notin Preserved(d, s)
  <2> SUFFICES ASSUME p \in Preserved(d, s) PROVE FALSE
    OBVIOUS
  <2>1. p \in d.ids /\ d.status[p] = "completed" /\ s.text[p] = d.text[p]
    BY PreservedNodes
  <2>2. p \notin Changed
    BY <1>1, <2>1 DEF Changed
  <2>3. p \notin PutBack
    BY <1>2 DEF PutBack, Replanned
  <2> QED BY <2>2, <2>3
<1>4. m \notin Preserved(d, s)
  BY <1>1, <1>3, PreservedNodes
<1> QED BY <1>4 DEF Replanned

\* A change reaches the end of every chain of consumers.
THEOREM ChangesReset == Spec => ChangeResetsDownstream
<1>1. ASSUME Inv, [Next]_vars
      PROVE  [Changed # {} =>
                \A m \in Ids : Parents(doc'.edges, m) \cap (Changed \cup PutBack) # {} =>
                  doc'.status[m] = "idle" \/ m \in kept']_vars
  <2> SUFFICES ASSUME Next, Changed # {}, NEW m \in Ids,
                      NEW p \in Parents(doc'.edges, m), p \in Changed \cup PutBack
               PROVE  doc'.status[m] = "idle" \/ m \in kept'
    BY <1>1
  <2>0. doc \in Document
    BY <1>1 DEF Inv, TypeOK
  <2>1. ~(doc'.ids = doc.ids /\ doc'.text = doc.text)
    BY DEF Changed
  <2>2. ASSUME NEW d, NEW K, ReplanFrom(d, K),
               \A k \in d.ids : d.status[k] = "completed" =>
                 k \in doc.ids /\ (d.text[k] = doc.text[k] \/ k \in K)
        PROVE  doc'.status[m] = "idle" \/ m \in kept'
    <3>1. CASE UNCHANGED <<doc, approved, kept>>
      BY <2>1, <3>1
    <3>2. CASE \E s \in Suggestions :
                 doc' = Replanned(d, s) /\ kept' = K \cap Preserved(d, s)
      BY <2>2, <3>2, ReplanResets
    <3> QED BY <2>2, <3>1, <3>2 DEF ReplanFrom
  <2>3. CASE QcSkips
    BY <2>1, <2>3 DEF QcSkips
  <2>4. CASE Replan
    BY <2>2, <2>4 DEF Replan
  <2>5. ASSUME NEW n \in Ids, CanvasRuns(n)
        PROVE  FALSE
    BY <2>0, <2>1, <2>5 DEF CanvasRuns, Document
  <2>6. ASSUME NEW n \in Ids, Reviews(n)
        PROVE  doc'.status[m] = "idle" \/ m \in kept'
    <3>0. /\ MarkFailed(doc, n).ids = doc.ids /\ MarkFailed(doc, n).text = doc.text
          /\ Rerun(doc, n).ids = doc.ids /\ Rerun(doc, n).text = doc.text
          /\ Approve(doc, n).ids = doc.ids /\ Approve(doc, n).text = doc.text
      BY <2>0 DEF MarkFailed, Rerun, Approve, Document
    <3>1. CASE QcLimit(n)
      <4>1. CASE doc' = MarkFailed(doc, n)
        BY <2>1, <3>0, <4>1
      <4>2. CASE \E file \in {doc, MarkFailed(doc, n)} : ReplanFrom(file, kept)
        BY <2>2, <3>0, <4>2
      <4> QED BY <3>1, <4>1, <4>2 DEF QcLimit
    <3>2. CASE QcFails(n)
      BY <2>1, <3>2 DEF QcFails
    <3>3. CASE QcApproves(n)
      BY <2>1, <3>0, <3>3 DEF QcApproves
    <3>4. CASE QcReruns(n)
      BY <2>1, <3>0, <3>4 DEF QcReruns
    <3>5. CASE QcMerges(n)
      BY <2>0, <3>5, MergeResets DEF QcMerges
    <3>6. CASE QcReplans(n)
      <4>1. CASE ReplanFrom(doc, kept)
        BY <2>2, <4>1
      <4>2. CASE ReplanFrom(MarkFailed(Rerun(doc, n), n), kept \ {n})
        <5>1. /\ MarkFailed(Rerun(doc, n), n).ids = doc.ids
              /\ MarkFailed(Rerun(doc, n), n).text = doc.text
          BY <3>0 DEF MarkFailed
        <5> QED BY <2>2, <4>2, <5>1
      <4>3. CASE \E s \in Suggestions, keeps \in BOOLEAN :
                   ReplanFrom(Merge(doc, s, n, keeps), Decided(s, n, keeps))
        <5>1. PICK s \in Suggestions, keeps \in BOOLEAN :
                ReplanFrom(Merge(doc, s, n, keeps), Decided(s, n, keeps))
          BY <4>3
        <5> DEFINE d == Merge(doc, s, n, keeps)
        <5>2. ASSUME NEW k \in d.ids, d.status[k] = "completed"
              PROVE  k \in doc.ids /\ (d.text[k] = doc.text[k] \/ k \in Decided(s, n, keeps))
          <6>1. k \in Ids /\ d.ids = s.ids /\ d.text = s.text
            BY CanvasAssumption DEF Merge, Suggestion
          <6>2. k \in Retained(doc, s, n, keeps)
            BY <5>2, <6>1 DEF Merge
          <6>3. CASE keeps /\ k = n
            BY <6>1, <6>2, <6>3, RetainedNodes DEF Decided
          <6>4. CASE ~(keeps /\ k = n)
            BY <6>1, <6>2, <6>4, RetainedNodes
          <6> QED BY <6>3, <6>4
        <5> HIDE DEF d
        <5> QED BY <2>2, <5>1, <5>2 DEF d
      <4> QED BY <3>6, <4>1, <4>2, <4>3 DEF QcReplans
    <3> QED BY <2>6, <3>1, <3>2, <3>3, <3>4, <3>5, <3>6 DEF Reviews
  <2> QED BY <2>3, <2>4, <2>5, <2>6 DEF Next
<1> QED BY <1>1, InvHolds, PTL DEF Spec, ChangeResetsDownstream
=============================================================================
