------------------------------- MODULE Views -------------------------------
(***************************************************************************)
(* A client's stores, with their writers, and one reader of the API: a     *)
(* search, an export or a live feed.  Readers only read, so two of them do *)
(* not meet; the scenario says which one there is.                         *)
(***************************************************************************)
EXTENDS Search, Feeds

vars == <<stores, search, feeds>>

ViewsInit == Init /\ SearchInit /\ FeedsInit

WritersStep == StoresNext /\ Watch /\ UNCHANGED <<search, export, live, sent, edges, earlier>>

SearchStep ==
  /\ \/ SearchNext /\ UNCHANGED stores
     \/ SearchError
  /\ UNCHANGED feeds

ExportStep == (BeginExport \/ ExportNext) /\ UNCHANGED <<stores, search>>

LiveStep ==
  LiveNext /\ UNCHANGED <<ukg, objects, sem, storing, erase, search>>

Next == WritersStep \/ SearchStep \/ ExportStep \/ LiveStep

\* The loop's timer ticks, and a row that was found is sent.
Fairness == WF_vars((Poll \/ SendRow) /\ UNCHANGED <<stores, search>>)

Spec == ViewsInit /\ [][Next]_vars /\ Fairness

\* The type invariant of the stores, of a search and of the feeds.
ViewsTypeOK == StoresTypeOK /\ SearchTypeOK /\ FeedsTypeOK
=============================================================================
