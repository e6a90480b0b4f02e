----------------------------- MODULE PayoutPages -----------------------------
(***************************************************************************)
(* The pages that drive Settlement: the merchant app's Settlement page, one*)
(* open per member, and the operators' queue (MerchantSettlementsPanel), of*)
(* which one is open.  A page shows the requests as they were when it was  *)
(* last loaded; the buttons they had then call the routes of Settlement.   *)
(* A page's mark of being busy is one value: whatever call ends clears it, *)
(* and only the request form and the button of the row it names obey it.   *)
(***************************************************************************)
EXTENDS Settlement

ASSUME PagesAssumption == "panel" \notin Members

VARIABLES
    pages,   \* [shown, busy, due]: rows with buttons; what the page waits for; a list to load
    caller,  \* the page that waits for the handler of a worker
    slipped  \* history: the routes are called past the pages, or a page was let to
             \* send again what was being served

pageVars == <<pages, caller, slipped>>

Panel == "panel"
Nothing == "nothing"
NoPage == "no page"
\* The rows with buttons: for the operator what is to be executed, for an org_admin
\* what is to be decided.
Executable == {r \in Requests : row[r].status \in {"approved", "failed"}}
Decidable(m) == {r \in Requests : m \in Admins /\ row[r].status = "pending"}
Buttons(p) == IF p = Panel THEN Executable ELSE Decidable(p)
Fresh(p) == [shown |-> Buttons(p), busy |-> Nothing, due |-> FALSE]

PagesInit ==
    /\ pages = [p \in Members \cup {Panel} |-> Fresh(p)]
    /\ caller = [w \in Workers |-> NoPage] /\ slipped \in BOOLEAN

\* An error message: the list is not loaded again.
Told(p) == pages' = [pages EXCEPT ![p].busy = Nothing]
\* Success: the list is loaded again.  A member's page waits for it, the panel does not.
Done(p) == pages' = [pages EXCEPT ![p].due = TRUE, ![p].busy = IF p = Panel THEN Nothing ELSE @]

\* A press is served by worker w, at once or for a while.
Pressed(w, p, mark) ==
    IF worker'[w] = Idle THEN Done(p) /\ UNCHANGED caller
    ELSE /\ pages' = [pages EXCEPT ![p].busy = mark]
         /\ caller' = [caller EXCEPT ![w] = p]
Refused(p) == Told(p) /\ UNCHANGED <<ledger, row, worker, faults, caller>>

-----------------------------------------------------------------------------
\* load, answered or failing; the caller of the last press is done.
Load(p) ==
    /\ pages[p].due
    /\ \E seen \in {pages[p].shown, Buttons(p)} :
          pages' = [pages EXCEPT ![p] = [shown |-> seen, due |-> FALSE,
                                         busy |-> IF p = Panel THEN @.busy ELSE Nothing]]
    /\ UNCHANGED <<ledger, row, worker, faults, caller, slipped>>

\* A page that is opened again knows nothing of the calls it made before.
Open(p) ==
    /\ pages' = [pages EXCEPT ![p] = Fresh(p)]
    /\ caller' = [w \in Workers |-> IF caller[w] = p THEN NoPage ELSE caller[w]]
    /\ slipped' = (slipped \/ caller' # caller)
    /\ UNCHANGED <<ledger, row, worker, faults>>

AnswerLost(w) ==
    /\ caller[w] # NoPage /\ Told(caller[w])
    /\ caller' = [caller EXCEPT ![w] = NoPage] /\ slipped' = TRUE
    /\ UNCHANGED <<ledger, row, worker, faults>>

FormEnabled(m) == pages[m].busy = Nothing
HandleRequest(w, m, r) ==
    /\ FormEnabled(m)
    /\ Request(w, m, r) /\ Pressed(w, m, "form") /\ UNCHANGED slipped

\* act: the buttons of a pending row, which are not disabled while the page is busy.
Act(w, m, r) ==
    /\ r \in pages[m].shown
    /\ \/ Approve(w, m, r) /\ Pressed(w, m, "act")
       \/ Reject(m, r) /\ Done(m) /\ UNCHANGED caller
       \/ row[r].status # "pending" /\ Refused(m)
    /\ slipped' = (slipped \/ \E v \in Workers : worker[v].pc = "approve" /\ worker[v].req = r)

\* Mutant: the panel forgets which request it waits for.
ExecuteUnmarked(w, r) ==
    /\ r \in pages[Panel].shown /\ pages[Panel].busy # r
    /\ \/ Execute(w, r) /\ Pressed(w, Panel, Nothing)
       \/ r \notin Executable /\ Refused(Panel)
    /\ slipped' = (slipped \/ \E v \in Workers : caller[v] = Panel /\ worker[v].req # r)

\* The panel's execute.  Pressing another row moves the mark away from this one.
ExecutePressed(w, r) ==
    /\ r \in pages[Panel].shown /\ pages[Panel].busy # r
    /\ \/ Execute(w, r) /\ Pressed(w, Panel, r)
       \/ r \notin Executable /\ Refused(Panel)
    /\ slipped' = (slipped \/ \E v \in Workers : caller[v] = Panel /\ worker[v].req # r)

\* A handler goes on; when it ends its page hears of it.
Serve(w) ==
    /\ Step(w) /\ UNCHANGED slipped
    /\ IF worker'[w] = Idle /\ caller[w] # NoPage
       THEN /\ caller' = [caller EXCEPT ![w] = NoPage]
            /\ IF worker[w].pc = "fail" THEN Told(caller[w]) ELSE Done(caller[w])
       ELSE UNCHANGED <<pages, caller>>

Paging ==
    \/ \E p \in Members \cup {Panel} : Load(p) \/ Open(p)
    \/ \E w \in Workers :
          \/ Serve(w) \/ AnswerLost(w)
          \/ \E r \in Requests :
                ExecutePressed(w, r) \/ \E m \in Members : HandleRequest(w, m, r) \/ Act(w, m, r)

PagedSpec == Init /\ PagesInit /\ [][Paging /\ Trace]_<<vars, pageVars>>

-----------------------------------------------------------------------------
\* Whatever their pages show and however often members and the operator press, a
\* payout by bank is paid once, unless a fault hit the server or one of four things
\* happened to a page with a call under way: it was opened again, its answer was
\* lost, a decision on the same row was pressed twice, or the operator pressed
\* another row of the panel meanwhile (MerchantSettlementsPanel.execute,
\* Settlement.act).
PressedOnce ==
    ~onchain /\ faults = 0 /\ ~slipped =>
       \A r \in Requests : out[r] <= Positive(Amount[r])

\* The table and the payouts agree (PaidOnce), and the pages do not make a payout
\* twice on their own (PressedOnce).
PaidAsPressed == PaidOnce /\ PressedOnce
=============================================================================
