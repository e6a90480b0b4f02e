---------------------------- MODULE MCSettlement ----------------------------
(***************************************************************************)
(* A merchant's side of the platform, in eight scenarios chosen in the     *)
(* initial state.  "payouts": a request and beside it one of three others: *)
(* one that with it exceeds what the merchant holds, one in a currency that*)
(* is not its country's, or one for a negative amount.                     *)
(* "pages": the same, pressed on the pages of the members and the operator,*)
(* by bank.  "opening": an owner registers in two tabs, beside an operator *)
(* who enters the same wallet, and steps fail.                             *)
(* "organisation": the owner invites a colleague and runs stores and       *)
(* profile, beside the operators.  "syncs": two catalogue syncs while the  *)
(* supplier's list changes.  "by hand": one sync beside edits.  "till":    *)
(* the point of sale beside edits.  "change": its change dialog, likewise. *)
(***************************************************************************)
EXTENDS PayoutPages, MerchantOrg, Till

CONSTANTS r1, r2, r3, r4, MaxBeside, tab, tab2, desk, ann, i1, s1

VARIABLE scenario

MCAmount == [r \in Requests |-> CASE r = r2 -> 1 [] r = r4 -> -1 [] OTHER -> 2]
MCCurrencyOf == [r \in Requests |-> IF r = r3 THEN "USD" ELSE "ZAR"]
MCClaim0 == [c \in Currencies |-> 2]
MCOthers == [c \in Currencies |-> 1]
MCWalletOf == [p \in Pages |-> "wallet"]
MCEmailOf == [p \in Pages \cup Colleagues |-> 
    IF p \in {tab, desk} THEN "owner" ELSE IF p = tab2 THEN "second" ELSE "colleague"]

Offer(fixed, base, lo, hi, country, live) ==
    [fixed |-> fixed, base |-> base, min |-> lo, max |-> hi, country |-> country, live |-> live]
MCOffers == {Offer(2, 0, 0, 0, "ZA", TRUE), Offer(0, 1, 1, 2, "ZW", TRUE), Offer(0, 1, 0, 0, "ZA", FALSE)}
MCFixture == [i \in Items |-> Offer(2, 0, 0, 0, "ZA", TRUE)]
MCStoreCurrency == [s \in Stores |-> IF s = s1 THEN "ZAR" ELSE "ZWG"]

MCInit ==
    /\ Init /\ PagesInit /\ OrgInit /\ CatInit /\ TillInit
    /\ scenario \in {"payouts", "pages", "opening", "organisation", "syncs", "by hand", "till", "change"}
    /\ scenario # "payouts" => ~onchain
    /\ slipped = (scenario # "pages")
    /\ feed = [i \in Items |-> IF i = i1 THEN Offer(2, 0, 0, 0, "ZA", TRUE) ELSE Gone]
    /\ IF scenario = "syncs" THEN url # "none" ELSE url = "live"

\* The second tab's owner does not come back after an error.
Opening == \E p \in Pages : Registering(p) \/ Claiming(p)

Organisation ==
    /\ \/ Registering(tab) \/ Claiming(tab) \/ Running(tab)
       \/ \E p \in Colleagues : Claiming(p)
       \/ \E m \in DOMAIN merchants : Operating(m)
    /\ UNCHANGED orgFaults

\* The edits that change what a till shows; by hand, products are made before it opens.
Restocking ==
    \/ ~till.open /\ \E n \in Majors, cur \in Corridors :
          \/ CreateProduct([NoBody EXCEPT !.unit = n], cur)
          \/ CreateProduct([NoBody EXCEPT !.fixed = "no", !.min = 1, !.max = n], cur)
    \/ \E i \in Items, n \in Majors : AdminCreate(i, n)
    \/ \E r \in DOMAIN products :
          \/ \E cur \in Corridors : SetCurrency(r, cur)
          \/ ToggleActive(r, "no")
          \/ \E n \in Majors : PatchByWallet(r, n)

\* A product in rand, and a change of it beside the open dialog.
Revising ==
    \/ products = <<>> /\ \E n \in Majors : CreateProduct([NoBody EXCEPT !.unit = n], "ZAR")
    \/ dialog.open /\ \E r \in DOMAIN products :
          (\E cur \in Corridors : SetCurrency(r, cur)) \/ ToggleActive(r, "no")

\* The second load comes alone and under a filled cart, and not twice under the same.
Reloading == \E c \in calls : c.kind = "reload"
Apart == Reloading' => Cardinality(calls') = 1 /\ Lines # {} /\ till.aged = {}

Made == {r \in Requests : row[r].status # "none"}

MCNext ==
    /\ UNCHANGED scenario
    /\ scenario # "pages" => UNCHANGED pageVars
    /\ \/ scenario = "payouts" /\ Next /\ UNCHANGED <<orgVars, catVars, tillVars>>
       \/ scenario = "pages" /\ ~slipped /\ Paging /\ faults' = 0 /\ Trace /\ UNCHANGED <<orgVars, catVars, tillVars>>
       \/ scenario = "opening" /\ Opening /\ Note /\ UNCHANGED <<vars, catVars, tillVars>>
       \/ scenario = "organisation" /\ Organisation /\ Note /\ UNCHANGED <<vars, catVars, tillVars>>
       \/ /\ scenario = "syncs" /\ (Supplying \/ \E s \in Syncs : Syncing(s))
          /\ UNCHANGED <<vars, orgVars, tillVars>>
       \/ /\ scenario = "by hand" /\ (Supplying \/ Editing \/ Syncing(CHOOSE s \in Syncs : TRUE))
          /\ edits' <= 1
          /\ UNCHANGED <<vars, orgVars, tillVars>>
       \/ scenario = "till" /\ Restocking /\ UNCHANGED <<vars, orgVars, tillVars>>
       \/ scenario = "change" /\ Revising /\ UNCHANGED <<vars, orgVars, tillVars>>
       \/ /\ \/ scenario = "till" /\ Selling /\ Apart /\ UNCHANGED <<dialogVars, catFaults>>
             \/ scenario = "till" /\ CallLost /\ UNCHANGED dialogVars
             \/ /\ scenario = "change" /\ Browsing /\ vouchers = <<>> /\ Cardinality(calls') <= 1
                /\ Reloading' => dialog.open /\ dialog.turn = 1 /\ dialog.call = NoCall
                /\ UNCHANGED <<dialogVars, catFaults>>
             \/ scenario = "change" /\ Changing /\ UNCHANGED <<till, calls, catFaults>>
             \/ scenario = "change" /\ ChangeLost /\ UNCHANGED <<till, calls>>
          /\ UNCHANGED <<vars, orgVars, feed, published, catTables, sync, form, edits, mixed, marks>>
    /\ Cardinality(Made' \ {r1}) <= MaxBeside

allVars == <<vars, pageVars, orgVars, catVars, tillVars, scenario>>

\* The owner's own tab keeps trying, and the server answers what it is sent.
MCSpec ==
    /\ MCInit /\ [][MCNext]_allVars
    /\ \A t \in Patient :
          WF_allVars(scenario \in {"opening", "organisation"} /\ (Registering(t) \/ Claiming(t)) /\ Note
                        /\ UNCHANGED <<vars, pageVars, catVars, tillVars, scenario>>)
=============================================================================
