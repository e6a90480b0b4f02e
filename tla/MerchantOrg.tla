----------------------------- MODULE MerchantOrg -----------------------------
(***************************************************************************)
(* A merchant's organisation: the owner's registration with a signed nonce *)
(* (merchants.routes, authNonce), the owner's seat (merchantOwnerBootstrap)*)
(* and how seats are invited, claimed and used (memberAuth), the stores    *)
(* (storeService), and what the platform's operators do to a merchant.     *)
(* One action per await of POST /register and of the claim; a page is the  *)
(* merchant app's Login page in one browser tab, an operator's form, or a  *)
(* colleague who was given an invite.                                      *)
(***************************************************************************)
EXTENDS Integers, FiniteSets, TLC

CONSTANTS Pages,        \* Login pages and operators' forms
          Desk,         \* the operators' forms among them
          Patient,      \* pages whose user tries again after an error
          Colleagues,   \* people an owner may invite
          WalletOf,     \* page -> the wallet its user connects or enters
          Spare,        \* other wallets an operator may enter
          EmailOf,      \* page or colleague -> email
          Codes, Countries, HO, Home,
          MaxSeats, OrgFaults,
          Nobody

People == Pages \cup Colleagues
Wallets == {WalletOf[t] : t \in Pages} \cup Spare

VARIABLES nonce,       \* wallet -> page whose nonce is stored
          page,        \* person -> [pc, merchant, seat, boot]
          merchants,   \* the table: id -> [wallet, active, settles, payout]
          accepted,    \* merchant_accepted_currencies
          stores,      \* <<merchant, code>> -> [country, active]
          seats,       \* merchant_members: id -> [merchant, email, role, status, scope]
          passkeys,    \* merchant_member_credentials: person -> seats it holds a passkey of
          token,       \* person -> the member JWT: [seat, merchant, role]
          trusted,     \* on chain: "treasury" and "vault" -> wallets
          done,        \* history: merchants whose registration was answered with 201
          crossed,     \* history: seats and merchants two requests raced for
          orgFaults

orgTables == <<merchants, accepted, stores, seats, passkeys>>
orgVars == <<nonce, page, orgTables, token, trusted, done, crossed, orgFaults>>

AtForm == [pc |-> "form", merchant |-> 0, seat |-> 0, boot |-> FALSE]
NoToken == [seat |-> 0, merchant |-> 0, role |-> "none"]

OrgInit ==
    /\ nonce = [w \in Wallets |-> Nobody]
    /\ page = [p \in People |-> IF p \in Pages THEN AtForm ELSE [AtForm EXCEPT !.pc = "none"]]
    /\ merchants = <<>> /\ accepted = {} /\ stores = <<>> /\ seats = <<>>
    /\ passkeys = [p \in People |-> {}] /\ token = [p \in People |-> NoToken]
    /\ trusted = [c \in {"treasury", "vault"} |-> {}]
    /\ done = {} /\ crossed = {} /\ orgFaults = {}

OrgFault(kind) == kind \in OrgFaults \ orgFaults /\ orgFaults' = orgFaults \cup {kind}
At(p, pc) == page[p].pc = pc
Turn(p, pc) == page' = [page EXCEPT ![p].pc = pc]
\* The page shows the error; its user fills in the form again or leaves.
Refuse(p) == page' = [page EXCEPT ![p] =
    [AtForm EXCEPT !.pc = IF p \in Patient THEN "form" ELSE "gone"]]
MerchantOf(w) == {m \in DOMAIN merchants : merchants[m].wallet = w}
Add(f, k, v) == [x \in DOMAIN f \cup {k} |-> IF x = k THEN v ELSE f[x]]

-----------------------------------------------------------------------------
(* The owner's registration.                                               *)

\* One nonce per wallet; the last one issued counts.
IssueNonce(w, t) == nonce' = [nonce EXCEPT ![w] = t]

\* handleRegister: the form is complete, the wallet signs what it was sent.
GetNonce(t) ==
    /\ At(t, "form") /\ t \notin Desk
    /\ IssueNonce(WalletOf[t], t) /\ Turn(t, "signed")
    /\ UNCHANGED <<orgTables, token, trusted, done, orgFaults>>

\* verifyAndConsume: a signature of another nonce leaves the stored one.
VerifyAndConsume(t) ==
    /\ nonce[WalletOf[t]] = t
    /\ nonce' = [nonce EXCEPT ![WalletOf[t]] = Nobody]

PostRegister(t) ==
    LET known == MerchantOf(WalletOf[t]) IN
    /\ At(t, "signed")
    /\ VerifyAndConsume(t)
    /\ page' = [page EXCEPT ![t] = IF known = {} THEN [@ EXCEPT !.pc = "insert"]
                  ELSE [@ EXCEPT !.pc = "seat", !.merchant = CHOOSE m \in known : TRUE, !.boot = TRUE]]
    /\ UNCHANGED <<orgTables, token, trusted, done, orgFaults>>

BadSignature(t) ==
    /\ At(t, "signed") /\ nonce[WalletOf[t]] # t
    /\ Refuse(t)
    /\ UNCHANGED <<nonce, orgTables, token, trusted, done, orgFaults>>

\* The operators' POST /merchants inserts without looking first.
OpenForm(t) ==
    /\ At(t, "form") /\ t \in Desk
    /\ Turn(t, "insert")
    /\ UNCHANGED <<nonce, orgTables, token, trusted, done, orgFaults>>

\* wallet_address is unique: the second of two inserts is refused with 409.
InsertMerchant(t, settles) ==
    LET m == Cardinality(DOMAIN merchants) + 1 IN
    /\ At(t, "insert")
    /\ IF MerchantOf(WalletOf[t]) # {}
       THEN Refuse(t) /\ UNCHANGED merchants
       ELSE /\ merchants' = Add(merchants, m, [wallet |-> WalletOf[t], active |-> TRUE, settles |-> settles,
                                  payout |-> IF settles = "ONCHAIN" THEN "USDC" ELSE "home"])
            /\ page' = [page EXCEPT ![t].pc = "currency", ![t].merchant = m]
    /\ UNCHANGED <<nonce, accepted, stores, seats, passkeys, token, trusted, done, orgFaults>>

\* seedAcceptedCurrency logs a failure.
SeedCurrency(t) ==
    /\ At(t, "currency") /\ Turn(t, "office")
    /\ \/ accepted' = accepted \cup {<<page[t].merchant, "home">>} /\ UNCHANGED orgFaults
       \/ OrgFault("db") /\ UNCHANGED accepted
    /\ UNCHANGED <<nonce, merchants, stores, seats, passkeys, token, trusted, done>>

\* ensureHeadOfficeStore, which the lists of stores and of corridors call as well.
EnsureHeadOffice(m) ==
    IF <<m, HO>> \in DOMAIN stores THEN stores
    ELSE Add(stores, <<m, HO>>, [country |-> Home, active |-> TRUE])

HeadOffice(t) ==
    /\ At(t, "office")
    /\ stores' = EnsureHeadOffice(page[t].merchant) /\ Turn(t, "seat")
    /\ UNCHANGED <<nonce, merchants, accepted, seats, passkeys, token, trusted, done, orgFaults>>

\* ensureOwnerOrgAdminSeat: an open invite before an active seat, the oldest first.
Owners(m) == {s \in DOMAIN seats : seats[s].merchant = m /\ seats[s].role = "org_admin"}
Oldest(S) == CHOOSE s \in S : \A u \in S : s <= u
OwnerSeat(m) ==
    LET open == {s \in Owners(m) : seats[s].status = "invited"} IN
    Oldest(IF open # {} THEN open ELSE Owners(m))

\* Mutant: a known wallet is told that it is registered, whether or not it has an owner.
ReadSeatKnown(t) ==
    LET m == page[t].merchant IN
    /\ At(t, "seat")
    /\ IF page[t].boot THEN Refuse(t)
       ELSE IF Owners(m) = {} THEN Turn(t, "seat_insert")
       ELSE page' = [page EXCEPT ![t].seat = OwnerSeat(m), ![t].pc = "chain"]
    /\ UNCHANGED <<nonce, orgTables, token, trusted, done, orgFaults>>

\* A wallet whose owner already has a passkey is sent to sign in: 409.
ReadSeat(t) ==
    LET m == page[t].merchant IN
    /\ At(t, "seat")
    /\ IF Owners(m) = {} THEN Turn(t, "seat_insert")
       ELSE page' = [page EXCEPT ![t].seat = OwnerSeat(m), ![t].pc =
              IF ~page[t].boot THEN "chain"
              ELSE IF seats[OwnerSeat(m)].status = "active" THEN "sign_in" ELSE "answer"]
    /\ UNCHANGED <<nonce, orgTables, token, trusted, done, orgFaults>>

TakenEmail(m, email, s) == \E u \in DOMAIN seats : u # s /\ seats[u].merchant = m /\ seats[u].email = email

InsertSeat(t) ==
    LET m == page[t].merchant
        s == Cardinality(DOMAIN seats) + 1
    IN
    /\ At(t, "seat_insert")
    /\ IF TakenEmail(m, EmailOf[t], 0)
       THEN Refuse(t) /\ UNCHANGED seats
       ELSE /\ s <= MaxSeats
            /\ seats' = Add(seats, s, [merchant |-> m, email |-> EmailOf[t], role |-> "org_admin",
                                       status |-> "invited", scope |-> "all", by |-> "register"])
            /\ page' = [page EXCEPT ![t].seat = s, ![t].pc = IF page[t].boot THEN "answer" ELSE "chain"]
    /\ UNCHANGED <<nonce, merchants, accepted, stores, passkeys, token, trusted, done, orgFaults>>

\* registerMerchantOnchain: both calls are made, each may fail without an error.
Trust(w, ok) == trusted' = [c \in DOMAIN trusted |-> trusted[c] \cup (IF c \in ok THEN {w} ELSE {})]
TrustWallet(w) ==
    \/ Trust(w, DOMAIN trusted) /\ UNCHANGED orgFaults
    \/ OrgFault("chain") /\ \E ok \in {{}, {"treasury"}, {"vault"}} : Trust(w, ok)
RegisterMerchantOnchain(t) ==
    /\ At(t, "chain") /\ Turn(t, "answer") /\ TrustWallet(WalletOf[t])
    /\ UNCHANGED <<nonce, orgTables, token, done>>

\* The page goes on to claim the seat it is given.
AnswerRegister(t) ==
    /\ At(t, "answer")
    /\ done' = IF page[t].boot THEN done ELSE done \cup {page[t].merchant}
    /\ \/ Turn(t, IF t \in Desk THEN "gone" ELSE "claim") /\ UNCHANGED orgFaults
       \/ OrgFault("answer") /\ Refuse(t)
    /\ UNCHANGED <<nonce, orgTables, token, trusted>>

\* A query of the handler throws: 500, and what was written stays.
RegisterThrows(t) ==
    /\ page[t].pc \in {"insert", "office", "seat", "seat_insert"} /\ OrgFault("throw")
    /\ Refuse(t)
    /\ UNCHANGED <<nonce, orgTables, token, trusted, done>>

-----------------------------------------------------------------------------
(* Seats.                                                                  *)

\* POST /claim reads the status of the seat ...
ReadClaim(p) ==
    /\ At(p, "claim")
    /\ IF seats[page[p].seat].status = "invited" THEN Turn(p, "verify") ELSE Refuse(p)
    /\ UNCHANGED <<nonce, orgTables, token, trusted, done, orgFaults>>

\* Mutant: the passkey is stored outside the transaction and its failure is ignored.
CommitClaimLoose(p) ==
    LET s == page[p].seat IN
    /\ At(p, "verify") /\ ~TakenEmail(seats[s].merchant, EmailOf[p], s)
    /\ seats' = [seats EXCEPT ![s].status = "active", ![s].email = EmailOf[p]]
    /\ \/ passkeys' = [passkeys EXCEPT ![p] = @ \cup {s}] /\ UNCHANGED orgFaults
       \/ OrgFault("throw") /\ UNCHANGED passkeys
    /\ token' = [token EXCEPT ![p] = [seat |-> s, merchant |-> seats[s].merchant, role |-> seats[s].role]]
    /\ Turn(p, "in")
    /\ UNCHANGED <<nonce, merchants, accepted, stores, trusted, done>>

\* ... and, after the ceremony, activates it and stores the passkey in one
\* transaction that does not look at the status again.  The email is the claimant's.
CommitClaim(p) ==
    LET s == page[p].seat IN
    /\ At(p, "verify")
    /\ \/ /\ ~TakenEmail(seats[s].merchant, EmailOf[p], s)
          /\ seats' = [seats EXCEPT ![s].status = "active", ![s].email = EmailOf[p]]
          /\ passkeys' = [passkeys EXCEPT ![p] = @ \cup {s}]
          /\ token' = [token EXCEPT ![p] = [seat |-> s, merchant |-> seats[s].merchant, role |-> seats[s].role]]
          /\ Turn(p, "in") /\ UNCHANGED orgFaults
       \/ TakenEmail(seats[s].merchant, EmailOf[p], s) /\ Refuse(p) /\ UNCHANGED <<seats, passkeys, token, orgFaults>>
       \/ OrgFault("throw") /\ Refuse(p) /\ UNCHANGED <<seats, passkeys, token>>
    /\ UNCHANGED <<nonce, merchants, accepted, stores, trusted, done>>

\* The owner's device holds the passkeys of all its tabs.
Device(p) == {q \in People : q = p \/ ({p, q} \subseteq Pages \ Desk /\ WalletOf[p] = WalletOf[q])}
MemberLogin(p) ==
    /\ page[p].pc \in {"sign_in", "gone"} /\ p \notin Desk
    /\ \E q \in Device(p) : \E s \in passkeys[q] :
          /\ seats[s].status # "disabled"
          /\ token' = [token EXCEPT ![p] = [seat |-> s, merchant |-> seats[s].merchant, role |-> seats[s].role]]
    /\ Turn(p, "in")
    /\ UNCHANGED <<nonce, orgTables, trusted, done, orgFaults>>

RequireOrgAdmin(p) == At(p, "in") /\ token[p].role = "org_admin"

\* A second invite of an email answers 409 with the seat it has.
Invite(p, c, role, scope) ==
    LET m == token[p].merchant
        s == Cardinality(DOMAIN seats) + 1
    IN
    /\ RequireOrgAdmin(p) /\ At(c, "none") /\ s <= MaxSeats
    /\ scope = "all" \/ (<<m, scope>> \in DOMAIN stores /\ stores[<<m, scope>>].active)
    /\ ~TakenEmail(m, EmailOf[c], 0)
    /\ seats' = Add(seats, s, [merchant |-> m, email |-> EmailOf[c], role |-> role,
                               status |-> "invited", scope |-> scope, by |-> "invite"])
    /\ page' = [page EXCEPT ![c] = [AtForm EXCEPT !.pc = "claim", !.seat = s]]
    /\ UNCHANGED <<nonce, merchants, accepted, stores, passkeys, token, trusted, done, orgFaults>>

-----------------------------------------------------------------------------
(* Stores and profile, by an org_admin.                                    *)

ListMerchantStores(p) ==
    /\ At(p, "in") /\ stores' = EnsureHeadOffice(token[p].merchant)
    /\ UNCHANGED <<nonce, page, merchants, accepted, seats, passkeys, token, trusted, done, orgFaults>>

CreateMerchantStore(p, code, c) ==
    /\ RequireOrgAdmin(p) /\ <<token[p].merchant, code>> \notin DOMAIN stores
    /\ stores' = Add(stores, <<token[p].merchant, code>>, [country |-> c, active |-> TRUE])
    /\ UNCHANGED <<nonce, page, merchants, accepted, seats, passkeys, token, trusted, done, orgFaults>>

UpdateMerchantStore(p, code, c, active) ==
    /\ RequireOrgAdmin(p) /\ <<token[p].merchant, code>> \in DOMAIN stores
    /\ stores' = [stores EXCEPT ![<<token[p].merchant, code>>] = [country |-> c, active |-> active]]
    /\ UNCHANGED <<nonce, page, merchants, accepted, seats, passkeys, token, trusted, done, orgFaults>>

\* PATCH /me: the payout currency follows the way of settling.
Settles(m, how) ==
    merchants' = [merchants EXCEPT ![m].settles = how, ![m].payout = IF how = "ONCHAIN" THEN "USDC" ELSE "home"]

PatchProfile(p, how) ==
    /\ RequireOrgAdmin(p) /\ Settles(token[p].merchant, how)
    /\ UNCHANGED <<nonce, page, accepted, stores, seats, passkeys, token, trusted, done, orgFaults>>

\* The older route, by the wallet that signed in, whatever seats there are.
PatchByOwner(w, how) ==
    /\ \E m \in MerchantOf(w) : Settles(m, how)
    /\ UNCHANGED <<nonce, page, accepted, stores, seats, passkeys, token, trusted, done, orgFaults>>

\* The pages: what they insist on before they send.
SaveProfile(p, how) == At(p, "in") /\ PatchProfile(p, how)
AddStore(p, code, c) == At(p, "in") /\ code \in Codes \ {HO} /\ CreateMerchantStore(p, code, c)
ToggleStore(p, code) ==
    /\ At(p, "in") /\ <<token[p].merchant, code>> \in DOMAIN stores
    /\ UpdateMerchantStore(p, code, stores[<<token[p].merchant, code>>].country, FALSE)
HandleInvite(p, c, role, scope) == At(p, "in") /\ Invite(p, c, role, scope)

-----------------------------------------------------------------------------
(* The platform's operators.                                               *)

\* POST /:id/whitelist, the repair of a registration the chain did not see.
Whitelist(m) ==
    /\ TrustWallet(merchants[m].wallet)
    /\ UNCHANGED <<nonce, page, orgTables, token, done>>

\* PATCH /:id: any of the columns, the others stay as they are.
PatchMerchant(m, w, active) ==
    /\ MerchantOf(w) \subseteq {m}
    /\ merchants' = [merchants EXCEPT ![m].wallet = w, ![m].active = active]
    /\ UNCHANGED <<nonce, page, accepted, stores, seats, passkeys, token, trusted, done, orgFaults>>

AcceptCurrency(m, cur, on) ==
    /\ accepted' = IF on THEN accepted \cup {<<m, cur>>} ELSE accepted \ {<<m, cur>>}
    /\ UNCHANGED <<nonce, page, merchants, stores, seats, passkeys, token, trusted, done, orgFaults>>

\* POST /auth/login and GET /auth/role: an inactive merchant is refused.
WalletRole(w) ==
    LET known == MerchantOf(w) IN
    IF known = {} THEN "none" ELSE IF \A m \in known : merchants[m].active THEN "merchant" ELSE "refused"

-----------------------------------------------------------------------------
Registering(t) ==
    \/ GetNonce(t) \/ PostRegister(t) \/ BadSignature(t) \/ OpenForm(t)
    \/ \E settles \in {"FIAT", "ONCHAIN"} : InsertMerchant(t, settles)
    \/ SeedCurrency(t) \/ HeadOffice(t) \/ ReadSeat(t) \/ InsertSeat(t)
    \/ RegisterMerchantOnchain(t) \/ AnswerRegister(t) \/ RegisterThrows(t)

Claiming(p) == ReadClaim(p) \/ CommitClaim(p) \/ MemberLogin(p)

Running(p) ==
    \/ \E c \in Colleagues, role \in {"org_admin", "cashier"}, scope \in Codes \cup {"all"} :
          HandleInvite(p, c, role, scope)
    \/ ListMerchantStores(p)
    \/ \E code \in Codes, c \in Countries :
          AddStore(p, code, c) \/ ToggleStore(p, code) \/ UpdateMerchantStore(p, code, c, TRUE)
    \/ \E how \in {"FIAT", "ONCHAIN"} : SaveProfile(p, how)

Operating(m) ==
    \/ Whitelist(m)
    \/ \E w \in Wallets, active \in BOOLEAN : PatchMerchant(m, w, active)
    \/ \E how \in {"FIAT", "ONCHAIN"} : PatchByOwner(merchants[m].wallet, how)
    \/ \E on \in BOOLEAN : AcceptCurrency(m, "home", on)

\* Two requests between their read and their write of the same seat or merchant.
Racing ==
    {<<"seat", page[t].merchant>> : t \in {p \in People : At(p, "seat_insert")
        /\ \E q \in People \ {p} : At(q, "seat_insert") /\ page[q].merchant = page[p].merchant}}
    \cup
    {<<"claim", page[t].seat>> : t \in {p \in People : At(p, "verify")
        /\ \E q \in People \ {p} : At(q, "verify") /\ page[q].seat = page[p].seat}}
Note == crossed' = crossed \cup Racing'

-----------------------------------------------------------------------------
(* The whole of it: registrations, members and operators.                  *)

\* The chain was down and still is.
ChainStillDown ==
    /\ "chain" \in orgFaults
    /\ \E ok \in {{}, {"treasury"}, {"vault"}} :
          \/ \E t \in Pages : At(t, "chain") /\ Turn(t, "answer") /\ Trust(WalletOf[t], ok)
          \/ \E m \in DOMAIN merchants : UNCHANGED page /\ Trust(merchants[m].wallet, ok)
    /\ UNCHANGED <<nonce, orgTables, token, done, orgFaults>>

\* What fails once may fail again.
OrgFaultsAgain ==
    /\ orgFaults' \in SUBSET orgFaults
    /\ "chain" \in orgFaults => "chain" \in orgFaults'
    /\ UNCHANGED <<nonce, page, orgTables, token, trusted, done, crossed>>

OrgNext ==
    \/ /\ \/ \E t \in Pages : Registering(t)
          \/ \E p \in People : Claiming(p) \/ Running(p)
          \/ \E m \in DOMAIN merchants : Operating(m)
          \/ ChainStillDown
       /\ Note
    \/ OrgFaultsAgain
OrgSpec == OrgInit /\ [][OrgNext]_orgVars

-----------------------------------------------------------------------------
Holders(s) == {p \in People : s \in passkeys[p]}

\* Whatever registrations, retries, invites and claims overlap or break off, the
\* organisation stays usable and its seats stay apart: a seat is active exactly
\* when somebody has its passkey, and only one person unless two claims of it
\* overlapped; a registration makes one owner's seat per merchant unless two
\* overlapped; a wallet signs in as the one merchant that has it; whoever is signed in
\* holds a passkey of an active seat of that merchant in that role; and a registration that was answered left an owner's
\* seat, a head office and, unless the chain failed, a trusted wallet.
OrgSound ==
    /\ \A s \in DOMAIN seats :
          /\ (seats[s].status = "active") <=> (Holders(s) # {})
          /\ <<"claim", s>> \notin crossed => Cardinality(Holders(s)) <= 1
    /\ \A m \in DOMAIN merchants :
          /\ WalletRole(merchants[m].wallet) = IF merchants[m].active THEN "merchant" ELSE "refused"
          /\ <<"seat", m>> \notin crossed => Cardinality({s \in Owners(m) : seats[s].by = "register"}) <= 1
    /\ \A p \in People : At(p, "in") =>
          /\ token[p].seat \in DOMAIN seats /\ \E q \in Device(p) : token[p].seat \in passkeys[q]
          /\ seats[token[p].seat].merchant = token[p].merchant /\ seats[token[p].seat].role = token[p].role
    /\ \A m \in done :
          /\ Owners(m) # {} /\ <<m, HO>> \in DOMAIN stores
          /\ "chain" \notin orgFaults => \E w \in Wallets : \A c \in DOMAIN trusted : w \in trusted[c]

\* An owner who goes on trying is let in, though answers get lost, steps fail and a
\* second tab or an operator registers the same wallet, unless two registrations
\* raced for the owner's seat (then each may hold an email the other needs).
OwnerSeated == \A t \in Patient \ Desk : At(t, "signed") ~> (At(t, "in") \/ crossed # {})
=============================================================================
