----------------------------- MODULE WalletPages -----------------------------
(***************************************************************************)
(* The pages of the consumer app that move money: Buy, Pay, Convert,       *)
(* Receive, Claim and TopUp, with what the server checks of the requests   *)
(* they send.  Answers to a page's reads arrive late, in any order or not  *)
(* at all, and the page applies each as it comes.  A press of a button is  *)
(* one payment from prepare to result or error; its answer may be lost     *)
(* after the money moved, and the user may press again.                    *)
(***************************************************************************)
EXTENDS Integers, FiniteSets, TLC

CONSTANTS Charges,     \* what may be scanned or picked: [id, amount, cur, mid, wants, lo, hi]
          Settle,      \* merchant -> its settlement currency
          NoMerchant,  \* the mid of a QR code without one
          Leg, Local,  \* the wallet a page is opened from ("any" or a currency), the local currency
          Targets,     \* what is typed on Pay: "phone", "tag", "member" and "outsider" are 0x addresses
          Tickets,     \* change vouchers and claim links, which are paid and then marked
          Codes,       \* top-up codes, which are marked and then paid
          Slack,       \* how far a shown price may be from the server's (0.02)
          Funds0, FxRates, MaxPresses, MaxAsked, PageFaults, MaxPageFaults

Currencies == DOMAIN Funds0
Tabs == {"buy", "pay", "convert", "receive", "claim", "topup"}

VARIABLES fx,          \* the rate between the two fiat currencies
          funds,       \* the consumer's balances
          buy,         \* Buy: [charge, quote, fetching, spend, have, seen]; seen is the balance it read
          quotes,      \* its quote requests that are under way
          asked,       \* how many it sent
          pay,         \* Pay: [to, cur, loaded]
          conv,        \* Convert: [cur, rate, have, seen]; rate is the currency the rate is for
          rates,       \* its rate requests that are under way
          voucher,     \* [id, open, link]: the voucher Receive shows and whether it was pending when
                       \* it was read; the link Claim read as pending; TopUp takes what is typed
          press,       \* page -> [pc, kind, item, amount, cur, shown, at]: shown and at are
                       \* the amount on the screen and the rate when it was prepared
          presses,     \* bound on presses
          used,        \* server: tickets redeemed
          moves,       \* history: item -> what left or reached the wallet, one record per time
          tries,       \* history: item -> how often its button was pressed
          crossed,     \* history: charges a quote of another charge was applied to, and tickets
                       \* that were presented twice at the same time or paid and never marked
          pageFaults

reads == <<buy, quotes, asked, pay, conv, rates, voucher>>
server == <<fx, funds, used>>
notes == <<moves, tries, crossed>>
pageVars == <<reads, press, presses, server, notes, pageFaults>>

NoCharge == [id |-> "none", amount |-> 0, cur |-> "ZAR", mid |-> NoMerchant, wants |-> "any", lo |-> 0, hi |-> 0]
NoQuote == [cross |-> FALSE, amount |-> 0, cur |-> "none"]
AtRest == [pc |-> "idle", kind |-> "none", item |-> "none", amount |-> 0, cur |-> "none", shown |-> 0, at |-> 0]
Opened == [charge |-> NoCharge, quote |-> NoQuote, fetching |-> FALSE, spend |-> "ZAR", have |-> FALSE, seen |-> Funds0]
NoVoucher == [id |-> "none", open |-> FALSE, link |-> "none"]
Items == {c.id : c \in Charges} \cup Targets \cup Tickets \cup Codes \cup {"conversion"}

ASSUME PagesAssumption ==
    /\ \A c \in Charges :
          /\ c \in [id : STRING, amount : Nat, cur : STRING, mid : STRING, wants : STRING, lo : Nat, hi : Nat]
          /\ c.id \notin Targets \cup Tickets \cup Codes \cup {"conversion", "none"}
    /\ \A c, d \in Charges : c.id = d.id => c = d
    /\ Targets \cap (Tickets \cup Codes) = {} /\ Tickets \cap Codes = {}
    /\ {"conversion", "none"} \cap (Targets \cup Tickets \cup Codes) = {}
    /\ FxRates \subseteq Nat \ {0} /\ Slack \in Nat

PagesInit ==
    /\ fx \in FxRates /\ funds = Funds0
    /\ buy = Opened
    /\ quotes = {} /\ asked = 0 /\ rates = {} /\ voucher = NoVoucher
    /\ pay = [to |-> "none", cur |-> "ZAR", loaded |-> FALSE]
    /\ conv = [cur |-> "ZAR", rate |-> "none", have |-> FALSE, seen |-> Funds0]
    /\ press = [p \in Tabs |-> AtRest] /\ presses = 0 /\ used = {}
    /\ moves = [i \in Items |-> {}] /\ tries = [i \in Items |-> 0] /\ crossed = {} /\ pageFaults = {}

PageFault(kind) ==
    /\ kind \in PageFaults \ pageFaults /\ Cardinality(pageFaults) < MaxPageFaults
    /\ pageFaults' = pageFaults \cup {kind}
Free(p) == press[p].pc = "idle"

-----------------------------------------------------------------------------
(* merchantCheckoutService.                                                *)

CeilDiv(a, b) == (a + b - 1) \div b
ComputePayFromCharge(c, cur) == IF cur = c.cur THEN c.amount ELSE CeilDiv(c.amount, fx)
Quotable(c, cur) == cur = c.cur \/ cur = Settle[c.mid]
QuoteMerchantCheckout(c, cur) == [cross |-> cur # c.cur, amount |-> ComputePayFromCharge(c, cur), cur |-> cur]

-----------------------------------------------------------------------------
(* Buy.                                                                    *)

\* The currency the page asks a quote in: the QR code's, the wallet's it was opened
\* from, or the merchant's.
QuoteCurrency(c, spend) ==
    IF c.wants # "any" THEN c.wants
    ELSE IF Leg = "SPEND" THEN spend ELSE IF Leg # "any" THEN Leg ELSE Settle[c.mid]

\* The effect on a new charge: the quote on the page stays until the answer comes.
\* A charge without a merchant drops the quote, not the requests under way.
AskQuote(b, c) ==
    IF c.mid = NoMerchant
    THEN /\ buy' = [b EXCEPT !.charge = c, !.quote = NoQuote]
         /\ UNCHANGED <<quotes, asked>>
    ELSE /\ asked < MaxAsked /\ asked' = asked + 1
         /\ buy' = [b EXCEPT !.charge = c, !.fetching = TRUE]
         /\ quotes' = quotes \cup {[n |-> asked + 1, charge |-> c, cur |-> QuoteCurrency(c, b.spend)]}

OnScan(c) ==
    /\ buy.charge = NoCharge /\ Free("buy")
    /\ AskQuote(buy, c)
    /\ UNCHANGED <<pay, conv, rates, voucher, press, presses, server, notes, pageFaults>>

\* pickProduct on the merchant's screen, then an amount within the product's limits.
PickProduct(c) == c.mid # NoMerchant
WithinLimits(c) == c.lo <= c.amount /\ c.amount <= c.hi
ConfirmCatalogPurchase(c) ==
    /\ PickProduct(c) /\ WithinLimits(c)
    /\ OnScan(c)

\* The balance, which also tells the local currency; a change asks the quote again.
BuyBalance ==
    /\ ~buy.have
    /\ LET b == [buy EXCEPT !.have = TRUE, !.seen = funds, !.spend = Local] IN
       IF buy.charge.mid # NoMerchant /\ Local # buy.spend THEN AskQuote(b, buy.charge)
       ELSE buy' = b /\ UNCHANGED <<quotes, asked>>
    /\ UNCHANGED <<pay, conv, rates, voucher, press, presses, server, notes, pageFaults>>

\* setQuote, for whichever charge is on the page now.
QuoteAnswered(q) ==
    /\ buy' = [buy EXCEPT !.fetching = FALSE, !.quote =
          IF Quotable(q.charge, q.cur) THEN QuoteMerchantCheckout(q.charge, q.cur) ELSE NoQuote]
    /\ quotes' = quotes \ {q}
    /\ crossed' = IF q.charge # buy.charge THEN crossed \cup {buy.charge.id} ELSE crossed
    /\ UNCHANGED <<asked, pay, conv, rates, voucher, press, presses, server, moves, tries, pageFaults>>

QuoteLost(q) ==
    /\ PageFault("quote")
    /\ buy' = [buy EXCEPT !.fetching = FALSE, !.quote = NoQuote] /\ quotes' = quotes \ {q}
    /\ UNCHANGED <<asked, pay, conv, rates, voucher, press, presses, server, notes>>

Cancel ==
    /\ buy.charge # NoCharge /\ Free("buy")
    /\ buy' = [buy EXCEPT !.charge = NoCharge, !.quote = NoQuote]
    /\ UNCHANGED <<quotes, asked, pay, conv, rates, voucher, press, presses, server, notes, pageFaults>>

\* What the confirm screen shows and pay() sends.
PayCurrency == IF buy.quote.cross THEN buy.quote.cur ELSE buy.charge.cur
PayAmount == IF buy.quote.cross THEN buy.quote.amount ELSE buy.charge.amount
PayBlocked ==
    \/ buy.fetching \/ (buy.charge.mid # NoMerchant /\ buy.quote = NoQuote)
    \/ buy.have /\ PayAmount > buy.seen[PayCurrency]

Pressed(p, kind, item, amount, cur) ==
    /\ Free(p) /\ presses < MaxPresses /\ presses' = presses + 1
    /\ press' = [press EXCEPT ![p] = 
          [pc |-> IF kind \in {"purchase", "transfer", "withdraw", "escrow"} THEN "prepare" ELSE "submit",
           kind |-> kind, item |-> item, amount |-> amount, cur |-> cur, shown |-> amount, at |-> fx]]
    /\ tries' = [tries EXCEPT ![item] = @ + 1]
    /\ UNCHANGED <<reads, server, moves, crossed, pageFaults>>

PayPressed ==
    /\ buy.charge # NoCharge /\ ~PayBlocked
    /\ Leg = "any" \/ PayCurrency = IF Leg = "SPEND" THEN buy.spend ELSE Leg
    /\ Pressed("buy", "purchase", buy.charge.id, PayAmount, PayCurrency)

-----------------------------------------------------------------------------
(* Pay, Convert, Receive, Claim, TopUp.                                    *)

\* The fields and the scanner.
Type(to, cur) ==
    /\ Free("pay") /\ <<to, cur>> # <<pay.to, pay.cur>>
    /\ pay' = [pay EXCEPT !.to = to, !.cur = cur]
    /\ UNCHANGED <<buy, quotes, asked, conv, rates, voucher, press, presses, server, notes, pageFaults>>

\* The balance sets the currency, whatever the user chose meanwhile.
PayBalance ==
    /\ ~pay.loaded
    /\ pay' = [pay EXCEPT !.loaded = TRUE, !.cur = IF Leg \in {"USDC", "ZAR"} THEN Leg ELSE Local]
    /\ UNCHANGED <<buy, quotes, asked, conv, rates, voucher, press, presses, server, notes, pageFaults>>

\* send: a phone number goes to escrow, USDC to an address is withdrawn.
SendPressed ==
    /\ pay.to # "none"
    /\ Pressed("pay", CASE pay.to = "phone" -> "escrow"
                        [] pay.to \in {"member", "outsider"} /\ pay.cur = "USDC" -> "withdraw"
                        [] OTHER -> "transfer", pay.to, 1, pay.cur)

AskRate(cur) ==
    /\ Free("convert") /\ cur # conv.cur /\ cur \in {Local, "ZAR"}
    /\ conv' = [conv EXCEPT !.cur = cur, !.rate = "none"] /\ rates' = rates \cup {cur}
    /\ UNCHANGED <<buy, quotes, asked, pay, voucher, press, presses, server, notes, pageFaults>>

RateAnswered(cur) ==
    /\ conv' = [conv EXCEPT !.rate = cur] /\ rates' = rates \ {cur}
    /\ UNCHANGED <<buy, quotes, asked, pay, voucher, press, presses, server, notes, pageFaults>>

\* The balance keeps the user's choice unless ZAR is the only one.
ConvertBalance ==
    LET cur == IF Local = "ZAR" THEN "ZAR" ELSE conv.cur IN
    /\ ~conv.have
    /\ conv' = [conv EXCEPT !.have = TRUE, !.seen = funds, !.cur = cur, !.rate = IF cur = conv.cur THEN @ ELSE "none"]
    /\ rates' = IF cur = conv.cur THEN rates ELSE rates \cup {cur}
    /\ UNCHANGED <<buy, quotes, asked, pay, voucher, press, presses, server, notes, pageFaults>>

\* From the fiat currency or from USD, within the balance that was read; the server
\* takes its own rate, the page's is not sent.
TooMuch(amount, from) == conv.have /\ amount > conv.seen[from]
ConvertPressed(amount, from) == ~TooMuch(amount, from) /\ Pressed("convert", "conversion", "conversion", amount, from)

\* The summary of a scanned voucher, whenever it comes; "none" is Cancel.
LoadSummary(v) ==
    /\ voucher' = [voucher EXCEPT !.id = v, !.open = v \notin used]
    /\ UNCHANGED <<buy, quotes, asked, pay, conv, rates, press, presses, server, notes, pageFaults>>

\* The claim behind a link, read once.
LoadClaim(v) ==
    /\ Free("claim") /\ v \notin used /\ voucher.link # v
    /\ voucher' = [voucher EXCEPT !.link = v]
    /\ UNCHANGED <<buy, quotes, asked, pay, conv, rates, press, presses, server, notes, pageFaults>>

ReceivePressed == voucher.id # "none" /\ voucher.open /\ Pressed("receive", "ticket", voucher.id, 1, "ZAR")
ClaimPressed == voucher.link # "none" /\ Pressed("claim", "ticket", voucher.link, 1, "ZAR")
RedeemPressed(v) == Pressed("topup", "code", v, 1, "ZAR")

-----------------------------------------------------------------------------
(* What becomes of a press.                                                *)

Turned(p, pc) == press' = [press EXCEPT ![p].pc = pc]
ChargeOf(p) == CHOOSE c \in Charges : c.id = press[p].item
Covered(p) == press[p].amount <= funds[press[p].cur]

\* Mutant: the amount the page sends is taken as it is.
PrepareTrusts(p) ==
    /\ press[p].pc = "prepare"
    /\ Turned(p, IF Covered(p) THEN "sign" ELSE "error")
    /\ UNCHANGED <<reads, presses, server, notes, pageFaults>>

\* Whether the server accepts a purchase: in the currency of the charge or the
\* merchant's, and at nearly its own price of the charge, which is what it takes.
ResolveMerchantCheckout(p) ==
    LET c == ChargeOf(p) price == ComputePayFromCharge(c, press[p].cur) IN
    c.mid # NoMerchant => Quotable(c, press[p].cur) /\ press[p].amount \in price - Slack .. price + Slack
ServerPrice(p) ==
    IF press[p].kind = "purchase" /\ ChargeOf(p).mid # NoMerchant
    THEN ComputePayFromCharge(ChargeOf(p), press[p].cur) ELSE press[p].amount
Priced(p) == press' = [press EXCEPT ![p].pc = "sign", ![p].amount = ServerPrice(p), ![p].at = fx]

\* POST prepare.  A withdrawal to a member's wallet is refused, and the page sends an
\* ordinary transfer instead; a transfer to an address nobody has is refused.
PreparePress(p) ==
    LET k == press[p].kind IN
    /\ press[p].pc = "prepare"
    /\ IF k = "withdraw" /\ press[p].item = "member"
       THEN press' = [press EXCEPT ![p].kind = "transfer"]
       ELSE IF /\ k = "purchase" => ResolveMerchantCheckout(p)
               /\ ~(k = "transfer" /\ press[p].item = "outsider")
               /\ ServerPrice(p) <= funds[press[p].cur]
            THEN Priced(p) ELSE Turned(p, "error")
    /\ UNCHANGED <<reads, presses, server, notes, pageFaults>>

\* The passkey or the session key; the user may cancel.
SignPress(p) ==
    /\ press[p].pc = "sign"
    /\ \E pc \in {"submit", "error"} : Turned(p, pc)
    /\ UNCHANGED <<reads, presses, server, notes, pageFaults>>

Move(p) == moves' = [moves EXCEPT ![press[p].item] =
    @ \cup {[n |-> Cardinality(@) + 1, kind |-> press[p].kind, amount |-> press[p].amount,
             cur |-> press[p].cur, shown |-> press[p].shown, at |-> press[p].at]}]

Paid(p) ==
    /\ Move(p)
    /\ funds' = [funds EXCEPT ![press[p].cur] =
                    IF press[p].kind \in {"ticket", "code"} THEN @ + press[p].amount ELSE @ - press[p].amount]
Answered(p) ==
    \/ Turned(p, IF press[p].kind = "purchase" THEN "poll" ELSE "result") /\ UNCHANGED pageFaults
    \/ PageFault("answer") /\ Turned(p, "error")

\* POST submit or convert: it moves the money or answers with an error, and the
\* answer may be lost.
SubmitPress(p) ==
    /\ press[p].pc = "submit" /\ press[p].kind \notin {"ticket", "code"}
    /\ \/ Covered(p) /\ Paid(p) /\ Answered(p)
       \/ ~Covered(p) /\ Turned(p, "error") /\ UNCHANGED <<moves, funds, pageFaults>>
       \/ PageFault("refused") /\ Turned(p, "error") /\ UNCHANGED <<moves, funds>>
    /\ UNCHANGED <<reads, presses, fx, used, tries, crossed>>

\* Redeeming a ticket looks at it, pays it, waits for the receipt and then marks it.
Working(p, i) == press[p].pc \in {"paying", "marking"} /\ press[p].item = i
Strays(p) == crossed' = crossed \cup {press[p].item}

LookAtTicket(p) ==
    LET i == press[p].item IN
    /\ press[p].pc = "submit" /\ press[p].kind = "ticket"
    /\ Turned(p, IF i \in used THEN "error" ELSE "paying")
    /\ IF \E o \in Tabs : Working(o, i) THEN Strays(p) ELSE UNCHANGED crossed
    /\ UNCHANGED <<reads, presses, server, moves, tries, pageFaults>>

\* The payment is refused, or its receipt is lost and the ticket stays as it was.
PayTicket(p) ==
    /\ press[p].pc = "paying" /\ press[p].kind = "ticket"
    /\ \/ Paid(p) /\ Turned(p, "marking") /\ UNCHANGED <<crossed, pageFaults>>
       \/ PageFault("lost") /\ Paid(p) /\ Turned(p, "error") /\ Strays(p)
       \/ PageFault("refused") /\ Turned(p, "error") /\ UNCHANGED <<moves, funds, crossed>>
    /\ UNCHANGED <<reads, presses, fx, used, tries>>

\* The UPDATE, which may fail.
MarkTicket(p) ==
    /\ press[p].pc = "marking"
    /\ \/ used' = used \cup {press[p].item} /\ Answered(p) /\ UNCHANGED crossed
       \/ PageFault("mark") /\ Turned(p, "error") /\ Strays(p) /\ UNCHANGED used
    /\ UNCHANGED <<reads, presses, fx, funds, moves, tries>>

\* cashIn: the INSERT of the code comes first and is unique.
ReserveCode(p) ==
    LET i == press[p].item IN
    /\ press[p].pc = "submit" /\ press[p].kind = "code"
    /\ Turned(p, IF i \in used THEN "error" ELSE "paying") /\ used' = used \cup {i}
    /\ UNCHANGED <<reads, presses, fx, funds, notes, pageFaults>>

PayCode(p) ==
    /\ press[p].pc = "paying" /\ press[p].kind = "code"
    /\ \/ Paid(p) /\ Answered(p)
       \/ PageFault("refused") /\ Turned(p, "error") /\ UNCHANGED <<moves, funds>>
    /\ UNCHANGED <<reads, presses, fx, used, tries, crossed>>

\* waitForPurchaseFulfilment: until the outcome is known or the time is up; a read
\* that fails shows an error for a purchase that was paid.
PollFulfilment(p) ==
    /\ press[p].pc = "poll"
    /\ \/ (\E pc \in {"result", "held"} : Turned(p, pc)) /\ UNCHANGED pageFaults
       \/ PageFault("poll") /\ Turned(p, "error")
    /\ UNCHANGED <<reads, presses, server, notes>>

\* Every result screen leads home and drops the page; an error message stays on it.
LeavesPage(p) == press[p].pc \in {"result", "held"}
ShowResult(p) ==
    LET left == LeavesPage(p) IN
    /\ press[p].pc \in {"result", "held", "error"}
    /\ press' = [press EXCEPT ![p] = AtRest]
    /\ buy' = IF p = "buy" /\ left THEN Opened ELSE buy
    /\ quotes' = IF p = "buy" /\ left THEN {} ELSE quotes
    /\ voucher' = CASE p = "receive" /\ left -> [voucher EXCEPT !.id = "none"]
                    [] p = "claim" /\ left -> [voucher EXCEPT !.link = "none"]
                    [] OTHER -> voucher
    /\ conv' = IF p = "convert" /\ left THEN [conv EXCEPT !.have = FALSE] ELSE conv
    /\ UNCHANGED <<asked, pay, rates, presses, server, notes, pageFaults>>

RateMoves(r) ==
    /\ r # fx /\ fx' = r
    /\ UNCHANGED <<reads, press, presses, funds, used, notes, pageFaults>>

PressSteps(p) ==
    \/ PreparePress(p) \/ SignPress(p) \/ SubmitPress(p)
    \/ LookAtTicket(p) \/ PayTicket(p) \/ MarkTicket(p) \/ ReserveCode(p) \/ PayCode(p)
    \/ PollFulfilment(p) \/ ShowResult(p)

Buying ==
    \/ \E c \in Charges : OnScan(c) \/ ConfirmCatalogPurchase(c)
    \/ BuyBalance \/ (\E q \in quotes : QuoteAnswered(q) \/ QuoteLost(q)) \/ Cancel \/ PayPressed
    \/ PressSteps("buy") \/ (\E r \in FxRates : RateMoves(r))
Sending ==
    \/ \E to \in Targets, cur \in Currencies : Type(to, cur)
    \/ PayBalance \/ SendPressed \/ PressSteps("pay")
Converting ==
    \/ \E cur \in Currencies \ {"USDC"} : AskRate(cur)
    \/ (\E cur \in rates : RateAnswered(cur))
    \/ ConvertBalance
    \/ (\E amount \in 1..2, from \in {conv.cur, "USDC"} : ConvertPressed(amount, from)) \/ PressSteps("convert")
Receiving ==
    \/ \E v \in Tickets \cup {"none"} : LoadSummary(v)
    \/ (\E v \in Tickets : LoadClaim(v)) \/ (\E v \in Codes : RedeemPressed(v))
    \/ ReceivePressed \/ ClaimPressed \/ PressSteps("receive") \/ PressSteps("claim") \/ PressSteps("topup")

\* No bound on the faults: each kind may come again.
PageFaultsAgain == pageFaults' = {} /\ UNCHANGED <<reads, press, presses, server, notes>>

PagesNext == Buying \/ Sending \/ Converting \/ Receiving \/ PageFaultsAgain
PagesSpec == PagesInit /\ [][PagesNext]_pageVars

-----------------------------------------------------------------------------
\* A purchase from a merchant is paid at the server's price of that very charge when
\* it was prepared, in its currency or the merchant's, and within the slack of what
\* the confirm screen showed, though quotes arrive late and for other charges and
\* the rate moves; a charge without a merchant is paid as it was scanned unless a
\* stray quote was applied to it (Buy.pay, resolveMerchantCheckout).
PaysItsQuote == \A c \in Charges : \A m \in moves[c.id] :
    IF c.mid # NoMerchant
    THEN /\ Quotable(c, m.cur) /\ m.shown \in m.amount - Slack .. m.amount + Slack
         /\ m.amount = IF m.cur = c.cur THEN c.amount ELSE CeilDiv(c.amount, m.at)
    ELSE c.id \in crossed \/ (m.amount = c.amount /\ m.cur = c.cur)

\* One press moves money at most once, also when a refused withdrawal is sent as an
\* ordinary transfer or the answer is lost (Pay.send).  A top-up code pays at most once
\* whatever fails and however often it is typed (cashIn); a voucher or a link pays once
\* however often it is presented, unless two presentations overlap or the payment was
\* made and could not be marked (redeemClaim, redeemChangeVoucher).
OncePerPress == \A i \in Items :
    Cardinality(moves[i]) <= IF i \in Codes \cup (Tickets \ crossed) THEN 1 ELSE tries[i]

\* What a page pays is what it showed, once per press.
PaysAsShown == PaysItsQuote /\ OncePerPress
=============================================================================
