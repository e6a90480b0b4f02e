---------------------------- MODULE TreasuryToken ----------------------------
(***************************************************************************)
(* TreasuryToken.sol: the country-specific treasury token (TTZA, TTZW).    *)
(* An ERC20 whose every movement goes through the hook _update, which puts *)
(* the gates of the token (pause, blacklist, whitelist, jurisdiction,      *)
(* frozen balance) in front of mints, burns, peer transfers and the        *)
(* compliance agent's forced transfers.  One action per external function; *)
(* a revert is a disabled action.  Callers hold the role they need.        *)
(***************************************************************************)
EXTENDS ShareMath

CONSTANTS Accounts,     \* the addresses that may hold the token
          TokenAmounts, \* amounts the functions are called with
          MaxSupply,    \* bound on totalSupply (uint256 in the code)
          CountryOf     \* the country the registry records for an account

ASSUME TokenAssumption ==
    /\ IsFiniteSet(Accounts)
    /\ TokenAmounts \subseteq Nat
    /\ MaxSupply \in Nat

VARIABLES balanceOf, totalSupply, frozenTokens,
          blacklisted, whitelisted,            \* sets of accounts
          whitelistEnabled, complianceEnabled,
          consumerContract,                    \* whether the registry is set
          paused,
          registered                           \* the registry's active wallets (external)

gates == <<blacklisted, whitelisted, whitelistEnabled, complianceEnabled, consumerContract,
           paused, registered>>
tokenVars == <<balanceOf, totalSupply, frozenTokens, gates>>

-----------------------------------------------------------------------------
\* initialize() with no initial supply, every gate open.
TokenInit ==
    /\ balanceOf = [x \in Accounts |-> 0]
    /\ totalSupply = 0
    /\ frozenTokens = [x \in Accounts |-> 0]
    /\ blacklisted = {} /\ whitelisted = {}
    /\ whitelistEnabled = FALSE /\ complianceEnabled = FALSE
    /\ consumerContract = FALSE
    /\ paused = FALSE
    /\ registered = {}

\* Mutant: only the sender of a movement is looked up in the blacklist.
SenderOpen(from, to) == ~paused /\ from \ blacklisted = from

\* The gates of every movement that is not forced; a mint has no sender and a
\* burn no recipient, so both are sets of at most one account.
Open(from, to) == ~paused /\ (from \cup to) \cap blacklisted = {}

\* Mutant: the parties are known, wherever they are.
CompliantAnywhere(from, to) == {from, to} \subseteq whitelisted \cup registered

\* _checkTreasuryCompliance: each party is trusted or registered, and two
\* parties that are not trusted are in the same country.
Compliant(from, to) ==
    /\ {from, to} \subseteq whitelisted \cup registered
    /\ {from, to} \cap whitelisted = {} => CountryOf[from] = CountryOf[to]

\* The whitelist and the jurisdiction gate, which apply between two holders.
PeersAllowed(from, to) ==
    /\ whitelistEnabled => {from, to} \subseteq whitelisted
    /\ complianceEnabled /\ consumerContract => Compliant(from, to)

\* Mutant: a burn or a forced transfer leaves the frozen amount alone.
FrozenKept(from, value) == frozenTokens

\* A burn or a forced transfer unfreezes what the remaining balance cannot cover.
FrozenAfterOutflow(from, value) ==
    LET remaining == balanceOf[from] - value IN
    IF frozenTokens[from] > remaining
    THEN [frozenTokens EXCEPT ![from] = remaining]
    ELSE frozenTokens

\* ERC20: the amount leaves `from` before it reaches `to`.
Moved(from, to, value) ==
    [[balanceOf EXCEPT ![from] = @ - value] EXCEPT ![to] = @ + value]

-----------------------------------------------------------------------------
Mint(to, a) ==
    /\ a > 0
    /\ Open({}, {to})
    /\ totalSupply + a <= MaxSupply
    /\ totalSupply' = totalSupply + a
    /\ balanceOf' = [balanceOf EXCEPT ![to] = @ + a]
    /\ UNCHANGED <<frozenTokens, gates>>

\* _burn, which burn() and burnOwn() share.
BurnFrom(from, a) ==
    /\ a > 0
    /\ Open({from}, {})
    /\ balanceOf[from] >= a
    /\ frozenTokens' = FrozenAfterOutflow(from, a)
    /\ balanceOf' = [balanceOf EXCEPT ![from] = @ - a]
    /\ totalSupply' = totalSupply - a
    /\ UNCHANGED gates

\* The backend burns after a remittance; any holder may burn its own tokens.
Burn(from, a)      == BurnFrom(from, a)
BurnOwn(sender, a) == BurnFrom(sender, a)

\* transfer() and transferFrom(): a holder moves its unfrozen balance.
Transfer(from, to, a) ==
    /\ Open({from}, {to})
    /\ PeersAllowed(from, to)
    /\ balanceOf[from] - frozenTokens[from] >= a
    /\ balanceOf' = Moved(from, to, a)
    /\ UNCHANGED <<totalSupply, frozenTokens, gates>>

\* forcedTransfer(): every gate is bypassed for this one move.
ForcedTransfer(from, to, a) ==
    /\ a > 0
    /\ balanceOf[from] >= a
    /\ frozenTokens' = FrozenAfterOutflow(from, a)
    /\ balanceOf' = Moved(from, to, a)
    /\ UNCHANGED <<totalSupply, gates>>

FreezePartialTokens(x, a) ==
    /\ a > 0
    /\ frozenTokens[x] + a <= balanceOf[x]
    /\ frozenTokens' = [frozenTokens EXCEPT ![x] = @ + a]
    /\ UNCHANGED <<balanceOf, totalSupply, gates>>

UnfreezePartialTokens(x, a) ==
    /\ a > 0
    /\ a <= frozenTokens[x]
    /\ frozenTokens' = [frozenTokens EXCEPT ![x] = @ - a]
    /\ UNCHANGED <<balanceOf, totalSupply, gates>>

-----------------------------------------------------------------------------
SetBlacklist(x, on) ==
    /\ blacklisted' = IF on THEN blacklisted \cup {x} ELSE blacklisted \ {x}
    /\ UNCHANGED <<balanceOf, totalSupply, frozenTokens, whitelisted, whitelistEnabled,
                   complianceEnabled, consumerContract, paused, registered>>

SetWhitelist(x, on) ==
    /\ whitelisted' = IF on THEN whitelisted \cup {x} ELSE whitelisted \ {x}
    /\ UNCHANGED <<balanceOf, totalSupply, frozenTokens, blacklisted, whitelistEnabled,
                   complianceEnabled, consumerContract, paused, registered>>

SetWhitelistEnabled(on) ==
    /\ whitelistEnabled' = on
    /\ UNCHANGED <<balanceOf, totalSupply, frozenTokens, blacklisted, whitelisted,
                   complianceEnabled, consumerContract, paused, registered>>

SetConsumerContract ==
    /\ consumerContract' = TRUE
    /\ UNCHANGED <<balanceOf, totalSupply, frozenTokens, blacklisted, whitelisted,
                   whitelistEnabled, complianceEnabled, paused, registered>>

SetComplianceEnabled(on) ==
    /\ complianceEnabled' = on
    /\ UNCHANGED <<balanceOf, totalSupply, frozenTokens, blacklisted, whitelisted,
                   whitelistEnabled, consumerContract, paused, registered>>

SetPaused(on) ==
    /\ paused = ~on
    /\ paused' = on
    /\ UNCHANGED <<balanceOf, totalSupply, frozenTokens, blacklisted, whitelisted,
                   whitelistEnabled, complianceEnabled, consumerContract, registered>>

\* The Consumer registry registers a wallet, or retires it on recovery.
RegistryChanges(x) ==
    /\ registered' = IF x \in registered THEN registered \ {x} ELSE registered \cup {x}
    /\ UNCHANGED <<balanceOf, totalSupply, frozenTokens, blacklisted, whitelisted,
                   whitelistEnabled, complianceEnabled, consumerContract, paused>>

-----------------------------------------------------------------------------
\* Everything that moves tokens, but for the compliance agent's forced transfer.
OrdinaryMoves ==
    \/ \E x \in Accounts, a \in TokenAmounts : Mint(x, a)
    \/ \E x \in Accounts, a \in TokenAmounts : Burn(x, a)
    \/ \E x \in Accounts, a \in TokenAmounts : BurnOwn(x, a)
    \/ \E x, y \in Accounts, a \in TokenAmounts : Transfer(x, y, a)

Movements ==
    \/ OrdinaryMoves
    \/ \E x, y \in Accounts, a \in TokenAmounts : ForcedTransfer(x, y, a)
    \/ \E x \in Accounts, a \in TokenAmounts : FreezePartialTokens(x, a)
    \/ \E x \in Accounts, a \in TokenAmounts : UnfreezePartialTokens(x, a)

Gates ==
    \/ \E x \in Accounts, on \in BOOLEAN : SetBlacklist(x, on)
    \/ \E x \in Accounts, on \in BOOLEAN : SetWhitelist(x, on)
    \/ \E on \in BOOLEAN : SetWhitelistEnabled(on)
    \/ SetConsumerContract
    \/ \E on \in BOOLEAN : SetComplianceEnabled(on)
    \/ \E on \in BOOLEAN : SetPaused(on)
    \/ \E x \in Accounts : RegistryChanges(x)

TokenNext == Movements \/ Gates

TokenSpec == TokenInit /\ [][TokenNext]_tokenVars

-----------------------------------------------------------------------------
TokenTypeOK ==
    /\ balanceOf \in [Accounts -> Nat]
    /\ totalSupply \in 0..MaxSupply
    /\ frozenTokens \in [Accounts -> Nat]

\* Every unit of supply is in somebody's balance, through self-transfers, burns
\* of frozen tokens and forced moves.
SupplySum == totalSupply = Total(balanceOf)

\* The invariant _update relies on when it subtracts ("balanceOf >= frozen"): no
\* sequence of freezes, burns and forced moves freezes more than is there.
FrozenCovered == \A x \in Accounts : frozenTokens[x] <= balanceOf[x]

\* The books of the token: the two invariants need each other, since what an
\* outflow leaves frozen is a natural number only while the frozen part is covered.
TokenInv == TokenTypeOK /\ SupplySum /\ FrozenCovered

\* While the token is paused, and for a blacklisted account at any time, balances
\* stand still: no mint, burn or transfer that any role or holder can call reaches
\* them, whichever end of it the account is on.
StandStill ==
    [][OrdinaryMoves =>
          \A x \in Accounts :
             paused \/ x \in blacklisted => balanceOf'[x] = balanceOf[x]]_tokenVars

\* Once the jurisdiction gate is on, and no address is trusted, what a country's
\* consumers hold together changes only when tokens are minted or burned: the
\* token does not cross a border, whatever the order of the other gates.
HeldIn(country) == Total([x \in {y \in Accounts : CountryOf[y] = country} |-> balanceOf[x]])
StaysInCountry ==
    [][/\ complianceEnabled /\ consumerContract /\ whitelisted = {}
       /\ OrdinaryMoves /\ totalSupply' = totalSupply
       => \A x \in Accounts : HeldIn(CountryOf[x])' = HeldIn(CountryOf[x])]_tokenVars
=============================================================================
