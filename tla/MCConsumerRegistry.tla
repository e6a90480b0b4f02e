------------------------- MODULE MCConsumerRegistry -------------------------
(***************************************************************************)
(* Four scenarios, chosen in the initial state.  "identity":              *)
(* registrations, recoveries and linked wallets of three addresses under a *)
(* changing pilot cap, the clock standing still.  "limits": remittances    *)
(* over the days of two month buckets, with level changes and recoveries   *)
(* of one consumer.  "sign-up": two people register through the server,    *)
(* whose steps may fail, and try again.  "accounts": the same without      *)
(* failures, beside recoveries and an operator who sets levels.            *)
(***************************************************************************)
EXTENDS Onboarding, TLC

CONSTANTS name, country, person, Spenders

VARIABLE scenario

Daily   == (1 :> 2) @@ (2 :> 2) @@ (3 :> 3)
Monthly == (1 :> 3) @@ (2 :> 3) @@ (3 :> 4)

MCTiers == [c \in Countries |-> IF c = country THEN {0, 1} ELSE {0}]
MCMaxTries == [p \in Persons |-> IF p = person THEN 2 ELSE 1]
MCTagsOf == [p \in Persons |-> IF p = person THEN Names ELSE {name}]
MCCountryOf == [p \in Persons |-> IF p = person THEN country ELSE CHOOSE c \in Countries : c # country]

MCInit ==
    /\ RegistryInit /\ OnboardInit
    /\ scenario \in {"identity", "limits", "sign-up", "accounts"}
    /\ scenario \in {"sign-up", "accounts"} => maxConsumers = 2

Identities ==
    \/ \E n \in Caps : SetMaxConsumers(n)
    \/ \E w \in Wallets, ens \in Names \cup {NoName}, c \in Countries :
          RegisterConsumer(w, ens, c, 0)
    \/ \E old, w \in Wallets, ens \in Names : RecoverWallet(old, ens, w)
    \/ \E w, save \in Wallets : SetSaveWallet(w, save)
    \/ \E w \in Wallets, usd \in Spenders : SetUsdWallet(w, usd)
    \/ \E w \in Wallets : UpdateKycLevel(w, 1)

Limits ==
    \/ \E w \in Spenders, k \in Levels : RegisterConsumer(w, name, country, k)
    \/ \E old, w \in Spenders : RecoverWallet(old, name, w)
    \/ \E w \in Spenders, k \in Levels : UpdateKycLevel(w, k)
    \/ \E w \in Spenders, a \in RemitAmounts : RecordRemittance(w, a)
    \/ NextDay

MCNext ==
    /\ UNCHANGED scenario
    /\ \/ scenario = "identity" /\ Identities /\ UNCHANGED onboardVars
       \/ scenario = "limits" /\ Limits /\ UNCHANGED onboardVars
       \/ scenario = "sign-up" /\ SignUp
       \/ scenario = "accounts" /\ (SignUp \/ Accounts) /\ UNCHANGED faults

MCSpec == MCInit /\ [][MCNext]_<<registryVars, onboardVars, scenario>>
=============================================================================
