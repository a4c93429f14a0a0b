------------------------------- MODULE Resolver -------------------------------
(* The choice of a contract (broker/dhan/symbol_resolver.py): of those that the   *)
(* instrument master lists, the nearest that does not expire too soon.          *)
EXTENDS Integers, FiniteSets

CONSTANTS
    Contracts,    \* security ids
    Expiry,       \* the day each contract expires
    RolloverDays, \* rollover_days_before_expiry
    Masters,      \* the instrument masters a download or the cache may give
    None

ASSUME ContractsAssumption == None \notin Contracts /\ Expiry \in [Contracts -> Nat] /\ RolloverDays \in Nat
                               /\ Masters \subseteq SUBSET Contracts

Eligible(m, day) == {c \in m : Expiry[c] - day > RolloverDays}
Nearest(m, day)  == {c \in Eligible(m, day) : \A d \in Eligible(m, day) : Expiry[c] <= Expiry[d]}

\* Exactly one contract may be left; anything else is a SymbolResolutionError.
Resolve(m, day) == IF \E c \in m : Nearest(m, day) = {c} THEN CHOOSE c \in m : Nearest(m, day) = {c} ELSE None
=============================================================================
