-------------------------- MODULE MCServiceManager --------------------------
(* ServiceManager with the services and levels of Node.cpp.  LocalAddressList *)
(* and PlanBook stand in the same place as the address book and are left out. *)
(* The service of Comms is named by a level and never registered.             *)
EXTENDS ServiceManager

CONSTANTS KeyStore, LocalIdentity, AddressBook, Discovery, Comms, Always, OnDemand

NodeServices == {KeyStore, LocalIdentity, AddressBook, Discovery, Comms}
NodeRegistered == NodeServices \ {Comms}
NodeDepends ==
    [s \in NodeRegistered |->
        IF s = KeyStore THEN {} ELSE IF s = LocalIdentity THEN {KeyStore} ELSE {LocalIdentity}]
NodeLevels == {Always, OnDemand}
NodeMembers ==
    [l \in NodeLevels |->
        IF l = Always THEN {KeyStore, LocalIdentity, AddressBook, Comms} ELSE {Discovery}]

\* nextActivatableInSet() as it is written.
RECURSIVE NextActivatableInSet(_, _, _)
NextActivatableInSet(set, up, on) ==
    UNION {IF up = (s \in on) THEN {}
           ELSE IF up
           THEN IF DependenciesMet(s, on) THEN {s} ELSE NextActivatableInSet(Dependencies[s], up, on)
           ELSE IF DependentsMet(s, on) THEN {s} ELSE NextActivatableInSet(Dependents[s], up, on)
           : s \in set}

\* One level of the recursion is enough.
ASSUME OneLevelIsEnough ==
    \A set \in SUBSET Services, on \in SUBSET Registered :
        /\ Activatable(set, on) = NextActivatableInSet(set, TRUE, on)
        /\ Deactivatable(set, on) = NextActivatableInSet(set, FALSE, on)
=============================================================================
