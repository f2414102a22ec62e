------------------------- MODULE TransactionContract -------------------------
(***************************************************************************)
(* The admission guards of crates/sharecli-core/src/transaction_contract.rs*)
(* under the callers they are written for: a reservation pool, one shared  *)
(* producer at a time, the retry of one effect over a network that loses   *)
(* and delays, and the sealing of a parent's children by coordinators.     *)
(*                                                                         *)
(* "Methods require serialized callers": each call is one step.  What a    *)
(* caller learned earlier (a generation, a version) may be old by the time *)
(* it calls.                                                               *)
(***************************************************************************)
EXTENDS Integers, FiniteSets, Functions

CONSTANTS
    Reservations, Capacity, MaxU64,
    Consumers, MaxGeneration,
    MaxSends,       \* bound: times the effect is dispatched
    Children, Coordinators

ASSUME ContractAssumption ==
    /\ Capacity \in Nat /\ MaxU64 \in Nat /\ Capacity <= MaxU64
    /\ MaxGeneration \in Nat /\ MaxSends \in Nat

VARIABLES
    active,         \* [ids of active reservations -> units]
    generation, state, consumers,       \* the producer
    known,          \* [Consumers -> the generation a consumer looked up]
    attached,       \* consumers whose join succeeded and that did not detach
    outcome,        \* what the client knows of its effect
    dedup,          \* does the target deduplicate by effect key, atomically
    sends, key,     \* times it was dispatched, key of the last time
    inFlight,       \* requests on their way: <<number, key>>
    done,           \* requests the target performed
    version, sealed, required,          \* the parent: [its children -> accepted]
    seen            \* [Coordinators -> [version, children] a coordinator read]

poolVars == <<active>>
prodVars == <<generation, state, consumers, known, attached>>
effVars == <<outcome, dedup, sends, key, inFlight, done>>
parVars == <<version, sealed, required, seen>>
contractVars == <<poolVars, prodVars, effVars, parVars>>

Sum(f) == FoldFunction(LAMBDA a, b : a + b, 0, f)

ContractInit ==
    /\ active = <<>>
    /\ generation = 0 /\ state = "Running" /\ consumers = {}
    /\ known = [c \in Consumers |-> 0] /\ attached = {}
    /\ outcome = "NotDispatched" /\ dedup \in BOOLEAN
    /\ sends = 0 /\ key = 0 /\ inFlight = {} /\ done = {}
    /\ version = 0 /\ sealed = FALSE /\ required = <<>>
    /\ seen = [c \in Coordinators |-> [version |-> 0, children |-> {}]]

\* The types, and: the producer's consumers are those that know they attached.
ContractTypeOK ==
    /\ DOMAIN active \subseteq Reservations /\ \A r \in DOMAIN active : active[r] \in 1..MaxU64
    /\ generation \in 0..MaxGeneration /\ state \in {"Running", "Stopping"}
    /\ consumers \subseteq Consumers /\ attached \subseteq Consumers
    /\ known \in [Consumers -> 0..MaxGeneration]
    /\ outcome \in {"NotDispatched", "ConfirmedSuccess", "ConfirmedFailure", "Unknown"}
    /\ sends \in 0..MaxSends /\ key \in 0..MaxSends /\ dedup \in BOOLEAN
    /\ inFlight \subseteq (1..MaxSends) \X (0..MaxSends)
    /\ done \subseteq (1..MaxSends) \X (0..MaxSends)
    /\ DOMAIN required \subseteq Children /\ version = Cardinality(DOMAIN required)
    /\ \A i \in DOMAIN required : required[i] \in BOOLEAN
    /\ sealed \in BOOLEAN
-----------------------------------------------------------------------------
\* validate_delegation; descends is the caller's verdict that the scope of the
\* child grant is below the parent's in the tree of scopes.
ValidateDelegation(parent, child, descends) ==
    /\ descends
    /\ parent.authority_epoch = child.authority_epoch
    /\ child.max_delegated_units <= parent.max_delegated_units
    /\ child.operations \subseteq parent.operations

Grants(scopes, operations, max) ==
    [scope_id : scopes, authority_epoch : 0..max, operations : SUBSET operations,
     max_delegated_units : 0..max]

\* A chain of grants, each delegated from the one before.
DelegationChain(grant, n, Below) ==
    \A i \in 1..n : ValidateDelegation(grant[i - 1], grant[i],
                                      <<grant[i].scope_id, grant[i - 1].scope_id>> \in Below)

\* Along a chain of delegations rights only shrink: the last grant could have
\* been delegated by the first one directly ("Delegated rights are a subset of
\* the parent grant", transaction_contract.rs:31).
Attenuates(grant, n, Below) ==
    n > 0 => ValidateDelegation(grant[0], grant[n],
                                <<grant[n].scope_id, grant[0].scope_id>> \in Below)
-----------------------------------------------------------------------------
Reserve_Wraps(r, units) ==
    /\ r \notin DOMAIN active
    /\ (Sum(active) + units) % (MaxU64 + 1) <= Capacity
    /\ active' = [i \in DOMAIN active \cup {r} |-> IF i = r THEN units ELSE active[i]]
    /\ UNCHANGED <<prodVars, effVars, parVars>>

\* ReservationPool::reserve, with checked u64 sums.
Reserve(r, units) ==
    /\ r \notin DOMAIN active
    /\ Sum(active) + units <= MaxU64
    /\ Sum(active) + units <= Capacity
    /\ active' = [i \in DOMAIN active \cup {r} |-> IF i = r THEN units ELSE active[i]]
    /\ UNCHANGED <<prodVars, effVars, parVars>>

\* release, once the units were reclaimed.
Release(r) ==
    /\ r \in DOMAIN active
    /\ active' = Restrict(active, DOMAIN active \ {r})
    /\ UNCHANGED <<prodVars, effVars, parVars>>
-----------------------------------------------------------------------------
\* A consumer learns which generation is current.
Lookup(c) ==
    /\ c \notin attached
    /\ known' = [known EXCEPT ![c] = generation]
    /\ UNCHANGED <<poolVars, generation, state, consumers, attached, effVars, parVars>>

Join_AnyState(c) ==
    /\ c \notin attached
    /\ known[c] = generation
    /\ consumers' = consumers \cup {c} /\ attached' = attached \cup {c}
    /\ UNCHANGED <<poolVars, generation, state, known, effVars, parVars>>

\* SharedProducer::join of an eligible consumer, with the generation it knows.
Join(c) ==
    /\ c \notin attached
    /\ known[c] = generation
    /\ state = "Running"
    /\ consumers' = consumers \cup {c} /\ attached' = attached \cup {c}
    /\ UNCHANGED <<poolVars, generation, state, known, effVars, parVars>>

\* detach: the last consumer to leave stops the generation.
Detach(c) ==
    /\ known[c] = generation
    /\ c \in consumers
    /\ consumers' = consumers \ {c} /\ attached' = attached \ {c}
    /\ state' = IF consumers = {c} THEN "Stopping" ELSE state
    /\ UNCHANGED <<poolVars, generation, known, effVars, parVars>>

\* The caller that was told "stopping" starts the next generation.
NextGeneration ==
    /\ state = "Stopping" /\ generation < MaxGeneration
    /\ generation' = generation + 1 /\ state' = "Running" /\ consumers' = {}
    /\ UNCHANGED <<poolVars, known, attached, effVars, parVars>>
-----------------------------------------------------------------------------
CanRetry_Unknown(sameKey, absent) ==
    outcome # "ConfirmedSuccess"

\* can_retry_effect, without an authorisation to duplicate.
CanRetry(sameKey, absent) ==
    \/ outcome = "NotDispatched"
    \/ outcome \in {"ConfirmedFailure", "Unknown"} /\ (absent \/ (sameKey /\ dedup))

\* The client dispatches its effect, with the key of the last time or a new one;
\* it may know that the effect is absent only when it is, and none is on its way.
Dispatch(sameKey, absent) ==
    LET k == IF sameKey THEN key ELSE key + 1 IN
    /\ sends < MaxSends
    /\ absent => done = {} /\ inFlight = {}
    /\ CanRetry(sameKey, absent)
    /\ sends' = sends + 1 /\ key' = k /\ outcome' = "Unknown"
    /\ inFlight' = inFlight \cup {<<sends + 1, k>>}
    /\ UNCHANGED <<poolVars, prodVars, dedup, done, parVars>>

\* The target performs a request, unless it has seen its key.
Perform(m) ==
    /\ m \in inFlight /\ inFlight' = inFlight \ {m}
    /\ done' = IF dedup /\ \E d \in done : d[2] = m[2] THEN done ELSE done \cup {m}
    /\ outcome' \in {outcome, "ConfirmedSuccess"}
    /\ UNCHANGED <<poolVars, prodVars, dedup, sends, key, parVars>>

\* The request is lost, or fails and the client hears of it.
Fail(m) ==
    /\ m \in inFlight /\ inFlight' = inFlight \ {m}
    /\ outcome' \in {outcome, IF outcome = "Unknown" THEN "ConfirmedFailure" ELSE outcome}
    /\ UNCHANGED <<poolVars, prodVars, dedup, sends, key, done, parVars>>
-----------------------------------------------------------------------------
\* ParentMembership::add_child.
AddChild(i) ==
    /\ ~sealed
    /\ i \notin DOMAIN required
    /\ version' = version + 1
    /\ required' = [j \in DOMAIN required \cup {i} |-> IF j = i THEN FALSE ELSE required[j]]
    /\ UNCHANGED <<poolVars, prodVars, effVars, sealed, seen>>

MarkAccepted(i) ==
    /\ ~sealed
    /\ i \in DOMAIN required
    /\ required' = [required EXCEPT ![i] = TRUE]
    /\ UNCHANGED <<poolVars, prodVars, effVars, version, sealed, seen>>

\* A coordinator reads the version and the children it is about to accept ...
ReadMembership(k) ==
    /\ ~sealed
    /\ seen' = [seen EXCEPT ![k] = [version |-> version, children |-> DOMAIN required]]
    /\ UNCHANGED <<poolVars, prodVars, effVars, version, sealed, required>>

Seal_AnyVersion(k) ==
    /\ ~sealed
    /\ \A i \in DOMAIN required : required[i]
    /\ sealed' = TRUE /\ seen' = [j \in Coordinators |-> seen[k]]
    /\ UNCHANGED <<poolVars, prodVars, effVars, version, required>>

\* ... and seals that version; seen then keeps what the sealer had read.
Seal(k) ==
    /\ ~sealed
    /\ seen[k].version = version
    /\ \A i \in DOMAIN required : required[i]
    /\ sealed' = TRUE /\ seen' = [j \in Coordinators |-> seen[k]]
    /\ UNCHANGED <<poolVars, prodVars, effVars, version, required>>

ContractNext ==
    \/ \E r \in Reservations : Release(r) \/ \E u \in 1..MaxU64 : Reserve(r, u)
    \/ \E c \in Consumers : Lookup(c) \/ Join(c) \/ Detach(c)
    \/ NextGeneration
    \/ \E s, a \in BOOLEAN : Dispatch(s, a)
    \/ \E m \in inFlight : Perform(m) \/ Fail(m)
    \/ \E i \in Children : AddChild(i) \/ MarkAccepted(i)
    \/ \E k \in Coordinators : ReadMembership(k) \/ Seal(k)

ContractSpec == ContractInit /\ [][ContractNext]_contractVars
-----------------------------------------------------------------------------
\* The units admitted never exceed the capacity, and admitted() (whose sum is
\* unchecked) cannot overflow.
WithinCapacity == Sum(active) <= Capacity

\* A consumer that attached is served until it detaches: its generation is the
\* current one, is running, and counts it ("late join cannot revive a stopping
\* generation").
AttachedIsServed ==
    \A c \in attached : known[c] = generation /\ c \in consumers /\ state = "Running"

\* The effect is performed at most once unless duplication is authorised ("A
\* lost response is not evidence that a non-idempotent effect did not happen").
AtMostOnce == \A d, e \in done : d = e

\* A sealed parent has exactly the children its sealer read, all accepted ("no
\* late child may sneak into an accepted revision").
SealedAsSeen ==
    sealed => /\ \A i \in DOMAIN required : required[i]
              /\ \A k \in Coordinators : seen[k].children = DOMAIN required
=============================================================================
