---------------------------- MODULE EndpointProbes ----------------------------
(***************************************************************************)
(* Endpoint diagnosis (src/diagnostics/network.rs): a person registers     *)
(* endpoints, each for one probe within 180 seconds; a batch of them is    *)
(* resolved and contacted, layer by layer, within 20 seconds.              *)
(*                                                                         *)
(* Hosts stand for one name; what it resolves to is a set of address       *)
(* classes that can change at any time.  A resolution runs in a thread     *)
(* of its own, which is waited for three seconds and may outlive that.     *)
(*                                                                         *)
(* Bound: MaxTroubles changed answers, failed and hanging resolutions and  *)
(* overruns of the budget.                                                 *)
(***************************************************************************)
EXTENDS Naturals, FiniteSets, Sequences

CONSTANTS
    Refs,          \* endpoint references
    MaxEntries,    \* endpoints that may be registered at once (3)
    MaxWorkers,    \* resolutions that may be in flight (3)
    MaxTroubles

VARIABLES
    entries,    \* ref -> its registration; used up when not live
    answer,     \* the world: what the name resolves to
    hanging,    \* resolutions nobody waits for any more
    batch, checks,      \* the references still to probe, the layers asked for
    target, layers,     \* the one probed last, the layers it has still to go
    step, resolved, checked,   \* the probe, its first and its latest answer
    cancelled, overrun,
    contacts,   \* history: <<ref, layer>> -> the connections made
    troubles

probe == <<batch, checks, target, layers, step, resolved, checked>>
vars == <<entries, answer, hanging, probe, cancelled, overrun, contacts, troubles>>

\* The resolution itself, "dns", comes before either.
Layers == {"tcp", "https"}
Scopes == {"public", "local"}
Addresses == {"public", "private", "metadata"}

NoEntry == [live |-> FALSE, fresh |-> FALSE, scope |-> "public", checks |-> {}]
Entry == [live : BOOLEAN, fresh : BOOLEAN, scope : Scopes, checks : SUBSET Layers]
Contact == [to : Addresses, known : SUBSET Addresses]

TypeOK ==
    /\ entries \in [Refs -> Entry]
    /\ answer \in SUBSET Addresses /\ hanging \in 0 .. MaxWorkers
    /\ batch \in Seq(Refs) /\ checks \subseteq Layers /\ layers \in Seq(Layers)
    /\ target \in Refs
    /\ step \in {"idle", "between", "resolving", "layers", "checking", "connecting"}
    /\ resolved \subseteq Addresses /\ checked \subseteq Addresses
    /\ cancelled \in BOOLEAN /\ overrun \in BOOLEAN
    /\ contacts \in [Refs \X Layers -> Seq(Contact)]

Init ==
    /\ entries = [r \in Refs |-> NoEntry]
    /\ answer \in SUBSET Addresses /\ hanging = 0
    /\ batch = <<>> /\ checks = {} /\ target \in Refs /\ layers = <<>>
    /\ step = "idle" /\ resolved = {} /\ checked = {}
    /\ cancelled = FALSE /\ overrun = FALSE
    /\ contacts = [c \in Refs \X Layers |-> <<>>] /\ troubles = 0

Trouble == troubles < MaxTroubles /\ troubles' = troubles + 1
Calm == UNCHANGED troubles

\* A metadata address is out of every scope; a public endpoint is in scope
\* only at public addresses.
Allowed(address, scope) ==
    address # "metadata" /\ (scope = "local" \/ address = "public")
InScope(addresses) ==
    addresses # {} /\ \A a \in addresses : Allowed(a, entries[target].scope)

Registered == {r \in Refs : entries[r].live /\ entries[r].fresh}
Unused == {r \in Refs : entries[r] = NoEntry}

\* Expired registrations make room first.
Register(r, scope, wanted) ==
    /\ step = "idle" /\ r \in Unused
    /\ Cardinality(Registered) < MaxEntries
    /\ entries' = [entries EXCEPT ![r] =
            [live |-> TRUE, fresh |-> TRUE, scope |-> scope, checks |-> wanted]]
    /\ UNCHANGED <<answer, hanging, probe, cancelled, overrun, contacts>> /\ Calm

Expire(r) ==
    /\ r \in Registered /\ entries' = [entries EXCEPT ![r].fresh = FALSE]
    /\ UNCHANGED <<answer, hanging, probe, cancelled, overrun, contacts>> /\ Calm

\* The whole batch is validated before any of it is used up.
Query(refs, wanted) ==
    /\ step = "idle"
    /\ \A i \in DOMAIN refs : refs[i] \in Registered /\ wanted \subseteq entries[refs[i]].checks
    /\ batch' = refs /\ checks' = wanted /\ step' = "between"
    /\ UNCHANGED <<entries, answer, hanging, target, layers, resolved, checked, cancelled,
                   overrun, contacts>> /\ Calm

UsedUp(r) == [entries EXCEPT ![r].live = FALSE, ![r].fresh = FALSE]

\* The next of the batch; a reference is used up even when it is skipped.
Begin ==
    /\ step = "between" /\ batch # <<>>
    /\ entries' = UsedUp(Head(batch)) /\ target' = Head(batch)
    /\ batch' = IF cancelled THEN <<>> ELSE Tail(batch)
    /\ step' = IF cancelled \/ overrun THEN "between" ELSE "resolving"
    /\ UNCHANGED <<answer, hanging, checks, layers, resolved, checked, cancelled, overrun,
                   contacts>> /\ Calm

Done ==
    /\ step = "between" /\ batch = <<>> /\ step' = "idle" /\ checks' = {}
    /\ cancelled' = FALSE /\ overrun' = FALSE
    /\ UNCHANGED <<entries, answer, hanging, batch, target, layers, resolved, checked,
                   contacts>> /\ Calm

\* resolve: refused while too many are in flight, and given up when it
\* hangs; then its thread stays in flight.
Resolve(into) ==
    \/ hanging < MaxWorkers /\ into = answer /\ UNCHANGED hanging /\ Calm
    \/ hanging = MaxWorkers /\ into = {} /\ UNCHANGED hanging /\ Calm
    \/ hanging < MaxWorkers /\ into = {} /\ hanging' = hanging + 1 /\ Trouble

\* The layers asked for, "tcp" before "https".
Order ==
    CHOOSE o \in {<<>>, <<"tcp">>, <<"https">>, <<"tcp", "https">>} :
        {o[i] : i \in DOMAIN o} = checks

First ==
    /\ step = "resolving"
    /\ \E into \in SUBSET Addresses :
          /\ Resolve(into)
          /\ IF InScope(into)
               THEN step' = "layers" /\ layers' = Order /\ resolved' = into
               ELSE step' = "between" /\ UNCHANGED <<layers, resolved>>
    /\ UNCHANGED <<entries, answer, batch, checks, target, checked, cancelled, overrun, contacts>>

\* A layer is not begun after a cancellation or beyond the budget.
Layer ==
    /\ step = "layers"
    /\ IF layers = <<>> \/ cancelled \/ overrun
         THEN step' = "between" /\ layers' = <<>> /\ resolved' = {} /\ checked' = {}
         ELSE step' = "checking" /\ UNCHANGED <<layers, resolved, checked>>
    /\ UNCHANGED <<entries, answer, hanging, batch, checks, target, cancelled, overrun,
                   contacts>> /\ Calm

\* The name is resolved again right before the connection.
Again ==
    /\ step = "checking"
    /\ \E into \in SUBSET Addresses :
          /\ Resolve(into) /\ checked' = into
          /\ IF InScope(into) THEN step' = "connecting" /\ UNCHANGED layers
                              ELSE step' = "layers" /\ layers' = Tail(layers)
    /\ UNCHANGED <<entries, answer, batch, checks, target, resolved, cancelled, overrun, contacts>>

\* Mutant: the connection is made to what was resolved first.
ReachableFirst == resolved

Reachable == checked

Connect(address) ==
    /\ step = "connecting" /\ address \in Reachable
    /\ IF cancelled \/ overrun
         THEN UNCHANGED <<layers, contacts>>
         ELSE /\ contacts' = [contacts EXCEPT ![<<target, Head(layers)>>] =
                                  Append(@, [to |-> address, known |-> checked])]
              /\ layers' = Tail(layers)
    /\ step' = "layers"
    /\ UNCHANGED <<entries, answer, hanging, batch, checks, target, resolved, checked,
                   cancelled, overrun>> /\ Calm

-----------------------------------------------------------------------------
Cancel ==
    /\ step # "idle" /\ ~cancelled /\ cancelled' = TRUE
    /\ UNCHANGED <<entries, answer, hanging, probe, overrun, contacts>> /\ Calm

Overrun ==
    /\ step # "idle" /\ ~overrun /\ overrun' = TRUE /\ Trouble
    /\ UNCHANGED <<entries, answer, hanging, probe, cancelled, contacts>>

AnswerChanges(now) ==
    /\ Trouble /\ answer' = now
    /\ UNCHANGED <<entries, hanging, probe, cancelled, overrun, contacts>>

WorkerReturns ==
    /\ hanging > 0 /\ hanging' = hanging - 1
    /\ UNCHANGED <<entries, answer, probe, cancelled, overrun, contacts>> /\ Calm

\* A request names registered endpoints, none twice.
Batches ==
    {refs \in UNION {[1 .. n -> Registered] : n \in 1 .. MaxEntries} :
        \A i, j \in DOMAIN refs : refs[i] = refs[j] => i = j}

Next ==
    \/ \E r \in Unused, scope \in Scopes, wanted \in SUBSET Layers : Register(r, scope, wanted)
    \/ \E r \in Registered : Expire(r)
    \/ \E refs \in Batches, wanted \in SUBSET Layers : Query(refs, wanted)
    \/ Begin \/ Done \/ First \/ Layer \/ Again
    \/ \E address \in Addresses : Connect(address)
    \/ Cancel \/ Overrun \/ WorkerReturns
    \/ \E now \in SUBSET Addresses : AnswerChanges(now)

Spec == Init /\ [][Next]_vars

\* What a person registered is contacted once at most, only for the layers
\* that were named, and only at an address that the latest resolution gave
\* and that lies within the scope, although the name may resolve to something
\* else from one look to the next.
ProbesAsConfirmed ==
    \A r \in Refs, l \in Layers :
        /\ Len(contacts[<<r, l>>]) <= 1
        /\ \A i \in DOMAIN contacts[<<r, l>>] :
              LET c == contacts[<<r, l>>][i]
              IN  /\ l \in entries[r].checks
                  /\ c.to \in c.known /\ Allowed(c.to, entries[r].scope)

\* Why: what is live has not been contacted, a batch is live and named once,
\* and the layers still to go have not been contacted either.
Untouched(r, l) == contacts[<<r, l>>] = <<>>
Inductive ==
    /\ TypeOK /\ ProbesAsConfirmed
    /\ \A r \in Refs, l \in Layers : entries[r].live => Untouched(r, l)
    /\ \A i \in DOMAIN batch :
          /\ entries[batch[i]].live /\ checks \subseteq entries[batch[i]].checks
          /\ \A j \in DOMAIN batch : batch[i] = batch[j] => i = j
    /\ step \notin {"idle", "between"} =>
          checks \subseteq entries[target].checks /\ ~entries[target].live
    /\ step = "resolving" => \A l \in Layers : Untouched(target, l)
    /\ step \in {"layers", "checking", "connecting"} =>
          \A i \in DOMAIN layers :
              /\ layers[i] \in checks /\ Untouched(target, layers[i])
              /\ \A j \in DOMAIN layers : layers[i] = layers[j] => i = j
    /\ step \in {"checking", "connecting"} => layers # <<>>
    /\ step = "connecting" => InScope(checked)
=============================================================================
