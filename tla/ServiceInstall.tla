---------------------------- MODULE ServiceInstall ----------------------------
(***************************************************************************)
(* Installing, upgrading, repairing and removing the index service          *)
(* (src/file_index/worker/service: manage in mod.rs, lifecycle.rs,          *)
(* package.rs, scm.rs). The installer changes three things that can only be *)
(* changed one after the other: the payloads, the manifest and the Windows  *)
(* service. Each step can fail, and the installer can die before any of     *)
(* them. One installer runs at a time (lock.rs).                            *)
(*                                                                         *)
(* An operation is the sequence of its steps, todo; a step that fails goes  *)
(* on with its undo. MaxTroubles bounds what goes wrong, nothing else does.  *)
(***************************************************************************)
EXTENDS Naturals, Sequences, FiniteSets

CONSTANTS Builds, None, MaxTroubles

VARIABLES
    roots,      \* the protected directories exist
    payload,    \* the image of each build: "none", "torn" or "whole"
    manifest,   \* manifest.json, or None
    service,    \* the service: its image (or None) and whether it runs
    todo,       \* the steps the installer has still to do
    troubles    \* how often something went wrong
installation == <<roots, payload, manifest, service>>
vars == <<roots, payload, manifest, service, todo, troubles>>

Manifest == [current : Builds, previous : Builds \cup {None}, pending : BOOLEAN,
             recover_to : Builds \cup {None}, uninstalled : BOOLEAN]
Kinds == {"roots", "write", "flush", "verify", "save", "create", "configure", "start",
          "health", "stop", "delete", "verify all", "remove"}

Init ==
    /\ roots = FALSE /\ payload = [b \in Builds |-> "none"] /\ manifest = None
    /\ service = [image |-> None, running |-> FALSE]
    /\ todo = <<>> /\ troubles = 0

-----------------------------------------------------------------------------
(* The steps of each operation. *)

Step(kind, what) == [kind |-> kind, what |-> what, undo |-> <<>>]
Save(m) == Step("save", m)
OrElse(steps, undo) == [i \in DOMAIN steps |-> [steps[i] EXCEPT !.undo = undo]]
Begun == <<Step("start", None), Step("health", None)>>
Stage(b) == <<Step("write", b), Step("flush", b), Step("verify", b)>>
Roots == <<Step("roots", None)>>
Stop == Step("stop", None)
Delete == Step("delete", None)
Settled(m) == [m EXCEPT !.pending = FALSE, !.recover_to = None]

Installed == service.image # None
Trusted(m) == ~Installed \/ service.image \in {m.current, m.previous}
Known == manifest # None

\* manage, Install, with lifecycle::activate_new.
Installation(b) ==
    LET m == [current |-> b, previous |-> None, pending |-> TRUE, recover_to |-> None,
              uninstalled |-> FALSE]
    IN Roots \o Stage(b) \o <<Save(m), Step("verify", b), Step("create", b)>>
       \o OrElse(Begun, <<Stop, Delete>>) \o <<Save(Settled(m))>>

Switching(old, b) ==
    [old EXCEPT !.current = b, !.previous = old.current, !.pending = TRUE,
                !.recover_to = old.current]
Restoring(old, b) ==
    [old EXCEPT !.previous = b, !.pending = TRUE, !.recover_to = old.current]
\* Back to the version that was current.
Restore(old, b) ==
    <<Stop, Step("verify", old.current), Save(Restoring(old, b)),
      Step("configure", old.current)>> \o Begun \o <<Save(Settled(Restoring(old, b)))>>
\* lifecycle::switch.
Switched(old, b) ==
    <<Step("verify", b), Stop, Save(Switching(old, b))>>
    \o OrElse(<<Step("configure", b)>> \o Begun, Restore(old, b))
    \o <<Save(Settled(Switching(old, b)))>>
MaySwitch(old) == ~old.pending /\ ~old.uninstalled /\ Installed /\ Trusted(old)

\* What a repair goes back to.
Target(m) ==
    IF m.pending /\ m.recover_to # None /\ m.recover_to # m.current
    THEN [m EXCEPT !.current = m.recover_to, !.previous = m.current] ELSE m
\* lifecycle::repair.
Repaired(m) ==
    LET target == [Target(m) EXCEPT !.pending = TRUE]
    IN <<Stop, Step("verify", target.current), Save(target),
         Step(IF Installed THEN "configure" ELSE "create", target.current)>>
       \o OrElse(Begun, <<Stop>>)
       \o <<Save([Settled(target) EXCEPT !.uninstalled = FALSE])>>

Retained(m) ==
    [Settled(m) EXCEPT !.previous = None, !.uninstalled = TRUE]
\* Mutant: the payloads are removed before the manifest says that they are.
RemovedUnsaved(m) ==
    <<Stop, Delete, Step("verify all", None), Step("remove", None), Save(Retained(m))>>
\* Uninstall: lifecycle::uninstall, the manifest, remove_payloads.
Removed(m) ==
    <<Stop, Delete, Save(Retained(m)), Step("verify all", None), Step("remove", None)>>

-----------------------------------------------------------------------------
(* manage: the requests. *)

Ask(steps) ==
    /\ todo = <<>> /\ todo' = steps
    /\ UNCHANGED <<installation, troubles>>

Install(b) ==
    /\ ~Installed /\ (roots => Known /\ manifest.uninstalled)
    /\ Ask(Installation(b))
Upgrade(b) ==
    /\ Known
    /\ Ask(Stage(b) \o IF MaySwitch(manifest) THEN Switched(manifest, b) ELSE <<>>)
Repair(b) ==
    /\ Known
    /\ Ask((IF b = manifest.current THEN Stage(b) ELSE <<>>)
           \o IF Trusted(manifest) THEN Repaired(manifest) ELSE <<>>)
Rollback ==
    /\ Known /\ manifest.previous # None /\ MaySwitch(manifest)
    /\ Ask(Switched(manifest, manifest.previous))
Uninstall == Known /\ Trusted(manifest) /\ Ask(Removed(manifest))
StartService ==
    /\ Known /\ ~manifest.pending /\ ~manifest.uninstalled
    /\ service.image = manifest.current
    /\ Ask(<<Step("verify", manifest.current)>> \o Begun)
StopService == Known /\ Trusted(manifest) /\ Ask(<<Stop>>)

-----------------------------------------------------------------------------
(* The steps. *)

Kind == Head(todo).kind
What == Head(todo).what
Present == {b \in Builds : payload[b] # "none"}
Do ==
    /\ todo # <<>>
    /\ CASE Kind = "verify" -> payload[What] = "whole"
         [] Kind = "verify all" -> \A b \in Present : payload[b] = "whole"
         [] Kind \in {"configure", "start", "health"} -> Installed
         [] OTHER -> TRUE
    /\ roots' = (roots \/ Kind = "roots")
    /\ \/ /\ Kind = "write"
          /\ payload' = [payload EXCEPT ![What] = IF @ = "none" THEN "torn" ELSE @]
       \/ Kind = "flush" /\ payload' = [payload EXCEPT ![What] = "whole"]
       \/ Kind = "remove" /\ \E b \in Present : payload' = [payload EXCEPT ![b] = "none"]
       \/ Kind = "remove" /\ Present = {} /\ UNCHANGED payload
       \/ Kind \notin {"write", "flush", "remove"} /\ UNCHANGED payload
    /\ manifest' = IF Kind = "save" THEN What ELSE manifest
    /\ service' = CASE Kind = "create" -> [image |-> What, running |-> FALSE]
                    [] Kind = "configure" -> [service EXCEPT !.image = What]
                    [] Kind = "start" -> [service EXCEPT !.running = TRUE]
                    [] Kind = "stop" -> [service EXCEPT !.running = FALSE]
                    [] Kind = "delete" -> [image |-> None, running |-> FALSE]
                    [] OTHER -> service
    \* An image that is there is not written; payloads are removed one by one.
    /\ todo' = CASE Kind = "write" /\ payload[What] # "none" -> Tail(Tail(todo))
                 [] Kind = "remove" /\ Present # {} -> todo
                 [] OTHER -> Tail(todo)
    /\ UNCHANGED troubles

\* What a verification finds, or trouble: the step fails, and may have been
\* done in part (a start or stop that timed out, a service that was created
\* or configured and then not secured).
Refused ==
    \/ Kind = "verify" /\ payload[What] # "whole"
    \/ Kind = "verify all" /\ \E b \in Present : payload[b] # "whole"
    \/ Kind \in {"configure", "start", "health"} /\ ~Installed
Trouble == troubles < MaxTroubles /\ troubles' = troubles + 1
Fail ==
    /\ todo # <<>> /\ todo' = Head(todo).undo
    /\ IF Refused THEN UNCHANGED troubles ELSE Trouble
    /\ \/ UNCHANGED service
       \/ /\ Kind \in {"start", "stop"} /\ Installed
          /\ \E r \in BOOLEAN : service' = [service EXCEPT !.running = r]
       \/ Kind \in {"create", "configure"} /\ service' = [service EXCEPT !.image = What]
    /\ UNCHANGED <<roots, payload, manifest>>

\* The installer dies, or the machine does and starts the service again.
Die ==
    /\ todo # <<>> /\ todo' = <<>> /\ Trouble
    /\ service' \in {service, [service EXCEPT !.running = Installed]}
    /\ UNCHANGED <<roots, payload, manifest>>

Next ==
    \/ \E b \in Builds : Install(b) \/ Upgrade(b) \/ Repair(b)
    \/ Rollback \/ Uninstall \/ StartService \/ StopService
    \/ Do \/ Fail \/ Die
Spec == Init /\ [][Next]_vars

-----------------------------------------------------------------------------
TypeOK ==
    /\ roots \in BOOLEAN /\ payload \in [Builds -> {"none", "torn", "whole"}]
    /\ manifest \in Manifest \cup {None}
    /\ service \in [image : Builds \cup {None}, running : BOOLEAN]
    /\ \A i \in DOMAIN todo : todo[i].kind \in Kinds
    /\ troubles \in 0 .. MaxTroubles

\* Wherever an installer stopped, the next one recognises what it left: the
\* service has an image the manifest names, so that repair, uninstall and stop
\* do not refuse it; the version a repair goes back to is still there, whole;
\* an installation that calls itself settled has its current version started;
\* and the service never runs a version that is not there, or in part.
AlwaysRepairable ==
    /\ Known => /\ Installed => service.image \in {manifest.current, manifest.previous}
                /\ ~manifest.uninstalled => payload[Target(manifest).current] = "whole"
                /\ Installed /\ ~manifest.pending => service.image = manifest.current
    /\ service.running => payload[service.image] = "whole"

\* docs/plans/2026-10-10-p11-windows-index-service.md: an installation is
\* recoverable, and what fails leaves what it can be recovered from.  When no
\* installer is at work, there is something to repair, or room to install.
FailureIsRecoverable == todo = <<>> => (roots => Known)
=============================================================================
