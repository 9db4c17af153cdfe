--------------------------- MODULE ModelSettings ---------------------------
(***************************************************************************)
(* The configuration file and the keys of the model services:              *)
(* src/settings.rs, src/config.rs, src/credentials.rs, the setup dialogue  *)
(* of src/cli/setup.rs and the commands of src/cli.rs that write the       *)
(* configuration.  One desktop and one command line share the file and the *)
(* credential store of the system; each has keys of its own in memory.     *)
(*                                                                         *)
(* A service is an endpoint.  All services use one environment variable    *)
(* name, as the defaults of the program do.  A key is represented by the   *)
(* service it was typed for, or by Env when it comes from the environment; *)
(* what else the configuration holds is a mark.                            *)
(***************************************************************************)
EXTENDS Integers

CONSTANTS Services,
          Marks,        \* directories, language, budget, ...
          EnvKeySet,    \* the environment variable holds a key
          Env, None

VARIABLES file,         \* the configuration on disk
          stored,       \* the credential store of the system, per target
          desk,         \* the desktop: step, shown, draft, typed, persist
          deskKeys,     \* its keys in memory, per target
          line,         \* the command line: step, copy, service, candidate,
                        \* entered, persist
          lineKeys,     \* its keys in memory, per target
          sent,         \* <<service, key>> of every request made
          slipped       \* the command line wrote the file after the
                        \* comparison of the desktop's save under way

vars == <<file, stored, desk, deskKeys, line, lineKeys, sent, slipped>>

Keys == Services \union {Env, None}
Configs == [service : Services \union {None}, mark : Marks]
NoKeys == [t \in Services |-> None]

DeskAtRest == [step |-> "idle", shown |-> None, draft |-> None, typed |-> FALSE,
               persist |-> FALSE]
LineAtRest == [step |-> "out", copy |-> None, service |-> None, candidate |-> None,
               entered |-> FALSE, persist |-> FALSE]

Page == [step : {"idle", "storing", "writing"}, shown : Configs \union {None},
         draft : Configs \union {None}, typed : BOOLEAN, persist : BOOLEAN]
Command == [step : {"out", "in", "service", "key", "check", "again", "persist", "save",
                    "write", "keep", "chat"},
            copy : Configs \union {None}, service : Services \union {None},
            candidate : Keys, entered : BOOLEAN, persist : BOOLEAN]

TypeOK ==
  /\ file \in Configs
  /\ stored \in [Services -> Keys]
  /\ desk \in Page
  /\ deskKeys \in [Services -> Keys]
  /\ line \in Command
  /\ lineKeys \in [Services -> Keys]
  /\ sent \subseteq Services \X (Services \union {Env})
  /\ slipped \in BOOLEAN

Init ==
  /\ file \in Configs
  /\ stored = NoKeys
  /\ desk = DeskAtRest /\ deskKeys = NoKeys
  /\ line = LineAtRest /\ lineKeys = NoKeys
  /\ sent = {}
  /\ slipped = FALSE

\* Mutant: the name of a saved key leaves the endpoint out.
TargetByName(s) == CHOOSE t \in Services : TRUE

(* credentials::target: the name a key is kept under, in memory and in the  *)
(* store, is bound to the endpoint as well as to the variable's name.       *)
Target(s) == s

(* credentials::resolve: the process's own key, then the environment, then  *)
(* the store.                                                               *)
Resolve(s, own) ==
  IF own[Target(s)] # None THEN own[Target(s)]
  ELSE IF EnvKeySet THEN Env ELSE stored[Target(s)]

(* A request is made only with a key (ModelClient::with_key). *)
Requests(s, key) ==
  /\ key # None
  /\ sent' = sent \union {<<s, key>>}

(***************************************************************************)
(* The desktop                                                             *)
(***************************************************************************)

(* settings::read: what the settings page shows, with its revision. *)
Show ==
  /\ desk.step = "idle"
  /\ desk' = [desk EXCEPT !.shown = file]
  /\ UNCHANGED <<file, stored, deskKeys, line, lineKeys, sent, slipped>>

(* The page's configuration is the one on disk. *)
RevisionMatches == desk.shown = file

(* settings::save under WRITER, up to the first effect: the revision is     *)
(* compared and the update validated; a refused update changes nothing.     *)
(* A key comes with the service it was typed for, to keep or for this run.  *)
BeginSave ==
  /\ desk.step = "idle"
  /\ RevisionMatches
  /\ \E draft \in Configs, typed, persist \in BOOLEAN :
       /\ typed => draft.service # None
       /\ persist => typed
       /\ desk' = [desk EXCEPT !.step = IF persist THEN "storing" ELSE "writing",
                               !.draft = draft, !.typed = typed, !.persist = persist]
  /\ UNCHANGED <<file, stored, deskKeys, line, lineKeys, sent, slipped>>

SaveEnds(shown) ==
  /\ desk' = [DeskAtRest EXCEPT !.shown = shown]
  /\ slipped' = FALSE

(* Keys to keep go to the store before the configuration is written. *)
StoreKey ==
  /\ desk.step = "storing"
  /\ stored' = [stored EXCEPT ![Target(desk.draft.service)] = desk.draft.service]
  /\ desk' = [desk EXCEPT !.step = "writing"]
  /\ UNCHANGED <<file, deskKeys, line, lineKeys, sent, slipped>>

(* Config::save replaces the file in one step; then the process takes the   *)
(* keys for itself, and the page shows what was saved.                      *)
WriteFile ==
  /\ desk.step = "writing"
  /\ file' = desk.draft
  /\ deskKeys' = IF desk.typed
                 THEN [deskKeys EXCEPT ![Target(desk.draft.service)] = desk.draft.service]
                 ELSE deskKeys
  /\ SaveEnds(desk.draft)
  /\ UNCHANGED <<stored, line, lineKeys, sent>>

(* The store or the file refuses: an error, and the file is as it was.  A   *)
(* key that was stored stays stored.                                        *)
SaveFails ==
  /\ desk.step \in {"storing", "writing"}
  /\ SaveEnds(desk.shown)
  /\ UNCHANGED <<file, stored, deskKeys, line, lineKeys, sent>>

(* settings::test_connection, with a key typed for the service or with the  *)
(* key that a request would use.                                            *)
TestConnection ==
  /\ desk.step = "idle"
  /\ \E s \in Services : Requests(s, s) \/ Requests(s, Resolve(s, deskKeys))
  /\ UNCHANGED <<file, stored, desk, deskKeys, line, lineKeys, slipped>>

(* A request of a session, for the configured model. *)
DeskAsks ==
  /\ desk.step = "idle"
  /\ file.service # None
  /\ Requests(file.service, Resolve(file.service, deskKeys))
  /\ UNCHANGED <<file, stored, desk, deskKeys, line, lineKeys, slipped>>

(* The desktop ends, perhaps in the middle of a save, and starts again. *)
DeskRestarts ==
  /\ desk' = DeskAtRest
  /\ deskKeys' = NoKeys
  /\ slipped' = FALSE
  /\ UNCHANGED <<file, stored, line, lineKeys, sent>>

(***************************************************************************)
(* The command line                                                        *)
(***************************************************************************)

Line(step) == line' = [line EXCEPT !.step = step]

(* cli::run loads the configuration once. *)
LineStarts ==
  /\ line.step = "out"
  /\ line' = [LineAtRest EXCEPT !.step = "in", !.copy = file]
  /\ UNCHANGED <<file, stored, desk, deskKeys, lineKeys, sent, slipped>>

(* config add-read, add-write, model and clear-model change the copy and    *)
(* save it; setup may skip the model and change the directories only.       *)
EditCopy ==
  /\ \/ /\ line.step = "in"
        /\ \E config \in Configs :
             line' = [line EXCEPT !.step = "write", !.copy = config]
     \/ /\ line.step = "service"
        /\ \E mark \in Marks :
             line' = [line EXCEPT !.step = "save", !.copy.mark = mark]
  /\ UNCHANGED <<file, stored, desk, deskKeys, lineKeys, sent, slipped>>

BeginSetup ==
  /\ line.step = "in"
  /\ Line("service")
  /\ UNCHANGED <<file, stored, desk, deskKeys, lineKeys, sent, slipped>>

(* A listed service, a typed address, or the current one. *)
ChooseService ==
  /\ line.step = "service"
  /\ \E s \in Services : line' = [line EXCEPT !.step = "key", !.service = s]
  /\ UNCHANGED <<file, stored, desk, deskKeys, lineKeys, sent, slipped>>

(* read_key: a typed key, or with an empty answer the one that resolves. *)
ReadKey ==
  /\ line.step = "key"
  /\ \E typed \in BOOLEAN :
       line' = [line EXCEPT !.step = "check", !.entered = typed,
                  !.candidate = IF typed THEN line.service ELSE Resolve(line.service, lineKeys)]
  /\ UNCHANGED <<file, stored, desk, deskKeys, lineKeys, sent, slipped>>

(* with_key and check_client: without a key no request is made and the      *)
(* dialogue asks what to change; after an answer it goes on or asks.        *)
CheckConnection ==
  /\ line.step = "check"
  /\ \/ line.candidate = None /\ Line("again") /\ UNCHANGED sent
     \/ /\ Requests(line.service, line.candidate)
        /\ Line("again") \/ Line("persist")
     \/ line.candidate # None /\ Line("persist") /\ UNCHANGED sent       \* skipped
  /\ UNCHANGED <<file, stored, desk, deskKeys, lineKeys, slipped>>

(* Another key; another model name or another try. *)
AskAgain ==
  /\ line.step = "again"
  /\ Line("key") \/ Line("check")
  /\ UNCHANGED <<file, stored, desk, deskKeys, lineKeys, sent, slipped>>

(* edit_endpoint, entered = false, read_key. *)
EditAddress(s) ==
  line' = [line EXCEPT !.step = "key", !.service = s, !.entered = FALSE]

AskAddress ==
  /\ line.step = "again"
  /\ \E s \in Services : EditAddress(s)
  /\ UNCHANGED <<file, stored, desk, deskKeys, lineKeys, sent, slipped>>

(* The end of prepare: an entered key is for this run or to keep; the new   *)
(* model goes into the copy, with whatever roots were chosen.               *)
EndDialogue ==
  /\ line.step = "persist"
  /\ \E persist \in BOOLEAN, mark \in Marks :
       /\ persist => line.entered
       /\ line' = [line EXCEPT !.step = "save", !.persist = persist,
                     !.copy = [service |-> line.service, mark |-> mark]]
  /\ UNCHANGED <<file, stored, desk, deskKeys, lineKeys, sent, slipped>>

(* Config::save of the copy, whatever the file holds by now.  config ends   *)
(* there, setup goes on with the key.                                       *)
LineWrites ==
  /\ line.step \in {"save", "write"}
  /\ file' = line.copy
  /\ line' = IF line.step = "write" THEN LineAtRest
             ELSE [line EXCEPT !.step = IF line.entered THEN "keep" ELSE "chat"]
  /\ slipped' = (slipped \/ desk.step # "idle")
  /\ UNCHANGED <<stored, desk, deskKeys, lineKeys, sent>>

(* set_session, then credentials::save when asked for; its failure is told  *)
(* and nothing else comes of it.                                            *)
KeepKey ==
  /\ line.step = "keep"
  /\ lineKeys' = [lineKeys EXCEPT ![Target(line.service)] = line.candidate]
  /\ \/ line.persist /\ stored' = [stored EXCEPT ![Target(line.service)] = line.candidate]
     \/ UNCHANGED stored
  /\ Line("chat")
  /\ UNCHANGED <<file, desk, deskKeys, sent, slipped>>

(* Without a command the program goes on to talk to the configured model,   *)
(* straight away or after setup.                                            *)
LineAsks ==
  /\ line.step \in {"in", "chat"}
  /\ line.copy.service # None
  /\ Requests(line.copy.service, Resolve(line.copy.service, lineKeys))
  /\ Line("chat")
  /\ UNCHANGED <<file, stored, desk, deskKeys, lineKeys, slipped>>

(* The command ends, is cancelled or dies. *)
LineEnds ==
  /\ line.step # "out"
  /\ line' = LineAtRest
  /\ lineKeys' = NoKeys
  /\ UNCHANGED <<file, stored, desk, deskKeys, sent, slipped>>

Desktop == Show \/ BeginSave \/ StoreKey \/ WriteFile \/ SaveFails \/ TestConnection
             \/ DeskAsks \/ DeskRestarts
CommandLine == LineStarts \/ EditCopy \/ BeginSetup \/ ChooseService \/ ReadKey
                 \/ CheckConnection \/ AskAgain \/ AskAddress \/ EndDialogue
                 \/ LineWrites \/ KeepKey \/ LineAsks \/ LineEnds
Next == Desktop \/ CommandLine

Spec == Init /\ [][Next]_vars

(***************************************************************************)
(* Properties                                                              *)
(***************************************************************************)

(* A key typed for one service is never sent to another, by neither         *)
(* program, whatever was retried in the dialogue, saved, stored or left     *)
(* behind by a save that failed ("Saved keys are endpoint-bound",           *)
(* src/credentials.rs:1; "Never send the previous endpoint's key to a new   *)
(* endpoint implicitly", src/cli/setup.rs:221).  A key of the environment   *)
(* has only a name, so it goes wherever the configuration says.             *)
KeysStayHome == \A request \in sent : request[2] \in {request[1], Env}

(* A save of the settings page writes over the configuration that the page  *)
(* showed (src/settings.rs:126-129), unless the command line wrote the file *)
(* between the comparison and the write.  The command line itself makes no  *)
(* comparison, so its writes are not in the property.                       *)
WritesOverShown ==
  (desk.step = "writing" /\ desk'.step = "idle" /\ file' # file)
    => file = desk.shown \/ slipped

(* Keys are kept where the service they were typed for looks for them. *)
AtHome(keys) == \A s \in Services : keys[s] \in {s, Env, None}

(* The key in the hands of the dialogue is for the service it is about, from *)
(* where it is read to where it is kept; before that nothing counts as       *)
(* entered.                                                                  *)
InDialogue ==
  /\ line.step # "out" => line.copy \in Configs
  /\ line.step \in {"in", "service"} => ~line.entered
  /\ line.step \in {"key", "check", "again", "persist", "keep"} => line.service \in Services
  /\ line.step \in {"check", "again", "persist", "keep"} => line.candidate \in {line.service, Env, None}
  /\ line.step = "save" /\ line.entered
       => line.service \in Services /\ line.candidate \in {line.service, Env, None}

(* A save under way is of a configuration the page showed. *)
InSave == desk.step # "idle" => desk.draft \in Configs /\ (file = desk.shown \/ slipped)

(* The inductive invariant. *)
Inductive ==
  /\ TypeOK /\ InDialogue /\ InSave /\ KeysStayHome
  /\ AtHome(stored) /\ AtHome(deskKeys) /\ AtHome(lineKeys)
=============================================================================
