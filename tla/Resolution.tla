----------------------------- MODULE Resolution -----------------------------
(* What the runs of a process share while they resolve themselves: the plugin *)
(* file of a project, the registry of secret resolvers with the entry points  *)
(* it loads on first use (secrets/resolvers.py), and the scope a connector's  *)
(* decorators register in while it is imported (registry.py,                  *)
(* engine/discovery.py).  run_tag resolves its pipelines on several threads,  *)
(* and a program may call run() from threads of its own.                      *)
EXTENDS Layers

CONSTANTS
    Thread, Pipeline, Project,
    Scheme,        \* the schemes of secret:// references
    Installed,     \* those that entry points of installed packages provide
    Broken,        \* those of them whose package does not import
    Plugins,       \* [Project -> Seq(Scheme)]: what dtex_plugins.py registers, in order
    BadFiles,      \* the projects whose dtex_plugins.py raises at its end
    ProjectOf,     \* [Pipeline -> Project]
    Manifest,      \* [Pipeline -> sets of streams]: what its source's register.yaml declares
    Code,          \* [Pipeline -> sequences of streams]: what its source's decorators register
    Refs,          \* [Pipeline -> sequences of secret references]
    Unset,         \* environment variables and profile keys that are not there
    MaxRuns,       \* bound: runs of the process
    MaxFaults      \* bound: factories and resolvers that raise

EntryPoint == "entry point"
Reference == [form : {"env", "profile", "url"}, name : STRING, optional : BOOLEAN]

ASSUME ResolutionAssumption ==
    /\ None \notin Thread \cup Project /\ EntryPoint \notin Project /\ Pipeline # {}
    /\ Installed \subseteq Scheme
    /\ Plugins \in [Project -> Seq(Scheme)]
    \* a file that registers a scheme twice raises
    /\ \A q \in Project \ BadFiles : \A i, j \in DOMAIN Plugins[q] :
          Plugins[q][i] = Plugins[q][j] => i = j
    /\ ProjectOf \in [Pipeline -> Project]
    /\ \A p \in Pipeline : Code[p] \in Seq({Code[p][i] : i \in DOMAIN Code[p]})
    /\ Refs \in [Pipeline -> Seq(Reference)]
    /\ \A p \in Pipeline : \A i \in DOMAIN Refs[p] :
          Refs[p][i].form = "url" => Refs[p][i].name \in Scheme
    /\ MaxRuns \in Nat /\ MaxFaults \in Nat

VARIABLES
    factory,     \* _RESOLVERS: who registered a scheme, a project or the entry points
    scanner,     \* _ENTRY_POINTS_LOADED, and the thread that set it
    todo,        \* the entry points that thread has not looked at
    instance,    \* _RESOLVER_INSTANCES
    loaded,      \* _LOADED_PROJECTS
    lock,        \* _PROJECT_PLUGINS_LOCK
    phase, pipe,
    step,        \* the next registration or reference of a thread
    registry,    \* the registry of the scope a thread has open
    mine,        \* the resolver a thread has in hand
    used,        \* the resolver each scheme of its run was resolved through
    got,         \* the references of its run that have a value
    reason,      \* why its run failed
    disturbed,   \* threads for whom sys.modules has changed since they began to
                 \* look through it
    runs, faults

shared == <<factory, scanner, todo, instance, loaded, lock>>
local == <<phase, pipe, step, registry, mine, used, got, reason>>
vars == <<shared, local, runs, faults, disturbed>>

Nobody == [by |-> None, of |-> None]
Ended == {"idle", "done", "failed"}
Plain == {"env", "profile"}

Init ==
    /\ factory = [s \in Scheme |-> None]
    /\ scanner = None /\ todo = {} /\ loaded = {} /\ lock = None
    /\ instance = [s \in Scheme |-> Nobody]
    /\ phase = [t \in Thread |-> "idle"]
    /\ pipe = [t \in Thread |-> CHOOSE p \in Pipeline : TRUE]
    /\ runs = 0
    /\ step = [t \in Thread |-> 1]
    /\ registry = [t \in Thread |-> {}]
    /\ mine = [t \in Thread |-> Nobody]
    /\ used = [t \in Thread |-> [s \in Scheme |-> Nobody]]
    /\ got = [t \in Thread |-> {}]
    /\ reason = [t \in Thread |-> None]
    /\ faults = 0 /\ disturbed = {}

Goto(t, ph) == phase' = [phase EXCEPT ![t] = ph]
Fail(t, why) == Goto(t, "failed") /\ reason' = [reason EXCEPT ![t] = why]
Proj(t) == ProjectOf[pipe[t]]

\* A thread puts a module into sys.modules or takes one out, while others look
\* through it.
Lookers(t) == {u \in Thread \ {t} : phase[u] = "leave"}
Disturb(t) == disturbed' = disturbed \cup Lookers(t)

\* A thread takes the next pipeline.
Start(t) ==
    /\ phase[t] \in Ended /\ runs < MaxRuns
    /\ \E p \in Pipeline : pipe' = [pipe EXCEPT ![t] = p]
    /\ runs' = runs + 1
    /\ step' = [step EXCEPT ![t] = 1]
    /\ mine' = [mine EXCEPT ![t] = Nobody]
    /\ used' = [used EXCEPT ![t] = [s \in Scheme |-> Nobody]]
    /\ got' = [got EXCEPT ![t] = {}]
    /\ reason' = [reason EXCEPT ![t] = None]
    /\ Goto(t, "plugins")
    /\ UNCHANGED <<shared, registry, faults, disturbed>>

-----------------------------------------------------------------------------
(* load_project_plugins: the file of a project is executed once, under a      *)
(* lock, and again as long as it raises.                                      *)

\* Mutant of EnterPlugins: the lock is taken to look, not while the file runs.
EnterPluginsUnlocked(t) ==
    /\ phase[t] = "plugins"
    /\ Goto(t, IF Proj(t) \in loaded THEN "import" ELSE "file")
    /\ UNCHANGED <<shared, pipe, runs, step, registry, mine, used, got, reason, faults, disturbed>>

EnterPlugins(t) ==
    /\ phase[t] = "plugins" /\ lock = None
    /\ IF Proj(t) \in loaded THEN Goto(t, "import") /\ UNCHANGED <<lock, disturbed>>
       ELSE Goto(t, "file") /\ lock' = t /\ Disturb(t)
    /\ UNCHANGED <<factory, scanner, todo, instance, loaded,
                   pipe, runs, step, registry, mine, used, got, reason, faults>>

\* register_secret_resolver: the first registration of a scheme stays.
Register(t) ==
    LET file == Plugins[Proj(t)]
    IN  /\ phase[t] = "file" /\ step[t] \in DOMAIN file
        /\ IF factory[file[step[t]]] # None
           THEN Fail(t, "plugins") /\ lock' = None /\ Disturb(t) /\ UNCHANGED <<factory, step>>
           ELSE /\ factory' = [factory EXCEPT ![file[step[t]]] = Proj(t)]
                /\ step' = [step EXCEPT ![t] = @ + 1]
                /\ UNCHANGED <<phase, reason, lock, disturbed>>
        /\ UNCHANGED <<scanner, todo, instance, loaded, pipe, runs, registry, mine, used, got, faults>>

LeavePlugins(t) ==
    /\ phase[t] = "file" /\ step[t] > Len(Plugins[Proj(t)])
    /\ lock' = None
    /\ IF Proj(t) \in BadFiles
       THEN Fail(t, "plugins") /\ Disturb(t) /\ UNCHANGED <<loaded, step>>
       ELSE /\ loaded' = loaded \cup {Proj(t)}
            /\ step' = [step EXCEPT ![t] = 1]
            /\ Goto(t, "import") /\ UNCHANGED <<reason, disturbed>>
    /\ UNCHANGED <<factory, scanner, todo, instance, pipe, runs, registry, mine, used, got, faults>>

-----------------------------------------------------------------------------
(* _load_connector_folder: a fresh registry is in force while the files of    *)
(* the connector run, and their decorators register in the one in force.      *)
(* Their modules are in sys.modules meanwhile, which all threads share.       *)
OpenScope(t) ==
    /\ phase[t] = "import"
    /\ registry' = [registry EXCEPT ![t] = {}]
    /\ Goto(t, "code") /\ Disturb(t)
    /\ UNCHANGED <<shared, pipe, runs, step, mine, used, got, reason, faults>>

\* Mutant of Active: a global variable instead of a context variable.
ActiveInProcess(t) == CHOOSE u \in Thread : phase[u] = "code"

\* _active: each thread has a context of its own.
Active(t) == t

\* add_stream: a name that is registered twice ends the import.
Decorate(t) ==
    LET u == Active(t)
        name == Code[pipe[t]][step[t]]
    IN  /\ phase[t] = "code" /\ step[t] \in DOMAIN Code[pipe[t]]
        /\ IF name \in registry[u]
           THEN /\ Goto(t, "leave") /\ disturbed' = disturbed \ {t}
                /\ reason' = [reason EXCEPT ![t] = "connector"]
                /\ UNCHANGED <<registry, step>>
           ELSE /\ registry' = [registry EXCEPT ![u] = @ \cup {name}]
                /\ step' = [step EXCEPT ![t] = @ + 1]
                /\ UNCHANGED <<phase, reason, disturbed>>
        /\ UNCHANGED <<shared, pipe, runs, mine, used, got, faults>>

\* The next file of a connector; and what any file, package or factory, or a run
\* that is under way, imports when it comes to it.
ImportMore(t) ==
    /\ phase[t] \in {"file", "code", "scan", "build", "resolve", "done"}
    /\ ~(Lookers(t) \subseteq disturbed)
    /\ Disturb(t)
    /\ UNCHANGED <<shared, local, runs, faults>>

\* All files have run: the thread looks through sys.modules for its own.
LeaveScope(t) ==
    /\ phase[t] = "code" /\ step[t] > Len(Code[pipe[t]])
    /\ Goto(t, "leave") /\ disturbed' = disturbed \ {t}
    /\ UNCHANGED <<shared, pipe, runs, step, registry, mine, used, got, reason, faults>>

\* It takes them out, and what is declared is registered, and nothing else
\* (validate_connector).  Nothing is locked: where sys.modules has changed under
\* the loop, the loop may raise, whatever the import came to.
CloseScope(t) ==
    /\ phase[t] = "leave"
    /\ \/ t \in disturbed /\ Fail(t, "modules") /\ UNCHANGED <<step, disturbed>>
       \/ /\ Disturb(t)
          /\ step' = [step EXCEPT ![t] = 1]
          /\ IF reason[t] = None /\ registry[t] = Manifest[pipe[t]]
             THEN Goto(t, "secrets") /\ UNCHANGED reason
             ELSE Fail(t, "connector")
    /\ UNCHANGED <<shared, pipe, runs, registry, mine, used, got, faults>>

-----------------------------------------------------------------------------
(* resolve_secrets: reference by reference; an optional one may be missing.   *)
Ref(t) == Refs[pipe[t]][step[t]]
Left(t) == step[t] \in DOMAIN Refs[pipe[t]]
Obtained(t) ==
    /\ got' = [got EXCEPT ![t] = @ \cup {step[t]}]
    /\ step' = [step EXCEPT ![t] = @ + 1]
    /\ Goto(t, "secrets") /\ UNCHANGED reason

Unresolved(t) ==
    /\ UNCHANGED got
    /\ IF Ref(t).optional
       THEN step' = [step EXCEPT ![t] = @ + 1] /\ Goto(t, "secrets") /\ UNCHANGED reason
       ELSE Fail(t, "secret") /\ UNCHANGED step

\* resolve_secret_ref: ${env.X} and ${profile.X.Y}.
ReadPlain(t) ==
    /\ phase[t] = "secrets" /\ Left(t) /\ Ref(t).form \in Plain
    /\ IF Ref(t).name \in Unset THEN Unresolved(t) ELSE Obtained(t)
    /\ UNCHANGED <<shared, pipe, runs, registry, mine, used, faults, disturbed>>

\* _load_entry_points: the first thread that looks up a scheme loads them ...
FirstLookup(t) ==
    /\ phase[t] = "secrets" /\ Left(t) /\ Ref(t).form = "url"
    /\ IF scanner # None THEN Goto(t, "lookup") /\ UNCHANGED <<scanner, todo>>
       ELSE Goto(t, "scan") /\ scanner' = t /\ todo' = Installed
    /\ UNCHANGED <<factory, instance, loaded, lock,
                   pipe, runs, step, registry, mine, used, got, reason, faults, disturbed>>

\* ... one after the other; one that does not import is left out, and one whose
\* scheme is taken too.
LoadEntryPoint(t) ==
    /\ phase[t] = "scan"
    /\ \E s \in todo :
          /\ todo' = todo \ {s}
          /\ factory' = IF s \in Broken \/ factory[s] # None THEN factory
                        ELSE [factory EXCEPT ![s] = EntryPoint]
    /\ UNCHANGED <<scanner, instance, loaded, lock, local, runs, faults, disturbed>>

Scanned(t) ==
    /\ phase[t] = "scan" /\ todo = {}
    /\ Goto(t, "lookup")
    /\ UNCHANGED <<shared, pipe, runs, step, registry, mine, used, got, reason, faults, disturbed>>

\* _get_resolver: the instance there is, or the factory, or nothing.
Lookup(t) ==
    LET s == Ref(t).name
    IN  /\ phase[t] = "lookup"
        /\ \/ /\ instance[s] # Nobody
              /\ mine' = [mine EXCEPT ![t] = instance[s]]
              /\ Goto(t, "resolve") /\ UNCHANGED <<step, got, reason>>
           \/ /\ instance[s] = Nobody /\ factory[s] # None
              /\ mine' = [mine EXCEPT ![t] = [by |-> factory[s], of |-> <<t, runs>>]]
              /\ Goto(t, "build") /\ UNCHANGED <<step, got, reason>>
           \/ /\ instance[s] = Nobody /\ factory[s] = None
              /\ Unresolved(t) /\ UNCHANGED mine
        /\ UNCHANGED <<shared, pipe, runs, registry, used, faults, disturbed>>

\* Mutant of Publish: a thread keeps the instance it has built.
PublishLast(t) ==
    /\ phase[t] = "build"
    /\ instance' = [instance EXCEPT ![Ref(t).name] = mine[t]]
    /\ Goto(t, "resolve")
    /\ UNCHANGED <<factory, scanner, todo, loaded, lock,
                   pipe, runs, step, registry, mine, used, got, reason, faults, disturbed>>

\* The factory is called outside the lock; the first instance there is stays.
Publish(t) ==
    LET s == Ref(t).name
    IN  /\ phase[t] = "build"
        /\ IF instance[s] # Nobody
           THEN mine' = [mine EXCEPT ![t] = instance[s]] /\ UNCHANGED instance
           ELSE instance' = [instance EXCEPT ![s] = mine[t]] /\ UNCHANGED mine
        /\ Goto(t, "resolve")
        /\ UNCHANGED <<factory, scanner, todo, loaded, lock,
                       pipe, runs, step, registry, used, got, reason, faults, disturbed>>

\* The resolver asks its secret manager, and its answer is a string ...
Resolve(t) ==
    /\ phase[t] = "resolve"
    /\ used' = [used EXCEPT ![t][Ref(t).name] = mine[t]]
    /\ Obtained(t)
    /\ UNCHANGED <<shared, pipe, runs, registry, mine, faults, disturbed>>

\* ... or, as when a factory does not work, an exception: nothing there, no
\* permission, no text, no such field.
Raises(t) ==
    /\ phase[t] \in {"build", "resolve"} /\ faults < MaxFaults
    /\ faults' = faults + 1
    /\ Unresolved(t)
    /\ UNCHANGED <<shared, pipe, runs, registry, mine, used, disturbed>>

Resolved(t) ==
    /\ phase[t] = "secrets" /\ ~Left(t)
    /\ Goto(t, "done")
    /\ UNCHANGED <<shared, pipe, runs, step, registry, mine, used, got, reason, faults, disturbed>>

-----------------------------------------------------------------------------
Step(t) ==
    \/ EnterPlugins(t) \/ Register(t) \/ LeavePlugins(t)
    \/ OpenScope(t) \/ Decorate(t) \/ ImportMore(t) \/ LeaveScope(t) \/ CloseScope(t)
    \/ ReadPlain(t) \/ FirstLookup(t) \/ LoadEntryPoint(t) \/ Scanned(t)
    \/ Lookup(t) \/ Publish(t) \/ Resolve(t) \/ Raises(t) \/ Resolved(t)
\* Every run has its answer; in any other state without a step somebody waits
\* for ever, and TLC says so.
Over == runs = MaxRuns /\ (\A t \in Thread : phase[t] \in Ended) /\ UNCHANGED vars
Next == (\E t \in Thread : Start(t) \/ Step(t)) \/ Over
Spec == Init /\ [][Next]_vars

-----------------------------------------------------------------------------
(* The type of every variable.                                                *)
Instances == [by : Project \cup {EntryPoint}, of : Thread \X (1..MaxRuns)] \cup {Nobody}
Phases == Ended \cup {"plugins", "file", "import", "code", "leave", "secrets",
                      "scan", "lookup", "build", "resolve"}
TypeOK ==
    /\ factory \in [Scheme -> Project \cup {EntryPoint, None}]
    /\ scanner \in Thread \cup {None} /\ todo \subseteq Installed
    /\ instance \in [Scheme -> Instances]
    /\ loaded \subseteq Project /\ lock \in Thread \cup {None}
    /\ phase \in [Thread -> Phases]
    /\ pipe \in [Thread -> Pipeline] /\ runs \in 0..MaxRuns
    /\ step \in [Thread -> Nat \ {0}] /\ got \in [Thread -> SUBSET Nat]
    /\ DOMAIN registry = Thread
    /\ \A t \in Thread : phase[t] # "idle" => runs # 0
    /\ mine \in [Thread -> Instances] /\ used \in [Thread -> [Scheme -> Instances]]
    /\ reason \in [Thread -> {None, "plugins", "connector", "modules", "secret"}]
    /\ faults \in 0..MaxFaults /\ disturbed \subseteq Thread

(* Threads that use a scheme for the first time at the same moment each build *)
(* a resolver; every secret of the process still comes out of one and the     *)
(* same.                                                                      *)
OneResolver ==
    \A t \in Thread, s \in Scheme : used[t][s] \in {Nobody, instance[s]}

(* "Project-local always wins" (secrets/resolvers.py): a run never resolves a *)
(* scheme that its project's dtex_plugins.py registers through anything else, *)
(* whenever entry points are loaded and by whomever.                          *)
LocalWins ==
    \A t \in Thread : \A i \in DOMAIN Plugins[Proj(t)] :
        LET s == Plugins[Proj(t)][i] IN used[t][s] = Nobody \/ used[t][s].by = Proj(t)

(* A plugin file that is sound is executed once, however many runs want it at *)
(* the same time: a run fails over it only when somebody else, another        *)
(* project or an entry point, had one of its schemes first.                   *)
SoundFilesLoad ==
    \A t \in Thread : reason[t] = "plugins" =>
        \/ Proj(t) \in BadFiles
        \/ \E i \in DOMAIN Plugins[Proj(t)] : factory[Plugins[Proj(t)][i]] \notin {None, Proj(t)}

(* A secret comes out of the one resolver of its scheme, the project's own    *)
(* where it brings one.                                                       *)
OneOwnResolver == OneResolver /\ LocalWins

(* Connectors imported at the same time do not mix: one whose decorators and  *)
(* register.yaml disagree is never accepted, and one where they agree is      *)
(* accepted, with exactly its own streams, with one exception: the loop over  *)
(* sys.modules that ends an import (discovery.py:333) may raise when another  *)
(* thread has imported something since it began.                              *)
Sound(p) == /\ {Code[p][i] : i \in DOMAIN Code[p]} = Manifest[p]
            /\ \A i, j \in DOMAIN Code[p] : Code[p][i] = Code[p][j] => i = j
RegistriesAreOwn ==
    \A t \in Thread :
        /\ reason[t] = "connector" => ~Sound(pipe[t])
        /\ reason[t] = "modules" => t \in disturbed
        /\ phase[t] \in {"secrets", "scan", "lookup", "build", "resolve", "done"}
              => Sound(pipe[t]) /\ registry[t] = Manifest[pipe[t]]

(* A run that goes on has every secret it cannot do without.                  *)
RequiredAreThere ==
    \A t \in Thread : phase[t] = "done" =>
        \A i \in DOMAIN Refs[pipe[t]] : Refs[pipe[t]][i].optional \/ i \in got[t]

(* What the layers and names of a run decide (Layers) is a function of its    *)
(* input: TLC looks at it once, before anything runs.                         *)
Fresh == runs = 0

(* docs/03-source-spec.md: a parameter has the value of the highest layer     *)
(* that mentions it, and no value of a wrong type gets past a declaration; the*)
(* streams, the target and the folder of a run are those that its config, its *)
(* profile and its project name, or the run does not begin.                   *)
ResolvedAsWritten == Fresh => Precedence /\ NamesDecide
=============================================================================
