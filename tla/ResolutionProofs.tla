-------------------------- MODULE ResolutionProofs --------------------------
(* Proofs about Resolution for any number of threads, runs, projects and      *)
(* secrets: the plugin files of projects load once, connectors imported side  *)
(* by side do not mix, and every secret comes out of the one resolver its     *)
(* scheme has, the project's own where it brings one; and the layers of the   *)
(* configuration and the names it gives decide what a run is made of.         *)
EXTENDS Resolution, TLAPS, SequenceTheorems, WellFoundedInduction

AfterPlugins == {"import", "code", "leave", "secrets", "scan", "lookup", "build", "resolve", "done"}
AfterImport == AfterPlugins \ {"import", "code", "leave"}
InLookup == {"scan", "lookup", "build", "resolve"}

\* What the constants of a run are.
LEMMA RunOf ==
    ASSUME TypeOK, NEW t \in Thread
    PROVE  /\ Proj(t) \in Project /\ Plugins[Proj(t)] \in Seq(Scheme)
           /\ Refs[pipe[t]] \in Seq(Reference)
           /\ DOMAIN Code[pipe[t]] = 1..Len(Code[pipe[t]]) /\ Len(Code[pipe[t]]) \in Nat
           /\ step[t] \in Nat \ {0}
  <1>1. pipe[t] \in Pipeline /\ step[t] \in Nat \ {0}
    BY DEF TypeOK
  <1>2. Code[pipe[t]] \in Seq({Code[pipe[t]][i] : i \in DOMAIN Code[pipe[t]]})
    BY <1>1, ResolutionAssumption DEF ResolutionAssumption
  <1>3. DOMAIN Code[pipe[t]] = 1..Len(Code[pipe[t]]) /\ Len(Code[pipe[t]]) \in Nat
    BY <1>2
  <1> QED  BY <1>1, <1>3, ResolutionAssumption DEF ResolutionAssumption, Proj

\* The scheme of a secret a thread looks up, when there is one to look up.
LEMMA SchemeOf ==
    ASSUME TypeOK, NEW t \in Thread, Left(t), Ref(t).form = "url"
    PROVE  Ref(t).name \in Scheme
  <1>1. pipe[t] \in Pipeline
    BY DEF TypeOK
  <1> QED  BY <1>1, ResolutionAssumption DEF ResolutionAssumption, Left, Ref

-----------------------------------------------------------------------------
\* A thread that looks a secret up has one to look up.
LookupInv == \A t \in Thread : phase[t] \in InLookup => Left(t) /\ Ref(t).form = "url"

\* What an unresolved reference does to a run.
LEMMA UnresolvedType ==
    ASSUME TypeOK, NEW t \in Thread, Unresolved(t)
    PROVE  /\ \E p \in {"secrets", "failed"} : phase' = [phase EXCEPT ![t] = p]
           /\ \E n \in Nat \ {0} : step' = [step EXCEPT ![t] = n]
           /\ \E why \in {reason[t], "secret"} : reason' = [reason EXCEPT ![t] = why]
           /\ got' = got
  <1>1. step[t] \in Nat \ {0} /\ step = [step EXCEPT ![t] = step[t]]
        /\ reason = [reason EXCEPT ![t] = reason[t]]
    BY DEF TypeOK
  <1> QED  BY <1>1 DEF Unresolved, Goto, Fail

\* What a secret that is there does to a run.
LEMMA ObtainedType ==
    ASSUME TypeOK, NEW t \in Thread, Obtained(t)
    PROVE  /\ phase' = [phase EXCEPT ![t] = "secrets"] /\ reason' = reason
           /\ \E n \in Nat \ {0} : step' = [step EXCEPT ![t] = n]
           /\ got' \in [Thread -> SUBSET Nat]
  <1>1. step[t] \in Nat \ {0} /\ step[t] + 1 \in Nat \ {0}
        /\ (got[t] \cup {step[t]}) \in SUBSET Nat
    BY DEF TypeOK
  <1> QED  BY <1>1 DEF Obtained, Goto, TypeOK

\* What a step of a run makes of the phase, the reason and the step.
Reasons == {None, "plugins", "connector", "modules", "secret"}
LEMMA Moves ==
    ASSUME TypeOK, NEW t \in Thread, phase[t] # "idle", UNCHANGED <<pipe, runs>>,
           \/ phase' = phase
           \/ \E p \in Phases \ {"idle"} : phase' = [phase EXCEPT ![t] = p],
           reason' = reason \/ \E why \in Reasons : reason' = [reason EXCEPT ![t] = why],
           step' = step \/ \E n \in Nat \ {0} : step' = [step EXCEPT ![t] = n]
    PROVE  /\ phase' \in [Thread -> Phases] /\ reason' \in [Thread -> Reasons]
           /\ step' \in [Thread -> Nat \ {0}]
           /\ pipe' \in [Thread -> Pipeline] /\ runs' \in 0..MaxRuns
           /\ \A x \in Thread : phase'[x] # "idle" => runs' # 0
  <1>1. runs # 0
    BY DEF TypeOK
  <1>2. phase' \in [Thread -> Phases] /\ pipe' \in [Thread -> Pipeline] /\ runs' = runs
        /\ runs \in 0..MaxRuns
    BY DEF TypeOK
  <1>3. reason' \in [Thread -> Reasons]
    BY DEF TypeOK, Reasons
  <1>4. step' \in [Thread -> Nat \ {0}]
    BY DEF TypeOK
  <1> QED  BY <1>1, <1>2, <1>3, <1>4

\* The plugin file of a project.
LEMMA PluginTypes ==
    ASSUME TypeOK, NEW t \in Thread, EnterPlugins(t) \/ Register(t) \/ LeavePlugins(t)
    PROVE  TypeOK'
  <1>1. /\ Proj(t) \in Project /\ Plugins[Proj(t)] \in Seq(Scheme) /\ step[t] \in Nat \ {0}
        /\ phase[t] # "idle" /\ step[t] + 1 \in Nat \ {0}
    BY RunOf DEF EnterPlugins, Register, LeavePlugins
  <1>2. UNCHANGED <<scanner, todo, instance, pipe, runs, registry, mine, used, got, faults>>
    BY DEF EnterPlugins, Register, LeavePlugins
  <1>3. /\ \/ phase' = phase
           \/ \E p \in Phases \ {"idle"} : phase' = [phase EXCEPT ![t] = p]
        /\ reason' = reason \/ \E why \in Reasons : reason' = [reason EXCEPT ![t] = why]
        /\ step' = step \/ \E n \in Nat \ {0} : step' = [step EXCEPT ![t] = n]
    <2>1. CASE EnterPlugins(t)
      BY <2>1 DEF EnterPlugins, Goto, Phases
    <2>2. CASE Register(t)
      BY <1>1, <2>2 DEF Register, Fail, Goto, Phases, Ended, Reasons
    <2>3. CASE LeavePlugins(t)
      BY <2>3 DEF LeavePlugins, Fail, Goto, Phases, Ended, Reasons
    <2> QED  BY <2>1, <2>2, <2>3
  <1>4. factory' \in [Scheme -> Project \cup {EntryPoint, None}]
    <2>1. CASE Register(t)
      <3>1. Plugins[Proj(t)][step[t]] \in Scheme
        BY <1>1, <2>1 DEF Register
      <3>2. factory' = factory \/ factory' = [factory EXCEPT ![Plugins[Proj(t)][step[t]]] = Proj(t)]
        BY <2>1 DEF Register
      <3> QED  BY <1>1, <3>1, <3>2 DEF TypeOK
    <2> QED  BY <2>1 DEF EnterPlugins, LeavePlugins, TypeOK
  <1>5. loaded' \subseteq Project /\ lock' \in Thread \cup {None}
    BY <1>1 DEF EnterPlugins, Register, LeavePlugins, TypeOK
  <1>6. /\ phase' \in [Thread -> Phases] /\ reason' \in [Thread -> Reasons]
        /\ step' \in [Thread -> Nat \ {0}]
        /\ pipe' \in [Thread -> Pipeline] /\ runs' \in 0..MaxRuns
        /\ \A x \in Thread : phase'[x] # "idle" => runs' # 0
    BY <1>1, <1>2, <1>3, Moves
  <1>7. disturbed' \subseteq Thread
    BY DEF EnterPlugins, Register, LeavePlugins, Disturb, Lookers, TypeOK
  <1> QED  BY <1>2, <1>4, <1>5, <1>6, <1>7 DEF TypeOK, Reasons

\* The connector's code.
Imports(t) == OpenScope(t) \/ Decorate(t) \/ ImportMore(t) \/ LeaveScope(t) \/ CloseScope(t)
LEMMA ImportTypes ==
    ASSUME TypeOK, NEW t \in Thread, Imports(t)
    PROVE  TypeOK'
  <1> USE DEF Imports
  <1>1. step[t] + 1 \in Nat \ {0} /\ phase[t] # "idle"
    BY RunOf DEF OpenScope, Decorate, ImportMore, LeaveScope, CloseScope
  <1>2. UNCHANGED <<shared, pipe, runs, mine, used, got, faults>>
    BY DEF OpenScope, Decorate, ImportMore, LeaveScope, CloseScope, local
  <1>3. /\ \/ phase' = phase
           \/ \E p \in Phases \ {"idle"} : phase' = [phase EXCEPT ![t] = p]
        /\ reason' = reason \/ \E why \in Reasons : reason' = [reason EXCEPT ![t] = why]
        /\ step' = step \/ \E n \in Nat \ {0} : step' = [step EXCEPT ![t] = n]
    <2>1. CASE OpenScope(t) \/ LeaveScope(t)
      BY <2>1 DEF OpenScope, LeaveScope, Goto, Phases
    <2>2. CASE Decorate(t)
      BY <1>1, <2>2 DEF Decorate, Goto, Phases, Reasons
    <2>3. CASE CloseScope(t)
      <3>1. step' = step \/ (step' = [step EXCEPT ![t] = 1] /\ 1 \in Nat \ {0})
        BY <2>3 DEF CloseScope
      <3>2. \/ phase' = [phase EXCEPT ![t] = "secrets"] /\ reason' = reason
            \/ phase' = [phase EXCEPT ![t] = "failed"]
               /\ \E why \in {"connector", "modules"} : reason' = [reason EXCEPT ![t] = why]
        BY <2>3 DEF CloseScope, Fail, Goto
      <3> QED  BY <3>1, <3>2 DEF Phases, Ended, Reasons
    <2>4. CASE ImportMore(t)
      BY <2>4 DEF ImportMore, local
    <2> QED  BY <2>1, <2>2, <2>3, <2>4
  <1>4. DOMAIN registry' = Thread /\ disturbed' \subseteq Thread
    BY DEF OpenScope,
       Decorate, ImportMore, LeaveScope, CloseScope, Disturb, Lookers, local, TypeOK
  <1>6. /\ phase' \in [Thread -> Phases] /\ reason' \in [Thread -> Reasons]
        /\ step' \in [Thread -> Nat \ {0}]
        /\ pipe' \in [Thread -> Pipeline] /\ runs' \in 0..MaxRuns
        /\ \A x \in Thread : phase'[x] # "idle" => runs' # 0
    BY <1>1, <1>2, <1>3, Moves
  <1> QED  BY <1>2, <1>4, <1>6 DEF TypeOK, Reasons, shared

\* The resolver a thread finds or builds.
LEMMA LookupTypes ==
    ASSUME TypeOK, LookupInv, NEW t \in Thread, Lookup(t)
    PROVE  mine' \in [Thread -> Instances]
  <1>1. Ref(t).name \in Scheme /\ runs # 0
    BY SchemeOf DEF LookupInv, InLookup, Lookup, TypeOK
  <1>2. runs \in 1..MaxRuns
    BY <1>1, ResolutionAssumption DEF TypeOK, ResolutionAssumption
  <1> DEFINE s == Ref(t).name
  <1>3. instance[s] \in Instances /\ factory[s] \in Project \cup {EntryPoint, None}
    BY <1>1 DEF TypeOK
  <1>4. factory[s] # None => [by |-> factory[s], of |-> <<t, runs>>] \in Instances
    BY <1>2, <1>3 DEF Instances
  <1>5. \/ mine' = mine
        \/ mine' = [mine EXCEPT ![t] = instance[s]]
        \/ factory[s] # None /\ mine' = [mine EXCEPT ![t] = [by |-> factory[s], of |-> <<t, runs>>]]
    BY DEF Lookup
  <1> HIDE DEF s
  <1> QED  BY <1>3, <1>4, <1>5 DEF TypeOK

\* What Publish and Resolve keep.
LEMMA KeptTypes ==
    ASSUME TypeOK, LookupInv, NEW t \in Thread, Publish(t) \/ Resolve(t)
    PROVE  /\ instance' \in [Scheme -> Instances] /\ mine' \in [Thread -> Instances]
           /\ used' \in [Thread -> [Scheme -> Instances]]
  <1> DEFINE s == Ref(t).name
  <1>1. s \in Scheme
    BY SchemeOf DEF LookupInv, InLookup, Publish, Resolve
  <1>2. mine[t] \in Instances /\ instance[s] \in Instances /\ used[t] \in [Scheme -> Instances]
    BY <1>1 DEF TypeOK
  <1>3. CASE Publish(t)
    <2>1. /\ instance' = instance \/ instance' = [instance EXCEPT ![s] = mine[t]]
          /\ mine' = mine \/ mine' = [mine EXCEPT ![t] = instance[s]]
          /\ used' = used
      BY <1>3 DEF Publish
    <2> HIDE DEF s
    <2> QED  BY <1>1, <1>2, <2>1 DEF TypeOK
  <1>4. CASE Resolve(t)
    <2>1. used' = [used EXCEPT ![t][s] = mine[t]] /\ instance' = instance /\ mine' = mine
      BY <1>4 DEF Resolve, shared
    <2> HIDE DEF s
    <2>2. [used[t] EXCEPT ![s] = mine[t]] \in [Scheme -> Instances]
      BY <1>1, <1>2
    <2> QED  BY <2>1, <2>2 DEF TypeOK
  <1> QED  BY <1>3, <1>4

\* Secrets.
Secrets(t) == \/ ReadPlain(t) \/ FirstLookup(t) \/ LoadEntryPoint(t) \/ Scanned(t)
              \/ Lookup(t) \/ Publish(t) \/ Resolve(t) \/ Raises(t) \/ Resolved(t)
LEMMA SecretTypes ==
    ASSUME TypeOK, LookupInv, NEW t \in Thread, Secrets(t)
    PROVE  TypeOK'
  <1> USE DEF Secrets
  <1>1. phase[t] # "idle"
    BY DEF ReadPlain, FirstLookup, LoadEntryPoint, Scanned, Lookup, Publish, Resolve, Raises, Resolved
  <1>2. UNCHANGED <<loaded, lock, pipe, runs, registry, disturbed>>
    BY DEF ReadPlain, FirstLookup, LoadEntryPoint, Scanned, Lookup, Publish, Resolve, Raises, Resolved,
       shared, local
  <1>3. /\ \/ phase' = phase
           \/ \E p \in Phases \ {"idle"} : phase' = [phase EXCEPT ![t] = p]
        /\ reason' = reason \/ \E why \in Reasons : reason' = [reason EXCEPT ![t] = why]
        /\ step' = step \/ \E n \in Nat \ {0} : step' = [step EXCEPT ![t] = n]
        /\ got' \in [Thread -> SUBSET Nat]
    <2>1. got \in [Thread -> SUBSET Nat] /\ reason[t] \in Reasons
      BY DEF TypeOK, Reasons
    <2>2. CASE Unresolved(t)
      BY <2>1, <2>2, UnresolvedType DEF Phases, Ended, Reasons
    <2>3. CASE Obtained(t)
      BY <2>3, ObtainedType DEF Phases
    <2>4. CASE LoadEntryPoint(t)
      BY <2>1, <2>4 DEF LoadEntryPoint, local
    <2>5. CASE FirstLookup(t) \/ Scanned(t) \/ Resolved(t)
      BY <2>1, <2>5 DEF FirstLookup, Scanned, Resolved, Goto, Phases, Ended
    <2>6. CASE Lookup(t) /\ ~Unresolved(t)
      BY <2>1, <2>6 DEF Lookup, Goto, Phases
    <2>7. CASE Publish(t)
      BY <2>1, <2>7 DEF Publish, Goto, Phases
    <2> QED  BY <2>2, <2>3, <2>4, <2>5, <2>6, <2>7 DEF ReadPlain, Resolve, Raises
  <1>4. /\ instance' \in [Scheme -> Instances] /\ mine' \in [Thread -> Instances]
        /\ used' \in [Thread -> [Scheme -> Instances]]
    <2>1. CASE Lookup(t)
      BY <2>1, LookupTypes DEF Lookup, shared, TypeOK
    <2>2. CASE Publish(t) \/ Resolve(t)
      BY <2>2, KeptTypes
    <2> QED  BY <2>1, <2>2 DEF TypeOK, ReadPlain, FirstLookup, LoadEntryPoint, Scanned, Raises, Resolved,
             shared, local
  <1>5. /\ scanner' \in Thread \cup {None} /\ todo' \subseteq Installed
        /\ factory' \in [Scheme -> Project \cup {EntryPoint, None}]
    <2>1. CASE LoadEntryPoint(t)
      <3>1. PICK s \in todo : todo' = todo \ {s}
                /\ factory' \in {factory, [factory EXCEPT ![s] = EntryPoint]}
        BY <2>1 DEF LoadEntryPoint
      <3> QED  BY <2>1, <3>1 DEF LoadEntryPoint, TypeOK
    <2>2. CASE FirstLookup(t)
      BY <2>2 DEF FirstLookup, TypeOK
    <2> QED  BY <2>1, <2>2 DEF TypeOK, ReadPlain, Scanned, Lookup, Publish, Resolve, Raises, Resolved, shared
  <1>6. faults' \in 0..MaxFaults
    BY ResolutionAssumption DEF ResolutionAssumption, TypeOK, ReadPlain, FirstLookup, LoadEntryPoint, Scanned,
       Lookup, Publish, Resolve, Raises, Resolved
  <1>7. /\ phase' \in [Thread -> Phases] /\ reason' \in [Thread -> Reasons]
        /\ step' \in [Thread -> Nat \ {0}]
        /\ pipe' \in [Thread -> Pipeline] /\ runs' \in 0..MaxRuns
        /\ \A x \in Thread : phase'[x] # "idle" => runs' # 0
    BY <1>1, <1>2, <1>3, Moves
  <1> QED  BY <1>2, <1>3, <1>4, <1>5, <1>6, <1>7 DEF TypeOK, Reasons

\* A new run.
LEMMA StartTypes ==
    ASSUME TypeOK, NEW t \in Thread, Start(t)
    PROVE  TypeOK'
  <1>1. Nobody \in Instances
    BY DEF Instances
  <1>2. UNCHANGED <<factory, scanner, todo, instance, loaded, lock, registry, faults, disturbed>>
    BY DEF Start, shared
  <1>3. runs' \in 0..MaxRuns /\ runs' # 0
    BY ResolutionAssumption DEF ResolutionAssumption, Start, TypeOK
  <1>4. /\ phase' \in [Thread -> Phases] /\ pipe' \in [Thread -> Pipeline]
        /\ step' \in [Thread -> Nat \ {0}] /\ reason' \in [Thread -> Reasons]
    BY DEF Start, Goto, TypeOK, Reasons, Phases
  <1>5. /\ mine' \in [Thread -> Instances] /\ used' \in [Thread -> [Scheme -> Instances]]
        /\ got' \in [Thread -> SUBSET Nat]
    <2>1. [s \in Scheme |-> Nobody] \in [Scheme -> Instances]
      BY <1>1
    <2> QED  BY <1>1, <2>1 DEF Start, TypeOK
  <1> QED  BY <1>2, <1>3, <1>4, <1>5 DEF TypeOK, Reasons

LEMMA StepTypes ==
    ASSUME TypeOK, LookupInv, NEW t \in Thread, Start(t) \/ Step(t)
    PROVE  TypeOK'
  BY StartTypes, PluginTypes, ImportTypes, SecretTypes DEF Step, Imports, Secrets

LEMMA InitTypes == Init => TypeOK /\ LookupInv
  <1> SUFFICES ASSUME Init PROVE TypeOK /\ LookupInv
    OBVIOUS
  <1>1. Nobody \in Instances
    BY DEF Instances
  <1>2. (CHOOSE p \in Pipeline : TRUE) \in Pipeline
    BY ResolutionAssumption DEF ResolutionAssumption
  <1>3. LookupInv
    BY DEF Init, LookupInv, InLookup
  <1> QED  BY <1>1, <1>2, <1>3, ResolutionAssumption DEF ResolutionAssumption, Init, TypeOK, Phases, Ended

-----------------------------------------------------------------------------
\* A step of one thread changes nothing that another one keeps.
LEMMA Alone ==
    ASSUME TypeOK, NEW t \in Thread, Start(t) \/ Step(t), NEW x \in Thread, x # t
    PROVE  /\ phase'[x] = phase[x] /\ pipe'[x] = pipe[x] /\ step'[x] = step[x]
           /\ registry'[x] = registry[x] /\ mine'[x] = mine[x] /\ used'[x] = used[x]
           /\ got'[x] = got[x] /\ reason'[x] = reason[x]
  <1> USE DEF TypeOK, Goto, Fail, local
  <1>1. CASE Start(t)
    BY <1>1 DEF Start
  <1>2. CASE EnterPlugins(t) \/ Register(t) \/ LeavePlugins(t)
    BY <1>2 DEF EnterPlugins, Register, LeavePlugins
  <1>3. CASE OpenScope(t) \/ ImportMore(t) \/ LeaveScope(t) \/ CloseScope(t)
    BY <1>3 DEF OpenScope, ImportMore, LeaveScope, CloseScope
  <1>4. CASE Decorate(t)
    BY <1>4 DEF Decorate, Active
  <1>5. CASE ReadPlain(t) \/ Raises(t)
    BY <1>5 DEF ReadPlain, Raises, Unresolved, Obtained
  <1>6. CASE FirstLookup(t) \/ LoadEntryPoint(t) \/ Scanned(t) \/ Resolved(t)
    BY <1>6 DEF FirstLookup, LoadEntryPoint, Scanned, Resolved
  <1>7. CASE Lookup(t)
    BY <1>7 DEF Lookup, Unresolved
  <1>8. CASE Publish(t) \/ Resolve(t)
    BY <1>8 DEF Publish, Resolve, Obtained
  <1> QED  BY <1>1, <1>2, <1>3, <1>4, <1>5, <1>6, <1>7, <1>8 DEF Step

Goes(t, from, to) == phase[t] = from /\ phase'[t] \in to

\* The way of a run, step by step.
LEMMA Flow ==
    ASSUME TypeOK, NEW t \in Thread, Start(t) \/ Step(t)
    PROVE  \/ Start(t) /\ phase[t] \in Ended /\ phase'[t] = "plugins"
           \/ EnterPlugins(t) /\ Goes(t, "plugins", {"import", "file"})
           \/ Register(t) /\ Goes(t, "file", {"file", "failed"})
           \/ LeavePlugins(t) /\ Goes(t, "file", {"import", "failed"})
           \/ OpenScope(t) /\ Goes(t, "import", {"code"})
           \/ Decorate(t) /\ Goes(t, "code", {"code", "leave"})
           \/ ImportMore(t) /\ UNCHANGED <<shared, phase, pipe, step, registry, mine, used, got, reason>>
           \/ LeaveScope(t) /\ Goes(t, "code", {"leave"})
           \/ CloseScope(t) /\ Goes(t, "leave", {"secrets", "failed"})
           \/ ReadPlain(t) /\ Goes(t, "secrets", {"secrets", "failed"})
           \/ FirstLookup(t) /\ Goes(t, "secrets", {"lookup", "scan"})
           \/ LoadEntryPoint(t) /\ Goes(t, "scan", {"scan"})
           \/ Scanned(t) /\ Goes(t, "scan", {"lookup"})
           \/ Lookup(t) /\ Goes(t, "lookup", {"resolve", "build", "secrets", "failed"})
           \/ Publish(t) /\ Goes(t, "build", {"resolve"})
           \/ Resolve(t) /\ Goes(t, "resolve", {"secrets"})
           \/ Raises(t) /\ phase[t] \in {"build", "resolve"} /\ phase'[t] \in {"secrets", "failed"}
           \/ Resolved(t) /\ Goes(t, "secrets", {"done"})
  <1> USE DEF TypeOK, Goto, Fail, Goes
  <1>1. CASE Start(t)
    BY <1>1 DEF Start
  <1>2. CASE EnterPlugins(t) \/ Register(t) \/ LeavePlugins(t)
    BY <1>2 DEF EnterPlugins, Register, LeavePlugins
  <1>3. CASE OpenScope(t) \/ LeaveScope(t) \/ CloseScope(t) \/ Decorate(t)
    BY <1>3 DEF OpenScope, LeaveScope, CloseScope, Decorate
  <1>3a. CASE ImportMore(t)
    BY <1>3a DEF ImportMore, local
  <1>4. CASE ReadPlain(t) \/ Raises(t)
    BY <1>4 DEF ReadPlain, Raises, Unresolved, Obtained
  <1>5. CASE FirstLookup(t) \/ LoadEntryPoint(t) \/ Scanned(t) \/ Resolved(t)
    BY <1>5 DEF FirstLookup, LoadEntryPoint, Scanned, Resolved, local
  <1>6. CASE Lookup(t)
    BY <1>6 DEF Lookup, Unresolved
  <1>7. CASE Publish(t) \/ Resolve(t)
    BY <1>7 DEF Publish, Resolve, Obtained
  <1> QED  BY <1>1, <1>2, <1>3, <1>3a, <1>4, <1>5, <1>6, <1>7 DEF Step

LEMMA StepLookup ==
    ASSUME TypeOK, LookupInv, NEW t \in Thread, Start(t) \/ Step(t)
    PROVE  LookupInv'
  <1>1. ASSUME NEW x \in Thread, x # t, phase'[x] \in InLookup
        PROVE  (Left(x) /\ Ref(x).form = "url")'
    BY <1>1, Alone DEF LookupInv, Left, Ref
  <1>2. ASSUME phase'[t] \in InLookup
        PROVE  (Left(t) /\ Ref(t).form = "url")'
    <2>0. CASE ImportMore(t)
      BY <1>2, <2>0 DEF ImportMore, local, LookupInv, Left, Ref
    <2>1. /\ phase[t] \in InLookup \/ FirstLookup(t)
          /\ UNCHANGED <<pipe, step>>
      BY <1>2, Flow DEF Goes, InLookup, FirstLookup, LoadEntryPoint, Scanned, Lookup, Publish, local,
         Unresolved, Goto, Fail, TypeOK
    <2> QED  BY <2>0, <2>1 DEF LookupInv, Left, Ref, FirstLookup
  <1> QED  BY <1>1, <1>2 DEF LookupInv

-----------------------------------------------------------------------------
(* What is registered, loaded or built stays: a scheme's factory, a project's *)
(* plugins, a scheme's resolver.                                              *)
Kept ==
    /\ \A s \in Scheme : factory[s] # None => factory'[s] = factory[s]
    /\ \A s \in Scheme : instance[s] # Nobody => instance'[s] = instance[s]
    /\ loaded \subseteq loaded'

LEMMA StepKeeps ==
    ASSUME TypeOK, LookupInv, NEW t \in Thread, Start(t) \/ Step(t)
    PROVE  Kept
  <1>1. CASE Register(t)
    <2>1. Plugins[Proj(t)][step[t]] \in Scheme
      BY <1>1, RunOf DEF Register
    <2> QED  BY <1>1, <2>1 DEF Register, Kept, TypeOK
  <1>2. CASE LoadEntryPoint(t)
    BY <1>2 DEF LoadEntryPoint, Kept, TypeOK
  <1>3. CASE Publish(t)
    <2>1. Ref(t).name \in Scheme
      BY <1>3, SchemeOf DEF LookupInv, InLookup, Publish
    <2>2. /\ instance' = instance \/ /\ instance[Ref(t).name] = Nobody
                                     /\ instance' = [instance EXCEPT ![Ref(t).name] = mine[t]]
          /\ UNCHANGED <<factory, loaded>>
      BY <1>3 DEF Publish
    <2> QED  BY <2>1, <2>2 DEF Kept, TypeOK
  <1>4. CASE LeavePlugins(t)
    BY <1>4 DEF LeavePlugins, Kept
  <1> QED  BY <1>1, <1>2, <1>3, <1>4 DEF Step, Start, EnterPlugins, OpenScope,
     Decorate, ImportMore, LeaveScope, CloseScope,
           ReadPlain, FirstLookup, Scanned, Lookup, Resolve, Raises, Resolved, shared, Kept

-----------------------------------------------------------------------------
(* Plugin files.  The thread that executes one has the lock and owns the      *)
(* schemes registered so far; a project that is loaded owns all its schemes;  *)
(* a sound one that is not owns only those of the execution under way, or one *)
(* of its schemes is somebody else's.                                         *)
At(q, i) == factory[Plugins[q][i]]
Executes(t, q) == phase[t] = "file" /\ Proj(t) = q
Taken(q) == \E i \in DOMAIN Plugins[q] : At(q, i) \notin {None, q}
LockInv == \A t \in Thread : phase[t] = "file" <=> lock = t
FreshInv == \A t \in Thread : phase[t] \in {"plugins", "import"} => step[t] = 1
FileInv == \A t \in Thread : phase[t] = "file" =>
              /\ Proj(t) \notin loaded
              /\ \A i \in DOMAIN Plugins[Proj(t)] : i < step[t] => At(Proj(t), i) = Proj(t)
OwnInv == \A q \in loaded : \A i \in DOMAIN Plugins[q] : At(q, i) = q
PastInv == \A t \in Thread : phase[t] \in AfterPlugins => Proj(t) \in loaded
TraceInv == \A q \in Project \ BadFiles : q \in loaded \/ Taken(q) \/
               \A i \in DOMAIN Plugins[q] : At(q, i) = q =>
                   \E t \in Thread : Executes(t, q) /\ i < step[t]
PluginInv == LockInv /\ FreshInv /\ FileInv /\ OwnInv /\ PastInv /\ TraceInv /\ SoundFilesLoad

\* A step that leaves a run's pipeline alone leaves its project alone.
LEMMA SamePipe ==
    ASSUME TypeOK, NEW t \in Thread, Step(t)
    PROVE  pipe' = pipe /\ runs' = runs
  BY DEF Step, EnterPlugins, Register, LeavePlugins, OpenScope,
     Decorate, ImportMore, LeaveScope, CloseScope, ReadPlain,
     FirstLookup, LoadEntryPoint, Scanned, Lookup, Publish, Resolve, Raises, Resolved, local

\* The schemes of plugin files.
LEMMA SchemesOfFiles ==
    ASSUME NEW q \in Project, NEW i \in DOMAIN Plugins[q]
    PROVE  /\ Plugins[q][i] \in Scheme /\ DOMAIN Plugins[q] = 1..Len(Plugins[q])
           /\ Len(Plugins[q]) \in Nat /\ i \in Nat
  BY ResolutionAssumption DEF ResolutionAssumption

LEMMA StepLock ==
    ASSUME TypeOK, LockInv, NEW t \in Thread, Start(t) \/ Step(t)
    PROVE  LockInv'
  <1>0. None \notin Thread
    BY ResolutionAssumption DEF ResolutionAssumption
  <1>1. \A x \in Thread \ {t} : phase'[x] = phase[x]
    BY Alone
  <1>2. CASE EnterPlugins(t)
    BY <1>0, <1>1, <1>2 DEF EnterPlugins, LockInv, Goto, TypeOK
  <1>3. CASE Register(t)
    BY <1>0, <1>1, <1>3 DEF Register, LockInv, Goto, Fail, TypeOK
  <1>4. CASE LeavePlugins(t)
    BY <1>0, <1>1, <1>4 DEF LeavePlugins, LockInv, Goto, Fail, TypeOK
  <1>5. CASE ImportMore(t)
    BY <1>5 DEF ImportMore, shared, local, LockInv
  <1>6. CASE ~(EnterPlugins(t) \/ Register(t) \/ LeavePlugins(t) \/ ImportMore(t))
    <2>1. phase[t] # "file" /\ phase'[t] # "file"
      BY <1>6, Flow DEF Goes, Ended
    <2>2. lock' = lock
      BY <1>6 DEF Step, Start, OpenScope,
         Decorate, ImportMore, LeaveScope, CloseScope, ReadPlain, FirstLookup,
         LoadEntryPoint, Scanned, Lookup, Publish, Resolve, Raises, Resolved, shared
    <2> QED  BY <1>1, <2>1, <2>2 DEF LockInv
  <1> QED  BY <1>2, <1>3, <1>4, <1>5, <1>6

LEMMA StepFresh ==
    ASSUME TypeOK, FreshInv, NEW t \in Thread, Start(t) \/ Step(t)
    PROVE  FreshInv'
  <1>1. \A x \in Thread \ {t} : phase'[x] = phase[x] /\ step'[x] = step[x]
    BY Alone
  <1>2. phase'[t] \in {"plugins", "import"} => step'[t] = 1
    <2>1. CASE Start(t)
      BY <2>1 DEF Start, TypeOK
    <2>2. CASE EnterPlugins(t)
      BY <2>2 DEF EnterPlugins, FreshInv
    <2>3. CASE LeavePlugins(t)
      BY <2>3 DEF LeavePlugins, Fail, Goto, TypeOK
    <2>4. CASE ImportMore(t)
      BY <2>4 DEF ImportMore, local, FreshInv
    <2>5. CASE ~(Start(t) \/ EnterPlugins(t) \/ LeavePlugins(t) \/ ImportMore(t))
      BY <2>5, Flow DEF Goes
    <2> QED  BY <2>1, <2>2, <2>3, <2>4, <2>5
  <1> QED  BY <1>1, <1>2 DEF FreshInv

\* A loaded project keeps its schemes, and a run past its plugins its project.
LEMMA StepOwn ==
    ASSUME TypeOK, LookupInv, FileInv, OwnInv, PastInv, NEW t \in Thread, Start(t) \/ Step(t)
    PROVE  OwnInv' /\ PastInv'
  <1>0. Kept /\ loaded \subseteq Project
    BY StepKeeps DEF TypeOK
  <1>1. ASSUME NEW q \in loaded', NEW i \in DOMAIN Plugins[q]
        PROVE  At(q, i)' = q
    <2>1. At(q, i) = q /\ q \in Project
      <3>1. CASE q \in loaded
        BY <1>0, <3>1 DEF OwnInv
      <3>2. CASE q \notin loaded
        <4>1. LeavePlugins(t) /\ q = Proj(t) /\ q \in Project
          BY <3>2, RunOf DEF Step, Start, EnterPlugins, Register, LeavePlugins, OpenScope,
             Decorate, ImportMore, LeaveScope, CloseScope,
             ReadPlain, FirstLookup, LoadEntryPoint, Scanned, Lookup, Publish, Resolve, Raises,
             Resolved, shared
        <4>2. i < step[t]
          BY <4>1, SchemesOfFiles, RunOf DEF LeavePlugins
        <4> QED  BY <4>1, <4>2 DEF LeavePlugins, FileInv
      <3> QED  BY <3>1, <3>2
    <2>2. None \notin Project /\ Plugins[q][i] \in Scheme
      BY <2>1, SchemesOfFiles, ResolutionAssumption DEF ResolutionAssumption
    <2> QED  BY <1>0, <2>1, <2>2 DEF Kept, At
  <1>2. ASSUME NEW x \in Thread, phase'[x] \in AfterPlugins
        PROVE  Proj(x)' \in loaded'
    <2>1. CASE x # t
      BY <1>0, <1>2, <2>1, Alone DEF PastInv, Proj, Kept
    <2>2. CASE x = t
      <3>1. ~Start(t) /\ Step(t)
        BY <1>2, <2>2, Flow DEF Start, Goto, AfterPlugins, TypeOK
      <3>2. phase[t] \in AfterPlugins \/ EnterPlugins(t) \/ LeavePlugins(t)
        BY <1>2, <2>2, <3>1, Flow DEF Goes, AfterPlugins
      <3>3. CASE phase[t] \in AfterPlugins
        BY <1>0, <2>2, <3>1, <3>3, SamePipe DEF PastInv, Proj, Kept
      <3>4. CASE EnterPlugins(t)
        BY <1>2, <2>2, <3>4 DEF EnterPlugins, Goto, AfterPlugins, Proj, TypeOK
      <3>5. CASE LeavePlugins(t)
        BY <1>2, <2>2, <3>5 DEF LeavePlugins, Fail, Goto, AfterPlugins, Proj, TypeOK
      <3> QED  BY <3>2, <3>3, <3>4, <3>5
    <2> QED  BY <2>1, <2>2
  <1> QED  BY <1>1, <1>2 DEF OwnInv, PastInv

\* Only the execution of a plugin file, and entry points, register anything.
LEMMA Registers ==
    ASSUME NEW t \in Thread, Start(t) \/ Step(t)
    PROVE  /\ Register(t) \/ LoadEntryPoint(t) \/ factory' = factory
           /\ LeavePlugins(t) \/ loaded' = loaded
  BY DEF Step, Start, EnterPlugins, Register, LeavePlugins, OpenScope,
     Decorate, ImportMore, LeaveScope, CloseScope,
     ReadPlain, FirstLookup, LoadEntryPoint, Scanned, Lookup, Publish, Resolve, Raises, Resolved, shared

LEMMA StepFile ==
    ASSUME TypeOK, LookupInv, LockInv, FreshInv, FileInv, NEW t \in Thread, Start(t) \/ Step(t)
    PROVE  FileInv'
  <1>0. Kept /\ None \notin Project
    BY StepKeeps, ResolutionAssumption DEF ResolutionAssumption
  <1> SUFFICES ASSUME NEW x \in Thread, phase'[x] = "file"
               PROVE  (/\ Proj(x) \notin loaded
                       /\ \A i \in DOMAIN Plugins[Proj(x)] : i < step[x] => At(Proj(x), i) = Proj(x))'
    BY DEF FileInv
  <1>1. CASE x # t
    <2>1. phase[x] = "file" /\ Proj(x)' = Proj(x) /\ step'[x] = step[x] /\ Proj(x) \in Project
      BY <1>1, Alone, RunOf DEF Proj
    <2>2. loaded' = loaded
      BY <1>1, <2>1, Registers DEF LeavePlugins, LockInv
    <2>3. ASSUME NEW i \in DOMAIN Plugins[Proj(x)], i < step[x]
          PROVE  factory'[Plugins[Proj(x)][i]] = Proj(x)
      <3>1. At(Proj(x), i) = Proj(x) /\ Plugins[Proj(x)][i] \in Scheme
        BY <2>1, <2>3, SchemesOfFiles DEF FileInv
      <3> QED  BY <1>0, <2>1, <3>1 DEF Kept, At, Proj
    <2> QED  BY <2>1, <2>2, <2>3 DEF FileInv, At, Proj
  <1>2. CASE x = t /\ EnterPlugins(t)
    <2>1. /\ Proj(t)' = Proj(t) /\ Proj(t) \notin loaded /\ loaded' = loaded /\ step'[t] = 1
      BY <1>2 DEF EnterPlugins, Goto, TypeOK, Proj, FreshInv
    <2>2. \A i \in DOMAIN Plugins[Proj(t)] : ~(i < 1)
      BY RunOf, SchemesOfFiles
    <2> QED  BY <1>2, <2>1, <2>2 DEF Proj
  <1>3. CASE x = t /\ Register(t)
    <2> DEFINE q == Proj(t)
               n == step[t]
               s == Plugins[q][n]
    <2>1. /\ q \in Project /\ n \in DOMAIN Plugins[q] /\ s \in Scheme /\ n \in Nat /\ phase[t] = "file"
      BY <1>3, RunOf, SchemesOfFiles DEF Register
    <2>2. /\ factory' = [factory EXCEPT ![s] = q] /\ step' = [step EXCEPT ![t] = n + 1]
          /\ UNCHANGED <<loaded, pipe>>
      BY <1>3 DEF Register, Fail, Goto, TypeOK
    <2>3. Proj(t)' = q /\ step'[t] = n + 1
      BY <2>2 DEF Proj, TypeOK
    <2>4. q \notin loaded /\ \A i \in DOMAIN Plugins[q] : i < n => factory[Plugins[q][i]] = q
      BY <2>1 DEF FileInv, At
    <2>5. ASSUME NEW i \in DOMAIN Plugins[q], i < n + 1
          PROVE  factory'[Plugins[q][i]] = q
      <3>1. i \in Nat /\ Plugins[q][i] \in Scheme
        BY <2>1, SchemesOfFiles
      <3>2. i < n \/ i = n
        BY <2>1, <2>5, <3>1
      <3> HIDE DEF q
      <3> QED  BY <2>1, <2>2, <2>4, <3>1, <3>2 DEF TypeOK
    <2>6. loaded' = loaded
      BY <2>2
    <2> HIDE DEF q, n, s
    <2> QED  BY <1>3, <2>3, <2>4, <2>5, <2>6 DEF At
  <1>4. CASE x = t /\ ImportMore(t)
    BY <1>4 DEF ImportMore, shared, local, FileInv, At, Proj
  <1>5. x = t => EnterPlugins(t) \/ Register(t) \/ ImportMore(t)
    BY Flow DEF Goes, Ended
  <1> QED  BY <1>1, <1>2, <1>3, <1>4, <1>5

\* What is taken stays taken.
LEMMA TakenStays ==
    ASSUME Kept, NEW q \in Project, Taken(q)
    PROVE  Taken(q)'
  <1>1. PICK i \in DOMAIN Plugins[q] : At(q, i) \notin {None, q}
    BY DEF Taken
  <1>2. Plugins[q][i] \in Scheme
    BY SchemesOfFiles
  <1>3. At(q, i)' = At(q, i)
    BY <1>1, <1>2 DEF Kept, At
  <1> QED  BY <1>1, <1>3 DEF Taken

\* A sound file that does not get its next scheme has one of its own taken.
LEMMA RefusedIsTaken ==
    ASSUME TypeOK, LockInv, FileInv, TraceInv, NEW t \in Thread, Register(t),
           Proj(t) \notin BadFiles, At(Proj(t), step[t]) # None
    PROVE  Taken(Proj(t))
  <1>1. /\ Proj(t) \in Project \ BadFiles /\ Proj(t) \notin loaded /\ step[t] \in Nat
        /\ step[t] \in DOMAIN Plugins[Proj(t)]
    BY RunOf DEF Register, FileInv
  <1>2. SUFFICES ASSUME ~Taken(Proj(t)) PROVE FALSE
    OBVIOUS
  <1>3. At(Proj(t), step[t]) = Proj(t)
    BY <1>1, <1>2 DEF Taken
  <1>4. PICK u \in Thread : Executes(u, Proj(t)) /\ step[t] < step[u]
    BY <1>1, <1>2, <1>3 DEF TraceInv
  <1>5. u = t
    BY <1>4 DEF Executes, LockInv, Register
  <1> QED  BY <1>1, <1>4, <1>5

LEMMA StepTrace ==
    ASSUME TypeOK, LookupInv, LockInv, FileInv, TraceInv, NEW t \in Thread, Start(t) \/ Step(t)
    PROVE  TraceInv'
  <1>0. Kept
    BY StepKeeps
  <1> SUFFICES ASSUME NEW q \in Project \ BadFiles, q \notin loaded', ~Taken(q)',
                      NEW i \in DOMAIN Plugins[q], At(q, i)' = q
               PROVE  (\E u \in Thread : Executes(u, q) /\ i < step[u])'
    BY DEF TraceInv, At
  <1>1. q \notin loaded /\ ~Taken(q)
    BY <1>0, TakenStays DEF Kept
  <1>2. \A j \in DOMAIN Plugins[q] : At(q, j) = q => \E u \in Thread : Executes(u, q) /\ j < step[u]
    BY <1>1 DEF TraceInv
  <1>3. CASE Register(t) /\ Proj(t) = q
    <2> DEFINE n == step[t]
    <2>1. At(q, n) = None
      BY <1>1, <1>3, RefusedIsTaken
    <2>2. /\ factory' = [factory EXCEPT ![Plugins[q][n]] = q] /\ step' = [step EXCEPT ![t] = n + 1]
          /\ phase' = phase /\ pipe' = pipe /\ n \in DOMAIN Plugins[q] /\ phase[t] = "file"
      BY <1>3, <2>1 DEF Register, At
    <2>3. n \in Nat /\ i \in Nat
      BY RunOf, SchemesOfFiles
    <2>4. i < n \/ i = n
      <3>1. CASE At(q, i) = q
        <4>1. PICK u \in Thread : Executes(u, q) /\ i < step[u]
          BY <1>2, <3>1
        <4>2. u = t
          BY <2>2, <4>1 DEF Executes, LockInv
        <4> QED  BY <4>1, <4>2
      <3>2. CASE At(q, i) # q
        <4>1. Plugins[q][i] = Plugins[q][n]
          BY <2>2, <3>2, SchemesOfFiles DEF At, TypeOK
        <4> QED  BY <2>2, <4>1, ResolutionAssumption DEF ResolutionAssumption
      <3> QED  BY <3>1, <3>2
    <2>5. i < n + 1
      BY <2>3, <2>4
    <2>6. step'[t] = n + 1 /\ (Executes(t, q))'
      BY <1>3, <2>2 DEF TypeOK, Executes, Proj
    <2> QED  BY <2>5, <2>6
  <1>4. CASE ~(Register(t) /\ Proj(t) = q)
    <2>1. At(q, i) = q
      <3>1. CASE Register(t)
        <4>1. Proj(t) # q /\ Proj(t) \in Project
          BY <1>4, <3>1, RunOf
        <4>2. factory' = factory \/ factory' = [factory EXCEPT ![Plugins[Proj(t)][step[t]]] = Proj(t)]
          BY <3>1 DEF Register
        <4> QED  BY <4>1, <4>2, SchemesOfFiles DEF At, TypeOK
      <3>2. CASE LoadEntryPoint(t)
        <4>1. q # EntryPoint
          BY ResolutionAssumption DEF ResolutionAssumption
        <4>2. factory' = factory \/ \E s : factory' = [factory EXCEPT ![s] = EntryPoint]
          BY <3>2 DEF LoadEntryPoint
        <4> QED  BY <4>1, <4>2, SchemesOfFiles DEF At, TypeOK
      <3>3. CASE factory' = factory
        BY <3>3 DEF At
      <3> QED  BY <3>1, <3>2, <3>3, Registers
    <2>2. PICK u \in Thread : Executes(u, q) /\ i < step[u]
      BY <1>2, <2>1
    <2>3. CASE ImportMore(t)
      BY <2>2, <2>3 DEF ImportMore, local, Executes, Proj
    <2>4. u # t \/ ImportMore(t)
      <3> SUFFICES ASSUME u = t, ~ImportMore(t) PROVE FALSE
        OBVIOUS
      <3>1. LeavePlugins(t) /\ Proj(t) = q
        BY <1>4, <2>2, Flow DEF Executes, Goes, Ended
      <3> QED  BY <3>1 DEF LeavePlugins
    <2> QED  BY <2>2, <2>3, <2>4, Alone DEF Executes, Proj
  <1> QED  BY <1>3, <1>4

LEMMA StepSound ==
    ASSUME TypeOK, LookupInv, LockInv, FileInv, TraceInv, SoundFilesLoad,
           NEW t \in Thread, Start(t) \/ Step(t)
    PROVE  SoundFilesLoad'
  <1>0. Kept
    BY StepKeeps
  <1>1. ASSUME NEW x \in Thread, reason'[x] = "plugins"
        PROVE  Proj(x)' \in BadFiles \/ Taken(Proj(x))'
    <2>1. CASE reason[x] = "plugins" /\ Proj(x)' = Proj(x)
      <3>1. Proj(x) \in BadFiles \/ Taken(Proj(x))
        BY <2>1 DEF SoundFilesLoad, Taken, At
      <3>2. Proj(x) \in Project
        BY RunOf
      <3>3. Taken(Proj(x)) => Taken(Proj(x))'
        BY <1>0, <2>1, <3>2, TakenStays DEF Taken, At, Proj, Kept
      <3> QED  BY <2>1, <3>1, <3>3
    <2>2. CASE x # t
      BY <1>1, <2>1, <2>2, Alone DEF Proj
    <2>3. CASE x = t /\ Start(t)
      BY <1>1, <2>3 DEF Start, TypeOK, None
    <2>4. CASE x = t /\ Register(t)
      <3>1. Proj(t)' = Proj(t) /\ (reason[t] = "plugins" \/ At(Proj(t), step[t]) # None)
        BY <1>1, <2>4 DEF Register, Proj, At
      <3>2. CASE At(Proj(t), step[t]) # None /\ Proj(t) \notin BadFiles
        <4>1. Taken(Proj(t)) /\ Proj(t) \in Project
          BY <2>4, <3>2, RefusedIsTaken, RunOf
        <4> QED  BY <1>0, <2>4, <3>1, <4>1, TakenStays DEF Taken, At, Proj, Kept
      <3> QED  BY <2>1, <2>4, <3>1, <3>2
    <2>5. CASE x = t /\ LeavePlugins(t)
      BY <1>1, <2>1, <2>5 DEF LeavePlugins, Fail, Goto, Proj
    <2>6. CASE x = t /\ Step(t) /\ ~Register(t) /\ ~LeavePlugins(t)
      <3>1. reason[t] = "plugins"
        BY <1>1, <2>6 DEF Step, EnterPlugins, OpenScope,
           Decorate, ImportMore, LeaveScope, CloseScope, ReadPlain, FirstLookup,
           LoadEntryPoint, Scanned, Lookup, Publish, Resolve, Raises, Resolved, local, Unresolved, Obtained,
           Fail, TypeOK
      <3> QED  BY <2>1, <2>6, <3>1, SamePipe DEF Proj
    <2> QED  BY <2>2, <2>3, <2>4, <2>5, <2>6
  <1> QED  BY <1>1 DEF SoundFilesLoad, Taken, At

-----------------------------------------------------------------------------
(* Imports.  The registry of the scope a thread has open holds what the code  *)
(* it imports has registered so far, each name once; and no run has failed    *)
(* before its import is over, but for a name that is registered twice.        *)
Importing(t) == phase[t] = "code" \/ (phase[t] = "leave" /\ reason[t] = None)
ScopeInv == \A t \in Thread : Importing(t) =>
    LET code == Code[pipe[t]]
    IN  /\ step[t] <= Len(code) + 1
        /\ registry[t] = {code[i] : i \in 1..(step[t] - 1)}
        /\ \A i, j \in 1..(step[t] - 1) : code[i] = code[j] => i = j
        /\ phase[t] = "leave" => step[t] > Len(code)
ReasonInv == \A t \in Thread :
    /\ phase[t] \in {"plugins", "file", "import", "code"} => reason[t] = None
    /\ phase[t] = "leave" => reason[t] \in {None, "connector"}

LEMMA StepReason ==
    ASSUME TypeOK, ReasonInv, NEW t \in Thread, Start(t) \/ Step(t)
    PROVE  ReasonInv'
  <1>1. ASSUME NEW x \in Thread, x # t
        PROVE  UNCHANGED <<phase[x], reason[x]>>
    BY <1>1, Alone
  <1>2. /\ phase'[t] \in {"plugins", "file", "import", "code"} => reason'[t] = None
        /\ phase'[t] = "leave" => reason'[t] \in {None, "connector"}
    <2>1. CASE Start(t)
      BY <2>1 DEF Start, Goto, TypeOK
    <2>2. CASE EnterPlugins(t) \/ Register(t) \/ LeavePlugins(t)
      BY <2>2 DEF EnterPlugins, Register, LeavePlugins, Goto, Fail, ReasonInv, TypeOK
    <2>3. CASE Imports(t)
      BY <2>3 DEF Imports, OpenScope, Decorate, ImportMore, LeaveScope, CloseScope, Goto, Fail,
         ReasonInv, TypeOK, local
    <2>4. CASE Secrets(t)
      <3>1. phase'[t] \notin {"plugins", "file", "import", "code", "leave"}
        BY <2>4, Flow DEF Secrets, Goes, Step, ReadPlain, FirstLookup, LoadEntryPoint, Scanned, Lookup,
           Publish, Resolve, Raises, Resolved, ImportMore, Ended
      <3> QED  BY <3>1
    <2> QED  BY <2>1, <2>2, <2>3, <2>4 DEF Step, Imports, Secrets
  <1> QED  BY <1>1, <1>2 DEF ReasonInv

LEMMA StepScope ==
    ASSUME TypeOK, FreshInv, ReasonInv, ScopeInv, NEW t \in Thread, Start(t) \/ Step(t)
    PROVE  ScopeInv'
  <1>1. ASSUME NEW x \in Thread, x # t, Importing(x)'
        PROVE  Importing(x) /\ UNCHANGED <<phase[x], pipe[x], step[x], registry[x]>>
    BY <1>1, Alone DEF Importing
  <1>2. ASSUME Importing(t)'
        PROVE  LET code == Code[pipe'[t]]
               IN  /\ step'[t] <= Len(code) + 1
                   /\ registry'[t] = {code[i] : i \in 1..(step'[t] - 1)}
                   /\ \A i, j \in 1..(step'[t] - 1) : code[i] = code[j] => i = j
                   /\ phase'[t] = "leave" => step'[t] > Len(code)
    <2> DEFINE code == Code[pipe[t]]
               n == step[t]
    <2>0. DOMAIN code = 1..Len(code) /\ Len(code) \in Nat /\ n \in Nat \ {0}
      BY RunOf
    <2>1. OpenScope(t) \/ Decorate(t) \/ LeaveScope(t) \/ ImportMore(t)
      BY <1>2, Flow DEF Importing, Goes, Ended
    <2>2. CASE OpenScope(t)
      <3>1. pipe' = pipe /\ step'[t] = 1 /\ registry'[t] = {} /\ phase'[t] = "code"
        BY <2>2 DEF OpenScope, Goto, FreshInv, TypeOK
      <3> HIDE DEF code
      <3> QED  BY <2>0, <3>1 DEF code
    <2>3. CASE Decorate(t)
      <3>0. phase[t] = "code" /\ Importing(t)
        BY <2>3 DEF Decorate, Importing
      <3>1. /\ pipe' = pipe /\ step'[t] = n + 1 /\ registry'[t] = registry[t] \cup {code[n]}
            /\ code[n] \notin registry[t] /\ n \in 1..Len(code) /\ phase'[t] = "code"
        BY <1>2, <2>0, <2>3, <3>0 DEF Decorate, Active, Goto, Importing, None, TypeOK
      <3>2. /\ registry[t] = {code[i] : i \in 1..(n - 1)}
            /\ \A i, j \in 1..(n - 1) : code[i] = code[j] => i = j
        BY <3>0 DEF ScopeInv
      <3>3. 1..(step'[t] - 1) = 1..(n - 1) \cup {n} /\ step'[t] <= Len(code) + 1
        BY <2>0, <3>1
      <3> HIDE DEF code, n
      <3>4. registry'[t] = {code[i] : i \in 1..(step'[t] - 1)}
        BY <3>1, <3>2, <3>3
      <3>5. \A i \in 1..(n - 1) : code[i] # code[n]
        BY <3>1, <3>2
      <3>6. \A i, j \in 1..(step'[t] - 1) : code[i] = code[j] => i = j
        BY <3>2, <3>3, <3>5
      <3>7. Code[pipe'[t]] = code
        BY <3>1 DEF code
      <3> QED  BY <3>1, <3>3, <3>4, <3>6, <3>7
    <2>4. CASE LeaveScope(t)
      <3>1. Importing(t) /\ n > Len(code) /\ UNCHANGED <<pipe, step, registry>>
        BY <2>4 DEF LeaveScope, Importing
      <3> QED  BY <3>1 DEF ScopeInv
    <2>5. CASE ImportMore(t)
      <3>1. Importing(t) /\ UNCHANGED <<phase, pipe, step, registry>>
        BY <1>2, <2>5 DEF ImportMore, local, Importing
      <3> QED  BY <3>1 DEF ScopeInv
    <2> QED  BY <2>1, <2>2, <2>3, <2>4, <2>5
  <1> QED  BY <1>1, <1>2 DEF ScopeInv

\* What code registers, when its import ends.
LEMMA ImportEnds ==
    ASSUME TypeOK, ScopeInv, NEW t \in Thread, CloseScope(t), reason[t] = None
    PROVE  registry[t] = Manifest[pipe[t]] <=> Sound(pipe[t])
  <1> DEFINE code == Code[pipe[t]]
             n == step[t]
  <1>0. phase[t] = "leave" /\ Importing(t)
    BY DEF CloseScope, Importing
  <1>1. /\ DOMAIN code = 1..Len(code) /\ Len(code) \in Nat /\ n \in Nat
    BY RunOf
  <1>2. /\ n <= Len(code) + 1 /\ registry[t] = {code[i] : i \in 1..(n - 1)}
        /\ \A i, j \in 1..(n - 1) : code[i] = code[j] => i = j
        /\ n > Len(code)
    BY <1>0 DEF ScopeInv
  <1>3. 1..(n - 1) = DOMAIN code
    BY <1>1, <1>2
  <1> HIDE DEF code, n
  <1>4. /\ registry[t] = {code[i] : i \in DOMAIN code}
        /\ \A i, j \in DOMAIN code : code[i] = code[j] => i = j
    BY <1>2, <1>3
  <1> QED  BY <1>4 DEF Sound, code

\* A thread forgets a disturbance only when it begins to look anew.
LEMMA DisturbedStay ==
    ASSUME NEW t \in Thread, Start(t) \/ Step(t), NEW x \in disturbed,
           x # t \/ ~(Decorate(t) \/ LeaveScope(t))
    PROVE  x \in disturbed'
  BY DEF Step, Start, EnterPlugins, Register, LeavePlugins, OpenScope, Decorate, ImportMore, LeaveScope,
     CloseScope, ReadPlain, FirstLookup, LoadEntryPoint, Scanned, Lookup, Publish, Resolve, Raises,
     Resolved, Disturb

LEMMA StepRegistries ==
    ASSUME TypeOK, ReasonInv, ScopeInv, RegistriesAreOwn, NEW t \in Thread, Start(t) \/ Step(t)
    PROVE  RegistriesAreOwn'
  <1> DEFINE Own(x) == /\ reason[x] = "connector" => ~Sound(pipe[x])
                       /\ reason[x] = "modules" => x \in disturbed
                       /\ phase[x] \in AfterImport
                             => Sound(pipe[x]) /\ registry[x] = Manifest[pipe[x]]
  <1>0. \A x \in Thread : Own(x)
    BY DEF RegistriesAreOwn, AfterImport, AfterPlugins
  <1>1. ASSUME NEW x \in Thread, x # t
        PROVE  Own(x)'
    <2>1. UNCHANGED <<reason[x], pipe[x], phase[x], registry[x]>>
      BY <1>1, Alone
    <2>2. x \in disturbed => x \in disturbed'
      BY <1>1, DisturbedStay
    <2>3. Own(x)
      BY <1>0
    <2> QED  BY <2>1, <2>2, <2>3 DEF Sound
  <1>2. Own(t)'
    <2>1. CASE Start(t)
      BY <2>1 DEF Start, Goto, AfterImport, AfterPlugins, TypeOK, None
    <2>2. CASE CloseScope(t)
      <3>1. reason[t] = None => (registry[t] = Manifest[pipe[t]] <=> Sound(pipe[t]))
        BY <2>2, ImportEnds
      <3>2. reason[t] # None => ~Sound(pipe[t])
        BY <1>0, <2>2 DEF ReasonInv, CloseScope
      <3>3. UNCHANGED <<pipe, registry>>
            /\ \/ reason[t] = None /\ registry[t] = Manifest[pipe[t]] /\ reason' = reason
               \/ /\ reason[t] # None \/ registry[t] # Manifest[pipe[t]]
                  /\ phase'[t] = "failed" /\ reason'[t] = "connector"
               \/ /\ t \in disturbed /\ disturbed' = disturbed
                  /\ phase'[t] = "failed" /\ reason'[t] = "modules"
        BY <2>2 DEF CloseScope, Fail, Goto, TypeOK
      <3> QED  BY <3>1, <3>2, <3>3 DEF Sound, AfterImport, AfterPlugins, None
    <2>3. CASE Decorate(t)
      <3> DEFINE code == Code[pipe[t]]
                 n == step[t]
      <3>0. reason[t] = None /\ Importing(t)
        BY <2>3 DEF Decorate, ReasonInv, Importing
      <3>1. /\ pipe' = pipe /\ phase'[t] \in {"code", "leave"} /\ n \in DOMAIN code /\ n \in Nat \ {0}
            /\ \/ reason' = reason
               \/ code[n] \in registry[t] /\ reason'[t] = "connector"
        BY <2>3, RunOf DEF Decorate, Active, Goto, TypeOK
      <3>2. registry[t] = {code[i] : i \in 1..(n - 1)} /\ DOMAIN code = 1..Len(code)
            /\ Len(code) \in Nat
        BY <3>0, RunOf DEF ScopeInv
      <3>3. ASSUME code[n] \in registry[t]
            PROVE  ~Sound(pipe[t])
        <4>1. PICK i \in 1..(n - 1) : code[i] = code[n]
          BY <3>2, <3>3
        <4>2. i \in DOMAIN code /\ i # n
          BY <3>1, <3>2
        <4> QED  BY <3>1, <4>1, <4>2 DEF Sound
      <3> HIDE DEF code, n
      <3> QED  BY <3>0, <3>1, <3>3 DEF Sound, AfterImport, AfterPlugins, None
    <2>4. CASE Step(t) /\ ~CloseScope(t) /\ ~Decorate(t)
      <3>1. phase'[t] \in AfterImport => phase[t] \in AfterImport /\ registry' = registry
        BY <2>4, Flow DEF Goes, AfterImport, AfterPlugins, ReadPlain, FirstLookup, LoadEntryPoint,
           Scanned, Lookup, Publish, Resolve, Raises, Resolved, ImportMore, local, Start, Ended
      <3>2. pipe' = pipe
        BY <2>4, SamePipe
      <3>3. reason'[t] \in {"connector", "modules"} => reason'[t] = reason[t]
        BY <2>4 DEF Step, EnterPlugins, Register, LeavePlugins, OpenScope, ImportMore, LeaveScope, ReadPlain,
           FirstLookup, LoadEntryPoint, Scanned, Lookup, Publish, Resolve, Raises, Resolved, local,
           Unresolved, Obtained, Fail, TypeOK
      <3>4. reason'[t] = "modules" /\ t \in disturbed => t \in disturbed'
        <4>1. CASE LeaveScope(t)
          <5>1. reason[t] = None /\ reason' = reason
            BY <4>1 DEF LeaveScope, ReasonInv
          <5> QED  BY <5>1 DEF None
        <4> QED  BY <2>4, <4>1, DisturbedStay
      <3>5. Own(t) /\ Sound(pipe[t])' = Sound(pipe[t])
        BY <1>0, <3>2 DEF Sound
      <3>6. reason'[t] = "connector" => ~Sound(pipe'[t])
        BY <3>2, <3>3, <3>5
      <3>7. reason'[t] = "modules" => t \in disturbed'
        BY <3>3, <3>4, <3>5
      <3>8. phase'[t] \in AfterImport => Sound(pipe'[t]) /\ registry'[t] = Manifest[pipe'[t]]
        BY <3>1, <3>2, <3>5
      <3> QED  BY <3>6, <3>7, <3>8 DEF Sound
    <2> QED  BY <2>1, <2>2, <2>3, <2>4
  <1> QED  BY <1>0, <1>1, <1>2 DEF RegistriesAreOwn, AfterImport, AfterPlugins

-----------------------------------------------------------------------------
(* Secrets.  The resolver of a scheme comes from its factory; the one a       *)
(* thread has in hand does too, or is the one there is; and what a run has    *)
(* resolved it has resolved through that one, after its project was loaded.   *)
Built(t) == mine[t] # Nobody /\ mine[t].by = factory[Ref(t).name]
Holds(t) == mine[t] # Nobody /\ mine[t] = instance[Ref(t).name]
InstanceInv == \A s \in Scheme : instance[s] # Nobody => instance[s].by = factory[s]
HandInv == \A t \in Thread : /\ phase[t] = "build" => Built(t)
                             /\ phase[t] = "resolve" => Holds(t)
UsedInv == \A t \in Thread, s \in Scheme : used[t][s] # Nobody => Proj(t) \in loaded
SecretInv == InstanceInv /\ HandInv /\ UsedInv /\ OneResolver

\* A resolver names a factory.
LEMMA InstanceType ==
    ASSUME NEW r \in Instances, r # Nobody
    PROVE  r.by \in Project \cup {EntryPoint} /\ r.by # None
  BY ResolutionAssumption DEF ResolutionAssumption, Instances, EntryPoint, None

\* A resolver just built is one.
LEMMA BuiltIsOne ==
    ASSUME NEW a, NEW b, a # None
    PROVE  [by |-> a, of |-> b] # Nobody
  BY DEF Nobody

LEMMA StepInstance ==
    ASSUME TypeOK, LookupInv, InstanceInv, HandInv, NEW t \in Thread, Start(t) \/ Step(t)
    PROVE  InstanceInv'
  <1>0. Kept
    BY StepKeeps
  <1>1. ASSUME NEW s \in Scheme, instance'[s] # Nobody
        PROVE  instance'[s].by = factory'[s]
    <2>1. CASE instance[s] # Nobody
      <3>1. instance[s].by = factory[s] /\ instance[s].by # None
        BY <2>1, InstanceType DEF InstanceInv, TypeOK
      <3> QED  BY <1>0, <2>1, <3>1 DEF Kept
    <2>2. CASE instance[s] = Nobody
      <3>1. Publish(t)
        BY <1>1, <2>2 DEF Step, Start, EnterPlugins, Register, LeavePlugins, OpenScope,
           Decorate, ImportMore, LeaveScope, CloseScope,
           ReadPlain, FirstLookup, LoadEntryPoint, Scanned, Lookup, Resolve, Raises, Resolved, shared
      <3>2. s = Ref(t).name /\ instance'[s] = mine[t] /\ factory' = factory
        BY <1>1, <2>2, <3>1 DEF Publish, TypeOK
      <3> QED  BY <3>1, <3>2 DEF Publish, HandInv, Built
    <2> QED  BY <2>1, <2>2
  <1> QED  BY <1>1 DEF InstanceInv

LEMMA StepHand ==
    ASSUME TypeOK, LookupInv, HandInv, NEW t \in Thread, Start(t) \/ Step(t)
    PROVE  HandInv'
  <1>0. Kept
    BY StepKeeps
  <1>1. ASSUME NEW x \in Thread, phase[x] \in {"build", "resolve"}, phase'[x] = phase[x],
               UNCHANGED <<mine[x], pipe[x], step[x]>>
        PROVE  /\ phase'[x] = "build" => Built(x)'
               /\ phase'[x] = "resolve" => Holds(x)'
    <2> DEFINE s == Ref(x).name
    <2>1. s \in Scheme /\ s' = s /\ mine[x] \in Instances
      BY <1>1, SchemeOf DEF LookupInv, InLookup, Ref, TypeOK
    <2>2. CASE phase[x] = "build"
      <3>1. mine[x] # Nobody /\ mine[x].by = factory[s] /\ mine[x].by # None
        BY <2>1, <2>2, InstanceType DEF HandInv, Built
      <3> QED  BY <1>0, <1>1, <2>1, <2>2, <3>1 DEF Kept, Built
    <2>3. CASE phase[x] = "resolve"
      <3>1. mine[x] # Nobody /\ mine[x] = instance[s]
        BY <2>3 DEF HandInv, Holds
      <3> QED  BY <1>0, <1>1, <2>1, <2>3, <3>1 DEF Kept, Holds
    <2> QED  BY <1>1, <2>2, <2>3
  <1>2. ASSUME NEW x \in Thread, x # t
        PROVE  /\ phase'[x] = "build" => Built(x)'
               /\ phase'[x] = "resolve" => Holds(x)'
    <2>1. phase'[x] = phase[x] /\ UNCHANGED <<mine[x], pipe[x], step[x]>>
      BY <1>2, Alone
    <2> QED  BY <1>1, <2>1
  <1>3. /\ phase'[t] = "build" => Built(t)'
        /\ phase'[t] = "resolve" => Holds(t)'
    <2>1. CASE Lookup(t)
      <3> DEFINE s == Ref(t).name
      <3>1. s \in Scheme /\ instance' = instance /\ factory' = factory /\ pipe' = pipe
        BY <2>1, SchemeOf DEF LookupInv, InLookup, Lookup, shared
      <3>2. \/ /\ instance[s] # Nobody /\ mine'[t] = instance[s]
               /\ phase'[t] = "resolve" /\ step' = step
            \/ /\ factory[s] # None /\ mine'[t] = [by |-> factory[s], of |-> <<t, runs>>]
               /\ phase'[t] = "build" /\ step' = step
            \/ phase'[t] \in {"secrets", "failed"}
        BY <2>1 DEF Lookup, Goto, Unresolved, Fail, TypeOK
      <3>3. step' = step => s' = s
        BY <3>1 DEF Ref
      <3> QED  BY <3>1, <3>2, <3>3, BuiltIsOne DEF Built, Holds
    <2>2. CASE Publish(t)
      <3> DEFINE s == Ref(t).name
      <3>1. s \in Scheme /\ s' = s /\ phase[t] = "build" /\ phase'[t] = "resolve"
        BY <2>2, SchemeOf DEF LookupInv, InLookup, Publish, Goto, Ref, TypeOK
      <3>2. mine[t] # Nobody
        BY <3>1 DEF HandInv, Built
      <3>3. mine'[t] = instance'[s] /\ mine'[t] # Nobody
        BY <2>2, <3>1, <3>2 DEF Publish, TypeOK
      <3> QED  BY <3>1, <3>3 DEF Holds
    <2>3. CASE ImportMore(t)
      BY <2>3 DEF ImportMore, shared, local, HandInv, Built, Holds, Ref
    <2>4. CASE ~Lookup(t) /\ ~Publish(t) /\ ~ImportMore(t)
      BY <2>4, Flow DEF Goes, Ended
    <2> QED  BY <2>1, <2>2, <2>3, <2>4
  <1> QED  BY <1>2, <1>3 DEF HandInv

LEMMA StepUsed ==
    ASSUME TypeOK, LookupInv, HandInv, PastInv, UsedInv, OneResolver, NEW t \in Thread, Start(t) \/ Step(t)
    PROVE  UsedInv' /\ OneResolver'
  <1>0. Kept
    BY StepKeeps
  <1>1. ASSUME NEW x \in Thread, NEW s \in Scheme, used'[x][s] # Nobody
        PROVE  Proj(x)' \in loaded' /\ used'[x][s] = instance'[s]
    <2>1. CASE used'[x][s] = used[x][s] /\ pipe'[x] = pipe[x]
      <3>1. used[x][s] = instance[s] /\ instance[s] # Nobody /\ Proj(x) \in loaded
        BY <1>1, <2>1 DEF UsedInv, OneResolver
      <3> QED  BY <1>0, <2>1, <3>1 DEF Kept, Proj
    <2>2. CASE x # t
      BY <2>1, <2>2, Alone
    <2>3. CASE x = t /\ Start(t)
      BY <1>1, <2>3 DEF Start, TypeOK
    <2>4. CASE x = t /\ Resolve(t)
      <3> DEFINE r == Ref(t).name
      <3>1. r \in Scheme /\ mine[t] = instance[r] /\ Proj(t) \in loaded
        BY <2>4, SchemeOf DEF LookupInv, InLookup, Resolve, HandInv, Holds, PastInv, AfterPlugins
      <3>2. used'[t] = [used[t] EXCEPT ![r] = mine[t]] /\ UNCHANGED <<pipe, instance, loaded>>
        BY <2>4 DEF Resolve, shared, TypeOK
      <3>3. used[t] \in [Scheme -> Instances]
        BY DEF TypeOK
      <3> HIDE DEF r
      <3>4. CASE s = r
        BY <2>4, <3>1, <3>2, <3>3, <3>4 DEF Proj
      <3>5. CASE s # r
        BY <2>1, <2>4, <3>1, <3>2, <3>3, <3>5 DEF Proj
      <3> QED  BY <3>4, <3>5
    <2>5. CASE x = t /\ Step(t) /\ ~Resolve(t)
      <3>1. used' = used
        BY <2>5 DEF Step, EnterPlugins, Register, LeavePlugins, OpenScope,
           Decorate, ImportMore, LeaveScope, CloseScope,
           ReadPlain, FirstLookup, LoadEntryPoint, Scanned, Lookup, Publish, Raises, Resolved, local
      <3> QED  BY <2>1, <2>5, <3>1, SamePipe
    <2> QED  BY <2>2, <2>3, <2>4, <2>5
  <1> QED  BY <1>1 DEF UsedInv, OneResolver

\* What a run resolves is its project's own, where it brings a resolver.
LEMMA LocalFollows == TypeOK /\ OwnInv /\ InstanceInv /\ UsedInv /\ OneResolver => LocalWins
  <1> SUFFICES ASSUME TypeOK, OwnInv, InstanceInv, UsedInv, OneResolver,
                      NEW t \in Thread, NEW i \in DOMAIN Plugins[Proj(t)],
                      used[t][Plugins[Proj(t)][i]] # Nobody
               PROVE  used[t][Plugins[Proj(t)][i]].by = Proj(t)
    BY DEF LocalWins
  <1> DEFINE s == Plugins[Proj(t)][i]
  <1>1. s \in Scheme
    BY RunOf, SchemesOfFiles
  <1>2. used[t][s] = instance[s] /\ Proj(t) \in loaded
    BY <1>1 DEF OneResolver, UsedInv
  <1>3. factory[s] = Proj(t)
    BY <1>2 DEF OwnInv, At
  <1> QED  BY <1>1, <1>2, <1>3 DEF InstanceInv

-----------------------------------------------------------------------------
\* Secrets a run is past are there, or it can do without them.
Passing == AfterImport
GotInv == \A t \in Thread : phase[t] \in Passing =>
              /\ \A i \in DOMAIN Refs[pipe[t]] :
                    i < step[t] => Refs[pipe[t]][i].optional \/ i \in got[t]
              /\ phase[t] = "done" => ~Left(t)

LEMMA StepGot ==
    ASSUME TypeOK, LookupInv, GotInv, NEW t \in Thread, Start(t) \/ Step(t)
    PROVE  GotInv'
  <1>1. ASSUME NEW x \in Thread, x # t, phase'[x] \in Passing
        PROVE  UNCHANGED <<phase[x], pipe[x], step[x], got[x]>>
    BY <1>1, Alone
  <1>2. ASSUME phase'[t] \in Passing
        PROVE  /\ \A i \in DOMAIN Refs[pipe'[t]] :
                     i < step'[t] => Refs[pipe'[t]][i].optional \/ i \in got'[t]
               /\ phase'[t] = "done" => ~Left(t)'
    <2> DEFINE refs == Refs[pipe[t]]
               n == step[t]
    <2>0. DOMAIN refs = 1..Len(refs) /\ Len(refs) \in Nat /\ n \in Nat \ {0}
      BY RunOf
    <2>1. ~Start(t) /\ pipe' = pipe
      BY <1>2, Flow, SamePipe DEF Start, Goto, Passing, AfterImport, AfterPlugins, TypeOK
    <2>2. CASE CloseScope(t)
      <3>1. step'[t] = 1 /\ phase'[t] # "done"
        BY <1>2, <2>2 DEF CloseScope, Goto, Fail, Passing, AfterImport, AfterPlugins, TypeOK
      <3> QED  BY <2>0, <2>1, <3>1
    <2>3. CASE phase[t] \in Passing
      <3>1. \A i \in DOMAIN refs : i < n => refs[i].optional \/ i \in got[t]
        BY <2>3 DEF GotInv
      <3>2. \/ step'[t] = n /\ got'[t] = got[t]
            \/ step'[t] = n + 1 /\ got'[t] = got[t] \cup {n}
            \/ step'[t] = n + 1 /\ got'[t] = got[t] /\ (n \in DOMAIN refs => refs[n].optional)
        BY <1>2, <2>1, <2>3 DEF Step, EnterPlugins, Register, LeavePlugins, OpenScope,
           Decorate, ImportMore, LeaveScope, CloseScope,
           ReadPlain, FirstLookup, LoadEntryPoint, Scanned, Lookup, Publish, Resolve, Raises, Resolved, local,
           Unresolved, Obtained, Fail, Goto, Ref, TypeOK, Passing, AfterImport, AfterPlugins
      <3>3. phase'[t] = "done" => step' = step /\ ~Left(t)
        <4>1. CASE ImportMore(t)
          BY <2>3, <4>1 DEF ImportMore, local, GotInv
        <4>2. CASE ~ImportMore(t)
          <5>1. phase[t] # "done"
            BY <1>2, <2>1, <2>3, <4>2, Flow DEF Goes, Passing, AfterImport, AfterPlugins, Start
          <5> QED  BY <2>1, <2>3, <4>2, <5>1, Flow DEF Goes, Resolved
        <4> QED  BY <4>1, <4>2
      <3> HIDE DEF refs, n
      <3>4. \A i \in DOMAIN refs : i < step'[t] => refs[i].optional \/ i \in got'[t]
        BY <2>0, <3>1, <3>2
      <3> QED  BY <2>1, <3>3, <3>4 DEF Left, refs
    <2>4. phase[t] \in Passing \/ CloseScope(t)
      BY <1>2, <2>1, Flow DEF Goes, Passing, AfterImport, AfterPlugins, Start
    <2> QED  BY <2>2, <2>3, <2>4
  <1> QED  BY <1>1, <1>2 DEF GotInv, Left

LEMMA RequiredFollow == TypeOK /\ GotInv => RequiredAreThere
  <1> SUFFICES ASSUME TypeOK, GotInv, NEW t \in Thread, phase[t] = "done",
                      NEW i \in DOMAIN Refs[pipe[t]]
               PROVE  Refs[pipe[t]][i].optional \/ i \in got[t]
    BY DEF RequiredAreThere
  <1>1. step[t] \notin DOMAIN Refs[pipe[t]] /\ step[t] \in Nat \ {0} /\ i \in Nat
        /\ DOMAIN Refs[pipe[t]] = 1..Len(Refs[pipe[t]]) /\ Len(Refs[pipe[t]]) \in Nat
    BY RunOf DEF GotInv, Left, Passing, AfterImport, AfterPlugins
  <1>2. i < step[t]
    BY <1>1
  <1> QED  BY <1>2 DEF GotInv, Passing, AfterImport, AfterPlugins

-----------------------------------------------------------------------------
IInv == /\ TypeOK /\ LookupInv /\ PluginInv
        /\ ReasonInv /\ ScopeInv /\ RegistriesAreOwn
        /\ SecretInv /\ GotInv

LEMMA InitIInv == Init => IInv
  <1> SUFFICES ASSUME Init PROVE IInv
    OBVIOUS
  <1>1. TypeOK /\ LookupInv
    BY InitTypes
  <1>2. PluginInv
    <2>1. LockInv /\ FreshInv /\ FileInv /\ OwnInv /\ PastInv
      BY ResolutionAssumption DEF ResolutionAssumption, Init, LockInv, FreshInv, FileInv, OwnInv,
         PastInv, AfterPlugins
    <2>2. TraceInv
      <3> SUFFICES ASSUME NEW q \in Project, NEW i \in DOMAIN Plugins[q], At(q, i) = q PROVE FALSE
        BY DEF TraceInv
      <3>1. At(q, i) = None
        BY SchemesOfFiles DEF Init, At
      <3> QED  BY <3>1, ResolutionAssumption DEF ResolutionAssumption
    <2>3. SoundFilesLoad
      BY DEF Init, SoundFilesLoad, None
    <2> QED  BY <2>1, <2>2, <2>3 DEF PluginInv
  <1>3. ReasonInv /\ ScopeInv /\ RegistriesAreOwn
    BY DEF Init, ReasonInv, ScopeInv, Importing, RegistriesAreOwn, None
  <1>4. SecretInv
    BY DEF Init, SecretInv, InstanceInv, HandInv, UsedInv, OneResolver
  <1>5. GotInv
    BY DEF Init, GotInv, Passing, AfterImport, AfterPlugins
  <1> QED  BY <1>1, <1>2, <1>3, <1>4, <1>5 DEF IInv

\* A step that changes nothing.
LEMMA StutterIInv == IInv /\ UNCHANGED vars => IInv'
  <1> SUFFICES ASSUME IInv, UNCHANGED vars PROVE IInv'
    OBVIOUS
  <1> USE DEF vars, shared, local
  <1>1. TypeOK' /\ LookupInv'
    BY DEF IInv, TypeOK, LookupInv, Left, Ref
  <1>2. PluginInv'
    <2>1. LockInv' /\ FreshInv' /\ FileInv' /\ OwnInv' /\ PastInv'
      BY DEF IInv, PluginInv, LockInv, FreshInv, FileInv, OwnInv, PastInv, At, Proj
    <2>2. TraceInv'
      BY DEF IInv, PluginInv, TraceInv, Taken, Executes, At, Proj
    <2>3. SoundFilesLoad'
      BY DEF IInv, PluginInv, SoundFilesLoad, Proj
    <2> QED  BY <2>1, <2>2, <2>3 DEF PluginInv
  <1>3. ReasonInv' /\ ScopeInv' /\ RegistriesAreOwn'
    <2>1. phase' = phase /\ pipe' = pipe /\ step' = step /\ registry' = registry /\ reason' = reason
      OBVIOUS
    <2>2. ReasonInv' /\ ScopeInv'
      BY <2>1 DEF IInv, ReasonInv, ScopeInv, Importing
    <2>3. RegistriesAreOwn'
      <3>1. disturbed' = disturbed
        OBVIOUS
      <3> SUFFICES ASSUME NEW t \in Thread
                   PROVE  /\ reason[t] = "connector" => ~Sound(pipe[t])
                          /\ reason[t] = "modules" => t \in disturbed
                          /\ phase[t] \in {"secrets", "scan", "lookup", "build", "resolve", "done"}
                                => Sound(pipe[t]) /\ registry[t] = Manifest[pipe[t]]
        BY <2>1, <3>1 DEF RegistriesAreOwn, Sound
      <3> QED  BY DEF IInv, RegistriesAreOwn
    <2> QED  BY <2>2, <2>3
  <1>4. SecretInv'
    BY DEF IInv, SecretInv, InstanceInv, HandInv, UsedInv, OneResolver, Built, Holds, Ref, Proj
  <1>5. GotInv'
    BY DEF IInv, GotInv, Left
  <1> QED  BY <1>1, <1>2, <1>3, <1>4, <1>5 DEF IInv

LEMMA NextIInv == IInv /\ [Next]_vars => IInv'
  <1> SUFFICES ASSUME IInv, [Next]_vars PROVE IInv'
    OBVIOUS
  <1>1. CASE UNCHANGED vars
    BY <1>1, StutterIInv
  <1>2. ASSUME NEW t \in Thread, Start(t) \/ Step(t)
        PROVE  IInv'
    <2>1. /\ TypeOK /\ LookupInv /\ LockInv /\ FreshInv /\ FileInv /\ OwnInv /\ PastInv /\ TraceInv
          /\ SoundFilesLoad /\ ReasonInv /\ ScopeInv /\ RegistriesAreOwn
          /\ InstanceInv /\ HandInv /\ UsedInv /\ OneResolver /\ GotInv
      BY DEF IInv, PluginInv, SecretInv
    <2>2. TypeOK' /\ LookupInv' /\ GotInv'
      BY <1>2, <2>1, StepTypes, StepLookup, StepGot
    <2>3. PluginInv'
      BY <1>2, <2>1, StepLock, StepFresh, StepFile, StepOwn, StepTrace, StepSound DEF PluginInv
    <2>4. ReasonInv' /\ ScopeInv' /\ RegistriesAreOwn'
      BY <1>2, <2>1, StepReason, StepScope, StepRegistries
    <2>5. SecretInv'
      BY <1>2, <2>1, StepInstance, StepHand, StepUsed DEF SecretInv
    <2> QED  BY <2>2, <2>3, <2>4, <2>5 DEF IInv
  <1> QED  BY <1>1, <1>2 DEF Next, Over

LEMMA Inductive == Spec => []IInv
  BY InitIInv, NextIInv, PTL DEF Spec

(* Every variable of a process that resolves runs keeps its type, for any     *)
(* number of threads, runs and faults.                                        *)
THEOREM ResolutionTyping == Spec => []TypeOK
  <1>1. IInv => TypeOK
    BY DEF IInv
  <1> QED  BY <1>1, Inductive, PTL

(* load_project_plugins: a plugin file without fault fails no run unless      *)
(* another project, or an entry point, had one of its schemes first.          *)
THEOREM PluginsLoadOnce == Spec => []SoundFilesLoad
  <1>1. IInv => SoundFilesLoad
    BY DEF IInv, PluginInv
  <1> QED  BY <1>1, Inductive, PTL

(* _load_connector_folder: connectors imported at the same time register each *)
(* in a registry of its own; a sound one is refused only where another thread *)
(* imported something while its import looked through sys.modules.            *)
THEOREM ImportsDoNotMix == Spec => []RegistriesAreOwn
  <1>1. IInv => RegistriesAreOwn
    BY DEF IInv
  <1> QED  BY <1>1, Inductive, PTL

(* _get_resolver: all secrets of a scheme come out of one resolver, the       *)
(* project's own where its plugin file brings one.                            *)
THEOREM ResolversAreOneAndOwn == Spec => []OneOwnResolver
  <1>1. IInv => OneOwnResolver
    BY LocalFollows DEF IInv, PluginInv, SecretInv, OneOwnResolver
  <1> QED  BY <1>1, Inductive, PTL

(* resolve_secrets: a run that goes on has all secrets that are not optional, *)
(* whatever its resolvers raised.                                             *)
THEOREM SecretsAreThere == Spec => []RequiredAreThere
  <1>1. IInv => RequiredAreThere
    BY RequiredFollow DEF IInv
  <1> QED  BY <1>1, Inductive, PTL

-----------------------------------------------------------------------------
(* What the layers and names of a run decide.                                 *)

\* The layers from the highest down; the first that counts decides.
Decided(given, declared) ==
    LET says(l) == l \in DOMAIN given /\ Counts(l, declared)
    IN IF says("override") THEN given["override"]
       ELSE IF says("env") THEN given["env"]
       ELSE IF says("own") THEN given["own"]
       ELSE IF says("base") THEN given["base"]
       ELSE IF says("vars") THEN given["vars"]
       ELSE IF says("default") THEN given["default"]
       ELSE "null"

LEMMA OrderIs ==
    /\ Len(Order) = 6 /\ DOMAIN Order = 1 .. 6
    /\ Order[1] = "default" /\ Order[2] = "vars" /\ Order[3] = "base"
    /\ Order[4] = "own" /\ Order[5] = "env" /\ Order[6] = "override"
  BY DEF Order

LEMMA ValueIs ==
    ASSUME NEW given, NEW declared
    PROVE  Value(given, declared) = Decided(given, declared)
  <1> DEFINE says(l) == l \in DOMAIN given /\ Counts(l, declared)
             Walk(g) == g = [i \in 0 .. Len(Order) |->
                                IF i = 0 THEN "null"
                                ELSE IF says(Order[i]) THEN given[Order[i]]
                                ELSE g[i - 1]]
             v0 == "null"
             v1 == IF says("default") THEN given["default"] ELSE v0
             v2 == IF says("vars") THEN given["vars"] ELSE v1
             v3 == IF says("base") THEN given["base"] ELSE v2
             v4 == IF says("own") THEN given["own"] ELSE v3
             v5 == IF says("env") THEN given["env"] ELSE v4
             v6 == IF says("override") THEN given["override"] ELSE v5
             f == [i \in 0 .. 6 |->
                      IF i = 0 THEN v0 ELSE IF i = 1 THEN v1
                      ELSE IF i = 2 THEN v2 ELSE IF i = 3 THEN v3
                      ELSE IF i = 4 THEN v4 ELSE IF i = 5 THEN v5 ELSE v6]
  <1>1. Value(given, declared) = (CHOOSE g : Walk(g))[Len(Order)]
    BY DEF Value
  <1>2. ASSUME NEW g, Walk(g)
        PROVE  g[6] = v6
    <2>1. \A i \in 0 .. 6 : g[i] = IF i = 0 THEN "null"
                                   ELSE IF says(Order[i]) THEN given[Order[i]]
                                   ELSE g[i - 1]
      BY <1>2, OrderIs
    <2> HIDE DEF says
    <2>2. g[0] = v0 /\ g[1] = v1
      BY <2>1, OrderIs
    <2>3. g[2] = v2
      BY <2>1, <2>2, OrderIs
    <2>4. g[3] = v3
      BY <2>1, <2>3, OrderIs
    <2>5. g[4] = v4
      BY <2>1, <2>4, OrderIs
    <2>6. g[5] = v5
      BY <2>1, <2>5, OrderIs
    <2> QED
      BY <2>1, <2>6, OrderIs
  <1>3. Walk(f)
    <2> HIDE DEF says
    <2>1. \A i \in 0 .. 6 : f[i] = IF i = 0 THEN "null"
                                   ELSE IF says(Order[i]) THEN given[Order[i]]
                                   ELSE f[i - 1]
      <3>1. f[0] = v0 /\ f[1] = v1 /\ f[2] = v2 /\ f[3] = v3 /\ f[4] = v4
            /\ f[5] = v5 /\ f[6] = v6
        OBVIOUS
      <3>2. DOMAIN f = 0 .. 6
        OBVIOUS
      <3> HIDE DEF f
      <3> QED
        BY <3>1, OrderIs
    <2>2. f = [i \in 0 .. 6 |-> f[i]]
      OBVIOUS
    <2> HIDE DEF f
    <2> QED
      BY <2>1, <2>2, OrderIs
  <1>4. Walk(CHOOSE g : Walk(g))
    <2> HIDE DEF Walk, f
    <2> QED
      BY <1>3
  <1>5. (CHOOSE g : Walk(g))[6] = v6
    <2> HIDE DEF Walk
    <2> QED
      BY <1>2, <1>4
  <1> HIDE DEF Walk
  <1>6. v6 = Decided(given, declared)
    BY DEF Decided
  <1> QED
    BY <1>1, <1>5, <1>6, OrderIs

\* A layer that speaks of a parameter while none above it does.
Top(given, declared, k) ==
    /\ Order[k] \in DOMAIN given /\ Counts(Order[k], declared)
    /\ \A j \in 1 .. 6 :
           j > k /\ Order[j] \in DOMAIN given => ~Counts(Order[j], declared)

LEMMA TopDecides ==
    ASSUME NEW given, NEW declared
    PROVE  /\ \A k \in 1 .. 6 : Top(given, declared, k) =>
                  Value(given, declared) = given[Order[k]]
           /\ (\A k \in 1 .. 6 : ~Top(given, declared, k)) =>
                  Value(given, declared) = "null"
  <1> DEFINE says(k) == Order[k] \in DOMAIN given /\ Counts(Order[k], declared)
  <1>1. Value(given, declared) =
            IF says(6) THEN given[Order[6]] ELSE IF says(5) THEN given[Order[5]]
            ELSE IF says(4) THEN given[Order[4]] ELSE IF says(3) THEN given[Order[3]]
            ELSE IF says(2) THEN given[Order[2]] ELSE IF says(1) THEN given[Order[1]]
            ELSE "null"
    BY ValueIs, OrderIs DEF Decided
  <1>2. \A k \in 1 .. 6 : Top(given, declared, k) <=>
            says(k) /\ \A j \in 1 .. 6 : j > k => ~says(j)
    BY DEF Top
  <1> HIDE DEF says
  <1>3. \A k \in 1 .. 6 : Top(given, declared, k) =>
            Value(given, declared) = given[Order[k]]
    <2> SUFFICES ASSUME NEW k \in 1 .. 6, says(k),
                        \A j \in 1 .. 6 : j > k => ~says(j)
                 PROVE  Value(given, declared) = given[Order[k]]
      BY <1>2
    <2>1. k = 1 \/ k = 2 \/ k = 3 \/ k = 4 \/ k = 5 \/ k = 6
      OBVIOUS
    <2> QED
      BY <1>1, <2>1
  <1>4. ASSUME \A k \in 1 .. 6 : ~Top(given, declared, k)
        PROVE  Value(given, declared) = "null"
    <2>1. ~says(6)
      BY <1>2, <1>4
    <2>2. ~says(5)
      BY <1>2, <1>4, <2>1
    <2>3. ~says(4)
      BY <1>2, <1>4, <2>1, <2>2
    <2>4. ~says(3)
      BY <1>2, <1>4, <2>1, <2>2, <2>3
    <2>5. ~says(2)
      BY <1>2, <1>4, <2>1, <2>2, <2>3, <2>4
    <2>6. ~says(1)
      BY <1>2, <1>4, <2>1, <2>2, <2>3, <2>4, <2>5
    <2> QED
      BY <1>1, <2>1, <2>2, <2>3, <2>4, <2>5, <2>6
  <1> QED
    BY <1>3, <1>4

LEMMA PrecedenceHolds == Precedence
  <1> DEFINE decides(l, layers, declared) ==
                 /\ l \in layers /\ Counts(l, declared)
                 /\ \A i, j \in DOMAIN Order :
                        Order[i] = l /\ j > i /\ Order[j] \in layers
                            => ~Counts(Order[j], declared)
  <1>1. ASSUME NEW layers \in SUBSET {Order[i] : i \in DOMAIN Order},
               NEW given \in [layers -> Values], NEW declared \in BOOLEAN,
               NEW required \in BOOLEAN
        PROVE  /\ \A l \in layers : decides(l, layers, declared) =>
                      \/ Param(given, declared, required) = given[l]
                      \/ /\ declared /\ Param(given, declared, required) = Error
                         /\ given[l] \in {"bad", "null"}
               /\ Param(given, declared, required) = Error =>
                      \/ \E l \in layers : /\ decides(l, layers, declared)
                                           /\ given[l] \in {"bad", "null"}
                      \/ /\ required
                         /\ ~\E l \in layers : decides(l, layers, declared)
    <2> DEFINE v == Value(given, declared)
               p == Param(given, declared, required)
    <2>1. /\ p = IF declared /\ (v = "bad" \/ (v = "null" /\ required))
                 THEN Error ELSE v
          /\ DOMAIN given = layers
      BY DEF Param
    <2>2. ASSUME NEW l \in layers
          PROVE  decides(l, layers, declared) <=>
                     \E k \in 1 .. 6 : Order[k] = l /\ Top(given, declared, k)
      <3>1. PICK k \in 1 .. 6 : Order[k] = l
        BY OrderIs
      <3>2. \A i \in 1 .. 6 : Order[i] = l => i = k
        BY <3>1, OrderIs
      <3> QED
        BY <2>1, <3>1, <3>2, OrderIs DEF Top
    <2> HIDE DEF decides, v, p
    <2>3. ASSUME NEW l \in layers, decides(l, layers, declared)
          PROVE  v = given[l]
      BY <2>2, <2>3, TopDecides DEF v
    <2>4. (~\E l \in layers : decides(l, layers, declared)) => v = "null"
      <3> SUFFICES ASSUME ~\E l \in layers : decides(l, layers, declared),
                          NEW k \in 1 .. 6, Top(given, declared, k)
                   PROVE  FALSE
        BY TopDecides DEF v
      <3>1. Order[k] \in layers
        BY <2>1 DEF Top
      <3> QED
        BY <2>2, <3>1
    <2>5. Error \notin Values
      BY DEF Error, Values
    <2>6. \A l \in layers : given[l] \in Values
      OBVIOUS
    <2>7. ASSUME NEW l \in layers, decides(l, layers, declared)
          PROVE  p = given[l]
                 \/ (declared /\ p = Error /\ given[l] \in {"bad", "null"})
      <3>1. v = given[l]
        BY <2>3, <2>7
      <3> QED
        BY <2>1, <3>1
    <2>8. ASSUME p = Error
          PROVE  \/ \E l \in layers : /\ decides(l, layers, declared)
                                      /\ given[l] \in {"bad", "null"}
                 \/ required /\ ~\E l \in layers : decides(l, layers, declared)
      <3>1. CASE \E l \in layers : decides(l, layers, declared)
        <4>1. PICK l \in layers : decides(l, layers, declared)
          BY <3>1
        <4>2. v = given[l] /\ given[l] \in Values
          BY <2>3, <2>6, <4>1
        <4>3. v # Error
          BY <2>5, <4>2
        <4>4. v = "bad" \/ v = "null"
          BY <2>1, <2>8, <4>3
        <4> QED
          BY <4>1, <4>2, <4>4
      <3>2. CASE ~\E l \in layers : decides(l, layers, declared)
        <4>1. v = "null" /\ v # Error
          BY <2>4, <3>2 DEF Error
        <4>2. required
          BY <2>1, <2>8, <4>1
        <4> QED
          BY <3>2, <4>2
      <3> QED
        BY <3>1, <3>2
    <2> QED
      BY <2>7, <2>8 DEF p
  <1> QED
    BY <1>1, Zenon DEF Precedence

\* The streams its source has, and those its config asks for.
Streams(declared, found) == declared \cup {found[i] : i \in DOMAIN found}
AskedFor(declared, found, block) ==
    IF block = {"*"} THEN Streams(declared, found) ELSE block

\* The streams a run takes.
StreamsTaken(declared, found, block, select) ==
    IF Expand(declared, found) = {Error} THEN {Error}
    ELSE InScope(Listed(Expand(declared, found), block), select)

LEMMA StreamsAreNamed ==
    ASSUME NEW declared, NEW found, NEW block, NEW select,
           "*" \notin block \/ block = {"*"},
           NEW r, r = StreamsTaken(declared, found, block, select), r # {Error}
    PROVE  /\ AskedFor(declared, found, block) \cup select
                  \subseteq Streams(declared, found)
           /\ r = (IF select = {} THEN AskedFor(declared, found, block)
                   ELSE AskedFor(declared, found, block) \cap select)
           /\ select \subseteq r
           /\ \A i \in DOMAIN found : found[i] \notin declared
  <1> DEFINE names == {found[i] : i \in DOMAIN found}
             streams == Expand(declared, found)
             asked == AskedFor(declared, found, block)
             listed == Listed(streams, block)
  <1>1. streams # {Error}
    BY DEF StreamsTaken
  <1>2. streams = names \cup declared /\ names \cap declared = {}
    BY <1>1 DEF Expand
  <1>3. listed # {Error} /\ r = InScope(listed, select)
    BY <1>1 DEF InScope, StreamsTaken
  <1>4. listed = asked /\ asked \subseteq streams
    <2>1. CASE block = {"*"}
      BY <1>2, <2>1 DEF AskedFor, Listed, Streams
    <2>2. CASE block # {"*"}
      BY <1>3, <2>2 DEF AskedFor, Listed
    <2> QED
      BY <2>1, <2>2
  <1>5. r = (IF select = {} THEN asked ELSE select) /\ select \subseteq asked
    BY <1>3, <1>4 DEF InScope
  <1>6. \A i \in DOMAIN found : found[i] \in names
    OBVIOUS
  <1> HIDE DEF names, streams, asked, listed
  <1>7. asked \cup select \subseteq declared \cup names
    BY <1>2, <1>4, <1>5
  <1>8. r = (IF select = {} THEN asked ELSE asked \cap select) /\ select \subseteq r
    BY <1>5
  <1>9. \A i \in DOMAIN found : found[i] \notin declared
    BY <1>2, <1>6
  <1> QED
    BY <1>7, <1>8, <1>9 DEF asked, names, Streams

LEMMA TargetIsDefined ==
    ASSUME NEW block
    PROVE  \/ Target(None, block) \in block.targets \cup {block.default}
           \/ block.targets = {} \/ Target(None, block) = Error
  <1>1. CASE block.default # None
    BY <1>1 DEF Target
  <1>2. CASE block.default = None /\ Cardinality(block.targets) = 1
    <2>1. CASE block.targets = {}
      BY <2>1
    <2>2. CASE block.targets # {}
      <3>1. Target(None, block) = CHOOSE x \in block.targets : TRUE
        BY <1>2 DEF Target
      <3> QED
        BY <2>2, <3>1
    <2> QED
      BY <2>1, <2>2
  <1>3. CASE block.default = None /\ Cardinality(block.targets) # 1
    BY <1>3 DEF Target
  <1> QED
    BY <1>1, <1>2, <1>3

\* The first path that has the folder is taken; the package's is the last resort.
LEMMA FirstFolderIsTaken ==
    ASSUME NEW S, NEW paths \in Seq(S), NEW has, NEW baked \in BOOLEAN,
           "baked" \notin S, Error \notin S
    PROVE  /\ Folder(paths, has, baked) = "baked" =>
                  \A i \in DOMAIN paths : paths[i] \notin has
           /\ Folder(paths, has, baked) \in S =>
                  \E i \in DOMAIN paths :
                      /\ Folder(paths, has, baked) = paths[i] /\ paths[i] \in has
                      /\ \A j \in DOMAIN paths : j < i => paths[j] \notin has
  <1> DEFINE found == {i \in DOMAIN paths : paths[i] \in has}
             First(i) == i \in found /\ \A j \in found : i <= j
  <1>1. DOMAIN paths = 1 .. Len(paths) /\ Len(paths) \in Nat /\ found \subseteq Nat
    OBVIOUS
  <1>2. CASE found # {}
    <2>1. PICK i \in found : \A j \in found : i <= j
      <3> HIDE DEF found
      <3>1. PICK i \in found : \A j \in found : ~(<<j, i>> \in OpToRel(<, Nat))
        BY <1>1, <1>2, NatLessThanWellFounded, WFMin
      <3>2. \A j \in found : ~(j < i)
        BY <1>1, <3>1 DEF OpToRel
      <3>3. \A j \in found : i <= j
        BY <1>1, <3>2
      <3> QED
        BY <3>3
    <2> DEFINE first == CHOOSE k \in found : \A j \in found : k <= j
    <2>2. Folder(paths, has, baked) = paths[first]
      BY <1>2 DEF Folder
    <2>3. first \in found /\ \A j \in found : first <= j
      <3> HIDE DEF found
      <3> QED
        BY <2>1
    <2> HIDE DEF first
    <2>4. first \in DOMAIN paths /\ paths[first] \in has /\ paths[first] \in S
      BY <2>3, ElementOfSeq
    <2>5. \A j \in DOMAIN paths : j < first => paths[j] \notin has
      BY <1>1, <2>3
    <2> QED
      BY <2>2, <2>4, <2>5
  <1>3. CASE found = {}
    <2>1. Folder(paths, has, baked) \in {"baked", Error}
      BY <1>3 DEF Folder
    <2> QED
      BY <1>3, <2>1
  <1> QED
    BY <1>2, <1>3

LEMMA NamesHold == NamesDecide
  <1>1. ASSUME NEW declared \in SUBSET Names, NEW select \in SUBSET Names,
               NEW block \in (SUBSET Names) \cup {{"*"}}, NEW n \in 0 .. 2,
               NEW found \in [1 .. n -> Names],
               StreamsTaken(declared, found, block, select) # {Error}
        PROVE  LET r == StreamsTaken(declared, found, block, select)
                   asked == AskedFor(declared, found, block)
               IN /\ asked \cup select \subseteq Streams(declared, found)
                  /\ r = (IF select = {} THEN asked ELSE asked \cap select)
                  /\ select \subseteq r
                  /\ \A i \in DOMAIN found : found[i] \notin declared
    <2>1. "*" \notin block \/ block = {"*"}
      BY DEF Names
    <2> QED
      BY <1>1, <2>1, StreamsAreNamed
  <1>2. \A block \in [default : {None, "a"}, targets : SUBSET Names] :
            \/ Target(None, block) \in block.targets \cup {block.default}
            \/ block.targets = {} \/ Target(None, block) = Error
    BY TargetIsDefined
  <1>3. ASSUME NEW has \in SUBSET Names, NEW baked \in BOOLEAN
        PROVE  LET r == Folder(<<"a", "b">>, has, baked)
               IN /\ r = "baked" => has \cap {"a", "b"} = {}
                  /\ r = "b" => "a" \notin has
    <2> DEFINE paths == <<"a", "b">>
    <2>1. /\ paths \in Seq({"a", "b"}) /\ "baked" \notin {"a", "b"}
          /\ Error \notin {"a", "b"}
          /\ DOMAIN paths = {1, 2} /\ paths[1] = "a" /\ paths[2] = "b"
      BY DEF Error
    <2> HIDE DEF paths
    <2>2. /\ Folder(paths, has, baked) = "baked" =>
                 \A i \in DOMAIN paths : paths[i] \notin has
          /\ Folder(paths, has, baked) \in {"a", "b"} =>
                 \E i \in DOMAIN paths :
                     /\ Folder(paths, has, baked) = paths[i] /\ paths[i] \in has
                     /\ \A j \in DOMAIN paths : j < i => paths[j] \notin has
      BY <2>1, FirstFolderIsTaken
    <2>3. LET r == Folder(paths, has, baked)
          IN /\ r = "baked" => has \cap {"a", "b"} = {}
             /\ r = "b" => "a" \notin has
      BY <2>1, <2>2
    <2> QED
      BY <2>3 DEF paths
  <1>4. ASSUME NEW declared \in SUBSET Names, NEW select \in SUBSET Names,
               NEW n \in 0 .. 2, NEW found \in [1 .. n -> Names],
               NEW block \in (SUBSET Names) \cup {{"*"}}
        PROVE  LET streams == Expand(declared, found)
                   all == declared \cup {found[i] : i \in DOMAIN found}
                   asked == IF block = {"*"} THEN all ELSE block
                   r == IF streams = {Error} THEN {Error}
                        ELSE InScope(Listed(streams, block), select)
               IN r # {Error} =>
                     /\ asked \cup select \subseteq all
                     /\ r = (IF select = {} THEN asked ELSE asked \cap select)
                     /\ select \subseteq r
                     /\ \A i \in DOMAIN found : found[i] \notin declared
    <2> DEFINE taken == StreamsTaken(declared, found, block, select)
               wanted == AskedFor(declared, found, block)
               there == Streams(declared, found)
    <2>1. taken # {Error} =>
              /\ wanted \cup select \subseteq there
              /\ taken = (IF select = {} THEN wanted ELSE wanted \cap select)
              /\ select \subseteq taken
              /\ \A i \in DOMAIN found : found[i] \notin declared
      BY <1>1, Zenon
    <2>2. there = declared \cup {found[i] : i \in DOMAIN found}
      BY DEF Streams
    <2>3. wanted = IF block = {"*"} THEN there ELSE block
      BY DEF AskedFor
    <2>4. taken = IF Expand(declared, found) = {Error} THEN {Error}
                  ELSE InScope(Listed(Expand(declared, found), block), select)
      BY DEF StreamsTaken
    <2> HIDE DEF taken, wanted, there
    <2> QED
      BY <2>1, <2>2, <2>3, <2>4, Zenon
  <1> QED
    BY <1>2, <1>3, <1>4, Zenon DEF NamesDecide

(* resolve_params, resolve_target_name, the folders and the streams in scope: *)
(* the highest layer that mentions a parameter decides, also when it holds a  *)
(* null or a value of the wrong type, and a run takes what its config names.  *)
THEOREM LayersDecide == Spec => []ResolvedAsWritten
  <1>1. ResolvedAsWritten
    BY PrecedenceHolds, NamesHold DEF ResolvedAsWritten
  <1> QED  BY <1>1, PTL
=============================================================================
