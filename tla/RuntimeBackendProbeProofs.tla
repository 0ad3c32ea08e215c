---------------------- MODULE RuntimeBackendProbeProofs ----------------------
(* Theorems about RuntimeBackendProbe, for any number of probes and of      *)
(* versions of the tool.                                                    *)
EXTENDS ProbeRefinement, TLAPS

-----------------------------------------------------------------------------
(* Types.                                                                  *)

\* Every action keeps the types.
LEMMA TypeStep == TypeOK /\ [Next]_vars => TypeOK'
<1> SUFFICES ASSUME TypeOK, [Next]_vars PROVE TypeOK'
  OBVIOUS
<1> USE VersionsAssumption DEF TypeOK, Labels, Options, Setups, Statuses, Modes
<1>1. ASSUME NEW p \in Probes, Start(p) PROVE TypeOK'
  BY <1>1 DEF Start, Goto, space, engine, tools
<1>2. ASSUME NEW p \in Probes, CheckBundle(p) PROVE TypeOK'
  <2> USE <1>2 DEF CheckBundle, Report, Goto, space, engine, tools
  <2>1. CASE Report(p, "unsupported") /\ UNCHANGED version
    BY <2>1
  <2>2. CASE Report(p, "degraded") /\ UNCHANGED version
    BY <2>2
  <2>3. CASE /\ version' = [version EXCEPT ![p] = Pinned]
             /\ Goto(p, "lookup") /\ UNCHANGED status
    BY <2>3
  <2> QED
    BY <2>1, <2>2, <2>3
<1>3. ASSUME NEW p \in Probes, LookPath(p) PROVE TypeOK'
  <2> USE <1>3 DEF LookPath, Report, Goto, space, engine, tools
  <2>1. CASE Report(p, "unsupported")
    BY <2>1
  <2>2. CASE Goto(p, "version") /\ UNCHANGED status
    BY <2>2
  <2> QED
    BY <2>1, <2>2
<1>4. ASSUME NEW p \in Probes, AskVersion(p) PROVE TypeOK'
  <2> USE <1>4 DEF AskVersion, Report, Goto, space, engine, tools
  <2>1. CASE Report(p, "degraded") /\ UNCHANGED version
    BY <2>1
  <2>2. CASE /\ version' = [version EXCEPT ![p] = IF @ = None THEN tool[p] ELSE @]
             /\ Goto(p, "workspace") /\ UNCHANGED status
    BY <2>2
  <2> QED
    BY <2>1, <2>2
<1>5. ASSUME NEW p \in Probes, MakeWorkspace(p) PROVE TypeOK'
  <2> USE <1>5 DEF MakeWorkspace, Report, Goto, space, engine, tools
  <2>1. CASE ConfiguredWorkspace(p)
    <3> DEFINE found == IF mode = "absent" THEN "private" ELSE mode
    <3>0. found \in {"private", "open"}
      OBVIOUS
    <3>1. CASE /\ mode' \in {mode, found} /\ Report(p, "degraded")
               /\ UNCHANGED saved
      BY <2>1, <3>0, <3>1 DEF ConfiguredWorkspace
    <3>2. CASE /\ saved' = [saved EXCEPT ![p] = found] /\ mode' = found
               /\ Goto(p, "widen") /\ UNCHANGED status
      <4>1. UNCHANGED outlived
        BY <2>1 DEF ConfiguredWorkspace
      <4> HIDE DEF found
      <4>2. saved' \in [Probes -> {None, "private", "open"}] /\ mode' \in Modes
        BY <3>0, <3>2 DEF Modes
      <4> QED
        BY <3>2, <4>1, <4>2
    <3> QED
      BY <2>1, <3>1, <3>2 DEF ConfiguredWorkspace
  <2>2. CASE TemporaryWorkspace(p)
    <3>1. CASE Report(p, "degraded")
      BY <2>2, <3>1 DEF TemporaryWorkspace
    <3>2. CASE Goto(p, "owner") /\ UNCHANGED status
      BY <2>2, <3>2 DEF TemporaryWorkspace
    <3> QED
      BY <2>2, <3>1, <3>2 DEF TemporaryWorkspace
  <2> QED
    BY <2>1, <2>2
<1>20. ASSUME NEW p \in Probes, WidenWorkspace(p) PROVE TypeOK'
  <2> USE <1>20 DEF WidenWorkspace, Report, Goto, engine, tools
  <2>1. CASE /\ Report(p, "degraded") /\ saved' = [saved EXCEPT ![p] = None]
             /\ UNCHANGED mode
    BY <2>1
  <2>2. CASE mode' = "open" /\ Goto(p, "owner") /\ UNCHANGED <<saved, status>>
    BY <2>2 DEF Modes
  <2> QED
    BY <2>1, <2>2
<1>6. ASSUME NEW p \in Probes, MakeOwner(p) PROVE TypeOK'
  <2> USE <1>6 DEF MakeOwner, Report, Goto, space, engine, tools
  <2>1. CASE Report(p, "degraded")
    BY <2>1
  <2>2. CASE Goto(p, "launch") /\ UNCHANGED status
    BY <2>2
  <2> QED
    BY <2>1, <2>2
<1>7. ASSUME NEW p \in Probes, LaunchCli(p) PROVE TypeOK'
  <2> USE <1>7 DEF LaunchCli, Goto, space, tools
  <2>1. CASE /\ ran' = [ran EXCEPT ![p] = tool[p]]
             /\ ticket' = [ticket EXCEPT ![p] = "sent"] /\ Goto(p, "attached")
    BY <2>1
  <2>2. CASE Goto(p, "returned") /\ UNCHANGED <<ran, ticket>>
    BY <2>2
  <2> QED
    BY <2>1, <2>2
<1>8. ASSUME NEW p \in Probes, CliReturns(p) PROVE TypeOK'
  <2>1. good' \in [Probes -> BOOLEAN]
    BY <1>8 DEF CliReturns
  <2>2. proof' \in [Probes -> BOOLEAN]
    <3>1. PICK complete \in BOOLEAN : proof' = [proof EXCEPT ![p] = complete]
      BY <1>8 DEF CliReturns
    <3>2. proof \in [Probes -> BOOLEAN]
      OBVIOUS
    <3> QED
      BY <3>1, <3>2
  <2>3. pc' \in [Probes -> Labels]
    BY <1>8 DEF CliReturns, Goto
  <2> QED
    BY <1>8, <2>1, <2>2, <2>3 DEF CliReturns, space, engine, tools
<1>9. ASSUME NEW p \in Probes, CliKilled(p) \/ DecideCleanup(p) PROVE TypeOK'
  <2>1. UNCHANGED <<expired, report, space, engine, tools>>
    BY <1>9 DEF CliKilled, DecideCleanup
  <2>2. \E label \in Labels : pc' = [pc EXCEPT ![p] = label]
    BY <1>9 DEF CliKilled, DecideCleanup, Goto
  <2> QED
    BY <2>1, <2>2 DEF report, space, engine, tools
<1>10. ASSUME NEW p \in Probes, Inspect(p) PROVE TypeOK'
  BY <1>10 DEF Inspect, Goto, space, engine, tools
<1>11. ASSUME NEW p \in Probes, Remove(p) PROVE TypeOK'
  <2>1. cont' \in [Probes -> {"never", "running", "exited", "removed"}]
    <3>1. cont' = cont \/ cont' = [cont EXCEPT ![p] = "removed"]
      BY <1>11 DEF Remove
    <3> QED
      BY <3>1
  <2>2. cleanup' \in [Probes -> {"none", "removed", "error"}]
    <3>1. \E o \in {"removed", "error"} : cleanup' = [cleanup EXCEPT ![p] = o]
      BY <1>11 DEF Remove
    <3> QED
      BY <3>1
  <2> QED
    BY <1>11, <2>1, <2>2 DEF Remove, Goto, space, tools
<1>12. ASSUME NEW p \in Probes, ReadEvidence(p) PROVE TypeOK'
  BY <1>12 DEF ReadEvidence, Report, Goto, space, engine, tools
<1>13. ASSUME NEW p \in Probes, Restore(p) PROVE TypeOK'
  BY <1>13 DEF Restore, RestoredMode, Goto, report, engine, tools
<1>14. ASSUME NEW p \in Probes, Expire(p) PROVE TypeOK'
  BY <1>14 DEF Expire, report, space, engine, tools
<1>15. ASSUME NEW p \in Probes, EngineAnswers(p) PROVE TypeOK'
  BY <1>15 DEF EngineAnswers, report, space, tools
<1>16. ASSUME NEW p \in Probes, CommandExits(p) PROVE TypeOK'
  BY <1>16 DEF CommandExits, report, space, tools
<1>17. ASSUME NEW p \in Probes, EngineRemoves(p) PROVE TypeOK'
  BY <1>17 DEF EngineRemoves, report, space, tools
<1>18. ASSUME NEW p \in Probes, ReplaceTool(p) PROVE TypeOK'
  <2>1. replaced' \in SUBSET Probes
    BY <1>18 DEF ReplaceTool
  <2>2. tool' \in [Probes -> Versions \cup {None}]
    BY <1>18 DEF ReplaceTool
  <2> QED
    BY <1>18, <2>1, <2>2 DEF ReplaceTool, report, space, engine
<1>19. CASE Quiet \/ UNCHANGED vars
  BY <1>19 DEF Quiet, vars, report, space, engine, tools
<1> QED
  BY <1>1, <1>2, <1>3, <1>4, <1>5, <1>6, <1>7, <1>8, <1>9, <1>10, <1>11, <1>12,
     <1>13, <1>14, <1>15, <1>16, <1>17, <1>18, <1>19, <1>20 DEF Next, Step

\* The initial states have the types.
LEMMA TypeInit == Init => TypeOK
<1> SUFFICES ASSUME Init PROVE TypeOK
  OBVIOUS
<1>1. /\ pc \in [Probes -> Labels] /\ options \in [Probes -> Options]
      /\ status \in [Probes -> Statuses]
  BY DEF Init, Labels, Options, Setups, Statuses
<1>2. mode \in Modes /\ outlived \in BOOLEAN /\ replaced \in SUBSET Probes
  BY DEF Init, Modes
<1> QED
  BY <1>1, <1>2 DEF Init, TypeOK

\* No probe gets a value its Go type does not have, whatever the tool and the
\* engine do.
THEOREM TypeCorrectness == Spec => []TypeOK
BY TypeInit, TypeStep, PTL DEF Spec

-----------------------------------------------------------------------------
(* One probe.                                                              *)

Early == {"idle", "bundle", "lookup", "version", "workspace", "widen", "owner", "launch"}

\* What a probe knows of its container.  Only a run that ended well goes to the
\* evidence without a clean-up, and a removal was of a container that was there.
Cleaned(p) ==
  /\ cont[p] # "never" => ticket[p] = "answered"
  /\ pc[p] \in Early => ticket[p] = "none"
  /\ pc[p] = "remove" => cont[p] # "never"
  /\ cleanup[p] = "removed" => cont[p] = "removed"
  /\ pc[p] \in Early \cup {"attached"} => ~good[p]
  /\ good[p] => exit[p] = "zero" /\ cont[p] = "removed"
  /\ pc[p] = "evidence" /\ cleanup[p] = "none" => good[p]
  /\ pc[p] \in {"restore", "reported"} /\ cleanup[p] = "none" =>
       ticket[p] = "none" \/ good[p]

\* What a report stands on: the version it names is that of the tool it has
\* run, or the tool was replaced in between, or the bundle's.
Founded(p) ==
  /\ pc[p] \notin {"idle", "bundle", "restore", "reported"} =>
       options[p].setup \in {"system", "bundled"}
  /\ pc[p] = "idle" => version[p] = None
  /\ options[p].setup = "system" /\ pc[p] \in {"lookup", "version"} =>
       version[p] = None
  /\ options[p].setup = "system" /\ pc[p] \in {"workspace", "widen", "owner", "launch"} =>
       version[p] = tool[p] \/ p \in replaced
  /\ options[p].setup = "system" /\ pc[p] = "attached" =>
       version[p] = ran[p] \/ p \in replaced
  /\ options[p].setup = "bundled" /\ pc[p] \notin {"idle", "bundle", "restore", "reported"} =>
       version[p] = Pinned
  /\ good[p] => \/ options[p].setup = "system" /\ version[p] = ran[p]
                \/ p \in replaced
                \/ options[p].setup = "bundled" /\ version[p] = Pinned
  /\ status[p] = "supported" =>
       good[p] /\ proof[p] /\ pc[p] \in {"restore", "reported"}

\* A deadline that has passed in time to count is not forgotten.
Lapsed(p) == expired[p] /\ pc[p] \in Undecided
Barred(p) ==
  \/ Lapsed(p)
  \/ /\ status[p] # "supported"
     /\ \/ pc[p] \in {"inspect", "remove", "restore", "reported"}
        \/ pc[p] = "evidence" /\ cleanup[p] # "none"

ProbeInv == TypeOK /\ \A p \in Probes : Cleaned(p) /\ Founded(p)

Own(q) == <<pc[q], options[q], expired[q], status[q], version[q], ran[q], good[q],
            proof[q], cleanup[q], tool[q], ticket[q], cont[q], exit[q]>>

\* What is known of a probe outlives every step that leaves what it has alone.
LEMMA OwnKept ==
  ASSUME NEW q \in Probes, Own(q)' = Own(q), q \in replaced' <=> q \in replaced
  PROVE  /\ Cleaned(q) => Cleaned(q)'
         /\ Founded(q) => Founded(q)'
         /\ Barred(q) => Barred(q)'
<1>1. /\ pc'[q] = pc[q] /\ options'[q] = options[q] /\ expired'[q] = expired[q]
      /\ status'[q] = status[q] /\ version'[q] = version[q] /\ ran'[q] = ran[q]
      /\ good'[q] = good[q] /\ proof'[q] = proof[q] /\ cleanup'[q] = cleanup[q]
      /\ tool'[q] = tool[q] /\ ticket'[q] = ticket[q] /\ cont'[q] = cont[q]
      /\ exit'[q] = exit[q]
  BY DEF Own
<1> QED
  BY <1>1 DEF Cleaned, Founded, Barred, Lapsed

\* A step of one probe leaves what another has alone.
LEMMA OthersKept ==
  ASSUME TypeOK, NEW p \in Probes,
         \/ Start(p) \/ Step(p) \/ CliReturns(p) \/ Expire(p) \/ EngineAnswers(p)
         \/ CommandExits(p) \/ EngineRemoves(p) \/ ReplaceTool(p),
         NEW q \in Probes, q # p
  PROVE  Own(q)' = Own(q) /\ (q \in replaced' <=> q \in replaced)
<1> USE DEF TypeOK, Own
<1>1. ASSUME \/ Start(p) \/ CheckBundle(p) \/ LookPath(p) \/ AskVersion(p)
             \/ MakeWorkspace(p) \/ WidenWorkspace(p) \/ MakeOwner(p) \/ ReadEvidence(p)
      PROVE Own(q)' = Own(q) /\ UNCHANGED replaced
  <2>1. UNCHANGED <<expired, ran, good, proof, cleanup, tools, engine>>
    BY <1>1 DEF Start, CheckBundle, LookPath, AskVersion, MakeWorkspace, WidenWorkspace,
         MakeOwner, ReadEvidence
  <2>2. pc'[q] = pc[q] /\ options'[q] = options[q]
    BY <1>1 DEF Start, CheckBundle, LookPath, AskVersion, MakeWorkspace, WidenWorkspace,
         MakeOwner, ReadEvidence, ConfiguredWorkspace, TemporaryWorkspace, Report, Goto
  <2>3. status'[q] = status[q] /\ version'[q] = version[q]
    BY <1>1 DEF Start, CheckBundle, LookPath, AskVersion, MakeWorkspace, WidenWorkspace,
         MakeOwner, ReadEvidence, ConfiguredWorkspace, TemporaryWorkspace, Report, Goto
  <2> QED
    BY <2>1, <2>2, <2>3 DEF tools, engine
<1>2. ASSUME LaunchCli(p) \/ CliReturns(p) PROVE Own(q)' = Own(q) /\ UNCHANGED replaced
  <2>1. /\ pc'[q] = pc[q] /\ ran'[q] = ran[q] /\ ticket'[q] = ticket[q]
        /\ good'[q] = good[q] /\ proof'[q] = proof[q]
    BY <1>2 DEF LaunchCli, CliReturns, Goto, engine
  <2> QED
    BY <1>2, <2>1 DEF LaunchCli, CliReturns, tools, engine
<1>3. ASSUME CliKilled(p) \/ DecideCleanup(p) \/ Restore(p)
      PROVE Own(q)' = Own(q) /\ UNCHANGED replaced
  <2>1. UNCHANGED <<expired, report, tools, engine>> /\ pc'[q] = pc[q]
    BY <1>3 DEF CliKilled, DecideCleanup, Restore, Goto
  <2> QED
    BY <2>1 DEF report, tools, engine
<1>4. ASSUME Inspect(p) \/ Remove(p) PROVE Own(q)' = Own(q) /\ UNCHANGED replaced
  <2>1. /\ pc'[q] = pc[q] /\ cleanup'[q] = cleanup[q] /\ cont'[q] = cont[q]
        /\ UNCHANGED <<ticket, exit>>
    BY <1>4 DEF Inspect, Remove, Goto, engine
  <2> QED
    BY <1>4, <2>1 DEF Inspect, Remove, tools
<1>5. ASSUME Expire(p) \/ EngineAnswers(p) \/ CommandExits(p) \/ EngineRemoves(p)
      PROVE Own(q)' = Own(q) /\ UNCHANGED replaced
  <2>1. UNCHANGED <<pc, report, tools>>
    BY <1>5 DEF Expire, EngineAnswers, CommandExits, EngineRemoves
  <2>2. /\ expired'[q] = expired[q] /\ ticket'[q] = ticket[q]
        /\ cont'[q] = cont[q] /\ exit'[q] = exit[q]
    BY <1>5 DEF Expire, EngineAnswers, CommandExits, EngineRemoves, engine
  <2> QED
    BY <2>1, <2>2 DEF report, tools
<1>6. ASSUME ReplaceTool(p) PROVE Own(q)' = Own(q) /\ (q \in replaced' <=> q \in replaced)
  <2>1. UNCHANGED <<pc, expired, report, space, engine>> /\ tool'[q] = tool[q]
    BY <1>6 DEF ReplaceTool
  <2>2. q \in replaced' <=> q \in replaced
    BY <1>6 DEF ReplaceTool
  <2> QED
    BY <2>1, <2>2 DEF report, engine
<1> QED
  BY <1>1, <1>2, <1>3, <1>4, <1>5, <1>6 DEF Step

Kept(p) == Cleaned(p)' /\ Founded(p)' /\ (Barred(p) => Barred(p)')

\* The probe's own steps, and those of its container and of its tool.
LEMMA OwnStep ==
  ASSUME ProbeInv, NEW p \in Probes,
         \/ Start(p) \/ Step(p) \/ CliReturns(p) \/ Expire(p) \/ EngineAnswers(p)
         \/ CommandExits(p) \/ EngineRemoves(p) \/ ReplaceTool(p)
  PROVE  Kept(p)
<1>0. TypeOK /\ Cleaned(p) /\ Founded(p)
  BY DEF ProbeInv
<1> USE <1>0, VersionsAssumption
    DEF Kept, TypeOK, Cleaned, Founded, Barred, Lapsed, Undecided, Early, Labels
<1>1. ASSUME Start(p) PROVE Kept(p)
  <2>1. PICK o \in Options : /\ options' = [options EXCEPT ![p] = o]
                             /\ pc' = [pc EXCEPT ![p] = IF o.setup = "system"
                                                       THEN "lookup" ELSE "bundle"]
    BY <1>1 DEF Start, Goto
  <2>2. /\ pc[p] = "idle" /\ version[p] = None /\ o.setup \in Setups
        /\ UNCHANGED <<expired, status, version, ran, good, proof, cleanup, ticket, cont,
                       exit, tool, replaced>>
    BY <1>1 DEF Start, engine, tools, Options
  <2> QED
    BY <2>1, <2>2
<1>2. ASSUME CheckBundle(p) \/ LookPath(p) \/ AskVersion(p) PROVE Kept(p)
  <2>1. UNCHANGED <<expired, options, ran, good, proof, cleanup, tool, replaced, ticket,
                    cont, exit>>
    BY <1>2 DEF CheckBundle, LookPath, AskVersion, engine, tools
  <2>2. ASSUME CheckBundle(p) PROVE Kept(p)
    <3>1. CASE /\ status' = [status EXCEPT ![p] = "unsupported"] \/
                  status' = [status EXCEPT ![p] = "degraded"]
               /\ pc' = [pc EXCEPT ![p] = "restore"] /\ UNCHANGED version
      BY <2>1, <2>2, <3>1 DEF CheckBundle
    <3>2. CASE /\ options[p].setup = "bundled"
               /\ version' = [version EXCEPT ![p] = Pinned]
               /\ pc' = [pc EXCEPT ![p] = "lookup"] /\ UNCHANGED status
      BY <2>1, <2>2, <3>2 DEF CheckBundle
    <3> QED
      BY <2>2, <3>1, <3>2 DEF CheckBundle, Report, Goto
  <2>3. ASSUME LookPath(p) PROVE Kept(p)
    BY <2>1, <2>3 DEF LookPath, Report, Goto
  <2>4. ASSUME AskVersion(p) PROVE Kept(p)
    <3>1. CASE /\ status' = [status EXCEPT ![p] = "degraded"]
               /\ pc' = [pc EXCEPT ![p] = "restore"] /\ UNCHANGED version
      BY <2>1, <2>4, <3>1 DEF AskVersion
    <3>2. CASE /\ version' = [version EXCEPT ![p] = IF @ = None THEN tool[p] ELSE @]
               /\ pc' = [pc EXCEPT ![p] = "workspace"] /\ UNCHANGED status
      BY <2>1, <2>4, <3>2 DEF AskVersion
    <3> QED
      BY <2>4, <3>1, <3>2 DEF AskVersion, Report, Goto
  <2> QED
    BY <1>2, <2>2, <2>3, <2>4
<1>3. ASSUME MakeWorkspace(p) \/ WidenWorkspace(p) \/ MakeOwner(p) PROVE Kept(p)
  <2>1. UNCHANGED <<expired, options, version, ran, good, proof, cleanup, tool, replaced,
                    ticket, cont, exit>>
    BY <1>3 DEF MakeWorkspace, WidenWorkspace, MakeOwner, engine, tools
  <2>2. pc[p] \in {"workspace", "widen", "owner"}
    BY <1>3 DEF MakeWorkspace, WidenWorkspace, MakeOwner
  <2>3. \/ /\ status' = [status EXCEPT ![p] = "degraded"]
           /\ pc' = [pc EXCEPT ![p] = "restore"]
        \/ /\ \E label \in {"widen", "owner", "launch"} : pc' = [pc EXCEPT ![p] = label]
           /\ UNCHANGED status
    BY <1>3 DEF MakeWorkspace, ConfiguredWorkspace, TemporaryWorkspace, WidenWorkspace,
         MakeOwner, Report, Goto
  <2> QED
    BY <2>1, <2>2, <2>3
<1>4. ASSUME LaunchCli(p) PROVE Kept(p)
  <2>1. UNCHANGED <<expired, options, status, version, good, proof, cleanup, tool, replaced,
                    cont, exit>>
    BY <1>4 DEF LaunchCli, tools
  <2> QED
    BY <1>4, <2>1 DEF LaunchCli, Goto
<1>5. ASSUME CliReturns(p) PROVE Kept(p)
  <2>1. UNCHANGED <<expired, options, status, version, ran, cleanup, tool, replaced, ticket,
                    cont, exit>>
    BY <1>5 DEF CliReturns, tools, engine
  <2>2. CASE /\ exit[p] = "zero" /\ cont[p] = "removed" /\ ~expired[p]
             /\ good' = [good EXCEPT ![p] = TRUE]
    BY <1>5, <2>1, <2>2 DEF CliReturns, Goto
  <2>3. CASE UNCHANGED good
    BY <1>5, <2>1, <2>3 DEF CliReturns, Goto
  <2> QED
    BY <1>5, <2>2, <2>3 DEF CliReturns
<1>6. ASSUME CliKilled(p) \/ DecideCleanup(p) \/ Restore(p) PROVE Kept(p)
  <2>1. UNCHANGED <<expired, options, status, version, ran, good, proof, cleanup, tool,
                    replaced, ticket, cont, exit>>
    BY <1>6 DEF CliKilled, DecideCleanup, Restore, report, tools, engine
  <2>2. \/ /\ pc[p] = "attached" /\ pc' = [pc EXCEPT ![p] = "returned"]
        \/ /\ pc[p] = "returned"
           /\ pc' = [pc EXCEPT ![p] = IF MustClean(p) THEN "inspect" ELSE "evidence"]
        \/ /\ pc[p] = "restore" /\ pc' = [pc EXCEPT ![p] = "reported"]
    BY <1>6 DEF CliKilled, DecideCleanup, Restore, Goto
  <2> QED
    BY <2>1, <2>2 DEF MustClean
<1>7. ASSUME Inspect(p) PROVE Kept(p)
  <2>1. UNCHANGED <<expired, options, status, version, ran, good, proof, tool, replaced,
                    ticket, cont, exit>>
    BY <1>7 DEF Inspect, tools, engine
  <2> QED
    BY <1>7, <2>1 DEF Inspect, Present, Goto
<1>8. ASSUME Remove(p) PROVE Kept(p)
  <2>1. /\ UNCHANGED <<expired, options, status, version, ran, good, proof, tool, replaced,
                       ticket, exit>>
        /\ pc[p] = "remove" /\ pc' = [pc EXCEPT ![p] = "evidence"]
    BY <1>8 DEF Remove, tools, Goto
  <2>2. /\ cleanup'[p] \in {"removed", "error"}
        /\ cleanup'[p] = "removed" => cont'[p] = "removed"
        /\ cont'[p] = cont[p] \/ cont'[p] = "removed"
    <3>1. CASE /\ cont' = IF Present(p) THEN [cont EXCEPT ![p] = "removed"] ELSE cont
               /\ cleanup' \in {[cleanup EXCEPT ![p] = outcome] :
                                  outcome \in {"removed", "error"}}
      <4>1. cont'[p] = "removed"
        BY <2>1, <3>1 DEF Present
      <4> QED
        BY <3>1, <4>1
    <3>2. CASE cleanup' = [cleanup EXCEPT ![p] = "error"] /\ UNCHANGED cont
      BY <3>2
    <3> QED
      BY <1>8, <3>1, <3>2 DEF Remove
  <2> QED
    BY <2>1, <2>2
<1>9. ASSUME ReadEvidence(p) PROVE Kept(p)
  <2>1. UNCHANGED <<expired, options, version, ran, good, proof, cleanup, tool, replaced,
                    ticket, cont, exit>>
    BY <1>9 DEF ReadEvidence, tools, engine
  <2>2. /\ pc[p] = "evidence" /\ pc' = [pc EXCEPT ![p] = "restore"]
        /\ status'[p] = IF cleanup[p] # "none" \/ ~proof[p] THEN "degraded" ELSE "supported"
    BY <1>9 DEF ReadEvidence, Refuted, Report, Goto
  <2> QED
    BY <2>1, <2>2
<1>10. ASSUME Expire(p) PROVE Kept(p)
  BY <1>10 DEF Expire, report, tools, engine
<1>11. ASSUME EngineAnswers(p) \/ CommandExits(p) \/ EngineRemoves(p) PROVE Kept(p)
  <2>1. UNCHANGED <<pc, expired, options, status, version, ran, good, proof, cleanup, tool,
                    replaced>>
    BY <1>11 DEF EngineAnswers, CommandExits, EngineRemoves, report, tools
  <2>2. CASE EngineAnswers(p)
    BY <2>1, <2>2 DEF EngineAnswers
  <2>3. CASE CommandExits(p)
    BY <2>1, <2>3 DEF CommandExits
  <2>4. CASE EngineRemoves(p)
    BY <2>1, <2>4 DEF EngineRemoves
  <2> QED
    BY <1>11, <2>2, <2>3, <2>4
<1>12. ASSUME ReplaceTool(p) PROVE Kept(p)
  <2>1. /\ UNCHANGED <<pc, expired, options, status, version, ran, good, proof, cleanup,
                       ticket, cont, exit>>
        /\ pc[p] \in {"lookup", "version", "workspace", "widen", "owner", "launch"}
        /\ pc[p] \in {"workspace", "widen", "owner", "launch"} => p \in replaced'
        /\ replaced \subseteq replaced'
    BY <1>12 DEF ReplaceTool, report, engine
  <2> QED
    BY <2>1
<1> QED
  BY <1>1, <1>2, <1>3, <1>4, <1>5, <1>6, <1>7, <1>8, <1>9, <1>10, <1>11, <1>12 DEF Step

\* Every step keeps what is known of every probe.
LEMMA ProbeStep ==
  ASSUME ProbeInv, [Next]_vars
  PROVE  ProbeInv' /\ \A q \in Probes : Barred(q) => Barred(q)'
<1>1. TypeOK'
  BY TypeStep DEF ProbeInv
<1>2. \A q \in Probes : Kept(q)
  <2> SUFFICES ASSUME NEW q \in Probes PROVE Kept(q)
    OBVIOUS
  <2>1. ASSUME NEW p \in Probes,
               \/ Start(p) \/ Step(p) \/ CliReturns(p) \/ Expire(p) \/ EngineAnswers(p)
               \/ CommandExits(p) \/ EngineRemoves(p) \/ ReplaceTool(p)
        PROVE  Kept(q)
    <3>1. CASE q = p
      BY <2>1, <3>1, OwnStep
    <3>2. CASE q # p
      <4>1. Own(q)' = Own(q) /\ (q \in replaced' <=> q \in replaced)
        BY <2>1, <3>2, OthersKept DEF ProbeInv
      <4> QED
        BY <4>1, OwnKept DEF Kept, ProbeInv
    <3> QED
      BY <3>1, <3>2
  <2>2. CASE Quiet \/ UNCHANGED vars
    <3>1. Own(q)' = Own(q) /\ (q \in replaced' <=> q \in replaced)
      BY <2>2 DEF Quiet, vars, report, space, tools, engine, Own
    <3> QED
      BY <3>1, OwnKept DEF Kept, ProbeInv
  <2> QED
    BY <2>1, <2>2 DEF Next
<1> QED
  BY <1>1, <1>2 DEF ProbeInv, Kept

\* The initial states are so.
LEMMA ProbeInit == Init => ProbeInv
<1> SUFFICES ASSUME Init PROVE ProbeInv
  OBVIOUS
<1>1. \A p \in Probes : Cleaned(p) /\ Founded(p)
  BY DEF Init, Cleaned, Founded, Early
<1> QED
  BY <1>1, TypeInit DEF ProbeInv

\* A supported report stands on a conformance run that ended well, printed the
\* whole evidence and left no container, made with the tool it names, for any
\* number of probes and of versions.
THEOREM SupportIsEarned == Spec => []SupportedIsEarned
<1>1. ProbeInv => SupportedIsEarned
  BY DEF ProbeInv, Cleaned, Founded, SupportedIsEarned
<1> QED
  BY <1>1, ProbeInit, ProbeStep, PTL DEF Spec

\* No probe that does not say so leaves a container, for any number of probes.
THEOREM NoContainerLeft == Spec => []ProbeLeavesNoContainer
<1>1. ProbeInv => ProbeLeavesNoContainer
  BY DEF ProbeInv, Cleaned, Present, ProbeLeavesNoContainer, TypeOK
<1> QED
  BY <1>1, ProbeInit, ProbeStep, PTL DEF Spec

\* A probe whose deadline has passed before its run was judged never reports
\* support.
THEOREM LateProbesAreRefused == Spec => LateProbeIsRefused
<1>1. ASSUME NEW p \in Probes
      PROVE  Spec => [](Lapsed(p) => [](status[p] # "supported"))
  <2>1. Lapsed(p) => Barred(p)
    BY DEF Barred
  <2>2. ProbeInv /\ Barred(p) => status[p] # "supported"
    BY DEF ProbeInv, Founded, Barred, Lapsed, Undecided
  <2>3. ProbeInv /\ Barred(p) /\ [Next]_vars => Barred(p)'
    BY ProbeStep
  <2> QED
    BY <2>1, <2>2, <2>3, ProbeInit, ProbeStep, PTL DEF Spec
<1> QED
  BY <1>1 DEF LateProbeIsRefused, Lapsed

-----------------------------------------------------------------------------
(* The configured workspace.                                               *)

\* The probes that have yet to make a recorded mode.
Unrecorded == Early \ {"widen", "owner", "launch"}

\* A probe that has widened a private workspace and is to write that back.
Widened(p) == Open(p) /\ saved[p] = "private" /\ pc[p] # "widen"

\* The workspace is open, or was recorded as open, only while such a probe has
\* it, unless one has written the private mode back before the others were done.
Shared ==
  /\ \A p \in Probes : pc[p] \in Unrecorded => saved[p] = None
  /\ \A p \in Probes : pc[p] = "widen" => saved[p] # None
  /\ ~outlived =>
       /\ mode = "open" => \E p \in Probes : Widened(p)
       /\ \A q \in Probes : Open(q) /\ saved[q] = "open" => \E p \in Probes : Widened(p)

SharedInv == TypeOK /\ Shared

\* Steps that touch neither the workspace nor the end of a probe.
LEMMA SharedFrame ==
  ASSUME SharedInv, UNCHANGED space,
         \A p \in Probes : \/ pc'[p] = pc[p]
                           \/ /\ pc'[p] \notin {"widen", "reported"}
                              /\ pc[p] \notin {"widen", "reported"}
                              /\ pc'[p] \in Unrecorded => pc[p] \in Unrecorded
  PROVE  Shared'
<1> USE DEF SharedInv, Shared, space, Open, Widened
<1>1. \A p \in Probes : /\ pc'[p] \in Unrecorded => saved'[p] = None
                        /\ pc'[p] = "widen" => saved'[p] # None
  OBVIOUS
<1>2. \A p \in Probes : (Open(p)' <=> Open(p)) /\ (Widened(p)' <=> Widened(p))
  OBVIOUS
<1> HIDE DEF Open, Widened
<1> QED
  BY <1>1, <1>2

\* A probe makes and records its workspace.
LEMMA SharedMake ==
  ASSUME SharedInv, NEW p \in Probes, MakeWorkspace(p)
  PROVE  Shared'
<1>t. /\ pc \in [Probes -> Labels] /\ saved \in [Probes -> {None, "private", "open"}]
      /\ pc[p] = "workspace" /\ saved[p] = None /\ ~Open(p)
  BY DEF SharedInv, Shared, TypeOK, MakeWorkspace, Open, Unrecorded, Early
<1>1. CASE TemporaryWorkspace(p)
  <2>1. \E label \in {"owner", "restore"} : pc' = [pc EXCEPT ![p] = label]
    BY <1>1 DEF TemporaryWorkspace, Report, Goto
  <2>2. \A q \in Probes : \/ pc'[q] = pc[q]
                          \/ /\ pc'[q] \notin Unrecorded \cup {"widen", "reported"}
                             /\ pc[q] \notin {"widen", "reported"}
    BY <1>t, <2>1 DEF Unrecorded, Early
  <2> QED
    BY <1>1, <2>2, SharedFrame DEF TemporaryWorkspace
<1>2. CASE ConfiguredWorkspace(p)
  <2>1. /\ outlived' = outlived /\ (mode' = "open" => mode = "open")
        /\ \E label \in {"widen", "restore"} :
             /\ pc' = [pc EXCEPT ![p] = label]
             /\ label = "widen" => /\ saved' = [saved EXCEPT ![p] = mode']
                                   /\ mode' \in {"private", "open"}
             /\ label = "restore" => saved' = saved
    BY <1>2 DEF ConfiguredWorkspace, Report, Goto, SharedInv, TypeOK, Modes
  <2>2. \A q \in Probes \ {p} : pc'[q] = pc[q] /\ saved'[q] = saved[q]
    BY <1>t, <2>1
  <2>3. \A q \in Probes : Widened(q) => Widened(q)'
    BY <1>t, <2>2 DEF Widened, Open
  <2>4. \A q \in Probes : /\ pc'[q] \in Unrecorded => saved'[q] = None
                          /\ pc'[q] = "widen" => saved'[q] # None
    <3>1. /\ pc'[p] \notin Unrecorded
          /\ pc'[p] = "widen" => saved'[p] # None
      BY <1>t, <2>1, VersionsAssumption DEF Unrecorded, Early
    <3> QED
      BY <2>2, <3>1 DEF SharedInv, Shared
  <2>5. ASSUME ~outlived', NEW q \in Probes, Open(q)', saved'[q] = "open"
        PROVE  \E o \in Probes : Widened(o)'
    <3>1. CASE q = p
      <4>1. mode = "open"
        BY <1>t, <2>1, <2>5, <3>1, VersionsAssumption
      <4> QED
        BY <2>1, <2>3, <2>5, <4>1 DEF SharedInv, Shared
    <3>2. CASE q # p
      <4>1. Open(q) /\ saved[q] = "open"
        BY <2>2, <2>5, <3>2 DEF Open
      <4> QED
        BY <2>1, <2>3, <2>5, <4>1 DEF SharedInv, Shared
    <3> QED
      BY <3>1, <3>2
  <2> QED
    BY <2>1, <2>3, <2>4, <2>5 DEF SharedInv, Shared
<1> QED
  BY <1>1, <1>2 DEF MakeWorkspace

\* A probe widens it, or gives up.
LEMMA SharedWiden ==
  ASSUME SharedInv, NEW p \in Probes, WidenWorkspace(p)
  PROVE  Shared'
<1>t. /\ pc \in [Probes -> Labels] /\ saved \in [Probes -> {None, "private", "open"}]
      /\ pc[p] = "widen" /\ saved[p] # None /\ Open(p) /\ ~Widened(p)
  BY DEF SharedInv, Shared, TypeOK, WidenWorkspace, Open, Widened
<1>1. /\ outlived' = outlived
      /\ \E label \in {"owner", "restore"} :
           /\ pc' = [pc EXCEPT ![p] = label]
           /\ label = "owner" => mode' = "open" /\ saved' = saved
           /\ label = "restore" => mode' = mode /\ saved' = [saved EXCEPT ![p] = None]
  BY DEF WidenWorkspace, Report, Goto
<1>2. \A q \in Probes \ {p} : pc'[q] = pc[q] /\ saved'[q] = saved[q]
  BY <1>t, <1>1
<1>3. \A q \in Probes : Widened(q) => Widened(q)'
  BY <1>t, <1>2 DEF Widened, Open
<1>4. \A q \in Probes : /\ pc'[q] \in Unrecorded => saved'[q] = None
                        /\ pc'[q] = "widen" => saved'[q] # None
  <2>1. pc'[p] \notin Unrecorded \cup {"widen"}
    BY <1>t, <1>1 DEF Unrecorded, Early
  <2> QED
    BY <1>2, <2>1 DEF SharedInv, Shared
<1>5. ASSUME ~outlived', mode' = "open"
      PROVE  \E o \in Probes : Widened(o)'
  <2>1. CASE mode = "open" \/ saved[p] = "open"
    BY <1>t, <1>1, <1>3, <1>5, <2>1 DEF SharedInv, Shared
  <2>2. CASE mode # "open" /\ saved[p] = "private"
    BY <1>t, <1>1, <1>5, <2>2, VersionsAssumption DEF Widened, Open
  <2> QED
    BY <1>t, <2>1, <2>2
<1>6. ASSUME ~outlived', NEW q \in Probes, Open(q)', saved'[q] = "open"
      PROVE  \E o \in Probes : Widened(o)'
  <2>1. Open(q) /\ saved[q] = "open"
    BY <1>t, <1>1, <1>2, <1>6, VersionsAssumption DEF Open
  <2> QED
    BY <1>1, <1>3, <1>6, <2>1 DEF SharedInv, Shared
<1> QED
  BY <1>4, <1>5, <1>6 DEF Shared

\* A probe writes back what it recorded.
LEMMA SharedRestore ==
  ASSUME SharedInv, NEW p \in Probes, Restore(p)
  PROVE  Shared'
<1>t. pc \in [Probes -> Labels] /\ saved \in [Probes -> {None, "private", "open"}]
  BY DEF SharedInv, TypeOK
<1>1. /\ pc[p] = "restore" /\ pc' = [pc EXCEPT ![p] = "reported"]
      /\ mode' = IF saved[p] = None THEN mode ELSE saved[p]
      /\ saved' = saved
      /\ outlived' <=> outlived \/ (saved[p] = "private" /\ \E q \in Probes \ {p} : Open(q))
  BY DEF Restore, RestoredMode, Goto
<1>2. /\ ~Open(p)'
      /\ \A q \in Probes \ {p} : pc'[q] = pc[q] /\ (Open(q)' <=> Open(q))
  BY <1>t, <1>1 DEF Open
<1>3. \A q \in Probes : /\ pc'[q] \in Unrecorded => saved'[q] = None
                        /\ pc'[q] = "widen" => saved'[q] # None
  <2>1. pc'[p] \notin Unrecorded \cup {"widen"}
    BY <1>t, <1>1 DEF Unrecorded, Early
  <2> QED
    BY <1>1, <1>2, <2>1 DEF SharedInv, Shared
<1>4. CASE saved[p] = "private" /\ ~outlived'
  <2>1. mode' = "private" /\ \A q \in Probes : ~Open(q)'
    BY <1>1, <1>2, <1>4, VersionsAssumption
  <2> QED
    BY <1>3, <2>1 DEF Shared
<1>5. CASE saved[p] # "private" /\ ~outlived'
  <2>1. \A q \in Probes : Widened(q) => Widened(q)'
    BY <1>1, <1>2, <1>5 DEF Widened
  <2>2. ~outlived /\ (mode' = "open" => mode = "open" \/ (saved[p] = "open" /\ Open(p)))
    <3>1. saved[p] = "open" => Open(p)
      BY <1>1, VersionsAssumption DEF Open
    <3> QED
      BY <1>1, <1>5, <3>1
  <2>3. \A q \in Probes : Open(q)' /\ saved'[q] = "open" => Open(q) /\ saved[q] = "open"
    BY <1>1, <1>2
  <2> QED
    BY <1>3, <2>1, <2>2, <2>3 DEF SharedInv, Shared
<1> QED
  BY <1>3, <1>4, <1>5 DEF Shared

\* Every step keeps the workspace's accounts.
LEMMA SharedStep == SharedInv /\ [Next]_vars => SharedInv'
<1> SUFFICES ASSUME SharedInv, [Next]_vars PROVE Shared'
  BY TypeStep DEF SharedInv
<1>t. pc \in [Probes -> Labels]
  BY DEF SharedInv, TypeOK
<1>1. ASSUME NEW p \in Probes,
             \/ Start(p) \/ CheckBundle(p) \/ LookPath(p) \/ AskVersion(p) \/ MakeOwner(p)
             \/ LaunchCli(p) \/ CliReturns(p) \/ CliKilled(p) \/ DecideCleanup(p)
             \/ Inspect(p) \/ Remove(p) \/ ReadEvidence(p)
      PROVE  Shared'
  <2>1. UNCHANGED space
    BY <1>1 DEF Start, CheckBundle, LookPath, AskVersion, MakeOwner, LaunchCli, CliReturns,
         CliKilled, DecideCleanup, Inspect, Remove, ReadEvidence
  <2>2. /\ pc[p] \notin {"widen", "reported"}
        /\ \E label \in Labels \ {"widen", "reported"} :
             /\ pc' = [pc EXCEPT ![p] = label]
             /\ label \in Unrecorded => pc[p] \in Unrecorded
    BY <1>1 DEF Start, CheckBundle, LookPath, AskVersion, MakeOwner, LaunchCli, CliReturns,
         CliKilled, DecideCleanup, Inspect, Remove, ReadEvidence, Report, Goto, Labels,
         Unrecorded, Early
  <2>3. \A q \in Probes : \/ pc'[q] = pc[q]
                          \/ /\ pc'[q] \notin {"widen", "reported"}
                             /\ pc[q] \notin {"widen", "reported"}
                             /\ pc'[q] \in Unrecorded => pc[q] \in Unrecorded
    BY <2>2, <1>t
  <2> QED
    BY <2>1, <2>3, SharedFrame
<1>2. ASSUME NEW p \in Probes, MakeWorkspace(p) \/ WidenWorkspace(p) \/ Restore(p)
      PROVE  Shared'
  BY <1>2, SharedMake, SharedWiden, SharedRestore
<1>3. ASSUME NEW p \in Probes,
             \/ Expire(p) \/ EngineAnswers(p) \/ CommandExits(p) \/ EngineRemoves(p)
             \/ ReplaceTool(p)
      PROVE  Shared'
  BY <1>3, SharedFrame DEF Expire, EngineAnswers, CommandExits, EngineRemoves, ReplaceTool
<1>4. CASE Quiet \/ UNCHANGED vars
  BY <1>4, SharedFrame DEF Quiet, vars
<1> QED
  BY <1>1, <1>2, <1>3, <1>4 DEF Next, Step

\* The mode of the configured workspace comes back, however many probes share it
\* and however they overlap, unless one that found it private was done first.
THEOREM WorkspaceComesBack == Spec => []WorkspaceRestored
<1>1. Init => SharedInv
  <2> SUFFICES ASSUME Init PROVE Shared
    BY TypeInit DEF SharedInv
  <2> QED
    BY DEF Init, Shared, Open
<1>2. SharedInv => WorkspaceRestored
  BY DEF SharedInv, Shared, Widened, WorkspaceRestored
<1> QED
  BY <1>1, <1>2, SharedStep, PTL DEF Spec

-----------------------------------------------------------------------------
(* The promise.                                                            *)

\* All that the promise sees of a probe.
Seen(q) == <<StageOf(q), TaskOf(q), exit[q], VerdictOf(q)>>

LEMMA OwnSeen ==
  ASSUME NEW q \in Probes, Own(q)' = Own(q)
  PROVE  Seen(q)' = Seen(q)
BY DEF Own, Seen, StageOf, TaskOf, VerdictOf, Judged, Supported, Refuted

\* What no probe's promise can see is a stutter.
LEMMA UnseenMaps ==
  ASSUME TypeOK, TypeOK', UNCHANGED expired, \A q \in Probes : Seen(q)' = Seen(q)
  PROVE  UNCHANGED Promise!promise
<1>1. \A q \in Probes : exit'[q] = exit[q]
  BY DEF Seen
<1>2. exit' = exit
  BY <1>1 DEF TypeOK
<1> QED
  BY <1>2 DEF Promise!promise, Seen, stageBar, taskBar, verdictBar

\* What a step of one probe, or of its container, changes of the promise.
LEMMA OneMaps ==
  ASSUME NEW p \in Probes, \A q \in Probes \ {p} : Own(q)' = Own(q)
  PROVE  /\ stageBar' = [stageBar EXCEPT ![p] = StageOf(p)']
         /\ taskBar' = [taskBar EXCEPT ![p] = TaskOf(p)']
         /\ verdictBar' = [verdictBar EXCEPT ![p] = VerdictOf(p)']
<1>1. \A q \in Probes \ {p} : Seen(q)' = Seen(q)
  BY OwnSeen
<1>2. \A q \in Probes \ {p} : /\ StageOf(q)' = StageOf(q) /\ TaskOf(q)' = TaskOf(q)
                              /\ VerdictOf(q)' = VerdictOf(q)
  BY <1>1 DEF Seen
<1> QED
  BY <1>2 DEF stageBar, taskBar, verdictBar

\* Nothing happens to the other probes.
LEMMA OthersUnseen ==
  ASSUME ProbeInv, NEW p \in Probes,
         \/ Start(p) \/ Step(p) \/ CliReturns(p) \/ Expire(p) \/ EngineAnswers(p)
         \/ CommandExits(p) \/ EngineRemoves(p) \/ ReplaceTool(p)
  PROVE  \A q \in Probes \ {p} : Own(q)' = Own(q)
BY OthersKept DEF ProbeInv

\* A step inside a probe, with which its container has nothing to do, is a
\* stutter; so is one after its run was judged.
LEMMA InsideMaps ==
  ASSUME ProbeInv, ProbeInv', NEW p \in Probes,
         \A q \in Probes \ {p} : Own(q)' = Own(q),
         UNCHANGED expired, Seen(p)' = Seen(p)
  PROVE  UNCHANGED Promise!promise
<1>1. \A q \in Probes : Seen(q)' = Seen(q)
  BY OwnSeen
<1> QED
  BY <1>1, UnseenMaps DEF ProbeInv

\* What a report says of a container is true.
Truthful(p) ==
  /\ VerdictOf(p) = "success" => TaskOf(p) = "over" /\ exit[p] = "zero"
  /\ VerdictOf(p) = "failure" => TaskOf(p) \in {"never", "over"} /\ ticket[p] # "sent"

Truth == \A p \in Probes : Truthful(p)

LEMMA VerdictTrue == ProbeInv => Truth
<1> SUFFICES ASSUME ProbeInv, NEW p \in Probes PROVE Truthful(p)
  BY DEF Truth
<1>0. TypeOK /\ Cleaned(p) /\ Founded(p)
  BY DEF ProbeInv
<1>1. ASSUME VerdictOf(p) = "success" PROVE TaskOf(p) = "over" /\ exit[p] = "zero"
  <2>1. Judged(p) /\ Supported(p)
    BY <1>1 DEF VerdictOf
  <2>2. good[p]
    BY <1>0, <2>1 DEF Supported, Judged, Refuted, Cleaned, Founded
  <2> QED
    BY <1>0, <2>2 DEF Cleaned, TaskOf
<1>2. ASSUME VerdictOf(p) = "failure"
      PROVE  TaskOf(p) \in {"never", "over"} /\ ticket[p] # "sent"
  <2>1. Judged(p) /\ cleanup[p] \in {"none", "removed"}
    BY <1>0, <1>2 DEF VerdictOf, TypeOK
  <2>2. ticket[p] = "none" \/ cont[p] = "removed"
    BY <1>0, <2>1 DEF Judged, Cleaned
  <2>3. cont[p] \in {"never", "removed"} /\ ticket[p] # "sent"
    BY <1>0, <2>2 DEF Cleaned, TypeOK
  <2> QED
    BY <2>3 DEF TaskOf
<1> QED
  BY <1>1, <1>2 DEF Truthful

\* A probe whose run is judged, or that is refused before it.
LEMMA JudgedMaps ==
  ASSUME ProbeInv, ProbeInv', NEW p \in Probes,
         \A q \in Probes \ {p} : Own(q)' = Own(q),
         UNCHANGED <<expired, cont, exit>>,
         pc[p] # "idle", ~Judged(p), pc'[p] # "idle", Judged(p)',
         VerdictOf(p)' = "success" => ~expired[p]
  PROVE  Promise!Return(p)
<1>1. VerdictOf(p)' \in {"success", "failure", "unclean"}
  BY DEF VerdictOf
<1>2. TaskOf(p)' = TaskOf(p)
  BY DEF TaskOf
<1>3. StageOf(p) = "running" /\ StageOf(p)' = "returned"
  BY DEF StageOf
<1>4. stageBar[p] = "running" /\ stageBar' = [stageBar EXCEPT ![p] = "returned"]
  BY <1>3, OneMaps DEF stageBar
<1>5. UNCHANGED taskBar
  BY <1>2, OneMaps DEF taskBar
<1>6. verdictBar' = [verdictBar EXCEPT ![p] = VerdictOf(p)']
  BY OneMaps
<1>7. Promise!Warranted(p, VerdictOf(p)')
  <2>1. /\ VerdictOf(p)' = "success" => TaskOf(p)' = "over" /\ exit'[p] = "zero"
        /\ VerdictOf(p)' = "failure" => TaskOf(p)' \in {"never", "over"}
    <3>1. Truth'
      BY VerdictTrue, PTL
    <3> QED
      BY <3>1 DEF Truth, Truthful
  <2> QED
    BY <1>2, <2>1 DEF Promise!Warranted, taskBar
<1>8. VerdictOf(p)' \in Promise!Verdicts \ {"none"}
  BY <1>1 DEF Promise!Verdicts
<1> QED
  BY <1>4, <1>5, <1>6, <1>7, <1>8 DEF Promise!Return

\* Up to the launch, a probe that goes on is not seen, and one that is refused
\* reports.
LEMMA EarlyMaps ==
  ASSUME ProbeInv, ProbeInv', NEW p \in Probes,
         \/ CheckBundle(p) \/ LookPath(p) \/ AskVersion(p) \/ MakeWorkspace(p)
         \/ WidenWorkspace(p) \/ MakeOwner(p)
  PROVE  UNCHANGED Promise!promise \/ Promise!Return(p)
<1>1. \A q \in Probes \ {p} : Own(q)' = Own(q)
  BY OthersUnseen DEF Step
<1>2. /\ pc[p] \in {"bundle", "lookup", "version", "workspace", "widen", "owner"}
      /\ UNCHANGED <<expired, cleanup, cont, exit>>
  BY DEF CheckBundle, LookPath, AskVersion, MakeWorkspace, WidenWorkspace, MakeOwner,
     engine
<1>3. \/ pc'[p] \in {"lookup", "version", "workspace", "widen", "owner", "launch"}
      \/ pc'[p] = "restore" /\ status'[p] \in {"unsupported", "degraded"}
  BY DEF CheckBundle, LookPath, AskVersion, MakeWorkspace, WidenWorkspace, MakeOwner,
     ConfiguredWorkspace, TemporaryWorkspace, Report, Goto, ProbeInv, TypeOK
<1>4. StageOf(p) = "running" /\ ~Judged(p)
  BY <1>2 DEF StageOf, Judged
<1>5. CASE pc'[p] # "restore"
  <2>1. Seen(p)' = Seen(p)
    BY <1>2, <1>3, <1>5 DEF Seen, StageOf, TaskOf, VerdictOf, Judged
  <2> QED
    BY <1>1, <1>2, <2>1, InsideMaps
<1>6. CASE pc'[p] = "restore"
  <2>1. Judged(p)' /\ ~Supported(p)'
    BY <1>3, <1>6 DEF Judged, Supported
  <2>2. VerdictOf(p)' # "success"
    BY <2>1 DEF VerdictOf
  <2> QED
    BY <1>1, <1>2, <1>4, <1>6, <2>1, <2>2, JudgedMaps
<1> QED
  BY <1>5, <1>6

\* From the launch to the inspection.
LEMMA AttachedMaps ==
  ASSUME ProbeInv, ProbeInv', NEW p \in Probes,
         LaunchCli(p) \/ CliReturns(p) \/ CliKilled(p) \/ Inspect(p)
  PROVE  UNCHANGED Promise!promise
<1>1. \A q \in Probes \ {p} : Own(q)' = Own(q)
  BY OthersUnseen DEF Step
<1>2. /\ pc[p] \in {"launch", "attached", "inspect"}
      /\ \/ pc'[p] \in {"attached", "returned", "remove"}
         \/ pc'[p] = "evidence" /\ cleanup'[p] = "error"
      /\ UNCHANGED <<expired, cont, exit>>
  BY DEF LaunchCli, CliReturns, CliKilled, Inspect, Goto, engine, ProbeInv, TypeOK
<1>3. Seen(p)' = Seen(p)
  BY <1>2 DEF Seen, StageOf, TaskOf, VerdictOf, Judged
<1> QED
  BY <1>1, <1>2, <1>3, InsideMaps

\* A run that ended well before the deadline is judged at once.
LEMMA DecideMaps ==
  ASSUME ProbeInv, ProbeInv', NEW p \in Probes, DecideCleanup(p)
  PROVE  UNCHANGED Promise!promise \/ Promise!Return(p)
<1>1. \A q \in Probes \ {p} : Own(q)' = Own(q)
  BY OthersUnseen DEF Step
<1>2. /\ pc[p] = "returned" /\ UNCHANGED <<expired, report, cont, exit>>
      /\ pc'[p] = IF MustClean(p) THEN "inspect" ELSE "evidence"
  BY DEF DecideCleanup, Goto, engine, ProbeInv, TypeOK
<1>3. StageOf(p) = "running" /\ ~Judged(p)
  BY <1>2 DEF StageOf, Judged
<1>4. CASE Judged(p)'
  <2>1. pc'[p] = "evidence" /\ ~expired[p]
    BY <1>2, <1>4 DEF Judged, MustClean
  <2> QED
    BY <1>1, <1>2, <1>3, <1>4, <2>1, JudgedMaps DEF report
<1>5. CASE ~Judged(p)'
  <2>1. Seen(p)' = Seen(p)
    BY <1>2, <1>3, <1>5 DEF Seen, StageOf, TaskOf, VerdictOf
  <2> QED
    BY <1>1, <1>2, <2>1, InsideMaps
<1> QED
  BY <1>4, <1>5

\* What happens to the container of a probe, while nothing more is said of it.
LEMMA TaskMaps ==
  ASSUME ProbeInv, ProbeInv', NEW p \in Probes,
         \A q \in Probes \ {p} : Own(q)' = Own(q),
         UNCHANGED expired, StageOf(p)' = StageOf(p), VerdictOf(p)' = VerdictOf(p),
         TaskOf(p) = "alive", TaskOf(p)' = "over"
  PROVE  Promise!TaskEnds(p)
<1>1. taskBar[p] = "alive" /\ taskBar' = [taskBar EXCEPT ![p] = "over"]
  BY OneMaps DEF taskBar
<1>2. UNCHANGED <<stageBar, verdictBar>>
  BY OneMaps DEF stageBar, verdictBar
<1>3. exit' = [exit EXCEPT ![p] = exit'[p]] /\ exit'[p] \in {"none", "zero", "other"}
  BY DEF Own, ProbeInv, TypeOK
<1> QED
  BY <1>1, <1>2, <1>3 DEF Promise!TaskEnds

\* The removal ends a command that still runs.
LEMMA RemoveMaps ==
  ASSUME ProbeInv, ProbeInv', NEW p \in Probes, Remove(p)
  PROVE  UNCHANGED Promise!promise \/ Promise!TaskEnds(p)
<1>1. \A q \in Probes \ {p} : Own(q)' = Own(q)
  BY OthersUnseen DEF Step
<1>2. /\ pc[p] = "remove" /\ pc'[p] = "evidence" /\ cleanup'[p] \in {"removed", "error"}
      /\ UNCHANGED <<expired, exit>>
      /\ cont[p] # "never" /\ (cont'[p] = cont[p] \/ cont'[p] = "removed")
  BY DEF Remove, Goto, Cleaned, ProbeInv, TypeOK
<1>3. /\ StageOf(p)' = StageOf(p) /\ VerdictOf(p)' = VerdictOf(p)
  BY <1>2 DEF StageOf, VerdictOf, Judged
<1>4. CASE TaskOf(p)' = TaskOf(p)
  BY <1>1, <1>2, <1>3, <1>4, InsideMaps DEF Seen
<1>5. CASE TaskOf(p)' # TaskOf(p)
  <2>1. TaskOf(p) = "alive" /\ TaskOf(p)' = "over"
    BY <1>2, <1>5 DEF TaskOf
  <2> QED
    BY <1>1, <1>2, <1>3, <2>1, TaskMaps
<1> QED
  BY <1>4, <1>5

\* The evidence turns only the report of a run that was cleaned up after.
LEMMA EvidenceMaps ==
  ASSUME ProbeInv, ProbeInv', NEW p \in Probes, ReadEvidence(p)
  PROVE  UNCHANGED Promise!promise \/ Promise!Return(p)
<1>1. \A q \in Probes \ {p} : Own(q)' = Own(q)
  BY OthersUnseen DEF Step
<1>2. /\ pc[p] = "evidence" /\ pc'[p] = "restore"
      /\ UNCHANGED <<expired, proof, cleanup, cont, exit>>
      /\ status'[p] = IF Refuted(p) THEN "degraded" ELSE "supported"
  BY DEF ReadEvidence, Report, Goto, engine, ProbeInv, TypeOK
<1>3. Judged(p)' /\ (Supported(p)' <=> ~Refuted(p))
  BY <1>2 DEF Judged, Supported
<1>4. CASE cleanup[p] = "none"
  <2>1. Judged(p) /\ (Supported(p) <=> ~Refuted(p))
    BY <1>2, <1>4 DEF Judged, Supported
  <2>2. Seen(p)' = Seen(p)
    BY <1>2, <1>3, <2>1 DEF Seen, StageOf, TaskOf, VerdictOf
  <2> QED
    BY <1>1, <1>2, <2>2, InsideMaps
<1>5. CASE cleanup[p] # "none"
  <2>1. ~Judged(p) /\ VerdictOf(p)' # "success"
    BY <1>2, <1>3, <1>5 DEF Judged, Refuted, VerdictOf
  <2> QED
    BY <1>1, <1>2, <1>3, <2>1, JudgedMaps
<1> QED
  BY <1>4, <1>5

\* What the promise does not see: the workspace, the tool, and the engine's
\* removal of what has ended.
LEMMA AsideMaps ==
  ASSUME ProbeInv, ProbeInv', NEW p \in Probes,
         Restore(p) \/ ReplaceTool(p) \/ EngineRemoves(p)
  PROVE  UNCHANGED Promise!promise
<1>1. \A q \in Probes \ {p} : Own(q)' = Own(q)
  BY OthersUnseen DEF Step
<1>2. /\ UNCHANGED <<expired, status, proof, cleanup, exit>>
      /\ \/ pc'[p] = pc[p]
         \/ pc[p] = "restore" /\ pc'[p] = "reported"
      /\ \/ cont'[p] = cont[p]
         \/ cont[p] = "exited" /\ cont'[p] = "removed"
  <2> USE DEF report, engine, Goto, ProbeInv, TypeOK
  <2>1. CASE Restore(p)
    BY <2>1 DEF Restore
  <2>2. CASE ReplaceTool(p)
    BY <2>2 DEF ReplaceTool
  <2>3. CASE EngineRemoves(p)
    BY <2>3 DEF EngineRemoves
  <2> QED
    BY <2>1, <2>2, <2>3
<1>3. Seen(p)' = Seen(p)
  BY <1>2 DEF Seen, StageOf, TaskOf, VerdictOf, Judged, Supported, Refuted
<1> QED
  BY <1>1, <1>2, <1>3, InsideMaps

\* The probe is made.
LEMMA StartMaps ==
  ASSUME ProbeInv, ProbeInv', NEW p \in Probes, Start(p)
  PROVE  Promise!Call(p, expired[p])
<1>1. \A q \in Probes \ {p} : Own(q)' = Own(q)
  BY OthersUnseen
<1>2. /\ pc[p] = "idle" /\ pc'[p] \in {"lookup", "bundle"}
      /\ UNCHANGED <<expired, cont, exit>>
      /\ expired' = [expired EXCEPT ![p] = expired[p]]
  BY DEF Start, Goto, engine, ProbeInv, TypeOK
<1>3. /\ StageOf(p) = "idle" /\ StageOf(p)' = "running"
      /\ TaskOf(p)' = TaskOf(p) /\ VerdictOf(p)' = VerdictOf(p)
  BY <1>2 DEF StageOf, TaskOf, VerdictOf, Judged
<1>4. stageBar[p] = "idle" /\ stageBar' = [stageBar EXCEPT ![p] = "running"]
  BY <1>1, <1>3, OneMaps DEF stageBar
<1>5. UNCHANGED <<taskBar, verdictBar>>
  BY <1>1, <1>3, OneMaps DEF taskBar, verdictBar
<1> QED
  BY <1>2, <1>4, <1>5 DEF Promise!Call

\* The deadline.
LEMMA ExpireMaps ==
  ASSUME ProbeInv, NEW p \in Probes, Expire(p)
  PROVE  Promise!Expire(p)
<1>1. UNCHANGED <<pc, status, proof, cleanup, cont, exit>>
  BY DEF Expire, report, engine
<1>2. UNCHANGED <<stageBar, taskBar, verdictBar>>
  BY <1>1 DEF stageBar, taskBar, verdictBar, StageOf, TaskOf, VerdictOf, Judged, Supported,
     Refuted
<1>3. stageBar[p] # "idle"
  BY DEF Expire, stageBar, StageOf
<1> QED
  BY <1>1, <1>2, <1>3 DEF Expire, Promise!Expire

\* The engine starts the container only of a probe of which nothing is said that
\* a container could belie.
LEMMA AnswerMaps ==
  ASSUME ProbeInv, ProbeInv', NEW p \in Probes, EngineAnswers(p)
  PROVE  UNCHANGED Promise!promise \/ Promise!TaskStarts(p)
<1>1. \A q \in Probes \ {p} : Own(q)' = Own(q)
  BY OthersUnseen
<1>2. /\ ticket[p] = "sent" /\ UNCHANGED <<expired, pc, status, proof, cleanup, exit>>
      /\ cont[p] = "never" /\ cont'[p] \in {"never", "running"}
  BY DEF EngineAnswers, report, Cleaned, ProbeInv, TypeOK
<1>3. StageOf(p)' = StageOf(p) /\ VerdictOf(p)' = VerdictOf(p)
  BY <1>2 DEF StageOf, VerdictOf, Judged, Supported, Refuted
<1>4. CASE cont'[p] = "never"
  <2>1. Seen(p)' = Seen(p)
    BY <1>2, <1>3, <1>4 DEF Seen, TaskOf
  <2> QED
    BY <1>1, <1>2, <2>1, InsideMaps
<1>5. CASE cont'[p] = "running"
  <2>1. StageOf(p) # "idle"
    BY <1>2 DEF StageOf, ProbeInv, Cleaned, Early, TypeOK, Judged
  <2>2. VerdictOf(p) \notin {"success", "failure"}
    BY <1>2, VerdictTrue DEF Truth, Truthful, TaskOf
  <2>3. TaskOf(p) = "never" /\ TaskOf(p)' = "alive"
    BY <1>2, <1>5 DEF TaskOf
  <2>4. taskBar[p] = "never" /\ taskBar' = [taskBar EXCEPT ![p] = "alive"]
    BY <1>1, <2>3, OneMaps DEF taskBar
  <2>5. UNCHANGED <<stageBar, verdictBar>>
    BY <1>1, <1>3, OneMaps DEF stageBar, verdictBar
  <2>6. stageBar[p] # "idle" /\ ~Promise!Closed(p)
    BY <2>1, <2>2 DEF stageBar, verdictBar, Promise!Closed
  <2> QED
    BY <1>2, <2>4, <2>5, <2>6 DEF Promise!TaskStarts
<1> QED
  BY <1>2, <1>4, <1>5

\* The conformance command ends by itself.
LEMMA ExitMaps ==
  ASSUME ProbeInv, ProbeInv', NEW p \in Probes, CommandExits(p)
  PROVE  Promise!TaskEnds(p)
<1>1. \A q \in Probes \ {p} : Own(q)' = Own(q)
  BY OthersUnseen
<1>2. /\ UNCHANGED <<expired, pc, status, proof, cleanup>>
      /\ cont[p] = "running" /\ cont'[p] = "exited"
  BY DEF CommandExits, report, ProbeInv, TypeOK
<1>3. StageOf(p)' = StageOf(p) /\ VerdictOf(p)' = VerdictOf(p)
  BY <1>2 DEF StageOf, VerdictOf, Judged, Supported, Refuted
<1>4. TaskOf(p) = "alive" /\ TaskOf(p)' = "over"
  BY <1>2 DEF TaskOf
<1> QED
  BY <1>1, <1>2, <1>3, <1>4, TaskMaps

\* Every step is one of the promise, or none.
LEMMA StepMaps ==
  ASSUME ProbeInv, ProbeInv', [Next]_vars
  PROVE  [Promise!Next]_(Promise!promise)
<1>1. ASSUME NEW p \in Probes, Start(p) PROVE Promise!Next
  <2>1. expired[p] \in BOOLEAN
    BY DEF ProbeInv, TypeOK
  <2> QED
    BY <1>1, <2>1, StartMaps DEF Promise!Next
<1>2. ASSUME NEW p \in Probes, Step(p)
      PROVE  UNCHANGED Promise!promise \/ Promise!Return(p) \/ Promise!TaskEnds(p)
  BY <1>2, EarlyMaps, AttachedMaps, DecideMaps, RemoveMaps, EvidenceMaps, AsideMaps DEF Step
<1>3. ASSUME NEW p \in Probes, Expire(p) PROVE Promise!Expire(p)
  BY <1>3, ExpireMaps
<1>4. ASSUME NEW p \in Probes, CliReturns(p) \/ EngineRemoves(p) \/ ReplaceTool(p)
      PROVE  UNCHANGED Promise!promise
  BY <1>4, AttachedMaps, AsideMaps
<1>5. ASSUME NEW p \in Probes, EngineAnswers(p)
      PROVE  UNCHANGED Promise!promise \/ Promise!TaskStarts(p)
  BY <1>5, AnswerMaps
<1>6. ASSUME NEW p \in Probes, CommandExits(p) PROVE Promise!TaskEnds(p)
  BY <1>6, ExitMaps
<1>7. CASE Quiet \/ UNCHANGED vars
  <2>1. UNCHANGED <<expired, pc, report, cont, exit, ticket, tool>>
    BY <1>7 DEF Quiet, vars, engine, tools
  <2>2. \A q \in Probes : Seen(q)' = Seen(q)
    BY <2>1 DEF Seen, StageOf, TaskOf, VerdictOf, Judged, Supported, Refuted, report
  <2> QED
    BY <2>1, <2>2, UnseenMaps DEF ProbeInv
<1> QED
  BY <1>1, <1>2, <1>3, <1>4, <1>5, <1>6, <1>7 DEF Next, Promise!Next

\* Probe keeps the promise of Run towards the container it starts by itself, for
\* any number of probes: support means it ended with status zero in time, any
\* other report that it does not run and never will, unless it says otherwise.
THEOREM ProbeImplementsPromise == Spec => ProbeKeepsPromise
<1>1. Init => Promise!Init
  <2> SUFFICES ASSUME Init PROVE Promise!Init
    OBVIOUS
  <2>1. \A p \in Probes : /\ StageOf(p) = "idle" /\ TaskOf(p) = "never"
                          /\ VerdictOf(p) = "none"
    BY DEF Init, StageOf, TaskOf, VerdictOf, Judged
  <2> QED
    BY <2>1 DEF Init, Promise!Init, stageBar, taskBar, verdictBar
<1>2. ProbeInv /\ ProbeInv' /\ [Next]_vars => [Promise!Next]_(Promise!promise)
  BY StepMaps
<1>3. ProbeInv /\ [Next]_vars => ProbeInv'
  BY ProbeStep
<1> QED
  BY <1>1, <1>2, <1>3, ProbeInit, PTL DEF Spec, ProbeKeepsPromise, Promise!Spec
=============================================================================
