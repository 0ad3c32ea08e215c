-------------------------- MODULE SandboxRunProofs --------------------------
(* Theorems about SandboxRun, for any number of calls, of containers of     *)
(* other programs and of workspaces.                                        *)
EXTENDS SandboxRefinement, TLAPS

-----------------------------------------------------------------------------
(* Types.                                                                  *)

\* A call that has started has a workspace.
Typed == TypeOK /\ \A r \in Runs : pc[r] # "idle" => ws[r] \in Workspaces

\* A reply whose capture is withheld is a reply.
LEMMA RecapturedType ==
  ASSUME NEW p \in Replies, NEW c \in Captures
  PROVE  [p EXCEPT !.capture = c] \in Replies
BY DEF Replies

\* Recorded bits are permission bits, whatever the mode.
LEMMA PermType == ASSUME TypeOK, NEW p \in Paths PROVE PermOf(mode[p]) \in Perms
BY DEF TypeOK, PermOf, Modes, Perms

\* What is written back are modes of paths.
LEMMA WrittenBackType ==
  ASSUME TypeOK, NEW r \in Runs, NEW links
  PROVE  WrittenBack(r, links) \in [Paths -> Modes]
BY DEF TypeOK, WrittenBack, Modes, Perms

\* cleanup() leaves an env file, modes and a history of their types.
LEMMA CleanUpType ==
  ASSUME TypeOK, NEW r \in Runs, CleanUp(r), ws[r] \in Workspaces
  PROVE  /\ envFile' \in [Runs -> BOOLEAN] /\ mode' \in [Paths -> Modes]
         /\ outlived' \in SUBSET Workspaces
<1>1. mode' \in [Paths -> Modes]
  BY WrittenBackType DEF CleanUp, ClosedModes
<1> QED
  BY <1>1 DEF CleanUp, Outlive, TypeOK

\* Every action keeps the types.
LEMMA TypeStep == Typed /\ [Next]_vars => Typed'
<1> SUFFICES ASSUME Typed, [Next]_vars PROVE Typed'
  OBVIOUS
<1> USE RunsAssumption DEF Typed, TypeOK, Labels, Ended, Active, Requests, Flaws,
        Perms, Modes, Captures, Statuses, Replies, Containers
<1>1. ASSUME NEW r \in Runs, Start(r) PROVE Typed'
  BY <1>1 DEF Start, Goto, engine, host
<1>2. ASSUME NEW r \in Runs, ValidatePolicy(r) PROVE Typed'
  BY <1>2 DEF ValidatePolicy, Goto, local, engine, host
<1>3. ASSUME NEW r \in Runs, RecordModes(r) \/ WidenModes(r) PROVE Typed'
  <2>1. ws[r] \in Workspaces
    BY <1>3 DEF RecordModes, WidenModes
  <2>2. ASSUME RecordModes(r) PROVE Typed'
    <3> USE <2>2 DEF RecordModes, Goto, engine
    <3>1. CASE UNCHANGED <<saved, mode>> /\ Goto(r, "arguments")
      BY <3>1
    <3>2. CASE /\ saved' = [saved EXCEPT ![r] = PermOf(mode[ws[r]])]
               /\ Goto(r, "widen") /\ UNCHANGED mode
      <4>1. PermOf(mode[ws[r]]) \in Perms
        BY <2>1, PermType DEF Paths
      <4> QED
        BY <3>2, <4>1
    <3>3. CASE /\ \E links \in SUBSET LinksOf(r) : mode' = WrittenBack(r, links)
               /\ Goto(r, "refused") /\ UNCHANGED saved
      <4>1. mode' \in [Paths -> Modes]
        BY <3>3, WrittenBackType
      <4> QED
        BY <3>3, <4>1
    <3> QED
      BY <3>1, <3>2, <3>3
  <2>3. ASSUME WidenModes(r) PROVE Typed'
    <3> USE <2>3 DEF WidenModes, Goto, engine
    <3>1. CASE /\ mode' = [mode EXCEPT ![ws[r]] = "open"]
               /\ Goto(r, "arguments") /\ UNCHANGED outlived
      <4>1. mode' \in [Paths -> Modes]
        BY <3>1
      <4> QED
        BY <3>1, <4>1
    <3>2. CASE /\ \E links \in SUBSET LinksOf(r) : mode' = WrittenBack(r, links)
               /\ Outlive(r) /\ Goto(r, "refused")
      <4>1. mode' \in [Paths -> Modes]
        BY <3>2, WrittenBackType
      <4>2. outlived' \in SUBSET Workspaces
        BY <2>1, <3>2 DEF Outlive
      <4> QED
        BY <3>2, <4>1, <4>2
    <3> QED
      BY <3>1, <3>2
  <2> QED
    BY <1>3, <2>2, <2>3
<1>4. ASSUME NEW r \in Runs, BuildArguments(r) PROVE Typed'
  <2> USE <1>4 DEF BuildArguments, Goto, engine, host
  <2>1. CASE Goto(r, "refused") /\ UNCHANGED <<envFile, host>>
    BY <2>1
  <2>2. CASE Goto(r, "refused") /\ CleanUp(r)
    BY <2>2, CleanUpType
  <2>3. CASE /\ envFile' = [envFile EXCEPT ![r] = TRUE]
             /\ Goto(r, "spec") /\ UNCHANGED host
    BY <2>3
  <2> QED
    BY <2>1, <2>2, <2>3
<1>5. ASSUME NEW r \in Runs, FinishSpec(r) PROVE Typed'
  <2> USE <1>5 DEF FinishSpec, Goto, engine, host
  <2>1. CASE Goto(r, "refused") /\ CleanUp(r)
    BY <2>1, CleanUpType
  <2>2. CASE Goto(r, "launch") /\ UNCHANGED <<envFile, host>>
    BY <2>2
  <2> QED
    BY <2>1, <2>2
<1>6. ASSUME NEW r \in Runs, LaunchCli(r) PROVE Typed'
  <2> USE <1>6 DEF LaunchCli, Goto, host
  <2>1. CASE /\ ticket' = [ticket EXCEPT ![r] = "sent"]
             /\ Goto(r, "attached") /\ UNCHANGED reply
    BY <2>1
  <2>2. CASE /\ reply' = [reply EXCEPT ![r] = [status |-> "cli", capture |-> "whole"]]
             /\ Goto(r, "returned") /\ UNCHANGED ticket
    BY <2>2
  <2> QED
    BY <2>1, <2>2
<1>7. ASSUME NEW r \in Runs, CliKilled(r) PROVE Typed'
  BY <1>7 DEF CliKilled, Goto, engine, host
<1>8. ASSUME NEW r \in Runs, ReadContext(r) PROVE Typed'
  <2>1. Withheld(r) \in Captures
    <3>1. reply[r].capture \in Captures
      OBVIOUS
    <3> HIDE DEF Captures
    <3>2. Withheld(r) \in {"incomplete", reply[r].capture}
      BY DEF Withheld
    <3> QED
      BY <3>1, <3>2 DEF Captures
  <2>2. [reply[r] EXCEPT !.capture = Withheld(r)] \in Replies
    <3>1. reply[r] \in Replies
      OBVIOUS
    <3> QED
      BY <2>1, <3>1, RecapturedType
  <2>3. reply' \in [Runs -> Replies]
    BY <1>8, <2>2 DEF ReadContext
  <2> QED
    BY <1>8, <2>3 DEF ReadContext, Goto, engine, host
<1>9. ASSUME NEW r \in Runs, DecideCleanup(r) PROVE Typed'
  BY <1>9 DEF DecideCleanup, Goto, engine, host
<1>10. ASSUME NEW r \in Runs, InspectByName(r) PROVE Typed'
  <2> USE <1>10 DEF InspectByName, Goto, engine, host
  <2>1. CASE \E c \in Containers : /\ target' = [target EXCEPT ![r] = c]
                                   /\ Goto(r, "remove") /\ UNCHANGED cleanup
    BY <2>1
  <2>2. CASE /\ \E v \in {"unproven", "cliError"} :
                  cleanup' = [cleanup EXCEPT ![r] = v]
             /\ Goto(r, "measure") /\ UNCHANGED target
    BY <2>2
  <2> QED
    BY <2>1, <2>2 DEF Holders
<1>11. ASSUME NEW r \in Runs, RemoveById(r) PROVE Typed'
  <2>1. cont' \in [Containers -> {"never", "running", "exited", "removed"}]
    BY <1>11 DEF RemoveById, Removed
  <2>2. cleanup' \in [Runs -> {"none", "removed", "cliError", "unproven"}]
    <3>1. PICK outcome \in {"removed", "cliError"} :
            cleanup' = [cleanup EXCEPT ![r] = outcome]
      BY <1>11 DEF RemoveById
    <3> QED
      BY <3>1
  <2> QED
    BY <1>11, <2>1, <2>2 DEF RemoveById, Goto, host
<1>12. ASSUME NEW r \in Runs, MeasureWorkspace(r) PROVE Typed'
  BY <1>12 DEF MeasureWorkspace, MeasurementsOf, Goto, engine, host
<1>13. ASSUME NEW r \in Runs, Return(r) PROVE Typed'
  BY <1>13, CleanUpType DEF Return, Goto, engine
<1>14. ASSUME NEW r \in Runs, CliReturns(r) PROVE Typed'
  BY <1>14 DEF CliReturns, Goto, engine, host
<1>15. ASSUME NEW r \in Runs, Expire(r) PROVE Typed'
  BY <1>15 DEF Expire, local, engine, host
<1>16. ASSUME NEW r \in Runs, EngineCreates(r) PROVE Typed'
  BY <1>16 DEF EngineCreates, local, host
<1>17. ASSUME NEW r \in Runs, TaskExits(r) PROVE Typed'
  BY <1>17 DEF TaskExits, local, host
<1>18. ASSUME NEW r \in Runs, EngineRemoves(r) PROVE Typed'
  BY <1>18 DEF EngineRemoves, local, host
<1>19. ASSUME NEW r \in Runs, NEW s \in Strangers, StrangerAppears(s, r) PROVE Typed'
  BY <1>19 DEF StrangerAppears, local, host
<1>20. CASE Quiet \/ UNCHANGED vars
  BY <1>20 DEF Quiet, vars
<1> QED
  BY <1>1, <1>2, <1>3, <1>4, <1>5, <1>6, <1>7, <1>8, <1>9, <1>10, <1>11, <1>12,
     <1>13, <1>14, <1>15, <1>16, <1>17, <1>18, <1>19, <1>20 DEF Next, Step

\* No call gets a value its Go type does not have, whatever the engine does.
THEOREM TypeCorrectness == Spec => []TypeOK
<1>1. Init => Typed
  BY DEF Init, Typed, TypeOK, Labels, Ended, Requests, Flaws, Perms, Modes,
         Captures, Statuses, Replies, Containers, Paths
<1>2. Typed => TypeOK
  BY DEF Typed
<1> QED
  BY <1>1, <1>2, TypeStep, PTL DEF Spec

-----------------------------------------------------------------------------
(* Containers.                                                             *)

\* What a call knows of its container: at the removal, that the proved id is
\* its own and that it was created; after a removal without error, and after
\* a status of zero, that it is gone; and that a container exists only in
\* answer to its request, which is made at the launch.
Settled(r) ==
  /\ pc[r] = "remove" => target[r] = r /\ cont[r] # "never"
  /\ cleanup[r] = "removed" => cont[r] = "removed"
  /\ pc[r] \in {"returned", "recheck", "inspect", "remove", "measure", "restore",
                "done"}
       /\ reply[r].status = "zero" => cont[r] = "removed"
  /\ pc[r] \in {"measure", "restore", "done"} /\ cleanup[r] = "none" =>
       reply[r].status = "zero"
  /\ cont[r] # "never" => ticket[r] = "answered"
  /\ pc[r] \in {"idle", "validate", "open", "widen", "arguments", "spec", "launch"} =>
       ticket[r] = "none"

SettledInv == Typed /\ \A r \in Runs : Settled(r)

\* A step of one call leaves what another call knows alone.
LEMMA SettledStep == SettledInv /\ [Next]_vars => SettledInv'
<1> SUFFICES ASSUME SettledInv, [Next]_vars PROVE SettledInv'
  OBVIOUS
<1>0. Typed'
  BY TypeStep DEF SettledInv
<1> SUFFICES ASSUME NEW q \in Runs PROVE Settled(q)'
  BY <1>0 DEF SettledInv
<1> USE RunsAssumption DEF SettledInv, Typed, TypeOK, Settled, Containers
<1>1. ASSUME NEW r \in Runs, Start(r) PROVE Settled(q)'
  BY <1>1 DEF Start, Goto, engine
<1>2. ASSUME NEW r \in Runs, ValidatePolicy(r) PROVE Settled(q)'
  BY <1>2 DEF ValidatePolicy, Goto, local, engine, host
<1>3. ASSUME NEW r \in Runs, RecordModes(r) \/ WidenModes(r) PROVE Settled(q)'
  <2>1. /\ pc[r] \in {"open", "widen"}
        /\ \E label \in {"widen", "arguments", "refused"} : Goto(r, label)
        /\ UNCHANGED <<ticket, cont, exit, reply, cleanup, target, joined, expired>>
    BY <1>3 DEF RecordModes, WidenModes, engine
  <2> QED
    BY <2>1 DEF Goto
<1>4. ASSUME NEW r \in Runs, BuildArguments(r) PROVE Settled(q)'
  BY <1>4 DEF BuildArguments, Goto, engine
<1>5. ASSUME NEW r \in Runs, FinishSpec(r) PROVE Settled(q)'
  BY <1>5 DEF FinishSpec, Goto, engine
<1>6. ASSUME NEW r \in Runs, LaunchCli(r) PROVE Settled(q)'
  <2> USE <1>6 DEF LaunchCli, Goto, host
  <2>1. CASE /\ ticket' = [ticket EXCEPT ![r] = "sent"]
             /\ Goto(r, "attached") /\ UNCHANGED reply
    BY <2>1
  <2>2. CASE /\ reply' = [reply EXCEPT ![r] = [status |-> "cli", capture |-> "whole"]]
             /\ Goto(r, "returned") /\ UNCHANGED ticket
    BY <2>2
  <2> QED
    BY <2>1, <2>2
<1>7. ASSUME NEW r \in Runs, CliKilled(r) PROVE Settled(q)'
  BY <1>7 DEF CliKilled, Goto, engine, host, Replies, Statuses
<1>8. ASSUME NEW r \in Runs, ReadContext(r) PROVE Settled(q)'
  BY <1>8 DEF ReadContext, Goto, engine, host, Replies, Statuses
<1>9. ASSUME NEW r \in Runs, DecideCleanup(r) PROVE Settled(q)'
  BY <1>9 DEF DecideCleanup, NeedsCleanup, Errored, Goto, engine, host
<1>10. ASSUME NEW r \in Runs, InspectByName(r) PROVE Settled(q)'
  BY <1>10 DEF InspectByName, Holders, Present, Owned, Goto, engine, host
<1>11. ASSUME NEW r \in Runs, RemoveById(r) PROVE Settled(q)'
  <2> USE <1>11 DEF RemoveById, Removed, Doomed, Present, Goto, host
  <2>1. CASE q = r
    <3>1. cont' = Removed(Doomed(r)) => cont'[r] = "removed"
      BY <2>1
    <3>2. cleanup'[r] = "removed" => cont' = Removed(Doomed(r))
      BY <2>1
    <3>3. pc'[r] = "measure" /\ cleanup'[r] # "none" /\ UNCHANGED <<reply, ticket>>
      BY <2>1
    <3>4. cont'[r] = cont[r] \/ cont'[r] = "removed"
      BY <2>1
    <3> QED
      BY <2>1, <3>1, <3>2, <3>3, <3>4
  <2>2. CASE q # r
    BY <2>2
  <2> QED
    BY <2>1, <2>2
<1>12. ASSUME NEW r \in Runs, MeasureWorkspace(r) PROVE Settled(q)'
  BY <1>12 DEF MeasureWorkspace, Goto, engine, host
<1>13. ASSUME NEW r \in Runs, Return(r) PROVE Settled(q)'
  BY <1>13 DEF Return, Goto, engine
<1>14. ASSUME NEW r \in Runs, CliReturns(r) PROVE Settled(q)'
  BY <1>14 DEF CliReturns, Vouches, Goto, engine, host, Replies, Statuses
<1>15. ASSUME NEW r \in Runs, Expire(r) PROVE Settled(q)'
  BY <1>15 DEF Expire, local, engine, host
<1>16. ASSUME NEW r \in Runs, EngineCreates(r) PROVE Settled(q)'
  BY <1>16 DEF EngineCreates, local, host
<1>17. ASSUME NEW r \in Runs, TaskExits(r) PROVE Settled(q)'
  BY <1>17 DEF TaskExits, local, host
<1>18. ASSUME NEW r \in Runs, EngineRemoves(r) PROVE Settled(q)'
  BY <1>18 DEF EngineRemoves, local, host
<1>19. ASSUME NEW r \in Runs, NEW s \in Strangers, StrangerAppears(s, r)
       PROVE Settled(q)'
  BY <1>19 DEF StrangerAppears, local, host
<1>20. CASE Quiet \/ UNCHANGED vars
  BY <1>20 DEF Quiet, vars
<1> QED
  BY <1>1, <1>2, <1>3, <1>4, <1>5, <1>6, <1>7, <1>8, <1>9, <1>10, <1>11, <1>12,
     <1>13, <1>14, <1>15, <1>16, <1>17, <1>18, <1>19, <1>20 DEF Next, Step

\* SettledInv holds initially.
LEMMA SettledInit == Init => SettledInv
<1> SUFFICES ASSUME Init PROVE SettledInv
  OBVIOUS
<1>1. Typed
  BY DEF Init, Typed, TypeOK, Labels, Ended, Requests, Flaws, Perms, Modes,
         Captures, Statuses, Replies, Containers, Paths
<1>2. \A r \in Runs : Settled(r)
  BY DEF Init, Settled, Containers
<1> QED
  BY <1>1, <1>2 DEF SettledInv

\* A launched call that returns without a cleanup error has no container left,
\* and none of it can appear later, for any number of calls and containers.
THEOREM NoContainerLeft == Spec => []NoUnreportedContainer
<1>1. SettledInv => NoUnreportedContainer
  BY DEF SettledInv, Settled, NoUnreportedContainer, Typed, TypeOK, Containers
<1> QED
  BY <1>1, SettledInit, SettledStep, PTL DEF Spec

\* No interleaving of inspections, removals and reused names removes a running
\* container but the one whose own call removes it.
THEOREM RemovesOnlyItsOwn == Spec => OnlyOwnerRemoves
<1> DEFINE Rightful(c) == Present(c) /\ cont'[c] = "removed" =>
                         c \in Runs /\ (cont[c] = "exited" \/ pc[c] = "remove")
<1>1. ASSUME SettledInv, Next, NEW c \in Containers PROVE Rightful(c)
  <2> USE <1>1, RunsAssumption DEF SettledInv, Typed, TypeOK, Containers, Present
  <2>1. ASSUME NEW r \in Runs, RemoveById(r) PROVE Rightful(c)
    BY <2>1 DEF RemoveById, Removed, Doomed, Settled
  <2>2. ASSUME NEW r \in Runs, EngineRemoves(r) PROVE Rightful(c)
    BY <2>2 DEF EngineRemoves
  <2>3. ASSUME NEW r \in Runs, EngineCreates(r) \/ TaskExits(r) PROVE Rightful(c)
    BY <2>3 DEF EngineCreates, TaskExits
  <2>4. ASSUME NEW r \in Runs, NEW s \in Strangers, StrangerAppears(s, r)
        PROVE Rightful(c)
    BY <2>4 DEF StrangerAppears
  <2>5. ASSUME UNCHANGED cont PROVE Rightful(c)
    BY <2>5
  <2>6. ASSUME NEW r \in Runs,
               \/ Start(r) \/ Expire(r) \/ CliReturns(r) \/ CliKilled(r)
               \/ ValidatePolicy(r) \/ RecordModes(r) \/ WidenModes(r)
             \/ BuildArguments(r)   \/ FinishSpec(r) \/ LaunchCli(r) \/ ReadContext(r)
               \/ DecideCleanup(r) \/ InspectByName(r) \/ MeasureWorkspace(r)
               \/ Return(r)
        PROVE UNCHANGED cont
    BY <2>6 DEF Start, Expire, CliReturns, CliKilled, ValidatePolicy,
       RecordModes, WidenModes, BuildArguments, FinishSpec, LaunchCli,
       ReadContext, DecideCleanup, InspectByName, MeasureWorkspace, Return,
       engine
  <2>7. ASSUME Quiet PROVE UNCHANGED cont
    BY <2>7 DEF Quiet, vars
  <2> QED
    BY <2>1, <2>2, <2>3, <2>4, <2>5, <2>6, <2>7 DEF Next, Step
<1>2. SettledInv /\ [Next]_vars => [\A c \in Containers : Rightful(c)]_vars
  BY <1>1
<1> QED
  BY <1>2, SettledInit, SettledStep, PTL DEF Spec, OnlyOwnerRemoves

-----------------------------------------------------------------------------
(* The host.                                                               *)

\* What a call has recorded and left on the host so far.
Recorded(r) ==
  /\ pc[r] = "idle" => ws[r] = None
  /\ pc[r] \in {"idle", "validate", "open"} => saved[r] = None
  /\ pc[r] = "widen" => saved[r] # None
  /\ pc[r] \in Active \ {"validate"} => req[r].flaw # "policy"
  /\ envFile[r] => pc[r] \in Active \ {"validate", "open", "widen", "arguments"}

\* A call that found p private is yet to write that back.
First(p) == \E r \in Runs : ws[r] = p /\ Holds(r) /\ saved[r] = "private"

\* The exceptions of HostRestored.
Excused(p) == p \in outlived \/ LeftOpen(p) \/ Exposed(p)

\* A path is open, or was recorded as open, only while a call that found it
\* private holds it.
Accounted(p) ==
  /\ PermOf(mode[p]) = "open" => First(p) \/ Excused(p)
  /\ \A r \in Runs : ws[r] = p /\ Holds(r) /\ saved[r] = "open" => First(p) \/ Excused(p)

HostInv == Typed /\ (\A r \in Runs : Recorded(r)) /\ (\A p \in Paths : Accounted(p))

\* What excuses a path stays, whatever a call that has not begun asks for.
LEMMA ExcusesStay ==
  ASSUME \A r \in Runs : /\ pc[r] = "idle" => ws[r] = None
                         /\ pc[r] # "idle" =>
                              /\ req'[r] = req[r] /\ ws'[r] = ws[r]
                              /\ pc[r] \in Ended => pc'[r] = pc[r],
         outlived \subseteq outlived', NEW p \in Paths, Excused(p)
  PROVE  Excused(p)'
<1>1. ASSUME LeftOpen(p) PROVE LeftOpen(p)'
  BY <1>1, RunsAssumption DEF LeftOpen
<1>2. ASSUME Exposed(p) PROVE Exposed(p)'
  <2>1. PICK r \in Runs : pc[r] \in Ended /\ req[r].flaw # "policy" /\ p \in LinksOf(r)
    BY <1>2 DEF Exposed
  <2>2. pc'[r] = pc[r] /\ req'[r] = req[r] /\ ws'[r] = ws[r]
    BY <2>1 DEF Ended
  <2>3. p \in LinksOf(r)'
    BY <2>1, <2>2 DEF LinksOf
  <2> QED
    BY <2>1, <2>2, <2>3 DEF Exposed
<1> QED
  BY <1>1, <1>2 DEF Excused

\* Steps that neither start nor end a call, nor touch the host, keep HostInv.
LEMMA HostFrame ==
  ASSUME HostInv, Typed',
         UNCHANGED <<req, ws, saved, envFile, mode, outlived>>,
         \A r \in Runs : \/ pc'[r] = pc[r]
                         \/ /\ pc[r] \in Active \ {"validate", "open", "widen"}
                            /\ pc'[r] \in Active \ {"validate", "open", "widen", "arguments"}
                         \/ /\ pc[r] = "validate"
                            /\ \/ pc'[r] = "refused"
                               \/ pc'[r] = "open" /\ req[r].flaw # "policy"
  PROVE  HostInv'
<1>1. \A r \in Runs : Recorded(r)' /\ (Holds(r)' <=> Holds(r))
  <2> SUFFICES ASSUME NEW r \in Runs PROVE Recorded(r)' /\ (Holds(r)' <=> Holds(r))
    OBVIOUS
  <2>1. Recorded(r)
    BY DEF HostInv
  <2> QED
    BY <2>1 DEF Recorded, Holds, Active, Labels, Ended
<1>2. \A p \in Paths : Accounted(p)'
  <2> SUFFICES ASSUME NEW p \in Paths PROVE Accounted(p)'
    OBVIOUS
  <2>1. Accounted(p)
    BY DEF HostInv
  <2>2. First(p) => First(p)'
    BY <1>1 DEF First
  <2>3. \A r \in Runs : /\ pc[r] = "idle" => ws[r] = None
                        /\ pc[r] \in Ended => pc'[r] = pc[r]
    BY DEF HostInv, Recorded, Active, Labels, Ended
  <2>4. Excused(p) => Excused(p)'
    BY <2>3, ExcusesStay
  <2> QED
    BY <1>1, <2>1, <2>2, <2>4 DEF Accounted
<1> QED
  BY <1>1, <1>2 DEF HostInv

\* A call ends and writes back what it recorded, some or all of the links it
\* visited included.
LEMMA HostClose ==
  ASSUME HostInv, Typed', NEW r \in Runs, pc[r] \in Active \ {"validate"},
         NEW label \in Ended, pc' = [pc EXCEPT ![r] = label],
         NEW links \in SUBSET LinksOf(r), mode' = WrittenBack(r, links),
         outlived \subseteq outlived',
         saved[r] = "private" =>
           \A o \in Runs \ {r} : ws[o] = ws[r] /\ Holds(o) => ws[r] \in outlived',
         ~envFile'[r], \A o \in Runs \ {r} : envFile'[o] = envFile[o],
         UNCHANGED <<req, ws, saved>>
  PROVE  HostInv'
<1>1. /\ pc'[r] \in Ended /\ pc'[r] \notin Active
      /\ \A o \in Runs \ {r} : pc'[o] = pc[o] /\ (Holds(o)' <=> Holds(o))
      /\ ~Holds(r)'
  BY DEF HostInv, Typed, TypeOK, Holds, Active, Ended
<1>2. \A o \in Runs : Recorded(o)'
  <2> SUFFICES ASSUME NEW o \in Runs PROVE Recorded(o)'
    OBVIOUS
  <2>1. Recorded(o)
    BY DEF HostInv
  <2>2. CASE o = r
    BY <1>1, <2>2 DEF Recorded, Ended
  <2>3. CASE o # r
    BY <1>1, <2>1, <2>3 DEF Recorded
  <2> QED
    BY <2>2, <2>3
<1>3. \A p \in Paths : Accounted(p)'
  <2> SUFFICES ASSUME NEW p \in Paths PROVE Accounted(p)'
    OBVIOUS
  <2>1. Accounted(p)
    BY DEF HostInv
  <2>2. Excused(p) => Excused(p)'
    <3>1. \A o \in Runs : /\ pc[o] = "idle" => ws[o] = None
                          /\ pc[o] \in Ended => pc'[o] = pc[o]
      BY <1>1 DEF HostInv, Recorded, Active
    <3> QED
      BY <3>1, ExcusesStay
  <2>3. p \in links => Excused(p)'
    <3> SUFFICES ASSUME p \in links PROVE Exposed(p)'
      BY DEF Excused
    <3>1. p \in LinksOf(r)'
      BY DEF LinksOf
    <3>2. req[r].flaw # "policy"
      BY DEF HostInv, Recorded
    <3> QED
      BY <1>1, <3>1, <3>2 DEF Exposed
  <2>4. First(p) => First(p)' \/ (ws[r] = p /\ Holds(r) /\ saved[r] = "private")
    BY <1>1 DEF First
  <2>5. CASE ws[r] = p /\ saved[r] = "private"
    <3>1. p \in links \/ mode'[p] = "private"
      BY <2>5, RunsAssumption DEF WrittenBack
    <3>2. PermOf(mode'[p]) = "open" => Excused(p)'
      BY <2>3, <3>1 DEF PermOf
    <3>3. ASSUME NEW o \in Runs, ws[o] = p, Holds(o)' PROVE Excused(p)'
      BY <1>1, <2>5, <3>3 DEF Excused
    <3> QED
      BY <3>2, <3>3 DEF Accounted
  <2>6. CASE ~(ws[r] = p /\ saved[r] = "private")
    <3>1. First(p) \/ Excused(p) => First(p)' \/ Excused(p)'
      BY <2>2, <2>4, <2>6
    <3>2. ASSUME PermOf(mode'[p]) = "open" PROVE First(p)' \/ Excused(p)'
      <4>1. CASE p \in links
        BY <2>3, <4>1
      <4>2. CASE p \notin links /\ ws[r] = p /\ saved[r] # None
        <5>1. saved[r] = "open" /\ Holds(r)
          BY <2>6, <4>2 DEF HostInv, Typed, TypeOK, Perms, Holds
        <5> QED
          BY <2>1, <3>1, <4>2, <5>1 DEF Accounted
      <4>3. CASE p \notin links /\ ~(ws[r] = p /\ saved[r] # None)
        <5>1. mode'[p] = mode[p]
          BY <4>3 DEF WrittenBack
        <5> QED
          BY <2>1, <3>1, <3>2, <5>1 DEF Accounted
      <4> QED
        BY <4>1, <4>2, <4>3
    <3>3. ASSUME NEW o \in Runs, ws[o] = p, Holds(o)', saved[o] = "open"
          PROVE  First(p)' \/ Excused(p)'
      BY <1>1, <2>1, <3>1, <3>3 DEF Accounted
    <3> QED
      BY <3>2, <3>3 DEF Accounted
  <2> QED
    BY <2>5, <2>6
<1> QED
  BY <1>2, <1>3 DEF HostInv

\* cleanup() at the end of a call, or of a preparation that is refused.
LEMMA HostCleanUp ==
  ASSUME HostInv, Typed', NEW r \in Runs, pc[r] \in Active \ {"validate"},
         NEW label \in Ended, Goto(r, label), CleanUp(r), UNCHANGED <<req, ws, saved>>
  PROVE  HostInv'
<1>1. /\ mode' = WrittenBack(r, LinksOf(r)) /\ outlived \subseteq outlived'
      /\ saved[r] = "private" =>
           \A o \in Runs \ {r} : ws[o] = ws[r] /\ Holds(o) => ws[r] \in outlived'
  BY DEF CleanUp, ClosedModes, Outlive
<1>2. ~envFile'[r] /\ \A o \in Runs \ {r} : envFile'[o] = envFile[o]
  BY DEF CleanUp, HostInv, Typed, TypeOK
<1>3. LinksOf(r) \in SUBSET LinksOf(r)
  OBVIOUS
<1> QED
  BY <1>1, <1>2, <1>3, HostClose DEF Goto

\* A call begins.
LEMMA HostStart == ASSUME HostInv, Typed', NEW r \in Runs, Start(r) PROVE HostInv'
<1>1. PICK q \in Requests, w \in Workspaces :
        req' = [req EXCEPT ![r] = q] /\ ws' = [ws EXCEPT ![r] = w]
  BY DEF Start
<1>2. /\ Recorded(r) /\ pc[r] = "idle" /\ pc' = [pc EXCEPT ![r] = "validate"]
      /\ UNCHANGED <<saved, envFile, mode, outlived>>
  BY DEF Start, Goto, HostInv, host
<1>3. /\ pc'[r] = "validate" /\ saved[r] = None /\ ~envFile[r]
      /\ \A o \in Runs \ {r} : /\ req'[o] = req[o] /\ ws'[o] = ws[o] /\ pc'[o] = pc[o]
  BY <1>1, <1>2 DEF HostInv, Typed, TypeOK, Recorded, Active, Ended
<1>4. \A o \in Runs : Recorded(o)'
  <2> SUFFICES ASSUME NEW o \in Runs PROVE Recorded(o)'
    OBVIOUS
  <2>1. CASE o = r
    BY <1>2, <1>3, <2>1 DEF Recorded
  <2>2. CASE o # r
    BY <1>2, <1>3, <2>2 DEF HostInv, Recorded
  <2> QED
    BY <2>1, <2>2
<1>5. \A o \in Runs : (Holds(o)' <=> Holds(o)) /\ (Holds(o) => o # r)
  BY <1>2, <1>3 DEF Holds
<1>6. \A p \in Paths : Accounted(p)'
  <2> SUFFICES ASSUME NEW p \in Paths PROVE Accounted(p)'
    OBVIOUS
  <2>1. Accounted(p)
    BY DEF HostInv
  <2>2. First(p) => First(p)'
    BY <1>2, <1>3, <1>5 DEF First
  <2>3. Excused(p) => Excused(p)'
    <3>1. \A o \in Runs : /\ pc[o] = "idle" => ws[o] = None
                          /\ pc[o] # "idle" =>
                               /\ req'[o] = req[o] /\ ws'[o] = ws[o]
                               /\ pc[o] \in Ended => pc'[o] = pc[o]
      BY <1>2, <1>3 DEF HostInv, Recorded
    <3> QED
      BY <1>2, <3>1, ExcusesStay
  <2> QED
    BY <1>2, <1>3, <1>5, <2>1, <2>2, <2>3 DEF Accounted
<1> QED
  BY <1>4, <1>6 DEF HostInv

\* A walk reads the modes of an entry, or fails.
LEMMA HostRecord == ASSUME HostInv, Typed', NEW r \in Runs, RecordModes(r) PROVE HostInv'
<1>1. /\ Recorded(r) /\ pc[r] = "open" /\ saved[r] = None /\ ~envFile[r]
      /\ ws[r] \in Workspaces /\ UNCHANGED <<req, ws, envFile, outlived>>
  BY DEF RecordModes, HostInv, Recorded, Typed, Active, Labels, Ended
<1>2. CASE Goto(r, "arguments") /\ UNCHANGED <<saved, mode>>
  <2>1. \A o \in Runs : /\ o # r => pc'[o] = pc[o]
                        /\ pc'[r] = "arguments"
                        /\ Holds(o)' <=> Holds(o)
    BY <1>1, <1>2 DEF Goto, Holds, HostInv, Typed, TypeOK
  <2>2. \A o \in Runs : Recorded(o)'
    BY <1>1, <1>2, <2>1 DEF HostInv, Recorded, Active, Labels, Ended
  <2>3. ASSUME NEW p \in Paths PROVE Accounted(p)'
    <3>1. First(p) => First(p)'
      BY <1>1, <1>2, <2>1 DEF First
    <3>2. \A o \in Runs : /\ pc[o] = "idle" => ws[o] = None
                          /\ pc[o] \in Ended => pc'[o] = pc[o]
      BY <1>1, <2>1 DEF HostInv, Recorded, Ended
    <3>3. Excused(p) => Excused(p)'
      BY <1>1, <3>2, ExcusesStay
    <3> QED
      BY <1>1, <1>2, <2>1, <3>1, <3>3 DEF HostInv, Accounted
  <2> QED
    BY <2>2, <2>3 DEF HostInv
<1>3. CASE /\ saved' = [saved EXCEPT ![r] = PermOf(mode[ws[r]])]
           /\ Goto(r, "widen") /\ UNCHANGED mode
  <2>1. /\ saved'[r] = PermOf(mode[ws[r]]) /\ saved'[r] # None /\ pc'[r] = "widen"
        /\ \A o \in Runs \ {r} : /\ pc'[o] = pc[o] /\ saved'[o] = saved[o]
                                 /\ Holds(o)' <=> Holds(o)
        /\ ~Holds(r)
    BY <1>1, <1>3, RunsAssumption
       DEF Goto, Holds, HostInv, Typed, TypeOK, PermOf, Modes, Perms, Paths
  <2>2. \A o \in Runs : Recorded(o)'
    <3> SUFFICES ASSUME NEW o \in Runs PROVE Recorded(o)'
      OBVIOUS
    <3>1. CASE o = r
      BY <1>1, <2>1, <3>1 DEF Recorded, Active, Labels, Ended
    <3>2. CASE o # r
      BY <1>1, <2>1, <3>2 DEF HostInv, Recorded
    <3> QED
      BY <3>1, <3>2
  <2>3. ASSUME NEW p \in Paths PROVE Accounted(p)'
    <3>1. First(p) => First(p)'
      BY <1>1, <2>1 DEF First
    <3>2. \A o \in Runs : /\ pc[o] = "idle" => ws[o] = None
                          /\ pc[o] \in Ended => pc'[o] = pc[o]
      BY <1>1, <2>1 DEF HostInv, Recorded, Ended
    <3>3. Excused(p) => Excused(p)'
      BY <1>1, <3>2, ExcusesStay
    <3>4. Accounted(p)
      BY DEF HostInv
    <3>5. PermOf(mode[p]) = "open" => First(p)' \/ Excused(p)'
      BY <3>1, <3>3, <3>4 DEF Accounted
    <3>6. ASSUME NEW o \in Runs, ws[o] = p, Holds(o)', saved'[o] = "open"
          PROVE  First(p)' \/ Excused(p)'
      BY <2>1, <3>1, <3>3, <3>4, <3>5, <3>6 DEF Accounted
    <3> QED
      BY <1>1, <1>3, <3>5, <3>6 DEF Accounted
  <2> QED
    BY <2>2, <2>3 DEF HostInv
<1>4. CASE /\ \E links \in SUBSET LinksOf(r) : mode' = WrittenBack(r, links)
           /\ Goto(r, "refused") /\ UNCHANGED saved
  <2>1. PICK links \in SUBSET LinksOf(r) : mode' = WrittenBack(r, links)
    BY <1>4
  <2>2. saved[r] # "private" /\ pc[r] \in Active \ {"validate"} /\ "refused" \in Ended
    BY <1>1, RunsAssumption DEF Active, Labels, Ended
  <2> QED
    BY <1>1, <1>4, <2>1, <2>2, HostClose DEF Goto
<1> QED
  BY <1>2, <1>3, <1>4 DEF RecordModes

\* A walk widens an entry, or fails.
LEMMA HostWiden == ASSUME HostInv, Typed', NEW r \in Runs, WidenModes(r) PROVE HostInv'
<1>1. /\ Recorded(r) /\ pc[r] = "widen" /\ saved[r] # None /\ ~envFile[r]
      /\ ws[r] \in Workspaces /\ Holds(r) /\ UNCHANGED <<req, ws, saved, envFile>>
  BY DEF WidenModes, HostInv, Recorded, Typed, Active, Labels, Ended, Holds
<1>2. CASE /\ mode' = [mode EXCEPT ![ws[r]] = "open"]
           /\ Goto(r, "arguments") /\ UNCHANGED outlived
  <2>1. /\ pc'[r] = "arguments"
        /\ \A o \in Runs : /\ o # r => pc'[o] = pc[o]
                           /\ Holds(o)' <=> Holds(o)
    BY <1>1, <1>2 DEF Goto, Holds, HostInv, Typed, TypeOK, Active, Labels, Ended
  <2>2. \A o \in Runs : Recorded(o)'
    BY <1>1, <2>1 DEF HostInv, Recorded, Active, Labels, Ended
  <2>3. ASSUME NEW p \in Paths PROVE Accounted(p)'
    <3>1. First(p) => First(p)'
      BY <1>1, <2>1 DEF First
    <3>2. \A o \in Runs : /\ pc[o] = "idle" => ws[o] = None
                          /\ pc[o] \in Ended => pc'[o] = pc[o]
      BY <1>1, <2>1 DEF HostInv, Recorded, Ended
    <3>3. Excused(p) => Excused(p)'
      BY <1>1, <1>2, <3>2, ExcusesStay
    <3>4. Accounted(p)
      BY DEF HostInv
    <3>5. p = ws[r] => First(p) \/ Excused(p)
      BY <1>1, <3>4 DEF Accounted, First, HostInv, Typed, TypeOK, Perms
    <3>6. p # ws[r] => mode'[p] = mode[p]
      BY <1>2 DEF HostInv, Typed, TypeOK
    <3> QED
      BY <1>1, <2>1, <3>1, <3>3, <3>4, <3>5, <3>6 DEF Accounted
  <2> QED
    BY <2>2, <2>3 DEF HostInv
<1>3. CASE /\ \E links \in SUBSET LinksOf(r) : mode' = WrittenBack(r, links)
           /\ Outlive(r) /\ Goto(r, "refused")
  <2>1. PICK links \in SUBSET LinksOf(r) : mode' = WrittenBack(r, links)
    BY <1>3
  <2>2. /\ pc[r] \in Active \ {"validate"} /\ "refused" \in Ended
        /\ outlived \subseteq outlived'
        /\ saved[r] = "private" =>
             \A o \in Runs \ {r} : ws[o] = ws[r] /\ Holds(o) => ws[r] \in outlived'
    BY <1>1, <1>3 DEF Active, Labels, Ended, Outlive
  <2> QED
    BY <1>1, <1>3, <2>1, <2>2, HostClose DEF Goto
<1> QED
  BY <1>2, <1>3 DEF WidenModes

\* An unsupported network ends a call that writes nothing back.
LEMMA HostLeave ==
  ASSUME HostInv, Typed', NEW r \in Runs, pc[r] = "arguments", req[r].flaw = "network",
         Goto(r, "refused"), UNCHANGED <<req, ws, saved, envFile, mode, outlived>>
  PROVE  HostInv'
<1>1. /\ pc'[r] = "refused" /\ LeftOpen(ws[r])' /\ ~envFile[r]
      /\ \A o \in Runs \ {r} : pc'[o] = pc[o] /\ (Holds(o)' <=> Holds(o))
      /\ ~Holds(r)'
  BY DEF Goto, Holds, HostInv, Recorded, Typed, TypeOK, LeftOpen, Active, Ended
<1>2. \A o \in Runs : Recorded(o)'
  BY <1>1 DEF HostInv, Recorded, Active, Ended
<1>3. ASSUME NEW p \in Paths PROVE Accounted(p)'
  <2>1. First(p) => First(p)' \/ Excused(p)'
    BY <1>1 DEF First, Excused
  <2>2. \A o \in Runs : /\ pc[o] = "idle" => ws[o] = None
                        /\ pc[o] \in Ended => pc'[o] = pc[o]
    BY <1>1 DEF HostInv, Recorded, Ended
  <2>3. Excused(p) => Excused(p)'
    BY <2>2, ExcusesStay
  <2> QED
    BY <1>1, <2>1, <2>3 DEF HostInv, Accounted
<1> QED
  BY <1>2, <1>3 DEF HostInv

\* Every action keeps HostInv.
LEMMA HostStep == HostInv /\ [Next]_vars => HostInv'
<1> SUFFICES ASSUME HostInv, [Next]_vars PROVE HostInv'
  OBVIOUS
<1>0. Typed'
  BY TypeStep DEF HostInv
<1>t. pc \in [Runs -> Labels]
  BY DEF HostInv, Typed, TypeOK
<1>1. ASSUME NEW r \in Runs, Start(r) PROVE HostInv'
  BY <1>0, <1>1, HostStart
<1>2. ASSUME NEW r \in Runs, RecordModes(r) \/ WidenModes(r) PROVE HostInv'
  BY <1>0, <1>2, HostRecord, HostWiden
<1>3. ASSUME NEW r \in Runs, BuildArguments(r) PROVE HostInv'
  <2> USE <1>3 DEF BuildArguments
  <2>1. pc[r] \in Active \ {"validate", "open", "widen"} /\ "refused" \in Ended
    BY DEF Active, Labels, Ended
  <2>2. CASE req[r].flaw = "network" /\ Goto(r, "refused") /\ UNCHANGED <<envFile, host>>
    BY <1>0, <2>2, HostLeave DEF host
  <2>3. CASE Goto(r, "refused") /\ CleanUp(r)
    BY <1>0, <2>1, <2>3, HostCleanUp
  <2>4. CASE /\ envFile' = [envFile EXCEPT ![r] = TRUE]
             /\ Goto(r, "spec") /\ UNCHANGED host
    <3>1. /\ pc'[r] = "spec"
          /\ \A o \in Runs : /\ o # r => pc'[o] = pc[o] /\ envFile'[o] = envFile[o]
                             /\ Holds(o)' <=> Holds(o)
          /\ UNCHANGED <<req, ws, saved, mode, outlived>>
      BY <2>4, <1>t DEF Goto, host, Holds, Active, Labels, Ended, HostInv,
         Typed, TypeOK
    <3>2. \A o \in Runs : Recorded(o)'
      BY <3>1, <2>1 DEF HostInv, Recorded, Active, Labels, Ended
    <3>3. ASSUME NEW p \in Paths PROVE Accounted(p)'
      <4>1. First(p) => First(p)'
        BY <3>1 DEF First
      <4>2. \A o \in Runs : /\ pc[o] = "idle" => ws[o] = None
                            /\ pc[o] \in Ended => pc'[o] = pc[o]
        BY <3>1 DEF HostInv, Recorded, Ended
      <4>3. Excused(p) => Excused(p)'
        BY <3>1, <4>2, ExcusesStay
      <4> QED
        BY <3>1, <4>1, <4>3 DEF HostInv, Accounted
    <3> QED
      BY <1>0, <3>2, <3>3 DEF HostInv
  <2> QED
    BY <2>2, <2>3, <2>4
<1>4. ASSUME NEW r \in Runs, FinishSpec(r) PROVE HostInv'
  <2>1. pc[r] \in Active \ {"validate", "open", "widen"} /\ "refused" \in Ended
    BY <1>4 DEF FinishSpec, Active, Labels, Ended
  <2>2. CASE Goto(r, "refused") /\ CleanUp(r)
    BY <1>0, <1>4, <2>1, <2>2, HostCleanUp DEF FinishSpec
  <2>3. CASE Goto(r, "launch") /\ UNCHANGED <<envFile, host>>
    <3>1. \A q \in Runs : \/ pc'[q] = pc[q]
                          \/ /\ pc[q] \in Active \ {"validate", "open", "widen"}
                             /\ pc'[q] \in Active \ {"validate", "open", "widen", "arguments"}
      BY <2>1, <2>3, <1>t DEF Goto, Active, Labels, Ended
    <3> QED
      BY <1>0, <1>4, <2>3, <3>1, HostFrame DEF FinishSpec, host
  <2> QED
    BY <1>4, <2>2, <2>3 DEF FinishSpec
<1>5. ASSUME NEW r \in Runs, Return(r) PROVE HostInv'
  <2>1. pc[r] \in Active \ {"validate"} /\ "done" \in Ended
    BY <1>5 DEF Return, Active, Labels, Ended
  <2> QED
    BY <1>0, <1>5, <2>1, HostCleanUp DEF Return
<1>6. ASSUME NEW r \in Runs, ValidatePolicy(r) PROVE HostInv'
  <2>1. \A q \in Runs : \/ pc'[q] = pc[q]
                        \/ /\ pc[q] = "validate"
                           /\ \/ pc'[q] = "refused"
                              \/ pc'[q] = "open" /\ req[q].flaw # "policy"
    BY <1>6, <1>t DEF ValidatePolicy, Goto
  <2> QED
    BY <1>6, <2>1, <1>0, HostFrame DEF ValidatePolicy, local, host
<1>7. ASSUME NEW r \in Runs,
             \/ LaunchCli(r) \/ CliKilled(r) \/ CliReturns(r) \/ ReadContext(r)
             \/ DecideCleanup(r) \/ InspectByName(r) \/ RemoveById(r)
             \/ MeasureWorkspace(r)
      PROVE HostInv'
  <2>1. UNCHANGED <<req, ws, saved, envFile, mode, outlived>>
    BY <1>7 DEF LaunchCli, CliKilled, CliReturns, ReadContext, DecideCleanup,
                InspectByName, RemoveById, MeasureWorkspace, host
  <2>2. /\ pc[r] \in {"launch", "attached", "returned", "recheck", "inspect",
                      "remove", "measure"}
        /\ \E label \in {"attached", "returned", "recheck", "inspect", "remove",
                         "measure", "restore"} : pc' = [pc EXCEPT ![r] = label]
    BY <1>7 DEF LaunchCli, CliKilled, CliReturns, ReadContext, DecideCleanup,
                InspectByName, RemoveById, MeasureWorkspace, Goto
  <2>3. \A q \in Runs : \/ pc'[q] = pc[q]
                        \/ /\ pc[q] \in Active \ {"validate", "open", "widen"}
                           /\ pc'[q] \in Active \ {"validate", "open", "widen", "arguments"}
    BY <2>2, <1>t DEF Active, Labels, Ended
  <2> QED
    BY <2>1, <2>3, <1>0, HostFrame
<1>8. ASSUME NEW r \in Runs,
             \/ Expire(r) \/ EngineCreates(r) \/ TaskExits(r) \/ EngineRemoves(r)
             \/ \E s \in Strangers : StrangerAppears(s, r)
      PROVE HostInv'
  BY <1>8, <1>0, HostFrame DEF Expire, EngineCreates, TaskExits, EngineRemoves,
       StrangerAppears, local, host
<1>9. CASE Quiet \/ UNCHANGED vars
  BY <1>9, <1>0, HostFrame DEF Quiet, vars
<1> QED
  BY <1>1, <1>2, <1>3, <1>4, <1>5, <1>6, <1>7, <1>8, <1>9 DEF Next, Step

\* HostInv holds initially.
LEMMA HostInit == Init => HostInv
<1> SUFFICES ASSUME Init PROVE HostInv
  OBVIOUS
<1>1. Typed
  BY SettledInit DEF SettledInv
<1>2. \A r \in Runs : Recorded(r)
  BY DEF Init, Recorded, Active
<1>3. \A p \in Paths : Accounted(p)
  BY RunsAssumption DEF Init, Accounted, PermOf, Holds
<1> QED
  BY <1>1, <1>2, <1>3 DEF HostInv

\* The permission bits of every path come back and every env file goes, for any
\* number of calls in any order on the same and on other workspaces; what is
\* left open was left so by the unsupported network, by a symbolic link, or by
\* a call that the one that found the workspace private did not wait for.
THEOREM HostIsRestored == Spec => []HostRestored
<1>1. HostInv => HostRestored
  <2> SUFFICES ASSUME HostInv PROVE HostRestored
    OBVIOUS
  <2>1. \A r \in Runs : pc[r] \in Ended => ~envFile[r]
    BY DEF HostInv, Recorded, Active
  <2>2. \A p \in Paths : PermOf(mode[p]) = "open" => First(p) \/ Excused(p)
    BY DEF HostInv, Accounted
  <2> QED
    BY <2>1, <2>2 DEF HostRestored, First, Excused
<1> QED
  BY <1>1, HostInit, HostStep, PTL DEF Spec

\* Where no workspace is shared at a bad moment and no symbolic link leads to it,
\* a refused call leaves its workspace open only if a call on it asked for an
\* unsupported network, or another call is using it.
RefusalRestores ==
  \A r \in Runs : pc[r] = "refused" /\ ws[r] \notin outlived =>
      \/ \E w \in Workspaces : ws[r] \in Links[w]
      \/ PermOf(mode[ws[r]]) = "private"
      \/ LeftOpen(ws[r])
      \/ \E o \in Runs \ {r} : ws[o] = ws[r] /\ Holds(o)

\* The unsupported network is the only refusal of prepareRunContext that leaves
\* permission bits of a workspace no link leads to widened, for any number of calls.
THEOREM RefusalsRestore == Spec => []RefusalRestores
<1>1. HostInv => RefusalRestores
  <2> SUFFICES ASSUME HostInv, NEW r \in Runs, pc[r] = "refused", ws[r] \notin outlived,
                      \A w \in Workspaces : ws[r] \notin Links[w],
                      PermOf(mode[ws[r]]) # "private", ~LeftOpen(ws[r])
               PROVE  \E o \in Runs \ {r} : ws[o] = ws[r] /\ Holds(o)
    BY DEF RefusalRestores
  <2>1. ws[r] \in Paths /\ PermOf(mode[ws[r]]) = "open"
    BY DEF HostInv, Typed, TypeOK, Paths, Modes, Perms, PermOf
  <2>2. ~Exposed(ws[r])
    <3>1. \A o \in Runs : pc[o] \in Ended => ws[r] \notin LinksOf(o)
      BY DEF LinksOf, HostInv, Typed, Ended
    <3> QED
      BY <3>1 DEF Exposed
  <2>3. PICK o \in Runs : ws[o] = ws[r] /\ Holds(o)
    BY <2>1, <2>2 DEF HostInv, Accounted, First, Excused
  <2>4. ~Holds(r)
    BY DEF Holds, Active, Ended
  <2> QED
    BY <2>3, <2>4
<1> QED
  BY <1>1, HostInit, HostStep, PTL DEF Spec

-----------------------------------------------------------------------------
(* What a call learns of its task, and what it says.                       *)

\* The exit status of a task is that of a container that has ended, and the
\* reply's is the task's; nothing is cleaned up, or asked of the engine, by a
\* call that has not come so far.
Followed(r) ==
  /\ cont[r] \in {"never", "running"} => exit[r] = "none"
  /\ pc[r] \in {"returned", "recheck", "inspect", "remove", "measure", "restore",
                "done"}
       /\ reply[r].status \in {"zero", "task"} => exit[r] = reply[r].status
  /\ pc[r] \notin {"measure", "restore", "done"} => cleanup[r] = "none"
  /\ pc[r] = "refused" => ticket[r] = "none"

FollowedInv == SettledInv /\ \A r \in Runs : Followed(r)

\* Every step of any call keeps what each call follows.
LEMMA FollowedStep == FollowedInv /\ [Next]_vars => FollowedInv'
<1> SUFFICES ASSUME FollowedInv, [Next]_vars PROVE FollowedInv'
  OBVIOUS
<1>0. SettledInv'
  BY SettledStep DEF FollowedInv
<1> SUFFICES ASSUME NEW q \in Runs PROVE Followed(q)'
  BY <1>0 DEF FollowedInv
<1>f. Followed(q) /\ Settled(q) /\ Typed
  BY DEF FollowedInv, SettledInv
<1> USE <1>f, RunsAssumption DEF Typed, TypeOK, Followed, Settled, Containers
<1>1. ASSUME NEW r \in Runs,
             \/ Start(r) \/ ValidatePolicy(r) \/ RecordModes(r) \/ WidenModes(r)
             \/ BuildArguments(r) \/ FinishSpec(r)
      PROVE Followed(q)'
  <2>1. /\ pc[r] \in {"idle", "validate", "open", "widen", "arguments", "spec"}
        /\ \E label \in {"validate", "open", "widen", "arguments", "spec", "launch",
                         "refused"} :
             pc' = [pc EXCEPT ![r] = label]
        /\ UNCHANGED <<cont, exit, reply, cleanup, ticket>>
    BY <1>1 DEF Start, ValidatePolicy, RecordModes, WidenModes, BuildArguments,
       FinishSpec, Goto, local, engine
  <2> QED
    BY <2>1
<1>2. ASSUME NEW r \in Runs, LaunchCli(r) PROVE Followed(q)'
  <2>1. CASE /\ ticket' = [ticket EXCEPT ![r] = "sent"]
             /\ Goto(r, "attached") /\ UNCHANGED reply
    BY <1>2, <2>1 DEF LaunchCli, Goto, host
  <2>2. CASE /\ reply' = [reply EXCEPT ![r] = [status |-> "cli", capture |-> "whole"]]
             /\ Goto(r, "returned") /\ UNCHANGED ticket
    BY <1>2, <2>2 DEF LaunchCli, Goto, host
  <2> QED
    BY <1>2, <2>1, <2>2 DEF LaunchCli
<1>3. ASSUME NEW r \in Runs, CliReturns(r) \/ CliKilled(r) PROVE Followed(q)'
  <2>1. /\ reply'[r].status \in {"zero", "task"} => exit[r] = reply'[r].status
        /\ \A o \in Runs \ {r} : reply'[o] = reply[o]
    <3>1. CASE CliKilled(r)
      BY <3>1 DEF CliKilled
    <3>2. CASE CliReturns(r)
      BY <3>2 DEF CliReturns, Vouches
    <3> QED
      BY <1>3, <3>1, <3>2
  <2>2. /\ pc[r] = "attached" /\ pc' = [pc EXCEPT ![r] = "returned"]
        /\ UNCHANGED <<cont, exit, cleanup, ticket>>
    BY <1>3 DEF CliReturns, CliKilled, Goto, engine
  <2> QED
    BY <2>1, <2>2
<1>4. ASSUME NEW r \in Runs, ReadContext(r) PROVE Followed(q)'
  BY <1>4 DEF ReadContext, Goto, engine, host, Replies, Statuses
<1>5. ASSUME NEW r \in Runs,
             DecideCleanup(r) \/ InspectByName(r) \/ MeasureWorkspace(r) \/ Return(r)
      PROVE Followed(q)'
  <2>1. /\ pc[r] \in {"recheck", "inspect", "measure", "restore"}
        /\ UNCHANGED <<cont, exit, reply, ticket>>
        /\ \A o \in Runs \ {r} : pc'[o] = pc[o] /\ cleanup'[o] = cleanup[o]
    BY <1>5 DEF DecideCleanup, InspectByName, MeasureWorkspace, Return, Goto, engine
  <2>2. /\ pc'[r] \in {"inspect", "remove", "measure", "restore", "done"}
        /\ pc'[r] \in {"inspect", "remove"} => UNCHANGED cleanup
    BY <1>5 DEF DecideCleanup, InspectByName, MeasureWorkspace, Return, Goto, engine
  <2>3. pc'[r] \in {"inspect", "remove"} => pc[r] \in {"recheck", "inspect"}
    BY <1>5 DEF DecideCleanup, InspectByName, MeasureWorkspace, Return, Goto
  <2>4. CASE q = r
    BY <2>1, <2>2, <2>3, <2>4
  <2>5. CASE q # r
    BY <2>1, <2>5
  <2> QED
    BY <2>4, <2>5
<1>6. ASSUME NEW r \in Runs, RemoveById(r) PROVE Followed(q)'
  <2>1. /\ pc[r] = "remove" /\ pc' = [pc EXCEPT ![r] = "measure"]
        /\ \A o \in Runs \ {r} : cleanup'[o] = cleanup[o]
        /\ \A c \in Containers : cont'[c] = cont[c] \/ cont'[c] = "removed"
        /\ UNCHANGED <<exit, reply, ticket>>
    BY <1>6 DEF RemoveById, Removed, Goto
  <2> QED
    BY <2>1
<1>7. ASSUME NEW r \in Runs, EngineCreates(r) PROVE Followed(q)'
  <2>1. cont[r] = "never"
    BY <1>7 DEF EngineCreates, FollowedInv, SettledInv
  <2> QED
    BY <1>7, <2>1 DEF EngineCreates, local, host
<1>8. ASSUME NEW r \in Runs, TaskExits(r) \/ EngineRemoves(r) PROVE Followed(q)'
  <2>1. CASE q = r
    BY <1>8, <2>1 DEF TaskExits, EngineRemoves, local, host
  <2>2. CASE q # r
    BY <1>8, <2>2 DEF TaskExits, EngineRemoves, local, host
  <2> QED
    BY <2>1, <2>2
<1>9. ASSUME NEW r \in Runs, NEW s \in Strangers, StrangerAppears(s, r)
      PROVE Followed(q)'
  BY <1>9 DEF StrangerAppears, local, host
<1>10. ASSUME NEW r \in Runs, Expire(r) PROVE Followed(q)'
  BY <1>10 DEF Expire, local, engine, host
<1>11. CASE Quiet \/ UNCHANGED vars
  BY <1>11 DEF Quiet, vars
<1> QED
  BY <1>1, <1>2, <1>3, <1>4, <1>5, <1>6, <1>7, <1>8, <1>9, <1>10, <1>11 DEF Next, Step

\* FollowedInv holds initially.
LEMMA FollowedInit == Init => FollowedInv
<1> SUFFICES ASSUME Init PROVE FollowedInv
  OBVIOUS
<1>1. SettledInv
  BY SettledInit
<1>2. \A r \in Runs : Followed(r)
  BY DEF Init, Followed, Containers
<1> QED
  BY <1>1, <1>2 DEF FollowedInv

\* The exit code that commandExitCode finds is the first that is there.
LEMMA FirstCode ==
  ASSUME NEW r \in Runs, Failed(r)
  PROVE  /\ CliCode(r) # "none" => ExitCode(r) = CliCode(r)
         /\ CliCode(r) = "none" => ExitCode(r) \in {"unknown", "other"}
<1> DEFINE found == {i \in 1..2 : Codes(r)[i] # "none"}
           first == CHOOSE i \in found : \A j \in found : i <= j
<1>1. Codes(r)[1] = CliCode(r) /\ Codes(r)[2] = CleanupCode(r)
  BY DEF Codes
<1>2. ExitCode(r) = IF found = {} THEN "unknown" ELSE Codes(r)[first]
  BY DEF ExitCode
<1>3. CASE CliCode(r) # "none"
  <2>1. 1 \in found /\ \A j \in found : 1 <= j
    BY <1>1, <1>3
  <2>2. first \in found /\ \A j \in found : first <= j
    BY <2>1
  <2>3. first = 1
    BY <2>1, <2>2
  <2> QED
    BY <1>1, <1>2, <1>3, <2>1, <2>3
<1>4. CASE CliCode(r) = "none"
  <2>1. found \subseteq {2}
    BY <1>1, <1>4
  <2>2. CASE found = {}
    BY <1>2, <1>4, <2>2
  <2>3. CASE found # {}
    <3>1. first = 2 /\ 2 \in found
      <4>1. found = {2}
        BY <2>1, <2>3
      <4>2. 2 \in found /\ \A j \in found : 2 <= j
        BY <4>1
      <4>3. first \in found
        BY <4>2
      <4> QED
        BY <4>1, <4>3
    <3>2. CleanupCode(r) = "other"
      BY <1>1, <3>1 DEF CleanupCode
    <3> QED
      BY <1>1, <1>2, <1>4, <2>3, <3>1, <3>2
  <2> QED
    BY <2>2, <2>3
<1> QED
  BY <1>3, <1>4

\* The exit code of a task that failed is what Run's error reports, whatever
\* failed after it, and only a task that ended well reports zero, for any
\* number of calls.
THEOREM ExitCodeSurvives == Spec => []TaskExitCodeSurvives
<1>1. FollowedInv => TaskExitCodeSurvives
  <2> SUFFICES ASSUME FollowedInv, NEW r \in Runs, pc[r] = "done"
               PROVE  /\ reply[r].status = "task" <=> ExitCode(r) = "task"
                      /\ ExitCode(r) = "zero" => exit[r] = "zero" /\ cont[r] = "removed"
    BY DEF TaskExitCodeSurvives
  <2>1. Followed(r) /\ Settled(r) /\ reply[r] \in Replies
    BY DEF FollowedInv, SettledInv, Typed, TypeOK
  <2>2. CliCode(r) = CASE reply[r].status = "zero" -> "none"
                       [] reply[r].status = "task" -> "task"
                       [] OTHER -> "other"
    BY DEF CliCode
  <2>3. CASE Failed(r)
    <3>1. CASE reply[r].status = "task"
      BY <2>2, <2>3, <3>1, FirstCode
    <3>2. CASE reply[r].status = "zero"
      BY <2>2, <2>3, <3>2, FirstCode
    <3>3. CASE reply[r].status \notin {"zero", "task"}
      BY <2>2, <2>3, <3>3, FirstCode
    <3> QED
      BY <3>1, <3>2, <3>3
  <2>4. CASE ~Failed(r)
    <3>1. ExitCode(r) = "zero"
      BY <2>4 DEF ExitCode
    <3>2. reply[r].status = "zero"
      BY <2>4 DEF Failed, Errored
    <3> QED
      BY <2>1, <3>1, <3>2 DEF Followed, Settled
  <2> QED
    BY <2>3, <2>4
<1> QED
  BY <1>1, FollowedInit, FollowedStep, PTL DEF Spec

\* The deadline has passed and the accounting is still to be done; or the call
\* has failed, which cannot be undone.
Lapsed(r) == expired[r] /\ pc[r] \in Active \ {"restore"}
Lost(r)   == Lapsed(r) \/ (pc[r] \in Ended \cup {"restore"} /\ Failed(r))

\* A call that is lost stays lost.
LEMMA LostStep ==
  ASSUME Typed, [Next]_vars, NEW q \in Runs, Lost(q)
  PROVE  Lost(q)'
<1> USE RunsAssumption DEF Typed, TypeOK, Lost, Lapsed
<1> DEFINE Fate(o) == <<pc[o], expired[o], reply[o], joined[o], cleanup[o], measured[o]>>
<1>1. ASSUME Fate(q)' = Fate(q) PROVE Lost(q)'
  BY <1>1 DEF Failed, Errored
<1>2. ASSUME NEW r \in Runs, Start(r) PROVE Lost(q)'
  <2>1. q # r
    BY <1>2 DEF Start, Active, Failed, Ended, Labels
  <2> QED
    BY <1>1, <1>2, <2>1 DEF Start, Goto
<1>3. ASSUME NEW r \in Runs,
             \/ ValidatePolicy(r) \/ RecordModes(r) \/ WidenModes(r)
             \/ BuildArguments(r) \/ FinishSpec(r) \/ LaunchCli(r)
             \/ CliReturns(r) \/ CliKilled(r)
             \/ ReadContext(r) \/ DecideCleanup(r) \/ InspectByName(r) \/ RemoveById(r)
      PROVE Lost(q)'
  <2>1. /\ pc[r] \in Active \ {"restore"} /\ UNCHANGED expired
        /\ \E label \in (Active \ {"restore"}) \cup {"refused"} :
             pc' = [pc EXCEPT ![r] = label]
    BY <1>3 DEF ValidatePolicy, RecordModes, WidenModes, BuildArguments,
       FinishSpec, LaunchCli, CliReturns, CliKilled, ReadContext, DecideCleanup,
       InspectByName, RemoveById, Goto, Active, Labels, Ended
  <2>2. CASE q = r
    BY <2>1, <2>2 DEF Ended, Failed, Active, Labels
  <2>3. CASE q # r
    <3>1. Fate(q)' = Fate(q)
      <4>1. pc'[q] = pc[q] /\ expired'[q] = expired[q]
        BY <2>1, <2>3
      <4>2. /\ reply'[q] = reply[q] /\ joined'[q] = joined[q]
            /\ cleanup'[q] = cleanup[q] /\ measured'[q] = measured[q]
        BY <1>3, <2>3 DEF ValidatePolicy, RecordModes, WidenModes,
           BuildArguments, FinishSpec, LaunchCli, CliReturns, CliKilled,
           ReadContext, DecideCleanup, InspectByName, RemoveById, local
      <4> QED
        BY <4>1, <4>2
    <3> QED
      BY <1>1, <3>1
  <2> QED
    BY <2>2, <2>3
<1>4. ASSUME NEW r \in Runs, MeasureWorkspace(r) PROVE Lost(q)'
  <2>1. CASE q = r
    <3>1. expired[r] /\ pc'[r] = "restore" /\ measured'[r] = "failed"
      BY <1>4, <2>1 DEF MeasureWorkspace, MeasurementsOf, Goto, Ended
    <3> QED
      BY <2>1, <3>1 DEF Failed
  <2>2. CASE q # r
    BY <1>1, <1>4, <2>2 DEF MeasureWorkspace, Goto
  <2> QED
    BY <2>1, <2>2
<1>5. ASSUME NEW r \in Runs, Return(r) PROVE Lost(q)'
  <2>1. CASE q = r
    <3>1. pc[r] = "restore" /\ pc'[r] = "done" /\ Failed(r)
      BY <1>5, <2>1 DEF Return, Goto, Ended
    <3>2. Failed(r)'
      BY <1>5, <3>1 DEF Return, Failed, Errored
    <3> QED
      BY <2>1, <3>1, <3>2 DEF Ended
  <2>2. CASE q # r
    BY <1>1, <1>5, <2>2 DEF Return, Goto
  <2> QED
    BY <2>1, <2>2
<1>6. ASSUME NEW r \in Runs, Expire(r) PROVE Lost(q)'
  <2>1. CASE q = r
    <3>1. expired'[r] /\ ~expired[r] /\ pc[r] \in Active
      BY <1>6 DEF Expire
    <3>2. pc[q] \in Ended \cup {"restore"} /\ Failed(q)
      BY <2>1, <3>1
    <3>3. Failed(q)' /\ pc'[q] = pc[q]
      BY <1>6, <3>2 DEF Expire, local, Failed, Errored
    <3> QED
      BY <3>2, <3>3
  <2>2. CASE q # r
    BY <1>1, <1>6, <2>2 DEF Expire, local
  <2> QED
    BY <2>1, <2>2
<1>7. ASSUME NEW r \in Runs,
             \/ EngineCreates(r) \/ TaskExits(r) \/ EngineRemoves(r)
             \/ \E s \in Strangers : StrangerAppears(s, r)
      PROVE Lost(q)'
  BY <1>1, <1>7 DEF EngineCreates, TaskExits, EngineRemoves, StrangerAppears, local
<1>8. CASE Quiet \/ UNCHANGED vars
  BY <1>1, <1>8 DEF Quiet, vars
<1> QED
  BY <1>2, <1>3, <1>4, <1>5, <1>6, <1>7, <1>8 DEF Next, Step

\* A call whose deadline passed before its accounting was done cannot report
\* success any more, for any number of calls.
THEOREM LateCallsFail == Spec => LateCallFails
<1>1. ASSUME NEW r \in Runs
      PROVE  Spec => [](Lapsed(r) => [](pc[r] = "done" => Failed(r)))
  <2>1. Lapsed(r) => Lost(r)
    BY DEF Lost
  <2>2. Lost(r) => (pc[r] = "done" => Failed(r))
    BY DEF Lost, Lapsed, Active, Labels, Ended
  <2>3. Typed /\ Lost(r) /\ [Next]_vars => Lost(r)'
    BY LostStep
  <2>4. Init => Typed
    BY SettledInit DEF SettledInv
  <2> QED
    BY <2>1, <2>2, <2>3, <2>4, TypeStep, PTL DEF Spec
<1> QED
  BY <1>1 DEF LateCallFails, Lapsed

-----------------------------------------------------------------------------
(* The promise.                                                            *)

\* All that the promise sees of a call.
View(q) == <<pc[q], cont[q], exit[q], reply[q], joined[q], cleanup[q], measured[q]>>
Seen(q) == <<StageOf(q), TaskOf(q), CodeOf(q), VerdictOf(q)>>

LEMMA ViewSeen ==
  ASSUME NEW q \in Runs, View(q)' = View(q)
  PROVE  Seen(q)' = Seen(q)
BY DEF View, Seen, StageOf, TaskOf, CodeOf, VerdictOf, Failed, Errored

\* What no call can see is a stutter.
LEMMA UnseenMaps ==
  ASSUME UNCHANGED expired, \A q \in Runs : Seen(q)' = Seen(q)
  PROVE  UNCHANGED Promise!promise
BY DEF Promise!promise, Seen, stageBar, taskBar, codeBar, verdictBar

\* What a step of one call, or of its task, changes of the promise.
LEMMA OneMaps ==
  ASSUME NEW r \in Runs, \A q \in Runs \ {r} : View(q)' = View(q)
  PROVE  /\ stageBar' = [stageBar EXCEPT ![r] = StageOf(r)']
         /\ taskBar' = [taskBar EXCEPT ![r] = TaskOf(r)']
         /\ codeBar' = [codeBar EXCEPT ![r] = CodeOf(r)']
         /\ verdictBar' = [verdictBar EXCEPT ![r] = VerdictOf(r)']
<1>1. \A q \in Runs \ {r} : Seen(q)' = Seen(q)
  BY ViewSeen
<1>2. \A q \in Runs \ {r} : /\ StageOf(q)' = StageOf(q) /\ TaskOf(q)' = TaskOf(q)
                            /\ CodeOf(q)' = CodeOf(q) /\ VerdictOf(q)' = VerdictOf(q)
  BY <1>1 DEF Seen
<1> QED
  BY <1>2 DEF stageBar, taskBar, codeBar, verdictBar

\* A call whose verdict is closed has a task that is over or cannot start.
LEMMA ClosedTask ==
  ASSUME FollowedInv, NEW r \in Runs,
         pc[r] \in {"restore", "done"}, cleanup[r] \in {"none", "removed"}
  PROVE  TaskOf(r) = "over"
<1>1. cont[r] = "removed"
  BY DEF FollowedInv, SettledInv, Settled
<1> QED
  BY <1>1 DEF TaskOf

\* A verdict of success is warranted where it is given.
LEMMA SuccessWarranted ==
  ASSUME FollowedInv, NEW r \in Runs,
         pc[r] \in {"restore", "done"}, ~Failed(r)
  PROVE  TaskOf(r) = "over" /\ CodeOf(r) = "zero"
<1>1. reply[r].status = "zero"
  BY DEF Failed, Errored
<1>2. cont[r] = "removed" /\ exit[r] = "zero"
  BY <1>1 DEF FollowedInv, SettledInv, Settled, Followed
<1> QED
  BY <1>2 DEF TaskOf, CodeOf

\* Nothing happens to the other calls.
LEMMA OthersUnseen ==
  ASSUME FollowedInv, NEW r \in Runs,
         \/ Start(r) \/ Step(r) \/ CliReturns(r) \/ EngineCreates(r) \/ TaskExits(r)
         \/ EngineRemoves(r)
  PROVE  \A q \in Runs \ {r} : View(q)' = View(q)
<1> SUFFICES ASSUME NEW q \in Runs \ {r} PROVE View(q)' = View(q)
  OBVIOUS
<1> USE RunsAssumption DEF FollowedInv, SettledInv, Typed, TypeOK, Containers, View
<1>1. ASSUME \/ Start(r) \/ ValidatePolicy(r) \/ RecordModes(r) \/ WidenModes(r)
             \/ BuildArguments(r) \/ FinishSpec(r) \/ LaunchCli(r)
             \/ CliReturns(r) \/ CliKilled(r)
             \/ ReadContext(r) \/ DecideCleanup(r)
      PROVE View(q)' = View(q)
  <2>1. /\ UNCHANGED <<cont, exit, cleanup, measured>>
        /\ \E label : pc' = [pc EXCEPT ![r] = label]
    BY <1>1 DEF Start, ValidatePolicy, RecordModes, WidenModes, BuildArguments,
       FinishSpec, LaunchCli, CliReturns, CliKilled, ReadContext, DecideCleanup,
       Goto, local, engine
  <2>2. reply'[q] = reply[q] /\ joined'[q] = joined[q]
    BY <1>1 DEF Start, ValidatePolicy, RecordModes, WidenModes, BuildArguments,
       FinishSpec, LaunchCli, CliReturns, CliKilled, ReadContext, DecideCleanup,
       Goto, local, engine
  <2> QED
    BY <2>1, <2>2
<1>2. ASSUME InspectByName(r) \/ MeasureWorkspace(r) \/ Return(r)
      PROVE View(q)' = View(q)
  BY <1>2 DEF InspectByName, MeasureWorkspace, Return, Goto, engine
<1>3. ASSUME RemoveById(r) PROVE View(q)' = View(q)
  <2>1. target[r] = r
    BY <1>3 DEF RemoveById, Settled
  <2>2. cont'[q] = cont[q]
    BY <1>3, <2>1 DEF RemoveById, Removed, Doomed
  <2> QED
    BY <1>3, <2>2 DEF RemoveById, Goto
<1>4. ASSUME EngineCreates(r) \/ TaskExits(r) \/ EngineRemoves(r)
      PROVE View(q)' = View(q)
  BY <1>4 DEF EngineCreates, TaskExits, EngineRemoves, local
<1> QED
  BY <1>1, <1>2, <1>3, <1>4 DEF Step

\* A call is made.
LEMMA StartMaps ==
  ASSUME FollowedInv, NEW r \in Runs, Start(r)
  PROVE  Promise!Call(r, expired[r])
<1>1. \A q \in Runs \ {r} : View(q)' = View(q)
  BY OthersUnseen
<1>2. /\ pc[r] = "idle" /\ pc'[r] = "validate"
      /\ UNCHANGED <<expired, cont, exit>>
  BY DEF Start, Goto, engine, FollowedInv, SettledInv, Typed, TypeOK
<1>3. /\ StageOf(r) = "idle" /\ StageOf(r)' = "running"
      /\ TaskOf(r)' = TaskOf(r) /\ CodeOf(r)' = CodeOf(r)
      /\ VerdictOf(r) = "none" /\ VerdictOf(r)' = "none"
  BY <1>2 DEF StageOf, TaskOf, CodeOf, VerdictOf, Ended
<1>4. expired' = [expired EXCEPT ![r] = expired[r]]
  BY <1>2 DEF FollowedInv, SettledInv, Typed, TypeOK
<1>5. stageBar[r] = "idle" /\ stageBar' = [stageBar EXCEPT ![r] = "running"]
  BY <1>1, <1>3, OneMaps DEF stageBar
<1>6. UNCHANGED <<taskBar, codeBar, verdictBar>>
  BY <1>1, <1>3, OneMaps DEF taskBar, codeBar, verdictBar
<1> QED
  BY <1>4, <1>5, <1>6 DEF Promise!Call

\* A step inside a call, with which its task has nothing to do, is a stutter.
LEMMA InsideMaps ==
  ASSUME FollowedInv, NEW r \in Runs,
         \A q \in Runs \ {r} : View(q)' = View(q),
         UNCHANGED expired, TaskOf(r)' = TaskOf(r), CodeOf(r)' = CodeOf(r),
         StageOf(r) = "running", StageOf(r)' = "running"
  PROVE  UNCHANGED Promise!promise
<1>1. VerdictOf(r) = "none" /\ VerdictOf(r)' = "none"
  BY DEF VerdictOf
<1>2. \A q \in Runs : Seen(q)' = Seen(q)
  BY <1>1, ViewSeen DEF Seen
<1> QED
  BY <1>2, UnseenMaps

\* A call that gives its verdict.
LEMMA VerdictMaps ==
  ASSUME FollowedInv, NEW r \in Runs,
         \A q \in Runs \ {r} : View(q)' = View(q),
         UNCHANGED <<expired, cont, exit>>,
         StageOf(r) = "running", StageOf(r)' = "returned",
         VerdictOf(r)' = "success" =>
           ~expired[r] /\ TaskOf(r) = "over" /\ CodeOf(r) = "zero",
         VerdictOf(r)' = "failure" => TaskOf(r) # "alive"
  PROVE  Promise!Return(r)
<1>1. VerdictOf(r)' \in {"success", "failure", "unclean"}
  BY DEF VerdictOf
<1>2. TaskOf(r)' = TaskOf(r) /\ CodeOf(r)' = CodeOf(r)
  BY DEF TaskOf, CodeOf
<1>3. stageBar[r] = "running" /\ stageBar' = [stageBar EXCEPT ![r] = "returned"]
  BY OneMaps DEF stageBar
<1>4. UNCHANGED <<taskBar, codeBar>>
  BY <1>2, OneMaps DEF taskBar, codeBar
<1>5. verdictBar' = [verdictBar EXCEPT ![r] = VerdictOf(r)']
  BY OneMaps
<1>6. Promise!Warranted(r, VerdictOf(r)')
  BY DEF Promise!Warranted, taskBar, codeBar
<1>7. VerdictOf(r)' \in Promise!Verdicts \ {"none"}
  BY <1>1 DEF Promise!Verdicts
<1> QED
  BY <1>3, <1>4, <1>5, <1>6, <1>7 DEF Promise!Return

\* Preparation, which may refuse the call.
LEMMA PrepareMaps ==
  ASSUME FollowedInv, FollowedInv', NEW r \in Runs,
         \/ ValidatePolicy(r) \/ RecordModes(r) \/ WidenModes(r)
         \/ BuildArguments(r) \/ FinishSpec(r)
  PROVE  UNCHANGED Promise!promise \/ Promise!Return(r)
<1>1. \A q \in Runs \ {r} : View(q)' = View(q)
  BY OthersUnseen DEF Step
<1>2. /\ pc[r] \in {"validate", "open", "widen", "arguments", "spec"}
      /\ pc'[r] \in {"open", "widen", "arguments", "spec", "launch", "refused"}
      /\ UNCHANGED <<expired, cont, exit, cleanup>>
  BY DEF ValidatePolicy, RecordModes, WidenModes, BuildArguments, FinishSpec,
     Goto, local, engine, FollowedInv, SettledInv, Typed, TypeOK
<1>3. StageOf(r) = "running" /\ TaskOf(r)' = TaskOf(r) /\ CodeOf(r)' = CodeOf(r)
  BY <1>2 DEF StageOf, TaskOf, CodeOf, Ended
<1>4. CASE pc'[r] # "refused"
  <2>1. StageOf(r)' = "running"
    BY <1>2, <1>4 DEF StageOf, Ended
  <2> QED
    BY <1>1, <1>2, <1>3, <2>1, InsideMaps
<1>5. CASE pc'[r] = "refused"
  <2>1. TaskOf(r) # "alive"
    <3>1. ticket[r] = "none" /\ cont[r] = "never"
      BY <1>2 DEF FollowedInv, SettledInv, Settled
    <3> QED
      BY <3>1 DEF TaskOf
  <2>2. StageOf(r)' = "returned" /\ Failed(r)'
    BY <1>5 DEF StageOf, Failed, Ended
  <2>3. VerdictOf(r)' # "success"
    BY <2>2 DEF VerdictOf
  <2> QED
    BY <1>1, <1>2, <1>3, <2>1, <2>2, <2>3, VerdictMaps
<1> QED
  BY <1>4, <1>5

\* From the launch to the inspection.
LEMMA AttachedMaps ==
  ASSUME FollowedInv, NEW r \in Runs,
         \/ LaunchCli(r) \/ CliReturns(r) \/ CliKilled(r) \/ ReadContext(r)
         \/ DecideCleanup(r) \/ InspectByName(r)
  PROVE  UNCHANGED Promise!promise
<1>1. \A q \in Runs \ {r} : View(q)' = View(q)
  BY OthersUnseen DEF Step
<1>2. /\ pc[r] \in {"launch", "attached", "returned", "recheck", "inspect"}
      /\ pc'[r] \in {"attached", "returned", "recheck", "inspect", "remove", "measure"}
      /\ UNCHANGED <<expired, cont, exit>>
  BY DEF LaunchCli, CliReturns, CliKilled, ReadContext, DecideCleanup, InspectByName,
     Goto, engine, FollowedInv, SettledInv, Typed, TypeOK
<1>3. /\ StageOf(r) = "running" /\ StageOf(r)' = "running"
      /\ TaskOf(r)' = TaskOf(r) /\ CodeOf(r)' = CodeOf(r)
  BY <1>2 DEF StageOf, TaskOf, CodeOf, Ended
<1> QED
  BY <1>1, <1>2, <1>3, InsideMaps

\* What happens to the task of a call that has not given its verdict.
LEMMA TaskMaps ==
  ASSUME FollowedInv, FollowedInv', NEW r \in Runs,
         \A q \in Runs \ {r} : View(q)' = View(q),
         UNCHANGED expired, StageOf(r)' = StageOf(r), VerdictOf(r)' = VerdictOf(r),
         TaskOf(r) = "alive", TaskOf(r)' = "over"
  PROVE  Promise!TaskEnds(r)
<1>1. CodeOf(r)' \in {"none", "zero", "other"}
  BY DEF CodeOf, FollowedInv, SettledInv, Typed, TypeOK
<1>2. taskBar[r] = "alive" /\ taskBar' = [taskBar EXCEPT ![r] = "over"]
  BY OneMaps DEF taskBar
<1>3. codeBar' = [codeBar EXCEPT ![r] = CodeOf(r)']
  BY OneMaps
<1>4. UNCHANGED <<stageBar, verdictBar>>
  BY OneMaps DEF stageBar, verdictBar
<1> QED
  BY <1>1, <1>2, <1>3, <1>4 DEF Promise!TaskEnds

\* The removal ends a task that still runs.
LEMMA RemovalMaps ==
  ASSUME FollowedInv, FollowedInv', NEW r \in Runs, RemoveById(r)
  PROVE  UNCHANGED Promise!promise \/ Promise!TaskEnds(r)
<1>1. \A q \in Runs \ {r} : View(q)' = View(q)
  BY OthersUnseen DEF Step
<1>2. /\ pc[r] = "remove" /\ pc'[r] = "measure" /\ UNCHANGED <<expired, exit>>
      /\ cont'[r] = cont[r] \/ cont'[r] = "removed"
      /\ cont[r] # "never"
  BY DEF RemoveById, Removed, Goto, FollowedInv, SettledInv, Settled, Typed,
     TypeOK, Containers
<1>3. /\ StageOf(r) = "running" /\ StageOf(r)' = "running" /\ CodeOf(r)' = CodeOf(r)
      /\ VerdictOf(r)' = VerdictOf(r)
  BY <1>2 DEF StageOf, CodeOf, VerdictOf, Ended
<1>4. CASE TaskOf(r)' = TaskOf(r)
  BY <1>1, <1>2, <1>3, <1>4, InsideMaps
<1>5. CASE TaskOf(r)' # TaskOf(r)
  <2>1. TaskOf(r) = "alive" /\ TaskOf(r)' = "over"
    BY <1>2, <1>5 DEF TaskOf
  <2> QED
    BY <1>1, <1>2, <1>3, <2>1, TaskMaps
<1> QED
  BY <1>4, <1>5

\* The accounting, after which the verdict stands.
LEMMA MeasureMaps ==
  ASSUME FollowedInv, FollowedInv', NEW r \in Runs, MeasureWorkspace(r)
  PROVE  Promise!Return(r)
<1>1. \A q \in Runs \ {r} : View(q)' = View(q)
  BY OthersUnseen DEF Step
<1>2. /\ pc[r] = "measure" /\ pc'[r] = "restore"
      /\ UNCHANGED <<expired, cont, exit, cleanup>>
      /\ expired[r] => measured'[r] = "failed"
  BY DEF MeasureWorkspace, MeasurementsOf, Goto, engine, FollowedInv,
     SettledInv, Typed, TypeOK
<1>3. /\ StageOf(r) = "running" /\ StageOf(r)' = "returned"
      /\ TaskOf(r)' = TaskOf(r) /\ CodeOf(r)' = CodeOf(r)
  BY <1>2 DEF StageOf, TaskOf, CodeOf, Ended
<1>4. ASSUME VerdictOf(r)' = "success"
      PROVE  ~expired[r] /\ TaskOf(r) = "over" /\ CodeOf(r) = "zero"
  <2>1. ~Failed(r)'
    BY <1>3, <1>4 DEF VerdictOf
  <2>2. TaskOf(r)' = "over" /\ CodeOf(r)' = "zero"
    <3>1. reply'[r].status = "zero"
      BY <2>1 DEF Failed, Errored
    <3>2. cont'[r] = "removed" /\ exit'[r] = "zero"
      BY <1>2, <3>1 DEF FollowedInv, SettledInv, Settled, Followed
    <3> QED
      BY <3>2 DEF TaskOf, CodeOf
  <2>3. ~expired[r]
    BY <1>2, <2>1 DEF Failed
  <2> QED
    BY <1>3, <2>2, <2>3
<1>5. ASSUME VerdictOf(r)' = "failure"
      PROVE  TaskOf(r) # "alive"
  <2>1. cleanup'[r] \in {"none", "removed"}
    BY <1>3, <1>5 DEF VerdictOf
  <2>2. cont'[r] = "removed"
    BY <1>2, <2>1 DEF FollowedInv, SettledInv, Settled
  <2> QED
    BY <1>2, <2>2 DEF TaskOf
<1> QED
  BY <1>1, <1>2, <1>3, <1>4, <1>5, VerdictMaps

\* The workspace is restored after the verdict.
LEMMA RestoreMaps ==
  ASSUME FollowedInv, NEW r \in Runs, Return(r)
  PROVE  UNCHANGED Promise!promise
<1>1. \A q \in Runs \ {r} : View(q)' = View(q)
  BY OthersUnseen DEF Step
<1>2. /\ pc[r] = "restore" /\ pc'[r] = "done"
      /\ UNCHANGED <<expired, cont, exit, cleanup, reply, joined, measured>>
  BY DEF Return, Goto, engine, FollowedInv, SettledInv, Typed, TypeOK
<1>3. Seen(r)' = Seen(r)
  BY <1>2 DEF Seen, StageOf, TaskOf, CodeOf, VerdictOf, Failed, Errored, Ended
<1>4. \A q \in Runs : Seen(q)' = Seen(q)
  BY <1>1, <1>3, ViewSeen
<1> QED
  BY <1>2, <1>4, UnseenMaps

\* The deadline.
LEMMA ExpireMaps ==
  ASSUME FollowedInv, NEW r \in Runs, Expire(r)
  PROVE  Promise!Expire(r)
<1>1. \A q \in Runs : View(q)' = View(q)
  BY DEF Expire, local, engine, View
<1>2. UNCHANGED <<stageBar, taskBar, codeBar, verdictBar>>
  <2>1. \A q \in Runs : Seen(q)' = Seen(q)
    BY <1>1, ViewSeen
  <2> QED
    BY <2>1 DEF Seen, stageBar, taskBar, codeBar, verdictBar
<1>3. stageBar[r] # "idle"
  BY DEF Expire, Active, stageBar, StageOf
<1> QED
  BY <1>2, <1>3 DEF Expire, Promise!Expire

\* The engine starts the task of a call that has not given its verdict, or has
\* given none that says anything.
LEMMA CreateMaps ==
  ASSUME FollowedInv, NEW r \in Runs, EngineCreates(r)
  PROVE  UNCHANGED Promise!promise \/ Promise!TaskStarts(r)
<1>1. \A q \in Runs \ {r} : View(q)' = View(q)
  BY OthersUnseen
<1>2. /\ ticket[r] = "sent" /\ UNCHANGED <<expired, pc, exit, cleanup, reply, joined, measured>>
      /\ cont[r] = "never"
      /\ cont'[r] \in {"never", "running"}
  BY DEF EngineCreates, local, FollowedInv, SettledInv, Settled, Typed, TypeOK,
     Containers
<1>3. StageOf(r)' = StageOf(r) /\ CodeOf(r)' = CodeOf(r) /\ VerdictOf(r)' = VerdictOf(r)
  BY <1>2 DEF StageOf, CodeOf, VerdictOf, Failed, Errored
<1>4. CASE cont'[r] = "never"
  <2>1. Seen(r)' = Seen(r)
    BY <1>2, <1>3, <1>4 DEF Seen, TaskOf
  <2>2. \A q \in Runs : Seen(q)' = Seen(q)
    BY <1>1, <2>1, ViewSeen
  <2> QED
    BY <1>2, <2>2, UnseenMaps
<1>5. CASE cont'[r] = "running"
  <2>1. StageOf(r) # "idle"
    BY <1>2 DEF StageOf, FollowedInv, SettledInv, Settled, Ended
  <2>2. VerdictOf(r) \notin {"success", "failure"}
    <3> SUFFICES ASSUME VerdictOf(r) \in {"success", "failure"}
                 PROVE  FALSE
      OBVIOUS
    <3>1. StageOf(r) = "returned"
      BY DEF VerdictOf
    <3>2. pc[r] # "refused"
      BY <1>2 DEF FollowedInv, Followed
    <3>3. pc[r] \in {"restore", "done"}
      BY <3>1, <3>2 DEF StageOf, Ended
    <3>4. CASE ~Failed(r)
      BY <1>2, <3>3, <3>4, SuccessWarranted DEF TaskOf
    <3>5. CASE Failed(r)
      <4>1. cleanup[r] \in {"none", "removed"}
        BY <3>1, <3>5 DEF VerdictOf
      <4> QED
        BY <1>2, <3>3, <4>1, ClosedTask DEF TaskOf
    <3> QED
      BY <3>4, <3>5
  <2>3. TaskOf(r) = "never" /\ TaskOf(r)' = "alive"
    BY <1>2, <1>5 DEF TaskOf
  <2>4. taskBar[r] = "never" /\ taskBar' = [taskBar EXCEPT ![r] = "alive"]
    BY <1>1, <2>3, OneMaps DEF taskBar
  <2>5. UNCHANGED <<stageBar, codeBar, verdictBar>>
    BY <1>1, <1>3, OneMaps DEF stageBar, codeBar, verdictBar
  <2>6. stageBar[r] # "idle" /\ ~Promise!Closed(r)
    BY <2>1, <2>2 DEF stageBar, verdictBar, Promise!Closed
  <2> QED
    BY <1>2, <2>4, <2>5, <2>6 DEF Promise!TaskStarts
<1> QED
  BY <1>2, <1>4, <1>5

\* The task ends by itself.
LEMMA ExitMaps ==
  ASSUME FollowedInv, FollowedInv', NEW r \in Runs, TaskExits(r)
  PROVE  Promise!TaskEnds(r)
<1>1. \A q \in Runs \ {r} : View(q)' = View(q)
  BY OthersUnseen
<1>2. /\ UNCHANGED <<expired, pc, cleanup, reply, joined, measured>>
      /\ cont[r] = "running" /\ cont'[r] = "exited"
  BY DEF TaskExits, local, FollowedInv, SettledInv, Typed, TypeOK, Containers
<1>3. StageOf(r)' = StageOf(r) /\ VerdictOf(r)' = VerdictOf(r)
  BY <1>2 DEF StageOf, VerdictOf, Failed, Errored
<1>4. TaskOf(r) = "alive" /\ TaskOf(r)' = "over"
  BY <1>2 DEF TaskOf
<1> QED
  BY <1>1, <1>2, <1>3, <1>4, TaskMaps

\* What the promise does not see: the engine's removal of what has ended, and
\* the containers of others.
LEMMA AwayMaps ==
  ASSUME FollowedInv, NEW r \in Runs,
         EngineRemoves(r) \/ \E s \in Strangers : StrangerAppears(s, r)
  PROVE  UNCHANGED Promise!promise
<1>1. /\ UNCHANGED <<expired, pc, exit, cleanup, reply, joined, measured>>
      /\ \A q \in Runs : \/ cont'[q] = cont[q]
                         \/ cont[q] = "exited" /\ cont'[q] = "removed"
  BY RunsAssumption DEF EngineRemoves, StrangerAppears, local, FollowedInv,
     SettledInv, Typed, TypeOK, Containers
<1>2. \A q \in Runs : Seen(q)' = Seen(q)
  BY <1>1 DEF Seen, StageOf, TaskOf, CodeOf, VerdictOf, Failed, Errored
<1> QED
  BY <1>1, <1>2, UnseenMaps

\* Every step is one of the promise, or none.
LEMMA StepMaps ==
  ASSUME FollowedInv, FollowedInv', [Next]_vars
  PROVE  [Promise!Next]_(Promise!promise)
<1>1. ASSUME NEW r \in Runs, Start(r) PROVE Promise!Next
  <2>1. expired[r] \in BOOLEAN
    BY DEF FollowedInv, SettledInv, Typed, TypeOK
  <2> QED
    BY <1>1, <2>1, StartMaps DEF Promise!Next
<1>2. ASSUME NEW r \in Runs, Step(r)
      PROVE  UNCHANGED Promise!promise \/ Promise!Return(r) \/ Promise!TaskEnds(r)
  BY <1>2, PrepareMaps, AttachedMaps, RemovalMaps, MeasureMaps, RestoreMaps DEF Step
<1>3. ASSUME NEW r \in Runs, Expire(r) PROVE Promise!Expire(r)
  BY <1>3, ExpireMaps
<1>4. ASSUME NEW r \in Runs, CliReturns(r) PROVE UNCHANGED Promise!promise
  BY <1>4, AttachedMaps
<1>5. ASSUME NEW r \in Runs, EngineCreates(r)
      PROVE  UNCHANGED Promise!promise \/ Promise!TaskStarts(r)
  BY <1>5, CreateMaps
<1>6. ASSUME NEW r \in Runs, TaskExits(r) PROVE Promise!TaskEnds(r)
  BY <1>6, ExitMaps
<1>7. ASSUME NEW r \in Runs,
             EngineRemoves(r) \/ \E s \in Strangers : StrangerAppears(s, r)
      PROVE  UNCHANGED Promise!promise
  BY <1>7, AwayMaps
<1>8. CASE Quiet \/ UNCHANGED vars
  <2>1. UNCHANGED vars
    BY <1>8 DEF Quiet
  <2>2. \A q \in Runs : View(q)' = View(q)
    BY <2>1 DEF vars, View
  <2> QED
    BY <2>1, <2>2, ViewSeen, UnseenMaps DEF vars
<1> QED
  BY <1>1, <1>2, <1>3, <1>4, <1>5, <1>6, <1>7, <1>8 DEF Next, Promise!Next

\* Run implements its promise, for any number of calls, of other programs'
\* containers and of workspaces: whatever the engine does, however late, and
\* whichever deadlines pass, a call says of its task what has become of it.
THEOREM RunKeepsPromise == Spec => KeepsPromise
<1>1. Init => Promise!Init
  <2> SUFFICES ASSUME Init PROVE Promise!Init
    OBVIOUS
  <2>1. \A r \in Runs : /\ StageOf(r) = "idle" /\ TaskOf(r) = "never"
                        /\ CodeOf(r) = "none" /\ VerdictOf(r) = "none"
    BY DEF Init, Ended, StageOf, TaskOf, CodeOf, VerdictOf, Containers
  <2>2. expired = [r \in Runs |-> FALSE]
    BY DEF Init
  <2> QED
    BY <2>1, <2>2 DEF Promise!Init, stageBar, taskBar, codeBar, verdictBar
<1>2. FollowedInv /\ FollowedInv' /\ [Next]_vars => [Promise!Next]_(Promise!promise)
  BY StepMaps
<1> QED
  BY <1>1, <1>2, FollowedInit, FollowedStep, PTL DEF Spec, KeepsPromise, Promise!Spec
=============================================================================
