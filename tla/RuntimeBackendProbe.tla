-------------------------- MODULE RuntimeBackendProbe --------------------------
(***************************************************************************)
(* RuntimeBackendProbe.Probe (container/runtime_probe.go): probes that     *)
(* find out whether a container tool can be advertised, each under its own *)
(* deadline, while the tool may be replaced, the engine acts late and      *)
(* other probes use the same conformance workspace.                        *)
(*                                                                         *)
(* A probe looks the command up, asks its version, prepares a workspace,   *)
(* runs one container under a fresh name and owner label, and, if that run *)
(* failed or came late, inspects and removes the container under a second  *)
(* deadline.  Inspection by name and label among the containers of others  *)
(* is the subject of SandboxRun; here a probe finds its own or none.       *)
(***************************************************************************)
CONSTANTS
  Probes,    \* calls of Probe
  Versions,  \* versions of the command line tool
  Pinned,    \* the version the bundle's descriptor names
  None       \* no tool, no version

ASSUME VersionsAssumption ==
  Pinned \in Versions /\ None \notin Versions \cup {"private", "open"}

\* A tool of the system, or of a managed bundle: valid, missing, with a
\* command that is not an absolute path, or refused by ValidateAt.
Setups == {"system", "bundled", "missing", "relative", "invalid"}

\* shared: a conformance workspace was configured, else a temporary one is made.
Options == [setup : Setups, shared : BOOLEAN]

Labels == {"idle", "bundle", "lookup", "version", "workspace", "widen", "owner",
           "launch", "attached", "returned", "inspect", "remove", "evidence",
           "restore", "reported"}
\* The deadline may still turn the report.
Undecided == Labels \ {"idle", "inspect", "remove", "evidence", "restore", "reported"}

Statuses == {"unsupported", "degraded", "supported"}

VARIABLES
  pc,         \* where each probe is
  options,    \* its options
  expired,    \* ctx.Err() # nil
  status,     \* the report's status
  version,    \* the report's version
  ran,        \* the tool its conformance run was made with
  good,       \* the conformance run: no error
  proof,      \* what it printed is complete evidence
  cleanup,    \* what the removal came to
  saved,      \* the mode it recorded of the configured workspace
  mode,       \* the mode of the configured workspace
  outlived,   \* history: a private mode was written back while another probe
              \* had recorded its own
  tool,       \* the tool behind each probe's command
  replaced,   \* history: it was replaced between the probe's two uses of it
  ticket,     \* engine: the create request
  cont,       \* engine: the container
  exit        \* engine: the exit status of the conformance command

report == <<options, status, version, ran, good, proof, cleanup>>
space  == <<saved, mode, outlived>>
engine == <<ticket, cont, exit>>
tools  == <<tool, replaced>>
vars   == <<pc, expired, report, space, tools, engine>>

Modes == {"absent", "private", "open"}

TypeOK ==
  /\ pc \in [Probes -> Labels]
  /\ options \in [Probes -> Options]
  /\ expired \in [Probes -> BOOLEAN]
  /\ status \in [Probes -> Statuses]
  /\ version \in [Probes -> Versions \cup {None}]
  /\ ran \in [Probes -> Versions \cup {None}]
  /\ good \in [Probes -> BOOLEAN]
  /\ proof \in [Probes -> BOOLEAN]
  /\ cleanup \in [Probes -> {"none", "removed", "error"}]
  /\ saved \in [Probes -> {None, "private", "open"}]
  /\ mode \in Modes
  /\ outlived \in BOOLEAN
  /\ tool \in [Probes -> Versions \cup {None}]
  /\ replaced \in SUBSET Probes
  /\ ticket \in [Probes -> {"none", "sent", "answered"}]
  /\ cont \in [Probes -> {"never", "running", "exited", "removed"}]
  /\ exit \in [Probes -> {"none", "zero", "other"}]

Init ==
  /\ pc = [p \in Probes |-> "idle"]
  /\ options = [p \in Probes |-> [setup |-> "system", shared |-> FALSE]]
  /\ expired = [p \in Probes |-> FALSE]
  /\ status = [p \in Probes |-> "unsupported"]
  /\ version = [p \in Probes |-> None]
  /\ ran = [p \in Probes |-> None]
  /\ good = [p \in Probes |-> FALSE]
  /\ proof = [p \in Probes |-> FALSE]
  /\ cleanup = [p \in Probes |-> "none"]
  /\ saved = [p \in Probes |-> None]
  /\ mode \in {"absent", "private"}
  /\ outlived = FALSE
  /\ tool \in [Probes -> Versions \cup {None}]
  /\ replaced = {}
  /\ ticket = [p \in Probes |-> "none"]
  /\ cont = [p \in Probes |-> "never"]
  /\ exit = [p \in Probes |-> "none"]

Goto(p, label) == pc' = [pc EXCEPT ![p] = label]

\* The report is made; the deferred clean-up of the workspace is still to run.
Report(p, what) == /\ status' = [status EXCEPT ![p] = what]
                   /\ Goto(p, "restore")

\* The probe has recorded the mode of the configured workspace.
Open(p) == saved[p] # None /\ pc[p] # "reported"

-----------------------------------------------------------------------------
(* The definitions whose comment says "Mutant" are what the code does not  *)
(* do, as in SandboxRun.                                                   *)

\* Mutant of MustClean: only a run that was cut off is cleaned up after.
OnlyIfLate(p) == expired[p]

\* The condition of the clean-up: the run's error, or the context's.
MustClean(p) == ~good[p] \/ expired[p]

\* Mutant of Refuted: evidence is taken from any run that printed it.
OnlyByEvidence(p) == ~proof[p]

\* Mutant of Refuted: the removal made up for the deadline.
ForgivenOnceRemoved(p) == ~good[p] /\ cleanup[p] # "removed"

\* What makes a probe degraded after its conformance run.
Refuted(p) == cleanup[p] # "none" \/ ~proof[p]

-----------------------------------------------------------------------------
(* Up to the conformance run.                                              *)

Start(p) ==
  /\ pc[p] = "idle"
  /\ \E o \in Options :
       /\ options' = [options EXCEPT ![p] = o]
       /\ Goto(p, IF o.setup = "system" THEN "lookup" ELSE "bundle")
  /\ UNCHANGED <<expired, status, version, ran, good, proof, cleanup, space,
                 tools, engine>>

CheckBundle(p) ==
  /\ pc[p] = "bundle"
  /\ \/ /\ options[p].setup \in {"missing", "relative"}
        /\ Report(p, "unsupported")
        /\ UNCHANGED version
     \/ /\ options[p].setup = "invalid"
        /\ Report(p, "degraded")
        /\ UNCHANGED version
     \/ /\ options[p].setup = "bundled"
        /\ version' = [version EXCEPT ![p] = Pinned]
        /\ Goto(p, "lookup")
        /\ UNCHANGED status
  /\ UNCHANGED <<expired, options, ran, good, proof, cleanup, space, tools, engine>>

LookPath(p) ==
  /\ pc[p] = "lookup"
  /\ \/ /\ tool[p] = None
        /\ Report(p, "unsupported")
     \/ /\ tool[p] # None
        /\ Goto(p, "version")
        /\ UNCHANGED status
  /\ UNCHANGED <<expired, options, version, ran, good, proof, cleanup, space,
                 tools, engine>>

\* The version a bundle names is not asked for again.
AskVersion(p) ==
  /\ pc[p] = "version"
  /\ \/ Report(p, "degraded") /\ UNCHANGED version
     \/ /\ tool[p] # None /\ ~expired[p]
        /\ version' = [version EXCEPT ![p] = IF @ = None THEN tool[p] ELSE @]
        /\ Goto(p, "workspace")
        /\ UNCHANGED status
  /\ UNCHANGED <<expired, options, ran, good, proof, cleanup, space, tools, engine>>

\* A configured workspace is made if it is missing and its mode recorded; either
\* can fail, after it was made.
ConfiguredWorkspace(p) ==
  /\ options[p].shared
  /\ LET found == IF mode = "absent" THEN "private" ELSE mode IN
     \/ /\ mode' \in {mode, found}
        /\ Report(p, "degraded")
        /\ UNCHANGED saved
     \/ /\ saved' = [saved EXCEPT ![p] = found]
        /\ mode' = found
        /\ Goto(p, "widen")
        /\ UNCHANGED status
  /\ UNCHANGED outlived

\* A temporary one is the probe's own.
TemporaryWorkspace(p) ==
  /\ ~options[p].shared
  /\ \/ Report(p, "degraded")
     \/ Goto(p, "owner") /\ UNCHANGED status
  /\ UNCHANGED space

MakeWorkspace(p) ==
  /\ pc[p] = "workspace"
  /\ ConfiguredWorkspace(p) \/ TemporaryWorkspace(p)
  /\ UNCHANGED <<expired, options, version, ran, good, proof, cleanup, tools, engine>>

\* The mode is widened by a call of its own, so that another probe can come
\* between.  If it fails the recorded mode is forgotten, not written back.
WidenWorkspace(p) ==
  /\ pc[p] = "widen"
  /\ \/ /\ Report(p, "degraded")
        /\ saved' = [saved EXCEPT ![p] = None]
        /\ UNCHANGED mode
     \/ /\ mode' = "open"
        /\ Goto(p, "owner")
        /\ UNCHANGED <<saved, status>>
  /\ UNCHANGED <<expired, options, version, ran, good, proof, cleanup, outlived,
                 tools, engine>>

\* The fresh name and owner token may be refused by the system.
MakeOwner(p) ==
  /\ pc[p] = "owner"
  /\ \/ Report(p, "degraded")
     \/ Goto(p, "launch") /\ UNCHANGED status
  /\ UNCHANGED <<expired, options, version, ran, good, proof, cleanup, space,
                 tools, engine>>
-----------------------------------------------------------------------------
(* The conformance run and the owned clean-up.                             *)

LaunchCli(p) ==
  /\ pc[p] = "launch"
  /\ \/ /\ ~expired[p] /\ tool[p] # None
        /\ ran' = [ran EXCEPT ![p] = tool[p]]
        /\ ticket' = [ticket EXCEPT ![p] = "sent"]
        /\ Goto(p, "attached")
     \/ Goto(p, "returned") /\ UNCHANGED <<ran, ticket>>
  /\ UNCHANGED <<expired, options, status, version, good, proof, cleanup, space,
                 tools, cont, exit>>

\* The CLI ends by itself: well only if the command did and --rm removed the
\* container, with both streams read to their end before the deadline.
CliReturns(p) ==
  /\ pc[p] = "attached"
  /\ \/ /\ exit[p] = "zero" /\ cont[p] = "removed" /\ ~expired[p]
        /\ good' = [good EXCEPT ![p] = TRUE]
     \/ UNCHANGED good
  /\ proof' \in {[proof EXCEPT ![p] = complete] : complete \in BOOLEAN}
  /\ Goto(p, "returned")
  /\ UNCHANGED <<expired, options, status, version, ran, cleanup, space, tools, engine>>

\* Mutant of Killable: the wait ends only when the container lets its streams
\* go.
KillableOnceQuiet(p) == expired[p] /\ cont[p] # "running"

Killable(p) == expired[p]

\* The context kills the CLI, and bounds the wait for its streams.
CliKilled(p) ==
  /\ pc[p] = "attached" /\ Killable(p)
  /\ Goto(p, "returned")
  /\ UNCHANGED <<expired, report, space, tools, engine>>

DecideCleanup(p) ==
  /\ pc[p] = "returned"
  /\ Goto(p, IF MustClean(p) THEN "inspect" ELSE "evidence")
  /\ UNCHANGED <<expired, report, space, tools, engine>>

Present(p) == cont[p] \in {"running", "exited"}

\* removeOwnedSandbox, under ten seconds of its own.
Inspect(p) ==
  /\ pc[p] = "inspect"
  /\ \/ Present(p) /\ Goto(p, "remove") /\ UNCHANGED cleanup
     \/ /\ cleanup' = [cleanup EXCEPT ![p] = "error"]
        /\ Goto(p, "evidence")
  /\ UNCHANGED <<expired, options, status, version, ran, good, proof, space, tools,
                 engine>>

\* A removal that fails may have removed it all the same.
Remove(p) ==
  /\ pc[p] = "remove"
  /\ \/ /\ cont' = IF Present(p) THEN [cont EXCEPT ![p] = "removed"] ELSE cont
        /\ cleanup' \in {[cleanup EXCEPT ![p] = outcome] : outcome \in {"removed", "error"}}
     \/ /\ cleanup' = [cleanup EXCEPT ![p] = "error"]
        /\ UNCHANGED cont
  /\ Goto(p, "evidence")
  /\ UNCHANGED <<expired, options, status, version, ran, good, proof, space, tools,
                 ticket, exit>>

ReadEvidence(p) ==
  /\ pc[p] = "evidence"
  /\ Report(p, IF Refuted(p) THEN "degraded" ELSE "supported")
  /\ UNCHANGED <<expired, options, version, ran, good, proof, cleanup, space, tools,
                 engine>>

\* Mutant of RestoredMode: the mode is not written back.
LeftMode(p) == mode

\* Mutant of RestoredMode: what is written back was never recorded.
UnrecordedMode(p) == saved[p]

\* The mode after the closure that writes the recorded one back.
RestoredMode(p) == IF saved[p] = None THEN mode ELSE saved[p]

Restore(p) ==
  /\ pc[p] = "restore"
  /\ mode' = RestoredMode(p)
  /\ outlived' = \/ outlived
                 \/ saved[p] = "private" /\ \E q \in Probes \ {p} : Open(q)
  /\ Goto(p, "reported")
  /\ UNCHANGED <<expired, report, saved, tools, engine>>

Expire(p) ==
  /\ pc[p] \notin {"idle", "reported"} /\ ~expired[p]
  /\ expired' = [expired EXCEPT ![p] = TRUE]
  /\ UNCHANGED <<pc, report, space, tools, engine>>

-----------------------------------------------------------------------------
(* The engine and the host (external).                                     *)

\* A create request may be refused: no image, a name in use.
EngineAnswers(p) ==
  /\ ticket[p] = "sent"
  /\ ticket' = [ticket EXCEPT ![p] = "answered"]
  /\ cont' \in {cont, [cont EXCEPT ![p] = "running"]}
  /\ UNCHANGED <<pc, expired, report, space, tools, exit>>

CommandExits(p) ==
  /\ cont[p] = "running"
  /\ cont' = [cont EXCEPT ![p] = "exited"]
  /\ exit' \in {[exit EXCEPT ![p] = code] : code \in {"zero", "other"}}
  /\ UNCHANGED <<pc, expired, report, space, tools, ticket>>

EngineRemoves(p) ==
  /\ cont[p] = "exited"
  /\ cont' = [cont EXCEPT ![p] = "removed"]
  /\ UNCHANGED <<pc, expired, report, space, tools, ticket, exit>>

\* An installer or the system replaces or removes the tool, as far as the
\* probe can notice.
ReplaceTool(p) ==
  /\ pc[p] \in {"lookup", "version", "workspace", "widen", "owner", "launch"}
  /\ \E v \in Versions \cup {None} : tool[p] # v /\ tool' = [tool EXCEPT ![p] = v]
  /\ replaced' = replaced \cup {q \in {p} : pc[p] \notin {"lookup", "version"}}
  /\ UNCHANGED <<pc, expired, report, space, engine>>

Quiet ==
  /\ \A p \in Probes : pc[p] = "reported" /\ ticket[p] # "sent" /\ ~Present(p)
  /\ UNCHANGED vars
-----------------------------------------------------------------------------
\* The steps of the probe itself; each is bounded by a timer or by local work.
Step(p) ==
  \/ CheckBundle(p) \/ LookPath(p) \/ AskVersion(p) \/ MakeWorkspace(p)
  \/ WidenWorkspace(p) \/ MakeOwner(p) \/ LaunchCli(p) \/ CliKilled(p)
  \/ DecideCleanup(p) \/ Inspect(p) \/ Remove(p) \/ ReadEvidence(p) \/ Restore(p)

Next ==
  \/ \E p \in Probes :
       \/ Start(p) \/ Step(p) \/ CliReturns(p) \/ Expire(p)
       \/ EngineAnswers(p) \/ CommandExits(p) \/ EngineRemoves(p) \/ ReplaceTool(p)
  \/ Quiet

Spec == Init /\ [][Next]_vars

\* Goroutines run and the timer of the probe fires; the CLI, the engine and the
\* conformance command may hang.
Fairness == \A p \in Probes : WF_vars(Step(p)) /\ WF_vars(Expire(p))

FairSpec == Spec /\ Fairness

-----------------------------------------------------------------------------
(* Properties.                                                             *)

\* Probe, and "Supported reports are only emitted after ..." of the README: a
\* supported report stands on one conformance run that ended well by itself and
\* printed the whole evidence, whose container is gone, and that was made with
\* the tool whose version the report names, unless the tool was replaced in
\* between or the report names the version its bundle is pinned to.
SupportedIsEarned ==
  \A p \in Probes : status[p] = "supported" =>
    /\ good[p] /\ proof[p] /\ exit[p] = "zero" /\ cont[p] = "removed"
    /\ \/ version[p] = ran[p] /\ options[p].setup = "system"
       \/ p \in replaced
       \/ version[p] = Pinned /\ options[p].setup = "bundled"

\* Probe: a deadline that passes before the conformance run was judged keeps
\* the report from being supported, even if the run had ended well.
LateProbeIsRefused ==
  \A p \in Probes :
    [](expired[p] /\ pc[p] \in Undecided =>
         [](status[p] # "supported"))

\* Probe: unless the removal failed, which the report's reason then says, no
\* container of a finished probe is there or can appear, although its workspace
\* is taken away when the probe ends.
ProbeLeavesNoContainer ==
  \A p \in Probes : pc[p] = "reported" /\ cleanup[p] # "error" =>
    ticket[p] # "sent" /\ ~Present(p)

\* runtimeBackendConformanceWorkspace: when no probe has the configured
\* workspace open it has the mode it had, however the probes ended and whether
\* or not they overlapped; unless one wrote a private mode back while another,
\* which may have recorded the widened one, had the workspace open.
WorkspaceRestored ==
  (\A p \in Probes : ~Open(p)) => mode # "open" \/ outlived

\* Probe: every probe reports, though the CLI and the engine may hang.
EveryProbeReports ==
  \A p \in Probes : pc[p] # "idle" ~> pc[p] = "reported"
=============================================================================
