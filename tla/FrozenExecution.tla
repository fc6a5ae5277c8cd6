--------------------------- MODULE FrozenExecution --------------------------
(***************************************************************************)
(* A worker runs the analysis core on a frozen run in a container: it      *)
(* stages the inputs in a volume of their own, starts the core under a     *)
(* fixed deadline, copies what it wrote back, removes the containers and   *)
(* the volume, and checks the result before it reports it.                 *)
(*                                                                         *)
(* Every command of the container engine may fail or time out, with or     *)
(* without having taken effect.  When the deadline passes only the client  *)
(* of the running container is stopped: the core itself goes on.           *)
(***************************************************************************)
EXTENDS FrozenAnalysis

CONSTANT MaxFaults     \* bound: failures of commands and processes, per dump

ASSUME MaxFaultsOfDumps == MaxFaults \in [Dumps -> Nat]

VARIABLE host          \* the worker's side of the execution

vars == <<dump, core, outcomes, symbols, heard, host>>

HostInit == host = [step |-> "stage", volume |-> FALSE, boxes |-> {}, copied |-> FALSE,
                    error |-> "", faults |-> 0, excuse |-> FALSE,
                    status |-> ""]

Init == CoreInit /\ HostInit

\* An error is raised; one that is already being handled is kept.
Raised(h, code) == [h EXCEPT !.error = IF @ = "" THEN code ELSE @]

Fault(h) == [h EXCEPT !.faults = @ + 1]

\* History: something was left behind that nobody will remove.
Excused(h) == [h EXCEPT !.excuse = TRUE]

\* One container command: it works, or fails with or without its effect.
\* done is the state with its effect, failed what the worker may make of a failure.
Command(step, done, next, failed) ==
    /\ host.step = step
    /\ \/ host' = [done EXCEPT !.step = next]
       \/ host.faults < MaxFaults[dump] /\ host' \in failed
    /\ UNCHANGED coreVars

StageFailed(done, step) ==
    {[Raised(Fault(h), "CORE_STAGE_FAILED") EXCEPT !.step = step] : h \in {host, done}}

\* Failures of the removals are swallowed.
Swallowed(done, step) == {Excused([Fault(h) EXCEPT !.step = step]) : h \in {host, done}}
Removed(step, done, next) == Command(step, done, next, Swallowed(done, next))

\* The inputs are fetched and checked against the frozen run.
StageInputs ==
    /\ host.step = "stage"
    /\ \/ host' = [host EXCEPT !.step = "volume"]
       \/ host' = [Raised(host, "INVALID_FROZEN_EVIDENCE") EXCEPT !.step = "end"]
    /\ UNCHANGED coreVars

CreateVolume ==
    LET done == [host EXCEPT !.volume = TRUE]
    IN  Command("volume", done, "create", {Excused(h) : h \in StageFailed(done, "end")})

\* Mutant: when staging fails the volume is removed before its container.
Undo_VolumeFirst == "undo_volume"

\* Staging failed: what is removed first.
Undo == "undo_box"

With(box) == [host EXCEPT !.boxes = @ \cup {box}]
Without(box) == [host EXCEPT !.boxes = @ \ {box}]
\* A volume in use is not removed.
WithoutVolume == [host EXCEPT !.volume = @ /\ host.boxes # {}]

CreateStage == Command("create", With("stage"), "copy_in", StageFailed(With("stage"), Undo))
CopyIn == Command("copy_in", host, "rm_stage", StageFailed(host, Undo))
RemoveStage == Removed("rm_stage", Without("stage"), "run")

UndoStage == Removed("undo_box", Without("stage"), "undo_volume")
UndoVolume == Removed("undo_volume", WithoutVolume, "rm_again")
UndoStageAgain == Removed("rm_again", Without("stage"), "end")

\* The core is started.
RunCore ==
    /\ host.step = "run" /\ core.phase = "idle"
    /\ core' = [core EXCEPT !.phase = "verify"]
    /\ host' = [host EXCEPT !.boxes = @ \cup {"core"}, !.step = "wait"]
    /\ UNCHANGED <<dump, outcomes, symbols, heard>>

\* The core is killed for want of memory.
CoreKilled ==
    /\ core.phase \notin Ended \cup {"idle"} /\ host.faults < MaxFaults[dump]
    /\ core' = [core EXCEPT !.phase = "killed"] /\ host' = Fault(host)
    /\ UNCHANGED <<dump, outcomes, symbols, heard>>

\* A container is removed when its process has ended.
CoreGone ==
    /\ core.phase \in Ended /\ "core" \in host.boxes
    /\ host' = [host EXCEPT !.boxes = @ \ {"core"}]
    /\ UNCHANGED coreVars

ExitCode == CASE core.phase = "failed" -> "FROZEN_FAILED" [] core.phase = "killed" -> "OOM"
              [] OTHER -> ""

\* The worker's client returns with the core's result, or hits the deadline.
CoreReturns ==
    /\ host.step = "wait"
    /\ \/ /\ core.phase \in Ended /\ "core" \notin host.boxes
          /\ host' = [IF ExitCode = "" THEN host ELSE Raised(host, ExitCode)
                         EXCEPT !.step = "extract"]
       \/ /\ core.phase \notin Ended /\ host.faults < MaxFaults[dump]
          /\ host' = [Raised(Excused(Fault(host)), "CORE_EXECUTION_TIMEOUT")
                         EXCEPT !.step = "extract"]
    /\ UNCHANGED coreVars

\* Whatever the core wrote is copied back, also after a failure.
CreateExtract == Command("extract", With("extract"), "copy_out",
                         StageFailed(With("extract"), "rm_extract"))
CopyOut == LET done == [host EXCEPT !.copied = TRUE]
           IN  Command("copy_out", done, "rm_extract", StageFailed(done, "rm_extract"))
RemoveExtract == Removed("rm_extract", Without("extract"), "rm_volume")
RemoveVolume == Removed("rm_volume", WithoutVolume, "check")

\* A result is reported only if nothing was raised on the way and it names the
\* frozen run and selections; the report is partial while evidence is missing.
CheckOutput ==
    /\ host.step = "check"
    /\ host' = [host EXCEPT !.step = "end",
                            !.status = IF host.error # "" \/ ~host.copied THEN ""
                                       ELSE IF Partial(dump, outcomes) THEN "PARTIAL"
                                       ELSE "COMPLETE"]
    /\ UNCHANGED coreVars

HostNext ==
    \/ StageInputs \/ CreateVolume \/ CreateStage \/ CopyIn \/ RemoveStage
    \/ UndoStage \/ UndoVolume \/ UndoStageAgain \/ CreateExtract \/ CopyOut
    \/ RemoveExtract \/ RemoveVolume \/ CheckOutput \/ RunCore \/ CoreReturns

Next == \/ CoreNext /\ UNCHANGED host
        \/ HostNext \/ CoreKilled \/ CoreGone

\* The core is a process with its own processor time, and the worker goes on
\* after every command: both take their next step, whatever the engine answers.
Fairness == /\ WF_vars(CoreNext /\ UNCHANGED host) /\ WF_vars(HostNext) /\ WF_vars(CoreGone)

Spec == Init /\ [][Next]_vars /\ Fairness
-----------------------------------------------------------------------------
(* Properties.                                                             *)

\* Every symbol in the evidence was read from the source it is ascribed to,
\* and that source is the pair frozen for the frame's own module, or a public
\* source when no upload answers the module (collect's ownership rule and the
\* partitions of plan).
SymbolsNameTheirOrigin ==
    \A f \in symbols :
        LET m == dump.modules[f.module]
        IN  /\ f.origin = f.src
            /\ IF m.state = "unique" THEN f.src = m.pair
               ELSE m.state = "none" /\ f.src \in PublicSources

\* A module whose public request was never answered is reported as pending in
\* a partial report, never as absent from the server (docs/design.md on
\* public source time-outs; Partition::unavailable and the status table).
SilenceIsNotAbsence ==
    host.status # "" =>
        \A i \in InFrames(Frames) \ heard :
            PartitionKey(i, dump.modules[i]).public =>
                /\ ModuleStatus(dump.modules[i], outcomes[i]) = "system_symbol_pending"
                /\ host.status = "PARTIAL"
                /\ \A o \in outcomes[i] : o.stage # "unwind" => o.outcome # "missing"

\* Public sources cost a run its pending symbols, not its report: a run that
\* failed at its sources failed at a private partition or at an answer that
\* cannot be used, and one that ran out of time had spent it on private
\* partitions alone.  A run that is reported has heard of every private
\* partition.
PublicNeverFailsTheRun ==
    /\ core.reason \in Retryable => ~Part.public
    /\ core.reason = "total_budget" => core.sent # {} /\ ~core.wasPublic
    /\ core.phase = "done" =>
          \A i \in InFrames(Frames) : dump.modules[i].state = "unique" => i \in heard

\* Whatever the engine and the proxy answer, the evidence the core collects
\* passes its own checks at assembly.
OwnEvidenceIsAccepted == core.reason # "assembly"

\* What a run says of its symbols is true: where they are from, what nobody answered,
\* and in the form that its own checks ask for.
EvidenceIsHonest == SymbolsNameTheirOrigin /\ SilenceIsNotAbsence /\ OwnEvidenceIsAccepted

\* Staging that fails and a core that fails or is killed leave no volume
\* behind: one is left only when a removal itself failed, when the creation of
\* the volume did not answer, or when the deadline passed with the core still
\* running (DockerVolumeWorkspace removes every container before its volume).
LeakHasCause == host.step = "end" /\ host.volume => host.excuse

\* The core ends, with a result or a failure, even when the engine keeps a
\* request pending for ever or forgets it every time; and so does the
\* worker's execution.
ExecutionEnds ==
    /\ core.phase = "verify" ~> core.phase \in Ended
    /\ <>(host.step = "end")
=============================================================================
