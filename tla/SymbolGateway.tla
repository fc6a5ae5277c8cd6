---------------------------- MODULE SymbolGateway ----------------------------
(***************************************************************************)
(* The policy gateway before Symbolicator: deploy/symbolicator/gateway.py. *)
(*                                                                         *)
(* It gives every request the sources of the deployment, learns from       *)
(* completed answers which public PDBs Microsoft does not have, and leaves *)
(* those modules out of later requests.  What it learned is in memory and  *)
(* in an append-only file.  Symbolicator is external: it works on the      *)
(* requests it was given, also while the gateway restarts.                 *)
(*                                                                         *)
(* One step forwards one request, handles one answer, or is a failure.     *)
(* The registry is looked up module by module; entries only get in, so     *)
(* that a request is as good as looked up in one step.                     *)
(***************************************************************************)
EXTENDS Naturals, FiniteSets

CONSTANTS GwJobs,      \* requests Symbolicator can hold at a time
          GwModules,   \* modules a request can name
          GwIdentity,  \* GwIdentity[m]: name and debug identity of m's PDB, or NoIdentity
          GwPath,      \* GwPath[m]: the path the module gives, or NoPath
          GwPe,        \* the modules whose type is "pe" or not given
          NoIdentity,
          NoPath,
          GwSeed,      \* identities in the seed file
          MaxGwFaults  \* bound: failed appends, crashes, restarts

\* A module that has an identity has the path its name was taken from.
ASSUME GatewayAssumption == /\ \A m \in GwModules : GwPath[m] = NoPath => GwIdentity[m] = NoIdentity
                            /\ GwPe \subseteq GwModules
                            /\ NoIdentity \notin GwSeed
                            /\ MaxGwFaults \in Nat

VARIABLES gwDeploy,   \* the options the process was started with
          gwKnown,    \* PublicSymbolMissRegistry._known
          gwFile,     \* the entries of the registry's file that can be read
          gwTorn,     \* the file ends in the middle of a line
          gwJob,      \* requests Symbolicator holds
          gwProven,   \* history: identities missing in the completed answer to a request
                      \* that Microsoft was asked for them
          gwBlind,    \* history: learning was switched on while Symbolicator held a
                      \* request that had been given no Microsoft source
          gwFaults    \* failures left to happen

gwVars == <<gwDeploy, gwKnown, gwFile, gwTorn, gwJob, gwProven, gwBlind, gwFaults>>

-----------------------------------------------------------------------------
GwIdentities == {GwIdentity[m] : m \in GwModules} \ {NoIdentity}
GwOptions == [workspace : BOOLEAN, microsoft : BOOLEAN, registry : BOOLEAN]

\* public: the request was given the Microsoft source, or would have been had there been
\* anything to ask; asked: the modules that source is asked for.
GwJobRow == [held : BOOLEAN, modules : SUBSET GwModules, asked : SUBSET GwModules, public : BOOLEAN]
NoGwJob == [held |-> FALSE, modules |-> {}, asked |-> {}, public |-> FALSE]

GwTypeOK == /\ gwDeploy \in GwOptions
            /\ gwKnown \subseteq GwIdentities \cup GwSeed
            /\ gwFile \subseteq GwIdentities
            /\ gwTorn \in BOOLEAN
            /\ gwJob \in [GwJobs -> GwJobRow]
            /\ gwProven \subseteq GwIdentities
            /\ gwBlind \in BOOLEAN
            /\ gwFaults \in Nat

\* PublicSymbolMissRegistry reads the seed and then its own file.
Loaded(d) == IF d.registry THEN GwSeed \cup gwFile ELSE {}

GwInit == /\ gwDeploy \in GwOptions
          /\ gwFile = {}
          /\ gwKnown = Loaded(gwDeploy)
          /\ gwTorn = FALSE
          /\ gwJob = [j \in GwJobs |-> NoGwJob]
          /\ gwProven = {}
          /\ gwBlind = FALSE
          /\ gwFaults = MaxGwFaults

-----------------------------------------------------------------------------
(* The sources of a request. *)

\* Mutant: a name that is known to be missing is missing in every version.
KnownByName(m) == \E i \in GwModules : GwIdentity[i] \in gwKnown /\ GwPath[i] = GwPath[m]

KnownMiss(m) == GwIdentity[m] \in gwKnown

\* A module without a path cannot be filtered for, and a request without any module of
\* the kind is not filtered at all.
FailsOpen(M) == \/ M \cap GwPe = {}
                \/ \E m \in M \cap GwPe : ~KnownMiss(m) /\ GwPath[m] = NoPath

PathPatterns(M) == {GwPath[m] : m \in {m \in M \cap GwPe : ~KnownMiss(m)}}

\* The modules of M that the Microsoft source, if it is given, is asked for.
AskedOf(M) == IF ~gwDeploy.registry \/ FailsOpen(M) THEN M
              ELSE {m \in M : GwPath[m] \in PathPatterns(M)}

\* Without workspace sources the request is forwarded as it came, and Symbolicator uses
\* sources of its own.
GivesMicrosoft == gwDeploy.workspace /\ gwDeploy.microsoft
Learns(d) == d.workspace /\ d.microsoft /\ d.registry

\* A request that fails validation is refused, and changes nothing.
Symbolicate(j, M) ==
    /\ ~gwJob[j].held
    /\ gwJob' = [gwJob EXCEPT ![j] =
          [held |-> TRUE, modules |-> M, public |-> GivesMicrosoft,
           asked |-> IF GivesMicrosoft THEN AskedOf(M) ELSE {}]]
    /\ UNCHANGED <<gwDeploy, gwKnown, gwFile, gwTorn, gwProven, gwBlind, gwFaults>>

-----------------------------------------------------------------------------
(* Answers. *)

IdentitiesOf(M) == {GwIdentity[m] : m \in M} \ {NoIdentity}

\* Entries are appended in some order: the first one is lost with the line it follows
\* when that is torn.
Appended(written) ==
    \E lost \in SUBSET written :
       /\ lost = {} <=> ~gwTorn \/ written = {}
       /\ Cardinality(lost) <= 1
       /\ gwFile' = gwFile \cup (written \ lost)

\* The append succeeds, or fails on its way: then memory alone has all of it.
Recorded(new) ==
    /\ gwKnown' = gwKnown \cup new
    /\ \/ /\ Appended(new)
          /\ gwTorn' = (gwTorn /\ new = {})
          /\ UNCHANGED gwFaults
       \/ /\ new # {} /\ gwFaults > 0
          /\ gwFaults' = gwFaults - 1
          /\ \E written \in SUBSET new :
               /\ written # new
               /\ Appended(written)
               /\ \/ gwTorn' = TRUE
                  \/ gwTorn' = (gwTorn /\ written = {})

\* The request came back, with or without having been polled for; it may be polled for
\* again.  Only a completed answer says which symbols are missing.
SymbolicatorAnswers(j, missing, completed) ==
    /\ gwJob[j].held
    /\ missing \subseteq gwJob[j].modules
    /\ gwProven' = IF completed THEN gwProven \cup IdentitiesOf(missing \cap gwJob[j].asked)
                                ELSE gwProven
    /\ \/ /\ Learns(gwDeploy) /\ completed
          /\ Recorded(IdentitiesOf(missing) \ gwKnown)
       \/ /\ ~(Learns(gwDeploy) /\ completed)
          /\ UNCHANGED <<gwKnown, gwFile, gwTorn, gwFaults>>
    /\ UNCHANGED <<gwDeploy, gwJob, gwBlind>>

\* Symbolicator forgets a request, or loses it.
JobForgotten(j) ==
    /\ gwJob[j].held
    /\ gwJob' = [gwJob EXCEPT ![j] = NoGwJob]
    /\ UNCHANGED <<gwDeploy, gwKnown, gwFile, gwTorn, gwProven, gwBlind, gwFaults>>

\* The process is started again, maybe with other options, after it ended or was killed
\* between two bytes of an append.
GatewayRestarts(d) ==
    /\ gwFaults > 0 /\ gwFaults' = gwFaults - 1
    /\ gwDeploy' = d
    /\ gwKnown' = Loaded(d)
    /\ gwBlind' = (gwBlind \/ (Learns(d) /\ \E j \in GwJobs : gwJob[j].held /\ ~gwJob[j].public))
    /\ UNCHANGED <<gwFile, gwTorn, gwJob, gwProven>>

GwNext ==
    \/ \E j \in GwJobs : \/ \E M \in SUBSET GwModules :
                               \/ Symbolicate(j, M)
                               \/ \E completed \in BOOLEAN : SymbolicatorAnswers(j, M, completed)
                         \/ JobForgotten(j)
    \/ \E d \in GwOptions : GatewayRestarts(d)

GwSpec == GwInit /\ [][GwNext]_gwVars

-----------------------------------------------------------------------------
(* Properties. *)

\* Identities that no module of another kind shares: what Microsoft is not asked for on
\* behalf of such a module is learned all the same.
PeIdentities == IdentitiesOf(GwPe) \ IdentitiesOf(GwModules \ GwPe)

\* What the gateway holds to be missing, in memory or on file, the seed says, or Microsoft
\* was asked for and a completed answer reported - unless a request that had been given no
\* Microsoft source was still in flight when learning was switched on.  And no module is
\* left out of a request to Microsoft for any other reason.
MissesAreProven ==
    GwTypeOK /\ (~gwBlind =>
       /\ (gwKnown \cup gwFile) \cap PeIdentities \subseteq GwSeed \cup gwProven
       /\ \A j \in GwJobs : gwJob[j].held /\ gwJob[j].public =>
             \A m \in (gwJob[j].modules \cap GwPe) \ gwJob[j].asked :
                GwIdentity[m] \in PeIdentities => GwIdentity[m] \in GwSeed \cup gwProven)
=============================================================================
