------------------------------ MODULE Workbench ------------------------------
(***************************************************************************)
(* The quant nodes' sandbox, the mixtures it registers and who reads them: *)
(* run_python, quant/executor.py, the run's artifact store and             *)
(* agent/publish_surface.py.                                               *)
(*                                                                         *)
(* A call of run_python runs without a pause up to the spawn of its child: *)
(* it is counted, its script is written and the outputs are hashed.  The   *)
(* call then waits, and everything else may run: sibling calls of the same *)
(* node, other nodes, whose ids may collapse to the same directory, and    *)
(* the child, a script nobody has read, which may write or remove any      *)
(* output at any time.  What happens after the child ended is one step     *)
(* again: outputs whose hash changed are parsed, guarded and registered,   *)
(* or put in place of what the same file was registered as before.  A node *)
(* that runs out of time is cancelled, and its child is left running.      *)
(*                                                                         *)
(* The readers of the store run in between: a forecast node has a mixture  *)
(* simulated and validated, submits it, and the run publishes what was     *)
(* accepted.  The simulation is done once per artifact and run.            *)
(*                                                                         *)
(* Of a script's text only what it writes and how it ends is kept; which   *)
(* of two siblings' scripts a child runs when they race for _runner.py     *)
(* makes no difference here, since each may write anything.  The mixture   *)
(* the runtime registers when a run starts belongs to no file and is left  *)
(* out.                                                                    *)
(***************************************************************************)
EXTENDS AuditPolicy, FiniteSets, Sequences, SequencesExt

CONSTANTS
    Nodes,       \* quant nodes of a run
    Calls,       \* run_python calls
    Actor,       \* the node that makes a call
    Dir,         \* _safe_dir_name of a node's id
    Files,       \* names of output files
    ReadBack,    \* a file's name as an artifact's summary gives it back
    Mixtures,    \* what a file may hold that has the shape of a mixture
    Payload,     \* what a mixture says, in the terms of AuditPolicy
    Empty,       \* no such file
    Junk,        \* a file that cannot be parsed or is no mixture
    Outputs,     \* what scripts leave in a file (TLC's bound: anything, in the code)
    CallLimit    \* settings.graph_quant_python_call_limit; 0 is no limit

Dirs == {Dir[n] : n \in Nodes}

ASSUME WorkbenchAssumption ==
    /\ Actor \in [Calls -> Nodes]
    /\ {Junk, Empty} \cap Mixtures = {} /\ Junk # Empty
    /\ CallLimit \in Nat
    /\ IsFiniteSet(Files)
    /\ Files = DOMAIN ReadBack
    /\ Outputs \in [Files -> SUBSET (Mixtures \cup {Junk, Empty})]

VARIABLES
    used,       \* python_calls of a node
    call,       \* where a call is
    child,      \* calls whose child process is alive
    before,     \* the outputs as a call found them
    disk,       \* the outputs in a directory
    store,      \* the run's mixture artifacts, by number
    quiet,      \* artifacts whose last registration gave no warning
    surface,    \* publish_surface_by_artifact: the mixture an artifact was simulated as
    clean,      \* artifacts a submission that was found clean cites
    accepted,   \* <<>>, or the artifact that was accepted and the surface it was shown with
    snapshot    \* <<>>, or the mixture the probabilities are of and the one the audit is of

nodeVars == <<used, call, child, before, disk>>
storeVars == <<store, quiet>>
deskVars == <<surface, clean, accepted, snapshot>>
vars == <<nodeVars, storeVars, deskVars>>

Waiting == {"running", "ok", "no_result", "failed"}
NothingSeen == [f \in Files |-> Empty]

SelfContradicting == {m \in Mixtures : Contradicts(Payload[m])}
QuietMixtures == {m \in Mixtures : Unwarned(Payload[m])}
Submittable ==
    {m \in Mixtures : \E s \in Citation : QuantIssues(Payload[m], s) = {}}

Init ==
    /\ used = [n \in Nodes |-> 0]
    /\ call = [c \in Calls |-> "idle"]
    /\ child = {}
    /\ before = [c \in Calls |-> NothingSeen]
    /\ disk = [d \in Dirs |-> NothingSeen]
    /\ store = <<>>
    /\ quiet = {}
    /\ surface = <<>> /\ clean = {} /\ accepted = <<>> /\ snapshot = <<>>

Home(c) == Dir[Actor[c]]

-----------------------------------------------------------------------------
(* A call, up to the spawn of its child.                                     *)

OverLimit(n) == CallLimit > 0 /\ used[n] >= CallLimit

\* The limit, or a market helper the run cannot serve.
Refused(c) ==
    /\ call[c] = "idle"
    /\ call' = [call EXCEPT ![c] = "done"]
    /\ UNCHANGED <<used, child, before, disk, storeVars, deskVars>>

\* charge_quant raises, or the spawn fails: the script has been written.
Stillborn(c) ==
    /\ call[c] = "idle" /\ ~OverLimit(Actor[c])
    /\ used' = [used EXCEPT ![Actor[c]] = @ + 1]
    /\ call' = [call EXCEPT ![c] = "done"]
    /\ UNCHANGED <<child, before, disk, storeVars, deskVars>>

Start(c) ==
    /\ call[c] = "idle" /\ ~OverLimit(Actor[c])
    /\ used' = [used EXCEPT ![Actor[c]] = @ + 1]
    /\ before' = [before EXCEPT ![c] = disk[Home(c)]]
    /\ call' = [call EXCEPT ![c] = "running"]
    /\ child' = child \cup {c}
    /\ UNCHANGED <<disk, storeVars, deskVars>>

-----------------------------------------------------------------------------
(* The child, and its end.                                                   *)

ChildWrites(c) ==
    /\ c \in child
    /\ \E f \in Files : \E v \in Outputs[f] : disk' = [disk EXCEPT ![Home(c)][f] = v]
    /\ UNCHANGED <<used, call, child, before, storeVars, deskVars>>

\* A clean exit with a result, one without, or any other; an orphan just ends.
ChildEnds(c) ==
    /\ c \in child
    /\ child' = child \ {c}
    /\ \E end \in {"ok", "no_result", "failed"} :
          call' = [call EXCEPT ![c] = IF @ = "running" THEN end ELSE @]
    /\ UNCHANGED <<used, before, disk, storeVars, deskVars>>

\* The executor's own clock: the child's whole session is killed.
TimesOut(c) ==
    /\ call[c] = "running"
    /\ child' = child \ {c}
    /\ call' = [call EXCEPT ![c] = "failed"]
    /\ UNCHANGED <<used, before, disk, storeVars, deskVars>>

\* _bounded gives up on the node; the cancellation does not reach the child.
CancelNode(n) ==
    /\ \E c \in Calls : Actor[c] = n /\ call[c] \in Waiting
    /\ call' = [c \in Calls |-> IF Actor[c] = n /\ call[c] # "done" THEN "cancelled" ELSE call[c]]
    /\ before' = [c \in Calls |-> IF Actor[c] = n THEN NothingSeen ELSE before[c]]
    /\ UNCHANGED <<used, child, disk, storeVars, deskVars>>

-----------------------------------------------------------------------------
(* The rest of run_python, after the child has ended.                        *)

\* The outputs whose hash is not the one the call found.
Listed(c) == {f \in Files : disk[Home(c)][f] \notin {Empty, before[c][f]}}

\* What the child of another call may write between the hash and the read.
Rewritable(c) ==
    {f \in Files : disk[Home(c)][f] # Empty /\ \E other \in child : Home(other) = Home(c)}

\* Mutant of Sound: the branch audit is left to the validator.
SoundUnguarded(c, f) == disk[Home(c)][f] \in Mixtures

\* What _register_mixtures takes: a mixture that does not contradict itself.
Sound(c, f) == disk[Home(c)][f] \in Mixtures \ SelfContradicting

\* Mutant of Known: asks only for files that were there when the call began.
KnownIfFound(c, f) ==
    {id \in DOMAIN store : /\ store[id].file[1] = Home(c) /\ ReadBack[store[id].file[2]] = f
                           /\ before[c][f] # Empty}

\* The artifacts that are taken for a file's: a summary is "<dir>/<file>: <text>", and
\* what is read back of it ends at its first colon.
Known(c, f) ==
    {id \in DOMAIN store : store[id].file[1] = Home(c) /\ ReadBack[store[id].file[2]] = f}

\* Of several, the one that was added last.
Amended(c, f) == {id \in Known(c, f) : \A other \in Known(c, f) : other <= id}

Register(c, files) ==
    LET sound == {f \in files : Sound(c, f)}
        new == SetToSeq({f \in sound : Known(c, f) = {}})
        Read(f) == disk[Home(c)][f]
        amended == [id \in DOMAIN store |->
                      IF \E f \in sound : id \in Amended(c, f)
                      THEN [store[id] EXCEPT !.payload = Read(ReadBack[store[id].file[2]])]
                      ELSE store[id]]
    IN  store' = amended \o [i \in DOMAIN new |->
                                [file |-> <<Home(c), new[i]>>, payload |-> Read(new[i])]]

\* add and amend_payload are followed by _audit_gap_warning; an artifact that
\* already holds the payload is passed over.
Warn ==
    quiet' = {id \in DOMAIN store' :
                IF id \in DOMAIN store /\ store'[id] = store[id]
                THEN id \in quiet ELSE store'[id].payload \in QuietMixtures}

\* A clean script registers unless its outputs are over the cap; one that
\* forgot its result registers even then.
Return(c) ==
    /\ call[c] \in {"ok", "no_result", "failed"}
    /\ call' = [call EXCEPT ![c] = "done"]
    /\ before' = [before EXCEPT ![c] = NothingSeen]
    /\ \/ /\ call[c] # "failed"
          /\ \E raced \in SUBSET Rewritable(c) : Register(c, Listed(c) \cup raced)
          /\ Warn
       \/ call[c] # "no_result" /\ UNCHANGED storeVars
    /\ UNCHANGED <<used, child, disk, deskVars>>

-----------------------------------------------------------------------------
(* The forecast node and the end of the run.                                 *)

\* Mutant of Surface: simulated afresh for every reader.
SurfaceAfresh(id) == store[id].payload

\* publish_surface: what an artifact was simulated as stays, however it is amended.
Surface(id) == IF id \in DOMAIN surface THEN surface[id] ELSE store[id].payload

\* validation_report has the surface simulated, unless the payload cannot be; what
\* it finds clean may be held for the referee, a steelman or the runner's last resort.
Check(id) ==
    /\ surface' = IF id \in DOMAIN surface \/ Buildable(Payload[store[id].payload])
                  THEN [i \in {id} \cup DOMAIN surface |-> Surface(i)] ELSE surface
    /\ clean' = IF store[id].payload \in Submittable THEN clean \cup {id} ELSE clean
    /\ UNCHANGED <<nodeVars, storeVars, accepted, snapshot>>

\* Nothing is validated again; the runner may re-open the forecast, so not only once.
Accept(id) ==
    /\ id \in clean
    /\ accepted' = <<id, Surface(id)>>
    /\ UNCHANGED <<nodeVars, storeVars, surface, clean, snapshot>>

\* _build_snapshot, once run_graph has returned: the probabilities are the surface's,
\* the audit and the conditionals are read from the store.
Publish ==
    /\ accepted # <<>> /\ \A c \in Calls : call[c] \notin Waiting
    /\ LET id == accepted[1] IN snapshot' = <<Surface(id), store[id].payload>>
    /\ UNCHANGED <<nodeVars, storeVars, surface, clean, accepted>>

-----------------------------------------------------------------------------
Next ==
    /\ snapshot = <<>>
    /\ \/ \E c \in Calls :
             \/ Refused(c) \/ Stillborn(c) \/ Start(c)
             \/ ChildWrites(c) \/ ChildEnds(c) \/ TimesOut(c)
             \/ Return(c)
       \/ \E n \in Nodes : CancelNode(n)
       \/ \E id \in DOMAIN store : Check(id) \/ Accept(id)
       \/ Publish

WorkbenchSpec == Init /\ [][Next]_vars

-----------------------------------------------------------------------------
(* However many calls share a directory, a file is one artifact: what a      *)
(* later script writes to it corrects the artifact a forecast may already    *)
(* cite and never registers a rival (run_python.py, _register_mixtures).     *)
(* Said of the files whose name an artifact's summary gives back whole; one  *)
(* with a colon, which scenario_mixture takes as it takes any name, is a new *)
(* artifact at every change, and the code breaks the sentence there.         *)
OneArtifactPerFile ==
    \A i, j \in DOMAIN store :
        i # j /\ store[i].file = store[j].file => ReadBack[store[i].file[2]] # store[i].file[2]

\* Mixtures some submission would be sent back with for contradicting themselves.
SelfInconsistent ==
    {m \in Mixtures :
        \E s \in Citation : "branch_audit_self_inconsistent" \in QuantIssues(Payload[m], s)}

(* No mixture of the store keeps a world its own branch audit killed, after  *)
(* any sequence of registrations and corrections, so that the validator's    *)
(* branch_audit_self_inconsistent never ends a forecast (run_python.py,      *)
(* artifacts.py, validator.py).                                              *)
KilledStayDead == \A id \in DOMAIN store : store[id].payload \notin SelfInconsistent

\* Large mixtures some submission is sent back with, or passed with, against what
\* Overlooked and AsksMore say.
Unexplained ==
    {m \in Mixtures :
        /\ IsLargeNonBase(Payload[m])
        /\ \E s \in Citation :
              ~(QuantIssues(Payload[m], s) # {}
                  <=> Overlooked(Payload[m]) \/ AsksMore(Payload[m], s))}

(* A large mixture whose last registration gave no warning is sent back to a *)
(* quant node exactly when its payload holds what the guard never asks for   *)
(* (a world with fixed probabilities, a malformed row, priced items without  *)
(* a ledger_pricing row) or the submission asks for more than the payload    *)
(* has; never for a row the guard asks for, nor for a branch it refuses      *)
(* (audit_policy.py and validator.py, through every amendment).              *)
QuietIsSentBackForCause == \A id \in quiet : store[id].payload \notin Unexplained

(* The probabilities that are published are those the accepted submission    *)
(* was validated and shown with, whatever later scripts, siblings or orphans *)
(* put in place of the mixture in the meantime: publish_surface replays "the *)
(* exact title surface a submitted artifact will publish".                   *)
PublishedAsShown == snapshot # <<>> => snapshot[1] = accepted[2]

=============================================================================
