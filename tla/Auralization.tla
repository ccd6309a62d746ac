----------------------------- MODULE Auralization -----------------------------
(***************************************************************************)
(* The auralization of the web demo: the asynchronous functions of         *)
(* web/app.js that decode, install and play impulse responses, and the     *)
(* engine of web/auralization-engine.mjs.                                  *)
(*                                                                         *)
(* Every finished render makes a new version of the impulse response, with *)
(* or without a pair of portal responses.  A task is an invocation of      *)
(* startAuralizationPlayback (Start) or of installLatestImpulseResponse    *)
(* (the version it was requested for).  It runs from await to await;       *)
(* decodings, timers, clicks and renders come in between, but never before *)
(* the continuations of what has settled (Quiet).  Buffers are named by    *)
(* their version; gains are reduced to whether a branch is fading out.     *)
(***************************************************************************)
EXTENDS Naturals, FiniteSets

CONSTANTS
  MaxVersions,   \* bound on the impulse responses
  Absent         \* null

VARIABLES
  irVersion,    \* currentIRVersion, the version lastAuralizedWav holds
  portalWavs,   \* lastPortalResponseWavs is there
  buffer,       \* currentIRBuffer and currentPortalBuffers
  decodeOf,     \* the version of currentIRDecode and of currentPortalDecode
  awaits,       \* who awaits the decoding of each kind and version
  task,         \* what each task has of the three things it awaits
  starting,     \* auralizationStarting
  playing,      \* currentAuralizationPlaying
  response,     \* the response the engine holds: kind and version
  source,       \* the dry source of the engine: "none", "active" or "ended"
  branches,     \* the wet branches of the engine
  cleanup,      \* the branches the armed cleanup timer removes, or Absent
  naturalStop,  \* the natural stop timer is armed
  failed,       \* history: the installation of the latest version failed
  late          \* history: playback started with a response already outdated

audioVars == <<irVersion, portalWavs, buffer, decodeOf, awaits, task, starting, playing,
               response, source, branches, cleanup, naturalStop, failed, late>>
engineVars == <<response, source, branches, cleanup, naturalStop, late>>
decodeVars == <<buffer, decodeOf, awaits>>
renderVars == <<irVersion, portalWavs>>

Versions == 1 .. MaxVersions
Kinds == {"ir", "portal"}
Start == 0
Orphan == MaxVersions + 1     \* the other awaits of a task that has failed
Tasks == {Start} \cup Versions

Responses == Kinds \X Versions
Branches == [response : Responses, fading : BOOLEAN]

ASSUME AuralizationAssumption ==
  /\ MaxVersions \in Nat /\ Absent \notin 0 .. MaxVersions
  /\ \A set \in SUBSET Branches : set # Absent

\* What a task has of each: Waiting, or the buffer it was given (Absent for no
\* portal, and for the dry sample, whose buffer does not matter).
Waiting == 0
Idle == [ir |-> Absent, portal |-> Absent, dry |-> Absent]
Running(t) == task[t] # Idle
Awaited(t) == Running(t) /\ \A f \in DOMAIN task[t] : task[t][f] # Waiting
Quiet == \A t \in Tasks : ~Awaited(t)

AudioInit ==
  /\ irVersion = 0 /\ portalWavs = FALSE
  /\ buffer = [k \in Kinds |-> Absent]
  /\ decodeOf = [k \in Kinds |-> Absent]
  /\ awaits = [k \in Kinds |-> [v \in Versions |-> {}]]
  /\ task = [t \in Tasks |-> Idle]
  /\ starting = FALSE /\ playing = FALSE
  /\ response = Absent /\ source = "none" /\ branches = {}
  /\ cleanup = Absent /\ naturalStop = FALSE
  /\ failed = FALSE /\ late = FALSE

-----------------------------------------------------------------------------
(* The engine. *)

Branch(r) == [response |-> r, fading |-> FALSE]
Faded(set) == {[b EXCEPT !.fading = TRUE] : b \in set}

MutantOldBranches == {b \in branches : ~b.fading}    \* earlier fades are forgotten

\* The branches a crossfade starts from: all there are, the ones that are
\* already fading out as well.
OldBranches == branches

\* setImpulseResponse, setPortalResponses: new branches only while the dry
\* source plays.  The first crossfades and arms a cleanup timer in place of the
\* earlier ones, the second replaces the branches at once.
SetResponse(r) ==
  /\ response' = r
  /\ source' = source
  /\ late' = FALSE
  /\ IF source # "active" THEN UNCHANGED <<branches, cleanup, naturalStop>>
     ELSE /\ naturalStop' = TRUE
          /\ IF r[1] = "ir"
             THEN /\ branches' = {Branch(r)} \cup Faded(OldBranches) \cup (branches \ OldBranches)
                  /\ cleanup' = Faded(OldBranches)
             ELSE branches' = {Branch(r)} /\ cleanup' = cleanup

\* setImpulseResponse or setPortalResponses on an engine that is stopped, then
\* play.
SetAndPlay(r) ==
  /\ response' = r
  /\ source' = "active"
  /\ branches' = {Branch(r)}
  /\ cleanup' = Absent
  /\ naturalStop' = TRUE
  /\ late' = (r[2] # irVersion)

\* stop: both timers are cleared and the branches disconnected.
StopEngine ==
  /\ source' = "none" /\ branches' = {} /\ cleanup' = Absent /\ naturalStop' = FALSE
  /\ late' = FALSE
  /\ UNCHANGED response

\* The cleanup timer disconnects the branches its crossfade started from.
FadeEnds ==
  /\ Quiet /\ cleanup # Absent
  /\ cleanup' = Absent
  /\ branches' = branches \ cleanup
  /\ UNCHANGED <<renderVars, decodeVars, task, starting, playing, response, source,
                 naturalStop, failed, late>>

\* source.onended
SourceEnded ==
  /\ Quiet /\ source = "active"
  /\ source' = "ended"
  /\ UNCHANGED <<renderVars, decodeVars, task, starting, playing, response, branches,
                 cleanup, naturalStop, failed, late>>

\* The natural stop timer: stop(true) and onPlaybackEnded.
NaturalStop ==
  /\ Quiet /\ naturalStop
  /\ StopEngine
  /\ playing' = FALSE
  /\ UNCHANGED <<renderVars, decodeVars, task, starting, failed>>

-----------------------------------------------------------------------------
(* ensureIrAudioBuffer and ensurePortalAudioBuffers. *)

\* The callers get the buffer.
Return(k, callers, value) ==
  /\ task' = [t \in Tasks |-> IF t \in callers THEN [task[t] EXCEPT ![k] = value] ELSE task[t]]
  /\ UNCHANGED <<starting, playing, engineVars, failed>>

\* The promises of the callers are rejected: each ends in its catch clause,
\* while what else it called goes on.
Fail(callers, queues) ==
  /\ task' = [t \in Tasks |-> IF t \in callers THEN Idle ELSE task[t]]
  /\ awaits' = [k \in Kinds |-> [v \in Versions |->
                  IF queues[k][v] \cap callers = {} THEN queues[k][v]
                  ELSE (queues[k][v] \ callers) \cup {Orphan}]]
  /\ failed' = (failed \/ irVersion \in callers)
  /\ IF Start \in callers
     THEN starting' = FALSE /\ playing' = FALSE /\ StopEngine
     ELSE UNCHANGED <<starting, playing, engineVars>>

\* version === currentIRVersion, after the await.
Keep(v) == v = irVersion

\* The decoding that the callers await settles.  If it is the current one they
\* return its buffer or fail, and a failed decoding may be tried again.  If it
\* is not, they look at the head of their loop for the buffer of the current
\* version and await its decoding, which the first of them starts; there is
\* nothing to decode in a version without portal responses, and they fail.
Decoded(k, v) ==
  LET callers == awaits[k][v]
      rest == [awaits EXCEPT ![k][v] = {}]
  IN
  /\ Quiet /\ callers # {}
  /\ \/ /\ Keep(v)
        /\ buffer' = [buffer EXCEPT ![k] = v]
        /\ awaits' = rest
        /\ Return(k, callers, v)
        /\ UNCHANGED decodeOf
     \/ /\ v = irVersion
        /\ decodeOf' = [decodeOf EXCEPT ![k] = Absent]
        /\ Fail(callers \ {Orphan}, rest)
        /\ UNCHANGED buffer
     \/ /\ ~Keep(v) /\ buffer[k] # Absent
        /\ awaits' = rest
        /\ Return(k, callers, buffer[k])
        /\ UNCHANGED <<buffer, decodeOf>>
     \/ /\ ~Keep(v) /\ buffer[k] = Absent
        /\ k = "portal" => portalWavs
        /\ decodeOf' = [decodeOf EXCEPT ![k] = irVersion]
        /\ awaits' = [rest EXCEPT ![k][irVersion] = @ \cup callers]
        /\ UNCHANGED <<buffer, task, starting, playing, engineVars, failed>>
     \/ /\ ~Keep(v) /\ buffer[k] = Absent
        /\ k = "portal" /\ ~portalWavs
        /\ Fail(callers \ {Orphan}, rest)
        /\ UNCHANGED <<buffer, decodeOf>>
  /\ UNCHANGED renderVars

-----------------------------------------------------------------------------
(* The tasks. *)

MutantUpdateAudio(portal) ==      \* a playing engine keeps its response
  /\ Quiet /\ irVersion < MaxVersions
  /\ irVersion' = irVersion + 1
  /\ portalWavs' = portal
  /\ buffer' = [k \in Kinds |-> Absent]
  /\ decodeOf' = [k \in Kinds |-> Absent]
  /\ failed' = FALSE
  /\ UNCHANGED <<awaits, task, starting, playing, engineVars>>

\* updateAudio, with the result of a render.  While the engine plays it starts
\* an installation, which starts the decoding: of the portal responses too if
\* they came and the scene has its portal enabled.
UpdateAudio(portal) ==
  /\ Quiet /\ irVersion < MaxVersions
  /\ irVersion' = irVersion + 1
  /\ portalWavs' = portal
  /\ buffer' = [k \in Kinds |-> Absent]
  /\ IF source = "none"
     THEN /\ decodeOf' = [k \in Kinds |-> Absent]
          /\ UNCHANGED <<awaits, task>>
     ELSE \E enabled \in {FALSE, portal} :
            LET wanted == IF enabled THEN Kinds ELSE {"ir"} IN
            /\ decodeOf' = [k \in Kinds |-> IF k \in wanted THEN irVersion' ELSE Absent]
            /\ awaits' = [k \in Kinds |->
                            IF k \in wanted THEN [awaits[k] EXCEPT ![irVersion'] = {irVersion'}]
                            ELSE awaits[k]]
            /\ task' = [task EXCEPT ![irVersion'] =
                          [ir |-> Waiting, portal |-> IF enabled THEN Waiting ELSE Absent,
                           dry |-> Absent]]
  /\ failed' = FALSE
  /\ UNCHANGED <<starting, playing, engineVars>>

\* A click on Play, which is disabled while playback starts or no response is
\* there; the audio context may have to be resumed.
StartPlayback ==
  /\ Quiet /\ ~starting /\ ~playing /\ irVersion > 0
  /\ starting' = TRUE
  /\ UNCHANGED <<renderVars, decodeVars, task, playing, engineVars, failed>>

\* The audio context runs: the buffers are taken or their decoding is awaited
\* and, if nobody has, started; the dry sample is loaded.
ContextRuns ==
  /\ Quiet /\ starting /\ ~Running(Start)
  /\ \E enabled \in {FALSE, portalWavs} :
       LET wanted == IF enabled THEN Kinds ELSE {"ir"}
           decode == {k \in wanted : buffer[k] = Absent}
           got(k) == IF k \in decode THEN Waiting ELSE IF k \in wanted THEN buffer[k] ELSE Absent
       IN
       /\ decodeOf' = [k \in Kinds |-> IF k \in decode THEN irVersion ELSE decodeOf[k]]
       /\ awaits' = [k \in Kinds |->
                       IF k \in decode THEN [awaits[k] EXCEPT ![irVersion] = @ \cup {Start}]
                       ELSE awaits[k]]
       /\ task' = [task EXCEPT ![Start] =
                     [ir |-> got("ir"), portal |-> got("portal"), dry |-> Waiting]]
  /\ UNCHANGED <<renderVars, buffer, starting, playing, engineVars, failed>>

\* The audio context cannot be made or resumed.
ContextFails ==
  /\ Quiet /\ starting /\ ~Running(Start)
  /\ Fail({Start}, awaits)
  /\ UNCHANGED <<renderVars, buffer, decodeOf>>

\* dryAudioLoader.load settles.
DryLoaded ==
  /\ Quiet /\ task[Start].dry = Waiting
  /\ \/ Return("dry", {Start}, Absent) /\ UNCHANGED awaits
     \/ Fail({Start}, awaits)
  /\ UNCHANGED <<renderVars, buffer, decodeOf>>

\* A click on Stop.
StopPlayback ==
  /\ Quiet /\ playing
  /\ StopEngine
  /\ playing' = FALSE
  /\ UNCHANGED <<renderVars, decodeVars, task, starting, failed>>

\* The response the buffers of a task amount to.
Buffers(t) ==
  IF task[t].portal # Absent THEN <<"portal", task[t].portal>> ELSE <<"ir", task[t].ir>>

\* startAuralizationPlayback after its awaits.
PlaybackStarts ==
  /\ Awaited(Start)
  /\ SetAndPlay(Buffers(Start))
  /\ playing' = TRUE /\ starting' = FALSE
  /\ task' = [task EXCEPT ![Start] = Idle]
  /\ UNCHANGED <<renderVars, decodeVars, failed>>

\* installLatestImpulseResponse after its awaits: it gives way to a newer one.
Install(t) ==
  /\ t # Start /\ Awaited(t)
  /\ IF t = irVersion THEN SetResponse(Buffers(t)) ELSE UNCHANGED engineVars
  /\ task' = [task EXCEPT ![t] = Idle]
  /\ UNCHANGED <<renderVars, decodeVars, starting, playing, failed>>

AudioStep ==
  \/ \E k \in Kinds, v \in Versions : Decoded(k, v)
  \/ StartPlayback \/ ContextRuns \/ ContextFails \/ DryLoaded \/ PlaybackStarts \/ StopPlayback
  \/ \E t \in Tasks : Install(t)
  \/ FadeEnds \/ SourceEnded \/ NaturalStop

-----------------------------------------------------------------------------
(* Properties. *)

\* While the dry source plays and no task is under way, the engine convolves
\* with the response of the latest render, unless its installation failed.
PlaysLatest ==
  source = "active" /\ (\A t \in Tasks : ~Running(t))
    => response[2] = irVersion \/ failed

\* PlaysLatest for every render that finishes while the engine plays, rather than
\* while playback starts (late): in whatever order the decodings of several
\* versions settle, the last version is the one left (app.js:1195-1250).
InstallsLatest == ~late => PlaysLatest

\* Once a crossfade is cleaned up, the engine is connected to the response it
\* holds and to nothing else, however many crossfades overlapped.
OneResponseSounds ==
  source = "active" /\ cleanup = Absent => branches = {Branch(response)}

-----------------------------------------------------------------------------
(* The inductive invariant. *)

TaskStates == [ir : 0 .. MaxVersions \cup {Absent}, portal : 0 .. MaxVersions \cup {Absent},
               dry : {Waiting, Absent}]

AudioTypeOK ==
  /\ irVersion \in 0 .. MaxVersions
  /\ portalWavs \in BOOLEAN /\ starting \in BOOLEAN /\ playing \in BOOLEAN
  /\ naturalStop \in BOOLEAN /\ failed \in BOOLEAN /\ late \in BOOLEAN
  /\ buffer \in [Kinds -> Versions \cup {Absent}]
  /\ decodeOf \in [Kinds -> Versions \cup {Absent}]
  /\ awaits \in [Kinds -> [Versions -> SUBSET (0 .. Orphan)]]
  /\ task \in [Tasks -> TaskStates]
  /\ response \in Responses \cup {Absent}
  /\ source \in {"none", "active", "ended"}
  /\ branches \in SUBSET Branches
  /\ cleanup = Absent \/ cleanup \in SUBSET Branches

\* A promise settles once: who awaits a decoding awaits no other of its kind and
\* has not been given it yet.
AwaitsInv ==
  /\ \A k \in Kinds, v \in Versions : v > irVersion => awaits[k][v] = {}
  /\ \A k \in Kinds, v \in Versions : \A t \in Tasks \cap awaits[k][v] :
       task[t][k] = Waiting /\ \A w \in Versions : t \in awaits[k][w] => w = v

\* A task that runs has or awaits an impulse response; versions to come have no
\* task; the buffers are those of the current version, and the task of that
\* version is given no others.
TasksInv ==
  /\ starting => irVersion > 0
  /\ \A t \in Tasks : task[t].ir = Absent => task[t] = Idle
  /\ \A t \in Tasks : t > irVersion => task[t] = Idle
  /\ \A k \in Kinds : buffer[k] \in {Absent, irVersion}
  /\ irVersion > 0 => \A k \in Kinds : task[irVersion][k] \in {Absent, Waiting, irVersion}

\* Besides the branch of the response only those sound that the armed timer
\* removes, and it removes no other.
EngineInv ==
  /\ source = "active" =>
       /\ response \in Responses /\ Branch(response) \in branches
       /\ branches \subseteq {Branch(response)} \cup (IF cleanup = Absent THEN {} ELSE cleanup)
  /\ cleanup # Absent => \A b \in cleanup : b.fading

\* A response that is behind is being replaced, or could not be.
LatestInv ==
  source = "active" /\ ~late =>
    response[2] = irVersion \/ failed \/ (irVersion > 0 /\ Running(irVersion))

AudioIInv == AudioTypeOK /\ AwaitsInv /\ TasksInv /\ EngineInv /\ LatestInv
=============================================================================
