--------------------------- MODULE CodeGeneration ---------------------------
(***************************************************************************)
(* The writing of an application (generateMagiaApplication): a directory    *)
(* that did not exist is filled with artifacts one after the other, the     *)
(* manifest that lists them with their digests last.  A run may fail or be  *)
(* killed at any point; the developer of the application then starts it     *)
(* again, edits the one source that is his, or removes the directory, and   *)
(* the files with runtime inputs change.  One run is under way at a time.   *)
(***************************************************************************)
EXTENDS Integers, Sequences, FiniteSets, SequencesExt

CONSTANTS
  Requests,   \* what runs are started with
  Sources,    \* the files that runtime inputs are read from
  MaxRuns     \* bound on the runs

\* A request stands for the module and the options of a run: `accepted` says
\* that the module is collected and complete, `initializers` that the file with
\* the packed initializers has the size and the checksum the module states, and
\* `types` that the manifest has a name for the types of its inputs and outputs.
ASSUME CodeGenerationAssumption ==
  /\ \A r \in Requests :
       /\ r.inputs \subseteq Sources
       /\ IsFiniteSet(r.inputs) /\ IsFiniteSet(r.tiles)
       /\ {r.accepted, r.initializers, r.types} \subseteq BOOLEAN
  /\ ".initializers.bin" \notin Sources
  /\ MaxRuns \in Nat

VARIABLES
  run,      \* the number of runs started
  request,  \* of the run under way or the last one
  pc,       \* what the run does next
  left,     \* the directories or artifacts it has still to write
  made,     \* the directories that exist, "" being the output directory
  disk,     \* the files in them
  listed,   \* the generated files the manifest lists
  sources,  \* what the source of each runtime input holds
  changed   \* history, which no code keeps: the sources that changed after the last
            \* run that checked them and before it copied them

vars == <<run, request, pc, left, made, disk, listed, sources, changed>>

-----------------------------------------------------------------------------
(* Artifacts: files at a path, a triple of directory, stem and ending *)

\* Mutant of Directories: none for the sources of the tiles.
DirectoriesOfApplication == <<"", "include", "src", "data">>

Directories == <<"", "include", "src", "src/tiles", "data">>

Manifest == <<"", "manifest", ".json">>
UserSource == <<"src", "application", ".c">>

Artifact(dir, stem, ending, role) == [path |-> <<dir, stem, ending>>, role |-> role]

TileSources(r) ==
  LET tiles == SetToSeq(r.tiles)
  IN [n \in DOMAIN tiles |-> Artifact("src/tiles", "tile", tiles[n], "tile_plan")]

\* The ending of the artifact is the name of the input, and of its source.
RuntimeInputs(r) ==
  LET inputs == SetToSeq(r.inputs)
  IN [n \in DOMAIN inputs |-> Artifact("data", r.stem, inputs[n], "runtime_input_data")]

\* Mutant of Artifacts: the developer's source is named after the application.
ArtifactsOfOneName(r) ==
  << Artifact("", "CMakeLists", ".txt", "build_definition"),
     Artifact("", "README", ".md", "integration_guide"),
     Artifact("include", r.stem, ".h", "application_interface"),
     Artifact("src", r.stem, ".c", "application_data"),
     Artifact("src", r.stem, "_runner.c", "application_runner"),
     Artifact("src", r.stem, ".c", "application_source"),
     Artifact("src", r.stem, "_initializers.S.in", "initializer_assembly") >>
  \o TileSources(r)
  \o << Artifact("data", r.stem, ".initializers.bin", "initializer_data") >>
  \o RuntimeInputs(r)

\* In the order they are written.
Artifacts(r) ==
  << Artifact("", "CMakeLists", ".txt", "build_definition"),
     Artifact("", "README", ".md", "integration_guide"),
     Artifact("include", r.stem, ".h", "application_interface"),
     Artifact("src", r.stem, ".c", "application_data"),
     Artifact("src", r.stem, "_runner.c", "application_runner"),
     [path |-> UserSource, role |-> "application_source"],
     Artifact("src", r.stem, "_initializers.S.in", "initializer_assembly") >>
  \o TileSources(r)
  \o << Artifact("data", r.stem, ".initializers.bin", "initializer_data") >>
  \o RuntimeInputs(r)

Generated(r) == {a \in ToSet(Artifacts(r)) : a.role # "application_source"}

\* A file holds what run `by` wrote for a role, all of it or cut off, or what
\* the developer wrote (0).  An input holds all tokens or is short of some.
Contents(role, by, data) == [role |-> role, by |-> by, data |-> data]

With(path, contents) ==
  [p \in DOMAIN disk \cup {path} |-> IF p = path THEN contents ELSE disk[p]]

Has(path) == path \in DOMAIN disk

-----------------------------------------------------------------------------
Init ==
  /\ run = 0 /\ request \in Requests /\ pc = "idle" /\ left = <<>>
  /\ made \in {{}, {""}} /\ disk = <<>> /\ listed = {}
  /\ sources \in [Sources -> {"missing", "short", "whole"}] /\ changed = {}

Start(r) ==
  /\ pc = "idle" /\ run < MaxRuns
  /\ run' = run + 1 /\ request' = r /\ pc' = "checks"
  /\ UNCHANGED <<left, made, disk, listed, sources, changed>>

Fail == pc' = "idle" /\ UNCHANGED <<run, request, left, made, disk, listed, sources, changed>>

\* Mutant of OutputExists: a directory without a manifest does not count.
ManifestExists == Has(Manifest)

OutputExists == "" \in made

RefuseExisting == pc = "checks" /\ OutputExists /\ Fail

RefuseDescription == pc = "checks" /\ ~OutputExists /\ ~request.accepted /\ Fail

\* Mutant of RuntimeInputsFit: a file with the bytes of one token is taken.
RuntimeInputsAreThere == \A i \in request.inputs : sources[i] # "missing"

\* configureRuntimeInputs
RuntimeInputsFit == \A i \in request.inputs : sources[i] = "whole"

RefuseInputs ==
  pc = "checks" /\ ~OutputExists /\ request.accepted /\ ~RuntimeInputsFit /\ Fail

ConfigureInputs ==
  /\ pc = "checks" /\ ~OutputExists /\ request.accepted /\ RuntimeInputsFit
  /\ pc' = "initializers" /\ changed' = {}
  /\ UNCHANGED <<run, request, left, made, disk, listed, sources>>

RefuseInitializers == pc = "initializers" /\ ~request.initializers /\ Fail

ReadInitializers ==
  /\ pc = "initializers" /\ request.initializers
  /\ pc' = "directories" /\ left' = Directories
  /\ UNCHANGED <<run, request, made, disk, listed, sources, changed>>

\* create_directories does not mind a directory that exists.
MakeDirectory ==
  /\ pc = "directories" /\ left # <<>>
  /\ made' = made \cup {Head(left)} /\ left' = Tail(left)
  /\ UNCHANGED <<run, request, pc, disk, listed, sources, changed>>

EndDirectories ==
  /\ pc = "directories" /\ left = <<>>
  /\ pc' = "artifacts" /\ left' = Artifacts(request)
  /\ UNCHANGED <<run, request, made, disk, listed, sources, changed>>

IsRuntimeInput(a) == a.role = "runtime_input_data"

\* The file of a runtime input is read once more when it is copied.
Written(a) ==
  IF IsRuntimeInput(a) THEN Contents(a.role, run, sources[a.path[3]])
  ELSE Contents(a.role, run, "whole")

WriteArtifact ==
  /\ pc = "artifacts" /\ left # <<>>
  /\ Written(Head(left)).data # "missing"
  /\ disk' = With(Head(left).path, Written(Head(left))) /\ left' = Tail(left)
  /\ UNCHANGED <<run, request, pc, made, listed, sources, changed>>

FailToCopy ==
  pc = "artifacts" /\ left # <<>> /\ Written(Head(left)).data = "missing" /\ Fail

EndArtifacts ==
  /\ pc = "artifacts" /\ left = <<>>
  /\ pc' = "manifest"
  /\ UNCHANGED <<run, request, left, made, disk, listed, sources, changed>>

\* buildArtifactEntries digests what is on the disk.
Entry(a) == [path |-> a.path, role |-> a.role, digest |-> disk[a.path]]

\* The manifest has no name for the type of some tensors.
RefuseTypes == pc = "manifest" /\ ~request.types /\ Fail

\* writeApplicationManifest
WriteManifest ==
  /\ pc = "manifest" /\ request.types
  /\ \A a \in Generated(request) : Has(a.path)
  /\ listed' = {Entry(a) : a \in Generated(request)}
  /\ disk' = With(Manifest, Contents("application_manifest", run, "whole"))
  /\ pc' = "idle"
  /\ UNCHANGED <<run, request, left, made, sources, changed>>

\* A directory or a file cannot be written or read, or the generator is killed:
\* the file it was writing may be left cut off.
BreakOff ==
  /\ pc # "idle" /\ pc' = "idle"
  /\ \/ disk' = disk
     \/ /\ pc = "artifacts" /\ left # <<>>
        /\ disk' = With(Head(left).path, Contents(Head(left).role, run, "cut"))
     \/ /\ pc = "manifest"
        /\ disk' = With(Manifest, Contents("application_manifest", run, "cut"))
  /\ UNCHANGED <<run, request, left, made, listed, sources, changed>>

-----------------------------------------------------------------------------
(* The developer *)

EditSource ==
  /\ pc = "idle" /\ Has(UserSource) /\ disk[UserSource].by # 0
  /\ disk' = With(UserSource, Contents("application_source", 0, "whole"))
  /\ UNCHANGED <<run, request, pc, left, made, listed, sources, changed>>

RemoveOutput ==
  /\ pc = "idle" /\ made # {}
  /\ made' = {} /\ disk' = <<>> /\ listed' = {}
  /\ UNCHANGED <<run, request, pc, left, sources, changed>>

\* The run under way has checked the source and has not copied it yet.
Unread(i) ==
  \/ pc \in {"initializers", "directories"}
  \/ pc = "artifacts" /\ \E a \in ToSet(left) : IsRuntimeInput(a) /\ a.path[3] = i

ChangeSource(i) ==
  /\ \E data \in {"missing", "short", "whole"} : sources' = [sources EXCEPT ![i] = data]
  /\ changed' = IF Unread(i) THEN changed \cup {i} ELSE changed
  /\ UNCHANGED <<run, request, pc, left, made, disk, listed>>

Next ==
  \/ \E r \in Requests : Start(r)
  \/ RefuseExisting \/ RefuseDescription \/ RefuseInputs \/ RefuseInitializers
  \/ ConfigureInputs \/ ReadInitializers
  \/ MakeDirectory \/ EndDirectories
  \/ WriteArtifact \/ FailToCopy \/ EndArtifacts
  \/ RefuseTypes \/ WriteManifest
  \/ BreakOff
  \/ EditSource \/ RemoveOutput
  \/ \E i \in Sources : ChangeSource(i)

Spec == Init /\ [][Next]_vars

-----------------------------------------------------------------------------
(* Properties *)

Committed == Has(Manifest) /\ disk[Manifest].data = "whole"

Listed == {e.path : e \in listed}

\* A directory with a manifest is what the manifest says: every generated file
\* it lists is there, whole, as it was digested and written by the run that
\* wrote the manifest, and beside them there are only the developer's source
\* and the manifest.  This holds whatever earlier runs left behind and whatever
\* the developer did to his source (writeApplicationManifest is the last step
\* of generateMagiaApplication, which refuses an output that exists).
ManifestDescribesOutput ==
  Committed =>
    /\ \A e \in listed :
         /\ Has(e.path) /\ disk[e.path] = e.digest
         /\ e.digest.by = disk[Manifest].by /\ e.digest.data # "cut"
    /\ DOMAIN disk = Listed \cup {UserSource, Manifest}

\* Every listed file is what its role says, and the developer's source is not
\* listed among the files that are generated: "Only `src/application.c` is
\* developer-owned ... all other files are generated" (emitApplicationReadme).
FilesHoldTheirRoles ==
  Committed =>
    /\ \A e \in listed : e.digest.role = e.role
    /\ UserSource \notin Listed

\* The runtime inputs of a finished application hold all tokens, which the
\* emitted input hook reads without looking, but for those whose file changed
\* between the check of its size (configureRuntimeInputs) and the second reading
\* that copies it, which checks nothing (generateMagiaApplication): no change at
\* another time, of another file or between runs gets a short input listed.
InputsHoldEveryToken ==
  Committed =>
    \A e \in listed :
      IsRuntimeInput(e) /\ e.path[3] \notin changed => e.digest.data = "whole"

\* What the developer wrote stays until he removes the directory, however often
\* the generator is started and whatever state an earlier run left behind
\* (generateMagiaApplication, "application output already exists").
Edited == Has(UserSource) /\ disk[UserSource].by = 0
EditsAreKept == [][Edited => (Edited' \/ made' = {})]_vars

\* Files lie in directories that exist, and only an output directory that was
\* made has a manifest that lists anything.
TypeOK ==
  /\ run \in 0..MaxRuns /\ request \in Requests
  /\ pc \in {"idle", "checks", "initializers", "directories", "artifacts", "manifest"}
  /\ made \subseteq ToSet(Directories)
  /\ \A p \in DOMAIN disk : p[1] \in made /\ disk[p].by \in 0..run
  /\ listed # {} => Has(Manifest)
  /\ sources \in [Sources -> {"missing", "short", "whole"}]
  /\ changed \subseteq Sources
=============================================================================
