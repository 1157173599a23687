---------------------------- MODULE ManifestProofs ----------------------------
(***************************************************************************)
(* The source of the developer is never overwritten, and what a directory   *)
(* with a manifest holds, for all requests, every sequence of runs,         *)
(* failures and edits.                                                      *)
(***************************************************************************)
EXTENDS CodeGeneration, FiniteSetTheorems, SequenceTheorems, TLAPS

-----------------------------------------------------------------------------
(* The developer's source is never overwritten *)

\* Runs are numbered from 1, so that no run writes as the developer (0).
Numbered == run \in Nat /\ (pc # "idle" => run > 0)

\* The developer's source lies in an output directory, ...
Sheltered == Has(UserSource) => "" \in made

\* ... which a run makes before it writes any file, ...
DirectoryFirst ==
  /\ pc = "directories" => left = Directories \/ "" \in made
  /\ pc \in {"artifacts", "manifest"} => "" \in made

\* ... and from the check that there is none until it ends no source there is
\* the developer's.
Untouched ==
  pc \in {"initializers", "directories", "artifacts", "manifest"} => ~Edited

IInv == Numbered /\ Sheltered /\ DirectoryFirst /\ Untouched

\* The files after one was written (writeTextArtifact, writeBinaryArtifact).
LEMMA WithFile ==
  ASSUME NEW path, NEW contents
  PROVE  /\ DOMAIN With(path, contents) = DOMAIN disk \cup {path}
         /\ With(path, contents)[path] = contents
         /\ \A p \in DOMAIN disk \ {path} : With(path, contents)[p] = disk[p]
  BY DEF With

\* A file that a run writes is not the developer's, and the others stay what
\* they were (the stages that write, from the application text to the manifest).
LEMMA RunsDoNotEdit ==
  ASSUME Numbered, pc # "idle", ~Edited,
         NEW path, NEW role, NEW data, disk' = With(path, Contents(role, run, data))
  PROVE  ~Edited'
<1>. DEFINE contents == Contents(role, run, data)
<1>0. /\ DOMAIN disk' = DOMAIN disk \cup {path} /\ disk'[path] = contents
      /\ \A p \in DOMAIN disk \ {path} : disk'[p] = disk[p]
  BY DEF With
<1>1. CASE path = UserSource
  <2>1. contents.by = run
    BY DEF Contents
  <2>. QED  BY <1>0, <1>1, <2>1 DEF Edited, Numbered
<1>2. CASE path # UserSource
  <2>1. UserSource \in DOMAIN disk' =>
           UserSource \in DOMAIN disk /\ disk'[UserSource] = disk[UserSource]
    BY <1>0, <1>2
  <2>. QED  BY <2>1 DEF Edited, Has
<1>. QED  BY <1>1, <1>2

\* Nothing is written and nothing started yet, whatever directory there is.
LEMMA InitInvariant ==
  ASSUME Init
  PROVE  IInv
<1>1. DOMAIN disk = {}
  <2>1. disk = <<>>
    BY DEF Init
  <2>2. DOMAIN <<>> = 1..Len(<<>>)
    OBVIOUS
  <2>. QED  BY <2>1, <2>2
<1>. QED
  BY <1>1 DEF Init, IInv, Numbered, Sheltered, DirectoryFirst, Untouched, Has

\* The steps that change neither a file nor a directory, outside the check of
\* the output: where the run was, or further on, or at its end.
LEMMA QuietStep ==
  ASSUME IInv, UNCHANGED <<run, made, disk>>,
         pc' = "idle" \/ UNCHANGED <<pc, left>>
  PROVE  IInv'
  BY DEF IInv, Numbered, Sheltered, DirectoryFirst, Untouched, Edited, Has

\* Every step of a run and of the developer keeps the invariant.
LEMMA NextInvariant ==
  ASSUME IInv, [Next]_vars
  PROVE  IInv'
<1>. USE DEF IInv
<1>1. ASSUME NEW r \in Requests, Start(r)
      PROVE  IInv'
  <2>1. Numbered'
    BY <1>1 DEF Start, Numbered
  <2>2. Sheltered'
    BY <1>1 DEF Start, Sheltered, Has
  <2>. QED  BY <1>1, <2>1, <2>2 DEF Start, DirectoryFirst, Untouched
<1>2. CASE \/ RefuseExisting \/ RefuseDescription \/ RefuseInputs
           \/ RefuseInitializers \/ FailToCopy \/ RefuseTypes
  BY <1>2, QuietStep
     DEF RefuseExisting, RefuseDescription, RefuseInputs, RefuseInitializers,
         FailToCopy, RefuseTypes, Fail
<1>3. CASE ConfigureInputs
  <2>1. ~Edited
    BY <1>3 DEF ConfigureInputs, OutputExists, Sheltered, Edited
  <2>. QED
    BY <1>3, <2>1
       DEF ConfigureInputs, Numbered, Sheltered, DirectoryFirst, Untouched, Edited, Has
<1>4. CASE ReadInitializers
  BY <1>4 DEF ReadInitializers, Numbered, Sheltered, DirectoryFirst, Untouched, Edited, Has
<1>5. CASE MakeDirectory
  <2>1. "" \in made => "" \in made'
    BY <1>5 DEF MakeDirectory
  <2>2. left = Directories => "" \in made'
    <3>1. Head(Directories) = ""
      BY DEF Directories
    <3>. QED  BY <1>5, <3>1 DEF MakeDirectory
  <2>3. "" \in made'
    BY <1>5, <2>1, <2>2 DEF MakeDirectory, DirectoryFirst
  <2>. QED
    BY <1>5, <2>3
       DEF MakeDirectory, Numbered, Sheltered, DirectoryFirst, Untouched, Edited, Has
<1>6. CASE EndDirectories
  <2>1. "" \in made
    BY <1>6 DEF EndDirectories, DirectoryFirst, Directories
  <2>. QED
    BY <1>6, <2>1
       DEF EndDirectories, Numbered, Sheltered, DirectoryFirst, Untouched, Edited, Has
<1>7. CASE WriteArtifact
  <2>1. PICK role, data : disk' = With(Head(left).path, Contents(role, run, data))
    BY <1>7 DEF WriteArtifact, Written
  <2>2. ~Edited'
    BY <1>7, <2>1, RunsDoNotEdit DEF WriteArtifact, Untouched
  <2>. QED
    BY <1>7, <2>2 DEF WriteArtifact, Numbered, Sheltered, DirectoryFirst, Untouched
<1>8. CASE EndArtifacts
  BY <1>8 DEF EndArtifacts, Numbered, Sheltered, DirectoryFirst, Untouched, Edited, Has
<1>9. CASE WriteManifest
  BY <1>9 DEF WriteManifest, Numbered, Sheltered, DirectoryFirst, Untouched
<1>10. CASE BreakOff
  <2>1. disk' # disk => "" \in made
    BY <1>10 DEF BreakOff, DirectoryFirst
  <2>2. Sheltered'
    BY <1>10, <2>1 DEF BreakOff, Sheltered, Has
  <2>. QED
    BY <1>10, <2>2 DEF BreakOff, Numbered, DirectoryFirst, Untouched
<1>11. CASE EditSource
  BY <1>11, WithFile DEF EditSource, Numbered, Sheltered, DirectoryFirst, Untouched, Has
<1>12. CASE RemoveOutput
  <2>1. DOMAIN disk' = {}
    BY <1>12 DEF RemoveOutput
  <2>. QED
    BY <1>12, <2>1 DEF RemoveOutput, Numbered, Sheltered, DirectoryFirst, Untouched, Has
<1>13. ASSUME NEW i \in Sources, ChangeSource(i)
       PROVE  IInv'
  BY <1>13, QuietStep DEF ChangeSource
<1>14. CASE UNCHANGED vars
  BY <1>14, QuietStep DEF vars
<1>. QED
  BY <1>1, <1>2, <1>3, <1>4, <1>5, <1>6, <1>7, <1>8, <1>9, <1>10, <1>11, <1>12,
     <1>13, <1>14
     DEF Next

\* A step writes files only when the source there is not the developer's.
LEMMA StepKeepsEdit ==
  ASSUME IInv, Edited, [Next]_vars
  PROVE  Edited' \/ made' = {}
<1>1. CASE disk' = disk
  BY <1>1 DEF Edited, Has
<1>2. CASE RemoveOutput
  BY <1>2 DEF RemoveOutput
<1>3. ~WriteArtifact /\ ~WriteManifest /\ ~EditSource
  BY DEF IInv, Untouched, WriteArtifact, WriteManifest, EditSource, Edited
<1>4. CASE BreakOff
  BY <1>1, <1>4 DEF BreakOff, IInv, Untouched
<1>5. disk' = disk \/ RemoveOutput \/ BreakOff
  BY <1>3
     DEF Next, vars, Start, RefuseExisting, RefuseDescription, RefuseInputs,
         RefuseInitializers, FailToCopy, RefuseTypes, Fail, ConfigureInputs,
         ReadInitializers, MakeDirectory, EndDirectories, EndArtifacts,
         ChangeSource
<1>. QED  BY <1>1, <1>2, <1>4, <1>5

\* What the developer wrote is there until he removes the directory, however
\* often the generator is started, refused, fails or is killed
\* (generateMagiaApplication refuses an output that exists).
THEOREM EditsAreNeverLost == Spec => EditsAreKept
<1>1. Init => IInv
  BY InitInvariant
<1>2. IInv /\ [Next]_vars => IInv'
  BY NextInvariant
<1>3. IInv /\ [Next]_vars => [Edited => (Edited' \/ made' = {})]_vars
  BY StepKeepsEdit
<1>. QED  BY <1>1, <1>2, <1>3, PTL DEF Spec, EditsAreKept

-----------------------------------------------------------------------------
(* Sequences and what they list *)

\* A finite set can be listed.
LEMMA SetIsListed ==
  ASSUME NEW S, IsFiniteSet(S)
  PROVE  SetToSeq(S) \in Seq(S)
<1>1. Cardinality(S) \in Nat /\ ExistsBijection(1..Cardinality(S), S)
  BY FS_CardinalityType
<1>. DEFINE n == Cardinality(S)
<1>2. \E f \in [1..n -> S] : IsInjective(f)
  <2>1. PICK f \in Bijection(1..n, S) : TRUE
    BY <1>1 DEF ExistsBijection
  <2>2. f \in [1..n -> S] /\ \A a, b \in 1..n : f[a] = f[b] => a = b
    BY <2>1 DEF Bijection, Injection, IsInjective
  <2>3. IsInjective(f)
    BY <2>2 DEF IsInjective
  <2>. QED  BY <2>2, <2>3
<1>3. SetToSeq(S) \in [1..n -> S]
  BY <1>2 DEF SetToSeq
<1>. HIDE DEF n
<1>. QED  BY <1>1, <1>3, SeqDef DEF n

\* What two sequences list, one behind the other.
LEMMA ConcatLists ==
  ASSUME NEW S, NEW s \in Seq(S), NEW t \in Seq(S)
  PROVE  /\ s \o t \in Seq(S)
         /\ \A k \in DOMAIN s : k \in DOMAIN (s \o t) /\ (s \o t)[k] = s[k]
<1>1. /\ Len(s) \in Nat /\ Len(t) \in Nat /\ DOMAIN s = 1..Len(s)
  BY LenProperties
<1>2. /\ s \o t \in Seq(S) /\ DOMAIN (s \o t) = 1..(Len(s) + Len(t))
      /\ \A i \in 1..(Len(s) + Len(t)) :
           (s \o t)[i] = IF i <= Len(s) THEN s[i] ELSE t[i - Len(s)]
  BY <1>1, ConcatProperties, LenProperties
<1>. QED  BY <1>1, <1>2

\* A sequence lists its head and what its tail lists.
LEMMA HeadTailLists ==
  ASSUME NEW S, NEW s \in Seq(S), s # <<>>
  PROVE  /\ Head(s) \in S /\ Tail(s) \in Seq(S)
         /\ ToSet(s) = {Head(s)} \cup ToSet(Tail(s))
<1>. DEFINE n == Len(s)
            tail == Tail(s)
<1>1. n \in Nat /\ n > 0 /\ DOMAIN s = 1..n
  BY EmptySeq, LenProperties
<1>2. /\ tail \in Seq(S) /\ Head(s) \in S /\ DOMAIN tail = 1..(n - 1)
      /\ \A i \in 1..(n - 1) : tail[i] = s[i + 1]
  BY HeadTailProperties, LenProperties
<1>3. Head(s) = s[1]
  OBVIOUS
<1>. HIDE DEF n, tail
<1>4. \A i \in 1..n : i = 1 \/ (i - 1 \in 1..(n - 1) /\ s[i] = tail[i - 1])
  BY <1>1, <1>2
<1>5. 1 \in 1..n /\ \A i \in 1..(n - 1) : i + 1 \in 1..n /\ tail[i] = s[i + 1]
  BY <1>1, <1>2
<1>6. ToSet(s) = {s[i] : i \in 1..n} /\ ToSet(tail) = {tail[i] : i \in 1..(n - 1)}
  BY <1>1, <1>2 DEF ToSet
<1>7. \A x : x \in ToSet(s) <=> x = Head(s) \/ x \in ToSet(tail)
  BY <1>3, <1>4, <1>5, <1>6
<1>. QED  BY <1>2, <1>7 DEF tail

-----------------------------------------------------------------------------
(* The artifacts of a request *)

\* Everything a run may write before the manifest.
Files(r) ==
  {Artifact("", "CMakeLists", ".txt", "build_definition"),
   Artifact("", "README", ".md", "integration_guide"),
   Artifact("include", r.stem, ".h", "application_interface"),
   Artifact("src", r.stem, ".c", "application_data"),
   Artifact("src", r.stem, "_runner.c", "application_runner"),
   [path |-> UserSource, role |-> "application_source"],
   Artifact("src", r.stem, "_initializers.S.in", "initializer_assembly"),
   Artifact("data", r.stem, ".initializers.bin", "initializer_data")}
  \cup {Artifact("src/tiles", "tile", t, "tile_plan") : t \in r.tiles}
  \cup {Artifact("data", r.stem, i, "runtime_input_data") : i \in r.inputs}

\* No artifact lies outside the directories or at the path of the manifest,
\* a runtime input is named after its source, and the developer's source is at
\* its path (the lists of stages of generateMagiaApplication).
LEMMA FilesAreNamed ==
  ASSUME NEW r, NEW a \in Files(r)
  PROVE  /\ a.path[1] \in ToSet(Directories)
         /\ a.path # Manifest
         /\ IsRuntimeInput(a) => a.path[3] \in r.inputs
         /\ a.role = "application_source" => a.path = UserSource
         /\ a.path = UserSource /\ r.stem # "application" => a.role = "application_source"
<1>1. ToSet(Directories) = {"", "include", "src", "src/tiles", "data"}
  <2>1. Directories = <<"", "include", "src", "src/tiles", "data">> /\ DOMAIN Directories = 1..5
    BY DEF Directories
  <2>2. 1..5 = {1, 2, 3, 4, 5}
    OBVIOUS
  <2>3. ToSet(Directories) = {Directories[k] : k \in {1, 2, 3, 4, 5}}
    BY <2>1, <2>2 DEF ToSet
  <2>4. /\ Directories[1] = "" /\ Directories[2] = "include" /\ Directories[3] = "src"
        /\ Directories[4] = "src/tiles" /\ Directories[5] = "data"
    BY <2>1
  <2>. HIDE DEF Directories
  <2>. QED  BY <2>3, <2>4
<1>. DEFINE name == r.stem
            ok == /\ a.path[1] \in ToSet(Directories)
                  /\ a.path # Manifest
                  /\ IsRuntimeInput(a) => a.path[3] \in r.inputs
                  /\ a.role = "application_source" => a.path = UserSource
                  /\ a.path = UserSource /\ r.stem # "application" =>
                       a.role = "application_source"
<1>2. /\ UserSource[1] = "src" /\ UserSource[2] = "application" /\ UserSource[3] = ".c"
      /\ Manifest[1] = "" /\ Manifest[2] = "manifest" /\ Manifest[3] = ".json"
  BY DEF UserSource, Manifest
<1>3. ASSUME NEW dir, NEW stem, NEW ending, NEW role,
             a = Artifact(dir, stem, ending, role),
             dir \in ToSet(Directories),
             role # "application_source",
             role = "runtime_input_data" => ending \in r.inputs,
             dir # "" \/ ending # ".json",
             dir # "src" \/ ending # ".c" \/ stem = name
      PROVE  ok
  <2>1. a.path[1] = dir /\ a.path[2] = stem /\ a.path[3] = ending /\ a.role = role
    BY <1>3 DEF Artifact
  <2>2. a.path # Manifest
    BY <1>2, <1>3, <2>1
  <2>3. a.path = UserSource => name = "application"
    BY <1>2, <1>3, <2>1
  <2>. QED  BY <1>3, <2>1, <2>2, <2>3 DEF IsRuntimeInput
<1>13. ASSUME a = [path |-> UserSource, role |-> "application_source"]
       PROVE  ok
  <2>1. a.path = UserSource /\ a.role = "application_source"
    BY <1>13
  <2>. QED  BY <1>1, <1>2, <2>1 DEF IsRuntimeInput
<1>. HIDE DEF ok, name
<1>4. ASSUME \E t \in r.tiles : a = Artifact("src/tiles", "tile", t, "tile_plan")
      PROVE  ok
  BY <1>1, <1>3, <1>4
<1>5. ASSUME \E i \in r.inputs : a = Artifact("data", name, i, "runtime_input_data")
      PROVE  ok
  BY <1>1, <1>3, <1>5
<1>6. ASSUME a = Artifact("", "CMakeLists", ".txt", "build_definition")
      PROVE  ok
  BY <1>1, <1>3, <1>6
<1>7. ASSUME a = Artifact("", "README", ".md", "integration_guide")
      PROVE  ok
  BY <1>1, <1>3, <1>7
<1>8. ASSUME a = Artifact("include", name, ".h", "application_interface")
      PROVE  ok
  BY <1>1, <1>3, <1>8
<1>9. ASSUME a = Artifact("src", name, ".c", "application_data")
      PROVE  ok
  BY <1>1, <1>3, <1>9
<1>10. ASSUME a = Artifact("src", name, "_runner.c", "application_runner")
      PROVE  ok
  BY <1>1, <1>3, <1>10
<1>11. ASSUME a = Artifact("src", name, "_initializers.S.in", "initializer_assembly")
      PROVE  ok
  BY <1>1, <1>3, <1>11
<1>12. ASSUME a = Artifact("data", name, ".initializers.bin", "initializer_data")
      PROVE  ok
  BY <1>1, <1>3, <1>12
<1>14. ok
  BY <1>4, <1>5, <1>6, <1>7, <1>8, <1>9, <1>10, <1>11, <1>12, <1>13 DEF Files, name
<1>. QED  BY <1>14 DEF ok

\* The role of the file at a path, for an application that is not called as the
\* default is.
RoleIn(dir, ending) ==
  CASE dir = "src/tiles" -> "tile_plan"
    [] dir = "data" -> IF ending = ".initializers.bin" THEN "initializer_data"
                       ELSE "runtime_input_data"
    [] dir = "include" -> "application_interface"
    [] dir = "" -> IF ending = ".txt" THEN "build_definition" ELSE "integration_guide"
    [] OTHER -> IF ending = "_runner.c" THEN "application_runner"
                ELSE IF ending = ".c" THEN "application_data" ELSE "initializer_assembly"

RoleAt(p) == IF p = UserSource THEN "application_source" ELSE RoleIn(p[1], p[3])

\* No two artifacts share a path and differ in their role.
LEMMA PathsTellRoles ==
  ASSUME NEW r \in Requests, NEW a \in Files(r), r.stem # "application"
  PROVE  a.role = RoleAt(a.path)
<1>. DEFINE name == r.stem
<1>1. UserSource[1] = "src" /\ UserSource[2] = "application" /\ UserSource[3] = ".c"
  BY DEF UserSource
<1>2. ASSUME NEW dir, NEW stem, NEW ending, a = Artifact(dir, stem, ending, RoleIn(dir, ending)),
             dir # "src" \/ stem # "application" \/ ending # ".c"
      PROVE  a.role = RoleAt(a.path)
  <2>1. /\ a.path[1] = dir /\ a.path[2] = stem /\ a.path[3] = ending
        /\ a.role = RoleIn(dir, ending)
    BY <1>2 DEF Artifact
  <2>2. a.path # UserSource
    BY <1>1, <1>2, <2>1
  <2>. QED  BY <2>1, <2>2 DEF RoleAt
<1>3. name # "application"
  OBVIOUS
<1>4. ASSUME a = [path |-> UserSource, role |-> "application_source"]
      PROVE  a.role = RoleAt(a.path)
  <2>1. a.path = UserSource /\ a.role = "application_source"
    BY <1>4
  <2>. QED  BY <1>1, <2>1 DEF RoleAt
<1>. HIDE DEF name
<1>5. ASSUME \E t \in r.tiles : a = Artifact("src/tiles", "tile", t, "tile_plan")
      PROVE  a.role = RoleAt(a.path)
  <2>1. \A t : RoleIn("src/tiles", t) = "tile_plan"
    BY DEF RoleIn
  <2>. QED  BY <1>2, <1>5, <2>1
<1>6. ASSUME \E i \in r.inputs : a = Artifact("data", name, i, "runtime_input_data")
      PROVE  a.role = RoleAt(a.path)
  <2>1. PICK i \in r.inputs : a = Artifact("data", name, i, "runtime_input_data")
    BY <1>6
  <2>2. i # ".initializers.bin"
    BY CodeGenerationAssumption
  <2>3. RoleIn("data", i) = "runtime_input_data"
    BY <2>2 DEF RoleIn
  <2>. QED  BY <1>2, <2>1, <2>3
<1>7. ASSUME a = Artifact("", "CMakeLists", ".txt", "build_definition")
      PROVE  a.role = RoleAt(a.path)
  <2>1. RoleIn("", ".txt") = "build_definition"
    BY DEF RoleIn
  <2>. QED  BY <1>2, <1>3, <1>7, <2>1
<1>8. ASSUME a = Artifact("", "README", ".md", "integration_guide")
      PROVE  a.role = RoleAt(a.path)
  <2>1. RoleIn("", ".md") = "integration_guide"
    BY DEF RoleIn
  <2>. QED  BY <1>2, <1>3, <1>8, <2>1
<1>9. ASSUME a = Artifact("include", name, ".h", "application_interface")
      PROVE  a.role = RoleAt(a.path)
  <2>1. RoleIn("include", ".h") = "application_interface"
    BY DEF RoleIn
  <2>. QED  BY <1>2, <1>3, <1>9, <2>1
<1>10. ASSUME a = Artifact("src", name, ".c", "application_data")
       PROVE  a.role = RoleAt(a.path)
  <2>1. RoleIn("src", ".c") = "application_data"
    BY DEF RoleIn
  <2>. QED  BY <1>2, <1>3, <1>10, <2>1
<1>11. ASSUME a = Artifact("src", name, "_runner.c", "application_runner")
       PROVE  a.role = RoleAt(a.path)
  <2>1. RoleIn("src", "_runner.c") = "application_runner"
    BY DEF RoleIn
  <2>. QED  BY <1>2, <1>3, <1>11, <2>1
<1>12. ASSUME a = Artifact("src", name, "_initializers.S.in", "initializer_assembly")
       PROVE  a.role = RoleAt(a.path)
  <2>1. RoleIn("src", "_initializers.S.in") = "initializer_assembly"
    BY DEF RoleIn
  <2>. QED  BY <1>2, <1>3, <1>12, <2>1
<1>13. ASSUME a = Artifact("data", name, ".initializers.bin", "initializer_data")
       PROVE  a.role = RoleAt(a.path)
  <2>1. RoleIn("data", ".initializers.bin") = "initializer_data"
    BY DEF RoleIn
  <2>. QED  BY <1>2, <1>3, <1>13, <2>1
<1>. QED
  BY <1>4, <1>5, <1>6, <1>7, <1>8, <1>9, <1>10, <1>11, <1>12, <1>13 DEF Files, name

\* A run writes these files and no others, the developer's source among them.
LEMMA ArtifactsAreFiles ==
  ASSUME NEW r \in Requests
  PROVE  /\ Artifacts(r) \in Seq(Files(r))
         /\ \E a \in ToSet(Artifacts(r)) : a.path = UserSource
<1>. DEFINE fixed ==
              << Artifact("", "CMakeLists", ".txt", "build_definition"),
                 Artifact("", "README", ".md", "integration_guide"),
                 Artifact("include", r.stem, ".h", "application_interface"),
                 Artifact("src", r.stem, ".c", "application_data"),
                 Artifact("src", r.stem, "_runner.c", "application_runner"),
                 [path |-> UserSource, role |-> "application_source"],
                 Artifact("src", r.stem, "_initializers.S.in", "initializer_assembly") >>
            image == << Artifact("data", r.stem, ".initializers.bin", "initializer_data") >>
            F == Files(r)
<1>1. fixed \in Seq(F) /\ 6 \in DOMAIN fixed /\ fixed[6].path = UserSource
  BY DEF Files
<1>2. image \in Seq(F)
  BY DEF Files
<1>3. TileSources(r) \in Seq(F)
  <2>1. SetToSeq(r.tiles) \in Seq(r.tiles)
    BY SetIsListed, CodeGenerationAssumption
  <2>2. PICK n \in Nat : SetToSeq(r.tiles) \in [1..n -> r.tiles]
    BY <2>1, SeqDef
  <2>3. TileSources(r) \in [1..n -> F]
    BY <2>2 DEF TileSources, Files
  <2>. QED  BY <2>3, SeqDef
<1>4. RuntimeInputs(r) \in Seq(F)
  <2>1. SetToSeq(r.inputs) \in Seq(r.inputs)
    BY SetIsListed, CodeGenerationAssumption
  <2>2. PICK n \in Nat : SetToSeq(r.inputs) \in [1..n -> r.inputs]
    BY <2>1, SeqDef
  <2>3. RuntimeInputs(r) \in [1..n -> F]
    BY <2>2 DEF RuntimeInputs, Files
  <2>. QED  BY <2>3, SeqDef
<1>5. Artifacts(r) = fixed \o TileSources(r) \o image \o RuntimeInputs(r)
  BY DEF Artifacts
<1>. HIDE DEF fixed, image, F
<1>6. /\ fixed \o TileSources(r) \in Seq(F)
      /\ 6 \in DOMAIN (fixed \o TileSources(r)) /\ (fixed \o TileSources(r))[6] = fixed[6]
  BY <1>1, <1>3, ConcatLists
<1>7. /\ fixed \o TileSources(r) \o image \in Seq(F)
      /\ 6 \in DOMAIN (fixed \o TileSources(r) \o image)
      /\ (fixed \o TileSources(r) \o image)[6] = fixed[6]
  BY <1>2, <1>6, ConcatLists
<1>8. /\ Artifacts(r) \in Seq(F)
      /\ 6 \in DOMAIN Artifacts(r) /\ Artifacts(r)[6] = fixed[6]
  BY <1>4, <1>5, <1>7, ConcatLists
<1>9. Artifacts(r)[6] \in ToSet(Artifacts(r))
  BY <1>8 DEF ToSet
<1>. QED  BY <1>1, <1>8, <1>9 DEF F

-----------------------------------------------------------------------------
(* The invariant: what a run has written, stage by stage *)

Paths(s) == {a.path : a \in ToSet(s)}

Typed ==
  /\ run \in 0..MaxRuns /\ request \in Requests
  /\ pc \in {"idle", "checks", "initializers", "directories", "artifacts", "manifest"}
  /\ sources \in [Sources -> {"missing", "short", "whole"}] /\ changed \subseteq Sources

\* Files lie in directories that were made, the output directory first of all.
Housed ==
  /\ made \subseteq ToSet(Directories)
  /\ \A p \in DOMAIN disk : p[1] \in made /\ disk[p].by \in 0..run
  /\ DOMAIN disk # {} => "" \in made
  /\ listed # {} => Has(Manifest)

\* A run that goes on after its check finds no file and lists none until its end.
Fresh ==
  /\ pc \in {"initializers", "directories"} => DOMAIN disk = {}
  /\ pc \in {"initializers", "directories", "artifacts", "manifest"} => listed = {}

\* The directories are made before the artifacts.
MakesDirectories ==
  /\ pc = "directories" =>
       /\ left \in Seq(ToSet(Directories))
       /\ ToSet(Directories) \subseteq made \cup ToSet(left)
  /\ pc \in {"artifacts", "manifest"} => made = ToSet(Directories)

\* What is there and what is left are together the artifacts, all of this run.
WritesArtifacts ==
  /\ pc = "artifacts" =>
       /\ left \in Seq(Files(request))
       /\ ToSet(left) \subseteq ToSet(Artifacts(request))
       /\ DOMAIN disk \cup Paths(left) = Paths(Artifacts(request))
  /\ pc = "manifest" => DOMAIN disk = Paths(Artifacts(request))
  /\ pc \in {"artifacts", "manifest"} =>
       \A p \in DOMAIN disk : disk[p].by = run /\ disk[p].data # "cut"

StageInv == Typed /\ Housed /\ Fresh /\ MakesDirectories /\ WritesArtifacts

\* Nothing is written at the beginning.
LEMMA StageStarts ==
  ASSUME Init
  PROVE  StageInv
<1>1. DOMAIN disk = {}
  <2>1. disk = <<>>
    BY DEF Init
  <2>2. DOMAIN <<>> = 1..Len(<<>>)
    OBVIOUS
  <2>. QED  BY <2>1, <2>2
<1>2. made \subseteq ToSet(Directories)
  <2>1. 1 \in DOMAIN Directories /\ Directories[1] = ""
    BY DEF Directories
  <2>2. "" \in ToSet(Directories)
    BY <2>1 DEF ToSet
  <2>. QED  BY <2>2 DEF Init
<1>3. Typed
  <2>1. run = 0 /\ MaxRuns \in Nat
    BY CodeGenerationAssumption DEF Init
  <2>2. run \in 0..MaxRuns
    BY <2>1
  <2>. QED  BY <2>2 DEF Init, Typed
<1>. QED
  BY <1>1, <1>2, <1>3
     DEF Init, StageInv, Housed, Fresh, MakesDirectories, WritesArtifacts, Has

\* The end of a run, of whatever kind, and what the developer does with files
\* that no run is at, as far as the stages go.
LEMMA RunEnds ==
  ASSUME StageInv, pc' = "idle",
         UNCHANGED <<run, request, made, disk, listed, sources, changed>>
  PROVE  StageInv'
BY DEF StageInv, Typed, Housed, Fresh, MakesDirectories, WritesArtifacts, Has

\* A file written by the run under way, or by the developer.
LEMMA FileIsHoused ==
  ASSUME Housed, run \in Nat, NEW path, NEW role, NEW by \in 0..run, NEW data,
         path[1] \in made, "" \in made,
         disk' = With(path, Contents(role, by, data)), UNCHANGED <<run, made>>,
         UNCHANGED listed \/ path = Manifest
  PROVE  Housed'
<1>1. /\ DOMAIN disk' = DOMAIN disk \cup {path}
      /\ disk'[path] = Contents(role, by, data)
      /\ \A p \in DOMAIN disk \ {path} : disk'[p] = disk[p]
  BY DEF With
<1>2. Contents(role, by, data).by = by
  BY DEF Contents
<1>3. \A p \in DOMAIN disk' : p[1] \in made /\ disk'[p].by \in 0..run
  BY <1>1, <1>2 DEF Housed
<1>. QED  BY <1>1, <1>3 DEF Housed, Has

\* A run begins, reads what it needs and makes its directories.
LEMMA PreparationKeepsStages ==
  ASSUME StageInv,
         \/ \E r \in Requests : Start(r)
         \/ ConfigureInputs \/ ReadInitializers \/ MakeDirectory
  PROVE  StageInv'
<1>. USE DEF StageInv
<1>1. ASSUME NEW r \in Requests, Start(r)
      PROVE  StageInv'
  <2>1. Typed'
    BY <1>1, CodeGenerationAssumption DEF Start, Typed
  <2>2. 0..run \subseteq 0..(run + 1)
    BY CodeGenerationAssumption DEF Typed
  <2>3. Housed'
    BY <1>1, <2>2 DEF Start, Housed, Has
  <2>. QED
    BY <1>1, <2>1, <2>3 DEF Start, Fresh, MakesDirectories, WritesArtifacts
<1>2. CASE ConfigureInputs
  <2>1. DOMAIN disk = {} /\ listed = {}
    BY <1>2 DEF ConfigureInputs, OutputExists, Housed, Has
  <2>. QED
    BY <1>2, <2>1
       DEF ConfigureInputs, Typed, Housed, Fresh, MakesDirectories, WritesArtifacts, Has
<1>3. CASE ReadInitializers
  <2>1. Directories \in Seq(ToSet(Directories))
    <3>1. Directories \in [1..5 -> ToSet(Directories)]
      BY DEF Directories, ToSet
    <3>. QED  BY <3>1, SeqDef
  <2>. QED
    BY <1>3, <2>1
       DEF ReadInitializers, Typed, Housed, Fresh, MakesDirectories, WritesArtifacts, Has
<1>4. CASE MakeDirectory
  <2>1. /\ left \in Seq(ToSet(Directories)) /\ left # <<>>
        /\ ToSet(Directories) \subseteq made \cup ToSet(left)
    BY <1>4 DEF MakeDirectory, MakesDirectories
  <2>2. /\ Head(left) \in ToSet(Directories) /\ Tail(left) \in Seq(ToSet(Directories))
        /\ ToSet(left) = {Head(left)} \cup ToSet(Tail(left))
    BY <2>1, HeadTailLists
  <2>3. MakesDirectories'
    BY <1>4, <2>1, <2>2 DEF MakeDirectory, MakesDirectories
  <2>4. Housed'
    BY <1>4, <2>2 DEF MakeDirectory, Housed, Has
  <2>. QED
    BY <1>4, <2>3, <2>4 DEF MakeDirectory, Typed, Fresh, WritesArtifacts
<1>. QED  BY <1>1, <1>2, <1>3, <1>4

\* All directories are there: the artifacts are next, none of them written.
LEMMA EndDirectoriesKeepsStages ==
  ASSUME StageInv, EndDirectories
  PROVE  StageInv'
<1>. USE DEF StageInv
<1>1. made = ToSet(Directories)
  <2>1. ToSet(<<>>) = {}
    BY DEF ToSet
  <2>. QED  BY <2>1 DEF EndDirectories, MakesDirectories, Housed
<1>2. DOMAIN disk = {}
  BY DEF EndDirectories, Fresh
<1>3. Artifacts(request) \in Seq(Files(request))
  BY ArtifactsAreFiles DEF Typed
<1>4. MakesDirectories' /\ Fresh' /\ Typed' /\ Housed'
  BY <1>1, <1>2 DEF EndDirectories, MakesDirectories, Fresh, Typed, Housed, Has
<1>5. WritesArtifacts'
  BY <1>2, <1>3 DEF EndDirectories, WritesArtifacts, Paths
<1>. QED  BY <1>4, <1>5

\* What a run takes from the artifacts it has left is one of its files.
LEMMA HeadIsFile ==
  ASSUME StageInv, pc = "artifacts", left # <<>>
  PROVE  /\ Head(left) \in Files(request) /\ Head(left) \in ToSet(Artifacts(request))
         /\ Tail(left) \in Seq(Files(request))
         /\ ToSet(left) = {Head(left)} \cup ToSet(Tail(left))
         /\ Head(left).path[1] \in made /\ "" \in made /\ Head(left).path # Manifest
<1>1. left \in Seq(Files(request)) /\ ToSet(left) \subseteq ToSet(Artifacts(request))
  BY DEF StageInv, WritesArtifacts
<1>2. /\ Head(left) \in Files(request) /\ Tail(left) \in Seq(Files(request))
      /\ ToSet(left) = {Head(left)} \cup ToSet(Tail(left))
  BY <1>1, HeadTailLists
<1>3. made = ToSet(Directories)
  BY DEF StageInv, MakesDirectories
<1>4. "" \in ToSet(Directories)
  <2>1. 1 \in DOMAIN Directories /\ Directories[1] = ""
    BY DEF Directories
  <2>. QED  BY <2>1 DEF ToSet
<1>. QED  BY <1>1, <1>2, <1>3, <1>4, FilesAreNamed

\* An artifact is written.
LEMMA WriteArtifactKeepsStages ==
  ASSUME StageInv, WriteArtifact
  PROVE  StageInv'
<1>. DEFINE a == Head(left)
<1>. USE DEF StageInv
<1>1. /\ a \in ToSet(Artifacts(request)) /\ Tail(left) \in Seq(Files(request))
      /\ ToSet(left) = {a} \cup ToSet(Tail(left))
      /\ a.path[1] \in made /\ "" \in made
  BY HeadIsFile DEF WriteArtifact
<1>2. PICK data \in {"short", "whole"} :
        disk' = With(a.path, Contents(a.role, run, data))
  <2>1. CASE IsRuntimeInput(a)
    <3>1. a.path[3] \in Sources
      <4>1. a.path[3] \in request.inputs
        BY <2>1, HeadIsFile, FilesAreNamed DEF WriteArtifact
      <4>. QED  BY <4>1, CodeGenerationAssumption DEF Typed
    <3>2. sources[a.path[3]] \in {"missing", "short", "whole"}
      BY <3>1 DEF Typed
    <3>3. Written(a) = Contents(a.role, run, sources[a.path[3]])
      BY <2>1 DEF Written
    <3>4. sources[a.path[3]] # "missing"
      BY <3>3 DEF WriteArtifact, Contents
    <3>. QED  BY <3>2, <3>3, <3>4 DEF WriteArtifact
  <2>2. CASE ~IsRuntimeInput(a)
    BY <2>2 DEF WriteArtifact, Written
  <2>. QED  BY <2>1, <2>2
<1>. HIDE DEF a
<1>3. /\ DOMAIN disk' = DOMAIN disk \cup {a.path}
      /\ disk'[a.path].by = run /\ disk'[a.path].data # "cut"
      /\ \A p \in DOMAIN disk \ {a.path} : disk'[p] = disk[p]
  BY <1>2 DEF With, Contents
<1>4. Housed'
  <2>1. run \in Nat /\ run \in 0..run
    BY CodeGenerationAssumption DEF Typed
  <2>. QED  BY <1>1, <1>2, <2>1, FileIsHoused DEF WriteArtifact
<1>5. WritesArtifacts'
  <2>1. ToSet(left) \subseteq ToSet(Artifacts(request))
    BY DEF WriteArtifact, WritesArtifacts
  <2>2. Paths(left) = {a.path} \cup Paths(Tail(left))
    BY <1>1 DEF Paths
  <2>3. DOMAIN disk' \cup Paths(Tail(left)) = Paths(Artifacts(request))
    BY <1>3, <2>2 DEF WriteArtifact, WritesArtifacts
  <2>4. \A p \in DOMAIN disk' : disk'[p].by = run /\ disk'[p].data # "cut"
    BY <1>3 DEF WriteArtifact, WritesArtifacts
  <2>. QED  BY <1>1, <2>1, <2>3, <2>4 DEF WriteArtifact, WritesArtifacts, Paths
<1>. QED
  BY <1>4, <1>5 DEF WriteArtifact, Typed, Fresh, MakesDirectories

\* The last artifact is written.
LEMMA EndArtifactsKeepsStages ==
  ASSUME StageInv, EndArtifacts
  PROVE  StageInv'
<1>. USE DEF StageInv
<1>1. Paths(left) = {}
  BY DEF EndArtifacts, Paths, ToSet
<1>2. DOMAIN disk = Paths(Artifacts(request))
  BY <1>1 DEF EndArtifacts, WritesArtifacts
<1>3. WritesArtifacts'
  BY <1>2 DEF EndArtifacts, WritesArtifacts, Paths
<1>. QED
  BY <1>3 DEF EndArtifacts, Typed, Housed, Fresh, MakesDirectories, Has

\* The manifest is written, or cut off.
LEMMA ManifestIsHoused ==
  ASSUME StageInv, pc = "manifest", NEW data,
         disk' = With(Manifest, Contents("application_manifest", run, data)),
         UNCHANGED <<run, made>>
  PROVE  Housed'
<1>1. made = ToSet(Directories)
  BY DEF StageInv, MakesDirectories
<1>2. "" \in made /\ Manifest[1] = ""
  <2>1. 1 \in DOMAIN Directories /\ Directories[1] = ""
    BY DEF Directories
  <2>. QED  BY <1>1, <2>1 DEF ToSet, Manifest
<1>3. run \in Nat /\ run \in 0..run
  BY CodeGenerationAssumption DEF StageInv, Typed
<1>. QED  BY <1>2, <1>3, FileIsHoused DEF StageInv

\* Every step of a run and of the developer keeps what the stages have done.
LEMMA NextKeepsStages ==
  ASSUME StageInv, [Next]_vars
  PROVE  StageInv'
<1>. USE DEF StageInv
<1>1. CASE \/ RefuseExisting \/ RefuseDescription \/ RefuseInputs
           \/ RefuseInitializers \/ FailToCopy \/ RefuseTypes
  BY <1>1, RunEnds
     DEF RefuseExisting, RefuseDescription, RefuseInputs, RefuseInitializers,
         FailToCopy, RefuseTypes, Fail
<1>2. CASE \/ \E r \in Requests : Start(r)
           \/ ConfigureInputs \/ ReadInitializers \/ MakeDirectory
  BY <1>2, PreparationKeepsStages
<1>3. CASE EndDirectories
  BY <1>3, EndDirectoriesKeepsStages
<1>4. CASE WriteArtifact
  BY <1>4, WriteArtifactKeepsStages
<1>5. CASE EndArtifacts
  BY <1>5, EndArtifactsKeepsStages
<1>6. CASE WriteManifest
  <2>1. Housed'
    BY <1>6, ManifestIsHoused DEF WriteManifest
  <2>. QED
    BY <1>6, <2>1 DEF WriteManifest, Typed, Fresh, MakesDirectories, WritesArtifacts
<1>7. CASE BreakOff
  <2>1. CASE disk' = disk
    BY <1>7, <2>1, RunEnds DEF BreakOff
  <2>2. CASE /\ pc = "artifacts" /\ left # <<>>
             /\ disk' = With(Head(left).path, Contents(Head(left).role, run, "cut"))
    <3>1. Head(left).path[1] \in made /\ "" \in made
      BY <2>2, HeadIsFile
    <3>2. run \in Nat /\ run \in 0..run
      BY CodeGenerationAssumption DEF Typed
    <3>3. Housed'
      BY <1>7, <2>2, <3>1, <3>2, FileIsHoused DEF BreakOff
    <3>. QED
      BY <1>7, <3>3 DEF BreakOff, Typed, Fresh, MakesDirectories, WritesArtifacts
  <2>3. CASE /\ pc = "manifest"
             /\ disk' = With(Manifest, Contents("application_manifest", run, "cut"))
    <3>1. Housed'
      BY <1>7, <2>3, ManifestIsHoused DEF BreakOff
    <3>. QED
      BY <1>7, <3>1 DEF BreakOff, Typed, Fresh, MakesDirectories, WritesArtifacts
  <2>. QED  BY <1>7, <2>1, <2>2, <2>3 DEF BreakOff
<1>8. CASE EditSource
  <2>1. UserSource[1] \in made /\ "" \in made
    BY <1>8 DEF EditSource, Housed, Has
  <2>2. run \in Nat /\ 0 \in 0..run
    BY CodeGenerationAssumption DEF Typed
  <2>3. Housed'
    BY <1>8, <2>1, <2>2, FileIsHoused DEF EditSource
  <2>. QED
    BY <1>8, <2>3 DEF EditSource, Typed, Fresh, MakesDirectories, WritesArtifacts
<1>9. CASE RemoveOutput
  <2>1. DOMAIN disk' = {} /\ made' = {} /\ listed' = {} /\ pc' = "idle"
    BY <1>9 DEF RemoveOutput
  <2>2. Housed'
    BY <2>1 DEF Housed
  <2>. QED
    BY <1>9, <2>1, <2>2
       DEF RemoveOutput, Typed, Fresh, MakesDirectories, WritesArtifacts
<1>10. ASSUME NEW i \in Sources, ChangeSource(i)
       PROVE  StageInv'
  <2>1. Typed'
    BY <1>10 DEF ChangeSource, Typed
  <2>. QED
    BY <1>10, <2>1
       DEF ChangeSource, Housed, Fresh, MakesDirectories, WritesArtifacts, Has
<1>11. CASE UNCHANGED vars
  BY <1>11
     DEF vars, Typed, Housed, Fresh, MakesDirectories, WritesArtifacts, Has
<1>. QED
  BY <1>1, <1>2, <1>3, <1>4, <1>5, <1>6, <1>7, <1>8, <1>9, <1>10, <1>11 DEF Next

\* The invariant of the stages holds of every behaviour.
LEMMA StagesKeep == Spec => []StageInv
BY StageStarts, NextKeepsStages, PTL DEF Spec

\* Files lie in directories that were made, and are numbered by the run that
\* wrote them; a manifest that lists something is there
\* (generateMagiaApplication makes the directories before the artifacts).
THEOREM GenerationTypeCorrect == Spec => []TypeOK
<1>1. StageInv => TypeOK
  BY DEF StageInv, Typed, Housed, TypeOK
<1>. QED  BY <1>1, StagesKeep, PTL

-----------------------------------------------------------------------------
(* A whole manifest describes the directory *)

\* The application is not called as the default is (MCDefaultStem.cfg shows what
\* happens if it is).
Named == \A r \in Requests : r.stem # "application"

DescriptionInv == ManifestDescribesOutput /\ UserSource \notin Listed

\* What the manifest describes stays as long as the files and the list do.
LEMMA DescriptionStays ==
  ASSUME DescriptionInv, UNCHANGED <<disk, listed>>
  PROVE  DescriptionInv'
BY DEF DescriptionInv, ManifestDescribesOutput, Committed, Listed, Has

\* The artifacts of a run, as its list gives them.
LEMMA ArtifactsOfRequest ==
  ASSUME NEW r \in Requests, NEW a \in ToSet(Artifacts(r))
  PROVE  a \in Files(r)
<1>1. PICK n \in Nat : Artifacts(r) \in [1..n -> Files(r)]
  BY ArtifactsAreFiles, SeqDef
<1>. QED  BY <1>1 DEF ToSet

\* There is no manifest until the run writes it.
LEMMA NoManifestYet ==
  ASSUME StageInv, pc \in {"artifacts", "manifest"}
  PROVE  ~Has(Manifest)
<1>1. DOMAIN disk \subseteq Paths(Artifacts(request))
  BY DEF StageInv, WritesArtifacts
<1>2. Manifest \notin Paths(Artifacts(request))
  BY ArtifactsOfRequest, FilesAreNamed DEF StageInv, Typed, Paths
<1>. QED  BY <1>1, <1>2 DEF Has

\* The manifest lists the files of its run, and leaves only the developer's out.
LEMMA ManifestIsDescription ==
  ASSUME Named, StageInv, DescriptionInv, WriteManifest
  PROVE  DescriptionInv'
<1>. DEFINE gen == Generated(request)
<1>1. /\ DOMAIN disk' = DOMAIN disk \cup {Manifest}
      /\ disk'[Manifest].by = run
      /\ \A p \in DOMAIN disk \ {Manifest} : disk'[p] = disk[p]
  BY DEF WriteManifest, With, Contents
<1>2. /\ DOMAIN disk = Paths(Artifacts(request)) /\ Manifest \notin DOMAIN disk
      /\ \A p \in DOMAIN disk : disk[p].by = run /\ disk[p].data # "cut"
  BY NoManifestYet DEF WriteManifest, StageInv, WritesArtifacts, Has
<1>3. \A a \in gen : a.path \in DOMAIN disk
  BY <1>2 DEF Generated, Paths
<1>4. listed' = {Entry(a) : a \in gen}
  BY DEF WriteManifest
<1>5. \A a \in gen : Entry(a).path = a.path /\ Entry(a).digest = disk[a.path]
  BY DEF Entry
<1>6. Listed' = {a.path : a \in gen}
  BY <1>4, <1>5 DEF Listed
<1>7. \A e \in listed' : /\ e.path \in DOMAIN disk' /\ disk'[e.path] = e.digest
                        /\ e.digest.by = disk'[Manifest].by /\ e.digest.data # "cut"
  BY <1>1, <1>2, <1>3, <1>4, <1>5
<1>8. /\ \A a \in ToSet(Artifacts(request)) :
           a.role = "application_source" <=> a.path = UserSource
      /\ UserSource \in Paths(Artifacts(request))
  BY ArtifactsOfRequest, ArtifactsAreFiles, FilesAreNamed
     DEF StageInv, Typed, Named, Paths
<1>9. Paths(Artifacts(request)) = Listed' \cup {UserSource} /\ UserSource \notin Listed'
  BY <1>6, <1>8 DEF Paths, Generated
<1>10. DOMAIN disk' = Listed' \cup {UserSource, Manifest}
  BY <1>1, <1>2, <1>9
<1>. HIDE DEF gen
<1>. QED  BY <1>7, <1>9, <1>10 DEF DescriptionInv, ManifestDescribesOutput, Has

\* There is no manifest at the beginning.
LEMMA DescriptionStarts ==
  ASSUME Init
  PROVE  DescriptionInv
<1>1. disk = <<>> /\ listed = {}
  BY DEF Init
<1>2. DOMAIN <<>> = 1..Len(<<>>)
  OBVIOUS
<1>3. DOMAIN disk = {}
  BY <1>1, <1>2
<1>. QED
  BY <1>1, <1>3 DEF DescriptionInv, ManifestDescribesOutput, Committed, Listed, Has

\* Every step keeps a described directory described.
LEMMA NextKeepsDescription ==
  ASSUME Named, StageInv, DescriptionInv, [Next]_vars
  PROVE  DescriptionInv'
<1>1. CASE UNCHANGED <<disk, listed>>
  BY <1>1, DescriptionStays
<1>2. ASSUME pc = "artifacts", left # <<>>, UNCHANGED listed,
             NEW contents, disk' = With(Head(left).path, contents)
      PROVE  DescriptionInv'
  <2>1. DOMAIN disk' = DOMAIN disk \cup {Head(left).path}
    BY <1>2 DEF With
  <2>2. Manifest \notin DOMAIN disk'
    BY <1>2, <2>1, NoManifestYet, HeadIsFile DEF Has
  <2>. QED
    BY <1>2, <2>2 DEF DescriptionInv, ManifestDescribesOutput, Committed, Listed, Has
<1>3. CASE WriteArtifact
  BY <1>2, <1>3 DEF WriteArtifact
<1>4. CASE WriteManifest
  BY <1>4, ManifestIsDescription
<1>5. CASE BreakOff
  <2>1. CASE disk' = disk
    BY <1>1, <1>5, <2>1 DEF BreakOff
  <2>2. CASE /\ pc = "artifacts" /\ left # <<>>
             /\ disk' = With(Head(left).path, Contents(Head(left).role, run, "cut"))
    BY <1>2, <1>5, <2>2 DEF BreakOff
  <2>3. CASE disk' = With(Manifest, Contents("application_manifest", run, "cut"))
    <3>1. disk'[Manifest].data = "cut"
      BY <2>3 DEF With, Contents
    <3>. QED
      BY <1>5, <3>1
         DEF BreakOff, DescriptionInv, ManifestDescribesOutput, Committed, Listed
  <2>. QED  BY <1>5, <2>1, <2>2, <2>3 DEF BreakOff
<1>6. CASE EditSource
  <2>1. Manifest # UserSource
    <3>1. Manifest[1] = "" /\ UserSource[1] = "src"
      BY DEF Manifest, UserSource
    <3>. QED  BY <3>1
  <2>2. /\ DOMAIN disk' = DOMAIN disk /\ listed' = listed
        /\ \A p \in DOMAIN disk : p # UserSource => disk'[p] = disk[p]
    BY <1>6 DEF EditSource, With, Has
  <2>3. Listed' = Listed /\ UserSource \notin Listed
    BY <2>2 DEF Listed, DescriptionInv
  <2>4. Committed' => Committed /\ disk'[Manifest] = disk[Manifest]
    BY <2>1, <2>2 DEF Committed, Has
  <2>5. \A e \in listed : e.path # UserSource
    BY <2>3 DEF Listed
  <2>. QED
    BY <2>2, <2>3, <2>4, <2>5 DEF DescriptionInv, ManifestDescribesOutput, Has
<1>7. CASE RemoveOutput
  <2>1. DOMAIN disk' = {} /\ listed' = {}
    BY <1>7 DEF RemoveOutput
  <2>. QED
    BY <2>1 DEF DescriptionInv, ManifestDescribesOutput, Committed, Listed, Has
<1>8. \/ WriteArtifact \/ WriteManifest \/ BreakOff \/ EditSource \/ RemoveOutput
      \/ UNCHANGED <<disk, listed>>
  BY DEF Next, vars, Start, RefuseExisting, RefuseDescription, RefuseInputs,
         RefuseInitializers, FailToCopy, RefuseTypes, Fail, ConfigureInputs,
         ReadInitializers, MakeDirectory, EndDirectories, EndArtifacts, ChangeSource
<1>. QED  BY <1>1, <1>3, <1>4, <1>5, <1>6, <1>7, <1>8

\* Whatever runs, failures, kills and edits came before: a directory with a whole
\* manifest holds the files it lists, as one run wrote and digested them, and
\* beside them only the developer's source (writeApplicationManifest comes last).
THEOREM ManifestsDescribe ==
  ASSUME Named
  PROVE  Spec => []ManifestDescribesOutput
<1>1. Init => DescriptionInv
  BY DescriptionStarts
<1>2. StageInv /\ DescriptionInv /\ [Next]_vars => DescriptionInv'
  BY NextKeepsDescription
<1>3. DescriptionInv => ManifestDescribesOutput
  BY DEF DescriptionInv
<1>. QED  BY <1>1, <1>2, <1>3, StagesKeep, PTL DEF Spec

-----------------------------------------------------------------------------
(* Files hold their roles *)

\* What a run has written is what the path is for, and it lists it as that.
RolesInv ==
  /\ pc \in {"artifacts", "manifest"} => \A p \in DOMAIN disk : disk[p].role = RoleAt(p)
  /\ \A e \in listed : e.digest.role = e.role

\* Every step keeps the roles of what a run writes.
LEMMA NextKeepsRoles ==
  ASSUME Named, StageInv, RolesInv, [Next]_vars
  PROVE  RolesInv'
<1>. USE DEF RolesInv
<1>1. CASE \/ pc' \notin {"artifacts", "manifest"} /\ UNCHANGED listed
           \/ UNCHANGED <<pc, disk, listed>>
  BY <1>1
<1>2. CASE EndDirectories
  <2>1. DOMAIN disk = {}
    BY <1>2 DEF EndDirectories, StageInv, Fresh
  <2>. QED  BY <1>2, <2>1 DEF EndDirectories
<1>3. CASE WriteArtifact
  <2>. DEFINE a == Head(left)
  <2>1. a.role = RoleAt(a.path)
    BY <1>3, HeadIsFile, PathsTellRoles DEF WriteArtifact, StageInv, Typed, Named
  <2>2. Written(a).role = a.role
    BY DEF Written, Contents
  <2>3. \A p \in DOMAIN disk' : disk'[p].role = RoleAt(p)
    BY <1>3, <2>1, <2>2 DEF WriteArtifact, With
  <2>. HIDE DEF a
  <2>. QED  BY <1>3, <2>3 DEF WriteArtifact
<1>4. CASE EndArtifacts
  BY <1>4 DEF EndArtifacts
<1>5. CASE WriteManifest
  <2>1. \A a \in Generated(request) :
          /\ Entry(a).role = a.role /\ Entry(a).digest = disk[a.path]
          /\ a.path \in DOMAIN disk
    BY <1>5 DEF WriteManifest, Has, Entry
  <2>2. \A a \in Generated(request) : a.role = RoleAt(a.path)
    BY ArtifactsOfRequest, PathsTellRoles DEF StageInv, Typed, Named, Generated
  <2>. QED  BY <1>5, <2>1, <2>2 DEF WriteManifest
<1>6. CASE RemoveOutput
  BY <1>6 DEF RemoveOutput
<1>. QED
  BY <1>1, <1>2, <1>3, <1>4, <1>5, <1>6
     DEF Next, vars, Start, RefuseExisting, RefuseDescription, RefuseInputs,
         RefuseInitializers, FailToCopy, RefuseTypes, Fail, ConfigureInputs,
         ReadInitializers, MakeDirectory, BreakOff, EditSource, ChangeSource

\* Every listed file is what its role says, and the developer's is not listed, for
\* all applications but those called as the default is (emitApplicationReadme).
THEOREM ListedFilesHoldTheirRoles ==
  ASSUME Named
  PROVE  Spec => []FilesHoldTheirRoles
<1>1. Init => RolesInv
  BY DEF Init, RolesInv
<1>2. StageInv /\ RolesInv /\ [Next]_vars => RolesInv'
  BY NextKeepsRoles
<1>3. StageInv /\ DescriptionInv /\ [Next]_vars => DescriptionInv'
  BY NextKeepsDescription
<1>4. DescriptionInv /\ RolesInv => FilesHoldTheirRoles
  BY DEF DescriptionInv, RolesInv, FilesHoldTheirRoles
<1>. QED  BY <1>1, <1>2, <1>3, <1>4, DescriptionStarts, StagesKeep, PTL DEF Spec

-----------------------------------------------------------------------------
(* Runtime inputs are whole *)

\* The file of an input was whole when it was checked, and is unless it changed.
Kept(i) == sources[i] = "whole" \/ i \in changed

\* From its check on a run has all inputs whole that did not change since, in the
\* files it has still to copy, ...
InputsKept ==
  /\ pc \in {"initializers", "directories"} => \A i \in request.inputs : Kept(i)
  /\ pc = "artifacts" =>
       \A a \in ToSet(left) : IsRuntimeInput(a) => Kept(a.path[3])

\* ... and in what it wrote and what it lists.
CopiesKept ==
  /\ pc \in {"artifacts", "manifest"} =>
       \A p \in DOMAIN disk : disk[p].data = "whole" \/ p[3] \in changed
  /\ \A e \in listed : e.digest.data = "whole" \/ e.path[3] \in changed

TokensInv == InputsKept /\ CopiesKept

\* A source that changes was read already, or is remembered as changed.
LEMMA ChangeIsRemembered ==
  ASSUME StageInv, TokensInv, NEW i \in Sources, ChangeSource(i)
  PROVE  TokensInv'
<1>1. /\ \A j \in Sources : j # i => sources'[j] = sources[j]
      /\ changed \subseteq changed' /\ (Unread(i) => i \in changed')
      /\ UNCHANGED <<request, pc, left, disk, listed>>
  BY DEF ChangeSource, StageInv, Typed
<1>2. request.inputs \subseteq Sources
  BY CodeGenerationAssumption DEF StageInv, Typed
<1>3. ASSUME NEW j \in Sources, Kept(j), j = i => Unread(i)
      PROVE  Kept(j)'
  BY <1>1, <1>3 DEF Kept
<1>4. ASSUME pc \in {"initializers", "directories"}
      PROVE  InputsKept'
  <2>1. Unread(i)
    BY <1>4 DEF Unread
  <2>2. \A j \in request.inputs : Kept(j)'
    BY <1>2, <1>3, <1>4, <2>1 DEF TokensInv, InputsKept
  <2>. QED  BY <1>1, <1>4, <2>2 DEF InputsKept
<1>5. ASSUME pc = "artifacts"
      PROVE  InputsKept'
  <2>1. ASSUME NEW a \in ToSet(left), IsRuntimeInput(a)
        PROVE  Kept(a.path[3])'
    <3>1. a.path[3] \in request.inputs
      BY <1>5, <2>1, ArtifactsOfRequest, FilesAreNamed
         DEF StageInv, Typed, WritesArtifacts
    <3>2. a.path[3] = i => Unread(i)
      BY <1>5, <2>1 DEF Unread
    <3>3. Kept(a.path[3])
      BY <1>5, <2>1 DEF TokensInv, InputsKept
    <3>. QED  BY <1>2, <1>3, <3>1, <3>2, <3>3
  <2>. QED  BY <1>1, <1>5, <2>1 DEF InputsKept
<1>6. InputsKept'
  BY <1>1, <1>4, <1>5 DEF InputsKept
<1>7. CopiesKept'
  BY <1>1 DEF TokensInv, CopiesKept
<1>. QED  BY <1>6, <1>7 DEF TokensInv

\* A copy is whole if the file did not change since the check.
LEMMA CopyIsKept ==
  ASSUME StageInv, TokensInv, WriteArtifact
  PROVE  TokensInv'
<1>. DEFINE a == Head(left)
<1>1. /\ pc = "artifacts" /\ left # <<>> /\ left' = Tail(left)
      /\ UNCHANGED <<request, pc, listed, sources, changed>>
      /\ disk' = With(a.path, Written(a))
  BY DEF WriteArtifact
<1>2. ToSet(left) = {a} \cup ToSet(Tail(left))
  BY <1>1, HeadIsFile
<1>3. Written(a).data = "whole" \/ a.path[3] \in changed
  <2>1. CASE IsRuntimeInput(a)
    <3>1. Kept(a.path[3])
      BY <1>1, <1>2, <2>1 DEF TokensInv, InputsKept
    <3>. QED  BY <2>1, <3>1 DEF Written, Contents, Kept
  <2>2. CASE ~IsRuntimeInput(a)
    BY <2>2 DEF Written, Contents
  <2>. QED  BY <2>1, <2>2
<1>4. \A p \in DOMAIN disk' : disk'[p].data = "whole" \/ p[3] \in changed
  BY <1>1, <1>3 DEF With, TokensInv, CopiesKept
<1>. HIDE DEF a
<1>5. InputsKept'
  BY <1>1, <1>2 DEF TokensInv, InputsKept, Kept
<1>6. CopiesKept'
  BY <1>1, <1>4 DEF TokensInv, CopiesKept
<1>. QED  BY <1>5, <1>6 DEF TokensInv

\* A run that goes on past its check has found all inputs whole.
LEMMA NextKeepsTokens ==
  ASSUME StageInv, TokensInv, [Next]_vars
  PROVE  TokensInv'
<1>. USE DEF TokensInv, InputsKept, CopiesKept, Kept
<1>1. CASE \/ pc' \in {"idle", "checks"} /\ UNCHANGED <<disk, listed, changed>>
           \/ UNCHANGED <<pc, request, left, disk, listed, sources, changed>>
  BY <1>1
<1>2. CASE ConfigureInputs
  <2>1. listed = {}
    BY <1>2 DEF ConfigureInputs, OutputExists, StageInv, Housed, Has
  <2>. QED  BY <1>2, <2>1 DEF ConfigureInputs, RuntimeInputsFit
<1>3. CASE ReadInitializers
  BY <1>3 DEF ReadInitializers
<1>4. CASE MakeDirectory
  BY <1>4 DEF MakeDirectory
<1>5. CASE EndDirectories
  <2>1. DOMAIN disk = {}
    BY <1>5 DEF EndDirectories, StageInv, Fresh
  <2>2. \A a \in ToSet(Artifacts(request)) : IsRuntimeInput(a) => a.path[3] \in request.inputs
    BY ArtifactsOfRequest, FilesAreNamed DEF StageInv, Typed
  <2>. QED  BY <1>5, <2>1, <2>2 DEF EndDirectories
<1>6. CASE WriteArtifact
  BY <1>6, CopyIsKept
<1>7. CASE EndArtifacts
  BY <1>7 DEF EndArtifacts
<1>8. CASE WriteManifest
  <2>1. \A a \in Generated(request) :
          a.path \in DOMAIN disk /\ Entry(a).digest = disk[a.path] /\ Entry(a).path = a.path
    BY <1>8 DEF WriteManifest, Has, Entry
  <2>. QED  BY <1>8, <2>1 DEF WriteManifest
<1>9. CASE BreakOff
  BY <1>9 DEF BreakOff
<1>10. CASE EditSource
  BY <1>10 DEF EditSource
<1>11. CASE RemoveOutput
  BY <1>11 DEF RemoveOutput
<1>12. ASSUME NEW i \in Sources, ChangeSource(i)
       PROVE  TokensInv'
  BY <1>12, ChangeIsRemembered
<1>. QED
  BY <1>1, <1>2, <1>3, <1>4, <1>5, <1>6, <1>7, <1>8, <1>9, <1>10, <1>11, <1>12
     DEF Next, vars, Start, RefuseExisting, RefuseDescription, RefuseInputs,
         RefuseInitializers, FailToCopy, RefuseTypes, Fail

\* The runtime inputs a manifest lists hold all tokens, for all requests and
\* whatever happens between and during the runs, but for those whose file changed
\* after it was checked and before it was copied (configureRuntimeInputs checks the
\* sizes, generateMagiaApplication reads the files a second time).
THEOREM ListedInputsHoldEveryToken == Spec => []InputsHoldEveryToken
<1>1. Init => TokensInv
  BY DEF Init, TokensInv, InputsKept, CopiesKept
<1>2. StageInv /\ TokensInv /\ [Next]_vars => TokensInv'
  BY NextKeepsTokens
<1>3. TokensInv => InputsHoldEveryToken
  BY DEF TokensInv, CopiesKept, InputsHoldEveryToken
<1>. QED  BY <1>1, <1>2, <1>3, StagesKeep, PTL DEF Spec
=============================================================================
