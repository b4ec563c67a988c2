---------------------------- MODULE CircuitsBuild ----------------------------
(***************************************************************************)
(* The build script of a circuit that ships keys (circuits/build.rs with   *)
(* circuit-keys): circom sources are compiled to an r1cs, a symbol and a   *)
(* wasm file, these are published under target/, and keys are generated    *)
(* into testdata/ when they are missing or asked for.  Sources are edited  *)
(* at any time; a write may fail, and a build be killed between any two.   *)
(*                                                                         *)
(* A file is known by the version of the sources it was made from, a key   *)
(* file by the setup, the number of the run of the trusted setup.          *)
(***************************************************************************)
EXTENDS Integers, Sequences

CONSTANTS
  MaxEdits,     \* bound on the edits of the sources
  MaxBuilds,    \* bound on the builds
  MaxMishaps    \* bound on the writes that fail and the builds killed

NoFile == -1
Torn == -2  \* a file of which only the beginning was written

\* The key files in the order they are written; const is not essential.
KeyFiles == <<"proving_key", "vk", "vk_soroban", "vk_const">>
Essential == {"proving_key", "vk", "vk_soroban"}

VARIABLES
  source,     \* version of the circom sources, circomlib included
  newer,      \* the circuit's own file is newer than the newest of r1cs and sym
  circomlib,  \* the checkout: none, bare (no remote), remote, locked
  out,        \* OUT_DIR: r1cs, sym, wasm -> version
  published,  \* target/circuits-artifacts: r1cs, wasm -> version
  keys,       \* testdata: key file -> setup
  setup,      \* last setup run
  at,         \* where the build is
  parsed,     \* the version it compiles
  regen,      \* REGEN_KEYS is set
  wasmMade,   \* this build has a wasm it may publish
  compileCut, \* the last compile ended before it had a wasm
  keysCut,    \* the last generation missed or failed a write
  clean,      \* no mishap in the last or running build
  builds, mishaps

files == <<circomlib, out, published, keys, setup>>
job == <<at, parsed, regen, wasmMade>>
buildVars == <<source, newer, files, job, compileCut, keysCut, clean, builds, mishaps>>

BuildInit ==
  /\ source = 0 /\ newer = FALSE /\ circomlib = "none"
  /\ out = [f \in {"r1cs", "sym", "wasm"} |-> NoFile]
  /\ published = [f \in {"r1cs", "wasm"} |-> NoFile]
  /\ keys = [i \in DOMAIN KeyFiles |-> NoFile] /\ setup = 0
  /\ at = "idle" /\ parsed = 0 /\ regen = FALSE /\ wasmMade = FALSE
  /\ compileCut = FALSE /\ keysCut = FALSE /\ clean = TRUE
  /\ builds = 0 /\ mishaps = 0

\* The circuit's own file is edited, or one it includes: the pattern of
\* extract_circom_dependencies is anchored to the beginning of the text, where
\* the pragma is, so no included file is found and its age never looked at.
Edit ==
  /\ source < MaxEdits
  /\ source' = source + 1 /\ newer' \in {TRUE, newer}
  /\ UNCHANGED <<files, job, compileCut, keysCut, clean, builds, mishaps>>

-----------------------------------------------------------------------------
(* What the script decides.                                                *)

\* check_dependencies_need_rebuild: the circuit's own file against the newest
\* artifact.
UpToDate == out["r1cs"] # NoFile /\ out["sym"] # NoFile /\ ~newer

\* check_keys_need_generation.
NeedKeys ==
  regen \/ \E i \in DOMAIN KeyFiles : KeyFiles[i] \in Essential /\ keys[i] = NoFile

\* The build ends, with or without an error.
End == at' = "idle" /\ UNCHANGED <<parsed, regen, wasmMade>>

Goto(step) == at' = step /\ UNCHANGED <<parsed, regen, wasmMade>>

\* One more write that fails or build that is killed.
Mishap == mishaps < MaxMishaps /\ mishaps' = mishaps + 1 /\ clean' = FALSE

NoMishap == UNCHANGED <<mishaps, clean>>

-----------------------------------------------------------------------------
(* main, an action for each file.                                          *)

StartBuild ==
  /\ at = "idle" /\ builds < MaxBuilds /\ builds' = builds + 1
  /\ regen' \in BOOLEAN
  /\ at' = "circomlib" /\ UNCHANGED <<parsed, wasmMade>>
  /\ clean' = TRUE
  /\ UNCHANGED <<source, newer, files, compileCut, keysCut, mishaps>>

\* get_circomlib: git init, git remote add, then fetch and checkout, which
\* need the remote and the network; a checkout at the locked revision is
\* left alone.
GetCircomlib ==
  /\ at = "circomlib"
  /\ \/ /\ circomlib \in {"remote", "locked"}
        /\ circomlib' = "locked" /\ Goto("parse") /\ NoMishap
     \/ circomlib = "remote" /\ End /\ UNCHANGED circomlib /\ Mishap
     \/ circomlib = "none" /\ circomlib' = "bare" /\ Goto("remote") /\ NoMishap
     \/ circomlib = "bare" /\ End /\ UNCHANGED circomlib /\ NoMishap
  /\ UNCHANGED <<source, newer, out, published, keys, setup, compileCut, keysCut, builds>>

AddRemote ==
  /\ at = "remote"
  /\ circomlib' = "remote" /\ Goto("circomlib") /\ NoMishap
  /\ UNCHANGED <<source, newer, out, published, keys, setup, compileCut, keysCut, builds>>

\* Variant: nothing is published when nothing is compiled.
AfterSkip == "keys"

\* Where an up-to-date circuit goes: it is published all the same.
SkipTo == "publish_r1cs"

\* The sources are parsed; they are compiled when they are newer than the
\* r1cs and sym files, or the wasm is missing.
Parse ==
  /\ at = "parse"
  /\ parsed' = source
  /\ wasmMade' = (UpToDate /\ out["wasm"] # NoFile)
  /\ at' = IF UpToDate /\ out["wasm"] # NoFile THEN SkipTo ELSE "r1cs"
  /\ NoMishap
  /\ UNCHANGED <<source, newer, files, regen, compileCut, keysCut, builds>>

\* generate_output_r1cs, generate_output_sym: the file is the newest now.
WriteArtifact(f, next) ==
  /\ at = f
  /\ out' = [out EXCEPT ![f] = parsed] /\ newer' = FALSE
  /\ Goto(next) /\ NoMishap
  /\ compileCut' = TRUE
  /\ UNCHANGED <<source, circomlib, published, keys, setup, keysCut, builds>>

\* compile_wasm removes the old file before it writes the new one; it may
\* fail before, between and while it writes.
CompileWasm ==
  /\ at = "wasm"
  /\ \/ /\ out' = [out EXCEPT !["wasm"] = parsed]
        /\ wasmMade' = TRUE /\ compileCut' = FALSE /\ NoMishap
     \/ /\ \E left \in {out["wasm"], NoFile, Torn} : out' = [out EXCEPT !["wasm"] = left]
        /\ wasmMade' = FALSE /\ UNCHANGED compileCut /\ Mishap
  /\ at' = "publish_r1cs"
  /\ UNCHANGED <<source, newer, circomlib, published, keys, setup, parsed, regen, keysCut, builds>>

\* Without a wasm the build of a circuit with keys stops after publishing.
AfterPublish == IF wasmMade THEN Goto("keys") ELSE End

PublishStep == [r1cs |-> "publish_r1cs", wasm |-> "publish_wasm"]

\* copy: the old file is removed, then the new one renamed; a failure of the
\* r1cs leaves the wasm alone, and both are mere warnings.
Publish(f, next) ==
  /\ at = PublishStep[f]
  /\ \/ /\ published' = [published EXCEPT ![f] = out[f]]
        /\ NoMishap
        /\ IF f = "r1cs" /\ wasmMade THEN Goto(next) ELSE AfterPublish
     \/ /\ \E left \in {published[f], NoFile} : published' = [published EXCEPT ![f] = left]
        /\ Mishap
        /\ AfterPublish
  /\ UNCHANGED <<source, newer, circomlib, out, keys, setup, compileCut, keysCut, builds>>

\* generate_keys_if_needed: a new setup, of the r1cs in OUT_DIR, which is read
\* with the wasm; when one of them cannot be read there is a warning.
RunSetup ==
  /\ at = "keys"
  /\ IF NeedKeys /\ Torn \notin {out["r1cs"], out["wasm"]}
     THEN /\ setup' = setup + 1 /\ keysCut' = TRUE /\ Goto("key_1")
     ELSE End /\ UNCHANGED <<setup, keysCut>>
  /\ NoMishap
  /\ UNCHANGED <<source, newer, circomlib, out, published, keys, compileCut, builds>>

KeyStep == <<"key_1", "key_2", "key_3", "key_4">>

\* Variant: a key file that exists is left alone.
KeyWritten(i) == IF keys[i] = NoFile THEN setup ELSE keys[i]

Written(i) == setup

\* atomic_write renames a temporary file; a failure, which may be that of
\* the sync after the renaming, is a mere warning.
WriteKey(i) ==
  /\ at = KeyStep[i]
  /\ \/ keys' = [keys EXCEPT ![i] = Written(i)] /\ NoMishap
     \/ \E key \in {keys[i], Written(i)} : keys' = [keys EXCEPT ![i] = key] /\ Mishap
  /\ IF i < Len(KeyFiles) THEN Goto(KeyStep[i + 1]) ELSE End
  /\ keysCut' = IF i < Len(KeyFiles) THEN keysCut ELSE ~clean'
  /\ UNCHANGED <<source, newer, circomlib, out, published, setup, compileCut, builds>>

\* The build is killed, or panics; the file it writes may be cut off then, and
\* the wasm have just been removed.
Kill ==
  /\ at # "idle"
  /\ Mishap /\ End
  /\ \/ UNCHANGED <<out, newer, compileCut>>
     \/ /\ at \in DOMAIN out
        /\ \E left \in {Torn} \union (IF at = "wasm" THEN {NoFile} ELSE {}) :
             out' = [out EXCEPT ![at] = left]
        /\ newer' = (at = "wasm" /\ newer) /\ compileCut' = TRUE
  /\ UNCHANGED <<source, circomlib, published, keys, setup, keysCut, builds>>

BuildNext ==
  \/ Edit \/ StartBuild \/ GetCircomlib \/ AddRemote \/ Parse
  \/ WriteArtifact("r1cs", "sym") \/ WriteArtifact("sym", "wasm") \/ CompileWasm
  \/ Publish("r1cs", "publish_wasm") \/ Publish("wasm", "keys")
  \/ RunSetup \/ (\E i \in DOMAIN KeyFiles : WriteKey(i))
  \/ Kill

BuildSpec == BuildInit /\ [][BuildNext]_buildVars

-----------------------------------------------------------------------------
(* Correctness.                                                            *)

(***************************************************************************)
(* After a build without mishap the published files are those of OUT_DIR,  *)
(* whatever earlier builds left there, and a witness is computed by the    *)
(* wasm of the very r1cs it is for unless a compile was cut short.         *)
(***************************************************************************)
PublishedFilesFit ==
  at = "idle" /\ clean /\ builds > 0 /\ circomlib = "locked" =>
    /\ \A f \in {"r1cs", "wasm"} : published[f] = out[f]
    /\ ~compileCut => published["r1cs"] = published["wasm"]

(***************************************************************************)
(* The proving key and the verification keys are of one setup, however the *)
(* builds before them ended, unless the last generation itself was cut     *)
(* short: no build mixes the files of two setups.                          *)
(***************************************************************************)
KeysOfOneSetup ==
  at = "idle" /\ ~keysCut =>
    \A i, j \in DOMAIN KeyFiles : keys[i] = keys[j]
=============================================================================
