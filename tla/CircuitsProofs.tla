---------------------------- MODULE CircuitsProofs ----------------------------
(* Theorems about what a circuit becomes: CircuitsBuild, the script that    *)
(* compiles it and makes its keys, for every number of edits, builds and    *)
(* mishaps, and Release, the way of the ceremony's keys to a proof, for     *)
(* every number of circuits, setups and exports; and about the hash every   *)
(* circuit has in it, Poseidon2, for every field and table of constants.    *)
EXTENDS CircuitsBuild, Release, Poseidon2, SequenceTheorems, TLAPS

-----------------------------------------------------------------------------
(* The build: the inductive invariant.                                     *)

Compiling == {"r1cs", "sym", "wasm"}
Publishing == {"publish_r1cs", "publish_wasm"}
WritingKeys == {"key_1", "key_2", "key_3", "key_4"}

BuildTypeOK ==
  /\ source \in Int /\ parsed \in Int
  /\ out \in [{"r1cs", "sym", "wasm"} -> Int]
  /\ published \in [{"r1cs", "wasm"} -> Int]
  /\ keys \in [1 .. 4 -> Int] /\ setup \in Int
  /\ at \in {"idle", "circomlib", "remote", "parse", "keys"}
            \cup Compiling \cup Publishing \cup WritingKeys
  /\ wasmMade \in BOOLEAN /\ clean \in BOOLEAN
  /\ compileCut \in BOOLEAN /\ keysCut \in BOOLEAN

\* Until a compile has a wasm it counts as cut short.
CompilesTogether ==
  /\ at \in {"sym", "wasm"} => compileCut /\ out["r1cs"] = parsed
  /\ ~compileCut => out["r1cs"] = out["wasm"]

Published(f) == published[f] = out[f]

\* A build without mishap publishes what is in OUT_DIR before it goes on, or
\* stops for want of a circomlib.
PublishesAll ==
  clean =>
    /\ at \in Publishing => wasmMade
    /\ at \in {"publish_wasm", "keys"} \cup WritingKeys => Published("r1cs")
    /\ at \in {"keys"} \cup WritingKeys => Published("wasm")
    /\ at = "idle" /\ builds > 0 /\ circomlib = "locked" => Published("r1cs") /\ Published("wasm")

\* A generation counts as cut short until its last file is written.
KeysTogether ==
  /\ at \in WritingKeys => keysCut
  /\ ~keysCut => \A i, j \in 1 .. 4 : keys[i] = keys[j]
  /\ \A i \in 1 .. 4 : clean /\ at = KeyStep[i] => \A j \in 1 .. i - 1 : keys[j] = setup

BuildInv == BuildTypeOK /\ CompilesTogether /\ PublishesAll /\ KeysTogether

LEMMA Steps ==
  /\ DOMAIN KeyFiles = 1 .. 4 /\ Len(KeyFiles) = 4
  /\ KeyStep[1] = "key_1" /\ KeyStep[2] = "key_2" /\ KeyStep[3] = "key_3" /\ KeyStep[4] = "key_4"
  /\ PublishStep["r1cs"] = "publish_r1cs" /\ PublishStep["wasm"] = "publish_wasm"
BY DEF KeyFiles, KeyStep, PublishStep

LEMMA KeySteps ==
  \A i \in 1 .. 4 : /\ KeyStep[i] \in WritingKeys
                    /\ \A j \in 1 .. 4 : KeyStep[i] = KeyStep[j] => i = j
BY Steps DEF WritingKeys

LEMMA BuildStarts ==
  BuildInit => BuildInv
<1> SUFFICES ASSUME BuildInit PROVE BuildInv
  OBVIOUS
<1>1. keys = [i \in 1 .. 4 |-> -1]
  BY Steps DEF BuildInit, NoFile
<1>2. BuildTypeOK
  <2>1. NoFile \in Int /\ 0 \in Int
    BY DEF NoFile
  <2>2. keys \in [1 .. 4 -> Int] /\ setup \in Int /\ source \in Int /\ parsed \in Int
    BY <1>1, <2>1 DEF BuildInit
  <2>3. out \in [{"r1cs", "sym", "wasm"} -> Int] /\ published \in [{"r1cs", "wasm"} -> Int]
    BY <2>1 DEF BuildInit
  <2>4. QED
    BY <2>2, <2>3 DEF BuildInit, BuildTypeOK
<1>3. CompilesTogether /\ PublishesAll
  BY DEF BuildInit, CompilesTogether, PublishesAll, Publishing, WritingKeys, Published
<1>4. KeysTogether
  BY <1>1, KeySteps DEF BuildInit, KeysTogether, WritingKeys
<1>5. QED
  BY <1>2, <1>3, <1>4 DEF BuildInv

\* The keys are as they were, and the build is not among them.
LEMMA KeysLeft ==
  ASSUME KeysTogether, UNCHANGED <<keys, setup, keysCut>>, at' \notin WritingKeys
  PROVE  KeysTogether'
BY KeySteps DEF KeysTogether

LEMMA StartInv ==
  ASSUME BuildInv, Edit \/ StartBuild \/ GetCircomlib \/ AddRemote \/ Parse
  PROVE  BuildInv'
<1> USE DEF BuildInv
<1>1. CASE Edit
  BY <1>1 DEF Edit, files, job, BuildTypeOK, CompilesTogether, PublishesAll, Published, KeysTogether
<1>2. CASE StartBuild
  <2>1. /\ at' = "circomlib"
        /\ UNCHANGED <<source, parsed, out, published, keys, setup, wasmMade, compileCut, keysCut>>
        /\ clean' = TRUE
    BY <1>2 DEF StartBuild, files
  <2>2. BuildTypeOK' /\ CompilesTogether' /\ PublishesAll'
    BY <2>1 DEF BuildTypeOK, CompilesTogether, PublishesAll, Publishing, WritingKeys
  <2>3. QED
    BY <2>1, <2>2, KeysLeft DEF WritingKeys
<1>3. CASE GetCircomlib \/ AddRemote
  <2>1. /\ at' \in {"parse", "remote", "circomlib", "idle"}
        /\ UNCHANGED <<source, parsed, out, published, keys, setup, wasmMade, compileCut, keysCut>>
        /\ clean' \in BOOLEAN
        /\ at' = "idle" => ~clean' \/ circomlib' = "bare"
    BY <1>3 DEF GetCircomlib, AddRemote, Goto, End, Mishap, NoMishap, BuildTypeOK
  <2>2. BuildTypeOK' /\ CompilesTogether' /\ PublishesAll'
    BY <2>1 DEF BuildTypeOK, CompilesTogether, PublishesAll, Publishing, WritingKeys
  <2>3. QED
    BY <2>1, <2>2, KeysLeft DEF WritingKeys
<1>4. CASE Parse
  <2>1. /\ wasmMade' = (UpToDate /\ out["wasm"] # NoFile)
        /\ at' = IF wasmMade' THEN "publish_r1cs" ELSE "r1cs"
        /\ parsed' = source
        /\ UNCHANGED <<source, out, published, keys, setup, compileCut, keysCut, clean>>
    BY <1>4 DEF Parse, SkipTo, NoMishap, files
  <2>2. wasmMade' \in BOOLEAN
    BY <2>1
  <2>3. BuildTypeOK'
    BY <2>1, <2>2 DEF BuildTypeOK, Compiling, Publishing
  <2>4. CompilesTogether' /\ PublishesAll'
    BY <2>1 DEF CompilesTogether, PublishesAll, Publishing, WritingKeys
  <2>5. QED
    BY <2>1, <2>3, <2>4, KeysLeft DEF WritingKeys
<1>5. QED
  BY <1>1, <1>2, <1>3, <1>4

LEMMA CompileInv ==
  ASSUME BuildInv, WriteArtifact("r1cs", "sym") \/ WriteArtifact("sym", "wasm") \/ CompileWasm
  PROVE  BuildInv'
<1> USE DEF BuildInv
<1>1. ASSUME NEW f \in {"r1cs", "sym"}, NEW next \in {"sym", "wasm"}, next # f,
             f = "sym" => next = "wasm", f = "r1cs" => next = "sym", WriteArtifact(f, next)
      PROVE  BuildInv'
  <2>1. /\ at = f /\ at' = next /\ out' = [out EXCEPT ![f] = parsed] /\ compileCut'
        /\ UNCHANGED <<source, parsed, published, keys, setup, wasmMade, keysCut, clean>>
        /\ compileCut' \in BOOLEAN
    BY <1>1 DEF WriteArtifact, Goto, NoMishap
  <2>2. BuildTypeOK'
    BY <1>1, <2>1 DEF BuildTypeOK, Compiling
  <2>3. CompilesTogether'
    BY <1>1, <2>1 DEF BuildTypeOK, CompilesTogether
  <2>4. PublishesAll'
    BY <1>1, <2>1 DEF PublishesAll, Publishing, WritingKeys
  <2>5. QED
    BY <1>1, <2>1, <2>2, <2>3, <2>4, KeysLeft DEF WritingKeys
<1>2. CASE CompileWasm
  <2>1. /\ at = "wasm" /\ at' = "publish_r1cs"
        /\ UNCHANGED <<source, parsed, published, keys, setup, keysCut>>
        /\ \/ /\ out' = [out EXCEPT !["wasm"] = parsed] /\ wasmMade' = TRUE /\ compileCut' = FALSE
              /\ clean' = clean
           \/ /\ \E left \in Int : out' = [out EXCEPT !["wasm"] = left]
              /\ wasmMade' = FALSE /\ compileCut' = compileCut /\ clean' = FALSE
    BY <1>2 DEF CompileWasm, NoMishap, Mishap, BuildTypeOK, NoFile, Torn
  <2>2. BuildTypeOK'
    BY <2>1 DEF BuildTypeOK, Publishing
  <2>3. CompilesTogether'
    BY <2>1 DEF BuildTypeOK, CompilesTogether
  <2>4. PublishesAll'
    BY <2>1 DEF PublishesAll, Publishing, WritingKeys
  <2>5. QED
    BY <2>1, <2>2, <2>3, <2>4, KeysLeft DEF WritingKeys
<1>3. QED
  BY <1>1, <1>2

LEMMA PublishInv ==
  ASSUME BuildInv, Publish("r1cs", "publish_wasm") \/ Publish("wasm", "keys")
  PROVE  BuildInv'
<1> USE DEF BuildInv
<1>1. PICK f \in {"r1cs", "wasm"} :
        /\ at = PublishStep[f]
        /\ \/ /\ published' = [published EXCEPT ![f] = out[f]] /\ clean' = clean
              /\ at' = IF f = "r1cs" /\ wasmMade THEN "publish_wasm"
                       ELSE IF wasmMade THEN "keys" ELSE "idle"
           \/ /\ \E left \in Int : published' = [published EXCEPT ![f] = left]
              /\ clean' = FALSE /\ at' \in {"keys", "idle"}
        /\ UNCHANGED <<source, parsed, out, keys, setup, wasmMade, compileCut, keysCut>>
  BY DEF Publish, AfterPublish, Goto, End, NoMishap, Mishap, BuildTypeOK, NoFile
<1>2. at \in Publishing
  BY <1>1, Steps DEF Publishing
<1>3. BuildTypeOK'
  BY <1>1 DEF BuildTypeOK, Publishing
<1>4. CompilesTogether'
  BY <1>1 DEF CompilesTogether
<1>5. PublishesAll'
  <2> SUFFICES ASSUME clean' PROVE PublishesAll'
    BY DEF PublishesAll
  <2>1. clean /\ wasmMade /\ published' = [published EXCEPT ![f] = out[f]]
        /\ at' = IF f = "r1cs" THEN "publish_wasm" ELSE "keys"
    BY <1>1, <1>2 DEF PublishesAll
  <2>2. published'[f] = out'[f] /\ (f = "wasm" => published'["r1cs"] = published["r1cs"])
    BY <1>1, <2>1 DEF BuildTypeOK
  <2>3. f = "wasm" => Published("r1cs")
    BY <1>1, <2>1, Steps DEF PublishesAll
  <2>4. CASE f = "r1cs"
    BY <1>1, <2>1, <2>2, <2>4 DEF PublishesAll, Published, Publishing, WritingKeys
  <2>5. CASE f = "wasm"
    BY <1>1, <2>1, <2>2, <2>3, <2>5 DEF PublishesAll, Published, Publishing, WritingKeys
  <2>6. QED
    BY <2>4, <2>5
<1>6. at' \notin WritingKeys
  BY <1>1 DEF WritingKeys
<1>7. QED
  BY <1>1, <1>3, <1>4, <1>5, <1>6, KeysLeft

LEMMA RunSetupInv ==
  ASSUME BuildInv, RunSetup
  PROVE  BuildInv'
<1> USE DEF BuildInv
<1>1. /\ at = "keys"
      /\ \/ setup' = setup + 1 /\ keysCut' = TRUE /\ at' = "key_1"
         \/ at' = "idle" /\ UNCHANGED <<setup, keysCut>>
      /\ UNCHANGED <<source, parsed, out, published, keys, wasmMade, compileCut, clean>>
  BY DEF RunSetup, Goto, End, NoMishap
<1>2. BuildTypeOK'
  <2>1. setup' \in Int
    BY <1>1 DEF BuildTypeOK
  <2>2. QED
    BY <1>1, <2>1 DEF BuildTypeOK, WritingKeys
<1>3. CompilesTogether'
  BY <1>1 DEF CompilesTogether
<1>4. PublishesAll'
  BY <1>1 DEF PublishesAll, Published, Publishing, WritingKeys
<1>5. KeysTogether'
  <2>1. CASE at' = "idle"
    BY <1>1, <2>1, KeysLeft DEF WritingKeys
  <2>2. CASE at' = "key_1" /\ keysCut' = TRUE
    <3>1. \A i \in 1 .. 4 : at' = KeyStep[i] => i = 1
      BY <2>2, Steps, KeySteps
    <3>2. QED
      BY <2>2, <3>1 DEF KeysTogether
  <2>3. QED
    BY <1>1, <2>1, <2>2
<1>6. QED
  BY <1>2, <1>3, <1>4, <1>5

\* The last file of a generation without mishap completes the set.
LEMMA WriteKeyInv ==
  ASSUME BuildInv, NEW i \in 1 .. 4, WriteKey(i)
  PROVE  BuildInv'
<1> USE DEF BuildInv
<1>1. /\ at = KeyStep[i]
      /\ \/ keys' = [keys EXCEPT ![i] = setup] /\ clean' = clean
         \/ (\E key \in Int : keys' = [keys EXCEPT ![i] = key]) /\ clean' = FALSE
      /\ at' = IF i < 4 THEN KeyStep[i + 1] ELSE "idle"
      /\ keysCut' = IF i < 4 THEN keysCut ELSE ~clean'
      /\ UNCHANGED <<source, parsed, out, published, setup, wasmMade, compileCut>>
  BY Steps DEF WriteKey, Written, Goto, End, NoMishap, Mishap, BuildTypeOK
<1>2. at \in WritingKeys /\ (i < 4 => at' \in WritingKeys) /\ (i = 4 => at' = "idle")
  BY <1>1, KeySteps
<1>3. BuildTypeOK'
  BY <1>1, <1>2 DEF BuildTypeOK
<1>4. CompilesTogether'
  BY <1>1, <1>2 DEF CompilesTogether, WritingKeys
<1>5. clean' => clean
  BY <1>1
<1>6. PublishesAll'
  BY <1>1, <1>2, <1>5 DEF PublishesAll, Published, Publishing, WritingKeys
<1>7. clean' => \A j \in 1 .. i : keys'[j] = setup
  <2> SUFFICES ASSUME clean', NEW j \in 1 .. i PROVE keys'[j] = setup
    OBVIOUS
  <2>1. keys \in [1 .. 4 -> Int] /\ keys' = [keys EXCEPT ![i] = setup]
    BY <1>1 DEF BuildTypeOK
  <2>2. \A k \in 1 .. i - 1 : keys[k] = setup
    BY <1>1, <1>5 DEF KeysTogether
  <2>3. j \in 1 .. 4 /\ (j = i \/ j \in 1 .. i - 1)
    OBVIOUS
  <2>4. QED
    BY <2>1, <2>2, <2>3
<1>8. KeysTogether'
  <2>1. keysCut
    BY <1>2 DEF KeysTogether
  <2>2. CASE i = 4
    <3>1. ~keysCut' => \A j, k \in 1 .. 4 : keys'[j] = keys'[k]
      <4>1. keysCut' = ~clean' /\ ~(i < 4)
        BY <1>1, <2>2
      <4>2. QED
        BY <1>7, <2>2, <4>1
    <3>2. at' \notin WritingKeys
      BY <1>2, <2>2 DEF WritingKeys
    <3>3. QED
      BY <3>1, <3>2, KeySteps DEF KeysTogether
  <2>3. CASE i < 4
    <3>1. keysCut'
      BY <1>1, <2>1, <2>3
    <3>2. \A j \in 1 .. 4 : at' = KeyStep[j] => j = i + 1
      BY <1>1, <2>3, KeySteps
    <3>3. \A j \in 1 .. 4 : clean' /\ at' = KeyStep[j] => \A k \in 1 .. j - 1 : keys'[k] = setup'
      BY <1>1, <1>7, <3>2
    <3>4. QED
      BY <3>1, <3>3 DEF KeysTogether
  <2>4. QED
    BY <2>2, <2>3
<1>9. QED
  BY <1>3, <1>4, <1>6, <1>8

LEMMA KillInv ==
  ASSUME BuildInv, Kill
  PROVE  BuildInv'
<1> USE DEF BuildInv
<1>1. /\ clean' = FALSE /\ at' = "idle"
      /\ UNCHANGED <<source, parsed, published, keys, setup, wasmMade, keysCut>>
      /\ \/ UNCHANGED <<out, compileCut>>
         \/ /\ \E f \in {"r1cs", "sym", "wasm"}, left \in Int : out' = [out EXCEPT ![f] = left]
            /\ compileCut' = TRUE
  <2>1. CASE UNCHANGED <<out, compileCut>>
    BY <2>1 DEF Kill, Mishap, End
  <2>2. CASE ~UNCHANGED <<out, compileCut>>
    <3>1. at \in DOMAIN out /\ compileCut' = TRUE
      BY <2>2 DEF Kill
    <3>2. PICK left \in {Torn} \union (IF at = "wasm" THEN {NoFile} ELSE {}) :
            out' = [out EXCEPT ![at] = left]
      BY <2>2 DEF Kill
    <3>3. left \in Int /\ at \in {"r1cs", "sym", "wasm"}
      BY <3>1, <3>2 DEF BuildTypeOK, NoFile, Torn
    <3>4. QED
      BY <3>1, <3>2, <3>3 DEF Kill, Mishap, End
  <2>3. QED
    BY <2>1, <2>2
<1>2. BuildTypeOK'
  BY <1>1 DEF BuildTypeOK
<1>3. CompilesTogether'
  BY <1>1 DEF CompilesTogether
<1>4. PublishesAll'
  BY <1>1 DEF PublishesAll
<1>5. QED
  BY <1>1, <1>2, <1>3, <1>4, KeysLeft DEF WritingKeys

LEMMA BuildStep ==
  ASSUME BuildInv, [BuildNext]_buildVars
  PROVE  BuildInv'
<1>1. CASE UNCHANGED buildVars
  BY <1>1 DEF buildVars, files, job, BuildInv, BuildTypeOK, CompilesTogether, PublishesAll, Published,
              KeysTogether
<1>2. CASE BuildNext
  BY <1>2, StartInv, CompileInv, PublishInv, RunSetupInv, WriteKeyInv, KillInv, Steps DEF BuildNext
<1>3. QED
  BY <1>1, <1>2

LEMMA BuildInvariant == BuildSpec => []BuildInv
BY BuildStarts, BuildStep, PTL DEF BuildSpec

(***************************************************************************)
(* A build without mishap leaves the published r1cs and wasm those of      *)
(* OUT_DIR, compiled from the same sources unless a compile was cut short  *)
(* (circuits/build.rs).                                                    *)
(***************************************************************************)
THEOREM CleanBuildsPublish == BuildSpec => []PublishedFilesFit
<1>1. BuildInv => PublishedFilesFit
  BY DEF BuildInv, CompilesTogether, PublishesAll, Published, PublishedFilesFit
<1>2. QED
  BY <1>1, BuildInvariant, PTL

(***************************************************************************)
(* The key files are of one setup unless the last generation of keys was   *)
(* cut short, whatever builds were killed before (circuits/build.rs,       *)
(* generate_keys_if_needed).                                               *)
(***************************************************************************)
THEOREM KeysAreOfOneSetup == BuildSpec => []KeysOfOneSetup
<1>1. BuildInv => KeysOfOneSetup
  BY Steps DEF BuildInv, KeysTogether, KeysOfOneSetup
<1>2. QED
  BY <1>1, BuildInvariant, PTL

-----------------------------------------------------------------------------
(* The release: the inductive invariant.                                   *)

Setups == 0 .. Len(setups)  \* the numbers of the setups made, and None

AppType == [key : Setups, circuit : Nat, export : Nat]

ReleaseTypeOK ==
  /\ circuit \in Nat /\ setups \in Seq(Nat) /\ exports \in Nat
  /\ zkeys \in [{"init", "contribution", "final"} -> Setups]
  /\ deployedKeys \in [1 .. 3 -> Setups]
  /\ cutShort \in BOOLEAN /\ mixed \in BOOLEAN
  /\ verifier \in [key : Setups, export : Nat]
  /\ site \in [app : AppType, r1cs : Nat, wasm : Nat]
  /\ worker \in [state : {"none", "loading", "ready", "proved"},
                 app : AppType, wasm : Nat, r1cs : Nat]

\* What was built on the exported keys: the verifier, the app that is served
\* and the app a worker runs.
Built == {[key |-> verifier.key, export |-> verifier.export],
          [key |-> site.app.key, export |-> site.app.export],
          [key |-> worker.app.key, export |-> worker.app.export]}

\* What was built on an export that ended has its key, and while that export
\* is the last one, so have the files that are there.
BuiltOnExports ==
  /\ \A b \in Built : b.export <= exports
  /\ \A b, c \in Built : b.export # Absent /\ b.export = c.export => b.key = c.key
  /\ \A b \in Built, i \in 1 .. 3 :
       b.export # Absent /\ b.export = exports /\ ~cutShort /\ deployedKeys[i] # Absent
         => deployedKeys[i] = b.key

\* A worker that handed out a proof has seen it verified.
ProofsVerified ==
  worker.state = "proved" =>
    worker.app.key # Absent /\ setups[worker.app.key] = worker.wasm

\* A worker runs an app that was built on a proving key.
AppsHaveKeys ==
  /\ site.app # NoApp => site.app.key # Absent
  /\ worker.state # "none" => worker.app.key # Absent

ReleaseInv ==
  /\ ReleaseTypeOK /\ ExportOfOneSetup
  /\ BuiltOnExports /\ AppsHaveKeys /\ ProofsVerified

LEMMA ThreeFiles == DOMAIN ExportFiles = 1 .. 3 /\ Len(ExportFiles) = 3
BY DEF ExportFiles

LEMMA ReleaseStarts ==
  ReleaseInit => ReleaseInv
<1> SUFFICES ASSUME ReleaseInit PROVE ReleaseInv
  OBVIOUS
<1>1. deployedKeys = [i \in 1 .. 3 |-> Absent] /\ DOMAIN ExportFiles = 1 .. 3
  BY ThreeFiles DEF ReleaseInit
<1>2. ReleaseTypeOK
  <2>1. Setups = {0} /\ setups \in Seq(Nat) /\ NoApp \in AppType
    BY DEF ReleaseInit, Setups, NoApp, AppType, Absent
  <2>2. /\ zkeys \in [{"init", "contribution", "final"} -> Setups]
        /\ deployedKeys \in [1 .. 3 -> Setups] /\ verifier \in [key : Setups, export : Nat]
    BY <1>1, <2>1 DEF ReleaseInit, Absent
  <2>3. /\ site \in [app : AppType, r1cs : Nat, wasm : Nat]
        /\ worker \in [state : {"none", "loading", "ready", "proved"},
                       app : AppType, wasm : Nat, r1cs : Nat]
    BY <2>1 DEF ReleaseInit, NoWorker, Absent
  <2>4. QED
    BY <2>1, <2>2, <2>3 DEF ReleaseInit, ReleaseTypeOK
<1>3. ExportOfOneSetup
  BY <1>1 DEF ExportOfOneSetup
<1>4. BuiltOnExports
  BY DEF ReleaseInit, BuiltOnExports, Built, NoApp, NoWorker, Absent
<1>5. QED
  BY <1>2, <1>3, <1>4
     DEF ReleaseInv, ReleaseInit, AppsHaveKeys, ProofsVerified, NoApp, NoWorker

-----------------------------------------------------------------------------
(* The ceremony.                                                           *)

\* A setup is added, no file but a zkey is touched.
LEMMA MadeInv ==
  ASSUME ReleaseInv, NEW step \in {"init", "contribution", "final"}, NEW c \in Nat,
         NEW force \in BOOLEAN, Make(step, c, force)
  PROVE  ReleaseInv'
<1>1. /\ setups \in Seq(Nat) /\ setups' = Append(setups, c)
      /\ zkeys' = [zkeys EXCEPT ![step] = Len(setups) + 1]
      /\ UNCHANGED <<circuit, deployedKeys, exports, cutShort, mixed, verifier, site, worker>>
  BY DEF Make, ReleaseInv, ReleaseTypeOK, exported
<1>2. setups' \in Seq(Nat) /\ Len(setups) \in Nat /\ Len(setups') = Len(setups) + 1
      /\ \A s \in 1 .. Len(setups) : setups'[s] = setups[s]
  BY <1>1
<1>3. Setups \subseteq Setups' /\ Len(setups) + 1 \in Setups'
  BY <1>2 DEF Setups
<1>4. ReleaseTypeOK'
  <2>1. zkeys' \in [{"init", "contribution", "final"} -> Setups']
    BY <1>1, <1>3 DEF ReleaseInv, ReleaseTypeOK
  <2>2. AppType \subseteq AppType'
    BY <1>3 DEF AppType
  <2>3. /\ deployedKeys' \in [1 .. 3 -> Setups'] /\ verifier' \in [key : Setups', export : Nat]
    BY <1>1, <1>3 DEF ReleaseInv, ReleaseTypeOK
  <2>4. site' \in [app : AppType', r1cs : Nat, wasm : Nat]
    BY <1>1, <2>2 DEF ReleaseInv, ReleaseTypeOK
  <2>5. worker' \in [state : {"none", "loading", "ready", "proved"},
                     app : AppType', wasm : Nat, r1cs : Nat]
    BY <1>1, <2>2 DEF ReleaseInv, ReleaseTypeOK
  <2>6. QED
    BY <1>1, <1>2, <2>1, <2>3, <2>4, <2>5 DEF ReleaseInv, ReleaseTypeOK
<1>5. ExportOfOneSetup' /\ BuiltOnExports' /\ AppsHaveKeys'
  BY <1>1 DEF ReleaseInv, ExportOfOneSetup, BuiltOnExports, Built, AppsHaveKeys
<1>6. ProofsVerified'
  <2>1. worker.app.key \in Setups
    BY DEF ReleaseInv, ReleaseTypeOK, AppType
  <2>2. worker.app.key # Absent => setups'[worker.app.key] = setups[worker.app.key]
    BY <1>2, <2>1 DEF Setups, Absent
  <2>3. QED
    BY <1>1, <2>2 DEF ReleaseInv, ProofsVerified
<1>7. QED
  BY <1>4, <1>5, <1>6 DEF ReleaseInv

LEMMA CeremonyInv ==
  ASSUME ReleaseInv, NEW force \in BOOLEAN,
         \/ InitCeremony(force)
         \/ \E from \in DOMAIN zkeys : Contribute(from, force) \/ Finalize(from, force)
  PROVE  ReleaseInv'
<1>1. /\ circuit \in Nat /\ setups \in Seq(Nat)
      /\ zkeys \in [{"init", "contribution", "final"} -> Setups]
  BY DEF ReleaseInv, ReleaseTypeOK
<1>2. CASE InitCeremony(force)
  BY <1>1, <1>2, MadeInv DEF InitCeremony
<1>3. ASSUME NEW from \in DOMAIN zkeys, Contribute(from, force) PROVE ReleaseInv'
  BY <1>1, <1>3, MadeInv DEF Contribute
<1>4. ASSUME NEW from \in DOMAIN zkeys, Finalize(from, force) PROVE ReleaseInv'
  <2>1. from \in {"init", "contribution", "final"} /\ zkeys[from] # Absent
    BY <1>1, <1>4 DEF Finalize
  <2>2. zkeys[from] \in 1 .. Len(setups)
    BY <1>1, <2>1 DEF Setups, Absent
  <2>3. setups[zkeys[from]] \in Nat
    BY <1>1, <2>2
  <2>4. QED
    BY <1>4, <2>3, MadeInv DEF Finalize
<1>5. QED
  BY <1>2, <1>3, <1>4

-----------------------------------------------------------------------------
(* The export and the builds.                                              *)

\* Nothing has been built yet on an export that begins.
LEMMA ExportInv ==
  ASSUME ReleaseInv, NEW force \in BOOLEAN, Export(force)
  PROVE  ReleaseInv'
<1> DEFINE final == zkeys["final"]
<1>1. /\ final \in Setups /\ exports \in Nat /\ deployedKeys \in [1 .. 3 -> Setups]
      /\ exports' = exports + 1 /\ mixed' = force
      /\ UNCHANGED <<circuit, setups, zkeys, verifier, site, worker>>
  BY DEF Export, ReleaseInv, ReleaseTypeOK, ceremony
<1>2. PICK written \in 0 .. 3 :
        /\ deployedKeys' = [i \in 1 .. 3 |-> IF i <= written THEN final ELSE deployedKeys[i]]
        /\ cutShort' = (written < 3)
  BY ThreeFiles DEF Export
<1>3. ~force => \A i \in 1 .. 3 : deployedKeys[i] = Absent
  BY ThreeFiles DEF Export, ExportAllowed, Allowed
<1> HIDE DEF final
<1>4. ReleaseTypeOK'
  BY <1>1, <1>2 DEF ReleaseInv, ReleaseTypeOK, Setups, AppType
<1>5. ExportOfOneSetup'
  <2> SUFFICES ASSUME ~(cutShort' /\ mixed'),
                      NEW i \in 1 .. 3, NEW j \in 1 .. 3,
                      deployedKeys'[i] # Absent, deployedKeys'[j] # Absent
               PROVE  deployedKeys'[i] = deployedKeys'[j]
    BY ThreeFiles DEF ExportOfOneSetup
  <2>1. CASE written = 3
    BY <1>2, <2>1
  <2>2. CASE written # 3
    <3>1. ~force
      BY <1>1, <1>2, <2>2
    <3>2. QED
      BY <1>2, <1>3, <3>1
  <2>3. QED
    BY <2>1, <2>2
<1>6. Built' = Built
  BY <1>1 DEF Built
<1>7. \A b \in Built : b.export \in Nat
  BY DEF Built, ReleaseInv, ReleaseTypeOK, AppType
<1>8. BuiltOnExports'
  BY <1>1, <1>6, <1>7 DEF ReleaseInv, BuiltOnExports
<1>9. QED
  BY <1>1, <1>4, <1>5, <1>8 DEF ReleaseInv, AppsHaveKeys, ProofsVerified

LEMMA RemoveInv ==
  ASSUME ReleaseInv, NEW i \in DOMAIN ExportFiles, Remove(i)
  PROVE  ReleaseInv'
<1>1. /\ deployedKeys \in [1 .. 3 -> Setups]
      /\ DOMAIN ExportFiles = 1 .. 3 /\ Absent \in Setups
  BY ThreeFiles DEF ReleaseInv, ReleaseTypeOK, Setups, Absent
<1>2. /\ deployedKeys' = [deployedKeys EXCEPT ![i] = Absent]
      /\ UNCHANGED <<circuit, setups, zkeys, exports, cutShort, mixed, verifier, site, worker>>
  BY DEF Remove, ceremony
<1>3. \A j \in 1 .. 3 : deployedKeys'[j] # Absent =>
        deployedKeys'[j] = deployedKeys[j] /\ deployedKeys[j] # Absent
  BY <1>1, <1>2
<1>4. ReleaseTypeOK'
  BY <1>1, <1>2 DEF ReleaseInv, ReleaseTypeOK, Setups, AppType
<1>5. ExportOfOneSetup' /\ BuiltOnExports'
  BY <1>1, <1>2, <1>3 DEF ReleaseInv, ExportOfOneSetup, BuiltOnExports, Built
<1>6. QED
  BY <1>2, <1>4, <1>5 DEF ReleaseInv, AppsHaveKeys, ProofsVerified

\* One more thing is built on the exported keys, or one that was there is used.
LEMMA BuiltInv ==
  ASSUME ReleaseTypeOK, ExportOfOneSetup, BuiltOnExports,
         NEW i \in 1 .. 3, deployedKeys[i] # Absent,
         UNCHANGED <<deployedKeys, exports, cutShort>>,
         Built' \subseteq Built \cup {[key |-> deployedKeys[i], export |-> CompleteExport]}
  PROVE  BuiltOnExports'
<1> DEFINE new == [key |-> deployedKeys[i], export |-> CompleteExport]
<1>1. /\ exports \in Nat /\ new.export \in {Absent, exports} /\ new.key = deployedKeys[i]
      /\ new.export # Absent => ~cutShort
  BY DEF CompleteExport, ReleaseTypeOK
<1>2. ~cutShort =>
        \A j \in 1 .. 3 : deployedKeys[j] # Absent => deployedKeys[j] = deployedKeys[i]
  BY ThreeFiles DEF ExportOfOneSetup
<1> HIDE DEF new
<1>3. \A b \in Built' : b \in Built \/ b = new
  BY DEF new
<1>4. \A b \in Built' : b.export <= exports
  BY <1>1, <1>3 DEF BuiltOnExports, Absent
<1>5. \A b \in Built : b.export # Absent /\ b.export = new.export => b.key = new.key
  BY <1>1 DEF BuiltOnExports
<1>6. \A b, c \in Built' : b.export # Absent /\ b.export = c.export => b.key = c.key
  BY <1>3, <1>5 DEF BuiltOnExports
<1>7. \A b \in Built', j \in 1 .. 3 :
        b.export # Absent /\ b.export = exports /\ ~cutShort /\ deployedKeys[j] # Absent
          => deployedKeys[j] = b.key
  BY <1>1, <1>2, <1>3 DEF BuiltOnExports
<1>8. QED
  BY <1>4, <1>6, <1>7 DEF BuiltOnExports

LEMMA DeployVerifierInv ==
  ASSUME ReleaseInv, DeployVerifier
  PROVE  ReleaseInv'
<1>1. /\ deployedKeys \in [1 .. 3 -> Setups] /\ exports \in Nat /\ deployedKeys[2] # Absent
      /\ verifier' = [key |-> deployedKeys[2], export |-> CompleteExport]
      /\ UNCHANGED <<circuit, setups, zkeys, deployedKeys, exports, cutShort, mixed, site, worker>>
  BY DEF DeployVerifier, Vk, ReleaseInv, ReleaseTypeOK, ceremony, exported
<1>2. CompleteExport \in Nat
  BY <1>1 DEF CompleteExport, Absent
<1>3. ReleaseTypeOK'
  BY <1>1, <1>2 DEF ReleaseInv, ReleaseTypeOK, Setups, AppType
<1>4. Built' \subseteq Built \cup {[key |-> deployedKeys[2], export |-> CompleteExport]}
  BY <1>1 DEF Built
<1>5. BuiltOnExports'
  BY <1>1, <1>4, BuiltInv DEF ReleaseInv
<1>6. QED
  BY <1>1, <1>3, <1>5 DEF ReleaseInv, ExportOfOneSetup, AppsHaveKeys, ProofsVerified

LEMMA BuildAppInv ==
  ASSUME ReleaseInv, BuildApp
  PROVE  ReleaseInv'
<1> DEFINE app == [key |-> deployedKeys[1], circuit |-> circuit, export |-> CompleteExport]
<1>1. /\ deployedKeys \in [1 .. 3 -> Setups] /\ exports \in Nat /\ deployedKeys[1] # Absent /\ circuit \in Nat
      /\ site \in [app : AppType, r1cs : Nat, wasm : Nat]
      /\ site' = [site EXCEPT !.app = app]
      /\ UNCHANGED <<circuit, setups, zkeys, deployedKeys, exports, cutShort, mixed, verifier, worker>>
  BY DEF BuildApp, ProvingKey, ReleaseInv, ReleaseTypeOK, ceremony, exported
<1>2. CompleteExport \in Nat
  BY <1>1 DEF CompleteExport, Absent
<1>3. app \in AppType /\ app.key = deployedKeys[1] /\ app.export = CompleteExport
  BY <1>1, <1>2 DEF AppType
<1> HIDE DEF app
<1>4. site' \in [app : AppType, r1cs : Nat, wasm : Nat] /\ site'.app = app
  BY <1>1, <1>3
<1>5. ReleaseTypeOK'
  BY <1>1, <1>4 DEF ReleaseInv, ReleaseTypeOK, Setups, AppType
<1>6. Built' \subseteq Built \cup {[key |-> deployedKeys[1], export |-> CompleteExport]}
  BY <1>1, <1>3, <1>4 DEF Built
<1>7. BuiltOnExports'
  BY <1>1, <1>6, BuiltInv DEF ReleaseInv
<1>8. AppsHaveKeys'
  BY <1>1, <1>3, <1>4 DEF ReleaseInv, AppsHaveKeys
<1>9. QED
  BY <1>1, <1>5, <1>7, <1>8 DEF ReleaseInv, ExportOfOneSetup, ProofsVerified

LEMMA ServeInv ==
  ASSUME ReleaseInv, NEW file \in {"r1cs", "wasm"}, Serve(file)
  PROVE  ReleaseInv'
<1>1. /\ site \in [app : AppType, r1cs : Nat, wasm : Nat] /\ circuit \in Nat
      /\ site' = [site EXCEPT ![file] = circuit]
      /\ UNCHANGED <<circuit, setups, zkeys, deployedKeys, exports, cutShort, mixed, verifier, worker>>
  BY DEF Serve, ReleaseInv, ReleaseTypeOK, ceremony, exported
<1>2. site' \in [app : AppType, r1cs : Nat, wasm : Nat] /\ site'.app = site.app
  <2>1. CASE file = "r1cs"
    BY <1>1, <2>1
  <2>2. CASE file = "wasm"
    BY <1>1, <2>2
  <2>3. QED
    BY <2>1, <2>2
<1>3. ReleaseTypeOK'
  BY <1>1, <1>2 DEF ReleaseInv, ReleaseTypeOK, Setups, AppType
<1>4. Built' = Built
  BY <1>1, <1>2 DEF Built
<1>5. QED
  BY <1>1, <1>2, <1>3, <1>4
     DEF ReleaseInv, ExportOfOneSetup, BuiltOnExports, AppsHaveKeys, ProofsVerified

-----------------------------------------------------------------------------
(* The prover's worker.                                                    *)

\* The worker goes on with its app, is started with the site's, or is gone.
LEMMA WorkerInv ==
  ASSUME ReleaseInv,
         worker' \in [state : {"none", "loading", "ready", "proved"},
                      app : AppType, wasm : Nat, r1cs : Nat],
         worker'.app \in {worker.app, site.app, NoApp},
         worker'.state # "none" => worker'.app.key # Absent,
         worker'.state = "proved" => setups[worker'.app.key] = worker'.wasm,
         UNCHANGED <<circuit, ceremony, exported, verifier, site>>
  PROVE  ReleaseInv'
<1>1. UNCHANGED <<circuit, setups, zkeys, deployedKeys, exports, cutShort, mixed, verifier, site>>
  BY DEF ceremony, exported
<1>2. ReleaseTypeOK'
  BY <1>1 DEF ReleaseInv, ReleaseTypeOK, Setups, AppType
<1>3. \A b \in Built' : b \in Built \/ b.export = Absent
  BY <1>1 DEF Built, NoApp
<1>4. exports \in Nat
  BY DEF ReleaseInv, ReleaseTypeOK
<1>5. BuiltOnExports'
  <2>1. \A b \in Built' : b.export <= exports
    BY <1>3, <1>4 DEF ReleaseInv, BuiltOnExports, Absent
  <2>2. \A b, c \in Built' : b.export # Absent /\ b.export = c.export => b.key = c.key
    BY <1>3 DEF ReleaseInv, BuiltOnExports
  <2>3. \A b \in Built', i \in 1 .. 3 :
          b.export # Absent /\ b.export = exports /\ ~cutShort /\ deployedKeys[i] # Absent
         => deployedKeys[i] = b.key
    BY <1>3 DEF ReleaseInv, BuiltOnExports
  <2>4. QED
    BY <1>1, <2>1, <2>2, <2>3 DEF BuiltOnExports
<1>6. QED
  BY <1>1, <1>2, <1>5 DEF ReleaseInv, ExportOfOneSetup, AppsHaveKeys, ProofsVerified

LEMMA WorkerStep ==
  ASSUME ReleaseInv,
         StartWorker \/ Load \/ Prove \/ \E file \in {"r1cs", "wasm"} : Fetch(file)
  PROVE  ReleaseInv'
<1> DEFINE WorkerType == [state : {"none", "loading", "ready", "proved"},
                          app : AppType, wasm : Nat, r1cs : Nat]
<1>1. /\ worker \in WorkerType /\ site \in [app : AppType, r1cs : Nat, wasm : Nat]
      /\ Len(setups) \in Nat
  BY DEF ReleaseInv, ReleaseTypeOK
<1>2. NoWorker \in WorkerType /\ NoWorker.app = NoApp /\ NoWorker.state = "none"
  BY <1>1 DEF NoWorker, NoApp, AppType, Setups, Absent
<1>3. CASE StartWorker
  <2>1. worker' = [NoWorker EXCEPT !.state = "loading", !.app = site.app] /\ site.app # NoApp
        /\ UNCHANGED <<circuit, ceremony, exported, verifier, site>>
    BY <1>3 DEF StartWorker
  <2>2. worker' \in WorkerType /\ worker'.app = site.app /\ worker'.state = "loading"
    BY <1>1, <2>1 DEF NoWorker, Absent
  <2>3. worker'.app.key # Absent
    BY <2>1, <2>2 DEF ReleaseInv, AppsHaveKeys
  <2>4. QED
    BY <2>1, <2>2, <2>3, WorkerInv
<1>4. CASE Load
  <2>1. /\ worker.state = "loading"
        /\ UNCHANGED <<circuit, ceremony, exported, verifier, site>>
        /\ worker' = [worker EXCEPT !.state = "ready"] \/ worker' = NoWorker
    BY <1>4 DEF Load
  <2>2. /\ worker' \in WorkerType /\ worker'.app \in {worker.app, NoApp}
        /\ worker'.state # "none" => worker'.app = worker.app
        /\ worker'.state # "proved"
    BY <1>1, <1>2, <2>1
  <2>3. worker'.state # "none" => worker'.app.key # Absent
    BY <2>1, <2>2 DEF ReleaseInv, AppsHaveKeys
  <2>4. QED
    BY <2>1, <2>2, <2>3, WorkerInv
<1>5. CASE Prove
  <2>1. /\ worker.state = "ready" /\ Verifies
        /\ UNCHANGED <<circuit, ceremony, exported, verifier, site>>
        /\ worker' = [worker EXCEPT !.state = "proved"]
    BY <1>5 DEF Prove
  <2>2. worker' \in WorkerType /\ worker'.app = worker.app /\ worker'.wasm = worker.wasm
    BY <1>1, <2>1
  <2>3. worker'.app.key # Absent
    BY <2>1, <2>2 DEF ReleaseInv, AppsHaveKeys
  <2>4. setups[worker'.app.key] = worker'.wasm
    BY <2>1, <2>2 DEF Verifies
  <2>5. QED
    BY <2>1, <2>2, <2>3, <2>4, WorkerInv
<1>6. ASSUME NEW file \in {"r1cs", "wasm"}, Fetch(file) PROVE ReleaseInv'
  <2>1. /\ worker.state = "loading"
        /\ UNCHANGED <<circuit, ceremony, exported, verifier, site>>
        /\ worker' = [worker EXCEPT ![file] = site[file]] \/ worker' = NoWorker
    BY <1>6 DEF Fetch
  <2>2. CASE worker' = NoWorker
    BY <1>2, <2>1, <2>2, WorkerInv
  <2>3. CASE worker' = [worker EXCEPT ![file] = site[file]]
    <3>1. worker' \in WorkerType /\ worker'.app = worker.app /\ worker'.state = "loading"
      <4>1. CASE file = "r1cs"
        BY <1>1, <2>1, <2>3, <4>1
      <4>2. CASE file = "wasm"
        BY <1>1, <2>1, <2>3, <4>2
      <4>3. QED
        BY <4>1, <4>2
    <3>2. worker'.app.key # Absent
      BY <2>1, <3>1 DEF ReleaseInv, AppsHaveKeys
    <3>3. QED
      BY <2>1, <3>1, <3>2, WorkerInv
  <2>4. QED
    BY <2>1, <2>2, <2>3
<1>7. QED
  BY <1>3, <1>4, <1>5, <1>6

-----------------------------------------------------------------------------

LEMMA ReleaseStep ==
  ASSUME ReleaseInv, [ReleaseNext]_(releaseVars)
  PROVE  ReleaseInv'
<1>1. CASE UNCHANGED releaseVars
  BY <1>1
     DEF releaseVars, ceremony, exported, ReleaseInv, ReleaseTypeOK, Setups, AppType, ExportOfOneSetup,
         BuiltOnExports, Built, AppsHaveKeys, ProofsVerified
<1>2. CASE Compile
  <2>1. circuit \in Nat /\ circuit' = circuit + 1
        /\ UNCHANGED <<setups, zkeys, deployedKeys, exports, cutShort, mixed, verifier, site, worker>>
    BY <1>2 DEF Compile, ReleaseInv, ReleaseTypeOK, ceremony, exported
  <2>2. ReleaseTypeOK'
    BY <2>1 DEF ReleaseInv, ReleaseTypeOK, Setups, AppType
  <2>3. QED
    BY <2>1, <2>2
       DEF ReleaseInv, ExportOfOneSetup, BuiltOnExports, Built, AppsHaveKeys, ProofsVerified
<1>3. ASSUME NEW force \in BOOLEAN,
             \/ InitCeremony(force)
             \/ \E from \in DOMAIN zkeys : Contribute(from, force) \/ Finalize(from, force)
             \/ Export(force)
      PROVE  ReleaseInv'
  BY <1>3, CeremonyInv, ExportInv
<1>4. ASSUME NEW i \in DOMAIN ExportFiles, Remove(i) PROVE ReleaseInv'
  BY <1>4, RemoveInv
<1>5. CASE DeployVerifier \/ BuildApp
  BY <1>5, DeployVerifierInv, BuildAppInv
<1>6. ASSUME NEW file \in {"r1cs", "wasm"}, Serve(file) PROVE ReleaseInv'
  BY <1>6, ServeInv
<1>7. CASE StartWorker \/ Load \/ Prove \/ \E file \in {"r1cs", "wasm"} : Fetch(file)
  BY <1>7, WorkerStep
<1>8. QED
  BY <1>1, <1>2, <1>3, <1>4, <1>5, <1>6, <1>7 DEF ReleaseNext

LEMMA ReleaseInvariant == ReleaseSpec => []ReleaseInv
<1>1. QED
  BY ReleaseStarts, ReleaseStep, PTL DEF ReleaseSpec

(***************************************************************************)
(* Whatever is removed by hand and however often an export is cut short,   *)
(* the exported key files that are there are of one setup, unless the last *)
(* export was told to overwrite and did not end (ceremony-cli, export).    *)
(***************************************************************************)
THEOREM ExportsDoNotMix == ReleaseSpec => []ExportOfOneSetup
<1>1. ReleaseInv => ExportOfOneSetup
  BY DEF ReleaseInv
<1>2. QED
  BY <1>1, ReleaseInvariant, PTL

(***************************************************************************)
(* A proof that the prover's worker hands out is accepted by the verifier  *)
(* built on the same complete export, whatever is compiled, exported,      *)
(* deployed or served in between (prover worker, deploy.sh, build.rs).     *)
(***************************************************************************)
THEOREM HandedOutIsAccepted == ReleaseSpec => []ProofsAreAccepted
<1>1. ReleaseInv => ProofsAreAccepted
  <2> SUFFICES ASSUME ReleaseInv, worker.state = "proved", worker.app.export # Absent,
                      worker.app.export = verifier.export
               PROVE  Accepted
    BY DEF ProofsAreAccepted
  <2> DEFINE b == [key |-> verifier.key, export |-> verifier.export]
             c == [key |-> worker.app.key, export |-> worker.app.export]
  <2>1. b \in Built /\ c \in Built /\ b.export # Absent /\ b.export = c.export
    BY DEF Built
  <2>2. b.key = c.key
    BY <2>1 DEF ReleaseInv, BuiltOnExports
  <2>3. setups[worker.app.key] = worker.wasm
    BY DEF ReleaseInv, ProofsVerified
  <2>4. QED
    BY <2>2, <2>3 DEF Accepted
<1>2. QED
  BY <1>1, ReleaseInvariant, PTL

-----------------------------------------------------------------------------
(***************************************************************************)
(* The hash.  The three permutations agree for every modulus, every number *)
(* of rounds and every table of constants: their layers are the same sums  *)
(* in another order, and the round a loop of the library is at is the      *)
(* round the circuit has wired there.                                      *)
(***************************************************************************)

\* Reduction stays in the field and leaves its elements alone.
LEMMA Reduced ==
  /\ \A x \in Int : Fe(x) \in Field
  /\ \A x \in Field : Fe(x) = x
  /\ Field \subseteq Int
<1>1. Modulus \in Nat \ {0}
  BY FieldAssumption
<1>2. \A x \in Int : x % Modulus \in 0 .. Modulus - 1
  BY <1>1
<1>3. \A x \in 0 .. Modulus - 1 : x % Modulus = x
  BY <1>1
<1>4. 0 .. Modulus - 1 \subseteq Int
  OBVIOUS
<1> QED
  BY <1>2, <1>3, <1>4 DEF Field, Fe

\* A state of field elements is one of integers.
LEMMA FieldState ==
  ASSUME NEW w \in Widths, NEW s \in [1 .. w -> Field]
  PROVE  s \in [1 .. w -> Int]
  BY Reduced

\* Constants are integers, and rounds are counted by naturals.
LEMMA Constants ==
  /\ Rounds \in Nat
  /\ \A w \in Widths, r \in 0 .. Rounds - 1, j \in 1 .. 4 : RoundConstants[w][r][j] \in Int
<1>1. Rounds \in Nat
  BY FieldAssumption DEF Rounds
<1>2. RoundConstants \in [Widths -> [0 .. Rounds - 1 -> [1 .. 4 -> Int]]]
  BY FieldAssumption
<1> QED
  BY <1>1, <1>2

\* An element of a state and a constant of its place.
LEMMA Summand ==
  ASSUME NEW w \in Widths, NEW s \in [1 .. w -> Int],
         NEW r \in 0 .. Rounds - 1, NEW j \in 1 .. w
  PROVE  s[j] + RoundConstants[w][r][j] \in Int
<1>1. s[j] \in Int
  OBVIOUS
<1>2. w \in Int /\ w <= 4
  BY DEF Widths
<1>3. j \in 1 .. 4
  BY <1>2
<1>4. RoundConstants[w][r][j] \in Int
  BY <1>3, Constants
<1> QED
  BY <1>1, <1>4

\* The S-box stays in the field.
LEMMA SboxInField == \A x \in Int : SboxP(x) \in Field
<1> TAKE x \in Int
<1> DEFINE square == Fe(x * x)
<1>1. square \in Int
  <2>1. x * x \in Int
    OBVIOUS
  <2> QED
    BY <2>1, Reduced
<1>2. Fe(square * square) \in Int
  <2> HIDE DEF square
  <2>1. square * square \in Int
    BY <1>1
  <2> QED
    BY <2>1, Reduced
<1>3. Fe(square * square) * x \in Int
  <2> HIDE DEF square
  <2> DEFINE fourth == Fe(square * square)
  <2>1. fourth \in Int
    BY <1>2
  <2> HIDE DEF fourth
  <2>2. fourth * x \in Int
    BY <2>1
  <2> QED
    BY <2>2 DEF fourth
<1> QED
  BY <1>3, Reduced DEF SboxP

\* The sum of a state of integers is one.
LEMMA TotalInInt ==
  ASSUME NEW w \in Widths, NEW s \in [1 .. w -> Int]
  PROVE  Total(w, s) \in Int
<1>1. w = 2 \/ w = 3 \/ w = 4
  BY DEF Widths
<1>2. CASE w = 2
  BY <1>2 DEF Total
<1>3. CASE w = 3
  BY <1>3 DEF Total
<1>4. CASE w = 4
  BY <1>4 DEF Total
<1> QED
  BY <1>1, <1>2, <1>3, <1>4

\* The external layer: the library's and the circuit's are the same states.
LEMMA ExternalLayer ==
  ASSUME NEW w \in Widths, NEW s \in [1 .. w -> Int]
  PROVE  /\ LinearLayer(w, s) = MatmulExternal(w, s)
         /\ MatmulExternal(w, s) \in [1 .. w -> Field]
<1>1. CASE w = 4
  <2>1. MatmulM4(s) \in [1 .. 4 -> Field]
    BY <1>1, Reduced DEF MatmulM4
  <2> QED
    BY <1>1, <2>1 DEF LinearLayer, MatmulExternal
<1>2. CASE w # 4
  <2>1. \A j \in 1 .. w : s[j] + Total(w, s) = Total(w, s) + s[j]
    BY TotalInInt
  <2>2. \A j \in 1 .. w : s[j] + Total(w, s) \in Int
    BY TotalInInt
  <2> QED
    BY <1>2, <2>1, <2>2, Reduced DEF LinearLayer, MatmulExternal
<1> QED
  BY <1>1, <1>2

\* A full round of library and host is a round of the circuit.
LEMMA FullRound ==
  ASSUME NEW w \in Widths, NEW s \in [1 .. w -> Int],
         NEW r \in 0 .. Rounds - 1, ~InPartial(r)
  PROVE  /\ CircuitRound(w, s, r) = MatmulExternal(w, Sbox(w, AddRc(w, s, RoundConstants[w][r])))
         /\ MatmulExternal(w, Sbox(w, AddRc(w, s, RoundConstants[w][r]))) \in [1 .. w -> Field]
<1> DEFINE i == IF r < HalfFull THEN r ELSE r - Partial
           rc == RoundConstants[w][r]
           boxed == [j \in 1 .. w |-> SboxP(Fe(s[j] + rc[j]))]
<1>1. CircuitRound(w, s, r) = ExternalRound(w, s, i)
  <2>1. r < HalfFull \/ ~(r < HalfFull \/ r < HalfFull + Partial)
    BY FieldAssumption DEF InPartial, Rounds
  <2>2. QED
    BY <2>1 DEF CircuitRound
<1>2. FullRounds(w, i) = rc
  <2>1. r = IF i < HalfFull THEN i ELSE i + Partial
    BY FieldAssumption, SMTT(30) DEF InPartial, Rounds
  <2> QED
    BY <2>1 DEF FullRounds
<1>3. \A j \in 1 .. w : s[j] + rc[j] \in Int
  BY Summand
<1>4. boxed \in [1 .. w -> Int]
  <2>1. \A j \in 1 .. w : Fe(s[j] + rc[j]) \in Int
    BY <1>3, Reduced
  <2> QED
    BY <2>1, SboxInField, Reduced
<1>5. Sbox(w, AddRc(w, s, rc)) = boxed
  BY DEF Sbox, AddRc
<1>6. ExternalRound(w, s, i) = LinearLayer(w, boxed)
  BY <1>2 DEF ExternalRound
<1> QED
  BY <1>1, <1>4, <1>5, <1>6, ExternalLayer

\* The internal layer: adding a multiple of the diagonal is what the library
\* does by doubling, and what the host does with the contracts' diagonal.
LEMMA InternalLayer ==
  ASSUME NEW w \in Widths, NEW s \in [1 .. w -> Int]
  PROVE  /\ [j \in 1 .. w |-> Fe(Total(w, s) + s[j] * Diagonal(w, j))] = MatmulInternal(w, s)
         /\ w < 4 => [j \in 1 .. w |-> Fe(s[j] * ContractDiagonal(w, j) + Total(w, s))]
                     = MatmulInternal(w, s)
         /\ MatmulInternal(w, s) \in [1 .. w -> Field]
<1> DEFINE T == Total(w, s)
<1>0. T \in Int /\ \A j \in 1 .. w : s[j] \in Int
  BY TotalInInt
<1>1. CASE w = 2
  <2>1. \A j \in 1 .. 2 :
          /\ T + s[j] * Diagonal(2, j) = (IF j = 2 THEN 2 * s[j] ELSE s[j]) + T
          /\ s[j] * ContractDiagonal(2, j) + T = (IF j = 2 THEN 2 * s[j] ELSE s[j]) + T
          /\ (IF j = 2 THEN 2 * s[j] ELSE s[j]) + T \in Int
    BY <1>0, <1>1 DEF Diagonal, ContractDiagonal
  <2> HIDE DEF T
  <2> QED
    BY <1>1, <2>1, Reduced DEF MatmulInternal, T
<1>2. CASE w = 3
  <2>1. \A j \in 1 .. 3 :
          /\ T + s[j] * Diagonal(3, j) = (IF j = 3 THEN 2 * s[j] ELSE s[j]) + T
          /\ s[j] * ContractDiagonal(3, j) + T = (IF j = 3 THEN 2 * s[j] ELSE s[j]) + T
          /\ (IF j = 3 THEN 2 * s[j] ELSE s[j]) + T \in Int
    BY <1>0, <1>2 DEF Diagonal, ContractDiagonal
  <2> QED
    BY <1>2, <2>1, Reduced DEF MatmulInternal
<1>3. CASE w = 4
  <2>1. \A j \in 1 .. 4 : s[j] * Diagonal4[j] \in Int
    BY <1>0, <1>3, FieldAssumption
  <2>2. \A j \in 1 .. 4 :
          /\ T + s[j] * Diagonal(4, j) = s[j] * Diagonal4[j] + T
          /\ s[j] * Diagonal4[j] + T \in Int
    BY <1>0, <2>1 DEF Diagonal
  <2> QED
    BY <1>3, <2>2, Reduced DEF MatmulInternal
<1> QED
  BY <1>1, <1>2, <1>3 DEF Widths

\* A partial round of library and host is a round of the circuit.
LEMMA PartialRound ==
  ASSUME NEW w \in Widths, NEW s \in [1 .. w -> Int],
         NEW r \in 0 .. Rounds - 1, InPartial(r)
  PROVE  /\ CircuitRound(w, s, r) = LibraryRound(w, s, r)
         /\ w < 4 => HostRound(w, s, r) = LibraryRound(w, s, r)
         /\ LibraryRound(w, s, r) \in [1 .. w -> Field]
<1> DEFINE rc == RoundConstants[w][r]
           x == [s EXCEPT ![1] = SboxP(Fe(s[1] + rc[1]))]
<1>1. CircuitRound(w, s, r) = InternalRound(w, s, r - HalfFull)
  BY FieldAssumption DEF CircuitRound, InPartial
<1>2. PartialRounds(w, r - HalfFull) = rc[1]
  BY FieldAssumption DEF PartialRounds, InPartial
<1>3. SboxP(Fe(s[1] + rc[1])) \in Int
  <2>1. s[1] + rc[1] \in Int
    <3>1. 1 \in 1 .. w
      BY DEF Widths
    <3> QED
      BY <3>1, Summand
  <2>2. Fe(s[1] + rc[1]) \in Int
    BY <2>1, Reduced
  <2> QED
    BY <2>2, SboxInField, Reduced
<1>4. x \in [1 .. w -> Int]
  BY <1>3
<1>5. x = [j \in 1 .. w |-> IF j = 1 THEN SboxP(Fe(s[1] + rc[1])) ELSE s[j]]
  OBVIOUS
<1>6. InternalRound(w, s, r - HalfFull) = [j \in 1 .. w |-> Fe(Total(w, x) + x[j] * Diagonal(w, j))]
  BY <1>2, <1>5 DEF InternalRound
<1>7. LibraryRound(w, s, r) = MatmulInternal(w, x)
  BY DEF LibraryRound
<1>8. HostRound(w, s, r) = [j \in 1 .. w |-> Fe(x[j] * ContractDiagonal(w, j) + Total(w, x))]
  BY DEF HostRound
<1> HIDE DEF x
<1> QED
  BY <1>1, <1>4, <1>6, <1>7, <1>8, InternalLayer

-----------------------------------------------------------------------------

\* The states agree and are states of the width.
Inv ==
  /\ t \in Widths /\ input \in [1 .. t -> Field] /\ round \in 0 .. Rounds
  /\ current_state \in [1 .. t -> Field]
  /\ RoundsAgree

LEMMA InitInv == Init => Inv
<1> SUFFICES ASSUME Init PROVE Inv
  OBVIOUS
<1>1. t \in Widths /\ input \in [1 .. t -> Int] /\ 0 \in 0 .. Rounds
  BY FieldState, Constants DEF Init
<1> QED
  BY <1>1, ExternalLayer DEF Init, Inv, RoundsAgree

LEMMA NextInv == Inv /\ [Round]_vars => Inv'
<1> SUFFICES ASSUME Inv, [Round]_vars PROVE Inv'
  OBVIOUS
<1>1. CASE Round
  <2>1. t \in Widths /\ current_state \in [1 .. t -> Int] /\ round \in 0 .. Rounds - 1
    <3>1. round \in 0 .. Rounds - 1
      BY <1>1, Constants DEF Inv, Round
    <3> QED
      BY <3>1, FieldState DEF Inv
  <2>2. /\ CircuitRound(t, current_state, round) = LibraryRound(t, current_state, round)
        /\ t < 4 => HostRound(t, current_state, round) = LibraryRound(t, current_state, round)
        /\ LibraryRound(t, current_state, round) \in [1 .. t -> Field]
    <3>1. CASE InPartial(round)
      BY <2>1, <3>1, PartialRound
    <3>2. CASE ~InPartial(round)
      <4>1. LibraryRound(t, current_state, round)
            = MatmulExternal(t, Sbox(t, AddRc(t, current_state, RoundConstants[t][round])))
        BY <3>2 DEF LibraryRound
      <4>2. HostRound(t, current_state, round)
            = MatmulExternal(t, Sbox(t, AddRc(t, current_state, RoundConstants[t][round])))
        BY <3>2 DEF HostRound
      <4> QED
        BY <2>1, <3>2, <4>1, <4>2, FullRound
    <3> QED
      BY <3>1, <3>2
  <2>3. round' \in 0 .. Rounds
    BY <1>1, <2>1, Constants DEF Round
  <2>4. current_state' \in [1 .. t -> Field] /\ aux' = current_state' /\ (t < 4 => host' = current_state')
    BY <1>1, <2>2 DEF Inv, RoundsAgree, Round
  <2> QED
    BY <1>1, <2>1, <2>3, <2>4 DEF Inv, RoundsAgree, Round
<1>2. CASE UNCHANGED vars
  BY <1>2 DEF vars, Inv, RoundsAgree
<1> QED
  BY <1>1, <1>2

\* The feed-forward is reduced by each of the three to the same element.
LEMMA InvHashes == Inv => HashesAgree
<1> SUFFICES ASSUME Inv PROVE HashesAgree
  OBVIOUS
<1>1. current_state[1] \in Field /\ Feed \in Field
  BY FieldAssumption DEF Inv, Feed, Widths, Field
<1>2. /\ current_state[1] + Feed \in Int
      /\ current_state[1] + Feed < Modulus => current_state[1] + Feed \in Field
  BY <1>1, FieldAssumption DEF Field
<1>3. t < 4 => ContractHash = Hash
  BY <1>2, Reduced DEF Inv, RoundsAgree, ContractHash, Hash
<1> QED
  BY <1>3 DEF Inv, RoundsAgree, HashesAgree, CircuitHash, Hash

(***************************************************************************)
(* poseidon2.rs, poseidon2_perm.circom and soroban-utils agree on every    *)
(* input: for every modulus, number of rounds and table of constants.      *)
(***************************************************************************)
THEOREM HashesAlwaysAgree == Spec => []HashesAgree
<1>1. Init => Inv
  BY InitInv
<1>2. Inv /\ [Round]_vars => Inv'
  BY NextInv
<1>3. Inv => HashesAgree
  BY InvHashes
<1> QED
  BY <1>1, <1>2, <1>3, PTL DEF Spec
=============================================================================
