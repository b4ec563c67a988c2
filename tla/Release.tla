------------------------------- MODULE Release -------------------------------
(***************************************************************************)
(* The keys on their way from the ceremony to a proof: ceremony-cli makes  *)
(* the setups and exports the last of them into deployments/, deploy.sh    *)
(* builds the verifier contract on the exported vk.json, the web build     *)
(* embeds the exported proving key and the hashes of the circuit files     *)
(* published then, and the prover's worker fetches whatever circuit files  *)
(* the site serves.  Nothing but the files ties these steps together.      *)
(*                                                                         *)
(* A circuit file is known by the version of the circuit, a key by the     *)
(* number of its setup, and a setup by the circuit it is for.              *)
(***************************************************************************)
EXTENDS Integers, Sequences

CONSTANTS
  MaxCircuits,  \* bound on the versions of the circuit
  MaxSetups,    \* bound on the zkeys made
  MaxExports    \* bound on the exports

Absent == 0

\* The exported files in the order they are written; vk_soroban and vk_const
\* hold what vk.json holds and are one here.
ExportFiles == <<"proving_key", "vk", "vk_copies">>
ProvingKey == 1
Vk == 2

VARIABLES
  circuit,     \* version of the circuit files published under target/
  setups,      \* the circuit of every setup made
  zkeys,       \* the zkey file of each step of the ceremony -> setup
  deployedKeys, \* deployments/testnet/circuit_keys: key file -> setup
  exports,     \* exports begun
  cutShort,    \* the last of them did not end
  mixed,       \* it was told to overwrite
  verifier,    \* the verifier of the deployed pools: key, and export
  site,        \* what is served: the app, r1cs and wasm
  worker       \* the prover's worker in a browser

ceremony == <<setups, zkeys>>
exported == <<deployedKeys, exports, cutShort, mixed>>
releaseVars == <<circuit, ceremony, exported, verifier, site, worker>>

NoApp == [key |-> Absent, circuit |-> Absent, export |-> Absent]
NoWorker == [state |-> "none", app |-> NoApp, wasm |-> Absent, r1cs |-> Absent]

ReleaseInit ==
  /\ circuit = 1
  /\ setups = <<>> /\ zkeys = [step \in {"init", "contribution", "final"} |-> Absent]
  /\ deployedKeys = [i \in DOMAIN ExportFiles |-> Absent] /\ exports = 0
  /\ cutShort = FALSE /\ mixed = FALSE
  /\ verifier = [key |-> Absent, export |-> Absent]
  /\ site = [app |-> NoApp, r1cs |-> Absent, wasm |-> Absent]
  /\ worker = NoWorker

\* The circuits build publishes a new r1cs and wasm (CircuitsBuild).
Compile ==
  /\ circuit < MaxCircuits /\ circuit' = circuit + 1
  /\ UNCHANGED <<ceremony, exported, verifier, site, worker>>

-----------------------------------------------------------------------------
(* The ceremony.                                                           *)

\* assert_output_allowed.
Allowed(old, force) == old = Absent \/ force

\* snarkjs writes a zkey; what is verified after that is on disk already, so
\* a failure leaves a file of either kind or none.
Make(step, forCircuit, force) ==
  /\ Allowed(zkeys[step], force)
  /\ Len(setups) < MaxSetups
  /\ setups' = Append(setups, forCircuit)
  /\ zkeys' = [zkeys EXCEPT ![step] = Len(setups) + 1]
  /\ UNCHANGED <<circuit, exported, verifier, site, worker>>

\* The circuit is the one discovered under target/.
InitCeremony(force) == Make("init", circuit, force)

\* The input is verified against the circuit before it is used; it comes from
\* the coordinator or from the contributor before.
Contribute(input, force) ==
  /\ input \in {"init", "contribution"} /\ zkeys[input] # Absent
  /\ setups[zkeys[input]] = circuit
  /\ Make("contribution", circuit, force)

\* Nothing is verified here.  The verification key written beside the zkey is
\* refused as the zkey is; it is never there without it.
Finalize(input, force) ==
  /\ input \in {"init", "contribution"} /\ zkeys[input] # Absent
  /\ Make("final", setups[zkeys[input]], force)

-----------------------------------------------------------------------------
(* The export and the builds that use it.                                  *)

\* Variant: the first file answers for all.
FirstAllowed(force) == Allowed(deployedKeys[ProvingKey], force)

ExportAllowed(force) == \A i \in DOMAIN ExportFiles : Allowed(deployedKeys[i], force)

\* export_deployment of the final zkey, which may end after any file.
Export(force) ==
  /\ zkeys["final"] # Absent
  /\ ExportAllowed(force)
  /\ exports < MaxExports /\ exports' = exports + 1
  /\ \E written \in 0 .. Len(ExportFiles) :
       /\ deployedKeys' = [i \in DOMAIN ExportFiles |-> IF i <= written THEN zkeys["final"] ELSE deployedKeys[i]]
       /\ cutShort' = (written < Len(ExportFiles))
  /\ mixed' = force
  /\ UNCHANGED <<circuit, ceremony, verifier, site, worker>>

\* A key file is removed by hand.
Remove(i) ==
  /\ deployedKeys[i] # Absent
  /\ deployedKeys' = [deployedKeys EXCEPT ![i] = Absent]
  /\ UNCHANGED <<circuit, ceremony, exports, cutShort, mixed, verifier, site, worker>>

\* The export a build can rely on.
CompleteExport == IF cutShort THEN Absent ELSE exports

\* deploy.sh builds the verifier on vk.json and deploys it with new pools.
DeployVerifier ==
  /\ deployedKeys[Vk] # Absent
  /\ verifier' = [key |-> deployedKeys[Vk], export |-> CompleteExport]
  /\ UNCHANGED <<circuit, ceremony, exported, site, worker>>

\* include_bytes! of the proving key, and web/build.rs's hashes of it and of
\* the circuit files; the build replaces the app that is served.
BuildApp ==
  /\ deployedKeys[ProvingKey] # Absent
  /\ site' = [site EXCEPT !.app =
       [key |-> deployedKeys[ProvingKey], circuit |-> circuit, export |-> CompleteExport]]
  /\ UNCHANGED <<circuit, ceremony, exported, verifier, worker>>

\* The circuit files beside it are replaced one by one.
Serve(file) ==
  /\ site.app # NoApp /\ site[file] # circuit
  /\ site' = [site EXCEPT ![file] = circuit]
  /\ UNCHANGED <<circuit, ceremony, exported, verifier, worker>>


-----------------------------------------------------------------------------
(* The prover's worker.                                                    *)

\* The page is opened, or opened again.
StartWorker ==
  /\ site.app # NoApp
  /\ worker' = [NoWorker EXCEPT !.state = "loading", !.app = site.app]
  /\ UNCHANGED <<circuit, ceremony, exported, verifier, site>>

\* load_circuit_artifacts: two fetches at the same time.  A worker that fails
\* to load its artifacts is none: it answers no request.
Fetch(file) ==
  /\ worker.state = "loading" /\ worker[file] = Absent
  /\ worker' = IF site[file] = Absent THEN NoWorker
               ELSE [worker EXCEPT ![file] = site[file]]
  /\ UNCHANGED <<circuit, ceremony, exported, verifier, site>>

\* ensure_sha256_matches of the three files, and Prover::new, which compares
\* the key with the circuit by the number of public inputs alone.
Load ==
  /\ worker.state = "loading" /\ worker.r1cs # Absent /\ worker.wasm # Absent
  /\ worker' = IF worker.r1cs = worker.app.circuit /\ worker.wasm = worker.app.circuit
               THEN [worker EXCEPT !.state = "ready"] ELSE NoWorker
  /\ UNCHANGED <<circuit, ceremony, exported, verifier, site>>

\* Variant: a proof is handed out as it is made.
AnyProof == TRUE

\* A proof verifies under the verification key in the proving key when the
\* witness is one of the circuit the key is for.
Verifies == worker.r1cs = worker.wasm /\ setups[worker.app.key] = worker.r1cs

\* prove_from_artifacts: no proof is handed out that fails prover.verify.
Prove ==
  /\ worker.state = "ready"
  /\ Verifies
  /\ worker' = [worker EXCEPT !.state = "proved"]
  /\ UNCHANGED <<circuit, ceremony, exported, verifier, site>>

ReleaseNext ==
  \/ Compile
  \/ \E force \in BOOLEAN :
       \/ InitCeremony(force)
       \/ \E input \in DOMAIN zkeys : Contribute(input, force) \/ Finalize(input, force)
       \/ Export(force)
  \/ \E i \in DOMAIN ExportFiles : Remove(i)
  \/ DeployVerifier \/ BuildApp \/ StartWorker \/ Load \/ Prove
  \/ \E file \in {"r1cs", "wasm"} : Serve(file) \/ Fetch(file)

ReleaseSpec == ReleaseInit /\ [][ReleaseNext]_releaseVars

-----------------------------------------------------------------------------
(* Correctness.                                                            *)

\* verify_with_vk of the deployed verifier: a proof of the circuit its key is
\* for, made with the proving key of the same setup.
Accepted == verifier.key = worker.app.key /\ setups[verifier.key] = worker.wasm

(***************************************************************************)
(* The exported files that are there are of one setup, unless an export    *)
(* that was told to overwrite was cut short: whatever was removed by hand, *)
(* an export never completes what another one left.                        *)
(***************************************************************************)
ExportOfOneSetup ==
  ~(cutShort /\ mixed) =>
    \A i, j \in {i \in DOMAIN ExportFiles : deployedKeys[i] # Absent} : deployedKeys[i] = deployedKeys[j]

(***************************************************************************)
(* A proof the worker hands out is accepted by the verifier built on the   *)
(* same complete export, whatever circuit was compiled, exported or served *)
(* since, and however the site changed while the worker was loading.       *)
(***************************************************************************)
ProofsAreAccepted ==
  worker.state = "proved" /\ worker.app.export # Absent /\ worker.app.export = verifier.export =>
    Accepted
=============================================================================
