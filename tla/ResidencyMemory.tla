---------------------------- MODULE ResidencyMemory ----------------------------
(***************************************************************************)
(* The peak-memory bound of the paper, stated of the run of                *)
(* ResidencyHarness: theoretical_peak_ram_mb evaluated on the footprints   *)
(* of the configured profiles bounds what the runtime and the resident     *)
(* models occupy at any moment.                                            *)
(***************************************************************************)
EXTENDS ResidencyHarness, FiniteSetsExt

CONSTANTS
    Footprint,                             \* memory of each model, in MB
    BaseMb, GuardrailMb, RouterMb, TransientMb

ASSUME MemoryAssumption ==
    /\ \A m \in Models : Footprint[m] \in Nat
    /\ {BaseMb, GuardrailMb, RouterMb, TransientMb} \subseteq Nat

\* Mutant: the smallest footprint is taken.
theoretical_peak_ram_mb_Min(footprints) ==
    BaseMb + GuardrailMb + RouterMb + Min(footprints) + TransientMb

\* The upper bound under strict single-model residency.
theoretical_peak_ram_mb(footprints) ==
    BaseMb + GuardrailMb + RouterMb + Max(footprints) + TransientMb

ConfiguredPeak == theoretical_peak_ram_mb({Footprint[m] : m \in RequiredModels})

\* What is really occupied: fixed terms and every resident model.
OccupiedMb ==
    BaseMb + GuardrailMb + RouterMb + TransientMb
        + MapThenSumSet(LAMBDA m : Footprint[m], resident)

\* From the first barrier on, memory stays under the bound computed from the
\* profiles, though the resident models change with every routed item.
PeakMemoryBound == Armed => OccupiedMb <= ConfiguredPeak
================================================================================
