-------------------------- MODULE ResidencyAbstract --------------------------
(***************************************************************************)
(* What serialized specialist residency promises, with no mention of how   *)
(* the measurement harness obtains it: whatever models the host holds when *)
(* the run begins may leave one by one, and a model is only ever brought   *)
(* into memory when no other model is there.                               *)
(***************************************************************************)
CONSTANT Models

VARIABLE resident   \* the models the backend holds in memory

AbstractInit == resident \in SUBSET Models

\* A model leaves memory: unloaded, or its keep-alive ran out.
Leave(m) ==
    /\ m \in resident
    /\ resident' = resident \ {m}

\* A model enters memory, alone.
EnterAlone(m) ==
    /\ resident \subseteq {m}
    /\ resident' = {m}

AbstractNext == \E m \in Models : Leave(m) \/ EnterAlone(m)

AbstractSpec == AbstractInit /\ [][AbstractNext]_resident
==============================================================================
