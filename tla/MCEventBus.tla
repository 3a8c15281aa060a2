----------------------------- MODULE MCEventBus -----------------------------
(* Small instances of EventBus for TLC. *)
EXTENDS EventBus

CONSTANTS process, wasm   \* a hook handler of either kind of worker

BothHandlers == {process, wasm}
OnlyWasm     == {wasm}

\* The hooks of an event, by priority.
Hooks == {<<process, wasm>>, <<wasm>>}
=============================================================================
