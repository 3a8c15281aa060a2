---------------------------- MODULE MCWorkerPool ----------------------------
(* Small instances of WorkerPool for TLC. *)
EXTENDS WorkerPool, TLC

CONSTANTS
    workflow, provider   \* two extensions with process workers

NoExtension   == {}
OneExtension  == {workflow}
TwoExtensions == {workflow, provider}

\* Clients call workflow, whose workers call provider.
Nested    == {<<Client, workflow>>, <<workflow, provider>>}
\* Clients call workflow, whose workers may call workflow again.
Reentrant == {<<Client, workflow>>, <<workflow, workflow>>}
\* Workers do not call the host.
Flat      == {<<Client, workflow>>}

Symmetry == Permutations(Rpcs)
=============================================================================
