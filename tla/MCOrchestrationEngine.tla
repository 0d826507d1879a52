----------------------- MODULE MCOrchestrationEngine ------------------------
(***************************************************************************)
(* Instances of the engine for TLC: one project with one thread that is    *)
(* created, given a turn (two events) and deleted, in any order and any    *)
(* number of times.                                                        *)
(***************************************************************************)
EXTENDS OrchestrationEngineInvariants, TLC

CONSTANTS p1, t1, k1, k2

MCCommand(id, type) ==
    [commandId |-> id, type |-> type, projectId |-> p1, threadId |-> t1, source |-> NoThread]

CreateProject == MCCommand("c1", "project.create")
CreateThread == MCCommand("c2", "thread.create")
StartTurn == MCCommand("c3", "thread.turn.start")
DeleteThread == MCCommand("c4", "thread.delete")
CreateThreadAgain == MCCommand("c5", "thread.create")

MCProjects == {p1}
MCThreads == {t1}
MCCallers == {k1, k2}
MCCommands == {CreateProject, CreateThread, StartTurn, CreateThreadAgain}
MCOpenStore == {CreateProject, CreateThread, StartTurn}
MCLifecycle == {CreateProject, CreateThread, StartTurn, DeleteThread}

MCProjectorOrder == <<"projection.thread-proposed-plans", "projection.threads">>
MCInitialProjectors == {"projection.threads"}

Symmetry == Permutations({k1, k2})
=============================================================================
